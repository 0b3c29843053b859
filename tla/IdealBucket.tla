---------------------------- MODULE IdealBucket ----------------------------
(* What a rate limiter promises: a bucket that fills steadily and does not  *)
(* overflow, from which a token is taken only when it is there.  TokenBucket *)
(* implements it without a timer, by refilling when it is asked.            *)
EXTENDS Naturals

CONSTANTS Full, Rate, Unit  \* the full bucket, what a tick adds, one token

VARIABLE level

Fill == level' = IF level + Rate <= Full THEN level + Rate ELSE Full
Take == level >= Unit /\ level' = level - Unit

IdealSpec == level = Full /\ [][Fill \/ Take]_level
=============================================================================
