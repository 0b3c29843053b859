--------------------------- MODULE TradeLifecycle ---------------------------
(* What the paper ledger promises of a trade, whatever sessions, crashes and *)
(* failures interleave: it is opened at most once, decided (closed or        *)
(* abandoned) at most once, and its decision is never revised; paper_reset   *)
(* wipes the whole table and a wiped trade does not come back.               *)

CONSTANT Trades

VARIABLES
    state,  \* trade -> "new", "running", "closed", "abandoned", "gone"
    reason  \* trade -> what decided it, "none" before

lifeVars == <<state, reason>>

CloseReason == {"hit", "manual"}

LifeInit ==
    /\ state = [t \in Trades |-> "new"]
    /\ reason = [t \in Trades |-> "none"]

Move(t, from, to, why) ==
    /\ state[t] = from
    /\ state' = [state EXCEPT ![t] = to]
    /\ reason' = [reason EXCEPT ![t] = why]

Open(t) == Move(t, "new", "running", "none")
Refuse(t) == Move(t, "new", "gone", "none")
Close(t) == \E why \in CloseReason : Move(t, "running", "closed", why)
Abandon(t) == Move(t, "running", "abandoned", "abandoned")

Wipe ==
    /\ state' = [t \in Trades |-> IF state[t] = "new" THEN "new" ELSE "gone"]
    /\ reason' = [t \in Trades |-> "none"]

\* A crash ends every request that was about to open a trade at once.
RefuseMany ==
    /\ \E ts \in SUBSET {t \in Trades : state[t] = "new"} :
          state' = [t \in Trades |-> IF t \in ts THEN "gone" ELSE state[t]]
    /\ UNCHANGED reason

LifeNext ==
    \/ \E t \in Trades : Open(t) \/ Refuse(t) \/ Close(t) \/ Abandon(t)
    \/ Wipe \/ RefuseMany

LifeSpec == LifeInit /\ [][LifeNext]_lifeVars
=============================================================================
