---------------------------- MODULE VenueHealth ----------------------------
(***************************************************************************)
(* The state of one venue and the HealthMonitor that probes it. A probe is *)
(* load_markets through the decorators: it waits for a token, and does     *)
(* nothing once somebody has loaded the markets. Requests ask the state    *)
(* whether the venue is operational and tell it nothing.                   *)
(***************************************************************************)
EXTENDS Integers, SequencesExt

CONSTANTS
    ErrorsBeforeDegraded,      \* 3
    SuccessesBeforeHealthy     \* 5

ASSUME HealthAssumption ==
    /\ SuccessesBeforeHealthy \in Nat \ {0}
    /\ ErrorsBeforeDegraded \in 1 .. SuccessesBeforeHealthy

VARIABLES
    kind, errorCount, successStreak,
    loaded,       \* CCXTProvider._markets_loaded
    probe,        \* "off", "waiting", "loading", "blind"
    recent        \* history: the last SuccessesBeforeHealthy outcomes

healthVars == <<kind, errorCount, successStreak, loaded, probe, recent>>

Kinds == {"healthy", "degraded", "rate_limited", "down"}

HealthInit ==
    /\ kind = "healthy" /\ errorCount = 0 /\ successStreak = 0
    /\ loaded = FALSE
    /\ probe = "off"
    /\ recent = <<>>

\* DOWN raises; RATE_LIMITED raises during its cooldown.
Operational == kind \notin {"rate_limited", "down"}

NextKindHealsAtOnce(outcome, errs, oks) ==      \* Mutant of NextKind
    CASE kind = "healthy" /\ outcome = "rate_limited" -> "rate_limited"
      [] kind = "healthy" /\ outcome \in {"error", "timeout"} /\ errs >= ErrorsBeforeDegraded -> "degraded"
      [] kind = "degraded" /\ outcome = "rate_limited" -> "rate_limited"
      [] kind = "degraded" /\ outcome = "ok" -> "healthy"
      [] OTHER -> kind

\* What the handler of a kind makes of an outcome, with the counters moved.
NextKind(outcome, errs, oks) ==
    CASE kind = "healthy" /\ outcome = "rate_limited" -> "rate_limited"
      [] kind = "healthy" /\ outcome \in {"error", "timeout"} /\ errs >= ErrorsBeforeDegraded -> "degraded"
      [] kind = "degraded" /\ outcome = "rate_limited" -> "rate_limited"
      [] kind = "degraded" /\ outcome = "ok" /\ oks >= SuccessesBeforeHealthy -> "healthy"
      [] OTHER -> kind

\* on_request_succeeded and on_request_failed. Above their limits the counters
\* decide nothing more: there they stay.
Outcome(outcome) ==
    LET errs == IF outcome = "ok" THEN 0 ELSE errorCount + 1
        oks == IF outcome = "ok" THEN successStreak + 1 ELSE 0
        next == NextKind(outcome, errs, oks)
    IN  /\ kind' = next
        /\ errorCount' = IF next # kind THEN 0 ELSE Min({errs, ErrorsBeforeDegraded})
        /\ successStreak' = IF next # kind THEN 0 ELSE Min({oks, SuccessesBeforeHealthy})

MonitorStarts ==
    /\ probe = "off"
    /\ probe' = "waiting"
    /\ UNCHANGED <<kind, errorCount, successStreak, loaded, recent>>

\* The task is cancelled, in the middle of a probe or between two.
MonitorStops ==
    /\ probe # "off"
    /\ probe' = "off"
    /\ UNCHANGED <<kind, errorCount, successStreak, loaded, recent>>

\* The interval is over and a token was to be had.
ProbeBegins ==
    /\ probe = "waiting"
    /\ probe' = IF loaded THEN "blind" ELSE "loading"
    /\ UNCHANGED <<kind, errorCount, successStreak, loaded, recent>>

Note(outcome) ==
    recent' = SubSeq(<<outcome>> \o recent, 1, Min({Len(recent) + 1, SuccessesBeforeHealthy}))

ProbeSucceeds ==
    /\ probe \in {"loading", "blind"}
    /\ probe' = "waiting"
    /\ loaded' = TRUE
    /\ Outcome("ok")
    /\ Note("ok")

\* What load_markets raises is not translated: an error, never a rate limit.
ProbeFails ==
    /\ probe = "loading"
    /\ probe' = "waiting"
    /\ Outcome("error")
    /\ Note("error")
    /\ UNCHANGED loaded

HealthStep == \/ MonitorStarts \/ MonitorStops
              \/ ProbeBegins \/ ProbeSucceeds \/ ProbeFails
=============================================================================
