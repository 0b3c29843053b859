--------------------------- MODULE WatchLifecycle ---------------------------
(* What a position watch promises to the code that starts it: it is hit at    *)
(* most once, its handler runs only after a hit, and its verdict is final.    *)
(* PositionWatch implements it in detail; every watch of PaperLedger does.    *)

VARIABLES
    stage,   \* "unused", "watching", "handling" a hit, "done"
    verdict  \* "running", "hit", "error", "cancelled", "lost" with its server

stageVars == <<stage, verdict>>

WatchInit == stage = "unused" /\ verdict = "running"

Begin == stage = "unused" /\ stage' = "watching" /\ UNCHANGED verdict

Hit ==
    /\ stage = "watching" /\ verdict = "running"
    /\ stage' \in {"handling", "done"}
    /\ verdict' = "hit"

HandlerOver == stage = "handling" /\ stage' = "done" /\ UNCHANGED verdict

Break == stage = "watching" /\ stage' = "done" /\ verdict' = "error"

\* The task is cancelled, or its server stops.
Unwind ==
    /\ stage \in {"watching", "handling"}
    /\ stage' = "done"
    /\ IF verdict = "running"
         THEN verdict' \in {"running", "cancelled", "lost"}
         ELSE UNCHANGED verdict

\* stop marks a watch whose task was cancelled before it ever ran.
Settle ==
    /\ stage = "done" /\ verdict = "running"
    /\ verdict' = "cancelled"
    /\ UNCHANGED stage

WatchNext == Begin \/ Hit \/ HandlerOver \/ Break \/ Unwind \/ Settle

WatchSpec == WatchInit /\ [][WatchNext]_stageVars
=============================================================================
