------------------------------ MODULE RiskGate ------------------------------
(***************************************************************************)
(* The risk tools: the store of policies, the kill switch of the process   *)
(* and the calls that ask whether a trade may be made. A call reads the    *)
(* active policy, gives the connection back, and only then runs the chain  *)
(* of RiskEngine, which looks at the switch.                               *)
(***************************************************************************)
EXTENDS RiskPolicies, RiskEngine

CONSTANTS
    Askers,       \* calls of evaluate_trade_intent and simulate_risk_check
    Intents,      \* what they ask about, well formed or not
    Compared,     \* the intents a verdict is compared with
    Overrides,    \* policies that simulate_risk_check is given
    Limits        \* the limits of each policy

\* What the payload's types and the checks of a stored row leave.
ASSUME IntentAssumption ==
    /\ Null \notin Int
    /\ \A i \in Intents \union Compared :
          /\ i.size \in Int /\ i.leverage \in Int /\ i.recent_losses \in Int
          /\ i.current_balance \in Int \union {Null}
          /\ i.today_pnl_pct \in Int \union {Null}

ASSUME LimitsAssumption ==
    \A p \in Policies \union Overrides :
        /\ Limits[p].max_position_pct.value \in Nat
        /\ Limits[p].max_leverage.value \in Int
        /\ Limits[p].max_daily_loss_pct.value \in Int
        /\ Limits[p].cooldown_after_n_losses.value \in Int
        /\ Limits[p].min_balance_buffer.value \in Int

VARIABLES
    engaged,      \* KillSwitch._engaged
    ask           \* ask[e]: the call, and (history) the positions the switch
                  \* had while it ran

gateVars == <<engaged, ask>>
vars == <<storeVars, gateVars>>

Ask(pc, intent, policy, out, switch) ==
    [pc |-> pc, intent |-> intent, policy |-> policy, out |-> out, switch |-> switch]

NoVerdict == Ask("idle", Null, NoPolicy, "none", {})
Refusal == Ask("told", Null, NoPolicy, "error", {})

GateInit ==
    /\ engaged = FALSE
    /\ ask = [e \in Askers |-> NoVerdict]

Init == StoreInit /\ GateInit

AskAt(e, pc) == ask[e].pc = pc
Running(e) == ask[e].pc \in {"read", "decide"}

\* History: every call that runs notes what the switch says.
Noted(nowEngaged) ==
    [e \in Askers |-> IF Running(e) THEN [ask[e] EXCEPT !.switch = @ \union {nowEngaged}]
                      ELSE ask[e]]

AskMoves(e, r) == /\ ask' = [ask EXCEPT ![e] = r]
                  /\ UNCHANGED <<storeVars, engaged>>

\* The payload, then the domain object: an error before anything is read.
Refused(e, i) ==
    /\ AskAt(e, "idle")
    /\ ~DomainAccepts(i)
    /\ AskMoves(e, Refusal)

Asked(e, i) ==
    /\ AskAt(e, "idle")
    /\ DomainAccepts(i)
    /\ AskMoves(e, Ask("read", i, NoPolicy, "none", {engaged}))

\* With an override nothing is awaited: parsed, decided and never stored.
Simulated(e, i, p) ==
    /\ AskAt(e, "idle")
    /\ DomainAccepts(i)
    /\ AskMoves(e, IF ValidPolicy(Limits[p])
                   THEN Ask("told", i, p, Decision(i, Limits[p], engaged), {engaged})
                   ELSE Refusal)

ReadsPolicy(e) ==
    /\ AskAt(e, "read")
    /\ \E p \in active : AskMoves(e, [ask[e] EXCEPT !.pc = "decide", !.policy = p])

FindsNone(e) ==
    /\ AskAt(e, "read")
    /\ active = {}
    /\ AskMoves(e, Refusal)

Decides(e) ==
    /\ AskAt(e, "decide")
    /\ AskMoves(e, [ask[e] EXCEPT !.pc = "told",
                       !.out = Decision(ask[e].intent, Limits[ask[e].policy], engaged)])

Forgets(e) == /\ AskAt(e, "told")
              /\ AskMoves(e, NoVerdict)

AskFails(e) ==
    /\ AskAt(e, "read")
    /\ AskMoves(e, Refusal)

\* engage_kill_switch and disengage_kill_switch, each in one segment.
Flip == /\ engaged' \in BOOLEAN
        /\ ask' = Noted(engaged')
        /\ UNCHANGED storeVars

\* The switch is not persisted: a restart releases it.
Restart == /\ StoreRestarts
           /\ engaged' = FALSE
           /\ ask' = [e \in Askers |-> NoVerdict]

AskWorks(e) == ReadsPolicy(e) \/ FindsNone(e) \/ Decides(e) \/ Forgets(e)

StoreMoves(A) == A /\ UNCHANGED gateVars

Next == \/ \E s \in Setters : StoreMoves(StoreStep(s))
        \/ \E e \in Askers : \/ \E i \in Intents : \/ Refused(e, i) \/ Asked(e, i)
                                                   \/ \E p \in Overrides : Simulated(e, i, p)
                             \/ AskWorks(e) \/ AskFails(e)
        \/ Flip
        \/ Restart

\* A transaction that can go on does, and Postgres queues those that wait for
\* a lock, so that one which could go on again and again does as well.
Fairness == \A s \in Setters : SF_vars(StoreMoves(Works(s)))

Spec == Init /\ [][Next]_vars /\ Fairness

-----------------------------------------------------------------------------
\* Every variable keeps its type, locks exclude each other and end with their
\* transaction, and no two rows are ever active: what the partial index of
\* migration 080 promises for any interleaving of the transactions.
TypeOK ==
    /\ StoreTypeOK
    /\ LocksExclude
    /\ \A p, q \in active : p = q
    /\ engaged \in BOOLEAN
    /\ \A e \in Askers : ask[e].out \in Status \union {"none", "error"}

\* The store is a register (ActivePolicy): concurrent set_risk_policy calls,
\* rollbacks, deadlocks, lost commits and restarts included, each call takes
\* effect at one instant or never, "ok" is said only of one that did, and one
\* that was rolled back leaves neither an active row nor an orphan.
WireOut(out) == IF out \in {"none", "ok"} THEN out ELSE "error"
StageOf(pc) == IF pc = "idle" THEN "idle" ELSE IF pc = "answer" THEN "done" ELSE "pending"
Seen(r) == [stage |-> StageOf(r.pc), policy |-> r.policy, out |-> WireOut(r.out)]
Calls == [s \in Setters |-> Seen(tx[s])]

Register == INSTANCE ActivePolicy WITH register <- active, known <- rows, call <- Calls

StoreIsRegister == Register!Spec

\* A call during all of which the switch was engaged does not let a trade
\* through: it is denied, or it fails, whatever the policy, an override, or a
\* policy that is replaced meanwhile. (A call that only overlaps an engagement
\* may still be let through by what it saw.)
EngagedDenies ==
    \A e \in Askers : ask[e].switch = {TRUE} => ask[e].out \notin {"ok", "warn"}

\* Asking for more, or for the same on a worse account, never gets a milder
\* verdict from the same policy: the six handlers agree on what is worse.
WorseIsNoMilder ==
    \A e \in Askers : ask[e].out \in Status =>
        \A j \in {k \in Compared : DomainAccepts(k) /\ Riskier(k, ask[e].intent)} :
            Stricter(Decision(j, Limits[ask[e].policy], TRUE \in ask[e].switch), ask[e].out)

\* Whoever waits for a row, for the index or in a circle is answered in the end.
CallsEnd == \A s \in Setters : ~At(s, "idle") ~> At(s, "idle")
=============================================================================
