--------------------------- MODULE RiskGateProofs ---------------------------
(***************************************************************************)
(* Proofs about RiskGate: an engaged switch denies, and a worse intent     *)
(* gets no milder verdict, for all policies, intents and calls.            *)
(***************************************************************************)
EXTENDS RiskGate, TLAPS

LEMMA TimesMonotone ==
    ASSUME NEW n \in Nat, NEW a \in Int, NEW b \in Int, a <= b
    PROVE  n * a <= n * b
<1>1. n * (b - a) >= 0
  OBVIOUS
<1>2. n * (b - a) = n * b - n * a
  OBVIOUS
<1> QED
  BY <1>1, <1>2

\* What tells one intent and one policy apart from another.
IntentTyped(i) ==
    /\ i.size \in Int /\ i.leverage \in Int /\ i.recent_losses \in Int
    /\ i.current_balance \in Int \union {Null}
    /\ i.today_pnl_pct \in Int \union {Null}

PolicyTyped(p) ==
    /\ p.max_position_pct.value \in Nat
    /\ p.max_leverage.value \in Int
    /\ p.max_daily_loss_pct.value \in Int
    /\ p.cooldown_after_n_losses.value \in Int
    /\ p.min_balance_buffer.value \in Int

-----------------------------------------------------------------------------
\* Whatever limit an intent breaks, a riskier one breaks as well.
LEMMA RiskierBreaksMore ==
    ASSUME NEW i, NEW j, NEW p, IntentTyped(i), IntentTyped(j), PolicyTyped(p), Riskier(j, i),
           NEW before \in BOOLEAN, NEW after \in BOOLEAN, before => after
    PROVE  Violations(i, p, before) \subseteq Violations(j, p, after)
<1> USE IntentAssumption
<1>1. RiskPolicyBreach(i, p) \subseteq RiskPolicyBreach(j, p)
  BY DEF RiskPolicyBreach, Riskier, IntentTyped, PolicyTyped
<1>2. ExposureBreach(i, p) \subseteq ExposureBreach(j, p)
  <2>1. SUFFICES ASSUME i.current_balance # Null, i.current_balance > 0,
                        100 * i.size > p.max_position_pct.value * i.current_balance
                 PROVE  /\ j.current_balance # Null /\ j.current_balance > 0
                        /\ 100 * j.size > p.max_position_pct.value * j.current_balance
    BY DEF ExposureBreach
  <2>2. /\ j.current_balance # Null
        /\ i.current_balance \in Int /\ j.current_balance \in Int
        /\ 0 < j.current_balance /\ j.current_balance <= i.current_balance
    BY <2>1 DEF Riskier, IntentTyped
  <2>3. p.max_position_pct.value * j.current_balance <= p.max_position_pct.value * i.current_balance
    BY <2>2, TimesMonotone DEF PolicyTyped
  <2>4. j.size >= i.size /\ i.size \in Int /\ j.size \in Int /\ p.max_position_pct.value \in Nat
    BY DEF Riskier, IntentTyped, PolicyTyped
  <2> DEFINE oldLimit == p.max_position_pct.value * i.current_balance
             newLimit == p.max_position_pct.value * j.current_balance
  <2>5. oldLimit \in Int /\ newLimit \in Int
    BY <2>2, <2>4
  <2>6. 100 * i.size > oldLimit /\ newLimit <= oldLimit
    BY <2>1, <2>3
  <2> HIDE DEF oldLimit, newLimit
  <2>7. 100 * j.size > newLimit
    BY <2>4, <2>5, <2>6
  <2> QED
    BY <2>2, <2>7 DEF newLimit
<1>3. LiquidityBreach(i, p) \subseteq LiquidityBreach(j, p)
  BY DEF LiquidityBreach, Riskier, IntentTyped, PolicyTyped
<1>4. DailyLossBreach(i, p) \subseteq DailyLossBreach(j, p)
  BY DEF DailyLossBreach, Riskier, IntentTyped, PolicyTyped
<1>5. CooldownBreach(i, p) \subseteq CooldownBreach(j, p)
  BY DEF CooldownBreach, Riskier, IntentTyped, PolicyTyped
<1>6. KillSwitchBreach(before) \subseteq KillSwitchBreach(after)
  BY DEF KillSwitchBreach
<1> QED
  BY <1>1, <1>2, <1>3, <1>4, <1>5, <1>6 DEF Violations

LEMMA MoreViolationsAreStricter ==
    ASSUME NEW V, NEW W, V \subseteq W
    PROVE  Stricter(Aggregate(W), Aggregate(V))
BY DEF Stricter, Aggregate

LEMMA EngagedIsDeny ==
    ASSUME NEW i, NEW p
    PROVE  Decision(i, p, TRUE) = "deny"
<1>1. [handler |-> "KillSwitch", severity |-> "deny"] \in Violations(i, p, TRUE)
  BY DEF Violations, KillSwitchBreach
<1> QED
  BY <1>1 DEF Decision, Aggregate

LEMMA DecisionIsStatus ==
    ASSUME NEW i, NEW p, NEW b
    PROVE  Decision(i, p, b) \in Status
BY DEF Decision, Aggregate, Status

-----------------------------------------------------------------------------
\* The inductive invariant of the store. What a transaction has changed and not
\* committed is what nobody else touches: it has the rows' locks to itself, and
\* once it has activated its policy no other transaction has activated one and
\* no row is active but those it deactivated.
GoodTx(r, known, set) ==
    /\ r.pc # "idle" => r.policy \in Policies
    /\ r.locks # {} => r.pc \in InTransaction
    /\ r.pc = "index" => r.kind = "set" \/ r.policy \in known
    /\ r.pc = "commit" /\ r.on = NoPolicy => r.kind = "activate"
    /\ r.on # NoPolicy => /\ r.pc = "commit" /\ r.on = r.policy
                          /\ r.kind = "set" \/ r.policy \in known
                          /\ set \subseteq r.off \union {r.policy}

Apart(r, q) == /\ r.locks \cap q.locks = {}
               /\ r.on = NoPolicy \/ q.on = NoPolicy

AtMostOneActive == \A p, q \in active : p = q

StoreInv ==
    /\ rows \subseteq Policies
    /\ active \subseteq rows
    /\ AtMostOneActive
    /\ tx \in [Setters -> TxType]
    /\ \A s \in Setters : GoodTx(tx[s], rows, active)
    /\ \A s, t \in Setters : s # t => Apart(tx[s], tx[t])

\* A record that transaction s may take, the others being what they are.
MayTake(s, r) == /\ r \in TxType
                 /\ GoodTx(r, rows, active)
                 /\ \A t \in Setters \ {s} : Apart(r, tx[t])

LEMMA ContinuesKeeps ==
    ASSUME StoreInv, NEW s \in Setters, NEW r, MayTake(s, r), Continues(s, r)
    PROVE  StoreInv'
<1>1. tx' = [tx EXCEPT ![s] = r] /\ active' = active /\ rows' = rows
  BY DEF Continues
<1>2. \A t \in Setters : tx'[t] = IF t = s THEN r ELSE tx[t]
  BY <1>1 DEF StoreInv
<1>3. tx' \in [Setters -> TxType]
  BY <1>1 DEF StoreInv, MayTake
<1>4. \A t \in Setters : GoodTx(tx'[t], rows, active)
  BY <1>2 DEF StoreInv, MayTake
<1>5. \A t, u \in Setters : t # u => Apart(tx'[t], tx'[u])
  <2> SUFFICES ASSUME NEW t \in Setters, NEW u \in Setters, t # u
               PROVE  Apart(tx'[t], tx'[u])
    OBVIOUS
  <2>1. CASE t = s
    BY <1>2, <2>1 DEF MayTake
  <2>2. CASE u = s
    BY <1>2, <2>2 DEF MayTake, Apart
  <2>3. CASE t # s /\ u # s
    BY <1>2, <2>3 DEF StoreInv
  <2> QED
    BY <2>1, <2>2, <2>3
<1> QED
  BY <1>1, <1>3, <1>4, <1>5 DEF StoreInv, GoodTx, Apart, AtMostOneActive

\* Whoever is answered holds nothing.
LEMMA EndedMayBeTaken ==
    ASSUME StoreInv, NEW s \in Setters, tx[s].pc # "idle", NEW out \in Out
    PROVE  MayTake(s, Ended(s, out))
<1>1. tx[s] \in TxType /\ tx[s].policy \in Policies
  BY DEF StoreInv, GoodTx
<1>2. Ended(s, out) \in TxType
  BY <1>1 DEF Ended, Tx, TxType
<1>3. /\ Ended(s, out).pc = "answer" /\ Ended(s, out).policy \in Policies
      /\ Ended(s, out).locks = {} /\ Ended(s, out).on = NoPolicy
  BY <1>1 DEF Ended, Tx
<1> QED
  BY <1>2, <1>3 DEF MayTake, GoodTx, Apart

\* A commit leaves at most one policy active: its own, or one that was.
LEMMA CommitLeaves ==
    ASSUME StoreInv, NEW s \in Setters, At(s, "commit"), Committed(s)
    PROVE  /\ tx[s].on # NoPolicy =>
                 active' = {tx[s].policy} /\ rows' = rows \union {tx[s].policy}
           /\ tx[s].on = NoPolicy => active' \in {{}, active} /\ rows' = rows
<1>1. GoodTx(tx[s], rows, active) /\ AtMostOneActive
  BY DEF StoreInv
<1>2. CASE tx[s].on # NoPolicy
  BY <1>1, <1>2 DEF GoodTx, Committed, At
<1>3. CASE tx[s].on = NoPolicy
  BY <1>1, <1>3 DEF GoodTx, Committed, At, AtMostOneActive
<1> QED
  BY <1>2, <1>3

LEMMA CommitKeeps ==
    ASSUME StoreInv, NEW s \in Setters, At(s, "commit"), Committed(s), NEW out \in Out,
           tx' = [tx EXCEPT ![s] = Ended(s, out)]
    PROVE  StoreInv'
<1> DEFINE r == Ended(s, out)
<1>1. MayTake(s, r) /\ r.on = NoPolicy /\ r.locks = {}
  BY EndedMayBeTaken DEF At, Ended, Tx
<1>2. tx[s].policy \in Policies
  BY DEF StoreInv, GoodTx, At
<1>3. \A t \in Setters : tx'[t] = IF t = s THEN r ELSE tx[t]
  BY DEF StoreInv
<1>4. rows' \subseteq Policies /\ active' \subseteq rows' /\ rows \subseteq rows'
      /\ AtMostOneActive'
  <2>1. CASE tx[s].on # NoPolicy
    BY <1>2, <2>1, CommitLeaves DEF StoreInv, AtMostOneActive
  <2>2. CASE tx[s].on = NoPolicy
    BY <2>2, CommitLeaves DEF StoreInv, AtMostOneActive
  <2> QED
    BY <2>1, <2>2
<1>5. ASSUME NEW t \in Setters PROVE GoodTx(tx'[t], rows', active')
  <2>1. CASE t = s
    BY <1>1, <1>3, <1>4, <2>1 DEF MayTake, GoodTx
  <2>2. CASE t # s
    <3>1. GoodTx(tx[t], rows, active) /\ (tx[s].on = NoPolicy \/ tx[t].on = NoPolicy)
      BY <2>2 DEF StoreInv, Apart
    <3>2. tx[t].on # NoPolicy => active' \subseteq active
      BY <3>1, CommitLeaves
    <3> QED
      BY <1>3, <1>4, <2>2, <3>1, <3>2 DEF GoodTx
  <2> QED
    BY <2>1, <2>2
<1>6. ASSUME NEW t \in Setters, NEW u \in Setters, t # u PROVE Apart(tx'[t], tx'[u])
  BY <1>1, <1>3, <1>6 DEF StoreInv, Apart
<1>7. tx' \in [Setters -> TxType]
  BY <1>1 DEF StoreInv, MayTake
<1> QED
  BY <1>4, <1>5, <1>6, <1>7 DEF StoreInv, GoodTx, Apart, AtMostOneActive

LEMMA NoTxIsGood ==
    ASSUME NEW known, NEW set
    PROVE  NoTx \in TxType /\ GoodTx(NoTx, known, set) /\ Apart(NoTx, NoTx)
BY DEF NoTx, Tx, TxType, Kind, Out, GoodTx, Apart

LEMMA StoreStepKeeps ==
    ASSUME StoreInv, NEW s \in Setters, StoreStep(s)
    PROVE  StoreInv'
<1> DEFINE r == tx[s]
<1>1. /\ r \in TxType /\ GoodTx(r, rows, active)
      /\ \A t \in Setters \ {s} : tx[t] \in TxType /\ Apart(r, tx[t])
      /\ active \subseteq rows /\ rows \subseteq Policies
  BY DEF StoreInv
<1>2. ASSUME r.pc # "idle" PROVE MayTake(s, RolledBack(s))
  BY <1>2, EndedMayBeTaken DEF RolledBack, Out
<1>3. ASSUME NEW kind \in Kind, NEW p \in Policies, Begin(s, kind, p) PROVE StoreInv'
  <2> DEFINE new == Tx(IF kind = "set" THEN "upsert" ELSE "scan", kind, p,
                       {}, {}, {}, NoPolicy, "none")
  <2>1. new \in TxType
    BY DEF Tx, TxType, Kind, InTransaction, Out
  <2>2. new.policy = p /\ new.locks = {} /\ new.on = NoPolicy /\ new.pc \in {"upsert", "scan"}
    BY DEF Tx
  <2>3. MayTake(s, new)
    BY <2>1, <2>2 DEF MayTake, GoodTx, Apart
  <2> QED
    BY <1>3, <2>3, ContinuesKeeps DEF Begin, Continues
<1>4. CASE Upsert(s)
  <2> DEFINE new == [r EXCEPT !.pc = "scan", !.locks = {r.policy}]
  <2>1. new \in TxType /\ r.on = NoPolicy /\ new.on = NoPolicy /\ new.pc = "scan"
        /\ new.locks = {r.policy} /\ new.policy \in Policies /\ r.pc = "upsert"
    BY <1>1, <1>4 DEF TxType, InTransaction, GoodTx, Upsert, At
  <2>2. \A t \in Setters \ {s} : r.policy \notin tx[t].locks
    BY <1>4, <2>1 DEF Upsert, WaitsFor
  <2>3. MayTake(s, new)
    BY <2>1, <2>2 DEF MayTake, GoodTx, Apart, InTransaction
  <2> QED
    BY <1>4, <2>3, ContinuesKeeps DEF Upsert
<1>5. CASE Scan(s)
  <2> DEFINE new == [r EXCEPT !.pc = "deactivate", !.seen = active]
  <2>1. new \in TxType /\ new.on = NoPolicy /\ new.pc = "deactivate"
        /\ new.locks = r.locks /\ new.policy \in Policies
    BY <1>1, <1>5 DEF TxType, InTransaction, GoodTx, Scan, At
  <2>2. MayTake(s, new)
    BY <1>1, <2>1 DEF MayTake, GoodTx, Apart, InTransaction
  <2> QED
    BY <1>5, <2>2, ContinuesKeeps DEF Scan
<1>6. CASE Deactivate(s)
  <2> DEFINE still == r.seen \cap active
             new == [r EXCEPT !.pc = "lock", !.off = still, !.locks = r.locks \union still]
  <2>1. still \in SUBSET Policies /\ r.locks \in SUBSET Policies
    BY <1>1 DEF TxType
  <2>2. r.pc = "deactivate" /\ WaitsFor(s) = {}
    BY <1>6 DEF Deactivate, At
  <2>3. \A t \in Setters \ {s} : still \cap tx[t].locks = {}
    BY <2>2 DEF WaitsFor
  <2> HIDE DEF still
  <2>4. new \in TxType /\ new.on = NoPolicy /\ new.pc = "lock"
        /\ new.locks = r.locks \union still /\ new.policy \in Policies
    BY <1>1, <2>1, <2>2 DEF TxType, InTransaction, GoodTx
  <2>5. MayTake(s, new)
    BY <1>1, <2>3, <2>4 DEF MayTake, GoodTx, Apart, InTransaction
  <2> QED
    BY <1>6, <2>5, ContinuesKeeps DEF Deactivate, still
<1>7. CASE LockTarget(s)
  <2> DEFINE new == [r EXCEPT !.pc = "index", !.locks = r.locks \union {r.policy}]
  <2>1. r.pc = "lock" /\ WaitsFor(s) = {} /\ (r.kind = "set" \/ r.policy \in rows)
    BY <1>7 DEF LockTarget, At, Visible
  <2>2. new \in TxType /\ new.on = NoPolicy /\ new.pc = "index" /\ new.kind = r.kind
        /\ new.locks = r.locks \union {r.policy} /\ new.policy = r.policy
        /\ r.policy \in Policies
    BY <1>1, <2>1 DEF TxType, InTransaction, GoodTx
  <2>3. \A t \in Setters \ {s} : r.policy \notin tx[t].locks
    BY <2>1 DEF WaitsFor
  <2>4. MayTake(s, new)
    BY <1>1, <2>1, <2>2, <2>3 DEF MayTake, GoodTx, Apart, InTransaction
  <2> QED
    BY <1>7, <2>4, ContinuesKeeps DEF LockTarget
<1>8. CASE TargetMissing(s)
  <2> DEFINE new == [r EXCEPT !.pc = "commit"]
  <2>1. r.pc = "lock" /\ r.kind # "set"
    BY <1>8 DEF TargetMissing, At, Visible
  <2>2. new \in TxType /\ new.on = NoPolicy /\ new.pc = "commit" /\ new.kind = "activate"
        /\ new.locks = r.locks /\ new.policy \in Policies
    BY <1>1, <2>1 DEF TxType, Kind, InTransaction, GoodTx
  <2>3. MayTake(s, new)
    BY <1>1, <2>2 DEF MayTake, GoodTx, Apart, InTransaction
  <2> QED
    BY <1>8, <2>3, ContinuesKeeps DEF TargetMissing
<1>9. CASE Activate(s)
  <2> DEFINE new == [r EXCEPT !.pc = "commit", !.on = r.policy]
  <2>1. r.pc = "index" /\ WaitsFor(s) = {} /\ Others(s) = {}
    BY <1>9 DEF Activate, At
  <2>2. active \subseteq r.off \union {r.policy}
    BY <2>1 DEF Others
  <2>3. \A t \in Setters \ {s} : tx[t].on = NoPolicy
    BY <2>1 DEF WaitsFor, Indexing
  <2>4. new \in TxType /\ new.on = r.policy /\ new.pc = "commit" /\ new.kind = r.kind
        /\ new.locks = r.locks /\ new.policy = r.policy /\ new.off = r.off
        /\ r.policy \in Policies /\ (r.kind = "set" \/ r.policy \in rows)
    BY <1>1, <2>1 DEF TxType, InTransaction, GoodTx
  <2>5. MayTake(s, new)
    BY <1>1, <2>2, <2>3, <2>4, NoPolicyAssumption DEF MayTake, GoodTx, Apart, InTransaction
  <2> QED
    BY <1>9, <2>5, ContinuesKeeps DEF Activate
<1>10. CASE UniqueViolation(s)
  BY <1>2, <1>10, ContinuesKeeps DEF UniqueViolation, At
<1>11. CASE DeadlockVictim(s)
  <2>1. r.pc # "idle"
    BY <1>1, <1>11 DEF DeadlockVictim, WaitsFor, TxType
  <2> QED
    BY <1>2, <1>11, <2>1, ContinuesKeeps DEF DeadlockVictim
<1>12. CASE Commit(s)
  BY <1>12, CommitKeeps DEF Commit, Out
<1>13. CASE CommitLost(s)
  BY <1>13, CommitKeeps DEF CommitLost, Out
<1>14. CASE StatementFails(s)
  <2>1. r.pc # "idle"
    BY <1>14 DEF StatementFails, InTransaction
  <2> QED
    BY <1>2, <1>14, <2>1, ContinuesKeeps DEF StatementFails, Continues
<1>15. CASE Answer(s)
  <2> DEFINE new == [r EXCEPT !.pc = "idle", !.kind = "set", !.policy = NoPolicy, !.out = "none"]
  <2>1. new \in TxType /\ new.pc = "idle" /\ new.locks = {} /\ new.on = NoPolicy
    BY <1>1, <1>15 DEF TxType, Kind, Out, GoodTx, Answer, At, InTransaction
  <2>2. MayTake(s, new)
    BY <2>1 DEF MayTake, GoodTx, Apart
  <2> QED
    BY <1>15, <2>2, ContinuesKeeps DEF Answer
<1> QED
  BY <1>3, <1>4, <1>5, <1>6, <1>7, <1>8, <1>9, <1>10, <1>11, <1>12, <1>13, <1>14, <1>15
  DEF StoreStep, Works

-----------------------------------------------------------------------------
\* The inductive invariant of the calls: one that runs knows every position the
\* switch has had, the present one included.
AskType == [pc : {"idle", "read", "decide", "told"}, intent : Intents \union {Null},
            policy : Policies \union Overrides \union {NoPolicy},
            out : Status \union {"none", "error"}, switch : SUBSET BOOLEAN]

DecidedBy(r) ==
    /\ r.intent \in Intents
    /\ r.policy \in Policies \union Overrides
    /\ \E f \in r.switch : r.out = Decision(r.intent, Limits[r.policy], f)

GoodAsk(r, now) ==
    /\ r.pc # "told" => r.out = "none"
    /\ r.pc \in {"read", "decide"} => r.intent \in Intents /\ now \in r.switch
    /\ r.pc = "decide" => r.policy \in Policies
    /\ r.out \in Status => DecidedBy(r)

AskInv == /\ engaged \in BOOLEAN
          /\ ask \in [Askers -> AskType]
          /\ \A e \in Askers : GoodAsk(ask[e], engaged)

IInv == StoreInv /\ AskInv

-----------------------------------------------------------------------------
\* A call that takes a good record leaves the others as they are.
LEMMA AskMovesKeeps ==
    ASSUME IInv, NEW e \in Askers, NEW r \in AskType, GoodAsk(r, engaged), AskMoves(e, r)
    PROVE  IInv'
<1>1. ask' = [ask EXCEPT ![e] = r] /\ UNCHANGED <<rows, active, tx, engaged>>
  BY DEF AskMoves, storeVars
<1>2. StoreInv'
  BY <1>1 DEF IInv, StoreInv, GoodTx, Apart, AtMostOneActive
<1>3. ask' \in [Askers -> AskType]
  BY <1>1 DEF IInv, AskInv
<1>4. \A f \in Askers : GoodAsk(ask[f], engaged)'
  <2> SUFFICES ASSUME NEW f \in Askers PROVE GoodAsk(ask'[f], engaged)
    BY <1>1 DEF GoodAsk, DecidedBy
  <2>1. ask'[f] = r \/ ask'[f] = ask[f]
    BY <1>1 DEF IInv, AskInv
  <2> QED
    BY <2>1 DEF IInv, AskInv
<1> QED
  BY <1>1, <1>2, <1>3, <1>4 DEF IInv, AskInv

LEMMA TypedRefusal ==
    /\ Refusal \in AskType /\ NoVerdict \in AskType
    /\ \A now \in BOOLEAN : GoodAsk(Refusal, now) /\ GoodAsk(NoVerdict, now)
BY DEF Refusal, NoVerdict, Ask, AskType, GoodAsk, Status

\* A verdict given with the switch as it is now is one of a position it had.
LEMMA VerdictIsGood ==
    ASSUME NEW i \in Intents, NEW p \in Policies \union Overrides, NEW now \in BOOLEAN,
           NEW switch \in SUBSET BOOLEAN, now \in switch
    PROVE  LET r == Ask("told", i, p, Decision(i, Limits[p], now), switch)
           IN  r \in AskType /\ GoodAsk(r, now)
<1> DEFINE out == Decision(i, Limits[p], now)
           r == Ask("told", i, p, out, switch)
<1>1. out \in Status
  BY DecisionIsStatus
<1>2. r \in AskType
  BY <1>1 DEF Ask, AskType
<1>3. DecidedBy(r)
  BY DEF DecidedBy, Ask
<1>4. GoodAsk(r, now)
  BY <1>3 DEF GoodAsk, Ask
<1> QED
  BY <1>2, <1>4

LEMMA NextKeeps == IInv /\ [Next]_vars => IInv'
<1> SUFFICES ASSUME IInv, [Next]_vars PROVE IInv'
  OBVIOUS
<1>1. ASSUME NEW s \in Setters, StoreMoves(StoreStep(s)) PROVE IInv'
  <2>1. StoreInv'
    BY <1>1, StoreStepKeeps DEF IInv, StoreMoves
  <2>2. ask' = ask /\ engaged' = engaged
    BY <1>1 DEF StoreMoves, gateVars
  <2> QED
    BY <2>1, <2>2 DEF IInv, AskInv, GoodAsk, DecidedBy
<1>2. ASSUME NEW e \in Askers, NEW i \in Intents, Refused(e, i) PROVE IInv'
  BY <1>2, TypedRefusal, AskMovesKeeps DEF Refused, IInv, AskInv
<1>3. ASSUME NEW e \in Askers, NEW i \in Intents, Asked(e, i) PROVE IInv'
  <2> DEFINE r == Ask("read", i, NoPolicy, "none", {engaged})
  <2>1. r \in AskType /\ GoodAsk(r, engaged)
    BY DEF Ask, AskType, GoodAsk, Status, IInv, AskInv
  <2> QED
    BY <1>3, <2>1, AskMovesKeeps DEF Asked
<1>4. ASSUME NEW e \in Askers, NEW i \in Intents, NEW p \in Overrides, Simulated(e, i, p)
      PROVE  IInv'
  <2>1. CASE ValidPolicy(Limits[p])
    <3> DEFINE r == Ask("told", i, p, Decision(i, Limits[p], engaged), {engaged})
    <3>1. engaged \in BOOLEAN
      BY DEF IInv, AskInv
    <3>2. r \in AskType /\ GoodAsk(r, engaged)
      BY <3>1, VerdictIsGood
    <3> QED
      BY <1>4, <2>1, <3>2, AskMovesKeeps DEF Simulated
  <2>2. CASE ~ValidPolicy(Limits[p])
    BY <1>4, <2>2, TypedRefusal, AskMovesKeeps DEF Simulated, IInv, AskInv
  <2> QED
    BY <2>1, <2>2
<1>5. ASSUME NEW e \in Askers, ReadsPolicy(e) PROVE IInv'
  <2>1. PICK p \in active : AskMoves(e, [ask[e] EXCEPT !.pc = "decide", !.policy = p])
    BY <1>5 DEF ReadsPolicy
  <2> DEFINE r == [ask[e] EXCEPT !.pc = "decide", !.policy = p]
  <2>2. p \in Policies /\ ask[e] \in AskType /\ GoodAsk(ask[e], engaged) /\ ask[e].pc = "read"
    BY <1>5 DEF ReadsPolicy, AskAt, IInv, AskInv, StoreInv
  <2>3. r \in AskType
    BY <2>2 DEF AskType
  <2>4. GoodAsk(r, engaged)
    BY <2>2 DEF AskType, GoodAsk, Status
  <2> QED
    BY <2>1, <2>3, <2>4, AskMovesKeeps
<1>6. ASSUME NEW e \in Askers, FindsNone(e) \/ AskFails(e) PROVE IInv'
  BY <1>6, TypedRefusal, AskMovesKeeps DEF FindsNone, AskFails, IInv, AskInv
<1>7. ASSUME NEW e \in Askers, Decides(e) PROVE IInv'
  <2> DEFINE i == ask[e].intent
             p == ask[e].policy
             out == Decision(i, Limits[p], engaged)
             r == [ask[e] EXCEPT !.pc = "told", !.out = out]
  <2>1. /\ ask[e] \in AskType /\ engaged \in BOOLEAN
        /\ i \in Intents /\ p \in Policies /\ engaged \in ask[e].switch
    BY <1>7 DEF Decides, AskAt, IInv, AskInv, GoodAsk
  <2>2. out \in Status
    BY DecisionIsStatus
  <2> HIDE DEF out
  <2>3. /\ r \in AskType
        /\ r.pc = "told" /\ r.intent = i /\ r.policy = p /\ r.out = out
        /\ r.switch = ask[e].switch
    BY <2>1, <2>2 DEF AskType
  <2>4. DecidedBy(r)
    BY <2>1, <2>3 DEF DecidedBy, out
  <2>5. GoodAsk(r, engaged)
    BY <2>3, <2>4 DEF GoodAsk
  <2> USE DEF out
  <2> QED
    BY <1>7, <2>3, <2>5, AskMovesKeeps DEF Decides
<1>8. ASSUME NEW e \in Askers, Forgets(e) PROVE IInv'
  BY <1>8, TypedRefusal, AskMovesKeeps DEF Forgets, IInv, AskInv
<1>9. CASE Flip
  <2>1. StoreInv'
    BY <1>9 DEF Flip, IInv, StoreInv, GoodTx, Apart, AtMostOneActive, storeVars
  <2>2. engaged' \in BOOLEAN /\ ask' = Noted(engaged')
    BY <1>9 DEF Flip
  <2>3. ASSUME NEW e \in Askers PROVE ask'[e] \in AskType /\ GoodAsk(ask'[e], engaged')
    <3>1. ask[e] \in AskType /\ GoodAsk(ask[e], engaged)
      BY DEF IInv, AskInv
    <3>2. CASE Running(e)
      <4> DEFINE noted == ask[e].switch \union {engaged'}
                 r == [ask[e] EXCEPT !.switch = noted]
      <4>1. ask'[e] = r
        BY <2>2, <3>2 DEF Noted
      <4>2. noted \in SUBSET BOOLEAN
        BY <2>2, <3>1 DEF AskType
      <4> HIDE DEF noted
      <4>3. r \in AskType
        BY <3>1, <4>2 DEF AskType
      <4>4. engaged' \in noted
        BY DEF noted
      <4>5. GoodAsk(r, engaged')
        BY <3>1, <3>2, <4>4 DEF AskType, GoodAsk, Running, Status
      <4> QED
        BY <4>1, <4>3, <4>5
    <3>3. CASE ~Running(e)
      <4>1. ask'[e] = ask[e]
        BY <2>2, <3>3 DEF Noted
      <4> QED
        BY <3>1, <3>3, <4>1 DEF GoodAsk, Running
    <3> QED
      BY <3>2, <3>3
  <2>4. ask' \in [Askers -> AskType]
    BY <2>2, <2>3 DEF Noted
  <2>5. \A e \in Askers : GoodAsk(ask[e], engaged)'
    BY <2>3 DEF GoodAsk, DecidedBy
  <2> QED
    BY <2>1, <2>2, <2>4, <2>5 DEF IInv, AskInv
<1>10. CASE Restart
  <2>1. active' = active /\ rows' = rows /\ tx' = [s \in Setters |-> NoTx]
    BY <1>10 DEF Restart, StoreRestarts
  <2>3. StoreInv'
    BY <2>1, NoTxIsGood DEF IInv, StoreInv, GoodTx, Apart, AtMostOneActive
  <2>4. engaged' = FALSE /\ ask' = [e \in Askers |-> NoVerdict]
    BY <1>10 DEF Restart
  <2>5. AskInv'
    BY <2>4, TypedRefusal DEF AskInv, GoodAsk, DecidedBy
  <2> QED
    BY <2>3, <2>5 DEF IInv
<1>11. CASE UNCHANGED vars
  BY <1>11 DEF IInv, StoreInv, GoodTx, Apart, AtMostOneActive, AskInv, GoodAsk, DecidedBy, vars, storeVars, gateVars
<1> QED
  BY <1>1, <1>2, <1>3, <1>4, <1>5, <1>6, <1>7, <1>8, <1>9, <1>10, <1>11 DEF Next, AskWorks

LEMMA InitKeeps == Init => IInv
<1> SUFFICES ASSUME Init PROVE IInv
  OBVIOUS
<1>1. rows \subseteq Policies /\ active \subseteq rows /\ AtMostOneActive
  BY DEF Init, StoreInit, AtMostOneActive
<1>3. StoreInv
  BY <1>1, NoTxIsGood DEF Init, StoreInit, StoreInv
<1>4. engaged \in BOOLEAN /\ AskInv
  BY TypedRefusal DEF Init, GateInit, AskInv
<1> QED
  BY <1>3, <1>4 DEF IInv

LEMMA Invariance == Spec => []IInv
BY InitKeeps, NextKeeps, PTL DEF Spec

-----------------------------------------------------------------------------
\* A call during all of which the switch was engaged lets no trade through,
\* however many calls, policies and intents there are.
THEOREM EngagedIsDenied == Spec => []EngagedDenies
<1>1. IInv => EngagedDenies
  <2> SUFFICES ASSUME IInv, NEW e \in Askers, ask[e].switch = {TRUE}, ask[e].out \in {"ok", "warn"}
               PROVE  FALSE
    BY DEF EngagedDenies
  <2>1. DecidedBy(ask[e])
    BY DEF IInv, AskInv, GoodAsk, Status
  <2>2. PICK f \in {TRUE} : ask[e].out = Decision(ask[e].intent, Limits[ask[e].policy], f)
    BY <2>1 DEF DecidedBy
  <2>3. f = TRUE
    OBVIOUS
  <2>4. ask[e].out = "deny"
    BY <2>2, <2>3, EngagedIsDeny
  <2> QED
    BY <2>4
<1> QED
  BY <1>1, Invariance, PTL

\* The six handlers agree on what is worse: for every policy and every intent
\* that asks for more, or for the same on a worse account, the verdict is no
\* milder than the one that was given.
THEOREM WorseIsJudgedNoMilder == Spec => []WorseIsNoMilder
<1>1. IInv => WorseIsNoMilder
  <2> SUFFICES ASSUME IInv, NEW e \in Askers, ask[e].out \in Status,
                      NEW j \in Compared, Riskier(j, ask[e].intent)
               PROVE  Stricter(Decision(j, Limits[ask[e].policy], TRUE \in ask[e].switch),
                               ask[e].out)
    BY DEF WorseIsNoMilder
  <2> DEFINE i == ask[e].intent
             p == Limits[ask[e].policy]
             after == TRUE \in ask[e].switch
  <2>1. DecidedBy(ask[e]) /\ ask[e] \in AskType
    BY DEF IInv, AskInv, GoodAsk
  <2>2. PICK f \in ask[e].switch : ask[e].out = Decision(i, p, f)
    BY <2>1 DEF DecidedBy
  <2>3. f \in BOOLEAN
    BY <2>1 DEF AskType
  <2>4. after \in BOOLEAN
    OBVIOUS
  <2>5. f => after
    <3> SUFFICES ASSUME f PROVE after
      OBVIOUS
    <3>1. f = TRUE
      BY <2>3
    <3> QED
      BY <3>1
  <2>6. IntentTyped(i) /\ IntentTyped(j) /\ PolicyTyped(p)
    BY <2>1, IntentAssumption, LimitsAssumption DEF DecidedBy, IntentTyped, PolicyTyped
  <2>7. Violations(i, p, f) \subseteq Violations(j, p, after)
    <3>1. Riskier(j, i)
      OBVIOUS
    <3> HIDE DEF i, p, after
    <3> QED
      BY <2>3, <2>4, <2>5, <2>6, <3>1, RiskierBreaksMore
  <2>8. Stricter(Aggregate(Violations(j, p, after)), Aggregate(Violations(i, p, f)))
    BY <2>7, MoreViolationsAreStricter
  <2> QED
    BY <2>2, <2>8 DEF Decision
<1> QED
  BY <1>1, Invariance, PTL

-----------------------------------------------------------------------------
\* Types, the exclusion of the row locks, and the promise of the partial index:
\* whatever the transactions, no two policies are ever active.
THEOREM StoreIsTyped == Spec => []TypeOK
<1>1. IInv => TypeOK
  <2> SUFFICES ASSUME IInv PROVE TypeOK
    OBVIOUS
  <2>1. StoreTypeOK /\ \A p, q \in active : p = q
    BY DEF IInv, StoreInv, StoreTypeOK, AtMostOneActive
  <2>2. LocksExclude
    BY DEF IInv, StoreInv, LocksExclude, GoodTx, Apart
  <2>3. engaged \in BOOLEAN /\ \A e \in Askers : ask[e].out \in Status \union {"none", "error"}
    BY DEF IInv, AskInv, AskType
  <2> QED
    BY <2>1, <2>2, <2>3 DEF TypeOK
<1> QED
  BY <1>1, Invariance, PTL

-----------------------------------------------------------------------------
LEMMA CallMoves ==
    ASSUME StoreInv, NEW s \in Setters, NEW r, tx' = [tx EXCEPT ![s] = r]
    PROVE  Calls' = [Calls EXCEPT ![s] = Seen(r)]
BY DEF StoreInv, Calls

\* Until its commit a transaction is one pending call that has done nothing.
LEMMA QuietMove ==
    ASSUME StoreInv, NEW s \in Setters, NEW r, Continues(s, r), Seen(r) = Seen(tx[s])
    PROVE  UNCHANGED <<active, rows, Calls>>
<1>1. Calls' = [Calls EXCEPT ![s] = Seen(r)]
  BY CallMoves DEF Continues
<1>2. Calls[s] = Seen(tx[s]) /\ Calls = [t \in Setters |-> Calls[t]]
  BY DEF Calls
<1> QED
  BY <1>1, <1>2 DEF Continues


LEMMA EndIsSeen ==
    ASSUME NEW s \in Setters, NEW out \in Out \ {"none"}
    PROVE  Seen(Ended(s, out)) = [stage |-> "done", policy |-> tx[s].policy,
                                  out |-> IF out = "ok" THEN "ok" ELSE "error"]
BY DEF Ended, Tx, Seen, StageOf, WireOut, Out

\* A call that is rolled back fails, at any point, and leaves no trace.
LEMMA RollbackFails ==
    ASSUME StoreInv, NEW s \in Setters, tx[s].pc \in InTransaction, Continues(s, RolledBack(s))
    PROVE  Register!Fails(s)
<1>1. Calls[s] = Seen(tx[s]) /\ Calls[s].stage = "pending"
      /\ Calls[s].policy = tx[s].policy
  BY DEF Calls, Seen, StageOf, InTransaction
<1>2. Calls' = [Calls EXCEPT ![s] = Seen(Ended(s, "error"))]
  BY CallMoves DEF Continues, RolledBack
<1>3. Seen(Ended(s, "error")) = [stage |-> "done", policy |-> Calls[s].policy, out |-> "error"]
  BY <1>1, EndIsSeen DEF Out
<1> QED
  BY <1>1, <1>2, <1>3 DEF Register!Fails, Register!Becomes, Continues

\* A commit is the instant at which the call takes effect; one that found no
\* row to activate empties the register, or finds it changed already.
LEMMA CommitTakesEffect ==
    ASSUME StoreInv, NEW s \in Setters, At(s, "commit"), Committed(s), NEW out \in Out \ {"none"},
           tx' = [tx EXCEPT ![s] = Ended(s, out)],
           tx[s].on = NoPolicy => out # "ok"
    PROVE  Register!TakesEffect(s) \/ Register!Empties(s) \/ Register!Fails(s)
<1>1. Calls[s].stage = "pending" /\ Calls[s].policy = tx[s].policy
  BY DEF Calls, Seen, StageOf, At
<1> DEFINE said == IF out = "ok" THEN "ok" ELSE "error"
<1>2. Register!Becomes(s, "done", said)
  <2>1. Seen(Ended(s, out)) = [stage |-> "done", policy |-> Calls[s].policy, out |-> said]
    BY <1>1, EndIsSeen
  <2>2. Calls' = [Calls EXCEPT ![s] = Seen(Ended(s, out))]
    BY CallMoves
  <2> HIDE DEF said
  <2> QED
    BY <2>1, <2>2 DEF Register!Becomes
<1>3. CASE tx[s].on # NoPolicy
  <2>1. active' = {Calls[s].policy} /\ rows' = rows \union {Calls[s].policy}
    BY <1>1, <1>3, CommitLeaves
  <2> QED
    BY <1>1, <1>2, <2>1 DEF Register!TakesEffect
<1>4. CASE tx[s].on = NoPolicy
  <2>1. said = "error" /\ active' \in {{}, active} /\ rows' = rows
    BY <1>4, CommitLeaves
  <2> QED
    BY <1>1, <1>2, <2>1 DEF Register!Empties, Register!Fails
<1> QED
  BY <1>3, <1>4

LEMMA StoreStepIsRegisterStep ==
    ASSUME StoreInv, NEW s \in Setters, StoreStep(s)
    PROVE  Register!Next \/ UNCHANGED <<active, rows, Calls>>
<1> DEFINE r == tx[s]
<1>1. r \in TxType
  BY DEF StoreInv
<1>2. ASSUME Register!TakesEffect(s) \/ Register!Empties(s) \/ Register!Fails(s)
             \/ Register!Returns(s) \/ \E p \in Policies : Register!Called(s, p)
      PROVE  Register!Next
  BY <1>2 DEF Register!Next
<1>3. ASSUME NEW kind \in Kind, NEW p \in Policies, Begin(s, kind, p) PROVE Register!Next
  <2> DEFINE new == Tx(IF kind = "set" THEN "upsert" ELSE "scan", kind, p,
                       {}, {}, {}, NoPolicy, "none")
  <2>1. Calls[s].stage = "idle"
    BY <1>3 DEF Begin, At, Calls, Seen, StageOf
  <2>2. Seen(new) = [stage |-> "pending", policy |-> p, out |-> "none"]
    BY DEF Tx, Seen, StageOf, WireOut
  <2>3. Calls' = [Calls EXCEPT ![s] = Seen(new)]
    BY <1>3, CallMoves DEF Begin
  <2>4. Register!Called(s, p)
    BY <1>3, <2>1, <2>2, <2>3 DEF Register!Called, Begin
  <2> QED
    BY <1>2, <2>4
<1>4. CASE Upsert(s)
  <2>1. Seen([r EXCEPT !.pc = "scan", !.locks = {r.policy}]) = Seen(r)
    BY <1>1, <1>4 DEF Upsert, At, TxType, Seen, StageOf
  <2> QED
    BY <1>4, <2>1, QuietMove DEF Upsert
<1>5. CASE Scan(s)
  <2>1. Seen([r EXCEPT !.pc = "deactivate", !.seen = active]) = Seen(r)
    BY <1>1, <1>5 DEF Scan, At, TxType, Seen, StageOf
  <2> QED
    BY <1>5, <2>1, QuietMove DEF Scan
<1>6. CASE Deactivate(s)
  <2> DEFINE still == r.seen \cap active
             new == [r EXCEPT !.pc = "lock", !.off = still, !.locks = r.locks \union still]
  <2>1. Seen(new) = Seen(r)
    BY <1>1, <1>6 DEF Deactivate, At, TxType, Seen, StageOf
  <2> QED
    BY <1>6, <2>1, QuietMove DEF Deactivate
<1>7. CASE LockTarget(s)
  <2>1. Seen([r EXCEPT !.pc = "index", !.locks = r.locks \union {r.policy}]) = Seen(r)
    BY <1>1, <1>7 DEF LockTarget, At, TxType, Seen, StageOf
  <2> QED
    BY <1>7, <2>1, QuietMove DEF LockTarget
<1>8. CASE TargetMissing(s)
  <2>1. Seen([r EXCEPT !.pc = "commit"]) = Seen(r)
    BY <1>1, <1>8 DEF TargetMissing, At, TxType, Seen, StageOf
  <2> QED
    BY <1>8, <2>1, QuietMove DEF TargetMissing
<1>9. CASE Activate(s)
  <2>1. Seen([r EXCEPT !.pc = "commit", !.on = r.policy]) = Seen(r)
    BY <1>1, <1>9 DEF Activate, At, TxType, Seen, StageOf
  <2> QED
    BY <1>9, <2>1, QuietMove DEF Activate
<1>10. CASE UniqueViolation(s)
  BY <1>2, <1>10, RollbackFails DEF UniqueViolation, At, InTransaction
<1>11. CASE DeadlockVictim(s)
  <2>1. r.pc \in InTransaction
    BY <1>1, <1>11 DEF DeadlockVictim, WaitsFor, TxType, InTransaction
  <2> QED
    BY <1>2, <1>11, <2>1, RollbackFails DEF DeadlockVictim
<1>12. CASE Commit(s)
  BY <1>2, <1>12, CommitTakesEffect DEF Commit, Out
<1>13. CASE CommitLost(s)
  <2> DEFINE out == IF r.on = NoPolicy THEN "missing" ELSE "lost"
  <2>1. out \in Out \ {"none"} /\ out # "ok"
    BY DEF Out
  <2>2. At(s, "commit") /\ Committed(s) /\ tx' = [tx EXCEPT ![s] = Ended(s, out)]
    BY <1>13 DEF CommitLost
  <2> HIDE DEF out
  <2> QED
    BY <1>2, <2>1, <2>2, CommitTakesEffect
<1>14. CASE StatementFails(s)
  BY <1>2, <1>14, RollbackFails DEF StatementFails, Continues
<1>15. CASE Answer(s)
  <2> DEFINE new == [r EXCEPT !.pc = "idle", !.kind = "set", !.policy = NoPolicy, !.out = "none"]
  <2>1. Calls[s].stage = "done"
    BY <1>15 DEF Answer, At, Calls, Seen, StageOf
  <2>2. Seen(new) = Register!NoCall
    BY <1>1 DEF TxType, Seen, StageOf, WireOut, Register!NoCall
  <2>3. Register!Returns(s)
    BY <1>15, <2>1, <2>2, CallMoves DEF Answer, Continues, Register!Returns
  <2> QED
    BY <1>2, <2>3
<1> QED
  BY <1>3, <1>4, <1>5, <1>6, <1>7, <1>8, <1>9, <1>10, <1>11, <1>12, <1>13, <1>14, <1>15
  DEF StoreStep, Works

\* The store implements the register of ActivePolicy: concurrent set_risk_policy
\* and activate calls take effect at one instant or never, for every number of
\* them and of policies, whatever fails, deadlocks or restarts.
THEOREM PolicyStoreIsRegister == Spec => StoreIsRegister
<1> USE DEF Register!Init, Register!NoCall
<1>1. Init => Register!Init
  <2> SUFFICES ASSUME Init PROVE Register!Init
    OBVIOUS
  <2>1. Seen(NoTx) = [stage |-> "idle", policy |-> NoPolicy, out |-> "none"]
    BY DEF NoTx, Tx, Seen, StageOf, WireOut
  <2>2. Calls = [s \in Setters |-> Seen(NoTx)]
    BY DEF Init, StoreInit, Calls
  <2> QED
    BY <2>1, <2>2 DEF Init, StoreInit
<1>2. IInv /\ [Next]_vars => [Register!Next]_<<active, rows, Calls>>
  <2> SUFFICES ASSUME IInv, [Next]_vars
               PROVE  Register!Next \/ UNCHANGED <<active, rows, Calls>>
    OBVIOUS
  <2>1. ASSUME NEW s \in Setters, StoreMoves(StoreStep(s))
        PROVE  Register!Next \/ UNCHANGED <<active, rows, Calls>>
    BY <2>1, StoreStepIsRegisterStep DEF StoreMoves, IInv
  <2>2. ASSUME UNCHANGED storeVars PROVE UNCHANGED <<active, rows, Calls>>
    BY <2>2 DEF storeVars, Calls
  <2>3. ASSUME NEW e \in Askers, NEW i \in Intents,
               Refused(e, i) \/ Asked(e, i) \/ \E p \in Overrides : Simulated(e, i, p)
        PROVE  UNCHANGED storeVars
    BY <2>3 DEF Refused, Asked, Simulated, AskMoves
  <2>4. ASSUME NEW e \in Askers, AskWorks(e) \/ AskFails(e) PROVE UNCHANGED storeVars
    BY <2>4 DEF AskWorks, AskFails, ReadsPolicy, FindsNone, Decides, Forgets, AskMoves
  <2>5. CASE Flip
    BY <2>2, <2>5 DEF Flip
  <2>6. CASE Restart
    <3>1. Calls' = [s \in Setters |-> Seen(NoTx)]
      BY <2>6 DEF Restart, StoreRestarts, Calls
    <3>2. Seen(NoTx) = Register!NoCall
      BY DEF NoTx, Tx, Seen, StageOf, WireOut
    <3>3. Register!Forgotten
      BY <2>6, <3>1, <3>2 DEF Restart, StoreRestarts, Register!Forgotten
    <3> QED
      BY <3>3 DEF Register!Next
  <2>7. CASE UNCHANGED vars
    BY <2>2, <2>7 DEF vars
  <2> QED
    BY <2>1, <2>2, <2>3, <2>4, <2>5, <2>6, <2>7 DEF Next
<1> QED
  BY <1>1, <1>2, Invariance, PTL DEF Spec, StoreIsRegister, Register!Spec
=============================================================================
