---------------------------- MODULE RiskPolicies ----------------------------
(***************************************************************************)
(* cryptozavr.risk_policies and the transactions RiskPolicyRepository runs *)
(* on it. Each statement of a transaction is a step; Postgres runs it at   *)
(* READ COMMITTED: a statement sees what was committed when it began, an   *)
(* UPDATE waits for the transaction that holds a row and then looks at the *)
(* row again, and the partial unique index waits for entries that are      *)
(* being added or removed before it decides. Statements are external; what *)
(* is sent, in which order and in which transaction is the code's.         *)
(***************************************************************************)
EXTENDS Relation

CONSTANTS
    Setters,      \* calls of set_risk_policy,
    Activators,   \* and those of them that may be calls of activate instead
    Policies,     \* policies by content hash: a row is its content
    NoPolicy

ASSUME NoPolicyAssumption == NoPolicy \notin Policies

VARIABLES
    rows,         \* the policies that have a committed row
    active,       \* those whose committed row has is_active = true
    tx            \* tx[s]: the call and its transaction

storeVars == <<rows, active, tx>>

Kind == {"set", "activate"}
InTransaction == {"upsert", "scan", "deactivate", "lock", "index", "commit"}
Out == {"none", "ok", "missing", "lost", "error"}

Tx(pc, kind, policy, seen, locks, off, on, out) ==
    [pc |-> pc, kind |-> kind, policy |-> policy, seen |-> seen,
     locks |-> locks, off |-> off, on |-> on, out |-> out]

TxType == [pc : InTransaction \union {"idle", "answer"}, kind : Kind,
           policy : Policies \union {NoPolicy}, seen : SUBSET Policies,
           locks : SUBSET Policies, off : SUBSET Policies,
           on : Policies \union {NoPolicy}, out : Out]

NoTx == Tx("idle", "set", NoPolicy, {}, {}, {}, NoPolicy, "none")

\* The table outlives the server: it holds what earlier calls left in it.
StoreInit == /\ rows \in SUBSET Policies
             /\ active \in {{}} \union {{p} : p \in rows}
             /\ tx = [s \in Setters |-> NoTx]

-----------------------------------------------------------------------------
\* The transactions the index has to wait for: they have added the entry of
\* an active row, or removed one, and have not ended.
Indexing == {t \in Setters : tx[t].on # NoPolicy \/ tx[t].off # {}}

WaitsFor(s) ==
    {t \in Setters \ {s} :
        \/ tx[s].pc \in {"upsert", "lock"} /\ tx[s].policy \in tx[t].locks
        \/ tx[s].pc = "deactivate" /\ tx[s].seen \cap tx[t].locks # {}
        \/ tx[s].pc = "index" /\ t \in Indexing}

Continues(s, r) == /\ tx' = [tx EXCEPT ![s] = r]
                   /\ UNCHANGED <<rows, active>>

At(s, pc) == tx[s].pc = pc

\* save_and_activate begins with the upsert, activate with the deactivation.
Begin(s, kind, p) ==
    /\ At(s, "idle")
    /\ kind = "activate" => s \in Activators
    /\ tx' = [tx EXCEPT ![s] = Tx(IF kind = "set" THEN "upsert" ELSE "scan", kind, p,
                                  {}, {}, {}, NoPolicy, "none")]
    /\ UNCHANGED <<rows, active>>

\* insert ... on conflict (content_hash) do update: the row is new or locked.
UpsertCommits(s) ==         \* Mutant of Upsert
    /\ At(s, "upsert")
    /\ WaitsFor(s) = {}
    /\ tx' = [tx EXCEPT ![s].pc = "scan"]
    /\ rows' = rows \union {tx[s].policy}
    /\ UNCHANGED active

Upsert(s) == /\ At(s, "upsert")
             /\ WaitsFor(s) = {}
             /\ Continues(s, [tx[s] EXCEPT !.pc = "scan", !.locks = {tx[s].policy}])

\* update ... set is_active = false where is_active = true: what it sees,
Scan(s) == /\ At(s, "scan")
           /\ Continues(s, [tx[s] EXCEPT !.pc = "deactivate", !.seen = active])

\* and, once nobody else holds those rows, what it still finds active.
Deactivate(s) ==
    /\ At(s, "deactivate")
    /\ WaitsFor(s) = {}
    /\ Continues(s, [tx[s] EXCEPT !.pc = "lock",
                                  !.off = tx[s].seen \cap active,
                                  !.locks = tx[s].locks \union (tx[s].seen \cap active)])

\* update ... set is_active = true where id = $1, for a row that is there
Visible(s) == rows \union (IF tx[s].kind = "set" THEN {tx[s].policy} ELSE {})

LockTarget(s) ==
    /\ At(s, "lock")
    /\ WaitsFor(s) = {}
    /\ tx[s].policy \in Visible(s)
    /\ Continues(s, [tx[s] EXCEPT !.pc = "index",
                                  !.locks = tx[s].locks \union {tx[s].policy}])

\* and for an id that is not: no row, no error, and the commit goes ahead.
TargetMissing(s) ==
    /\ At(s, "lock")
    /\ tx[s].policy \notin Visible(s)
    /\ Continues(s, [tx[s] EXCEPT !.pc = "commit"])

Others(s) == (active \ tx[s].off) \ {tx[s].policy}

Activate(s) ==
    /\ At(s, "index")
    /\ WaitsFor(s) = {}
    /\ Others(s) = {}
    /\ Continues(s, [tx[s] EXCEPT !.pc = "commit", !.on = tx[s].policy])

-----------------------------------------------------------------------------
Committed(s) ==
    /\ active' = (active \ tx[s].off) \union (IF tx[s].on = NoPolicy THEN {} ELSE {tx[s].on})
    /\ rows' = rows \union (IF tx[s].kind = "set" THEN {tx[s].policy} ELSE {})

Ended(s, out) == Tx("answer", tx[s].kind, tx[s].policy, {}, {}, {}, NoPolicy, out)

\* The rowcount is looked at when the transaction has been committed.
Commit(s) ==
    /\ At(s, "commit")
    /\ Committed(s)
    /\ tx' = [tx EXCEPT ![s] = Ended(s, IF tx[s].on = NoPolicy THEN "missing" ELSE "ok")]

CommitLost(s) ==
    /\ At(s, "commit")
    /\ Committed(s)
    /\ tx' = [tx EXCEPT ![s] = Ended(s, IF tx[s].on = NoPolicy THEN "missing" ELSE "lost")]

RolledBackKeepsLocks(s) ==   \* Mutant of RolledBack
    [Ended(s, "error") EXCEPT !.locks = tx[s].locks]

RolledBack(s) == Ended(s, "error")

\* A row that is active and was not deactivated: the index refuses the second.
UniqueViolation(s) ==
    /\ At(s, "index")
    /\ WaitsFor(s) = {}
    /\ Others(s) # {}
    /\ Continues(s, RolledBack(s))

\* Transactions that wait for each other: the detector ends one of them.
InCircle(s) == LET waits == [a, b \in Setters |-> b \in WaitsFor(a)]
               IN  TransitiveClosure(waits, Setters)[s, s]

DeadlockVictim(s) ==
    /\ WaitsFor(s) # {}
    /\ InCircle(s)
    /\ Continues(s, RolledBack(s))

\* A lost connection, a timeout of the pool or of the tool.
StatementFails(s) ==
    /\ tx[s].pc \in InTransaction
    /\ tx' = [tx EXCEPT ![s] = RolledBack(s)]
    /\ UNCHANGED <<rows, active>>

Answer(s) == /\ At(s, "answer")
             /\ Continues(s, [tx[s] EXCEPT !.pc = "idle", !.kind = "set",
                                           !.policy = NoPolicy, !.out = "none"])

\* The process ends: Postgres rolls back what it had not committed.
StoreRestarts ==
    /\ tx' = [s \in Setters |-> NoTx]
    /\ UNCHANGED <<rows, active>>

Works(s) == \/ Upsert(s) \/ Scan(s) \/ Deactivate(s) \/ LockTarget(s) \/ TargetMissing(s)
            \/ Activate(s) \/ UniqueViolation(s) \/ DeadlockVictim(s) \/ Commit(s) \/ Answer(s)

StoreStep(s) == \/ \E kind \in Kind, p \in Policies : Begin(s, kind, p)
                \/ Works(s) \/ CommitLost(s) \/ StatementFails(s)

-----------------------------------------------------------------------------
StoreTypeOK ==
    /\ rows \subseteq Policies
    /\ active \subseteq rows
    /\ tx \in [Setters -> TxType]

\* Nobody has a lock that somebody else has, and only a transaction has locks.
LocksExclude ==
    /\ \A s, t \in Setters : s # t => tx[s].locks \cap tx[t].locks = {}
    /\ \A s \in Setters : tx[s].locks # {} => tx[s].pc \in InTransaction
=============================================================================
