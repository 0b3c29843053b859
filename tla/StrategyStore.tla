--------------------------- MODULE StrategyStore ---------------------------
(***************************************************************************)
(* The table cryptozavr.strategy_specs and the tools around it: save and   *)
(* list, validate, explain and diff. A row is inserted once per content;   *)
(* its id is what a client keeps. Every operation is one statement, but    *)
(* its answer may be lost after the commit.                                *)
(***************************************************************************)
EXTENDS StrategySpecs

CONSTANTS
    Payloads,     \* what clients send, well formed or not
    MaxRows       \* bound: rows ever inserted

ASSUME RowsAssumption == MaxRows \in Nat
ASSUME PayloadsAssumption == \A s \in Payloads : PayloadShaped(s)

VARIABLES
    rows,         \* the table: a set of [id, spec], numbered as they are created
    ids,          \* ids given out
    told,         \* history: the <<id, spec>> of successful saves, until deleted
    answer        \* of the last call

vars == <<rows, ids, told, answer>>

Init == rows = {} /\ ids = 0 /\ told = {} /\ answer = <<"none">>

Says(a) == answer' = a /\ UNCHANGED <<rows, ids, told>>

-----------------------------------------------------------------------------
\* The conflict is on the hash of the canonical JSON, which is the content.
Saved(s) == {r \in rows : r.spec = s}

InsertAlways(s) ==      \* Mutant of Upsert
    /\ ids < MaxRows
    /\ rows' = rows \union {[id |-> ids + 1, spec |-> s]}
    /\ ids' = ids + 1

Upsert(s) ==
    IF Saved(s) # {} THEN UNCHANGED <<rows, ids>>
    ELSE /\ ids < MaxRows
         /\ rows' = rows \union {[id |-> ids + 1, spec |-> s]}
         /\ ids' = ids + 1

Row(s, table) == CHOOSE r \in table : r.spec = s

SaveRefused(s) ==
    /\ ~Parses(s)
    /\ Says(<<"error">>)

Save(s) ==
    /\ Parses(s)
    /\ Upsert(s)
    /\ LET id == IF Saved(s) = {} THEN ids' ELSE Row(s, rows).id
       IN  /\ answer' = <<"saved", id>>
           /\ told' = told \union {<<id, s>>}

\* The connection fails before the statement, or after its commit.
SaveFails(s) ==
    /\ Parses(s)
    /\ Upsert(s) \/ UNCHANGED <<rows, ids>>
    /\ answer' = <<"error">>
    /\ UNCHANGED told

ListRecent(limit) ==
    \/ Says(<<"listed", {r \in rows : Cardinality({q \in rows : q.id > r.id}) < limit}>>)
    \/ Says(<<"error">>)

Get(id) == Says(<<"got", {r.spec : r \in {q \in rows : q.id = id}}>>)

Delete(id) ==
    /\ rows' = {r \in rows : r.id # id}
    /\ told' = {t \in told : t[1] # id}
    /\ answer' = <<"deleted", \E r \in rows : r.id = id>>
    /\ UNCHANGED ids

\* Both phases: the payload, then the domain object.
Validate(s) == Says(<<"validated", Parses(s)>>)

\* These two ask for a payload only: a strategy with no way out is explained.
ExitText(s) == {x \in {"conditions", "TP", "SL"} :
                    \/ x = "conditions" /\ s.exit # <<>>
                    \/ x = "TP" /\ s.take_profit # Null
                    \/ x = "SL" /\ s.stop_loss # Null}
Explain(s) == IF PayloadAccepts(s) THEN Says(<<"explained", ExitText(s)>>) ELSE Says(<<"error">>)

\* The answer is kept by what it is about; StrategyDiff says what it lists.
Diff(a, b) == IF PayloadAccepts(a) /\ PayloadAccepts(b)
              THEN Says(<<"diffed", a, b>>) ELSE Says(<<"error">>)

Next == \/ \E s \in Payloads : \/ SaveRefused(s) \/ Save(s) \/ SaveFails(s)
                               \/ Validate(s) \/ Explain(s)
        \/ \E a, b \in Payloads : Diff(a, b)
        \/ \E limit \in 1 .. 2 : ListRecent(limit)
        \/ \E id \in 1 .. MaxRows : Get(id) \/ Delete(id)

Spec == Init /\ [][Next]_vars

-----------------------------------------------------------------------------
\* (SavedIsKept) Whatever was saved twice, saved with a lost answer in
\* between, or deleted and saved again: a content has one row, an id that a
\* client was told names the content it saved until that id is deleted, and
\* everything in the table can be parsed when it is read back.
SavedIsKept ==
    /\ \A r, q \in rows : r.id = q.id \/ r.spec = q.spec => r = q
    /\ \A t \in told : [id |-> t[1], spec |-> t[2]] \in rows
    /\ \A r \in rows : Parses(r.spec)
=============================================================================
