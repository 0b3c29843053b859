------------------------ MODULE StrategyStoreProofs ------------------------
(***************************************************************************)
(* Proofs about StrategyStore: a content has one row, and an id that was   *)
(* told names what was saved, for all payloads and however often a save is *)
(* repeated, lost or undone. And about StrategyDiff: what is listed of two *)
(* strategies is all that tells them apart.                                *)
(***************************************************************************)
EXTENDS StrategyDiff, SequenceTheorems, TLAPS

\* Ids are numbered as they are given out, so a new one names no row yet.
TableOK ==
    /\ ids \in Nat
    /\ rows \subseteq [id : 1 .. ids, spec : Payloads]
    /\ told \subseteq (1 .. ids) \X Payloads

StoreInv == TableOK /\ SavedIsKept

LEMMA StoreInit == Init => StoreInv
  BY DEF Init, StoreInv, TableOK, SavedIsKept

LEMMA NothingChanges ==
    ASSUME StoreInv, UNCHANGED <<rows, ids, told>>
    PROVE  StoreInv'
  BY DEF StoreInv, TableOK, SavedIsKept

\* The statement of a save: one row more, or none.
LEMMA UpsertKeeps ==
    ASSUME StoreInv, NEW s \in Payloads, Parses(s), Upsert(s)
    PROVE  /\ ids' \in Nat /\ ids <= ids'
           /\ rows' \subseteq [id : 1 .. ids', spec : Payloads]
           /\ rows \subseteq rows'
           /\ \A r, q \in rows' : r.id = q.id \/ r.spec = q.spec => r = q
           /\ \A r \in rows' : Parses(r.spec)
           /\ Saved(s) = {} => [id |-> ids', spec |-> s] \in rows' /\ ids' \in 1 .. ids'
<1>1. /\ ids \in Nat /\ rows \subseteq [id : 1 .. ids, spec : Payloads]
      /\ \A r, q \in rows : r.id = q.id \/ r.spec = q.spec => r = q
      /\ \A r \in rows : Parses(r.spec)
  BY DEF StoreInv, TableOK, SavedIsKept
<1>2. CASE Saved(s) # {}
  <2>1. UNCHANGED <<rows, ids>>
    BY <1>2 DEF Upsert
  <2> QED
    BY <1>1, <1>2, <2>1
<1>3. CASE Saved(s) = {}
  <2> DEFINE new == [id |-> ids + 1, spec |-> s]
  <2>1. rows' = rows \union {new} /\ ids' = ids + 1
    BY <1>3 DEF Upsert
  <2>2. new.id = ids + 1 /\ new.spec = s /\ new \in [id : 1 .. ids', spec : Payloads]
    BY <1>1, <2>1
  <2>3. \A r \in rows : r.id \in 1 .. ids /\ r.spec # s /\ r \in [id : 1 .. ids', spec : Payloads]
    <3>1. \A r \in rows : r.id \in 1 .. ids /\ r \in [id : 1 .. ids', spec : Payloads]
      BY <1>1, <2>1
    <3>2. \A r \in rows : r.spec # s
      BY <1>3 DEF Saved
    <3> QED
      BY <3>1, <3>2
  <2>4. \A r \in rows : r.id # new.id /\ r.spec # new.spec
    BY <1>1, <2>2, <2>3
  <2> HIDE DEF new
  <2>5. \A r, q \in rows' : r.id = q.id \/ r.spec = q.spec => r = q
    BY <1>1, <2>1, <2>4
  <2>6. /\ rows' \subseteq [id : 1 .. ids', spec : Payloads] /\ rows \subseteq rows'
        /\ \A r \in rows' : Parses(r.spec)
    BY <1>1, <2>1, <2>2, <2>3
  <2>7. [id |-> ids', spec |-> s] \in rows' /\ ids' \in 1 .. ids' /\ ids' \in Nat /\ ids <= ids'
    BY <1>1, <2>1 DEF new
  <2> QED
    BY <2>5, <2>6, <2>7
<1> QED
  BY <1>2, <1>3

LEMMA SaveKeeps ==
    ASSUME StoreInv, NEW s \in Payloads, Save(s)
    PROVE  StoreInv'
<1> DEFINE id == IF Saved(s) = {} THEN ids' ELSE Row(s, rows).id
<1>1. Parses(s) /\ Upsert(s) /\ told' = told \union {<<id, s>>}
  BY DEF Save
<1>2. /\ ids \in Nat /\ rows \subseteq [id : 1 .. ids, spec : Payloads]
      /\ told \subseteq (1 .. ids) \X Payloads
      /\ \A t \in told : [id |-> t[1], spec |-> t[2]] \in rows
  BY DEF StoreInv, TableOK, SavedIsKept
<1>3. /\ ids' \in Nat /\ ids <= ids'
      /\ rows' \subseteq [id : 1 .. ids', spec : Payloads]
      /\ rows \subseteq rows'
      /\ \A r, q \in rows' : r.id = q.id \/ r.spec = q.spec => r = q
      /\ \A r \in rows' : Parses(r.spec)
      /\ Saved(s) = {} => [id |-> ids', spec |-> s] \in rows' /\ ids' \in 1 .. ids'
  BY <1>1, UpsertKeeps
<1>4. [id |-> id, spec |-> s] \in rows' /\ id \in 1 .. ids'
  <2>1. CASE Saved(s) = {}
    BY <1>3, <2>1
  <2>2. CASE Saved(s) # {}
    <3>1. Row(s, rows) \in rows /\ Row(s, rows).spec = s
      BY <2>2 DEF Saved, Row
    <3>2. /\ Row(s, rows) = [id |-> Row(s, rows).id, spec |-> s]
          /\ Row(s, rows).id \in 1 .. ids
      BY <1>2, <3>1
    <3>3. id = Row(s, rows).id
      BY <2>2
    <3> HIDE DEF id
    <3>4. id \in 1 .. ids'
      BY <1>2, <1>3, <3>2, <3>3
    <3> QED
      BY <1>3, <3>1, <3>2, <3>3, <3>4
  <2> QED
    BY <2>1, <2>2
<1> HIDE DEF id
<1>5. ASSUME NEW t \in told' PROVE [id |-> t[1], spec |-> t[2]] \in rows'
  <2>1. CASE t \in told
    BY <1>2, <1>3, <2>1
  <2>2. CASE t = <<id, s>>
    <3>1. t[1] = id /\ t[2] = s
      BY <2>2
    <3> QED
      BY <1>4, <3>1
  <2> QED
    BY <1>1, <2>1, <2>2
<1>6. told' \subseteq (1 .. ids') \X Payloads
  <2>1. 1 .. ids \subseteq 1 .. ids'
    BY <1>2, <1>3
  <2> QED
    BY <1>1, <1>2, <1>4, <2>1
<1> QED
  BY <1>3, <1>5, <1>6 DEF StoreInv, TableOK, SavedIsKept

\* The statement may have committed: nobody was told.
LEMMA LostSaveKeeps ==
    ASSUME StoreInv, NEW s \in Payloads, SaveFails(s)
    PROVE  StoreInv'
<1>1. CASE UNCHANGED <<rows, ids>>
  BY <1>1, NothingChanges DEF SaveFails
<1>2. CASE Upsert(s)
  <2>1. Parses(s) /\ told' = told
    BY DEF SaveFails
  <2>2. /\ ids \in Nat /\ told \subseteq (1 .. ids) \X Payloads
        /\ \A t \in told : [id |-> t[1], spec |-> t[2]] \in rows
    BY DEF StoreInv, TableOK, SavedIsKept
  <2>3. /\ ids' \in Nat /\ ids <= ids'
        /\ rows' \subseteq [id : 1 .. ids', spec : Payloads]
        /\ rows \subseteq rows'
        /\ \A r, q \in rows' : r.id = q.id \/ r.spec = q.spec => r = q
        /\ \A r \in rows' : Parses(r.spec)
    BY <1>2, <2>1, UpsertKeeps
  <2>4. 1 .. ids \subseteq 1 .. ids'
    BY <2>2, <2>3
  <2>5. told' \subseteq (1 .. ids') \X Payloads
    BY <2>1, <2>2, <2>4
  <2>6. \A t \in told' : [id |-> t[1], spec |-> t[2]] \in rows'
    BY <2>1, <2>2, <2>3
  <2> QED
    BY <2>3, <2>5, <2>6 DEF StoreInv, TableOK, SavedIsKept
<1> QED
  BY <1>1, <1>2 DEF SaveFails

LEMMA DeleteKeeps ==
    ASSUME StoreInv, NEW id, Delete(id)
    PROVE  StoreInv'
<1>1. /\ rows' = {r \in rows : r.id # id} /\ told' = {t \in told : t[1] # id} /\ ids' = ids
  BY DEF Delete
<1>2. TableOK'
  BY <1>1 DEF StoreInv, TableOK
<1>3. \A t \in told' : [id |-> t[1], spec |-> t[2]] \in rows'
  <2> SUFFICES ASSUME NEW t \in told, t[1] # id PROVE [id |-> t[1], spec |-> t[2]] \in rows'
    BY <1>1
  <2> DEFINE r == [id |-> t[1], spec |-> t[2]]
  <2>1. r \in rows /\ r.id # id
    BY DEF StoreInv, SavedIsKept
  <2> HIDE DEF r
  <2>2. r \in rows'
    BY <1>1, <2>1
  <2> QED
    BY <2>2 DEF r
<1>4. \A r, q \in rows' : r.id = q.id \/ r.spec = q.spec => r = q
  BY <1>1 DEF StoreInv, SavedIsKept
<1>5. \A r \in rows' : Parses(r.spec)
  BY <1>1 DEF StoreInv, SavedIsKept
<1> QED
  BY <1>2, <1>3, <1>4, <1>5 DEF StoreInv, SavedIsKept

\* Whatever is saved twice, saved with a lost answer, or deleted and saved
\* again: one row for a content, every told id names its content, and every
\* row parses.
THEOREM StoreKeepsWhatWasSaved == Spec => []SavedIsKept
<1>1. StoreInv /\ [Next]_vars => StoreInv'
  <2> SUFFICES ASSUME StoreInv, [Next]_vars PROVE StoreInv'
    OBVIOUS
  <2>1. ASSUME NEW s \in Payloads, Save(s) PROVE StoreInv'
    BY <2>1, SaveKeeps
  <2>2. ASSUME NEW s \in Payloads, SaveFails(s) PROVE StoreInv'
    BY <2>2, LostSaveKeeps
  <2>3. ASSUME NEW s \in Payloads, SaveRefused(s) \/ Validate(s) \/ Explain(s) PROVE StoreInv'
    BY <2>3, NothingChanges DEF SaveRefused, Validate, Explain, Says
  <2>4. ASSUME NEW a \in Payloads, NEW b \in Payloads, Diff(a, b) PROVE StoreInv'
    BY <2>4, NothingChanges DEF Diff, Says
  <2>5. ASSUME NEW limit \in 1 .. 2, ListRecent(limit) PROVE StoreInv'
    BY <2>5, NothingChanges DEF ListRecent, Says
  <2>6. ASSUME NEW id \in 1 .. MaxRows, Get(id) PROVE StoreInv'
    BY <2>6, NothingChanges DEF Get, Says
  <2>7. ASSUME NEW id \in 1 .. MaxRows, Delete(id) PROVE StoreInv'
    BY <2>7, DeleteKeeps
  <2>8. CASE UNCHANGED vars
    BY <2>8, NothingChanges DEF vars
  <2> QED
    BY <2>1, <2>2, <2>3, <2>4, <2>5, <2>6, <2>7, <2>8 DEF Next
<1>2. StoreInv => SavedIsKept
  BY DEF StoreInv
<1> QED
  BY StoreInit, <1>1, <1>2, PTL DEF Spec

-----------------------------------------------------------------------------
(* The shape of the trees that diff_strategies compares *)

IsLeaf(t) == t[1] = "leaf"
IsNode(t, kind, keys) == t = <<kind, t[2]>> /\ t[2] = [k \in keys |-> t[2][k]]

RefKeys == {"kind", "period", "source"}
RefTree(t) == \/ IsLeaf(t)
              \/ IsNode(t, "object", RefKeys) /\ \A k \in RefKeys : IsLeaf(t[2][k])

ConditionKeys == {"lhs", "op", "rhs"}
ConditionTree(t) == /\ IsNode(t, "object", ConditionKeys)
                    /\ \A k \in ConditionKeys : RefTree(t[2][k])

ListTree(t) == \E n \in Nat : /\ IsNode(t, "list", 1 .. n)
                              /\ \A k \in 1 .. n : ConditionTree(t[2][k])

Parted == {"venue", "side", "conditions", "take_profit_pct", "stop_loss_pct"}
PartTree(t) == IsLeaf(t) \/ ListTree(t)
FieldTree(t) == \/ IsLeaf(t)
                \/ \E keys \in SUBSET Parted : /\ IsNode(t, "object", keys)
                                               /\ \A k \in keys : PartTree(t[2][k])

Fields == {"name", "venue", "symbol", "entry", "exit", "size_pct"}
RootTree(t) == IsNode(t, "object", Fields) /\ \A k \in Fields : FieldTree(t[2][k])

Names == Fields \union Parted \union ConditionKeys \union RefKeys
Key == Names \union Nat

\* What a node at depth d of a strategy is, or of its other side.
ShapeAt(d, t) ==
    /\ d = 0 => RootTree(t)
    /\ d = 1 => FieldTree(t)
    /\ d = 2 => PartTree(t)
    /\ d = 3 => IsLeaf(t) \/ ConditionTree(t)
    /\ d = 4 => RefTree(t)
    /\ d = 5 => IsLeaf(t)

Opened(d, t) == /\ d \in 0 .. Depth - 1
                /\ t = <<t[1], t[2]>> /\ t[2] = [k \in DOMAIN t[2] |-> t[2][k]]
                /\ DOMAIN t[2] \subseteq Key
                /\ \A k \in DOMAIN t[2] : ShapeAt(d + 1, t[2][k])

LEMMA NodeOpens ==
    ASSUME NEW t, NEW kind, NEW keys, IsNode(t, kind, keys)
    PROVE  /\ t[1] = kind /\ t = <<t[1], t[2]>> /\ DOMAIN t[2] = keys
           /\ t[2] = [k \in DOMAIN t[2] |-> t[2][k]]
<1> DEFINE f == t[2]
<1>1. t = <<kind, f>> /\ f = [k \in keys |-> f[k]]
  BY DEF IsNode
<1>2. t[1] = kind
  BY <1>1
<1> HIDE DEF f
<1>3. DOMAIN f = keys
  BY <1>1
<1> QED
  BY <1>1, <1>2, <1>3 DEF f

LEMMA Opens ==
    ASSUME NEW d \in 0 .. Depth, NEW t, ShapeAt(d, t), ~IsLeaf(t)
    PROVE  Opened(d, t)
<1>1. CASE d = 0
  <2>1. IsNode(t, "object", Fields) /\ \A k \in Fields : FieldTree(t[2][k])
    BY <1>1 DEF ShapeAt, RootTree
  <2>2. Fields \subseteq Key
    BY DEF Key, Names
  <2>3. \A k \in Fields : ShapeAt(1, t[2][k])
    BY <2>1 DEF ShapeAt
  <2> QED
    BY <1>1, <2>1, <2>2, <2>3, NodeOpens DEF Opened, Depth
<1>2. CASE d = 1
  <2>1. PICK keys \in SUBSET Parted : /\ IsNode(t, "object", keys)
                                      /\ \A k \in keys : PartTree(t[2][k])
    BY <1>2 DEF ShapeAt, FieldTree
  <2>2. keys \subseteq Key
    BY DEF Key, Names
  <2>3. \A k \in keys : ShapeAt(2, t[2][k])
    BY <2>1 DEF ShapeAt
  <2> QED
    BY <1>2, <2>1, <2>2, <2>3, NodeOpens DEF Opened, Depth
<1>3. CASE d = 2
  <2>1. PICK n \in Nat : /\ IsNode(t, "list", 1 .. n)
                         /\ \A k \in 1 .. n : ConditionTree(t[2][k])
    BY <1>3 DEF ShapeAt, PartTree, ListTree
  <2>2. 1 .. n \subseteq Key
    BY DEF Key
  <2>3. \A k \in 1 .. n : ShapeAt(3, t[2][k])
    BY <2>1 DEF ShapeAt
  <2> QED
    BY <1>3, <2>1, <2>2, <2>3, NodeOpens DEF Opened, Depth
<1>4. CASE d = 3
  <2>1. IsNode(t, "object", ConditionKeys) /\ \A k \in ConditionKeys : RefTree(t[2][k])
    BY <1>4 DEF ShapeAt, ConditionTree
  <2>2. ConditionKeys \subseteq Key
    BY DEF Key, Names
  <2>3. \A k \in ConditionKeys : ShapeAt(4, t[2][k])
    BY <2>1 DEF ShapeAt
  <2> QED
    BY <1>4, <2>1, <2>2, <2>3, NodeOpens DEF Opened, Depth
<1>5. CASE d = 4
  <2>1. IsNode(t, "object", RefKeys) /\ \A k \in RefKeys : IsLeaf(t[2][k])
    BY <1>5 DEF ShapeAt, RefTree
  <2>2. RefKeys \subseteq Key
    BY DEF Key, Names
  <2>3. \A k \in RefKeys : ShapeAt(5, t[2][k])
    BY <2>1 DEF ShapeAt
  <2> QED
    BY <1>5, <2>1, <2>2, <2>3, NodeOpens DEF Opened, Depth
<1>6. d # 5
  BY DEF ShapeAt
<1> QED
  BY <1>1, <1>2, <1>3, <1>4, <1>5, <1>6 DEF Depth

\* The side that ends first is taken to be missing.
LEMMA MissingFits ==
    ASSUME NEW d \in 1 .. Depth
    PROVE  ShapeAt(d, Missing) /\ IsLeaf(Missing)
<1>1. IsLeaf(Missing)
  BY DEF IsLeaf, Missing, Leaf
<1> QED
  BY <1>1 DEF ShapeAt, FieldTree, PartTree, RefTree

LEMMA ChildFits ==
    ASSUME NEW d \in 0 .. Depth, NEW t, ShapeAt(d, t), ~IsLeaf(t), NEW k
    PROVE  /\ ShapeAt(d + 1, Child(t, k)) /\ d + 1 \in 1 .. Depth
           /\ k \in DOMAIN t[2] => Child(t, k) = t[2][k] /\ k \in Key
           /\ k \notin DOMAIN t[2] => Child(t, k) = Missing
<1>1. Opened(d, t)
  BY Opens
<1>2. d + 1 \in 1 .. Depth
  BY <1>1 DEF Opened, Depth
<1>3. CASE k \in DOMAIN t[2]
  BY <1>1, <1>2, <1>3 DEF Opened, Child
<1>4. CASE k \notin DOMAIN t[2]
  BY <1>2, <1>4, MissingFits DEF Child
<1> QED
  BY <1>2, <1>3, <1>4

-----------------------------------------------------------------------------
(* The levels of a walk, and of a tree *)

Under(S) == UNION {Beneath(w) : w \in {v \in S : Descends(v)}}
PartsOf(S) == UNION {Parts(n) : n \in {m \in S : m.node[1] # "leaf"}}

RootCall(l, r) == [path |-> <<>>, left |-> l, right |-> r]
RootNode(t) == [path |-> <<>>, node |-> t]

LEMMA DepthInduction ==
    ASSUME NEW Good, 0 \in Good, \A d \in 0 .. Depth - 1 : d \in Good => d + 1 \in Good
    PROVE  \A d \in 0 .. Depth : d \in Good
<1>1. 1 \in Good
  BY 0 \in 0 .. Depth - 1 DEF Depth
<1>2. 2 \in Good
  BY <1>1, 1 \in 0 .. Depth - 1 DEF Depth
<1>3. 3 \in Good
  BY <1>2, 2 \in 0 .. Depth - 1 DEF Depth
<1>4. 4 \in Good
  BY <1>3, 3 \in 0 .. Depth - 1 DEF Depth
<1>5. 5 \in Good
  BY <1>4, 4 \in 0 .. Depth - 1 DEF Depth
<1> QED
  BY <1>1, <1>2, <1>3, <1>4, <1>5 DEF Depth

LEMMA CallsByDepth ==
    ASSUME NEW l, NEW r
    PROVE  /\ Calls(l, r)[0] = {RootCall(l, r)}
           /\ \A d \in 0 .. Depth - 1 : Calls(l, r)[d + 1] = Under(Calls(l, r)[d])
<1> DEFINE Form(f) == [d \in 0 .. Depth |->
                          IF d = 0 THEN {RootCall(l, r)} ELSE Under(f[d - 1])]
<1>1. Calls(l, r) = CHOOSE f : f = Form(f)
  BY DEF Calls, Under, RootCall
<1>2. \E f : f = Form(f)
  <2> DEFINE one == Under({RootCall(l, r)})
             two == Under(one)
             three == Under(two)
             four == Under(three)
             five == Under(four)
             g == [d \in 0 .. Depth |->
                     IF d = 0 THEN {RootCall(l, r)} ELSE IF d = 1 THEN one
                     ELSE IF d = 2 THEN two ELSE IF d = 3 THEN three
                     ELSE IF d = 4 THEN four ELSE five]
  <2>1. ASSUME NEW d \in 0 .. Depth
        PROVE  g[d] = IF d = 0 THEN {RootCall(l, r)} ELSE Under(g[d - 1])
    <3>1. /\ g[0] = {RootCall(l, r)} /\ g[1] = one /\ g[2] = two
          /\ g[3] = three /\ g[4] = four /\ g[5] = five
      BY DEF Depth
    <3> HIDE DEF g
    <3>2. /\ g[1] = Under(g[0]) /\ g[2] = Under(g[1]) /\ g[3] = Under(g[2])
          /\ g[4] = Under(g[3]) /\ g[5] = Under(g[4])
      BY <3>1
    <3>3. d \in {0, 1, 2, 3, 4, 5}
      BY DEF Depth
    <3> QED
      BY <3>1, <3>2, <3>3
  <2>2. g = [d \in 0 .. Depth |-> g[d]]
    OBVIOUS
  <2> HIDE DEF g
  <2>3. g = Form(g)
    BY <2>1, <2>2
  <2> QED
    BY <2>3
<1>3. Calls(l, r) = Form(Calls(l, r))
  <2> HIDE DEF Form
  <2> QED
    BY <1>1, <1>2
<1> DEFINE at == Calls(l, r)
<1>4. at = Form(at)
  BY <1>3
<1> HIDE DEF at
<1>5. \A d \in 0 .. Depth : at[d] = IF d = 0 THEN {RootCall(l, r)} ELSE Under(at[d - 1])
  BY <1>4
<1> HIDE DEF Form
<1>6. at[0] = {RootCall(l, r)}
  BY <1>5 DEF Depth
<1>7. ASSUME NEW d \in 0 .. Depth - 1 PROVE at[d + 1] = Under(at[d])
  <2>1. d + 1 \in 0 .. Depth /\ d + 1 # 0 /\ (d + 1) - 1 = d
    BY DEF Depth
  <2> QED
    BY <1>5, <2>1
<1> QED
  BY <1>6, <1>7 DEF at

LEMMA NodesByDepth ==
    ASSUME NEW t
    PROVE  /\ Levels(t)[0] = {RootNode(t)}
           /\ \A d \in 0 .. Depth - 1 : Levels(t)[d + 1] = PartsOf(Levels(t)[d])
<1> DEFINE Form(f) == [d \in 0 .. Depth |-> IF d = 0 THEN {RootNode(t)} ELSE PartsOf(f[d - 1])]
<1>1. Levels(t) = CHOOSE f : f = Form(f)
  BY DEF Levels, PartsOf, RootNode
<1>2. \E f : f = Form(f)
  <2> DEFINE one == PartsOf({RootNode(t)})
             two == PartsOf(one)
             three == PartsOf(two)
             four == PartsOf(three)
             five == PartsOf(four)
             g == [d \in 0 .. Depth |->
                     IF d = 0 THEN {RootNode(t)} ELSE IF d = 1 THEN one
                     ELSE IF d = 2 THEN two ELSE IF d = 3 THEN three
                     ELSE IF d = 4 THEN four ELSE five]
  <2>1. ASSUME NEW d \in 0 .. Depth
        PROVE  g[d] = IF d = 0 THEN {RootNode(t)} ELSE PartsOf(g[d - 1])
    <3>1. /\ g[0] = {RootNode(t)} /\ g[1] = one /\ g[2] = two
          /\ g[3] = three /\ g[4] = four /\ g[5] = five
      BY DEF Depth
    <3> HIDE DEF g
    <3>2. /\ g[1] = PartsOf(g[0]) /\ g[2] = PartsOf(g[1]) /\ g[3] = PartsOf(g[2])
          /\ g[4] = PartsOf(g[3]) /\ g[5] = PartsOf(g[4])
      BY <3>1
    <3>3. d \in {0, 1, 2, 3, 4, 5}
      BY DEF Depth
    <3> QED
      BY <3>1, <3>2, <3>3
  <2>2. g = [d \in 0 .. Depth |-> g[d]]
    OBVIOUS
  <2> HIDE DEF g
  <2>3. g = Form(g)
    BY <2>1, <2>2
  <2> QED
    BY <2>3
<1>3. Levels(t) = Form(Levels(t))
  <2> HIDE DEF Form
  <2> QED
    BY <1>1, <1>2
<1> DEFINE at == Levels(t)
<1>4. at = Form(at)
  BY <1>3
<1> HIDE DEF at
<1>5. \A d \in 0 .. Depth : at[d] = IF d = 0 THEN {RootNode(t)} ELSE PartsOf(at[d - 1])
  BY <1>4
<1> HIDE DEF Form
<1>6. at[0] = {RootNode(t)}
  BY <1>5 DEF Depth
<1>7. ASSUME NEW d \in 0 .. Depth - 1 PROVE at[d + 1] = PartsOf(at[d])
  <2>1. d + 1 \in 0 .. Depth /\ d + 1 # 0 /\ (d + 1) - 1 = d
    BY DEF Depth
  <2> QED
    BY <1>5, <2>1
<1> QED
  BY <1>6, <1>7 DEF at

LEMMA CallsUnder ==
    ASSUME NEW S, NEW v
    PROVE  v \in Under(S) <=>
             \E w \in S : /\ Descends(w)
                          /\ \E k \in DOMAIN w.left[2] \union DOMAIN w.right[2] :
                                v = [path |-> Append(w.path, k), left |-> Child(w.left, k),
                                     right |-> Child(w.right, k)]
BY DEF Under, Beneath, Below

LEMMA PartsUnder ==
    ASSUME NEW S, NEW n
    PROVE  n \in PartsOf(S) <=>
             \E m \in S : /\ ~IsLeaf(m.node)
                          /\ \E k \in DOMAIN m.node[2] :
                                n = [path |-> Append(m.path, k), node |-> m.node[2][k]]
BY DEF PartsOf, Parts, IsLeaf

-----------------------------------------------------------------------------
(* What the walk visits, and where the nodes are *)

PathOf(p, d) == p \in Seq(Key) /\ Len(p) = d

CallFits(w, d) == /\ w = [path |-> w.path, left |-> w.left, right |-> w.right]
                  /\ PathOf(w.path, d) /\ ShapeAt(d, w.left) /\ ShapeAt(d, w.right)

NodeFits(n, d) == /\ n = [path |-> n.path, node |-> n.node]
                  /\ PathOf(n.path, d) /\ ShapeAt(d, n.node)

IsCalledBy(v, w, k) == /\ Descends(w) /\ k \in DOMAIN w.left[2] \union DOMAIN w.right[2]
                       /\ v = [path |-> Append(w.path, k), left |-> Child(w.left, k),
                               right |-> Child(w.right, k)]

IsPartOf(n, m, k) == /\ ~IsLeaf(m.node) /\ k \in DOMAIN m.node[2]
                     /\ n = [path |-> Append(m.path, k), node |-> m.node[2][k]]

LEMMA CallersOf ==
    ASSUME NEW l, NEW r, NEW d \in 0 .. Depth - 1, NEW v
    PROVE  v \in Calls(l, r)[d + 1] <=> \E w \in Calls(l, r)[d] : \E k : IsCalledBy(v, w, k)
<1>1. Calls(l, r)[d + 1] = Under(Calls(l, r)[d])
  BY CallsByDepth
<1> QED
  BY <1>1, CallsUnder DEF IsCalledBy

LEMMA WholesOf ==
    ASSUME NEW t, NEW d \in 0 .. Depth - 1, NEW n
    PROVE  n \in Levels(t)[d + 1] <=> \E m \in Levels(t)[d] : \E k : IsPartOf(n, m, k)
<1>1. Levels(t)[d + 1] = PartsOf(Levels(t)[d])
  BY NodesByDepth
<1> QED
  BY <1>1, PartsUnder DEF IsPartOf

LEMMA LongerPath ==
    ASSUME NEW d \in Nat, NEW p, PathOf(p, d), NEW k \in Key
    PROVE  PathOf(Append(p, k), d + 1)
BY AppendProperties DEF PathOf

LEMMA CalledFits ==
    ASSUME NEW d \in 0 .. Depth, NEW w, CallFits(w, d), NEW v, NEW k, IsCalledBy(v, w, k)
    PROVE  /\ CallFits(v, d + 1) /\ k \in Key /\ d + 1 \in 1 .. Depth
           /\ v.path = Append(w.path, k)
           /\ v.left = Child(w.left, k) /\ v.right = Child(w.right, k)
<1>1. ~IsLeaf(w.left) /\ ~IsLeaf(w.right) /\ ShapeAt(d, w.left) /\ ShapeAt(d, w.right)
  BY DEF IsCalledBy, Descends, IsLeaf, CallFits
<1>2. /\ ShapeAt(d + 1, Child(w.left, k)) /\ ShapeAt(d + 1, Child(w.right, k))
      /\ k \in Key /\ d + 1 \in 1 .. Depth
  BY <1>1, ChildFits DEF IsCalledBy
<1>3. v.path = Append(w.path, k) /\ v.left = Child(w.left, k) /\ v.right = Child(w.right, k)
  BY DEF IsCalledBy
<1>4. PathOf(v.path, d + 1)
  BY <1>2, <1>3, LongerPath DEF CallFits, Depth
<1>5. v = [path |-> v.path, left |-> v.left, right |-> v.right]
  BY DEF IsCalledBy
<1> QED
  BY <1>2, <1>3, <1>4, <1>5 DEF CallFits

LEMMA PartFits ==
    ASSUME NEW d \in 0 .. Depth, NEW m, NodeFits(m, d), NEW n, NEW k, IsPartOf(n, m, k)
    PROVE  /\ NodeFits(n, d + 1) /\ k \in Key /\ d + 1 \in 1 .. Depth
           /\ n.path = Append(m.path, k) /\ n.node = Child(m.node, k)
<1>1. ~IsLeaf(m.node) /\ ShapeAt(d, m.node) /\ k \in DOMAIN m.node[2]
  BY DEF IsPartOf, NodeFits
<1>2. /\ ShapeAt(d + 1, Child(m.node, k)) /\ k \in Key /\ d + 1 \in 1 .. Depth
      /\ Child(m.node, k) = m.node[2][k]
  BY <1>1, ChildFits
<1>3. n.path = Append(m.path, k) /\ n.node = Child(m.node, k)
  BY <1>2 DEF IsPartOf
<1>4. PathOf(n.path, d + 1)
  BY <1>2, <1>3, LongerPath DEF NodeFits, Depth
<1>5. n = [path |-> n.path, node |-> n.node]
  BY DEF IsPartOf
<1> QED
  BY <1>2, <1>3, <1>4, <1>5 DEF NodeFits

LEMMA RootFits == \A d : d = 0 => PathOf(<<>>, d)
BY EmptySeq DEF PathOf

LEMMA CallsFit ==
    ASSUME NEW l, NEW r, RootTree(l), RootTree(r)
    PROVE  \A d \in 0 .. Depth : \A w \in Calls(l, r)[d] : CallFits(w, d)
<1> DEFINE Good == {d \in 0 .. Depth : \A w \in Calls(l, r)[d] : CallFits(w, d)}
<1>1. 0 \in Good
  <2>1. Calls(l, r)[0] = {RootCall(l, r)} /\ 0 \in 0 .. Depth
    BY CallsByDepth DEF Depth
  <2>2. CallFits(RootCall(l, r), 0)
    BY RootFits DEF CallFits, RootCall, ShapeAt
  <2> QED
    BY <2>1, <2>2
<1>2. ASSUME NEW d \in 0 .. Depth - 1, d \in Good PROVE d + 1 \in Good
  <2>1. d + 1 \in 0 .. Depth /\ d \in 0 .. Depth
    BY DEF Depth
  <2>2. ASSUME NEW v \in Calls(l, r)[d + 1] PROVE CallFits(v, d + 1)
    <3>1. PICK w \in Calls(l, r)[d] : \E k : IsCalledBy(v, w, k)
      BY CallersOf
    <3>2. CallFits(w, d)
      BY <1>2
    <3>3. PICK k : IsCalledBy(v, w, k)
      BY <3>1
    <3> QED
      BY <2>1, <3>2, <3>3, CalledFits
  <2> QED
    BY <2>1, <2>2
<1>3. \A d \in 0 .. Depth : d \in Good
  <2> HIDE DEF Good
  <2> QED
    BY <1>1, <1>2, DepthInduction
<1> QED
  BY <1>3

LEMMA NodesFit ==
    ASSUME NEW t, RootTree(t)
    PROVE  \A d \in 0 .. Depth : \A n \in Levels(t)[d] : NodeFits(n, d)
<1> DEFINE Good == {d \in 0 .. Depth : \A n \in Levels(t)[d] : NodeFits(n, d)}
<1>1. 0 \in Good
  <2>1. Levels(t)[0] = {RootNode(t)} /\ 0 \in 0 .. Depth
    BY NodesByDepth DEF Depth
  <2>2. NodeFits(RootNode(t), 0)
    BY RootFits DEF NodeFits, RootNode, ShapeAt
  <2> QED
    BY <2>1, <2>2
<1>2. ASSUME NEW d \in 0 .. Depth - 1, d \in Good PROVE d + 1 \in Good
  <2>1. d + 1 \in 0 .. Depth /\ d \in 0 .. Depth
    BY DEF Depth
  <2>2. ASSUME NEW n \in Levels(t)[d + 1] PROVE NodeFits(n, d + 1)
    <3>1. PICK m \in Levels(t)[d] : \E k : IsPartOf(n, m, k)
      BY WholesOf
    <3>2. NodeFits(m, d)
      BY <1>2
    <3>3. PICK k : IsPartOf(n, m, k)
      BY <3>1
    <3> QED
      BY <2>1, <3>2, <3>3, PartFits
  <2> QED
    BY <2>1, <2>2
<1>3. \A d \in 0 .. Depth : d \in Good
  <2> HIDE DEF Good
  <2> QED
    BY <1>1, <1>2, DepthInduction
<1> QED
  BY <1>3

Lengthens(a, p, k) == a = Append(p, k)

LEMMA SamePaths ==
    ASSUME NEW d \in Nat, NEW p, PathOf(p, d), NEW q, PathOf(q, d), NEW a,
           NEW k \in Key, NEW j \in Key, Lengthens(a, p, k), Lengthens(a, q, j)
    PROVE  p = q /\ k = j
<1>1. p \in Seq(Key) /\ q \in Seq(Key) /\ Append(p, k) = Append(q, j)
  BY DEF PathOf, Lengthens
<1> QED
  BY <1>1, AppendInjective

\* A place is visited once.
LEMMA OneCallAPlace ==
    ASSUME NEW l, NEW r, RootTree(l), RootTree(r)
    PROVE  \A d \in 0 .. Depth : \A w, v \in Calls(l, r)[d] : w.path = v.path => w = v
<1> DEFINE Good == {d \in 0 .. Depth : \A w, v \in Calls(l, r)[d] : w.path = v.path => w = v}
<1>1. 0 \in Good
  BY CallsByDepth DEF Depth
<1>2. ASSUME NEW d \in 0 .. Depth - 1, d \in Good PROVE d + 1 \in Good
  <2>1. d + 1 \in 0 .. Depth /\ d \in 0 .. Depth /\ d \in Nat
    BY DEF Depth
  <2>2. ASSUME NEW w \in Calls(l, r)[d + 1], NEW v \in Calls(l, r)[d + 1], w.path = v.path
        PROVE  w = v
    <3>1. PICK x \in Calls(l, r)[d] : \E k : IsCalledBy(w, x, k)
      BY CallersOf
    <3>2. PICK y \in Calls(l, r)[d] : \E j : IsCalledBy(v, y, j)
      BY CallersOf
    <3>3. CallFits(x, d) /\ CallFits(y, d)
      BY <2>1, CallsFit
    <3>7. PICK k : IsCalledBy(w, x, k)
      BY <3>1
    <3>8. PICK j : IsCalledBy(v, y, j)
      BY <3>2
    <3>4. k \in Key /\ w.path = Append(x.path, k) /\ j \in Key /\ v.path = Append(y.path, j)
      BY <2>1, <3>3, <3>7, <3>8, CalledFits
    <3>9. /\ PathOf(x.path, d) /\ PathOf(y.path, d)
          /\ Lengthens(w.path, x.path, k) /\ Lengthens(w.path, y.path, j)
      BY <2>2, <3>3, <3>4 DEF CallFits, Lengthens
    <3>5. x.path = y.path /\ k = j
      BY <2>1, <3>4, <3>9, SamePaths
    <3>6. x = y
      BY <1>2, <3>5
    <3> QED
      BY <3>5, <3>6, <3>7, <3>8 DEF IsCalledBy
  <2> QED
    BY <2>1, <2>2
<1>3. \A d \in 0 .. Depth : d \in Good
  <2> HIDE DEF Good
  <2> QED
    BY <1>1, <1>2, DepthInduction
<1> QED
  BY <1>3

LEMMA OneNodeAPlace ==
    ASSUME NEW t, RootTree(t)
    PROVE  \A d \in 0 .. Depth : \A n, m \in Levels(t)[d] : n.path = m.path => n = m
<1> DEFINE Good == {d \in 0 .. Depth : \A n, m \in Levels(t)[d] : n.path = m.path => n = m}
<1>1. 0 \in Good
  BY NodesByDepth DEF Depth
<1>2. ASSUME NEW d \in 0 .. Depth - 1, d \in Good PROVE d + 1 \in Good
  <2>1. d + 1 \in 0 .. Depth /\ d \in 0 .. Depth /\ d \in Nat
    BY DEF Depth
  <2>2. ASSUME NEW n \in Levels(t)[d + 1], NEW m \in Levels(t)[d + 1], n.path = m.path
        PROVE  n = m
    <3>1. PICK x \in Levels(t)[d] : \E k : IsPartOf(n, x, k)
      BY WholesOf
    <3>2. PICK y \in Levels(t)[d] : \E j : IsPartOf(m, y, j)
      BY WholesOf
    <3>3. NodeFits(x, d) /\ NodeFits(y, d)
      BY <2>1, NodesFit
    <3>7. PICK k : IsPartOf(n, x, k)
      BY <3>1
    <3>8. PICK j : IsPartOf(m, y, j)
      BY <3>2
    <3>4. k \in Key /\ n.path = Append(x.path, k) /\ j \in Key /\ m.path = Append(y.path, j)
      BY <2>1, <3>3, <3>7, <3>8, PartFits
    <3>9. /\ PathOf(x.path, d) /\ PathOf(y.path, d)
          /\ Lengthens(n.path, x.path, k) /\ Lengthens(n.path, y.path, j)
      BY <2>2, <3>3, <3>4 DEF NodeFits, Lengthens
    <3>5. x.path = y.path /\ k = j
      BY <2>1, <3>4, <3>9, SamePaths
    <3>6. x = y
      BY <1>2, <3>5
    <3> QED
      BY <3>5, <3>6, <3>7, <3>8 DEF IsPartOf
  <2> QED
    BY <2>1, <2>2
<1>3. \A d \in 0 .. Depth : d \in Good
  <2> HIDE DEF Good
  <2> QED
    BY <1>1, <1>2, DepthInduction
<1> QED
  BY <1>3

-----------------------------------------------------------------------------
(* A call is about what is at its place on either side *)

LEMMA AtNode ==
    ASSUME NEW t, RootTree(t), NEW d \in 0 .. Depth, NEW n \in Levels(t)[d]
    PROVE  /\ n.path \in Paths(t) /\ At(t, n.path) = n.node
           /\ \A m \in Nodes(t) : m.path = n.path => m = n
<1>1. n \in Nodes(t)
  BY DEF Nodes
<1>2. ASSUME NEW m \in Nodes(t), m.path = n.path PROVE m = n
  <2>1. PICK e \in 0 .. Depth : m \in Levels(t)[e]
    BY DEF Nodes
  <2>2. Len(n.path) = d /\ Len(m.path) = e
    BY <2>1, NodesFit DEF NodeFits, PathOf
  <2>3. e = d
    BY <1>2, <2>2
  <2> QED
    BY <1>2, <2>1, <2>3, OneNodeAPlace
<1>3. n.path \in Paths(t)
  BY <1>1 DEF Paths
<1>4. (CHOOSE m \in Nodes(t) : m.path = n.path) = n
  BY <1>1, <1>2
<1> QED
  BY <1>2, <1>3, <1>4 DEF At

Side(w, x) == IF x = "left" THEN w.left ELSE w.right

Placed(t, d, p, s) == \/ [path |-> p, node |-> s] \in Levels(t)[d]
                      \/ p \notin Paths(t) /\ s = Missing

LEMMA NodeOrMissing ==
    ASSUME NEW l, NEW r, RootTree(l), RootTree(r), NEW x \in {"left", "right"},
           NEW t, t = IF x = "left" THEN l ELSE r
    PROVE  \A d \in 0 .. Depth : \A w \in Calls(l, r)[d] : Placed(t, d, w.path, Side(w, x))
<1>0. RootTree(t)
  OBVIOUS
<1> DEFINE Good == {d \in 0 .. Depth :
                       \A w \in Calls(l, r)[d] : Placed(t, d, w.path, Side(w, x))}
<1>1. 0 \in Good
  <2>1. Calls(l, r)[0] = {RootCall(l, r)} /\ Levels(t)[0] = {RootNode(t)} /\ 0 \in 0 .. Depth
    BY CallsByDepth, NodesByDepth DEF Depth
  <2>2. Placed(t, 0, RootCall(l, r).path, Side(RootCall(l, r), x))
    BY <2>1 DEF Placed, RootCall, RootNode, Side
  <2> QED
    BY <2>1, <2>2
<1>2. ASSUME NEW d \in 0 .. Depth - 1, d \in Good PROVE d + 1 \in Good
  <2>1. d + 1 \in 0 .. Depth /\ d \in 0 .. Depth /\ d \in Nat
    BY DEF Depth
  <2>2. ASSUME NEW v \in Calls(l, r)[d + 1] PROVE Placed(t, d + 1, v.path, Side(v, x))
    <3>1. PICK w \in Calls(l, r)[d] : \E k : IsCalledBy(v, w, k)
      BY CallersOf
    <3>2. PICK k : IsCalledBy(v, w, k)
      BY <3>1
    <3>3. CallFits(w, d)
      BY <2>1, CallsFit
    <3>4. /\ k \in Key /\ v.path = Append(w.path, k) /\ Side(v, x) = Child(Side(w, x), k)
      BY <2>1, <3>2, <3>3, CalledFits DEF Side
    <3> DEFINE s == Side(w, x)
               m == [path |-> w.path, node |-> s]
    <3>5. ~IsLeaf(s) /\ ShapeAt(d, s)
      BY <3>2, <3>3 DEF IsCalledBy, Descends, CallFits, IsLeaf, Side
    <3>6. s # Missing
      BY <3>5, MissingFits, 1 \in 1 .. Depth DEF Depth
    <3>7. m \in Levels(t)[d]
      BY <1>2, <3>6 DEF Placed
    <3>8. m.path = w.path /\ m.node = s
      OBVIOUS
    <3> HIDE DEF s, m
    <3>9. CASE k \in DOMAIN s[2]
      <4>1. Child(s, k) = s[2][k]
        BY <2>1, <3>5, <3>9, ChildFits
      <4>2. IsPartOf([path |-> v.path, node |-> Child(s, k)], m, k)
        BY <3>4, <3>5, <3>8, <3>9, <4>1 DEF IsPartOf
      <4>3. [path |-> v.path, node |-> Child(s, k)] \in Levels(t)[d + 1]
        BY <3>7, <4>2, WholesOf
      <4> QED
        BY <3>4, <4>3 DEF Placed, s
    <3>10. CASE k \notin DOMAIN s[2]
      <4>1. Child(s, k) = Missing
        BY <2>1, <3>5, <3>10, ChildFits
      <4>2. ASSUME v.path \in Paths(t) PROVE FALSE
        <5>1. PICK e \in 0 .. Depth : \E y \in Levels(t)[e] : y.path = v.path
          BY <4>2 DEF Paths, Nodes
        <5>2. PICK n \in Levels(t)[e] : n.path = v.path
          BY <5>1
        <5>3. Len(v.path) = d + 1 /\ Len(n.path) = e
          BY <1>0, <2>1, <5>2, NodesFit, CallsFit DEF NodeFits, CallFits, PathOf
        <5>4. n \in Levels(t)[d + 1]
          BY <5>2, <5>3
        <5>5. PICK y \in Levels(t)[d] : \E j : IsPartOf(n, y, j)
          BY <5>4, WholesOf
        <5>6. PICK j : IsPartOf(n, y, j)
          BY <5>5
        <5>7. NodeFits(y, d)
          BY <1>0, <2>1, NodesFit
        <5>8. j \in Key /\ n.path = Append(y.path, j)
          BY <2>1, <5>6, <5>7, PartFits
        <5>9. /\ PathOf(w.path, d) /\ PathOf(y.path, d)
              /\ Lengthens(v.path, w.path, k) /\ Lengthens(v.path, y.path, j)
          BY <3>3, <3>4, <5>2, <5>7, <5>8 DEF CallFits, NodeFits, Lengthens
        <5>10. w.path = y.path /\ k = j
          BY <2>1, <3>4, <5>8, <5>9, SamePaths
        <5>11. y = m
          BY <1>0, <2>1, <3>7, <3>8, <5>10, OneNodeAPlace
        <5> QED
          BY <3>8, <3>10, <5>6, <5>10, <5>11 DEF IsPartOf
      <4> QED
        BY <3>4, <4>1, <4>2 DEF Placed, s
    <3> QED
      BY <3>9, <3>10
  <2> QED
    BY <2>1, <2>2
<1>3. \A d \in 0 .. Depth : d \in Good
  <2> HIDE DEF Good
  <2> QED
    BY <1>1, <1>2, DepthInduction
<1> QED
  BY <1>3

LEMMA CallIsAbout ==
    ASSUME NEW l, NEW r, RootTree(l), RootTree(r), NEW d \in 0 .. Depth,
           NEW w \in Calls(l, r)[d]
    PROVE  w.left = At(l, w.path) /\ w.right = At(r, w.path)
<1>1. ASSUME NEW t, RootTree(t), NEW s, Placed(t, d, w.path, s) PROVE s = At(t, w.path)
  <2>1. CASE [path |-> w.path, node |-> s] \in Levels(t)[d]
    <3> DEFINE n == [path |-> w.path, node |-> s]
    <3>1. n.path = w.path /\ n.node = s
      OBVIOUS
    <3> HIDE DEF n
    <3>2. n \in Levels(t)[d]
      BY <2>1 DEF n
    <3> QED
      BY <1>1, <3>1, <3>2, AtNode
  <2>2. CASE w.path \notin Paths(t) /\ s = Missing
    BY <2>2 DEF At
  <2> QED
    BY <1>1, <2>1, <2>2 DEF Placed
<1>2. Placed(l, d, w.path, Side(w, "left")) /\ Placed(r, d, w.path, Side(w, "right"))
  BY NodeOrMissing
<1> QED
  BY <1>1, <1>2 DEF Side

-----------------------------------------------------------------------------
(* Differences lie apart, and everything else is the same *)

LEMMA PrefixIs ==
    ASSUME NEW p \in Seq(Key), NEW q \in Seq(Key)
    PROVE  IsPrefix(p, q) <=> Len(p) <= Len(q) /\ \A i \in 1 .. Len(p) : p[i] = q[i]
<1>1. /\ Len(p) \in Nat /\ Len(q) \in Nat
      /\ p \in [1 .. Len(p) -> Key] /\ q \in [1 .. Len(q) -> Key]
  BY LenProperties
<1>2. ASSUME Len(p) <= Len(q) PROVE SubSeq(q, 1, Len(p)) = [i \in 1 .. Len(p) |-> q[i]]
  BY <1>1, <1>2
<1>3. SubSeq(p, 1, Len(p)) = p
  BY <1>1
<1>4. ASSUME Len(p) <= Len(q), SubSeq(p, 1, Len(p)) = SubSeq(q, 1, Len(p)), NEW i \in 1 .. Len(p)
      PROVE  p[i] = q[i]
  BY <1>2, <1>3, <1>4
<1>5. ASSUME Len(p) <= Len(q), \A i \in 1 .. Len(p) : p[i] = q[i]
      PROVE  SubSeq(p, 1, Len(p)) = SubSeq(q, 1, Len(p))
  <2>1. p = [i \in 1 .. Len(p) |-> q[i]]
    BY <1>1, <1>5
  <2> QED
    BY <1>2, <1>3, <1>5, <2>1
<1> QED
  BY <1>4, <1>5 DEF IsPrefix

LEMMA PrefixOfItself == ASSUME NEW p \in Seq(Key) PROVE IsPrefix(p, p)
<1>1. Len(p) \in Nat
  BY LenProperties
<1> QED
  BY <1>1, PrefixIs

LEMMA PrefixOfLonger ==
    ASSUME NEW p \in Seq(Key), NEW q \in Seq(Key), NEW k \in Key, IsPrefix(p, q)
    PROVE  IsPrefix(p, Append(q, k))
<1>1. Len(p) \in Nat /\ Len(q) \in Nat /\ Len(p) <= Len(q) /\ \A i \in 1 .. Len(p) : p[i] = q[i]
  BY PrefixIs, LenProperties
<1>2. /\ Append(q, k) \in Seq(Key) /\ Len(Append(q, k)) = Len(q) + 1
      /\ \A i \in 1 .. Len(q) : Append(q, k)[i] = q[i]
  BY AppendProperties
<1> DEFINE a == Append(q, k)
<1> HIDE DEF a
<1>3. a \in Seq(Key) /\ Len(a) = Len(q) + 1 /\ \A i \in 1 .. Len(q) : a[i] = q[i]
  BY <1>2 DEF a
<1>4. Len(p) <= Len(a) /\ \A i \in 1 .. Len(p) : p[i] = a[i]
  BY <1>1, <1>3
<1>5. IsPrefix(p, a)
  BY <1>3, <1>4, PrefixIs
<1> QED
  BY <1>5 DEF a

LEMMA PrefixOfShorter ==
    ASSUME NEW p \in Seq(Key), NEW q \in Seq(Key), NEW k \in Key, IsPrefix(Append(p, k), q)
    PROVE  IsPrefix(p, q)
<1> DEFINE a == Append(p, k)
<1>1. a \in Seq(Key) /\ Len(a) = Len(p) + 1 /\ \A i \in 1 .. Len(p) : a[i] = p[i]
  BY AppendProperties
<1>2. IsPrefix(a, q) /\ Len(p) \in Nat /\ Len(q) \in Nat
  BY LenProperties
<1> HIDE DEF a
<1>3. Len(a) <= Len(q) /\ \A i \in 1 .. Len(a) : a[i] = q[i]
  BY <1>1, <1>2, PrefixIs
<1>4. Len(p) <= Len(q) /\ \A i \in 1 .. Len(p) : p[i] = q[i]
  BY <1>1, <1>2, <1>3
<1> QED
  BY <1>4, PrefixIs

LEMMA OnePrefix ==
    ASSUME NEW p \in Seq(Key), NEW q \in Seq(Key), NEW s \in Seq(Key),
           IsPrefix(p, s), IsPrefix(q, s), Len(p) = Len(q)
    PROVE  p = q
<1>1. \A i \in 1 .. Len(p) : p[i] = q[i]
  BY PrefixIs
<1> QED
  BY <1>1, SeqEqual

\* Above a call there is one at every depth, and it went on.
LEMMA CallsAbove ==
    ASSUME NEW l, NEW r, RootTree(l), RootTree(r)
    PROVE  \A d \in 0 .. Depth : \A w \in Calls(l, r)[d] : \A e \in 0 .. d - 1 :
              \E v \in Calls(l, r)[e] : Descends(v) /\ IsPrefix(v.path, w.path)
<1> DEFINE Above(d, w) == \A e \in 0 .. d - 1 :
                             \E v \in Calls(l, r)[e] : Descends(v) /\ IsPrefix(v.path, w.path)
           Good == {d \in 0 .. Depth : \A w \in Calls(l, r)[d] : Above(d, w)}
<1>1. 0 \in Good
  BY DEF Depth
<1>2. ASSUME NEW d \in 0 .. Depth - 1, d \in Good PROVE d + 1 \in Good
  <2>1. d + 1 \in 0 .. Depth /\ d \in 0 .. Depth /\ d \in Nat
    BY DEF Depth
  <2>2. ASSUME NEW w \in Calls(l, r)[d + 1], NEW e \in 0 .. d
        PROVE  \E v \in Calls(l, r)[e] : Descends(v) /\ IsPrefix(v.path, w.path)
    <3>1. PICK u \in Calls(l, r)[d] : \E k : IsCalledBy(w, u, k)
      BY CallersOf
    <3>2. PICK k : IsCalledBy(w, u, k)
      BY <3>1
    <3>3. CallFits(u, d) /\ u.path \in Seq(Key)
      BY <2>1, CallsFit DEF CallFits, PathOf
    <3>4. k \in Key /\ w.path = Append(u.path, k)
      BY <2>1, <3>2, <3>3, CalledFits
    <3>5. CASE e = d
      <4>1. Descends(u) /\ IsPrefix(u.path, w.path)
        BY <3>2, <3>3, <3>4, PrefixOfItself, PrefixOfLonger DEF IsCalledBy
      <4> QED
        BY <3>1, <3>5, <4>1
    <3>6. CASE e # d
      <4>1. e \in 0 .. d - 1 /\ e \in 0 .. Depth
        BY <2>1, <3>6 DEF Depth
      <4>2. PICK v \in Calls(l, r)[e] : Descends(v) /\ IsPrefix(v.path, u.path)
        BY <1>2, <4>1
      <4>3. v.path \in Seq(Key)
        BY <4>1, CallsFit DEF CallFits, PathOf
      <4> QED
        BY <3>3, <3>4, <4>2, <4>3, PrefixOfLonger
    <3> QED
      BY <3>5, <3>6
  <2>3. \A w \in Calls(l, r)[d + 1] : Above(d + 1, w)
    BY <2>1, <2>2
  <2> HIDE DEF Above
  <2> QED
    BY <2>1, <2>3
<1>3. \A d \in 0 .. Depth : d \in Good
  <2> HIDE DEF Good
  <2> QED
    BY <1>1, <1>2, DepthInduction
<1> QED
  BY <1>3

LEMMA FoundIsCall ==
    ASSUME NEW l, NEW r, NEW w
    PROVE  w \in WalkDiff(l, r) <=>
              /\ \E d \in 0 .. Depth : w \in Calls(l, r)[d]
              /\ ~Descends(w) /\ w.left # w.right
BY DEF WalkDiff

LEMMA DifferencesApart ==
    ASSUME NEW l, NEW r, RootTree(l), RootTree(r),
           NEW p \in WalkDiff(l, r), NEW q \in WalkDiff(l, r), IsPrefix(p.path, q.path)
    PROVE  p = q
<1>1. PICK i \in 0 .. Depth : p \in Calls(l, r)[i]
  BY FoundIsCall
<1>2. PICK j \in 0 .. Depth : q \in Calls(l, r)[j]
  BY FoundIsCall
<1>3. /\ p.path \in Seq(Key) /\ Len(p.path) = i /\ q.path \in Seq(Key) /\ Len(q.path) = j
      /\ i \in Nat /\ j \in Nat
  <2>1. CallFits(p, i) /\ CallFits(q, j)
    BY <1>1, <1>2, CallsFit
  <2>2. i \in Nat /\ j \in Nat
    BY DEF Depth
  <2> QED
    BY <2>1, <2>2 DEF CallFits, PathOf
<1>4. i <= j
  BY <1>3, PrefixIs
<1>5. CASE i = j
  <2>1. p.path = q.path
    BY <1>3, <1>5, PrefixOfItself, OnePrefix
  <2> QED
    BY <1>1, <1>2, <1>5, <2>1, OneCallAPlace
<1>6. CASE i # j
  <2>1. i \in 0 .. j - 1
    BY <1>3, <1>4, <1>6
  <2>2. PICK v \in Calls(l, r)[i] : Descends(v) /\ IsPrefix(v.path, q.path)
    BY <1>2, <2>1, CallsAbove
  <2>3. v.path \in Seq(Key) /\ Len(v.path) = i
    BY CallsFit DEF CallFits, PathOf
  <2>4. v.path = p.path
    BY <1>3, <2>2, <2>3, OnePrefix
  <2>5. v = p
    BY <1>1, <2>4, OneCallAPlace
  <2> QED
    BY <2>2, <2>5, FoundIsCall
<1> QED
  BY <1>5, <1>6

\* Every node of either side is visited, or lies under a difference.
LEMMA NodesAreReached ==
    ASSUME NEW l, NEW r, RootTree(l), RootTree(r), NEW x \in {"left", "right"},
           NEW t, t = IF x = "left" THEN l ELSE r
    PROVE  \A d \in 0 .. Depth : \A n \in Levels(t)[d] :
              \/ \E w \in Calls(l, r)[d] : w.path = n.path
              \/ \E q \in WalkDiff(l, r) : IsPrefix(q.path, n.path)
<1>0. RootTree(t)
  OBVIOUS
<1> DEFINE Reached(d, n) == \/ \E w \in Calls(l, r)[d] : w.path = n.path
                            \/ \E q \in WalkDiff(l, r) : IsPrefix(q.path, n.path)
           Good == {d \in 0 .. Depth : \A n \in Levels(t)[d] : Reached(d, n)}
<1>1. 0 \in Good
  <2>1. Calls(l, r)[0] = {RootCall(l, r)} /\ Levels(t)[0] = {RootNode(t)} /\ 0 \in 0 .. Depth
    BY CallsByDepth, NodesByDepth DEF Depth
  <2>2. RootCall(l, r).path = RootNode(t).path
    BY DEF RootCall, RootNode
  <2> QED
    BY <2>1, <2>2
<1>2. ASSUME NEW d \in 0 .. Depth - 1, d \in Good PROVE d + 1 \in Good
  <2>1. d + 1 \in 0 .. Depth /\ d \in 0 .. Depth /\ d \in Nat
    BY DEF Depth
  <2>2. ASSUME NEW n \in Levels(t)[d + 1] PROVE Reached(d + 1, n)
    <3>1. PICK m \in Levels(t)[d] : \E k : IsPartOf(n, m, k)
      BY WholesOf
    <3>2. PICK k : IsPartOf(n, m, k)
      BY <3>1
    <3>3. NodeFits(m, d) /\ m.path \in Seq(Key)
      BY <1>0, <2>1, NodesFit DEF NodeFits, PathOf
    <3>4. k \in Key /\ n.path = Append(m.path, k)
      BY <2>1, <3>2, <3>3, PartFits
    <3>5. CASE \E q \in WalkDiff(l, r) : IsPrefix(q.path, m.path)
      <4>1. PICK q \in WalkDiff(l, r) : IsPrefix(q.path, m.path)
        BY <3>5
      <4>2. q.path \in Seq(Key)
        BY CallsFit, FoundIsCall DEF CallFits, PathOf
      <4> QED
        BY <3>3, <3>4, <4>1, <4>2, PrefixOfLonger
    <3>6. CASE \E w \in Calls(l, r)[d] : w.path = m.path
      <4>1. PICK w \in Calls(l, r)[d] : w.path = m.path
        BY <3>6
      <4>2. w.left = At(l, w.path) /\ w.right = At(r, w.path)
        BY <2>1, CallIsAbout
      <4>3. Side(w, x) = m.node /\ ~IsLeaf(m.node) /\ k \in DOMAIN m.node[2]
        BY <1>0, <2>1, <3>2, <4>1, <4>2, AtNode DEF Side, IsPartOf
      <4>4. CASE Descends(w)
        <5> DEFINE v == [path |-> Append(w.path, k), left |-> Child(w.left, k),
                         right |-> Child(w.right, k)]
        <5>1. IsCalledBy(v, w, k)
          BY <4>3, <4>4 DEF IsCalledBy, Side
        <5>2. v.path = n.path
          BY <3>4, <4>1
        <5> HIDE DEF v
        <5>3. v \in Calls(l, r)[d + 1]
          BY <5>1, CallersOf
        <5> QED
          BY <5>2, <5>3
      <4>5. CASE ~Descends(w)
        <5>1. w.left # w.right
          BY <4>3, <4>5 DEF Descends, Side, IsLeaf
        <5>2. w \in WalkDiff(l, r)
          BY <2>1, <4>5, <5>1, FoundIsCall
        <5>3. IsPrefix(w.path, n.path)
          BY <3>3, <3>4, <4>1, PrefixOfItself, PrefixOfLonger
        <5> QED
          BY <5>2, <5>3
      <4> QED
        BY <4>4, <4>5
    <3> QED
      BY <1>2, <3>5, <3>6
  <2>3. \A n \in Levels(t)[d + 1] : Reached(d + 1, n)
    BY <2>2
  <2> HIDE DEF Reached
  <2> QED
    BY <2>1, <2>3
<1>3. \A d \in 0 .. Depth : d \in Good
  <2> HIDE DEF Good
  <2> QED
    BY <1>1, <1>2, DepthInduction
<1> QED
  BY <1>3

-----------------------------------------------------------------------------
(* Where the sides differ, a difference is found *)

\* The same field of two strategies has the same keys.
Comparable(l, r) ==
    /\ RootTree(l) /\ RootTree(r)
    /\ \A k \in Fields : ~IsLeaf(l[2][k]) /\ ~IsLeaf(r[2][k]) =>
                            DOMAIN l[2][k][2] = DOMAIN r[2][k][2]

SameKeys(w) == DOMAIN w.left[2] = DOMAIN w.right[2]

LEMMA SameNodes ==
    ASSUME NEW w, NEW kind, NEW keys, IsNode(w.left, kind, keys), IsNode(w.right, kind, keys)
    PROVE  SameKeys(w)
<1>1. ASSUME NEW t, IsNode(t, kind, keys) PROVE DOMAIN t[2] = keys
  BY <1>1, NodeOpens
<1> DEFINE t == w.left
           u == w.right
<1> HIDE DEF t, u
<1>2. DOMAIN t[2] = keys /\ DOMAIN u[2] = keys
  BY <1>1 DEF t, u
<1> QED
  BY <1>2 DEF SameKeys, t, u

\* Only lists differ in their keys.
LEMMA Twins ==
    ASSUME NEW l, NEW r, Comparable(l, r), NEW d \in 0 .. Depth, d # 2,
           NEW w \in Calls(l, r)[d], Descends(w)
    PROVE  SameKeys(w)
<1>1. RootTree(l) /\ RootTree(r)
  BY DEF Comparable
<1>2. CallFits(w, d) /\ ~IsLeaf(w.left) /\ ~IsLeaf(w.right)
  BY <1>1, CallsFit DEF Descends, IsLeaf
<1>3. ShapeAt(d, w.left) /\ ShapeAt(d, w.right)
  BY <1>2 DEF CallFits
<1>4. CASE d = 0
  <2>1. IsNode(w.left, "object", Fields) /\ IsNode(w.right, "object", Fields)
    BY <1>3, <1>4 DEF ShapeAt, RootTree
  <2> QED
    BY <2>1, SameNodes
<1>5. CASE d = 1
  <2>1. w \in Calls(l, r)[0 + 1] /\ Calls(l, r)[0] = {RootCall(l, r)} /\ 0 \in 0 .. Depth - 1
    BY <1>5, CallsByDepth DEF Depth
  <2>2. \E v \in Calls(l, r)[0] : \E k : IsCalledBy(w, v, k)
    BY <2>1, CallersOf
  <2>3. PICK k : IsCalledBy(w, RootCall(l, r), k)
    BY <2>1, <2>2
  <2>4. /\ k \in DOMAIN l[2] \union DOMAIN r[2]
        /\ w.left = Child(l, k) /\ w.right = Child(r, k)
    BY <2>3 DEF IsCalledBy, RootCall
  <2>5. DOMAIN l[2] = Fields /\ DOMAIN r[2] = Fields
    BY <1>1, NodeOpens DEF RootTree
  <2>6. k \in Fields /\ w.left = l[2][k] /\ w.right = r[2][k]
    BY <2>4, <2>5 DEF Child
  <2> QED
    BY <1>2, <2>6 DEF Comparable, SameKeys
<1>6. CASE d = 3
  <2>1. IsNode(w.left, "object", ConditionKeys) /\ IsNode(w.right, "object", ConditionKeys)
    BY <1>2, <1>3, <1>6 DEF ShapeAt, ConditionTree
  <2> QED
    BY <2>1, SameNodes
<1>7. CASE d = 4
  <2>1. IsNode(w.left, "object", RefKeys) /\ IsNode(w.right, "object", RefKeys)
    BY <1>2, <1>3, <1>7 DEF ShapeAt, RefTree
  <2> QED
    BY <2>1, SameNodes
<1>8. d # 5
  BY <1>2, <1>3 DEF ShapeAt
<1> QED
  BY <1>4, <1>5, <1>6, <1>7, <1>8 DEF Depth

\* Of two lists the longer one ends where the other one has nothing.
LEMMA LongerListShows ==
    ASSUME NEW t, ListTree(t), NEW u, ListTree(u), ~SameKeys([left |-> t, right |-> u])
    PROVE  \E k \in DOMAIN t[2] \union DOMAIN u[2] : Child(t, k) # Child(u, k)
<1>1. PICK n \in Nat : IsNode(t, "list", 1 .. n) /\ \A k \in 1 .. n : ConditionTree(t[2][k])
  BY DEF ListTree
<1>2. PICK m \in Nat : IsNode(u, "list", 1 .. m) /\ \A k \in 1 .. m : ConditionTree(u[2][k])
  BY DEF ListTree
<1>3. DOMAIN t[2] = 1 .. n /\ DOMAIN u[2] = 1 .. m
  BY <1>1, <1>2, NodeOpens
<1>4. n # m
  BY <1>3 DEF SameKeys
<1>5. \A c : ConditionTree(c) => c # Missing
  <2>1. \A c : ConditionTree(c) => c[1] = "object"
    BY NodeOpens DEF ConditionTree
  <2>2. Missing[1] = "leaf"
    BY DEF Missing, Leaf
  <2> QED
    BY <2>1, <2>2
<1>6. CASE n < m
  <2>1. m \in 1 .. m /\ m \notin 1 .. n
    BY <1>6
  <2>2. Child(t, m) = Missing /\ Child(u, m) = u[2][m]
    BY <1>3, <2>1 DEF Child
  <2>3. Child(t, m) # Child(u, m)
    BY <1>2, <1>5, <2>1, <2>2
  <2> QED
    BY <1>3, <2>1, <2>3
<1>7. CASE m < n
  <2>1. n \in 1 .. n /\ n \notin 1 .. m
    BY <1>7
  <2>2. Child(u, n) = Missing /\ Child(t, n) = t[2][n]
    BY <1>3, <2>1 DEF Child
  <2>3. Child(t, n) # Child(u, n)
    BY <1>1, <1>5, <2>1, <2>2
  <2> QED
    BY <1>3, <2>1, <2>3
<1> QED
  BY <1>4, <1>6, <1>7

LEMMA ChildDiffers ==
    ASSUME NEW l, NEW r, Comparable(l, r), NEW d \in 0 .. Depth,
           NEW w \in Calls(l, r)[d], Descends(w), w.left # w.right
    PROVE  \E k : /\ k \in DOMAIN w.left[2] \union DOMAIN w.right[2]
                  /\ Child(w.left, k) # Child(w.right, k)
<1>1. RootTree(l) /\ RootTree(r)
  BY DEF Comparable
<1>2. ~IsLeaf(w.left) /\ ~IsLeaf(w.right) /\ w.left[1] = w.right[1]
  BY DEF Descends, IsLeaf
<1>3. ShapeAt(d, w.left) /\ ShapeAt(d, w.right)
  BY <1>1, CallsFit DEF CallFits
<1> DEFINE t == w.left
           u == w.right
           f == t[2]
           g == u[2]
<1>4. /\ t = <<t[1], f>> /\ u = <<u[1], g>>
      /\ f = [k \in DOMAIN f |-> f[k]] /\ g = [k \in DOMAIN g |-> g[k]]
  BY <1>2, <1>3, Opens DEF Opened
<1> HIDE DEF t, u
<1>5. f # g
  BY <1>2, <1>4 DEF t, u
<1> HIDE DEF f, g
<1>6. CASE DOMAIN f = DOMAIN g
  <2>1. PICK k \in DOMAIN f : f[k] # g[k]
    BY <1>4, <1>5, <1>6
  <2>2. Child(t, k) = f[k] /\ Child(u, k) = g[k]
    BY <1>6 DEF Child, f, g
  <2> QED
    BY <2>1, <2>2 DEF t, u, f, g
<1>7. CASE DOMAIN f # DOMAIN g
  <2>1. d = 2
    BY <1>7, Twins DEF SameKeys, t, u, f, g
  <2>2. ListTree(t) /\ ListTree(u)
    BY <1>2, <1>3, <2>1 DEF ShapeAt, PartTree, t, u
  <2>3. ~SameKeys([left |-> t, right |-> u])
    BY <1>7 DEF SameKeys, f, g
  <2>4. \E k \in DOMAIN t[2] \union DOMAIN u[2] : Child(t, k) # Child(u, k)
    BY <2>2, <2>3, LongerListShows
  <2> QED
    BY <2>4 DEF t, u
<1> QED
  BY <1>6, <1>7

LEMMA DifferenceBelow ==
    ASSUME NEW l, NEW r, Comparable(l, r)
    PROVE  \A d \in 0 .. Depth : \A w \in Calls(l, r)[d] :
              w.left # w.right => \E q \in WalkDiff(l, r) : IsPrefix(w.path, q.path)
<1> DEFINE Shown(w) == w.left # w.right => \E q \in WalkDiff(l, r) : IsPrefix(w.path, q.path)
           Good == {e \in 0 .. Depth : \A w \in Calls(l, r)[Depth - e] : Shown(w)}
<1>1. RootTree(l) /\ RootTree(r)
  BY DEF Comparable
<1>2. ASSUME NEW d \in 0 .. Depth, NEW w \in Calls(l, r)[d], ~Descends(w) PROVE Shown(w)
  <2>1. w.left # w.right => w \in WalkDiff(l, r)
    BY <1>2, FoundIsCall
  <2>2. w.path \in Seq(Key)
    BY <1>1, CallsFit DEF CallFits, PathOf
  <2>3. IsPrefix(w.path, w.path)
    BY <2>2, PrefixOfItself
  <2> QED
    BY <2>1, <2>3
<1>3. 0 \in Good
  <2>1. Depth - 0 = 5 /\ 5 \in 0 .. Depth /\ 0 \in 0 .. Depth
    BY DEF Depth
  <2>2. ASSUME NEW w \in Calls(l, r)[5] PROVE ~Descends(w)
    <3>1. IsLeaf(w.left)
      BY <1>1, <2>1, CallsFit DEF CallFits, ShapeAt
    <3> QED
      BY <3>1 DEF Descends, IsLeaf
  <2>3. \A w \in Calls(l, r)[Depth - 0] : Shown(w)
    BY <1>2, <2>1, <2>2
  <2> HIDE DEF Shown
  <2> QED
    BY <2>1, <2>3
<1>4. ASSUME NEW e \in 0 .. Depth - 1, e \in Good PROVE e + 1 \in Good
  <2> DEFINE d == Depth - (e + 1)
  <2>1. /\ e + 1 \in 0 .. Depth /\ d \in 0 .. Depth - 1 /\ d \in 0 .. Depth
        /\ d + 1 = Depth - e /\ d + 1 \in 0 .. Depth
    BY DEF Depth
  <2> HIDE DEF d
  <2>2. \A v \in Calls(l, r)[d + 1] : Shown(v)
    BY <1>4, <2>1
  <2>3. ASSUME NEW w \in Calls(l, r)[d], Descends(w), w.left # w.right
        PROVE  \E q \in WalkDiff(l, r) : IsPrefix(w.path, q.path)
    <3>1. PICK k : /\ k \in DOMAIN w.left[2] \union DOMAIN w.right[2]
                   /\ Child(w.left, k) # Child(w.right, k)
      BY <2>1, <2>3, ChildDiffers
    <3> DEFINE v == [path |-> Append(w.path, k), left |-> Child(w.left, k),
                     right |-> Child(w.right, k)]
    <3>2. IsCalledBy(v, w, k)
      BY <2>3, <3>1 DEF IsCalledBy
    <3>3. v.left # v.right
      BY <3>1
    <3> HIDE DEF v
    <3>4. v \in Calls(l, r)[d + 1]
      BY <2>1, <3>2, CallersOf
    <3>5. CallFits(w, d) /\ w.path \in Seq(Key)
      BY <1>1, <2>1, CallsFit DEF CallFits, PathOf
    <3>6. k \in Key /\ v.path = Append(w.path, k)
      BY <2>1, <3>2, <3>5, CalledFits
    <3>7. PICK q \in WalkDiff(l, r) : IsPrefix(v.path, q.path)
      BY <2>2, <3>3, <3>4
    <3>8. PICK e1 \in 0 .. Depth : q \in Calls(l, r)[e1]
      BY FoundIsCall
    <3>9. q.path \in Seq(Key)
      BY <1>1, <3>8, CallsFit DEF CallFits, PathOf
    <3>10. IsPrefix(w.path, q.path)
      BY <3>5, <3>6, <3>7, <3>9, PrefixOfShorter
    <3> QED
      BY <3>10
  <2>4. \A w \in Calls(l, r)[d] : Shown(w)
    BY <1>2, <2>1, <2>3
  <2> HIDE DEF Shown
  <2> QED
    BY <2>1, <2>4 DEF d
<1>5. \A e \in 0 .. Depth : e \in Good
  <2> HIDE DEF Good
  <2> QED
    BY <1>3, <1>4, DepthInduction
<1>6. ASSUME NEW d \in 0 .. Depth, NEW w \in Calls(l, r)[d] PROVE Shown(w)
  <2>1. Depth - d \in 0 .. Depth /\ Depth - (Depth - d) = d
    BY DEF Depth
  <2> HIDE DEF Shown
  <2> QED
    BY <1>5, <2>1
<1> QED
  BY <1>6

-----------------------------------------------------------------------------
(* What model_dump makes of a payload *)

LEMMA LeafIs == ASSUME NEW x PROVE IsLeaf(Leaf(x))
BY DEF IsLeaf, Leaf

LEMMA RefDumped ==
    ASSUME NEW x
    PROVE  RefTree(RefDump(x))
<1>1. CASE x.kind = "number"
  BY <1>1, LeafIs DEF RefDump, RefTree, Num
<1>2. CASE x.kind # "number"
  <2> DEFINE f == [kind |-> Text(x.kind), period |-> Num(x.period), source |-> Text(x.source)]
  <2>1. RefDump(x) = <<"object", f>>
    BY <1>2 DEF RefDump, Object
  <2>2. f = [k \in RefKeys |-> f[k]]
    BY DEF RefKeys
  <2>3. IsLeaf(f["kind"]) /\ IsLeaf(f["period"]) /\ IsLeaf(f["source"])
    BY LeafIs DEF Text, Num
  <2> HIDE DEF f
  <2>4. \A k \in RefKeys : IsLeaf(f[k])
    BY <2>3 DEF RefKeys
  <2>5. RefDump(x)[2] = f
    BY <2>1
  <2> QED
    BY <2>1, <2>2, <2>4, <2>5 DEF RefTree, IsNode
<1> QED
  BY <1>1, <1>2

LEMMA ConditionDumped ==
    ASSUME NEW c
    PROVE  ConditionTree(ConditionDump(c))
<1> DEFINE f == [lhs |-> RefDump(c.lhs), op |-> Text(c.op), rhs |-> RefDump(c.rhs)]
<1>1. ConditionDump(c) = <<"object", f>>
  BY DEF ConditionDump, Object
<1>2. f = [k \in ConditionKeys |-> f[k]]
  BY DEF ConditionKeys
<1>3. RefTree(f["lhs"]) /\ RefTree(f["op"]) /\ RefTree(f["rhs"])
  BY RefDumped, LeafIs DEF Text, RefTree
<1> HIDE DEF f
<1>4. \A k \in ConditionKeys : RefTree(f[k])
  BY <1>3 DEF ConditionKeys
<1>5. ConditionDump(c)[2] = f
  BY <1>1
<1> QED
  BY <1>1, <1>2, <1>4, <1>5 DEF ConditionTree, IsNode

LEMMA ConditionsDumped ==
    ASSUME NEW cs, ConditionsShaped(cs)
    PROVE  ListTree(ConditionsDump(cs))
<1> DEFINE n == Len(cs)
           f == [k \in DOMAIN cs |-> ConditionDump(cs[k])]
<1>1. n \in Nat /\ DOMAIN cs = 1 .. n
  BY DEF ConditionsShaped
<1>2. ConditionsDump(cs) = <<"list", f>>
  BY DEF ConditionsDump, List
<1>3. f = [k \in 1 .. n |-> f[k]]
  BY <1>1
<1>4. \A k \in 1 .. n : ConditionTree(f[k])
  BY <1>1, ConditionDumped
<1> HIDE DEF f, n
<1>5. ConditionsDump(cs)[2] = f
  BY <1>2
<1> QED
  BY <1>1, <1>2, <1>3, <1>4, <1>5 DEF ListTree, IsNode

LEMMA OptionalIsLeaf == ASSUME NEW n PROVE IsLeaf(Optional(n))
BY LeafIs DEF Optional, Missing, Num

SymbolPart(s) == [venue |-> Text(s.symbol_venue)]
EntryPart(s) == [side |-> Text(s.side), conditions |-> ConditionsDump(s.entry)]
ExitPart(s) == [conditions |-> ConditionsDump(s.exit), take_profit_pct |-> Optional(s.take_profit),
                stop_loss_pct |-> Optional(s.stop_loss)]
Top(s) == [name |-> Text(s.name), venue |-> Text(s.venue), symbol |-> Object(SymbolPart(s)),
           entry |-> Object(EntryPart(s)), exit |-> Object(ExitPart(s)),
           size_pct |-> Num(s.size_pct)]

LEMMA DumpIs == ASSUME NEW s PROVE Dump(s) = <<"object", Top(s)>>
BY DEF Dump, Object, Top, SymbolPart, EntryPart, ExitPart

LEMMA PartsDumped ==
    ASSUME NEW s, PayloadShaped(s)
    PROVE  /\ FieldTree(Object(SymbolPart(s))) /\ DOMAIN SymbolPart(s) = {"venue"}
           /\ FieldTree(Object(EntryPart(s))) /\ DOMAIN EntryPart(s) = {"side", "conditions"}
           /\ FieldTree(Object(ExitPart(s)))
           /\ DOMAIN ExitPart(s) = {"conditions", "take_profit_pct", "stop_loss_pct"}
<1>1. ASSUME NEW keys \in SUBSET Parted, NEW f, f = [k \in keys |-> f[k]],
             \A k \in keys : PartTree(f[k])
      PROVE  FieldTree(Object(f))
  <2>1. Object(f) = <<"object", f>> /\ Object(f)[2] = f
    BY DEF Object
  <2>2. IsNode(Object(f), "object", keys)
    BY <1>1, <2>1 DEF IsNode
  <2> QED
    BY <1>1, <2>1, <2>2 DEF FieldTree
<1>2. ListTree(ConditionsDump(s.entry)) /\ ListTree(ConditionsDump(s.exit))
  BY ConditionsDumped DEF PayloadShaped
<1>3. FieldTree(Object(SymbolPart(s))) /\ DOMAIN SymbolPart(s) = {"venue"}
  <2> DEFINE f == SymbolPart(s)
  <2>1. f = [k \in {"venue"} |-> f[k]] /\ DOMAIN f = {"venue"}
    BY DEF SymbolPart
  <2>2. PartTree(f["venue"])
    BY LeafIs DEF SymbolPart, Text, PartTree
  <2>3. {"venue"} \in SUBSET Parted
    BY DEF Parted
  <2> HIDE DEF f
  <2>4. FieldTree(Object(f))
    BY <1>1, <2>1, <2>2, <2>3
  <2> QED
    BY <2>1, <2>4 DEF f
<1>4. FieldTree(Object(EntryPart(s))) /\ DOMAIN EntryPart(s) = {"side", "conditions"}
  <2> DEFINE f == EntryPart(s)
             keys == {"side", "conditions"}
  <2>1. f = [k \in keys |-> f[k]] /\ DOMAIN f = keys
    BY DEF EntryPart
  <2>2. PartTree(f["side"]) /\ PartTree(f["conditions"])
    BY <1>2, LeafIs DEF EntryPart, Text, PartTree
  <2>3. keys \in SUBSET Parted
    BY DEF Parted
  <2> HIDE DEF f
  <2>4. FieldTree(Object(f))
    BY <1>1, <2>1, <2>2, <2>3
  <2> QED
    BY <2>1, <2>4 DEF f
<1>5. /\ FieldTree(Object(ExitPart(s)))
      /\ DOMAIN ExitPart(s) = {"conditions", "take_profit_pct", "stop_loss_pct"}
  <2> DEFINE f == ExitPart(s)
             keys == {"conditions", "take_profit_pct", "stop_loss_pct"}
  <2>1. f = [k \in keys |-> f[k]] /\ DOMAIN f = keys
    BY DEF ExitPart
  <2>2. PartTree(f["conditions"]) /\ PartTree(f["take_profit_pct"]) /\ PartTree(f["stop_loss_pct"])
    BY <1>2, OptionalIsLeaf DEF ExitPart, PartTree
  <2>3. keys \in SUBSET Parted
    BY DEF Parted
  <2> HIDE DEF f
  <2>4. FieldTree(Object(f))
    BY <1>1, <2>1, <2>2, <2>3
  <2> QED
    BY <2>1, <2>4 DEF f
<1> QED
  BY <1>3, <1>4, <1>5

LEMMA DumpIsTree == ASSUME NEW s, PayloadShaped(s) PROVE RootTree(Dump(s))
<1> DEFINE f == Top(s)
<1>1. Dump(s) = <<"object", f>>
  BY DumpIs
<1>2. f = [k \in Fields |-> f[k]]
  BY DEF Top, Fields
<1>3. IsLeaf(f["name"]) /\ IsLeaf(f["venue"]) /\ IsLeaf(f["size_pct"])
  BY LeafIs DEF Top, Text, Num
<1>4. FieldTree(f["symbol"]) /\ FieldTree(f["entry"]) /\ FieldTree(f["exit"])
  BY PartsDumped DEF Top
<1> HIDE DEF f
<1>5. \A k \in Fields : FieldTree(f[k])
  BY <1>3, <1>4 DEF Fields, FieldTree
<1>6. Dump(s)[2] = f
  BY <1>1
<1> QED
  BY <1>1, <1>2, <1>5, <1>6 DEF RootTree, IsNode

LEMMA DumpTrees ==
    ASSUME NEW a, NEW b, PayloadShaped(a), PayloadShaped(b)
    PROVE  Comparable(Dump(a), Dump(b))
<1> DEFINE Keys(k) == IF k = "symbol" THEN {"venue"} ELSE IF k = "entry" THEN {"side", "conditions"}
                      ELSE {"conditions", "take_profit_pct", "stop_loss_pct"}
<1>1. ASSUME NEW s, PayloadShaped(s), NEW k \in Fields, ~IsLeaf(Dump(s)[2][k])
      PROVE  DOMAIN Dump(s)[2][k][2] = Keys(k)
  <2>1. Dump(s)[2] = Top(s)
    BY DumpIs
  <2>2. IsLeaf(Top(s)["name"]) /\ IsLeaf(Top(s)["venue"]) /\ IsLeaf(Top(s)["size_pct"])
    BY LeafIs DEF Top, Text, Num
  <2>3. k \in {"symbol", "entry", "exit"}
    BY <1>1, <2>1, <2>2 DEF Fields
  <2>4. /\ Top(s)["symbol"][2] = SymbolPart(s) /\ Top(s)["entry"][2] = EntryPart(s)
        /\ Top(s)["exit"][2] = ExitPart(s)
    BY DEF Top, Object
  <2> QED
    BY <1>1, <2>1, <2>3, <2>4, PartsDumped
<1> HIDE DEF Keys
<1> QED
  BY <1>1, DumpIsTree DEF Comparable

LEMMA RefTells ==
    ASSUME NEW x, NEW y, RefShaped(x), RefShaped(y), RefDump(x) = RefDump(y)
    PROVE  x = y
<1>1. x = [kind |-> x.kind, period |-> x.period, source |-> x.source]
  BY DEF RefShaped, Ref
<1>2. y = [kind |-> y.kind, period |-> y.period, source |-> y.source]
  BY DEF RefShaped, Ref
<1>3. CASE x.kind = "number" /\ y.kind = "number"
  <2>1. x.period = y.period
    BY <1>3 DEF RefDump, Num, Leaf
  <2>2. x.source = y.source
    BY <1>3 DEF RefShaped
  <2> QED
    BY <1>1, <1>2, <1>3, <2>1, <2>2
<1>4. CASE x.kind # "number" /\ y.kind # "number"
  <2> DEFINE f == [kind |-> Text(x.kind), period |-> Num(x.period), source |-> Text(x.source)]
             g == [kind |-> Text(y.kind), period |-> Num(y.period), source |-> Text(y.source)]
  <2>1. f = g
    BY <1>4 DEF RefDump, Object
  <2>2. f.kind = g.kind /\ f.period = g.period /\ f.source = g.source
    BY <2>1
  <2>3. Text(x.kind) = Text(y.kind) /\ Num(x.period) = Num(y.period) /\ Text(x.source) = Text(y.source)
    BY <2>2
  <2>4. x.kind = y.kind /\ x.period = y.period /\ x.source = y.source
    BY <2>3 DEF Text, Num, Leaf
  <2> QED
    BY <1>1, <1>2, <2>4
<1>5. (x.kind = "number") <=> (y.kind = "number")
  BY DEF RefDump, Num, Leaf, Object
<1> QED
  BY <1>3, <1>4, <1>5

LEMMA ConditionTells ==
    ASSUME NEW x, NEW y, ConditionShaped(x), ConditionShaped(y), ConditionDump(x) = ConditionDump(y)
    PROVE  x = y
<1> DEFINE f == [lhs |-> RefDump(x.lhs), op |-> Text(x.op), rhs |-> RefDump(x.rhs)]
           g == [lhs |-> RefDump(y.lhs), op |-> Text(y.op), rhs |-> RefDump(y.rhs)]
<1>1. f = g
  BY DEF ConditionDump, Object
<1>2. f.lhs = g.lhs /\ f.op = g.op /\ f.rhs = g.rhs
  BY <1>1
<1>3. RefDump(x.lhs) = RefDump(y.lhs) /\ Text(x.op) = Text(y.op) /\ RefDump(x.rhs) = RefDump(y.rhs)
  BY <1>2
<1>4. x.lhs = y.lhs /\ x.rhs = y.rhs
  BY <1>3, RefTells DEF ConditionShaped
<1>5. x.op = y.op
  BY <1>3 DEF Text, Leaf
<1>6. x = Compares(x.lhs, x.op, x.rhs) /\ y = Compares(y.lhs, y.op, y.rhs)
  BY DEF ConditionShaped
<1> QED
  BY <1>4, <1>5, <1>6

LEMMA ConditionsTell ==
    ASSUME NEW x, NEW y, ConditionsShaped(x), ConditionsShaped(y),
           ConditionsDump(x) = ConditionsDump(y)
    PROVE  x = y
<1> DEFINE f == [k \in DOMAIN x |-> ConditionDump(x[k])]
           g == [k \in DOMAIN y |-> ConditionDump(y[k])]
<1>1. f = g
  BY DEF ConditionsDump, List
<1>2. DOMAIN f = DOMAIN x /\ DOMAIN g = DOMAIN y
  OBVIOUS
<1>3. ASSUME NEW k \in DOMAIN x PROVE x[k] = y[k]
  <2>1. k \in DOMAIN y /\ f[k] = g[k]
    BY <1>1, <1>2
  <2>2. ConditionDump(x[k]) = ConditionDump(y[k])
    BY <2>1
  <2>3. ConditionShaped(x[k]) /\ ConditionShaped(y[k])
    BY <2>1 DEF ConditionsShaped
  <2> QED
    BY <2>2, <2>3, ConditionTells
<1>4. x = [k \in DOMAIN x |-> x[k]] /\ y = [k \in DOMAIN y |-> y[k]]
  BY DEF ConditionsShaped
<1>5. DOMAIN x = DOMAIN y
  BY <1>1, <1>2
<1> QED
  BY <1>3, <1>4, <1>5

LEMMA OptionalTells == ASSUME NEW m, NEW n, Optional(m) = Optional(n) PROVE m = n
<1>1. \A x : Num(x) # Missing
  BY DEF Num, Missing, Leaf
<1>2. \A x, y : Num(x) = Num(y) => x = y
  BY DEF Num, Leaf
<1> QED
  BY <1>1, <1>2 DEF Optional

\* No two payloads have the same dump.
LEMMA DumpTells ==
    ASSUME NEW a, NEW b, PayloadShaped(a), PayloadShaped(b), Dump(a) = Dump(b)
    PROVE  a = b
<1>1. Top(a) = Top(b)
  BY DumpIs
<1>2. /\ Top(a).name = Top(b).name /\ Top(a).venue = Top(b).venue
      /\ Top(a).symbol = Top(b).symbol /\ Top(a).entry = Top(b).entry
      /\ Top(a).exit = Top(b).exit /\ Top(a).size_pct = Top(b).size_pct
  BY <1>1
<1>3. \A x, y : Text(x) = Text(y) => x = y
  BY DEF Text, Leaf
<1>4. \A x, y : Num(x) = Num(y) => x = y
  BY DEF Num, Leaf
<1>5. \A f, g : Object(f) = Object(g) => f = g
  BY DEF Object
<1>6. a.name = b.name /\ a.venue = b.venue
  BY <1>2, <1>3 DEF Top
<1>7. a.size_pct = b.size_pct
  BY <1>2, <1>4 DEF Top
<1>8. a.symbol_venue = b.symbol_venue
  <2>1. SymbolPart(a) = SymbolPart(b)
    BY <1>2, <1>5 DEF Top
  <2>2. SymbolPart(a).venue = SymbolPart(b).venue
    BY <2>1
  <2> QED
    BY <1>3, <2>2 DEF SymbolPart
<1>9. a.side = b.side /\ a.entry = b.entry
  <2>1. EntryPart(a) = EntryPart(b)
    BY <1>2, <1>5 DEF Top
  <2>2. EntryPart(a).side = EntryPart(b).side /\ EntryPart(a).conditions = EntryPart(b).conditions
    BY <2>1
  <2>3. Text(a.side) = Text(b.side) /\ ConditionsDump(a.entry) = ConditionsDump(b.entry)
    BY <2>2 DEF EntryPart
  <2> QED
    BY <1>3, <2>3, ConditionsTell DEF PayloadShaped
<1>10. a.exit = b.exit /\ a.take_profit = b.take_profit /\ a.stop_loss = b.stop_loss
  <2>1. ExitPart(a) = ExitPart(b)
    BY <1>2, <1>5 DEF Top
  <2>2. /\ ExitPart(a).conditions = ExitPart(b).conditions
        /\ ExitPart(a).take_profit_pct = ExitPart(b).take_profit_pct
        /\ ExitPart(a).stop_loss_pct = ExitPart(b).stop_loss_pct
    BY <2>1
  <2>3. /\ ConditionsDump(a.exit) = ConditionsDump(b.exit)
        /\ Optional(a.take_profit) = Optional(b.take_profit)
        /\ Optional(a.stop_loss) = Optional(b.stop_loss)
    BY <2>2 DEF ExitPart
  <2> QED
    BY <2>3, ConditionsTell, OptionalTells DEF PayloadShaped
<1> QED
  BY <1>6, <1>7, <1>8, <1>9, <1>10 DEF PayloadShaped

-----------------------------------------------------------------------------
(* What diff_strategies answers *)

\* Wherever no difference points the sides are the same.
LEMMA ElsewhereSame ==
    ASSUME NEW l, NEW r, Comparable(l, r), NEW x \in {"left", "right"},
           NEW t, t = (IF x = "left" THEN l ELSE r), NEW p \in Paths(t), At(l, p) # At(r, p)
    PROVE  \E q \in WalkDiff(l, r) : IsPrefix(p, q.path) \/ IsPrefix(q.path, p)
<1>1. RootTree(l) /\ RootTree(r)
  BY DEF Comparable
<1>2. PICK d \in 0 .. Depth : \E n \in Levels(t)[d] : n.path = p
  BY DEF Paths, Nodes
<1>3. PICK n \in Levels(t)[d] : n.path = p
  BY <1>2
<1>4. CASE \E q \in WalkDiff(l, r) : IsPrefix(q.path, p)
  BY <1>4
<1>5. CASE \E w \in Calls(l, r)[d] : w.path = p
  <2>1. PICK w \in Calls(l, r)[d] : w.path = p
    BY <1>5
  <2>2. w.left = At(l, p) /\ w.right = At(r, p)
    BY <1>1, <2>1, CallIsAbout
  <2>3. w.left # w.right
    BY <2>2
  <2>4. \E q \in WalkDiff(l, r) : IsPrefix(w.path, q.path)
    BY <2>3, DifferenceBelow
  <2> QED
    BY <2>1, <2>4
<1> QED
  BY <1>1, <1>3, <1>4, <1>5, NodesAreReached

LEMMA DiffComplete ==
    ASSUME NEW a, NEW b, PayloadShaped(a), PayloadShaped(b), answer[2] = a, answer[3] = b
    PROVE  DiffIsComplete
<1> DEFINE l == Dump(a)
           r == Dump(b)
           found == DiffOf(a, b)
           places == {d.path : d \in found}
<1>1. Comparable(l, r) /\ RootTree(l) /\ RootTree(r)
  BY DumpTrees, DumpIsTree
<1>2. found = WalkDiff(l, r)
  BY DEF DiffOf
<1> HIDE DEF l, r, found
<1>3. ASSUME NEW d \in found
      PROVE  d.left = At(l, d.path) /\ d.right = At(r, d.path) /\ d.left # d.right
  <2>1. PICK e \in 0 .. Depth : d \in Calls(l, r)[e]
    BY <1>2, FoundIsCall
  <2>2. d.left # d.right
    BY <1>2, FoundIsCall
  <2> QED
    BY <1>1, <2>1, <2>2, CallIsAbout
<1>4. ASSUME NEW p \in places, NEW q \in places, IsPrefix(p, q) PROVE p = q
  <2>1. PICK v \in found : v.path = p
    OBVIOUS
  <2>2. PICK w \in found : w.path = q
    OBVIOUS
  <2> QED
    BY <1>1, <1>2, <1>4, <2>1, <2>2, DifferencesApart
<1>5. ASSUME NEW p \in Paths(l) \union Paths(r), At(l, p) # At(r, p)
      PROVE  \E q \in places : IsPrefix(p, q) \/ IsPrefix(q, p)
  <2>1. CASE p \in Paths(l)
    <3>1. \E q \in WalkDiff(l, r) : IsPrefix(p, q.path) \/ IsPrefix(q.path, p)
      BY <1>1, <1>5, <2>1, "left" \in {"left", "right"}, ElsewhereSame
    <3> QED
      BY <1>2, <3>1
  <2>2. CASE p \in Paths(r)
    <3>1. \E q \in WalkDiff(l, r) : IsPrefix(p, q.path) \/ IsPrefix(q.path, p)
      BY <1>1, <1>5, <2>2, "right" \in {"left", "right"}, "right" # "left", ElsewhereSame
    <3> QED
      BY <1>2, <3>1
  <2> QED
    BY <1>5, <2>1, <2>2
<1>6. ASSUME places = {} PROVE a = b
  <2>1. RootCall(l, r) \in Calls(l, r)[0] /\ 0 \in 0 .. Depth
    BY CallsByDepth DEF Depth
  <2>2. WalkDiff(l, r) = {}
    BY <1>2, <1>6
  <2>3. RootCall(l, r).left = RootCall(l, r).right
    BY <1>1, <2>1, <2>2, DifferenceBelow
  <2>4. l = r
    BY <2>3 DEF RootCall
  <2> QED
    BY <2>4, DumpTells DEF l, r
<1>7. /\ \A d \in found : d.left = At(l, d.path) /\ d.right = At(r, d.path) /\ d.left # d.right
      /\ \A p, q \in places : IsPrefix(p, q) => p = q
      /\ \A p \in Paths(l) \union Paths(r) :
            At(l, p) = At(r, p) \/ \E q \in places : IsPrefix(p, q) \/ IsPrefix(q, p)
      /\ places = {} => a = b
  <2> HIDE DEF places
  <2> QED
    BY <1>3, <1>4, <1>5, <1>6
<1> QED
  BY <1>7 DEF DiffIsComplete, l, r, found

\* An answer about two strategies is about two that a client can send.
AsksAboutPayloads == answer[1] = "diffed" => answer[2] \in Payloads /\ answer[3] \in Payloads

LEMMA AsksAtFirst == Init => AsksAboutPayloads
  BY DEF Init, AsksAboutPayloads

LEMMA AsksNext == AsksAboutPayloads /\ [Next]_vars => AsksAboutPayloads'
<1> SUFFICES ASSUME AsksAboutPayloads, [Next]_vars PROVE AsksAboutPayloads'
  OBVIOUS
<1>1. ASSUME NEW tag, NEW x, answer' = <<tag, x>>, tag # "diffed" PROVE AsksAboutPayloads'
  BY <1>1 DEF AsksAboutPayloads
<1>2. ASSUME answer' = <<"error">> PROVE AsksAboutPayloads'
  BY <1>2 DEF AsksAboutPayloads
<1>3. ASSUME NEW s \in Payloads,
             SaveRefused(s) \/ Save(s) \/ SaveFails(s) \/ Validate(s) \/ Explain(s)
      PROVE  AsksAboutPayloads'
  BY <1>1, <1>2, <1>3 DEF SaveRefused, Save, SaveFails, Validate, Explain, Says
<1>4. ASSUME NEW a \in Payloads, NEW b \in Payloads, Diff(a, b) PROVE AsksAboutPayloads'
  <2>1. answer' = <<"diffed", a, b>> \/ answer' = <<"error">>
    BY <1>4 DEF Diff, Says
  <2> QED
    BY <1>2, <2>1 DEF AsksAboutPayloads
<1>5. ASSUME NEW limit \in 1 .. 2, ListRecent(limit) PROVE AsksAboutPayloads'
  BY <1>1, <1>2, <1>5 DEF ListRecent, Says
<1>6. ASSUME NEW id \in 1 .. MaxRows, Get(id) \/ Delete(id) PROVE AsksAboutPayloads'
  BY <1>1, <1>6 DEF Get, Delete, Says
<1>7. CASE UNCHANGED vars
  BY <1>7 DEF AsksAboutPayloads, vars
<1> QED
  BY <1>3, <1>4, <1>5, <1>6, <1>7 DEF Next

LEMMA AnswersComplete == AsksAboutPayloads => DiffIsComplete
<1>1. CASE answer[1] = "diffed"
  <2> SUFFICES ASSUME AsksAboutPayloads PROVE DiffIsComplete
    OBVIOUS
  <2>1. answer[2] \in Payloads /\ answer[3] \in Payloads
    BY <1>1 DEF AsksAboutPayloads
  <2>2. PayloadShaped(answer[2]) /\ PayloadShaped(answer[3])
    BY <2>1, PayloadsAssumption
  <2> QED
    BY <2>2, DiffComplete
<1>2. CASE answer[1] # "diffed"
  BY <1>2 DEF DiffIsComplete
<1> QED
  BY <1>1, <1>2

\* What diff_strategies lists of any two payloads is true on both sides, lies
\* apart, and leaves out nothing: wherever no difference points the strategies
\* are the same, and without a difference they are one strategy. This is for
\* condition lists of any length, equal or not.
THEOREM DiffsAreComplete == Spec => []DiffIsComplete
<1>1. Init => AsksAboutPayloads
  BY AsksAtFirst
<1>2. AsksAboutPayloads /\ [Next]_vars => AsksAboutPayloads'
  BY AsksNext
<1>3. AsksAboutPayloads => DiffIsComplete
  BY AnswersComplete
<1> QED
  BY <1>1, <1>2, <1>3, PTL DEF Spec
=============================================================================
