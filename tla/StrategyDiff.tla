---------------------------- MODULE StrategyDiff ----------------------------
(***************************************************************************)
(* What diff_strategies lists of two payloads: the places where the trees  *)
(* that model_dump makes of them differ.                                   *)
(***************************************************************************)
EXTENDS StrategyStore

\* What model_dump makes of a payload: leaves, lists and objects.
Leaf(x) == <<"leaf", x>>
Num(n) == Leaf(<<"number", n>>)
Text(s) == Leaf(<<"text", s>>)
Missing == Leaf(<<"null">>)
List(seq) == <<"list", seq>>
Object(f) == <<"object", f>>
Optional(n) == IF n = Null THEN Missing ELSE Num(n)

RefDump(r) == IF r.kind = "number" THEN Num(r.period)
              ELSE Object([kind |-> Text(r.kind), period |-> Num(r.period), source |-> Text(r.source)])
ConditionDump(c) == Object([lhs |-> RefDump(c.lhs), op |-> Text(c.op), rhs |-> RefDump(c.rhs)])
ConditionsDump(cs) == List([k \in DOMAIN cs |-> ConditionDump(cs[k])])

Dump(s) ==
    Object([name |-> Text(s.name), venue |-> Text(s.venue),
            symbol |-> Object([venue |-> Text(s.symbol_venue)]),
            entry |-> Object([side |-> Text(s.side), conditions |-> ConditionsDump(s.entry)]),
            exit |-> Object([conditions |-> ConditionsDump(s.exit),
                             take_profit_pct |-> Optional(s.take_profit),
                             stop_loss_pct |-> Optional(s.stop_loss)]),
            size_pct |-> Num(s.size_pct)])

Child(t, k) == IF k \in DOMAIN t[2] THEN t[2][k] ELSE Missing

Descends(w) == w.left[1] = w.right[1] /\ w.left[1] # "leaf"

Below(w, keys) ==
    {[path |-> Append(w.path, k), left |-> Child(w.left, k), right |-> Child(w.right, k)] :
         k \in keys}

BeneathBoth(w) ==       \* Mutant of Beneath
    Below(w, DOMAIN w.left[2] \intersect DOMAIN w.right[2])

\* Objects by the union of their keys, lists by position up to the longer one.
Beneath(w) == Below(w, DOMAIN w.left[2] \union DOMAIN w.right[2])

\* No payload is deeper: the period of a side of a condition of the entry.
Depth == 5

\* What _walk_diff is called with, by the depth of the call.
Calls(l, r) ==
    LET at[d \in 0 .. Depth] ==
            IF d = 0 THEN {[path |-> <<>>, left |-> l, right |-> r]}
            ELSE UNION {Beneath(w) : w \in {v \in at[d - 1] : Descends(v)}}
    IN  at

WalkDiff(l, r) ==
    {w \in UNION {Calls(l, r)[d] : d \in 0 .. Depth} : ~Descends(w) /\ w.left # w.right}

DiffOf(a, b) == WalkDiff(Dump(a), Dump(b))

-----------------------------------------------------------------------------
\* The nodes of a tree, by their depth.
Parts(n) == {[path |-> Append(n.path, k), node |-> n.node[2][k]] : k \in DOMAIN n.node[2]}

Levels(t) ==
    LET at[d \in 0 .. Depth] ==
            IF d = 0 THEN {[path |-> <<>>, node |-> t]}
            ELSE UNION {Parts(n) : n \in {m \in at[d - 1] : m.node[1] # "leaf"}}
    IN  at

Nodes(t) == UNION {Levels(t)[d] : d \in 0 .. Depth}
Paths(t) == {n.path : n \in Nodes(t)}
At(t, path) == IF path \in Paths(t) THEN (CHOOSE n \in Nodes(t) : n.path = path).node
               ELSE Missing

\* (DiffIsComplete) The differences say where two strategies differ and what
\* is there on either side, no two of them say it of the same place, and
\* wherever none of them points the strategies are the same: no differences
\* means the same strategy, also when one has more conditions than the other.
DiffIsComplete ==
    answer[1] = "diffed" =>
        LET l == Dump(answer[2])
            r == Dump(answer[3])
            found == DiffOf(answer[2], answer[3])
            places == {d.path : d \in found}
        IN  /\ \A d \in found : d.left = At(l, d.path) /\ d.right = At(r, d.path) /\ d.left # d.right
            /\ \A p, q \in places : IsPrefix(p, q) => p = q
            /\ \A p \in Paths(l) \union Paths(r) :
                  At(l, p) = At(r, p) \/ \E q \in places : IsPrefix(p, q) \/ IsPrefix(q, p)
            /\ places = {} => answer[2] = answer[3]
=============================================================================
