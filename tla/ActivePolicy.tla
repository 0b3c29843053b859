---------------------------- MODULE ActivePolicy ----------------------------
(***************************************************************************)
(* What the store of risk policies promises: it is a register. A call that *)
(* sets a policy takes effect at one instant between its start and its     *)
(* answer, or not at all; "ok" means that it did. A call that answers with *)
(* an error has left no trace, unless its commit was lost on the way. To   *)
(* activate an id that is not stored empties the register.                 *)
(***************************************************************************)
CONSTANTS Setters, Policies, NoPolicy

VARIABLES
    register,     \* the active policies: none or one
    known,        \* the policies that are stored
    call          \* call[s]: the stage, the policy and the answer of a call

NoCall == [stage |-> "idle", policy |-> NoPolicy, out |-> "none"]

Init == /\ known \in SUBSET Policies
        /\ register \in {{}} \union {{p} : p \in known}
        /\ call = [s \in Setters |-> NoCall]

Becomes(s, stage, out) ==
    call' = [call EXCEPT ![s] = [stage |-> stage, policy |-> call[s].policy, out |-> out]]

Called(s, p) ==
    /\ call[s].stage = "idle"
    /\ call' = [call EXCEPT ![s] = [stage |-> "pending", policy |-> p, out |-> "none"]]
    /\ UNCHANGED <<register, known>>

\* The one instant at which the call changes the store.
TakesEffect(s) ==
    /\ call[s].stage = "pending"
    /\ register' = {call[s].policy}
    /\ known' = known \union {call[s].policy}
    /\ \E out \in {"ok", "error"} : Becomes(s, "done", out)

Empties(s) == /\ call[s].stage = "pending"
              /\ register' = {}
              /\ Becomes(s, "done", "error")
              /\ UNCHANGED known

Fails(s) == /\ call[s].stage = "pending"
            /\ Becomes(s, "done", "error")
            /\ UNCHANGED <<register, known>>

Returns(s) == /\ call[s].stage = "done"
              /\ call' = [call EXCEPT ![s] = NoCall]
              /\ UNCHANGED <<register, known>>

\* The server goes down: whoever had not been answered never is.
Forgotten ==
    /\ call' = [s \in Setters |-> NoCall]
    /\ UNCHANGED <<register, known>>

Next == \/ \E s \in Setters : \/ \E p \in Policies : Called(s, p)
                              \/ TakesEffect(s) \/ Empties(s)
                              \/ Fails(s) \/ Returns(s)
        \/ Forgotten

Spec == Init /\ [][Next]_<<register, known, call>>
=============================================================================
