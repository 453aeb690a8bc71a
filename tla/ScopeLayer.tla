----------------------------- MODULE ScopeLayer -----------------------------
(***************************************************************************)
(* What one layer's scope promises while the other layer is kept the same: *)
(* every operation of the program, whichever layer it is called in, is     *)
(* applied to this layer exactly once between its call and its return, and *)
(* nothing else changes the scope.                                         *)
(***************************************************************************)
CONSTANTS
    Threads, Ops, Fresh,
    Idle,              \* of a thread: no operation
    Applied(_, _)      \* a scope after an operation

VARIABLES scope, pending

vars == <<scope, pending>>

Init == scope = Fresh /\ pending = [t \in Threads |-> Idle]

Begin(t) == \E op \in Ops :
    /\ pending[t] = Idle
    /\ pending' = [pending EXCEPT ![t] = [op |-> op, applied |-> FALSE]]
    /\ UNCHANGED scope

Apply(t) ==
    /\ pending[t] # Idle /\ ~pending[t].applied
    /\ scope' = Applied(scope, pending[t].op)
    /\ pending' = [pending EXCEPT ![t].applied = TRUE]

End(t) ==
    /\ pending[t] # Idle /\ pending[t].applied
    /\ pending' = [pending EXCEPT ![t] = Idle]
    /\ UNCHANGED scope

Next == \E t \in Threads : Begin(t) \/ Apply(t) \/ End(t)

Spec == Init /\ [][Next]_vars
=============================================================================
