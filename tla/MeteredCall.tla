---------------------------- MODULE MeteredCall ----------------------------
(***************************************************************************)
(* What a caller of a model is promised, whatever happens upstream: a call *)
(* that is refused or fails costs nothing, and a call that is answered is  *)
(* paid for at most once, in the step that answers it.                     *)
(***************************************************************************)
EXTENDS Naturals

CONSTANTS
    Calls,
    Prices  \* what a call may cost

VARIABLES
    state,  \* "new", "refused", "working", "answered" or "failed"
    paid    \* the points the call cost

vars == <<state, paid>>

Init == state = [c \in Calls |-> "new"] /\ paid = [c \in Calls |-> 0]

Refuse(c) ==
    /\ state[c] = "new"
    /\ state' = [state EXCEPT ![c] = "refused"]
    /\ UNCHANGED paid

Admit(c) ==
    /\ state[c] = "new"
    /\ state' = [state EXCEPT ![c] = "working"]
    /\ UNCHANGED paid

Answer(c, points) ==
    /\ state[c] = "working"
    /\ state' = [state EXCEPT ![c] = "answered"]
    /\ paid' = [paid EXCEPT ![c] = points]

\* A call can fail before anything of it was sent.
Fail(c) ==
    /\ state[c] \in {"new", "working"}
    /\ state' = [state EXCEPT ![c] = "failed"]
    /\ UNCHANGED paid

Next == \E c \in Calls :
    \/ Refuse(c) \/ Admit(c) \/ Fail(c)
    \/ \E points \in Prices : Answer(c, points)

Spec == Init /\ [][Next]_vars
=============================================================================
