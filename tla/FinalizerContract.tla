------------------------- MODULE FinalizerContract --------------------------
(***************************************************************************)
(* What a finalizer is for, independent of how the reconciler implements   *)
(* it: external state (effects) exists only for a live object that carries *)
(* the finalizer, effects are removed one by one once the object is marked *)
(* for deletion, and the object goes only when none are left.              *)
(***************************************************************************)
CONSTANT Effects

VARIABLES
    alive,      \* the object exists
    guarded,    \* it carries the finalizer
    doomed,     \* it is marked for deletion
    effects     \* external state made on its behalf

contract == <<alive, guarded, doomed, effects>>

Init == ~alive /\ ~guarded /\ ~doomed /\ effects = {}

Create == ~alive /\ alive' /\ UNCHANGED <<guarded, doomed, effects>>

Guard == alive /\ ~doomed /\ guarded' /\ UNCHANGED <<alive, doomed, effects>>

\* Effects are made only behind the finalizer.  Deletion may have been asked
\* for meanwhile: a pipeline already under way is not interrupted.
Provision == alive /\ guarded /\ effects' = Effects /\ UNCHANGED <<alive, guarded, doomed>>

Doom == alive /\ guarded /\ ~doomed /\ doomed' /\ UNCHANGED <<alive, guarded, effects>>

CleanUp(e) == doomed /\ effects' = effects \ {e} /\ UNCHANGED <<alive, guarded, doomed>>

Release ==
    /\ alive /\ effects = {}
    /\ doomed \/ ~guarded
    /\ ~alive' /\ ~guarded' /\ ~doomed'
    /\ UNCHANGED effects

Next == Create \/ Guard \/ Provision \/ Doom \/ Release \/ \E e \in Effects : CleanUp(e)

Spec == Init /\ [][Next]_contract
=============================================================================
