---------------------------- MODULE TargetBinding ----------------------------
(***************************************************************************)
(* What fixing the project of a board promises (ADR 0014), without locks,  *)
(* requests or steps: the project may be chosen as often as one likes      *)
(* until the first creation is recorded; from then on it stays, and every  *)
(* item recorded lies in it, until the board is deleted.                   *)
(***************************************************************************)
CONSTANTS Projects, Items, NoProject

VARIABLES
    target,     \* the project of the board
    fixed,      \* a creation has been recorded
    recorded,   \* the items the board knows it has written
    home        \* the project every item of GitHub lies in

vars == <<target, fixed, recorded, home>>

Init ==
    /\ target \in Projects \cup {NoProject}
    /\ fixed = FALSE
    /\ recorded = {}
    /\ home = [x \in Items |-> NoProject]

Choose ==
    /\ ~fixed
    /\ target' \in Projects
    /\ UNCHANGED <<fixed, recorded, home>>

(* An item appears in some project; the board does not know it yet. *)
Appear ==
    /\ \E x \in Items, p \in Projects :
        home[x] = NoProject /\ home' = [home EXCEPT ![x] = p]
    /\ UNCHANGED <<target, fixed, recorded>>

Record ==
    /\ target # NoProject
    /\ fixed' = TRUE
    /\ \E S \in SUBSET {x \in Items : home[x] = target} : recorded' = recorded \cup S
    /\ UNCHANGED <<target, home>>

Discard ==
    /\ target' = NoProject
    /\ fixed' = FALSE
    /\ recorded' = {}
    /\ UNCHANGED home

Next == Choose \/ Appear \/ Record \/ Discard

Spec == Init /\ [][Next]_vars

=============================================================================
