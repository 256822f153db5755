-------------------------------- MODULE Quota --------------------------------
(***************************************************************************)
(* What a budget of a run promises: items are admitted while there is room,*)
(* stay admitted, and are refused only when there is none.                 *)
(***************************************************************************)
EXTENDS Naturals, FiniteSets

CONSTANTS Items,  \* what is counted: pages, tasks, host names
          First   \* admitted from the start

VARIABLES cap, used, refused

vars == <<cap, used, refused>>

Init == cap \in Nat /\ used = First /\ refused = {}

Admit(x) ==
    /\ x \notin used /\ Cardinality(used) < cap
    /\ used' = used \union {x}
    /\ UNCHANGED <<cap, refused>>

Refuse(x) ==
    /\ x \notin used /\ Cardinality(used) >= cap
    /\ refused' = refused \union {x}
    /\ UNCHANGED <<cap, used>>

Next == \E x \in Items : Admit(x) \/ Refuse(x)

Spec == Init /\ [][Next]_vars
=============================================================================
