------------------------- MODULE MCWorkflowSchedule -------------------------
(* Symmetry for the safety runs of WorkflowSchedule.                         *)
EXTENDS WorkflowSchedule, TLC

Symmetry == Permutations(Version) \cup Permutations(Run) \cup Permutations(Process)
=============================================================================
