---------------------------- MODULE MCTaskEngine ----------------------------
(* Symmetry for the safety runs of TaskEngine: ids, workers and handlers are *)
(* interchangeable.                                                          *)
EXTENDS TaskEngine, TLC

Symmetry == Permutations(Task) \cup Permutations(Worker) \cup Permutations(Handler)
              \cup Permutations(Oversized) \cup Permutations(Key \ Oversized) \cup Permutations(Run)
=============================================================================
