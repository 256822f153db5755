---------------------------- MODULE SchemaHistory ----------------------------
(***************************************************************************)
(* What starting processes promise about the shared schema: migrations     *)
(* succeed in the order of their versions, each once, and a process works  *)
(* on the database only when all the migrations it knows have succeeded.   *)
(***************************************************************************)
EXTENDS Naturals

CONSTANTS Processes,
          Needs      \* per process, the number of migrations it knows

VARIABLES schema,    \* versions that have succeeded
          working    \* processes with a service at work

vars == <<schema, working>>

Versions == UNION {1..Needs[p] : p \in Processes}

Init == schema = {} /\ working = {}

Migrate ==
    /\ \E v \in Versions : 1..v - 1 = schema /\ schema' = schema \union {v}
    /\ UNCHANGED working

Work(p) ==
    /\ 1..Needs[p] \subseteq schema
    /\ working' = working \union {p}
    /\ UNCHANGED schema

Cease(p) == working' = working \ {p} /\ UNCHANGED schema

Next == Migrate \/ \E p \in Processes : Work(p) \/ Cease(p)

Spec == Init /\ [][Next]_vars
=============================================================================
