------------------------------- MODULE Startup -------------------------------
(***************************************************************************)
(* How processes of one or several releases start against one database and *)
(* end: bean.LifecycleManager, the DB lifecycle with its migrations, and   *)
(* the Start and Stop of the services. A process takes an advisory lock,   *)
(* migrates over other connections, launches its services side by side,    *)
(* waits for a signal and stops them side by side.                         *)
(***************************************************************************)
EXTENDS Naturals

CONSTANTS Processes, Nobody,
          Needs,     \* per process, the number of migrations its release has
          Services,  \* services with loops: WorkflowWorker, PluginWorker, ...
          BootCap    \* bound: how often each process is started

(* A release adds migrations behind those of the releases before it.       *)
StartupAssumption == Needs \in [Processes -> Nat] /\ Nobody \notin Processes /\ BootCap \in Nat

VARIABLES migrates, \* rows of the table, by version
          effect,   \* what Exec of a version has done to the schema
          lock,     \* holder of pg_advisory_xact_lock
          process,
          services, \* per process, its services
          stops     \* per process and service, its Stop

vars == <<migrates, effect, lock, process, services, stops>>

Versions == UNION {1..Needs[p] : p \in Processes}

TypeOK ==
    /\ migrates \in [Versions -> {"none", "failed", "success"}]
    /\ effect \in [Versions -> {"none", "partly", "whole"}]
    /\ lock \in Processes \union {Nobody}
    /\ process \in [Processes -> [pc : {"down", "lock", "check", "exec", "record", "serve", "stopping"},
                                  at : Nat, ok : BOOLEAN, signal : BOOLEAN, boots : 0..BootCap]]
    /\ services \in [Processes -> [Services -> {"new", "starting", "running", "ending", "ended", "failed"}]]
    /\ stops \in [Processes -> [Services -> {"none", "waits", "done"}]]

Down(boots) == [pc |-> "down", at |-> 1, ok |-> FALSE, signal |-> FALSE, boots |-> boots]
All(value) == [s \in Services |-> value]

Init ==
    /\ migrates = [v \in Versions |-> "none"] /\ effect = [v \in Versions |-> "none"]
    /\ lock = Nobody
    /\ process = [p \in Processes |-> Down(0)]
    /\ services = [p \in Processes |-> All("new")] /\ stops = [p \in Processes |-> All("none")]

At(p, pc) == process[p].pc = pc
Version(p) == process[p].at

(* The process and all it held are gone.                                   *)
Gone(p) ==
    /\ process' = [process EXCEPT ![p] = Down(@.boots)]
    /\ lock' = IF lock = p THEN Nobody ELSE lock
    /\ services' = [services EXCEPT ![p] = All("new")]
    /\ stops' = [stops EXCEPT ![p] = All("none")]

-----------------------------------------------------------------------------
Boot(p) ==
    /\ At(p, "down") /\ process[p].boots < BootCap
    /\ process' = [process EXCEPT ![p].pc = "lock", ![p].boots = @ + 1]
    /\ UNCHANGED <<migrates, effect, lock, services, stops>>

(* A crash, or an error on the way: StartAndServe returns and main ends.   *)
Dies(p) == ~At(p, "down") /\ Gone(p) /\ UNCHANGED <<migrates, effect>>

LockIgnored == TRUE \* broken: each process migrates on its own
LockFree == lock = Nobody

Lock(p) ==
    /\ At(p, "lock") /\ LockFree
    /\ lock' = p
    /\ process' = [process EXCEPT ![p].pc = "check", ![p].at = 1]
    /\ UNCHANGED <<migrates, effect, services, stops>>

(* Versions in ascending order; what has succeeded is passed over.         *)
Check(p) ==
    /\ At(p, "check") /\ Version(p) <= Needs[p]
    /\ process' = IF migrates[Version(p)] = "success" THEN [process EXCEPT ![p].at = @ + 1]
                  ELSE [process EXCEPT ![p].pc = "exec"]
    /\ UNCHANGED <<migrates, effect, lock, services, stops>>

(* Statements over other connections than the lock's, that may fail half-  *)
(* way; nothing undoes them.                                               *)
Exec(p) ==
    /\ At(p, "exec")
    /\ \E ok \in BOOLEAN :
        /\ effect' = [effect EXCEPT ![Version(p)] = IF ok THEN "whole" ELSE "partly"]
        /\ process' = [process EXCEPT ![p].pc = "record", ![p].ok = ok]
    /\ UNCHANGED <<migrates, lock, services, stops>>

(* A failed migration ends the process; one that cannot be recorded does   *)
(* too (Dies).                                                             *)
Record(p) ==
    /\ At(p, "record")
    /\ IF process[p].ok
       THEN /\ migrates' = [migrates EXCEPT ![Version(p)] = "success"]
            /\ process' = [process EXCEPT ![p].pc = "check", ![p].at = @ + 1]
            /\ UNCHANGED <<lock, services, stops>>
       ELSE migrates' = [migrates EXCEPT ![Version(p)] = "failed"] /\ Gone(p)
    /\ UNCHANGED effect

(* The lock's transaction ends and a goroutine per service is launched.    *)
Launch(p) ==
    /\ At(p, "check") /\ Version(p) > Needs[p]
    /\ lock' = Nobody
    /\ process' = [process EXCEPT ![p].pc = "serve"]
    /\ services' = [services EXCEPT ![p] = All("starting")]
    /\ UNCHANGED <<migrates, effect, stops>>

-----------------------------------------------------------------------------
(* Start makes the cancelling context and the loops, or fails, which is    *)
(* only logged.                                                            *)
Started(p, s) ==
    /\ services[p][s] = "starting"
    /\ \E outcome \in {"running", "failed"} : services' = [services EXCEPT ![p][s] = outcome]
    /\ UNCHANGED <<migrates, effect, lock, process, stops>>

(* The channel keeps a signal that comes before anybody waits for it.      *)
Signal(p) ==
    /\ ~At(p, "down") /\ ~process[p].signal
    /\ process' = [process EXCEPT ![p].signal = TRUE]
    /\ UNCHANGED <<migrates, effect, lock, services, stops>>

Shutdown(p) ==
    /\ At(p, "serve") /\ process[p].signal
    /\ process' = [process EXCEPT ![p].pc = "stopping"]
    /\ UNCHANGED <<migrates, effect, lock, services, stops>>

(* Stop cancels what has been started so far and waits for its loops, past *)
(* every timeout.                                                          *)
StopBegin(p, s) ==
    /\ At(p, "stopping") /\ stops[p][s] = "none"
    /\ stops' = [stops EXCEPT ![p][s] = "waits"]
    /\ services' = [services EXCEPT ![p][s] = IF @ = "running" THEN "ending" ELSE @]
    /\ UNCHANGED <<migrates, effect, lock, process>>

LoopEnds(p, s) ==
    /\ services[p][s] = "ending"
    /\ services' = [services EXCEPT ![p][s] = "ended"]
    /\ UNCHANGED <<migrates, effect, lock, process, stops>>

StopEnd(p, s) ==
    /\ stops[p][s] = "waits" /\ services[p][s] \notin {"running", "ending"}
    /\ stops' = [stops EXCEPT ![p][s] = "done"]
    /\ UNCHANGED <<migrates, effect, lock, process, services>>

Exit(p) ==
    /\ At(p, "stopping") /\ \A s \in Services : stops[p][s] = "done"
    /\ Gone(p)
    /\ UNCHANGED <<migrates, effect>>

Next == \E p \in Processes :
    \/ Boot(p) \/ Dies(p) \/ Lock(p) \/ Check(p) \/ Exec(p) \/ Record(p) \/ Launch(p)
    \/ Signal(p) \/ Shutdown(p) \/ Exit(p)
    \/ \E s \in Services : Started(p, s) \/ StopBegin(p, s) \/ LoopEnds(p, s) \/ StopEnd(p, s)

Spec == Init /\ [][Next]_vars

-----------------------------------------------------------------------------
(* Processes of different releases that start, crash, fail half-way and    *)
(* restart at the same time are a SchemaHistory: every migration succeeds  *)
(* once and in order, is not run again after that, and no loop of a process*)
(* runs before all of its own have (database.go:74-165, manager.go:42-77). *)
Working == {p \in Processes : \E s \in Services : services[p][s] \in {"running", "ending"}}

History == INSTANCE SchemaHistory WITH
    schema <- {v \in Versions : migrates[v] = "success" /\ effect[v] = "whole"}, working <- Working

MigratesInOrder == History!Spec
=============================================================================
