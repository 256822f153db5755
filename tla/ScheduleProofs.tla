--------------------------- MODULE ScheduleProofs ---------------------------
(***************************************************************************)
(* Schedules and their ticks, for every number of workflows, versions,     *)
(* runs and processes: what WorkflowSchedule checks on one workflow with   *)
(* two processes.                                                          *)
(***************************************************************************)
EXTENDS WorkflowSchedule, WellFoundedInduction, TLAPS

-----------------------------------------------------------------------------
(* The invariant.                                                          *)

\* What a process knows between two steps of its transaction. The schedule that a
\* dispatch selected stays enabled, since whoever would disable it needs its lock.
Knows(p) ==
  LET w == process[p].workflow IN
  /\ process[p].pc \in {"locked", "snapshot"} => process[p].version \in Version
  /\ process[p].pc \in {"saving", "storing", "stopping", "selected", "decided"}
       => w \in Workflow
  /\ process[p].pc \in {"selected", "decided"} => process[p].held /\ schedule[w].enabled
  /\ process[p].held => process[p].pc \in {"storing", "stopping", "selected", "decided"}

Known == \A p \in Process : Knows(p)

\* The lock of a schedule has one holder.
Exclusive ==
  \A p, q \in Process : p # q /\ process[p].held /\ process[q].held => Of(p) # Of(q)

SchedulesExist == \A w \in Workflow : schedule[w].enabled => schedule[w].exists

\* A run that does not exist is of no tick.
NoTickYet == \A r \in Run : run[r].status = "absent" => run[r].tick = Never

Locking  == TypeOK /\ Known /\ Exclusive
Planning == EnabledScheduleStartable /\ DisabledScheduleEmpty /\ SchedulesExist
Ticking  == TickStartsOnce /\ NoTickYet
SchedulerState == Locking /\ Planning /\ Ticking

-----------------------------------------------------------------------------
(* Types.                                                                  *)

LEMMA Fields ==
  ASSUME TypeOK
  PROVE  /\ \A p \in Process : /\ process[p] \in ProcessRec
                               /\ process[p].pc \in Pc
                               /\ process[p].workflow \in Workflow \cup {NoWorkflow}
                               /\ process[p].version \in Version \cup {NoVersion}
                               /\ process[p].now \in 0..MaxClock
                               /\ process[p].policy \in Policy
                               /\ process[p].held \in BOOLEAN
         /\ \A w \in Workflow : /\ schedule[w] \in ScheduleRec
                                /\ schedule[w].policy \in Policy
                                /\ schedule[w].next \in Instant \cup {Never}
                                /\ \A i \in Instant : event[w][i] \in EventRec
         /\ \A r \in Run : run[r] \in RunRec
BY DEF TypeOK, ProcessRec, ScheduleRec

\* There is an earliest instant in a set of instants.
LEMMA EarliestIs ==
  ASSUME NEW S \in SUBSET Instant, S # {}
  PROVE  Earliest(S) \in S /\ \A j \in S : Earliest(S) <= j
<1>1. S \subseteq Nat
  BY ScheduleAssumption DEF Instant
<1>2. IsWellFoundedOn({q \in Nat \X Nat : q[1] < q[2]}, Nat)
  BY NatLessThanWellFounded, Zenon DEF OpToRel
<1>3. PICK i \in S : \A j \in S : <<j, i>> \notin {q \in Nat \X Nat : q[1] < q[2]}
  BY <1>1, <1>2, WFMin
<1>4. ASSUME NEW j \in S
      PROVE  i <= j
  <2>1. i \in Nat /\ j \in Nat
    BY <1>1
  <2>2. <<j, i>> \in Nat \X Nat /\ <<j, i>>[1] = j /\ <<j, i>>[2] = i
    BY <2>1
  <2>3. ~(j < i)
    BY <1>3, <2>2
  <2> QED
    BY <2>1, <2>3
<1> QED
  BY <1>4 DEF Earliest

\* The next tick is an instant, after the reading of the clock it follows.
LEMMA NextTick ==
  /\ \A now \in 0..MaxClock : NextAfter(now) \in Instant
  /\ \A now \in 0..MaxClock : \A due \in 1..now :
       TickAfter(due, now) \in Instant /\ TickAfter(due, now) > now
  /\ Never \notin Instant
BY ScheduleAssumption DEF NextAfter, TickAfter, Instant, Never

\* What a process does to its own record.
LEMMA ProcessMoves ==
  ASSUME TypeOK, NEW p \in Process
  PROVE  /\ Leave(p) => process' \in [Process -> ProcessRec]
         /\ \A s \in ProcessRec : process' = [process EXCEPT ![p] = s]
                                    => process' \in [Process -> ProcessRec]
<1>1. IdleProcess \in ProcessRec
  BY ScheduleAssumption DEF IdleProcess, ProcessRec, Pc, Policy
<1> QED
  BY <1>1 DEF TypeOK, Leave

LEMMA SkippedTyped ==
  ASSUME TypeOK, NEW w \in Workflow
  PROVE  PendingSkipped(w) \in [Instant -> EventRec]
<1>1. \A i \in Instant : event[w][i] \in EventRec
  BY Fields
<1>2. \A e \in EventRec : [e EXCEPT !.status = "skipped"] \in EventRec
  BY DEF EventRec, EventStatus
<1> QED
  BY <1>1, <1>2 DEF PendingSkipped

\* A due tick that has no row becomes pending, and all other events stay.
LEMMA QueuedRows ==
  ASSUME TypeOK, NEW p \in Process, Of(p) \in Workflow
  PROVE  /\ Queued(p) \in [Instant -> EventRec]
         /\ \A i \in Instant :
              \/ Queued(p)[i] = event[Of(p)][i]
              \/ /\ event[Of(p)][i].status = "none"
                 /\ Queued(p)[i].status = "pending"
                 /\ Queued(p)[i].run = event[Of(p)][i].run
<1>1. PICK w \in Workflow : w = Of(p)
  OBVIOUS
<1>2. event[w] \in [Instant -> EventRec]
  BY <1>1 DEF TypeOK
<1>3. \A e \in EventRec : /\ AsPending(e) \in EventRec
                          /\ \/ AsPending(e) = e
                             \/ /\ e.status = "none" /\ AsPending(e).status = "pending"
                                /\ AsPending(e).run = e.run
  BY DEF AsPending, EventRec, EventStatus
<1>4. \/ Queued(p) = event[w]
      \/ \E due \in Instant : Queued(p) = [event[w] EXCEPT ![due] = AsPending(@)]
  <2>1. CASE schedule[w].next \in 1..process[p].now
    <3>1. schedule[w].next \in Instant
      BY <2>1, Fields DEF Never
    <3> QED
      BY <1>1, <2>1, <3>1 DEF Queued
  <2>2. CASE schedule[w].next \notin 1..process[p].now
    BY <1>1, <2>2 DEF Queued
  <2> QED
    BY <2>1, <2>2
<1> QED
  BY <1>1, <1>2, <1>3, <1>4

\* The first of the waiting events was pending, or is the due tick.
LEMMA WaitingFirst ==
  ASSUME TypeOK, NEW p \in Process, Of(p) \in Workflow, Waiting(p) # {}
  PROVE  /\ Earliest(Waiting(p)) \in Instant
         /\ event[Of(p)][Earliest(Waiting(p))].status \in {"none", "pending"}
<1>1. Waiting(p) \in SUBSET Instant
  BY DEF Waiting
<1>2. PICK i \in Waiting(p) : i = Earliest(Waiting(p))
  BY <1>1, EarliestIs
<1>3. i \in Instant /\ Queued(p)[i].status = "pending"
  BY DEF Waiting
<1> QED
  BY <1>2, <1>3, QueuedRows

\* The tables that are not written.
Rest == <<clock, workflow, version, schedule, event, run>>

\* Steps that move a process and write no table.
Moves(p) ==
  \/ \E v \in Version : PublishLock(p, v)
  \/ PublishSnapshot(p)
  \/ \E w \in Workflow : StopLock(p, w) \/ DispatchSelect(p, w)
  \/ \E w \in Workflow, enabled \in BOOLEAN, policy \in Policy : SaveBegin(p, w, enabled, policy)
  \/ SaveLock(p) \/ DispatchDecide(p) \/ Rollback(p)

\* Stop and SaveSchedule write the schedule, and a dispatch settles an event.
Rewrites(p) == StopCommit(p) \/ SaveCommit(p)
Settles(p) ==
  DispatchDefer(p) \/ DispatchSkip(p) \/ DispatchFail(p) \/ \E r \in Run : DispatchStart(p, r)

\* Runs are started by hand, end and are reopened.
Runs ==
  \/ \E w \in Workflow, r \in Run : StartRun(w, r)
  \/ \E o, r \in Run : RerunRun(o, r)
  \/ \E r \in Run : EndRun(r) \/ ReopenRun(r)

LEMMA NextKinds ==
  Next => \/ \E w \in Workflow, v \in Version : CreateDraft(w, v)
          \/ \E p \in Process : Moves(p) \/ PublishCommit(p) \/ Rewrites(p) \/ Settles(p)
          \/ Runs \/ Tick
BY DEF Next, Moves, Rewrites, Settles, Runs, Publish, Stop, Save, Dispatch

LEMMA MovesTyped ==
  ASSUME TypeOK, Known, NEW p \in Process, Moves(p)
  PROVE  TypeOK' /\ UNCHANGED Rest
<1>1. process[p] \in ProcessRec
  BY Fields
<1>2. ASSUME NEW s \in ProcessRec, process' = [process EXCEPT ![p] = s], UNCHANGED Rest
      PROVE  TypeOK'
  BY <1>2, ProcessMoves DEF TypeOK, Rest
<1>3. ASSUME NEW v \in Version, PublishLock(p, v)
      PROVE  TypeOK' /\ UNCHANGED Rest
  <2>1. version[v].workflow \in Workflow \cup {NoWorkflow}
    BY DEF TypeOK, VersionRec
  <2>2. [process[p] EXCEPT !.pc = "locked", !.version = v, !.workflow = version[v].workflow]
          \in ProcessRec
    BY <1>1, <2>1 DEF ProcessRec, Pc
  <2> QED
    BY <1>2, <1>3, <2>2 DEF PublishLock, Rest
<1>4. CASE PublishSnapshot(p)
  <2>1. [process[p] EXCEPT !.pc = "snapshot", !.old = Published(Of(p))] \in ProcessRec
    BY <1>1 DEF ProcessRec, Pc, Published
  <2> QED
    BY <1>2, <1>4, <2>1 DEF PublishSnapshot, Rest
<1>5. ASSUME NEW w \in Workflow, StopLock(p, w)
      PROVE  TypeOK' /\ UNCHANGED Rest
  <2>1. schedule[w].exists \in BOOLEAN
    BY DEF TypeOK, ScheduleRec
  <2>2. [process[p] EXCEPT !.pc = "stopping", !.workflow = w, !.held = schedule[w].exists]
          \in ProcessRec
    BY <1>1, <2>1 DEF ProcessRec, Pc
  <2> QED
    BY <1>2, <1>5, <2>2 DEF StopLock, Rest
<1>6. ASSUME NEW w \in Workflow, DispatchSelect(p, w)
      PROVE  TypeOK' /\ UNCHANGED Rest
  <2>1. PICK now \in 0..MaxClock : process' = [process EXCEPT ![p] =
          [@ EXCEPT !.pc = "selected", !.workflow = w, !.now = now, !.held = TRUE]]
    BY <1>6 DEF DispatchSelect, Reading
  <2>2. [process[p] EXCEPT !.pc = "selected", !.workflow = w, !.now = now, !.held = TRUE]
          \in ProcessRec
    BY <1>1 DEF ProcessRec, Pc
  <2>3. process' = [process EXCEPT ![p] =
          [process[p] EXCEPT !.pc = "selected", !.workflow = w, !.now = now, !.held = TRUE]]
    BY <2>1
  <2> QED
    BY <1>2, <1>6, <2>2, <2>3 DEF DispatchSelect, Rest
<1>7. ASSUME NEW w \in Workflow, NEW enabled \in BOOLEAN, NEW policy \in Policy,
             SaveBegin(p, w, enabled, policy)
      PROVE  TypeOK' /\ UNCHANGED Rest
  <2>1. PICK now \in 0..MaxClock : process' = [process EXCEPT ![p] =
          [@ EXCEPT !.pc = "saving", !.workflow = w, !.now = now, !.enabled = enabled,
                    !.policy = policy]]
    BY <1>7 DEF SaveBegin, Reading
  <2>2. [process[p] EXCEPT !.pc = "saving", !.workflow = w, !.now = now, !.enabled = enabled,
                           !.policy = policy] \in ProcessRec
    BY <1>1 DEF ProcessRec, Pc
  <2>3. process' = [process EXCEPT ![p] =
          [process[p] EXCEPT !.pc = "saving", !.workflow = w, !.now = now, !.enabled = enabled,
                             !.policy = policy]]
    BY <2>1
  <2> QED
    BY <1>2, <1>7, <2>2, <2>3 DEF SaveBegin, Rest
<1>8. CASE SaveLock(p)
  <2>1. schedule[Of(p)].exists \in BOOLEAN
    BY <1>8, Fields DEF SaveLock, Known, Knows, At, Of, ScheduleRec
  <2>2. [process[p] EXCEPT !.pc = "storing", !.held = schedule[Of(p)].exists] \in ProcessRec
    BY <1>1, <2>1 DEF ProcessRec, Pc
  <2> QED
    BY <1>2, <1>8, <2>2 DEF SaveLock, Rest
<1>9. CASE DispatchDecide(p)
  <2>1. [process[p] EXCEPT !.pc = "decided", !.busy = ActiveRuns(Of(p)) # {}] \in ProcessRec
    BY <1>1 DEF ProcessRec, Pc
  <2> QED
    BY <1>2, <1>9, <2>1 DEF DispatchDecide, Rest
<1>10. CASE Rollback(p)
  BY <1>10, ProcessMoves DEF Rollback, TypeOK, Rest
<1> QED
  BY <1>3, <1>4, <1>5, <1>6, <1>7, <1>8, <1>9, <1>10 DEF Moves

LEMMA SettlesTyped ==
  ASSUME TypeOK, Known, NEW p \in Process, Settles(p)
  PROVE  /\ TypeOK' /\ Leave(p) /\ UNCHANGED <<clock, workflow, version>>
         /\ At(p, "decided") /\ Of(p) \in Workflow
<1>1. Of(p) \in Workflow /\ At(p, "decided") /\ Advance(p)
  BY DEF Settles, DispatchDefer, DispatchSkip, DispatchFail, DispatchStart, Known, Knows, At, Of
<1>2. schedule' \in [Workflow -> ScheduleRec]
  <2>1. PICK w \in Workflow : w = Of(p)
    BY <1>1
  <2>2. \A due \in 1..process[p].now :
          [schedule[w] EXCEPT !.next = TickAfter(due, process[p].now)] \in ScheduleRec
    BY Fields, NextTick DEF ScheduleRec
  <2> QED
    BY <1>1, <2>1, <2>2 DEF Advance, TypeOK
<1>3. process' \in [Process -> ProcessRec]
  BY <1>1, ProcessMoves DEF Advance
<1>4. ASSUME NEW status \in EventStatus, NEW id \in Run \cup {NoRun}, Waiting(p) # {},
             Decided(p, status, id)
      PROVE  event' \in [Workflow -> [Instant -> EventRec]]
  <2>1. [status |-> status, run |-> id] \in EventRec
    BY DEF EventRec
  <2>2. Queued(p) \in [Instant -> EventRec]
    BY <1>1, QueuedRows
  <2>3. [Queued(p) EXCEPT ![Earliest(Waiting(p))] = [status |-> status, run |-> id]]
          \in [Instant -> EventRec]
    BY <2>1, <2>2
  <2> QED
    BY <1>1, <1>4, <2>3 DEF Decided, TypeOK
<1>5. NoRun \in Run \cup {NoRun} /\ {"skipped", "failed", "started"} \subseteq EventStatus
  BY DEF EventStatus
<1>6. CASE DispatchDefer(p)
  <2>1. event' \in [Workflow -> [Instant -> EventRec]]
    BY <1>1, <1>6, QueuedRows DEF DispatchDefer, TypeOK
  <2> QED
    BY <1>1, <1>2, <1>3, <1>6, <2>1 DEF DispatchDefer, Advance, TypeOK
<1>7. CASE DispatchSkip(p) \/ DispatchFail(p)
  <2>1. event' \in [Workflow -> [Instant -> EventRec]]
    BY <1>4, <1>5, <1>7 DEF DispatchSkip, DispatchFail
  <2> QED
    BY <1>1, <1>2, <1>3, <1>7, <2>1 DEF DispatchSkip, DispatchFail, Advance, TypeOK
<1>8. ASSUME NEW r \in Run, DispatchStart(p, r)
      PROVE  TypeOK'
  <2>1. event' \in [Workflow -> [Instant -> EventRec]]
    BY <1>4, <1>5, <1>8 DEF DispatchStart
  <2>2. Earliest(Waiting(p)) \in Instant
    BY <1>1, <1>8, WaitingFirst DEF DispatchStart
  <2>3. NewRun(Of(p), Earliest(Waiting(p))) \in RunRec
    BY <1>1, <2>2 DEF NewRun, RunRec, RunStatus
  <2> QED
    BY <1>1, <1>2, <1>3, <1>8, <2>1, <2>3 DEF DispatchStart, Advance, TypeOK
<1> QED
  BY <1>1, <1>6, <1>7, <1>8 DEF Settles, Advance

\* The row that a publication locked is written.
LEMMA PublishTyped ==
  ASSUME TypeOK, Known, NEW p \in Process, PublishCommit(p)
  PROVE  /\ TypeOK' /\ Leave(p) /\ UNCHANGED <<clock, schedule, event, run>>
         /\ \A w \in Workflow : Startable(w) => Startable(w)'
<1>1. PICK v \in Version : v = process[p].version
  BY DEF PublishCommit, Known, Knows, At
<1>2. [enabled |-> TRUE, published |-> v] \in WorkflowRec
  BY DEF WorkflowRec
<1>3. workflow' \in [Workflow -> WorkflowRec]
      /\ \A w \in Workflow : \/ workflow'[w] = workflow[w]
                             \/ workflow'[w] = [enabled |-> TRUE, published |-> v]
  BY <1>1, <1>2 DEF PublishCommit, TypeOK
<1>4. version' \in [Version -> VersionRec]
  <2>1. \A u \in Version : \A status \in VersionStatus :
          [version[u] EXCEPT !.status = status] \in VersionRec
    BY DEF TypeOK, VersionRec
  <2>2. {"published", "retired"} \subseteq VersionStatus
    BY DEF VersionStatus
  <2>3. \A u \in Version : version[u] \in VersionRec
    BY DEF TypeOK
  <2> QED
    BY <2>1, <2>2, <2>3 DEF PublishCommit, Republished
<1>5. \A w \in Workflow : Startable(w) => Startable(w)'
  BY <1>3, ScheduleAssumption DEF Startable
<1> QED
  BY <1>3, <1>4, <1>5, ProcessMoves DEF PublishCommit, TypeOK

\* What Stop and SaveSchedule write.
LEMMA RewritesTyped ==
  ASSUME Locking, SchedulesExist, NEW p \in Process, Rewrites(p)
  PROVE  /\ TypeOK' /\ Leave(p) /\ UNCHANGED <<clock, version, run>>
         /\ process[p].pc \in {"stopping", "storing"}
         /\ Of(p) \in Workflow /\ ScheduleFree(Of(p), p)
         /\ \A w \in Workflow \ {Of(p)} :
              workflow'[w] = workflow[w] /\ schedule'[w] = schedule[w] /\ event'[w] = event[w]
         /\ \/ UNCHANGED <<workflow, schedule, event>>
            \/ /\ event'[Of(p)] = PendingSkipped(Of(p)) /\ schedule'[Of(p)].exists
               /\ schedule'[Of(p)].enabled => UNCHANGED workflow /\ Startable(Of(p))
               /\ ~schedule'[Of(p)].enabled => schedule'[Of(p)].next = Never
            \/ /\ event'[Of(p)] = PendingSkipped(Of(p)) /\ UNCHANGED schedule
               /\ ~schedule[Of(p)].exists
<1> USE DEF Locking
<1>1. PICK w \in Workflow : w = Of(p)
  BY DEF Rewrites, StopCommit, SaveCommit, Known, Knows, At, Of
<1>2. /\ Leave(p) /\ process[p].pc \in {"stopping", "storing"} /\ ScheduleFree(w, p)
      /\ UNCHANGED <<clock, version, run>>
  BY <1>1 DEF Rewrites, StopCommit, SaveCommit, At
<1>3. process' \in [Process -> ProcessRec] /\ process[p] \in ProcessRec
  BY <1>2, ProcessMoves, Fields
<1>4. workflow[w] \in WorkflowRec /\ schedule[w] \in ScheduleRec
  BY DEF TypeOK
<1>5. CASE StopCommit(p)
  <2>1. workflow' = [workflow EXCEPT ![w].enabled = FALSE]
        /\ event' = [event EXCEPT ![w] = PendingSkipped(w)]
    BY <1>1, <1>5 DEF StopCommit
  <2>2. workflow' \in [Workflow -> WorkflowRec] /\ event' \in [Workflow -> [Instant -> EventRec]]
    BY <1>4, <2>1, SkippedTyped DEF TypeOK, WorkflowRec
  <2>3. /\ \A x \in Workflow \ {w} : workflow'[x] = workflow[x] /\ event'[x] = event[x]
        /\ event'[w] = PendingSkipped(w)
    BY <2>1 DEF TypeOK
  <2>4. CASE schedule[w].exists
    <3>1. schedule' = [schedule EXCEPT ![w] = [schedule[w] EXCEPT !.enabled = FALSE, !.next = Never]]
      BY <1>1, <1>5, <2>4 DEF StopCommit, Stoppable
    <3>2. [schedule[w] EXCEPT !.enabled = FALSE, !.next = Never] \in ScheduleRec
      BY <1>4 DEF ScheduleRec
    <3>3. schedule' \in [Workflow -> ScheduleRec]
          /\ \A x \in Workflow \ {w} : schedule'[x] = schedule[x]
      BY <3>1, <3>2 DEF TypeOK
    <3>4. schedule'[w].exists /\ ~schedule'[w].enabled /\ schedule'[w].next = Never
      BY <1>4, <2>4, <3>1 DEF TypeOK, ScheduleRec
    <3> QED
      BY <1>1, <1>2, <1>3, <2>2, <2>3, <3>3, <3>4 DEF TypeOK
  <2>5. CASE ~schedule[w].exists
    <3>1. UNCHANGED schedule
      BY <1>1, <1>5, <2>5 DEF StopCommit, Stoppable
    <3> QED
      BY <1>1, <1>2, <1>3, <2>2, <2>3, <2>5, <3>1 DEF TypeOK
  <2> QED
    BY <2>4, <2>5
<1>6. CASE SaveCommit(p) /\ ~(process[p].enabled /\ ~Startable(w))
  <2>1. PICK s : /\ s = [exists |-> TRUE, enabled |-> process[p].enabled,
                          policy |-> process[p].policy,
                          next |-> IF process[p].enabled THEN NextAfter(process[p].now)
                                   ELSE Never]
                 /\ schedule' = [schedule EXCEPT ![w] = s]
                 /\ event' = [event EXCEPT ![w] = PendingSkipped(w)]
                 /\ UNCHANGED workflow
    BY <1>1, <1>6 DEF SaveCommit
  <2>2. s \in ScheduleRec
    BY <1>3, <2>1, NextTick DEF ScheduleRec, ProcessRec
  <2>3. /\ s.exists /\ s.enabled => Startable(w)
        /\ ~s.enabled => s.next = Never
    BY <1>6, <2>1
  <2>4. /\ schedule' \in [Workflow -> ScheduleRec] /\ schedule'[w] = s
        /\ \A x \in Workflow \ {w} : schedule'[x] = schedule[x] /\ event'[x] = event[x]
        /\ event' \in [Workflow -> [Instant -> EventRec]] /\ event'[w] = PendingSkipped(w)
    BY <2>1, <2>2, SkippedTyped DEF TypeOK
  <2> QED
    BY <1>1, <1>2, <1>3, <2>1, <2>3, <2>4 DEF TypeOK
<1>7. CASE SaveCommit(p) /\ process[p].enabled /\ ~Startable(w)
  <2>1. UNCHANGED <<workflow, schedule, event>>
    BY <1>1, <1>7 DEF SaveCommit
  <2> QED
    BY <1>1, <1>2, <1>3, <2>1 DEF TypeOK
<1> QED
  BY <1>5, <1>6, <1>7 DEF Rewrites

\* Rows of runs and versions.
LEMMA RunsTyped ==
  ASSUME TypeOK, Runs
  PROVE  /\ TypeOK' /\ UNCHANGED <<clock, workflow, version, schedule, event, process>>
         /\ \A r \in Run : \/ /\ run'[r].tick = run[r].tick
                              /\ run'[r].workflow = run[r].workflow
                              /\ run'[r].status = "absent" => run[r].status = "absent"
                           \/ run[r].status = "absent" /\ run'[r].tick = Never
<1>1. \A r \in Run : run[r] \in RunRec
  BY Fields
<1>2. ASSUME NEW r \in Run, NEW w \in Workflow \cup {NoWorkflow}, run[r].status = "absent",
             run' = [run EXCEPT ![r] = NewRun(w, Never)]
      PROVE  /\ run' \in [Run -> RunRec]
             /\ \A q \in Run : \/ run'[q] = run[q]
                               \/ run[q].status = "absent" /\ run'[q].tick = Never
  <2>1. NewRun(w, Never) \in RunRec /\ NewRun(w, Never).tick = Never
    BY DEF NewRun, RunRec, RunStatus, Never
  <2> QED
    BY <1>2, <2>1 DEF TypeOK
<1>3. ASSUME NEW r \in Run, NEW s \in {"active", "ended"}, run' = [run EXCEPT ![r].status = s]
      PROVE  /\ run' \in [Run -> RunRec]
             /\ \A q \in Run : /\ run'[q].tick = run[q].tick
                               /\ run'[q].workflow = run[q].workflow
                               /\ run'[q].status = "absent" => run[q].status = "absent"
  BY <1>1, <1>3 DEF TypeOK, RunRec, RunStatus
<1>4. ASSUME NEW w \in Workflow, NEW r \in Run, StartRun(w, r)
      PROVE  /\ run' \in [Run -> RunRec]
             /\ \A q \in Run : \/ run'[q] = run[q]
                               \/ run[q].status = "absent" /\ run'[q].tick = Never
  BY <1>2, <1>4 DEF StartRun
<1>5. ASSUME NEW o \in Run, NEW r \in Run, RerunRun(o, r)
      PROVE  /\ run' \in [Run -> RunRec]
             /\ \A q \in Run : \/ run'[q] = run[q]
                               \/ run[q].status = "absent" /\ run'[q].tick = Never
  <2>1. run[o].workflow \in Workflow \cup {NoWorkflow}
    BY <1>1 DEF RunRec
  <2> QED
    BY <1>2, <1>5, <2>1 DEF RerunRun
<1>6. ASSUME NEW r \in Run, EndRun(r) \/ ReopenRun(r)
      PROVE  \E s \in {"active", "ended"} : run' = [run EXCEPT ![r].status = s]
  BY <1>6 DEF EndRun, ReopenRun
<1>7. UNCHANGED <<clock, workflow, version, schedule, event, process>>
  BY DEF Runs, StartRun, RerunRun, EndRun, ReopenRun
<1>8. run' \in [Run -> RunRec] => TypeOK'
  BY <1>7 DEF TypeOK
<1>9. CASE \E r \in Run : EndRun(r) \/ ReopenRun(r)
  <2>1. PICK r \in Run, s \in {"active", "ended"} : run' = [run EXCEPT ![r].status = s]
    BY <1>6, <1>9
  <2> QED
    BY <1>3, <1>7, <1>8, <2>1
<1>10. CASE \E w \in Workflow, r \in Run : StartRun(w, r)
  BY <1>4, <1>7, <1>8, <1>10
<1>11. CASE \E o, r \in Run : RerunRun(o, r)
  BY <1>5, <1>7, <1>8, <1>11
<1> QED
  BY <1>9, <1>10, <1>11 DEF Runs

LEMMA OthersTyped ==
  ASSUME TypeOK
  PROVE  /\ \A w \in Workflow, v \in Version : CreateDraft(w, v) =>
              TypeOK' /\ UNCHANGED <<workflow, schedule, event, run, process>>
         /\ Tick => TypeOK' /\ UNCHANGED <<workflow, schedule, event, run, process>>
<1>1. ASSUME NEW w \in Workflow, NEW v \in Version, CreateDraft(w, v)
      PROVE  TypeOK' /\ UNCHANGED <<workflow, schedule, event, run, process>>
  <2>1. [status |-> "draft", workflow |-> w] \in VersionRec
    BY DEF VersionRec, VersionStatus
  <2> QED
    BY <1>1, <2>1 DEF CreateDraft, TypeOK
<1>2. ASSUME Tick
      PROVE  TypeOK' /\ UNCHANGED <<workflow, schedule, event, run, process>>
  BY <1>2, ScheduleAssumption DEF Tick, TypeOK
<1> QED
  BY <1>1, <1>2

-----------------------------------------------------------------------------
(* Locks, and what their holders know.                                     *)

\* The transactions go on while no schedule changes its enabled bit.
LEMMA KnownMoves ==
  ASSUME Locking, NEW p \in Process, Knows(p)',
         \A q \in Process \ {p} : process'[q] = process[q],
         \A w \in Workflow : schedule'[w].enabled = schedule[w].enabled,
         process'[p].held => ScheduleFree(Of(p)', p)
  PROVE  Known' /\ Exclusive'
<1>1. ASSUME NEW q \in Process, q # p
      PROVE  Knows(q)'
  BY <1>1 DEF Locking, Known, Knows
<1>2. ASSUME NEW x \in Process, NEW y \in Process, x # y, process'[x].held, process'[y].held
      PROVE  process'[x].workflow # process'[y].workflow
  BY <1>2 DEF Locking, Exclusive, ScheduleFree, Of
<1> QED
  BY <1>1, <1>2 DEF Known, Exclusive, Of

\* A process that leaves its transaction holds and knows nothing.
LEMMA Left ==
  ASSUME TypeOK, NEW p \in Process, Leave(p)
  PROVE  /\ process'[p] = IdleProcess /\ process'[p].pc = "idle" /\ ~process'[p].held
         /\ Knows(p)' /\ \A q \in Process \ {p} : process'[q] = process[q]
BY DEF Leave, TypeOK, IdleProcess, Knows

LEMMA MovesLocking ==
  ASSUME Locking, NEW p \in Process, Moves(p)
  PROVE  Locking'
<1> USE DEF Locking
<1>1. TypeOK' /\ UNCHANGED Rest /\ process[p] \in ProcessRec /\ Knows(p)
  BY MovesTyped, Fields DEF Known
<1>2. ASSUME NEW s, process' = [process EXCEPT ![p] = s]
      PROVE  process'[p] = s /\ \A q \in Process \ {p} : process'[q] = process[q]
  BY <1>2 DEF TypeOK
<1>3. ASSUME NEW s, process' = [process EXCEPT ![p] = s], Knows(p)',
             s.held => ScheduleFree(s.workflow, p)
      PROVE  Known' /\ Exclusive'
  BY <1>1, <1>2, <1>3, KnownMoves DEF Rest, Of
<1>4. ASSUME NEW v \in Version, PublishLock(p, v)
      PROVE  Known' /\ Exclusive'
  <2>1. PICK s : /\ s = [process[p] EXCEPT !.pc = "locked", !.version = v,
                                           !.workflow = version[v].workflow]
                 /\ process' = [process EXCEPT ![p] = s]
    BY <1>4 DEF PublishLock
  <2>2. ~process[p].held
    BY <1>1, <1>4 DEF PublishLock, At, Knows
  <2>3. s.pc = "locked" /\ s.version = v /\ ~s.held
    BY <1>1, <2>1, <2>2 DEF ProcessRec
  <2>4. Knows(p)'
    BY <1>2, <2>1, <2>3 DEF Knows
  <2> QED
    BY <1>3, <2>1, <2>3, <2>4
<1>5. ASSUME PublishSnapshot(p)
      PROVE  Known' /\ Exclusive'
  <2>1. PICK s : /\ s = [process[p] EXCEPT !.pc = "snapshot", !.old = Published(Of(p))]
                 /\ process' = [process EXCEPT ![p] = s]
    BY <1>5 DEF PublishSnapshot
  <2>2. ~process[p].held /\ process[p].version \in Version
    BY <1>1, <1>5 DEF PublishSnapshot, At, Knows
  <2>3. s.pc = "snapshot" /\ s.version \in Version /\ ~s.held
    BY <1>1, <2>1, <2>2 DEF ProcessRec
  <2>4. Knows(p)'
    BY <1>2, <2>1, <2>3 DEF Knows
  <2> QED
    BY <1>3, <2>1, <2>3, <2>4
<1>6. ASSUME NEW w \in Workflow, StopLock(p, w)
      PROVE  Known' /\ Exclusive'
  <2>1. PICK s : /\ s = [process[p] EXCEPT !.pc = "stopping", !.workflow = w,
                                           !.held = schedule[w].exists]
                 /\ process' = [process EXCEPT ![p] = s]
    BY <1>6 DEF StopLock
  <2>2. s.pc = "stopping" /\ s.workflow = w /\ ScheduleFree(w, p)
    BY <1>1, <1>6, <2>1 DEF StopLock, ProcessRec
  <2>3. Knows(p)'
    BY <1>2, <2>1, <2>2 DEF Knows
  <2> QED
    BY <1>3, <2>1, <2>2, <2>3
<1>7. ASSUME NEW w \in Workflow, DispatchSelect(p, w)
      PROVE  Known' /\ Exclusive'
  <2>1. PICK now : process' = [process EXCEPT ![p] =
          [@ EXCEPT !.pc = "selected", !.workflow = w, !.now = now, !.held = TRUE]]
    BY <1>7 DEF DispatchSelect
  <2>2. PICK s : /\ s = [process[p] EXCEPT !.pc = "selected", !.workflow = w, !.now = now,
                                           !.held = TRUE]
                 /\ process' = [process EXCEPT ![p] = s]
    BY <2>1
  <2>3. s.pc = "selected" /\ s.workflow = w /\ s.held
    BY <1>1, <2>2 DEF ProcessRec
  <2>4. ScheduleFree(w, p) /\ schedule[w].enabled
    BY <1>7 DEF DispatchSelect, Selectable
  <2>5. Knows(p)'
    BY <1>1, <1>2, <2>2, <2>3, <2>4 DEF Knows, Rest
  <2> QED
    BY <1>3, <2>2, <2>3, <2>4, <2>5
<1>8. ASSUME NEW w \in Workflow, NEW enabled \in BOOLEAN, NEW policy \in Policy,
             SaveBegin(p, w, enabled, policy)
      PROVE  Known' /\ Exclusive'
  <2>1. PICK now : process' = [process EXCEPT ![p] =
          [@ EXCEPT !.pc = "saving", !.workflow = w, !.now = now, !.enabled = enabled,
                    !.policy = policy]]
    BY <1>8 DEF SaveBegin
  <2>2. PICK s : /\ s = [process[p] EXCEPT !.pc = "saving", !.workflow = w, !.now = now,
                                           !.enabled = enabled, !.policy = policy]
                 /\ process' = [process EXCEPT ![p] = s]
    BY <2>1
  <2>3. ~process[p].held
    BY <1>1, <1>8 DEF SaveBegin, At, Knows
  <2>4. s.pc = "saving" /\ s.workflow = w /\ ~s.held
    BY <1>1, <2>2, <2>3 DEF ProcessRec
  <2>5. Knows(p)'
    BY <1>2, <2>2, <2>4 DEF Knows
  <2> QED
    BY <1>3, <2>2, <2>4, <2>5
<1>9. ASSUME SaveLock(p)
      PROVE  Known' /\ Exclusive'
  <2>1. PICK s : /\ s = [process[p] EXCEPT !.pc = "storing", !.held = schedule[Of(p)].exists]
                 /\ process' = [process EXCEPT ![p] = s]
    BY <1>9 DEF SaveLock
  <2>2. s.pc = "storing" /\ s.workflow = Of(p) /\ Of(p) \in Workflow /\ ScheduleFree(Of(p), p)
    BY <1>1, <1>9, <2>1 DEF SaveLock, ProcessRec, At, Of, Knows
  <2>3. Knows(p)'
    BY <1>2, <2>1, <2>2 DEF Knows
  <2> QED
    BY <1>3, <2>1, <2>2, <2>3
<1>10. ASSUME DispatchDecide(p)
       PROVE  Known' /\ Exclusive'
  <2>1. PICK s : /\ s = [process[p] EXCEPT !.pc = "decided", !.busy = ActiveRuns(Of(p)) # {}]
                 /\ process' = [process EXCEPT ![p] = s]
    BY <1>10 DEF DispatchDecide
  <2>2. /\ process[p].held /\ Of(p) \in Workflow /\ schedule[Of(p)].enabled
    BY <1>1, <1>10 DEF DispatchDecide, At, Of, Knows
  <2>3. s.pc = "decided" /\ s.workflow = Of(p) /\ s.held
    BY <1>1, <2>1, <2>2 DEF ProcessRec, Of
  <2>4. ScheduleFree(Of(p), p)
    BY <2>2 DEF Exclusive, ScheduleFree
  <2>5. Knows(p)'
    BY <1>1, <1>2, <2>1, <2>2, <2>3 DEF Knows, Rest
  <2> QED
    BY <1>3, <2>1, <2>3, <2>4, <2>5
<1>11. ASSUME Rollback(p)
       PROVE  Known' /\ Exclusive'
  BY <1>1, <1>11, Left, KnownMoves DEF Rollback, Rest
<1> QED
  BY <1>1, <1>4, <1>5, <1>6, <1>7, <1>8, <1>9, <1>10, <1>11 DEF Moves

\* A dispatch moves the schedule on and does not touch its other columns.
LEMMA SettlesSchedule ==
  ASSUME Locking, NEW p \in Process, Settles(p)
  PROVE  /\ \A w \in Workflow \ {Of(p)} : schedule'[w] = schedule[w] /\ event'[w] = event[w]
         /\ \A w \in Workflow : /\ schedule'[w].enabled = schedule[w].enabled
                                /\ schedule'[w].exists = schedule[w].exists
         /\ schedule'[Of(p)].next # schedule[Of(p)].next
              => schedule'[Of(p)].next > process[p].now
         /\ schedule[Of(p)].enabled
<1>1. /\ Of(p) \in Workflow /\ Advance(p) /\ TypeOK /\ schedule[Of(p)].enabled
      /\ process[p].now \in 0..MaxClock
  BY SettlesTyped, Fields
     DEF Settles, DispatchDefer, DispatchSkip, DispatchFail, DispatchStart, Locking, Known, Knows,
         At, Of
<1>2. PICK w \in Workflow : w = Of(p)
  BY <1>1
<1>3. \A x \in Workflow : x # w => event'[x] = event[x]
  BY <1>2, <1>1 DEF Settles, DispatchDefer, DispatchSkip, DispatchFail, DispatchStart, Decided, TypeOK
<1>4. CASE schedule[w].next \in 1..process[p].now
  <2>1. PICK next : /\ next = TickAfter(schedule[w].next, process[p].now)
                    /\ schedule' = [schedule EXCEPT ![w].next = next]
    BY <1>1, <1>2, <1>4 DEF Advance
  <2>2. next > process[p].now
    BY <1>1, <1>4, <2>1, NextTick
  <2>3. schedule[w] \in ScheduleRec /\ schedule \in [Workflow -> ScheduleRec]
    BY <1>1 DEF TypeOK
  <2>4. schedule'[w].next = next /\ schedule'[w].enabled = schedule[w].enabled
        /\ schedule'[w].exists = schedule[w].exists
    BY <2>1, <2>3 DEF ScheduleRec
  <2>5. \A x \in Workflow : x # w => schedule'[x] = schedule[x]
    BY <2>1, <2>3
  <2> QED
    BY <1>1, <1>2, <1>3, <2>2, <2>4, <2>5
<1>5. CASE schedule[w].next \notin 1..process[p].now
  BY <1>1, <1>2, <1>3, <1>5 DEF Advance
<1> QED
  BY <1>4, <1>5

LEMMA StepLocking ==
  ASSUME Locking, SchedulesExist, [Next]_vars
  PROVE  Locking'
<1>1. ASSUME NEW p \in Process, PublishCommit(p)
      PROVE  Locking'
  BY <1>1, PublishTyped, Left, KnownMoves DEF Locking
<1>2. ASSUME NEW p \in Process, Settles(p)
      PROVE  Locking'
  BY <1>2, SettlesTyped, SettlesSchedule, Left, KnownMoves DEF Locking
<1>3. ASSUME NEW p \in Process, Rewrites(p)
      PROVE  Locking'
  <2>1. /\ TypeOK' /\ Leave(p) /\ ScheduleFree(Of(p), p) /\ TypeOK
        /\ \A w \in Workflow \ {Of(p)} : schedule'[w] = schedule[w]
    BY <1>3, RewritesTyped DEF Locking
  <2>2. /\ \A q \in Process \ {p} : process'[q] = process[q]
        /\ Knows(p)' /\ ~process'[p].held
    BY <2>1, Left
  <2>3. ASSUME NEW q \in Process, q # p
        PROVE  Knows(q)'
    BY <2>1, <2>2, <2>3 DEF Locking, Known, Knows, ScheduleFree, Of
  <2>4. Exclusive'
    BY <2>2 DEF Locking, Exclusive, Of
  <2> QED
    BY <2>1, <2>2, <2>3, <2>4 DEF Locking, Known
<1>4. CASE Runs
  BY <1>4, RunsTyped DEF Locking, Known, Knows, Exclusive, Of
<1>5. CASE Tick \/ \E w \in Workflow, v \in Version : CreateDraft(w, v)
  BY <1>5, OthersTyped DEF Locking, Known, Knows, Exclusive, Of
<1>6. CASE UNCHANGED vars
  BY <1>6 DEF vars, Locking, TypeOK, Known, Knows, Exclusive, Of
<1> QED
  BY <1>1, <1>2, <1>3, <1>4, <1>5, <1>6, NextKinds, MovesLocking

-----------------------------------------------------------------------------
(* Schedules and their workflows.                                          *)

LEMMA StepPlanning ==
  ASSUME SchedulerState, [Next]_vars
  PROVE  Planning'
<1> USE DEF SchedulerState, Planning
<1>1. CASE UNCHANGED <<workflow, schedule, event>>
  BY <1>1 DEF EnabledScheduleStartable, DisabledScheduleEmpty, SchedulesExist, Startable, Pending
<1>2. ASSUME NEW p \in Process, Moves(p)
      PROVE  UNCHANGED <<workflow, schedule, event>>
  BY <1>2, MovesTyped DEF Locking, Rest
<1>3. ASSUME NEW p \in Process, PublishCommit(p)
      PROVE  Planning'
  BY <1>3, PublishTyped
     DEF Locking, EnabledScheduleStartable, DisabledScheduleEmpty, SchedulesExist, Pending
<1>4. ASSUME NEW p \in Process, Settles(p)
      PROVE  Planning'
  <2>1. /\ \A w \in Workflow : /\ schedule'[w].enabled = schedule[w].enabled
                               /\ schedule'[w].exists = schedule[w].exists
        /\ \A w \in Workflow : ~schedule[w].enabled =>
              schedule'[w] = schedule[w] /\ event'[w] = event[w]
        /\ UNCHANGED workflow
    BY <1>4, SettlesTyped, SettlesSchedule DEF Locking
  <2> QED
    BY <2>1 DEF EnabledScheduleStartable, DisabledScheduleEmpty, SchedulesExist, Startable, Pending
<1>5. ASSUME NEW p \in Process, Rewrites(p)
      PROVE  Planning'
  <2>1. PICK w \in Workflow : w = Of(p)
    BY <1>5, RewritesTyped
  <2>2. \A x \in Workflow : x # w =>
          workflow'[x] = workflow[x] /\ schedule'[x] = schedule[x] /\ event'[x] = event[x]
    BY <1>5, <2>1, RewritesTyped
  <2>3. \/ UNCHANGED <<workflow, schedule, event>>
        \/ /\ event'[w] = PendingSkipped(w) /\ schedule'[w].exists
           /\ schedule'[w].enabled => UNCHANGED workflow /\ Startable(w)
           /\ ~schedule'[w].enabled => schedule'[w].next = Never
        \/ /\ event'[w] = PendingSkipped(w) /\ UNCHANGED schedule
           /\ ~schedule[w].exists
    BY <1>5, <2>1, RewritesTyped
  <2>4. event'[w] = PendingSkipped(w) => Pending(w)' = {}
    <3>1. \A i \in Instant : event[w][i] \in EventRec
      BY Fields DEF Locking
    <3>2. \A i \in Instant : PendingSkipped(w)[i].status # "pending"
      BY <3>1 DEF PendingSkipped, EventRec
    <3> QED
      BY <3>2 DEF Pending
  <2>5. \A x \in Workflow : x # w => /\ Startable(x)' = Startable(x)
                                   /\ Pending(x)' = Pending(x)
    BY <2>2 DEF Startable, Pending
  <2>6. CASE event'[w] = PendingSkipped(w)
    <3>1. /\ schedule'[w].enabled => Startable(w)' /\ schedule'[w].exists
          /\ ~schedule'[w].enabled => Pending(w)' = {} /\ schedule'[w].next = Never
      BY <2>3, <2>4, <2>6 DEF EnabledScheduleStartable, DisabledScheduleEmpty, SchedulesExist,
           Startable
    <3> QED
      BY <2>2, <2>5, <3>1 DEF EnabledScheduleStartable, DisabledScheduleEmpty, SchedulesExist
  <2> QED
    BY <1>1, <2>3, <2>6
<1>6. Runs \/ Tick \/ (\E w \in Workflow, v \in Version : CreateDraft(w, v))
        => UNCHANGED <<workflow, schedule, event>>
  BY RunsTyped, OthersTyped DEF Locking
<1> QED
  BY <1>1, <1>2, <1>3, <1>4, <1>5, <1>6, NextKinds DEF vars

-----------------------------------------------------------------------------
(* Ticks and their runs.                                                   *)

\* No event gets or loses its run, and no run its tick.
LEMMA TicksKept ==
  ASSUME Ticking,
         \A w \in Workflow, i \in Instant :
           \/ event'[w][i] = event[w][i]
           \/ event[w][i].status # "started" /\ event'[w][i].status # "started",
         \A r \in Run : \/ /\ run'[r].tick = run[r].tick
                           /\ run'[r].workflow = run[r].workflow
                           /\ run'[r].status = "absent" => run[r].status = "absent"
                        \/ run[r].status = "absent" /\ run'[r].tick = Never
  PROVE  Ticking'
<1>1. Never \notin Instant
  BY NextTick
<1> QED
  BY <1>1 DEF Ticking, TickStartsOnce, NoTickYet

\* What a dispatch does to the events of its schedule.
LEMMA SettledEvents ==
  ASSUME TypeOK, NEW p \in Process, Of(p) \in Workflow, Waiting(p) # {},
         NEW status, NEW id, Decided(p, status, id)
  PROVE  \E i \in Instant :
           /\ i = Earliest(Waiting(p)) /\ event[Of(p)][i].status \in {"none", "pending"}
           /\ event'[Of(p)][i].status = status /\ event'[Of(p)][i].run = id
           /\ \A w \in Workflow, j \in Instant : w # Of(p) \/ j # i =>
                \/ event'[w][j] = event[w][j]
                \/ event[w][j].status = "none" /\ event'[w][j].status = "pending"
<1>1. PICK i \in Instant : /\ i = Earliest(Waiting(p))
                         /\ event[Of(p)][i].status \in {"none", "pending"}
  BY WaitingFirst
<1>2. PICK w \in Workflow : w = Of(p)
  OBVIOUS
<1>3. event' = [event EXCEPT ![w] = [Queued(p) EXCEPT ![i] = [status |-> status, run |-> id]]]
  BY <1>1, <1>2 DEF Decided
<1>4. Queued(p) \in [Instant -> EventRec] /\ event \in [Workflow -> [Instant -> EventRec]]
  BY QueuedRows DEF TypeOK
<1>5. event'[w][i] = [status |-> status, run |-> id]
      /\ \A j \in Instant : j # i => event'[w][j] = Queued(p)[j]
  BY <1>3, <1>4
<1>6. \A x \in Workflow : x # w => event'[x] = event[x]
  BY <1>3, <1>4
<1>7. \A j \in Instant : j # i =>
        \/ event'[w][j] = event[w][j]
        \/ event[w][j].status = "none" /\ event'[w][j].status = "pending"
  BY <1>2, <1>5, QueuedRows
<1> QED
  BY <1>1, <1>2, <1>5, <1>6, <1>7

LEMMA StepTicking ==
  ASSUME SchedulerState, [Next]_vars
  PROVE  Ticking'
<1> USE DEF SchedulerState, Locking
<1>1. CASE UNCHANGED <<event, run>>
  BY <1>1, TicksKept
<1>2. ASSUME NEW p \in Process, Moves(p) \/ PublishCommit(p)
      PROVE  UNCHANGED <<event, run>>
  BY <1>2, MovesTyped, PublishTyped DEF Rest
<1>3. ASSUME NEW p \in Process, Rewrites(p)
      PROVE  Ticking'
  <2>1. PICK w \in Workflow : w = Of(p)
    BY <1>3, RewritesTyped DEF Planning
  <2>2. /\ UNCHANGED run /\ event'[w] \in {event[w], PendingSkipped(w)}
        /\ \A x \in Workflow : x # w => event'[x] = event[x]
    BY <1>3, <2>1, RewritesTyped DEF Planning
  <2>3. \A i \in Instant : event[w][i] \in EventRec
    BY Fields
  <2>4. \A i \in Instant : \/ PendingSkipped(w)[i] = event[w][i]
                           \/ /\ event[w][i].status # "started"
                              /\ PendingSkipped(w)[i].status # "started"
    BY <2>3 DEF PendingSkipped, EventRec
  <2> QED
    BY <2>2, <2>4, TicksKept
<1>4. ASSUME NEW p \in Process, Settles(p)
      PROVE  Ticking'
  <2>1. Of(p) \in Workflow
    BY <1>4, SettlesTyped
  <2>2. CASE DispatchDefer(p)
    <3>1. PICK w \in Workflow : w = Of(p)
      BY <2>1
    <3>2. /\ UNCHANGED run /\ event'[w] = Queued(p)
          /\ \A x \in Workflow : x # w => event'[x] = event[x]
      BY <2>2, <3>1 DEF DispatchDefer, TypeOK
    <3>3. \A i \in Instant : \/ event'[w][i] = event[w][i]
                             \/ /\ event[w][i].status # "started"
                                /\ event'[w][i].status # "started"
      BY <3>1, <3>2, QueuedRows
    <3> QED
      BY <3>2, <3>3, TicksKept
  <2>3. CASE DispatchSkip(p) \/ DispatchFail(p)
    <3>1. PICK status \in {"skipped", "failed"} : Decided(p, status, NoRun)
      BY <2>3 DEF DispatchSkip, DispatchFail
    <3>2. Waiting(p) # {} /\ UNCHANGED run
      BY <2>3 DEF DispatchSkip, DispatchFail
    <3>3. \A w \in Workflow, i \in Instant :
            \/ event'[w][i] = event[w][i]
            \/ event[w][i].status # "started" /\ event'[w][i].status # "started"
      BY <2>1, <3>1, <3>2, SettledEvents
    <3> QED
      BY <3>2, <3>3, TicksKept
  <2>4. ASSUME NEW r \in Run, DispatchStart(p, r)
        PROVE  Ticking'
    <3>1. Waiting(p) # {} /\ run[r].status = "absent" /\ Decided(p, "started", r)
          /\ run' = [run EXCEPT ![r] = NewRun(Of(p), Earliest(Waiting(p)))]
      BY <2>4 DEF DispatchStart
    <3>2. PICK i \in Instant :
            /\ i = Earliest(Waiting(p)) /\ event[Of(p)][i].status \in {"none", "pending"}
            /\ event'[Of(p)][i].status = "started" /\ event'[Of(p)][i].run = r
            /\ \A w \in Workflow, j \in Instant : w # Of(p) \/ j # i =>
                 \/ event'[w][j] = event[w][j]
                 \/ event[w][j].status = "none" /\ event'[w][j].status = "pending"
      BY <2>1, <3>1, SettledEvents
    <3>3. PICK x \in Workflow : x = Of(p)
      BY <2>1
    <3>4. /\ run'[r].workflow = x /\ run'[r].tick = i /\ run'[r].status = "active"
          /\ \A q \in Run : q # r => run'[q] = run[q]
      BY <3>1, <3>2, <3>3 DEF NewRun, TypeOK
    <3>5. run[r].tick = Never /\ Never \notin Instant
      BY <3>1, NextTick DEF Ticking, NoTickYet
    <3>6. \A w \in Workflow, j \in Instant :
            ~(event[w][j].status = "started" /\ event[w][j].run = r)
      BY <3>5 DEF Ticking, TickStartsOnce
    <3>7. ASSUME NEW w \in Workflow, NEW j \in Instant, NEW q \in Run
          PROVE  run'[q].workflow = w /\ run'[q].tick = j
                   <=> event'[w][j].status = "started" /\ event'[w][j].run = q
      <4>1. run[q].workflow = w /\ run[q].tick = j
              <=> event[w][j].status = "started" /\ event[w][j].run = q
        BY DEF Ticking, TickStartsOnce
      <4>2. CASE w = x /\ j = i
        BY <3>2, <3>3, <3>4, <4>1, <4>2
      <4>3. CASE ~(w = x /\ j = i)
        BY <3>2, <3>3, <3>4, <3>6, <4>1, <4>3
      <4> QED
        BY <4>2, <4>3
    <3>8. NoTickYet'
      BY <3>4 DEF Ticking, NoTickYet
    <3> QED
      BY <3>7, <3>8 DEF Ticking, TickStartsOnce
  <2> QED
    BY <1>4, <2>2, <2>3, <2>4 DEF Settles
<1>5. CASE Runs
  BY <1>5, RunsTyped, TicksKept
<1>6. Tick \/ (\E w \in Workflow, v \in Version : CreateDraft(w, v)) => UNCHANGED <<event, run>>
  BY OthersTyped
<1> QED
  BY <1>1, <1>2, <1>3, <1>4, <1>5, <1>6, NextKinds DEF vars

-----------------------------------------------------------------------------
(* Theorems.                                                               *)

LEMMA InitScheduler == Init => SchedulerState
<1> SUFFICES ASSUME Init
             PROVE  SchedulerState
  OBVIOUS
<1>1. IdleProcess \in ProcessRec
  BY ScheduleAssumption DEF IdleProcess, ProcessRec, Pc, Policy
<1>2. TypeOK
  BY <1>1, ScheduleAssumption DEF Init, TypeOK, WorkflowRec, VersionRec, VersionStatus, ScheduleRec,
       Policy, EventRec, EventStatus, RunRec, RunStatus, Never
<1>3. Known /\ Exclusive
  BY DEF Init, Known, Knows, Exclusive, IdleProcess
<1>4. Planning
  BY DEF Init, Planning, EnabledScheduleStartable, DisabledScheduleEmpty, SchedulesExist, Pending
<1>5. Ticking
  BY NextTick DEF Init, Ticking, TickStartsOnce, NoTickYet
<1> QED
  BY <1>2, <1>3, <1>4, <1>5 DEF SchedulerState, Locking

LEMMA SchedulerInductive == Spec => []SchedulerState
<1>1. SchedulerState /\ [Next]_vars => SchedulerState'
  BY StepLocking, StepPlanning, StepTicking DEF SchedulerState, Planning
<1> QED
  BY <1>1, InitScheduler, PTL DEF Spec

\* The rows and the transactions of the control plane are of their types.
THEOREM ScheduleTypes == Spec => []TypeOK
BY SchedulerInductive, PTL DEF SchedulerState, Locking

\* However many schedulers poll, and whatever is saved, stopped or rolled back between two
\* of their statements, a tick that started has one run and no other run is of that tick.
THEOREM TicksStartOnce == Spec => []TickStartsOnce
BY SchedulerInductive, PTL DEF SchedulerState, Ticking

\* No order of Stop, SaveSchedule and PublishVersion leaves a schedule enabled whose
\* workflow could not start a run.
THEOREM EnabledMeansStartable == Spec => []EnabledScheduleStartable
BY SchedulerInductive, PTL DEF SchedulerState, Planning

\* A dispatch cannot add an event to a schedule that is being disabled: it holds the
\* schedule's lock from its selection to its commit.
THEOREM DisabledMeansEmpty == Spec => []DisabledScheduleEmpty
BY SchedulerInductive, PTL DEF SchedulerState, Planning

\* A downtime of any length is caught up by one tick.
THEOREM NoBacklogEver == Spec => NoBacklog
<1>1. ASSUME SchedulerState, [Next]_vars, NEW p \in Process, NEW w \in Workflow,
             At(p, "decided"), Of(p) = w, schedule'[w].next # schedule[w].next
      PROVE  schedule'[w].next > process[p].now
  <2> USE DEF SchedulerState, Locking, Planning
  <2>1. process[p].held
    BY <1>1 DEF Known, Knows, At
  <2>2. ASSUME NEW q \in Process, Settles(q)
        PROVE  schedule'[w].next > process[p].now
    <3>1. At(q, "decided") /\ process[q].held
      BY <1>1, <2>2, SettlesTyped DEF Known, Knows, At
    <3>2. Of(q) = w
      BY <1>1, <2>2, SettlesSchedule
    <3>3. q = p
      BY <1>1, <2>1, <3>1, <3>2 DEF Exclusive
    <3> QED
      BY <1>1, <2>2, <3>2, <3>3, SettlesSchedule
  <2>3. ASSUME NEW q \in Process, Rewrites(q)
        PROVE  FALSE
    <3>1. Of(q) = w /\ ScheduleFree(w, q) /\ process[q].pc \in {"stopping", "storing"}
      BY <1>1, <2>3, RewritesTyped
    <3> QED
      BY <1>1, <2>1, <3>1 DEF ScheduleFree, At
  <2>4. \A q \in Process : ~Moves(q) /\ ~PublishCommit(q)
    BY <1>1, MovesTyped, PublishTyped DEF Rest
  <2>5. ~Runs /\ ~Tick /\ ~UNCHANGED vars
        /\ \A x \in Workflow, v \in Version : ~CreateDraft(x, v)
    BY <1>1, RunsTyped, OthersTyped DEF vars
  <2> QED
    BY <1>1, <2>2, <2>3, <2>4, <2>5, NextKinds
<1>2. SchedulerState /\ [Next]_vars =>
        \A p \in Process, w \in Workflow :
          At(p, "decided") /\ Of(p) = w /\ schedule'[w].next # schedule[w].next
            => schedule'[w].next > process[p].now
  BY <1>1
<1> QED
  BY <1>2, SchedulerInductive, PTL DEF Spec, NoBacklog

\* With the queue policy nothing but the operator's own Stop or SaveSchedule drops a tick.
THEOREM QueuedTicksKept == Spec => QueuedTickKept
<1>1. ASSUME SchedulerState, [Next]_vars, NEW w \in Workflow, NEW i \in Instant,
             event[w][i].status # "skipped", event'[w][i].status = "skipped"
      PROVE  \/ schedule[w].policy = "skip"
             \/ \E p \in Process : /\ process[p].pc \in {"stopping", "storing"} /\ Of(p) = w
                                    /\ At(p, "idle")'
  <2> USE DEF SchedulerState, Locking, Planning
  <2>1. ASSUME NEW p \in Process, Settles(p)
        PROVE  schedule[w].policy = "skip"
    <3>1. Of(p) = w /\ TypeOK
      BY <1>1, <2>1, SettlesSchedule
    <3>2. ~DispatchDefer(p)
      <4>1. DispatchDefer(p) => event'[w] = Queued(p)
        BY <1>1, <3>1 DEF DispatchDefer, TypeOK
      <4>2. \/ Queued(p)[i] = event[w][i]
            \/ Queued(p)[i].status = "pending"
        BY <1>1, <3>1, QueuedRows
      <4> QED
        BY <1>1, <4>1, <4>2
    <3>3. \A status, id : Waiting(p) # {} /\ Decided(p, status, id) => status = "skipped"
      BY <1>1, <3>1, SettledEvents
    <3>4. DispatchSkip(p)
      BY <2>1, <3>2, <3>3 DEF Settles, DispatchFail, DispatchStart
    <3> QED
      BY <1>1, <3>1, <3>4, Fields DEF DispatchSkip, Queues, Policy
  <2>2. ASSUME NEW p \in Process, Rewrites(p)
        PROVE  process[p].pc \in {"stopping", "storing"} /\ Of(p) = w /\ At(p, "idle")'
    BY <1>1, <2>2, RewritesTyped, Left DEF At
  <2>3. \A p \in Process : ~Moves(p) /\ ~PublishCommit(p)
    BY <1>1, MovesTyped, PublishTyped DEF Rest
  <2>4. ~Runs /\ ~Tick /\ ~UNCHANGED vars
        /\ \A x \in Workflow, v \in Version : ~CreateDraft(x, v)
    BY <1>1, RunsTyped, OthersTyped DEF vars
  <2> QED
    BY <1>1, <2>1, <2>2, <2>3, <2>4, NextKinds
<1>2. SchedulerState /\ [Next]_vars =>
        \A w \in Workflow, i \in Instant :
          event[w][i].status # "skipped" /\ event'[w][i].status = "skipped"
            => \/ schedule[w].policy = "skip"
               \/ \E p \in Process :
                    process[p].pc \in {"stopping", "storing"} /\ Of(p) = w /\ At(p, "idle")'
  BY <1>1
<1> QED
  BY <1>2, SchedulerInductive, PTL DEF Spec, QueuedTickKept
=============================================================================
