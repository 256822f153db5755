-------------------------- MODULE WorkflowSchedule --------------------------
(***************************************************************************)
(* The control plane of scrapio's workflows: drafts are published, a       *)
(* workflow is stopped, runs are started by hand, and cron schedules are   *)
(* edited and dispatched (internal/repo/workflow_repo), by the goroutines  *)
(* of several processes that share one PostgreSQL database.                *)
(*                                                                         *)
(* Transactions run at READ COMMITTED.  What one of them writes becomes    *)
(* visible in its commit, so a transaction is one action for each point at *)
(* which it locks a row or reads what it decides on, and one for its       *)
(* commit.  A row lock is held by the process whose pc says so.            *)
(*                                                                         *)
(* The cron expression matches every instant of the clock.                 *)
(***************************************************************************)
EXTENDS Naturals, FiniteSets

CONSTANTS
  Workflow,    \* ids of workflows rows
  Version,     \* ids of workflow_versions rows
  Run,         \* ids of workflow_runs rows
  Process,     \* goroutines: HTTP handlers and the WorkflowScheduler of each process
  NoWorkflow, NoVersion, NoRun,
  MaxClock,    \* bound: the last instant of the clock
  Skew,        \* how far a process's reading of the clock may be behind when used
  MayReopen,   \* whether RetryTask reopens ended runs
  MayFail      \* whether a transaction may be rolled back

ASSUME ScheduleAssumption ==
  /\ NoWorkflow \notin Workflow /\ NoVersion \notin Version /\ NoRun \notin Run
  /\ MaxClock \in Nat /\ Skew \in Nat
  /\ MayReopen \in BOOLEAN /\ MayFail \in BOOLEAN

VARIABLES
  clock,     \* the time of day
  workflow,  \* workflows
  version,   \* workflow_versions
  schedule,  \* workflow_schedules
  event,     \* workflow_schedule_events: event[w][i] is the row of scheduled_at = i
  run,       \* workflow_runs; tick is the event a cron run was created for
  process    \* the transaction each process is in

vars == <<clock, workflow, version, schedule, event, run, process>>

Instant == 1..(MaxClock + 1)
Never   == 0                      \* next_run_at IS NULL
Policy  == {"skip", "queue"}
VersionStatus == {"absent", "draft", "published", "retired"}
EventStatus   == {"none", "pending", "started", "skipped", "failed"}
RunStatus     == {"absent", "active", "ended"}
Pc == {"idle",
       "locked", "snapshot",      \* PublishVersion
       "saving", "storing",       \* SaveSchedule
       "stopping",                \* Stop
       "selected", "decided"}     \* DispatchScheduleTick

WorkflowRec == [enabled: BOOLEAN, published: Version \cup {NoVersion}]
VersionRec  == [status: VersionStatus, workflow: Workflow \cup {NoWorkflow}]
ScheduleRec == [exists: BOOLEAN, enabled: BOOLEAN, policy: Policy,
                next: Instant \cup {Never}]
EventRec    == [status: EventStatus, run: Run \cup {NoRun}]
RunRec      == [status: RunStatus, workflow: Workflow \cup {NoWorkflow},
                tick: Instant \cup {Never}]
ProcessRec  == [pc: Pc, workflow: Workflow \cup {NoWorkflow},
                version: Version \cup {NoVersion}, old: SUBSET Version,
                now: 0..MaxClock, enabled: BOOLEAN, policy: Policy,
                held: BOOLEAN, busy: BOOLEAN]

TypeOK ==
  /\ clock \in 0..MaxClock
  /\ workflow \in [Workflow -> WorkflowRec]
  /\ version \in [Version -> VersionRec]
  /\ schedule \in [Workflow -> ScheduleRec]
  /\ event \in [Workflow -> [Instant -> EventRec]]
  /\ run \in [Run -> RunRec]
  /\ process \in [Process -> ProcessRec]

-----------------------------------------------------------------------------
(* Row locks and reads.                                                    *)

At(p, label) == process[p].pc = label
Of(p)        == process[p].workflow

VersionFree(v) ==
  \A p \in Process : process[p].pc \in {"locked", "snapshot"} => process[p].version # v
WorkflowFree(w) ==
  \A p \in Process : At(p, "decided") => Of(p) # w
\* The row of the schedule is locked by nobody, or by p itself.
ScheduleFree(w, p) ==
  \A q \in Process \ {p} : process[q].held => Of(q) # w

ActiveRuns(w) == {r \in Run : run[r].workflow = w /\ run[r].status = "active"}
Published(w)  == {v \in Version : version[v].workflow = w /\ version[v].status = "published"}
Pending(w)    == {i \in Instant : event[w][i].status = "pending"}
Earliest(S)   == CHOOSE i \in S : \A j \in S : i <= j

\* time.Now() of some process, used a little later.
Reading == {i \in 0..MaxClock : i <= clock /\ clock <= i + Skew}
NextButOne(i) == i + 2   \* broken: an instant is left out
\* nextSchedule.
NextAfter(i) == i + 1

\* startRunTx starts a run: the workflow is enabled and has a published version.
Startable(w) == workflow[w].enabled /\ workflow[w].published # NoVersion

NewRun(w, i) == [status |-> "active", workflow |-> w, tick |-> i]

IdleProcess == [pc |-> "idle", workflow |-> NoWorkflow, version |-> NoVersion,
                old |-> {}, now |-> 0, enabled |-> FALSE, policy |-> "skip",
                held |-> FALSE, busy |-> FALSE]
Goto(p, label) == process' = [process EXCEPT ![p].pc = label]
Leave(p)       == process' = [process EXCEPT ![p] = IdleProcess]

SkippedNotAtAll(w) == event[w]   \* broken: pending events survive
\* Every pending event of w is marked skipped.
PendingSkipped(w) ==
  [i \in Instant |-> IF event[w][i].status = "pending"
                     THEN [event[w][i] EXCEPT !.status = "skipped"] ELSE event[w][i]]

-----------------------------------------------------------------------------
(* Versions.                                                               *)

CreateDraft(w, v) ==
  /\ version[v].status = "absent"
  /\ version' = [version EXCEPT ![v] = [status |-> "draft", workflow |-> w]]
  /\ UNCHANGED <<clock, workflow, schedule, event, run, process>>

\* PublishVersion locks the row of the version, and of no other version.
PublishLock(p, v) ==
  /\ At(p, "idle") /\ VersionFree(v)
  /\ version[v].status \in {"draft", "retired"}
  /\ process' = [process EXCEPT ![p] =
       [@ EXCEPT !.pc = "locked", !.version = v, !.workflow = version[v].workflow]]
  /\ UNCHANGED <<clock, workflow, version, schedule, event, run>>

\* The statement that retires the published versions takes its snapshot.
PublishSnapshot(p) ==
  /\ At(p, "locked")
  /\ process' = [process EXCEPT ![p] =
       [@ EXCEPT !.pc = "snapshot", !.old = Published(Of(p))]]
  /\ UNCHANGED <<clock, workflow, version, schedule, event, run>>

\* The rows of the snapshot that are still published once p has their locks retire,
\* and p's own version is published.
Republished(p) ==
  [v \in Version |->
     IF v = process[p].version THEN [version[v] EXCEPT !.status = "published"]
     ELSE IF v \in process[p].old /\ version[v].status = "published"
     THEN [version[v] EXCEPT !.status = "retired"] ELSE version[v]]

\* PublishVersion replaces the published versions and enables the workflow.
PublishCommit(p) ==
  /\ At(p, "snapshot")
  /\ \A v \in process[p].old : VersionFree(v)
  /\ WorkflowFree(Of(p))
  /\ version' = Republished(p)
  /\ workflow' = [workflow EXCEPT ![Of(p)] =
                    [enabled |-> TRUE, published |-> process[p].version]]
  /\ Leave(p)
  /\ UNCHANGED <<clock, schedule, event, run>>

\* Stop locks the row of the schedule, if there is one.
StopLock(p, w) ==
  /\ At(p, "idle") /\ ScheduleFree(w, p)
  /\ process' = [process EXCEPT ![p] =
       [@ EXCEPT !.pc = "stopping", !.workflow = w, !.held = schedule[w].exists]]
  /\ UNCHANGED <<clock, workflow, version, schedule, event, run>>

HeldOnly(p) == process[p].held   \* broken: a schedule saved since the lock is missed
\* Stop disables the schedule it finds when the workflow's row is its own, which is
\* not the one it looked for when it had no schedule to lock.
Stoppable(p) == schedule[Of(p)].exists

\* Stop disables the workflow and its schedule and discards the pending events.
StopCommit(p) ==
  LET w == Of(p) IN
  /\ At(p, "stopping") /\ WorkflowFree(w) /\ ScheduleFree(w, p)
  /\ workflow' = [workflow EXCEPT ![w].enabled = FALSE]
  /\ schedule' = IF Stoppable(p)
                 THEN [schedule EXCEPT ![w] = [@ EXCEPT !.enabled = FALSE, !.next = Never]]
                 ELSE schedule
  /\ event' = [event EXCEPT ![w] = PendingSkipped(w)]
  /\ Leave(p)
  /\ UNCHANGED <<clock, version, run>>

-----------------------------------------------------------------------------
(* Runs.                                                                   *)

\* StartRunWithTrigger, by hand or by the API.
StartRun(w, r) ==
  /\ WorkflowFree(w) /\ Startable(w)
  /\ run[r].status = "absent"
  /\ run' = [run EXCEPT ![r] = NewRun(w, Never)]
  /\ UNCHANGED <<clock, workflow, version, schedule, event, process>>

\* RerunRun inserts a run without the lock of the workflow.
RerunRun(o, r) ==
  /\ run[o].status # "absent" /\ run[r].status = "absent"
  /\ run' = [run EXCEPT ![r] = NewRun(run[o].workflow, Never)]
  /\ UNCHANGED <<clock, workflow, version, schedule, event, process>>

\* tryFinishRun or CancelRun ends a run, RetryTask reopens one.
EndRun(r) ==
  /\ run[r].status = "active"
  /\ run' = [run EXCEPT ![r].status = "ended"]
  /\ UNCHANGED <<clock, workflow, version, schedule, event, process>>

ReopenRun(r) ==
  /\ MayReopen /\ run[r].status = "ended"
  /\ run' = [run EXCEPT ![r].status = "active"]
  /\ UNCHANGED <<clock, workflow, version, schedule, event, process>>

-----------------------------------------------------------------------------
(* Schedules.                                                              *)

\* SaveSchedule computes next_run_at before its transaction.
SaveBegin(p, w, enabled, policy) ==
  /\ At(p, "idle")
  /\ \E now \in Reading :
       process' = [process EXCEPT ![p] =
         [@ EXCEPT !.pc = "saving", !.workflow = w, !.now = now,
                   !.enabled = enabled, !.policy = policy]]
  /\ UNCHANGED <<clock, workflow, version, schedule, event, run>>

\* SaveSchedule locks the row of the schedule, if there is one.
SaveLock(p) ==
  /\ At(p, "saving") /\ ScheduleFree(Of(p), p)
  /\ process' = [process EXCEPT ![p] =
       [@ EXCEPT !.pc = "storing", !.held = schedule[Of(p)].exists]]
  /\ UNCHANGED <<clock, workflow, version, schedule, event, run>>

\* SaveSchedule checks the workflow under its lock, writes the schedule and discards
\* the pending events of the old one.
SaveCommit(p) ==
  LET w == Of(p) IN
  /\ At(p, "storing") /\ WorkflowFree(w) /\ ScheduleFree(w, p)
  /\ IF process[p].enabled /\ ~Startable(w)
     THEN UNCHANGED <<schedule, event>>
     ELSE /\ schedule' = [schedule EXCEPT ![w] =
               [exists |-> TRUE, enabled |-> process[p].enabled,
                policy |-> process[p].policy,
                next |-> IF process[p].enabled THEN NextAfter(process[p].now) ELSE Never]]
          /\ event' = [event EXCEPT ![w] = PendingSkipped(w)]
  /\ Leave(p)
  /\ UNCHANGED <<clock, workflow, version, run>>

SelectableDue(w, now) ==   \* broken: nothing looks for the events left pending
  schedule[w].enabled /\ schedule[w].next \in 1..now
\* The WHERE clause by which DispatchScheduleTick selects a schedule.
Selectable(w, now) ==
  /\ schedule[w].enabled
  /\ \/ schedule[w].next \in 1..now
     \/ Pending(w) # {} /\ (schedule[w].policy = "skip" \/ ActiveRuns(w) = {})

\* DispatchScheduleTick locks the first selectable schedule that is not locked.
DispatchSelect(p, w) ==
  /\ At(p, "idle")
  /\ \E now \in Reading :
       /\ Selectable(w, now) /\ ScheduleFree(w, p)
       /\ \A x \in Workflow : Selectable(x, now) /\ ScheduleFree(x, p)
                               => schedule[w].next <= schedule[x].next
       /\ process' = [process EXCEPT ![p] =
            [@ EXCEPT !.pc = "selected", !.workflow = w, !.now = now, !.held = TRUE]]
  /\ UNCHANGED <<clock, workflow, version, schedule, event, run>>

\* With the lock of the workflow DispatchScheduleTick counts the active runs.
DispatchDecide(p) ==
  /\ At(p, "selected") /\ WorkflowFree(Of(p))
  /\ process' = [process EXCEPT ![p] =
       [@ EXCEPT !.pc = "decided", !.busy = ActiveRuns(Of(p)) # {}]]
  /\ UNCHANGED <<clock, workflow, version, schedule, event, run>>

AlwaysPending(e) == [e EXCEPT !.status = "pending"]   \* broken: no unique key
\* INSERT ... ON CONFLICT DO NOTHING.
AsPending(e) == IF e.status = "none" THEN [e EXCEPT !.status = "pending"] ELSE e

TickFromDue(i, now) == NextAfter(i)   \* broken: the backlog of a downtime is replayed
\* The tick after the one due at i: a catch-up goes on after now.
TickAfter(i, now) == NextAfter(IF now > i THEN now ELSE i)

\* The events of the schedule that p dispatches, with its due tick.
Queued(p) ==
  LET w == Of(p)  due == schedule[w].next IN
  IF due \in 1..process[p].now
  THEN [event[w] EXCEPT ![due] = AsPending(@)]
  ELSE event[w]

Waiting(p) == {i \in Instant : Queued(p)[i].status = "pending"}

\* Every outcome of DispatchScheduleTick moves a due tick on and ends the transaction.
Advance(p) ==
  LET w == Of(p)  due == schedule[w].next  now == process[p].now IN
  /\ schedule' = IF due \in 1..now
                 THEN [schedule EXCEPT ![w].next = TickAfter(due, now)] ELSE schedule
  /\ Leave(p)
  /\ UNCHANGED <<clock, workflow, version>>

\* The earliest waiting event of the schedule gets its outcome.
Decided(p, status, id) ==
  event' = [event EXCEPT ![Of(p)] =
    [Queued(p) EXCEPT ![Earliest(Waiting(p))] = [status |-> status, run |-> id]]]

QueuesNever(w) == FALSE   \* broken: the policy is not consulted
Queues(w) == schedule[w].policy = "queue"

\* Nothing waits, or what waits is queued behind an active run.
DispatchDefer(p) ==
  /\ At(p, "decided")
  /\ Waiting(p) # {} => process[p].busy /\ Queues(Of(p))
  /\ event' = [event EXCEPT ![Of(p)] = Queued(p)]
  /\ Advance(p)
  /\ UNCHANGED run

DispatchSkip(p) ==
  /\ At(p, "decided") /\ Waiting(p) # {}
  /\ process[p].busy /\ ~Queues(Of(p))
  /\ Decided(p, "skipped", NoRun)
  /\ Advance(p)
  /\ UNCHANGED run

DispatchStart(p, r) ==
  /\ At(p, "decided") /\ Waiting(p) # {}
  /\ ~process[p].busy
  /\ Startable(Of(p)) /\ run[r].status = "absent"
  /\ run' = [run EXCEPT ![r] = NewRun(Of(p), Earliest(Waiting(p)))]
  /\ Decided(p, "started", r)
  /\ Advance(p)

\* startRunTx refuses: the workflow may not run, or its published version no longer
\* validates against the dataset.
DispatchFail(p) ==
  /\ At(p, "decided") /\ Waiting(p) # {}
  /\ ~process[p].busy
  /\ Decided(p, "failed", NoRun)
  /\ Advance(p)
  /\ UNCHANGED run

\* A transaction fails and is rolled back, or its process dies.
Rollback(p) ==
  /\ MayFail /\ ~At(p, "idle")
  /\ Leave(p)
  /\ UNCHANGED <<clock, workflow, version, schedule, event, run>>

Tick ==
  /\ clock < MaxClock
  /\ clock' = clock + 1
  /\ UNCHANGED <<workflow, version, schedule, event, run, process>>

-----------------------------------------------------------------------------

Init ==
  /\ clock = 0
  /\ workflow = [w \in Workflow |-> [enabled |-> FALSE, published |-> NoVersion]]
  /\ version = [v \in Version |-> [status |-> "absent", workflow |-> NoWorkflow]]
  /\ schedule = [w \in Workflow |->
       [exists |-> FALSE, enabled |-> FALSE, policy |-> "skip", next |-> Never]]
  /\ event = [w \in Workflow |-> [i \in Instant |-> [status |-> "none", run |-> NoRun]]]
  /\ run = [r \in Run |-> [status |-> "absent", workflow |-> NoWorkflow, tick |-> Never]]
  /\ process = [p \in Process |-> IdleProcess]

Publish(p) ==
  (\E v \in Version : PublishLock(p, v)) \/ PublishSnapshot(p) \/ PublishCommit(p)
Stop(p) == (\E w \in Workflow : StopLock(p, w)) \/ StopCommit(p)
Save(p) ==
  \/ \E w \in Workflow, enabled \in BOOLEAN, policy \in Policy :
       SaveBegin(p, w, enabled, policy)
  \/ SaveLock(p) \/ SaveCommit(p)
Dispatch(p) ==
  \/ \E w \in Workflow : DispatchSelect(p, w)
  \/ DispatchDecide(p) \/ DispatchDefer(p) \/ DispatchSkip(p) \/ DispatchFail(p)
  \/ \E r \in Run : DispatchStart(p, r)

Next ==
  \/ \E w \in Workflow, v \in Version : CreateDraft(w, v)
  \/ \E p \in Process : Publish(p) \/ Stop(p) \/ Save(p) \/ Dispatch(p) \/ Rollback(p)
  \/ \E w \in Workflow, r \in Run : StartRun(w, r)
  \/ \E o, r \in Run : RerunRun(o, r)
  \/ \E r \in Run : EndRun(r) \/ ReopenRun(r)
  \/ Tick

Spec == Init /\ [][Next]_vars

(***************************************************************************)
(* Fairness.  The scheduler polls every 2 s, transactions make progress (a *)
(* row lock is granted to its waiters in turn, and the database does not   *)
(* roll back the same transaction for ever), runs come to an end           *)
(* (TaskEngine!RunsEnd) and time passes.                                   *)
(***************************************************************************)
Fairness ==
  /\ WF_vars(Tick)
  /\ \A r \in Run : WF_vars(EndRun(r))
  /\ \A p \in Process :
       /\ SF_vars(StopCommit(p)) /\ SF_vars(SaveLock(p)) /\ SF_vars(SaveCommit(p))
       /\ SF_vars(DispatchDecide(p))
       /\ SF_vars(DispatchDefer(p) \/ DispatchSkip(p) \/ DispatchFail(p)
                    \/ \E r \in Run : DispatchStart(p, r))
       /\ \A w \in Workflow : SF_vars(DispatchSelect(p, w))

FairSpec == Spec /\ Fairness

-----------------------------------------------------------------------------
(* Safety.                                                                 *)

\* Every tick is dispatched at most once: an event has started exactly when one run
\* was created for its tick, and no other run was, however many processes poll, save
\* the schedule again or fail in between.
TickStartsOnce ==
  \A w \in Workflow, i \in Instant, r \in Run :
    run[r].workflow = w /\ run[r].tick = i
      <=> event[w][i].status = "started" /\ event[w][i].run = r

\* An enabled schedule belongs to an enabled workflow with a published version, in
\* whatever order Stop, SaveSchedule and PublishVersion take their locks.
EnabledScheduleStartable == \A w \in Workflow : schedule[w].enabled => Startable(w)

\* A stopped or disabled schedule leaves no event that a later dispatch could start.
DisabledScheduleEmpty ==
  \A w \in Workflow : ~schedule[w].enabled => Pending(w) = {} /\ schedule[w].next = Never

\* Publishing retires the version published before, so that a workflow has only one.
\* PublishVersion locks no row that two publications share (the run SchedulePublish).
OnePublished == \A w \in Workflow : Cardinality(Published(w)) <= 1

-----------------------------------------------------------------------------
(* What a step may never do.                                               *)

\* After a downtime a single tick is caught up, and next_run_at passes the present:
\* a dispatch never leaves a tick due that was already due at its reading of the clock.
NoBacklog ==
  [][\A p \in Process, w \in Workflow :
       At(p, "decided") /\ Of(p) = w /\ schedule'[w].next # schedule[w].next
         => schedule'[w].next > process[p].now]_vars

\* With the queue policy a tick is dropped only by the operator: its event waits until it
\* is started or startRunTx refuses it, however often it is dispatched behind a run.
QueuedTickKept ==
  [][\A w \in Workflow, i \in Instant :
       event[w][i].status # "skipped" /\ event'[w][i].status = "skipped"
         => \/ schedule[w].policy = "skip"
            \/ \E p \in Process : process[p].pc \in {"stopping", "storing"} /\ Of(p) = w
                                  /\ At(p, "idle")']_vars

\* A scheduled run starts only when the workflow has no active run.  RerunRun and
\* RetryTask do not take the workflow's lock (the run ScheduleOverlap).
ScheduledRunAlone ==
  [][\A r \in Run : run[r].status = "absent" /\ run'[r].tick # Never
       => ActiveRuns(run'[r].workflow) = {}]_vars

-----------------------------------------------------------------------------
(* Liveness.                                                               *)

\* A tick that is due becomes an event, and a pending event gets an outcome, whatever
\* the policy, unless the operator changes or stops the schedule.
DueTickDecided ==
  \A w \in Workflow, i \in Instant :
    (schedule[w].enabled /\ schedule[w].next = i /\ clock >= i)
      ~> \/ event[w][i].status \in {"started", "skipped", "failed"}
         \/ schedule[w].next # i /\ event[w][i].status = "none"
=============================================================================
