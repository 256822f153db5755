----------------------------- MODULE TaskEngine -----------------------------
(***************************************************************************)
(* The durable task engine of scrapio: workflow runs, their tasks, the     *)
(* attempts that execute a task and the leases that protect an attempt     *)
(* (internal/repo/task_repo), driven by the loops of the workflow worker   *)
(* (internal/workflow/worker.go) and by the goroutines that serve operator *)
(* requests or run the 30 second recovery ticker.                          *)
(*                                                                         *)
(* One action is one database transaction, or the part of a transaction    *)
(* between two points where another process can interleave.  A call made   *)
(* of several transactions is several actions: what the caller carries     *)
(* from one to the next is in worker[w].pc or in handler[h].               *)
(*                                                                         *)
(* Time is abstracted to what the guards read.  lease_until is a number of *)
(* ticks left (0: lease_until < NOW()), next_retry_at is the Boolean due,  *)
(* created_at + max_duration_seconds is the Boolean overdue.               *)
(***************************************************************************)
EXTENDS Naturals

CONSTANTS
  Run,          \* ids of workflow_runs rows
  Task,         \* ids of crawl_tasks rows
  Key,          \* (step_name, input url) pairs, the identity of a workflow task
  Oversized,    \* list pages that expandListing cuts short, so that a limit is recorded
  Worker,       \* workflow worker loops
  Handler,      \* goroutines of the HTTP handlers and of the recovery ticker
  NoRun, NoTask, NoKey, NoWorker, NoHandler,
  MaxAttempts,  \* max_attempts of a new task (5 in the code)
  RetryGrant,   \* attempts RetryTask adds to an exhausted task (5 in the code)
  LeaseTerm,    \* ticks of a fresh or renewed lease
  AttemptCap,   \* bound: RetryTask grants no task more attempts than this
  MayCrash      \* whether a process may die, or a call fail, between two steps

ASSUME EngineAssumption ==
  /\ NoRun \notin Run /\ NoTask \notin Task /\ NoKey \notin Key
  /\ Oversized \subseteq Key
  /\ NoWorker \notin Worker /\ NoHandler \notin Handler
  /\ MaxAttempts \in Nat \ {0} /\ RetryGrant \in Nat \ {0}
  /\ LeaseTerm \in Nat \ {0}
  /\ AttemptCap \in Nat /\ MaxAttempts <= AttemptCap
  /\ MayCrash \in BOOLEAN

VARIABLES
  run,       \* workflow_runs, with the transaction that holds the row lock
  task,      \* crawl_tasks
  attempt,   \* task_attempts: attempt[t][n] is the status of attempt_no n
  events,    \* tasks with a row in run_limit_events
  produced,  \* tasks whose records or resource are durable
  worker,    \* program counter and claim of each worker loop
  handler    \* what each handler carries between two of its transactions

vars == <<run, task, attempt, events, produced, worker, handler>>

ActiveStatus == {"queued", "running"}
TaskEnd      == {"succeeded", "dead_letter", "cancelled", "limited"}
TaskStatus   == ActiveStatus \cup TaskEnd \cup {"absent"}
RunEnd       == {"succeeded", "partial", "limited", "failed", "cancelled"}
RunStatus    == ActiveStatus \cup RunEnd \cup {"absent"}
AttemptNo    == 1..AttemptCap
\* "ended": failed, interrupted, cancelled or limited, which nothing tells apart.
AttemptStatus == {"none", "running", "succeeded", "ended"}
WorkerPc == {"idle", "claimed", "executing",      \* loop and execute
             "observing",                         \* after persistResource
             "stopped", "checked", "recorded",    \* inside CompleteLimited
             "retrying", "burying",               \* inside Fail
             "finishing"}                         \* before tryFinishRun
HandlerPc == {"free",
              "retrying",    \* inside RetryTask, with the max_attempts it computed
              "finishing"}   \* before tryFinishRun

RunRec == [status: RunStatus, overdue: BOOLEAN,
           lock: Handler \cup {NoHandler}, doomed: SUBSET Task]
TaskRec == [status: TaskStatus, run: Run \cup {NoRun}, key: Key \cup {NoKey},
            parent: Task \cup {NoTask}, attempts: 0..AttemptCap,
            max: 1..AttemptCap, owner: Worker \cup {NoWorker},
            lease: 0..LeaseTerm, due: BOOLEAN]
WorkerRec == [pc: WorkerPc, task: Task \cup {NoTask}, no: 0..AttemptCap]
HandlerRec == [pc: HandlerPc, task: Task \cup {NoTask}, max: 0..AttemptCap]

TypeOK ==
  /\ run \in [Run -> RunRec]
  /\ task \in [Task -> TaskRec]
  /\ attempt \in [Task -> [AttemptNo -> AttemptStatus]]
  /\ events \in SUBSET Task
  /\ produced \in SUBSET Task
  /\ worker \in [Worker -> WorkerRec]
  /\ handler \in [Handler -> HandlerRec]

-----------------------------------------------------------------------------
(* Reading the tables.                                                     *)

IsActive(t) == task[t].status \in ActiveStatus
TasksOf(r)  == {t \in Task : task[t].run = r}
RunActive(r) == r \in Run /\ run[r].status \in ActiveStatus
Unlocked(r)  == run[r].lock = NoHandler

NewPageAlways(r, k) == TRUE   \* broken: a replayed parent inserts its child again
\* createTask's query for a task of the run with the same step and URL.
NewPage(r, k) == \A u \in TasksOf(r) : task[u].key # k

AttemptsUnlimited(t) == TRUE   \* broken: a poison task is claimed for ever
AttemptsLeft(t) == task[t].attempts < task[t].max

\* The WHERE clause of claimNext, evaluated under the run and task locks.
Eligible(t) ==
  /\ \/ task[t].status = "queued" /\ task[t].due
     \/ task[t].status = "running" /\ task[t].lease = 0
  /\ AttemptsLeft(t)
  /\ RunActive(task[t].run)

\* The WHERE clause that fences every write of an attempt: status, lease_owner,
\* attempt_count and lease_until.
Fence(w) ==
  LET t == worker[w].task IN
  /\ t \in Task
  /\ task[t].status = "running"
  /\ task[t].owner = w
  /\ task[t].attempts = worker[w].no
  /\ task[t].lease > 0

\* withActiveAttemptSession and ReservePage: the run lock, then the fence.
FenceUnderRun(w) ==
  /\ Fence(w)
  /\ RunActive(task[worker[w].task].run)
  /\ Unlocked(task[worker[w].task].run)

ChildrenOnly(t) == {t} \cup {c \in Task : task[c].parent = t}   \* broken: one level
\* The recursive query of CancelTask: the least set closed under children.
Descendants(t) ==
  {d \in Task : \A S \in SUBSET Task :
     t \in S /\ (\A c \in Task : task[c].parent \in S => c \in S) => d \in S}

TruncatedTasks(r) == \E t \in TasksOf(r) : task[t].status = "limited"   \* broken
\* A limited task, or a limit event that coverage counts.
Truncated(r) == \/ \E t \in TasksOf(r) : task[t].status = "limited"
                \/ TasksOf(r) \cap events # {}

\* RunSummary.Status over the rows that tryFinishRun reads.
Outcome(r) ==
  LET Has(s) == \E t \in TasksOf(r) : task[t].status = s IN
  IF Has("cancelled") THEN "cancelled"
  ELSE IF TasksOf(r) \cap produced = {} THEN "failed"
  ELSE IF Truncated(r) THEN "limited"
  ELSE IF Has("dead_letter") THEN "partial"
  ELSE "succeeded"

\* broken: waiting tasks are overlooked; an ended run ends again; a run whose tasks
\* were never claimed does not end
MayEndWaiting(r) ==
  RunActive(r) /\ \A u \in TasksOf(r) : task[u].status # "running"
MayEndAgain(r)   == \A u \in TasksOf(r) : ~IsActive(u)
MayEndClaimed(r) == run[r].status = "running" /\ \A u \in TasksOf(r) : ~IsActive(u)
\* tryFinishRun goes on to end the run.
MayEnd(r) == RunActive(r) /\ \A u \in TasksOf(r) : ~IsActive(u)

\* The effect of tryFinishRun on the run of task t, under FOR UPDATE.
TryFinish(t) ==
  LET r == task[t].run IN
  /\ Unlocked(r)
  /\ run' = IF MayEnd(r) THEN [run EXCEPT ![r].status = Outcome(r)] ELSE run

-----------------------------------------------------------------------------
(* Writing the tables.                                                     *)

BlankRun == [status |-> "absent", overdue |-> FALSE, lock |-> NoHandler,
             doomed |-> {}]
BlankTask == [status |-> "absent", run |-> NoRun, key |-> NoKey,
              parent |-> NoTask, attempts |-> 0, max |-> MaxAttempts,
              owner |-> NoWorker, lease |-> 0, due |-> FALSE]
NewTask(r, k, p) ==
  [BlankTask EXCEPT !.status = "queued", !.run = r, !.key = k, !.parent = p,
                    !.due = TRUE]

IdleWorker == [pc |-> "idle", task |-> NoTask, no |-> 0]
Goto(w, label) == worker' = [worker EXCEPT ![w].pc = label]
GoIdle(w)      == worker' = [worker EXCEPT ![w] = IdleWorker]

FreeHandler   == [pc |-> "free", task |-> NoTask, max |-> 0]
Release(h)    == handler' = [handler EXCEPT ![h] = FreeHandler]
\* Handler h goes on to call tryFinishRun for task t.
OweFinish(h, t) ==
  handler' = [handler EXCEPT ![h] = [pc |-> "finishing", task |-> t, max |-> 0]]

\* Task t leaves the running state for status s and gives up its lease.
Released(t, s, d) ==
  [task EXCEPT ![t] = [@ EXCEPT !.status = s, !.owner = NoWorker,
                                !.lease = 0, !.due = d]]

AttemptsLeftOpen(S) == attempt   \* broken: the attempts of a lost lease stay open
\* Every running attempt of the tasks in S ends.
AttemptsClosed(S) ==
  [t \in Task |-> [n \in AttemptNo |->
     IF t \in S /\ attempt[t][n] = "running" THEN "ended" ELSE attempt[t][n]]]

\* broken: the bulk update has lost its status condition
TasksClosedAlways(S, s) ==
  [t \in Task |-> IF t \in S THEN [task[t] EXCEPT !.status = s] ELSE task[t]]
\* Every queued or running task of S ends with status s.
TasksClosed(S, s) ==
  [t \in Task |-> IF t \in S /\ IsActive(t)
                  THEN [task[t] EXCEPT !.status = s, !.owner = NoWorker,
                                       !.lease = 0]
                  ELSE task[t]]

\* The attempt of worker w ends with status s; the update must hit a running row.
EndAttempt(w, s) ==
  /\ attempt[worker[w].task][worker[w].no] = "running"
  /\ attempt' = [attempt EXCEPT ![worker[w].task][worker[w].no] = s]

-----------------------------------------------------------------------------
(* Runs are created with their root task.                                  *)

\* startRunTx: a run and its root task in one transaction.
StartRun(r, t, k) ==
  /\ run[r].status = "absent" /\ task[t].status = "absent"
  /\ run' = [run EXCEPT ![r].status = "queued"]
  /\ task' = [task EXCEPT ![t] = NewTask(r, k, NoTask)]
  /\ UNCHANGED <<attempt, events, produced, worker, handler>>

\* RerunRun copies the root task of an existing run into a new run.
RerunRun(o, r, t) ==
  /\ run[r].status = "absent" /\ task[t].status = "absent"
  /\ \E root \in TasksOf(o) :
       /\ task[root].parent = NoTask
       /\ task' = [task EXCEPT ![t] = NewTask(r, task[root].key, NoTask)]
  /\ run' = [run EXCEPT ![r].status = "queued"]
  /\ UNCHANGED <<attempt, events, produced, worker, handler>>

-----------------------------------------------------------------------------
(* The workflow worker.                                                    *)

\* claimNext: attempts left running by an expired lease are closed before the
\* new one starts, and the first claim makes a queued run running.
Claim(w, t) ==
  /\ worker[w].pc = "idle"
  /\ Eligible(t) /\ Unlocked(task[t].run)
  /\ LET n == task[t].attempts + 1 IN
     /\ task' = [task EXCEPT ![t] =
                   [@ EXCEPT !.status = "running", !.attempts = n,
                             !.owner = w, !.lease = LeaseTerm]]
     /\ attempt' = [AttemptsClosed({t}) EXCEPT ![t][n] = "running"]
     /\ worker' = [worker EXCEPT ![w] = [pc |-> "claimed", task |-> t, no |-> n]]
  /\ run' = [run EXCEPT ![task[t].run].status = "running"]
  /\ UNCHANGED <<events, produced, handler>>

\* MaintainLease: RenewLease extends a lease that has not yet expired.
Renew(w) ==
  /\ worker[w].pc # "idle" /\ Fence(w)
  /\ task' = [task EXCEPT ![worker[w].task].lease = LeaseTerm]
  /\ UNCHANGED <<run, attempt, events, produced, worker, handler>>

\* ReservePage lets the page be fetched.
PageGranted(w) ==
  /\ worker[w].pc = "claimed" /\ FenceUnderRun(w)
  /\ ~run[task[worker[w].task].run].overdue
  /\ Goto(w, "executing")
  /\ UNCHANGED <<run, task, attempt, events, produced, handler>>

\* ReservePage before the fetch, or CheckPageURL on a redirect, reaches a budget
\* limit: the limit event commits, and execute goes on to CompleteLimited.
PageRefused(w) ==
  /\ worker[w].pc \in {"claimed", "executing"} /\ FenceUnderRun(w)
  /\ events' = events \cup {worker[w].task}
  /\ Goto(w, "stopped")
  /\ UNCHANGED <<run, task, attempt, produced, handler>>

\* createTask inserts a child that no task of the run duplicates.
CreateChild(w, t, k) ==
  LET p == worker[w].task  r == task[p].run IN
  /\ worker[w].pc = "executing" /\ FenceUnderRun(w)
  /\ task[t].status = "absent"
  /\ NewPage(r, k)
  /\ ~run[r].overdue
  /\ task' = [task EXCEPT ![t] = NewTask(r, k, p)]
  /\ UNCHANGED <<run, attempt, events, produced, worker, handler>>

\* createTask refuses a new child for a budget; the page goes on without it.
ChildRefused(w, k) ==
  LET p == worker[w].task IN
  /\ worker[w].pc = "executing" /\ FenceUnderRun(w)
  /\ NewPage(task[p].run, k)
  /\ events' = events \cup {p}
  /\ UNCHANGED <<run, task, attempt, produced, worker, handler>>

\* expandListing records that it dropped links or stopped at the last allowed page.
\* RecordLimit neither locks nor fences: a superseded attempt may still be here.
RecordTruncation(w) ==
  /\ worker[w].pc = "executing"
  /\ task[worker[w].task].key \in Oversized
  /\ events' = events \cup {worker[w].task}
  /\ UNCHANGED <<run, task, attempt, produced, worker, handler>>

\* persistRecords writes records and their observations under WithActiveAttempt.
PersistRecords(w) ==
  /\ worker[w].pc = "executing" /\ FenceUnderRun(w)
  /\ produced' = produced \cup {worker[w].task}
  /\ UNCHANGED <<run, task, attempt, events, worker, handler>>

\* persistResource writes a resource under WithActiveAttempt ...
PersistResource(w) ==
  /\ worker[w].pc = "executing" /\ FenceUnderRun(w)
  /\ Goto(w, "observing")
  /\ UNCHANGED <<run, task, attempt, events, produced, handler>>

\* ... and ObserveLegacyWorkflowResource its observation, without lock or fence.
ObserveResource(w) ==
  /\ worker[w].pc = "observing"
  /\ produced' = produced \cup {worker[w].task}
  /\ Goto(w, "executing")
  /\ UNCHANGED <<run, task, attempt, events, handler>>

\* Complete: completeStatus up to its commit.  Its reading of the attempt before
\* the transaction only refuses what the fence refuses too.  An oversized page has
\* recorded its limit, in this attempt or, with the same document, in an earlier one.
Complete(w) ==
  /\ worker[w].pc = "executing" /\ Fence(w)
  /\ task[worker[w].task].key \in Oversized => worker[w].task \in events
  /\ task' = Released(worker[w].task, "succeeded", FALSE)
  /\ EndAttempt(w, "succeeded")
  /\ Goto(w, "finishing")
  /\ UNCHANGED <<run, events, produced, handler>>

\* execute ends on the deadline of its context and turns to CompleteLimited.
DeadlineStops(w) ==
  /\ worker[w].pc \in {"claimed", "executing", "observing"}
  /\ run[task[worker[w].task].run].overdue
  /\ Goto(w, "stopped")
  /\ UNCHANGED <<run, task, attempt, events, produced, handler>>

\* CompleteLimited, first call: CheckAttempt.
CheckLimited(w) ==
  /\ worker[w].pc = "stopped" /\ Fence(w)
  /\ Goto(w, "checked")
  /\ UNCHANGED <<run, task, attempt, events, produced, handler>>

\* CompleteLimited, second call: RecordLimit, which neither locks nor fences.
RecordLimit(w) ==
  /\ worker[w].pc = "checked"
  /\ events' = events \cup {worker[w].task}
  /\ Goto(w, "recorded")
  /\ UNCHANGED <<run, task, attempt, produced, handler>>

\* CompleteLimited, third call: completeStatus with status limited.
CompleteLimited(w) ==
  /\ worker[w].pc = "recorded" /\ Fence(w)
  /\ task' = Released(worker[w].task, "limited", FALSE)
  /\ EndAttempt(w, "ended")
  /\ Goto(w, "finishing")
  /\ UNCHANGED <<run, events, produced, handler>>

\* Fail reads task and attempt and decides, outside its transaction, whether the
\* task will be retried.  A database error inside CompleteLimited ends here too,
\* never as a retryable failure.
PlanFail(w, retryable) ==
  LET t == worker[w].task IN
  /\ \/ worker[w].pc \in {"claimed", "executing", "observing"}
     \/ worker[w].pc \in {"stopped", "checked", "recorded"} /\ ~retryable
  /\ attempt[t][worker[w].no] = "running"
  /\ Goto(w, IF retryable /\ AttemptsLeft(t) THEN "retrying" ELSE "burying")
  /\ UNCHANGED <<run, task, attempt, events, produced, handler>>

\* Fail, the transaction that puts the task back for a later retry.
FailRetry(w) ==
  /\ worker[w].pc = "retrying" /\ Fence(w)
  /\ task' = Released(worker[w].task, "queued", FALSE)
  /\ EndAttempt(w, "ended")
  /\ GoIdle(w)
  /\ UNCHANGED <<run, events, produced, handler>>

\* Fail, the transaction that gives the task up.
FailDead(w) ==
  /\ worker[w].pc = "burying" /\ Fence(w)
  /\ task' = Released(worker[w].task, "dead_letter", FALSE)
  /\ EndAttempt(w, "ended")
  /\ Goto(w, "finishing")
  /\ UNCHANGED <<run, events, produced, handler>>

\* Any fenced call answers ErrStaleAttempt; the loop goes on to its next claim.
DropStale(w) ==
  /\ worker[w].pc \in WorkerPc \ {"idle", "observing", "checked", "finishing"}
  /\ ~Fence(w)
  /\ GoIdle(w)
  /\ UNCHANGED <<run, task, attempt, events, produced, handler>>

\* tryFinishRun, called by Complete, CompleteLimited or Fail after its commit.
WorkerFinish(w) ==
  /\ worker[w].pc = "finishing"
  /\ TryFinish(worker[w].task)
  /\ GoIdle(w)
  /\ UNCHANGED <<task, attempt, events, produced, handler>>

\* The process of the worker dies, or the database refuses its next call.
WorkerCrash(w) ==
  /\ MayCrash
  /\ worker[w].pc # "idle"
  /\ GoIdle(w)
  /\ UNCHANGED <<run, task, attempt, events, produced, handler>>

-----------------------------------------------------------------------------
(* The recovery ticker and the operator's requests.                        *)

Free(h) == handler[h].pc = "free" /\ \A r \in Run : run[r].lock # h

AlwaysQueued(t) == "queued"   \* broken: an exhausted task is queued
AfterExpiry(t)  == IF AttemptsLeft(t) THEN "queued" ELSE "dead_letter"

\* recoverExpiredTask, with its rechecks under the run and task locks; the call
\* of tryFinishRun follows in a transaction of its own.
Recover(h, t) ==
  /\ Free(h)
  /\ task[t].status = "running" /\ task[t].lease = 0
  /\ Unlocked(task[t].run)
  /\ task' = Released(t, AfterExpiry(t), TRUE)
  /\ attempt' = AttemptsClosed({t})
  /\ OweFinish(h, t)
  /\ UNCHANGED <<run, events, produced, worker>>

\* expireBudgetRun up to its query for the tasks to close: the run row stays
\* locked, the task rows do not.
BeginExpire(h, r) ==
  /\ Free(h)
  /\ RunActive(r) /\ run[r].overdue /\ Unlocked(r)
  /\ run' = [run EXCEPT ![r].lock = h,
                        ![r].doomed = {t \in TasksOf(r) : IsActive(t)}]
  /\ UNCHANGED <<task, attempt, events, produced, worker, handler>>

\* expireBudgetRun from its limit events to its commit.  Only a run with a task
\* to close goes on to tryFinishRun.
CommitExpire(h, r) ==
  LET doomed == run[r].doomed IN
  /\ run[r].lock = h
  /\ events' = events \cup doomed
  /\ task' = TasksClosed(TasksOf(r), "limited")
  /\ attempt' = AttemptsClosed(TasksOf(r))
  /\ run' = [run EXCEPT ![r].lock = NoHandler, ![r].doomed = {}]
  /\ IF doomed = {} THEN UNCHANGED handler
     ELSE \E t \in doomed : OweFinish(h, t)
  /\ UNCHANGED <<produced, worker>>

\* CancelTask: the task and its unfinished descendants, in one transaction.
CancelTask(h, t) ==
  /\ Free(h)
  /\ RunActive(task[t].run) /\ Unlocked(task[t].run)
  /\ IsActive(t)
  /\ task' = TasksClosed(Descendants(t), "cancelled")
  /\ attempt' = AttemptsClosed(Descendants(t))
  /\ OweFinish(h, t)
  /\ UNCHANGED <<run, events, produced, worker>>

\* CancelRun: the run and all its unfinished tasks, in one transaction.
CancelRun(r) ==
  /\ RunActive(r) /\ Unlocked(r)
  /\ run' = [run EXCEPT ![r].status = "cancelled"]
  /\ task' = TasksClosed(TasksOf(r), "cancelled")
  /\ attempt' = AttemptsClosed(TasksOf(r))
  /\ UNCHANGED <<events, produced, worker, handler>>

EndedOrLimited(t) == task[t].status \in {"dead_letter", "limited"}   \* broken
Retriable(t)      == task[t].status = "dead_letter"

NotReopened(r) == run   \* broken: the run stays ended
Reopened(r)    == [run EXCEPT ![r].status = "running"]

RunRetriable(r) == run[r].status \in {"failed", "partial", "running"}

\* RetryTask reads the task, and the status of its run, before its transaction: the
\* new max_attempts is computed from a row that is not locked.
ReadRetry(h, t) ==
  LET granted == IF AttemptsLeft(t) THEN task[t].max
                 ELSE task[t].attempts + RetryGrant IN
  /\ Free(h)
  /\ task[t].run \in Run /\ RunRetriable(task[t].run)
  /\ granted <= AttemptCap
  /\ handler' = [handler EXCEPT ![h] = [pc |-> "retrying", task |-> t, max |-> granted]]
  /\ UNCHANGED <<run, task, attempt, events, produced, worker>>

MayRetry(t) ==
  /\ Retriable(t)
  /\ RunRetriable(task[t].run) /\ ~run[task[t].run].overdue

\* RetryTask's transaction puts a dead task back, reopening its run, within the run's
\* deadline.
CommitRetry(h) ==
  LET t == handler[h].task IN
  /\ handler[h].pc = "retrying"
  /\ Unlocked(task[t].run) /\ MayRetry(t)
  /\ task' = [task EXCEPT ![t] = [@ EXCEPT !.status = "queued", !.due = TRUE,
                                           !.max = handler[h].max]]
  /\ run' = Reopened(task[t].run)
  /\ Release(h)
  /\ UNCHANGED <<attempt, events, produced, worker>>

\* RetryTask's transaction finds that the task or its run is not to be retried.
RefuseRetry(h) ==
  LET t == handler[h].task IN
  /\ handler[h].pc = "retrying"
  /\ Unlocked(task[t].run) /\ ~MayRetry(t)
  /\ Release(h)
  /\ UNCHANGED <<run, task, attempt, events, produced, worker>>

\* tryFinishRun, called after recoverExpiredTask, expireBudgetRun or CancelTask.
HandlerFinish(h) ==
  /\ handler[h].pc = "finishing"
  /\ TryFinish(handler[h].task)
  /\ Release(h)
  /\ UNCHANGED <<task, attempt, events, produced, worker>>

\* The process of the handler dies, or its transaction fails and rolls back: its
\* lock is gone and the call of tryFinishRun it still owed is never made.
HandlerCrash(h) ==
  /\ MayCrash
  /\ ~Free(h)
  /\ Release(h)
  /\ run' = [r \in Run |-> IF run[r].lock = h
                           THEN [run[r] EXCEPT !.lock = NoHandler, !.doomed = {}]
                           ELSE run[r]]
  /\ UNCHANGED <<task, attempt, events, produced, worker>>

-----------------------------------------------------------------------------
(* Time.                                                                   *)

LeaseTick(t) ==
  /\ task[t].status = "running" /\ task[t].lease > 0
  /\ task' = [task EXCEPT ![t].lease = @ - 1]
  /\ UNCHANGED <<run, attempt, events, produced, worker, handler>>

RetryDue(t) ==
  /\ task[t].status = "queued" /\ ~task[t].due
  /\ task' = [task EXCEPT ![t].due = TRUE]
  /\ UNCHANGED <<run, attempt, events, produced, worker, handler>>

DeadlinePasses(r) ==
  /\ run[r].status # "absent" /\ ~run[r].overdue
  /\ run' = [run EXCEPT ![r].overdue = TRUE]
  /\ UNCHANGED <<task, attempt, events, produced, worker, handler>>

-----------------------------------------------------------------------------

Init ==
  /\ run = [r \in Run |-> BlankRun]
  /\ task = [t \in Task |-> BlankTask]
  /\ attempt = [t \in Task |-> [n \in AttemptNo |-> "none"]]
  /\ events = {} /\ produced = {}
  /\ worker = [w \in Worker |-> IdleWorker]
  /\ handler = [h \in Handler |-> FreeHandler]

\* What ends the execution of a page, one way or another.
Conclude(w) ==
  \/ ObserveResource(w) \/ Complete(w) \/ DeadlineStops(w)
  \/ CheckLimited(w) \/ RecordLimit(w) \/ CompleteLimited(w)
  \/ \E retryable \in BOOLEAN : PlanFail(w, retryable)
  \/ FailRetry(w) \/ FailDead(w) \/ DropStale(w)

Work(w) ==
  \/ \E t \in Task : Claim(w, t)
  \/ Renew(w) \/ PageGranted(w) \/ PageRefused(w)
  \/ RecordTruncation(w) \/ PersistRecords(w) \/ PersistResource(w)
  \/ \E t \in Task, k \in Key : CreateChild(w, t, k)
  \/ \E k \in Key : ChildRefused(w, k)
  \/ Conclude(w) \/ WorkerFinish(w) \/ WorkerCrash(w)

Handle(h) ==
  \/ \E t \in Task : Recover(h, t) \/ CancelTask(h, t) \/ ReadRetry(h, t)
  \/ CommitRetry(h) \/ RefuseRetry(h)
  \/ \E r \in Run : BeginExpire(h, r) \/ CommitExpire(h, r)
  \/ HandlerFinish(h) \/ HandlerCrash(h)

Next ==
  \/ \E r \in Run, t \in Task, k \in Key : StartRun(r, t, k)
  \/ \E o, r \in Run, t \in Task : RerunRun(o, r, t)
  \/ \E w \in Worker : Work(w)
  \/ \E h \in Handler : Handle(h)
  \/ \E r \in Run : CancelRun(r) \/ DeadlinePasses(r)
  \/ \E t \in Task : LeaseTick(t) \/ RetryDue(t)

Spec == Init /\ [][Next]_vars

(***************************************************************************)
(* Fairness.  A worker loop polls for a claim every 500 ms, finishes the   *)
(* page it executes (every fetch has a timeout) and makes the call of      *)
(* tryFinishRun it owes; the ticker runs every 30 s; time passes.  A step  *)
(* that waits for the row lock of the run is strongly fair: PostgreSQL     *)
(* grants a row lock to its waiters in turn.  Nobody is obliged to cancel, *)
(* retry, crash, or start a run.                                           *)
(***************************************************************************)
Fairness ==
  /\ \A w \in Worker :
       /\ SF_vars(\E t \in Task : Claim(w, t))
       /\ WF_vars(Conclude(w))
       /\ SF_vars(WorkerFinish(w))
  /\ \A t \in Task :
       /\ SF_vars(\E h \in Handler : Recover(h, t))
       /\ WF_vars(LeaseTick(t))
       /\ WF_vars(RetryDue(t))
  /\ \A r \in Run :
       /\ SF_vars(\E h \in Handler : BeginExpire(h, r))
       /\ WF_vars(\E h \in Handler : CommitExpire(h, r))
       /\ WF_vars(DeadlinePasses(r))
  /\ \A h \in Handler :
       /\ SF_vars(HandlerFinish(h))
       /\ WF_vars(CommitRetry(h) \/ RefuseRetry(h))

FairSpec == Spec /\ Fairness

-----------------------------------------------------------------------------
(* Safety.                                                                 *)

\* A run that has ended has no queued or running task: tryFinishRun, createTask,
\* claimNext, RetryTask and the cancellations agree on it through the run lock
\* although Complete and Fail never take that lock.
FinishedRunQuiet ==
  \A t \in Task : IsActive(t) => RunActive(task[t].run)

\* The running attempts are exactly the current attempts of the running tasks: an
\* attempt whose lease was lost is closed before the next one opens, and every
\* path that ends a task (success, failure, limit, cancellation, recovery,
\* deadline) closes its attempt with it.
AttemptMatchesTask ==
  \A t \in Task, n \in AttemptNo :
    attempt[t][n] = "running" <=> task[t].status = "running" /\ n = task[t].attempts

\* A task's work is accepted at most once, from its last attempt, however many
\* workers executed it.
AcceptedOnce ==
  \A t \in Task, n \in AttemptNo :
    attempt[t][n] = "succeeded" <=> task[t].status = "succeeded" /\ n = task[t].attempts

\* A task that waits in the queue can be claimed: a failed task that an operator retried
\* can be executed again.  The row RetryTask reads before its transaction may be stale,
\* so that max_attempts may not leave an attempt (the run EngineRetry).
QueuedIsClaimable ==
  \A t \in Task : task[t].status = "queued" => AttemptsLeft(t)

\* Replayed list pages and concurrent parents create no second task for the same
\* page of a run.
OneTaskPerPage ==
  \A t, u \in Task :
    /\ task[t].status # "absent" /\ task[u].status # "absent"
    /\ task[t].run = task[u].run /\ task[t].key = task[u].key
    => t = u

\* A run reported as succeeded is clean for good: all its tasks succeeded, it
\* produced something, and no late limit event of a superseded attempt arrives.
SucceededRunClean ==
  \A r \in Run : run[r].status = "succeeded" =>
    /\ \A t \in TasksOf(r) : task[t].status = "succeeded" /\ t \notin events
    /\ TasksOf(r) \cap produced # {}

-----------------------------------------------------------------------------
(* What a step may never do.                                               *)

\* Only a dead task returns to the queue once it ended; a success, a cancellation
\* or a budget limit is final.
EndedTaskStays ==
  [][\A t \in Task : task[t].status \in TaskEnd \ {"dead_letter"}
                       => task'[t].status = task[t].status]_vars

\* A running task goes back to the queue only with an attempt left, although Fail reads
\* the counts it decides on before its transaction.
RequeuedHasAttempt ==
  [][\A t \in Task : task[t].status = "running" /\ task'[t].status = "queued"
                       => task'[t].attempts < task'[t].max]_vars

\* Cancelling a task leaves nothing of its subtree queued or running, however deep.
CancelReachesSubtree ==
  [][\A t \in Task : IsActive(t) /\ task'[t].status = "cancelled" =>
       \A d \in Descendants(t) : task'[d].status \notin ActiveStatus]_vars

-----------------------------------------------------------------------------
(* Liveness.                                                               *)

\* Every run comes to an end once its tasks can: no interleaving of completions,
\* recoveries and deadlines loses the last call of tryFinishRun.
RunsEnd ==
  \A r \in Run : run[r].status \in ActiveStatus ~> run[r].status \in RunEnd

\* ExpireBudgetRuns ends every run whose deadline has passed.
DeadlineFinalizes ==
  \A r \in Run :
    run[r].status \in ActiveStatus /\ run[r].overdue ~> run[r].status \in RunEnd

-----------------------------------------------------------------------------
(* The abstract specification it implements.                               *)

Lifecycle == INSTANCE RunLifecycle WITH
  phase   <- [r \in Run |-> IF RunActive(r) THEN "active" ELSE run[r].status],
  open    <- [r \in Run |-> {t \in TasksOf(r) : IsActive(t)}],
  settled <- [r \in Run |-> {t \in TasksOf(r) : ~IsActive(t)}]

\* Attempts, leases, crashes and recovery are invisible to an observer of runs: a
\* run ends only with no task left to do, tasks are added only while another is
\* unfinished, and a cancelled run's tasks stop in the same step as the run.
ImplementsLifecycle == Lifecycle!Spec
=============================================================================
