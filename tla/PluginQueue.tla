---------------------------- MODULE PluginQueue ----------------------------
(***************************************************************************)
(* The durable queue of delivery plugins: plugin_repo/tasks.go, the worker *)
(* loops of plugin/worker.go and the two handlers of plugin/delivery. A    *)
(* task of Async is handled by the cloud driver, whose Handle starts an    *)
(* external job that is polled and whose result is merged into the         *)
(* resource; the others by aria2, done once the job is accepted.           *)
(***************************************************************************)
EXTENDS Naturals, Sequences

CONSTANTS Tasks,       \* (plugin_code, idempotency_key) pairs
          Async,       \* those whose plugin is an AsyncHandler
          Workers,     \* worker loops, of one or more processes
          MaxAttempts, \* max_attempts of a task
          AttemptCap,  \* bound: attempts of a task
          JobCap,      \* bound: external jobs of a task
          MayCrash     \* whether processes die

QueueAssumption ==
    /\ Tasks # {} /\ Async \subseteq Tasks
    /\ MaxAttempts \in Nat \ {0} /\ AttemptCap \in Nat /\ JobCap \in Nat /\ MayCrash \in BOOLEAN

VARIABLES tasks,     \* rows of plugin_tasks
          jobs,      \* per task, the states of the external jobs it started
          delivered, \* per task, the jobs whose artifacts were merged
          workers    \* what each loop is at

vars == <<tasks, jobs, delivered, workers>>

NoJob == 0
Status == {"absent", "queued", "running", "succeeded", "failed", "cancelled"}
TaskRec == [status : Status, attempt : Nat, ext : 0..JobCap,
            due : BOOLEAN, expired : BOOLEAN]
WorkerPc == {"idle", "run", "schedule", "deliver", "finish",
             "fail", "requeue", "bump", "close"}

(* What a loop carries: its task, the external id of its claim or of a     *)
(* later read, the attempts Fail computed, retryable.                      *)
WorkerRec == [pc : WorkerPc, task : Tasks, job : 0..JobCap, attempt : Nat, retryable : BOOLEAN]

TypeOK ==
    /\ tasks \in [Tasks -> TaskRec]
    /\ jobs \in [Tasks -> Seq({"open", "done", "failed"})]
    /\ delivered \in [Tasks -> SUBSET (1..JobCap)]
    /\ workers \in [Workers -> WorkerRec]

NewTask == [status |-> "queued", attempt |-> 0, ext |-> NoJob, due |-> TRUE, expired |-> FALSE]

NoRow == [NewTask EXCEPT !.status = "absent"]

IdleWorker == [pc |-> "idle", task |-> CHOOSE t \in Tasks : TRUE, job |-> NoJob, attempt |-> 0, retryable |-> FALSE]

Init ==
    /\ tasks = [t \in Tasks |-> NoRow]
    /\ jobs = [t \in Tasks |-> <<>>]
    /\ delivered = [t \in Tasks |-> {}]
    /\ workers = [w \in Workers |-> IdleWorker]

Goto(w, pc) == workers' = [workers EXCEPT ![w].pc = pc]
GoIdle(w) == workers' = [workers EXCEPT ![w] = IdleWorker]
At(w, pc) == workers[w].pc = pc
TaskOf(w) == workers[w].task

WhileRunningNever(t, row) == tasks' = [tasks EXCEPT ![t] = row] \* broken: no status guard

(* An UPDATE ... WHERE status = 'running': no effect on a task that is not. *)
WhileRunning(t, row) ==
    tasks' = IF tasks[t].status = "running" THEN [tasks EXCEPT ![t] = row] ELSE tasks

-----------------------------------------------------------------------------
(* Requests.                                                               *)

(* A second event with the same key finds the first one's row.             *)
Enqueue(t) ==
    /\ tasks[t].status = "absent"
    /\ tasks' = [tasks EXCEPT ![t] = NewTask]
    /\ UNCHANGED <<jobs, delivered, workers>>

Cancel(t) ==
    /\ tasks[t].status \in {"queued", "running"}
    /\ tasks' = [tasks EXCEPT ![t].status = "cancelled", ![t].due = TRUE, ![t].expired = FALSE]
    /\ UNCHANGED <<jobs, delivered, workers>>

Retry(t) ==
    /\ tasks[t].status \in {"failed", "cancelled"}
    /\ tasks' = [tasks EXCEPT ![t] = NewTask]
    /\ UNCHANGED <<jobs, delivered, workers>>

-----------------------------------------------------------------------------
(* The claim is a read and an update that checks the same condition again  *)
(* under the row's lock, so the two count as one step. An attempt is spent *)
(* only while the task has no external job.                                *)

Claimable(row) ==
    \/ row.status = "queued" /\ row.due
    \/ row.status = "running" /\ row.expired

Claim(w, t) ==
    LET row == tasks[t] IN
    /\ At(w, "idle")
    /\ Claimable(row) /\ (row.ext = NoJob => row.attempt < AttemptCap)
    /\ tasks' = [tasks EXCEPT ![t].status = "running", ![t].expired = FALSE,
                              ![t].attempt = IF row.ext = NoJob THEN @ + 1 ELSE @]
    /\ workers' = [workers EXCEPT ![w] = [IdleWorker EXCEPT !.pc = "run", !.task = t, !.job = row.ext]]
    /\ UNCHANGED <<jobs, delivered>>

-----------------------------------------------------------------------------
(* processClaim: Poll with the claim's external id, or Handle.             *)

Polls(w) == TaskOf(w) \in Async /\ workers[w].job # NoJob

ToFail(w, retryable) ==
    workers' = [workers EXCEPT ![w].pc = "fail", ![w].job = NoJob, ![w].retryable = retryable]

PollDoneAlways(t, j) == TRUE \* broken: an open job counts as complete
PollDoneNever(t, j) == FALSE \* broken: a status that is not recognised

(* A job whose state Poll takes for complete.                              *)
PollDone(t, j) == jobs[t][j] = "done"

Poll(w) ==
    LET t == TaskOf(w)
        j == workers[w].job
    IN  /\ At(w, "run") /\ Polls(w)
        /\ \/ ToFail(w, TRUE)                                \* transport
           \/ jobs[t][j] = "failed" /\ ToFail(w, FALSE)      \* PermanentError
           \/ /\ jobs[t][j] # "failed"
              /\ Goto(w, IF PollDone(t, j) THEN "deliver" ELSE "schedule")
        /\ UNCHANGED <<tasks, jobs, delivered>>

(* The provider accepts the job; the cloud driver may recognise the client *)
(* task id of an earlier call. Its answer may be lost.                     *)
Handle(w) ==
    LET t == TaskOf(w) IN
    /\ At(w, "run") /\ ~Polls(w)
    /\ \E j \in 1..Len(jobs[t]) + 1 :
        /\ j = Len(jobs[t]) + 1 \/ t \in Async
        /\ j <= JobCap
        /\ jobs' = IF j > Len(jobs[t]) THEN [jobs EXCEPT ![t] = Append(@, "open")] ELSE jobs
        /\ \/ workers' = [workers EXCEPT ![w].job = j,
                             ![w].pc = IF t \in Async THEN "schedule" ELSE "finish"]
           \/ ToFail(w, TRUE)
    /\ UNCHANGED <<tasks, delivered>>

(* No handler, bad input, a refused URL or request, a panic.               *)
HandleFails(w, retryable) ==
    /\ At(w, "run")
    /\ ToFail(w, retryable)
    /\ UNCHANGED <<tasks, jobs, delivered>>

(* OnComplete merges the artifacts into the resource's attributes.         *)
OnComplete(w) ==
    /\ At(w, "deliver")
    /\ \/ /\ delivered' = [delivered EXCEPT ![TaskOf(w)] = @ \union {workers[w].job}]
          /\ Goto(w, "finish")
       \/ ToFail(w, TRUE) /\ UNCHANGED delivered
    /\ UNCHANGED <<tasks, jobs>>

SchedulePoll(w) ==
    LET t == TaskOf(w) IN
    /\ At(w, "schedule")
    /\ WhileRunning(t, [tasks[t] EXCEPT !.status = "queued", !.ext = workers[w].job,
                                        !.due = FALSE, !.expired = FALSE])
    /\ GoIdle(w)
    /\ UNCHANGED <<jobs, delivered>>

Complete(w) ==
    LET t == TaskOf(w) IN
    /\ At(w, "finish")
    /\ WhileRunning(t, [tasks[t] EXCEPT !.status = "succeeded", !.ext = workers[w].job,
                                        !.expired = FALSE])
    /\ GoIdle(w)
    /\ UNCHANGED <<jobs, delivered>>

-----------------------------------------------------------------------------
(* Fail: an unlocked read, then one or two guarded updates.                *)

Charged(row) == IF row.ext # NoJob THEN row.attempt + 1 ELSE row.attempt
MayRequeueOneMore(row) == Charged(row) <= MaxAttempts \* broken: off by one
MayRequeue(row) == Charged(row) < MaxAttempts
Requeues(w, row) == workers[w].retryable /\ MayRequeue(row)

FailRead(w) ==
    LET row == tasks[TaskOf(w)] IN
    /\ At(w, "fail") /\ Charged(row) <= AttemptCap + 1
    /\ workers' = [workers EXCEPT ![w].job = row.ext, ![w].attempt = Charged(row),
                      ![w].retryable = FALSE,
                      ![w].pc = IF Requeues(w, row) THEN "requeue"
                                ELSE IF Charged(row) # row.attempt THEN "bump" ELSE "close"]
    /\ UNCHANGED <<tasks, jobs, delivered>>

FailRequeue(w) ==
    LET t == TaskOf(w) IN
    /\ At(w, "requeue")
    /\ WhileRunning(t, [tasks[t] EXCEPT !.status = "queued", !.attempt = workers[w].attempt,
                                        !.due = FALSE, !.expired = FALSE])
    /\ GoIdle(w)
    /\ UNCHANGED <<jobs, delivered>>

FailBump(w) ==
    LET t == TaskOf(w) IN
    /\ At(w, "bump")
    /\ WhileRunning(t, [tasks[t] EXCEPT !.attempt = workers[w].attempt])
    /\ Goto(w, "close")
    /\ UNCHANGED <<jobs, delivered>>

FailClose(w) ==
    LET t == TaskOf(w) IN
    /\ At(w, "close")
    /\ WhileRunning(t, [tasks[t] EXCEPT !.status = "failed", !.ext = workers[w].job,
                                        !.expired = FALSE])
    /\ GoIdle(w)
    /\ UNCHANGED <<jobs, delivered>>

-----------------------------------------------------------------------------
(* The process of a loop dies; its task keeps its lease.                   *)
WorkerCrash(w) ==
    /\ MayCrash /\ ~At(w, "idle")
    /\ GoIdle(w)
    /\ UNCHANGED <<tasks, jobs, delivered>>

(* A lease is five minutes and never renewed.                              *)
LeaseExpires(t) ==
    /\ tasks[t].status = "running" /\ ~tasks[t].expired
    /\ tasks' = [tasks EXCEPT ![t].expired = TRUE]
    /\ UNCHANGED <<jobs, delivered, workers>>

DelayPasses(t) ==
    /\ ~tasks[t].due
    /\ tasks' = [tasks EXCEPT ![t].due = TRUE]
    /\ UNCHANGED <<jobs, delivered, workers>>

JobEnds(t, j) ==
    /\ j <= Len(jobs[t]) /\ jobs[t][j] = "open"
    /\ \E end \in {"done", "failed"} : jobs' = [jobs EXCEPT ![t][j] = end]
    /\ UNCHANGED <<tasks, delivered, workers>>

Process(w) ==
    \/ Poll(w) \/ Handle(w) \/ OnComplete(w) \/ SchedulePoll(w) \/ Complete(w)
    \/ FailRead(w) \/ FailRequeue(w) \/ FailBump(w) \/ FailClose(w)
    \/ \E retryable \in BOOLEAN : HandleFails(w, retryable)

Next ==
    \/ \E t \in Tasks : Enqueue(t) \/ Cancel(t) \/ Retry(t) \/ LeaseExpires(t) \/ DelayPasses(t)
    \/ \E t \in Tasks, w \in Workers : Claim(w, t)
    \/ \E t \in Tasks, j \in 1..JobCap : JobEnds(t, j)
    \/ \E w \in Workers : Process(w) \/ WorkerCrash(w)

Spec == Init /\ [][Next]_vars

(* A loop polls every 500 ms, a call has a timeout, time passes, a provider*)
(* ends its jobs and answers a poll now and then.                          *)
Fairness ==
    /\ \A w \in Workers : WF_vars(Process(w))
    /\ \A t \in Tasks : SF_vars(\E w \in Workers : Claim(w, t))
    /\ \A t \in Tasks : WF_vars(LeaseExpires(t)) /\ WF_vars(DelayPasses(t))
    /\ \A t \in Tasks, j \in 1..JobCap : WF_vars(JobEnds(t, j))

-----------------------------------------------------------------------------
(* A task that succeeded through an asynchronous plugin names an external  *)
(* job that is done and whose artifacts were merged into the resource,     *)
(* also when a worker whose lease expired reports late, or an operator     *)
(* cancels and retries in between (worker.go:165-180, tasks.go:316-331).   *)
SucceededDelivered ==
    \A t \in Async : tasks[t].status = "succeeded" =>
        /\ tasks[t].ext # NoJob
        /\ jobs[t][tasks[t].ext] = "done"
        /\ tasks[t].ext \in delivered[t]

(* A queued task that has no external job has an attempt left, although    *)
(* Fail decides on a row that it read without a lock (tasks.go:291-303).   *)
QueuedHasAttempt ==
    \A t \in Tasks : tasks[t].status = "queued" /\ tasks[t].ext = NoJob =>
        tasks[t].attempt < MaxAttempts

(* What is settled is left alone by late workers: only an operator's retry *)
(* takes a failed or cancelled task up again, nothing a succeeded one.     *)
SettledStays ==
    [][\A t \in Tasks : tasks[t].status \in {"succeeded", "failed", "cancelled"} =>
         \/ tasks'[t] = tasks[t]
         \/ tasks[t].status # "succeeded" /\ tasks'[t] = NewTask]_vars

(* Every queued or running task is settled in the end.                     *)
TaskSettles ==
    \A t \in Tasks : tasks[t].status \in {"queued", "running"}
                        ~> tasks[t].status \in {"succeeded", "failed", "cancelled"}
=============================================================================
