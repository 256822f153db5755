------------------------- MODULE PluginQueueProofs --------------------------
(***************************************************************************)
(* What late workers, crashes, cancellations and retries cannot spoil, for *)
(* any number of tasks, loops, attempts and external jobs. The invariant   *)
(* says what a loop has established at each of its steps; none of it can   *)
(* be undone by others, since a job that is done stays done and what was   *)
(* merged stays merged.                                                    *)
(***************************************************************************)
EXTENDS PluginQueue, SequenceTheorems, TLAPS

JobState == {"open", "done", "failed"}

ProviderTyped ==
    /\ jobs \in [Tasks -> Seq(JobState)]
    /\ \A t \in Tasks : Len(jobs[t]) <= JobCap
    /\ delivered \in [Tasks -> SUBSET (1..JobCap)]

RowsTyped == tasks \in [Tasks -> TaskRec] /\ workers \in [Workers -> WorkerRec]

(* A loop's id names a job that was started; one that is about to report a *)
(* result has it, and one that is about to retry leaves an attempt.        *)
WorkerOK(q) ==
    /\ q.job \in 0..Len(jobs[q.task])
    /\ q.pc \in {"schedule", "deliver"} => q.task \in Async
    /\ q.pc \in {"schedule", "deliver", "finish"} => q.job # NoJob
    /\ q.pc = "deliver" => jobs[q.task][q.job] = "done"
    /\ q.pc = "finish" /\ q.task \in Async => jobs[q.task][q.job] = "done" /\ q.job \in delivered[q.task]
    /\ q.pc = "requeue" => q.attempt < MaxAttempts

(* The same of a row, with the two properties.                             *)
RowOK(t, row) ==
    /\ row.ext \in 0..Len(jobs[t])
    /\ t \in Async /\ row.status = "succeeded" =>
        row.ext # NoJob /\ jobs[t][row.ext] = "done" /\ row.ext \in delivered[t]
    /\ row.status = "queued" /\ row.ext = NoJob => row.attempt < MaxAttempts
    /\ row.due \/ row.status = "queued"

QueueInv ==
    /\ ProviderTyped /\ RowsTyped
    /\ \A w \in Workers : WorkerOK(workers[w])
    /\ \A t \in Tasks : RowOK(t, tasks[t])

-----------------------------------------------------------------------------
(* The rows and loops that start anew.                                     *)
LEMMA Defaults ==
    ASSUME QueueAssumption, QueueInv
    PROVE  /\ NewTask \in TaskRec /\ IdleWorker \in WorkerRec
           /\ \A t \in Tasks : RowOK(t, NewTask)
           /\ WorkerOK(IdleWorker)
<1>1. (CHOOSE t \in Tasks : TRUE) \in Tasks
  BY DEF QueueAssumption
<1>2. \A t \in Tasks : Len(jobs[t]) \in Nat
  <2> TAKE t \in Tasks
  <2>1. jobs[t] \in Seq(JobState)
    BY DEF QueueInv, ProviderTyped
  <2> QED
    BY <2>1, LenProperties
<1>3. 0 \in 0..JobCap /\ 0 < MaxAttempts
  BY DEF QueueAssumption
<1>4. NewTask \in TaskRec /\ IdleWorker \in WorkerRec
  BY <1>1, <1>3 DEF NewTask, IdleWorker, TaskRec, WorkerRec, Status, WorkerPc, NoJob
<1>5. \A t \in Tasks : RowOK(t, NewTask)
  <2> TAKE t \in Tasks
  <2>1. NewTask.ext = 0 /\ NewTask.status = "queued" /\ NewTask.attempt = 0 /\ NewTask.due
    BY DEF NewTask, NoJob
  <2>2. 0 \in 0..Len(jobs[t])
    BY <1>2
  <2>3. RowOK(t, NewTask) <=> (0 \in 0..Len(jobs[t]) /\ (0 = NoJob => 0 < MaxAttempts))
    BY <2>1, Zenon DEF RowOK
  <2> QED
    BY <1>3, <2>2, <2>3
<1>6. WorkerOK(IdleWorker)
  BY <1>1, <1>2 DEF IdleWorker, WorkerOK, NoJob
<1> QED
  BY <1>4, <1>5, <1>6

LEMMA InitInv ==
    ASSUME QueueAssumption
    PROVE  Init => QueueInv
<1> SUFFICES ASSUME Init PROVE QueueInv
  OBVIOUS
<1>1. (CHOOSE t \in Tasks : TRUE) \in Tasks
  BY DEF QueueAssumption
<1>2. ProviderTyped
  BY DEF Init, ProviderTyped, QueueAssumption
<1>3. NoRow \in TaskRec /\ IdleWorker \in WorkerRec
  <2>1. 0 \in 0..JobCap
    BY DEF QueueAssumption
  <2>2. NewTask \in TaskRec
    BY <2>1 DEF NewTask, TaskRec, Status, NoJob
  <2>3. NoRow \in TaskRec
    BY <2>2 DEF NoRow, TaskRec, Status
  <2>4. IdleWorker \in WorkerRec
    BY <1>1, <2>1 DEF IdleWorker, WorkerRec, WorkerPc, NoJob
  <2> QED
    BY <2>3, <2>4
<1>4. RowsTyped
  BY <1>3 DEF Init, RowsTyped
<1>5. \A t \in Tasks : jobs[t] = <<>>
  BY DEF Init
<1>6. \A w \in Workers : WorkerOK(workers[w])
  BY <1>1, <1>5 DEF Init, WorkerOK, IdleWorker, NoJob
<1>7. \A t \in Tasks : RowOK(t, tasks[t])
  <2>1. NoRow.ext = 0 /\ NoRow.status = "absent" /\ NoRow.due
    BY DEF NoRow, NewTask, NoJob
  <2>2. \A t \in Tasks : tasks[t] = NoRow
    BY DEF Init
  <2> QED
    <3> TAKE t \in Tasks
    <3>1. 0 \in 0..Len(jobs[t])
      BY <1>5
    <3> QED
      BY <2>1, <2>2, <3>1, Zenon DEF RowOK
<1> QED
  BY <1>2, <1>4, <1>6, <1>7 DEF QueueInv

-----------------------------------------------------------------------------
(* The provider's side only grows: jobs are added, an open one ends, what  *)
(* is merged stays.                                                        *)
Grown ==
    /\ ProviderTyped'
    /\ \A t \in Tasks :
        /\ Len(jobs[t]) <= Len(jobs'[t])
        /\ \A j \in 1..Len(jobs[t]) : jobs[t][j] = "done" => jobs'[t][j] = "done"
        /\ delivered[t] \subseteq delivered'[t]

(* So a step keeps the invariant if the row and the loop it writes satisfy *)
(* their parts of it.                                                      *)
LEMMA Frame ==
    ASSUME QueueAssumption, QueueInv, Grown,
           tasks' = tasks \/ \E t \in Tasks, row \in TaskRec :
                                 tasks' = [tasks EXCEPT ![t] = row] /\ RowOK(t, row)',
           workers' = workers \/ \E w \in Workers, q \in WorkerRec :
                                     workers' = [workers EXCEPT ![w] = q] /\ WorkerOK(q)'
    PROVE  QueueInv'
<1>1. RowsTyped'
  BY DEF QueueInv, RowsTyped
<1>2. ASSUME NEW q \in WorkerRec, WorkerOK(q) PROVE WorkerOK(q)'
  <2>1. q.task \in Tasks /\ q.job \in Nat /\ Len(jobs[q.task]) \in Nat /\ Len(jobs'[q.task]) \in Nat
    BY <1>2 DEF QueueInv, ProviderTyped, Grown, WorkerRec
  <2>2. q.job # NoJob => q.job \in 1..Len(jobs[q.task])
    BY <1>2, <2>1 DEF WorkerOK, NoJob
  <2> QED
    BY <1>2, <2>1, <2>2 DEF WorkerOK, Grown
<1>3. ASSUME NEW t \in Tasks, NEW row \in TaskRec, RowOK(t, row) PROVE RowOK(t, row)'
  <2>1. row.ext \in Nat /\ Len(jobs[t]) \in Nat /\ Len(jobs'[t]) \in Nat
    BY <1>3 DEF QueueInv, ProviderTyped, Grown, TaskRec
  <2>2. row.ext # NoJob => row.ext \in 1..Len(jobs[t])
    BY <1>3, <2>1 DEF RowOK, NoJob
  <2> QED
    BY <1>3, <2>1, <2>2 DEF RowOK, Grown
<1>4. \A w \in Workers : WorkerOK(workers[w])'
  BY <1>2 DEF QueueInv, RowsTyped
<1>5. \A t \in Tasks : RowOK(t, tasks[t])'
  BY <1>3 DEF QueueInv, RowsTyped
<1> QED
  BY <1>1, <1>4, <1>5 DEF QueueInv, Grown

LEMMA ProviderStays ==
    ASSUME QueueInv, UNCHANGED <<jobs, delivered>>
    PROVE  /\ Grown
           /\ \A q \in WorkerRec : WorkerOK(q)' = WorkerOK(q)
           /\ \A t \in Tasks, row \in TaskRec : RowOK(t, row)' = RowOK(t, row)
<1>1. \A t \in Tasks : Len(jobs[t]) \in Nat
  BY DEF QueueInv, ProviderTyped
<1>2. Grown
  BY <1>1 DEF Grown, QueueInv, ProviderTyped
<1> QED
  BY <1>2 DEF WorkerOK, RowOK

(* A step beside the provider needs its parts in the present state only.   *)
LEMMA Quiet ==
    ASSUME QueueAssumption, QueueInv, UNCHANGED <<jobs, delivered>>,
           tasks' = tasks \/ \E t \in Tasks, row \in TaskRec :
                                 tasks' = [tasks EXCEPT ![t] = row] /\ RowOK(t, row),
           workers' = workers \/ \E w \in Workers, q \in WorkerRec :
                                     workers' = [workers EXCEPT ![w] = q] /\ WorkerOK(q)
    PROVE  QueueInv'
<1>1. Grown
  BY ProviderStays
<1>2. tasks' = tasks \/ \E t \in Tasks, row \in TaskRec :
                            tasks' = [tasks EXCEPT ![t] = row] /\ RowOK(t, row)'
  BY ProviderStays, Zenon
<1>3. workers' = workers \/ \E w \in Workers, q \in WorkerRec :
                                workers' = [workers EXCEPT ![w] = q] /\ WorkerOK(q)'
  BY ProviderStays, Zenon
<1> QED
  BY <1>1, <1>2, <1>3, Frame

(* What a loop may rely on.                                                *)
LEMMA Held ==
    ASSUME QueueInv, NEW w \in Workers
    PROVE  /\ workers[w] \in WorkerRec /\ WorkerOK(workers[w])
           /\ TaskOf(w) \in Tasks
           /\ tasks[TaskOf(w)] \in TaskRec /\ RowOK(TaskOf(w), tasks[TaskOf(w)])
           /\ jobs[TaskOf(w)] \in Seq(JobState)
           /\ Len(jobs[TaskOf(w)]) \in Nat /\ Len(jobs[TaskOf(w)]) <= JobCap
<1>1. workers[w] \in WorkerRec /\ WorkerOK(workers[w])
  BY DEF QueueInv, RowsTyped
<1>2. TaskOf(w) \in Tasks
  BY <1>1 DEF TaskOf, WorkerRec
<1>3. tasks[TaskOf(w)] \in TaskRec /\ RowOK(TaskOf(w), tasks[TaskOf(w)])
  BY <1>2 DEF QueueInv, RowsTyped
<1>4. jobs[TaskOf(w)] \in Seq(JobState) /\ Len(jobs[TaskOf(w)]) <= JobCap
  BY <1>2 DEF QueueInv, ProviderTyped
<1> QED
  BY <1>1, <1>2, <1>3, <1>4, LenProperties

LEMMA GoIdleKeeps ==
    ASSUME QueueAssumption, QueueInv, UNCHANGED <<jobs, delivered>>,
           NEW w \in Workers, GoIdle(w),
           NEW row \in TaskRec, RowOK(TaskOf(w), row), WhileRunning(TaskOf(w), row)
    PROVE  QueueInv'
<1>1. IdleWorker \in WorkerRec /\ WorkerOK(IdleWorker)
  BY Defaults
<1>2. \E q \in WorkerRec : workers' = [workers EXCEPT ![w] = q] /\ WorkerOK(q)
  BY <1>1, Zenon DEF GoIdle
<1>3. tasks' = tasks \/ \E t \in Tasks : tasks' = [tasks EXCEPT ![t] = row] /\ RowOK(t, row)
  BY Held DEF WhileRunning
<1> QED
  BY <1>2, <1>3, Quiet

LEMMA RequestKeeps ==
    ASSUME QueueAssumption, QueueInv, NEW t \in Tasks,
           Enqueue(t) \/ Cancel(t) \/ Retry(t) \/ LeaseExpires(t) \/ DelayPasses(t)
    PROVE  QueueInv'
<1>1. tasks[t] \in TaskRec /\ RowOK(t, tasks[t])
  BY DEF QueueInv, RowsTyped
<1>2. CASE Enqueue(t) \/ Retry(t)
  <2>1. NewTask \in TaskRec /\ RowOK(t, NewTask)
    BY Defaults
  <2> QED
    BY <1>2, <2>1, Quiet DEF Enqueue, Retry
<1>3. CASE Cancel(t)
  <2> DEFINE row == [tasks[t] EXCEPT !.status = "cancelled", !.due = TRUE, !.expired = FALSE]
  <2>1. row \in TaskRec
    BY <1>1 DEF TaskRec, Status
  <2>2. RowOK(t, row)
    <3>1. row.ext = tasks[t].ext /\ row.status = "cancelled" /\ row.due
      BY <1>1 DEF TaskRec
    <3> QED
      BY <1>1, <3>1 DEF RowOK
  <2>3. tasks' = [tasks EXCEPT ![t] = row]
    BY <1>3 DEF Cancel, QueueInv, RowsTyped
  <2> QED
    BY <1>3, <2>1, <2>2, <2>3, Quiet DEF Cancel
<1>4. CASE LeaseExpires(t)
  <2> DEFINE row == [tasks[t] EXCEPT !.expired = TRUE]
  <2>1. row \in TaskRec
    BY <1>1 DEF TaskRec
  <2>2. RowOK(t, row)
    <3>1. /\ row.ext = tasks[t].ext /\ row.status = tasks[t].status
          /\ row.attempt = tasks[t].attempt /\ row.due = tasks[t].due
      BY <1>1 DEF TaskRec
    <3> HIDE DEF row
    <3> QED
      BY <1>1, <3>1 DEF RowOK
  <2>3. tasks' = [tasks EXCEPT ![t] = row]
    BY <1>4 DEF LeaseExpires, QueueInv, RowsTyped
  <2> QED
    BY <1>4, <2>1, <2>2, <2>3, Quiet DEF LeaseExpires
<1>5. CASE DelayPasses(t)
  <2> DEFINE row == [tasks[t] EXCEPT !.due = TRUE]
  <2>1. row \in TaskRec
    BY <1>1 DEF TaskRec
  <2>2. RowOK(t, row)
    <3>1. /\ row.ext = tasks[t].ext /\ row.status = tasks[t].status
          /\ row.attempt = tasks[t].attempt /\ row.due
      BY <1>1 DEF TaskRec
    <3> HIDE DEF row
    <3> QED
      BY <1>1, <3>1 DEF RowOK
  <2>3. tasks' = [tasks EXCEPT ![t] = row]
    BY <1>5 DEF DelayPasses, QueueInv, RowsTyped
  <2> QED
    BY <1>5, <2>1, <2>2, <2>3, Quiet DEF DelayPasses
<1> QED
  BY <1>2, <1>3, <1>4, <1>5

LEMMA ClaimKeeps ==
    ASSUME QueueAssumption, QueueInv, NEW t \in Tasks, NEW w \in Workers, Claim(w, t)
    PROVE  QueueInv'
<1>1. tasks[t] \in TaskRec /\ RowOK(t, tasks[t]) /\ Len(jobs[t]) \in Nat
  <2>1. tasks[t] \in TaskRec /\ RowOK(t, tasks[t]) /\ jobs[t] \in Seq(JobState)
    BY DEF QueueInv, RowsTyped, ProviderTyped
  <2> QED
    BY <2>1, LenProperties
<1> DEFINE n == IF tasks[t].ext = NoJob THEN tasks[t].attempt + 1 ELSE tasks[t].attempt
           row == [tasks[t] EXCEPT !.status = "running", !.expired = FALSE, !.attempt = n]
           q == [IdleWorker EXCEPT !.pc = "run", !.task = t, !.job = tasks[t].ext]
<1>2. row \in TaskRec
  <2>1. n \in Nat
    BY <1>1 DEF TaskRec
  <2> HIDE DEF n
  <2> QED
    BY <1>1, <2>1 DEF TaskRec, Status
<1>3. RowOK(t, row)
  <2>1. tasks[t].due
    BY <1>1 DEF Claim, Claimable, RowOK
  <2>2. row.ext = tasks[t].ext /\ row.status = "running" /\ row.due = tasks[t].due
    BY <1>1 DEF TaskRec
  <2> HIDE DEF row
  <2> QED
    BY <1>1, <2>1, <2>2 DEF RowOK
<1>4. tasks' = [tasks EXCEPT ![t] = row]
  BY DEF Claim, QueueInv, RowsTyped
<1>5. q \in WorkerRec
  <2>1. tasks[t].ext \in 0..JobCap
    BY <1>1 DEF TaskRec
  <2> QED
    BY <2>1, Defaults DEF WorkerRec, WorkerPc
<1>6. WorkerOK(q)
  <2>1. q.pc = "run" /\ q.task = t /\ q.job = tasks[t].ext
    BY Defaults DEF WorkerRec
  <2> HIDE DEF q
  <2> QED
    BY <1>1, <2>1 DEF WorkerOK, RowOK
<1>7. workers' = [workers EXCEPT ![w] = q] /\ UNCHANGED <<jobs, delivered>>
  BY DEF Claim
<1> HIDE DEF row, q
<1> QED
  BY <1>2, <1>3, <1>4, <1>5, <1>6, <1>7, Quiet

(* The call to the provider or the merge failed.                           *)
LEMMA FailsOver ==
    ASSUME QueueAssumption, QueueInv, NEW w \in Workers, NEW retryable \in BOOLEAN, ToFail(w, retryable)
    PROVE  \E q \in WorkerRec : /\ workers' = [workers EXCEPT ![w] = q]
                               /\ WorkerOK(q) /\ q.job = NoJob /\ q.pc = "fail" /\ q.task = TaskOf(w)
<1> DEFINE q == [workers[w] EXCEPT !.pc = "fail", !.job = NoJob, !.retryable = retryable]
<1>1. 0 \in 0..JobCap
  BY DEF QueueAssumption
<1>2. q \in WorkerRec
  BY <1>1, Held DEF WorkerRec, WorkerPc, NoJob
<1>3. q.pc = "fail" /\ q.job = NoJob /\ q.task = TaskOf(w)
  BY Held DEF WorkerRec, TaskOf
<1>4. workers' = [workers EXCEPT ![w] = q]
  BY DEF ToFail, QueueInv, RowsTyped
<1> HIDE DEF q
<1>5. WorkerOK(q)
  BY <1>3, Held DEF WorkerOK, NoJob
<1> QED
  BY <1>2, <1>3, <1>4, <1>5

LEMMA Moves ==
    ASSUME QueueInv, NEW w \in Workers, NEW pc \in WorkerPc, Goto(w, pc)
    PROVE  \E q \in WorkerRec : /\ workers' = [workers EXCEPT ![w] = q]
                               /\ q.pc = pc /\ q.task = TaskOf(w)
                               /\ q.job = workers[w].job /\ q.attempt = workers[w].attempt
<1> DEFINE q == [workers[w] EXCEPT !.pc = pc]
<1>1. q \in WorkerRec
  BY Held DEF WorkerRec
<1>2. q.pc = pc /\ q.task = TaskOf(w) /\ q.job = workers[w].job /\ q.attempt = workers[w].attempt
  BY Held DEF WorkerRec, TaskOf
<1>3. workers' = [workers EXCEPT ![w] = q]
  BY DEF Goto, QueueInv, RowsTyped
<1> QED
  BY <1>1, <1>2, <1>3

LEMMA PollKeeps ==
    ASSUME QueueAssumption, QueueInv, NEW w \in Workers, Poll(w)
    PROVE  QueueInv'
<1>1. CASE \E retryable \in BOOLEAN : ToFail(w, retryable)
  BY <1>1, FailsOver, Quiet DEF Poll
<1>2. CASE Goto(w, IF PollDone(TaskOf(w), workers[w].job) THEN "deliver" ELSE "schedule")
  <2> DEFINE pc == IF PollDone(TaskOf(w), workers[w].job) THEN "deliver" ELSE "schedule"
  <2>1. pc \in WorkerPc
    BY DEF WorkerPc
  <2>2. PICK q \in WorkerRec : /\ workers' = [workers EXCEPT ![w] = q]
                              /\ q.pc = pc /\ q.task = TaskOf(w) /\ q.job = workers[w].job
    BY <1>2, <2>1, Moves
  <2>3. WorkerOK(q)
    BY <2>2, Held DEF Poll, Polls, WorkerOK, PollDone, TaskOf, At
  <2> QED
    BY <2>2, <2>3, Quiet DEF Poll
<1> QED
  BY <1>1, <1>2 DEF Poll

LEMMA HandleKeeps ==
    ASSUME QueueAssumption, QueueInv, NEW w \in Workers, Handle(w)
    PROVE  QueueInv'
<1> DEFINE t == TaskOf(w)
           q(j) == [workers[w] EXCEPT !.job = j, !.pc = IF t \in Async THEN "schedule" ELSE "finish"]
<1> HIDE DEF t
<1>1. t \in Tasks /\ jobs[t] \in Seq(JobState) /\ Len(jobs[t]) \in Nat /\ Len(jobs[t]) <= JobCap
  BY Held DEF t
<1>2. PICK j \in 1..Len(jobs[t]) + 1 :
        /\ j = Len(jobs[t]) + 1 \/ t \in Async
        /\ j <= JobCap
        /\ jobs' = IF j > Len(jobs[t]) THEN [jobs EXCEPT ![t] = Append(@, "open")] ELSE jobs
        /\ workers' = [workers EXCEPT ![w].job = j,
                             ![w].pc = IF t \in Async THEN "schedule" ELSE "finish"]
           \/ ToFail(w, TRUE)
  BY DEF Handle, t
<1>3. UNCHANGED <<tasks, delivered>>
  BY DEF Handle
<1>4. Grown /\ j \in 1..Len(jobs'[t])
  <2>1. CASE jobs' = jobs /\ j <= Len(jobs[t])
    BY <1>1, <1>2, <1>3, <2>1, ProviderStays
  <2>2. CASE j = Len(jobs[t]) + 1 /\ jobs' = [jobs EXCEPT ![t] = Append(@, "open")]
    <3>1. jobs'[t] = Append(jobs[t], "open") /\ \A u \in Tasks \ {t} : jobs'[u] = jobs[u]
      BY <1>1, <2>2 DEF QueueInv, ProviderTyped
    <3>2. /\ jobs'[t] \in Seq(JobState) /\ Len(jobs'[t]) = Len(jobs[t]) + 1
          /\ \A i \in 1..Len(jobs[t]) : jobs'[t][i] = jobs[t][i]
      BY <1>1, <3>1, AppendProperties DEF JobState
    <3>3. jobs' \in [Tasks -> Seq(JobState)]
      BY <1>1, <2>2, <3>1, <3>2 DEF QueueInv, ProviderTyped
    <3>4. \A u \in Tasks : Len(jobs[u]) \in Nat
      BY LenProperties DEF QueueInv, ProviderTyped
    <3>5. ProviderTyped'
      BY <1>1, <1>2, <1>3, <2>2, <3>1, <3>2, <3>3 DEF QueueInv, ProviderTyped
    <3>6. \A u \in Tasks : /\ Len(jobs[u]) <= Len(jobs'[u])
                           /\ \A i \in 1..Len(jobs[u]) : jobs'[u][i] = jobs[u][i]
      BY <1>1, <3>1, <3>2, <3>4
    <3> QED
      BY <1>1, <1>3, <2>2, <3>2, <3>5, <3>6 DEF Grown
  <2> QED
    BY <1>1, <1>2, <2>1, <2>2
<1>5. CASE ToFail(w, TRUE)
  <2>1. PICK p \in WorkerRec : /\ workers' = [workers EXCEPT ![w] = p]
                              /\ p.job = NoJob /\ p.pc = "fail" /\ p.task = t
    BY <1>5, FailsOver DEF t
  <2>2. WorkerOK(p)'
    BY <1>4, <2>1 DEF WorkerOK, NoJob
  <2> QED
    BY <1>3, <1>4, <2>1, <2>2, Frame
<1>6. CASE workers' = [workers EXCEPT ![w].job = j,
                             ![w].pc = IF t \in Async THEN "schedule" ELSE "finish"]
  <2>1. q(j) \in WorkerRec
    <3>1. j \in 0..JobCap
      BY <1>1, <1>2
    <3> QED
      BY <3>1, Held DEF WorkerRec, WorkerPc
  <2>2. /\ q(j).job = j /\ q(j).task = t
        /\ q(j).pc = IF t \in Async THEN "schedule" ELSE "finish"
    BY Held DEF WorkerRec, TaskOf, t
  <2>3. workers' = [workers EXCEPT ![w] = q(j)]
    BY <1>6 DEF QueueInv, RowsTyped
  <2>4. PICK p \in WorkerRec : /\ workers' = [workers EXCEPT ![w] = p]
                              /\ p.job = j /\ p.task = t
                              /\ p.pc = IF t \in Async THEN "schedule" ELSE "finish"
    BY <2>1, <2>2, <2>3
  <2>5. WorkerOK(p)'
    BY <1>1, <1>4, <2>4 DEF WorkerOK, NoJob
  <2> QED
    BY <1>3, <1>4, <2>4, <2>5, Frame
<1> QED
  BY <1>2, <1>5, <1>6

LEMMA OnCompleteKeeps ==
    ASSUME QueueAssumption, QueueInv, NEW w \in Workers, OnComplete(w)
    PROVE  QueueInv'
<1>1. UNCHANGED <<tasks, jobs>>
  BY DEF OnComplete
<1>2. CASE ToFail(w, TRUE) /\ UNCHANGED delivered
  BY <1>1, <1>2, FailsOver, Quiet
<1>3. CASE /\ delivered' = [delivered EXCEPT ![TaskOf(w)] = @ \union {workers[w].job}]
           /\ Goto(w, "finish")
  <2>1. workers[w].job \in 1..Len(jobs[TaskOf(w)]) /\ jobs[TaskOf(w)][workers[w].job] = "done"
    BY Held DEF OnComplete, At, WorkerOK, TaskOf, NoJob
  <2>2. workers[w].job \in 1..JobCap
    BY <2>1, Held DEF QueueAssumption
  <2>3. \A t \in Tasks : Len(jobs[t]) \in Nat
    BY LenProperties DEF QueueInv, ProviderTyped
  <2>4. ProviderTyped'
    BY <1>1, <1>3, <2>2 DEF QueueInv, ProviderTyped
  <2>5. Grown
    BY <1>1, <1>3, <2>3, <2>4 DEF Grown, QueueInv, ProviderTyped
  <2>6. PICK q \in WorkerRec : /\ workers' = [workers EXCEPT ![w] = q]
                              /\ q.pc = "finish" /\ q.task = TaskOf(w) /\ q.job = workers[w].job
    BY <1>3, Moves DEF WorkerPc
  <2>7. q.job \in delivered'[q.task]
    BY <1>3, <2>6, Held DEF QueueInv, ProviderTyped
  <2>8. WorkerOK(q)'
    BY <1>1, <2>1, <2>6, <2>7, Held DEF WorkerOK, NoJob
  <2> QED
    BY <1>1, <2>5, <2>6, <2>8, Frame
<1> QED
  BY <1>2, <1>3 DEF OnComplete

LEMMA JobEndsKeeps ==
    ASSUME QueueAssumption, QueueInv, NEW t \in Tasks, NEW j \in 1..JobCap, JobEnds(t, j)
    PROVE  QueueInv'
<1>1. UNCHANGED <<tasks, delivered, workers>> /\ j \in 1..Len(jobs[t]) /\ jobs[t][j] = "open"
  BY LenProperties DEF JobEnds, QueueInv, ProviderTyped, QueueAssumption
<1>2. PICK end \in {"done", "failed"} : jobs' = [jobs EXCEPT ![t][j] = end]
  BY DEF JobEnds
<1>3. jobs[t] \in Seq(JobState) /\ Len(jobs[t]) <= JobCap
  BY DEF QueueInv, ProviderTyped
<1>4. jobs'[t] = [jobs[t] EXCEPT ![j] = end] /\ \A u \in Tasks \ {t} : jobs'[u] = jobs[u]
  BY <1>2 DEF QueueInv, ProviderTyped
<1>5. /\ jobs'[t] \in Seq(JobState) /\ Len(jobs'[t]) = Len(jobs[t])
      /\ \A i \in 1..Len(jobs[t]) : i # j => jobs'[t][i] = jobs[t][i]
  BY <1>1, <1>3, <1>4, ExceptSeq DEF JobState
<1>6. ProviderTyped'
  BY <1>1, <1>2, <1>3, <1>4, <1>5 DEF QueueInv, ProviderTyped
<1>7. \A u \in Tasks : Len(jobs[u]) \in Nat
  BY LenProperties DEF QueueInv, ProviderTyped
<1>8. \A u \in Tasks : /\ Len(jobs[u]) <= Len(jobs'[u])
                       /\ \A i \in 1..Len(jobs[u]) : jobs[u][i] = "done" => jobs'[u][i] = "done"
  BY <1>1, <1>4, <1>5, <1>7
<1>9. Grown
  BY <1>1, <1>6, <1>8 DEF Grown
<1> QED
  BY <1>1, <1>9, Frame

LEMMA ReportKeeps ==
    ASSUME QueueAssumption, QueueInv, NEW w \in Workers,
           SchedulePoll(w) \/ Complete(w) \/ FailRequeue(w) \/ FailClose(w)
    PROVE  QueueInv'
<1> DEFINE t == TaskOf(w)
<1> HIDE DEF t
<1>1. /\ t \in Tasks /\ tasks[t] \in TaskRec /\ RowOK(t, tasks[t])
      /\ workers[w] \in WorkerRec /\ WorkerOK(workers[w]) /\ workers[w].task = t
  BY Held DEF t, TaskOf
<1>2. workers[w].job \in 0..JobCap /\ workers[w].attempt \in Nat
  BY <1>1 DEF WorkerRec
<1>3. GoIdle(w) /\ UNCHANGED <<jobs, delivered>>
  BY DEF SchedulePoll, Complete, FailRequeue, FailClose
<1>4. CASE SchedulePoll(w)
  <2> DEFINE row == [tasks[t] EXCEPT !.status = "queued", !.ext = workers[w].job,
                                     !.due = FALSE, !.expired = FALSE]
  <2>1. row \in TaskRec
    BY <1>1, <1>2 DEF TaskRec, Status
  <2>2. row.status = "queued" /\ row.ext = workers[w].job
    BY <1>1 DEF TaskRec
  <2>3. WhileRunning(t, row)
    BY <1>4 DEF SchedulePoll, t
  <2> HIDE DEF row
  <2>4. RowOK(t, row)
    BY <1>1, <1>4, <2>2 DEF RowOK, WorkerOK, SchedulePoll, At
  <2> QED
    BY <1>3, <2>1, <2>3, <2>4, GoIdleKeeps DEF t
<1>5. CASE Complete(w)
  <2> DEFINE row == [tasks[t] EXCEPT !.status = "succeeded", !.ext = workers[w].job, !.expired = FALSE]
  <2>1. row \in TaskRec
    BY <1>1, <1>2 DEF TaskRec, Status
  <2>2. row.status = "succeeded" /\ row.ext = workers[w].job /\ row.due = tasks[t].due
    BY <1>1 DEF TaskRec
  <2>3. WhileRunning(t, row)
    BY <1>5 DEF Complete, t
  <2> HIDE DEF row
  <2>4. CASE tasks[t].status = "running"
    <3>1. RowOK(t, row)
      BY <1>1, <1>5, <2>2, <2>4 DEF RowOK, WorkerOK, Complete, At
    <3> QED
      BY <1>3, <2>1, <2>3, <3>1, GoIdleKeeps DEF t
  <2>5. CASE tasks[t].status # "running"
    BY <1>1, <1>3, <2>3, <2>5, GoIdleKeeps DEF t, WhileRunning
  <2> QED
    BY <2>4, <2>5
<1>6. CASE FailRequeue(w)
  <2> DEFINE row == [tasks[t] EXCEPT !.status = "queued", !.attempt = workers[w].attempt,
                                     !.due = FALSE, !.expired = FALSE]
  <2>1. row \in TaskRec
    BY <1>1, <1>2 DEF TaskRec, Status
  <2>2. row.status = "queued" /\ row.ext = tasks[t].ext /\ row.attempt = workers[w].attempt
    BY <1>1 DEF TaskRec
  <2>3. WhileRunning(t, row)
    BY <1>6 DEF FailRequeue, t
  <2> HIDE DEF row
  <2>4. RowOK(t, row)
    BY <1>1, <1>6, <2>2 DEF RowOK, WorkerOK, FailRequeue, At
  <2> QED
    BY <1>3, <2>1, <2>3, <2>4, GoIdleKeeps DEF t
<1>7. CASE FailClose(w)
  <2> DEFINE row == [tasks[t] EXCEPT !.status = "failed", !.ext = workers[w].job, !.expired = FALSE]
  <2>1. row \in TaskRec
    BY <1>1, <1>2 DEF TaskRec, Status
  <2>2. row.status = "failed" /\ row.ext = workers[w].job /\ row.due = tasks[t].due
    BY <1>1 DEF TaskRec
  <2>3. WhileRunning(t, row)
    BY <1>7 DEF FailClose, t
  <2> HIDE DEF row
  <2>4. CASE tasks[t].status = "running"
    <3>1. RowOK(t, row)
      BY <1>1, <2>2, <2>4 DEF RowOK, WorkerOK
    <3> QED
      BY <1>3, <2>1, <2>3, <3>1, GoIdleKeeps DEF t
  <2>5. CASE tasks[t].status # "running"
    BY <1>1, <1>3, <2>3, <2>5, GoIdleKeeps DEF t, WhileRunning
  <2> QED
    BY <2>4, <2>5
<1> QED
  BY <1>4, <1>5, <1>6, <1>7

LEMMA ProcessKeeps ==
    ASSUME QueueAssumption, QueueInv, NEW w \in Workers, Process(w) \/ WorkerCrash(w)
    PROVE  QueueInv'
<1>1. CASE WorkerCrash(w)
  BY <1>1, Defaults, Quiet DEF WorkerCrash, GoIdle
<1>2. CASE \E retryable \in BOOLEAN : HandleFails(w, retryable)
  BY <1>2, FailsOver, Quiet DEF HandleFails
<1>3. CASE FailRead(w)
  <2> DEFINE row == tasks[TaskOf(w)]
             pc == IF Requeues(w, row) THEN "requeue"
                   ELSE IF Charged(row) # row.attempt THEN "bump" ELSE "close"
             q == [workers[w] EXCEPT !.job = row.ext, !.attempt = Charged(row),
                                     !.retryable = FALSE, !.pc = pc]
  <2>1. Charged(row) \in Nat /\ row.ext \in 0..JobCap
    BY Held DEF TaskRec, Charged
  <2>2. pc \in WorkerPc
    BY DEF WorkerPc
  <2>3. workers' = [workers EXCEPT ![w] = q] /\ UNCHANGED <<tasks, jobs, delivered>>
    BY <1>3 DEF FailRead, QueueInv, RowsTyped
  <2>4. pc = "requeue" => Charged(row) < MaxAttempts
    BY DEF Requeues, MayRequeue
  <2>5. pc \in {"requeue", "bump", "close"}
    OBVIOUS
  <2> HIDE DEF pc
  <2>6. q \in WorkerRec
    BY <2>1, <2>2, Held DEF WorkerRec
  <2>7. q.pc = pc /\ q.task = TaskOf(w) /\ q.job = row.ext /\ q.attempt = Charged(row)
    BY Held DEF WorkerRec, TaskOf
  <2> HIDE DEF q
  <2>8. WorkerOK(q)
    BY <2>4, <2>5, <2>7, Held DEF WorkerOK, RowOK
  <2> QED
    BY <2>3, <2>6, <2>8, Quiet
<1>4. CASE FailBump(w)
  <2> DEFINE t == TaskOf(w)
             row == [tasks[t] EXCEPT !.attempt = workers[w].attempt]
  <2> HIDE DEF t
  <2>1. t \in Tasks /\ tasks[t] \in TaskRec /\ RowOK(t, tasks[t]) /\ workers[w] \in WorkerRec
    BY Held DEF t
  <2>2. row \in TaskRec
    BY <2>1 DEF TaskRec, WorkerRec
  <2>3. row.status = tasks[t].status /\ row.ext = tasks[t].ext /\ row.due = tasks[t].due
    BY <2>1 DEF TaskRec
  <2>4. WhileRunning(t, row) /\ Goto(w, "close") /\ UNCHANGED <<jobs, delivered>>
    BY <1>4 DEF FailBump, t
  <2> HIDE DEF row
  <2>5. tasks' = tasks \/ (tasks' = [tasks EXCEPT ![t] = row] /\ RowOK(t, row))
    <3>1. CASE tasks[t].status = "running"
      <4>1. RowOK(t, row)
        BY <2>1, <2>3, <3>1 DEF RowOK
      <4> QED
        BY <2>4, <3>1, <4>1 DEF WhileRunning
    <3>2. CASE tasks[t].status # "running"
      <4>1. WhileRunning(t, row)
        BY <2>4
      <4> QED
        BY <3>2, <4>1, Zenon DEF WhileRunning
    <3> QED
      BY <3>1, <3>2
  <2>6. PICK q \in WorkerRec : /\ workers' = [workers EXCEPT ![w] = q]
                              /\ q.pc = "close" /\ q.task = TaskOf(w) /\ q.job = workers[w].job
    BY <2>4, Moves DEF WorkerPc
  <2>7. WorkerOK(q)
    BY <2>6, Held DEF WorkerOK, TaskOf
  <2> QED
    BY <2>1, <2>2, <2>4, <2>5, <2>6, <2>7, Quiet
<1> QED
  BY <1>1, <1>2, <1>3, <1>4, PollKeeps, HandleKeeps, OnCompleteKeeps, ReportKeeps DEF Process

LEMMA QueueInductive ==
    ASSUME QueueAssumption
    PROVE  Spec => []QueueInv
<1>1. QueueInv /\ [Next]_vars => QueueInv'
  <2> SUFFICES ASSUME QueueInv, [Next]_vars PROVE QueueInv'
    OBVIOUS
  <2>1. CASE Next
    BY <2>1, RequestKeeps, ClaimKeeps, JobEndsKeeps, ProcessKeeps DEF Next
  <2>2. CASE UNCHANGED vars
    BY <2>2, Quiet DEF vars
  <2> QED
    BY <2>1, <2>2
<1> QED
  BY <1>1, InitInv, PTL DEF Spec

-----------------------------------------------------------------------------
(* A row that is settled waits for no delay, and what a loop reports is    *)
(* guarded by the status alone: that is enough.                            *)
LEMMA SettledStep ==
    ASSUME QueueInv, [Next]_vars, NEW t \in Tasks,
           tasks[t].status \in {"succeeded", "failed", "cancelled"}
    PROVE  \/ tasks'[t] = tasks[t]
           \/ tasks[t].status # "succeeded" /\ tasks'[t] = NewTask
<1> DEFINE Settled == \/ tasks'[t] = tasks[t]
                      \/ tasks[t].status # "succeeded" /\ tasks'[t] = NewTask
<1>1. tasks \in [Tasks -> TaskRec] /\ tasks[t].due
  BY DEF QueueInv, RowsTyped, RowOK
<1>2. ASSUME NEW u \in Tasks, Enqueue(u) \/ Cancel(u) \/ Retry(u) \/ LeaseExpires(u) \/ DelayPasses(u)
      PROVE  Settled
  BY <1>1, <1>2 DEF Enqueue, Cancel, Retry, LeaseExpires, DelayPasses
<1>3. ASSUME NEW u \in Tasks, NEW w \in Workers, Claim(w, u) PROVE Settled
  BY <1>1, <1>3 DEF Claim, Claimable
<1>4. ASSUME NEW w \in Workers,
             SchedulePoll(w) \/ Complete(w) \/ FailRequeue(w) \/ FailBump(w) \/ FailClose(w)
      PROVE  Settled
  <2>1. PICK u, row : WhileRunning(u, row)
    BY <1>4, Zenon DEF SchedulePoll, Complete, FailRequeue, FailBump, FailClose
  <2>2. CASE tasks[u].status = "running"
    BY <1>1, <2>1, <2>2 DEF WhileRunning
  <2>3. CASE tasks[u].status # "running"
    BY <2>1, <2>3 DEF WhileRunning
  <2> QED
    BY <2>2, <2>3
<1>5. ASSUME UNCHANGED tasks PROVE Settled
  BY <1>5
<1>6. ASSUME NEW w \in Workers, Process(w) \/ WorkerCrash(w) PROVE Settled
  BY <1>4, <1>5, <1>6, Zenon DEF Process, Poll, Handle, OnComplete, FailRead, HandleFails, WorkerCrash
<1>7. ASSUME NEW u \in Tasks, NEW j \in 1..JobCap, JobEnds(u, j) PROVE Settled
  BY <1>5, <1>7 DEF JobEnds
<1>8. CASE Next
  <2>1. CASE \E u \in Tasks : Enqueue(u) \/ Cancel(u) \/ Retry(u) \/ LeaseExpires(u) \/ DelayPasses(u)
    BY <1>2, <2>1, Zenon
  <2>2. CASE \E u \in Tasks, w \in Workers : Claim(w, u)
    BY <1>3, <2>2, Zenon
  <2>3. CASE \E u \in Tasks, j \in 1..JobCap : JobEnds(u, j)
    BY <1>7, <2>3, Zenon
  <2>4. CASE \E w \in Workers : Process(w) \/ WorkerCrash(w)
    BY <1>6, <2>4, Zenon
  <2> QED
    BY <1>8, <2>1, <2>2, <2>3, <2>4, Zenon DEF Next
<1>9. CASE UNCHANGED vars
  BY <1>5, <1>9 DEF vars
<1> QED
  BY <1>8, <1>9

(* Whatever loops, leases, crashes, cancellations and retries do, a task   *)
(* succeeds by an asynchronous plugin only with a job that is done and     *)
(* merged (worker.go:165-180, plugin_repo/tasks.go:316-331).               *)
THEOREM SuccessIsDelivered ==
    ASSUME QueueAssumption
    PROVE  Spec => []SucceededDelivered
<1>1. QueueInv => SucceededDelivered
  BY DEF QueueInv, RowOK, SucceededDelivered, QueueAssumption
<1> QED
  BY <1>1, QueueInductive, PTL

(* No queued task without an external job has spent its attempts, although *)
(* Fail decides on a row read without a lock (plugin_repo/tasks.go:291).   *)
THEOREM QueuedTasksHaveAttempts ==
    ASSUME QueueAssumption
    PROVE  Spec => []QueuedHasAttempt
<1>1. QueueInv => QueuedHasAttempt
  BY DEF QueueInv, RowOK, QueuedHasAttempt
<1> QED
  BY <1>1, QueueInductive, PTL

(* A late report never touches a task that is settled                      *)
(* (plugin_repo/tasks.go:187-331).                                         *)
THEOREM SettledTasksStay ==
    ASSUME QueueAssumption
    PROVE  Spec => SettledStays
<1>1. QueueInv /\ [Next]_vars =>
        [\A t \in Tasks : tasks[t].status \in {"succeeded", "failed", "cancelled"} =>
             \/ tasks'[t] = tasks[t]
             \/ tasks[t].status # "succeeded" /\ tasks'[t] = NewTask]_vars
  BY SettledStep
<1> QED
  BY <1>1, QueueInductive, PTL DEF Spec, SettledStays
=============================================================================
