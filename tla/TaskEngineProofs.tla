-------------------------- MODULE TaskEngineProofs --------------------------
(***************************************************************************)
(* Proofs about TaskEngine for every set of runs, tasks, workers and       *)
(* handlers, every lease term and every attempt budget.                    *)
(*                                                                         *)
(* First the tables and what locks and fences keep in step. Then that      *)
(* TaskEngine implements RunLifecycle: a step of the engine is of one of   *)
(* seven kinds (StepKinds): six are the actions of RunLifecycle, one it    *)
(* does not see. Last, what the reads and writes that no lock and no fence *)
(* protects can still spoil: a run reported as succeeded stays clean, and  *)
(* a failed task is put back only with an attempt left.                    *)
(***************************************************************************)
EXTENDS TaskEngine, TLAPS

-----------------------------------------------------------------------------
(* Type correctness, table by table.  What the guards leave implicit joins *)
(* the types: a task that exists belongs to a run, a worker that is not    *)
(* idle carries a claim, a handler that is not free is about a task.       *)

RunTyped == run \in [Run -> RunRec]

TaskTyped ==
  /\ task \in [Task -> TaskRec]
  /\ \A t \in Task : task[t].status # "absent" => task[t].run \in Run

AttemptTyped == attempt \in [Task -> [AttemptNo -> AttemptStatus]]

WorkerTyped ==
  /\ worker \in [Worker -> WorkerRec]
  /\ \A w \in Worker : worker[w].pc # "idle" =>
       worker[w].task \in Task /\ worker[w].no \in AttemptNo

HandlerTyped ==
  /\ handler \in [Handler -> HandlerRec]
  /\ \A h \in Handler : handler[h].pc # "free" => handler[h].task \in Task
  /\ \A h \in Handler : handler[h].pc = "retrying" => handler[h].max \in 1..AttemptCap

MarksTyped == events \in SUBSET Task /\ produced \in SUBSET Task

TypedState ==
  RunTyped /\ TaskTyped /\ AttemptTyped /\ WorkerTyped /\ HandlerTyped /\ MarksTyped

\* A typed state has the types TaskEngine declares.
LEMMA TypedIsTypeOK == TypedState => TypeOK
BY DEF TypedState, TypeOK, RunTyped, TaskTyped, AttemptTyped, WorkerTyped,
       HandlerTyped, MarksTyped

\* A table that is not written stays typed.
LEMMA Untouched ==
  ASSUME TypedState
  PROVE  /\ UNCHANGED run => RunTyped'
         /\ UNCHANGED task => TaskTyped'
         /\ UNCHANGED attempt => AttemptTyped'
         /\ UNCHANGED worker => WorkerTyped'
         /\ UNCHANGED handler => HandlerTyped'
         /\ UNCHANGED <<events, produced>> => MarksTyped'
BY DEF TypedState, RunTyped, TaskTyped, AttemptTyped, WorkerTyped, HandlerTyped, MarksTyped

\* Zero is a count of attempts and of ticks, and the columns have their defaults.
LEMMA Defaults ==
  /\ 0 \in 0..AttemptCap /\ 0 \in 0..LeaseTerm /\ LeaseTerm \in 0..LeaseTerm
  /\ MaxAttempts \in 1..AttemptCap
  /\ NoTask \notin Task /\ NoRun \notin Run
BY EngineAssumption

\* The row of no task, and that of a new task, are well formed.
LEMMA NewTaskType ==
  /\ BlankTask \in TaskRec
  /\ \A r \in Run, k \in Key \cup {NoKey}, p \in Task \cup {NoTask} :
       /\ NewTask(r, k, p) \in TaskRec
       /\ NewTask(r, k, p).run = r
<1>1. "absent" \in TaskStatus /\ "queued" \in TaskStatus
  BY DEF TaskStatus, ActiveStatus
<1>2. BlankTask \in TaskRec
  BY <1>1, Defaults DEF BlankTask, TaskRec
<1>3. QED
  BY <1>1, <1>2 DEF NewTask, TaskRec

\* Writing one row of crawl_tasks.
LEMMA RowWritten ==
  ASSUME TypedState, NEW t \in Task, NEW row \in TaskRec, row.run \in Run,
         task' = [task EXCEPT ![t] = row]
  PROVE  TaskTyped'
BY DEF TypedState, TaskTyped

\* Releasing a task, whatever status it moves to.
LEMMA TaskReleased ==
  ASSUME TypedState, NEW t \in Task, task[t].status # "absent",
         NEW s \in TaskStatus, NEW d \in BOOLEAN, task' = Released(t, s, d)
  PROVE  TaskTyped'
<1> DEFINE row == [task[t] EXCEPT !.status = s, !.owner = NoWorker,
                                  !.lease = 0, !.due = d]
<1>1. task[t] \in TaskRec /\ task[t].run \in Run
  BY DEF TypedState, TaskTyped
<1>2. row \in TaskRec /\ row.run = task[t].run
  BY <1>1, Defaults DEF TaskRec
<1>3. task' = [task EXCEPT ![t] = row]
  BY DEF Released
<1> HIDE DEF row
<1>4. QED
  BY <1>1, <1>2, <1>3, RowWritten

\* Closing tasks in bulk.
LEMMA TasksBulkClosed ==
  ASSUME TypedState, NEW S, NEW s \in TaskStatus, task' = TasksClosed(S, s)
  PROVE  TaskTyped'
<1> SUFFICES ASSUME NEW t \in Task
             PROVE  /\ task'[t] \in TaskRec
                    /\ task'[t].status # "absent" => task'[t].run \in Run
  BY DEF TaskTyped, TasksClosed
<1>1. task[t] \in TaskRec /\ (task[t].status # "absent" => task[t].run \in Run)
  BY DEF TypedState, TaskTyped
<1>2. CASE t \in S /\ IsActive(t)
  <2> DEFINE row == [task[t] EXCEPT !.status = s, !.owner = NoWorker, !.lease = 0]
  <2>1. row \in TaskRec /\ row.run = task[t].run
    BY <1>1, Defaults DEF TaskRec
  <2>2. task'[t] = row
    BY <1>2 DEF TasksClosed
  <2>3. task[t].status # "absent"
    BY <1>2 DEF IsActive, ActiveStatus
  <2> HIDE DEF row
  <2>4. QED
    BY <1>1, <2>1, <2>2, <2>3
<1>3. CASE ~(t \in S /\ IsActive(t))
  <2>1. task'[t] = task[t]
    BY <1>3 DEF TasksClosed
  <2>2. QED
    BY <1>1, <2>1
<1>4. QED
  BY <1>2, <1>3

\* Closing attempts in bulk, and ending the attempt of a worker.
LEMMA AttemptsWritten ==
  ASSUME TypedState
  PROVE  /\ \A S : attempt' = AttemptsClosed(S) => AttemptTyped'
         /\ \A w \in Worker, s \in AttemptStatus : EndAttempt(w, s) => AttemptTyped'
BY DEF TypedState, AttemptTyped, AttemptsClosed, EndAttempt, AttemptStatus

\* A worker that carries a claim goes on with it, or becomes idle.
LEMMA WorkerGoes ==
  ASSUME TypedState, NEW w \in Worker
  PROVE  /\ worker[w].pc # "idle" => worker[w].task \in Task /\ worker[w].no \in AttemptNo
         /\ GoIdle(w) => WorkerTyped'
         /\ \A label \in WorkerPc :
              worker[w].pc # "idle" /\ Goto(w, label) => WorkerTyped'
<1>1. worker[w] \in WorkerRec
  BY DEF TypedState, WorkerTyped
<1>2. IdleWorker \in WorkerRec
  BY Defaults DEF IdleWorker, WorkerRec, WorkerPc
<1>3. ASSUME NEW label \in WorkerPc
      PROVE  [worker[w] EXCEPT !.pc = label] \in WorkerRec
  BY <1>1 DEF WorkerRec
<1>4. GoIdle(w) => WorkerTyped'
  BY <1>2 DEF GoIdle, TypedState, WorkerTyped, IdleWorker
<1>5. ASSUME NEW label \in WorkerPc, worker[w].pc # "idle", Goto(w, label)
      PROVE  WorkerTyped'
  <2>1. worker' = [worker EXCEPT ![w] = [worker[w] EXCEPT !.pc = label]]
    BY <1>5 DEF Goto
  <2>2. /\ [worker[w] EXCEPT !.pc = label].task = worker[w].task
        /\ [worker[w] EXCEPT !.pc = label].no = worker[w].no
    BY <1>1 DEF WorkerRec
  <2>3. QED
    BY <1>3, <1>5, <2>1, <2>2 DEF TypedState, WorkerTyped
<1>6. QED
  BY <1>4, <1>5 DEF TypedState, WorkerTyped

\* A handler that owes a call of tryFinishRun, or none any more.
LEMMA HandlerGoes ==
  ASSUME TypedState, NEW h \in Handler
  PROVE  /\ Release(h) => HandlerTyped'
         /\ \A t \in Task : OweFinish(h, t) => HandlerTyped'
<1>1. FreeHandler \in HandlerRec
  BY Defaults DEF FreeHandler, HandlerRec, HandlerPc
<1>2. \A t \in Task : [pc |-> "finishing", task |-> t, max |-> 0] \in HandlerRec
  BY Defaults DEF HandlerRec, HandlerPc
<1>3. QED
  BY <1>1, <1>2 DEF Release, OweFinish, FreeHandler, TypedState, HandlerTyped

\* Writing the row of a run.
LEMMA RunWritten ==
  ASSUME TypedState, NEW r, NEW s \in RunStatus,
         run' = [run EXCEPT ![r].status = s]
  PROVE  RunTyped'
<1>1. ASSUME NEW q \in Run
      PROVE  [run[q] EXCEPT !.status = s] \in RunRec
  BY DEF TypedState, RunTyped, RunRec
<1>2. QED
  BY <1>1 DEF TypedState, RunTyped

\* tryFinishRun changes the status of one run, and only to an end.
LEMMA RunFinished ==
  ASSUME TypedState, NEW t \in Task, TryFinish(t)
  PROVE  RunTyped'
<1>1. Outcome(task[t].run) \in RunStatus
  BY DEF Outcome, RunStatus, RunEnd
<1>2. CASE MayEnd(task[t].run)
  BY <1>1, <1>2, RunWritten DEF TryFinish
<1>3. CASE ~MayEnd(task[t].run)
  BY <1>3, Untouched DEF TryFinish
<1>4. QED
  BY <1>2, <1>3

-----------------------------------------------------------------------------

\* Initially every table is empty and every process idle.
LEMMA InitTyped == Init => TypedState
<1>1. BlankRun \in RunRec
  BY DEF BlankRun, RunRec, RunStatus
<1>2. IdleWorker \in WorkerRec
  BY Defaults DEF IdleWorker, WorkerRec, WorkerPc
<1>3. Init => RunTyped /\ AttemptTyped /\ MarksTyped
  BY <1>1 DEF Init, RunTyped, AttemptTyped, MarksTyped, AttemptStatus
<1>4. Init => TaskTyped
  BY NewTaskType DEF Init, TaskTyped, BlankTask
<1>5. Init => WorkerTyped
  BY <1>2 DEF Init, WorkerTyped, IdleWorker
<1>6. FreeHandler \in HandlerRec
  BY Defaults DEF FreeHandler, HandlerRec, HandlerPc
<1>7. Init => HandlerTyped
  BY <1>6 DEF Init, HandlerTyped, FreeHandler
<1>8. QED
  BY <1>3, <1>4, <1>5, <1>7 DEF TypedState

\* Every action keeps the rows well formed, one action at a time.
LEMMA StepTyped == TypedState /\ [Next]_vars => TypedState'
<1> SUFFICES ASSUME TypedState, [Next]_vars
             PROVE  TypedState'
  OBVIOUS
<1>1. ASSUME NEW r \in Run, NEW t \in Task, NEW k \in Key, StartRun(r, t, k)
      PROVE  TypedState'
  <2>1. RunTyped'
    BY <1>1, RunWritten DEF StartRun, RunStatus, ActiveStatus
  <2>2. NewTask(r, k, NoTask) \in TaskRec /\ NewTask(r, k, NoTask).run = r
    BY NewTaskType
  <2>3. TaskTyped'
    BY <1>1, <2>2, RowWritten DEF StartRun
  <2>4. QED
    BY <1>1, <2>1, <2>3, Untouched DEF StartRun, TypedState
<1>2. ASSUME NEW o \in Run, NEW r \in Run, NEW t \in Task, RerunRun(o, r, t)
      PROVE  TypedState'
  <2>1. RunTyped'
    BY <1>2, RunWritten DEF RerunRun, RunStatus, ActiveStatus
  <2>2. PICK root \in Task : task' = [task EXCEPT ![t] = NewTask(r, task[root].key, NoTask)]
    BY <1>2 DEF RerunRun, TasksOf
  <2>3. task[root].key \in Key \cup {NoKey}
    BY DEF TypedState, TaskTyped, TaskRec
  <2>4. /\ NewTask(r, task[root].key, NoTask) \in TaskRec
        /\ NewTask(r, task[root].key, NoTask).run = r
    BY <2>3, NewTaskType
  <2>5. TaskTyped'
    BY <2>2, <2>4, RowWritten
  <2>6. QED
    BY <1>2, <2>1, <2>5, Untouched DEF RerunRun, TypedState
<1>3. ASSUME NEW w \in Worker, NEW t \in Task, Claim(w, t)
      PROVE  TypedState'
  <2> DEFINE n == task[t].attempts + 1
             row == [task[t] EXCEPT !.status = "running", !.attempts = n,
                                    !.owner = w, !.lease = LeaseTerm]
  <2>1. task[t] \in TaskRec /\ task[t].run \in Run
    BY <1>3 DEF TypedState, TaskTyped, Claim, Eligible, RunActive
  <2>2. n \in AttemptNo
    BY <1>3, <2>1, EngineAssumption DEF Claim, Eligible, AttemptsLeft, TaskRec, AttemptNo
  <2> HIDE DEF n
  <2>3. row \in TaskRec /\ row.run = task[t].run
    <3>1. n \in 0..AttemptCap /\ "running" \in TaskStatus
      BY <2>2 DEF AttemptNo, TaskStatus, ActiveStatus
    <3>2. QED
      BY <2>1, <3>1, Defaults DEF TaskRec
  <2>4. /\ task' = [task EXCEPT ![t] = row]
        /\ attempt' = [AttemptsClosed({t}) EXCEPT ![t][n] = "running"]
        /\ worker' = [worker EXCEPT ![w] = [pc |-> "claimed", task |-> t, no |-> n]]
    BY <1>3 DEF Claim, n
  <2> HIDE DEF row
  <2>5. TaskTyped'
    BY <2>1, <2>3, <2>4, RowWritten
  <2>6. AttemptTyped'
    BY <2>2, <2>4 DEF TypedState, AttemptTyped, AttemptsClosed, AttemptStatus
  <2>7. WorkerTyped'
    <3>1. n \in 0..AttemptCap
      BY <2>2 DEF AttemptNo
    <3>2. [pc |-> "claimed", task |-> t, no |-> n] \in WorkerRec
      BY <3>1 DEF WorkerRec, WorkerPc
    <3>3. QED
      BY <2>2, <2>4, <3>2 DEF TypedState, WorkerTyped
  <2>8. RunTyped'
    BY <1>3, RunWritten DEF Claim, RunStatus, ActiveStatus
  <2>9. QED
    BY <1>3, <2>5, <2>6, <2>7, <2>8, Untouched DEF Claim, TypedState
<1>4. ASSUME NEW w \in Worker, Renew(w)
      PROVE  TypedState'
  <2> DEFINE t == worker[w].task
             row == [task[t] EXCEPT !.lease = LeaseTerm]
  <2>1. t \in Task /\ task[t].status = "running"
    BY <1>4 DEF Renew, Fence
  <2>2. task[t] \in TaskRec /\ task[t].run \in Run
    BY <2>1 DEF TypedState, TaskTyped
  <2>3. row \in TaskRec /\ row.run = task[t].run
    BY <2>2, Defaults DEF TaskRec
  <2>4. task' = [task EXCEPT ![t] = row]
    BY <1>4 DEF Renew
  <2> HIDE DEF row, t
  <2>5. TaskTyped'
    BY <2>1, <2>2, <2>3, <2>4, RowWritten
  <2>6. QED
    BY <1>4, <2>5, Untouched DEF Renew, TypedState
<1>5. ASSUME NEW w \in Worker, PageGranted(w)
      PROVE  TypedState'
  <2>1. worker[w].pc # "idle" /\ Goto(w, "executing")
    BY <1>5 DEF PageGranted
  <2>2. WorkerTyped'
    BY <2>1, WorkerGoes DEF WorkerPc
  <2>3. QED
    BY <1>5, <2>2, Untouched DEF PageGranted, TypedState
<1>6. ASSUME NEW w \in Worker, PageRefused(w)
      PROVE  TypedState'
  <2>1. worker[w].pc # "idle" /\ Goto(w, "stopped")
    BY <1>6 DEF PageRefused
  <2>2. WorkerTyped' /\ worker[w].task \in Task
    BY <2>1, WorkerGoes DEF WorkerPc
  <2>3. MarksTyped'
    BY <1>6, <2>2 DEF PageRefused, TypedState, MarksTyped
  <2>4. QED
    BY <1>6, <2>2, <2>3, Untouched DEF PageRefused, TypedState
<1>7. ASSUME NEW w \in Worker, NEW t \in Task, NEW k \in Key, CreateChild(w, t, k)
      PROVE  TypedState'
  <2> DEFINE p == worker[w].task
             row == NewTask(task[p].run, k, p)
  <2>1. p \in Task /\ task[p].run \in Run
    BY <1>7 DEF CreateChild, FenceUnderRun, Fence, RunActive
  <2>2. row \in TaskRec /\ row.run = task[p].run
    BY <2>1, NewTaskType
  <2>3. task' = [task EXCEPT ![t] = row]
    BY <1>7 DEF CreateChild
  <2> HIDE DEF row, p
  <2>4. TaskTyped'
    BY <2>1, <2>2, <2>3, RowWritten
  <2>5. QED
    BY <1>7, <2>4, Untouched DEF CreateChild, TypedState
<1>8. ASSUME NEW w \in Worker, NEW k \in Key, ChildRefused(w, k)
      PROVE  TypedState'
  <2>1. worker[w].task \in Task
    BY <1>8 DEF ChildRefused, FenceUnderRun, Fence
  <2>2. MarksTyped'
    BY <1>8, <2>1 DEF ChildRefused, TypedState, MarksTyped
  <2>3. QED
    BY <1>8, <2>2, Untouched DEF ChildRefused, TypedState
<1>9. ASSUME NEW w \in Worker, RecordTruncation(w)
      PROVE  TypedState'
  <2>1. worker[w].pc # "idle"
    BY <1>9 DEF RecordTruncation
  <2>2. worker[w].task \in Task
    BY <2>1, WorkerGoes
  <2>3. MarksTyped'
    BY <1>9, <2>2 DEF RecordTruncation, TypedState, MarksTyped
  <2>4. QED
    BY <1>9, <2>3, Untouched DEF RecordTruncation, TypedState
<1>10. ASSUME NEW w \in Worker, PersistRecords(w)
      PROVE  TypedState'
  <2>1. worker[w].task \in Task
    BY <1>10 DEF PersistRecords, FenceUnderRun, Fence
  <2>2. MarksTyped'
    BY <1>10, <2>1 DEF PersistRecords, TypedState, MarksTyped
  <2>3. QED
    BY <1>10, <2>2, Untouched DEF PersistRecords, TypedState
<1>11. ASSUME NEW w \in Worker, PersistResource(w)
      PROVE  TypedState'
  <2>1. worker[w].pc # "idle" /\ Goto(w, "observing")
    BY <1>11 DEF PersistResource
  <2>2. WorkerTyped'
    BY <2>1, WorkerGoes DEF WorkerPc
  <2>3. QED
    BY <1>11, <2>2, Untouched DEF PersistResource, TypedState
<1>12. ASSUME NEW w \in Worker, ObserveResource(w)
      PROVE  TypedState'
  <2>1. worker[w].pc # "idle" /\ Goto(w, "executing")
    BY <1>12 DEF ObserveResource
  <2>2. WorkerTyped' /\ worker[w].task \in Task
    BY <2>1, WorkerGoes DEF WorkerPc
  <2>3. MarksTyped'
    BY <1>12, <2>2 DEF ObserveResource, TypedState, MarksTyped
  <2>4. QED
    BY <1>12, <2>2, <2>3, Untouched DEF ObserveResource, TypedState
<1>13. ASSUME NEW w \in Worker, Complete(w)
      PROVE  TypedState'
  <2>1. /\ worker[w].task \in Task /\ task[worker[w].task].status = "running"
        /\ worker[w].pc # "idle"
        /\ task' = Released(worker[w].task, "succeeded", FALSE)
        /\ EndAttempt(w, "succeeded") /\ Goto(w, "finishing")
    BY <1>13 DEF Complete, Fence
  <2>2. TaskTyped'
    BY <2>1, TaskReleased DEF TaskStatus, TaskEnd, ActiveStatus
  <2>3. AttemptTyped'
    BY <2>1, AttemptsWritten DEF AttemptStatus
  <2>4. WorkerTyped'
    BY <2>1, WorkerGoes DEF WorkerPc
  <2>5. QED
    BY <1>13, <2>2, <2>3, <2>4, Untouched DEF Complete, TypedState
<1>14. ASSUME NEW w \in Worker, DeadlineStops(w)
      PROVE  TypedState'
  <2>1. worker[w].pc # "idle" /\ Goto(w, "stopped")
    BY <1>14 DEF DeadlineStops
  <2>2. WorkerTyped'
    BY <2>1, WorkerGoes DEF WorkerPc
  <2>3. QED
    BY <1>14, <2>2, Untouched DEF DeadlineStops, TypedState
<1>15. ASSUME NEW w \in Worker, CheckLimited(w)
      PROVE  TypedState'
  <2>1. worker[w].pc # "idle" /\ Goto(w, "checked")
    BY <1>15 DEF CheckLimited
  <2>2. WorkerTyped'
    BY <2>1, WorkerGoes DEF WorkerPc
  <2>3. QED
    BY <1>15, <2>2, Untouched DEF CheckLimited, TypedState
<1>16. ASSUME NEW w \in Worker, RecordLimit(w)
      PROVE  TypedState'
  <2>1. worker[w].pc # "idle" /\ Goto(w, "recorded")
    BY <1>16 DEF RecordLimit
  <2>2. WorkerTyped' /\ worker[w].task \in Task
    BY <2>1, WorkerGoes DEF WorkerPc
  <2>3. MarksTyped'
    BY <1>16, <2>2 DEF RecordLimit, TypedState, MarksTyped
  <2>4. QED
    BY <1>16, <2>2, <2>3, Untouched DEF RecordLimit, TypedState
<1>17. ASSUME NEW w \in Worker, CompleteLimited(w)
      PROVE  TypedState'
  <2>1. /\ worker[w].task \in Task /\ task[worker[w].task].status = "running"
        /\ worker[w].pc # "idle"
        /\ task' = Released(worker[w].task, "limited", FALSE)
        /\ EndAttempt(w, "ended") /\ Goto(w, "finishing")
    BY <1>17 DEF CompleteLimited, Fence
  <2>2. TaskTyped'
    BY <2>1, TaskReleased DEF TaskStatus, TaskEnd, ActiveStatus
  <2>3. AttemptTyped'
    BY <2>1, AttemptsWritten DEF AttemptStatus
  <2>4. WorkerTyped'
    BY <2>1, WorkerGoes DEF WorkerPc
  <2>5. QED
    BY <1>17, <2>2, <2>3, <2>4, Untouched DEF CompleteLimited, TypedState
<1>18. ASSUME NEW w \in Worker, NEW retryable \in BOOLEAN, PlanFail(w, retryable)
      PROVE  TypedState'
  <2>1. /\ worker[w].pc # "idle"
        /\ Goto(w, "retrying") \/ Goto(w, "burying")
    BY <1>18 DEF PlanFail
  <2>2. WorkerTyped'
    BY <2>1, WorkerGoes DEF WorkerPc
  <2>3. QED
    BY <1>18, <2>2, Untouched DEF PlanFail, TypedState
<1>19. ASSUME NEW w \in Worker, FailRetry(w)
      PROVE  TypedState'
  <2>1. /\ worker[w].task \in Task /\ task[worker[w].task].status = "running"
        /\ worker[w].pc # "idle"
        /\ task' = Released(worker[w].task, "queued", FALSE)
        /\ EndAttempt(w, "ended") /\ GoIdle(w)
    BY <1>19 DEF FailRetry, Fence
  <2>2. TaskTyped'
    BY <2>1, TaskReleased DEF TaskStatus, TaskEnd, ActiveStatus
  <2>3. AttemptTyped'
    BY <2>1, AttemptsWritten DEF AttemptStatus
  <2>4. WorkerTyped'
    BY <2>1, WorkerGoes DEF WorkerPc
  <2>5. QED
    BY <1>19, <2>2, <2>3, <2>4, Untouched DEF FailRetry, TypedState
<1>20. ASSUME NEW w \in Worker, FailDead(w)
      PROVE  TypedState'
  <2>1. /\ worker[w].task \in Task /\ task[worker[w].task].status = "running"
        /\ worker[w].pc # "idle"
        /\ task' = Released(worker[w].task, "dead_letter", FALSE)
        /\ EndAttempt(w, "ended") /\ Goto(w, "finishing")
    BY <1>20 DEF FailDead, Fence
  <2>2. TaskTyped'
    BY <2>1, TaskReleased DEF TaskStatus, TaskEnd, ActiveStatus
  <2>3. AttemptTyped'
    BY <2>1, AttemptsWritten DEF AttemptStatus
  <2>4. WorkerTyped'
    BY <2>1, WorkerGoes DEF WorkerPc
  <2>5. QED
    BY <1>20, <2>2, <2>3, <2>4, Untouched DEF FailDead, TypedState
<1>21. ASSUME NEW w \in Worker, DropStale(w)
      PROVE  TypedState'
  BY <1>21, WorkerGoes, Untouched DEF DropStale, TypedState
<1>22. ASSUME NEW w \in Worker, WorkerFinish(w)
      PROVE  TypedState'
  <2>1. worker[w].task \in Task
    BY <1>22, WorkerGoes DEF WorkerFinish
  <2>2. RunTyped'
    BY <1>22, <2>1, RunFinished DEF WorkerFinish
  <2>3. QED
    BY <1>22, <2>2, WorkerGoes, Untouched DEF WorkerFinish, TypedState
<1>23. ASSUME NEW w \in Worker, WorkerCrash(w)
      PROVE  TypedState'
  BY <1>23, WorkerGoes, Untouched DEF WorkerCrash, TypedState
<1>24. ASSUME NEW h \in Handler, NEW t \in Task, Recover(h, t)
      PROVE  TypedState'
  <2>1. AfterExpiry(t) \in TaskStatus
    BY DEF AfterExpiry, TaskStatus, TaskEnd, ActiveStatus
  <2>2. TaskTyped'
    BY <1>24, <2>1, TaskReleased DEF Recover
  <2>3. AttemptTyped' /\ HandlerTyped'
    BY <1>24, AttemptsWritten, HandlerGoes DEF Recover
  <2>4. QED
    BY <1>24, <2>2, <2>3, Untouched DEF Recover, TypedState
<1>25. ASSUME NEW h \in Handler, NEW t \in Task, CancelTask(h, t)
      PROVE  TypedState'
  <2>1. TaskTyped'
    BY <1>25, TasksBulkClosed DEF CancelTask, TaskStatus, TaskEnd
  <2>2. AttemptTyped' /\ HandlerTyped'
    BY <1>25, AttemptsWritten, HandlerGoes DEF CancelTask
  <2>3. QED
    BY <1>25, <2>1, <2>2, Untouched DEF CancelTask, TypedState
<1>26. ASSUME NEW h \in Handler, NEW r \in Run, BeginExpire(h, r)
      PROVE  TypedState'
  <2>1. /\ run[r] \in RunRec
        /\ {t \in TasksOf(r) : IsActive(t)} \in SUBSET Task
    BY DEF TypedState, RunTyped, TasksOf
  <2>2. RunTyped'
    BY <1>26, <2>1 DEF BeginExpire, TypedState, RunTyped, RunRec
  <2>3. QED
    BY <1>26, <2>2, Untouched DEF BeginExpire, TypedState
<1>27. ASSUME NEW h \in Handler, NEW r \in Run, CommitExpire(h, r)
      PROVE  TypedState'
  <2>1. run[r] \in RunRec
    BY DEF TypedState, RunTyped
  <2>2. RunTyped'
    BY <1>27, <2>1 DEF CommitExpire, TypedState, RunTyped, RunRec
  <2>3. TaskTyped'
    BY <1>27, TasksBulkClosed DEF CommitExpire, TaskStatus, TaskEnd
  <2>4. AttemptTyped'
    BY <1>27, AttemptsWritten DEF CommitExpire
  <2>5. MarksTyped' /\ HandlerTyped'
    <3>1. run[r].doomed \in SUBSET Task
      BY <2>1 DEF RunRec
    <3>2. MarksTyped'
      BY <1>27, <3>1 DEF CommitExpire, TypedState, MarksTyped
    <3>3. UNCHANGED handler \/ \E t \in Task : OweFinish(h, t)
      BY <1>27, <3>1 DEF CommitExpire
    <3>4. QED
      BY <3>2, <3>3, HandlerGoes, Untouched
  <2>6. QED
    BY <1>27, <2>2, <2>3, <2>4, <2>5, Untouched DEF CommitExpire, TypedState
<1>28. ASSUME NEW h \in Handler, HandlerFinish(h)
      PROVE  TypedState'
  <2>1. handler[h].task \in Task
    BY <1>28 DEF HandlerFinish, TypedState, HandlerTyped
  <2>2. RunTyped' /\ HandlerTyped'
    BY <1>28, <2>1, RunFinished, HandlerGoes DEF HandlerFinish
  <2>3. QED
    BY <1>28, <2>2, Untouched DEF HandlerFinish, TypedState
<1>29. ASSUME NEW h \in Handler, HandlerCrash(h)
      PROVE  TypedState'
  <2>1. RunTyped'
    BY <1>29 DEF HandlerCrash, TypedState, RunTyped, RunRec
  <2>2. HandlerTyped'
    BY <1>29, HandlerGoes DEF HandlerCrash
  <2>3. QED
    BY <1>29, <2>1, <2>2, Untouched DEF HandlerCrash, TypedState
<1>30. ASSUME NEW r \in Run, CancelRun(r)
      PROVE  TypedState'
  <2>1. RunTyped'
    BY <1>30, RunWritten DEF CancelRun, RunStatus, RunEnd
  <2>2. TaskTyped' /\ AttemptTyped'
    BY <1>30, TasksBulkClosed, AttemptsWritten DEF CancelRun, TaskStatus, TaskEnd
  <2>3. QED
    BY <1>30, <2>1, <2>2, Untouched DEF CancelRun, TypedState
<1>31. ASSUME NEW r \in Run, DeadlinePasses(r)
      PROVE  TypedState'
  <2>1. RunTyped'
    BY <1>31 DEF DeadlinePasses, TypedState, RunTyped, RunRec
  <2>2. QED
    BY <1>31, <2>1, Untouched DEF DeadlinePasses, TypedState
<1>32. ASSUME NEW h \in Handler, NEW t \in Task, ReadRetry(h, t)
      PROVE  TypedState'
  <2> DEFINE granted == IF AttemptsLeft(t) THEN task[t].max
                        ELSE task[t].attempts + RetryGrant
             next == [pc |-> "retrying", task |-> t, max |-> granted]
  <2>1. task[t] \in TaskRec
    BY DEF TypedState, TaskTyped
  <2>2. granted <= AttemptCap /\ handler' = [handler EXCEPT ![h] = next]
    BY <1>32 DEF ReadRetry
  <2>3. granted \in 1..AttemptCap /\ granted \in 0..AttemptCap
    BY <2>1, <2>2, EngineAssumption DEF TaskRec
  <2> HIDE DEF granted
  <2>4. next \in HandlerRec
    BY <2>3 DEF HandlerRec, HandlerPc
  <2>5. HandlerTyped'
    BY <2>2, <2>3, <2>4 DEF TypedState, HandlerTyped
  <2>6. QED
    BY <1>32, <2>5, Untouched DEF ReadRetry, TypedState
<1>33. ASSUME NEW h \in Handler, CommitRetry(h)
      PROVE  TypedState'
  <2> DEFINE t == handler[h].task
             row == [task[t] EXCEPT !.status = "queued", !.due = TRUE,
                                    !.max = handler[h].max]
  <2>1. t \in Task /\ handler[h].max \in 1..AttemptCap
    BY <1>33 DEF CommitRetry, TypedState, HandlerTyped
  <2>2. task[t] \in TaskRec /\ task[t].run \in Run
    BY <1>33, <2>1 DEF CommitRetry, MayRetry, Retriable, TypedState, TaskTyped
  <2>3. row \in TaskRec /\ row.run = task[t].run
    BY <2>1, <2>2 DEF TaskRec, TaskStatus, ActiveStatus
  <2>4. task' = [task EXCEPT ![t] = row]
    BY <1>33 DEF CommitRetry
  <2> HIDE DEF row, t
  <2>5. TaskTyped'
    BY <2>1, <2>2, <2>3, <2>4, RowWritten
  <2>6. RunTyped'
    BY <1>33, RunWritten DEF CommitRetry, Reopened, RunStatus, ActiveStatus
  <2>7. HandlerTyped'
    BY <1>33, HandlerGoes DEF CommitRetry
  <2>8. QED
    BY <1>33, <2>5, <2>6, <2>7, Untouched DEF CommitRetry, TypedState
<1>34. ASSUME NEW h \in Handler, RefuseRetry(h)
      PROVE  TypedState'
  <2>1. HandlerTyped'
    BY <1>34, HandlerGoes DEF RefuseRetry
  <2>2. QED
    BY <1>34, <2>1, Untouched DEF RefuseRetry, TypedState
<1>35. ASSUME NEW t \in Task, LeaseTick(t)
      PROVE  TypedState'
  <2> DEFINE row == [task[t] EXCEPT !.lease = @ - 1]
  <2>1. task[t] \in TaskRec /\ task[t].run \in Run
    BY <1>35 DEF LeaseTick, TypedState, TaskTyped
  <2>2. row \in TaskRec /\ row.run = task[t].run
    BY <1>35, <2>1, EngineAssumption DEF LeaseTick, TaskRec
  <2>3. task' = [task EXCEPT ![t] = row]
    BY <1>35 DEF LeaseTick
  <2> HIDE DEF row
  <2>4. TaskTyped'
    BY <2>1, <2>2, <2>3, RowWritten
  <2>5. QED
    BY <1>35, <2>4, Untouched DEF LeaseTick, TypedState
<1>36. ASSUME NEW t \in Task, RetryDue(t)
      PROVE  TypedState'
  <2> DEFINE row == [task[t] EXCEPT !.due = TRUE]
  <2>1. task[t] \in TaskRec /\ task[t].run \in Run
    BY <1>36 DEF RetryDue, TypedState, TaskTyped
  <2>2. row \in TaskRec /\ row.run = task[t].run
    BY <1>36, <2>1, EngineAssumption DEF RetryDue, TaskRec
  <2>3. task' = [task EXCEPT ![t] = row]
    BY <1>36 DEF RetryDue
  <2> HIDE DEF row
  <2>4. TaskTyped'
    BY <2>1, <2>2, <2>3, RowWritten
  <2>5. QED
    BY <1>36, <2>4, Untouched DEF RetryDue, TypedState
<1>37. CASE UNCHANGED vars
  BY <1>37, Untouched DEF vars, TypedState
<1>38. QED
  BY <1>1, <1>2, <1>3, <1>4, <1>5, <1>6, <1>7, <1>8, <1>9, <1>10, <1>11,
     <1>12, <1>13, <1>14, <1>15, <1>16, <1>17, <1>18, <1>19, <1>20, <1>21,
     <1>22, <1>23, <1>24, <1>25, <1>26, <1>27, <1>28, <1>29, <1>30, <1>31,
     <1>32, <1>33, <1>34, <1>35, <1>36, <1>37
     DEF Next, Work, Conclude, Handle

\* Every reachable state is well typed: no action writes a status, a lease, an attempt
\* number or a link outside its column's domain, and a claim never exceeds max_attempts.
THEOREM TypeCorrect == Spec => []TypeOK
<1>1. Spec => []TypedState
  BY InitTyped, StepTyped, PTL DEF Spec
<1>2. QED
  BY <1>1, TypedIsTypeOK, PTL

-----------------------------------------------------------------------------
(* What the updates do to the columns the invariants read.                 *)

\* The columns of task u that only claims and retries change.
SameTask(u) ==
  /\ task'[u].run = task[u].run
  /\ task'[u].attempts = task[u].attempts
  /\ task'[u].max = task[u].max

\* Released changes the status of one task.
LEMMA ReleasedColumns ==
  ASSUME TypedState, NEW t \in Task, NEW s, NEW d, task' = Released(t, s, d)
  PROVE  \A u \in Task : /\ SameTask(u)
                         /\ task'[u].status = IF u = t THEN s ELSE task[u].status
<1>1. \A u \in Task : task[u] \in TaskRec
  BY DEF TypedState, TaskTyped
<1> SUFFICES ASSUME NEW u \in Task
             PROVE  /\ SameTask(u)
                    /\ task'[u].status = IF u = t THEN s ELSE task[u].status
  OBVIOUS
<1>2. CASE u = t
  <2>1. task'[u] = [task[u] EXCEPT !.status = s, !.owner = NoWorker,
                                   !.lease = 0, !.due = d]
    BY <1>2 DEF Released, TypedState, TaskTyped
  <2>2. QED
    BY <1>1, <1>2, <2>1 DEF SameTask, TaskRec
<1>3. CASE u # t
  BY <1>3 DEF Released, SameTask, TypedState, TaskTyped
<1>4. QED
  BY <1>2, <1>3

\* TasksClosed changes the status of the unfinished tasks of a set.
LEMMA ClosedColumns ==
  ASSUME TypedState, NEW S, NEW s, task' = TasksClosed(S, s)
  PROVE  \A u \in Task :
           /\ SameTask(u)
           /\ task'[u].status = IF u \in S /\ IsActive(u) THEN s ELSE task[u].status
<1>1. \A u \in Task : task[u] \in TaskRec
  BY DEF TypedState, TaskTyped
<1> SUFFICES ASSUME NEW u \in Task
             PROVE  /\ SameTask(u)
                    /\ task'[u].status = IF u \in S /\ IsActive(u) THEN s
                                         ELSE task[u].status
  OBVIOUS
<1>2. CASE u \in S /\ IsActive(u)
  <2>1. task'[u] = [task[u] EXCEPT !.status = s, !.owner = NoWorker, !.lease = 0]
    BY <1>2 DEF TasksClosed
  <2>2. QED
    BY <1>1, <1>2, <2>1 DEF SameTask, TaskRec
<1>3. CASE ~(u \in S /\ IsActive(u))
  BY <1>3 DEF TasksClosed, SameTask
<1>4. QED
  BY <1>2, <1>3

\* A renewal, a tick and a retry that comes due leave status and counts alone.
LEMMA TimeColumns ==
  ASSUME TypedState, NEW t \in Task,
         \/ \E l : task' = [task EXCEPT ![t].lease = l]
         \/ task' = [task EXCEPT ![t].due = TRUE]
  PROVE  \A u \in Task : SameTask(u) /\ task'[u].status = task[u].status
BY DEF SameTask, TypedState, TaskTyped, TaskRec

-----------------------------------------------------------------------------
(* A run that has ended is quiet.                                          *)

QuietState == TypedState /\ FinishedRunQuiet

\* It stays so when runs keep active and a task is active only as before, or in an
\* active run.
LEMMA QuietKept ==
  ASSUME QuietState,
         \A r \in Run : RunActive(r) => RunActive(r)',
         \A u \in Task : IsActive(u)' =>
            \/ IsActive(u) /\ task'[u].run = task[u].run
            \/ RunActive(task[u].run)'
  PROVE  FinishedRunQuiet'
BY DEF QuietState, FinishedRunQuiet, RunActive

\* tryFinishRun ends a run only when none of its tasks is active.
LEMMA QuietFinish ==
  ASSUME QuietState, NEW t \in Task, TryFinish(t), UNCHANGED task
  PROVE  FinishedRunQuiet'
<1>1. CASE MayEnd(task[t].run)
  <2>1. \A q \in Run : q # task[t].run => run'[q] = run[q]
    BY <1>1 DEF TryFinish, QuietState, TypedState, RunTyped
  <2>2. QED
    BY <1>1, <2>1
       DEF QuietState, FinishedRunQuiet, MayEnd, TasksOf, IsActive, RunActive
<1>2. CASE ~MayEnd(task[t].run)
  BY <1>2, QuietKept DEF TryFinish, IsActive, RunActive
<1>3. QED
  BY <1>1, <1>2

\* Every action keeps it, one action at a time.
LEMMA StepQuiet == QuietState /\ [Next]_vars => FinishedRunQuiet'
<1> SUFFICES ASSUME QuietState, [Next]_vars
             PROVE  FinishedRunQuiet'
  OBVIOUS
<1> USE DEF QuietState
<1>1. ASSUME NEW r \in Run, NEW t \in Task, NEW k \in Key, StartRun(r, t, k)
      PROVE  FinishedRunQuiet'
  <2>1. \A u \in Task : u # t => task'[u] = task[u]
    BY <1>1 DEF StartRun, TypedState, TaskTyped
  <2>2. task'[t].run = r
    BY <1>1, NewTaskType DEF StartRun, TypedState, TaskTyped
  <2>3. \A q \in Run : run'[q].status = IF q = r THEN "queued" ELSE run[q].status
    BY <1>1 DEF StartRun, TypedState, RunTyped, RunRec
  <2>4. QED
    BY <2>1, <2>2, <2>3, QuietKept DEF IsActive, RunActive, ActiveStatus
<1>2. ASSUME NEW o \in Run, NEW r \in Run, NEW t \in Task, RerunRun(o, r, t)
      PROVE  FinishedRunQuiet'
  <2>1. PICK k \in Key \cup {NoKey} : task' = [task EXCEPT ![t] = NewTask(r, k, NoTask)]
    BY <1>2 DEF RerunRun, TasksOf, TypedState, TaskTyped, TaskRec
  <2>2. \A u \in Task : u # t => task'[u] = task[u]
    BY <2>1 DEF TypedState, TaskTyped
  <2>3. task'[t].run = r
    BY <2>1, NewTaskType DEF TypedState, TaskTyped
  <2>4. \A q \in Run : run'[q].status = IF q = r THEN "queued" ELSE run[q].status
    BY <1>2 DEF RerunRun, TypedState, RunTyped, RunRec
  <2>5. QED
    BY <2>2, <2>3, <2>4, QuietKept DEF IsActive, RunActive, ActiveStatus
<1>3. ASSUME NEW w \in Worker, NEW t \in Task, Claim(w, t)
      PROVE  FinishedRunQuiet'
  <2>1. IsActive(t) /\ task[t].run \in Run
    BY <1>3 DEF Claim, Eligible, RunActive, IsActive, ActiveStatus
  <2>2. \A u \in Task : task'[u].run = task[u].run /\ (u # t => task'[u] = task[u])
    BY <1>3 DEF Claim, TypedState, TaskTyped, TaskRec
  <2>3. \A q \in Run : run'[q].status = IF q = task[t].run THEN "running" ELSE run[q].status
    BY <1>3 DEF Claim, TypedState, RunTyped, RunRec
  <2>4. QED
    BY <2>1, <2>2, <2>3, QuietKept DEF IsActive, RunActive, ActiveStatus
<1>4. ASSUME NEW w \in Worker, Renew(w)
      PROVE  FinishedRunQuiet'
  <2>1. worker[w].task \in Task
    BY <1>4 DEF Renew, Fence
  <2>2. \A u \in Task : SameTask(u) /\ task'[u].status = task[u].status
    BY <1>4, <2>1, TimeColumns DEF Renew
  <2>3. QED
    BY <1>4, <2>2, QuietKept DEF Renew, SameTask, IsActive, RunActive
<1>5. ASSUME NEW w \in Worker, PageGranted(w)
      PROVE  FinishedRunQuiet'
  BY <1>5, QuietKept DEF PageGranted, IsActive, RunActive
<1>6. ASSUME NEW w \in Worker, PageRefused(w)
      PROVE  FinishedRunQuiet'
  BY <1>6, QuietKept DEF PageRefused, IsActive, RunActive
<1>7. ASSUME NEW w \in Worker, NEW t \in Task, NEW k \in Key, CreateChild(w, t, k)
      PROVE  FinishedRunQuiet'
  <2> DEFINE r == task[worker[w].task].run
  <2>1. RunActive(r) /\ worker[w].task \in Task
    BY <1>7 DEF CreateChild, FenceUnderRun, Fence
  <2>2. \A u \in Task : u # t => task'[u] = task[u]
    BY <1>7 DEF CreateChild, TypedState, TaskTyped
  <2>3. task'[t].run = r
    BY <1>7, <2>1, NewTaskType DEF CreateChild, RunActive, TypedState, TaskTyped
  <2> HIDE DEF r
  <2>4. QED
    BY <1>7, <2>1, <2>2, <2>3, QuietKept DEF CreateChild, IsActive, RunActive
<1>8. ASSUME NEW w \in Worker, NEW k \in Key, ChildRefused(w, k)
      PROVE  FinishedRunQuiet'
  BY <1>8, QuietKept DEF ChildRefused, IsActive, RunActive
<1>9. ASSUME NEW w \in Worker, RecordTruncation(w)
      PROVE  FinishedRunQuiet'
  BY <1>9, QuietKept DEF RecordTruncation, IsActive, RunActive
<1>10. ASSUME NEW w \in Worker, PersistRecords(w)
      PROVE  FinishedRunQuiet'
  BY <1>10, QuietKept DEF PersistRecords, IsActive, RunActive
<1>11. ASSUME NEW w \in Worker, PersistResource(w)
      PROVE  FinishedRunQuiet'
  BY <1>11, QuietKept DEF PersistResource, IsActive, RunActive
<1>12. ASSUME NEW w \in Worker, ObserveResource(w)
      PROVE  FinishedRunQuiet'
  BY <1>12, QuietKept DEF ObserveResource, IsActive, RunActive
<1>13. ASSUME NEW w \in Worker, Complete(w)
      PROVE  FinishedRunQuiet'
  <2>1. /\ worker[w].task \in Task /\ IsActive(worker[w].task)
        /\ task' = Released(worker[w].task, "succeeded", FALSE)
    BY <1>13 DEF Complete, Fence, IsActive, ActiveStatus
  <2>2. \A u \in Task :
          /\ SameTask(u)
          /\ u # worker[w].task => task'[u].status = task[u].status
    BY <2>1, ReleasedColumns
  <2>3. \A u \in Task : IsActive(u)' => IsActive(u) /\ task'[u].run = task[u].run
    BY <2>1, <2>2 DEF SameTask, IsActive
  <2>4. QED
    BY <1>13, <2>3, QuietKept DEF Complete, RunActive
<1>14. ASSUME NEW w \in Worker, DeadlineStops(w)
      PROVE  FinishedRunQuiet'
  BY <1>14, QuietKept DEF DeadlineStops, IsActive, RunActive
<1>15. ASSUME NEW w \in Worker, CheckLimited(w)
      PROVE  FinishedRunQuiet'
  BY <1>15, QuietKept DEF CheckLimited, IsActive, RunActive
<1>16. ASSUME NEW w \in Worker, RecordLimit(w)
      PROVE  FinishedRunQuiet'
  BY <1>16, QuietKept DEF RecordLimit, IsActive, RunActive
<1>17. ASSUME NEW w \in Worker, CompleteLimited(w)
      PROVE  FinishedRunQuiet'
  <2>1. /\ worker[w].task \in Task /\ IsActive(worker[w].task)
        /\ task' = Released(worker[w].task, "limited", FALSE)
    BY <1>17 DEF CompleteLimited, Fence, IsActive, ActiveStatus
  <2>2. \A u \in Task :
          /\ SameTask(u)
          /\ u # worker[w].task => task'[u].status = task[u].status
    BY <2>1, ReleasedColumns
  <2>3. \A u \in Task : IsActive(u)' => IsActive(u) /\ task'[u].run = task[u].run
    BY <2>1, <2>2 DEF SameTask, IsActive
  <2>4. QED
    BY <1>17, <2>3, QuietKept DEF CompleteLimited, RunActive
<1>18. ASSUME NEW w \in Worker, NEW retryable \in BOOLEAN, PlanFail(w, retryable)
      PROVE  FinishedRunQuiet'
  BY <1>18, QuietKept DEF PlanFail, IsActive, RunActive
<1>19. ASSUME NEW w \in Worker, FailRetry(w)
      PROVE  FinishedRunQuiet'
  <2>1. /\ worker[w].task \in Task /\ IsActive(worker[w].task)
        /\ task' = Released(worker[w].task, "queued", FALSE)
    BY <1>19 DEF FailRetry, Fence, IsActive, ActiveStatus
  <2>2. \A u \in Task :
          /\ SameTask(u)
          /\ u # worker[w].task => task'[u].status = task[u].status
    BY <2>1, ReleasedColumns
  <2>3. \A u \in Task : IsActive(u)' => IsActive(u) /\ task'[u].run = task[u].run
    BY <2>1, <2>2 DEF SameTask, IsActive
  <2>4. QED
    BY <1>19, <2>3, QuietKept DEF FailRetry, RunActive
<1>20. ASSUME NEW w \in Worker, FailDead(w)
      PROVE  FinishedRunQuiet'
  <2>1. /\ worker[w].task \in Task /\ IsActive(worker[w].task)
        /\ task' = Released(worker[w].task, "dead_letter", FALSE)
    BY <1>20 DEF FailDead, Fence, IsActive, ActiveStatus
  <2>2. \A u \in Task :
          /\ SameTask(u)
          /\ u # worker[w].task => task'[u].status = task[u].status
    BY <2>1, ReleasedColumns
  <2>3. \A u \in Task : IsActive(u)' => IsActive(u) /\ task'[u].run = task[u].run
    BY <2>1, <2>2 DEF SameTask, IsActive
  <2>4. QED
    BY <1>20, <2>3, QuietKept DEF FailDead, RunActive
<1>21. ASSUME NEW w \in Worker, DropStale(w)
      PROVE  FinishedRunQuiet'
  BY <1>21, QuietKept DEF DropStale, IsActive, RunActive
<1>22. ASSUME NEW w \in Worker, WorkerFinish(w)
      PROVE  FinishedRunQuiet'
  <2>1. worker[w].task \in Task
    BY <1>22, WorkerGoes DEF QuietState, WorkerFinish
  <2>2. QED
    BY <1>22, <2>1, QuietFinish DEF WorkerFinish
<1>23. ASSUME NEW w \in Worker, WorkerCrash(w)
      PROVE  FinishedRunQuiet'
  BY <1>23, QuietKept DEF WorkerCrash, IsActive, RunActive
<1>24. ASSUME NEW h \in Handler, NEW t \in Task, Recover(h, t)
      PROVE  FinishedRunQuiet'
  <2>1. IsActive(t) /\ UNCHANGED run
    BY <1>24 DEF Recover, IsActive, ActiveStatus
  <2>2. QED
    BY <1>24, <2>1, ReleasedColumns, QuietKept
       DEF Recover, SameTask, IsActive, RunActive
<1>25. ASSUME NEW h \in Handler, NEW t \in Task, CancelTask(h, t)
      PROVE  FinishedRunQuiet'
  <2>1. \A u \in Task : /\ SameTask(u)
                        /\ IsActive(u)' => IsActive(u)
    BY <1>25, ClosedColumns DEF CancelTask, IsActive, ActiveStatus
  <2>2. \A u \in Task : IsActive(u)' => IsActive(u) /\ task'[u].run = task[u].run
    BY <2>1 DEF SameTask, IsActive, ActiveStatus
  <2>3. QED
    BY <1>25, <2>2, QuietKept DEF CancelTask, RunActive
<1>26. ASSUME NEW h \in Handler, NEW r \in Run, BeginExpire(h, r)
      PROVE  FinishedRunQuiet'
  <2>1. \A q \in Run : run'[q].status = run[q].status
    BY <1>26 DEF BeginExpire, TypedState, RunTyped, RunRec
  <2>2. QED
    BY <1>26, <2>1, QuietKept DEF BeginExpire, IsActive, RunActive
<1>27. ASSUME NEW h \in Handler, NEW r \in Run, CommitExpire(h, r)
      PROVE  FinishedRunQuiet'
  <2>1. \A q \in Run : run'[q].status = run[q].status
    BY <1>27 DEF CommitExpire, TypedState, RunTyped, RunRec
  <2>2. \A u \in Task : /\ SameTask(u)
                        /\ IsActive(u)' => IsActive(u)
    BY <1>27, ClosedColumns DEF CommitExpire, IsActive, ActiveStatus
  <2>3. \A u \in Task : IsActive(u)' => IsActive(u) /\ task'[u].run = task[u].run
    BY <2>2 DEF SameTask, IsActive, ActiveStatus
  <2>4. QED
    BY <2>1, <2>3, QuietKept DEF RunActive
<1>28. ASSUME NEW h \in Handler, HandlerFinish(h)
      PROVE  FinishedRunQuiet'
  <2>1. handler[h].task \in Task
    BY <1>28 DEF HandlerFinish, TypedState, HandlerTyped
  <2>2. QED
    BY <1>28, <2>1, QuietFinish DEF HandlerFinish
<1>29. ASSUME NEW h \in Handler, HandlerCrash(h)
      PROVE  FinishedRunQuiet'
  <2>1. \A q \in Run : run'[q].status = run[q].status
    BY <1>29 DEF HandlerCrash, TypedState, RunTyped, RunRec
  <2>2. QED
    BY <1>29, <2>1, QuietKept DEF HandlerCrash, IsActive, RunActive
<1>30. ASSUME NEW r \in Run, CancelRun(r)
      PROVE  FinishedRunQuiet'
  <2>1. \A q \in Run : run'[q].status = IF q = r THEN "cancelled" ELSE run[q].status
    BY <1>30 DEF CancelRun, TypedState, RunTyped, RunRec
  <2>2. \A u \in Task :
          /\ SameTask(u)
          /\ task'[u].status = IF u \in TasksOf(r) /\ IsActive(u) THEN "cancelled"
                              ELSE task[u].status
    BY <1>30, ClosedColumns DEF CancelRun
  <2>3. QED
    BY <2>1, <2>2
       DEF QuietState, FinishedRunQuiet, SameTask, IsActive, RunActive, ActiveStatus, TasksOf
<1>31. ASSUME NEW r \in Run, DeadlinePasses(r)
      PROVE  FinishedRunQuiet'
  <2>1. \A q \in Run : run'[q].status = run[q].status
    BY <1>31 DEF DeadlinePasses, TypedState, RunTyped, RunRec
  <2>2. QED
    BY <1>31, <2>1, QuietKept DEF DeadlinePasses, IsActive, RunActive
<1>32. ASSUME NEW h \in Handler, NEW t \in Task, ReadRetry(h, t)
      PROVE  FinishedRunQuiet'
  BY <1>32, QuietKept DEF ReadRetry, IsActive, RunActive
<1>33. ASSUME NEW h \in Handler, CommitRetry(h)
      PROVE  FinishedRunQuiet'
  <2> DEFINE t == handler[h].task
  <2>1. t \in Task /\ task[t].run \in Run /\ task[t].status = "dead_letter"
    BY <1>33 DEF CommitRetry, MayRetry, Retriable, TypedState, HandlerTyped, TaskTyped
  <2>2. \A u \in Task : task'[u].run = task[u].run /\ (u # t => task'[u] = task[u])
    BY <1>33 DEF CommitRetry, TypedState, TaskTyped, TaskRec
  <2>3. \A q \in Run : run'[q].status = IF q = task[t].run THEN "running" ELSE run[q].status
    BY <1>33 DEF CommitRetry, Reopened, TypedState, RunTyped, RunRec
  <2> HIDE DEF t
  <2>4. QED
    BY <2>1, <2>2, <2>3, QuietKept DEF IsActive, RunActive, ActiveStatus
<1>34. ASSUME NEW h \in Handler, RefuseRetry(h)
      PROVE  FinishedRunQuiet'
  BY <1>34, QuietKept DEF RefuseRetry, IsActive, RunActive
<1>35. ASSUME NEW t \in Task, LeaseTick(t)
      PROVE  FinishedRunQuiet'
  <2>1. \A u \in Task : SameTask(u) /\ task'[u].status = task[u].status
    BY <1>35, TimeColumns DEF LeaseTick
  <2>2. QED
    BY <1>35, <2>1, QuietKept DEF LeaseTick, SameTask, IsActive, RunActive
<1>36. ASSUME NEW t \in Task, RetryDue(t)
      PROVE  FinishedRunQuiet'
  <2>1. \A u \in Task : SameTask(u) /\ task'[u].status = task[u].status
    BY <1>36, TimeColumns DEF RetryDue
  <2>2. QED
    BY <1>36, <2>1, QuietKept DEF RetryDue, SameTask, IsActive, RunActive
<1>37. CASE UNCHANGED vars
  BY <1>37, QuietKept DEF vars, IsActive, RunActive
<1>38. QED
  BY <1>1, <1>2, <1>3, <1>4, <1>5, <1>6, <1>7, <1>8, <1>9, <1>10, <1>11,
     <1>12, <1>13, <1>14, <1>15, <1>16, <1>17, <1>18, <1>19, <1>20, <1>21,
     <1>22, <1>23, <1>24, <1>25, <1>26, <1>27, <1>28, <1>29, <1>30, <1>31,
     <1>32, <1>33, <1>34, <1>35, <1>36, <1>37
     DEF Next, Work, Conclude, Handle

\* No queued or running task is ever left in a run that has ended, whatever completes,
\* fails, is cancelled, recovered, retried or crashes meanwhile: the calls of
\* tryFinishRun, which only the run lock orders, never end a run too early.
THEOREM EndedRunsAreQuiet == Spec => []FinishedRunQuiet
<1>1. Init => FinishedRunQuiet
  BY DEF Init, FinishedRunQuiet, IsActive, ActiveStatus, BlankTask
<1>2. Spec => []QuietState
  <2>1. Init => QuietState
    BY <1>1, InitTyped DEF QuietState
  <2>2. QuietState /\ [Next]_vars => QuietState'
    BY StepTyped, StepQuiet DEF QuietState
  <2>3. QED
    BY <2>1, <2>2, PTL DEF Spec
<1>3. QED
  BY <1>2, PTL DEF QuietState

-----------------------------------------------------------------------------
(* Attempts and tasks agree.                                               *)

\* Each of the two invariants needs the other: a claim opens an attempt of a task that
\* is not running only if none of its attempts was accepted, and a completion accepts
\* the one attempt that is running.
AttemptsAgree == AttemptMatchesTask /\ AcceptedOnce

AgreeState == TypedState /\ AttemptsAgree

\* Steps that write no attempt, and neither begin nor end the execution of a task.
LEMMA AttemptsUntouched ==
  ASSUME AgreeState, UNCHANGED attempt,
         \A u \in Task :
           \/ /\ task'[u].attempts = task[u].attempts
              /\ task'[u].status = task[u].status
           \/ /\ task[u].status \notin {"running", "succeeded"}
              /\ task'[u].status \notin {"running", "succeeded"}
  PROVE  AttemptsAgree'
<1>1. AttemptMatchesTask'
  BY DEF AgreeState, AttemptsAgree, AttemptMatchesTask
<1>2. AcceptedOnce'
  BY DEF AgreeState, AttemptsAgree, AcceptedOnce
<1>3. QED
  BY <1>1, <1>2 DEF AttemptsAgree

\* Steps that close the running attempts of a set of tasks: those that ran no longer do,
\* and no other task moves.
LEMMA AttemptsShut ==
  ASSUME AgreeState, NEW S, attempt' = AttemptsClosed(S),
         \A u \in Task :
           /\ task'[u].attempts = task[u].attempts
           /\ \/ task'[u].status = task[u].status /\ (u \in S => task[u].status # "running")
              \/ /\ u \in S /\ task[u].status # "succeeded"
                 /\ task'[u].status \notin {"running", "succeeded"}
  PROVE  AttemptsAgree'
<1>1. \A u \in Task, n \in AttemptNo :
        attempt'[u][n] = IF u \in S /\ attempt[u][n] = "running" THEN "ended"
                         ELSE attempt[u][n]
  BY DEF AttemptsClosed
<1>2. AttemptMatchesTask'
  BY <1>1 DEF AgreeState, AttemptsAgree, AttemptMatchesTask
<1>3. AcceptedOnce'
  BY <1>1 DEF AgreeState, AttemptsAgree, AcceptedOnce
<1>4. QED
  BY <1>2, <1>3 DEF AttemptsAgree

\* A fenced write that ends the attempt of a worker together with its task.
LEMMA AttemptEnds ==
  ASSUME AgreeState, NEW w \in Worker, NEW s \in TaskStatus, NEW a \in AttemptStatus,
         Fence(w), EndAttempt(w, a), task' = Released(worker[w].task, s, FALSE),
         s # "running", a # "running", s = "succeeded" <=> a = "succeeded"
  PROVE  AttemptsAgree'
<1> DEFINE t == worker[w].task
           m == worker[w].no
<1>1. /\ t \in Task /\ task[t].status = "running" /\ task[t].attempts = m
      /\ attempt' = [attempt EXCEPT ![t][m] = a]
  BY DEF Fence, EndAttempt
<1>2. \A u \in Task : /\ SameTask(u)
                      /\ task'[u].status = IF u = t THEN s ELSE task[u].status
  BY <1>1, ReleasedColumns DEF AgreeState
<1> HIDE DEF t, m
<1>3. \A u \in Task, n \in AttemptNo :
        attempt'[u][n] = IF u = t /\ n = m THEN a ELSE attempt[u][n]
  BY <1>1 DEF AgreeState, TypedState, AttemptTyped
<1> SUFFICES ASSUME NEW u \in Task, NEW n \in AttemptNo
             PROVE  /\ attempt'[u][n] = "running" <=>
                         task'[u].status = "running" /\ n = task'[u].attempts
                    /\ attempt'[u][n] = "succeeded" <=>
                         task'[u].status = "succeeded" /\ n = task'[u].attempts
  BY DEF AttemptsAgree, AttemptMatchesTask, AcceptedOnce
<1>4. /\ attempt[u][n] = "running" <=>
           task[u].status = "running" /\ n = task[u].attempts
      /\ attempt[u][n] = "succeeded" <=>
           task[u].status = "succeeded" /\ n = task[u].attempts
  BY DEF AgreeState, AttemptsAgree, AttemptMatchesTask, AcceptedOnce
<1>5. task'[u].attempts = task[u].attempts
  BY <1>2 DEF SameTask
<1>6. CASE u # t
  <2>1. attempt'[u][n] = attempt[u][n] /\ task'[u].status = task[u].status
    BY <1>2, <1>3, <1>6
  <2>2. QED
    BY <1>4, <1>5, <2>1
<1>7. CASE u = t
  <2>1. task'[u].status = s /\ task[u].attempts = m /\ task[u].status = "running"
    BY <1>1, <1>2, <1>7
  <2>2. CASE n = m
    <3>1. attempt'[u][n] = a
      BY <1>3, <1>7, <2>2
    <3>2. QED
      BY <1>5, <2>1, <2>2, <3>1
  <2>3. CASE n # m
    <3>1. attempt'[u][n] = attempt[u][n]
      BY <1>3, <1>7, <2>3
    <3>2. QED
      BY <1>4, <1>5, <2>1, <2>3, <3>1
  <2>4. QED
    BY <2>2, <2>3
<1>8. QED
  BY <1>6, <1>7

\* Every action keeps it, one action at a time.
LEMMA StepAgrees == AgreeState /\ [Next]_vars => AttemptsAgree'
<1> SUFFICES ASSUME AgreeState, [Next]_vars
             PROVE  AttemptsAgree'
  OBVIOUS
<1> USE DEF AgreeState
<1>1. ASSUME NEW r \in Run, NEW t \in Task, NEW k \in Key, StartRun(r, t, k)
      PROVE  AttemptsAgree'
  <2>1. \A u \in Task : u # t => task'[u] = task[u]
    BY <1>1 DEF StartRun, TypedState, TaskTyped
  <2>2. task[t].status = "absent" /\ task'[t].status = "queued"
    BY <1>1 DEF StartRun, NewTask, BlankTask, TypedState, TaskTyped
  <2>3. QED
    BY <1>1, <2>1, <2>2, AttemptsUntouched DEF StartRun
<1>2. ASSUME NEW o \in Run, NEW r \in Run, NEW t \in Task, RerunRun(o, r, t)
      PROVE  AttemptsAgree'
  <2>1. \A u \in Task : u # t => task'[u] = task[u]
    BY <1>2 DEF RerunRun, TypedState, TaskTyped
  <2>2. task[t].status = "absent" /\ task'[t].status = "queued"
    BY <1>2 DEF RerunRun, NewTask, BlankTask, TypedState, TaskTyped
  <2>3. QED
    BY <1>2, <2>1, <2>2, AttemptsUntouched DEF RerunRun
<1>3. ASSUME NEW w \in Worker, NEW t \in Task, Claim(w, t)
      PROVE  AttemptsAgree'
  <2> DEFINE m == task[t].attempts + 1
  <2>1. task[t].status \in ActiveStatus /\ task[t] \in TaskRec
    BY <1>3 DEF Claim, Eligible, ActiveStatus, TypedState, TaskTyped
  <2>2. m \in AttemptNo
    BY <1>3, <2>1, EngineAssumption
       DEF Claim, Eligible, AttemptsLeft, TypedState, TaskTyped, TaskRec, AttemptNo
  <2>3. /\ \A u \in Task : u # t => task'[u] = task[u]
        /\ task'[t].status = "running" /\ task'[t].attempts = m
    BY <1>3 DEF Claim, TypedState, TaskTyped, TaskRec
  <2>4. attempt' = [AttemptsClosed({t}) EXCEPT ![t][m] = "running"]
    BY <1>3 DEF Claim
  <2> HIDE DEF m
  <2>5. \A u \in Task, n \in AttemptNo :
          attempt'[u][n] = IF u = t /\ n = m THEN "running"
                           ELSE IF u = t /\ attempt[u][n] = "running" THEN "ended"
                           ELSE attempt[u][n]
    BY <2>2, <2>4 DEF AttemptsClosed, TypedState, AttemptTyped
  <2>6. QED
    BY <2>1, <2>2, <2>3, <2>5
       DEF ActiveStatus, AttemptMatchesTask, AcceptedOnce, AttemptsAgree
<1>4. ASSUME NEW w \in Worker, Renew(w)
      PROVE  AttemptsAgree'
  <2>1. worker[w].task \in Task
    BY <1>4 DEF Renew, Fence
  <2>2. \A u \in Task : SameTask(u) /\ task'[u].status = task[u].status
    BY <1>4, <2>1, TimeColumns DEF Renew
  <2>3. QED
    BY <1>4, <2>2, AttemptsUntouched DEF Renew, SameTask
<1>5. ASSUME NEW w \in Worker, PageGranted(w)
      PROVE  AttemptsAgree'
  BY <1>5, AttemptsUntouched DEF PageGranted
<1>6. ASSUME NEW w \in Worker, PageRefused(w)
      PROVE  AttemptsAgree'
  BY <1>6, AttemptsUntouched DEF PageRefused
<1>7. ASSUME NEW w \in Worker, NEW t \in Task, NEW k \in Key, CreateChild(w, t, k)
      PROVE  AttemptsAgree'
  <2>1. \A u \in Task : u # t => task'[u] = task[u]
    BY <1>7 DEF CreateChild, TypedState, TaskTyped
  <2>2. task[t].status = "absent" /\ task'[t].status = "queued"
    BY <1>7 DEF CreateChild, NewTask, BlankTask, TypedState, TaskTyped
  <2>3. QED
    BY <1>7, <2>1, <2>2, AttemptsUntouched DEF CreateChild
<1>8. ASSUME NEW w \in Worker, NEW k \in Key, ChildRefused(w, k)
      PROVE  AttemptsAgree'
  BY <1>8, AttemptsUntouched DEF ChildRefused
<1>9. ASSUME NEW w \in Worker, RecordTruncation(w)
      PROVE  AttemptsAgree'
  BY <1>9, AttemptsUntouched DEF RecordTruncation
<1>10. ASSUME NEW w \in Worker, PersistRecords(w)
      PROVE  AttemptsAgree'
  BY <1>10, AttemptsUntouched DEF PersistRecords
<1>11. ASSUME NEW w \in Worker, PersistResource(w)
      PROVE  AttemptsAgree'
  BY <1>11, AttemptsUntouched DEF PersistResource
<1>12. ASSUME NEW w \in Worker, ObserveResource(w)
      PROVE  AttemptsAgree'
  BY <1>12, AttemptsUntouched DEF ObserveResource
<1>13. ASSUME NEW w \in Worker, Complete(w)
      PROVE  AttemptsAgree'
  <2>1. /\ Fence(w) /\ EndAttempt(w, "succeeded")
        /\ task' = Released(worker[w].task, "succeeded", FALSE)
    BY <1>13 DEF Complete
  <2>2. "succeeded" \in TaskStatus /\ "succeeded" \in AttemptStatus
    BY DEF TaskStatus, TaskEnd, ActiveStatus, AttemptStatus
  <2>3. QED
    BY <2>1, <2>2, AttemptEnds
<1>14. ASSUME NEW w \in Worker, DeadlineStops(w)
      PROVE  AttemptsAgree'
  BY <1>14, AttemptsUntouched DEF DeadlineStops
<1>15. ASSUME NEW w \in Worker, CheckLimited(w)
      PROVE  AttemptsAgree'
  BY <1>15, AttemptsUntouched DEF CheckLimited
<1>16. ASSUME NEW w \in Worker, RecordLimit(w)
      PROVE  AttemptsAgree'
  BY <1>16, AttemptsUntouched DEF RecordLimit
<1>17. ASSUME NEW w \in Worker, CompleteLimited(w)
      PROVE  AttemptsAgree'
  <2>1. /\ Fence(w) /\ EndAttempt(w, "ended")
        /\ task' = Released(worker[w].task, "limited", FALSE)
    BY <1>17 DEF CompleteLimited
  <2>2. "limited" \in TaskStatus /\ "ended" \in AttemptStatus
    BY DEF TaskStatus, TaskEnd, ActiveStatus, AttemptStatus
  <2>3. QED
    BY <2>1, <2>2, AttemptEnds
<1>18. ASSUME NEW w \in Worker, NEW retryable \in BOOLEAN, PlanFail(w, retryable)
      PROVE  AttemptsAgree'
  BY <1>18, AttemptsUntouched DEF PlanFail
<1>19. ASSUME NEW w \in Worker, FailRetry(w)
      PROVE  AttemptsAgree'
  <2>1. /\ Fence(w) /\ EndAttempt(w, "ended")
        /\ task' = Released(worker[w].task, "queued", FALSE)
    BY <1>19 DEF FailRetry
  <2>2. "queued" \in TaskStatus /\ "ended" \in AttemptStatus
    BY DEF TaskStatus, TaskEnd, ActiveStatus, AttemptStatus
  <2>3. QED
    BY <2>1, <2>2, AttemptEnds
<1>20. ASSUME NEW w \in Worker, FailDead(w)
      PROVE  AttemptsAgree'
  <2>1. /\ Fence(w) /\ EndAttempt(w, "ended")
        /\ task' = Released(worker[w].task, "dead_letter", FALSE)
    BY <1>20 DEF FailDead
  <2>2. "dead_letter" \in TaskStatus /\ "ended" \in AttemptStatus
    BY DEF TaskStatus, TaskEnd, ActiveStatus, AttemptStatus
  <2>3. QED
    BY <2>1, <2>2, AttemptEnds
<1>21. ASSUME NEW w \in Worker, DropStale(w)
      PROVE  AttemptsAgree'
  BY <1>21, AttemptsUntouched DEF DropStale
<1>22. ASSUME NEW w \in Worker, WorkerFinish(w)
      PROVE  AttemptsAgree'
  BY <1>22, AttemptsUntouched DEF WorkerFinish
<1>23. ASSUME NEW w \in Worker, WorkerCrash(w)
      PROVE  AttemptsAgree'
  BY <1>23, AttemptsUntouched DEF WorkerCrash
<1>24. ASSUME NEW h \in Handler, NEW t \in Task, Recover(h, t)
      PROVE  AttemptsAgree'
  <2>1. AfterExpiry(t) \notin {"running", "succeeded"}
    BY DEF AfterExpiry
  <2>2. task' = Released(t, AfterExpiry(t), TRUE) /\ attempt' = AttemptsClosed({t})
    BY <1>24 DEF Recover
  <2>3. \A u \in Task : SameTask(u) /\ task'[u].status =
                           IF u = t THEN AfterExpiry(t) ELSE task[u].status
    BY <2>2, ReleasedColumns
  <2>4. task[t].status = "running"
    BY <1>24 DEF Recover
  <2>5. \A u \in Task :
          /\ task'[u].attempts = task[u].attempts
          /\ \/ task'[u].status = task[u].status /\ u \notin {t}
             \/ /\ u \in {t} /\ task[u].status # "succeeded"
                /\ task'[u].status \notin {"running", "succeeded"}
    BY <2>1, <2>3, <2>4 DEF SameTask
  <2>6. QED
    BY <2>2, <2>5, AttemptsShut
<1>25. ASSUME NEW h \in Handler, NEW t \in Task, CancelTask(h, t)
      PROVE  AttemptsAgree'
  <2>1. task' = TasksClosed(Descendants(t), "cancelled") /\ attempt' = AttemptsClosed(Descendants(t))
    BY <1>25 DEF CancelTask
  <2>2. \A u \in Task : SameTask(u) /\ task'[u].status =
           IF u \in Descendants(t) /\ IsActive(u) THEN "cancelled" ELSE task[u].status
    BY <2>1, ClosedColumns
  <2>3. QED
    BY <2>1, <2>2, AttemptsShut DEF SameTask, IsActive, ActiveStatus
<1>26. ASSUME NEW h \in Handler, NEW r \in Run, BeginExpire(h, r)
      PROVE  AttemptsAgree'
  BY <1>26, AttemptsUntouched DEF BeginExpire
<1>27. ASSUME NEW h \in Handler, NEW r \in Run, CommitExpire(h, r)
      PROVE  AttemptsAgree'
  <2>1. task' = TasksClosed(TasksOf(r), "limited") /\ attempt' = AttemptsClosed(TasksOf(r))
    BY <1>27 DEF CommitExpire
  <2>2. \A u \in Task : SameTask(u) /\ task'[u].status =
           IF u \in TasksOf(r) /\ IsActive(u) THEN "limited" ELSE task[u].status
    BY <2>1, ClosedColumns
  <2>3. QED
    BY <2>1, <2>2, AttemptsShut DEF SameTask, IsActive, ActiveStatus
<1>28. ASSUME NEW h \in Handler, HandlerFinish(h)
      PROVE  AttemptsAgree'
  BY <1>28, AttemptsUntouched DEF HandlerFinish
<1>29. ASSUME NEW h \in Handler, HandlerCrash(h)
      PROVE  AttemptsAgree'
  BY <1>29, AttemptsUntouched DEF HandlerCrash
<1>30. ASSUME NEW r \in Run, CancelRun(r)
      PROVE  AttemptsAgree'
  <2>1. task' = TasksClosed(TasksOf(r), "cancelled") /\ attempt' = AttemptsClosed(TasksOf(r))
    BY <1>30 DEF CancelRun
  <2>2. \A u \in Task : SameTask(u) /\ task'[u].status =
           IF u \in TasksOf(r) /\ IsActive(u) THEN "cancelled" ELSE task[u].status
    BY <2>1, ClosedColumns
  <2>3. QED
    BY <2>1, <2>2, AttemptsShut DEF SameTask, IsActive, ActiveStatus
<1>31. ASSUME NEW r \in Run, DeadlinePasses(r)
      PROVE  AttemptsAgree'
  BY <1>31, AttemptsUntouched DEF DeadlinePasses
<1>32. ASSUME NEW h \in Handler, NEW t \in Task, ReadRetry(h, t)
      PROVE  AttemptsAgree'
  BY <1>32, AttemptsUntouched DEF ReadRetry
<1>33. ASSUME NEW h \in Handler, CommitRetry(h)
      PROVE  AttemptsAgree'
  <2> DEFINE t == handler[h].task
  <2>1. t \in Task /\ task[t].run \in Run /\ task[t].status = "dead_letter"
    BY <1>33 DEF CommitRetry, MayRetry, Retriable, TypedState, HandlerTyped, TaskTyped
  <2>2. /\ \A u \in Task : u # t => task'[u] = task[u]
        /\ task'[t].status = "queued"
    BY <1>33, <2>1 DEF CommitRetry, TypedState, TaskTyped, TaskRec
  <2> HIDE DEF t
  <2>3. QED
    BY <1>33, <2>1, <2>2, AttemptsUntouched DEF CommitRetry
<1>34. ASSUME NEW h \in Handler, RefuseRetry(h)
      PROVE  AttemptsAgree'
  BY <1>34, AttemptsUntouched DEF RefuseRetry
<1>35. ASSUME NEW t \in Task, LeaseTick(t)
      PROVE  AttemptsAgree'
  <2>1. \A u \in Task : SameTask(u) /\ task'[u].status = task[u].status
    BY <1>35, TimeColumns DEF LeaseTick
  <2>2. QED
    BY <1>35, <2>1, AttemptsUntouched DEF LeaseTick, SameTask
<1>36. ASSUME NEW t \in Task, RetryDue(t)
      PROVE  AttemptsAgree'
  <2>1. \A u \in Task : SameTask(u) /\ task'[u].status = task[u].status
    BY <1>36, TimeColumns DEF RetryDue
  <2>2. QED
    BY <1>36, <2>1, AttemptsUntouched DEF RetryDue, SameTask
<1>37. CASE UNCHANGED vars
  BY <1>37, AttemptsUntouched DEF vars
<1>38. QED
  BY <1>1, <1>2, <1>3, <1>4, <1>5, <1>6, <1>7, <1>8, <1>9, <1>10, <1>11,
     <1>12, <1>13, <1>14, <1>15, <1>16, <1>17, <1>18, <1>19, <1>20, <1>21,
     <1>22, <1>23, <1>24, <1>25, <1>26, <1>27, <1>28, <1>29, <1>30, <1>31,
     <1>32, <1>33, <1>34, <1>35, <1>36, <1>37
     DEF Next, Work, Conclude, Handle

LEMMA AgreeInductive == Spec => []AgreeState
<1>1. Init => AttemptsAgree
  BY DEF Init, AttemptsAgree, AttemptMatchesTask, AcceptedOnce, BlankTask
<1>2. Init => AgreeState
  BY <1>1, InitTyped DEF AgreeState
<1>3. AgreeState /\ [Next]_vars => AgreeState'
  BY StepTyped, StepAgrees DEF AgreeState
<1>4. QED
  BY <1>2, <1>3, PTL DEF Spec

\* In every reachable state the running attempts are the current attempts of the running
\* tasks: two workers never both hold a live attempt of one task, and no path that ends a
\* task forgets its attempt.
THEOREM AttemptsMatchTasks == Spec => []AttemptMatchesTask
BY AgreeInductive, PTL DEF AgreeState, AttemptsAgree

\* In every reachable state a task has at most one accepted attempt, its last one, and has
\* it exactly when it succeeded, whatever leases expire while workers complete.
THEOREM WorkAcceptedOnce == Spec => []AcceptedOnce
BY AgreeInductive, PTL DEF AgreeState, AttemptsAgree

-----------------------------------------------------------------------------
(* What a step does to runs and tasks.                                     *)

\* The columns of task u that are written once, with its row.
SameKin(u) ==
  /\ task'[u].run = task[u].run
  /\ task'[u].key = task[u].key
  /\ task'[u].parent = task[u].parent

RunsStay == \A q \in Run : run'[q].status = run[q].status

Born(r, t, k, p) ==
  /\ task[t].status = "absent"
  /\ task' = [task EXCEPT ![t] = NewTask(r, k, p)]

Begun(r, t, k) ==
  /\ run[r].status = "absent" /\ run' = [run EXCEPT ![r].status = "queued"]
  /\ Born(r, t, k, NoTask)

Spawned(p, t, k) ==
  /\ IsActive(p) /\ task[p].run \in Run /\ UNCHANGED run
  /\ NewPage(task[p].run, k)
  /\ Born(task[p].run, t, k, p)

\* The tasks of S, unfinished and of one run, end with status s, which a cancellation
\* extends to what they opened.
SettledAs(r, S, s) ==
  /\ S \subseteq TasksOf(r) /\ RunsStay
  /\ \A u \in S : IsActive(u)
  /\ s = "cancelled" => \A u \in S : \A d \in Descendants(u) : IsActive(d) => d \in S
  /\ \A u \in Task :
       SameKin(u) /\ task'[u].status = IF u \in S THEN s ELSE task[u].status

Finished(r) ==
  /\ MayEnd(r) /\ run' = [run EXCEPT ![r].status = Outcome(r)]
  /\ UNCHANGED <<task, events, produced>>

Aborted(r) ==
  /\ RunActive(r)
  /\ \A q \in Run : run'[q].status = IF q = r THEN "cancelled" ELSE run[q].status
  /\ \A u \in Task :
       /\ SameKin(u)
       /\ task'[u].status = IF u \in TasksOf(r) /\ IsActive(u) THEN "cancelled"
                            ELSE task[u].status

Restored(r, t) ==
  /\ task[t].run = r /\ task[t].status = "dead_letter" /\ RunRetriable(r)
  /\ \A q \in Run : run'[q].status = IF q = r THEN "running" ELSE run[q].status
  /\ \A u \in Task :
       SameKin(u) /\ task'[u].status = IF u = t THEN "queued" ELSE task[u].status

\* Tasks that are unfinished and runs that are active remain so, all else stays.
Kept ==
  /\ \A q \in Run : \/ run'[q].status = run[q].status
                    \/ {run[q].status, run'[q].status} \subseteq ActiveStatus
  /\ \A u \in Task :
       /\ SameKin(u)
       /\ \/ task'[u].status = task[u].status
          \/ {task[u].status, task'[u].status} \subseteq ActiveStatus

\* Each step is of one kind.
Kinds ==
  \/ \E r \in Run, t \in Task, k \in Key \cup {NoKey} : Begun(r, t, k)
  \/ \E p \in Task, t \in Task, k \in Key : Spawned(p, t, k)
  \/ \E r \in Run, S \in SUBSET Task, s \in TaskEnd : SettledAs(r, S, s)
  \/ \E r \in Run : Finished(r) \/ Aborted(r)
  \/ \E r \in Run, t \in Task : Restored(r, t)
  \/ Kept

-----------------------------------------------------------------------------
(* The pedigree of tasks.                                                  *)

\* A row that does not exist belongs to nothing; one that does belongs to an existing
\* run, in which its parent is too.
Lineage ==
  \A t \in Task :
    /\ task[t].status = "absent" => task[t].run = NoRun /\ task[t].parent = NoTask
    /\ task[t].run \in Run => run[task[t].run].status # "absent"
    /\ task[t].parent \in Task =>
         /\ task[task[t].parent].status # "absent"
         /\ task[task[t].parent].run = task[t].run

LineState == TypedState /\ FinishedRunQuiet /\ Lineage

\* Fields of the rows of tasks and of runs.
LEMMA Columns ==
  ASSUME TypedState
  PROVE  /\ \A u \in Task : /\ task[u] \in TaskRec
                            /\ task[u].run \in Run \cup {NoRun}
                            /\ task[u].parent \in Task \cup {NoTask}
                            /\ task[u].key \in Key \cup {NoKey}
                            /\ task[u].status \in TaskStatus
                            /\ task[u].status # "absent" => task[u].run \in Run
         /\ \A r \in Run : run[r] \in RunRec /\ run[r].status \in RunStatus
         /\ run \in [Run -> RunRec] /\ task \in [Task -> TaskRec]
BY DEF TypedState, TaskTyped, RunTyped, TaskRec, RunRec

\* The columns of a new task.
LEMMA NewColumns ==
  \A r \in Run, k \in Key \cup {NoKey}, p \in Task \cup {NoTask} :
    /\ NewTask(r, k, p).status = "queued"
    /\ NewTask(r, k, p).run = r
    /\ NewTask(r, k, p).key = k
    /\ NewTask(r, k, p).parent = p
BY DEF NewTask, BlankTask

\* The updates of a row do not touch its pedigree.
LEMMA ReleasedKin ==
  ASSUME TypedState, NEW t \in Task, NEW s, NEW d, task' = Released(t, s, d)
  PROVE  \A u \in Task : /\ SameKin(u)
                         /\ task'[u].status = IF u = t THEN s ELSE task[u].status
<1> SUFFICES ASSUME NEW u \in Task
             PROVE  SameKin(u) /\ task'[u].status = IF u = t THEN s ELSE task[u].status
  OBVIOUS
<1>1. task[u] \in TaskRec /\ task \in [Task -> TaskRec]
  BY Columns
<1>2. CASE u = t
  <2>1. task'[u] = [task[u] EXCEPT !.status = s, !.owner = NoWorker,
                                   !.lease = 0, !.due = d]
    BY <1>1, <1>2 DEF Released
  <2>2. QED
    BY <1>1, <1>2, <2>1 DEF SameKin, TaskRec
<1>3. CASE u # t
  BY <1>1, <1>3 DEF Released, SameKin
<1>4. QED
  BY <1>2, <1>3

LEMMA ClosedKin ==
  ASSUME TypedState, NEW S, NEW s, task' = TasksClosed(S, s)
  PROVE  \A u \in Task :
           /\ SameKin(u)
           /\ task'[u].status = IF u \in S /\ IsActive(u) THEN s ELSE task[u].status
<1> SUFFICES ASSUME NEW u \in Task
             PROVE  /\ SameKin(u)
                    /\ task'[u].status = IF u \in S /\ IsActive(u) THEN s
                                         ELSE task[u].status
  OBVIOUS
<1>1. task[u] \in TaskRec
  BY Columns
<1>2. CASE u \in S /\ IsActive(u)
  <2>1. task'[u] = [task[u] EXCEPT !.status = s, !.owner = NoWorker, !.lease = 0]
    BY <1>2 DEF TasksClosed
  <2>2. QED
    BY <1>1, <1>2, <2>1 DEF SameKin, TaskRec
<1>3. CASE ~(u \in S /\ IsActive(u))
  BY <1>3 DEF TasksClosed, SameKin
<1>4. QED
  BY <1>2, <1>3

LEMMA TimeKin ==
  ASSUME TypedState, NEW t \in Task,
         \/ \E l : task' = [task EXCEPT ![t].lease = l]
         \/ task' = [task EXCEPT ![t].due = TRUE]
  PROVE  \A u \in Task : SameKin(u) /\ task'[u].status = task[u].status
BY DEF SameKin, TypedState, TaskTyped, TaskRec

\* Runs and tasks that are left alone are kept.
LEMMA KeptIf ==
  ASSUME RunsStay, \A u \in Task : SameKin(u) /\ task'[u].status = task[u].status
  PROVE  Kinds
BY DEF RunsStay, Kept, Kinds

LEMMA KeptStill ==
  ASSUME UNCHANGED <<run, task>>
  PROVE  Kinds
BY DEF Kept, Kinds, SameKin

\* A fenced write of a worker ends the task of its claim.
LEMMA EndsKind ==
  ASSUME LineState, NEW w \in Worker, NEW s \in TaskEnd \ {"cancelled"}, Fence(w),
         UNCHANGED run, task' = Released(worker[w].task, s, FALSE)
  PROVE  Kinds
<1>1. PICK t \in Task : t = worker[w].task
  BY DEF Fence
<1>2. task[t].status = "running" /\ task[t].run \in Run
  BY <1>1, Columns DEF Fence, LineState
<1>3. SettledAs(task[t].run, {t}, s)
  BY <1>1, <1>2, ReleasedKin DEF SettledAs, TasksOf, IsActive, ActiveStatus, LineState, RunsStay
<1>4. {t} \in SUBSET Task
  OBVIOUS
<1> QED
  BY <1>2, <1>3, <1>4 DEF Kinds

\* tryFinishRun ends a run or leaves it.
LEMMA FinishKind ==
  ASSUME LineState, NEW t \in Task, TryFinish(t), UNCHANGED <<task, events, produced>>
  PROVE  Kinds
<1>1. CASE MayEnd(task[t].run)
  BY <1>1 DEF TryFinish, Finished, MayEnd, RunActive, Kinds
<1>2. CASE ~MayEnd(task[t].run)
  BY <1>2, KeptStill DEF TryFinish
<1> QED
  BY <1>1, <1>2

\* The steps that write no row of a run or of a task.
Silent(w) ==
  \/ PageGranted(w) \/ PageRefused(w) \/ RecordTruncation(w) \/ PersistRecords(w)
  \/ PersistResource(w) \/ \E k \in Key : ChildRefused(w, k)
  \/ ObserveResource(w) \/ DeadlineStops(w) \/ CheckLimited(w) \/ RecordLimit(w)
  \/ \E retryable \in BOOLEAN : PlanFail(w, retryable)
  \/ DropStale(w) \/ WorkerCrash(w)

SilentHandler(h) == (\E t \in Task : ReadRetry(h, t)) \/ RefuseRetry(h)

LEMMA SilentSteps ==
  /\ \A w \in Worker : Silent(w) => UNCHANGED <<run, task>>
  /\ \A h \in Handler : SilentHandler(h) => UNCHANGED <<run, task>>
<1>1. ASSUME NEW w \in Worker, Silent(w)
      PROVE  UNCHANGED <<run, task>>
  BY <1>1 DEF Silent, PageGranted, PageRefused, RecordTruncation, PersistRecords,
       PersistResource, ChildRefused, ObserveResource, DeadlineStops, CheckLimited,
       RecordLimit, PlanFail, DropStale, WorkerCrash
<1>2. ASSUME NEW h \in Handler, SilentHandler(h)
      PROVE  UNCHANGED <<run, task>>
  BY <1>2 DEF SilentHandler, ReadRetry, RefuseRetry
<1> QED
  BY <1>1, <1>2

\* The status of the runs, when only other columns of a run are written.
LEMMA RunsStaySteps ==
  ASSUME TypedState
  PROVE  /\ \A h \in Handler, r \in Run : BeginExpire(h, r) \/ CommitExpire(h, r) => RunsStay
         /\ \A h \in Handler : HandlerCrash(h) => RunsStay
         /\ \A r \in Run : DeadlinePasses(r) => RunsStay
<1>1. ASSUME NEW q \in Run
      PROVE  run[q] \in RunRec
  BY DEF TypedState, RunTyped
<1>2. ASSUME NEW h \in Handler, NEW r \in Run, BeginExpire(h, r)
      PROVE  RunsStay
  BY <1>1, <1>2 DEF BeginExpire, RunsStay, RunRec, TypedState, RunTyped
<1>3. ASSUME NEW h \in Handler, NEW r \in Run, CommitExpire(h, r)
      PROVE  RunsStay
  BY <1>1, <1>3 DEF CommitExpire, RunsStay, RunRec, TypedState, RunTyped
<1>4. ASSUME NEW h \in Handler, HandlerCrash(h)
      PROVE  RunsStay
  BY <1>1, <1>4 DEF HandlerCrash, RunsStay, RunRec
<1>5. ASSUME NEW r \in Run, DeadlinePasses(r)
      PROVE  RunsStay
  BY <1>1, <1>5 DEF DeadlinePasses, RunsStay, RunRec, TypedState, RunTyped
<1> QED
  BY <1>2, <1>3, <1>4, <1>5

LEMMA BeginKinds ==
  ASSUME LineState
  PROVE  /\ \A r \in Run, t \in Task, k \in Key : StartRun(r, t, k) => Kinds
         /\ \A o \in Run, r \in Run, t \in Task : RerunRun(o, r, t) => Kinds
         /\ \A w \in Worker, t \in Task, k \in Key : CreateChild(w, t, k) => Kinds
<1>1. ASSUME NEW r \in Run, NEW t \in Task, NEW k \in Key, StartRun(r, t, k)
      PROVE  Kinds
  <2>1. Begun(r, t, k)
    BY <1>1 DEF StartRun, Begun, Born
  <2> QED
    BY <2>1 DEF Kinds
<1>2. ASSUME NEW o \in Run, NEW r \in Run, NEW t \in Task, RerunRun(o, r, t)
      PROVE  Kinds
  <2>1. PICK root \in Task : task' = [task EXCEPT ![t] = NewTask(r, task[root].key, NoTask)]
    BY <1>2 DEF RerunRun, TasksOf
  <2>2. PICK k \in Key \cup {NoKey} : k = task[root].key
    BY Columns DEF LineState
  <2>3. Begun(r, t, k)
    BY <1>2, <2>1, <2>2 DEF RerunRun, Begun, Born
  <2> QED
    BY <2>3 DEF Kinds
<1>3. ASSUME NEW w \in Worker, NEW t \in Task, NEW k \in Key, CreateChild(w, t, k)
      PROVE  Kinds
  <2>1. PICK p \in Task : p = worker[w].task
    BY <1>3 DEF CreateChild, FenceUnderRun, Fence
  <2>2. IsActive(p) /\ task[p].run \in Run
    BY <1>3, <2>1 DEF CreateChild, FenceUnderRun, Fence, IsActive, ActiveStatus, RunActive
  <2>3. Spawned(p, t, k)
    BY <1>3, <2>1, <2>2 DEF CreateChild, Spawned, Born
  <2> QED
    BY <2>3 DEF Kinds
<1> QED
  BY <1>1, <1>2, <1>3

LEMMA WorkerKinds ==
  ASSUME LineState, NEW w \in Worker
  PROVE  /\ \A t \in Task : Claim(w, t) => Kinds
         /\ Renew(w) \/ Complete(w) \/ CompleteLimited(w) \/ FailRetry(w) \/ FailDead(w) => Kinds
         /\ WorkerFinish(w) => Kinds
<1>1. ASSUME NEW t \in Task, Claim(w, t)
      PROVE  Kinds
  <2>1. IsActive(t) /\ RunActive(task[t].run)
    BY <1>1 DEF Claim, Eligible, IsActive, ActiveStatus
  <2>2. \A u \in Task : /\ SameKin(u)
                        /\ task'[u].status = IF u = t THEN "running" ELSE task[u].status
    BY <1>1, Columns DEF Claim, SameKin, LineState, TaskRec
  <2>3. \A q \in Run : run'[q].status = IF q = task[t].run THEN "running" ELSE run[q].status
    BY <1>1, Columns DEF Claim, LineState, RunRec
  <2> QED
    BY <2>1, <2>2, <2>3 DEF Kept, Kinds, IsActive, RunActive, ActiveStatus
<1>2. CASE Renew(w)
  <2>1. PICK t \in Task : task' = [task EXCEPT ![t].lease = LeaseTerm]
    BY <1>2 DEF Renew, Fence
  <2>2. \A u \in Task : SameKin(u) /\ task'[u].status = task[u].status
    BY <2>1, TimeKin DEF LineState
  <2> QED
    BY <1>2, <2>2, KeptIf DEF Renew, RunsStay
<1>3. CASE Complete(w)
  BY <1>3, EndsKind DEF Complete, TaskEnd
<1>4. CASE CompleteLimited(w)
  BY <1>4, EndsKind DEF CompleteLimited, TaskEnd
<1>5. CASE FailDead(w)
  BY <1>5, EndsKind DEF FailDead, TaskEnd
<1>6. CASE FailRetry(w)
  <2>1. PICK t \in Task : t = worker[w].task
    BY <1>6 DEF FailRetry, Fence
  <2>2. \A u \in Task : /\ SameKin(u)
                        /\ task'[u].status = IF u = t THEN "queued" ELSE task[u].status
    BY <1>6, <2>1, ReleasedKin DEF FailRetry, LineState
  <2>3. task[t].status = "running" /\ UNCHANGED run
    BY <1>6, <2>1 DEF FailRetry, Fence
  <2> QED
    BY <2>2, <2>3 DEF Kept, Kinds, ActiveStatus
<1>7. ASSUME WorkerFinish(w)
      PROVE  Kinds
  <2>1. PICK t \in Task : t = worker[w].task
    BY <1>7, WorkerGoes DEF WorkerFinish, LineState
  <2> QED
    BY <1>7, <2>1, FinishKind DEF WorkerFinish
<1> QED
  BY <1>1, <1>2, <1>3, <1>4, <1>5, <1>6, <1>7

\* A task descends from itself, and descendants have descendants of the same task.
LEMMA DescentCloses ==
  ASSUME NEW t \in Task
  PROVE  /\ t \in Descendants(t) /\ Descendants(t) \subseteq Task
         /\ \A u \in Descendants(t) : Descendants(u) \subseteq Descendants(t)
BY DEF Descendants

\* Descendants are of the task's own run.
LEMMA DescendantsOfRun ==
  ASSUME LineState, NEW t \in Task, task[t].run \in Run
  PROVE  Descendants(t) \subseteq TasksOf(task[t].run)
<1> DEFINE S == TasksOf(task[t].run)
<1>1. S \in SUBSET Task /\ t \in S
  BY DEF TasksOf
<1>2. \A c \in Task : task[c].parent \in S => c \in S
  BY DEF TasksOf, LineState, Lineage
<1> QED
  BY <1>1, <1>2 DEF Descendants

LEMMA HandlerKinds ==
  ASSUME LineState, NEW h \in Handler
  PROVE  /\ \A t \in Task : Recover(h, t) \/ CancelTask(h, t) => Kinds
         /\ \A r \in Run : BeginExpire(h, r) \/ CommitExpire(h, r) => Kinds
         /\ CommitRetry(h) \/ HandlerFinish(h) \/ HandlerCrash(h) => Kinds
<1>1. ASSUME NEW t \in Task, Recover(h, t)
      PROVE  Kinds
  <2>1. PICK s \in {"queued", "dead_letter"} : s = AfterExpiry(t)
    BY DEF AfterExpiry
  <2>2. \A u \in Task : /\ SameKin(u)
                        /\ task'[u].status = IF u = t THEN s ELSE task[u].status
    BY <1>1, <2>1, ReleasedKin DEF Recover, LineState
  <2>3. task[t].status = "running" /\ UNCHANGED run /\ task[t].run \in Run
    BY <1>1, Columns DEF Recover, LineState
  <2>4. CASE s = "queued"
    BY <2>2, <2>3, <2>4 DEF Kept, Kinds, ActiveStatus
  <2>5. CASE s = "dead_letter"
    <3>1. SettledAs(task[t].run, {t}, s)
      BY <2>2, <2>3 DEF SettledAs, TasksOf, IsActive, ActiveStatus, RunsStay
    <3>2. {t} \in SUBSET Task /\ s \in TaskEnd
      BY <2>5 DEF TaskEnd
    <3> QED
      BY <2>3, <3>1, <3>2 DEF Kinds
  <2> QED
    BY <2>4, <2>5
<1>2. ASSUME NEW t \in Task, CancelTask(h, t)
      PROVE  Kinds
  <2> DEFINE S == {u \in Descendants(t) : IsActive(u)}
  <2>1. UNCHANGED run /\ task[t].run \in Run /\ task' = TasksClosed(Descendants(t), "cancelled")
    BY <1>2 DEF CancelTask, RunActive
  <2>2. Descendants(t) \subseteq TasksOf(task[t].run)
    BY <2>1, DescendantsOfRun
  <2>3. \A u \in S : \A d \in Descendants(u) : IsActive(d) => d \in S
    BY DescentCloses
  <2>4. SettledAs(task[t].run, S, "cancelled")
    BY <2>1, <2>2, <2>3, ClosedKin DEF SettledAs, LineState, RunsStay
  <2>5. S \in SUBSET Task /\ "cancelled" \in TaskEnd
    BY <2>2 DEF TasksOf, TaskEnd
  <2> HIDE DEF S
  <2> QED
    BY <2>1, <2>4, <2>5 DEF Kinds
<1>3. ASSUME NEW r \in Run, BeginExpire(h, r)
      PROVE  Kinds
  BY <1>3, RunsStaySteps, KeptIf DEF BeginExpire, SameKin, LineState
<1>4. ASSUME NEW r \in Run, CommitExpire(h, r)
      PROVE  Kinds
  <2> DEFINE S == {u \in TasksOf(r) : IsActive(u)}
  <2>1. task' = TasksClosed(TasksOf(r), "limited") /\ RunsStay
    BY <1>4, RunsStaySteps DEF CommitExpire, LineState
  <2>2. SettledAs(r, S, "limited")
    BY <2>1, ClosedKin DEF SettledAs, LineState
  <2>3. S \in SUBSET Task /\ "limited" \in TaskEnd
    BY DEF TasksOf, TaskEnd
  <2> HIDE DEF S
  <2> QED
    BY <2>2, <2>3 DEF Kinds
<1>5. CASE CommitRetry(h)
  <2>1. PICK t \in Task : t = handler[h].task
    BY <1>5 DEF CommitRetry, LineState, TypedState, HandlerTyped
  <2>2. task[t].status = "dead_letter" /\ task[t].run \in Run /\ RunRetriable(task[t].run)
    BY <1>5, <2>1, Columns DEF CommitRetry, MayRetry, Retriable, LineState
  <2>3. \A u \in Task : /\ SameKin(u)
                        /\ task'[u].status = IF u = t THEN "queued" ELSE task[u].status
    BY <1>5, <2>1, Columns DEF CommitRetry, SameKin, LineState, TaskRec
  <2>4. \A q \in Run : run'[q].status = IF q = task[t].run THEN "running" ELSE run[q].status
    BY <1>5, <2>1, <2>2, Columns DEF CommitRetry, Reopened, LineState, RunRec
  <2>5. Restored(task[t].run, t)
    BY <2>2, <2>3, <2>4 DEF Restored
  <2> QED
    BY <2>2, <2>5 DEF Kinds
<1>6. CASE HandlerFinish(h)
  <2>1. PICK t \in Task : t = handler[h].task
    BY <1>6 DEF HandlerFinish, LineState, TypedState, HandlerTyped
  <2> QED
    BY <1>6, <2>1, FinishKind DEF HandlerFinish
<1>7. CASE HandlerCrash(h)
  BY <1>7, RunsStaySteps, KeptIf DEF HandlerCrash, SameKin, LineState
<1> QED
  BY <1>1, <1>2, <1>3, <1>4, <1>5, <1>6, <1>7

LEMMA TimeKinds ==
  ASSUME LineState
  PROVE  /\ \A r \in Run : CancelRun(r) \/ DeadlinePasses(r) => Kinds
         /\ \A t \in Task : LeaseTick(t) \/ RetryDue(t) => Kinds
<1>1. ASSUME NEW r \in Run, CancelRun(r)
      PROVE  Kinds
  <2>1. \A q \in Run : run'[q].status = IF q = r THEN "cancelled" ELSE run[q].status
    BY <1>1, Columns DEF CancelRun, LineState, RunRec
  <2>2. Aborted(r)
    BY <1>1, <2>1, ClosedKin DEF CancelRun, Aborted, LineState
  <2> QED
    BY <2>2 DEF Kinds
<1>2. ASSUME NEW r \in Run, DeadlinePasses(r)
      PROVE  Kinds
  BY <1>2, RunsStaySteps, KeptIf DEF DeadlinePasses, SameKin, LineState
<1>3. ASSUME NEW t \in Task, LeaseTick(t) \/ RetryDue(t)
      PROVE  Kinds
  BY <1>3, TimeKin, KeptIf DEF LeaseTick, RetryDue, RunsStay, LineState
<1> QED
  BY <1>1, <1>2, <1>3

\* Every step of the engine is of one of the kinds.
LEMMA StepKinds == LineState /\ [Next]_vars => Kinds
<1> SUFFICES ASSUME LineState, [Next]_vars
             PROVE  Kinds
  OBVIOUS
<1>1. ASSUME NEW w \in Worker, Work(w)
      PROVE  Kinds
  <2>1. CASE Silent(w)
    BY <2>1, SilentSteps, KeptStill
  <2>2. CASE ~Silent(w)
    BY <1>1, <2>2, WorkerKinds, BeginKinds DEF Work, Conclude, Silent
  <2> QED
    BY <2>1, <2>2
<1>2. ASSUME NEW h \in Handler, Handle(h)
      PROVE  Kinds
  <2>1. CASE SilentHandler(h)
    BY <2>1, SilentSteps, KeptStill
  <2>2. CASE ~SilentHandler(h)
    BY <1>2, <2>2, HandlerKinds DEF Handle, SilentHandler
  <2> QED
    BY <2>1, <2>2
<1>3. CASE UNCHANGED vars
  BY <1>3, KeptStill DEF vars
<1> QED
  BY <1>1, <1>2, <1>3, BeginKinds, TimeKinds DEF Next

-----------------------------------------------------------------------------
(* Every row keeps its pedigree.                                           *)

\* Statuses change and rows do not.
LEMMA LineageKept ==
  ASSUME Lineage,
         \A u \in Task : /\ SameKin(u)
                         /\ task'[u].status = "absent" <=> task[u].status = "absent",
         \A q \in Run : run[q].status # "absent" => run'[q].status # "absent"
  PROVE  Lineage'
BY DEF Lineage, SameKin

\* A new row has a run, and the parent it has is of that run.
LEMMA LineageBorn ==
  ASSUME LineState, NEW r \in Run, NEW t \in Task, NEW k \in Key \cup {NoKey},
         NEW p \in Task \cup {NoTask}, Born(r, t, k, p),
         run'[r].status # "absent",
         p \in Task => task[p].status # "absent" /\ task[p].run = r,
         \A q \in Run : run[q].status # "absent" => run'[q].status # "absent"
  PROVE  Lineage'
<1>1. task \in [Task -> TaskRec] /\ Lineage
  BY Columns DEF LineState
<1>2. /\ task'[t].status = "queued" /\ task'[t].run = r /\ task'[t].parent = p
      /\ \A u \in Task : u # t => task'[u] = task[u]
  BY <1>1, NewColumns DEF Born
<1>3. task[t].status = "absent"
  BY DEF Born
<1>4. ASSUME NEW u \in Task
      PROVE  /\ task'[u].status = "absent" => task'[u].run = NoRun /\ task'[u].parent = NoTask
             /\ task'[u].run \in Run => run'[task'[u].run].status # "absent"
             /\ task'[u].parent \in Task =>
                  /\ task'[task'[u].parent].status # "absent"
                  /\ task'[task'[u].parent].run = task'[u].run
  <2>1. CASE u = t
    BY <1>2, <1>3, <2>1
  <2>2. CASE u # t
    BY <1>1, <1>2, <1>3, <2>2 DEF Lineage
  <2> QED
    BY <2>1, <2>2
<1> QED
  BY <1>4 DEF Lineage

\* How a run ends.
LEMMA OutcomeEnds == \A r : Outcome(r) \in RunEnd /\ Outcome(r) # "absent"
BY DEF Outcome, RunEnd

LEMMA StepLineage ==
  ASSUME LineState, Kinds
  PROVE  Lineage'
<1> USE DEF LineState
<1>1. ASSUME NEW r \in Run, NEW t \in Task, NEW k \in Key \cup {NoKey}, Begun(r, t, k)
      PROVE  Lineage'
  <2>1. /\ run'[r].status = "queued"
        /\ \A q \in Run : q # r => run'[q] = run[q]
    BY <1>1, Columns DEF Begun, RunRec
  <2>2. NoTask \in Task \cup {NoTask} /\ NoTask \notin Task
    BY Defaults
  <2> QED
    BY <1>1, <2>1, <2>2, LineageBorn DEF Begun
<1>2. ASSUME NEW p \in Task, NEW t \in Task, NEW k \in Key, Spawned(p, t, k)
      PROVE  Lineage'
  <2>1. task[p].status # "absent" /\ task[p].run \in Run /\ UNCHANGED run
    BY <1>2 DEF Spawned, IsActive, ActiveStatus
  <2>2. run[task[p].run].status # "absent"
    BY <2>1 DEF Lineage
  <2>3. Born(task[p].run, t, k, p)
    BY <1>2 DEF Spawned
  <2> QED
    BY <2>1, <2>2, <2>3, LineageBorn
<1>3. ASSUME NEW r \in Run, NEW S \in SUBSET Task, NEW s \in TaskEnd, SettledAs(r, S, s)
      PROVE  Lineage'
  BY <1>3, LineageKept DEF SettledAs, RunsStay, TaskEnd, IsActive, ActiveStatus
<1>4. ASSUME NEW r \in Run, Finished(r)
      PROVE  Lineage'
  <2>1. run[r].status \in ActiveStatus /\ run' = [run EXCEPT ![r].status = Outcome(r)]
    BY <1>4 DEF Finished, MayEnd, RunActive
  <2>2. \A q \in Run : run'[q].status = IF q = r THEN Outcome(r) ELSE run[q].status
    BY <2>1, Columns DEF RunRec
  <2> QED
    BY <1>4, <2>2, OutcomeEnds, LineageKept DEF Finished, SameKin
<1>5. ASSUME NEW r \in Run, Aborted(r)
      PROVE  Lineage'
  BY <1>5, LineageKept DEF Aborted, IsActive, ActiveStatus
<1>6. ASSUME NEW r \in Run, NEW t \in Task, Restored(r, t)
      PROVE  Lineage'
  BY <1>6, LineageKept DEF Restored
<1>7. CASE Kept
  BY <1>7, LineageKept DEF Kept, ActiveStatus
<1> QED
  BY <1>1, <1>2, <1>3, <1>4, <1>5, <1>6, <1>7 DEF Kinds

\* Kinds apply in every reachable state.
LEMMA LineInductive == Spec => []LineState
<1>1. Init => LineState
  <2>1. Init => FinishedRunQuiet
    BY DEF Init, FinishedRunQuiet, IsActive, ActiveStatus, BlankTask
  <2>2. Init => Lineage
    BY Defaults DEF Init, Lineage, BlankTask
  <2> QED
    BY <2>1, <2>2, InitTyped DEF LineState
<1>2. LineState /\ [Next]_vars => LineState'
  <2>1. LineState /\ [Next]_vars => Lineage'
    BY StepKinds, StepLineage
  <2>2. LineState /\ [Next]_vars => TypedState' /\ FinishedRunQuiet'
    BY StepTyped, StepQuiet DEF LineState, QuietState
  <2> QED
    BY <2>1, <2>2 DEF LineState
<1> QED
  BY <1>1, <1>2, PTL DEF Spec

-----------------------------------------------------------------------------
(* What an observer of runs sees of a step.                                *)

Phase   == [r \in Run |-> IF RunActive(r) THEN "active" ELSE run[r].status]
Open    == [r \in Run |-> {t \in TasksOf(r) : IsActive(t)}]
Settled == [r \in Run |-> {t \in TasksOf(r) : ~IsActive(t)}]

\* A run's phase depends on its status alone.
PhaseFor(s) == IF s \in ActiveStatus THEN "active" ELSE s

LEMMA PhaseAt ==
  /\ \A r \in Run : Phase[r] = PhaseFor(run[r].status)
  /\ \A r \in Run : Phase'[r] = PhaseFor(run'[r].status)
BY DEF Phase, PhaseFor, RunActive

LEMMA RowsAt ==
  /\ \A r \in Run : /\ Open[r] = {u \in Task : task[u].run = r /\ IsActive(u)}
                    /\ Settled[r] = {u \in Task : task[u].run = r /\ ~IsActive(u)}
  /\ \A r \in Run :
       /\ Open'[r] = {u \in Task : task'[u].run = r /\ task'[u].status \in ActiveStatus}
       /\ Settled'[r] = {u \in Task : task'[u].run = r /\ task'[u].status \notin ActiveStatus}
BY DEF Open, Settled, TasksOf, IsActive

\* Runs and rows as RunLifecycle reads them.
LEMMA Abstraction ==
  /\ \A r \in Run, t \in Task :
       /\ Lifecycle!Begin(r, t) <=>
            /\ Phase[r] = "absent" /\ (\A q \in Run : t \notin Open[q] \cup Settled[q])
            /\ Phase' = [Phase EXCEPT ![r] = "active"]
            /\ Open' = [Open EXCEPT ![r] = {t}] /\ Settled' = Settled
       /\ Lifecycle!Spawn(r, t) <=>
            /\ Phase[r] = "active" /\ Open[r] # {}
            /\ \A q \in Run : t \notin Open[q] \cup Settled[q]
            /\ Open' = [Open EXCEPT ![r] = @ \cup {t}]
            /\ Phase' = Phase /\ Settled' = Settled
       /\ Lifecycle!Reopen(r, t) <=>
            /\ Phase[r] \in {"active", "failed", "partial"} /\ t \in Settled[r]
            /\ Phase' = [Phase EXCEPT ![r] = "active"]
            /\ Open' = [Open EXCEPT ![r] = @ \cup {t}]
            /\ Settled' = [Settled EXCEPT ![r] = @ \ {t}]
  /\ \A r \in Run, S \in SUBSET Task :
       Lifecycle!Settle(r, S) <=>
         /\ Phase[r] = "active" /\ S # {} /\ S \subseteq Open[r]
         /\ Open' = [Open EXCEPT ![r] = @ \ S]
         /\ Settled' = [Settled EXCEPT ![r] = @ \cup S] /\ Phase' = Phase
  /\ \A r \in Run :
       /\ \A v \in RunEnd :
            Lifecycle!End(r, v) <=>
              /\ Phase[r] = "active" /\ Open[r] = {}
              /\ Phase' = [Phase EXCEPT ![r] = v]
              /\ Open' = Open /\ Settled' = Settled
       /\ Lifecycle!Abort(r) <=>
            /\ Phase[r] = "active"
            /\ Phase' = [Phase EXCEPT ![r] = "cancelled"]
            /\ Open' = [Open EXCEPT ![r] = {}]
            /\ Settled' = [Settled EXCEPT ![r] = @ \cup Open[r]]
  /\ Phase' = Phase /\ Open' = Open /\ Settled' = Settled
       <=> UNCHANGED Lifecycle!vars
BY DEF Lifecycle!Begin, Lifecycle!Spawn, Lifecycle!Reopen, Lifecycle!Settle,
       Lifecycle!End, Lifecycle!Abort, Lifecycle!Unused, Lifecycle!vars,
       Phase, Open, Settled

\* A new row is open in its run and was in none.
LEMMA BornView ==
  ASSUME LineState, NEW r \in Run, NEW t \in Task, NEW k \in Key \cup {NoKey},
         NEW p \in Task \cup {NoTask}, Born(r, t, k, p)
  PROVE  /\ \A q \in Run : t \notin Open[q] \cup Settled[q]
         /\ Open' = [Open EXCEPT ![r] = @ \cup {t}]
         /\ Settled' = Settled
<1>1. task \in [Task -> TaskRec] /\ Lineage
  BY Columns DEF LineState
<1>2. /\ task'[t].status = "queued" /\ task'[t].run = r
      /\ \A u \in Task : u # t => task'[u] = task[u]
  BY <1>1, NewColumns DEF Born
<1>3. task[t].status = "absent" /\ task[t].run = NoRun /\ NoRun \notin Run
  BY <1>1, Defaults DEF Born, Lineage
<1>4. \A q \in Run : t \notin Open[q] \cup Settled[q]
  BY <1>3, RowsAt
<1>5. ASSUME NEW q \in Run
      PROVE  /\ Open'[q] = IF q = r THEN Open[q] \cup {t} ELSE Open[q]
             /\ Settled'[q] = Settled[q]
  <2>1. \A u \in Task : u # t => (u \in Open'[q] <=> u \in Open[q])
    BY <1>2, RowsAt DEF IsActive
  <2>2. \A u \in Task : u # t => (u \in Settled'[q] <=> u \in Settled[q])
    BY <1>2, RowsAt DEF IsActive
  <2>3. t \in Open'[q] <=> q = r
    BY <1>2, RowsAt DEF ActiveStatus
  <2>4. t \notin Settled'[q]
    BY <1>2, RowsAt DEF ActiveStatus
  <2>5. /\ Open[q] \subseteq Task /\ Settled[q] \subseteq Task
        /\ Open'[q] \subseteq Task /\ Settled'[q] \subseteq Task
    BY RowsAt
  <2>6. Settled'[q] = Settled[q]
    <3>1. \A u \in Task : u \in Settled'[q] <=> u \in Settled[q]
      BY <1>4, <2>2, <2>4
    <3> QED
      BY <2>5, <3>1
  <2>7. CASE q = r
    BY <2>1, <2>3, <2>5, <2>6, <2>7
  <2>8. CASE q # r
    <3>1. \A u \in Task : u \in Open'[q] <=> u \in Open[q]
      BY <1>4, <2>1, <2>3, <2>8
    <3> QED
      BY <2>5, <2>6, <2>8, <3>1
  <2> QED
    BY <2>7, <2>8
<1> QED
  BY <1>4, <1>5 DEF Open, Settled

\* A row stays in the set it was in, unless its status says otherwise.
LEMMA KinView ==
  ASSUME NEW q \in Run, \A u \in Task : SameKin(u)
  PROVE  /\ Open'[q] = {u \in Task : task[u].run = q /\ task'[u].status \in ActiveStatus}
         /\ Settled'[q] = {u \in Task : task[u].run = q /\ task'[u].status \notin ActiveStatus}
BY RowsAt DEF SameKin

\* When no row moves between the sets, both stay.
LEMMA StillView ==
  ASSUME \A u \in Task : /\ SameKin(u)
                         /\ task'[u].status \in ActiveStatus <=> task[u].status \in ActiveStatus
  PROVE  Open' = Open /\ Settled' = Settled
<1>1. ASSUME NEW q \in Run
      PROVE  Open'[q] = Open[q] /\ Settled'[q] = Settled[q]
  <2>1. \A u \in Task : /\ u \in Open'[q] <=> u \in Open[q]
                        /\ u \in Settled'[q] <=> u \in Settled[q]
    BY RowsAt, KinView DEF IsActive
  <2>2. /\ Open[q] \subseteq Task /\ Settled[q] \subseteq Task
        /\ Open'[q] \subseteq Task /\ Settled'[q] \subseteq Task
    BY RowsAt
  <2> QED
    BY <2>1, <2>2
<1> QED
  BY <1>1 DEF Open, Settled

\* When rows of S settle, they alone move.
LEMMA SettledView ==
  ASSUME NEW r \in Run, NEW S \in SUBSET Task, S \subseteq Open[r],
         \A u \in Task : /\ SameKin(u)
                         /\ task'[u].status \in ActiveStatus <=>
                              task[u].status \in ActiveStatus /\ u \notin S
  PROVE  /\ Open' = [Open EXCEPT ![r] = @ \ S]
         /\ Settled' = [Settled EXCEPT ![r] = @ \cup S]
<1>1. ASSUME NEW q \in Run, NEW u \in Task
      PROVE  /\ u \in Open'[q] <=> u \in Open[q] /\ (q = r => u \notin S)
             /\ u \in Settled'[q] <=> u \in Settled[q] \/ (q = r /\ u \in S)
  BY RowsAt, KinView DEF IsActive
<1>2. \A q \in Run : /\ Open[q] \subseteq Task /\ Settled[q] \subseteq Task
                     /\ Open'[q] \subseteq Task /\ Settled'[q] \subseteq Task
  BY RowsAt
<1>3. /\ Open'[r] = Open[r] \ S /\ Settled'[r] = Settled[r] \cup S
      /\ \A q \in Run : q # r => Open'[q] = Open[q] /\ Settled'[q] = Settled[q]
  BY <1>1, <1>2
<1>4. Open' = [Open EXCEPT ![r] = @ \ S]
  BY <1>3 DEF Open
<1>5. Settled' = [Settled EXCEPT ![r] = @ \cup S]
  BY <1>3 DEF Settled
<1> QED
  BY <1>4, <1>5

\* A row that is put back moves the other way.
LEMMA RestoredView ==
  ASSUME NEW r \in Run, NEW t \in Task, t \in Settled[r],
         \A u \in Task : /\ SameKin(u)
                         /\ task'[u].status \in ActiveStatus <=>
                              task[u].status \in ActiveStatus \/ u = t
  PROVE  /\ Open' = [Open EXCEPT ![r] = @ \cup {t}]
         /\ Settled' = [Settled EXCEPT ![r] = @ \ {t}]
<1>1. ASSUME NEW q \in Run, NEW u \in Task
      PROVE  /\ u \in Open'[q] <=> u \in Open[q] \/ (q = r /\ u = t)
             /\ u \in Settled'[q] <=> u \in Settled[q] /\ (q = r => u # t)
  BY RowsAt, KinView DEF IsActive
<1>2. \A q \in Run : /\ Open[q] \subseteq Task /\ Settled[q] \subseteq Task
                     /\ Open'[q] \subseteq Task /\ Settled'[q] \subseteq Task
  BY RowsAt
<1>3. /\ Open'[r] = Open[r] \cup {t} /\ Settled'[r] = Settled[r] \ {t}
      /\ \A q \in Run : q # r => Open'[q] = Open[q] /\ Settled'[q] = Settled[q]
  BY <1>1, <1>2
<1> QED
  BY <1>3 DEF Open, Settled

\* When one run changes its status, the phases change with it.
LEMMA PhaseSet ==
  ASSUME NEW r \in Run, NEW s,
         \A q \in Run : run'[q].status = IF q = r THEN s ELSE run[q].status
  PROVE  Phase' = [Phase EXCEPT ![r] = PhaseFor(s)]
<1>1. \A q \in Run : Phase'[q] = IF q = r THEN PhaseFor(s) ELSE Phase[q]
  BY PhaseAt
<1> QED
  BY <1>1 DEF Phase

LEMMA PhaseStill ==
  ASSUME \A q \in Run : \/ run'[q].status = run[q].status
                        \/ {run[q].status, run'[q].status} \subseteq ActiveStatus
  PROVE  Phase' = Phase
<1>1. \A q \in Run : Phase'[q] = Phase[q]
  BY PhaseAt DEF PhaseFor
<1> QED
  BY <1>1 DEF Phase

-----------------------------------------------------------------------------
(* Each kind of step is an action of RunLifecycle, or invisible.           *)

LEMMA BegunMaps ==
  ASSUME LineState, NEW r \in Run, NEW t \in Task, NEW k \in Key \cup {NoKey}, Begun(r, t, k)
  PROVE  Lifecycle!Begin(r, t)
<1>1. Born(r, t, k, NoTask) /\ NoTask \in Task \cup {NoTask}
  BY DEF Begun
<1>2. run[r].status = "absent"
      /\ \A q \in Run : run'[q].status = IF q = r THEN "queued" ELSE run[q].status
  BY Columns DEF Begun, LineState, RunRec
<1>3. Phase[r] = "absent" /\ Phase' = [Phase EXCEPT ![r] = "active"]
  <2>1. PhaseFor("absent") = "absent" /\ PhaseFor("queued") = "active"
    BY DEF PhaseFor, ActiveStatus
  <2>2. Phase' = [Phase EXCEPT ![r] = PhaseFor("queued")]
    BY <1>2, PhaseSet
  <2> QED
    BY <1>2, <2>1, <2>2, PhaseAt
<1>4. Open[r] = {}
  BY <1>2, RowsAt DEF LineState, FinishedRunQuiet, RunActive, ActiveStatus
<1>5. Open' = [Open EXCEPT ![r] = {t}] /\ Settled' = Settled
  BY <1>1, <1>4, BornView
<1>6. \A q \in Run : t \notin Open[q] \cup Settled[q]
  BY <1>1, BornView
<1> QED
  BY <1>3, <1>5, <1>6, Abstraction

LEMMA SpawnedMaps ==
  ASSUME LineState, NEW p \in Task, NEW t \in Task, NEW k \in Key, Spawned(p, t, k)
  PROVE  Lifecycle!Spawn(task[p].run, t)
<1>1. PICK r \in Run : r = task[p].run
  BY DEF Spawned
<1>2. Born(r, t, k, p) /\ IsActive(p) /\ UNCHANGED run
  BY <1>1 DEF Spawned
<1>3. Phase[r] = "active" /\ Phase' = Phase
  BY <1>1, <1>2, PhaseAt, PhaseStill DEF PhaseFor, LineState, FinishedRunQuiet, RunActive
<1>4. Open[r] # {}
  BY <1>1, <1>2, RowsAt
<1>5. /\ Open' = [Open EXCEPT ![r] = @ \cup {t}] /\ Settled' = Settled
      /\ \A q \in Run : t \notin Open[q] \cup Settled[q]
  BY <1>2, BornView
<1> QED
  BY <1>1, <1>3, <1>4, <1>5, Abstraction

LEMMA SettledMaps ==
  ASSUME LineState, NEW r \in Run, NEW S \in SUBSET Task, NEW s \in TaskEnd,
         SettledAs(r, S, s)
  PROVE  Lifecycle!Settle(r, S) \/ UNCHANGED Lifecycle!vars
<1>1. Phase' = Phase
  BY PhaseStill DEF SettledAs, RunsStay
<1>2. S \subseteq Open[r]
  BY RowsAt DEF SettledAs, TasksOf
<1>3. s \notin ActiveStatus
  BY DEF TaskEnd, ActiveStatus
<1>4. \A u \in Task : /\ SameKin(u)
                      /\ task'[u].status \in ActiveStatus <=>
                           task[u].status \in ActiveStatus /\ u \notin S
  BY <1>3 DEF SettledAs
<1>5. CASE S = {}
  BY <1>1, <1>4, <1>5, StillView, Abstraction
<1>6. CASE S # {}
  <2>1. Phase[r] = "active"
    BY <1>6, PhaseAt DEF SettledAs, TasksOf, LineState, FinishedRunQuiet, RunActive, PhaseFor
  <2>2. Open' = [Open EXCEPT ![r] = @ \ S] /\ Settled' = [Settled EXCEPT ![r] = @ \cup S]
    BY <1>2, <1>4, SettledView
  <2> QED
    BY <1>1, <1>2, <1>6, <2>1, <2>2, Abstraction
<1> QED
  BY <1>5, <1>6

LEMMA FinishedMaps ==
  ASSUME LineState, NEW r \in Run, Finished(r)
  PROVE  \E v \in RunEnd : Lifecycle!End(r, v)
<1>1. PICK v \in RunEnd : v = Outcome(r)
  BY OutcomeEnds
<1>2. \A q \in Run : run'[q].status = IF q = r THEN v ELSE run[q].status
  BY <1>1, Columns DEF Finished, LineState, RunRec
<1>3. Phase[r] = "active" /\ Phase' = [Phase EXCEPT ![r] = v]
  <2>1. PhaseFor(v) = v
    BY DEF PhaseFor, RunEnd, ActiveStatus
  <2>2. Phase' = [Phase EXCEPT ![r] = PhaseFor(v)]
    BY <1>2, PhaseSet
  <2> QED
    BY <2>1, <2>2, PhaseAt DEF Finished, MayEnd, RunActive, PhaseFor
<1>4. Open[r] = {}
  BY DEF Open, Finished, MayEnd
<1>5. Open' = Open /\ Settled' = Settled
  BY StillView DEF Finished, SameKin
<1>6. Lifecycle!End(r, v)
  BY <1>3, <1>4, <1>5, Abstraction
<1> QED
  BY <1>1, <1>6

LEMMA AbortedMaps ==
  ASSUME LineState, NEW r \in Run, Aborted(r)
  PROVE  Lifecycle!Abort(r)
<1>1. Phase[r] = "active" /\ Phase' = [Phase EXCEPT ![r] = "cancelled"]
  <2>1. PhaseFor("cancelled") = "cancelled"
    BY DEF PhaseFor, ActiveStatus
  <2>2. Phase' = [Phase EXCEPT ![r] = PhaseFor("cancelled")]
    BY PhaseSet DEF Aborted
  <2> QED
    BY <2>1, <2>2, PhaseAt DEF Aborted, RunActive, PhaseFor
<1>2. Open[r] \in SUBSET Task
  BY RowsAt
<1>3. \A u \in Task : /\ SameKin(u)
                      /\ task'[u].status \in ActiveStatus <=>
                           task[u].status \in ActiveStatus /\ u \notin Open[r]
  BY RowsAt DEF Aborted, TasksOf, IsActive, ActiveStatus
<1>4. /\ Open' = [Open EXCEPT ![r] = @ \ Open[r]]
      /\ Settled' = [Settled EXCEPT ![r] = @ \cup Open[r]]
  BY <1>2, <1>3, SettledView
<1>5. Open' = [Open EXCEPT ![r] = {}]
  BY <1>4
<1> QED
  BY <1>1, <1>4, <1>5, Abstraction

LEMMA RestoredMaps ==
  ASSUME LineState, NEW r \in Run, NEW t \in Task, Restored(r, t)
  PROVE  Lifecycle!Reopen(r, t)
<1>1. Phase[r] \in {"active", "failed", "partial"}
  BY PhaseAt DEF Restored, RunRetriable, PhaseFor, ActiveStatus
<1>2. Phase' = [Phase EXCEPT ![r] = "active"]
  <2>1. PhaseFor("running") = "active"
    BY DEF PhaseFor, ActiveStatus
  <2>2. Phase' = [Phase EXCEPT ![r] = PhaseFor("running")]
    BY PhaseSet DEF Restored
  <2> QED
    BY <2>1, <2>2
<1>3. t \in Settled[r]
  BY RowsAt DEF Restored, IsActive, ActiveStatus
<1>4. \A u \in Task : /\ SameKin(u)
                      /\ task'[u].status \in ActiveStatus <=>
                           task[u].status \in ActiveStatus \/ u = t
  BY DEF Restored, ActiveStatus
<1>5. Open' = [Open EXCEPT ![r] = @ \cup {t}] /\ Settled' = [Settled EXCEPT ![r] = @ \ {t}]
  BY <1>3, <1>4, RestoredView
<1> QED
  BY <1>1, <1>2, <1>3, <1>5, Abstraction

\* Every step is one of RunLifecycle's, or invisible in it.
LEMMA StepRefines == LineState /\ [Next]_vars => [Lifecycle!Next]_(Lifecycle!vars)
<1> SUFFICES ASSUME LineState, Kinds
             PROVE  Lifecycle!Next \/ UNCHANGED Lifecycle!vars
  BY StepKinds
<1>1. ASSUME NEW r \in Run, NEW t \in Task, NEW k \in Key \cup {NoKey}, Begun(r, t, k)
      PROVE  Lifecycle!Next
  BY <1>1, BegunMaps DEF Lifecycle!Next
<1>2. ASSUME NEW p \in Task, NEW t \in Task, NEW k \in Key, Spawned(p, t, k)
      PROVE  Lifecycle!Next
  <2>1. task[p].run \in Run
    BY <1>2 DEF Spawned
  <2> QED
    BY <1>2, <2>1, SpawnedMaps DEF Lifecycle!Next
<1>3. ASSUME NEW r \in Run, NEW S \in SUBSET Task, NEW s \in TaskEnd, SettledAs(r, S, s)
      PROVE  Lifecycle!Next \/ UNCHANGED Lifecycle!vars
  BY <1>3, SettledMaps DEF Lifecycle!Next
<1>4. ASSUME NEW r \in Run, Finished(r)
      PROVE  Lifecycle!Next
  <2>1. PICK v \in RunEnd : Lifecycle!End(r, v)
    BY <1>4, FinishedMaps
  <2> QED
    BY <2>1 DEF Lifecycle!Next, RunEnd, Lifecycle!Verdict
<1>5. ASSUME NEW r \in Run, Aborted(r)
      PROVE  Lifecycle!Next
  BY <1>5, AbortedMaps DEF Lifecycle!Next
<1>6. ASSUME NEW r \in Run, NEW t \in Task, Restored(r, t)
      PROVE  Lifecycle!Next
  BY <1>6, RestoredMaps DEF Lifecycle!Next
<1>7. ASSUME Kept
      PROVE  UNCHANGED Lifecycle!vars
  BY <1>7, PhaseStill, StillView, Abstraction DEF Kept
<1> QED
  BY <1>1, <1>2, <1>3, <1>4, <1>5, <1>6, <1>7 DEF Kinds

\* To whoever starts, watches and cancels runs the engine is RunLifecycle: a run ends only
\* when nothing is left to do in it, pages are added only while another is unfinished, a
\* cancelled run stops with all its tasks at once, and only a failed or partial run is ever
\* reopened, whatever leases expire, workers die and requests interleave.
THEOREM ImplementsRunLifecycle == Spec => ImplementsLifecycle
<1>1. Init => Lifecycle!Init
  <2> SUFFICES ASSUME Init
               PROVE  Lifecycle!Init
    OBVIOUS
  <2>1. /\ \A t \in Task : task[t].run = NoRun
        /\ \A r \in Run : run[r].status = "absent"
    BY DEF Init, BlankTask, BlankRun
  <2>2. \A r \in Run : TasksOf(r) = {} /\ ~RunActive(r)
    BY <2>1, Defaults DEF TasksOf, RunActive, ActiveStatus
  <2> QED
    BY <2>1, <2>2 DEF Lifecycle!Init
<1> QED
  BY <1>1, LineInductive, StepRefines, PTL DEF Spec, ImplementsLifecycle, Lifecycle!Spec

-----------------------------------------------------------------------------
(* What the kinds say of tasks.                                            *)

\* Rows that exist are what they were.
LEMMA PagesKept ==
  ASSUME OneTaskPerPage,
         \A u \in Task : /\ SameKin(u)
                         /\ task'[u].status = "absent" <=> task[u].status = "absent"
  PROVE  OneTaskPerPage'
BY DEF OneTaskPerPage, SameKin

\* A new row is the only one of its run with its key.
LEMMA PageBorn ==
  ASSUME LineState, OneTaskPerPage, NEW r \in Run, NEW t \in Task, NEW k \in Key \cup {NoKey},
         NEW p \in Task \cup {NoTask}, Born(r, t, k, p),
         \A u \in TasksOf(r) : task[u].key # k
  PROVE  OneTaskPerPage'
<1>1. task \in [Task -> TaskRec]
  BY Columns DEF LineState
<1>2. /\ task'[t].run = r /\ task'[t].key = k
      /\ \A u \in Task : u # t => task'[u] = task[u]
  BY <1>1, NewColumns DEF Born
<1>3. \A u \in Task : task[u].run = r => task[u].key # k
  BY DEF TasksOf
<1> QED
  BY <1>2, <1>3 DEF OneTaskPerPage

LEMMA StepPages ==
  ASSUME LineState, OneTaskPerPage, Kinds
  PROVE  OneTaskPerPage'
<1>1. ASSUME NEW r \in Run, NEW t \in Task, NEW k \in Key \cup {NoKey}, Begun(r, t, k)
      PROVE  OneTaskPerPage'
  <2>1. TasksOf(r) = {}
    BY <1>1 DEF Begun, TasksOf, LineState, Lineage
  <2>2. Born(r, t, k, NoTask) /\ NoTask \in Task \cup {NoTask}
    BY <1>1 DEF Begun
  <2> QED
    BY <2>1, <2>2, PageBorn
<1>2. ASSUME NEW p \in Task, NEW t \in Task, NEW k \in Key, Spawned(p, t, k)
      PROVE  OneTaskPerPage'
  BY <1>2, PageBorn DEF Spawned, NewPage
<1>3. ASSUME NEW r \in Run, NEW S \in SUBSET Task, NEW s \in TaskEnd, SettledAs(r, S, s)
      PROVE  OneTaskPerPage'
  BY <1>3, PagesKept DEF SettledAs, TaskEnd, IsActive, ActiveStatus
<1>4. ASSUME NEW r \in Run, Finished(r)
      PROVE  OneTaskPerPage'
  BY <1>4 DEF Finished, OneTaskPerPage
<1>5. ASSUME NEW r \in Run, Aborted(r)
      PROVE  OneTaskPerPage'
  BY <1>5, PagesKept DEF Aborted, IsActive, ActiveStatus
<1>6. ASSUME NEW r \in Run, NEW t \in Task, Restored(r, t)
      PROVE  OneTaskPerPage'
  BY <1>6, PagesKept DEF Restored
<1>7. CASE Kept
  BY <1>7, PagesKept DEF Kept, ActiveStatus
<1> QED
  BY <1>1, <1>2, <1>3, <1>4, <1>5, <1>6, <1>7 DEF Kinds

\* Whatever is replayed, restarted or opened twice at the same time, a run has one task for
\* a page: createTask looks for it under the lock of the run.
THEOREM OnePagePerTask == Spec => []OneTaskPerPage
<1>1. Init => OneTaskPerPage
  BY DEF Init, OneTaskPerPage, BlankTask
<1>2. LineState /\ OneTaskPerPage /\ [Next]_vars => OneTaskPerPage'
  BY StepKinds, StepPages
<1> QED
  BY <1>1, <1>2, LineInductive, PTL DEF Spec

\* An ended task is in no active status, and only a dead one is restored.
LEMMA FinalStays ==
  ASSUME LineState, Kinds, NEW t \in Task, task[t].status \in TaskEnd \ {"dead_letter"}
  PROVE  task'[t].status = task[t].status
<1>1. ~IsActive(t) /\ task[t].status # "absent"
  BY DEF IsActive, ActiveStatus, TaskEnd
<1>2. \A r, u, k, p : Born(r, u, k, p) => task'[t] = task[t]
  BY <1>1, Columns DEF Born, LineState
<1>3. ~({task[t].status, task'[t].status} \subseteq ActiveStatus)
  BY <1>1 DEF IsActive
<1> QED
  BY <1>1, <1>2, <1>3
     DEF Kinds, Begun, Spawned, SettledAs, Finished, Aborted, Restored, Kept

\* A success, a cancellation and a limit are final, in every step of every behaviour: the
\* fenced writes and the bulk updates hit unfinished tasks only, and RetryTask dead ones.
THEOREM EndsAreFinal == Spec => EndedTaskStays
<1>1. LineState /\ [Next]_vars =>
        \A t \in Task : task[t].status \in TaskEnd \ {"dead_letter"}
                          => task'[t].status = task[t].status
  BY FinalStays, StepKinds
<1> QED
  BY <1>1, LineInductive, PTL DEF Spec, EndedTaskStays

\* Nothing of a cancelled subtree is left to be claimed, at any depth and in any state of
\* the rest of the run.
THEOREM CancelReaches == Spec => CancelReachesSubtree
<1>1. ASSUME LineState, Kinds, NEW t \in Task, IsActive(t), task'[t].status = "cancelled",
             NEW d \in Descendants(t)
      PROVE  task'[d].status \notin ActiveStatus
  <2>1. d \in Task /\ "cancelled" \notin ActiveStatus /\ task[t].status # "absent"
    BY <1>1, DescentCloses DEF IsActive, ActiveStatus
  <2>2. task[t].status # "cancelled" /\ task'[t].status # task[t].status
    BY <1>1 DEF IsActive, ActiveStatus
  <2>3. \A r, u, k, p : ~Born(r, u, k, p)
    BY <1>1, <2>1, <2>2, NewColumns, Columns DEF Born, LineState
  <2>4. ASSUME NEW r \in Run, NEW S \in SUBSET Task, NEW s \in TaskEnd, SettledAs(r, S, s)
        PROVE  task'[d].status \notin ActiveStatus
    <3>1. t \in S /\ s = "cancelled"
      BY <1>1, <2>2, <2>4 DEF SettledAs
    <3> QED
      BY <2>1, <2>4, <3>1 DEF SettledAs, IsActive
  <2>5. ASSUME NEW r \in Run, Aborted(r)
        PROVE  task'[d].status \notin ActiveStatus
    <3>1. t \in TasksOf(r) /\ r \in Run
      BY <1>1, <2>2, <2>5 DEF Aborted
    <3>2. d \in TasksOf(r)
      BY <1>1, <3>1, DescendantsOfRun DEF TasksOf
    <3> QED
      BY <2>1, <2>5, <3>2 DEF Aborted, IsActive
  <2>6. ASSUME NEW r \in Run, NEW u \in Task, Restored(r, u)
        PROVE  FALSE
    BY <1>1, <2>2, <2>6 DEF Restored
  <2>7. ~Kept
    BY <1>1, <2>1, <2>2 DEF Kept
  <2>8. \A r \in Run : ~Finished(r)
    BY <2>2 DEF Finished
  <2> QED
    BY <1>1, <2>3, <2>4, <2>5, <2>6, <2>7, <2>8 DEF Kinds, Begun, Spawned
<1>2. LineState /\ [Next]_vars =>
        \A t \in Task : IsActive(t) /\ task'[t].status = "cancelled" =>
          \A d \in Descendants(t) : task'[d].status \notin ActiveStatus
  BY <1>1, StepKinds
<1> QED
  BY <1>2, LineInductive, PTL DEF Spec, CancelReachesSubtree

-----------------------------------------------------------------------------
(* What a worker knows of its task, at the point its calls have reached.   *)

Overdue(t) == run[task[t].run].overdue

\* Whoever is past ReservePage with task t has lost its lease.
NobodyCompletes(t) ==
  \A v \in Worker :
    worker[v].task = t /\ worker[v].pc \in {"executing", "observing"} => task[t].owner # v

\* A page that the deadline stopped will not succeed any more.
Hopeless(t) == Overdue(t) /\ task[t].status # "succeeded" /\ NobodyCompletes(t)

\* A late limit event can only be of a task that has one, or that will not succeed; a
\* retry that was planned is of a task with an attempt left, if the lease still holds.
ClaimKnown(w) ==
  LET t == worker[w].task IN
  worker[w].pc # "idle" =>
    /\ t \in Task /\ task[t].run \in Run
    /\ worker[w].pc = "stopped" => t \in events \/ Overdue(t)
    /\ worker[w].pc = "checked" => t \in events \/ Hopeless(t)
    /\ worker[w].pc = "retrying" /\ task[t].status = "running" /\ task[t].owner = w
         => AttemptsLeft(t)

ClaimsKnown == \A w \in Worker : ClaimKnown(w)

\* A run whose lock expireBudgetRun holds is active, and what it will close is the run's.
LocksKnown ==
  \A r \in Run : ~Unlocked(r) => RunActive(r) /\ run[r].doomed \subseteq TasksOf(r)

\* An oversized page has recorded its limit before it succeeds.
LimitsRecorded ==
  \A t \in Task :
    task[t].status = "succeeded" /\ task[t].key \in Oversized => t \in events

CleanState ==
  LineState /\ ClaimsKnown /\ LocksKnown /\ LimitsRecorded /\ SucceededRunClean

-----------------------------------------------------------------------------
(* What a step does to a row, a lock, a worker and the limit events.       *)

\* Row u keeps its claim, gives it up, or is claimed anew.
RowStep(u) ==
  \/ /\ task'[u].status = task[u].status /\ task'[u].owner = task[u].owner
     /\ task'[u].attempts = task[u].attempts /\ task'[u].max = task[u].max
  \/ /\ task'[u].status # "running" /\ task'[u].owner \in {task[u].owner, NoWorker}
     /\ task'[u].status = "succeeded" =>
          \/ task[u].status = "succeeded"
          \/ \E v \in Worker : Complete(v) /\ worker[v].task = u
     /\ task[u].status = "running" /\ task'[u].status = "queued" =>
          /\ task'[u].attempts = task[u].attempts /\ task'[u].max = task[u].max
          /\ AttemptsLeft(u) \/ \E v \in Worker : FailRetry(v) /\ worker[v].task = u
  \/ \E v \in Worker : Claim(v, u)

LockStep(r) ==
  /\ run[r].overdue => run'[r].overdue
  /\ \/ run'[r].lock = NoHandler
     \/ /\ run'[r].lock = run[r].lock /\ run'[r].doomed = run[r].doomed
        /\ run'[r].status = run[r].status
     \/ /\ RunActive(r) /\ run'[r].status = run[r].status
        /\ run'[r].doomed \subseteq TasksOf(r)

\* Worker w goes on to its next call, which changes neither run nor task.
Proceeds(w) ==
  LET t == worker[w].task IN
  /\ UNCHANGED <<run, task>> /\ worker[w].pc # "idle"
  /\ worker'[w].task = t
  /\ \/ worker'[w].pc \in {"recorded", "burying"}
     \/ worker'[w].pc = "executing" /\ worker[w].pc = "claimed" /\ ~Overdue(t)
     \/ /\ worker'[w].pc \in {"executing", "observing"}
        /\ worker[w].pc \in {"executing", "observing"}
     \/ worker'[w].pc = "stopped" /\ (t \in events' \/ Overdue(t))
     \/ worker'[w].pc = "checked" /\ worker[w].pc = "stopped" /\ Fence(w)
     \/ worker'[w].pc = "retrying" /\ AttemptsLeft(t)

WorkerStep(w) ==
  \/ worker'[w] = worker[w]
  \/ worker'[w].pc = "idle"
  \/ worker'[w].pc = "finishing" /\ worker'[w].task = worker[w].task /\ worker[w].pc # "idle"
  \/ \E t \in Task : Claim(w, t)
  \/ Proceeds(w)

EventStep ==
  /\ events \subseteq events' /\ produced \subseteq produced'
  /\ \A u \in events' : \/ u \in events
                        \/ RunActive(task[u].run)
                        \/ task[u].key \in Oversized
                        \/ \E w \in Worker : worker[w].pc = "checked" /\ worker[w].task = u

Rows == \A u \in Task : RowStep(u)
Locks == \A r \in Run : LockStep(r)
Workers == \A w \in Worker : WorkerStep(w)
Shape == Rows /\ Locks /\ Workers /\ EventStep

\* Tables that are not written.
LEMMA Unwritten ==
  /\ UNCHANGED task => Rows
  /\ UNCHANGED run => Locks
  /\ UNCHANGED worker => Workers
  /\ UNCHANGED <<events, produced>> => EventStep
BY DEF Rows, RowStep, Locks, LockStep, Workers, WorkerStep, EventStep

\* Updates of rows.
LEMMA ReleasedRows ==
  ASSUME TypedState, NEW t \in Task, NEW s, NEW d, task' = Released(t, s, d), s # "running",
         s = "succeeded" => \E v \in Worker : Complete(v) /\ worker[v].task = t,
         s = "queued" => AttemptsLeft(t) \/ \E v \in Worker : FailRetry(v) /\ worker[v].task = t
  PROVE  Rows
<1> SUFFICES ASSUME NEW u \in Task
             PROVE  RowStep(u)
  BY DEF Rows
<1>1. task[u] \in TaskRec /\ task \in [Task -> TaskRec]
  BY Columns
<1>2. CASE u = t
  <2>1. task'[u] = [task[u] EXCEPT !.status = s, !.owner = NoWorker,
                                   !.lease = 0, !.due = d]
    BY <1>1, <1>2 DEF Released
  <2>2. /\ task'[u].status = s /\ task'[u].owner = NoWorker
        /\ task'[u].attempts = task[u].attempts /\ task'[u].max = task[u].max
    BY <1>1, <2>1 DEF TaskRec
  <2> QED
    BY <1>2, <2>2 DEF RowStep
<1>3. CASE u # t
  BY <1>1, <1>3 DEF Released, RowStep
<1> QED
  BY <1>2, <1>3

LEMMA ClosedRows ==
  ASSUME TypedState, NEW S, NEW s \in {"cancelled", "limited"}, task' = TasksClosed(S, s)
  PROVE  Rows
<1> SUFFICES ASSUME NEW u \in Task
             PROVE  RowStep(u)
  BY DEF Rows
<1>1. task[u] \in TaskRec
  BY Columns
<1>2. CASE u \in S /\ IsActive(u)
  <2>1. task'[u] = [task[u] EXCEPT !.status = s, !.owner = NoWorker, !.lease = 0]
    BY <1>2 DEF TasksClosed
  <2>2. task'[u].status = s /\ task'[u].owner = NoWorker
    BY <1>1, <2>1 DEF TaskRec
  <2> QED
    BY <2>2 DEF RowStep
<1>3. CASE ~(u \in S /\ IsActive(u))
  BY <1>3 DEF TasksClosed, RowStep
<1> QED
  BY <1>2, <1>3

LEMMA BornRows ==
  ASSUME TypedState, NEW t \in Task, NEW r \in Run, NEW k \in Key \cup {NoKey},
         NEW p \in Task \cup {NoTask}, Born(r, t, k, p)
  PROVE  Rows
<1>1. task \in [Task -> TaskRec] /\ task[t].status = "absent"
  BY Columns DEF Born
<1>2. NewTask(r, k, p).status = "queued" /\ NewTask(r, k, p).owner = NoWorker
  BY DEF NewTask, BlankTask
<1>3. \A u \in Task : RowStep(u)
  BY <1>1, <1>2 DEF Born, RowStep
<1> QED
  BY <1>3 DEF Rows

\* Only a lease or a retry time is written.
LEMMA TimeRows ==
  ASSUME TypedState, NEW t \in Task,
         \/ \E l : task' = [task EXCEPT ![t].lease = l]
         \/ task' = [task EXCEPT ![t].due = TRUE]
  PROVE  Rows
<1>1. task \in [Task -> TaskRec]
  BY Columns
<1>2. \A u \in Task : RowStep(u)
  BY <1>1 DEF RowStep, TaskRec
<1> QED
  BY <1>2 DEF Rows

\* The status of a run whose lock is free.
LEMMA UnlockedLocks ==
  ASSUME TypedState, NEW r \in Run, Unlocked(r), NEW s, run' = [run EXCEPT ![r].status = s]
  PROVE  Locks
<1>1. run \in [Run -> RunRec]
  BY Columns
<1>2. \A q \in Run : LockStep(q)
  BY <1>1 DEF LockStep, Unlocked, RunRec
<1> QED
  BY <1>2 DEF Locks

LEMMA FinishLocks ==
  ASSUME TypedState, NEW t \in Task, TryFinish(t)
  PROVE  Locks
<1>1. CASE MayEnd(task[t].run)
  BY <1>1, UnlockedLocks DEF TryFinish, MayEnd, RunActive
<1>2. CASE ~MayEnd(task[t].run)
  BY <1>2, Unwritten DEF TryFinish
<1> QED
  BY <1>1, <1>2

\* One worker moves.
LEMMA OneWorker ==
  ASSUME TypedState, NEW w \in Worker
  PROVE  /\ GoIdle(w) => Workers
         /\ worker[w].pc # "idle" /\ Goto(w, "finishing") => Workers
         /\ \A label \in WorkerPc :
              Goto(w, label) /\ (worker'[w].pc = label /\ worker'[w].task = worker[w].task
                                   => Proceeds(w)) => Workers
<1>1. worker \in [Worker -> WorkerRec]
  BY DEF TypedState, WorkerTyped
<1>2. GoIdle(w) => Workers
  BY <1>1 DEF GoIdle, IdleWorker, Workers, WorkerStep
<1>3. worker[w].pc # "idle" /\ Goto(w, "finishing") => Workers
  BY <1>1 DEF Goto, Workers, WorkerStep, WorkerRec
<1>4. ASSUME NEW label \in WorkerPc, Goto(w, label),
             worker'[w].pc = label /\ worker'[w].task = worker[w].task => Proceeds(w)
      PROVE  Workers
  <2>1. worker'[w].pc = label /\ worker'[w].task = worker[w].task
    BY <1>1, <1>4 DEF Goto, WorkerRec
  <2>2. \A v \in Worker : v # w => worker'[v] = worker[v]
    BY <1>1, <1>4 DEF Goto
  <2> QED
    BY <1>4, <2>1, <2>2 DEF Workers, WorkerStep
<1> QED
  BY <1>2, <1>3, <1>4

-----------------------------------------------------------------------------
(* Every step has that shape.                                              *)

Known == LineState /\ ClaimsKnown /\ LocksKnown

\* The run that a new run's row becomes is not locked.
LEMMA StartShape ==
  ASSUME Known
  PROVE  /\ \A r \in Run, t \in Task, k \in Key : StartRun(r, t, k) => Shape
         /\ \A o \in Run, r \in Run, t \in Task : RerunRun(o, r, t) => Shape
<1> USE DEF Known, LineState
<1>1. ASSUME NEW r \in Run, run[r].status = "absent"
      PROVE  Unlocked(r)
  BY <1>1 DEF LocksKnown, RunActive, ActiveStatus
<1>2. NoTask \in Task \cup {NoTask}
  OBVIOUS
<1>3. ASSUME NEW r \in Run, NEW t \in Task, NEW k \in Key, StartRun(r, t, k)
      PROVE  Shape
  <2>1. Locks
    BY <1>1, <1>3, UnlockedLocks DEF StartRun
  <2>2. Born(r, t, k, NoTask)
    BY <1>3 DEF StartRun, Born
  <2>3. Rows
    BY <1>2, <2>2, BornRows
  <2> QED
    BY <1>3, <2>1, <2>3, Unwritten DEF StartRun, Shape
<1>4. ASSUME NEW o \in Run, NEW r \in Run, NEW t \in Task, RerunRun(o, r, t)
      PROVE  Shape
  <2>1. PICK root \in Task : task' = [task EXCEPT ![t] = NewTask(r, task[root].key, NoTask)]
    BY <1>4 DEF RerunRun, TasksOf
  <2>2. PICK k \in Key \cup {NoKey} : k = task[root].key
    BY Columns
  <2>3. Born(r, t, k, NoTask)
    BY <1>4, <2>1, <2>2 DEF RerunRun, Born
  <2>4. Rows
    BY <1>2, <2>3, BornRows
  <2>5. Locks
    BY <1>1, <1>4, UnlockedLocks DEF RerunRun
  <2> QED
    BY <1>4, <2>4, <2>5, Unwritten DEF RerunRun, Shape
<1> QED
  BY <1>3, <1>4

\* Steps of a worker that write no row.
LEMMA SilentShape ==
  ASSUME Known, NEW w \in Worker, Silent(w)
  PROVE  Shape
<1> USE DEF Known, LineState
<1>1. Rows /\ Locks
  BY SilentSteps, Unwritten
<1>2. UNCHANGED <<run, task>>
  BY SilentSteps
<1>3. worker[w].pc # "idle" => worker[w].task \in Task /\ task[worker[w].task].run \in Run
  BY DEF ClaimsKnown, ClaimKnown
<1>4. CASE PageGranted(w)
  <2>1. worker'[w].pc = "executing" /\ worker'[w].task = worker[w].task => Proceeds(w)
    BY <1>2, <1>4 DEF PageGranted, Proceeds, Overdue
  <2>2. Goto(w, "executing") /\ "executing" \in WorkerPc
    BY <1>4 DEF PageGranted, WorkerPc
  <2>3. Workers
    BY <2>1, <2>2, OneWorker
  <2> QED
    BY <1>1, <1>4, <2>3, Unwritten DEF PageGranted, Shape
<1>5. CASE PageRefused(w)
  <2>1. worker'[w].pc = "stopped" /\ worker'[w].task = worker[w].task => Proceeds(w)
    BY <1>2, <1>5 DEF PageRefused, Proceeds
  <2>2. Goto(w, "stopped") /\ "stopped" \in WorkerPc
    BY <1>5 DEF PageRefused, WorkerPc
  <2>3. Workers
    BY <2>1, <2>2, OneWorker
  <2>4. EventStep
    BY <1>5 DEF PageRefused, FenceUnderRun, EventStep
  <2> QED
    BY <1>1, <2>3, <2>4 DEF Shape
<1>6. CASE RecordTruncation(w)
  <2>1. EventStep
    BY <1>6 DEF RecordTruncation, EventStep
  <2> QED
    BY <1>1, <1>6, <2>1, Unwritten DEF RecordTruncation, Shape
<1>7. CASE PersistRecords(w)
  <2>1. EventStep
    BY <1>7 DEF PersistRecords, EventStep
  <2> QED
    BY <1>1, <1>7, <2>1, Unwritten DEF PersistRecords, Shape
<1>8. CASE PersistResource(w)
  <2>1. worker'[w].pc = "observing" /\ worker'[w].task = worker[w].task => Proceeds(w)
    BY <1>2, <1>8 DEF PersistResource, Proceeds
  <2>2. Goto(w, "observing") /\ "observing" \in WorkerPc
    BY <1>8 DEF PersistResource, WorkerPc
  <2>3. Workers
    BY <2>1, <2>2, OneWorker
  <2> QED
    BY <1>1, <1>8, <2>3, Unwritten DEF PersistResource, Shape
<1>9. CASE \E k \in Key : ChildRefused(w, k)
  <2>1. EventStep
    BY <1>9 DEF ChildRefused, FenceUnderRun, EventStep
  <2> QED
    BY <1>1, <1>9, <2>1, Unwritten DEF ChildRefused, Shape
<1>10. CASE ObserveResource(w)
  <2>1. worker'[w].pc = "executing" /\ worker'[w].task = worker[w].task => Proceeds(w)
    BY <1>2, <1>10 DEF ObserveResource, Proceeds
  <2>2. Goto(w, "executing") /\ "executing" \in WorkerPc
    BY <1>10 DEF ObserveResource, WorkerPc
  <2>3. Workers
    BY <2>1, <2>2, OneWorker
  <2>4. EventStep
    BY <1>10 DEF ObserveResource, EventStep
  <2> QED
    BY <1>1, <2>3, <2>4 DEF Shape
<1>11. CASE DeadlineStops(w)
  <2>1. worker'[w].pc = "stopped" /\ worker'[w].task = worker[w].task => Proceeds(w)
    BY <1>2, <1>11 DEF DeadlineStops, Proceeds, Overdue
  <2>2. Goto(w, "stopped") /\ "stopped" \in WorkerPc
    BY <1>11 DEF DeadlineStops, WorkerPc
  <2>3. Workers
    BY <2>1, <2>2, OneWorker
  <2> QED
    BY <1>1, <1>11, <2>3, Unwritten DEF DeadlineStops, Shape
<1>12. CASE CheckLimited(w)
  <2>1. worker'[w].pc = "checked" /\ worker'[w].task = worker[w].task => Proceeds(w)
    BY <1>2, <1>12 DEF CheckLimited, Proceeds
  <2>2. Goto(w, "checked") /\ "checked" \in WorkerPc
    BY <1>12 DEF CheckLimited, WorkerPc
  <2>3. Workers
    BY <2>1, <2>2, OneWorker
  <2> QED
    BY <1>1, <1>12, <2>3, Unwritten DEF CheckLimited, Shape
<1>13. CASE RecordLimit(w)
  <2>1. worker'[w].pc = "recorded" /\ worker'[w].task = worker[w].task => Proceeds(w)
    BY <1>2, <1>13 DEF RecordLimit, Proceeds
  <2>2. Goto(w, "recorded") /\ "recorded" \in WorkerPc
    BY <1>13 DEF RecordLimit, WorkerPc
  <2>3. Workers
    BY <2>1, <2>2, OneWorker
  <2>4. EventStep
    BY <1>13 DEF RecordLimit, EventStep
  <2> QED
    BY <1>1, <2>3, <2>4 DEF Shape
<1>14. CASE \E retryable \in BOOLEAN : PlanFail(w, retryable)
  <2>1. PICK label \in WorkerPc : /\ Goto(w, label) /\ worker[w].pc # "idle"
                                  /\ \/ label = "burying"
                                     \/ label = "retrying" /\ AttemptsLeft(worker[w].task)
    BY <1>14 DEF PlanFail, WorkerPc
  <2>2. worker'[w].pc = label /\ worker'[w].task = worker[w].task => Proceeds(w)
    BY <1>2, <2>1 DEF Proceeds
  <2>3. Workers
    BY <2>1, <2>2, OneWorker
  <2> QED
    BY <1>1, <1>14, <2>3, Unwritten DEF PlanFail, Shape
<1>15. CASE DropStale(w)
  <2>1. Workers
    BY <1>15, OneWorker DEF DropStale
  <2> QED
    BY <1>1, <1>15, <2>1, Unwritten DEF DropStale, Shape
<1>16. CASE WorkerCrash(w)
  <2>1. Workers
    BY <1>16, OneWorker DEF WorkerCrash
  <2> QED
    BY <1>1, <1>16, <2>1, Unwritten DEF WorkerCrash, Shape
<1> QED
  BY <1>4, <1>5, <1>6, <1>7, <1>8, <1>9, <1>10, <1>11, <1>12, <1>13, <1>14, <1>15, <1>16
     DEF Silent

\* Steps of a worker that do.
LEMMA WorkerShape ==
  ASSUME Known, NEW w \in Worker, Work(w), ~Silent(w)
  PROVE  Shape
<1> USE DEF Known, LineState
<1>1. ASSUME NEW t \in Task, Claim(w, t)
      PROVE  Shape
  <2>1. task[t].run \in Run /\ Unlocked(task[t].run)
    BY <1>1 DEF Claim, Eligible, RunActive
  <2>2. Locks
    BY <1>1, <2>1, UnlockedLocks DEF Claim
  <2>3. \A u \in Task : u # t => task'[u] = task[u]
    BY <1>1, Columns DEF Claim
  <2>4. Rows
    BY <1>1, <2>3 DEF Rows, RowStep
  <2>5. \A v \in Worker : v # w => worker'[v] = worker[v]
    BY <1>1 DEF Claim, TypedState, WorkerTyped
  <2>6. Workers
    BY <1>1, <2>5 DEF Workers, WorkerStep
  <2> QED
    BY <1>1, <2>2, <2>4, <2>6, Unwritten DEF Claim, Shape
<1>2. CASE Renew(w)
  <2>1. PICK t \in Task : task' = [task EXCEPT ![t].lease = LeaseTerm]
    BY <1>2 DEF Renew, Fence
  <2>2. Rows
    BY <2>1, TimeRows
  <2> QED
    BY <1>2, <2>2, Unwritten DEF Renew, Shape
<1>3. CASE \E t \in Task, k \in Key : CreateChild(w, t, k)
  <2>1. PICK t \in Task, k \in Key : CreateChild(w, t, k)
    BY <1>3
  <2>2. PICK p \in Task : p = worker[w].task
    BY <2>1 DEF CreateChild, FenceUnderRun, Fence
  <2>3. task[p].run \in Run /\ Born(task[p].run, t, k, p)
    BY <2>1, <2>2 DEF CreateChild, FenceUnderRun, RunActive, Born
  <2>4. Rows
    BY <2>3, BornRows
  <2> QED
    BY <2>1, <2>4, Unwritten DEF CreateChild, Shape
<1>4. CASE Complete(w)
  <2>1. PICK t \in Task : t = worker[w].task
    BY <1>4 DEF Complete, Fence
  <2>2. task' = Released(t, "succeeded", FALSE)
    BY <1>4, <2>1 DEF Complete
  <2>3. Rows
    BY <1>4, <2>1, <2>2, ReleasedRows
  <2>4. Workers
    BY <1>4, OneWorker DEF Complete
  <2> QED
    BY <1>4, <2>3, <2>4, Unwritten DEF Complete, Shape
<1>5. CASE CompleteLimited(w)
  <2>1. PICK t \in Task : t = worker[w].task
    BY <1>5 DEF CompleteLimited, Fence
  <2>2. task' = Released(t, "limited", FALSE)
    BY <1>5, <2>1 DEF CompleteLimited
  <2>3. Rows
    BY <2>2, ReleasedRows
  <2>4. Workers
    BY <1>5, OneWorker DEF CompleteLimited
  <2> QED
    BY <1>5, <2>3, <2>4, Unwritten DEF CompleteLimited, Shape
<1>6. CASE FailRetry(w)
  <2>1. PICK t \in Task : t = worker[w].task
    BY <1>6 DEF FailRetry, Fence
  <2>2. task' = Released(t, "queued", FALSE)
    BY <1>6, <2>1 DEF FailRetry
  <2>3. Rows
    BY <1>6, <2>1, <2>2, ReleasedRows
  <2>4. Workers
    BY <1>6, OneWorker DEF FailRetry
  <2> QED
    BY <1>6, <2>3, <2>4, Unwritten DEF FailRetry, Shape
<1>7. CASE FailDead(w)
  <2>1. PICK t \in Task : t = worker[w].task
    BY <1>7 DEF FailDead, Fence
  <2>2. task' = Released(t, "dead_letter", FALSE)
    BY <1>7, <2>1 DEF FailDead
  <2>3. Rows
    BY <2>2, ReleasedRows
  <2>4. Workers
    BY <1>7, OneWorker DEF FailDead
  <2> QED
    BY <1>7, <2>3, <2>4, Unwritten DEF FailDead, Shape
<1>8. CASE WorkerFinish(w)
  <2>1. PICK t \in Task : t = worker[w].task
    BY <1>8, WorkerGoes DEF WorkerFinish
  <2>2. Locks
    BY <1>8, <2>1, FinishLocks DEF WorkerFinish
  <2>3. Workers
    BY <1>8, OneWorker DEF WorkerFinish
  <2> QED
    BY <1>8, <2>2, <2>3, Unwritten DEF WorkerFinish, Shape
<1> QED
  BY <1>1, <1>2, <1>3, <1>4, <1>5, <1>6, <1>7, <1>8 DEF Work, Conclude, Silent

LEMMA HandlerShape ==
  ASSUME Known, NEW h \in Handler, Handle(h)
  PROVE  Shape
<1> USE DEF Known, LineState
<1>1. ASSUME NEW t \in Task, Recover(h, t)
      PROVE  Shape
  <2>1. PICK s \in {"queued", "dead_letter"} : s = AfterExpiry(t)
    BY DEF AfterExpiry
  <2>2. s = "queued" => AttemptsLeft(t)
    BY <2>1 DEF AfterExpiry
  <2>3. task' = Released(t, s, TRUE)
    BY <1>1, <2>1 DEF Recover
  <2>4. Rows
    BY <2>2, <2>3, ReleasedRows
  <2> QED
    BY <1>1, <2>4, Unwritten DEF Recover, Shape
<1>2. ASSUME NEW t \in Task, CancelTask(h, t)
      PROVE  Shape
  <2>1. Rows
    BY <1>2, ClosedRows DEF CancelTask
  <2> QED
    BY <1>2, <2>1, Unwritten DEF CancelTask, Shape
<1>3. ASSUME NEW r \in Run, BeginExpire(h, r)
      PROVE  Shape
  <2>1. /\ \A q \in Run \ {r} : run'[q] = run[q]
        /\ run'[r].overdue = run[r].overdue /\ run'[r].status = run[r].status
        /\ run'[r].doomed = {t \in TasksOf(r) : IsActive(t)}
    BY <1>3, Columns DEF BeginExpire, RunRec
  <2>2. LockStep(r)
    BY <1>3, <2>1 DEF BeginExpire, LockStep
  <2>3. \A q \in Run \ {r} : LockStep(q)
    BY <2>1 DEF LockStep
  <2>4. Locks
    BY <2>2, <2>3 DEF Locks
  <2> QED
    BY <1>3, <2>4, Unwritten DEF BeginExpire, Shape
<1>4. ASSUME NEW r \in Run, CommitExpire(h, r)
      PROVE  Shape
  <2>1. Rows
    BY <1>4, ClosedRows DEF CommitExpire
  <2>2. /\ \A q \in Run \ {r} : run'[q] = run[q]
        /\ run'[r].overdue = run[r].overdue /\ run'[r].lock = NoHandler
    BY <1>4, Columns DEF CommitExpire, RunRec
  <2>3. Locks
    BY <2>2 DEF Locks, LockStep
  <2>4. RunActive(r) /\ run[r].doomed \subseteq TasksOf(r)
    BY <1>4, EngineAssumption DEF CommitExpire, LocksKnown, Unlocked
  <2>5. EventStep
    BY <1>4, <2>4 DEF CommitExpire, EventStep, TasksOf
  <2> QED
    BY <1>4, <2>1, <2>3, <2>5, Unwritten DEF CommitExpire, Shape
<1>5. CASE CommitRetry(h)
  <2>1. PICK t \in Task : t = handler[h].task
    BY <1>5 DEF CommitRetry, TypedState, HandlerTyped
  <2>2. task[t].status = "dead_letter" /\ task[t].run \in Run /\ Unlocked(task[t].run)
    BY <1>5, <2>1, Columns DEF CommitRetry, MayRetry, Retriable
  <2>3. PICK m : task' = [task EXCEPT ![t] = [@ EXCEPT !.status = "queued", !.due = TRUE,
                                                       !.max = m]]
    BY <1>5, <2>1 DEF CommitRetry
  <2>4. task[t] \in TaskRec /\ task \in [Task -> TaskRec]
    BY Columns
  <2>5. \A u \in Task : u # t => task'[u] = task[u]
    BY <2>3, <2>4
  <2>6. task'[t] = [task[t] EXCEPT !.status = "queued", !.due = TRUE, !.max = m]
    BY <2>3, <2>4
  <2>7. task'[t].status = "queued" /\ task'[t].owner = task[t].owner
    BY <2>4, <2>6 DEF TaskRec
  <2>8. Rows
    BY <2>2, <2>5, <2>7 DEF Rows, RowStep
  <2>9. Locks
    BY <1>5, <2>1, <2>2, UnlockedLocks DEF CommitRetry, Reopened
  <2> QED
    BY <1>5, <2>8, <2>9, Unwritten DEF CommitRetry, Shape
<1>6. CASE HandlerFinish(h)
  <2>1. PICK t \in Task : t = handler[h].task
    BY <1>6 DEF HandlerFinish, TypedState, HandlerTyped
  <2>2. Locks
    BY <1>6, <2>1, FinishLocks DEF HandlerFinish
  <2> QED
    BY <1>6, <2>2, Unwritten DEF HandlerFinish, Shape
<1>7. CASE HandlerCrash(h)
  <2>1. ASSUME NEW q \in Run
        PROVE  LockStep(q)
    BY <1>7, <2>1, Columns DEF HandlerCrash, LockStep, RunRec
  <2> QED
    BY <1>7, <2>1, Unwritten DEF HandlerCrash, Shape, Locks
<1>8. CASE (\E t \in Task : ReadRetry(h, t)) \/ RefuseRetry(h)
  BY <1>8, Unwritten DEF ReadRetry, RefuseRetry, Shape
<1> QED
  BY <1>1, <1>2, <1>3, <1>4, <1>5, <1>6, <1>7, <1>8 DEF Handle

LEMMA TimeShape ==
  ASSUME Known
  PROVE  /\ \A r \in Run : CancelRun(r) \/ DeadlinePasses(r) => Shape
         /\ \A t \in Task : LeaseTick(t) \/ RetryDue(t) => Shape
<1> USE DEF Known, LineState
<1>1. ASSUME NEW r \in Run, CancelRun(r)
      PROVE  Shape
  <2>1. Rows
    BY <1>1, ClosedRows DEF CancelRun
  <2>2. Locks
    BY <1>1, UnlockedLocks DEF CancelRun
  <2> QED
    BY <1>1, <2>1, <2>2, Unwritten DEF CancelRun, Shape
<1>2. ASSUME NEW r \in Run, DeadlinePasses(r)
      PROVE  Shape
  <2>1. run' = [run EXCEPT ![r].overdue = TRUE] /\ run \in [Run -> RunRec]
    BY <1>2, Columns DEF DeadlinePasses
  <2>2. \A q \in Run : LockStep(q)
    BY <2>1 DEF LockStep, RunRec
  <2> QED
    BY <1>2, <2>2, Unwritten DEF DeadlinePasses, Shape, Locks
<1>3. ASSUME NEW t \in Task, LeaseTick(t)
      PROVE  Shape
  <2>1. PICK l : task' = [task EXCEPT ![t].lease = l]
    BY <1>3 DEF LeaseTick
  <2>2. Rows
    BY <2>1, TimeRows
  <2> QED
    BY <1>3, <2>2, Unwritten DEF LeaseTick, Shape
<1>4. ASSUME NEW t \in Task, RetryDue(t)
      PROVE  Shape
  <2>1. Rows
    BY <1>4, TimeRows DEF RetryDue
  <2> QED
    BY <1>4, <2>1, Unwritten DEF RetryDue, Shape
<1> QED
  BY <1>1, <1>2, <1>3, <1>4

LEMMA StepShape == Known /\ [Next]_vars => Shape
<1> SUFFICES ASSUME Known, [Next]_vars
             PROVE  Shape
  OBVIOUS
<1>1. ASSUME NEW w \in Worker, Work(w)
      PROVE  Shape
  BY <1>1, SilentShape, WorkerShape
<1>2. CASE UNCHANGED vars
  BY <1>2, Unwritten DEF vars, Shape
<1> QED
  BY <1>1, <1>2, StartShape, HandlerShape, TimeShape DEF Next

-----------------------------------------------------------------------------
(* What is known stays true.                                               *)

\* A row that exists keeps its pedigree, and its run the tasks it has.
LEMMA KinStays ==
  ASSUME LineState, Kinds, NEW u \in Task, task[u].run \in Run
  PROVE  SameKin(u)
<1>1. task[u].status # "absent"
  BY EngineAssumption DEF LineState, Lineage
<1>2. \A r, t, k, p : Born(r, t, k, p) => task'[u] = task[u]
  BY <1>1, Columns DEF Born, LineState
<1> QED
  BY <1>2 DEF Kinds, Begun, Spawned, SettledAs, Finished, Aborted, Restored, Kept, SameKin

\* What a claim writes.
LEMMA ClaimWrites ==
  ASSUME LineState, NEW v \in Worker, NEW t \in Task, Claim(v, t)
  PROVE  /\ task'[t].status = "running" /\ task'[t].owner = v
         /\ worker'[v].pc = "claimed" /\ worker'[v].task = t
<1>1. task[t] \in TaskRec /\ task \in [Task -> TaskRec]
  BY Columns DEF LineState
<1>2. PICK n : task' = [task EXCEPT ![t] = [@ EXCEPT !.status = "running", !.attempts = n,
                                                     !.owner = v, !.lease = LeaseTerm]]
  BY DEF Claim
<1>3. task'[t] = [task[t] EXCEPT !.status = "running", !.attempts = n,
                                 !.owner = v, !.lease = LeaseTerm]
  BY <1>1, <1>2
<1>4. task'[t].status = "running" /\ task'[t].owner = v
  BY <1>1, <1>3 DEF TaskRec
<1>5. worker'[v].pc = "claimed" /\ worker'[v].task = t
  BY DEF Claim, LineState, TypedState, WorkerTyped
<1> QED
  BY <1>4, <1>5

LEMMA TasksGrow ==
  ASSUME LineState, Kinds, NEW r \in Run
  PROVE  TasksOf(r) \subseteq TasksOf(r)'
BY KinStays DEF TasksOf, SameKin

\* Only tryFinishRun makes a run succeed, and a run that has succeeded gets no more tasks.
LEMMA SuccessSteps ==
  ASSUME LineState, Kinds, NEW r \in Run, run'[r].status = "succeeded"
  PROVE  \/ Finished(r)
         \/ run[r].status = "succeeded" /\ TasksOf(r)' \subseteq TasksOf(r)
<1>1. \A q \in Run : \A s : run' = [run EXCEPT ![q].status = s] =>
        \A x \in Run : run'[x].status = IF x = q THEN s ELSE run[x].status
  BY Columns DEF LineState, RunRec
<1>2. \A q \in Run, t \in Task, k \in Key \cup {NoKey}, p \in Task \cup {NoTask} :
        Born(q, t, k, p) /\ q # r => TasksOf(r)' \subseteq TasksOf(r)
  <2> SUFFICES ASSUME NEW q \in Run, NEW t \in Task, NEW k \in Key \cup {NoKey},
                      NEW p \in Task \cup {NoTask}, Born(q, t, k, p), q # r,
                      NEW u \in TasksOf(r)'
               PROVE  u \in TasksOf(r)
    OBVIOUS
  <2>1. task \in [Task -> TaskRec] /\ task' = [task EXCEPT ![t] = NewTask(q, k, p)]
    BY Columns DEF Born, LineState
  <2>2. task'[t].run = q /\ \A x \in Task : x # t => task'[x] = task[x]
    BY <2>1, NewColumns
  <2> QED
    BY <2>2 DEF TasksOf
<1>3. (\A u \in Task : SameKin(u)) => TasksOf(r)' \subseteq TasksOf(r)
  BY DEF SameKin, TasksOf
<1>4. ASSUME NEW q \in Run, NEW t \in Task, NEW k \in Key \cup {NoKey}, Begun(q, t, k)
      PROVE  run[r].status = "succeeded" /\ TasksOf(r)' \subseteq TasksOf(r)
  <2>1. q # r /\ run[r].status = "succeeded"
    BY <1>1, <1>4 DEF Begun
  <2> QED
    BY <1>2, <1>4, <2>1 DEF Begun
<1>5. ASSUME NEW p \in Task, NEW t \in Task, NEW k \in Key, Spawned(p, t, k)
      PROVE  run[r].status = "succeeded" /\ TasksOf(r)' \subseteq TasksOf(r)
  <2>1. RunActive(task[p].run) /\ run[r].status = "succeeded"
    BY <1>5 DEF Spawned, LineState, FinishedRunQuiet
  <2>2. task[p].run # r
    BY <2>1 DEF RunActive, ActiveStatus
  <2> QED
    BY <1>2, <1>5, <2>1, <2>2 DEF Spawned
<1>6. ASSUME NEW q \in Run, NEW S \in SUBSET Task, NEW s \in TaskEnd, SettledAs(q, S, s)
      PROVE  run[r].status = "succeeded" /\ TasksOf(r)' \subseteq TasksOf(r)
  BY <1>3, <1>6 DEF SettledAs, RunsStay
<1>7. ASSUME NEW q \in Run, Finished(q), ~Finished(r)
      PROVE  run[r].status = "succeeded" /\ TasksOf(r)' \subseteq TasksOf(r)
  <2>1. q # r /\ run' = [run EXCEPT ![q].status = Outcome(q)] /\ UNCHANGED task
    BY <1>7 DEF Finished
  <2>2. run[r].status = "succeeded"
    BY <2>1, Columns DEF LineState
  <2> QED
    BY <1>3, <2>1, <2>2 DEF SameKin
<1>8. ASSUME NEW q \in Run, Aborted(q)
      PROVE  run[r].status = "succeeded" /\ TasksOf(r)' \subseteq TasksOf(r)
  BY <1>3, <1>8 DEF Aborted
<1>9. ASSUME NEW q \in Run, NEW t \in Task, Restored(q, t)
      PROVE  run[r].status = "succeeded" /\ TasksOf(r)' \subseteq TasksOf(r)
  BY <1>3, <1>9 DEF Restored
<1>10. ASSUME Kept
       PROVE  run[r].status = "succeeded" /\ TasksOf(r)' \subseteq TasksOf(r)
  BY <1>3, <1>10 DEF Kept, ActiveStatus
<1> QED
  BY <1>4, <1>5, <1>6, <1>7, <1>8, <1>9, <1>10 DEF Kinds

\* A deadline stays passed.
LEMMA OverdueStays ==
  ASSUME LineState, Kinds, Shape, NEW t \in Task, task[t].run \in Run, Overdue(t)
  PROVE  Overdue(t)'
<1>1. SameKin(t)
  BY KinStays
<1> QED
  BY <1>1 DEF Overdue, Shape, Locks, LockStep, SameKin

LEMMA HopelessStays ==
  ASSUME LineState, Kinds, Shape, NEW t \in Task, task[t].run \in Run, Hopeless(t)
  PROVE  Hopeless(t)'
<1>1. Overdue(t) /\ Overdue(t)'
  BY OverdueStays DEF Hopeless
<1>2. RowStep(t)
  BY DEF Shape, Rows
<1>3. \A v \in Worker : ~(Complete(v) /\ worker[v].task = t)
  BY DEF Hopeless, NobodyCompletes, Complete, Fence
<1>4. \A v \in Worker : Claim(v, t) =>
        /\ task'[t].status = "running" /\ task'[t].owner = v /\ worker'[v].pc = "claimed"
  BY ClaimWrites
<1>5. task'[t].status # "succeeded"
  BY <1>2, <1>3, <1>4 DEF RowStep, Hopeless
<1>6. ASSUME NEW v \in Worker, worker'[v].task = t,
             worker'[v].pc \in {"executing", "observing"}
      PROVE  task'[t].owner # v
  <2>1. v # NoWorker
    BY EngineAssumption
  <2>2. ASSUME task[t].owner # v
        PROVE  task'[t].owner # v
    BY <1>2, <1>4, <1>6, <2>1, <2>2 DEF RowStep
  <2>3. \A u \in Task : ~Claim(v, u)
    BY <1>6, ClaimWrites
  <2>4. CASE worker'[v] = worker[v]
    BY <1>6, <2>2, <2>4 DEF Hopeless, NobodyCompletes
  <2>5. CASE Proceeds(v)
    <3>1. worker[v].task = t /\ worker[v].pc \in {"executing", "observing"}
      BY <1>1, <1>6, <2>5 DEF Proceeds
    <3> QED
      BY <2>2, <3>1 DEF Hopeless, NobodyCompletes
  <2> QED
    BY <1>6, <2>3, <2>4, <2>5 DEF Shape, Workers, WorkerStep
<1> QED
  BY <1>1, <1>5, <1>6 DEF Hopeless, NobodyCompletes

LEMMA StepClaims ==
  ASSUME LineState, ClaimsKnown, Kinds, Shape
  PROVE  ClaimsKnown'
<1> SUFFICES ASSUME NEW w \in Worker, worker'[w].pc # "idle"
             PROVE  ClaimKnown(w)'
  BY DEF ClaimsKnown, ClaimKnown
<1>1. CASE \E t \in Task : Claim(w, t)
  <2>1. PICK t \in Task : Claim(w, t)
    BY <1>1
  <2>2. worker'[w].pc = "claimed" /\ worker'[w].task = t
    BY <2>1, ClaimWrites
  <2>3. task[t].run \in Run
    BY <2>1 DEF Claim, Eligible, RunActive
  <2>4. task'[t].run \in Run
    BY <2>3, KinStays DEF SameKin
  <2> QED
    BY <2>2, <2>4 DEF ClaimKnown
<1>2. ASSUME worker[w].pc # "idle", worker'[w].task = worker[w].task
      PROVE  \E t \in Task : /\ worker[w].task = t /\ worker'[w].task = t
                             /\ task[t].run \in Run /\ task'[t].run \in Run
  BY <1>2, KinStays DEF ClaimsKnown, ClaimKnown, SameKin
<1>3. CASE worker'[w] = worker[w]
  <2>1. PICK t \in Task : /\ worker[w].task = t /\ worker'[w].task = t
                          /\ task[t].run \in Run /\ task'[t].run \in Run
    BY <1>2, <1>3
  <2>2. ClaimKnown(w) /\ events \subseteq events' /\ RowStep(t)
    BY DEF ClaimsKnown, Shape, EventStep, Rows
  <2>3. worker'[w].pc = "stopped" => t \in events' \/ Overdue(t)'
    BY <1>3, <2>1, <2>2, OverdueStays DEF ClaimKnown
  <2>4. worker'[w].pc = "checked" => t \in events' \/ Hopeless(t)'
    BY <1>3, <2>1, <2>2, HopelessStays DEF ClaimKnown
  <2>5. ASSUME worker'[w].pc = "retrying", task'[t].status = "running", task'[t].owner = w
        PROVE  AttemptsLeft(t)'
    <3>1. \A v \in Worker : ~Claim(v, t)
      <4>1. ASSUME NEW v \in Worker, Claim(v, t)
            PROVE  FALSE
        <5>1. task'[t].owner = v /\ worker'[v].pc = "claimed"
          BY <4>1, ClaimWrites
        <5> QED
          BY <2>5, <5>1
      <4> QED
        BY <4>1
    <3> QED
      BY <1>3, <2>1, <2>2, <2>5, <3>1 DEF RowStep, ClaimKnown, AttemptsLeft
  <2> QED
    BY <2>1, <2>3, <2>4, <2>5 DEF ClaimKnown
<1>4. CASE worker'[w].pc = "finishing" /\ worker'[w].task = worker[w].task /\ worker[w].pc # "idle"
  BY <1>2, <1>4 DEF ClaimKnown
<1>5. CASE Proceeds(w)
  <2>1. PICK t \in Task : /\ worker[w].task = t /\ worker'[w].task = t
                          /\ task[t].run \in Run /\ task'[t].run \in Run
    BY <1>2, <1>5 DEF Proceeds
  <2>2. ClaimKnown(w) /\ events \subseteq events' /\ UNCHANGED <<run, task>>
    BY <1>5 DEF ClaimsKnown, Shape, EventStep, Proceeds
  <2>3. worker'[w].pc = "stopped" => t \in events' \/ Overdue(t)'
    BY <1>5, <2>1, <2>2 DEF Proceeds, Overdue
  <2>4. ASSUME worker'[w].pc = "checked", t \notin events'
        PROVE  Hopeless(t)'
    <3>1. worker[w].pc = "stopped" /\ Fence(w)
      BY <1>5, <2>4 DEF Proceeds
    <3>2. Overdue(t)
      BY <2>1, <2>2, <2>4, <3>1 DEF ClaimKnown
    <3>3. task[t].status = "running" /\ task[t].owner = w
      BY <2>1, <3>1 DEF Fence
    <3> QED
      BY <2>2, <2>4, <3>2, <3>3 DEF Hopeless, NobodyCompletes, Overdue
  <2>5. worker'[w].pc = "retrying" => AttemptsLeft(t)'
    BY <1>5, <2>1, <2>2 DEF Proceeds, AttemptsLeft
  <2> QED
    BY <2>1, <2>3, <2>4, <2>5 DEF ClaimKnown
<1> QED
  BY <1>1, <1>3, <1>4, <1>5 DEF Shape, Workers, WorkerStep

LEMMA StepLocks ==
  ASSUME LineState, LocksKnown, Kinds, Shape
  PROVE  LocksKnown'
<1> SUFFICES ASSUME NEW r \in Run, run'[r].lock # NoHandler
             PROVE  run'[r].status \in ActiveStatus /\ run'[r].doomed \subseteq TasksOf(r)'
  BY DEF LocksKnown, Unlocked, RunActive
<1>1. TasksOf(r) \subseteq TasksOf(r)'
  BY TasksGrow
<1> QED
  BY <1>1 DEF Shape, Locks, LockStep, LocksKnown, Unlocked, RunActive

LEMMA StepLimits ==
  ASSUME LineState, LimitsRecorded, Kinds, Shape
  PROVE  LimitsRecorded'
<1> SUFFICES ASSUME NEW t \in Task, task'[t].status = "succeeded", task'[t].key \in Oversized
             PROVE  t \in events'
  BY DEF LimitsRecorded
<1>1. \A v \in Worker : ~Claim(v, t)
  BY ClaimWrites
<1>2. \/ task[t].status = "succeeded"
      \/ \E v \in Worker : Complete(v) /\ worker[v].task = t
  BY <1>1 DEF Shape, Rows, RowStep
<1>3. task[t].status # "absent"
  BY <1>2 DEF Complete, Fence
<1>4. task[t].key \in Oversized
  BY <1>3, KinStays, Columns DEF LineState, SameKin
<1>5. t \in events
  BY <1>2, <1>4 DEF Complete, LimitsRecorded
<1> QED
  BY <1>5 DEF Shape, EventStep

LEMMA StepClean ==
  ASSUME CleanState, Kinds, Shape
  PROVE  SucceededRunClean'
<1> USE DEF CleanState
<1> SUFFICES ASSUME NEW r \in Run, run'[r].status = "succeeded"
             PROVE  /\ \A t \in TasksOf(r)' : task'[t].status = "succeeded" /\ t \notin events'
                    /\ TasksOf(r)' \cap produced' # {}
  BY DEF SucceededRunClean
<1>1. CASE Finished(r)
  <2>1. Outcome(r) = "succeeded" /\ UNCHANGED <<task, events, produced>>
    BY <1>1, Columns DEF Finished, LineState, RunRec
  <2>2. /\ \A t \in TasksOf(r) : task[t].status \notin {"cancelled", "limited", "dead_letter"}
        /\ TasksOf(r) \cap events = {} /\ TasksOf(r) \cap produced # {}
    BY <2>1 DEF Outcome, Truncated
  <2>3. \A t \in TasksOf(r) : task[t].status \in TaskStatus \ {"absent", "queued", "running"}
    BY <1>1, Columns, EngineAssumption
       DEF Finished, MayEnd, IsActive, ActiveStatus, TasksOf, LineState, Lineage
  <2>4. \A t \in TasksOf(r) : task[t].status = "succeeded"
    BY <2>2, <2>3 DEF TaskStatus, TaskEnd, ActiveStatus
  <2>5. TasksOf(r)' = TasksOf(r)
    BY <2>1 DEF TasksOf
  <2> QED
    BY <2>1, <2>2, <2>4, <2>5
<1>2. CASE run[r].status = "succeeded" /\ TasksOf(r)' \subseteq TasksOf(r)
  <2>1. /\ \A t \in TasksOf(r) : task[t].status = "succeeded" /\ t \notin events
        /\ TasksOf(r) \cap produced # {}
    BY <1>2 DEF SucceededRunClean
  <2>2. \A t \in TasksOf(r) : t \in Task /\ task[t].run = r
    BY DEF TasksOf
  <2>3. \A t \in TasksOf(r) : task'[t].status = "succeeded"
    BY <2>1, <2>2, FinalStays DEF TaskEnd
  <2>4. ~RunActive(r)
    BY <1>2 DEF RunActive, ActiveStatus
  <2>5. ASSUME NEW t \in TasksOf(r), t \in events'
        PROVE  FALSE
    <3>1. t \notin events /\ task[t].status = "succeeded" /\ t \in Task
      BY <2>1, <2>2
    <3>2. task[t].key \notin Oversized
      BY <3>1 DEF LimitsRecorded
    <3>3. \A w \in Worker : ~(worker[w].pc = "checked" /\ worker[w].task = t)
      BY <3>1 DEF ClaimsKnown, ClaimKnown, Hopeless
    <3> QED
      BY <2>2, <2>4, <2>5, <3>1, <3>2, <3>3 DEF Shape, EventStep
  <2>6. TasksOf(r) \subseteq TasksOf(r)' /\ produced \subseteq produced'
    BY TasksGrow DEF Shape, EventStep
  <2> QED
    BY <1>2, <2>1, <2>3, <2>5, <2>6
<1> QED
  BY <1>1, <1>2, SuccessSteps

LEMMA CleanInductive == Spec => []CleanState
<1>1. Init => ClaimsKnown /\ LocksKnown /\ LimitsRecorded /\ SucceededRunClean
  BY DEF Init, IdleWorker, BlankRun, BlankTask, ClaimsKnown, ClaimKnown, LocksKnown, Unlocked,
         LimitsRecorded, SucceededRunClean
<1>2. CleanState /\ [Next]_vars =>
        ClaimsKnown' /\ LocksKnown' /\ LimitsRecorded' /\ SucceededRunClean'
  <2> SUFFICES ASSUME CleanState, [Next]_vars
               PROVE  ClaimsKnown' /\ LocksKnown' /\ LimitsRecorded' /\ SucceededRunClean'
    OBVIOUS
  <2>1. Kinds /\ Shape
    BY StepKinds, StepShape DEF CleanState, Known
  <2> QED
    BY <2>1, StepClaims, StepLocks, StepLimits, StepClean DEF CleanState
<1> QED
  BY <1>1, <1>2, LineInductive, PTL DEF Spec, CleanState

\* A success reported to whoever started the run is never taken back, not even by a late
\* RecordLimit of a superseded attempt, which asks for no lock and checks no fence: such a
\* call belongs to a page that has its limit already, or that can no longer succeed.
THEOREM SucceededRunsStayClean == Spec => []SucceededRunClean
BY CleanInductive, PTL DEF CleanState

\* What Fail decides on before its transaction still holds in it: the lease that its fence
\* checks has kept everyone else from spending an attempt of the task.
THEOREM RequeueKeepsAttempt == Spec => RequeuedHasAttempt
<1>1. ASSUME CleanState, Shape,
             NEW t \in Task, task[t].status = "running", task'[t].status = "queued"
      PROVE  task'[t].attempts < task'[t].max
  <2>1. RowStep(t) /\ \A v \in Worker : ~Claim(v, t)
    BY <1>1, ClaimWrites DEF Shape, Rows, CleanState
  <2>2. task'[t].attempts = task[t].attempts /\ task'[t].max = task[t].max
        /\ (AttemptsLeft(t) \/ \E v \in Worker : FailRetry(v) /\ worker[v].task = t)
    BY <1>1, <2>1 DEF RowStep
  <2>3. ASSUME NEW v \in Worker, FailRetry(v), worker[v].task = t
        PROVE  AttemptsLeft(t)
    <3>1. worker[v].pc = "retrying" /\ task[t].owner = v
      BY <2>3 DEF FailRetry, Fence
    <3>2. ClaimKnown(v)
      BY <1>1 DEF CleanState, ClaimsKnown
    <3> QED
      BY <1>1, <2>3, <3>1, <3>2 DEF ClaimKnown
  <2> QED
    BY <2>2, <2>3 DEF AttemptsLeft
<1>2. CleanState /\ [Next]_vars =>
        \A t \in Task : task[t].status = "running" /\ task'[t].status = "queued"
                          => task'[t].attempts < task'[t].max
  BY <1>1, StepShape DEF CleanState, Known
<1> QED
  BY <1>2, CleanInductive, PTL DEF Spec, RequeuedHasAttempt
=============================================================================
