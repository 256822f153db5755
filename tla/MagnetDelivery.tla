--------------------------- MODULE MagnetDelivery --------------------------
(***************************************************************************)
(* The magnets table under the packages that deliver it: the download      *)
(* scheduler and the API requests that submit a magnet, the poller of the  *)
(* cloud drive that finishes it, and the operator who edits rows. cmd does *)
(* not start these packages; the requests of api/magnets are served.       *)
(***************************************************************************)
EXTENDS Naturals, FiniteSets

CONSTANTS Magnets, Jobs,
          JobOf,     \* per magnet, the job its link has at the drive
          NoJob, NoMagnet,
          Scheduler, \* the one RunOnce that its running flag admits
          Requests,  \* requests that submit a magnet by hand
          Pollers,   \* polls of the drive, which may overlap
          MaxRetry,  \* download_retry_count from which none is automatic
          RetryCap, FaultCap \* bounds: counted failures, edits and crashes

DeliveryAssumption ==
    /\ JobOf \in [Magnets -> Jobs] /\ NoJob \notin Jobs /\ NoMagnet \notin Magnets
    /\ Scheduler \notin Requests
    /\ MaxRetry \in Nat /\ RetryCap \in Nat /\ FaultCap \in Nat

VARIABLES magnets,    \* the rows
          jobs,       \* the jobs at the drive
          submitters, \* RunOnce and the requests: what is left, what is claimed
          pollers,    \* per poll, the rows it listed and the one it finishes
          faults       \* edits and crashes so far

vars == <<magnets, jobs, submitters, pollers, faults>>

Statuses == {"collected", "submitting", "downloading", "completed", "failed"}
Submitters == Requests \union {Scheduler}
NewMagnet == [status |-> "collected", followedBy |-> NoJob, done |-> FALSE,
              retries |-> 0, playable |-> FALSE, edited |-> FALSE]
IdleSubmitter == [todo |-> {}, at |-> NoMagnet, job |-> NoJob]
IdlePoller == [todo |-> {}, at |-> NoMagnet, job |-> NoJob, pc |-> "list"]

TypeOK ==
    /\ magnets \in [Magnets -> [status : Statuses, followedBy : Jobs \union {NoJob}, done : BOOLEAN,
                                retries : 0..RetryCap, playable : BOOLEAN, edited : BOOLEAN]]
    /\ jobs \in [Jobs -> {"none", "running", "completed", "failed"}]
    /\ submitters \in [Submitters -> [todo : SUBSET Magnets, at : Magnets \union {NoMagnet},
                                      job : Jobs \union {NoJob}]]
    /\ \A p \in Pollers : pollers[p].todo \subseteq Magnets \X Jobs /\ pollers[p].pc \in {"list", "mark", "complete"}
    /\ faults \in 0..FaultCap

Init ==
    /\ magnets = [m \in Magnets |-> NewMagnet]
    /\ jobs = [j \in Jobs |-> "none"]
    /\ submitters = [s \in Submitters |-> IdleSubmitter]
    /\ pollers = [p \in Pollers |-> IdlePoller]
    /\ faults = 0

-----------------------------------------------------------------------------
Followed(m) == magnets[m].followedBy
ByFollowed(j) == {m \in Magnets : Followed(m) = j}
Counted(n) == IF n < RetryCap THEN n + 1 ELSE n

MayRetry(m) ==
    magnets[m].status = "collected" \/ (magnets[m].status = "failed" /\ magnets[m].retries < MaxRetry)

PendingDownload == {m \in Magnets : Followed(m) = NoJob /\ MayRetry(m)}
CanSubmit(m) == magnets[m].status \in {"collected", "failed"}

(* RunOnce lists what is pending; a request names its magnet. Both read    *)
(* the row before they claim it.                                           *)
ListPending ==
    /\ submitters[Scheduler] = IdleSubmitter /\ PendingDownload # {}
    /\ submitters' = [submitters EXCEPT ![Scheduler].todo = PendingDownload]
    /\ UNCHANGED <<magnets, jobs, pollers, faults>>

Request(s, m) ==
    /\ submitters[s] = IdleSubmitter /\ CanSubmit(m)
    /\ submitters' = [submitters EXCEPT ![s].todo = {m}]
    /\ UNCHANGED <<magnets, jobs, pollers, faults>>

ClaimableAsListed(s, m) == \* broken: trusts what was read before
    TRUE

Claimable(s, m) == IF s = Scheduler THEN MayRetry(m) ELSE CanSubmit(m)

(* MarkDownloadSubmitting(Manual): one conditional update.                 *)
Claim(s, m) ==
    /\ submitters[s].at = NoMagnet /\ m \in submitters[s].todo
    /\ submitters' = [submitters EXCEPT ![s].todo = @ \ {m},
                                        ![s].at = IF Claimable(s, m) THEN m ELSE NoMagnet]
    /\ magnets' = IF Claimable(s, m) THEN [magnets EXCEPT ![m].status = "submitting"] ELSE magnets
    /\ UNCHANGED <<jobs, pollers, faults>>

(* Download: the drive answers a link it knows with the job it has.        *)
Download(s) ==
    /\ submitters[s].at # NoMagnet /\ submitters[s].job = NoJob
    /\ LET j == JobOf[submitters[s].at] IN
        /\ jobs' = [jobs EXCEPT ![j] = IF @ = "none" THEN "running" ELSE @]
        /\ submitters' = [submitters EXCEPT ![s].job = j]
    /\ UNCHANGED <<magnets, pollers, faults>>

Release(s) == submitters' = [submitters EXCEPT ![s].at = NoMagnet, ![s].job = NoJob]

MarkSubmitted(s) ==
    LET m == submitters[s].at IN
    /\ submitters[s].job # NoJob
    /\ magnets' = [magnets EXCEPT ![m].status = "downloading", ![m].followedBy = submitters[s].job,
                                  ![m].done = FALSE]
    /\ Release(s)
    /\ UNCHANGED <<jobs, pollers, faults>>

(* The drive refused; or a write failed and the row stays as claimed.      *)
SubmitFailed(s, recorded) ==
    LET m == submitters[s].at IN
    /\ m # NoMagnet
    /\ recorded => submitters[s].job = NoJob
    /\ magnets' = IF recorded
                  THEN [magnets EXCEPT ![m].status = "failed", ![m].retries = Counted(@)] ELSE magnets
    /\ Release(s)
    /\ UNCHANGED <<jobs, pollers, faults>>

-----------------------------------------------------------------------------
(* The drive.                                                              *)
JobEnds(j, status) ==
    /\ jobs[j] = "running"
    /\ jobs' = [jobs EXCEPT ![j] = status]
    /\ UNCHANGED <<magnets, submitters, pollers, faults>>

-----------------------------------------------------------------------------
(* pollPendingTasks, for each row it listed and the job it then followed.  *)
(* A query may fail, or the files offer nothing to play: the row is left.  *)
PendingPostProcess ==
    {m \in Magnets : magnets[m].status = "downloading" /\ Followed(m) # NoJob /\ ~magnets[m].done}

ListPostProcess(p) ==
    /\ pollers[p] = IdlePoller /\ PendingPostProcess # {}
    /\ pollers' = [pollers EXCEPT ![p].todo = {<<m, Followed(m)>> : m \in PendingPostProcess}]
    /\ UNCHANGED <<magnets, jobs, submitters, faults>>

PollRunning(p, item) ==
    /\ pollers[p].pc = "list" /\ jobs[item[2]] # "failed"
    /\ pollers' = [pollers EXCEPT ![p].todo = @ \ {item}]
    /\ UNCHANGED <<magnets, jobs, submitters, faults>>

(* handleComplete: a row that follows the job, then its STRM files.        *)
PollCompleted(p, item, m) ==
    /\ pollers[p].pc = "list" /\ jobs[item[2]] = "completed" /\ m \in ByFollowed(item[2])
    /\ pollers' = [pollers EXCEPT ![p].todo = @ \ {item}, ![p].at = m, ![p].job = item[2], ![p].pc = "mark"]
    /\ UNCHANGED <<magnets, jobs, submitters, faults>>

CompleteFirst(p) == \* broken: the job is completed whether or not its files are written
    {"mark", "complete"}

CompletesAt(p) == {"complete"}

MarkPostProcessDone(p) ==
    /\ pollers[p].pc = "mark"
    /\ magnets' = [magnets EXCEPT ![pollers[p].at].done = TRUE, ![pollers[p].at].playable = TRUE]
    /\ pollers' = [pollers EXCEPT ![p].pc = "complete"]
    /\ UNCHANGED <<jobs, submitters, faults>>

MarkCompleted(p) ==
    LET j == pollers[p].job IN
    /\ pollers[p].pc \in CompletesAt(p)
    /\ magnets' = [m \in Magnets |->
                      IF Followed(m) = j THEN [magnets[m] EXCEPT !.status = "completed", !.done = TRUE]
                      ELSE magnets[m]]
    /\ pollers' = [pollers EXCEPT ![p] = [IdlePoller EXCEPT !.todo = pollers[p].todo]]
    /\ UNCHANGED <<jobs, submitters, faults>>

(* A file cannot be removed or written, or an update fails.                *)
PostProcessFails(p) ==
    /\ pollers[p].pc # "list"
    /\ pollers' = [pollers EXCEPT ![p] = [IdlePoller EXCEPT !.todo = pollers[p].todo]]
    /\ UNCHANGED <<magnets, jobs, submitters, faults>>

(* handleError: every row of the job, whatever its status.                 *)
PollFailed(p, item) ==
    /\ pollers[p].pc = "list" /\ jobs[item[2]] = "failed"
    /\ magnets' = [m \in Magnets |->
                      IF Followed(m) = item[2]
                      THEN [magnets[m] EXCEPT !.status = "failed", !.retries = Counted(@)] ELSE magnets[m]]
    /\ pollers' = [pollers EXCEPT ![p].todo = @ \ {item}]
    /\ UNCHANGED <<jobs, submitters, faults>>

-----------------------------------------------------------------------------
(* MarkStatus and Update (all columns) write whatever was sent.            *)
Edit(m, status, job) ==
    /\ faults < FaultCap
    /\ faults' = faults + 1
    /\ magnets' = [magnets EXCEPT ![m].status = status, ![m].followedBy = job, ![m].edited = TRUE]
    /\ UNCHANGED <<jobs, submitters, pollers>>

Crash ==
    /\ faults < FaultCap
    /\ faults' = faults + 1
    /\ submitters' = [s \in Submitters |-> IdleSubmitter]
    /\ pollers' = [p \in Pollers |-> IdlePoller]
    /\ UNCHANGED <<magnets, jobs>>

Next ==
    \/ ListPending \/ Crash
    \/ \E s \in Requests, m \in Magnets : Request(s, m)
    \/ \E s \in Submitters :
        \/ \E m \in Magnets : Claim(s, m)
        \/ Download(s) \/ MarkSubmitted(s)
        \/ \E recorded \in BOOLEAN : SubmitFailed(s, recorded)
    \/ \E j \in Jobs, status \in {"completed", "failed"} : JobEnds(j, status)
    \/ \E p \in Pollers :
        \/ ListPostProcess(p) \/ MarkPostProcessDone(p) \/ MarkCompleted(p) \/ PostProcessFails(p)
        \/ \E item \in pollers[p].todo : PollRunning(p, item) \/ PollFailed(p, item)
        \/ \E item \in pollers[p].todo, m \in Magnets : PollCompleted(p, item, m)
    \/ \E m \in Magnets, status \in Statuses : \E job \in {NoJob, Followed(m)} : Edit(m, status, job)

Spec == Init /\ [][Next]_vars

-----------------------------------------------------------------------------
JobFailed(m) == Followed(m) \in Jobs /\ jobs[Followed(m)] = "failed"

(* Until its job fails, a magnet that nobody edited is submitted by one    *)
(* caller at a time, though the scheduler and the requests claim what they *)
(* read earlier. Once it has, a second report of the same failure puts a   *)
(* magnet that is being submitted again back among the failed, and another *)
(* caller claims it too (magnets.go:167-214 and 268-285,                   *)
(* download_scheduler.go:83-136).                                          *)
OneSubmitter ==
    \A m \in Magnets : ~magnets[m].edited /\ ~JobFailed(m) =>
        \A s, t \in Submitters : submitters[s].at = m /\ submitters[t].at = m => s = t

(* No completed magnet without its files: while no row is edited, some row *)
(* of a completed magnet's job has its play information, though magnets    *)
(* share jobs and a poll may fail or die half-way                          *)
(* (cloud_downloader.go:163-210).                                          *)
CompletedIsPlayable ==
    (\A m \in Magnets : ~magnets[m].edited) =>
        \A m \in Magnets : magnets[m].status = "completed" =>
            \E n \in ByFollowed(Followed(m)) : magnets[n].playable
=============================================================================
