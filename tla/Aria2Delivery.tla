--------------------------- MODULE Aria2Delivery ---------------------------
(***************************************************************************)
(* One magnet at aria2: its metadata is downloaded under one gid, which is *)
(* followed by the gid of its content. Notifications, the scan of stopped  *)
(* tasks and the job that runs every three hours feed one channel; the loop*)
(* of Aria2Downloader.Start drains it and updates the row that follows the *)
(* gid, if there is one yet. cmd does not start this package.              *)
(***************************************************************************)
EXTENDS Naturals, Sequences, SequencesExt

CONSTANTS EventCap,   \* the channel's capacity, 128
          MoveFailCap \* bound: moves of files that fail

Aria2Assumption == EventCap \in Nat \ {0} /\ MoveFailCap \in Nat

VARIABLES downloads, \* per gid, its state at aria2
          row,       \* the magnet
          submitter, \* the call of Download and the update that follows it
          heard,     \* gids whose notification waits for room in the channel
          events,    \* the channel
          handling,  \* the gid whose files the loop has moved
          failures

vars == <<downloads, row, submitter, heard, events, handling, failures>>

Gids == {"metadata", "content"}
NoGid == "none"

TypeOK ==
    /\ downloads \in [Gids -> {"none", "active", "complete", "error"}]
    /\ row \in [status : {"submitting", "downloading", "completed", "failed"},
                followedBy : Gids \union {NoGid}, done : BOOLEAN]
    /\ submitter \in {"add", "mark", "done"}
    /\ heard \subseteq Gids /\ handling \in Gids \union {NoGid}
    /\ events \in Seq(Gids) /\ Len(events) <= EventCap
    /\ failures \in 0..MoveFailCap

Init ==
    /\ downloads = [g \in Gids |-> "none"]
    /\ row = [status |-> "submitting", followedBy |-> NoGid, done |-> FALSE]
    /\ submitter = "add" /\ heard = {} /\ events = <<>> /\ handling = NoGid
    /\ failures = 0

(* Client.Submit, then MarkDownloadSubmitted: the download may be over.    *)
AddURI ==
    /\ submitter = "add"
    /\ submitter' = "mark"
    /\ downloads' = [downloads EXCEPT !["metadata"] = "active"]
    /\ UNCHANGED <<row, heard, events, handling, failures>>

MarkSubmitted ==
    /\ submitter = "mark"
    /\ submitter' = "done"
    /\ row' = [status |-> "downloading", followedBy |-> "metadata", done |-> FALSE]
    /\ UNCHANGED <<downloads, heard, events, handling, failures>>

(* aria2. A notification may be lost with the connection.                  *)
Stops(g, state) ==
    /\ downloads[g] = "active"
    /\ downloads' = IF g = "metadata" /\ state = "complete"
                    THEN [metadata |-> "complete", content |-> "active"]
                    ELSE [downloads EXCEPT ![g] = state]
    /\ \E hears \in SUBSET {g} : heard' = heard \union hears
    /\ UNCHANGED <<row, submitter, events, handling, failures>>

Send(g) == Len(events) < EventCap /\ events' = Append(events, g)

HandleEvent(g) ==
    /\ g \in heard /\ Send(g)
    /\ heard' = heard \ {g}
    /\ UNCHANGED <<downloads, row, submitter, handling, failures>>

EmitsFinished(g) == \* broken: the job looks for the content's gid only
    g = "content" /\ row.followedBy = g /\ ~row.done

Emits(g) == row.followedBy = g /\ ~row.done

(* triggerDownloadCompleteEventJob: a stopped task with a row that waits.  *)
TriggerComplete(g) ==
    /\ downloads[g] = "complete" /\ Emits(g) /\ Send(g)
    /\ UNCHANGED <<downloads, row, submitter, heard, handling, failures>>

(* processStoppedTasks, when initialize is started again: every error, and  *)
(* every finished task unless its row is done.                             *)
ProcessStopped(g) ==
    /\ \/ downloads[g] = "error"
       \/ downloads[g] = "complete" /\ ~(row.followedBy = g /\ row.done)
    /\ Send(g)
    /\ UNCHANGED <<downloads, row, submitter, heard, handling, failures>>

-----------------------------------------------------------------------------
(* The loop, one event at a time.                                          *)
Receive(g) ==
    /\ handling = NoGid /\ events # <<>> /\ Head(events) = g
    /\ events' = Tail(events)

(* UpdateFollowedBy: the event of a gid that no row follows is dropped.    *)
HandleMetadata ==
    /\ Receive("metadata") /\ downloads["metadata"] = "complete"
    /\ row' = IF row.followedBy = "metadata" THEN [row EXCEPT !.followedBy = "content", !.done = FALSE]
              ELSE row
    /\ UNCHANGED <<downloads, submitter, heard, handling, failures>>

IgnoreContent ==
    /\ Receive("content") /\ downloads["content"] = "complete"
    /\ row.followedBy # "content" \/ row.done
    /\ UNCHANGED <<downloads, row, submitter, heard, handling, failures>>

(* The files are moved, or one of them is not and all are left for later.  *)
MoveFiles ==
    /\ Receive("content") /\ downloads["content"] = "complete"
    /\ row.followedBy = "content" /\ ~row.done
    /\ \/ handling' = "content" /\ UNCHANGED failures
       \/ failures < MoveFailCap /\ failures' = failures + 1 /\ UNCHANGED handling
    /\ UNCHANGED <<downloads, row, submitter, heard>>

MarkPostProcessDone ==
    /\ handling # NoGid /\ ~row.done
    /\ row' = [row EXCEPT !.done = TRUE]
    /\ UNCHANGED <<downloads, submitter, heard, events, handling, failures>>

MarkCompleted ==
    /\ handling # NoGid /\ row.done
    /\ row' = [row EXCEPT !.status = "completed"]
    /\ handling' = NoGid
    /\ UNCHANGED <<downloads, submitter, heard, events, failures>>

(* MarkDownloadFailedByFollowed: nothing repeats an error's event.         *)
HandleError(g) ==
    /\ Receive(g) /\ downloads[g] = "error"
    /\ row' = IF row.followedBy = g THEN [row EXCEPT !.status = "failed"] ELSE row
    /\ UNCHANGED <<downloads, submitter, heard, handling, failures>>

Next ==
    \/ AddURI \/ MarkSubmitted
    \/ \E g \in Gids, state \in {"complete", "error"} : Stops(g, state)
    \/ \E g \in Gids : HandleEvent(g) \/ TriggerComplete(g) \/ ProcessStopped(g) \/ HandleError(g)
    \/ HandleMetadata \/ IgnoreContent \/ MoveFiles \/ MarkPostProcessDone \/ MarkCompleted

Handles == HandleMetadata \/ IgnoreContent \/ MoveFiles \/ \E g \in Gids : HandleError(g)

(* The caller goes on, the loop receives, and the job comes back: its send *)
(* is served in turn when the channel has room again.                      *)
Fairness ==
    /\ WF_vars(MarkSubmitted) /\ WF_vars(Handles)
    /\ WF_vars(MarkPostProcessDone) /\ WF_vars(MarkCompleted)
    /\ SF_vars(\E g \in Gids : TriggerComplete(g))

Spec == Init /\ [][Next]_vars

-----------------------------------------------------------------------------
(* A download that aria2 finished ends as completed, though its events come*)
(* before its row is written, in any order, twice or never, and moves of   *)
(* its files fail (handle_download_complete.go:14-73, job.go:15-40).       *)
FinishedIsCompleted == downloads["content"] = "complete" ~> row.status = "completed"
=============================================================================
