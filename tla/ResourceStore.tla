--------------------------- MODULE ResourceStore ---------------------------
(***************************************************************************)
(* The resources of one identity (source, type, canonical key) under the   *)
(* crawlers' SaveCollected, the operator's requests and the adapter that   *)
(* copies a resource into the record store. Nothing but Update and         *)
(* ReplaceLinks opens a transaction: each other statement commits alone,   *)
(* so a call may end, by an error or with the process, between any two of  *)
(* them, and two calls interleave at each.                                 *)
(***************************************************************************)
EXTENDS Naturals

CONSTANTS Calls,    \* calls under way at once
          Requests, \* what they ask, see Request
          Links,
          IdCap     \* bound: rows inserted

Ids == 1..IdCap
Statuses == {"discovered", "collected", "validated", "invalid", "duplicate", "archived"}
Request == [kind : {"collect", "create", "update", "edit", "mark", "delete"},
            links : SUBSET Links, to : Statuses]

StoreAssumption == Requests \subseteq Request /\ IdCap \in Nat

VARIABLES rows,   \* per id, the row, its links and whether it exists
          record, \* the links of the record of this identity
          calls   \* per call, its request, its next statement and what it read

vars == <<rows, record, calls>>

NoRow == [exists |-> FALSE, status |-> "discovered", links |-> {}]
Idle == [kind |-> "none", links |-> {}, to |-> "discovered",
         pc |-> "idle", id |-> 0, saw |-> "discovered", todo |-> {}, read |-> {}]

TypeOK ==
    /\ rows \in [Ids -> [exists : BOOLEAN, status : Statuses, links : SUBSET Links]]
    /\ record \subseteq Links
    /\ \A c \in Calls :
        /\ calls[c].pc \in {"idle", "look", "insert", "append", "check", "replace", "write",
                            "event", "read", "save", "failed"}
        /\ calls[c].id \in 0..IdCap /\ calls[c].saw \in Statuses
        /\ calls[c].todo \subseteq Links /\ calls[c].read \subseteq Links

Init ==
    /\ rows = [i \in Ids |-> NoRow]
    /\ record = {}
    /\ calls = [c \in Calls |-> Idle]

CanTransitionFromArchived(from, to) == \* broken: archived resources can be taken up again
    from = to \/ to = "archived" \/ from # "discovered"

CanTransition(from, to) ==
    \/ from = to \/ to = "archived"
    \/ to \in CASE from = "discovered" -> {"collected", "invalid", "duplicate"}
                [] from = "collected" -> {"validated", "invalid", "duplicate"}
                [] from = "validated" -> {"invalid", "duplicate"}
                [] from \in {"invalid", "duplicate"} -> {"collected", "validated"}
                [] OTHER -> {}

-----------------------------------------------------------------------------
Current == {i \in Ids : rows[i].exists}
Row(c) == rows[calls[c].id]
At(c, pc) == calls[c].pc = pc
Goto(c, pc) == calls' = [calls EXCEPT ![c].pc = pc]
Return(c) == calls' = [calls EXCEPT ![c] = Idle]
OnRow(c, pc) == At(c, pc) /\ Row(c).exists

FirstStatement(r) ==
    CASE r.kind = "collect" -> "look" [] r.kind = "create" -> "insert" [] OTHER -> "check"

Start(c, r) ==
    /\ At(c, "idle")
    /\ calls' = [calls EXCEPT ![c] = [Idle EXCEPT !.kind = r.kind, !.links = r.links, !.to = r.to,
                                                  !.pc = FirstStatement(r), !.todo = r.links]]
    /\ UNCHANGED <<rows, record>>

(* SaveCollected: one row of this identity, found or inserted.             *)
Look(c) ==
    /\ At(c, "look")
    /\ IF Current = {} THEN Goto(c, "insert")
       ELSE \E i \in Current : calls' = [calls EXCEPT ![c].pc = "append", ![c].id = i]
    /\ UNCHANGED <<rows, record>>

InitialStatus(c) ==
    IF calls[c].kind = "create" THEN calls[c].to
    ELSE IF calls[c].links = {} THEN "invalid" ELSE "collected"

(* A second row of the identity violates its unique key.                   *)
Insert(c) ==
    LET id == CHOOSE i \in Ids : ~rows[i].exists /\ \A d \in Calls : calls[d].id # i IN
    /\ At(c, "insert") /\ Current = {}
    /\ \E i \in Ids : ~rows[i].exists /\ \A d \in Calls : calls[d].id # i
    /\ rows' = [rows EXCEPT ![id] = [exists |-> TRUE, status |-> InitialStatus(c), links |-> {}]]
    /\ calls' = [calls EXCEPT ![c].id = id,
                              ![c].pc = IF calls[c].kind = "create" THEN "replace" ELSE "append"]
    /\ UNCHANGED record

AppendLink(c, l) ==
    /\ OnRow(c, "append") /\ l \in calls[c].todo
    /\ rows' = [rows EXCEPT ![calls[c].id].links = @ \union {l}]
    /\ calls' = [calls EXCEPT ![c].todo = @ \ {l}]
    /\ UNCHANGED record

LinksAppended(c) ==
    /\ At(c, "append") /\ calls[c].todo = {}
    /\ Goto(c, "event")
    /\ UNCHANGED <<rows, record>>

(* Update (with links or without) and MarkStatus check the status they read*)
(* without a lock; a delete reads nothing.                                 *)
Edits(c) == calls[c].kind \in {"update", "edit"}

Check(c) ==
    /\ At(c, "check")
    /\ \E i \in Current :
        /\ calls[c].kind = "delete" \/ CanTransition(rows[i].status, calls[c].to)
        /\ calls' = [calls EXCEPT ![c].pc = IF Edits(c) THEN "replace" ELSE "write",
                                  ![c].id = i, ![c].saw = rows[i].status]
    /\ UNCHANGED <<rows, record>>

(* The transaction of Update, and that of ReplaceLinks after an insert.    *)
Replace(c) ==
    /\ OnRow(c, "replace")
    /\ rows' = [rows EXCEPT ![calls[c].id].links = IF calls[c].kind = "edit" THEN @ ELSE calls[c].links,
                            ![calls[c].id].status = IF Edits(c) THEN calls[c].to ELSE @]
    /\ Goto(c, "event")
    /\ UNCHANGED record

MarkStatus(c) ==
    /\ OnRow(c, "write") /\ calls[c].kind = "mark"
    /\ rows' = [rows EXCEPT ![calls[c].id].status = calls[c].to]
    /\ Goto(c, "event")
    /\ UNCHANGED record

(* The record stays; links, events and the record's own link go.           *)
Delete(c) ==
    /\ OnRow(c, "write") /\ calls[c].kind = "delete"
    /\ rows' = [rows EXCEPT ![calls[c].id] = NoRow]
    /\ Return(c)
    /\ UNCHANGED record

ImportsOnlyNew(c) == \* broken: a resource that was found is not imported again
    calls[c].kind # "mark" /\ (calls[c].kind = "collect" => calls[c].links = Row(c).links)

Imports(c) == calls[c].kind # "mark"

(* An event refers to its row; only a collector that found its row goes on *)
(* without one, to an import that does not find the row either.            *)
RecordEvent(c) ==
    /\ OnRow(c, "event")
    /\ IF Imports(c) THEN Goto(c, "read") ELSE Return(c)
    /\ UNCHANGED <<rows, record>>

(* ImportLegacyResource: what is read is merged later, and stays.          *)
ReadForImport(c) ==
    /\ OnRow(c, "read")
    /\ calls' = [calls EXCEPT ![c].pc = "save", ![c].read = Row(c).links]
    /\ UNCHANGED <<rows, record>>

SaveRecord(c) ==
    /\ At(c, "save")
    /\ record' = record \union calls[c].read
    /\ Return(c)
    /\ UNCHANGED rows

Asked(c, pc) ==
    calls' = [calls EXCEPT ![c] = [Idle EXCEPT !.kind = calls[c].kind, !.links = calls[c].links,
                                               !.to = calls[c].to, !.pc = pc, !.todo = calls[c].links]]

(* A statement is refused, its row is gone, or the process ends.           *)
Fail(c) ==
    /\ calls[c].pc \notin {"idle", "failed"}
    /\ Asked(c, "failed")
    /\ UNCHANGED <<rows, record>>

(* A workflow's task calls again with the same links; an operator may.     *)
CallAgain(c) ==
    /\ At(c, "failed")
    /\ Asked(c, FirstStatement(calls[c]))
    /\ UNCHANGED <<rows, record>>

Next ==
    \E c \in Calls :
        \/ \E r \in Requests : Start(c, r)
        \/ Look(c) \/ Insert(c) \/ LinksAppended(c) \/ Check(c) \/ Replace(c) \/ MarkStatus(c)
        \/ Delete(c) \/ RecordEvent(c) \/ ReadForImport(c) \/ SaveRecord(c)
        \/ \E l \in Links : AppendLink(c, l)
        \/ Fail(c) \/ CallAgain(c)

Spec == Init /\ [][Next]_vars

-----------------------------------------------------------------------------
Pending(c) == ~At(c, "idle")

(* The two stores converge: a link of a resource that its record lacks is  *)
(* owed by a call that has not returned, be it under way or failed         *)
(* (resources.go:58-122, legacy.go:15-25).                                 *)
LinksReachRecords ==
    \A i \in Current : \A l \in rows[i].links \ record :
        \E c \in Calls : Pending(c) /\ l \in calls[c].links

(* An archived resource is taken up again only by a request that had read  *)
(* its status before it was archived (magnet_status.go:48-69,              *)
(* resources.go:227-233 and 323-336).                                      *)
ArchivedStays ==
    [][\A i \in Ids :
        rows[i].exists /\ rows'[i].exists /\ rows[i].status = "archived" /\ rows'[i].status # "archived"
        => \E c \in Calls : calls[c].id = i /\ calls[c].saw # "archived"
                            /\ calls[c].pc \in {"replace", "write"}]_vars
=============================================================================
