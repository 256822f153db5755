----------------------------- MODULE Authoring -----------------------------
(***************************************************************************)
(* The versions of one workflow and their samples: drafts, the pages saved *)
(* with them, and the publication that replays every page of a draft under *)
(* the dataset's schema. A publication is one transaction that reads over  *)
(* other connections; what keeps its reads true until its commit are the   *)
(* locks of its version's row and, shared, of the dataset's row.           *)
(***************************************************************************)
EXTENDS Naturals, Sequences

CONSTANTS Calls,      \* requests under way
          Schemas,    \* what the dataset's schema can be
          Drafts,     \* [kind, fits]: the definitions that authors write
          Corpus,     \* [role, finds, fits]: the pages that authors save
          VersionCap  \* bound: versions

VARIABLES versions, \* workflow_versions in the order of their numbers
          samples,  \* per version, the pages saved with it
          schema,   \* the dataset's current schema
          requests  \* per call, its step and what it read

vars == <<versions, samples, schema, requests>>

Kinds == {"resource", "records", "listing"} \* persistence, and whether it lists
Finds == {"nothing", "next", "details"}     \* what a list page offers
Status == {"draft", "published", "retired"}
Idle == [pc |-> "idle", version |-> 0, latest |-> 0, pages |-> {}, retires |-> {}]

TypeOK ==
    /\ \A v \in DOMAIN versions : versions[v].kind \in Kinds /\ versions[v].status \in Status
    /\ samples \in [1..VersionCap -> SUBSET Corpus] /\ schema \in Schemas
    /\ \A c \in Calls :
        /\ requests[c].version \in 0..Len(versions) /\ requests[c].pages \subseteq Corpus
        /\ requests[c].pc \in {"idle", "insert", "save", "dataset", "validate", "read", "check",
                               "retire", "commit"}

NewDraft(d) == [kind |-> d.kind, fits |-> d.fits, status |-> "draft"]

(* Create: the workflow and its first version.                             *)
Init ==
    /\ \E d \in Drafts : versions = <<NewDraft(d)>>
    /\ samples = [v \in 1..VersionCap |-> {}]
    /\ schema \in Schemas
    /\ requests = [c \in Calls |-> Idle]

At(c, pc) == requests[c].pc = pc
Goto(c, pc) == requests' = [requests EXCEPT ![c].pc = pc]
Return(c) == requests' = [requests EXCEPT ![c] = Idle]
Version(c) == versions[requests[c].version]

(* The rows that a publication locks: its own version's, and those it retires. *)
Locked(c, v) ==
    \/ requests[c].version = v
       /\ requests[c].pc \in {"dataset", "validate", "read", "check", "retire", "commit"}
    \/ v \in requests[c].retires

VersionFree(v) == \A c \in Calls : ~Locked(c, v)

AlwaysFree == TRUE \* broken: the publication does not lock the dataset

DatasetFree == \A c \in Calls : requests[c].pc \notin {"validate", "read", "check", "retire", "commit"}

(* CreateDraft numbers its version from a read of its own; the unique key  *)
(* (workflow_id, version) refuses a number that was taken meanwhile.       *)
ReadLatest(c) ==
    /\ At(c, "idle")
    /\ requests' = [requests EXCEPT ![c].pc = "insert", ![c].latest = Len(versions)]
    /\ UNCHANGED <<versions, samples, schema>>

CreateDraft(c, d) ==
    /\ At(c, "insert") /\ Len(versions) < VersionCap
    /\ versions' = IF requests[c].latest = Len(versions) THEN Append(versions, NewDraft(d)) ELSE versions
    /\ Return(c)
    /\ UNCHANGED <<samples, schema>>

UpdateSchema(s) ==
    /\ DatasetFree
    /\ schema' = s
    /\ UNCHANGED <<versions, samples, requests>>

(* POST samples/create looks at the version, fetches the page or takes it  *)
(* as it is sent, and checks again under the version's lock.               *)
RoleFits(kind, page) ==
    page.role \in CASE kind = "resource" -> {} [] kind = "records" -> {"trigger"}
                    [] kind = "listing" -> {"list", "detail"}

FetchSample(c, v, page) ==
    /\ At(c, "idle")
    /\ versions[v].status = "draft" /\ RoleFits(versions[v].kind, page)
    /\ requests' = [requests EXCEPT ![c].pc = "save", ![c].version = v, ![c].pages = {page}]
    /\ UNCHANGED <<versions, samples, schema>>

SaveSample(c) ==
    /\ At(c, "save") /\ VersionFree(requests[c].version)
    /\ samples' = IF Version(c).status = "draft"
                  THEN [samples EXCEPT ![requests[c].version] = @ \union requests[c].pages] ELSE samples
    /\ Return(c)
    /\ UNCHANGED <<versions, schema>>

DeleteSample(v, page) ==
    /\ VersionFree(v) /\ versions[v].status = "draft" /\ page \in samples[v]
    /\ samples' = [samples EXCEPT ![v] = @ \ {page}]
    /\ UNCHANGED <<versions, schema, requests>>

-----------------------------------------------------------------------------
(* PublishVersion, which also rolls back to a retired version.             *)
PublishLock(c, v) ==
    /\ At(c, "idle") /\ VersionFree(v) /\ versions[v].status \in {"draft", "retired"}
    /\ requests' = [requests EXCEPT ![c].pc = "dataset", ![c].version = v]
    /\ UNCHANGED <<versions, samples, schema>>

LockDataset(c) ==
    /\ At(c, "dataset")
    /\ Goto(c, "validate")
    /\ UNCHANGED <<versions, samples, schema>>

(* The samples of a version that was published before are not replayed.    *)
Replayed(version) == version.kind # "resource" /\ version.status = "draft"

ValidateVersion(c) ==
    /\ At(c, "validate") /\ (Version(c).kind = "resource" \/ schema \in Version(c).fits)
    /\ Goto(c, IF Replayed(Version(c)) THEN "read" ELSE "retire")
    /\ UNCHANGED <<versions, samples, schema>>

(* What CheckSamples asks of all the pages together.                       *)
Covers(version, pages) ==
    /\ pages # {}
    /\ version.kind = "listing" =>
        \E list, detail \in pages : list.role = "list" /\ list.finds = "details" /\ detail.role = "detail"

ReadSamples(c) ==
    /\ At(c, "read") /\ Covers(Version(c), samples[requests[c].version])
    /\ requests' = [requests EXCEPT ![c].pc = "check", ![c].pages = samples[requests[c].version]]
    /\ UNCHANGED <<versions, samples, schema>>

(* PreviewSample, under the schema of the moment.                          *)
Passes(version, page) ==
    /\ RoleFits(version.kind, page)
    /\ IF page.role = "list" THEN page.finds # "nothing" ELSE schema \in version.fits \intersect page.fits

CheckSample(c, page) ==
    /\ At(c, "check") /\ page \in requests[c].pages /\ Passes(Version(c), page)
    /\ requests' = [requests EXCEPT ![c].pages = @ \ {page}]
    /\ UNCHANGED <<versions, samples, schema>>

(* The update waits for the rows of the published versions that it sees;   *)
(* two publications may miss each other.                                   *)
PublishedVersions == {v \in DOMAIN versions : versions[v].status = "published"}

RetireOthers(c) ==
    /\ At(c, "retire") \/ (At(c, "check") /\ requests[c].pages = {})
    /\ \A v \in PublishedVersions : VersionFree(v)
    /\ requests' = [requests EXCEPT ![c].pc = "commit", ![c].retires = PublishedVersions]
    /\ UNCHANGED <<versions, samples, schema>>

PublishCommit(c) ==
    /\ At(c, "commit")
    /\ versions' = [v \in DOMAIN versions |->
                       IF v = requests[c].version THEN [versions[v] EXCEPT !.status = "published"]
                       ELSE IF v \in requests[c].retires THEN [versions[v] EXCEPT !.status = "retired"]
                       ELSE versions[v]]
    /\ Return(c)
    /\ UNCHANGED <<samples, schema>>

(* A check refuses, a query fails or the process ends.                     *)
Rollback(c) ==
    /\ ~At(c, "idle")
    /\ Return(c)
    /\ UNCHANGED <<versions, samples, schema>>

Publishes(c) ==
    \/ LockDataset(c) \/ ValidateVersion(c) \/ ReadSamples(c) \/ RetireOthers(c) \/ PublishCommit(c)
    \/ \E page \in Corpus : CheckSample(c, page)

Next ==
    \/ \E s \in Schemas : UpdateSchema(s)
    \/ \E v \in DOMAIN versions, page \in Corpus : DeleteSample(v, page)
    \/ \E c \in Calls :
        \/ ReadLatest(c) \/ SaveSample(c) \/ Rollback(c) \/ Publishes(c)
        \/ \E d \in Drafts : CreateDraft(c, d)
        \/ \E v \in DOMAIN versions : PublishLock(c, v)
        \/ \E v \in DOMAIN versions, page \in Corpus : FetchSample(c, v, page)

Spec == Init /\ [][Next]_vars

-----------------------------------------------------------------------------
(* A version that persists records is first published only with a corpus   *)
(* of which every page passes under the schema of that very moment, and    *)
(* from then on the corpus is sealed: whatever pages are saved or deleted, *)
(* or schemas edited, while the publication checks them one by one         *)
(* (workflows.go:264-322, samples.go:74-96 and 122-146).                   *)
CorpusVouches ==
    [][\A v \in DOMAIN versions :
        /\ versions[v].status # "draft" => samples'[v] = samples[v]
        /\ Replayed(versions[v]) /\ versions'[v].status = "published" =>
            /\ Covers(versions[v], samples'[v])
            /\ \A page \in samples'[v] : Passes(versions[v], page)]_vars
=============================================================================
