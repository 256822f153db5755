-------------------------- MODULE AuthoringProofs ---------------------------
(***************************************************************************)
(* Why a published corpus vouches for its version, for any number of       *)
(* requests, schemas, drafts and pages. What a publication has checked so  *)
(* far stays true because of the rows it has locked; the invariant says    *)
(* what each step has established and who holds which row.                 *)
(***************************************************************************)
EXTENDS Authoring, TLAPS

Publishing == {"dataset", "validate", "read", "check", "retire", "commit"}
SchemaLocked == {"validate", "read", "check", "retire", "commit"}

Row == [kind : {d.kind : d \in Drafts}, fits : {d.fits : d \in Drafts}, status : Status]
Request == [pc : Publishing \union {"idle", "insert", "save"}, version : Nat, latest : Nat,
            pages : SUBSET Corpus, retires : SUBSET Nat]

Tables ==
    /\ versions \in Seq(Row) /\ Len(versions) \in 1..VersionCap
    /\ samples \in [1..VersionCap -> SUBSET Corpus]

Typed ==
    /\ Tables
    /\ requests \in [Calls -> Request]
    /\ \A c \in Calls :
        requests[c].pc \in Publishing \union {"save"} => requests[c].version \in DOMAIN versions

(* A publication's own version is not published, those it retires are, and *)
(* no two publications lock the same row.                                  *)
OwnLock(c) ==
    /\ requests[c].pc \in Publishing => Version(c).status # "published"
    /\ \A v \in requests[c].retires :
        requests[c].pc = "commit" /\ v \in DOMAIN versions /\ versions[v].status = "published"

OwnLocks == \A c \in Calls : OwnLock(c)

Disjoint == \A c, d \in Calls, v \in Nat : Locked(c, v) /\ Locked(d, v) => c = d

(* What c has checked of its version's pages.                              *)
Vouched(c) ==
    LET pages == samples[requests[c].version]
    IN  /\ requests[c].pc \in {"read", "check"} => Replayed(Version(c))
        /\ requests[c].pc = "retire" => ~Replayed(Version(c))
        /\ requests[c].pc = "check" =>
            Covers(Version(c), pages) /\ \A page \in pages \ requests[c].pages : Passes(Version(c), page)
        /\ requests[c].pc = "commit" /\ Replayed(Version(c)) =>
            Covers(Version(c), pages) /\ \A page \in pages : Passes(Version(c), page)

PublicationInv == Typed /\ OwnLocks /\ Disjoint /\ \A c \in Calls : Vouched(c)

-----------------------------------------------------------------------------
(* A new row and an idle request are well formed.                          *)
LEMMA Defaults ==
    /\ Idle \in Request
    /\ \A d \in Drafts : NewDraft(d) \in Row
BY DEF Idle, Request, Publishing, NewDraft, Row, Status

(* The initial state: one draft, nobody at work.                           *)
LEMMA InitInv ==
    ASSUME VersionCap \in Nat \ {0}
    PROVE  Init => PublicationInv
<1> SUFFICES ASSUME Init PROVE PublicationInv
  OBVIOUS
<1>1. PICK d \in Drafts : versions = <<NewDraft(d)>>
  BY DEF Init
<1>2. versions \in Seq(Row) /\ Len(versions) = 1
  BY <1>1, Defaults
<1>3. \A c \in Calls : requests[c] = Idle /\ Idle.pc = "idle" /\ Idle.retires = {}
  BY DEF Init, Idle
<1>4. Typed
  BY <1>2, <1>3, Defaults DEF Init, Typed, Tables, Publishing
<1>5. OwnLocks /\ Disjoint
  BY <1>3 DEF OwnLocks, OwnLock, Disjoint, Locked, Publishing
<1>6. \A c \in Calls : Vouched(c)
  BY <1>3 DEF Vouched
<1> QED
  BY <1>4, <1>5, <1>6 DEF PublicationInv

-----------------------------------------------------------------------------
(* The rows stay well formed, and what one request writes of itself leaves *)
(* the others as they were.                                                *)
LEMMA TypedStep ==
    ASSUME VersionCap \in Nat \ {0}, PublicationInv, [Next]_vars
    PROVE  Typed'
<1> USE DEF PublicationInv
<1>1. Tables /\ requests \in [Calls -> Request]
  BY DEF Typed
<1>2. ASSUME UNCHANGED <<versions, samples>>, requests' \in [Calls -> Request],
             \A c \in Calls : requests'[c].pc \in Publishing \union {"save"} =>
                               requests'[c].version \in DOMAIN versions
      PROVE  Typed'
  BY <1>1, <1>2 DEF Typed, Tables
<1>3. ASSUME UNCHANGED samples, versions' \in Seq(Row), Len(versions') \in Len(versions)..VersionCap,
             NEW c \in Calls, Return(c)
      PROVE  Typed'
  <2>1. DOMAIN versions \subseteq DOMAIN versions' /\ Len(versions') \in 1..VersionCap
    BY <1>1, <1>3 DEF Tables
  <2>2. requests' \in [Calls -> Request]
    BY <1>1, <1>3, Defaults DEF Return
  <2>3. \A d \in Calls : requests'[d].pc \in Publishing \union {"save"} =>
                          requests'[d].version \in DOMAIN versions'
    BY <1>1, <1>3, <2>1 DEF Return, Typed, Idle, Publishing
  <2> QED
    BY <1>1, <1>3, <2>1, <2>2, <2>3 DEF Typed, Tables
<1>4. ASSUME UNCHANGED versions, samples' \in [1..VersionCap -> SUBSET Corpus],
             UNCHANGED requests \/ \E c \in Calls : Return(c)
      PROVE  Typed'
  <2>1. requests' \in [Calls -> Request]
    BY <1>1, <1>4, Defaults DEF Return
  <2>2. \A c \in Calls : requests'[c].pc \in Publishing \union {"save"} =>
                          requests'[c].version \in DOMAIN versions'
    BY <1>1, <1>4 DEF Return, Typed, Idle, Publishing
  <2> QED
    BY <1>1, <1>4, <2>1, <2>2 DEF Typed, Tables
<1>5. ASSUME NEW s \in Schemas, UpdateSchema(s) PROVE Typed'
  BY <1>1, <1>2, <1>5 DEF UpdateSchema, Typed
<1>6. ASSUME NEW v \in DOMAIN versions, NEW page \in Corpus, DeleteSample(v, page) PROVE Typed'
  BY <1>1, <1>4, <1>6 DEF DeleteSample, Tables
<1>7. ASSUME NEW c \in Calls, ReadLatest(c) PROVE Typed'
  <2> DEFINE q == [requests[c] EXCEPT !.pc = "insert", !.latest = Len(versions)]
  <2>1. q \in Request /\ q.pc = "insert"
    <3>1. Len(versions) \in Nat
      BY <1>1 DEF Tables
    <3>2. requests[c] \in Request
      BY <1>1
    <3> QED
      BY <3>1, <3>2 DEF Request
  <2>2. requests' = [requests EXCEPT ![c] = q]
    BY <1>1, <1>7 DEF ReadLatest
  <2> HIDE DEF q
  <2> QED
    BY <1>1, <1>2, <1>7, <2>1, <2>2 DEF ReadLatest, Typed, Publishing
<1>8. ASSUME NEW c \in Calls, SaveSample(c) PROVE Typed'
  <2>1. requests[c].pages \subseteq Corpus
    BY <1>1 DEF Request
  <2> QED
    BY <1>1, <1>4, <1>8, <2>1 DEF SaveSample, Tables
<1>9. ASSUME NEW c \in Calls, Rollback(c) PROVE Typed'
  BY <1>1, <1>4, <1>9 DEF Rollback, Tables
<1>10. ASSUME NEW c \in Calls, NEW d \in Drafts, CreateDraft(c, d) PROVE Typed'
  <2>1. versions' \in Seq(Row) /\ Len(versions') \in Len(versions)..VersionCap
    BY <1>1, <1>10, Defaults DEF CreateDraft, Tables
  <2> QED
    BY <1>3, <1>10, <2>1 DEF CreateDraft
<1>11. ASSUME NEW c \in Calls, NEW v \in DOMAIN versions, PublishLock(c, v) PROVE Typed'
  <2>1. v \in Nat
    BY <1>1 DEF Tables
  <2> DEFINE q == [requests[c] EXCEPT !.pc = "dataset", !.version = v]
  <2>2. q \in Request /\ q.version = v
    BY <1>1, <2>1 DEF Request, Publishing
  <2>3. requests' = [requests EXCEPT ![c] = q]
    BY <1>1, <1>11 DEF PublishLock
  <2> HIDE DEF q
  <2> QED
    BY <1>1, <1>2, <1>11, <2>2, <2>3 DEF PublishLock, Typed
<1>12. ASSUME NEW c \in Calls, NEW v \in DOMAIN versions, NEW page \in Corpus, FetchSample(c, v, page)
       PROVE  Typed'
  <2>1. v \in Nat
    BY <1>1 DEF Tables
  <2> DEFINE q == [requests[c] EXCEPT !.pc = "save", !.version = v, !.pages = {page}]
  <2>2. q \in Request /\ q.version = v
    BY <1>1, <2>1 DEF Request
  <2>3. requests' = [requests EXCEPT ![c] = q]
    BY <1>1, <1>12 DEF FetchSample
  <2>4. UNCHANGED <<versions, samples>>
    BY <1>12 DEF FetchSample
  <2> HIDE DEF q
  <2> QED
    BY <1>1, <1>2, <2>2, <2>3, <2>4 DEF Typed
<1>13. ASSUME NEW c \in Calls, LockDataset(c) \/ ValidateVersion(c) PROVE Typed'
  BY <1>1, <1>2, <1>13 DEF LockDataset, ValidateVersion, Goto, At, Typed, Request, Publishing
<1>14. ASSUME NEW c \in Calls, ReadSamples(c) PROVE Typed'
  <2>1. requests[c].version \in DOMAIN versions /\ samples[requests[c].version] \subseteq Corpus
    BY <1>1, <1>14 DEF ReadSamples, At, Typed, Tables, Publishing
  <2> QED
    BY <1>1, <1>2, <1>14, <2>1 DEF ReadSamples, At, Typed, Request, Publishing
<1>15. ASSUME NEW c \in Calls, NEW page \in Corpus, CheckSample(c, page) PROVE Typed'
  BY <1>1, <1>2, <1>15 DEF CheckSample, At, Typed, Request, Publishing
<1>16. ASSUME NEW c \in Calls, RetireOthers(c) PROVE Typed'
  <2>1. PublishedVersions \subseteq Nat
    BY <1>1 DEF PublishedVersions, Tables
  <2> QED
    BY <1>1, <1>2, <1>16, <2>1 DEF RetireOthers, At, Typed, Request, Publishing
<1>17. ASSUME NEW c \in Calls, PublishCommit(c) PROVE Typed'
  <2>a. ASSUME NEW v \in DOMAIN versions, NEW s \in Status
        PROVE  [versions[v] EXCEPT !.status = s] \in Row /\ versions[v] \in Row
    <3>1. versions[v] \in Row
      BY <1>1 DEF Tables
    <3> QED
      BY <3>1 DEF Row
  <2>b. "published" \in Status /\ "retired" \in Status /\ DOMAIN versions = 1..Len(versions)
    BY <1>1 DEF Tables, Status
  <2>1. versions' \in [1..Len(versions) -> Row]
    BY <1>17, <2>a, <2>b DEF PublishCommit
  <2>2. versions' \in Seq(Row) /\ Len(versions') = Len(versions)
    BY <1>1, <2>1 DEF Tables
  <2> QED
    BY <1>1, <1>3, <1>17, <2>2 DEF PublishCommit, Tables
<1>18. CASE UNCHANGED vars
  BY <1>1, <1>2, <1>18 DEF vars, Typed
<1> QED
  BY <1>5, <1>6, <1>7, <1>8, <1>9, <1>10, <1>11, <1>12, <1>13, <1>14, <1>15, <1>16, <1>17, <1>18
     DEF Next, Publishes

-----------------------------------------------------------------------------
(* What a publication has read stays as it was while others move: nobody   *)
(* writes a row it has locked.                                             *)
LEMMA Undisturbed ==
    ASSUME VersionCap \in Nat \ {0}, PublicationInv, [Next]_vars,
           NEW c \in Calls, requests'[c] = requests[c], requests[c].pc \in Publishing
    PROVE  /\ versions'[requests[c].version] = Version(c)
           /\ samples'[requests[c].version] = samples[requests[c].version]
           /\ requests[c].pc \in SchemaLocked => schema' = schema
           /\ \A v \in requests[c].retires : v \in DOMAIN versions' /\ versions'[v] = versions[v]
<1> DEFINE v == requests[c].version
<1> DEFINE Kept ==
      /\ versions'[v] = versions[v] /\ samples'[v] = samples[v]
      /\ requests[c].pc \in SchemaLocked => schema' = schema
      /\ \A u \in requests[c].retires : u \in DOMAIN versions' /\ versions'[u] = versions[u]
<1> USE DEF PublicationInv
<1>1. v \in DOMAIN versions /\ v \in Nat /\ Locked(c, v)
  BY DEF Typed, Tables, Locked, Publishing
<1>2. \A u \in requests[c].retires :
        Locked(c, u) /\ u \in DOMAIN versions /\ u \in Nat /\ versions[u].status = "published"
  BY DEF OwnLocks, OwnLock, Locked, Typed, Tables
<1> HIDE DEF v
<1>3. ASSUME UNCHANGED <<versions, samples, schema>>
      PROVE  Kept
  BY <1>2, <1>3
<1>4. Kept
  <2>1. ASSUME NEW s \in Schemas, UpdateSchema(s) PROVE Kept
    BY <1>2, <2>1 DEF UpdateSchema, DatasetFree, SchemaLocked
  <2>2. ASSUME NEW u \in DOMAIN versions, NEW page \in Corpus, DeleteSample(u, page) PROVE Kept
    <3>1. u # v
      BY <1>1, <2>2 DEF DeleteSample, VersionFree
    <3> QED
      BY <1>2, <2>2, <3>1 DEF DeleteSample, Typed, Tables
  <2>3. ASSUME NEW d \in Calls, SaveSample(d) PROVE Kept
    <3>1. requests[d].version # v
      BY <1>1, <2>3 DEF SaveSample, VersionFree
    <3> QED
      BY <1>2, <2>3, <3>1 DEF SaveSample, Typed, Tables
  <2>4. ASSUME NEW d \in Calls, NEW draft \in Drafts, CreateDraft(d, draft) PROVE Kept
    <3>1. \A i \in DOMAIN versions : i \in DOMAIN versions' /\ versions'[i] = versions[i]
      BY <2>4, Defaults DEF CreateDraft, Typed, Tables
    <3> QED
      BY <1>1, <1>2, <2>4, <3>1 DEF CreateDraft
  <2>5. ASSUME NEW d \in Calls, PublishCommit(d) PROVE Kept
    <3>1. d # c
      BY <2>5 DEF PublishCommit, Return, Idle, Publishing, Typed
    <3>2. /\ requests[d].version # v /\ v \notin requests[d].retires
          /\ \A u \in requests[c].retires : requests[d].version # u /\ u \notin requests[d].retires
      BY <1>1, <1>2, <2>5, <3>1 DEF PublishCommit, At, Disjoint, Locked
    <3> QED
      BY <1>1, <1>2, <2>5, <3>2 DEF PublishCommit
  <2>6. ASSUME NEW d \in Calls,
               \/ ReadLatest(d) \/ Rollback(d) \/ LockDataset(d) \/ ValidateVersion(d)
               \/ ReadSamples(d) \/ RetireOthers(d)
               \/ \E page \in Corpus : CheckSample(d, page)
               \/ \E u \in DOMAIN versions : PublishLock(d, u)
               \/ \E u \in DOMAIN versions, page \in Corpus : FetchSample(d, u, page)
        PROVE  UNCHANGED <<versions, samples, schema>>
    BY <2>6 DEF ReadLatest, Rollback, LockDataset, ValidateVersion, ReadSamples, RetireOthers,
                CheckSample, PublishLock, FetchSample
  <2>7. CASE UNCHANGED vars
    BY <1>3, <2>7 DEF vars
  <2> QED
    BY <1>3, <2>1, <2>2, <2>3, <2>4, <2>5, <2>6, <2>7 DEF Next, Publishes
<1> QED
  BY <1>4 DEF v, Version

-----------------------------------------------------------------------------
(* Nobody locks what another has locked, and each knows what it locks.     *)
LEMMA LocksStep ==
    ASSUME VersionCap \in Nat \ {0}, PublicationInv, [Next]_vars
    PROVE  OwnLocks' /\ Disjoint'
<1> USE DEF PublicationInv
<1>1. requests \in [Calls -> Request] /\ DOMAIN versions \subseteq Nat
  BY DEF Typed, Tables
<1>2. ASSUME NEW c \in Calls, requests'[c] = requests[c]
      PROVE  OwnLock(c)'
  <2>1. CASE requests[c].pc \in Publishing
    BY <1>2, <2>1, Undisturbed DEF OwnLocks, OwnLock, Version
  <2>2. CASE requests[c].pc \notin Publishing
    BY <1>2, <2>2 DEF OwnLocks, OwnLock, Publishing
  <2> QED
    BY <2>1, <2>2
<1>3. ASSUME NEW d \in Calls, \A c \in Calls \ {d} : requests'[c] = requests[c], OwnLock(d)',
             \A v \in Nat, c \in Calls \ {d} : Locked(d, v)' => ~Locked(c, v)
      PROVE  OwnLocks' /\ Disjoint'
  <2>1. OwnLocks'
    BY <1>2, <1>3 DEF OwnLocks
  <2>2. \A c \in Calls \ {d}, v \in Nat : Locked(c, v)' = Locked(c, v)
    BY <1>3 DEF Locked
  <2>3. Disjoint'
    BY <1>3, <2>2 DEF Disjoint
  <2> QED
    BY <2>1, <2>3
<1>4. ASSUME UNCHANGED requests PROVE OwnLocks' /\ Disjoint'
  BY <1>2, <1>4 DEF OwnLocks, Disjoint, Locked
<1>5. ASSUME NEW d \in Calls, Return(d) PROVE OwnLocks' /\ Disjoint'
  BY <1>1, <1>3, <1>5 DEF Return, Idle, OwnLock, Locked, Publishing
(* A step that is no publication's takes no lock.                          *)
<1>6. ASSUME NEW d \in Calls, requests'[d].pc \in {"insert", "save"}, requests'[d].retires = requests[d].retires,
             requests[d].pc # "commit", \A c \in Calls \ {d} : requests'[c] = requests[c]
      PROVE  OwnLocks' /\ Disjoint'
  <2>1. requests'[d].retires = {}
    BY <1>6 DEF OwnLocks, OwnLock
  <2> QED
    BY <1>3, <1>6, <2>1 DEF OwnLock, Locked, Publishing
(* A step in the middle of a publication keeps its locks.                  *)
<1>7. ASSUME NEW d \in Calls, UNCHANGED versions, requests[d].pc \in Publishing \ {"commit"},
             requests'[d].pc \in Publishing, requests'[d].version = requests[d].version,
             requests'[d].retires = requests[d].retires, \A c \in Calls \ {d} : requests'[c] = requests[c]
      PROVE  OwnLocks' /\ Disjoint'
  <2>1. requests'[d].retires = {}
    BY <1>7 DEF OwnLocks, OwnLock
  <2>2. OwnLock(d)'
    BY <1>7, <2>1 DEF OwnLocks, OwnLock, Version
  <2>3. \A v \in Nat : Locked(d, v)' => Locked(d, v)
    BY <1>7 DEF Locked, Publishing
  <2> QED
    BY <1>3, <1>7, <2>2, <2>3 DEF Disjoint
<1>8. ASSUME NEW d \in Calls, NEW v \in DOMAIN versions, PublishLock(d, v) PROVE OwnLocks' /\ Disjoint'
  <2>1. /\ requests'[d].pc = "dataset" /\ requests'[d].version = v
        /\ requests'[d].retires = requests[d].retires
        /\ \A c \in Calls \ {d} : requests'[c] = requests[c]
    BY <1>1, <1>8 DEF PublishLock, Request
  <2>2. requests'[d].retires = {}
    BY <1>8, <2>1 DEF PublishLock, At, OwnLocks, OwnLock
  <2>3. OwnLock(d)'
    BY <1>8, <2>1, <2>2 DEF PublishLock, OwnLock, Version
  <2> QED
    BY <1>3, <1>8, <2>1, <2>2, <2>3 DEF PublishLock, VersionFree, Locked
<1>9. ASSUME NEW d \in Calls, RetireOthers(d) PROVE OwnLocks' /\ Disjoint'
  <2>1. /\ requests'[d].pc = "commit" /\ requests'[d].version = requests[d].version
        /\ requests'[d].retires = PublishedVersions /\ requests[d].pc \in Publishing
        /\ \A c \in Calls \ {d} : requests'[c] = requests[c]
    BY <1>1, <1>9 DEF RetireOthers, At, Request, Publishing
  <2>2. OwnLock(d)'
    BY <1>9, <2>1 DEF RetireOthers, OwnLocks, OwnLock, Version, PublishedVersions
  <2>3. \A v \in Nat : Locked(d, v)' => Locked(d, v) \/ v \in PublishedVersions
    BY <2>1 DEF Locked, Publishing
  <2> QED
    BY <1>3, <1>9, <2>1, <2>2, <2>3 DEF RetireOthers, VersionFree, Disjoint
<1>10. ASSUME NEW s \in Schemas, UpdateSchema(s) PROVE OwnLocks' /\ Disjoint'
  BY <1>4, <1>10 DEF UpdateSchema
<1>11. ASSUME NEW v \in DOMAIN versions, NEW page \in Corpus, DeleteSample(v, page)
       PROVE  OwnLocks' /\ Disjoint'
  BY <1>4, <1>11 DEF DeleteSample
<1>12. ASSUME NEW d \in Calls, ReadLatest(d) PROVE OwnLocks' /\ Disjoint'
  BY <1>1, <1>6, <1>12 DEF ReadLatest, At, Request
<1>13. ASSUME NEW d \in Calls, NEW v \in DOMAIN versions, NEW page \in Corpus, FetchSample(d, v, page)
       PROVE  OwnLocks' /\ Disjoint'
  BY <1>1, <1>6, <1>13 DEF FetchSample, At, Request
<1>14. ASSUME NEW d \in Calls, LockDataset(d) \/ ValidateVersion(d) PROVE OwnLocks' /\ Disjoint'
  BY <1>1, <1>7, <1>14 DEF LockDataset, ValidateVersion, At, Goto, Request, Publishing
<1>15. ASSUME NEW d \in Calls, ReadSamples(d) \/ \E page \in Corpus : CheckSample(d, page)
       PROVE  OwnLocks' /\ Disjoint'
  BY <1>1, <1>7, <1>15 DEF ReadSamples, CheckSample, At, Request, Publishing
<1>16. ASSUME NEW d \in Calls,
              SaveSample(d) \/ Rollback(d) \/ PublishCommit(d) \/ \E draft \in Drafts : CreateDraft(d, draft)
       PROVE  Return(d)
  BY <1>16 DEF SaveSample, Rollback, PublishCommit, CreateDraft
<1>17. CASE UNCHANGED vars
  BY <1>4, <1>17 DEF vars
<1> QED
  BY <1>5, <1>8, <1>9, <1>10, <1>11, <1>12, <1>13, <1>14, <1>15, <1>16, <1>17 DEF Next, Publishes

-----------------------------------------------------------------------------
(* What a publication has checked is still so after any step.              *)
LEMMA VouchStep ==
    ASSUME VersionCap \in Nat \ {0}, PublicationInv, [Next]_vars, NEW c \in Calls
    PROVE  Vouched(c)'
<1> USE DEF PublicationInv
<1>1. requests \in [Calls -> Request]
  BY DEF Typed
<1>2. ASSUME requests'[c] = requests[c] PROVE Vouched(c)'
  <2>1. CASE requests[c].pc \in SchemaLocked
    <3>1. /\ Version(c)' = Version(c) /\ schema' = schema
          /\ samples'[requests[c].version] = samples[requests[c].version]
      BY <1>2, <2>1, Undisturbed DEF Version, SchemaLocked, Publishing
    <3>2. \A page \in Corpus : Passes(Version(c), page)' = Passes(Version(c), page)
      BY <3>1 DEF Passes
    <3>3. Replayed(Version(c))' = Replayed(Version(c))
      BY <3>1 DEF Replayed
    <3>4. Covers(Version(c), samples[requests[c].version])' = Covers(Version(c), samples[requests[c].version])
      BY <1>2, <3>1 DEF Covers
    <3>5. samples[requests[c].version] \subseteq Corpus
      BY <2>1 DEF Typed, Tables, SchemaLocked, Publishing
    <3> QED
      BY <1>2, <3>1, <3>2, <3>3, <3>4, <3>5 DEF Vouched
  <2>2. CASE requests[c].pc \notin SchemaLocked
    BY <1>2, <2>2 DEF Vouched, SchemaLocked
  <2> QED
    BY <2>1, <2>2
<1>3. ASSUME requests'[c].pc \notin {"read", "check", "retire", "commit"} PROVE Vouched(c)'
  BY <1>3 DEF Vouched
<1>4. ASSUME UNCHANGED <<versions, samples, schema>>, requests'[c].version = requests[c].version
      PROVE  /\ \A page \in Corpus : Passes(Version(c), page)' = Passes(Version(c), page)
             /\ Replayed(Version(c))' = Replayed(Version(c))
             /\ Covers(Version(c), samples[requests[c].version])'
                    = Covers(Version(c), samples[requests[c].version])
  BY <1>4 DEF Passes, Replayed, Covers, Version
<1>5. CASE ValidateVersion(c)
  <2>1. /\ requests'[c].version = requests[c].version
        /\ requests'[c].pc = IF Replayed(Version(c)) THEN "read" ELSE "retire"
    BY <1>1, <1>5 DEF ValidateVersion, Goto, Request
  <2> QED
    BY <1>4, <1>5, <2>1 DEF ValidateVersion, Vouched
<1>6. CASE ReadSamples(c)
  <2>1. /\ requests'[c].version = requests[c].version /\ requests'[c].pc = "check"
        /\ requests'[c].pages = samples[requests[c].version]
    BY <1>1, <1>6 DEF ReadSamples, Request
  <2> QED
    BY <1>4, <1>6, <2>1 DEF ReadSamples, At, Vouched
<1>7. ASSUME NEW page \in Corpus, CheckSample(c, page) PROVE Vouched(c)'
  <2>1. /\ requests'[c].version = requests[c].version /\ requests'[c].pc = "check"
        /\ requests'[c].pages = requests[c].pages \ {page}
    BY <1>1, <1>7 DEF CheckSample, At, Request
  <2>2. samples[requests[c].version] \subseteq Corpus
    BY <1>7 DEF CheckSample, At, Typed, Tables, Publishing
  <2> QED
    BY <1>4, <1>7, <2>1, <2>2 DEF CheckSample, At, Vouched
<1>8. CASE RetireOthers(c)
  <2>1. requests'[c].version = requests[c].version /\ requests'[c].pc = "commit"
    BY <1>1, <1>8 DEF RetireOthers, Request
  <2>2. samples[requests[c].version] \subseteq Corpus
    BY <1>8 DEF RetireOthers, At, Typed, Tables, Publishing
  <2> QED
    BY <1>4, <1>8, <2>1, <2>2 DEF RetireOthers, At, Vouched
<1>9. \/ requests'[c] = requests[c]
      \/ requests'[c].pc \notin {"read", "check", "retire", "commit"}
      \/ ValidateVersion(c) \/ ReadSamples(c) \/ RetireOthers(c)
      \/ \E page \in Corpus : CheckSample(c, page)
  <2>1. ASSUME NEW d \in Calls, d # c,
               \/ ReadLatest(d) \/ SaveSample(d) \/ Rollback(d) \/ Publishes(d)
               \/ \E draft \in Drafts : CreateDraft(d, draft)
               \/ \E v \in DOMAIN versions : PublishLock(d, v)
               \/ \E v \in DOMAIN versions, page \in Corpus : FetchSample(d, v, page)
        PROVE  requests'[c] = requests[c]
    BY <1>1, <2>1 DEF ReadLatest, SaveSample, Rollback, Publishes, CreateDraft, PublishLock, FetchSample,
       LockDataset, ValidateVersion, ReadSamples, RetireOthers, PublishCommit, CheckSample, Return, Goto
  <2>2. ASSUME \/ ReadLatest(c) \/ SaveSample(c) \/ Rollback(c) \/ LockDataset(c) \/ PublishCommit(c)
               \/ \E draft \in Drafts : CreateDraft(c, draft)
               \/ \E v \in DOMAIN versions : PublishLock(c, v)
               \/ \E v \in DOMAIN versions, page \in Corpus : FetchSample(c, v, page)
        PROVE  requests'[c].pc \notin {"read", "check", "retire", "commit"}
    <3>1. Return(c) => requests'[c].pc = "idle"
      BY <1>1 DEF Return, Idle
    <3>2. ReadLatest(c) => requests'[c].pc = "insert"
      BY <1>1 DEF ReadLatest, Request
    <3>3. LockDataset(c) => requests'[c].pc = "validate"
      BY <1>1 DEF LockDataset, Goto, Request
    <3>4. \A v \in DOMAIN versions : PublishLock(c, v) => requests'[c].pc = "dataset"
      BY <1>1 DEF PublishLock, Request
    <3>5. \A v \in DOMAIN versions, page \in Corpus : FetchSample(c, v, page) => requests'[c].pc = "save"
      BY <1>1 DEF FetchSample, Request
    <3> QED
      BY <2>2, <3>1, <3>2, <3>3, <3>4, <3>5 DEF SaveSample, Rollback, CreateDraft, PublishCommit
  <2>3. ASSUME \/ UNCHANGED vars
               \/ \E s \in Schemas : UpdateSchema(s)
               \/ \E v \in DOMAIN versions, page \in Corpus : DeleteSample(v, page)
        PROVE  requests'[c] = requests[c]
    BY <2>3 DEF UpdateSchema, DeleteSample, vars
  <2> QED
    <3>1. CASE UNCHANGED vars
      BY <3>1, <2>3
    <3>2. CASE Next
      BY <3>2, <2>1, <2>2, <2>3 DEF Next, Publishes
    <3> QED
      BY <3>1, <3>2
<1> QED
  BY <1>2, <1>3, <1>5, <1>6, <1>7, <1>8, <1>9

LEMMA PublicationInductive ==
    ASSUME VersionCap \in Nat \ {0}
    PROVE  Spec => []PublicationInv
<1>1. PublicationInv /\ [Next]_vars => PublicationInv'
  BY TypedStep, LocksStep, VouchStep DEF PublicationInv
<1> QED
  BY <1>1, InitInv, PTL DEF Spec

-----------------------------------------------------------------------------
(* Whatever is saved, deleted, edited or published meanwhile, a version    *)
(* that persists records is first published with a corpus of which every   *)
(* page passes at that moment, and the corpus is sealed from then on.      *)
THEOREM CorpusAlwaysVouches ==
    ASSUME VersionCap \in Nat \ {0}
    PROVE  Spec => CorpusVouches
<1> DEFINE Kept(v) ==
      /\ versions[v].status # "draft" => samples'[v] = samples[v]
      /\ Replayed(versions[v]) /\ versions'[v].status = "published" =>
            /\ Covers(versions[v], samples'[v])
            /\ \A page \in samples'[v] : Passes(versions[v], page)
<1>1. ASSUME PublicationInv, Next, NEW v \in DOMAIN versions PROVE Kept(v)
  <2> USE DEF PublicationInv
  <2>1. v \in 1..VersionCap /\ requests \in [Calls -> Request]
    BY <1>1 DEF Typed, Tables
  (* Samples are written only for a draft. *)
  <2>2. ASSUME UNCHANGED versions, samples'[v] = samples[v] \/ versions[v].status = "draft" PROVE Kept(v)
    BY <2>2 DEF Replayed
  <2>3. ASSUME NEW c \in Calls, SaveSample(c) PROVE Kept(v)
    BY <1>1, <2>1, <2>2, <2>3 DEF SaveSample, Version, Typed, Tables
  <2>4. ASSUME NEW u \in DOMAIN versions, NEW page \in Corpus, DeleteSample(u, page) PROVE Kept(v)
    BY <1>1, <2>1, <2>2, <2>4 DEF DeleteSample, Typed, Tables
  <2>5. ASSUME NEW c \in Calls, NEW d \in Drafts, CreateDraft(c, d) PROVE Kept(v)
    <3>1. versions'[v] = versions[v]
      BY <1>1, <2>5, Defaults DEF CreateDraft, Typed, Tables
    <3> QED
      BY <2>5, <3>1 DEF CreateDraft, Replayed
  (* Only the publication of v publishes a draft. *)
  <2>6. ASSUME NEW c \in Calls, PublishCommit(c) PROVE Kept(v)
    <3>1. CASE v = requests[c].version
      BY <1>1, <2>6, <3>1 DEF PublishCommit, At, Vouched, Version
    <3>2. CASE v # requests[c].version
      BY <1>1, <2>6, <3>2 DEF PublishCommit, Replayed, Typed, Tables, Row
    <3> QED
      BY <3>1, <3>2
  <2>7. ASSUME UNCHANGED <<versions, samples>> PROVE Kept(v)
    BY <2>2, <2>7
  <2> QED
    BY <1>1, <2>3, <2>4, <2>5, <2>6, <2>7 DEF Next, Publishes, UpdateSchema, ReadLatest, FetchSample,
       PublishLock, LockDataset, ValidateVersion, ReadSamples, CheckSample, RetireOthers, Rollback
<1>2. PublicationInv /\ [Next]_vars => [\A v \in DOMAIN versions : Kept(v)]_vars
  BY <1>1
<1> QED
  BY <1>2, PublicationInductive, PTL DEF Spec, CorpusVouches

-----------------------------------------------------------------------------
(* A request has a version from its look at one to its return.             *)
Unassigned == \A c \in Calls : requests[c].pc \in {"idle", "insert"} => requests[c].version = 0

LEMMA UnassignedStep ==
    ASSUME PublicationInv, Unassigned, [Next]_vars
    PROVE  Unassigned'
<1>1. requests \in [Calls -> Request]
  BY DEF PublicationInv, Typed
<1>2. ASSUME NEW c \in Calls, NEW q, requests' = [requests EXCEPT ![c] = q],
             q.pc \in {"idle", "insert"} => q.version = 0
      PROVE  Unassigned'
  BY <1>1, <1>2 DEF Unassigned
<1>3. ASSUME NEW c \in Calls, Return(c) PROVE Unassigned'
  BY <1>2, <1>3 DEF Return, Idle
<1>4. ASSUME NEW c \in Calls, NEW pc, Goto(c, pc), pc \notin {"idle", "insert"} PROVE Unassigned'
  BY <1>1, <1>4 DEF Goto, Unassigned, Request
<1>5. ASSUME NEW c \in Calls, ReadLatest(c) PROVE Unassigned'
  <2>1. PICK q : q = [requests[c] EXCEPT !.pc = "insert", !.latest = Len(versions)]
    OBVIOUS
  <2>2. q.version = requests[c].version /\ requests[c].version = 0
    BY <1>1, <1>5, <2>1 DEF ReadLatest, At, Unassigned, Request
  <2>3. requests' = [requests EXCEPT ![c] = q]
    BY <1>1, <1>5, <2>1 DEF ReadLatest
  <2> QED
    BY <1>2, <2>2, <2>3
<1>6. ASSUME NEW c \in Calls, NEW v \in DOMAIN versions, PublishLock(c, v) PROVE Unassigned'
  BY <1>1, <1>6 DEF PublishLock, Unassigned, Request
<1>7. ASSUME NEW c \in Calls, NEW v \in DOMAIN versions, NEW page \in Corpus, FetchSample(c, v, page)
      PROVE  Unassigned'
  BY <1>1, <1>7 DEF FetchSample, Unassigned, Request
<1>8. ASSUME NEW c \in Calls, ReadSamples(c) PROVE Unassigned'
  BY <1>1, <1>8 DEF ReadSamples, Unassigned, Request
<1>9. ASSUME NEW c \in Calls, NEW page \in Corpus, CheckSample(c, page) PROVE Unassigned'
  BY <1>1, <1>9 DEF CheckSample, At, Unassigned, Request
<1>10. ASSUME NEW c \in Calls, RetireOthers(c) PROVE Unassigned'
  BY <1>1, <1>10 DEF RetireOthers, At, Unassigned, Request
<1>11. ASSUME NEW c \in Calls, LockDataset(c) \/ ValidateVersion(c) PROVE Unassigned'
  BY <1>4, <1>11 DEF LockDataset, ValidateVersion
<1>12. ASSUME UNCHANGED requests PROVE Unassigned'
  BY <1>12 DEF Unassigned
<1>13. ASSUME NEW c \in Calls, SaveSample(c) \/ Rollback(c) \/ PublishCommit(c) \/ \E d \in Drafts : CreateDraft(c, d)
       PROVE  Unassigned'
  BY <1>3, <1>13 DEF SaveSample, Rollback, PublishCommit, CreateDraft
<1> QED
  BY <1>5, <1>6, <1>7, <1>8, <1>9, <1>10, <1>11, <1>12, <1>13 DEF Next, Publishes, UpdateSchema, DeleteSample, vars

(* Every version, sample and request is well formed.                       *)
THEOREM AuthoringTyped ==
    ASSUME VersionCap \in Nat \ {0}, \A d \in Drafts : d.kind \in Kinds
    PROVE  Spec => []TypeOK
<1> DEFINE Known == schema \in Schemas
<1>1. Init => Unassigned /\ Known
  BY DEF Init, Unassigned, Idle
<1>2. PublicationInv /\ Unassigned /\ Known /\ [Next]_vars => Unassigned' /\ Known'
  <2>1. schema \in Schemas /\ [Next]_vars => schema' \in Schemas
    BY DEF Next, vars, Publishes, UpdateSchema, DeleteSample, ReadLatest, CreateDraft,
         FetchSample, SaveSample, PublishLock,
       LockDataset, ValidateVersion, ReadSamples, CheckSample, RetireOthers, PublishCommit, Rollback
  <2> QED
    BY <2>1, UnassignedStep
<1>3. PublicationInv /\ Unassigned /\ Known => TypeOK
  <2> SUFFICES ASSUME PublicationInv, Unassigned, schema \in Schemas PROVE TypeOK
    OBVIOUS
  <2>1. Typed /\ Tables
    BY DEF PublicationInv, Typed
  <2>2. ASSUME NEW v \in DOMAIN versions PROVE versions[v].kind \in Kinds /\ versions[v].status \in Status
    <3>1. versions[v] \in Row
      BY <2>1 DEF Tables
    <3> QED
      BY <3>1 DEF Row
  <2>3. ASSUME NEW c \in Calls
        PROVE  /\ requests[c].version \in 0..Len(versions) /\ requests[c].pages \subseteq Corpus
               /\ requests[c].pc \in {"idle", "insert", "save", "dataset", "validate",
                                      "read", "check", "retire", "commit"}
    <3>1. requests[c] \in Request
      BY <2>1 DEF Typed
    <3>2. /\ requests[c].pages \subseteq Corpus
          /\ requests[c].pc \in {"idle", "insert", "save", "dataset", "validate", "read", "check", "retire", "commit"}
      BY <3>1 DEF Request, Publishing
    <3>3. DOMAIN versions = 1..Len(versions) /\ Len(versions) \in Nat
      BY <2>1 DEF Tables
    <3>4. CASE requests[c].pc \in {"idle", "insert"}
      <4>1. requests[c].version = 0
        BY <3>4 DEF Unassigned
      <4>2. 0 \in 0..Len(versions)
        BY ONLY <3>3
      <4> QED
        BY <3>2, <4>1, <4>2
    <3>5. CASE requests[c].pc \notin {"idle", "insert"}
      <4>1. requests[c].version \in DOMAIN versions
        BY <2>1, <3>2, <3>5 DEF Typed, Publishing
      <4> QED
        <5>1. \A v \in DOMAIN versions : v \in 0..Len(versions)
          BY ONLY <3>3
        <5> QED
          BY <3>2, <4>1, <5>1
    <3> QED
      BY <3>2, <3>4, <3>5
  <2> QED
    BY <2>1, <2>2, <2>3 DEF TypeOK, Tables
<1> HIDE DEF Known
<1>4. Spec => []PublicationInv
  BY PublicationInductive
<1> QED
  BY <1>1, <1>2, <1>3, <1>4, PTL DEF Spec
=============================================================================
