---------------------------- MODULE StoresProofs ----------------------------
(***************************************************************************)
(* The stores, for any number of calls, requests, versions, links, magnets,*)
(* jobs of the drive and polls.                                            *)
(*                                                                         *)
(* Publications: AuthoringProofs, lifted to the stores that run together.  *)
(*                                                                         *)
(* Resources: the calls that have not returned owe the records what the    *)
(* rows say. Each statement of a call hands its debt to the next one; a    *)
(* call that reads the row before it saves takes over the debts of all.    *)
(*                                                                         *)
(* Magnets: who has claimed a magnet is told by its status until it        *)
(* follows a job and by nobody's having it afterwards, for as long as the  *)
(* job has not failed. A poll carries a job whose play information some    *)
(* row has from the moment it marks the row.                               *)
(*                                                                         *)
(* With PagesProofs and RunBudgetProofs: every store is well typed.        *)
(***************************************************************************)
EXTENDS PagesProofs, RunBudgetProofs, TLAPS

-----------------------------------------------------------------------------
(* What AuthoringProofs shows of any versions, samples and requests, here  *)
(* of those that move beside the other stores.                             *)
Publications == INSTANCE AuthoringProofs WITH
    Calls <- Callers, Schemas <- DatasetSchemas, Drafts <- AuthoredDrafts,
    versions <- authored, schema <- datasetSchema

LEMMA StoresStepPublications == StoresNext => [Publications!Next]_authoringVars
<1>1. \A p : p # "authoring" /\ In(p) => UNCHANGED authoringVars
  BY DEF In
<1>2. DefinitionStep \/ ListingStep \/ BudgetStep \/ RecordStep => UNCHANGED authoringVars
  BY <1>1 DEF DefinitionStep, ListingStep, BudgetStep, RecordStep
<1>3. ResourceStep \/ MagnetStep \/ SubmitStep \/ PollStep => UNCHANGED authoringVars
  BY <1>1 DEF ResourceStep, MagnetStep, SubmitStep, PollStep
<1>4. ASSUME NEW c \in Callers PROVE
        /\ Authoring!ReadLatest(c) => Publications!ReadLatest(c)
        /\ Authoring!SaveSample(c) => Publications!SaveSample(c)
        /\ \A d \in AuthoredDrafts : Authoring!CreateDraft(c, d) => Publications!CreateDraft(c, d)
        /\ \A v \in DOMAIN authored, page \in Corpus : Authoring!FetchSample(c, v, page) =>
             Publications!FetchSample(c, v, page)
  <2> USE DEF Authoring!At, Publications!At, Authoring!Return, Publications!Return, Authoring!Idle, Publications!Idle,
              Authoring!Version, Publications!Version, Authoring!VersionFree, Publications!VersionFree,
              Authoring!Locked, Publications!Locked
  <2>1. Authoring!ReadLatest(c) => Publications!ReadLatest(c)
    BY DEF Authoring!ReadLatest, Publications!ReadLatest
  <2>2. Authoring!SaveSample(c) => Publications!SaveSample(c)
    BY DEF Authoring!SaveSample, Publications!SaveSample
  <2>3. \A d \in AuthoredDrafts : Authoring!CreateDraft(c, d) => Publications!CreateDraft(c, d)
    BY DEF Authoring!CreateDraft, Publications!CreateDraft, Authoring!NewDraft, Publications!NewDraft
  <2>4. \A v \in DOMAIN authored, page \in Corpus :
           Authoring!FetchSample(c, v, page) => Publications!FetchSample(c, v, page)
    BY DEF Authoring!FetchSample, Publications!FetchSample, Authoring!RoleFits, Publications!RoleFits
  <2> QED
    BY <2>1, <2>2, <2>3, <2>4
<1>5. ASSUME NEW c \in Callers PROVE
        /\ \A v \in DOMAIN authored : Authoring!PublishLock(c, v) => Publications!PublishLock(c, v)
        /\ Authoring!LockDataset(c) => Publications!LockDataset(c)
        /\ Authoring!ValidateVersion(c) => Publications!ValidateVersion(c)
        /\ Authoring!ReadSamples(c) => Publications!ReadSamples(c)
        /\ \A page \in Corpus : Authoring!CheckSample(c, page) => Publications!CheckSample(c, page)
        /\ Authoring!RetireOthers(c) => Publications!RetireOthers(c)
        /\ Authoring!PublishCommit(c) => Publications!PublishCommit(c)
        /\ Authoring!Rollback(c) => Publications!Rollback(c)
  <2> USE DEF Authoring!At, Publications!At, Authoring!Goto, Publications!Goto, Authoring!Return, Publications!Return,
              Authoring!Idle, Publications!Idle, Authoring!Version, Publications!Version,
              Authoring!VersionFree, Publications!VersionFree, Authoring!Locked, Publications!Locked
  <2>1. \A v \in DOMAIN authored : Authoring!PublishLock(c, v) => Publications!PublishLock(c, v)
    BY DEF Authoring!PublishLock, Publications!PublishLock
  <2>2. Authoring!LockDataset(c) => Publications!LockDataset(c)
    BY DEF Authoring!LockDataset, Publications!LockDataset
  <2>3. Authoring!ValidateVersion(c) => Publications!ValidateVersion(c)
    BY DEF Authoring!ValidateVersion, Publications!ValidateVersion, Authoring!Replayed, Publications!Replayed
  <2>4. Authoring!ReadSamples(c) => Publications!ReadSamples(c)
    BY DEF Authoring!ReadSamples, Publications!ReadSamples, Authoring!Covers, Publications!Covers
  <2>5. \A page \in Corpus : Authoring!CheckSample(c, page) => Publications!CheckSample(c, page)
    BY DEF Authoring!CheckSample, Publications!CheckSample, Authoring!Passes, Publications!Passes,
       Authoring!RoleFits, Publications!RoleFits
  <2>6. Authoring!RetireOthers(c) => Publications!RetireOthers(c)
    BY DEF Authoring!RetireOthers, Publications!RetireOthers, Authoring!PublishedVersions,
         Publications!PublishedVersions
  <2>7. Authoring!PublishCommit(c) => Publications!PublishCommit(c)
    BY DEF Authoring!PublishCommit, Publications!PublishCommit
  <2>8. Authoring!Rollback(c) => Publications!Rollback(c)
    BY DEF Authoring!Rollback, Publications!Rollback
  <2> QED
    BY <2>1, <2>2, <2>3, <2>4, <2>5, <2>6, <2>7, <2>8
<1>6. /\ \A s \in DatasetSchemas : Authoring!UpdateSchema(s) => Publications!UpdateSchema(s)
      /\ \A v \in DOMAIN authored, page \in Corpus : Authoring!DeleteSample(v, page) =>
           Publications!DeleteSample(v, page)
  BY DEF Authoring!UpdateSchema, Publications!UpdateSchema, Authoring!DatasetFree, Publications!DatasetFree,
     Authoring!DeleteSample, Publications!DeleteSample, Authoring!VersionFree, Publications!VersionFree,
     Authoring!Locked, Publications!Locked
<1>7. AuthoringStep => Publications!Next
  BY <1>4, <1>5, <1>6 DEF AuthoringStep, Publications!Next, Publications!Publishes
<1> QED
  BY <1>2, <1>3, <1>7 DEF StoresNext

LEMMA SamePublications == Authoring!CorpusVouches <=> Publications!CorpusVouches
<1>1. \A a, b : (Authoring!Replayed(a) <=> Publications!Replayed(a))
        /\ (Authoring!Covers(a, b) <=> Publications!Covers(a, b))
                /\ (Authoring!Passes(a, b) <=> Publications!Passes(a, b))
  BY DEF Authoring!Replayed, Publications!Replayed, Authoring!Covers, Publications!Covers,
       Authoring!Passes, Publications!Passes,
     Authoring!RoleFits, Publications!RoleFits
<1>2. [\A v \in DOMAIN authored :
         /\ authored[v].status # "draft" => samples'[v] = samples[v]
         /\ Authoring!Replayed(authored[v]) /\ authored'[v].status = "published" =>
               /\ Authoring!Covers(authored[v], samples'[v])
               /\ \A page \in samples'[v] : Authoring!Passes(authored[v], page)]_Authoring!vars
      <=> [\A v \in DOMAIN authored :
         /\ authored[v].status # "draft" => samples'[v] = samples[v]
         /\ Publications!Replayed(authored[v]) /\ authored'[v].status = "published" =>
               /\ Publications!Covers(authored[v], samples'[v])
               /\ \A page \in samples'[v] : Publications!Passes(authored[v], page)]_Publications!vars
  BY <1>1 DEF Authoring!vars, Publications!vars
<1> QED
  BY <1>2, PTL DEF Authoring!CorpusVouches, Publications!CorpusVouches

(* Whatever is saved, deleted, edited and published meanwhile: a version   *)
(* that persists records is first published with a corpus that covers it   *)
(* and of which every page passes, and the corpus is sealed from then on   *)
(* (workflows.go:264-322, samples.go:74-96 and 122-146).                   *)
THEOREM StoresCorpusVouches == StoresSpec => CorpusVouches
<1>1. StoresInit => Publications!Init
  BY DEF StoresInit, Authoring!Init, Publications!Init, Authoring!NewDraft, Publications!NewDraft,
       Authoring!Idle, Publications!Idle
<1>2. [StoresNext]_storesVars => [Publications!Next]_Publications!vars
  BY StoresStepPublications DEF storesVars, authoringVars, Publications!vars
<1>3. Publications!Spec => Publications!CorpusVouches
  BY AuthoringAssumed, Publications!CorpusAlwaysVouches
<1> QED
  BY <1>1, <1>2, <1>3, SamePublications, PTL DEF StoresSpec, Publications!Spec, CorpusVouches

-----------------------------------------------------------------------------
(* The resource store.                                                     *)
CallRecords == [kind : {"none", "collect", "create", "update", "edit", "mark", "delete"},
                links : SUBSET ResourceLinks, to : Resources!Statuses,
                pc : {"idle", "look", "insert", "append", "check", "replace", "write",
                      "event", "read", "save", "failed"},
                id : 0..IdCap, saw : Resources!Statuses,
                todo : SUBSET ResourceLinks, read : SUBSET ResourceLinks]
ResourceRows == [exists : BOOLEAN, status : Resources!Statuses, links : SUBSET ResourceLinks]

(* What a call has established at the statement it is at.                  *)
CallInv(c) ==
    /\ calls[c].todo \subseteq calls[c].links
    /\ calls[c].pc \in {"append", "replace", "write", "event", "read"} => calls[c].id \in Resources!Ids
    /\ calls[c].pc \in {"look", "append"} => calls[c].kind = "collect"
    /\ calls[c].pc = "insert" => calls[c].kind \in {"collect", "create"}
    /\ calls[c].pc = "replace" => calls[c].kind \in {"create", "update", "edit"}
    /\ calls[c].pc \in {"replace", "write"} /\ calls[c].kind # "create" /\ calls[c].saw = "archived"
          => calls[c].kind = "delete" \/ calls[c].to = "archived"

(* A call that will still bring link l into the record, or ask to.         *)
Owes(c, l) ==
    /\ calls[c].pc # "idle" /\ calls[c].kind \notin {"mark", "delete"} /\ l \in calls[c].links
    /\ calls[c].pc = "save" => l \in calls[c].read

ResourceInv ==
    /\ rows \in [Resources!Ids -> ResourceRows] /\ record \subseteq ResourceLinks
    /\ calls \in [CallIds -> CallRecords]
    /\ \A i, j \in Resources!Ids : rows[i].exists /\ rows[j].exists => i = j
    /\ \A c \in CallIds : CallInv(c)
    /\ \A i \in Resources!Ids : rows[i].exists =>
          \A l \in rows[i].links \ record : \E c \in CallIds : Owes(c, l)

(* The step that ArchivedStays allows.                                     *)
ArchivedKept ==
    \A i \in Resources!Ids :
        rows[i].exists /\ rows'[i].exists /\ rows[i].status = "archived" /\ rows'[i].status # "archived"
        => \E c \in CallIds : calls[c].id = i /\ calls[c].saw # "archived" /\ calls[c].pc \in {"replace", "write"}

LEMMA ResourceInitial == Resources!Init => ResourceInv
<1> SUFFICES ASSUME Resources!Init PROVE ResourceInv
  OBVIOUS
<1>1. /\ rows = [i \in Resources!Ids |-> Resources!NoRow] /\ record = {} /\ calls = [c \in CallIds |-> Resources!Idle]
  BY DEF Resources!Init
<1>2. Resources!NoRow \in ResourceRows /\ ~Resources!NoRow.exists
  BY DEF Resources!NoRow, ResourceRows, Resources!Statuses
<1>3. IdCap \in Nat
  BY ResourcesAssumed DEF Resources!StoreAssumption
<1>4. Resources!Idle \in CallRecords /\ Resources!Idle.pc = "idle" /\ Resources!Idle.todo = {}
  BY <1>3 DEF Resources!Idle, CallRecords, Resources!Statuses
<1>5. \A c \in CallIds : CallInv(c)
  BY <1>1, <1>4 DEF CallInv
<1>6. rows \in [Resources!Ids -> ResourceRows] /\ calls \in [CallIds -> CallRecords] /\ \A i \in Resources!Ids :
        ~rows[i].exists
  BY <1>1, <1>2, <1>4
<1> QED
  BY <1>1, <1>5, <1>6 DEF ResourceInv

(* A step of call c: a link that no record has is owed by it afterwards, or*)
(* was there before and is owed by another.                                *)
LEMMA CallSteps ==
    ASSUME ResourceInv, NEW c \in CallIds, NEW r \in CallRecords, calls' = [calls EXCEPT ![c] = r],
           rows' \in [Resources!Ids -> ResourceRows], record' \subseteq ResourceLinks, record \subseteq record',
           \A i, j \in Resources!Ids : rows'[i].exists /\ rows'[j].exists => i = j,
           CallInv(c)',
           \A i \in Resources!Ids : rows'[i].exists =>
               \A l \in rows'[i].links \ record' : Owes(c, l)' \/ (rows[i].exists /\ l \in rows[i].links /\ ~Owes(c, l))
    PROVE  ResourceInv'
<1>1. calls' \in [CallIds -> CallRecords] /\ \A d \in CallIds \ {c} : calls'[d] = calls[d]
  BY DEF ResourceInv
<1>2. \A d \in CallIds \ {c} : CallInv(d)' /\ \A l : Owes(d, l) => Owes(d, l)'
  BY <1>1 DEF ResourceInv, CallInv, Owes, Resources!Ids
<1>3. ASSUME NEW i \in Resources!Ids, rows'[i].exists, NEW l \in rows'[i].links \ record'
      PROVE  \E d \in CallIds : Owes(d, l)'
  <2>1. CASE Owes(c, l)'
    BY <2>1
  <2>2. CASE rows[i].exists /\ l \in rows[i].links /\ ~Owes(c, l)
    <3>1. PICK d \in CallIds : Owes(d, l)
      BY <1>3, <2>2 DEF ResourceInv
    <3> QED
      BY <1>2, <2>2, <3>1
  <2> QED
    BY <1>3, <2>1, <2>2
<1> QED
  BY <1>1, <1>2, <1>3 DEF ResourceInv, Resources!Ids

(* A step of call c that writes no table.                                  *)
LEMMA ReadSteps ==
    ASSUME ResourceInv, NEW c \in CallIds, NEW r \in CallRecords, calls' = [calls EXCEPT ![c] = r],
           UNCHANGED <<rows, record>>, CallInv(c)',
           \A i \in Resources!Ids : rows[i].exists => \A l \in rows[i].links : Owes(c, l) => Owes(c, l)'
    PROVE  ResourceInv' /\ ArchivedKept
<1>1. ResourceInv'
  BY CallSteps DEF ResourceInv
<1> QED
  BY <1>1 DEF ArchivedKept

\* A call that starts, fails or starts again, with r: it owes no less than before.
LEMMA CallStarts ==
    ASSUME ResourceInv, NEW c \in CallIds, NEW r \in CallRecords, r.todo = r.links,
           r.pc \in {"look", "insert", "check", "failed"},
           r.pc = "look" => r.kind = "collect", r.pc = "insert" => r.kind = "create",
           calls' = [calls EXCEPT ![c] = r], UNCHANGED <<rows, record>>,
           calls[c].pc = "idle" \/ (calls[c].kind = r.kind /\ calls[c].links = r.links)
    PROVE  ResourceInv' /\ ArchivedKept
<1>1. calls'[c] = r
  BY DEF ResourceInv
<1>2. CallInv(c)'
  BY <1>1 DEF CallInv
<1>3. \A l : Owes(c, l) => Owes(c, l)'
  BY <1>1 DEF Owes
<1> QED
  BY <1>2, <1>3, ReadSteps

LEMMA IdleRecord == Resources!Idle \in CallRecords
<1>1. IdCap \in Nat
  BY ResourcesAssumed DEF Resources!StoreAssumption
<1> QED
  BY <1>1 DEF Resources!Idle, CallRecords, Resources!Statuses

LEMMA StartKeeps ==
    ASSUME ResourceInv, NEW c \in CallIds, NEW q \in ResourceRequests, Resources!Start(c, q)
    PROVE  ResourceInv' /\ ArchivedKept
<1>1. q \in Resources!Request
  BY ResourcesAssumed DEF Resources!StoreAssumption
<1>2. PICK k : k = q.kind
  OBVIOUS
<1>3. PICK ls : ls = q.links
  OBVIOUS
<1>4. PICK to : to = q.to
  OBVIOUS
<1>5. PICK next : next = Resources!FirstStatement(q)
  OBVIOUS
<1>6. /\ k \in {"collect", "create", "update", "edit", "mark", "delete"} /\ ls \in SUBSET ResourceLinks
      /\ to \in Resources!Statuses
  BY <1>1, <1>2, <1>3, <1>4, <1>5 DEF Resources!Request
<1>7. next \in {"look", "insert", "check", "failed"} /\ (next = "look" => k = "collect")
        /\ (next = "insert" => k = "create")
  BY <1>2, <1>3, <1>4, <1>5 DEF Resources!FirstStatement
<1>8. PICK r : r = [Resources!Idle EXCEPT !.kind = k, !.links = ls, !.to = to, !.pc = next, !.todo = ls]
  OBVIOUS
<1>9. r \in CallRecords /\ r.kind = k /\ r.links = ls /\ r.to = to /\ r.pc = next /\ r.todo = ls
  BY <1>6, <1>7, <1>8, IdleRecord DEF CallRecords
<1>10. calls[c].pc = "idle" /\ UNCHANGED <<rows, record>> /\ calls' = [calls EXCEPT ![c] = r]
  BY <1>2, <1>3, <1>4, <1>5, <1>8 DEF Resources!Start, Resources!At
<1> QED
  BY <1>7, <1>9, <1>10, CallStarts

LEMMA FailKeeps ==
    ASSUME ResourceInv, NEW c \in CallIds, Resources!Fail(c)
    PROVE  ResourceInv' /\ ArchivedKept
<1>1. calls[c] \in CallRecords
  BY DEF ResourceInv
<1>2. PICK k : k = calls[c].kind
  OBVIOUS
<1>3. PICK ls : ls = calls[c].links
  OBVIOUS
<1>4. PICK to : to = calls[c].to
  OBVIOUS
<1>5. PICK next : next = "failed"
  OBVIOUS
<1>6. /\ k \in {"none", "collect", "create", "update", "edit", "mark", "delete"} /\ ls \in SUBSET ResourceLinks
      /\ to \in Resources!Statuses /\ next \in {"look", "insert", "check", "failed"}
  BY <1>1, <1>2, <1>3, <1>4, <1>5 DEF CallRecords
<1>7. PICK r : r = [Resources!Idle EXCEPT !.kind = k, !.links = ls, !.to = to, !.pc = next, !.todo = ls]
  OBVIOUS
<1>8. r \in CallRecords /\ r.kind = k /\ r.links = ls /\ r.to = to /\ r.pc = next /\ r.todo = ls
  BY <1>6, <1>7, IdleRecord DEF CallRecords
<1>9. UNCHANGED <<rows, record>> /\ calls' = [calls EXCEPT ![c] = r]
  BY <1>2, <1>3, <1>4, <1>5, <1>7 DEF Resources!Fail, Resources!Asked
<1> QED
  BY <1>2, <1>3, <1>4, <1>5, <1>8, <1>9, CallStarts

LEMMA CallAgainKeeps ==
    ASSUME ResourceInv, NEW c \in CallIds, Resources!CallAgain(c)
    PROVE  ResourceInv' /\ ArchivedKept
<1>1. calls[c] \in CallRecords
  BY DEF ResourceInv
<1>2. PICK k : k = calls[c].kind
  OBVIOUS
<1>3. PICK ls : ls = calls[c].links
  OBVIOUS
<1>4. PICK to : to = calls[c].to
  OBVIOUS
<1>5. PICK next : next = Resources!FirstStatement(calls[c])
  OBVIOUS
<1>6. /\ k \in {"none", "collect", "create", "update", "edit", "mark", "delete"} /\ ls \in SUBSET ResourceLinks
      /\ to \in Resources!Statuses
  BY <1>1, <1>2, <1>3, <1>4, <1>5 DEF CallRecords
<1>7. next \in {"look", "insert", "check", "failed"} /\ (next = "look" => k = "collect")
        /\ (next = "insert" => k = "create")
  BY <1>2, <1>3, <1>4, <1>5 DEF Resources!FirstStatement
<1>8. PICK r : r = [Resources!Idle EXCEPT !.kind = k, !.links = ls, !.to = to, !.pc = next, !.todo = ls]
  OBVIOUS
<1>9. r \in CallRecords /\ r.kind = k /\ r.links = ls /\ r.to = to /\ r.pc = next /\ r.todo = ls
  BY <1>6, <1>7, <1>8, IdleRecord DEF CallRecords
<1>10. UNCHANGED <<rows, record>> /\ calls' = [calls EXCEPT ![c] = r]
  BY <1>2, <1>3, <1>4, <1>5, <1>8 DEF Resources!CallAgain, Resources!Asked
<1> QED
  BY <1>2, <1>3, <1>4, <1>5, <1>7, <1>9, <1>10, CallStarts

LEMMA LookKeeps ==
    ASSUME ResourceInv, NEW c \in CallIds, Resources!Look(c)
    PROVE  ResourceInv' /\ ArchivedKept
<1>1. calls[c].pc = "look" /\ UNCHANGED <<rows, record>>
  BY DEF Resources!Look, Resources!At
<1>2. calls[c] \in CallRecords /\ CallInv(c) /\ IdCap \in Nat
  BY ResourcesAssumed DEF ResourceInv, Resources!StoreAssumption
<1>3. CASE calls' = [calls EXCEPT ![c].pc = "insert"]
  <2>1. PICK r : r = [calls[c] EXCEPT !.pc = "insert"]
    OBVIOUS
  <2>2. /\ r \in CallRecords /\ calls' = [calls EXCEPT ![c] = r] /\ calls'[c] = r
        /\ r.pc = "insert" /\ r.kind = calls[c].kind /\ r.links = calls[c].links /\ r.todo = calls[c].todo
    BY <1>2, <1>3, <2>1 DEF CallRecords, ResourceInv
  <2>3. CallInv(c)' /\ \A l : Owes(c, l) => Owes(c, l)'
    BY <1>1, <1>2, <2>2 DEF CallInv, Owes
  <2> QED
    BY <1>1, <2>2, <2>3, ReadSteps
<1>4. CASE \E i \in Resources!Current : calls' = [calls EXCEPT ![c].pc = "append", ![c].id = i]
  <2>1. PICK i \in Resources!Ids : calls' = [calls EXCEPT ![c].pc = "append", ![c].id = i]
    BY <1>4 DEF Resources!Current
  <2>2. PICK r : r = [calls[c] EXCEPT !.pc = "append", !.id = i]
    OBVIOUS
  <2>3. /\ r \in CallRecords /\ calls' = [calls EXCEPT ![c] = r] /\ calls'[c] = r
        /\ r.pc = "append" /\ r.kind = calls[c].kind /\ r.links = calls[c].links /\ r.todo = calls[c].todo /\ r.id = i
    <3>1. i \in 0..IdCap
      BY <1>2, <2>1 DEF Resources!Ids
    <3> QED
      BY <1>2, <2>1, <2>2, <3>1 DEF CallRecords, ResourceInv
  <2>4. CallInv(c)' /\ \A l : Owes(c, l) => Owes(c, l)'
    BY <1>1, <1>2, <2>3 DEF CallInv, Owes, Resources!Ids
  <2> QED
    BY <1>1, <2>3, <2>4, ReadSteps
<1> QED
  BY <1>3, <1>4 DEF Resources!Look, Resources!Goto

LEMMA CheckKeeps ==
    ASSUME ResourceInv, NEW c \in CallIds, Resources!Check(c)
    PROVE  ResourceInv' /\ ArchivedKept
<1>1. calls[c].pc = "check" /\ UNCHANGED <<rows, record>>
  BY DEF Resources!Check, Resources!At
<1>2. calls[c] \in CallRecords /\ CallInv(c) /\ IdCap \in Nat
  BY ResourcesAssumed DEF ResourceInv, Resources!StoreAssumption
<1>3. PICK next : next = IF Resources!Edits(c) THEN "replace" ELSE "write"
  OBVIOUS
<1>4. PICK i \in Resources!Ids :
          /\ calls[c].kind = "delete" \/ Resources!CanTransition(rows[i].status, calls[c].to)
          /\ calls' = [calls EXCEPT ![c].pc = next, ![c].id = i, ![c].saw = rows[i].status]
  BY <1>3 DEF Resources!Check, Resources!Current
<1>5. PICK r : r = [calls[c] EXCEPT !.pc = next, !.id = i, !.saw = rows[i].status]
  OBVIOUS
<1>6. rows[i].status \in Resources!Statuses /\ next \in {"replace", "write"}
        /\ (next = "replace" => calls[c].kind \in {"update", "edit"})
  BY <1>3 DEF ResourceInv, ResourceRows, Resources!Edits
<1>7. /\ r \in CallRecords /\ calls' = [calls EXCEPT ![c] = r] /\ calls'[c] = r
      /\ r.pc = next /\ r.kind = calls[c].kind /\ r.links = calls[c].links /\ r.todo = calls[c].todo /\ r.id = i
      /\ r.saw = rows[i].status /\ r.to = calls[c].to
  <2>1. i \in 0..IdCap
    BY <1>2, <1>4 DEF Resources!Ids
  <2> QED
    BY <1>2, <1>4, <1>5, <1>6, <2>1 DEF CallRecords, ResourceInv
<1>8. rows[i].status = "archived" => calls[c].kind = "delete" \/ calls[c].to = "archived"
  BY <1>4 DEF Resources!CanTransition
<1>9. CallInv(c)'
  BY <1>2, <1>6, <1>7, <1>8 DEF CallInv, Resources!Ids
<1>10. \A l : Owes(c, l) => Owes(c, l)'
  BY <1>1, <1>6, <1>7 DEF Owes
<1> QED
  BY <1>1, <1>7, <1>9, <1>10, ReadSteps

LEMMA LinksAppendedKeeps ==
    ASSUME ResourceInv, NEW c \in CallIds, Resources!LinksAppended(c)
    PROVE  ResourceInv' /\ ArchivedKept
<1>1. calls[c].pc = "append" /\ calls' = [calls EXCEPT ![c].pc = "event"] /\ UNCHANGED <<rows, record>>
  BY DEF Resources!LinksAppended, Resources!At, Resources!Goto
<1>2. calls[c] \in CallRecords /\ CallInv(c)
  BY DEF ResourceInv
<1>3. PICK r : r = [calls[c] EXCEPT !.pc = "event"]
  OBVIOUS
<1>4. /\ r \in CallRecords /\ calls' = [calls EXCEPT ![c] = r] /\ calls'[c] = r
      /\ r.pc = "event" /\ r.kind = calls[c].kind /\ r.links = calls[c].links
           /\ r.todo = calls[c].todo /\ r.id = calls[c].id
  BY <1>1, <1>2, <1>3 DEF CallRecords, ResourceInv
<1>5. CallInv(c)' /\ \A l : Owes(c, l) => Owes(c, l)'
  BY <1>1, <1>2, <1>4 DEF CallInv, Owes, Resources!Ids
<1> QED
  BY <1>1, <1>4, <1>5, ReadSteps

(* A call that returns owes nothing, or what the record has.               *)
LEMMA Returns ==
    ASSUME ResourceInv, NEW c \in CallIds, calls' = [calls EXCEPT ![c] = Resources!Idle],
           rows' \in [Resources!Ids -> ResourceRows], record' \subseteq ResourceLinks, record \subseteq record',
           \A i \in Resources!Ids : rows'[i].exists => rows'[i] = rows[i],
           \A l \in ResourceLinks \ record' : ~Owes(c, l)
    PROVE  ResourceInv' /\ ArchivedKept
<1>1. PICK r : r = Resources!Idle
  OBVIOUS
<1>2. IdCap \in Nat
  BY ResourcesAssumed DEF Resources!StoreAssumption
<1>3. r \in CallRecords /\ r.pc = "idle" /\ r.todo = {} /\ calls' = [calls EXCEPT ![c] = r] /\ calls'[c] = r
  BY <1>1, <1>2 DEF Resources!Idle, CallRecords, Resources!Statuses, ResourceInv
<1>4. CallInv(c)'
  BY <1>3 DEF CallInv
<1>5. \A i, j \in Resources!Ids : rows'[i].exists /\ rows'[j].exists => i = j
  BY DEF ResourceInv
<1>6. \A i \in Resources!Ids : rows'[i].exists => \A l \in rows'[i].links \ record' :
        rows[i].exists /\ l \in rows[i].links /\ ~Owes(c, l)
  BY DEF ResourceRows
<1>7. ResourceInv'
  BY <1>3, <1>4, <1>5, <1>6, CallSteps
<1> QED
  BY <1>7 DEF ArchivedKept

LEMMA RecordEventKeeps ==
    ASSUME ResourceInv, NEW c \in CallIds, Resources!RecordEvent(c)
    PROVE  ResourceInv' /\ ArchivedKept
<1>1. calls[c].pc = "event" /\ UNCHANGED <<rows, record>>
  BY DEF Resources!RecordEvent, Resources!OnRow, Resources!At
<1>2. calls[c] \in CallRecords /\ CallInv(c)
  BY DEF ResourceInv
<1>3. CASE calls[c].kind # "mark"
  <2>1. PICK r : r = [calls[c] EXCEPT !.pc = "read"]
    OBVIOUS
  <2>2. calls' = [calls EXCEPT ![c].pc = "read"]
    BY <1>3 DEF Resources!RecordEvent, Resources!Imports, Resources!Goto
  <2>3. /\ r \in CallRecords /\ calls' = [calls EXCEPT ![c] = r] /\ calls'[c] = r
        /\ r.pc = "read" /\ r.kind = calls[c].kind /\ r.links = calls[c].links
             /\ r.todo = calls[c].todo /\ r.id = calls[c].id
    BY <1>2, <2>1, <2>2 DEF CallRecords, ResourceInv
  <2>4. CallInv(c)' /\ \A l : Owes(c, l) => Owes(c, l)'
    BY <1>1, <1>2, <2>3 DEF CallInv, Owes, Resources!Ids
  <2> QED
    BY <1>1, <2>3, <2>4, ReadSteps
<1>4. CASE calls[c].kind = "mark"
  <2>1. calls' = [calls EXCEPT ![c] = Resources!Idle]
    BY <1>4 DEF Resources!RecordEvent, Resources!Imports, Resources!Return
  <2>2. \A l : ~Owes(c, l)
    BY <1>4 DEF Owes
  <2> QED
    BY <1>1, <2>1, <2>2, Returns DEF ResourceInv
<1> QED
  BY <1>3, <1>4

LEMMA ReadForImportKeeps ==
    ASSUME ResourceInv, NEW c \in CallIds, Resources!ReadForImport(c)
    PROVE  ResourceInv' /\ ArchivedKept
<1>1. PICK ls : ls = rows[calls[c].id].links
  OBVIOUS
<1>2. /\ calls[c].pc = "read" /\ rows[calls[c].id].exists /\ UNCHANGED <<rows, record>>
      /\ calls' = [calls EXCEPT ![c].pc = "save", ![c].read = ls]
  BY <1>1 DEF Resources!ReadForImport, Resources!OnRow, Resources!At, Resources!Row
<1>3. calls[c] \in CallRecords /\ CallInv(c)
  BY DEF ResourceInv
<1>4. calls[c].id \in Resources!Ids /\ ls \in SUBSET ResourceLinks
  BY <1>1, <1>2, <1>3 DEF CallInv, ResourceInv, ResourceRows
<1>5. PICK r : r = [calls[c] EXCEPT !.pc = "save", !.read = ls]
  OBVIOUS
<1>6. /\ r \in CallRecords /\ calls' = [calls EXCEPT ![c] = r] /\ calls'[c] = r
      /\ r.pc = "save" /\ r.kind = calls[c].kind /\ r.links = calls[c].links /\ r.todo = calls[c].todo /\ r.read = ls
  BY <1>2, <1>3, <1>4, <1>5 DEF CallRecords, ResourceInv
<1>7. CallInv(c)'
  BY <1>3, <1>6 DEF CallInv
<1>8. \A i \in Resources!Ids : rows[i].exists => \A l \in rows[i].links : Owes(c, l) => Owes(c, l)'
  BY <1>1, <1>2, <1>4, <1>6 DEF Owes, ResourceInv
<1> QED
  BY <1>2, <1>6, <1>7, <1>8, ReadSteps

LEMMA SaveRecordKeeps ==
    ASSUME ResourceInv, NEW c \in CallIds, Resources!SaveRecord(c)
    PROVE  ResourceInv' /\ ArchivedKept
<1>1. /\ calls[c].pc = "save" /\ record' = record \union calls[c].read /\ UNCHANGED rows
      /\ calls' = [calls EXCEPT ![c] = Resources!Idle]
  BY DEF Resources!SaveRecord, Resources!At, Resources!Return
<1>2. calls[c].read \subseteq ResourceLinks /\ record \subseteq ResourceLinks
        /\ rows \in [Resources!Ids -> ResourceRows]
  BY DEF ResourceInv, CallRecords
<1>3. record' \subseteq ResourceLinks /\ record \subseteq record' /\ rows' \in [Resources!Ids -> ResourceRows]
  BY <1>1, <1>2 DEF Resources!Ids
<1>4. \A l \in ResourceLinks \ record' : ~Owes(c, l)
  BY <1>1 DEF Owes
<1> QED
  BY <1>1, <1>3, <1>4, Returns

LEMMA DeleteKeeps ==
    ASSUME ResourceInv, NEW c \in CallIds, Resources!Delete(c)
    PROVE  ResourceInv' /\ ArchivedKept
<1>1. /\ calls[c].pc = "write" /\ calls[c].kind = "delete" /\ UNCHANGED record
      /\ calls' = [calls EXCEPT ![c] = Resources!Idle]
      /\ rows' = [rows EXCEPT ![calls[c].id] = Resources!NoRow]
  BY DEF Resources!Delete, Resources!OnRow, Resources!At, Resources!Return
<1>2. Resources!NoRow \in ResourceRows /\ ~Resources!NoRow.exists
  BY DEF Resources!NoRow, ResourceRows, Resources!Statuses
<1>3. calls[c].id \in Resources!Ids /\ rows \in [Resources!Ids -> ResourceRows] /\ record \subseteq ResourceLinks
  BY <1>1 DEF ResourceInv, CallInv
<1>4. rows' \in [Resources!Ids -> ResourceRows] /\ \A i \in Resources!Ids : rows'[i].exists => rows'[i] = rows[i]
  BY <1>1, <1>2, <1>3
<1>5. \A l : ~Owes(c, l)
  BY <1>1 DEF Owes
<1> QED
  BY <1>1, <1>3, <1>4, <1>5, Returns

LEMMA InsertKeeps ==
    ASSUME ResourceInv, NEW c \in CallIds, Resources!Insert(c)
    PROVE  ResourceInv' /\ ArchivedKept
<1>1. PICK id : id = CHOOSE i \in Resources!Ids : ~rows[i].exists /\ \A d \in CallIds : calls[d].id # i
  OBVIOUS
<1>2. /\ calls[c].pc = "insert" /\ Resources!Current = {} /\ UNCHANGED record
      /\ \E i \in Resources!Ids : ~rows[i].exists /\ \A d \in CallIds : calls[d].id # i
  BY DEF Resources!Insert, Resources!At
<1>3. id \in Resources!Ids /\ \A i \in Resources!Ids : ~rows[i].exists
  BY <1>1, <1>2 DEF Resources!Current
<1>4. PICK n : n = [exists |-> TRUE, status |-> Resources!InitialStatus(c), links |-> {}]
  OBVIOUS
<1>5. PICK next : next = IF calls[c].kind = "create" THEN "replace" ELSE "append"
  OBVIOUS
<1>6. rows' = [rows EXCEPT ![id] = n] /\ calls' = [calls EXCEPT ![c].id = id, ![c].pc = next]
  BY <1>1, <1>4, <1>5 DEF Resources!Insert
<1>7. calls[c] \in CallRecords /\ CallInv(c) /\ IdCap \in Nat /\ rows \in [Resources!Ids -> ResourceRows]
  BY ResourcesAssumed DEF ResourceInv, Resources!StoreAssumption
<1>8. n \in ResourceRows /\ n.links = {}
  BY <1>4, <1>7 DEF ResourceRows, Resources!InitialStatus, CallRecords, Resources!Statuses
<1>9. rows' \in [Resources!Ids -> ResourceRows] /\ rows'[id] = n /\ \A i \in Resources!Ids \ {id} : rows'[i] = rows[i]
  BY <1>3, <1>6, <1>7, <1>8
<1>10. PICK r : r = [calls[c] EXCEPT !.id = id, !.pc = next]
  OBVIOUS
<1>11. next \in {"replace", "append"} /\ (next = "replace" <=> calls[c].kind = "create")
  BY <1>5
<1>12. /\ r \in CallRecords /\ calls' = [calls EXCEPT ![c] = r] /\ calls'[c] = r
       /\ r.pc = next /\ r.kind = calls[c].kind /\ r.links = calls[c].links /\ r.todo = calls[c].todo /\ r.id = id
  <2>1. id \in 0..IdCap
    BY <1>3, <1>7 DEF Resources!Ids
  <2> QED
    BY <1>6, <1>7, <1>10, <1>11, <2>1 DEF CallRecords, ResourceInv
<1>13. CallInv(c)'
  BY <1>2, <1>3, <1>7, <1>11, <1>12 DEF CallInv, Resources!Ids
<1>14. \A i, j \in Resources!Ids : rows'[i].exists /\ rows'[j].exists => i = j
  BY <1>3, <1>9
<1>15. \A i \in Resources!Ids : rows'[i].exists => rows'[i].links = {}
  BY <1>3, <1>8, <1>9
<1>16. record' \subseteq ResourceLinks /\ record \subseteq record'
  BY <1>2 DEF ResourceInv
<1>17. ResourceInv'
  BY <1>9, <1>12, <1>13, <1>14, <1>15, <1>16, CallSteps
<1> QED
  BY <1>3, <1>17 DEF ArchivedKept

(* A statement that writes the row of call c, which goes on.               *)
LEMMA RowSteps ==
    ASSUME ResourceInv, NEW c \in CallIds, NEW r \in CallRecords, calls' = [calls EXCEPT ![c] = r],
           NEW n \in ResourceRows, rows' = [rows EXCEPT ![calls[c].id] = n], UNCHANGED record,
           calls[c].id \in Resources!Ids, rows[calls[c].id].exists, CallInv(c)',
           \A l : Owes(c, l) => Owes(c, l)',
           \A l \in n.links : Owes(c, l)' \/ l \in rows[calls[c].id].links,
           /\ rows[calls[c].id].status = "archived" /\ n.status # "archived"
              => calls[c].saw # "archived" /\ calls[c].pc \in {"replace", "write"}
    PROVE  ResourceInv' /\ ArchivedKept
<1>1. /\ rows \in [Resources!Ids -> ResourceRows] /\ record \subseteq ResourceLinks
      /\ \A i, j \in Resources!Ids : rows[i].exists /\ rows[j].exists => i = j
  BY DEF ResourceInv
<1>2. /\ rows' \in [Resources!Ids -> ResourceRows] /\ rows'[calls[c].id] = n
      /\ \A i \in Resources!Ids \ {calls[c].id} : rows'[i] = rows[i]
  BY <1>1
<1>3. \A i \in Resources!Ids \ {calls[c].id} : ~rows[i].exists
  BY <1>1
<1>4. \A i \in Resources!Ids : rows'[i].exists => i = calls[c].id
  BY <1>2, <1>3
<1>5. \A i \in Resources!Ids : rows'[i].exists =>
          \A l \in rows'[i].links \ record' : Owes(c, l)' \/ (rows[i].exists /\ l \in rows[i].links /\ ~Owes(c, l))
  BY <1>2, <1>4
<1>6. ResourceInv'
  BY <1>1, <1>2, <1>4, <1>5, CallSteps
<1>7. ArchivedKept
  BY <1>2, <1>4 DEF ArchivedKept
<1> QED
  BY <1>6, <1>7

LEMMA AppendLinkKeeps ==
    ASSUME ResourceInv, NEW c \in CallIds, NEW l, Resources!AppendLink(c, l)
    PROVE  ResourceInv' /\ ArchivedKept
<1>1. PICK i : i = calls[c].id
  OBVIOUS
<1>2. /\ calls[c].pc = "append" /\ rows[i].exists /\ l \in calls[c].todo /\ UNCHANGED record
      /\ rows' = [rows EXCEPT ![i].links = @ \union {l}] /\ calls' = [calls EXCEPT ![c].todo = @ \ {l}]
  BY <1>1 DEF Resources!AppendLink, Resources!OnRow, Resources!At, Resources!Row
<1>3. calls[c] \in CallRecords /\ CallInv(c) /\ rows \in [Resources!Ids -> ResourceRows]
  BY DEF ResourceInv
<1>4. i \in Resources!Ids /\ l \in ResourceLinks /\ l \in calls[c].links /\ calls[c].kind = "collect"
  BY <1>1, <1>2, <1>3 DEF CallInv, CallRecords
<1>5. PICK r : r = [calls[c] EXCEPT !.todo = calls[c].todo \ {l}]
  OBVIOUS
<1>6. PICK n : n = [rows[i] EXCEPT !.links = rows[i].links \union {l}]
  OBVIOUS
<1>7. /\ r \in CallRecords /\ calls' = [calls EXCEPT ![c] = r] /\ calls'[c] = r
      /\ r.pc = "append" /\ r.kind = calls[c].kind /\ r.links = calls[c].links /\ r.todo \subseteq calls[c].todo
      /\ r.id = calls[c].id
  BY <1>2, <1>3, <1>5 DEF CallRecords, ResourceInv
<1>8. /\ n \in ResourceRows /\ rows' = [rows EXCEPT ![i] = n]
      /\ n.links = rows[i].links \union {l} /\ n.status = rows[i].status
  BY <1>2, <1>3, <1>4, <1>6 DEF ResourceRows
<1>9. CallInv(c)'
  BY <1>1, <1>3, <1>4, <1>7 DEF CallInv, Resources!Ids
<1>10. (\A x : Owes(c, x) => Owes(c, x)') /\ Owes(c, l)'
  BY <1>2, <1>4, <1>7 DEF Owes
<1>11. \A x \in n.links : Owes(c, x)' \/ x \in rows[i].links
  BY <1>8, <1>10
<1> QED
  BY <1>1, <1>2, <1>4, <1>7, <1>8, <1>9, <1>10, <1>11, RowSteps

LEMMA ReplaceKeeps ==
    ASSUME ResourceInv, NEW c \in CallIds, Resources!Replace(c)
    PROVE  ResourceInv' /\ ArchivedKept
<1>1. PICK i : i = calls[c].id
  OBVIOUS
<1>2. PICK ls : ls = IF calls[c].kind = "edit" THEN rows[i].links ELSE calls[c].links
  OBVIOUS
<1>3. PICK st : st = IF calls[c].kind \in {"update", "edit"} THEN calls[c].to ELSE rows[i].status
  OBVIOUS
<1>4. /\ calls[c].pc = "replace" /\ rows[i].exists /\ UNCHANGED record /\ calls' = [calls EXCEPT ![c].pc = "event"]
  BY <1>1 DEF Resources!Replace, Resources!OnRow, Resources!At, Resources!Row, Resources!Goto
<1>5. rows' = [rows EXCEPT ![i].links = ls, ![i].status = st]
  BY <1>1, <1>2, <1>3 DEF Resources!Replace, Resources!Edits
<1>6. calls[c] \in CallRecords /\ CallInv(c) /\ rows \in [Resources!Ids -> ResourceRows]
  BY DEF ResourceInv
<1>7. i \in Resources!Ids /\ calls[c].kind \in {"create", "update", "edit"} /\ rows[i] \in ResourceRows
  BY <1>1, <1>4, <1>6 DEF CallInv
<1>8. ls \in SUBSET ResourceLinks /\ st \in Resources!Statuses
  BY <1>2, <1>3, <1>6, <1>7 DEF CallRecords, ResourceRows
<1>9. PICK r : r = [calls[c] EXCEPT !.pc = "event"]
  OBVIOUS
<1>10. PICK n : n = [rows[i] EXCEPT !.links = ls, !.status = st]
  OBVIOUS
<1>11. /\ r \in CallRecords /\ calls' = [calls EXCEPT ![c] = r] /\ calls'[c] = r
       /\ r.pc = "event" /\ r.kind = calls[c].kind /\ r.links = calls[c].links
            /\ r.todo = calls[c].todo /\ r.id = calls[c].id
  BY <1>4, <1>6, <1>9 DEF CallRecords, ResourceInv
<1>12. n \in ResourceRows /\ rows' = [rows EXCEPT ![i] = n] /\ n.links = ls /\ n.status = st
  BY <1>5, <1>6, <1>7, <1>8, <1>10 DEF ResourceRows
<1>13. CallInv(c)'
  BY <1>1, <1>6, <1>7, <1>11 DEF CallInv, Resources!Ids
<1>14. (\A l : Owes(c, l) => Owes(c, l)') /\ \A l \in calls[c].links : Owes(c, l)'
  BY <1>4, <1>7, <1>11 DEF Owes
<1>15. \A l \in n.links : Owes(c, l)' \/ l \in rows[i].links
  BY <1>2, <1>12, <1>14
<1>16. rows[i].status = "archived" /\ n.status # "archived" =>
         calls[c].saw # "archived" /\ calls[c].pc \in {"replace", "write"}
  BY <1>3, <1>4, <1>6, <1>7, <1>12 DEF CallInv
<1> QED
  BY <1>1, <1>4, <1>7, <1>11, <1>12, <1>13, <1>14, <1>15, <1>16, RowSteps

LEMMA MarkStatusKeeps ==
    ASSUME ResourceInv, NEW c \in CallIds, Resources!MarkStatus(c)
    PROVE  ResourceInv' /\ ArchivedKept
<1>1. PICK i : i = calls[c].id
  OBVIOUS
<1>2. /\ calls[c].pc = "write" /\ calls[c].kind = "mark" /\ rows[i].exists /\ UNCHANGED record
      /\ calls' = [calls EXCEPT ![c].pc = "event"] /\ rows' = [rows EXCEPT ![i].status = calls[c].to]
  BY <1>1 DEF Resources!MarkStatus, Resources!OnRow, Resources!At, Resources!Row, Resources!Goto
<1>3. calls[c] \in CallRecords /\ CallInv(c) /\ rows \in [Resources!Ids -> ResourceRows]
  BY DEF ResourceInv
<1>4. i \in Resources!Ids /\ rows[i] \in ResourceRows
  BY <1>1, <1>2, <1>3 DEF CallInv
<1>5. PICK r : r = [calls[c] EXCEPT !.pc = "event"]
  OBVIOUS
<1>6. PICK n : n = [rows[i] EXCEPT !.status = calls[c].to]
  OBVIOUS
<1>7. /\ r \in CallRecords /\ calls' = [calls EXCEPT ![c] = r] /\ calls'[c] = r
      /\ r.pc = "event" /\ r.kind = calls[c].kind /\ r.links = calls[c].links
           /\ r.todo = calls[c].todo /\ r.id = calls[c].id
  BY <1>2, <1>3, <1>5 DEF CallRecords, ResourceInv
<1>8. n \in ResourceRows /\ rows' = [rows EXCEPT ![i] = n] /\ n.links = rows[i].links /\ n.status = calls[c].to
  BY <1>2, <1>3, <1>4, <1>6 DEF ResourceRows, CallRecords
<1>9. CallInv(c)'
  BY <1>1, <1>3, <1>4, <1>7 DEF CallInv, Resources!Ids
<1>10. \A l : Owes(c, l) => Owes(c, l)'
  BY <1>2, <1>7 DEF Owes
<1>11. rows[i].status = "archived" /\ n.status # "archived" =>
         calls[c].saw # "archived" /\ calls[c].pc \in {"replace", "write"}
  BY <1>2, <1>3, <1>8 DEF CallInv
<1> QED
  BY <1>1, <1>2, <1>4, <1>7, <1>8, <1>9, <1>10, <1>11, RowSteps

-----------------------------------------------------------------------------
LEMMA ResourceStepKeeps == ResourceInv /\ [Resources!Next]_resourceVars => ResourceInv' /\ ArchivedKept
<1> SUFFICES ASSUME ResourceInv, [Resources!Next]_resourceVars PROVE ResourceInv' /\ ArchivedKept
  OBVIOUS
<1>1. CASE UNCHANGED resourceVars
  <2>1. ResourceInv'
    BY <1>1 DEF resourceVars, ResourceInv, CallInv, Owes, Resources!Ids
  <2> QED
    BY <1>1, <2>1 DEF resourceVars, ArchivedKept
<1>2. CASE Resources!Next
  <2>1. PICK c \in CallIds :
          \/ \E r \in ResourceRequests : Resources!Start(c, r)
          \/ Resources!Look(c) \/ Resources!Insert(c) \/ Resources!LinksAppended(c) \/ Resources!Check(c)
          \/ Resources!Replace(c) \/ Resources!MarkStatus(c) \/ Resources!Delete(c) \/ Resources!RecordEvent(c)
          \/ Resources!ReadForImport(c) \/ Resources!SaveRecord(c)
          \/ \E l \in ResourceLinks : Resources!AppendLink(c, l)
          \/ Resources!Fail(c) \/ Resources!CallAgain(c)
    BY <1>2 DEF Resources!Next
  <2> QED
    BY <2>1, StartKeeps, LookKeeps, InsertKeeps, LinksAppendedKeeps, CheckKeeps, ReplaceKeeps,
         MarkStatusKeeps, DeleteKeeps,
       RecordEventKeeps, ReadForImportKeeps, SaveRecordKeeps, AppendLinkKeeps, FailKeeps, CallAgainKeeps
<1> QED
  BY <1>1, <1>2

LEMMA ResourceInvSuffices == ResourceInv => Resources!TypeOK /\ Resources!LinksReachRecords
<1> SUFFICES ASSUME ResourceInv PROVE Resources!TypeOK /\ Resources!LinksReachRecords
  OBVIOUS
<1>1. Resources!TypeOK
  BY DEF ResourceInv, Resources!TypeOK, ResourceRows, CallRecords
<1>2. Resources!LinksReachRecords
  BY DEF ResourceInv, Resources!LinksReachRecords, Resources!Current, Owes, Resources!Pending, Resources!At
<1> QED
  BY <1>1, <1>2

(* Any number of creates, updates, edits, deletes, collections and status  *)
(* marks, failing and repeated at any statement: a link that a resource has*)
(* and its record lacks is owed by a call that has not returned            *)
(* (resources.go:58-122, legacy.go:15-25).                                 *)
THEOREM ResourceLinksReachRecords == Resources!Spec => [](Resources!TypeOK /\ Resources!LinksReachRecords)
<1>1. ResourceInv /\ [Resources!Next]_Resources!vars => ResourceInv'
  BY ResourceStepKeeps DEF Resources!vars, resourceVars
<1> QED
  BY <1>1, ResourceInitial, ResourceInvSuffices, PTL DEF Resources!Spec

LEMMA StoresStepResources == StoresNext => [Resources!Next]_resourceVars
<1>1. \A p : p # "resources" /\ In(p) => UNCHANGED resourceVars
  BY DEF In
<1>2. AuthoringStep => UNCHANGED resourceVars
  BY <1>1 DEF AuthoringStep
<1>3. DefinitionStep => UNCHANGED resourceVars
  BY <1>1 DEF DefinitionStep
<1>4. ListingStep => UNCHANGED resourceVars
  BY <1>1 DEF ListingStep
<1>5. BudgetStep => UNCHANGED resourceVars
  BY <1>1 DEF BudgetStep
<1>6. RecordStep => UNCHANGED resourceVars
  BY <1>1 DEF RecordStep
<1>7. MagnetStep \/ SubmitStep \/ PollStep => UNCHANGED resourceVars
  BY <1>1 DEF MagnetStep, SubmitStep, PollStep
<1>8. ResourceStep => Resources!Next
  BY DEF ResourceStep, Resources!Next
<1> QED
  BY <1>2, <1>3, <1>4, <1>5, <1>6, <1>7, <1>8 DEF StoresNext

LEMMA StoresResourceInv == StoresSpec => []ResourceInv /\ [][ArchivedKept]_Resources!vars
<1>1. StoresInit => ResourceInv
  BY ResourceInitial DEF StoresInit
<1>2. ResourceInv /\ [StoresNext]_storesVars => ResourceInv' /\ ArchivedKept
  BY ResourceStepKeeps, StoresStepResources DEF storesVars, resourceVars
<1> QED
  BY <1>1, <1>2, PTL DEF StoresSpec

(* The same as the resource store runs beside the other stores             *)
(* (resources.go:58-122, legacy.go:15-25).                                 *)
THEOREM StoresLinksReachRecords == StoresSpec => []LinksReachRecords
<1>1. ResourceInv => LinksReachRecords
  BY ResourceInvSuffices DEF LinksReachRecords
<1> QED
  BY <1>1, StoresResourceInv, PTL

(* An archived resource leaves that status only by a call that had read it *)
(* before it was archived (magnet_status.go:48-69, resources.go:227-233 and*)
(* 323-336).                                                               *)
THEOREM StoresArchivedStays == StoresSpec => ArchivedStays
<1>1. ArchivedKept =>
        \A i \in Resources!Ids :
          rows[i].exists /\ rows'[i].exists /\ rows[i].status = "archived" /\ rows'[i].status # "archived"
          => \E c \in CallIds : calls[c].id = i /\ calls[c].saw # "archived" /\ calls[c].pc \in {"replace", "write"}
  BY DEF ArchivedKept
<1> QED
  BY <1>1, StoresResourceInv, PTL DEF ArchivedStays, Resources!ArchivedStays

-----------------------------------------------------------------------------
(* The magnets under delivery.                                             *)
MagnetRows == [status : Magnets!Statuses, followedBy : DriveJobs \union {NoJob}, done : BOOLEAN,
               retries : 0..RetryCap, playable : BOOLEAN, edited : BOOLEAN]
SubmitterRecords == [todo : SUBSET MagnetIds, at : MagnetIds \union {NoMagnet}, job : DriveJobs \union {NoJob}]
PollRecords == [todo : SUBSET (MagnetIds \X DriveJobs), at : MagnetIds \union {NoMagnet}, job : DriveJobs
                \union {NoJob},
                pc : {"list", "mark", "complete"}]

DeliveryTyped ==
    /\ magnets \in [MagnetIds -> MagnetRows]
    /\ jobs \in [DriveJobs -> {"none", "running", "completed", "failed"}]
    /\ submitters \in [Magnets!Submitters -> SubmitterRecords]
    /\ pollers \in [Polls -> PollRecords]
    /\ faults \in 0..FaultCap

Failed(j) == j \in DriveJobs /\ jobs[j] = "failed"

(* Until its job fails, a magnet that nobody edited is claimed by one, and *)
(* by none once it follows its job.                                        *)
MagnetInv(m) ==
    ~magnets[m].edited =>
        /\ magnets[m].followedBy \in {NoJob, DriveJobOf[m]}
        /\ magnets[m].status = "completed" => magnets[m].followedBy # NoJob
        /\ magnets[m].followedBy = NoJob =>
              /\ \A s \in Magnets!Submitters : submitters[s].at = m => magnets[m].status = "submitting"
              /\ \A s, t \in Magnets!Submitters : submitters[s].at = m /\ submitters[t].at = m => s = t
        /\ magnets[m].followedBy # NoJob /\ ~Failed(magnets[m].followedBy) =>
              /\ magnets[m].status \in {"downloading", "completed"}
              /\ \A s \in Magnets!Submitters : submitters[s].at # m

(* A submitter has the job of the magnet it claimed.                       *)
SubmitterInv(s) == submitters[s].job # NoJob =>
   submitters[s].at \in MagnetIds /\ submitters[s].job = DriveJobOf[submitters[s].at]

Untouched == \A m \in MagnetIds : ~magnets[m].edited
Playable(j) == \E n \in MagnetIds : magnets[n].followedBy = j /\ magnets[n].playable

(* While no row is edited, a poll finishes a magnet that follows its job,  *)
(* and completes the job after it has the play information of one.         *)
PollInv(p) ==
    /\ pollers[p].pc # "list" => pollers[p].at \in MagnetIds /\ pollers[p].job \in DriveJobs
    /\ Untouched =>
          /\ pollers[p].pc = "mark" => magnets[pollers[p].at].followedBy = pollers[p].job
          /\ pollers[p].pc = "complete" => Playable(pollers[p].job)

MagnetsInv ==
    /\ DeliveryTyped
    /\ \A m \in MagnetIds : MagnetInv(m)
    /\ \A s \in Magnets!Submitters : SubmitterInv(s)
    /\ \A p \in Polls : PollInv(p)
    /\ Untouched => \A m \in MagnetIds : magnets[m].status = "completed" => Playable(magnets[m].followedBy)

LEMMA DeliveryConstants ==
    /\ DriveJobOf \in [MagnetIds -> DriveJobs] /\ NoJob \notin DriveJobs /\ NoMagnet \notin MagnetIds
    /\ MaxRetry \in Nat /\ RetryCap \in Nat /\ FaultCap \in Nat
  BY MagnetsAssumed DEF Magnets!DeliveryAssumption

LEMMA DeliveryInitial == Magnets!Init => MagnetsInv
<1> SUFFICES ASSUME Magnets!Init PROVE MagnetsInv
  OBVIOUS
<1>1. /\ magnets = [m \in MagnetIds |-> Magnets!NewMagnet] /\ jobs = [j \in DriveJobs |-> "none"] /\ faults = 0
      /\ submitters = [s \in Magnets!Submitters |-> Magnets!IdleSubmitter]
           /\ pollers = [p \in Polls |-> Magnets!IdlePoller]
  BY DEF Magnets!Init
<1>2. /\ Magnets!NewMagnet \in MagnetRows /\ Magnets!IdleSubmitter \in SubmitterRecords
           /\ Magnets!IdlePoller \in PollRecords
      /\ faults \in 0..FaultCap
  BY <1>1, DeliveryConstants DEF Magnets!NewMagnet, MagnetRows, Magnets!Statuses,
       Magnets!IdleSubmitter, SubmitterRecords,
     Magnets!IdlePoller, PollRecords
<1>3. DeliveryTyped
  BY <1>1, <1>2 DEF DeliveryTyped
<1>4. \A m \in MagnetIds : magnets[m].followedBy = NoJob /\ magnets[m].status = "collected"
  BY <1>1 DEF Magnets!NewMagnet
<1>5. \A s \in Magnets!Submitters : submitters[s].at = NoMagnet /\ submitters[s].job = NoJob
  BY <1>1 DEF Magnets!IdleSubmitter
<1>6. \A p \in Polls : pollers[p].pc = "list"
  BY <1>1 DEF Magnets!IdlePoller
<1>7. \A m \in MagnetIds : MagnetInv(m)
  BY <1>4, <1>5, DeliveryConstants DEF MagnetInv
<1>8. \A s \in Magnets!Submitters : SubmitterInv(s)
  BY <1>5 DEF SubmitterInv
<1>9. \A p \in Polls : PollInv(p)
  BY <1>6 DEF PollInv
<1> QED
  BY <1>3, <1>4, <1>7, <1>8, <1>9 DEF MagnetsInv

(* A submitter's step moves one magnet at most; polls, jobs and edits stay.*)
LEMMA SubmitterSteps ==
    ASSUME MagnetsInv, NEW s \in Magnets!Submitters, NEW r \in SubmitterRecords,
           submitters' = [submitters EXCEPT ![s] = r],
           NEW m, UNCHANGED <<pollers, faults>>, jobs' \in [DriveJobs -> {"none", "running", "completed", "failed"}],
           \A j \in DriveJobs : jobs'[j] = "failed" <=> jobs[j] = "failed",
           magnets' \in [MagnetIds -> MagnetRows], \A n \in MagnetIds \ {m} : magnets'[n] = magnets[n],
           \A n \in MagnetIds : magnets'[n].edited = magnets[n].edited /\ magnets'[n].playable = magnets[n].playable,
           m \in MagnetIds /\ ~magnets[m].edited =>
               /\ magnets'[m].followedBy = magnets[m].followedBy \/ magnets'[m].followedBy = DriveJobOf[m]
               /\ magnets'[m].status # "completed" \/ magnets'[m] = magnets[m],
           r.at \in {submitters[s].at, NoMagnet, m},
           m \in MagnetIds => MagnetInv(m)', SubmitterInv(s)'
    PROVE  MagnetsInv'
<1>1. /\ magnets \in [MagnetIds -> MagnetRows] /\ submitters \in [Magnets!Submitters -> SubmitterRecords]
      /\ pollers \in [Polls -> PollRecords] /\ jobs \in [DriveJobs -> {"none", "running", "completed", "failed"}]
  BY DEF MagnetsInv, DeliveryTyped
<1>2. /\ submitters' \in [Magnets!Submitters -> SubmitterRecords] /\ submitters'[s] = r
      /\ \A t \in Magnets!Submitters \ {s} : submitters'[t] = submitters[t]
  BY <1>1
<1>3. DeliveryTyped'
  BY <1>1, <1>2 DEF DeliveryTyped, MagnetsInv, Magnets!Submitters
<1>4. \A j : Failed(j)' <=> Failed(j)
  BY DEF Failed
<1>5. ASSUME NEW n \in MagnetIds \ {m} PROVE MagnetInv(n)'
  <2>1. MagnetInv(n) /\ magnets'[n] = magnets[n]
    BY <1>5 DEF MagnetsInv
  <2>2. \A t \in Magnets!Submitters : submitters'[t].at = n => submitters[t].at = n
    BY <1>2, <1>5, DeliveryConstants
  <2> QED
    BY <1>4, <2>1, <2>2 DEF MagnetInv, Magnets!Submitters
<1>6. \A t \in Magnets!Submitters : SubmitterInv(t)'
  BY <1>2 DEF SubmitterInv, MagnetsInv
<1>7. Untouched' <=> Untouched
  BY DEF Untouched
<1>8. ASSUME Untouched, NEW n \in MagnetIds, magnets[n].followedBy \in DriveJobs
      PROVE  magnets'[n].followedBy = magnets[n].followedBy
  BY <1>8, DeliveryConstants DEF Untouched, MagnetsInv, MagnetInv
<1>9. ASSUME Untouched, NEW j \in DriveJobs, Playable(j) PROVE Playable(j)'
  BY <1>8, <1>9 DEF Playable
<1>10. ASSUME NEW p \in Polls PROVE PollInv(p)'
  BY <1>7, <1>8, <1>9 DEF PollInv, MagnetsInv
<1>11. ASSUME Untouched', NEW n \in MagnetIds, magnets'[n].status = "completed" PROVE Playable(magnets[n].followedBy)'
  <2>1. magnets'[n] = magnets[n] /\ Untouched
    BY <1>7, <1>11 DEF Untouched
  <2>2. magnets[n].followedBy \in DriveJobs
    BY <1>1, <1>11, <2>1 DEF MagnetsInv, MagnetInv, Untouched, MagnetRows
  <2>3. PICK j \in DriveJobs : j = magnets[n].followedBy
    BY <2>2
  <2>4. Playable(j)
    BY <1>11, <2>1, <2>3 DEF MagnetsInv
  <2>5. Playable(j)'
    BY <1>9, <2>1, <2>4
  <2> QED
    BY <2>1, <2>3, <2>5 DEF Playable
<1> QED
  BY <1>3, <1>5, <1>6, <1>10, <1>11 DEF MagnetsInv, Magnets!Submitters

(* A submitter's step that writes no row.                                  *)
LEMMA IdleSteps ==
    ASSUME MagnetsInv, NEW s \in Magnets!Submitters, NEW r \in SubmitterRecords,
           submitters' = [submitters EXCEPT ![s] = r],
           UNCHANGED <<magnets, pollers, faults>>, jobs' \in [DriveJobs -> {"none", "running", "completed", "failed"}],
           \A j \in DriveJobs : jobs'[j] = "failed" <=> jobs[j] = "failed",
           r.at \in {submitters[s].at, NoMagnet}, SubmitterInv(s)'
    PROVE  MagnetsInv'
<1>1. magnets \in [MagnetIds -> MagnetRows]
  BY DEF MagnetsInv, DeliveryTyped
<1> QED
  BY <1>1, DeliveryConstants, SubmitterSteps

LEMMA ListPendingKeeps ==
    ASSUME MagnetsInv, Magnets!ListPending PROVE MagnetsInv'
<1>1. Scheduler \in Magnets!Submitters
  BY DEF Magnets!Submitters
<1>2. PICK left \in SUBSET MagnetIds : submitters' = [submitters EXCEPT ![Scheduler].todo = left]
  BY DEF Magnets!ListPending, Magnets!PendingDownload
<1>3. /\ submitters \in [Magnets!Submitters -> SubmitterRecords] /\ submitters[Scheduler] \in SubmitterRecords
      /\ jobs \in [DriveJobs -> {"none", "running", "completed", "failed"}]
  BY <1>1 DEF MagnetsInv, DeliveryTyped
<1>4. PICK r : r = [submitters[Scheduler] EXCEPT !.todo = left]
  OBVIOUS
<1>5. /\ r \in SubmitterRecords /\ submitters' = [submitters EXCEPT ![Scheduler] = r] /\ submitters'[Scheduler] = r
      /\ r.at = submitters[Scheduler].at /\ r.job = submitters[Scheduler].job
  BY <1>1, <1>2, <1>3, <1>4 DEF SubmitterRecords
<1>6. SubmitterInv(Scheduler)'
  BY <1>1, <1>5 DEF SubmitterInv, MagnetsInv
<1>7. UNCHANGED <<magnets, jobs, pollers, faults>>
  BY DEF Magnets!ListPending
<1> QED
  BY <1>1, <1>3, <1>5, <1>6, <1>7, IdleSteps

LEMMA ManualRequestKeeps ==
    ASSUME MagnetsInv, NEW s \in ManualRequests, NEW m \in MagnetIds, Magnets!Request(s, m) PROVE MagnetsInv'
<1>1. s \in Magnets!Submitters
  BY DEF Magnets!Submitters
<1>2. submitters' = [submitters EXCEPT ![s].todo = {m}] /\ UNCHANGED <<magnets, jobs, pollers, faults>>
  BY DEF Magnets!Request
<1>3. /\ submitters \in [Magnets!Submitters -> SubmitterRecords] /\ submitters[s] \in SubmitterRecords
      /\ jobs \in [DriveJobs -> {"none", "running", "completed", "failed"}]
  BY <1>1 DEF MagnetsInv, DeliveryTyped
<1>4. PICK r : r = [submitters[s] EXCEPT !.todo = {m}]
  OBVIOUS
<1>5. /\ r \in SubmitterRecords /\ submitters' = [submitters EXCEPT ![s] = r] /\ submitters'[s] = r
      /\ r.at = submitters[s].at /\ r.job = submitters[s].job
  BY <1>1, <1>2, <1>3, <1>4 DEF SubmitterRecords
<1>6. SubmitterInv(s)'
  BY <1>1, <1>5 DEF SubmitterInv, MagnetsInv
<1> QED
  BY <1>1, <1>2, <1>3, <1>5, <1>6, IdleSteps

(* The conditional update admits a claim only on a row that nobody has.    *)
LEMMA SubmitClaimKeeps ==
    ASSUME MagnetsInv, NEW s \in Magnets!Submitters, NEW m \in MagnetIds, Magnets!Claim(s, m) PROVE MagnetsInv'
<1>1. /\ submitters \in [Magnets!Submitters -> SubmitterRecords] /\ submitters[s] \in SubmitterRecords
      /\ magnets \in [MagnetIds -> MagnetRows] /\ magnets[m] \in MagnetRows
      /\ jobs \in [DriveJobs -> {"none", "running", "completed", "failed"}] /\ MagnetInv(m) /\ SubmitterInv(s)
  BY DEF MagnetsInv, DeliveryTyped
<1>2. submitters[s].at = NoMagnet /\ submitters[s].job = NoJob /\ UNCHANGED <<jobs, pollers, faults>>
  BY <1>1, DeliveryConstants DEF Magnets!Claim, SubmitterInv
<1>3. PICK left : left = submitters[s].todo \ {m}
  OBVIOUS
<1>4. CASE ~Magnets!Claimable(s, m)
  <2>1. submitters' = [submitters EXCEPT ![s].todo = left, ![s].at = NoMagnet] /\ UNCHANGED magnets
    BY <1>3, <1>4 DEF Magnets!Claim
  <2>2. PICK r : r = [submitters[s] EXCEPT !.todo = left, !.at = NoMagnet]
    OBVIOUS
  <2>3. /\ r \in SubmitterRecords /\ submitters' = [submitters EXCEPT ![s] = r] /\ submitters'[s] = r
        /\ r.at = NoMagnet /\ r.job = NoJob
    BY <1>1, <1>2, <1>3, <2>1, <2>2 DEF SubmitterRecords
  <2>4. SubmitterInv(s)'
    BY <2>3 DEF SubmitterInv
  <2> QED
    BY <1>1, <1>2, <2>1, <2>3, <2>4, IdleSteps
<1>5. CASE Magnets!Claimable(s, m)
  <2>1. submitters' = [submitters EXCEPT ![s].todo = left, ![s].at = m]
          /\ magnets' = [magnets EXCEPT ![m].status = "submitting"]
    BY <1>3, <1>5 DEF Magnets!Claim
  <2>2. magnets[m].status \in {"collected", "failed"}
    BY <1>5 DEF Magnets!Claimable, Magnets!MayRetry, Magnets!CanSubmit
  <2>3. PICK r : r = [submitters[s] EXCEPT !.todo = left, !.at = m]
    OBVIOUS
  <2>4. /\ r \in SubmitterRecords /\ submitters' = [submitters EXCEPT ![s] = r] /\ submitters'[s] = r
        /\ r.at = m /\ r.job = NoJob
    BY <1>1, <1>2, <1>3, <2>1, <2>3 DEF SubmitterRecords
  <2>5. /\ magnets' \in [MagnetIds -> MagnetRows] /\ \A n \in MagnetIds \ {m} : magnets'[n] = magnets[n]
        /\ magnets'[m].status = "submitting" /\ magnets'[m].followedBy = magnets[m].followedBy
        /\ magnets'[m].edited = magnets[m].edited /\ magnets'[m].playable = magnets[m].playable
    BY <1>1, <2>1 DEF MagnetRows, Magnets!Statuses
  <2>6. \A t \in Magnets!Submitters \ {s} : submitters'[t] = submitters[t]
    BY <1>1, <2>4
  <2>7. ~magnets[m].edited /\ magnets[m].followedBy = NoJob => \A t \in Magnets!Submitters : submitters[t].at # m
    BY <1>1, <2>2 DEF MagnetInv
  <2>8. \A j : Failed(j)' <=> Failed(j)
    BY <1>2 DEF Failed
  <2>9. MagnetInv(m)'
    BY <1>1, <2>2, <2>4, <2>5, <2>6, <2>7, <2>8 DEF MagnetInv, Magnets!Submitters
  <2>10. SubmitterInv(s)'
    BY <2>4 DEF SubmitterInv
  <2> QED
    BY <1>1, <1>2, <2>4, <2>5, <2>9, <2>10, SubmitterSteps
<1> QED
  BY <1>4, <1>5

LEMMA DownloadKeeps ==
    ASSUME MagnetsInv, NEW s \in Magnets!Submitters, Magnets!Download(s) PROVE MagnetsInv'
<1>1. /\ submitters \in [Magnets!Submitters -> SubmitterRecords] /\ submitters[s] \in SubmitterRecords
      /\ jobs \in [DriveJobs -> {"none", "running", "completed", "failed"}]
  BY DEF MagnetsInv, DeliveryTyped
<1>2. submitters[s].at # NoMagnet /\ UNCHANGED <<magnets, pollers, faults>>
  BY DEF Magnets!Download
<1>3. submitters[s].at \in MagnetIds
  BY <1>1, <1>2 DEF SubmitterRecords
<1>4. PICK j \in DriveJobs : j = DriveJobOf[submitters[s].at]
  BY <1>3, DeliveryConstants
<1>5. PICK now : now = IF jobs[j] = "none" THEN "running" ELSE jobs[j]
  OBVIOUS
<1>6. jobs' = [jobs EXCEPT ![j] = now] /\ submitters' = [submitters EXCEPT ![s].job = j]
  BY <1>1, <1>4, <1>5 DEF Magnets!Download
<1>7. now \in {"none", "running", "completed", "failed"} /\ (now = "failed" <=> jobs[j] = "failed")
  BY <1>1, <1>5
<1>8. jobs' \in [DriveJobs -> {"none", "running", "completed", "failed"}] /\ \A k \in DriveJobs :
        jobs'[k] = "failed" <=> jobs[k] = "failed"
  BY <1>1, <1>6, <1>7
<1>9. PICK r : r = [submitters[s] EXCEPT !.job = j]
  OBVIOUS
<1>10. /\ r \in SubmitterRecords /\ submitters' = [submitters EXCEPT ![s] = r] /\ submitters'[s] = r
       /\ r.at = submitters[s].at /\ r.job = j
  BY <1>1, <1>6, <1>9 DEF SubmitterRecords
<1>11. SubmitterInv(s)'
  BY <1>3, <1>4, <1>10 DEF SubmitterInv
<1> QED
  BY <1>2, <1>8, <1>10, <1>11, IdleSteps

(* Whoever lets a magnet go leaves nobody at it, if it was alone there.    *)
LEMMA LetsGo ==
    ASSUME MagnetsInv, NEW s \in Magnets!Submitters, NEW m \in MagnetIds, submitters[s].at = m, Magnets!Release(s),
           magnets' \in [MagnetIds -> MagnetRows], \A n \in MagnetIds \ {m} : magnets'[n] = magnets[n],
           magnets'[m].edited = magnets[m].edited, magnets'[m].playable = magnets[m].playable,
           \/ magnets'[m].followedBy = magnets[m].followedBy /\ magnets'[m].status \in {magnets[m].status, "failed"}
           \/ magnets'[m].followedBy = DriveJobOf[m] /\ magnets'[m].status = "downloading",
           magnets'[m].status # "completed" \/ magnets'[m] = magnets[m],
           UNCHANGED <<jobs, pollers, faults>>
    PROVE  MagnetsInv'
<1>1. /\ submitters \in [Magnets!Submitters -> SubmitterRecords] /\ submitters[s] \in SubmitterRecords
      /\ jobs \in [DriveJobs -> {"none", "running", "completed", "failed"}] /\ MagnetInv(m)
      /\ magnets \in [MagnetIds -> MagnetRows]
  BY DEF MagnetsInv, DeliveryTyped
<1>2. PICK r : r = [submitters[s] EXCEPT !.at = NoMagnet, !.job = NoJob]
  OBVIOUS
<1>3. /\ r \in SubmitterRecords /\ submitters' = [submitters EXCEPT ![s] = r] /\ submitters'[s] = r
      /\ r.at = NoMagnet /\ r.job = NoJob
  BY <1>1, <1>2 DEF SubmitterRecords, Magnets!Release
<1>4. \A t \in Magnets!Submitters \ {s} : submitters'[t] = submitters[t]
  BY <1>1, <1>3
<1>5. \A j : Failed(j)' <=> Failed(j)
  BY DEF Failed
<1>6. ASSUME ~magnets[m].edited, magnets[m].followedBy = NoJob
      PROVE  \A t \in Magnets!Submitters : submitters'[t].at # m
  BY <1>1, <1>3, <1>4, <1>6, DeliveryConstants DEF MagnetInv
<1>7. ASSUME ~magnets[m].edited, magnets[m].followedBy # NoJob
      PROVE  Failed(magnets[m].followedBy) /\ magnets[m].followedBy = DriveJobOf[m]
  BY <1>1, <1>7 DEF MagnetInv
<1>8. DriveJobOf[m] # NoJob
  BY DeliveryConstants
<1>9. MagnetInv(m)'
  <2> SUFFICES ASSUME ~magnets[m].edited PROVE MagnetInv(m)'
    BY DEF MagnetInv
  <2>1. CASE magnets[m].followedBy = NoJob
    BY <1>1, <1>6, <1>8, <2>1 DEF MagnetInv, Magnets!Submitters
  <2>2. CASE magnets[m].followedBy # NoJob
    BY <1>5, <1>7, <1>8, <2>2 DEF MagnetInv
  <2> QED
    BY <2>1, <2>2
<1>10. SubmitterInv(s)'
  BY <1>3 DEF SubmitterInv
<1>11. \A n \in MagnetIds : magnets'[n].edited = magnets[n].edited /\ magnets'[n].playable = magnets[n].playable
  OBVIOUS
<1> QED
  BY <1>1, <1>3, <1>9, <1>10, <1>11, SubmitterSteps

LEMMA MarkSubmittedKeeps ==
    ASSUME MagnetsInv, NEW s \in Magnets!Submitters, Magnets!MarkSubmitted(s) PROVE MagnetsInv'
<1>1. PICK m : m = submitters[s].at
  OBVIOUS
<1>2. m \in MagnetIds /\ submitters[s].job = DriveJobOf[m] /\ magnets \in [MagnetIds -> MagnetRows]
  BY <1>1 DEF Magnets!MarkSubmitted, MagnetsInv, SubmitterInv, DeliveryTyped
<1>3. PICK j \in DriveJobs : j = DriveJobOf[m]
  BY <1>2, DeliveryConstants
<1>4. magnets' = [magnets EXCEPT ![m].status = "downloading", ![m].followedBy = j, ![m].done = FALSE]
  BY <1>1, <1>2, <1>3 DEF Magnets!MarkSubmitted
<1>5. /\ magnets' \in [MagnetIds -> MagnetRows] /\ \A n \in MagnetIds \ {m} : magnets'[n] = magnets[n]
      /\ magnets'[m].edited = magnets[m].edited /\ magnets'[m].playable = magnets[m].playable
      /\ magnets'[m].followedBy = j /\ magnets'[m].status = "downloading"
  <2>1. PICK n : n = [magnets[m] EXCEPT !.status = "downloading", !.followedBy = j, !.done = FALSE]
    OBVIOUS
  <2>2. /\ n \in MagnetRows /\ n.status = "downloading" /\ n.followedBy = j
        /\ n.edited = magnets[m].edited /\ n.playable = magnets[m].playable
    BY <1>2, <2>1 DEF MagnetRows, Magnets!Statuses
  <2>3. magnets' = [magnets EXCEPT ![m] = n]
    BY <1>2, <1>4, <2>1
  <2> QED
    BY <1>2, <2>2, <2>3
<1>6. Magnets!Release(s) /\ UNCHANGED <<jobs, pollers, faults>>
  BY DEF Magnets!MarkSubmitted
<1> QED
  BY <1>1, <1>2, <1>3, <1>5, <1>6, LetsGo

LEMMA SubmitFailedKeeps ==
    ASSUME MagnetsInv, NEW s \in Magnets!Submitters, NEW recorded \in BOOLEAN, Magnets!SubmitFailed(s, recorded)
    PROVE  MagnetsInv'
<1>1. PICK m : m = submitters[s].at
  OBVIOUS
<1>2. /\ m # NoMagnet /\ Magnets!Release(s) /\ UNCHANGED <<jobs, pollers, faults>>
      /\ submitters[s] \in SubmitterRecords /\ magnets \in [MagnetIds -> MagnetRows]
  BY <1>1 DEF Magnets!SubmitFailed, MagnetsInv, DeliveryTyped
<1>3. m \in MagnetIds
  BY <1>1, <1>2 DEF SubmitterRecords
<1>4. CASE recorded
  <2>1. PICK n : n = Magnets!Counted(magnets[m].retries)
    OBVIOUS
  <2>2. n \in 0..RetryCap
    BY <1>2, <1>3, <2>1, DeliveryConstants DEF Magnets!Counted, MagnetRows
  <2>3. magnets' = [magnets EXCEPT ![m].status = "failed", ![m].retries = n]
    BY <1>1, <1>2, <1>3, <1>4, <2>1 DEF Magnets!SubmitFailed
  <2>4. /\ magnets' \in [MagnetIds -> MagnetRows] /\ \A k \in MagnetIds \ {m} : magnets'[k] = magnets[k]
        /\ magnets'[m].edited = magnets[m].edited /\ magnets'[m].playable = magnets[m].playable
        /\ magnets'[m].followedBy = magnets[m].followedBy /\ magnets'[m].status = "failed"
    BY <1>2, <1>3, <2>2, <2>3 DEF MagnetRows, Magnets!Statuses
  <2> QED
    BY <1>1, <1>2, <1>3, <2>4, LetsGo
<1>5. CASE ~recorded
  <2>1. magnets' = magnets
    BY <1>5 DEF Magnets!SubmitFailed
  <2> QED
    BY <1>1, <1>2, <1>3, <2>1, LetsGo
<1> QED
  BY <1>4, <1>5

-----------------------------------------------------------------------------
LEMMA JobEndsKeeps ==
    ASSUME MagnetsInv, NEW j \in DriveJobs, NEW status \in {"completed", "failed"}, Magnets!JobEnds(j, status)
    PROVE  MagnetsInv'
<1>1. jobs[j] = "running" /\ jobs' = [jobs EXCEPT ![j] = status] /\ UNCHANGED <<magnets, submitters, pollers, faults>>
  BY DEF Magnets!JobEnds
<1>2. jobs \in [DriveJobs -> {"none", "running", "completed", "failed"}]
  BY DEF MagnetsInv, DeliveryTyped
<1>3. jobs' \in [DriveJobs -> {"none", "running", "completed", "failed"}] /\ \A k : Failed(k) => Failed(k)'
  BY <1>1, <1>2 DEF Failed
<1>4. DeliveryTyped'
  BY <1>1, <1>3 DEF DeliveryTyped, MagnetsInv, Magnets!Submitters
<1>5. \A m \in MagnetIds : MagnetInv(m)'
  BY <1>1, <1>3 DEF MagnetsInv, MagnetInv, Magnets!Submitters
<1>6. (Untouched' <=> Untouched) /\ \A k : Playable(k)' <=> Playable(k)
  BY <1>1 DEF Untouched, Playable
<1>7. \A p \in Polls : PollInv(p)'
  BY <1>1, <1>6 DEF MagnetsInv, PollInv
<1>8. \A s \in Magnets!Submitters : SubmitterInv(s)'
  BY <1>1 DEF MagnetsInv, SubmitterInv
<1> QED
  BY <1>1, <1>4, <1>5, <1>6, <1>7, <1>8 DEF MagnetsInv, Magnets!Submitters

(* A poll's step, which moves no magnet to another job.                    *)
LEMMA PollSteps ==
    ASSUME MagnetsInv, NEW p \in Polls, NEW r \in PollRecords, pollers' = [pollers EXCEPT ![p] = r],
           UNCHANGED <<jobs, submitters, faults>>, magnets' \in [MagnetIds -> MagnetRows],
           \A m \in MagnetIds : /\ magnets'[m].edited = magnets[m].edited
                                     /\ magnets'[m].followedBy = magnets[m].followedBy
                                /\ magnets[m].playable => magnets'[m].playable
                                /\ magnets'[m].status = magnets[m].status \/ magnets[m].followedBy # NoJob
                                /\ MagnetInv(m)',
           Untouched => \A m \in MagnetIds : magnets'[m].status = "completed" =>
                            magnets[m].status = "completed" \/ Playable(magnets[m].followedBy),
           PollInv(p)'
    PROVE  MagnetsInv'
<1>1. pollers \in [Polls -> PollRecords]
  BY DEF MagnetsInv, DeliveryTyped
<1>2. pollers' \in [Polls -> PollRecords] /\ \A q \in Polls \ {p} : pollers'[q] = pollers[q]
  BY <1>1
<1>3. DeliveryTyped'
  BY <1>2 DEF DeliveryTyped, MagnetsInv, Magnets!Submitters
<1>4. (Untouched' <=> Untouched) /\ \A k : Playable(k) => Playable(k)'
  BY DEF Untouched, Playable
<1>5. \A q \in Polls \ {p} : PollInv(q)'
  BY <1>2, <1>4 DEF MagnetsInv, PollInv
<1>6. ASSUME Untouched', NEW m \in MagnetIds, magnets'[m].status = "completed" PROVE Playable(magnets[m].followedBy)'
  <2>1. PICK j : j = magnets[m].followedBy
    OBVIOUS
  <2>2. Playable(j)
    BY <1>4, <1>6, <2>1 DEF MagnetsInv
  <2>3. Playable(j)' /\ magnets'[m].followedBy = j
    BY <1>4, <2>1, <2>2
  <2> QED
    BY <2>3 DEF Playable
<1>7. \A s \in Magnets!Submitters : SubmitterInv(s)'
  BY DEF MagnetsInv, SubmitterInv
<1> QED
  BY <1>3, <1>5, <1>6, <1>7 DEF MagnetsInv, Magnets!Submitters

(* A poll's step that writes no row.                                       *)
LEMMA ListSteps ==
    ASSUME MagnetsInv, NEW p \in Polls, NEW r \in PollRecords, pollers' = [pollers EXCEPT ![p] = r],
           UNCHANGED <<magnets, jobs, submitters, faults>>, PollInv(p)'
    PROVE  MagnetsInv'
<1>1. magnets \in [MagnetIds -> MagnetRows]
  BY DEF MagnetsInv, DeliveryTyped
<1>2. \A m \in MagnetIds : MagnetInv(m)'
  BY DEF MagnetsInv, MagnetInv, Failed, Magnets!Submitters
<1> QED
  BY <1>1, <1>2, PollSteps

LEMMA ListPostProcessKeeps ==
    ASSUME MagnetsInv, NEW p \in Polls, Magnets!ListPostProcess(p) PROVE MagnetsInv'
<1>1. /\ pollers[p] = Magnets!IdlePoller /\ UNCHANGED <<magnets, jobs, submitters, faults>>
      /\ pollers' = [pollers EXCEPT ![p].todo = {<<m, magnets[m].followedBy>> : m \in Magnets!PendingPostProcess}]
  BY DEF Magnets!ListPostProcess, Magnets!Followed
<1>2. pollers \in [Polls -> PollRecords] /\ magnets \in [MagnetIds -> MagnetRows]
  BY DEF MagnetsInv, DeliveryTyped
<1>3. \A m \in Magnets!PendingPostProcess : m \in MagnetIds /\ magnets[m].followedBy \in DriveJobs
  BY <1>2 DEF Magnets!PendingPostProcess, Magnets!Followed, MagnetRows
<1>4. PICK left : left = {<<m, magnets[m].followedBy>> : m \in Magnets!PendingPostProcess}
  OBVIOUS
<1>5. \A item \in left : item \in MagnetIds \X DriveJobs
  BY <1>3, <1>4
<1>6. PICK r : r = [pollers[p] EXCEPT !.todo = left]
  OBVIOUS
<1>7. r \in PollRecords /\ pollers' = [pollers EXCEPT ![p] = r] /\ pollers'[p] = r /\ r.pc = "list"
  BY <1>1, <1>2, <1>4, <1>5, <1>6 DEF PollRecords, Magnets!IdlePoller
<1>8. PollInv(p)'
  BY <1>7 DEF PollInv
<1> QED
  BY <1>1, <1>7, <1>8, ListSteps

LEMMA PollRunningKeeps ==
    ASSUME MagnetsInv, NEW p \in Polls, NEW item \in pollers[p].todo, Magnets!PollRunning(p, item) PROVE MagnetsInv'
<1>1. /\ pollers[p].pc = "list" /\ UNCHANGED <<magnets, jobs, submitters, faults>>
      /\ pollers' = [pollers EXCEPT ![p].todo = @ \ {item}]
  BY DEF Magnets!PollRunning
<1>2. pollers \in [Polls -> PollRecords]
  BY DEF MagnetsInv, DeliveryTyped
<1>3. PICK r : r = [pollers[p] EXCEPT !.todo = pollers[p].todo \ {item}]
  OBVIOUS
<1>4. r \in PollRecords /\ pollers' = [pollers EXCEPT ![p] = r] /\ pollers'[p] = r /\ r.pc = "list"
  BY <1>1, <1>2, <1>3 DEF PollRecords
<1>5. PollInv(p)'
  BY <1>4 DEF PollInv
<1> QED
  BY <1>1, <1>4, <1>5, ListSteps

LEMMA PollCompletedKeeps ==
    ASSUME MagnetsInv, NEW p \in Polls, NEW item \in pollers[p].todo, NEW m \in MagnetIds,
           Magnets!PollCompleted(p, item, m)
    PROVE  MagnetsInv'
<1>1. PICK j : j = item[2]
  OBVIOUS
<1>2. /\ magnets[m].followedBy = j /\ UNCHANGED <<magnets, jobs, submitters, faults>>
      /\ pollers' = [pollers EXCEPT ![p].todo = @ \ {item}, ![p].at = m, ![p].job = j, ![p].pc = "mark"]
  BY <1>1 DEF Magnets!PollCompleted, Magnets!ByFollowed, Magnets!Followed
<1>3. pollers \in [Polls -> PollRecords]
  BY DEF MagnetsInv, DeliveryTyped
<1>4. j \in DriveJobs
  BY <1>1, <1>3 DEF PollRecords
<1>5. PICK r : r = [pollers[p] EXCEPT !.todo = pollers[p].todo \ {item}, !.at = m, !.job = j, !.pc = "mark"]
  OBVIOUS
<1>6. /\ r \in PollRecords /\ pollers' = [pollers EXCEPT ![p] = r] /\ pollers'[p] = r
      /\ r.pc = "mark" /\ r.at = m /\ r.job = j
  BY <1>2, <1>3, <1>4, <1>5 DEF PollRecords
<1>7. PollInv(p)'
  BY <1>2, <1>4, <1>6 DEF PollInv
<1> QED
  BY <1>2, <1>6, <1>7, ListSteps

LEMMA PostProcessFailsKeeps ==
    ASSUME MagnetsInv, NEW p \in Polls, Magnets!PostProcessFails(p) PROVE MagnetsInv'
<1>1. pollers' = [pollers EXCEPT ![p] = [Magnets!IdlePoller EXCEPT !.todo = pollers[p].todo]]
        /\ UNCHANGED <<magnets, jobs, submitters, faults>>
  BY DEF Magnets!PostProcessFails
<1>2. pollers \in [Polls -> PollRecords]
  BY DEF MagnetsInv, DeliveryTyped
<1>3. PICK r : r = [Magnets!IdlePoller EXCEPT !.todo = pollers[p].todo]
  OBVIOUS
<1>4. r \in PollRecords /\ pollers' = [pollers EXCEPT ![p] = r] /\ pollers'[p] = r /\ r.pc = "list"
  BY <1>1, <1>2, <1>3 DEF PollRecords, Magnets!IdlePoller
<1>5. PollInv(p)'
  BY <1>4 DEF PollInv
<1> QED
  BY <1>1, <1>4, <1>5, ListSteps

LEMMA MarkPostProcessDoneKeeps ==
    ASSUME MagnetsInv, NEW p \in Polls, Magnets!MarkPostProcessDone(p) PROVE MagnetsInv'
<1>1. PICK m : m = pollers[p].at
  OBVIOUS
<1>2. /\ pollers[p].pc = "mark" /\ UNCHANGED <<jobs, submitters, faults>>
           /\ pollers' = [pollers EXCEPT ![p].pc = "complete"]
      /\ magnets' = [magnets EXCEPT ![m].done = TRUE, ![m].playable = TRUE]
  BY <1>1 DEF Magnets!MarkPostProcessDone
<1>3. pollers \in [Polls -> PollRecords] /\ magnets \in [MagnetIds -> MagnetRows] /\ PollInv(p)
  BY DEF MagnetsInv, DeliveryTyped
<1>4. m \in MagnetIds /\ pollers[p].job \in DriveJobs
  BY <1>1, <1>2, <1>3 DEF PollInv
<1>5. PICK r : r = [pollers[p] EXCEPT !.pc = "complete"]
  OBVIOUS
<1>6. /\ r \in PollRecords /\ pollers' = [pollers EXCEPT ![p] = r] /\ pollers'[p] = r
      /\ r.pc = "complete" /\ r.at = m /\ r.job = pollers[p].job
  BY <1>1, <1>2, <1>3, <1>5 DEF PollRecords
<1>7. /\ magnets' \in [MagnetIds -> MagnetRows] /\ \A n \in MagnetIds \ {m} : magnets'[n] = magnets[n]
      /\ magnets'[m].edited = magnets[m].edited /\ magnets'[m].followedBy = magnets[m].followedBy
      /\ magnets'[m].status = magnets[m].status /\ magnets'[m].playable
  BY <1>2, <1>3, <1>4 DEF MagnetRows
<1>8. \A n \in MagnetIds : /\ magnets'[n].edited = magnets[n].edited /\ magnets'[n].followedBy = magnets[n].followedBy
                           /\ magnets[n].playable => magnets'[n].playable
                           /\ magnets'[n].status = magnets[n].status
  BY <1>7
<1>9. UNCHANGED <<jobs, submitters, faults>>
  BY <1>2
<1>10. \A n \in MagnetIds : MagnetInv(n)'
  BY <1>8, <1>9 DEF MagnetsInv, MagnetInv, Failed, Magnets!Submitters
<1>11. Untouched' => Untouched
  BY <1>8 DEF Untouched
<1>12. PollInv(p)'
  BY <1>1, <1>2, <1>3, <1>4, <1>6, <1>7, <1>11 DEF PollInv, Playable
<1> QED
  <2>1. \A n \in MagnetIds : magnets'[n].status = "completed" => magnets[n].status = "completed"
    BY <1>8
  <2>2. magnets' \in [MagnetIds -> MagnetRows]
    BY <1>7
  <2> QED
    BY <1>6, <1>8, <1>9, <1>10, <1>12, <2>1, <2>2, PollSteps

LEMMA MarkCompletedKeeps ==
    ASSUME MagnetsInv, NEW p \in Polls, Magnets!MarkCompleted(p) PROVE MagnetsInv'
<1>1. PICK j : j = pollers[p].job
  OBVIOUS
<1>2. /\ pollers[p].pc = "complete" /\ UNCHANGED <<jobs, submitters, faults>>
      /\ magnets' = [m \in MagnetIds |-> IF magnets[m].followedBy = j
                                         THEN [magnets[m] EXCEPT !.status = "completed", !.done = TRUE] ELSE magnets[m]]
      /\ pollers' = [pollers EXCEPT ![p] = [Magnets!IdlePoller EXCEPT !.todo = pollers[p].todo]]
  BY <1>1 DEF Magnets!MarkCompleted, Magnets!CompletesAt, Magnets!Followed
<1>3. pollers \in [Polls -> PollRecords] /\ magnets \in [MagnetIds -> MagnetRows] /\ PollInv(p)
  BY DEF MagnetsInv, DeliveryTyped
<1>4. j \in DriveJobs /\ j # NoJob /\ (Untouched => Playable(j))
  BY <1>1, <1>2, <1>3, DeliveryConstants DEF PollInv
<1>5. PICK r : r = [Magnets!IdlePoller EXCEPT !.todo = pollers[p].todo]
  OBVIOUS
<1>6. r \in PollRecords /\ pollers' = [pollers EXCEPT ![p] = r] /\ pollers'[p] = r /\ r.pc = "list"
  BY <1>2, <1>3, <1>5 DEF PollRecords, Magnets!IdlePoller
<1>7. \A m \in MagnetIds : /\ magnets'[m] \in MagnetRows
                           /\ magnets'[m].edited = magnets[m].edited /\ magnets'[m].followedBy = magnets[m].followedBy
                           /\ magnets'[m].playable = magnets[m].playable
                           /\ magnets[m].followedBy = j => magnets'[m].status = "completed"
                           /\ magnets[m].followedBy # j => magnets'[m].status = magnets[m].status
  BY <1>2, <1>3 DEF MagnetRows, Magnets!Statuses
<1>8. magnets' \in [MagnetIds -> MagnetRows]
  BY <1>2, <1>7
<1>9. \A m \in MagnetIds : MagnetInv(m)'
  BY <1>2, <1>4, <1>7 DEF MagnetsInv, MagnetInv, Failed, Magnets!Submitters
<1>10. PollInv(p)'
  BY <1>6 DEF PollInv
<1>11. Untouched => \A m \in MagnetIds : magnets'[m].status = "completed" =>
                        magnets[m].status = "completed" \/ Playable(magnets[m].followedBy)
  BY <1>4, <1>7
<1>12. \A m \in MagnetIds : /\ magnets'[m].edited = magnets[m].edited /\ magnets'[m].followedBy = magnets[m].followedBy
                            /\ magnets[m].playable => magnets'[m].playable
                            /\ magnets'[m].status = magnets[m].status \/ magnets[m].followedBy # NoJob
  BY <1>4, <1>7
<1>13. UNCHANGED <<jobs, submitters, faults>>
  BY <1>2
<1> QED
  BY <1>6, <1>8, <1>9, <1>10, <1>11, <1>12, <1>13, PollSteps

LEMMA PollFailedKeeps ==
    ASSUME MagnetsInv, NEW p \in Polls, NEW item \in pollers[p].todo, Magnets!PollFailed(p, item) PROVE MagnetsInv'
<1>1. PICK j : j = item[2]
  OBVIOUS
<1>2. /\ pollers[p].pc = "list" /\ jobs[j] = "failed" /\ UNCHANGED <<jobs, submitters, faults>>
      /\ pollers' = [pollers EXCEPT ![p].todo = @ \ {item}]
      /\ magnets' = [m \in MagnetIds |-> IF magnets[m].followedBy = j
                         THEN [magnets[m] EXCEPT !.status = "failed", !.retries = Magnets!Counted(magnets[m].retries)]
                         ELSE magnets[m]]
  BY <1>1 DEF Magnets!PollFailed, Magnets!Followed
<1>3. pollers \in [Polls -> PollRecords] /\ magnets \in [MagnetIds -> MagnetRows]
  BY DEF MagnetsInv, DeliveryTyped
<1>4. j \in DriveJobs
  BY <1>1, <1>3 DEF PollRecords
<1>5. jobs[j] = "failed"
  BY <1>2
<1>6. PICK r : r = [pollers[p] EXCEPT !.todo = pollers[p].todo \ {item}]
  OBVIOUS
<1>7. r \in PollRecords /\ pollers' = [pollers EXCEPT ![p] = r] /\ pollers'[p] = r /\ r.pc = "list"
  BY <1>2, <1>3, <1>6 DEF PollRecords
<1>8. \A n \in 0..RetryCap : Magnets!Counted(n) \in 0..RetryCap
  BY DeliveryConstants DEF Magnets!Counted
<1>9. \A m \in MagnetIds : /\ magnets'[m] \in MagnetRows
                           /\ magnets'[m].edited = magnets[m].edited /\ magnets'[m].followedBy = magnets[m].followedBy
                           /\ magnets'[m].playable = magnets[m].playable
                           /\ magnets[m].followedBy = j => magnets'[m].status = "failed"
                           /\ magnets[m].followedBy # j => magnets'[m].status = magnets[m].status
  BY <1>2, <1>3, <1>8 DEF MagnetRows, Magnets!Statuses
<1>10. magnets' \in [MagnetIds -> MagnetRows] /\ UNCHANGED <<jobs, submitters, faults>>
  BY <1>2, <1>9
<1>11. \A m \in MagnetIds : MagnetInv(m)'
  BY <1>4, <1>5, <1>9, <1>10, DeliveryConstants DEF MagnetsInv, MagnetInv, Failed, Magnets!Submitters
<1>12. PollInv(p)'
  BY <1>7 DEF PollInv
<1>13. \A m \in MagnetIds : magnets'[m].status = "completed" => magnets[m].status = "completed"
  BY <1>9
<1>14. \A m \in MagnetIds : /\ magnets'[m].edited = magnets[m].edited /\ magnets'[m].followedBy = magnets[m].followedBy
                            /\ magnets[m].playable => magnets'[m].playable
                            /\ magnets'[m].status = magnets[m].status \/ magnets[m].followedBy # NoJob
  BY <1>4, <1>9, DeliveryConstants
<1> QED
  BY <1>7, <1>10, <1>11, <1>12, <1>13, <1>14, PollSteps

-----------------------------------------------------------------------------
LEMMA EditKeeps ==
    ASSUME MagnetsInv, NEW m \in MagnetIds, NEW status \in Magnets!Statuses, NEW job \in {NoJob, magnets[m].followedBy},
           Magnets!Edit(m, status, job)
    PROVE  MagnetsInv'
<1>1. /\ faults < FaultCap /\ faults' = faults + 1 /\ UNCHANGED <<jobs, submitters, pollers>>
      /\ magnets' = [magnets EXCEPT ![m].status = status, ![m].followedBy = job, ![m].edited = TRUE]
  BY DEF Magnets!Edit
<1>2. magnets \in [MagnetIds -> MagnetRows] /\ faults \in 0..FaultCap
  BY DEF MagnetsInv, DeliveryTyped
<1>3. job \in DriveJobs \union {NoJob}
  BY <1>2 DEF MagnetRows
<1>4. /\ magnets' \in [MagnetIds -> MagnetRows] /\ magnets'[m].edited /\ \A n \in MagnetIds \ {m} :
           magnets'[n] = magnets[n]
      /\ faults' \in 0..FaultCap
  <2>1. PICK n : n = [magnets[m] EXCEPT !.status = status, !.followedBy = job, !.edited = TRUE]
    OBVIOUS
  <2>2. n \in MagnetRows /\ n.edited
    BY <1>2, <1>3, <2>1 DEF MagnetRows
  <2>3. magnets' = [magnets EXCEPT ![m] = n]
    BY <1>1, <1>2, <2>1
  <2>4. faults' \in 0..FaultCap
    BY <1>1, <1>2, DeliveryConstants
  <2> QED
    BY <1>2, <2>2, <2>3, <2>4
<1>5. DeliveryTyped'
  BY <1>1, <1>4 DEF MagnetsInv, DeliveryTyped, Magnets!Submitters
<1>6. \A n \in MagnetIds : MagnetInv(n)'
  BY <1>1, <1>4 DEF MagnetsInv, MagnetInv, Failed, Magnets!Submitters
<1>7. ~Untouched'
  BY <1>4 DEF Untouched
<1>8. \A p \in Polls : PollInv(p)'
  BY <1>1, <1>7 DEF MagnetsInv, PollInv
<1>9. \A s \in Magnets!Submitters : SubmitterInv(s)'
  BY <1>1 DEF MagnetsInv, SubmitterInv
<1> QED
  BY <1>5, <1>6, <1>7, <1>8, <1>9 DEF MagnetsInv, Magnets!Submitters

LEMMA DeliveryCrashKeeps ==
    ASSUME MagnetsInv, Magnets!Crash PROVE MagnetsInv'
<1>1. /\ faults < FaultCap /\ faults' = faults + 1 /\ UNCHANGED <<magnets, jobs>>
      /\ submitters' = [s \in Magnets!Submitters |-> Magnets!IdleSubmitter]
           /\ pollers' = [p \in Polls |-> Magnets!IdlePoller]
  BY DEF Magnets!Crash
<1>2. faults' \in 0..FaultCap
  BY <1>1, DeliveryConstants DEF MagnetsInv, DeliveryTyped
<1>3. Magnets!IdleSubmitter \in SubmitterRecords /\ Magnets!IdlePoller \in PollRecords
  BY DEF Magnets!IdleSubmitter, SubmitterRecords, Magnets!IdlePoller, PollRecords
<1>4. DeliveryTyped'
  BY <1>1, <1>2, <1>3 DEF MagnetsInv, DeliveryTyped, Magnets!Submitters
<1>5. \A s \in Magnets!Submitters : submitters'[s].at = NoMagnet /\ submitters'[s].job = NoJob
  BY <1>1 DEF Magnets!IdleSubmitter
<1>6. \A m \in MagnetIds : MagnetInv(m)'
  BY <1>1, <1>5, DeliveryConstants DEF MagnetsInv, MagnetInv, Failed, Magnets!Submitters
<1>7. \A p \in Polls : PollInv(p)'
  BY <1>1 DEF PollInv, Magnets!IdlePoller
<1>8. \A s \in Magnets!Submitters : SubmitterInv(s)'
  BY <1>5 DEF SubmitterInv
<1>9. (Untouched' <=> Untouched) /\ \A k : Playable(k)' <=> Playable(k)
  BY <1>1 DEF Untouched, Playable
<1> QED
  BY <1>1, <1>4, <1>6, <1>7, <1>8, <1>9 DEF MagnetsInv, Magnets!Submitters

LEMMA MagnetStepKeeps == MagnetsInv /\ [Magnets!Next]_magnetVars => MagnetsInv'
<1> SUFFICES ASSUME MagnetsInv, [Magnets!Next]_magnetVars PROVE MagnetsInv'
  OBVIOUS
<1>1. CASE UNCHANGED magnetVars
  <2>1. UNCHANGED <<magnets, jobs, submitters, pollers, faults>>
    BY <1>1 DEF magnetVars
  <2>2. DeliveryTyped' /\ \A m \in MagnetIds : MagnetInv(m)'
    BY <2>1 DEF MagnetsInv, DeliveryTyped, MagnetInv, Failed, Magnets!Submitters
  <2>3. \A s \in Magnets!Submitters : SubmitterInv(s)'
    BY <2>1 DEF MagnetsInv, SubmitterInv
  <2>4. (Untouched' <=> Untouched) /\ \A k : Playable(k)' <=> Playable(k)
    BY <2>1 DEF Untouched, Playable
  <2>5. \A p \in Polls : PollInv(p)'
    BY <2>1, <2>4 DEF MagnetsInv, PollInv
  <2> QED
    BY <2>1, <2>2, <2>3, <2>4, <2>5 DEF MagnetsInv, Magnets!Submitters
<1>2. CASE Magnets!Next
  <2>1. CASE \/ Magnets!ListPending \/ Magnets!Crash
             \/ \E s \in ManualRequests, m \in MagnetIds : Magnets!Request(s, m)
    BY <2>1, ListPendingKeeps, DeliveryCrashKeeps, ManualRequestKeeps
  <2>2. CASE \E s \in Magnets!Submitters :
               \/ \E m \in MagnetIds : Magnets!Claim(s, m)
               \/ Magnets!Download(s) \/ Magnets!MarkSubmitted(s)
               \/ \E recorded \in BOOLEAN : Magnets!SubmitFailed(s, recorded)
    BY <2>2, SubmitClaimKeeps, DownloadKeeps, MarkSubmittedKeeps, SubmitFailedKeeps
  <2>3. CASE \E j \in DriveJobs, status \in {"completed", "failed"} : Magnets!JobEnds(j, status)
    BY <2>3, JobEndsKeeps
  <2>4. CASE \E p \in Polls :
               \/ Magnets!ListPostProcess(p) \/ Magnets!MarkPostProcessDone(p) \/ Magnets!MarkCompleted(p)
               \/ Magnets!PostProcessFails(p)
               \/ \E item \in pollers[p].todo : Magnets!PollRunning(p, item) \/ Magnets!PollFailed(p, item)
               \/ \E item \in pollers[p].todo, m \in MagnetIds : Magnets!PollCompleted(p, item, m)
    BY <2>4, ListPostProcessKeeps, MarkPostProcessDoneKeeps, MarkCompletedKeeps,
         PostProcessFailsKeeps, PollRunningKeeps,
       PollFailedKeeps, PollCompletedKeeps
  <2>5. CASE \E m \in MagnetIds, status \in Magnets!Statuses :
               \E job \in {NoJob, Magnets!Followed(m)} : Magnets!Edit(m, status, job)
    BY <2>5, EditKeeps DEF Magnets!Followed
  <2> QED
    BY <1>2, <2>1, <2>2, <2>3, <2>4, <2>5 DEF Magnets!Next
<1> QED
  BY <1>1, <1>2

LEMMA MagnetsInvSuffices == MagnetsInv => Magnets!TypeOK /\ Magnets!OneSubmitter /\ Magnets!CompletedIsPlayable
<1> SUFFICES ASSUME MagnetsInv PROVE Magnets!TypeOK /\ Magnets!OneSubmitter /\ Magnets!CompletedIsPlayable
  OBVIOUS
<1>1. Magnets!TypeOK
  BY DEF MagnetsInv, DeliveryTyped, MagnetRows, SubmitterRecords, PollRecords, Magnets!TypeOK
<1>2. Magnets!OneSubmitter
  <2> SUFFICES ASSUME NEW m \in MagnetIds, ~magnets[m].edited, ~Magnets!JobFailed(m),
                      NEW s \in Magnets!Submitters, NEW t \in Magnets!Submitters,
                         submitters[s].at = m, submitters[t].at = m
               PROVE  s = t
    BY DEF Magnets!OneSubmitter
  <2>1. MagnetInv(m) /\ ~Failed(magnets[m].followedBy)
    BY DEF MagnetsInv, Failed, Magnets!JobFailed, Magnets!Followed
  <2> QED
    BY <2>1 DEF MagnetInv
<1>3. Magnets!CompletedIsPlayable
  BY DEF MagnetsInv, Untouched, Playable, Magnets!CompletedIsPlayable, Magnets!ByFollowed, Magnets!Followed
<1> QED
  BY <1>1, <1>2, <1>3

(* For any number of magnets that share jobs in any way, requests and polls:*)
(* until its job fails, a magnet that nobody edited is claimed by one caller*)
(* at a time; and while no row is edited, the job of a completed magnet has*)
(* play information (magnets.go:167-214 and 268-285,                       *)
(* download_scheduler.go:83-136, cloud_downloader.go:163-210).             *)
THEOREM MagnetsDelivered == Magnets!Spec => [](Magnets!TypeOK /\ Magnets!OneSubmitter /\ Magnets!CompletedIsPlayable)
<1>1. MagnetsInv /\ [Magnets!Next]_Magnets!vars => MagnetsInv'
  BY MagnetStepKeeps DEF Magnets!vars, magnetVars
<1> QED
  BY <1>1, DeliveryInitial, MagnetsInvSuffices, PTL DEF Magnets!Spec

LEMMA StoresStepMagnets == StoresNext => [Magnets!Next]_magnetVars
<1>1. \A p : p # "magnets" /\ In(p) => UNCHANGED magnetVars
  BY DEF In
<1>2. AuthoringStep => UNCHANGED magnetVars
  BY <1>1 DEF AuthoringStep
<1>3. DefinitionStep => UNCHANGED magnetVars
  BY <1>1 DEF DefinitionStep
<1>4. ListingStep => UNCHANGED magnetVars
  BY <1>1 DEF ListingStep
<1>5. BudgetStep => UNCHANGED magnetVars
  BY <1>1 DEF BudgetStep
<1>6. RecordStep => UNCHANGED magnetVars
  BY <1>1 DEF RecordStep
<1>7. ResourceStep => UNCHANGED magnetVars
  BY <1>1 DEF ResourceStep
<1>8. MagnetStep => Magnets!Next
  BY DEF MagnetStep, Magnets!Next, Magnets!Followed
<1>9. SubmitStep => Magnets!Next
  BY DEF SubmitStep, Magnets!Next
<1>10. PollStep => Magnets!Next
  BY DEF PollStep, Magnets!Next
<1> QED
  BY <1>2, <1>3, <1>4, <1>5, <1>6, <1>7, <1>8, <1>9, <1>10 DEF StoresNext

LEMMA StoresMagnetsInv == StoresSpec => []MagnetsInv
<1>1. StoresInit => MagnetsInv
  BY DeliveryInitial DEF StoresInit
<1>2. MagnetsInv /\ [StoresNext]_storesVars => MagnetsInv'
  BY MagnetStepKeeps, StoresStepMagnets DEF storesVars, magnetVars
<1> QED
  BY <1>1, <1>2, PTL DEF StoresSpec

(* The same as magnets are delivered beside the other stores: one submitter*)
(* until the job fails (magnets.go:167-214 and 268-285,                    *)
(* download_scheduler.go:83-136).                                          *)
THEOREM StoresOneSubmitter == StoresSpec => []OneSubmitter
<1>1. MagnetsInv => OneSubmitter
  BY MagnetsInvSuffices DEF OneSubmitter
<1> QED
  BY <1>1, StoresMagnetsInv, PTL

(* And no completed magnet without its files (cloud_downloader.go:163-210).*)
THEOREM StoresCompletedIsPlayable == StoresSpec => []CompletedIsPlayable
<1>1. MagnetsInv => CompletedIsPlayable
  BY MagnetsInvSuffices DEF CompletedIsPlayable
<1> QED
  BY <1>1, StoresMagnetsInv, PTL

-----------------------------------------------------------------------------
LEMMA StoresAuthoringTyped == StoresSpec => []Authoring!TypeOK
<1>1. StoresInit => Publications!Init
  BY DEF StoresInit, Authoring!Init, Publications!Init, Authoring!NewDraft, Publications!NewDraft,
       Authoring!Idle, Publications!Idle
<1>2. [StoresNext]_storesVars => [Publications!Next]_Publications!vars
  BY StoresStepPublications DEF storesVars, authoringVars, Publications!vars
<1>3. \A d \in AuthoredDrafts : d.kind \in Publications!Kinds
  BY DEF AuthoredDrafts, Publications!Kinds
<1>4. Publications!Spec => []Publications!TypeOK
  BY <1>3, AuthoringAssumed, Publications!AuthoringTyped
<1>5. Publications!TypeOK => Authoring!TypeOK
  BY DEF Publications!TypeOK, Authoring!TypeOK, Publications!Kinds, Authoring!Kinds,
       Publications!Status, Authoring!Status
<1> QED
  BY <1>1, <1>2, <1>4, <1>5, PTL DEF StoresSpec, Publications!Spec

LEMMA StoresBudgetTyped == StoresSpec => []BudgetInv
<1>1. StoresInit => BudgetInv
  BY BudgetAssumed, InitInv DEF StoresInit
<1>2. AuthoringStep \/ DefinitionStep \/ ListingStep \/ RecordStep => UNCHANGED budgetVars
  BY DEF AuthoringStep, DefinitionStep, ListingStep, RecordStep, In
<1>3. ResourceStep \/ MagnetStep \/ SubmitStep \/ PollStep => UNCHANGED budgetVars
  BY DEF ResourceStep, MagnetStep, SubmitStep, PollStep, In
<1>4. BudgetStep => Next
  BY DEF BudgetStep, Next, Attempt
<1>5. [StoresNext]_storesVars => [Next]_vars
  BY <1>2, <1>3, <1>4 DEF StoresNext, storesVars, budgetVars
<1>6. BudgetInv /\ [StoresNext]_storesVars => BudgetInv'
  BY <1>5, BudgetAssumed, StepKeeps
<1> QED
  BY <1>1, <1>6, PTL DEF StoresSpec

(* Every row, task, attempt, request and call of every store is well       *)
(* formed.                                                                 *)
THEOREM StoresPartsTyped == StoresSpec => []PartsTyped
<1>1. PipelineInv => Definition!TypeOK
  BY PipelineInvSuffices
<1>2. ListingInv => Listing!TypeOK
  BY DEF ListingInv
<1>3. BudgetInv => TypeOK
  BY DEF BudgetInv
<1>4. HistoryInv => Records!TypeOK
  BY HistoryInvSuffices
<1>5. ResourceInv => Resources!TypeOK
  BY ResourceInvSuffices
<1>6. MagnetsInv => Magnets!TypeOK
  BY MagnetsInvSuffices
<1>7. /\ Authoring!TypeOK /\ PipelineInv /\ ListingInv /\ BudgetInv /\ HistoryInv /\ ResourceInv /\ MagnetsInv
      => PartsTyped
  BY <1>1, <1>2, <1>3, <1>4, <1>5, <1>6 DEF PartsTyped
<1>8. StoresSpec => []ListingInv
  BY StoresListingInv
<1>9. StoresSpec => []HistoryInv
  BY StoresKeepHistory, PTL DEF StoresSpec
<1>10. StoresSpec => []PipelineInv
  BY StoresPipelineInv
<1>11. StoresSpec => []ResourceInv
  BY StoresResourceInv, PTL
<1> QED
  BY <1>7, <1>8, <1>9, <1>10, <1>11, StoresAuthoringTyped, StoresBudgetTyped, StoresMagnetsInv, PTL

=============================================================================
