-------------------------- MODULE BackgroundProofs --------------------------
(***************************************************************************)
(* What the legacy crawler engine keeps in memory, and what processes that *)
(* start together make of one schema, for any number of workers, entries,  *)
(* processes, releases and services. The crawler's invariant is stated per *)
(* entry and per worker, so that a step proves it for the entries it moves *)
(* and the rest follows from their being left where they were. The         *)
(* processes' invariant says that the versions which have succeeded are an *)
(* initial segment, that the holder of the lock has passed all before the  *)
(* one it migrates, and that who serves has seen its own.                  *)
(***************************************************************************)
EXTENDS MCBackground, TLAPS

-----------------------------------------------------------------------------
(* The legacy crawler.                                                     *)
InQueue(e) == \E i \in DOMAIN queue : queue[i] = e

CrawlerRecords == [pc : {"idle", "handling", "submitting", "resubmitting"},
                   entry : LegacyEntries \union {NoEntry}, todo : SUBSET LegacyEntries,
                   child : LegacyEntries \union {NoEntry}, held : BOOLEAN]
RowRecords == [status : {"none", "queued", "running", "succeeded", "dead"},
               attempts : 0..MaxTaskErrorNum, due : BOOLEAN]

(* A worker holds distinct entries, children only while it submits them,   *)
(* and children that are still to be persisted have no row.                *)
CrawlerInv(w) ==
    /\ crawlers[w].pc = "idle" => crawlers[w].entry = NoEntry
    /\ crawlers[w].pc # "idle" => crawlers[w].entry \in LegacyEntries
    /\ crawlers[w].pc # "submitting" => crawlers[w].todo = {} /\ crawlers[w].child = NoEntry
    /\ crawlers[w].entry \notin crawlers[w].todo /\ crawlers[w].child \notin crawlers[w].todo
    /\ crawlers[w].child # NoEntry => crawlers[w].child # crawlers[w].entry
    /\ \A e \in crawlers[w].todo : rows[e].status = "none"
    /\ crawlers[w].pc \in {"handling", "submitting"} /\ Legacy!Discards(w) => crawlers[w].entry \in lost

Nowhere(e) == ~InQueue(e) /\ e \notin timers /\ bus # e /\ \A w \in LegacyWorkers : ~Legacy!Holds(w, e)

(* An entry is in one place, in none before it exists, and in some while   *)
(* its row waits, unless it was lost.                                      *)
EntryInv(e) ==
    /\ \A x, y \in LegacyWorkers : Legacy!Holds(x, e) /\ Legacy!Holds(y, e) => x = y
    /\ \A x \in LegacyWorkers : Legacy!Holds(x, e) => ~InQueue(e) /\ e \notin timers /\ bus # e
    /\ InQueue(e) => e \notin timers /\ bus # e
    /\ bus = e => e \notin timers
    /\ errors[e] = Legacy!Unseen => rows[e].status = "none" /\ Nowhere(e)
    /\ rows[e].status \in {"queued", "running"} /\ Nowhere(e) => e \in lost

LegacyInv ==
    /\ Legacy!TypeOK
    /\ \A i, j \in DOMAIN queue : queue[i] = queue[j] => i = j
    /\ \A w \in LegacyWorkers : CrawlerInv(w)
    /\ \A e \in LegacyEntries : EntryInv(e)

(* A step that leaves entry e where it was, and its row and errors.        *)
Unmoved(e) ==
    /\ (InQueue(e)' <=> InQueue(e)) /\ (e \in timers' <=> e \in timers) /\ (bus' = e <=> bus = e)
    /\ \A w \in LegacyWorkers : Legacy!Holds(w, e)' <=> Legacy!Holds(w, e)
    /\ rows'[e] = rows[e] /\ errors'[e] = errors[e]
    /\ e \in lost => e \in lost'

-----------------------------------------------------------------------------
LEMMA AppendElements ==
    ASSUME NEW S, NEW q \in Seq(S), NEW e \in S
    PROVE  LET r == Append(q, e) IN
           /\ r \in Seq(S) /\ Len(r) = Len(q) + 1
           /\ \A x : (\E i \in DOMAIN r : r[i] = x) <=> (x = e \/ \E i \in DOMAIN q : q[i] = x)
           /\ (\A i, j \in DOMAIN q : q[i] = q[j] => i = j) /\ (\A i \in DOMAIN q : q[i] # e)
                => \A i, j \in DOMAIN r : r[i] = r[j] => i = j
<1> DEFINE r == Append(q, e)
<1>1. r \in Seq(S) /\ Len(r) = Len(q) + 1 /\ Len(q) \in Nat
  OBVIOUS
<1>2. DOMAIN r = 1..Len(q) + 1 /\ DOMAIN q = 1..Len(q)
  BY <1>1
<1>3. r[Len(q) + 1] = e /\ \A i \in 1..Len(q) : r[i] = q[i]
  OBVIOUS
<1>4. \A i \in DOMAIN r : i \in DOMAIN q \/ i = Len(q) + 1
  BY <1>1, <1>2
<1>5. \A x : (\E i \in DOMAIN r : r[i] = x) <=> (x = e \/ \E i \in DOMAIN q : q[i] = x)
  BY <1>1, <1>2, <1>3
<1>6. ASSUME \A i, j \in DOMAIN q : q[i] = q[j] => i = j, \A i \in DOMAIN q : q[i] # e
      PROVE  \A i, j \in DOMAIN r : r[i] = r[j] => i = j
  BY <1>2, <1>3, <1>4, <1>6
<1> QED
  BY <1>1, <1>5, <1>6

LEMMA TailElements ==
    ASSUME NEW S, NEW q \in Seq(S), q # <<>>
    PROVE  LET r == Tail(q) IN
           /\ Head(q) \in S /\ r \in Seq(S) /\ Len(r) = Len(q) - 1
           /\ \E i \in DOMAIN q : q[i] = Head(q)
           /\ \A x : (\E i \in DOMAIN q : q[i] = x) <=> (x = Head(q) \/ \E i \in DOMAIN r : r[i] = x)
           /\ (\A i, j \in DOMAIN q : q[i] = q[j] => i = j)
                => (\A i, j \in DOMAIN r : r[i] = r[j] => i = j) /\ \A i \in DOMAIN r : r[i] # Head(q)
<1> DEFINE r == Tail(q)
<1>1. r \in Seq(S) /\ Len(r) = Len(q) - 1 /\ Len(q) \in Nat \ {0} /\ Head(q) = q[1] /\ Head(q) \in S
  OBVIOUS
<1>2. DOMAIN r = 1..Len(q) - 1 /\ DOMAIN q = 1..Len(q)
  BY <1>1
<1>3. \A i \in 1..Len(q) - 1 : r[i] = q[i + 1]
  OBVIOUS
<1>4. \A i \in DOMAIN r : i + 1 \in DOMAIN q /\ r[i] = q[i + 1] /\ i + 1 # 1 /\ i \in Nat
  BY <1>1, <1>2, <1>3
<1>5. \A i \in DOMAIN q : i # 1 => i - 1 \in DOMAIN r /\ r[i - 1] = q[i]
  BY <1>1, <1>2, <1>3
<1>6. 1 \in DOMAIN q
  BY <1>1, <1>2
<1>7. \A x : (\E i \in DOMAIN q : q[i] = x) <=> (x = Head(q) \/ \E i \in DOMAIN r : r[i] = x)
  BY <1>1, <1>4, <1>5, <1>6
<1>8. ASSUME \A i, j \in DOMAIN q : q[i] = q[j] => i = j
      PROVE  (\A i, j \in DOMAIN r : r[i] = r[j] => i = j) /\ \A i \in DOMAIN r : r[i] # Head(q)
  <2>1. \A i, j \in DOMAIN r : r[i] = r[j] => i + 1 = j + 1
    BY <1>4, <1>8
  <2>2. \A i \in DOMAIN r : r[i] # q[1]
    BY <1>4, <1>6, <1>8
  <2> QED
    BY <1>1, <1>4, <2>1, <2>2
<1> QED
  BY <1>1, <1>6, <1>7, <1>8

LEMMA CrawlerTypes ==
    Legacy!TypeOK <=>
        /\ queue \in Seq(LegacyEntries) /\ Len(queue) <= QueueCap
        /\ bus \in LegacyEntries \union {NoEntry}
        /\ crawlers \in [LegacyWorkers -> CrawlerRecords]
        /\ timers \subseteq LegacyEntries /\ lost \subseteq LegacyEntries
        /\ errors \in [LegacyEntries -> 0..Legacy!Unseen]
        /\ rows \in [LegacyEntries -> RowRecords]
        /\ restarts \in 0..RestartCap
  BY DEF Legacy!TypeOK, CrawlerRecords, RowRecords

LEMMA CrawlerConstants ==
    /\ NoEntry \notin LegacyEntries /\ QueueCap \in Nat \ {0} /\ MaxTaskErrorNum \in Nat \ {0}
    /\ RestartCap \in Nat
    /\ Legacy!Unseen = MaxTaskErrorNum + 1
  BY LegacyAssumed DEF Legacy!CrawlerAssumption, Legacy!Unseen

LEMMA LegacyInitial == Legacy!Init => LegacyInv
<1> SUFFICES ASSUME Legacy!Init PROVE LegacyInv
  OBVIOUS
<1> USE CrawlerConstants DEF Legacy!Init, Legacy!FreeWorker, Legacy!NoRow
<1>1. Legacy!TypeOK
  BY DEF Legacy!TypeOK, Legacy!Unseen
<1>2. \A w \in LegacyWorkers : CrawlerInv(w)
  BY DEF CrawlerInv
<1>3. \A e \in LegacyEntries : Nowhere(e)
  BY DEF Nowhere, InQueue, Legacy!Holds, Legacy!Entry
<1>4. \A e \in LegacyEntries : EntryInv(e)
  BY <1>3 DEF EntryInv, Nowhere
<1> QED
  BY <1>1, <1>2, <1>4 DEF LegacyInv

LEMMA UnmovedKeeps == \A e \in LegacyEntries : EntryInv(e) /\ Unmoved(e) => EntryInv(e)'
<1> SUFFICES ASSUME NEW e \in LegacyEntries, EntryInv(e), Unmoved(e) PROVE EntryInv(e)'
  OBVIOUS
<1>1. Nowhere(e)' <=> Nowhere(e)
  BY DEF Unmoved, Nowhere
<1>2. Legacy!Unseen' = Legacy!Unseen
  BY DEF Legacy!Unseen
<1> QED
  BY <1>1, <1>2 DEF Unmoved, EntryInv

(* A worker that a step leaves alone, together with which of the entries it*)
(* holds have a row.                                                       *)
LEMMA OthersKeep ==
    ASSUME LegacyInv, NEW w \in LegacyWorkers, crawlers'[w] = crawlers[w], lost \subseteq lost',
           \A e \in LegacyEntries : Legacy!Holds(w, e) => (rows'[e].status = "none" <=> rows[e].status = "none")
    PROVE  CrawlerInv(w)'
<1>1. CrawlerInv(w) /\ crawlers[w] \in CrawlerRecords
  BY CrawlerTypes DEF LegacyInv
<1>2. \A e \in crawlers[w].todo : rows'[e].status = "none"
  BY <1>1 DEF Legacy!Holds, CrawlerRecords, CrawlerInv
<1>3. crawlers[w].pc # "idle" => (Legacy!Discards(w)' <=> Legacy!Discards(w))
  BY <1>1 DEF Legacy!Discards, Legacy!Persisted, Legacy!HoldsAttempt, Legacy!Entry, Legacy!Holds, CrawlerInv
<1> QED
  BY <1>1, <1>2, <1>3 DEF CrawlerInv, Legacy!FreeWorker

LEMMA PersistedRows ==
    ASSUME Legacy!TypeOK, NEW es \in SUBSET LegacyEntries, Legacy!PersistTask(es)
    PROVE  /\ rows' \in [LegacyEntries -> RowRecords]
           /\ \A e \in LegacyEntries \ es : rows'[e] = rows[e]
           /\ \A e \in es : rows'[e] = rows[e] \/ rows'[e].status = "queued"
<1> DEFINE queued == [Legacy!NoRow EXCEPT !.status = "queued"]
<1>1. PICK saved \in SUBSET es : rows' = [e \in LegacyEntries |-> IF e \in saved THEN queued ELSE rows[e]]
  BY DEF Legacy!PersistTask
<1>2. queued \in RowRecords /\ queued.status = "queued"
  <2>1. queued \in [status : {"queued"}, attempts : {0}, due : {TRUE}]
    BY DEF Legacy!NoRow
  <2>2. 0 \in 0..MaxTaskErrorNum
    BY CrawlerConstants
  <2> QED
    BY <2>1, <2>2 DEF RowRecords
<1>3. \A e \in LegacyEntries : rows[e] \in RowRecords
  BY CrawlerTypes
<1> HIDE DEF queued
<1> QED
  BY <1>1, <1>2, <1>3

LEMMA Sent ==
    ASSUME LegacyInv, NEW e \in LegacyEntries, Legacy!Send(e), ~InQueue(e)
    PROVE  /\ queue' \in Seq(LegacyEntries) /\ Len(queue') <= QueueCap
           /\ \A x : InQueue(x)' <=> (x = e \/ InQueue(x))
           /\ \A i, j \in DOMAIN queue' : queue'[i] = queue'[j] => i = j
<1>1. queue' = Append(queue, e) /\ Len(queue) < QueueCap /\ queue \in Seq(LegacyEntries)
  BY DEF Legacy!Send, LegacyInv, Legacy!TypeOK
<1> QED
  BY <1>1, AppendElements, CrawlerConstants DEF InQueue, LegacyInv

LEMMA Released ==
    ASSUME LegacyInv, NEW w \in LegacyWorkers, Legacy!Release(w)
    PROVE  /\ crawlers' \in [LegacyWorkers -> CrawlerRecords]
           /\ \A v \in LegacyWorkers \ {w} : crawlers'[v] = crawlers[v]
           /\ \A x \in LegacyEntries : /\ ~Legacy!Holds(w, x)'
                                       /\ \A v \in LegacyWorkers \ {w} : Legacy!Holds(v, x)' <=> Legacy!Holds(v, x)
           /\ CrawlerInv(w)'
<1>1. crawlers \in [LegacyWorkers -> CrawlerRecords] /\ crawlers' = [crawlers EXCEPT ![w] = Legacy!FreeWorker]
  BY CrawlerTypes DEF LegacyInv, Legacy!Release
<1>2. Legacy!FreeWorker \in CrawlerRecords
  BY DEF Legacy!FreeWorker, CrawlerRecords
<1>3. crawlers' \in [LegacyWorkers -> CrawlerRecords] /\ crawlers'[w] = Legacy!FreeWorker
      /\ \A v \in LegacyWorkers \ {w} : crawlers'[v] = crawlers[v]
  BY <1>1, <1>2
<1>4. CrawlerInv(w)'
  BY <1>3 DEF CrawlerInv, Legacy!FreeWorker
<1> QED
  BY <1>3, <1>4, CrawlerConstants DEF Legacy!Holds, Legacy!Entry, Legacy!FreeWorker

LEMMA PublishKeeps ==
    ASSUME LegacyInv, NEW e \in LegacyEntries, Legacy!Publish(e)
    PROVE  LegacyInv'
<1>1. /\ errors[e] = Legacy!Unseen /\ bus = NoEntry
      /\ bus' = e /\ errors' = [errors EXCEPT ![e] = 0] /\ Legacy!PersistTask({e})
      /\ UNCHANGED <<queue, crawlers, timers, lost, restarts>>
  BY DEF Legacy!Publish, Legacy!Fresh
<1>2. Legacy!TypeOK /\ EntryInv(e) /\ Nowhere(e)
  BY <1>1 DEF LegacyInv, EntryInv
<1>3. /\ rows' \in [LegacyEntries -> RowRecords]
      /\ \A x \in LegacyEntries \ {e} : rows'[x] = rows[x]
  BY <1>1, <1>2, PersistedRows
<1>4. \A x \in LegacyEntries : /\ InQueue(x)' <=> InQueue(x)
                             /\ \A w \in LegacyWorkers : Legacy!Holds(w, x)' <=> Legacy!Holds(w, x)
  BY <1>1 DEF InQueue, Legacy!Holds, Legacy!Entry
<1>5. Legacy!TypeOK'
  BY <1>1, <1>2, <1>3, CrawlerTypes, CrawlerConstants DEF Legacy!TypeOK, RowRecords
<1>6. \A w \in LegacyWorkers : CrawlerInv(w)'
  BY <1>1, <1>2, <1>3, OthersKeep DEF Nowhere
<1>7. \A x \in LegacyEntries \ {e} : EntryInv(x)'
  <2>1. \A x \in LegacyEntries \ {e} : Unmoved(x)
    BY <1>1, <1>2, <1>3, <1>4, CrawlerTypes, CrawlerConstants DEF Unmoved
  <2> QED
    BY <2>1, UnmovedKeeps DEF LegacyInv
<1>8. EntryInv(e)'
  BY <1>1, <1>2, <1>4, CrawlerTypes, CrawlerConstants DEF EntryInv, Nowhere
<1> QED
  BY <1>1, <1>5, <1>6, <1>7, <1>8 DEF LegacyInv

LEMMA SubmitKeeps ==
    ASSUME LegacyInv, Legacy!Submit
    PROVE  LegacyInv'
<1>1. PICK e : e = bus
  OBVIOUS
<1>2. /\ e \in LegacyEntries /\ Len(queue) < QueueCap /\ queue' = Append(queue, e) /\ bus' = NoEntry
      /\ UNCHANGED <<crawlers, timers, errors, rows, lost, restarts>>
  BY <1>1 DEF Legacy!Submit, Legacy!Send, LegacyInv, Legacy!TypeOK
<1>3. Legacy!TypeOK /\ EntryInv(e) /\ queue \in Seq(LegacyEntries)
  BY <1>2 DEF LegacyInv, Legacy!TypeOK
<1>4. /\ queue' \in Seq(LegacyEntries) /\ Len(queue') <= QueueCap
      /\ \A x : InQueue(x)' <=> (x = e \/ InQueue(x))
      /\ \A i, j \in DOMAIN queue' : queue'[i] = queue'[j] => i = j
  BY <1>1, <1>2, <1>3, Sent, CrawlerConstants DEF EntryInv, Legacy!Submit
<1>5. \A x \in LegacyEntries, w \in LegacyWorkers : Legacy!Holds(w, x)' <=> Legacy!Holds(w, x)
  BY <1>2 DEF Legacy!Holds, Legacy!Entry
<1>6. Legacy!TypeOK'
  BY <1>2, <1>3, <1>4 DEF Legacy!TypeOK, Legacy!Unseen
<1>7. \A w \in LegacyWorkers : CrawlerInv(w)'
  BY <1>2, OthersKeep
<1>8. \A x \in LegacyEntries \ {e} : EntryInv(x)'
  <2>1. \A x \in LegacyEntries \ {e} : Unmoved(x)
    BY <1>1, <1>2, <1>4, <1>5, CrawlerConstants DEF Unmoved
  <2> QED
    BY <2>1, UnmovedKeeps DEF LegacyInv
<1>9. EntryInv(e)'
  BY <1>1, <1>2, <1>3, <1>4, <1>5, CrawlerConstants DEF EntryInv, Nowhere
<1> QED
  BY <1>4, <1>6, <1>7, <1>8, <1>9 DEF LegacyInv


LEMMA TakeKeeps ==
    ASSUME LegacyInv, NEW w \in LegacyWorkers, Legacy!Take(w)
    PROVE  LegacyInv'
<1>1. PICK e : e = Head(queue)
  OBVIOUS
<1>2. /\ crawlers[w].pc = "idle" /\ queue # <<>> /\ queue' = Tail(queue)
      /\ UNCHANGED <<bus, timers, errors, restarts>>
  BY DEF Legacy!Take, Legacy!At
<1>3. /\ e \in LegacyEntries /\ queue' \in Seq(LegacyEntries) /\ Len(queue') <= QueueCap
      /\ InQueue(e) /\ ~InQueue(e)' /\ \A x : x # e => (InQueue(x)' <=> InQueue(x))
      /\ \A i, j \in DOMAIN queue' : queue'[i] = queue'[j] => i = j
  <2>1. queue \in Seq(LegacyEntries) /\ Len(queue) <= QueueCap
    BY DEF LegacyInv, Legacy!TypeOK
  <2>2. /\ Head(queue) \in LegacyEntries /\ queue' \in Seq(LegacyEntries) /\ Len(queue') = Len(queue) - 1
        /\ \E i \in DOMAIN queue : queue[i] = Head(queue)
        /\ \A x : (\E i \in DOMAIN queue : queue[i] = x) <=> (x = Head(queue) \/ \E i \in DOMAIN queue' : queue'[i] = x)
    <3> DEFINE r == Tail(queue)
    <3>1. /\ Head(queue) \in LegacyEntries /\ r \in Seq(LegacyEntries) /\ Len(r) = Len(queue) - 1
          /\ \E i \in DOMAIN queue : queue[i] = Head(queue)
          /\ \A x : (\E i \in DOMAIN queue : queue[i] = x) <=> (x = Head(queue) \/ \E i \in DOMAIN r : r[i] = x)
      BY <1>2, <2>1, TailElements, Zenon
    <3> QED
      BY <1>2, <3>1, Zenon
  <2>3. (\A i, j \in DOMAIN queue' : queue'[i] = queue'[j] => i = j) /\ \A i \in DOMAIN queue' : queue'[i] # Head(queue)
    BY <1>2, <2>1, TailElements DEF LegacyInv
  <2>4. Len(queue') <= QueueCap
    BY <2>1, <2>2, CrawlerConstants
  <2> QED
    BY <1>1, <2>2, <2>3, <2>4 DEF InQueue
<1>4. Legacy!TypeOK /\ EntryInv(e) /\ CrawlerInv(w) /\ crawlers[w].entry = NoEntry
  BY <1>2, <1>3 DEF LegacyInv, CrawlerInv
<1>5. errors[e] # Legacy!Unseen /\ e \notin timers /\ bus # e /\ \A x \in LegacyWorkers : ~Legacy!Holds(x, e)
  BY <1>3, <1>4 DEF EntryInv, Nowhere
<1>6. CASE Legacy!Persisted(e) /\ ~Legacy!MayStart(e)
  <2>1. lost' = lost \union {e} /\ UNCHANGED <<crawlers, rows>>
    BY <1>1, <1>6 DEF Legacy!Take
  <2>2. \A x \in LegacyEntries, v \in LegacyWorkers : Legacy!Holds(v, x)' <=> Legacy!Holds(v, x)
    BY <2>1 DEF Legacy!Holds, Legacy!Entry
  <2>3. Legacy!TypeOK'
    BY <1>2, <1>3, <1>4, <2>1 DEF Legacy!TypeOK, Legacy!Unseen
  <2>4. \A v \in LegacyWorkers : CrawlerInv(v)'
    BY <2>1, OthersKeep
  <2>5. \A x \in LegacyEntries \ {e} : EntryInv(x)'
    <3>1. \A x \in LegacyEntries \ {e} : Unmoved(x)
      BY <1>2, <1>3, <2>1, <2>2 DEF Unmoved
    <3> QED
      BY <3>1, UnmovedKeeps DEF LegacyInv
  <2>6. EntryInv(e)'
    BY <1>2, <1>3, <1>5, <2>1, <2>2, CrawlerConstants DEF EntryInv, Legacy!Unseen
  <2> QED
    BY <1>3, <2>3, <2>4, <2>5, <2>6 DEF LegacyInv
<1>7. CASE ~(Legacy!Persisted(e) /\ ~Legacy!MayStart(e))
  <2>1. PICK held \in BOOLEAN :
            /\ held <=> Legacy!Persisted(e)
            /\ crawlers' = [crawlers EXCEPT ![w].pc = "handling", ![w].entry = e, ![w].held = held]
    <3>1. Legacy!Persisted(e) \in BOOLEAN
      BY DEF Legacy!Persisted
    <3>2. crawlers' = [crawlers EXCEPT ![w].pc = "handling", ![w].entry = e, ![w].held = Legacy!Persisted(e)]
      BY <1>1, <1>7 DEF Legacy!Take
    <3> QED
      BY <3>1, <3>2, Zenon
  <2>2. /\ rows' = IF Legacy!Persisted(e)
                   THEN [rows EXCEPT ![e].status = "running", ![e].attempts = @ + 1] ELSE rows
        /\ lost' = lost
    BY <1>1, <1>7 DEF Legacy!Take
  <2>3. /\ crawlers' \in [LegacyWorkers -> CrawlerRecords]
        /\ crawlers'[w].pc = "handling" /\ crawlers'[w].entry = e /\ crawlers'[w].todo = {}
        /\ crawlers'[w].child = NoEntry /\ crawlers'[w].held = held
        /\ \A x \in LegacyWorkers \ {w} : crawlers'[x] = crawlers[x]
    <3>1. crawlers \in [LegacyWorkers -> CrawlerRecords]
      BY <1>4, CrawlerTypes
    <3>2. crawlers[w].todo = {} /\ crawlers[w].child = NoEntry
      BY <1>2, <1>4 DEF CrawlerInv
    <3> QED
      BY <1>3, <2>1, <3>1, <3>2 DEF CrawlerRecords
  <2>4. /\ \A x \in LegacyEntries \ {e} : rows'[x] = rows[x]
        /\ rows'[e].status = "none" <=> rows[e].status = "none"
        /\ rows' \in [LegacyEntries -> RowRecords]
    <3>1. rows \in [LegacyEntries -> RowRecords]
      BY <1>4, CrawlerTypes
    <3>2. CASE Legacy!Persisted(e)
      <4>1. rows[e] \in RowRecords /\ rows[e].attempts < MaxTaskErrorNum
        BY <1>3, <1>7, <3>1, <3>2 DEF Legacy!MayStart
      <4>2. rows[e].attempts + 1 \in 0..MaxTaskErrorNum
        BY <4>1, CrawlerConstants DEF RowRecords
      <4>3. rows' = [rows EXCEPT ![e].status = "running", ![e].attempts = @ + 1]
        BY <2>2, <3>2
      <4>4. rows' \in [LegacyEntries -> RowRecords]
        BY <1>3, <3>1, <4>2, <4>3 DEF RowRecords
      <4>5. rows'[e].status = "running" /\ \A x \in LegacyEntries \ {e} : rows'[x] = rows[x]
        BY <1>3, <3>1, <4>3 DEF RowRecords
      <4> QED
        BY <3>2, <4>4, <4>5 DEF Legacy!Persisted
    <3>3. CASE ~Legacy!Persisted(e)
      BY <2>2, <3>1, <3>3
    <3> QED
      BY <3>2, <3>3
  <2>5. \A x \in LegacyEntries : /\ \A v \in LegacyWorkers \ {w} : Legacy!Holds(v, x)' <=> Legacy!Holds(v, x)
                                 /\ ~Legacy!Holds(w, x) /\ (Legacy!Holds(w, x)' <=> x = e)
    BY <1>2, <1>4, <2>3, CrawlerConstants DEF Legacy!Holds, Legacy!Entry, CrawlerInv
  <2>6. Legacy!TypeOK'
    BY <1>2, <1>3, <1>4, <2>2, <2>3, <2>4 DEF Legacy!TypeOK, CrawlerRecords, RowRecords, Legacy!Unseen
  <2>7. CrawlerInv(w)'
    BY <1>3, <2>1, <2>3, <2>4, CrawlerConstants
    DEF CrawlerInv, Legacy!Discards, Legacy!HoldsAttempt, Legacy!Entry, Legacy!Persisted
  <2>8. \A v \in LegacyWorkers \ {w} : CrawlerInv(v)'
    BY <2>2, <2>3, <2>4, OthersKeep
  <2>9. \A x \in LegacyEntries \ {e} : EntryInv(x)'
    <3>1. \A x \in LegacyEntries \ {e} : Unmoved(x)
      BY <1>2, <1>3, <2>2, <2>4, <2>5 DEF Unmoved
    <3> QED
      BY <3>1, UnmovedKeeps DEF LegacyInv
  <2>10. EntryInv(e)'
    BY <1>2, <1>3, <1>5, <2>5 DEF EntryInv, Nowhere, Legacy!Unseen
  <2> QED
    BY <1>3, <2>6, <2>7, <2>8, <2>9, <2>10 DEF LegacyInv
<1> QED
  BY <1>6, <1>7

LEMMA DiscardKeeps ==
    ASSUME LegacyInv, NEW w \in LegacyWorkers, Legacy!Discard(w)
    PROVE  LegacyInv'
<1>1. /\ crawlers[w].pc \in {"handling", "submitting"} /\ crawlers[w].child = NoEntry /\ Legacy!Discards(w)
      /\ Legacy!Release(w) /\ UNCHANGED <<queue, bus, timers, errors, rows, lost, restarts>>
  BY DEF Legacy!Discard
<1>2. Legacy!TypeOK /\ CrawlerInv(w)
  BY DEF LegacyInv
<1>3. Legacy!TypeOK'
  BY <1>1, <1>2, Released, CrawlerTypes DEF Legacy!TypeOK, CrawlerRecords, Legacy!Unseen
<1>4. \A v \in LegacyWorkers : CrawlerInv(v)'
  BY <1>1, Released, OthersKeep
<1>5. \A x \in LegacyEntries : InQueue(x)' <=> InQueue(x)
  BY <1>1 DEF InQueue
<1>6. ASSUME NEW x \in LegacyEntries PROVE EntryInv(x)'
  <2>1. EntryInv(x)
    BY DEF LegacyInv
  <2>2. Legacy!Holds(w, x) => x \in lost \/ rows[x].status = "none"
    BY <1>1, <1>2, CrawlerConstants DEF CrawlerInv, Legacy!Holds, Legacy!Entry
  <2>3. CASE Legacy!Holds(w, x)
    BY <1>1, <1>5, <2>1, <2>2, <2>3, Released DEF EntryInv, Nowhere, Legacy!Unseen
  <2>4. CASE ~Legacy!Holds(w, x)
    <3>1. Unmoved(x)
      BY <1>1, <1>5, <2>4, Released DEF Unmoved
    <3> QED
      BY <2>1, <3>1, UnmovedKeeps
  <2> QED
    BY <2>3, <2>4
<1> QED
  BY <1>1, <1>3, <1>4, <1>6 DEF LegacyInv

LEMMA HandledKeeps ==
    ASSUME LegacyInv, NEW w \in LegacyWorkers, NEW children \in SUBSET LegacyEntries, Legacy!Handled(w, children)
    PROVE  LegacyInv'
<1>1. /\ crawlers[w].pc = "handling" /\ ~Legacy!Discards(w) /\ \A e \in children : errors[e] = Legacy!Unseen
      /\ crawlers' = [crawlers EXCEPT ![w].pc = "submitting", ![w].todo = children]
      /\ errors' = [e \in LegacyEntries |-> IF e \in children THEN 0 ELSE errors[e]]
      /\ UNCHANGED <<queue, bus, timers, rows, lost, restarts>>
  BY DEF Legacy!Handled, Legacy!At, Legacy!Fresh
<1>2. Legacy!TypeOK /\ CrawlerInv(w) /\ crawlers \in [LegacyWorkers -> CrawlerRecords]
  BY CrawlerTypes DEF LegacyInv
<1>3. \A e \in children : rows[e].status = "none" /\ Nowhere(e)
  BY <1>1 DEF LegacyInv, EntryInv
<1>4. /\ crawlers' \in [LegacyWorkers -> CrawlerRecords]
      /\ \A v \in LegacyWorkers \ {w} : crawlers'[v] = crawlers[v]
      /\ crawlers'[w].pc = "submitting" /\ crawlers'[w].todo = children /\ crawlers'[w].child = NoEntry
      /\ crawlers'[w].entry = crawlers[w].entry /\ crawlers'[w].held = crawlers[w].held
  BY <1>1, <1>2 DEF CrawlerRecords, CrawlerInv
<1>5. \A x \in LegacyEntries :
          /\ InQueue(x)' <=> InQueue(x)
          /\ \A v \in LegacyWorkers \ {w} : Legacy!Holds(v, x)' <=> Legacy!Holds(v, x)
          /\ Legacy!Holds(w, x)' <=> (Legacy!Holds(w, x) \/ x \in children)
  BY <1>1, <1>2, <1>4, CrawlerConstants DEF InQueue, Legacy!Holds, Legacy!Entry, CrawlerInv
<1>6. Legacy!TypeOK'
  <2>1. errors' \in [LegacyEntries -> 0..Legacy!Unseen]
    BY <1>1, <1>2, CrawlerConstants DEF Legacy!TypeOK
  <2> QED
    BY <1>1, <1>2, <1>4, <2>1 DEF Legacy!TypeOK, CrawlerRecords, Legacy!Unseen
<1>7. CrawlerInv(w)'
  <2>1. crawlers[w].entry \in LegacyEntries \ children
    BY <1>1, <1>2, <1>3 DEF CrawlerInv, Nowhere, Legacy!Holds, Legacy!Entry
  <2>2. ~Legacy!Discards(w)'
    BY <1>1, <1>4 DEF Legacy!Discards, Legacy!Persisted, Legacy!HoldsAttempt, Legacy!Entry
  <2> QED
    BY <1>1, <1>3, <1>4, <2>1, <2>2, CrawlerConstants DEF CrawlerInv
<1>8. \A v \in LegacyWorkers \ {w} : CrawlerInv(v)'
  BY <1>1, <1>4, OthersKeep
<1>9. \A x \in LegacyEntries \ children : EntryInv(x)'
  <2>1. \A x \in LegacyEntries \ children : Unmoved(x)
    BY <1>1, <1>5 DEF Unmoved
  <2> QED
    BY <2>1, UnmovedKeeps DEF LegacyInv
<1>10. \A x \in children : EntryInv(x)'
  BY <1>1, <1>3, <1>5, CrawlerConstants DEF EntryInv, Nowhere, Legacy!Unseen
<1> QED
  BY <1>1, <1>6, <1>7, <1>8, <1>9, <1>10 DEF LegacyInv

LEMMA PersistChildKeeps ==
    ASSUME LegacyInv, NEW w \in LegacyWorkers, NEW e \in LegacyEntries, Legacy!PersistChild(w, e)
    PROVE  LegacyInv'
<1>1. /\ crawlers[w].pc = "submitting" /\ crawlers[w].child = NoEntry /\ ~Legacy!Discards(w) /\ e \in crawlers[w].todo
      /\ crawlers' = [crawlers EXCEPT ![w].todo = @ \ {e}, ![w].child = e]
      /\ Legacy!PersistTask({e})
      /\ UNCHANGED <<queue, bus, timers, errors, lost, restarts>>
  BY DEF Legacy!PersistChild, Legacy!At
<1>2. Legacy!TypeOK /\ CrawlerInv(w) /\ EntryInv(e) /\ crawlers \in [LegacyWorkers -> CrawlerRecords]
  BY CrawlerTypes DEF LegacyInv
<1>3. rows' \in [LegacyEntries -> RowRecords] /\ \A x \in LegacyEntries \ {e} : rows'[x] = rows[x]
  BY <1>1, <1>2, PersistedRows
<1>4. /\ crawlers' \in [LegacyWorkers -> CrawlerRecords]
      /\ \A v \in LegacyWorkers \ {w} : crawlers'[v] = crawlers[v]
      /\ crawlers'[w].pc = "submitting" /\ crawlers'[w].todo = crawlers[w].todo \ {e} /\ crawlers'[w].child = e
      /\ crawlers'[w].entry = crawlers[w].entry /\ crawlers'[w].held = crawlers[w].held
  BY <1>1, <1>2 DEF CrawlerRecords
<1>5. \A x \in LegacyEntries, v \in LegacyWorkers : Legacy!Holds(v, x)' <=> Legacy!Holds(v, x)
  BY <1>1, <1>4, CrawlerConstants DEF Legacy!Holds, Legacy!Entry
<1>6. \A x \in LegacyEntries : InQueue(x)' <=> InQueue(x)
  BY <1>1 DEF InQueue
<1>7. Legacy!Holds(w, e) /\ \A v \in LegacyWorkers \ {w} : ~Legacy!Holds(v, e)
  BY <1>1, <1>2 DEF EntryInv, Legacy!Holds
<1>8. Legacy!TypeOK'
  BY <1>1, <1>2, <1>3, <1>4 DEF Legacy!TypeOK, CrawlerRecords, RowRecords, Legacy!Unseen
<1>9. CrawlerInv(w)'
  <2>1. crawlers[w].entry \in LegacyEntries \ {e} /\ crawlers[w].todo \subseteq LegacyEntries
    BY <1>1, <1>2 DEF CrawlerInv, CrawlerRecords
  <2>2. ~Legacy!Discards(w)'
    BY <1>1, <1>3, <1>4, <2>1 DEF Legacy!Discards, Legacy!Persisted, Legacy!HoldsAttempt, Legacy!Entry
  <2>3. \A x \in crawlers'[w].todo : rows'[x].status = "none"
    BY <1>2, <1>3, <1>4, <2>1 DEF CrawlerInv
  <2> QED
    BY <1>2, <1>4, <2>1, <2>2, <2>3 DEF CrawlerInv
<1>10. \A v \in LegacyWorkers \ {w} : CrawlerInv(v)'
  BY <1>1, <1>3, <1>4, <1>7, OthersKeep
<1>11. \A x \in LegacyEntries \ {e} : EntryInv(x)'
  <2>1. \A x \in LegacyEntries \ {e} : Unmoved(x)
    BY <1>1, <1>3, <1>5, <1>6 DEF Unmoved
  <2> QED
    BY <2>1, UnmovedKeeps DEF LegacyInv
<1>12. EntryInv(e)'
  BY <1>1, <1>2, <1>5, <1>6, <1>7 DEF EntryInv, Nowhere, Legacy!Unseen
<1> QED
  BY <1>1, <1>8, <1>9, <1>10, <1>11, <1>12 DEF LegacyInv

LEMMA SubmitChildKeeps ==
    ASSUME LegacyInv, NEW w \in LegacyWorkers, Legacy!SubmitChild(w)
    PROVE  LegacyInv'
<1>1. PICK e : e = crawlers[w].child
  OBVIOUS
<1>2. /\ e # NoEntry /\ Legacy!Send(e)
      /\ IF Legacy!Persisted(e) THEN UNCHANGED rows ELSE Legacy!PersistTask({e})
      /\ crawlers' = [crawlers EXCEPT ![w].child = NoEntry]
      /\ UNCHANGED <<bus, timers, errors, lost, restarts>>
  BY <1>1 DEF Legacy!SubmitChild
<1>3. Legacy!TypeOK /\ CrawlerInv(w) /\ crawlers \in [LegacyWorkers -> CrawlerRecords] /\ e \in LegacyEntries
  BY <1>1, <1>2, CrawlerTypes DEF LegacyInv, CrawlerRecords
<1>4. /\ EntryInv(e) /\ Legacy!Holds(w, e) /\ ~InQueue(e) /\ e \notin timers /\ bus # e /\ errors[e] # Legacy!Unseen
      /\ \A v \in LegacyWorkers \ {w} : ~Legacy!Holds(v, e)
  BY <1>1, <1>3 DEF LegacyInv, EntryInv, Nowhere, Legacy!Holds
<1>5. rows' \in [LegacyEntries -> RowRecords] /\ \A x \in LegacyEntries \ {e} : rows'[x] = rows[x]
  BY <1>2, <1>3, PersistedRows, CrawlerTypes
<1>6. /\ crawlers' \in [LegacyWorkers -> CrawlerRecords]
      /\ \A v \in LegacyWorkers \ {w} : crawlers'[v] = crawlers[v]
      /\ crawlers'[w].child = NoEntry /\ crawlers'[w].pc = crawlers[w].pc /\ crawlers'[w].todo = crawlers[w].todo
      /\ crawlers'[w].entry = crawlers[w].entry /\ crawlers'[w].held = crawlers[w].held
  BY <1>2, <1>3 DEF CrawlerRecords
<1>7. crawlers[w].pc = "submitting" /\ crawlers[w].entry \in LegacyEntries \ {e} /\ e \notin crawlers[w].todo
  BY <1>1, <1>2, <1>3 DEF CrawlerInv, CrawlerRecords
<1>8. \A x \in LegacyEntries :
          /\ \A v \in LegacyWorkers \ {w} : Legacy!Holds(v, x)' <=> Legacy!Holds(v, x)
          /\ Legacy!Holds(w, x)' <=> (Legacy!Holds(w, x) /\ x # e)
  BY <1>1, <1>3, <1>6, <1>7, CrawlerConstants DEF Legacy!Holds, Legacy!Entry
<1>9. /\ queue' \in Seq(LegacyEntries) /\ Len(queue') <= QueueCap
      /\ \A x : InQueue(x)' <=> (x = e \/ InQueue(x))
      /\ \A i, j \in DOMAIN queue' : queue'[i] = queue'[j] => i = j
  BY <1>2, <1>3, <1>4, Sent
<1>10. Legacy!TypeOK'
  BY <1>2, <1>3, <1>5, <1>6, <1>9 DEF Legacy!TypeOK, CrawlerRecords, RowRecords, Legacy!Unseen
<1>11. CrawlerInv(w)'
  <2>1. \A x \in crawlers'[w].todo : rows'[x].status = "none"
    BY <1>3, <1>5, <1>6, <1>7 DEF CrawlerInv, CrawlerRecords
  <2>2. Legacy!Discards(w)' <=> Legacy!Discards(w)
    BY <1>5, <1>6, <1>7 DEF Legacy!Discards, Legacy!Persisted, Legacy!HoldsAttempt, Legacy!Entry
  <2>3. NoEntry \notin crawlers[w].todo
    BY <1>3, CrawlerConstants DEF CrawlerRecords
  <2> QED
    BY <1>2, <1>3, <1>6, <1>7, <2>1, <2>2, <2>3 DEF CrawlerInv
<1>12. \A v \in LegacyWorkers \ {w} : CrawlerInv(v)'
  BY <1>2, <1>4, <1>5, <1>6, OthersKeep
<1>13. \A x \in LegacyEntries \ {e} : EntryInv(x)'
  <2>1. \A x \in LegacyEntries \ {e} : Unmoved(x)
    BY <1>2, <1>5, <1>8, <1>9 DEF Unmoved
  <2> QED
    BY <2>1, UnmovedKeeps DEF LegacyInv
<1>14. EntryInv(e)'
  BY <1>2, <1>3, <1>4, <1>8, <1>9 DEF EntryInv, Nowhere, Legacy!Unseen
<1> QED
  BY <1>9, <1>10, <1>11, <1>12, <1>13, <1>14 DEF LegacyInv

LEMMA SucceedKeeps ==
    ASSUME LegacyInv, NEW w \in LegacyWorkers, Legacy!Succeed(w)
    PROVE  LegacyInv'
<1>1. PICK e : e = crawlers[w].entry
  OBVIOUS
<1>2. /\ crawlers[w].pc = "submitting" /\ crawlers[w].todo = {} /\ crawlers[w].child = NoEntry
      /\ rows' = IF Legacy!Persisted(e) THEN [rows EXCEPT ![e].status = "succeeded"] ELSE rows
      /\ Legacy!Release(w) /\ UNCHANGED <<queue, bus, timers, errors, lost, restarts>>
  BY <1>1 DEF Legacy!Succeed, Legacy!At, Legacy!Entry
<1>3. Legacy!TypeOK /\ CrawlerInv(w) /\ e \in LegacyEntries /\ rows \in [LegacyEntries -> RowRecords]
  BY <1>1, <1>2, CrawlerTypes DEF LegacyInv, CrawlerInv
<1>4. \A x \in LegacyEntries : Legacy!Holds(w, x) <=> x = e
  BY <1>1, <1>2, CrawlerConstants DEF Legacy!Holds, Legacy!Entry
<1>5. EntryInv(e) /\ ~InQueue(e) /\ e \notin timers /\ bus # e /\ errors[e] # Legacy!Unseen
      /\ \A v \in LegacyWorkers \ {w} : ~Legacy!Holds(v, e)
  BY <1>3, <1>4 DEF LegacyInv, EntryInv, Nowhere
<1>6. /\ rows' \in [LegacyEntries -> RowRecords] /\ \A x \in LegacyEntries \ {e} : rows'[x] = rows[x]
      /\ rows'[e].status \in {"none", "succeeded"}
  BY <1>2, <1>3 DEF RowRecords, Legacy!Persisted
<1>7. Legacy!TypeOK'
  BY <1>2, <1>3, <1>6, Released DEF Legacy!TypeOK, CrawlerRecords, RowRecords, Legacy!Unseen
<1>8. \A v \in LegacyWorkers : CrawlerInv(v)'
  BY <1>2, <1>5, <1>6, Released, OthersKeep
<1>9. \A x \in LegacyEntries : InQueue(x)' <=> InQueue(x)
  BY <1>2 DEF InQueue
<1>10. \A x \in LegacyEntries \ {e} : EntryInv(x)'
  <2>1. \A x \in LegacyEntries \ {e} : Unmoved(x)
    BY <1>2, <1>4, <1>6, <1>9, Released DEF Unmoved
  <2> QED
    BY <2>1, UnmovedKeeps DEF LegacyInv
<1>11. EntryInv(e)'
  BY <1>2, <1>3, <1>5, <1>6, <1>9, Released DEF EntryInv, Nowhere, Legacy!Unseen
<1> QED
  BY <1>2, <1>7, <1>8, <1>10, <1>11 DEF LegacyInv

LEMMA FailKeeps ==
    ASSUME LegacyInv, NEW w \in LegacyWorkers, Legacy!Fail(w)
    PROVE  LegacyInv'
<1>1. PICK e : e = crawlers[w].entry
  OBVIOUS
<1>2. /\ crawlers[w].pc = "handling" /\ timers' = Legacy!Scheduled(e)
      /\ rows' = IF ~Legacy!Persisted(e) THEN rows
                 ELSE [rows EXCEPT ![e].status = IF Legacy!WillRetry(e) THEN "queued" ELSE "dead",
                                   ![e].due = ~Legacy!WillRetry(e)]
      /\ errors' = [errors EXCEPT ![e] = IF @ < MaxTaskErrorNum THEN @ + 1 ELSE @]
      /\ crawlers' = [crawlers EXCEPT ![w] = [Legacy!FreeWorker EXCEPT
                         !.pc = Legacy!NextStep(w, e), !.entry = IF Legacy!NextStep(w, e) = "idle" THEN NoEntry ELSE e]]
      /\ UNCHANGED <<queue, bus, lost, restarts>>
  BY <1>1 DEF Legacy!Fail, Legacy!At, Legacy!Entry
<1>3. /\ Legacy!TypeOK /\ CrawlerInv(w) /\ e \in LegacyEntries
      /\ rows \in [LegacyEntries -> RowRecords] /\ crawlers \in [LegacyWorkers -> CrawlerRecords]
      /\ errors \in [LegacyEntries -> 0..Legacy!Unseen]
  BY <1>1, <1>2, CrawlerTypes DEF LegacyInv, CrawlerInv
<1>4. \A x \in LegacyEntries : Legacy!Holds(w, x) <=> x = e
  BY <1>1, <1>2, <1>3, CrawlerConstants DEF Legacy!Holds, Legacy!Entry, CrawlerInv
<1>5. EntryInv(e) /\ ~InQueue(e) /\ e \notin timers /\ bus # e /\ errors[e] # Legacy!Unseen
      /\ \A v \in LegacyWorkers \ {w} : ~Legacy!Holds(v, e)
  BY <1>3, <1>4 DEF LegacyInv, EntryInv, Nowhere
<1>6. /\ rows' \in [LegacyEntries -> RowRecords] /\ \A x \in LegacyEntries \ {e} : rows'[x] = rows[x]
      /\ rows'[e].status = "none" <=> rows[e].status = "none"
      /\ rows'[e].status \in {"queued", "running"} => Legacy!Persisted(e) /\ Legacy!WillRetry(e)
  <2>1. CASE ~Legacy!Persisted(e)
    BY <1>2, <1>3, <2>1 DEF Legacy!Persisted
  <2>2. CASE Legacy!Persisted(e) /\ Legacy!WillRetry(e)
    <3>1. rows' = [rows EXCEPT ![e].status = "queued", ![e].due = FALSE]
      BY <1>2, <2>2, Zenon
    <3> QED
      BY <1>3, <2>2, <3>1 DEF RowRecords, Legacy!Persisted
  <2>3. CASE Legacy!Persisted(e) /\ ~Legacy!WillRetry(e)
    <3>1. rows' = [rows EXCEPT ![e].status = "dead", ![e].due = TRUE]
      BY <1>2, <2>3, Zenon
    <3> QED
      BY <1>3, <2>3, <3>1 DEF RowRecords, Legacy!Persisted
  <2> QED
    BY <2>1, <2>2, <2>3
<1>7. /\ errors' \in [LegacyEntries -> 0..Legacy!Unseen] /\ errors'[e] # Legacy!Unseen
      /\ \A x \in LegacyEntries \ {e} : errors'[x] = errors[x]
  BY <1>2, <1>3, <1>5, CrawlerConstants
<1>8. /\ timers' \subseteq LegacyEntries /\ \A x \in LegacyEntries \ {e} : x \in timers' <=> x \in timers
      /\ Legacy!Persisted(e) /\ Legacy!WillRetry(e) => e \in timers'
      /\ ~Legacy!Persisted(e) => e \notin timers'
  BY <1>2, <1>3, <1>5 DEF Legacy!Scheduled, Legacy!TypeOK
<1>9. /\ crawlers' \in [LegacyWorkers -> CrawlerRecords]
      /\ \A v \in LegacyWorkers \ {w} : crawlers'[v] = crawlers[v]
      /\ crawlers'[w].todo = {} /\ crawlers'[w].child = NoEntry
      /\ \/ crawlers'[w].pc = "idle" /\ crawlers'[w].entry = NoEntry
         \/ ~Legacy!Persisted(e) /\ crawlers'[w].pc = "resubmitting" /\ crawlers'[w].entry = e
  <2>1. Legacy!NextStep(w, e) \in {"idle", "resubmitting"} /\ (Legacy!NextStep(w, e) # "idle" => ~Legacy!Persisted(e))
    BY DEF Legacy!NextStep
  <2>2. PICK pc \in {"idle", "resubmitting"} : pc = Legacy!NextStep(w, e)
    BY <2>1
  <2>3. PICK x \in LegacyEntries \union {NoEntry} : x = IF pc = "idle" THEN NoEntry ELSE e
    BY <1>3
  <2>4. crawlers' = [crawlers EXCEPT ![w] = [Legacy!FreeWorker EXCEPT !.pc = pc, !.entry = x]]
    BY <1>2, <2>2, <2>3
  <2>5. Legacy!FreeWorker \in CrawlerRecords
    BY DEF Legacy!FreeWorker, CrawlerRecords
  <2>6. Legacy!FreeWorker.todo = {} /\ Legacy!FreeWorker.child = NoEntry
    BY DEF Legacy!FreeWorker
  <2> QED
    BY <1>3, <2>1, <2>2, <2>3, <2>4, <2>5, <2>6 DEF CrawlerRecords
<1>10. \A x \in LegacyEntries :
          /\ InQueue(x)' <=> InQueue(x)
          /\ \A v \in LegacyWorkers \ {w} : Legacy!Holds(v, x)' <=> Legacy!Holds(v, x)
          /\ Legacy!Holds(w, x)' => x = e /\ ~Legacy!Persisted(e)
  BY <1>2, <1>9, CrawlerConstants DEF InQueue, Legacy!Holds, Legacy!Entry
<1>11. Legacy!TypeOK'
  BY <1>2, <1>3, <1>6, <1>7, <1>8, <1>9 DEF Legacy!TypeOK, CrawlerRecords, RowRecords, Legacy!Unseen
<1>12. CrawlerInv(w)'
  BY <1>3, <1>9, CrawlerConstants DEF CrawlerInv, Legacy!FreeWorker
<1>13. \A v \in LegacyWorkers \ {w} : CrawlerInv(v)'
  BY <1>2, <1>5, <1>6, <1>9, OthersKeep
<1>14. \A x \in LegacyEntries \ {e} : EntryInv(x)'
  <2>1. \A x \in LegacyEntries \ {e} : Unmoved(x)
    BY <1>2, <1>4, <1>6, <1>7, <1>8, <1>10 DEF Unmoved
  <2> QED
    BY <2>1, UnmovedKeeps DEF LegacyInv
<1>15. EntryInv(e)'
  BY <1>2, <1>3, <1>5, <1>6, <1>7, <1>8, <1>10 DEF EntryInv, Nowhere, Legacy!Unseen
<1> QED
  BY <1>2, <1>11, <1>12, <1>13, <1>14, <1>15 DEF LegacyInv

LEMMA ResubmitKeeps ==
    ASSUME LegacyInv, NEW w \in LegacyWorkers, Legacy!Resubmit(w)
    PROVE  LegacyInv'
<1>1. PICK e : e = crawlers[w].entry
  OBVIOUS
<1>2. /\ crawlers[w].pc = "resubmitting" /\ Legacy!Send(e) /\ Legacy!Release(w)
      /\ IF Legacy!Persisted(e) THEN UNCHANGED rows ELSE Legacy!PersistTask({e})
      /\ UNCHANGED <<bus, timers, errors, lost, restarts>>
  BY <1>1 DEF Legacy!Resubmit, Legacy!At, Legacy!Entry
<1>3. Legacy!TypeOK /\ CrawlerInv(w) /\ e \in LegacyEntries
  BY <1>1, <1>2 DEF LegacyInv, CrawlerInv
<1>4. \A x \in LegacyEntries : Legacy!Holds(w, x) <=> x = e
  BY <1>1, <1>2, <1>3, CrawlerConstants DEF Legacy!Holds, Legacy!Entry, CrawlerInv
<1>5. EntryInv(e) /\ ~InQueue(e) /\ e \notin timers /\ bus # e /\ errors[e] # Legacy!Unseen
      /\ \A v \in LegacyWorkers \ {w} : ~Legacy!Holds(v, e)
  BY <1>3, <1>4 DEF LegacyInv, EntryInv, Nowhere
<1>6. rows' \in [LegacyEntries -> RowRecords] /\ \A x \in LegacyEntries \ {e} : rows'[x] = rows[x]
  BY <1>2, <1>3, PersistedRows, CrawlerTypes
<1>7. /\ queue' \in Seq(LegacyEntries) /\ Len(queue') <= QueueCap
      /\ \A x : InQueue(x)' <=> (x = e \/ InQueue(x))
      /\ \A i, j \in DOMAIN queue' : queue'[i] = queue'[j] => i = j
  BY <1>2, <1>3, <1>5, Sent
<1>8. Legacy!TypeOK'
  BY <1>2, <1>3, <1>6, <1>7, Released DEF Legacy!TypeOK, CrawlerRecords, RowRecords, Legacy!Unseen
<1>9. \A v \in LegacyWorkers : CrawlerInv(v)'
  BY <1>2, <1>5, <1>6, Released, OthersKeep
<1>10. \A x \in LegacyEntries \ {e} : EntryInv(x)'
  <2>1. \A x \in LegacyEntries \ {e} : Unmoved(x)
    BY <1>2, <1>4, <1>6, <1>7, Released DEF Unmoved
  <2> QED
    BY <2>1, UnmovedKeeps DEF LegacyInv
<1>11. EntryInv(e)'
  BY <1>2, <1>3, <1>5, <1>7, Released DEF EntryInv, Nowhere, Legacy!Unseen
<1> QED
  BY <1>7, <1>8, <1>9, <1>10, <1>11 DEF LegacyInv

LEMMA TimerFiresKeeps ==
    ASSUME LegacyInv, NEW e \in LegacyEntries, Legacy!TimerFires(e)
    PROVE  LegacyInv'
<1>1. /\ e \in timers /\ Legacy!Send(e) /\ timers' = timers \ {e}
      /\ UNCHANGED <<bus, crawlers, errors, rows, lost, restarts>>
  BY DEF Legacy!TimerFires
<1>2. Legacy!TypeOK /\ EntryInv(e) /\ ~InQueue(e) /\ bus # e /\ errors[e] # Legacy!Unseen
      /\ \A v \in LegacyWorkers : ~Legacy!Holds(v, e)
  BY <1>1 DEF LegacyInv, EntryInv, Nowhere
<1>3. /\ queue' \in Seq(LegacyEntries) /\ Len(queue') <= QueueCap
      /\ \A x : InQueue(x)' <=> (x = e \/ InQueue(x))
      /\ \A i, j \in DOMAIN queue' : queue'[i] = queue'[j] => i = j
  BY <1>1, <1>2, Sent
<1>4. \A x \in LegacyEntries, w \in LegacyWorkers : Legacy!Holds(w, x)' <=> Legacy!Holds(w, x)
  BY <1>1 DEF Legacy!Holds, Legacy!Entry
<1>5. Legacy!TypeOK'
  BY <1>1, <1>2, <1>3 DEF Legacy!TypeOK, Legacy!Unseen
<1>6. \A w \in LegacyWorkers : CrawlerInv(w)'
  BY <1>1, OthersKeep
<1>7. \A x \in LegacyEntries \ {e} : EntryInv(x)'
  <2>1. \A x \in LegacyEntries \ {e} : Unmoved(x)
    BY <1>1, <1>3, <1>4 DEF Unmoved
  <2> QED
    BY <2>1, UnmovedKeeps DEF LegacyInv
<1>8. EntryInv(e)'
  BY <1>1, <1>2, <1>3, <1>4 DEF EntryInv, Nowhere, Legacy!Unseen
<1> QED
  BY <1>3, <1>5, <1>6, <1>7, <1>8 DEF LegacyInv

(* What happens to a row in the database alone: its entry stays where it   *)
(* is, or is lost.                                                         *)
LEMMA RowMoves ==
    ASSUME LegacyInv, NEW e \in LegacyEntries, NEW r \in RowRecords, rows' = [rows EXCEPT ![e] = r],
           UNCHANGED <<queue, bus, timers, errors, restarts>>,
           crawlers' \in [LegacyWorkers -> CrawlerRecords],
           \A w \in LegacyWorkers : \A x \in LegacyEntries : Legacy!Holds(w, x)' <=> Legacy!Holds(w, x),
           \A w \in LegacyWorkers : CrawlerInv(w)',
           rows[e].status # "none",
           (lost' = lost /\ rows[e].status \in {"queued", "running"}) \/ lost' = lost \union {e}
    PROVE  LegacyInv'
<1>1. rows \in [LegacyEntries -> RowRecords] /\ Legacy!TypeOK /\ EntryInv(e)
  BY CrawlerTypes DEF LegacyInv
<1>2. /\ rows' \in [LegacyEntries -> RowRecords] /\ rows'[e] = r
      /\ \A x \in LegacyEntries \ {e} : rows'[x] = rows[x]
  BY <1>1
<1>3. \A x \in LegacyEntries : InQueue(x)' <=> InQueue(x)
  BY DEF InQueue
<1>4. Legacy!TypeOK'
  <2>1. lost' \subseteq LegacyEntries
    BY <1>1 DEF Legacy!TypeOK
  <2> QED
    BY <1>1, <1>2, <2>1 DEF Legacy!TypeOK, CrawlerRecords, RowRecords, Legacy!Unseen
<1>5. \A x \in LegacyEntries \ {e} : EntryInv(x)'
  <2>1. \A x \in LegacyEntries \ {e} : Unmoved(x)
    BY <1>2, <1>3 DEF Unmoved
  <2> QED
    BY <2>1, UnmovedKeeps DEF LegacyInv
<1>6. EntryInv(e)'
  BY <1>1, <1>3 DEF EntryInv, Nowhere, Legacy!Unseen
<1> QED
  BY <1>4, <1>5, <1>6 DEF LegacyInv

LEMMA RetryDueKeeps ==
    ASSUME LegacyInv, NEW e \in LegacyEntries, Legacy!RetryDue(e)
    PROVE  LegacyInv'
<1>1. /\ rows[e].status = "queued" /\ rows' = [rows EXCEPT ![e].due = TRUE]
      /\ UNCHANGED <<queue, bus, crawlers, timers, errors, lost, restarts>>
  BY DEF Legacy!RetryDue
<1>2. rows \in [LegacyEntries -> RowRecords] /\ crawlers \in [LegacyWorkers -> CrawlerRecords]
  BY CrawlerTypes DEF LegacyInv
<1>3. PICK r : r = [rows[e] EXCEPT !.due = TRUE]
  OBVIOUS
<1>4. r \in RowRecords /\ r.status = "queued" /\ rows' = [rows EXCEPT ![e] = r]
  BY <1>1, <1>2, <1>3 DEF RowRecords
<1>5. \A x \in LegacyEntries, w \in LegacyWorkers : Legacy!Holds(w, x)' <=> Legacy!Holds(w, x)
  BY <1>1 DEF Legacy!Holds, Legacy!Entry
<1>6. \A w \in LegacyWorkers : CrawlerInv(w)'
  BY <1>1, <1>2, <1>4, OthersKeep
<1> QED
  BY <1>1, <1>2, <1>4, <1>5, <1>6, RowMoves

LEMMA OperatorRetriesKeeps ==
    ASSUME LegacyInv, NEW e \in LegacyEntries, Legacy!OperatorRetries(e)
    PROVE  LegacyInv'
<1>1. /\ rows[e].status = "dead" /\ rows' = [rows EXCEPT ![e].status = "queued", ![e].due = TRUE]
      /\ lost' = lost \union {e}
      /\ UNCHANGED <<queue, bus, crawlers, timers, errors, restarts>>
  BY DEF Legacy!OperatorRetries
<1>2. rows \in [LegacyEntries -> RowRecords] /\ crawlers \in [LegacyWorkers -> CrawlerRecords]
  BY CrawlerTypes DEF LegacyInv
<1>3. PICK r : r = [rows[e] EXCEPT !.status = "queued", !.due = TRUE]
  OBVIOUS
<1>4. r \in RowRecords /\ r.status = "queued" /\ rows' = [rows EXCEPT ![e] = r]
  BY <1>1, <1>2, <1>3 DEF RowRecords
<1>5. \A x \in LegacyEntries, w \in LegacyWorkers : Legacy!Holds(w, x)' <=> Legacy!Holds(w, x)
  BY <1>1 DEF Legacy!Holds, Legacy!Entry
<1>6. \A w \in LegacyWorkers : CrawlerInv(w)'
  BY <1>1, <1>2, <1>4, OthersKeep
<1> QED
  BY <1>1, <1>2, <1>4, <1>5, <1>6, RowMoves

LEMMA LeaseExpiresKeeps ==
    ASSUME LegacyInv, NEW e \in LegacyEntries, Legacy!LeaseExpires(e)
    PROVE  LegacyInv'
<1>1. rows[e].status = "running" /\ lost' = lost \union {e} /\ UNCHANGED <<queue, bus, timers, errors, restarts>>
  BY DEF Legacy!LeaseExpires
<1>2. /\ rows' = [rows EXCEPT ![e].status = IF rows[e].attempts < MaxTaskErrorNum THEN "queued" ELSE "dead",
                              ![e].due = TRUE]
      /\ crawlers' = [w \in LegacyWorkers |->
                         IF crawlers[w].entry = e THEN [crawlers[w] EXCEPT !.held = FALSE] ELSE crawlers[w]]
  BY DEF Legacy!LeaseExpires, Legacy!Entry
<1>3. rows \in [LegacyEntries -> RowRecords] /\ crawlers \in [LegacyWorkers -> CrawlerRecords]
  BY CrawlerTypes DEF LegacyInv
<1>4. PICK s \in {"queued", "dead"} : s = IF rows[e].attempts < MaxTaskErrorNum THEN "queued" ELSE "dead"
  OBVIOUS
<1>5. PICK r : r = [rows[e] EXCEPT !.status = s, !.due = TRUE]
  OBVIOUS
<1>6. r \in RowRecords /\ r.status # "none" /\ rows' = [rows EXCEPT ![e] = r]
  BY <1>1, <1>2, <1>3, <1>4, <1>5 DEF RowRecords
<1>7. /\ crawlers' \in [LegacyWorkers -> CrawlerRecords]
      /\ \A w \in LegacyWorkers : crawlers'[w].pc = crawlers[w].pc /\ crawlers'[w].entry = crawlers[w].entry
             /\ crawlers'[w].todo = crawlers[w].todo /\ crawlers'[w].child = crawlers[w].child
             /\ (crawlers[w].entry # e => crawlers'[w] = crawlers[w])
  BY <1>2, <1>3 DEF CrawlerRecords
<1>8. \A x \in LegacyEntries, w \in LegacyWorkers : Legacy!Holds(w, x)' <=> Legacy!Holds(w, x)
  BY <1>7 DEF Legacy!Holds, Legacy!Entry
<1>9. ASSUME NEW w \in LegacyWorkers PROVE CrawlerInv(w)'
  <2>1. rows'[e].status # "none" /\ \A x \in LegacyEntries \ {e} : rows'[x] = rows[x]
    BY <1>3, <1>6
  <2>2. CASE crawlers[w].entry # e
    BY <1>1, <1>7, <2>1, <2>2, OthersKeep
  <2>3. CASE crawlers[w].entry = e
    <3>1. CrawlerInv(w) /\ crawlers[w].pc # "idle" /\ crawlers[w].todo \subseteq LegacyEntries \ {e}
      BY <1>3, <2>3, CrawlerConstants DEF LegacyInv, CrawlerInv, CrawlerRecords, Legacy!FreeWorker
    <3>2. \A x \in crawlers'[w].todo : rows'[x].status = "none"
      BY <1>7, <2>1, <3>1 DEF CrawlerInv
    <3>3. crawlers'[w].entry \in lost'
      BY <1>1, <1>7, <2>3
    <3> QED
      BY <1>7, <3>1, <3>2, <3>3 DEF CrawlerInv
  <2> QED
    BY <2>2, <2>3
<1> QED
  BY <1>1, <1>3, <1>6, <1>7, <1>8, <1>9, RowMoves

LEMMA RestartKeeps ==
    ASSUME LegacyInv, Legacy!Restart
    PROVE  LegacyInv'
<1>1. /\ restarts < RestartCap /\ restarts' = restarts + 1
      /\ lost' = lost \union {e \in LegacyEntries : Legacy!InMemory(e)}
      /\ queue' = <<>> /\ bus' = NoEntry /\ timers' = {}
      /\ crawlers' = [w \in LegacyWorkers |-> Legacy!FreeWorker]
      /\ UNCHANGED <<errors, rows>>
  BY DEF Legacy!Restart
<1>2. Legacy!TypeOK
  BY DEF LegacyInv
<1>3. Legacy!TypeOK'
  BY <1>1, <1>2, CrawlerConstants DEF Legacy!TypeOK, Legacy!FreeWorker, Legacy!Unseen
<1>4. \A w \in LegacyWorkers : CrawlerInv(w)'
  BY <1>1 DEF CrawlerInv, Legacy!FreeWorker
<1>5. \A e \in LegacyEntries : Nowhere(e)'
  BY <1>1, CrawlerConstants DEF Nowhere, InQueue, Legacy!Holds, Legacy!Entry, Legacy!FreeWorker
<1>6. \A e \in LegacyEntries : Legacy!InMemory(e) \/ Nowhere(e)
  BY DEF Legacy!InMemory, Nowhere, InQueue, Legacy!ToSet
<1>7. ASSUME NEW e \in LegacyEntries PROVE EntryInv(e)'
  <2>1. EntryInv(e)
    BY DEF LegacyInv
  <2> QED
    BY <1>1, <1>5, <1>6, <2>1 DEF EntryInv, Nowhere, Legacy!Unseen
<1> QED
  BY <1>1, <1>3, <1>4, <1>7 DEF LegacyInv

LEMMA LegacyStepKeeps == LegacyInv /\ [Legacy!Next]_legacyVars => LegacyInv'
<1> SUFFICES ASSUME LegacyInv, [Legacy!Next]_legacyVars PROVE LegacyInv'
  OBVIOUS
<1>1. CASE UNCHANGED legacyVars
  <2>1. UNCHANGED <<queue, bus, crawlers, timers, errors, rows, lost, restarts>>
    BY <1>1 DEF legacyVars
  <2>2. \A x \in LegacyEntries : /\ InQueue(x)' <=> InQueue(x)
                                 /\ \A w \in LegacyWorkers : Legacy!Holds(w, x)' <=> Legacy!Holds(w, x)
    BY <2>1 DEF InQueue, Legacy!Holds, Legacy!Entry
  <2>3. \A w \in LegacyWorkers : CrawlerInv(w)'
    BY <2>1, OthersKeep
  <2>4. \A x \in LegacyEntries : EntryInv(x)'
    BY <2>1, <2>2, UnmovedKeeps DEF Unmoved, LegacyInv
  <2>5. Legacy!TypeOK'
    BY <2>1 DEF LegacyInv, Legacy!TypeOK, Legacy!Unseen
  <2> QED
    BY <2>1, <2>3, <2>4, <2>5 DEF LegacyInv
<1>2. CASE \E e \in LegacyEntries : \/ Legacy!Publish(e) \/ Legacy!TimerFires(e) \/ Legacy!RetryDue(e)
                                    \/ Legacy!LeaseExpires(e) \/ Legacy!OperatorRetries(e)
  BY <1>2, PublishKeeps, TimerFiresKeeps, RetryDueKeeps, LeaseExpiresKeeps, OperatorRetriesKeeps
<1>3. CASE Legacy!Submit \/ Legacy!Restart
  BY <1>3, SubmitKeeps, RestartKeeps
<1>4. CASE \E w \in LegacyWorkers : \/ Legacy!Take(w) \/ Legacy!Discard(w) \/ Legacy!SubmitChild(w)
                                    \/ Legacy!Succeed(w) \/ Legacy!Fail(w) \/ Legacy!Resubmit(w)
  BY <1>4, TakeKeeps, DiscardKeeps, SubmitChildKeeps, SucceedKeeps, FailKeeps, ResubmitKeeps
<1>5. CASE \E w \in LegacyWorkers, children \in SUBSET LegacyEntries : Legacy!Handled(w, children)
  BY <1>5, HandledKeeps
<1>6. CASE \E w \in LegacyWorkers, e \in LegacyEntries : Legacy!PersistChild(w, e)
  BY <1>6, PersistChildKeeps
<1> QED
  BY <1>1, <1>2, <1>3, <1>4, <1>5, <1>6 DEF Legacy!Next

LEMMA LegacyInvSuffices == LegacyInv => HeldOnce /\ WaitingIsHeld
<1> SUFFICES ASSUME LegacyInv PROVE HeldOnce /\ WaitingIsHeld
  OBVIOUS
<1>1. Legacy!TypeOK /\ \A e \in LegacyEntries : EntryInv(e)
  BY DEF LegacyInv
<1>2. ASSUME NEW e \in LegacyEntries
      PROVE  LET at == {w \in LegacyWorkers : Legacy!Holds(w, e)}
                 places == {i \in DOMAIN queue : queue[i] = e}
             IN  /\ \A x, y \in at : x = y
                 /\ \A i, j \in places : i = j
                 /\ (at # {}) => (places = {} /\ e \notin timers /\ bus # e)
                 /\ (places # {}) => (e \notin timers /\ bus # e)
  <2>1. EntryInv(e) /\ \A i, j \in DOMAIN queue : queue[i] = queue[j] => i = j
    BY DEF LegacyInv
  <2> QED
    BY <2>1 DEF EntryInv, InQueue
<1>3. Legacy!HeldOnce
  BY <1>2 DEF Legacy!HeldOnce
<1>4. \A e \in LegacyEntries : Nowhere(e) \/ Legacy!InMemory(e)
  BY DEF Nowhere, InQueue, Legacy!InMemory, Legacy!ToSet
<1>5. Legacy!WaitingIsHeld
  BY <1>1, <1>4 DEF Legacy!WaitingIsHeld, EntryInv
<1> QED
  BY <1>1, <1>3, <1>5 DEF HeldOnce, WaitingIsHeld

(* For any number of workers, entries, failures and restarts, and any size *)
(* of the channel: an entry is in one place, so no worker handles what     *)
(* another handles or what still waits, and a row that waits has its entry *)
(* in memory unless it was lost (worker.go:58-124, engine.go:94-170).      *)
THEOREM LegacyHeldOnce == Legacy!Spec => [](Legacy!TypeOK /\ Legacy!HeldOnce /\ Legacy!WaitingIsHeld)
<1>1. LegacyInv => Legacy!TypeOK /\ Legacy!HeldOnce /\ Legacy!WaitingIsHeld
  BY LegacyInvSuffices DEF HeldOnce, WaitingIsHeld
<1>2. LegacyInv /\ [Legacy!Next]_Legacy!vars => LegacyInv'
  BY LegacyStepKeeps DEF Legacy!vars, legacyVars
<1> QED
  BY <1>1, <1>2, LegacyInitial, PTL DEF Legacy!Spec

LEMMA BackgroundStepsLegacy == BackgroundNext => [Legacy!Next]_legacyVars
<1>1. \A p : p # "legacy" /\ In(p) => UNCHANGED legacyVars
  BY DEF In
<1>2. PluginStep => UNCHANGED legacyVars
  BY <1>1 DEF PluginStep
<1>3. PluginLiveStep => UNCHANGED legacyVars
  BY <1>1 DEF PluginLiveStep
<1>4. Aria2Step => UNCHANGED legacyVars
  BY <1>1 DEF Aria2Step
<1>5. StartupStep => UNCHANGED legacyVars
  BY <1>1 DEF StartupStep
<1>6. LegacyStep => Legacy!Next
  BY DEF LegacyStep, Legacy!Next
<1> QED
  BY <1>2, <1>3, <1>4, <1>5, <1>6 DEF BackgroundNext

LEMMA BackgroundLegacyInv == BackgroundSpec => []LegacyInv
<1>1. BackgroundInit => LegacyInv
  BY LegacyInitial DEF BackgroundInit
<1>2. LegacyInv /\ [BackgroundNext]_backgroundVars => LegacyInv'
  BY LegacyStepKeeps, BackgroundStepsLegacy DEF backgroundVars, legacyVars
<1> QED
  BY <1>1, <1>2, PTL DEF BackgroundSpec

(* The same of the background loops as they run together: an entry of the  *)
(* legacy crawler is in memory once (engine.go:147-170).                   *)
THEOREM BackgroundHeldOnce == BackgroundSpec => []HeldOnce
  BY BackgroundLegacyInv, LegacyInvSuffices, PTL

(* And a row of theirs that waits is held, unless it was lost by a timer   *)
(* before its retry time, a lease, an operator or a restart                *)
(* (worker.go:58-124, engine.go:94-170).                                   *)
THEOREM BackgroundWaitingIsHeld == BackgroundSpec => []WaitingIsHeld
  BY BackgroundLegacyInv, LegacyInvSuffices, PTL

-----------------------------------------------------------------------------
(* The start of the processes.                                             *)
ProcessRecords == [pc : {"down", "lock", "check", "exec", "record", "serve", "stopping"},
                   at : Nat, ok : BOOLEAN, signal : BOOLEAN, boots : 0..BootCap]

ServiceStates == {"new", "starting", "running", "ending", "ended", "failed"}

Schema == {v \in Starting!Versions : migrates[v] = "success" /\ effect[v] = "whole"}

Migrating(p) == process[p].pc \in {"check", "exec", "record"}

(* The one process that holds the lock has passed what succeeded before it *)
(* and migrates a version that has not; one that serves has its versions.  *)
StartInv(p) ==
    /\ Migrating(p) <=> lock = p
    /\ process[p].pc = "check" => process[p].at \in 1..Needs[p] + 1
    /\ process[p].pc \in {"exec", "record"} => process[p].at \in 1..Needs[p] /\ migrates[process[p].at] # "success"
    /\ Migrating(p) => 1..process[p].at - 1 \subseteq Schema
    /\ process[p].pc = "record" /\ process[p].ok => effect[process[p].at] = "whole"
    /\ process[p].pc \in {"serve", "stopping"} => 1..Needs[p] \subseteq Schema
    /\ process[p].pc \notin {"serve", "stopping"} => \A s \in Services : services[p][s] = "new"

StartupInv ==
    /\ Starting!TypeOK
    /\ \A v \in Starting!Versions : migrates[v] = "success" => effect[v] = "whole"
    /\ \E k \in Nat : Schema = 1..k
    /\ \A p \in Releases : StartInv(p)

LEMMA StartupTypes ==
    Starting!TypeOK <=>
        /\ migrates \in [Starting!Versions -> {"none", "failed", "success"}]
        /\ effect \in [Starting!Versions -> {"none", "partly", "whole"}]
        /\ lock \in Releases \union {Nobody}
        /\ process \in [Releases -> ProcessRecords]
        /\ services \in [Releases -> [Services -> {"new", "starting", "running", "ending", "ended", "failed"}]]
        /\ stops \in [Releases -> [Services -> {"none", "waits", "done"}]]
  BY DEF Starting!TypeOK, ProcessRecords

LEMMA StartupConstants ==
    /\ Needs \in [Releases -> Nat] /\ Nobody \notin Releases /\ BootCap \in Nat
    /\ Starting!Versions \subseteq Nat /\ \A p \in Releases : 1..Needs[p] \subseteq Starting!Versions
  BY StartupAssumed DEF Starting!StartupAssumption, Starting!Versions

LEMMA StartupInitial == Starting!Init => StartupInv
<1> SUFFICES ASSUME Starting!Init PROVE StartupInv
  OBVIOUS
<1> USE StartupConstants DEF Starting!Init, Starting!Down, Starting!All
<1>1. Starting!TypeOK
  BY DEF Starting!TypeOK
<1>2. \A v \in Starting!Versions : migrates[v] = "none"
  OBVIOUS
<1>3. Schema = {} /\ 1..0 = {}
  BY <1>2 DEF Schema
<1>4. \A p \in Releases : StartInv(p)
  BY DEF StartInv, Migrating
<1> QED
  BY <1>1, <1>2, <1>3, <1>4 DEF StartupInv

(* A process that a step of another leaves alone.                          *)
LEMMA OtherProcess ==
    ASSUME NEW p \in Releases, StartInv(p), process'[p] = process[p], services'[p] = services[p],
           lock' = p <=> lock = p, Schema \subseteq Schema', lock = p => UNCHANGED <<migrates, effect>>
    PROVE  StartInv(p)'
<1>1. Migrating(p)' <=> Migrating(p)
  BY DEF Migrating
<1>2. process[p].pc \in {"exec", "record"} => lock = p
  BY DEF StartInv, Migrating
<1> QED
  BY <1>1, <1>2 DEF StartInv

LEMMA GoneKeeps ==
    ASSUME StartupInv, NEW p \in Releases, Starting!Gone(p), Schema \subseteq Schema',
           lock # p => UNCHANGED <<migrates, effect>>, lock = p => lock' = Nobody
    PROVE  /\ \A q \in Releases : StartInv(q)'
           /\ process' \in [Releases -> ProcessRecords] /\ lock' \in Releases \union {Nobody}
           /\ services' \in [Releases -> [Services -> {"new", "starting", "running", "ending", "ended", "failed"}]]
           /\ stops' \in [Releases -> [Services -> {"none", "waits", "done"}]]
           /\ Starting!Working' = Starting!Working \ {p}
<1>1. /\ process' = [process EXCEPT ![p] = Starting!Down(@.boots)] /\ lock' = IF lock = p THEN Nobody ELSE lock
      /\ services' = [services EXCEPT ![p] = [s \in Services |-> "new"]]
      /\ stops' = [stops EXCEPT ![p] = [s \in Services |-> "none"]]
  BY DEF Starting!Gone, Starting!All
<1>2. /\ process \in [Releases -> ProcessRecords] /\ lock \in Releases \union {Nobody}
      /\ services \in [Releases -> [Services -> {"new", "starting", "running", "ending", "ended", "failed"}]]
      /\ stops \in [Releases -> [Services -> {"none", "waits", "done"}]]
  BY StartupTypes DEF StartupInv
<1>3. Starting!Down(process[p].boots) \in ProcessRecords /\ Starting!Down(process[p].boots).pc = "down"
  BY <1>2 DEF Starting!Down, ProcessRecords
<1>4. /\ process' \in [Releases -> ProcessRecords] /\ process'[p].pc = "down"
      /\ \A q \in Releases \ {p} : process'[q] = process[q]
  BY <1>1, <1>2, <1>3
<1>5. /\ services' \in [Releases -> [Services -> {"new", "starting", "running", "ending", "ended", "failed"}]]
      /\ services'[p] = [s \in Services |-> "new"] /\ \A q \in Releases \ {p} : services'[q] = services[q]
  BY <1>1, <1>2
<1>6. /\ stops' \in [Releases -> [Services -> {"none", "waits", "done"}]]
  BY <1>1, <1>2
<1>7. lock' \in Releases \union {Nobody} /\ lock' # p /\ \A q \in Releases \ {p} : lock' = q <=> lock = q
  BY <1>1, <1>2, StartupConstants
<1>8. StartInv(p)'
  BY <1>4, <1>5, <1>7 DEF StartInv, Migrating
<1>9. \A q \in Releases \ {p} : StartInv(q)'
  BY <1>4, <1>5, <1>7, OtherProcess DEF StartupInv
<1>10. Starting!Working' = Starting!Working \ {p}
  BY <1>5 DEF Starting!Working
<1> QED
  BY <1>4, <1>5, <1>6, <1>7, <1>8, <1>9, <1>10

LEMMA DiesKeeps ==
    ASSUME StartupInv, NEW p \in Releases, Starting!Dies(p)
    PROVE  StartupInv' /\ Schema' = Schema /\ Starting!Working' = Starting!Working \ {p}
<1>1. Starting!Gone(p) /\ UNCHANGED <<migrates, effect>>
  BY DEF Starting!Dies
<1>2. Schema' = Schema
  BY <1>1 DEF Schema
<1>3. /\ \A q \in Releases : StartInv(q)'
      /\ process' \in [Releases -> ProcessRecords] /\ lock' \in Releases \union {Nobody}
      /\ services' \in [Releases -> [Services -> {"new", "starting", "running", "ending", "ended", "failed"}]]
      /\ stops' \in [Releases -> [Services -> {"none", "waits", "done"}]]
      /\ Starting!Working' = Starting!Working \ {p}
  BY <1>1, <1>2, GoneKeeps DEF Starting!Gone
<1>4. Starting!TypeOK'
  BY <1>1, <1>3, StartupTypes DEF StartupInv, Starting!TypeOK, ProcessRecords
<1> QED
  BY <1>1, <1>2, <1>3, <1>4 DEF StartupInv

(* A step of process p that migrates nothing and leaves its services.      *)
LEMMA ProcessSteps ==
    ASSUME StartupInv, NEW p \in Releases, NEW r \in ProcessRecords, process' = [process EXCEPT ![p] = r],
           UNCHANGED <<migrates, effect, services, stops>>, lock' \in Releases \union {Nobody},
           \A q \in Releases \ {p} : lock' = q <=> lock = q,
           StartInv(p)'
    PROVE  StartupInv' /\ Schema' = Schema /\ Starting!Working' = Starting!Working
<1>1. Schema' = Schema /\ Starting!Working' = Starting!Working
  BY DEF Schema, Starting!Working
<1>2. process \in [Releases -> ProcessRecords]
  BY StartupTypes DEF StartupInv
<1>3. process' \in [Releases -> ProcessRecords] /\ \A q \in Releases \ {p} : process'[q] = process[q]
  BY <1>2
<1>4. \A q \in Releases \ {p} : StartInv(q)'
  BY <1>1, <1>3, OtherProcess DEF StartupInv
<1>5. Starting!TypeOK'
  BY <1>3, StartupTypes DEF StartupInv, Starting!TypeOK, ProcessRecords
<1> QED
  BY <1>1, <1>4, <1>5 DEF StartupInv

LEMMA BootKeeps ==
    ASSUME StartupInv, NEW p \in Releases, Starting!Boot(p)
    PROVE  StartupInv' /\ Schema' = Schema /\ Starting!Working' = Starting!Working
<1>1. process[p].pc = "down" /\ process[p].boots < BootCap /\ UNCHANGED <<migrates, effect, lock, services, stops>>
  BY DEF Starting!Boot, Starting!At
<1>2. process \in [Releases -> ProcessRecords] /\ lock \in Releases \union {Nobody} /\ StartInv(p)
  BY StartupTypes DEF StartupInv
<1>3. PICK r : r = [process[p] EXCEPT !.pc = "lock", !.boots = @ + 1]
  OBVIOUS
<1>4. r \in ProcessRecords /\ r.pc = "lock" /\ process' = [process EXCEPT ![p] = r] /\ process'[p] = r
  BY <1>1, <1>2, <1>3, StartupConstants DEF ProcessRecords, Starting!Boot
<1>5. StartInv(p)'
  BY <1>1, <1>2, <1>4 DEF StartInv, Migrating
<1> QED
  BY <1>1, <1>2, <1>4, <1>5, ProcessSteps

LEMMA LockKeeps ==
    ASSUME StartupInv, NEW p \in Releases, Starting!Lock(p)
    PROVE  StartupInv' /\ Schema' = Schema /\ Starting!Working' = Starting!Working
<1>1. process[p].pc = "lock" /\ lock = Nobody /\ lock' = p /\ UNCHANGED <<migrates, effect, services, stops>>
  BY DEF Starting!Lock, Starting!At, Starting!LockFree
<1>2. process \in [Releases -> ProcessRecords] /\ StartInv(p)
  BY StartupTypes DEF StartupInv
<1>3. PICK r : r = [process[p] EXCEPT !.pc = "check", !.at = 1]
  OBVIOUS
<1>4. r \in ProcessRecords /\ r.pc = "check" /\ r.at = 1 /\ process' = [process EXCEPT ![p] = r] /\ process'[p] = r
  BY <1>1, <1>2, <1>3 DEF ProcessRecords, Starting!Lock
<1>5. 1 \in 1..Needs[p] + 1 /\ 1..1 - 1 = {}
  BY StartupConstants
<1>6. StartInv(p)'
  BY <1>1, <1>2, <1>4, <1>5 DEF StartInv, Migrating
<1> QED
  BY <1>1, <1>2, <1>4, <1>6, StartupConstants, ProcessSteps

LEMMA CheckKeeps ==
    ASSUME StartupInv, NEW p \in Releases, Starting!Check(p)
    PROVE  StartupInv' /\ Schema' = Schema /\ Starting!Working' = Starting!Working
<1>1. /\ process[p].pc = "check" /\ process[p].at <= Needs[p] /\ UNCHANGED <<migrates, effect, lock, services, stops>>
      /\ process' = IF migrates[process[p].at] = "success" THEN [process EXCEPT ![p].at = @ + 1]
                    ELSE [process EXCEPT ![p].pc = "exec"]
  BY DEF Starting!Check, Starting!At, Starting!Version
<1>2. process \in [Releases -> ProcessRecords] /\ lock \in Releases \union {Nobody} /\ StartInv(p)
  BY StartupTypes DEF StartupInv
<1>3. process[p].at \in 1..Needs[p] /\ process[p].at \in Starting!Versions /\ lock = p /\ Needs[p] \in Nat
  BY <1>1, <1>2, StartupConstants DEF StartInv, Migrating
<1>4. CASE migrates[process[p].at] = "success"
  <2>1. PICK r : r = [process[p] EXCEPT !.at = process[p].at + 1]
    OBVIOUS
  <2>2. r \in ProcessRecords /\ r.pc = "check" /\ r.at = process[p].at + 1
          /\ process' = [process EXCEPT ![p] = r] /\ process'[p] = r
    BY <1>1, <1>2, <1>4, <2>1 DEF ProcessRecords
  <2>3. process[p].at \in Schema
    BY <1>3, <1>4 DEF Schema, StartupInv
  <2>4. Schema' = Schema /\ r.at \in 1..Needs[p] + 1
    BY <1>1, <1>3, <2>2 DEF Schema
  <2>5. 1..r.at - 1 \subseteq Schema
    BY <1>1, <1>2, <1>3, <2>2, <2>3 DEF StartInv, Migrating
  <2>6. StartInv(p)'
    BY <1>1, <1>2, <1>3, <2>2, <2>4, <2>5 DEF StartInv, Migrating
  <2> QED
    BY <1>1, <1>2, <2>2, <2>6, ProcessSteps
<1>5. CASE migrates[process[p].at] # "success"
  <2>1. PICK r : r = [process[p] EXCEPT !.pc = "exec"]
    OBVIOUS
  <2>2. r \in ProcessRecords /\ r.pc = "exec" /\ r.at = process[p].at
          /\ process' = [process EXCEPT ![p] = r] /\ process'[p] = r
    BY <1>1, <1>2, <1>5, <2>1 DEF ProcessRecords
  <2>3. Schema' = Schema
    BY <1>1 DEF Schema
  <2>4. StartInv(p)'
    BY <1>1, <1>2, <1>3, <1>5, <2>2, <2>3 DEF StartInv, Migrating
  <2> QED
    BY <1>1, <1>2, <2>2, <2>4, ProcessSteps
<1> QED
  BY <1>4, <1>5

LEMMA SignalKeeps ==
    ASSUME StartupInv, NEW p \in Releases, Starting!Signal(p) \/ Starting!Shutdown(p)
    PROVE  StartupInv' /\ Schema' = Schema /\ Starting!Working' = Starting!Working
<1>1. UNCHANGED <<migrates, effect, lock, services, stops>>
  BY DEF Starting!Signal, Starting!Shutdown
<1>2. process \in [Releases -> ProcessRecords] /\ lock \in Releases \union {Nobody} /\ StartInv(p)
  BY StartupTypes DEF StartupInv
<1>3. PICK r \in ProcessRecords : /\ process' = [process EXCEPT ![p] = r] /\ r.at = process[p].at
                                       /\ r.ok = process[p].ok
                                  /\ \/ r.pc = process[p].pc
                                     \/ process[p].pc = "serve" /\ r.pc = "stopping"
  <2>1. CASE Starting!Signal(p)
    <3>1. PICK r : r = [process[p] EXCEPT !.signal = TRUE]
      OBVIOUS
    <3>2. r \in ProcessRecords /\ process' = [process EXCEPT ![p] = r] /\ r.at = process[p].at /\ r.ok = process[p].ok
          /\ r.pc = process[p].pc
      BY <1>2, <2>1, <3>1 DEF ProcessRecords, Starting!Signal
    <3> QED
      BY <3>2
  <2>2. CASE Starting!Shutdown(p)
    <3>1. PICK r : r = [process[p] EXCEPT !.pc = "stopping"]
      OBVIOUS
    <3>2. r \in ProcessRecords /\ process' = [process EXCEPT ![p] = r] /\ r.at = process[p].at /\ r.ok = process[p].ok
          /\ process[p].pc = "serve" /\ r.pc = "stopping"
      BY <1>2, <2>2, <3>1 DEF ProcessRecords, Starting!Shutdown, Starting!At
    <3> QED
      BY <3>2
  <2> QED
    BY <2>1, <2>2
<1>4. process'[p] = r /\ Schema' = Schema
  BY <1>1, <1>2, <1>3 DEF Schema
<1>5. StartInv(p)'
  BY <1>1, <1>2, <1>3, <1>4 DEF StartInv, Migrating
<1> QED
  BY <1>1, <1>2, <1>3, <1>5, ProcessSteps

LEMMA ExecKeeps ==
    ASSUME StartupInv, NEW p \in Releases, Starting!Exec(p)
    PROVE  StartupInv' /\ Schema' = Schema /\ Starting!Working' = Starting!Working
<1>1. /\ process[p].pc = "exec" /\ UNCHANGED <<migrates, lock, services, stops>>
  BY DEF Starting!Exec, Starting!At
<1>2. PICK v : v = process[p].at
  OBVIOUS
<1>3. PICK ok \in BOOLEAN : /\ effect' = [effect EXCEPT ![v] = IF ok THEN "whole" ELSE "partly"]
                            /\ process' = [process EXCEPT ![p].pc = "record", ![p].ok = ok]
  BY <1>2 DEF Starting!Exec, Starting!Version
<1>4. /\ process \in [Releases -> ProcessRecords] /\ lock \in Releases \union {Nobody} /\ StartInv(p) /\ Starting!TypeOK
      /\ migrates \in [Starting!Versions -> {"none", "failed", "success"}]
      /\ effect \in [Starting!Versions -> {"none", "partly", "whole"}]
  BY StartupTypes DEF StartupInv
<1>5. v \in 1..Needs[p] /\ v \in Starting!Versions /\ migrates[v] # "success" /\ lock = p /\ 1..v - 1 \subseteq Schema
  BY <1>1, <1>2, <1>4, StartupConstants DEF StartInv, Migrating
<1>6. PICK r : r = [process[p] EXCEPT !.pc = "record", !.ok = ok]
  OBVIOUS
<1>7. /\ r \in ProcessRecords /\ r.pc = "record" /\ r.ok = ok /\ r.at = v
      /\ process' = [process EXCEPT ![p] = r] /\ process'[p] = r
      /\ process' \in [Releases -> ProcessRecords] /\ \A q \in Releases \ {p} : process'[q] = process[q]
  BY <1>2, <1>3, <1>4, <1>6 DEF ProcessRecords
<1>8. /\ effect' \in [Starting!Versions -> {"none", "partly", "whole"}] /\ (ok => effect'[v] = "whole")
      /\ \A u \in Starting!Versions \ {v} : effect'[u] = effect[u]
  BY <1>3, <1>4, <1>5
<1>9. Schema' = Schema /\ Starting!Working' = Starting!Working
  BY <1>1, <1>5, <1>8 DEF Schema, Starting!Working, Starting!Versions
<1>10. StartInv(p)'
  BY <1>1, <1>4, <1>5, <1>7, <1>8, <1>9 DEF StartInv, Migrating
<1>11. \A q \in Releases \ {p} : StartInv(q)'
  BY <1>1, <1>5, <1>7, <1>9, OtherProcess DEF StartupInv
<1>12. Starting!TypeOK'
  BY <1>1, <1>4, <1>7, <1>8 DEF Starting!TypeOK, ProcessRecords, Starting!Versions
<1>13. \A u \in Starting!Versions : migrates'[u] = "success" => effect'[u] = "whole"
  BY <1>1, <1>5, <1>8 DEF StartupInv
<1> QED
  BY <1>9, <1>10, <1>11, <1>12, <1>13 DEF StartupInv, Starting!Versions

LEMMA RecordKeeps ==
    ASSUME StartupInv, NEW p \in Releases, Starting!Record(p)
    PROVE  /\ StartupInv'
           /\ \/ Schema' = Schema /\ Starting!Working' = Starting!Working \ {p}
              \/ /\ \E v \in Starting!Versions : 1..v - 1 = Schema /\ Schema' = Schema \union {v}
                 /\ Starting!Working' = Starting!Working
<1>1. PICK v : v = process[p].at
  OBVIOUS
<1>2. process[p].pc = "record" /\ effect' = effect
  BY DEF Starting!Record, Starting!At
<1>3. /\ process \in [Releases -> ProcessRecords] /\ lock \in Releases \union {Nobody} /\ StartInv(p) /\ Starting!TypeOK
      /\ migrates \in [Starting!Versions -> {"none", "failed", "success"}]
  BY StartupTypes DEF StartupInv
<1>4. v \in 1..Needs[p] /\ v \in Starting!Versions /\ migrates[v] # "success" /\ lock = p /\ 1..v - 1 \subseteq Schema
  BY <1>1, <1>2, <1>3, StartupConstants DEF StartInv, Migrating
<1>5. CASE process[p].ok
  <2>1. /\ migrates' = [migrates EXCEPT ![v] = "success"]
             /\ process' = [process EXCEPT ![p].pc = "check", ![p].at = @ + 1]
        /\ UNCHANGED <<lock, services, stops>>
    BY <1>1, <1>5 DEF Starting!Record, Starting!Version
  <2>2. PICK r : r = [process[p] EXCEPT !.pc = "check", !.at = v + 1]
    OBVIOUS
  <2>3. /\ r \in ProcessRecords /\ r.pc = "check" /\ r.at = v + 1
        /\ process' = [process EXCEPT ![p] = r] /\ process'[p] = r
        /\ process' \in [Releases -> ProcessRecords] /\ \A q \in Releases \ {p} : process'[q] = process[q]
    BY <1>1, <1>3, <2>1, <2>2 DEF ProcessRecords
  <2>4. /\ migrates' \in [Starting!Versions -> {"none", "failed", "success"}] /\ migrates'[v] = "success"
        /\ \A u \in Starting!Versions \ {v} : migrates'[u] = migrates[u]
    BY <1>3, <1>4, <2>1
  <2>5. effect[v] = "whole"
    BY <1>1, <1>2, <1>3, <1>5 DEF StartInv
  <2>6. Schema' = Schema \union {v} /\ v \notin Schema
    BY <1>2, <1>4, <2>4, <2>5 DEF Schema, Starting!Versions
  <2>7. PICK k \in Nat : Schema = 1..k
    BY DEF StartupInv
  <2>8. v = k + 1 /\ Schema' = 1..(k + 1)
    BY <1>4, <2>6, <2>7, StartupConstants
  <2>9. 1..v - 1 = Schema
    BY <2>7, <2>8
  <2>10. Starting!Working' = Starting!Working
    BY <2>1 DEF Starting!Working
  <2>11. r.at \in 1..Needs[p] + 1 /\ 1..r.at - 1 \subseteq Schema'
    <3>1. r.at - 1 = k + 1 /\ Needs[p] \in Nat
      <4>1. r.at = v + 1 /\ v = k + 1
        BY <2>3, <2>8
      <4> QED
        BY <4>1, StartupConstants
    <3>2. r.at \in 1..Needs[p] + 1
      BY <1>4, <2>3, <3>1
    <3> QED
      BY <2>8, <3>1, <3>2
  <2>12. StartInv(p)'
    BY <1>2, <1>3, <1>4, <2>1, <2>3, <2>11 DEF StartInv, Migrating
  <2>13. \A q \in Releases \ {p} : StartInv(q)'
    BY <1>4, <2>1, <2>3, <2>6, OtherProcess DEF StartupInv
  <2>14. Starting!TypeOK'
    BY <1>2, <1>3, <2>1, <2>3, <2>4 DEF Starting!TypeOK, ProcessRecords, Starting!Versions
  <2>15. \A u \in Starting!Versions : migrates'[u] = "success" => effect'[u] = "whole"
    BY <1>2, <2>4, <2>5 DEF StartupInv
  <2>16. \E n \in Nat : Schema' = 1..n
    BY <2>8
  <2> QED
    BY <1>4, <2>6, <2>9, <2>10, <2>12, <2>13, <2>14, <2>15, <2>16 DEF StartupInv, Starting!Versions
<1>6. CASE ~process[p].ok
  <2>1. migrates' = [migrates EXCEPT ![v] = "failed"] /\ Starting!Gone(p)
    BY <1>1, <1>6 DEF Starting!Record, Starting!Version
  <2>2. /\ migrates' \in [Starting!Versions -> {"none", "failed", "success"}] /\ migrates'[v] = "failed"
        /\ \A u \in Starting!Versions \ {v} : migrates'[u] = migrates[u]
    BY <1>3, <1>4, <2>1
  <2>3. Schema' = Schema
    BY <1>2, <1>4, <2>2 DEF Schema, Starting!Versions
  <2>4. /\ \A q \in Releases : StartInv(q)'
        /\ process' \in [Releases -> ProcessRecords] /\ lock' \in Releases \union {Nobody}
        /\ services' \in [Releases -> [Services -> {"new", "starting", "running", "ending", "ended", "failed"}]]
        /\ stops' \in [Releases -> [Services -> {"none", "waits", "done"}]]
        /\ Starting!Working' = Starting!Working \ {p}
    BY <1>4, <2>1, <2>3, GoneKeeps DEF Starting!Gone
  <2>5. Starting!TypeOK'
    BY <1>2, <1>3, <2>2, <2>4 DEF Starting!TypeOK, ProcessRecords, Starting!Versions
  <2>6. \A u \in Starting!Versions : migrates'[u] = "success" => effect'[u] = "whole"
    BY <1>2, <2>2 DEF StartupInv
  <2> QED
    BY <2>3, <2>4, <2>5, <2>6 DEF StartupInv, Starting!Versions
<1> QED
  BY <1>5, <1>6

LEMMA LaunchKeeps ==
    ASSUME StartupInv, NEW p \in Releases, Starting!Launch(p)
    PROVE  StartupInv' /\ Schema' = Schema /\ Starting!Working' = Starting!Working
<1>1. /\ process[p].pc = "check" /\ process[p].at > Needs[p] /\ lock' = Nobody
      /\ process' = [process EXCEPT ![p].pc = "serve"]
      /\ services' = [services EXCEPT ![p] = [s \in Services |-> "starting"]]
      /\ UNCHANGED <<migrates, effect, stops>>
  BY DEF Starting!Launch, Starting!At, Starting!Version, Starting!All
<1>2. /\ process \in [Releases -> ProcessRecords] /\ lock \in Releases \union {Nobody} /\ StartInv(p) /\ Starting!TypeOK
      /\ services \in [Releases -> [Services -> {"new", "starting", "running", "ending", "ended", "failed"}]]
  BY StartupTypes DEF StartupInv
<1>3. PICK r : r = [process[p] EXCEPT !.pc = "serve"]
  OBVIOUS
<1>4. /\ r.pc = "serve" /\ process'[p] = r
      /\ process' \in [Releases -> ProcessRecords] /\ \A q \in Releases \ {p} : process'[q] = process[q]
  BY <1>1, <1>2, <1>3 DEF ProcessRecords
<1>5. /\ services' \in [Releases -> [Services -> {"new", "starting", "running", "ending", "ended", "failed"}]]
      /\ services'[p] = [s \in Services |-> "starting"] /\ \A q \in Releases \ {p} : services'[q] = services[q]
  BY <1>1, <1>2
<1>6. \A s \in Services : services[p][s] = "new"
  BY <1>1, <1>2 DEF StartInv
<1>7. Schema' = Schema /\ Starting!Working' = Starting!Working
  BY <1>1, <1>5, <1>6 DEF Schema, Starting!Working
<1>8. lock = p /\ 1..Needs[p] \subseteq Schema
  BY <1>1, <1>2, StartupConstants DEF StartInv, Migrating
<1>9. \A q \in Releases \ {p} : lock' = q <=> lock = q
  BY <1>1, <1>8, StartupConstants
<1>10. StartInv(p)'
  BY <1>1, <1>4, <1>7, <1>8, StartupConstants DEF StartInv, Migrating
<1>11. \A q \in Releases \ {p} : StartInv(q)'
  BY <1>1, <1>4, <1>5, <1>7, <1>9, OtherProcess DEF StartupInv
<1>12. Starting!TypeOK'
  BY <1>1, <1>2, <1>4, <1>5 DEF Starting!TypeOK, ProcessRecords
<1> QED
  BY <1>1, <1>7, <1>10, <1>11, <1>12 DEF StartupInv

(* A service of a process that serves or stops.                            *)
LEMMA ServiceSteps ==
    ASSUME StartupInv, NEW p \in Releases, process[p].pc \in {"serve", "stopping"},
           services' \in [Releases -> [Services -> ServiceStates]],
           \A q \in Releases \ {p} : services'[q] = services[q],
           stops' \in [Releases -> [Services -> {"none", "waits", "done"}]],
           UNCHANGED <<migrates, effect, lock, process>>
    PROVE  StartupInv' /\ Schema' = Schema
<1>1. StartInv(p) /\ Starting!TypeOK
  BY DEF StartupInv
<1>2. Schema' = Schema
  BY DEF Schema
<1>3. StartInv(p)'
  BY <1>1, <1>2 DEF StartInv, Migrating
<1>4. \A q \in Releases \ {p} : StartInv(q)'
  BY <1>2, OtherProcess DEF StartupInv
<1>5. Starting!TypeOK'
  BY <1>1 DEF Starting!TypeOK, ServiceStates
<1> QED
  BY <1>2, <1>3, <1>4, <1>5 DEF StartupInv

LEMMA StartedKeeps ==
    ASSUME StartupInv, NEW p \in Releases, NEW s \in Services, Starting!Started(p, s)
    PROVE  /\ StartupInv' /\ Schema' = Schema
           /\ Starting!Working' = Starting!Working
                \/ (Starting!Working' = Starting!Working \union {p} /\ 1..Needs[p] \subseteq Schema)
<1>1. services[p][s] = "starting" /\ UNCHANGED <<migrates, effect, lock, process, stops>>
  BY DEF Starting!Started
<1>2. PICK v \in {"running", "failed"} : services' = [services EXCEPT ![p][s] = v]
  BY DEF Starting!Started
<1>3. /\ services \in [Releases -> [Services -> ServiceStates]] /\ StartInv(p)
      /\ stops' \in [Releases -> [Services -> {"none", "waits", "done"}]]
  BY <1>1, StartupTypes DEF StartupInv, ServiceStates
<1>4. process[p].pc \in {"serve", "stopping"} /\ 1..Needs[p] \subseteq Schema
  BY <1>1, <1>3 DEF StartInv
<1>5. /\ services' \in [Releases -> [Services -> ServiceStates]]
      /\ services'[p][s] = v /\ \A t \in Services \ {s} : services'[p][t] = services[p][t]
      /\ \A q \in Releases \ {p} : services'[q] = services[q]
  BY <1>2, <1>3 DEF ServiceStates
<1>6. StartupInv' /\ Schema' = Schema
  BY <1>1, <1>3, <1>4, <1>5, ServiceSteps
<1>7. CASE v = "running"
  BY <1>1, <1>4, <1>5, <1>6, <1>7 DEF Starting!Working
<1>8. CASE v = "failed"
  BY <1>1, <1>5, <1>6, <1>8 DEF Starting!Working
<1> QED
  BY <1>7, <1>8

LEMMA StopBeginKeeps ==
    ASSUME StartupInv, NEW p \in Releases, NEW s \in Services, Starting!StopBegin(p, s)
    PROVE  StartupInv' /\ Schema' = Schema /\ Starting!Working' = Starting!Working
<1>1. process[p].pc = "stopping" /\ UNCHANGED <<migrates, effect, lock, process>>
  BY DEF Starting!StopBegin, Starting!At
<1>2. /\ services \in [Releases -> [Services -> ServiceStates]]
      /\ stops \in [Releases -> [Services -> {"none", "waits", "done"}]]
  BY StartupTypes DEF StartupInv, ServiceStates
<1>3. PICK v \in ServiceStates : v = IF services[p][s] = "running" THEN "ending" ELSE services[p][s]
  BY <1>2 DEF ServiceStates
<1>4. services' = [services EXCEPT ![p][s] = v] /\ stops' \in [Releases -> [Services -> {"none", "waits", "done"}]]
  BY <1>2, <1>3 DEF Starting!StopBegin
<1>5. /\ services' \in [Releases -> [Services -> ServiceStates]]
      /\ services'[p][s] = v /\ \A t \in Services \ {s} : services'[p][t] = services[p][t]
      /\ \A q \in Releases \ {p} : services'[q] = services[q]
  BY <1>2, <1>4
<1>6. StartupInv' /\ Schema' = Schema
  BY <1>1, <1>4, <1>5, ServiceSteps
<1>7. services'[p][s] \in {"running", "ending"} <=> services[p][s] \in {"running", "ending"}
  BY <1>3, <1>5
<1> QED
  BY <1>5, <1>6, <1>7 DEF Starting!Working

LEMMA LoopEndsKeeps ==
    ASSUME StartupInv, NEW p \in Releases, NEW s \in Services, Starting!LoopEnds(p, s)
    PROVE  /\ StartupInv' /\ Schema' = Schema
           /\ Starting!Working' = Starting!Working \/ Starting!Working' = Starting!Working \ {p}
<1>1. /\ services[p][s] = "ending" /\ services' = [services EXCEPT ![p][s] = "ended"]
      /\ UNCHANGED <<migrates, effect, lock, process, stops>>
  BY DEF Starting!LoopEnds
<1>2. /\ services \in [Releases -> [Services -> ServiceStates]] /\ StartInv(p)
      /\ stops' \in [Releases -> [Services -> {"none", "waits", "done"}]]
  BY <1>1, StartupTypes DEF StartupInv, ServiceStates
<1>3. /\ services' \in [Releases -> [Services -> ServiceStates]]
      /\ services'[p][s] = "ended" /\ \A t \in Services \ {s} : services'[p][t] = services[p][t]
      /\ \A q \in Releases \ {p} : services'[q] = services[q]
  BY <1>1, <1>2 DEF ServiceStates
<1>4. process[p].pc \in {"serve", "stopping"}
  BY <1>1, <1>2 DEF StartInv
<1>5. StartupInv' /\ Schema' = Schema
  BY <1>1, <1>2, <1>3, <1>4, ServiceSteps
<1> QED
  BY <1>1, <1>3, <1>5 DEF Starting!Working

LEMMA StopEndKeeps ==
    ASSUME StartupInv, NEW p \in Releases, NEW s \in Services, Starting!StopEnd(p, s)
    PROVE  StartupInv' /\ Schema' = Schema /\ Starting!Working' = Starting!Working
<1>1. stops' = [stops EXCEPT ![p][s] = "done"] /\ UNCHANGED <<migrates, effect, lock, process, services>>
  BY DEF Starting!StopEnd
<1>2. Schema' = Schema /\ Starting!Working' = Starting!Working
  BY <1>1 DEF Schema, Starting!Working
<1>3. stops' \in [Releases -> [Services -> {"none", "waits", "done"}]]
  BY <1>1, StartupTypes DEF StartupInv
<1>4. Starting!TypeOK'
  BY <1>1, <1>3 DEF StartupInv, Starting!TypeOK
<1>5. \A q \in Releases : StartInv(q)'
  BY <1>1, <1>2, OtherProcess DEF StartupInv
<1> QED
  BY <1>1, <1>2, <1>4, <1>5 DEF StartupInv

LEMMA ExitKeeps ==
    ASSUME StartupInv, NEW p \in Releases, Starting!Exit(p)
    PROVE  StartupInv' /\ Schema' = Schema /\ Starting!Working' = Starting!Working \ {p}
<1>1. Starting!Dies(p)
  BY DEF Starting!Exit, Starting!Dies, Starting!At
<1> QED
  BY <1>1, DiesKeeps

-----------------------------------------------------------------------------
LEMMA StartupStepKeeps ==
    ASSUME StartupInv, [Starting!Next]_startupVars
    PROVE  StartupInv' /\ [Starting!History!Next]_Starting!History!vars
<1> DEFINE W == Starting!Working
<1>1. Starting!History!vars = <<Schema, W>>
  BY DEF Starting!History!vars, Schema
<1>2. CASE UNCHANGED startupVars
  <2>1. UNCHANGED <<migrates, effect, lock, process, services, stops>>
    BY <1>2 DEF startupVars
  <2>2. Schema' = Schema /\ W' = W
    BY <2>1 DEF Schema, Starting!Working
  <2>3. \A p \in Releases : StartInv(p)'
    BY <2>1, <2>2, OtherProcess DEF StartupInv
  <2>4. StartupInv'
    BY <2>1, <2>2, <2>3 DEF StartupInv, Starting!TypeOK
  <2> QED
    BY <2>2, <2>4 DEF Starting!History!vars, Schema
<1>3. CASE Starting!Next
  <2>1. \E p \in Releases :
          \/ Starting!Boot(p) \/ Starting!Dies(p) \/ Starting!Lock(p) \/ Starting!Check(p) \/ Starting!Exec(p)
          \/ Starting!Record(p) \/ Starting!Launch(p) \/ Starting!Signal(p) \/ Starting!Shutdown(p) \/ Starting!Exit(p)
          \/ \E s \in Services : \/ Starting!Started(p, s) \/ Starting!StopBegin(p, s)
                                 \/ Starting!LoopEnds(p, s) \/ Starting!StopEnd(p, s)
    BY <1>3 DEF Starting!Next
  <2>2. /\ StartupInv'
        /\ \/ Schema' = Schema /\ W' = W
           \/ Schema' = Schema /\ \E p \in Releases : W' = W \ {p}
           \/ Schema' = Schema /\ \E p \in Releases : W' = W \union {p} /\ 1..Needs[p] \subseteq Schema
           \/ (\E v \in Starting!Versions : 1..v - 1 = Schema /\ Schema' = Schema \union {v}) /\ W' = W
    BY <2>1, BootKeeps, DiesKeeps, LockKeeps, CheckKeeps, ExecKeeps, RecordKeeps, LaunchKeeps, SignalKeeps, ExitKeeps,
       StartedKeeps, StopBeginKeeps, LoopEndsKeeps, StopEndKeeps
  <2>3. [Starting!History!Next]_Starting!History!vars
    <3>1. CASE Schema' = Schema /\ W' = W
      BY <3>1 DEF Starting!History!vars, Schema
    <3>2. CASE Schema' = Schema /\ \E p \in Releases : W' = W \ {p}
      BY <3>2 DEF Starting!History!Next, Starting!History!Cease, Schema
    <3>3. CASE Schema' = Schema /\ \E p \in Releases : W' = W \union {p} /\ 1..Needs[p] \subseteq Schema
      BY <3>3 DEF Starting!History!Next, Starting!History!Work, Schema
    <3>4. CASE (\E v \in Starting!Versions : 1..v - 1 = Schema /\ Schema' = Schema \union {v}) /\ W' = W
      BY <3>4 DEF Starting!History!Next, Starting!History!Migrate, Starting!History!Versions, Starting!Versions, Schema
    <3> QED
      BY <2>2, <3>1, <3>2, <3>3, <3>4
  <2> QED
    BY <2>2, <2>3
<1> QED
  BY <1>2, <1>3

LEMMA StartupHistoryInitial == Starting!Init => Starting!History!Init
  BY StartupConstants DEF Starting!Init, Starting!All, Starting!History!Init, Starting!Working

(* Any number of processes of any releases that start, crash, fail half-way*)
(* and restart side by side are a SchemaHistory: migrations succeed in the *)
(* order of their versions, each once, and a service works only on a schema*)
(* that has all of its own (database.go:74-165, manager.go:42-77).         *)
THEOREM StartupImplementsHistory == Starting!Spec => []Starting!TypeOK /\ Starting!MigratesInOrder
<1>1. StartupInv => Starting!TypeOK
  BY DEF StartupInv
<1>2. StartupInv /\ [Starting!Next]_Starting!vars => StartupInv' /\ [Starting!History!Next]_Starting!History!vars
  BY StartupStepKeeps DEF Starting!vars, startupVars
<1> QED
  BY <1>1, <1>2, StartupInitial, StartupHistoryInitial, PTL
       DEF Starting!Spec, Starting!MigratesInOrder, Starting!History!Spec

LEMMA BackgroundStepsStartup == BackgroundNext => [Starting!Next]_startupVars
<1>1. \A p : p # "startup" /\ In(p) => UNCHANGED startupVars
  BY DEF In
<1>2. PluginStep => UNCHANGED startupVars
  BY <1>1 DEF PluginStep
<1>3. PluginLiveStep => UNCHANGED startupVars
  BY <1>1 DEF PluginLiveStep
<1>4. LegacyStep => UNCHANGED startupVars
  BY <1>1 DEF LegacyStep
<1>5. Aria2Step => UNCHANGED startupVars
  BY <1>1 DEF Aria2Step
<1>6. StartupStep => Starting!Next
  BY DEF StartupStep, Starting!Next
<1> QED
  BY <1>2, <1>3, <1>4, <1>5, <1>6 DEF BackgroundNext

(* The same as they run beside the other background loops                  *)
(* (database.go:74-165, manager.go:42-77).                                 *)
THEOREM BackgroundMigratesInOrder == BackgroundSpec => MigratesInOrder
<1>1. BackgroundInit => StartupInv /\ Starting!History!Init
  BY StartupInitial, StartupHistoryInitial DEF BackgroundInit
<1>2. StartupInv /\ [BackgroundNext]_backgroundVars => StartupInv' /\ [Starting!History!Next]_Starting!History!vars
  BY StartupStepKeeps, BackgroundStepsStartup DEF backgroundVars, startupVars
<1>3. StartupInv => Starting!TypeOK
  BY DEF StartupInv
<1> QED
  BY <1>1, <1>2, <1>3, PTL DEF BackgroundSpec, MigratesInOrder, Starting!MigratesInOrder, Starting!History!Spec
=============================================================================
