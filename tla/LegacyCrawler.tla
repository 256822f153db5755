--------------------------- MODULE LegacyCrawler ---------------------------
(***************************************************************************)
(* The legacy crawler engine: entries that live in memory (the channel, a  *)
(* worker, a retry timer, a handler of the event bus) and the rows of      *)
(* crawl_tasks that stand for them. Nothing puts a row back in memory, so  *)
(* an entry that is dropped leaves its row waiting.                        *)
(***************************************************************************)
EXTENDS Naturals, Sequences, SequencesExt

CONSTANTS Entries, Workers,
          NoEntry,
          QueueCap,        \* the channel's capacity, 512
          MaxTaskErrorNum, \* errors of an entry and attempts of its row
          RestartCap       \* bound: restarts of the process

CrawlerAssumption ==
    /\ NoEntry \notin Entries
    /\ QueueCap \in Nat \ {0} /\ MaxTaskErrorNum \in Nat \ {0} /\ RestartCap \in Nat

VARIABLES queue,    \* the channel of tasks
          bus,      \* the entry whose event is being handled, one at a time
          workers,  \* per worker, its entry, its step and the children to submit
          timers,   \* entries whose resubmission is scheduled
          errors,   \* per entry, its ErrorCount; NoErrors before it exists
          rows,     \* per entry, the status and the attempts of its row
          lost,     \* entries dropped while their row waits
          restarts

vars == <<queue, bus, workers, timers, errors, rows, lost, restarts>>

FreeWorker == [pc |-> "idle", entry |-> NoEntry, todo |-> {}, child |-> NoEntry, held |-> FALSE]
NoRow == [status |-> "none", attempts |-> 0, due |-> TRUE]
Unseen == MaxTaskErrorNum + 1

TypeOK ==
    /\ queue \in Seq(Entries) /\ Len(queue) <= QueueCap
    /\ bus \in Entries \union {NoEntry}
    /\ workers \in [Workers -> [pc : {"idle", "handling", "submitting", "resubmitting"},
                                entry : Entries \union {NoEntry}, todo : SUBSET Entries,
                                child : Entries \union {NoEntry}, held : BOOLEAN]]
    /\ timers \subseteq Entries /\ lost \subseteq Entries
    /\ errors \in [Entries -> 0..Unseen]
    /\ rows \in [Entries -> [status : {"none", "queued", "running", "succeeded", "dead"},
                             attempts : 0..MaxTaskErrorNum, due : BOOLEAN]]
    /\ restarts \in 0..RestartCap

Init ==
    /\ queue = <<>> /\ bus = NoEntry /\ timers = {} /\ lost = {}
    /\ workers = [w \in Workers |-> FreeWorker]
    /\ errors = [e \in Entries |-> Unseen]
    /\ rows = [e \in Entries |-> NoRow]
    /\ restarts = 0

-----------------------------------------------------------------------------
Fresh == {e \in Entries : errors[e] = Unseen}
Entry(w) == workers[w].entry
At(w, pc) == workers[w].pc = pc
Persisted(e) == rows[e].status # "none"
Release(w) == workers' = [workers EXCEPT ![w] = FreeWorker]

(* Worker w still holds the attempt it started (CheckAttemptID).           *)
HoldsAttempt(w) == workers[w].held

(* persistTask: the run and the row, or neither when the database refuses. *)
PersistTask(es) ==
    \E saved \in SUBSET es :
        rows' = [e \in Entries |-> IF e \in saved THEN [NoRow EXCEPT !.status = "queued"] ELSE rows[e]]

(* An event of the API, of a cron job or of RunAll; the bus calls the      *)
(* handler of a topic for one event at a time.                             *)
Publish(e) ==
    /\ e \in Fresh /\ bus = NoEntry
    /\ bus' = e
    /\ errors' = [errors EXCEPT ![e] = 0]
    /\ PersistTask({e})
    /\ UNCHANGED <<queue, workers, timers, lost, restarts>>

(* Every Submit waits for room in the channel.                             *)
Send(e) == Len(queue) < QueueCap /\ queue' = Append(queue, e)

Submit ==
    /\ bus # NoEntry /\ Send(bus)
    /\ bus' = NoEntry
    /\ UNCHANGED <<workers, timers, errors, rows, lost, restarts>>

MayStart(e) ==
    rows[e].status = "queued" /\ rows[e].due /\ rows[e].attempts < MaxTaskErrorNum

(* Worker.do: a refused attempt is logged and the entry dropped.           *)
Take(w) ==
    LET e == Head(queue) IN
    /\ At(w, "idle") /\ queue # <<>>
    /\ queue' = Tail(queue)
    /\ IF Persisted(e) /\ ~MayStart(e)
       THEN /\ lost' = lost \union {e}
            /\ UNCHANGED <<workers, rows>>
       ELSE /\ workers' = [workers EXCEPT ![w].pc = "handling", ![w].entry = e, ![w].held = Persisted(e)]
            /\ rows' = IF Persisted(e)
                       THEN [rows EXCEPT ![e].status = "running", ![e].attempts = @ + 1] ELSE rows
            /\ UNCHANGED lost
    /\ UNCHANGED <<bus, timers, errors, restarts>>

(* The handler returned, and the attempt was taken away meanwhile.         *)
Discards(w) == Persisted(Entry(w)) /\ ~HoldsAttempt(w)

Discard(w) ==
    /\ workers[w].pc \in {"handling", "submitting"} /\ workers[w].child = NoEntry /\ Discards(w)
    /\ Release(w)
    /\ UNCHANGED <<queue, bus, timers, errors, rows, lost, restarts>>

(* A list page yields entries; each is persisted and submitted in turn.    *)
Handled(w, children) ==
    /\ At(w, "handling") /\ ~Discards(w) /\ children \subseteq Fresh
    /\ workers' = [workers EXCEPT ![w].pc = "submitting", ![w].todo = children]
    /\ errors' = [e \in Entries |-> IF e \in children THEN 0 ELSE errors[e]]
    /\ UNCHANGED <<queue, bus, timers, rows, lost, restarts>>

PersistChild(w, e) ==
    /\ At(w, "submitting") /\ workers[w].child = NoEntry /\ ~Discards(w) /\ e \in workers[w].todo
    /\ workers' = [workers EXCEPT ![w].todo = @ \ {e}, ![w].child = e]
    /\ PersistTask({e})
    /\ UNCHANGED <<queue, bus, timers, errors, lost, restarts>>

(* Submit persists an entry that has no row yet, and waits for room.       *)
SubmitChild(w) ==
    LET e == workers[w].child IN
    /\ e # NoEntry /\ Send(e)
    /\ IF Persisted(e) THEN UNCHANGED rows ELSE PersistTask({e})
    /\ workers' = [workers EXCEPT ![w].child = NoEntry]
    /\ UNCHANGED <<bus, timers, errors, lost, restarts>>

Succeed(w) ==
    /\ At(w, "submitting") /\ workers[w].todo = {} /\ workers[w].child = NoEntry /\ ~Discards(w)
    /\ rows' = IF Persisted(Entry(w)) THEN [rows EXCEPT ![Entry(w)].status = "succeeded"] ELSE rows
    /\ Release(w)
    /\ UNCHANGED <<queue, bus, timers, errors, lost, restarts>>

(* Engine.Error, for a handler's error or a panic in it: a persisted entry *)
(* waits for its timer, another is submitted again at once.                *)
WillRetry(e) == errors[e] < MaxTaskErrorNum /\ rows[e].attempts < MaxTaskErrorNum

FallsThrough(w, e) == \* broken: no return after the timer was set
    IF WillRetry(e) THEN "resubmitting" ELSE "idle"

NextStep(w, e) == IF Persisted(e) \/ errors[e] >= MaxTaskErrorNum THEN "idle" ELSE "resubmitting"

NoTimer(e) == \* broken: only the row is told to retry
    timers

Scheduled(e) == IF Persisted(e) /\ WillRetry(e) THEN timers \union {e} ELSE timers

Fail(w) ==
    LET e == Entry(w) IN
    /\ At(w, "handling") /\ ~Discards(w)
    /\ timers' = Scheduled(e)
    /\ rows' = IF ~Persisted(e) THEN rows
               ELSE [rows EXCEPT ![e].status = IF WillRetry(e) THEN "queued" ELSE "dead",
                                 ![e].due = ~WillRetry(e)]
    /\ errors' = [errors EXCEPT ![e] = IF @ < MaxTaskErrorNum THEN @ + 1 ELSE @]
    /\ workers' = [workers EXCEPT ![w] = [FreeWorker EXCEPT
                      !.pc = NextStep(w, e), !.entry = IF NextStep(w, e) = "idle" THEN NoEntry ELSE e]]
    /\ UNCHANGED <<queue, bus, lost, restarts>>

Resubmit(w) ==
    /\ At(w, "resubmitting") /\ Send(Entry(w))
    /\ IF Persisted(Entry(w)) THEN UNCHANGED rows ELSE PersistTask({Entry(w)})
    /\ Release(w)
    /\ UNCHANGED <<bus, timers, errors, lost, restarts>>

(* The timer waits 2^n seconds, the row's next_retry_at up to half as much *)
(* longer: either may come first.                                          *)
TimerFires(e) ==
    /\ e \in timers /\ Send(e)
    /\ timers' = timers \ {e}
    /\ UNCHANGED <<bus, workers, errors, rows, lost, restarts>>

RetryDue(e) ==
    /\ rows[e].status = "queued" /\ ~rows[e].due
    /\ rows' = [rows EXCEPT ![e].due = TRUE]
    /\ UNCHANGED <<queue, bus, workers, timers, errors, lost, restarts>>

-----------------------------------------------------------------------------
(* RecoverExpiredLeases, run by the workflow worker: the row waits again,  *)
(* but no entry comes back for it.                                         *)
LeaseExpires(e) ==
    /\ rows[e].status = "running"
    /\ rows' = [rows EXCEPT ![e].status = IF rows[e].attempts < MaxTaskErrorNum THEN "queued" ELSE "dead",
                            ![e].due = TRUE]
    /\ workers' = [w \in Workers |-> IF Entry(w) = e THEN [workers[w] EXCEPT !.held = FALSE] ELSE workers[w]]
    /\ lost' = lost \union {e}
    /\ UNCHANGED <<queue, bus, timers, errors, restarts>>

(* RetryTask of the API puts the row back, and nothing in memory.          *)
OperatorRetries(e) ==
    /\ rows[e].status = "dead" /\ rows[e].attempts < MaxTaskErrorNum
    /\ rows' = [rows EXCEPT ![e].status = "queued", ![e].due = TRUE]
    /\ lost' = lost \union {e}
    /\ UNCHANGED <<queue, bus, workers, timers, errors, restarts>>

Holds(w, e) == Entry(w) = e \/ e \in workers[w].todo \/ workers[w].child = e

InMemory(e) ==
    \/ e \in ToSet(queue) \/ bus = e \/ e \in timers
    \/ \E w \in Workers : Holds(w, e)

Restart ==
    /\ restarts < RestartCap
    /\ restarts' = restarts + 1
    /\ lost' = lost \union {e \in Entries : InMemory(e)}
    /\ queue' = <<>> /\ bus' = NoEntry /\ timers' = {}
    /\ workers' = [w \in Workers |-> FreeWorker]
    /\ UNCHANGED <<errors, rows>>

Next ==
    \/ \E e \in Entries : Publish(e) \/ TimerFires(e) \/ RetryDue(e) \/ LeaseExpires(e) \/ OperatorRetries(e)
    \/ Submit \/ Restart
    \/ \E w \in Workers :
        \/ Take(w) \/ Discard(w) \/ SubmitChild(w) \/ Succeed(w) \/ Fail(w) \/ Resubmit(w)
        \/ \E children \in SUBSET Entries : Handled(w, children)
        \/ \E e \in Entries : PersistChild(w, e)

Spec == Init /\ [][Next]_vars

-----------------------------------------------------------------------------
(* However an entry fails, it is in memory once: no worker handles it while*)
(* it waits in the channel, for its timer or at another worker             *)
(* (engine.go:147-170).                                                    *)
HeldOnce ==
    \A e \in Entries :
        LET at == {w \in Workers : Holds(w, e)}
            places == {i \in DOMAIN queue : queue[i] = e}
        IN  /\ \A x, y \in at : x = y
            /\ \A i, j \in places : i = j
            /\ (at # {}) => (places = {} /\ e \notin timers /\ bus # e)
            /\ (places # {}) => (e \notin timers /\ bus # e)

(* A row waits only while its entry is in memory, and else because its     *)
(* timer came before its retry time, its lease expired, an operator put it *)
(* back or the process was restarted: no other path of the engine drops an *)
(* entry whose row waits (worker.go:58-124, engine.go:94-170).             *)
WaitingIsHeld ==
    \A e \in Entries \ lost : rows[e].status \in {"queued", "running"} => InMemory(e)
=============================================================================
