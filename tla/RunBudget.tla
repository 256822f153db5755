----------------------------- MODULE RunBudget ------------------------------
(***************************************************************************)
(* The budget of one run (crawlpolicy.Budget, task_repo/budgets.go) and    *)
(* what the attempts of its tasks do against it: reserve a page, check     *)
(* every URL before it is requested, add children. A transaction takes the *)
(* run's lock in one step, decides on what it reads, and writes in another;*)
(* attempts lose their leases, die and are made again. A URL has one page  *)
(* role here, so that it names its task. The run stays active and in time: *)
(* its end and max_duration_seconds are TaskEngine's.                      *)
(***************************************************************************)
EXTENDS Naturals, FiniteSets

CONSTANTS Urls, Root,
          Details,     \* URLs whose task is of step "detail"
          Links,       \* per URL, the URLs that its page yields
          Redirects,   \* per URL, where its request may be sent on to
          Hosts, Host, \* host names, and that of a URL
          Budgets,     \* budgets that FromDefinition accepts
          Workers, Nobody

BudgetAssumption ==
    /\ IsFiniteSet(Urls) /\ IsFiniteSet(Hosts) /\ Root \in Urls /\ Details \subseteq Urls
    /\ Links \in [Urls -> SUBSET Urls] /\ Redirects \in [Urls -> SUBSET Urls]
    /\ Host \in [Urls -> Hosts] /\ Nobody \notin Workers
    /\ \A b \in Budgets :
        /\ b.discovered \in Nat /\ b.tasks \in Nat \ {0} /\ b.pages \in Nat
        /\ b.depth \in Nat /\ b.domains \in Nat
        /\ b.allowed \subseteq Hosts /\ Host[Root] \in b.allowed

VARIABLES budget,    \* workflow_runs.budget
          task,      \* rows of crawl_tasks of the run
          domains,   \* rows of run_domains
          events,    \* rows of run_limit_events
          lock,      \* who holds the row lock of the run
          workers,
          requested  \* history: which task requested which URL

vars == <<budget, task, domains, events, lock, workers, requested>>

Reasons == {"allowed_domains", "max_depth", "max_pages",
            "max_domains", "max_tasks", "max_discovered_per_page"}
TaskRec == [status : {"none", "queued", "running", "succeeded", "limited"},
            parent : Urls, depth : Nat, reserved : BOOLEAN,
            owner : Workers \union {Nobody}]
Pcs == {"idle", "reserve", "reserving", "check", "checking", "request", "expand", "creating", "limited"}
WorkerRec == [pc : Pcs, task : Urls, url : Urls, todo : SUBSET Urls, reason : Reasons \union {""}]

TypeOK ==
    /\ budget \in Budgets
    /\ task \in [Urls -> TaskRec]
    /\ domains \in SUBSET Hosts
    /\ events \in SUBSET [task : Urls, url : Urls, reason : Reasons]
    /\ lock \in Workers \union {Nobody}
    /\ workers \in [Workers -> WorkerRec]
    /\ requested \in SUBSET (Urls \X Urls)

NewTask(parent, depth) ==
    [status |-> "queued", parent |-> parent, depth |-> depth, reserved |-> FALSE,
     owner |-> Nobody]
IdleWorker == [pc |-> "idle", task |-> Root, url |-> Root, todo |-> {}, reason |-> ""]

Init ==
    /\ budget \in Budgets
    /\ task = [u \in Urls |-> IF u = Root THEN NewTask(Root, 0)
                              ELSE [NewTask(Root, 0) EXCEPT !.status = "none"]]
    /\ domains = {} /\ events = {} /\ requested = {}
    /\ lock = Nobody
    /\ workers = [w \in Workers |-> IdleWorker]

Existing == {u \in Urls : task[u].status # "none"}
Reserved == {u \in Urls : task[u].reserved}
DetailsOf(p) == {u \in Existing \intersect Details : task[u].parent = p /\ u # Root}

At(w, pc) == workers[w].pc = pc
TaskOf(w) == workers[w].task
GoIdle(w) == workers' = [workers EXCEPT ![w] = IdleWorker]
Event(u, url, reason) == [task |-> u, url |-> url, reason |-> reason]

(* The fence of an attempt: its task is running under its lease.           *)
Holds(w) == task[TaskOf(w)].status = "running" /\ task[TaskOf(w)].owner = w

LockIgnored == TRUE \* broken: counters are read without the run's lock
LockFree == lock = Nobody

-----------------------------------------------------------------------------
(* ReservePage, before the first request of an attempt.                    *)

DomainReason(h) == IF h \notin domains /\ Cardinality(domains) >= budget.domains THEN "max_domains" ELSE ""

PageReasonAnew(u) == \* broken: a retried attempt takes its slot again
    IF Cardinality(Reserved) >= budget.pages THEN "max_pages"
    ELSE DomainReason(Host[u])

PageReason(u) ==
    IF Host[u] \notin budget.allowed THEN "allowed_domains"
    ELSE IF task[u].depth > budget.depth THEN "max_depth"
    ELSE IF task[u].reserved THEN ""
    ELSE IF Cardinality(Reserved) >= budget.pages THEN "max_pages"
    ELSE DomainReason(Host[u])

(* Waits for the lock; a superseded attempt ends.                          *)
Enter(w, pc, reason) ==
    /\ LockFree
    /\ IF Holds(w)
       THEN lock' = w /\ workers' = [workers EXCEPT ![w].pc = pc, ![w].reason = reason]
       ELSE GoIdle(w) /\ UNCHANGED lock

ReserveBegin(w) ==
    /\ At(w, "reserve")
    /\ Enter(w, "reserving", PageReason(TaskOf(w)))
    /\ UNCHANGED <<budget, task, domains, events, requested>>

ReserveCommit(w) ==
    LET u == TaskOf(w)
        reason == workers[w].reason
    IN  /\ At(w, "reserving") /\ lock' = Nobody
        /\ \/ /\ reason = ""
              /\ task' = [task EXCEPT ![u].reserved = TRUE]
              /\ domains' = IF task[u].reserved THEN domains ELSE domains \union {Host[u]}
              /\ workers' = [workers EXCEPT ![w].pc = "check", ![w].url = u]
              /\ UNCHANGED events
           \/ /\ reason # ""
              /\ events' = events \union {Event(u, u, reason)}
              /\ workers' = [workers EXCEPT ![w].pc = "limited"]
              /\ UNCHANGED <<task, domains>>
        /\ UNCHANGED <<budget, requested>>

-----------------------------------------------------------------------------
(* CheckPageURL, before every request, that of a redirect included.        *)

UrlReason(url) ==
    IF Host[url] \notin budget.allowed THEN "allowed_domains"
    ELSE DomainReason(Host[url])

CheckBegin(w) ==
    /\ At(w, "check")
    /\ Enter(w, "checking", UrlReason(workers[w].url))
    /\ UNCHANGED <<budget, task, domains, events, requested>>

CheckCommit(w) ==
    LET url == workers[w].url
        reason == workers[w].reason
    IN  /\ At(w, "checking") /\ lock' = Nobody
        /\ \/ /\ reason = ""
              /\ domains' = domains \union {Host[url]}
              /\ workers' = [workers EXCEPT ![w].pc = "request"]
              /\ UNCHANGED events
           \/ /\ reason # ""
              /\ events' = events \union {Event(TaskOf(w), url, reason)}
              /\ workers' = [workers EXCEPT ![w].pc = "limited"]
              /\ UNCHANGED domains
        /\ UNCHANGED <<budget, task, requested>>

(* The client's request is answered or sent on.                            *)
Request(w) ==
    LET u == TaskOf(w)
        url == workers[w].url
    IN  /\ At(w, "request")
        /\ requested' = requested \union {<<u, url>>}
        /\ \/ workers' = [workers EXCEPT ![w].pc = "expand", ![w].url = u, ![w].todo = Links[u]]
           \/ \E r \in Redirects[url] : workers' = [workers EXCEPT ![w].pc = "check", ![w].url = r]
        /\ UNCHANGED <<budget, task, domains, events, lock>>

-----------------------------------------------------------------------------
(* createTask for the next link of the page: what exists is returned, what *)
(* exceeds a limit is an event of the parent, which goes on.               *)

ChildReason(u, q) ==
    IF Host[q] \notin budget.allowed THEN "allowed_domains"
    ELSE IF task[u].depth + 1 > budget.depth THEN "max_depth"
    ELSE IF Cardinality(Existing) >= budget.tasks THEN "max_tasks"
    ELSE IF q \in Details /\ Cardinality(DetailsOf(u)) >= budget.discovered THEN "max_discovered_per_page"
    ELSE ""

CreateFinds(w, q) ==
    /\ At(w, "expand") /\ q \in workers[w].todo /\ LockFree
    /\ q \in Existing /\ Holds(w)
    /\ workers' = [workers EXCEPT ![w].todo = @ \ {q}]
    /\ UNCHANGED <<budget, task, domains, events, lock, requested>>

CreateBegin(w, q) ==
    /\ At(w, "expand") /\ q \in workers[w].todo /\ LockFree
    /\ q \notin Existing \/ ~Holds(w)
    /\ IF Holds(w)
       THEN /\ lock' = w
            /\ workers' = [workers EXCEPT ![w].pc = "creating", ![w].url = q,
                                          ![w].reason = ChildReason(TaskOf(w), q)]
       ELSE GoIdle(w) /\ UNCHANGED lock
    /\ UNCHANGED <<budget, task, domains, events, requested>>

CreateCommit(w) ==
    LET u == TaskOf(w)
        q == workers[w].url
        reason == workers[w].reason
    IN  /\ At(w, "creating") /\ lock' = Nobody
        /\ IF reason = ""
           THEN task' = [task EXCEPT ![q] = NewTask(u, task[u].depth + 1)] /\ UNCHANGED events
           ELSE events' = events \union {Event(u, q, reason)} /\ UNCHANGED task
        /\ workers' = [workers EXCEPT ![w].pc = "expand", ![w].todo = @ \ {q},
                                      ![w].url = u, ![w].reason = ""]
        /\ UNCHANGED <<budget, domains, requested>>

-----------------------------------------------------------------------------
(* The life of an attempt, as far as budgets see it: TaskEngine has its    *)
(* transactions one by one and counts the attempts.                        *)

Claim(w, u) ==
    /\ At(w, "idle") /\ LockFree
    /\ task[u].status = "queued"
    /\ task' = [task EXCEPT ![u].status = "running", ![u].owner = w]
    /\ workers' = [workers EXCEPT ![w] = [IdleWorker EXCEPT !.pc = "reserve", !.task = u]]
    /\ UNCHANGED <<budget, domains, events, lock, requested>>

(* Complete and Fail are fenced and do not take the run's lock.            *)
Ends(w, status) ==
    /\ task' = IF Holds(w) THEN [task EXCEPT ![TaskOf(w)].status = status, ![TaskOf(w)].owner = Nobody]
               ELSE task
    /\ GoIdle(w)
    /\ UNCHANGED <<budget, domains, lock, requested>>

Complete(w) ==
    /\ At(w, "expand") /\ workers[w].todo = {}
    /\ Ends(w, "succeeded")
    /\ UNCHANGED events

Fail(w) ==
    /\ At(w, "request") \/ At(w, "expand")
    /\ Ends(w, "queued")
    /\ UNCHANGED events

(* The event names the entry URL this time, whatever page was refused.     *)
CompleteLimited(w) ==
    /\ At(w, "limited")
    /\ events' = IF Holds(w) THEN events \union {Event(TaskOf(w), Root, workers[w].reason)} ELSE events
    /\ Ends(w, "limited")

(* The process dies, its transaction is rolled back.                       *)
Crash(w) ==
    /\ ~At(w, "idle")
    /\ GoIdle(w)
    /\ lock' = IF lock = w THEN Nobody ELSE lock
    /\ UNCHANGED <<budget, task, domains, events, requested>>

(* A lease expires and the task is recovered, its worker dead or not. That *)
(* RetryTask queues a task again later, or nobody claims it, is the same to*)
(* a budget.                                                               *)
Recover(u) ==
    /\ LockFree /\ task[u].status = "running"
    /\ task' = [task EXCEPT ![u].status = "queued", ![u].owner = Nobody]
    /\ UNCHANGED <<budget, domains, events, lock, workers, requested>>

Attempt(w) ==
    \/ ReserveBegin(w) \/ ReserveCommit(w) \/ CheckBegin(w) \/ CheckCommit(w) \/ Request(w)
    \/ CreateCommit(w) \/ Complete(w) \/ Fail(w) \/ CompleteLimited(w) \/ Crash(w)
    \/ \E q \in Urls : CreateFinds(w, q) \/ CreateBegin(w, q)

Next ==
    \/ \E w \in Workers : Attempt(w)
    \/ \E w \in Workers, u \in Urls : Claim(w, u)
    \/ \E u \in Urls : Recover(u)

Spec == Init /\ [][Next]_vars

-----------------------------------------------------------------------------
(* What is really requested stays within the budget: at most max_pages     *)
(* tasks request anything, from at most max_domains hosts, all allowed; at *)
(* most max_tasks tasks exist, none below max_depth, and of no page more   *)
(* than max_discovered_per_page details (budgets.go:98-260).               *)
WithinBudget ==
    /\ Cardinality({u \in Urls : \E url \in Urls : <<u, url>> \in requested}) <= budget.pages
    /\ Cardinality({Host[r[2]] : r \in requested}) <= budget.domains
    /\ \A r \in requested : Host[r[2]] \in budget.allowed
    /\ Cardinality(Existing) <= budget.tasks
    /\ \A u \in Existing : task[u].depth <= budget.depth /\ Cardinality(DetailsOf(u)) <= budget.discovered

(* Each limit is a Quota: a slot once given is kept over attempts, crashes *)
(* and retries, and nothing is refused that fits or that was admitted. The *)
(* host of the entry is never refused; the events that name it come from   *)
(* CompleteLimited.                                                        *)
Refused(reason) == {e \in events : e.reason = reason}

Pages == INSTANCE Quota WITH
    Items <- Urls, First <- {}, cap <- budget.pages,
    used <- Reserved, refused <- {e.task : e \in Refused("max_pages")}

Tasks == INSTANCE Quota WITH
    Items <- Urls, First <- {Root}, cap <- budget.tasks,
    used <- Existing, refused <- {e.url : e \in Refused("max_tasks")}

Domains == INSTANCE Quota WITH
    Items <- Hosts, First <- {}, cap <- budget.domains,
    used <- domains, refused <- {Host[e.url] : e \in Refused("max_domains")} \ {Host[Root]}

KeepsQuotas == Pages!Spec /\ Tasks!Spec /\ Domains!Spec
=============================================================================
