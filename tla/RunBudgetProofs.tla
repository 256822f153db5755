--------------------------- MODULE RunBudgetProofs --------------------------
(***************************************************************************)
(* No interleaving of attempts overruns a budget, for any pages, links,    *)
(* hosts, budgets and number of loops. The argument: who has decided under *)
(* the run's lock still holds it when it writes, and whatever changes the  *)
(* counts needs that lock, so the decision fits the counts it is applied   *)
(* to; Complete, Fail and the recovery touch none of what is counted.      *)
(***************************************************************************)
EXTENDS RunBudget, FiniteSetTheorems, TLAPS

InTransaction == {"reserving", "checking", "creating"}

(* What a loop knows at each of its steps.                                 *)
WorkerOK(w, q) ==
    /\ q.task \in Existing
    /\ q.pc \in InTransaction => lock = w
    /\ q.pc = "reserving" => q.reason = PageReason(q.task)
    /\ q.pc = "checking" => q.reason = UrlReason(q.url)
    /\ q.pc = "creating" => q.url \notin Existing /\ q.reason = ChildReason(q.task, q.url)
    /\ q.pc \in {"check", "checking", "request"} => q.task \in Reserved
    /\ q.pc = "request" => Host[q.url] \in domains \intersect budget.allowed
    /\ q.pc = "limited" =>
        /\ q.reason \in {"allowed_domains", "max_depth", "max_pages", "max_domains"}
        /\ q.reason = "max_pages" => \E e \in events : e.task = q.task /\ e.reason = "max_pages"

Counted ==
    /\ Root \in Existing /\ Reserved \subseteq Existing
    /\ Cardinality(Reserved) <= budget.pages
    /\ Cardinality(domains) <= budget.domains
    /\ Cardinality(Existing) <= budget.tasks
    /\ \A u \in Existing : task[u].depth <= budget.depth
    /\ \A u \in Urls : Cardinality(DetailsOf(u)) <= budget.discovered
    /\ \A r \in requested : r[1] \in Reserved /\ Host[r[2]] \in domains \intersect budget.allowed

BudgetInv == TypeOK /\ Counted /\ \A w \in Workers : WorkerOK(w, workers[w])

-----------------------------------------------------------------------------
LEMMA Finite ==
    ASSUME BudgetAssumption, TypeOK
    PROVE  /\ IsFiniteSet(Existing) /\ IsFiniteSet(Reserved) /\ IsFiniteSet(domains)
           /\ Cardinality(Existing) \in Nat /\ Cardinality(Reserved) \in Nat /\ Cardinality(domains) \in Nat
           /\ \A p : IsFiniteSet(DetailsOf(p)) /\ Cardinality(DetailsOf(p)) \in Nat
<1>1. Existing \subseteq Urls /\ Reserved \subseteq Urls /\ domains \subseteq Hosts
      /\ \A p : DetailsOf(p) \subseteq Urls
  BY DEF Existing, Reserved, DetailsOf, TypeOK
<1>2. IsFiniteSet(Urls) /\ IsFiniteSet(Hosts)
  BY DEF BudgetAssumption
<1>3. /\ IsFiniteSet(Existing) /\ IsFiniteSet(Reserved) /\ IsFiniteSet(domains)
      /\ \A p : IsFiniteSet(DetailsOf(p))
  BY <1>1, <1>2, FS_Subset
<1> QED
  BY <1>3, FS_CardinalityType

LEMMA BudgetTyped ==
    ASSUME BudgetAssumption, TypeOK
    PROVE  /\ budget.discovered \in Nat /\ budget.tasks \in Nat \ {0} /\ budget.pages \in Nat
           /\ budget.depth \in Nat /\ budget.domains \in Nat
           /\ budget.allowed \subseteq Hosts /\ Host[Root] \in budget.allowed
BY DEF BudgetAssumption, TypeOK

LEMMA InitInv ==
    ASSUME BudgetAssumption
    PROVE  Init => BudgetInv
<1> SUFFICES ASSUME Init PROVE BudgetInv
  OBVIOUS
<1>1. Root \in Urls /\ Nobody \notin Workers
  BY DEF BudgetAssumption
<1>2. NewTask(Root, 0) \in TaskRec /\ [NewTask(Root, 0) EXCEPT !.status = "none"] \in TaskRec
  BY <1>1 DEF NewTask, TaskRec
<1>3. IdleWorker \in WorkerRec
  BY <1>1 DEF IdleWorker, WorkerRec, Pcs
<1>4. TypeOK
  BY <1>1, <1>2, <1>3 DEF Init, TypeOK
<1>5. \A u \in Urls : /\ task[u].depth = 0 /\ ~task[u].reserved
                      /\ task[u].status = IF u = Root THEN "queued" ELSE "none"
  BY DEF Init, NewTask
<1>6. Existing = {Root} /\ Reserved = {} /\ \A p : DetailsOf(p) = {}
  BY <1>1, <1>5 DEF Existing, Reserved, DetailsOf
<1>7. Cardinality(Existing) = 1 /\ Cardinality(Reserved) = 0 /\ Cardinality(domains) = 0
      /\ \A p : Cardinality(DetailsOf(p)) = 0
  BY <1>6, FS_EmptySet, FS_Singleton DEF Init
<1>8. Counted
  BY <1>1, <1>4, <1>5, <1>6, <1>7, BudgetTyped DEF Counted, Init
<1>9. \A w \in Workers : WorkerOK(w, workers[w])
  BY <1>6 DEF Init, WorkerOK, IdleWorker, InTransaction
<1> QED
  BY <1>4, <1>8, <1>9 DEF BudgetInv

-----------------------------------------------------------------------------
(* What attempts do outside a transaction on the budget.                   *)
Frozen ==
    /\ budget' = budget /\ domains' = domains
    /\ \A u \in Urls : /\ task'[u].reserved = task[u].reserved
                       /\ task'[u].depth = task[u].depth /\ task'[u].parent = task[u].parent
                       /\ task'[u].status = "none" <=> task[u].status = "none"

LEMMA FrozenSets ==
    ASSUME BudgetAssumption, Frozen
    PROVE  /\ Existing' = Existing /\ Reserved' = Reserved
           /\ \A p : DetailsOf(p)' = DetailsOf(p)
           /\ \A u \in Urls : PageReason(u)' = PageReason(u) /\ UrlReason(u)' = UrlReason(u)
           /\ \A u, q \in Urls : ChildReason(u, q)' = ChildReason(u, q)
<1>1. Existing' = Existing /\ Reserved' = Reserved
  BY DEF Frozen, Existing, Reserved
<1>2. \A p : DetailsOf(p)' = DetailsOf(p)
  BY <1>1 DEF Frozen, DetailsOf, Existing
<1>3. \A h : DomainReason(h)' = DomainReason(h)
  BY DEF Frozen, DomainReason
<1>4. \A u \in Urls : PageReason(u)' = PageReason(u)
  BY <1>1, <1>3 DEF Frozen, PageReason
<1>5. \A u \in Urls : UrlReason(u)' = UrlReason(u)
  BY <1>3 DEF Frozen, UrlReason
<1>6. \A u, q \in Urls : ChildReason(u, q)' = ChildReason(u, q)
  BY <1>1, <1>2 DEF Frozen, ChildReason
<1> QED
  BY <1>1, <1>2, <1>4, <1>5, <1>6

(* What a transaction adds to. A loop that does not move keeps what it     *)
(* knows, if nobody else is in a transaction while it is.                  *)
Grows ==
    /\ budget' = budget
    /\ Existing \subseteq Existing' /\ Reserved \subseteq Reserved'
    /\ domains \subseteq domains' /\ events \subseteq events'

LEMMA Bystander ==
    ASSUME BudgetAssumption, NEW v \in Workers, NEW q \in WorkerRec, WorkerOK(v, q), Grows,
           q.pc \in InTransaction => Frozen /\ lock' = lock
    PROVE  WorkerOK(v, q)'
<1>1. q.task \in Urls /\ q.url \in Urls
  BY DEF WorkerRec
<1>2. CASE q.pc \in InTransaction
  BY <1>1, <1>2, FrozenSets DEF WorkerOK, Grows, InTransaction, Frozen
<1>3. CASE q.pc \notin InTransaction
  BY <1>3 DEF WorkerOK, Grows, InTransaction
<1> QED
  BY <1>2, <1>3

LEMMA IdleOK ==
    ASSUME BudgetAssumption
    PROVE  IdleWorker \in WorkerRec /\ \A w : Root \in Existing => WorkerOK(w, IdleWorker)
<1>1. Root \in Urls
  BY DEF BudgetAssumption
<1>2. IdleWorker \in WorkerRec
  BY <1>1 DEF IdleWorker, WorkerRec, Pcs
<1> QED
  BY <1>2 DEF IdleWorker, WorkerOK, InTransaction

(* A step of loop w, that then is at p.                                    *)
LEMMA Step ==
    ASSUME BudgetAssumption, BudgetInv, NEW w \in Workers, NEW p \in WorkerRec,
           workers' = [workers EXCEPT ![w] = p], Grows, Counted', WorkerOK(w, p)',
           task' \in [Urls -> TaskRec], domains' \in SUBSET Hosts,
           events' \in SUBSET [task : Urls, url : Urls, reason : Reasons],
           requested' \in SUBSET (Urls \X Urls), lock' \in Workers \union {Nobody},
           lock = w \/ (Frozen /\ (lock' = lock \/ lock = Nobody))
    PROVE  BudgetInv'
<1>1. TypeOK /\ workers \in [Workers -> WorkerRec]
  BY DEF BudgetInv, TypeOK
<1>2. workers' \in [Workers -> WorkerRec]
  BY <1>1
<1>3. TypeOK'
  BY <1>1, <1>2 DEF TypeOK, Grows
<1>4. ASSUME NEW v \in Workers PROVE WorkerOK(v, workers[v])'
  <2>1. CASE v = w
    <3>1. workers'[v] = p
      BY <1>1, <2>1
    <3> QED
      BY <2>1, <3>1 DEF WorkerOK
  <2>2. CASE v # w
    <3>1. PICK q \in WorkerRec : q = workers[v]
      BY <1>1
    <3>2. workers'[v] = q
      BY <1>1, <2>2, <3>1
    <3>3. WorkerOK(v, q)
      BY <3>1 DEF BudgetInv
    <3>4. v # Nobody
      BY DEF BudgetAssumption
    <3>5. q.pc \in InTransaction => lock = v
      BY <3>3 DEF WorkerOK
    <3>6. WorkerOK(v, q)'
      BY <3>3, <3>4, <3>5, <2>2, Bystander
    <3> QED
      BY <3>2, <3>6 DEF WorkerOK
  <2> QED
    BY <2>1, <2>2
<1> QED
  BY <1>3, <1>4 DEF BudgetInv

(* A step outside a transaction, or that takes or drops the lock.          *)
LEMMA QuietStep ==
    ASSUME BudgetAssumption, BudgetInv, NEW w \in Workers, NEW p \in WorkerRec,
           workers' = [workers EXCEPT ![w] = p], Frozen, requested' = requested,
           task' \in [Urls -> TaskRec], events \subseteq events',
           events' \in SUBSET [task : Urls, url : Urls, reason : Reasons],
           \/ lock' = lock
           \/ lock = Nobody /\ lock' = w
           \/ lock = w /\ lock' = Nobody,
           WorkerOK(w, p)'
    PROVE  BudgetInv'
<1>1. TypeOK /\ Counted
  BY DEF BudgetInv
<1>2. Existing' = Existing /\ Reserved' = Reserved /\ (\A u : DetailsOf(u)' = DetailsOf(u))
  BY FrozenSets
<1>3. Grows
  BY <1>2 DEF Grows, Frozen
<1>4. Existing \subseteq Urls
  BY DEF Existing
<1>5. Counted'
  BY <1>1, <1>2, <1>4 DEF Counted, Frozen
<1>6. domains' \in SUBSET Hosts /\ requested' \in SUBSET (Urls \X Urls) /\ lock' \in Workers \union {Nobody}
  BY <1>1 DEF TypeOK, Frozen
<1> QED
  BY <1>3, <1>5, <1>6, Step

LEMMA IdleStep ==
    ASSUME BudgetAssumption, BudgetInv, NEW w \in Workers, GoIdle(w), Frozen, requested' = requested,
           task' \in [Urls -> TaskRec], events \subseteq events',
           events' \in SUBSET [task : Urls, url : Urls, reason : Reasons],
           lock' = lock \/ (lock = w /\ lock' = Nobody)
    PROVE  BudgetInv'
<1>1. Root \in Existing'
  BY FrozenSets DEF BudgetInv, Counted
<1>2. IdleWorker \in WorkerRec
  BY IdleOK
<1>3. PICK p \in WorkerRec : p = IdleWorker
  BY <1>2
<1>4. WorkerOK(w, p)'
  BY <1>1, <1>3 DEF IdleWorker, WorkerOK, InTransaction
<1>5. workers' = [workers EXCEPT ![w] = p]
  BY <1>3 DEF GoIdle
<1> QED
  BY <1>4, <1>5, QuietStep

LEMMA ReasonsTyped ==
    ASSUME NEW u, NEW q
    PROVE  /\ PageReason(u) \in {"", "allowed_domains", "max_depth", "max_pages", "max_domains"}
           /\ UrlReason(q) \in {"", "allowed_domains", "max_domains"}
           /\ ChildReason(u, q) \in Reasons \union {""}
<1>1. PageReason(u) \in {"", "allowed_domains", "max_depth", "max_pages", "max_domains"}
  BY DEF PageReason, DomainReason
<1>2. UrlReason(q) \in {"", "allowed_domains", "max_domains"}
  BY DEF UrlReason, DomainReason
<1>3. ChildReason(u, q) \in Reasons \union {""}
  BY DEF ChildReason, Reasons
<1> QED
  BY <1>1, <1>2, <1>3

LEMMA Facts ==
    ASSUME BudgetInv, NEW w \in Workers
    PROVE  /\ workers[w] \in WorkerRec /\ WorkerOK(w, workers[w])
           /\ task \in [Urls -> TaskRec] /\ workers \in [Workers -> WorkerRec]
           /\ events \in SUBSET [task : Urls, url : Urls, reason : Reasons]
           /\ workers[w].task \in Urls /\ workers[w].url \in Urls
           /\ workers[w].todo \in SUBSET Urls /\ workers[w].pc \in Pcs
           /\ workers[w].reason \in Reasons \union {""}
<1>1. workers[w] \in WorkerRec /\ WorkerOK(w, workers[w])
      /\ task \in [Urls -> TaskRec] /\ workers \in [Workers -> WorkerRec]
      /\ events \in SUBSET [task : Urls, url : Urls, reason : Reasons]
  BY DEF BudgetInv, TypeOK
<1> QED
  BY <1>1 DEF WorkerRec

LEMMA ReserveBeginKeeps ==
    ASSUME BudgetAssumption, BudgetInv, NEW w \in Workers, ReserveBegin(w)
    PROVE  BudgetInv'
<1>1. Frozen /\ lock = Nobody
  BY DEF ReserveBegin, Enter, LockFree, Frozen
<1>2. CASE ~Holds(w)
  BY <1>1, <1>2, Facts, IdleStep DEF ReserveBegin, Enter
<1>3. CASE Holds(w)
  <2> DEFINE r == PageReason(TaskOf(w))
             q == [workers[w] EXCEPT !.pc = "reserving", !.reason = r]
  <2>1. r \in Reasons \union {""}
    BY ReasonsTyped DEF Reasons
  <2>2. q \in WorkerRec /\ q.pc = "reserving" /\ q.reason = r /\ q.task = TaskOf(w)
    BY <2>1, Facts DEF WorkerRec, Pcs, TaskOf
  <2>3. workers' = [workers EXCEPT ![w] = q] /\ lock' = w
    BY <1>3, Facts DEF ReserveBegin, Enter
  <2> HIDE DEF q
  <2>4. PICK p \in WorkerRec : p = q
    BY <2>2
  <2>5. p.task \in Urls /\ p.task = workers[w].task /\ p.reason = PageReason(p.task)
    BY <2>2, <2>4, Facts DEF TaskOf
  <2>6. p.task \in Existing
    BY <2>5, Facts DEF WorkerOK
  <2>7. WorkerOK(w, p)'
    BY <1>1, <2>2, <2>3, <2>4, <2>5, <2>6, FrozenSets DEF WorkerOK, InTransaction
  <2> QED
    BY <1>1, <2>3, <2>4, <2>7, Facts, QuietStep DEF ReserveBegin
<1> QED
  BY <1>2, <1>3

LEMMA CheckBeginKeeps ==
    ASSUME BudgetAssumption, BudgetInv, NEW w \in Workers, CheckBegin(w)
    PROVE  BudgetInv'
<1>1. Frozen /\ lock = Nobody
  BY DEF CheckBegin, Enter, LockFree, Frozen
<1>2. CASE ~Holds(w)
  BY <1>1, <1>2, Facts, IdleStep DEF CheckBegin, Enter
<1>3. CASE Holds(w)
  <2> DEFINE r == UrlReason(workers[w].url)
             q == [workers[w] EXCEPT !.pc = "checking", !.reason = r]
  <2>1. r \in Reasons \union {""}
    BY ReasonsTyped DEF Reasons
  <2>2. q \in WorkerRec /\ q.pc = "checking" /\ q.reason = r /\ q.task = TaskOf(w) /\ q.url = workers[w].url
    BY <2>1, Facts DEF WorkerRec, Pcs, TaskOf
  <2>3. workers' = [workers EXCEPT ![w] = q] /\ lock' = w
    BY <1>3, Facts DEF CheckBegin, Enter
  <2> HIDE DEF q
  <2>4. PICK p \in WorkerRec : p = q
    BY <2>2
  <2>5. p.url \in Urls /\ p.task = workers[w].task /\ p.reason = UrlReason(p.url)
    BY <2>2, <2>4, Facts DEF TaskOf
  <2>6. p.task \in Existing /\ p.task \in Reserved
    BY <2>5, Facts DEF WorkerOK, CheckBegin, At
  <2>7. WorkerOK(w, p)'
    BY <1>1, <2>2, <2>3, <2>4, <2>5, <2>6, FrozenSets DEF WorkerOK, InTransaction
  <2> QED
    BY <1>1, <2>3, <2>4, <2>7, Facts, QuietStep DEF CheckBegin
<1> QED
  BY <1>2, <1>3

LEMMA CreateFindsKeeps ==
    ASSUME BudgetAssumption, BudgetInv, NEW w \in Workers, NEW l \in Urls, CreateFinds(w, l)
    PROVE  BudgetInv'
<1>1. Frozen
  BY DEF CreateFinds, Frozen
<1> DEFINE q == [workers[w] EXCEPT !.todo = workers[w].todo \ {l}]
<1>2. q \in WorkerRec /\ q.pc = "expand" /\ q.task = workers[w].task
  BY Facts DEF WorkerRec, CreateFinds, At
<1>3. workers' = [workers EXCEPT ![w] = q]
  BY Facts DEF CreateFinds
<1> HIDE DEF q
<1>4. PICK p \in WorkerRec : p = q
  BY <1>2
<1>5. WorkerOK(w, p)'
  BY <1>1, <1>2, <1>4, Facts, FrozenSets DEF WorkerOK, InTransaction
<1> QED
  BY <1>1, <1>3, <1>4, <1>5, Facts, QuietStep DEF CreateFinds

LEMMA CreateBeginKeeps ==
    ASSUME BudgetAssumption, BudgetInv, NEW w \in Workers, NEW l \in Urls, CreateBegin(w, l)
    PROVE  BudgetInv'
<1>1. Frozen /\ lock = Nobody
  BY DEF CreateBegin, LockFree, Frozen
<1>2. CASE ~Holds(w)
  BY <1>1, <1>2, Facts, IdleStep DEF CreateBegin
<1>3. CASE Holds(w)
  <2> DEFINE r == ChildReason(TaskOf(w), l)
             q == [workers[w] EXCEPT !.pc = "creating", !.url = l, !.reason = r]
  <2>1. r \in Reasons \union {""}
    BY ReasonsTyped
  <2>2. q \in WorkerRec /\ q.pc = "creating" /\ q.reason = r /\ q.task = TaskOf(w) /\ q.url = l
    BY <2>1, Facts DEF WorkerRec, Pcs, TaskOf
  <2>3. workers' = [workers EXCEPT ![w] = q] /\ lock' = w /\ l \notin Existing
    BY <1>3, Facts DEF CreateBegin
  <2> HIDE DEF q
  <2>4. PICK p \in WorkerRec : p = q
    BY <2>2
  <2>5. p.task \in Urls /\ p.url \in Urls /\ p.task = workers[w].task
        /\ p.reason = ChildReason(p.task, p.url) /\ p.url \notin Existing
    BY <2>2, <2>3, <2>4, Facts DEF TaskOf
  <2>6. p.task \in Existing
    BY <2>5, Facts DEF WorkerOK
  <2>7. WorkerOK(w, p)'
    BY <1>1, <2>2, <2>3, <2>4, <2>5, <2>6, FrozenSets DEF WorkerOK, InTransaction
  <2> QED
    BY <1>1, <2>3, <2>4, <2>7, Facts, QuietStep DEF CreateBegin
<1> QED
  BY <1>2, <1>3

LEMMA RequestKeeps ==
    ASSUME BudgetAssumption, BudgetInv, NEW w \in Workers, Request(w)
    PROVE  BudgetInv'
<1> DEFINE u == workers[w].task
           url == workers[w].url
<1>1. Frozen /\ TypeOK /\ Counted
  BY DEF Request, Frozen, BudgetInv
<1>2. u \in Urls /\ url \in Urls /\ u \in Reserved /\ Host[url] \in domains \intersect budget.allowed
      /\ u \in Existing
  BY Facts DEF Request, At, WorkerOK
<1>3. requested' = requested \union {<<u, url>>}
  BY DEF Request, TaskOf
<1>4. Existing' = Existing /\ Reserved' = Reserved /\ (\A v : DetailsOf(v)' = DetailsOf(v))
  BY <1>1, FrozenSets
<1>5. Existing \subseteq Urls
  BY DEF Existing
<1> HIDE DEF u, url
<1>6. \A r \in requested' : r[1] \in Reserved' /\ Host[r[2]] \in domains' \intersect budget'.allowed
  BY <1>1, <1>2, <1>3, <1>4 DEF Counted, Frozen
<1>7. Counted'
  BY <1>1, <1>4, <1>5, <1>6 DEF Counted, Frozen
<1>8. Grows /\ lock' = lock
  BY <1>1, <1>4 DEF Grows, Frozen, Request
<1>9. /\ task' \in [Urls -> TaskRec] /\ domains' \in SUBSET Hosts
      /\ events' \in SUBSET [task : Urls, url : Urls, reason : Reasons]
      /\ requested' \in SUBSET (Urls \X Urls) /\ lock' \in Workers \union {Nobody}
  BY <1>1, <1>2, <1>3 DEF Request, TypeOK
<1>10. ASSUME NEW p \in WorkerRec, workers' = [workers EXCEPT ![w] = p], p.pc \in {"expand", "check"}, p.task = u
       PROVE  BudgetInv'
  <2>1. WorkerOK(w, p)'
    BY <1>2, <1>4, <1>10 DEF WorkerOK, InTransaction
  <2> QED
    BY <1>1, <1>7, <1>8, <1>9, <1>10, <2>1, Step
<1>11. CASE workers' = [workers EXCEPT ![w].pc = "expand", ![w].url = TaskOf(w), ![w].todo = Links[TaskOf(w)]]
  <2> DEFINE q == [workers[w] EXCEPT !.pc = "expand", !.url = TaskOf(w), !.todo = Links[TaskOf(w)]]
  <2>1. Links[TaskOf(w)] \in SUBSET Urls /\ TaskOf(w) \in Urls
    BY Facts DEF BudgetAssumption, TaskOf
  <2>2. q \in WorkerRec /\ q.pc = "expand" /\ q.task = u
    BY <2>1, Facts DEF WorkerRec, Pcs, u
  <2>3. workers' = [workers EXCEPT ![w] = q]
    BY <1>11, Facts
  <2> QED
    BY <1>10, <2>2, <2>3
<1>12. CASE \E r \in Redirects[workers[w].url] : workers' = [workers EXCEPT ![w].pc = "check", ![w].url = r]
  <2>1. Redirects[workers[w].url] \subseteq Urls
    BY Facts DEF BudgetAssumption
  <2>2. PICK r \in Urls : workers' = [workers EXCEPT ![w].pc = "check", ![w].url = r]
    BY <1>12, <2>1
  <2> DEFINE q == [workers[w] EXCEPT !.pc = "check", !.url = r]
  <2>3. q \in WorkerRec /\ q.pc = "check" /\ q.task = u
    BY Facts DEF WorkerRec, Pcs, u
  <2>4. workers' = [workers EXCEPT ![w] = q]
    BY <2>2, Facts
  <2> QED
    BY <1>10, <2>3, <2>4
<1> QED
  BY <1>11, <1>12 DEF Request

LEMMA ClaimFrozen ==
    ASSUME BudgetInv, NEW w \in Workers, NEW u \in Urls, Claim(w, u)
    PROVE  Frozen /\ task' \in [Urls -> TaskRec] /\ u \in Existing
<1> DEFINE t == [task[u] EXCEPT !.status = "running", !.owner = w]
<1>1. task[u] \in TaskRec /\ task \in [Urls -> TaskRec]
  BY Facts
<1>2. t \in TaskRec /\ t.status = "running" /\ t.parent = task[u].parent
      /\ t.depth = task[u].depth /\ t.reserved = task[u].reserved
  BY <1>1 DEF TaskRec
<1>3. task' = [task EXCEPT ![u] = t] /\ task[u].status = "queued"
  BY <1>1 DEF Claim
<1> HIDE DEF t
<1> QED
  BY <1>1, <1>2, <1>3 DEF Frozen, Claim, Existing

LEMMA ClaimKeeps ==
    ASSUME BudgetAssumption, BudgetInv, NEW w \in Workers, NEW u \in Urls, Claim(w, u)
    PROVE  BudgetInv'
<1> DEFINE q == [IdleWorker EXCEPT !.pc = "reserve", !.task = u]
<1>1. Frozen /\ task' \in [Urls -> TaskRec] /\ u \in Existing
  BY ClaimFrozen
<1>2. q \in WorkerRec /\ q.pc = "reserve" /\ q.task = u
  BY IdleOK DEF WorkerRec, Pcs
<1>3. workers' = [workers EXCEPT ![w] = q]
  BY DEF Claim
<1> HIDE DEF q
<1>4. PICK p \in WorkerRec : p = q
  BY <1>2
<1>5. WorkerOK(w, p)'
  BY <1>1, <1>2, <1>4, FrozenSets DEF WorkerOK, InTransaction
<1> QED
  BY <1>1, <1>3, <1>4, <1>5, Facts, QuietStep DEF Claim

LEMMA EndsFrozen ==
    ASSUME BudgetInv, NEW w \in Workers, NEW s \in {"succeeded", "queued", "limited"}, Ends(w, s)
    PROVE  Frozen /\ task' \in [Urls -> TaskRec]
<1>1. CASE ~Holds(w)
  BY <1>1, Facts DEF Ends, Frozen
<1>2. CASE Holds(w)
  <2> DEFINE u == workers[w].task
             t == [task[u] EXCEPT !.status = s, !.owner = Nobody]
  <2>1. u \in Urls /\ task[u] \in TaskRec /\ task \in [Urls -> TaskRec]
    BY Facts
  <2>2. t \in TaskRec /\ t.status = s /\ t.parent = task[u].parent
        /\ t.depth = task[u].depth /\ t.reserved = task[u].reserved
    BY <2>1 DEF TaskRec
  <2>3. task' = [task EXCEPT ![u] = t] /\ task[u].status = "running"
    BY <1>2, <2>1 DEF Ends, Holds, TaskOf
  <2>4. budget' = budget /\ domains' = domains
    BY DEF Ends
  <2> HIDE DEF u, t
  <2> QED
    BY <2>1, <2>2, <2>3, <2>4 DEF Frozen
<1> QED
  BY <1>1, <1>2

LEMMA EndsKeeps ==
    ASSUME BudgetAssumption, BudgetInv, NEW w \in Workers, NEW s \in {"succeeded", "queued", "limited"},
           Ends(w, s), events \subseteq events',
           events' \in SUBSET [task : Urls, url : Urls, reason : Reasons]
    PROVE  BudgetInv'
<1> QED
  BY EndsFrozen, IdleStep DEF Ends

LEMMA CompleteLimitedKeeps ==
    ASSUME BudgetAssumption, BudgetInv, NEW w \in Workers, CompleteLimited(w)
    PROVE  BudgetInv'
<1>1. workers[w].reason \in Reasons /\ TaskOf(w) \in Urls /\ Root \in Urls
  BY Facts DEF CompleteLimited, At, WorkerOK, Reasons, TaskOf, BudgetAssumption
<1>2. Event(TaskOf(w), Root, workers[w].reason) \in [task : Urls, url : Urls, reason : Reasons]
  BY <1>1 DEF Event
<1>3. events \subseteq events' /\ events' \in SUBSET [task : Urls, url : Urls, reason : Reasons]
  BY <1>2, Facts DEF CompleteLimited
<1> QED
  BY <1>3, EndsKeeps DEF CompleteLimited

LEMMA CrashKeeps ==
    ASSUME BudgetAssumption, BudgetInv, NEW w \in Workers, Crash(w)
    PROVE  BudgetInv'
<1>1. Frozen
  BY DEF Crash, Frozen
<1> QED
  BY <1>1, Facts, IdleStep DEF Crash

LEMMA RecoverFrozen ==
    ASSUME BudgetInv, NEW u \in Urls, Recover(u)
    PROVE  Frozen /\ task' \in [Urls -> TaskRec]
<1> DEFINE t == [task[u] EXCEPT !.status = "queued", !.owner = Nobody]
<1>1. task \in [Urls -> TaskRec] /\ task[u] \in TaskRec
  BY DEF BudgetInv, TypeOK
<1>2. t \in TaskRec /\ t.status = "queued" /\ t.parent = task[u].parent
      /\ t.depth = task[u].depth /\ t.reserved = task[u].reserved
  BY <1>1 DEF TaskRec
<1>3. task' = [task EXCEPT ![u] = t] /\ task[u].status = "running"
  BY <1>1 DEF Recover
<1> HIDE DEF t
<1> QED
  BY <1>1, <1>2, <1>3 DEF Frozen, Recover

(* Nobody moves.                                                           *)
LEMMA StillKeeps ==
    ASSUME BudgetAssumption, BudgetInv, Frozen, task' \in [Urls -> TaskRec],
           UNCHANGED <<events, lock, workers, requested>>
    PROVE  BudgetInv'
<1>1. TypeOK /\ Counted
  BY DEF BudgetInv
<1>2. Existing' = Existing /\ Reserved' = Reserved /\ (\A v : DetailsOf(v)' = DetailsOf(v))
  BY FrozenSets
<1>3. TypeOK'
  BY <1>1 DEF TypeOK, Frozen
<1>4. Existing \subseteq Urls
  BY DEF Existing
<1>5. Counted'
  BY <1>1, <1>2, <1>4 DEF Counted, Frozen
<1>6. Grows
  BY <1>2 DEF Grows, Frozen
<1>7. ASSUME NEW v \in Workers PROVE WorkerOK(v, workers[v])'
  <2>1. PICK q \in WorkerRec : q = workers[v]
    BY Facts
  <2>2. WorkerOK(v, q)
    BY <2>1 DEF BudgetInv
  <2>3. WorkerOK(v, q)'
    BY <1>6, <2>2, Bystander
  <2> QED
    BY <2>1, <2>3 DEF WorkerOK
<1> QED
  BY <1>3, <1>5, <1>7 DEF BudgetInv

-----------------------------------------------------------------------------
(* The commits, by who holds the lock since it decided.                    *)

(* A refusal is written down, and nothing else.                            *)
LEMMA RefusalKeeps ==
    ASSUME BudgetAssumption, BudgetInv, NEW w \in Workers, NEW url \in Urls, NEW p \in WorkerRec,
           lock = w, lock' = Nobody, workers' = [workers EXCEPT ![w] = p],
           UNCHANGED <<budget, task, domains, requested>>,
           workers[w].reason \in Reasons, p.task = workers[w].task,
           events' = events \union {Event(TaskOf(w), url, workers[w].reason)},
           \/ p.pc = "expand"
           \/ /\ p.pc = "limited" /\ p.reason = workers[w].reason
              /\ p.reason \in {"allowed_domains", "max_depth", "max_pages", "max_domains"}
    PROVE  BudgetInv'
<1>1. Frozen
  BY DEF Frozen
<1>2. Event(TaskOf(w), url, workers[w].reason) \in [task : Urls, url : Urls, reason : Reasons]
  BY Facts DEF Event, TaskOf
<1>3. events \subseteq events' /\ events' \in SUBSET [task : Urls, url : Urls, reason : Reasons]
  BY <1>2, Facts
<1>4. p.task \in Existing'
  BY <1>1, Facts, FrozenSets DEF WorkerOK
<1>5. p.pc = "limited" => \E e \in events' : e.task = p.task /\ e.reason = p.reason
  <2> DEFINE e == Event(TaskOf(w), url, workers[w].reason)
  <2>1. e \in events' /\ e.task = p.task /\ e.reason = workers[w].reason
    BY DEF Event, TaskOf
  <2> HIDE DEF e
  <2> QED
    BY <2>1
<1>6. WorkerOK(w, p)'
  BY <1>4, <1>5 DEF WorkerOK, InTransaction
<1> QED
  BY <1>1, <1>3, <1>6, Facts, QuietStep

LEMMA SlotFree ==
    ASSUME NEW n \in Nat, NEW cap \in Nat, ~(n >= cap)
    PROVE  n + 1 <= cap
OBVIOUS

LEMMA Below ==
    ASSUME NEW n \in Nat, NEW cap \in Nat, ~(n >= cap)
    PROVE  n < cap
OBVIOUS

LEMMA AddHost ==
    ASSUME BudgetAssumption, BudgetInv, NEW h \in Hosts, DomainReason(h) = ""
    PROVE  /\ domains \union {h} \in SUBSET Hosts
           /\ Cardinality(domains \union {h}) <= budget.domains
<1>1. TypeOK /\ Counted
  BY DEF BudgetInv
<1>2. IsFiniteSet(domains) /\ Cardinality(domains) \in Nat /\ budget.domains \in Nat
  BY <1>1, Finite, BudgetTyped
<1>3. CASE h \in domains
  <2>1. domains \union {h} = domains
    BY <1>3
  <2> QED
    BY <1>1, <2>1 DEF Counted, TypeOK
<1>4. CASE h \notin domains
  <2>1. Cardinality(domains \union {h}) = Cardinality(domains) + 1
    BY <1>2, <1>4, FS_AddElement
  <2>2. ~(Cardinality(domains) >= budget.domains)
    BY <1>4 DEF DomainReason
  <2>3. domains \union {h} \in SUBSET Hosts
    BY <1>1 DEF TypeOK
  <2>4. Cardinality(domains \union {h}) <= budget.domains
    BY <1>2, <2>1, <2>2, SlotFree
  <2> QED
    BY <2>3, <2>4
<1> QED
  BY <1>3, <1>4

LEMMA ReserveCommitKeeps ==
    ASSUME BudgetAssumption, BudgetInv, NEW w \in Workers, ReserveCommit(w)
    PROVE  BudgetInv'
<1> DEFINE u == workers[w].task
           r == workers[w].reason
<1>1. u \in Urls /\ u \in Existing /\ lock = w /\ r = PageReason(u) /\ TaskOf(w) = u
  BY Facts DEF ReserveCommit, At, WorkerOK, InTransaction, TaskOf
<1>2. TypeOK /\ Counted
  BY DEF BudgetInv
<1>3. CASE r # ""
  <2> DEFINE q == [workers[w] EXCEPT !.pc = "limited"]
  <2>1. q \in WorkerRec /\ q.pc = "limited" /\ q.reason = r /\ q.task = u
    BY Facts DEF WorkerRec, Pcs
  <2>2. workers' = [workers EXCEPT ![w] = q]
    BY <1>3, Facts DEF ReserveCommit
  <2>3. r \in {"allowed_domains", "max_depth", "max_pages", "max_domains"}
    BY <1>1, <1>3, ReasonsTyped
  <2>4. /\ UNCHANGED <<budget, task, domains, requested>>
        /\ lock' = Nobody /\ events' = events \union {Event(TaskOf(w), u, r)}
    BY <1>3, <1>1 DEF ReserveCommit
  <2> HIDE DEF q
  <2> QED
    BY <1>1, <2>1, <2>2, <2>3, <2>4, RefusalKeeps DEF Reasons
<1>4. CASE r = ""
  <2> DEFINE q == [workers[w] EXCEPT !.pc = "check", !.url = u]
             t == [task[u] EXCEPT !.reserved = TRUE]
  <2>1. q \in WorkerRec /\ q.pc = "check" /\ q.task = u
    BY Facts DEF WorkerRec, Pcs
  <2>2. workers' = [workers EXCEPT ![w] = q]
    BY <1>4, <1>1, Facts DEF ReserveCommit
  <2>3. task[u] \in TaskRec /\ task \in [Urls -> TaskRec]
    BY <1>1, Facts
  <2>4. /\ t \in TaskRec /\ t.reserved /\ t.parent = task[u].parent
        /\ t.depth = task[u].depth /\ t.status = task[u].status
    BY <2>3 DEF TaskRec
  <2>5. task' = [task EXCEPT ![u] = t] /\ lock' = Nobody
        /\ UNCHANGED <<budget, events, requested>>
        /\ domains' = IF task[u].reserved THEN domains ELSE domains \union {Host[u]}
    BY <1>1, <1>4, <2>3 DEF ReserveCommit
  <2>6. PageReason(u) = ""
    BY <1>1, <1>4
  <2> HIDE DEF q, t, r, u
  <2>7. \A v \in Urls : /\ task'[v].status = task[v].status /\ task'[v].parent = task[v].parent
                         /\ task'[v].depth = task[v].depth
    BY <2>3, <2>4, <2>5
  <2>8. Existing' = Existing /\ Reserved' = Reserved \union {u} /\ \A v : DetailsOf(v)' = DetailsOf(v)
    <3>1. Existing' = Existing
      BY <2>7 DEF Existing
    <3>2. Reserved' = Reserved \union {u}
      BY <1>1, <2>3, <2>4, <2>5 DEF Reserved
    <3>3. \A v : DetailsOf(v)' = DetailsOf(v)
      BY <2>7, <3>1 DEF DetailsOf, Existing
    <3> QED
      BY <3>1, <3>2, <3>3
  <2>9. Cardinality(Reserved') <= budget.pages
    <3>1. IsFiniteSet(Reserved) /\ Cardinality(Reserved) \in Nat /\ budget.pages \in Nat
      BY <1>2, Finite, BudgetTyped
    <3>2. CASE u \in Reserved
      <4>1. Reserved' = Reserved
        BY <2>8, <3>2
      <4> QED
        BY <1>2, <4>1 DEF Counted
    <3>3. CASE u \notin Reserved
      <4>1. Cardinality(Reserved') = Cardinality(Reserved) + 1
        BY <2>8, <3>1, <3>3, FS_AddElement
      <4>2. ~(Cardinality(Reserved) >= budget.pages)
        BY <1>1, <2>6, <3>3 DEF PageReason, Reserved
      <4> QED
        BY <3>1, <4>1, <4>2
    <3> QED
      BY <3>2, <3>3
  <2>10. /\ domains' \in SUBSET Hosts /\ Cardinality(domains') <= budget.domains
         /\ domains \subseteq domains'
    <3>1. CASE task[u].reserved
      BY <1>2, <2>5, <3>1 DEF Counted, TypeOK
    <3>2. CASE ~task[u].reserved
      <4>1. Host[u] \in Hosts
        BY <1>1 DEF BudgetAssumption
      <4>2. DomainReason(Host[u]) = ""
        BY <2>6, <3>2 DEF PageReason
      <4> QED
        BY <2>5, <3>2, <4>1, <4>2, AddHost
    <3> QED
      BY <3>1, <3>2
  <2>11. Existing \subseteq Urls
    BY DEF Existing
  <2>12. Counted'
    BY <1>1, <1>2, <2>5, <2>7, <2>8, <2>9, <2>10, <2>11 DEF Counted
  <2>13. Grows
    BY <2>5, <2>8, <2>10 DEF Grows
  <2>14. PICK p \in WorkerRec : p = q
    BY <2>1
  <2>15. WorkerOK(w, p)'
    BY <1>1, <2>1, <2>8, <2>14 DEF WorkerOK, InTransaction
  <2>16. task' \in [Urls -> TaskRec]
    BY <2>3, <2>4, <2>5
  <2> QED
    BY <1>1, <1>2, <2>2, <2>5, <2>10, <2>12, <2>13, <2>14, <2>15, <2>16, Step DEF TypeOK
<1> QED
  BY <1>3, <1>4

LEMMA CheckCommitKeeps ==
    ASSUME BudgetAssumption, BudgetInv, NEW w \in Workers, CheckCommit(w)
    PROVE  BudgetInv'
<1> DEFINE u == workers[w].task
           url == workers[w].url
           r == workers[w].reason
<1>1. u \in Existing /\ u \in Reserved /\ lock = w /\ r = UrlReason(url) /\ TaskOf(w) = u /\ url \in Urls
  BY Facts DEF CheckCommit, At, WorkerOK, InTransaction, TaskOf
<1>2. TypeOK /\ Counted
  BY DEF BudgetInv
<1>3. CASE r # ""
  <2> DEFINE q == [workers[w] EXCEPT !.pc = "limited"]
  <2>1. q \in WorkerRec /\ q.pc = "limited" /\ q.reason = r /\ q.task = u
    BY Facts DEF WorkerRec, Pcs
  <2>2. workers' = [workers EXCEPT ![w] = q]
    BY <1>3, Facts DEF CheckCommit
  <2>3. r \in {"allowed_domains", "max_domains"}
    BY <1>1, <1>3, ReasonsTyped
  <2>4. /\ UNCHANGED <<budget, task, domains, requested>>
        /\ lock' = Nobody /\ events' = events \union {Event(TaskOf(w), url, r)}
    BY <1>3, <1>1 DEF CheckCommit
  <2> HIDE DEF q
  <2> QED
    BY <1>1, <2>1, <2>2, <2>3, <2>4, RefusalKeeps DEF Reasons
<1>4. CASE r = ""
  <2> DEFINE q == [workers[w] EXCEPT !.pc = "request"]
  <2>1. q \in WorkerRec /\ q.pc = "request" /\ q.task = u /\ q.url = url
    BY Facts DEF WorkerRec, Pcs
  <2>2. workers' = [workers EXCEPT ![w] = q]
    BY <1>4, Facts DEF CheckCommit
  <2>3. lock' = Nobody /\ UNCHANGED <<budget, task, events, requested>>
        /\ domains' = domains \union {Host[url]}
    BY <1>4 DEF CheckCommit
  <2>4. Host[url] \in budget.allowed /\ DomainReason(Host[url]) = ""
    BY <1>1, <1>4 DEF UrlReason
  <2> HIDE DEF q, r, u, url
  <2>5. Host[url] \in Hosts
    BY <1>1 DEF BudgetAssumption
  <2>6. domains' \in SUBSET Hosts /\ Cardinality(domains') <= budget.domains /\ domains \subseteq domains'
    BY <2>3, <2>4, <2>5, AddHost
  <2>7. Existing' = Existing /\ Reserved' = Reserved /\ \A v : DetailsOf(v)' = DetailsOf(v)
    BY <2>3 DEF Existing, Reserved, DetailsOf
  <2>8. Counted'
    BY <1>2, <2>3, <2>6, <2>7 DEF Counted
  <2>9. Grows
    BY <2>3, <2>6, <2>7 DEF Grows
  <2>10. PICK p \in WorkerRec : p = q
    BY <2>1
  <2>11. WorkerOK(w, p)'
    BY <1>1, <2>1, <2>3, <2>4, <2>7, <2>10 DEF WorkerOK, InTransaction
  <2> QED
    BY <1>1, <1>2, <2>2, <2>3, <2>6, <2>8, <2>9, <2>10, <2>11, Step DEF TypeOK
<1> QED
  BY <1>3, <1>4

LEMMA CreateCommitKeeps ==
    ASSUME BudgetAssumption, BudgetInv, NEW w \in Workers, CreateCommit(w)
    PROVE  BudgetInv'
<1>0. PICK u \in Urls, c \in Urls : u = workers[w].task /\ c = workers[w].url
  BY Facts
<1> DEFINE r == workers[w].reason
           q == [workers[w] EXCEPT !.pc = "expand", !.todo = workers[w].todo \ {c},
                                   !.url = u, !.reason = ""]
<1>1. /\ u \in Existing /\ u \in Urls /\ lock = w /\ r = ChildReason(u, c) /\ TaskOf(w) = u
      /\ c \in Urls /\ c \notin Existing
  BY <1>0, Facts DEF CreateCommit, At, WorkerOK, InTransaction, TaskOf
<1>2. TypeOK /\ Counted
  BY DEF BudgetInv
<1>3. q \in WorkerRec /\ q.pc = "expand" /\ q.task = u
  BY <1>0, Facts DEF WorkerRec, Pcs
<1>4. workers' = [workers EXCEPT ![w] = q]
  BY <1>0, <1>1, Facts DEF CreateCommit
<1>5. CASE r # ""
  <2>1. r \in Reasons
    BY <1>5, Facts
  <2>2. /\ UNCHANGED <<budget, task, domains, requested>>
        /\ lock' = Nobody /\ events' = events \union {Event(TaskOf(w), c, r)}
    BY <1>5, <1>0, <1>1 DEF CreateCommit
  <2> HIDE DEF q
  <2> QED
    BY <1>0, <1>1, <1>3, <1>4, <2>1, <2>2, RefusalKeeps
<1>6. CASE r = ""
  <2> DEFINE t == NewTask(u, task[u].depth + 1)
  <2>1. task[u] \in TaskRec /\ task \in [Urls -> TaskRec]
    BY <1>1, Facts
  <2>2. task[u].depth \in Nat
    BY <2>1 DEF TaskRec
  <2>3. /\ t \in TaskRec /\ t.parent = u /\ ~t.reserved
        /\ t.depth = task[u].depth + 1 /\ t.status = "queued"
    BY <1>1, <2>2 DEF TaskRec, NewTask
  <2>4. task' = [task EXCEPT ![c] = t] /\ lock' = Nobody
        /\ UNCHANGED <<budget, domains, events, requested>>
    BY <1>0, <1>1, <1>6 DEF CreateCommit
  <2>5. ChildReason(u, c) = ""
    BY <1>1, <1>6
  <2> HIDE DEF q, t, r
  <2>6. task'[c] = t /\ \A v \in Urls \ {c} : task'[v] = task[v]
    BY <1>1, <2>1, <2>4
  <2>7. Existing' = Existing \union {c}
    BY <1>1, <2>3, <2>6 DEF Existing
  <2>8. Reserved' = Reserved
    <3>1. c \notin Reserved
      BY <1>1, <1>2 DEF Counted
    <3> QED
      BY <1>1, <2>3, <2>6, <3>1 DEF Reserved
  <2>9. c # Root
    BY <1>1, <1>2 DEF Counted
  <2>10. \A v \in Urls \ {u} : DetailsOf(v)' = DetailsOf(v)
    BY <1>1, <2>3, <2>6, <2>7 DEF DetailsOf, Existing
  <2>11. DetailsOf(u)' = IF c \in Details THEN DetailsOf(u) \union {c} ELSE DetailsOf(u)
    <3>1. DetailsOf(u)' = {v \in (Existing \union {c}) \intersect Details : task'[v].parent = u /\ v # Root}
      BY <2>4, <2>7 DEF DetailsOf
    <3>2. \A v \in Existing : v # c /\ task'[v] = task[v]
      BY <1>1, <2>6 DEF Existing
    <3>3. task'[c].parent = u
      BY <2>3, <2>6
    <3> QED
      BY <2>9, <3>1, <3>2, <3>3 DEF DetailsOf
  <2>12. budget.depth \in Nat /\ budget.discovered \in Nat /\ budget.tasks \in Nat
    BY <1>2, BudgetTyped
  <2>13. Cardinality(Existing') <= budget.tasks
    <3>1. IsFiniteSet(Existing) /\ Cardinality(Existing) \in Nat
      BY <1>2, Finite
    <3>2. Cardinality(Existing') = Cardinality(Existing) + 1
      BY <1>1, <2>7, <3>1, FS_AddElement
    <3>3. ~(Cardinality(Existing) >= budget.tasks)
      BY <2>5 DEF ChildReason
    <3> QED
      BY <2>12, <3>1, <3>2, <3>3, SlotFree
  <2>14. Cardinality(DetailsOf(u)') <= budget.discovered
    <3>1. IsFiniteSet(DetailsOf(u)) /\ Cardinality(DetailsOf(u)) \in Nat
      BY <1>2, Finite
    <3>2. CASE c \notin Details
      BY <1>1, <1>2, <2>11, <3>2 DEF Counted
    <3>3. CASE c \in Details
      <4>1. c \notin DetailsOf(u)
        BY <1>1 DEF DetailsOf
      <4>2. Cardinality(DetailsOf(u)') = Cardinality(DetailsOf(u)) + 1
        BY <2>11, <3>1, <3>3, <4>1, FS_AddElement
      <4>3. ~(Cardinality(DetailsOf(u)) >= budget.discovered)
        BY <2>5, <3>3 DEF ChildReason
      <4> QED
        BY <2>12, <3>1, <4>2, <4>3, SlotFree
    <3> QED
      BY <3>2, <3>3
  <2>15. ASSUME NEW v \in Existing' PROVE task'[v].depth <= budget.depth
    <3>1. CASE v = c
      <4>1. ~(task[u].depth + 1 > budget.depth)
        BY <2>5 DEF ChildReason
      <4> QED
        BY <2>2, <2>3, <2>6, <2>12, <3>1, <4>1
    <3>2. CASE v # c
      <4>1. v \in Existing /\ v \in Urls
        BY <2>7, <3>2 DEF Existing
      <4> QED
        BY <1>2, <2>6, <3>2, <4>1 DEF Counted
    <3> QED
      BY <3>1, <3>2
  <2>16. ASSUME NEW v \in Urls PROVE Cardinality(DetailsOf(v)') <= budget.discovered
    <3>1. CASE v = u
      BY <2>14, <3>1
    <3>2. CASE v # u
      <4>1. DetailsOf(v)' = DetailsOf(v)
        BY <2>10, <3>2
      <4> QED
        BY <1>2, <4>1 DEF Counted
    <3> QED
      BY <3>1, <3>2
  <2>17. Counted'
    BY <1>2, <2>4, <2>7, <2>8, <2>13, <2>15, <2>16 DEF Counted
  <2>18. Grows
    BY <2>4, <2>7, <2>8 DEF Grows
  <2>19. PICK p \in WorkerRec : p = q
    BY <1>3
  <2>20. WorkerOK(w, p)'
    BY <1>1, <1>3, <2>7, <2>19 DEF WorkerOK, InTransaction
  <2>21. task' \in [Urls -> TaskRec]
    BY <2>1, <2>3, <2>4
  <2> QED
    BY <1>1, <1>2, <1>4, <2>4, <2>17, <2>18, <2>19, <2>20, <2>21, Step DEF TypeOK
<1> QED
  BY <1>5, <1>6

-----------------------------------------------------------------------------
(* BudgetInv is kept by every step.                                        *)
LEMMA StepKeeps ==
    ASSUME BudgetAssumption, BudgetInv, [Next]_vars
    PROVE  BudgetInv'
<1>1. ASSUME NEW w \in Workers, Attempt(w) PROVE BudgetInv'
  BY <1>1, ReserveBeginKeeps, ReserveCommitKeeps, CheckBeginKeeps, CheckCommitKeeps, RequestKeeps,
     CreateCommitKeeps, EndsKeeps, CompleteLimitedKeeps, CrashKeeps, CreateFindsKeeps, CreateBeginKeeps,
     Facts DEF Attempt, Complete, Fail
<1>2. ASSUME NEW w \in Workers, NEW u \in Urls, Claim(w, u) PROVE BudgetInv'
  BY <1>2, ClaimKeeps
<1>3. ASSUME NEW u \in Urls, Recover(u) PROVE BudgetInv'
  BY <1>3, RecoverFrozen, StillKeeps DEF Recover
<1>4. CASE UNCHANGED vars
  <2>1. Frozen /\ task' \in [Urls -> TaskRec]
    BY <1>4 DEF vars, Frozen, BudgetInv, TypeOK
  <2> QED
    BY <1>4, <2>1, StillKeeps DEF vars
<1> QED
  BY <1>1, <1>2, <1>3, <1>4 DEF Next

(* Under the run's lock, at every state of every interleaving: the counts  *)
(* of the run are within its budget, every host requested is registered    *)
(* and allowed, and what a transaction decided is still so when it writes. *)
THEOREM BudgetInductive ==
    ASSUME BudgetAssumption
    PROVE  Spec => []BudgetInv
<1>1. Init => BudgetInv
  BY InitInv
<1>2. BudgetInv /\ [Next]_vars => BudgetInv'
  BY StepKeeps
<1> QED
  BY <1>1, <1>2, PTL DEF Spec

(* What is really requested, created and kept is within the budget, in     *)
(* every run (budgets.go:98-260).                                          *)
THEOREM BudgetsAreKept ==
    ASSUME BudgetAssumption
    PROVE  Spec => []WithinBudget
<1>1. BudgetInv => WithinBudget
  <2> SUFFICES ASSUME BudgetInv PROVE WithinBudget
    OBVIOUS
  <2> DEFINE A == {u \in Urls : \E url \in Urls : <<u, url>> \in requested}
             B == {Host[r[2]] : r \in requested}
  <2>1. TypeOK /\ Counted
    BY DEF BudgetInv
  <2>2. A \subseteq Reserved /\ B \subseteq domains
    BY <2>1 DEF Counted
  <2>3. /\ IsFiniteSet(Reserved) /\ IsFiniteSet(domains)
        /\ Cardinality(Reserved) \in Nat /\ Cardinality(domains) \in Nat
        /\ budget.pages \in Nat /\ budget.domains \in Nat
    BY <2>1, Finite, BudgetTyped
  <2> HIDE DEF A, B
  <2>4. /\ Cardinality(A) \in Nat /\ Cardinality(A) <= Cardinality(Reserved)
        /\ Cardinality(B) \in Nat /\ Cardinality(B) <= Cardinality(domains)
    BY <2>2, <2>3, FS_Subset, FS_CardinalityType
  <2>5. Cardinality(A) <= budget.pages /\ Cardinality(B) <= budget.domains
    BY <2>1, <2>3, <2>4 DEF Counted
  <2>6. Cardinality(Existing) <= budget.tasks /\ \A r \in requested : Host[r[2]] \in budget.allowed
    BY <2>1 DEF Counted
  <2>7. Existing \subseteq Urls
    BY DEF Existing
  <2>8. \A u \in Existing : task[u].depth <= budget.depth /\ Cardinality(DetailsOf(u)) <= budget.discovered
    BY <2>1, <2>7 DEF Counted
  <2> QED
    BY <2>5, <2>6, <2>8 DEF WithinBudget, A, B
<1> QED
  BY <1>1, BudgetInductive, PTL

-----------------------------------------------------------------------------
(* Each limit implements a Quota.                                          *)
RefusedPages == {e.task : e \in Refused("max_pages")}
RefusedTasks == {e.url : e \in Refused("max_tasks")}
RefusedHosts == {Host[e.url] : e \in Refused("max_domains")} \ {Host[Root]}

LEMMA QuotaInit ==
    ASSUME BudgetAssumption, Init
    PROVE  Pages!Init /\ Tasks!Init /\ Domains!Init
<1>1. TypeOK
  BY InitInv DEF BudgetInv
<1>2. budget.pages \in Nat /\ budget.tasks \in Nat /\ budget.domains \in Nat
  BY <1>1, BudgetTyped
<1>3. \A reason : Refused(reason) = {}
  BY DEF Init, Refused
<1>4. Root \in Urls
  BY DEF BudgetAssumption
<1>5. Existing = {Root} /\ Reserved = {}
  BY <1>4 DEF Init, NewTask, Existing, Reserved
<1> QED
  BY <1>2, <1>3, <1>5 DEF Pages!Init, Tasks!Init, Domains!Init, Init

LEMMA SameCardinality ==
    ASSUME NEW S
    PROVE  Pages!Cardinality(S) = Cardinality(S) /\ Tasks!Cardinality(S) = Cardinality(S)
           /\ Domains!Cardinality(S) = Cardinality(S)
<1>1. Pages!Cardinality(S) = Cardinality(S)
  BY DEF Cardinality, Pages!Cardinality
<1>2. Tasks!Cardinality(S) = Cardinality(S)
  BY DEF Cardinality, Tasks!Cardinality
<1>3. Domains!Cardinality(S) = Cardinality(S)
  BY DEF Cardinality, Domains!Cardinality
<1> QED
  BY <1>1, <1>2, <1>3

LEMMA PagesNext ==
    ASSUME budget' = budget,
           \/ Reserved' = Reserved /\ RefusedPages' = RefusedPages
           \/ \E x \in Urls :
                \/ /\ x \notin Reserved /\ Cardinality(Reserved) < budget.pages
                   /\ Reserved' = Reserved \union {x} /\ RefusedPages' = RefusedPages
                \/ /\ x \notin Reserved /\ Cardinality(Reserved) >= budget.pages
                   /\ RefusedPages' = RefusedPages \union {x} /\ Reserved' = Reserved
    PROVE  [Pages!Next]_(Pages!vars)
<1> USE SameCardinality DEF RefusedPages
<1> QED
  BY DEF Pages!Next, Pages!vars, Pages!Admit, Pages!Refuse

LEMMA TasksNext ==
    ASSUME budget' = budget,
           \/ Existing' = Existing /\ RefusedTasks' = RefusedTasks
           \/ \E x \in Urls :
                \/ /\ x \notin Existing /\ Cardinality(Existing) < budget.tasks
                   /\ Existing' = Existing \union {x} /\ RefusedTasks' = RefusedTasks
                \/ /\ x \notin Existing /\ Cardinality(Existing) >= budget.tasks
                   /\ RefusedTasks' = RefusedTasks \union {x} /\ Existing' = Existing
    PROVE  [Tasks!Next]_(Tasks!vars)
<1> USE SameCardinality DEF RefusedTasks
<1> QED
  BY DEF Tasks!Next, Tasks!vars, Tasks!Admit, Tasks!Refuse

LEMMA DomainsNext ==
    ASSUME budget' = budget,
           \/ domains' = domains /\ RefusedHosts' = RefusedHosts
           \/ \E x \in Hosts :
                \/ /\ x \notin domains /\ Cardinality(domains) < budget.domains
                   /\ domains' = domains \union {x} /\ RefusedHosts' = RefusedHosts
                \/ /\ x \notin domains /\ Cardinality(domains) >= budget.domains
                   /\ RefusedHosts' = RefusedHosts \union {x} /\ domains' = domains
    PROVE  [Domains!Next]_(Domains!vars)
<1> USE SameCardinality DEF RefusedHosts
<1> QED
  BY DEF Domains!Next, Domains!vars, Domains!Admit, Domains!Refuse

Quotas == [Pages!Next]_(Pages!vars) /\ [Tasks!Next]_(Tasks!vars) /\ [Domains!Next]_(Domains!vars)

LEMMA EventAdds ==
    ASSUME NEW u, NEW url, NEW r, events' = events \union {Event(u, url, r)}
    PROVE  /\ RefusedPages' = IF r = "max_pages" THEN RefusedPages \union {u} ELSE RefusedPages
           /\ RefusedTasks' = IF r = "max_tasks" THEN RefusedTasks \union {url} ELSE RefusedTasks
           /\ RefusedHosts' = IF r = "max_domains" /\ Host[url] # Host[Root]
                              THEN RefusedHosts \union {Host[url]} ELSE RefusedHosts
<1>1. \A reason : Refused(reason)' = IF r = reason THEN Refused(reason) \union {Event(u, url, r)} ELSE Refused(reason)
  BY DEF Refused, Event
<1>2. Event(u, url, r).task = u /\ Event(u, url, r).url = url
  BY DEF Event
<1>3. RefusedPages' = IF r = "max_pages" THEN RefusedPages \union {u} ELSE RefusedPages
  BY <1>1, <1>2 DEF RefusedPages
<1>4. RefusedTasks' = IF r = "max_tasks" THEN RefusedTasks \union {url} ELSE RefusedTasks
  BY <1>1, <1>2 DEF RefusedTasks
<1>5. RefusedHosts' = IF r = "max_domains" /\ Host[url] # Host[Root]
                     THEN RefusedHosts \union {Host[url]} ELSE RefusedHosts
  BY <1>1, <1>2 DEF RefusedHosts
<1> QED
  BY <1>3, <1>4, <1>5

LEMMA QuietQuotas ==
    ASSUME BudgetAssumption, Frozen, events' = events
    PROVE  Quotas
<1>1. Existing' = Existing /\ Reserved' = Reserved /\ budget' = budget /\ domains' = domains
  BY FrozenSets DEF Frozen
<1>2. RefusedPages' = RefusedPages /\ RefusedTasks' = RefusedTasks /\ RefusedHosts' = RefusedHosts
  BY DEF RefusedPages, RefusedTasks, RefusedHosts, Refused
<1> QED
  BY <1>1, <1>2, PagesNext, TasksNext, DomainsNext DEF Quotas

LEMMA LimitedQuotas ==
    ASSUME BudgetAssumption, BudgetInv, NEW w \in Workers, CompleteLimited(w)
    PROVE  Quotas
<1>1. Frozen
  BY EndsFrozen DEF CompleteLimited
<1>2. CASE ~Holds(w)
  BY <1>1, <1>2, QuietQuotas DEF CompleteLimited
<1>3. CASE Holds(w)
  <2>1. PICK u \in Urls, r \in {workers[w].reason} : u = workers[w].task /\ r = workers[w].reason
    BY Facts
  <2>2. events' = events \union {Event(u, Root, r)}
    BY <1>3, <2>1 DEF CompleteLimited, TaskOf
  <2>3. /\ r \in {"allowed_domains", "max_depth", "max_pages", "max_domains"}
        /\ r = "max_pages" => \E e \in events : e.task = u /\ e.reason = "max_pages"
    BY <2>1, Facts DEF CompleteLimited, At, WorkerOK
  <2>4. r = "max_pages" => u \in RefusedPages
    BY <2>3 DEF RefusedPages, Refused
  <2>5. RefusedPages' = RefusedPages /\ RefusedTasks' = RefusedTasks /\ RefusedHosts' = RefusedHosts
    BY <2>2, <2>3, <2>4, EventAdds
  <2>6. Existing' = Existing /\ Reserved' = Reserved /\ budget' = budget /\ domains' = domains
    BY <1>1, FrozenSets DEF Frozen
  <2> QED
    BY <2>5, <2>6, PagesNext, TasksNext, DomainsNext DEF Quotas
<1> QED
  BY <1>2, <1>3

LEMMA HostRefused ==
    ASSUME BudgetAssumption, BudgetInv, NEW url \in Urls, NEW u, DomainReason(Host[url]) = "max_domains",
           budget' = budget, domains' = domains, events' = events \union {Event(u, url, "max_domains")}
    PROVE  [Domains!Next]_(Domains!vars)
<1>1. PICK h \in Hosts : h = Host[url]
  BY DEF BudgetAssumption
<1>2. h \notin domains /\ Cardinality(domains) >= budget.domains
  BY <1>1 DEF DomainReason
<1>3. RefusedHosts' = IF h # Host[Root] THEN RefusedHosts \union {h} ELSE RefusedHosts
  BY <1>1, EventAdds
<1> QED
  BY <1>2, <1>3, DomainsNext

LEMMA HostAdded ==
    ASSUME BudgetAssumption, BudgetInv, NEW h \in Hosts, DomainReason(h) = "",
           budget' = budget, domains' = domains \union {h}, events' = events
    PROVE  [Domains!Next]_(Domains!vars)
<1>1. RefusedHosts' = RefusedHosts
  BY DEF RefusedHosts, Refused
<1>2. CASE h \in domains
  BY <1>1, <1>2, DomainsNext
<1>3. CASE h \notin domains
  <2>1. ~(Cardinality(domains) >= budget.domains)
    BY <1>3 DEF DomainReason
  <2>2. Cardinality(domains) \in Nat /\ budget.domains \in Nat
    BY Finite, BudgetTyped DEF BudgetInv
  <2>3. Cardinality(domains) < budget.domains
    BY <2>1, <2>2, Below
  <2> QED
    BY <1>1, <1>3, <2>3, DomainsNext
<1> QED
  BY <1>2, <1>3

LEMMA CheckQuotas ==
    ASSUME BudgetAssumption, BudgetInv, NEW w \in Workers, CheckCommit(w)
    PROVE  Quotas
<1>1. PICK u \in Urls, url \in Urls, r \in {workers[w].reason} :
        u = workers[w].task /\ url = workers[w].url /\ r = workers[w].reason
  BY Facts
<1>2. r = UrlReason(url)
  BY <1>1, Facts DEF CheckCommit, At, WorkerOK
<1>3. budget' = budget /\ Existing' = Existing /\ Reserved' = Reserved
  BY DEF CheckCommit, Existing, Reserved
<1>4. CASE r = ""
  <2>1. domains' = domains \union {Host[url]} /\ events' = events
    BY <1>1, <1>4 DEF CheckCommit
  <2>2. Host[url] \in Hosts /\ DomainReason(Host[url]) = ""
    BY <1>2, <1>4 DEF BudgetAssumption, UrlReason
  <2>3. [Domains!Next]_(Domains!vars)
    BY <1>3, <2>1, <2>2, HostAdded
  <2>4. RefusedPages' = RefusedPages /\ RefusedTasks' = RefusedTasks
    BY <2>1 DEF RefusedPages, RefusedTasks, Refused
  <2> QED
    BY <1>3, <2>3, <2>4, PagesNext, TasksNext DEF Quotas
<1>5. CASE r # ""
  <2>1. domains' = domains /\ events' = events \union {Event(u, url, r)}
    BY <1>1, <1>5 DEF CheckCommit, TaskOf
  <2>2. r \in {"allowed_domains", "max_domains"}
    BY <1>2, <1>5, ReasonsTyped
  <2>3. RefusedPages' = RefusedPages /\ RefusedTasks' = RefusedTasks
    BY <2>1, <2>2, EventAdds
  <2>4. CASE r = "max_domains"
    <3>1. DomainReason(Host[url]) = "max_domains"
      BY <1>2, <2>4 DEF UrlReason
    <3>2. [Domains!Next]_(Domains!vars)
      BY <1>3, <2>1, <2>4, <3>1, HostRefused
    <3> QED
      BY <1>3, <2>3, <3>2, PagesNext, TasksNext DEF Quotas
  <2>5. CASE r # "max_domains"
    <3>1. RefusedHosts' = RefusedHosts
      BY <2>1, <2>5, EventAdds
    <3> QED
      BY <1>3, <2>1, <2>3, <3>1, PagesNext, TasksNext, DomainsNext DEF Quotas
  <2> QED
    BY <2>4, <2>5
<1> QED
  BY <1>4, <1>5

LEMMA ReserveQuotas ==
    ASSUME BudgetAssumption, BudgetInv, NEW w \in Workers, ReserveCommit(w)
    PROVE  Quotas
<1>1. PICK u \in Urls, r \in {workers[w].reason} : u = workers[w].task /\ r = workers[w].reason
  BY Facts
<1>2. r = PageReason(u) /\ task \in [Urls -> TaskRec]
  BY <1>1, Facts DEF ReserveCommit, At, WorkerOK
<1>3. budget' = budget
  BY DEF ReserveCommit
<1>4. CASE r = ""
  <2>1. task' = [task EXCEPT ![u].reserved = TRUE] /\ events' = events
        /\ domains' = IF task[u].reserved THEN domains ELSE domains \union {Host[u]}
    BY <1>1, <1>4 DEF ReserveCommit, TaskOf
  <2>2. \A v \in Urls : task'[v].status = task[v].status
    BY <1>2, <2>1 DEF TaskRec
  <2>3. Existing' = Existing
    BY <2>2 DEF Existing
  <2>4. task[u] \in TaskRec
    BY <1>2
  <2>5. task'[u].reserved /\ \A v \in Urls \ {u} : task'[v] = task[v]
    BY <1>2, <2>1, <2>4 DEF TaskRec
  <2>6. Reserved' = Reserved \union {u}
    BY <2>5 DEF Reserved
  <2>7. RefusedPages' = RefusedPages /\ RefusedTasks' = RefusedTasks /\ RefusedHosts' = RefusedHosts
    BY <2>1 DEF RefusedPages, RefusedTasks, RefusedHosts, Refused
  <2>8. CASE task[u].reserved
    <3>1. Reserved' = Reserved /\ domains' = domains
      BY <2>1, <2>6, <2>8 DEF Reserved
    <3> QED
      BY <1>3, <2>3, <2>7, <3>1, PagesNext, TasksNext, DomainsNext DEF Quotas
  <2>9. CASE ~task[u].reserved
    <3>1. u \notin Reserved /\ Host[u] \in Hosts /\ domains' = domains \union {Host[u]}
      BY <2>1, <2>9 DEF Reserved, BudgetAssumption
    <3>2. ~(Cardinality(Reserved) >= budget.pages) /\ DomainReason(Host[u]) = ""
      BY <1>2, <1>4, <2>9 DEF PageReason
    <3>3. Cardinality(Reserved) \in Nat /\ budget.pages \in Nat
      BY Finite, BudgetTyped DEF BudgetInv
    <3>4. Cardinality(Reserved) < budget.pages
      BY <3>2, <3>3, Below
    <3>5. [Domains!Next]_(Domains!vars)
      BY <1>3, <2>1, <3>1, <3>2, HostAdded
    <3>6. [Pages!Next]_(Pages!vars)
      BY <1>3, <2>6, <2>7, <3>1, <3>4, PagesNext
    <3> QED
      BY <1>3, <2>3, <2>7, <3>5, <3>6, TasksNext DEF Quotas
  <2> QED
    BY <2>8, <2>9
<1>5. CASE r # ""
  <2>1. domains' = domains /\ task' = task /\ events' = events \union {Event(u, u, r)}
    BY <1>1, <1>5 DEF ReserveCommit, TaskOf
  <2>2. r \in {"allowed_domains", "max_depth", "max_pages", "max_domains"}
    BY <1>2, <1>5, ReasonsTyped
  <2>3. Existing' = Existing /\ Reserved' = Reserved
    BY <2>1 DEF Existing, Reserved
  <2>4. [Tasks!Next]_(Tasks!vars)
    BY <1>3, <2>1, <2>2, <2>3, EventAdds, TasksNext
  <2>5. [Pages!Next]_(Pages!vars)
    <3>1. CASE r = "max_pages"
      <4>1. u \notin Reserved /\ Cardinality(Reserved) >= budget.pages
        BY <1>2, <3>1 DEF PageReason, Reserved, DomainReason
      <4>2. RefusedPages' = RefusedPages \union {u}
        BY <2>1, <3>1, EventAdds
      <4> QED
        BY <1>3, <2>3, <4>1, <4>2, PagesNext
    <3>2. CASE r # "max_pages"
      <4>1. RefusedPages' = RefusedPages
        BY <2>1, <3>2, EventAdds
      <4> QED
        BY <1>3, <2>3, <4>1, PagesNext
    <3> QED
      BY <3>1, <3>2
  <2>6. [Domains!Next]_(Domains!vars)
    <3>1. CASE r = "max_domains"
      <4>1. DomainReason(Host[u]) = "max_domains"
        BY <1>2, <3>1 DEF PageReason
      <4> QED
        BY <1>3, <2>1, <3>1, <4>1, HostRefused
    <3>2. CASE r # "max_domains"
      <4>1. RefusedHosts' = RefusedHosts
        BY <2>1, <3>2, EventAdds
      <4> QED
        BY <1>3, <2>1, <4>1, DomainsNext
    <3> QED
      BY <3>1, <3>2
  <2> QED
    BY <2>4, <2>5, <2>6 DEF Quotas
<1> QED
  BY <1>4, <1>5

LEMMA CreateQuotas ==
    ASSUME BudgetAssumption, BudgetInv, NEW w \in Workers, CreateCommit(w)
    PROVE  Quotas
<1>1. PICK u \in Urls, c \in Urls, r \in {workers[w].reason} :
        u = workers[w].task /\ c = workers[w].url /\ r = workers[w].reason
  BY Facts
<1>2. c \notin Existing /\ r = ChildReason(u, c) /\ task \in [Urls -> TaskRec] /\ Reserved \subseteq Existing
  BY <1>1, Facts DEF CreateCommit, At, WorkerOK, BudgetInv, Counted
<1>3. budget' = budget /\ domains' = domains
  BY DEF CreateCommit
<1>4. CASE r = ""
  <2>1. task' = [task EXCEPT ![c] = NewTask(u, task[u].depth + 1)] /\ events' = events
    BY <1>1, <1>4 DEF CreateCommit, TaskOf
  <2>2. task'[c] = NewTask(u, task[u].depth + 1) /\ \A v \in Urls \ {c} : task'[v] = task[v]
    BY <1>2, <2>1
  <2>3. task'[c].status = "queued" /\ ~task'[c].reserved
    BY <2>2 DEF NewTask
  <2>4. Existing' = Existing \union {c}
    BY <2>2, <2>3 DEF Existing
  <2>5. Reserved' = Reserved
    BY <1>2, <2>2, <2>3 DEF Reserved
  <2>6. RefusedPages' = RefusedPages /\ RefusedTasks' = RefusedTasks /\ RefusedHosts' = RefusedHosts
    BY <2>1 DEF RefusedPages, RefusedTasks, RefusedHosts, Refused
  <2>7. ~(Cardinality(Existing) >= budget.tasks)
    BY <1>2, <1>4 DEF ChildReason
  <2>8. Cardinality(Existing) \in Nat /\ budget.tasks \in Nat
    BY Finite, BudgetTyped DEF BudgetInv
  <2>9. Cardinality(Existing) < budget.tasks
    BY <2>7, <2>8, Below
  <2>10. [Tasks!Next]_(Tasks!vars)
    BY <1>2, <1>3, <2>4, <2>6, <2>9, TasksNext
  <2> QED
    BY <1>3, <2>5, <2>6, <2>10, PagesNext, DomainsNext DEF Quotas
<1>5. CASE r # ""
  <2>1. task' = task /\ events' = events \union {Event(u, c, r)}
    BY <1>1, <1>5 DEF CreateCommit, TaskOf
  <2>2. r \in {"allowed_domains", "max_depth", "max_tasks", "max_discovered_per_page"}
    BY <1>2, <1>5 DEF ChildReason
  <2>3. Existing' = Existing /\ Reserved' = Reserved
    BY <2>1 DEF Existing, Reserved
  <2>4. RefusedPages' = RefusedPages /\ RefusedHosts' = RefusedHosts
    BY <2>1, <2>2, EventAdds
  <2>5. CASE r = "max_tasks"
    <3>1. Cardinality(Existing) >= budget.tasks
      BY <1>2, <2>5 DEF ChildReason
    <3>2. RefusedTasks' = RefusedTasks \union {c}
      BY <2>1, <2>5, EventAdds
    <3>3. [Tasks!Next]_(Tasks!vars)
      BY <1>2, <1>3, <2>3, <3>1, <3>2, TasksNext
    <3> QED
      BY <1>3, <2>3, <2>4, <3>3, PagesNext, DomainsNext DEF Quotas
  <2>6. CASE r # "max_tasks"
    <3>1. RefusedTasks' = RefusedTasks
      BY <2>1, <2>6, EventAdds
    <3> QED
      BY <1>3, <2>3, <2>4, <3>1, PagesNext, TasksNext, DomainsNext DEF Quotas
  <2> QED
    BY <2>5, <2>6
<1> QED
  BY <1>4, <1>5

LEMMA QuotaStep ==
    ASSUME BudgetAssumption, BudgetInv, [Next]_vars
    PROVE  Quotas
<1>1. ASSUME NEW w \in Workers, Attempt(w) PROVE Quotas
  <2>1. CASE \/ ReserveBegin(w) \/ CheckBegin(w) \/ Request(w) \/ Crash(w)
             \/ \E q \in Urls : CreateFinds(w, q) \/ CreateBegin(w, q)
    <3>1. Frozen /\ events' = events
      BY <2>1 DEF ReserveBegin, CheckBegin, Request, Crash, CreateFinds, CreateBegin, Frozen
    <3> QED
      BY <3>1, QuietQuotas
  <2>2. CASE Complete(w) \/ Fail(w)
    <3>1. Frozen /\ events' = events
      BY <2>2, EndsFrozen DEF Complete, Fail
    <3> QED
      BY <3>1, QuietQuotas
  <2> QED
    BY <1>1, <2>1, <2>2, ReserveQuotas, CheckQuotas, CreateQuotas, LimitedQuotas DEF Attempt
<1>2. ASSUME NEW w \in Workers, NEW u \in Urls, Claim(w, u) PROVE Quotas
  BY <1>2, ClaimFrozen, QuietQuotas DEF Claim
<1>3. ASSUME NEW u \in Urls, Recover(u) PROVE Quotas
  BY <1>3, RecoverFrozen, QuietQuotas DEF Recover
<1>4. CASE UNCHANGED vars
  <2>1. Frozen /\ events' = events
    BY <1>4 DEF vars, Frozen
  <2> QED
    BY <2>1, QuietQuotas
<1> QED
  BY <1>1, <1>2, <1>3, <1>4 DEF Next

(* Pages, tasks and host names are each given out as a Quota does: what an *)
(* attempt got stays, over crashes and retries, and nothing is refused that*)
(* fits or was admitted (budgets.go:98-260).                               *)
THEOREM QuotasAreKept ==
    ASSUME BudgetAssumption
    PROVE  Spec => KeepsQuotas
<1>1. Init => Pages!Init /\ Tasks!Init /\ Domains!Init
  BY QuotaInit
<1>2. BudgetInv /\ [Next]_vars => [Pages!Next]_(Pages!vars) /\ [Tasks!Next]_(Tasks!vars)
        /\ [Domains!Next]_(Domains!vars)
  BY QuotaStep DEF Quotas
<1> QED
  BY <1>1, <1>2, BudgetInductive, PTL DEF Spec, KeepsQuotas, Pages!Spec, Tasks!Spec, Domains!Spec
=============================================================================
