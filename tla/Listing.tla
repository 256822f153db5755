------------------------------ MODULE Listing ------------------------------
(***************************************************************************)
(* The list -> detail expansion of a run (Worker.expandListing, listing.go)*)
(* for a site whose pages do not change: the list pages are walked one     *)
(* from the other, every task may die between any two of its writes and    *)
(* starts over, and a child may run while its parent does.                 *)
(***************************************************************************)
EXTENDS Naturals

CONSTANTS Lists,         \* list pages, the entry among them
          Entry,         \* the trigger's URL
          Details,       \* detail pages
          NoPage,        \* no next page, no parent
          MaxPages, MaxEmptyPages, \* the largest limits a definition sets
          DeathCap       \* bound: attempts that die

ListingAssumption ==
    /\ Entry \in Lists /\ NoPage \notin Lists
    /\ MaxPages \in Nat \ {0} /\ MaxEmptyPages \in Nat \ {0} /\ DeathCap \in Nat

VARIABLES site,    \* per list page, its details and its next page
          limits,  \* listing.max_pages and listing.max_empty_pages
          pages,   \* per list page, its task, if it was created
          parents, \* per detail page, the list page whose task created its task
          todo,    \* per list page, the details its attempt has not looked at
          deaths

vars == <<site, limits, pages, parents, todo, deaths>>

NoStop == ""
StopReasons == {"no_next_page", "repeated_next_page", "max_pages", "consecutive_empty_pages"}

Task == [status : {"none", "queued", "running", "linked", "succeeded"},
         index : Nat, streak : Nat, parent : Lists \union {NoPage},
         stop : StopReasons \union {NoStop}]

TypeOK ==
    /\ site \in [Lists -> [details : SUBSET Details, next : Lists \union {NoPage}]]
    /\ limits \in [pages : 1..MaxPages, empty : 1..MaxEmptyPages]
    /\ pages \in [Lists -> Task] /\ \A l \in Lists : pages[l].index <= limits.pages
    /\ parents \in [Details -> Lists \union {NoPage}]
    /\ todo \in [Lists -> SUBSET Details]
    /\ deaths \in 0..DeathCap

NoTask == [status |-> "none", index |-> 0, streak |-> 0, parent |-> NoPage, stop |-> NoStop]

Init ==
    /\ site \in [Lists -> [details : SUBSET Details, next : Lists \union {NoPage}]]
    /\ limits \in [pages : 1..MaxPages, empty : 1..MaxEmptyPages]
    /\ pages = [l \in Lists |-> IF l = Entry THEN [NoTask EXCEPT !.status = "queued", !.index = 1] ELSE NoTask]
    /\ parents = [d \in Details |-> NoPage]
    /\ todo = [l \in Lists |-> {}]
    /\ deaths = 0

Attempt(l) ==
    /\ pages[l].status = "queued"
    /\ pages' = [pages EXCEPT ![l].status = "running"]
    /\ todo' = [todo EXCEPT ![l] = site[l].details]
    /\ UNCHANGED <<site, limits, parents, deaths>>

(* The next detail link: a task that exists is left alone.                 *)
CreateDetail(l, d) ==
    /\ pages[l].status = "running" /\ d \in todo[l]
    /\ parents' = IF parents[d] = NoPage THEN [parents EXCEPT ![d] = l] ELSE parents
    /\ todo' = [todo EXCEPT ![l] = @ \ {d}]
    /\ UNCHANGED <<site, limits, pages, deaths>>

(* What this task created, in this attempt or an earlier one, is new.      *)
NewDetails(l) == {d \in site[l].details : parents[d] = l}

EmptyStreak(l) ==
    IF NewDetails(l) # {} THEN 0 ELSE IF l = Entry THEN 1 ELSE pages[l].streak + 1

RepeatedOnReplay(l, next) == \* broken: a child of an earlier attempt looks like a loop
    next = Entry \/ next = l \/ pages[next].status # "none"

Repeated(l, next) ==
    next = Entry \/ next = l \/ (pages[next].status # "none" /\ pages[next].parent # l)

ListingStopLate(l) == \* broken: one page too many
    LET next == site[l].next IN
    IF next = NoPage THEN "no_next_page"
    ELSE IF Repeated(l, next) THEN "repeated_next_page"
    ELSE IF pages[l].index > limits.pages THEN "max_pages"
    ELSE NoStop

ListingStop(l) ==
    LET next == site[l].next IN
    IF next = NoPage THEN "no_next_page"
    ELSE IF Repeated(l, next) THEN "repeated_next_page"
    ELSE IF pages[l].index >= limits.pages THEN "max_pages"
    ELSE IF EmptyStreak(l) >= limits.empty THEN "consecutive_empty_pages"
    ELSE NoStop

(* The decision, and the task of the next page.                            *)
Link(l) ==
    LET next == site[l].next
        stop == ListingStop(l)
        child == [status |-> "queued", index |-> pages[l].index + 1,
                  streak |-> EmptyStreak(l), parent |-> l, stop |-> NoStop]
        linked == [pages EXCEPT ![l].status = "linked", ![l].stop = stop]
    IN  /\ pages[l].status = "running" /\ todo[l] = {}
        /\ pages' = IF stop # NoStop \/ pages[next].status # "none" THEN linked
                    ELSE [linked EXCEPT ![next] = child]
        /\ UNCHANGED <<site, limits, parents, todo, deaths>>

Complete(l) ==
    /\ pages[l].status = "linked"
    /\ pages' = [pages EXCEPT ![l].status = "succeeded"]
    /\ UNCHANGED <<site, limits, parents, todo, deaths>>

Die(l) ==
    /\ pages[l].status \in {"running", "linked"} /\ deaths < DeathCap
    /\ pages' = [pages EXCEPT ![l].status = "queued", ![l].stop = NoStop]
    /\ todo' = [todo EXCEPT ![l] = {}]
    /\ deaths' = deaths + 1
    /\ UNCHANGED <<site, limits, parents>>

Next ==
    \E l \in Lists :
        \/ Attempt(l) \/ Link(l) \/ Complete(l) \/ Die(l)
        \/ \E d \in Details : CreateDetail(l, d)

Spec == Init /\ [][Next]_vars

-----------------------------------------------------------------------------
(* The walk that a run without deaths would make, page by page: where it   *)
(* is, the pages and details it met, the empty pages in a row.             *)
WalkOn(of, lim, from, n) ==
    LET next == of[from.at].next
    IN  IF \/ from.at = NoPage \/ next \in from.met \union {NoPage}
           \/ n > lim.pages \/ from.streak >= lim.empty
        THEN [from EXCEPT !.at = NoPage]
        ELSE [at |-> next, met |-> from.met \union {next}, seen |-> from.seen \union of[next].details,
              streak |-> IF of[next].details \subseteq from.seen THEN from.streak + 1 ELSE 0]

Walk(of, lim) ==
    LET walk[n \in 1..MaxPages] ==
            IF n = 1 THEN [at |-> Entry, met |-> {Entry}, seen |-> of[Entry].details,
                           streak |-> IF of[Entry].details = {} THEN 1 ELSE 0]
            ELSE WalkOn(of, lim, walk[n - 1], n)
    IN  walk

(* When every task of a listing has succeeded, exactly the pages of that   *)
(* walk were visited, each with its place in it, and all their details     *)
(* were found; only the last one stopped. Replays of a task after it       *)
(* created children change nothing of it (worker.go:405-461).              *)
WalkedAsListed ==
    (\A l \in Lists : pages[l].status \in {"none", "succeeded"}) =>
        LET walk == Walk(site, limits)
            walked == {n \in 1..MaxPages : walk[n].at # NoPage}
        IN  /\ {l \in Lists : pages[l].status # "none"} = {walk[n].at : n \in walked}
            /\ \A n \in walked : /\ pages[walk[n].at].index = n
                                /\ pages[walk[n].at].stop = NoStop <=> n + 1 \in walked
            /\ {d \in Details : parents[d] # NoPage} = walk[MaxPages].seen
=============================================================================
