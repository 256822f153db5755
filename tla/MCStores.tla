------------------------------ MODULE MCStores ------------------------------
(***************************************************************************)
(* What the tables of the collected data go through, one part at a time:   *)
(* the versions of a workflow and their publication, what a definition     *)
(* makes of a page, the expansion of a list page, the budget of a run, the *)
(* record store, the resource store and the magnets under delivery. The    *)
(* parts share no variable, so what holds of each holds of them together;  *)
(* `part` names the one that moves.                                        *)
(***************************************************************************)
EXTENDS RunBudget, Sequences

CONSTANTS Parts,
          WorkflowDrafts, FieldSets,           \* of Definitions
          ListPages, EntryPage, DetailPages, NoPage,
          MaxPages, MaxEmptyPages, DeathCap,   \* of Listing
          RecordSchemas, PageBatches, UpperCase, SavingTasks, LegacyValues,
          LegacyImporters, ApiKeys,
          ObservationCap, VersionCap,          \* of RecordStore
          CallIds, ResourceRequests, ResourceLinks,
          IdCap,                               \* of ResourceStore
          MagnetIds, DriveJobs, DriveJobOf, NoJob, NoMagnet, Scheduler, ManualRequests, Polls,
          MaxRetry, RetryCap, FaultCap         \* of MagnetDelivery

VARIABLES part,
          authored, samples, datasetSchema, requests,
          definition, schema, role, content, position, values, pc,
          site, limits, pages, parents, todo, deaths,
          versions, records, observations, held, resource, imports,
          rows, record, calls,
          magnets, jobs, submitters, pollers, faults

authoringVars == <<authored, samples, datasetSchema, requests>>
definitionVars == <<definition, schema, role, content, position, values, pc>>
listingVars == <<site, limits, pages, parents, todo, deaths>>
budgetVars == vars
recordVars == <<versions, records, observations, held, resource, imports>>
resourceVars == <<rows, record, calls>>
magnetVars == <<magnets, jobs, submitters, pollers, faults>>

storesVars == <<part, authoringVars, definitionVars, listingVars, budgetVars, recordVars, resourceVars, magnetVars>>

-----------------------------------------------------------------------------
(* Authoring: two requests at once on a workflow of two versions, drafts   *)
(* of a listing and of a record workflow, and the dataset's two schemas.   *)
Callers == {"a1", "a2"}
DatasetSchemas == {"s1", "s2"}
AuthoredDrafts == {[kind |-> "listing", fits |-> {"s1", "s2"}], [kind |-> "records", fits |-> {"s1"}]}
Page(kind, finds, fits) == [role |-> kind, finds |-> finds, fits |-> fits]
Corpus == {Page("list", "details", {}), Page("detail", "nothing", {"s1"}), Page("trigger", "nothing", {"s1", "s2"})}

Authoring == INSTANCE Authoring WITH
    Calls <- Callers, Schemas <- DatasetSchemas, Drafts <- AuthoredDrafts,
    versions <- authored, schema <- datasetSchema

-----------------------------------------------------------------------------
(* Definitions: every pair of operations after each of three extractions,  *)
(* persisted as a resource or as a record.                                 *)

Rule(name, type, multiple, required, default) ==
    [name |-> name, type |-> type, multiple |-> multiple, required |-> required, default |-> default]
Op(op, field, to, value) == [op |-> op, field |-> field, to |-> to, value |-> value]
Node(type) == [type |-> type, on |-> {"trigger", "detail"}, fields |-> <<>>, ops |-> <<>>, checks |-> <<>>]

Extractions ==
    {<<Rule("number", "", FALSE, TRUE, "nil")>>,
     <<Rule("number", "integer", FALSE, FALSE, "text"), Rule("title", "array", FALSE, FALSE, "nil")>>,
     <<Rule("title", "", TRUE, FALSE, "nil")>>}
Ops ==
    {Op("rename", "number", "title", ""), Op("rename", "title", "number", ""),
     Op("rename", "title", "title", ""), Op("delete", "number", "", ""),
     Op("set", "title", "", "text"), Op("default", "number", "", "nil"),
     Op("trim", "number", "", ""), Op("split", "title", "", ""), Op("join", "title", "", "")}
OpLists == {<<a>> : a \in Ops} \union {<<a, b>> : a, b \in Ops}

ExtractNode(rules) == [Node("extract") EXCEPT !.fields = rules]
TransformNode(ops, on) == [Node("transform") EXCEPT !.ops = ops, !.on = on]
DiscoverNode == [Node("discover") EXCEPT !.on = {"trigger"}]
ValidateNode == [Node("validate") EXCEPT !.checks =
                    <<[name |-> "title", required |-> FALSE, type |-> "string", pattern |-> TRUE]>>]

ManyDrafts ==
    {[persistence |-> p, listing |-> FALSE,
      nodes |-> <<ExtractNode(rules), TransformNode(ops, {"trigger", "detail"})>>] :
        p \in {"", "records"}, rules \in Extractions, ops \in OpLists}
    \union
    {[persistence |-> "records", listing |-> TRUE,
      nodes |-> <<ExtractNode(rules), TransformNode(<<op>>, {"trigger"}), ValidateNode>>] :
        rules \in Extractions, op \in Ops}
    \union
    {[persistence |-> "", listing |-> FALSE,
      nodes |-> <<DiscoverNode, ExtractNode(rules), TransformNode(<<op>>, {"detail"}), Node("script")>>] :
        rules \in Extractions, op \in Ops}

Field(type, multiple, required) == [type |-> type, multiple |-> multiple, required |-> required]
ThreeFieldSets ==
    {[number |-> Field("string", FALSE, TRUE), title |-> Field("string", TRUE, FALSE)],
     [number |-> Field("integer", FALSE, TRUE)],
     [title |-> Field("json", FALSE, TRUE), number |-> Field("integer", FALSE, FALSE)]}

Definition == INSTANCE Definitions WITH Drafts <- WorkflowDrafts, Schemas <- FieldSets

ASSUME DefinitionsAssumed == Definition!DefinitionsAssumption

-----------------------------------------------------------------------------
(* Listing: every site of three list pages and one detail, under every     *)
(* limit of up to MaxPages pages and MaxEmptyPages empty ones.             *)
Listing == INSTANCE Listing WITH Lists <- ListPages, Entry <- EntryPage, Details <- DetailPages

QuietSite == [l \in ListPages |-> [details |-> {}, next |-> NoPage]]

-----------------------------------------------------------------------------
(* RunBudget: an entry page with two links, one of which links to the      *)
(* other and redirects to it, on another host; two loops; a budget whose   *)
(* last page both links want, and two in which hosts and tasks run out.    *)
PageLinks == [start |-> {"item", "other"}, item |-> {"other"}, other |-> {}]
PageRedirects == [start |-> {}, item |-> {"other"}, other |-> {}]
PageHost == [start |-> "h1", item |-> "h1", other |-> "h2"]

Limits(tasks, numPages, numHosts, allowed) ==
    [tasks |-> tasks, pages |-> numPages, domains |-> numHosts, allowed |-> allowed,
     discovered |-> tasks - 1, depth |-> 1]
RunBudgets == {Limits(3, 2, 2, {"h1", "h2"}), Limits(2, 2, 1, {"h1", "h2"}), Limits(2, 1, 2, {"h1"})}

ASSUME AuthoringAssumed == VersionCap \in Nat \ {0}
ASSUME BudgetAssumed == BudgetAssumption

-----------------------------------------------------------------------------
(* RecordStore: a magnet dataset whose schema changes its policy or its    *)
(* key, pages of one and two items for the same record, one task, one      *)
(* importer and one key of the API.                                        *)
Scalar(x) == [kind |-> "scalar", items |-> <<x>>]
Blank == [kind |-> "scalar", items |-> <<>>]
Null == [kind |-> "null", items |-> <<>>]
Array(xs) == [kind |-> "array", items |-> xs]
StoredField(required, multiple) == [required |-> required, multiple |-> multiple]

MagnetFields == [canonical_key |-> StoredField(TRUE, FALSE), title |-> StoredField(FALSE, FALSE),
                 links |-> StoredField(FALSE, TRUE)]
Preserving == [keys |-> <<"canonical_key">>, policy |-> "preserve", fields |-> MagnetFields]
ThreeSchemas ==
    {Preserving,
     [Preserving EXCEPT !.policy = "overwrite", !.fields.title.required = TRUE],
     [Preserving EXCEPT !.keys = <<"title">>]}

Item(key, title, links) == [canonical_key |-> Scalar(key), title |-> title, links |-> links]
TwoBatches ==
    {<<Item("a", Blank, Array(<<"y">>)), Item("A", Scalar("u"), Null)>>,
     <<Item("A", Scalar("t"), Array(<<"y", "y">>))>>}
TwoValues == {Item("A", Scalar("t"), Array(<<"x">>)), Item("A", Scalar("u"), Array(<<"y">>))}

OneUpper == [a |-> "A", A |-> "A"]
OneKey == {<<"api", 1>>}

Records == INSTANCE RecordStore WITH
    Schemas <- RecordSchemas, Upper <- UpperCase, KeyField <- "canonical_key",
    Batches <- PageBatches, PageTasks <- SavingTasks, Resources <- LegacyValues,
    Importers <- LegacyImporters, ApiKeys <- ApiKeys, pages <- held

ASSUME RecordsAssumed == Records!RecordsAssumption

-----------------------------------------------------------------------------
(* ResourceStore: calls of every kind but an update without links.         *)
Ask(kind, links, to) == [kind |-> kind, links |-> links, to |-> to]
ManyRequests ==
    {Ask("collect", {"a"}, "discovered"), Ask("create", {"b"}, "discovered"),
     Ask("update", {"b"}, "archived"), Ask("mark", {}, "validated"), Ask("delete", {}, "discovered")}

Resources == INSTANCE ResourceStore WITH
    Calls <- CallIds, Requests <- ResourceRequests, Links <- ResourceLinks

ASSUME ResourcesAssumed == Resources!StoreAssumption

-----------------------------------------------------------------------------
(* MagnetDelivery: magnets whose links are one job at the drive.           *)
OneJob == [m \in MagnetIds |-> "j1"]

Magnets == INSTANCE MagnetDelivery WITH
    Magnets <- MagnetIds, Jobs <- DriveJobs, JobOf <- DriveJobOf, Requests <- ManualRequests, Pollers <- Polls

ASSUME MagnetsAssumed == Magnets!DeliveryAssumption
ASSUME ListingAssumed == Listing!ListingAssumption

-----------------------------------------------------------------------------
(* TLC computes a definition once, but at each use the one that it puts    *)
(* for a constant: that one therefore only names another.                  *)
GivenManyDrafts == ManyDrafts
GivenThreeFieldSets == ThreeFieldSets
GivenPageLinks == PageLinks
GivenPageRedirects == PageRedirects
GivenPageHost == PageHost
GivenRunBudgets == RunBudgets
GivenThreeSchemas == ThreeSchemas
GivenTwoBatches == TwoBatches
GivenTwoValues == TwoValues
GivenOneUpper == OneUpper
GivenOneKey == OneKey
GivenManyRequests == ManyRequests
GivenOneJob == OneJob

-----------------------------------------------------------------------------
(* One part moves from its own initial states, the others stay in one of   *)
(* theirs.                                                                 *)
StoresInit ==
    /\ part \in Parts
    /\ part = "authoring" \/ authored = <<Authoring!NewDraft(CHOOSE d \in AuthoredDrafts : TRUE)>>
    /\ part = "authoring" \/ datasetSchema = "s1"
    /\ part = "definitions" \/ (definition = CHOOSE d \in WorkflowDrafts : TRUE)
    /\ part = "definitions" \/ (schema = CHOOSE s \in FieldSets : TRUE)
    /\ part = "listing" \/ site = QuietSite
    /\ part = "listing" \/ limits = [pages |-> 1, empty |-> 1]
    /\ part = "budget" \/ (budget = CHOOSE b \in Budgets : TRUE)
    /\ part = "records" \/ (versions = <<CHOOSE s \in RecordSchemas : Records!ValidSchema(s)>>)
    /\ part = "records" \/ resource = [values |-> CHOOSE v \in LegacyValues : TRUE, link |-> 0, issue |-> FALSE]
    /\ Authoring!Init /\ Definition!Init /\ Listing!Init /\ Init
    /\ Records!Init /\ Resources!Init /\ Magnets!Init

In(p) ==
    /\ part = p /\ UNCHANGED part
    /\ IF p = "authoring" THEN TRUE ELSE UNCHANGED authoringVars
    /\ IF p = "definitions" THEN TRUE ELSE UNCHANGED definitionVars
    /\ IF p = "listing" THEN TRUE ELSE UNCHANGED listingVars
    /\ IF p = "budget" THEN TRUE ELSE UNCHANGED budgetVars
    /\ IF p = "records" THEN TRUE ELSE UNCHANGED recordVars
    /\ IF p = "resources" THEN TRUE ELSE UNCHANGED resourceVars
    /\ IF p = "magnets" THEN TRUE ELSE UNCHANGED magnetVars

AuthoringStep ==
    \/ In("authoring") /\ \E s \in DatasetSchemas : Authoring!UpdateSchema(s)
    \/ In("authoring") /\ \E v \in DOMAIN authored, page \in Corpus : Authoring!DeleteSample(v, page)
    \/ \E c \in Callers :
        \/ In("authoring") /\ Authoring!ReadLatest(c)
        \/ In("authoring") /\ \E d \in AuthoredDrafts : Authoring!CreateDraft(c, d)
        \/ In("authoring") /\ \E v \in DOMAIN authored, page \in Corpus : Authoring!FetchSample(c, v, page)
        \/ In("authoring") /\ Authoring!SaveSample(c)
        \/ In("authoring") /\ \E v \in DOMAIN authored : Authoring!PublishLock(c, v)
        \/ In("authoring") /\ Authoring!LockDataset(c)
        \/ In("authoring") /\ Authoring!ValidateVersion(c)
        \/ In("authoring") /\ Authoring!ReadSamples(c)
        \/ In("authoring") /\ \E page \in Corpus : Authoring!CheckSample(c, page)
        \/ In("authoring") /\ Authoring!RetireOthers(c)
        \/ In("authoring") /\ Authoring!PublishCommit(c)
        \/ In("authoring") /\ Authoring!Rollback(c)

DefinitionStep ==
    \/ In("definitions") /\ Definition!Publish
    \/ In("definitions") /\ \E s \in FieldSets : Definition!UpdateSchema(s)
    \/ In("definitions") /\ \E r \in Definition!Roles, c \in {"html", "json"} : Definition!Begin(r, c)
    \/ In("definitions") /\ Definition!Skip
    \/ In("definitions") /\ Definition!Extract
    \/ In("definitions") /\ Definition!Transform
    \/ In("definitions") /\ Definition!Validate
    \/ In("definitions") /\ Definition!Other
    \/ In("definitions") /\ Definition!Finish

ListingStep == \E l \in ListPages :
    \/ In("listing") /\ Listing!Attempt(l)
    \/ In("listing") /\ Listing!Link(l)
    \/ In("listing") /\ Listing!Complete(l)
    \/ In("listing") /\ Listing!Die(l)
    \/ In("listing") /\ \E d \in DetailPages : Listing!CreateDetail(l, d)

BudgetStep ==
    \/ \E u \in Urls : In("budget") /\ Recover(u)
    \/ \E w \in Workers :
        \/ In("budget") /\ \E u \in Urls : Claim(w, u)
        \/ In("budget") /\ ReserveBegin(w)
        \/ In("budget") /\ ReserveCommit(w)
        \/ In("budget") /\ CheckBegin(w)
        \/ In("budget") /\ CheckCommit(w)
        \/ In("budget") /\ Request(w)
        \/ In("budget") /\ \E q \in Urls : CreateFinds(w, q)
        \/ In("budget") /\ \E q \in Urls : CreateBegin(w, q)
        \/ In("budget") /\ CreateCommit(w)
        \/ In("budget") /\ Complete(w)
        \/ In("budget") /\ Fail(w)
        \/ In("budget") /\ CompleteLimited(w)
        \/ In("budget") /\ Crash(w)

RecordStep ==
    \/ In("records") /\ \E s \in RecordSchemas : Records!UpdateSchema(s)
    \/ In("records") /\ \E t \in SavingTasks, batch \in PageBatches : Records!Extract(t, batch)
    \/ In("records") /\ \E t \in SavingTasks : Records!Persist(t)
    \/ In("records") /\ \E batch \in PageBatches, idem \in ApiKeys \union {Records!NoKey} :
                            Records!Create(Head(batch), idem)
    \/ In("records") /\ \E v \in LegacyValues : Records!EditResource(v)
    \/ In("records") /\ \E i \in LegacyImporters : Records!LegacyCandidate(i)
    \/ In("records") /\ \E i \in LegacyImporters, reconciling \in BOOLEAN :
                            Records!ImportLegacyResource(i, reconciling)

ResourceStep == \E c \in CallIds :
    \/ In("resources") /\ \E r \in ResourceRequests : Resources!Start(c, r)
    \/ In("resources") /\ Resources!Look(c)
    \/ In("resources") /\ Resources!Insert(c)
    \/ In("resources") /\ \E l \in ResourceLinks : Resources!AppendLink(c, l)
    \/ In("resources") /\ Resources!LinksAppended(c)
    \/ In("resources") /\ Resources!Check(c)
    \/ In("resources") /\ Resources!Replace(c)
    \/ In("resources") /\ Resources!MarkStatus(c)
    \/ In("resources") /\ Resources!Delete(c)
    \/ In("resources") /\ Resources!RecordEvent(c)
    \/ In("resources") /\ Resources!ReadForImport(c)
    \/ In("resources") /\ Resources!SaveRecord(c)
    \/ In("resources") /\ Resources!Fail(c)
    \/ In("resources") /\ Resources!CallAgain(c)

SubmitStep == \E s \in Magnets!Submitters :
    \/ In("magnets") /\ \E m \in MagnetIds : Magnets!Claim(s, m)
    \/ In("magnets") /\ Magnets!Download(s)
    \/ In("magnets") /\ Magnets!MarkSubmitted(s)
    \/ In("magnets") /\ \E recorded \in BOOLEAN : Magnets!SubmitFailed(s, recorded)

PollStep == \E p \in Polls :
    \/ In("magnets") /\ Magnets!ListPostProcess(p)
    \/ In("magnets") /\ \E item \in pollers[p].todo : Magnets!PollRunning(p, item)
    \/ In("magnets") /\ \E item \in pollers[p].todo, m \in MagnetIds : Magnets!PollCompleted(p, item, m)
    \/ In("magnets") /\ Magnets!MarkPostProcessDone(p)
    \/ In("magnets") /\ Magnets!MarkCompleted(p)
    \/ In("magnets") /\ Magnets!PostProcessFails(p)
    \/ In("magnets") /\ \E item \in pollers[p].todo : Magnets!PollFailed(p, item)

MagnetStep ==
    \/ In("magnets") /\ Magnets!ListPending
    \/ In("magnets") /\ \E s \in ManualRequests, m \in MagnetIds : Magnets!Request(s, m)
    \/ In("magnets") /\ \E j \in DriveJobs, status \in {"completed", "failed"} : Magnets!JobEnds(j, status)
    \/ In("magnets") /\ \E m \in MagnetIds, status \in Magnets!Statuses :
                            \E job \in {NoJob, magnets[m].followedBy} : Magnets!Edit(m, status, job)
    \/ In("magnets") /\ Magnets!Crash

(* Each step of a part, as in the part's own Next.                         *)
StoresNext ==
    \/ AuthoringStep \/ DefinitionStep \/ ListingStep \/ BudgetStep \/ RecordStep
    \/ ResourceStep \/ MagnetStep \/ SubmitStep \/ PollStep

StoresSpec == StoresInit /\ [][StoresNext]_storesVars

-----------------------------------------------------------------------------
(* Every part is well typed.                                               *)
PartsTyped ==
    /\ part = "authoring"   => Authoring!TypeOK
    /\ part = "definitions" => Definition!TypeOK
    /\ part = "listing"     => Listing!TypeOK
    /\ part = "budget"      => TypeOK
    /\ part = "records"     => Records!TypeOK
    /\ part = "resources"   => Resources!TypeOK
    /\ part = "magnets"     => Magnets!TypeOK

(* See Authoring: a version is published with a corpus that vouches for it *)
(* and is sealed from then on.                                             *)
CorpusVouches == Authoring!CorpusVouches

(* See Definitions: a published definition yields the fields it was        *)
(* checked for.                                                            *)
PublishedFits == part = "definitions" => Definition!PublishedFits

(* See Listing: the tasks of a listing are the pages of its walk.          *)
WalkedAsListed == part = "listing" => Listing!WalkedAsListed

(* See RecordStore: the history of a record explains its values, and the   *)
(* preview of a batch tells its decisions.                                 *)
RecordsExplained == part = "records" => Records!RecordsExplained
PreviewAgrees == part = "records" => Records!PreviewAgrees

(* See RecordStore: a page is saved whole or not at all.                  *)
PageWhole == Records!PageWhole

(* See ResourceStore: links reach the record store; an archived resource   *)
(* stays so.                                                               *)
LinksReachRecords == part = "resources" => Resources!LinksReachRecords
ArchivedStays == Resources!ArchivedStays

(* See MagnetDelivery: until its job fails, one caller submits a magnet;   *)
(* what is completed can be played.                                        *)
OneSubmitter == part = "magnets" => Magnets!OneSubmitter
CompletedIsPlayable == part = "magnets" => Magnets!CompletedIsPlayable
=============================================================================
