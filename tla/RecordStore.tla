---------------------------- MODULE RecordStore ----------------------------
(***************************************************************************)
(* The records of one dataset: the versioned schema (dataset_repo), the    *)
(* normalisation and merge of candidates (record/model.go), the write path *)
(* of workflow tasks, of POST /records and of the legacy adapter           *)
(* (record_repo), and the preview that predicts it. Every write locks the  *)
(* dataset's row first, so a save, a batch and a schema edit are one step  *)
(* each; what is read before the lock is stale by then.                    *)
(***************************************************************************)
EXTENDS Naturals, Sequences, SequencesExt

CONSTANTS Schemas,    \* the schema inputs an operator submits
          Upper,      \* for a magnet dataset, the upper case of each item
          KeyField,   \* the field that a magnet dataset upper-cases
          Batches,    \* the candidates a page can yield, sequences of values
          PageTasks,  \* workflow tasks that persist records
          Resources,  \* what the one legacy resource can hold, as values
          Importers,  \* requests that import the legacy resource
          ApiKeys,    \* idempotency keys of POST /records
          ObservationCap, \* bound: observations
          VersionCap      \* bound: versions of the schema

RecordsAssumption == \A batch \in Batches : batch \in Seq(ToSet(batch)) /\ batch # <<>>

VARIABLES versions,     \* dataset_schema_versions with their fields
          records,      \* per canonical key, the record and its revisions
          observations, \* record_observations in the order of their ids
          pages,        \* per task, what it holds between extraction and save
          resource,     \* the legacy resource's values, its link, its issue
          imports       \* per importer, the values it read, or Unread

vars == <<versions, records, observations, pages, resource, imports>>

NoKey == <<>>
Unread == [none |-> {}]

(* A value is its items: one for a scalar, none for null, a blank string   *)
(* or an empty array. The item "bad" is not of its field's type.           *)
Null == [kind |-> "null", items |-> <<>>]
IsEmpty(v) == v.items = <<>>
Filled(values, n) == n \in DOMAIN values /\ ~IsEmpty(values[n])

-----------------------------------------------------------------------------
(* Schemas.                                                                *)

ValidSchema(s) ==
    /\ s.keys # <<>> /\ IsInjective(s.keys)
    /\ \A n \in ToSet(s.keys) :
        n \in DOMAIN s.fields /\ s.fields[n].required /\ ~s.fields[n].multiple

Current == Last(versions)

-----------------------------------------------------------------------------
(* record.Prepare: what is accepted, and the key that identifies it.       *)

Accepts(field, v) ==
    /\ v.kind = IF field.multiple THEN "array" ELSE "scalar"
    /\ "bad" \notin ToSet(v.items)

Preparable(s, values) ==
    /\ DOMAIN values \subseteq DOMAIN s.fields
    /\ \A n \in DOMAIN values : values[n] = Null \/ Accepts(s.fields[n], values[n])
    /\ \A n \in DOMAIN s.fields : s.fields[n].required => Filled(values, n)
    /\ \A n \in ToSet(s.keys) : Filled(values, n)

CanonicalKey(s, values) == [i \in DOMAIN s.keys |-> values[s.keys[i]].items]

(* A magnet's key is upper-cased by save, before Prepare.                  *)
Normalized(values) ==
    IF KeyField \in DOMAIN values
    THEN [values EXCEPT ![KeyField].items = [i \in DOMAIN @ |-> Upper[@[i]]]]
    ELSE values

-----------------------------------------------------------------------------
(* record.Merge: under "preserve" an empty value says nothing and arrays   *)
(* only grow; a field that stays null is not stored.                       *)

Union(a, b) == FoldLeft(LAMBDA kept, x : IF x \in ToSet(kept) THEN kept ELSE Append(kept, x),
                        <<>>, a \o b)

Held(values, n) == IF n \in DOMAIN values THEN values[n] ELSE Null

MergedField(policy, old, new, n) ==
    IF n \notin DOMAIN new \/ (policy = "preserve" /\ IsEmpty(new[n])) THEN Held(old, n)
    ELSE IF policy = "preserve" /\ new[n].kind = "array" /\ Held(old, n).kind = "array"
         THEN [new[n] EXCEPT !.items = Union(old[n].items, @)]
         ELSE new[n]

Merge(policy, old, new) ==
    LET field(n) == MergedField(policy, old, new, n)
    IN  [n \in DOMAIN old \union {m \in DOMAIN new : field(m) # Null} |-> field(n)]

-----------------------------------------------------------------------------
(* save: one candidate under the lock. A store is the records and the      *)
(* observations; an outcome is the decision and the store it leaves.       *)

Candidate(values, idem, expected) == [values |-> values, idem |-> idem, expected |-> expected]

Prior(store, c) ==
    {i \in DOMAIN store.observations : c.idem # NoKey /\ store.observations[i].idem = c.idem}

ObservedAs(c, s, decision) ==
    LET values == Normalized(c.values) IN
    [key |-> CanonicalKey(s, values), values |-> values, decision |-> decision,
     idem |-> c.idem, expected |-> c.expected, version |-> Len(versions)]

DecisionByNames(has, old, new) == \* broken: compares the fields' names only
    IF ~has THEN "created" ELSE IF DOMAIN new = DOMAIN old THEN "unchanged" ELSE "updated"

Decision(has, old, new) ==
    IF ~has THEN "created" ELSE IF new = old THEN "unchanged" ELSE "updated"

Write(store, c, s) ==
    LET values == Normalized(c.values)
        key    == CanonicalKey(s, values)
        has    == key \in DOMAIN store.records
        old    == IF has THEN store.records[key].values ELSE <<>>
        new    == IF has THEN Merge(s.policy, old, values) ELSE values
        decision == Decision(has, old, new)
        revisions == (IF has THEN store.records[key].revisions ELSE <<>>)
                        \o (IF decision = "unchanged" THEN <<>> ELSE <<[before |-> old, after |-> new]>>)
        row    == [values |-> new, revisions |-> revisions]
    IN  [decision |-> decision,
         store |-> [records |-> [k \in DOMAIN store.records \union {key} |->
                                    IF k = key THEN row ELSE store.records[k]],
                    observations |-> Append(store.observations, ObservedAs(c, s, decision))]]

NeverStale(c) == FALSE \* broken: the expected version is not compared
Stale(c) == c.expected # 0 /\ c.expected # Len(versions)

Save(store, c, s) ==
    IF Stale(c) THEN [decision |-> "stale", store |-> store]
    ELSE IF ~Preparable(s, Normalized(c.values)) THEN [decision |-> "invalid", store |-> store]
    ELSE IF Prior(store, c) = {} THEN Write(store, c, s)
    ELSE LET first == store.observations[CHOOSE i \in Prior(store, c) : TRUE]
             same  == /\ first.key = CanonicalKey(s, Normalized(c.values))
                      /\ first.values = Normalized(c.values)
         IN  [decision |-> IF same THEN first.decision ELSE "conflict", store |-> store]

Refused == {"stale", "invalid", "conflict"}
Store == [records |-> records, observations |-> observations]

(* What the candidates of a batch leave, one after another.                *)
Saved(cs) ==
    LET after[n \in 0..Len(cs)] ==
            IF n = 0 THEN [refused |-> FALSE, store |-> Store]
            ELSE LET before == after[n - 1]
                     result == Save(before.store, cs[n], Current)
                 IN  [refused |-> before.refused \/ result.decision \in Refused, store |-> result.store]
    IN  after

SaveBatchPartly(cs) == \* broken: a refused candidate is skipped
    [refused |-> FALSE, store |-> Saved(cs)[Len(cs)].store]

(* SaveBatch: one transaction, all candidates or none.                     *)
SaveBatch(cs) ==
    LET out == Saved(cs)[Len(cs)] IN IF out.refused THEN [out EXCEPT !.store = Store] ELSE out

Commit(store) ==
    /\ Len(store.observations) <= ObservationCap
    /\ records' = store.records
    /\ observations' = store.observations

-----------------------------------------------------------------------------
(* PreviewBatch: the decisions a batch would get. It merges what it would   *)
(* store, and does not upper-case a magnet's key.                          *)

PreviewStepForgets(acc, values) == \* broken: later candidates do not see it
    IF ~Preparable(Current, values) THEN [acc EXCEPT !.decisions = Append(@, "invalid")]
    ELSE [acc EXCEPT !.decisions =
            Append(@, IF CanonicalKey(Current, values) \in DOMAIN acc.held THEN "unchanged" ELSE "created")]

PreviewStep(acc, values) ==
    LET key == CanonicalKey(Current, values)
        has == key \in DOMAIN acc.held
        new == IF has THEN Merge(Current.policy, acc.held[key], values) ELSE values
        old == IF has THEN acc.held[key] ELSE <<>>
    IN  IF Preparable(Current, values)
        THEN [held |-> [k \in DOMAIN acc.held \union {key} |-> IF k = key THEN new ELSE acc.held[k]],
              decisions |-> Append(acc.decisions, Decision(has, old, new))]
        ELSE [acc EXCEPT !.decisions = Append(@, "invalid")]

Previewed(batch) ==
    LET after[n \in 0..Len(batch)] ==
            IF n = 0 THEN [held |-> [k \in DOMAIN records |-> records[k].values], decisions |-> <<>>]
            ELSE PreviewStep(after[n - 1], batch[n])
    IN  after

PreviewBatch(batch) == Previewed(batch)[Len(batch)].decisions

-----------------------------------------------------------------------------
Init ==
    /\ \E s \in Schemas : ValidSchema(s) /\ versions = <<s>>
    /\ records = <<>> /\ observations = <<>>
    /\ pages = [t \in PageTasks |-> Unread]
    /\ \E values \in Resources : resource = [values |-> values, link |-> 0, issue |-> FALSE]
    /\ imports = [i \in Importers |-> Unread]

UpdateSchema(s) ==
    /\ ValidSchema(s) /\ Len(versions) < VersionCap
    /\ versions' = Append(versions, s)
    /\ UNCHANGED <<records, observations, pages, resource, imports>>

(* persistRecords reads the schema and extracts under it without a lock;   *)
(* then saves, naming the version. A task whose answer is lost extracts    *)
(* again, maybe from another page.                                         *)
Extract(t, batch) ==
    /\ pages[t] = Unread
    /\ \A i \in DOMAIN batch : Preparable(Current, batch[i])
    /\ pages' = [pages EXCEPT ![t] = [batch |-> batch, version |-> Len(versions)]]
    /\ UNCHANGED <<versions, records, observations, resource, imports>>

TaskBatch(t) ==
    [i \in DOMAIN pages[t].batch |-> Candidate(pages[t].batch[i], <<t, i>>, pages[t].version)]

Persist(t) ==
    /\ pages[t] # Unread
    /\ Commit(SaveBatch(TaskBatch(t)).store)
    /\ pages' = [pages EXCEPT ![t] = Unread]
    /\ UNCHANGED <<versions, resource, imports>>

(* POST /records.                                                          *)
Create(values, idem) ==
    /\ Commit(Save(Store, Candidate(values, idem, 0), Current).store)
    /\ UNCHANGED <<versions, pages, resource, imports>>

-----------------------------------------------------------------------------
(* The legacy adapter: an unlocked read of the resource, then a save whose *)
(* idempotency key is a hash of what was read. Reconciling also keeps the  *)
(* list of resources that could not be imported.                           *)

EditResource(values) ==
    /\ resource' = [resource EXCEPT !.values = values]
    /\ UNCHANGED <<versions, records, observations, pages, imports>>

LegacyCandidate(i) ==
    /\ imports[i] = Unread
    /\ imports' = [imports EXCEPT ![i] = resource.values]
    /\ UNCHANGED <<versions, records, observations, pages, resource>>

ImportLegacyResource(i, reconciling) ==
    LET c   == Candidate(imports[i], <<"legacy", imports[i]>>, 0)
        out == Save(Store, c, Current)
        link == IF Prior(Store, c) # {} THEN CHOOSE o \in Prior(Store, c) : TRUE
                ELSE Len(observations) + 1
    IN  /\ imports[i] # Unread
        /\ Commit(out.store)
        /\ resource' = IF out.decision \in Refused
                       THEN [resource EXCEPT !.issue = @ \/ reconciling]
                       ELSE [resource EXCEPT !.link = link, !.issue = @ /\ ~reconciling]
        /\ imports' = [imports EXCEPT ![i] = Unread]
        /\ UNCHANGED <<versions, pages>>

Next ==
    \/ \E s \in Schemas : UpdateSchema(s)
    \/ \E t \in PageTasks, batch \in Batches : Extract(t, batch)
    \/ \E t \in PageTasks : Persist(t)
    \/ \E batch \in Batches, idem \in ApiKeys \union {NoKey} : Create(Head(batch), idem)
    \/ \E values \in Resources : EditResource(values)
    \/ \E i \in Importers : LegacyCandidate(i)
    \/ \E i \in Importers, reconciling \in BOOLEAN : ImportLegacyResource(i, reconciling)

Spec == Init /\ [][Next]_vars

-----------------------------------------------------------------------------
TypeOK ==
    /\ \A n \in DOMAIN versions : ValidSchema(versions[n])
    /\ \A k \in DOMAIN records : DOMAIN records[k] = {"values", "revisions"}
    /\ \A n \in DOMAIN observations : observations[n].decision \in {"created", "updated", "unchanged"}
    /\ \A t \in PageTasks : pages[t] = Unread \/ pages[t].version \in DOMAIN versions
    /\ resource.values \in Resources /\ resource.link \in 0..Len(observations)
    /\ \A i \in Importers : imports[i] = Unread \/ imports[i] \in Resources

(* What the observations os tell of a record, after each of them: its      *)
(* values, merged in order under the policies of the schemas vs, and how   *)
(* often they changed.                                                     *)
Untold == [seen |-> FALSE, values |-> <<>>, changes |-> 0]

Tell(vs, told, o) ==
    [seen    |-> TRUE,
     values  |-> IF told.seen THEN Merge(vs[o.version].policy, told.values, o.values) ELSE o.values,
     changes |-> told.changes + (IF o.decision = "unchanged" THEN 0 ELSE 1)]

Told(vs, os, k) ==
    LET after[n \in 0..Len(os)] ==
            IF n = 0 THEN Untold
            ELSE IF os[n].key = k THEN Tell(vs, after[n - 1], os[n]) ELSE after[n - 1]
    IN  after

(* The revisions lead from nothing to the values without a gap.            *)
Traced(record) ==
    LET revisions == record.revisions IN
    /\ revisions # <<>> /\ revisions[Len(revisions)].after = record.values
    /\ \A n \in DOMAIN revisions :
         revisions[n].before = IF n = 1 THEN <<>> ELSE revisions[n - 1].after

(* The history of a record explains it: its values are what its            *)
(* observations say, merged in order, each under the policy of its version *)
(* of the schema and none of them twice; its revisions lead from nothing to*)
(* those values without a gap, one for each observation that changed it;   *)
(* and nothing was observed of a record that there is not                  *)
(* (records.go:164-269).                                                   *)
RecordsExplained ==
    /\ \A m, n \in DOMAIN observations :
        observations[m].idem = observations[n].idem /\ observations[m].idem # NoKey => m = n
    /\ \A k \in DOMAIN records :
        /\ Told(versions, observations, k)[Len(observations)]
              = [seen |-> TRUE, values |-> records[k].values, changes |-> Len(records[k].revisions)]
        /\ Traced(records[k])
    /\ \A n \in DOMAIN observations : observations[n].key \in DOMAIN records

(* A page is persisted whole or not at all, retries of its task and edits  *)
(* of the schema in between included: once a task's save writes, every     *)
(* item of its page is observed with the values and under the version that *)
(* were extracted, or was by an earlier attempt (records.go:60-89).        *)
PageWhole ==
    [][\A t \in PageTasks : pages[t] # Unread /\ pages'[t] = Unread /\ observations' # observations =>
         /\ pages[t].version = Len(versions)
         /\ \A i \in DOMAIN pages[t].batch :
              \E o \in ToSet(observations') :
                 o.idem = <<t, i>> /\ o.values = Normalized(pages[t].batch[i])]_vars

(* For a batch whose keys need no upper-casing, PreviewBatch tells the     *)
(* decisions that a SaveBatch would make of it now (preview.go:22-77).     *)
PreviewAgrees ==
    \A batch \in Batches :
        LET saved == SaveBatch([i \in DOMAIN batch |-> Candidate(batch[i], NoKey, 0)]).store.observations
        IN  /\ \A i \in DOMAIN batch : batch[i] = Normalized(batch[i])
            /\ saved # observations
            => PreviewBatch(batch) = [i \in DOMAIN batch |-> saved[Len(observations) + i].decision]
=============================================================================
