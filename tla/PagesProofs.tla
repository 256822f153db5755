---------------------------- MODULE PagesProofs ----------------------------
(***************************************************************************)
(* From a published version to the records, for any definitions, schemas,  *)
(* sites, pages, tasks, importers and keys.                                *)
(*                                                                         *)
(* Definitions: the fields of a page are, at each node and operation that  *)
(* its task reached, the names that the static checks have there.          *)
(*                                                                         *)
(* Listing: the tasks are those of the first pages of the walk that a run  *)
(* without deaths would make; a replayed attempt finds what it had made.   *)
(*                                                                         *)
(* Records: a save appends an observation and writes the record that the   *)
(* observations then tell of, or leaves both.                              *)
(*                                                                         *)
(* The names, the walk, a batch's saves, a preview and what observations   *)
(* tell are recursive functions of a number. Such a function exists, since *)
(* there is no least number at which it could not be continued, and what   *)
(* holds of it is shown from one number to the next.                       *)
(***************************************************************************)
EXTENDS MCStores, SequenceTheorems, WellFoundedInduction, TLAPS

-----------------------------------------------------------------------------
(* Natural numbers.                                                        *)
LEMMA LeastNatural == ASSUME NEW S \in SUBSET Nat, S # {} PROVE \E i \in S : \A j \in S : i <= j
<1>1. IsWellFoundedOn({q \in Nat \X Nat : q[1] < q[2]}, Nat)
  BY NatLessThanWellFounded, Zenon DEF OpToRel
<1>2. PICK i \in S : \A j \in S : <<j, i>> \notin {q \in Nat \X Nat : q[1] < q[2]}
  BY <1>1, WFMin
<1>3. ASSUME NEW j \in S PROVE i <= j
  <2>1. i \in Nat /\ j \in Nat /\ <<j, i>> \in Nat \X Nat /\ <<j, i>>[1] = j /\ <<j, i>>[2] = i
    OBVIOUS
  <2>2. ~(j < i)
    BY <1>2, <2>1
  <2> QED
    BY <2>1, <2>2
<1> QED
  BY <1>3

(* What holds of none and of one more than it holds of holds of all.       *)
LEMMA UpTo == ASSUME NEW N \in Nat, NEW S, 0 \in S, \A n \in 0..N - 1 : n \in S => n + 1 \in S
              PROVE  0..N \subseteq S
<1> SUFFICES ASSUME (0..N) \ S # {} PROVE FALSE
  OBVIOUS
<1>1. PICK i \in (0..N) \ S : \A j \in (0..N) \ S : i <= j
  <2>1. (0..N) \ S \in SUBSET Nat
    OBVIOUS
  <2> QED
    BY <2>1, LeastNatural
<1>2. i # 0 /\ i - 1 \in 0..N - 1 /\ i - 1 \in S /\ (i - 1) + 1 = i
  BY <1>1
<1> QED
  BY <1>1, <1>2

-----------------------------------------------------------------------------
LEMMA StaticOpsExist ==
    ASSUME NEW names, NEW ops, Len(ops) \in Nat
    PROVE  /\ Definition!StaticOps(names, ops)[0] = names
           /\ \A n \in 1..Len(ops) : Definition!StaticOps(names, ops)[n]
                                       = Definition!StaticOp(Definition!StaticOps(names, ops)[n - 1], ops[n])
<1> DEFINE Step(f, k) == [n \in 0..k |-> IF n = 0 THEN names ELSE Definition!StaticOp(f[n - 1], ops[n])]
           Missing == {k \in 0..Len(ops) : ~ \E f : f = Step(f, k)}
<1>1. Missing = {}
  <2> SUFFICES ASSUME Missing # {} PROVE FALSE
    OBVIOUS
  <2>1. PICK k \in Missing : \A m \in Missing : k <= m
    <3>1. Missing \in SUBSET Nat
      OBVIOUS
    <3> QED
      BY <3>1, LeastNatural
  <2>2. k # 0
    <3>1. [n \in 0..0 |-> names] = Step([n \in 0..0 |-> names], 0)
      OBVIOUS
    <3> QED
      BY <2>1, <3>1
  <2>3. PICK f : f = Step(f, k - 1)
    <3>1. k - 1 \in 0..Len(ops) /\ ~(k <= k - 1)
      BY <2>1, <2>2
    <3> QED
      BY <2>1, <3>1
  <2> DEFINE g == [n \in 0..k |-> IF n = k THEN Definition!StaticOp(f[k - 1], ops[k]) ELSE f[n]]
  <2>4. g = Step(g, k)
    <3>1. \A n \in 0..k - 1 : g[n] = f[n]
      BY <2>1
    <3>2. \A n \in 0..k - 1 : f[n] = IF n = 0 THEN names ELSE Definition!StaticOp(f[n - 1], ops[n])
      BY <2>3
    <3>3. \A n \in 0..k : g[n] = IF n = 0 THEN names ELSE Definition!StaticOp(g[n - 1], ops[n])
      BY <2>1, <2>2, <3>1, <3>2
    <3> QED
      BY <3>3
  <2> QED
    BY <2>1, <2>4
<1>2. \E f : f = Step(f, Len(ops))
  <2>1. Len(ops) \in 0..Len(ops) /\ Len(ops) \notin Missing
    BY <1>1
  <2> QED
    BY <2>1
<1>3. Definition!StaticOps(names, ops) = CHOOSE f : f = Step(f, Len(ops))
  BY DEF Definition!StaticOps
<1>4. Definition!StaticOps(names, ops) = Step(Definition!StaticOps(names, ops), Len(ops))
  BY <1>2, <1>3
<1> QED
  BY <1>4

LEMMA StaticNodesExist ==
    ASSUME NEW nodes, NEW r, Len(nodes) \in Nat
    PROVE  /\ Definition!StaticNodes(nodes, r)[0] = {}
           /\ \A n \in 1..Len(nodes) : Definition!StaticNodes(nodes, r)[n]
                                         = Definition!StaticNode(Definition!StaticNodes(nodes, r)[n - 1], nodes[n], r)
<1>0. PICK none : none = {}
  OBVIOUS
<1> DEFINE Step(f, k) == [n \in 0..k |-> IF n = 0 THEN none ELSE Definition!StaticNode(f[n - 1], nodes[n], r)]
           Missing == {k \in 0..Len(nodes) : ~ \E f : f = Step(f, k)}
<1>1. Missing = {}
  <2> SUFFICES ASSUME Missing # {} PROVE FALSE
    OBVIOUS
  <2>1. PICK k \in Missing : \A m \in Missing : k <= m
    <3>1. Missing \in SUBSET Nat
      OBVIOUS
    <3> QED
      BY <3>1, LeastNatural
  <2>2. k # 0
    <3>1. [n \in 0..0 |-> none] = Step([n \in 0..0 |-> none], 0)
      OBVIOUS
    <3> QED
      BY <2>1, <3>1
  <2>3. PICK f : f = Step(f, k - 1)
    <3>1. k - 1 \in 0..Len(nodes) /\ ~(k <= k - 1)
      BY <2>1, <2>2
    <3> QED
      BY <2>1, <3>1
  <2> DEFINE g == [n \in 0..k |-> IF n = k THEN Definition!StaticNode(f[k - 1], nodes[k], r) ELSE f[n]]
  <2>4. g = Step(g, k)
    <3>1. \A n \in 0..k - 1 : g[n] = f[n]
      BY <2>1
    <3>2. \A n \in 0..k - 1 : f[n] = IF n = 0 THEN none ELSE Definition!StaticNode(f[n - 1], nodes[n], r)
      BY <2>3
    <3>3. \A n \in 0..k : g[n] = IF n = 0 THEN none ELSE Definition!StaticNode(g[n - 1], nodes[n], r)
      BY <2>1, <2>2, <3>1, <3>2
    <3> QED
      BY <3>3
  <2> QED
    BY <2>1, <2>4
<1>2. \E f : f = Step(f, Len(nodes))
  <2>1. Len(nodes) \in 0..Len(nodes) /\ Len(nodes) \notin Missing
    BY <1>1
  <2> QED
    BY <2>1
<1>3. Definition!StaticNodes(nodes, r) = CHOOSE f : f = Step(f, Len(nodes))
  BY <1>0 DEF Definition!StaticNodes
<1>4. Definition!StaticNodes(nodes, r) = Step(Definition!StaticNodes(nodes, r), Len(nodes))
  BY <1>2, <1>3
<1>5. PICK f : f = Definition!StaticNodes(nodes, r)
  OBVIOUS
<1>6. f = Step(f, Len(nodes))
  BY <1>4, <1>5
<1>7. /\ f[0] = none
      /\ \A n \in 1..Len(nodes) : f[n] = Definition!StaticNode(f[n - 1], nodes[n], r)
  BY <1>6
<1> HIDE DEF Step
<1> QED
  BY <1>0, <1>5, <1>7

-----------------------------------------------------------------------------
(* The names that the static checks have at the place that a task reached. *)
NamesAt ==
    IF position.op = 1 THEN Definition!StaticNodes(Definition!Nodes, role)[position.node - 1]
    ELSE Definition!StaticOps(Definition!StaticNodes(Definition!Nodes, role)[position.node - 1],
                              Definition!Node.ops)[position.op - 1]

Placed ==
    /\ position \in [node : 1..Len(Definition!Nodes) + 1, op : Nat \ {0}]
    /\ position.op # 1 => /\ position.node <= Len(Definition!Nodes) /\ position.op <= Len(Definition!Node.ops)
                          /\ Definition!Applies(Definition!Node, role) /\ Definition!Node.type = "transform"

DefinitionTyped ==
    /\ definition \in WorkflowDrafts /\ schema \in FieldSets
    /\ role \in Definition!Roles /\ pc \in Definition!Pcs
    /\ \A n \in DOMAIN values : values[n] \in Definition!Kinds

(* What runs was checked, against the schema too when it saves records;    *)
(* and the fields of a page of the role that persists are those that the   *)
(* static checks expect at the place, or at least those, as a script may   *)
(* add some.                                                               *)
PipelineInv ==
    /\ DefinitionTyped /\ Placed
    /\ pc \in {"draft", "published"} => position = [node |-> 1, op |-> 1] /\ DOMAIN values = {}
    /\ pc \in {"published", "running"} => Definition!ValidateExecutable
    /\ pc = "running" /\ Definition!Records => Definition!ValidateRecordSchema
    /\ pc = "running" /\ role = Definition!CheckedRole /\ ~Definition!SelfRename =>
          IF Definition!Records THEN DOMAIN values = NamesAt ELSE NamesAt \subseteq DOMAIN values

LEMMA DraftShape ==
    ASSUME definition \in WorkflowDrafts
    PROVE  /\ Definition!Nodes \in Seq(Definition!NodeShape) /\ Len(Definition!Nodes) \in Nat
           /\ DOMAIN Definition!Nodes = 1..Len(Definition!Nodes)
           /\ \A i \in DOMAIN Definition!Nodes : Definition!Nodes[i] \in Definition!NodeShape
  BY DefinitionsAssumed DEF Definition!DefinitionsAssumption, Definition!Nodes

LEMMA PipelineInitial == Definition!Init => PipelineInv
<1> SUFFICES ASSUME Definition!Init PROVE PipelineInv
  OBVIOUS
<1>1. /\ definition \in WorkflowDrafts /\ schema \in FieldSets /\ role = "trigger" /\ pc = "draft"
      /\ position = [node |-> 1, op |-> 1] /\ values = <<>>
  BY DEF Definition!Init
<1>2. DOMAIN values = {}
  BY <1>1
<1>3. Placed
  BY <1>1, DraftShape DEF Placed
<1> QED
  BY <1>1, <1>2, <1>3 DEF PipelineInv, DefinitionTyped, Definition!Roles, Definition!Pcs

(* What an operation makes of the fields, it makes of their names.         *)
LEMMA AppliedIs ==
    ASSUME NEW op \in Definition!Operation, NEW vs, NEW w \in Definition!Applied(vs, op)
    PROVE  \/ op.op \in {"set", "default"} /\ w = Definition!Put(vs, op.field, op.value)
           \/ op.op \in {"set", "default"} /\ op.field \in DOMAIN vs /\ w = vs
           \/ op.op \notin {"set", "default"} /\ op.field \notin DOMAIN vs /\ w = vs
           \/ op.op = "rename" /\ op.field \in DOMAIN vs
              /\ w = Definition!Without(Definition!Put(vs, op.to, vs[op.field]), op.field)
           \/ op.op = "delete" /\ op.field \in DOMAIN vs /\ w = Definition!Without(vs, op.field)
           \/ op.op = "trim" /\ op.field \in DOMAIN vs /\ w = vs
           \/ op.op \in {"split", "join"} /\ op.field \in DOMAIN vs
              /\ \E k \in {"array", "blank", "text"} : w = Definition!Put(vs, op.field, k)
<1>1. CASE op.op \in {"set", "default"}
  <2>1. w = IF op.op = "set" \/ op.field \notin DOMAIN vs \/ Definition!EmptyKind(vs[op.field])
            THEN Definition!Put(vs, op.field, op.value) ELSE vs
    BY <1>1 DEF Definition!Applied
  <2> QED
    BY <1>1, <2>1
<1>2. CASE op.op \notin {"set", "default"} /\ op.field \notin DOMAIN vs
  <2>1. w \in {vs}
    BY <1>2 DEF Definition!Applied
  <2> QED
    BY <1>2, <2>1
<1>3. CASE op.op = "rename" /\ op.field \in DOMAIN vs
  BY <1>3 DEF Definition!Applied
<1>4. CASE op.op = "delete" /\ op.field \in DOMAIN vs
  BY <1>4 DEF Definition!Applied
<1>5. CASE op.op = "trim" /\ op.field \in DOMAIN vs
  BY <1>5 DEF Definition!Applied
<1>6. CASE op.op = "split" /\ op.field \in DOMAIN vs
  BY <1>6 DEF Definition!Applied
<1>7. CASE op.op = "join" /\ op.field \in DOMAIN vs
  BY <1>7 DEF Definition!Applied
<1> QED
  BY <1>1, <1>2, <1>3, <1>4, <1>5, <1>6, <1>7 DEF Definition!Operation

LEMMA AppliedNames ==
    ASSUME NEW op \in Definition!Operation, op.op = "rename" => op.field # op.to,
           NEW vs, NEW w \in Definition!Applied(vs, op), NEW names
    PROVE  /\ names = DOMAIN vs => DOMAIN w = Definition!StaticOp(names, op)
           /\ names \subseteq DOMAIN vs => Definition!StaticOp(names, op) \subseteq DOMAIN w
<1>1. CASE op.op = "rename" /\ op.field \in DOMAIN vs
  <2>1. w = Definition!Without(Definition!Put(vs, op.to, vs[op.field]), op.field)
    BY <1>1, AppliedIs
  <2>3. DOMAIN w = (DOMAIN vs \union {op.to}) \ {op.field}
    BY <2>1 DEF Definition!Put, Definition!Without
  <2>2. Definition!StaticOp(names, op) = IF op.field \in names THEN (names \ {op.field}) \union {op.to} ELSE names
    BY <1>1 DEF Definition!StaticOp
  <2> QED
    BY <1>1, <2>2, <2>3
<1>2. CASE op.op = "rename" /\ op.field \notin DOMAIN vs
  <2>1. w = vs
    BY <1>2, AppliedIs
  <2>2. op.field \notin names => Definition!StaticOp(names, op) = names
    BY <1>2 DEF Definition!StaticOp
  <2> QED
    BY <1>2, <2>1, <2>2
<1>3. CASE op.op \in {"set", "default"}
  <2>1. DOMAIN w = DOMAIN vs \union {op.field}
    BY <1>3, AppliedIs DEF Definition!Put, Definition!Without
  <2>2. Definition!StaticOp(names, op) = names \union {op.field}
    BY <1>3 DEF Definition!StaticOp
  <2> QED
    BY <2>1, <2>2
<1>4. CASE op.op = "delete"
  <2>1. DOMAIN w = DOMAIN vs \ {op.field}
    BY <1>4, AppliedIs DEF Definition!Put, Definition!Without
  <2>2. Definition!StaticOp(names, op) = names \ {op.field}
    BY <1>4 DEF Definition!StaticOp
  <2> QED
    BY <2>1, <2>2
<1>5. CASE op.op \in {"trim", "split", "join"}
  <2>1. DOMAIN w = DOMAIN vs
    <3>1. w = vs \/ \E k \in {"array", "blank", "text"} : op.field \in DOMAIN vs /\ w = Definition!Put(vs, op.field, k)
      BY <1>5, AppliedIs
    <3> QED
      BY <3>1 DEF Definition!Put
  <2>2. Definition!StaticOp(names, op) = names
    BY <1>5 DEF Definition!StaticOp
  <2> QED
    BY <2>1, <2>2
<1> QED
  BY <1>1, <1>2, <1>3, <1>4, <1>5 DEF Definition!Operation

LEMMA AppliedKinds ==
    ASSUME NEW op \in Definition!Operation, NEW vs, NEW w \in Definition!Applied(vs, op),
           \A n \in DOMAIN vs : vs[n] \in Definition!Kinds
    PROVE  \A n \in DOMAIN w : w[n] \in Definition!Kinds
<1>1. \A n, k : k \in Definition!Kinds => \A m \in DOMAIN Definition!Put(vs, n, k) :
        Definition!Put(vs, n, k)[m] \in Definition!Kinds
  BY DEF Definition!Put, Definition!Without
<1>2. \A x, n : (\A m \in DOMAIN x : x[m] \in Definition!Kinds)
                 => \A m \in DOMAIN Definition!Without(x, n) : Definition!Without(x, n)[m] \in Definition!Kinds
  BY DEF Definition!Put, Definition!Without
<1>3. op.op \in {"set", "default"} => op.value \in Definition!Kinds
  BY DEF Definition!Operation
<1>4. {"array", "blank", "text"} \subseteq Definition!Kinds
  BY DEF Definition!Kinds
<1> QED
  BY <1>1, <1>2, <1>3, <1>4, AppliedIs

-----------------------------------------------------------------------------
LEMMA SameDefinition ==
    ASSUME definition' = definition
    PROVE  /\ Definition!Nodes' = Definition!Nodes /\ (Definition!Records' <=> Definition!Records)
           /\ Definition!CheckedRole' = Definition!CheckedRole /\ (Definition!SelfRename' <=> Definition!SelfRename)
           /\ Definition!ValidateExecutable' <=> Definition!ValidateExecutable
           /\ schema' = schema => (Definition!ValidateRecordSchema' <=> Definition!ValidateRecordSchema)
<1>1. Definition!Nodes' = Definition!Nodes /\ (Definition!Records' <=> Definition!Records)
  BY DEF Definition!Nodes, Definition!Records
<1>2. Definition!CheckedRole' = Definition!CheckedRole
  BY <1>1 DEF Definition!CheckedRole, Definition!HasDiscover
<1>3. Definition!SelfRename' <=> Definition!SelfRename
  BY <1>1 DEF Definition!SelfRename
<1>4. Definition!ValidateExecutable' <=> Definition!ValidateExecutable
  BY <1>1, <1>2 DEF Definition!ValidateExecutable
<1>5. schema' = schema => (Definition!ValidateRecordSchema' <=> Definition!ValidateRecordSchema)
  BY <1>1, <1>2 DEF Definition!ValidateRecordSchema
<1> QED
  BY <1>1, <1>2, <1>3, <1>4, <1>5

(* A step that moves no task.                                              *)
LEMMA PipelineStands ==
    ASSUME PipelineInv, UNCHANGED <<definition, role, position, values>>, schema' \in FieldSets, pc' \in Definition!Pcs,
           pc' # "draft" /\ (pc' # "running" \/ (pc = "running" /\ schema' = schema)),
           pc' = "published" => pc = "published" \/ (pc = "draft" /\ Definition!ValidateExecutable)
    PROVE  PipelineInv'
<1>1. DefinitionTyped'
  BY DEF PipelineInv, DefinitionTyped
<1>2. Placed' /\ NamesAt' = NamesAt
  BY SameDefinition DEF PipelineInv, Placed, NamesAt, Definition!Node, Definition!Applies
<1> QED
  BY <1>1, <1>2, SameDefinition DEF PipelineInv

LEMMA PublishKeeps == ASSUME PipelineInv, Definition!Publish PROVE PipelineInv'
<1>1. /\ pc = "draft" /\ pc' = IF Definition!ValidateVersion THEN "published" ELSE "rejected"
      /\ UNCHANGED <<definition, schema, role, position, values>>
  BY DEF Definition!Publish
<1>2. Definition!ValidateVersion => Definition!ValidateExecutable
  BY DEF Definition!ValidateVersion
<1>3. schema' \in FieldSets /\ pc' \in {"published", "rejected"}
  BY <1>1 DEF PipelineInv, DefinitionTyped
<1> QED
  BY <1>1, <1>2, <1>3, PipelineStands DEF Definition!Pcs

LEMMA UpdateSchemaKeeps == ASSUME PipelineInv, NEW s \in FieldSets, Definition!UpdateSchema(s) PROVE PipelineInv'
<1>1. pc = "published" /\ pc' = pc /\ schema' = s /\ UNCHANGED <<definition, role, position, values>>
  BY DEF Definition!UpdateSchema
<1> QED
  BY <1>1, PipelineStands DEF Definition!Pcs

LEMMA FailKeepsPipeline == ASSUME PipelineInv, Definition!Fail PROVE PipelineInv'
<1>1. pc' = "failed" /\ UNCHANGED <<definition, schema, role, position, values>>
  BY DEF Definition!Fail
<1> QED
  BY <1>1, PipelineStands DEF Definition!Pcs, PipelineInv, DefinitionTyped

LEMMA FinishKeeps == ASSUME PipelineInv, Definition!Finish PROVE PipelineInv'
<1>1. pc' \in {"done", "failed"} /\ UNCHANGED <<definition, schema, role, position, values>>
  BY DEF Definition!Finish
<1> QED
  BY <1>1, PipelineStands DEF Definition!Pcs, PipelineInv, DefinitionTyped

(* A task begins with no fields, where the static checks have no names.    *)
LEMMA BeginKeeps ==
    ASSUME PipelineInv, NEW r \in Definition!Roles, NEW c \in {"html", "json"}, Definition!Begin(r, c)
    PROVE  PipelineInv'
<1>1. /\ pc = "published" /\ role' = r /\ UNCHANGED <<definition, schema, position, values>>
      /\ pc' = IF Definition!Records /\ ~Definition!ValidateRecordSchema THEN "failed" ELSE "running"
  BY DEF Definition!Begin
<1>2. position = [node |-> 1, op |-> 1] /\ DOMAIN values = {} /\ Definition!ValidateExecutable
  BY <1>1 DEF PipelineInv
<1>3. DefinitionTyped'
  BY <1>1 DEF PipelineInv, DefinitionTyped, Definition!Pcs
<1>4. Placed'
  BY <1>1, <1>2, SameDefinition DEF PipelineInv, Placed
<1>5. NamesAt' = {}
  <2>1. definition \in WorkflowDrafts
    BY DEF PipelineInv, DefinitionTyped
  <2>2. Definition!StaticNodes(Definition!Nodes, r)[0] = {}
    BY <2>1, DraftShape, StaticNodesExist
  <2>3. position'.op = 1 /\ position'.node - 1 = 0
    BY <1>1, <1>2
  <2> QED
    BY <1>1, <2>2, <2>3, SameDefinition DEF NamesAt
<1>6. DOMAIN values' = {} /\ pc' \notin {"draft", "published"}
  BY <1>1, <1>2
<1>7. Definition!ValidateExecutable' /\ (pc' = "running" /\ Definition!Records' => Definition!ValidateRecordSchema')
  BY <1>1, <1>2, SameDefinition
<1> QED
  BY <1>3, <1>4, <1>5, <1>6, <1>7 DEF PipelineInv

-----------------------------------------------------------------------------
(* A node or an operation is passed; the fields follow the names.          *)
LEMMA PipelineMoves ==
    ASSUME PipelineInv, pc = "running", UNCHANGED <<definition, schema, role, pc>>, Placed',
           \A n \in DOMAIN values' : values'[n] \in Definition!Kinds,
           ~Definition!SelfRename /\ Definition!Records /\ DOMAIN values = NamesAt => DOMAIN values' = NamesAt',
           ~Definition!SelfRename /\ ~Definition!Records /\ NamesAt \subseteq DOMAIN values =>
              NamesAt' \subseteq DOMAIN values'
    PROVE  PipelineInv'
<1>1. DefinitionTyped'
  BY DEF PipelineInv, DefinitionTyped
<1>2. (Definition!ValidateExecutable)' /\ (Definition!Records' => Definition!ValidateRecordSchema')
  BY SameDefinition DEF PipelineInv
<1> QED
  BY <1>1, <1>2, SameDefinition DEF PipelineInv

LEMMA NextNodeNames ==
    ASSUME PipelineInv, Definition!Running, UNCHANGED <<definition, role>>, position' = Definition!NextNode
    PROVE  /\ Placed' /\ Definition!Node \in Definition!NodeShape /\ position.node \in DOMAIN Definition!Nodes
           /\ position.op = 1 => NamesAt' = Definition!StaticNode(NamesAt, Definition!Node, role)
           /\ NamesAt' = Definition!StaticNode(Definition!StaticNodes(Definition!Nodes, role)[position.node - 1],
                                               Definition!Node, role)
<1>1. /\ Definition!Nodes \in Seq(Definition!NodeShape) /\ Len(Definition!Nodes) \in Nat
      /\ DOMAIN Definition!Nodes = 1..Len(Definition!Nodes)
      /\ \A i \in DOMAIN Definition!Nodes : Definition!Nodes[i] \in Definition!NodeShape
  BY DraftShape DEF PipelineInv, DefinitionTyped
<1>2. position.node \in 1..Len(Definition!Nodes)
  BY <1>1 DEF PipelineInv, Placed, Definition!Running, Definition!AtEnd
<1>3. position'.node = position.node + 1 /\ position'.op = 1
        /\ position' \in [node : 1..Len(Definition!Nodes) + 1, op : Nat \ {0}]
  BY <1>1, <1>2 DEF Definition!NextNode
<1>4. Placed'
  BY <1>3, SameDefinition DEF Placed
<1>5. NamesAt' = Definition!StaticNodes(Definition!Nodes, role)[position.node]
  <2>1. position'.node - 1 = position.node
    BY <1>2, <1>3
  <2> QED
    BY <1>3, <2>1, SameDefinition DEF NamesAt
<1>6. Definition!StaticNodes(Definition!Nodes, role)[position.node]
        = Definition!StaticNode(Definition!StaticNodes(Definition!Nodes, role)[position.node - 1],
                                Definition!Node, role)
  BY <1>1, <1>2, StaticNodesExist DEF Definition!Node
<1>7. position.op = 1 => NamesAt = Definition!StaticNodes(Definition!Nodes, role)[position.node - 1]
  BY DEF NamesAt
<1> QED
  BY <1>1, <1>2, <1>4, <1>5, <1>6, <1>7 DEF Definition!Node

LEMMA SkipKeeps == ASSUME PipelineInv, Definition!Skip PROVE PipelineInv'
<1>1. /\ Definition!Running /\ ~Definition!Applies(Definition!Node, role) /\ position' = Definition!NextNode
      /\ UNCHANGED <<definition, schema, role, values, pc>>
  BY DEF Definition!Skip
<1>2. position.op = 1 /\ pc = "running"
  BY <1>1 DEF PipelineInv, Placed, Definition!Running
<1>3. Placed' /\ NamesAt' = NamesAt
  BY <1>1, <1>2, NextNodeNames DEF Definition!StaticNode
<1>4. \A n \in DOMAIN values' : values'[n] \in Definition!Kinds
  BY <1>1 DEF PipelineInv, DefinitionTyped
<1> QED
  BY <1>1, <1>2, <1>3, <1>4, PipelineMoves

LEMMA ValidateKeeps == ASSUME PipelineInv, Definition!Validate PROVE PipelineInv'
<1>1. CASE Definition!Fail
  BY <1>1, FailKeepsPipeline
<1>2. CASE ~Definition!Fail
  <2>1. /\ Definition!Running /\ Definition!Node.type = "validate" /\ position' = Definition!NextNode
        /\ UNCHANGED <<definition, schema, role, values, pc>>
    BY <1>2 DEF Definition!Validate
  <2>2. position.op = 1 /\ pc = "running"
    BY <2>1 DEF PipelineInv, Placed, Definition!Running
  <2>3. Placed' /\ NamesAt' = NamesAt
    BY <2>1, <2>2, NextNodeNames DEF Definition!StaticNode
  <2>4. \A n \in DOMAIN values' : values'[n] \in Definition!Kinds
    BY <2>1 DEF PipelineInv, DefinitionTyped
  <2> QED
    BY <2>1, <2>2, <2>3, <2>4, PipelineMoves
<1> QED
  BY <1>1, <1>2

(* Only a task that saves no records runs a script.                        *)
LEMMA OtherKeeps == ASSUME PipelineInv, Definition!Other PROVE PipelineInv'
<1>1. /\ Definition!Running /\ Definition!Node.type \in {"discover", "script"} /\ position' = Definition!NextNode
      /\ UNCHANGED <<definition, schema, role, pc>>
  BY DEF Definition!Other
<1>2. position.op = 1 /\ pc = "running"
  BY <1>1 DEF PipelineInv, Placed, Definition!Running
<1>3. Placed' /\ NamesAt' = NamesAt /\ position.node \in DOMAIN Definition!Nodes
  BY <1>1, <1>2, NextNodeNames DEF Definition!StaticNode
<1>4. ~Definition!Records
  BY <1>1, <1>2, <1>3 DEF PipelineInv, Definition!ValidateExecutable, Definition!Node
<1>5. values' = values \/ \E n \in Definition!Persistable, k \in {"text", "nil"} :
        values' = Definition!Put(values, n, k)
  BY DEF Definition!Other
<1>6. \A n \in DOMAIN values' : values'[n] \in Definition!Kinds
  BY <1>5 DEF PipelineInv, DefinitionTyped, Definition!Put, Definition!Kinds
<1>7. DOMAIN values \subseteq DOMAIN values'
  BY <1>5 DEF Definition!Put
<1> QED
  BY <1>1, <1>2, <1>3, <1>4, <1>6, <1>7, PipelineMoves

-----------------------------------------------------------------------------
(* What a page yields for a field is a value or an error.                  *)
LEMMA NormalizeKinds ==
    ASSUME NEW rule \in Definition!FieldRule, NEW k \in Definition!Kinds
    PROVE  Definition!Normalize(rule, k) \subseteq Definition!Kinds \union {"error"}
<1>1. CASE k = "nil" \/ rule.type = ""
  BY <1>1 DEF Definition!Normalize
<1>2. CASE ~(k = "nil" \/ rule.type = "")
  <2>1. rule.type \in {"string", "integer", "number", "boolean", "array"}
    BY <1>2 DEF Definition!FieldRule
  <2>2. CASE rule.type = "string"
    BY <1>2, <2>2 DEF Definition!Normalize, Definition!Kinds
  <2>3. CASE rule.type = "integer"
    BY <1>2, <2>3 DEF Definition!Normalize, Definition!Kinds
  <2>4. CASE rule.type = "number"
    BY <1>2, <2>4 DEF Definition!Normalize, Definition!Kinds
  <2>5. CASE rule.type = "boolean"
    BY <1>2, <2>5 DEF Definition!Normalize, Definition!Kinds
  <2>6. CASE rule.type = "array"
    BY <1>2, <2>6 DEF Definition!Normalize, Definition!Kinds
  <2> QED
    BY <2>1, <2>2, <2>3, <2>4, <2>5, <2>6
<1> QED
  BY <1>1, <1>2

LEMMA ExtractedKinds ==
    ASSUME NEW rule \in Definition!FieldRule
    PROVE  Definition!Extracted(rule) \subseteq Definition!Kinds \union {"error"}
<1>1. Definition!Raw(rule) \subseteq Definition!Kinds
  BY DEF Definition!Raw, Definition!Kinds
<1>2. rule.default \in Definition!Kinds
  BY DEF Definition!FieldRule
<1> DEFINE found(raw) == IF ~Definition!EmptyKind(raw) THEN Definition!Normalize(rule, raw)
                         ELSE IF rule.required THEN {"error"} ELSE Definition!Normalize(rule, rule.default)
<1>3. \A raw \in Definition!Raw(rule) : found(raw) \subseteq Definition!Kinds \union {"error"}
  BY <1>1, <1>2, NormalizeKinds
<1>4. Definition!Extracted(rule) = {IF rule.required /\ Definition!EmptyKind(k) THEN "error" ELSE k
                                    : k \in UNION {found(raw) : raw \in Definition!Raw(rule)}}
  BY DEF Definition!Extracted
<1> HIDE DEF found
<1> QED
  BY <1>3, <1>4

LEMMA RuleIsField ==
    ASSUME Definition!Node \in Definition!NodeShape, NEW n \in Definition!RuleNames(Definition!Node)
    PROVE  Definition!Rule(n) \in Definition!FieldRule
<1>1. Definition!Node.fields \in Seq(Definition!FieldRule)
  BY DEF Definition!NodeShape
<1>2. PICK i \in DOMAIN Definition!Node.fields : Definition!Node.fields[i].name = n
  BY DEF Definition!RuleNames
<1>3. \A rule \in Definition!ToSet(Definition!Node.fields) : rule \in Definition!FieldRule
  BY <1>1 DEF Definition!ToSet
<1>4. Definition!Node.fields[i] \in Definition!ToSet(Definition!Node.fields)
  BY <1>2 DEF Definition!ToSet
<1>5. Definition!Rule(n) \in Definition!ToSet(Definition!Node.fields)
  BY <1>2, <1>4 DEF Definition!Rule
<1> QED
  BY <1>3, <1>5

LEMMA ExtractKeeps == ASSUME PipelineInv, Definition!Extract PROVE PipelineInv'
<1>1. CASE Definition!Fail
  BY <1>1, FailKeepsPipeline
<1>2. CASE ~Definition!Fail
  <2>1. /\ Definition!Running /\ Definition!Applies(Definition!Node, role) /\ Definition!Node.type = "extract"
        /\ position' = Definition!NextNode /\ UNCHANGED <<definition, schema, role, pc>>
    BY <1>2 DEF Definition!Extract
  <2>2. position.op = 1 /\ pc = "running"
    BY <2>1 DEF PipelineInv, Placed, Definition!Running
  <2>3. /\ Placed' /\ NamesAt' = NamesAt \union Definition!RuleNames(Definition!Node)
        /\ Definition!Node \in Definition!NodeShape
    BY <2>1, <2>2, NextNodeNames DEF Definition!StaticNode
  <2>4. PICK found : /\ \A n \in Definition!RuleNames(Definition!Node) :
                           found[n] # "error" /\ found[n] \in Definition!Extracted(Definition!Rule(n))
                     /\ values' = [n \in DOMAIN values \union Definition!RuleNames(Definition!Node) |->
                                      IF n \in Definition!RuleNames(Definition!Node) THEN found[n] ELSE values[n]]
    BY <1>2 DEF Definition!Extract
  <2>5. \A n \in Definition!RuleNames(Definition!Node) : found[n] \in Definition!Kinds
    BY <2>3, <2>4, RuleIsField, ExtractedKinds
  <2>6. DOMAIN values' = DOMAIN values \union Definition!RuleNames(Definition!Node)
    BY <2>4
  <2>7. \A n \in DOMAIN values' : values'[n] \in Definition!Kinds
    BY <2>4, <2>5, <2>6 DEF PipelineInv, DefinitionTyped
  <2> QED
    BY <2>1, <2>2, <2>3, <2>6, <2>7, PipelineMoves
<1> QED
  BY <1>1, <1>2

-----------------------------------------------------------------------------
(* Between two operations of a transform, the names are those after the    *)
(* first; after the last, those after the node.                            *)
LEMMA TransformNames ==
    ASSUME PipelineInv, Definition!Running, Definition!Applies(Definition!Node, role),
           Definition!Node.type = "transform",
           UNCHANGED <<definition, role>>, position.op \in DOMAIN Definition!Node.ops,
           position' = IF position.op < Len(Definition!Node.ops) THEN [position EXCEPT !.op = @ + 1]
              ELSE Definition!NextNode
    PROVE  Placed' /\ NamesAt' = Definition!StaticOp(NamesAt, Definition!Node.ops[position.op])
<1>1. /\ Definition!Nodes \in Seq(Definition!NodeShape) /\ Len(Definition!Nodes) \in Nat
      /\ DOMAIN Definition!Nodes = 1..Len(Definition!Nodes)
      /\ \A i \in DOMAIN Definition!Nodes : Definition!Nodes[i] \in Definition!NodeShape
  BY DraftShape DEF PipelineInv, DefinitionTyped
<1>2. position \in [node : 1..Len(Definition!Nodes) + 1, op : Nat \ {0}] /\ position.node \in 1..Len(Definition!Nodes)
  BY <1>1 DEF PipelineInv, Placed, Definition!Running, Definition!AtEnd
<1>3. Definition!Node.ops \in Seq(Definition!Operation) /\ Len(Definition!Node.ops) \in Nat
  BY <1>1, <1>2 DEF Definition!Node, Definition!NodeShape
<1>4. position.op \in 1..Len(Definition!Node.ops)
  BY <1>3
<1> DEFINE before == Definition!StaticNodes(Definition!Nodes, role)[position.node - 1]
<1>5. /\ Definition!StaticOps(before, Definition!Node.ops)[0] = before
      /\ Definition!StaticOps(before, Definition!Node.ops)[position.op]
           = Definition!StaticOp(Definition!StaticOps(before, Definition!Node.ops)[position.op - 1],
                                 Definition!Node.ops[position.op])
  BY <1>3, <1>4, StaticOpsExist
<1>6. NamesAt = Definition!StaticOps(before, Definition!Node.ops)[position.op - 1]
  <2>1. position.op = 1 => position.op - 1 = 0
    OBVIOUS
  <2> QED
    BY <1>5, <2>1 DEF NamesAt
<1>7. CASE position.op < Len(Definition!Node.ops)
  <2>1. position'.node = position.node /\ position'.op = position.op + 1
          /\ position' \in [node : 1..Len(Definition!Nodes) + 1, op : Nat \ {0}]
    BY <1>2, <1>7
  <2>2. Definition!Node' = Definition!Node
    BY <2>1, SameDefinition DEF Definition!Node
  <2>3. Placed'
    BY <1>2, <1>3, <1>4, <1>7, <2>1, <2>2, SameDefinition DEF Placed, Definition!Applies
  <2>4. position'.op # 1 /\ position'.op - 1 = position.op
    BY <1>2, <1>4, <2>1
  <2>5. NamesAt' = Definition!StaticOps(before, Definition!Node.ops)[position.op]
    BY <2>1, <2>2, <2>4, SameDefinition DEF NamesAt
  <2> QED
    BY <1>5, <1>6, <2>3, <2>5
<1>8. CASE ~(position.op < Len(Definition!Node.ops))
  <2>1. position' = Definition!NextNode /\ position.op = Len(Definition!Node.ops)
    BY <1>3, <1>4, <1>8
  <2>2. Placed' /\ NamesAt' = Definition!StaticNode(before, Definition!Node, role)
    BY <2>1, NextNodeNames
  <2>3. Definition!StaticNode(before, Definition!Node, role)
          = Definition!StaticOps(before, Definition!Node.ops)[Len(Definition!Node.ops)]
    BY DEF Definition!StaticNode
  <2> QED
    BY <1>5, <1>6, <2>1, <2>2, <2>3
<1> QED
  BY <1>7, <1>8

LEMMA TransformKeeps == ASSUME PipelineInv, Definition!Transform PROVE PipelineInv'
<1>1. CASE Definition!Fail
  BY <1>1, FailKeepsPipeline
<1>2. CASE ~Definition!Fail
  <2>1. /\ Definition!Running /\ Definition!Applies(Definition!Node, role) /\ Definition!Node.type = "transform"
        /\ values' \in Definition!Applied(values, Definition!Node.ops[position.op])
        /\ position' = IF position.op < Len(Definition!Node.ops) THEN [position EXCEPT !.op = @ + 1]
             ELSE Definition!NextNode
        /\ UNCHANGED <<definition, schema, role, pc>>
    BY <1>2 DEF Definition!Transform
  <2>2. position.node \in DOMAIN Definition!Nodes /\ Definition!Node \in Definition!NodeShape
    BY <2>1, DraftShape DEF PipelineInv, DefinitionTyped, Placed, Definition!Running, Definition!AtEnd, Definition!Node
  <2>3. Definition!Node.ops \in Seq(Definition!Operation) /\ Definition!Node.ops # <<>>
    <3>1. Definition!ExecutableNode(Definition!Node)
      BY <2>1, <2>2 DEF PipelineInv, Definition!Running, Definition!ValidateExecutable, Definition!Node
    <3> QED
      BY <2>1, <2>2, <3>1 DEF Definition!ExecutableNode, Definition!NodeShape
  <2>4. position.op \in DOMAIN Definition!Node.ops
    BY <2>3 DEF PipelineInv, Placed
  <2>5. Placed' /\ NamesAt' = Definition!StaticOp(NamesAt, Definition!Node.ops[position.op])
    BY <2>1, <2>4, TransformNames
  <2>6. Definition!Node.ops[position.op] \in Definition!Operation
    BY <2>3, <2>4
  <2>7. \A n \in DOMAIN values' : values'[n] \in Definition!Kinds
    BY <2>1, <2>6, AppliedKinds DEF PipelineInv, DefinitionTyped
  <2>8. ~Definition!SelfRename => (Definition!Node.ops[position.op].op = "rename"
                                     => Definition!Node.ops[position.op].field # Definition!Node.ops[position.op].to)
    BY <2>1, <2>2, <2>4 DEF Definition!SelfRename, Definition!Node
  <2>9. ~Definition!SelfRename =>
          /\ NamesAt = DOMAIN values => DOMAIN values' = NamesAt'
          /\ NamesAt \subseteq DOMAIN values => NamesAt' \subseteq DOMAIN values'
    BY <2>1, <2>5, <2>6, <2>8, AppliedNames
  <2>10. pc = "running"
    BY <2>1 DEF Definition!Running
  <2> QED
    BY <2>1, <2>5, <2>7, <2>9, <2>10, PipelineMoves
<1> QED
  BY <1>1, <1>2

LEMMA PipelineStepKeeps == ASSUME PipelineInv, [Definition!Next]_definitionVars PROVE PipelineInv'
<1>1. CASE UNCHANGED definitionVars
  <2>1. UNCHANGED <<definition, schema, role, position, values, pc>>
    BY <1>1 DEF definitionVars
  <2>2. Placed' /\ NamesAt' = NamesAt
    BY <2>1, SameDefinition DEF PipelineInv, Placed, NamesAt, Definition!Node, Definition!Applies
  <2> QED
    BY <2>1, <2>2, SameDefinition DEF PipelineInv, DefinitionTyped
<1>2. CASE Definition!Next
  BY <1>2, PublishKeeps, UpdateSchemaKeeps, BeginKeeps, SkipKeeps, ExtractKeeps, TransformKeeps, ValidateKeeps,
     OtherKeeps, FinishKeeps DEF Definition!Next
<1> QED
  BY <1>1, <1>2

LEMMA PipelineInvSuffices == PipelineInv => Definition!TypeOK /\ PublishedFits
<1> SUFFICES ASSUME PipelineInv PROVE Definition!TypeOK /\ PublishedFits
  OBVIOUS
<1>1. Definition!TypeOK
  BY DEF PipelineInv, DefinitionTyped, Placed, Definition!TypeOK
<1>2. ASSUME pc = "running", Definition!AtEnd, role = Definition!CheckedRole, ~Definition!SelfRename
      PROVE  IF Definition!Records
             THEN /\ DOMAIN values \subseteq DOMAIN schema
                  /\ \A n \in DOMAIN schema : schema[n].required => n \in DOMAIN values
             ELSE DOMAIN values \intersect Definition!Persistable # {}
  <2>1. Len(Definition!Nodes) \in Nat
    BY DraftShape DEF PipelineInv, DefinitionTyped
  <2>2. position.node - 1 = Len(Definition!Nodes) /\ position.op = 1
    BY <1>2, <2>1 DEF PipelineInv, Placed, Definition!AtEnd
  <2>3. NamesAt = Definition!StaticNames(Definition!Nodes, role)
    BY <2>2 DEF NamesAt, Definition!StaticNames
  <2>4. CASE Definition!Records
    <3>1. DOMAIN values = Definition!StaticNames(Definition!Nodes, Definition!CheckedRole)
      BY <1>2, <2>3, <2>4 DEF PipelineInv
    <3>2. Definition!ValidateRecordSchema
      BY <1>2, <2>4 DEF PipelineInv
    <3> QED
      BY <2>4, <3>1, <3>2 DEF Definition!ValidateRecordSchema
  <2>5. CASE ~Definition!Records
    <3>1. Definition!StaticNames(Definition!Nodes, Definition!CheckedRole) \subseteq DOMAIN values
      BY <1>2, <2>3, <2>5 DEF PipelineInv
    <3>2. Definition!StaticNames(Definition!Nodes, Definition!CheckedRole) \intersect Definition!Persistable # {}
      BY <1>2, <2>5 DEF PipelineInv, Definition!ValidateExecutable
    <3> QED
      BY <2>5, <3>1, <3>2
  <2> QED
    BY <2>4, <2>5
<1> QED
  BY <1>1, <1>2 DEF PublishedFits, Definition!PublishedFits

(* Whatever definition is published, whatever the dataset's schema becomes *)
(* and whatever the pages hold: on a page of the role that persists, the   *)
(* nodes leave just the fields that the static checks computed (or at      *)
(* least those, when a script adds some), unless a field is renamed to     *)
(* itself (records.go:93-146, definition.go:263-310 against                *)
(* transform.go:13-112).                                                   *)
THEOREM PipelineYieldsItsFields == Definition!Spec => []PipelineInv
<1>1. PipelineInv /\ [Definition!Next]_Definition!vars => PipelineInv'
  BY PipelineStepKeeps DEF Definition!vars, definitionVars
<1> QED
  BY <1>1, PipelineInitial, PTL DEF Definition!Spec

LEMMA StoresStepDefinitions == StoresNext => [Definition!Next]_definitionVars
<1>2. AuthoringStep \/ ListingStep \/ BudgetStep => UNCHANGED definitionVars
  BY DEF AuthoringStep, ListingStep, BudgetStep, In
<1>3. RecordStep \/ ResourceStep => UNCHANGED definitionVars
  BY DEF RecordStep, ResourceStep, In
<1>4. MagnetStep \/ SubmitStep \/ PollStep => UNCHANGED definitionVars
  BY DEF MagnetStep, SubmitStep, PollStep, In
<1>5. DefinitionStep => Definition!Next
  BY DEF DefinitionStep, Definition!Next
<1> QED
  BY <1>2, <1>3, <1>4, <1>5 DEF StoresNext

LEMMA StoresPipelineInv == StoresSpec => []PipelineInv
<1>1. StoresInit => PipelineInv
  BY PipelineInitial DEF StoresInit
<1>2. PipelineInv /\ [StoresNext]_storesVars => PipelineInv'
  <2>1. [StoresNext]_storesVars => [Definition!Next]_definitionVars
    BY StoresStepDefinitions DEF storesVars
  <2> QED
    BY <2>1, PipelineStepKeeps
<1> QED
  BY <1>1, <1>2, PTL DEF StoresSpec

(* The same beside the other stores: a page of a published definition      *)
(* yields no field that the dataset lacks and every field it requires, and *)
(* a resource always has a field to be found by (records.go:93-146,        *)
(* definition.go:263-310 against transform.go:13-112).                     *)
THEOREM StoresPublishedFits == StoresSpec => []PublishedFits
<1>1. PipelineInv => PublishedFits
  BY PipelineInvSuffices
<1> QED
  BY <1>1, StoresPipelineInv, PTL

-----------------------------------------------------------------------------
IsSeq(s) == \E S : s \in Seq(S)

LEMMA AppendIs ==
    ASSUME NEW s, IsSeq(s), NEW e
    PROVE  /\ IsSeq(Append(s, e)) /\ Len(s) \in Nat /\ Len(Append(s, e)) = Len(s) + 1
           /\ DOMAIN s = 1..Len(s) /\ DOMAIN Append(s, e) = 1..Len(s) + 1
           /\ \A i \in 1..Len(s) : Append(s, e)[i] = s[i]
           /\ Append(s, e)[Len(s) + 1] = e
<1>1. PICK S : s \in Seq(S)
  BY DEF IsSeq
<1>2. s \in Seq(S \union {e}) /\ e \in S \union {e}
  BY <1>1
<1>3. Append(s, e) \in Seq(S \union {e})
  BY <1>2
<1> QED
  BY <1>2, <1>3 DEF IsSeq

LEMMA SeqIs == ASSUME NEW s, IsSeq(s) PROVE Len(s) \in Nat /\ DOMAIN s = 1..Len(s)
  BY AppendIs

-----------------------------------------------------------------------------
(* The recursive functions.                                                *)
LEMMA SavedIs ==
    ASSUME NEW cs, Len(cs) \in Nat
    PROVE  /\ Records!Saved(cs)[0] = [refused |-> FALSE, store |-> Records!Store]
           /\ \A n \in 1..Len(cs) :
                Records!Saved(cs)[n] = [refused |-> \/ Records!Saved(cs)[n - 1].refused
                                            \/ Records!Save(Records!Saved(cs)[n - 1].store,
                                                            cs[n], Records!Current).decision \in Records!Refused,
                                store |-> Records!Save(Records!Saved(cs)[n - 1].store, cs[n], Records!Current).store]
<1> DEFINE Begun == [refused |-> FALSE, store |-> Records!Store]
           Then(b, n) == [refused |-> b.refused
                          \/ Records!Save(b.store, cs[n], Records!Current).decision \in Records!Refused,
                          store |-> Records!Save(b.store, cs[n], Records!Current).store]
           Step(f, k) == [n \in 0..k |-> IF n = 0 THEN Begun ELSE Then(f[n - 1], n)]
           Missing == {k \in 0..Len(cs) : ~ \E f : f = Step(f, k)}
<1>3. Records!Saved(cs) = CHOOSE f : f = Step(f, Len(cs))
  BY DEF Records!Saved
<1> HIDE DEF Begun, Then
<1>1. Missing = {}
  <2> SUFFICES ASSUME Missing # {} PROVE FALSE
    OBVIOUS
  <2>1. PICK k \in Missing : \A m \in Missing : k <= m
    <3>1. Missing \in SUBSET Nat
      OBVIOUS
    <3> QED
      BY <3>1, LeastNatural
  <2>2. k # 0
    <3>1. [n \in 0..0 |-> Begun] = Step([n \in 0..0 |-> Begun], 0)
      OBVIOUS
    <3> QED
      BY <2>1, <3>1
  <2>3. PICK f : f = Step(f, k - 1)
    <3>1. k - 1 \in 0..Len(cs) /\ ~(k <= k - 1)
      BY <2>1, <2>2
    <3> QED
      BY <2>1, <3>1
  <2> DEFINE g == [n \in 0..k |-> IF n = k THEN Then(f[k - 1], k) ELSE f[n]]
  <2>4. g = Step(g, k)
    <3>1. \A n \in 0..k - 1 : g[n] = f[n]
      BY <2>1
    <3>2. \A n \in 0..k - 1 : f[n] = IF n = 0 THEN Begun ELSE Then(f[n - 1], n)
      BY <2>3
    <3>3. \A n \in 0..k : g[n] = IF n = 0 THEN Begun ELSE Then(g[n - 1], n)
      BY <2>1, <2>2, <3>1, <3>2
    <3> QED
      BY <3>3
  <2> QED
    BY <2>1, <2>4
<1>2. \E f : f = Step(f, Len(cs))
  <2>1. Len(cs) \in 0..Len(cs) /\ Len(cs) \notin Missing
    BY <1>1
  <2> QED
    BY <2>1
<1>4. PICK f : f = Records!Saved(cs)
  OBVIOUS
<1>5. f = Step(f, Len(cs))
  BY <1>2, <1>3, <1>4
<1>6. f[0] = Begun /\ \A n \in 1..Len(cs) : f[n] = Then(f[n - 1], n)
  BY <1>5
<1> QED
  BY <1>4, <1>6 DEF Begun, Then

LEMMA SavedNext ==
    ASSUME NEW cs, Len(cs) \in Nat, NEW n \in 0..Len(cs) - 1, NEW st, st = Records!Saved(cs)[n].store
    PROVE  /\ Records!Saved(cs)[n + 1].refused <=> Records!Saved(cs)[n].refused
                \/ Records!Save(st, cs[n + 1], Records!Current).decision \in Records!Refused
           /\ Records!Saved(cs)[n + 1].store = Records!Save(st, cs[n + 1], Records!Current).store
           /\ DOMAIN Records!Saved(cs)[n + 1] = {"refused", "store"}
<1>1. n + 1 \in 1..Len(cs) /\ (n + 1) - 1 = n
  OBVIOUS
<1>2. PICK b \in BOOLEAN : b <=> Records!Saved(cs)[n].refused
        \/ Records!Save(st, cs[n + 1], Records!Current).decision \in Records!Refused
  OBVIOUS
<1>3. Records!Saved(cs)[n + 1] = [refused |-> \/ Records!Saved(cs)[n].refused
                                      \/ Records!Save(st, cs[n + 1], Records!Current).decision \in Records!Refused,
                          store |-> Records!Save(st, cs[n + 1], Records!Current).store]
  BY <1>1, SavedIs
<1>4. Records!Saved(cs)[n + 1] = [refused |-> b, store |-> Records!Save(st, cs[n + 1], Records!Current).store]
  BY <1>2, <1>3
<1> QED
  BY <1>2, <1>4

LEMMA PreviewedIs ==
    ASSUME NEW batch, Len(batch) \in Nat
    PROVE  /\ Records!Previewed(batch)[0] = [held |-> [k \in DOMAIN records |-> records[k].values], decisions |-> <<>>]
           /\ \A n \in 1..Len(batch) : Records!Previewed(batch)[n]
                = Records!PreviewStep(Records!Previewed(batch)[n - 1], batch[n])
<1> DEFINE Begun == [held |-> [k \in DOMAIN records |-> records[k].values], decisions |-> <<>>]
           Then(b, n) == Records!PreviewStep(b, batch[n])
           Step(f, k) == [n \in 0..k |-> IF n = 0 THEN Begun ELSE Then(f[n - 1], n)]
           Missing == {k \in 0..Len(batch) : ~ \E f : f = Step(f, k)}
<1>3. Records!Previewed(batch) = CHOOSE f : f = Step(f, Len(batch))
  BY DEF Records!Previewed
<1> HIDE DEF Begun, Then
<1>1. Missing = {}
  <2> SUFFICES ASSUME Missing # {} PROVE FALSE
    OBVIOUS
  <2>1. PICK k \in Missing : \A m \in Missing : k <= m
    <3>1. Missing \in SUBSET Nat
      OBVIOUS
    <3> QED
      BY <3>1, LeastNatural
  <2>2. k # 0
    <3>1. [n \in 0..0 |-> Begun] = Step([n \in 0..0 |-> Begun], 0)
      OBVIOUS
    <3> QED
      BY <2>1, <3>1
  <2>3. PICK f : f = Step(f, k - 1)
    <3>1. k - 1 \in 0..Len(batch) /\ ~(k <= k - 1)
      BY <2>1, <2>2
    <3> QED
      BY <2>1, <3>1
  <2> DEFINE g == [n \in 0..k |-> IF n = k THEN Then(f[k - 1], k) ELSE f[n]]
  <2>4. g = Step(g, k)
    <3>1. \A n \in 0..k - 1 : g[n] = f[n]
      BY <2>1
    <3>2. \A n \in 0..k - 1 : f[n] = IF n = 0 THEN Begun ELSE Then(f[n - 1], n)
      BY <2>3
    <3>3. \A n \in 0..k : g[n] = IF n = 0 THEN Begun ELSE Then(g[n - 1], n)
      BY <2>1, <2>2, <3>1, <3>2
    <3> QED
      BY <3>3
  <2> QED
    BY <2>1, <2>4
<1>2. \E f : f = Step(f, Len(batch))
  <2>1. Len(batch) \in 0..Len(batch) /\ Len(batch) \notin Missing
    BY <1>1
  <2> QED
    BY <2>1
<1>4. PICK f : f = Records!Previewed(batch)
  OBVIOUS
<1>5. f = Step(f, Len(batch))
  BY <1>2, <1>3, <1>4
<1>6. f[0] = Begun /\ \A n \in 1..Len(batch) : f[n] = Then(f[n - 1], n)
  BY <1>5
<1> QED
  BY <1>4, <1>6 DEF Begun, Then

LEMMA ToldIs ==
    ASSUME NEW vs, NEW os, NEW key, Len(os) \in Nat
    PROVE  /\ Records!Told(vs, os, key)[0] = Records!Untold
           /\ \A n \in 1..Len(os) :
                Records!Told(vs, os, key)[n] = IF os[n].key = key
                   THEN Records!Tell(vs, Records!Told(vs, os, key)[n - 1], os[n])
                                       ELSE Records!Told(vs, os, key)[n - 1]
<1> DEFINE Begun == Records!Untold
           Then(b, n) == IF os[n].key = key THEN Records!Tell(vs, b, os[n]) ELSE b
           Step(f, k) == [n \in 0..k |-> IF n = 0 THEN Begun ELSE Then(f[n - 1], n)]
           Missing == {k \in 0..Len(os) : ~ \E f : f = Step(f, k)}
<1>3. Records!Told(vs, os, key) = CHOOSE f : f = Step(f, Len(os))
  BY DEF Records!Told
<1> HIDE DEF Begun, Then
<1>1. Missing = {}
  <2> SUFFICES ASSUME Missing # {} PROVE FALSE
    OBVIOUS
  <2>1. PICK k \in Missing : \A m \in Missing : k <= m
    <3>1. Missing \in SUBSET Nat
      OBVIOUS
    <3> QED
      BY <3>1, LeastNatural
  <2>2. k # 0
    <3>1. [n \in 0..0 |-> Begun] = Step([n \in 0..0 |-> Begun], 0)
      OBVIOUS
    <3> QED
      BY <2>1, <3>1
  <2>3. PICK f : f = Step(f, k - 1)
    <3>1. k - 1 \in 0..Len(os) /\ ~(k <= k - 1)
      BY <2>1, <2>2
    <3> QED
      BY <2>1, <3>1
  <2> DEFINE g == [n \in 0..k |-> IF n = k THEN Then(f[k - 1], k) ELSE f[n]]
  <2>4. g = Step(g, k)
    <3>1. \A n \in 0..k - 1 : g[n] = f[n]
      BY <2>1
    <3>2. \A n \in 0..k - 1 : f[n] = IF n = 0 THEN Begun ELSE Then(f[n - 1], n)
      BY <2>3
    <3>3. \A n \in 0..k : g[n] = IF n = 0 THEN Begun ELSE Then(g[n - 1], n)
      BY <2>1, <2>2, <3>1, <3>2
    <3> QED
      BY <3>3
  <2> QED
    BY <2>1, <2>4
<1>2. \E f : f = Step(f, Len(os))
  <2>1. Len(os) \in 0..Len(os) /\ Len(os) \notin Missing
    BY <1>1
  <2> QED
    BY <2>1
<1>4. PICK f : f = Records!Told(vs, os, key)
  OBVIOUS
<1>5. f = Step(f, Len(os))
  BY <1>2, <1>3, <1>4
<1>6. f[0] = Begun /\ \A n \in 1..Len(os) : f[n] = Then(f[n - 1], n)
  BY <1>5
<1> QED
  BY <1>4, <1>6 DEF Begun, Then

(* What observations tell depends on them and the policies they name.      *)
LEMMA ToldSame ==
    ASSUME NEW vs, NEW ws, NEW os, NEW ps, NEW key, Len(os) \in Nat, Len(ps) \in Nat,
           NEW m \in Nat, m <= Len(os), m <= Len(ps),
           \A n \in 1..m : os[n] = ps[n] /\ vs[os[n].version].policy = ws[os[n].version].policy
    PROVE  Records!Told(vs, os, key)[m] = Records!Told(ws, ps, key)[m]
<1> DEFINE Same == {n \in 0..m : Records!Told(vs, os, key)[n] = Records!Told(ws, ps, key)[n]}
<1>1. 0 \in Same
  BY ToldIs
<1>2. ASSUME NEW n \in 0..m - 1, n \in Same PROVE n + 1 \in Same
  <2>1. n + 1 \in 1..m /\ n + 1 \in 1..Len(os) /\ n + 1 \in 1..Len(ps) /\ (n + 1) - 1 = n
    OBVIOUS
  <2>2. Records!Told(vs, os, key)[n + 1] = IF os[n + 1].key = key
          THEN Records!Tell(vs, Records!Told(vs, os, key)[n], os[n + 1])
                                   ELSE Records!Told(vs, os, key)[n]
    BY <2>1, ToldIs
  <2>3. Records!Told(ws, ps, key)[n + 1] = IF ps[n + 1].key = key
          THEN Records!Tell(ws, Records!Told(ws, ps, key)[n], ps[n + 1])
                                   ELSE Records!Told(ws, ps, key)[n]
    BY <2>1, ToldIs
  <2>4. Records!Told(vs, os, key)[n] = Records!Told(ws, ps, key)[n]
    BY <1>2
  <2>5. Records!Told(vs, os, key)[n + 1] = Records!Told(ws, ps, key)[n + 1]
    BY <2>1, <2>2, <2>3, <2>4 DEF Records!Tell
  <2> QED
    BY <2>1, <2>5
<1>3. 0..m \subseteq Same
  <2> HIDE DEF Same
  <2> QED
    BY <1>1, <1>2, UpTo
<1> QED
  BY <1>3

-----------------------------------------------------------------------------
(* What a save writes: the record that the candidate names and the         *)
(* observation that tells of it.                                           *)
KeyOf(c, s) == Records!CanonicalKey(s, Records!Normalized(c.values))
OldOf(st, c, s) == IF KeyOf(c, s) \in DOMAIN st.records THEN st.records[KeyOf(c, s)].values ELSE <<>>
NewOf(st, c, s) ==
    IF KeyOf(c, s) \in DOMAIN st.records THEN Records!Merge(s.policy, OldOf(st, c, s), Records!Normalized(c.values))
    ELSE Records!Normalized(c.values)
DecisionOf(st, c, s) == Records!Decision(KeyOf(c, s) \in DOMAIN st.records, OldOf(st, c, s), NewOf(st, c, s))
RevisionsOf(st, c, s) ==
    (IF KeyOf(c, s) \in DOMAIN st.records THEN st.records[KeyOf(c, s)].revisions ELSE <<>>)
        \o (IF DecisionOf(st, c, s) = "unchanged" THEN <<>>
            ELSE <<[before |-> OldOf(st, c, s), after |-> NewOf(st, c, s)]>>)

LEMMA WriteIs ==
    ASSUME NEW st, NEW c, NEW s
    PROVE  /\ DOMAIN Records!Write(st, c, s).store.records = DOMAIN st.records \union {KeyOf(c, s)}
           /\ Records!Write(st, c, s).store.records[KeyOf(c, s)]
                = [values |-> NewOf(st, c, s), revisions |-> RevisionsOf(st, c, s)]
           /\ \A k \in DOMAIN st.records :
                k # KeyOf(c, s) => Records!Write(st, c, s).store.records[k] = st.records[k]
<1>1. Records!Write(st, c, s).store.records =
        [k \in DOMAIN st.records \union {KeyOf(c, s)} |->
           IF k = KeyOf(c, s) THEN [values |-> NewOf(st, c, s), revisions |-> RevisionsOf(st, c, s)]
           ELSE st.records[k]]
  BY DEF Records!Write, KeyOf, OldOf, NewOf, DecisionOf, RevisionsOf
<1> QED
  BY <1>1

LEMMA WriteObserves ==
    ASSUME NEW st, NEW c, NEW s
    PROVE  /\ Records!Write(st, c, s).decision = DecisionOf(st, c, s)
           /\ Records!Write(st, c, s).store.observations
                = Append(st.observations, Records!ObservedAs(c, s, DecisionOf(st, c, s)))
  BY DEF Records!Write, KeyOf, OldOf, NewOf, DecisionOf, RevisionsOf

LEMMA SaveIs ==
    ASSUME NEW st, NEW c, NEW s
    PROVE  \/ Records!Save(st, c, s).store = st /\ Records!Save(st, c, s).decision \in Records!Refused
           \/ Records!Save(st, c, s) = Records!Write(st, c, s) /\ ~Records!Stale(c) /\ Records!Prior(st, c) = {}
           \/ /\ Records!Save(st, c, s).store = st /\ ~Records!Stale(c)
              /\ \E i \in Records!Prior(st, c) : /\ st.observations[i].values = Records!Normalized(c.values)
                                         /\ Records!Save(st, c, s).decision = st.observations[i].decision
<1>1. CASE Records!Stale(c)
  BY <1>1 DEF Records!Save, Records!Refused
<1>2. CASE ~Records!Stale(c) /\ ~Records!Preparable(s, Records!Normalized(c.values))
  BY <1>2 DEF Records!Save, Records!Refused
<1>3. CASE ~Records!Stale(c) /\ Records!Preparable(s, Records!Normalized(c.values)) /\ Records!Prior(st, c) = {}
  BY <1>3 DEF Records!Save
<1>4. CASE ~Records!Stale(c) /\ Records!Preparable(s, Records!Normalized(c.values)) /\ Records!Prior(st, c) # {}
  <2>1. PICK i \in Records!Prior(st, c) : i = CHOOSE j \in Records!Prior(st, c) : TRUE
    BY <1>4
  <2>2. Records!Save(st, c, s) =
          [decision |-> IF st.observations[i].key = Records!CanonicalKey(s, Records!Normalized(c.values))
                           /\ st.observations[i].values = Records!Normalized(c.values)
                        THEN st.observations[i].decision ELSE "conflict",
           store |-> st]
    BY <1>4, <2>1 DEF Records!Save
  <2>3. CASE st.observations[i].key = Records!CanonicalKey(s, Records!Normalized(c.values))
             /\ st.observations[i].values = Records!Normalized(c.values)
    BY <1>4, <2>2, <2>3
  <2>4. CASE ~(st.observations[i].key = Records!CanonicalKey(s, Records!Normalized(c.values))
               /\ st.observations[i].values = Records!Normalized(c.values))
    BY <2>2, <2>4 DEF Records!Refused
  <2> QED
    BY <2>3, <2>4
<1> QED
  BY <1>1, <1>2, <1>3, <1>4

(* The observations only grow.                                             *)
Extends(before, after) ==
    /\ IsSeq(after) /\ Len(before) <= Len(after)
    /\ \A n \in 1..Len(before) : after[n] = before[n]

LEMMA GrowsOn ==
    ASSUME NEW x, NEW y, NEW z, IsSeq(x), Extends(x, y), Extends(y, z)
    PROVE  Extends(x, z)
<1>1. Len(x) \in Nat /\ Len(y) \in Nat /\ Len(z) \in Nat
  BY SeqIs DEF Extends
<1> QED
  BY <1>1 DEF Extends

(* A candidate that is not refused is observed, now or before.             *)
ObservedIn(os, c) == \E n \in 1..Len(os) : os[n].idem = c.idem /\ os[n].values = Records!Normalized(c.values)

LEMMA SaveObserves ==
    ASSUME NEW st, NEW c, NEW s, IsSeq(st.observations)
    PROVE  /\ Extends(st.observations, Records!Save(st, c, s).store.observations)
           /\ Records!Save(st, c, s).decision \notin Records!Refused =>
                ~Records!Stale(c) /\ ObservedIn(Records!Save(st, c, s).store.observations, c)
<1>1. Len(st.observations) \in Nat /\ DOMAIN st.observations = 1..Len(st.observations)
  BY SeqIs
<1>2. CASE Records!Save(st, c, s).store = st /\ Records!Save(st, c, s).decision \in Records!Refused
  BY <1>1, <1>2 DEF Extends
<1>3. CASE Records!Save(st, c, s) = Records!Write(st, c, s) /\ ~Records!Stale(c) /\ Records!Prior(st, c) = {}
  <2>1. PICK o : o = Records!ObservedAs(c, s, DecisionOf(st, c, s))
    OBVIOUS
  <2>2. Records!Save(st, c, s).store.observations = Append(st.observations, o)
    <3>1. Records!Write(st, c, s).store.observations = Append(st.observations, o)
      BY <2>1, WriteObserves
    <3> QED
      BY <1>3, <3>1
  <2>3. o.idem = c.idem /\ o.values = Records!Normalized(c.values)
    BY <2>1 DEF Records!ObservedAs
  <2>4. Extends(st.observations, Append(st.observations, o))
    BY <1>1, AppendIs DEF Extends
  <2>5. ObservedIn(Append(st.observations, o), c)
    <3>1. /\ Len(st.observations) + 1 \in 1..Len(Append(st.observations, o))
          /\ Append(st.observations, o)[Len(st.observations) + 1] = o
      BY <1>1, AppendIs
    <3> QED
      BY <2>3, <3>1 DEF ObservedIn
  <2> QED
    BY <1>3, <2>2, <2>4, <2>5
<1>4. CASE /\ Records!Save(st, c, s).store = st /\ ~Records!Stale(c)
           /\ \E i \in Records!Prior(st, c) : st.observations[i].values = Records!Normalized(c.values)
  <2>1. PICK i \in Records!Prior(st, c) : st.observations[i].values = Records!Normalized(c.values)
    BY <1>4
  <2>2. i \in 1..Len(st.observations) /\ st.observations[i].idem = c.idem
    BY <1>1, <2>1 DEF Records!Prior
  <2>3. ObservedIn(st.observations, c)
    BY <2>1, <2>2 DEF ObservedIn
  <2> QED
    BY <1>1, <1>4, <2>3 DEF Extends
<1> QED
  BY <1>2, <1>3, <1>4, SaveIs

LEMMA ObservedStays ==
    ASSUME NEW x, NEW y, NEW c, IsSeq(x), Extends(x, y), ObservedIn(x, c)
    PROVE  ObservedIn(y, c)
<1>1. Len(x) \in Nat /\ Len(y) \in Nat
  BY SeqIs DEF Extends
<1>2. PICK n \in 1..Len(x) : x[n].idem = c.idem /\ x[n].values = Records!Normalized(c.values)
  BY DEF ObservedIn
<1>3. n \in 1..Len(y) /\ y[n] = x[n]
  BY <1>1 DEF Extends
<1> QED
  BY <1>2, <1>3 DEF ObservedIn

(* A batch of which a candidate is refused leaves the store as it was.     *)
LEMMA BatchRefused ==
    ASSUME NEW cs, Len(cs) \in Nat, Records!Saved(cs)[Len(cs)].refused
    PROVE  Records!SaveBatch(cs).store = Records!Store
<1>1. "store" \in DOMAIN Records!Saved(cs)[Len(cs)]
  <2>1. CASE Len(cs) = 0
    BY <2>1, SavedIs
  <2>2. CASE Len(cs) # 0
    <3>1. PICK n \in 0..Len(cs) - 1 : n + 1 = Len(cs)
      BY <2>2
    <3> QED
      BY <3>1, SavedNext
  <2> QED
    BY <2>1, <2>2
<1> QED
  BY <1>1 DEF Records!SaveBatch

(* A batch is saved whole or not at all.                                   *)
LEMMA BatchObserves ==
    ASSUME NEW cs, Len(cs) \in Nat, IsSeq(observations)
    PROVE  /\ Extends(observations, Records!SaveBatch(cs).store.observations)
           /\ \/ Records!SaveBatch(cs).store = Records!Store
              \/ \A m \in 1..Len(cs) : ~Records!Stale(cs[m])
                   /\ ObservedIn(Records!SaveBatch(cs).store.observations, cs[m])
<1> DEFINE Kept(n) == /\ Extends(observations, Records!Saved(cs)[n].store.observations)
                      /\ ~Records!Saved(cs)[n].refused =>
                           \A m \in 1..n :
                              ~Records!Stale(cs[m]) /\ ObservedIn(Records!Saved(cs)[n].store.observations, cs[m])
           Good == {n \in 0..Len(cs) : Kept(n)}
<1>1. 0 \in Good
  <2>1. Records!Saved(cs)[0].refused = FALSE /\ Records!Saved(cs)[0].store.observations = observations
    BY SavedIs DEF Records!Store
  <2>2. Extends(observations, observations)
    BY SeqIs DEF Extends
  <2> QED
    BY <2>1, <2>2
<1>2. ASSUME NEW n \in 0..Len(cs) - 1, n \in Good PROVE n + 1 \in Good
  <2>1. n + 1 \in 1..Len(cs) /\ (n + 1) - 1 = n /\ Kept(n)
    BY <1>2
  <2> HIDE DEF Good
  <2>2. PICK st : st = Records!Saved(cs)[n].store
    OBVIOUS
  <2>3. /\ Records!Saved(cs)[n + 1].refused <=> Records!Saved(cs)[n].refused
             \/ Records!Save(st, cs[n + 1], Records!Current).decision \in Records!Refused
        /\ Records!Saved(cs)[n + 1].store = Records!Save(st, cs[n + 1], Records!Current).store
    BY <2>1, <2>2, SavedNext
  <2>4. IsSeq(st.observations) /\ Extends(observations, st.observations)
    BY <2>1, <2>2 DEF Extends
  <2>5. PICK after : after = Records!Save(st, cs[n + 1], Records!Current).store.observations
    OBVIOUS
  <2>6. /\ Extends(st.observations, after)
        /\ Records!Save(st, cs[n + 1], Records!Current).decision \notin Records!Refused =>
             ~Records!Stale(cs[n + 1]) /\ ObservedIn(after, cs[n + 1])
    BY <2>4, <2>5, SaveObserves
  <2>7. Extends(observations, after)
    BY <2>4, <2>6, GrowsOn
  <2>8. ASSUME ~Records!Saved(cs)[n + 1].refused, NEW m \in 1..n + 1
                 PROVE ~Records!Stale(cs[m]) /\ ObservedIn(after, cs[m])
    <3>1. ~Records!Saved(cs)[n].refused /\ Records!Save(st, cs[n + 1], Records!Current).decision \notin Records!Refused
      BY <2>3, <2>8
    <3>2. CASE m = n + 1
      BY <2>6, <3>1, <3>2
    <3>3. CASE m \in 1..n
      BY <2>1, <2>2, <2>4, <2>6, <3>1, <3>3, ObservedStays
    <3> QED
      BY <3>2, <3>3
  <2>9. Kept(n + 1)
    BY <2>3, <2>5, <2>7, <2>8
  <2> QED
    BY <2>1, <2>9 DEF Good
<1>3. Kept(Len(cs))
  <2>1. 0..Len(cs) \subseteq Good
    <3> HIDE DEF Good
    <3> QED
      BY <1>1, <1>2, UpTo
  <2> QED
    BY <2>1
<1>4. CASE Records!Saved(cs)[Len(cs)].refused
  <2>1. Records!SaveBatch(cs).store = Records!Store
    BY <1>4, BatchRefused
  <2>2. Records!SaveBatch(cs).store.observations = observations
    BY <2>1 DEF Records!Store
  <2>3. Extends(observations, observations)
    BY SeqIs DEF Extends
  <2> QED
    BY <2>1, <2>2, <2>3
<1>5. CASE ~Records!Saved(cs)[Len(cs)].refused
  <2>1. Records!SaveBatch(cs) = Records!Saved(cs)[Len(cs)]
    BY <1>5 DEF Records!SaveBatch
  <2> QED
    BY <1>3, <1>5, <2>1
<1> QED
  BY <1>4, <1>5

-----------------------------------------------------------------------------
(* The records of a store, explained by its observations.                  *)
ObservationsTyped(vs, os, known) ==
    /\ IsSeq(os)
    /\ \A n \in 1..Len(os) : /\ os[n].version \in 1..Len(vs) /\ os[n].key \in known
                             /\ os[n].decision \in {"created", "updated", "unchanged"}
    /\ \A m, n \in 1..Len(os) : os[m].idem = os[n].idem /\ os[m].idem # Records!NoKey => m = n

RecordExplained(vs, os, k, rec) ==
    /\ DOMAIN rec = {"values", "revisions"} /\ IsSeq(rec.revisions)
    /\ Records!Told(vs, os, k)[Len(os)] = [seen |-> TRUE, values |-> rec.values, changes |-> Len(rec.revisions)]
    /\ Records!Traced(rec)

Explained(vs, st) ==
    /\ ObservationsTyped(vs, st.observations, DOMAIN st.records)
    /\ \A k \in DOMAIN st.records : RecordExplained(vs, st.observations, k, st.records[k])

LEMMA ToldNothing ==
    ASSUME NEW vs, NEW os, NEW key, Len(os) \in Nat, \A n \in 1..Len(os) : os[n].key # key
    PROVE  Records!Told(vs, os, key)[Len(os)] = Records!Untold
<1> DEFINE Nothing == {n \in 0..Len(os) : Records!Told(vs, os, key)[n] = Records!Untold}
<1>1. 0 \in Nothing
  BY ToldIs
<1>2. ASSUME NEW n \in 0..Len(os) - 1, n \in Nothing PROVE n + 1 \in Nothing
  <2>1. n + 1 \in 1..Len(os) /\ (n + 1) - 1 = n /\ n + 1 \in 0..Len(os)
    OBVIOUS
  <2>2. Records!Told(vs, os, key)[n + 1] = Records!Told(vs, os, key)[n]
    BY <2>1, ToldIs
  <2> QED
    BY <1>2, <2>1, <2>2
<1>3. 0..Len(os) \subseteq Nothing
  <2> HIDE DEF Nothing
  <2> QED
    BY <1>1, <1>2, UpTo
<1> QED
  BY <1>3

LEMMA ToldOneMore ==
    ASSUME NEW vs, NEW os, NEW o, NEW key, IsSeq(os)
    PROVE  Records!Told(vs, Append(os, o), key)[Len(os) + 1]
             = IF o.key = key THEN Records!Tell(vs, Records!Told(vs, os, key)[Len(os)], o)
                ELSE Records!Told(vs, os, key)[Len(os)]
<1>1. PICK more : more = Append(os, o)
  OBVIOUS
<1>2. /\ Len(os) \in Nat /\ Len(more) = Len(os) + 1 /\ more[Len(os) + 1] = o
      /\ \A n \in 1..Len(os) : more[n] = os[n]
  BY <1>1, AppendIs
<1>3. Records!Told(vs, more, key)[Len(os)] = Records!Told(vs, os, key)[Len(os)]
  BY <1>2, ToldSame
<1>4. Records!Told(vs, more, key)[Len(os) + 1]
        = IF more[Len(os) + 1].key = key THEN Records!Tell(vs, Records!Told(vs, more, key)[Len(os)], more[Len(os) + 1])
          ELSE Records!Told(vs, more, key)[Len(os)]
  <2>1. Len(os) + 1 \in 1..Len(more) /\ (Len(os) + 1) - 1 = Len(os)
    BY <1>2
  <2> QED
    BY <1>2, <2>1, ToldIs
<1> QED
  BY <1>1, <1>2, <1>3, <1>4

(* A revision of what a record was makes no gap.                           *)
LEMMA TracedOneMore ==
    ASSUME NEW revisions, IsSeq(revisions), NEW old, NEW new,
           IF revisions = <<>> THEN old = <<>> ELSE Records!Traced([values |-> old, revisions |-> revisions])
    PROVE  Records!Traced([values |-> new, revisions |-> Append(revisions, [before |-> old, after |-> new])])
<1>1. PICK e : e = [before |-> old, after |-> new]
  OBVIOUS
<1>2. PICK more : more = Append(revisions, e)
  OBVIOUS
<1>3. /\ Len(revisions) \in Nat /\ Len(more) = Len(revisions) + 1 /\ DOMAIN more = 1..Len(revisions) + 1
      /\ \A i \in 1..Len(revisions) : more[i] = revisions[i]
      /\ more[Len(revisions) + 1] = e /\ DOMAIN revisions = 1..Len(revisions) /\ IsSeq(more)
  BY <1>2, AppendIs
<1>4. e.before = old /\ e.after = new
  BY <1>1
<1>5. more # <<>> /\ more[Len(more)].after = new
  BY <1>3, <1>4
<1>6. revisions = <<>> => Len(revisions) = 0
  OBVIOUS
<1>7. revisions # <<>> => Len(revisions) # 0
  BY DEF IsSeq
<1>8. ASSUME NEW n \in 1..Len(revisions) + 1
      PROVE  more[n].before = IF n = 1 THEN <<>> ELSE more[n - 1].after
  <2>1. CASE n = Len(revisions) + 1 /\ revisions = <<>>
    BY <1>3, <1>4, <1>6, <2>1
  <2>2. CASE n = Len(revisions) + 1 /\ revisions # <<>>
    <3>1. revisions[Len(revisions)].after = old
      BY <2>2 DEF Records!Traced
    <3>2. n # 1 /\ n - 1 = Len(revisions) /\ n - 1 \in 1..Len(revisions)
      BY <1>3, <1>7, <2>2
    <3> QED
      BY <1>3, <1>4, <2>2, <3>1, <3>2
  <2>3. CASE n \in 1..Len(revisions)
    <3>1. revisions # <<>>
      BY <1>6, <2>3
    <3>2. revisions[n].before = IF n = 1 THEN <<>> ELSE revisions[n - 1].after
      BY <1>3, <2>3, <3>1 DEF Records!Traced
    <3>3. n # 1 => n - 1 \in 1..Len(revisions)
      BY <1>3, <2>3
    <3> QED
      BY <1>3, <2>3, <3>2, <3>3
  <2> QED
    BY <1>3, <2>1, <2>2, <2>3
<1>9. Records!Traced([values |-> new, revisions |-> more])
  BY <1>3, <1>5, <1>8 DEF Records!Traced
<1> QED
  BY <1>1, <1>2, <1>9

LEMMA ConcatIs ==
    ASSUME NEW r, IsSeq(r), NEW e
    PROVE  r \o <<>> = r /\ r \o <<e>> = Append(r, e) /\ IsSeq(<<>>)
<1>1. PICK S : r \in Seq(S)
  BY DEF IsSeq
<1>2. r \in Seq(S \union {e}) /\ e \in S \union {e} /\ <<>> \in Seq(S)
  BY <1>1
<1> QED
  BY <1>1, <1>2, ConcatEmptySeq, AppendIsConcat DEF IsSeq

(* The record that a write leaves is what the observations now tell.       *)
LEMMA WriteExplainsIts ==
    ASSUME NEW st, NEW c, IsSeq(versions), versions # <<>>, Explained(versions, st),
           NEW o, o = Records!ObservedAs(c, Records!Current, DecisionOf(st, c, Records!Current))
    PROVE  RecordExplained(versions, Append(st.observations, o), KeyOf(c, Records!Current),
                           [values |-> NewOf(st, c, Records!Current),
                              revisions |-> RevisionsOf(st, c, Records!Current)])
<1>1. PICK os, key, old, new : /\ os = st.observations /\ key = KeyOf(c, Records!Current)
                               /\ old = OldOf(st, c, Records!Current) /\ new = NewOf(st, c, Records!Current)
  OBVIOUS
<1>2. /\ o.version = Len(versions) /\ o.key = key /\ o.values = Records!Normalized(c.values)
      /\ o.decision = DecisionOf(st, c, Records!Current)
  BY <1>1 DEF Records!ObservedAs, KeyOf
<1>3. versions[o.version].policy = Records!Current.policy
  BY <1>2 DEF Records!Current, Records!Last
<1>4. IsSeq(os) /\ Len(os) \in Nat /\ \A n \in 1..Len(os) : os[n].key \in DOMAIN st.records
  BY <1>1, SeqIs DEF Explained, ObservationsTyped
<1>5. /\ Len(Append(os, o)) = Len(os) + 1
      /\ Records!Told(versions, Append(os, o), key)[Len(os) + 1]
           = Records!Tell(versions, Records!Told(versions, os, key)[Len(os)], o)
  BY <1>2, <1>4, ToldOneMore, AppendIs
<1>6. CASE key \in DOMAIN st.records
  <2>1. PICK r : r = st.records[key].revisions
    OBVIOUS
  <2>2. old = st.records[key].values /\ new = Records!Merge(Records!Current.policy, old, Records!Normalized(c.values))
    BY <1>1, <1>6 DEF OldOf, NewOf
  <2>3. /\ IsSeq(r) /\ Records!Told(versions, os, key)[Len(os)] = [seen |-> TRUE, values |-> old, changes |-> Len(r)]
        /\ Records!Traced(st.records[key])
    BY <1>1, <1>6, <2>1, <2>2 DEF Explained, RecordExplained
  <2>4. r # <<>> /\ Records!Traced([values |-> old, revisions |-> r])
    BY <2>1, <2>2, <2>3 DEF Records!Traced
  <2>5. Records!Tell(versions, Records!Told(versions, os, key)[Len(os)], o)
          = [seen |-> TRUE, values |-> new, changes |-> Len(r) + (IF o.decision = "unchanged" THEN 0 ELSE 1)]
    BY <1>2, <1>3, <2>2, <2>3 DEF Records!Tell
  <2>6. o.decision = IF new = old THEN "unchanged" ELSE "updated"
    BY <1>1, <1>2, <1>6 DEF DecisionOf, Records!Decision
  <2>7. RevisionsOf(st, c, Records!Current)
          = r \o (IF o.decision = "unchanged" THEN <<>> ELSE <<[before |-> old, after |-> new]>>)
    BY <1>1, <1>2, <1>6, <2>1 DEF RevisionsOf
  <2>8. CASE new = old
    <3>1. RevisionsOf(st, c, Records!Current) = r
      BY <2>3, <2>6, <2>7, <2>8, ConcatIs
    <3> QED
      BY <1>1, <1>5, <2>3, <2>4, <2>5, <2>6, <2>8, <3>1 DEF RecordExplained
  <2>9. CASE new # old
    <3>1. PICK e : e = [before |-> old, after |-> new]
      OBVIOUS
    <3>2. RevisionsOf(st, c, Records!Current) = Append(r, e)
      BY <2>3, <2>6, <2>7, <2>9, <3>1, ConcatIs
    <3>3. IsSeq(Append(r, e)) /\ Len(Append(r, e)) = Len(r) + 1
      BY <2>3, AppendIs
    <3>4. Records!Traced([values |-> new, revisions |-> Append(r, e)])
      BY <2>3, <2>4, <3>1, TracedOneMore
    <3> QED
      BY <1>1, <1>5, <2>5, <2>6, <2>9, <3>2, <3>3, <3>4 DEF RecordExplained
  <2> QED
    BY <2>8, <2>9
<1>7. CASE key \notin DOMAIN st.records
  <2>1. PICK none : none = <<>>
    OBVIOUS
  <2>2. old = none /\ new = Records!Normalized(c.values)
    BY <1>1, <1>7, <2>1 DEF OldOf, NewOf
  <2>3. Records!Told(versions, os, key)[Len(os)] = Records!Untold
    BY <1>4, <1>7, ToldNothing
  <2>4. o.decision = "created"
    BY <1>1, <1>2, <1>7 DEF DecisionOf, Records!Decision
  <2>5. Records!Tell(versions, Records!Told(versions, os, key)[Len(os)], o)
          = [seen |-> TRUE, values |-> new, changes |-> 1]
    BY <1>2, <2>2, <2>3, <2>4 DEF Records!Tell, Records!Untold
  <2>6. PICK e : e = [before |-> old, after |-> new]
    OBVIOUS
  <2>7. IsSeq(none) /\ Len(none) = 0
    BY <2>1 DEF IsSeq
  <2>8. RevisionsOf(st, c, Records!Current) = none \o <<e>>
    BY <1>1, <1>2, <1>7, <2>1, <2>4, <2>6 DEF RevisionsOf
  <2>9. RevisionsOf(st, c, Records!Current) = Append(none, e)
    BY <2>7, <2>8, ConcatIs
  <2>10. IsSeq(Append(none, e)) /\ Len(Append(none, e)) = 1
    <3>1. IsSeq(Append(none, e)) /\ Len(Append(none, e)) = Len(none) + 1
      BY <2>7, AppendIs
    <3> QED
      BY <2>7, <3>1
  <2>11. Records!Traced([values |-> new, revisions |-> Append(none, e)])
    BY <2>1, <2>2, <2>6, <2>7, TracedOneMore
  <2> QED
    BY <1>1, <1>5, <2>5, <2>9, <2>10, <2>11 DEF RecordExplained
<1> QED
  BY <1>6, <1>7

LEMMA WriteExplains ==
    ASSUME NEW st, NEW c, IsSeq(versions), versions # <<>>, Explained(versions, st), Records!Prior(st, c) = {}
    PROVE  Explained(versions, Records!Write(st, c, Records!Current).store)
<1>1. PICK os, key, after, o : /\ os = st.observations /\ key = KeyOf(c, Records!Current)
                               /\ after = Records!Write(st, c, Records!Current).store
                               /\ o = Records!ObservedAs(c, Records!Current, DecisionOf(st, c, Records!Current))
  OBVIOUS
<1>2. PICK row : row = [values |-> NewOf(st, c, Records!Current), revisions |-> RevisionsOf(st, c, Records!Current)]
  OBVIOUS
<1>3. /\ DOMAIN after.records = DOMAIN st.records \union {key} /\ after.records[key] = row
      /\ \A k \in DOMAIN st.records : k # key => after.records[k] = st.records[k]
  BY <1>1, <1>2, WriteIs
<1>4. after.observations = Append(os, o)
  BY <1>1, WriteObserves
<1>5. o.version = Len(versions) /\ o.key = key /\ o.idem = c.idem
  BY <1>1 DEF Records!ObservedAs, KeyOf
<1>6. ObservationsTyped(versions, os, DOMAIN st.records)
  BY <1>1 DEF Explained
<1>7. /\ IsSeq(os) /\ Len(os) \in Nat /\ DOMAIN os = 1..Len(os)
      /\ Len(Append(os, o)) = Len(os) + 1 /\ IsSeq(Append(os, o)) /\ Append(os, o)[Len(os) + 1] = o
      /\ \A n \in 1..Len(os) : Append(os, o)[n] = os[n]
  BY <1>6, AppendIs DEF ObservationsTyped
<1>8. Len(versions) \in Nat \ {0}
  BY DEF IsSeq
<1>9. ObservationsTyped(versions, Append(os, o), DOMAIN after.records)
  <2>1. \A n \in 1..Len(os) + 1 : n \in 1..Len(os) \/ n = Len(os) + 1
    BY <1>7
  <2>2. \A n \in 1..Len(os) : os[n].idem = o.idem => o.idem = Records!NoKey
    BY <1>1, <1>5, <1>7 DEF Records!Prior
  <2>3. \A n \in 1..Len(os) + 1 :
          /\ Append(os, o)[n].version \in 1..Len(versions) /\ Append(os, o)[n].key \in DOMAIN after.records
          /\ Append(os, o)[n].decision \in {"created", "updated", "unchanged"}
    <3>1. o.decision \in {"created", "updated", "unchanged"}
      BY <1>1 DEF Records!ObservedAs, DecisionOf, Records!Decision
    <3> QED
      BY <1>3, <1>5, <1>6, <1>7, <1>8, <2>1, <3>1 DEF ObservationsTyped
  <2>4. \A m, n \in 1..Len(os) + 1 :
          Append(os, o)[m].idem = Append(os, o)[n].idem /\ Append(os, o)[m].idem # Records!NoKey => m = n
    BY <1>6, <1>7, <2>1, <2>2 DEF ObservationsTyped
  <2> QED
    BY <1>7, <2>3, <2>4 DEF ObservationsTyped
<1>10. ASSUME NEW k \in DOMAIN after.records
       PROVE  RecordExplained(versions, Append(os, o), k, after.records[k])
  <2>1. CASE k = key
    BY <1>1, <1>2, <1>3, <2>1, WriteExplainsIts
  <2>2. CASE k # key
    <3>1. k \in DOMAIN st.records /\ after.records[k] = st.records[k]
      BY <1>3, <1>10, <2>2
    <3>2. RecordExplained(versions, os, k, st.records[k])
      BY <1>1, <3>1 DEF Explained
    <3>3. Records!Told(versions, Append(os, o), k)[Len(os) + 1] = Records!Told(versions, os, k)[Len(os)]
      BY <1>5, <1>7, <2>2, ToldOneMore
    <3> QED
      BY <1>7, <3>1, <3>2, <3>3 DEF RecordExplained
  <2> QED
    BY <2>1, <2>2
<1> QED
  BY <1>1, <1>4, <1>9, <1>10 DEF Explained

LEMMA SaveExplains ==
    ASSUME NEW st, NEW c, IsSeq(versions), versions # <<>>, Explained(versions, st)
    PROVE  Explained(versions, Records!Save(st, c, Records!Current).store)
<1>1. CASE Records!Save(st, c, Records!Current).store = st
  BY <1>1
<1>2. CASE Records!Save(st, c, Records!Current) = Records!Write(st, c, Records!Current) /\ Records!Prior(st, c) = {}
  BY <1>2, WriteExplains
<1> QED
  BY <1>1, <1>2, SaveIs

LEMMA BatchExplains ==
    ASSUME NEW cs, Len(cs) \in Nat, IsSeq(versions), versions # <<>>, Explained(versions, Records!Store)
    PROVE  Explained(versions, Records!SaveBatch(cs).store)
<1> DEFINE Good == {n \in 0..Len(cs) : Explained(versions, Records!Saved(cs)[n].store)}
<1>1. 0 \in Good
  <2>1. Records!Saved(cs)[0].store = Records!Store
    BY SavedIs
  <2> QED
    BY <2>1
<1>2. ASSUME NEW n \in 0..Len(cs) - 1, n \in Good PROVE n + 1 \in Good
  <2>1. PICK st : st = Records!Saved(cs)[n].store
    OBVIOUS
  <2>2. Records!Saved(cs)[n + 1].store = Records!Save(st, cs[n + 1], Records!Current).store
    BY <2>1, SavedNext
  <2>3. Explained(versions, Records!Save(st, cs[n + 1], Records!Current).store)
    BY <1>2, <2>1, SaveExplains
  <2> QED
    BY <2>2, <2>3
<1>3. Explained(versions, Records!Saved(cs)[Len(cs)].store)
  <2>1. 0..Len(cs) \subseteq Good
    <3> HIDE DEF Good
    <3> QED
      BY <1>1, <1>2, UpTo
  <2> QED
    BY <2>1
<1>4. Records!SaveBatch(cs).store = Records!Store \/ Records!SaveBatch(cs).store = Records!Saved(cs)[Len(cs)].store
  <2>1. CASE Records!Saved(cs)[Len(cs)].refused
    BY <2>1, BatchRefused
  <2>2. CASE ~Records!Saved(cs)[Len(cs)].refused
    BY <2>2 DEF Records!SaveBatch
  <2> QED
    BY <2>1, <2>2
<1> QED
  BY <1>3, <1>4

-----------------------------------------------------------------------------
(* The invariant: what a task holds was extracted under a version there is,*)
(* and the observations explain the records.                               *)
HistoryInv ==
    /\ IsSeq(versions) /\ versions # <<>> /\ \A n \in DOMAIN versions : Records!ValidSchema(versions[n])
    /\ Explained(versions, Records!Store)
    /\ DOMAIN held = SavingTasks
    /\ \A t \in SavingTasks :
         held[t] # Records!Unread => held[t].batch \in PageBatches /\ held[t].version \in 1..Len(versions)
    /\ DOMAIN resource = {"values", "link", "issue"}
    /\ resource.values \in LegacyValues /\ resource.link \in 0..Len(observations)
    /\ \A i \in LegacyImporters : imports[i] = Records!Unread \/ imports[i] \in LegacyValues
    /\ DOMAIN imports = LegacyImporters

LEMMA HistoryInitial == Records!Init => HistoryInv
<1> SUFFICES ASSUME Records!Init PROVE HistoryInv
  OBVIOUS
<1>1. PICK s \in RecordSchemas : Records!ValidSchema(s) /\ versions = <<s>>
  BY DEF Records!Init
<1>2. versions \in Seq({s}) /\ versions # <<>> /\ \A n \in DOMAIN versions : versions[n] = s
  BY <1>1
<1>3. IsSeq(versions) /\ versions # <<>> /\ \A n \in DOMAIN versions : Records!ValidSchema(versions[n])
  BY <1>1, <1>2 DEF IsSeq
<1>4. Records!Store.records = <<>> /\ Records!Store.observations = <<>> /\ observations = <<>>
  BY DEF Records!Init, Records!Store
<1>5. DOMAIN Records!Store.records = {} /\ Len(Records!Store.observations) = 0
        /\ IsSeq(Records!Store.observations) /\ Len(observations) = 0
  BY <1>4 DEF IsSeq
<1>6. Explained(versions, Records!Store)
  BY <1>5 DEF Explained, ObservationsTyped
<1>7. /\ DOMAIN held = SavingTasks /\ \A t \in SavingTasks : held[t] = Records!Unread
      /\ DOMAIN imports = LegacyImporters /\ \A i \in LegacyImporters : imports[i] = Records!Unread
  BY DEF Records!Init
<1>8. DOMAIN resource = {"values", "link", "issue"} /\ resource.values \in LegacyValues
        /\ resource.link \in 0..Len(observations)
  BY <1>5 DEF Records!Init
<1> QED
  BY <1>3, <1>6, <1>7, <1>8 DEF HistoryInv

LEMMA ExplainedToo ==
    ASSUME NEW vs, NEW st, NEW same, st.records = same.records, st.observations = same.observations, Explained(vs, st)
    PROVE  Explained(vs, same)
  BY DEF Explained

LEMMA HistorySeqs ==
    ASSUME HistoryInv
    PROVE  /\ IsSeq(observations) /\ Len(observations) \in Nat /\ DOMAIN observations = 1..Len(observations)
           /\ Len(versions) \in Nat \ {0} /\ DOMAIN versions = 1..Len(versions)
<1>1. IsSeq(observations) /\ IsSeq(versions) /\ versions # <<>>
  BY DEF HistoryInv, Explained, ObservationsTyped, Records!Store
<1> QED
  BY <1>1, SeqIs DEF IsSeq

(* A step that saves a store and leaves the schema.                        *)
LEMMA CommitKeeps ==
    ASSUME HistoryInv, NEW st, Records!Commit(st), versions' = versions, Explained(versions, st),
           Extends(observations, st.observations)
    PROVE  /\ Explained(versions', Records!Store') /\ Len(observations') \in Nat
                /\ Len(observations) <= Len(observations')
           /\ IsSeq(versions') /\ versions' # <<>> /\ \A n \in DOMAIN versions' : Records!ValidSchema(versions'[n])
<1>1. records' = st.records /\ observations' = st.observations
  BY DEF Records!Commit
<1>2. Records!Store'.records = st.records /\ Records!Store'.observations = st.observations
  BY <1>1 DEF Records!Store
<1>3. Explained(versions', Records!Store')
  BY <1>2, ExplainedToo
<1>4. Len(observations') \in Nat /\ Len(observations) <= Len(observations')
  BY <1>1, SeqIs DEF Extends
<1> QED
  BY <1>3, <1>4 DEF HistoryInv

LEMMA SchemaEditKeeps == ASSUME HistoryInv, NEW s \in RecordSchemas, Records!UpdateSchema(s) PROVE HistoryInv'
<1>1. /\ Records!ValidSchema(s) /\ versions' = Append(versions, s)
      /\ UNCHANGED <<records, observations, held, resource, imports>>
  BY DEF Records!UpdateSchema
<1>2. /\ IsSeq(versions') /\ Len(versions') = Len(versions) + 1 /\ DOMAIN versions' = 1..Len(versions) + 1
      /\ \A n \in 1..Len(versions) : versions'[n] = versions[n]
      /\ versions'[Len(versions) + 1] = s
  BY <1>1, AppendIs DEF HistoryInv
<1>3. Len(versions) \in Nat \ {0} /\ DOMAIN versions = 1..Len(versions)
  BY HistorySeqs
<1>4. versions' # <<>>
  BY <1>2, <1>3
<1>5. \A n \in DOMAIN versions' : Records!ValidSchema(versions'[n])
  <2>1. \A n \in 1..Len(versions) + 1 : n \in 1..Len(versions) \/ n = Len(versions) + 1
    BY <1>3
  <2> QED
    BY <1>1, <1>2, <1>3, <2>1 DEF HistoryInv
<1>6. 1..Len(versions) \subseteq 1..Len(versions')
  BY <1>2, <1>3
<1>7. Records!Store' = Records!Store
  BY <1>1 DEF Records!Store
<1>8. ObservationsTyped(versions, Records!Store.observations, DOMAIN Records!Store.records)
  BY DEF HistoryInv, Explained
<1>9. ObservationsTyped(versions', Records!Store.observations, DOMAIN Records!Store.records)
  BY <1>6, <1>8 DEF ObservationsTyped
<1>10. \A k : Records!Told(versions', Records!Store.observations, k)[Len(Records!Store.observations)]
                = Records!Told(versions, Records!Store.observations, k)[Len(Records!Store.observations)]
  <2>1. PICK os : os = Records!Store.observations
    OBVIOUS
  <2>2. PICK vs, ws : vs = versions /\ ws = versions'
    OBVIOUS
  <2>3. Len(os) \in Nat
    BY <1>8, <2>1, SeqIs DEF ObservationsTyped
  <2>4. \A n \in 1..Len(os) : vs[os[n].version].policy = ws[os[n].version].policy
    BY <1>2, <1>8, <2>1, <2>2 DEF ObservationsTyped
  <2>5. \A k : Records!Told(ws, os, k)[Len(os)] = Records!Told(vs, os, k)[Len(os)]
    BY <2>3, <2>4, ToldSame
  <2> QED
    BY <2>1, <2>2, <2>5
<1>11. Explained(versions', Records!Store)
  BY <1>9, <1>10 DEF HistoryInv, Explained, RecordExplained
<1> QED
  BY <1>1, <1>2, <1>4, <1>5, <1>6, <1>7, <1>11 DEF HistoryInv

LEMMA PageExtractKeeps == ASSUME HistoryInv, NEW t \in SavingTasks, NEW batch \in PageBatches,
                                 Records!Extract(t, batch) PROVE HistoryInv'
<1>1. /\ held' = [held EXCEPT ![t] = [batch |-> batch, version |-> Len(versions)]]
      /\ UNCHANGED <<versions, records, observations, resource, imports>>
  BY DEF Records!Extract
<1>2. Len(versions) \in 1..Len(versions)
  BY HistorySeqs
<1>3. DOMAIN held = SavingTasks
  BY DEF HistoryInv
<1>4. held'[t].batch = batch /\ held'[t].version = Len(versions) /\ \A u \in SavingTasks : u # t => held'[u] = held[u]
  BY <1>1, <1>3
<1>5. DOMAIN held' = SavingTasks
  BY <1>1, <1>3
<1>6. \A u \in SavingTasks : held'[u] # Records!Unread =>
        held'[u].batch \in PageBatches /\ held'[u].version \in 1..Len(versions')
  BY <1>1, <1>2, <1>4 DEF HistoryInv
<1> QED
  BY <1>1, <1>5, <1>6 DEF HistoryInv, Records!Store

LEMMA TaskBatchIs ==
    ASSUME Records!RecordsAssumption, HistoryInv, NEW t \in SavingTasks, held[t] # Records!Unread
    PROVE  /\ Len(Records!TaskBatch(t)) \in Nat /\ DOMAIN held[t].batch = 1..Len(Records!TaskBatch(t))
           /\ \A i \in 1..Len(Records!TaskBatch(t)) :
                Records!TaskBatch(t)[i] = Records!Candidate(held[t].batch[i], <<t, i>>, held[t].version)
<1>1. held[t].batch \in Seq(Records!ToSet(held[t].batch))
  BY DEF Records!RecordsAssumption, HistoryInv
<1>2. PICK b : b = held[t].batch
  OBVIOUS
<1>3. Len(b) \in Nat /\ DOMAIN b = 1..Len(b)
  BY <1>1, <1>2
<1>4. Records!TaskBatch(t) = [i \in 1..Len(b) |-> Records!Candidate(b[i], <<t, i>>, held[t].version)]
  BY <1>2, <1>3 DEF Records!TaskBatch
<1>5. Len(Records!TaskBatch(t)) = Len(b)
  BY <1>3, <1>4
<1> QED
  BY <1>2, <1>3, <1>4, <1>5

LEMMA PersistKeeps == ASSUME Records!RecordsAssumption, HistoryInv, NEW t \in SavingTasks, Records!Persist(t)
                               PROVE HistoryInv'
<1>1. /\ held[t] # Records!Unread /\ Records!Commit(Records!SaveBatch(Records!TaskBatch(t)).store)
           /\ held' = [held EXCEPT ![t] = Records!Unread]
      /\ UNCHANGED <<versions, resource, imports>>
  BY DEF Records!Persist
<1>2. Len(Records!TaskBatch(t)) \in Nat
  BY <1>1, TaskBatchIs
<1>3. IsSeq(versions) /\ versions # <<>> /\ Explained(versions, Records!Store) /\ IsSeq(observations)
  BY HistorySeqs DEF HistoryInv
<1>4. PICK st : st = Records!SaveBatch(Records!TaskBatch(t)).store
  OBVIOUS
<1>5. Explained(versions, st) /\ Extends(observations, st.observations)
  BY <1>2, <1>3, <1>4, BatchExplains, BatchObserves
<1>6. /\ Explained(versions', Records!Store') /\ Len(observations') \in Nat /\ Len(observations) <= Len(observations')
      /\ IsSeq(versions') /\ versions' # <<>> /\ \A n \in DOMAIN versions' : Records!ValidSchema(versions'[n])
  BY <1>1, <1>4, <1>5, CommitKeeps
<1>7. DOMAIN held' = SavingTasks /\ \A u \in SavingTasks : held'[u] = IF u = t THEN Records!Unread ELSE held[u]
  BY <1>1 DEF HistoryInv
<1>8. resource.link \in 0..Len(observations')
  BY <1>6, HistorySeqs DEF HistoryInv
<1> QED
  BY <1>1, <1>6, <1>7, <1>8 DEF HistoryInv

LEMMA PostKeeps == ASSUME HistoryInv, NEW v, NEW idem, Records!Create(v, idem) PROVE HistoryInv'
<1>1. /\ Records!Commit(Records!Save(Records!Store, Records!Candidate(v, idem, 0), Records!Current).store)
      /\ UNCHANGED <<versions, held, resource, imports>>
  BY DEF Records!Create
<1>2. PICK c, st : c = Records!Candidate(v, idem, 0) /\ st = Records!Save(Records!Store, c, Records!Current).store
  OBVIOUS
<1>3. IsSeq(versions) /\ versions # <<>> /\ Explained(versions, Records!Store)
        /\ Records!Store.observations = observations /\ IsSeq(observations)
  BY HistorySeqs DEF HistoryInv, Records!Store
<1>4. Explained(versions, st) /\ Extends(observations, st.observations)
  <2>1. Extends(Records!Store.observations, st.observations)
    BY <1>2, <1>3, SaveObserves
  <2> QED
    BY <1>2, <1>3, <2>1, SaveExplains
<1>5. /\ Explained(versions', Records!Store') /\ Len(observations') \in Nat /\ Len(observations) <= Len(observations')
      /\ IsSeq(versions') /\ versions' # <<>> /\ \A n \in DOMAIN versions' : Records!ValidSchema(versions'[n])
  BY <1>1, <1>2, <1>4, CommitKeeps
<1>6. resource.link \in 0..Len(observations')
  BY <1>5, HistorySeqs DEF HistoryInv
<1> QED
  BY <1>1, <1>5, <1>6 DEF HistoryInv

LEMMA EditResourceKeeps == ASSUME HistoryInv, NEW v \in LegacyValues, Records!EditResource(v) PROVE HistoryInv'
<1>1. /\ resource' = [resource EXCEPT !.values = v]
      /\ UNCHANGED <<versions, records, observations, held, imports>>
  BY DEF Records!EditResource
<1>2. DOMAIN resource' = {"values", "link", "issue"} /\ resource'.values = v /\ resource'.link = resource.link
  BY <1>1 DEF HistoryInv
<1> QED
  BY <1>1, <1>2 DEF HistoryInv, Records!Store

LEMMA LegacyCandidateKeeps == ASSUME HistoryInv, NEW i \in LegacyImporters, Records!LegacyCandidate(i) PROVE HistoryInv'
<1>1. /\ imports' = [imports EXCEPT ![i] = resource.values]
      /\ UNCHANGED <<versions, records, observations, held, resource>>
  BY DEF Records!LegacyCandidate
<1>2. DOMAIN imports' = LegacyImporters /\ \A j \in LegacyImporters :
        imports'[j] = Records!Unread \/ imports'[j] \in LegacyValues
  BY <1>1 DEF HistoryInv
<1> QED
  BY <1>1, <1>2 DEF HistoryInv, Records!Store

LEMMA ImportKeeps ==
    ASSUME HistoryInv, NEW i \in LegacyImporters, NEW reconciling \in BOOLEAN,
           Records!ImportLegacyResource(i, reconciling)
    PROVE  HistoryInv'
<1>1. PICK c, out, link :
        /\ c = Records!Candidate(imports[i], <<"legacy", imports[i]>>, 0)
             /\ out = Records!Save(Records!Store, c, Records!Current)
        /\ link = IF Records!Prior(Records!Store, c) # {} THEN CHOOSE o \in Records!Prior(Records!Store, c) :
             TRUE ELSE Len(observations) + 1
  OBVIOUS
<1>2. /\ Records!Commit(out.store) /\ UNCHANGED <<versions, held>> /\ imports' = [imports EXCEPT ![i] = Records!Unread]
      /\ resource' = IF out.decision \in Records!Refused THEN [resource EXCEPT !.issue = @ \/ reconciling]
                     ELSE [resource EXCEPT !.link = link, !.issue = @ /\ ~reconciling]
  BY <1>1 DEF Records!ImportLegacyResource
<1>3. /\ IsSeq(versions) /\ versions # <<>> /\ Explained(versions, Records!Store)
           /\ Records!Store.observations = observations
      /\ IsSeq(observations) /\ Len(observations) \in Nat /\ DOMAIN observations = 1..Len(observations)
  BY HistorySeqs DEF HistoryInv, Records!Store
<1>4. Explained(versions, out.store) /\ Extends(observations, out.store.observations)
  <2>1. Extends(Records!Store.observations, out.store.observations)
    BY <1>1, <1>3, SaveObserves
  <2> QED
    BY <1>1, <1>3, <2>1, SaveExplains
<1>5. /\ Explained(versions', Records!Store') /\ Len(observations') \in Nat /\ Len(observations) <= Len(observations')
      /\ IsSeq(versions') /\ versions' # <<>> /\ \A n \in DOMAIN versions' : Records!ValidSchema(versions'[n])
  <2>1. PICK st : st = out.store
    OBVIOUS
  <2> QED
    BY <1>2, <1>4, <2>1, CommitKeeps
<1>6. out.decision \notin Records!Refused => link \in 0..Len(observations')
  <2>1. CASE Records!Prior(Records!Store, c) # {}
    <3>1. link \in Records!Prior(Records!Store, c)
      BY <1>1, <2>1
    <3>2. link \in 1..Len(observations)
      BY <1>3, <3>1 DEF Records!Prior
    <3> QED
      BY <1>3, <1>5, <3>2
  <2>2. CASE Records!Prior(Records!Store, c) = {} /\ out = Records!Write(Records!Store, c, Records!Current)
    <3>1. PICK o : o = Records!ObservedAs(c, Records!Current, DecisionOf(Records!Store, c, Records!Current))
      OBVIOUS
    <3>2. Records!Write(Records!Store, c, Records!Current).store.observations = Append(Records!Store.observations, o)
      BY <3>1, WriteObserves
    <3>3. observations' = Append(observations, o)
      BY <1>2, <1>3, <2>2, <3>2 DEF Records!Commit
    <3>4. Len(observations') = Len(observations) + 1
      BY <1>3, <3>3, AppendIs
    <3> QED
      BY <1>1, <1>3, <2>2, <3>4
  <2> QED
    BY <1>1, <2>1, <2>2, SaveIs
<1>7. DOMAIN resource' = {"values", "link", "issue"} /\ resource'.values = resource.values
      /\ resource'.link \in 0..Len(observations')
  <2>1. CASE out.decision \in Records!Refused
    <3>1. resource' = [resource EXCEPT !.issue = @ \/ reconciling]
      BY <1>2, <2>1
    <3> QED
      BY <1>3, <1>5, <3>1 DEF HistoryInv
  <2>2. CASE out.decision \notin Records!Refused
    <3>1. resource' = [resource EXCEPT !.link = link, !.issue = @ /\ ~reconciling]
      BY <1>2, <2>2
    <3> QED
      BY <1>6, <2>2, <3>1 DEF HistoryInv
  <2> QED
    BY <2>1, <2>2
<1>8. DOMAIN imports' = LegacyImporters /\ \A j \in LegacyImporters :
        imports'[j] = Records!Unread \/ imports'[j] \in LegacyValues
  BY <1>2 DEF HistoryInv
<1> QED
  BY <1>2, <1>5, <1>7, <1>8 DEF HistoryInv

LEMMA HistoryStepKeeps == ASSUME Records!RecordsAssumption, HistoryInv, [Records!Next]_recordVars PROVE HistoryInv'
<1>1. CASE UNCHANGED recordVars
  BY <1>1 DEF recordVars, HistoryInv, Records!Store
<1>2. CASE Records!Next
  BY <1>2, SchemaEditKeeps, PageExtractKeeps, PersistKeeps, PostKeeps, EditResourceKeeps, LegacyCandidateKeeps,
     ImportKeeps DEF Records!Next
<1> QED
  BY <1>1, <1>2

LEMMA HistoryInvSuffices == HistoryInv => Records!TypeOK /\ Records!RecordsExplained
<1> SUFFICES ASSUME HistoryInv PROVE Records!TypeOK /\ Records!RecordsExplained
  OBVIOUS
<1>1. /\ Len(observations) \in Nat /\ DOMAIN observations = 1..Len(observations)
      /\ Len(versions) \in Nat \ {0} /\ DOMAIN versions = 1..Len(versions)
  BY HistorySeqs
<1>2. ObservationsTyped(versions, observations, DOMAIN records)
      /\ \A k \in DOMAIN records : RecordExplained(versions, observations, k, records[k])
  BY DEF HistoryInv, Explained, Records!Store
<1>3. Records!TypeOK
  BY <1>1, <1>2 DEF HistoryInv, Records!TypeOK, ObservationsTyped, RecordExplained
<1>4. Records!RecordsExplained
  BY <1>1, <1>2 DEF Records!RecordsExplained, ObservationsTyped, RecordExplained
<1> QED
  BY <1>3, <1>4

-----------------------------------------------------------------------------
(* A task's save is of the whole page and under the version it extracted.  *)
LEMMA PageIsWhole ==
    ASSUME Records!RecordsAssumption, HistoryInv, Records!Next, NEW t \in SavingTasks,
           held[t] # Records!Unread, held'[t] = Records!Unread, observations' # observations
    PROVE  /\ held[t].version = Len(versions)
           /\ \A i \in DOMAIN held[t].batch :
                \E o \in Records!ToSet(observations') :
                   o.idem = <<t, i>> /\ o.values = Records!Normalized(held[t].batch[i])
<1>1. DOMAIN held = SavingTasks
  BY DEF HistoryInv
<1>2. PICK u \in SavingTasks : Records!Persist(u)
  BY DEF Records!Next, Records!UpdateSchema, Records!Extract, Records!Create,
       Records!EditResource, Records!LegacyCandidate, Records!ImportLegacyResource
<1>3. u = t
  BY <1>1, <1>2 DEF Records!Persist
<1>4. observations' = Records!SaveBatch(Records!TaskBatch(t)).store.observations
  BY <1>2, <1>3 DEF Records!Persist, Records!Commit
<1>5. /\ Len(Records!TaskBatch(t)) \in Nat /\ DOMAIN held[t].batch = 1..Len(Records!TaskBatch(t))
      /\ \A i \in 1..Len(Records!TaskBatch(t)) :
           Records!TaskBatch(t)[i] = Records!Candidate(held[t].batch[i], <<t, i>>, held[t].version)
  BY TaskBatchIs
<1>6. Records!SaveBatch(Records!TaskBatch(t)).store # Records!Store
  BY <1>4 DEF Records!Store
<1>7. IsSeq(observations)
  BY HistorySeqs
<1>8. /\ Extends(observations, observations')
      /\ \A m \in 1..Len(Records!TaskBatch(t)) :
           ~Records!Stale(Records!TaskBatch(t)[m]) /\ ObservedIn(observations', Records!TaskBatch(t)[m])
  BY <1>4, <1>5, <1>6, <1>7, BatchObserves
<1>9. DOMAIN observations' = 1..Len(observations')
  BY <1>8, SeqIs DEF Extends
<1>10. \A i \in DOMAIN held[t].batch :
         \E o \in Records!ToSet(observations') : o.idem = <<t, i>> /\ o.values = Records!Normalized(held[t].batch[i])
  <2>1. TAKE i \in DOMAIN held[t].batch
  <2>2. Records!TaskBatch(t)[i] = Records!Candidate(held[t].batch[i], <<t, i>>, held[t].version)
          /\ ObservedIn(observations', Records!TaskBatch(t)[i])
    BY <1>5, <1>8
  <2>3. Records!TaskBatch(t)[i].idem = <<t, i>> /\ Records!TaskBatch(t)[i].values = held[t].batch[i]
    BY <2>2 DEF Records!Candidate
  <2>4. PICK n \in 1..Len(observations') :
          observations'[n].idem = <<t, i>> /\ observations'[n].values = Records!Normalized(held[t].batch[i])
    BY <2>2, <2>3 DEF ObservedIn
  <2> QED
    BY <1>9, <2>4 DEF Records!ToSet
<1>11. held[t].version = Len(versions)
  <2>1. Len(Records!TaskBatch(t)) # 0
    <3>1. held[t].batch # <<>> /\ held[t].batch \in Seq(Records!ToSet(held[t].batch))
      BY DEF Records!RecordsAssumption, HistoryInv
    <3> QED
      BY <1>5, <3>1
  <2>2. 1 \in 1..Len(Records!TaskBatch(t))
    BY <1>5, <2>1
  <2>3. Records!TaskBatch(t)[1].expected = held[t].version
    <3>1. Records!TaskBatch(t)[1] = Records!Candidate(held[t].batch[1], <<t, 1>>, held[t].version)
      BY <1>5, <2>2
    <3> QED
      BY <3>1 DEF Records!Candidate
  <2>4. held[t].version # 0
    BY DEF HistoryInv
  <2> QED
    BY <1>8, <2>2, <2>3, <2>4 DEF Records!Stale
<1> QED
  BY <1>10, <1>11

(* Where no candidate was refused, the preview has seen what was saved.    *)
LEMMA PreviewFollows ==
    ASSUME NEW batch, Len(batch) \in Nat, IsSeq(observations),
           NEW cs, Len(cs) = Len(batch), \A i \in 1..Len(batch) : cs[i] = Records!Candidate(batch[i], Records!NoKey, 0),
           \A i \in 1..Len(batch) : batch[i] = Records!Normalized(batch[i]), ~Records!Saved(cs)[Len(cs)].refused,
           NEW saved, saved = Records!Saved(cs)[Len(cs)].store.observations,
           NEW decisions, decisions = Records!Previewed(batch)[Len(batch)].decisions
    PROVE  /\ IsSeq(decisions) /\ Len(decisions) = Len(batch)
           /\ \A i \in 1..Len(batch), j \in Nat : j = Len(observations) + i => decisions[i] = saved[j].decision
<1> DEFINE Follows(n) ==
      LET st == Records!Saved(cs)[n].store
          seen == Records!Previewed(batch)[n]
      IN  /\ DOMAIN seen.held = DOMAIN st.records /\ \A k \in DOMAIN seen.held : seen.held[k] = st.records[k].values
          /\ IsSeq(st.observations) /\ Len(st.observations) = Len(observations) + n
          /\ IsSeq(seen.decisions) /\ Len(seen.decisions) = n
          /\ \A i \in 1..n : seen.decisions[i] = st.observations[Len(observations) + i].decision
    Good == {n \in 0..Len(batch) : Records!Saved(cs)[n].refused \/ Follows(n)}
<1>1. Len(observations) \in Nat
  BY SeqIs
<1>2. 0 \in Good
  <2>1. /\ Records!Saved(cs)[0].store = Records!Store
        /\ Records!Previewed(batch)[0] = [held |-> [k \in DOMAIN records |-> records[k].values], decisions |-> <<>>]
    BY SavedIs, PreviewedIs
  <2>2. IsSeq(<<>>) /\ Len(<<>>) = 0
    BY DEF IsSeq
  <2>3. Follows(0)
    BY <1>1, <2>1, <2>2 DEF Records!Store
  <2> QED
    BY <2>3
<1>3. ASSUME NEW n \in 0..Len(batch) - 1, n \in Good PROVE n + 1 \in Good
  <2> SUFFICES ASSUME ~Records!Saved(cs)[n + 1].refused PROVE Follows(n + 1)
    OBVIOUS
  <2>1. PICK st, seen, c, v : st = Records!Saved(cs)[n].store /\ seen = Records!Previewed(batch)[n]
          /\ c = cs[n + 1] /\ v = batch[n + 1]
    OBVIOUS
  <2>2. n + 1 \in 1..Len(batch) /\ (n + 1) - 1 = n
    OBVIOUS
  <2>3. ~Records!Saved(cs)[n].refused /\ Records!Save(st, c, Records!Current).decision \notin Records!Refused
        /\ Records!Saved(cs)[n + 1].store = Records!Save(st, c, Records!Current).store
    BY <2>1, SavedNext
  <2>4. Follows(n)
    BY <1>3, <2>3
  <2> HIDE DEF Good
  <2>5. c = Records!Candidate(v, Records!NoKey, 0) /\ v = Records!Normalized(v)
    BY <2>1, <2>2
  <2>6. c.values = v /\ c.idem = Records!NoKey /\ c.expected = 0
    BY <2>5 DEF Records!Candidate
  <2>7. Records!Prior(st, c) = {} /\ ~Records!Stale(c)
    BY <2>6 DEF Records!Prior, Records!Stale
  <2>8. Records!Save(st, c, Records!Current) = Records!Write(st, c, Records!Current)
          /\ Records!Preparable(Records!Current, v)
    <3>1. Records!Preparable(Records!Current, Records!Normalized(c.values))
      BY <2>3, <2>7 DEF Records!Save, Records!Refused
    <3> QED
      BY <2>5, <2>6, <2>7, <3>1 DEF Records!Save
  <2>9. PICK key, old, new, d, has :
          /\ key = KeyOf(c, Records!Current) /\ old = OldOf(st, c, Records!Current)
               /\ new = NewOf(st, c, Records!Current)
          /\ d = DecisionOf(st, c, Records!Current) /\ has = (key \in DOMAIN st.records)
    OBVIOUS
  <2>10. /\ key = Records!CanonicalKey(Records!Current, v)
         /\ old = IF key \in DOMAIN st.records THEN st.records[key].values ELSE <<>>
         /\ new = IF key \in DOMAIN st.records THEN Records!Merge(Records!Current.policy, old, v) ELSE v
         /\ d = Records!Decision(key \in DOMAIN st.records, old, new)
    BY <2>5, <2>6, <2>9 DEF KeyOf, OldOf, NewOf, DecisionOf
  <2>11. PICK o : o = Records!ObservedAs(c, Records!Current, d)
    OBVIOUS
  <2>12. PICK after : after = Records!Saved(cs)[n + 1].store
    OBVIOUS
  <2>13. /\ DOMAIN after.records = DOMAIN st.records \union {key} /\ after.records[key].values = new
         /\ \A k \in DOMAIN st.records : k # key => after.records[k] = st.records[k]
    <3>1. after = Records!Write(st, c, Records!Current).store
      BY <2>3, <2>8, <2>12
    <3>2. after.records[key] = [values |-> new, revisions |-> RevisionsOf(st, c, Records!Current)]
      BY <2>9, <3>1, WriteIs
    <3> QED
      BY <2>9, <3>1, <3>2, WriteIs
  <2>14. after.observations = Append(st.observations, o)
    <3>1. after = Records!Write(st, c, Records!Current).store
      BY <2>3, <2>8, <2>12
    <3>2. Records!Write(st, c, Records!Current).store.observations
            = Append(st.observations, Records!ObservedAs(c, Records!Current, DecisionOf(st, c, Records!Current)))
      BY WriteObserves
    <3> QED
      BY <2>9, <2>11, <3>1, <3>2
  <2>15. o.decision = d
    BY <2>11 DEF Records!ObservedAs
  <2>16. PICK next : next = Records!Previewed(batch)[n + 1]
    OBVIOUS
  <2>17. DOMAIN seen.held = DOMAIN st.records /\ \A k \in DOMAIN seen.held : seen.held[k] = st.records[k].values
    BY <2>1, <2>4
  <2>18. /\ DOMAIN next.held = DOMAIN seen.held \union {key} /\ next.held[key] = new
         /\ \A k \in DOMAIN seen.held : k # key => next.held[k] = seen.held[k]
         /\ next.decisions = Append(seen.decisions, d)
    <3>1. next = Records!PreviewStep(seen, v)
      BY <2>1, <2>2, <2>16, PreviewedIs
    <3>2. Records!PreviewStep(seen, v) =
            [held |-> [k \in DOMAIN seen.held \union {key} |-> IF k = key THEN new ELSE seen.held[k]],
             decisions |-> Append(seen.decisions, d)]
      <4>1. CASE key \in DOMAIN seen.held
        <5>1. old = seen.held[key] /\ new = Records!Merge(Records!Current.policy, seen.held[key], v)
                /\ key \in DOMAIN st.records
          BY <2>10, <2>17, <4>1
        <5>2. d = Records!Decision(key \in DOMAIN seen.held, old, new)
          BY <2>10, <2>17
        <5> QED
          BY <2>8, <2>10, <4>1, <5>1, <5>2 DEF Records!PreviewStep, Records!Decision
      <4>2. CASE key \notin DOMAIN seen.held
        <5>1. old = <<>> /\ new = v
          BY <2>10, <2>17, <4>2
        <5>2. d = Records!Decision(key \in DOMAIN seen.held, old, new)
          BY <2>10, <2>17
        <5> QED
          BY <2>8, <2>10, <4>2, <5>1, <5>2 DEF Records!PreviewStep, Records!Decision
      <4> QED
        BY <4>1, <4>2
    <3> QED
      BY <3>1, <3>2
  <2>19. /\ DOMAIN next.held = DOMAIN after.records
         /\ \A k \in DOMAIN next.held : next.held[k] = after.records[k].values
    BY <2>13, <2>17, <2>18
  <2>20. /\ IsSeq(st.observations) /\ Len(st.observations) = Len(observations) + n
         /\ IsSeq(seen.decisions) /\ Len(seen.decisions) = n
         /\ \A i \in 1..n : seen.decisions[i] = st.observations[Len(observations) + i].decision
    BY <2>1, <2>4
  <2>21. /\ IsSeq(after.observations) /\ Len(after.observations) = Len(observations) + (n + 1)
         /\ after.observations[Len(observations) + (n + 1)] = o
         /\ \A i \in 1..Len(observations) + n : after.observations[i] = st.observations[i]
    <3>1. /\ IsSeq(Append(st.observations, o)) /\ Len(Append(st.observations, o)) = Len(st.observations) + 1
          /\ Append(st.observations, o)[Len(st.observations) + 1] = o
          /\ \A i \in 1..Len(st.observations) : Append(st.observations, o)[i] = st.observations[i]
      BY <2>20, AppendIs
    <3>2. Len(st.observations) + 1 = Len(observations) + (n + 1)
      BY <1>1, <2>20
    <3> QED
      BY <2>14, <2>20, <3>1, <3>2
  <2>22. /\ IsSeq(next.decisions) /\ Len(next.decisions) = n + 1 /\ next.decisions[n + 1] = d
         /\ \A i \in 1..n : next.decisions[i] = seen.decisions[i]
    BY <2>18, <2>20, AppendIs
  <2>23. \A i \in 1..n + 1 : next.decisions[i] = after.observations[Len(observations) + i].decision
    <3>1. TAKE i \in 1..n + 1
    <3>2. CASE i = n + 1
      BY <2>15, <2>21, <2>22, <3>2
    <3>3. CASE i \in 1..n
      <4>1. Len(observations) + i \in 1..Len(observations) + n
        BY <1>1, <3>3
      <4> QED
        BY <2>20, <2>21, <2>22, <3>3, <4>1
    <3> QED
      BY <3>2, <3>3
  <2> QED
    BY <2>12, <2>16, <2>19, <2>21, <2>22, <2>23
<1>4. Follows(Len(batch))
  <2>1. 0..Len(batch) \subseteq Good
    <3> HIDE DEF Good
    <3> QED
      BY <1>2, <1>3, UpTo
  <2>2. Len(batch) \in Good /\ ~Records!Saved(cs)[Len(batch)].refused
    <3> HIDE DEF Good
    <3> QED
      BY <2>1
  <2> HIDE DEF Follows
  <2> QED
    BY <2>2
<1> QED
  BY <1>1, <1>4

LEMMA PreviewIs ==
    ASSUME Records!RecordsAssumption, HistoryInv
    PROVE  Records!PreviewAgrees
<1> SUFFICES ASSUME NEW batch \in PageBatches, NEW cs,
                    cs = [i \in DOMAIN batch |-> Records!Candidate(batch[i], Records!NoKey, 0)],
                    \A i \in DOMAIN batch : batch[i] = Records!Normalized(batch[i]),
                    Records!SaveBatch(cs).store.observations # observations
             PROVE  Records!PreviewBatch(batch)
                      = [i \in DOMAIN batch |-> Records!SaveBatch(cs).store.observations[Len(observations) + i].decision]
  BY DEF Records!PreviewAgrees
<1>1. Len(batch) \in Nat /\ DOMAIN batch = 1..Len(batch)
  BY DEF Records!RecordsAssumption
<1>2. Len(cs) = Len(batch) /\ \A i \in 1..Len(batch) : cs[i] = Records!Candidate(batch[i], Records!NoKey, 0)
  BY <1>1
<1>3. ~Records!Saved(cs)[Len(cs)].refused
  BY <1>1, <1>2, BatchRefused DEF Records!Store
<1>4. Records!SaveBatch(cs) = Records!Saved(cs)[Len(cs)]
  BY <1>3 DEF Records!SaveBatch
<1>5. PICK saved, decisions : saved = Records!SaveBatch(cs).store.observations
        /\ decisions = Records!Previewed(batch)[Len(batch)].decisions
  OBVIOUS
<1>6. /\ IsSeq(decisions) /\ Len(decisions) = Len(batch)
      /\ \A i \in 1..Len(batch), j \in Nat : j = Len(observations) + i => decisions[i] = saved[j].decision
  <2>1. \A i \in 1..Len(batch) : batch[i] = Records!Normalized(batch[i])
    BY <1>1
  <2>2. IsSeq(observations)
    BY HistorySeqs
  <2>3. saved = Records!Saved(cs)[Len(cs)].store.observations
    BY <1>4, <1>5
  <2>4. decisions = Records!Previewed(batch)[Len(batch)].decisions
    BY <1>5
  <2>5. IsSeq(decisions)
    BY <1>1, <1>2, <1>3, <2>1, <2>2, <2>3, <2>4, PreviewFollows
  <2>6. Len(decisions) = Len(batch)
    BY <1>1, <1>2, <1>3, <2>1, <2>2, <2>3, <2>4, PreviewFollows
  <2>7. \A i \in 1..Len(batch), j \in Nat : j = Len(observations) + i => decisions[i] = saved[j].decision
    BY ONLY <1>1, <1>2, <1>3, <2>1, <2>2, <2>3, <2>4, PreviewFollows
  <2> QED
    BY <2>5, <2>6, <2>7
<1>7. decisions = [i \in 1..Len(batch) |-> saved[Len(observations) + i].decision]
  <2>1. Len(observations) \in Nat
    BY HistorySeqs
  <2> QED
    BY <1>1, <1>6, <2>1 DEF IsSeq
<1> QED
  BY <1>1, <1>5, <1>7 DEF Records!PreviewBatch

-----------------------------------------------------------------------------
LEMMA StoresStepRecords == StoresNext => [Records!Next]_recordVars
<1>1. AuthoringStep \/ DefinitionStep \/ ListingStep \/ BudgetStep => UNCHANGED recordVars
  BY DEF AuthoringStep, DefinitionStep, ListingStep, BudgetStep, In
<1>2. ResourceStep \/ MagnetStep \/ SubmitStep \/ PollStep => UNCHANGED recordVars
  BY DEF ResourceStep, MagnetStep, SubmitStep, PollStep, In
<1>3. RecordStep => Records!Next
  BY DEF RecordStep, Records!Next
<1> QED
  BY <1>1, <1>2, <1>3 DEF StoresNext

LEMMA StoresKeepHistory ==
    /\ StoresInit => HistoryInv
    /\ HistoryInv /\ [StoresNext]_storesVars => HistoryInv'
<1>1. StoresInit => HistoryInv
  BY HistoryInitial DEF StoresInit
<1>2. [StoresNext]_storesVars => [Records!Next]_recordVars
  BY StoresStepRecords DEF storesVars
<1> QED
  BY <1>1, <1>2, RecordsAssumed, HistoryStepKeeps

(* Whatever is extracted, posted and imported while the schema is edited:  *)
(* the observations of a record explain its values and its revisions, and  *)
(* no idempotency key was observed twice (records.go:164-269).             *)
THEOREM StoresRecordsExplained == StoresSpec => []RecordsExplained
<1>1. HistoryInv => RecordsExplained
  BY HistoryInvSuffices DEF RecordsExplained
<1> QED
  BY <1>1, StoresKeepHistory, PTL DEF StoresSpec

(* A page is persisted whole or not at all, retries and edits of the schema*)
(* in between included (records.go:60-89).                                 *)
THEOREM StoresPageWhole == StoresSpec => PageWhole
<1> DEFINE Whole(t) == held[t] # Records!Unread /\ held'[t] = Records!Unread /\ observations' # observations =>
             /\ held[t].version = Len(versions)
             /\ \A i \in DOMAIN held[t].batch :
                  \E o \in Records!ToSet(observations') :
                     o.idem = <<t, i>> /\ o.values = Records!Normalized(held[t].batch[i])
<1>1. HistoryInv /\ [StoresNext]_storesVars => [\A t \in SavingTasks : Whole(t)]_Records!vars
  <2> SUFFICES ASSUME HistoryInv, [StoresNext]_storesVars PROVE [\A t \in SavingTasks : Whole(t)]_Records!vars
    OBVIOUS
  <2>1. [Records!Next]_recordVars
    BY StoresStepRecords DEF storesVars
  <2>2. Records!Next => \A t \in SavingTasks : Whole(t)
    BY RecordsAssumed, PageIsWhole
  <2> QED
    BY <2>1, <2>2 DEF recordVars, Records!vars
<1> QED
  BY <1>1, StoresKeepHistory, PTL DEF StoresSpec, PageWhole, Records!PageWhole

(* At any moment and for any batch whose keys need no upper-casing, the    *)
(* preview tells the decisions of a save (preview.go:22-77).               *)
THEOREM StoresPreviewAgrees == StoresSpec => []PreviewAgrees
<1>1. HistoryInv => PreviewAgrees
  BY RecordsAssumed, PreviewIs DEF PreviewAgrees
<1> QED
  BY <1>1, StoresKeepHistory, PTL DEF StoresSpec

-----------------------------------------------------------------------------
(* The walk of a run without deaths, and the tasks that have been made of  *)
(* its first pages.                                                        *)
WalkIs(w) ==
    /\ w[1] = [at |-> EntryPage, met |-> {EntryPage}, seen |-> site[EntryPage].details,
               streak |-> IF site[EntryPage].details = {} THEN 1 ELSE 0]
    /\ \A n \in 2..MaxPages : w[n] = Listing!WalkOn(site, limits, w[n - 1], n)

LEMMA WalkExists == ASSUME Listing!TypeOK PROVE WalkIs(Listing!Walk(site, limits))
<1> DEFINE Begun == [at |-> EntryPage, met |-> {EntryPage}, seen |-> site[EntryPage].details,
                     streak |-> IF site[EntryPage].details = {} THEN 1 ELSE 0]
           Then(b, n) == Listing!WalkOn(site, limits, b, n)
           Step(f, k) == [n \in 1..k |-> IF n = 1 THEN Begun ELSE Then(f[n - 1], n)]
           Missing == {k \in 1..MaxPages : ~ \E f : f = Step(f, k)}
<1>3. Listing!Walk(site, limits) = CHOOSE f : f = Step(f, MaxPages)
  BY DEF Listing!Walk
<1> HIDE DEF Begun, Then
<1>9. MaxPages \in Nat \ {0}
  BY ListingAssumed DEF Listing!ListingAssumption
<1>1. Missing = {}
  <2> SUFFICES ASSUME Missing # {} PROVE FALSE
    OBVIOUS
  <2>1. PICK k \in Missing : \A m \in Missing : k <= m
    <3>1. Missing \in SUBSET Nat
      BY <1>9
    <3> QED
      BY <3>1, LeastNatural
  <2>2. k # 1
    <3>1. [n \in 1..1 |-> Begun] = Step([n \in 1..1 |-> Begun], 1)
      OBVIOUS
    <3> QED
      BY <2>1, <3>1
  <2>3. PICK f : f = Step(f, k - 1)
    <3>1. k - 1 \in 1..MaxPages /\ ~(k <= k - 1)
      BY <1>9, <2>1, <2>2
    <3> QED
      BY <2>1, <3>1
  <2> DEFINE g == [n \in 1..k |-> IF n = k THEN Then(f[k - 1], k) ELSE f[n]]
  <2>4. g = Step(g, k)
    <3>1. \A n \in 1..k - 1 : g[n] = f[n]
      BY <1>9, <2>1
    <3>2. \A n \in 1..k - 1 : f[n] = IF n = 1 THEN Begun ELSE Then(f[n - 1], n)
      BY <2>3
    <3>3. \A n \in 1..k : g[n] = IF n = 1 THEN Begun ELSE Then(g[n - 1], n)
      BY <1>9, <2>1, <2>2, <3>1, <3>2
    <3> QED
      BY <3>3
  <2> QED
    BY <2>1, <2>4
<1>2. \E f : f = Step(f, MaxPages)
  <2>1. MaxPages \in 1..MaxPages /\ MaxPages \notin Missing
    BY <1>1, <1>9
  <2> QED
    BY <2>1
<1>4. PICK f : f = Listing!Walk(site, limits)
  OBVIOUS
<1>5. f = Step(f, MaxPages)
  BY <1>2, <1>3, <1>4
<1>6. f[1] = Begun /\ \A n \in 2..MaxPages : f[n] = Then(f[n - 1], n)
  BY <1>5, <1>9
<1> QED
  BY <1>4, <1>6 DEF Begun, Then, WalkIs

(* Where a walk goes on it goes to the next page, which it had not met.    *)
StateTyped(x) == x \in [at : ListPages \union {NoPage}, met : SUBSET ListPages, seen : SUBSET DetailPages, streak : Nat]

LEMMA WalksOn ==
    ASSUME Listing!TypeOK, NEW x, StateTyped(x), NEW n \in 2..MaxPages, NEW y, y = Listing!WalkOn(site, limits, x, n)
    PROVE  /\ StateTyped(y) /\ x.seen \subseteq y.seen
           /\ x.at = NoPage => y.at = NoPage
           /\ y.at = NoPage => y.seen = x.seen
           /\ y.at # NoPage => /\ n <= limits.pages /\ x.streak < limits.empty
                               /\ x.at \in ListPages /\ y.at = site[x.at].next /\ y.at \notin x.met
                               /\ y.met = x.met \union {y.at} /\ y.seen = x.seen \union site[y.at].details
                               /\ y.streak = IF site[y.at].details \subseteq x.seen THEN x.streak + 1 ELSE 0
           /\ (/\ x.at # NoPage /\ site[x.at].next \notin x.met \union {NoPage}
               /\ n <= limits.pages /\ x.streak < limits.empty) => y.at = site[x.at].next
<1>1. PICK at \in ListPages \union {NoPage}, met \in SUBSET ListPages, seen \in SUBSET DetailPages, streak \in Nat :
        x = [at |-> at, met |-> met, seen |-> seen, streak |-> streak]
  BY DEF StateTyped
<1>2. limits.pages \in Nat /\ limits.empty \in Nat /\ n \in Nat /\ NoPage \notin ListPages
  BY ListingAssumed DEF Listing!TypeOK, Listing!ListingAssumption
<1>3. CASE \/ at = NoPage \/ site[at].next \in met \union {NoPage} \/ n > limits.pages \/ streak >= limits.empty
  <2>1. y = [at |-> NoPage, met |-> met, seen |-> seen, streak |-> streak]
    BY <1>1, <1>3 DEF Listing!WalkOn
  <2> QED
    BY <1>1, <1>2, <1>3, <2>1 DEF StateTyped
<1>4. CASE ~(\/ at = NoPage \/ site[at].next \in met \union {NoPage} \/ n > limits.pages \/ streak >= limits.empty)
  <2>1. PICK next : next = site[at].next
    OBVIOUS
  <2>2. PICK details : details = site[next].details
    OBVIOUS
  <2>3. at \in ListPages /\ next \in ListPages /\ next # NoPage /\ next \notin met /\ details \in SUBSET DetailPages
    BY <1>2, <1>4, <2>1, <2>2 DEF Listing!TypeOK
  <2>4. y = [at |-> next, met |-> met \union {next}, seen |-> seen \union details,
             streak |-> IF details \subseteq seen THEN streak + 1 ELSE 0]
    BY <1>1, <1>4, <2>1, <2>2 DEF Listing!WalkOn
  <2> QED
    BY <1>1, <1>2, <1>4, <2>1, <2>2, <2>3, <2>4 DEF StateTyped
<1> QED
  BY <1>3, <1>4

LEMMA WalkTyped == ASSUME Listing!TypeOK, NEW w, WalkIs(w) PROVE \A n \in 1..MaxPages : StateTyped(w[n])
<1>1. MaxPages \in Nat \ {0} /\ EntryPage \in ListPages
  BY ListingAssumed DEF Listing!ListingAssumption
<1>2. StateTyped(w[1])
  <2>1. site[EntryPage].details \in SUBSET DetailPages
    BY <1>1 DEF Listing!TypeOK
  <2> QED
    BY <1>1, <2>1 DEF WalkIs, StateTyped
<1>3. ASSUME NEW n \in 2..MaxPages, StateTyped(w[n - 1]) PROVE StateTyped(w[n])
  BY <1>3, WalksOn DEF WalkIs
<1> DEFINE S == {i \in Nat : i + 1 \in 1..MaxPages => StateTyped(w[i + 1])}
<1>4. \A i \in 0..(MaxPages - 1) - 1 : i \in S => i + 1 \in S
  <2> SUFFICES ASSUME NEW i \in 0..(MaxPages - 1) - 1, i \in S PROVE i + 1 \in S
    OBVIOUS
  <2>1. i + 1 \in 1..MaxPages /\ i + 2 \in 2..MaxPages /\ (i + 2) - 1 = i + 1 /\ (i + 1) + 1 = i + 2 /\ i + 1 \in Nat
    BY <1>1
  <2>2. StateTyped(w[i + 2])
    BY <2>1, <1>3
  <2> QED
    BY <2>1, <2>2
<1>5. 0..MaxPages - 1 \subseteq S
  <2>1. 0 \in S /\ MaxPages - 1 \in Nat
    BY <1>1, <1>2
  <2> HIDE DEF S
  <2> QED
    BY <2>1, <1>4, UpTo
<1>6. ASSUME NEW n \in 1..MaxPages PROVE StateTyped(w[n])
  <2>1. n - 1 \in 0..MaxPages - 1 /\ (n - 1) + 1 = n
    BY <1>1
  <2> QED
    BY <2>1, <1>5
<1> QED
  BY <1>6

(* What was seen stays seen; a walk that has ended goes nowhere.           *)
LEMMA WalkKeeps ==
    ASSUME Listing!TypeOK, NEW w, WalkIs(w), NEW j \in 1..MaxPages, NEW n \in j..MaxPages
    PROVE  w[j].seen \subseteq w[n].seen /\ (w[j].at = NoPage => w[n].at = NoPage /\ w[n].seen = w[j].seen)
<1>1. MaxPages \in Nat \ {0}
  BY ListingAssumed DEF Listing!ListingAssumption
<1> DEFINE Kept(k) == w[j].seen \subseteq w[k].seen /\ (w[j].at = NoPage => w[k].at = NoPage /\ w[k].seen = w[j].seen)
           S == {i \in Nat : j + i \in 1..MaxPages => Kept(j + i)}
<1>2. Kept(j + 0)
  BY <1>1
<1>3. ASSUME NEW k \in j..MaxPages - 1, Kept(k) PROVE Kept(k + 1)
  <2>1. k \in 1..MaxPages /\ k + 1 \in 2..MaxPages /\ (k + 1) - 1 = k
    BY <1>1
  <2>2. StateTyped(w[k])
    BY <2>1, WalkTyped
  <2>3. w[k + 1] = Listing!WalkOn(site, limits, w[k], k + 1)
    BY <2>1 DEF WalkIs
  <2> QED
    BY <1>3, <2>1, <2>2, <2>3, WalksOn
<1> HIDE DEF Kept
<1>4. \A i \in 0..(MaxPages - j) - 1 : i \in S => i + 1 \in S
  <2> SUFFICES ASSUME NEW i \in 0..(MaxPages - j) - 1, i \in S PROVE i + 1 \in S
    OBVIOUS
  <2>1. j + i \in j..MaxPages - 1 /\ j + i \in 1..MaxPages /\ j + (i + 1) = (j + i) + 1 /\ i + 1 \in Nat
    BY <1>1
  <2>2. Kept((j + i) + 1)
    BY <2>1, <1>3
  <2> QED
    BY <2>1, <2>2
<1>5. 0..MaxPages - j \subseteq S
  <2>1. 0 \in S /\ MaxPages - j \in Nat
    BY <1>1, <1>2
  <2> HIDE DEF S
  <2> QED
    BY <2>1, <1>4, UpTo
<1>6. n - j \in 0..MaxPages - j /\ j + (n - j) = n /\ n \in 1..MaxPages
  BY <1>1
<1>7. Kept(n)
  BY <1>5, <1>6
<1> QED
  BY <1>7 DEF Kept

-----------------------------------------------------------------------------
PagePlaced(w, m) == \A n \in 1..m :
    /\ w[n].at \in ListPages /\ pages[w[n].at].status # "none" /\ pages[w[n].at].index = n
    /\ pages[w[n].at].parent = (IF n = 1 THEN NoPage ELSE w[n - 1].at)
    /\ pages[w[n].at].streak = (IF n = 1 THEN 0 ELSE w[n - 1].streak)

Visited(w, m) == \A l \in ListPages :
    /\ pages[l].status # "none" <=> l \in w[m].met
    /\ pages[l].status # "none" => \E n \in 1..m : w[n].at = l

(* A detail's task is the child of the first page that shows it.           *)
Claimed(w, m) == \A d \in DetailPages :
    parents[d] # NoPage => \E n \in 1..m :
        parents[d] = w[n].at /\ d \in w[n].seen /\ (n # 1 => d \notin w[n - 1].seen)

(* All that a page shows has its task when the page links to the next one. *)
Linked(l) == pages[l].status \in {"linked", "succeeded"}

Looked == \A l \in ListPages :
    /\ todo[l] \subseteq site[l].details
    /\ pages[l].status = "running" => \A d \in site[l].details \ todo[l] : parents[d] # NoPage

Found(w, m) == \A n \in 1..m, d \in DetailPages :
    (n # m \/ Linked(w[n].at)) /\ d \in w[n].seen => parents[d] # NoPage

WalkEnds(w, m) == m = MaxPages \/ w[m + 1].at = NoPage

Decided(w, m) ==
    /\ \A n \in 1..m : n # m => pages[w[n].at].stop = Listing!NoStop
    /\ Linked(w[m].at) => pages[w[m].at].stop # Listing!NoStop /\ WalkEnds(w, m)

Walked(w, m) == /\ PagePlaced(w, m) /\ Visited(w, m) /\ Claimed(w, m)
                /\ Looked /\ Found(w, m) /\ Decided(w, m)

ListingInv == Listing!TypeOK /\ \E m \in 1..limits.pages : Walked(Listing!Walk(site, limits), m)

LEMMA ListingInitial == Listing!Init => ListingInv
<1> SUFFICES ASSUME Listing!Init PROVE ListingInv
  OBVIOUS
<1>1. EntryPage \in ListPages /\ NoPage \notin ListPages /\ MaxPages \in Nat \ {0}
        /\ MaxEmptyPages \in Nat \ {0} /\ DeathCap \in Nat
  BY ListingAssumed DEF Listing!ListingAssumption
<1>2. PICK none \in Listing!Task : none = Listing!NoTask /\ none.status = "none"
        /\ none.index = 0 /\ none.streak = 0 /\ none.parent = NoPage
  <2>1. PICK stop \in Listing!StopReasons \union {Listing!NoStop} : stop = Listing!NoStop
    OBVIOUS
  <2>2. PICK zero \in Nat : zero = 0
    OBVIOUS
  <2>3. Listing!NoTask = [status |-> "none", index |-> zero, streak |-> zero, parent |-> NoPage, stop |-> stop]
    BY <2>1, <2>2 DEF Listing!NoTask
  <2>4. Listing!NoTask \in Listing!Task
    BY <2>3 DEF Listing!Task
  <2> QED
    BY <2>2, <2>3, <2>4
<1>3. PICK first \in Listing!Task : first = [none EXCEPT !.status = "queued", !.index = 1]
                          /\ first.status = "queued" /\ first.index = 1 /\ first.streak = 0 /\ first.parent = NoPage
  <2>1. PICK one \in Nat : one = 1
    OBVIOUS
  <2>2. PICK t : t = [none EXCEPT !.status = "queued", !.index = one]
    OBVIOUS
  <2>3. t \in Listing!Task
    BY <2>2 DEF Listing!Task
  <2>4. t.status = "queued" /\ t.index = one /\ t.streak = none.streak /\ t.parent = none.parent
    BY <2>2 DEF Listing!Task
  <2> QED
    BY <1>2, <2>1, <2>2, <2>3, <2>4
<1>4. /\ pages[EntryPage] = first /\ \A l \in ListPages : l # EntryPage => pages[l] = none
      /\ pages = [l \in ListPages |-> IF l = EntryPage THEN first ELSE none]
  BY <1>1, <1>2, <1>3 DEF Listing!Init
<1>5. Listing!TypeOK
  <2>1. limits.pages \in Nat \ {0}
    BY <1>1 DEF Listing!Init
  <2> QED
    BY <1>1, <1>2, <1>3, <1>4, <2>1 DEF Listing!Init, Listing!TypeOK
<1>6. PICK w : w = Listing!Walk(site, limits)
  OBVIOUS
<1>7. w[1].at = EntryPage /\ w[1].met = {EntryPage} /\ limits.pages \in Nat \ {0}
  BY <1>1, <1>5, <1>6, WalkExists DEF WalkIs, Listing!TypeOK
<1>8. Walked(w, 1)
  <2>1. PagePlaced(w, 1) /\ Visited(w, 1)
    BY <1>1, <1>2, <1>3, <1>4, <1>7 DEF PagePlaced, Visited
  <2>2. Claimed(w, 1) /\ Looked
    <3>1. /\ \A d \in DetailPages : parents[d] = NoPage
          /\ \A l \in ListPages : todo[l] = {} /\ pages[l].status # "running"
      BY <1>2, <1>3, <1>4 DEF Listing!Init
    <3> QED
      BY <3>1 DEF Claimed, Looked
  <2>3. Found(w, 1) /\ Decided(w, 1)
    <3>1. ~Linked(w[1].at)
      BY <1>3, <1>4, <1>7 DEF Linked
    <3>2. \A n \in 1..1 : n = 1
      OBVIOUS
    <3> QED
      BY <3>1, <3>2 DEF Found, Decided
  <2> QED
    BY <2>1, <2>2, <2>3 DEF Walked
<1> QED
  BY <1>5, <1>6, <1>7, <1>8 DEF ListingInv

-----------------------------------------------------------------------------
LEMMA PlaceIsOne ==
    ASSUME NEW w, NEW m, PagePlaced(w, m), NEW n \in 1..m, NEW k \in 1..m, w[n].at = w[k].at PROVE n = k
BY DEF PagePlaced

(* The empty pages in a row that a task counts are those of the walk.      *)
LEMMA StreakOfWalk ==
    ASSUME Listing!TypeOK, NEW w, WalkIs(w), NEW m \in 1..limits.pages, Walked(w, m),
           NEW n \in 1..m, NEW l, l = w[n].at,
           pages[l].status = "running", todo[l] = {}
    PROVE  Listing!EmptyStreak(l) = w[n].streak
<1>1. limits.pages \in 1..MaxPages /\ MaxPages \in Nat /\ n \in 1..MaxPages
        /\ EntryPage \in ListPages /\ NoPage \notin ListPages
  BY ListingAssumed DEF Listing!ListingAssumption, Listing!TypeOK
<1>2. l \in ListPages /\ pages[l].index = n /\ pages[l].streak = (IF n = 1 THEN 0 ELSE w[n - 1].streak)
  BY DEF Walked, PagePlaced
<1>3. \A d \in site[l].details : parents[d] # NoPage
  BY <1>2 DEF Walked, Looked
<1>4. site[l].details \subseteq DetailPages
  BY <1>2 DEF Listing!TypeOK
<1>5. ASSUME NEW d \in DetailPages, parents[d] = l PROVE d \in w[n].seen /\ (n # 1 => d \notin w[n - 1].seen)
  <2>1. PICK k \in 1..m : parents[d] = w[k].at /\ d \in w[k].seen /\ (k # 1 => d \notin w[k - 1].seen)
    BY <1>1, <1>2, <1>5 DEF Walked, Claimed
  <2>2. k = n
    BY <1>5, <2>1, PlaceIsOne DEF Walked
  <2> QED
    BY <2>1, <2>2
<1>6. ASSUME NEW d \in site[l].details, d \in w[n].seen, n # 1 => d \notin w[n - 1].seen PROVE parents[d] = l
  <2>1. PICK k \in 1..m : parents[d] = w[k].at /\ d \in w[k].seen /\ (k # 1 => d \notin w[k - 1].seen)
    BY <1>3, <1>4 DEF Walked, Claimed
  <2>2. k \in 1..MaxPages
    BY <1>1
  <2>3. ~(k < n)
    <3> SUFFICES ASSUME k < n PROVE FALSE
      OBVIOUS
    <3>1. n # 1 /\ n - 1 \in k..MaxPages
      BY <1>1, <2>2
    <3> QED
      BY <1>6, <2>1, <2>2, <3>1, WalkKeeps
  <2>4. ~(n < k)
    <3> SUFFICES ASSUME n < k PROVE FALSE
      OBVIOUS
    <3>1. k # 1 /\ k - 1 \in n..MaxPages
      BY <1>1, <2>2
    <3> QED
      BY <1>1, <1>6, <2>1, <3>1, WalkKeeps
  <2>5. k = n
    BY <1>1, <2>2, <2>3, <2>4
  <2> QED
    BY <2>1, <2>5
<1>7. CASE n = 1
  <2>1. l = EntryPage /\ w[1].seen = site[EntryPage].details /\ w[1].streak = IF site[EntryPage].details = {}
          THEN 1 ELSE 0
    BY <1>7 DEF WalkIs
  <2>2. Listing!NewDetails(l) = site[l].details
    <3>1. \A d \in site[l].details : parents[d] = l
      BY <1>6, <1>7, <2>1
    <3> QED
      BY <3>1 DEF Listing!NewDetails
  <2> QED
    BY <1>7, <2>1, <2>2 DEF Listing!EmptyStreak
<1>8. CASE n # 1
  <2>1. n \in 2..MaxPages /\ n - 1 \in 1..MaxPages /\ n - 1 \in 1..m
    BY <1>1, <1>8
  <2>2. w[n] = Listing!WalkOn(site, limits, w[n - 1], n) /\ StateTyped(w[n - 1])
    BY <2>1, WalkTyped DEF WalkIs
  <2>3. /\ w[n].seen = w[n - 1].seen \union site[l].details
        /\ w[n].streak = IF site[l].details \subseteq w[n - 1].seen THEN w[n - 1].streak + 1 ELSE 0
    <3>1. PICK y : y = w[n]
      OBVIOUS
    <3>2. y = Listing!WalkOn(site, limits, w[n - 1], n) /\ y.at = l /\ l # NoPage
      BY <1>1, <1>2, <2>2, <3>1
    <3>3. /\ y.seen = w[n - 1].seen \union site[y.at].details
          /\ y.streak = IF site[y.at].details \subseteq w[n - 1].seen THEN w[n - 1].streak + 1 ELSE 0
      BY <2>1, <2>2, <3>2, WalksOn
    <3> QED
      BY <3>1, <3>2, <3>3
  <2>4. Listing!NewDetails(l) = {} <=> site[l].details \subseteq w[n - 1].seen
    <3>1. ASSUME NEW d \in site[l].details PROVE d \notin w[n - 1].seen <=> parents[d] = l
      BY <1>4, <1>5, <1>6, <1>8, <2>3
    <3> QED
      BY <3>1 DEF Listing!NewDetails
  <2>5. l # EntryPage
    <3>1. w[1].at = EntryPage /\ 1 \in 1..m
      BY <1>1 DEF WalkIs
    <3> QED
      BY <1>8, <3>1, PlaceIsOne DEF Walked
  <2> QED
    BY <1>2, <1>8, <2>3, <2>4, <2>5 DEF Listing!EmptyStreak
<1> QED
  BY <1>7, <1>8

LEMMA StopsDiffer == Listing!NoStop \notin Listing!StopReasons
BY DEF Listing!NoStop, Listing!StopReasons

(* A page before the last links to its child again; the last one stops     *)
(* where the walk ends, or creates the page that the walk goes to.         *)
LEMMA LinkFollowsWalk ==
    ASSUME Listing!TypeOK, NEW w, WalkIs(w), NEW m \in 1..limits.pages, Walked(w, m),
           NEW n \in 1..m, NEW l, l = w[n].at,
           pages[l].status = "running", todo[l] = {}, NEW next, next = site[l].next
    PROVE  /\ n # m => Listing!ListingStop(l) = Listing!NoStop /\ next \in ListPages /\ pages[next].status # "none"
           /\ n = m => \/ Listing!ListingStop(l) # Listing!NoStop /\ WalkEnds(w, m)
                       \/ /\ Listing!ListingStop(l) = Listing!NoStop /\ next \in ListPages
                               /\ pages[next].status = "none"
                          /\ m # limits.pages /\ w[m + 1].at = next
<1>1. limits.pages \in 1..MaxPages /\ MaxPages \in Nat /\ n \in 1..MaxPages
        /\ EntryPage \in ListPages /\ NoPage \notin ListPages
      /\ limits.empty \in Nat
  BY ListingAssumed DEF Listing!ListingAssumption, Listing!TypeOK
<1>2. l \in ListPages /\ pages[l].index = n
  BY DEF Walked, PagePlaced
<1>3. next \in ListPages \union {NoPage}
  BY <1>2 DEF Listing!TypeOK
<1>4. Listing!EmptyStreak(l) = w[n].streak
  BY StreakOfWalk
<1>5. w[1].at = EntryPage /\ 1 \in 1..m
  BY <1>1 DEF WalkIs
<1>6. StateTyped(w[n])
  BY <1>1, WalkTyped
<1>7. PICK streak \in Nat : w[n].streak = streak
  BY <1>6 DEF StateTyped
<1>8. CASE n # m
  <2>1. n + 1 \in 2..MaxPages /\ (n + 1) - 1 = n /\ n + 1 \in 1..m /\ n < limits.pages
    BY <1>1, <1>8
  <2>2. w[n + 1].at \in ListPages /\ pages[w[n + 1].at].status # "none" /\ pages[w[n + 1].at].parent = l
    BY <2>1 DEF Walked, PagePlaced
  <2>3. w[n + 1] = Listing!WalkOn(site, limits, w[n], n + 1)
    BY <2>1 DEF WalkIs
  <2>4. w[n].streak < limits.empty /\ w[n + 1].at = next
    BY <1>1, <1>6, <2>1, <2>2, <2>3, WalksOn
  <2>5. next # EntryPage /\ next # l
    BY <1>5, <2>1, <2>4, PlaceIsOne DEF Walked
  <2>6. ~Listing!Repeated(l, next) /\ next # NoPage
    BY <1>1, <2>2, <2>4, <2>5 DEF Listing!Repeated
  <2>7. Listing!ListingStop(l) = Listing!NoStop
    BY <1>1, <1>2, <1>4, <1>7, <2>1, <2>4, <2>6, StopsDiffer DEF Listing!ListingStop, Listing!StopReasons
  <2> QED
    BY <1>8, <2>2, <2>4, <2>7
<1>9. CASE n = m
  <2>1. next # NoPage => (Listing!Repeated(l, next) <=> pages[next].status # "none")
    <3> SUFFICES ASSUME next # NoPage PROVE Listing!Repeated(l, next) <=> pages[next].status # "none"
      OBVIOUS
    <3>1. ASSUME pages[next].status # "none" PROVE Listing!Repeated(l, next)
      <4>1. PICK k \in 1..m : w[k].at = next
        BY <1>3, <3>1 DEF Walked, Visited
      <4>2. CASE k = 1
        BY <1>5, <4>1, <4>2 DEF Listing!Repeated
      <4>3. CASE k # 1
        <5>1. pages[next].parent = w[k - 1].at /\ k - 1 \in 1..m /\ k - 1 # m
          BY <1>1, <4>1, <4>3 DEF Walked, PagePlaced
        <5>2. pages[next].parent # l
          BY <1>9, <5>1, PlaceIsOne DEF Walked
        <5> QED
          BY <3>1, <5>2 DEF Listing!Repeated
      <4> QED
        BY <4>2, <4>3
    <3>2. ASSUME Listing!Repeated(l, next) PROVE pages[next].status # "none"
      BY <1>5, <3>2 DEF Listing!Repeated, Walked, PagePlaced
    <3> QED
      BY <3>1, <3>2
  <2>2. next # NoPage => (pages[next].status # "none" <=> next \in w[m].met)
    BY <1>3 DEF Walked, Visited
  <2>3. CASE m = MaxPages
    <3>1. Listing!ListingStop(l) # Listing!NoStop
      BY <1>1, <1>2, <1>9, <2>3, StopsDiffer DEF Listing!ListingStop, Listing!StopReasons
    <3> QED
      BY <1>9, <2>3, <3>1 DEF WalkEnds
  <2>4. CASE m # MaxPages
    <3>1. m + 1 \in 2..MaxPages /\ (m + 1) - 1 = m
      BY <1>1, <2>4
    <3>2. w[m + 1] = Listing!WalkOn(site, limits, w[m], m + 1)
      BY <3>1 DEF WalkIs
    <3>3. CASE Listing!ListingStop(l) # Listing!NoStop
      <4>1. \/ next = NoPage \/ next \in w[m].met \/ m >= limits.pages \/ w[m].streak >= limits.empty
        BY <1>1, <1>2, <1>4, <1>9, <2>1, <2>2, <3>3, StopsDiffer DEF Listing!ListingStop, Listing!StopReasons
      <4>2. w[m + 1].at = NoPage
        <5>1. w[m].streak = streak
          BY <1>7, <1>9
        <5>2. w[m + 1].at # NoPage =>
                /\ m + 1 <= limits.pages /\ w[m].streak < limits.empty
                /\ w[m + 1].at = site[w[m].at].next /\ w[m + 1].at \notin w[m].met
          BY <1>6, <1>9, <3>1, <3>2, WalksOn
        <5> QED
          BY <1>1, <1>7, <1>9, <4>1, <5>1, <5>2
      <4> QED
        BY <1>9, <3>3, <4>2 DEF WalkEnds
    <3>4. CASE Listing!ListingStop(l) = Listing!NoStop
      <4>1. next # NoPage /\ ~Listing!Repeated(l, next) /\ ~(m >= limits.pages) /\ ~(w[m].streak >= limits.empty)
        BY <1>2, <1>4, <1>9, <3>4, StopsDiffer DEF Listing!ListingStop, Listing!StopReasons
      <4>2. w[m].at # NoPage /\ site[w[m].at].next = next /\ next \notin w[m].met \union {NoPage}
        BY <1>1, <1>2, <1>9, <2>1, <2>2, <4>1
      <4>3. m + 1 <= limits.pages /\ w[m].streak < limits.empty
        BY <1>1, <1>7, <1>9, <4>1
      <4>4. w[m + 1].at = next
        BY <1>6, <1>9, <3>1, <3>2, <4>2, <4>3, WalksOn
      <4> QED
        <5>1. next \in ListPages /\ pages[next].status = "none"
          BY <1>3, <2>1, <4>1
        <5>2. m # limits.pages
          BY <1>1, <4>1
        <5> QED
          BY <1>9, <3>4, <4>4, <5>1, <5>2
    <3> QED
      BY <3>3, <3>4
  <2> QED
    BY <2>3, <2>4
<1> QED
  BY <1>8, <1>9

-----------------------------------------------------------------------------
(* A task that is claimed, dies, completes or links to no new page.        *)
LEMMA Bounds == ASSUME Listing!TypeOK, NEW m \in 1..limits.pages PROVE m \in 1..m /\ m \in Nat
BY ListingAssumed DEF Listing!ListingAssumption, Listing!TypeOK

Restamped(l, status, stop) ==
    /\ pages'[l].status = status /\ pages'[l].stop = stop /\ pages'[l].index = pages[l].index
    /\ pages'[l].parent = pages[l].parent /\ pages'[l].streak = pages[l].streak
    /\ \A k \in ListPages : k # l => pages'[k] = pages[k]

LEMMA RestampKeeps ==
    ASSUME Listing!TypeOK, NEW w, NEW m \in 1..limits.pages, Walked(w, m), NEW l \in ListPages,
           pages[l].status # "none",
           NEW status, NEW stop, status # "none",
           Restamped(l, status, stop),
           UNCHANGED <<site, limits, parents>>,
           \A k \in ListPages : todo'[k] \subseteq site[k].details /\ (k # l => todo'[k] = todo[k]),
           status = "running" => \A d \in site[l].details \ todo'[l] : parents[d] # NoPage,
           status \in {"linked", "succeeded"} =>
               /\ l = w[m].at => stop # Listing!NoStop /\ WalkEnds(w, m)
               /\ \A n \in 1..m, d \in DetailPages : l = w[n].at /\ d \in w[n].seen => parents[d] # NoPage,
           l # w[m].at => stop = Listing!NoStop
    PROVE  Walked(w, m)'
<1>2. PICK r : r = pages'[l]
  OBVIOUS
<1>3. /\ r.status = status /\ r.stop = stop /\ r.index = pages[l].index /\ r.parent = pages[l].parent
      /\ r.streak = pages[l].streak
      /\ pages'[l] = r /\ \A k \in ListPages : k # l => pages'[k] = pages[k]
  BY <1>2 DEF Restamped
<1>4. m \in 1..m /\ m \in Nat
  BY Bounds
<1>5. \A k \in ListPages : /\ pages'[k].index = pages[k].index /\ pages'[k].parent = pages[k].parent
                       /\ pages'[k].streak = pages[k].streak
                       /\ pages'[k].status # "none" <=> pages[k].status # "none"
  BY <1>3
<1>6. PagePlaced(w, m)'
  <2> SUFFICES ASSUME NEW n \in 1..m
               PROVE  /\ w[n].at \in ListPages /\ pages'[w[n].at].status # "none" /\ pages'[w[n].at].index = n
                      /\ pages'[w[n].at].parent = (IF n = 1 THEN NoPage ELSE w[n - 1].at)
                      /\ pages'[w[n].at].streak = (IF n = 1 THEN 0 ELSE w[n - 1].streak)
    BY DEF PagePlaced
  <2>1. PICK parent, streak : parent = (IF n = 1 THEN NoPage ELSE w[n - 1].at)
                              /\ streak = (IF n = 1 THEN 0 ELSE w[n - 1].streak)
    OBVIOUS
  <2>2. /\ w[n].at \in ListPages /\ pages[w[n].at].status # "none" /\ pages[w[n].at].index = n
        /\ pages[w[n].at].parent = parent /\ pages[w[n].at].streak = streak
    BY <2>1 DEF Walked, PagePlaced
  <2> QED
    BY <1>5, <2>1, <2>2
<1>7. Visited(w, m)'
  <2> SUFFICES ASSUME NEW k \in ListPages
               PROVE  /\ pages'[k].status # "none" <=> k \in w[m].met
                      /\ pages'[k].status # "none" => \E n \in 1..m : w[n].at = k
    BY DEF Visited
  <2>1. /\ pages[k].status # "none" <=> k \in w[m].met
        /\ pages[k].status # "none" => \E n \in 1..m : w[n].at = k
    BY DEF Walked, Visited
  <2>2. pages'[k].status # "none" <=> pages[k].status # "none"
    <3>1. CASE k = l
      BY <1>3, <3>1
    <3>2. CASE k # l
      <4>1. pages'[k] = pages[k]
        BY <1>3, <3>2
      <4> QED
        BY ONLY <4>1
    <3> QED
      BY <3>1, <3>2
  <2> QED
    BY ONLY <2>1, <2>2
<1>8. Claimed(w, m)'
  BY DEF Walked, Claimed
<1>9. Looked'
  BY <1>3 DEF Walked, Looked
<1>10. Found(w, m)'
  <2> SUFFICES ASSUME NEW n \in 1..m, NEW d \in DetailPages, n # m \/ Linked(w[n].at)', d \in w[n].seen
               PROVE  parents[d] # NoPage
    BY DEF Found
  <2>1. CASE n = m /\ w[m].at = l
    BY <1>3, <2>1 DEF Linked
  <2>2. CASE n # m \/ w[m].at # l
    <3>1. w[n].at \in ListPages
      BY DEF Walked, PagePlaced
    <3>2. n # m \/ Linked(w[n].at)
      BY <1>3, <2>2, <3>1 DEF Linked
    <3> QED
      BY <3>2 DEF Walked, Found
  <2> QED
    BY <2>1, <2>2
<1>11. Decided(w, m)'
  <2>1. \A n \in 1..m : n # m => pages'[w[n].at].stop = Listing!NoStop
    <3> SUFFICES ASSUME NEW n \in 1..m, n # m PROVE pages'[w[n].at].stop = Listing!NoStop
      OBVIOUS
    <3>1. w[n].at # w[m].at /\ w[n].at \in ListPages
      BY <1>4, PlaceIsOne DEF Walked, PagePlaced
    <3>2. pages[w[n].at].stop = Listing!NoStop
      BY DEF Walked, Decided
    <3> QED
      BY <1>3, <3>1, <3>2
  <2>2. w[m].at \in ListPages
    BY <1>4 DEF Walked, PagePlaced
  <2>3. Linked(w[m].at)' => pages'[w[m].at].stop # Listing!NoStop /\ WalkEnds(w, m)
    BY <1>3, <2>2 DEF Walked, Decided, Linked
  <2> QED
    BY <2>1, <2>3 DEF Decided, WalkEnds
<1> QED
  BY <1>6, <1>7, <1>8, <1>9, <1>10, <1>11 DEF Walked

LEMMA SeenHasTask ==
    ASSUME Listing!TypeOK, NEW w, WalkIs(w), NEW m \in 1..limits.pages, Walked(w, m),
           NEW n \in 1..m, NEW l, l = w[n].at,
           pages[l].status = "running", todo[l] = {}
    PROVE  \A d \in DetailPages : d \in w[n].seen => parents[d] # NoPage
<1> SUFFICES ASSUME NEW d \in DetailPages, d \in w[n].seen PROVE parents[d] # NoPage
  OBVIOUS
<1>1. limits.pages \in 1..MaxPages /\ MaxPages \in Nat /\ n \in 1..MaxPages /\ NoPage \notin ListPages
  BY ListingAssumed DEF Listing!ListingAssumption, Listing!TypeOK
<1>2. l \in ListPages
  BY DEF Walked, PagePlaced
<1>3. d \in site[l].details => parents[d] # NoPage
  BY <1>2 DEF Walked, Looked
<1>4. CASE n = 1
  <2>1. w[n].seen = site[l].details
    BY <1>4 DEF WalkIs
  <2> QED
    BY <1>3, <2>1
<1>5. CASE n # 1
  <2>1. n \in 2..MaxPages /\ n - 1 \in 1..MaxPages /\ n - 1 \in 1..m /\ n - 1 # m
    BY <1>1, <1>5
  <2>2. w[n] = Listing!WalkOn(site, limits, w[n - 1], n) /\ StateTyped(w[n - 1])
    BY <2>1, WalkTyped DEF WalkIs
  <2>3. PICK x : x = w[n]
    OBVIOUS
  <2>6. x = Listing!WalkOn(site, limits, w[n - 1], n) /\ x.at = l /\ l # NoPage
    BY <1>1, <1>2, <2>2, <2>3
  <2>4. x.seen = w[n - 1].seen \union site[l].details
    BY <2>1, <2>2, <2>6, WalksOn
  <2>5. d \in w[n - 1].seen => parents[d] # NoPage
    BY <2>1 DEF Walked, Found
  <2> QED
    BY <1>3, <2>3, <2>4, <2>5
<1> QED
  BY <1>4, <1>5

Continued(l, next) ==
    /\ pages'[l].status = "linked" /\ pages'[l].stop = Listing!NoStop /\ pages'[l].index = pages[l].index
    /\ pages'[l].parent = pages[l].parent /\ pages'[l].streak = pages[l].streak
    /\ pages'[next].status = "queued" /\ pages'[next].index = pages[l].index + 1
    /\ pages'[next].parent = l /\ pages'[next].streak = Listing!EmptyStreak(l)
    /\ \A k \in ListPages : k # l /\ k # next => pages'[k] = pages[k]

(* The page that the last one links to is the walk's next page.            *)
LEMMA ChildKeeps ==
    ASSUME Listing!TypeOK, NEW w, WalkIs(w), NEW m \in 1..limits.pages, Walked(w, m),
           NEW l, l = w[m].at, m # limits.pages,
           pages[l].status = "running", todo[l] = {},
           NEW next \in ListPages, pages[next].status = "none", w[m + 1].at = next,
           Continued(l, next), UNCHANGED <<site, limits, parents, todo>>
    PROVE  m + 1 \in 1..limits.pages /\ Walked(w, m + 1)'
<1>1. limits.pages \in 1..MaxPages /\ MaxPages \in Nat /\ m \in Nat /\ m \in 1..MaxPages /\ m + 1 \in 2..MaxPages
      /\ (m + 1) - 1 = m /\ m + 1 # 1 /\ m + 1 \in 1..limits.pages /\ NoPage \notin ListPages /\ m \in 1..m
  BY ListingAssumed DEF Listing!ListingAssumption, Listing!TypeOK
<1>2. l \in ListPages /\ pages[l].index = m /\ l # next
  BY <1>1 DEF Walked, PagePlaced
<1>3. /\ pages'[l].status = "linked" /\ pages'[l].stop = Listing!NoStop /\ pages'[l].index = m
      /\ pages'[l].parent = pages[l].parent /\ pages'[l].streak = pages[l].streak
      /\ pages'[next].status = "queued" /\ pages'[next].index = m + 1
      /\ pages'[next].parent = l /\ pages'[next].streak = Listing!EmptyStreak(l)
      /\ \A k \in ListPages : k # l /\ k # next => pages'[k] = pages[k]
  BY <1>2 DEF Continued
<1>4. \A n \in 1..m + 1 : n \in 1..m \/ n = m + 1
  BY <1>1
<1>5. Listing!EmptyStreak(l) = w[m].streak
  BY <1>1, StreakOfWalk
<1>6. StateTyped(w[m]) /\ w[m + 1] = Listing!WalkOn(site, limits, w[m], m + 1)
  BY <1>1, WalkTyped DEF WalkIs
<1>7. PICK y : y = w[m + 1]
  OBVIOUS
<1>8. /\ y.met = w[m].met \union {next} /\ y.seen = w[m].seen \union site[next].details /\ next \notin w[m].met
      /\ w[m].seen \subseteq y.seen
  BY <1>1, <1>6, <1>7, WalksOn
<1>9. \A n \in 1..m : w[n].at \in ListPages /\ w[n].at # next
  BY DEF Walked, PagePlaced
<1>10. PagePlaced(w, m + 1)'
  <2> SUFFICES ASSUME NEW n \in 1..m + 1
               PROVE  /\ w[n].at \in ListPages /\ pages'[w[n].at].status # "none" /\ pages'[w[n].at].index = n
                      /\ pages'[w[n].at].parent = (IF n = 1 THEN NoPage ELSE w[n - 1].at)
                      /\ pages'[w[n].at].streak = (IF n = 1 THEN 0 ELSE w[n - 1].streak)
    BY DEF PagePlaced
  <2>1. CASE n = m + 1
    BY <1>1, <1>3, <1>5, <2>1
  <2>2. CASE n \in 1..m
    <3>1. PICK parent, streak : parent = (IF n = 1 THEN NoPage ELSE w[n - 1].at)
                                /\ streak = (IF n = 1 THEN 0 ELSE w[n - 1].streak)
      OBVIOUS
    <3>2. /\ w[n].at \in ListPages /\ pages[w[n].at].status # "none" /\ pages[w[n].at].index = n
          /\ pages[w[n].at].parent = parent /\ pages[w[n].at].streak = streak
      BY <2>2, <3>1 DEF Walked, PagePlaced
    <3>3. /\ pages'[w[n].at].status # "none" /\ pages'[w[n].at].index = n
          /\ pages'[w[n].at].parent = parent /\ pages'[w[n].at].streak = streak
      <4>1. CASE w[n].at = l
        BY <1>2, <1>3, <3>2, <4>1
      <4>2. CASE w[n].at # l
        BY <1>3, <1>9, <2>2, <3>2, <4>2
      <4> QED
        BY <4>1, <4>2
    <3> QED
      BY <3>1, <3>2, <3>3
  <2> QED
    BY <1>4, <2>1, <2>2
<1>11. Visited(w, m + 1)'
  <2> SUFFICES ASSUME NEW k \in ListPages
               PROVE  /\ pages'[k].status # "none" <=> k \in w[m + 1].met
                      /\ pages'[k].status # "none" => \E n \in 1..m + 1 : w[n].at = k
    BY DEF Visited
  <2>1. m + 1 \in 1..m + 1 /\ 1..m \subseteq 1..m + 1
    BY <1>1
  <2>2. pages[k].status # "none" <=> k \in w[m].met
    BY DEF Walked, Visited
  <2>3. pages'[k].status # "none" <=> pages[k].status # "none" \/ k = next
    BY <1>2, <1>3
  <2>4. pages[k].status # "none" => \E n \in 1..m : w[n].at = k
    BY DEF Walked, Visited
  <2> QED
    BY <1>7, <1>8, <2>1, <2>2, <2>3, <2>4
<1>12. Claimed(w, m + 1)'
  <2>1. 1..m \subseteq 1..m + 1
    BY <1>1
  <2> QED
    BY <2>1 DEF Walked, Claimed
<1>13. Looked'
  BY <1>2, <1>3 DEF Walked, Looked
<1>14. \A d \in DetailPages : d \in w[m].seen => parents[d] # NoPage
  BY <1>1, SeenHasTask
<1>15. Found(w, m + 1)'
  <2> SUFFICES ASSUME NEW n \in 1..m + 1, NEW d \in DetailPages, n # m + 1 \/ Linked(w[n].at)', d \in w[n].seen
               PROVE  parents[d] # NoPage
    BY DEF Found
  <2>1. CASE n = m + 1
    BY <1>3, <2>1 DEF Linked
  <2>2. CASE n = m
    BY <1>14, <2>2
  <2>3. CASE n # m + 1 /\ n # m
    <3>1. n \in 1..m
      BY <1>4, <2>3
    <3> QED
      BY <2>3, <3>1 DEF Walked, Found
  <2> QED
    BY <2>1, <2>2, <2>3
<1>16. Decided(w, m + 1)'
  <2>1. \A n \in 1..m + 1 : n # m + 1 => pages'[w[n].at].stop = Listing!NoStop
    <3> SUFFICES ASSUME NEW n \in 1..m + 1, n # m + 1 PROVE pages'[w[n].at].stop = Listing!NoStop
      OBVIOUS
    <3>1. n \in 1..m
      BY <1>4
    <3>2. CASE n = m
      BY <1>3, <3>2
    <3>3. CASE n # m
      <4>1. w[n].at # l
        BY <1>1, <3>1, <3>3, PlaceIsOne DEF Walked
      <4>2. pages[w[n].at].stop = Listing!NoStop
        BY <3>1, <3>3 DEF Walked, Decided
      <4> QED
        BY <1>3, <1>9, <3>1, <4>1, <4>2
    <3> QED
      BY <3>2, <3>3
  <2>2. ~Linked(w[m + 1].at)'
    BY <1>3 DEF Linked
  <2> QED
    BY <2>1, <2>2 DEF Decided
<1> QED
  BY <1>1, <1>10, <1>11, <1>12, <1>13, <1>15, <1>16 DEF Walked

-----------------------------------------------------------------------------
(* A write of one task's row.                                              *)
LEMMA RowWritten ==
    ASSUME Listing!TypeOK, NEW l \in ListPages, NEW status \in {"none", "queued", "running", "linked", "succeeded"},
           NEW stop \in Listing!StopReasons \union {Listing!NoStop},
           pages' = [pages EXCEPT ![l].status = status, ![l].stop = stop]
    PROVE  /\ pages' \in [ListPages -> Listing!Task] /\ \A k \in ListPages : pages'[k].index = pages[k].index
           /\ Restamped(l, status, stop)
<1>1. PICK before \in Listing!Task : before = pages[l]
  BY DEF Listing!TypeOK
<1>2. PICK row : row = [before EXCEPT !.status = status, !.stop = stop]
  OBVIOUS
<1>3. /\ row \in Listing!Task /\ row.status = status /\ row.stop = stop /\ row.index = before.index
      /\ row.parent = before.parent /\ row.streak = before.streak
  BY <1>2 DEF Listing!Task
<1>4. pages' = [pages EXCEPT ![l] = row]
  BY <1>1, <1>2 DEF Listing!TypeOK
<1>5. pages' \in [ListPages -> Listing!Task] /\ pages'[l] = row /\ \A k \in ListPages : k # l => pages'[k] = pages[k]
  <2>1. PICK old \in [ListPages -> Listing!Task] : old = pages
    BY DEF Listing!TypeOK
  <2>2. pages' = [old EXCEPT ![l] = row]
    BY <1>4, <2>1
  <2>3. pages' \in [ListPages -> Listing!Task] /\ pages'[l] = row
    BY <1>3, <2>2
  <2>4. \A k \in ListPages : k # l => pages'[k] = pages[k]
    BY <2>1, <2>2
  <2> QED
    BY <2>3, <2>4
<1> QED
  BY <1>1, <1>3, <1>5 DEF Restamped

(* A task is claimed, dies or completes.                                   *)
LEMMA AttemptKeeps ==
    ASSUME Listing!TypeOK, NEW w, NEW m \in 1..limits.pages, Walked(w, m), NEW l \in ListPages, Listing!Attempt(l)
    PROVE  Listing!TypeOK' /\ Walked(w, m)'
<1>1. PICK stop : stop = pages[l].stop
  OBVIOUS
<1>2. /\ stop \in Listing!StopReasons \union {Listing!NoStop}
      /\ pages' = [pages EXCEPT ![l].status = "running", ![l].stop = stop]
  BY <1>1 DEF Listing!Attempt, Listing!TypeOK, Listing!Task
<1>3. pages' \in [ListPages -> Listing!Task] /\ (\A k \in ListPages : pages'[k].index = pages[k].index)
        /\ Restamped(l, "running", stop)
  BY ONLY Listing!TypeOK, <1>2, RowWritten
<1>4. /\ todo' = [todo EXCEPT ![l] = site[l].details] /\ UNCHANGED <<site, limits, parents, deaths>>
      /\ pages[l].status # "none"
  BY DEF Listing!Attempt
<1>5. Listing!TypeOK'
  BY <1>3, <1>4 DEF Listing!TypeOK
<1>6. todo'[l] = site[l].details /\ \A k \in ListPages :
        todo'[k] \subseteq site[k].details /\ (k # l => todo'[k] = todo[k])
  BY <1>4 DEF Listing!TypeOK, Walked, Looked
<1>7. l # w[m].at => stop = Listing!NoStop
  BY <1>1, <1>4 DEF Walked, Visited, Decided
<1>8. Walked(w, m)'
  BY <1>3, <1>4, <1>6, <1>7, RestampKeeps
<1> QED
  BY <1>5, <1>8

LEMMA CompleteKeeps ==
    ASSUME Listing!TypeOK, NEW w, NEW m \in 1..limits.pages, Walked(w, m), NEW l \in ListPages, Listing!Complete(l)
    PROVE  Listing!TypeOK' /\ Walked(w, m)'
<1>1. PICK stop : stop = pages[l].stop
  OBVIOUS
<1>2. /\ stop \in Listing!StopReasons \union {Listing!NoStop}
      /\ pages' = [pages EXCEPT ![l].status = "succeeded", ![l].stop = stop]
  BY <1>1 DEF Listing!Complete, Listing!TypeOK, Listing!Task
<1>3. pages' \in [ListPages -> Listing!Task] /\ (\A k \in ListPages : pages'[k].index = pages[k].index)
      /\ Restamped(l, "succeeded", stop)
  BY ONLY Listing!TypeOK, <1>2, RowWritten
<1>4. UNCHANGED <<site, limits, parents, todo, deaths>> /\ pages[l].status = "linked"
  BY DEF Listing!Complete
<1>5. Listing!TypeOK'
  BY <1>3, <1>4 DEF Listing!TypeOK
<1>6. \A k \in ListPages : todo'[k] \subseteq site[k].details /\ (k # l => todo'[k] = todo[k])
  BY <1>4 DEF Walked, Looked
<1>7. l # w[m].at => stop = Listing!NoStop
  BY <1>1, <1>4 DEF Walked, Visited, Decided
<1>8. l = w[m].at => stop # Listing!NoStop /\ WalkEnds(w, m)
  BY <1>1, <1>4 DEF Walked, Decided, Linked
<1>9. \A n \in 1..m, d \in DetailPages : l = w[n].at /\ d \in w[n].seen => parents[d] # NoPage
  BY <1>4 DEF Walked, Found, Linked
<1>10. Walked(w, m)'
  BY <1>3, <1>4, <1>6, <1>7, <1>8, <1>9, RestampKeeps
<1> QED
  BY <1>5, <1>10

LEMMA DieKeeps ==
    ASSUME Listing!TypeOK, NEW w, NEW m \in 1..limits.pages, Walked(w, m), NEW l \in ListPages, Listing!Die(l)
    PROVE  Listing!TypeOK' /\ Walked(w, m)'
<1>1. PICK stop \in Listing!StopReasons \union {Listing!NoStop} : stop = Listing!NoStop
  OBVIOUS
<1>2. pages' = [pages EXCEPT ![l].status = "queued", ![l].stop = stop]
  BY <1>1 DEF Listing!Die
<1>3. pages' \in [ListPages -> Listing!Task] /\ (\A k \in ListPages : pages'[k].index = pages[k].index)
        /\ Restamped(l, "queued", stop)
  BY ONLY Listing!TypeOK, <1>2, RowWritten
<1>4. /\ todo' = [todo EXCEPT ![l] = {}] /\ UNCHANGED <<site, limits, parents>> /\ deaths' = deaths + 1
      /\ deaths < DeathCap /\ pages[l].status # "none"
  BY DEF Listing!Die
<1>5. deaths' \in 0..DeathCap
  <2>1. DeathCap \in Nat
    BY ListingAssumed DEF Listing!ListingAssumption
  <2>2. deaths \in 0..DeathCap
    BY DEF Listing!TypeOK
  <2>3. deaths < DeathCap /\ deaths' = deaths + 1
    BY <1>4
  <2> QED
    <3>1. PICK k \in Nat : k = deaths /\ k < DeathCap /\ deaths' = k + 1
      BY ONLY <2>1, <2>2, <2>3
    <3>2. k + 1 \in 0..DeathCap
      BY ONLY <2>1, <3>1
    <3> QED
      BY ONLY <3>1, <3>2
<1>6. Listing!TypeOK'
  BY <1>3, <1>4, <1>5 DEF Listing!TypeOK
<1>7. \A k \in ListPages : todo'[k] \subseteq site[k].details /\ (k # l => todo'[k] = todo[k])
  BY <1>4 DEF Listing!TypeOK, Walked, Looked
<1>8. PICK status : status = "queued"
  OBVIOUS
<1>9. /\ Restamped(l, status, stop) /\ status # "none" /\ status # "running"
      /\ status \notin {"linked", "succeeded"} /\ (l # w[m].at => stop = Listing!NoStop)
  BY <1>1, <1>3, <1>8
<1>10. Walked(w, m)'
  BY <1>4, <1>7, <1>9, RestampKeeps
<1> QED
  BY <1>6, <1>10

(* The next detail link of a page.                                         *)
LEMMA DetailKeeps ==
    ASSUME Listing!TypeOK, NEW w, WalkIs(w), NEW m \in 1..limits.pages, Walked(w, m),
           NEW l \in ListPages, NEW d \in DetailPages,
           Listing!CreateDetail(l, d)
    PROVE  Listing!TypeOK' /\ Walked(w, m)'
<1>1. /\ pages[l].status = "running" /\ d \in todo[l] /\ UNCHANGED <<site, limits, pages, deaths>>
      /\ todo' = [todo EXCEPT ![l] = @ \ {d}]
      /\ parents' = IF parents[d] = NoPage THEN [parents EXCEPT ![d] = l] ELSE parents
  BY DEF Listing!CreateDetail
<1>2. /\ parents'[d] = (IF parents[d] = NoPage THEN l ELSE parents[d])
      /\ \A e \in DetailPages : e # d => parents'[e] = parents[e]
      /\ todo'[l] = todo[l] \ {d} /\ \A k \in ListPages : k # l => todo'[k] = todo[k]
  BY <1>1 DEF Listing!TypeOK
<1>3. NoPage \notin ListPages
  BY ListingAssumed DEF Listing!ListingAssumption
<1>4. \A e \in DetailPages : parents[e] # NoPage => parents'[e] = parents[e]
  BY <1>2
<1>5. Listing!TypeOK'
  BY <1>1 DEF Listing!TypeOK
<1>6. PagePlaced(w, m)' /\ Visited(w, m)' /\ Decided(w, m)'
  BY <1>1 DEF Walked, PagePlaced, Visited, Decided, Linked, WalkEnds
<1>7. Found(w, m)'
  BY <1>1, <1>2, <1>3 DEF Walked, Found, Linked
<1>8. Looked'
  BY <1>1, <1>2, <1>3 DEF Walked, Looked
<1>9. Claimed(w, m)'
  <2> SUFFICES ASSUME NEW e \in DetailPages, parents'[e] # NoPage
               PROVE  \E n \in 1..m : parents'[e] = w[n].at /\ e \in w[n].seen /\ (n # 1 => e \notin w[n - 1].seen)
    BY DEF Claimed
  <2>1. CASE parents[e] # NoPage
    BY <1>4, <2>1 DEF Walked, Claimed
  <2>2. CASE parents[e] = NoPage
    <3>1. e = d /\ parents'[e] = l
      BY <1>2, <2>2
    <3>2. PICK n \in 1..m : w[n].at = l
      BY <1>1 DEF Walked, Visited
    <3>3. d \in site[l].details
      BY <1>1 DEF Walked, Looked
    <3>4. limits.pages \in 1..MaxPages /\ MaxPages \in Nat /\ n \in 1..MaxPages
      BY ListingAssumed DEF Listing!ListingAssumption, Listing!TypeOK
    <3>5. d \in w[n].seen
      <4>1. CASE n = 1
        BY <3>2, <3>3, <4>1 DEF WalkIs
      <4>2. CASE n # 1
        <5>1. n \in 2..MaxPages /\ n - 1 \in 1..MaxPages
          BY <3>4, <4>2
        <5>2. w[n] = Listing!WalkOn(site, limits, w[n - 1], n) /\ StateTyped(w[n - 1])
          BY <5>1, WalkTyped DEF WalkIs
        <5>3. PICK y : y = w[n]
          OBVIOUS
        <5>4. y.at = l /\ l # NoPage
          BY <1>3, <3>2, <5>3
        <5>5. y.seen = w[n - 1].seen \union site[l].details
          BY <5>1, <5>2, <5>3, <5>4, WalksOn
        <5> QED
          BY <3>3, <5>3, <5>5
      <4> QED
        BY <4>1, <4>2
    <3>6. n # 1 => d \notin w[n - 1].seen
      <4> SUFFICES ASSUME n # 1, d \in w[n - 1].seen PROVE FALSE
        OBVIOUS
      <4>1. n - 1 \in 1..m /\ n - 1 # m
        BY <3>4
      <4> QED
        BY <2>2, <3>1, <4>1 DEF Walked, Found
    <3> QED
      BY <3>1, <3>2, <3>5, <3>6
  <2> QED
    BY <2>1, <2>2
<1> QED
  BY <1>5, <1>6, <1>7, <1>8, <1>9 DEF Walked

(* The link to the next page.                                              *)
LEMMA LinkKeeps ==
    ASSUME Listing!TypeOK, NEW w, WalkIs(w), NEW m \in 1..limits.pages, Walked(w, m),
           NEW l \in ListPages, Listing!Link(l)
    PROVE  Listing!TypeOK' /\ \E k \in 1..limits.pages : Walked(w, k)'
<1>1. PICK next, stop : next = site[l].next /\ stop = Listing!ListingStop(l)
  OBVIOUS
<1>2. pages[l].status = "running" /\ todo[l] = {} /\ UNCHANGED <<site, limits, parents, todo, deaths>>
  BY DEF Listing!Link
<1>3. PICK linked : linked = [pages EXCEPT ![l].status = "linked", ![l].stop = stop]
  OBVIOUS
<1>4. PICK child : child = [status |-> "queued", index |-> pages[l].index + 1,
                            streak |-> Listing!EmptyStreak(l), parent |-> l, stop |-> Listing!NoStop]
  OBVIOUS
<1>5. pages' = IF stop # Listing!NoStop \/ pages[next].status # "none" THEN linked ELSE [linked EXCEPT ![next] = child]
  BY <1>1, <1>3, <1>4 DEF Listing!Link
<1>6. stop \in Listing!StopReasons \union {Listing!NoStop}
  BY <1>1 DEF Listing!ListingStop, Listing!StopReasons
<1>7. PICK n \in 1..m : w[n].at = l
  BY <1>2 DEF Walked, Visited
<1>8. m \in 1..m /\ (l = w[m].at => n = m) /\ limits.pages \in Nat
  BY <1>7, Bounds, PlaceIsOne, ListingAssumed DEF Walked, Listing!TypeOK, Listing!ListingAssumption
<1>9. /\ n # m => stop = Listing!NoStop /\ next \in ListPages /\ pages[next].status # "none"
      /\ n = m => \/ stop # Listing!NoStop /\ WalkEnds(w, m)
                  \/ /\ stop = Listing!NoStop /\ next \in ListPages /\ pages[next].status = "none"
                     /\ m # limits.pages /\ w[m + 1].at = next
  <2>1. l = w[n].at /\ pages[l].status = "running" /\ todo[l] = {} /\ next = site[l].next
    BY <1>1, <1>2, <1>7
  <2>2. /\ n # m => Listing!ListingStop(l) = Listing!NoStop /\ next \in ListPages /\ pages[next].status # "none"
        /\ n = m => \/ Listing!ListingStop(l) # Listing!NoStop /\ WalkEnds(w, m)
                    \/ /\ Listing!ListingStop(l) = Listing!NoStop /\ next \in ListPages /\ pages[next].status = "none"
                       /\ m # limits.pages /\ w[m + 1].at = next
    <3>1. n # m => Listing!ListingStop(l) = Listing!NoStop /\ next \in ListPages /\ pages[next].status # "none"
      BY <2>1, LinkFollowsWalk
    <3>2. n = m => \/ Listing!ListingStop(l) # Listing!NoStop /\ WalkEnds(w, m)
                  \/ /\ Listing!ListingStop(l) = Listing!NoStop /\ next \in ListPages /\ pages[next].status = "none"
                     /\ m # limits.pages /\ w[m + 1].at = next
      BY <2>1, LinkFollowsWalk
    <3> QED
      BY <3>1, <3>2
  <2> QED
    BY <1>1, <2>2
<1>10. CASE stop # Listing!NoStop \/ pages[next].status # "none"
  <2>1. pages' = [pages EXCEPT ![l].status = "linked", ![l].stop = stop]
    BY <1>3, <1>5, <1>10
  <2>2. pages' \in [ListPages -> Listing!Task] /\ (\A k \in ListPages : pages'[k].index = pages[k].index)
          /\ Restamped(l, "linked", stop)
    BY ONLY Listing!TypeOK, <1>6, <2>1, RowWritten
  <2>3. Listing!TypeOK'
    BY <1>2, <2>2 DEF Listing!TypeOK
  <2>4. \A k \in ListPages : todo'[k] \subseteq site[k].details /\ (k # l => todo'[k] = todo[k])
    BY <1>2 DEF Walked, Looked
  <2>5. l # w[m].at => stop = Listing!NoStop
    BY <1>7, <1>9
  <2>6. l = w[m].at => stop # Listing!NoStop /\ WalkEnds(w, m)
    BY <1>8, <1>9, <1>10
  <2>7. \A k \in 1..m, d \in DetailPages : l = w[k].at /\ d \in w[k].seen => parents[d] # NoPage
    BY <1>2, SeenHasTask
  <2>8. Walked(w, m)'
    BY <1>2, <2>2, <2>4, <2>5, <2>6, <2>7, RestampKeeps
  <2> QED
    BY <2>3, <2>8
<1>11. CASE ~(stop # Listing!NoStop \/ pages[next].status # "none")
  <2>1. /\ n = m /\ stop = Listing!NoStop /\ next \in ListPages /\ pages[next].status = "none" /\ next # l
        /\ m # limits.pages /\ w[m + 1].at = next
    BY <1>2, <1>9, <1>11
  <2>2. m \in Nat /\ pages[l].index = m /\ m + 1 \in 1..limits.pages /\ m + 1 <= limits.pages
    <3>1. m \in Nat
      BY Bounds
    <3>2. pages[l].index = n
      BY <1>7 DEF Walked, PagePlaced
    <3>3. m \in 1..limits.pages /\ m # limits.pages /\ limits.pages \in Nat
      BY <1>8, <2>1
    <3>4. m + 1 \in 1..limits.pages /\ m + 1 <= limits.pages
      BY ONLY <3>1, <3>3
    <3> QED
      BY <2>1, <3>1, <3>2, <3>4
  <2>3. PICK row \in Listing!Task : row = [pages[l] EXCEPT !.status = "linked", !.stop = stop]
    <3>1. PICK before \in Listing!Task : before = pages[l]
      BY DEF Listing!TypeOK
    <3>2. PICK written : written = [before EXCEPT !.status = "linked", !.stop = stop]
      OBVIOUS
    <3>3. written \in Listing!Task
      BY <1>6, <3>2 DEF Listing!Task
    <3> QED
      BY <3>1, <3>2, <3>3
  <2>4. /\ row.status = "linked" /\ row.stop = stop /\ row.index = pages[l].index
        /\ row.parent = pages[l].parent /\ row.streak = pages[l].streak
    BY <2>3 DEF Listing!TypeOK, Listing!Task
  <2>5. linked = [pages EXCEPT ![l] = row]
    BY <1>3, <2>3 DEF Listing!TypeOK
  <2>6. pages' = [[pages EXCEPT ![l] = row] EXCEPT ![next] = child]
    BY <1>5, <1>11, <2>5
  <2>7. pages'[l] = row /\ pages'[next] = child /\ \A k \in ListPages : k # l /\ k # next => pages'[k] = pages[k]
    BY <2>1, <2>6 DEF Listing!TypeOK
  <2>8. /\ child.status = "queued" /\ child.index = m + 1 /\ child.parent = l /\ child.streak = Listing!EmptyStreak(l)
        /\ child \in Listing!Task
    <3>1. PICK streak \in Nat : streak = Listing!EmptyStreak(l)
      <4>1. pages[l].streak \in Nat
        BY DEF Listing!TypeOK, Listing!Task
      <4>2. Listing!EmptyStreak(l) = 0 \/ Listing!EmptyStreak(l) = 1 \/ Listing!EmptyStreak(l) = pages[l].streak + 1
        BY DEF Listing!EmptyStreak
      <4>3. Listing!EmptyStreak(l) \in Nat
        BY ONLY <4>1, <4>2
      <4> QED
        BY <4>3
    <3>2. PICK on \in Listing!StopReasons \union {Listing!NoStop} : on = Listing!NoStop
      OBVIOUS
    <3>5. m + 1 \in Nat
      <4>1. m \in Nat
        BY Bounds
      <4> QED
        BY ONLY <4>1
    <3>3. PICK index \in Nat : index = m + 1
      BY <3>5
    <3>4. child = [status |-> "queued", index |-> index, streak |-> streak, parent |-> l, stop |-> on]
      BY <1>4, <2>2, <3>1, <3>2, <3>3
    <3>6. child \in Listing!Task
      BY <3>4 DEF Listing!Task
    <3> QED
      BY <3>1, <3>3, <3>4, <3>6
  <2>9. Continued(l, next)
    BY <2>1, <2>2, <2>4, <2>7, <2>8 DEF Continued
  <2>10. Listing!TypeOK'
    <3>1. pages' \in [ListPages -> Listing!Task]
      BY <2>1, <2>3, <2>6, <2>8 DEF Listing!TypeOK
    <3>2. ASSUME NEW k \in ListPages PROVE pages'[k].index <= limits.pages
      <4>1. CASE k = next
        BY <2>2, <2>7, <2>8, <4>1
      <4>2. CASE k # next
        BY <2>4, <2>7, <4>2 DEF Listing!TypeOK
      <4> QED
        BY <4>1, <4>2
    <3> QED
      BY <1>2, <3>1, <3>2 DEF Listing!TypeOK
  <2>11. Walked(w, m + 1)'
    BY <1>2, <1>7, <2>1, <2>9, ChildKeeps
  <2> QED
    BY <2>2, <2>10, <2>11
<1> QED
  BY <1>10, <1>11

LEMMA ListingStepKeeps == ListingInv /\ [Listing!Next]_listingVars => ListingInv'
<1> SUFFICES ASSUME ListingInv, [Listing!Next]_listingVars PROVE ListingInv'
  OBVIOUS
<1>1. PICK w : w = Listing!Walk(site, limits)
  OBVIOUS
<1>2. PICK m \in 1..limits.pages : Walked(w, m)
  BY <1>1 DEF ListingInv
<1>3. Listing!TypeOK /\ WalkIs(w)
  BY <1>1, WalkExists DEF ListingInv
<1>4. site' = site /\ limits' = limits
  BY DEF Listing!Next, listingVars, Listing!Attempt, Listing!CreateDetail, Listing!Link, Listing!Complete, Listing!Die
<1>5. Listing!TypeOK' /\ \E k \in 1..limits.pages : Walked(w, k)'
  <2>1. CASE UNCHANGED listingVars
    <3>1. Listing!TypeOK'
      BY <1>3, <2>1 DEF listingVars, Listing!TypeOK
    <3>2. Walked(w, m)'
      BY <1>2, <2>1 DEF listingVars, Walked, PagePlaced, Visited, Claimed, Looked, Found, Decided, Linked, WalkEnds
    <3> QED
      BY <3>1, <3>2
  <2>2. ASSUME NEW l \in ListPages, Listing!Attempt(l) \/ Listing!Complete(l) \/ Listing!Die(l)
                 PROVE Listing!TypeOK' /\ Walked(w, m)'
    BY <1>2, <1>3, <2>2, AttemptKeeps, CompleteKeeps, DieKeeps
  <2>3. ASSUME NEW l \in ListPages, Listing!Link(l) PROVE Listing!TypeOK' /\ \E k \in 1..limits.pages : Walked(w, k)'
    BY <1>2, <1>3, <2>3, LinkKeeps
  <2>4. ASSUME NEW l \in ListPages, NEW d \in DetailPages, Listing!CreateDetail(l, d)
                 PROVE Listing!TypeOK' /\ Walked(w, m)'
    BY <1>2, <1>3, <2>4, DetailKeeps
  <2> QED
    BY <2>1, <2>2, <2>3, <2>4 DEF Listing!Next
<1>6. w = Listing!Walk(site, limits)'
  BY <1>1, <1>4
<1> QED
  BY <1>4, <1>5, <1>6 DEF ListingInv

-----------------------------------------------------------------------------
(* When every task has succeeded the last page has stopped, so that the    *)
(* walk goes no further than the tasks.                                    *)
AsWalked(w, walked) ==
    /\ {l \in ListPages : pages[l].status # "none"} = {w[n].at : n \in walked}
    /\ \A n \in walked : pages[w[n].at].index = n /\ (pages[w[n].at].stop = Listing!NoStop <=> n + 1 \in walked)
    /\ {d \in DetailPages : parents[d] # NoPage} = w[MaxPages].seen

LEMMA AllWalked ==
    ASSUME ListingInv, \A l \in ListPages : pages[l].status \in {"none", "succeeded"},
           NEW w, w = Listing!Walk(site, limits),
           NEW walked, walked = {n \in 1..MaxPages : w[n].at # NoPage}
    PROVE  AsWalked(w, walked)
<1>2. PICK m \in 1..limits.pages : Walked(w, m)
  BY DEF ListingInv
<1>3. Listing!TypeOK /\ WalkIs(w)
  BY WalkExists DEF ListingInv
<1>4. limits.pages \in 1..MaxPages /\ MaxPages \in Nat /\ m \in 1..MaxPages /\ NoPage \notin ListPages /\ m \in 1..m
  BY <1>3, ListingAssumed DEF Listing!ListingAssumption, Listing!TypeOK
<1>5. \A n \in 1..m : w[n].at \in ListPages /\ pages[w[n].at].status = "succeeded" /\ pages[w[n].at].index = n
  BY <1>2 DEF Walked, PagePlaced
<1>6. pages[w[m].at].stop # Listing!NoStop /\ WalkEnds(w, m)
  BY <1>2, <1>4, <1>5 DEF Walked, Decided, Linked
<1>7. ASSUME NEW n \in 1..MaxPages, n \notin 1..m PROVE w[n].at = NoPage /\ w[n].seen = w[m].seen
  <2>1. m + 1 \in 1..MaxPages /\ m + 1 \in 2..MaxPages /\ n \in m + 1..MaxPages /\ m # MaxPages /\ (m + 1) - 1 = m
    BY <1>4, <1>7
  <2>2. w[m + 1].at = NoPage
    BY <1>6, <2>1 DEF WalkEnds
  <2>3. w[m + 1] = Listing!WalkOn(site, limits, w[m], m + 1) /\ StateTyped(w[m])
    BY <1>3, <1>4, <2>1, WalkTyped DEF WalkIs
  <2>4. PICK y : y = w[m + 1]
    OBVIOUS
  <2>5. y.seen = w[m].seen
    BY <1>3, <2>1, <2>2, <2>3, <2>4, WalksOn
  <2> QED
    BY <1>3, <2>1, <2>2, <2>4, <2>5, WalkKeeps
<1>8. walked = 1..m
  BY <1>4, <1>5, <1>7
<1>9. {l \in ListPages : pages[l].status # "none"} = {w[n].at : n \in walked}
  <2>1. ASSUME NEW l \in ListPages, pages[l].status # "none" PROVE \E n \in walked : w[n].at = l
    BY <1>2, <1>8, <2>1 DEF Walked, Visited
  <2>2. ASSUME NEW n \in walked PROVE w[n].at \in ListPages /\ pages[w[n].at].status # "none"
    BY <1>5, <1>8
  <2> QED
    BY <2>1, <2>2
<1>10. ASSUME NEW n \in walked PROVE pages[w[n].at].index = n
                /\ (pages[w[n].at].stop = Listing!NoStop <=> n + 1 \in walked)
  <2>1. n \in 1..m /\ (n + 1 \in 1..m <=> n # m)
    BY <1>4, <1>8
  <2>2. n # m => pages[w[n].at].stop = Listing!NoStop
    BY <1>2, <2>1 DEF Walked, Decided
  <2> QED
    BY <1>5, <1>6, <1>8, <2>1, <2>2
<1>11. {d \in DetailPages : parents[d] # NoPage} = w[MaxPages].seen
  <2>1. w[MaxPages].seen = w[m].seen
    BY <1>4, <1>7
  <2>2. w[m].seen \subseteq DetailPages
    BY <1>3, <1>4, WalkTyped DEF StateTyped
  <2>3. ASSUME NEW d \in DetailPages, d \in w[m].seen PROVE parents[d] # NoPage
    BY <1>2, <1>4, <1>5, <2>3 DEF Walked, Found, Linked
  <2>4. ASSUME NEW d \in DetailPages, parents[d] # NoPage PROVE d \in w[m].seen
    <3>1. PICK n \in 1..m : d \in w[n].seen
      BY <1>2, <2>4 DEF Walked, Claimed
    <3>2. n \in 1..MaxPages /\ m \in n..MaxPages
      BY <1>4
    <3> QED
      BY <1>3, <3>1, <3>2, WalkKeeps
  <2> QED
    BY <2>1, <2>2, <2>3, <2>4
<1> QED
  BY <1>9, <1>10, <1>11 DEF AsWalked

LEMMA ListingInvSuffices == ListingInv => Listing!WalkedAsListed
<1> SUFFICES ASSUME ListingInv, \A l \in ListPages : pages[l].status \in {"none", "succeeded"}
                      PROVE Listing!WalkedAsListed
  BY DEF Listing!WalkedAsListed
<1>1. PICK w : w = Listing!Walk(site, limits)
  OBVIOUS
<1>2. PICK walked : walked = {n \in 1..MaxPages : w[n].at # NoPage}
  OBVIOUS
<1>3. AsWalked(w, walked)
  BY <1>1, <1>2, AllWalked
<1> QED
  BY <1>1, <1>2, <1>3 DEF Listing!WalkedAsListed, AsWalked

-----------------------------------------------------------------------------
LEMMA StoresStepListing == StoresNext => [Listing!Next]_listingVars
<1>1. AuthoringStep \/ DefinitionStep \/ BudgetStep \/ RecordStep => UNCHANGED listingVars
  BY DEF AuthoringStep, DefinitionStep, BudgetStep, RecordStep, In
<1>2. ResourceStep \/ MagnetStep \/ SubmitStep \/ PollStep => UNCHANGED listingVars
  BY DEF ResourceStep, MagnetStep, SubmitStep, PollStep, In
<1>3. ListingStep => Listing!Next
  BY DEF ListingStep, Listing!Next
<1> QED
  BY <1>1, <1>2, <1>3 DEF StoresNext

LEMMA StoresListingInv == StoresSpec => []ListingInv
<1>1. StoresInit => ListingInv
  BY ListingInitial DEF StoresInit
<1>2. ListingInv /\ [StoresNext]_storesVars => ListingInv'
  <2>1. [StoresNext]_storesVars => [Listing!Next]_listingVars
    BY StoresStepListing DEF storesVars
  <2> QED
    BY <2>1, ListingStepKeeps
<1> QED
  BY <1>1, <1>2, PTL DEF StoresSpec

(* Whatever the site shows and wherever tasks die: when every task of a    *)
(* listing has succeeded, the pages of the walk were visited, each in its  *)
(* place, and their details found (worker.go:405-461).                     *)
THEOREM StoresWalkedAsListed == StoresSpec => []WalkedAsListed
<1>1. ListingInv => WalkedAsListed
  BY ListingInvSuffices DEF WalkedAsListed
<1> QED
  BY <1>1, StoresListingInv, PTL

=============================================================================
