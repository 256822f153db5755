---------------------------- MODULE Definitions ----------------------------
(***************************************************************************)
(* A workflow definition from publication to what it makes of a page: the  *)
(* static checks (definition.go, capabilities.go, ValidateRecordSchema)    *)
(* and the nodes that run (extract.go, transform.go, record.Prepare). The  *)
(* two sides are written apart in the code; what they must agree on is the *)
(* fields a page yields. A value is abstracted to its kind: "array" is Go's*)
(* []any, "strings" its []string.                                          *)
(***************************************************************************)
EXTENDS Naturals, Sequences, SequencesExt

CONSTANTS Drafts,  \* the definitions that authors write
          Schemas  \* the dataset schemas, functions from field names

VARIABLES definition, \* the version's document
          schema,     \* the dataset's fields at this moment
          role,       \* the step of the task: trigger or detail
          content,    \* html or json
          position,   \* the node and, in a transform, the operation reached
          values,     \* the fields so far, with their kinds
          pc

vars == <<definition, schema, role, content, position, values, pc>>

Roles == {"trigger", "detail"}
Pcs == {"draft", "rejected", "published", "running", "done", "failed"}
Persistable == {"number", "canonical_key", "links", "optimal_link", "optimalLink"}
Kinds == {"nil", "blank", "text", "array", "noitems", "strings", "int", "float", "bool", "object"}

(* What a draft may be; an operation of another name is never executed.    *)
FieldRule == [name : STRING, type : {"", "string", "integer", "number", "boolean", "array"},
              multiple : BOOLEAN, required : BOOLEAN, default : Kinds]
Operation == [op : {"set", "default"}, field : STRING, to : STRING, value : Kinds]
    \union [op : {"rename", "delete", "trim", "split", "join"}, field : STRING, to : STRING, value : STRING]
Check == [name : STRING, required : BOOLEAN, type : STRING, pattern : BOOLEAN]
NodeShape == [type : STRING, on : SUBSET STRING, fields : Seq(FieldRule), ops : Seq(Operation), checks : Seq(Check)]

DefinitionsAssumption ==
    \A d \in Drafts : d \in [persistence : STRING, listing : BOOLEAN, nodes : Seq(NodeShape)]

EmptyKind(k) == k \in {"nil", "blank", "noitems"}

Nodes == definition.nodes
Applies(node, r) == r \in node.on
Records == definition.persistence = "records"

-----------------------------------------------------------------------------
(* Publication.                                                            *)

RuleNames(node) == {node.fields[i].name : i \in DOMAIN node.fields}

ExecutableNode(node) ==
    /\ node.on # {} /\ node.on \subseteq Roles
    /\ node.type = "extract" =>
        /\ node.fields # <<>>
        /\ \A i, j \in DOMAIN node.fields : node.fields[i].name = node.fields[j].name => i = j
        /\ \A i \in DOMAIN node.fields :
            node.fields[i].multiple => node.fields[i].type \in {"", "array"}
    /\ node.type = "transform" => node.ops # <<>>
    /\ node.type = "discover" => node.on = {"trigger"}

StaticOpKeepsOld(names, op) == \* broken: a rename leaves its source
    CASE op.op = "rename" /\ op.field \in names -> names \union {op.to}
      [] op.op = "delete" -> names \ {op.field}
      [] op.op \in {"set", "default"} -> names \union {op.field}
      [] OTHER -> names

(* The names that an operation leaves, as the static checks see it.        *)
StaticOp(names, op) ==
    CASE op.op = "rename" /\ op.field \in names -> (names \ {op.field}) \union {op.to}
      [] op.op = "delete" -> names \ {op.field}
      [] op.op \in {"set", "default"} -> names \union {op.field}
      [] OTHER -> names

(* The names after each operation, and after each node.                    *)
StaticOps(names, ops) ==
    LET after[n \in 0..Len(ops)] == IF n = 0 THEN names ELSE StaticOp(after[n - 1], ops[n])
    IN  after

StaticNode(names, node, r) ==
    CASE Applies(node, r) /\ node.type = "extract"   -> names \union RuleNames(node)
      [] Applies(node, r) /\ node.type = "transform" -> StaticOps(names, node.ops)[Len(node.ops)]
      [] OTHER -> names

StaticNodes(nodes, r) ==
    LET after[n \in 0..Len(nodes)] == IF n = 0 THEN {} ELSE StaticNode(after[n - 1], nodes[n], r)
    IN  after

StaticNames(nodes, r) == StaticNodes(nodes, r)[Len(nodes)]

HasDiscover == \E i \in DOMAIN Nodes : Nodes[i].type = "discover"

(* The role whose pages must persist something.                            *)
CheckedRole == IF definition.listing \/ HasDiscover THEN "detail" ELSE "trigger"

ValidateExecutable ==
    /\ Nodes # <<>>
    /\ \A i \in DOMAIN Nodes : ExecutableNode(Nodes[i])
    /\ \E i \in DOMAIN Nodes : Nodes[i].type = "extract"
    /\ definition.listing => Records
    /\ ~Records => StaticNames(Nodes, CheckedRole) \intersect Persistable # {}
    /\ Records =>
        \A i \in DOMAIN Nodes :
            /\ Nodes[i].type \in {"extract", "transform", "validate"}
            /\ Nodes[i].type = "extract" <=> i = 1

ValidateRecordSchema ==
    LET names == StaticNames(Nodes, CheckedRole) IN
    /\ names \subseteq DOMAIN schema
    /\ \A n \in DOMAIN schema : schema[n].required => n \in names

ValidateVersion == ValidateExecutable /\ (Records => ValidateRecordSchema)

Publish ==
    /\ pc = "draft"
    /\ pc' = IF ValidateVersion THEN "published" ELSE "rejected"
    /\ UNCHANGED <<definition, schema, role, content, position, values>>

(* The dataset's schema is edited after the publication.                   *)
UpdateSchema(s) ==
    /\ pc = "published"
    /\ schema' = s
    /\ UNCHANGED <<definition, role, content, position, values, pc>>

-----------------------------------------------------------------------------
(* A task of the version: the page's kind of content, then node by node.   *)

(* TraceRecordCandidates checks the definition against the schema again.   *)
Begin(r, c) ==
    /\ pc = "published"
    /\ r = CheckedRole \/ (r = "trigger" /\ ~Records)
    /\ role' = r /\ content' = c
    /\ pc' = IF Records /\ ~ValidateRecordSchema THEN "failed" ELSE "running"
    /\ UNCHANGED <<definition, schema, position, values>>

Node == Nodes[position.node]
AtEnd == position.node > Len(Nodes)
Running == pc = "running" /\ ~AtEnd

NextNode == [node |-> position.node + 1, op |-> 1]

Skip ==
    /\ Running /\ ~Applies(Node, role)
    /\ position' = NextNode
    /\ UNCHANGED <<definition, schema, role, content, values, pc>>

(* What a selector may find, cleaned.                                      *)
Raw(rule) ==
    IF content = "json" THEN {"nil", "blank", "text", "float", "bool", "array", "noitems", "object"}
    ELSE IF rule.multiple THEN {"nil", "noitems", "array"} ELSE {"nil", "blank", "text"}

(* normalizeValue; "error" stands for its error.                           *)
Normalize(rule, k) ==
    IF k = "nil" \/ rule.type = "" THEN {k}
    ELSE CASE rule.type = "string"  -> {IF k = "blank" THEN "blank" ELSE "text"}
           [] rule.type = "integer" -> {"error"} \union (IF k \in {"text", "float"} THEN {"int"} ELSE {})
           [] rule.type = "number"  -> {"error"} \union (IF k \in {"text", "float"} THEN {"float"} ELSE {})
           [] rule.type = "boolean" -> {"error"} \union (IF k \in {"text", "bool"} THEN {"bool"} ELSE {})
           [] rule.type = "array"   -> {IF k \in {"array", "noitems"} THEN k ELSE "strings"}

Extracted(rule) ==
    LET found(raw) == IF ~EmptyKind(raw) THEN Normalize(rule, raw)
                      ELSE IF rule.required THEN {"error"} ELSE Normalize(rule, rule.default)
        kinds == UNION {found(raw) : raw \in Raw(rule)}
    IN  {IF rule.required /\ EmptyKind(k) THEN "error" ELSE k : k \in kinds}

Fail == pc' = "failed" /\ UNCHANGED <<definition, schema, role, content, position, values>>

Put(vs, n, k) == [m \in DOMAIN vs \union {n} |-> IF m = n THEN k ELSE vs[m]]
Without(vs, n) == [m \in DOMAIN vs \ {n} |-> vs[m]]

Rule(n) == CHOOSE rule \in ToSet(Node.fields) : rule.name = n

Extract ==
    /\ Running /\ Applies(Node, role) /\ Node.type = "extract"
    /\ \/ /\ \E found \in [RuleNames(Node) -> UNION {Extracted(Rule(n)) : n \in RuleNames(Node)}] :
              /\ \A n \in RuleNames(Node) : found[n] # "error" /\ found[n] \in Extracted(Rule(n))
              /\ values' = [n \in DOMAIN values \union RuleNames(Node) |->
                               IF n \in RuleNames(Node) THEN found[n] ELSE values[n]]
          /\ position' = NextNode
          /\ UNCHANGED <<definition, schema, role, content, pc>>
       \/ (\E n \in RuleNames(Node) : "error" \in Extracted(Rule(n))) /\ Fail

(* What an operation may make of the fields; nothing when it is an error.  *)
Applied(vs, op) ==
    LET has == op.field \in DOMAIN vs
        k   == vs[op.field]
    IN  IF op.op \in {"set", "default"}
        THEN {IF op.op = "set" \/ ~has \/ EmptyKind(k) THEN Put(vs, op.field, op.value) ELSE vs}
        ELSE IF ~has THEN {vs}
        ELSE CASE op.op = "rename" -> {Without(Put(vs, op.to, k), op.field)}
               [] op.op = "delete" -> {Without(vs, op.field)}
               [] op.op = "trim"   -> IF k \in {"nil", "blank", "text"} THEN {vs} ELSE {}
               [] op.op = "split"  -> IF k \in {"blank", "text"} THEN {Put(vs, op.field, "array")} ELSE {}
               [] op.op = "join"   -> IF k \in {"array", "noitems"}
                                      THEN {Put(vs, op.field, s) : s \in {"blank", "text"}} ELSE {}

Transform ==
    /\ Running /\ Applies(Node, role) /\ Node.type = "transform"
    /\ LET outcomes == Applied(values, Node.ops[position.op]) IN
       \/ /\ values' \in outcomes
          /\ position' = IF position.op < Len(Node.ops) THEN [position EXCEPT !.op = @ + 1] ELSE NextNode
          /\ UNCHANGED <<definition, schema, role, content, pc>>
       \/ outcomes = {} /\ Fail

MatchesType(k, type) ==
    CASE type = "" -> TRUE
      [] type = "string" -> k = "text"
      [] type = "integer" -> k = "int"
      [] type = "array" -> k \in {"array", "strings"}

Valid(check) ==
    IF check.name \notin DOMAIN values \/ EmptyKind(values[check.name]) THEN ~check.required
    ELSE MatchesType(values[check.name], check.type)

(* A regex or an enumeration may refuse a value, too.                      *)
Validate ==
    /\ Running /\ Applies(Node, role) /\ Node.type = "validate"
    /\ \/ /\ \A i \in DOMAIN Node.checks : Valid(Node.checks[i])
          /\ position' = NextNode
          /\ UNCHANGED <<definition, schema, role, content, values, pc>>
       \/ /\ \E i \in DOMAIN Node.checks : Node.checks[i].pattern \/ ~Valid(Node.checks[i])
          /\ Fail

(* The pages that a discover node finds become tasks of their own; a script*)
(* answers with an object that is merged.                                  *)
Other ==
    /\ Running /\ Applies(Node, role) /\ Node.type \in {"discover", "script"}
    /\ position' = NextNode
    /\ \/ UNCHANGED values
       \/ Node.type = "script" /\ \E n \in Persistable, k \in {"text", "nil"} : values' = Put(values, n, k)
    /\ UNCHANGED <<definition, schema, role, content, pc>>

(* record.Prepare of one field.                                            *)
Accepts(field, k) ==
    IF field.multiple THEN k \in {"nil", "array", "noitems"}
    ELSE k = "nil" \/ CASE field.type = "string"  -> k \in {"text", "blank"}
                        [] field.type = "integer" -> k \in {"int", "float"}
                        [] field.type = "json"    -> TRUE

Prepared ==
    /\ DOMAIN values \subseteq DOMAIN schema
    /\ \A n \in DOMAIN values : Accepts(schema[n], values[n])
    /\ \A n \in DOMAIN schema : schema[n].required => n \in DOMAIN values /\ ~EmptyKind(values[n])

(* persistResource needs a number, a key or a link.                        *)
Persists == \E n \in Persistable \intersect DOMAIN values : ~EmptyKind(values[n])

Finish ==
    /\ pc = "running" /\ AtEnd
    /\ pc' = IF (IF Records THEN Prepared ELSE Persists) THEN "done" ELSE "failed"
    /\ UNCHANGED <<definition, schema, role, content, position, values>>

-----------------------------------------------------------------------------
Init ==
    /\ definition \in Drafts /\ schema \in Schemas
    /\ role = "trigger" /\ content = "html"
    /\ position = [node |-> 1, op |-> 1]
    /\ values = <<>>
    /\ pc = "draft"

Next ==
    \/ Publish
    \/ \E s \in Schemas : UpdateSchema(s)
    \/ \E r \in Roles, c \in {"html", "json"} : Begin(r, c)
    \/ Skip \/ Extract \/ Transform \/ Validate \/ Other \/ Finish

Spec == Init /\ [][Next]_vars

TypeOK ==
    /\ definition \in Drafts /\ schema \in Schemas /\ role \in Roles
    /\ pc \in Pcs /\ position \in [node : Nat \ {0}, op : Nat \ {0}]
    /\ \A n \in DOMAIN values : values[n] \in Kinds

SelfRename == \E i \in DOMAIN Nodes : Nodes[i].type = "transform" /\
                 \E j \in DOMAIN Nodes[i].ops : Nodes[i].ops[j].op = "rename"
                                                /\ Nodes[i].ops[j].field = Nodes[i].ops[j].to

(* What was published works as it was checked: when the nodes have run on  *)
(* a page of the role that persists, its fields are just those that the    *)
(* static checks computed, so a record is never refused for an unknown or  *)
(* missing field and a resource always has a field to be found by, also    *)
(* when the dataset's schema changed in between (records.go:93-146,        *)
(* definition.go:263-310 against transform.go:13-112). The exception is a  *)
(* field renamed to itself, which only the static checks keep.             *)
PublishedFits ==
    pc = "running" /\ AtEnd /\ role = CheckedRole /\ ~SelfRename =>
        IF Records THEN /\ DOMAIN values \subseteq DOMAIN schema
                        /\ \A n \in DOMAIN schema : schema[n].required => n \in DOMAIN values
        ELSE DOMAIN values \intersect Persistable # {}
=============================================================================
