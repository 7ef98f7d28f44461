------------------------------- MODULE Shapes -------------------------------
(***************************************************************************)
(* The SHACL subset of clean_room_shacl: what is submitted, a document, a  *)
(* skill package or the result of the gate, becomes a property graph, the  *)
(* shapes select its focus nodes, and every focus node is checked.         *)
(*                                                                         *)
(* A scalar is its Python type with its text; two numbers of different     *)
(* types are equal when their texts are, so False is 0 and True is 1.  A   *)
(* nested object is a reference, {"@id": ...}, or another one, and no      *)
(* Python set takes either of them.                                        *)
(* A datatype is the set of its types, a pattern the set of the texts it   *)
(* is found in, and rdf:type and @type are one predicate.                  *)
(***************************************************************************)
EXTENDS Integers, Sequences, FiniteSets

CONSTANTS
  Ids,        \* the ids documents give to nodes
  Anonymous,  \* the id of a node that has none
  Preds,      \* predicates
  Texts,      \* the texts of scalars
  Documents,  \* what is submitted to be checked ...
  Packages,   \* ... as a skill package ...
  Results,    \* ... and as the status in a result of the gate
  ShapeIds,   \* the shape_id a document is checked with, "" for all
  MoreShapes, \* shapes beside the constitutional ones
  IntOf(_)    \* the text of int() of a scalar, "" where it raises

\* The JSON values in documents and packages: a Python type and a text.
Types == {"str", "bool", "int", "float", "none", "ref", "object", "absent"}

Value == Types \X Texts

Text(s) == <<"str", s>>

True == <<"bool", "1">>

False == <<"bool", "0">>

Absent == <<"absent", "">>

IsReference(v) == v[1] = "ref"

Nested(v) == v[1] \in {"ref", "object"}

Number == {"bool", "int", "float"}

\* a == b
Equal(a, b) == a = b \/ (a[1] \in Number /\ b[1] \in Number /\ a[2] = b[2])

\* bool(v)
Truthy(v) == ~(v[2] = "" \/ (v[1] \in Number /\ v[2] = "0"))

Node == [id : Ids \cup {Anonymous}, props : [Preds -> Seq(Value)]]

\* What a package says of network_access and of the dimension, if anything.
Package == [network : Value, dimension : Value]

\* Documents may use such an id as well.
Blank(k) == <<"_:n", k>>

Self == <<"self", 0>>

ASSUME DocumentAssumption == Documents \subseteq [form : {"json-ld", "mapping"}, nodes : Seq(Node)]
ASSUME PackageAssumption == Packages \subseteq Package
ASSUME PredAssumption == {"type", "status", "network_access", "dimension", "has_inputs"} \subseteq Preds
ASSUME IdAssumption == Anonymous \notin Ids /\ Self \notin Ids
ASSUME TextAssumption ==
  /\ Results \cup {"0", "1", "seem:SkillPackage", "seem:SkillGateResult"} \subseteq Texts
  /\ \A v \in Value : IntOf(v) \in Texts
-----------------------------------------------------------------------------
ConstitutionalShapes ==
  << [id |-> "SkillGateResultShape", targetClass |-> "seem:SkillGateResult",
      properties |->
        << [path |-> "status", minCount |-> 1, maxCount |-> 1, in |-> {Text("PASS"), Text("FAIL")}],
           [path |-> "network_access", minCount |-> 0, maxCount |-> 1, in |-> {False}] >>],
     [id |-> "PipelineStateShape", targetClass |-> "seem:PipelineState",
      properties |->
        << [path |-> "has_inputs", datatype |-> {"bool"}, minCount |-> 0],
           [path |-> "status", in |-> {Text("PASS"), Text("FAIL"), Text("RUNNING")}, minCount |-> 0] >>],
     [id |-> "SkillPackageSovereigntyShape", targetClass |-> "seem:SkillPackage",
      properties |->
        << [path |-> "network_access", minCount |-> 1, maxCount |-> 1, hasValue |-> False],
           [path |-> "dimension", minCount |-> 1, hasValue |-> <<"int", "8192">>] >>] >>

AllShapes == ConstitutionalShapes \o MoreShapes

Has(record, field) == field \in DOMAIN record

\* A shape names predicates and a node, and its counts are integers.
ShapeTyped(shape) ==
  /\ Has(shape, "targetNode") => shape.targetNode \in Ids
  /\ \A i \in 1 .. Len(shape.properties) :
       LET c == shape.properties[i] IN
         /\ c.path \in Preds
         /\ Has(c, "minCount") => c.minCount \in Int
         /\ Has(c, "maxCount") => c.maxCount \in Int

ASSUME ShapeAssumption ==
  /\ MoreShapes \in Seq({MoreShapes[i] : i \in DOMAIN MoreShapes})
  /\ \A i \in DOMAIN MoreShapes : ShapeTyped(MoreShapes[i])

\* The shapes validate_graph uses.
Selected(wanted) ==
  {i \in 1 .. Len(AllShapes) : wanted = "" \/ AllShapes[i].id = wanted}

\* What is submitted, and the shape_id it is checked with.
Submission ==
  [form : {"document"}, doc : Documents, shape : ShapeIds]
    \cup [form : {"package"}, package : Packages, shape : {"SkillPackageSovereigntyShape"}]
    \cup [form : {"result"}, status : Results, shape : {"SkillGateResultShape"}]

\* What a property of a shape may ask for.
Constraints == {"minCount", "maxCount", "in", "hasValue", "datatype", "pattern"}

\* The violation reported for an unknown shape_id.
NoShape == [node |-> <<>>, shape |-> 0, path |-> "", kind |-> "unknown"]

VARIABLES
  input,   \* what is submitted
  at,      \* how many nodes of a document are in the graph
  graph,   \* LocalGraph: the values of every node and predicate
  todo,    \* the shapes with the focus nodes that are still to be checked
  found,   \* the violations
  stage    \* how far the check is

vars == <<input, at, graph, todo, found, stage>>

GraphNodes == Ids \cup {Self} \cup {Blank(k) : k \in 0 .. at}

TypeOK ==
  /\ input \in Submission
  /\ at \in Nat
  /\ DOMAIN graph \subseteq GraphNodes
  /\ \A n \in DOMAIN graph :
       /\ graph[n] \in [Preds -> Seq(Value)]
       /\ \E p \in Preds : graph[n][p] # <<>>
  /\ todo \subseteq (1 .. Len(AllShapes)) \X GraphNodes
  /\ found \subseteq [node : GraphNodes, shape : 1 .. Len(AllShapes), path : Preds,
                      kind : Constraints \cup {"closed"}] \cup {NoShape}
  /\ stage \in {"building", "checking", "reported", "raised"}

Init ==
  /\ input \in Submission
  /\ at = 0
  /\ graph = <<>>
  /\ todo = {}
  /\ found = {}
  /\ stage = "building"
-----------------------------------------------------------------------------
\* LocalGraph.get
Get(g, n, p) == IF n \in DOMAIN g THEN g[n][p] ELSE <<>>

\* Faulty variant: a node is entered before its first value.
AddEarly(g, n, props) ==
  [m \in DOMAIN g \cup {n} |->
     [p \in Preds |-> IF m = n THEN Get(g, n, p) \o props[p] ELSE g[m][p]]]

\* LocalGraph.add for every value of a node: one without values stays out.
Add(g, n, props) ==
  IF \A p \in Preds : props[p] = <<>> THEN g
  ELSE [m \in DOMAIN g \cup {n} |->
          [p \in Preds |-> IF m = n THEN Get(g, n, p) \o props[p] ELSE g[m][p]]]

\* Faulty variant: the last node is not counted.
FreshNameEarly(g) == Blank(IF g = <<>> THEN 0 ELSE Cardinality(DOMAIN g) - 1)

\* A node without an id is numbered by the nodes that are in the graph.
FreshName(g) == Blank(Cardinality(DOMAIN g))

NameOf(g, node) == IF node.id = Anonymous THEN FreshName(g) ELSE node.id

\* from_json_ld_nodes takes the id out of a reference, from_mapping does not.
Read(form, vs) ==
  [i \in 1 .. Len(vs) |->
    IF form = "json-ld" /\ IsReference(vs[i]) THEN Text(vs[i][2]) ELSE vs[i]]

AddNode ==
  /\ stage = "building"
  /\ input.form = "document"
  /\ at < Len(input.doc.nodes)
  /\ LET node == input.doc.nodes[at + 1] IN
       graph' = Add(graph, NameOf(graph, node),
                    [p \in Preds |-> Read(input.doc.form, node.props[p])])
  /\ at' = at + 1
  /\ UNCHANGED <<input, todo, found, stage>>

\* Faulty variant: a package that says nothing asks for no network access.
PackagePropsLenient(k) ==
  [p \in Preds |->
    CASE p = "type" -> <<Text("seem:SkillPackage")>>
      [] p = "network_access" -> <<IF k.network # Absent /\ Truthy(k.network) THEN True ELSE False>>
      [] p = "dimension" -> IF k.dimension = Absent THEN <<>> ELSE <<<<"int", IntOf(k.dimension)>>>>
      [] OTHER -> <<>>]

PackageProps(k) ==
  [p \in Preds |->
    CASE p = "type" -> <<Text("seem:SkillPackage")>>
      [] p = "network_access" -> <<IF k.network = Absent \/ Truthy(k.network) THEN True ELSE False>>
      [] p = "dimension" -> IF k.dimension = Absent THEN <<>> ELSE <<<<"int", IntOf(k.dimension)>>>>
      [] OTHER -> <<>>]

IntRaises(k) == k.dimension # Absent /\ IntOf(k.dimension) = ""

\* skill_package_to_graph
AddPackage ==
  /\ stage = "building"
  /\ input.form = "package"
  /\ at = 0
  /\ ~IntRaises(input.package)
  /\ graph' = Add(graph, Self, PackageProps(input.package))
  /\ at' = 1
  /\ UNCHANGED <<input, todo, found, stage>>

RefusePackage ==
  /\ stage = "building"
  /\ input.form = "package"
  /\ IntRaises(input.package)
  /\ stage' = "raised"
  /\ UNCHANGED <<input, at, graph, todo, found>>

\* gate_result_to_graph
AddResult ==
  /\ stage = "building"
  /\ input.form = "result"
  /\ at = 0
  /\ graph' = Add(graph, Self,
                  [p \in Preds |-> CASE p = "type" -> <<Text("seem:SkillGateResult")>>
                                     [] p = "status" -> <<Text(input.status)>>
                                     [] OTHER -> <<>>])
  /\ at' = 1
  /\ UNCHANGED <<input, todo, found, stage>>

Built == at = IF input.form = "document" THEN Len(input.doc.nodes) ELSE 1
-----------------------------------------------------------------------------
OfClass(vs, class) == \E i \in 1 .. Len(vs) : ~Nested(vs[i]) /\ vs[i][2] = class

\* _targets: a target node need not be in the graph.
Targets(g, shape) ==
  IF Has(shape, "targetNode") THEN {shape.targetNode}
  ELSE IF Has(shape, "targetClass")
    THEN {n \in DOMAIN g : OfClass(g[n]["type"], shape.targetClass)}
  ELSE DOMAIN g

Select ==
  /\ stage = "building"
  /\ Built
  /\ Selected(input.shape) # {}
  /\ todo' = UNION {{i} \X Targets(graph, AllShapes[i]) : i \in Selected(input.shape)}
  /\ stage' = "checking"
  /\ UNCHANGED <<input, at, graph, found>>

UnknownShape ==
  /\ stage = "building"
  /\ Built
  /\ Selected(input.shape) = {}
  /\ found' = {NoShape}
  /\ stage' = "reported"
  /\ UNCHANGED <<input, at, graph, todo>>

Among(v, vs) == \E i \in 1 .. Len(vs) : Equal(v, vs[i])

\* What _property_constraints finds wrong with the values of a property.
Wrong(c, vs) ==
  {kind \in Constraints :
     /\ Has(c, kind)
     /\ CASE kind = "minCount" -> Len(vs) < c.minCount
          [] kind = "maxCount" -> Len(vs) > c.maxCount
          [] kind = "in" -> \E i \in 1 .. Len(vs) : \A a \in c.in : ~Equal(vs[i], a)
          [] kind = "hasValue" -> ~Among(c.hasValue, vs)
          [] kind = "datatype" -> \E i \in 1 .. Len(vs) : vs[i][1] \notin c.datatype
          [] kind = "pattern" -> \E i \in 1 .. Len(vs) : vs[i][2] \notin c.pattern}

Declared(shape) == {shape.properties[i].path : i \in 1 .. Len(shape.properties)}

Unexpected(g, n, shape) ==
  IF Has(shape, "closed") /\ n \in DOMAIN g
  THEN {p \in Preds \ {"type"} : g[n][p] # <<>> /\ p \notin Declared(shape) \cup shape.ignored}
  ELSE {}

\* _validate_node
Violations(g, n, i) ==
  LET shape == AllShapes[i] IN
  {[node |-> n, shape |-> i, path |-> p, kind |-> "closed"] : p \in Unexpected(g, n, shape)}
    \cup UNION {{[node |-> n, shape |-> i, path |-> c.path, kind |-> w] :
                   w \in Wrong(c, Get(g, n, c.path))} :
                 c \in {shape.properties[j] : j \in 1 .. Len(shape.properties)}}

\* sorted() compares any two of them.
Sortable(S) ==
  \A v, w \in S : v = w \/ (v[1] \in Number /\ w[1] \in Number) \/ (v[1] = "str" /\ w[1] = "str")

\* TypeError: a nested value meets a set, or allowed values that cannot be
\* sorted are to be listed in a violation.
Raises(g, n, i) ==
  \E j \in 1 .. Len(AllShapes[i].properties) :
    LET c == AllShapes[i].properties[j]
        vs == Get(g, n, c.path)
    IN  /\ Has(c, "in")
        /\ \/ \E v \in c.in : Nested(v)
           \/ \E k \in 1 .. Len(vs) : Nested(vs[k])
           \/ "in" \in Wrong(c, vs) /\ ~Sortable(c.in)

\* The next focus node of a shape, one of those in todo.
Check(i, n) ==
  /\ stage = "checking"
  /\ todo' = todo \ {<<i, n>>}
  /\ IF Raises(graph, n, i)
     THEN stage' = "raised" /\ UNCHANGED found
     ELSE found' = found \cup Violations(graph, n, i) /\ UNCHANGED stage
  /\ UNCHANGED <<input, at, graph>>

\* The report is ready; it conforms when nothing was found.
Report ==
  /\ stage = "checking"
  /\ todo = {}
  /\ stage' = "reported"
  /\ UNCHANGED <<input, at, graph, todo, found>>

Next ==
  \/ AddNode \/ AddPackage \/ RefusePackage \/ AddResult
  \/ Select \/ UnknownShape
  \/ \E pair \in todo : Check(pair[1], pair[2])
  \/ Report

Spec == Init /\ [][Next]_vars
-----------------------------------------------------------------------------
(***************************************************************************)
(* A document is judged node by node on what its nodes say themselves, in  *)
(* whatever order they come: it conforms exactly if every node a selected  *)
(* shape targets satisfies it, and a node the shape targets by name of     *)
(* which the document says nothing is judged as an empty one.  A node      *)
(* without an id is called after the number of nodes before it that say    *)
(* something, and this is about the documents in which no two nodes that   *)
(* say something are called the same: an explicit id may look like that of *)
(* an anonymous node, but where it is the very one the node gets, the two  *)
(* are one node of the graph and are judged together.                      *)
(***************************************************************************)
Says(node) == \E p \in Preds : node.props[p] # <<>>

Telling(nodes) == {i \in 1 .. Len(nodes) : Says(nodes[i])}

Before(nodes, i) == {j \in Telling(nodes) : j < i}

Called(nodes, i) ==
  IF nodes[i].id = Anonymous THEN Blank(Cardinality(Before(nodes, i))) ELSE nodes[i].id

Apart(nodes) ==
  \A i, j \in Telling(nodes) : Called(nodes, i) = Called(nodes, j) => i = j

Holds(c, vs) ==
  LET members == {vs[i] : i \in 1 .. Len(vs)} IN
  /\ Has(c, "minCount") => Len(vs) >= c.minCount
  /\ Has(c, "maxCount") => Len(vs) <= c.maxCount
  /\ Has(c, "in") => \A v \in members : \E a \in c.in : Equal(v, a)
  /\ Has(c, "hasValue") => \E v \in members : Equal(v, c.hasValue)
  /\ Has(c, "datatype") => \A v \in members : v[1] \in c.datatype
  /\ Has(c, "pattern") => \A v \in members : v[2] \in c.pattern

Satisfies(form, props, shape) ==
  /\ \A i \in 1 .. Len(shape.properties) :
       Holds(shape.properties[i], Read(form, props[shape.properties[i].path]))
  /\ Has(shape, "closed") =>
       \A p \in Preds : props[p] = <<>> \/ p \in Declared(shape) \cup shape.ignored \cup {"type"}

Targeted(doc, shape) ==
  {i \in Telling(doc.nodes) :
     IF Has(shape, "targetNode") THEN Called(doc.nodes, i) = shape.targetNode
     ELSE Has(shape, "targetClass") =>
            OfClass(Read(doc.form, doc.nodes[i].props["type"]), shape.targetClass)}

Conforms(doc, shape) ==
  /\ \A i \in Targeted(doc, shape) : Satisfies(doc.form, doc.nodes[i].props, shape)
  /\ Has(shape, "targetNode") /\ Targeted(doc, shape) = {}
       => Satisfies(doc.form, [p \in Preds |-> <<>>], shape)

JudgedByTheDocument ==
  stage = "reported" /\ input.form = "document" /\ Apart(input.doc.nodes) =>
    (found = {} <=> /\ Selected(input.shape) # {}
                    /\ \A i \in Selected(input.shape) : Conforms(input.doc, AllShapes[i]))

(***************************************************************************)
(* A package that conforms declares that it asks for no network access and *)
(* names the dimension 8192, by whatever JSON type; so the gate, which     *)
(* refuses only a literal true, never refuses it for network access.       *)
(***************************************************************************)
GateRefuses(k) == k.network = True

ConformingIsSovereign ==
  stage = "reported" /\ input.form = "package" /\ found = {} =>
    /\ input.package.network # Absent /\ ~Truthy(input.package.network)
    /\ input.package.dimension # Absent /\ IntOf(input.package.dimension) = "8192"
    /\ ~GateRefuses(input.package)
=============================================================================
