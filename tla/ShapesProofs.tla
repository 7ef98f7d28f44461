---------------------------- MODULE ShapesProofs ----------------------------
(***************************************************************************)
(* Theorems about Shapes for any documents, packages and results, whatever *)
(* int() makes of a dimension and whatever shapes are added to the         *)
(* constitutional ones: the types, the packages that conform, and the      *)
(* verdict on a document.                                                  *)
(***************************************************************************)
EXTENDS Shapes, TLAPS, SequenceTheorems, FiniteSetTheorems

\* SkillPackageSovereigntyShape
Sovereignty == 3

Network == [path |-> "network_access", minCount |-> 1, maxCount |-> 1, hasValue |-> False]

Dimension == [path |-> "dimension", minCount |-> 1, hasValue |-> <<"int", "8192">>]

LEMMA SovereigntyShape ==
  /\ AllShapes[Sovereignty] = [id |-> "SkillPackageSovereigntyShape",
                               targetClass |-> "seem:SkillPackage",
                               properties |-> <<Network, Dimension>>]
  /\ Sovereignty \in Selected("SkillPackageSovereigntyShape")
  <1> DEFINE s == [id |-> "SkillPackageSovereigntyShape", targetClass |-> "seem:SkillPackage",
                   properties |-> <<Network, Dimension>>]
  <1>1. PICK a, b : ConstitutionalShapes = <<a, b, s>>
    BY DEF ConstitutionalShapes, Network, Dimension
  <1>2. PICK S : MoreShapes \in Seq(S)
    BY ShapeAssumption
  <1>3. s.id = "SkillPackageSovereigntyShape"
    OBVIOUS
  <1> HIDE DEF s
  <1>4. <<a, b, s>> \in Seq({a, b, s} \cup S) /\ MoreShapes \in Seq({a, b, s} \cup S)
    BY <1>2
  <1>5. AllShapes[3] = s /\ 3 \in 1 .. Len(AllShapes)
    BY <1>1, <1>4 DEF AllShapes
  <1> QED
    BY <1>3, <1>5 DEF Sovereignty, Selected, s
-----------------------------------------------------------------------------
\* The graph of a package.
GraphOf(k) == Add(<<>>, Self, PackageProps(k))

\* What the gate and the shape are about: the values in the graph.
NetworkOf(k) == IF k.network = Absent \/ Truthy(k.network) THEN True ELSE False

LEMMA PackageGraph ==
  ASSUME NEW k
  PROVE  /\ Self \in DOMAIN GraphOf(k)
         /\ GraphOf(k)[Self]["type"] = <<Text("seem:SkillPackage")>>
         /\ Get(GraphOf(k), Self, "network_access") = <<NetworkOf(k)>>
         /\ Get(GraphOf(k), Self, "dimension") =
              IF k.dimension = Absent THEN <<>> ELSE << <<"int", IntOf(k.dimension)>> >>
  <1> DEFINE props == PackageProps(k)
  <1>1. {"type", "network_access", "dimension"} \subseteq Preds
    BY PredAssumption
  <1>2. /\ props["type"] = <<Text("seem:SkillPackage")>>
        /\ props["network_access"] = <<NetworkOf(k)>>
        /\ props["dimension"] =
             IF k.dimension = Absent THEN <<>> ELSE << <<"int", IntOf(k.dimension)>> >>
    BY <1>1 DEF PackageProps, NetworkOf
  <1> HIDE DEF props
  <1>3. \A p \in Preds : Get(<<>>, Self, p) = <<>>
    BY DEF Get
  <1>4. ~ \A p \in Preds : props[p] = <<>>
    BY <1>1, <1>2
  <1>5. GraphOf(k) = [m \in DOMAIN <<>> \cup {Self} |->
                       [p \in Preds |-> IF m = Self THEN Get(<<>>, Self, p) \o props[p]
                                        ELSE <<>>[m][p]]]
    BY <1>4 DEF GraphOf, Add, props
  <1>6. Self \in DOMAIN GraphOf(k) /\ \A p \in Preds : GraphOf(k)[Self][p] = <<>> \o props[p]
    <2> DEFINE row(m) == [p \in Preds |-> IF m = Self THEN Get(<<>>, Self, p) \o props[p]
                                          ELSE <<>>[m][p]]
               all == DOMAIN <<>> \cup {Self}
    <2>1. GraphOf(k) = [m \in all |-> row(m)]
      BY <1>5
    <2>2. Self \in all
      OBVIOUS
    <2>3. row(Self) = [p \in Preds |-> <<>> \o props[p]]
      BY <1>3
    <2> HIDE DEF row, all
    <2>4. Self \in DOMAIN GraphOf(k) /\ GraphOf(k)[Self] = row(Self)
      BY <2>1, <2>2
    <2> QED
      BY <2>3, <2>4
  <1>7. \A v : <<>> \o <<v>> = <<v>>
    <2> TAKE v
    <2>1. <<v>> \in Seq({v})
      OBVIOUS
    <2> QED
      BY <2>1, ConcatEmptySeq
  <1>8. <<>> \o <<>> = <<>>
    BY EmptySeq, ConcatEmptySeq
  <1> HIDE DEF GraphOf
  <1> QED
    BY <1>1, <1>2, <1>6, <1>7, <1>8 DEF Get

\* The sovereignty shape targets the node of a package.
LEMMA PackageIsTargeted ==
  ASSUME NEW k
  PROVE  Self \in Targets(GraphOf(k), AllShapes[Sovereignty])
  <1>1. ~Has(AllShapes[Sovereignty], "targetNode") /\ Has(AllShapes[Sovereignty], "targetClass")
        /\ AllShapes[Sovereignty].targetClass = "seem:SkillPackage"
    BY SovereigntyShape DEF Has
  <1>2. OfClass(<<Text("seem:SkillPackage")>>, "seem:SkillPackage")
    <2>1. Text("seem:SkillPackage")[1] = "str" /\ Text("seem:SkillPackage")[2] = "seem:SkillPackage"
      BY DEF Text
    <2> QED
      BY <2>1 DEF OfClass, Nested
  <1> QED
    BY <1>1, <1>2, PackageGraph DEF Targets

\* A package in whose node the shape finds nothing wrong is sovereign.
Sovereign(k) ==
  /\ k.network # Absent /\ ~Truthy(k.network)
  /\ k.dimension # Absent /\ IntOf(k.dimension) = "8192"
  /\ ~GateRefuses(k)

LEMMA CleanIsSovereign ==
  ASSUME NEW k, Violations(GraphOf(k), Self, Sovereignty) = {}
  PROVE  Sovereign(k)
  <1> DEFINE cs == {AllShapes[Sovereignty].properties[j] :
                     j \in 1 .. Len(AllShapes[Sovereignty].properties)}
  <1>1. Network \in cs /\ Dimension \in cs
    <2>1. AllShapes[Sovereignty].properties = <<Network, Dimension>>
      BY SovereigntyShape
    <2> QED
      BY <2>1
  <1>2. \A c \in cs : Wrong(c, Get(GraphOf(k), Self, c.path)) = {}
    <2> SUFFICES ASSUME NEW c \in cs, NEW w \in Wrong(c, Get(GraphOf(k), Self, c.path))
                 PROVE  FALSE
      OBVIOUS
    <2> DEFINE of(d) == {[node |-> Self, shape |-> Sovereignty, path |-> d.path, kind |-> v] :
                           v \in Wrong(d, Get(GraphOf(k), Self, d.path))}
    <2>1. UNION {of(d) : d \in cs} \subseteq Violations(GraphOf(k), Self, Sovereignty)
      BY Zenon DEF Violations
    <2>2. of(c) # {} /\ of(c) \in {of(d) : d \in cs}
      OBVIOUS
    <2> HIDE DEF of
    <2> QED
      BY <2>1, <2>2
  <1> HIDE DEF cs
  <1>3. Wrong(Network, <<NetworkOf(k)>>) = {}
    <2>1. Network.path = "network_access"
      BY DEF Network
    <2> QED
      BY <1>1, <1>2, <2>1, PackageGraph
  <1>4. Wrong(Dimension, IF k.dimension = Absent THEN <<>> ELSE << <<"int", IntOf(k.dimension)>> >>) = {}
    <2>1. Dimension.path = "dimension"
      BY DEF Dimension
    <2> QED
      BY <1>1, <1>2, <2>1, PackageGraph
  <1>5. NetworkOf(k) = False
    <2>1. Has(Network, "hasValue") /\ Network.hasValue = False
      BY DEF Has, Network
    <2>2. Among(False, <<NetworkOf(k)>>)
      BY <1>3, <2>1 DEF Wrong, Constraints
    <2>3. Equal(False, NetworkOf(k))
      BY <2>2 DEF Among
    <2> QED
      BY <2>3 DEF Equal, NetworkOf, True, False
  <1>6. k.network # Absent /\ ~Truthy(k.network)
    BY <1>5 DEF NetworkOf, True, False
  <1>7. Has(Dimension, "hasValue") /\ Dimension.hasValue = <<"int", "8192">>
    BY DEF Has, Dimension
  <1>8. k.dimension # Absent
    <2>1. ~Among(Dimension.hasValue, <<>>)
      BY DEF Among
    <2> QED
      BY <1>4, <1>7, <2>1 DEF Wrong, Constraints
  <1>9. IntOf(k.dimension) = "8192"
    <2>1. Among(<<"int", "8192">>, << <<"int", IntOf(k.dimension)>> >>)
      BY <1>4, <1>7, <1>8 DEF Wrong, Constraints
    <2>2. Equal(<<"int", "8192">>, <<"int", IntOf(k.dimension)>>)
      BY <2>1 DEF Among
    <2> QED
      BY <2>2 DEF Equal
  <1>10. ~GateRefuses(k)
    <2>1. True[2] = "1"
      BY DEF True
    <2>2. Truthy(True)
      BY <2>1 DEF Truthy
    <2> QED
      BY <1>6, <2>2 DEF GateRefuses
  <1> QED
    BY <1>6, <1>8, <1>9, <1>10 DEF Sovereign
-----------------------------------------------------------------------------
(***************************************************************************)
(* The invariant: once the graph is built, the node of the package is      *)
(* still to be checked, or nothing was found wrong with it, or something   *)
(* was found.                                                              *)
(***************************************************************************)
Checked ==
  \/ <<Sovereignty, Self>> \in todo
  \/ Violations(graph, Self, Sovereignty) \subseteq found

PackageInv ==
  input.form = "package" =>
    /\ input.shape = "SkillPackageSovereigntyShape"
    /\ at = 0 => graph = <<>> /\ stage \in {"building", "raised"}
    /\ at # 0 => graph = GraphOf(input.package)
    /\ stage = "checking" => Checked
    /\ stage = "reported" => Violations(graph, Self, Sovereignty) \subseteq found

LEMMA StepPackage ==
  ASSUME PackageInv, [Next]_vars
  PROVE  PackageInv'
  <1> SUFFICES ASSUME input'.form = "package" PROVE PackageInv'
    BY DEF PackageInv
  <1>0. input' = input
    BY DEF Next, vars, AddNode, AddPackage, RefusePackage, AddResult, Select, UnknownShape, Check,
       Report
  <1>1. CASE AddPackage
    BY <1>0, <1>1 DEF AddPackage, PackageInv, GraphOf
  <1>2. CASE RefusePackage
    BY <1>0, <1>2 DEF RefusePackage, PackageInv, Checked
  <1>3. CASE Select
    <2>1. at # 0 /\ graph = GraphOf(input.package)
      BY <1>0, <1>3 DEF Select, Built, PackageInv
    <2>2. Self \in Targets(graph, AllShapes[Sovereignty])
      BY <2>1, PackageIsTargeted
    <2>3. Sovereignty \in Selected(input.shape)
      BY <1>0, SovereigntyShape DEF PackageInv
    <2>4. <<Sovereignty, Self>> \in todo'
      BY <1>3, <2>2, <2>3 DEF Select
    <2> QED
      BY <1>0, <1>3, <2>1, <2>4 DEF Select, PackageInv, Checked
  <1>4. CASE UnknownShape
    BY <1>0, <1>4, SovereigntyShape DEF UnknownShape, PackageInv
  <1>5. ASSUME NEW pair \in todo, Check(pair[1], pair[2]) PROVE PackageInv'
    <2>1. CASE stage' = "raised"
      BY <1>0, <1>5, <2>1 DEF Check, PackageInv
    <2>2. CASE stage' # "raised"
      <3>1. /\ found' = found \cup Violations(graph, pair[2], pair[1])
            /\ todo' = todo \ {<<pair[1], pair[2]>>}
            /\ stage = "checking" /\ UNCHANGED <<at, graph, stage>>
        BY <1>5, <2>2 DEF Check
      <3>2. Checked'
        <4>1. CASE pair[1] = Sovereignty /\ pair[2] = Self
          BY <3>1, <4>1 DEF Checked, Violations
        <4>2. CASE <<pair[1], pair[2]>> # <<Sovereignty, Self>>
          BY <1>0, <3>1, <4>2 DEF Checked, Violations, PackageInv
        <4> QED
          BY <4>1, <4>2
      <3> QED
        BY <1>0, <3>1, <3>2 DEF PackageInv
    <2> QED
      BY <2>1, <2>2
  <1>6. CASE Report
    BY <1>0, <1>6 DEF Report, PackageInv, Checked
  <1>7. CASE UNCHANGED vars
    BY <1>7 DEF vars, PackageInv, Checked
  <1>8. ~AddNode /\ ~AddResult
    BY <1>0 DEF AddNode, AddResult
  <1> QED
    BY <1>1, <1>2, <1>3, <1>4, <1>5, <1>6, <1>7, <1>8 DEF Next

(***************************************************************************)
(* A conforming package declares that it asks for no network access and    *)
(* names the dimension 8192, and the gate never refuses it for network     *)
(* access: for all packages and all shapes beside the constitutional ones. *)
(***************************************************************************)
THEOREM ConformingPackages == Spec => []ConformingIsSovereign
  <1>1. Init => PackageInv
    BY DEF Init, PackageInv, Submission
  <1>2. PackageInv /\ [Next]_vars => PackageInv'
    BY StepPackage
  <1>3. PackageInv => ConformingIsSovereign
    <2> SUFFICES ASSUME PackageInv, stage = "reported", input.form = "package", found = {}
                 PROVE  Sovereign(input.package)
      BY DEF ConformingIsSovereign, Sovereign
    <2>1. at # 0 /\ Violations(GraphOf(input.package), Self, Sovereignty) = {}
      BY DEF PackageInv
    <2> QED
      BY <2>1, CleanIsSovereign
  <1> QED
    BY <1>1, <1>2, <1>3, PTL DEF Spec
-----------------------------------------------------------------------------
(***************************************************************************)
(* Typing.  A node of the graph has at least one value, so that a shape    *)
(* without a target finds no node the document says nothing of; what       *)
(* numbers the anonymous nodes is at most the number of nodes read.        *)
(***************************************************************************)
LEMMA ConstitutionTyped ==
  /\ Len(ConstitutionalShapes) = 3
  /\ \A i \in 1 .. 3 : ShapeTyped(ConstitutionalShapes[i])
  <1> DEFINE a1 == [path |-> "status", minCount |-> 1, maxCount |-> 1,
                    in |-> {Text("PASS"), Text("FAIL")}]
             a2 == [path |-> "network_access", minCount |-> 0, maxCount |-> 1, in |-> {False}]
             b1 == [path |-> "has_inputs", datatype |-> {"bool"}, minCount |-> 0]
             b2 == [path |-> "status", in |-> {Text("PASS"), Text("FAIL"), Text("RUNNING")},
                    minCount |-> 0]
             a == [id |-> "SkillGateResultShape", targetClass |-> "seem:SkillGateResult",
                   properties |-> <<a1, a2>>]
             b == [id |-> "PipelineStateShape", targetClass |-> "seem:PipelineState",
                   properties |-> <<b1, b2>>]
             c == [id |-> "SkillPackageSovereigntyShape", targetClass |-> "seem:SkillPackage",
                   properties |-> <<Network, Dimension>>]
  <1>1. ConstitutionalShapes = <<a, b, c>>
    BY DEF ConstitutionalShapes, Network, Dimension
  <1>2. ASSUME NEW s, NEW x, NEW y, s.properties = <<x, y>>, ~Has(s, "targetNode"),
               \A q \in {x, y} : /\ q.path \in Preds
                                 /\ Has(q, "minCount") => q.minCount \in Int
                                 /\ Has(q, "maxCount") => q.maxCount \in Int
        PROVE  ShapeTyped(s)
    <2>1. Len(s.properties) = 2 /\ \A j \in 1 .. 2 : s.properties[j] \in {x, y}
      BY <1>2
    <2> QED
      BY <1>2, <2>1 DEF ShapeTyped
  <1>3. ShapeTyped(a)
    <2>1. a.properties = <<a1, a2>> /\ ~Has(a, "targetNode")
      BY DEF Has
    <2>2. /\ a1.path = "status" /\ a1.minCount = 1 /\ a1.maxCount = 1
          /\ a2.path = "network_access" /\ a2.minCount = 0 /\ a2.maxCount = 1
      OBVIOUS
    <2> HIDE DEF a, a1, a2
    <2> QED
      BY <1>2, <2>1, <2>2, PredAssumption
  <1>4. ShapeTyped(b)
    <2>1. b.properties = <<b1, b2>> /\ ~Has(b, "targetNode")
      BY DEF Has
    <2>2. /\ b1.path = "has_inputs" /\ b1.minCount = 0 /\ ~Has(b1, "maxCount")
          /\ b2.path = "status" /\ b2.minCount = 0 /\ ~Has(b2, "maxCount")
      BY DEF Has
    <2> HIDE DEF b, b1, b2
    <2> QED
      BY <1>2, <2>1, <2>2, PredAssumption
  <1>5. ShapeTyped(c)
    <2>1. c.properties = <<Network, Dimension>> /\ ~Has(c, "targetNode")
      BY DEF Has
    <2>2. /\ Network.path = "network_access" /\ Network.minCount = 1 /\ Network.maxCount = 1
          /\ Dimension.path = "dimension" /\ Dimension.minCount = 1 /\ ~Has(Dimension, "maxCount")
      BY DEF Has, Network, Dimension
    <2> HIDE DEF c
    <2> QED
      BY <1>2, <2>1, <2>2, PredAssumption
  <1> HIDE DEF a, b, c
  <1> QED
    BY <1>1, <1>3, <1>4, <1>5

LEMMA AllShapesTyped ==
  \A i \in 1 .. Len(AllShapes) : ShapeTyped(AllShapes[i])
  <1>1. PICK S : /\ MoreShapes \in Seq(S)
                 /\ \A i \in 1 .. Len(MoreShapes) : ShapeTyped(MoreShapes[i])
    <2>1. PICK S : MoreShapes \in Seq(S)
      BY ShapeAssumption
    <2>2. DOMAIN MoreShapes = 1 .. Len(MoreShapes)
      BY <2>1, LenProperties
    <2> QED
      BY <2>1, <2>2, ShapeAssumption
  <1>2. PICK T : ConstitutionalShapes \in Seq(T)
    <2>1. PICK a, b, c : ConstitutionalShapes = <<a, b, c>>
      BY DEF ConstitutionalShapes
    <2>2. <<a, b, c>> \in Seq({a, b, c})
      OBVIOUS
    <2> QED
      BY <2>1, <2>2
  <1>3. PICK U : ConstitutionalShapes \in Seq(U) /\ MoreShapes \in Seq(U)
    <2>1. ConstitutionalShapes \in Seq(T \cup S) /\ MoreShapes \in Seq(T \cup S)
      BY <1>1, <1>2
    <2> QED
      BY <2>1
  <1>n. PICK n \in Nat : n = Len(MoreShapes)
    BY <1>1, LenProperties
  <1>4. /\ Len(AllShapes) = 3 + n
        /\ \A i \in 1 .. 3 + n : AllShapes[i] = IF i <= 3 THEN ConstitutionalShapes[i]
                                                  ELSE MoreShapes[i - 3]
    <2>1. Len(ConstitutionalShapes) = 3
      BY ConstitutionTyped
    <2>2. PICK c \in Seq(U), d \in Seq(U) : c = ConstitutionalShapes /\ d = MoreShapes
      BY <1>3
    <2>3. /\ Len(c \o d) = Len(c) + Len(d)
          /\ \A i \in 1 .. Len(c) + Len(d) :
               (c \o d)[i] = IF i <= Len(c) THEN c[i] ELSE d[i - Len(c)]
      BY ConcatProperties
    <2> QED
      BY <1>n, <2>1, <2>2, <2>3 DEF AllShapes
  <1> SUFFICES ASSUME NEW i \in 1 .. 3 + n PROVE ShapeTyped(AllShapes[i])
    BY <1>4
  <1>5. CASE i <= 3
    <2>1. i \in 1 .. 3
      BY <1>5
    <2> QED
      BY <1>4, <1>5, <2>1, ConstitutionTyped
  <1>6. CASE i > 3
    <2>1. PICK j \in 1 .. n : j = i - 3
      BY <1>6
    <2>2. AllShapes[i] = MoreShapes[j]
      BY <1>4, <1>6, <2>1
    <2> QED
      BY <1>1, <1>n, <2>2
  <1> QED
    BY <1>5, <1>6

Row == [Preds -> Seq(Value)]

LEMMA ReadTyped ==
  ASSUME NEW form, NEW vs \in Seq(Value)
  PROVE  Read(form, vs) \in Seq(Value) /\ (Read(form, vs) = <<>> <=> vs = <<>>)
  <1>n. PICK n \in Nat : n = Len(vs)
    BY LenProperties
  <1> DEFINE e(i) == IF form = "json-ld" /\ IsReference(vs[i]) THEN Text(vs[i][2]) ELSE vs[i]
  <1>1. \A i \in 1 .. n : e(i) \in Value
    <2> SUFFICES ASSUME NEW i \in 1 .. n PROVE e(i) \in Value
      OBVIOUS
    <2>1. vs[i] \in Value
      BY <1>n, ElementOfSeq
    <2>2. Text(vs[i][2]) \in Value
      BY <2>1 DEF Text, Value, Types
    <2> QED
      BY <2>1, <2>2
  <1>2. Read(form, vs) = [i \in 1 .. n |-> e(i)]
    BY <1>n DEF Read
  <1> HIDE DEF e
  <1>3. Read(form, vs) \in [1 .. n -> Value]
    BY <1>1, <1>2
  <1>4. Read(form, vs) \in Seq(Value) /\ Len(Read(form, vs)) = n
    BY <1>3, SeqDef, LenProperties
  <1> QED
    BY <1>n, <1>4, EmptySeq

\* What add() does to a graph.
LEMMA AddEffect ==
  ASSUME NEW g, \A m \in DOMAIN g : g[m] \in Row, NEW n, NEW props \in Row
  PROVE  /\ (\A p \in Preds : props[p] = <<>>) => Add(g, n, props) = g
         /\ (\E p \in Preds : props[p] # <<>>) =>
              /\ DOMAIN Add(g, n, props) = DOMAIN g \cup {n}
              /\ \A m \in DOMAIN g : m # n => Add(g, n, props)[m] = g[m]
              /\ Add(g, n, props)[n] \in Row
              /\ \E p \in Preds : Add(g, n, props)[n][p] # <<>>
              /\ n \notin DOMAIN g => Add(g, n, props)[n] = props
  <1>1. (\A p \in Preds : props[p] = <<>>) => Add(g, n, props) = g
    BY DEF Add
  <1>2. ASSUME \E p \in Preds : props[p] # <<>>
        PROVE  /\ DOMAIN Add(g, n, props) = DOMAIN g \cup {n}
               /\ \A m \in DOMAIN g : m # n => Add(g, n, props)[m] = g[m]
               /\ Add(g, n, props)[n] \in Row
               /\ \E p \in Preds : Add(g, n, props)[n][p] # <<>>
               /\ n \notin DOMAIN g => Add(g, n, props)[n] = props
    <2> DEFINE row(m) == [p \in Preds |-> IF m = n THEN Get(g, n, p) \o props[p] ELSE g[m][p]]
               all == DOMAIN g \cup {n}
    <2>1. Add(g, n, props) = [m \in all |-> row(m)]
      BY <1>2 DEF Add
    <2>2. row(n) = [p \in Preds |-> Get(g, n, p) \o props[p]]
      OBVIOUS
    <2>3. \A m \in DOMAIN g : m # n => row(m) = g[m]
      BY DEF Row
    <2> HIDE DEF row, all
    <2>4. /\ DOMAIN Add(g, n, props) = all
          /\ \A m \in all : Add(g, n, props)[m] = row(m)
      BY <2>1
    <2>5. n \in all /\ DOMAIN g \subseteq all
      BY DEF all
    <2>6. \A p \in Preds : Get(g, n, p) \in Seq(Value) /\ props[p] \in Seq(Value)
      BY EmptySeq DEF Get, Row
    <2>7. \A p \in Preds : /\ Get(g, n, p) \o props[p] \in Seq(Value)
                           /\ props[p] # <<>> => Get(g, n, p) \o props[p] # <<>>
      <3> SUFFICES ASSUME NEW p \in Preds
                   PROVE  /\ Get(g, n, p) \o props[p] \in Seq(Value)
                          /\ props[p] # <<>> => Get(g, n, p) \o props[p] # <<>>
        OBVIOUS
      <3>1. PICK s \in Seq(Value), t \in Seq(Value) : s = Get(g, n, p) /\ t = props[p]
        BY <2>6
      <3>2. s \o t \in Seq(Value) /\ Len(s \o t) = Len(s) + Len(t)
        BY ConcatProperties
      <3>3. t # <<>> => Len(s \o t) # 0
        BY <3>2, EmptySeq, LenProperties
      <3> QED
        BY <3>1, <3>2, <3>3, EmptySeq
    <2>8. row(n) \in Row /\ \E p \in Preds : row(n)[p] # <<>>
      BY <1>2, <2>2, <2>7 DEF Row
    <2>9. ASSUME n \notin DOMAIN g
          PROVE  row(n) = props
      <3>1. \A p \in Preds : Get(g, n, p) \o props[p] = props[p]
        BY <2>6, <2>9, ConcatEmptySeq DEF Get
      <3> QED
        BY <2>2, <3>1 DEF Row
    <2> QED
      BY <2>3, <2>4, <2>5, <2>8, <2>9 DEF all
  <1> QED
    BY <1>1, <1>2

TypeInv == TypeOK /\ IsFiniteSet(DOMAIN graph) /\ Cardinality(DOMAIN graph) <= at

LEMMA InitTyped == Init => TypeInv
  <1> SUFFICES ASSUME Init PROVE TypeInv
    OBVIOUS
  <1>1. graph = <<>> /\ DOMAIN <<>> = {} /\ at = 0 /\ todo = {} /\ found = {}
    BY DEF Init
  <1>2. IsFiniteSet(DOMAIN graph) /\ Cardinality(DOMAIN graph) = 0
    BY <1>1, FS_EmptySet
  <1> QED
    BY <1>1, <1>2 DEF Init, TypeInv, TypeOK

\* A node is added under a name the typing knows.
LEMMA AddTyped ==
  ASSUME TypeInv, NEW n, NEW props \in Row, graph' = Add(graph, n, props), at' = at + 1,
         n \in Ids \cup {Self} \cup {Blank(k) : k \in 0 .. at},
         UNCHANGED <<input, todo, found, stage>>
  PROVE  TypeInv'
  <1>t. TypeOK /\ at \in Nat /\ at' \in Nat
    BY DEF TypeInv, TypeOK
  <1>0. GraphNodes \subseteq GraphNodes' /\ n \in GraphNodes'
    <2>1. \A k \in 0 .. at : k \in 0 .. at + 1
      BY <1>t
    <2> QED
      BY <2>1, <1>t DEF GraphNodes, Blank
  <1>1. \A m \in DOMAIN graph : graph[m] \in Row
    BY <1>t DEF TypeOK, Row
  <1>2. DOMAIN graph \subseteq GraphNodes
    BY <1>t DEF TypeOK
  <1>3. /\ DOMAIN graph' \subseteq GraphNodes'
        /\ \A m \in DOMAIN graph' : /\ graph'[m] \in [Preds -> Seq(Value)]
                                    /\ \E p \in Preds : graph'[m][p] # <<>>
        /\ IsFiniteSet(DOMAIN graph') /\ Cardinality(DOMAIN graph') <= at + 1
    <2>c. Cardinality(DOMAIN graph) \in Nat /\ Cardinality(DOMAIN graph) <= at
          /\ IsFiniteSet(DOMAIN graph)
      BY FS_CardinalityType DEF TypeInv
    <2>g. PICK g : g = graph
      OBVIOUS
    <2>e. /\ (\A p \in Preds : props[p] = <<>>) => Add(g, n, props) = g
          /\ (\E p \in Preds : props[p] # <<>>) =>
               /\ DOMAIN Add(g, n, props) = DOMAIN g \cup {n}
               /\ \A m \in DOMAIN g : m # n => Add(g, n, props)[m] = g[m]
               /\ Add(g, n, props)[n] \in Row
               /\ \E p \in Preds : Add(g, n, props)[n][p] # <<>>
               /\ n \notin DOMAIN g => Add(g, n, props)[n] = props
      <3>1. \A m \in DOMAIN g : g[m] \in Row
        BY <1>1, <2>g
      <3> QED
        BY <3>1, AddEffect, Zenon
    <2>1. CASE \A p \in Preds : props[p] = <<>>
      <3>1. graph' = graph
        BY <2>1, <2>e, <2>g
      <3> QED
        BY <3>1, <1>t, <1>0, <1>2, <2>c DEF TypeOK
    <2>2. CASE \E p \in Preds : props[p] # <<>>
      <3>1. /\ DOMAIN graph' = DOMAIN graph \cup {n}
            /\ \A m \in DOMAIN graph : m # n => graph'[m] = graph[m]
            /\ graph'[n] \in Row
            /\ \E p \in Preds : graph'[n][p] # <<>>
        BY <2>2, <2>e, <2>g
      <3>2. ASSUME NEW m \in DOMAIN graph'
            PROVE  /\ graph'[m] \in [Preds -> Seq(Value)]
                   /\ \E p \in Preds : graph'[m][p] # <<>>
        <4>1. CASE m = n
          BY <3>1, <4>1 DEF Row
        <4>2. CASE m # n
          <5>1. m \in DOMAIN graph /\ graph'[m] = graph[m]
            BY <3>1, <3>2, <4>2
          <5> QED
            BY <5>1, <1>t DEF TypeOK
        <4> QED
          BY <4>1, <4>2
      <3>3. /\ IsFiniteSet(DOMAIN graph \cup {n})
            /\ \/ Cardinality(DOMAIN graph \cup {n}) = Cardinality(DOMAIN graph)
               \/ Cardinality(DOMAIN graph \cup {n}) = Cardinality(DOMAIN graph) + 1
        BY <2>c, FS_AddElement
      <3> QED
        BY <3>1, <3>2, <3>3, <1>0, <1>2, <1>t, <2>c
    <2> QED
      BY <2>1, <2>2
  <1>4. todo' \subseteq (1 .. Len(AllShapes)) \X GraphNodes'
    <2>1. todo \subseteq (1 .. Len(AllShapes)) \X GraphNodes
      BY <1>t DEF TypeOK
    <2> QED
      BY <2>1, <1>0
  <1>5. found' \subseteq [node : GraphNodes', shape : 1 .. Len(AllShapes), path : Preds,
                          kind : Constraints \cup {"closed"}] \cup {NoShape}
    <2>1. found \subseteq [node : GraphNodes, shape : 1 .. Len(AllShapes), path : Preds,
                           kind : Constraints \cup {"closed"}] \cup {NoShape}
      BY <1>t DEF TypeOK
    <2> QED
      BY <2>1, <1>0
  <1>6. input' \in Submission /\ stage' \in {"building", "checking", "reported", "raised"}
    BY <1>t DEF TypeOK
  <1> QED
    BY <1>t, <1>3, <1>4, <1>5, <1>6 DEF TypeInv, TypeOK

\* What the three kinds of submission consist of.
LEMMA InputTyped ==
  ASSUME TypeOK
  PROVE  /\ input.form = "document" =>
              /\ input.doc \in Documents /\ input.doc.nodes \in Seq(Node)
              /\ \A i \in 1 .. Len(input.doc.nodes) :
                   /\ input.doc.nodes[i].id \in Ids \cup {Anonymous}
                   /\ input.doc.nodes[i].props \in Row
         /\ input.form = "package" => PackageProps(input.package) \in Row
         /\ input.form = "result" => input.status \in Texts
  <1>1. input \in Submission
    BY DEF TypeOK
  <1>2. ASSUME input.form = "document"
        PROVE  /\ input.doc \in Documents /\ input.doc.nodes \in Seq(Node)
               /\ \A i \in 1 .. Len(input.doc.nodes) :
                    /\ input.doc.nodes[i].id \in Ids \cup {Anonymous}
                    /\ input.doc.nodes[i].props \in Row
    <2>1. input.doc \in Documents
      BY <1>1, <1>2 DEF Submission
    <2>2. input.doc.nodes \in Seq(Node)
      BY <2>1, DocumentAssumption
    <2>3. \A i \in 1 .. Len(input.doc.nodes) : input.doc.nodes[i] \in Node
      BY <2>2, ElementOfSeq
    <2> QED
      BY <2>1, <2>2, <2>3 DEF Node, Row
  <1>3. ASSUME input.form = "package"
        PROVE  PackageProps(input.package) \in Row
    <2>1. input.package \in Packages
      BY <1>1, <1>3 DEF Submission
    <2>2. input.package.dimension \in Value
      BY <2>1, PackageAssumption DEF Package
    <2>k. PICK k : k = input.package
      OBVIOUS
    <2>3. IntOf(k.dimension) \in Texts
      BY <2>2, <2>k, TextAssumption
    <2>4. /\ Text("seem:SkillPackage") \in Value /\ True \in Value /\ False \in Value
          /\ <<"int", IntOf(k.dimension)>> \in Value
      BY <2>3, TextAssumption DEF Text, True, False, Value, Types
    <2>5. \A v \in Value : <<v>> \in Seq(Value)
      OBVIOUS
    <2>6. <<>> \in Seq(Value)
      BY EmptySeq
    <2> QED
      BY <2>4, <2>5, <2>6, <2>k DEF PackageProps, Row
  <1>4. ASSUME input.form = "result"
        PROVE  input.status \in Texts
    BY <1>1, <1>4, TextAssumption DEF Submission
  <1> QED
    BY <1>2, <1>3, <1>4

LEMMA TargetsTyped ==
  ASSUME TypeOK, NEW i \in 1 .. Len(AllShapes)
  PROVE  Targets(graph, AllShapes[i]) \subseteq GraphNodes
  <1>1. ShapeTyped(AllShapes[i])
    BY AllShapesTyped
  <1>2. DOMAIN graph \subseteq GraphNodes /\ Ids \subseteq GraphNodes
    BY DEF TypeOK, GraphNodes
  <1> QED
    BY <1>1, <1>2 DEF Targets, ShapeTyped

LEMMA ViolationsTyped ==
  ASSUME NEW i \in 1 .. Len(AllShapes), NEW n, NEW N, n \in N
  PROVE  Violations(graph, n, i) \subseteq
           [node : N, shape : 1 .. Len(AllShapes), path : Preds,
            kind : Constraints \cup {"closed"}]
  <1>s. PICK shape : shape = AllShapes[i]
    OBVIOUS
  <1> DEFINE cs == {shape.properties[j] : j \in 1 .. Len(shape.properties)}
             of(c) == {[node |-> n, shape |-> i, path |-> c.path, kind |-> w] :
                         w \in Wrong(c, Get(graph, n, c.path))}
             R == [node : N, shape : 1 .. Len(AllShapes), path : Preds,
                   kind : Constraints \cup {"closed"}]
  <1>1. \A c \in cs : c.path \in Preds
    BY <1>s, AllShapesTyped DEF ShapeTyped
  <1>2. \A c \in cs : of(c) \subseteq R
    <2>1. \A c : Wrong(c, Get(graph, n, c.path)) \subseteq Constraints
      BY DEF Wrong
    <2> QED
      BY <1>1, <2>1
  <1>3. {[node |-> n, shape |-> i, path |-> p, kind |-> "closed"] : p \in Unexpected(graph, n, shape)}
          \subseteq R
    <2>1. Unexpected(graph, n, shape) \subseteq Preds
      BY DEF Unexpected
    <2> QED
      BY <2>1
  <1>4. Violations(graph, n, i) =
          {[node |-> n, shape |-> i, path |-> p, kind |-> "closed"] : p \in Unexpected(graph, n, shape)}
            \cup UNION {of(c) : c \in cs}
    BY <1>s DEF Violations
  <1> HIDE DEF R, of, cs
  <1>5. UNION {of(c) : c \in cs} \subseteq R
    BY <1>2
  <1>6. Violations(graph, n, i) \subseteq R
    BY <1>3, <1>4, <1>5
  <1> QED
    BY <1>6 DEF R

LEMMA StepTyped ==
  ASSUME TypeInv, [Next]_vars
  PROVE  TypeInv'
  <1>t. TypeOK /\ at \in Nat /\ IsFiniteSet(DOMAIN graph) /\ Cardinality(DOMAIN graph) <= at
        /\ Cardinality(DOMAIN graph) \in Nat
    BY FS_CardinalityType DEF TypeInv, TypeOK
  <1>1. CASE AddNode
    <2>i. PICK i \in 1 .. Len(input.doc.nodes) : i = at + 1
      <3>1. Len(input.doc.nodes) \in Nat
        BY <1>1, <1>t, InputTyped, LenProperties DEF AddNode
      <3> QED
        BY <1>1, <1>t, <3>1 DEF AddNode
    <2>n. PICK node : node = input.doc.nodes[i]
      OBVIOUS
    <2>1. node.id \in Ids \cup {Anonymous} /\ node.props \in Row
      BY <1>1, <1>t, <2>n, InputTyped DEF AddNode
    <2>p. PICK props : props = [p \in Preds |-> Read(input.doc.form, node.props[p])]
      OBVIOUS
    <2>2. props \in Row
      BY <2>1, <2>p, ReadTyped DEF Row
    <2>3. NameOf(graph, node) \in Ids \cup {Self} \cup {Blank(k) : k \in 0 .. at}
      <3>1. Cardinality(DOMAIN graph) \in 0 .. at
        BY <1>t
      <3> QED
        BY <2>1, <3>1 DEF NameOf, FreshName
    <2>4. graph' = Add(graph, NameOf(graph, node), props)
      BY <1>1, <2>i, <2>n, <2>p DEF AddNode
    <2> QED
      BY <1>1, <2>2, <2>3, <2>4, AddTyped DEF AddNode
  <1>2. CASE AddPackage
    <2>1. PackageProps(input.package) \in Row
      BY <1>2, <1>t, InputTyped DEF AddPackage
    <2>2. graph' = Add(graph, Self, PackageProps(input.package)) /\ at' = at + 1
          /\ UNCHANGED <<input, todo, found, stage>>
      BY <1>2 DEF AddPackage
    <2> QED
      BY <2>1, <2>2, AddTyped
  <1>3. CASE AddResult
    <2>p. PICK props : props = [p \in Preds |->
                                  CASE p = "type" -> <<Text("seem:SkillGateResult")>>
                                    [] p = "status" -> <<Text(input.status)>>
                                    [] OTHER -> <<>>]
      OBVIOUS
    <2>1. Text("seem:SkillGateResult") \in Value /\ Text(input.status) \in Value
      <3>1. input.status \in Texts
        BY <1>3, <1>t, InputTyped DEF AddResult
      <3> QED
        BY <3>1, TextAssumption DEF Text, Value, Types
    <2>2. \A v \in Value : <<v>> \in Seq(Value)
      OBVIOUS
    <2>3. <<>> \in Seq(Value)
      BY EmptySeq
    <2>4. props \in Row
      BY <2>p, <2>1, <2>2, <2>3 DEF Row
    <2>5. graph' = Add(graph, Self, props) /\ at' = at + 1 /\ UNCHANGED <<input, todo, found, stage>>
      BY <1>3, <2>p DEF AddResult
    <2> QED
      BY <2>4, <2>5, AddTyped
  <1>4. CASE Select
    <2>1. /\ todo' = UNION {{i} \X Targets(graph, AllShapes[i]) : i \in Selected(input.shape)}
          /\ stage' = "checking" /\ UNCHANGED <<input, at, graph, found>>
      BY <1>4 DEF Select
    <2>2. \A i \in Selected(input.shape) :
            i \in 1 .. Len(AllShapes) /\ Targets(graph, AllShapes[i]) \subseteq GraphNodes
      BY <1>t, TargetsTyped DEF Selected
    <2>3. todo' \subseteq (1 .. Len(AllShapes)) \X GraphNodes
      BY <2>1, <2>2
    <2> QED
      BY <1>t, <2>1, <2>3 DEF TypeInv, TypeOK, GraphNodes
  <1>5. CASE RefusePackage \/ UnknownShape \/ Report \/ UNCHANGED vars
    <2>1. /\ UNCHANGED <<input, at, graph, todo>> /\ (UNCHANGED found \/ found' = {NoShape})
          /\ stage' \in {"building", "checking", "reported", "raised"}
      BY <1>5, <1>t DEF RefusePackage, UnknownShape, Report, vars, TypeOK
    <2> QED
      BY <1>t, <2>1 DEF TypeInv, TypeOK, GraphNodes
  <1>6. ASSUME NEW pair \in todo, Check(pair[1], pair[2])
        PROVE  TypeInv'
    <2>1. PICK i \in 1 .. Len(AllShapes), n \in GraphNodes : i = pair[1] /\ n = pair[2]
      BY <1>t DEF TypeOK
    <2>2. /\ UNCHANGED <<input, at, graph>> /\ todo' \subseteq todo
          /\ UNCHANGED found \/ found' = found \cup Violations(graph, n, i)
          /\ stage' \in {"building", "checking", "reported", "raised"}
      BY <1>6, <1>t, <2>1 DEF Check, TypeOK
    <2>3. Violations(graph, n, i) \subseteq
            [node : GraphNodes, shape : 1 .. Len(AllShapes), path : Preds,
             kind : Constraints \cup {"closed"}]
      BY ViolationsTyped
    <2>4. found' \subseteq [node : GraphNodes, shape : 1 .. Len(AllShapes), path : Preds,
                            kind : Constraints \cup {"closed"}] \cup {NoShape}
      BY <1>t, <2>2, <2>3 DEF TypeOK
    <2> QED
      BY <1>t, <2>2, <2>4 DEF TypeInv, TypeOK, GraphNodes
  <1> QED
    BY <1>1, <1>2, <1>3, <1>4, <1>5, <1>6 DEF Next

(***************************************************************************)
(* The graph of a submission has rows of values under the names of its     *)
(* nodes, and a violation names a node, a shape and a predicate.           *)
(***************************************************************************)
THEOREM ShapesTyped == Spec => []TypeOK
  <1>1. TypeInv => TypeOK
    BY DEF TypeInv
  <1> QED
    BY <1>1, InitTyped, StepTyped, PTL DEF Spec
-----------------------------------------------------------------------------
(***************************************************************************)
(* The verdict on a document.  Stands says that a node of the graph stands *)
(* for the i-th node of the document: it is called as that one is and has  *)
(* its row.  Every node that says something stands in the graph, nothing   *)
(* else does, and the graph has as many nodes as say something, so the     *)
(* next anonymous node gets the name it is called by, and the focus nodes  *)
(* of a shape are the nodes it targets.                                    *)
(***************************************************************************)
RowOf(doc, i) == [p \in Preds |-> Read(doc.form, doc.nodes[i].props[p])]

Stands(g, doc, i, m) ==
  /\ i \in Telling(doc.nodes)
  /\ m = Called(doc.nodes, i)
  /\ g[m] = RowOf(doc, i)

Tells(g, doc, n) ==
  /\ Cardinality(DOMAIN g) = Cardinality(Before(doc.nodes, n + 1))
  /\ \A i \in Before(doc.nodes, n + 1) : \E m \in DOMAIN g : Stands(g, doc, i, m)
  /\ \A m \in DOMAIN g : \E i \in Before(doc.nodes, n + 1) : Stands(g, doc, i, m)

LEMMA WrongOrHolds ==
  ASSUME NEW vs \in Seq(Value), NEW c,
         Has(c, "minCount") => c.minCount \in Int,
         Has(c, "maxCount") => c.maxCount \in Int
  PROVE  Wrong(c, vs) = {} <=> Holds(c, vs)
  <1>n. PICK n \in Nat : n = Len(vs)
    BY LenProperties
  <1>1. "minCount" \in Wrong(c, vs) <=> ~(Has(c, "minCount") => n >= c.minCount)
    BY <1>n DEF Wrong, Constraints
  <1>2. "maxCount" \in Wrong(c, vs) <=> ~(Has(c, "maxCount") => n <= c.maxCount)
    BY <1>n DEF Wrong, Constraints
  <1>3. "in" \in Wrong(c, vs)
          <=> ~(Has(c, "in") => \A i \in 1 .. n : \E a \in c.in : Equal(vs[i], a))
    BY <1>n DEF Wrong, Constraints
  <1>4. "hasValue" \in Wrong(c, vs)
          <=> ~(Has(c, "hasValue") => \E i \in 1 .. n : Equal(vs[i], c.hasValue))
    <2>1. \A a, b : Equal(a, b) <=> Equal(b, a)
      BY DEF Equal
    <2>2. "hasValue" \in Wrong(c, vs) <=> Has(c, "hasValue") /\ ~Among(c.hasValue, vs)
      BY DEF Wrong, Constraints
    <2>3. Among(c.hasValue, vs) <=> \E i \in 1 .. n : Equal(vs[i], c.hasValue)
      BY <1>n, <2>1 DEF Among
    <2> QED
      BY <2>2, <2>3
  <1>5. "datatype" \in Wrong(c, vs)
          <=> ~(Has(c, "datatype") => \A i \in 1 .. n : vs[i][1] \in c.datatype)
    BY <1>n DEF Wrong, Constraints
  <1>6. "pattern" \in Wrong(c, vs)
          <=> ~(Has(c, "pattern") => \A i \in 1 .. n : vs[i][2] \in c.pattern)
    BY <1>n DEF Wrong, Constraints
  <1>7. Wrong(c, vs) = {} <=>
          /\ "minCount" \notin Wrong(c, vs) /\ "maxCount" \notin Wrong(c, vs)
          /\ "in" \notin Wrong(c, vs) /\ "hasValue" \notin Wrong(c, vs)
          /\ "datatype" \notin Wrong(c, vs) /\ "pattern" \notin Wrong(c, vs)
    <2>1. Wrong(c, vs) \subseteq
            {"minCount", "maxCount", "in", "hasValue", "datatype", "pattern"}
      BY DEF Wrong, Constraints
    <2> QED
      BY <2>1
  <1>8. Holds(c, vs) <=>
          /\ Has(c, "minCount") => n >= c.minCount
          /\ Has(c, "maxCount") => n <= c.maxCount
          /\ Has(c, "in") => \A i \in 1 .. n : \E a \in c.in : Equal(vs[i], a)
          /\ Has(c, "hasValue") => \E i \in 1 .. n : Equal(vs[i], c.hasValue)
          /\ Has(c, "datatype") => \A i \in 1 .. n : vs[i][1] \in c.datatype
          /\ Has(c, "pattern") => \A i \in 1 .. n : vs[i][2] \in c.pattern
    <2> DEFINE members == {vs[i] : i \in 1 .. n}
    <2>1. Holds(c, vs) <=>
          /\ Has(c, "minCount") => n >= c.minCount
          /\ Has(c, "maxCount") => n <= c.maxCount
          /\ Has(c, "in") => \A v \in members : \E a \in c.in : Equal(v, a)
          /\ Has(c, "hasValue") => \E v \in members : Equal(v, c.hasValue)
          /\ Has(c, "datatype") => \A v \in members : v[1] \in c.datatype
          /\ Has(c, "pattern") => \A v \in members : v[2] \in c.pattern
      BY <1>n DEF Holds
    <2>2. (\A v \in members : \E a \in c.in : Equal(v, a))
            <=> \A i \in 1 .. n : \E a \in c.in : Equal(vs[i], a)
      OBVIOUS
    <2>3. (\E v \in members : Equal(v, c.hasValue))
            <=> \E i \in 1 .. n : Equal(vs[i], c.hasValue)
      OBVIOUS
    <2>4. (\A v \in members : v[1] \in c.datatype) <=> \A i \in 1 .. n : vs[i][1] \in c.datatype
      OBVIOUS
    <2>5. (\A v \in members : v[2] \in c.pattern) <=> \A i \in 1 .. n : vs[i][2] \in c.pattern
      OBVIOUS
    <2> HIDE DEF members
    <2> QED
      BY <2>1, <2>2, <2>3, <2>4, <2>5
  <1> QED
    BY <1>1, <1>2, <1>3, <1>4, <1>5, <1>6, <1>7, <1>8

\* A focus node with the row of a node, and the node that satisfies the shape.
LEMMA CleanOrSatisfied ==
  ASSUME NEW i \in 1 .. Len(AllShapes), NEW g, NEW n, NEW form, NEW props \in Row,
         \A p \in Preds : Get(g, n, p) = Read(form, props[p]),
         n \in DOMAIN g \/ \A p \in Preds : props[p] = <<>>
  PROVE  Violations(g, n, i) = {} <=> Satisfies(form, props, AllShapes[i])
  <1>s. PICK shape : shape = AllShapes[i]
    OBVIOUS
  <1> DEFINE J == 1 .. Len(shape.properties)
             cs == {shape.properties[j] : j \in J}
             of(c) == {[node |-> n, shape |-> i, path |-> c.path, kind |-> w] :
                         w \in Wrong(c, Get(g, n, c.path))}
             un == {[node |-> n, shape |-> i, path |-> p, kind |-> "closed"] :
                      p \in Unexpected(g, n, shape)}
  <1>1. Violations(g, n, i) = un \cup UNION {of(c) : c \in cs}
    BY <1>s DEF Violations
  <1>2. un = {} <=> Unexpected(g, n, shape) = {}
    OBVIOUS
  <1>3. \A c : of(c) = {} <=> Wrong(c, Get(g, n, c.path)) = {}
    OBVIOUS
  <1>r. \A p \in Preds : /\ props[p] \in Seq(Value)
                         /\ Read(form, props[p]) \in Seq(Value)
                         /\ Read(form, props[p]) = <<>> <=> props[p] = <<>>
    BY ReadTyped DEF Row
  <1>4. ASSUME NEW j \in J
        PROVE  Wrong(shape.properties[j], Get(g, n, shape.properties[j].path)) = {}
                 <=> Holds(shape.properties[j], Read(form, props[shape.properties[j].path]))
    <2>c. PICK c : c = shape.properties[j]
      OBVIOUS
    <2>1. /\ c.path \in Preds
          /\ Has(c, "minCount") => c.minCount \in Int
          /\ Has(c, "maxCount") => c.maxCount \in Int
      BY <1>s, <2>c, AllShapesTyped DEF ShapeTyped
    <2>2. PICK vs \in Seq(Value) : vs = Read(form, props[c.path]) /\ vs = Get(g, n, c.path)
      BY <1>r, <2>1
    <2>3. Wrong(c, vs) = {} <=> Holds(c, vs)
      BY <2>1, WrongOrHolds
    <2> QED
      BY <2>c, <2>2, <2>3
  <1>5. Unexpected(g, n, shape) = {} <=>
          (Has(shape, "closed") =>
             \A p \in Preds : props[p] = <<>> \/ p \in Declared(shape) \cup shape.ignored \cup {"type"})
    <2>1. CASE n \in DOMAIN g
      <3>1. \A p \in Preds : g[n][p] = <<>> <=> props[p] = <<>>
        BY <1>r, <2>1 DEF Get
      <3> QED
        BY <2>1, <3>1 DEF Unexpected
    <2>2. CASE n \notin DOMAIN g
      BY <2>2 DEF Unexpected
    <2> QED
      BY <2>1, <2>2
  <1>6. (UNION {of(c) : c \in cs} = {}) <=> \A j \in J : of(shape.properties[j]) = {}
    <2> HIDE DEF of, J
    <2> QED
      OBVIOUS
  <1>7. Satisfies(form, props, shape) <=>
          /\ \A j \in J :
               Holds(shape.properties[j], Read(form, props[shape.properties[j].path]))
          /\ Has(shape, "closed") =>
               \A p \in Preds :
                 props[p] = <<>> \/ p \in Declared(shape) \cup shape.ignored \cup {"type"}
    BY DEF Satisfies
  <1> HIDE DEF of, cs, un, J
  <1>8. Violations(g, n, i) = {} <=>
          Unexpected(g, n, shape) = {} /\ \A j \in J : of(shape.properties[j]) = {}
    BY <1>1, <1>2, <1>6
  <1> QED
    BY <1>s, <1>3, <1>4, <1>5, <1>7, <1>8

\* The focus nodes of a shape are clean when the nodes it targets satisfy it.
LEMMA CleanOrConforms ==
  ASSUME NEW doc, NEW n \in Nat, n = Len(doc.nodes), Apart(doc.nodes),
         \A i \in 1 .. n : doc.nodes[i].props \in Row,
         NEW g, Tells(g, doc, n), NEW s \in 1 .. Len(AllShapes)
  PROVE  (\A m \in Targets(g, AllShapes[s]) : Violations(g, m, s) = {})
           <=> Conforms(doc, AllShapes[s])
  <1>s. PICK shape : shape = AllShapes[s]
    OBVIOUS
  <1>f. PICK form : form = doc.form
    OBVIOUS
  <1>t. PICK T : T = Telling(doc.nodes)
    OBVIOUS
  <1>n. /\ T \subseteq 1 .. n /\ \A i \in T : Says(doc.nodes[i])
        /\ Before(doc.nodes, n + 1) = T
    BY <1>t DEF Telling, Before
  <1>0. /\ \A i \in T : \E m \in DOMAIN g : Stands(g, doc, i, m)
        /\ \A m \in DOMAIN g : \E i \in T : Stands(g, doc, i, m)
    BY <1>n DEF Tells
  <1>1. ASSUME NEW i \in T, NEW m \in DOMAIN g, Stands(g, doc, i, m)
        PROVE  /\ Violations(g, m, s) = {} <=> Satisfies(form, doc.nodes[i].props, shape)
               /\ g[m]["type"] = Read(form, doc.nodes[i].props["type"])
    <2>p. PICK props \in Row : props = doc.nodes[i].props
      BY <1>n
    <2>1. \A p \in Preds : g[m][p] = Read(form, props[p])
      BY <1>1, <1>f, <2>p DEF Stands, RowOf
    <2>2. \A p \in Preds : Get(g, m, p) = Read(form, props[p])
      BY <2>1 DEF Get
    <2>3. Violations(g, m, s) = {} <=> Satisfies(form, props, AllShapes[s])
      BY <2>2, CleanOrSatisfied
    <2> QED
      BY <1>s, <2>p, <2>1, <2>3, PredAssumption
  <1> DEFINE aims == Targeted(doc, shape)
             E == [p \in Preds |-> <<>>]
  <1>2. aims \subseteq T
    BY <1>t DEF Targeted
  <1>3. Conforms(doc, shape) <=>
          /\ \A i \in aims : Satisfies(form, doc.nodes[i].props, shape)
          /\ Has(shape, "targetNode") /\ aims = {} => Satisfies(form, E, shape)
    BY <1>f DEF Conforms
  <1>4. ASSUME NEW i \in T, NEW m \in DOMAIN g, Stands(g, doc, i, m)
        PROVE  m \in Targets(g, shape) <=> i \in aims
    <2>1. CASE ~Has(shape, "targetNode")
      BY <1>1, <1>4, <1>f, <1>t, <2>1 DEF Targets, Targeted
    <2>2. CASE Has(shape, "targetNode")
      <3>1. Targets(g, shape) = {shape.targetNode} /\ m = Called(doc.nodes, i)
        BY <1>4, <2>2 DEF Targets, Stands
      <3>2. i \in aims <=> Called(doc.nodes, i) = shape.targetNode
        BY <1>t, <2>2 DEF Targeted
      <3> QED
        BY <3>1, <3>2
    <2> QED
      BY <2>1, <2>2
  <1>5. \A m \in Targets(g, shape) :
          m \in DOMAIN g \/ (Has(shape, "targetNode") /\ m = shape.targetNode)
    BY DEF Targets
  <1>6. CASE Has(shape, "targetNode") /\ shape.targetNode \notin DOMAIN g
    <2>t. PICK t : t = shape.targetNode
      OBVIOUS
    <2>1. Targets(g, shape) = {t}
      BY <1>6, <2>t DEF Targets
    <2>2. aims = {}
      <3> SUFFICES ASSUME NEW i \in aims PROVE FALSE
        OBVIOUS
      <3>1. PICK m \in DOMAIN g : Stands(g, doc, i, m)
        BY <1>0, <1>2
      <3>2. m = shape.targetNode
        BY <1>6, <3>1 DEF Targeted, Stands
      <3> QED
        BY <1>6, <3>2
    <2>3. E \in Row /\ \A p \in Preds : E[p] = <<>>
      BY EmptySeq DEF Row
    <2> HIDE DEF E, aims
    <2>4. \A p \in Preds : Get(g, t, p) = Read(form, E[p])
      <3>1. Read(form, <<>>) = <<>>
        BY ReadTyped, EmptySeq
      <3> QED
        BY <1>6, <2>t, <2>3, <3>1 DEF Get
    <2>5. Violations(g, t, s) = {} <=> Satisfies(form, E, AllShapes[s])
      BY <2>3, <2>4, CleanOrSatisfied
    <2> QED
      BY <1>s, <1>3, <1>6, <2>1, <2>2, <2>5
  <1>7. CASE ~Has(shape, "targetNode") \/ shape.targetNode \in DOMAIN g
    <2>1. Targets(g, shape) \subseteq DOMAIN g
      BY <1>5, <1>7
    <2>2. Has(shape, "targetNode") => aims # {}
      <3> SUFFICES ASSUME Has(shape, "targetNode") PROVE aims # {}
        OBVIOUS
      <3>1. PICK i \in T : Stands(g, doc, i, shape.targetNode)
        BY <1>0, <1>7
      <3>2. shape.targetNode \in Targets(g, shape)
        BY DEF Targets
      <3> QED
        BY <1>4, <1>7, <3>1, <3>2
    <2>3. ASSUME \A m \in Targets(g, shape) : Violations(g, m, s) = {}, NEW i \in aims
          PROVE  Satisfies(form, doc.nodes[i].props, shape)
      <3>1. PICK m \in DOMAIN g : Stands(g, doc, i, m)
        BY <1>0, <1>2
      <3>2. m \in Targets(g, shape) /\ i \in T
        BY <1>2, <1>4, <3>1
      <3> QED
        BY <1>1, <2>3, <3>1, <3>2
    <2>4. ASSUME \A i \in aims : Satisfies(form, doc.nodes[i].props, shape),
                 NEW m \in Targets(g, shape)
          PROVE  Violations(g, m, s) = {}
      <3>1. PICK i \in T : Stands(g, doc, i, m)
        BY <1>0, <2>1
      <3>2. i \in aims
        BY <1>4, <2>1, <3>1
      <3> QED
        BY <1>1, <2>1, <2>4, <3>1, <3>2
    <2> HIDE DEF aims, E
    <2> QED
      BY <1>s, <1>3, <2>2, <2>3, <2>4
  <1> QED
    BY <1>6, <1>7

\* One more node is read: those that say something, up to it.
LEMMA OneMoreBefore ==
  ASSUME NEW nodes, NEW l \in Nat, l = Len(nodes), NEW n \in Nat, n < l
  PROVE  /\ IsFiniteSet(Before(nodes, n + 1))
         /\ Before(nodes, (n + 1) + 1) =
              Before(nodes, n + 1) \cup (IF Says(nodes[n + 1]) THEN {n + 1} ELSE {})
         /\ n + 1 \notin Before(nodes, n + 1)
  <1>1. Before(nodes, n + 1) \subseteq 1 .. n
    BY DEF Before, Telling
  <1>2. IsFiniteSet(1 .. n)
    BY FS_Interval
  <1>3. IsFiniteSet(Before(nodes, n + 1))
    BY <1>1, <1>2, FS_Subset
  <1>4. \A j \in 1 .. l : j < (n + 1) + 1 <=> j < n + 1 \/ j = n + 1
    OBVIOUS
  <1>5. n + 1 \in 1 .. l /\ ~(n + 1 < n + 1)
    OBVIOUS
  <1>6. Before(nodes, (n + 1) + 1) =
          Before(nodes, n + 1) \cup (IF Says(nodes[n + 1]) THEN {n + 1} ELSE {})
    BY <1>4, <1>5 DEF Before, Telling
  <1> QED
    BY <1>3, <1>5, <1>6 DEF Before

\* A node that is added stands under the name it is called by, which no
\* node of the graph has yet.
LEMMA TellsOneMore ==
  ASSUME NEW doc, NEW l \in Nat, l = Len(doc.nodes), NEW n \in Nat, n < l,
         Apart(doc.nodes), doc.nodes[n + 1].props \in Row,
         NEW g, \A m \in DOMAIN g : g[m] \in Row,
         IsFiniteSet(DOMAIN g), Tells(g, doc, n),
         NEW h, h = Add(g, NameOf(g, doc.nodes[n + 1]), RowOf(doc, n + 1))
  PROVE  Tells(h, doc, n + 1)
  <1>i. PICK i \in 1 .. l : i = n + 1
    OBVIOUS
  <1>b. PICK B : B = Before(doc.nodes, i)
    OBVIOUS
  <1>a. PICK A : A = Before(doc.nodes, i + 1)
    OBVIOUS
  <1>c. /\ IsFiniteSet(B) /\ i \notin B /\ B \subseteq Telling(doc.nodes)
        /\ A = B \cup (IF Says(doc.nodes[i]) THEN {i} ELSE {})
    <2>1. /\ IsFiniteSet(Before(doc.nodes, n + 1)) /\ n + 1 \notin Before(doc.nodes, n + 1)
          /\ Before(doc.nodes, (n + 1) + 1) =
               Before(doc.nodes, n + 1) \cup (IF Says(doc.nodes[n + 1]) THEN {n + 1} ELSE {})
      BY OneMoreBefore
    <2>2. Before(doc.nodes, i) \subseteq Telling(doc.nodes)
      BY DEF Before
    <2> QED
      BY <1>a, <1>b, <1>i, <2>1, <2>2
  <1>t. /\ Cardinality(DOMAIN g) = Cardinality(B)
        /\ \A j \in B : \E m \in DOMAIN g : Stands(g, doc, j, m)
        /\ \A m \in DOMAIN g : \E j \in B : Stands(g, doc, j, m)
    BY <1>b, <1>i DEF Tells
  <1>m. PICK name : name = Called(doc.nodes, i) /\ name = NameOf(g, doc.nodes[i])
    BY <1>b, <1>t DEF Called, NameOf, FreshName
  <1>r. PICK row \in Row : row = RowOf(doc, i) /\ (Says(doc.nodes[i]) <=> \E p \in Preds : row[p] # <<>>)
    <2>1. \A p \in Preds : /\ Read(doc.form, doc.nodes[i].props[p]) \in Seq(Value)
                           /\ Read(doc.form, doc.nodes[i].props[p]) = <<>>
                                <=> doc.nodes[i].props[p] = <<>>
      BY <1>i, ReadTyped DEF Row
    <2>2. RowOf(doc, i) \in Row
      BY <2>1 DEF RowOf, Row
    <2>3. Says(doc.nodes[i]) <=> \E p \in Preds : RowOf(doc, i)[p] # <<>>
      BY <2>1 DEF RowOf, Says
    <2> QED
      BY <2>2, <2>3
  <1>e. /\ (\A p \in Preds : row[p] = <<>>) => Add(g, name, row) = g
        /\ (\E p \in Preds : row[p] # <<>>) =>
             /\ DOMAIN Add(g, name, row) = DOMAIN g \cup {name}
             /\ \A m \in DOMAIN g : m # name => Add(g, name, row)[m] = g[m]
             /\ Add(g, name, row)[name] \in Row
             /\ \E p \in Preds : Add(g, name, row)[name][p] # <<>>
             /\ name \notin DOMAIN g => Add(g, name, row)[name] = row
    BY AddEffect, Zenon
  <1>h. h = Add(g, name, row)
    BY <1>i, <1>m, <1>r
  <1>1. CASE ~Says(doc.nodes[i])
    <2>1. h = g /\ A = B
      BY <1>1, <1>c, <1>e, <1>h, <1>r
    <2> QED
      BY <1>a, <1>i, <1>t, <2>1 DEF Tells
  <1>2. CASE Says(doc.nodes[i])
    <2>0. i \in Telling(doc.nodes) /\ A = B \cup {i}
      BY <1>2, <1>c DEF Telling
    <2>1. name \notin DOMAIN g
      <3> SUFFICES ASSUME name \in DOMAIN g PROVE FALSE
        OBVIOUS
      <3>1. PICK j \in B : Stands(g, doc, j, name)
        BY <1>t
      <3>2. j = i
        BY <1>m, <2>0, <3>1 DEF Stands, Apart
      <3> QED
        BY <1>c, <3>2
    <2>2. /\ DOMAIN h = DOMAIN g \cup {name}
          /\ \A m \in DOMAIN g : h[m] = g[m]
          /\ h[name] = row
      BY <1>2, <1>e, <1>h, <1>r, <2>1
    <2>3. Cardinality(DOMAIN h) = Cardinality(A)
      <3>1. Cardinality(DOMAIN h) = Cardinality(DOMAIN g) + 1
        BY <2>1, <2>2, FS_AddElement
      <3>2. Cardinality(A) = Cardinality(B) + 1
        BY <1>c, <2>0, FS_AddElement
      <3> QED
        BY <1>t, <3>1, <3>2
    <2>4. ASSUME NEW j, NEW m \in DOMAIN g, Stands(g, doc, j, m)
          PROVE  Stands(h, doc, j, m)
      BY <2>2, <2>4 DEF Stands
    <2>5. Stands(h, doc, i, name)
      BY <1>m, <1>r, <2>0, <2>2 DEF Stands
    <2>6. \A j \in A : \E m \in DOMAIN h : Stands(h, doc, j, m)
      BY <1>t, <2>0, <2>2, <2>4, <2>5
    <2>7. \A m \in DOMAIN h : \E j \in A : Stands(h, doc, j, m)
      BY <1>t, <2>0, <2>2, <2>4, <2>5
    <2> QED
      BY <1>a, <1>i, <2>3, <2>6, <2>7 DEF Tells
  <1> QED
    BY <1>1, <1>2
-----------------------------------------------------------------------------
(***************************************************************************)
(* The invariant: the graph tells the part of the document that was read,  *)
(* and what is found is what is wrong with the focus nodes, except those   *)
(* that are still to be checked.                                           *)
(***************************************************************************)
Focus == UNION {{i} \X Targets(graph, AllShapes[i]) : i \in Selected(input.shape)}

Found == UNION {Violations(graph, pair[2], pair[1]) : pair \in Focus}

DocInv ==
  input.form = "document" =>
    /\ at \in 0 .. Len(input.doc.nodes)
    /\ Apart(input.doc.nodes) => Tells(graph, input.doc, at)
    /\ stage \in {"checking", "reported"} => at = Len(input.doc.nodes)
    /\ stage = "building" => found = {}
    /\ stage = "checking" =>
         /\ Selected(input.shape) # {}
         /\ todo \subseteq Focus
         /\ found \subseteq Found
         /\ \A pair \in Focus : pair \in todo \/ Violations(graph, pair[2], pair[1]) \subseteq found
    /\ stage = "reported" =>
         IF Selected(input.shape) = {} THEN found = {NoShape} ELSE found = Found

LEMMA StepDoc ==
  ASSUME TypeInv, DocInv, [Next]_vars
  PROVE  DocInv'
  <1> SUFFICES ASSUME input'.form = "document" PROVE DocInv'
    BY DEF DocInv
  <1>0. input' = input
    BY DEF Next, vars, AddNode, AddPackage, RefusePackage, AddResult, Select, UnknownShape, Check,
       Report
  <1>t. TypeOK /\ IsFiniteSet(DOMAIN graph) /\ Cardinality(DOMAIN graph) <= at
    BY DEF TypeInv
  <1>d. PICK doc : doc = input.doc
    OBVIOUS
  <1>l. PICK l \in Nat : l = Len(doc.nodes)
    BY <1>0, <1>d, <1>t, InputTyped, LenProperties
  <1>1. CASE AddNode
    <2>1. PICK n \in Nat : n = at /\ n < l
      BY <1>1, <1>d, <1>l, <1>t DEF AddNode, TypeOK
    <2>2. ASSUME Apart(doc.nodes)
          PROVE  Tells(graph', doc, n + 1)
      <3>g. PICK g : g = graph
        OBVIOUS
      <3>1. doc.nodes[n + 1].props \in Row
        <4>1. n + 1 \in 1 .. l
          BY <2>1
        <4> QED
          BY <1>0, <1>d, <1>l, <1>t, <4>1, InputTyped
      <3>2. \A m \in DOMAIN g : g[m] \in Row
        BY <1>t, <3>g DEF TypeOK, Row
      <3>3. Tells(g, doc, n)
        BY <1>0, <1>d, <2>1, <2>2, <3>g DEF DocInv
      <3>4. PICK h : h = Add(g, NameOf(g, doc.nodes[n + 1]), RowOf(doc, n + 1))
        OBVIOUS
      <3>5. graph' = h
        BY <1>1, <1>d, <2>1, <3>g, <3>4 DEF AddNode, RowOf
      <3>6. IsFiniteSet(DOMAIN g)
        BY <1>t, <3>g
      <3>7. Tells(h, doc, n + 1)
        BY <1>l, <2>1, <2>2, <3>1, <3>2, <3>3, <3>4, <3>6, TellsOneMore
      <3> QED
        BY <3>5, <3>7
    <2>3. /\ at' = n + 1 /\ stage' = "building" /\ found' = {} /\ input' = input
      BY <1>0, <1>1, <2>1 DEF AddNode, DocInv
    <2>4. n + 1 \in 0 .. Len(doc.nodes)
      BY <1>l, <2>1
    <2> QED
      BY <1>d, <2>2, <2>3, <2>4 DEF DocInv
  <1>2. CASE Select
    <2>1. /\ Selected(input.shape) # {} /\ at = Len(input.doc.nodes)
          /\ todo' = Focus /\ stage' = "checking" /\ found = {} /\ UNCHANGED <<input, at, graph, found>>
      BY <1>0, <1>2 DEF Select, Built, DocInv, Focus
    <2>2. Focus' = Focus /\ Found' = Found
      BY <2>1 DEF Focus, Found
    <2> QED
      BY <1>0, <2>1, <2>2 DEF DocInv
  <1>3. CASE UnknownShape
    <2>1. /\ Selected(input.shape) = {} /\ at = Len(input.doc.nodes)
          /\ stage' = "reported" /\ found' = {NoShape} /\ UNCHANGED <<input, at, graph>>
      BY <1>0, <1>3 DEF UnknownShape, Built
    <2> QED
      BY <1>0, <2>1 DEF DocInv
  <1>4. ASSUME NEW pair \in todo, Check(pair[1], pair[2])
        PROVE  DocInv'
    <2>1. CASE stage' = "raised"
      BY <1>0, <1>4, <2>1 DEF Check, DocInv
    <2>2. CASE stage' # "raised"
      <3>1. /\ found' = found \cup Violations(graph, pair[2], pair[1])
            /\ todo' = todo \ {<<pair[1], pair[2]>>}
            /\ stage = "checking" /\ stage' = "checking" /\ UNCHANGED <<input, at, graph>>
        BY <1>4, <2>2 DEF Check
      <3>2. Focus' = Focus /\ Found' = Found
        BY <3>1 DEF Focus, Found
      <3>3. /\ Selected(input.shape) # {} /\ todo \subseteq Focus /\ found \subseteq Found
            /\ \A q \in Focus : q \in todo \/ Violations(graph, q[2], q[1]) \subseteq found
            /\ at = Len(input.doc.nodes)
        BY <1>0, <3>1 DEF DocInv
      <3>4. Violations(graph, pair[2], pair[1]) \subseteq Found
        BY <3>3 DEF Found
      <3>5. found' \subseteq Found /\ todo' \subseteq Focus
        BY <3>1, <3>3, <3>4
      <3>6. ASSUME NEW q \in Focus
            PROVE  q \in todo' \/ Violations(graph, q[2], q[1]) \subseteq found'
        <4>1. q = <<q[1], q[2]>>
          BY DEF Focus
        <4>2. CASE q = <<pair[1], pair[2]>>
          BY <3>1, <4>2
        <4>3. CASE q # <<pair[1], pair[2]>>
          BY <3>1, <3>3, <4>3
        <4> QED
          BY <4>2, <4>3
      <3>7. \A q \in Focus' : q \in todo' \/ Violations(graph', q[2], q[1]) \subseteq found'
        BY <3>1, <3>2, <3>6
      <3>8. todo' \subseteq Focus' /\ found' \subseteq Found' /\ Selected(input'.shape) # {}
        BY <3>1, <3>2, <3>3, <3>5
      <3> QED
        BY <1>0, <3>1, <3>3, <3>7, <3>8 DEF DocInv
    <2> QED
      BY <2>1, <2>2
  <1>5. CASE Report
    <2>1. /\ stage = "checking" /\ todo = {} /\ stage' = "reported"
          /\ UNCHANGED <<input, at, graph, todo, found>>
      BY <1>5 DEF Report
    <2>2. Focus' = Focus /\ Found' = Found
      BY <2>1 DEF Focus, Found
    <2>3. found = Found /\ Selected(input.shape) # {}
      <3>1. /\ Selected(input.shape) # {} /\ found \subseteq Found
            /\ \A q \in Focus : Violations(graph, q[2], q[1]) \subseteq found
        BY <1>0, <2>1 DEF DocInv
      <3>2. Found \subseteq found
        BY <3>1 DEF Found
      <3> QED
        BY <3>1, <3>2
    <2> QED
      BY <1>0, <2>1, <2>2, <2>3 DEF DocInv
  <1>6. CASE UNCHANGED vars
    <2>1. UNCHANGED <<input, at, graph, todo, found, stage>>
      BY <1>6 DEF vars
    <2>2. Focus' = Focus /\ Found' = Found
      BY <2>1 DEF Focus, Found
    <2> QED
      BY <1>0, <2>1, <2>2 DEF DocInv
  <1>7. ~AddPackage /\ ~AddResult /\ ~RefusePackage
    BY <1>0 DEF AddPackage, AddResult, RefusePackage
  <1> QED
    BY <1>1, <1>2, <1>3, <1>4, <1>5, <1>6, <1>7 DEF Next

(***************************************************************************)
(* A document in which no two nodes that say something are called the      *)
(* same, by id or by the number an anonymous one gets, conforms exactly if *)
(* every node a selected shape targets satisfies it, whatever the order of *)
(* the nodes: for all documents and all shapes, those that target an       *)
(* anonymous node by its number too.                                       *)
(***************************************************************************)
THEOREM JudgedDocuments == Spec => []JudgedByTheDocument
  <1> DEFINE Inv == TypeInv /\ DocInv
  <1>1. Init => Inv
    <2> SUFFICES ASSUME Init PROVE DocInv
      BY InitTyped
    <2> SUFFICES ASSUME input.form = "document" PROVE DocInv
      BY DEF DocInv
    <2>1. input.doc.nodes \in Seq(Node)
      BY InitTyped, InputTyped DEF TypeInv
    <2>2. Len(input.doc.nodes) \in Nat /\ 0 \in 0 .. Len(input.doc.nodes)
      BY <2>1, LenProperties
    <2>3. at = 0 /\ graph = <<>> /\ DOMAIN <<>> = {} /\ found = {} /\ stage = "building"
      BY DEF Init
    <2>4. Tells(graph, input.doc, at)
      <3>1. \A nodes : Before(nodes, 0 + 1) = {}
        BY DEF Before, Telling
      <3> QED
        BY <2>3, <3>1 DEF Tells
    <2> QED
      BY <2>2, <2>3, <2>4 DEF DocInv
  <1>2. Inv /\ [Next]_vars => Inv'
    BY StepTyped, StepDoc
  <1>3. Inv => JudgedByTheDocument
    <2> SUFFICES ASSUME Inv, stage = "reported", input.form = "document", Apart(input.doc.nodes)
                 PROVE  found = {} <=>
                          /\ Selected(input.shape) # {}
                          /\ \A i \in Selected(input.shape) : Conforms(input.doc, AllShapes[i])
      BY DEF JudgedByTheDocument
    <2>1. CASE Selected(input.shape) = {}
      BY <2>1 DEF DocInv
    <2>2. CASE Selected(input.shape) # {}
      <3>1. found = Found /\ at = Len(input.doc.nodes) /\ Tells(graph, input.doc, at)
        BY <2>2 DEF DocInv
      <3>2. TypeOK /\ at \in Nat
        BY DEF TypeInv, TypeOK
      <3>3. \A i \in 1 .. at : input.doc.nodes[i].props \in Row
        BY <3>1, <3>2, InputTyped
      <3>4. \A i \in Selected(input.shape) : i \in 1 .. Len(AllShapes)
        BY DEF Selected
      <3>5. \A i \in Selected(input.shape) :
              (\A m \in Targets(graph, AllShapes[i]) : Violations(graph, m, i) = {})
                <=> Conforms(input.doc, AllShapes[i])
        BY <3>1, <3>2, <3>3, <3>4, CleanOrConforms
      <3>6. Found = {} <=>
              \A i \in Selected(input.shape) :
                \A m \in Targets(graph, AllShapes[i]) : Violations(graph, m, i) = {}
        <4>1. ASSUME Found = {}, NEW i \in Selected(input.shape),
                     NEW m \in Targets(graph, AllShapes[i])
              PROVE  Violations(graph, m, i) = {}
          <5>1. <<i, m>> \in Focus
            BY DEF Focus
          <5>2. Violations(graph, m, i) \subseteq Found
            BY <5>1 DEF Found
          <5> QED
            BY <4>1, <5>2
        <4>2. ASSUME \A i \in Selected(input.shape) :
                       \A m \in Targets(graph, AllShapes[i]) : Violations(graph, m, i) = {}
              PROVE  Found = {}
          <5>1. \A pair \in Focus : Violations(graph, pair[2], pair[1]) = {}
            BY <4>2 DEF Focus
          <5> QED
            BY <5>1 DEF Found
        <4> QED
          BY <4>1, <4>2
      <3> QED
        BY <2>2, <3>1, <3>5, <3>6
    <2> QED
      BY <2>1, <2>2
  <1> QED
    BY <1>1, <1>2, <1>3, PTL DEF Spec
=============================================================================
