------------------------------ MODULE MCShapes ------------------------------
(***************************************************************************)
(* An instance of Shapes for TLC: documents of up to two or three nodes    *)
(* with every combination of ids, packages with every kind of entry, and   *)
(* shapes that use what the constitutional ones do not.                    *)
(***************************************************************************)
EXTENDS Shapes

MCPreds == {"type", "status", "network_access", "dimension", "has_inputs", "note"}

MCTexts ==
  {"", "0", "1", "4096", "8192", "8192.5", "many", "no", "x", "a", "PASS", "FAIL", "MAYBE", "RUNNING",
   "seem:SkillGateResult", "seem:SkillPackage", "seem:PipelineState"}

A == <<"id", "a">>
B == <<"id", "b">>

MCIds == {A, B, Blank(0), Blank(1)}

Props(type, status, network, note) ==
  [p \in MCPreds |->
    CASE p = "type" -> type [] p = "status" -> status
      [] p = "network_access" -> network [] p = "note" -> note [] OTHER -> <<>>]

Result == <<Text("seem:SkillGateResult")>>

SomeProps ==
  {Props(<<>>, <<>>, <<>>, <<>>),
   Props(<<>>, <<>>, <<>>, <<Text("x")>>),
   Props(Result, <<>>, <<>>, <<>>),
   Props(Result, <<Text("PASS")>>, <<>>, <<>>),
   Props(Result, <<Text("PASS"), Text("FAIL")>>, <<>>, <<>>),
   Props(Result, <<Text("MAYBE")>>, <<>>, <<Text("x")>>),
   Props(Result, <<Text("PASS")>>, <<False>>, <<>>),
   Props(Result, <<Text("PASS")>>, <<<<"int", "0">>>>, <<>>),
   Props(Result, <<Text("PASS")>>, <<<<"ref", "a">>>>, <<>>),
   Props(Result, <<<<"object", "x">>>>, <<>>, <<>>),
   Props(<<<<"ref", "seem:PipelineState">>>>, <<Text("RUNNING")>>, <<>>, <<>>)}

SomeNodes == [id : MCIds \cup {Anonymous}, props : SomeProps]

FewNodes == [id : {A, Blank(1), Anonymous},
             props : {Props(<<>>, <<>>, <<>>, <<>>), Props(Result, <<Text("PASS")>>, <<>>, <<>>)}]

MCDocuments ==
  [form : {"json-ld"}, nodes : {<<n>> : n \in SomeNodes} \cup (SomeNodes \X SomeNodes)
                                 \cup (FewNodes \X FewNodes \X FewNodes)]
    \cup [form : {"mapping"},
          nodes : {<<n>> : n \in {m \in SomeNodes : m.id # Anonymous}}
                    \cup {<<m, n>> : m \in {x \in SomeNodes : x.id = A}, n \in {x \in SomeNodes : x.id = B}}]

MCPackages ==
  [network : {Absent, True, False, <<"none", "">>, <<"int", "0">>, <<"int", "1">>, Text("no"), Text("0"), Text("")},
   dimension : {Absent, <<"int", "8192">>, <<"float", "8192.5">>, Text("8192"), Text("many"),
                <<"int", "4096">>, <<"none", "">>}]

\* int() of a fraction cuts it off, of a word or of None it raises.
MCIntOf(v) ==
  CASE v[1] = "none" -> "" [] v[2] = "many" -> "" [] v[2] = "8192.5" -> "8192" [] OTHER -> v[2]

MCMoreShapes ==
  << [id |-> "ClosedShape", targetNode |-> A, closed |-> TRUE, ignored |-> {"status"},
      properties |-> <<[path |-> "network_access", datatype |-> {"int", "float"}]>>],
     [id |-> "NoteShape", properties |-> <<[path |-> "note", pattern |-> {"x"}, maxCount |-> 1]>>],
     [id |-> "BlankShape", targetNode |-> Blank(1),
      properties |-> <<[path |-> "status", minCount |-> 1, in |-> {Text("PASS"), <<"int", "0">>}]>>] >>
=============================================================================
