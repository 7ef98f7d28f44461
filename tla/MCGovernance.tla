---------------------------- MODULE MCGovernance ----------------------------
(***************************************************************************)
(* An instance of Governance for TLC: all operator sequences of up to four *)
(* steps, and candidates that are shuffled, doubled or out of range.       *)
(***************************************************************************)
EXTENDS Governance

Symbols == Operators

StepAt(i, op, cost) == [index |-> i, op |-> op, cost |-> cost, target |-> NoTarget]

Plain(l, ps) == [transitions |-> l, hasTransitionStep |-> NoList,
                 preconditions |-> ps, header |-> "valid"]

\* Every list of n steps in order, with costs 0 and 1.
InOrder(n) ==
  {[i \in 1 .. n |-> StepAt(i - 1, ops[i], costs[i])] :
     ops \in [1 .. n -> Symbols], costs \in [1 .. n -> {0, 1}]}

Discharge == [id : PreconditionIds, by : {"VERIFY_INTEGRITY", "EXTERNAL"}]

Regular ==
  {Plain(l, ps) : l \in UNION {InOrder(n) : n \in 1 .. 4},
                  ps \in {{}} \cup {{p} : p \in Discharge}}

\* Two steps with any index, cost and target, in one list or in two.
Loose == {StepAt(i, op, c) : i \in {-1, 0, 1}, op \in {"ISOLATE_ENVIRONMENT", "VERIFY_INTEGRITY", "malformed"},
                             c \in {0, MaxCost + 1}}
         \cup {[StepAt(i, "ISOLATE_ENVIRONMENT", 0) EXCEPT !.target = k] : i \in {0, 1}, k \in {-1, 1, 2}}

Irregular ==
  {Plain(l, {}) : l \in UNION {[1 .. n -> Loose] : n \in 0 .. 2}}
    \cup [transitions : [1 .. 2 -> {StepAt(0, "ISOLATE_ENVIRONMENT", 0), StepAt(1, "VERIFY_INTEGRITY", 0)}]
                          \cup {NoList},
          hasTransitionStep : [1 .. 2 -> {StepAt(0, "ISOLATE_ENVIRONMENT", 0), StepAt(1, "VERIFY_INTEGRITY", 0)}]
                                \cup {NoList},
          preconditions : {{}, {[id |-> CHOOSE i \in PreconditionIds : TRUE, by |-> "malformed"]}},
          header : {"valid", "invalid"}]

MCCandidates == Regular \cup Irregular
=============================================================================
