----------------------------- MODULE Governance -----------------------------
(***************************************************************************)
(* The promotion of a candidate skill by MemSkillGovernanceGate, and the   *)
(* interpreter that runs what was promoted.                                *)
(*                                                                         *)
(* The gate brings the candidate into canonical form, has it validated     *)
(* against the SHACL shape, asks Z3 whether a trajectory through its steps *)
(* exists, and signs it.  The interpreter (execute_trace) walks through    *)
(* the steps of the same canonical form.  The two decide by different      *)
(* means and correspondence() names the four ways they can agree or not.   *)
(*                                                                         *)
(* The constraints handed to the solver are written down as the code       *)
(* states them, and the solver as the existence of an assignment.          *)
(***************************************************************************)
EXTENDS Integers, Sequences

CONSTANTS
  Candidates,       \* the candidates submitted to the gate
  OtherOperators,   \* operator symbols without a meaning of their own
  PreconditionIds,  \* names of preconditions
  NoList,           \* a candidate lacks transitions or hasTransitionStep
  NoTarget,         \* a step without targetStep
  NoIR,             \* there is no canonical form
  MaxSteps,         \* 16 in the code
  MaxCost,          \* 100 in the code
  Capacity          \* max_resource_capacity

Operators ==
  {"ISOLATE_ENVIRONMENT", "VERIFY_INTEGRITY", "EXECUTE_PRIMITIVE"} \cup OtherOperators

(***************************************************************************)
(* What is submitted.  A malformed step or precondition is one whose       *)
(* fields have the wrong type or pattern, an invalid header one whose      *)
(* skillId, invertibilityScore, maxExecutionMs, networkAccessPermitted or  *)
(* verificationHash has.                                                   *)
(***************************************************************************)
Step == [index : Int, op : Operators \cup {"malformed"}, cost : Int,
         target : Int \cup {NoTarget}]

Precondition == [id : PreconditionIds, by : Operators \cup {"EXTERNAL", "malformed"}]

Candidate == [transitions : Seq(Step) \cup {NoList},
              hasTransitionStep : Seq(Step) \cup {NoList},
              preconditions : SUBSET Precondition,
              header : {"valid", "invalid"}]

\* The canonical form: the steps in the order of their stepIndex.
IR == [steps : Seq([index : Nat, op : Operators, cost : 0 .. MaxCost,
                    target : Int \cup {NoTarget}]),
       preconditions : SUBSET Precondition]

ASSUME CandidateAssumption == Candidates \subseteq Candidate

ASSUME LimitAssumption == MaxSteps \in Nat /\ MaxCost \in Nat /\ Capacity \in Nat

ASSUME NoIRAssumption == NoIR \notin IR

ASSUME NoListAssumption == NoList \notin Seq(Step)

VARIABLES
  candidate,  \* what was submitted
  ir,         \* its canonical form
  gate,       \* how far evaluate_and_sign is
  solver,     \* what verify_memskill answered
  trace,      \* execute_trace: not started, under way, or its label
  at,         \* the number of steps it has taken
  total,      \* the cost of these steps
  achieved    \* its variables isolated and verified

vars == <<candidate, ir, gate, solver, trace, at, total, achieved>>

walk == <<trace, at, total, achieved>>

TypeOK ==
  /\ candidate \in Candidates
  /\ ir \in IR \cup {NoIR}
  /\ gate \in {"received", "canonical", "conformant", "checked", "signed", "rejected"}
  /\ solver \in {"none", "unavailable", "SAFE", "UNSAFE"}
  /\ trace \in {"none", "walking", "SAFE", "UNSAFE"}
  /\ at \in Nat
  /\ total \in Nat
  /\ achieved \in SUBSET {"isolated", "verified"}

Init ==
  /\ candidate \in Candidates
  /\ ir = NoIR
  /\ gate = "received"
  /\ solver = "none"
  /\ trace = "none"
  /\ at = 0
  /\ total = 0
  /\ achieved = {}
-----------------------------------------------------------------------------
(***************************************************************************)
(* canonicalize().                                                         *)
(***************************************************************************)
StepList(c) == IF c.transitions # NoList THEN c.transitions ELSE c.hasTransitionStep

\* The same steps, each as often, in any order.
SameSteps(l, r) ==
  /\ Len(l) = Len(r)
  /\ \E p \in [1 .. Len(l) -> 1 .. Len(l)] :
       /\ \A i, j \in 1 .. Len(l) : p[i] = p[j] => i = j
       /\ \A i \in 1 .. Len(l) : r[i] = l[p[i]]

Indices(l) == {l[i].index : i \in 1 .. Len(l)}

\* Faulty variant: the cost of a step is not looked at.
StepAcceptedAtAnyCost(l, i) ==
  /\ l[i].op # "malformed"
  /\ l[i].index >= 0
  /\ l[i].target # NoTarget => l[i].target \in Indices(l) \cup {-1}
  /\ \A j \in 1 .. Len(l) : l[i].index = l[j].index => i = j

StepAccepted(l, i) ==
  /\ l[i].op # "malformed"
  /\ l[i].index >= 0
  /\ l[i].cost \in 0 .. MaxCost
  /\ l[i].target # NoTarget => l[i].target \in Indices(l) \cup {-1}
  /\ \A j \in 1 .. Len(l) : l[i].index = l[j].index => i = j

Accepted(c) ==
  /\ StepList(c) # NoList
  /\ c.transitions # NoList /\ c.hasTransitionStep # NoList
       => SameSteps(c.transitions, c.hasTransitionStep)
  /\ Len(StepList(c)) \in 1 .. MaxSteps
  /\ \A i \in 1 .. Len(StepList(c)) : StepAccepted(StepList(c), i)
  /\ c.header = "valid"
  /\ \A p \in c.preconditions : p.by # "malformed"

\* The steps of l by ascending index.
IsOrdering(s, l) ==
  /\ \A i \in 1 .. Len(l) : \E j \in 1 .. Len(l) : s[i] = l[j]
  /\ \A i, j \in 1 .. Len(l) : i < j => s[i].index < s[j].index

Canonicalize ==
  /\ gate = "received"
  /\ Accepted(candidate)
  /\ LET l == StepList(candidate) IN
       \E p \in [1 .. Len(l) -> 1 .. Len(l)] :
         LET s == [i \in 1 .. Len(l) |-> l[p[i]]] IN
           /\ IsOrdering(s, l)
           /\ ir' = [steps |-> s, preconditions |-> candidate.preconditions]
  /\ gate' = "canonical"
  /\ UNCHANGED <<candidate, solver, walk>>

RejectForm ==
  /\ gate = "received"
  /\ ~Accepted(candidate)
  /\ gate' = "rejected"
  /\ UNCHANGED <<candidate, ir, solver, walk>>

\* pyshacl finds the graph of the canonical form conformant.
Conform ==
  /\ gate = "canonical"
  /\ gate' = "conformant"
  /\ UNCHANGED <<candidate, ir, solver, walk>>

\* It does not, or it or the shape is not there.
RejectShape ==
  /\ gate = "canonical"
  /\ gate' = "rejected"
  /\ UNCHANGED <<candidate, ir, solver, walk>>
-----------------------------------------------------------------------------
(***************************************************************************)
(* verify_memskill().  The Boolean variables of the solver are families    *)
(* over the positions between steps; a family is the set of the positions  *)
(* at which it is true.  The constraints are grouped by the family they    *)
(* determine.                                                              *)
(***************************************************************************)
Length(skill) == Len(skill.steps)

Positions(skill) == 0 .. Length(skill)

StepsOf(skill) == 0 .. Length(skill) - 1

Op(skill, i) == skill.steps[i + 1].op

Cost(skill, i) == skill.steps[i + 1].cost

\* Partial sums of resource_vars.  None of them is negative, so that a bound
\* on the last sum is one on all.
ResourceConstraints(skill, used) ==
  /\ used[0] = 0
  /\ \A i \in StepsOf(skill) : Cost(skill, i) >= 0 /\ used[i + 1] = used[i] + Cost(skill, i)
  /\ \A i \in Positions(skill) : used[i] <= Capacity

IsolationConstraints(skill, isolated) ==
  /\ 0 \notin isolated
  /\ \A i \in StepsOf(skill) :
       i + 1 \in isolated <=> Op(skill, i) = "ISOLATE_ENVIRONMENT" \/ i \in isolated

VerificationConstraints(skill, isolated, verified) ==
  /\ 0 \notin verified
  /\ \A i \in StepsOf(skill) :
       i + 1 \in verified
         <=> IF Op(skill, i) = "VERIFY_INTEGRITY" THEN i \in isolated ELSE i \in verified
  /\ Length(skill) \in verified

\* Faulty variant: to execute, an isolated or a verified state is enough.
CompromiseConstraintsLax(skill, isolated, verified, compromised) ==
  /\ \A i \in Positions(skill) : i \notin compromised
  /\ \A i \in StepsOf(skill) :
       /\ Op(skill, i) = "VERIFY_INTEGRITY" /\ i \notin isolated => i + 1 \in compromised
       /\ Op(skill, i) = "EXECUTE_PRIMITIVE" /\ ~(i \in isolated \/ i \in verified)
            => i + 1 \in compromised

\* Faulty variant: every step but the isolating one needs an isolated state.
CompromiseConstraintsStrict(skill, isolated, verified, compromised) ==
  /\ \A i \in Positions(skill) : i \notin compromised
  /\ \A i \in StepsOf(skill) :
       /\ Op(skill, i) # "ISOLATE_ENVIRONMENT" /\ i \notin isolated => i + 1 \in compromised
       /\ Op(skill, i) = "EXECUTE_PRIMITIVE" /\ i \notin verified => i + 1 \in compromised

CompromiseConstraints(skill, isolated, verified, compromised) ==
  /\ \A i \in Positions(skill) : i \notin compromised
  /\ \A i \in StepsOf(skill) :
       /\ Op(skill, i) = "VERIFY_INTEGRITY" /\ i \notin isolated => i + 1 \in compromised
       /\ Op(skill, i) = "EXECUTE_PRIMITIVE" /\ ~(i \in isolated /\ i \in verified)
            => i + 1 \in compromised

OperatorsOf(skill) == {Op(skill, i) : i \in StepsOf(skill)}

\* An undischarged precondition adds a variable and its negation.
DischargeConstraints(skill) ==
  \A p \in skill.preconditions : p.by # "EXTERNAL" /\ p.by \in OperatorsOf(skill)

Satisfiable(skill) ==
  /\ \E used \in [Positions(skill) -> 0 .. Capacity] : ResourceConstraints(skill, used)
  /\ \E isolated \in SUBSET Positions(skill) :
       /\ IsolationConstraints(skill, isolated)
       /\ \E verified \in SUBSET Positions(skill) :
            /\ VerificationConstraints(skill, isolated, verified)
            /\ \E compromised \in SUBSET Positions(skill) :
                 CompromiseConstraints(skill, isolated, verified, compromised)
  /\ DischargeConstraints(skill)

Solve ==
  /\ gate = "conformant"
  /\ solver' = IF Satisfiable(ir) THEN "SAFE" ELSE "UNSAFE"
  /\ gate' = IF solver' = "SAFE" THEN "checked" ELSE "rejected"
  /\ UNCHANGED <<candidate, ir, walk>>

\* z3 is not installed, or answers unknown.
SolverUnavailable ==
  /\ gate = "conformant"
  /\ solver' = "unavailable"
  /\ gate' = "rejected"
  /\ UNCHANGED <<candidate, ir, walk>>

Sign ==
  /\ gate = "checked"
  /\ gate' = "signed"
  /\ UNCHANGED <<candidate, ir, solver, walk>>

\* There is no signer or no signing key; there are no mock signatures.
RejectUnsigned ==
  /\ gate = "checked"
  /\ gate' = "rejected"
  /\ UNCHANGED <<candidate, ir, solver, walk>>
-----------------------------------------------------------------------------
(***************************************************************************)
(* execute_trace() on the canonical form.  The two are compared when the   *)
(* solver has answered; its capacity is the one given to the solver.       *)
(***************************************************************************)
Discharged(p, observed) ==
  IF p.by = "EXTERNAL" THEN p.id \in observed ELSE p.by \in OperatorsOf(ir)

Begin(observed) ==
  /\ solver # "none"
  /\ trace = "none"
  /\ trace' = IF \A p \in ir.preconditions : Discharged(p, observed)
                THEN "walking" ELSE "UNSAFE"
  /\ UNCHANGED <<candidate, ir, gate, solver, at, total, achieved>>

\* The next step must not be taken.
Forbidden ==
  \/ Cost(ir, at) < 0
  \/ total + Cost(ir, at) > Capacity
  \/ Op(ir, at) = "VERIFY_INTEGRITY" /\ "isolated" \notin achieved
  \/ Op(ir, at) = "EXECUTE_PRIMITIVE" /\ ~({"isolated", "verified"} \subseteq achieved)

Achieves(op) ==
  CASE op = "ISOLATE_ENVIRONMENT" -> {"isolated"}
    [] op = "VERIFY_INTEGRITY" -> {"verified"}
    [] OTHER -> {}

TakeStep ==
  /\ trace = "walking"
  /\ at < Length(ir)
  /\ ~Forbidden
  /\ at' = at + 1
  /\ total' = total + Cost(ir, at)
  /\ achieved' = achieved \cup Achieves(Op(ir, at))
  /\ UNCHANGED <<candidate, ir, gate, solver, trace>>

Stop ==
  /\ trace = "walking"
  /\ at < Length(ir)
  /\ Forbidden
  /\ trace' = "UNSAFE"
  /\ UNCHANGED <<candidate, ir, gate, solver, at, total, achieved>>

Finish ==
  /\ trace = "walking"
  /\ at = Length(ir)
  /\ trace' = IF "verified" \in achieved THEN "SAFE" ELSE "UNSAFE"
  /\ UNCHANGED <<candidate, ir, gate, solver, at, total, achieved>>

Next ==
  \/ Canonicalize \/ RejectForm
  \/ Conform \/ RejectShape
  \/ Solve \/ SolverUnavailable
  \/ Sign \/ RejectUnsigned
  \/ \E observed \in SUBSET PreconditionIds : Begin(observed)
  \/ TakeStep \/ Stop \/ Finish

Spec == Init /\ [][Next]_vars
-----------------------------------------------------------------------------
(***************************************************************************)
(* correspondence() is never "formal_model_unsound": what the solver finds *)
(* satisfiable, and so everything that is signed, runs through the         *)
(* interpreter without being stopped, whatever attestations were observed. *)
(***************************************************************************)
NeverUnsound ==
  /\ solver = "SAFE" => trace # "UNSAFE"
  /\ gate = "signed" => solver = "SAFE"

(***************************************************************************)
(* A "conservative_rejection", a skill the solver rejects and the          *)
(* interpreter runs, always comes from a precondition that is discharged   *)
(* outside: in all else the constraints ask no more than the interpreter.  *)
(***************************************************************************)
ConservativeOnlyOutside ==
  solver = "UNSAFE" /\ trace = "SAFE"
    => \E p \in ir.preconditions : p.by = "EXTERNAL"
=============================================================================
