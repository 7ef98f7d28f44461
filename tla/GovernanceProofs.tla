-------------------------- MODULE GovernanceProofs --------------------------
(***************************************************************************)
(* Proofs about Governance, for any candidates, costs, capacity and        *)
(* numbers of steps.                                                       *)
(***************************************************************************)
EXTENDS Governance, TLAPS

USE CandidateAssumption, LimitAssumption, NoIRAssumption, NoListAssumption

(***************************************************************************)
(* The stages of the gate, and what has to be known in each of them.       *)
(***************************************************************************)
Stages ==
  /\ ir = NoIR => gate \in {"received", "rejected"} /\ solver = "none"
  /\ gate \in {"received", "canonical", "conformant"} => solver = "none"
  /\ gate = "received" => ir = NoIR
  /\ gate \in {"checked", "signed"} => solver = "SAFE"
  /\ solver = "SAFE" => Satisfiable(ir)
  /\ solver = "UNSAFE" => ~Satisfiable(ir)

(***************************************************************************)
(* Every assignment that satisfies the constraints is, at the position the *)
(* interpreter has reached, what the interpreter has computed.             *)
(***************************************************************************)
Followed ==
  /\ \A used \in [Positions(ir) -> 0 .. Capacity] :
       ResourceConstraints(ir, used) => used[at] = total
  /\ \A isolated \in SUBSET Positions(ir) :
       IsolationConstraints(ir, isolated)
         => /\ at \in isolated <=> "isolated" \in achieved
            /\ \A verified \in SUBSET Positions(ir) :
                 VerificationConstraints(ir, isolated, verified)
                   => (at \in verified <=> "verified" \in achieved)

(***************************************************************************)
(* Conversely, the steps the interpreter has taken are an assignment, in   *)
(* which no position is compromised, up to the position it has reached.    *)
(***************************************************************************)
Summed ==
  \E used \in [0 .. at -> 0 .. Capacity] :
    /\ used[0] = 0
    /\ \A i \in 0 .. at - 1 : used[i + 1] = used[i] + Cost(ir, i)
    /\ used[at] = total

Assigned(isolated, verified) ==
  /\ 0 \notin isolated /\ 0 \notin verified
  /\ \A i \in 0 .. at - 1 :
       /\ i + 1 \in isolated <=> Op(ir, i) = "ISOLATE_ENVIRONMENT" \/ i \in isolated
       /\ i + 1 \in verified
            <=> IF Op(ir, i) = "VERIFY_INTEGRITY" THEN i \in isolated ELSE i \in verified
       /\ Op(ir, i) = "VERIFY_INTEGRITY" => i \in isolated
       /\ Op(ir, i) = "EXECUTE_PRIMITIVE" => i \in isolated /\ i \in verified
  /\ at \in isolated <=> "isolated" \in achieved
  /\ at \in verified <=> "verified" \in achieved

Witnessed == \E isolated, verified \in SUBSET (0 .. at) : Assigned(isolated, verified)

\* Nothing that the operators of the skill discharge is missing.
DischargedInside == \A p \in ir.preconditions : p.by = "EXTERNAL" \/ p.by \in OperatorsOf(ir)

Walked ==
  /\ trace # "none" => solver # "none"
  /\ trace = "none" => at = 0 /\ total = 0 /\ achieved = {}
  /\ trace = "walking" => /\ at <= Length(ir)
                          /\ Followed /\ Summed /\ Witnessed /\ DischargedInside
  /\ NeverUnsound
  /\ ConservativeOnlyOutside

GovernanceInv == TypeOK /\ Stages /\ Walked
-----------------------------------------------------------------------------
\* The steps of an accepted candidate are those of a canonical form.
LEMMA AcceptedSteps ==
  ASSUME NEW c \in Candidates, Accepted(c)
  PROVE  /\ StepList(c) \in Seq(Step)
         /\ \A i \in 1 .. Len(StepList(c)) :
              StepList(c)[i] \in [index : Nat, op : Operators, cost : 0 .. MaxCost,
                                  target : Int \cup {NoTarget}]
         /\ c.preconditions \in SUBSET Precondition
<1>1. c \in Candidate
  OBVIOUS
<1>2. StepList(c) \in Seq(Step) /\ c.preconditions \in SUBSET Precondition
  BY <1>1 DEF Accepted, StepList, Candidate
<1>3. ASSUME NEW i \in 1 .. Len(StepList(c))
      PROVE  StepList(c)[i] \in [index : Nat, op : Operators, cost : 0 .. MaxCost,
                                 target : Int \cup {NoTarget}]
  <2>1. StepList(c)[i] \in Step
    BY <1>2
  <2>2. StepAccepted(StepList(c), i)
    BY DEF Accepted
  <2> QED
    BY <2>1, <2>2 DEF Step, StepAccepted
<1> QED
  BY <1>2, <1>3

\* A canonical form is typed.
LEMMA CanonicalTyped ==
  ASSUME TypeOK, Canonicalize
  PROVE  ir' \in IR
<1> DEFINE l == StepList(candidate)
           F == [index : Nat, op : Operators, cost : 0 .. MaxCost, target : Int \cup {NoTarget}]
<1>1. /\ l \in Seq(Step)
      /\ \A i \in 1 .. Len(l) : l[i] \in F
      /\ candidate.preconditions \in SUBSET Precondition
  BY AcceptedSteps DEF TypeOK, Canonicalize
<1>2. PICK p \in [1 .. Len(l) -> 1 .. Len(l)] :
        ir' = [steps |-> [i \in 1 .. Len(l) |-> l[p[i]]],
               preconditions |-> candidate.preconditions]
  BY DEF Canonicalize
<1>3. Len(l) \in Nat
  BY <1>1
<1> HIDE DEF l, F
<1>4. [i \in 1 .. Len(l) |-> l[p[i]]] \in [1 .. Len(l) -> F]
  BY <1>1
<1>5. [i \in 1 .. Len(l) |-> l[p[i]]] \in Seq(F)
  BY <1>3, <1>4 DEF F
<1> QED
  BY <1>1, <1>2, <1>5 DEF IR, F

\* The parts of a canonical form.
LEMMA CanonicalParts ==
  ASSUME ir \in IR
  PROVE  /\ Length(ir) \in Nat
         /\ \A i \in StepsOf(ir) : Cost(ir, i) \in 0 .. MaxCost /\ Op(ir, i) \in Operators
         /\ ir.preconditions \in SUBSET Precondition
<1> DEFINE F == [index : Nat, op : Operators, cost : 0 .. MaxCost, target : Int \cup {NoTarget}]
<1>1. ir.steps \in Seq(F) /\ ir.preconditions \in SUBSET Precondition
  BY DEF IR
<1>2. Len(ir.steps) \in Nat
  BY <1>1
<1> HIDE DEF F
<1>3. ASSUME NEW i \in 0 .. Len(ir.steps) - 1
      PROVE  ir.steps[i + 1] \in F
  <2>1. i + 1 \in 1 .. Len(ir.steps)
    BY <1>2
  <2> QED
    BY <1>1, <2>1
<1>4. ASSUME NEW i \in StepsOf(ir)
      PROVE  Cost(ir, i) \in 0 .. MaxCost /\ Op(ir, i) \in Operators
  BY <1>3 DEF Length, StepsOf, Cost, Op, F
<1> QED
  BY <1>1, <1>2, <1>4 DEF Length
-----------------------------------------------------------------------------
\* What is said of the walk depends on nothing but the walk.
LEMMA WalkUnchanged ==
  ASSUME UNCHANGED <<ir, at, total, achieved>>
  PROVE  /\ Followed' <=> Followed
         /\ Summed' <=> Summed
         /\ Witnessed' <=> Witnessed
         /\ DischargedInside' <=> DischargedInside
<1>1. Followed' <=> Followed
  BY DEF Followed
<1>2. Summed' <=> Summed
  BY DEF Summed
<1>3. Witnessed' <=> Witnessed
  BY DEF Witnessed, Assigned
<1>4. DischargedInside' <=> DischargedInside
  BY DEF DischargedInside
<1> QED
  BY <1>1, <1>2, <1>3, <1>4

\* The interpreter starts where the constraints do.
LEMMA BeginWalks ==
  ASSUME ir \in IR, at = 0, total = 0, achieved = {}
  PROVE  Followed /\ Summed /\ Witnessed
<1>1. Length(ir) \in Nat
  BY CanonicalParts
<1>2. Followed
  BY <1>1 DEF Followed, ResourceConstraints, IsolationConstraints, VerificationConstraints
<1>3. Summed
  <2> DEFINE zero == [i \in 0 .. at |-> 0]
  <2>1. zero \in [0 .. at -> 0 .. Capacity] /\ zero[0] = 0 /\ zero[at] = total
    OBVIOUS
  <2>2. 0 .. at - 1 = {}
    OBVIOUS
  <2> HIDE DEF zero
  <2> QED
    BY <2>1, <2>2 DEF Summed
<1>4. Witnessed
  <2>1. Assigned({}, {})
    BY DEF Assigned
  <2> QED
    BY <2>1 DEF Witnessed
<1> QED
  BY <1>2, <1>3, <1>4

\* A step of the interpreter is one of the constraints.
LEMMA StepFollows ==
  ASSUME TypeOK, ir \in IR, at < Length(ir), Followed, TakeStep
  PROVE  Followed'
<1> USE DEF TakeStep
<1>1. at \in StepsOf(ir) /\ at + 1 \in Positions(ir) /\ at \in Positions(ir)
  BY CanonicalParts DEF TypeOK, StepsOf, Positions
<1>2. UNCHANGED ir
  OBVIOUS
<1>3. ASSUME NEW used \in [Positions(ir) -> 0 .. Capacity], ResourceConstraints(ir, used)
      PROVE  used[at'] = total'
  BY <1>1, <1>3 DEF ResourceConstraints, Followed
<1>4. ASSUME NEW isolated \in SUBSET Positions(ir), IsolationConstraints(ir, isolated)
      PROVE  at' \in isolated <=> "isolated" \in achieved'
  <2>1. at + 1 \in isolated <=> Op(ir, at) = "ISOLATE_ENVIRONMENT" \/ at \in isolated
    BY <1>1, <1>4 DEF IsolationConstraints
  <2>2. at \in isolated <=> "isolated" \in achieved
    BY <1>4 DEF Followed
  <2> QED
    BY <2>1, <2>2 DEF Achieves
<1>5. ASSUME NEW isolated \in SUBSET Positions(ir), IsolationConstraints(ir, isolated),
             NEW verified \in SUBSET Positions(ir),
             VerificationConstraints(ir, isolated, verified)
      PROVE  at' \in verified <=> "verified" \in achieved'
  <2>1. at + 1 \in verified
          <=> IF Op(ir, at) = "VERIFY_INTEGRITY" THEN at \in isolated ELSE at \in verified
    BY <1>1, <1>5 DEF VerificationConstraints
  <2>2. /\ at \in isolated <=> "isolated" \in achieved
        /\ at \in verified <=> "verified" \in achieved
    BY <1>5 DEF Followed
  <2>3. Op(ir, at) = "VERIFY_INTEGRITY" => "isolated" \in achieved
    BY DEF Forbidden
  <2> QED
    BY <2>1, <2>2, <2>3 DEF Achieves
<1> QED
  BY <1>2, <1>3, <1>4, <1>5
     DEF Followed, Positions, Length, ResourceConstraints, IsolationConstraints,
         VerificationConstraints, StepsOf, Op, Cost

\* A step of the interpreter extends the sums.
LEMMA StepSums ==
  ASSUME TypeOK, ir \in IR, at < Length(ir), Summed, TakeStep
  PROVE  Summed'
<1> USE DEF TakeStep
<1>1. PICK used \in [0 .. at -> 0 .. Capacity] :
        /\ used[0] = 0
        /\ \A i \in 0 .. at - 1 : used[i + 1] = used[i] + Cost(ir, i)
        /\ used[at] = total
  BY DEF Summed
<1> DEFINE longer == [j \in 0 .. at + 1 |-> IF j <= at THEN used[j] ELSE total']
<1>2. at \in Nat /\ at' = at + 1
  BY DEF TypeOK
<1>3. total' \in 0 .. Capacity
  <2>1. Cost(ir, at) \in Nat
    BY <1>2, CanonicalParts DEF StepsOf
  <2> QED
    BY <2>1 DEF Forbidden, TypeOK
<1>4. longer \in [0 .. at' -> 0 .. Capacity]
  BY <1>2, <1>3
<1>5. longer[0] = 0 /\ longer[at'] = total'
  BY <1>1, <1>2
<1>6. ASSUME NEW i \in 0 .. at' - 1
      PROVE  longer[i + 1] = longer[i] + Cost(ir, i)
  <2>1. CASE i < at
    BY <2>1, <1>1, <1>2
  <2>2. CASE i = at
    BY <2>2, <1>1, <1>2
  <2> QED
    BY <2>1, <2>2, <1>2
<1> HIDE DEF longer
<1>8. UNCHANGED ir
  OBVIOUS
<1> QED
  BY <1>4, <1>5, <1>6, <1>8 DEF Summed, Cost

\* A step of the interpreter extends the assignment.
LEMMA StepWitnesses ==
  ASSUME TypeOK, Witnessed, TakeStep
  PROVE  Witnessed'
<1> USE DEF TakeStep
<1>1. PICK isolated, verified \in SUBSET (0 .. at) : Assigned(isolated, verified)
  BY DEF Witnessed
<1>2. at \in Nat /\ at' = at + 1 /\ UNCHANGED ir
  BY DEF TypeOK
<1>3. PICK more, sure \in SUBSET (0 .. at') :
        /\ more = isolated \cup {j \in {at + 1} : Op(ir, at) = "ISOLATE_ENVIRONMENT"
                                                  \/ at \in isolated}
        /\ sure = verified \cup {j \in {at + 1} : IF Op(ir, at) = "VERIFY_INTEGRITY"
                                                    THEN at \in isolated ELSE at \in verified}
  <2>1. 0 .. at \subseteq 0 .. at' /\ {at + 1} \subseteq 0 .. at'
    BY <1>2
  <2>2. isolated \subseteq 0 .. at' /\ verified \subseteq 0 .. at'
    BY <2>1
  <2> QED
    BY <2>1, <2>2, Zenon
<1>4. \A i \in 0 .. at : (i \in more <=> i \in isolated) /\ (i \in sure <=> i \in verified)
  BY <1>2, <1>3
<1>5. /\ at + 1 \in more <=> Op(ir, at) = "ISOLATE_ENVIRONMENT" \/ at \in isolated
      /\ at + 1 \in sure
           <=> IF Op(ir, at) = "VERIFY_INTEGRITY" THEN at \in isolated ELSE at \in verified
  BY <1>2, <1>3
<1>6. 0 \notin more /\ 0 \notin sure
  BY <1>1, <1>2, <1>4 DEF Assigned
<1>7. /\ at \in isolated <=> "isolated" \in achieved
      /\ at \in verified <=> "verified" \in achieved
  BY <1>1 DEF Assigned
<1>8. /\ Op(ir, at) = "VERIFY_INTEGRITY" => at \in isolated
      /\ Op(ir, at) = "EXECUTE_PRIMITIVE" => at \in isolated /\ at \in verified
  BY <1>7 DEF Forbidden
<1>9. ASSUME NEW i \in 0 .. at' - 1
      PROVE  /\ i + 1 \in more <=> Op(ir, i) = "ISOLATE_ENVIRONMENT" \/ i \in more
             /\ i + 1 \in sure
                  <=> IF Op(ir, i) = "VERIFY_INTEGRITY" THEN i \in more ELSE i \in sure
             /\ Op(ir, i) = "VERIFY_INTEGRITY" => i \in more
             /\ Op(ir, i) = "EXECUTE_PRIMITIVE" => i \in more /\ i \in sure
  <2>1. CASE i = at
    BY <2>1, <1>2, <1>4, <1>5, <1>8
  <2>2. CASE i \in 0 .. at - 1
    <3>1. i \in 0 .. at /\ i + 1 \in 0 .. at
      BY <2>2, <1>2
    <3> QED
      BY <2>2, <3>1, <1>1, <1>4 DEF Assigned
  <2> QED
    BY <2>1, <2>2, <1>2
<1>10. /\ at' \in more <=> "isolated" \in achieved'
       /\ at' \in sure <=> "verified" \in achieved'
  BY <1>2, <1>5, <1>7, <1>8 DEF Achieves
<1>11. Assigned(more, sure)'
  BY <1>2, <1>6, <1>9, <1>10 DEF Assigned, Op
<1> QED
  BY <1>3, <1>11 DEF Witnessed

\* The interpreter is not stopped on what the solver finds satisfiable.
LEMMA SatisfiableRuns ==
  ASSUME TypeOK, ir \in IR, Followed, Satisfiable(ir), at <= Length(ir)
  PROVE  /\ at < Length(ir) => ~Forbidden
         /\ at = Length(ir) => "verified" \in achieved
<1>1. PICK used \in [Positions(ir) -> 0 .. Capacity] : ResourceConstraints(ir, used)
  BY DEF Satisfiable
<1>2. PICK isolated \in SUBSET Positions(ir) :
        /\ IsolationConstraints(ir, isolated)
        /\ \E verified \in SUBSET Positions(ir) :
             /\ VerificationConstraints(ir, isolated, verified)
             /\ \E compromised \in SUBSET Positions(ir) :
                  CompromiseConstraints(ir, isolated, verified, compromised)
  BY DEF Satisfiable
<1>3. PICK verified \in SUBSET Positions(ir), compromised \in SUBSET Positions(ir) :
        /\ VerificationConstraints(ir, isolated, verified)
        /\ CompromiseConstraints(ir, isolated, verified, compromised)
  BY <1>2
<1>4. /\ used[at] = total
      /\ at \in isolated <=> "isolated" \in achieved
      /\ at \in verified <=> "verified" \in achieved
  BY <1>1, <1>2, <1>3 DEF Followed
<1>5. Length(ir) \in Nat /\ at \in Nat
  BY CanonicalParts DEF TypeOK
<1>6. ASSUME at < Length(ir)
      PROVE  ~Forbidden
  <2>1. at \in StepsOf(ir) /\ at + 1 \in Positions(ir)
    BY <1>5, <1>6 DEF StepsOf, Positions
  <2>2. Cost(ir, at) >= 0 /\ total + Cost(ir, at) <= Capacity
    BY <2>1, <1>1, <1>4 DEF ResourceConstraints
  <2>3. Cost(ir, at) \in Int /\ total \in Int
    BY <2>1, CanonicalParts DEF TypeOK
  <2>4. /\ Op(ir, at) = "VERIFY_INTEGRITY" => "isolated" \in achieved
        /\ Op(ir, at) = "EXECUTE_PRIMITIVE" => {"isolated", "verified"} \subseteq achieved
    BY <2>1, <1>3, <1>4 DEF CompromiseConstraints
  <2> QED
    BY <2>2, <2>3, <2>4 DEF Forbidden
<1>7. ASSUME at = Length(ir)
      PROVE  "verified" \in achieved
  BY <1>3, <1>4, <1>7 DEF VerificationConstraints
<1> QED
  BY <1>6, <1>7

\* What the interpreter runs to the end is satisfiable but for outside attestations.
LEMMA RunsAreSatisfiable ==
  ASSUME TypeOK, ir \in IR, Summed, Witnessed, DischargedInside,
         at = Length(ir), "verified" \in achieved,
         \A p \in ir.preconditions : p.by # "EXTERNAL"
  PROVE  Satisfiable(ir)
<1>1. Length(ir) \in Nat /\ Positions(ir) = 0 .. at /\ StepsOf(ir) = 0 .. at - 1
  BY CanonicalParts DEF Positions, StepsOf
<1>2. \E used \in [Positions(ir) -> 0 .. Capacity] : ResourceConstraints(ir, used)
  <2>1. PICK used \in [0 .. at -> 0 .. Capacity] :
          /\ used[0] = 0
          /\ \A i \in 0 .. at - 1 : used[i + 1] = used[i] + Cost(ir, i)
          /\ used[at] = total
    BY DEF Summed
  <2>2. \A i \in StepsOf(ir) : Cost(ir, i) >= 0
    BY CanonicalParts
  <2>3. ResourceConstraints(ir, used)
    BY <1>1, <2>1, <2>2 DEF ResourceConstraints
  <2> QED
    BY <1>1, <2>3
<1>3. PICK isolated, verified \in SUBSET (0 .. at) : Assigned(isolated, verified)
  BY DEF Witnessed
<1>4. IsolationConstraints(ir, isolated) /\ VerificationConstraints(ir, isolated, verified)
  BY <1>1, <1>3 DEF Assigned, IsolationConstraints, VerificationConstraints
<1>5. CompromiseConstraints(ir, isolated, verified, {})
  BY <1>1, <1>3 DEF Assigned, CompromiseConstraints
<1>6. DischargeConstraints(ir)
  BY DEF DischargedInside, DischargeConstraints
<1> QED
  BY <1>1, <1>2, <1>3, <1>4, <1>5, <1>6 DEF Satisfiable
-----------------------------------------------------------------------------
LEMMA InitInv == Init => GovernanceInv
  BY DEF Init, GovernanceInv, TypeOK, Stages, Walked, NeverUnsound, ConservativeOnlyOutside

LEMMA NextInv == GovernanceInv /\ [Next]_vars => GovernanceInv'
<1> SUFFICES ASSUME GovernanceInv, [Next]_vars
             PROVE  GovernanceInv'
  OBVIOUS
<1>0. TypeOK /\ Stages /\ Walked /\ (ir # NoIR => ir \in IR)
  BY DEF GovernanceInv, TypeOK
<1>1. CASE Canonicalize
  <2>1. ir' \in IR /\ ir' # NoIR
    BY <1>0, <1>1, CanonicalTyped
  <2>2. solver = "none" /\ trace = "none"
    BY <1>0, <1>1 DEF Stages, Walked, Canonicalize
  <2> QED
    BY <1>0, <1>1, <2>1, <2>2
       DEF GovernanceInv, TypeOK, Stages, Walked, NeverUnsound, ConservativeOnlyOutside,
           Canonicalize, walk
<1> DEFINE GateStep == RejectForm \/ Conform \/ RejectShape \/ Solve \/ SolverUnavailable
                         \/ Sign \/ RejectUnsigned
<1>2. CASE GateStep
  <2>1. UNCHANGED <<candidate, ir, trace, at, total, achieved>>
    BY <1>2 DEF RejectForm, Conform, RejectShape, Solve, SolverUnavailable, Sign,
                RejectUnsigned, walk
  <2>2. TypeOK' /\ Stages'
    <3>1. ir' = ir /\ (Satisfiable(ir') <=> Satisfiable(ir))
      BY <2>1
    <3>2. TypeOK'
      BY <1>0, <1>2, <2>1
         DEF TypeOK, RejectForm, Conform, RejectShape, Solve, SolverUnavailable, Sign,
             RejectUnsigned
    <3>3. CASE Solve
      <4>1. /\ solver' \in {"SAFE", "UNSAFE"}
            /\ solver' = "SAFE" <=> Satisfiable(ir)
            /\ gate' = IF solver' = "SAFE" THEN "checked" ELSE "rejected"
            /\ gate = "conformant"
        BY <3>3 DEF Solve
      <4>2. ir # NoIR
        BY <1>0, <4>1 DEF Stages
      <4> QED
        BY <3>1, <3>2, <4>1, <4>2 DEF Stages
    <3>4. CASE ~Solve
      <4>1. /\ solver' \in {solver, "unavailable"}
            /\ solver' = "unavailable" => gate' = "rejected" \/ solver = "unavailable"
        BY <1>2, <3>4
           DEF RejectForm, Conform, RejectShape, SolverUnavailable, Sign, RejectUnsigned
      <4>2. \/ gate' = "rejected" /\ gate # "received" /\ ir # NoIR
            \/ gate' = "rejected" /\ gate = "received" /\ UNCHANGED solver
            \/ gate = "canonical" /\ gate' = "conformant" /\ UNCHANGED solver
            \/ gate = "checked" /\ gate' = "signed" /\ UNCHANGED solver
        BY <1>0, <1>2, <3>4
           DEF Stages, RejectForm, Conform, RejectShape, SolverUnavailable, Sign,
               RejectUnsigned
      <4> QED
        BY <1>0, <3>1, <3>2, <4>1, <4>2 DEF Stages
    <3> QED
      BY <3>3, <3>4
  <2>3. trace # "none" => UNCHANGED solver
    BY <1>0, <1>2
       DEF Stages, Walked, RejectForm, Conform, RejectShape, Solve, SolverUnavailable, Sign,
           RejectUnsigned
  <2>4. (trace # "none" => solver' # "none") /\ NeverUnsound' /\ ConservativeOnlyOutside'
    BY <1>0, <2>1, <2>2, <2>3
       DEF Walked, Stages, NeverUnsound, ConservativeOnlyOutside
  <2>5. trace = "walking" => Followed' /\ Summed' /\ Witnessed' /\ DischargedInside'
    BY <1>0, <2>1, WalkUnchanged DEF Walked
  <2> QED
    BY <1>0, <2>1, <2>2, <2>4, <2>5 DEF GovernanceInv, Walked, Length
<1>3. ASSUME NEW observed \in SUBSET PreconditionIds, Begin(observed)
      PROVE  GovernanceInv'
  <2>1. ir \in IR /\ ir' = ir /\ at' = 0 /\ total' = 0 /\ achieved' = {}
    BY <1>0, <1>3 DEF Begin, Stages, Walked
  <2>2. TypeOK' /\ Stages'
    BY <1>0, <1>3 DEF Begin, TypeOK, Stages
  <2>3. Followed' /\ Summed' /\ Witnessed'
    BY <2>1, <1>0, <1>3, BeginWalks
       DEF Begin, Walked, Followed, Summed, Witnessed, Assigned
  <2>4. trace' = "walking" => DischargedInside'
    BY <1>3 DEF Begin, Discharged, DischargedInside
  <2>5. solver = "SAFE" => trace' = "walking"
    <3> SUFFICES ASSUME solver = "SAFE"
                 PROVE  \A p \in ir.preconditions : Discharged(p, observed)
      BY <1>3 DEF Begin
    <3>1. DischargeConstraints(ir)
      BY <1>0 DEF Stages, Satisfiable
    <3> QED
      BY <3>1 DEF DischargeConstraints, Discharged
  <2>6. trace' \in {"walking", "UNSAFE"} /\ UNCHANGED <<gate, solver>> /\ solver # "none"
    BY <1>3 DEF Begin
  <2>7. 0 <= Length(ir)
    BY <2>1, CanonicalParts
  <2> QED
    BY <1>0, <2>1, <2>2, <2>3, <2>4, <2>5, <2>6, <2>7
       DEF GovernanceInv, Walked, Length, NeverUnsound, ConservativeOnlyOutside
<1>4. CASE TakeStep
  <2>1. /\ ir \in IR /\ UNCHANGED <<candidate, ir, gate, solver, trace>> /\ trace = "walking"
        /\ at < Length(ir) /\ at' = at + 1
    BY <1>0, <1>4 DEF TakeStep, Stages, Walked
  <2>2. at \in StepsOf(ir) /\ Length(ir) \in Nat /\ at \in Nat
    BY <2>1, <1>0, CanonicalParts DEF StepsOf, TypeOK
  <2>3. TypeOK'
    <3>1. total' \in Nat
      BY <1>0, <1>4, <2>2, <2>1, CanonicalParts DEF TypeOK, TakeStep
    <3>2. achieved' \in SUBSET {"isolated", "verified"}
      BY <1>0, <1>4 DEF TypeOK, TakeStep, Achieves
    <3> QED
      BY <1>0, <2>1, <2>2, <3>1, <3>2 DEF TypeOK
  <2>4. Stages'
    BY <1>0, <2>1 DEF Stages
  <2>5. Followed' /\ Summed' /\ Witnessed' /\ DischargedInside'
    <3>1. Followed /\ Summed /\ Witnessed /\ DischargedInside
      BY <1>0, <2>1 DEF Walked
    <3>2. DischargedInside'
      BY <3>1, <2>1 DEF DischargedInside
    <3> QED
      BY <3>1, <3>2, <1>0, <1>4, <2>1, StepFollows, StepSums, StepWitnesses
  <2>6. at' <= Length(ir)
    BY <2>1, <2>2
  <2> QED
    BY <1>0, <2>1, <2>3, <2>4, <2>5, <2>6
       DEF GovernanceInv, Walked, Length, NeverUnsound, ConservativeOnlyOutside
<1>5. CASE Stop \/ Finish
  <2>1. /\ ir \in IR /\ UNCHANGED <<candidate, ir, gate, solver, at, total, achieved>>
        /\ trace = "walking" /\ trace' \in {"SAFE", "UNSAFE"} /\ solver # "none"
        /\ at <= Length(ir) /\ Followed /\ Summed /\ Witnessed /\ DischargedInside
    BY <1>0, <1>5 DEF Stop, Finish, Stages, Walked
  <2>2. TypeOK' /\ Stages'
    BY <1>0, <2>1 DEF TypeOK, Stages
  <2>3. NeverUnsound'
    <3>1. solver = "SAFE" => trace' = "SAFE"
      BY <1>0, <1>5, <2>1, SatisfiableRuns DEF Stages, Stop, Finish
    <3> QED
      BY <1>0, <2>1, <3>1 DEF Walked, NeverUnsound
  <2>4. ConservativeOnlyOutside'
    <3>1. ASSUME solver = "UNSAFE", trace' = "SAFE"
          PROVE  \E p \in ir.preconditions : p.by = "EXTERNAL"
      <4>1. ~Satisfiable(ir)
        BY <1>0, <3>1 DEF Stages
      <4>2. at = Length(ir) /\ "verified" \in achieved
        BY <1>5, <3>1 DEF Stop, Finish
      <4> QED
        BY <4>1, <4>2, <1>0, <2>1, RunsAreSatisfiable
    <3> QED
      BY <2>1, <3>1 DEF ConservativeOnlyOutside
  <2> QED
    BY <2>1, <2>2, <2>3, <2>4 DEF GovernanceInv, Walked
<1>6. CASE UNCHANGED vars
  <2>1. UNCHANGED <<candidate, ir, gate, solver, trace, at, total, achieved>>
    BY <1>6 DEF vars
  <2>2. TypeOK' /\ Stages'
    BY <1>0, <2>1 DEF TypeOK, Stages
  <2>3. Walked'
    BY <1>0, <2>1, WalkUnchanged DEF Walked, NeverUnsound, ConservativeOnlyOutside, Length
  <2> QED
    BY <2>2, <2>3 DEF GovernanceInv
<1> QED
  BY <1>1, <1>2, <1>3, <1>4, <1>5, <1>6 DEF Next
-----------------------------------------------------------------------------
(***************************************************************************)
(* Type correctness of the gate and the interpreter.                       *)
(***************************************************************************)
THEOREM TypeCorrect == Spec => []TypeOK
<1>1. GovernanceInv => TypeOK
  BY DEF GovernanceInv
<1> QED
  BY InitInv, NextInv, <1>1, PTL DEF Spec

(***************************************************************************)
(* The solver accepts nothing that the interpreter stops: correspondence() *)
(* never answers "formal_model_unsound".                                   *)
(***************************************************************************)
THEOREM SolverIsSound == Spec => []NeverUnsound
<1>1. GovernanceInv => NeverUnsound
  BY DEF GovernanceInv, Walked
<1> QED
  BY InitInv, NextInv, <1>1, PTL DEF Spec

(***************************************************************************)
(* The solver rejects only what the interpreter stops or what depends on   *)
(* an attestation from outside.                                            *)
(***************************************************************************)
THEOREM SolverIsComplete == Spec => []ConservativeOnlyOutside
<1>1. GovernanceInv => ConservativeOnlyOutside
  BY DEF GovernanceInv, Walked
<1> QED
  BY InitInv, NextInv, <1>1, PTL DEF Spec
=============================================================================
