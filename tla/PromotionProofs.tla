--------------------------- MODULE PromotionProofs ---------------------------
(***************************************************************************)
(* Theorems about Promotion and the TaskAtoms it extends, for any          *)
(* processes, tasks, stamps and digests.  What is assumed of SHA-256 is    *)
(* said by the three hypotheses HashTotal, BodiesApart and NeverGenesis.   *)
(***************************************************************************)
EXTENDS Promotion, TLAPS, SequenceTheorems, FunctionTheorems, FiniteSetTheorems,
        WellFoundedInduction

HashTotal == \A p \in Hash, b \in Body : AtomHash(p, b) \in Hash

\* Different bodies never have one digest.
BodiesApart ==
  \A p, q \in Hash, b, c \in Body : AtomHash(p, b) = AtomHash(q, c) => b = c

\* No digest is the string "genesis".
NeverGenesis == \A p \in Hash, b \in Body : AtomHash(p, b) # GENESIS

(***************************************************************************)
(* What a step of Promotion does to the atoms.                             *)
(***************************************************************************)
AtomAct ==
  \E p \in Procs :
    \/ Open(p)
    \/ Vanish(p)
    \/ \E s \in Stamps, r \in Reports : Create(p, s, r)
    \/ \E a \in held[p] : WriteAtom(p, a) \/ Refuse(p, a)
    \/ Appending(p)

LEMMA AtomSteps == [Next]_vars => [AtomAct]_atomVars
  <1>1. ASSUME NEW p \in Procs, PromotionStep(p)
        PROVE  UNCHANGED atomVars
    BY <1>1 DEF PromotionStep, Rebuild, Drop, RegisterCapability, RegisterSkill
  <1> QED
    BY <1>1 DEF Next, vars, Start, Stop, AtomStep, AtomAct

(***************************************************************************)
(* Typing.                                                                 *)
(***************************************************************************)
AtomsTyped == AtomsTypeOK /\ \A p \in Procs : stage[p] # "idle" => sealed[p] \in Atom

(***************************************************************************)
(* A process that is gone holds nothing.  A stamp belongs to one atom of   *)
(* one process, and to one line.  Every atom is sealed by its own hash,    *)
(* every line and every tip hangs off genesis or off a line before it, and *)
(* once an atom has its line, its owner's tip is that line or a later one: *)
(* the atom is linked to no tip the object can have again, so it is        *)
(* refused when it is offered once more.                                   *)
(***************************************************************************)
Digests(n) == {GENESIS} \cup {lines[i].hash : i \in 1 .. n}

IsSealed(a) == a.hash = AtomHash(a.prev, BodyOf(a))

GoneHoldsNothing == \A p \in Procs \ running : held[p] = {} /\ stage[p] = "idle"

StampsAreOwned ==
  \A p, q \in Procs : \A a \in held[p], b \in held[q] : a.stamp = b.stamp => a = b /\ p = q

StampsAreLined == \A i, j \in 1 .. Len(lines) : lines[i].stamp = lines[j].stamp => i = j

AllSealed ==
  /\ \A p \in Procs : \A a \in held[p] : IsSealed(a)
  /\ \A i \in 1 .. Len(lines) : IsSealed(lines[i])

LinesAreATree ==
  /\ \A i \in 1 .. Len(lines) : lines[i].prev \in Digests(i - 1)
  /\ \A p \in Procs : tip[p].hash \in Digests(Len(lines))
  /\ tipFile.tip.hash \in Digests(Len(lines))

OwnerMovedOn ==
  \A p \in Procs : \A a \in held[p], i \in 1 .. Len(lines) :
    lines[i].stamp = a.stamp =>
      /\ lines[i] = a
      /\ \E j \in i .. Len(lines) : tip[p].hash = lines[j].hash

AtomsInv ==
  /\ AtomsTyped
  /\ GoneHoldsNothing
  /\ StampsAreOwned
  /\ StampsAreLined
  /\ AllSealed
  /\ LinesAreATree
  /\ OwnerMovedOn

(***************************************************************************)
(* An atom that is being recorded has its line, the last one if processes  *)
(* take turns, and the audit log has not been told of it.                  *)
(***************************************************************************)
OneAtATime == exclusive => \A p, q \in running : p = q

InRecording ==
  \A p \in Procs : stage[p] # "idle" =>
    /\ \E i \in 1 .. Len(lines) : /\ lines[i] = sealed[p]
                                  /\ exclusive => i = Len(lines)
    /\ \A n \in 1 .. Len(noted) : noted[n] # sealed[p].stamp

RecordedOnce ==
  \A p, q \in Procs :
    stage[p] # "idle" /\ stage[q] # "idle" /\ sealed[p].stamp = sealed[q].stamp => p = q

NotedHaveLines ==
  \A m \in 1 .. Len(noted) : \E i \in 1 .. Len(lines) : lines[i].stamp = noted[m]

NotedOnce == \A m, n \in 1 .. Len(noted) : m < n => noted[m] # noted[n]

NotedInOrder ==
  exclusive =>
    \A m, n \in 1 .. Len(noted), i, j \in 1 .. Len(lines) :
      m < n /\ lines[i].stamp = noted[m] /\ lines[j].stamp = noted[n] => i < j

AuditInv ==
  /\ OneAtATime
  /\ InRecording
  /\ RecordedOnce
  /\ NotedHaveLines
  /\ NotedOnce
  /\ NotedInOrder

(***************************************************************************)
(* One process at a time: between a line and the end of the tip.json write *)
(* tip.json is one line behind, and a kill there breaks the chain for      *)
(* good: no process can start (Closed), or one that starts counts one line *)
(* too few and links its first atom to the last line but one (StaleTip).   *)
(***************************************************************************)
LastTip == [hash |-> HashBefore(Len(lines) + 1), count |-> Len(lines)]

PrevTip == [hash |-> HashBefore(Len(lines)), count |-> Len(lines) - 1]

InOrder ==
  /\ WalkOk
  /\ \A p \in running : tip[p] = LastTip
  /\ InWindow = {} => tipFile.kind # "torn" /\ tipFile.tip = LastTip
  /\ \A p \in InWindow :
       /\ Len(lines) > 0
       /\ stage[p] = "written" => tipFile.kind # "torn" /\ tipFile.tip = PrevTip
       /\ stage[p] = "truncated" => tipFile.kind = "torn"

StaleTip ==
  /\ InWindow = {}
  /\ Len(lines) > 0
  /\ tipFile.kind # "torn" /\ tipFile.tip = PrevTip
  /\ \A p \in running : tip[p] = PrevTip

Closed == tipFile.kind = "torn" /\ running = {}

Broken == ~WalkOk \/ StaleTip \/ Closed

ChainInv == exclusive => InOrder \/ Broken

LEMMA InitAtomsTyped == AtomsInit => AtomsTyped
  <1> SUFFICES ASSUME AtomsInit PROVE AtomsTyped
    OBVIOUS
  <1> USE GenesisAssumption
  <1>1. Fresh \in Tip
    BY DEF Fresh, Tip
  <1> QED
    BY <1>1 DEF AtomsInit, AtomsTyped, AtomsTypeOK, Missing, Stages

\* create() makes an atom, and append() seals the atom it was given.
LEMMA SealIsAtom ==
  ASSUME HashTotal, NEW h \in Hash, NEW b \in Body
  PROVE  Seal(h, b) \in Atom /\ IsSealed(Seal(h, b)) /\ BodyOf(Seal(h, b)) = b
  <1>1. AtomHash(h, b) \in Hash
    BY DEF HashTotal
  <1>2. BodyOf(Seal(h, b)) = b
    BY DEF BodyOf, Seal, Body
  <1>3. Seal(h, b).prev = h /\ Seal(h, b).hash = AtomHash(h, b)
    BY DEF Seal
  <1> QED
    BY <1>1, <1>2, <1>3 DEF Seal, Atom, Body, IsSealed

LEMMA ReportMakesBody ==
  ASSUME NEW s \in Stamps, NEW r \in Reports
  PROVE  NewBody(s, r) \in Body /\ NewBody(s, r).stamp = s
  BY ReportAssumption DEF NewBody, Body

LEMMA AtomHasBody ==
  ASSUME NEW a \in Atom
  PROVE  BodyOf(a) \in Body /\ BodyOf(a).stamp = a.stamp
  BY DEF Atom, BodyOf, Body

\* What sealing an atom again with its own link returns is the atom.
LEMMA SealAgain ==
  ASSUME NEW a \in Atom, IsSealed(a)
  PROVE  Seal(a.prev, BodyOf(a)) = a
  BY DEF Atom, IsSealed, Seal, BodyOf

LEMMA StepAtomsTyped ==
  ASSUME HashTotal, AtomsTyped, [AtomAct]_atomVars
  PROVE  AtomsTyped'
  <1> USE GenesisAssumption
  <1>0. AtomsTypeOK /\ \A p \in Procs : stage[p] # "idle" => sealed[p] \in Atom
    BY DEF AtomsTyped
  <1>f. Fresh \in Tip
    BY DEF Fresh, Tip
  <1>1. ASSUME NEW p \in Procs, Open(p)
        PROVE  AtomsTyped'
    BY <1>0, <1>1 DEF Open, fileVars, AtomsTyped, AtomsTypeOK
  <1>2. ASSUME NEW p \in Procs, Vanish(p)
        PROVE  AtomsTyped'
    BY <1>0, <1>2, <1>f DEF Vanish, fileVars, AtomsTyped, AtomsTypeOK, Stages
  <1>3. ASSUME NEW p \in Procs, NEW s \in Stamps, NEW r \in Reports, Create(p, s, r)
        PROVE  AtomsTyped'
    <2>1. tip[p].hash \in Hash
      BY <1>0 DEF AtomsTypeOK, Tip
    <2>2. Seal(tip[p].hash, NewBody(s, r)) \in Atom
      BY <2>1, SealIsAtom, ReportMakesBody
    <2> QED
      BY <1>0, <1>3, <2>2 DEF Create, fileVars, AtomsTyped, AtomsTypeOK
  <1>4. ASSUME NEW p \in Procs, NEW a \in held[p], WriteAtom(p, a)
        PROVE  AtomsTyped'
    <2> DEFINE b == Seal(tip[p].hash, BodyOf(a))
    <2>1. tip[p].hash \in Hash /\ tip[p].count + 1 \in Nat /\ a \in Atom
      BY <1>0 DEF AtomsTypeOK, Tip
    <2>2. b \in Atom
      BY <2>1, SealIsAtom, AtomHasBody
    <2> HIDE DEF b
    <2>3. /\ sealed' = [sealed EXCEPT ![p] = b]
          /\ sealed'[p] = b
      BY <1>0, <1>4 DEF WriteAtom, AtomsTypeOK, b
    <2>4. [hash |-> b.hash, count |-> tip[p].count + 1] \in Tip
      BY <2>1, <2>2 DEF Tip, Atom
    <2>5. Append(lines, b) \in Seq(Atom)
      BY <1>0, <2>2, AppendProperties DEF AtomsTypeOK
    <2> QED
      BY <1>0, <1>4, <2>2, <2>3, <2>4, <2>5 DEF WriteAtom, AtomsTyped, AtomsTypeOK, Stages
  <1>5. ASSUME NEW p \in Procs, NEW a \in held[p], Refuse(p, a)
        PROVE  AtomsTyped'
    BY <1>0, <1>5 DEF Refuse, fileVars, AtomsTyped, AtomsTypeOK
  <1>6. ASSUME NEW p \in Procs, TruncateTip(p)
        PROVE  AtomsTyped'
    BY <1>0, <1>6, <1>f DEF TruncateTip, Torn, AtomsTyped, AtomsTypeOK, Stages
  <1>7. ASSUME NEW p \in Procs, FillTip(p)
        PROVE  AtomsTyped'
    BY <1>0, <1>7 DEF FillTip, TipFile, AtomsTyped, AtomsTypeOK, Stages
  <1>8. ASSUME NEW p \in Procs, NoteAtom(p)
        PROVE  AtomsTyped'
    <2>1. sealed[p].stamp \in Stamps
      BY <1>0, <1>8 DEF NoteAtom, Atom
    <2>2. Append(noted, sealed[p].stamp) \in Seq(Stamps)
      BY <1>0, <2>1, AppendProperties DEF AtomsTypeOK
    <2> QED
      BY <1>0, <1>8, <2>2 DEF NoteAtom, EndAppend, AtomsTyped, AtomsTypeOK, Stages
  <1>9. ASSUME NEW p \in Procs, SkipNote(p)
        PROVE  AtomsTyped'
    BY <1>0, <1>9 DEF SkipNote, EndAppend, AtomsTyped, AtomsTypeOK, Stages
  <1>10. CASE UNCHANGED atomVars
    BY <1>0, <1>10 DEF atomVars, fileVars, AtomsTyped, AtomsTypeOK
  <1> QED
    BY <1>1, <1>2, <1>3, <1>4, <1>5, <1>6, <1>7, <1>8, <1>9, <1>10 DEF AtomAct, Appending

LEMMA WriteAtomEffect ==
  ASSUME HashTotal, AtomsTyped, AllSealed, NEW p \in Procs, NEW a \in held[p], WriteAtom(p, a)
  PROVE  /\ a \in Atom /\ IsSealed(a) /\ a.prev = tip[p].hash
         /\ stage[p] = "idle" /\ p \in running
         /\ sealed' = [sealed EXCEPT ![p] = a]
         /\ Len(lines) \in Nat
         /\ Len(lines') = Len(lines) + 1
         /\ \A i \in 1 .. Len(lines) : lines'[i] = lines[i]
         /\ lines'[Len(lines) + 1] = a
         /\ tip' = [tip EXCEPT ![p] = [hash |-> a.hash, count |-> tip[p].count + 1]]
         /\ stage' = [stage EXCEPT ![p] = "written"]
         /\ UNCHANGED <<exclusive, tipFile, noted, running, held>>
  <1>0. AtomsTypeOK
    BY DEF AtomsTyped
  <1>1. a \in Atom /\ IsSealed(a) /\ a.prev = tip[p].hash
    BY <1>0 DEF AllSealed, AtomsTypeOK, WriteAtom
  <1>2. Seal(tip[p].hash, BodyOf(a)) = a
    BY <1>1, SealAgain
  <1>3. /\ sealed' = [sealed EXCEPT ![p] = a]
        /\ sealed'[p] = a
    BY <1>0, <1>2 DEF WriteAtom, AtomsTypeOK
  <1>4. lines' = Append(lines, a) /\ lines \in Seq(Atom) /\ Len(lines) \in Nat
    BY <1>0, <1>3, LenProperties DEF WriteAtom, AtomsTypeOK
  <1>5. /\ Len(lines') = Len(lines) + 1
        /\ \A i \in 1 .. Len(lines) : lines'[i] = lines[i]
        /\ lines'[Len(lines) + 1] = a
    BY <1>1, <1>4, AppendProperties
  <1> QED
    BY <1>1, <1>3, <1>4, <1>5 DEF WriteAtom

\* No two lines have one hash, and none has the hash before the first line.
LEMMA LineHashesApart ==
  ASSUME BodiesApart, NeverGenesis, AtomsTypeOK, AllSealed, StampsAreLined,
         NEW i \in 1 .. Len(lines)
  PROVE  /\ lines[i].hash # GENESIS
         /\ \A j \in 1 .. Len(lines) : lines[i].hash = lines[j].hash => i = j
  <1>1. \A j \in 1 .. Len(lines) : lines[j] \in Atom /\ IsSealed(lines[j])
    BY ElementOfSeq DEF AtomsTypeOK, AllSealed
  <1>2. \A j \in 1 .. Len(lines) :
          /\ lines[j].prev \in Hash /\ BodyOf(lines[j]) \in Body
          /\ lines[j].hash = AtomHash(lines[j].prev, BodyOf(lines[j]))
          /\ BodyOf(lines[j]).stamp = lines[j].stamp
    BY <1>1, AtomHasBody DEF Atom, IsSealed
  <1>3. lines[i].hash # GENESIS
    BY <1>2 DEF NeverGenesis
  <1>4. ASSUME NEW j \in 1 .. Len(lines), lines[i].hash = lines[j].hash
        PROVE  i = j
    <2>1. BodyOf(lines[i]) = BodyOf(lines[j])
      BY <1>2, <1>4 DEF BodiesApart
    <2>2. lines[i].stamp = lines[j].stamp
      BY <1>2, <2>1
    <2> QED
      BY <2>2 DEF StampsAreLined
  <1> QED
    BY <1>3, <1>4

\* The tip of an owner whose atom has a line is past the atom's link.
LEMMA AcceptedIsNew ==
  ASSUME BodiesApart, NeverGenesis, AtomsInv, NEW p \in Procs, NEW a \in held[p],
         a.prev = tip[p].hash, NEW i \in 1 .. Len(lines)
  PROVE  lines[i].stamp # a.stamp
  <1> SUFFICES ASSUME lines[i].stamp = a.stamp PROVE FALSE
    OBVIOUS
  <1>n. PICK n \in Nat : n = Len(lines)
    BY LenProperties DEF AtomsInv, AtomsTyped, AtomsTypeOK
  <1>1. PICK j \in i .. n : lines[i] = a /\ tip[p].hash = lines[j].hash
    BY <1>n DEF AtomsInv, OwnerMovedOn
  <1>2. j \in 1 .. n /\ a.prev = lines[j].hash
    BY <1>n, <1>1
  <1>3. lines[j].hash # GENESIS /\ \A k \in 1 .. n : lines[j].hash = lines[k].hash => j = k
    BY <1>n, <1>2, LineHashesApart DEF AtomsInv, AtomsTyped
  <1>4. lines[i].prev \in Digests(i - 1)
    BY DEF AtomsInv, LinesAreATree
  <1>5. PICK k \in 1 .. i - 1 : a.prev = lines[k].hash
    BY <1>1, <1>2, <1>3, <1>4 DEF Digests
  <1>6. k \in 1 .. n /\ k < j
    BY <1>n, <1>1, <1>5
  <1> QED
    BY <1>2, <1>3, <1>5, <1>6

LEMMA WriteAtomKeeps ==
  ASSUME HashTotal, BodiesApart, NeverGenesis, AtomsInv, AtomsTyped',
         NEW p \in Procs, NEW a \in held[p], WriteAtom(p, a)
  PROVE  AtomsInv'
  <1>0. AtomsTyped /\ AtomsTypeOK /\ AllSealed
    BY DEF AtomsInv, AtomsTyped
  <1>n. PICK n \in Nat : n = Len(lines)
    BY <1>0, LenProperties DEF AtomsTypeOK
  <1>1. /\ a \in Atom /\ IsSealed(a) /\ a.prev = tip[p].hash
        /\ stage[p] = "idle" /\ p \in running
        /\ Len(lines') = n + 1
        /\ \A i \in 1 .. n : lines'[i] = lines[i]
        /\ lines'[n + 1] = a
        /\ tip' = [tip EXCEPT ![p] = [hash |-> a.hash, count |-> tip[p].count + 1]]
        /\ stage' = [stage EXCEPT ![p] = "written"]
        /\ UNCHANGED <<exclusive, tipFile, noted, running, held>>
    BY <1>0, <1>n, WriteAtomEffect
  <1>t. tip'[p].hash = a.hash /\ \A q \in Procs \ {p} : tip'[q] = tip[q]
    BY <1>0, <1>1 DEF AtomsTypeOK
  <1>2. GoneHoldsNothing'
    BY <1>0, <1>1 DEF AtomsInv, GoneHoldsNothing, AtomsTypeOK
  <1>3. StampsAreOwned'
    BY <1>1 DEF AtomsInv, StampsAreOwned
  <1>4. \A i \in 1 .. n : lines[i].stamp # a.stamp
    BY <1>1, <1>n, AcceptedIsNew
  <1>5. StampsAreLined'
    <2> SUFFICES ASSUME NEW i \in 1 .. n + 1, NEW j \in 1 .. n + 1,
                        lines'[i].stamp = lines'[j].stamp
                 PROVE  i = j
      BY <1>1 DEF StampsAreLined
    <2>1. CASE i = n + 1 \/ j = n + 1
      BY <2>1, <1>1, <1>4
    <2>2. CASE i \in 1 .. n /\ j \in 1 .. n
      BY <2>2, <1>1, <1>n DEF AtomsInv, StampsAreLined
    <2> QED
      BY <2>1, <2>2
  <1>6. AllSealed'
    <2>1. \A i \in 1 .. n + 1 : IsSealed(lines'[i])
      <3> SUFFICES ASSUME NEW i \in 1 .. n + 1 PROVE IsSealed(lines'[i])
        OBVIOUS
      <3>1. CASE i = n + 1
        BY <3>1, <1>1
      <3>2. CASE i \in 1 .. n
        BY <3>2, <1>0, <1>1, <1>n DEF AllSealed
      <3> QED
        BY <3>1, <3>2
    <2>2. (\A q \in Procs : \A b \in held[q] : IsSealed(b))'
      BY <1>0, <1>1 DEF AllSealed, IsSealed, BodyOf
    <2> QED
      BY <1>1, <2>1, <2>2 DEF AllSealed, IsSealed, BodyOf
  <1>7. /\ \A i \in 0 .. n : Digests(i)' = Digests(i)
        /\ Digests(n) \subseteq Digests(n + 1)'
        /\ a.hash \in Digests(n + 1)'
    <2>1. ASSUME NEW i \in 0 .. n PROVE Digests(i)' = Digests(i)
      <3>1. \A j \in 1 .. i : lines'[j].hash = lines[j].hash
        BY <1>1
      <3>2. {lines'[j].hash : j \in 1 .. i} = {lines[j].hash : j \in 1 .. i}
        BY <3>1
      <3> QED
        BY <3>2 DEF Digests
    <2>2. \A j \in 1 .. n : lines[j].hash = lines'[j].hash /\ j \in 1 .. n + 1
      BY <1>1
    <2>3. n + 1 \in 1 .. n + 1
      OBVIOUS
    <2> QED
      BY <2>1, <2>2, <2>3, <1>1 DEF Digests
  <1>8. LinesAreATree'
    <2>1. a.prev \in Digests(n)
      BY <1>1, <1>n DEF AtomsInv, LinesAreATree
    <2>2. ASSUME NEW i \in 1 .. n + 1 PROVE lines'[i].prev \in Digests(i - 1)'
      <3>1. CASE i = n + 1
        BY <3>1, <2>1, <1>1, <1>7
      <3>2. CASE i # n + 1
        <4>1. i \in 1 .. n /\ i - 1 \in 0 .. n
          BY <3>2
        <4> QED
          BY <4>1, <1>1, <1>n, <1>7 DEF AtomsInv, LinesAreATree
      <3> QED
        BY <3>1, <3>2
    <2>3. ASSUME NEW q \in Procs PROVE tip'[q].hash \in Digests(n + 1)'
      <3>1. tip[q].hash \in Digests(n)
        BY <1>n DEF AtomsInv, LinesAreATree
      <3> QED
        BY <3>1, <1>t, <1>7
    <2>4. tipFile'.tip.hash \in Digests(n + 1)'
      BY <1>1, <1>7, <1>n DEF AtomsInv, LinesAreATree
    <2> QED
      BY <1>1, <2>2, <2>3, <2>4 DEF LinesAreATree
  <1>9. OwnerMovedOn'
    <2> SUFFICES ASSUME NEW q \in Procs, NEW b \in held[q], NEW i \in 1 .. n + 1,
                        lines'[i].stamp = b.stamp
                 PROVE  /\ lines'[i] = b
                        /\ \E j \in i .. n + 1 : tip'[q].hash = lines'[j].hash
      BY <1>1 DEF OwnerMovedOn
    <2>1. CASE i = n + 1
      <3>1. a.stamp = b.stamp
        BY <2>1, <1>1
      <3>2. a = b /\ p = q
        BY <3>1 DEF AtomsInv, StampsAreOwned
      <3> QED
        BY <2>1, <3>2, <1>1, <1>t
    <2>2. CASE i \in 1 .. n
      <3>1. lines[i].stamp = b.stamp /\ lines'[i] = lines[i]
        BY <2>2, <1>1
      <3>2. PICK j \in i .. n : lines[i] = b /\ tip[q].hash = lines[j].hash
        BY <2>2, <3>1, <1>n DEF AtomsInv, OwnerMovedOn
      <3>3. CASE q = p
        <4>1. n + 1 \in i .. n + 1 /\ tip'[q].hash = lines'[n + 1].hash
          BY <2>2, <3>3, <1>1, <1>t
        <4> QED
          BY <4>1, <3>1, <3>2
      <3>4. CASE q # p
        <4>1. j \in i .. n + 1 /\ tip'[q].hash = lines'[j].hash
          BY <2>2, <3>2, <3>4, <1>1, <1>t
        <4> QED
          BY <4>1, <3>1, <3>2
      <3> QED
        BY <3>3, <3>4
    <2> QED
      BY <2>1, <2>2
  <1> QED
    BY <1>2, <1>3, <1>5, <1>6, <1>8, <1>9 DEF AtomsInv

LEMMA SameLinesKeeps ==
  ASSUME AtomsInv, AtomsTyped', lines' = lines, GoneHoldsNothing',
         \A p \in Procs :
           /\ held'[p] \subseteq held[p]
           /\ tip'[p].hash = tip[p].hash \/ held'[p] = {}
           /\ tip'[p].hash \in Digests(Len(lines)),
         tipFile'.tip.hash \in Digests(Len(lines))
  PROVE  AtomsInv'
  <1>1. \A i : Digests(i)' = Digests(i)
    BY DEF Digests
  <1>2. StampsAreOwned' /\ StampsAreLined'
    BY DEF AtomsInv, StampsAreOwned, StampsAreLined
  <1>3. AllSealed'
    BY DEF AtomsInv, AllSealed, IsSealed, BodyOf
  <1>4. LinesAreATree'
    BY <1>1 DEF AtomsInv, LinesAreATree
  <1>5. OwnerMovedOn'
    BY DEF AtomsInv, OwnerMovedOn
  <1> QED
    BY <1>2, <1>3, <1>4, <1>5 DEF AtomsInv

LEMMA CreateKeeps ==
  ASSUME HashTotal, AtomsInv, AtomsTyped', NEW p \in Procs, NEW s \in Stamps,
         NEW r \in Reports, Create(p, s, r)
  PROVE  AtomsInv'
  <1> DEFINE b == Seal(tip[p].hash, NewBody(s, r))
  <1>0. AtomsTypeOK
    BY DEF AtomsInv, AtomsTyped
  <1>1. tip[p].hash \in Hash
    BY <1>0 DEF AtomsTypeOK, Tip
  <1>2. b \in Atom /\ IsSealed(b) /\ BodyOf(b) = NewBody(s, r) /\ NewBody(s, r).stamp = s
    BY <1>1, SealIsAtom, ReportMakesBody
  <1>3. b.stamp = s
    BY <1>2, AtomHasBody
  <1> HIDE DEF b
  <1>4. /\ \A q \in Procs : held'[q] = IF q = p THEN held[q] \cup {b} ELSE held[q]
        /\ p \in running
        /\ \A i \in 1 .. Len(lines) : lines[i].stamp # s
        /\ \A q \in Procs : \A a \in held[q] : a.stamp # s
        /\ UNCHANGED <<exclusive, lines, tipFile, noted, running, tip, stage, sealed>>
    BY <1>0 DEF Create, fileVars, AtomsTypeOK, b
  <1>5. GoneHoldsNothing'
    BY <1>4 DEF AtomsInv, GoneHoldsNothing
  <1>6. StampsAreOwned' /\ StampsAreLined'
    <2>1. ASSUME NEW q \in Procs, NEW c \in held'[q], NEW u \in Procs, NEW d \in held'[u],
                 c.stamp = d.stamp
          PROVE  c = d /\ q = u
      <3>1. /\ c \in held[q] \/ (q = p /\ c = b)
            /\ d \in held[u] \/ (u = p /\ d = b)
        BY <1>4
      <3> QED
        BY <1>3, <1>4, <2>1, <3>1 DEF AtomsInv, StampsAreOwned
    <2>2. StampsAreOwned'
      BY <2>1 DEF StampsAreOwned
    <2> QED
      BY <1>4, <2>2 DEF AtomsInv, StampsAreLined
  <1>7. AllSealed'
    BY <1>2, <1>4 DEF AtomsInv, AllSealed, IsSealed, BodyOf
  <1>8. LinesAreATree'
    BY <1>4 DEF AtomsInv, LinesAreATree, Digests
  <1>9. OwnerMovedOn'
    <2>1. ASSUME NEW q \in Procs, NEW c \in held'[q], NEW i \in 1 .. Len(lines),
                 lines[i].stamp = c.stamp
          PROVE  c \in held[q]
      BY <1>3, <1>4, <2>1
    <2> QED
      BY <1>4, <2>1 DEF AtomsInv, OwnerMovedOn
  <1> QED
    BY <1>5, <1>6, <1>7, <1>8, <1>9 DEF AtomsInv

LEMMA StepAtoms ==
  ASSUME HashTotal, BodiesApart, NeverGenesis, AtomsInv, [AtomAct]_atomVars
  PROVE  AtomsInv'
  <1>t. AtomsTyped'
    BY StepAtomsTyped DEF AtomsInv
  <1>0. /\ AtomsTypeOK /\ GoneHoldsNothing
        /\ \A p \in Procs : tip[p].hash \in Digests(Len(lines))
        /\ tipFile.tip.hash \in Digests(Len(lines))
    BY DEF AtomsInv, AtomsTyped, LinesAreATree
  <1>f. Fresh.hash \in Digests(Len(lines))
    BY DEF Fresh, Digests
  <1>1. ASSUME NEW p \in Procs, Open(p)
        PROVE  AtomsInv'
    BY <1>0, <1>1, <1>t, SameLinesKeeps DEF Open, fileVars, AtomsTypeOK, GoneHoldsNothing
  <1>2. ASSUME NEW p \in Procs, Vanish(p)
        PROVE  AtomsInv'
    BY <1>0, <1>2, <1>t, <1>f, SameLinesKeeps DEF Vanish, fileVars, AtomsTypeOK, GoneHoldsNothing
  <1>3. ASSUME NEW p \in Procs, NEW s \in Stamps, NEW r \in Reports, Create(p, s, r)
        PROVE  AtomsInv'
    BY <1>3, <1>t, CreateKeeps
  <1>4. ASSUME NEW p \in Procs, NEW a \in held[p], WriteAtom(p, a)
        PROVE  AtomsInv'
    BY <1>4, <1>t, WriteAtomKeeps
  <1>5. ASSUME NEW p \in Procs, NEW a \in held[p], Refuse(p, a)
        PROVE  AtomsInv'
    BY <1>0, <1>5, <1>t, SameLinesKeeps DEF Refuse, fileVars, AtomsTypeOK, GoneHoldsNothing
  <1>6. ASSUME NEW p \in Procs, TruncateTip(p)
        PROVE  AtomsInv'
    BY <1>0, <1>6, <1>t, <1>f, SameLinesKeeps DEF TruncateTip, Torn, AtomsTypeOK, GoneHoldsNothing
  <1>7. ASSUME NEW p \in Procs, FillTip(p)
        PROVE  AtomsInv'
    BY <1>0, <1>7, <1>t, SameLinesKeeps DEF FillTip, TipFile, AtomsTypeOK, GoneHoldsNothing
  <1>8. ASSUME NEW p \in Procs, NoteAtom(p) \/ SkipNote(p)
        PROVE  AtomsInv'
    BY <1>0, <1>8, <1>t, SameLinesKeeps
    DEF NoteAtom, SkipNote, EndAppend, AtomsTypeOK, GoneHoldsNothing
  <1>9. CASE UNCHANGED atomVars
    BY <1>0, <1>9, <1>t, SameLinesKeeps DEF atomVars, fileVars, GoneHoldsNothing
  <1> QED
    BY <1>1, <1>2, <1>3, <1>4, <1>5, <1>6, <1>7, <1>8, <1>9 DEF AtomAct, Appending

LEMMA InitAtoms == AtomsInit => AtomsInv
  <1> SUFFICES ASSUME AtomsInit PROVE AtomsInv
    OBVIOUS
  <1>1. AtomsTyped
    BY InitAtomsTyped
  <1>2. Len(lines) = 0
    BY DEF AtomsInit
  <1>3. tipFile.tip.hash = GENESIS /\ \A p \in Procs : tip[p].hash = GENESIS
    BY DEF AtomsInit, Missing, Fresh
  <1> QED
    BY <1>1, <1>2, <1>3 DEF AtomsInit, AtomsInv, GoneHoldsNothing, StampsAreOwned,
       StampsAreLined, AllSealed, LinesAreATree, OwnerMovedOn, Digests

LEMMA AtomsInvariant ==
  ASSUME HashTotal, BodiesApart, NeverGenesis
  PROVE  Spec => []AtomsInv
  <1>1. Init => AtomsInv
    BY InitAtoms DEF Init
  <1>2. AtomsInv /\ [Next]_vars => AtomsInv'
    BY AtomSteps, StepAtoms
  <1> QED
    BY <1>1, <1>2, PTL DEF Spec

(***************************************************************************)
(* In every interleaving of processes and kills an atom's line is the atom *)
(* as its creator holds it, although append() seals it a second time, and  *)
(* an atom that is offered again is not recorded again.                    *)
(***************************************************************************)
THEOREM AtomsImmutable ==
  ASSUME HashTotal, BodiesApart, NeverGenesis
  PROVE  Spec => []AtomsAreImmutable
  <1>1. AtomsInv => AtomsAreImmutable
    BY DEF AtomsInv, OwnerMovedOn, StampsAreLined, AtomsAreImmutable
  <1> QED
    BY <1>1, AtomsInvariant, PTL

LEMMA SameNotesKeep ==
  ASSUME AuditInv, UNCHANGED <<exclusive, lines, noted>>, OneAtATime',
         \A p \in Procs : stage'[p] # "idle" => stage[p] # "idle" /\ sealed'[p] = sealed[p]
  PROVE  AuditInv'
  BY DEF AuditInv, InRecording, RecordedOnce, NotedHaveLines, NotedOnce, NotedInOrder

LEMMA WriteAtomAudited ==
  ASSUME HashTotal, BodiesApart, NeverGenesis, AtomsInv, AuditInv,
         NEW p \in Procs, NEW a \in held[p], WriteAtom(p, a)
  PROVE  AuditInv'
  <1>0. AtomsTyped /\ AtomsTypeOK /\ AllSealed /\ GoneHoldsNothing
    BY DEF AtomsInv, AtomsTyped
  <1>n. PICK n \in Nat : n = Len(lines)
    BY <1>0, LenProperties DEF AtomsTypeOK
  <1>1. /\ a.prev = tip[p].hash /\ stage[p] = "idle" /\ p \in running
        /\ sealed' = [sealed EXCEPT ![p] = a]
        /\ Len(lines') = n + 1
        /\ \A i \in 1 .. n : lines'[i] = lines[i]
        /\ lines'[n + 1] = a
        /\ stage' = [stage EXCEPT ![p] = "written"]
        /\ UNCHANGED <<exclusive, tipFile, noted, running, held>>
    BY <1>0, <1>n, WriteAtomEffect
  <1>s. /\ sealed'[p] = a /\ \A q \in Procs \ {p} : sealed'[q] = sealed[q]
        /\ stage'[p] = "written" /\ \A q \in Procs \ {p} : stage'[q] = stage[q]
    BY <1>0, <1>1 DEF AtomsTypeOK
  <1>2. \A i \in 1 .. n : lines[i].stamp # a.stamp
    BY <1>1, <1>n, AcceptedIsNew
  <1>3. \A m \in 1 .. Len(noted) : noted[m] # a.stamp
    BY <1>2, <1>n DEF AuditInv, NotedHaveLines
  <1>4. ASSUME NEW q \in Procs \ {p}, stage[q] # "idle"
        PROVE  /\ ~exclusive
               /\ \E i \in 1 .. n : lines[i] = sealed[q]
               /\ \A m \in 1 .. Len(noted) : noted[m] # sealed[q].stamp
    <2>1. q \in running
      BY <1>0, <1>4 DEF GoneHoldsNothing
    <2> QED
      BY <1>1, <1>4, <1>n, <2>1 DEF AuditInv, OneAtATime, InRecording
  <1>5. OneAtATime' /\ NotedOnce'
    BY <1>1 DEF AuditInv, OneAtATime, NotedOnce
  <1>6. InRecording'
    <2> SUFFICES ASSUME NEW q \in Procs, stage'[q] # "idle"
                 PROVE  /\ \E i \in 1 .. n + 1 : lines'[i] = sealed'[q] /\ (exclusive => i = n + 1)
                        /\ \A m \in 1 .. Len(noted) : noted[m] # sealed'[q].stamp
      <3>1. Len(lines') = n + 1 /\ exclusive' = exclusive /\ noted' = noted
        BY <1>1
      <3> QED
        BY <3>1 DEF InRecording
    <2>1. CASE q = p
      <3>1. n + 1 \in 1 .. n + 1
        OBVIOUS
      <3> QED
        BY <2>1, <3>1, <1>1, <1>s, <1>3
    <2>2. CASE q # p
      <3>1. /\ ~exclusive
            /\ \E i \in 1 .. n : lines[i] = sealed[q]
            /\ \A m \in 1 .. Len(noted) : noted[m] # sealed[q].stamp
        BY <2>2, <1>4, <1>s
      <3>2. \A i \in 1 .. n : i \in 1 .. n + 1 /\ lines'[i] = lines[i]
        BY <1>1
      <3> QED
        BY <2>2, <3>1, <3>2, <1>1, <1>s
    <2> QED
      BY <2>1, <2>2
  <1>7. RecordedOnce'
    <2>1. ASSUME NEW q \in Procs \ {p}, stage[q] # "idle"
          PROVE  sealed[q].stamp # a.stamp
      BY <2>1, <1>2, <1>4
    <2> QED
      BY <2>1, <1>s DEF AuditInv, RecordedOnce
  <1>8. NotedHaveLines'
    <2>1. \A i \in 1 .. n : i \in 1 .. n + 1 /\ lines'[i] = lines[i]
      BY <1>1
    <2> QED
      BY <2>1, <1>1, <1>n DEF AuditInv, NotedHaveLines
  <1>9. NotedInOrder'
    <2> SUFFICES ASSUME exclusive, NEW l \in 1 .. Len(noted), NEW m \in 1 .. Len(noted),
                        NEW i \in 1 .. n + 1, NEW j \in 1 .. n + 1, l < m,
                        lines'[i].stamp = noted[l], lines'[j].stamp = noted[m]
                 PROVE  i < j
      BY <1>1 DEF NotedInOrder
    <2>1. i # n + 1 /\ j # n + 1
      BY <1>1, <1>3
    <2>2. i \in 1 .. n /\ j \in 1 .. n
      BY <2>1
    <2>3. lines[i].stamp = noted[l] /\ lines[j].stamp = noted[m]
      BY <2>2, <1>1
    <2> QED
      BY <2>2, <2>3, <1>n DEF AuditInv, NotedInOrder
  <1> QED
    BY <1>5, <1>6, <1>7, <1>8, <1>9 DEF AuditInv

LEMMA NoteAtomAudited ==
  ASSUME AtomsInv, AuditInv, NEW p \in Procs, NoteAtom(p)
  PROVE  AuditInv'
  <1>0. AtomsTypeOK /\ StampsAreLined /\ \A q \in Procs : stage[q] # "idle" => sealed[q] \in Atom
    BY DEF AtomsInv, AtomsTyped
  <1>k. PICK k \in Nat : k = Len(noted)
    BY <1>0, LenProperties DEF AtomsTypeOK
  <1>n. PICK n \in Nat : n = Len(lines)
    BY <1>0, LenProperties DEF AtomsTypeOK
  <1> DEFINE s == sealed[p].stamp
  <1>1. /\ stage[p] # "idle" /\ s \in Stamps
        /\ stage' = [stage EXCEPT ![p] = "idle"]
        /\ sealed' = [sealed EXCEPT ![p] = NoAtom]
        /\ UNCHANGED <<exclusive, lines, running>>
    BY <1>0 DEF NoteAtom, EndAppend, Atom
  <1>2. /\ Len(noted') = k + 1
        /\ \A m \in 1 .. k : noted'[m] = noted[m]
        /\ noted'[k + 1] = s
    BY <1>0, <1>1, <1>k, AppendProperties DEF NoteAtom, AtomsTypeOK
  <1>3. PICK last \in 1 .. n : lines[last] = sealed[p] /\ (exclusive => last = n)
    BY <1>1, <1>n DEF AuditInv, InRecording
  <1>4. \A m \in 1 .. k : noted[m] # s
    BY <1>1, <1>k DEF AuditInv, InRecording
  <1>s. /\ stage'[p] = "idle"
        /\ \A q \in Procs \ {p} : stage'[q] = stage[q] /\ sealed'[q] = sealed[q]
    BY <1>0, <1>1 DEF AtomsTypeOK
  <1> HIDE DEF s
  <1>5. OneAtATime' /\ RecordedOnce'
    BY <1>1, <1>s DEF AuditInv, OneAtATime, RecordedOnce
  <1>6. InRecording'
    <2> SUFFICES ASSUME NEW q \in Procs, stage'[q] # "idle"
                 PROVE  /\ \E i \in 1 .. n : lines[i] = sealed'[q] /\ (exclusive => i = n)
                        /\ \A m \in 1 .. k + 1 : noted'[m] # sealed'[q].stamp
      <3>1. Len(lines') = n /\ lines' = lines /\ exclusive' = exclusive /\ Len(noted') = k + 1
        BY <1>1, <1>2, <1>n
      <3> QED
        BY <3>1 DEF InRecording
    <2>1. q # p /\ stage[q] # "idle" /\ sealed'[q] = sealed[q]
      BY <1>s
    <2>2. sealed[q].stamp # s
      BY <1>1, <2>1 DEF AuditInv, RecordedOnce, s
    <2>3. /\ \E i \in 1 .. n : lines[i] = sealed[q] /\ (exclusive => i = n)
          /\ \A m \in 1 .. k : noted[m] # sealed[q].stamp
      BY <2>1, <1>n, <1>k DEF AuditInv, InRecording
    <2>4. \A m \in 1 .. k + 1 : m = k + 1 \/ m \in 1 .. k
      OBVIOUS
    <2> QED
      BY <2>1, <2>2, <2>3, <2>4, <1>2
  <1>m. \A m \in 1 .. k + 1 : m = k + 1 \/ (m \in 1 .. k /\ noted'[m] = noted[m])
    BY <1>2
  <1>7. NotedHaveLines'
    <2>1. lines[last].stamp = s
      BY <1>3 DEF s
    <2> QED
      BY <2>1, <1>1, <1>2, <1>k, <1>n, <1>m DEF AuditInv, NotedHaveLines
  <1>8. NotedOnce'
    <2> SUFFICES ASSUME NEW l \in 1 .. k + 1, NEW m \in 1 .. k + 1, l < m
                 PROVE  noted'[l] # noted'[m]
      BY <1>2 DEF NotedOnce
    <2>1. l \in 1 .. k
      OBVIOUS
    <2> QED
      BY <2>1, <1>2, <1>4, <1>m, <1>k DEF AuditInv, NotedOnce
  <1>9. NotedInOrder'
    <2> SUFFICES ASSUME exclusive, NEW l \in 1 .. k + 1, NEW m \in 1 .. k + 1,
                        NEW i \in 1 .. n, NEW j \in 1 .. n, l < m,
                        lines[i].stamp = noted'[l], lines[j].stamp = noted'[m]
                 PROVE  i < j
      BY <1>1, <1>2, <1>n DEF NotedInOrder
    <2>1. l \in 1 .. k /\ lines[i].stamp = noted[l]
      BY <1>2
    <2>2. CASE m = k + 1
      <3>1. lines[j].stamp = lines[n].stamp /\ lines[n].stamp = s /\ n \in 1 .. n
        BY <2>2, <1>2, <1>3 DEF s
      <3>2. j = n
        BY <3>1, <1>0, <1>n DEF StampsAreLined
      <3>3. i # n
        BY <2>1, <3>1, <1>4
      <3> QED
        BY <3>2, <3>3
    <2>3. CASE m \in 1 .. k
      <3>1. lines[j].stamp = noted[m]
        BY <2>3, <1>2
      <3> QED
        BY <2>1, <2>3, <3>1, <1>k, <1>n DEF AuditInv, NotedInOrder
    <2> QED
      BY <2>2, <2>3
  <1> QED
    BY <1>5, <1>6, <1>7, <1>8, <1>9 DEF AuditInv

LEMMA StepAudited ==
  ASSUME HashTotal, BodiesApart, NeverGenesis, AtomsInv, AuditInv, [AtomAct]_atomVars
  PROVE  AuditInv'
  <1>0. AtomsTypeOK /\ OneAtATime
    BY DEF AtomsInv, AtomsTyped, AuditInv
  <1>1. ASSUME NEW p \in Procs, Open(p) \/ Vanish(p)
        PROVE  AuditInv'
    <2>1. OneAtATime'
      BY <1>0, <1>1 DEF Open, Vanish, OneAtATime
    <2> QED
      BY <1>0, <1>1, <2>1, SameNotesKeep DEF Open, Vanish, fileVars, AtomsTypeOK
  <1>2. ASSUME NEW p \in Procs,
               \/ \E s \in Stamps, r \in Reports : Create(p, s, r)
               \/ \E a \in held[p] : Refuse(p, a)
        PROVE  AuditInv'
    <2>1. OneAtATime'
      BY <1>0, <1>2 DEF Create, Refuse, OneAtATime
    <2> QED
      BY <1>0, <1>2, <2>1, SameNotesKeep DEF Create, Refuse, fileVars
  <1>3. ASSUME NEW p \in Procs, NEW a \in held[p], WriteAtom(p, a)
        PROVE  AuditInv'
    BY <1>3, WriteAtomAudited
  <1>4. ASSUME NEW p \in Procs, TruncateTip(p) \/ FillTip(p) \/ SkipNote(p)
        PROVE  AuditInv'
    <2>1. OneAtATime'
      BY <1>0, <1>4 DEF TruncateTip, FillTip, SkipNote, EndAppend, OneAtATime
    <2> QED
      BY <1>0, <1>4, <2>1, SameNotesKeep
      DEF TruncateTip, FillTip, SkipNote, EndAppend, AtomsTypeOK
  <1>5. ASSUME NEW p \in Procs, NoteAtom(p)
        PROVE  AuditInv'
    BY <1>5, NoteAtomAudited
  <1>6. CASE UNCHANGED atomVars
    BY <1>0, <1>6, SameNotesKeep DEF atomVars, fileVars, OneAtATime
  <1> QED
    BY <1>1, <1>2, <1>3, <1>4, <1>5, <1>6 DEF AtomAct, Appending

LEMMA InitAudited == AtomsInit => AuditInv
  <1> SUFFICES ASSUME AtomsInit PROVE AuditInv
    OBVIOUS
  <1>1. Len(noted) = 0
    BY DEF AtomsInit
  <1> QED
    BY <1>1 DEF AtomsInit, AuditInv, OneAtATime, InRecording, RecordedOnce, NotedHaveLines,
       NotedOnce, NotedInOrder

(***************************************************************************)
(* In every interleaving the audit log tells only of atoms that have their *)
(* line, of none twice, and one process at a time tells of them in the     *)
(* order of the chain, whichever entries fail.                             *)
(***************************************************************************)
THEOREM AuditIsTrue ==
  ASSUME HashTotal, BodiesApart, NeverGenesis
  PROVE  Spec => []AuditTellsTheAtoms
  <1>1. Init => AuditInv
    BY InitAudited DEF Init
  <1>2. AtomsInv /\ AuditInv /\ [Next]_vars => AuditInv'
    BY AtomSteps, StepAudited
  <1>3. AuditInv => AuditTellsTheAtoms
    BY DEF AuditInv, NotedHaveLines, NotedOnce, NotedInOrder, AuditTellsTheAtoms
  <1> QED
    BY <1>1, <1>2, <1>3, AtomsInvariant, PTL DEF Spec

LEMMA WriteAtomChained ==
  ASSUME HashTotal, BodiesApart, NeverGenesis, AtomsInv, OneAtATime, exclusive,
         InOrder \/ Broken, NEW p \in Procs, NEW a \in held[p], WriteAtom(p, a)
  PROVE  \/ InOrder /\ InOrder' /\ InWindow = {} /\ InWindow' # {}
         \/ Broken /\ Broken'
  <1>0. AtomsTyped /\ AtomsTypeOK /\ AllSealed /\ GoneHoldsNothing /\ StampsAreLined
    BY DEF AtomsInv, AtomsTyped
  <1>n. PICK n \in Nat : n = Len(lines)
    BY <1>0, LenProperties DEF AtomsTypeOK
  <1>1. /\ IsSealed(a) /\ a.prev = tip[p].hash /\ stage[p] = "idle" /\ p \in running
        /\ Len(lines') = n + 1
        /\ \A i \in 1 .. n : lines'[i] = lines[i]
        /\ lines'[n + 1] = a
        /\ tip' = [tip EXCEPT ![p] = [hash |-> a.hash, count |-> tip[p].count + 1]]
        /\ stage' = [stage EXCEPT ![p] = "written"]
        /\ UNCHANGED <<tipFile, running>>
    BY <1>0, <1>n, WriteAtomEffect
  <1>s. /\ stage'[p] = "written" /\ \A q \in Procs \ {p} : stage'[q] = stage[q]
        /\ tip'[p] = [hash |-> a.hash, count |-> tip[p].count + 1]
    BY <1>0, <1>1 DEF AtomsTypeOK
  <1>w. InWindow = {} /\ InWindow' = {p}
    <2>1. \A q \in Procs \ {p} : stage[q] = "idle"
      BY <1>0, <1>1 DEF OneAtATime, GoneHoldsNothing
    <2> QED
      BY <2>1, <1>1, <1>s DEF InWindow
  <1>h. \A i \in 1 .. n + 1 : HashBefore(i)' = HashBefore(i)
    <2> SUFFICES ASSUME NEW i \in 1 .. n + 1 PROVE HashBefore(i)' = HashBefore(i)
      OBVIOUS
    <2>1. i # 1 => i - 1 \in 1 .. n
      OBVIOUS
    <2> QED
      BY <2>1, <1>1 DEF HashBefore
  <1>2. CASE InOrder
    <2>1. tip[p] = LastTip /\ tipFile.kind # "torn" /\ tipFile.tip = LastTip
      BY <1>1, <1>2, <1>w DEF InOrder
    <2>2. WalkOk'
      <3> SUFFICES ASSUME NEW i \in 1 .. n + 1
                   PROVE  /\ lines'[i].prev = HashBefore(i)
                          /\ lines'[i].hash = AtomHash(lines'[i].prev, BodyOf(lines'[i]))
        BY <1>1, <1>h DEF WalkOk, BodyOf
      <3>1. CASE i = n + 1
        BY <3>1, <1>1, <1>n, <2>1 DEF LastTip, IsSealed
      <3>2. CASE i \in 1 .. n
        BY <3>2, <1>1, <1>2, <1>n DEF InOrder, WalkOk
      <3> QED
        BY <3>1, <3>2
    <2>3. HashBefore(n + 2)' = a.hash
      BY <1>1 DEF HashBefore
    <2>4. LastTip' = [hash |-> a.hash, count |-> n + 1]
      BY <2>3, <1>1 DEF LastTip
    <2>5. tip'[p] = LastTip'
      BY <2>1, <2>4, <1>s, <1>n DEF LastTip
    <2>6. PrevTip' = LastTip
      BY <1>h, <1>1, <1>n DEF PrevTip, LastTip
    <2>7. \A q \in running : q = p
      BY <1>1 DEF OneAtATime
    <2>8. InOrder'
      BY <2>1, <2>2, <2>5, <2>6, <2>7, <1>1, <1>s, <1>w DEF InOrder
    <2> QED
      BY <2>8, <1>2, <1>w
  <1>3. CASE ~WalkOk
    <2>1. PICK i \in 1 .. n :
            ~ /\ lines[i].prev = HashBefore(i)
              /\ lines[i].hash = AtomHash(lines[i].prev, BodyOf(lines[i]))
      BY <1>3, <1>n DEF WalkOk
    <2>2. HashBefore(i)' = HashBefore(i) /\ lines'[i] = lines[i] /\ i \in 1 .. Len(lines')
      BY <1>1, <1>h
    <2> QED
      BY <2>1, <2>2, <1>3 DEF WalkOk, BodyOf, Broken
  <1>4. CASE StaleTip
    <2>1. n > 0 /\ a.prev = HashBefore(n)
      BY <1>1, <1>4, <1>n DEF StaleTip, PrevTip
    <2>2. HashBefore(n) # lines[n].hash
      <3>1. n \in 1 .. n
        BY <2>1
      <3>2. lines[n].hash # GENESIS /\ \A j \in 1 .. n : lines[n].hash = lines[j].hash => n = j
        BY <3>1, <1>0, <1>n, LineHashesApart
      <3>3. n # 1 => n - 1 \in 1 .. n /\ n - 1 # n
        BY <2>1
      <3> QED
        BY <3>2, <3>3 DEF HashBefore
    <2>3. HashBefore(n + 1)' = lines[n].hash
      BY <2>1, <1>1, <1>h DEF HashBefore
    <2>4. n + 1 \in 1 .. Len(lines')
      BY <1>1
    <2> QED
      BY <2>1, <2>2, <2>3, <2>4, <1>1, <1>4 DEF WalkOk, Broken
  <1>5. CASE Closed
    BY <1>1, <1>5 DEF Closed
  <1> QED
    BY <1>2, <1>3, <1>4, <1>5 DEF Broken

\* Every other step: what it does to the window, and to a broken chain.
LEMMA OtherStepChained ==
  ASSUME HashTotal, AtomsInv, OneAtATime, exclusive, InOrder \/ Broken, [AtomAct]_atomVars, lines' = lines
  PROVE  \/ InOrder /\ InOrder' /\ ((InWindow = {}) <=> (InWindow' = {}))
         \/ InOrder /\ InOrder' /\ InWindow # {} /\ InWindow' = {}
         \/ InOrder /\ Broken' /\ InWindow # {}
         \/ Broken /\ Broken'
  <1>0. AtomsTypeOK /\ GoneHoldsNothing
    BY DEF AtomsInv, AtomsTyped
  <1>n. PICK n \in Nat : n = Len(lines)
    BY <1>0, LenProperties DEF AtomsTypeOK
  <1>t. LastTip' = LastTip /\ PrevTip' = PrevTip /\ WalkOk' = WalkOk
    BY DEF LastTip, PrevTip, WalkOk, HashBefore
  <1>w. \A p \in InWindow : p \in Procs /\ running = {p}
    BY <1>0 DEF InWindow, GoneHoldsNothing, OneAtATime
  <1>1. ASSUME NEW p \in Procs, Open(p)
        PROVE  /\ InWindow = {} /\ InWindow' = {}
               /\ InOrder => InOrder'
               /\ Broken => Broken'
    <2>1. /\ running = {} /\ running' = {p} /\ tipFile.kind # "torn"
          /\ tip'[p] = tipFile.tip /\ UNCHANGED <<tipFile, stage>>
      BY <1>0, <1>1 DEF Open, fileVars, AtomsTypeOK
    <2>2. InWindow = {} /\ InWindow' = {}
      BY <2>1, <1>w DEF InWindow
    <2> QED
      BY <2>1, <2>2, <1>t DEF InOrder, Broken, StaleTip, Closed
  <1>2. ASSUME NEW p \in Procs, Vanish(p)
        PROVE  /\ InWindow' = {}
               /\ InOrder /\ InWindow = {} => InOrder'
               /\ InOrder /\ InWindow # {} => Broken'
               /\ Broken => Broken'
    <2>1. /\ running = {p} /\ running' = {} /\ tipFile' = tipFile
          /\ \A q \in Procs : stage'[q] = "idle"
      BY <1>0, <1>2 DEF Vanish, fileVars, AtomsTypeOK, OneAtATime, GoneHoldsNothing
    <2>2. InWindow' = {}
      BY <2>1 DEF InWindow
    <2>3. ASSUME InOrder, InWindow # {}
          PROVE  Broken'
      <3>1. PICK q \in InWindow : stage[q] = "written" \/ stage[q] = "truncated"
        BY <2>3 DEF InWindow
      <3> QED
        BY <3>1, <2>1, <2>2, <2>3, <1>t DEF InOrder, Broken, StaleTip, Closed
    <2> QED
      BY <2>1, <2>2, <2>3, <1>t DEF InOrder, Broken, StaleTip, Closed
  <1>3. ASSUME NEW p \in Procs, TruncateTip(p)
        PROVE  /\ InWindow # {} /\ InWindow' # {}
               /\ InOrder => InOrder'
               /\ Broken => Broken'
    <2>1. /\ p \in InWindow /\ running = {p} /\ UNCHANGED <<running, tip>>
          /\ InWindow' = {p} /\ stage'[p] = "truncated" /\ tipFile'.kind = "torn"
      BY <1>0, <1>3, <1>w DEF TruncateTip, Torn, InWindow, AtomsTypeOK, GoneHoldsNothing
    <2> QED
      BY <2>1, <1>t DEF InOrder, Broken, StaleTip, Closed
  <1>4. ASSUME NEW p \in Procs, FillTip(p)
        PROVE  /\ InWindow # {} /\ InWindow' = {}
               /\ InOrder => InOrder'
               /\ Broken => Broken'
    <2>1. /\ p \in InWindow /\ running = {p} /\ UNCHANGED <<running, tip>>
          /\ InWindow' = {} /\ tipFile'.kind # "torn" /\ tipFile'.tip = tip[p]
      BY <1>0, <1>4, <1>w DEF FillTip, TipFile, InWindow, AtomsTypeOK, GoneHoldsNothing
    <2> QED
      BY <2>1, <1>t DEF InOrder, Broken, StaleTip, Closed
  <1>5. ASSUME NEW p \in Procs, NEW a \in held[p], WriteAtom(p, a)
        PROVE  FALSE
    <2>1. Len(lines') = n + 1
      BY <1>5, <1>n, WriteAtomEffect DEF AtomsInv
    <2> QED
      BY <2>1, <1>n
  <1>6. ASSUME NEW p \in Procs,
               \/ \E s \in Stamps, r \in Reports : Create(p, s, r)
               \/ \E a \in held[p] : Refuse(p, a)
               \/ NoteAtom(p) \/ SkipNote(p)
        PROVE  /\ UNCHANGED <<lines, tipFile, running, tip>> /\ InWindow' = InWindow
               /\ \A q \in InWindow : stage'[q] = stage[q]
    BY <1>0, <1>6 DEF Create, Refuse, NoteAtom, SkipNote, EndAppend, fileVars, InWindow, AtomsTypeOK
  <1>7. CASE UNCHANGED atomVars
    BY <1>7 DEF atomVars, fileVars, InWindow, InOrder, Broken, StaleTip, Closed, WalkOk,
       HashBefore, LastTip, PrevTip
  <1>8. ASSUME UNCHANGED <<lines, tipFile, running, tip>>, InWindow' = InWindow,
               \A q \in InWindow : stage'[q] = stage[q]
        PROVE  /\ InOrder => InOrder'
               /\ Broken => Broken'
    BY <1>8, <1>t DEF InOrder, Broken, StaleTip, Closed
  <1> QED
    BY <1>1, <1>2, <1>3, <1>4, <1>5, <1>6, <1>7, <1>8 DEF AtomAct, Appending

StatusFits ==
  /\ ~exclusive => Status = "intact"
  /\ exclusive /\ InOrder /\ InWindow = {} => Status = "intact"
  /\ exclusive /\ InOrder /\ InWindow # {} => Status = "unsynced"
  /\ exclusive /\ Broken => Status = "broken"

LEMMA StatusOf == AtomsInv => StatusFits
  <1> SUFFICES ASSUME AtomsInv PROVE StatusFits
    OBVIOUS
  <1>0. Len(lines) \in Nat /\ GoneHoldsNothing
    BY LenProperties DEF AtomsInv, AtomsTyped, AtomsTypeOK
  <1>1. InOrder /\ InWindow = {} => Reopens
    BY <1>0 DEF InOrder, Reopens, TipMatches, LastTip, HashBefore
  <1>2. StaleTip => InWindow = {} /\ ~Reopens
    BY <1>0 DEF StaleTip, Reopens, TipMatches, PrevTip
  <1>3. Closed => InWindow = {} /\ ~Reopens
    BY <1>0 DEF Closed, Reopens, InWindow, GoneHoldsNothing
  <1>4. InOrder => WalkOk
    BY DEF InOrder
  <1> QED
    BY <1>1, <1>2, <1>3, <1>4 DEF StatusFits, Status, Broken

LEMMA WriteAtomRecords ==
  ASSUME HashTotal, AtomsInv, exclusive, exclusive',
         NEW p \in Procs, NEW a \in held[p], WriteAtom(p, a)
  PROVE  a.stamp \in Stamps /\ Recorded' = Append(Recorded, a.stamp)
  <1>0. AtomsTyped /\ AtomsTypeOK /\ AllSealed
    BY DEF AtomsInv, AtomsTyped
  <1>n. PICK n \in Nat : n = Len(lines)
    BY <1>0, LenProperties DEF AtomsTypeOK
  <1>1. /\ a \in Atom
        /\ Len(lines') = n + 1
        /\ \A i \in 1 .. n : lines'[i] = lines[i]
        /\ lines'[n + 1] = a
    BY <1>0, <1>n, WriteAtomEffect
  <1>2. a.stamp \in Stamps
    BY <1>1 DEF Atom
  <1>3. Recorded \in Seq(Stamps) /\ Len(Recorded) = n
    <2>1. \A i \in 1 .. n : lines[i] \in Atom
      BY <1>0, <1>n, ElementOfSeq DEF AtomsTypeOK
    <2>2. \A i \in 1 .. n : lines[i].stamp \in Stamps
      BY <2>1 DEF Atom
    <2>3. Recorded \in [1 .. n -> Stamps]
      BY <1>n, <2>2 DEF Recorded
    <2> QED
      BY <2>3
  <1>4. Recorded' = [i \in 1 .. n + 1 |-> IF i <= n THEN Recorded[i] ELSE a.stamp]
    BY <1>n, <1>1 DEF Recorded
  <1>5. Append(Recorded, a.stamp)
          = [i \in 1 .. n + 1 |-> IF i <= n THEN Recorded[i] ELSE a.stamp]
    BY <1>2, <1>3
  <1> QED
    BY <1>2, <1>4, <1>5

\* Only WriteAtom writes a line.
LEMMA OnlyWriteAtom ==
  ASSUME [AtomAct]_atomVars, lines' # lines
  PROVE  \E p \in Procs : \E a \in held[p] : WriteAtom(p, a)
  BY DEF AtomAct, Appending, Open, Vanish, Create, Refuse, TruncateTip, FillTip, NoteAtom,
     SkipNote, EndAppend, atomVars, fileVars

LEMMA ExclusiveStays ==
  ASSUME [AtomAct]_atomVars
  PROVE  exclusive' = exclusive
  BY DEF AtomAct, Appending, Open, Vanish, Create, WriteAtom, Refuse, TruncateTip, FillTip,
     NoteAtom, SkipNote, EndAppend, atomVars

LEMMA InitChained == AtomsInit => ChainInv
  <1> SUFFICES ASSUME AtomsInit PROVE InOrder
    BY DEF ChainInv
  <1>1. Len(lines) = 0 /\ InWindow = {}
    BY DEF AtomsInit, InWindow
  <1>2. LastTip = Fresh
    BY <1>1 DEF LastTip, Fresh, HashBefore
  <1> QED
    BY <1>1, <1>2 DEF AtomsInit, InOrder, WalkOk, Missing

LEMMA ChainInvariant ==
  ASSUME HashTotal, BodiesApart, NeverGenesis
  PROVE  Spec => []ChainInv /\ []OneAtATime
  <1>1. Init => AuditInv /\ ChainInv
    BY InitAudited, InitChained DEF Init
  <1>2. AtomsInv /\ AuditInv /\ [Next]_vars => AuditInv'
    BY AtomSteps, StepAudited
  <1>3. ASSUME AtomsInv, AuditInv, ChainInv, [Next]_vars
        PROVE  ChainInv'
    <2>1. [AtomAct]_atomVars /\ OneAtATime
      BY <1>3, AtomSteps DEF AuditInv
    <2>2. CASE ~exclusive
      BY <2>1, <2>2, ExclusiveStays DEF ChainInv
    <2>3. CASE exclusive /\ lines' = lines
      BY <1>3, <2>1, <2>3, OtherStepChained DEF ChainInv
    <2>4. CASE exclusive /\ lines' # lines
      BY <1>3, <2>1, <2>4, OnlyWriteAtom, WriteAtomChained DEF ChainInv
    <2> QED
      BY <2>2, <2>3, <2>4
  <1>4. AuditInv => OneAtATime
    BY DEF AuditInv
  <1> QED
    BY <1>1, <1>2, <1>3, <1>4, AtomsInvariant, PTL DEF Spec

(***************************************************************************)
(* One process at a time, killed at any step: the atom store implements    *)
(* the abstract audit log.  Writing an atom's line is its Write, the end   *)
(* of the tip.json write its Sync, a kill between the two its TearDown,    *)
(* after which verify_chain, walk or count, never accepts the file again.  *)
(***************************************************************************)
THEOREM AtomsImplement ==
  ASSUME HashTotal, BodiesApart, NeverGenesis
  PROVE  Spec => AtomsImplementAuditLog
  <1>1. ASSUME Init, AtomsInv, StatusFits, ChainInv
        PROVE  Chain!AuditInit
    <2>1. Len(lines) = 0 /\ InWindow = {}
      BY <1>1 DEF Init, AtomsInit, InWindow
    <2>2. exclusive => InOrder
      <3>1. LastTip = Fresh
        BY <2>1 DEF LastTip, Fresh, HashBefore
      <3> QED
        BY <1>1, <2>1, <3>1 DEF Init, AtomsInit, InOrder, WalkOk, Missing
    <2>3. Status = "intact"
      BY <1>1, <2>1, <2>2 DEF StatusFits
    <2>4. Recorded = <<>>
      BY <2>1 DEF Recorded
    <2> QED
      BY <2>3, <2>4 DEF Chain!AuditInit
  <1>2. ASSUME AtomsInv, OneAtATime, ChainInv, StatusFits, StatusFits', [Next]_vars
        PROVE  [Chain!AuditNext]_(Chain!auditVars)
    <2>1. [AtomAct]_atomVars /\ exclusive' = exclusive
      BY <1>2, AtomSteps, ExclusiveStays
    <2>2. CASE ~exclusive
      BY <1>2, <2>1, <2>2 DEF StatusFits, Recorded, Chain!auditVars
    <2>3. CASE exclusive /\ lines' = lines
      <3>1. UNCHANGED Recorded
        BY <2>1, <2>3 DEF Recorded
      <3>2. CASE InOrder /\ InOrder' /\ ((InWindow = {}) <=> (InWindow' = {}))
        BY <1>2, <2>1, <2>3, <3>1, <3>2 DEF StatusFits, Chain!auditVars
      <3>3. CASE InOrder /\ InOrder' /\ InWindow # {} /\ InWindow' = {}
        BY <1>2, <2>1, <2>3, <3>1, <3>3 DEF StatusFits, Chain!AuditNext, Chain!Sync
      <3>4. CASE InOrder /\ Broken' /\ InWindow # {}
        BY <1>2, <2>1, <2>3, <3>1, <3>4 DEF StatusFits, Chain!AuditNext, Chain!TearDown
      <3>5. CASE Broken /\ Broken'
        BY <1>2, <2>1, <2>3, <3>1, <3>5 DEF StatusFits, Chain!auditVars
      <3> QED
        BY <1>2, <2>1, <2>3, <3>2, <3>3, <3>4, <3>5, OtherStepChained DEF ChainInv
    <2>4. CASE exclusive /\ lines' # lines
      <3>1. PICK p \in Procs : \E a \in held[p] : WriteAtom(p, a)
        BY <2>1, <2>4, OnlyWriteAtom
      <3>2. PICK a \in held[p] : WriteAtom(p, a)
        BY <3>1
      <3>3. a.stamp \in Stamps /\ Recorded' = Append(Recorded, a.stamp)
        BY <1>2, <2>1, <2>4, <3>2, WriteAtomRecords
      <3>4. \/ InOrder /\ InOrder' /\ InWindow = {} /\ InWindow' # {}
            \/ Broken /\ Broken'
        BY <1>2, <2>4, <3>2, WriteAtomChained DEF ChainInv
      <3>5. Chain!Write(a.stamp)
        BY <1>2, <2>1, <2>4, <3>3, <3>4 DEF StatusFits, Chain!Write
      <3> QED
        BY <3>3, <3>5 DEF Chain!AuditNext
    <2> QED
      BY <2>2, <2>3, <2>4
  <1> QED
    BY <1>1, <1>2, AtomsInvariant, ChainInvariant, StatusOf, PTL
    DEF Spec, AtomsImplementAuditLog, Chain!AuditSpec

(***************************************************************************)
(* The registry.  Nothing is used of episodes here but that the capability *)
(* and the skill of one promotion are made of the same episode.            *)
(***************************************************************************)

\* No capability of a skill is an entry that asks for network access.
SkillsAreLegal == \A k, h : [task |-> k, events |-> h] \notin Rogue

\* The values are registries, functions of the processes.
IsRegistry(r) == r = [caps |-> r.caps, skills |-> r.skills]

Formed ==
  /\ IsRegistry(file)
  /\ registry = [p \in Procs |-> registry[p]]
  /\ \A p \in Procs : IsRegistry(registry[p])
  /\ episode = [p \in Procs |-> episode[p]]
  /\ halfway \in [Procs -> BOOLEAN]
  /\ running \subseteq Procs

(***************************************************************************)
(* Between the two saves the capability is in the object's registry, so    *)
(* the second save never writes a skill without it.                        *)
(***************************************************************************)
HalfwayHasCapability ==
  \A p \in Procs : halfway[p] => p \in running /\ SkillOf(episode[p]) \in registry[p].caps

\* One process at a time: the object knows what the file has.
CopyIsFresh ==
  exclusive =>
    \A p \in running : /\ running = {p}
                       /\ file.caps \ Rogue \subseteq registry[p].caps
                       /\ file.skills \subseteq registry[p].skills

\* Load() takes illegal capabilities out; no skill may need one of them.
NoRogueSkill == file.skills \cap Rogue = {}

RegistryInv == Formed /\ RegistryIsSound /\ HalfwayHasCapability /\ CopyIsFresh /\ NoRogueSkill

LEMMA InitRegistry ==
  ASSUME SkillsAreLegal, Init
  PROVE  RegistryInv
  <1>1. IsRegistry(file) /\ file.skills = {} /\ IsRegistry(Empty)
    BY DEF Init, Empty, IsRegistry
  <1> QED
    BY <1>1 DEF Init, AtomsInit, Empty, RegistryInv, Formed, RegistryIsSound,
       HalfwayHasCapability, CopyIsFresh, NoRogueSkill

LEMMA StartStep ==
  ASSUME RegistryInv, NEW p \in Procs, Start(p)
  PROVE  RegistryInv' /\ file' = file
  <1>1. /\ Load(file).caps = file.caps \ Rogue
        /\ Load(file).skills = file.skills
        /\ IsRegistry(Load(file))
    <2>1. PICK c, k : file = [caps |-> c, skills |-> k]
      BY DEF IsRegistry, RegistryInv, Formed
    <2>2. Load(file) = [caps |-> c \ Rogue, skills |-> k]
      BY <2>1 DEF Load
    <2> QED
      BY <2>1, <2>2 DEF IsRegistry
  <1>2. /\ registry' = [registry EXCEPT ![p] = Load(file)]
        /\ UNCHANGED <<file, episode, halfway, exclusive>>
        /\ running' = running \cup {p}
        /\ exclusive => running = {}
        /\ p \notin running
    BY DEF Start, Open
  <1>3. Formed'
    BY <1>1, <1>2 DEF RegistryInv, Formed, IsRegistry
  <1>4. registry'[p] = Load(file) /\ \A q \in Procs \ {p} : registry'[q] = registry[q]
    BY <1>2 DEF RegistryInv, Formed
  <1>5. RegistryIsSound' /\ HalfwayHasCapability' /\ NoRogueSkill'
    BY <1>1, <1>2, <1>4 DEF RegistryInv, RegistryIsSound, HalfwayHasCapability, NoRogueSkill
  <1>6. CopyIsFresh'
    BY <1>1, <1>2, <1>4 DEF RegistryInv, CopyIsFresh
  <1> QED
    BY <1>2, <1>3, <1>5, <1>6 DEF RegistryInv

LEMMA StopStep ==
  ASSUME RegistryInv, NEW p \in Procs, Stop(p)
  PROVE  RegistryInv' /\ file' = file
  <1>1. /\ registry' = [registry EXCEPT ![p] = Empty]
        /\ episode' = [episode EXCEPT ![p] = NoEpisode]
        /\ halfway' = [halfway EXCEPT ![p] = FALSE]
        /\ running' = running \ {p}
        /\ UNCHANGED <<file, exclusive>>
    BY DEF Stop, Vanish
  <1>2. IsRegistry(Empty) /\ Empty.caps = {} /\ Empty.skills = {}
    BY DEF Empty, IsRegistry
  <1>3. Formed'
    BY <1>1, <1>2 DEF RegistryInv, Formed, IsRegistry
  <1>4. RegistryIsSound' /\ HalfwayHasCapability' /\ CopyIsFresh' /\ NoRogueSkill'
    BY <1>1, <1>2 DEF RegistryInv, Formed, RegistryIsSound, HalfwayHasCapability, CopyIsFresh, NoRogueSkill
  <1> QED
    BY <1>1, <1>3, <1>4 DEF RegistryInv

\* A step that touches neither the registries nor the set of processes.
LEMMA OtherStep ==
  ASSUME RegistryInv,
         UNCHANGED <<file, registry, halfway, exclusive, running>>,
         episode' = [p \in Procs |-> episode'[p]],
         \A p \in Procs : halfway[p] => episode'[p] = episode[p]
  PROVE  RegistryInv' /\ file' = file
  BY DEF RegistryInv, Formed, IsRegistry, RegistryIsSound, HalfwayHasCapability, CopyIsFresh, NoRogueSkill

LEMMA AtomStepKeeps ==
  ASSUME RegistryInv, NEW p \in Procs, AtomStep(p)
  PROVE  RegistryInv' /\ file' = file
  <1>1. UNCHANGED <<exclusive, running>>
    BY DEF AtomStep, Create, WriteAtom, Refuse, Appending, TruncateTip, FillTip, NoteAtom,
       SkipNote, EndAppend
  <1>2. UNCHANGED <<file, registry, episode, halfway>>
    BY DEF AtomStep, promotionVars
  <1>3. episode' = [q \in Procs |-> episode'[q]]
    BY <1>2 DEF RegistryInv, Formed
  <1> QED
    BY <1>1, <1>2, <1>3, OtherStep

LEMMA EpisodeStep ==
  ASSUME RegistryInv, NEW p \in Procs, Drop(p) \/ \E k \in Tasks : Rebuild(p, k)
  PROVE  RegistryInv' /\ file' = file
  <1>1. UNCHANGED <<file, registry, halfway, exclusive, running>> /\ ~halfway[p]
    BY DEF Drop, Rebuild, Free, atomVars
  <1>2. PICK e : episode' = [episode EXCEPT ![p] = e]
    BY DEF Drop, Rebuild
  <1>3. /\ episode' = [q \in Procs |-> episode'[q]]
        /\ \A q \in Procs : halfway[q] => episode'[q] = episode[q]
    BY <1>1, <1>2 DEF RegistryInv, Formed
  <1> QED
    BY <1>1, <1>3, OtherStep

\* Saving the object's registry, with more in it, over the file.
LEMMA SaveStep ==
  ASSUME SkillsAreLegal, RegistryInv, NEW p \in Procs, p \in running, NEW r, SaveRegistry(p, r),
         IsRegistry(r), r.skills \subseteq r.caps, r.caps \cap Rogue = {},
         registry[p].caps \subseteq r.caps, registry[p].skills \subseteq r.skills,
         UNCHANGED <<exclusive, running>>,
         episode' = [q \in Procs |-> episode'[q]],
         halfway' \in [Procs -> BOOLEAN],
         halfway'[p] => SkillOf(episode'[p]) \in r.caps,
         \A q \in Procs \ {p} : episode'[q] = episode[q] /\ halfway'[q] = halfway[q]
  PROVE  /\ RegistryInv'
         /\ exclusive => /\ file.caps \ Rogue \subseteq file'.caps
                         /\ file.skills \subseteq file'.skills
         /\ file'.caps \cap Rogue \subseteq file.caps
  <1>1. registry' = [registry EXCEPT ![p] = r] /\ file' = r
    BY DEF SaveRegistry
  <1>2. registry'[p] = r /\ \A q \in Procs \ {p} : registry'[q] = registry[q]
    BY <1>1 DEF RegistryInv, Formed
  <1>3. Formed'
    BY <1>1, <1>2 DEF RegistryInv, Formed, IsRegistry
  <1>4. RegistryIsSound' /\ HalfwayHasCapability' /\ NoRogueSkill'
    BY <1>1, <1>2 DEF RegistryInv, RegistryIsSound, HalfwayHasCapability, NoRogueSkill
  <1>5. CopyIsFresh'
    BY <1>1, <1>2 DEF RegistryInv, Formed, CopyIsFresh
  <1> QED
    BY <1>1, <1>3, <1>4, <1>5 DEF RegistryInv, CopyIsFresh

LEMMA RegisterStep ==
  ASSUME SkillsAreLegal, RegistryInv, NEW p \in Procs,
         RegisterCapability(p) \/ RegisterSkill(p)
  PROVE  /\ RegistryInv'
         /\ exclusive => /\ file.caps \ Rogue \subseteq file'.caps
                         /\ file.skills \subseteq file'.skills
         /\ file'.caps \cap Rogue \subseteq file.caps
  <1> DEFINE s == SkillOf(episode[p])
  <1>1. s \notin Rogue
    BY DEF SkillsAreLegal, SkillOf
  <1>2. IsRegistry(registry[p]) /\ registry[p].skills \subseteq registry[p].caps
        /\ registry[p].caps \cap Rogue = {}
    BY DEF RegistryInv, Formed, RegistryIsSound
  <1>3. CASE RegisterCapability(p)
    <2> DEFINE r == [registry[p] EXCEPT !.caps = @ \cup {s}]
    <2>1. r.caps = registry[p].caps \cup {s} /\ r.skills = registry[p].skills /\ IsRegistry(r)
      BY <1>2 DEF IsRegistry
    <2>2. /\ SaveRegistry(p, r)
          /\ p \in running
          /\ halfway' = [halfway EXCEPT ![p] = TRUE]
          /\ UNCHANGED <<exclusive, running, episode>>
      BY <1>3 DEF RegisterCapability, Free, atomVars
    <2> HIDE DEF r, s
    <2>3. /\ halfway' \in [Procs -> BOOLEAN]
          /\ episode' = [q \in Procs |-> episode'[q]]
          /\ \A q \in Procs \ {p} : episode'[q] = episode[q] /\ halfway'[q] = halfway[q]
      BY <2>2 DEF RegistryInv, Formed
    <2>4. SkillOf(episode'[p]) \in r.caps
      BY <2>1, <2>2 DEF s
    <2> QED
      BY <1>1, <1>2, <2>1, <2>2, <2>3, <2>4, SaveStep
  <1>4. CASE RegisterSkill(p)
    <2> DEFINE r == [registry[p] EXCEPT !.skills = @ \cup {s}]
    <2>1. r.skills = registry[p].skills \cup {s} /\ r.caps = registry[p].caps /\ IsRegistry(r)
      BY <1>2 DEF IsRegistry
    <2>2. p \in running /\ s \in registry[p].caps
      BY <1>4 DEF RegisterSkill, RegistryInv, HalfwayHasCapability
    <2>3. /\ SaveRegistry(p, r)
          /\ halfway' = [halfway EXCEPT ![p] = FALSE]
          /\ episode' = [episode EXCEPT ![p] = NoEpisode]
          /\ UNCHANGED <<exclusive, running>>
      BY <1>4 DEF RegisterSkill, atomVars
    <2> HIDE DEF r, s
    <2>4. /\ halfway' \in [Procs -> BOOLEAN] /\ ~halfway'[p]
          /\ episode' = [q \in Procs |-> episode'[q]]
          /\ \A q \in Procs \ {p} : episode'[q] = episode[q] /\ halfway'[q] = halfway[q]
      BY <2>3 DEF RegistryInv, Formed
    <2> QED
      BY <1>2, <2>1, <2>2, <2>3, <2>4, SaveStep
  <1> QED
    BY <1>3, <1>4

LEMMA NextRegistry ==
  ASSUME SkillsAreLegal, RegistryInv, [Next]_vars
  PROVE  /\ RegistryInv'
         /\ exclusive => /\ file.caps \ Rogue \subseteq file'.caps
                         /\ file.skills \subseteq file'.skills
         /\ file'.caps \cap Rogue \subseteq file.caps
  <1>1. ASSUME NEW p \in Procs, Start(p) \/ Stop(p) \/ AtomStep(p) \/ PromotionStep(p)
        PROVE  /\ RegistryInv'
               /\ \/ file' = file
                  \/ RegisterCapability(p) \/ RegisterSkill(p)
    BY <1>1, StartStep, StopStep, AtomStepKeeps, EpisodeStep, RegisterStep DEF PromotionStep
  <1>2. CASE UNCHANGED vars
    <2>1. UNCHANGED <<file, registry, episode, halfway, exclusive, running>>
      BY <1>2 DEF vars, promotionVars, atomVars
    <2>2. episode' = [p \in Procs |-> episode'[p]]
      BY <2>1 DEF RegistryInv, Formed
    <2> QED
      BY <2>1, <2>2, OtherStep
  <1> QED
    BY <1>1, <1>2, RegisterStep DEF Next

(***************************************************************************)
(* Whatever stale copies are saved over each other and wherever processes  *)
(* are killed, a registered skill has its capability and no object holds   *)
(* an entry that asks for network access.                                  *)
(***************************************************************************)
THEOREM RegistrySound ==
  ASSUME SkillsAreLegal
  PROVE  Spec => []RegistryIsSound
  <1>1. Init => RegistryInv
    BY InitRegistry
  <1>2. RegistryInv /\ [Next]_vars => RegistryInv'
    BY NextRegistry
  <1>3. RegistryInv => RegistryIsSound
    BY DEF RegistryInv
  <1> QED
    BY <1>1, <1>2, <1>3, PTL DEF Spec

(***************************************************************************)
(* One process at a time never loses a registration, and an illegal entry  *)
(* never returns to the file.                                              *)
(***************************************************************************)
THEOREM RegistrationsKept ==
  ASSUME SkillsAreLegal
  PROVE  Spec => RegistrationsAreKept
  <1> DEFINE Kept == /\ exclusive => /\ file.caps \ Rogue \subseteq file'.caps
                                     /\ file.skills \subseteq file'.skills
                     /\ file'.caps \cap Rogue \subseteq file.caps
  <1>1. Init => RegistryInv
    BY InitRegistry
  <1>2. RegistryInv /\ [Next]_vars => RegistryInv' /\ [Kept]_vars
    BY NextRegistry
  <1>3. RegistrationsAreKept <=> [][Kept]_vars
    BY PTL DEF RegistrationsAreKept
  <1> QED
    BY <1>1, <1>2, <1>3, PTL DEF Spec

LEMMA FiniteUpTo ==
  ASSUME NEW n \in Nat, NEW S \in SUBSET (1 .. n)
  PROVE  IsFiniteSet(S) /\ Cardinality(S) \in Nat
  <1>1. 1 \in Int /\ n \in Int
    OBVIOUS
  <1>2. IsFiniteSet(1 .. n)
    BY <1>1, FS_Interval
  <1>3. IsFiniteSet(S)
    BY <1>2, FS_Subset
  <1> QED
    BY <1>3, FS_CardinalityType

(***************************************************************************)
(* Episodes.  A set of numbers up to n has a greatest one: of the          *)
(* intervals above its members there is a smallest.                        *)
(***************************************************************************)
LEMMA GreatestOfSome ==
  ASSUME NEW n \in Nat, NEW S \in SUBSET (1 .. n), S # {}
  PROVE  \E m \in S : \A k \in S : k <= m
  <1> DEFINE T == {m + 1 .. n : m \in S}
  <1>1. T \subseteq FiniteSubsetsOf(Nat) /\ T # {}
    <2>1. ASSUME NEW m \in S PROVE m + 1 .. n \in FiniteSubsetsOf(Nat)
      <3>1. m + 1 .. n \subseteq 1 .. n
        OBVIOUS
      <3>2. m + 1 .. n \in SUBSET (1 .. n) /\ m + 1 .. n \in SUBSET Nat
        BY <3>1
      <3>3. IsFiniteSet(m + 1 .. n)
        BY <3>2, FiniteUpTo
      <3> QED
        BY <3>2, <3>3 DEF FiniteSubsetsOf
    <2> QED
      BY <2>1
  <1>2. PICK x \in T : \A y \in T : <<y, x>> \notin StrictSubsetOrdering(Nat)
    BY <1>1, FS_StrictSubsetOrderingWellFounded, WFMin
  <1>3. PICK m \in S : x = m + 1 .. n
    BY <1>2
  <1>4. ASSUME NEW k \in S, m < k
        PROVE  FALSE
    <2>1. k + 1 .. n \in T /\ k + 1 .. n \subseteq Nat /\ x \subseteq Nat
      BY <1>3
    <2>2. k + 1 .. n \subseteq x /\ k \in x /\ k \notin k + 1 .. n
      BY <1>3, <1>4
    <2> QED
      BY <1>2, <2>1, <2>2 DEF StrictSubsetOrdering
  <1> QED
    BY <1>4

LEMMA AscendingIs ==
  ASSUME NEW n \in Nat, NEW S \in SUBSET (1 .. n), NEW at \in Ascending(S)
  PROVE  Len(at) \in Nat /\ \A i \in 1 .. Len(at) : at[i] \in S
  <1>2. Cardinality(S) \in Nat
    BY FiniteUpTo
  <1>3. at \in [1 .. Cardinality(S) -> S]
    BY DEF Ascending
  <1> QED
    BY <1>2, <1>3

(***************************************************************************)
(* Sorting the atoms of a task by stamp loses none and adds none: what the *)
(* episode tells stands in the lines of the task, its status is that of    *)
(* its last closing event, and if the clock went forward its order is the  *)
(* order of the file.                                                      *)
(***************************************************************************)
LEMMA RebuiltIsTold ==
  ASSUME AtomsTypeOK, StampsAreLined, NEW k \in Tasks, Lines(Len(lines), k) # {},
         NEW e \in Reconstruct(k)
  PROVE  /\ e \in Episodes
         /\ e.status = "completed" => WasCompleted(SkillOf(e))
  <1>n. PICK n \in Nat : n = Len(lines)
    BY LenProperties DEF AtomsTypeOK
  <1> DEFINE L == Lines(n, k)
             S == StampsOf(n, k)
             Idx(s) == CHOOSE i \in L : lines[i].stamp = s
             f == [s \in S |-> Idx(s)]
  <1>l. L \subseteq 1 .. n /\ \A i \in L : lines[i].task = k /\ lines[i].stamp \in S
    BY DEF Lines, StampsOf
  <1>a. \A i \in 1 .. n : lines[i] \in Atom
    BY <1>n, ElementOfSeq DEF AtomsTypeOK
  <1>1. \A s \in S : Idx(s) \in L /\ lines[Idx(s)].stamp = s
    <2> SUFFICES ASSUME NEW s \in S PROVE \E i \in L : lines[i].stamp = s
      OBVIOUS
    <2> QED
      BY DEF StampsOf
  <1>2. IsFiniteSet(L) /\ Cardinality(L) \in Nat
    BY <1>l, FiniteUpTo
  <1> HIDE DEF Idx, L, S
  <1>u. \A i, j \in 1 .. n : lines[i].stamp = lines[j].stamp => i = j
    BY <1>n DEF StampsAreLined
  <1>3. f \in Injection(S, L) /\ f \in Surjection(S, L)
    <2>1. f \in [S -> L]
      BY <1>1
    <2>2. \A s, t \in S : f[s] = f[t] => s = t
      BY <1>1
    <2>3. \A i \in L : lines[i].stamp \in S /\ f[lines[i].stamp] = i
      BY <1>1, <1>l, <1>u
    <2> QED
      BY <2>1, <2>2, <2>3, Fun_IsInj, Fun_IsSurj
  <1>4. IsFiniteSet(S) /\ Cardinality(S) = Cardinality(L)
    BY <1>2, <1>3, FS_Injection
  <1> DEFINE c == Cardinality(S)
  <1>5. c \in Nat /\ c = Cardinality(L)
    BY <1>2, <1>4
  <1>6. PICK order \in Ascending(S) : e = FromAtoms(k, order)
    BY <1>n DEF Reconstruct, S
  <1>7. /\ order \in [1 .. c -> S]
        /\ \A i, j \in 1 .. c : i < j => order[i] < order[j]
    BY <1>6 DEF Ascending
  <1> HIDE DEF c
  <1>8. Len(order) = c
    BY <1>5, <1>7
  <1>9. \A s \in S : AtomOf(s) = lines[Idx(s)]
    <2> SUFFICES ASSUME NEW s \in S PROVE AtomOf(s) = lines[Idx(s)]
      OBVIOUS
    <2>1. lines[Idx(s)] \in {lines[i] : i \in 1 .. n} /\ lines[Idx(s)].stamp = s
      BY <1>1, <1>l
    <2>2. \A a \in {lines[i] : i \in 1 .. n} : a.stamp = s => a = lines[Idx(s)]
      BY <1>1, <1>l, <1>u
    <2> QED
      BY <1>n, <2>1, <2>2 DEF AtomOf
  <1> DEFINE at == [i \in 1 .. c |-> Idx(order[i])]
  <1>10. \A i \in 1 .. c : /\ at[i] \in L /\ lines[at[i]].stamp = order[i]
                          /\ AtomOf(order[i]) = lines[at[i]]
                          /\ lines[at[i]] \in Atom
    BY <1>1, <1>7, <1>9, <1>a, <1>l
  <1> DEFINE closing == {i \in 1 .. c : lines[at[i]].kind \in Closing}
  <1>11. /\ e.task = k
         /\ e.events = [i \in 1 .. c |-> Content(lines[at[i]])]
         /\ e = [task |-> e.task, events |-> e.events, status |-> e.status]
         /\ closing = {} => e.status = "open"
         /\ closing # {} =>
              e.status = lines[at[CHOOSE i \in closing : \A j \in closing : j <= i]].kind
    <2>1. [i \in 1 .. Len(order) |-> Content(AtomOf(order[i]))]
            = [i \in 1 .. c |-> Content(lines[at[i]])]
      BY <1>8, <1>10
    <2>2. {i \in 1 .. Len(order) : AtomOf(order[i]).kind \in Closing} = closing
      BY <1>8, <1>10
    <2>3. closing # {} =>
            (CHOOSE i \in closing : \A j \in closing : j <= i) \in 1 .. c
      BY <1>5, GreatestOfSome
    <2> QED
      BY <1>6, <1>10, <2>1, <2>2, <2>3 DEF FromAtoms
  <1>12. closing # {} =>
           \E i \in closing : /\ \A j \in closing : j <= i
                              /\ e.status = lines[at[i]].kind
    BY <1>5, <1>11, GreatestOfSome
  <1> HIDE DEF at
  <1>13. e.events \in Seq(Event) /\ Len(e.events) = c
    <2>1. \A i \in 1 .. c : Content(lines[at[i]]) \in Event
      BY <1>10 DEF Content, Event, Atom
    <2>2. e.events \in [1 .. c -> Event]
      BY <1>11, <2>1
    <2> QED
      BY <1>5, <2>2
  <1>14. e \in Episodes
    BY <1>11, <1>12, <1>13 DEF Episodes, Closing
  <1>15. ASSUME e.status = "completed"
         PROVE  WasCompleted(SkillOf(e))
    <2>1. PICK i \in closing : /\ \A j \in closing : j <= i
                               /\ lines[at[i]].kind = "completed"
      BY <1>11, <1>12, <1>15
    <2>2. i \in 1 .. c /\ at[i] \in 1 .. n /\ lines[at[i]].task = k
      BY <1>10, <1>l
    <2>3. SkillOf(e).task = k /\ SkillOf(e).events = e.events
      BY <1>11 DEF SkillOf
    <2>4. EndsCompleted(e.events)
      <3>1. e.events[i].kind = "completed"
        BY <1>11, <2>1, <2>2 DEF Content
      <3>2. ASSUME NEW j \in i + 1 .. c
            PROVE  e.events[j].kind # "failed"
        <4>1. j \in 1 .. c /\ ~(j <= i)
          BY <2>2, <3>2, <1>5
        <4>2. j \notin closing
          BY <2>1, <4>1
        <4>3. lines[at[j]].kind # "failed"
          BY <4>1, <4>2 DEF Closing
        <4> QED
          BY <1>11, <4>1, <4>3 DEF Content
      <3> QED
        BY <1>13, <2>2, <3>1, <3>2 DEF EndsCompleted
    <2>5. ASSUME ClockForward
          PROVE  e.events \in History(n, k)
      <3>1. ASSUME NEW g \in 1 .. c, NEW h \in 1 .. c, g < h
            PROVE  at[g] < at[h]
        <4>1. at[g] \in 1 .. n /\ at[h] \in 1 .. n
          BY <1>10, <1>l
        <4>2. lines[at[g]].stamp < lines[at[h]].stamp
          BY <1>7, <1>10, <3>1
        <4>3. lines[at[g]].stamp \in Nat /\ lines[at[h]].stamp \in Nat
          BY <1>a, <4>1, StampAssumption DEF Atom
        <4>4. at[h] < at[g] => lines[at[h]].stamp < lines[at[g]].stamp
          BY <1>n, <2>5, <4>1 DEF ClockForward
        <4> QED
          BY <4>1, <4>2, <4>3, <4>4
      <3>2. at \in [1 .. c -> L]
        BY <1>10 DEF at
      <3>3. at \in Ascending(L)
        BY <1>5, <3>1, <3>2 DEF Ascending
      <3>4. Len(at) = c
        BY <1>5, <3>2
      <3> QED
        BY <1>11, <3>3, <3>4 DEF History, L
    <2>6. n \in 1 .. n
      BY <2>2
    <2> QED
      BY <1>n, <2>1, <2>2, <2>3, <2>4, <2>5, <2>6 DEF WasCompleted
  <1> QED
    BY <1>14, <1>15

\* Lines are only ever added at the end.
LEMMA LinesGrow ==
  ASSUME HashTotal, AtomsInv, [AtomAct]_atomVars
  PROVE  /\ Len(lines) \in Nat /\ Len(lines') \in Nat
         /\ Len(lines) <= Len(lines')
         /\ \A i \in 1 .. Len(lines) : lines'[i] = lines[i]
  <1>0. Len(lines) \in Nat
    BY LenProperties DEF AtomsInv, AtomsTyped, AtomsTypeOK
  <1>1. CASE lines' = lines
    BY <1>0, <1>1
  <1>2. CASE lines' # lines
    <2>1. PICK p \in Procs : \E a \in held[p] : WriteAtom(p, a)
      BY <1>2, OnlyWriteAtom
    <2>2. PICK a \in held[p] : WriteAtom(p, a)
      BY <2>1
    <2>3. /\ Len(lines') = Len(lines) + 1
          /\ \A i \in 1 .. Len(lines) : lines'[i] = lines[i]
      BY <2>2, WriteAtomEffect DEF AtomsInv
    <2> QED
      BY <1>0, <2>3
  <1> QED
    BY <1>1, <1>2

\* What was completed once was completed, whatever is appended.
LEMMA CompletedStays ==
  ASSUME HashTotal, AtomsInv, [AtomAct]_atomVars, NEW s, WasCompleted(s)
  PROVE  WasCompleted(s)'
  <1>n. PICK n \in Nat : n = Len(lines)
    BY LinesGrow
  <1>1. /\ \A i \in 1 .. n : i \in 1 .. Len(lines') /\ lines'[i] = lines[i]
        /\ Len(lines') \in Nat
    <2>1. /\ n <= Len(lines') /\ Len(lines') \in Nat
          /\ \A i \in 1 .. n : lines'[i] = lines[i]
      BY <1>n, LinesGrow
    <2> QED
      BY <2>1
  <1>2. ASSUME NEW m \in 1 .. n
        PROVE  History(m, s.task)' = History(m, s.task)
    <2> DEFINE L == Lines(m, s.task)
    <2>1. \A i \in 1 .. m : i \in 1 .. n
      OBVIOUS
    <2>2. Lines(m, s.task)' = L /\ L \in SUBSET (1 .. m)
      BY <1>1, <2>1 DEF Lines
    <2> HIDE DEF L
    <2>3. Ascending(Lines(m, s.task)') = Ascending(L)
      BY <2>2
    <2>4. ASSUME NEW at \in Ascending(L)
          PROVE  [i \in 1 .. Len(at) |-> Content(lines'[at[i]])]
                   = [i \in 1 .. Len(at) |-> Content(lines[at[i]])]
      <3>1. \A i \in 1 .. Len(at) : at[i] \in 1 .. n
        BY <2>1, <2>2, <2>4, AscendingIs
      <3> QED
        BY <3>1, <1>1
    <2>5. History(m, s.task) = {[i \in 1 .. Len(at) |-> Content(lines[at[i]])] : at \in Ascending(L)}
      BY DEF History, L
    <2>6. History(m, s.task)' =
            {[i \in 1 .. Len(at) |-> Content(lines'[at[i]])] : at \in Ascending(L)}
      BY <2>3 DEF History, Ascending, Content
    <2> QED
      BY <2>4, <2>5, <2>6
  <1>3. \E i \in 1 .. Len(lines') : lines'[i].task = s.task /\ lines'[i].kind = "completed"
    BY <1>n, <1>1 DEF WasCompleted
  <1>4. ASSUME ClockForward'
        PROVE  /\ \E m \in 1 .. Len(lines') : s.events \in History(m, s.task)'
               /\ EndsCompleted(s.events)
    <2>1. ClockForward
      BY <1>n, <1>1, <1>4 DEF ClockForward
    <2>2. /\ \E m \in 1 .. n : s.events \in History(m, s.task)
          /\ EndsCompleted(s.events)
      BY <1>n, <2>1 DEF WasCompleted
    <2> QED
      BY <1>1, <1>2, <2>2
  <1> QED
    BY <1>3, <1>4 DEF WasCompleted, EndsCompleted

(***************************************************************************)
(* Every value of the registry is typed; every completed episode at hand,  *)
(* and every capability and skill in the file or in a copy, was completed  *)
(* when it was rebuilt.                                                    *)
(***************************************************************************)
HalfwayHasEpisode == \A p \in Procs : halfway[p] => episode[p] # NoEpisode

Told(r) == \A s \in r.skills \cup (r.caps \ Rogue) : WasCompleted(s)

ToldInv ==
  /\ TypeOK
  /\ HalfwayHasEpisode
  /\ \A p \in Procs : episode[p] # NoEpisode =>
       /\ episode[p].status = "completed" \/ halfway[p] => WasCompleted(SkillOf(episode[p]))
  /\ \A p \in Procs : Told(registry[p])
  /\ Told(file)

LEMMA InitTold == Init => ToldInv
  <1> SUFFICES ASSUME Init PROVE ToldInv
    OBVIOUS
  <1>1. AtomsTypeOK
    BY InitAtomsTyped DEF Init, AtomsTyped
  <1>2. Empty \in Registry /\ [Empty EXCEPT !.caps = Rogue] \in Registry
    BY DEF Empty, Registry
  <1>3. /\ Empty.skills = {} /\ Empty.caps = {}
        /\ file.skills = {} /\ file.caps \ Rogue = {}
    BY DEF Init, Empty
  <1> QED
    BY <1>1, <1>2, <1>3 DEF Init, TypeOK, ToldInv, HalfwayHasEpisode, Told

\* The registries, and the episodes they are made of, in one step.
LEMMA ToldStep ==
  ASSUME ToldInv, AtomsTypeOK', \A s : WasCompleted(s) => WasCompleted(s)',
         NEW p \in Procs, NEW r \in Registry, NEW e \in Episodes \cup {NoEpisode},
         NEW b \in BOOLEAN,
         \A s \in r.skills \cup (r.caps \ Rogue) : WasCompleted(s),
         registry' = [registry EXCEPT ![p] = r],
         episode' = [episode EXCEPT ![p] = e],
         halfway' = [halfway EXCEPT ![p] = b],
         file' = file \/ file' = r,
         b => e # NoEpisode,
         e # NoEpisode /\ (e.status = "completed" \/ b) => WasCompleted(SkillOf(e))
  PROVE  ToldInv'
  <1>1. TypeOK
    BY DEF ToldInv
  <1>2. TypeOK'
    BY <1>1 DEF TypeOK
  <1>3. /\ registry'[p] = r /\ episode'[p] = e /\ halfway'[p] = b
        /\ \A q \in Procs \ {p} : /\ registry'[q] = registry[q]
                                  /\ episode'[q] = episode[q]
                                  /\ halfway'[q] = halfway[q]
    BY <1>1 DEF TypeOK
  <1>4. HalfwayHasEpisode'
    BY <1>3 DEF ToldInv, HalfwayHasEpisode
  <1>5. ASSUME NEW q \in Procs, NEW s, episode'[q] # NoEpisode,
               episode'[q].status = "completed" \/ halfway'[q], s = SkillOf(episode'[q])
        PROVE  WasCompleted(s)'
    <2>1. CASE q = p
      <3>1. WasCompleted(SkillOf(e)) /\ s = SkillOf(e)
        BY <1>3, <1>5, <2>1
      <3> QED
        BY <3>1
    <2>2. CASE q # p
      <3>1. WasCompleted(SkillOf(episode[q])) /\ s = SkillOf(episode[q])
        BY <1>3, <1>5, <2>2 DEF ToldInv
      <3> QED
        BY <3>1
    <2> QED
      BY <2>1, <2>2
  <1>6. ASSUME NEW q \in Procs, NEW s \in registry'[q].skills \cup (registry'[q].caps \ Rogue)
        PROVE  WasCompleted(s)'
    BY <1>3, <1>6 DEF ToldInv, Told
  <1>7. ASSUME NEW s \in file'.skills \cup (file'.caps \ Rogue)
        PROVE  WasCompleted(s)'
    BY <1>7 DEF ToldInv, Told
  <1>8. \A q \in Procs : (episode[q] # NoEpisode =>
          (episode[q].status = "completed" \/ halfway[q] => WasCompleted(SkillOf(episode[q]))))'
    <2> SUFFICES ASSUME NEW q \in Procs, episode'[q] # NoEpisode,
                        episode'[q].status = "completed" \/ halfway'[q]
                 PROVE  WasCompleted(SkillOf(episode[q]))'
      OBVIOUS
    <2>1. PICK s : s = SkillOf(episode'[q])
      OBVIOUS
    <2>2. WasCompleted(s)'
      BY <1>5, <2>1
    <2> QED
      BY <2>1, <2>2 DEF WasCompleted, SkillOf
  <1>9. (\A q \in Procs : Told(registry[q]))'
    BY <1>6 DEF Told
  <1>10. Told(file)'
    BY <1>7 DEF Told
  <1> QED
    BY <1>2, <1>4, <1>8, <1>9, <1>10 DEF ToldInv

LEMMA StepTold ==
  ASSUME HashTotal, AtomsInv, ToldInv, [Next]_vars
  PROVE  ToldInv'
  <1>1. [AtomAct]_atomVars
    BY AtomSteps
  <1>2. \A s : WasCompleted(s) => WasCompleted(s)'
    BY <1>1, CompletedStays
  <1>3. AtomsTypeOK' /\ AtomsTypeOK /\ StampsAreLined
    BY <1>1, StepAtomsTyped DEF AtomsInv, AtomsTyped
  <1>4. /\ file \in Registry
        /\ \A p \in Procs : /\ registry[p] \in Registry
                            /\ episode[p] \in Episodes \cup {NoEpisode}
                            /\ halfway[p] \in BOOLEAN
                            /\ halfway[p] => episode[p] # NoEpisode
        /\ registry = [p \in Procs |-> registry[p]]
        /\ episode = [p \in Procs |-> episode[p]]
        /\ halfway = [p \in Procs |-> halfway[p]]
    BY DEF ToldInv, TypeOK, HalfwayHasEpisode
  <1>5. ASSUME NEW p \in Procs, Start(p)
        PROVE  ToldInv'
    <2>1. /\ Load(file) \in Registry
          /\ Load(file).skills = file.skills
          /\ Load(file).caps = file.caps \ Rogue
      BY <1>4 DEF Load, Registry
    <2>2. \A s \in Load(file).skills \cup (Load(file).caps \ Rogue) : WasCompleted(s)
      BY <2>1 DEF ToldInv, Told
    <2>3. /\ registry' = [registry EXCEPT ![p] = Load(file)]
          /\ episode' = [episode EXCEPT ![p] = episode[p]]
          /\ halfway' = [halfway EXCEPT ![p] = halfway[p]]
          /\ file' = file
      BY <1>4, <1>5 DEF Start
    <2>4. /\ halfway[p] => episode[p] # NoEpisode
          /\ episode[p] # NoEpisode /\ (episode[p].status = "completed" \/ halfway[p]) =>
               WasCompleted(SkillOf(episode[p]))
      BY <1>4 DEF ToldInv
    <2> HIDE DEF ToldInv
    <2> QED
      BY <1>2, <1>3, <1>4, <2>1, <2>2, <2>3, <2>4, ToldStep
  <1>6. ASSUME NEW p \in Procs, Stop(p)
        PROVE  ToldInv'
    <2>1. Empty \in Registry /\ Empty.skills = {} /\ Empty.caps = {}
      BY DEF Empty, Registry
    <2> QED
      BY <1>2, <1>3, <1>6, <2>1, ToldStep DEF Stop
  <1>7. ASSUME NEW p \in Procs, AtomStep(p)
        PROVE  ToldInv'
    <2>1. UNCHANGED <<file, registry, episode, halfway>>
      BY <1>7 DEF AtomStep, promotionVars
    <2>2. TypeOK'
      BY <1>3, <2>1 DEF ToldInv, TypeOK
    <2> QED
      BY <1>2, <2>1, <2>2 DEF ToldInv, HalfwayHasEpisode, Told, SkillOf
  <1>8. ASSUME NEW p \in Procs, NEW k \in Tasks, Rebuild(p, k)
        PROVE  ToldInv'
    <2>1. PICK e \in Reconstruct(k) : episode' = [episode EXCEPT ![p] = e]
      BY <1>8 DEF Rebuild
    <2>2. e \in Episodes /\ (e.status = "completed" => WasCompleted(SkillOf(e)))
      BY <1>3, <1>8, RebuiltIsTold DEF Rebuild
    <2>3. /\ ~halfway[p]
          /\ registry' = [registry EXCEPT ![p] = registry[p]]
          /\ halfway' = [halfway EXCEPT ![p] = FALSE]
          /\ file' = file
      BY <1>4, <1>8 DEF Rebuild, Free
    <2>4. \A s \in registry[p].skills \cup (registry[p].caps \ Rogue) : WasCompleted(s)
      BY DEF ToldInv, Told
    <2> QED
      BY <1>2, <1>3, <1>4, <2>1, <2>2, <2>3, <2>4, ToldStep
  <1>9. ASSUME NEW p \in Procs, Drop(p)
        PROVE  ToldInv'
    <2>1. /\ registry' = [registry EXCEPT ![p] = registry[p]]
          /\ halfway' = [halfway EXCEPT ![p] = FALSE]
          /\ episode' = [episode EXCEPT ![p] = NoEpisode]
          /\ file' = file
      BY <1>4, <1>9 DEF Drop, Free
    <2>2. \A s \in registry[p].skills \cup (registry[p].caps \ Rogue) : WasCompleted(s)
      BY DEF ToldInv, Told
    <2> QED
      BY <1>2, <1>3, <1>4, <2>1, <2>2, ToldStep
  <1>10. ASSUME NEW p \in Procs, episode[p] # NoEpisode, WasCompleted(SkillOf(episode[p]))
         PROVE  /\ [registry[p] EXCEPT !.caps = @ \cup {SkillOf(episode[p])}] \in Registry
                /\ [registry[p] EXCEPT !.skills = @ \cup {SkillOf(episode[p])}] \in Registry
                /\ Told([registry[p] EXCEPT !.caps = @ \cup {SkillOf(episode[p])}])
                /\ Told([registry[p] EXCEPT !.skills = @ \cup {SkillOf(episode[p])}])
    <2>1. SkillOf(episode[p]) \in Skill
      BY <1>4, <1>10 DEF Episodes, SkillOf, Skill
    <2>2. Told(registry[p])
      BY DEF ToldInv
    <2> QED
      BY <1>4, <1>10, <2>1, <2>2 DEF Registry, Told
  <1>11. ASSUME NEW p \in Procs, RegisterCapability(p)
         PROVE  ToldInv'
    <2>1. episode[p] # NoEpisode /\ WasCompleted(SkillOf(episode[p]))
      BY <1>11 DEF RegisterCapability, ValidEpisode, ToldInv
    <2> DEFINE r == [registry[p] EXCEPT !.caps = @ \cup {SkillOf(episode[p])}]
    <2>2. r \in Registry /\ \A s \in r.skills \cup (r.caps \ Rogue) : WasCompleted(s)
      BY <1>10, <2>1 DEF Told
    <2>3. /\ registry' = [registry EXCEPT ![p] = r]
          /\ file' = r
          /\ halfway' = [halfway EXCEPT ![p] = TRUE]
          /\ episode' = [episode EXCEPT ![p] = episode[p]]
      BY <1>4, <1>11 DEF RegisterCapability, SaveRegistry
    <2> HIDE DEF r
    <2> QED
      BY <1>2, <1>3, <1>4, <2>1, <2>2, <2>3, ToldStep
  <1>12. ASSUME NEW p \in Procs, RegisterSkill(p)
         PROVE  ToldInv'
    <2>1. episode[p] # NoEpisode /\ WasCompleted(SkillOf(episode[p]))
      BY <1>4, <1>12 DEF RegisterSkill, ToldInv
    <2> DEFINE r == [registry[p] EXCEPT !.skills = @ \cup {SkillOf(episode[p])}]
    <2>2. r \in Registry /\ \A s \in r.skills \cup (r.caps \ Rogue) : WasCompleted(s)
      BY <1>10, <2>1 DEF Told
    <2>3. /\ registry' = [registry EXCEPT ![p] = r]
          /\ file' = r
          /\ halfway' = [halfway EXCEPT ![p] = FALSE]
          /\ episode' = [episode EXCEPT ![p] = NoEpisode]
      BY <1>4, <1>12 DEF RegisterSkill, SaveRegistry
    <2> HIDE DEF r
    <2> QED
      BY <1>2, <1>3, <2>2, <2>3, ToldStep
  <1>13. CASE UNCHANGED vars
    <2>1. UNCHANGED <<file, registry, episode, halfway>>
      BY <1>13 DEF vars, promotionVars
    <2>2. TypeOK'
      BY <1>3, <2>1 DEF ToldInv, TypeOK
    <2> QED
      BY <1>2, <2>1, <2>2 DEF ToldInv, HalfwayHasEpisode, Told, SkillOf
  <1> QED
    BY <1>5, <1>6, <1>7, <1>8, <1>9, <1>11, <1>12, <1>13 DEF Next, PromotionStep

LEMMA ToldInvariant ==
  ASSUME HashTotal, BodiesApart, NeverGenesis
  PROVE  Spec => []ToldInv
  <1>1. Init => ToldInv
    BY InitTold
  <1>2. AtomsInv /\ ToldInv /\ [Next]_vars => ToldInv'
    BY StepTold
  <1> QED
    BY <1>1, <1>2, AtomsInvariant, PTL DEF Spec

(***************************************************************************)
(* The files, the objects and the episodes hold values of their types: a   *)
(* line is a whole atom, an episode has events and a status, a registry    *)
(* has skills and capabilities.                                            *)
(***************************************************************************)
THEOREM PromotionTyped ==
  ASSUME HashTotal, BodiesApart, NeverGenesis
  PROVE  Spec => []TypeOK
  <1>1. ToldInv => TypeOK
    BY DEF ToldInv
  <1> QED
    BY <1>1, ToldInvariant, PTL

(***************************************************************************)
(* A registered capability or skill was completed: its task has a          *)
(* completed atom in the file, and if the clock always went forward its    *)
(* content is the history of the task up to some line and ends completed,  *)
(* whatever was appended, saved over or killed since.                      *)
(***************************************************************************)
THEOREM PromotedWasCompleted ==
  ASSUME HashTotal, BodiesApart, NeverGenesis
  PROVE  Spec => []RegisteredWasCompleted
  <1>1. ToldInv => RegisteredWasCompleted
    BY DEF ToldInv, Told, RegisteredWasCompleted
  <1> QED
    BY <1>1, ToldInvariant, PTL
=============================================================================
