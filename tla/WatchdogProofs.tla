---------------------------- MODULE WatchdogProofs ----------------------------
(***************************************************************************)
(* Proofs about Watchdog, for any lessons, draws and file versions.        *)
(***************************************************************************)
EXTENDS Watchdog, TLAPS

USE AtomsAssumption, StartAssumption, OriginAssumption, BaselineAssumption

(***************************************************************************)
(* The saved engine has everything it had when the baseline was taken; its *)
(* jump start is another one only if that was not whole, or if a run has   *)
(* added something since.                                                  *)
(***************************************************************************)
Kept ==
  baseline # NoBaseline =>
    /\ baseline.twin.learned \subseteq twin.learned
    /\ baseline.twin.atoms # NoAtoms => baseline.twin.atoms = twin.atoms
    /\ baseline.twin.core # NoStart /\ twin.learned = baseline.twin.learned
         => twin.core = baseline.twin.core

WatchdogInv == TypeOK /\ OneLessonPerBaseline /\ Kept

\* An engine only ever gets more, and a jump start is lost only with that.
GrowsTo(e, x) ==
  /\ e.learned \subseteq x.learned
  /\ e.atoms # NoAtoms => x.atoms = e.atoms
  /\ e.core # NoStart /\ x.learned = e.learned => x.core = e.core

Grows == GrowsTo(twin, twin')

\* The files that are hashed are a snapshot.
LEMMA SnapshotTyped == TypeOK => Snapshot \in Snapshots /\ Snapshot # NoBaseline
  BY DEF TypeOK, Snapshot, Snapshots

\* An engine behind the constructor has what it had, typed.
LEMMA RestartedTyped ==
  ASSUME NEW e \in Engine, NEW j \in Starts
  PROVE  /\ Restarted(e, j) \in Engine
         /\ Restarted(e, j).learned = e.learned
         /\ Restarted(e, j).atoms = e.atoms
         /\ GrowsTo(e, Restarted(e, j))
  BY DEF Restarted, Engine, GrowsTo

LEMMA ConstructedTyped ==
  ASSUME NEW e \in Engine, NEW d \in Draws, NEW j \in Starts
  PROVE  /\ Constructed(e, d, j) \in Engine
         /\ Constructed(e, d, j).learned = e.learned
         /\ GrowsTo(e, Constructed(e, d, j))
  <1>1. PICK x \in Engine : x = Restarted(e, j)
    BY RestartedTyped
  <1>2. x.learned = e.learned /\ x.atoms = e.atoms /\ GrowsTo(e, x)
    BY <1>1, RestartedTyped
  <1> QED
    BY <1>1, <1>2 DEF Constructed, WithAtoms, Engine, GrowsTo

\* An engine behind a run has what the run added, typed.
LEMMA AfterTyped ==
  ASSUME NEW e \in Engine, NEW ls \in SUBSET Lessons, NEW x \in After(e, ls)
  PROVE  /\ x \in Engine /\ x.learned = e.learned \cup ls /\ x.atoms = e.atoms
         /\ GrowsTo(e, x)
  <1>1. CASE x = [e EXCEPT !.learned = e.learned \cup ls]
    BY <1>1 DEF Engine, GrowsTo
  <1>2. CASE /\ x = [e EXCEPT !.learned = e.learned \cup ls, !.core = NoStart]
             /\ ~(ls \subseteq e.learned)
    BY <1>2 DEF Engine, GrowsTo
  <1> QED
    BY <1>1, <1>2 DEF After

\* A run on an engine that was restarted first.
LEMMA RestartedRunTyped ==
  ASSUME NEW e \in Engine, NEW j \in Starts, NEW ls \in SUBSET Lessons,
         NEW x \in After(Restarted(e, j), ls)
  PROVE  /\ x \in Engine /\ x.learned = e.learned \cup ls /\ x.atoms = e.atoms
         /\ GrowsTo(e, x)
  <1>1. PICK r \in Engine : r = Restarted(e, j)
    BY RestartedTyped
  <1>2. r.learned = e.learned /\ r.atoms = e.atoms /\ GrowsTo(e, r)
    BY <1>1, RestartedTyped
  <1>3. /\ x \in Engine /\ x.learned = r.learned \cup ls /\ x.atoms = r.atoms
        /\ GrowsTo(r, x)
    BY <1>1, AfterTyped
  <1> QED
    BY <1>2, <1>3 DEF GrowsTo

LEMMA NewEngineTyped == NewEngine \in Engine
  BY DEF NewEngine, Engine, Lessons

LEMMA InitWatchdog == Init => WatchdogInv
  <1> SUFFICES ASSUME Init PROVE WatchdogInv
    OBVIOUS
  <1>1. TypeOK
    BY NewEngineTyped, RestartedTyped DEF Init, TypeOK, Actions
  <1>2. twin.learned = {} /\ baseline = NoBaseline
    BY NewEngineTyped, RestartedTyped DEF Init, NewEngine
  <1>3. OneLessonPerBaseline /\ Kept
    BY <1>2 DEF OneLessonPerBaseline, Kept
  <1> QED
    BY <1>1, <1>3 DEF WatchdogInv

\* A command that checks, and one that takes a baseline.
LEMMA CommandStep ==
  ASSUME WatchdogInv, NEW d \in Draws, NEW j \in Starts,
         Check(d, j) \/ Baseline(d, j)
  PROVE  WatchdogInv' /\ Grows
  <1>1. twin' \in Engine /\ Grows /\ twin'.learned = twin.learned
    <2>1. twin' = Constructed(twin, d, j) /\ twin \in Engine
      BY DEF WatchdogInv, TypeOK, Check, Baseline
    <2> QED
      BY <2>1, ConstructedTyped DEF Grows
  <1>2. CASE Check(d, j)
    <2>1. TypeOK'
      BY <1>1, <1>2 DEF WatchdogInv, TypeOK, Check
    <2>2. OneLessonPerBaseline' /\ Kept'
      BY <1>1, <1>2 DEF WatchdogInv, TypeOK, Check, OneLessonPerBaseline, Kept, Grows,
         GrowsTo, Snapshots, Engine
    <2> QED
      BY <1>1, <2>1, <2>2 DEF WatchdogInv
  <1>3. CASE Baseline(d, j)
    <2>1. TypeOK'
      BY <1>1, <1>3, SnapshotTyped DEF WatchdogInv, TypeOK, Baseline
    <2>2. baseline'.twin = twin /\ baseline' # NoBaseline
      BY <1>3, SnapshotTyped DEF WatchdogInv, Baseline, Snapshot
    <2>3. OneLessonPerBaseline' /\ Kept'
      BY <1>1, <2>2 DEF OneLessonPerBaseline, Kept, Grows, GrowsTo
    <2> QED
      BY <1>1, <2>1, <2>3 DEF WatchdogInv
  <1> QED
    BY <1>2, <1>3

\* An unguarded run adds nothing the daemon teaches.
LEMMA RunStep ==
  ASSUME WatchdogInv, NEW l \in CommandLessons,
         Run(l) \/ \E j \in Starts : DaemonStart(l, j)
  PROVE  WatchdogInv' /\ Grows
  <1>1. {l} \in SUBSET Lessons /\ l \notin DaemonLessons /\ twin \in Engine
    BY DEF Lessons, WatchdogInv, TypeOK
  <1>2. /\ twin' \in Engine
        /\ twin'.learned = twin.learned \cup {l}
        /\ Grows
    <2>1. CASE Run(l)
      BY <2>1, <1>1, AfterTyped DEF Run, Grows
    <2>2. CASE \E j \in Starts : DaemonStart(l, j)
      BY <2>2, <1>1, RestartedRunTyped DEF DaemonStart, Grows
    <2> QED
      BY <2>1, <2>2
  <1>3. UNCHANGED <<others, baseline, guarded, engine, action>>
    BY DEF Run, DaemonStart
  <1>4. TypeOK'
    BY <1>2, <1>3 DEF WatchdogInv, TypeOK
  <1>5. OneLessonPerBaseline'
    BY <1>1, <1>2, <1>3 DEF WatchdogInv, OneLessonPerBaseline
  <1>6. Kept'
    BY <1>2, <1>3 DEF WatchdogInv, TypeOK, Snapshots, Engine, Kept, Grows, GrowsTo
  <1> QED
    BY <1>2, <1>4, <1>5, <1>6 DEF WatchdogInv

\* A run of the guarded daemon starts on the engine of the baseline.
LEMMA ExecuteStep ==
  ASSUME WatchdogInv, NEW ls \in Taught, NEW j \in Starts, Execute(ls, j)
  PROVE  WatchdogInv' /\ Grows
  <1>1. ls \subseteq DaemonLessons /\ ls \in SUBSET Lessons /\ \A l, m \in ls : l = m
    BY DEF Taught, Lessons
  <1>2. /\ twin' \in Engine /\ engine' = twin'
        /\ twin'.learned = twin.learned \cup ls
        /\ Grows
    BY <1>1, RestartedRunTyped DEF WatchdogInv, TypeOK, Execute, Grows
  <1>4. TypeOK'
    BY <1>2 DEF WatchdogInv, TypeOK, Execute, Actions
  <1>5. baseline' = baseline /\ baseline # NoBaseline /\ baseline.twin = twin
    BY SnapshotTyped DEF Execute, Clean, Snapshot, WatchdogInv
  <1>6. OneLessonPerBaseline'
    BY <1>1, <1>2, <1>5 DEF OneLessonPerBaseline
  <1>7. Kept'
    BY <1>2, <1>5 DEF Kept, Grows, GrowsTo
  <1> QED
    BY <1>2, <1>4, <1>6, <1>7 DEF WatchdogInv

\* The steps that leave the saved engine alone.
LEMMA OtherStep ==
  ASSUME WatchdogInv,
         \/ \E d \in Draws, j \in Starts : Attach(d, j)
         \/ \E v \in Versions : Edit(v)
         \/ \E j \in Starts : ExecutePassed(j)
         \/ WriteBaseline \/ Refuse \/ ExecuteRaises \/ Raise \/ Stop
         \/ UNCHANGED vars
  PROVE  WatchdogInv' /\ Grows
  <1>1. twin' = twin /\ Grows
    BY DEF Attach, Edit, ExecutePassed, WriteBaseline, Refuse, ExecuteRaises, Raise, Stop,
       vars, Grows, GrowsTo
  <1>2. TypeOK'
    <2>1. CASE \E d \in Draws, j \in Starts : Attach(d, j)
      BY <2>1, ConstructedTyped, NewEngineTyped DEF WatchdogInv, TypeOK, Attach
    <2>5. CASE \E j \in Starts : ExecutePassed(j)
      BY <2>5, RestartedTyped DEF WatchdogInv, TypeOK, ExecutePassed, Actions
    <2>2. CASE WriteBaseline
      BY <2>2, SnapshotTyped DEF WatchdogInv, TypeOK, WriteBaseline
    <2>3. CASE (\E v \in Versions : Edit(v)) \/ Refuse \/ ExecuteRaises \/ Raise \/ Stop
      BY <2>3, NewEngineTyped
      DEF WatchdogInv, TypeOK, Edit, Refuse, ExecuteRaises, Raise, Stop, Actions
    <2>4. CASE UNCHANGED vars
      BY <2>4 DEF WatchdogInv, TypeOK, vars
    <2> QED
      BY <2>1, <2>2, <2>3, <2>4, <2>5
  <1>3. baseline' = baseline \/ (baseline' = Snapshot /\ baseline' # NoBaseline)
    BY SnapshotTyped
    DEF WatchdogInv, Attach, Edit, ExecutePassed, WriteBaseline, Refuse, ExecuteRaises,
        Raise, Stop, vars
  <1>4. OneLessonPerBaseline' /\ Kept'
    BY <1>1, <1>3 DEF WatchdogInv, OneLessonPerBaseline, Kept, Snapshot
  <1> QED
    BY <1>1, <1>2, <1>4 DEF WatchdogInv

LEMMA NextStep == WatchdogInv /\ [Next]_vars => WatchdogInv' /\ Grows
  BY CommandStep, RunStep, ExecuteStep, OtherStep DEF Next

(***************************************************************************)
(* The invariant holds in every behaviour.                                 *)
(***************************************************************************)
THEOREM WatchdogInvariant == Spec => []WatchdogInv
  <1>1. WatchdogInv /\ [Next]_vars => WatchdogInv'
    BY NextStep
  <1> QED
    BY InitWatchdog, <1>1, PTL DEF Spec

(***************************************************************************)
(* The saved engine, the engine in memory, the baseline and the decision   *)
(* are of their types in every behaviour.                                  *)
(***************************************************************************)
THEOREM WatchdogTyped == Spec => []TypeOK
  <1>1. WatchdogInv => TypeOK
    BY DEF WatchdogInv
  <1> QED
    BY <1>1, WatchdogInvariant, PTL

(***************************************************************************)
(* However commands, edits and cycles follow each other: the guarded       *)
(* daemon learns at most one lesson per baseline.                          *)
(***************************************************************************)
THEOREM OneLesson == Spec => []OneLessonPerBaseline
  <1>1. WatchdogInv => OneLessonPerBaseline
    BY DEF WatchdogInv
  <1> QED
    BY <1>1, WatchdogInvariant, PTL

(***************************************************************************)
(* However commands, edits and cycles follow each other: every alarm has   *)
(* one of the four reasons.                                                *)
(***************************************************************************)
THEOREM AlarmsHaveReasons == Spec => []AlarmsExplained
  <1>1. WatchdogInv => AlarmsExplained
    BY DEF WatchdogInv, TypeOK, Kept, AlarmsExplained, Drift, Snapshot, Snapshots, Engine
  <1> QED
    BY <1>1, WatchdogInvariant, PTL

(***************************************************************************)
(* No command and no cycle ends a drift.                                   *)
(***************************************************************************)
THEOREM DriftNeedsBaseline == Spec => DriftEndsByBaseline
  <1>1. WatchdogInv /\ [Next]_vars => [DriftEnds]_vars
    <2> SUFFICES ASSUME WatchdogInv, [Next]_vars, Drift, ~Drift',
                        baseline' = baseline, others' = others
                 PROVE  FALSE
      BY DEF DriftEnds
    <2>1. Grows /\ TypeOK /\ TypeOK' /\ Kept
      BY NextStep DEF WatchdogInv
    <2>2. baseline.twin = twin' /\ baseline.others = others /\ baseline # NoBaseline
      BY DEF Drift, Snapshot
    <2>3. /\ twin.learned = twin'.learned /\ twin.atoms = twin'.atoms
          /\ twin.core = twin'.core
      BY <2>1, <2>2 DEF Grows, GrowsTo, Kept
    <2>4. twin = twin'
      BY <2>1, <2>3 DEF TypeOK, Engine
    <2> QED
      BY <2>2, <2>4 DEF Drift, Snapshot
  <1> QED
    BY <1>1, WatchdogInvariant, PTL DEF Spec, DriftEndsByBaseline
=============================================================================
