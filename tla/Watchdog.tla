------------------------------- MODULE Watchdog -------------------------------
(***************************************************************************)
(* JKillnHide, the integrity watchdog, over a workspace: it hashes the     *)
(* watched files, compares the hashes with a baseline, and in front of a   *)
(* daemon's run_task refuses to run on anything but a clean comparison.    *)
(*                                                                         *)
(* twin_state is a watched directory and it is the program's own: the      *)
(* commands of the watchdog save the engine they loaded, with four atoms   *)
(* of the watchdog in it, and every run of the daemon saves the engine it  *)
(* ran on.  A saved engine is what tells one content from another: what    *)
(* runs added to it, the random vectors of the watchdog's atoms, and the   *)
(* jump start it comes from, whose atoms carry the time they were created. *)
(* A run may leave a jump-start atom unpinned or remove it; the engine is  *)
(* then jump-started again where it is next checked, over what runs added. *)
(* Saving what was loaded writes the same bytes.                           *)
(*                                                                         *)
(* Commands and daemon cycles do not overlap.                              *)
(***************************************************************************)
EXTENDS FiniteSets

CONSTANTS
  DaemonLessons,   \* what runs of the guarded daemon add to the engine
  CommandLessons,  \* what unguarded runs add: cli run, cli daemon start
  Draws,           \* random draws of the atoms DEFENSE_* and JKILLNHIDE
  NoAtoms,         \* an engine without these atoms
  Starts,          \* calls of jump_start_v01, each at its own time
  NoStart,         \* an engine whose jump-start atoms are not all pinned
  Versions,        \* contents of the other watched files: keys, skills, ...
  NoBaseline       \* there is no defense/baseline.json

ASSUME AtomsAssumption == NoAtoms \notin Draws

ASSUME StartAssumption == NoStart \notin Starts

ASSUME OriginAssumption == DaemonLessons \cap CommandLessons = {}

Lessons == DaemonLessons \cup CommandLessons

Engine == [learned : SUBSET Lessons, atoms : Draws \cup {NoAtoms},
           core : Starts \cup {NoStart}]

Snapshots == [twin : Engine, others : Versions]

ASSUME BaselineAssumption == NoBaseline \notin Snapshots

VARIABLES
  twin,      \* the engine saved in twin_state
  others,    \* the other watched files
  baseline,  \* defense/baseline.json
  guarded,   \* a daemon with the watchdog attached is running
  engine,    \* the engine the daemon and its watchdog share
  action     \* the decision of the last guarded call

vars == <<twin, others, baseline, guarded, engine, action>>

Actions == {"none", "CONTINUE", "FREEZE", "REQUIRE_BASELINE", "KeyError"}

TypeOK ==
  /\ twin \in Engine
  /\ others \in Versions
  /\ baseline \in Snapshots \cup {NoBaseline}
  /\ guarded \in BOOLEAN
  /\ engine \in Engine
  /\ action \in Actions

NewEngine == [learned |-> {}, atoms |-> NoAtoms, core |-> NoStart]

\* Where verify_jump_start_integrity fails, jump_start_v01 is called.
Restarted(e, j) == IF e.core = NoStart THEN [e EXCEPT !.core = j] ELSE e

\* After cli init.
Init ==
  /\ \E j \in Starts : twin = Restarted(NewEngine, j)
  /\ others \in Versions
  /\ baseline = NoBaseline
  /\ guarded = FALSE
  /\ engine = NewEngine
  /\ action = "none"
-----------------------------------------------------------------------------
\* Faulty variant: only twin_state is watched.
SnapshotTwin == [twin |-> twin]

\* snapshot_file_hashes: every watched file.
Snapshot == [twin |-> twin, others |-> others]

Drift == baseline # NoBaseline /\ baseline # Snapshot

\* With no baseline the status is MISSING_BASELINE, neither of the two.
Clean == baseline = Snapshot

\* Neither a draw nor the time of a jump start comes twice.
FreshStart(j) ==
  /\ j \notin {twin.core, engine.core}
  /\ baseline # NoBaseline => j # baseline.twin.core

Fresh(d, j) ==
  /\ FreshStart(j)
  /\ d \notin {twin.atoms, engine.atoms}
  /\ baseline # NoBaseline => d # baseline.twin.atoms

\* The constructor registers the atoms the engine lacks.
WithAtoms(e, d) == IF e.atoms = NoAtoms THEN [e EXCEPT !.atoms = d] ELSE e

\* An engine behind the constructor of the watchdog.
Constructed(e, d, j) == WithAtoms(Restarted(e, j), d)

\* Faulty variant: only the pinned atoms are saved.
CheckPruned(d, j) ==
  /\ Fresh(d, j)
  /\ twin' = [Constructed(twin, d, j) EXCEPT !.learned = {}]
  /\ UNCHANGED <<others, baseline, guarded, engine, action>>

\* cli jkillnhide check, and enforce: load, construct, compare, save.
Check(d, j) ==
  /\ Fresh(d, j)
  /\ twin' = Constructed(twin, d, j)
  /\ UNCHANGED <<others, baseline, guarded, engine, action>>

\* cli jkillnhide baseline: the files are hashed before the engine is saved.
Baseline(d, j) ==
  /\ Fresh(d, j)
  /\ baseline' = Snapshot
  /\ twin' = Constructed(twin, d, j)
  /\ UNCHANGED <<others, guarded, engine, action>>

(***************************************************************************)
(* What a run that adds ls may make of an engine.  A handler that          *)
(* registers a jump-start atom again, or removes it, adds something new:   *)
(* the atom's vector or its absence.                                       *)
(***************************************************************************)
After(e, ls) ==
  {[e EXCEPT !.learned = @ \cup ls]} \cup
  {x \in {[e EXCEPT !.learned = @ \cup ls, !.core = NoStart]} : ~(ls \subseteq e.learned)}

\* cli run: an engine is loaded, used and saved.
Run(l) ==
  /\ twin' \in After(twin, {l})
  /\ UNCHANGED <<others, baseline, guarded, engine, action>>

\* cli daemon start: run_task restarts the engine it loaded.
DaemonStart(l, j) ==
  /\ FreshStart(j)
  /\ twin' \in After(Restarted(twin, j), {l})
  /\ UNCHANGED <<others, baseline, guarded, engine, action>>

\* Somebody changes another watched file, or changes it back.
Edit(v) ==
  /\ v # others
  /\ others' = v
  /\ UNCHANGED <<twin, baseline, guarded, engine, action>>

\* A daemon is constructed, on a new engine, and the watchdog attached.
Attach(d, j) ==
  /\ ~guarded
  /\ Fresh(d, j)
  /\ guarded' = TRUE
  /\ engine' = Constructed(NewEngine, d, j)
  /\ UNCHANGED <<twin, others, baseline, action>>

\* write_baseline() on the attached watchdog.
WriteBaseline ==
  /\ guarded
  /\ baseline' = Snapshot
  /\ UNCHANGED <<twin, others, guarded, engine, action>>

\* A guarded call whose scan can encode its report.
Scans == guarded /\ engine.atoms # NoAtoms

\* The scan encodes its report with the atoms of the shared engine.
Raise ==
  /\ guarded
  /\ engine.atoms = NoAtoms
  /\ action' = "KeyError"
  /\ guarded' = FALSE
  /\ engine' = NewEngine
  /\ UNCHANGED <<twin, others, baseline>>

Refuse ==
  /\ Scans
  /\ ~Clean
  /\ action' = IF baseline = NoBaseline THEN "REQUIRE_BASELINE" ELSE "FREEZE"
  /\ UNCHANGED <<twin, others, baseline, guarded, engine>>

\* Faulty variant: the run goes on with the engine of the last one.
ExecuteUnloaded(ls, j) ==
  /\ Scans
  /\ Clean
  /\ FreshStart(j)
  /\ action' = "CONTINUE"
  /\ engine' \in After(Restarted(engine, j), ls)
  /\ twin' = engine'
  /\ UNCHANGED <<others, baseline, guarded>>

\* Faulty variant: a missing baseline is no obstacle.
ExecuteOpen(ls, j) ==
  /\ Scans
  /\ ~Drift
  /\ FreshStart(j)
  /\ action' = "CONTINUE"
  /\ engine' \in After(Restarted(twin, j), ls)
  /\ twin' = engine'
  /\ UNCHANGED <<others, baseline, guarded>>

\* run_task loads the saved engine into the shared one, runs and saves it.
\* A PASS with an episode always changes it: remember() touches SUCCESS.
Execute(ls, j) ==
  /\ Scans
  /\ Clean
  /\ FreshStart(j)
  /\ action' = "CONTINUE"
  /\ engine' \in After(Restarted(twin, j), ls)
  /\ twin' = engine'
  /\ UNCHANGED <<others, baseline, guarded>>

\* The task has passed before: run_task loads and returns, and saves nothing.
ExecutePassed(j) ==
  /\ Scans
  /\ Clean
  /\ FreshStart(j)
  /\ action' = "CONTINUE"
  /\ engine' = Restarted(twin, j)
  /\ UNCHANGED <<twin, others, baseline, guarded>>

\* run_task raises: the engine is loaded and not saved, the loop ends.
ExecuteRaises ==
  /\ Scans
  /\ Clean
  /\ action' = "CONTINUE"
  /\ guarded' = FALSE
  /\ engine' = NewEngine
  /\ UNCHANGED <<twin, others, baseline>>

\* The daemon's process ends or is killed.
Stop ==
  /\ guarded
  /\ guarded' = FALSE
  /\ engine' = NewEngine
  /\ UNCHANGED <<twin, others, baseline, action>>

\* A run adds at most one lesson that is new.
Taught == {{}} \cup {{l} : l \in DaemonLessons \ twin.learned}

Next ==
  \/ \E d \in Draws, j \in Starts : Check(d, j) \/ Baseline(d, j) \/ Attach(d, j)
  \/ \E l \in CommandLessons : Run(l)
  \/ \E l \in CommandLessons, j \in Starts : DaemonStart(l, j)
  \/ \E v \in Versions : Edit(v)
  \/ WriteBaseline
  \/ Refuse
  \/ \E ls \in Taught, j \in Starts : Execute(ls, j)
  \/ \E j \in Starts : ExecutePassed(j)
  \/ ExecuteRaises
  \/ Raise
  \/ Stop

Spec == Init /\ [][Next]_vars
-----------------------------------------------------------------------------
(***************************************************************************)
(* A baseline is good for one lesson: a run of the guarded daemon that     *)
(* changes the engine changes a watched directory, so the daemon refuses   *)
(* every later call until there is a new baseline.  Without a baseline it  *)
(* learns nothing at all.                                                  *)
(***************************************************************************)
OneLessonPerBaseline ==
  IF baseline = NoBaseline
  THEN twin.learned \cap DaemonLessons = {}
  ELSE \A l, m \in (twin.learned \ baseline.twin.learned) \cap DaemonLessons : l = m

(***************************************************************************)
(* Every alarm has one of four reasons: another file was changed, a run    *)
(* taught the engine something, or what was saved when the baseline was    *)
(* taken lacked the watchdog's atoms or a pinned jump start, and a later   *)
(* save added them.  Scans, baselines, restarts of the daemon and runs     *)
(* that teach nothing raise none on an engine that has both.               *)
(***************************************************************************)
AlarmsExplained ==
  Drift =>
    \/ others # baseline.others
    \/ twin.learned # baseline.twin.learned
    \/ baseline.twin.atoms = NoAtoms
    \/ baseline.twin.core = NoStart

(***************************************************************************)
(* A drift ends by a new baseline, or because another file is changed      *)
(* back: no check, no command and no cycle of the daemon puts the engine   *)
(* back to the state of the baseline.                                      *)
(***************************************************************************)
DriftEnds == Drift /\ ~Drift' => baseline' # baseline \/ others' # others

DriftEndsByBaseline == [][DriftEnds]_vars
=============================================================================
