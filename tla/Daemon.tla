------------------------------- MODULE Daemon -------------------------------
(***************************************************************************)
(* CleanRoomDaemon: run_task executes the steps of a task through the      *)
(* orchestrator and the gate, writes what happened into the audit log, and *)
(* leaves a checkpoint from which a later call, or a later process, goes   *)
(* on.                                                                     *)
(*                                                                         *)
(* The daemon has the workspace to itself, so its ledger is the abstract   *)
(* AuditLog that Ledger implements for one process at a time.  An append   *)
(* is two steps, the line and then tip.json; every other file operation is *)
(* a step of its own, and the process may be killed between any two steps, *)
(* and inside the engine save, which writes several files in place.        *)
(*                                                                         *)
(* Steps are numbered from 0 as in the code; step i of task t is           *)
(* Steps[t][i + 1].  A handoff (state["last_output"]) is 0 for None and    *)
(* i + 1 for the output of step i.                                         *)
(***************************************************************************)
EXTENDS Naturals, Sequences, FiniteSets

CONSTANTS
  Tasks,             \* task ids
  Steps,             \* the packages of a task, in order
  Files,             \* checkpoint files
  CkptFile,          \* the file a task id is mapped to by _path
  Remembering,       \* the tasks with remember_on_pass
  RequireSignature,  \* the gate asks for a signature
  HasTrustedKeys,    \* the gate has a trusted verify key
  Modes,             \* the values of run_task's resume argument in use
  NoTask,            \* the task of an idle daemon
  MaxEntries,        \* bound: no run starts on a longer ledger
  MaxFaults,         \* bound on the handler calls that raise or leave something odd
  MaxCrashes,        \* bound on the kills of the daemon's process
  MaxDamaged         \* bound on the checkpoint files damaged from outside

Package == [network : {"true", "false", "absent"},
            signature : {"valid", "invalid", "placeholder"},
            needsHandoff : BOOLEAN]

ASSUME StepsAssumption ==
  /\ Steps \in [Tasks -> Seq(Package)]
  /\ \A t \in Tasks : Len(Steps[t]) > 0

ASSUME FileAssumption == CkptFile \in [Tasks -> Files]

ASSUME NoTaskAssumption == NoTask \notin Tasks

ASSUME SwitchAssumption ==
  /\ RequireSignature \in BOOLEAN
  /\ HasTrustedKeys \in BOOLEAN
  /\ Modes \subseteq BOOLEAN

NumSteps(t) == Len(Steps[t])
-----------------------------------------------------------------------------
(***************************************************************************)
(* What the daemon writes into the ledger.                                 *)
(***************************************************************************)
Outcomes == {"PASS", "FAIL"}

StartEvent(t) == [kind |-> "pipeline_start", task |-> t, index |-> 0, status |-> "none"]
CycleEvent(t, i) == [kind |-> "daemon_cycle", task |-> t, index |-> i, status |-> "none"]
StepEvent(t, i, s) == [kind |-> "pipeline_step", task |-> t, index |-> i, status |-> s]
MemoryEvent(t) == [kind |-> "memory_append", task |-> t, index |-> 0, status |-> "none"]
EndEvent(t, i, s) == [kind |-> "pipeline_end", task |-> t, index |-> i, status |-> s]
RejectEvent(t) == [kind |-> "checkpoint_reject", task |-> t, index |-> 0, status |-> "none"]

Kinds == {"pipeline_start", "daemon_cycle", "pipeline_step", "memory_append",
          "pipeline_end", "checkpoint_reject"}

LedgerEvents == [kind : Kinds, task : Tasks, index : Nat, status : Outcomes \cup {"none"}]

(***************************************************************************)
(* A checkpoint file; sound says that its checkpoint_hash matches.  The    *)
(* saved state is reduced to its handoff, completed_steps is done.         *)
(***************************************************************************)
StepRecord == [index : Nat, status : Outcomes]

Checkpoint == [status : {"none", "RUNNING", "PASS", "FAIL"}, next : Nat,
               handoff : Nat, done : Seq(StepRecord), sound : BOOLEAN]

NoCheckpoint == [status |-> "none", next |-> 0, handoff |-> 0, done |-> <<>>, sound |-> TRUE]

(***************************************************************************)
(* The gate passes on what a handler leaves without a look at it, so the   *)
(* writes behind the loop find what json.dumps refuses (an array, a bytes  *)
(* key), or writes but hashes as another text than is read back (keys that *)
(* are numbers, sorted as numbers here and as texts there):                *)
(*   telemetry  refused, in state["telemetry"], which every record holds   *)
(*   keys       refused, among the keys of the output of step at           *)
(*   value      refused, elsewhere in an output or the state               *)
(*   metadata   refused, in what engine.save writes of an atom             *)
(*   numbers    number keys in an output or the state                      *)
(*   counts     number keys in state["telemetry"]                          *)
(***************************************************************************)
OddKinds == {"telemetry", "keys", "value", "metadata", "numbers", "counts"}

Oddity == [what : OddKinds, at : Nat]

(***************************************************************************)
(* The local variables of a run_task call: results holds the gate statuses *)
(* of the steps executed by this call, recorded how many of them are in    *)
(* the ledger, odd what its handlers left behind.                          *)
(***************************************************************************)
Run == [task : Tasks \cup {NoTask}, start : Nat, handoff : Nat,
        results : Seq(Outcomes), recorded : Nat, done : Seq(StepRecord),
        odd : SUBSET Oddity]

NoRun == [task |-> NoTask, start |-> 0, handoff |-> 0, results |-> <<>>,
          recorded |-> 0, done |-> <<>>, odd |-> {}]

(***************************************************************************)
(* Skills leave atoms in the codebook; the atom of a step stands for what  *)
(* its handler registers.  The jump-start atoms are registered again by    *)
(* every run and are left out.                                             *)
(***************************************************************************)
Atoms == Tasks \X Nat

Twin == [kind : {"missing", "whole", "partial"}, atoms : SUBSET Atoms]

VARIABLES
  entries,   \* the events in ledger.jsonl
  status,    \* whether tip.json follows them
  ckpt,      \* the checkpoint files
  twin,      \* twin_state/: the saved engine
  episodes,  \* the number of episodes in the memory store, per task
  engine,    \* the atoms in the codebook of the running process
  pc,        \* how far run_task is
  run,       \* its local variables
  faults,    \* the handler calls that raised so far
  crashes,   \* the kills so far
  raised     \* the calls of run_task that an exception out of a write ended

vars ==
  <<entries, status, ckpt, twin, episodes, engine, pc, run, faults, crashes, raised>>

Audit == INSTANCE AuditLog WITH Events <- LedgerEvents

Places == {"down", "ready", "raising", "begin", "claim", "cycle", "step", "record",
           "remember", "note", "end", "close", "persist"}

TypeOK ==
  /\ Audit!AuditTypeOK
  /\ ckpt \in [Files -> Checkpoint]
  /\ twin \in Twin
  /\ episodes \in [Tasks -> Nat]
  /\ engine \in SUBSET Atoms
  /\ pc \in Places
  /\ run \in Run
  /\ (run.task = NoTask <=> pc \in {"down", "ready", "raising"})
  /\ faults \in Nat
  /\ crashes \in Nat
  /\ raised \in Nat

\* A new workspace and no process.
Init ==
  /\ Audit!AuditInit
  /\ ckpt = [f \in Files |-> NoCheckpoint]
  /\ twin = [kind |-> "missing", atoms |-> {}]
  /\ episodes = [t \in Tasks |-> 0]
  /\ engine = {}
  /\ pc = "down"
  /\ run = NoRun
  /\ faults = 0
  /\ crashes = 0
  /\ raised = 0
-----------------------------------------------------------------------------
\* No append is half done: the daemon's thread is not inside append().
Settled == status # "unsynced"

\* A handler of this run left something of this kind.
Odd(kind) == \E o \in run.odd : o.what = kind

\* A step record with telemetry that reads back in another order.
Garbled(e) == e.kind = "pipeline_step" /\ Odd("counts")

\* A line whose hash verify_chain will not find again.
Garble(e) ==
  /\ Settled
  /\ entries' = Append(entries, e)
  /\ status' = "broken"

\* append() up to the line; the step after it waits for tip.json.
Record(e) == IF Garbled(e) THEN Garble(e) ELSE Audit!Write(e)

SyncTip ==
  /\ Audit!Sync
  /\ UNCHANGED <<ckpt, twin, episodes, engine, pc, run, faults, crashes, raised>>

Saved(t) == ckpt[CkptFile[t]]

\* The text that save hashes is the one load will hash.
ReadsBack == ~Odd("numbers") /\ ~Odd("counts")

Save(t, s, i, h, d) ==
  ckpt' = [ckpt EXCEPT ![CkptFile[t]] =
             [status |-> s, next |-> i, handoff |-> h, done |-> d, sound |-> ReadsBack]]

\* _engine_bootstrap: without a twin_state directory the codebook stays.
Bootstrap == engine' = IF twin.kind = "missing" THEN engine ELSE twin.atoms

\* run_task is called, its ledger verifies, and the engine is loaded.
Enter(t) ==
  /\ pc = "ready"
  /\ status = "intact"
  /\ Len(entries) < MaxEntries
  /\ Bootstrap

\* The checkpoint is looked at: it exists and resume is asked for.
Consults(t, resume) == resume /\ Saved(t).status # "none"
-----------------------------------------------------------------------------
\* A process constructs the daemon over the workspace.
Launch ==
  /\ pc = "down"
  /\ pc' = "ready"
  /\ UNCHANGED <<entries, status, ckpt, twin, episodes, engine, run, faults, crashes, raised>>

\* The process ends: an exception, or the end of the program.
Die ==
  /\ pc' = "down"
  /\ engine' = {}
  /\ run' = NoRun

\* max_cycles is reached, or the one run of the command line is over.
Exit ==
  /\ pc = "ready"
  /\ Settled
  /\ Die
  /\ UNCHANGED <<entries, status, ckpt, twin, episodes, faults, crashes, raised>>

\* The constructor or verify_chain finds the log broken; run_task raises.
RefuseBrokenLog ==
  /\ pc = "ready"
  /\ status = "broken"
  /\ Die
  /\ UNCHANGED <<entries, status, ckpt, twin, episodes, faults, crashes, raised>>

\* The checkpoint says PASS; its file is not written and nothing is run.
ReportPassed(t, resume) ==
  /\ Enter(t)
  /\ Consults(t, resume)
  /\ Saved(t).sound
  /\ Saved(t).status = "PASS"
  /\ UNCHANGED <<entries, status, ckpt, twin, episodes, pc, run, faults, crashes, raised>>

\* The checkpoint's hash does not match: a ledger entry and an exception.
RejectCheckpoint(t, resume) ==
  /\ Enter(t)
  /\ Consults(t, resume)
  /\ ~Saved(t).sound
  /\ Record(RejectEvent(t))
  /\ pc' = "raising"
  /\ UNCHANGED <<ckpt, twin, episodes, run, faults, crashes, raised>>

Raise ==
  /\ pc = "raising"
  /\ Settled
  /\ Die
  /\ UNCHANGED <<entries, status, ckpt, twin, episodes, faults, crashes, raised>>

\* A run that did not finish, or one that failed after its first step.
Resumable(t) ==
  /\ Saved(t).next < NumSteps(t)
  /\ \/ Saved(t).status = "RUNNING"
     \/ Saved(t).status = "FAIL" /\ Saved(t).next > 0

\* Faulty variant: the step the checkpoint names is taken as done.
ResumeTaskSkipping(t, resume) ==
  /\ Enter(t)
  /\ Consults(t, resume)
  /\ Saved(t).sound
  /\ Resumable(t)
  /\ run' = [NoRun EXCEPT !.task = t, !.start = (Saved(t).next + 1) % NumSteps(t),
                          !.handoff = Saved(t).handoff, !.done = Saved(t).done]
  /\ pc' = "cycle"
  /\ UNCHANGED <<entries, status, ckpt, twin, episodes, faults, crashes, raised>>

\* run_task goes on from the checkpoint, with its state.
ResumeTask(t, resume) ==
  /\ Enter(t)
  /\ Consults(t, resume)
  /\ Saved(t).sound
  /\ Resumable(t)
  /\ run' = [NoRun EXCEPT !.task = t, !.start = Saved(t).next,
                          !.handoff = Saved(t).handoff, !.done = Saved(t).done]
  /\ pc' = "cycle"
  /\ UNCHANGED <<entries, status, ckpt, twin, episodes, faults, crashes, raised>>

\* Faulty variant: a checkpoint that says PASS is not looked at.
BeginTaskAgain(t, resume) ==
  /\ Enter(t)
  /\ Consults(t, resume) => Saved(t).sound /\ ~Resumable(t)
  /\ run' = [NoRun EXCEPT !.task = t]
  /\ pc' = "begin"
  /\ UNCHANGED <<entries, status, ckpt, twin, episodes, faults, crashes, raised>>

\* Faulty variant: a run that failed in its first step is not begun again.
BeginTaskOnce(t, resume) ==
  /\ Enter(t)
  /\ ~Consults(t, resume)
  /\ run' = [NoRun EXCEPT !.task = t]
  /\ pc' = "begin"
  /\ UNCHANGED <<entries, status, ckpt, twin, episodes, faults, crashes, raised>>

\* run_task starts at the first step: no checkpoint, one it does not look
\* at, or one of a run that failed in its first step.
BeginTask(t, resume) ==
  /\ Enter(t)
  /\ Consults(t, resume) =>
       Saved(t).sound /\ Saved(t).status # "PASS" /\ ~Resumable(t)
  /\ run' = [NoRun EXCEPT !.task = t]
  /\ pc' = "begin"
  /\ UNCHANGED <<entries, status, ckpt, twin, episodes, faults, crashes, raised>>

RecordStart ==
  /\ pc = "begin"
  /\ Record(StartEvent(run.task))
  /\ pc' = "claim"
  /\ UNCHANGED <<ckpt, twin, episodes, engine, run, faults, crashes, raised>>

SaveRunning ==
  /\ pc = "claim"
  /\ Settled
  /\ Save(run.task, "RUNNING", 0, run.handoff, run.done)
  /\ pc' = "cycle"
  /\ UNCHANGED <<entries, status, twin, episodes, engine, run, faults, crashes, raised>>

RecordCycle ==
  /\ pc = "cycle"
  /\ Record(CycleEvent(run.task, run.start))
  /\ pc' = "step"
  /\ UNCHANGED <<ckpt, twin, episodes, engine, run, faults, crashes, raised>>
-----------------------------------------------------------------------------
(***************************************************************************)
(* orchestrator.run over the remaining steps: Pos is the step it is at.    *)
(***************************************************************************)
Pos == run.start + Len(run.results)

Skill == Steps[run.task][Pos + 1]

\* execute_skill_package calls the handler.
Admits(p) ==
  /\ p.network # "true"
  /\ RequireSignature
       => p.signature # "placeholder" /\ HasTrustedKeys /\ p.signature = "valid"

\* The place after the orchestrator's loop has advanced to results rs.
AfterStep(rs) ==
  IF rs[Len(rs)] = "FAIL" \/ run.start + Len(rs) = NumSteps(run.task)
    THEN "record" ELSE "step"

Advance(s, handoff, odd) ==
  LET rs == Append(run.results, s) IN
    /\ run' = [run EXCEPT !.results = rs, !.handoff = handoff, !.odd = @ \cup odd]
    /\ pc' = AfterStep(rs)

InLoop == pc = "step" /\ Settled

\* A handler call that is not as it should be.
Fault == faults < MaxFaults /\ faults' = faults + 1

\* What the handler of this step may leave behind, one thing of a kind.
Leaves(kinds) == {{[what |-> w, at |-> Pos]} : w \in kinds}

\* The handler returns: its output is handed to the next step.
StepPasses ==
  /\ InLoop
  /\ Admits(Skill)
  /\ Skill.needsHandoff => run.handoff # 0
  /\ engine' = engine \cup {<<run.task, Pos>>}
  /\ \/ Advance("PASS", Pos + 1, {}) /\ UNCHANGED faults
     \/ \E odd \in Leaves(OddKinds) : Advance("PASS", Pos + 1, odd) /\ Fault
  /\ UNCHANGED <<entries, status, ckpt, twin, episodes, crashes, raised>>

\* The gate refuses the package; with fail_fast the loop ends.
StepRefused ==
  /\ InLoop
  /\ ~Admits(Skill)
  /\ Advance("FAIL", 0, {})
  /\ UNCHANGED <<entries, status, ckpt, twin, episodes, engine, faults, crashes, raised>>

\* The handler finds no handoff and raises.
StepLacksHandoff ==
  /\ InLoop
  /\ Admits(Skill)
  /\ Skill.needsHandoff /\ run.handoff = 0
  /\ Advance("FAIL", 0, {})
  /\ UNCHANGED <<entries, status, ckpt, twin, episodes, engine, faults, crashes, raised>>

\* The handler raises for a reason of its own, before or after it registered
\* its atom and wrote into the state.
StepRaises ==
  /\ InLoop
  /\ Admits(Skill)
  /\ Fault
  /\ engine' \in {engine, engine \cup {<<run.task, Pos>>}}
  /\ \E odd \in {{}} \cup Leaves(OddKinds \ {"keys"}) : Advance("FAIL", 0, odd)
  /\ UNCHANGED <<entries, status, ckpt, twin, episodes, crashes, raised>>
-----------------------------------------------------------------------------
Failed == run.results[Len(run.results)] = "FAIL"

Verdict == IF Failed THEN "FAIL" ELSE "PASS"

\* Faulty variant: one less than the failed step.
NextIndexEarly == IF Failed THEN Pos - 2 ELSE NumSteps(run.task)

\* next_index of the last checkpoint: the failed step, or past the end; in
\* the pipeline_end entry the number of steps stands for no aborted_at.
NextIndex == IF Failed THEN Pos - 1 ELSE NumSteps(run.task)

\* The records the orchestrator returned, with absolute indices.
AbsSteps ==
  [i \in 1 .. Len(run.results) |-> [index |-> run.start + i - 1, status |-> run.results[i]]]

AfterRecords ==
  IF ~Failed /\ run.task \in Remembering THEN "remember" ELSE "end"

\* The next step record cannot be serialised: append() raises before its line.
Unwritable ==
  \/ Odd("telemetry")
  \/ [what |-> "keys", at |-> run.start + run.recorded] \in run.odd

\* Faulty variant: the indices stay relative to where the run resumed.
RecordStepRelative ==
  /\ pc = "record"
  /\ run.recorded < Len(run.results)
  /\ ~Unwritable
  /\ Record(StepEvent(run.task, run.recorded, run.results[run.recorded + 1]))
  /\ run' = [run EXCEPT !.recorded = @ + 1]
  /\ UNCHANGED <<ckpt, twin, episodes, engine, pc, faults, crashes, raised>>

\* One record_step of the loop over result.steps.
RecordStep ==
  /\ pc = "record"
  /\ run.recorded < Len(run.results)
  /\ ~Unwritable
  /\ Record(StepEvent(run.task, run.start + run.recorded, run.results[run.recorded + 1]))
  /\ run' = [run EXCEPT !.recorded = @ + 1]
  /\ UNCHANGED <<ckpt, twin, episodes, engine, pc, faults, crashes, raised>>

\* The loop is over: completed is extended and the verdict looked at.
RecordsDone ==
  /\ pc = "record"
  /\ Settled
  /\ run.recorded = Len(run.results)
  /\ run' = [run EXCEPT !.done = @ \o AbsSteps]
  /\ pc' = AfterRecords
  /\ UNCHANGED <<entries, status, ckpt, twin, episodes, engine, faults, crashes, raised>>

\* Faulty variant: the ledger names the episode before it is stored.
RememberLate ==
  /\ pc = "remember"
  /\ Settled
  /\ pc' = "note"
  /\ UNCHANGED <<entries, status, ckpt, twin, episodes, engine, run, faults, crashes, raised>>

\* memory.remember: the manifest is replaced atomically.
Remember ==
  /\ pc = "remember"
  /\ Settled
  /\ episodes' = [episodes EXCEPT ![run.task] = @ + 1]
  /\ pc' = "note"
  /\ UNCHANGED <<entries, status, ckpt, twin, engine, run, faults, crashes, raised>>

RecordMemory ==
  /\ pc = "note"
  /\ Record(MemoryEvent(run.task))
  /\ pc' = "end"
  /\ UNCHANGED <<ckpt, twin, episodes, engine, run, faults, crashes, raised>>

RecordEnd ==
  /\ pc = "end"
  /\ Record(EndEvent(run.task, NextIndex, Verdict))
  /\ pc' = "close"
  /\ UNCHANGED <<ckpt, twin, episodes, engine, run, faults, crashes, raised>>

\* Faulty variant: the engine of a failed run is not saved.
SaveVerdictUnsaved ==
  /\ pc = "close"
  /\ Settled
  /\ ~Odd("value")
  /\ Save(run.task, Verdict, NextIndex, run.handoff, run.done)
  /\ pc' = IF Failed THEN "ready" ELSE "persist"
  /\ run' = IF Failed THEN NoRun ELSE run
  /\ UNCHANGED <<entries, status, twin, episodes, engine, faults, crashes, raised>>

\* The last checkpoint, written unless json.dumps refuses its state.
SaveVerdict ==
  /\ pc = "close"
  /\ Settled
  /\ ~Odd("value")
  /\ Save(run.task, Verdict, NextIndex, run.handoff, run.done)
  /\ pc' = "persist"
  /\ UNCHANGED <<entries, status, twin, episodes, engine, run, faults, crashes, raised>>

\* engine.save finishes and run_task returns its report.
Persist ==
  /\ pc = "persist"
  /\ ~Odd("metadata")
  /\ twin' = [kind |-> "whole", atoms |-> engine]
  /\ pc' = "ready"
  /\ run' = NoRun
  /\ UNCHANGED <<entries, status, ckpt, episodes, engine, faults, crashes, raised>>
-----------------------------------------------------------------------------
(***************************************************************************)
(* A save that is cut off leaves files of two generations, one of them     *)
(* perhaps truncated: load() raises or not, run_task swallows what it      *)
(* raises, and what is in the codebook then is some part of what was saved *)
(* before or, until a save has finished, of what was being saved.          *)
(***************************************************************************)
CutOffSave ==
  \E kept \in SUBSET (IF twin.kind = "whole" THEN twin.atoms ELSE twin.atoms \cup engine) :
    twin' = [kind |-> "partial", atoms |-> kept]

(***************************************************************************)
(* A step record, the last checkpoint or the engine cannot be serialised.  *)
(* The exception leaves run_task, which catches nothing there: no file has *)
(* changed but perhaps the engine's, the lines before are in the log, and  *)
(* what was to be written after it is not.                                 *)
(***************************************************************************)
WriteRaises ==
  /\ Settled
  /\ \/ pc = "record" /\ run.recorded < Len(run.results) /\ Unwritable
     \/ pc = "close" /\ Odd("value")
     \/ pc = "persist" /\ Odd("metadata")
  /\ raised' = raised + 1
  /\ Die
  /\ \/ UNCHANGED twin
     \/ pc = "persist" /\ CutOffSave
  /\ UNCHANGED <<entries, status, ckpt, episodes, faults, crashes>>

\* The process is killed: inside an append, inside a save, or in between.
Crash ==
  /\ pc # "down"
  /\ crashes < MaxCrashes
  /\ crashes' = crashes + 1
  /\ Die
  /\ IF Settled THEN UNCHANGED <<entries, status>> ELSE Audit!TearDown
  /\ \/ UNCHANGED twin
     \/ pc = "persist" /\ CutOffSave
  /\ UNCHANGED <<ckpt, episodes, faults, raised>>

\* A checkpoint file is changed from outside, as the tests do.
Damage(f) ==
  /\ pc \in {"down", "ready"}
  /\ ckpt[f].status # "none" /\ ckpt[f].sound
  /\ Cardinality({g \in Files : ~ckpt[g].sound}) < MaxDamaged
  /\ ckpt' = [ckpt EXCEPT ![f].sound = FALSE]
  /\ UNCHANGED <<entries, status, twin, episodes, engine, pc, run, faults, crashes, raised>>

RunTask(t) ==
  \E resume \in Modes :
    \/ ReportPassed(t, resume)
    \/ RejectCheckpoint(t, resume)
    \/ ResumeTask(t, resume)
    \/ BeginTask(t, resume)

\* The steps run_task takes by itself once it was called.
Proceed ==
  \/ SyncTip
  \/ RecordStart \/ SaveRunning \/ RecordCycle
  \/ StepPasses \/ StepRefused \/ StepLacksHandoff \/ StepRaises
  \/ RecordStep \/ RecordsDone
  \/ Remember \/ RecordMemory
  \/ RecordEnd \/ SaveVerdict \/ Persist \/ WriteRaises
  \/ Raise \/ RefuseBrokenLog

Next ==
  \/ Launch
  \/ Exit
  \/ \E t \in Tasks : RunTask(t)
  \/ Proceed
  \/ Crash
  \/ \E f \in Files : Damage(f)

Spec == Init /\ [][Next]_vars

(***************************************************************************)
(* run_forever calls run_task for every task of its list in every cycle,   *)
(* so a task that could be called is called again and again; somebody      *)
(* starts the process when it is down; the thread of the daemon runs.      *)
(***************************************************************************)
FairSpec ==
  /\ Spec
  /\ WF_vars(Launch)
  /\ WF_vars(Proceed)
  /\ \A t \in Tasks : SF_vars(RunTask(t))
-----------------------------------------------------------------------------
Has(log, e) == \E k \in 1 .. Len(log) : log[k] = e

InLog(e) == Has(entries, e)

\* The first n steps of t are in the log as passed.
StepsPassed(t, n) ==
  \A i \in 0 .. NumSteps(t) - 1 : i < n => InLog(StepEvent(t, i, "PASS"))

\* The records of d are in the log.
RecordsShown(t, d) ==
  \A j \in 1 .. Len(d) : InLog(StepEvent(t, d[j].index, d[j].status))

Remembered(t) == t \in Remembering => InLog(MemoryEvent(t)) /\ episodes[t] > 0

(***************************************************************************)
(* A checkpoint claims nothing the audit log does not show: every step     *)
(* before its next_index was recorded as passed, every completed_steps     *)
(* record is in the log, and a checkpoint that says PASS comes after the   *)
(* pipeline_end entry and, if the task is to be remembered, its episode.   *)
(* So a resumed run never skips a step that did not pass.                  *)
(***************************************************************************)
CheckpointIsBacked ==
  \A t \in Tasks :
    /\ StepsPassed(t, Saved(t).next)
    /\ RecordsShown(t, Saved(t).done)
    /\ Saved(t).status = "PASS" =>
         /\ Saved(t).next = NumSteps(t)
         /\ InLog(EndEvent(t, NumSteps(t), "PASS"))
         /\ Remembered(t)

\* f is what one run_task call writes right after e.
Follows(e, f) ==
  \/ e.kind = "pipeline_start" /\ f = CycleEvent(e.task, 0)
  \/ e.kind = "daemon_cycle" /\ \E s \in Outcomes : f = StepEvent(e.task, e.index, s)
  \/ /\ e.kind = "pipeline_step" /\ e.status = "PASS"
     /\ IF e.index + 1 < NumSteps(e.task)
          THEN \E s \in Outcomes : f = StepEvent(e.task, e.index + 1, s)
          ELSE f = IF e.task \in Remembering
                     THEN MemoryEvent(e.task)
                     ELSE EndEvent(e.task, NumSteps(e.task), "PASS")
  \/ /\ e.kind = "pipeline_step" /\ e.status = "FAIL"
     /\ f = EndEvent(e.task, e.index, "FAIL")
  \/ e.kind = "memory_append" /\ f = EndEvent(e.task, NumSteps(e.task), "PASS")

(***************************************************************************)
(* The log reads as a sequence of runs, each cut off at most once: every   *)
(* entry is the successor, in its run, of the entry before it, or the      *)
(* first entry of a call; nothing comes between a failed step and the end  *)
(* of its run; and a daemon_cycle entry names an index only when all steps *)
(* before it passed further up in the log.                                 *)
(***************************************************************************)
LedgerTellsTheRuns ==
  \A k \in 1 .. Len(entries) :
    LET f == entries[k] IN
      /\ \/ f.kind \in {"pipeline_start", "daemon_cycle", "checkpoint_reject"}
         \/ k > 1 /\ Follows(entries[k - 1], f)
      /\ f.kind = "daemon_cycle" =>
           \A i \in 0 .. NumSteps(f.task) - 1 :
             i < f.index => \E j \in 1 .. k - 1 : entries[j] = StepEvent(f.task, i, "PASS")

(***************************************************************************)
(* With resume, a task whose checkpoint says PASS is done for good, kills  *)
(* or not: the checkpoint keeps saying so and the log gets no entry of the *)
(* task but the rejection of a damaged checkpoint.                         *)
(***************************************************************************)
PassIsFinal ==
  [][\A t \in Tasks :
       Saved(t).status = "PASS" =>
         /\ Saved(t)'.status = "PASS"
         /\ entries' # entries /\ entries'[Len(entries')].task = t
              => entries'[Len(entries')] = RejectEvent(t)]_vars

\* No run was cut off behind its steps, by a kill or by an exception.
Undisturbed == crashes = 0 /\ raised = 0

(***************************************************************************)
(* While nobody kills the process and no write of a run raises, what a     *)
(* step taught the engine outlives the call: between calls twin_state      *)
(* holds the atoms of every step the log shows as passed, also when a      *)
(* later step of the run failed, and behind a checkpoint or a log that     *)
(* will not verify.                                                        *)
(***************************************************************************)
LearnedIsKept ==
  Undisturbed /\ pc = "ready" =>
    \A k \in 1 .. Len(entries) :
      entries[k].kind = "pipeline_step" /\ entries[k].status = "PASS"
        => <<entries[k].task, entries[k].index>> \in twin.atoms

(***************************************************************************)
(* While nobody kills the process and no write of a run raises, a run that *)
(* is called with resume never executes a step the log shows as passed,    *)
(* whatever handlers leave in a checkpoint.                                *)
(***************************************************************************)
ResumesBehindPassed ==
  Undisturbed /\ pc = "step" => ~InLog(StepEvent(run.task, Pos, "PASS"))

Notes(t) == Cardinality({k \in 1 .. Len(entries) : entries[k] = MemoryEvent(t)})

(***************************************************************************)
(* Every memory_append entry has its episode in the store, and an episode  *)
(* without an entry is the trace of a kill between the two.                *)
(***************************************************************************)
MemoryAccounted ==
  \A t \in Tasks :
    /\ Notes(t) <= episodes[t]
    /\ episodes[t] <= Notes(t) + crashes + (IF pc = "note" /\ run.task = t THEN 1 ELSE 0)

(***************************************************************************)
(* If every package is admitted, and handlers raise or leave what cannot   *)
(* be written only finitely often, every task is finally done, unless the  *)
(* log was broken or a checkpoint does not verify: run_forever raises at   *)
(* its task in every process, and never gets to the tasks behind it.       *)
(***************************************************************************)
Converges ==
  <>[](\/ status = "broken"
       \/ \E t \in Tasks : ~Saved(t).sound
       \/ \A t \in Tasks : Saved(t).status = "PASS")

(***************************************************************************)
(* "Resume/crash-recovery must preserve prior skill handoff": a step that  *)
(* is executed after another one finds that one's output.                  *)
(***************************************************************************)
HandoffPreserved == InLoop /\ Pos > 0 => run.handoff = Pos
=============================================================================
