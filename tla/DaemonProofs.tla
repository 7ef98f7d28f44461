---------------------------- MODULE DaemonProofs ----------------------------
(***************************************************************************)
(* Theorems about Daemon for any tasks, packages, checkpoint files, modes  *)
(* and bounds.                                                             *)
(***************************************************************************)
EXTENDS Daemon, TLAPS, SequenceTheorems, FiniteSetTheorems

(***************************************************************************)
(* Typing.  The verdict and next_index of a run are read off its last      *)
(* result, so the invariant says that there is one when they are needed.   *)
(***************************************************************************)
AfterLoop == {"record", "remember", "note", "end", "close", "persist"}

HasResult == pc \in AfterLoop => Len(run.results) > 0

TypeInv == TypeOK /\ HasResult

LEMMA EventTypes ==
  ASSUME NEW t \in Tasks, NEW i \in Nat, NEW s \in Outcomes
  PROVE  /\ StartEvent(t) \in LedgerEvents
         /\ CycleEvent(t, i) \in LedgerEvents
         /\ StepEvent(t, i, s) \in LedgerEvents
         /\ MemoryEvent(t) \in LedgerEvents
         /\ EndEvent(t, i, s) \in LedgerEvents
         /\ RejectEvent(t) \in LedgerEvents
  BY DEF StartEvent, CycleEvent, StepEvent, MemoryEvent, EndEvent, RejectEvent,
     LedgerEvents, Kinds, Outcomes

LEMMA RecordTyped ==
  ASSUME Audit!AuditTypeOK, NEW e \in LedgerEvents, Record(e)
  PROVE  Audit!AuditTypeOK'
  <1>1. entries' \in Seq(LedgerEvents)
    BY AppendProperties DEF Record, Garble, Audit!Write, Audit!AuditTypeOK
  <1>2. status' \in Audit!Statuses
    BY DEF Record, Garble, Audit!Write, Audit!Statuses
  <1> QED
    BY <1>1, <1>2 DEF Audit!AuditTypeOK

LEMMA NoRunTyped == NoRun \in Run /\ NoRun.task = NoTask
  <1>1. <<>> \in Seq(Outcomes) /\ <<>> \in Seq(StepRecord) /\ {} \in SUBSET Oddity
    BY EmptySeq
  <1> QED
    BY <1>1 DEF NoRun, Run

LEMMA InitTyped == Init => TypeInv
  <1> SUFFICES ASSUME Init PROVE TypeInv
    OBVIOUS
  <1>1. Audit!AuditTypeOK
    BY EmptySeq DEF Init, Audit!AuditInit, Audit!AuditTypeOK, Audit!Statuses
  <1>2. NoCheckpoint \in Checkpoint
    <2>1. <<>> \in Seq(StepRecord)
      BY EmptySeq
    <2> QED
      BY <2>1 DEF NoCheckpoint, Checkpoint
  <1>3. ckpt \in [Files -> Checkpoint] /\ twin \in Twin
    BY <1>2 DEF Init, Twin
  <1> QED
    BY <1>1, <1>3, NoRunTyped DEF Init, TypeInv, TypeOK, HasResult, AfterLoop, Places

\* The types of the local variables of a run, and of the checkpoint it reads.
LEMMA RunTypes ==
  ASSUME TypeOK
  PROVE  /\ run.task \in Tasks \cup {NoTask} /\ run.start \in Nat /\ run.handoff \in Nat
         /\ run.results \in Seq(Outcomes) /\ Len(run.results) \in Nat
         /\ run.recorded \in Nat /\ run.done \in Seq(StepRecord)
         /\ run.odd \in SUBSET Oddity
         /\ \A t \in Tasks : /\ Saved(t).next \in Nat /\ Saved(t).handoff \in Nat
                             /\ Saved(t).done \in Seq(StepRecord)
         /\ \A t \in Tasks : NumSteps(t) \in Nat /\ NumSteps(t) > 0
  <1>1. run.results \in Seq(Outcomes)
    BY DEF TypeOK, Run
  <1>2. Len(run.results) \in Nat
    BY <1>1, LenProperties
  <1>3. \A t \in Tasks : CkptFile[t] \in Files
    BY FileAssumption
  <1>4. \A t \in Tasks : Saved(t) \in Checkpoint
    BY <1>3 DEF TypeOK, Saved
  <1>5. \A t \in Tasks : NumSteps(t) \in Nat /\ NumSteps(t) > 0
    <2> SUFFICES ASSUME NEW t \in Tasks PROVE NumSteps(t) \in Nat /\ NumSteps(t) > 0
      OBVIOUS
    <2>1. Steps[t] \in Seq(Package) /\ Len(Steps[t]) > 0
      BY StepsAssumption
    <2> QED
      BY <2>1, LenProperties DEF NumSteps
  <1> QED
    BY <1>1, <1>2, <1>4, <1>5 DEF TypeOK, Run, Checkpoint

\* Entering run_task: engine, run and pc.
LEMMA EnterTyped ==
  ASSUME TypeInv, NEW t \in Tasks, NEW resume \in Modes,
         \/ ReportPassed(t, resume) \/ RejectCheckpoint(t, resume)
         \/ ResumeTask(t, resume) \/ BeginTask(t, resume)
  PROVE  TypeInv'
  <1>t. TypeOK
    BY DEF TypeInv
  <1>e. engine' \in SUBSET Atoms /\ pc = "ready"
    BY <1>t DEF ReportPassed, RejectCheckpoint, ResumeTask, BeginTask, Enter, Bootstrap,
       TypeOK, Twin
  <1>1. CASE ReportPassed(t, resume)
    BY <1>t, <1>e, <1>1 DEF ReportPassed, TypeInv, TypeOK, HasResult, Audit!AuditTypeOK
  <1>2. CASE RejectCheckpoint(t, resume)
    <2>1. Audit!AuditTypeOK'
      BY <1>t, <1>2, EventTypes, RecordTyped DEF RejectCheckpoint, TypeOK, Outcomes
    <2> QED
      BY <1>t, <1>e, <1>2, <2>1
      DEF RejectCheckpoint, TypeInv, TypeOK, HasResult, AfterLoop, Places
  <1>3. ASSUME run' \in Run, run'.task = t, pc' \in {"cycle", "begin"},
               UNCHANGED <<entries, status, ckpt, twin, episodes, faults, crashes, raised>>
        PROVE  TypeInv'
    BY <1>t, <1>e, <1>3, NoTaskAssumption
    DEF TypeInv, TypeOK, HasResult, AfterLoop, Places, Audit!AuditTypeOK
  <1>4. CASE ResumeTask(t, resume)
    <2>1. run' \in Run /\ run'.task = t
      BY <1>t, <1>4, RunTypes, NoRunTyped DEF ResumeTask, Run
    <2> QED
      BY <1>3, <1>4, <2>1 DEF ResumeTask
  <1>5. CASE BeginTask(t, resume)
    <2>1. run' \in Run /\ run'.task = t
      BY <1>t, <1>5, NoRunTyped DEF BeginTask, Run
    <2> QED
      BY <1>3, <1>5, <2>1 DEF BeginTask
  <1> QED
    BY <1>1, <1>2, <1>4, <1>5

\* What handlers leave behind, and the steps of the orchestrator's loop.
LEMMA LeavesTyped ==
  ASSUME NEW kinds \in SUBSET OddKinds, Pos \in Nat, NEW odd \in Leaves(kinds)
  PROVE  odd \in SUBSET Oddity
  <1>1. PICK w \in kinds : odd = {[what |-> w, at |-> Pos]}
    BY DEF Leaves
  <1> QED
    BY <1>1 DEF Oddity

LEMMA LoopAdvances ==
  ASSUME TypeOK, StepPasses \/ StepRefused \/ StepLacksHandoff \/ StepRaises
  PROVE  \E s \in Outcomes, h \in Nat, odd \in SUBSET Oddity : Advance(s, h, odd)
  <1>p. Pos \in Nat /\ {} \in SUBSET Oddity
    BY RunTypes DEF Pos
  <1>1. CASE StepPasses
    <2>1. \E odd \in {{}} \cup Leaves(OddKinds) : Advance("PASS", Pos + 1, odd)
      BY <1>1 DEF StepPasses
    <2> QED
      BY <2>1, <1>p, LeavesTyped DEF Outcomes
  <1>2. CASE StepRaises
    <2>1. \E odd \in {{}} \cup Leaves(OddKinds \ {"keys"}) : Advance("FAIL", 0, odd)
      BY <1>2 DEF StepRaises
    <2>2. OddKinds \ {"keys"} \in SUBSET OddKinds
      OBVIOUS
    <2> QED
      BY <2>1, <2>2, <1>p, LeavesTyped DEF Outcomes
  <1>3. CASE StepRefused \/ StepLacksHandoff
    BY <1>3, <1>p DEF StepRefused, StepLacksHandoff, Outcomes
  <1> QED
    BY <1>1, <1>2, <1>3

LEMMA LoopTyped ==
  ASSUME TypeInv, StepPasses \/ StepRefused \/ StepLacksHandoff \/ StepRaises
  PROVE  TypeInv'
  <1>t. TypeOK
    BY DEF TypeInv
  <1>r. run.task \in Tasks
    BY <1>t DEF TypeOK, StepPasses, StepRefused, StepLacksHandoff, StepRaises, InLoop, Run
  <1>p. Pos \in Nat
    BY <1>t, RunTypes DEF Pos
  <1>1. ASSUME NEW s \in Outcomes, NEW h \in Nat, NEW odd \in SUBSET Oddity,
               Advance(s, h, odd)
        PROVE  /\ run' \in Run /\ run'.task = run.task
               /\ pc' \in {"record", "step"} /\ Len(run'.results) > 0
    <2>1. /\ Append(run.results, s) \in Seq(Outcomes)
          /\ Len(Append(run.results, s)) = Len(run.results) + 1
      BY <1>t, RunTypes, AppendProperties
    <2>2. run' = [run EXCEPT !.results = Append(run.results, s), !.handoff = h,
                             !.odd = run.odd \cup odd]
      BY <1>1 DEF Advance
    <2>3. run' \in Run /\ run'.task = run.task /\ run'.results = Append(run.results, s)
      BY <1>t, <2>1, <2>2 DEF TypeOK, Run
    <2>4. pc' \in {"record", "step"}
      BY <1>1 DEF Advance, AfterStep
    <2> QED
      BY <1>t, <2>1, <2>3, <2>4, RunTypes
  <1>2. \E s \in Outcomes, h \in Nat, odd \in SUBSET Oddity : Advance(s, h, odd)
    BY <1>t, LoopAdvances
  <1>3. /\ engine' \in SUBSET Atoms /\ faults' \in Nat
        /\ UNCHANGED <<entries, status, ckpt, twin, episodes, crashes, raised>>
    BY <1>t, <1>r, <1>p DEF StepPasses, StepRefused, StepLacksHandoff, StepRaises, Fault,
       TypeOK, Atoms
  <1> QED
    BY <1>t, <1>r, <1>1, <1>2, <1>3, NoTaskAssumption
    DEF TypeInv, TypeOK, HasResult, AfterLoop, Places, Audit!AuditTypeOK

LEMMA AbsStepsTyped ==
  ASSUME TypeOK
  PROVE  /\ AbsSteps \in Seq(StepRecord)
         /\ Len(AbsSteps) = Len(run.results)
         /\ \A i \in 1 .. Len(run.results) :
              AbsSteps[i] = [index |-> run.start + i - 1, status |-> run.results[i]]
  <1>n. PICK n \in Nat : n = Len(run.results)
    BY RunTypes
  <1>1. \A i \in 1 .. n : [index |-> run.start + i - 1, status |-> run.results[i]] \in StepRecord
    <2> SUFFICES ASSUME NEW i \in 1 .. n
                 PROVE  [index |-> run.start + i - 1, status |-> run.results[i]] \in StepRecord
      OBVIOUS
    <2>1. run.results[i] \in Outcomes
      BY <1>n, RunTypes, ElementOfSeq
    <2>2. run.start + i - 1 \in Nat
      BY RunTypes
    <2> QED
      BY <2>1, <2>2 DEF StepRecord
  <1>2. AbsSteps \in [1 .. n -> StepRecord]
    BY <1>n, <1>1 DEF AbsSteps
  <1>3. AbsSteps \in Seq(StepRecord)
    BY <1>2, SeqDef
  <1>4. Len(AbsSteps) = n
    BY <1>2, <1>3, LenProperties
  <1> QED
    BY <1>n, <1>3, <1>4 DEF AbsSteps

\* What follows the loop.
LEMMA TailTyped ==
  ASSUME TypeInv,
         \/ RecordStep \/ RecordsDone \/ Remember \/ RecordMemory
         \/ RecordEnd \/ SaveVerdict \/ Persist
  PROVE  TypeInv'
  <1>t. TypeOK /\ HasResult
    BY DEF TypeInv
  <1>r. run.task \in Tasks /\ pc \in AfterLoop /\ Len(run.results) > 0
    BY <1>t DEF TypeOK, HasResult, AfterLoop, Run,
       RecordStep, RecordsDone, Remember, RecordMemory, RecordEnd, SaveVerdict, Persist
  <1>v. Verdict \in Outcomes /\ NextIndex \in Nat
    BY <1>t, <1>r, RunTypes DEF Verdict, NextIndex, Pos, Outcomes
  <1>1. CASE RecordStep
    <2>1. run.results[run.recorded + 1] \in Outcomes
      BY <1>t, <1>1, RunTypes, ElementOfSeq DEF RecordStep
    <2>2. run.start + run.recorded \in Nat
      BY <1>t, RunTypes
    <2>3. Audit!AuditTypeOK'
      BY <1>t, <1>r, <1>1, <2>1, <2>2, EventTypes, RecordTyped DEF RecordStep, TypeOK
    <2>4. run' \in Run /\ run'.task = run.task /\ run'.results = run.results
      <3>1. run.recorded + 1 \in Nat
        BY <1>t, RunTypes
      <3> QED
        BY <1>t, <1>1, <3>1 DEF RecordStep, TypeOK, Run
    <2> QED
      BY <1>t, <1>r, <1>1, <2>3, <2>4, NoTaskAssumption
      DEF RecordStep, TypeInv, TypeOK, HasResult
  <1>2. CASE RecordsDone
    <2>1. run.done \o AbsSteps \in Seq(StepRecord)
      BY <1>t, RunTypes, AbsStepsTyped, ConcatProperties
    <2>2. run' \in Run /\ run'.task = run.task /\ run'.results = run.results
      BY <1>t, <1>2, <2>1 DEF RecordsDone, TypeOK, Run
    <2> QED
      BY <1>t, <1>r, <1>2, <2>2, NoTaskAssumption
      DEF RecordsDone, AfterRecords, TypeInv, TypeOK, HasResult, AfterLoop, Places,
          Audit!AuditTypeOK
  <1>3. CASE Remember
    BY <1>t, <1>r, <1>3, NoTaskAssumption
    DEF Remember, TypeInv, TypeOK, HasResult, AfterLoop, Places, Audit!AuditTypeOK
  <1>4. CASE RecordMemory
    <2>1. Audit!AuditTypeOK'
      BY <1>t, <1>r, <1>4, EventTypes, RecordTyped DEF RecordMemory, TypeOK, Outcomes
    <2> QED
      BY <1>t, <1>r, <1>4, <2>1, NoTaskAssumption
      DEF RecordMemory, TypeInv, TypeOK, HasResult, AfterLoop, Places
  <1>5. CASE RecordEnd
    <2>1. Audit!AuditTypeOK'
      BY <1>t, <1>r, <1>v, <1>5, EventTypes, RecordTyped DEF RecordEnd, TypeOK
    <2> QED
      BY <1>t, <1>r, <1>5, <2>1, NoTaskAssumption
      DEF RecordEnd, TypeInv, TypeOK, HasResult, AfterLoop, Places
  <1>6. CASE SaveVerdict
    <2>1. ckpt' \in [Files -> Checkpoint]
      BY <1>t, <1>r, <1>v, <1>6, RunTypes
      DEF SaveVerdict, Save, ReadsBack, TypeOK, Checkpoint, Outcomes
    <2> QED
      BY <1>t, <1>r, <1>6, <2>1, NoTaskAssumption
      DEF SaveVerdict, TypeInv, TypeOK, HasResult, AfterLoop, Places, Audit!AuditTypeOK
  <1>7. CASE Persist
    BY <1>t, <1>7, NoRunTyped
    DEF Persist, TypeInv, TypeOK, HasResult, AfterLoop, Places, Twin, Audit!AuditTypeOK
  <1> QED
    BY <1>1, <1>2, <1>3, <1>4, <1>5, <1>6, <1>7

\* An exception out of a write ends the run and the process.
LEMMA WriteRaisesEnds ==
  ASSUME TypeOK, WriteRaises
  PROVE  /\ pc \in {"record", "close", "persist"} /\ pc' = "down"
         /\ run' = NoRun /\ engine' = {} /\ raised' = raised + 1
         /\ UNCHANGED <<entries, status, ckpt, episodes, faults, crashes>>
         /\ twin' \in Twin /\ (UNCHANGED twin \/ twin'.kind = "partial")
  <1>1. CutOffSave => twin' \in Twin /\ twin'.kind = "partial"
    BY DEF CutOffSave, TypeOK, Twin
  <1> QED
    BY <1>1 DEF WriteRaises, Die, TypeOK

LEMMA StepTyped ==
  ASSUME TypeInv, [Next]_vars
  PROVE  TypeInv'
  <1>t. TypeOK /\ HasResult
    BY DEF TypeInv
  <1>1. CASE Launch
    BY <1>t, <1>1 DEF Launch, TypeInv, TypeOK, HasResult, AfterLoop, Places, Audit!AuditTypeOK
  <1>2. CASE Exit \/ RefuseBrokenLog \/ Raise
    BY <1>t, <1>2, NoRunTyped
    DEF Exit, RefuseBrokenLog, Raise, Die, TypeInv, TypeOK, HasResult, AfterLoop, Places,
        Audit!AuditTypeOK
  <1>3. ASSUME NEW t \in Tasks, RunTask(t)
        PROVE  TypeInv'
    BY <1>3, EnterTyped DEF RunTask
  <1>4. CASE SyncTip
    BY <1>t, <1>4 DEF SyncTip, Audit!Sync, TypeInv, TypeOK, HasResult, Audit!AuditTypeOK,
       Audit!Statuses
  <1>5. CASE RecordStart \/ RecordCycle
    <2>1. run.task \in Tasks
      BY <1>t, <1>5 DEF RecordStart, RecordCycle, TypeOK, Run
    <2>2. Audit!AuditTypeOK'
      BY <1>t, <1>5, <2>1, EventTypes, RecordTyped, RunTypes
      DEF RecordStart, RecordCycle, TypeOK, Outcomes
    <2> QED
      BY <1>t, <1>5, <2>1, <2>2, NoTaskAssumption
      DEF RecordStart, RecordCycle, TypeInv, TypeOK, HasResult, AfterLoop, Places
  <1>6. CASE SaveRunning
    <2>1. run.task \in Tasks
      BY <1>t, <1>6 DEF SaveRunning, TypeOK, Run
    <2>2. ckpt' \in [Files -> Checkpoint]
      BY <1>t, <1>6, <2>1, RunTypes DEF SaveRunning, Save, ReadsBack, TypeOK, Checkpoint
    <2> QED
      BY <1>t, <1>6, <2>1, <2>2, NoTaskAssumption
      DEF SaveRunning, TypeInv, TypeOK, HasResult, AfterLoop, Places, Audit!AuditTypeOK
  <1>7. CASE StepPasses \/ StepRefused \/ StepLacksHandoff \/ StepRaises
    BY <1>7, LoopTyped
  <1>8. CASE \/ RecordStep \/ RecordsDone \/ Remember \/ RecordMemory
             \/ RecordEnd \/ SaveVerdict \/ Persist
    BY <1>8, TailTyped
  <1>9. CASE Crash
    <2>1. twin' \in Twin
      BY <1>t, <1>9 DEF Crash, CutOffSave, TypeOK, Twin
    <2>2. Audit!AuditTypeOK'
      BY <1>t, <1>9 DEF Crash, TypeOK, Audit!AuditTypeOK, Audit!TearDown, Audit!Statuses
    <2> QED
      BY <1>t, <1>9, <2>1, <2>2, NoRunTyped
      DEF Crash, Die, TypeInv, TypeOK, HasResult, AfterLoop, Places
  <1>10. ASSUME NEW f \in Files, Damage(f)
         PROVE  TypeInv'
    BY <1>t, <1>10 DEF Damage, TypeInv, TypeOK, HasResult, Checkpoint, Audit!AuditTypeOK
  <1>11. CASE UNCHANGED vars
    BY <1>t, <1>11 DEF vars, TypeInv, TypeOK, HasResult, Audit!AuditTypeOK
  <1>12. CASE WriteRaises
    <2>1. raised' \in Nat
      BY <1>t, <1>12, WriteRaisesEnds DEF TypeOK
    <2> QED
      BY <1>t, <1>12, <2>1, WriteRaisesEnds, NoRunTyped
      DEF TypeInv, TypeOK, HasResult, AfterLoop, Places, Audit!AuditTypeOK
  <1> QED
    BY <1>1, <1>2, <1>3, <1>4, <1>5, <1>6, <1>7, <1>8, <1>9, <1>10, <1>11, <1>12
    DEF Next, Proceed

(***************************************************************************)
(* The files, the engine and the local variables of run_task hold values   *)
(* of their types, and a run has a task exactly while run_task is at work. *)
(***************************************************************************)
THEOREM TypeCorrect == Spec => []TypeOK
  <1>1. TypeInv => TypeOK
    BY DEF TypeInv
  <1> QED
    BY <1>1, InitTyped, StepTyped, PTL DEF Spec

(***************************************************************************)
(* What a checkpoint claims is in the log.  RunBacked says, for every      *)
(* place of run_task, which of its claims the log already shows: what it   *)
(* took over from the checkpoint, the results recorded so far, and, once   *)
(* the records are written, the episode and the end of the run.            *)
(***************************************************************************)
DistinctFiles == \A t, u \in Tasks : CkptFile[t] = CkptFile[u] => t = u

Beginning == {"begin", "claim", "cycle"}

ResultsShown(t, start, rs, n) ==
  \A j \in 1 .. n : InLog(StepEvent(t, start + j - 1, rs[j]))

RunBacked ==
  LET t == run.task IN
    t # NoTask =>
      /\ StepsPassed(t, run.start)
      /\ RecordsShown(t, run.done)
      /\ run.recorded <= Len(run.results)
      /\ ResultsShown(t, run.start, run.results, run.recorded)
      /\ run.start < NumSteps(t)
      /\ \A j \in 1 .. Len(run.results) : j < Len(run.results) => run.results[j] = "PASS"
      /\ pc \in {"begin", "claim"} => run.start = 0
      /\ pc \in Beginning => run.results = <<>> /\ run.recorded = 0
      /\ pc = "step" =>
           /\ run.recorded = 0
           /\ Pos < NumSteps(t)
           /\ \A j \in 1 .. Len(run.results) : run.results[j] = "PASS"
      /\ pc \in AfterLoop => Failed \/ Pos = NumSteps(t)
      /\ pc \in AfterLoop \ {"record"} => run.recorded = Len(run.results)
      /\ pc \in {"remember", "note"} => ~Failed
      /\ pc = "note" => episodes[t] > 0
      /\ pc \in {"end", "close"} /\ ~Failed => Remembered(t)
      /\ pc = "close" => InLog(EndEvent(t, NextIndex, Verdict))

BackedInv == CheckpointIsBacked /\ RunBacked

LEMMA InitBacked ==
  ASSUME TypeInv, Init
  PROVE  BackedInv
  <1>1. ASSUME NEW t \in Tasks
        PROVE  Saved(t) = NoCheckpoint
    BY <1>1, FileAssumption DEF Init, Saved
  <1>2. CheckpointIsBacked
    BY <1>1 DEF CheckpointIsBacked, NoCheckpoint, StepsPassed, RecordsShown
  <1>3. RunBacked
    BY NoRunTyped DEF Init, RunBacked
  <1> QED
    BY <1>2, <1>3 DEF BackedInv

\* The log only grows, and it has what was recorded.
LEMMA RecordAdds ==
  ASSUME TypeOK, NEW e \in LedgerEvents, Record(e)
  PROVE  /\ \A x : Has(entries, x) => Has(entries', x)
         /\ Has(entries', e)
  <1>n. PICK n \in Nat : n = Len(entries)
    BY LenProperties DEF TypeOK, Audit!AuditTypeOK
  <1>1. /\ Len(entries') = n + 1
        /\ entries'[n + 1] = e
        /\ \A k \in 1 .. n : entries'[k] = entries[k]
    BY <1>n, AppendProperties DEF TypeOK, Audit!AuditTypeOK, Record, Garble, Audit!Write
  <1>2. n + 1 \in 1 .. n + 1 /\ \A k \in 1 .. n : k \in 1 .. n + 1
    OBVIOUS
  <1> QED
    BY <1>n, <1>1, <1>2 DEF Has

\* A step that keeps the claims of the files keeps them backed.
LEMMA FilesStayBacked ==
  ASSUME TypeOK, TypeOK', CheckpointIsBacked,
         \A x : Has(entries, x) => Has(entries', x),
         \A t \in Tasks : episodes'[t] >= episodes[t],
         \A t \in Tasks : /\ Saved(t)'.next = Saved(t).next
                          /\ Saved(t)'.done = Saved(t).done
                          /\ Saved(t)'.status = Saved(t).status
  PROVE  CheckpointIsBacked'
  <1> SUFFICES ASSUME NEW t \in Tasks
               PROVE  /\ StepsPassed(t, Saved(t).next)'
                      /\ RecordsShown(t, Saved(t).done)'
                      /\ Saved(t)'.status = "PASS" =>
                           /\ Saved(t)'.next = NumSteps(t)
                           /\ InLog(EndEvent(t, NumSteps(t), "PASS"))'
                           /\ Remembered(t)'
    BY DEF CheckpointIsBacked
  <1>1. StepsPassed(t, Saved(t).next)'
    BY DEF CheckpointIsBacked, StepsPassed, InLog
  <1>2. RecordsShown(t, Saved(t).done)'
    BY DEF CheckpointIsBacked, RecordsShown, InLog
  <1>3. episodes[t] \in Nat /\ episodes'[t] \in Nat /\ episodes'[t] >= episodes[t]
    BY DEF TypeOK
  <1>4. Remembered(t) => Remembered(t)'
    BY <1>3 DEF Remembered, InLog
  <1>5. NumSteps(t)' = NumSteps(t)
    BY DEF NumSteps
  <1> QED
    BY <1>1, <1>2, <1>4, <1>5 DEF CheckpointIsBacked, InLog

LEMMA CallBacked ==
  ASSUME TypeInv, TypeInv', BackedInv, NEW t \in Tasks, NEW resume \in Modes,
         \/ ReportPassed(t, resume) \/ RejectCheckpoint(t, resume)
         \/ ResumeTask(t, resume) \/ BeginTask(t, resume)
  PROVE  BackedInv'
  <1>t. TypeOK /\ TypeOK' /\ CheckpointIsBacked
    BY DEF TypeInv, BackedInv
  <1>1. \A x : Has(entries, x) => Has(entries', x)
    <2>1. CASE RejectCheckpoint(t, resume)
      BY <1>t, <2>1, EventTypes, RecordAdds DEF RejectCheckpoint, Outcomes
    <2>2. CASE UNCHANGED entries
      BY <2>2
    <2> QED
      BY <2>1, <2>2 DEF ReportPassed, ResumeTask, BeginTask
  <1>2. UNCHANGED <<ckpt, episodes>>
    BY DEF ReportPassed, RejectCheckpoint, ResumeTask, BeginTask
  <1>3. CheckpointIsBacked'
    <2>1. \A u \in Tasks : episodes'[u] >= episodes[u]
      BY <1>t, <1>2 DEF TypeOK
    <2> QED
      BY <1>t, <1>1, <1>2, <2>1, FilesStayBacked DEF Saved
  <1>4. CASE ReportPassed(t, resume) \/ RejectCheckpoint(t, resume)
    <2>1. run'.task = NoTask
      BY <1>t, <1>4 DEF ReportPassed, RejectCheckpoint, TypeOK, Enter
    <2> QED
      BY <1>3, <2>1 DEF BackedInv, RunBacked
  <1>5. CASE ResumeTask(t, resume)
    <2>1. /\ run'.task = t /\ run'.start = Saved(t).next
          /\ run'.done = Saved(t).done
          /\ run'.results = <<>> /\ run'.recorded = 0
          /\ pc' = "cycle" /\ UNCHANGED entries
          /\ Saved(t).next < NumSteps(t)
      BY <1>5 DEF ResumeTask, NoRun, Resumable
    <2>2. Len(<<>>) = 0
      BY EmptySeq
    <2>3. StepsPassed(t, run.start)' /\ RecordsShown(t, run.done)'
      BY <1>t, <2>1 DEF CheckpointIsBacked, StepsPassed, RecordsShown, InLog
    <2>4. RunBacked'
      BY <2>1, <2>2, <2>3 DEF RunBacked, AfterLoop, Beginning, ResultsShown, NumSteps
    <2> QED
      BY <1>3, <2>4 DEF BackedInv
  <1>6. CASE BeginTask(t, resume)
    <2>1. /\ run'.task = t /\ run'.start = 0 /\ run'.done = <<>>
          /\ run'.results = <<>> /\ run'.recorded = 0
          /\ pc' = "begin"
      BY <1>6 DEF BeginTask, NoRun
    <2>2. Len(<<>>) = 0 /\ 0 < NumSteps(t)
      BY <1>t, EmptySeq, RunTypes
    <2>3. StepsPassed(t, 0)' /\ RecordsShown(t, <<>>)'
      BY <2>2 DEF StepsPassed, RecordsShown
    <2>4. RunBacked'
      BY <2>1, <2>2, <2>3 DEF RunBacked, AfterLoop, Beginning, ResultsShown, NumSteps
    <2> QED
      BY <1>3, <2>4 DEF BackedInv
  <1> QED
    BY <1>4, <1>5, <1>6

\* The loop of the orchestrator touches neither the log nor a file.
LEMMA LoopBacked ==
  ASSUME TypeInv, TypeInv', BackedInv,
         StepPasses \/ StepRefused \/ StepLacksHandoff \/ StepRaises
  PROVE  BackedInv'
  <1>t. TypeOK /\ TypeOK' /\ CheckpointIsBacked /\ RunBacked
    BY DEF TypeInv, BackedInv
  <1>1. UNCHANGED <<entries, ckpt, episodes>> /\ pc = "step"
    BY DEF StepPasses, StepRefused, StepLacksHandoff, StepRaises, InLoop
  <1>2. run.task \in Tasks
    BY <1>t, <1>1 DEF TypeOK, Run
  <1>3. CheckpointIsBacked'
    <2>1. \A u \in Tasks : episodes'[u] >= episodes[u]
      BY <1>t, <1>1 DEF TypeOK
    <2> QED
      BY <1>t, <1>1, <2>1, FilesStayBacked DEF Saved
  <1>n. PICK n \in Nat : n = Len(run.results)
    BY <1>t, RunTypes
  <1>4. PICK s \in Outcomes, h \in Nat, odd \in SUBSET Oddity : Advance(s, h, odd)
    BY <1>t, LoopAdvances
  <1>5. PICK rs : rs = Append(run.results, s)
    OBVIOUS
  <1>6. /\ Len(rs) = n + 1 /\ rs[n + 1] = s
        /\ \A j \in 1 .. n : rs[j] = run.results[j]
    BY <1>t, <1>n, <1>5, RunTypes, AppendProperties
  <1>7. /\ run'.task = run.task /\ run'.start = run.start /\ run'.done = run.done
        /\ run'.results = rs /\ run'.recorded = run.recorded
        /\ pc' = IF s = "FAIL" \/ run.start + (n + 1) = NumSteps(run.task)
                   THEN "record" ELSE "step"
    BY <1>t, <1>4, <1>5, <1>6 DEF Advance, AfterStep, TypeOK, Run
  <1>8. /\ StepsPassed(run.task, run.start) /\ RecordsShown(run.task, run.done)
        /\ run.recorded = 0 /\ run.start < NumSteps(run.task)
        /\ run.start + n < NumSteps(run.task)
        /\ \A j \in 1 .. n : run.results[j] = "PASS"
    BY <1>t, <1>1, <1>2, <1>n, NoTaskAssumption DEF RunBacked, Pos
  <1>9. StepsPassed(run.task, run.start)' /\ RecordsShown(run.task, run.done)'
    BY <1>1, <1>7, <1>8 DEF StepsPassed, RecordsShown, InLog
  <1>10. \A j \in 1 .. n + 1 : j < n + 1 => rs[j] = "PASS"
    BY <1>6, <1>8
  <1>11. s # "FAIL" => \A j \in 1 .. n + 1 : rs[j] = "PASS"
    BY <1>6, <1>10 DEF Outcomes
  <1>12. Pos' = run.start + (n + 1) /\ NumSteps(run.task)' = NumSteps(run.task)
    BY <1>6, <1>7 DEF Pos, NumSteps
  <1>13. Failed' <=> s = "FAIL"
    BY <1>6, <1>7 DEF Failed
  <1>14. NumSteps(run.task) \in Nat /\ run.start \in Nat
    BY <1>t, <1>2, RunTypes
  <1>15. RunBacked'
    BY <1>6, <1>7, <1>8, <1>9, <1>10, <1>11, <1>12, <1>13, <1>14
    DEF RunBacked, AfterLoop, Beginning, ResultsShown
  <1> QED
    BY <1>3, <1>15 DEF BackedInv

\* Every other step inside run_task, but the two that write a checkpoint.
LEMMA WorkBacked ==
  ASSUME TypeInv, TypeInv', BackedInv,
         \/ RecordStart \/ RecordCycle \/ RecordStep \/ RecordsDone
         \/ Remember \/ RecordMemory \/ RecordEnd
  PROVE  BackedInv'
  <1>t. TypeOK /\ TypeOK' /\ HasResult /\ CheckpointIsBacked /\ RunBacked
    BY DEF TypeInv, BackedInv
  <1>1. /\ run.task \in Tasks /\ run.task # NoTask
        /\ pc \in Beginning \cup AfterLoop /\ pc \notin {"down", "ready", "raising"}
    BY <1>t, NoTaskAssumption
    DEF RecordStart, RecordCycle, RecordStep, RecordsDone, Remember, RecordMemory, RecordEnd,
        TypeOK, Run, Beginning, AfterLoop
  <1>2. UNCHANGED ckpt
    BY DEF RecordStart, RecordCycle, RecordStep, RecordsDone, Remember, RecordMemory, RecordEnd
  <1>p. PICK t \in Tasks : t = run.task
    BY <1>1
  <1>n. PICK n \in Nat : n = Len(run.results)
    BY <1>t, RunTypes
  <1>r. PICK start \in Nat, rec \in Nat : start = run.start /\ rec = run.recorded
    BY <1>t, RunTypes
  <1>b. /\ StepsPassed(t, start) /\ RecordsShown(t, run.done)
        /\ rec <= n
        /\ ResultsShown(t, start, run.results, rec)
        /\ start < NumSteps(t)
        /\ \A j \in 1 .. n : j < n => run.results[j] = "PASS"
    BY <1>t, <1>1, <1>p, <1>n, <1>r DEF RunBacked
  <1>v. pc \in AfterLoop =>
          /\ Verdict \in Outcomes /\ NextIndex \in Nat
          /\ Failed \/ Pos = NumSteps(t)
    <2>1. pc \in AfterLoop => Failed \/ Pos = NumSteps(t)
      BY <1>t, <1>1, <1>p DEF RunBacked
    <2>2. pc \in AfterLoop => n > 0
      BY <1>t, <1>n DEF HasResult
    <2>3. NumSteps(run.task) \in Nat
      BY <1>t, <1>1, RunTypes
    <2> QED
      BY <2>1, <2>2, <2>3, <1>n, <1>r DEF Verdict, NextIndex, Pos, Outcomes
  <1>f. /\ NumSteps(t)' = NumSteps(t) /\ t' = t /\ n' = n
        /\ UNCHANGED <<run.task, run.start, run.results>>
    BY <1>t DEF NumSteps, RecordStart, RecordCycle, RecordStep, RecordsDone, Remember,
       RecordMemory, RecordEnd, TypeOK, Run
  <1>g. Pos' = Pos /\ (Failed' <=> Failed) /\ Verdict' = Verdict /\ NextIndex' = NextIndex
    BY <1>f DEF Pos, Failed, Verdict, NextIndex, NumSteps
  <1>3. \A x : Has(entries, x) => Has(entries', x)
    <2>1. CASE UNCHANGED entries
      BY <2>1
    <2>2. CASE \E e \in LedgerEvents : Record(e)
      BY <1>t, <2>2, RecordAdds
    <2>3. CASE RecordStep
      <3>1. run.results[rec + 1] \in Outcomes
        BY <1>t, <1>n, <1>r, <2>3, RunTypes, ElementOfSeq DEF RecordStep
      <3>2. start + rec \in Nat
        BY <1>r
      <3> QED
        BY <1>1, <1>r, <2>2, <2>3, <3>1, <3>2, EventTypes DEF RecordStep
    <2>4. CASE RecordStart \/ RecordCycle \/ RecordMemory
      BY <1>1, <1>t, <2>2, <2>4, RunTypes, EventTypes
      DEF RecordStart, RecordCycle, RecordMemory, Outcomes
    <2>5. CASE RecordEnd
      <3>1. Verdict \in Outcomes /\ NextIndex \in Nat
        <4>1. pc \in AfterLoop
          BY <2>5 DEF RecordEnd, AfterLoop
        <4> QED
          BY <1>v, <4>1
      <3>2. EndEvent(run.task, NextIndex, Verdict) \in LedgerEvents
        BY <1>1, <3>1, EventTypes
      <3> QED
        BY <2>2, <2>5, <3>2 DEF RecordEnd
    <2> QED
      BY <2>1, <2>3, <2>4, <2>5 DEF RecordsDone, Remember
  <1>4. \A u \in Tasks : /\ episodes[u] \in Nat /\ episodes'[u] \in Nat
                         /\ episodes'[u] >= episodes[u]
    BY <1>t DEF RecordStart, RecordCycle, RecordStep, RecordsDone, Remember,
       RecordMemory, RecordEnd, TypeOK
  <1>5. CheckpointIsBacked'
    BY <1>t, <1>2, <1>3, <1>4, FilesStayBacked DEF Saved
  <1>6. StepsPassed(t, start)'
    BY <1>b, <1>3 DEF StepsPassed, InLog
  <1>7. ResultsShown(t, start, run.results, rec)'
    BY <1>b, <1>3, <1>f, <1>r DEF ResultsShown, InLog
  <1>8. UNCHANGED run.done => RecordsShown(t, run.done)'
    BY <1>b, <1>3 DEF RecordsShown, InLog
  <1>9. UNCHANGED episodes /\ Remembered(t) => Remembered(t)'
    BY <1>3 DEF Remembered, InLog
  <1>10. ASSUME UNCHANGED run.done, UNCHANGED run.recorded,
                pc \in {"begin", "claim"} => start = 0,
                pc' \in {"begin", "claim"} => start = 0,
                pc' \in Beginning => run.results = <<>> /\ rec = 0,
                pc' = "step" => run.results = <<>> /\ rec = 0,
                pc' \in AfterLoop => pc \in AfterLoop,
                pc' \in AfterLoop \ {"record"} => rec = n,
                pc' \in {"remember", "note"} => ~Failed,
                pc' = "note" => episodes'[t] > 0,
                pc' \in {"end", "close"} /\ ~Failed => Remembered(t)',
                pc' = "close" => InLog(EndEvent(t, NextIndex, Verdict))'
         PROVE  RunBacked'
    <2>1. Len(<<>>) = 0 /\ (run.results = <<>> => n = 0 /\ Pos = start)
      BY EmptySeq, <1>n, <1>r DEF Pos
    <2> QED
      BY <1>10, <1>p, <1>n, <1>r, <1>b, <1>v, <1>f, <1>g, <1>6, <1>7, <1>8, <2>1
      DEF RunBacked
  <1>11. CASE RecordStart
    BY <1>11, <1>10, <1>t, <1>1, <1>p, <1>r, <1>5 DEF RecordStart, RunBacked, BackedInv,
       Beginning, AfterLoop
  <1>12. CASE RecordCycle
    BY <1>12, <1>10, <1>t, <1>1, <1>p, <1>r, <1>5 DEF RecordCycle, RunBacked, BackedInv,
       Beginning, AfterLoop
  <1>13. CASE RecordStep
    <2>1. /\ pc = "record" /\ pc' = "record"
          /\ rec < n /\ run'.recorded = rec + 1 /\ UNCHANGED <<run.done, episodes>>
      BY <1>13, <1>t, <1>n, <1>r DEF RecordStep, TypeOK, Run
    <2>2. Has(entries', StepEvent(t, start + rec, run.results[rec + 1]))
      <3>1. run.results[rec + 1] \in Outcomes
        BY <1>t, <1>n, <2>1, RunTypes, ElementOfSeq
      <3>2. StepEvent(t, start + rec, run.results[rec + 1]) \in LedgerEvents
        BY <3>1, EventTypes
      <3> QED
        BY <1>13, <1>t, <1>p, <1>r, <3>2, RecordAdds DEF RecordStep
    <2>3. ResultsShown(t, start, run.results, rec + 1)'
      <3> SUFFICES ASSUME NEW j \in 1 .. rec + 1
                   PROVE  Has(entries', StepEvent(t, start + j - 1, run.results[j]))
        BY <1>f, <1>r, <2>1 DEF ResultsShown, InLog
      <3>1. CASE j = rec + 1
        <4>1. start + j - 1 = start + rec
          BY <3>1
        <4> QED
          BY <3>1, <4>1, <2>2
      <3>2. CASE j # rec + 1
        <4>1. j \in 1 .. rec
          BY <3>2
        <4> QED
          BY <4>1, <1>b, <1>3 DEF ResultsShown, InLog
      <3> QED
        BY <3>1, <3>2
    <2>4. RunBacked'
      BY <2>1, <2>3, <1>p, <1>n, <1>r, <1>b, <1>v, <1>f, <1>g, <1>6, <1>8
      DEF RunBacked, AfterLoop, Beginning
    <2> QED
      BY <1>5, <2>4 DEF BackedInv
  <1>14. CASE RecordsDone
    <2>1. /\ pc = "record" /\ pc' = IF ~Failed /\ t \in Remembering THEN "remember" ELSE "end"
          /\ rec = n /\ run'.recorded = rec
          /\ run'.done = run.done \o AbsSteps /\ UNCHANGED <<entries, episodes>>
      BY <1>14, <1>t, <1>p, <1>n, <1>r DEF RecordsDone, AfterRecords, TypeOK, Run
    <2>2. PICK m \in Nat : m = Len(run.done)
      BY <1>t, RunTypes, LenProperties
    <2>3. /\ Len(run'.done) = m + n
          /\ \A j \in 1 .. m + n :
               run'.done[j] = IF j <= m THEN run.done[j] ELSE AbsSteps[j - m]
      <3>1. /\ run.done \in Seq(StepRecord) /\ AbsSteps \in Seq(StepRecord)
            /\ Len(AbsSteps) = n
        BY <1>t, <1>n, RunTypes, AbsStepsTyped
      <3>2. /\ Len(run.done \o AbsSteps) = m + n
            /\ \A j \in 1 .. m + n :
                 (run.done \o AbsSteps)[j] = IF j <= m THEN run.done[j] ELSE AbsSteps[j - m]
        BY <3>1, <2>2, ConcatProperties
      <3> QED
        BY <2>1, <3>2
    <2>4. RecordsShown(t, run.done)'
      <3> SUFFICES ASSUME NEW j \in 1 .. m + n
                   PROVE  Has(entries, StepEvent(t, run'.done[j].index, run'.done[j].status))
        BY <2>1, <2>3 DEF RecordsShown, InLog
      <3>1. CASE j <= m
        <4>1. j \in 1 .. m
          BY <3>1
        <4>2. run'.done[j] = run.done[j]
          BY <3>1, <2>3
        <4> QED
          BY <4>1, <4>2, <2>2, <1>b DEF RecordsShown, InLog
      <3>2. CASE j > m
        <4>1. PICK i \in 1 .. n : i = j - m
          BY <3>2
        <4>2. run'.done[j] = AbsSteps[i]
          BY <3>2, <4>1, <2>3
        <4>3. AbsSteps[i] = [index |-> start + i - 1, status |-> run.results[i]]
          BY <4>1, <1>t, <1>n, <1>r, AbsStepsTyped
        <4>4. Has(entries, StepEvent(t, start + i - 1, run.results[i]))
          BY <4>1, <1>b, <2>1 DEF ResultsShown, InLog
        <4> QED
          BY <4>2, <4>3, <4>4
      <3> QED
        BY <3>1, <3>2, <2>2
    <2>5. ~Failed /\ pc' = "end" => Remembered(t)'
      BY <2>1 DEF Remembered
    <2>6. RunBacked'
      BY <2>1, <2>4, <2>5, <1>p, <1>n, <1>r, <1>b, <1>v, <1>f, <1>g, <1>6, <1>7
      DEF RunBacked, AfterLoop, Beginning
    <2> QED
      BY <1>5, <2>6 DEF BackedInv
  <1>15. CASE Remember
    <2>1. episodes'[t] > 0
      BY <1>15, <1>t, <1>p DEF Remember, TypeOK
    <2> QED
      BY <1>15, <1>10, <1>t, <1>1, <1>p, <1>n, <1>r, <1>5, <2>1
      DEF Remember, RunBacked, BackedInv, Beginning, AfterLoop
  <1>16. CASE RecordMemory
    <2>1. Has(entries', MemoryEvent(t))
      <3>1. MemoryEvent(t) \in LedgerEvents
        BY EventTypes DEF Outcomes
      <3> QED
        BY <1>16, <1>t, <1>p, <3>1, RecordAdds DEF RecordMemory
    <2>2. Remembered(t)'
      BY <1>16, <1>t, <1>1, <1>p, <2>1 DEF RecordMemory, RunBacked, Remembered, InLog
    <2> QED
      BY <1>16, <1>10, <1>t, <1>1, <1>p, <1>n, <1>r, <1>5, <2>2
      DEF RecordMemory, RunBacked, BackedInv, Beginning, AfterLoop
  <1>17. CASE RecordEnd
    <2>1. Has(entries', EndEvent(t, NextIndex, Verdict))
      <3>1. Verdict \in Outcomes /\ NextIndex \in Nat
        <4>1. pc \in AfterLoop
          BY <1>17 DEF RecordEnd, AfterLoop
        <4> QED
          BY <1>v, <4>1
      <3>2. EndEvent(t, NextIndex, Verdict) \in LedgerEvents
        BY <3>1, EventTypes
      <3> QED
        BY <1>17, <1>t, <1>p, <3>2, RecordAdds DEF RecordEnd
    <2>2. InLog(EndEvent(t, NextIndex, Verdict))'
      BY <2>1, <1>f, <1>g DEF InLog
    <2>3. ~Failed => Remembered(t)'
      BY <1>17, <1>t, <1>1, <1>p, <1>9 DEF RecordEnd, RunBacked
    <2> QED
      BY <1>17, <1>10, <1>t, <1>1, <1>p, <1>n, <1>r, <1>5, <2>2, <2>3
      DEF RecordEnd, RunBacked, BackedInv, Beginning, AfterLoop
  <1> QED
    BY <1>11, <1>12, <1>13, <1>14, <1>15, <1>16, <1>17

\* The two steps that write a checkpoint.
LEMMA SaveBacked ==
  ASSUME DistinctFiles, TypeInv, TypeInv', BackedInv, SaveRunning \/ SaveVerdict
  PROVE  BackedInv'
  <1>t. TypeOK /\ TypeOK' /\ HasResult /\ CheckpointIsBacked /\ RunBacked
    BY DEF TypeInv, BackedInv
  <1>1. /\ UNCHANGED <<entries, episodes, run>>
        /\ run.task \in Tasks /\ run.task # NoTask
    BY <1>t, NoTaskAssumption DEF SaveRunning, SaveVerdict, TypeOK, Run
  <1>p. PICK t \in Tasks : t = run.task
    BY <1>1
  <1>2. ASSUME NEW s, NEW i, NEW h, NEW d, Save(t, s, i, h, d), NEW u \in Tasks
        PROVE  IF u = t
                 THEN Saved(u)'.status = s /\ Saved(u)'.next = i /\ Saved(u)'.done = d
                 ELSE Saved(u)' = Saved(u)
    BY <1>2, <1>t, FileAssumption DEF Save, Saved, DistinctFiles, TypeOK
  <1>3. ASSUME NEW s, NEW i, NEW h, NEW d, Save(t, s, i, h, d),
               StepsPassed(t, i), RecordsShown(t, d),
               s = "PASS" => /\ i = NumSteps(t)
                             /\ InLog(EndEvent(t, NumSteps(t), "PASS"))
                             /\ Remembered(t)
        PROVE  CheckpointIsBacked'
    <2> SUFFICES ASSUME NEW u \in Tasks
                 PROVE  /\ StepsPassed(u, Saved(u).next)'
                        /\ RecordsShown(u, Saved(u).done)'
                        /\ Saved(u)'.status = "PASS" =>
                             /\ Saved(u)'.next = NumSteps(u)
                             /\ InLog(EndEvent(u, NumSteps(u), "PASS"))'
                             /\ Remembered(u)'
      BY DEF CheckpointIsBacked, NumSteps
    <2>1. CASE u = t
      BY <2>1, <1>1, <1>2, <1>3 DEF StepsPassed, RecordsShown, Remembered, InLog
    <2>2. CASE u # t
      BY <2>2, <1>1, <1>2, <1>3, <1>t
      DEF CheckpointIsBacked, StepsPassed, RecordsShown, Remembered, InLog
    <2> QED
      BY <2>1, <2>2
  <1>n. PICK n \in Nat : n = Len(run.results)
    BY <1>t, RunTypes
  <1>r. PICK start \in Nat : start = run.start
    BY <1>t, RunTypes
  <1>4. CASE SaveRunning
    <2>1. pc = "claim" /\ pc' = "cycle" /\ Save(t, "RUNNING", 0, run.handoff, run.done)
      BY <1>4, <1>p DEF SaveRunning
    <2>2. StepsPassed(t, 0) /\ RecordsShown(t, run.done)
      BY <1>t, <1>1, <1>p DEF RunBacked, StepsPassed
    <2>3. CheckpointIsBacked'
      BY <1>3, <2>1, <2>2
    <2>4. RunBacked'
      BY <1>t, <1>1, <2>1 DEF RunBacked, Beginning, AfterLoop, StepsPassed, RecordsShown,
         ResultsShown, InLog, NumSteps
    <2> QED
      BY <2>3, <2>4 DEF BackedInv
  <1>5. CASE SaveVerdict
    <2>1. pc = "close" /\ pc' = "persist" /\ Save(t, Verdict, NextIndex, run.handoff, run.done)
      BY <1>5, <1>p DEF SaveVerdict
    <2>2. /\ StepsPassed(t, start) /\ RecordsShown(t, run.done)
          /\ ResultsShown(t, start, run.results, n)
          /\ \A j \in 1 .. n : j < n => run.results[j] = "PASS"
          /\ Failed \/ start + n = NumSteps(t)
          /\ ~Failed => Remembered(t)
          /\ InLog(EndEvent(t, NextIndex, Verdict))
      BY <1>t, <1>1, <1>p, <1>n, <1>r, <2>1 DEF RunBacked, AfterLoop, Pos
    <2>3. n > 0 /\ NumSteps(t) \in Nat
      BY <1>t, <1>n, <2>1, RunTypes DEF HasResult, AfterLoop
    <2>4. /\ NextIndex = IF Failed THEN start + n - 1 ELSE NumSteps(t)
          /\ Failed <=> run.results[n] = "FAIL"
      BY <1>n, <1>r, <1>p DEF NextIndex, Pos, Failed
    <2>5. ASSUME NEW i \in 0 .. NumSteps(t) - 1, i < NextIndex
          PROVE  InLog(StepEvent(t, i, "PASS"))
      <3>1. CASE i < start
        BY <3>1, <2>2 DEF StepsPassed
      <3>2. CASE i >= start
        <4>1. i < start + n
          BY <2>2, <2>3, <2>4, <2>5
        <4>2. PICK j \in 1 .. n : j = i - start + 1
          BY <3>2, <4>1
        <4>3. run.results[j] = "PASS"
          <5>1. CASE j < n
            BY <5>1, <2>2
          <5>2. CASE j = n
            <6>1. i = start + n - 1
              BY <5>2, <4>2
            <6>3. ~Failed
              BY <6>1, <2>4, <2>5
            <6>2. run.results[n] \in Outcomes
              BY <1>t, <1>n, <2>3, RunTypes, ElementOfSeq
            <6> QED
              BY <5>2, <6>3, <6>2, <2>4 DEF Outcomes
          <5> QED
            BY <4>2, <5>1, <5>2
        <4>4. InLog(StepEvent(t, start + j - 1, run.results[j]))
          BY <4>2, <2>2 DEF ResultsShown
        <4>5. start + j - 1 = i
          BY <4>2
        <4> QED
          BY <4>3, <4>4, <4>5
      <3> QED
        BY <3>1, <3>2
    <2>6. StepsPassed(t, NextIndex)
      BY <2>5 DEF StepsPassed
    <2>7. Verdict = "PASS" => /\ NextIndex = NumSteps(t)
                              /\ InLog(EndEvent(t, NumSteps(t), "PASS"))
                              /\ Remembered(t)
      BY <2>2, <2>4 DEF Verdict
    <2>8. CheckpointIsBacked'
      BY <1>3, <2>1, <2>2, <2>6, <2>7
    <2>9. RunBacked'
      BY <1>t, <1>1, <2>1 DEF RunBacked, Beginning, AfterLoop, StepsPassed, RecordsShown,
         ResultsShown, InLog, NumSteps, Failed, Pos
    <2> QED
      BY <2>8, <2>9 DEF BackedInv
  <1> QED
    BY <1>4, <1>5

LEMMA StepBacked ==
  ASSUME DistinctFiles, TypeInv, BackedInv, [Next]_vars
  PROVE  BackedInv'
  <1>t. TypeInv' /\ TypeOK /\ TypeOK' /\ CheckpointIsBacked /\ RunBacked
    BY StepTyped DEF TypeInv, BackedInv
  <1>1. ASSUME NEW t \in Tasks, RunTask(t)
        PROVE  BackedInv'
    BY <1>1, <1>t, CallBacked DEF RunTask
  <1>2. CASE StepPasses \/ StepRefused \/ StepLacksHandoff \/ StepRaises
    BY <1>2, <1>t, LoopBacked
  <1>3. CASE \/ RecordStart \/ RecordCycle \/ RecordStep \/ RecordsDone
             \/ Remember \/ RecordMemory \/ RecordEnd
    BY <1>3, <1>t, WorkBacked
  <1>4. CASE SaveRunning \/ SaveVerdict
    BY <1>4, <1>t, SaveBacked
  <1>5. ASSUME UNCHANGED <<entries, episodes>>,
               \A t \in Tasks : /\ Saved(t)'.next = Saved(t).next
                                /\ Saved(t)'.done = Saved(t).done
                                /\ Saved(t)'.status = Saved(t).status,
               run'.task = NoTask \/ UNCHANGED <<run, pc>>
        PROVE  BackedInv'
    <2>1. \A u \in Tasks : episodes'[u] >= episodes[u]
      BY <1>t, <1>5 DEF TypeOK
    <2>2. CheckpointIsBacked'
      BY <1>t, <1>5, <2>1, FilesStayBacked
    <2>3. RunBacked'
      BY <1>t, <1>5 DEF RunBacked, StepsPassed, RecordsShown, ResultsShown, Remembered, InLog,
         NumSteps, Failed, Pos, NextIndex, Verdict
    <2> QED
      BY <2>2, <2>3 DEF BackedInv
  <1>6. CASE \/ Launch \/ Exit \/ RefuseBrokenLog \/ Raise \/ SyncTip \/ Persist \/ Crash
             \/ UNCHANGED vars
    <2>1. UNCHANGED <<entries, episodes>>
      BY <1>6 DEF Launch, Exit, RefuseBrokenLog, Raise, SyncTip, Persist, Crash,
         Audit!Sync, Audit!TearDown, vars
    <2>2. run'.task = NoTask \/ UNCHANGED <<run, pc>>
      BY <1>6, <1>t, NoRunTyped DEF Launch, Exit, RefuseBrokenLog, Raise, Die, SyncTip,
         Persist, Crash, TypeOK, vars
    <2>3. UNCHANGED ckpt
      BY <1>6 DEF Launch, Exit, RefuseBrokenLog, Raise, SyncTip, Persist, Crash, vars
    <2> QED
      BY <1>5, <2>1, <2>2, <2>3 DEF Saved
  <1>7. ASSUME NEW f \in Files, Damage(f)
        PROVE  BackedInv'
    <2>1. \A t \in Tasks : /\ Saved(t)'.next = Saved(t).next
                          /\ Saved(t)'.done = Saved(t).done
                          /\ Saved(t)'.status = Saved(t).status
      BY <1>7, <1>t, FileAssumption DEF Damage, Saved, TypeOK, Checkpoint
    <2> QED
      BY <1>5, <1>7, <2>1 DEF Damage
  <1>8. CASE WriteRaises
    BY <1>5, <1>8, <1>t, WriteRaisesEnds, NoRunTyped DEF Saved
  <1> QED
    BY <1>1, <1>2, <1>3, <1>4, <1>6, <1>7, <1>8 DEF Next, Proceed

(***************************************************************************)
(* A checkpoint claims nothing the audit log does not show, whatever the   *)
(* handlers do and wherever the process is killed, as long as no two tasks *)
(* share a checkpoint file: the steps before its next_index, its completed *)
(* steps, and for PASS the end of the run and the task's episode.          *)
(***************************************************************************)
THEOREM CheckpointsAreBacked ==
  ASSUME DistinctFiles
  PROVE  Spec => []CheckpointIsBacked
  <1>1. Init => TypeInv /\ BackedInv
    <2> SUFFICES ASSUME Init PROVE TypeInv /\ BackedInv
      OBVIOUS
    <2>1. TypeInv
      BY InitTyped
    <2> QED
      BY <2>1, InitBacked
  <1>2. TypeInv /\ BackedInv /\ [Next]_vars => (TypeInv /\ BackedInv)'
    BY StepTyped, StepBacked
  <1>3. BackedInv => CheckpointIsBacked
    BY DEF BackedInv
  <1> QED
    BY <1>1, <1>2, <1>3, PTL DEF Spec

(***************************************************************************)
(* A task that passed.  With resume, run_task looks at the checkpoint      *)
(* before it begins, so a task is at work only while its file does not say *)
(* PASS; SaveVerdict makes it say so, and nothing of that run but the      *)
(* engine save is left.  The hypotheses: no two tasks share a file, and    *)
(* every caller asks for resume, as the command line does by default.      *)
(***************************************************************************)
AlwaysResumes == Modes \subseteq {TRUE}

PassOnce ==
  \A t \in Tasks : run.task = t /\ pc # "persist" => Saved(t).status # "PASS"

\* What a save leaves in the files of the tasks.
LEMMA SaveEffect ==
  ASSUME DistinctFiles, TypeOK, NEW t \in Tasks, NEW s, NEW i, NEW h, NEW d,
         Save(t, s, i, h, d), NEW u \in Tasks
  PROVE  IF u = t
           THEN Saved(u)' = [status |-> s, next |-> i, handoff |-> h, done |-> d,
                             sound |-> ReadsBack]
           ELSE Saved(u)' = Saved(u)
  BY FileAssumption DEF Save, Saved, DistinctFiles, TypeOK

\* A damaged file still says what it said.
LEMMA DamageEffect ==
  ASSUME TypeOK, NEW f \in Files, Damage(f), NEW t \in Tasks
  PROVE  /\ Saved(t)'.status = Saved(t).status
         /\ Saved(t)'.next = Saved(t).next
         /\ Saved(t)'.done = Saved(t).done
  BY FileAssumption DEF Damage, Saved, TypeOK, Checkpoint

LEMMA StepPassOnce ==
  ASSUME DistinctFiles, AlwaysResumes, TypeInv, PassOnce, [Next]_vars
  PROVE  PassOnce'
  <1>t. TypeOK /\ TypeOK'
    BY StepTyped DEF TypeInv
  <1>k. ASSUME \A t \in Tasks : Saved(t)'.status = Saved(t).status,
               run'.task = run.task, pc' # "persist" => pc # "persist"
        PROVE  PassOnce'
    BY <1>k DEF PassOnce
  <1>n. ASSUME run'.task = NoTask
        PROVE  PassOnce'
    BY <1>n, NoTaskAssumption DEF PassOnce
  <1>1. CASE \/ Launch \/ Exit \/ RefuseBrokenLog \/ Raise \/ Persist \/ Crash
    BY <1>1, <1>t, <1>n, NoRunTyped
    DEF Launch, Exit, RefuseBrokenLog, Raise, Persist, Crash, Die, TypeOK
  <1>2. ASSUME NEW t \in Tasks, RunTask(t)
        PROVE  PassOnce'
    <2>1. PICK resume \in Modes :
            \/ ReportPassed(t, resume) \/ RejectCheckpoint(t, resume)
            \/ ResumeTask(t, resume) \/ BeginTask(t, resume)
      BY <1>2 DEF RunTask
    <2>2. CASE ReportPassed(t, resume) \/ RejectCheckpoint(t, resume)
      BY <2>2, <1>t, <1>n DEF ReportPassed, RejectCheckpoint, Enter, TypeOK
    <2>3. CASE ResumeTask(t, resume) \/ BeginTask(t, resume)
      <3>1. UNCHANGED ckpt /\ run'.task = t /\ Saved(t).status # "PASS"
        BY <2>3 DEF ResumeTask, BeginTask, Resumable, Consults, AlwaysResumes, NoRun
      <3> QED
        BY <3>1 DEF PassOnce, Saved
    <2> QED
      BY <2>1, <2>2, <2>3
  <1>3. CASE \/ SyncTip \/ RecordStart \/ RecordCycle \/ RecordStep \/ RecordsDone
             \/ Remember \/ RecordMemory \/ RecordEnd \/ UNCHANGED vars
    <2>1. UNCHANGED ckpt /\ run'.task = run.task /\ (pc' # "persist" => pc # "persist")
      BY <1>3, <1>t DEF SyncTip, RecordStart, RecordCycle, RecordStep, RecordsDone,
         AfterRecords, Remember, RecordMemory, RecordEnd, vars, TypeOK, Run
    <2> QED
      BY <2>1, <1>k DEF Saved
  <1>4. CASE StepPasses \/ StepRefused \/ StepLacksHandoff \/ StepRaises
    <2>1. UNCHANGED ckpt /\ run'.task = run.task /\ pc # "persist"
      BY <1>4, <1>t DEF StepPasses, StepRefused, StepLacksHandoff, StepRaises, InLoop,
         Advance, TypeOK, Run
    <2> QED
      BY <2>1, <1>k DEF Saved
  <1>5. CASE SaveRunning
    <2>1. run.task \in Tasks
      BY <1>5, <1>t DEF SaveRunning, TypeOK, Run
    <2> QED
      BY <1>5, <1>t, <2>1, SaveEffect DEF SaveRunning, PassOnce
  <1>6. CASE SaveVerdict
    BY <1>6 DEF SaveVerdict, PassOnce
  <1>7. ASSUME NEW f \in Files, Damage(f)
        PROVE  PassOnce'
    BY <1>7, <1>t, <1>k, DamageEffect DEF Damage
  <1>8. CASE WriteRaises
    BY <1>8, <1>t, <1>n, WriteRaisesEnds, NoRunTyped
  <1> QED
    BY <1>1, <1>2, <1>3, <1>4, <1>5, <1>6, <1>7, <1>8 DEF Next, Proceed

\* The last entry of a log that has grown.
LEMMA RecordLast ==
  ASSUME TypeOK, NEW e \in LedgerEvents, Record(e)
  PROVE  entries'[Len(entries')] = e
  <1>n. PICK n \in Nat : n = Len(entries)
    BY LenProperties DEF TypeOK, Audit!AuditTypeOK
  <1> QED
    BY <1>n, AppendProperties DEF TypeOK, Audit!AuditTypeOK, Record, Garble, Audit!Write

(***************************************************************************)
(* What one step may do to a task whose checkpoint says PASS.              *)
(***************************************************************************)
StaysPassed(t) ==
  Saved(t).status = "PASS" =>
    /\ Saved(t)'.status = "PASS"
    /\ entries' # entries /\ entries'[Len(entries')].task = t
         => entries'[Len(entries')] = RejectEvent(t)

LEMMA StepStaysPassed ==
  ASSUME DistinctFiles, TypeInv, PassOnce, [Next]_vars, NEW t \in Tasks
  PROVE  StaysPassed(t)
  <1>t. TypeOK
    BY DEF TypeInv
  <1> SUFFICES ASSUME Saved(t).status = "PASS"
               PROVE  /\ Saved(t)'.status = "PASS"
                      /\ entries' # entries /\ entries'[Len(entries')].task = t
                           => entries'[Len(entries')] = RejectEvent(t)
    BY DEF StaysPassed
  <1>1. CASE UNCHANGED <<entries, ckpt>>
    BY <1>1 DEF Saved
  <1>2. ASSUME NEW u \in Tasks, RunTask(u), ~UNCHANGED entries
        PROVE  UNCHANGED ckpt /\ entries'[Len(entries')] = RejectEvent(u)
    <2>1. PICK resume \in Modes : RejectCheckpoint(u, resume)
      BY <1>2 DEF RunTask, ReportPassed, ResumeTask, BeginTask
    <2>2. RejectEvent(u) \in LedgerEvents
      BY EventTypes DEF Outcomes
    <2> QED
      BY <2>1, <2>2, <1>t, RecordLast DEF RejectCheckpoint
  <1>3. ASSUME NEW e \in LedgerEvents, e.task = run.task, Record(e), UNCHANGED ckpt,
               pc # "persist"
        PROVE  /\ Saved(t)'.status = "PASS"
               /\ entries'[Len(entries')].task # t
    BY <1>3, <1>t, RecordLast DEF PassOnce, Saved
  <1>4. CASE \/ RecordStart \/ RecordCycle \/ RecordStep \/ RecordMemory \/ RecordEnd
    <2>1. run.task \in Tasks
      BY <1>4, <1>t DEF RecordStart, RecordCycle, RecordStep, RecordMemory, RecordEnd,
         TypeOK, Run
    <2>2. \E e \in LedgerEvents : e.task = run.task /\ Record(e)
      <3>1. CASE RecordStart \/ RecordCycle \/ RecordMemory
        BY <3>1, <2>1, <1>t, RunTypes, EventTypes
        DEF RecordStart, RecordCycle, RecordMemory, StartEvent, CycleEvent, MemoryEvent,
            Outcomes
      <3>2. CASE RecordStep
        <4>1. run.results[run.recorded + 1] \in Outcomes
          BY <3>2, <1>t, RunTypes, ElementOfSeq DEF RecordStep
        <4>2. run.start + run.recorded \in Nat
          BY <1>t, RunTypes
        <4> QED
          BY <3>2, <2>1, <4>1, <4>2, EventTypes DEF RecordStep, StepEvent
      <3>3. CASE RecordEnd
        <4>1. Verdict \in Outcomes /\ NextIndex \in Nat
          BY <3>3, <2>1, <1>t, RunTypes
          DEF RecordEnd, TypeInv, HasResult, AfterLoop, Verdict, NextIndex, Pos, Outcomes
        <4> QED
          BY <3>3, <2>1, <4>1, EventTypes DEF RecordEnd, EndEvent
      <3> QED
        BY <1>4, <3>1, <3>2, <3>3
    <2>3. UNCHANGED ckpt /\ pc # "persist"
      BY <1>4 DEF RecordStart, RecordCycle, RecordStep, RecordMemory, RecordEnd
    <2> QED
      BY <2>2, <2>3, <1>3
  <1>5. CASE SaveRunning \/ SaveVerdict
    <2>1. run.task \in Tasks /\ run.task # t /\ UNCHANGED entries
      BY <1>5, <1>t DEF SaveRunning, SaveVerdict, TypeOK, Run, PassOnce
    <2>2. Saved(t)' = Saved(t)
      BY <1>5, <1>t, <2>1, SaveEffect DEF SaveRunning, SaveVerdict
    <2> QED
      BY <2>1, <2>2
  <1>6. ASSUME NEW u \in Tasks, RunTask(u)
        PROVE  UNCHANGED ckpt
    BY <1>6 DEF RunTask, ReportPassed, RejectCheckpoint, ResumeTask, BeginTask
  <1>7. ASSUME NEW u \in Tasks, RunTask(u), ~UNCHANGED entries
        PROVE  entries'[Len(entries')].task = t => entries'[Len(entries')] = RejectEvent(t)
    <2>1. RejectEvent(u).task = u
      BY DEF RejectEvent
    <2>2. entries'[Len(entries')] = RejectEvent(u)
      BY <1>7, <1>2
    <2> QED
      BY <2>1, <2>2
  <1>8. ASSUME NEW f \in Files, Damage(f)
        PROVE  UNCHANGED entries /\ Saved(t)'.status = "PASS"
    BY <1>8, <1>t, DamageEffect DEF Damage
  <1>9. CASE \/ Launch \/ Exit \/ RefuseBrokenLog \/ Raise \/ Persist \/ Crash \/ SyncTip
             \/ StepPasses \/ StepRefused \/ StepLacksHandoff \/ StepRaises
             \/ RecordsDone \/ Remember \/ UNCHANGED vars
    BY <1>9, <1>1 DEF Launch, Exit, RefuseBrokenLog, Raise, Persist, Crash, SyncTip,
       StepPasses, StepRefused, StepLacksHandoff, StepRaises, RecordsDone, Remember,
       Audit!Sync, Audit!TearDown, vars
  <1>10. CASE WriteRaises
    BY <1>10, <1>1, <1>t, WriteRaisesEnds
  <1> QED
    BY <1>1, <1>4, <1>5, <1>6, <1>7, <1>8, <1>9, <1>10 DEF Next, Proceed, Saved

(***************************************************************************)
(* A task whose checkpoint says PASS is done for good: no call, kill or    *)
(* damaged file makes run_task write another checkpoint for it, and the    *)
(* log gets no entry of the task but the rejection of the damaged file.    *)
(***************************************************************************)
THEOREM PassedForGood ==
  ASSUME DistinctFiles, AlwaysResumes
  PROVE  Spec => PassIsFinal
  <1>1. Init => TypeInv /\ PassOnce
    <2> SUFFICES ASSUME Init PROVE TypeInv /\ PassOnce
      OBVIOUS
    <2>1. PassOnce
      BY NoRunTyped, NoTaskAssumption DEF Init, PassOnce
    <2> QED
      BY <2>1, InitTyped
  <1>2. TypeInv /\ PassOnce /\ [Next]_vars => (TypeInv /\ PassOnce)'
    BY StepTyped, StepPassOnce
  <1>3. TypeInv /\ PassOnce /\ [Next]_vars
          => [\A t \in Tasks : StaysPassed(t)]_vars
    BY StepStaysPassed
  <1>4. [][\A t \in Tasks : StaysPassed(t)]_vars <=> PassIsFinal
    BY DEF PassIsFinal, StaysPassed
  <1> QED
    BY <1>1, <1>2, <1>3, <1>4, PTL DEF Spec

(***************************************************************************)
(* Episodes and memory_append entries are counted against each other.  At  *)
(* "note" the episode is stored and its entry is still to be written, so   *)
(* there the entries are strictly fewer than the episodes.                 *)
(***************************************************************************)
NoteDue == \A t \in Tasks : pc = "note" /\ run.task = t => Notes(t) < episodes[t]

MemoryInv == MemoryAccounted /\ NoteDue

\* Only a memory_append entry of t counts for t.
LEMMA NotesCount ==
  ASSUME TypeOK, NEW t \in Tasks
  PROVE  /\ Notes(t) \in Nat
         /\ UNCHANGED entries => Notes(t)' = Notes(t)
         /\ \A e \in LedgerEvents :
              Record(e) => Notes(t)' = Notes(t) + (IF e = MemoryEvent(t) THEN 1 ELSE 0)
  <1>n. PICK n \in Nat : n = Len(entries)
    BY LenProperties DEF TypeOK, Audit!AuditTypeOK
  <1>a. PICK A : A = {k \in 1 .. n : entries[k] = MemoryEvent(t)}
    OBVIOUS
  <1>1. IsFiniteSet(A) /\ Cardinality(A) \in Nat /\ Notes(t) = Cardinality(A)
    <2>1. IsFiniteSet(1 .. n)
      BY FS_Interval
    <2>2. IsFiniteSet(A)
      BY <1>a, <2>1, FS_Subset
    <2> QED
      BY <1>n, <1>a, <2>2, FS_CardinalityType DEF Notes
  <1>2. ASSUME NEW e \in LedgerEvents, Record(e)
        PROVE  Notes(t)' = Notes(t) + (IF e = MemoryEvent(t) THEN 1 ELSE 0)
    <2>1. /\ Len(entries') = n + 1 /\ entries'[n + 1] = e
          /\ \A k \in 1 .. n : entries'[k] = entries[k]
      BY <1>n, <1>2, AppendProperties DEF TypeOK, Audit!AuditTypeOK, Record, Garble, Audit!Write
    <2>2. 1 .. n + 1 = (1 .. n) \cup {n + 1} /\ n + 1 \notin A
      BY <1>a
    <2>3. Notes(t)' = Cardinality({k \in 1 .. n + 1 : entries'[k] = MemoryEvent(t)})
      BY <2>1 DEF Notes, MemoryEvent
    <2>4. CASE e = MemoryEvent(t)
      <3>1. {k \in 1 .. n + 1 : entries'[k] = MemoryEvent(t)} = A \cup {n + 1}
        BY <1>a, <2>1, <2>2, <2>4
      <3>2. Cardinality(A \cup {n + 1}) = Cardinality(A) + 1
        BY <1>1, <2>2, FS_AddElement
      <3> QED
        BY <1>1, <2>3, <2>4, <3>1, <3>2
    <2>5. CASE e # MemoryEvent(t)
      <3>1. {k \in 1 .. n + 1 : entries'[k] = MemoryEvent(t)} = A
        BY <1>a, <2>1, <2>2, <2>5
      <3> QED
        BY <1>1, <2>3, <2>5, <3>1
    <2> QED
      BY <2>4, <2>5
  <1> QED
    BY <1>1, <1>2 DEF Notes, MemoryEvent

LEMMA StepMemory ==
  ASSUME TypeInv, MemoryInv, [Next]_vars
  PROVE  MemoryInv'
  <1>t. TypeOK /\ TypeOK' /\ MemoryAccounted /\ NoteDue
    BY StepTyped DEF TypeInv, MemoryInv
  <1>c. crashes \in Nat /\ crashes' \in Nat
    BY <1>t DEF TypeOK
  <1>e. \A t \in Tasks : episodes[t] \in Nat /\ episodes'[t] \in Nat /\ Notes(t) \in Nat
    BY <1>t, NotesCount DEF TypeOK
  <1>i. \A t \in Tasks :
          /\ Notes(t) <= episodes[t]
          /\ episodes[t] <= Notes(t) + crashes + (IF pc = "note" /\ run.task = t THEN 1 ELSE 0)
          /\ pc = "note" /\ run.task = t => Notes(t) < episodes[t]
    BY <1>t DEF MemoryAccounted, NoteDue
  \* Nothing is counted, and no episode waits for its entry.
  <1>k. ASSUME \A t \in Tasks : Notes(t)' = Notes(t), UNCHANGED <<episodes, crashes>>,
               pc # "note", pc' # "note"
        PROVE  MemoryInv'
    BY <1>k, <1>i, <1>c, <1>e DEF MemoryInv, MemoryAccounted, NoteDue
  <1>s. ASSUME UNCHANGED entries PROVE \A t \in Tasks : Notes(t)' = Notes(t)
    BY <1>s, <1>t, NotesCount
  <1>r. ASSUME NEW e \in LedgerEvents, Record(e), e.kind # "memory_append"
        PROVE  \A t \in Tasks : Notes(t)' = Notes(t)
    <2> SUFFICES ASSUME NEW t \in Tasks PROVE Notes(t)' = Notes(t)
      OBVIOUS
    <2>1. e # MemoryEvent(t)
      BY <1>r DEF MemoryEvent
    <2>2. Notes(t)' = Notes(t) + 0
      BY <1>r, <1>t, <2>1, NotesCount
    <2> QED
      BY <2>2, <1>e
  <1>1. CASE \/ Launch \/ Exit \/ RefuseBrokenLog \/ Raise \/ SaveRunning \/ StepPasses
             \/ StepRefused \/ StepLacksHandoff \/ StepRaises \/ RecordsDone \/ SaveVerdict
             \/ Persist
    <2>1. UNCHANGED <<entries, episodes, crashes>> /\ pc # "note"
      BY <1>1 DEF Launch, Exit, RefuseBrokenLog, Raise, SaveRunning, StepPasses, StepRefused,
         StepLacksHandoff, StepRaises, RecordsDone, SaveVerdict, Persist, InLoop
    <2>2. pc' # "note"
      BY <1>1 DEF Launch, Exit, RefuseBrokenLog, Raise, Die, SaveRunning, StepPasses,
         StepRefused, StepLacksHandoff, StepRaises, Advance, AfterStep, RecordsDone,
         AfterRecords, SaveVerdict, Persist
    <2> QED
      BY <2>1, <2>2, <1>k, <1>s
  <1>2. ASSUME NEW t \in Tasks, RunTask(t)
        PROVE  MemoryInv'
    <2>1. UNCHANGED <<episodes, crashes>> /\ pc # "note" /\ pc' # "note"
      BY <1>2 DEF RunTask, ReportPassed, RejectCheckpoint, ResumeTask, BeginTask, Enter
    <2>2. CASE UNCHANGED entries
      BY <2>1, <2>2, <1>k, <1>s
    <2>3. CASE Record(RejectEvent(t))
      <3>1. RejectEvent(t) \in LedgerEvents /\ RejectEvent(t).kind # "memory_append"
        BY EventTypes DEF Outcomes, RejectEvent
      <3>2. \A u \in Tasks : Notes(u)' = Notes(u)
        BY <2>3, <3>1, <1>r
      <3> QED
        BY <2>1, <3>2, <1>k
    <2> QED
      BY <1>2, <2>2, <2>3 DEF RunTask, ReportPassed, RejectCheckpoint, ResumeTask, BeginTask
  <1>3. CASE \/ RecordStart \/ RecordCycle \/ RecordStep \/ RecordEnd
    <2>1. run.task \in Tasks
      BY <1>3, <1>t DEF RecordStart, RecordCycle, RecordStep, RecordEnd, TypeOK, Run
    <2>2. UNCHANGED <<episodes, crashes>> /\ pc # "note" /\ pc' # "note"
      BY <1>3 DEF RecordStart, RecordCycle, RecordStep, RecordEnd
    <2>3. \E e \in LedgerEvents : e.kind # "memory_append" /\ Record(e)
      <3>1. CASE RecordStart \/ RecordCycle
        BY <3>1, <2>1, <1>t, RunTypes, EventTypes
        DEF RecordStart, RecordCycle, StartEvent, CycleEvent, Outcomes
      <3>2. CASE RecordStep
        <4>1. run.results[run.recorded + 1] \in Outcomes
          BY <3>2, <1>t, RunTypes, ElementOfSeq DEF RecordStep
        <4>2. run.start + run.recorded \in Nat
          BY <1>t, RunTypes
        <4> QED
          BY <3>2, <2>1, <4>1, <4>2, EventTypes DEF RecordStep, StepEvent
      <3>3. CASE RecordEnd
        <4>1. Verdict \in Outcomes /\ NextIndex \in Nat
          BY <3>3, <2>1, <1>t, RunTypes
          DEF RecordEnd, TypeInv, HasResult, AfterLoop, Verdict, NextIndex, Pos, Outcomes
        <4> QED
          BY <3>3, <2>1, <4>1, EventTypes DEF RecordEnd, EndEvent
      <3> QED
        BY <1>3, <3>1, <3>2, <3>3
    <2>4. \A t \in Tasks : Notes(t)' = Notes(t)
      BY <2>3, <1>r
    <2> QED
      BY <2>2, <2>4, <1>k
  <1>4. CASE Remember
    <2>1. /\ pc = "remember" /\ pc' = "note" /\ UNCHANGED <<entries, run, crashes>>
          /\ \A t \in Tasks :
               episodes'[t] = IF t = run.task THEN episodes[t] + 1 ELSE episodes[t]
      BY <1>4, <1>t DEF Remember, TypeOK
    <2> QED
      BY <2>1, <1>s, <1>i, <1>c, <1>e DEF MemoryInv, MemoryAccounted, NoteDue
  <1>5. CASE RecordMemory
    <2>1. /\ pc = "note" /\ pc' = "end" /\ UNCHANGED <<episodes, run, crashes>>
          /\ run.task \in Tasks /\ Record(MemoryEvent(run.task))
      BY <1>5, <1>t DEF RecordMemory, TypeOK, Run
    <2>2. MemoryEvent(run.task) \in LedgerEvents
      BY <2>1, EventTypes DEF Outcomes
    <2>3. \A t \in Tasks : MemoryEvent(run.task) = MemoryEvent(t) <=> t = run.task
      BY DEF MemoryEvent
    <2>4. \A t \in Tasks : Notes(t)' = Notes(t) + (IF t = run.task THEN 1 ELSE 0)
      BY <1>t, <2>1, <2>2, <2>3, NotesCount
    <2> QED
      BY <2>1, <2>4, <1>i, <1>c, <1>e DEF MemoryInv, MemoryAccounted, NoteDue
  <1>6. CASE Crash
    <2>1. UNCHANGED <<entries, episodes>> /\ crashes' = crashes + 1 /\ pc' = "down"
      BY <1>6 DEF Crash, Die, Audit!TearDown
    <2> QED
      BY <2>1, <1>s, <1>i, <1>c, <1>e DEF MemoryInv, MemoryAccounted, NoteDue
  <1>7. CASE SyncTip \/ UNCHANGED vars \/ \E f \in Files : Damage(f)
    <2>1. UNCHANGED <<entries, episodes, crashes, pc, run>>
      BY <1>7 DEF SyncTip, Audit!Sync, Damage, vars
    <2> QED
      BY <2>1, <1>s, <1>i, <1>c, <1>e DEF MemoryInv, MemoryAccounted, NoteDue
  <1>8. CASE WriteRaises
    BY <1>8, <1>t, <1>k, <1>s, WriteRaisesEnds
  <1> QED
    BY <1>1, <1>2, <1>3, <1>4, <1>5, <1>6, <1>7, <1>8 DEF Next, Proceed

(***************************************************************************)
(* The ledger never names an episode the memory store does not hold, and   *)
(* the store is ahead of the ledger by at most one episode per kill.       *)
(***************************************************************************)
THEOREM EpisodesAccounted == Spec => []MemoryAccounted
  <1>1. Init => TypeInv /\ MemoryInv
    <2> SUFFICES ASSUME Init PROVE TypeInv /\ MemoryInv
      OBVIOUS
    <2>1. TypeInv
      BY InitTyped
    <2>2. entries = <<>> /\ pc = "down" /\ crashes = 0 /\ \A t \in Tasks : episodes[t] = 0
      BY DEF Init, Audit!AuditInit
    <2>3. \A t \in Tasks : Notes(t) = 0
      <3>1. Len(<<>>) = 0 /\ 1 .. 0 = {}
        BY EmptySeq
      <3> QED
        BY <2>2, <3>1, FS_EmptySet DEF Notes
    <2> QED
      BY <2>1, <2>2, <2>3 DEF MemoryInv, MemoryAccounted, NoteDue
  <1>2. TypeInv /\ MemoryInv /\ [Next]_vars => (TypeInv /\ MemoryInv)'
    BY StepTyped, StepMemory
  <1>3. MemoryInv => MemoryAccounted
    BY DEF MemoryInv
  <1> QED
    BY <1>1, <1>2, <1>3, PTL DEF Spec

(***************************************************************************)
(* How the log reads.  Prev is the entry a run wrote last: its             *)
(* daemon_cycle, or the record of its last recorded step.  From that entry *)
(* and the results of the loop the next entry follows; what the run took   *)
(* over from the checkpoint (RunBacked) is what its daemon_cycle claims.   *)
(***************************************************************************)
Prev ==
  IF run.recorded = 0
    THEN CycleEvent(run.task, run.start)
    ELSE StepEvent(run.task, run.start + run.recorded - 1, run.results[run.recorded])

LastTells ==
  LET last == entries[Len(entries)] IN
    /\ pc \in {"step", "record", "remember", "note", "end"} => Len(entries) > 0
    /\ pc \in {"step", "record", "remember", "note"} => last = Prev
    /\ pc \in {"remember", "note"} => run.task \in Remembering
    /\ pc = "end" =>
         last = IF ~Failed /\ run.task \in Remembering THEN MemoryEvent(run.task) ELSE Prev
    /\ pc \in AfterLoop => Pos <= NumSteps(run.task)

TellsInv == LedgerTellsTheRuns /\ LastTells

\* An entry that follows the last one keeps the log readable.
LEMMA RecordTells ==
  ASSUME TypeOK, LedgerTellsTheRuns, NEW e \in LedgerEvents, Record(e),
         \/ e.kind \in {"pipeline_start", "daemon_cycle", "checkpoint_reject"}
         \/ Len(entries) > 0 /\ Follows(entries[Len(entries)], e),
         e.kind = "daemon_cycle" => StepsPassed(e.task, e.index)
  PROVE  LedgerTellsTheRuns'
  <1>n. PICK n \in Nat : n = Len(entries)
    BY LenProperties DEF TypeOK, Audit!AuditTypeOK
  <1>1. /\ Len(entries') = n + 1 /\ entries'[n + 1] = e
        /\ \A k \in 1 .. n : entries'[k] = entries[k]
    BY <1>n, AppendProperties DEF TypeOK, Audit!AuditTypeOK, Record, Garble, Audit!Write
  <1> SUFFICES ASSUME NEW k \in 1 .. n + 1, NEW f, f = entries'[k]
               PROVE  /\ \/ f.kind \in {"pipeline_start", "daemon_cycle", "checkpoint_reject"}
                         \/ k > 1 /\ Follows(entries'[k - 1], f)
                      /\ f.kind = "daemon_cycle" =>
                           \A i \in 0 .. NumSteps(f.task) - 1 :
                             i < f.index =>
                               \E j \in 1 .. k - 1 : entries'[j] = StepEvent(f.task, i, "PASS")
    BY <1>1 DEF LedgerTellsTheRuns, Follows, NumSteps, StepEvent, CycleEvent, MemoryEvent,
       EndEvent
  <1>2. CASE k \in 1 .. n
    <2>1. f = entries[k] /\ \A j \in 1 .. k - 1 : entries'[j] = entries[j]
      BY <1>1, <1>2
    <2>2. k > 1 => entries'[k - 1] = entries[k - 1]
      BY <1>1, <1>2
    <2>3. /\ \/ f.kind \in {"pipeline_start", "daemon_cycle", "checkpoint_reject"}
             \/ k > 1 /\ Follows(entries[k - 1], f)
          /\ f.kind = "daemon_cycle" =>
               \A i \in 0 .. NumSteps(f.task) - 1 :
                 i < f.index =>
                   \E j \in 1 .. k - 1 : entries[j] = StepEvent(f.task, i, "PASS")
      BY <1>n, <1>2, <2>1 DEF LedgerTellsTheRuns
    <2> QED
      BY <2>1, <2>2, <2>3
  <1>3. CASE k = n + 1
    <2>1. f = e /\ k - 1 = n /\ (n > 0 => entries'[n] = entries[n])
      BY <1>1, <1>3
    <2>2. ASSUME f.kind = "daemon_cycle", NEW i \in 0 .. NumSteps(f.task) - 1, i < f.index
          PROVE  \E j \in 1 .. n : entries'[j] = StepEvent(f.task, i, "PASS")
      BY <1>n, <1>1, <2>1, <2>2 DEF StepsPassed, InLog, Has
    <2> QED
      BY <1>n, <1>3, <2>1, <2>2
  <1> QED
    BY <1>2, <1>3

LEMMA StepTells ==
  ASSUME TypeInv, BackedInv, TellsInv, [Next]_vars
  PROVE  TellsInv'
  <1>t. TypeOK /\ TypeOK' /\ HasResult /\ RunBacked /\ LedgerTellsTheRuns /\ LastTells
    BY StepTyped DEF TypeInv, BackedInv, TellsInv
  <1>l. ASSUME UNCHANGED entries PROVE LedgerTellsTheRuns'
    BY <1>l, <1>t DEF LedgerTellsTheRuns
  <1>q. ASSUME UNCHANGED <<entries, pc, run>> PROVE TellsInv'
    BY <1>q, <1>t, <1>l DEF TellsInv, LastTells, Prev, Failed, Pos, NumSteps, MemoryEvent,
       StepEvent, CycleEvent
  <1>0. ASSUME pc' \notin {"step", "record", "remember", "note", "end"}, pc' \notin AfterLoop
        PROVE  LastTells'
    BY <1>0 DEF LastTells
  <1>1. CASE \/ Launch \/ Exit \/ RefuseBrokenLog \/ Raise \/ SaveRunning \/ Persist \/ Crash
    <2>1. UNCHANGED entries
      BY <1>1 DEF Launch, Exit, RefuseBrokenLog, Raise, SaveRunning, Persist, Crash,
         Audit!TearDown
    <2>2. pc' \in {"ready", "down", "cycle"}
      BY <1>1 DEF Launch, Exit, RefuseBrokenLog, Raise, SaveRunning, Persist, Crash, Die
    <2> QED
      BY <2>1, <2>2, <1>l, <1>0 DEF TellsInv, AfterLoop
  <1>2. ASSUME NEW t \in Tasks, RunTask(t)
        PROVE  TellsInv'
    <2>1. pc' \in {"ready", "raising", "cycle", "begin"}
      BY <1>2 DEF RunTask, ReportPassed, RejectCheckpoint, ResumeTask, BeginTask, Enter
    <2>2. UNCHANGED entries \/ Record(RejectEvent(t))
      BY <1>2 DEF RunTask, ReportPassed, RejectCheckpoint, ResumeTask, BeginTask
    <2>3. RejectEvent(t) \in LedgerEvents /\ RejectEvent(t).kind = "checkpoint_reject"
      BY EventTypes DEF Outcomes, RejectEvent
    <2>4. LedgerTellsTheRuns'
      BY <2>2, <2>3, <1>t, <1>l, RecordTells
    <2> QED
      BY <2>1, <2>4, <1>0 DEF TellsInv, AfterLoop
  <1>3. CASE SyncTip \/ UNCHANGED vars \/ \E f \in Files : Damage(f)
    BY <1>3, <1>q DEF SyncTip, Audit!Sync, Damage, vars
  <1>4. ASSUME pc \notin {"down", "ready", "raising"}
        PROVE  run.task \in Tasks /\ run.task # NoTask
    BY <1>4, <1>t, NoTaskAssumption DEF TypeOK, Run
  <1>5. CASE RecordStart
    <2>1. run.task \in Tasks /\ pc' = "claim" /\ Record(StartEvent(run.task))
      BY <1>5, <1>4 DEF RecordStart
    <2>2. /\ StartEvent(run.task) \in LedgerEvents
          /\ StartEvent(run.task).kind = "pipeline_start"
      BY <2>1, EventTypes DEF Outcomes, StartEvent
    <2>3. LedgerTellsTheRuns'
      BY <2>1, <2>2, <1>t, RecordTells
    <2> QED
      BY <2>1, <2>3, <1>0 DEF TellsInv, AfterLoop
  <1>6. CASE RecordCycle
    <2>1. /\ run.task \in Tasks /\ run.task # NoTask /\ pc = "cycle" /\ pc' = "step"
          /\ UNCHANGED run /\ Record(CycleEvent(run.task, run.start))
      BY <1>6, <1>4 DEF RecordCycle
    <2>2. run.recorded = 0 /\ StepsPassed(run.task, run.start)
      BY <2>1, <1>t DEF RunBacked, Beginning
    <2>e. PICK e \in LedgerEvents : e = CycleEvent(run.task, run.start)
      BY <2>1, <1>t, EventTypes, RunTypes DEF Outcomes
    <2>3. e.kind = "daemon_cycle" /\ e.task = run.task /\ e.index = run.start
      BY <2>e DEF CycleEvent
    <2>4. LedgerTellsTheRuns'
      BY <2>1, <2>2, <2>e, <2>3, <1>t, RecordTells
    <2>5. Len(entries') > 0 /\ entries'[Len(entries')] = e
      <3>1. entries' = Append(entries, e) /\ entries \in Seq(LedgerEvents)
        BY <2>1, <2>e, <1>t DEF Record, Garble, Audit!Write, TypeOK, Audit!AuditTypeOK
      <3>2. Len(entries') = Len(entries) + 1 /\ Len(entries) \in Nat
        BY <3>1, AppendProperties, LenProperties
      <3> QED
        BY <2>1, <2>e, <3>2, <1>t, RecordLast
    <2>6. Prev' = e
      BY <2>1, <2>2, <2>e DEF Prev, CycleEvent
    <2> QED
      BY <2>1, <2>4, <2>5, <2>6 DEF TellsInv, LastTells, AfterLoop
  <1>7. CASE StepPasses \/ StepRefused \/ StepLacksHandoff \/ StepRaises
    <2>1. pc = "step" /\ UNCHANGED entries /\ pc' \in {"step", "record"}
      BY <1>7 DEF StepPasses, StepRefused, StepLacksHandoff, StepRaises, InLoop, Advance,
         AfterStep
    <2>2. run.task \in Tasks /\ run.task # NoTask /\ run.recorded = 0 /\ Pos < NumSteps(run.task)
      BY <2>1, <1>4, <1>t DEF RunBacked
    <2>3. /\ run'.task = run.task /\ run'.start = run.start /\ run'.recorded = 0
          /\ Len(run'.results) = Len(run.results) + 1
      <3>a. PICK s \in Outcomes, h \in Nat, odd \in SUBSET Oddity : Advance(s, h, odd)
        BY <1>7, <1>t, LoopAdvances
      <3>1. run'.results = Append(run.results, s)
        BY <3>a, <1>t DEF Advance, TypeOK, Run
      <3>2. run'.task = run.task /\ run'.start = run.start /\ run'.recorded = run.recorded
        BY <3>a, <1>t DEF Advance, TypeOK, Run
      <3> QED
        BY <3>1, <3>2, <2>2, <1>t, RunTypes, AppendProperties
    <2>4. Prev' = Prev
      BY <2>2, <2>3 DEF Prev, CycleEvent
    <2>5. Pos' <= NumSteps(run.task)'
      BY <2>2, <2>3, <1>t, RunTypes DEF Pos, NumSteps
    <2> QED
      BY <2>1, <2>3, <2>4, <2>5, <1>l, <1>t DEF TellsInv, LastTells, NumSteps
  \* From here on the loop is over.
  <1>n. PICK n \in Nat : n = Len(run.results)
    BY <1>t, RunTypes
  <1>r. PICK start \in Nat, rec \in Nat : start = run.start /\ rec = run.recorded
    BY <1>t, RunTypes
  <1>8. ASSUME pc \in AfterLoop
        PROVE  /\ run.task \in Tasks /\ n > 0 /\ rec <= n
               /\ NumSteps(run.task) \in Nat /\ start + n <= NumSteps(run.task)
               /\ \A j \in 1 .. n : run.results[j] \in Outcomes
               /\ \A j \in 1 .. n : j < n => run.results[j] = "PASS"
               /\ Failed \/ start + n = NumSteps(run.task)
               /\ pc # "record" => rec = n
               /\ Failed <=> run.results[n] = "FAIL"
    <2>1. run.task \in Tasks /\ run.task # NoTask
      BY <1>8, <1>4 DEF AfterLoop
    <2>2. \A j \in 1 .. n : run.results[j] \in Outcomes
      BY <1>n, <1>t, RunTypes, ElementOfSeq
    <2> QED
      BY <1>8, <1>n, <1>r, <1>t, <2>1, <2>2, RunTypes
      DEF RunBacked, LastTells, HasResult, Pos, Failed
  <1>w. ASSUME NEW e \in LedgerEvents, Record(e)
        PROVE  Len(entries') > 0 /\ entries'[Len(entries')] = e
    <2>1. entries' = Append(entries, e) /\ entries \in Seq(LedgerEvents)
      BY <1>w, <1>t DEF Record, Garble, Audit!Write, TypeOK, Audit!AuditTypeOK
    <2>2. Len(entries') = Len(entries) + 1 /\ Len(entries) \in Nat
      BY <2>1, AppendProperties, LenProperties
    <2> QED
      BY <2>2, <1>w, <1>t, RecordLast
  <1>9. CASE RecordStep
    <2>1. /\ pc = "record" /\ pc' = "record" /\ rec < n
          /\ run'.task = run.task /\ run'.start = start /\ run'.results = run.results
          /\ run'.recorded = rec + 1
          /\ Record(StepEvent(run.task, start + rec, run.results[rec + 1]))
      BY <1>9, <1>n, <1>r, <1>t DEF RecordStep, TypeOK, Run
    <2>2. pc \in AfterLoop
      BY <2>1 DEF AfterLoop
    <2>p. rec + 1 \in 1 .. n /\ start + rec \in Nat
      BY <2>1
    <2>e. PICK e \in LedgerEvents : e = StepEvent(run.task, start + rec, run.results[rec + 1])
      BY <2>p, <2>2, <1>8, EventTypes
    <2>d. /\ e.kind = "pipeline_step" /\ e.task = run.task /\ e.index = start + rec
          /\ e.status = run.results[rec + 1]
      BY <2>e DEF StepEvent
    <2>3. Follows(Prev, e)
      <3>1. CASE rec = 0
        <4>1. Prev = CycleEvent(run.task, start)
          BY <3>1, <1>r DEF Prev
        <4>2. /\ Prev.kind = "daemon_cycle" /\ Prev.task = run.task /\ Prev.index = start
          BY <4>1 DEF CycleEvent
        <4>3. run.results[rec + 1] \in Outcomes /\ start + rec = start
          BY <2>p, <2>2, <3>1, <1>8
        <4> QED
          BY <4>2, <4>3, <2>e DEF Follows
      <3>2. CASE rec # 0
        <4>1. rec \in 1 .. n /\ rec < n /\ start + rec - 1 + 1 = start + rec
          BY <2>1, <3>2
        <4>2. run.results[rec] = "PASS" /\ run.results[rec + 1] \in Outcomes
          BY <4>1, <2>p, <2>2, <1>8
        <4>3. Prev = StepEvent(run.task, start + rec - 1, "PASS")
          BY <4>2, <3>2, <1>r DEF Prev
        <4>4. /\ Prev.kind = "pipeline_step" /\ Prev.task = run.task
              /\ Prev.index = start + rec - 1 /\ Prev.status = "PASS"
          BY <4>3 DEF StepEvent
        <4>5. Prev.index + 1 = start + rec /\ start + rec < NumSteps(run.task)
          BY <4>1, <4>4, <2>1, <2>2, <1>8
        <4> QED
          BY <4>2, <4>4, <4>5, <2>e DEF Follows
      <3> QED
        BY <3>1, <3>2
    <2>4. LedgerTellsTheRuns'
      BY <2>1, <2>3, <2>e, <2>d, <1>t, RecordTells DEF LastTells
    <2>5. Prev' = e
      <3>1. run'.recorded # 0 /\ start + (rec + 1) - 1 = start + rec
        BY <2>1
      <3> QED
        BY <3>1, <2>1, <2>e DEF Prev, StepEvent
    <2>6. Pos' <= NumSteps(run.task)'
      BY <2>1, <2>2, <1>8, <1>n, <1>r DEF Pos, NumSteps
    <2> QED
      BY <2>1, <2>4, <2>5, <2>6, <2>e, <1>w DEF TellsInv, LastTells
  <1>10. CASE RecordsDone
    <2>1. /\ pc = "record" /\ UNCHANGED entries
          /\ pc' = IF ~Failed /\ run.task \in Remembering THEN "remember" ELSE "end"
          /\ run'.task = run.task /\ run'.start = run.start /\ run'.results = run.results
          /\ run'.recorded = run.recorded
      BY <1>10, <1>t DEF RecordsDone, AfterRecords, TypeOK, Run
    <2>2. Prev' = Prev /\ (Failed' <=> Failed) /\ Pos' = Pos
          /\ NumSteps(run.task)' = NumSteps(run.task)
      BY <2>1 DEF Prev, Failed, Pos, NumSteps, StepEvent, CycleEvent
    <2> QED
      BY <2>1, <2>2, <1>l, <1>t DEF TellsInv, LastTells, AfterLoop
  <1>11. CASE Remember
    <2>1. pc = "remember" /\ pc' = "note" /\ UNCHANGED <<entries, run>>
      BY <1>11 DEF Remember
    <2>2. Prev' = Prev /\ Pos' = Pos /\ NumSteps(run.task)' = NumSteps(run.task)
      BY <2>1 DEF Prev, Pos, NumSteps, StepEvent, CycleEvent
    <2> QED
      BY <2>1, <2>2, <1>l, <1>t DEF TellsInv, LastTells, AfterLoop
  \* The last record of the run, once all are written.
  <1>12. ASSUME pc \in AfterLoop, pc # "record"
         PROVE  /\ Prev = StepEvent(run.task, start + n - 1, run.results[n])
                /\ Prev.kind = "pipeline_step" /\ Prev.task = run.task
                /\ Prev.index = start + n - 1 /\ Prev.status = run.results[n]
                /\ Prev.index + 1 = start + n
                /\ ~Failed => run.results[n] = "PASS"
    <2>1. Prev = StepEvent(run.task, start + n - 1, run.results[n])
      BY <1>12, <1>8, <1>r DEF Prev
    <2>2. ~Failed => run.results[n] = "PASS"
      BY <1>12, <1>8 DEF Outcomes
    <2> QED
      BY <2>1, <2>2 DEF StepEvent
  <1>13. CASE RecordMemory
    <2>1. /\ pc = "note" /\ pc' = "end" /\ UNCHANGED run /\ Record(MemoryEvent(run.task))
          /\ pc \in AfterLoop
      BY <1>13 DEF RecordMemory, AfterLoop
    <2>2. run.task \in Remembering /\ ~Failed
      BY <2>1, <1>4, <1>t DEF LastTells, RunBacked
    <2>e. PICK e \in LedgerEvents : e = MemoryEvent(run.task)
      BY <2>1, <1>8, EventTypes DEF Outcomes
    <2>3. e.kind = "memory_append"
      BY <2>e DEF MemoryEvent
    <2>4. Follows(Prev, e)
      BY <2>1, <2>2, <2>e, <1>8, <1>12 DEF Follows
    <2>5. LedgerTellsTheRuns'
      BY <2>1, <2>3, <2>4, <2>e, <1>t, RecordTells DEF LastTells
    <2>6. Pos' = Pos /\ NumSteps(run.task)' = NumSteps(run.task) /\ (Failed' <=> Failed)
          /\ run'.task = run.task /\ MemoryEvent(run.task)' = MemoryEvent(run.task)
      BY <2>1 DEF Pos, NumSteps, Failed, MemoryEvent
    <2> QED
      BY <2>1, <2>2, <2>5, <2>6, <2>e, <1>w, <1>t DEF TellsInv, LastTells, AfterLoop
  <1>14. CASE RecordEnd
    <2>1. /\ pc = "end" /\ pc' = "close" /\ UNCHANGED run /\ pc \in AfterLoop
          /\ Record(EndEvent(run.task, NextIndex, Verdict))
      BY <1>14 DEF RecordEnd, AfterLoop
    <2>2. /\ NextIndex = IF Failed THEN start + n - 1 ELSE NumSteps(run.task)
          /\ Verdict = IF Failed THEN "FAIL" ELSE "PASS"
      BY <1>n, <1>r DEF NextIndex, Verdict, Pos
    <2>3. NextIndex \in Nat /\ Verdict \in Outcomes
      BY <2>1, <2>2, <1>8 DEF Outcomes
    <2>e. PICK e \in LedgerEvents : e = EndEvent(run.task, NextIndex, Verdict)
      BY <2>1, <2>3, <1>8, EventTypes
    <2>4. e.kind = "pipeline_end"
      BY <2>e DEF EndEvent
    <2>5. Len(entries) > 0 /\ Follows(entries[Len(entries)], e)
      <3>1. CASE ~Failed /\ run.task \in Remembering
        <4>1. Len(entries) > 0 /\ entries[Len(entries)] = MemoryEvent(run.task)
          BY <2>1, <3>1, <1>t DEF LastTells
        <4>2. /\ MemoryEvent(run.task).kind = "memory_append"
              /\ MemoryEvent(run.task).task = run.task
          BY DEF MemoryEvent
        <4> QED
          BY <3>1, <4>1, <4>2, <2>2, <2>e DEF Follows
      <3>2. CASE ~Failed /\ run.task \notin Remembering
        <4>1. Len(entries) > 0 /\ entries[Len(entries)] = Prev
          BY <2>1, <3>2, <1>t DEF LastTells
        <4> QED
          BY <3>2, <4>1, <2>1, <2>2, <2>e, <1>8, <1>12 DEF Follows
      <3>3. CASE Failed
        <4>1. Len(entries) > 0 /\ entries[Len(entries)] = Prev
          BY <2>1, <3>3, <1>t DEF LastTells
        <4> QED
          BY <3>3, <4>1, <2>1, <2>2, <2>e, <1>8, <1>12 DEF Follows
      <3> QED
        BY <3>1, <3>2, <3>3
    <2>6. LedgerTellsTheRuns'
      BY <2>1, <2>4, <2>5, <2>e, <1>t, RecordTells
    <2>7. Pos' = Pos /\ NumSteps(run.task)' = NumSteps(run.task)
      BY <2>1 DEF Pos, NumSteps
    <2> QED
      BY <2>1, <2>6, <2>7, <1>t DEF TellsInv, LastTells
  <1>15. CASE SaveVerdict
    <2>1. pc = "close" /\ pc' = "persist" /\ UNCHANGED <<entries, run>>
      BY <1>15 DEF SaveVerdict
    <2>2. Pos' = Pos /\ NumSteps(run.task)' = NumSteps(run.task)
      BY <2>1 DEF Pos, NumSteps
    <2> QED
      BY <2>1, <2>2, <1>l, <1>t DEF TellsInv, LastTells, AfterLoop
  <1>16. CASE WriteRaises
    BY <1>16, <1>t, <1>l, <1>0, WriteRaisesEnds DEF TellsInv, AfterLoop
  <1> QED
    BY <1>1, <1>2, <1>3, <1>5, <1>6, <1>7, <1>9, <1>10, <1>11, <1>13, <1>14, <1>15, <1>16
    DEF Next, Proceed

(***************************************************************************)
(* The log reads as a sequence of runs: every entry is what run_task       *)
(* writes after the one before it or opens a call, whatever was killed or  *)
(* damaged in between, and a daemon_cycle entry names an index only when   *)
(* every step before it passed further up in the log.                      *)
(***************************************************************************)
THEOREM LedgerReadable ==
  ASSUME DistinctFiles
  PROVE  Spec => []LedgerTellsTheRuns
  <1>1. Init => TypeInv /\ BackedInv /\ TellsInv
    <2> SUFFICES ASSUME Init PROVE TypeInv /\ BackedInv /\ TellsInv
      OBVIOUS
    <2>1. TypeInv
      BY InitTyped
    <2>2. entries = <<>> /\ pc = "down" /\ Len(<<>>) = 0
      BY EmptySeq DEF Init, Audit!AuditInit
    <2>3. LedgerTellsTheRuns
      BY <2>2 DEF LedgerTellsTheRuns
    <2>4. LastTells
      BY <2>2 DEF LastTells, AfterLoop
    <2> QED
      BY <2>1, <2>3, <2>4, InitBacked DEF TellsInv
  <1>2. TypeInv /\ BackedInv /\ TellsInv /\ [Next]_vars => (TypeInv /\ BackedInv /\ TellsInv)'
    BY StepTyped, StepBacked, StepTells
  <1>3. TellsInv => LedgerTellsTheRuns
    BY DEF TellsInv
  <1> QED
    BY <1>1, <1>2, <1>3, PTL DEF Spec

(***************************************************************************)
(* What the engine learned.  While nothing cuts a run off behind its steps *)
(* the atoms of the recorded steps are in twin_state between calls, and in *)
(* the codebook during one, where the atoms of the results still to be     *)
(* recorded are too.  A first call finds no twin_state, hence nothing      *)
(* recorded.                                                               *)
(***************************************************************************)
LearnedIn(log, S) ==
  \A t \in Tasks, i \in Nat : Has(log, StepEvent(t, i, "PASS")) => <<t, i>> \in S

ResultsLearned(r, S) ==
  \A j \in 1 .. Len(r.results) : r.results[j] = "PASS" => <<r.task, r.start + j - 1>> \in S

EngineLearned ==
  /\ twin.kind = "missing" => twin.atoms = {}
  /\ Undisturbed =>
       IF run.task = NoTask
         THEN LearnedIn(entries, twin.atoms)
         ELSE LearnedIn(entries, engine) /\ ResultsLearned(run, engine)

\* The log gets the recorded event and no other.
LEMMA RecordAddsOnly ==
  ASSUME TypeOK, NEW e \in LedgerEvents, Record(e), NEW x, Has(entries', x)
  PROVE  Has(entries, x) \/ x = e
  <1>n. PICK n \in Nat : n = Len(entries)
    BY LenProperties DEF TypeOK, Audit!AuditTypeOK
  <1>1. /\ Len(entries') = n + 1
        /\ entries'[n + 1] = e
        /\ \A k \in 1 .. n : entries'[k] = entries[k]
    BY <1>n, AppendProperties DEF TypeOK, Audit!AuditTypeOK, Record, Garble, Audit!Write
  <1>2. PICK k \in 1 .. n + 1 : entries'[k] = x
    BY <1>1 DEF Has
  <1>3. CASE k = n + 1
    BY <1>1, <1>2, <1>3
  <1>4. CASE k # n + 1
    <2>1. k \in 1 .. n
      BY <1>4
    <2> QED
      BY <1>1, <1>2, <1>n, <2>1 DEF Has
  <1> QED
    BY <1>3, <1>4

LEMMA RecordLearned ==
  ASSUME TypeOK, NEW e \in LedgerEvents, Record(e), NEW S, LearnedIn(entries, S),
         e.kind = "pipeline_step" /\ e.status = "PASS" => <<e.task, e.index>> \in S
  PROVE  LearnedIn(entries', S)
  <1> SUFFICES ASSUME NEW t \in Tasks, NEW i \in Nat, Has(entries', StepEvent(t, i, "PASS"))
               PROVE  <<t, i>> \in S
    BY DEF LearnedIn
  <1>1. CASE Has(entries, StepEvent(t, i, "PASS"))
    BY <1>1 DEF LearnedIn
  <1>2. CASE e = StepEvent(t, i, "PASS")
    BY <1>2 DEF StepEvent
  <1> QED
    BY <1>1, <1>2, RecordAddsOnly

\* Only the engine save, and what cuts it off, touches twin_state; and what
\* cuts a run off is counted for good.
LEMMA TwinAndCrashes ==
  ASSUME TypeOK, [Next]_vars
  PROVE  /\ UNCHANGED twin \/ twin'.kind # "missing"
         /\ Crash \/ WriteRaises => ~Undisturbed'
         /\ Undisturbed' => Undisturbed
  <1>n. crashes \in Nat /\ raised \in Nat
    BY DEF TypeOK
  <1>u. ASSUME UNCHANGED <<crashes, raised>>
        PROVE  /\ Crash \/ WriteRaises => ~Undisturbed'
               /\ Undisturbed' => Undisturbed
    <2>1. ~Crash /\ ~WriteRaises
      BY <1>n, <1>u DEF Crash, WriteRaises
    <2> QED
      BY <1>u, <2>1 DEF Undisturbed
  <1>1. CASE Persist
    <2>1. twin'.kind = "whole" /\ UNCHANGED <<crashes, raised>>
      BY <1>1 DEF Persist
    <2> QED
      BY <2>1, <1>u
  <1>2. CASE Crash
    <2>1. CutOffSave => twin'.kind = "partial"
      BY DEF CutOffSave
    <2>2. crashes' # 0
      BY <1>2, <1>n DEF Crash
    <2> QED
      BY <1>2, <2>1, <2>2 DEF Crash, Undisturbed
  <1>7. CASE WriteRaises
    <2>1. raised' # 0
      BY <1>7, <1>n DEF WriteRaises
    <2> QED
      BY <1>7, <2>1, WriteRaisesEnds DEF Undisturbed
  <1>3. CASE \/ Launch \/ Exit \/ RefuseBrokenLog \/ Raise \/ SyncTip \/ RecordStart
             \/ SaveRunning \/ RecordCycle \/ RecordStep \/ RecordsDone \/ Remember
             \/ RecordMemory \/ RecordEnd \/ SaveVerdict \/ UNCHANGED vars
    BY <1>3, <1>u DEF Launch, Exit, RefuseBrokenLog, Raise, SyncTip, RecordStart,
       SaveRunning, RecordCycle, RecordStep, RecordsDone, Remember, RecordMemory, RecordEnd,
       SaveVerdict, vars
  <1>4. CASE StepPasses \/ StepRefused \/ StepLacksHandoff \/ StepRaises
    BY <1>4, <1>u DEF StepPasses, StepRefused, StepLacksHandoff, StepRaises
  <1>5. ASSUME NEW t \in Tasks, RunTask(t)
        PROVE  UNCHANGED <<twin, crashes, raised>>
    BY <1>5 DEF RunTask, ReportPassed, RejectCheckpoint, ResumeTask, BeginTask
  <1>6. ASSUME NEW f \in Files, Damage(f)
        PROVE  UNCHANGED <<twin, crashes, raised>>
    BY <1>6 DEF Damage
  <1> QED
    BY <1>1, <1>2, <1>3, <1>4, <1>5, <1>6, <1>7, <1>u DEF Next, Proceed

LEMMA StepLearned ==
  ASSUME TypeInv, EngineLearned, [Next]_vars
  PROVE  EngineLearned'
  <1>t. TypeOK /\ TypeOK' /\ HasResult
    BY StepTyped DEF TypeInv
  <1>w. (twin.kind = "missing" => twin.atoms = {}) /\ (UNCHANGED twin \/ twin'.kind # "missing")
    BY <1>t, TwinAndCrashes DEF EngineLearned
  <1>c. (Undisturbed' => Undisturbed) /\ (Crash \/ WriteRaises => ~Undisturbed')
    BY <1>t, TwinAndCrashes
  <1>k. SUFFICES ASSUME Undisturbed', Undisturbed
                 PROVE  IF run'.task = NoTask
                          THEN LearnedIn(entries', twin'.atoms)
                          ELSE LearnedIn(entries', engine') /\ ResultsLearned(run', engine')
    BY <1>w, <1>c DEF EngineLearned
  <1>i. IF run.task = NoTask
          THEN LearnedIn(entries, twin.atoms)
          ELSE LearnedIn(entries, engine) /\ ResultsLearned(run, engine)
    BY <1>k DEF EngineLearned
  <1>1. CASE \/ Launch \/ Exit \/ RefuseBrokenLog \/ Raise
    <2>1. run.task = NoTask /\ run'.task = NoTask /\ UNCHANGED <<entries, twin>>
      BY <1>1, <1>t, NoRunTyped DEF Launch, Exit, RefuseBrokenLog, Raise, Die, TypeOK
    <2> QED
      BY <2>1, <1>i
  <1>2. ASSUME NEW t \in Tasks, RunTask(t)
        PROVE  IF run'.task = NoTask
                 THEN LearnedIn(entries', twin'.atoms)
                 ELSE LearnedIn(entries', engine') /\ ResultsLearned(run', engine')
    <2>1. PICK resume \in Modes :
            \/ ReportPassed(t, resume) \/ RejectCheckpoint(t, resume)
            \/ ResumeTask(t, resume) \/ BeginTask(t, resume)
      BY <1>2 DEF RunTask
    <2>2. run.task = NoTask /\ LearnedIn(entries, twin.atoms) /\ UNCHANGED twin
      BY <2>1, <1>i, <1>t
      DEF ReportPassed, RejectCheckpoint, ResumeTask, BeginTask, Enter, TypeOK
    <2>3. CASE ReportPassed(t, resume)
      BY <2>2, <2>3 DEF ReportPassed
    <2>4. CASE RejectCheckpoint(t, resume)
      <3>1. RejectEvent(t) \in LedgerEvents /\ RejectEvent(t).kind # "pipeline_step"
        BY EventTypes DEF Outcomes, RejectEvent
      <3>2. LearnedIn(entries', twin.atoms)
        BY <2>2, <2>4, <3>1, <1>t, RecordLearned DEF RejectCheckpoint
      <3> QED
        BY <2>2, <2>4, <3>2 DEF RejectCheckpoint
    <2>5. CASE ResumeTask(t, resume) \/ BeginTask(t, resume)
      <3>1. run'.results = <<>> /\ UNCHANGED entries /\ Bootstrap /\ Len(<<>>) = 0
        BY <2>5, EmptySeq DEF ResumeTask, BeginTask, NoRun, Enter
      <3>2. twin.atoms \subseteq engine'
        BY <3>1, <1>w DEF Bootstrap
      <3>3. LearnedIn(entries', engine')
        BY <2>2, <3>1, <3>2 DEF LearnedIn
      <3>4. ResultsLearned(run', engine')
        BY <3>1 DEF ResultsLearned
      <3> QED
        BY <2>2, <2>5, <3>3, <3>4 DEF ResumeTask, BeginTask, Enter
    <2> QED
      BY <2>1, <2>3, <2>4, <2>5
  <1>3. CASE SyncTip \/ UNCHANGED vars \/ \E f \in Files : Damage(f)
    <2>1. UNCHANGED <<entries, run, twin, engine>>
      BY <1>3 DEF SyncTip, Audit!Sync, Damage, vars
    <2> QED
      BY <2>1, <1>i
  <1>4. ASSUME pc \notin {"down", "ready", "raising"}
        PROVE  /\ run.task \in Tasks /\ run.task # NoTask
               /\ LearnedIn(entries, engine) /\ ResultsLearned(run, engine)
    BY <1>4, <1>i, <1>t, NoTaskAssumption DEF TypeOK, Run
  \* A step of a run that keeps the codebook and the results.
  <1>5. ASSUME pc \notin {"down", "ready", "raising"}, UNCHANGED engine,
               run'.task = run.task, run'.start = run.start, run'.results = run.results,
               LearnedIn(entries', engine)
        PROVE  IF run'.task = NoTask
                 THEN LearnedIn(entries', twin'.atoms)
                 ELSE LearnedIn(entries', engine') /\ ResultsLearned(run', engine')
    BY <1>4, <1>5 DEF ResultsLearned
  <1>6. CASE SaveRunning \/ RecordsDone \/ Remember \/ SaveVerdict
    <2>1. /\ UNCHANGED <<entries, engine>> /\ pc \notin {"down", "ready", "raising"}
          /\ run'.task = run.task /\ run'.start = run.start /\ run'.results = run.results
      BY <1>6, <1>t DEF SaveRunning, RecordsDone, Remember, SaveVerdict, TypeOK, Run
    <2> QED
      BY <2>1, <1>4, <1>5
  <1>7. CASE RecordStart \/ RecordCycle \/ RecordMemory \/ RecordEnd
    <2>1. UNCHANGED <<run, engine>> /\ pc \notin {"down", "ready", "raising"}
      BY <1>7 DEF RecordStart, RecordCycle, RecordMemory, RecordEnd
    <2>2. PICK e \in LedgerEvents : e.kind # "pipeline_step" /\ Record(e)
      <3>1. CASE RecordStart \/ RecordCycle \/ RecordMemory
        BY <3>1, <2>1, <1>4, <1>t, RunTypes, EventTypes
        DEF RecordStart, RecordCycle, RecordMemory, StartEvent, CycleEvent, MemoryEvent,
            Outcomes
      <3>2. CASE RecordEnd
        <4>1. Verdict \in Outcomes /\ NextIndex \in Nat
          BY <3>2, <2>1, <1>4, <1>t, RunTypes
          DEF RecordEnd, HasResult, AfterLoop, Verdict, NextIndex, Pos, Outcomes
        <4> QED
          BY <3>2, <2>1, <1>4, <4>1, EventTypes DEF RecordEnd, EndEvent
      <3> QED
        BY <1>7, <3>1, <3>2
    <2>3. LearnedIn(entries', engine)
      BY <2>1, <2>2, <1>4, <1>t, RecordLearned
    <2> QED
      BY <2>1, <2>3, <1>5
  <1>8. CASE RecordStep
    <2>n. PICK rec \in Nat, n \in Nat : rec = run.recorded /\ n = Len(run.results)
      BY <1>t, RunTypes
    <2>1. /\ UNCHANGED engine /\ pc \notin {"down", "ready", "raising"} /\ rec < n
          /\ run'.task = run.task /\ run'.start = run.start /\ run'.results = run.results
          /\ Record(StepEvent(run.task, run.start + rec, run.results[rec + 1]))
      BY <1>8, <2>n, <1>t DEF RecordStep, TypeOK, Run
    <2>2. rec + 1 \in 1 .. n /\ run.results[rec + 1] \in Outcomes /\ run.start \in Nat
      BY <2>n, <2>1, <1>t, RunTypes, ElementOfSeq
    <2>e. PICK e \in LedgerEvents :
            e = StepEvent(run.task, run.start + rec, run.results[rec + 1])
      BY <2>1, <2>2, <1>4, EventTypes
    <2>3. e.task = run.task /\ e.index = run.start + rec /\ e.status = run.results[rec + 1]
      BY <2>e DEF StepEvent
    <2>4. e.status = "PASS" => <<e.task, e.index>> \in engine
      <3>1. run.start + (rec + 1) - 1 = run.start + rec
        BY <2>2
      <3> QED
        BY <2>n, <2>1, <2>2, <2>3, <3>1, <1>4 DEF ResultsLearned
    <2>5. LearnedIn(entries', engine)
      BY <2>1, <2>e, <2>4, <1>4, <1>t, RecordLearned
    <2> QED
      BY <2>1, <2>5, <1>5
  <1>9. CASE StepPasses \/ StepRefused \/ StepLacksHandoff \/ StepRaises
    <2>n. PICK n \in Nat : n = Len(run.results)
      BY <1>t, RunTypes
    <2>1. pc \notin {"down", "ready", "raising"} /\ UNCHANGED entries
      BY <1>9 DEF StepPasses, StepRefused, StepLacksHandoff, StepRaises, InLoop
    <2>2. PICK s \in Outcomes :
            /\ run'.results = Append(run.results, s)
            /\ run'.task = run.task /\ run'.start = run.start
            /\ engine \subseteq engine'
            /\ s = "PASS" => <<run.task, run.start + n>> \in engine'
      BY <1>9, <2>n, <1>t DEF StepPasses, StepRefused, StepLacksHandoff, StepRaises, Advance,
         Outcomes, Pos, TypeOK, Run
    <2>3. /\ Len(run'.results) = n + 1 /\ run'.results[n + 1] = s
          /\ \A j \in 1 .. n : run'.results[j] = run.results[j]
      BY <2>n, <2>2, <1>t, RunTypes, AppendProperties
    <2>4. LearnedIn(entries', engine')
      BY <2>1, <2>2, <1>4 DEF LearnedIn
    <2>5. ASSUME NEW j \in 1 .. n + 1, run'.results[j] = "PASS"
          PROVE  <<run.task, run.start + j - 1>> \in engine'
      <3>1. CASE j = n + 1
        <4>1. run.start + (n + 1) - 1 = run.start + n
          BY <1>t, RunTypes
        <4> QED
          BY <3>1, <4>1, <2>2, <2>3, <2>5
      <3>2. CASE j # n + 1
        <4>1. j \in 1 .. n
          BY <3>2
        <4> QED
          BY <4>1, <2>n, <2>1, <2>2, <2>3, <2>5, <1>4 DEF ResultsLearned
      <3> QED
        BY <3>1, <3>2
    <2>6. ResultsLearned(run', engine')
      BY <2>2, <2>3, <2>5 DEF ResultsLearned
    <2> QED
      BY <2>1, <2>2, <2>4, <2>6, <1>4
  <1>10. CASE Persist
    <2>1. /\ UNCHANGED entries /\ run'.task = NoTask /\ twin'.atoms = engine
          /\ pc \notin {"down", "ready", "raising"}
      BY <1>10, NoRunTyped DEF Persist
    <2> QED
      BY <2>1, <1>4
  <1>11. CASE Crash \/ WriteRaises
    BY <1>11, <1>k, <1>c
  <1> QED
    BY <1>1, <1>2, <1>3, <1>6, <1>7, <1>8, <1>9, <1>10, <1>11 DEF Next, Proceed

(***************************************************************************)
(* While nobody kills the process and no write of a run raises, between    *)
(* calls twin_state holds the atoms of every step the ledger shows as      *)
(* passed, also those of a run whose later step failed, and with a log or  *)
(* a checkpoint that number keys have made unverifiable.                   *)
(***************************************************************************)
THEOREM LearnedForGood == Spec => []LearnedIsKept
  <1>1. Init => TypeInv /\ EngineLearned
    <2> SUFFICES ASSUME Init PROVE TypeInv /\ EngineLearned
      OBVIOUS
    <2>1. entries = <<>> /\ run.task = NoTask /\ twin.atoms = {} /\ Len(<<>>) = 0
      BY EmptySeq, NoRunTyped DEF Init, Audit!AuditInit
    <2> QED
      BY <2>1, InitTyped DEF EngineLearned, LearnedIn, Has
  <1>2. TypeInv /\ EngineLearned /\ [Next]_vars => (TypeInv /\ EngineLearned)'
    BY StepTyped, StepLearned
  <1>3. TypeInv /\ EngineLearned => LearnedIsKept
    <2> SUFFICES ASSUME TypeInv, EngineLearned, Undisturbed, pc = "ready",
                        NEW k \in 1 .. Len(entries),
                        entries[k].kind = "pipeline_step", entries[k].status = "PASS"
                 PROVE  <<entries[k].task, entries[k].index>> \in twin.atoms
      BY DEF LearnedIsKept
    <2>1. LearnedIn(entries, twin.atoms)
      BY DEF TypeInv, TypeOK, EngineLearned
    <2>2. entries[k] \in LedgerEvents
      BY ElementOfSeq DEF TypeInv, TypeOK, Audit!AuditTypeOK
    <2>3. /\ entries[k].task \in Tasks /\ entries[k].index \in Nat
          /\ entries[k] = StepEvent(entries[k].task, entries[k].index, "PASS")
      BY <2>2 DEF LedgerEvents, StepEvent
    <2> QED
      BY <2>1, <2>3 DEF LearnedIn, Has
  <1> QED
    BY <1>1, <1>2, <1>3, PTL DEF Spec

(***************************************************************************)
(* Where a run begins.  While nothing cuts a run off behind its steps, the *)
(* steps of a task the log shows as passed lie before the next_index of    *)
(* its file, or, for the task at work, among the steps the run took over   *)
(* or recorded itself.  A file that is not resumed from has next_index 0   *)
(* or says PASS.                                                           *)
(***************************************************************************)
FilesPlaced ==
  \A t \in Tasks :
    /\ Saved(t).status \in {"none", "RUNNING"} => Saved(t).next = 0
    /\ Saved(t).status = "FAIL" => Saved(t).next < NumSteps(t)

Executed(r, i) ==
  \/ i < r.start
  \/ \E j \in 1 .. r.recorded : i = r.start + j - 1 /\ r.results[j] = "PASS"

Behind(t, i) ==
  IF run.task = t /\ pc # "persist" THEN Executed(run, i) ELSE i < Saved(t).next

NothingAhead ==
  Undisturbed =>
    \A t \in Tasks, i \in Nat : InLog(StepEvent(t, i, "PASS")) => Behind(t, i)

LEMMA StepFilesPlaced ==
  ASSUME DistinctFiles, TypeInv, BackedInv, TellsInv, FilesPlaced, [Next]_vars
  PROVE  FilesPlaced'
  <1>t. TypeOK /\ TypeOK' /\ HasResult
    BY StepTyped DEF TypeInv
  <1>k. ASSUME \A t \in Tasks : /\ Saved(t)'.status = Saved(t).status
                                /\ Saved(t)'.next = Saved(t).next
        PROVE  FilesPlaced'
    BY <1>k DEF FilesPlaced, NumSteps
  <1>u. ASSUME UNCHANGED ckpt PROVE FilesPlaced'
    BY <1>u, <1>k DEF Saved
  <1>1. CASE SaveRunning
    <2>1. run.task \in Tasks /\ Save(run.task, "RUNNING", 0, run.handoff, run.done)
      BY <1>1, <1>t DEF SaveRunning, TypeOK, Run
    <2> QED
      BY <2>1, <1>t, SaveEffect DEF FilesPlaced, NumSteps
  <1>2. CASE SaveVerdict
    <2>1. /\ run.task \in Tasks /\ run.task # NoTask /\ pc = "close"
          /\ Save(run.task, Verdict, NextIndex, run.handoff, run.done)
      BY <1>2, <1>t, NoTaskAssumption DEF SaveVerdict, TypeOK, Run
    <2>2. Verdict \in Outcomes /\ (Verdict = "FAIL" => NextIndex < NumSteps(run.task))
      <3>1. Pos <= NumSteps(run.task) /\ Pos \in Nat /\ NumSteps(run.task) \in Nat
        BY <2>1, <1>t, RunTypes DEF TellsInv, LastTells, AfterLoop, Pos
      <3> QED
        BY <3>1 DEF Verdict, NextIndex, Outcomes
    <2> QED
      BY <2>1, <2>2, <1>t, SaveEffect DEF FilesPlaced, NumSteps, Outcomes
  <1>3. ASSUME NEW f \in Files, Damage(f)
        PROVE  FilesPlaced'
    BY <1>3, <1>t, <1>k, DamageEffect
  <1>4. ASSUME NEW t \in Tasks, RunTask(t)
        PROVE  UNCHANGED ckpt
    BY <1>4 DEF RunTask, ReportPassed, RejectCheckpoint, ResumeTask, BeginTask
  <1>5. CASE \/ Launch \/ Exit \/ RefuseBrokenLog \/ Raise \/ SyncTip \/ RecordStart
             \/ RecordCycle \/ StepPasses \/ StepRefused \/ StepLacksHandoff \/ StepRaises
             \/ RecordStep \/ RecordsDone \/ Remember \/ RecordMemory \/ RecordEnd
             \/ Persist \/ Crash \/ WriteRaises \/ UNCHANGED vars
    <2>1. UNCHANGED ckpt
      BY <1>5 DEF Launch, Exit, RefuseBrokenLog, Raise, SyncTip, RecordStart, RecordCycle,
         StepPasses, StepRefused, StepLacksHandoff, StepRaises, RecordStep, RecordsDone,
         Remember, RecordMemory, RecordEnd, Persist, Crash, WriteRaises, vars
    <2> QED
      BY <2>1, <1>u
  <1> QED
    BY <1>1, <1>2, <1>3, <1>4, <1>5, <1>u DEF Next, Proceed

LEMMA StepNothingAhead ==
  ASSUME DistinctFiles, AlwaysResumes, TypeInv, BackedInv, FilesPlaced, NothingAhead,
         [Next]_vars
  PROVE  NothingAhead'
  <1>t. TypeOK /\ TypeOK' /\ HasResult /\ RunBacked
    BY StepTyped DEF TypeInv, BackedInv
  <1>c. (Undisturbed' => Undisturbed) /\ (Crash \/ WriteRaises => ~Undisturbed')
    BY <1>t, TwinAndCrashes
  <1> SUFFICES ASSUME Undisturbed', Undisturbed, NEW t \in Tasks, NEW i \in Nat,
                      Has(entries', StepEvent(t, i, "PASS"))
               PROVE  Behind(t, i)'
    BY <1>c DEF NothingAhead, InLog, StepEvent
  <1>i. Has(entries, StepEvent(t, i, "PASS")) => Behind(t, i)
    BY DEF NothingAhead, InLog
  \* Nothing is recorded as passed, and the places are where they were.
  <1>k. ASSUME Has(entries, StepEvent(t, i, "PASS")), run'.task = run.task,
               pc # "persist", pc' # "persist",
               run.task = t /\ Executed(run, i) => Executed(run', i),
               run.task # t => Saved(t)'.next = Saved(t).next
        PROVE  Behind(t, i)'
    BY <1>i, <1>k DEF Behind
  <1>n. ASSUME Has(entries, StepEvent(t, i, "PASS")), run.task = NoTask, run'.task = NoTask,
               Saved(t)'.next = Saved(t).next
        PROVE  Behind(t, i)'
    BY <1>i, <1>n, NoTaskAssumption DEF Behind
  <1>a. ASSUME NEW e \in LedgerEvents, Record(e), e.kind # "pipeline_step"
        PROVE  Has(entries, StepEvent(t, i, "PASS"))
    <2>1. e # StepEvent(t, i, "PASS")
      BY <1>a DEF StepEvent
    <2> QED
      BY <1>a, <1>t, <2>1, RecordAddsOnly
  <1>1. CASE \/ Launch \/ Exit \/ RefuseBrokenLog \/ Raise
    <2>1. run.task = NoTask /\ run'.task = NoTask /\ UNCHANGED <<entries, ckpt>>
      BY <1>1, <1>t, NoRunTyped DEF Launch, Exit, RefuseBrokenLog, Raise, Die, TypeOK
    <2> QED
      BY <2>1, <1>n DEF Saved
  <1>2. ASSUME NEW u \in Tasks, RunTask(u)
        PROVE  Behind(t, i)'
    <2>1. PICK resume \in Modes :
            \/ ReportPassed(u, resume) \/ RejectCheckpoint(u, resume)
            \/ ResumeTask(u, resume) \/ BeginTask(u, resume)
      BY <1>2 DEF RunTask
    <2>2. run.task = NoTask /\ UNCHANGED ckpt
      BY <2>1, <1>t
      DEF ReportPassed, RejectCheckpoint, ResumeTask, BeginTask, Enter, TypeOK
    <2>3. CASE ReportPassed(u, resume)
      BY <2>2, <2>3, <1>n DEF ReportPassed, Saved
    <2>4. CASE RejectCheckpoint(u, resume)
      <3>1. RejectEvent(u) \in LedgerEvents /\ RejectEvent(u).kind # "pipeline_step"
        BY EventTypes DEF Outcomes, RejectEvent
      <3>2. Has(entries, StepEvent(t, i, "PASS"))
        BY <2>4, <3>1, <1>a DEF RejectCheckpoint
      <3> QED
        BY <2>2, <2>4, <3>2, <1>n DEF RejectCheckpoint, Saved
    <2>5. CASE ResumeTask(u, resume) \/ BeginTask(u, resume)
      <3>1. UNCHANGED entries /\ run'.task = u /\ pc' # "persist"
        BY <2>5 DEF ResumeTask, BeginTask, NoRun
      <3>2. run'.start = Saved(u).next
        <4>1. CASE ResumeTask(u, resume)
          BY <4>1 DEF ResumeTask, NoRun
        <4>2. CASE BeginTask(u, resume)
          <5>1. run'.start = 0 /\ resume = TRUE
            BY <4>2 DEF BeginTask, NoRun, AlwaysResumes
          <5>2. Saved(u).status \in {"none", "RUNNING", "PASS", "FAIL"} /\ Saved(u).next \in Nat
            <6>1. Saved(u) \in Checkpoint
              BY <1>t, FileAssumption DEF TypeOK, Saved
            <6> QED
              BY <6>1 DEF Checkpoint
          <5>3. NumSteps(u) \in Nat /\ NumSteps(u) > 0
            BY <1>t, RunTypes
          <5>4. Saved(u).next = 0
            BY <4>2, <5>1, <5>2, <5>3 DEF BeginTask, Consults, Resumable, FilesPlaced
          <5> QED
            BY <5>1, <5>4
        <4> QED
          BY <2>5, <4>1, <4>2
      <3>3. Saved(t)' = Saved(t)
        BY <2>2 DEF Saved
      <3>4. i < Saved(t).next
        BY <3>1, <2>2, <1>i, NoTaskAssumption DEF Behind
      <3> QED
        BY <3>1, <3>2, <3>3, <3>4 DEF Behind, Executed
    <2> QED
      BY <2>1, <2>3, <2>4, <2>5
  <1>3. CASE SyncTip \/ UNCHANGED vars
    <2>1. UNCHANGED <<entries, run, pc, ckpt>>
      BY <1>3 DEF SyncTip, Audit!Sync, vars
    <2> QED
      BY <2>1, <1>i DEF Behind, Saved
  <1>4. ASSUME NEW f \in Files, Damage(f)
        PROVE  Behind(t, i)'
    <2>1. UNCHANGED <<entries, run, pc>> /\ Saved(t)'.next = Saved(t).next
      BY <1>4, <1>t, DamageEffect DEF Damage
    <2> QED
      BY <2>1, <1>i DEF Behind
  <1>5. CASE RecordStart \/ RecordCycle \/ RecordMemory \/ RecordEnd
    <2>1. UNCHANGED <<run, ckpt>> /\ pc # "persist" /\ pc' # "persist"
          /\ pc \notin {"down", "ready", "raising"}
      BY <1>5 DEF RecordStart, RecordCycle, RecordMemory, RecordEnd
    <2>2. run.task \in Tasks
      BY <2>1, <1>t DEF TypeOK, Run
    <2>3. \E e \in LedgerEvents : e.kind # "pipeline_step" /\ Record(e)
      <3>1. CASE RecordStart \/ RecordCycle \/ RecordMemory
        BY <3>1, <2>2, <1>t, RunTypes, EventTypes
        DEF RecordStart, RecordCycle, RecordMemory, StartEvent, CycleEvent, MemoryEvent,
            Outcomes
      <3>2. CASE RecordEnd
        <4>1. Verdict \in Outcomes /\ NextIndex \in Nat
          BY <3>2, <2>2, <1>t, RunTypes
          DEF RecordEnd, HasResult, AfterLoop, Verdict, NextIndex, Pos, Outcomes
        <4> QED
          BY <3>2, <2>2, <4>1, EventTypes DEF RecordEnd, EndEvent
      <3> QED
        BY <1>5, <3>1, <3>2
    <2>4. Has(entries, StepEvent(t, i, "PASS"))
      BY <2>3, <1>a
    <2> QED
      BY <2>1, <2>4, <1>k DEF Saved
  <1>6. CASE RecordStep
    <2>n. PICK rec \in Nat, n \in Nat : rec = run.recorded /\ n = Len(run.results)
      BY <1>t, RunTypes
    <2>1. /\ pc = "record" /\ pc' = "record" /\ UNCHANGED ckpt /\ rec < n
          /\ run'.task = run.task /\ run'.start = run.start /\ run'.results = run.results
          /\ run'.recorded = rec + 1
          /\ Record(StepEvent(run.task, run.start + rec, run.results[rec + 1]))
      BY <1>6, <2>n, <1>t DEF RecordStep, TypeOK, Run
    <2>2. /\ run.task \in Tasks /\ run.start \in Nat
          /\ rec + 1 \in 1 .. n /\ run.results[rec + 1] \in Outcomes
      <3>1. run.task \in Tasks /\ run.start \in Nat /\ run.results \in Seq(Outcomes)
        BY <2>1, <1>t, RunTypes DEF TypeOK
      <3>2. rec + 1 \in 1 .. n
        BY <2>1
      <3> QED
        BY <2>n, <3>1, <3>2, ElementOfSeq
    <2>3. run.start + rec \in Nat
      BY <2>2
    <2>e. PICK e \in LedgerEvents :
            e = StepEvent(run.task, run.start + rec, run.results[rec + 1])
      BY <2>2, <2>3, EventTypes
    <2>4. CASE e = StepEvent(t, i, "PASS")
      <3>1. run.task = t /\ i = run.start + rec /\ run.results[rec + 1] = "PASS"
        BY <2>4, <2>e DEF StepEvent
      <3>2. rec + 1 \in 1 .. rec + 1 /\ i = run.start + (rec + 1) - 1
        BY <3>1, <2>2
      <3>3. Executed(run', i)
        BY <3>1, <3>2, <2>1 DEF Executed
      <3> QED
        BY <3>1, <3>3, <2>1 DEF Behind
    <2>5. CASE Has(entries, StepEvent(t, i, "PASS"))
      <3>1. Executed(run, i) => Executed(run', i)
        <4>1. \A j \in 1 .. rec : j \in 1 .. rec + 1
          OBVIOUS
        <4> QED
          BY <4>1, <2>n, <2>1 DEF Executed
      <3> QED
        BY <2>1, <2>5, <3>1, <1>k DEF Saved
    <2> QED
      BY <2>1, <2>e, <2>4, <2>5, <1>t, RecordAddsOnly
  <1>7. CASE StepPasses \/ StepRefused \/ StepLacksHandoff \/ StepRaises
    <2>1. pc = "step" /\ pc' # "persist" /\ UNCHANGED <<entries, ckpt>>
      BY <1>7 DEF StepPasses, StepRefused, StepLacksHandoff, StepRaises, InLoop, Advance,
         AfterStep
    <2>2. run'.task = run.task /\ run'.start = run.start /\ run'.recorded = run.recorded
      BY <1>7, <1>t DEF StepPasses, StepRefused, StepLacksHandoff, StepRaises, Advance,
         TypeOK, Run
    <2>3. run.recorded = 0
      BY <2>1, <1>t DEF RunBacked, TypeOK
    <2>4. Executed(run, i) => Executed(run', i)
      BY <2>2, <2>3 DEF Executed
    <2> QED
      BY <2>1, <2>2, <2>4, <1>k DEF Saved
  <1>8. CASE RecordsDone \/ Remember
    <2>1. /\ pc # "persist" /\ pc' # "persist" /\ UNCHANGED <<entries, ckpt>>
          /\ run'.task = run.task /\ run'.start = run.start /\ run'.recorded = run.recorded
          /\ run'.results = run.results
      BY <1>8, <1>t DEF RecordsDone, AfterRecords, Remember, TypeOK, Run
    <2> QED
      BY <2>1, <1>k DEF Saved, Executed
  <1>9. CASE SaveRunning
    <2>1. /\ run.task \in Tasks /\ pc = "claim" /\ pc' = "cycle" /\ UNCHANGED <<entries, run>>
          /\ Save(run.task, "RUNNING", 0, run.handoff, run.done)
      BY <1>9, <1>t DEF SaveRunning, TypeOK, Run
    <2>2. run.task # t => Saved(t)' = Saved(t)
      BY <2>1, <1>t, SaveEffect
    <2> QED
      BY <2>1, <2>2, <1>k
  <1>10. CASE SaveVerdict
    <2>1. /\ run.task \in Tasks /\ run.task # NoTask
          /\ pc = "close" /\ pc' = "persist" /\ UNCHANGED <<entries, run>>
          /\ Save(run.task, Verdict, NextIndex, run.handoff, run.done)
      BY <1>10, <1>t, NoTaskAssumption DEF SaveVerdict, TypeOK, Run
    <2>2. CASE run.task # t
      <3>1. Saved(t)' = Saved(t)
        BY <2>1, <2>2, <1>t, SaveEffect
      <3> QED
        BY <2>1, <2>2, <3>1, <1>i DEF Behind
    <2>3. CASE run.task = t
      <3>1. Saved(t)'.next = NextIndex
        BY <2>1, <2>3, <1>t, SaveEffect
      <3>2. Executed(run, i)
        BY <2>1, <2>3, <1>i DEF Behind
      <3>n. PICK n \in Nat, start \in Nat : n = Len(run.results) /\ start = run.start
        BY <1>t, RunTypes
      <3>3. n > 0 /\ run.recorded = n /\ (Failed \/ start + n = NumSteps(t))
        BY <2>1, <2>3, <3>n, <1>t DEF RunBacked, HasResult, AfterLoop, Pos
      <3>4. /\ NextIndex = IF Failed THEN start + n - 1 ELSE NumSteps(t)
            /\ Failed <=> run.results[n] = "FAIL"
        BY <2>3, <3>n DEF NextIndex, Pos, Failed
      <3>5. i < NextIndex
        <4>1. CASE i < start
          BY <4>1, <3>3, <3>4
        <4>2. CASE \E j \in 1 .. n : i = start + j - 1 /\ run.results[j] = "PASS"
          <5>1. PICK j \in 1 .. n : i = start + j - 1 /\ run.results[j] = "PASS"
            BY <4>2
          <5>2. Failed => j # n
            BY <5>1, <3>4
          <5> QED
            BY <5>1, <5>2, <3>3, <3>4
        <4> QED
          BY <3>2, <3>3, <3>n, <4>1, <4>2 DEF Executed
      <3> QED
        BY <2>1, <3>1, <3>5 DEF Behind
    <2> QED
      BY <2>2, <2>3
  <1>11. CASE Persist
    <2>1. pc = "persist" /\ UNCHANGED <<entries, ckpt>> /\ run'.task = NoTask
      BY <1>11, NoRunTyped DEF Persist
    <2> QED
      BY <2>1, <1>i, NoTaskAssumption DEF Behind, Saved
  <1>12. CASE Crash \/ WriteRaises
    BY <1>12, <1>c
  <1> QED
    BY <1>1, <1>2, <1>3, <1>4, <1>5, <1>6, <1>7, <1>8, <1>9, <1>10, <1>11, <1>12
    DEF Next, Proceed

(***************************************************************************)
(* While nobody kills the process and no write of a run raises, a call     *)
(* with resume never executes a step the ledger shows as passed.           *)
(***************************************************************************)
THEOREM ResumesAfterPassed ==
  ASSUME DistinctFiles, AlwaysResumes
  PROVE  Spec => []ResumesBehindPassed
  <1> DEFINE Inv == TypeInv /\ BackedInv /\ TellsInv /\ FilesPlaced /\ NothingAhead
  <1>1. Init => Inv
    <2> SUFFICES ASSUME Init PROVE Inv
      OBVIOUS
    <2>1. TypeInv
      BY InitTyped
    <2>2. entries = <<>> /\ pc = "down" /\ Len(<<>>) = 0
      BY EmptySeq DEF Init, Audit!AuditInit
    <2>3. \A t \in Tasks : Saved(t) = NoCheckpoint
      BY FileAssumption DEF Init, Saved
    <2>4. TellsInv
      BY <2>2 DEF TellsInv, LedgerTellsTheRuns, LastTells, AfterLoop
    <2>5. FilesPlaced /\ NothingAhead
      BY <2>2, <2>3 DEF FilesPlaced, NoCheckpoint, NothingAhead, InLog, Has
    <2> QED
      BY <2>1, <2>4, <2>5, InitBacked
  <1>2. Inv /\ [Next]_vars => Inv'
    BY StepTyped, StepBacked, StepTells, StepFilesPlaced, StepNothingAhead
  <1>3. Inv => ResumesBehindPassed
    <2> SUFFICES ASSUME Inv, Undisturbed, pc = "step",
                        InLog(StepEvent(run.task, Pos, "PASS"))
                 PROVE  FALSE
      BY DEF ResumesBehindPassed
    <2>1. run.task \in Tasks /\ run.task # NoTask /\ Pos \in Nat /\ Pos >= run.start
      BY NoTaskAssumption, RunTypes DEF TypeInv, TypeOK, Run, Pos
    <2>2. run.recorded = 0
      BY <2>1 DEF BackedInv, RunBacked
    <2>3. Executed(run, Pos)
      BY <2>1 DEF NothingAhead, Behind
    <2> QED
      BY <2>1, <2>2, <2>3, RunTypes DEF Executed, TypeInv
  <1> QED
    BY <1>1, <1>2, <1>3, PTL DEF Spec
=============================================================================
