# Formal model of the sovereign clean room

The clean room is a local, offline agent runtime: a daemon executes signed skill
packages in sequence, writes everything it does into a hash-chained audit log,
keeps checkpoints, an engine of random vectors (the "twin") and an episodic
memory on disk, turns finished tasks into registered skills, serves a game engine
over a Unix socket, and is guarded by an integrity watchdog.  Nearly all of its correctness is about files: several
components write several files, one after the other, some in place, without
locks, and a process may end between any two of the writes.  That is what the
modules here are about.

Paths below are relative to `src/`.

## 1. Inventory

| Component (source) | State it keeps | Operations | Talks to | Modelled by |
|---|---|---|---|---|
| Audit ledger (`core/clean_room_ledger.py:73-215`) | `ledger.jsonl`, `tip.json`; `_seq`, `_tip` of each object | construct, `append`, `verify_chain` | called by daemon, bridge, CLI, task atoms | `AuditLog`, `Ledger`, `LedgerLives` |
| Checkpoint store (`core/clean_room_ledger.py:340-382`) | one JSON file per task id | `save`, `load` with hash check | daemon | `Daemon` |
| Orchestrator (`core/clean_room_orchestrator.py`) | the handoff `state["last_output"]` | `run` | gate, daemon | `Daemon` |
| Daemon (`core/clean_room_daemon.py`) | local variables of `run_task` | `run_task`, `run_forever` | all of the above, memory store, engine | `Daemon` |
| Skill gate and signatures (`core/clean_room_vsa.py:245-290`, `core/skill_crypto.py`) | list of failures | `execute_skill_package`, `verify_package` | orchestrator | `Daemon` (as a decision) |
| Engine and codebook (`core/clean_room_vsa.py`) | atoms, pinned set, `twin_state/` | `register`, `remove`, `prune_by_utility`, `prune_redundant`, `save`, `load` | everything | `Twin`; as a whole in `Daemon`, `Watchdog` |
| Episodic memory store (`core/clean_room_memory.py`) | `memory/*.npy`, `manifest.json`, `manifest.tmp` | `remember`, `bundle_episodes`, `recall` | daemon, bridge, CLI | `EpisodeStore`, `MemoryStore` |
| JKillnHide watchdog (`core/clean_room_jkillnhide.py`) | `defense/baseline.json` | `write_baseline`, `scan`, `enforce`, `attach_watchdog_to_daemon` | daemon, engine, CLI | `Watchdog` |
| Command line (`core/clean_room_cli.py`) | none of its own | `init`, `run`, `daemon start`, `jkillnhide ...` | loads and saves the engine | `Watchdog`, `Twin` (partly) |
| Godot bridge (`core/clean_room_godot_bridge.py`) | one ledger and one store shared by a thread per client; the socket file, `_stop` | `start`, `stop`, `_client_loop`, `handle` | ledger, memory store, gate, shapes | `Bridge`; the store's threads in `MemoryStore` |
| Task atoms and episodes (`core/episodic_memory.py`) | `atoms.jsonl`, `tip.json`; `_tip`, `_count` of each object | `TaskAtom.create`, `append`, `verify_chain`, `reconstruct_episode` | audit ledger, promotion | `TaskAtoms`, `Promotion` |
| MemSkill governance gate (`core/memskill_ir.py`, `core/memskill_governance_gate.py`, `core/clean_room_z3.py`, `core/memskill_runtime.py`) | none; a verdict, a trace | `canonicalize`, `evaluate_and_sign`, `verify_memskill`, `execute_trace` | SHACL, Z3, signer | `Governance` |
| MemSkill promotion (`core/memskill.py`) | none | `promote_memskill` | episodes, registry | `Promotion` |
| Capability registry (`core/capability_registry.py`) | `capabilities.json`; `_caps`, `_skills` of each object | construct, `register`, `register_from_package` | promotion | `Promotion` |
| SHACL shape engine (`core/clean_room_shacl.py`) | a graph per check | `validate_graph`, `validate_mapping`, `validate_skill_package` | bridge, governance gate, watchdog reports | `Shapes` |
| Memory lifecycle (`core/memory_lifecycle.py`) | a list of records | `store`, `reinforce`, `contradict`, `supersede`, `invalidate` | - | not modelled, see section 8 |
| BaNEL route protocol (`core/banel_protocol.py`) | session of routes and evidence | `step`, `save`, `load` | - | not modelled, see section 8 |
| Model bridge, dashboard, physics, attestation, FHRR protocol, metrics, provenance, offline boundary, scripts | - | - | - | not modelled, see section 8 |

### How the parts interact

`run_task` is the centre.  In one call it verifies the ledger, loads the saved
engine, reads the checkpoint, appends `pipeline_start`, saves a RUNNING
checkpoint, appends `daemon_cycle`, runs the remaining steps through the
orchestrator (which calls the gate, which calls the handlers), appends one
`pipeline_step` per step, stores an episode and appends `memory_append`, appends
`pipeline_end`, saves the final checkpoint and saves the engine.  `run_forever`
calls it for each task in each cycle.  The watchdog replaces `run_task` by a
function that scans first.  The bridge serves several clients, a thread each, on
one ledger object and one memory store, beside the daemon's process.  Programs that
use the task atoms append them to a second hash-chained file, note each in the audit
ledger, rebuild an episode from them, and promote it into the capability registry.

### What is hard here, and what correctness means

* **Interleaving.**  Neither the ledger nor the memory store has a lock, in a
  process or between processes.  What survives of their structure?
* **Kills.**  Every file is written at its own moment.  Of any two files that
  refer to each other, which may be ahead?
* **Retries and resumption.**  A failed or interrupted task is called again from a
  checkpoint.  No step that did not pass may be skipped, a task that passed is
  done for good, and in the end all tasks pass.
* **Stale copies.**  A ledger object caches the tip, a store the manifest, a
  daemon the engine, the watchdog its atoms in somebody else's codebook.
* **Order.**  Episodes are sorted by wall-clock time, vectors of the engine are
  written one by one before the index, anonymous nodes are named by counting.
* **Feedback.**  The watchdog watches a directory its own commands write.

`PROJECT.json` lists these hazards one by one, at the line where each bites.

## 2. Modules

```
AuditLog  <---- implemented by ---- Ledger <-- LedgerLives   (+ MCLedger, MCLives, LedgerProofs)
   ^   ^                              ^
   |   |                              | EXTENDS
   |   |                           Bridge                     (+ MCBridge; proofs in LedgerProofs)
   |   |
   |   +------- implemented by ---- TaskAtoms <-- Promotion   (+ MCPromotion, PromotionProofs)
   | INSTANCE (its log)
Daemon                                                        (+ MCDaemon, DaemonProofs)

EpisodeStore  <-- implemented by -- MemoryStore               (+ MCMemoryStore, MemoryStoreProofs)

Twin                                                          (+ MCTwin, TwinProofs)
Watchdog                                                      (+ MCWatchdog, WatchdogProofs)
Governance                                                    (+ MCGovernance, GovernanceProofs)
Shapes                                                        (+ MCShapes, ShapesProofs)
```

A definition whose comment starts with "Faulty variant" is a plausible bug in the
definition that follows it.  No specification uses one; each was put in place of
its neighbour to make sure that a property notices.

### AuditLog and Ledger

`Ledger` splits `append()` where another thread or a kill can see its work half
done: `Number` and `Link` read `_seq` and `_tip` into the body, `SealEntry` reads
`_tip` again for the digest, `WriteLine` appends the line, `PublishSeq` and
`PublishTip` move the cache, `TruncateTip` and `FillTip` are the two halves of
`write_text`.  `OpenHandle` is the constructor, `CloseHandle` a regular end of
the process and `Crash` a kill of it with all its threads.  `VerifyChain` is
`verify_chain`.  Digests are an uninterpreted function of the previous hash and
the body; no assumption of collision freedom is needed for the theorems, and the
instance that TLC checks uses the hashed tuple itself as the digest.

`AuditLog` is what a process that owns the workspace can rely on: entries are
added at the end, and the log is accepted until a process dies between a line
and the end of the `tip.json` write, from when on it is never accepted again.
`LedgerLives` adds the history of whether a kill ever struck that window.

### Bridge

`Bridge` puts the threads of `Ledger` behind connections.  `Construct`, `Start`,
`Stop` and `Kill` are the life of a bridge object and its process; two of them may
share a workspace and its socket path.  `Send` is a client, which may connect
first; `Loop`, `Receive`, `EndOfInput` and `Answer` are `_client_loop`, where a
chunk may end inside a line, hold several, and a client may hang up before its
answer.  `LedgerAppend`, `MemoryRemember`, `RememberRaises`, `SkillRun`, `Record`,
`LedgerVerify`, `Verdict` and `Other` are the branches of `handle()`; an append
inside one is the steps of `Ledger` (`RecordAndAnswer`).  `careful` and `late` are
histories for two of the properties.

### TaskAtoms and Promotion

`TaskAtoms` is the second hash chain: `Open` the constructor, `Create` an atom linked
to the tip the object knows, `WriteAtom` and `Refuse` the two branches of `append()`
with its second seal, `TruncateTip` and `FillTip` the write of `tip.json`, `NoteAtom`
and `SkipNote` the best-effort entry in the audit log, `Vanish` an end or a kill at
any of these steps.  What an episode is sorted by, time and random id, is an
arbitrary unique number, since clocks stand still and are turned back.  The
abstract log it implements is the one of the audit ledger.

`Promotion` composes it with the registry: `Rebuild` (`reconstruct_episode`, sorted),
`RegisterCapability` (`promote_memskill` with its validation, and the first save of
`register_from_package`), `RegisterSkill` (the second), `Drop` for all that fails,
`Start` and `Stop` with the copy a registry object reads and never reads again.

### Daemon

`run_task` over the abstract log, one action per file operation.  `Enter` is the
part all calls begin with; `ReportPassed`, `RejectCheckpoint`, `ResumeTask` and
`BeginTask` are the branches on the checkpoint; `RecordStart`, `SaveRunning`,
`RecordCycle`, the four outcomes of a step (`StepPasses`, `StepRefused`,
`StepLacksHandoff`, `StepRaises`), `RecordStep`, `RecordsDone`, `Remember`,
`RecordMemory`, `RecordEnd`, `SaveVerdict` and `Persist` follow the code in its
order.  An append is two steps: the line, then `SyncTip`; every action that
continues the daemon's thread waits for it.  `Crash` may cut off an append or the
engine save.  `Damage` changes a checkpoint from outside, as
`tests/test_agent_daemon.py` does.  A handler is reduced to whether it needs the
handoff, to the atom it leaves in the engine, and to what else it may leave behind: the
gate passes an output on without a look at it (`core/clean_room_vsa.py:278-279`), and the
state is the handler's to write.  `Oddity` is something `json.dumps` refuses, in the
telemetry, among the keys of an output, elsewhere in the state or in the metadata of an
atom, so that a step record, the last checkpoint or the engine save raises and `run_task`
ends there (`WriteRaises`); or keys that are numbers, which `_canonical` sorts as numbers
before and as texts after they were on disk, so that a step record breaks the chain
(`Garble`) or a checkpoint is not sound (`ReadsBack`).  A handler that spoils
`state["history"]`, or leaves telemetry that is no mapping, ends `run_task` where an
unwritable telemetry does: before the first step record.

### EpisodeStore and MemoryStore

`MemoryStore` splits `remember()` and `bundle_episodes()`: the vector file, the
entry in the store's own manifest (`List`), `json.dumps` (`Dump`), the three
parts of the write through `manifest.tmp` (`OpenTmp`, `WriteTmp`, `Replace`) and
the answer with its ledger entry.  `manifest.tmp` and `manifest.json` are names
of files (inodes), because two writers can have the same file open and the rename
of one takes it away from the other (`ReplaceFails`).  `EpisodeStore` is the
store a single process is promised.

A behaviour is `serial` (one process and one call at a time, killed anywhere) or
shared; the refinement is about the first, the other properties about both.

### Twin

`twin_state` file by file.  `Begin` is a process: `init`, a command that runs a
skill, a watchdog command or a daemon; `LoadRaises`, `LoadMeta` and `LoadVectors` are
`load()` with torn and missing files, and `Prepare` what each kind of process makes
of a load that raised or brought too little.  `Learn`, `Unpin`, `PruneByUtility` and
`PruneRedundant` are what handlers may do to the codebook, `SaveBegins` to `SaveIndex`
are `save()`, with the truncation of every file as a step.  Processes overlap or
not (`exclusive`); `End` is an end or a kill anywhere.  Vectors are compared only by
the cull: a relation between names.  `Keep` (what a load or a removal leaves of a
codebook) and `Culled` are recursive functions over the codebook, so that they can be
proved about; `Compare` is one turn of the outer loop of `prune_redundant`.

### Watchdog

The files are hashed into a snapshot, `twin_state` (the saved engine) and the
rest.  `Check`, `Baseline`, `Run` and `DaemonStart` are the commands of the CLI, each of
which loads and saves the engine; `Attach`, `WriteBaseline`, `Raise`, `Refuse`,
`Execute`, `ExecutePassed` (the task has passed before), `ExecuteRaises` and `Stop` are
the life of a guarded daemon with `fail_closed=True`, the default; `Edit` changes another
watched file.  An engine is what runs added to it, the watchdog's atoms and the jump start
it comes from: a run may leave a jump-start atom unpinned or remove it (`After`), and the
constructor of the watchdog and the bootstrap of a daemon then start it again
(`Restarted`), which changes the bytes of the next save; `cli run` does not.

### Governance

A candidate skill on its way through `evaluate_and_sign`: `Canonicalize` or
`RejectForm`, `Conform` or `RejectShape`, `Solve` or `SolverUnavailable`, `Sign` or
`RejectUnsigned`.  The constraints given to Z3 are written down as they are
(`ResourceConstraints`, `IsolationConstraints`, `VerificationConstraints`,
`CompromiseConstraints`, `DischargeConstraints`), and the solver as the existence of
an assignment.  `Begin`, `TakeStep`, `Stop` and `Finish` are `execute_trace` on
the same canonical form, called when the solver has answered, as
`scripts/run_completion_measurements.py` and the tests do, and with the solver's
capacity.  SHACL validation is a choice; that the shape accepts what
`canonicalize` accepts is not claimed.

### Shapes

What is submitted, a document, a package or a gate result, is turned into a graph
(`AddNode`, `AddPackage`, `RefusePackage`, `AddResult`), the shapes select their focus
nodes (`Select`, `UnknownShape`), each is checked (`Check`) and reported (`Report`).
Values are a Python type and a text, so that `False == 0` and `bool()` and `int()` of
odd entries come out as in Python; nested values are kept apart because no Python set
takes them (`Raises`, which also has the allowed values that cannot be sorted for a
message).  The shapes are the constitutional ones of the source, and in the instance
three more that use `closed`, `targetNode`, `pattern`, no target at all, and the number of
an anonymous node as a target.

## 3. Runs

| Run | Question | Bounds | Why they are enough |
|---|---|---|---|
| `LedgerSerial` | Is the log of one process at a time, killed anywhere, the abstract `AuditLog`, and does it verify and continue unless a kill struck the window of an append? | 2 processes, 2 events, 3 lines | ends, kills and starts fit between and inside any two appends; torn, stale and continued logs occur |
| `LedgerClients` (violation) | Is the log a chain with two clients? | 2 threads, 2 lines | two overlapping appends |
| `BridgeClients` | What is left of the log, what do answers mean, which use is safe, when bridges and clients do as they like? | 2 bridges, connections 2 and 1, 2 requests of 6 kinds, 2 lines | two requests of each pair of kinds overlap in one bridge and in two, with stop, restart and kill at every step; the theorems cover more |
| `DaemonKilled` | Do checkpoints, log, memory and engine agree? | 2 tasks of 2 steps, 1 handler call that raises or leaves something odd, a refused package, 1 kill, 1 damaged checkpoint, no new run on more than 10 lines | a failed, a resumed, a killed, a damaged run and one whose write raises fit one behind the other |
| `DaemonConverges` | Is a PASS final, are resumed runs behind what passed, does every task get done? | 2 tasks, 1 handler call that raises or leaves something odd, 1 kill, no new run on more than 23 lines | the runs that one fault, one kill and both tasks need begin on fewer lines, so the bound cuts nothing off |
| `DaemonHandoff` (violation) | Does a resumed step get its predecessor's output? | 1 exception | one is enough |
| `MemoryStore` | What holds when bridge clients and a daemon store at once, and is the store of one process and call at a time the abstract `EpisodeStore`? | 3 threads, 2 stores, 3 ids, 4 files; 2 ids where calls overlap (`TwoShared`) | an episode and a bundle of it, a thread whose file is renamed away, and a kill while `manifest.tmp` is written, occur; the theorems cover more |
| `Promotion` | Are atoms, audit entries, episodes and registry what they claim, with a clock that is turned back? | 2 processes, 3 atoms of a task (2 where processes overlap), 2 event types, 1 illegal entry | failed, then completed, then failed, in each order of file and clock; a stale registry over a fresh one |
| `Shapes` | Is the verdict that of a reference definition over the document? | all documents of up to 2 nodes of 11 contents and 5 ids, 3 nodes of 2 contents and 3 ids, 63 packages, 3 statuses, 6 shape ids | two anonymous nodes around an empty one, an explicit id `_:n0` or `_:n1` before and behind an anonymous node, with and without a collision |
| `Twin` | What does a process find after kills and overlapping saves, and what does it start with? | 2 processes, 1 jump-start atom, 1 watchdog atom, 2 notes, 5 calls (3 where processes overlap) | learn, prune, save, be killed in a save, load, save again |
| `WatchdogCycles` | What raises an alarm, what ends it? | 4 lessons, 4 draws, 4 jump starts, 2 versions of the other files | a draw and a jump start that are neither in the twin, the engine nor the baseline are always left |
| `GovernanceGate` | Do solver and interpreter agree on every skill? | all skills of 1 to 4 steps over 4 operators, costs 0 and 1 with capacity 2, one precondition; malformed candidates of up to 2 steps | isolate, verify, execute and another step in every order, and a cost beyond the capacity; the theorems cover the rest |

Symmetry is used for ids, files, draws, jump starts, the two connections of one bridge and processes that have no names in the files, all
of them interchangeable; no run with symmetry checks liveness.  `TwoShared` is the
only state constraint: it stops exploring, in behaviours where calls overlap, behind
the state in which a third vector appears.

Deadlock is checked except where the system really stops: in `LedgerSerial`,
`BridgeClients` and `Promotion`, when a `tip.json` is torn so that no constructor
succeeds, or the bound is reached and all processes are gone; in `MemoryStore`, when
the manifest does not parse or all ids are used; in `Twin`, when the calls are used
up; in `GovernanceGate` and `Shapes`, when gate, trace or check are over.

### What the runs show

* One process at a time: the log verifies between calls over any number of ends,
  kills and starts, and the next process continues it, unless a kill fell between a
  line and the end of the `tip.json` write (`VerifiesUnlessStruck`,
  `ContinuesUnlessStruck`); such a kill, and nothing else, breaks the log, for good
  (`ImplementsAuditLog`).
* Many writers: lines form a tree over genesis and numbers never run ahead
  (`ParentOnDisk`, `SeqNeverAhead`).  They need not form a chain (`HashChain`,
  violated by two clients of a bridge).
* A bridge's `ok` means that effect and line are there, a request never leaves two
  lines, and an effect without a line has one of two reasons (`AnswersAreTrue`).  Its
  log stays whole if bridges are constructed one after the other, started once,
  their clients take turns and nobody is killed at work (`CarefulUseVerifies`).
  `stop()` does not end a connection, which serves one chunk more
  (`StoppedServesOneChunk`).
* A checkpoint claims only what the log shows (`CheckpointIsBacked`); the log
  reads as a sequence of runs, each cut off at most once (`LedgerTellsTheRuns`);
  an episode without an entry is the trace of a kill (`MemoryAccounted`); while nobody
  kills the process and no write of a run raises, what a step taught survives, also a
  failed run (`LearnedIsKept`).
* A PASS is final (`PassIsFinal`); while nobody kills the process and no write raises, no
  passed step is run again (`ResumesBehindPassed`); all tasks are finally done unless the
  log is broken or a checkpoint does not verify (`Converges`).
* A manifest, wherever it is, is closed under vectors and members
  (`ManifestsAreClosed`), a store never forgets an id it returned
  (`AnsweredIsListed`), and with one process at a time the store is the abstract
  one (`ImplementsEpisodeStore`).
* A recorded atom is the atom as its creator holds it and is recorded once, however
  stale the tips and however often it is offered (`AtomsAreImmutable`); the audit log
  may miss atoms but tells of no other ones, of none twice, and one process at a
  time in order (`AuditTellsTheAtoms`); the chain of one process at a time is an
  audit log (`AtomsImplementAuditLog`).
* What is registered was completed, and if the clock went forward its content is a
  history that ends in completion (`RegisteredWasCompleted`).  A skill never stands
  without its capability (`RegistryIsSound`), and one process at a time loses no
  registration (`RegistrationsAreKept`).
* A save that no other overlapped is one engine for all who load, whatever was on
  disk before (`SavedIsWhole`); a daemon and a watchdog start to work with the jump
  start pinned, whatever they loaded (`CoreIsReady`); prunings take no pinned atom,
  and the cull none without leaving one like it (`PruningIsSafe`).
* A document is judged node by node on what its nodes say, if no two nodes that say
  something are called the same, by id or by the number an anonymous one gets
  (`JudgedByTheDocument`); two anonymous nodes are called the same only where the first
  of them has no values, an explicit id only where it is the very number a later node
  gets.  A package that conforms is one the gate
  does not refuse for network access (`ConformingIsSovereign`).
* The guarded daemon learns at most one lesson per baseline
  (`OneLessonPerBaseline`), each alarm has one of four reasons
  (`AlarmsExplained`), and only a new baseline or a file changed back ends a
  drift (`DriftEndsByBaseline`).
* The solver accepts nothing the interpreter stops (`NeverUnsound`), and what it
  rejects although the interpreter runs it has a precondition that is discharged
  outside (`ConservativeOnlyOutside`): two of the four answers of
  `correspondence()`, one of which must never occur.

### Disagreements between code and documentation

Two runs end in a counterexample, each against a sentence of the repository:
a fork of the "append-only, hash-chained audit log" by two clients
(`LedgerClients`) and a resumed step without the handoff that "must" be preserved
(`DaemonHandoff`).

Further ones were met while modelling and have no run of their own:

* `attach_watchdog_to_daemon` is to "enforce integrity before cycles", but in the set-up
  the docs recommend the guard can end in a `KeyError`: the load of `run_task` empties
  the codebook the watchdog registered its atoms in (`core/clean_room_jkillnhide.py:283`;
  the outcome `"KeyError"` of the guard in `Watchdog`).
* The gate takes `enable_shacl` and ignores it (`core/clean_room_vsa.py:252`), although
  `bridge/PROTOCOL.md:32`, `SECURITY.md:23` and `docs/REPO_GROUPS.md:135` say that packages
  are validated; what the gate itself tests is `GateRefuses` in `Shapes`.
* The bridge's `skill_run` runs the payload before the ledger entry: a package whose
  manifest is no object is run, leaves no line and is answered with an error.
* A kill between a ledger line and `tip.json` leaves a log that no later process
  accepts; there is no repair (`status = "broken"` in `AuditLog`).
* Two processes that append in turns, not even at once, fork the chain, since a
  handle never reads `tip.json` again.
* With two writers on `manifest.tmp` the manifest may become a text that does not
  parse (`Mixed`), although `SECURITY.md` promises atomic persistence; and a
  store that saves its manifest drops the entries of another process.
* `jkillnhide baseline` on a twin without the watchdog's atoms hashes first and
  saves them afterwards, so the check after it reports drift (third disjunct of
  `AlarmsExplained`).  So it does behind a run that left a jump-start atom unpinned: the
  constructor jump-starts the engine, the baseline hashes the files as they are, and the
  command then saves what was repaired (fourth disjunct).
* A handler's output is called "sanitized" (`core/clean_room_orchestrator.py:179`), but
  nobody has looked at it: where `json.dumps` refuses it, `CheckpointStore.save` raises
  behind the `pipeline_step` and `pipeline_end` lines that say PASS
  (`core/clean_room_ledger.py:361`), the checkpoint still says RUNNING, the engine is not
  saved, and the next call runs the passed steps again; with keys that are numbers the
  saved checkpoint does not verify (every later `run_task` of the task raises, and
  `run_forever` with it, so that the tasks behind it are not reached either), or, if they
  are in the telemetry, the log does not (`raised` and `sound` in `Daemon`; excluded in
  `LearnedIsKept` and `ResumesBehindPassed`, and a way out in `Converges`).
* A document may call a node `_:n1` and have an anonymous node that gets this very name
  (`core/clean_room_shacl.py:109`): the two become one node of the graph, and
  `[{"@id": "_:n1", status: PASS}, {status: PASS}]` has two statuses too many for a
  `maxCount` of 1 that each of them satisfies.  `Apart` excludes these documents, and no
  others with such ids, from `JudgedByTheDocument`.
* After a kill every step of the run is executed again, also those the ledger
  shows as passed, since no checkpoint is saved between the steps; the header of
  `core/clean_room_daemon.py` says "resume remaining steps or start fresh".
* A kill between the PASS checkpoint and the engine save loses what the run
  taught, since a PASS is never run again (the `crashes = 0` in `LearnedIsKept`).
* `jkillnhide check` beside a running daemon overwrites the engine the daemon
  saved in the meantime.

## 4. Fairness

Only `Converges` needs it.  `FairSpec` assumes

* `WF(Proceed)`: the daemon's thread goes on; it is sequential code that waits for
  nobody;
* `WF(Launch)`: whoever runs the daemon starts it again after it ended (the CLI's
  `daemon start`, a service manager);
* `SF(RunTask(t))` for each task: `run_forever` calls `run_task` for every task
  of its list in every cycle (`core/clean_room_daemon.py:370-386`).  Strong,
  because the process may end again and again before the call: a task is then
  callable infinitely often but not continuously.

Handlers return or raise; that they raise, or leave what cannot be written or read back,
happens finitely often (`MaxFaults`), without which nothing converges: a task whose handler
always returns what `json.dumps` refuses ends every call of `run_task` in an exception.
`Converges` also excepts what no later call mends: a broken log, and a checkpoint that does
not verify, at which `run_forever` raises in every process.

## 5. Proofs

All theorems hold for every value of the constants, under the `ASSUME`s of the
modules (types of the constants, and values that are none of a set) and the
hypotheses named below.  Every property of a passing run but `Converges` is stated
by a theorem.

| Theorem | Says | Argument |
|---|---|---|
| `LedgerProofs!TypeCorrect` | `Spec => []TypeOK` | with `DraftHasEvent`: a line gets its event from a draft that has one |
| `LedgerProofs!LogIsATree` | `Spec => []ParentOnDisk` | `TreeInv`: every number and hash anybody holds (caches, drafts, pending texts, `tip.json`) is known to the file.  `ParentOnDisk` alone is not inductive, a draft could carry anything |
| `LedgerProofs!NumbersNeverAhead` | `Spec => []SeqNeverAhead` | the same invariant |
| `LedgerProofs!SerialVerifies` | `LivesSpec => []VerifiesUnlessStruck` | `SerialInv`: with one thread per process and one process at a time, and unless a kill struck, cache and `tip.json` are current but in the window of an append, and the draft continues the last line |
| `LedgerProofs!SerialContinues` | `LivesSpec => []ContinuesUnlessStruck` | the same invariant |
| `LedgerProofs!LedgerImplements` | `LivesSpec => ImplementsAuditLog` | `MappedInv`: until a kill strikes, `tip.json` is one line behind in the window; from then on the log is broken for one of three reasons, each of which lasts: its walk fails, every tip anybody has is one line behind (`ForkAhead`, so the next append makes the walk fail), or `tip.json` is torn and nobody is left to write it (`Closed`).  Then `WriteLine` is the abstract `Write`, `FillTip` its `Sync`, the kill its `TearDown`, every other step a stutter |
| `LedgerProofs!BridgeTyped` | `BridgeSpec => []BridgeTypeOK` | `BridgeInv`: a thread in `handle()` is at a request it has received, and in an append of the ledger exactly when it is recording |
| `LedgerProofs!BridgeUsesTheLedger` | `BridgeSpec => Spec`, and so `[]ParentOnDisk` and `[]SeqNeverAhead` | every step of a bridge is one of the ledger or leaves the ledger alone |
| `LedgerProofs!OneChunkAfterStop` | `BridgeSpec => []StoppedServesOneChunk` | `LateInv`: a thread that waits for input, or whose bridge is not stopped, has served no late chunk |
| `LedgerProofs!AnswersTrue` | `BridgeSpec => []AnswersAreTrue` | `RequestInv`: a request was sent once and is at one place (`SentOnce`, `AtWork`), a request nobody has reached has no line and no effect (`Quiet`), its line is in the log or still in the draft of its thread (`NotedOnce`), a `remember` has its effect before its line |
| `LedgerProofs!CarefulVerifies` | `BridgeSpec => []CarefulUseVerifies` | `CarefulInv`: used with care one thread is at work, on the one bridge that has connections, and its cache, `tip.json` and the last line agree but in the window of its append; a `verify` under way has read lines that are still all there are |
| `DaemonProofs!TypeCorrect` | `Spec => []TypeOK` | with `HasResult`: behind the loop there is a result to look at |
| `DaemonProofs!CheckpointsAreBacked` | `Spec => []CheckpointIsBacked` | `RunBacked`: at each place of `run_task` the local variables claim only what the log shows, so that what `SaveVerdict` writes is backed; the log only grows |
| `DaemonProofs!PassedForGood` | `Spec => PassIsFinal` | `PassOnce`: a run at work has a task whose file does not say PASS, up to the engine save; so no action that saves a checkpoint or adds an entry is one of a passed task |
| `DaemonProofs!EpisodesAccounted` | `Spec => []MemoryAccounted` | `NoteDue`: between the episode and its entry the task has strictly fewer entries than episodes.  Without it the entry could be one too many |
| `DaemonProofs!LedgerReadable` | `Spec => []LedgerTellsTheRuns` | `LastTells`: at each place of the loop, which entry is the last one; what `run_task` adds there follows it.  That a `daemon_cycle` names only passed steps is `CheckpointIsBacked` of the file it resumed from |
| `DaemonProofs!LearnedForGood` | `Spec => []LearnedIsKept` | `EngineLearned`: until a kill or an exception out of a write the engine in memory has what the log shows as passed and what results still to be recorded have taught, and between calls the twin has it |
| `DaemonProofs!ResumesAfterPassed` | `Spec => []ResumesBehindPassed` | `FilesPlaced` (a RUNNING file starts at 0, a FAIL file before the last step) and `NothingAhead` (until a kill or an exception out of a write, what the log shows as passed lies before the file's `next_index`, or for the task at work before its position) |
| `MemoryStoreProofs!ManifestsClosed` | `Spec => []ManifestsAreClosed` | `StoreInv`: ids in flight have vectors, an id without a vector has no members, dumped texts are copies of closed manifests |
| `MemoryStoreProofs!AnsweredListed` | `Spec => []AnsweredIsListed` | the same invariant: what is behind `List` is in the cache |
| `MemoryStoreProofs!StoreTyped` | `Spec => []TypeOK` | part of `StoreInv` |
| `MemoryStoreProofs!StoreImplements` | `Spec => ImplementsEpisodeStore` | `Alone` and `DiskInv`: in a serial behaviour there is one caller; its store's manifest is what is listed on disk, and from `List` to `Replace` the new id besides; `manifest.tmp` is its own |
| `PromotionProofs!AtomsImmutable` | `Spec => []AtomsAreImmutable` | `StampsAreOwned` (an atom is held by the process that created it) and `OwnerMovedOn`: once an atom has its line, the tip of whoever holds it is the digest of that line or a later one, so it never again links to the atom's previous hash and `append` refuses it |
| `PromotionProofs!AuditIsTrue` | `Spec => []AuditTellsTheAtoms` | `NotedOnce`, `NotedInOrder`: the entry of an atom is in the log or still due at one process, behind its line |
| `PromotionProofs!AtomsImplement` | `Spec => AtomsImplementAuditLog` | as for the ledger, with `StaleTip` for its `ForkAhead`: after a kill in the window the next atom repeats a previous hash |
| `PromotionProofs!PromotionTyped` | `Spec => []TypeOK` | an atom on the file is a whole one: only what was created is appended |
| `PromotionProofs!PromotedWasCompleted` | `Spec => []RegisteredWasCompleted` | `ToldInv`: also the copies of stale objects and a promotion half done tell only of episodes that were completed when they were rebuilt; the file of atoms only grows.  Under a clock that went forward the sorted episode is the history up to some line |
| `PromotionProofs!RegistrySound` | `Spec => []RegistryIsSound` | `HalfwayHasCapability`: between the two saves the object already has the capability; `NoRogueSkill`: what a load skips is no skill's capability |
| `PromotionProofs!RegistrationsKept` | `Spec => RegistrationsAreKept` | `CopyIsFresh`: one process at a time knows all the file has |
| `ShapesProofs!ShapesTyped` | `Spec => []TypeOK` | an invariant of its own: the graph has a row for each predicate, what is to be checked is a shape and a node of the graph |
| `ShapesProofs!ConformingPackages` | `Spec => []ConformingIsSovereign` | `Checked`: as long as nothing was found, the focus node of the package is still to be checked or satisfies the shape |
| `ShapesProofs!JudgedDocuments` | `Spec => []JudgedByTheDocument` | `Tells`: after i nodes, each node that says something stands in the graph under the name it is called by, nothing else does, and there are as many of them, so that the next anonymous node gets the number it is called by (`TellsOneMore`).  `DocInv`: what was found and what is still to be checked make up the violations of the focus nodes, and `CleanOrConforms` equates none of them with the reference definition |
| `TwinProofs!TwinTyped` | `Spec => []TypeOK` | a save has a vector to write while it writes one.  That the operators keep a codebook free of repetitions is `KeepProperties`, `AppendBook`, `JoinBooks`, `TailBook` |
| `TwinProofs!SavedWhole` | `Spec => []SavedIsWhole` | `SaveInv`: of two saves under way both are disturbed (`Alone`); of one that is not, meta file and vectors are what it has written so far, and the rest is in `todo` (`InOrder`, `Written`); an undisturbed save that has ended is followed by none (`OneEngine`).  `SavedIsWhole` alone says nothing of a save under way |
| `TwinProofs!CoreReady` | `Spec => []CoreIsReady` | inductive with the types; `Prepares` is the lemma about what is made of a load |
| `TwinProofs!PruningSafe` | `Spec => PruningIsSafe` | `CullIsSafe`: after i rows, what is gone is not pinned and is like an atom that is pinned or of one of the first i rows; neither can be taken by a later row |
| `WatchdogProofs!WatchdogTyped` | `Spec => []TypeOK` | with `WatchdogInv` |
| `WatchdogProofs!OneLesson` | `Spec => []OneLessonPerBaseline` | `WatchdogInv`: the lessons learned since the baseline are those of at most one run |
| `WatchdogProofs!AlarmsHaveReasons` | `Spec => []AlarmsExplained` | the atoms and the jump start in the twin are those of the baseline unless that lacked them or a run added something |
| `WatchdogProofs!DriftNeedsBaseline` | `Spec => DriftEndsByBaseline` | `Kept`: lessons and atoms are never removed from the twin |
| `GovernanceProofs!TypeCorrect` | `Spec => []TypeOK` | an accepted candidate has steps in range |
| `GovernanceProofs!SolverIsSound` | `Spec => []NeverUnsound` | `Followed`: every assignment that satisfies the constraints is, as far as the interpreter has come, what the interpreter has computed; `NeverUnsound` alone says nothing about the steps before |
| `GovernanceProofs!SolverIsComplete` | `Spec => []ConservativeOnlyOutside` | `Summed` and `Witnessed`: the steps taken so far are such an assignment, and each step extends it; at the end it satisfies the constraints, so the solver cannot have rejected |

Premises that are not assumptions of a module but hypotheses of a theorem; the
instances that TLC checks satisfy those of the theorems about them:

* `HashTotal`, in `LedgerProofs` and `PromotionProofs`: a digest of a hash and a body is
  a digest.  It is all that is assumed of SHA-256 for the ledger and the bridge, but for
* `HashMoves` (`LedgerImplements`): no body is digested to the hash it is linked to, or
  the last line but one could pass for the last;
* `BodiesApart` and `NeverGenesis` (the theorems about atoms): different bodies have
  different digests, none of which is the text `genesis`.  `append()` recognises a
  recorded atom only by its previous hash, so two atoms with one digest would be confused.
* `SoleWriter` (the three serial theorems of the ledger): one thread per handle.
* `DistinctFiles` (`CheckpointsAreBacked`, `PassedForGood`, `LedgerReadable`,
  `ResumesAfterPassed`): no two tasks share a checkpoint file.  A real restriction:
  `_path` maps all characters but letters, digits, `-` and `_` to `_`, so two task ids can
  share a file, and the properties are false for them.
* `AlwaysResumes` (`PassedForGood`, `ResumesAfterPassed`): every call asks for `resume`, as
  the command line does by default; a call without it is meant to run a passed task again.
* `SkillsAreLegal` (`RegistrySound`, `RegistrationsKept`): the capability of a skill is none
  of the illegal entries.

The type invariants of `Ledger`, `Bridge` and `MemoryStore` are proved and appear in no
run.

Data of any length, such as the codebook a cull walks through or the set of atoms an
episode is sorted from, are argued about by a least counterexample, since the library's
induction theorems cannot be used: they take an operator as a parameter.  A recursive
function is first shown to exist (`Recursion` in `TwinProofs`), then described.

Only model-checked: `Converges`, since liveness under fairness is out of reach of the
prover, and the two runs that end in a counterexample.

## 6. Abstractions

* A write or rename system call is all or nothing; a kill is the death of a
  process, not of the machine.  `write_text` is a truncation and a write.
* In `Daemon` and `MemoryStore`, small files written whole in one step: the
  checkpoint goes through a temporary file of its own and a rename.
* In `Daemon`, the state a task starts with is taken to be JSON with text keys; so are the
  payloads of the events in `Ledger`.  Odd things a handler leaves
  come one of a kind per call, and each lasts to the end of the run: that a later handler
  removes it again is the case without it.
* In `Daemon`, the engine is the set of what was learned; that the jump-start atoms are
  registered again by each run is left out.  A save that is cut off leaves some
  part of the older atoms and, until a save has finished, of the newer ones.  `Twin` has the files behind this; that its loads are among
  the outcomes `Daemon` allows is argued, not checked.
* In `Bridge`, `start()` and `stop()` are one step each, a connection exists when its
  client first sends, a hang-up is a choice at the next answer, bytes after the last
  newline of a chunk arrive with a later one, and an append that raises (a full disk) is left out.
* In `Twin`, `promote_memskill` of the engine is `Learn` or, when its numerical test fails,
  nothing; utilities matter only as the order of pruning, so any order is allowed;
  names alone identify vectors, since the jump start's are seeded; a load reads the index
  and the vectors in one step.
* In `Ledger`, `_seq` and `_tip` are read together when `write_text` opens `tip.json`,
  where the code reads one after the other just before, and the last of several writers
  leaves its text whole, where two texts of different lengths may leave one that does not
  parse.  `TreeInv` asks of a number and a hash only that each is known to the file, not
  that they belong together, and a `tip.json` that does not parse is in the model for the
  kills, so the properties of shared logs do not depend on either.
* In `Promotion`, an atom is offered through the object it was created with; one atom
  offered through two objects is left out.
* In `Promotion`, a save of the registry is one step, as its race for
  `capabilities.tmp` is the one of `manifest.tmp` in `MemoryStore`.
* Payloads, timestamps, wording and the layout of files are left out, except where
  hashes are compared, and there the compared content is a value.
* Bounds: `MaxEntries`, `MaxFaults`, `MaxCrashes`, `MaxDamaged`, `MaxSent`, `MaxWork` and
  `MaxOverlap` are guards named in the modules; the theorems hold for every value of them.

## 7. Plan

Done, in this order: `AuditLog`, `Ledger`, `Daemon`, `EpisodeStore`,
`MemoryStore`, `Watchdog`, `Governance`, `LedgerLives`, `TaskAtoms`, `Promotion`, `Twin`,
`Shapes`, `Bridge`, with the proofs listed above.

Next:

1. The loads of `Twin` as a refinement of the outcomes `Daemon` allows.
2. That `Daemon` under its log of lines, `Ledger`, behaves as it does over the abstract one:
   `LedgerImplements` put under `Daemon`.
3. What is left of `PassIsFinal` and of the properties of runs for tasks that share a
   checkpoint file, and for calls without `resume`.
4. `Lifecycle` and `RouteSession`, if the two are ever used outside measurements.

## 8. Not modelled

* Memory lifecycle: a list in the memory of one object that is saved nowhere; no other
  component uses it, measurements and tests only.  What is current is a function of
  the list.
* BaNEL route protocol: a sequential experiment whose choices are draws by numerical
  weights; what a session restored by `load()` has lost (its random generator, dreams
  and failure counts) is visible only in its statistics.
* Model bridge: calls a local model; a handler that passes, fails or raises is what
  the daemon has of it.
* Dashboard: reads and renders.  Scripts: measurement and key handling.
* Physics, attestation, FHRR protocol, metrics, the vector algebra of the engine,
  `NeuroSymbolicBridge` and the similarity scores of `recall`: numerics over
  real numbers.
* Provenance log and offline boundary: a list saved after each addition, and a
  function that always raises.
* Ed25519: a package's signature is valid, invalid or a placeholder.
* Orchestrator with `fail_fast=False` and a watchdog with `fail_closed=False`: nothing in the
  repository uses the first; the second lets the run go on after a warning.

## 9. Running

```
tlc -config DaemonKilled.cfg MCDaemon
tlapm DaemonProofs.tla
```
