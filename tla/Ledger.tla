------------------------------- MODULE Ledger -------------------------------
(***************************************************************************)
(* CleanRoomLedger: a hash-chained JSONL file (ledger.jsonl) with a side   *)
(* file (tip.json) that names its last entry.                              *)
(*                                                                         *)
(* A handle is one CleanRoomLedger object: it caches the sequence number   *)
(* and the hash of the last entry (_seq, _tip), reads them from tip.json   *)
(* when it is constructed and never again.  A thread runs append() on a    *)
(* handle; the threads of one handle (the clients of the Godot bridge)     *)
(* share its cache without a lock, the handles of several processes share  *)
(* only the two files.  append() is split at every point where another     *)
(* thread, or a crash, can see its work half done.                         *)
(*                                                                         *)
(* Each write or rename system call is taken to be all or nothing: a crash *)
(* is the death of the process, not of the machine.                        *)
(***************************************************************************)
EXTENDS Naturals, Sequences, FiniteSets

CONSTANTS
  Handles,            \* CleanRoomLedger objects over one audit directory
  Threads,            \* callers of append()
  HandleOf,           \* the handle a thread appends through
  Events,             \* event_type and payload of an entry
  NoEvent,            \* the event of an entry nobody has begun
  Hash,               \* SHA-256 digests
  EntryHash(_, _),    \* digest of a previous hash and a body
  GENESIS,            \* the hash before the first entry
  MaxEntries          \* bound on the lines of ledger.jsonl

ASSUME HandleAssumption == HandleOf \in [Threads -> Handles]
ASSUME GenesisAssumption == GENESIS \in Hash
ASSUME BoundAssumption == MaxEntries \in Nat

(***************************************************************************)
(* An entry without its entry_hash (the hashed body), and a sealed entry.  *)
(***************************************************************************)
Body == [seq : Nat, event : Events, prev : Hash]

Draft == [seq : Nat, event : Events \cup {NoEvent}, prev : Hash, hash : Hash]

Entry == [seq : Nat, event : Events, prev : Hash, hash : Hash]

BodyOf(e) == [seq |-> e.seq, event |-> e.event, prev |-> e.prev]

Seal(prev, b) ==
  [seq |-> b.seq, event |-> b.event, prev |-> b.prev, hash |-> EntryHash(prev, b)]

Tip == [seq : Nat, hash : Hash]

Fresh == [seq |-> 0, hash |-> GENESIS]

(***************************************************************************)
(* tip.json holds a tip, is missing (a new directory), or was truncated by *)
(* an unfinished write_text.                                               *)
(***************************************************************************)
TipFile(t) == [kind |-> "tip", tip |-> t]

Missing == [kind |-> "missing", tip |-> Fresh]

Torn == [kind |-> "torn", tip |-> Fresh]
-----------------------------------------------------------------------------
VARIABLES
  log,       \* ledger.jsonl: the sealed entries, one per line
  tipFile,   \* tip.json
  cache,     \* _seq and _tip of every open handle
  open,      \* the handles whose object exists
  pc,        \* how far a thread is in append()
  draft,     \* the entry the thread is building
  pending    \* the text the thread is about to write into tip.json

vars == <<log, tipFile, cache, open, pc, draft, pending>>

Stages == {"idle", "numbered", "linked", "sealed", "written", "counted",
           "published", "truncated"}

NoDraft == [seq |-> 0, event |-> NoEvent, prev |-> GENESIS, hash |-> GENESIS]

TypeOK ==
  /\ log \in Seq(Entry)
  /\ tipFile \in [kind : {"tip", "missing", "torn"}, tip : Tip]
  /\ cache \in [Handles -> Tip]
  /\ open \in SUBSET Handles
  /\ pc \in [Threads -> Stages]
  /\ draft \in [Threads -> Draft]
  /\ pending \in [Threads -> Tip]

\* A new audit directory, before any process constructed a ledger on it.
Init ==
  /\ log = <<>>
  /\ tipFile = Missing
  /\ cache = [h \in Handles |-> Fresh]
  /\ open = {}
  /\ pc = [t \in Threads |-> "idle"]
  /\ draft = [t \in Threads |-> NoDraft]
  /\ pending = [t \in Threads |-> Fresh]
-----------------------------------------------------------------------------
\* Faulty variant: the constructor does not read tip.json.
OpenForgetful(h) ==
  /\ h \notin open
  /\ tipFile.kind # "torn"
  /\ open' = open \cup {h}
  /\ cache' = [cache EXCEPT ![h] = Fresh]
  /\ UNCHANGED <<log, tipFile, pc, draft, pending>>

(***************************************************************************)
(* CleanRoomLedger.__init__: with no tip.json the ledger starts at genesis *)
(* even when ledger.jsonl has lines; a truncated tip.json makes json.loads *)
(* raise, so no handle can be constructed.                                 *)
(***************************************************************************)
OpenHandle(h) ==
  /\ h \notin open
  /\ tipFile.kind # "torn"
  /\ open' = open \cup {h}
  /\ cache' = [cache EXCEPT ![h] = tipFile.tip]
  /\ UNCHANGED <<log, tipFile, pc, draft, pending>>

InFlight(h) == {t \in Threads : HandleOf[t] = h /\ pc[t] # "idle"}

\* The process that owns h ends between two calls.
CloseHandle(h) ==
  /\ h \in open
  /\ InFlight(h) = {}
  /\ open' = open \ {h}
  /\ cache' = [cache EXCEPT ![h] = Fresh]
  /\ UNCHANGED <<log, tipFile, pc, draft, pending>>

\* The process that owns h is killed, with the appends of its threads.
Crash(h) ==
  /\ h \in open
  /\ open' = open \ {h}
  /\ cache' = [cache EXCEPT ![h] = Fresh]
  /\ pc' = [t \in Threads |-> IF HandleOf[t] = h THEN "idle" ELSE pc[t]]
  /\ draft' = [t \in Threads |-> IF HandleOf[t] = h THEN NoDraft ELSE draft[t]]
  /\ pending' = [t \in Threads |-> IF HandleOf[t] = h THEN Fresh ELSE pending[t]]
  /\ UNCHANGED <<log, tipFile>>

\* Appends that have not written their line yet.
Unwritten == {t \in Threads : pc[t] \in {"numbered", "linked", "sealed"}}

\* Faulty variant: the cached number is advanced before the line exists.
NumberEager(t, e) ==
  /\ pc[t] = "idle"
  /\ HandleOf[t] \in open
  /\ Len(log) + Cardinality(Unwritten) < MaxEntries
  /\ pc' = [pc EXCEPT ![t] = "numbered"]
  /\ draft' = [draft EXCEPT ![t] = [NoDraft EXCEPT !.seq = cache[HandleOf[t]].seq + 1,
                                                   !.event = e]]
  /\ cache' = [cache EXCEPT ![HandleOf[t]].seq = @ + 1]
  /\ UNCHANGED <<log, tipFile, open, pending>>

\* append(): the body's seq is read from the cache.
Number(t, e) ==
  /\ pc[t] = "idle"
  /\ HandleOf[t] \in open
  /\ Len(log) + Cardinality(Unwritten) < MaxEntries
  /\ pc' = [pc EXCEPT ![t] = "numbered"]
  /\ draft' = [draft EXCEPT ![t] = [NoDraft EXCEPT !.seq = cache[HandleOf[t]].seq + 1,
                                                   !.event = e]]
  /\ UNCHANGED <<log, tipFile, cache, open, pending>>

\* The body's prev_hash is read from the cache.
Link(t) ==
  /\ pc[t] = "numbered"
  /\ pc' = [pc EXCEPT ![t] = "linked"]
  /\ draft' = [draft EXCEPT ![t].prev = cache[HandleOf[t]].hash]
  /\ UNCHANGED <<log, tipFile, cache, open, pending>>

\* Faulty variant: the new tip is published before its line is written.
SealEager(t) ==
  /\ pc[t] = "linked"
  /\ pc' = [pc EXCEPT ![t] = "sealed"]
  /\ draft' = [draft EXCEPT ![t] = Seal(cache[HandleOf[t]].hash, BodyOf(draft[t]))]
  /\ cache' = [cache EXCEPT ![HandleOf[t]].hash = draft'[t].hash]
  /\ UNCHANGED <<log, tipFile, open, pending>>

\* The digest is taken of the body and of the cached tip, read once more.
SealEntry(t) ==
  /\ pc[t] = "linked"
  /\ pc' = [pc EXCEPT ![t] = "sealed"]
  /\ draft' = [draft EXCEPT ![t] = Seal(cache[HandleOf[t]].hash, BodyOf(draft[t]))]
  /\ UNCHANGED <<log, tipFile, cache, open, pending>>

\* The line is appended to ledger.jsonl.
WriteLine(t) ==
  /\ pc[t] = "sealed"
  /\ pc' = [pc EXCEPT ![t] = "written"]
  /\ log' = Append(log, draft[t])
  /\ UNCHANGED <<tipFile, cache, open, draft, pending>>

\* Faulty variant: the cached number is not advanced.
PublishSeqSkipped(t) ==
  /\ pc[t] = "written"
  /\ pc' = [pc EXCEPT ![t] = "counted"]
  /\ UNCHANGED <<log, tipFile, cache, open, draft, pending>>

\* self._seq = entry.seq
PublishSeq(t) ==
  /\ pc[t] = "written"
  /\ pc' = [pc EXCEPT ![t] = "counted"]
  /\ cache' = [cache EXCEPT ![HandleOf[t]].seq = draft[t].seq]
  /\ UNCHANGED <<log, tipFile, open, draft, pending>>

\* self._tip = entry.entry_hash
PublishTip(t) ==
  /\ pc[t] = "counted"
  /\ pc' = [pc EXCEPT ![t] = "published"]
  /\ cache' = [cache EXCEPT ![HandleOf[t]].hash = draft[t].hash]
  /\ UNCHANGED <<log, tipFile, open, draft, pending>>

\* write_text formats the cached tip and opens tip.json for writing, which
\* truncates it.
TruncateTip(t) ==
  /\ pc[t] = "published"
  /\ pc' = [pc EXCEPT ![t] = "truncated"]
  /\ pending' = [pending EXCEPT ![t] = cache[HandleOf[t]]]
  /\ tipFile' = Torn
  /\ UNCHANGED <<log, cache, open, draft>>

\* Faulty variant: the file is left truncated.
FillTipSkipped(t) ==
  /\ pc[t] = "truncated"
  /\ pc' = [pc EXCEPT ![t] = "idle"]
  /\ draft' = [draft EXCEPT ![t] = NoDraft]
  /\ pending' = [pending EXCEPT ![t] = Fresh]
  /\ UNCHANGED <<log, tipFile, cache, open>>

\* write_text writes the text and append() returns the sealed entry.
FillTip(t) ==
  /\ pc[t] = "truncated"
  /\ pc' = [pc EXCEPT ![t] = "idle"]
  /\ tipFile' = TipFile(pending[t])
  /\ draft' = [draft EXCEPT ![t] = NoDraft]
  /\ pending' = [pending EXCEPT ![t] = Fresh]
  /\ UNCHANGED <<log, cache, open>>

AppendStep(t) ==
  \/ \E e \in Events : Number(t, e)
  \/ Link(t)
  \/ SealEntry(t)
  \/ WriteLine(t)
  \/ PublishSeq(t)
  \/ PublishTip(t)
  \/ TruncateTip(t)
  \/ FillTip(t)
-----------------------------------------------------------------------------
(***************************************************************************)
(* Three environments.  In Serial the workspace belongs to one process at  *)
(* a time; in Orderly nothing keeps the appends of threads and processes   *)
(* apart; neither kills a process, Next does, at any step.                 *)
(***************************************************************************)
Serial ==
  \/ open = {} /\ \E h \in Handles : OpenHandle(h)
  \/ \E h \in Handles : CloseHandle(h)
  \/ \E t \in Threads : AppendStep(t)

Orderly ==
  \/ \E h \in Handles : OpenHandle(h) \/ CloseHandle(h)
  \/ \E t \in Threads : AppendStep(t)

Killed == \E h \in Handles : Crash(h)

Next == Orderly \/ Killed

OrderlySpec == Init /\ [][Orderly]_vars

Spec == Init /\ [][Next]_vars
-----------------------------------------------------------------------------
\* The hash the i-th line must carry as prev_hash.
HashBefore(i) == IF i = 1 THEN GENESIS ELSE log[i - 1].hash

\* The walk of verify_chain over the file finds nothing wrong.
WalkOk ==
  \A i \in 1 .. Len(log) :
    /\ log[i].prev = HashBefore(i)
    /\ log[i].hash = EntryHash(log[i].prev, BodyOf(log[i]))
    /\ log[i].seq = i

\* verify_chain compares the last line with the tip, and only when there is
\* a line; a different count alone is not an error.
TipMatches(tip) == Len(log) > 0 => log[Len(log)].hash = tip.hash

\* verify_chain()["ok"] on handle h.
VerifyChain(h) == WalkOk /\ TipMatches(cache[h])

\* A process starting now constructs a handle, and that handle verifies.
Reopens == tipFile.kind # "torn" /\ TipMatches(tipFile.tip)
-----------------------------------------------------------------------------
(***************************************************************************)
(* A process that has the workspace to itself never finds its own log in   *)
(* error: whenever no append is running, verify_chain accepts it (the      *)
(* check run_task starts with), across any number of exits and starts.     *)
(***************************************************************************)
VerifiesBetweenCalls ==
  \A h \in open : InFlight(h) = {} => VerifyChain(h)

(***************************************************************************)
(* Between calls tip.json names the last line, its number and its hash, so *)
(* the handle of the next process continues the chain where it ends.       *)
(***************************************************************************)
NextProcessContinues ==
  (\A t \in Threads : pc[t] = "idle") =>
    /\ Reopens
    /\ tipFile.tip.seq = Len(log)

Digests(n) == {GENESIS} \cup {log[i].hash : i \in 1 .. n}

(***************************************************************************)
(* Whatever the threads, processes and crashes do, the lines form a tree:  *)
(* every line, every cached tip and tip.json hang off genesis or off a     *)
(* line that is already in the file.  append() publishes a hash only after *)
(* the line that carries it was written.                                   *)
(***************************************************************************)
ParentOnDisk ==
  /\ \A i \in 1 .. Len(log) : log[i].prev \in Digests(i - 1)
  /\ \A h \in Handles : cache[h].hash \in Digests(Len(log))
  /\ tipFile.tip.hash \in Digests(Len(log))

(***************************************************************************)
(* Whatever the threads, processes and crashes do, sequence numbers are    *)
(* reused at worst: a line's number never exceeds its position, and no     *)
(* cached or stored tip counts more lines than the file has.               *)
(***************************************************************************)
SeqNeverAhead ==
  /\ \A i \in 1 .. Len(log) : log[i].seq \in 1 .. i
  /\ \A h \in Handles : cache[h].seq <= Len(log)
  /\ tipFile.tip.seq <= Len(log)

(***************************************************************************)
(* The refinement mapping to the abstract audit log.                       *)
(***************************************************************************)
InWindow == {t \in Threads : pc[t] \in {"written", "counted", "published", "truncated"}}

Recorded == [i \in 1 .. Len(log) |-> log[i].event]

Status ==
  IF ~WalkOk \/ (InWindow = {} /\ ~Reopens) THEN "broken"
  ELSE IF InWindow # {} THEN "unsynced"
  ELSE "intact"

Audit == INSTANCE AuditLog WITH entries <- Recorded, status <- Status

(***************************************************************************)
(* One process at a time, killed at any step: the log is the abstract      *)
(* audit log.  Only a death between the line and the end of the tip.json   *)
(* write breaks it, and nothing the code does later mends it.              *)
(***************************************************************************)
ImplementsAuditLog == Audit!AuditSpec

(***************************************************************************)
(* What the module's header says of the log in every environment: "Append- *)
(* only JSONL ledger with SHA-256 hash chain".                             *)
(***************************************************************************)
HashChain == WalkOk
=============================================================================
