------------------------------ MODULE TaskAtoms ------------------------------
(***************************************************************************)
(* EpisodicMemoryLedger: immutable TaskAtoms in a hash-chained file        *)
(* (atoms.jsonl) with a side file (tip.json) that counts them and names    *)
(* the last one, and episodes rebuilt from the file.                       *)
(*                                                                         *)
(* Every process has one ledger object.  It reads tip.json when it is      *)
(* constructed and keeps the tip; create() links a new atom to that tip,   *)
(* append() accepts an atom only while the tip is the one the atom was     *)
(* linked to.  A process may hold atoms for a while, and offer one twice.  *)
(*                                                                         *)
(* An atom carries the wall-clock time and a random id; an episode is      *)
(* sorted by that pair.  The clock may stand still or be turned back, so   *)
(* the pair is an arbitrary unique number, the atom's stamp.               *)
(***************************************************************************)
EXTENDS Naturals, Sequences, FiniteSets

CONSTANTS
  Procs,          \* processes with an EpisodicMemoryLedger
  Tasks,          \* task ids
  Kinds,          \* event types
  Payloads,       \* payloads of atoms
  NoPayload,      \* the empty payload
  Reports,        \* what processes have to say: task, event type and payload
  Stamps,         \* (timestamp, atom_id) of an atom, in the order of the sort
  Hash,           \* SHA-256 digests
  AtomHash(_, _), \* digest of an atom's body linked to a previous hash
  GENESIS,        \* the hash before the first atom
  NoAtom,         \* no atom is being appended
  MaxOverlap      \* bound on the stamps where processes overlap

ASSUME StampAssumption == Stamps \subseteq Nat
ASSUME GenesisAssumption == GENESIS \in Hash
ASSUME OverlapAssumption == MaxOverlap \in Nat
ASSUME NoPayloadAssumption == NoPayload \in Payloads
ASSUME ReportAssumption == Reports \subseteq [task : Tasks, kind : Kinds, payload : Payloads]

Body == [stamp : Stamps, task : Tasks, kind : Kinds, payload : Payloads]

Atom == [stamp : Stamps, task : Tasks, kind : Kinds, payload : Payloads,
         prev : Hash, hash : Hash]

NewBody(s, r) == [stamp |-> s, task |-> r.task, kind |-> r.kind, payload |-> r.payload]

BodyOf(a) == [stamp |-> a.stamp, task |-> a.task, kind |-> a.kind, payload |-> a.payload]

\* TaskAtom.__post_init__: the hash covers the body and the previous hash.
Seal(prev, b) ==
  [stamp |-> b.stamp, task |-> b.task, kind |-> b.kind, payload |-> b.payload,
   prev |-> prev, hash |-> AtomHash(prev, b)]

Tip == [hash : Hash, count : Nat]

Fresh == [hash |-> GENESIS, count |-> 0]

TipFile(t) == [kind |-> "tip", tip |-> t]

Missing == [kind |-> "missing", tip |-> Fresh]

Torn == [kind |-> "torn", tip |-> Fresh]
-----------------------------------------------------------------------------
VARIABLES
  exclusive, \* the workspace belongs to one process at a time
  lines,     \* atoms.jsonl
  tipFile,   \* tip.json
  noted,     \* the stamps of the task_atom entries in the audit log
  running,   \* the processes that exist
  tip,       \* _tip and _count of every ledger object
  held,      \* the atoms a process created and may still offer
  stage,     \* how far append() is
  sealed     \* the atom append() is recording

fileVars == <<lines, tipFile, noted>>

atomVars == <<exclusive, lines, tipFile, noted, running, tip, held, stage, sealed>>

Stages == {"idle", "written", "truncated", "synced"}

AtomsTypeOK ==
  /\ exclusive \in BOOLEAN
  /\ lines \in Seq(Atom)
  /\ tipFile \in [kind : {"tip", "missing", "torn"}, tip : Tip]
  /\ noted \in Seq(Stamps)
  /\ running \in SUBSET Procs
  /\ tip \in [Procs -> Tip]
  /\ held \in [Procs -> SUBSET Atom]
  /\ stage \in [Procs -> Stages]
  /\ sealed \in [Procs -> Atom \cup {NoAtom}]

AtomsInit ==
  /\ exclusive \in BOOLEAN
  /\ lines = <<>>
  /\ tipFile = Missing
  /\ noted = <<>>
  /\ running = {}
  /\ tip = [p \in Procs |-> Fresh]
  /\ held = [p \in Procs |-> {}]
  /\ stage = [p \in Procs |-> "idle"]
  /\ sealed = [p \in Procs |-> NoAtom]
-----------------------------------------------------------------------------
\* EpisodicMemoryLedger.__init__; json.loads raises on a truncated tip.json.
Open(p) ==
  /\ p \notin running
  /\ exclusive => running = {}
  /\ tipFile.kind # "torn"
  /\ running' = running \cup {p}
  /\ tip' = [tip EXCEPT ![p] = tipFile.tip]
  /\ UNCHANGED <<exclusive, fileVars, held, stage, sealed>>

\* The process is gone, at the end of its work or killed inside a call.
Vanish(p) ==
  /\ p \in running
  /\ running' = running \ {p}
  /\ tip' = [tip EXCEPT ![p] = Fresh]
  /\ held' = [held EXCEPT ![p] = {}]
  /\ stage' = [stage EXCEPT ![p] = "idle"]
  /\ sealed' = [sealed EXCEPT ![p] = NoAtom]
  /\ UNCHANGED <<exclusive, fileVars>>

\* TaskAtom.create() with the ledger's tip as prev_atom_hash; the id is new.
Create(p, s, r) ==
  /\ p \in running
  /\ stage[p] = "idle"
  /\ exclusive \/ s <= MaxOverlap
  /\ \A i \in 1 .. Len(lines) : lines[i].stamp # s
  /\ \A q \in Procs : \A a \in held[q] : a.stamp # s
  /\ held' = [held EXCEPT ![p] = @ \cup {Seal(tip[p].hash, NewBody(s, r))}]
  /\ UNCHANGED <<exclusive, fileVars, running, tip, stage, sealed>>

\* Faulty variant: prev_atom_hash is not compared, only replaced.
WriteAtomUnchecked(p, a) ==
  /\ p \in running
  /\ stage[p] = "idle"
  /\ a \in held[p]
  /\ sealed' = [sealed EXCEPT ![p] = Seal(tip[p].hash, BodyOf(a))]
  /\ lines' = Append(lines, sealed'[p])
  /\ tip' = [tip EXCEPT ![p] = [hash |-> sealed'[p].hash, count |-> @.count + 1]]
  /\ stage' = [stage EXCEPT ![p] = "written"]
  /\ UNCHANGED <<exclusive, tipFile, noted, running, held>>

\* Faulty variant: the line holds the body without link and hash.
WriteAtomBare(p, a) ==
  /\ p \in running
  /\ stage[p] = "idle"
  /\ a \in held[p]
  /\ a.prev = tip[p].hash
  /\ sealed' = [sealed EXCEPT ![p] = Seal(tip[p].hash, BodyOf(a))]
  /\ lines' = Append(lines, BodyOf(a))
  /\ tip' = [tip EXCEPT ![p] = [hash |-> sealed'[p].hash, count |-> @.count + 1]]
  /\ stage' = [stage EXCEPT ![p] = "written"]
  /\ UNCHANGED <<exclusive, tipFile, noted, running, held>>

(***************************************************************************)
(* append(): the atom must be linked to the tip; it is sealed once more,   *)
(* its line is written, and the object's tip moves on.                     *)
(***************************************************************************)
WriteAtom(p, a) ==
  /\ p \in running
  /\ stage[p] = "idle"
  /\ a \in held[p]
  /\ a.prev = tip[p].hash
  /\ sealed' = [sealed EXCEPT ![p] = Seal(tip[p].hash, BodyOf(a))]
  /\ lines' = Append(lines, sealed'[p])
  /\ tip' = [tip EXCEPT ![p] = [hash |-> sealed'[p].hash, count |-> @.count + 1]]
  /\ stage' = [stage EXCEPT ![p] = "written"]
  /\ UNCHANGED <<exclusive, tipFile, noted, running, held>>

\* Faulty variant: the audit log is told of the refused atom as well.
RefuseNoted(p, a) ==
  /\ p \in running
  /\ stage[p] = "idle"
  /\ a \in held[p]
  /\ a.prev # tip[p].hash
  /\ held' = [held EXCEPT ![p] = @ \ {a}]
  /\ noted' = Append(noted, a.stamp)
  /\ UNCHANGED <<exclusive, lines, tipFile, running, tip, stage, sealed>>

\* An atom linked to another tip: ValueError; its owner gives it up.
Refuse(p, a) ==
  /\ p \in running
  /\ stage[p] = "idle"
  /\ a \in held[p]
  /\ a.prev # tip[p].hash
  /\ held' = [held EXCEPT ![p] = @ \ {a}]
  /\ UNCHANGED <<exclusive, fileVars, running, tip, stage, sealed>>

\* write_text opens tip.json, which truncates it.
TruncateTip(p) ==
  /\ stage[p] = "written"
  /\ tipFile' = Torn
  /\ stage' = [stage EXCEPT ![p] = "truncated"]
  /\ UNCHANGED <<exclusive, lines, noted, running, tip, held, sealed>>

\* Faulty variant: the text lacks the count, which reads as zero.
FillTipUncounted(p) ==
  /\ stage[p] = "truncated"
  /\ tipFile' = TipFile([tip[p] EXCEPT !.count = 0])
  /\ stage' = [stage EXCEPT ![p] = "synced"]
  /\ UNCHANGED <<exclusive, lines, noted, running, tip, held, sealed>>

\* ... and writes the new tip.
FillTip(p) ==
  /\ stage[p] = "truncated"
  /\ tipFile' = TipFile(tip[p])
  /\ stage' = [stage EXCEPT ![p] = "synced"]
  /\ UNCHANGED <<exclusive, lines, noted, running, tip, held, sealed>>

EndAppend(p) ==
  /\ stage' = [stage EXCEPT ![p] = "idle"]
  /\ sealed' = [sealed EXCEPT ![p] = NoAtom]
  /\ UNCHANGED <<exclusive, lines, tipFile, running, tip, held>>

\* self.audit.append("task_atom", ...)
NoteAtom(p) ==
  /\ stage[p] = "synced"
  /\ noted' = Append(noted, sealed[p].stamp)
  /\ EndAppend(p)

\* Without an audit log, or when it raises: the atom stays.
SkipNote(p) ==
  /\ stage[p] = "synced"
  /\ UNCHANGED noted
  /\ EndAppend(p)

Appending(p) ==
  \/ TruncateTip(p)
  \/ FillTip(p)
  \/ NoteAtom(p)
  \/ SkipNote(p)
-----------------------------------------------------------------------------
HashBefore(i) == IF i = 1 THEN GENESIS ELSE lines[i - 1].hash

\* The walk of verify_chain over the file.
WalkOk ==
  \A i \in 1 .. Len(lines) :
    /\ lines[i].prev = HashBefore(i)
    /\ lines[i].hash = AtomHash(lines[i].prev, BodyOf(lines[i]))

\* Unlike the audit ledger, verify_chain also compares the count.
TipMatches(t) ==
  /\ t.count = Len(lines)
  /\ Len(lines) > 0 => lines[Len(lines)].hash = t.hash

\* verify_chain()["ok"] of a process that starts now.
Reopens == tipFile.kind # "torn" /\ WalkOk /\ TipMatches(tipFile.tip)
-----------------------------------------------------------------------------
(***************************************************************************)
(* An atom is immutable: its line is the atom as its creator holds it,     *)
(* link and hash included, although append() seals it again; and it is     *)
(* recorded at most once, however often it is offered.  The comparison     *)
(* with the tip is what makes this so, in every interleaving of processes  *)
(* and kills.                                                              *)
(***************************************************************************)
AtomsAreImmutable ==
  /\ \A p \in Procs : \A a \in held[p], i \in 1 .. Len(lines) :
       lines[i].stamp = a.stamp => lines[i] = a
  /\ \A i, j \in 1 .. Len(lines) : lines[i].stamp = lines[j].stamp => i = j

(***************************************************************************)
(* The audit log may miss an atom, since its entry is best effort, but it  *)
(* never tells of one that is not in the file, tells of none twice, and    *)
(* one process at a time tells of them in the order of the chain.          *)
(***************************************************************************)
AuditTellsTheAtoms ==
  LET Line(n) == {i \in 1 .. Len(lines) : lines[i].stamp = noted[n]} IN
  \A m, n \in 1 .. Len(noted) :
    /\ Line(n) # {}
    /\ m < n => noted[m] # noted[n]
    /\ exclusive /\ m < n => \A i \in Line(m), j \in Line(n) : i < j

(***************************************************************************)
(* The refinement mapping to the abstract audit log, which is about one    *)
(* process at a time; processes that overlap are mapped to an empty log.   *)
(***************************************************************************)
InWindow == {p \in Procs : stage[p] \in {"written", "truncated"}}

Recorded == IF exclusive THEN [i \in 1 .. Len(lines) |-> lines[i].stamp] ELSE <<>>

Status ==
  IF ~exclusive THEN "intact"
  ELSE IF ~WalkOk \/ (InWindow = {} /\ ~Reopens) THEN "broken"
  ELSE IF InWindow # {} THEN "unsynced"
  ELSE "intact"

Chain == INSTANCE AuditLog WITH Events <- Stamps, entries <- Recorded, status <- Status

(***************************************************************************)
(* One process at a time, killed at any step: the atom store promises what *)
(* the audit ledger promises.  Every append is one entry, verify_chain     *)
(* accepts the file between calls, count included, and only a death        *)
(* between the line and the end of the tip.json write breaks it, for good. *)
(***************************************************************************)
AtomsImplementAuditLog == Chain!AuditSpec
=============================================================================
