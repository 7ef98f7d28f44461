------------------------------ MODULE Promotion ------------------------------
(***************************************************************************)
(* From a finished task to a registered skill: a process rebuilds an       *)
(* episode from the atoms of a task, promote_memskill() checks it, makes a *)
(* package of it, and the CapabilityRegistry saves capabilities.json       *)
(* twice, with the capability and then with the skill.                     *)
(*                                                                         *)
(* Atoms, their files and the processes are those of TaskAtoms.  A process *)
(* also has one registry object, which reads capabilities.json once.  Each *)
(* save is a step: it renames capabilities.tmp over the file (the race of  *)
(* two writers for such a file is the one MemoryStore models).             *)
(***************************************************************************)
EXTENDS TaskAtoms

CONSTANTS
  Rogue,      \* capabilities whose entry asks for network access
  NoEpisode   \* no episode is at hand

\* An episode says what happened, in which order, and how it ended.
Event == [kind : Kinds, payload : Payloads]

Episodes == [task : Tasks, events : Seq(Event), status : {"open", "completed", "failed"}]

(***************************************************************************)
(* content_summary() holds the task, the status, which is "completed" when *)
(* it is promoted, and the events without their stamps; the skill id is a  *)
(* digest of it, so it stands for the content.                             *)
(***************************************************************************)
Skill == [task : Tasks, events : Seq(Event)]

SkillOf(e) == [task |-> e.task, events |-> e.events]

\* capabilities.json; cap_<skill id> is written as the skill itself.
Registry == [caps : SUBSET (Skill \cup Rogue), skills : SUBSET Skill]

VARIABLES
  file,      \* capabilities.json
  registry,  \* _caps and _skills of every registry object
  episode,   \* the episode a process rebuilt
  halfway    \* the capability of the episode is registered, its skill is not

promotionVars == <<file, registry, episode, halfway>>

vars == <<atomVars, promotionVars>>

Empty == [caps |-> {}, skills |-> {}]

TypeOK ==
  /\ AtomsTypeOK
  /\ file \in Registry
  /\ registry \in [Procs -> Registry]
  /\ episode \in [Procs -> Episodes \cup {NoEpisode}]
  /\ halfway \in [Procs -> BOOLEAN]

\* No file is there yet, or one into which somebody wrote an illegal entry.
Init ==
  /\ AtomsInit
  /\ file \in {Empty, [Empty EXCEPT !.caps = Rogue]}
  /\ registry = [p \in Procs |-> Empty]
  /\ episode = [p \in Procs |-> NoEpisode]
  /\ halfway = [p \in Procs |-> FALSE]
-----------------------------------------------------------------------------
\* The atoms of a task among the first n lines, in the order of the file.
Lines(n, k) == {i \in 1 .. n : lines[i].task = k}

StampsOf(n, k) == {lines[i].stamp : i \in Lines(n, k)}

\* The enumerations of a finite set of numbers in ascending order: there is one.
Ascending(S) ==
  LET n == Cardinality(S) IN
  {f \in [1 .. n -> S] : \A i, j \in 1 .. n : i < j => f[i] < f[j]}

AtomOf(s) == CHOOSE a \in {lines[i] : i \in 1 .. Len(lines)} : a.stamp = s

\* What content_summary() keeps of an atom.
Content(a) == [kind |-> a.kind, payload |-> a.payload]

Closing == {"completed", "failed"}

\* Faulty variant: a task that was completed once stays completed.
FromAtomsSticky(k, order) ==
  LET kinds == {AtomOf(order[i]).kind : i \in 1 .. Len(order)} IN
  [task |-> k,
   events |-> [i \in 1 .. Len(order) |-> Content(AtomOf(order[i]))],
   status |-> IF "completed" \in kinds THEN "completed"
              ELSE IF "failed" \in kinds THEN "failed" ELSE "open"]

\* Episode.from_atoms: the last completed or failed atom decides.
FromAtoms(k, order) ==
  LET closing == {i \in 1 .. Len(order) : AtomOf(order[i]).kind \in Closing} IN
  [task |-> k,
   events |-> [i \in 1 .. Len(order) |-> Content(AtomOf(order[i]))],
   status |-> IF closing = {} THEN "open"
              ELSE AtomOf(order[CHOOSE i \in closing : \A j \in closing : j <= i]).kind]

\* reconstruct_episode: the atoms of the task, sorted by stamp.
Reconstruct(k) == {FromAtoms(k, order) : order \in Ascending(StampsOf(Len(lines), k))}

\* validate_episode_for_promotion; title and description come out of payloads.
ValidEpisode(e) ==
  /\ e.status = "completed"
  /\ \E i \in 1 .. Len(e.events) : e.events[i].payload # NoPayload
-----------------------------------------------------------------------------
\* Faulty variant: the registry starts empty.
LoadNothing(f) == Empty

\* CapabilityRegistry._load skips the entries that ask for network access.
Load(f) == [f EXCEPT !.caps = @ \ Rogue]

Start(p) ==
  /\ Open(p)
  /\ registry' = [registry EXCEPT ![p] = Load(file)]
  /\ UNCHANGED <<file, episode, halfway>>

\* The process ends, or is killed, also between the two saves.
Stop(p) ==
  /\ Vanish(p)
  /\ registry' = [registry EXCEPT ![p] = Empty]
  /\ episode' = [episode EXCEPT ![p] = NoEpisode]
  /\ halfway' = [halfway EXCEPT ![p] = FALSE]
  /\ UNCHANGED file

\* A process does one thing at a time.
Free(p) == p \in running /\ stage[p] = "idle" /\ ~halfway[p]

\* KeyError for a task without atoms.
Rebuild(p, k) ==
  /\ Free(p)
  /\ Lines(Len(lines), k) # {}
  /\ \E e \in Reconstruct(k) : episode' = [episode EXCEPT ![p] = e]
  /\ UNCHANGED <<atomVars, file, registry, halfway>>

\* The episode is refused, cannot be signed, or is promoted without a registry.
Drop(p) ==
  /\ Free(p)
  /\ episode[p] # NoEpisode
  /\ episode' = [episode EXCEPT ![p] = NoEpisode]
  /\ UNCHANGED <<atomVars, file, registry, halfway>>

\* _save writes the object's registry over the file.
SaveRegistry(p, r) ==
  /\ registry' = [registry EXCEPT ![p] = r]
  /\ file' = r

\* Faulty variant: register_from_package saves the skill first.
RegisterCapabilitySwapped(p) ==
  /\ Free(p)
  /\ episode[p] # NoEpisode
  /\ ValidEpisode(episode[p])
  /\ SaveRegistry(p, [registry[p] EXCEPT !.skills = @ \cup {SkillOf(episode[p])}])
  /\ halfway' = [halfway EXCEPT ![p] = TRUE]
  /\ UNCHANGED <<atomVars, episode>>

\* promote_memskill, and the first save of register_from_package.
RegisterCapability(p) ==
  /\ Free(p)
  /\ episode[p] # NoEpisode
  /\ ValidEpisode(episode[p])
  /\ SaveRegistry(p, [registry[p] EXCEPT !.caps = @ \cup {SkillOf(episode[p])}])
  /\ halfway' = [halfway EXCEPT ![p] = TRUE]
  /\ UNCHANGED <<atomVars, episode>>

\* The second save; the package is returned.
RegisterSkill(p) ==
  /\ halfway[p]
  /\ SaveRegistry(p, [registry[p] EXCEPT !.skills = @ \cup {SkillOf(episode[p])}])
  /\ halfway' = [halfway EXCEPT ![p] = FALSE]
  /\ episode' = [episode EXCEPT ![p] = NoEpisode]
  /\ UNCHANGED atomVars

AtomStep(p) ==
  /\ ~halfway[p]
  /\ \/ \E s \in Stamps, r \in Reports : Create(p, s, r)
     \/ \E a \in held[p] : WriteAtom(p, a) \/ Refuse(p, a)
     \/ Appending(p)
  /\ UNCHANGED promotionVars

PromotionStep(p) ==
  \/ \E k \in Tasks : Rebuild(p, k)
  \/ Drop(p)
  \/ RegisterCapability(p)
  \/ RegisterSkill(p)

Next == \E p \in Procs : Start(p) \/ Stop(p) \/ AtomStep(p) \/ PromotionStep(p)

Spec == Init /\ [][Next]_vars
-----------------------------------------------------------------------------
(***************************************************************************)
(* The task of a capability or skill had a completed atom in the file when *)
(* it was promoted.  If the clock always moved forward, its content is the *)
(* history of the task up to some line, and the last word of that history  *)
(* was "completed": a task that failed since is never promoted as if it    *)
(* had not, and one that failed before may be.                             *)
(***************************************************************************)
ClockForward == \A i, j \in 1 .. Len(lines) : i < j => lines[i].stamp < lines[j].stamp

\* What the first n lines tell of a task, in the order of the file.
History(n, k) ==
  {[i \in 1 .. Len(at) |-> Content(lines[at[i]])] : at \in Ascending(Lines(n, k))}

EndsCompleted(h) ==
  \E i \in 1 .. Len(h) :
    /\ h[i].kind = "completed"
    /\ \A j \in i + 1 .. Len(h) : h[j].kind # "failed"

WasCompleted(s) ==
  /\ \E i \in 1 .. Len(lines) : lines[i].task = s.task /\ lines[i].kind = "completed"
  /\ ClockForward => /\ \E n \in 1 .. Len(lines) : s.events \in History(n, s.task)
                     /\ EndsCompleted(s.events)

RegisteredWasCompleted == \A s \in file.skills \cup (file.caps \ Rogue) : WasCompleted(s)

(***************************************************************************)
(* Whatever processes with stale copies save over each other, and wherever *)
(* they are killed: a registered skill has its capability, in the file and *)
(* in every copy, and no registry object ever holds an entry that asks for *)
(* network access.                                                         *)
(***************************************************************************)
RegistryIsSound ==
  /\ file.skills \subseteq file.caps
  /\ \A p \in Procs : /\ registry[p].skills \subseteq registry[p].caps
                      /\ registry[p].caps \cap Rogue = {}

(***************************************************************************)
(* One process at a time never loses a registration, across any number of  *)
(* ends, kills and starts, and no step brings an illegal entry back.       *)
(***************************************************************************)
RegistrationsAreKept ==
  [][/\ exclusive => /\ file.caps \ Rogue \subseteq file'.caps
                     /\ file.skills \subseteq file'.skills
     /\ file'.caps \cap Rogue \subseteq file.caps]_vars
=============================================================================
