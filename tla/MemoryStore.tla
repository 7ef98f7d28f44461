----------------------------- MODULE MemoryStore -----------------------------
(***************************************************************************)
(* EpisodicMemoryStore: one vector file per episode or bundle, and a       *)
(* manifest that lists them.  A store object reads manifest.json when it   *)
(* is constructed, changes its own copy of it, and writes the copy back    *)
(* through manifest.tmp and a rename.                                      *)
(*                                                                         *)
(* A store belongs to a process: a bridge, whose client threads share it   *)
(* without a lock, a daemon, or the command line.  remember() is split     *)
(* where another thread, another process or a kill can see it half done;   *)
(* so is the write of manifest.tmp, a name all stores of a workspace       *)
(* share: two writers may have the same file open, and the rename of one   *)
(* takes the file away from the other.                                     *)
(***************************************************************************)
EXTENDS Naturals, FiniteSets

CONSTANTS
  Stores,    \* EpisodicMemoryStore objects over one directory
  Threads,   \* callers of remember() and bundle_episodes()
  StoreOf,   \* the store a thread calls
  Noting,    \* the threads that write a ledger entry after remember()
  Ids,       \* episode and bundle ids
  NoId,      \* the id of a thread outside a call
  Inodes,    \* files that are or were manifest.tmp or manifest.json
  NoFile     \* a name without a file

ASSUME StoreAssumption == StoreOf \in [Threads -> Stores]
ASSUME NotingAssumption == Noting \subseteq Threads
ASSUME NoIdAssumption == NoId \notin Ids
ASSUME NoFileAssumption == NoFile \notin Inodes

(***************************************************************************)
(* The text in a file: the manifest that lists ids, nothing yet, or a text *)
(* with the tail of a longer one behind it, which does not parse.          *)
(***************************************************************************)
Text == [kind : {"empty", "whole", "mixed"}, ids : SUBSET Ids]

Empty == [kind |-> "empty", ids |-> {}]

Mixed == [kind |-> "mixed", ids |-> {}]

Whole(ids) == [kind |-> "whole", ids |-> ids]

VARIABLES
  vectors,   \* the ids with a vector file
  members,   \* the ids a bundle was made of, {} for an episode
  content,   \* what is in the files
  tmp,       \* the file called manifest.tmp
  manifest,  \* the file called manifest.json
  open,      \* the stores whose object exists
  cache,     \* self.manifest of every open store
  pc,        \* how far a thread is
  job,       \* the id it stores
  text,      \* the dumped manifest
  fd,        \* the file it has open
  answered,  \* the ids an open store returned
  noted,     \* the episodes with a ledger entry
  serial     \* one process and one call at a time, in this behaviour

vars == <<vectors, members, content, tmp, manifest, open, cache, pc, job, text, fd,
          answered, noted, serial>>

files == <<vectors, members, content, tmp, manifest>>

locals == <<job, text, fd>>

Stages == {"idle", "saved", "listed", "dumped", "opened", "written", "stored"}

TypeOK ==
  /\ vectors \in SUBSET Ids
  /\ members \in [Ids -> SUBSET Ids]
  /\ content \in [Inodes -> Text]
  /\ tmp \in Inodes \cup {NoFile}
  /\ manifest \in Inodes \cup {NoFile}
  /\ open \in SUBSET Stores
  /\ cache \in [Stores -> SUBSET Ids]
  /\ pc \in [Threads -> Stages]
  /\ job \in [Threads -> Ids \cup {NoId}]
  /\ text \in [Threads -> SUBSET Ids]
  /\ fd \in [Threads -> Inodes \cup {NoFile}]
  /\ answered \in [Stores -> SUBSET Ids]
  /\ noted \in SUBSET Ids
  /\ serial \in BOOLEAN

Init ==
  /\ vectors = {}
  /\ members = [i \in Ids |-> {}]
  /\ content = [n \in Inodes |-> Empty]
  /\ tmp = NoFile
  /\ manifest = NoFile
  /\ open = {}
  /\ cache = [s \in Stores |-> {}]
  /\ pc = [t \in Threads |-> "idle"]
  /\ job = [t \in Threads |-> NoId]
  /\ text = [t \in Threads |-> {}]
  /\ fd = [t \in Threads |-> NoFile]
  /\ answered = [s \in Stores |-> {}]
  /\ noted = {}
  /\ serial \in BOOLEAN
-----------------------------------------------------------------------------
\* A process that starts now can read manifest.json, or there is none.
Readable == manifest # NoFile => content[manifest].kind = "whole"

Listed == IF manifest = NoFile THEN {} ELSE content[manifest].ids

\* The constructor; json.loads raises on a manifest that does not parse.
OpenStore(s) ==
  /\ s \notin open
  /\ serial => open = {}
  /\ Readable
  /\ open' = open \cup {s}
  /\ cache' = [cache EXCEPT ![s] = Listed]
  /\ UNCHANGED <<files, pc, locals, answered, noted, serial>>

Busy(s) == {t \in Threads : StoreOf[t] = s /\ pc[t] # "idle"}

\* What is left of the memory of a process that is gone.
Forget(s) ==
  /\ open' = open \ {s}
  /\ cache' = [cache EXCEPT ![s] = {}]
  /\ answered' = [answered EXCEPT ![s] = {}]
  /\ pc' = [t \in Threads |-> IF StoreOf[t] = s THEN "idle" ELSE pc[t]]
  /\ job' = [t \in Threads |-> IF StoreOf[t] = s THEN NoId ELSE job[t]]
  /\ text' = [t \in Threads |-> IF StoreOf[t] = s THEN {} ELSE text[t]]
  /\ fd' = [t \in Threads |-> IF StoreOf[t] = s THEN NoFile ELSE fd[t]]
  /\ UNCHANGED <<files, noted, serial>>

\* The process ends between two calls.
CloseStore(s) ==
  /\ s \in open
  /\ Busy(s) = {}
  /\ Forget(s)

\* The process is killed.
Crash(s) ==
  /\ s \in open
  /\ Forget(s)

MayCall(t) == serial => \A u \in Threads : pc[u] = "idle"

\* remember(): the vector is saved under an id of its own (it hashes the
\* content and the time in nanoseconds).
Remember(t, id) ==
  /\ pc[t] = "idle"
  /\ StoreOf[t] \in open
  /\ MayCall(t)
  /\ id \notin vectors
  /\ vectors' = vectors \cup {id}
  /\ job' = [job EXCEPT ![t] = id]
  /\ pc' = [pc EXCEPT ![t] = "saved"]
  /\ UNCHANGED <<members, content, tmp, manifest, open, cache, text, fd, answered, noted, serial>>

\* Faulty variant: a member needs a vector file, not an entry.
BundleUnlisted(t, id, ms) ==
  /\ pc[t] = "idle"
  /\ StoreOf[t] \in open
  /\ MayCall(t)
  /\ ms # {} /\ ms \subseteq {i \in vectors : members[i] = {}}
  /\ id \notin vectors
  /\ vectors' = vectors \cup {id}
  /\ members' = [members EXCEPT ![id] = ms]
  /\ job' = [job EXCEPT ![t] = id]
  /\ pc' = [pc EXCEPT ![t] = "saved"]
  /\ UNCHANGED <<content, tmp, manifest, open, cache, text, fd, answered, noted, serial>>

\* bundle_episodes(): load_vector raises unless the store lists the member;
\* the same members give the same id again.
Bundle(t, id, ms) ==
  /\ pc[t] = "idle"
  /\ StoreOf[t] \in open
  /\ MayCall(t)
  /\ ms # {} /\ ms \subseteq {i \in cache[StoreOf[t]] : members[i] = {}}
  /\ id \notin vectors \/ members[id] = ms
  /\ \A i \in vectors : members[i] = ms => i = id
  /\ vectors' = vectors \cup {id}
  /\ members' = [members EXCEPT ![id] = ms]
  /\ job' = [job EXCEPT ![t] = id]
  /\ pc' = [pc EXCEPT ![t] = "saved"]
  /\ UNCHANGED <<content, tmp, manifest, open, cache, text, fd, answered, noted, serial>>

\* self.manifest gets the entry.
List(t) ==
  /\ pc[t] = "saved"
  /\ cache' = [cache EXCEPT ![StoreOf[t]] = @ \cup {job[t]}]
  /\ pc' = [pc EXCEPT ![t] = "listed"]
  /\ UNCHANGED <<files, open, locals, answered, noted, serial>>

\* _save_manifest: json.dumps of the store's manifest as it is now.
Dump(t) ==
  /\ pc[t] = "listed"
  /\ text' = [text EXCEPT ![t] = cache[StoreOf[t]]]
  /\ pc' = [pc EXCEPT ![t] = "dumped"]
  /\ UNCHANGED <<files, open, cache, job, fd, answered, noted, serial>>

InUse(n) == n = tmp \/ n = manifest \/ \E t \in Threads : fd[t] = n

\* Faulty variant: manifest.json is written in place.
OpenTmpInPlace(t) ==
  /\ pc[t] = "dumped"
  /\ \E n \in Inodes :
       /\ IF manifest = NoFile THEN ~InUse(n) ELSE n = manifest
       /\ tmp' = n
       /\ content' = [content EXCEPT ![n] = Empty]
       /\ fd' = [fd EXCEPT ![t] = n]
  /\ pc' = [pc EXCEPT ![t] = "opened"]
  /\ UNCHANGED <<vectors, members, manifest, open, cache, job, text, answered, noted, serial>>

\* write_text opens manifest.tmp: the file of that name is truncated, or a
\* new one is made.
OpenTmp(t) ==
  /\ pc[t] = "dumped"
  /\ \E n \in Inodes :
       /\ IF tmp = NoFile THEN ~InUse(n) ELSE n = tmp
       /\ tmp' = n
       /\ content' = [content EXCEPT ![n] = Empty]
       /\ fd' = [fd EXCEPT ![t] = n]
  /\ pc' = [pc EXCEPT ![t] = "opened"]
  /\ UNCHANGED <<vectors, members, manifest, open, cache, job, text, answered, noted, serial>>

(***************************************************************************)
(* The text is written from the start of the file.  Where another writer   *)
(* was faster, the rest of its text stays behind if it is the longer one.  *)
(***************************************************************************)
WriteTmp(t) ==
  /\ pc[t] = "opened"
  /\ \E c \in {Whole(text[t]), Mixed} :
       /\ content[fd[t]].kind = "empty" \/ content[fd[t]] = Whole(text[t])
            => c = Whole(text[t])
       /\ content' = [content EXCEPT ![fd[t]] = c]
  /\ fd' = [fd EXCEPT ![t] = NoFile]
  /\ pc' = [pc EXCEPT ![t] = "written"]
  /\ UNCHANGED <<vectors, members, tmp, manifest, open, cache, job, text, answered, noted, serial>>

\* tmp.replace(manifest_path)
Replace(t) ==
  /\ pc[t] = "written"
  /\ tmp # NoFile
  /\ manifest' = tmp
  /\ tmp' = NoFile
  /\ pc' = [pc EXCEPT ![t] = "stored"]
  /\ UNCHANGED <<vectors, members, content, open, cache, locals, answered, noted, serial>>

EndCall(t) ==
  /\ pc' = [pc EXCEPT ![t] = "idle"]
  /\ job' = [job EXCEPT ![t] = NoId]
  /\ text' = [text EXCEPT ![t] = {}]
  /\ fd' = [fd EXCEPT ![t] = NoFile]

\* Faulty variant: the call that fails falls back to the manifest on disk.
ReplaceFailsBack(t) ==
  /\ pc[t] = "written"
  /\ tmp = NoFile
  /\ EndCall(t)
  /\ cache' = [cache EXCEPT ![StoreOf[t]] = Listed]
  /\ UNCHANGED <<files, open, answered, noted, serial>>

\* Somebody else renamed the file: FileNotFoundError, the call fails.
ReplaceFails(t) ==
  /\ pc[t] = "written"
  /\ tmp = NoFile
  /\ EndCall(t)
  /\ UNCHANGED <<files, open, cache, answered, noted, serial>>

\* The id is returned; the bridge and the daemon note an episode in the
\* ledger first.
Answer(t) ==
  /\ pc[t] = "stored"
  /\ noted' = IF t \in Noting /\ members[job[t]] = {} THEN noted \cup {job[t]} ELSE noted
  /\ answered' = [answered EXCEPT ![StoreOf[t]] = @ \cup {job[t]}]
  /\ EndCall(t)
  /\ UNCHANGED <<files, open, cache, serial>>

Step(t) ==
  \/ \E id \in Ids : Remember(t, id)
  \/ \E id \in Ids, ms \in SUBSET Ids : Bundle(t, id, ms)
  \/ List(t)
  \/ Dump(t)
  \/ OpenTmp(t)
  \/ WriteTmp(t)
  \/ Replace(t)
  \/ ReplaceFails(t)
  \/ Answer(t)

Next ==
  \/ \E s \in Stores : OpenStore(s) \/ CloseStore(s) \/ Crash(s)
  \/ \E t \in Threads : Step(t)

Spec == Init /\ [][Next]_vars
-----------------------------------------------------------------------------
\* A list of entries with their vectors, and with the members of its bundles.
Closed(list) ==
  /\ list \subseteq vectors
  /\ \A i \in list : members[i] \subseteq list

(***************************************************************************)
(* Whatever threads, processes and kills do: every manifest, in memory, on *)
(* its way to a file or in a file, lists only ids whose vector was saved,  *)
(* and with a bundle its members, so recall and load_vector never miss a   *)
(* file; and no ledger entry names an episode without a vector.            *)
(***************************************************************************)
ManifestsAreClosed ==
  /\ \A s \in Stores : Closed(cache[s])
  /\ \A t \in Threads : Closed(text[t])
  /\ \A n \in Inodes : Closed(content[n].ids)
  /\ noted \subseteq vectors

(***************************************************************************)
(* An id a process returned stays known to that process: no call of        *)
(* another thread, failed or not, takes an entry out of the store.         *)
(***************************************************************************)
AnsweredIsListed ==
  \A s \in Stores : answered[s] \subseteq cache[s]

(***************************************************************************)
(* One process and one call at a time, killed at any step, also while it   *)
(* writes manifest.tmp: the store is the abstract one.  What is stored     *)
(* stays stored, an item appears there whole and at once, and what the     *)
(* ledger says was remembered can be recalled by the next process.  Two    *)
(* calls at once can lose each other's entries on disk, and promise        *)
(* nothing here.                                                           *)
(***************************************************************************)
Abstract == INSTANCE EpisodeStore WITH stored <- IF serial THEN Listed ELSE {},
                                       noted <- IF serial THEN noted ELSE {}

ImplementsEpisodeStore == Abstract!StoreSpec
=============================================================================
