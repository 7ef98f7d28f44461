-------------------------- MODULE MemoryStoreProofs --------------------------
(***************************************************************************)
(* Proofs about MemoryStore, for any stores, threads, ids and files.       *)
(***************************************************************************)
EXTENDS MemoryStore, TLAPS

(***************************************************************************)
(* The invariant: a call in progress has saved its vector and belongs to   *)
(* an open store; until its entry is listed, the store lists the members   *)
(* of its bundle, and afterwards the entry itself.                         *)
(***************************************************************************)
CallInv ==
  \A t \in Threads :
    /\ pc[t] # "idle" => StoreOf[t] \in open /\ job[t] \in vectors
    /\ pc[t] = "saved" => members[job[t]] \subseteq cache[StoreOf[t]]
    /\ pc[t] \notin {"idle", "saved"} => job[t] \in cache[StoreOf[t]]
    /\ pc[t] = "opened" => fd[t] \in Inodes

FreshInv ==
  /\ \A i \in Ids \ vectors : members[i] = {}
  /\ \A s \in Stores \ open : answered[s] = {}

StoreInv == TypeOK /\ ManifestsAreClosed /\ AnsweredIsListed /\ CallInv /\ FreshInv

USE StoreAssumption, NotingAssumption, NoIdAssumption, NoFileAssumption

LEMMA InitStore == Init => StoreInv
  BY DEF Init, StoreInv, TypeOK, ManifestsAreClosed, AnsweredIsListed, CallInv, FreshInv,
     Closed, Empty, Text, Stages

\* What a new process reads is typed and closed.
LEMMA ListedClosed ==
  ASSUME StoreInv
  PROVE  Listed \in SUBSET Ids /\ Closed(Listed)
  BY DEF StoreInv, TypeOK, ManifestsAreClosed, Listed, Closed, Text

LEMMA OpenStep ==
  ASSUME StoreInv, NEW s \in Stores, OpenStore(s)
  PROVE  StoreInv'
  <1>1. TypeOK'
    BY ListedClosed DEF OpenStore, StoreInv, TypeOK, files, locals
  <1>2. ManifestsAreClosed'
    BY ListedClosed DEF OpenStore, StoreInv, TypeOK, ManifestsAreClosed, Closed, files, locals
  <1>3. AnsweredIsListed' /\ FreshInv'
    BY DEF OpenStore, StoreInv, TypeOK, AnsweredIsListed, FreshInv, files, locals
  <1>4. CallInv'
    BY DEF OpenStore, StoreInv, TypeOK, CallInv, files, locals
  <1> QED
    BY <1>1, <1>2, <1>3, <1>4 DEF StoreInv

LEMMA ForgetStep ==
  ASSUME StoreInv, NEW s \in Stores, Forget(s)
  PROVE  StoreInv'
  <1>1. TypeOK'
    BY DEF Forget, StoreInv, TypeOK, files, Stages
  <1>2. ManifestsAreClosed'
    BY DEF Forget, StoreInv, TypeOK, ManifestsAreClosed, Closed, files
  <1>3. AnsweredIsListed' /\ FreshInv'
    BY DEF Forget, StoreInv, TypeOK, AnsweredIsListed, FreshInv, files
  <1>4. CallInv'
    BY DEF Forget, StoreInv, TypeOK, CallInv, files
  <1> QED
    BY <1>1, <1>2, <1>3, <1>4 DEF StoreInv

LEMMA RememberStep ==
  ASSUME StoreInv, NEW t \in Threads, NEW id \in Ids, Remember(t, id)
  PROVE  StoreInv'
  <1>1. TypeOK'
    BY DEF Remember, StoreInv, TypeOK, Stages
  <1>2. ManifestsAreClosed'
    BY DEF Remember, StoreInv, TypeOK, ManifestsAreClosed, Closed
  <1>3. AnsweredIsListed' /\ FreshInv'
    BY DEF Remember, StoreInv, TypeOK, AnsweredIsListed, FreshInv
  <1>4. CallInv'
    BY DEF Remember, StoreInv, TypeOK, CallInv, FreshInv
  <1> QED
    BY <1>1, <1>2, <1>3, <1>4 DEF StoreInv

\* A bundle changes the members of a new id only, and no list has it.
LEMMA BundleStep ==
  ASSUME StoreInv, NEW t \in Threads, NEW id \in Ids, NEW ms \in SUBSET Ids, Bundle(t, id, ms)
  PROVE  StoreInv'
  <1>1. TypeOK'
    BY DEF Bundle, StoreInv, TypeOK, Stages
  <1>2. \A i \in vectors : members'[i] = members[i]
    BY DEF Bundle, StoreInv, TypeOK
  <1>3. ASSUME NEW L \in SUBSET Ids, Closed(L)
        PROVE  Closed(L)'
    BY <1>2, <1>3 DEF Bundle, Closed
  <1>4. ManifestsAreClosed'
    <2>1. \A x \in Stores : Closed(cache[x])'
      BY <1>3 DEF Bundle, StoreInv, TypeOK, ManifestsAreClosed, Closed
    <2>2. \A u \in Threads : Closed(text[u])'
      BY <1>3 DEF Bundle, StoreInv, TypeOK, ManifestsAreClosed, Closed
    <2>3. \A n \in Inodes : Closed(content[n].ids)'
      BY <1>3 DEF Bundle, StoreInv, TypeOK, ManifestsAreClosed, Text, Closed
    <2> QED
      BY <2>1, <2>2, <2>3 DEF Bundle, StoreInv, ManifestsAreClosed
  <1>5. AnsweredIsListed' /\ FreshInv'
    BY DEF Bundle, StoreInv, TypeOK, AnsweredIsListed, FreshInv
  <1>6. CallInv'
    BY <1>2 DEF Bundle, StoreInv, TypeOK, CallInv
  <1> QED
    BY <1>1, <1>4, <1>5, <1>6 DEF StoreInv

LEMMA ListStep ==
  ASSUME StoreInv, NEW t \in Threads, List(t)
  PROVE  StoreInv'
  <1>1. TypeOK'
    BY DEF List, StoreInv, TypeOK, Stages, files, locals, CallInv
  <1>2. ManifestsAreClosed'
    BY DEF List, StoreInv, TypeOK, ManifestsAreClosed, Closed, CallInv, files, locals
  <1>3. AnsweredIsListed' /\ FreshInv'
    BY DEF List, StoreInv, TypeOK, AnsweredIsListed, FreshInv, files, locals
  <1>4. CallInv'
    BY DEF List, StoreInv, TypeOK, CallInv, files, locals
  <1> QED
    BY <1>1, <1>2, <1>3, <1>4 DEF StoreInv

LEMMA DumpStep ==
  ASSUME StoreInv, NEW t \in Threads, Dump(t)
  PROVE  StoreInv'
  <1>1. TypeOK'
    BY DEF Dump, StoreInv, TypeOK, Stages, files
  <1>2. ManifestsAreClosed'
    BY DEF Dump, StoreInv, TypeOK, ManifestsAreClosed, Closed, files
  <1>3. AnsweredIsListed' /\ FreshInv' /\ CallInv'
    BY DEF Dump, StoreInv, TypeOK, AnsweredIsListed, FreshInv, CallInv, files
  <1> QED
    BY <1>1, <1>2, <1>3 DEF StoreInv

LEMMA OpenTmpStep ==
  ASSUME StoreInv, NEW t \in Threads, OpenTmp(t)
  PROVE  StoreInv'
  <1>1. PICK n \in Inodes :
          /\ tmp' = n
          /\ content' = [content EXCEPT ![n] = Empty]
          /\ fd' = [fd EXCEPT ![t] = n]
    BY DEF OpenTmp
  <1>2. TypeOK'
    BY <1>1 DEF OpenTmp, StoreInv, TypeOK, Stages, Empty, Text
  <1>3. ManifestsAreClosed'
    BY <1>1 DEF OpenTmp, StoreInv, TypeOK, ManifestsAreClosed, Closed, Empty
  <1>4. AnsweredIsListed' /\ FreshInv' /\ CallInv'
    BY <1>1 DEF OpenTmp, StoreInv, TypeOK, AnsweredIsListed, FreshInv, CallInv
  <1> QED
    BY <1>2, <1>3, <1>4 DEF StoreInv

LEMMA WriteTmpStep ==
  ASSUME StoreInv, NEW t \in Threads, WriteTmp(t)
  PROVE  StoreInv'
  <1>1. PICK c \in {Whole(text[t]), Mixed} : content' = [content EXCEPT ![fd[t]] = c]
    BY DEF WriteTmp
  <1>2. c \in Text /\ Closed(c.ids)
    BY <1>1 DEF StoreInv, TypeOK, ManifestsAreClosed, Closed, Whole, Mixed, Text
  <1>3. fd[t] \in Inodes
    BY DEF WriteTmp, StoreInv, CallInv
  <1>4. TypeOK'
    BY <1>1, <1>2, <1>3 DEF WriteTmp, StoreInv, TypeOK, Stages
  <1>5. ManifestsAreClosed'
    BY <1>1, <1>2, <1>3 DEF WriteTmp, StoreInv, TypeOK, ManifestsAreClosed, Closed
  <1>6. AnsweredIsListed' /\ FreshInv' /\ CallInv'
    BY <1>1 DEF WriteTmp, StoreInv, TypeOK, AnsweredIsListed, FreshInv, CallInv
  <1> QED
    BY <1>4, <1>5, <1>6 DEF StoreInv

LEMMA EndStep ==
  ASSUME StoreInv, NEW t \in Threads, Replace(t) \/ ReplaceFails(t) \/ Answer(t)
  PROVE  StoreInv'
  <1>1. TypeOK'
    BY DEF Replace, ReplaceFails, Answer, EndCall, StoreInv, TypeOK, Stages, files, locals, CallInv
  <1>2. ManifestsAreClosed'
    BY DEF Replace, ReplaceFails, Answer, EndCall, StoreInv, TypeOK, ManifestsAreClosed, Closed,
       files, locals, CallInv
  <1>3. AnsweredIsListed' /\ FreshInv'
    BY DEF Replace, ReplaceFails, Answer, EndCall, StoreInv, TypeOK, AnsweredIsListed, FreshInv,
       files, locals, CallInv
  <1>4. CallInv'
    BY DEF Replace, ReplaceFails, Answer, EndCall, StoreInv, TypeOK, CallInv, files, locals
  <1> QED
    BY <1>1, <1>2, <1>3, <1>4 DEF StoreInv

LEMMA NextStep == StoreInv /\ [Next]_vars => StoreInv'
  <1> SUFFICES ASSUME StoreInv, [Next]_vars PROVE StoreInv'
    OBVIOUS
  <1>1. ASSUME NEW s \in Stores, OpenStore(s) \/ CloseStore(s) \/ Crash(s)
        PROVE  StoreInv'
    BY <1>1, OpenStep, ForgetStep DEF CloseStore, Crash
  <1>2. ASSUME NEW t \in Threads, Step(t)
        PROVE  StoreInv'
    BY <1>2, RememberStep, BundleStep, ListStep, DumpStep, OpenTmpStep, WriteTmpStep, EndStep
    DEF Step
  <1>3. CASE UNCHANGED vars
    BY <1>3 DEF vars, StoreInv, TypeOK, ManifestsAreClosed, AnsweredIsListed, CallInv, FreshInv,
       Closed
  <1> QED
    BY <1>1, <1>2, <1>3 DEF Next

\* The invariant holds in every behaviour, with any interleaving and kill.
THEOREM StoreInvariant == Spec => []StoreInv
  BY InitStore, NextStep, PTL DEF Spec

(***************************************************************************)
(* Whatever threads, processes and kills do, no manifest lists an id       *)
(* without its vector or a bundle without its members.                     *)
(***************************************************************************)
THEOREM ManifestsClosed == Spec => []ManifestsAreClosed
  <1>1. StoreInv => ManifestsAreClosed
    BY DEF StoreInv
  <1> QED
    BY <1>1, StoreInvariant, PTL

(***************************************************************************)
(* Whatever threads, processes and kills do, a store keeps what it         *)
(* returned.                                                               *)
(***************************************************************************)
THEOREM AnsweredListed == Spec => []AnsweredIsListed
  <1>1. StoreInv => AnsweredIsListed
    BY DEF StoreInv
  <1> QED
    BY <1>1, StoreInvariant, PTL

\* The type invariant of MemoryStore.
THEOREM StoreTyped == Spec => []TypeOK
  <1>1. StoreInv => TypeOK
    BY DEF StoreInv
  <1> QED
    BY <1>1, StoreInvariant, PTL
-----------------------------------------------------------------------------
(***************************************************************************)
(* One process and one call at a time.  The open store's manifest is the   *)
(* one on disk, and the entry of the call in progress; manifest.tmp is not *)
(* manifest.json, and when it is renamed it holds what was dumped.         *)
(***************************************************************************)
Alone ==
  /\ \A s, x \in open : s = x
  /\ \A t, u \in Threads : pc[t] # "idle" /\ pc[u] # "idle" => t = u

Idle == \A t \in Threads : pc[t] = "idle"

DiskInv ==
  /\ manifest # NoFile => content[manifest].kind = "whole" /\ manifest # tmp
  /\ Idle => \A s \in open : cache[s] = Listed
  /\ \A t \in Threads :
       LET mine == cache[StoreOf[t]]
       IN /\ pc[t] = "saved" => mine = Listed
          /\ pc[t] \in {"listed", "dumped", "opened", "written"} =>
               mine = Listed \cup {job[t]}
          /\ pc[t] \in {"dumped", "opened", "written"} => text[t] = mine
          /\ pc[t] = "opened" =>
               fd[t] = tmp /\ tmp \in Inodes /\ content[tmp] = Empty
          /\ pc[t] = "written" => tmp \in Inodes /\ content[tmp] = Whole(text[t])
          /\ pc[t] = "stored" => mine = Listed /\ job[t] \in Listed

SerialInv == StoreInv /\ (serial => Alone /\ DiskInv)

LEMMA InitSerial == Init => SerialInv
  <1> SUFFICES ASSUME Init PROVE Alone /\ DiskInv
    BY InitStore DEF SerialInv
  <1> QED
    BY DEF Init, Alone, DiskInv, Listed, Idle

LEMMA OpenSerial ==
  ASSUME SerialInv, serial, NEW s \in Stores, OpenStore(s)
  PROVE  Alone' /\ DiskInv' /\ UNCHANGED <<Listed, noted>>
  <1>1. Idle
    BY DEF SerialInv, StoreInv, CallInv, OpenStore, Idle, TypeOK
  <1> QED
    BY <1>1 DEF SerialInv, StoreInv, TypeOK, Alone, DiskInv, Listed, Idle, OpenStore, files, locals

LEMMA ForgetSerial ==
  ASSUME SerialInv, serial, NEW s \in Stores, s \in open, Forget(s)
  PROVE  Alone' /\ DiskInv' /\ UNCHANGED <<Listed, noted>>
  <1>1. open' = {} /\ Idle'
    BY DEF SerialInv, StoreInv, TypeOK, CallInv, Alone, Forget, Idle
  <1> QED
    BY <1>1 DEF SerialInv, StoreInv, TypeOK, Alone, DiskInv, Listed, Idle, Forget, files

LEMMA BeginSerial ==
  ASSUME SerialInv, serial, NEW t \in Threads, NEW id \in Ids,
         Remember(t, id) \/ \E ms \in SUBSET Ids : Bundle(t, id, ms)
  PROVE  Alone' /\ DiskInv' /\ UNCHANGED <<Listed, noted>>
  <1>1. Idle /\ StoreOf[t] \in open
    BY DEF Remember, Bundle, MayCall, Idle
  <1>2. pc' = [pc EXCEPT ![t] = "saved"]
        /\ UNCHANGED <<content, tmp, manifest, open, cache, noted>>
    BY DEF Remember, Bundle
  <1>3. cache[StoreOf[t]] = Listed
    BY <1>1 DEF SerialInv, DiskInv
  <1> QED
    BY <1>1, <1>2, <1>3 DEF SerialInv, StoreInv, TypeOK, Alone, DiskInv, Listed, Idle

\* The caller of a step is the only caller.
LEMMA OnlyCaller ==
  ASSUME SerialInv, serial, NEW t \in Threads, pc[t] # "idle"
  PROVE  ~Idle /\ \A u \in Threads : u # t => pc[u] = "idle"
  BY DEF SerialInv, Alone, Idle

LEMMA ListSerial ==
  ASSUME SerialInv, serial, NEW t \in Threads, List(t) \/ Dump(t)
  PROVE  Alone' /\ DiskInv' /\ UNCHANGED <<Listed, noted>>
  <1>1. ~Idle /\ \A u \in Threads : u # t => pc[u] = "idle"
    BY OnlyCaller DEF List, Dump
  <1>2. Listed' = Listed /\ noted' = noted
    BY DEF List, Dump, Listed, files
  <1>3. Alone' /\ ~Idle'
    BY <1>1 DEF SerialInv, StoreInv, TypeOK, Alone, Idle, List, Dump
  <1>4. CASE List(t)
    <2>1. StoreOf[t] \in Stores /\ cache'[StoreOf[t]] = Listed \cup {job[t]}
      BY <1>4 DEF List, SerialInv, StoreInv, TypeOK, DiskInv
    <2> QED
      BY <1>1, <1>2, <1>3, <1>4, <2>1 DEF SerialInv, StoreInv, TypeOK, DiskInv, List, files, locals
  <1>5. CASE Dump(t)
    <2>1. pc' = [pc EXCEPT ![t] = "dumped"] /\ text'[t] = cache[StoreOf[t]]
      BY <1>5 DEF Dump, SerialInv, StoreInv, TypeOK
    <2> QED
      BY <1>1, <1>2, <1>3, <1>5, <2>1 DEF SerialInv, StoreInv, TypeOK, DiskInv, Dump, files
  <1> QED
    BY <1>2, <1>3, <1>4, <1>5

LEMMA OpenTmpSerial ==
  ASSUME SerialInv, serial, NEW t \in Threads, OpenTmp(t)
  PROVE  Alone' /\ DiskInv' /\ UNCHANGED <<Listed, noted>>
  <1>1. ~Idle /\ \A u \in Threads : u # t => pc[u] = "idle"
    BY OnlyCaller DEF OpenTmp
  <1>2. PICK n \in Inodes :
          /\ IF tmp = NoFile THEN ~InUse(n) ELSE n = tmp
          /\ tmp' = n
          /\ content' = [content EXCEPT ![n] = Empty]
          /\ fd' = [fd EXCEPT ![t] = n]
    BY DEF OpenTmp
  <1>3. n # manifest
    BY <1>2 DEF SerialInv, DiskInv, InUse
  <1>4. Listed' = Listed /\ noted' = noted
    BY <1>2, <1>3 DEF SerialInv, StoreInv, TypeOK, OpenTmp, Listed
  <1>5. ~Idle'
    BY <1>1 DEF OpenTmp, Idle, SerialInv, StoreInv, TypeOK
  <1> QED
    BY <1>1, <1>2, <1>3, <1>4, <1>5 DEF SerialInv, StoreInv, TypeOK, Alone, DiskInv, OpenTmp

LEMMA WriteTmpSerial ==
  ASSUME SerialInv, serial, NEW t \in Threads, WriteTmp(t)
  PROVE  Alone' /\ DiskInv' /\ UNCHANGED <<Listed, noted>>
  <1>1. ~Idle /\ \A u \in Threads : u # t => pc[u] = "idle"
    BY OnlyCaller DEF WriteTmp
  <1>2. fd[t] = tmp /\ tmp \in Inodes /\ content[tmp] = Empty /\ tmp # manifest
    BY DEF SerialInv, DiskInv, WriteTmp
  <1>3. content' = [content EXCEPT ![tmp] = Whole(text[t])]
    BY <1>2 DEF WriteTmp, Empty
  <1>4. Listed' = Listed /\ noted' = noted
    BY <1>2, <1>3 DEF SerialInv, StoreInv, TypeOK, WriteTmp, Listed
  <1>5. ~Idle'
    BY <1>1 DEF WriteTmp, Idle, SerialInv, StoreInv, TypeOK
  <1> QED
    BY <1>1, <1>2, <1>3, <1>4, <1>5
    DEF SerialInv, StoreInv, TypeOK, Alone, DiskInv, WriteTmp

\* The rename makes the item of the call appear, and nothing else.
LEMMA ReplaceSerial ==
  ASSUME SerialInv, serial, NEW t \in Threads, Replace(t)
  PROVE  Alone' /\ DiskInv' /\ Listed' = Listed \cup {job[t]} /\ noted' = noted
  <1>1. ~Idle /\ \A u \in Threads : u # t => pc[u] = "idle"
    BY OnlyCaller DEF Replace
  <1>2. /\ content[tmp] = Whole(text[t])
        /\ text[t] = Listed \cup {job[t]}
        /\ cache[StoreOf[t]] = Listed \cup {job[t]}
    BY DEF SerialInv, DiskInv, Replace
  <1>3. Listed' = Listed \cup {job[t]}
    BY <1>2 DEF Replace, Listed, Whole
  <1>4. content[tmp].kind = "whole"
    BY <1>2 DEF Whole
  <1>5. ~Idle'
    BY <1>1 DEF Replace, Idle, SerialInv, StoreInv, TypeOK
  <1>6. Alone'
    BY <1>1 DEF SerialInv, StoreInv, TypeOK, Alone, Replace, locals
  <1>7. DiskInv'
    BY <1>1, <1>2, <1>3, <1>4, <1>5 DEF SerialInv, StoreInv, TypeOK, DiskInv, Replace, locals
  <1> QED
    BY <1>3, <1>6, <1>7 DEF Replace

LEMMA EndSerial ==
  ASSUME SerialInv, serial, NEW t \in Threads, ReplaceFails(t) \/ Answer(t)
  PROVE  /\ Alone' /\ DiskInv' /\ Listed' = Listed
         /\ job[t] \in Listed /\ noted' \in {noted, noted \cup {job[t]}}
  <1>1. \A u \in Threads : u # t => pc[u] = "idle"
    BY OnlyCaller DEF ReplaceFails, Answer
  <1>2. Answer(t)
    BY DEF SerialInv, DiskInv, ReplaceFails, StoreInv, TypeOK
  <1>3. cache[StoreOf[t]] = Listed /\ job[t] \in Listed /\ StoreOf[t] \in open
    BY <1>2 DEF SerialInv, DiskInv, Answer, StoreInv, CallInv
  <1>4. \A s \in open : s = StoreOf[t]
    BY <1>3 DEF SerialInv, Alone
  <1>5. Listed' = Listed
    BY <1>2 DEF Answer, Listed, files
  <1>6. Idle'
    BY <1>1, <1>2 DEF Answer, EndCall, Idle, SerialInv, StoreInv, TypeOK
  <1> QED
    BY <1>2, <1>3, <1>4, <1>5, <1>6 DEF SerialInv, DiskInv, Alone, Idle, Answer, files

(***************************************************************************)
(* Used by one process and one call at a time, and killed at any step, the *)
(* store implements EpisodeStore.                                          *)
(***************************************************************************)
THEOREM StoreImplements == Spec => ImplementsEpisodeStore
  <1>1. Init => Abstract!StoreInit
    BY DEF Init, Abstract!StoreInit, Listed
  <1>2. SerialInv /\ [Next]_vars => SerialInv' /\ [Abstract!StoreNext]_(Abstract!storeVars)
    <2> SUFFICES ASSUME SerialInv, [Next]_vars
                 PROVE  SerialInv' /\ [Abstract!StoreNext]_(Abstract!storeVars)
      OBVIOUS
    <2>1. StoreInv' /\ serial' = serial
      BY NextStep DEF SerialInv, Next, vars, Step, OpenStore, CloseStore, Crash, Forget, Remember,
         Bundle, List, Dump, OpenTmp, WriteTmp, Replace, ReplaceFails, Answer
    <2>2. CASE ~serial
      BY <2>1, <2>2 DEF SerialInv, Abstract!storeVars
    <2> SUFFICES ASSUME serial
                 PROVE  /\ Alone' /\ DiskInv'
                        /\ [Abstract!StoreNext]_(Abstract!storeVars)
      BY <2>1, <2>2 DEF SerialInv
    <2>3. ASSUME UNCHANGED <<Listed, noted>>
          PROVE  UNCHANGED Abstract!storeVars
      BY <2>1, <2>3 DEF Abstract!storeVars
    <2>4. ASSUME NEW s \in Stores, OpenStore(s) \/ CloseStore(s) \/ Crash(s)
          PROVE  Alone' /\ DiskInv' /\ UNCHANGED <<Listed, noted>>
      BY <2>4, OpenSerial, ForgetSerial DEF CloseStore, Crash
    <2>5. ASSUME NEW t \in Threads, Step(t)
          PROVE  Alone' /\ DiskInv' /\ [Abstract!StoreNext]_(Abstract!storeVars)
      <3>1. CASE Replace(t)
        <4>1. job[t] \in Ids
          BY <3>1 DEF Replace, SerialInv, StoreInv, CallInv, TypeOK
        <4> QED
          BY <2>1, <3>1, <4>1, ReplaceSerial DEF Abstract!StoreNext, Abstract!Keep
      <3>2. CASE ReplaceFails(t) \/ Answer(t)
        <4>1. job[t] \in Ids
          BY <3>2 DEF ReplaceFails, Answer, SerialInv, StoreInv, CallInv, TypeOK
        <4> QED
          BY <2>1, <3>2, <4>1, EndSerial
          DEF Abstract!StoreNext, Abstract!Note, Abstract!storeVars
      <3>3. CASE \/ \E id \in Ids : Remember(t, id)
                 \/ \E id \in Ids, ms \in SUBSET Ids : Bundle(t, id, ms)
        BY <2>3, <3>3, BeginSerial
      <3>4. CASE List(t) \/ Dump(t) \/ OpenTmp(t) \/ WriteTmp(t)
        BY <2>3, <3>4, ListSerial, OpenTmpSerial, WriteTmpSerial
      <3> QED
        BY <2>5, <3>1, <3>2, <3>3, <3>4 DEF Step
    <2>6. CASE UNCHANGED vars
      <3>1. Alone' /\ DiskInv'
        BY <2>6 DEF vars, SerialInv, Alone, DiskInv, Listed, Idle
      <3>2. UNCHANGED <<Listed, noted>>
        BY <2>6 DEF vars, Listed
      <3> QED
        BY <3>1, <3>2, <2>3
    <2> QED
      BY <2>3, <2>4, <2>5, <2>6 DEF Next
  <1> QED
    BY <1>1, <1>2, InitSerial, PTL DEF Spec, ImplementsEpisodeStore, Abstract!StoreSpec
=============================================================================
