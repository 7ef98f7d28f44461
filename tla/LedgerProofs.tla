---------------------------- MODULE LedgerProofs ----------------------------
(***************************************************************************)
(* Theorems about Ledger for any handles, threads, events and digests,     *)
(* and about Bridge, whose appends are the ledger's, for any bridges,      *)
(* connections and requests.                                               *)
(*                                                                         *)
(* Nothing is assumed of SHA-256 but that it maps every previous hash and  *)
(* body to a digest (HashTotal) and, for the refinement alone, that it     *)
(* maps none to the previous hash itself (HashMoves): what is proved here  *)
(* does not depend on the absence of collisions.                           *)
(***************************************************************************)
EXTENDS LedgerLives, Bridge, TLAPS, SequenceTheorems, FiniteSetTheorems

Bodies == [seq : Nat, event : Events, prev : Hash]

HashTotal == \A p \in Hash, b \in Bodies : EntryHash(p, b) \in Hash

Busy == Stages \ {"idle"}

(***************************************************************************)
(* Typing.  A line gets its event from the draft, so the invariant says    *)
(* that the draft of a running append has one.                             *)
(***************************************************************************)
DraftHasEvent == \A t \in Threads : pc[t] # "idle" => draft[t].event \in Events

TypeInv == TypeOK /\ DraftHasEvent

LEMMA InitTyped == Init => TypeInv
  <1> SUFFICES ASSUME Init PROVE TypeInv
    OBVIOUS
  <1> USE GenesisAssumption DEF Init
  <1>1. Fresh \in Tip
    BY DEF Fresh, Tip
  <1>2. NoDraft \in Draft
    BY DEF NoDraft, Draft
  <1>3. TypeOK
    BY <1>1, <1>2 DEF TypeOK, Missing, Stages
  <1>4. DraftHasEvent
    BY DEF DraftHasEvent
  <1> QED
    BY <1>3, <1>4 DEF TypeInv

LEMMA StepTyped ==
  ASSUME HashTotal, TypeInv, [Next]_vars
  PROVE  TypeInv'
  <1> USE GenesisAssumption, HandleAssumption
  <1>0. TypeOK /\ DraftHasEvent
    BY DEF TypeInv
  <1>a. Fresh \in Tip
    BY DEF Fresh, Tip
  <1>b. NoDraft \in Draft
    BY DEF NoDraft, Draft
  <1>1. ASSUME NEW h \in Handles, OpenHandle(h)
        PROVE  TypeInv'
    BY <1>0, <1>1 DEF OpenHandle, TypeInv, TypeOK, DraftHasEvent
  <1>2. ASSUME NEW h \in Handles, CloseHandle(h)
        PROVE  TypeInv'
    BY <1>0, <1>2, <1>a DEF CloseHandle, TypeInv, TypeOK, DraftHasEvent
  <1>3. ASSUME NEW h \in Handles, Crash(h)
        PROVE  TypeInv'
    BY <1>0, <1>3, <1>a, <1>b DEF Crash, TypeInv, TypeOK, DraftHasEvent, Stages
  <1>4. ASSUME NEW t \in Threads, NEW e \in Events, Number(t, e)
        PROVE  TypeInv'
    <2>1. cache[HandleOf[t]].seq + 1 \in Nat
      BY <1>0 DEF TypeOK, Tip
    <2>2. [NoDraft EXCEPT !.seq = cache[HandleOf[t]].seq + 1, !.event = e] \in Draft
      BY <2>1 DEF NoDraft, Draft
    <2>3. [NoDraft EXCEPT !.seq = cache[HandleOf[t]].seq + 1, !.event = e].event = e
      BY DEF NoDraft
    <2> QED
      BY <1>0, <1>4, <2>2, <2>3 DEF Number, TypeInv, TypeOK, DraftHasEvent, Stages
  <1>5. ASSUME NEW t \in Threads, Link(t)
        PROVE  TypeInv'
    BY <1>0, <1>5 DEF Link, TypeInv, TypeOK, DraftHasEvent, Stages, Draft, Tip
  <1>6. ASSUME NEW t \in Threads, SealEntry(t)
        PROVE  TypeInv'
    <2>1. BodyOf(draft[t]) \in Bodies
      BY <1>0, <1>6 DEF SealEntry, TypeOK, DraftHasEvent, Draft, BodyOf, Bodies
    <2>2. EntryHash(cache[HandleOf[t]].hash, BodyOf(draft[t])) \in Hash
      BY <1>0, <2>1, HashTotal DEF HashTotal, TypeOK, Tip
    <2>3. /\ Seal(cache[HandleOf[t]].hash, BodyOf(draft[t])) \in Draft
          /\ Seal(cache[HandleOf[t]].hash, BodyOf(draft[t])).event \in Events
      BY <2>1, <2>2 DEF Seal, Draft, Bodies
    <2> QED
      BY <1>0, <1>6, <2>3 DEF SealEntry, TypeInv, TypeOK, DraftHasEvent, Stages
  <1>7. ASSUME NEW t \in Threads, WriteLine(t)
        PROVE  TypeInv'
    <2>1. draft[t] \in Entry
      BY <1>0, <1>7 DEF WriteLine, TypeOK, DraftHasEvent, Draft, Entry
    <2>2. Append(log, draft[t]) \in Seq(Entry)
      BY <1>0, <2>1, AppendProperties DEF TypeOK
    <2> QED
      BY <1>0, <1>7, <2>2 DEF WriteLine, TypeInv, TypeOK, DraftHasEvent, Stages
  <1>8. ASSUME NEW t \in Threads, PublishSeq(t)
        PROVE  TypeInv'
    BY <1>0, <1>8 DEF PublishSeq, TypeInv, TypeOK, DraftHasEvent, Stages, Draft, Tip
  <1>9. ASSUME NEW t \in Threads, PublishTip(t)
        PROVE  TypeInv'
    BY <1>0, <1>9 DEF PublishTip, TypeInv, TypeOK, DraftHasEvent, Stages, Draft, Tip
  <1>10. ASSUME NEW t \in Threads, TruncateTip(t)
         PROVE  TypeInv'
    BY <1>0, <1>10, <1>a DEF TruncateTip, Torn, TypeInv, TypeOK, DraftHasEvent, Stages
  <1>11. ASSUME NEW t \in Threads, FillTip(t)
         PROVE  TypeInv'
    BY <1>0, <1>11, <1>a, <1>b DEF FillTip, TipFile, TypeInv, TypeOK, DraftHasEvent, Stages
  <1>12. CASE UNCHANGED vars
    BY <1>0, <1>12 DEF vars, TypeInv, TypeOK, DraftHasEvent
  <1> QED
    BY <1>1, <1>2, <1>3, <1>4, <1>5, <1>6, <1>7, <1>8, <1>9, <1>10, <1>11, <1>12
    DEF Next, Orderly, Killed, AppendStep

(***************************************************************************)
(* In every environment the files, the caches and the drafts hold values   *)
(* of their types; in particular every line written has an event, a number *)
(* and digests.                                                            *)
(***************************************************************************)
THEOREM TypeCorrect ==
  ASSUME HashTotal
  PROVE  Spec => []TypeOK
  <1>1. Init => TypeInv
    BY InitTyped
  <1>2. TypeInv /\ [Next]_vars => TypeInv'
    BY StepTyped
  <1>3. TypeInv => TypeOK
    BY DEF TypeInv
  <1> QED
    BY <1>1, <1>2, <1>3, PTL DEF Spec

(***************************************************************************)
(* The shape of the log under any interleaving.  A hash travels cache ->   *)
(* draft -> line -> cache -> pending -> tip.json; TreeInv says that at     *)
(* every stop it belongs to a line on disk (or is genesis), and that the   *)
(* number that travels with it counts no more lines than there are.        *)
(***************************************************************************)
Known(tip) == tip.hash \in Digests(Len(log)) /\ tip.seq <= Len(log)

LinkedDraft(t) ==
  /\ pc[t] \in {"numbered", "linked", "sealed"} => draft[t].seq \in 1 .. Len(log) + 1
  /\ pc[t] \in {"linked", "sealed"} => draft[t].prev \in Digests(Len(log))
  /\ pc[t] \in {"written", "counted"} =>
       draft[t].hash \in Digests(Len(log)) /\ draft[t].seq <= Len(log)

TreeInv ==
  /\ \A i \in 1 .. Len(log) : log[i].prev \in Digests(i - 1) /\ log[i].seq \in 1 .. i
  /\ \A h \in Handles : Known(cache[h])
  /\ Known(tipFile.tip)
  /\ \A t \in Threads : LinkedDraft(t) /\ Known(pending[t])

LEMMA InitTree == TypeOK /\ Init => TreeInv
  <1> SUFFICES ASSUME TypeOK, Init PROVE TreeInv
    OBVIOUS
  <1>1. Known(Fresh)
    BY EmptySeq DEF Init, Known, Fresh, Digests
  <1>2. \A t \in Threads : LinkedDraft(t)
    BY DEF Init, LinkedDraft
  <1> QED
    BY <1>1, <1>2, EmptySeq DEF Init, TreeInv, Missing

\* Every step but WriteLine leaves the log alone.
LEMMA StepTreeSameLog ==
  ASSUME TypeInv, TreeInv, UNCHANGED log,
         \/ \E h \in Handles : OpenHandle(h) \/ CloseHandle(h) \/ Crash(h)
         \/ \E t \in Threads :
              \/ \E e \in Events : Number(t, e)
              \/ Link(t) \/ SealEntry(t) \/ PublishSeq(t) \/ PublishTip(t)
              \/ TruncateTip(t) \/ FillTip(t)
         \/ UNCHANGED vars
  PROVE  TreeInv'
  <1> DEFINE D == Digests(Len(log))
             n == Len(log)
  <1>a. /\ D' = D /\ n' = n /\ n \in Nat
        /\ \A i \in 1 .. n : Digests(i - 1)' = Digests(i - 1)
    BY LenProperties DEF Digests, TypeInv, TypeOK
  <1>b. \A i \in 1 .. n : log'[i].prev \in Digests(i - 1)' /\ log'[i].seq \in 1 .. i
    BY <1>a DEF TreeInv
  <1>c. GENESIS \in D
    BY DEF Digests
  <1>d. /\ \A h \in Handles : cache[h].hash \in D /\ cache[h].seq <= n
        /\ tipFile.tip.hash \in D /\ tipFile.tip.seq <= n
        /\ \A t \in Threads : /\ LinkedDraft(t)
                              /\ pending[t].hash \in D /\ pending[t].seq <= n
    BY DEF TreeInv, Known
  <1>t. TypeOK
    BY DEF TypeInv
  <1>e. SUFFICES /\ \A h \in Handles : cache'[h].hash \in D /\ cache'[h].seq <= n
                 /\ tipFile'.tip.hash \in D /\ tipFile'.tip.seq <= n
                 /\ \A t \in Threads : /\ LinkedDraft(t)'
                                       /\ pending'[t].hash \in D /\ pending'[t].seq <= n
    BY <1>a, <1>b DEF TreeInv, Known
  <1>f. /\ Fresh.hash = GENESIS /\ Fresh.seq = 0
        /\ NoDraft.seq = 0 /\ NoDraft.prev = GENESIS /\ NoDraft.hash = GENESIS
    BY DEF Fresh, NoDraft
  <1> HIDE DEF D, n
  <1>g. \A t \in Threads :
          LinkedDraft(t) <=>
            /\ pc[t] \in {"numbered", "linked", "sealed"} => draft[t].seq \in 1 .. n + 1
            /\ pc[t] \in {"linked", "sealed"} => draft[t].prev \in D
            /\ pc[t] \in {"written", "counted"} => draft[t].hash \in D /\ draft[t].seq <= n
    BY DEF LinkedDraft, D, n
  <1>h. \A t \in Threads :
          LinkedDraft(t)' <=>
            /\ pc'[t] \in {"numbered", "linked", "sealed"} => draft'[t].seq \in 1 .. n + 1
            /\ pc'[t] \in {"linked", "sealed"} => draft'[t].prev \in D
            /\ pc'[t] \in {"written", "counted"} => draft'[t].hash \in D /\ draft'[t].seq <= n
    BY <1>a DEF LinkedDraft, D, n
  <1> USE HandleAssumption
  <1>1. ASSUME NEW h \in Handles, OpenHandle(h) \/ CloseHandle(h)
        PROVE  <1>e!1
    <2>1. UNCHANGED <<pc, draft, pending, tipFile>>
      BY <1>1 DEF OpenHandle, CloseHandle
    <2>2. \A t \in Threads : LinkedDraft(t)' <=> LinkedDraft(t)
      BY <1>g, <1>h, <2>1
    <2>3. cache \in [Handles -> Tip] /\ tipFile.tip \in Tip
      BY <1>t DEF TypeOK, TipFile
    <2>4. \E tip \in {tipFile.tip, Fresh, cache[h]} : cache' = [cache EXCEPT ![h] = tip]
      BY <1>1, <2>3 DEF OpenHandle, CloseHandle
    <2>5. \A k \in Handles : cache'[k].hash \in D /\ cache'[k].seq <= n
      BY <1>a, <1>c, <1>d, <1>f, <2>3, <2>4
    <2> QED
      BY <1>d, <2>1, <2>2, <2>5
  <1>2. ASSUME NEW h \in Handles, Crash(h)
        PROVE  <1>e!1
    BY <1>2, <1>a, <1>c, <1>d, <1>f, <1>g, <1>h, <1>t DEF Crash, TypeOK
  <1>3. ASSUME NEW t \in Threads, NEW e \in Events, Number(t, e)
        PROVE  <1>e!1
    <2>1. cache[HandleOf[t]].seq \in Nat /\ cache[HandleOf[t]].seq <= n
      BY <1>d, <1>t DEF TypeOK, Tip
    <2>2. draft'[t].seq = cache[HandleOf[t]].seq + 1
      BY <1>3, <1>t DEF Number, TypeOK, NoDraft
    <2>3. draft'[t].seq \in 1 .. n + 1
      BY <2>1, <2>2, <1>a
    <2> QED
      BY <1>3, <1>d, <1>g, <1>h, <1>t, <2>3 DEF Number, TypeOK
  <1>4. ASSUME NEW t \in Threads, Link(t)
        PROVE  <1>e!1
    <2>1. /\ draft'[t].prev = cache[HandleOf[t]].hash
          /\ draft'[t].seq = draft[t].seq
      BY <1>4, <1>t DEF Link, TypeOK, Draft
    <2> QED
      BY <1>4, <1>d, <1>g, <1>h, <1>t, <2>1 DEF Link, TypeOK
  <1>5. ASSUME NEW t \in Threads, SealEntry(t)
        PROVE  <1>e!1
    <2>1. /\ draft'[t].prev = draft[t].prev
          /\ draft'[t].seq = draft[t].seq
      BY <1>5, <1>t DEF SealEntry, TypeOK, Seal, BodyOf
    <2> QED
      BY <1>5, <1>d, <1>g, <1>h, <1>t, <2>1 DEF SealEntry, TypeOK
  <1>6. ASSUME NEW t \in Threads, PublishSeq(t)
        PROVE  <1>e!1
    BY <1>6, <1>d, <1>g, <1>h, <1>t DEF PublishSeq, TypeOK, Tip
  <1>7. ASSUME NEW t \in Threads, PublishTip(t)
        PROVE  <1>e!1
    BY <1>7, <1>d, <1>g, <1>h, <1>t DEF PublishTip, TypeOK, Tip
  <1>8. ASSUME NEW t \in Threads, TruncateTip(t)
        PROVE  <1>e!1
    BY <1>8, <1>a, <1>c, <1>d, <1>f, <1>g, <1>h, <1>t DEF TruncateTip, Torn, TypeOK
  <1>9. ASSUME NEW t \in Threads, FillTip(t)
        PROVE  <1>e!1
    BY <1>9, <1>a, <1>c, <1>d, <1>f, <1>g, <1>h, <1>t DEF FillTip, TipFile, TypeOK
  <1>10. CASE UNCHANGED vars
    BY <1>10, <1>d, <1>g, <1>h DEF vars
  <1> QED
    BY <1>1, <1>2, <1>3, <1>4, <1>5, <1>6, <1>7, <1>8, <1>9, <1>10

LEMMA WriteLineTree ==
  ASSUME TypeInv, TreeInv, NEW t \in Threads, WriteLine(t)
  PROVE  TreeInv'
  <1>n. PICK n \in Nat : n = Len(log)
    BY LenProperties DEF TypeInv, TypeOK
  <1>t. TypeOK /\ DraftHasEvent
    BY DEF TypeInv
  <1>1. draft[t] \in Entry
    BY <1>t DEF WriteLine, TypeOK, DraftHasEvent, Draft, Entry
  <1>2. /\ log' = Append(log, draft[t])
        /\ Len(log') = n + 1
        /\ \A i \in 1 .. n : log'[i] = log[i]
        /\ log'[n + 1] = draft[t]
    BY <1>n, <1>t, <1>1, AppendProperties DEF WriteLine, TypeOK
  <1>3. \A i \in 0 .. n : Digests(i)' = Digests(i)
    <2> SUFFICES ASSUME NEW i \in 0 .. n PROVE Digests(i)' = Digests(i)
      OBVIOUS
    <2>1. \A j \in 1 .. i : log'[j].hash = log[j].hash
      BY <1>2
    <2>2. {log'[j].hash : j \in 1 .. i} = {log[j].hash : j \in 1 .. i}
      BY <2>1
    <2> QED
      BY <2>2 DEF Digests
  <1>4. /\ Digests(n) \subseteq Digests(n + 1)'
        /\ draft[t].hash \in Digests(n + 1)'
    <2>1. \A j \in 1 .. n : log[j].hash = log'[j].hash /\ j \in 1 .. n + 1
      BY <1>2
    <2>2. n + 1 \in 1 .. n + 1
      BY <1>2
    <2> QED
      BY <2>1, <2>2, <1>2 DEF Digests
  <1>5. /\ pc[t] = "sealed"
        /\ draft[t].prev \in Digests(n) /\ draft[t].seq \in 1 .. n + 1
    BY <1>n DEF TreeInv, LinkedDraft, WriteLine
  <1>6. \A i \in 1 .. n + 1 : log'[i].prev \in Digests(i - 1)' /\ log'[i].seq \in 1 .. i
    <2> SUFFICES ASSUME NEW i \in 1 .. n + 1
                 PROVE  log'[i].prev \in Digests(i - 1)' /\ log'[i].seq \in 1 .. i
      OBVIOUS
    <2>1. CASE i = n + 1
      BY <2>1, <1>2, <1>3, <1>5
    <2>2. CASE i # n + 1
      <3>1. i \in 1 .. n /\ i - 1 \in 0 .. n
        BY <2>2, <1>2
      <3>2. log[i].prev \in Digests(i - 1) /\ log[i].seq \in 1 .. i
        BY <3>1, <1>n DEF TreeInv
      <3> QED
        BY <3>1, <3>2, <1>2, <1>3
    <2> QED
      BY <2>1, <2>2
  <1>7. ASSUME NEW tip \in Tip, Known(tip)
        PROVE  tip.hash \in Digests(n + 1)' /\ tip.seq <= n + 1
    BY <1>7, <1>n, <1>2, <1>4 DEF Known, Tip
  <1>8. /\ \A h \in Handles : Known(cache[h])'
        /\ Known(tipFile.tip)'
        /\ \A u \in Threads : Known(pending[u])'
    BY <1>t, <1>2, <1>7 DEF TreeInv, WriteLine, Known, TypeOK
  <1>9. \A u \in Threads : LinkedDraft(u)'
    <2> SUFFICES ASSUME NEW u \in Threads PROVE LinkedDraft(u)'
      OBVIOUS
    <2>1. /\ draft' = draft
          /\ pc'[u] = IF u = t THEN "written" ELSE pc[u]
      BY <1>t DEF WriteLine, TypeOK
    <2>2. draft[u].seq \in Nat
      BY <1>t DEF TypeOK, Draft
    <2>3. LinkedDraft(u)
      BY DEF TreeInv
    <2>4. CASE u = t
      <3>1. draft[t].seq <= n + 1
        BY <1>2, <1>5
      <3> QED
        BY <2>1, <2>4, <3>1, <1>n, <1>2, <1>4 DEF LinkedDraft
    <2>5. CASE u # t
      BY <2>1, <2>2, <2>3, <2>5, <1>n, <1>2, <1>4 DEF LinkedDraft
    <2> QED
      BY <2>4, <2>5
  <1> QED
    BY <1>n, <1>2, <1>6, <1>8, <1>9 DEF TreeInv

LEMMA StepTree ==
  ASSUME TypeInv, TreeInv, [Next]_vars
  PROVE  TreeInv'
  <1>1. ASSUME NEW t \in Threads, WriteLine(t)
        PROVE  TreeInv'
    BY <1>1, WriteLineTree
  <1>2. CASE UNCHANGED log
    <2>1. \/ \E h \in Handles : OpenHandle(h) \/ CloseHandle(h) \/ Crash(h)
          \/ \E t \in Threads :
               \/ \E e \in Events : Number(t, e)
               \/ Link(t) \/ SealEntry(t) \/ PublishSeq(t) \/ PublishTip(t)
               \/ TruncateTip(t) \/ FillTip(t)
          \/ \E t \in Threads : WriteLine(t)
          \/ UNCHANGED vars
      BY DEF Next, Orderly, Killed, AppendStep
    <2> QED
      BY <1>1, <1>2, <2>1, StepTreeSameLog
  <1>3. CASE ~ UNCHANGED log
    BY <1>1, <1>3 DEF Next, Orderly, Killed, AppendStep, OpenHandle, CloseHandle, Crash,
       Number, Link, SealEntry, PublishSeq, PublishTip, TruncateTip, FillTip, vars
  <1> QED
    BY <1>2, <1>3

(***************************************************************************)
(* Under every interleaving of threads, processes and crashes the lines    *)
(* form a tree over genesis: append() hands out a hash only when the line  *)
(* that carries it is on disk.                                             *)
(***************************************************************************)
THEOREM LogIsATree ==
  ASSUME HashTotal
  PROVE  Spec => []ParentOnDisk
  <1>1. Init => TypeInv /\ TreeInv
    <2> SUFFICES ASSUME Init PROVE TypeInv /\ TreeInv
      OBVIOUS
    <2>1. TypeInv
      BY InitTyped
    <2> QED
      BY <2>1, InitTree DEF TypeInv
  <1>2. TypeInv /\ TreeInv /\ [Next]_vars => (TypeInv /\ TreeInv)'
    BY StepTyped, StepTree
  <1>3. TreeInv => ParentOnDisk
    BY DEF TreeInv, Known, ParentOnDisk
  <1> QED
    BY <1>1, <1>2, <1>3, PTL DEF Spec

(***************************************************************************)
(* Under every interleaving a number may be given twice, but no number     *)
(* runs ahead of the lines: a line's number is at most its position.       *)
(***************************************************************************)
THEOREM NumbersNeverAhead ==
  ASSUME HashTotal
  PROVE  Spec => []SeqNeverAhead
  <1>1. Init => TypeInv /\ TreeInv
    <2> SUFFICES ASSUME Init PROVE TypeInv /\ TreeInv
      OBVIOUS
    <2>1. TypeInv
      BY InitTyped
    <2> QED
      BY <2>1, InitTree DEF TypeInv
  <1>2. TypeInv /\ TreeInv /\ [Next]_vars => (TypeInv /\ TreeInv)'
    BY StepTyped, StepTree
  <1>3. TreeInv => SeqNeverAhead
    BY DEF TreeInv, Known, SeqNeverAhead
  <1> QED
    BY <1>1, <1>2, <1>3, PTL DEF Spec

(***************************************************************************)
(* One process at a time, one thread per handle, no kill in the window.    *)
(* SerialInv says, for every stage of the one running append, how far the  *)
(* file, the cache and tip.json have advanced: they agree on the last line *)
(* except in the window in which append() brings them up to date one after *)
(* the other.                                                              *)
(***************************************************************************)
SoleWriter == \A t, u \in Threads : HandleOf[t] = HandleOf[u] => t = u

LastTip == [seq |-> Len(log), hash |-> HashBefore(Len(log) + 1)]

OneOwner ==
  /\ \A g, h \in open : g = h
  /\ \A t \in Threads : pc[t] # "idle" => HandleOf[t] \in open

CacheCurrent ==
  \A h \in open :
    (\A t \in Threads : HandleOf[t] = h => pc[t] \notin {"written", "counted"})
      => cache[h] = LastTip

TipCurrent == InWindow = {} => tipFile.kind # "torn" /\ tipFile.tip = LastTip

DraftContinues(t) ==
  /\ pc[t] \in {"numbered", "linked", "sealed"} => draft[t].seq = Len(log) + 1
  /\ pc[t] \in {"linked", "sealed"} => draft[t].prev = LastTip.hash
  /\ pc[t] = "sealed" => draft[t].hash = EntryHash(draft[t].prev, BodyOf(draft[t]))
  /\ pc[t] \in {"written", "counted"} =>
       draft[t].seq = Len(log) /\ draft[t].hash = LastTip.hash
  /\ pc[t] = "counted" => cache[HandleOf[t]].seq = Len(log)
  /\ pc[t] = "truncated" => pending[t] = LastTip

SerialInv ==
  /\ WalkOk
  /\ OneOwner
  /\ CacheCurrent
  /\ TipCurrent
  /\ \A t \in Threads : DraftContinues(t)

\* A kill that leaves nothing half done.
GentleKill == \E h \in Handles : Crash(h) /\ \A t \in InWindow : HandleOf[t] # h

LEMMA AloneInside ==
  ASSUME SoleWriter, OneOwner, TypeOK, NEW t \in Threads, pc[t] # "idle",
         NEW u \in Threads, u # t
  PROVE  pc[u] = "idle"
  BY HandleAssumption DEF SoleWriter, OneOwner

LEMMA InitSerial ==
  ASSUME Init
  PROVE  SerialInv
  <1>1. Len(log) = 0 /\ LastTip = Fresh
    BY EmptySeq DEF Init, LastTip, Fresh, HashBefore
  <1> QED
    BY <1>1 DEF Init, SerialInv, WalkOk, OneOwner, CacheCurrent, TipCurrent,
       DraftContinues, Missing

LEMMA StepSerialSameLog ==
  ASSUME SoleWriter, TypeInv, SerialInv, UNCHANGED log,
         \/ open = {} /\ \E h \in Handles : OpenHandle(h)
         \/ \E h \in Handles : CloseHandle(h)
         \/ GentleKill
         \/ \E t \in Threads :
              \/ \E e \in Events : Number(t, e)
              \/ Link(t) \/ SealEntry(t) \/ PublishSeq(t) \/ PublishTip(t)
              \/ TruncateTip(t) \/ FillTip(t)
         \/ UNCHANGED vars
  PROVE  SerialInv'
  <1>t. TypeOK /\ DraftHasEvent
    BY DEF TypeInv
  <1>n. PICK n \in Nat : n = Len(log) /\ n = Len(log)'
    BY <1>t, LenProperties DEF TypeOK
  <1>p. PICK last : /\ last = LastTip /\ last = LastTip'
                    /\ last.seq = n /\ last = [seq |-> n, hash |-> last.hash]
    <2>1. LastTip' = LastTip
      BY <1>n DEF LastTip, HashBefore
    <2>2. LastTip.seq = n /\ LastTip = [seq |-> n, hash |-> LastTip.hash]
      BY <1>n DEF LastTip
    <2> QED
      BY <2>1, <2>2
  <1>w. WalkOk'
    BY <1>n DEF SerialInv, WalkOk, HashBefore
  <1>a. ASSUME NEW t \in Threads, pc[t] # "idle", NEW u \in Threads, u # t
        PROVE  pc[u] = "idle"
    BY <1>a, <1>t, AloneInside DEF SerialInv
  <1>i. /\ \A g, h \in open : g = h
        /\ \A t \in Threads : pc[t] # "idle" => HandleOf[t] \in open
        /\ \A h \in open :
             (\A t \in Threads : HandleOf[t] = h => pc[t] \notin {"written", "counted"})
               => cache[h] = last
        /\ (\A t \in Threads : pc[t] \notin {"written", "counted", "published", "truncated"})
             => tipFile.kind # "torn" /\ tipFile.tip = last
        /\ \A t \in Threads : DraftContinues(t)
    BY <1>p DEF SerialInv, OneOwner, CacheCurrent, TipCurrent, InWindow
  <1>d. \A t \in Threads : DraftContinues(t) <=>
          /\ pc[t] \in {"numbered", "linked", "sealed"} => draft[t].seq = n + 1
          /\ pc[t] \in {"linked", "sealed"} => draft[t].prev = last.hash
          /\ pc[t] = "sealed" => draft[t].hash = EntryHash(draft[t].prev, BodyOf(draft[t]))
          /\ pc[t] \in {"written", "counted"} => draft[t].seq = n /\ draft[t].hash = last.hash
          /\ pc[t] = "counted" => cache[HandleOf[t]].seq = n
          /\ pc[t] = "truncated" => pending[t] = last
    BY <1>n, <1>p DEF DraftContinues
  <1> DEFINE Goal ==
        /\ \A g, h \in open' : g = h
        /\ \A t \in Threads : pc'[t] # "idle" => HandleOf[t] \in open'
        /\ \A h \in open' :
             (\A t \in Threads : HandleOf[t] = h => pc'[t] \notin {"written", "counted"})
               => cache'[h] = last
        /\ (\A t \in Threads : pc'[t] \notin {"written", "counted", "published", "truncated"})
             => tipFile'.kind # "torn" /\ tipFile'.tip = last
        /\ \A t \in Threads :
             /\ pc'[t] \in {"numbered", "linked", "sealed"} => draft'[t].seq = n + 1
             /\ pc'[t] \in {"linked", "sealed"} => draft'[t].prev = last.hash
             /\ pc'[t] = "sealed" =>
                  draft'[t].hash = EntryHash(draft'[t].prev, BodyOf(draft'[t]))
             /\ pc'[t] \in {"written", "counted"} =>
                  draft'[t].seq = n /\ draft'[t].hash = last.hash
             /\ pc'[t] = "counted" => cache'[HandleOf[t]].seq = n
             /\ pc'[t] = "truncated" => pending'[t] = last
  <1>g. SUFFICES Goal
    BY <1>n, <1>p, <1>w DEF SerialInv, OneOwner, CacheCurrent, TipCurrent, InWindow,
       DraftContinues, BodyOf
  <1> USE HandleAssumption
  <1>1. ASSUME open = {}, NEW h \in Handles, OpenHandle(h)
        PROVE  Goal
    BY <1>1, <1>t, <1>i, <1>d DEF OpenHandle, TypeOK
  <1>2. ASSUME NEW h \in Handles, CloseHandle(h)
        PROVE  Goal
    BY <1>2, <1>t, <1>i, <1>d DEF CloseHandle, InFlight, TypeOK
  <1>3. ASSUME NEW t \in Threads, NEW e \in Events, Number(t, e)
        PROVE  Goal
    <2>1. cache[HandleOf[t]] = last
      BY <1>3, <1>i, <1>a DEF Number, SoleWriter
    <2>2. draft'[t].seq = n + 1
      BY <1>3, <1>t, <2>1, <1>p DEF Number, TypeOK, NoDraft
    <2> QED
      BY <1>3, <1>t, <1>i, <1>d, <2>2 DEF Number, TypeOK
  <1>4. ASSUME NEW t \in Threads, Link(t)
        PROVE  Goal
    <2>1. cache[HandleOf[t]] = last
      BY <1>4, <1>i, <1>a DEF Link
    <2>2. /\ draft'[t].prev = last.hash
          /\ draft'[t].seq = draft[t].seq
      BY <1>4, <1>t, <2>1 DEF Link, TypeOK, Draft
    <2> QED
      BY <1>4, <1>t, <1>i, <1>d, <2>2 DEF Link, TypeOK
  <1>5. ASSUME NEW t \in Threads, SealEntry(t)
        PROVE  Goal
    <2>1. cache[HandleOf[t]] = last
      BY <1>5, <1>i, <1>a DEF SealEntry
    <2>2. /\ draft'[t].prev = draft[t].prev
          /\ draft'[t].seq = draft[t].seq
          /\ draft'[t].event = draft[t].event
          /\ draft'[t].hash = EntryHash(last.hash, BodyOf(draft[t]))
      BY <1>5, <1>t, <2>1 DEF SealEntry, TypeOK, Seal, BodyOf
    <2>3. BodyOf(draft'[t]) = BodyOf(draft[t])
      BY <2>2 DEF BodyOf
    <2> QED
      BY <1>5, <1>t, <1>i, <1>d, <2>2, <2>3 DEF SealEntry, TypeOK
  <1>6. ASSUME NEW t \in Threads, PublishSeq(t)
        PROVE  Goal
    BY <1>6, <1>a, <1>t, <1>i, <1>d DEF PublishSeq, TypeOK, Tip
  <1>7. ASSUME NEW t \in Threads, PublishTip(t)
        PROVE  Goal
    <2>1. cache'[HandleOf[t]] = [seq |-> n, hash |-> last.hash]
      BY <1>7, <1>t, <1>i, <1>d DEF PublishTip, TypeOK, Tip
    <2> QED
      BY <1>7, <1>a, <1>t, <1>i, <1>d, <1>p, <2>1 DEF PublishTip, TypeOK
  <1>8. ASSUME NEW t \in Threads, TruncateTip(t)
        PROVE  Goal
    <2>1. cache[HandleOf[t]] = last
      BY <1>8, <1>i, <1>a DEF TruncateTip
    <2> QED
      BY <1>8, <1>a, <1>t, <1>i, <1>d, <2>1 DEF TruncateTip, TypeOK
  <1>9. ASSUME NEW t \in Threads, FillTip(t)
        PROVE  Goal
    BY <1>9, <1>a, <1>t, <1>i, <1>d DEF FillTip, TipFile, TypeOK
  <1>10. CASE UNCHANGED vars
    BY <1>10, <1>i, <1>d DEF vars
  <1>11. ASSUME NEW h \in Handles, Crash(h), \A t \in InWindow : HandleOf[t] # h
         PROVE  Goal
    <2>1. /\ \A t \in Threads : pc[t] # "idle" => HandleOf[t] = h
          /\ \A t \in Threads : pc'[t] = "idle"
      BY <1>11, <1>t, <1>i DEF Crash, TypeOK
    <2>2. \A t \in Threads : pc[t] \notin {"written", "counted", "published", "truncated"}
      BY <1>11, <2>1 DEF InWindow
    <2> QED
      BY <1>11, <1>t, <1>i, <2>1, <2>2 DEF Crash, TypeOK
  <1> QED
    BY <1>1, <1>2, <1>3, <1>4, <1>5, <1>6, <1>7, <1>8, <1>9, <1>10, <1>11 DEF GentleKill

LEMMA WriteLineSerial ==
  ASSUME SoleWriter, TypeInv, SerialInv, NEW t \in Threads, WriteLine(t)
  PROVE  SerialInv'
  <1>n. PICK n \in Nat : n = Len(log)
    BY LenProperties DEF TypeInv, TypeOK
  <1>t. TypeOK /\ DraftHasEvent
    BY DEF TypeInv
  <1>1. draft[t] \in Entry
    BY <1>t DEF WriteLine, TypeOK, DraftHasEvent, Draft, Entry
  <1>2. /\ Len(log') = n + 1
        /\ \A i \in 1 .. n : log'[i] = log[i]
        /\ log'[n + 1] = draft[t]
    BY <1>n, <1>t, <1>1, AppendProperties DEF WriteLine, TypeOK
  <1>3. /\ pc[t] = "sealed"
        /\ \A u \in Threads : pc'[u] = IF u = t THEN "written" ELSE pc[u]
        /\ UNCHANGED <<tipFile, cache, open, draft, pending>>
    BY <1>t DEF WriteLine, TypeOK
  <1>4. \A u \in Threads \ {t} : pc[u] = "idle"
    BY <1>3, <1>t, AloneInside DEF SerialInv
  <1>5. /\ draft[t].seq = n + 1
        /\ draft[t].prev = HashBefore(n + 1)
        /\ draft[t].hash = EntryHash(draft[t].prev, BodyOf(draft[t]))
    BY <1>3, <1>n DEF SerialInv, DraftContinues, LastTip
  <1>6. \A i \in 1 .. n + 1 : HashBefore(i)' = HashBefore(i)
    <2> SUFFICES ASSUME NEW i \in 1 .. n + 1 PROVE HashBefore(i)' = HashBefore(i)
      OBVIOUS
    <2>1. i # 1 => i - 1 \in 1 .. n
      BY <1>n
    <2> QED
      BY <2>1, <1>2 DEF HashBefore
  <1>7. WalkOk'
    <2> SUFFICES ASSUME NEW i \in 1 .. n + 1
                 PROVE  /\ log'[i].prev = HashBefore(i)
                        /\ log'[i].hash = EntryHash(log'[i].prev, BodyOf(log'[i]))
                        /\ log'[i].seq = i
      BY <1>2, <1>6 DEF WalkOk, BodyOf
    <2>1. CASE i = n + 1
      BY <2>1, <1>2, <1>5
    <2>2. CASE i # n + 1
      <3>1. i \in 1 .. n
        BY <2>2
      <3> QED
        BY <3>1, <1>2, <1>n DEF SerialInv, WalkOk
    <2> QED
      BY <2>1, <2>2
  <1>8. LastTip'.seq = n + 1 /\ LastTip'.hash = draft[t].hash
    BY <1>2 DEF LastTip, HashBefore
  <1>9. OneOwner'
    BY <1>3 DEF SerialInv, OneOwner
  <1>10. CacheCurrent'
    <2>1. \A h \in open : h = HandleOf[t]
      BY <1>3 DEF SerialInv, OneOwner
    <2> QED
      BY <2>1, <1>3 DEF CacheCurrent
  <1>11. TipCurrent'
    <2>1. t \in InWindow'
      BY <1>3 DEF InWindow
    <2> QED
      BY <2>1 DEF TipCurrent
  <1>12. ASSUME NEW u \in Threads
         PROVE  DraftContinues(u)'
    <2>1. CASE u = t
      BY <2>1, <1>2, <1>3, <1>5, <1>8 DEF DraftContinues
    <2>2. CASE u # t
      BY <2>2, <1>3, <1>4 DEF DraftContinues
    <2> QED
      BY <2>1, <2>2
  <1> QED
    BY <1>7, <1>9, <1>10, <1>11, <1>12 DEF SerialInv

LEMMA StepSerial ==
  ASSUME SoleWriter, TypeInv, SerialInv, [Serial \/ GentleKill]_vars
  PROVE  SerialInv'
  <1>1. ASSUME NEW t \in Threads, WriteLine(t)
        PROVE  SerialInv'
    BY <1>1, WriteLineSerial
  <1>2. CASE UNCHANGED log
    <2>1. \/ open = {} /\ \E h \in Handles : OpenHandle(h)
          \/ \E h \in Handles : CloseHandle(h)
          \/ GentleKill
          \/ \E t \in Threads :
               \/ \E e \in Events : Number(t, e)
               \/ Link(t) \/ SealEntry(t) \/ PublishSeq(t) \/ PublishTip(t)
               \/ TruncateTip(t) \/ FillTip(t)
          \/ \E t \in Threads : WriteLine(t)
          \/ UNCHANGED vars
      BY DEF Serial, AppendStep
    <2> QED
      BY <1>1, <1>2, <2>1, StepSerialSameLog
  <1>3. CASE ~ UNCHANGED log
    BY <1>1, <1>3 DEF Serial, AppendStep, OpenHandle, CloseHandle, GentleKill, Crash,
       Number, Link, SealEntry, PublishSeq, PublishTip, TruncateTip, FillTip, vars
  <1> QED
    BY <1>2, <1>3

LivesInv == TypeInv /\ struck \in BOOLEAN /\ (~struck => SerialInv)

LEMMA LivesInvariant ==
  ASSUME HashTotal, SoleWriter
  PROVE  LivesSpec => []LivesInv
  <1>1. LivesInit => LivesInv
    BY InitTyped, InitSerial DEF LivesInit, LivesInv
  <1>2. LivesInv /\ [LivesNext]_livesVars => LivesInv'
    <2> SUFFICES ASSUME LivesInv, [LivesNext]_livesVars PROVE LivesInv'
      OBVIOUS
    <2>1. [Next]_vars
      BY DEF LivesNext, livesVars, Strikes, Serial, Next, Orderly, Killed
    <2>2. TypeInv'
      BY <2>1, StepTyped DEF LivesInv
    <2>3. struck' \in BOOLEAN
      BY DEF LivesInv, LivesNext, livesVars, Strikes
    <2>4. ~struck' => ~struck /\ [Serial \/ GentleKill]_vars
      BY DEF LivesNext, livesVars, Strikes, GentleKill, InWindow
    <2>5. ~struck' => SerialInv'
      BY <2>4, StepSerial DEF LivesInv
    <2> QED
      BY <2>2, <2>3, <2>5 DEF LivesInv
  <1> QED
    BY <1>1, <1>2, PTL DEF LivesSpec

(***************************************************************************)
(* A process that has the workspace to itself, with one thread appending,  *)
(* never finds its own log in error: verify_chain accepts it whenever no   *)
(* append is running, across any number of exits, kills and starts, unless *)
(* a kill struck between a line and the end of its tip.json write.         *)
(***************************************************************************)
THEOREM SerialVerifies ==
  ASSUME HashTotal, SoleWriter
  PROVE  LivesSpec => []VerifiesUnlessStruck
  <1>1. LivesInv => VerifiesUnlessStruck
    <2> SUFFICES ASSUME LivesInv, ~struck, NEW h \in open, InFlight(h) = {}
                 PROVE  VerifyChain(h)
      BY DEF VerifiesUnlessStruck, VerifiesBetweenCalls
    <2>1. \A t \in Threads : HandleOf[t] = h => pc[t] = "idle"
      BY DEF InFlight
    <2>2. cache[h] = LastTip
      BY <2>1 DEF LivesInv, SerialInv, CacheCurrent
    <2>3. Len(log) \in Nat
      BY LenProperties DEF LivesInv, TypeInv, TypeOK
    <2>4. TipMatches(cache[h])
      BY <2>2, <2>3 DEF TipMatches, LastTip, HashBefore
    <2> QED
      BY <2>4 DEF LivesInv, SerialInv, VerifyChain
  <1> QED
    BY <1>1, LivesInvariant, PTL

(***************************************************************************)
(* Between calls tip.json names the last line, so the handle of the next   *)
(* process continues the chain where it ends, unless a kill struck.        *)
(***************************************************************************)
THEOREM SerialContinues ==
  ASSUME HashTotal, SoleWriter
  PROVE  LivesSpec => []ContinuesUnlessStruck
  <1>1. LivesInv => ContinuesUnlessStruck
    <2> SUFFICES ASSUME LivesInv, ~struck, \A t \in Threads : pc[t] = "idle"
                 PROVE  Reopens /\ tipFile.tip.seq = Len(log)
      BY DEF ContinuesUnlessStruck, NextProcessContinues
    <2>1. tipFile.kind # "torn" /\ tipFile.tip = LastTip
      BY DEF LivesInv, SerialInv, TipCurrent, InWindow
    <2>2. Len(log) \in Nat
      BY LenProperties DEF LivesInv, TypeInv, TypeOK
    <2>3. TipMatches(tipFile.tip)
      BY <2>1, <2>2 DEF TipMatches, LastTip, HashBefore
    <2> QED
      BY <2>1, <2>3 DEF Reopens, LastTip
  <1> QED
    BY <1>1, LivesInvariant, PTL

(***************************************************************************)
(* The refinement of AuditLog needs more: what tip.json holds while append *)
(* is inside its window (the last line but one, or nothing), and what a    *)
(* kill in the window leaves to every process after it.  Either tip.json   *)
(* is truncated and no handle can be constructed (Closed), or it names the *)
(* last line but one: the handles continue from there, and the first line  *)
(* one of them writes repeats the number of the last one (ForkAhead).      *)
(***************************************************************************)
PrevTip == [seq |-> Len(log) - 1, hash |-> HashBefore(Len(log))]

TipBehind ==
  \A t \in InWindow :
    /\ Len(log) > 0
    /\ pc[t] = "truncated" => tipFile.kind = "torn"
    /\ pc[t] # "truncated" => tipFile.kind # "torn" /\ tipFile.tip = PrevTip

ForkAhead ==
  /\ InWindow = {}
  /\ Len(log) > 0
  /\ tipFile.kind # "torn" /\ tipFile.tip = PrevTip
  /\ tipFile.tip.hash # log[Len(log)].hash
  /\ \A h \in open : cache[h] = tipFile.tip
  /\ \A t \in Threads : pc[t] # "idle" => HandleOf[t] \in open /\ draft[t].seq = Len(log)

Closed ==
  /\ tipFile.kind = "torn"
  /\ open = {}
  /\ \A t \in Threads : pc[t] = "idle"

BrokenInv == ~WalkOk \/ ForkAhead \/ Closed

MappedInv ==
  /\ LivesInv
  /\ ~struck => TipBehind
  /\ struck => BrokenInv

(***************************************************************************)
(* SHA-256 digests nothing to the hash it is chained to: without it the    *)
(* last line but one could pass for the last.                              *)
(***************************************************************************)
HashMoves == \A p \in Hash, b \in Bodies : EntryHash(p, b) # p

LEMMA StatusIntact ==
  ASSUME TypeInv, SerialInv, InWindow = {}
  PROVE  Status = "intact"
  <1>1. Len(log) \in Nat
    BY LenProperties DEF TypeInv, TypeOK
  <1>2. tipFile.kind # "torn" /\ tipFile.tip = LastTip
    BY DEF SerialInv, TipCurrent
  <1>3. Reopens
    BY <1>1, <1>2 DEF Reopens, TipMatches, LastTip, HashBefore
  <1> QED
    BY <1>3 DEF Status, SerialInv

LEMMA StatusUnsynced ==
  ASSUME SerialInv, InWindow # {}
  PROVE  Status = "unsynced"
  BY DEF Status, SerialInv

LEMMA StatusBroken ==
  ASSUME BrokenInv
  PROVE  Status = "broken"
  <1>1. CASE ForkAhead
    BY <1>1 DEF ForkAhead, Status, Reopens, TipMatches
  <1>2. CASE Closed
    BY <1>2 DEF Closed, Status, Reopens, InWindow
  <1> QED
    BY <1>1, <1>2 DEF BrokenInv, Status

StatusFits ==
  /\ ~struck /\ InWindow = {} => Status = "intact"
  /\ ~struck /\ InWindow # {} => Status = "unsynced"
  /\ struck => Status = "broken"

LEMMA StatusOf == MappedInv => StatusFits
  BY StatusIntact, StatusUnsynced, StatusBroken DEF MappedInv, LivesInv, StatusFits

LEMMA WriteLineRecords ==
  ASSUME TypeInv, NEW t \in Threads, WriteLine(t)
  PROVE  /\ draft[t].event \in Events
         /\ Recorded' = Append(Recorded, draft[t].event)
         /\ Len(log') = Len(log) + 1
         /\ \A i \in 1 .. Len(log) : log'[i] = log[i]
         /\ log'[Len(log) + 1] = draft[t]
  <1>n. PICK n \in Nat : n = Len(log)
    BY LenProperties DEF TypeInv, TypeOK
  <1>1. draft[t] \in Entry /\ draft[t].event \in Events
    BY DEF TypeInv, WriteLine, TypeOK, DraftHasEvent, Draft, Entry
  <1>2. /\ Len(log') = n + 1
        /\ \A i \in 1 .. n : log'[i] = log[i]
        /\ log'[n + 1] = draft[t]
    BY <1>n, <1>1, AppendProperties DEF TypeInv, WriteLine, TypeOK
  <1>3. Recorded \in Seq(Events) /\ Len(Recorded) = n
    <2>1. \A i \in 1 .. n : log[i].event \in Events
      <3>1. log \in Seq(Entry)
        BY DEF TypeInv, TypeOK
      <3>2. \A i \in 1 .. n : log[i] \in Entry
        BY <1>n, <3>1, ElementOfSeq
      <3> QED
        BY <3>2 DEF Entry
    <2>2. Recorded \in [1 .. n -> Events]
      BY <1>n, <2>1 DEF Recorded
    <2> QED
      BY <2>2
  <1>4. Recorded' = [i \in 1 .. n + 1 |-> IF i <= n THEN Recorded[i] ELSE draft[t].event]
    BY <1>n, <1>2 DEF Recorded
  <1>5. Append(Recorded, draft[t].event)
          = [i \in 1 .. n + 1 |-> IF i <= n THEN Recorded[i] ELSE draft[t].event]
    BY <1>3, <1>1
  <1> QED
    BY <1>n, <1>1, <1>2, <1>4, <1>5

\* Where no kill has struck, every step keeps tip.json one line behind.
LEMMA StepBehind ==
  ASSUME SoleWriter, TypeInv, SerialInv, SerialInv', TipBehind, Serial \/ GentleKill
  PROVE  TipBehind'
  <1>t. TypeOK /\ OneOwner
    BY DEF TypeInv, SerialInv
  <1>n. PICK n \in Nat : n = Len(log)
    BY <1>t, LenProperties DEF TypeOK
  <1>a. ASSUME NEW t \in Threads, pc[t] # "idle", NEW u \in Threads, u # t
        PROVE  pc[u] = "idle"
    BY <1>a, <1>t, AloneInside
  <1>1. ASSUME NEW t \in Threads, WriteLine(t)
        PROVE  TipBehind'
    <2>1. /\ pc[t] = "sealed" /\ tipFile' = tipFile
          /\ \A u \in Threads : pc'[u] = IF u = t THEN "written" ELSE pc[u]
      BY <1>1, <1>t DEF WriteLine, TypeOK
    <2>2. InWindow = {} /\ InWindow' = {t}
      BY <2>1, <1>a DEF InWindow
    <2>3. /\ Len(log') = n + 1
          /\ \A i \in 1 .. n : log'[i] = log[i]
      BY <1>1, <1>n, WriteLineRecords
    <2>4. tipFile.kind # "torn" /\ tipFile.tip = LastTip
      BY <2>2 DEF SerialInv, TipCurrent
    <2>5. PrevTip' = LastTip
      <3>1. HashBefore(n + 1)' = HashBefore(n + 1)
        BY <2>3 DEF HashBefore
      <3> QED
        BY <3>1, <2>3, <1>n DEF PrevTip, LastTip
    <2> QED
      BY <2>1, <2>2, <2>3, <2>4, <2>5 DEF TipBehind
  <1>2. CASE log' = log
    <2>1. PrevTip' = PrevTip /\ Len(log') = Len(log)
      BY <1>2 DEF PrevTip, HashBefore
    <2> USE HandleAssumption
    <2>2. ASSUME NEW t \in Threads, PublishSeq(t) \/ PublishTip(t)
          PROVE  TipBehind'
      <3>1. /\ t \in InWindow /\ pc[t] # "truncated" /\ tipFile' = tipFile
            /\ \A u \in Threads : pc'[u] # "idle" => u = t
            /\ pc'[t] # "truncated"
        BY <2>2, <1>a, <1>t DEF PublishSeq, PublishTip, InWindow, TypeOK
      <3> QED
        BY <3>1, <2>1 DEF TipBehind, InWindow
    <2>3. ASSUME NEW t \in Threads, TruncateTip(t)
          PROVE  TipBehind'
      <3>1. /\ t \in InWindow /\ tipFile'.kind = "torn"
            /\ \A u \in Threads : pc'[u] # "idle" => u = t
            /\ pc'[t] = "truncated"
        BY <2>3, <1>a, <1>t DEF TruncateTip, Torn, InWindow, TypeOK
      <3> QED
        BY <3>1, <2>1 DEF TipBehind, InWindow
    <2>4. ASSUME tipFile' = tipFile,
                 \A t \in Threads : t \in InWindow' => t \in InWindow /\ pc'[t] = pc[t]
          PROVE  TipBehind'
      <3>1. \A t \in InWindow' : t \in InWindow /\ pc'[t] = pc[t]
        BY <2>4 DEF InWindow
      <3> QED
        BY <2>4, <3>1, <2>1 DEF TipBehind
    <2>5. ASSUME NEW t \in Threads, FillTip(t)
          PROVE  TipBehind'
      <3>1. InWindow' = {}
        BY <2>5, <1>a, <1>t DEF FillTip, InWindow, TypeOK
      <3> QED
        BY <3>1 DEF TipBehind
    <2>6. ASSUME NEW h \in Handles, OpenHandle(h) \/ CloseHandle(h) \/ Crash(h)
          PROVE  TipBehind'
      BY <2>6, <2>4, <1>t DEF OpenHandle, CloseHandle, Crash, InWindow, TypeOK
    <2>7. ASSUME NEW t \in Threads,
                 (\E e \in Events : Number(t, e)) \/ Link(t) \/ SealEntry(t)
          PROVE  TipBehind'
      BY <2>7, <2>4, <1>t DEF Number, Link, SealEntry, InWindow, TypeOK
    <2>8. \/ \E h \in Handles : OpenHandle(h) \/ CloseHandle(h) \/ Crash(h)
          \/ \E t \in Threads :
               \/ \E e \in Events : Number(t, e)
               \/ Link(t) \/ SealEntry(t) \/ PublishSeq(t) \/ PublishTip(t)
               \/ TruncateTip(t) \/ FillTip(t)
          \/ \E t \in Threads : WriteLine(t)
      BY DEF Serial, GentleKill, AppendStep
    <2> QED
      BY <1>1, <2>2, <2>3, <2>5, <2>6, <2>7, <2>8
  <1>3. CASE log' # log
    BY <1>1, <1>3 DEF Serial, AppendStep, OpenHandle, CloseHandle, GentleKill, Crash,
       Number, Link, SealEntry, PublishSeq, PublishTip, TruncateTip, FillTip
  <1> QED
    BY <1>2, <1>3

\* A kill in the window breaks the log.
LEMMA StrikeBreaks ==
  ASSUME HashMoves, SoleWriter, TypeInv, SerialInv, TipBehind,
         NEW h \in Handles, Crash(h), NEW t \in InWindow, HandleOf[t] = h
  PROVE  BrokenInv'
  <1>t. TypeOK /\ OneOwner
    BY DEF TypeInv, SerialInv
  <1>n. PICK n \in Nat : n = Len(log)
    BY <1>t, LenProperties DEF TypeOK
  <1>1. /\ open' = {}
        /\ \A u \in Threads : pc'[u] = "idle"
        /\ log' = log /\ tipFile' = tipFile
    <2>1. \A u \in Threads : u # t => pc[u] = "idle"
      BY <1>t, AloneInside DEF InWindow
    <2>2. \A g \in open : g = h
      BY <1>t DEF OneOwner, InWindow, Crash
    <2> QED
      BY <2>1, <2>2, <1>t DEF Crash, TypeOK
  <1>2. CASE pc[t] = "truncated"
    BY <1>1, <1>2 DEF TipBehind, BrokenInv, Closed
  <1>3. CASE pc[t] # "truncated"
    <2>1. n > 0 /\ tipFile.kind # "torn" /\ tipFile.tip = PrevTip
      BY <1>3, <1>n DEF TipBehind
    <2>2. log[n].hash = EntryHash(log[n].prev, BodyOf(log[n])) /\ log[n].prev = HashBefore(n)
      BY <1>n, <2>1 DEF SerialInv, WalkOk
    <2>3. log[n] \in Entry
      BY <1>n, <1>t, <2>1, ElementOfSeq DEF TypeOK
    <2>4. log[n].prev \in Hash /\ BodyOf(log[n]) \in Bodies
      BY <2>3 DEF Entry, BodyOf, Bodies
    <2>5. log[n].hash # HashBefore(n)
      BY <2>2, <2>4 DEF HashMoves
    <2>6. tipFile.tip.hash # log[n].hash
      BY <2>1, <2>5, <1>n DEF PrevTip
    <2>7. PrevTip' = PrevTip /\ InWindow' = {}
      BY <1>1 DEF PrevTip, HashBefore, InWindow
    <2> QED
      BY <1>1, <1>n, <2>1, <2>6, <2>7 DEF BrokenInv, ForkAhead
  <1> QED
    BY <1>2, <1>3

\* Nothing a process does later mends a broken log.
LEMMA BrokenForGood ==
  ASSUME TypeInv, BrokenInv,
         (open = {} /\ \E h \in Handles : OpenHandle(h))
           \/ (\E h \in Handles : CloseHandle(h) \/ Crash(h))
           \/ (\E t \in Threads : AppendStep(t))
  PROVE  BrokenInv'
  <1>t. TypeOK
    BY DEF TypeInv
  <1>n. PICK n \in Nat : n = Len(log)
    BY <1>t, LenProperties DEF TypeOK
  <1>1. ASSUME NEW t \in Threads, WriteLine(t)
        PROVE  ~WalkOk'
    <2>1. /\ Len(log') = n + 1
          /\ \A i \in 1 .. n : log'[i] = log[i]
          /\ log'[n + 1] = draft[t]
      BY <1>1, <1>n, WriteLineRecords
    <2>2. pc[t] = "sealed"
      BY <1>1 DEF WriteLine
    <2>3. CASE ~WalkOk
      <3>1. PICK i \in 1 .. n :
              ~ /\ log[i].prev = HashBefore(i)
                /\ log[i].hash = EntryHash(log[i].prev, BodyOf(log[i]))
                /\ log[i].seq = i
        BY <2>3, <1>n DEF WalkOk
      <3>2. HashBefore(i)' = HashBefore(i) /\ log'[i] = log[i]
        BY <2>1 DEF HashBefore
      <3>3. i \in 1 .. Len(log')
        BY <2>1
      <3> QED
        BY <3>1, <3>2, <3>3 DEF WalkOk, BodyOf
    <2>4. CASE ForkAhead
      <3>1. log'[n + 1].seq = n
        BY <2>1, <2>2, <2>4, <1>n DEF ForkAhead
      <3> QED
        BY <3>1, <2>1 DEF WalkOk
    <2>5. CASE Closed
      BY <2>5, <2>2 DEF Closed
    <2> QED
      BY <2>3, <2>4, <2>5 DEF BrokenInv
  <1>2. ASSUME log' = log
        PROVE  BrokenInv'
    <2>1. CASE ~WalkOk
      BY <1>2, <2>1 DEF BrokenInv, WalkOk, HashBefore
    <2>2. CASE Closed
      BY <1>1, <2>2 DEF Closed, BrokenInv, AppendStep, OpenHandle, CloseHandle, Crash,
         Number, Link, SealEntry, PublishSeq, PublishTip, TruncateTip, FillTip
    <2>3. CASE ForkAhead
      <3>1. ASSUME tipFile' = tipFile, InWindow' = {},
                   \A h \in open' : cache'[h] = tipFile.tip,
                   \A t \in Threads : pc'[t] # "idle" =>
                     HandleOf[t] \in open' /\ draft'[t].seq = n
            PROVE  ForkAhead'
        <4>1. PrevTip' = PrevTip
          BY <1>2 DEF PrevTip, HashBefore
        <4> QED
          BY <3>1, <4>1, <2>3, <1>2, <1>n DEF ForkAhead
      <3>2. \A t \in Threads : pc[t] \in {"idle", "numbered", "linked", "sealed"}
        BY <2>3, <1>t DEF ForkAhead, InWindow, TypeOK, Stages
      <3> USE HandleAssumption
      <3>3. ASSUME open = {}, NEW h \in Handles, OpenHandle(h)
            PROVE  ForkAhead'
        BY <3>1, <3>3, <2>3, <1>n, <1>t DEF OpenHandle, ForkAhead, InWindow, TypeOK
      <3>4. ASSUME NEW h \in Handles, CloseHandle(h)
            PROVE  ForkAhead'
        BY <3>1, <3>4, <2>3, <1>n, <1>t DEF CloseHandle, InFlight, ForkAhead, InWindow, TypeOK
      <3>5. ASSUME NEW h \in Handles, Crash(h)
            PROVE  ForkAhead'
        BY <3>1, <3>5, <2>3, <1>n, <1>t DEF Crash, ForkAhead, InWindow, TypeOK
      <3>6. ASSUME NEW t \in Threads, NEW e \in Events, Number(t, e)
            PROVE  ForkAhead'
        <4>1. cache[HandleOf[t]].seq = n - 1
          BY <3>6, <2>3, <1>n DEF Number, ForkAhead, PrevTip
        <4>2. draft'[t].seq = n
          BY <3>6, <4>1, <1>t DEF Number, NoDraft, TypeOK
        <4> QED
          BY <3>1, <3>6, <4>2, <2>3, <1>n, <1>t DEF Number, ForkAhead, InWindow, TypeOK
      <3>7. ASSUME NEW t \in Threads, Link(t)
            PROVE  ForkAhead'
        <4>1. draft'[t].seq = draft[t].seq
          BY <3>7, <1>t DEF Link, TypeOK, Draft
        <4> QED
          BY <3>1, <3>7, <4>1, <2>3, <1>n, <1>t DEF Link, ForkAhead, InWindow, TypeOK
      <3>8. ASSUME NEW t \in Threads, SealEntry(t)
            PROVE  ForkAhead'
        <4>1. draft'[t].seq = draft[t].seq
          BY <3>8, <1>t DEF SealEntry, TypeOK, Seal, BodyOf
        <4> QED
          BY <3>1, <3>8, <4>1, <2>3, <1>n, <1>t DEF SealEntry, ForkAhead, InWindow, TypeOK
      <3>9. ASSUME NEW t \in Threads,
                   PublishSeq(t) \/ PublishTip(t) \/ TruncateTip(t) \/ FillTip(t)
            PROVE  FALSE
        BY <3>2, <3>9 DEF PublishSeq, PublishTip, TruncateTip, FillTip
      <3>10. ASSUME NEW t \in Threads, WriteLine(t)
             PROVE  FALSE
        BY <3>10, <1>2, <1>n, WriteLineRecords
      <3> QED
        BY <3>3, <3>4, <3>5, <3>6, <3>7, <3>8, <3>9, <3>10 DEF BrokenInv, AppendStep
    <2> QED
      BY <2>1, <2>2, <2>3 DEF BrokenInv
  <1>3. CASE log' # log
    BY <1>1, <1>3 DEF BrokenInv, AppendStep, OpenHandle, CloseHandle, Crash,
       Number, Link, SealEntry, PublishSeq, PublishTip, TruncateTip, FillTip
  <1> QED
    BY <1>2, <1>3

LEMMA MappedInvariant ==
  ASSUME HashTotal, HashMoves, SoleWriter
  PROVE  LivesSpec => []MappedInv
  <1>1. LivesInit => TypeInv /\ ~struck /\ TipBehind
    <2> SUFFICES ASSUME LivesInit PROVE TypeInv /\ ~struck /\ TipBehind
      OBVIOUS
    <2>1. InWindow = {}
      BY DEF LivesInit, Init, InWindow
    <2> QED
      BY <2>1, InitTyped DEF LivesInit, TipBehind
  <1>2. ASSUME LivesInv, LivesInv', MappedInv, [LivesNext]_livesVars
        PROVE  MappedInv'
    <2>1. TypeInv /\ (~struck => SerialInv) /\ (~struck' => SerialInv')
      BY <1>2 DEF LivesInv
    <2>2. CASE UNCHANGED livesVars
      BY <1>2, <2>2 DEF MappedInv, livesVars, vars, TipBehind, PrevTip, BrokenInv, ForkAhead,
         Closed, WalkOk, HashBefore, InWindow
    <2>3. CASE struck /\ LivesNext
      <3>1. struck'
        BY <2>3 DEF LivesNext, Strikes
      <3>2. BrokenInv'
        BY <1>2, <2>1, <2>3, BrokenForGood DEF MappedInv, LivesNext, Serial, Strikes
      <3> QED
        BY <1>2, <3>1, <3>2 DEF MappedInv
    <2>4. CASE ~struck /\ ~struck' /\ LivesNext
      <3>1. Serial \/ GentleKill
        BY <2>4 DEF LivesNext, Strikes, GentleKill
      <3>2. TipBehind'
        BY <1>2, <2>1, <2>4, <3>1, StepBehind DEF MappedInv
      <3> QED
        BY <1>2, <2>4, <3>2 DEF MappedInv
    <2>5. CASE ~struck /\ struck' /\ LivesNext
      <3>1. PICK h \in Handles : Strikes(h)
        BY <2>5 DEF LivesNext
      <3>2. Crash(h) /\ \E t \in InWindow : HandleOf[t] = h
        BY <2>5, <3>1 DEF Strikes
      <3>3. BrokenInv'
        BY <1>2, <2>1, <2>5, <3>2, StrikeBreaks DEF MappedInv
      <3> QED
        BY <1>2, <2>5, <3>3 DEF MappedInv
    <2> QED
      BY <1>2, <2>2, <2>3, <2>4, <2>5
  <1>3. LivesInv /\ ~struck /\ TipBehind => MappedInv
    BY DEF MappedInv
  <1>4. LivesInit => ~struck /\ TipBehind
    BY <1>1
  <1>5. LivesSpec => []LivesInv
    BY LivesInvariant
  <1> QED
    BY <1>2, <1>3, <1>4, <1>5, PTL DEF LivesSpec

(***************************************************************************)
(* One process at a time, killed at any step, one thread appending: the    *)
(* detailed append() implements the abstract audit log.  Writing the line  *)
(* is its Write, the end of the tip.json write its Sync, and a kill        *)
(* between the two its TearDown, after which verify_chain never accepts    *)
(* the log again; every other step is invisible.                           *)
(***************************************************************************)
THEOREM LedgerImplements ==
  ASSUME HashTotal, HashMoves, SoleWriter
  PROVE  LivesSpec => ImplementsAuditLog
  <1>1. LivesInit /\ MappedInv => Audit!AuditInit
    <2> SUFFICES ASSUME LivesInit, MappedInv PROVE Audit!AuditInit
      OBVIOUS
    <2>1. ~struck /\ InWindow = {} /\ Len(log) = 0
      BY EmptySeq DEF LivesInit, Init, InWindow
    <2>2. Status = "intact"
      BY <2>1, StatusOf DEF StatusFits
    <2>3. Recorded = <<>>
      BY <2>1 DEF Recorded
    <2> QED
      BY <2>2, <2>3 DEF Audit!AuditInit
  <1>2. ASSUME MappedInv, MappedInv', StatusFits, StatusFits', [LivesNext]_livesVars
        PROVE  [Audit!AuditNext]_(Audit!auditVars)
    <2>t. TypeInv /\ TypeOK
      BY <1>2 DEF MappedInv, LivesInv, TypeInv
    <2>s. /\ ~struck /\ InWindow = {} => Status = "intact"
          /\ ~struck /\ InWindow # {} => Status = "unsynced"
          /\ struck => Status = "broken"
          /\ ~struck' /\ InWindow' = {} => Status' = "intact"
          /\ ~struck' /\ InWindow' # {} => Status' = "unsynced"
          /\ struck' => Status' = "broken"
      BY <1>2 DEF StatusFits
    <2>1. ASSUME NEW t \in Threads, WriteLine(t), UNCHANGED struck
          PROVE  Audit!AuditNext
      <3>1. t \in InWindow'
        BY <2>1, <2>t DEF WriteLine, InWindow, TypeOK
      <3>2. ~struck => InWindow = {}
        <4> SUFFICES ASSUME ~struck, NEW u \in Threads PROVE u \notin InWindow
          BY DEF InWindow
        <4> QED
          BY <1>2, <2>1, <2>t, AloneInside
          DEF MappedInv, LivesInv, SerialInv, WriteLine, InWindow
      <3>3. draft[t].event \in Events /\ Recorded' = Append(Recorded, draft[t].event)
        BY <2>1, <2>t, WriteLineRecords
      <3> QED
        BY <2>1, <2>s, <3>1, <3>2, <3>3 DEF Audit!AuditNext, Audit!Write
    <2>2. CASE log' = log /\ struck' /\ struck
      BY <2>2, <2>s DEF Audit!auditVars, Recorded
    <2>3. CASE log' = log /\ struck' /\ ~struck
      <3>1. PICK h \in Handles : Strikes(h)
        BY <1>2, <2>3 DEF LivesNext, livesVars
      <3>2. InWindow # {}
        BY <2>3, <3>1 DEF Strikes
      <3> QED
        BY <2>3, <2>s, <3>2 DEF Audit!AuditNext, Audit!TearDown, Recorded
    <2>4. CASE log' = log /\ ~struck' /\ ~struck
      <3>1. CASE (InWindow = {}) <=> (InWindow' = {})
        BY <3>1, <2>4, <2>s DEF Audit!auditVars, Recorded
      <3>2. CASE InWindow # {} /\ InWindow' = {}
        BY <3>2, <2>4, <2>s DEF Audit!AuditNext, Audit!Sync, Recorded
      <3>3. CASE InWindow = {} /\ InWindow' # {}
        <4>1. \A t \in Threads :
                pc[t] \notin {"written", "counted", "published", "truncated"}
          BY <3>3 DEF InWindow
        <4>2. ASSUME NEW t \in Threads, WriteLine(t)
              PROVE  FALSE
          <5>1. Len(log) \in Nat
            BY <2>t, LenProperties DEF TypeOK
          <5> QED
            BY <4>2, <5>1, <2>4, <2>t, WriteLineRecords
        <4>3. \A t \in Threads :
                pc'[t] \notin {"written", "counted", "published", "truncated"}
          BY <1>2, <4>1, <4>2, <2>t, HandleAssumption
          DEF LivesNext, livesVars, vars, Strikes, Serial, AppendStep, OpenHandle,
              CloseHandle, Crash, Number, Link, SealEntry, PublishSeq, PublishTip,
              TruncateTip, FillTip, TypeOK
        <4> QED
          BY <3>3, <4>3 DEF InWindow
      <3> QED
        BY <3>1, <3>2, <3>3
    <2>5. struck => struck'
      BY <1>2 DEF LivesNext, livesVars, Strikes
    <2>6. CASE log' # log
      BY <1>2, <2>1, <2>6
      DEF LivesNext, livesVars, vars, Strikes, Serial, AppendStep, OpenHandle, CloseHandle,
          Crash, Number, Link, SealEntry, PublishSeq, PublishTip, TruncateTip, FillTip
    <2> QED
      BY <1>2, <2>2, <2>3, <2>4, <2>5, <2>6 DEF MappedInv, LivesInv
  <1>3. LivesSpec => []MappedInv
    BY MappedInvariant
  <1> QED
    BY <1>1, <1>2, <1>3, StatusOf, PTL DEF LivesSpec, ImplementsAuditLog, Audit!AuditSpec
-----------------------------------------------------------------------------
(***************************************************************************)
(* The bridges.                                                            *)
(***************************************************************************)
ConnStates == {"none", "top", "receiving", "serving", "closed"}

Works == [stage : {"ready", "acted", "recording", "reading"}, ok : BOOLEAN, lines : Nat]

(***************************************************************************)
(* Typing.  A thread in handle() is at a request it has received, so that  *)
(* request has an operation and its entry an event.                        *)
(***************************************************************************)
SocketsTyped ==
  /\ stopping \subseteq Handles
  /\ serving \subseteq open
  /\ path \in Handles \cup {NoBridge}

WiresTyped ==
  /\ conn \in [Threads -> ConnStates]
  /\ sent \in [Threads -> Seq(Events)]
  /\ got \in [Threads -> Nat]
  /\ answers \in [Threads -> Seq(BOOLEAN)]
  /\ work \in [Threads -> Works]
  /\ \A t \in Threads :
       /\ Len(answers[t]) <= got[t] /\ got[t] <= Len(sent[t])
       /\ conn[t] = "serving" => Len(answers[t]) < got[t]
       /\ work[t] # Ready => conn[t] = "serving"

RestTyped ==
  /\ effects \subseteq Events
  /\ careful \in BOOLEAN
  /\ late \in [Threads -> Nat]

AppendsHere == \A t \in Threads : work[t].stage = "recording" <=> pc[t] # "idle"

BridgeInv == TypeInv /\ SocketsTyped /\ WiresTyped /\ RestTyped /\ AppendsHere

LEMMA InitBridge == BridgeInit => BridgeInv
  <1> SUFFICES ASSUME BridgeInit PROVE BridgeInv
    OBVIOUS
  <1>1. TypeInv
    BY InitTyped DEF BridgeInit
  <1>2. /\ <<>> \in Seq(Events) /\ <<>> \in Seq(BOOLEAN)
        /\ Len(<<>>) = 0
    BY EmptySeq
  <1>3. Ready \in Works /\ Ready.stage = "ready"
    BY DEF Ready, Work, Works
  <1>4. SocketsTyped /\ RestTyped
    BY <1>1 DEF BridgeInit, Init, SocketsTyped, RestTyped
  <1>5. WiresTyped
    BY <1>2, <1>3 DEF BridgeInit, WiresTyped, ConnStates
  <1>6. AppendsHere
    BY <1>3 DEF BridgeInit, Init, AppendsHere
  <1> QED
    BY <1>1, <1>4, <1>5, <1>6 DEF BridgeInv

LEMMA AtARequest ==
  ASSUME WiresTyped, NEW t \in Threads, conn[t] = "serving"
  PROVE  Current(t) \in Events
  <1>1. /\ sent[t] \in Seq(Events) /\ answers[t] \in Seq(BOOLEAN)
        /\ Len(answers[t]) < Len(sent[t])
    BY LenProperties DEF WiresTyped
  <1>2. Len(answers[t]) + 1 \in 1 .. Len(sent[t])
    BY <1>1, LenProperties
  <1> QED
    BY <1>1, <1>2, ElementOfSeq DEF Current

(***************************************************************************)
(* Every step of the bridge is a step of the shared ledger or leaves it    *)
(* alone.                                                                  *)
(***************************************************************************)
LEMMA StepIsLedgerStep ==
  ASSUME BridgeInv, [BridgeNext]_bridgeVars
  PROVE  [Next]_vars
  <1>1. ASSUME NEW h \in Handles, Construct(h) \/ Start(h) \/ Stop(h) \/ Kill(h)
        PROVE  [Next]_vars
    BY <1>1 DEF Construct, Start, Stop, Kill, Next, Orderly, Killed
  <1>2. ASSUME NEW t \in Threads, NEW r \in Events, Send(t, r)
        PROVE  UNCHANGED vars
    BY <1>2 DEF Send
  <1>3. ASSUME NEW t \in Threads,
               \/ Loop(t) \/ Receive(t) \/ EndOfInput(t) \/ Other(t) \/ MemoryRemember(t)
               \/ RememberRaises(t) \/ SkillRun(t) \/ LedgerVerify(t) \/ Verdict(t)
        PROVE  UNCHANGED vars
    BY <1>3 DEF Loop, Receive, EndOfInput, Other, MemoryRemember, RememberRaises,
       SkillRun, LedgerVerify, Verdict
  <1>4. ASSUME NEW t \in Threads, RecordAndAnswer(t)
        PROVE  Next
    BY <1>4 DEF RecordAndAnswer, Next, Orderly, AppendStep
  <1>5. ASSUME NEW t \in Threads, LedgerAppend(t) \/ Record(t)
        PROVE  Next
    <2>1. conn[t] = "serving"
      BY <1>5 DEF LedgerAppend, Begins, Record, BridgeInv, WiresTyped, Ready, Work
    <2>2. Current(t) \in Events
      BY <2>1, AtARequest DEF BridgeInv
    <2>3. Number(t, Current(t))
      BY <1>5 DEF LedgerAppend, Record
    <2> QED
      BY <2>2, <2>3 DEF Next, Orderly, AppendStep
  <1> QED
    BY <1>1, <1>2, <1>3, <1>4, <1>5 DEF BridgeNext, bridgeVars

\* What an answer leaves of the connections.
LEMMA AnswerTyped ==
  ASSUME WiresTyped, NEW t \in Threads, NEW ok \in BOOLEAN, conn[t] = "serving",
         Answer(t, ok)
  PROVE  WiresTyped' /\ work' = [work EXCEPT ![t] = Ready]
  <1>1. /\ answers[t] \in Seq(BOOLEAN) /\ Len(answers[t]) \in Nat
        /\ got[t] \in Nat /\ Len(answers[t]) < got[t]
    BY LenProperties DEF WiresTyped
  <1>2. Append(answers[t], ok) \in Seq(BOOLEAN) /\ Len(Append(answers[t], ok)) = Len(answers[t]) + 1
    BY <1>1, AppendProperties
  <1>3. answers' \in [Threads -> Seq(BOOLEAN)] /\ got' = got /\ sent' = sent
    BY <1>2 DEF WiresTyped, Answer
  <1>4. Ready \in Works
    BY DEF Ready, Work, Works
  <1>5. conn' \in [Threads -> ConnStates] /\ work' \in [Threads -> Works]
    BY <1>4 DEF WiresTyped, Answer, ConnStates
  <1>6. ASSUME NEW u \in Threads
        PROVE  /\ Len(answers'[u]) <= got'[u] /\ got'[u] <= Len(sent'[u])
               /\ conn'[u] = "serving" => Len(answers'[u]) < got'[u]
               /\ work'[u] # Ready => conn'[u] = "serving"
    <2>1. CASE u = t
      <3>1. /\ answers'[t] = Append(answers[t], ok) /\ work'[t] = Ready
            /\ conn'[t] = "serving" => Len(answers[t]) + 1 # got[t]
        BY DEF WiresTyped, Answer
      <3>2. got[t] <= Len(sent[t])
        BY DEF WiresTyped
      <3> QED
        BY <2>1, <3>1, <3>2, <1>1, <1>2, <1>3
    <2>2. CASE u # t
      <3>1. answers'[u] = answers[u] /\ conn'[u] = conn[u] /\ work'[u] = work[u]
        BY <2>2 DEF WiresTyped, Answer
      <3> QED
        BY <3>1, <1>3 DEF WiresTyped
    <2> QED
      BY <2>1, <2>2
  <1>7. Ready' = Ready
    BY DEF Ready, Work
  <1> QED
    BY <1>3, <1>5, <1>6, <1>7 DEF WiresTyped, Answer

Untouched == UNCHANGED <<conn, sent, got, answers, work>>

\* A thread goes on in handle().
LEMMA WorkTyped ==
  ASSUME WiresTyped, NEW t \in Threads, NEW w \in Works, conn[t] = "serving",
         work' = [work EXCEPT ![t] = w], UNCHANGED <<wires, answers>>
  PROVE  WiresTyped'
  <1>1. Ready' = Ready
    BY DEF Ready, Work
  <1> QED
    BY <1>1 DEF WiresTyped, wires

LEMMA StepWires ==
  ASSUME BridgeInv, [BridgeNext]_bridgeVars
  PROVE  WiresTyped'
  <1>0. WiresTyped /\ TypeOK
    BY DEF BridgeInv, TypeInv
  <1>r. Ready' = Ready /\ Ready \in Works
    BY DEF Ready, Work, Works
  <1>u. ASSUME Untouched PROVE WiresTyped'
    BY <1>0, <1>r, <1>u DEF Untouched, WiresTyped
  <1>1. ASSUME NEW h \in Handles, Construct(h) \/ Start(h) \/ Stop(h)
        PROVE  WiresTyped'
    BY <1>1, <1>u DEF Construct, Start, Stop, Untouched, wires, handling
  <1>2. ASSUME NEW h \in Handles, Kill(h)
        PROVE  WiresTyped'
    BY <1>0, <1>2, <1>r DEF Kill, WiresTyped, ConnStates, Live
  <1>3. ASSUME NEW t \in Threads, NEW r \in Events, Send(t, r)
        PROVE  WiresTyped'
    <2>1. sent[t] \in Seq(Events) /\ Len(sent[t]) \in Nat /\ got[t] \in Nat
      BY <1>0, LenProperties DEF WiresTyped
    <2>2. Append(sent[t], r) \in Seq(Events) /\ Len(Append(sent[t], r)) = Len(sent[t]) + 1
      BY <2>1, AppendProperties
    <2>3. \A u \in Threads : Len(sent'[u]) \in {Len(sent[u]), Len(sent[u]) + 1}
      BY <1>0, <1>3, <2>2 DEF Send, WiresTyped
    <2>4. \A u \in Threads : Len(sent[u]) \in Nat /\ got[u] <= Len(sent[u]) /\ got[u] \in Nat
      BY <1>0, LenProperties DEF WiresTyped
    <2>5. sent' \in [Threads -> Seq(Events)]
      BY <1>0, <1>3, <2>2 DEF Send, WiresTyped
    <2>6. /\ conn' \in [Threads -> ConnStates]
          /\ \A u \in Threads : conn'[u] = "serving" <=> conn[u] = "serving"
      BY <1>0, <1>3 DEF Send, WiresTyped, ConnStates
    <2>7. UNCHANGED <<got, answers, work>>
      BY <1>3 DEF Send, handling
    <2>8. \A u \in Threads : got[u] <= Len(sent'[u])
      BY <2>3, <2>4
    <2> QED
      BY <1>0, <1>r, <2>5, <2>6, <2>7, <2>8 DEF WiresTyped
  <1>4. ASSUME NEW t \in Threads, Loop(t) \/ EndOfInput(t)
        PROVE  WiresTyped'
    BY <1>0, <1>4, <1>r DEF Loop, EndOfInput, WiresTyped, ConnStates, handling
  <1>5. ASSUME NEW t \in Threads, Receive(t)
        PROVE  WiresTyped'
    <2>1. PICK k \in got[t] .. Len(sent[t]) :
            /\ got' = [got EXCEPT ![t] = k]
            /\ conn' = [conn EXCEPT ![t] = IF k = got[t] THEN "top" ELSE "serving"]
      BY <1>5 DEF Receive
    <2>2. /\ Len(sent[t]) \in Nat /\ Len(answers[t]) \in Nat /\ got[t] \in Nat
          /\ Len(answers[t]) <= got[t]
      BY <1>0, LenProperties DEF WiresTyped
    <2>3. k \in Nat /\ got[t] <= k /\ k <= Len(sent[t])
      BY <2>1, <2>2
    <2>4. conn[t] = "receiving" /\ UNCHANGED <<sent, answers, work>>
      BY <1>5 DEF Receive, handling
    <2>5. work[t] = Ready
      BY <1>0, <2>4 DEF WiresTyped
    <2> QED
      BY <1>0, <1>r, <2>1, <2>2, <2>3, <2>4, <2>5 DEF WiresTyped, ConnStates
  <1>6. ASSUME NEW t \in Threads, Other(t)
        PROVE  WiresTyped'
    <2>1. conn[t] = "serving" /\ work[t] = Ready
      BY <1>6 DEF Other, Begins
    <2>2. CASE Answer(t, TRUE)
      BY <1>0, <2>1, <2>2, AnswerTyped
    <2>3. CASE conn' = [conn EXCEPT ![t] = "closed"] /\ UNCHANGED <<sent, got, answers, work>>
      BY <1>0, <1>r, <2>1, <2>3 DEF WiresTyped, ConnStates
    <2> QED
      BY <1>6, <2>2, <2>3 DEF Other
  <1>7. ASSUME NEW t \in Threads, RecordAndAnswer(t)
        PROVE  WiresTyped'
    <2>1. conn[t] = "serving" /\ work[t].ok \in BOOLEAN
      BY <1>0, <1>7 DEF RecordAndAnswer, WiresTyped, Works, Ready, Work
    <2>2. CASE Answer(t, work[t].ok)
      BY <1>0, <2>1, <2>2, AnswerTyped
    <2>3. CASE UNCHANGED <<wires, answers, work>>
      BY <1>u, <2>3 DEF Untouched, wires
    <2> QED
      BY <1>7, <2>2, <2>3 DEF RecordAndAnswer
  <1>8. ASSUME NEW t \in Threads, LedgerAppend(t) \/ MemoryRemember(t)
        PROVE  WiresTyped'
    <2>1. conn[t] = "serving" /\ UNCHANGED <<wires, answers>>
      BY <1>8 DEF LedgerAppend, MemoryRemember, Begins
    <2>2. PICK w \in Works : work' = [work EXCEPT ![t] = w]
      BY <1>8 DEF LedgerAppend, MemoryRemember, Work, Works
    <2> QED
      BY <1>0, <2>1, <2>2, WorkTyped
  <1>9. ASSUME NEW t \in Threads, RememberRaises(t)
        PROVE  WiresTyped'
    BY <1>0, <1>9, AnswerTyped DEF RememberRaises, Begins
  <1>10. ASSUME NEW t \in Threads, SkillRun(t)
         PROVE  WiresTyped'
    <2>1. conn[t] = "serving"
      BY <1>10 DEF SkillRun, Begins
    <2>2. CASE Answer(t, FALSE)
      BY <1>0, <2>1, <2>2, AnswerTyped
    <2>3. ASSUME NEW pass \in BOOLEAN, work' = [work EXCEPT ![t] = Work("acted", pass, 0)],
                 UNCHANGED <<wires, answers>>
          PROVE  WiresTyped'
      <3>1. Work("acted", pass, 0) \in Works
        BY DEF Work, Works
      <3> QED
        BY <1>0, <2>1, <2>3, <3>1, WorkTyped
    <2> QED
      BY <1>10, <2>2, <2>3 DEF SkillRun
  <1>11. ASSUME NEW t \in Threads, Record(t)
         PROVE  WiresTyped'
    <2>1. conn[t] = "serving"
      BY <1>0, <1>11 DEF Record, WiresTyped, Ready, Work
    <2>2. work' = [work EXCEPT ![t] = [work[t] EXCEPT !.stage = "recording"]]
      BY <1>11 DEF Record
    <2>3. [work[t] EXCEPT !.stage = "recording"] \in Works
      BY <1>0 DEF WiresTyped, Works
    <2>4. UNCHANGED <<wires, answers>>
      BY <1>11 DEF Record
    <2> QED
      BY <1>0, <2>1, <2>2, <2>3, <2>4, WorkTyped
  <1>12. ASSUME NEW t \in Threads, LedgerVerify(t)
         PROVE  WiresTyped'
    <2>1. conn[t] = "serving" /\ UNCHANGED <<wires, answers>>
      BY <1>12 DEF LedgerVerify, Begins
    <2>2. WalkOk \in BOOLEAN
      BY DEF WalkOk
    <2>3. Work("reading", WalkOk, Len(log)) \in Works
      BY <1>0, <2>2, LenProperties DEF Work, Works, TypeOK
    <2>4. work' = [work EXCEPT ![t] = Work("reading", WalkOk, Len(log))]
      BY <1>12 DEF LedgerVerify
    <2> QED
      BY <1>0, <2>1, <2>3, <2>4, WorkTyped
  <1>13. ASSUME NEW t \in Threads, Verdict(t)
         PROVE  WiresTyped'
    <2>1. conn[t] = "serving"
      BY <1>0, <1>13 DEF Verdict, WiresTyped, Ready, Work
    <2> DEFINE verdict == work[t].ok /\ (work[t].lines > 0
                             => log[work[t].lines].hash = cache[HandleOf[t]].hash)
    <2>2. verdict \in BOOLEAN
      OBVIOUS
    <2>3. Answer(t, verdict)
      BY <1>13 DEF Verdict
    <2> HIDE DEF verdict
    <2> QED
      BY <1>0, <2>1, <2>2, <2>3, AnswerTyped
  <1>14. CASE UNCHANGED bridgeVars
    BY <1>14, <1>u DEF bridgeVars, Untouched, wires, handling
  <1> QED
    BY <1>1, <1>2, <1>3, <1>4, <1>5, <1>6, <1>7, <1>8, <1>9, <1>10, <1>11, <1>12, <1>13, <1>14
    DEF BridgeNext

LEMMA StepRest ==
  ASSUME BridgeInv, [BridgeNext]_bridgeVars
  PROVE  SocketsTyped' /\ RestTyped'
  <1>0. SocketsTyped /\ RestTyped /\ WiresTyped /\ open \subseteq Handles
    BY DEF BridgeInv, TypeInv, TypeOK
  <1>1. ASSUME NEW h \in Handles, Construct(h)
        PROVE  SocketsTyped' /\ RestTyped'
    BY <1>0, <1>1 DEF Construct, OpenHandle, SocketsTyped, RestTyped, handling
  <1>2. ASSUME NEW h \in Handles, Start(h) \/ Stop(h)
        PROVE  SocketsTyped' /\ RestTyped'
    <2>1. SocketsTyped'
      BY <1>0, <1>2 DEF Start, Stop, SocketsTyped, vars
    <2>2. careful' \in BOOLEAN
      BY <1>0, <1>2 DEF Start, Stop, RestTyped
    <2>3. late' \in [Threads -> Nat] /\ effects' = effects
      BY <1>0, <1>2 DEF Start, Stop, RestTyped, handling
    <2> QED
      BY <1>0, <2>1, <2>2, <2>3 DEF RestTyped
  <1>3. ASSUME NEW h \in Handles, Kill(h)
        PROVE  SocketsTyped' /\ RestTyped'
    BY <1>0, <1>3 DEF Kill, Crash, SocketsTyped, RestTyped
  <1>4. ASSUME NEW t \in Threads, NEW r \in Events, Send(t, r)
        PROVE  SocketsTyped' /\ RestTyped'
    BY <1>0, <1>4 DEF Send, SocketsTyped, RestTyped, sockets, handling, vars
  <1>5. ASSUME NEW t \in Threads, Loop(t) \/ Receive(t) \/ EndOfInput(t)
        PROVE  SocketsTyped' /\ RestTyped'
    BY <1>0, <1>5 DEF Loop, Receive, EndOfInput, SocketsTyped, RestTyped, sockets, handling, vars
  <1>6. ASSUME NEW t \in Threads,
               Other(t) \/ RecordAndAnswer(t) \/ LedgerAppend(t) \/ Record(t)
               \/ LedgerVerify(t) \/ Verdict(t)
        PROVE  SocketsTyped' /\ RestTyped'
    <2>1. UNCHANGED <<sockets, effects, late, open>>
      BY <1>6 DEF Other, RecordAndAnswer, LedgerAppend, Record, LedgerVerify, Verdict,
         Link, SealEntry, WriteLine, PublishSeq, PublishTip, TruncateTip, FillTip, Number, vars
    <2>2. careful' \in BOOLEAN
      BY <1>0, <1>6 DEF Other, RecordAndAnswer, LedgerAppend, Record, LedgerVerify, Verdict,
         TakesTurn, RestTyped
    <2> QED
      BY <1>0, <2>1, <2>2 DEF SocketsTyped, RestTyped, sockets
  <1>7. ASSUME NEW t \in Threads, MemoryRemember(t) \/ RememberRaises(t) \/ SkillRun(t)
        PROVE  SocketsTyped' /\ RestTyped'
    <2>1. UNCHANGED <<sockets, late, open>>
      BY <1>7 DEF MemoryRemember, RememberRaises, SkillRun, vars
    <2>2. Current(t) \in Events
      BY <1>0, <1>7, AtARequest DEF MemoryRemember, RememberRaises, SkillRun, Begins
    <2>3. effects' \subseteq Events
      BY <1>0, <1>7, <2>2 DEF MemoryRemember, RememberRaises, SkillRun, RestTyped
    <2>4. careful' \in BOOLEAN
      BY <1>0, <1>7 DEF MemoryRemember, RememberRaises, SkillRun, TakesTurn, RestTyped
    <2> QED
      BY <1>0, <2>1, <2>3, <2>4 DEF SocketsTyped, RestTyped, sockets
  <1>8. CASE UNCHANGED bridgeVars
    BY <1>0, <1>8 DEF bridgeVars, SocketsTyped, RestTyped, sockets, handling, vars
  <1> QED
    BY <1>1, <1>2, <1>3, <1>4, <1>5, <1>6, <1>7, <1>8 DEF BridgeNext

LEMMA StepAppends ==
  ASSUME BridgeInv, [BridgeNext]_bridgeVars
  PROVE  AppendsHere'
  <1>0. AppendsHere /\ work \in [Threads -> Works] /\ pc \in [Threads -> Stages]
    BY DEF BridgeInv, WiresTyped, TypeInv, TypeOK
  <1>s. /\ Ready.stage = "ready"
        /\ \A stage, ok, lines : Work(stage, ok, lines).stage = stage
    BY DEF Ready, Work
  <1>1. ASSUME NEW h \in Handles, Construct(h) \/ Start(h) \/ Stop(h)
        PROVE  AppendsHere'
    BY <1>0, <1>1 DEF Construct, Start, Stop, OpenHandle, AppendsHere, handling, vars
  <1>2. ASSUME NEW h \in Handles, Kill(h)
        PROVE  AppendsHere'
    BY <1>0, <1>s, <1>2 DEF Kill, Crash, AppendsHere
  <1>3. ASSUME NEW t \in Threads, NEW r \in Events, Send(t, r)
        PROVE  AppendsHere'
    BY <1>0, <1>3 DEF Send, AppendsHere, handling, vars
  <1>4. ASSUME NEW t \in Threads, Loop(t) \/ Receive(t) \/ EndOfInput(t)
        PROVE  AppendsHere'
    BY <1>0, <1>4 DEF Loop, Receive, EndOfInput, AppendsHere, handling, vars
  <1>5. ASSUME NEW t \in Threads,
               Other(t) \/ MemoryRemember(t) \/ RememberRaises(t) \/ SkillRun(t)
               \/ LedgerVerify(t) \/ Verdict(t)
        PROVE  AppendsHere'
    <2>1. pc' = pc
      BY <1>5 DEF Other, MemoryRemember, RememberRaises, SkillRun, LedgerVerify, Verdict, vars
    <2>2. work[t].stage # "recording"
      BY <1>s, <1>5 DEF Other, MemoryRemember, RememberRaises, SkillRun, LedgerVerify, Verdict,
         Begins
    <2>3. PICK w : work' = [work EXCEPT ![t] = w] /\ w.stage # "recording"
      <3>1. \/ work' = [work EXCEPT ![t] = Ready]
            \/ UNCHANGED work
            \/ \E pass : work' = [work EXCEPT ![t] = Work("acted", pass, 0)]
            \/ work' = [work EXCEPT ![t] = Work("reading", WalkOk, Len(log))]
        BY <1>5 DEF Other, MemoryRemember, RememberRaises, SkillRun, LedgerVerify, Verdict, Answer
      <3>2. CASE UNCHANGED work
        <4>1. work' = [work EXCEPT ![t] = work[t]]
          BY <1>0, <3>2
        <4> QED
          BY <4>1, <2>2
      <3> QED
        BY <3>1, <3>2, <1>s
    <2> QED
      BY <1>0, <2>1, <2>2, <2>3 DEF AppendsHere
  <1>6. ASSUME NEW t \in Threads, LedgerAppend(t) \/ Record(t)
        PROVE  AppendsHere'
    <2>1. pc' = [pc EXCEPT ![t] = "numbered"]
      BY <1>6 DEF LedgerAppend, Record, Number
    <2>2. PICK w : work' = [work EXCEPT ![t] = w] /\ w.stage = "recording"
      <3>1. CASE LedgerAppend(t)
        BY <1>s, <3>1 DEF LedgerAppend
      <3>2. CASE Record(t)
        <4>1. work[t] \in Works
          BY <1>0
        <4>2. [work[t] EXCEPT !.stage = "recording"].stage = "recording"
          BY <4>1 DEF Works
        <4>3. work' = [work EXCEPT ![t] = [work[t] EXCEPT !.stage = "recording"]]
          BY <3>2 DEF Record
        <4> QED
          BY <4>2, <4>3
      <3> QED
        BY <1>6, <3>1, <3>2
    <2> QED
      BY <1>0, <2>1, <2>2 DEF AppendsHere
  <1>7. ASSUME NEW t \in Threads, RecordAndAnswer(t)
        PROVE  AppendsHere'
    <2>1. CASE FillTip(t) /\ Answer(t, work[t].ok)
      <3>1. pc' = [pc EXCEPT ![t] = "idle"]
        BY <2>1 DEF FillTip
      <3>2. work' = [work EXCEPT ![t] = Ready]
        BY <2>1 DEF Answer
      <3> QED
        BY <1>0, <1>s, <3>1, <3>2 DEF AppendsHere
    <2>2. CASE /\ Link(t) \/ SealEntry(t) \/ WriteLine(t)
                  \/ PublishSeq(t) \/ PublishTip(t) \/ TruncateTip(t)
               /\ UNCHANGED work
      <3>1. PICK stage \in Stages \ {"idle"} : pc' = [pc EXCEPT ![t] = stage]
        BY <2>2 DEF Link, SealEntry, WriteLine, PublishSeq, PublishTip, TruncateTip, Stages
      <3>2. pc[t] # "idle"
        BY <2>2 DEF Link, SealEntry, WriteLine, PublishSeq, PublishTip, TruncateTip
      <3> QED
        BY <1>0, <2>2, <3>1, <3>2 DEF AppendsHere
    <2> QED
      BY <1>7, <2>1, <2>2 DEF RecordAndAnswer
  <1>8. CASE UNCHANGED bridgeVars
    BY <1>0, <1>8 DEF bridgeVars, AppendsHere, handling, vars
  <1> QED
    BY <1>1, <1>2, <1>3, <1>4, <1>5, <1>6, <1>7, <1>8 DEF BridgeNext

LEMMA StepBridge ==
  ASSUME HashTotal, BridgeInv, [BridgeNext]_bridgeVars
  PROVE  BridgeInv'
  <1>1. TypeInv'
    BY StepIsLedgerStep, StepTyped DEF BridgeInv
  <1> QED
    BY <1>1, StepWires, StepRest, StepAppends DEF BridgeInv

(***************************************************************************)
(* The bridge, its connections and what its threads are at have their      *)
(* types in every run; in particular a thread in handle() is at a request  *)
(* it has received and not answered.                                       *)
(***************************************************************************)
THEOREM BridgeTyped ==
  ASSUME HashTotal
  PROVE  BridgeSpec => []BridgeTypeOK
  <1>1. BridgeInv => BridgeTypeOK
    BY DEF BridgeInv, TypeInv, SocketsTyped, WiresTyped, RestTyped, AppendsHere,
       BridgeTypeOK, ConnStates, Works
  <1>2. BridgeInv /\ [BridgeNext]_bridgeVars => BridgeInv'
    BY StepBridge
  <1> QED
    BY <1>1, <1>2, InitBridge, PTL DEF BridgeSpec

(***************************************************************************)
(* The bridge is an environment of the ledger: its connections, stops and  *)
(* kills never do to the log what threads and crashes may not do, so the   *)
(* lines form a tree and no number runs ahead of them.                     *)
(***************************************************************************)
THEOREM BridgeUsesTheLedger ==
  ASSUME HashTotal
  PROVE  BridgeSpec => Spec /\ []ParentOnDisk /\ []SeqNeverAhead
  <1>1. BridgeInit => Init
    BY DEF BridgeInit
  <1>2. BridgeInv /\ [BridgeNext]_bridgeVars => BridgeInv'
    BY StepBridge
  <1>3. BridgeInv /\ [BridgeNext]_bridgeVars => [Next]_vars
    BY StepIsLedgerStep
  <1>4. BridgeSpec => Spec
    BY <1>1, <1>2, <1>3, InitBridge, PTL DEF BridgeSpec, Spec
  <1> QED
    BY <1>4, LogIsATree, NumbersNeverAhead, PTL

(***************************************************************************)
(* A thread waiting for input has received nothing since its bridge was    *)
(* stopped, since the loop looks at _stop before it waits again.           *)
(***************************************************************************)
LateInv ==
  \A t \in Threads :
    /\ late[t] \in {0, 1}
    /\ HandleOf[t] \notin stopping \/ conn[t] = "receiving" => late[t] = 0

LEMMA StepLate ==
  ASSUME BridgeInv, LateInv, [BridgeNext]_bridgeVars
  PROVE  LateInv'
  <1>0. /\ conn \in [Threads -> ConnStates] /\ late \in [Threads -> Nat]
        /\ work \in [Threads -> Works]
    BY DEF BridgeInv, WiresTyped, RestTyped
  <1>1. ASSUME NEW h \in Handles, Construct(h) \/ Start(h) \/ Stop(h) \/ Kill(h)
        PROVE  LateInv'
    BY <1>0, <1>1 DEF Construct, Start, Stop, Kill, LateInv, wires, Live
  <1>2. ASSUME NEW t \in Threads, NEW r \in Events, Send(t, r)
        PROVE  LateInv'
    BY <1>0, <1>2 DEF Send, LateInv, sockets
  <1>3. ASSUME NEW t \in Threads, Loop(t)
        PROVE  LateInv'
    BY <1>0, <1>3 DEF Loop, LateInv, sockets
  <1>4. ASSUME NEW t \in Threads, Receive(t)
        PROVE  LateInv'
    BY <1>0, <1>4 DEF Receive, LateInv, sockets
  <1>5. ASSUME NEW t \in Threads, EndOfInput(t)
        PROVE  LateInv'
    BY <1>0, <1>5 DEF EndOfInput, LateInv, sockets
  <1>6. ASSUME NEW t \in Threads,
               \/ Other(t) \/ RecordAndAnswer(t) \/ LedgerAppend(t) \/ MemoryRemember(t)
               \/ RememberRaises(t) \/ SkillRun(t) \/ Record(t) \/ LedgerVerify(t) \/ Verdict(t)
        PROVE  LateInv'
    <2>1. UNCHANGED <<sockets, late>>
      BY <1>6 DEF Other, RecordAndAnswer, LedgerAppend, MemoryRemember, RememberRaises,
         SkillRun, Record, LedgerVerify, Verdict
    <2>2. \A u \in Threads : conn'[u] = "receiving" => conn[u] = "receiving"
      BY <1>0, <1>6 DEF Other, RecordAndAnswer, LedgerAppend, MemoryRemember, RememberRaises,
         SkillRun, Record, LedgerVerify, Verdict, Answer, wires
    <2> QED
      BY <2>1, <2>2 DEF LateInv, sockets
  <1>7. CASE UNCHANGED bridgeVars
    BY <1>7 DEF bridgeVars, LateInv, sockets, wires
  <1> QED
    BY <1>1, <1>2, <1>3, <1>4, <1>5, <1>6, <1>7 DEF BridgeNext

(***************************************************************************)
(* However many connections there are and however often the bridge is      *)
(* stopped and started, a thread serves at most one chunk after stop().    *)
(***************************************************************************)
THEOREM OneChunkAfterStop ==
  ASSUME HashTotal
  PROVE  BridgeSpec => []StoppedServesOneChunk
  <1>1. BridgeInit => LateInv
    BY DEF BridgeInit, LateInv
  <1>2. BridgeInv /\ LateInv /\ [BridgeNext]_bridgeVars => (BridgeInv /\ LateInv)'
    BY StepBridge, StepLate
  <1>3. LateInv => StoppedServesOneChunk
    BY DEF LateInv, StoppedServesOneChunk
  <1> QED
    BY <1>1, <1>2, <1>3, InitBridge, PTL DEF BridgeSpec

-----------------------------------------------------------------------------
(***************************************************************************)
(* A request is at one place of one connection, so it is handled once.     *)
(* What the invariant says of it depends on where that is: a request its   *)
(* thread has not come to has stored nothing and has no line (Quiet); the  *)
(* one a thread is at has done what its stage says (AtWork), its effect    *)
(* before its line; for one that was answered, the answer says what is     *)
(* there.  A request whose thread was killed at it is in none of the       *)
(* three, and is never handled again.                                      *)
(***************************************************************************)
Noted == {log[i].event : i \in 1 .. Len(log)}

SentOnce ==
  \A t, u \in Threads : \A i \in 1 .. Len(sent[t]), j \in 1 .. Len(sent[u]) :
    sent[t][i] = sent[u][j] => t = u /\ i = j

NotedOnce == \A i, j \in 1 .. Len(log) : log[i].event = log[j].event => i = j

\* The thread has still to come to the j-th request of its connection.
Ahead(t, j) ==
  \/ j > Len(answers[t]) + 1
  \/ j = Len(answers[t]) + 1 /\ conn[t] # "closed" /\ work[t] = Ready

Quiet ==
  \A r \in Events :
    (\A t \in Threads : \A j \in 1 .. Len(sent[t]) : sent[t][j] = r => Ahead(t, j))
      => r \notin effects /\ r \notin Noted

Acted(r, ok) ==
  \/ Op[r] = "remember" /\ ok /\ r \in effects
  \/ Op[r] = "skill" /\ r \in WithManifest /\ (ok <=> r \in effects)

AtWork(t) ==
  LET r == Current(t) IN
  \/ work[t] = Ready
  \/ work[t].stage = "acted" /\ Acted(r, work[t].ok) /\ r \notin Noted
  \/ /\ work[t].stage = "recording"
     /\ draft[t].event = r
     /\ Acted(r, work[t].ok) \/ (Op[r] = "append" /\ work[t].ok /\ r \notin effects)
     /\ r \in Noted <=> t \in InWindow
  \/ work[t].stage = "reading" /\ Op[r] = "verify" /\ r \notin effects /\ r \notin Noted

\* What an answer promises of its request.
Promised(r, ok) ==
  IF ok THEN Op[r] \in Recording => r \in Noted /\ (Op[r] # "append" => r \in effects)
  ELSE r \in effects => r \notin Noted /\ (Op[r] = "remember" \/ r \notin WithManifest)

AnswersKept ==
  \A t \in Threads : \A j \in 1 .. Len(answers[t]) : Promised(sent[t][j], answers[t][j])

EffectFirst == \A r \in Events : Op[r] = "remember" /\ r \in Noted => r \in effects

RequestInv ==
  /\ SentOnce
  /\ NotedOnce
  /\ Quiet
  /\ \A t \in Threads : AtWork(t)
  /\ AnswersKept
  /\ EffectFirst

\* What is not about the request a thread is at stays as it is.
OthersAsTheyWere(t) ==
  /\ \A r \in Events \ {Current(t)} : (r \in effects' <=> r \in effects) /\ (r \in Noted' <=> r \in Noted)
  /\ \A u \in Threads \ {t} : work'[u] = work[u] /\ pc'[u] = pc[u] /\ draft'[u] = draft[u]

LEMMA WireFacts ==
  ASSUME WiresTyped, NEW t \in Threads
  PROVE  /\ sent[t] \in Seq(Events) /\ answers[t] \in Seq(BOOLEAN)
         /\ Len(sent[t]) \in Nat /\ Len(answers[t]) \in Nat
         /\ Len(answers[t]) <= Len(sent[t])
         /\ \A j \in 1 .. Len(sent[t]) : sent[t][j] \in Events
         /\ \A j \in 1 .. Len(answers[t]) : answers[t][j] \in BOOLEAN /\ j \in 1 .. Len(sent[t])
         /\ conn[t] = "serving" \/ work[t] # Ready =>
              /\ Len(answers[t]) + 1 \in 1 .. Len(sent[t])
              /\ Current(t) = sent[t][Len(answers[t]) + 1] /\ Current(t) \in Events
  <1>1. /\ sent[t] \in Seq(Events) /\ answers[t] \in Seq(BOOLEAN) /\ got[t] \in Nat
        /\ Len(answers[t]) <= got[t] /\ got[t] <= Len(sent[t])
        /\ conn[t] = "serving" \/ work[t] # Ready => Len(answers[t]) < got[t]
    BY DEF WiresTyped
  <1>2. Len(sent[t]) \in Nat /\ Len(answers[t]) \in Nat
    BY <1>1, LenProperties
  <1>3. /\ \A j \in 1 .. Len(sent[t]) : sent[t][j] \in Events
        /\ \A j \in 1 .. Len(answers[t]) : answers[t][j] \in BOOLEAN
    BY <1>1, ElementOfSeq
  <1> QED
    BY <1>1, <1>2, <1>3 DEF Current

\* Two places of the connections hold two requests.
LEMMA ApartRequests ==
  ASSUME WiresTyped, SentOnce, NEW t \in Threads, conn[t] = "serving"
  PROVE  /\ \A u \in Threads \ {t} : work[u] # Ready => Current(u) # Current(t)
         /\ \A u \in Threads : \A j \in 1 .. Len(answers[u]) : sent[u][j] # Current(t)
         /\ \A u \in Threads : \A j \in 1 .. Len(sent[u]) :
              sent[u][j] = Current(t) => u = t /\ j = Len(answers[t]) + 1
  <1>1. /\ Len(answers[t]) + 1 \in 1 .. Len(sent[t])
        /\ Current(t) = sent[t][Len(answers[t]) + 1]
    BY WireFacts
  <1>2. \A u \in Threads : \A j \in 1 .. Len(sent[u]) :
          sent[u][j] = Current(t) => u = t /\ j = Len(answers[t]) + 1
    BY <1>1 DEF SentOnce
  <1>3. ASSUME NEW u \in Threads \ {t}, work[u] # Ready PROVE Current(u) # Current(t)
    BY <1>2, <1>3, WireFacts
  <1>4. ASSUME NEW u \in Threads, NEW j \in 1 .. Len(answers[u]) PROVE sent[u][j] # Current(t)
    BY <1>2, WireFacts
  <1> QED
    BY <1>2, <1>3, <1>4

\* A request nobody has handled.
LEMMA QuietNow ==
  ASSUME WiresTyped, SentOnce, Quiet, NEW t \in Threads, conn[t] = "serving", work[t] = Ready
  PROVE  Current(t) \in Events /\ Current(t) \notin effects /\ Current(t) \notin Noted
  <1>1. \A u \in Threads : \A j \in 1 .. Len(sent[u]) : sent[u][j] = Current(t) => Ahead(u, j)
    BY ApartRequests DEF Ahead
  <1>2. Current(t) \in Events
    BY WireFacts
  <1> QED
    BY <1>1, <1>2 DEF Quiet

\* Steps that handle no request: threads only wait, or end.
LEMMA NobodyHandles ==
  ASSUME WiresTyped, RequestInv, SentOnce', UNCHANGED <<log, effects, answers>>,
         \A u \in Threads :
           /\ Len(sent'[u]) \in Nat /\ Len(sent[u]) <= Len(sent'[u])
           /\ \A j \in 1 .. Len(sent[u]) : sent'[u][j] = sent[u][j]
           /\ conn[u] = "closed" => conn'[u] = "closed"
           /\ \/ work'[u] = work[u] /\ pc'[u] = pc[u] /\ draft'[u] = draft[u]
              \/ work'[u] = Ready /\ (conn'[u] = "closed" \/ work[u] = Ready)
  PROVE  RequestInv'
  <1>1. Ready' = Ready /\ Noted' = Noted
    BY DEF Ready, Work, Noted
  <1>2. NotedOnce' /\ EffectFirst'
    BY <1>1 DEF RequestInv, NotedOnce, EffectFirst
  <1>3. \A u \in Threads, j \in Nat : Ahead(u, j)' => Ahead(u, j)
    BY <1>1 DEF Ahead
  <1>4. Quiet'
    <2> SUFFICES ASSUME NEW r \in Events,
                        \A t \in Threads : \A j \in 1 .. Len(sent'[t]) : sent'[t][j] = r => Ahead(t, j)'
                 PROVE  r \notin effects /\ r \notin Noted
      BY <1>1 DEF Quiet
    <2>1. ASSUME NEW t \in Threads, NEW j \in 1 .. Len(sent[t]), sent[t][j] = r
          PROVE  Ahead(t, j)
      <3>1. j \in 1 .. Len(sent'[t]) /\ sent'[t][j] = r
        BY <2>1, WireFacts
      <3> QED
        BY <1>3, <3>1
    <2> QED
      BY <2>1 DEF RequestInv, Quiet
  <1>5. ASSUME NEW t \in Threads PROVE AtWork(t)'
    <2>1. CASE work'[t] = Ready
      BY <1>1, <2>1 DEF AtWork
    <2>2. CASE work'[t] # Ready
      <3>1. work'[t] = work[t] /\ pc'[t] = pc[t] /\ draft'[t] = draft[t]
        BY <2>2
      <3>2. Current(t)' = Current(t)
        BY <2>2, <3>1, WireFacts DEF Current
      <3>3. AtWork(t)
        BY DEF RequestInv
      <3> QED
        BY <1>1, <3>1, <3>2, <3>3 DEF AtWork, Acted, InWindow
    <2> QED
      BY <2>1, <2>2
  <1>6. AnswersKept'
    <2> SUFFICES ASSUME NEW t \in Threads, NEW j \in 1 .. Len(answers[t])
                 PROVE  Promised(sent[t][j], answers[t][j])'
      BY DEF AnswersKept
    <2>1. sent'[t][j] = sent[t][j]
      BY WireFacts
    <2>2. Promised(sent[t][j], answers[t][j])
      BY DEF RequestInv, AnswersKept
    <2> QED
      BY <1>1, <2>1, <2>2 DEF Promised
  <1> QED
    BY <1>2, <1>4, <1>5, <1>6 DEF RequestInv

\* A thread handles its request and has not answered it yet.
LEMMA GoesOn ==
  ASSUME WiresTyped, RequestInv, NEW t \in Threads, conn[t] = "serving",
         UNCHANGED <<conn, sent, answers>>, OthersAsTheyWere(t), work'[t] # Ready,
         NotedOnce', AtWork(t)',
         Op[Current(t)] = "remember" /\ Current(t) \in Noted' => Current(t) \in effects'
  PROVE  RequestInv'
  <1>r. Ready' = Ready
    BY DEF Ready, Work
  <1>c. PICK r \in Events : r = Current(t)
    BY WireFacts
  <1>a. /\ \A u \in Threads \ {t} : work[u] # Ready => Current(u) # r
        /\ \A u \in Threads : \A j \in 1 .. Len(answers[u]) : sent[u][j] # r
        /\ \A u \in Threads : \A j \in 1 .. Len(sent[u]) :
             sent[u][j] = r => u = t /\ j = Len(answers[t]) + 1
    BY <1>c, ApartRequests DEF RequestInv
  <1>o. \A s \in Events \ {r} : (s \in effects' <=> s \in effects) /\ (s \in Noted' <=> s \in Noted)
    BY <1>c DEF OthersAsTheyWere
  <1>1. SentOnce'
    BY DEF RequestInv, SentOnce
  <1>2. \A u \in Threads, j \in Nat : Ahead(u, j)' => Ahead(u, j)
    <2> SUFFICES ASSUME NEW u \in Threads, NEW j \in Nat, Ahead(u, j)' PROVE Ahead(u, j)
      OBVIOUS
    <2>1. CASE u = t
      BY <1>r, <2>1 DEF Ahead
    <2>2. CASE u # t
      BY <1>r, <2>2 DEF Ahead, OthersAsTheyWere
    <2> QED
      BY <2>1, <2>2
  <1>3. ~ Ahead(t, Len(answers[t]) + 1)'
    <2>1. Len(answers[t]) \in Nat
      BY WireFacts
    <2> QED
      BY <1>r, <2>1 DEF Ahead
  <1>4. Quiet'
    <2> SUFFICES ASSUME NEW s \in Events,
                        \A u \in Threads : \A j \in 1 .. Len(sent[u]) : sent[u][j] = s => Ahead(u, j)'
                 PROVE  s \notin effects' /\ s \notin Noted'
      BY DEF Quiet
    <2>1. s # r
      <3>1. /\ Len(answers[t]) + 1 \in 1 .. Len(sent[t])
            /\ sent[t][Len(answers[t]) + 1] = r
        BY <1>c, WireFacts
      <3> QED
        BY <1>3, <3>1
    <2>2. \A u \in Threads : \A j \in 1 .. Len(sent[u]) : sent[u][j] = s => Ahead(u, j)
      BY <1>2
    <2>3. s \notin effects /\ s \notin Noted
      BY <2>2 DEF RequestInv, Quiet
    <2> QED
      BY <1>o, <2>1, <2>3
  <1>5. ASSUME NEW u \in Threads PROVE AtWork(u)'
    <2>1. CASE u # t /\ work[u] # Ready
      <3>1. PICK s : s = Current(u)
        OBVIOUS
      <3>2. s \in Events \ {r}
        BY <1>a, <2>1, <3>1, WireFacts
      <3>3. Current(u)' = s
        BY <3>1 DEF Current
      <3>4. work'[u] = work[u] /\ pc'[u] = pc[u] /\ draft'[u] = draft[u]
        BY <2>1 DEF OthersAsTheyWere
      <3>5. AtWork(u)
        BY DEF RequestInv
      <3>6. (u \in InWindow)' <=> u \in InWindow
        BY <3>4 DEF InWindow
      <3>7. \/ work[u].stage = "acted" /\ Acted(s, work[u].ok) /\ s \notin Noted
            \/ /\ work[u].stage = "recording"
               /\ draft[u].event = s
               /\ Acted(s, work[u].ok) \/ (Op[s] = "append" /\ work[u].ok /\ s \notin effects)
               /\ s \in Noted <=> u \in InWindow
            \/ work[u].stage = "reading" /\ Op[s] = "verify" /\ s \notin effects /\ s \notin Noted
        BY <2>1, <3>1, <3>5 DEF AtWork
      <3>8. Acted(s, work[u].ok)' <=> Acted(s, work[u].ok)
        BY <1>o, <3>2, <3>4 DEF Acted
      <3> QED
        BY <1>o, <3>2, <3>3, <3>4, <3>6, <3>7, <3>8 DEF AtWork
    <2>2. CASE u # t /\ work[u] = Ready
      BY <1>r, <2>2 DEF AtWork, OthersAsTheyWere
    <2> QED
      BY <2>1, <2>2
  <1>6. AnswersKept'
    <2> SUFFICES ASSUME NEW u \in Threads, NEW j \in 1 .. Len(answers[u])
                 PROVE  Promised(sent[u][j], answers[u][j])'
      BY DEF AnswersKept
    <2>1. sent[u][j] \in Events \ {r}
      BY <1>a, WireFacts
    <2>2. Promised(sent[u][j], answers[u][j])
      BY DEF RequestInv, AnswersKept
    <2> QED
      BY <1>o, <2>1, <2>2 DEF Promised
  <1>7. EffectFirst'
    BY <1>c, <1>o DEF RequestInv, EffectFirst
  <1> QED
    BY <1>1, <1>4, <1>5, <1>6, <1>7 DEF RequestInv

\* A thread answers its request.
LEMMA Answers ==
  ASSUME WiresTyped, RequestInv, NEW t \in Threads, conn[t] = "serving", NEW ok \in BOOLEAN,
         Answer(t, ok), OthersAsTheyWere(t), UNCHANGED log,
         NEW r, r = Current(t), Promised(r, ok)',
         Op[r] = "remember" /\ r \in Noted => r \in effects'
  PROVE  RequestInv'
  <1>r. Ready' = Ready /\ Noted' = Noted
    BY DEF Ready, Work, Noted
  <1>c. r \in Events
    BY WireFacts
  <1>w. /\ Len(answers[t]) \in Nat /\ Len(answers'[t]) = Len(answers[t]) + 1
        /\ \A j \in 1 .. Len(answers[t]) : answers'[t][j] = answers[t][j]
        /\ answers'[t][Len(answers[t]) + 1] = ok
        /\ \A u \in Threads \ {t} : answers'[u] = answers[u] /\ conn'[u] = conn[u]
        /\ sent' = sent /\ work'[t] = Ready
    <2>1. answers[t] \in Seq(BOOLEAN) /\ answers'[t] = Append(answers[t], ok)
      BY DEF WiresTyped, Answer
    <2> QED
      BY <2>1, AppendProperties, LenProperties DEF WiresTyped, Answer
  <1>a. /\ \A u \in Threads \ {t} : work[u] # Ready => Current(u) # r
        /\ \A u \in Threads : \A j \in 1 .. Len(answers[u]) : sent[u][j] # r
        /\ \A u \in Threads : \A j \in 1 .. Len(sent[u]) :
             sent[u][j] = r => u = t /\ j = Len(answers[t]) + 1
    BY ApartRequests DEF RequestInv
  <1>o. \A s \in Events \ {r} : (s \in effects' <=> s \in effects) /\ (s \in Noted' <=> s \in Noted)
    BY DEF OthersAsTheyWere
  <1>1. SentOnce'
    BY <1>w DEF RequestInv, SentOnce
  <1>2. \A u \in Threads, j \in Nat : Ahead(u, j)' => Ahead(u, j)
    <2> SUFFICES ASSUME NEW u \in Threads, NEW j \in Nat, Ahead(u, j)' PROVE Ahead(u, j)
      OBVIOUS
    <2>1. CASE u = t
      BY <1>w, <2>1 DEF Ahead
    <2>2. CASE u # t
      BY <1>r, <1>w, <2>2 DEF Ahead, OthersAsTheyWere
    <2> QED
      BY <2>1, <2>2
  <1>n. PICK n \in Nat : n = Len(answers[t]) + 1
    BY <1>w
  <1>3. ~ Ahead(t, n)'
    BY <1>n, <1>w DEF Ahead
  <1>4. Quiet'
    <2> SUFFICES ASSUME NEW s \in Events,
                        \A u \in Threads : \A j \in 1 .. Len(sent[u]) : sent[u][j] = s => Ahead(u, j)'
                 PROVE  s \notin effects' /\ s \notin Noted'
      BY <1>w DEF Quiet
    <2>1. s # r
      <3>1. n \in 1 .. Len(sent[t]) /\ sent[t][n] = r
        BY <1>n, WireFacts
      <3> QED
        BY <1>3, <3>1
    <2>2. \A u \in Threads : \A j \in 1 .. Len(sent[u]) : sent[u][j] = s => Ahead(u, j)
      BY <1>2
    <2>3. s \notin effects /\ s \notin Noted
      BY <2>2 DEF RequestInv, Quiet
    <2> QED
      BY <1>o, <2>1, <2>3
  <1>5. ASSUME NEW u \in Threads PROVE AtWork(u)'
    <2>1. CASE u # t /\ work[u] # Ready
      <3>1. PICK s : s = Current(u)
        OBVIOUS
      <3>2. s \in Events \ {r}
        BY <1>a, <2>1, <3>1, WireFacts
      <3>3. Current(u)' = s
        BY <1>w, <2>1, <3>1 DEF Current
      <3>4. work'[u] = work[u] /\ pc'[u] = pc[u] /\ draft'[u] = draft[u]
        BY <2>1 DEF OthersAsTheyWere
      <3>5. AtWork(u)
        BY DEF RequestInv
      <3>6. (u \in InWindow)' <=> u \in InWindow
        BY <3>4 DEF InWindow
      <3>7. \/ work[u].stage = "acted" /\ Acted(s, work[u].ok) /\ s \notin Noted
            \/ /\ work[u].stage = "recording"
               /\ draft[u].event = s
               /\ Acted(s, work[u].ok) \/ (Op[s] = "append" /\ work[u].ok /\ s \notin effects)
               /\ s \in Noted <=> u \in InWindow
            \/ work[u].stage = "reading" /\ Op[s] = "verify" /\ s \notin effects /\ s \notin Noted
        BY <2>1, <3>1, <3>5 DEF AtWork
      <3>8. Acted(s, work[u].ok)' <=> Acted(s, work[u].ok)
        BY <1>o, <3>2, <3>4 DEF Acted
      <3> QED
        BY <1>o, <3>2, <3>3, <3>4, <3>6, <3>7, <3>8 DEF AtWork
    <2>2. CASE u # t /\ work[u] = Ready
      BY <1>r, <2>2 DEF AtWork, OthersAsTheyWere
    <2>3. CASE u = t
      BY <1>r, <1>w, <2>3 DEF AtWork
    <2> QED
      BY <2>1, <2>2, <2>3
  <1>6. AnswersKept'
    <2> SUFFICES ASSUME NEW u \in Threads, NEW j \in 1 .. Len(answers'[u])
                 PROVE  Promised(sent[u][j], answers[u][j])'
      BY DEF AnswersKept
    <2>1. CASE u = t /\ j = Len(answers[t]) + 1
      <3>1. sent'[u][j] = r /\ answers'[u][j] = ok
        BY <1>w, <2>1, WireFacts
      <3> QED
        BY <3>1 DEF Promised
    <2>2. CASE ~(u = t /\ j = Len(answers[t]) + 1)
      <3>1. j \in 1 .. Len(answers[u]) /\ answers'[u][j] = answers[u][j] /\ sent'[u][j] = sent[u][j]
        BY <1>w, <2>2
      <3>2. sent[u][j] \in Events \ {r}
        BY <1>a, <3>1, WireFacts
      <3>3. Promised(sent[u][j], answers[u][j])
        BY <3>1 DEF RequestInv, AnswersKept
      <3> QED
        BY <1>o, <3>1, <3>2, <3>3 DEF Promised
    <2> QED
      BY <2>1, <2>2
  <1>7. EffectFirst'
    BY <1>c, <1>o, <1>r DEF RequestInv, EffectFirst
  <1>8. NotedOnce'
    BY DEF RequestInv, NotedOnce
  <1> QED
    BY <1>1, <1>4, <1>5, <1>6, <1>7, <1>8 DEF RequestInv

LEMMA NotedIs ==
  ASSUME TypeOK, NEW r
  PROVE  r \in Noted <=> \E i \in 1 .. Len(log) : log[i].event = r
  BY DEF Noted

LEMMA LogNotes ==
  ASSUME TypeInv, NEW t \in Threads, WriteLine(t)
  PROVE  /\ Noted' = Noted \cup {draft[t].event}
         /\ NotedOnce /\ draft[t].event \notin Noted => NotedOnce'
  <1>n. PICK n \in Nat : n = Len(log)
    BY LenProperties DEF TypeInv, TypeOK
  <1>1. draft[t] \in Entry
    BY DEF WriteLine, TypeInv, TypeOK, DraftHasEvent, Draft, Entry
  <1>2. /\ Len(log') = n + 1
        /\ \A i \in 1 .. n : log'[i] = log[i]
        /\ log'[n + 1] = draft[t]
    BY <1>n, <1>1, AppendProperties DEF WriteLine, TypeInv, TypeOK
  <1>3. 1 .. n + 1 = (1 .. n) \cup {n + 1}
    BY <1>n
  <1>4. Noted' = Noted \cup {draft[t].event}
    <2>1. Noted' = {log'[i].event : i \in 1 .. n + 1}
      BY <1>2 DEF Noted
    <2>2. Noted = {log[i].event : i \in 1 .. n}
      BY <1>n DEF Noted
    <2> QED
      BY <1>2, <1>3, <2>1, <2>2
  <1>5. ASSUME NotedOnce, draft[t].event \notin Noted PROVE NotedOnce'
    <2> SUFFICES ASSUME NEW i \in 1 .. n + 1, NEW j \in 1 .. n + 1, log'[i].event = log'[j].event
                 PROVE  i = j
      BY <1>2 DEF NotedOnce
    <2>1. \A k \in 1 .. n : log[k].event # draft[t].event
      BY <1>n, <1>5 DEF Noted
    <2> QED
      BY <1>2, <1>3, <1>5, <1>n, <2>1 DEF NotedOnce
  <1> QED
    BY <1>4, <1>5

LEMMA InitRequests == BridgeInit => RequestInv
  <1> SUFFICES ASSUME BridgeInit PROVE RequestInv
    OBVIOUS
  <1>1. Len(log) = 0 /\ \A t \in Threads : Len(sent[t]) = 0 /\ Len(answers[t]) = 0
    BY EmptySeq DEF BridgeInit, Init
  <1>2. Noted = {} /\ effects = {}
    BY <1>1 DEF Noted, BridgeInit
  <1> QED
    BY <1>1, <1>2 DEF BridgeInit, RequestInv, SentOnce, NotedOnce, Quiet, AtWork, AnswersKept,
       EffectFirst

\* The sockets and the wires.
LEMMA StepUnhandled ==
  ASSUME BridgeInv, WiresTyped', RequestInv,
         \/ \E h \in Handles : Construct(h) \/ Start(h) \/ Stop(h) \/ Kill(h)
         \/ \E t \in Threads : (\E r \in Events : Send(t, r)) \/ Loop(t) \/ Receive(t) \/ EndOfInput(t)
         \/ UNCHANGED bridgeVars
  PROVE  RequestInv'
  <1>0. WiresTyped /\ TypeOK /\ RequestInv /\ SentOnce
    BY DEF BridgeInv, TypeInv, RequestInv
  <1>l. \A u \in Threads : Len(sent[u]) \in Nat
    BY <1>0, WireFacts
  <1>1. ASSUME NEW h \in Handles, Construct(h) \/ Start(h) \/ Stop(h)
        PROVE  RequestInv'
    <2>1. UNCHANGED <<log, effects, answers, sent, conn, work, pc, draft>>
      BY <1>1 DEF Construct, OpenHandle, Start, Stop, wires, handling, vars
    <2> QED
      BY <1>0, <1>l, <2>1, NobodyHandles DEF SentOnce
  <1>2. ASSUME NEW h \in Handles, Kill(h)
        PROVE  RequestInv'
    <2>1. UNCHANGED <<log, effects, answers, sent>>
      BY <1>2 DEF Kill, Crash
    <2>2. ASSUME NEW u \in Threads
          PROVE  /\ conn[u] = "closed" => conn'[u] = "closed"
                 /\ \/ work'[u] = work[u] /\ pc'[u] = pc[u] /\ draft'[u] = draft[u]
                    \/ work'[u] = Ready /\ (conn'[u] = "closed" \/ work[u] = Ready)
      <3>1. /\ conn'[u] = IF HandleOf[u] = h /\ Live(u) THEN "closed" ELSE conn[u]
            /\ work'[u] = IF HandleOf[u] = h THEN Ready ELSE work[u]
            /\ HandleOf[u] # h => pc'[u] = pc[u] /\ draft'[u] = draft[u]
        BY <1>0, <1>2 DEF Kill, Crash, WiresTyped, TypeOK
      <3>2. work[u] # Ready => conn[u] = "serving"
        BY <1>0 DEF WiresTyped
      <3> QED
        BY <3>1, <3>2 DEF Live
    <2>3. SentOnce'
      BY <1>0, <2>1 DEF SentOnce
    <2> QED
      BY <1>0, <1>l, <2>1, <2>2, <2>3, NobodyHandles
  <1>3. ASSUME NEW t \in Threads, NEW r \in Events, Send(t, r)
        PROVE  RequestInv'
    <2>1. /\ UNCHANGED <<log, effects, answers, work, pc, draft>>
          /\ \A u \in Threads : conn[u] = "closed" => conn'[u] = "closed"
      BY <1>0, <1>3 DEF Send, handling, vars, WiresTyped
    <2>2. /\ sent'[t] = Append(sent[t], r) /\ sent[t] \in Seq(Events)
          /\ \A u \in Threads \ {t} : sent'[u] = sent[u]
      BY <1>0, <1>3 DEF Send, WiresTyped
    <2>3. /\ Len(sent'[t]) = Len(sent[t]) + 1
          /\ \A j \in 1 .. Len(sent[t]) : sent'[t][j] = sent[t][j]
          /\ sent'[t][Len(sent[t]) + 1] = r
      BY <2>2, AppendProperties
    <2>4. \A u \in Threads : \A j \in 1 .. Len(sent[u]) : sent[u][j] # r
      BY <1>3 DEF Send, Requested
    <2>5. \A u \in Threads : /\ Len(sent'[u]) \in Nat /\ Len(sent[u]) <= Len(sent'[u])
                             /\ \A j \in 1 .. Len(sent[u]) : sent'[u][j] = sent[u][j]
      BY <1>l, <2>2, <2>3
    <2>6. SentOnce'
      <3> SUFFICES ASSUME NEW u \in Threads, NEW v \in Threads,
                          NEW i \in 1 .. Len(sent'[u]), NEW j \in 1 .. Len(sent'[v]),
                          sent'[u][i] = sent'[v][j]
                   PROVE  u = v /\ i = j
        BY DEF SentOnce
      <3>1. \A w \in Threads, k \in Nat : k \in 1 .. Len(sent'[w]) =>
              \/ k \in 1 .. Len(sent[w]) /\ sent'[w][k] = sent[w][k] /\ sent'[w][k] # r
              \/ w = t /\ k = Len(sent[t]) + 1 /\ sent'[w][k] = r
        <4> SUFFICES ASSUME NEW w \in Threads, NEW k \in Nat, k \in 1 .. Len(sent'[w])
                     PROVE  \/ k \in 1 .. Len(sent[w]) /\ sent'[w][k] = sent[w][k] /\ sent'[w][k] # r
                            \/ w = t /\ k = Len(sent[t]) + 1 /\ sent'[w][k] = r
          OBVIOUS
        <4>1. CASE w = t
          BY <1>l, <2>3, <2>4, <4>1
        <4>2. CASE w # t
          BY <2>2, <2>4, <4>2
        <4> QED
          BY <4>1, <4>2
      <3>2. i \in Nat /\ j \in Nat
        BY <2>5
      <3> QED
        BY <1>0, <3>1, <3>2 DEF SentOnce
    <2> QED
      BY <1>0, <2>1, <2>5, <2>6, NobodyHandles
  <1>4. ASSUME NEW t \in Threads, Loop(t) \/ Receive(t) \/ EndOfInput(t)
        PROVE  RequestInv'
    <2>1. /\ UNCHANGED <<log, effects, answers, sent, work, pc, draft>>
          /\ \A u \in Threads : conn[u] = "closed" => conn'[u] = "closed"
      BY <1>0, <1>4 DEF Loop, Receive, EndOfInput, handling, vars, WiresTyped
    <2>2. SentOnce'
      BY <1>0, <2>1 DEF SentOnce
    <2> QED
      BY <1>0, <1>l, <2>1, <2>2, NobodyHandles
  <1>5. CASE UNCHANGED bridgeVars
    <2>1. UNCHANGED <<log, effects, answers, sent, conn, work, pc, draft>>
      BY <1>5 DEF bridgeVars, wires, handling, vars
    <2> QED
      BY <1>0, <1>l, <2>1, NobodyHandles DEF SentOnce
  <1> QED
    BY <1>1, <1>2, <1>3, <1>4, <1>5

\* The request a thread begins with.
LEMMA BeginStep ==
  ASSUME BridgeInv, RequestInv, NEW t \in Threads,
         \/ Other(t) \/ LedgerAppend(t) \/ MemoryRemember(t) \/ RememberRaises(t)
         \/ SkillRun(t) \/ LedgerVerify(t)
  PROVE  RequestInv'
  <1>0. WiresTyped /\ TypeOK /\ TypeInv /\ NotedOnce
    BY DEF BridgeInv, TypeInv, RequestInv
  <1>b. conn[t] = "serving" /\ work[t] = Ready
    BY DEF Other, LedgerAppend, MemoryRemember, RememberRaises, SkillRun, LedgerVerify, Begins
  <1>c. PICK r : r = Current(t)
    OBVIOUS
  <1>d. r \in Events /\ r \notin effects /\ r \notin Noted
    BY <1>0, <1>b, <1>c, QuietNow DEF RequestInv
  <1>l. UNCHANGED log
    BY DEF Other, LedgerAppend, MemoryRemember, RememberRaises, SkillRun, LedgerVerify, Number, vars
  <1>n. Noted' = Noted /\ NotedOnce'
    BY <1>0, <1>l DEF Noted, NotedOnce
  <1>k. UNCHANGED <<sent, answers>> => Current(t)' = r
    BY <1>c DEF Current
  <1>o. OthersAsTheyWere(t)
    <2>1. effects' \in {effects, effects \cup {r}}
      BY <1>c DEF Other, LedgerAppend, MemoryRemember, RememberRaises, SkillRun, LedgerVerify
    <2>2. \A u \in Threads \ {t} : work'[u] = work[u]
      BY <1>0 DEF Other, LedgerAppend, MemoryRemember, RememberRaises, SkillRun, LedgerVerify,
         Answer, WiresTyped
    <2>3. \A u \in Threads \ {t} : pc'[u] = pc[u] /\ draft'[u] = draft[u]
      BY <1>0 DEF Other, LedgerAppend, MemoryRemember, RememberRaises, SkillRun, LedgerVerify,
         Number, TypeOK, vars
    <2> QED
      BY <1>c, <1>n, <2>1, <2>2, <2>3 DEF OthersAsTheyWere
  <1>s. /\ Ready.stage = "ready" /\ Ready' = Ready
        /\ \A stage, ok, lines : /\ Work(stage, ok, lines).stage = stage
                                 /\ Work(stage, ok, lines).ok = ok
    BY DEF Ready, Work
  <1>y. \A stage \in {"acted", "recording"} :
          Work(stage, TRUE, 0).stage = stage /\ Work(stage, TRUE, 0).ok
    BY DEF Work
  <1>1. CASE Other(t)
    <2>1. Op[r] = "other" /\ effects' = effects
      BY <1>1, <1>c DEF Other, Begins
    <2>2. CASE Answer(t, TRUE)
      <3>1. Promised(r, TRUE)' /\ ~(Op[r] = "remember")
        BY <2>1 DEF Promised, Recording
      <3> QED
        BY <1>0, <1>b, <1>c, <1>l, <1>o, <2>2, <3>1, Answers
    <2>3. CASE conn' = [conn EXCEPT ![t] = "closed"] /\ UNCHANGED <<sent, got, answers, work>>
      <3>1. UNCHANGED <<log, effects, answers, sent, work, pc, draft>>
        BY <1>1, <2>3 DEF Other, vars
      <3>2. \A u \in Threads : conn[u] = "closed" => conn'[u] = "closed"
        BY <1>0, <2>3 DEF WiresTyped
      <3>3. SentOnce' /\ \A u \in Threads : Len(sent[u]) \in Nat
        BY <1>0, <3>1, WireFacts DEF SentOnce, RequestInv
      <3> QED
        BY <1>0, <3>1, <3>2, <3>3, NobodyHandles
    <2> QED
      BY <1>1, <2>2, <2>3 DEF Other
  <1>2. CASE LedgerAppend(t)
    <2>1. /\ Op[r] = "append" /\ effects' = effects
          /\ UNCHANGED <<conn, sent, answers>>
          /\ work'[t] = Work("recording", TRUE, 0)
      BY <1>0, <1>2, <1>c DEF LedgerAppend, Begins, wires, WiresTyped
    <2>2. pc'[t] = "numbered" /\ draft'[t].event = r
      BY <1>0, <1>2, <1>c DEF LedgerAppend, Number, TypeOK, NoDraft
    <2>3. AtWork(t)'
      BY <1>d, <1>k, <1>n, <1>y, <2>1, <2>2 DEF AtWork, InWindow
    <2> QED
      BY <1>0, <1>b, <1>c, <1>n, <1>o, <1>s, <1>y, <2>1, <2>3, GoesOn
  <1>3. CASE MemoryRemember(t)
    <2>1. /\ Op[r] = "remember" /\ r \in effects'
          /\ UNCHANGED <<conn, sent, answers>>
          /\ work'[t] = Work("acted", TRUE, 0)
      BY <1>0, <1>3, <1>c DEF MemoryRemember, Begins, wires, WiresTyped
    <2>2. AtWork(t)'
      BY <1>d, <1>k, <1>n, <1>y, <2>1 DEF AtWork, Acted
    <2> QED
      BY <1>0, <1>b, <1>c, <1>n, <1>o, <1>s, <1>y, <2>1, <2>2, GoesOn
  <1>4. CASE RememberRaises(t)
    <2>1. Op[r] = "remember" /\ Answer(t, FALSE)
      BY <1>4, <1>c DEF RememberRaises, Begins
    <2>2. Promised(r, FALSE)' /\ r \notin Noted
      BY <1>d, <1>n, <2>1 DEF Promised
    <2> QED
      BY <1>0, <1>b, <1>c, <1>l, <1>o, <2>1, <2>2, Answers
  <1>5. CASE SkillRun(t)
    <2>1. Op[r] = "skill"
      BY <1>5, <1>c DEF SkillRun, Begins
    <2>2. PICK pass \in BOOLEAN :
            /\ effects' = IF pass THEN effects \cup {r} ELSE effects
            /\ IF r \in WithManifest
               THEN work' = [work EXCEPT ![t] = Work("acted", pass, 0)] /\ UNCHANGED <<wires, answers>>
               ELSE Answer(t, FALSE)
      BY <1>5, <1>c DEF SkillRun
    <2>3. CASE r \in WithManifest
      <3>1. UNCHANGED <<conn, sent, answers>> /\ work'[t] = Work("acted", pass, 0)
        BY <1>0, <2>2, <2>3 DEF wires, WiresTyped
      <3>2. r \in effects' <=> pass
        BY <1>d, <2>2
      <3>3. AtWork(t)'
        BY <1>d, <1>k, <1>n, <1>s, <2>1, <2>3, <3>1, <3>2 DEF AtWork, Acted
      <3> QED
        BY <1>0, <1>b, <1>c, <1>n, <1>o, <1>s, <2>1, <3>1, <3>3, GoesOn
    <2>4. CASE r \notin WithManifest
      <3>1. Answer(t, FALSE) /\ Promised(r, FALSE)' /\ r \notin Noted
        BY <1>d, <1>n, <2>2, <2>4 DEF Promised
      <3> QED
        BY <1>0, <1>b, <1>c, <1>l, <1>o, <2>1, <3>1, Answers
    <2> QED
      BY <2>3, <2>4
  <1>6. CASE LedgerVerify(t)
    <2>1. /\ Op[r] = "verify" /\ effects' = effects
          /\ UNCHANGED <<conn, sent, answers>>
          /\ work'[t] = Work("reading", WalkOk, Len(log))
      BY <1>0, <1>6, <1>c DEF LedgerVerify, Begins, wires, WiresTyped
    <2>2. AtWork(t)'
      BY <1>d, <1>k, <1>n, <1>s, <2>1 DEF AtWork
    <2> QED
      BY <1>0, <1>b, <1>c, <1>n, <1>o, <1>s, <2>1, <2>2, GoesOn
  <1> QED
    BY <1>1, <1>2, <1>3, <1>4, <1>5, <1>6

\* The request a thread is at.
LEMMA WorkStep ==
  ASSUME BridgeInv, RequestInv, NEW t \in Threads, Record(t) \/ RecordAndAnswer(t) \/ Verdict(t)
  PROVE  RequestInv'
  <1>0. WiresTyped /\ TypeOK /\ TypeInv /\ NotedOnce /\ AtWork(t)
    BY DEF BridgeInv, TypeInv, RequestInv
  <1>s. /\ Ready.stage = "ready" /\ Ready' = Ready
        /\ work[t] \in Works
    BY <1>0 DEF Ready, Work, WiresTyped
  <1>b. work[t] # Ready /\ conn[t] = "serving"
    BY <1>0, <1>s DEF Record, RecordAndAnswer, Verdict, WiresTyped
  <1>c. PICK r : r = Current(t)
    OBVIOUS
  <1>d. r \in Events
    BY <1>0, <1>b, <1>c, WireFacts
  <1>k. UNCHANGED <<sent, answers>> => Current(t)' = r
    BY <1>c DEF Current
  <1>e. UNCHANGED effects
    BY DEF Record, RecordAndAnswer, Verdict
  <1>o. /\ \A u \in Threads \ {t} : work'[u] = work[u] /\ pc'[u] = pc[u] /\ draft'[u] = draft[u]
        /\ Noted' = Noted \/ (WriteLine(t) /\ Noted' = Noted \cup {r}) => OthersAsTheyWere(t)
    <2>1. \A u \in Threads \ {t} : work'[u] = work[u]
      BY <1>0 DEF Record, RecordAndAnswer, Verdict, Answer, WiresTyped
    <2>2. \A u \in Threads \ {t} : pc'[u] = pc[u] /\ draft'[u] = draft[u]
      BY <1>0 DEF Record, RecordAndAnswer, Verdict, Number, Link, SealEntry, WriteLine, PublishSeq,
         PublishTip, TruncateTip, FillTip, TypeOK, vars
    <2> QED
      BY <1>c, <1>e, <2>1, <2>2 DEF OthersAsTheyWere
  <1>1. CASE Record(t)
    <2>1. UNCHANGED log /\ Noted' = Noted /\ NotedOnce'
      BY <1>0, <1>1 DEF Record, Number, Noted, NotedOnce
    <2>2. /\ UNCHANGED <<conn, sent, answers>>
          /\ work'[t].stage = "recording" /\ work'[t].ok = work[t].ok
      BY <1>0, <1>1, <1>s DEF Record, wires, WiresTyped, Works
    <2>3. pc'[t] = "numbered" /\ draft'[t].event = r
      BY <1>0, <1>1, <1>c DEF Record, Number, TypeOK, NoDraft
    <2>4. Acted(r, work[t].ok) /\ r \notin Noted
      BY <1>0, <1>1, <1>b, <1>c DEF Record, AtWork
    <2>5. AtWork(t)'
      BY <1>e, <1>k, <2>1, <2>2, <2>3, <2>4 DEF AtWork, Acted, InWindow
    <2> QED
      BY <1>0, <1>b, <1>c, <1>o, <1>s, <2>1, <2>2, <2>4, <2>5, GoesOn
  <1>2. CASE Verdict(t)
    <2>1. UNCHANGED log /\ Noted' = Noted
      BY <1>2 DEF Verdict, vars, Noted
    <2>2. Op[r] = "verify" /\ r \notin effects
      BY <1>0, <1>2, <1>b, <1>c DEF Verdict, AtWork
    <2>3. PICK ok \in BOOLEAN : Answer(t, ok)
      <3> DEFINE ok == work[t].ok /\ (work[t].lines > 0
                         => log[work[t].lines].hash = cache[HandleOf[t]].hash)
      <3>1. ok \in BOOLEAN
        BY <1>s DEF Works
      <3>2. Answer(t, ok)
        BY <1>2 DEF Verdict
      <3> HIDE DEF ok
      <3> QED
        BY <3>1, <3>2
    <2>4. Promised(r, ok)'
      BY <1>e, <2>2 DEF Promised, Recording
    <2> QED
      BY <1>0, <1>b, <1>c, <1>o, <2>1, <2>2, <2>3, <2>4, Answers
  <1>3. CASE RecordAndAnswer(t)
    <2>1. /\ work[t].stage = "recording" /\ draft[t].event = r
          /\ Acted(r, work[t].ok) \/ (Op[r] = "append" /\ work[t].ok /\ r \notin effects)
          /\ r \in Noted <=> t \in InWindow
      BY <1>0, <1>3, <1>b, <1>c DEF RecordAndAnswer, AtWork
    <2>2. CASE FillTip(t) /\ Answer(t, work[t].ok)
      <3>1. UNCHANGED log /\ Noted' = Noted
        BY <2>2 DEF FillTip, Noted
      <3>2. r \in Noted
        BY <2>1, <2>2 DEF FillTip, InWindow
      <3>3. PICK ok \in BOOLEAN : ok = work[t].ok
        BY <1>s DEF Works
      <3>4. Promised(r, ok)'
        BY <1>e, <2>1, <3>1, <3>2, <3>3 DEF Promised, Acted
      <3>5. Op[r] = "remember" => r \in effects
        BY <2>1 DEF Acted
      <3> QED
        BY <1>0, <1>b, <1>c, <1>e, <1>o, <2>2, <3>1, <3>3, <3>4, <3>5, Answers
    <2>3. CASE /\ \/ Link(t) \/ SealEntry(t) \/ WriteLine(t)
                  \/ PublishSeq(t) \/ PublishTip(t) \/ TruncateTip(t)
               /\ UNCHANGED <<wires, answers, work>>
      <3>1. UNCHANGED <<conn, sent, answers, work>>
        BY <2>3 DEF wires
      <3>2. draft'[t].event = r
        BY <1>0, <2>1, <2>3 DEF Link, SealEntry, Seal, BodyOf, WriteLine, PublishSeq, PublishTip,
           TruncateTip, TypeOK, Draft
      <3>3. Op[r] = "remember" => r \in effects
        BY <2>1 DEF Acted
      <3>4. CASE WriteLine(t)
        <4>1. Noted' = Noted \cup {r} /\ pc[t] = "sealed" /\ pc'[t] = "written"
          BY <1>0, <2>1, <3>4, LogNotes DEF WriteLine, TypeOK
        <4>2. t \notin InWindow /\ (t \in InWindow)'
          BY <4>1 DEF InWindow
        <4>3. NotedOnce'
          BY <1>0, <2>1, <3>4, <4>2, LogNotes
        <4>4. AtWork(t)'
          BY <1>e, <1>k, <2>1, <3>1, <3>2, <4>1, <4>2 DEF AtWork, Acted
        <4> QED
          BY <1>0, <1>b, <1>c, <1>e, <1>o, <1>s, <3>1, <3>3, <3>4, <4>1, <4>3, <4>4, GoesOn
      <3>5. CASE ~WriteLine(t)
        <4>1. UNCHANGED log /\ Noted' = Noted /\ NotedOnce'
          BY <1>0, <2>3, <3>5 DEF Link, SealEntry, PublishSeq, PublishTip, TruncateTip, Noted, NotedOnce
        <4>2. (t \in InWindow)' <=> t \in InWindow
          BY <1>0, <2>3, <3>5 DEF Link, SealEntry, PublishSeq, PublishTip, TruncateTip, InWindow, TypeOK
        <4>3. AtWork(t)'
          BY <1>e, <1>k, <2>1, <3>1, <3>2, <4>1, <4>2 DEF AtWork, Acted
        <4> QED
          BY <1>0, <1>b, <1>c, <1>e, <1>o, <1>s, <3>1, <3>3, <4>1, <4>3, GoesOn
      <3> QED
        BY <3>4, <3>5
    <2> QED
      BY <1>3, <2>2, <2>3 DEF RecordAndAnswer
  <1> QED
    BY <1>1, <1>2, <1>3

LEMMA StepRequests ==
  ASSUME BridgeInv, WiresTyped', RequestInv, [BridgeNext]_bridgeVars
  PROVE  RequestInv'
  BY StepUnhandled, BeginStep, WorkStep DEF BridgeNext

LEMMA RequestsInvariant ==
  ASSUME HashTotal
  PROVE  BridgeSpec => [](BridgeInv /\ RequestInv)
  <1>1. BridgeInv /\ RequestInv /\ [BridgeNext]_bridgeVars => BridgeInv' /\ RequestInv'
    BY StepBridge, StepWires, StepRequests
  <1> QED
    BY <1>1, InitBridge, InitRequests, PTL DEF BridgeSpec

(***************************************************************************)
(* However connections are cut, bridges stopped and processes killed: a    *)
(* request leaves at most one line, its effect comes before its line, "ok" *)
(* means both are there, and a failure leaves an effect behind only where  *)
(* remember() raised or the manifest is no object.                         *)
(***************************************************************************)
THEOREM AnswersTrue ==
  ASSUME HashTotal
  PROVE  BridgeSpec => []AnswersAreTrue
  <1>1. BridgeInv /\ RequestInv => AnswersAreTrue
    <2> SUFFICES ASSUME BridgeInv, RequestInv, NEW r \in Events
                 PROVE  /\ Cardinality(LinesOf(r)) <= 1
                        /\ Op[r] = "remember" /\ LinesOf(r) # {} => r \in effects
                        /\ Op[r] \in Recording /\ Answered(r, TRUE) =>
                             LinesOf(r) # {} /\ (Op[r] # "append" => r \in effects)
                        /\ Answered(r, FALSE) /\ r \in effects =>
                             LinesOf(r) = {} /\ (Op[r] = "remember" \/ r \notin WithManifest)
      BY DEF AnswersAreTrue
    <2>1. r \in Noted <=> LinesOf(r) # {}
      BY DEF Noted, LinesOf
    <2>2. Cardinality(LinesOf(r)) <= 1
      <3>1. CASE LinesOf(r) = {}
        BY <3>1, FS_EmptySet
      <3>2. CASE LinesOf(r) # {}
        <4>1. PICK i \in LinesOf(r) : TRUE
          BY <3>2
        <4>2. LinesOf(r) = {i}
          BY <4>1 DEF LinesOf, RequestInv, NotedOnce
        <4>3. Cardinality({i}) = 1
          BY FS_Singleton
        <4> QED
          BY <4>2, <4>3
      <3> QED
        BY <3>1, <3>2
    <2>3. \A ok \in BOOLEAN : Answered(r, ok) => Promised(r, ok)
      BY DEF Answered, RequestInv, AnswersKept
    <2> QED
      BY <2>1, <2>2, <2>3 DEF Promised, RequestInv, EffectFirst
  <1> QED
    BY <1>1, RequestsInvariant, PTL

-----------------------------------------------------------------------------
(***************************************************************************)
(* Careful use.  While bridges and clients take turns at most one thread   *)
(* is in handle() and at most one open bridge has connections or can get   *)
(* any; the others are retired, with whatever their caches hold.  For the  *)
(* one that is in use the file, the cache and tip.json agree as they do    *)
(* for a process that has the workspace to itself, and a thread reading    *)
(* the chain has walked all of it.                                         *)
(***************************************************************************)
WiresOpen ==
  /\ stopping \cap serving = {}
  /\ \A t \in Threads : Live(t) => HandleOf[t] \in open

OneAtWork == \A t, u \in Threads : work[t] # Ready /\ work[u] # Ready => t = u

OneActive == \A g, h \in open : g = h \/ Retired(g) \/ Retired(h)

ActiveCurrent ==
  \A h \in open :
    \/ Retired(h)
    \/ cache[h] = LastTip
    \/ \E t \in Threads : HandleOf[t] = h /\ pc[t] \in {"written", "counted"}

ChainCurrent ==
  /\ WalkOk
  /\ ActiveCurrent
  /\ TipCurrent
  /\ \A t \in Threads : DraftContinues(t)

Reading(t) == work[t].stage = "reading" => work[t].ok /\ work[t].lines = Len(log)

VerdictsTrue ==
  \A t \in Threads : \A j \in 1 .. Len(answers[t]) : Op[sent[t][j]] = "verify" => answers[t][j]

CarefulInv ==
  /\ WiresOpen
  /\ careful =>
       /\ OneAtWork
       /\ OneActive
       /\ ChainCurrent
       /\ \A t \in Threads : Reading(t)
       /\ VerdictsTrue

LEMMA InitCareful == BridgeInit => CarefulInv
  <1> SUFFICES ASSUME BridgeInit PROVE CarefulInv
    OBVIOUS
  <1>1. Len(log) = 0 /\ \A t \in Threads : Len(answers[t]) = 0
    BY EmptySeq DEF BridgeInit, Init
  <1>2. Fresh = LastTip /\ tipFile.tip = Fresh /\ tipFile.kind = "missing"
    BY <1>1 DEF LastTip, HashBefore, Fresh, BridgeInit, Init, Missing
  <1>3. ChainCurrent
    BY <1>1, <1>2 DEF BridgeInit, Init, ChainCurrent, WalkOk, ActiveCurrent, TipCurrent, DraftContinues
  <1>4. WiresOpen /\ OneAtWork /\ OneActive /\ VerdictsTrue /\ \A t \in Threads : Reading(t)
    BY <1>1 DEF BridgeInit, Init, WiresOpen, OneAtWork, OneActive, VerdictsTrue, Reading, Live,
       Ready, Work
  <1> QED
    BY <1>3, <1>4 DEF CarefulInv

\* The ledger's steps that leave the lines alone.
LEMMA ChainSameLog ==
  ASSUME TypeInv, ChainCurrent, OneActive, UNCHANGED log,
         \A t, u \in Threads : pc[t] # "idle" /\ pc[u] # "idle" => t = u,
         \A t \in Threads : pc[t] # "idle" => HandleOf[t] \in open /\ ~Retired(HandleOf[t]),
         \A h \in open \cap open' : Retired(h) => Retired(h)',
         \/ \E h \in Handles : OpenHandle(h) /\ \A t \in Threads : pc[t] = "idle"
         \/ \E h \in Handles : Crash(h) /\ InFlight(h) = {}
         \/ \E t \in Threads, e \in Events :
              Number(t, e) /\ ~Retired(HandleOf[t]) /\ \A u \in Threads : pc[u] = "idle"
         \/ \E t \in Threads : \/ Link(t) \/ SealEntry(t) \/ PublishSeq(t) \/ PublishTip(t)
                               \/ TruncateTip(t) \/ FillTip(t)
         \/ UNCHANGED vars
  PROVE  ChainCurrent'
  <1>t. TypeOK /\ DraftHasEvent
    BY DEF TypeInv
  <1>n. PICK n \in Nat : n = Len(log) /\ n = Len(log)'
    BY <1>t, LenProperties DEF TypeOK
  <1>p. PICK last : /\ last = LastTip /\ last = LastTip'
                    /\ last.seq = n /\ last = [seq |-> n, hash |-> last.hash]
    <2>1. LastTip' = LastTip
      BY <1>n DEF LastTip, HashBefore
    <2>2. LastTip.seq = n /\ LastTip = [seq |-> n, hash |-> LastTip.hash]
      BY <1>n DEF LastTip
    <2> QED
      BY <2>1, <2>2
  <1>w. WalkOk'
    BY <1>n DEF ChainCurrent, WalkOk, HashBefore
  <1>a. /\ \A t, u \in Threads : pc[t] # "idle" /\ pc[u] # "idle" => t = u
        /\ \A t \in Threads : pc[t] # "idle" => HandleOf[t] \in open /\ ~Retired(HandleOf[t])
        /\ \A h \in open \cap open' : Retired(h) => Retired(h)'
    OBVIOUS
  <1>i. /\ \A h \in open :
             \/ Retired(h)
             \/ cache[h] = last
             \/ \E t \in Threads : HandleOf[t] = h /\ pc[t] \in {"written", "counted"}
        /\ (\A t \in Threads : pc[t] \notin {"written", "counted", "published", "truncated"})
             => tipFile.kind # "torn" /\ tipFile.tip = last
        /\ \A t \in Threads : DraftContinues(t)
    BY <1>p DEF ChainCurrent, ActiveCurrent, TipCurrent, InWindow
  <1>d. \A t \in Threads : DraftContinues(t) <=>
          /\ pc[t] \in {"numbered", "linked", "sealed"} => draft[t].seq = n + 1
          /\ pc[t] \in {"linked", "sealed"} => draft[t].prev = last.hash
          /\ pc[t] = "sealed" => draft[t].hash = EntryHash(draft[t].prev, BodyOf(draft[t]))
          /\ pc[t] \in {"written", "counted"} => draft[t].seq = n /\ draft[t].hash = last.hash
          /\ pc[t] = "counted" => cache[HandleOf[t]].seq = n
          /\ pc[t] = "truncated" => pending[t] = last
    BY <1>n, <1>p DEF DraftContinues
  <1> DEFINE Goal ==
        /\ \A h \in open' :
             \/ Retired(h)'
             \/ cache'[h] = last
             \/ \E t \in Threads : HandleOf[t] = h /\ pc'[t] \in {"written", "counted"}
        /\ (\A t \in Threads : pc'[t] \notin {"written", "counted", "published", "truncated"})
             => tipFile'.kind # "torn" /\ tipFile'.tip = last
        /\ \A t \in Threads :
             /\ pc'[t] \in {"numbered", "linked", "sealed"} => draft'[t].seq = n + 1
             /\ pc'[t] \in {"linked", "sealed"} => draft'[t].prev = last.hash
             /\ pc'[t] = "sealed" =>
                  draft'[t].hash = EntryHash(draft'[t].prev, BodyOf(draft'[t]))
             /\ pc'[t] \in {"written", "counted"} =>
                  draft'[t].seq = n /\ draft'[t].hash = last.hash
             /\ pc'[t] = "counted" => cache'[HandleOf[t]].seq = n
             /\ pc'[t] = "truncated" => pending'[t] = last
  <1>g. SUFFICES Goal
    BY <1>n, <1>p, <1>w DEF ChainCurrent, ActiveCurrent, TipCurrent, InWindow, DraftContinues, BodyOf
  <1> USE HandleAssumption
  <1>1. ASSUME NEW h \in Handles, OpenHandle(h), \A t \in Threads : pc[t] = "idle"
        PROVE  Goal
    BY <1>1, <1>a, <1>t, <1>i, <1>d DEF OpenHandle, TypeOK
  <1>2. ASSUME NEW h \in Handles, Crash(h), InFlight(h) = {}
        PROVE  Goal
    <2>1. /\ \A t \in Threads : pc'[t] = pc[t]
          /\ \A t \in Threads : pc[t] # "idle" => HandleOf[t] # h
      BY <1>2, <1>t DEF Crash, InFlight, TypeOK
    <2>2. \A t \in Threads : HandleOf[t] # h => draft'[t] = draft[t] /\ pending'[t] = pending[t]
      BY <1>2, <1>t DEF Crash, TypeOK
    <2>3. \A g \in Handles \ {h} : cache'[g] = cache[g]
      BY <1>2, <1>t DEF Crash, TypeOK
    <2>4. open' = open \ {h} /\ tipFile' = tipFile /\ open \subseteq Handles
      BY <1>2, <1>t DEF Crash, TypeOK
    <2> QED
      BY <1>a, <1>i, <1>d, <2>1, <2>2, <2>3, <2>4
  <1>3. ASSUME NEW t \in Threads, NEW e \in Events, Number(t, e), ~Retired(HandleOf[t]),
               \A u \in Threads : pc[u] = "idle"
        PROVE  Goal
    <2>1. cache[HandleOf[t]] = last
      BY <1>3, <1>i DEF Number
    <2>2. draft'[t].seq = n + 1
      BY <1>3, <1>t, <2>1, <1>p DEF Number, TypeOK, NoDraft
    <2> QED
      BY <1>3, <1>a, <1>t, <1>i, <1>d, <2>2 DEF Number, TypeOK
  <1>c. ASSUME NEW t \in Threads, pc[t] # "idle", pc[t] \notin {"written", "counted"}
        PROVE  cache[HandleOf[t]] = last
    BY <1>a, <1>c, <1>i
  <1>4. ASSUME NEW t \in Threads, Link(t)
        PROVE  Goal
    <2>1. cache[HandleOf[t]] = last
      BY <1>4, <1>c DEF Link
    <2>2. /\ draft'[t].prev = last.hash
          /\ draft'[t].seq = draft[t].seq
      BY <1>4, <1>t, <2>1 DEF Link, TypeOK, Draft
    <2> QED
      BY <1>4, <1>a, <1>t, <1>i, <1>d, <2>2 DEF Link, TypeOK
  <1>5. ASSUME NEW t \in Threads, SealEntry(t)
        PROVE  Goal
    <2>1. cache[HandleOf[t]] = last
      BY <1>5, <1>c DEF SealEntry
    <2>2. /\ draft'[t].prev = draft[t].prev
          /\ draft'[t].seq = draft[t].seq
          /\ draft'[t].event = draft[t].event
          /\ draft'[t].hash = EntryHash(last.hash, BodyOf(draft[t]))
      BY <1>5, <1>t, <2>1 DEF SealEntry, TypeOK, Seal, BodyOf
    <2>3. BodyOf(draft'[t]) = BodyOf(draft[t])
      BY <2>2 DEF BodyOf
    <2> QED
      BY <1>5, <1>a, <1>t, <1>i, <1>d, <2>2, <2>3 DEF SealEntry, TypeOK
  <1>6. ASSUME NEW t \in Threads, PublishSeq(t)
        PROVE  Goal
    BY <1>6, <1>a, <1>t, <1>i, <1>d DEF PublishSeq, TypeOK, Tip
  <1>7. ASSUME NEW t \in Threads, PublishTip(t)
        PROVE  Goal
    <2>1. cache'[HandleOf[t]] = [seq |-> n, hash |-> last.hash]
      BY <1>7, <1>t, <1>i, <1>d DEF PublishTip, TypeOK, Tip
    <2> QED
      BY <1>7, <1>a, <1>t, <1>i, <1>d, <1>p, <2>1 DEF PublishTip, TypeOK
  <1>8. ASSUME NEW t \in Threads, TruncateTip(t)
        PROVE  Goal
    <2>1. cache[HandleOf[t]] = last
      BY <1>8, <1>c DEF TruncateTip
    <2> QED
      BY <1>8, <1>a, <1>t, <1>i, <1>d, <2>1 DEF TruncateTip, TypeOK
  <1>9. ASSUME NEW t \in Threads, FillTip(t)
        PROVE  Goal
    BY <1>9, <1>a, <1>t, <1>i, <1>d DEF FillTip, TipFile, TypeOK
  <1>10. CASE UNCHANGED vars
    BY <1>10, <1>a, <1>i, <1>d DEF vars
  <1> QED
    BY <1>1, <1>2, <1>3, <1>4, <1>5, <1>6, <1>7, <1>8, <1>9, <1>10

LEMMA ChainWriteLine ==
  ASSUME TypeInv, ChainCurrent, OneActive, NEW t \in Threads, WriteLine(t),
         \A u \in Threads \ {t} : pc[u] = "idle",
         HandleOf[t] \in open /\ ~Retired(HandleOf[t]),
         \A h \in open : Retired(h) => Retired(h)'
  PROVE  ChainCurrent'
  <1>n. PICK n \in Nat : n = Len(log)
    BY LenProperties DEF TypeInv, TypeOK
  <1>t. TypeOK /\ DraftHasEvent
    BY DEF TypeInv
  <1>1. draft[t] \in Entry
    BY <1>t DEF WriteLine, TypeOK, DraftHasEvent, Draft, Entry
  <1>2. /\ Len(log') = n + 1
        /\ \A i \in 1 .. n : log'[i] = log[i]
        /\ log'[n + 1] = draft[t]
    BY <1>n, <1>t, <1>1, AppendProperties DEF WriteLine, TypeOK
  <1>3. /\ pc[t] = "sealed"
        /\ \A u \in Threads : pc'[u] = IF u = t THEN "written" ELSE pc[u]
        /\ UNCHANGED <<tipFile, cache, open, draft, pending>>
    BY <1>t DEF WriteLine, TypeOK
  <1>5. /\ draft[t].seq = n + 1
        /\ draft[t].prev = HashBefore(n + 1)
        /\ draft[t].hash = EntryHash(draft[t].prev, BodyOf(draft[t]))
    BY <1>3, <1>n DEF ChainCurrent, DraftContinues, LastTip
  <1>6. \A i \in 1 .. n + 1 : HashBefore(i)' = HashBefore(i)
    <2> SUFFICES ASSUME NEW i \in 1 .. n + 1 PROVE HashBefore(i)' = HashBefore(i)
      OBVIOUS
    <2>1. i # 1 => i - 1 \in 1 .. n
      BY <1>n
    <2> QED
      BY <2>1, <1>2 DEF HashBefore
  <1>7. WalkOk'
    <2> SUFFICES ASSUME NEW i \in 1 .. n + 1
                 PROVE  /\ log'[i].prev = HashBefore(i)
                        /\ log'[i].hash = EntryHash(log'[i].prev, BodyOf(log'[i]))
                        /\ log'[i].seq = i
      BY <1>2, <1>6 DEF WalkOk, BodyOf
    <2>1. CASE i = n + 1
      BY <2>1, <1>2, <1>5
    <2>2. CASE i # n + 1
      <3>1. i \in 1 .. n
        BY <2>2
      <3> QED
        BY <3>1, <1>2, <1>n DEF ChainCurrent, WalkOk
    <2> QED
      BY <2>1, <2>2
  <1>8. LastTip'.seq = n + 1 /\ LastTip'.hash = draft[t].hash
    BY <1>2 DEF LastTip, HashBefore
  <1>9. ActiveCurrent'
    <2> SUFFICES ASSUME NEW h \in open
                 PROVE  Retired(h)' \/ \E u \in Threads : HandleOf[u] = h /\ pc'[u] \in {"written", "counted"}
      BY <1>3 DEF ActiveCurrent
    <2> QED
      BY <1>3 DEF OneActive
  <1>10. TipCurrent'
    <2>1. t \in InWindow'
      BY <1>3 DEF InWindow
    <2> QED
      BY <2>1 DEF TipCurrent
  <1>11. ASSUME NEW u \in Threads
         PROVE  DraftContinues(u)'
    <2>1. CASE u = t
      BY <2>1, <1>2, <1>3, <1>5, <1>8 DEF DraftContinues
    <2>2. CASE u # t
      BY <2>2, <1>3 DEF DraftContinues
    <2> QED
      BY <2>1, <2>2
  <1> QED
    BY <1>7, <1>9, <1>10, <1>11 DEF ChainCurrent

LEMMA StepWiresOpen ==
  ASSUME BridgeInv, WiresOpen, [BridgeNext]_bridgeVars
  PROVE  /\ WiresOpen'
         /\ careful' => careful
         /\ careful' => \A h \in open \cap open' : Retired(h) => Retired(h)'
  <1>0. WiresTyped /\ SocketsTyped /\ RestTyped /\ TypeOK
    BY DEF BridgeInv, TypeInv
  <1>1. ASSUME NEW h \in Handles, Construct(h)
        PROVE  /\ WiresOpen' /\ (careful' => careful)
               /\ \A g \in open : Retired(g) => Retired(g)'
    BY <1>0, <1>1 DEF Construct, OpenHandle, wires, WiresOpen, Live, Retired
  <1>2. ASSUME NEW h \in Handles, Start(h) \/ Stop(h)
        PROVE  /\ WiresOpen' /\ (careful' => careful)
               /\ careful' => \A g \in open : Retired(g) => Retired(g)'
    <2>1. /\ UNCHANGED <<conn, open>> /\ (careful' => careful)
          /\ \/ stopping' = stopping \cup {h} /\ serving' = serving \ {h}
             \/ /\ stopping' = stopping \ {h} /\ serving' = serving \cup {h}
                /\ careful' => h \notin stopping
      <3>1. CASE Start(h)
        BY <3>1 DEF Start, wires, vars
      <3>2. CASE Stop(h)
        BY <3>2 DEF Stop, wires, vars
      <3> QED
        BY <1>2, <3>1, <3>2
    <2>2. \A t \in Threads : Live(t)' <=> Live(t)
      BY <2>1 DEF Live
    <2>3. WiresOpen'
      BY <1>0, <2>1, <2>2 DEF WiresOpen
    <2>4. careful' => stopping \subseteq stopping'
      BY <2>1
    <2> QED
      BY <2>1, <2>2, <2>3, <2>4 DEF Retired
  <1>3. ASSUME NEW h \in Handles, Kill(h)
        PROVE  /\ WiresOpen' /\ (careful' => careful)
               /\ \A g \in open \cap open' : Retired(g) => Retired(g)'
    <2>1. /\ \A t \in Threads : conn'[t] = IF HandleOf[t] = h /\ Live(t) THEN "closed" ELSE conn[t]
          /\ open' = open \ {h} /\ stopping' = stopping \ {h} /\ serving' = serving \ {h}
      BY <1>0, <1>3 DEF Kill, Crash, WiresTyped
    <2>2. \A t \in Threads : Live(t)' => Live(t) /\ HandleOf[t] # h
      BY <2>1 DEF Live
    <2>3. WiresOpen'
      BY <2>1, <2>2 DEF WiresOpen
    <2>4. \A g \in open \cap open' : Retired(g) => Retired(g)'
      BY <2>1, <2>2 DEF Retired
    <2> QED
      BY <1>3, <2>3, <2>4 DEF Kill
  <1>4. ASSUME UNCHANGED <<sockets, open>>, careful' => careful,
               \A t \in Threads : Live(t)' => Live(t) \/ HandleOf[t] \in serving
        PROVE  /\ WiresOpen' /\ (careful' => careful)
               /\ \A g \in open : Retired(g) => Retired(g)'
    BY <1>0, <1>4 DEF sockets, WiresOpen, SocketsTyped, Retired
  <1>5. ASSUME NEW t \in Threads, NEW r \in Events, Send(t, r)
        PROVE  /\ UNCHANGED <<sockets, open>> /\ (careful' => careful)
               /\ \A u \in Threads : Live(u)' => Live(u) \/ HandleOf[u] \in serving
    BY <1>0, <1>5 DEF Send, vars, Live, WiresTyped
  <1>6. ASSUME NEW t \in Threads, Loop(t) \/ Receive(t) \/ EndOfInput(t)
        PROVE  /\ UNCHANGED <<sockets, open>> /\ (careful' => careful)
               /\ \A u \in Threads : Live(u)' => Live(u)
    BY <1>0, <1>6 DEF Loop, Receive, EndOfInput, vars, Live, WiresTyped
  <1>7. ASSUME NEW t \in Threads,
               \/ Other(t) \/ RecordAndAnswer(t) \/ LedgerAppend(t) \/ MemoryRemember(t)
               \/ RememberRaises(t) \/ SkillRun(t) \/ Record(t) \/ LedgerVerify(t) \/ Verdict(t)
        PROVE  /\ UNCHANGED <<sockets, open>> /\ (careful' => careful)
               /\ \A u \in Threads : Live(u)' => Live(u)
    <2>1. UNCHANGED <<sockets, open>>
      BY <1>7 DEF Other, RecordAndAnswer, LedgerAppend, MemoryRemember, RememberRaises, SkillRun,
         Record, LedgerVerify, Verdict, Link, SealEntry, WriteLine, PublishSeq, PublishTip,
         TruncateTip, FillTip, Number, vars
    <2>2. careful' => careful
      BY <1>7 DEF Other, RecordAndAnswer, LedgerAppend, MemoryRemember, RememberRaises, SkillRun,
         Record, LedgerVerify, Verdict, TakesTurn
    <2>3. conn[t] = "serving"
      <3>1. Ready.stage = "ready"
        BY DEF Ready, Work
      <3>2. conn[t] = "serving" \/ work[t].stage \in {"recording", "acted", "reading"}
        BY <1>7 DEF Other, RecordAndAnswer, LedgerAppend, MemoryRemember, RememberRaises, SkillRun,
           Record, LedgerVerify, Verdict, Begins
      <3>3. work[t] # Ready => conn[t] = "serving"
        BY <1>0 DEF WiresTyped
      <3> QED
        BY <3>1, <3>2, <3>3
    <2>4. \A u \in Threads \ {t} : conn'[u] = conn[u]
      BY <1>0, <1>7 DEF Other, RecordAndAnswer, LedgerAppend, MemoryRemember, RememberRaises, SkillRun,
         Record, LedgerVerify, Verdict, Answer, wires, WiresTyped
    <2> QED
      BY <2>1, <2>2, <2>3, <2>4 DEF Live
  <1>8. CASE UNCHANGED bridgeVars
    <2>1. UNCHANGED <<sockets, open, careful, conn>>
      BY <1>8 DEF bridgeVars, vars, wires
    <2> QED
      BY <1>4, <2>1 DEF Live
  <1> QED
    BY <1>1, <1>2, <1>3, <1>4, <1>5, <1>6, <1>7, <1>8 DEF BridgeNext

\* What a thread that works tells of its bridge.
LEMMA Working ==
  ASSUME BridgeInv, WiresOpen, NEW t \in Threads, conn[t] = "serving" \/ pc[t] # "idle"
  PROVE  HandleOf[t] \in open /\ ~Retired(HandleOf[t]) /\ Live(t)
  <1>1. Live(t)
    BY DEF BridgeInv, WiresTyped, AppendsHere, Ready, Work, Live
  <1> QED
    BY <1>1 DEF WiresOpen, Retired

\* The chain in one step of careful use.
LEMMA StepChain ==
  ASSUME BridgeInv, CarefulInv, [BridgeNext]_bridgeVars, careful'
  PROVE  ChainCurrent'
  <1>0. /\ TypeInv /\ TypeOK /\ WiresTyped /\ WiresOpen /\ OneAtWork /\ OneActive /\ ChainCurrent
        /\ \A h \in open \cap open' : Retired(h) => Retired(h)'
    BY StepWiresOpen DEF BridgeInv, TypeInv, CarefulInv
  <1>w. Ready.stage = "ready" /\ \A t \in Threads : pc[t] # "idle" => work[t] # Ready
    BY DEF BridgeInv, AppendsHere, Ready, Work
  <1>a. \A t, u \in Threads : pc[t] # "idle" /\ pc[u] # "idle" => t = u
    BY <1>0, <1>w DEF OneAtWork
  <1>b. \A t \in Threads : pc[t] # "idle" => HandleOf[t] \in open /\ ~Retired(HandleOf[t])
    BY <1>0, Working
  <1>1. ASSUME NEW h \in Handles, Construct(h)
        PROVE  ChainCurrent'
    <2>1. \A g \in open : Retired(g)
      BY <1>1 DEF Construct
    <2>2. \A t \in Threads : pc[t] = "idle"
      BY <1>b, <2>1
    <2>3. OpenHandle(h) /\ UNCHANGED log
      BY <1>1 DEF Construct, OpenHandle
    <2> QED
      BY <1>0, <1>a, <1>b, <2>2, <2>3, ChainSameLog
  <1>2. ASSUME NEW h \in Handles, Kill(h)
        PROVE  ChainCurrent'
    <2>1. Crash(h) /\ InFlight(h) = {} /\ UNCHANGED log
      BY <1>2 DEF Kill, Crash
    <2> QED
      BY <1>0, <1>a, <1>b, <2>1, ChainSameLog
  <1>3. CASE UNCHANGED vars
    <2>1. UNCHANGED log
      BY <1>3 DEF vars
    <2> QED
      BY <1>0, <1>3, <1>a, <1>b, <2>1, ChainSameLog
  <1>4. ASSUME NEW t \in Threads, LedgerAppend(t) \/ Record(t)
        PROVE  ChainCurrent'
    <2>1. conn[t] = "serving"
      BY <1>0, <1>4, <1>w DEF LedgerAppend, Begins, Record, WiresTyped
    <2>2. Current(t) \in Events /\ Number(t, Current(t)) /\ UNCHANGED log
      BY <1>0, <1>4, <2>1, AtARequest DEF LedgerAppend, Record, Number
    <2>3. \A u \in Threads \ {t} : work[u] = Ready
      BY <1>0, <1>4, <1>w DEF LedgerAppend, TakesTurn, Record, OneAtWork
    <2>4. \A u \in Threads : pc[u] = "idle"
      BY <1>w, <2>2, <2>3 DEF Number
    <2>5. ~Retired(HandleOf[t])
      BY <1>0, <2>1, Working
    <2> QED
      BY <1>0, <1>a, <1>b, <2>2, <2>4, <2>5, ChainSameLog
  <1>5. ASSUME NEW t \in Threads, RecordAndAnswer(t)
        PROVE  ChainCurrent'
    <2>1. CASE WriteLine(t)
      <3>1. pc[t] # "idle" /\ open' = open
        BY <2>1 DEF WriteLine
      <3>2. \A u \in Threads \ {t} : pc[u] = "idle"
        BY <1>a, <3>1
      <3> QED
        BY <1>0, <1>b, <2>1, <3>1, <3>2, ChainWriteLine
    <2>2. CASE Link(t) \/ SealEntry(t) \/ PublishSeq(t) \/ PublishTip(t) \/ TruncateTip(t) \/ FillTip(t)
      <3>1. UNCHANGED log
        BY <2>2 DEF Link, SealEntry, PublishSeq, PublishTip, TruncateTip, FillTip
      <3> QED
        BY <1>0, <1>a, <1>b, <2>2, <3>1, ChainSameLog
    <2> QED
      BY <1>5, <2>1, <2>2 DEF RecordAndAnswer
  <1>6. \/ UNCHANGED vars
        \/ \E h \in Handles : Construct(h) \/ Kill(h)
        \/ \E t \in Threads : LedgerAppend(t) \/ Record(t) \/ RecordAndAnswer(t)
    BY DEF BridgeNext, bridgeVars, Start, Stop, Send, Loop, Receive, EndOfInput, Other,
       MemoryRemember, RememberRaises, SkillRun, LedgerVerify, Verdict
  <1> QED
    BY <1>1, <1>2, <1>3, <1>4, <1>5, <1>6

\* Who is at work, and what the readers have seen.
LEMMA StepTurns ==
  ASSUME BridgeInv, CarefulInv, [BridgeNext]_bridgeVars, careful'
  PROVE  OneAtWork' /\ OneActive' /\ \A t \in Threads : Reading(t)'
  <1>0. /\ WiresTyped /\ TypeOK /\ WiresOpen /\ OneAtWork /\ OneActive /\ ChainCurrent
        /\ \A t \in Threads : Reading(t)
        /\ \A h \in open \cap open' : Retired(h) => Retired(h)'
    BY StepWiresOpen DEF BridgeInv, TypeInv, CarefulInv
  <1>s. /\ Ready' = Ready /\ Ready.stage = "ready"
        /\ \A stage, ok, lines : /\ Work(stage, ok, lines).stage = stage
                                 /\ Work(stage, ok, lines).lines = lines
    BY DEF Ready, Work
  <1>1. OneActive'
    <2>1. CASE open' \subseteq open
      BY <1>0, <2>1 DEF OneActive
    <2>2. ASSUME NEW h \in Handles, Construct(h)
          PROVE  OneActive'
      <3>1. (\A g \in open : Retired(g)) /\ open' = open \cup {h}
        BY <2>2 DEF Construct, OpenHandle
      <3> QED
        BY <1>0, <3>1 DEF OneActive
    <2>3. open' \subseteq open \/ \E h \in Handles : Construct(h)
      BY DEF BridgeNext, bridgeVars, vars, Start, Stop, Kill, Crash, Send, Loop, Receive, EndOfInput,
         Other, RecordAndAnswer, LedgerAppend, MemoryRemember, RememberRaises, SkillRun, Record,
         LedgerVerify, Verdict, Link, SealEntry, WriteLine, PublishSeq, PublishTip, TruncateTip,
         FillTip, Number
    <2> QED
      BY <2>1, <2>2, <2>3
  <1>2. ASSUME \A t \in Threads : work'[t] # Ready => work[t] # Ready
        PROVE  OneAtWork'
    BY <1>0, <1>2, <1>s DEF OneAtWork
  <1>3. ASSUME UNCHANGED log, \A t \in Threads : work'[t] = work[t] \/ work'[t].stage # "reading"
        PROVE  \A t \in Threads : Reading(t)'
    BY <1>0, <1>3 DEF Reading
  <1>4. ASSUME NEW t \in Threads, LedgerAppend(t) \/ MemoryRemember(t) \/ SkillRun(t) \/ LedgerVerify(t)
        PROVE  OneAtWork' /\ \A u \in Threads : Reading(u)'
    <2>1. /\ \A u \in Threads \ {t} : work[u] = Ready /\ work'[u] = work[u]
          /\ UNCHANGED log
      BY <1>0, <1>4 DEF LedgerAppend, MemoryRemember, SkillRun, LedgerVerify, TakesTurn, Answer,
         Number, vars, WiresTyped
    <2>2. OneAtWork'
      BY <1>s, <2>1 DEF OneAtWork
    <2>3. CASE LedgerVerify(t)
      <3>1. work'[t] = Work("reading", WalkOk, Len(log)) /\ WalkOk
        BY <1>0, <2>3 DEF LedgerVerify, WiresTyped, ChainCurrent
      <3>2. /\ Work("reading", WalkOk, Len(log)).ok
            /\ Work("reading", WalkOk, Len(log)).lines = Len(log)
        BY <3>1 DEF Work
      <3>3. Reading(t)'
        BY <2>1, <3>1, <3>2 DEF Reading
      <3>4. \A u \in Threads \ {t} : Reading(u)'
        BY <1>s, <2>1 DEF Reading
      <3> QED
        BY <2>2, <3>3, <3>4
    <2>4. CASE LedgerAppend(t) \/ MemoryRemember(t) \/ SkillRun(t)
      <3>1. work'[t].stage # "reading"
        <4>1. /\ Work("recording", TRUE, 0).stage = "recording"
              /\ Work("acted", TRUE, 0).stage = "acted"
              /\ \A pass \in BOOLEAN : Work("acted", pass, 0).stage = "acted"
          BY DEF Work
        <4>2. \/ work' = [work EXCEPT ![t] = Work("recording", TRUE, 0)]
              \/ work' = [work EXCEPT ![t] = Work("acted", TRUE, 0)]
              \/ \E pass \in BOOLEAN : work' = [work EXCEPT ![t] = Work("acted", pass, 0)]
              \/ work' = [work EXCEPT ![t] = Ready]
          BY <2>4 DEF LedgerAppend, MemoryRemember, SkillRun, Answer
        <4> QED
          BY <1>0, <1>s, <4>1, <4>2 DEF WiresTyped
      <3> QED
        BY <1>3, <2>1, <2>2, <3>1
    <2> QED
      BY <1>4, <2>3, <2>4
  <1>5. ASSUME NEW t \in Threads, Record(t) \/ RecordAndAnswer(t)
        PROVE  OneAtWork' /\ \A u \in Threads : Reading(u)'
    <2>1. work[t] # Ready /\ work[t].stage # "reading"
      BY <1>s, <1>5 DEF Record, RecordAndAnswer
    <2>2. \A u \in Threads \ {t} : work[u] = Ready /\ work'[u] = work[u]
      BY <1>0, <1>5, <2>1 DEF Record, RecordAndAnswer, Answer, OneAtWork, WiresTyped
    <2>3. OneAtWork'
      BY <1>s, <2>2 DEF OneAtWork
    <2>4. work'[t].stage # "reading"
      BY <1>0, <1>s, <1>5, <2>1 DEF Record, RecordAndAnswer, Answer, WiresTyped, Works
    <2>5. \A u \in Threads : Reading(u)'
      BY <1>s, <2>2, <2>4 DEF Reading
    <2> QED
      BY <2>3, <2>5
  <1>6. CASE /\ \A t \in Threads : work'[t] = work[t] \/ work'[t] = Ready
             /\ UNCHANGED log
    BY <1>1, <1>2, <1>3, <1>6, <1>s
  <1>7. \/ \E t \in Threads : LedgerAppend(t) \/ MemoryRemember(t) \/ SkillRun(t) \/ LedgerVerify(t)
        \/ \E t \in Threads : Record(t) \/ RecordAndAnswer(t)
        \/ /\ \A t \in Threads : work'[t] = work[t] \/ work'[t] = Ready
           /\ UNCHANGED log
    <2>1. ASSUME NEW h \in Handles, Construct(h) \/ Start(h) \/ Stop(h) \/ Kill(h)
          PROVE  /\ \A t \in Threads : work'[t] = work[t] \/ work'[t] = Ready
                 /\ UNCHANGED log
      BY <1>0, <2>1 DEF Construct, OpenHandle, Start, Stop, Kill, Crash, vars, handling, WiresTyped
    <2>2. ASSUME NEW t \in Threads, (\E r \in Events : Send(t, r)) \/ Loop(t) \/ Receive(t) \/ EndOfInput(t)
          PROVE  UNCHANGED <<work, log>>
      BY <2>2 DEF Send, Loop, Receive, EndOfInput, vars, handling
    <2>3. ASSUME NEW t \in Threads, Other(t) \/ RememberRaises(t) \/ Verdict(t)
          PROVE  /\ \A u \in Threads : work'[u] = work[u] \/ work'[u] = Ready
                 /\ UNCHANGED log
      BY <1>0, <2>3 DEF Other, RememberRaises, Verdict, Answer, vars, WiresTyped
    <2>4. CASE UNCHANGED bridgeVars
      BY <2>4 DEF bridgeVars, vars, handling
    <2> QED
      BY <2>1, <2>2, <2>3, <2>4 DEF BridgeNext
  <1> QED
    BY <1>1, <1>4, <1>5, <1>6, <1>7

LEMMA AnswerVerdict ==
  ASSUME WiresTyped, VerdictsTrue, NEW t \in Threads, NEW ok \in BOOLEAN, Answer(t, ok),
         Op[Current(t)] = "verify" => ok
  PROVE  VerdictsTrue'
  <1>1. /\ Len(answers[t]) \in Nat /\ Len(answers'[t]) = Len(answers[t]) + 1
        /\ \A j \in 1 .. Len(answers[t]) : answers'[t][j] = answers[t][j]
        /\ answers'[t][Len(answers[t]) + 1] = ok
        /\ \A u \in Threads \ {t} : answers'[u] = answers[u]
        /\ sent' = sent
    <2>1. answers[t] \in Seq(BOOLEAN) /\ answers'[t] = Append(answers[t], ok)
      BY DEF WiresTyped, Answer
    <2> QED
      BY <2>1, AppendProperties, LenProperties DEF WiresTyped, Answer
  <1> SUFFICES ASSUME NEW u \in Threads, NEW j \in 1 .. Len(answers'[u]), Op[sent[u][j]] = "verify"
               PROVE  answers'[u][j]
    BY <1>1 DEF VerdictsTrue
  <1>2. CASE u = t /\ j = Len(answers[t]) + 1
    BY <1>1, <1>2 DEF Current
  <1>3. CASE ~(u = t /\ j = Len(answers[t]) + 1)
    <2>1. j \in 1 .. Len(answers[u]) /\ answers'[u][j] = answers[u][j]
      BY <1>1, <1>3
    <2> QED
      BY <2>1 DEF VerdictsTrue
  <1> QED
    BY <1>2, <1>3

LEMMA StepVerdicts ==
  ASSUME BridgeInv, RequestInv, CarefulInv, [BridgeNext]_bridgeVars, careful'
  PROVE  VerdictsTrue'
  <1>0. /\ WiresTyped /\ TypeOK /\ WiresOpen /\ OneAtWork /\ ChainCurrent /\ VerdictsTrue
        /\ \A t \in Threads : Reading(t)
    BY StepWiresOpen DEF BridgeInv, TypeInv, CarefulInv
  <1>s. Ready.stage = "ready"
    BY DEF Ready, Work
  <1>1. ASSUME UNCHANGED answers,
               \A t \in Threads : \A j \in 1 .. Len(sent[t]) : sent'[t][j] = sent[t][j]
        PROVE  VerdictsTrue'
    <2>1. \A t \in Threads : \A j \in 1 .. Len(answers[t]) : j \in 1 .. Len(sent[t])
      BY <1>0, WireFacts
    <2> QED
      BY <1>0, <1>1, <2>1 DEF VerdictsTrue
  <1>2. ASSUME NEW h \in Handles, Construct(h) \/ Start(h) \/ Stop(h) \/ Kill(h)
        PROVE  UNCHANGED <<answers, sent>>
    BY <1>2 DEF Construct, Start, Stop, Kill, wires, handling
  <1>3. ASSUME NEW t \in Threads, NEW r \in Events, Send(t, r)
        PROVE  VerdictsTrue'
    <2>1. /\ sent'[t] = Append(sent[t], r) /\ sent[t] \in Seq(Events) /\ answers' = answers
          /\ \A u \in Threads \ {t} : sent'[u] = sent[u]
      BY <1>0, <1>3 DEF Send, WiresTyped, handling
    <2> QED
      BY <1>1, <2>1, AppendProperties
  <1>4. ASSUME NEW t \in Threads,
               \/ Loop(t) \/ Receive(t) \/ EndOfInput(t) \/ LedgerAppend(t) \/ MemoryRemember(t)
               \/ Record(t) \/ LedgerVerify(t)
        PROVE  UNCHANGED <<answers, sent>>
    BY <1>4 DEF Loop, Receive, EndOfInput, LedgerAppend, MemoryRemember, Record, LedgerVerify,
       handling, wires
  <1>5. ASSUME NEW t \in Threads, Other(t) \/ RememberRaises(t) \/ SkillRun(t)
        PROVE  VerdictsTrue'
    <2>1. Op[Current(t)] # "verify"
      BY <1>5 DEF Other, RememberRaises, SkillRun, Begins
    <2>2. UNCHANGED <<answers, sent>> \/ \E ok \in BOOLEAN : Answer(t, ok)
      BY <1>5 DEF Other, RememberRaises, SkillRun, wires
    <2> QED
      BY <1>0, <1>1, <2>1, <2>2, AnswerVerdict
  <1>6. ASSUME NEW t \in Threads, RecordAndAnswer(t)
        PROVE  VerdictsTrue'
    <2>1. CASE UNCHANGED <<wires, answers, work>>
      BY <1>1, <2>1 DEF wires
    <2>2. CASE Answer(t, work[t].ok)
      <3>1. Op[Current(t)] # "verify"
        BY <1>6, <1>s DEF RecordAndAnswer, RequestInv, AtWork, Acted
      <3>2. PICK ok \in BOOLEAN : ok = work[t].ok
        BY <1>0 DEF WiresTyped, Works
      <3> QED
        BY <1>0, <2>2, <3>1, <3>2, AnswerVerdict
    <2> QED
      BY <1>6, <2>1, <2>2 DEF RecordAndAnswer
  <1>7. ASSUME NEW t \in Threads, Verdict(t)
        PROVE  VerdictsTrue'
    <2>1. work[t].ok /\ work[t].lines = Len(log) /\ work[t].stage = "reading"
      BY <1>0, <1>7 DEF Verdict, Reading
    <2>2. PICK n \in Nat : n = Len(log)
      BY <1>0, LenProperties DEF TypeOK
    <2>3. \A u \in Threads : pc[u] = "idle"
      <3>1. \A u \in Threads : pc[u] # "idle" => work[u].stage = "recording"
        BY DEF BridgeInv, AppendsHere
      <3> QED
        BY <1>0, <1>s, <2>1, <3>1 DEF OneAtWork
    <2>4. HandleOf[t] \in open /\ ~Retired(HandleOf[t])
      BY <1>0, <1>s, <2>1, Working DEF WiresTyped
    <2>5. cache[HandleOf[t]] = LastTip
      BY <1>0, <2>3, <2>4 DEF ChainCurrent, ActiveCurrent
    <2>6. n > 0 => log[n].hash = cache[HandleOf[t]].hash
      BY <2>2, <2>5 DEF LastTip, HashBefore
    <2>7. Answer(t, work[t].ok /\ (n > 0 => log[n].hash = cache[HandleOf[t]].hash))
      BY <1>7, <2>1, <2>2 DEF Verdict
    <2>8. PICK ok \in BOOLEAN : ok /\ Answer(t, ok)
      <3> DEFINE ok == work[t].ok /\ (n > 0 => log[n].hash = cache[HandleOf[t]].hash)
      <3>1. ok /\ ok \in BOOLEAN
        BY <2>1, <2>6
      <3>2. Answer(t, ok)
        BY <2>7
      <3> HIDE DEF ok
      <3> QED
        BY <3>1, <3>2
    <2> QED
      BY <1>0, <2>8, AnswerVerdict
  <1>8. CASE UNCHANGED bridgeVars
    BY <1>1, <1>8 DEF bridgeVars, wires, handling
  <1> QED
    BY <1>1, <1>2, <1>3, <1>4, <1>5, <1>6, <1>7, <1>8 DEF BridgeNext

LEMMA StepCareful ==
  ASSUME BridgeInv, RequestInv, CarefulInv, [BridgeNext]_bridgeVars
  PROVE  CarefulInv'
  <1>1. WiresOpen'
    BY StepWiresOpen DEF CarefulInv
  <1>2. ASSUME careful'
        PROVE  (OneAtWork /\ OneActive /\ ChainCurrent /\ VerdictsTrue)' /\ \A t \in Threads : Reading(t)'
    BY <1>2, StepChain, StepTurns, StepVerdicts
  <1> QED
    BY <1>1, <1>2 DEF CarefulInv

(***************************************************************************)
(* Used with care, by any number of bridges one after the other, each with *)
(* any number of connections, the bridge never reports its own log broken, *)
(* and the next process opens it.                                          *)
(***************************************************************************)
THEOREM CarefulVerifies ==
  ASSUME HashTotal
  PROVE  BridgeSpec => []CarefulUseVerifies
  <1>1. BridgeInv /\ RequestInv /\ CarefulInv /\ [BridgeNext]_bridgeVars => CarefulInv'
    BY StepCareful
  <1>2. BridgeInv /\ CarefulInv => CarefulUseVerifies
    <2> SUFFICES ASSUME BridgeInv, CarefulInv, careful
                 PROVE  /\ WalkOk
                        /\ (\A t \in Threads : pc[t] = "idle") => Reopens
                        /\ \A r \in Events : Op[r] = "verify" => ~Answered(r, FALSE)
      BY DEF CarefulUseVerifies
    <2>1. WalkOk /\ TipCurrent /\ VerdictsTrue
      BY DEF CarefulInv, ChainCurrent
    <2>2. Len(log) \in Nat
      BY LenProperties DEF BridgeInv, TypeInv, TypeOK
    <2>3. ASSUME \A t \in Threads : pc[t] = "idle"
          PROVE  Reopens
      <3>1. tipFile.kind # "torn" /\ tipFile.tip = LastTip
        BY <2>1, <2>3 DEF TipCurrent, InWindow
      <3> QED
        BY <2>2, <3>1 DEF Reopens, TipMatches, LastTip, HashBefore
    <2>4. ASSUME NEW r \in Events, Op[r] = "verify", Answered(r, FALSE)
          PROVE  FALSE
      BY <2>1, <2>4 DEF Answered, VerdictsTrue
    <2> QED
      BY <2>1, <2>3, <2>4
  <1> QED
    BY <1>1, <1>2, InitCareful, RequestsInvariant, PTL DEF BridgeSpec
=============================================================================
