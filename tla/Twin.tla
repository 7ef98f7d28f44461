-------------------------------- MODULE Twin --------------------------------
(***************************************************************************)
(* The codebook of CleanRoomVSAEngine and its way through twin_state: the  *)
(* meta file with the pinned names, one vector file per atom, and the      *)
(* index that lists them, written in place and in this order.              *)
(*                                                                         *)
(* A process is a command (init, run, jkillnhide) or a daemon.  It loads   *)
(* the engine, a failed load is swallowed and repaired or not according to *)
(* the kind of process, handlers and watchdog change the codebook, and the *)
(* engine is saved.  Processes may overlap: run, check and daemon start    *)
(* know nothing of each other.  Any of them may be killed between two      *)
(* writes, or between the truncation of a file and its text.               *)
(*                                                                         *)
(* An atom is its name.  Its vector matters only to the redundancy cull,   *)
(* as a relation between names, and the utilities, which every query       *)
(* changes, only as the order in which atoms are pruned.                   *)
(***************************************************************************)
EXTENDS Naturals, Sequences, FiniteSets, Functions

CONSTANTS
  Procs,       \* processes
  JumpStart,   \* JUMP_START_V01_ATOMS, in the order they are registered
  Defence,     \* the atoms the watchdog registers, in their order
  Notes,       \* atoms handlers register
  Alike,       \* pairs of names whose vectors are nearly the same
  NoEngine,    \* the files are not known to hold one engine
  MaxWork,     \* bound on the starts, loads and handler calls, one process at a time
  MaxOverlap   \* the same where processes overlap

NamesOf(book) == {book[i] : i \in 1 .. Len(book)}

Core == NamesOf(JumpStart)

Names == Core \cup NamesOf(Defence) \cup Notes

Books == {b \in Seq(Names) : IsInjective(b)}

ASSUME NamesAssumption == IsFiniteSet(Notes) /\ JumpStart \in Books /\ Defence \in Books
ASSUME AlikeAssumption == Alike \in SUBSET (Names \X Names)
ASSUME BoundAssumption == MaxWork \in Nat /\ MaxOverlap \in Nat

\* The entries of s that are in S, in their order.
Keep(s, S) ==
  LET kept[i \in 0 .. Len(s)] ==
        IF i = 0 THEN <<>>
        ELSE IF s[i] \in S THEN Append(kept[i - 1], s[i]) ELSE kept[i - 1]
  IN kept[Len(s)]

\* codebook is a dict: names in the order of their first registration.
Engine == [book : Books, pins : SUBSET Names]

NewEngine == [book |-> <<>>, pins |-> {}]

Kinds == {"init", "run", "watchdog", "daemon"}

VARIABLES
  exclusive,  \* one process at a time
  meta,       \* engine_meta.json
  index,      \* codebook_index.json
  hv,         \* hv_<name>.npz
  kind,       \* what a process is
  phase,      \* how far it is
  engine,     \* its engine
  todo,       \* the vectors its save has still to write
  work,       \* starts, loads and handler calls so far
  last,       \* the engine of the last save that nothing disturbed
  disturbed   \* the saves that overlapped with another one

diskVars == <<meta, index, hv>>

vars == <<exclusive, meta, index, hv, kind, phase, engine, todo, work, last, disturbed>>

Phases == {"gone", "loading", "reading", "ready", "used", "meta", "fill meta",
           "vectors", "fill vector", "index", "fill index", "saved"}

Saving == {"fill meta", "vectors", "fill vector", "index", "fill index"}

TypeOK ==
  /\ exclusive \in BOOLEAN
  /\ meta \in [kind : {"missing", "torn", "whole"}, pins : SUBSET Names]
  /\ index \in [kind : {"missing", "torn", "whole"}, book : Books]
  /\ hv \in [Names -> {"missing", "torn", "whole"}]
  /\ kind \in [Procs -> Kinds]
  /\ phase \in [Procs -> Phases]
  /\ engine \in [Procs -> Engine]
  /\ todo \in [Procs -> Books]
  /\ work \in Nat
  /\ last \in Engine \cup {NoEngine}
  /\ disturbed \in SUBSET Procs

\* No workspace yet, or the one that cli init leaves.
Init ==
  /\ exclusive \in BOOLEAN
  /\ \/ /\ meta = [kind |-> "missing", pins |-> {}]
        /\ index = [kind |-> "missing", book |-> <<>>]
        /\ hv = [n \in Names |-> "missing"]
     \/ /\ meta = [kind |-> "whole", pins |-> Core]
        /\ index = [kind |-> "whole", book |-> JumpStart]
        /\ hv = [n \in Names |-> IF n \in Core THEN "whole" ELSE "missing"]
  /\ kind = [p \in Procs |-> "init"]
  /\ phase = [p \in Procs |-> "gone"]
  /\ engine = [p \in Procs |-> NewEngine]
  /\ todo = [p \in Procs |-> <<>>]
  /\ work = 0
  /\ last = NoEngine
  /\ disturbed = {}
-----------------------------------------------------------------------------
\* Faulty variant: a name that is registered again is listed twice.
PutTwice(book, n) == Append(book, n)

Put(book, n) == IF n \in NamesOf(book) THEN book ELSE Append(book, n)

\* register(): without pinned=True a pinned name loses its pin.
Register(e, n, pinned) ==
  [book |-> Put(e.book, n),
   pins |-> IF pinned THEN e.pins \cup {n} ELSE e.pins \ {n}]

Missing(e, names) == Keep(names, Names \ NamesOf(e.book))

\* register() with pinned=True for all of names, which are different.
RegisterAll(e, names) ==
  [book |-> e.book \o Missing(e, names), pins |-> e.pins \cup NamesOf(names)]

\* jump_start_v01; the seeded vectors come out the same every time.
WithJumpStart(e) == RegisterAll(e, JumpStart)

Intact(e) == Core \subseteq NamesOf(e.book) \cap e.pins

Without(e, names) == [e EXCEPT !.book = Keep(@, Names \ names)]

\* What remove() can take away.
Candidates(e) == NamesOf(e.book) \ e.pins

(***************************************************************************)
(* prune_by_utility: the least useful candidates go, until the codebook is *)
(* small enough or no candidate is left.                                   *)
(***************************************************************************)
Pruned(e, target) ==
  LET excess == IF Len(e.book) > target THEN Len(e.book) - target ELSE 0 IN
  {Without(e, out) : out \in {s \in SUBSET Candidates(e) :
     Cardinality(s) = IF excess < Cardinality(Candidates(e))
                      THEN excess ELSE Cardinality(Candidates(e))}}

Near(a, b) == <<a, b>> \in Alike \/ <<b, a>> \in Alike

\* Of two atoms that are alike a pinned one stays, else the later one goes.
Victim(e, a, b) == IF a \in e.pins \/ b \notin e.pins THEN b ELSE a

\* The later atoms the one at i is like and not pinned with, but those gone.
Rivals(e, i, gone) ==
  {j \in i + 1 .. Len(e.book) : /\ e.book[j] \notin gone
                                /\ Near(e.book[i], e.book[j])
                                /\ ~({e.book[i], e.book[j]} \subseteq e.pins)}

First(found) == CHOOSE j \in found : \A k \in found : j <= k

\* Faulty variant: atoms that are gone are compared as well.
CompareAll(e, i, gone) ==
  IF Rivals(e, i, {}) = {} THEN gone
  ELSE gone \cup {Victim(e, e.book[i], e.book[First(Rivals(e, i, {}))])}

\* An atom that is still there is compared up to the first rival.
Compare(e, i, gone) ==
  IF e.book[i] \in gone \/ Rivals(e, i, gone) = {} THEN gone
  ELSE gone \cup {Victim(e, e.book[i], e.book[First(Rivals(e, i, gone))])}

\* prune_redundant
Culled(e) ==
  LET gone[i \in 0 .. Len(e.book)] ==
        IF i = 0 THEN {} ELSE Compare(e, i, gone[i - 1])
  IN Without(e, gone[Len(e.book)])
-----------------------------------------------------------------------------
Idle == \A p \in Procs : phase[p] = "gone"

\* The next start, load or handler call.
Work ==
  /\ work < (IF exclusive THEN MaxWork ELSE MaxOverlap)
  /\ work' = work + 1

\* A process begins: init with a new engine, the others load the saved one.
Begin(p, k) ==
  /\ phase[p] = "gone"
  /\ exclusive => Idle
  /\ Work
  /\ kind' = [kind EXCEPT ![p] = k]
  /\ engine' = [engine EXCEPT ![p] = IF k = "init" THEN WithJumpStart(NewEngine)
                                     ELSE NewEngine]
  /\ phase' = [phase EXCEPT ![p] = IF k = "init" THEN "ready" ELSE "loading"]
  /\ UNCHANGED <<exclusive, diskVars, todo, last, disturbed>>

\* The next run_task of a daemon loads into the engine it has.
NextTask(p) ==
  /\ kind[p] = "daemon"
  /\ phase[p] \in {"ready", "used", "saved"}
  /\ Work
  /\ phase' = [phase EXCEPT ![p] = "loading"]
  /\ UNCHANGED <<exclusive, diskVars, kind, engine, todo, last, disturbed>>

\* Faulty variant: a daemon trusts every engine that was loaded.
PrepareTrusting(k, e, raised) ==
  LET started == IF raised /\ k # "daemon" THEN WithJumpStart(e) ELSE e
      checked == IF k # "watchdog" \/ Intact(started) THEN started ELSE WithJumpStart(started)
  IN IF k = "watchdog"
     THEN RegisterAll(checked, Missing(checked, Defence))
     ELSE checked

(***************************************************************************)
(* After load(): _load_engine of the command line makes a jump start only  *)
(* when load() raised, _engine_bootstrap and the constructor of the        *)
(* watchdog whenever an atom of the jump start is missing.  The watchdog   *)
(* registers its own atoms unless they are there.                          *)
(***************************************************************************)
Prepare(k, e, raised) ==
  LET started == IF raised /\ k # "daemon" THEN WithJumpStart(e) ELSE e
      checked == IF k = "run" \/ Intact(started) THEN started ELSE WithJumpStart(started)
  IN IF k = "watchdog"
     THEN RegisterAll(checked, Missing(checked, Defence))
     ELSE checked

\* load(): no engine_meta.json, or one that does not parse; nothing is changed.
LoadRaises(p) ==
  /\ phase[p] = "loading"
  /\ meta.kind # "whole"
  /\ engine' = [engine EXCEPT ![p] = Prepare(kind[p], engine[p], TRUE)]
  /\ phase' = [phase EXCEPT ![p] = "ready"]
  /\ UNCHANGED <<exclusive, diskVars, kind, todo, work, last, disturbed>>

\* The pins come from engine_meta.json, and the codebook is emptied.
LoadMeta(p) ==
  /\ phase[p] = "loading"
  /\ meta.kind = "whole"
  /\ engine' = [engine EXCEPT ![p] = [book |-> <<>>, pins |-> meta.pins]]
  /\ phase' = [phase EXCEPT ![p] = "reading"]
  /\ UNCHANGED <<exclusive, diskVars, kind, todo, work, last, disturbed>>

Orders(S) == {f \in [1 .. Cardinality(S) -> S] : IsInjective(f)}

\* The names to load: those of the index, without one all vector files in
\* the order the directory gives them.
Listed ==
  IF index.kind = "missing" THEN Orders({n \in Names : hv[n] # "missing"})
  ELSE {index.book}

\* The vectors are loaded up to the first file that cannot be read; files
\* that are missing are skipped.
Readable(names) ==
  LET bad == {i \in 1 .. Len(names) : hv[names[i]] = "torn"}
      end == IF bad = {} THEN Len(names) ELSE First(bad) - 1
  IN Keep(SubSeq(names, 1, end), {n \in Names : hv[n] = "whole"})

Raises(names) == index.kind = "torn" \/ \E i \in 1 .. Len(names) : hv[names[i]] = "torn"

\* codebook_index.json and the vectors are read.
LoadVectors(p) ==
  /\ phase[p] = "reading"
  /\ \E names \in Listed :
       engine' = [engine EXCEPT ![p] =
         Prepare(kind[p], [@ EXCEPT !.book = IF index.kind = "torn" THEN <<>>
                                             ELSE Readable(names)], Raises(names))]
  /\ phase' = [phase EXCEPT ![p] = "ready"]
  /\ UNCHANGED <<exclusive, diskVars, kind, todo, work, last, disturbed>>

\* A handler gets the engine: it may register, touch, remove and prune.
Use(p, e) ==
  /\ phase[p] \in {"ready", "used"}
  /\ kind[p] \in {"run", "daemon"}
  /\ Work
  /\ engine' = [engine EXCEPT ![p] = e]
  /\ phase' = [phase EXCEPT ![p] = "used"]
  /\ UNCHANGED <<exclusive, diskVars, kind, todo, last, disturbed>>

Learn(p) == \E n \in Notes, pinned \in BOOLEAN : Use(p, Register(engine[p], n, pinned))

\* A name of the jump start is registered again, without pinned=True.
Unpin(p) == \E n \in Core : Use(p, Register(engine[p], n, FALSE))

PruneByUtility(p) ==
  \E target \in 0 .. Len(engine[p].book) : \E e \in Pruned(engine[p], target) : Use(p, e)

PruneRedundant(p) == Use(p, Culled(engine[p]))

Others(p) == {q \in Procs \ {p} : phase[q] \in Saving}

\* save(): engine_meta.json is truncated.
SaveBegins(p) ==
  /\ phase[p] \in {"ready", "used"}
  /\ phase' = [phase EXCEPT ![p] = "fill meta"]
  /\ meta' = [kind |-> "torn", pins |-> {}]
  /\ last' = NoEngine
  /\ disturbed' = IF Others(p) = {} THEN disturbed \ {p}
                  ELSE disturbed \cup {p} \cup Others(p)
  /\ UNCHANGED <<exclusive, index, hv, kind, engine, todo, work>>

SaveMeta(p) ==
  /\ phase[p] = "fill meta"
  /\ phase' = [phase EXCEPT ![p] = "vectors"]
  /\ meta' = [kind |-> "whole", pins |-> engine[p].pins]
  /\ todo' = [todo EXCEPT ![p] = engine[p].book]
  /\ UNCHANGED <<exclusive, index, hv, kind, engine, work, last, disturbed>>

\* A vector file is opened, which truncates it ...
OpenVector(p) ==
  /\ phase[p] = "vectors"
  /\ todo[p] # <<>>
  /\ phase' = [phase EXCEPT ![p] = "fill vector"]
  /\ hv' = [hv EXCEPT ![Head(todo[p])] = "torn"]
  /\ UNCHANGED <<exclusive, meta, index, kind, engine, todo, work, last, disturbed>>

\* ... and written.
SaveVector(p) ==
  /\ phase[p] = "fill vector"
  /\ phase' = [phase EXCEPT ![p] = "vectors"]
  /\ hv' = [hv EXCEPT ![Head(todo[p])] = "whole"]
  /\ todo' = [todo EXCEPT ![p] = Tail(@)]
  /\ UNCHANGED <<exclusive, meta, index, kind, engine, work, last, disturbed>>

OpenIndex(p) ==
  /\ phase[p] = "vectors"
  /\ todo[p] = <<>>
  /\ phase' = [phase EXCEPT ![p] = "fill index"]
  /\ index' = [kind |-> "torn", book |-> <<>>]
  /\ UNCHANGED <<exclusive, meta, hv, kind, engine, todo, work, last, disturbed>>

\* Faulty variant: an index that is there stays as it is.
SaveIndexKept(p) ==
  /\ phase[p] = "fill index"
  /\ phase' = [phase EXCEPT ![p] = "saved"]
  /\ index' = [kind |-> "whole", book |-> index.book]
  /\ last' = IF p \in disturbed THEN NoEngine ELSE engine[p]
  /\ disturbed' = disturbed \ {p}
  /\ UNCHANGED <<exclusive, meta, hv, kind, engine, todo, work>>

SaveIndex(p) ==
  /\ phase[p] = "fill index"
  /\ phase' = [phase EXCEPT ![p] = "saved"]
  /\ index' = [kind |-> "whole", book |-> engine[p].book]
  /\ last' = IF p \in disturbed THEN NoEngine ELSE engine[p]
  /\ disturbed' = disturbed \ {p}
  /\ UNCHANGED <<exclusive, meta, hv, kind, engine, todo, work>>

\* The process ends, with or without a save, or is killed, also in the
\* middle of one.
End(p) ==
  /\ phase[p] # "gone"
  /\ phase' = [phase EXCEPT ![p] = "gone"]
  /\ kind' = [kind EXCEPT ![p] = "init"]
  /\ engine' = [engine EXCEPT ![p] = NewEngine]
  /\ todo' = [todo EXCEPT ![p] = <<>>]
  /\ disturbed' = disturbed \ {p}
  /\ UNCHANGED <<exclusive, diskVars, work, last>>

Load(p) == LoadRaises(p) \/ LoadMeta(p) \/ LoadVectors(p)

Handler(p) == Learn(p) \/ Unpin(p) \/ PruneByUtility(p) \/ PruneRedundant(p)

Save(p) ==
  \/ SaveBegins(p)
  \/ SaveMeta(p)
  \/ OpenVector(p)
  \/ SaveVector(p)
  \/ OpenIndex(p)
  \/ SaveIndex(p)

Next ==
  \E p \in Procs :
    \/ \E k \in Kinds : Begin(p, k)
    \/ NextTask(p)
    \/ Load(p)
    \/ Handler(p)
    \/ Save(p)
    \/ End(p)

Spec == Init /\ [][Next]_vars
-----------------------------------------------------------------------------
(***************************************************************************)
(* A save that no other save overlapped is one engine on disk, whatever    *)
(* kills, torn files and vectors of pruned atoms were there before: who    *)
(* loads until the next save begins gets the same atoms in the same order, *)
(* with the same pins, and no exception.                                   *)
(***************************************************************************)
SavedIsWhole ==
  last # NoEngine =>
    /\ meta = [kind |-> "whole", pins |-> last.pins]
    /\ index.kind # "torn"
    /\ \A names \in Listed : Readable(names) = last.book /\ ~Raises(names)

(***************************************************************************)
(* Whatever was killed, overlapped, unpinned or pruned before, a daemon    *)
(* and a watchdog start to work with all atoms of the jump start pinned,   *)
(* and a watchdog with its own atoms.  (A command that runs a skill does   *)
(* not: it takes what loads without an exception.)                         *)
(***************************************************************************)
CoreIsReady ==
  \A p \in Procs : phase[p] = "ready" =>
    /\ kind[p] # "run" => Intact(engine[p])
    /\ kind[p] = "watchdog" => NamesOf(Defence) \subseteq NamesOf(engine[p].book)

(***************************************************************************)
(* Pruning never takes a pinned atom away, and the redundancy cull takes   *)
(* none whose content is lost: one that is like it stays, although it      *)
(* compares atoms that go themselves later.                                *)
(***************************************************************************)
PruningIsSafe ==
  [][\A p \in Procs :
       LET lost == NamesOf(engine[p].book) \ NamesOf(engine'[p].book) IN
       /\ PruneByUtility(p) \/ PruneRedundant(p) => lost \cap engine[p].pins = {}
       /\ PruneRedundant(p) =>
            \A n \in lost : \E m \in NamesOf(engine'[p].book) : Near(n, m)]_vars
=============================================================================
