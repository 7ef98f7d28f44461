---------------------------- MODULE MCMemoryStore ----------------------------
(***************************************************************************)
(* Instances of MemoryStore for TLC: a bridge with two clients and a       *)
(* daemon, or two processes one after the other.                           *)
(***************************************************************************)
EXTENDS MemoryStore, TLC

CONSTANTS s1, s2, t1, t2, t3

OneEach == (t1 :> s1) @@ (t2 :> s2)

\* Ids and files are interchangeable.
Interchange == Permutations(Ids) \cup Permutations(Inodes)

\* Where calls overlap, two items are stored in a behaviour.
TwoShared == serial \/ Cardinality(vectors) <= 2

ClientsAndDaemon == (t1 :> s1) @@ (t2 :> s1) @@ (t3 :> s2)
=============================================================================
