----------------------------- MODULE MCPromotion -----------------------------
(***************************************************************************)
(* Instances of Promotion for TLC.  A digest is the tuple of what it was   *)
(* taken of; the stamp of an atom stands for its body.                     *)
(***************************************************************************)
EXTENDS Promotion, TLC

CONSTANTS k1, k2, empty, data

Report(k, e, d) == [task |-> k, kind |-> e, payload |-> d]

\* A task that fails and succeeds, and one that only succeeds.
TwoTasks == {Report(k1, "completed", data), Report(k1, "failed", empty),
             Report(k2, "completed", empty)}

OneTask == {Report(k1, "completed", data), Report(k1, "failed", empty)}

MCGenesis == <<>>

MCAtomHash(prev, b) == <<prev, b.stamp>>

Over(D) == {MCGenesis} \cup (D \X Stamps)

MCHash == Over(Over(Over({MCGenesis})))

Processes == Permutations(Procs)
=============================================================================
