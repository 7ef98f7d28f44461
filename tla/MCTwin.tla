------------------------------- MODULE MCTwin -------------------------------
(***************************************************************************)
(* Instances of Twin for TLC.                                              *)
(***************************************************************************)
EXTENDS Twin, TLC

CONSTANTS self, defence, n1, n2

OneAtom == <<self>>

OneDefence == <<defence>>

\* A note that is like another one and like the atom of the jump start.
Similar == {<<n1, n2>>, <<self, n2>>}

Processes == Permutations(Procs)
=============================================================================
