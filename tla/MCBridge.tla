------------------------------ MODULE MCBridge ------------------------------
(***************************************************************************)
(* An instance of Bridge for TLC: two bridges of one workspace, requests   *)
(* that are each sent once, digests as in MCLedger.                        *)
(***************************************************************************)
EXTENDS MCLedger, Bridge

CONSTANTS t3, append, remember, skill, bare, verify, other

\* Two connections to the first bridge and one to the second.
TwoOnFirst == (t1 :> h1) @@ (t2 :> h1) @@ (t3 :> h2)

\* The connections to the first bridge are alike.
Alike == Permutations({t1, t2})

MCOp == (append :> "append") @@ (remember :> "remember") @@ (skill :> "skill")
          @@ (bare :> "skill") @@ (verify :> "verify") @@ (other :> "other")
=============================================================================
