------------------------------ MODULE MCLedger ------------------------------
(***************************************************************************)
(* Instances of Ledger for TLC.  A digest is the tuple of what was hashed, *)
(* so two digests are equal only if everything below them is; the set of   *)
(* digests is stratified by the length of the chain under them.            *)
(***************************************************************************)
EXTENDS Ledger, TLC

CONSTANTS h1, h2, t1, t2

MCGenesis == <<>>

MCEntryHash(prev, b) == <<prev, b.seq, b.event, b.prev>>

DigestsOver(D) == D \X (1 .. MaxEntries) \X Events \X D

Level1 == {MCGenesis} \cup (({MCGenesis}) \X (1 .. MaxEntries) \X Events \X {MCGenesis})
Level2 == Level1 \cup DigestsOver(Level1)
MCHash == {MCGenesis} \cup DigestsOver(Level2)

\* One thread in each of two processes.
OneEach == (t1 :> h1) @@ (t2 :> h2)

\* Two clients of one bridge.
BothOnFirst == (t1 :> h1) @@ (t2 :> h1)
=============================================================================
