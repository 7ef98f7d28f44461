----------------------------- MODULE MCWatchdog -----------------------------
(***************************************************************************)
(* An instance of Watchdog for TLC.                                        *)
(***************************************************************************)
EXTENDS Watchdog, TLC

\* Draws are interchangeable, and so are jump starts.
Interchange == Permutations(Draws) \cup Permutations(Starts)
=============================================================================
