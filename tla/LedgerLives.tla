----------------------------- MODULE LedgerLives -----------------------------
(***************************************************************************)
(* Ledger in the hands of one process at a time, which may be killed at    *)
(* any step.  The history variable struck says that a kill once fell into  *)
(* the window of append() in which the line is written and tip.json is     *)
(* not.                                                                    *)
(***************************************************************************)
EXTENDS Ledger

VARIABLE struck

livesVars == <<vars, struck>>

LivesInit == Init /\ struck = FALSE

Strikes(h) ==
  /\ Crash(h)
  /\ struck' = (struck \/ \E t \in InWindow : HandleOf[t] = h)

LivesNext ==
  \/ Serial /\ UNCHANGED struck
  \/ \E h \in Handles : Strikes(h)

LivesSpec == LivesInit /\ [][LivesNext]_livesVars

(***************************************************************************)
(* A process that has the workspace to itself never finds its own log in   *)
(* error: whenever no append is running, verify_chain accepts it (the      *)
(* check run_task starts with), across any number of exits, kills and      *)
(* starts, unless a kill struck the window.                                *)
(***************************************************************************)
VerifiesUnlessStruck == ~struck => VerifiesBetweenCalls

(***************************************************************************)
(* Between calls tip.json names the last line, its number and its hash, so *)
(* the handle of the next process continues the chain where it ends,       *)
(* unless a kill struck the window.                                        *)
(***************************************************************************)
ContinuesUnlessStruck == ~struck => NextProcessContinues
=============================================================================
