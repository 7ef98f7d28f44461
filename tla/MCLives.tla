------------------------------- MODULE MCLives -------------------------------
(***************************************************************************)
(* The instance of MCLedger with the history of LedgerLives.               *)
(***************************************************************************)
EXTENDS MCLedger, LedgerLives
=============================================================================
