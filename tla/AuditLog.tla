------------------------------ MODULE AuditLog ------------------------------
(***************************************************************************)
(* What CleanRoomLedger promises to a writer that has the audit directory  *)
(* to itself: entries are only ever added at the end, and verify_chain     *)
(* accepts the log until a process dies between writing a line and writing *)
(* tip.json.  From then on the log is never accepted again.                *)
(***************************************************************************)
EXTENDS Naturals, Sequences

CONSTANT Events

VARIABLES
  entries,  \* the events of the lines of ledger.jsonl
  status    \* what a new handle would find

auditVars == <<entries, status>>

Statuses == {"intact", "unsynced", "broken"}

AuditTypeOK ==
  /\ entries \in Seq(Events)
  /\ status \in Statuses

AuditInit ==
  /\ entries = <<>>
  /\ status = "intact"

\* A line is written; tip.json still names its predecessor.
Write(e) ==
  /\ status # "unsynced"
  /\ entries' = Append(entries, e)
  /\ status' = IF status = "intact" THEN "unsynced" ELSE "broken"

\* tip.json names the last line.
Sync ==
  /\ status = "unsynced"
  /\ status' = "intact"
  /\ UNCHANGED entries

\* The process dies inside append(), after the line was written.
TearDown ==
  /\ status = "unsynced"
  /\ status' = "broken"
  /\ UNCHANGED entries

AuditNext ==
  \/ \E e \in Events : Write(e)
  \/ Sync
  \/ TearDown

AuditSpec == AuditInit /\ [][AuditNext]_auditVars
=============================================================================
