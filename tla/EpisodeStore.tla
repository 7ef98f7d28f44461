---------------------------- MODULE EpisodeStore ----------------------------
(***************************************************************************)
(* What EpisodicMemoryStore promises to a process that has the workspace   *)
(* to itself: an item is in the store from one moment on and for good, and *)
(* the audit log names only episodes that are in the store.                *)
(***************************************************************************)
EXTENDS FiniteSets

CONSTANT Ids

VARIABLES
  stored,  \* the items a process that starts now finds
  noted    \* the episodes with an entry in the audit log

storeVars == <<stored, noted>>

StoreInit ==
  /\ stored = {}
  /\ noted = {}

Keep(id) ==
  /\ stored' = stored \cup {id}
  /\ UNCHANGED noted

Note(id) ==
  /\ id \in stored
  /\ noted' = noted \cup {id}
  /\ UNCHANGED stored

StoreNext == \E id \in Ids : Keep(id) \/ Note(id)

StoreSpec == StoreInit /\ [][StoreNext]_storeVars
=============================================================================
