------------------------ MODULE ConnectionRefinement ------------------------
(***************************************************************************)
(* The ConnectionManager model implements the SyncSession contract.  The   *)
(* session has ended once the setTimeout callback has cleared synced; it   *)
(* is ending while synced with a callback scheduled; the region is         *)
(* _compositionRange and the owner has been told once a compositionEnded   *)
(* notification was dispatched.  Edits that schedule a callback after the *)
(* first, later callbacks, and updates that leave the range alone are      *)
(* stuttering steps of the contract.                                       *)
(***************************************************************************)
EXTENDS Connection

SyncState ==
    IF ~synced THEN "ended"
    ELSE IF pendingEnds > 0 THEN "ending" ELSE "synced"

Abs == INSTANCE SyncSession
         WITH state <- SyncState, region <- compositionRange,
              notified <- notifications > 0

\* The manager's behaviours are behaviours of the synchronizer contract:
\* synced never comes back once cleared, _compositionRange never moves
\* after the session ended, the notification comes with the end and not
\* before, and every end that is due happens.
SyncSessionRefined == Abs!Spec
=============================================================================
