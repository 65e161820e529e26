---------------------------- MODULE SyncSession ----------------------------
(***************************************************************************)
(* What the composition synchronizer promises its owner, at the level of   *)
(* the spec's SyncState (section 3): a session is synced, has seen an     *)
(* external edit inside its region and is ending, or has ended, which is   *)
(* terminal.  Builder updates move the managed region until the session    *)
(* has ended; the end is announced to the owner when it happens and never *)
(* undone.  The spec also forbids updates while ending; the                *)
(* ConnectionManager allows them until its setTimeout callback runs, so    *)
(* this contract allows them too (NoWriteAfterTakeover is that gap).      *)
(***************************************************************************)
EXTENDS Naturals

CONSTANT NoRange   \* no region yet

VARIABLES
    state,     \* "synced", "ending" or "ended"
    region,    \* the managed region's lines, or NoRange
    notified   \* the owner has been told that the sync ended

vars == <<state, region, notified>>

States == {"synced", "ending", "ended"}

\* Regions start at line 1: the composition is written at the top.
Regions == [start: {1}, end: Nat \ {0}]

TypeOK ==
    /\ state \in States
    /\ region \in Regions \cup {NoRange}
    /\ notified \in BOOLEAN

Init ==
    /\ state = "synced"
    /\ region = NoRange
    /\ notified = FALSE

\* A builder update rewrites the region, before the session has ended.
Apply ==
    /\ state # "ended"
    /\ region' \in Regions
    /\ UNCHANGED <<state, notified>>

\* An edit inside the region that the synchronizer did not make.
ExternalEdit ==
    /\ state = "synced"
    /\ state' = "ending"
    /\ UNCHANGED <<region, notified>>

\* The session ends and the owner is told.
End ==
    /\ state = "ending"
    /\ state' = "ended"
    /\ notified' = TRUE
    /\ UNCHANGED region

Next == Apply \/ ExternalEdit \/ End

Spec == Init /\ [][Next]_vars /\ WF_vars(End)

\* The owner has been told exactly when the session has ended.
NotifiedIffEnded == notified <=> state = "ended"
=============================================================================
