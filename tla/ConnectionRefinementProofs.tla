--------------------- MODULE ConnectionRefinementProofs ---------------------
(***************************************************************************)
(* Proof that the ConnectionManager implements the safety part of the      *)
(* SyncSession contract, whenever applyEdits' change events carry its      *)
(* forceMoveMarkers flag (MarkerPreserved): without it the manager's own   *)
(* write can be judged an external edit, in the same step as it moves the *)
(* region.                                                                 *)
(***************************************************************************)
EXTENDS ConnectionRefinement, ConnectionProofs

\* The invariant the refinement rests on: the type invariant, and a
\* notification has been dispatched exactly when synced has been cleared,
\* since the callback does both and nothing else does either.
SInv ==
    /\ TypeInv
    /\ synced <=> notifications = 0

LEMMA InitSInv == Init => SInv
  BY InitTypeInv DEF Init, SInv

\* The steps that leave synced and notifications alone.
LEMMA OtherStepsKeepNotified ==
    ASSUME [Next]_vars, ~CompositionEndedCallback
    PROVE  synced' = synced /\ notifications' = notifications
  <1>1. ASSUME NEW c, UserEdited(c)
        PROVE  synced' = synced /\ notifications' = notifications
    BY <1>1 DEF UserEdited
  <1>2. QED
    BY <1>1 DEF Next, vars, OnSchemaSessionChange, UserReplace, UserInsertLine,
                UserDeleteLines

LEMMA NextSInv == SInv /\ [Next]_vars => SInv'
  <1> SUFFICES ASSUME SInv, [Next]_vars PROVE SInv'
    OBVIOUS
  <1>1. TypeInv'
    BY NextTypeInv DEF SInv
  <1>2. synced' <=> notifications' = 0
    <2>1. CASE CompositionEndedCallback
      <3>1. notifications \in Nat
        BY DEF SInv, TypeInv, TypeOK
      <3>2. QED
        BY <2>1, <3>1 DEF CompositionEndedCallback
    <2>2. CASE ~CompositionEndedCallback
      <3>1. synced' = synced /\ notifications' = notifications
        BY <2>2, OtherStepsKeepNotified
      <3>2. QED
        BY <3>1 DEF SInv
    <2>3. QED
      BY <2>1, <2>2
  <1>3. QED
    BY <1>1, <1>2 DEF SInv

(***************************************************************************)
(* Each action of the manager is a step of the contract or a stutter of    *)
(* its variables.                                                          *)
(***************************************************************************)

\* The listener schedules no callback for the placeholder's removal, nor,
\* with MarkerPreserved, for the manager's own write.
LEMMA OwnChangesIgnored ==
    ASSUME MarkerPreserved, NEW b, NEW rng, NEW l
    PROVE  /\ OnDidChangeContent(ClearChange(b), l, rng) = 0
           /\ OnDidChangeContent(ComposeChange(b, rng), l, rng) = 0
  BY DEF OnDidChangeContent, CouldBeFromComposition, ClearChange, ComposeChange,
         Change

LEMMA SchemaChangeRefines ==
    ASSUME MarkerPreserved, SInv, NEW schema \in Schemas, NEW range \in TimeRanges,
           OnSchemaSessionChange(schema, range)
    PROVE  [Abs!Next]_Abs!vars
  <1> DEFINE n == BuildCompositionLines(schema)
             update == SchemaChanged(schema, session) \/ timeRange # range
             cleared == IF buffer = <<Placeholder>> THEN <<Empty>> ELSE buffer
             clearEnds == IF buffer = <<Placeholder>>
                          THEN OnDidChangeContent(ClearChange(buffer), TRUE,
                                                  compositionRange)
                          ELSE 0
             composeEnds == OnDidChangeContent(ComposeChange(cleared, compositionRange),
                                               TRUE, compositionRange)
  <1>0. /\ compositionRange \in Ranges \cup {NoRange}
        /\ compositionRange # NoRange => compositionRange.start = 1
        /\ pendingEnds \in Nat
    BY DEF SInv, TypeInv, TypeOK
  <1>1. synced' = synced /\ notifications' = notifications
    BY DEF OnSchemaSessionChange, ContinueSchemaChange
  <1>2. CASE ~synced
    <2>1. UNCHANGED <<compositionRange, pendingEnds>>
      BY <1>2 DEF OnSchemaSessionChange, ContinueSchemaChange
    <2>2. QED
      BY <1>1, <2>1 DEF Abs!vars, SyncState
  <1>3. CASE synced
    <2>1. pendingEnds' = pendingEnds
      <3>1. clearEnds = 0
        BY OwnChangesIgnored DEF clearEnds
      <3>2. composeEnds = 0
        BY OwnChangesIgnored DEF composeEnds
      <3> HIDE DEF clearEnds, composeEnds
      <3>3. \/ update /\ pendingEnds' = pendingEnds + clearEnds + composeEnds
            \/ ~update /\ pendingEnds' = pendingEnds + clearEnds
        BY <1>3 DEF OnSchemaSessionChange, ContinueSchemaChange, clearEnds, composeEnds
      <3>4. QED
        BY <1>0, <3>1, <3>2, <3>3
    <2>2. SyncState' = SyncState /\ SyncState # "ended"
      BY <1>1, <1>3, <2>1 DEF SyncState
    <2>3. CASE update
      <3>1. compositionRange' = ComposedRange(compositionRange, n)
        BY <1>3, <2>3 DEF OnSchemaSessionChange, ContinueSchemaChange
      <3>2. n \in Nat \ {0}
        BY BuildCompositionLinesType
      <3>3. compositionRange' \in Abs!Regions
        BY <1>0, <3>1, <3>2 DEF ComposedRange, ComposeStart, Abs!Regions, Ranges
      <3>4. Abs!Apply
        BY <1>1, <2>2, <3>3 DEF Abs!Apply
      <3>5. QED
        BY <3>4 DEF Abs!Next
    <2>4. CASE ~update
      <3>1. compositionRange' = compositionRange
        BY <1>3, <2>4 DEF OnSchemaSessionChange, ContinueSchemaChange
      <3>2. QED
        BY <1>1, <2>2, <3>1 DEF Abs!vars
    <2>5. QED
      BY <2>3, <2>4
  <1>4. QED
    BY <1>2, <1>3

\* An edit of the user is ExternalEdit when it is the first to schedule a
\* callback of a synced session, and a stutter otherwise.
LEMMA UserEditedRefines ==
    ASSUME SInv, NEW c, UserEdited(c)
    PROVE  [Abs!Next]_Abs!vars
  <1> DEFINE k == OnDidChangeContent(c, ~firstLoad, compositionRange)
  <1>0. pendingEnds \in Nat
    BY DEF SInv, TypeInv, TypeOK
  <1>1. /\ pendingEnds' = pendingEnds + k
        /\ UNCHANGED <<synced, compositionRange, notifications>>
    BY DEF UserEdited
  <1>2. k \in {0, 1}
    BY DEF OnDidChangeContent
  <1> HIDE DEF k
  <1>3. CASE synced /\ pendingEnds = 0 /\ k = 1
    <2>1. SyncState = "synced" /\ SyncState' = "ending"
      BY <1>0, <1>1, <1>3 DEF SyncState
    <2>2. Abs!ExternalEdit
      BY <1>1, <2>1 DEF Abs!ExternalEdit
    <2>3. QED
      BY <2>2 DEF Abs!Next
  <1>4. CASE ~(synced /\ pendingEnds = 0 /\ k = 1)
    <2>1. SyncState' = SyncState
      BY <1>0, <1>1, <1>2, <1>4 DEF SyncState
    <2>2. QED
      BY <1>1, <2>1 DEF Abs!vars
  <1>5. QED
    BY <1>3, <1>4

\* The first callback of a synced session is End; later ones stutter.
LEMMA CallbackRefines ==
    ASSUME SInv, CompositionEndedCallback
    PROVE  [Abs!Next]_Abs!vars
  <1>0. notifications \in Nat /\ pendingEnds \in Nat
    BY DEF SInv, TypeInv, TypeOK
  <1>1. /\ pendingEnds > 0 /\ synced' = FALSE
        /\ notifications' = notifications + 1
        /\ compositionRange' = compositionRange
    BY DEF CompositionEndedCallback
  <1>2. CASE synced
    <2>1. SyncState = "ending" /\ SyncState' = "ended"
      BY <1>1, <1>2 DEF SyncState
    <2>2. ~(notifications > 0) /\ notifications' > 0
      BY <1>0, <1>1, <1>2 DEF SInv
    <2>3. Abs!End
      BY <1>1, <2>1, <2>2 DEF Abs!End
    <2>4. QED
      BY <2>3 DEF Abs!Next
  <1>3. CASE ~synced
    <2>1. notifications > 0 /\ notifications' > 0
      BY <1>0, <1>1, <1>3 DEF SInv
    <2>2. SyncState = "ended" /\ SyncState' = "ended"
      BY <1>1, <1>3 DEF SyncState
    <2>3. QED
      BY <1>1, <2>1, <2>2 DEF Abs!vars
  <1>4. QED
    BY <1>2, <1>3

LEMMA StepRefines ==
    ASSUME MarkerPreserved, SInv, [Next]_vars
    PROVE  [Abs!Next]_Abs!vars
  <1>1. CASE \E schema \in Schemas, range \in TimeRanges :
                OnSchemaSessionChange(schema, range)
    BY <1>1, SchemaChangeRefines
  <1>2. CASE \E s, e \in 1..MaxLines, del \in BOOLEAN, len \in UserRangeLengths :
                UserReplace(s, e, del, len)
    BY <1>2, UserEditedRefines DEF UserReplace
  <1>3. CASE \E i \in 1..MaxLines : UserInsertLine(i)
    BY <1>3, UserEditedRefines DEF UserInsertLine
  <1>4. CASE \E s, e \in 1..MaxLines, fromEnd \in BOOLEAN, len \in UserRangeLengths :
                UserDeleteLines(s, e, fromEnd, len)
    BY <1>4, UserEditedRefines DEF UserDeleteLines
  <1>5. CASE CompositionEndedCallback
    BY <1>5, CallbackRefines
  <1>6. CASE UNCHANGED vars
    BY <1>6 DEF vars, Abs!vars, SyncState
  <1>7. QED
    BY <1>1, <1>2, <1>3, <1>4, <1>5, <1>6 DEF Next

\* When the change events of applyEdits carry its forceMoveMarkers flag,
\* every behaviour of the ConnectionManager is a behaviour of the SyncSession
\* contract, for all instances: an ended session never comes back, its
\* region never moves, and the owner is told exactly at the end.
THEOREM Refinement ==
    ASSUME MarkerPreserved
    PROVE  Spec => Abs!Init /\ [][Abs!Next]_Abs!vars
  <1>1. Init => Abs!Init
    BY DEF Init, Abs!Init, SyncState
  <1>2. SInv /\ [Next]_vars => [Abs!Next]_Abs!vars
    BY StepRefines
  <1>3. QED
    BY <1>1, <1>2, InitSInv, NextSInv, PTL DEF Spec
=============================================================================
