------------------------- MODULE ConnectionProofs -------------------------
(***************************************************************************)
(* Proofs about the ConnectionManager model: every reachable state is     *)
(* well typed, in particular the editor model never loses its last line    *)
(* and the stored composition range is a proper line range.                *)
(***************************************************************************)
EXTENDS Connection, SequenceTheorems, TLAPS

(***************************************************************************)
(* Lemmas about the sequence operations the editor edits are built from.   *)
(***************************************************************************)

\* A prefix of a line sequence is a line sequence of the prefix's length.
LEMMA PrefixType ==
    ASSUME NEW S, NEW b \in Seq(S), NEW k \in 0..Len(b)
    PROVE  /\ SubSeq(b, 1, k) \in Seq(S)
           /\ Len(SubSeq(b, 1, k)) = k
  BY SubSeqProperties, ElementOfSeq

\* A suffix starting at line m is a line sequence of the remaining length.
LEMMA SuffixType ==
    ASSUME NEW S, NEW b \in Seq(S), NEW m \in 1..Len(b) + 1
    PROVE  /\ SubSeq(b, m, Len(b)) \in Seq(S)
           /\ Len(SubSeq(b, m, Len(b))) = Len(b) - m + 1
  <1>1. \A i \in m..Len(b) : b[i] \in S
    BY ElementOfSeq
  <1>2. QED
    BY <1>1, SubSeqProperties

\* A composition block of n lines.
LEMMA BlockType ==
    ASSUME NEW n \in Nat
    PROVE  /\ Block(n) \in Seq(LineKinds)
           /\ Len(Block(n)) = n
  BY DEF Block, LineKinds

\* Marking earlier composition lines stale keeps the length.
LEMMA MarkStaleType ==
    ASSUME NEW b \in Seq(LineKinds)
    PROVE  /\ MarkStale(b) \in Seq(LineKinds)
           /\ Len(MarkStale(b)) = Len(b)
  BY DEF MarkStale, LineKinds

\* The buffer _updateComposition leaves is a non-empty line sequence.
LEMMA ComposedBufferType ==
    ASSUME NEW b \in Seq(LineKinds), Len(b) >= 1,
           NEW rng \in Ranges \cup {NoRange}, NEW n \in Nat \ {0},
           rng # NoRange => rng.start = 1
    PROVE  /\ ComposedBuffer(b, rng, n) \in Seq(LineKinds)
           /\ Len(ComposedBuffer(b, rng, n)) >= 1
  <1> DEFINE m == MarkStale(b)
  <1>1. m \in Seq(LineKinds) /\ Len(m) = Len(b)
    BY MarkStaleType
  <1>2. Block(n) \in Seq(LineKinds) /\ Len(Block(n)) = n
    BY BlockType
  <1>3. CASE ShouldAddNewLine(rng)
    BY <1>1, <1>2, <1>3, ConcatProperties DEF ComposedBuffer
  <1>4. CASE ~ShouldAddNewLine(rng)
    <2>1. ComposeStart(rng) - 1 \in 0..Len(m)
      BY <1>1 DEF ComposeStart, Ranges
    <2>2. ClampedEnd(b, rng) + 1 \in 1..Len(m) + 1
      BY <1>1 DEF ClampedEnd, ComposeEnd, Ranges
    <2>3. SubSeq(m, 1, ComposeStart(rng) - 1) \in Seq(LineKinds)
      BY <1>1, <2>1, PrefixType
    <2>4. SubSeq(m, ClampedEnd(b, rng) + 1, Len(b)) \in Seq(LineKinds)
      BY <1>1, <2>2, SuffixType
    <2>5. QED
      BY <1>2, <1>4, <2>3, <2>4, ConcatProperties DEF ComposedBuffer
  <1>5. QED
    BY <1>3, <1>4

\* The composition has one to four lines.
LEMMA BuildCompositionLinesType ==
    ASSUME NEW sch \in Schemas
    PROVE  BuildCompositionLines(sch) \in Nat \ {0}
  BY DEF BuildCompositionLines

\* The listener schedules at most one callback per change.
LEMMA OnDidChangeContentType ==
    ASSUME NEW c, NEW l, NEW rng
    PROVE  OnDidChangeContent(c, l, rng) \in Nat
  BY DEF OnDidChangeContent

(***************************************************************************)
(* Type correctness.                                                       *)
(***************************************************************************)

\* The strengthening of TypeOK the proofs use: _compositionRange always
\* starts at line 1, since _updateComposition starts the new range where
\* the old one started and the first one at line 1.
TypeInv ==
    /\ TypeOK
    /\ compositionRange # NoRange => compositionRange.start = 1

LEMMA InitTypeInv == Init => TypeInv
  BY ConstantsAssumption
     DEF Init, TypeInv, TypeOK, EmptySchema, Schemas, LineKinds, Placeholder

\* onSchemaSessionChange keeps the buffer a non-empty line sequence and
\* stores a range starting at line 1.
LEMMA SchemaChangeTypeInv ==
    ASSUME TypeInv, NEW schema \in Schemas, NEW range \in TimeRanges,
           OnSchemaSessionChange(schema, range)
    PROVE  TypeInv'
  <1> DEFINE cleared == IF buffer = <<Placeholder>> THEN <<Empty>> ELSE buffer
             n == BuildCompositionLines(schema)
             clearEnds == IF buffer = <<Placeholder>>
                          THEN OnDidChangeContent(ClearChange(buffer), TRUE,
                                                  compositionRange)
                          ELSE 0
             composeEnds == OnDidChangeContent(ComposeChange(cleared, compositionRange),
                                               TRUE, compositionRange)
             update == SchemaChanged(schema, session) \/ timeRange # range
  <1>0. /\ buffer \in Seq(LineKinds) /\ Len(buffer) >= 1
        /\ compositionRange \in Ranges \cup {NoRange}
        /\ compositionRange # NoRange => compositionRange.start = 1
        /\ pendingEnds \in Nat /\ notifications \in Nat
        /\ synced \in BOOLEAN /\ firstLoad \in BOOLEAN /\ timeRange \in TimeRanges
    BY DEF TypeInv, TypeOK
  <1>1. session' = schema /\ synced' = synced /\ notifications' = notifications
    BY DEF OnSchemaSessionChange, ContinueSchemaChange
  <1>2. CASE ~synced
    <2>1. UNCHANGED <<buffer, compositionRange, firstLoad, timeRange, pendingEnds>>
      BY <1>2 DEF OnSchemaSessionChange, ContinueSchemaChange
    <2>2. QED
      BY <1>0, <1>1, <2>1 DEF TypeInv, TypeOK
  <1>3. cleared \in Seq(LineKinds) /\ Len(cleared) >= 1
    <2>1. <<Empty>> \in Seq(LineKinds) /\ Len(<<Empty>>) = 1
      BY DEF LineKinds, Empty
    <2>2. QED
      BY <1>0, <2>1
  <1>4. BuildCompositionLines(schema) \in Nat \ {0}
    BY BuildCompositionLinesType
  <1>5. clearEnds \in Nat
    <2>1. OnDidChangeContent(ClearChange(buffer), TRUE, compositionRange) \in Nat
      BY OnDidChangeContentType
    <2>2. QED
      BY <2>1
  <1>6. composeEnds \in Nat
    BY OnDidChangeContentType
  <1> HIDE DEF clearEnds, composeEnds
  <1>7. CASE synced
    <2>1. firstLoad' = FALSE /\ timeRange' = range
      BY <1>7 DEF OnSchemaSessionChange, ContinueSchemaChange
    <2>2. CASE update
      <3>1. /\ buffer' = ComposedBuffer(cleared, compositionRange, n)
            /\ compositionRange' = ComposedRange(compositionRange, n)
            /\ pendingEnds' = pendingEnds + clearEnds + composeEnds
        BY <1>7, <2>2 DEF OnSchemaSessionChange, ContinueSchemaChange, clearEnds, composeEnds
      <3>2. buffer' \in Seq(LineKinds) /\ Len(buffer') >= 1
        BY <1>0, <1>3, <1>4, <3>1, ComposedBufferType
      <3>3. compositionRange' \in Ranges /\ compositionRange'.start = 1
        BY <1>0, <1>4, <3>1 DEF ComposedRange, ComposeStart, Ranges
      <3>4. pendingEnds' \in Nat
        BY <1>0, <1>5, <1>6, <3>1
      <3>5. QED
        BY <1>0, <1>1, <2>1, <3>2, <3>3, <3>4 DEF TypeInv, TypeOK
    <2>3. CASE ~update
      <3>1. /\ buffer' = cleared
            /\ pendingEnds' = pendingEnds + clearEnds
            /\ compositionRange' = compositionRange
        BY <1>7, <2>3 DEF OnSchemaSessionChange, ContinueSchemaChange, clearEnds
      <3>2. pendingEnds' \in Nat
        BY <1>0, <1>5, <3>1
      <3>3. QED
        BY <1>0, <1>1, <1>3, <2>1, <3>1, <3>2 DEF TypeInv, TypeOK
    <2>4. QED
      BY <2>2, <2>3
  <1>8. QED
    BY <1>2, <1>7

\* A user edit keeps the buffer a non-empty line sequence.
LEMMA UserEditTypeInv ==
    ASSUME TypeInv,
           \/ \E s, e \in 1..MaxLines, del \in BOOLEAN, len \in UserRangeLengths :
                 UserReplace(s, e, del, len)
           \/ \E i \in 1..MaxLines : UserInsertLine(i)
           \/ \E s, e \in 1..MaxLines, fromEnd \in BOOLEAN, len \in UserRangeLengths :
                 UserDeleteLines(s, e, fromEnd, len)
    PROVE  TypeInv'
  <1> USE DEF TypeInv, TypeOK
  <1>1. ASSUME NEW c, UserEdited(c)
        PROVE  UNCHANGED <<session, synced, compositionRange, firstLoad, timeRange,
                           notifications>> /\ pendingEnds' \in Nat
    BY <1>1, OnDidChangeContentType DEF UserEdited
  <1>u. <<UserText>> \in Seq(LineKinds) /\ Len(<<UserText>>) = 1
    BY DEF LineKinds, UserText
  <1>2. CASE \E s, e \in 1..MaxLines, del \in BOOLEAN, len \in UserRangeLengths :
                 UserReplace(s, e, del, len)
    <2>1. PICK s, e \in 1..MaxLines, del \in BOOLEAN, len \in UserRangeLengths :
                 UserReplace(s, e, del, len)
      BY <1>2
    <2>2. /\ SubSeq(buffer, 1, s - 1) \in Seq(LineKinds)
          /\ SubSeq(buffer, e + 1, Len(buffer)) \in Seq(LineKinds)
      BY <2>1, PrefixType, SuffixType DEF UserReplace
    <2>3. SubSeq(buffer, 1, s - 1) \o <<UserText>> \in Seq(LineKinds)
          /\ Len(SubSeq(buffer, 1, s - 1) \o <<UserText>>) >= 1
      BY <1>u, <2>2, ConcatProperties
    <2> DEFINE x == SubSeq(buffer, 1, s - 1) \o <<UserText>>
               y == SubSeq(buffer, e + 1, Len(buffer))
    <2>6. x \o y \in Seq(LineKinds) /\ Len(x \o y) >= 1
      <3>1. x \in Seq(LineKinds) /\ Len(x) >= 1 /\ y \in Seq(LineKinds)
        BY <2>2, <2>3
      <3>2. Len(y) \in Nat
        BY <3>1, LenProperties
      <3> HIDE DEF x, y
      <3>3. x \o y \in Seq(LineKinds) /\ Len(x \o y) = Len(x) + Len(y)
        BY <3>1, ConcatProperties
      <3>4. QED
        BY <3>1, <3>2, <3>3
    <2>4. buffer' \in Seq(LineKinds) /\ Len(buffer') >= 1
      BY <2>1, <2>6 DEF UserReplace
    <2>5. QED
      BY <1>1, <2>1, <2>4 DEF UserReplace
  <1>3. CASE \E i \in 1..MaxLines : UserInsertLine(i)
    <2>1. PICK i \in 1..MaxLines : UserInsertLine(i)
      BY <1>3
    <2>2. /\ SubSeq(buffer, 1, i - 1) \in Seq(LineKinds)
          /\ SubSeq(buffer, i, Len(buffer)) \in Seq(LineKinds)
      BY <2>1, PrefixType, SuffixType DEF UserInsertLine
    <2>3. buffer' \in Seq(LineKinds) /\ Len(buffer') >= 1
      BY <1>u, <2>1, <2>2, ConcatProperties DEF UserInsertLine
    <2>4. QED
      BY <1>1, <2>1, <2>3 DEF UserInsertLine
  <1>4. CASE \E s, e \in 1..MaxLines, fromEnd \in BOOLEAN, len \in UserRangeLengths :
                 UserDeleteLines(s, e, fromEnd, len)
    <2>1. PICK s, e \in 1..MaxLines, fromEnd \in BOOLEAN, len \in UserRangeLengths :
                 UserDeleteLines(s, e, fromEnd, len)
      BY <1>4
    <2>2. CASE fromEnd
      <3>1. /\ SubSeq(buffer, 1, s) \in Seq(LineKinds)
            /\ Len(SubSeq(buffer, 1, s)) = s
            /\ SubSeq(buffer, e + 1, Len(buffer)) \in Seq(LineKinds)
            /\ Len(SubSeq(buffer, e + 1, Len(buffer))) = Len(buffer) - e
        BY <2>1, PrefixType, SuffixType DEF UserDeleteLines
      <3>2. buffer' \in Seq(LineKinds) /\ Len(buffer') >= 1
        BY <2>1, <2>2, <3>1, ConcatProperties DEF UserDeleteLines
      <3>3. QED
        BY <1>1, <2>1, <3>2 DEF UserDeleteLines
    <2>3. CASE ~fromEnd
      <3>1. /\ SubSeq(buffer, 1, s - 1) \in Seq(LineKinds)
            /\ Len(SubSeq(buffer, 1, s - 1)) = s - 1
            /\ SubSeq(buffer, e, Len(buffer)) \in Seq(LineKinds)
            /\ Len(SubSeq(buffer, e, Len(buffer))) = Len(buffer) - e + 1
        BY <2>1, PrefixType, SuffixType DEF UserDeleteLines
      <3>2. buffer' \in Seq(LineKinds) /\ Len(buffer') >= 1
        BY <2>1, <2>3, <3>1, ConcatProperties DEF UserDeleteLines
      <3>3. QED
        BY <1>1, <2>1, <3>2 DEF UserDeleteLines
    <2>4. QED
      BY <2>2, <2>3
  <1>5. QED
    BY <1>2, <1>3, <1>4

LEMMA NextTypeInv == TypeInv /\ [Next]_vars => TypeInv'
  <1> SUFFICES ASSUME TypeInv, [Next]_vars PROVE TypeInv'
    OBVIOUS
  <1>1. CASE \E schema \in Schemas, range \in TimeRanges :
                OnSchemaSessionChange(schema, range)
    BY <1>1, SchemaChangeTypeInv
  <1>2. CASE CompositionEndedCallback
    <2>1. /\ pendingEnds \in Nat /\ notifications \in Nat
      BY DEF TypeInv, TypeOK
    <2>2. pendingEnds' \in Nat
      BY <1>2, <2>1 DEF CompositionEndedCallback
    <2>5. notifications' \in Nat
      BY <1>2, <2>1 DEF CompositionEndedCallback
    <2>6. synced' \in BOOLEAN
      BY <1>2 DEF CompositionEndedCallback
    <2>3. UNCHANGED <<buffer, session, compositionRange, firstLoad, timeRange>>
      BY <1>2 DEF CompositionEndedCallback
    <2>4. QED
      BY <2>2, <2>3, <2>5, <2>6 DEF TypeInv, TypeOK
  <1>3. CASE UNCHANGED vars
    BY <1>3 DEF vars, TypeInv, TypeOK
  <1>4. QED
    BY <1>1, <1>2, <1>3, UserEditTypeInv DEF Next

\* Every reachable state of the ConnectionManager is well typed: the editor
\* model always has a line, _compositionRange is absent or a line range
\* starting at line 1, and the callback counters are natural numbers.
THEOREM TypeCorrect == Spec => []TypeOK
  <1>1. TypeInv => TypeOK
    BY DEF TypeInv
  <1>2. QED
    BY InitTypeInv, NextTypeInv, <1>1, PTL DEF Spec

=============================================================================
