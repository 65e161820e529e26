---------------------- MODULE ConnectionRegionProofs ----------------------
(***************************************************************************)
(* Proof of ManagedRegionIntact: while the session is synced and no end of *)
(* sync is pending, the lines _compositionRange names are exactly the      *)
(* lines the last _updateComposition wrote.  It holds for the edits the    *)
(* classifier was written for (MarkerPreserved, no multi-line replacement, *)
(* no user edit replacing exactly the placeholder's length); the run       *)
(* connection_spanning_replace shows it fails with multi-line replacement. *)
(***************************************************************************)
EXTENDS ConnectionProofs

\* The lines of x that hold the current composition are exactly its first
\* r lines (none when r = 0).
Marks(x, r) == \A i \in 1..Len(x) : x[i] = Composed <=> i <= r

\* The inductive invariant: besides the types, there is no composition
\* text in the editor before the first write, and the listener is
\* registered once there is a range to protect.
NoEarlyComposition == compositionRange = NoRange => Marks(buffer, 0)
ListeningWhenOwned == compositionRange # NoRange => ~firstLoad

RegionInv ==
    /\ TypeInv
    /\ NoEarlyComposition
    /\ ListeningWhenOwned
    /\ ManagedRegionIntact

\* An edit of the buffer that keeps every prefix of fewer than s lines
\* that is all composition.
KeepsMarksBelow(s) ==
    \A r \in 0..Len(buffer) :
        Marks(buffer, r) /\ r < s => r <= Len(buffer') /\ Marks(buffer', r)

(***************************************************************************)
(* Lemmas: where the edits of the model put the composition's lines.      *)
(***************************************************************************)

\* Appending a sequence without composition lines to x keeps x's marks.
LEMMA ConcatMarks ==
    ASSUME NEW x \in Seq(LineKinds), NEW y \in Seq(LineKinds), NEW r \in Nat,
           r <= Len(x), Marks(x, r), Marks(y, 0)
    PROVE  /\ x \o y \in Seq(LineKinds)
           /\ Marks(x \o y, r)
           /\ r <= Len(x \o y)
  <1>1. /\ x \o y \in Seq(LineKinds)
        /\ Len(x \o y) = Len(x) + Len(y)
        /\ \A i \in 1..Len(x) + Len(y) :
              (x \o y)[i] = IF i <= Len(x) THEN x[i] ELSE y[i - Len(x)]
    BY ConcatProperties
  <1>2. Len(x) \in Nat /\ Len(y) \in Nat
    BY LenProperties
  <1>3. ASSUME NEW i \in 1..Len(x \o y)
        PROVE  (x \o y)[i] = Composed <=> i <= r
    <2>1. CASE i <= Len(x)
      BY <1>1, <1>2, <2>1 DEF Marks
    <2>2. CASE ~(i <= Len(x))
      <3>1. i - Len(x) \in 1..Len(y) /\ (x \o y)[i] = y[i - Len(x)]
        BY <1>1, <1>2, <2>2
      <3>2. y[i - Len(x)] # Composed /\ ~(i <= r)
        BY <1>2, <2>2, <3>1 DEF Marks
      <3>3. QED
        BY <3>1, <3>2
    <2>3. QED
      BY <2>1, <2>2
  <1>4. QED
    BY <1>1, <1>2, <1>3 DEF Marks

\* A prefix at least r long keeps the marks of the first r lines.
LEMMA PrefixMarks ==
    ASSUME NEW b \in Seq(LineKinds), NEW r \in Nat, Marks(b, r),
           NEW k \in r..Len(b)
    PROVE  /\ SubSeq(b, 1, k) \in Seq(LineKinds)
           /\ Len(SubSeq(b, 1, k)) = k
           /\ Marks(SubSeq(b, 1, k), r)
  <1>1. \A i \in 1..k : b[i] \in LineKinds
    BY ElementOfSeq
  <1>2. /\ SubSeq(b, 1, k) \in Seq(LineKinds)
        /\ Len(SubSeq(b, 1, k)) = k
        /\ \A i \in 1..k : SubSeq(b, 1, k)[i] = b[i]
    BY <1>1, SubSeqProperties
  <1>3. QED
    BY <1>2 DEF Marks

\* A suffix starting after line r holds no composition line.
LEMMA SuffixMarks ==
    ASSUME NEW b \in Seq(LineKinds), NEW r \in Nat, Marks(b, r),
           NEW m \in 1..Len(b) + 1, m > r
    PROVE  /\ SubSeq(b, m, Len(b)) \in Seq(LineKinds)
           /\ Len(SubSeq(b, m, Len(b))) = Len(b) - m + 1
           /\ Marks(SubSeq(b, m, Len(b)), 0)
  <1>1. \A i \in m..Len(b) : b[i] \in LineKinds
    BY ElementOfSeq
  <1>2. /\ SubSeq(b, m, Len(b)) \in Seq(LineKinds)
        /\ Len(SubSeq(b, m, Len(b))) = Len(b) - m + 1
        /\ \A i \in 1..Len(b) - m + 1 : SubSeq(b, m, Len(b))[i] = b[m + i - 1]
    BY <1>1, SubSeqProperties
  <1>3. ASSUME NEW i \in 1..Len(b) - m + 1
        PROVE  SubSeq(b, m, Len(b))[i] # Composed
    <2>1. m + i - 1 \in 1..Len(b) /\ ~(m + i - 1 <= r)
      OBVIOUS
    <2>2. QED
      BY <1>2, <2>1 DEF Marks
  <1>4. QED
    BY <1>2, <1>3 DEF Marks

\* The lines the user types and the emptied model hold no composition.
LEMMA UserLineMarks ==
    /\ <<UserText>> \in Seq(LineKinds) /\ Len(<<UserText>>) = 1
    /\ Marks(<<UserText>>, 0)
    /\ Marks(<<Empty>>, 0)
  BY DEF Marks, LineKinds, UserText, Empty, Composed

\* Marking an earlier composition stale leaves no composition line.
LEMMA MarkStaleMarks ==
    ASSUME NEW b \in Seq(LineKinds)
    PROVE  Marks(MarkStale(b), 0)
  BY DEF Marks, MarkStale, StaleComposed, Composed

\* The block _updateComposition writes is all composition.
LEMMA BlockMarks ==
    ASSUME NEW n \in Nat
    PROVE  Marks(Block(n), n)
  BY DEF Marks, Block

\* Typing a user line between a prefix of at least r lines and the rest.
LEMMA SpliceMarks ==
    ASSUME NEW b \in Seq(LineKinds), NEW r \in Nat, r <= Len(b), Marks(b, r),
           NEW p \in r..Len(b), NEW q \in p + 1..Len(b) + 1
    PROVE  /\ r <= Len(SubSeq(b, 1, p) \o <<UserText>> \o SubSeq(b, q, Len(b)))
           /\ Marks(SubSeq(b, 1, p) \o <<UserText>> \o SubSeq(b, q, Len(b)), r)
  <1> DEFINE x == SubSeq(b, 1, p)
             y == SubSeq(b, q, Len(b))
  <1>1. x \in Seq(LineKinds) /\ Len(x) = p /\ Marks(x, r)
    BY PrefixMarks
  <1>2. y \in Seq(LineKinds) /\ Marks(y, 0)
    BY SuffixMarks
  <1> DEFINE u == <<UserText>>
  <1>3. u \in Seq(LineKinds) /\ Marks(u, 0)
    BY UserLineMarks
  <1> HIDE DEF x, y, u
  <1>4. x \o u \in Seq(LineKinds) /\ r <= Len(x \o u) /\ Marks(x \o u, r)
    <2>1. r <= Len(x)
      BY <1>1
    <2>2. QED
      BY <1>1, <1>3, <2>1, ConcatMarks
  <1>5. r <= Len(x \o u \o y) /\ Marks(x \o u \o y, r)
    BY <1>2, <1>4, ConcatMarks
  <1>6. QED
    BY <1>5 DEF x, y, u

\* Deleting the lines between a prefix of at least r lines and the rest.
LEMMA DropMarks ==
    ASSUME NEW b \in Seq(LineKinds), NEW r \in Nat, r <= Len(b), Marks(b, r),
           NEW p \in r..Len(b), NEW q \in p + 1..Len(b) + 1
    PROVE  /\ r <= Len(SubSeq(b, 1, p) \o SubSeq(b, q, Len(b)))
           /\ Marks(SubSeq(b, 1, p) \o SubSeq(b, q, Len(b)), r)
  <1> DEFINE x == SubSeq(b, 1, p)
             y == SubSeq(b, q, Len(b))
  <1>1. x \in Seq(LineKinds) /\ Len(x) = p /\ Marks(x, r)
    BY PrefixMarks
  <1>2. y \in Seq(LineKinds) /\ Marks(y, 0)
    BY SuffixMarks
  <1> HIDE DEF x, y
  <1>3. r <= Len(x \o y) /\ Marks(x \o y, r)
    BY <1>1, <1>2, ConcatMarks
  <1>4. QED
    BY <1>3 DEF x, y

\* _updateComposition with a range from line 1 leaves the n new lines, and
\* only them, as the composition at the top of the model.
LEMMA ComposedBufferMarks ==
    ASSUME NEW b \in Seq(LineKinds), Len(b) >= 1,
           NEW rng \in Ranges \cup {NoRange}, NEW n \in Nat \ {0},
           rng # NoRange => rng.start = 1
    PROVE  /\ n <= Len(ComposedBuffer(b, rng, n))
           /\ Marks(ComposedBuffer(b, rng, n), n)
  <1> DEFINE m == MarkStale(b)
  <1>1. m \in Seq(LineKinds) /\ Len(m) = Len(b) /\ Marks(m, 0)
    BY MarkStaleType, MarkStaleMarks
  <1>2. Block(n) \in Seq(LineKinds) /\ Len(Block(n)) = n /\ Marks(Block(n), n)
    BY BlockType, BlockMarks
  <1> HIDE DEF m
  <1>3. CASE ShouldAddNewLine(rng)
    <2>1. ComposedBuffer(b, rng, n) = Block(n) \o m
      BY <1>3 DEF ComposedBuffer, m
    <2>2. QED
      BY <1>1, <1>2, <2>1, ConcatMarks
  <1>4. CASE ~ShouldAddNewLine(rng)
    <2>1. ComposeStart(rng) = 1
      BY DEF ComposeStart
    <2>2. SubSeq(m, 1, 0) = << >>
      BY <1>1, SubSeqEmpty
    <2>3. << >> \o Block(n) = Block(n)
      BY <1>2, ConcatEmptySeq
    <2>4. ClampedEnd(b, rng) + 1 \in 1..Len(m) + 1
      BY <1>1 DEF ClampedEnd, ComposeEnd, Ranges
    <2>5. /\ SubSeq(m, ClampedEnd(b, rng) + 1, Len(b)) \in Seq(LineKinds)
          /\ Marks(SubSeq(m, ClampedEnd(b, rng) + 1, Len(b)), 0)
      BY <1>1, <2>4, SuffixMarks
    <2>6. ComposedBuffer(b, rng, n) = Block(n) \o SubSeq(m, ClampedEnd(b, rng) + 1, Len(b))
      <3>0. ComposeStart(rng) - 1 = 0
        BY <2>1
      <3>1. ComposedBuffer(b, rng, n)
              = SubSeq(m, 1, 0) \o Block(n) \o SubSeq(m, ClampedEnd(b, rng) + 1, Len(b))
        BY <1>4, <3>0 DEF ComposedBuffer, m
      <3>2. QED
        BY <3>1, <2>2, <2>3
    <2> DEFINE z == SubSeq(m, ClampedEnd(b, rng) + 1, Len(b))
    <2> HIDE DEF z
    <2>7. n <= Len(Block(n) \o z) /\ Marks(Block(n) \o z, n)
      <3>1. n \in Nat /\ n <= Len(Block(n))
        BY <1>2
      <3>2. QED
        BY <1>2, <2>5, <3>1, ConcatMarks DEF z
    <2>8. QED
      BY <2>6, <2>7 DEF z
  <1>5. QED
    BY <1>3, <1>4

\* A user edit the listener lets through while it guards a range from
\* line 1 starts below the range: a one-line edit or a deletion that
\* started inside would have been judged within the composition.
LEMMA IgnoredEditBelowRange ==
    ASSUME NEW rng \in Ranges, rng.start = 1,
           NEW s \in Nat \ {0}, NEW e \in Nat, s <= e, NEW del \in BOOLEAN,
           del \/ s = e,
           OnDidChangeContent(Change(s, e, del, OtherLength, FALSE), TRUE, rng) = 0
    PROVE  s > rng.end
  BY NoRangeAssumption
     DEF OnDidChangeContent, EditorChangeIsWithinComposition, CouldBeFromComposition,
         Change, Ranges, OtherLength, PlaceholderLength

\* With the range starting at line 1, ManagedRegionIntact's condition on
\* the lines is that the first rng.end lines are the composition.
LEMMA IntactIsMarks ==
    ASSUME NEW b \in Seq(LineKinds), NEW rng \in Ranges, rng.start = 1
    PROVE  (\A i \in 1..Len(b) : b[i] = Composed <=> rng.start <= i /\ i <= rng.end)
           <=> Marks(b, rng.end)
  BY DEF Marks, Ranges

(***************************************************************************)
(* The inductive invariant, action by action.                              *)
(***************************************************************************)

LEMMA InitRegionInv == Init => RegionInv
  <1> SUFFICES ASSUME Init PROVE RegionInv
    OBVIOUS
  <1>1. TypeInv
    BY InitTypeInv
  <1>2. Marks(buffer, 0)
    BY DEF Init, Marks, Placeholder, Composed
  <1>3. QED
    BY <1>1, <1>2
       DEF Init, RegionInv, NoEarlyComposition, ListeningWhenOwned, ManagedRegionIntact

\* The end-of-sync callback turns sync off and leaves the editor alone.
LEMMA CallbackRegionInv ==
    ASSUME RegionInv, CompositionEndedCallback
    PROVE  RegionInv'
  <1>1. TypeInv'
    BY NextTypeInv DEF RegionInv, Next
  <1>2. UNCHANGED <<buffer, compositionRange, firstLoad>> /\ synced' = FALSE
    BY DEF CompositionEndedCallback
  <1>3. QED
    BY <1>1, <1>2
       DEF RegionInv, NoEarlyComposition, ListeningWhenOwned, ManagedRegionIntact

\* A user edit the listener does not report keeps the region when it
\* leaves the lines above its first line as they were.
LEMMA EditKeepsRegion ==
    ASSUME RegionInv, TypeInv',
           NEW s \in Nat \ {0}, NEW e \in Nat, s <= e, NEW del \in BOOLEAN,
           del \/ s = e,
           UserEdited(Change(s, e, del, OtherLength, FALSE)),
           KeepsMarksBelow(s)
    PROVE  RegionInv'
  <1> DEFINE c == Change(s, e, del, OtherLength, FALSE)
             k == OnDidChangeContent(c, ~firstLoad, compositionRange)
  <1>0. /\ buffer \in Seq(LineKinds) /\ buffer' \in Seq(LineKinds)
        /\ compositionRange \in Ranges \cup {NoRange}
        /\ compositionRange # NoRange => compositionRange.start = 1
        /\ pendingEnds \in Nat /\ firstLoad \in BOOLEAN
    BY DEF RegionInv, TypeInv, TypeOK
  <1>1. /\ UNCHANGED <<synced, compositionRange, firstLoad>>
        /\ pendingEnds' = pendingEnds + k
    BY DEF UserEdited
  <1>2. k \in Nat
    BY OnDidChangeContentType
  <1> HIDE DEF k
  <1>3. NoEarlyComposition'
    <2> SUFFICES ASSUME compositionRange' = NoRange PROVE Marks(buffer', 0)
      BY DEF NoEarlyComposition
    <2>1. Marks(buffer, 0)
      BY <1>1 DEF RegionInv, NoEarlyComposition
    <2>2. QED
      BY <1>0, <2>1 DEF KeepsMarksBelow
  <1>4. ListeningWhenOwned'
    BY <1>1 DEF RegionInv, ListeningWhenOwned
  <1>5. ManagedRegionIntact'
    <2> SUFFICES ASSUME synced', pendingEnds' = 0, compositionRange' # NoRange
                 PROVE  /\ compositionRange'.end <= Len(buffer')
                        /\ \A i \in 1..Len(buffer') :
                              buffer'[i] = Composed <=>
                                compositionRange'.start <= i /\ i <= compositionRange'.end
      BY DEF ManagedRegionIntact
    <2> DEFINE rng == compositionRange
    <2>1. rng \in Ranges /\ rng.start = 1 /\ rng.end \in Nat
      BY <1>0, <1>1 DEF Ranges
    <2>2. pendingEnds = 0 /\ k = 0
      BY <1>0, <1>1, <1>2
    <2>3. ~firstLoad
      BY <1>1 DEF RegionInv, ListeningWhenOwned
    <2>4. OnDidChangeContent(c, TRUE, rng) = 0
      BY <2>2, <2>3, Zenon DEF k
    <2>5. s > rng.end
      BY <2>1, <2>4, IgnoredEditBelowRange
    <2>6. rng.end <= Len(buffer) /\ Marks(buffer, rng.end)
      <3>1. rng.end <= Len(buffer)
            /\ \A i \in 1..Len(buffer) :
                 buffer[i] = Composed <=> rng.start <= i /\ i <= rng.end
        BY <1>1, <2>2 DEF RegionInv, ManagedRegionIntact
      <3>2. QED
        BY <1>0, <2>1, <3>1, IntactIsMarks
    <2>7. rng.end <= Len(buffer') /\ Marks(buffer', rng.end)
      BY <2>1, <2>5, <2>6 DEF KeepsMarksBelow
    <2>8. QED
      BY <1>0, <1>1, <2>1, <2>7, IntactIsMarks
  <1>6. QED
    BY <1>3, <1>4, <1>5 DEF RegionInv

\* onSchemaSessionChange: while synced it either rewrites the composition
\* at the top of the model, or only clears the placeholder, which is never
\* there once a composition is.
LEMMA SchemaChangeRegionInv ==
    ASSUME RegionInv, NEW schema \in Schemas, NEW range \in TimeRanges,
           OnSchemaSessionChange(schema, range)
    PROVE  RegionInv'
  <1> DEFINE cleared == IF buffer = <<Placeholder>> THEN <<Empty>> ELSE buffer
             n == BuildCompositionLines(schema)
             clearEnds == IF buffer = <<Placeholder>>
                          THEN OnDidChangeContent(ClearChange(buffer), TRUE,
                                                  compositionRange)
                          ELSE 0
             composeEnds == OnDidChangeContent(ComposeChange(cleared, compositionRange),
                                               TRUE, compositionRange)
             update == SchemaChanged(schema, session) \/ timeRange # range
  <1>0. /\ buffer \in Seq(LineKinds) /\ Len(buffer) >= 1
        /\ compositionRange \in Ranges \cup {NoRange}
        /\ compositionRange # NoRange => compositionRange.start = 1
        /\ pendingEnds \in Nat
    BY DEF RegionInv, TypeInv, TypeOK
  <1>1. TypeInv'
    BY SchemaChangeTypeInv DEF RegionInv
  <1>2. synced' = synced
    BY DEF OnSchemaSessionChange, ContinueSchemaChange
  <1>3. CASE ~synced
    <2>1. UNCHANGED <<buffer, compositionRange, firstLoad, pendingEnds>>
      BY <1>3 DEF OnSchemaSessionChange, ContinueSchemaChange
    <2>2. QED
      BY <1>1, <1>2, <2>1
         DEF RegionInv, NoEarlyComposition, ListeningWhenOwned, ManagedRegionIntact
  <1>4. cleared \in Seq(LineKinds) /\ Len(cleared) >= 1
    <2>1. <<Empty>> \in Seq(LineKinds) /\ Len(<<Empty>>) = 1
      BY DEF LineKinds, Empty
    <2>2. QED
      BY <1>0, <2>1
  <1>5. clearEnds \in Nat /\ composeEnds \in Nat
    BY OnDidChangeContentType
  <1>6. n \in Nat \ {0}
    BY BuildCompositionLinesType
  <1> HIDE DEF clearEnds, composeEnds, n
  <1>7. CASE synced
    <2>1. firstLoad' = FALSE
      BY <1>7 DEF OnSchemaSessionChange, ContinueSchemaChange
    <2>2. ListeningWhenOwned'
      BY <2>1 DEF ListeningWhenOwned
    <2>3. CASE update
      <3>1. /\ buffer' = ComposedBuffer(cleared, compositionRange, n)
            /\ compositionRange' = ComposedRange(compositionRange, n)
        BY <1>7, <2>3 DEF OnSchemaSessionChange, ContinueSchemaChange, n
      <3>2. compositionRange' \in Ranges /\ compositionRange'.start = 1
            /\ compositionRange'.end = n
        BY <1>0, <1>6, <3>1 DEF ComposedRange, ComposeStart, Ranges
      <3>3. n <= Len(buffer') /\ Marks(buffer', n)
        BY <1>0, <1>4, <1>6, <3>1, ComposedBufferMarks
      <3>4. buffer' \in Seq(LineKinds)
        BY <1>1 DEF TypeInv, TypeOK
      <3>5. NoEarlyComposition'
        BY <3>2, NoRangeAssumption DEF NoEarlyComposition
      <3>6. ManagedRegionIntact'
        BY <3>2, <3>3, <3>4, IntactIsMarks DEF ManagedRegionIntact
      <3>7. QED
        BY <1>1, <2>2, <3>5, <3>6 DEF RegionInv
    <2>4. CASE ~update
      <3>1. /\ buffer' = cleared
            /\ pendingEnds' = pendingEnds + clearEnds
            /\ compositionRange' = compositionRange
        BY <1>7, <2>4 DEF OnSchemaSessionChange, ContinueSchemaChange, clearEnds
      <3>2. NoEarlyComposition'
        <4> SUFFICES ASSUME compositionRange = NoRange PROVE Marks(cleared, 0)
          BY <3>1 DEF NoEarlyComposition
        <4>1. Marks(buffer, 0)
          BY DEF RegionInv, NoEarlyComposition
        <4>2. QED
          BY <4>1, UserLineMarks
      <3>3. ManagedRegionIntact'
        <4> SUFFICES ASSUME synced', pendingEnds' = 0, compositionRange' # NoRange
                     PROVE  /\ compositionRange'.end <= Len(buffer')
                            /\ \A i \in 1..Len(buffer') :
                                  buffer'[i] = Composed <=>
                                    compositionRange'.start <= i
                                    /\ i <= compositionRange'.end
          BY DEF ManagedRegionIntact
        <4>1. pendingEnds = 0
          BY <1>0, <1>5, <3>1
        <4>2. /\ compositionRange.end <= Len(buffer)
              /\ \A i \in 1..Len(buffer) :
                    buffer[i] = Composed <=>
                      compositionRange.start <= i /\ i <= compositionRange.end
          BY <1>7, <3>1, <4>1 DEF RegionInv, ManagedRegionIntact
        <4>3. buffer[1] = Composed
          BY <1>0, <3>1, <4>2 DEF Ranges
        <4>4. buffer # <<Placeholder>>
          BY <4>3 DEF Placeholder, Composed
        <4>5. buffer' = buffer
          BY <3>1, <4>4
        <4>6. QED
          BY <3>1, <4>2, <4>5
      <3>4. QED
        BY <1>1, <2>2, <3>2, <3>3 DEF RegionInv
    <2>5. QED
      BY <2>3, <2>4
  <1>8. QED
    BY <1>3, <1>7

\* The edits the listener's classification was written for: one-line
\* replacements, and replaced text never of the placeholder's length.
ClassifiedEdits ==
    ~MultiLineReplace /\ UserRangeLengths \subseteq {OtherLength}

LEMMA UserReplaceRegionInv ==
    ASSUME RegionInv, ClassifiedEdits,
           NEW s \in 1..MaxLines, NEW e \in 1..MaxLines, NEW del \in BOOLEAN,
           NEW len \in UserRangeLengths, UserReplace(s, e, del, len)
    PROVE  RegionInv'
  <1>1. TypeInv'
    BY UserEditTypeInv DEF RegionInv
  <1>2. s = e /\ len = OtherLength /\ s <= Len(buffer) /\ buffer \in Seq(LineKinds)
    BY DEF UserReplace, ClassifiedEdits, RegionInv, TypeInv, TypeOK
  <1>3. KeepsMarksBelow(s)
    <2> SUFFICES ASSUME NEW r \in 0..Len(buffer), Marks(buffer, r), r < s
                 PROVE  r <= Len(buffer') /\ Marks(buffer', r)
      BY DEF KeepsMarksBelow
    <2>0. r \in Nat /\ r <= Len(buffer) /\ Marks(buffer, r)
      OBVIOUS
    <2>1. buffer' = SubSeq(buffer, 1, s - 1) \o <<UserText>>
                      \o SubSeq(buffer, s + 1, Len(buffer))
      BY <1>2 DEF UserReplace
    <2>2. s - 1 \in r..Len(buffer) /\ s + 1 \in s - 1 + 1..Len(buffer) + 1
      BY <1>2
    <2>3. /\ r <= Len(SubSeq(buffer, 1, s - 1) \o <<UserText>>
                        \o SubSeq(buffer, s + 1, Len(buffer)))
          /\ Marks(SubSeq(buffer, 1, s - 1) \o <<UserText>>
                     \o SubSeq(buffer, s + 1, Len(buffer)), r)
      BY <1>2, <2>2, <2>0, SpliceMarks, Zenon
    <2>4. QED
      BY <2>1, <2>3
  <1>4. UserEdited(Change(s, e, del, OtherLength, FALSE))
    BY <1>2 DEF UserReplace
  <1>5. s \in Nat \ {0} /\ e \in Nat /\ s <= e /\ (del \/ s = e)
    BY <1>2
  <1>6. QED
    BY <1>1, <1>3, <1>4, <1>5, EditKeepsRegion, Zenon

LEMMA UserInsertLineRegionInv ==
    ASSUME RegionInv, NEW i \in 1..MaxLines, UserInsertLine(i)
    PROVE  RegionInv'
  <1> DEFINE l == IF i <= Len(buffer) THEN i ELSE Len(buffer)
  <1>1. TypeInv'
    BY UserEditTypeInv DEF RegionInv
  <1>2. buffer \in Seq(LineKinds) /\ Len(buffer) >= 1 /\ i <= Len(buffer) + 1
        /\ l \in Nat \ {0}
    BY DEF UserInsertLine, RegionInv, TypeInv, TypeOK
  <1>3. KeepsMarksBelow(l)
    <2> SUFFICES ASSUME NEW r \in 0..Len(buffer), Marks(buffer, r), r < l
                 PROVE  r <= Len(buffer') /\ Marks(buffer', r)
      BY DEF KeepsMarksBelow
    <2>0. r \in Nat /\ r <= Len(buffer) /\ Marks(buffer, r)
      OBVIOUS
    <2>1. buffer' = SubSeq(buffer, 1, i - 1) \o <<UserText>>
                      \o SubSeq(buffer, i, Len(buffer))
      BY DEF UserInsertLine
    <2>2. i - 1 \in r..Len(buffer) /\ i \in i - 1 + 1..Len(buffer) + 1
      BY <1>2
    <2>3. /\ r <= Len(SubSeq(buffer, 1, i - 1) \o <<UserText>>
                        \o SubSeq(buffer, i, Len(buffer)))
          /\ Marks(SubSeq(buffer, 1, i - 1) \o <<UserText>>
                     \o SubSeq(buffer, i, Len(buffer)), r)
      BY <1>2, <2>2, <2>0, SpliceMarks, Zenon
    <2>4. QED
      BY <2>1, <2>3
  <1>4. UserEdited(Change(l, l, FALSE, OtherLength, FALSE))
    BY DEF UserInsertLine
  <1>5. l \in Nat \ {0} /\ l \in Nat /\ l <= l /\ (FALSE \/ l = l)
    BY <1>2
  <1> HIDE DEF l
  <1>6. QED
    BY <1>1, <1>3, <1>4, <1>5, EditKeepsRegion, Zenon

LEMMA UserDeleteLinesRegionInv ==
    ASSUME RegionInv, ClassifiedEdits,
           NEW s \in 1..MaxLines, NEW e \in 1..MaxLines, NEW fromEnd \in BOOLEAN,
           NEW len \in UserRangeLengths, UserDeleteLines(s, e, fromEnd, len)
    PROVE  RegionInv'
  <1>1. TypeInv'
    BY UserEditTypeInv DEF RegionInv
  <1>2. s < e /\ e <= Len(buffer) /\ len = OtherLength /\ buffer \in Seq(LineKinds)
    BY DEF UserDeleteLines, ClassifiedEdits, RegionInv, TypeInv, TypeOK
  <1>3. KeepsMarksBelow(s)
    <2> SUFFICES ASSUME NEW r \in 0..Len(buffer), Marks(buffer, r), r < s
                 PROVE  r <= Len(buffer') /\ Marks(buffer', r)
      BY DEF KeepsMarksBelow
    <2>0. r \in Nat /\ r <= Len(buffer) /\ Marks(buffer, r)
      OBVIOUS
    <2>1. CASE fromEnd
      <3>1. buffer' = SubSeq(buffer, 1, s) \o SubSeq(buffer, e + 1, Len(buffer))
        BY <2>1 DEF UserDeleteLines
      <3>2. s \in r..Len(buffer) /\ e + 1 \in s + 1..Len(buffer) + 1
        BY <1>2
      <3>3. /\ r <= Len(SubSeq(buffer, 1, s) \o SubSeq(buffer, e + 1, Len(buffer)))
            /\ Marks(SubSeq(buffer, 1, s) \o SubSeq(buffer, e + 1, Len(buffer)), r)
        BY <1>2, <3>2, <2>0, DropMarks, Zenon
      <3>4. QED
        BY <3>1, <3>3
    <2>2. CASE ~fromEnd
      <3>1. buffer' = SubSeq(buffer, 1, s - 1) \o SubSeq(buffer, e, Len(buffer))
        BY <2>2 DEF UserDeleteLines
      <3>2. s - 1 \in r..Len(buffer) /\ e \in s - 1 + 1..Len(buffer) + 1
        BY <1>2
      <3>3. /\ r <= Len(SubSeq(buffer, 1, s - 1) \o SubSeq(buffer, e, Len(buffer)))
            /\ Marks(SubSeq(buffer, 1, s - 1) \o SubSeq(buffer, e, Len(buffer)), r)
        BY <1>2, <3>2, <2>0, DropMarks, Zenon
      <3>4. QED
        BY <3>1, <3>3
    <2>3. QED
      BY <2>1, <2>2
  <1>4. UserEdited(Change(s, e, TRUE, OtherLength, FALSE))
    BY <1>2 DEF UserDeleteLines
  <1>5. s \in Nat \ {0} /\ e \in Nat /\ s <= e /\ (TRUE \/ s = e)
    BY <1>2
  <1>6. QED
    BY <1>1, <1>3, <1>4, <1>5, EditKeepsRegion, Zenon

LEMMA NextRegionInv ==
    ASSUME ClassifiedEdits
    PROVE  RegionInv /\ [Next]_vars => RegionInv'
  <1> SUFFICES ASSUME RegionInv, [Next]_vars PROVE RegionInv'
    OBVIOUS
  <1>1. CASE \E schema \in Schemas, range \in TimeRanges :
                OnSchemaSessionChange(schema, range)
    BY <1>1, SchemaChangeRegionInv
  <1>2. CASE \E s, e \in 1..MaxLines, del \in BOOLEAN, len \in UserRangeLengths :
                UserReplace(s, e, del, len)
    BY <1>2, UserReplaceRegionInv
  <1>3. CASE \E i \in 1..MaxLines : UserInsertLine(i)
    BY <1>3, UserInsertLineRegionInv
  <1>4. CASE \E s, e \in 1..MaxLines, fromEnd \in BOOLEAN, len \in UserRangeLengths :
                UserDeleteLines(s, e, fromEnd, len)
    BY <1>4, UserDeleteLinesRegionInv
  <1>5. CASE CompositionEndedCallback
    BY <1>5, CallbackRegionInv
  <1>6. CASE UNCHANGED vars
    BY <1>6 DEF vars, RegionInv, TypeInv, TypeOK, NoEarlyComposition,
                ListeningWhenOwned, ManagedRegionIntact, Marks
  <1>7. QED
    BY <1>1, <1>2, <1>3, <1>4, <1>5, <1>6 DEF Next

\* The composition region stays intact (ManagedRegionIntact) in every
\* reachable state, for any bounds: while the builder is synced and no
\* end of sync is pending, _compositionRange names exactly the lines the
\* last _updateComposition wrote, provided user edits are one-line
\* replacements, insertions of a line and deletions of whole lines whose
\* replaced text is not of the placeholder's length.
THEOREM ManagedRegionIntactHolds ==
    ASSUME ClassifiedEdits
    PROVE  Spec => []ManagedRegionIntact
  <1>1. RegionInv => ManagedRegionIntact
    BY DEF RegionInv
  <1>2. QED
    BY InitRegionInv, NextRegionInv, <1>1, PTL DEF Spec

=============================================================================
