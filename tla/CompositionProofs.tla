------------------------- MODULE CompositionProofs -------------------------
(***************************************************************************)
(* Proofs about Composition for every value of the constants: whatever    *)
(* the builder's selection, _buildComposition reports a positive line     *)
(* count equal to the number of lines it returns, and a lenLastLine of 1. *)
(* The argument is on lengths alone: the SELECT line, a FROM line or none, *)
(* and a WHERE clause of two lines or none, whatever the strings in them.  *)
(***************************************************************************)
EXTENDS Composition, SequenceTheorems, TLAPS

\* The three parts of a composition, for a given selection.
FromLine(sel) ==
    IF DbrpMeasurement(sel) # <<>> THEN <<"FROM " \o Join(DbrpMeasurement(sel), ".")>>
    ELSE <<>>

\* Every line the composition of sel may hold.
LinesOf(sel) ==
    {SelectLine(sel), "FROM " \o Join(DbrpMeasurement(sel), "."),
     "WHERE", "(" \o TagValuesExpr(sel) \o ")"}

\* A list of one or two members of S is a sequence over S of that length.
LEMMA ShortSeqs ==
    ASSUME NEW S, NEW x \in S, NEW y \in S
    PROVE  /\ <<>> \in Seq(S) /\ Len(<<>>) = 0
           /\ <<x>> \in Seq(S) /\ Len(<<x>>) = 1
           /\ <<x, y>> \in Seq(S) /\ Len(<<x, y>>) = 2
OBVIOUS

\* The FROM part is one line or none.
LEMMA FromLineShape ==
    ASSUME NEW sel
    PROVE  /\ FromLine(sel) \in Seq(LinesOf(sel))
           /\ Len(FromLine(sel)) \in {0, 1}
<1> DEFINE e == "FROM " \o Join(DbrpMeasurement(sel), ".")
<1>1. e \in LinesOf(sel)
  BY DEF LinesOf
<1>2. FromLine(sel) = <<e>> \/ FromLine(sel) = <<>>
  BY DEF FromLine
<1> HIDE DEF e
<1>3. QED
  BY <1>1, <1>2, ShortSeqs, Zenon

\* The WHERE clause is two lines or none.
LEMMA WhereClauseShape ==
    ASSUME NEW sel
    PROVE  /\ WhereClause(sel) \in Seq(LinesOf(sel))
           /\ Len(WhereClause(sel)) \in {0, 2}
<1> DEFINE e == "(" \o TagValuesExpr(sel) \o ")"
<1>1. e \in LinesOf(sel) /\ "WHERE" \in LinesOf(sel)
  BY DEF LinesOf
<1>2. WhereClause(sel) = <<"WHERE", e>> \/ WhereClause(sel) = <<>>
  BY DEF WhereClause
<1> HIDE DEF e
<1>3. QED
  BY <1>1, <1>2, ShortSeqs, Zenon

\* _buildComposition returns FromLine's lines after the SELECT line and
\* before the WHERE clause, counted as 1 + |from| + |where|, and lenLastLine
\* is the length of a one-element slice of them.
LEMMA BuildCompositionParts ==
    ASSUME NEW sel
    PROVE  BuildComposition(sel) =
             [composition |-> <<SelectLine(sel)>> \o FromLine(sel) \o WhereClause(sel),
              lines |-> 1 + Len(FromLine(sel)) + Len(WhereClause(sel)),
              lenLastLine |->
                LET c == <<SelectLine(sel)>> \o FromLine(sel) \o WhereClause(sel)
                IN  Len(SubSeq(c, Len(c), Len(c)))]
BY DEF BuildComposition, FromLine

\* The line count _buildComposition reports is positive and is the number
\* of lines it returns, and lenLastLine is 1, for every selection.
LEMMA BuildCompositionCounts ==
    ASSUME NEW sel
    PROVE  /\ BuildComposition(sel).lines \in Nat \ {0}
           /\ BuildComposition(sel).lines = Len(BuildComposition(sel).composition)
           /\ BuildComposition(sel).lenLastLine = 1
<1> DEFINE S == LinesOf(sel)
           a == <<SelectLine(sel)>>
           f == FromLine(sel)
           w == WhereClause(sel)
           c == a \o f \o w
<1>1. a \in Seq(S) /\ Len(a) = 1
  BY DEF LinesOf
<1>2. f \in Seq(S) /\ Len(f) \in {0, 1}
  BY FromLineShape
<1>3. w \in Seq(S) /\ Len(w) \in {0, 2}
  BY WhereClauseShape
<1>4. a \o f \in Seq(S) /\ Len(a \o f) = Len(a) + Len(f)
  BY <1>1, <1>2, ConcatProperties
<1>5. c \in Seq(S) /\ Len(c) = 1 + Len(f) + Len(w)
  BY <1>1, <1>3, <1>4, ConcatProperties
<1>6. Len(SubSeq(c, Len(c), Len(c))) = 1
  <2>1. Len(c) \in 1..Len(c)
    BY <1>2, <1>3, <1>5
  <2>2. QED
    BY <1>5, <2>1, SubSeqProperties
<1>7. BuildComposition(sel) =
        [composition |-> c, lines |-> 1 + Len(f) + Len(w),
         lenLastLine |-> Len(SubSeq(c, Len(c), Len(c)))]
  BY BuildCompositionParts
<1>8. 1 + Len(f) + Len(w) \in Nat \ {0}
  BY <1>2, <1>3
<1> HIDE DEF a, f, w, c, S
<1>9. QED
  BY <1>5, <1>6, <1>7, <1>8
\* The FROM line is there exactly when a dbrp or a measurement is set.
LEMMA DbrpMeasurementEmpty ==
    ASSUME NEW sel
    PROVE  DbrpMeasurement(sel) = <<>> <=> sel.dbrp = NoDbrp /\ sel.measurement = ""
<1> DEFINE d == <<sel.dbrp.database, sel.dbrp.retention_policy>>
           m == <<Quoted(sel.measurement)>>
           A == IF sel.dbrp # NoDbrp THEN d ELSE <<>>
           B == IF sel.measurement # "" THEN m ELSE <<>>
           S == {sel.dbrp.database, sel.dbrp.retention_policy, Quoted(sel.measurement)}
<1>1. DbrpMeasurement(sel) = A \o B
  BY DEF DbrpMeasurement
<1>2. A \in Seq(S) /\ Len(A) \in {0, 2} /\ (Len(A) = 0 <=> sel.dbrp = NoDbrp)
  <2>1. CASE sel.dbrp # NoDbrp
    <3>1. A = d
      BY <2>1
    <3>2. d \in Seq(S) /\ Len(d) = 2
      BY ShortSeqs
    <3> HIDE DEF d
    <3>3. QED
      BY <2>1, <3>1, <3>2
  <2>2. CASE sel.dbrp = NoDbrp
    BY <2>2, ShortSeqs
  <2>3. QED
    BY <2>1, <2>2
<1>3. B \in Seq(S) /\ Len(B) \in {0, 1} /\ (Len(B) = 0 <=> sel.measurement = "")
  <2>1. CASE sel.measurement # ""
    <3>1. B = m
      BY <2>1
    <3>2. m \in Seq(S) /\ Len(m) = 1
      BY ShortSeqs
    <3> HIDE DEF m, B
    <3>3. B \in Seq(S) /\ Len(B) = 1
      BY <3>1, <3>2, Zenon
    <3>4. Len(B) # 0 /\ Len(B) \in {0, 1}
      BY <3>3
    <3>5. QED
      BY <2>1, <3>3, <3>4, Zenon
  <2>2. CASE sel.measurement = ""
    BY <2>2, ShortSeqs
  <2>3. QED
    BY <2>1, <2>2
<1> HIDE DEF A, B, S
<1>4. A \o B \in Seq(S) /\ Len(A \o B) = Len(A) + Len(B)
  BY <1>2, <1>3, ConcatProperties
<1>5. A \o B = <<>> <=> Len(A \o B) = 0
  BY <1>4, EmptySeq
<1>6. A \o B = <<>> <=> Len(A) = 0 /\ Len(B) = 0
  <2>0. Len(A) \in {0, 2} /\ Len(B) \in {0, 1}
    BY <1>2, <1>3, Zenon
  <2>1. Len(A) + Len(B) = 0 <=> Len(A) = 0 /\ Len(B) = 0
    BY <2>0
  <2>2. A \o B = <<>> <=> Len(A) + Len(B) = 0
    BY <1>4, <1>5, Zenon
  <2>3. QED
    BY <2>1, <2>2, Zenon
<1>7. QED
  BY <1>1, <1>2, <1>3, <1>6

\* Connection counts a composition's lines as Connection.BuildCompositionLines
\* does: SELECT, one FROM line when a dbrp or a measurement is set, and two
\* WHERE lines when there are tag values.  For every selection this is the
\* count _buildComposition returns, so the Connection model, which keeps
\* only the count, writes as many lines as the real builder.
THEOREM BuildCompositionLinesExact ==
    ASSUME NEW sel
    PROVE  BuildComposition(sel).lines =
             1 + (IF sel.dbrp # NoDbrp \/ sel.measurement # "" THEN 1 ELSE 0)
               + (IF sel.tagValues # <<>> THEN 2 ELSE 0)
<1>1. Len(FromLine(sel)) = IF sel.dbrp # NoDbrp \/ sel.measurement # "" THEN 1 ELSE 0
  BY DbrpMeasurementEmpty DEF FromLine
<1>2. Len(WhereClause(sel)) = IF sel.tagValues # <<>> THEN 2 ELSE 0
  BY DEF WhereClause
<1>3. QED
  BY <1>1, <1>2, BuildCompositionParts
-----------------------------------------------------------------------------
\* The strengthening: the type invariant with the line count matching.
CInv == TypeOK /\ LineCountMatchesText

LEMMA InitCInv == Init => CInv
BY CompositionAssumption DEF Init, CInv, TypeOK, LineCountMatchesText

LEMMA RenderCInv == CInv /\ [Render]_vars => CInv'
<1> SUFFICES ASSUME CInv, [Render]_vars PROVE CInv'
  OBVIOUS
<1>1. CASE Render
  <2>1. result' = BuildComposition(selection) /\ selection' = selection
    BY <1>1 DEF Render
  <2>2. /\ BuildComposition(selection).lines \in Nat \ {0}
        /\ BuildComposition(selection).lines = Len(BuildComposition(selection).composition)
    BY BuildCompositionCounts
  <2>3. QED
    BY <2>1, <2>2 DEF CInv, TypeOK, LineCountMatchesText
<1>2. CASE UNCHANGED vars
  BY <1>2 DEF CInv, TypeOK, LineCountMatchesText, vars
<1>3. QED
  BY <1>1, <1>2

\* TypeOK of composition_text for every value of the constants: the
\* selection stays one of the builder's, and a rendered result always
\* reports a positive line count.
THEOREM CompositionTypeCorrect == Spec => []TypeOK
<1>1. CInv => TypeOK
  BY DEF CInv
<1>2. QED
  BY InitCInv, RenderCInv, <1>1, PTL DEF Spec

\* LineCountMatchesText of composition_text for every value of the
\* constants: the line count _updateComposition sizes the composition range
\* with is the number of lines _buildComposition returns, for every
\* selection, not only the 320 of the run.
THEOREM LineCountMatchesTextHolds == Spec => []LineCountMatchesText
<1>1. CInv => LineCountMatchesText
  BY DEF CInv
<1>2. QED
  BY InitCInv, RenderCInv, <1>1, PTL DEF Spec

\* The finding of composition_last_line for every selection: the lenLastLine
\* _buildComposition reports is always 1, the length of the one-element
\* array composition.slice(-1), never the final line's character length.
THEOREM LenLastLineIsOne ==
    Spec => [](result # Unset => result.lenLastLine = 1)
<1> DEFINE P == result # Unset => result.lenLastLine = 1
<1>1. Init => P
  BY DEF Init
<1>2. P /\ [Render]_vars => P'
  <2> SUFFICES ASSUME P, [Render]_vars PROVE P'
    OBVIOUS
  <2>1. CASE Render
    BY <2>1, BuildCompositionCounts DEF Render
  <2>2. CASE UNCHANGED vars
    BY <2>2 DEF vars
  <2>3. QED
    BY <2>1, <2>2
<1>3. QED
  BY <1>1, <1>2, PTL DEF Spec
=============================================================================
