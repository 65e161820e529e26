----------------------------- MODULE Connection -----------------------------
(***************************************************************************)
(* The InfluxQL ConnectionManager of the data explorer                     *)
(* (src/frontend/src/languageSupport/languages/influxql/connection.ts).    *)
(*                                                                         *)
(* The query builder hands the manager a selection on every interaction;   *)
(* the manager writes the generated InfluxQL ("the composition") into the  *)
(* Monaco editor model and remembers the lines it owns (_compositionRange). *)
(* A content-change listener classifies every edit of the model; an edit   *)
(* inside the owned lines that the manager did not make schedules, with    *)
(* setTimeout(0), a callback that turns the builder's sync off and shows a *)
(* notification.                                                           *)
(*                                                                         *)
(* The editor text is abstracted to one token per line, saying who wrote   *)
(* it: the placeholder message, an empty line, the user, the current       *)
(* composition, or an earlier composition that was not overwritten.        *)
(* Columns are abstracted away: an edit is the range of lines it spans,    *)
(* whether its text is empty (a deletion), whether the length of the text  *)
(* it replaced equals the placeholder's length, and the forceMoveMarkers   *)
(* flag the change event carries.                                          *)
(***************************************************************************)
EXTENDS Naturals, Sequences

CONSTANTS
    Fields,          \* field names the builder can select
    Measurements,    \* measurement names
    Databases,       \* database / retention-policy pairs
    TagValues,       \* tag key/value constraints
    NoValue,         \* an unset measurement or dbrp
    NoRange,         \* _compositionRange before the first write
    TimeRanges,      \* time ranges the picker can produce
    DefaultTimeRange,\* DEFAULT_TIME_RANGE, the initial _timeRange
    MarkerPreserved, \* the change event carries forceMoveMarkers of applyEdits
    MultiLineReplace,\* the user may replace text spanning several lines
    UserRangeLengths,\* lengths of the text a user edit replaces
    MaxLines,        \* bound: lines in the editor model
    MaxEnds          \* bound: end-of-sync callbacks scheduled in a behaviour

\* Line tokens: who wrote the text of a line.
Placeholder   == "placeholder"   \* DEFAULT_INFLUXQL_EDITOR_TEXT
Empty         == "empty"
UserText      == "user"
Composed      == "composed"      \* written by the last _updateComposition
StaleComposed == "stale"         \* written by an earlier _updateComposition
LineKinds == {Placeholder, Empty, UserText, Composed, StaleComposed}

\* The length of the text an edit replaced, compared with
\* DEFAULT_INFLUXQL_EDITOR_TEXT.length.
PlaceholderLength == "placeholderLength"
OtherLength       == "otherLength"

ASSUME ConstantsAssumption ==
    /\ NoValue \notin Measurements \cup Databases
    /\ DefaultTimeRange \in TimeRanges
    /\ MarkerPreserved \in BOOLEAN
    /\ MultiLineReplace \in BOOLEAN
    /\ UserRangeLengths \subseteq {PlaceholderLength, OtherLength}
    /\ MaxLines \in Nat \ {0}
    /\ MaxEnds \in Nat

\* A CompositionSelection as the builder passes it in.
Schemas == [fields: SUBSET Fields,
            measurement: Measurements \cup {NoValue},
            dbrp: Databases \cup {NoValue},
            tagValues: SUBSET TagValues]

EmptySchema == [fields |-> {}, measurement |-> NoValue,
                dbrp |-> NoValue, tagValues |-> {}]

\* _compositionRange: line numbers only; its columns are read by nothing
\* but the decoration style.
Ranges == [start: Nat \ {0}, end: Nat \ {0}]

\* _compositionRange is unset before the first write, which no range is.
ASSUME NoRangeAssumption == NoRange \notin Ranges

\* A model content change as the onDidChangeContent listener sees it.
Changes == [startLine: Nat, endLine: Nat, deletion: BOOLEAN,
            rangeLength: {PlaceholderLength, OtherLength}, marker: BOOLEAN]

Change(s, e, del, len, mark) ==
    [startLine |-> s, endLine |-> e, deletion |-> del,
     rangeLength |-> len, marker |-> mark]

VARIABLES
    buffer,           \* the editor model: a sequence of line tokens
    session,          \* this._session, the last selection received
    synced,           \* the owning UI's session.composition.synced
    compositionRange, \* this._compositionRange, or NoRange
    firstLoad,        \* this._first_load: the listener is not yet registered
    timeRange,        \* this._timeRange
    pendingEnds,      \* setTimeout callbacks scheduled and not yet run
    notifications     \* compositionEnded notifications dispatched

vars == <<buffer, session, synced, compositionRange, firstLoad, timeRange,
          pendingEnds, notifications>>

-----------------------------------------------------------------------------
(* Helpers translated from the ConnectionManager.                          *)

\* _buildComposition: the number of lines of the generated text.  SELECT is
\* always there, FROM when a dbrp or a measurement is set, and WHERE with
\* its parenthesised filter when there are tag values.
BuildCompositionLines(s) ==
    1 + (IF s.dbrp # NoValue \/ s.measurement # NoValue THEN 1 ELSE 0)
      + (IF s.tagValues # {} THEN 2 ELSE 0)

\* Mutant: the deletion widening dropped.
EditorChangeIsWithinCompositionNoWidening(c, rng) ==
    /\ rng # NoRange
    /\ c.startLine >= rng.start /\ c.endLine <= rng.end

\* _editorChangeIsWithinComposition: the change lies in the owned lines;
\* for a deletion the lower bound is widened by the lines it removed.
EditorChangeIsWithinComposition(c, rng) ==
    /\ rng # NoRange
    /\ \/ c.startLine >= rng.start /\ c.endLine <= rng.end
       \/ /\ c.deletion
          /\ c.startLine >= rng.start
          /\ c.endLine <= rng.end + (c.endLine - c.startLine)

\* _couldBeFromComposition: the removal of the placeholder message, or an
\* edit made by _updateComposition with forceMoveMarkers.
CouldBeFromComposition(c) ==
    c.rangeLength = PlaceholderLength \/ c.marker

\* The listener registered by _setCompositionHandlers: the number of
\* end-of-sync callbacks the change schedules (0 or 1).  Before the first
\* onSchemaSessionChange no listener is registered.
OnDidChangeContent(c, listening, rng) ==
    IF listening /\ EditorChangeIsWithinComposition(c, rng)
                 /\ ~CouldBeFromComposition(c)
    THEN 1 ELSE 0

\* Every earlier composition line keeps its text but is no longer owned.
MarkStale(b) ==
    [i \in 1..Len(b) |-> IF b[i] = Composed THEN StaleComposed ELSE b[i]]

Block(n) == [i \in 1..n |-> Composed]

\* _updateComposition, the buffer it leaves: when the old range is (1, 1)
\* (or absent) the text and a newline are inserted at (1, 1); otherwise the
\* owned lines, clamped to the model, are replaced to the end of the last.
\* Mutant: a 0-based first line where Monaco counts from 1.
ComposeStartZeroBased(rng) == IF rng = NoRange THEN 0 ELSE rng.start

ComposeStart(rng) == IF rng = NoRange THEN 1 ELSE rng.start
ComposeEnd(rng)   == IF rng = NoRange THEN 1 ELSE rng.end
ShouldAddNewLine(rng) == ComposeStart(rng) = 1 /\ ComposeEnd(rng) = 1
ClampedEnd(b, rng) == IF ComposeEnd(rng) > Len(b) THEN Len(b) ELSE ComposeEnd(rng)

ComposedBuffer(b, rng, n) ==
    IF ShouldAddNewLine(rng)
    THEN Block(n) \o MarkStale(b)
    ELSE SubSeq(MarkStale(b), 1, ComposeStart(rng) - 1) \o Block(n)
           \o SubSeq(MarkStale(b), ClampedEnd(b, rng) + 1, Len(b))

\* The change event applyEdits raises: replaced text is never the
\* placeholder (it is composition text, or nothing when inserting).
ComposeChange(b, rng) ==
    Change(ComposeStart(rng),
           IF ShouldAddNewLine(rng) THEN ComposeStart(rng) ELSE ClampedEnd(b, rng),
           FALSE, OtherLength, MarkerPreserved)

\* _setEditorBlockStyle stores the range the new text occupies.
ComposedRange(rng, n) ==
    [start |-> ComposeStart(rng), end |-> ComposeStart(rng) + n - 1]

\* _diffSchemaChange: fields or tag values were added or removed.
SchemaChanged(new, prev) ==
    new.fields # prev.fields \/ new.tagValues # prev.tagValues

\* setValue('') raises one deletion over the whole model, whose replaced
\* text is the placeholder.
ClearChange(b) == Change(1, Len(b), TRUE, PlaceholderLength, FALSE)

-----------------------------------------------------------------------------
(* Bounds of the model.                                                    *)

BufferBound == Len(buffer') <= MaxLines
EndsBound   == pendingEnds' + notifications' <= MaxEnds

-----------------------------------------------------------------------------
Init ==
    /\ buffer = <<Placeholder>>
    /\ session = EmptySchema
    /\ synced = TRUE
    /\ compositionRange = NoRange
    /\ firstLoad = TRUE
    /\ timeRange = DefaultTimeRange
    /\ pendingEnds = 0
    /\ notifications = 0

(***************************************************************************)
(* onSchemaSessionChange(schema, ..., range), past the early return of     *)
(* _updateLocalState: the first call registers the listener; the          *)
(* placeholder is cleared with setValue(''); the time range is stored;     *)
(* and _updateComposition runs when the selection diff is non-empty or the *)
(* time range changed.  The listener runs synchronously inside setValue    *)
(* and applyEdits, against the range as it was before the write.           *)
(***************************************************************************)
ContinueSchemaChange(schema, range) ==
    LET cleared == IF buffer = <<Placeholder>> THEN <<Empty>> ELSE buffer
        clearEnds == IF buffer = <<Placeholder>>
                     THEN OnDidChangeContent(ClearChange(buffer), TRUE,
                                             compositionRange)
                     ELSE 0
        update == SchemaChanged(schema, session) \/ timeRange # range
        n == BuildCompositionLines(schema)
    IN /\ firstLoad' = FALSE
       /\ timeRange' = range
       /\ IF update
          THEN /\ buffer' = ComposedBuffer(cleared, compositionRange, n)
               /\ compositionRange' = ComposedRange(compositionRange, n)
               /\ pendingEnds' = pendingEnds + clearEnds
                    + OnDidChangeContent(ComposeChange(cleared, compositionRange),
                                         TRUE, compositionRange)
          ELSE /\ buffer' = cleared
               /\ pendingEnds' = pendingEnds + clearEnds
               /\ UNCHANGED compositionRange

\* The whole handler: _updateLocalState stores the selection and stops
\* when sync is off.
OnSchemaSessionChange(schema, range) ==
    /\ session' = schema
    /\ IF ~synced
       THEN UNCHANGED <<buffer, compositionRange, firstLoad, timeRange,
                        pendingEnds>>
       ELSE ContinueSchemaChange(schema, range)
    /\ UNCHANGED <<synced, notifications>>
    /\ BufferBound
    /\ EndsBound

(***************************************************************************)
(* User edits of the editor model, each raising one change event.          *)
(***************************************************************************)
UserEdited(c) ==
    /\ pendingEnds' = pendingEnds + OnDidChangeContent(c, ~firstLoad, compositionRange)
    /\ UNCHANGED <<session, synced, compositionRange, firstLoad, timeRange,
                   notifications>>
    /\ BufferBound
    /\ EndsBound

\* Typing over (or deleting) text from line s to line e: the lines merge
\* into one line of user text.
UserReplace(s, e, del, len) ==
    /\ 1 <= s /\ s <= e /\ e <= Len(buffer)
    /\ MultiLineReplace \/ s = e
    /\ buffer' = SubSeq(buffer, 1, s - 1) \o <<UserText>> \o SubSeq(buffer, e + 1, Len(buffer))
    /\ UserEdited(Change(s, e, del, len, FALSE))

\* Typing a line break: a new line of user text before line i, or after the
\* last line when i = Len(buffer) + 1.
UserInsertLine(i) ==
    /\ 1 <= i /\ i <= Len(buffer) + 1
    /\ buffer' = SubSeq(buffer, 1, i - 1) \o <<UserText>> \o SubSeq(buffer, i, Len(buffer))
    /\ LET l == IF i <= Len(buffer) THEN i ELSE Len(buffer)
       IN UserEdited(Change(l, l, FALSE, OtherLength, FALSE))

\* Mutant: the line-end deletion also drops line s.
UserDeleteLinesOffByOne(s, e, fromEndOfLine, len) ==
    /\ 1 <= s /\ s < e /\ e <= Len(buffer)
    /\ buffer' = IF fromEndOfLine
                 THEN SubSeq(buffer, 1, s - 1) \o SubSeq(buffer, e + 1, Len(buffer))
                 ELSE SubSeq(buffer, 1, s - 1) \o SubSeq(buffer, e, Len(buffer))
    /\ UserEdited(Change(s, e, TRUE, len, FALSE))

\* Deleting whole lines, from the start of line s to the start of line e
\* (lines s..e-1 go) or from the end of line s to the end of line e
\* (lines s+1..e go).
UserDeleteLines(s, e, fromEndOfLine, len) ==
    /\ 1 <= s /\ s < e /\ e <= Len(buffer)
    /\ buffer' = IF fromEndOfLine
                 THEN SubSeq(buffer, 1, s) \o SubSeq(buffer, e + 1, Len(buffer))
                 ELSE SubSeq(buffer, 1, s - 1) \o SubSeq(buffer, e, Len(buffer))
    /\ UserEdited(Change(s, e, TRUE, len, FALSE))

\* Mutant: a callback that notifies but leaves the session synced.
CompositionEndedCallbackKeepsSync ==
    /\ pendingEnds > 0
    /\ pendingEnds' = pendingEnds - 1
    /\ notifications' = notifications + 1
    /\ UNCHANGED <<buffer, session, synced, compositionRange, firstLoad, timeRange>>

(***************************************************************************)
(* The setTimeout(0) callback: the session's sync is switched off and a    *)
(* compositionEnded notification is dispatched.                            *)
(***************************************************************************)
CompositionEndedCallback ==
    /\ pendingEnds > 0
    /\ pendingEnds' = pendingEnds - 1
    /\ synced' = FALSE
    /\ notifications' = notifications + 1
    /\ UNCHANGED <<buffer, session, compositionRange, firstLoad, timeRange>>

Next ==
    \/ \E schema \in Schemas, range \in TimeRanges :
          OnSchemaSessionChange(schema, range)
    \/ \E s, e \in 1..MaxLines, del \in BOOLEAN, len \in UserRangeLengths :
          UserReplace(s, e, del, len)
    \/ \E i \in 1..MaxLines : UserInsertLine(i)
    \/ \E s, e \in 1..MaxLines, fromEnd \in BOOLEAN, len \in UserRangeLengths :
          UserDeleteLines(s, e, fromEnd, len)
    \/ CompositionEndedCallback

\* The browser's event loop runs a due timer callback eventually.
Spec == Init /\ [][Next]_vars /\ WF_vars(CompositionEndedCallback)

-----------------------------------------------------------------------------
(* Properties.                                                             *)

TypeOK ==
    /\ buffer \in Seq(LineKinds)
    /\ Len(buffer) >= 1
    /\ session \in Schemas
    /\ synced \in BOOLEAN
    /\ compositionRange \in Ranges \cup {NoRange}
    /\ firstLoad \in BOOLEAN
    /\ timeRange \in TimeRanges
    /\ pendingEnds \in Nat
    /\ notifications \in Nat

\* While the session is synced and no end of sync is pending, the lines
\* _compositionRange names exist and are exactly the lines the last
\* _updateComposition wrote: every user edit that reached them was
\* classified by _editorChangeIsWithinComposition / _couldBeFromComposition.
ManagedRegionIntact ==
    (synced /\ pendingEnds = 0 /\ compositionRange # NoRange) =>
        /\ compositionRange.end <= Len(buffer)
        /\ \A i \in 1..Len(buffer) :
              buffer[i] = Composed <=>
                  compositionRange.start <= i /\ i <= compositionRange.end

\* The spec (4.1): once an edit inside the managed region is judged
\* external the session is ended and the builder no longer writes the
\* editor.  The code ends it only in the setTimeout callback, so a builder
\* update handled before that callback still rewrites the owned lines.
NoWriteAfterTakeover ==
    [][pendingEnds > 0 =>
         \A schema \in Schemas, range \in TimeRanges :
             OnSchemaSessionChange(schema, range) => UNCHANGED buffer]_vars

\* The spec (4.1): the owning UI is notified exactly once that the sync
\* ended.  The listener schedules one callback per qualifying change event
\* and is never removed.
SingleNotification == notifications <= 1

\* The spec (4.1): an update replaces exactly the owned lines, leaving no
\* text of an earlier composition behind.  _updateComposition inserts
\* instead of replacing whenever the owned range is the single line 1.
NoStaleComposition == \A i \in 1..Len(buffer) : buffer[i] # StaleComposed

=============================================================================
