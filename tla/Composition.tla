---------------------------- MODULE Composition ----------------------------
(***************************************************************************)
(* The text of an InfluxQL composition: ConnectionManager._buildComposition *)
(* (connection.ts) rendering the builder's selection into lines, with the  *)
(* line count and last-line length it reports to _updateComposition.       *)
(* Names are short strings, since the properties are about the text and    *)
(* its length; each selection is rendered once from an arbitrary          *)
(* selection of a small set.                                               *)
(***************************************************************************)
EXTENDS Naturals, Sequences

CONSTANTS
    FieldNames,     \* field names the builder may select
    Measurements,   \* measurement names; "" is the unset (falsy) measurement
    Dbrps,          \* [database, retention_policy] records the builder may set
    NoDbrp,         \* the unset dbrp
    TagValues,      \* [key, values] tag constraints the builder may add
    MaxFields,      \* longest field list
    MaxTags,        \* longest tag-value list
    Unset           \* the result before rendering

ASSUME CompositionAssumption ==
    /\ MaxFields \in Nat /\ MaxTags \in Nat
    /\ NoDbrp \notin Dbrps

\* Lists without repeated entries, up to n long.
DistinctSeqs(S, n) ==
    {s \in UNION {[1..m -> S] : m \in 0..n} : \A i, j \in DOMAIN s : i # j => s[i] # s[j]}

\* The entries of a list.
EntriesOf(s) == {s[i] : i \in DOMAIN s}

Selections ==
    [fields: DistinctSeqs(FieldNames, MaxFields), measurement: Measurements,
     dbrp: Dbrps \cup {NoDbrp}, tagValues: DistinctSeqs(TagValues, MaxTags)]

\* arr.join(sep) on strings.
Join(arr, sep) ==
    LET joined[i \in 1..Len(arr)] ==
            IF i = 1 THEN arr[1] ELSE joined[i - 1] \o sep \o arr[i]
    IN IF arr = <<>> THEN "" ELSE joined[Len(arr)]

Quoted(name) == "\"" \o name \o "\""

\* groupedTagValues (agnostic utils): the keys in the order they first
\* appear, each with the values of all its entries.
KeysInOrder(tvs) ==
    LET keys[i \in 0..Len(tvs)] ==
            IF i = 0 THEN <<>>
            ELSE IF tvs[i].key \in EntriesOf(keys[i - 1]) THEN keys[i - 1]
            ELSE Append(keys[i - 1], tvs[i].key)
    IN keys[Len(tvs)]

ValuesOf(tvs, k) ==
    LET vals[i \in 0..Len(tvs)] ==
            IF i = 0 THEN <<>>
            ELSE IF tvs[i].key = k THEN vals[i - 1] \o tvs[i].values
            ELSE vals[i - 1]
    IN vals[Len(tvs)]

GroupedTagValues(tvs) ==
    [i \in DOMAIN KeysInOrder(tvs) |->
        [key |-> KeysInOrder(tvs)[i], values |-> ValuesOf(tvs, KeysInOrder(tvs)[i])]]

\* The SELECT line: * for no fields, else the quoted fields joined by ", ".
SelectLine(sel) ==
    "SELECT " \o (IF sel.fields = <<>> THEN "*"
                  ELSE Join([i \in DOMAIN sel.fields |-> Quoted(sel.fields[i])], ", "))

\* A FROM clause that leaves the measurement unquoted.
DbrpMeasurementUnquoted(sel) ==
    (IF sel.dbrp # NoDbrp THEN <<sel.dbrp.database, sel.dbrp.retention_policy>>
                           ELSE <<>>)
    \o (IF sel.measurement # "" THEN <<sel.measurement>> ELSE <<>>)

\* database and retention policy when dbrp is set, then the quoted
\* measurement when it is non-empty.
DbrpMeasurement(sel) ==
    (IF sel.dbrp # NoDbrp THEN <<sel.dbrp.database, sel.dbrp.retention_policy>>
                           ELSE <<>>)
    \o (IF sel.measurement # "" THEN <<Quoted(sel.measurement)>> ELSE <<>>)

\* "key" = 'value' for every value, AND-joined within and across keys.
TagValuesExpr(sel) ==
    LET groups == GroupedTagValues(sel.tagValues)
        perKey == [i \in DOMAIN groups |->
                     Join([j \in DOMAIN groups[i].values |->
                             Quoted(groups[i].key) \o " = '" \o groups[i].values[j] \o "'"],
                          " AND ")]
    IN Join(perKey, " AND ")

WhereClause(sel) ==
    IF sel.tagValues # <<>> THEN <<"WHERE", "(" \o TagValuesExpr(sel) \o ")">>
    ELSE <<>>

\* A line count started at 0 instead of 1 (the SELECT line not counted).
BuildCompositionLinesFromZero(sel) ==
    LET parts == DbrpMeasurement(sel)
        fromLine == IF parts # <<>> THEN <<"FROM " \o Join(parts, ".")>> ELSE <<>>
        composition == <<SelectLine(sel)>> \o fromLine \o WhereClause(sel)
    IN [composition |-> composition,
        lines |-> Len(fromLine) + Len(WhereClause(sel)),
        lenLastLine |-> Len(SubSeq(composition, Len(composition), Len(composition)))]

\* A line count that counts the WHERE clause as one line.
BuildCompositionWhereOneLine(sel) ==
    LET parts == DbrpMeasurement(sel)
        fromLine == IF parts # <<>> THEN <<"FROM " \o Join(parts, ".")>> ELSE <<>>
        composition == <<SelectLine(sel)>> \o fromLine \o WhereClause(sel)
    IN [composition |-> composition,
        lines |-> 1 + Len(fromLine) + (IF WhereClause(sel) # <<>> THEN 1 ELSE 0),
        lenLastLine |-> Len(SubSeq(composition, Len(composition), Len(composition)))]

\* _buildComposition: the lines (joined with "\n" by the caller's text),
\* the line count kept alongside them, and lenLastLine, which is
\* composition.slice(-1).length: the length of a one-element array.
BuildComposition(sel) ==
    LET parts == DbrpMeasurement(sel)
        fromLine == IF parts # <<>> THEN <<"FROM " \o Join(parts, ".")>> ELSE <<>>
        composition == <<SelectLine(sel)>> \o fromLine \o WhereClause(sel)
    IN [composition |-> composition,
        lines |-> 1 + Len(fromLine) + Len(WhereClause(sel)),
        lenLastLine |-> Len(SubSeq(composition, Len(composition), Len(composition)))]

VARIABLES
    selection,   \* this._session when _updateComposition runs
    result       \* what _buildComposition returned, or Unset

vars == <<selection, result>>

TypeOK ==
    /\ selection \in Selections
    /\ result = Unset \/ result.lines \in Nat \ {0}

Init ==
    /\ selection \in Selections
    /\ result = Unset

Render ==
    /\ result = Unset
    /\ result' = BuildComposition(selection)
    /\ UNCHANGED selection

Spec == Init /\ [][Render]_vars

Text == Join(result.composition, "\n")

-----------------------------------------------------------------------------
\* The line count _updateComposition uses to size the new composition range
\* equals the number of lines of the text it writes, for every selection:
\* otherwise the stored range misses owned lines or claims the user's.
LineCountMatchesText ==
    result # Unset => result.lines = Len(result.composition)

\* The selections of the spec's Scenarios A and B (section 8).
ScenarioA ==
    [fields |-> <<>>, measurement |-> "cpu",
     dbrp |-> [database |-> "telegraf", retention_policy |-> "autogen"],
     tagValues |-> <<>>]
ScenarioB ==
    [ScenarioA EXCEPT !.tagValues = <<[key |-> "host", values |-> <<"server01">>]>>]

\* _buildComposition renders the spec's Scenario A as the two lines
\* SELECT * / FROM telegraf.autogen."cpu", and Scenario B as the same with
\* WHERE / ("host" = 'server01') appended, four lines in all.
RendersSpecExamples ==
    result # Unset =>
        /\ selection = ScenarioA =>
              /\ Text = "SELECT *\nFROM telegraf.autogen.\"cpu\""
              /\ result.lines = 2
        /\ selection = ScenarioB =>
              /\ Text = "SELECT *\nFROM telegraf.autogen.\"cpu\"\nWHERE\n(\"host\" = 'server01')"
              /\ result.lines = 4

\* The spec (section 4.1) says render reports the character length of the
\* final line, used for the range's end column.
LastLineLengthReported ==
    result # Unset => result.lenLastLine = Len(result.composition[Len(result.composition)])
=============================================================================
