# Verification of the InfluxDB web UI excerpt

TLA+ models of the stateful parts of `src/frontend/src`, TLC configurations that
check them on small instances, and TLAPS proofs of their invariants for every
value of the constants.

## 1. Inventory

| Component | Source | State it keeps | Operations |
|---|---|---|---|
| InfluxQL composition synchronizer (`ConnectionManager`) | `languageSupport/languages/influxql/connection.ts` (+ agnostic base class, not in `src/`) | `_session` (last builder selection), `_compositionRange` (the editor lines it owns), `_first_load`, `_timeRange`, the Monaco model's text, and the owning UI's `composition.synced` | `onSchemaSessionChange`, `_updateComposition`, `_buildComposition`, the `onDidChangeContent` listener (`_editorChangeIsWithinComposition`, `_couldBeFromComposition`), the `setTimeout` callback |
| Fields context (`FieldsProvider`) | `dataExplorer/context/fields.tsx` | `fields`, `loading` (React state) | `getFields` (async query), `resetFields` |
| App settings context (`AppSettingProvider`) | `shared/contexts/app.tsx` | Redux app settings; module-level `workerRegistration` | setters dispatching Redux actions; `setPresentationMode` with a delayed enable |
| Environment formatting | `utils/env.ts` | none (pure) | `formatStatic`, `formatBase`; `GIT_SHA` from git/env |
| Homepage wizard tables | `homepageExperience/utils.ts` | none | `scrollNextPageIntoView` (deferred DOM scroll) |
| Presentational components | `VersionInfo.tsx`, `AnnouncementCenter.tsx`, `InstallDependenciesSql.tsx` | none | rendering only |

**How they interact.** The query builder calls `onSchemaSessionChange` with its
selection, a session callback and the time range. The manager writes the
generated InfluxQL into the shared Monaco model; the model calls the manager's
listener synchronously on every edit, its own included. When an edit of the
owned lines is judged to be the user's, the listener defers, with
`setTimeout(0)`, a callback that sets the session's `composition.synced` to
false through the session callback and dispatches a notification. The owning UI
passes the new session back in later calls, and `_updateLocalState` stops there
once sync is off. Fields and app settings are React/Redux state containers read
by the UI; they do not call the manager.

**What is hard.** Everything runs on one event loop, but the order of its tasks
is not fixed:
- user edits, builder clicks and deferred timer callbacks interleave;
- the manager's own edits are told apart from the user's by a heuristic (the
  length of the replaced text, the `forceMoveMarkers` flag);
- the owned range is a pair of stored line numbers that edits do not update;
- async queries resolve in any order (fields), and a delayed enable can race a
  disable (presentation mode).

**Properties that make each correct.**
- Synchronizer: while synced, the owned lines are exactly the last composition
  and no user text is overwritten. A user edit of them ends the sync, at once
  and eventually for sure, with exactly one notification. Updates replace the
  old composition and leave no copy of it.
- Fields: `Loading` only while the latest query is awaited, and `Done` with
  the results view on the fields shown. Which answer wins when calls
  overlap, and whether a reset survives a late answer, is stated nowhere; the
  model reaches both outcomes.
- Synchronizer contract: seen from its owner the manager is a three-state
  session (synced, ending, ended). The region moves only before the end, the
  end is never undone, and the owner is told when it happens.
- Composition text: the line count the range is sized with equals the lines
  written, and the spec's examples render as written there.
- App settings: a requested enable eventually takes effect. A disable during
  the animation delay is undone by the late enable; nothing says whether
  that is intended. The worker registration should reach the store once the
  import resolves.
- `formatBase`: the result is the shortest slash-delimited string containing
  the value. `formatStatic` strips only one leading slash (`/` stays `/`);
  its contract is stated nowhere.

The hazards, each at its line, are listed in `PROJECT.json`.

## 2. Modules

### Connection (the synchronizer): `Connection.tla`, `MCConnection.tla`, `ConnectionProofs.tla`, `ConnectionRegionProofs.tla`

**State.**

| Variable | Code |
|---|---|
| `buffer` | the Monaco model: one token per line saying who wrote it (`placeholder`, `empty`, `user`, `composed` by the last update, `stale` for text of an earlier update still in the editor) |
| `session` | `_session` |
| `synced` | the owning UI's `composition.synced` |
| `compositionRange` | `_compositionRange`, line numbers only |
| `firstLoad` | `_first_load`, which also says whether the listener is registered |
| `timeRange` | `_timeRange` |
| `pendingEnds` | `setTimeout` callbacks scheduled and not yet run |
| `notifications` | `compositionEnded` notifications dispatched |

**Actions.**
- `OnSchemaSessionChange(schema, range)` is the whole handler:
  `_updateLocalState` (store the selection, stop when not synced), listener
  registration, `setValue('')` for the placeholder, storing the time range, and
  `_updateComposition` when `_diffSchemaChange` finds a change or the range
  changed. The part past `_updateLocalState`'s early return is the operator
  `ContinueSchemaChange`, so that the mutant without the early return can
  reuse it.
  - The listener runs synchronously inside `setValue` and `applyEdits`, with
    the range as it was before the write, as in the code.
  - `_updateComposition` inserts at (1,1) with a trailing newline when the old
    range is absent or is 1..1 (`shouldAddNewLine`). Otherwise it replaces the
    owned lines, clamped to the model as Monaco does.
- `UserReplace`, `UserInsertLine` and `UserDeleteLines` are the user's edits,
  each raising one change event. The event carries the line range, whether the
  text is empty, whether the replaced length equals the placeholder's, and no
  marker. `UserEdited` runs the listener on it.
- `CompositionEndedCallback` is the timer callback.

**Abstractions.**
- Field, measurement, dbrp and tag names are model values. The composition's
  text matters only through its line count: 1 + FROM + 2 for WHERE.
- Columns are not modelled here. The composition's text and its last-line
  length are modelled in `Composition` (below).

**Modelled from the spec.** The agnostic base class is not in `src/`:
`_updateLocalState` stores the selection and continues only while
`composition.synced`; `_diffSchemaChange` compares fields and tag values and
asks to remove the placeholder when it is the whole text; `_setEditorBlockStyle`
stores the range. These are marked `spec_modelled` in the map.

**Constants.**
- `MarkerPreserved`: the editor passes `forceMoveMarkers` into the change
  event. It is TRUE in every run, as the spec's buffer contract says.
- `MultiLineReplace`: the user may type over a selection spanning lines.
- `UserRangeLengths`: whether a user edit can replace exactly as many
  characters as the placeholder has. This is the spec's accepted
  misclassification, excluded in the runs.
- `NoRange`: the unset `_compositionRange`. `NoRangeAssumption` says it is no
  line range, as `undefined` is no `LspRange`.

**Fairness.** `WF` of the timer callback only: the browser runs a due
`setTimeout` callback. Users and the builder owe nothing. It matters for
the liveness part of `SyncSessionRefined`. No property states that sync
eventually ends after an edit: that would be this assumption restated.

**Bounds.**
- One field, measurement, dbrp and tag value. This gives every composition
  size (1, 2, 3, 4 lines) and every diff outcome.
- Two time ranges, so a time-only change happens.
- `MaxLines = 5`: enough for a 4-line composition plus a user line.
- `MaxEnds = 2`: two scheduled ends, enough for a duplicate notification.

The core run has about 126k states and runs in about 30 s.

### Composition (the text of `_buildComposition`): `Composition.tla`, `MCComposition.tla`, `CompositionProofs.tla`

`Connection` needs only the line count of a composition. `Composition` renders
the text itself, so that the count and `lenLastLine` can be compared with the
lines written.
- Names are short strings, because the properties are about text and length.
- A selection is a record like `CompositionSelection`: an ordered field list,
  a measurement (`""` is the falsy one), a dbrp record or `NoDbrp`, and a list
  of `[key, values]` tag entries.
- `SelectLine`, `DbrpMeasurement`, `TagValuesExpr` and `WhereClause` are the
  four parts of the code. `Join` is `Array.join`. It is written as a
  recursive function over the prefixes of the array, not with `FoldLeft` of
  the community modules, which would bring a RECURSIVE operator into the
  proofs. `KeysInOrder` and `ValuesOf` are written the same way.
- `groupedTagValues` is in the agnostic utils, outside `src/`. It is modelled
  from the spec (`KeysInOrder`, `ValuesOf`, `GroupedTagValues`): keys in the
  order they first appear, each with the values of all its entries.
- `BuildComposition` returns the lines, the hand-kept count `lines`, and
  `lenLastLine` as the code computes it: the length of `slice(-1)`, a
  one-element array.
- `Render` is `_buildComposition` called from `_updateComposition` on the
  current `_session`. Every selection of the instance is an initial state
  and is rendered once, so the run does not check deadlock.

The instance has two fields, lists of up to two of them, the unset and one
measurement, with and without a dbrp, and up to three tag entries drawn from
`host=[server01]`, `host=[a, b]` and `region=[eu]`. So grouping merges a
repeated key and reorders keys. That gives 320 selections, including the
spec's Scenarios A and B.

### SyncSession and the refinement: `SyncSession.tla`, `ConnectionRefinement.tla`, `ConnectionRefinementProofs.tla`

`SyncSession` is what the synchronizer promises its owner. It keeps the spec's
`SyncState` (section 3) and adds the state between the qualifying edit and its
effect:
- `state`: `synced`, `ending` or `ended`;
- `region`: lines from 1;
- `notified`: the owner has been told.

It has three actions:
- `Apply`: the region moves, unless the session has ended;
- `ExternalEdit`: synced becomes ending;
- `End`: ending becomes ended, and the owner is notified.

Under weak fairness of `End`, an ending session ends. The spec forbids apply
while ending. The code allows it until the timer fires
(`connection_takeover_window`), so the contract allows it too.

`ConnectionRefinement` maps the manager onto it:
- `state` is `ended` once `synced` is false, `ending` while synced with a
  callback pending, and `synced` otherwise;
- `region` is `_compositionRange`;
- `notified` is `notifications > 0`.

The run `connection_refinement` checks `SyncSessionRefined` (= `Abs!Spec`,
fairness included) on the instance of `connection_core`.

### Fields (the fields context): `Fields.tla`, `MCFields.tla`

`getFields` is async, so it is split at its `await`:
- `GetFields(bucket, measurement)`: the early return on a falsy argument,
  `setLoading(Loading)` and the query sent. The query gets an id, and the
  awaited ids form the set `inflight`.
- `QueryResolved(id, column)`: the continuation when the query answers.
  `ValueColumnData` is the `_value` column's data, or `[]` (`?? []`) when the
  response has none (`NoValueColumn`). Then `setFields`, `setLoading(Done)`
  and `setDefaultViewOptions` run with the same columns.
- `QueryFailed(id)`: the continuation when it throws, `setLoading(Error)`.
- `ResetFields`: back to `INITIAL_FIELDS` and `NotStarted`. It cancels nothing.

Queries complete in any order. The query text and the response parsing are
abstracted: an answer is one of a few field lists (`INITIAL_FIELDS` is the
`[]`), or `NoValueColumn`. `MaxRequests = 3`
calls reach the await, enough for two overlapping calls and a reset between
them. No fairness: whether the query API ever answers is outside this code.

### AppSettings (the settings context): `AppSettings.tla`

- `SetPresentationMode(active)`: a disable is dispatched at once; an enable
  schedules a timer (`pendingEnables`).
- `PresentationTimer`: the callback, `enablePresentationMode` then the
  notification.
- `SetSetting(v)`: each of the six plain setters, one dispatch over one
  abstract setting.
- `ImportResolved`: the dynamic import assigns the module variable
  `workerRegistration`.
- `Render`: the provider renders. The effect keyed on `workerRegistration`
  runs when the key changed (and on mount) and dispatches it into the store.
  The selector returns a fresh object, so every dispatch asks for a render
  (`renderDue`).

Fairness: weak fairness of the timer, the import and rendering, which the
browser and React provide. `RegistrationReachesStore` relies on it: the
violation happens even though renders are fair. No property asserts that
a delayed enable eventually takes effect. That would follow from the
timer's fairness alone and would check nothing about the code. The user owes nothing. `MaxEnables = 3` bounds the
enables requested.

### Env (build-time constants): `Env.tla`

`formatStatic` and `formatBase` are operators on strings over a two-character
alphabet: the slash, which the code tests, and one other character.
`Load` is the evaluation of the module: `GIT_SHA` (`UI_SHA || git`, or
`'unknown'` when `execSync` throws) and the three path constants from an
arbitrary environment. `x || d` is `OrDefault`, so an empty variable takes
the default. All values up to three characters are enumerated (49,152
states). The module is evaluated once, so the run does not check deadlock.

`BasePathsMinimal` compares `formatBase` with a reference definition that
does not say how to build the result: the shortest string that starts and
ends with a slash and contains the value.

### Runs

| Run | Expect | Shows |
|---|---|---|
| `connection_core` | pass | `TypeOK`. `ManagedRegionIntact`: while synced with nothing pending, exactly the owned lines hold the last composition, under single-line edits, line breaks and whole-line deletions |
| `fields_core` | pass | `LoadingAwaitsLatest`: Loading is shown only while the latest query is awaited, whatever answers and resets came in between. `DoneViewMatchesFields`: Done always comes with the results view smoothing exactly the fields shown |
| `env_paths` | pass | `BasePathsMinimal`: `BASE_PATH` and `API_BASE_PATH` equal the reference on every environment up to three characters |
| `app_settings` | pass | `TypeOK`: the enables pending and the notifications sent stay within the requests made, under every interleaving of requests, timers, dispatches, renders and the import |
| `connection_spanning_replace` | violation | with multi-line replacements, `ManagedRegionIntact` fails. Select-all and type (4 lines plus the trailing empty line, end line 5 > 4, not a deletion) is not detected |
| `connection_takeover_window` | violation | `NoWriteAfterTakeover`: a builder update between the user's edit and the callback rewrites the owned lines |
| `connection_double_notify` | violation | `SingleNotification`: two edits before the callback give two notifications |
| `connection_stale_composition` | violation | `NoStaleComposition`: two one-line compositions in a row leave the first in the editor |
| `composition_text` | pass | `LineCountMatchesText`: the hand-kept line count equals the number of lines written, for all 320 selections. `RendersSpecExamples`: Scenarios A and B render character for character |
| `composition_last_line` | violation | `LastLineLengthReported`: `lenLastLine` is 1 for every selection, not the final line's length (the spec, 4.1) |
| `connection_refinement` | pass | `SyncSessionRefined`: the manager implements the SyncSession contract, liveness included (126k states, about 40 s) |
| `app_registration` | violation | `RegistrationReachesStore`: an import that resolves after the last render never reaches the store |

Each property of a passing run has a mutant, a plausible bug of the mapped code
that TLC catches:
- `TypeOK`: the update's start line taken zero-based;
- Fields `TypeOK`: the `?? []` fallback dropped, so that a response without
  a `_value` column sets the fields to `undefined`;
  `LoadingAwaitsLatest`: `setLoading` moved above the early return;
  `DoneViewMatchesFields`: `setDefaultViewOptions` forgotten;
- Env `TypeOK`: `UI_SHA ?? git` instead of `||`; `BasePathsMinimal`: the
  leading slash always prepended;
- AppSettings `TypeOK`: the timer callback running twice;
- `ManagedRegionIntact`: the deletion widening of the end bound dropped;
- Composition `TypeOK`: the line count started at 0; `LineCountMatchesText`:
  the WHERE clause counted as one line; `RendersSpecExamples`: the
  measurement left unquoted;
- `SyncSessionRefined`: the callback notifying but leaving the session synced.

### Proofs

**`ConnectionProofs.tla`.** `THEOREM TypeCorrect == Spec => []TypeOK`, for every value of the constants
under `ConstantsAssumption`.

`TypeOK` is not inductive on its own. A stored range starting beyond the buffer
would make the prefix `SubSeq` of the next update ill-typed. The proof
therefore uses `TypeInv == TypeOK /\ (range present => range.start = 1)`,
defined in `ConnectionProofs`. It was checked with TLC on the instance of
`connection_core` before the proof. It is not a property of any run: its
extra conjunct only restates the start line `range?.start?.line ?? 1`.

It rests on these lemmas:
- `PrefixType` and `SuffixType`: `SubSeq` slices are sequences of the
  expected length;
- `BlockType` and `MarkStaleType`;
- `ComposedBufferType`: the buffer an update leaves is non-empty;
- `BuildCompositionLinesType` and `OnDidChangeContentType`.

Each action is then one lemma or one case:
- `SchemaChangeTypeInv`, split on synced and on update;
- `UserEditTypeInv`, one case per edit;
- the callback.

**`ConnectionRegionProofs.tla`.** `THEOREM ManagedRegionIntactHolds ==
ASSUME ClassifiedEdits PROVE Spec => []ManagedRegionIntact`, for every
bound. `ClassifiedEdits` is `~MultiLineReplace /\ UserRangeLengths \subseteq
{OtherLength}`, as in `connection_core`:
- the run `connection_spanning_replace` shows that multi-line replacement
  breaks the property;
- an edit of the placeholder's length is the spec's accepted
  misclassification.

`MarkerPreserved` is not needed. When the manager's own write schedules an
end, `pendingEnds` becomes positive and the property holds vacuously. TLC
confirms this with `MarkerPreserved = FALSE`.

The property alone is not inductive, for two reasons:
- a composed line could exist before any range is stored;
- an edit before the listener is registered is never judged.

The inductive invariant `RegionInv` therefore adds two conjuncts, and TLC
checked it on the `connection_core` instance (126k states) before the proof:
- `NoEarlyComposition`: no line is composed while the range is unset;
- `ListeningWhenOwned`: a range exists only after the listener is
  registered.

The argument:
- "synced with nothing pending" is a prefix of every behaviour. Only the
  callback lowers `pendingEnds`, and it also clears `synced` for good. So a
  step that ends in such a state also starts in one.
- While synced, the handler either clears only the placeholder, or rewrites
  from line 1. The placeholder cannot be there, because line 1 is composed.
  `ComposedBufferMarks` shows that the rewrite makes exactly lines 1..n
  composed, with n the new range's end.
- A user edit that schedules nothing while the listener guards a range from
  line 1 starts below the range (`IgnoredEditBelowRange`). Lines
  1..end are therefore kept (`SpliceMarks`, `DropMarks`, `EditKeepsRegion`).

The lemmas are stated with `Marks(x, r)`: the composed lines of `x` are
exactly its first `r`. `ConcatMarks`, `PrefixMarks`, `SuffixMarks`,
`MarkStaleMarks` and `BlockMarks` give `Marks` for each sequence operation.
`NoRangeAssumption` is used when a write stores a range.

**`ConnectionRefinementProofs.tla`.** `THEOREM Refinement`: under the
hypothesis `MarkerPreserved`, `Spec => Abs!Init /\ [][Abs!Next]_Abs!vars`
holds for every value of the constants. This is the safety part of the
refinement; the fairness part stays with TLC.
- The hypothesis is needed. Without the flag in the change event, the
  listener can take the manager's own write for the user's. The region would
  then move in the same step as the session starts ending, and no step of
  the contract does both.
- The proof rests on `SInv == TypeInv /\ (synced <=> notifications = 0)`.
  `TypeInv` comes from `ConnectionProofs` and gives the region's start line
  1, which `Apply` requires. The second conjunct makes the callback of a
  synced session an `End` whose `notified` goes from false to true, and a
  later callback a stutter.
- Lemmas:
  - `OwnChangesIgnored`: the listener schedules nothing for the placeholder's
    removal or for the manager's own write;
  - `SchemaChangeRefines`: an update is `Apply` or a stutter;
  - `UserEditedRefines`: an edit is `ExternalEdit` or a stutter;
  - `CallbackRefines`: a callback is `End` or a stutter;
  - `StepRefines`: combines the three lemmas above.

**`FieldsProofs.tla`.** `LoadingAwaitsLatestHolds`,
`DoneViewMatchesFieldsHolds` and `FieldsTypeCorrect`, for every instance under
`FieldsAssumption`. The conjunction
`Inv == TypeOK /\ LoadingAwaitsLatest /\ DoneViewMatchesFields` is inductive.
There is one lemma per action:
- `GetFields` sets Loading with the new id awaited;
- `QueryResolved` sets the fields and the view to the same list under Done;
- `QueryFailed` and `ResetFields` leave neither Loading nor Done.

**`AppSettingsProofs.tla`.** `AppSettingsTypeCorrect == Spec => []TypeOK`,
for every bound under `AppSettingsAssumption`. `TypeOK` alone is not
inductive, because the timer moves one unit from `pendingEnables` to
`notifications`. The inductive invariant adds
`pendingEnables + notifications <= MaxEnables`, which is the guard of an
enable request.

**`CompositionProofs.tla`.** These theorems hold for every selection and
every value of the constants, not only the 320 selections of the run:
- `CompositionTypeCorrect == Spec => []TypeOK`;
- `LineCountMatchesTextHolds == Spec => []LineCountMatchesText`: the hand-kept
  count `lines` is the number of lines returned;
- `LenLastLineIsOne`: `lenLastLine` is always 1. This is the
  `composition_last_line` finding stated for every selection;
- `BuildCompositionLinesExact`: the count is
  `1 + (dbrp or measurement set ? 1 : 0) + (tag values ? 2 : 0)`. That is the
  formula of `Connection.BuildCompositionLines`, with `NoValue` read as
  `NoDbrp` or `""` and the sets read as lists. So the `Connection` model,
  which keeps only the count, writes as many lines as the real builder.

The argument uses lengths only. The SELECT line is one line. `FromLine` is
one line or none (`FromLineShape`). `WhereClause` is two lines or none
(`WhereClauseShape`). `ConcatProperties` of `SequenceTheorems` adds the
lengths up. Strings are opaque to the provers, so every line is treated as
a member of the four-element set `LinesOf(sel)`. `DbrpMeasurementEmpty`
shows that the FROM parts are empty exactly when neither a dbrp nor a
measurement is set. The inductive invariant is
`CInv == TypeOK /\ LineCountMatchesText`. `Init` has no result, and `Render`
stores a result built by `BuildComposition`.

**`EnvProofs.tla`.** These theorems hold for strings of every length, not
only the three characters TLC enumerates:
- `BasePathsMinimalHolds == Spec => []BasePathsMinimal`: `formatBase` always
  returns a shortest slash-delimited string containing its argument. This is
  the reference definition of the run.
- `EnvTypeCorrect == Spec => []TypeOK`.

The key lemmas:
- `FormatBaseShape`: `formatBase(v)` starts and ends with a slash, contains
  `v`, and is `Added(v)` characters longer, one per missing slash.
- `BasePathLowerBound`: every string that starts and ends with a slash and
  contains `v` is at least that long. A `v` that does not start with a slash
  cannot sit at offset 0, and one that does not end with a slash cannot end
  at the last position.
- `FormatBaseMinimal` combines the two.

The inductive invariant `EInv` adds `EnvShape`: the environment's variables
have the types `Init` gives them. `TypeOK` allows any value for every
variable.

## 3. Plan

1. **Done (sitting 1):** `Connection`, the synchronizer. It has its runs and
   the `TypeCorrect` proof.
2. **Done early (sitting 1):** `Fields`, `AppSettings` and `Env`, each with a
   passing run. Their races are in the model and reachable: an older answer
   after a newer call, a late answer after a reset, a disable during the
   animation delay, and a registration after the last render. No document
   states what the code should do in the first three, so they are listed as
   hazards, not asserted. The registration is asserted in sitting 2: the
   effect's dependency list says the store should follow it.
3. **Done (sitting 2):**
   - `Composition`: the text of `_buildComposition` and its `lenLastLine`
     finding.
   - `SyncSession`: the refinement, checked by TLC and its safety part
     proved.
   - `FieldsProofs` and `AppSettingsProofs`.
   - The registration liveness finding.
4. **Done (proof sitting 1):**
   - `ManagedRegionIntactHolds`, with the inductive invariant `RegionInv`.
   - `TypeInvHolds` and the action property `SyncEndedIsFinal`, with its
     proof. Both were later dropped: `TypeInv` only restates the start line
     and `SyncEndedIsFinal` only restates the early return on `!synced`.
   - `EnvProofs`: `formatBase` is minimal for every length.
5. **Done (proof sitting 2):** `CompositionProofs`. The fold-based
   operators of `Composition` were rewritten as recursive functions. The runs
   and their mutants are unchanged: the same 640 states and the same
   violations. Then the text's line count was proved exact for every
   selection and related to `Connection.BuildCompositionLines`.
6. **Next:** compose `Connection` with the builder as a second actor that
   chooses sessions from `composition.synced`.

## 4. What stays with TLC only

The provers cannot handle these, so TLC checks them:
- liveness (the fairness part of `SyncSessionRefined`, the violated
  `RegistrationReachesStore`), which rests on fairness and ENABLED;
- `Composition.RendersSpecExamples`: the characters of Scenarios A and B.
  The provers treat string literals and their concatenation as opaque, so
  the text is checked only by TLC, which evaluates it. The line counts are
  proved;
- `ManagedRegionIntact` with multi-line replacement or placeholder-length
  edits, where it is false (the violation run);
- `SingleNotification` and the other violated properties: their
  counterexamples are the result;
- anything about recursive definitions over all inputs;
- the violation runs.

## 5. Not modelled
- React rendering and Redux reducers, except where they carry a state that
  the code reads back (`composition.synced`).
- Monaco's text: lines are abstracted to tokens.
- The query languages.
- What `git rev-parse` prints: `GIT_SHA` models only its outcome.
- The presentational components. `VersionInfo` shows `GIT_SHA.slice(0, 7)`
  of the value `Env` models, and picks a link from a selector.
  `AnnouncementCenter` lays out its children. `InstallDependenciesSql` shows
  snippets and logs an analytics event on copy. None keeps or changes state.
- `homepageExperience/utils.ts`. Lines 1-187 are constant tables of wizard
  step names, with no operation. `scrollNextPageIntoView` looks up an `h1`
  when a timer fires and scrolls to it. That is DOM behaviour with no
  application state; its null lookup is listed as a hazard.
- Redux reducers and the analytics `event` call of the settings context.
- The text of the fields query and the parsing of its response.
