\* The classifier under the edits it was written for: single-line edits,
\* line breaks and whole-line deletions, none replacing exactly as many
\* characters as the placeholder has.
CONSTANTS
    f1 = f1  m1 = m1  d1 = d1  t1 = t1  r1 = r1  r2 = r2
    NoValue = NoValue
    NoRange = NoRange
    Fields <- MCFields
    Measurements <- MCMeasurements
    Databases <- MCDatabases
    TagValues <- MCTagValues
    TimeRanges <- MCTimeRanges
    DefaultTimeRange = r1
    MarkerPreserved = TRUE
    MultiLineReplace = FALSE
    UserRangeLengths = {"otherLength"}
    MaxLines = 5
    MaxEnds = 2
SPECIFICATION Spec
INVARIANTS TypeOK ManagedRegionIntact
