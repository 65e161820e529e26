\* Two updates in a row whose compositions have one line.
CONSTANTS
    f1 = f1  m1 = m1  d1 = d1  t1 = t1  r1 = r1  r2 = r2
    NoValue = NoValue
    NoRange = NoRange
    Fields <- MCFields
    Measurements <- MCMeasurements
    Databases <- MCDatabases
    TagValues <- MCTagValues
    TimeRanges <- MCTimeRanges
    DefaultTimeRange = r1
    MarkerPreserved = TRUE
    MultiLineReplace = FALSE
    UserRangeLengths = {"otherLength"}
    MaxLines = 5
    MaxEnds = 2
SPECIFICATION Spec
INVARIANT NoStaleComposition
