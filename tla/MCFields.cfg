\* Fields provider: three getFields calls answered in any order, with resets.
CONSTANTS
    b1 = b1
    m1 = m1
    l0 = l0
    l1 = l1
    l2 = l2
    NoBucket = NoBucket
    NoMeasurement = NoMeasurement
    NoValueColumn = NoValueColumn
    Buckets <- MCBuckets
    Measurements <- MCMeasurements
    FieldLists <- MCFieldLists
    InitialFields = l0
    MaxRequests = 3
SPECIFICATION Spec
INVARIANTS TypeOK LoadingAwaitsLatest DoneViewMatchesFields
