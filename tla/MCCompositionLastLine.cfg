\* Every selection of the small space rendered once.
CONSTANTS
    FieldNames <- MCFieldNames
    Measurements <- MCMeasurements
    Dbrps <- MCDbrps
    TagValues <- MCTagValues
    NoDbrp = NoDbrp
    Unset = Unset
    MaxFields = 2
    MaxTags = 3
SPECIFICATION Spec
INVARIANT
    LastLineLengthReported
\* A rendered selection is final: nothing more to do.
CHECK_DEADLOCK FALSE
