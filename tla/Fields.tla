------------------------------- MODULE Fields -------------------------------
(***************************************************************************)
(* The fields context of the data explorer (FieldsProvider in              *)
(* dataExplorer/context/fields.tsx).  getFields sets the loading state,    *)
(* then awaits the query API; the continuation after the await runs later, *)
(* in whatever order the responses come back, and resetFields may run in   *)
(* between.  A call is therefore split in two: GetFields (up to the await) *)
(* and QueryResolved / QueryFailed (after it).  Requests awaiting an       *)
(* answer are a set, so they may complete in any order.                    *)
(***************************************************************************)
EXTENDS Naturals

CONSTANTS
    Buckets,        \* buckets the caller may pass
    NoBucket,       \* a falsy bucket argument
    Measurements,   \* measurements the caller may pass
    NoMeasurement,  \* a falsy (empty) measurement argument
    FieldLists,     \* the field lists a query can return, INITIAL_FIELDS included
    InitialFields,  \* INITIAL_FIELDS, the empty list
    NoValueColumn,  \* a response without a string _value column
    MaxRequests     \* bound on the number of getFields calls that reach the await

ASSUME FieldsAssumption ==
    /\ NoBucket \notin Buckets
    /\ NoMeasurement \notin Measurements
    /\ InitialFields \in FieldLists
    /\ NoValueColumn \notin FieldLists
    /\ MaxRequests \in Nat

\* RemoteDataState values used by the provider.
NotStarted == "NotStarted"
Loading    == "Loading"
Done       == "Done"
Error      == "Error"
RemoteDataStates == {NotStarted, Loading, Done, Error}

VARIABLES
    fields,      \* the fields state
    loading,     \* the loading state
    smoothing,   \* smoothing columns of the results view (setDefaultViewOptions)
    inflight,    \* ids of the queries awaited and not yet settled
    issued       \* number of queries issued so far; ids run 1..issued

vars == <<fields, loading, smoothing, inflight, issued>>

TypeOK ==
    /\ fields \in FieldLists
    /\ loading \in RemoteDataStates
    /\ smoothing \in FieldLists
    /\ inflight \subseteq 1..issued
    /\ issued \in 0..MaxRequests

\* The results view's smoothing columns belong to another context; any list
\* may be there when the provider mounts.
Init ==
    /\ fields = InitialFields
    /\ loading = NotStarted
    /\ smoothing \in FieldLists
    /\ inflight = {}
    /\ issued = 0

\* A getFields whose setLoading is moved above the early return.
GetFieldsLoadingFirst(bucket, measurement) ==
    /\ issued < MaxRequests
    /\ loading' = Loading
    /\ IF bucket # NoBucket /\ measurement # NoMeasurement
         THEN /\ issued' = issued + 1
              /\ inflight' = inflight \cup {issued + 1}
         ELSE UNCHANGED <<issued, inflight>>
    /\ UNCHANGED <<fields, smoothing>>

\* getFields up to the await: the early return on a falsy argument, then
\* setLoading(Loading) and the query sent.
GetFields(bucket, measurement) ==
    /\ bucket # NoBucket
    /\ measurement # NoMeasurement
    /\ issued < MaxRequests
    /\ loading' = Loading
    /\ issued' = issued + 1
    /\ inflight' = inflight \cup {issued + 1}
    /\ UNCHANGED <<fields, smoothing>>

\* The data of the response's _value column, or [] when there is none.
ValueColumnData(column) == IF column = NoValueColumn THEN InitialFields ELSE column

\* A continuation that forgets setDefaultViewOptions.
QueryResolvedNoViewOptions(id, column) ==
    /\ id \in inflight
    /\ inflight' = inflight \ {id}
    /\ fields' = ValueColumnData(column)
    /\ loading' = Done
    /\ UNCHANGED <<smoothing, issued>>

\* A continuation without the ?? [] fallback: a response without a _value
\* column sets the fields and the view's columns to undefined.
QueryResolvedNoDefault(id, column) ==
    /\ id \in inflight
    /\ inflight' = inflight \ {id}
    /\ fields' = column
    /\ loading' = Done
    /\ smoothing' = column
    /\ UNCHANGED issued

\* The continuation after the await when the query answers: the _value
\* column, or [] when there is none, becomes the fields, loading is Done
\* and the results view gets the same columns.
QueryResolved(id, column) ==
    /\ id \in inflight
    /\ inflight' = inflight \ {id}
    /\ fields' = ValueColumnData(column)
    /\ loading' = Done
    /\ smoothing' = ValueColumnData(column)
    /\ UNCHANGED issued

\* The continuation when the query throws: only loading changes.
QueryFailed(id) ==
    /\ id \in inflight
    /\ inflight' = inflight \ {id}
    /\ loading' = Error
    /\ UNCHANGED <<fields, smoothing, issued>>

\* resetFields: back to INITIAL_FIELDS and NotStarted.  Queries in flight
\* are not cancelled.
ResetFields ==
    /\ fields' = InitialFields
    /\ loading' = NotStarted
    /\ UNCHANGED <<smoothing, inflight, issued>>

Next ==
    \/ \E b \in Buckets \cup {NoBucket}, m \in Measurements \cup {NoMeasurement} :
          GetFields(b, m)
    \/ \E id \in inflight, c \in FieldLists \cup {NoValueColumn} : QueryResolved(id, c)
    \/ \E id \in inflight : QueryFailed(id)
    \/ ResetFields

Spec == Init /\ [][Next]_vars

-----------------------------------------------------------------------------
(***************************************************************************)
(* Properties.                                                             *)
(***************************************************************************)

\* While the provider shows Loading, the most recent query is still awaited,
\* whatever resets and answers came in between: a getFields that returned
\* early on a falsy argument never leaves a spinner that no answer will end.
LoadingAwaitsLatest ==
    loading = Loading => issued \in inflight

\* Whenever the provider reports Done, the results view smooths exactly the
\* columns it shows: no reset, failure or out-of-order answer separates the
\* two (the success path of getFields).
DoneViewMatchesFields ==
    loading = Done => smoothing = fields
=============================================================================
