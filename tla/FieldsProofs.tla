---------------------------- MODULE FieldsProofs ----------------------------
(***************************************************************************)
(* Proofs that the FieldsProvider model keeps its invariants for every     *)
(* set of buckets, measurements and field lists and every request bound.   *)
(***************************************************************************)
EXTENDS Fields, TLAPS

\* The invariants of the provider, which together are inductive.
Inv ==
    /\ TypeOK
    /\ LoadingAwaitsLatest
    /\ DoneViewMatchesFields

LEMMA InitInv == Init => Inv
  BY FieldsAssumption
     DEF Init, Inv, TypeOK, LoadingAwaitsLatest, DoneViewMatchesFields,
         RemoteDataStates, NotStarted, Loading, Done

\* getFields past its early return: Loading, with the new query awaited.
LEMMA GetFieldsInv ==
    ASSUME Inv, NEW b \in Buckets \cup {NoBucket},
           NEW m \in Measurements \cup {NoMeasurement}, GetFields(b, m)
    PROVE  Inv'
  <1>1. issued' = issued + 1 /\ inflight' = inflight \cup {issued + 1}
        /\ loading' = Loading /\ UNCHANGED <<fields, smoothing>>
    BY DEF GetFields
  <1>2. TypeOK'
    BY <1>1, FieldsAssumption DEF Inv, TypeOK, GetFields, RemoteDataStates
  <1>3. LoadingAwaitsLatest'
    BY <1>1 DEF LoadingAwaitsLatest
  <1>4. DoneViewMatchesFields'
    BY <1>1 DEF DoneViewMatchesFields, Loading, Done
  <1>5. QED
    BY <1>2, <1>3, <1>4 DEF Inv

\* An answer makes the view and the fields the same list, under Done.
LEMMA QueryResolvedInv ==
    ASSUME Inv, NEW id \in inflight, NEW c \in FieldLists \cup {NoValueColumn},
           QueryResolved(id, c)
    PROVE  Inv'
  <1> DEFINE v == ValueColumnData(c)
  <1>0. v \in FieldLists
    BY FieldsAssumption DEF ValueColumnData
  <1>1. fields' = v /\ smoothing' = v /\ loading' = Done
        /\ inflight' = inflight \ {id} /\ issued' = issued
    BY DEF QueryResolved
  <1> HIDE DEF v
  <1>2. TypeOK'
    BY <1>0, <1>1 DEF Inv, TypeOK, RemoteDataStates
  <1>3. LoadingAwaitsLatest'
    BY <1>1 DEF LoadingAwaitsLatest, Loading, Done
  <1>4. DoneViewMatchesFields'
    BY <1>1 DEF DoneViewMatchesFields
  <1>5. QED
    BY <1>2, <1>3, <1>4 DEF Inv

\* A failure and a reset leave neither Loading nor Done.
LEMMA QueryFailedInv ==
    ASSUME Inv, NEW id \in inflight, QueryFailed(id)
    PROVE  Inv'
  BY DEF QueryFailed, Inv, TypeOK, RemoteDataStates, LoadingAwaitsLatest,
         DoneViewMatchesFields, Loading, Done, Error

LEMMA ResetFieldsInv ==
    ASSUME Inv, ResetFields
    PROVE  Inv'
  BY FieldsAssumption
     DEF ResetFields, Inv, TypeOK, RemoteDataStates, LoadingAwaitsLatest,
         DoneViewMatchesFields, Loading, Done, NotStarted

LEMMA NextInv == Inv /\ [Next]_vars => Inv'
  <1> SUFFICES ASSUME Inv, [Next]_vars PROVE Inv'
    OBVIOUS
  <1>1. CASE \E b \in Buckets \cup {NoBucket}, m \in Measurements \cup {NoMeasurement} :
                GetFields(b, m)
    BY <1>1, GetFieldsInv
  <1>2. CASE \E id \in inflight, c \in FieldLists \cup {NoValueColumn} :
                QueryResolved(id, c)
    BY <1>2, QueryResolvedInv
  <1>3. CASE \E id \in inflight : QueryFailed(id)
    BY <1>3, QueryFailedInv
  <1>4. CASE ResetFields
    BY <1>4, ResetFieldsInv
  <1>5. CASE UNCHANGED vars
    BY <1>5 DEF vars, Inv, TypeOK, LoadingAwaitsLatest, DoneViewMatchesFields
  <1>6. QED
    BY <1>1, <1>2, <1>3, <1>4, <1>5 DEF Next

\* Whatever the order in which getFields calls, answers, failures and resets
\* arrive, Loading is shown only while the latest query is awaited.
THEOREM LoadingAwaitsLatestHolds == Spec => []LoadingAwaitsLatest
  BY InitInv, NextInv, PTL DEF Spec, Inv

\* Whatever that order, Done is shown only with the results view smoothing
\* exactly the fields shown.
THEOREM DoneViewMatchesFieldsHolds == Spec => []DoneViewMatchesFields
  BY InitInv, NextInv, PTL DEF Spec, Inv

\* The provider's state is always well typed.
THEOREM FieldsTypeCorrect == Spec => []TypeOK
  BY InitInv, NextInv, PTL DEF Spec, Inv
=============================================================================
