------------------------------ MODULE MCFields ------------------------------
(* Fields on a small instance: one bucket, one measurement, two non-empty  *)
(* field lists besides INITIAL_FIELDS.                                     *)
EXTENDS Fields

CONSTANTS b1, m1, l0, l1, l2

MCBuckets == {b1}
MCMeasurements == {m1}
MCFieldLists == {l0, l1, l2}
=============================================================================
