---------------------------- MODULE MCConnection ----------------------------
(***************************************************************************)
(* A small instance of the ConnectionManager model for TLC: one field, one *)
(* measurement, one dbrp and one tag value (so the composition has 1, 2, 3 *)
(* or 4 lines), two time ranges, and an editor of at most five lines.      *)
(***************************************************************************)
EXTENDS ConnectionRefinement

CONSTANTS f1, m1, d1, t1, r1, r2

MCFields == {f1}
MCMeasurements == {m1}
MCDatabases == {d1}
MCTagValues == {t1}
MCTimeRanges == {r1, r2}

=============================================================================
