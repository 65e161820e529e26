--------------------------- MODULE MCComposition ---------------------------
(* Composition on the names of the spec's scenarios and a few more: two   *)
(* fields, the unset and one measurement, one dbrp, and tag entries with   *)
(* a repeated key and a multi-value entry, up to three of them, so that    *)
(* grouping merges and reorders entries.                                   *)
EXTENDS Composition

MCFieldNames == {"usage", "idle"}
MCMeasurements == {"", "cpu"}
MCDbrps == {[database |-> "telegraf", retention_policy |-> "autogen"]}
MCTagValues ==
    {[key |-> "host", values |-> <<"server01">>],
     [key |-> "host", values |-> <<"a", "b">>],
     [key |-> "region", values |-> <<"eu">>]}
=============================================================================
