---------------------------- MODULE MCEntryTelemetry ----------------------------
(* Small instances of EntryTelemetry. *)
EXTENDS EntryTelemetry
=============================================================================
