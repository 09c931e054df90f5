----------------------------- MODULE MCScheduleSync -----------------------------
(* Small instances of ScheduleSync. *)
EXTENDS ScheduleSync

(* Close to each other, five minutes apart, and far off; 10 is the drift of *)
(* 9 that still confirms it.                                                *)
MCOffsets == {0, 4, 9}

(* `night` cannot be moved by nine minutes. *)
MCUnfit == {<<"night", 9>>}
=============================================================================
