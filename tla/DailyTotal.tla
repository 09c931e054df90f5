----------------------------- MODULE DailyTotal -----------------------------
(* daily_reset.py's DailyAccumulator: the sum of a counter's rises since the *)
(* last local midnight.                                                      *)
EXTENDS Integers

CONSTANTS None

VARIABLES
    total,        \* DailyAccumulator.total
    lastSource    \* DailyAccumulator.last_source

dailyVars == <<total, lastSource>>

NewAccumulator == total = 0 /\ lastSource = None

(* Rise if a drop were a step like any other. *)
Rise_Signed(from, to) == to - from

(* A drop is the counter being zeroed and adds nothing. *)
Rise(from, to) == IF to > from THEN to - from ELSE 0

(* update(source) on an accumulator holding `sum` and `last`. *)
Folded(sum, last, source) ==
    CASE source = None -> [total |-> sum, last |-> last]
      [] source # None /\ last = None -> [total |-> sum, last |-> source]
      [] OTHER -> [total |-> sum + Rise(last, source), last |-> source]

Becomes(acc) == total' = acc.total /\ lastSource' = acc.last

Update(source) == Becomes(Folded(total, lastSource, source))

(* The new day keeps last_source, so the step over midnight is measured. *)
Reset == total' = 0 /\ UNCHANGED lastSource

(* Restore if the last raw reading were not stored. *)
Restore_Baseless(sum, last, source) == Becomes(Folded(sum, None, source))

(* Restored from extra data and seeded from the coordinator. *)
Restore(sum, last, source) == Becomes(Folded(sum, last, source))
=============================================================================
