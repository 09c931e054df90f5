------------------------------ MODULE Readings ------------------------------
(* Two listeners of one telemetry coordinator that must make sense of a      *)
(* battery whose clock nobody adjusts: the clock tracker (ClockOffset) and   *)
(* the local-midnight daily sensor of sensor.py (DailyTotal). The battery,   *)
(* its gateway's periodic reading, time zones, and Home Assistant's stops,   *)
(* crashes and restarts surround them.                                       *)
EXTENDS ClockOffset, DailyTotal

CONSTANTS
    Day,          \* ticks in a day
    MaxAge,       \* how old the gateway's reading of the battery can get
    Skews,        \* battery clock minus UTC
    MaxNow, MaxEnergy, MaxUpsets    \* bounds of a run

(* A counter's reading; all but the count is history. *)
Meter == [count : Nat, energy : Nat, zeroed : Nat]

ASSUME ReadingsAssumption ==
    /\ Day \in Nat \ {0} /\ Window \in Nat /\ MaxAge \in Nat
    /\ MinSamples \in Nat \ {0} /\ MaxOffset \in Nat /\ Skews \subseteq Int
    /\ {MaxNow, MaxEnergy, MaxUpsets} \subseteq Nat
    /\ None \notin Int \cup Meter /\ Unknown \notin Int

VARIABLES
    now,          \* UTC; time.monotonic() advances with it
    zone,         \* local time minus UTC, 1 with daylight saving
    day,          \* local midnights so far
    skew,         \* battery clock minus UTC
    changed,      \* when skew last changed
    upsets,       \* clock steps, gateway reboots, stops and crashes so far
    battery,      \* [count, energy, zeroed]: its counter, and history: all it
                  \* ever metered, and how often the counter was zeroed
    held,         \* the reading the gateway holds
    up,           \* Home Assistant runs with the entry loaded
    due,          \* the local-midnight callback is scheduled and has not run
    saved,        \* the sensor's extra data in Home Assistant's storage
    seen          \* history of the sum: [first, last, day]

worldVars == <<now, zone, day, skew, changed, upsets>>
homeVars == <<up, due, saved, seen>>
vars == <<worldVars, battery, held, homeVars, clockVars, dailyVars>>

(* What the gateway takes from the battery at one moment. *)
ReadingNow == [time |-> now + skew, taken |-> now, meter |-> battery]

(* HomepowerLocalDailySensor._source: the counter, or nothing when the data  *)
(* lack it.                                                                  *)
Source == {held.meter.count, None}

(* History: which readings the sum spans once `source` is folded in. *)
Spanning(span, source) ==
    CASE source = None -> span
      [] source # None /\ span.last = None ->
            [span EXCEPT !.first = held.meter, !.last = held.meter]
      [] OTHER -> [span EXCEPT !.last = held.meter]

NothingSeen(today) == [first |-> None, last |-> None, day |-> today]

Init ==
    /\ now = 0 /\ zone = 1 /\ day = 0
    /\ skew \in Skews /\ changed = 0 /\ upsets = 0
    /\ battery = [count |-> 0, energy |-> 0, zeroed |-> 0]
    /\ held = ReadingNow
    /\ up = FALSE /\ due = FALSE /\ saved = None
    /\ seen = NothingSeen(0)
    /\ NewEstimator /\ NewAccumulator
-----------------------------------------------------------------------------
(* The battery, its clock and the local clock *)

Upset == upsets < MaxUpsets /\ upsets' = upsets + 1

Metered(m) == [count |-> m.count + 1, energy |-> m.energy + 1, zeroed |-> m.zeroed]
Emptied(m) == [count |-> 0, energy |-> m.energy, zeroed |-> m.zeroed + 1]

(* Time passes. The battery zeroes its counter at its own midnight; local     *)
(* midnight schedules the daily reset, if anybody is there to run it. The     *)
(* gateway reads the battery at least every MaxAge.                           *)
Tick ==
    /\ now < MaxNow /\ ~due /\ now - held.taken < MaxAge
    /\ now' = now + 1
    /\ battery' = IF (now + 1 + skew) % Day = 0 THEN Emptied(battery) ELSE battery
    /\ LET midnight == (now + 1 + zone) % Day = 0
       IN /\ day' = IF midnight THEN day + 1 ELSE day
          /\ due' = (midnight /\ up)
    /\ UNCHANGED <<zone, skew, changed, upsets, held, up, saved, seen, clockVars, dailyVars>>

Meters ==
    /\ battery.energy < MaxEnergy
    /\ battery' = Metered(battery)
    /\ UNCHANGED <<worldVars, held, homeVars, clockVars, dailyVars>>

(* A gateway reboot zeroes the counter too. *)
Zeroed ==
    /\ Upset
    /\ battery' = Emptied(battery)
    /\ UNCHANGED <<now, zone, day, skew, changed, held, homeVars, clockVars, dailyVars>>

(* Two readings of the battery are at least a tick apart. *)
GatewayReads ==
    /\ held.taken < now /\ held' = ReadingNow
    /\ UNCHANGED <<worldVars, battery, homeVars, clockVars, dailyVars>>

(* Somebody sets the battery's clock. *)
ClockSet ==
    /\ Upset
    /\ skew' \in Skews \ {skew} /\ changed' = now
    /\ UNCHANGED <<now, zone, day, battery, held, homeVars, clockVars, dailyVars>>

(* Daylight saving starts or ends, in the small hours and never at midnight. *)
ZoneChanges ==
    /\ (now + zone) % Day = IF zone = 0 THEN 1 ELSE 2
    /\ zone' = 1 - zone /\ ~due
    /\ UNCHANGED <<now, day, skew, changed, upsets, battery, held, homeVars, clockVars, dailyVars>>
-----------------------------------------------------------------------------
(* Home Assistant *)

(* The coordinator tells both listeners of the reading it has. *)
Hear(source) ==
    /\ up
    /\ Add(held, now)
    /\ Update(source)
    /\ seen' = Spanning(seen, source)
    /\ UNCHANGED <<worldVars, battery, held, up, due, saved>>

(* _reset_daily at local midnight. *)
Midnight ==
    /\ up /\ due /\ due' = FALSE
    /\ Reset
    /\ seen' = [seen EXCEPT !.first = seen.last, !.day = day]
    /\ UNCHANGED <<worldVars, battery, held, up, saved, clockVars>>

Extra == [total |-> total, last |-> lastSource, seen |-> seen]

(* Home Assistant writes every entity's extra data now and then. *)
Saves ==
    /\ up /\ saved' = Extra
    /\ UNCHANGED <<worldVars, battery, held, up, due, seen, clockVars, dailyVars>>

Gone ==
    /\ up /\ Upset
    /\ up' = FALSE /\ due' = FALSE
    /\ samples' = <<>> /\ lastValue' = Unknown
    /\ total' = 0 /\ lastSource' = None /\ seen' = NothingSeen(day)
    /\ UNCHANGED <<now, zone, day, skew, changed, battery, held>>

(* An unload or a clean stop stores the extra data; a crash does not. *)
Stops == Gone /\ saved' = Extra
Crashes == Gone /\ UNCHANGED saved

(* Setup: a new tracker reads the coordinator, and the sensor restores its    *)
(* sum and seeds it.                                                         *)
Starts(source) ==
    /\ ~up /\ up' = TRUE
    /\ AddFirst(held, now)
    /\ IF saved = None
       THEN Restore(0, None, source) /\ seen' = Spanning(NothingSeen(day), source)
       ELSE Restore(saved.total, saved.last, source) /\ seen' = Spanning(saved.seen, source)
    /\ UNCHANGED <<worldVars, battery, held, due, saved>>

Next ==
    \/ Tick \/ Meters \/ Zeroed \/ GatewayReads \/ ClockSet \/ ZoneChanges
    \/ \E source \in Source : Hear(source) \/ Starts(source)
    \/ Midnight \/ Saves \/ Stops \/ Crashes

Spec == Init /\ [][Next]_vars
-----------------------------------------------------------------------------
Span == [first : Meter \cup {None}, last : Meter \cup {None}, day : Nat]

(* The types of the state; a span has both ends or none, and the code's      *)
(* last_source is the counter of the last reading it spans (daily_reset.py). *)
TypeOK ==
    /\ now \in Nat /\ zone \in {0, 1} /\ day \in Nat /\ skew \in Skews
    /\ changed \in Nat /\ upsets \in Nat
    /\ battery \in Meter
    /\ held \in [time : Int, taken : Nat, meter : Meter]
    /\ up \in BOOLEAN /\ due \in BOOLEAN
    /\ samples \in Seq([at : Nat, value : Int, taken : Nat])
    /\ lastValue \in Int \cup {Unknown}
    /\ total \in Nat /\ lastSource \in Nat \cup {None}
    /\ seen \in Span
    /\ saved \in [total : Nat, last : Nat \cup {None}, seen : Span] \cup {None}

(* An estimate rests on MIN_SAMPLES readings of the battery at different     *)
(* times: a stale reading served again never counts twice, however often the *)
(* battery's clock is set in between (clock.py, add).                        *)
RestsOnReadings ==
    Estimate(now) # Unknown =>
        Cardinality({s.taken : s \in Range(InWindow(now))}) >= MinSamples

FreshSample == \E s \in Range(InWindow(now)) : s.taken = s.at

(* Once the battery's clock has been left alone for the window and the age   *)
(* of a reading, the offset is never ahead of the true one, and with one     *)
(* fresh sample among the stale ones it is exact, in whatever zone Home      *)
(* Assistant is now: a daylight-saving change needs no new samples and a     *)
(* step of the clock is forgotten in time (clock.py, the module's comment).  *)
OffsetIsTrue ==
    now - changed > Window + MaxAge /\ Offset(now, zone) # Unknown =>
        /\ Offset(now, zone) <= skew - zone
        /\ FreshSample => Offset(now, zone) = skew - zone

(* While the day the sum was begun for lasts, it is never more than what the *)
(* battery metered between the readings it spans, and exactly that unless    *)
(* the counter was zeroed between them; through restarts, crashes back to an *)
(* older save and late or missing readings ("a restart neither zeroes the    *)
(* day nor double-counts the step across the gap", sensor.py).               *)
TotalIsTrue ==
    up /\ seen.last # None /\ seen.day = day =>
        /\ total <= seen.last.energy - seen.first.energy
        /\ seen.last.zeroed = seen.first.zeroed => total = seen.last.energy - seen.first.energy
=============================================================================
