---------------------------- MODULE ClockOffset ----------------------------
(* clock.py's OffsetEstimator behind clock_tracker.py: what the device times *)
(* of the readings say of the battery's clock. Times are whole ticks; a      *)
(* sample also keeps `taken`, the moment its reading was taken, which is     *)
(* history for the properties and decides nothing.                           *)
EXTENDS Integers, SequencesExt

CONSTANTS
    Window,       \* WINDOW_SECONDS
    MinSamples,   \* MIN_SAMPLES
    MaxOffset,    \* MAX_OFFSET_MINUTES
    Unknown       \* no estimate yet

VARIABLES
    samples,      \* OffsetEstimator._samples, oldest first
    lastValue     \* OffsetEstimator._last_value

clockVars == <<samples, lastValue>>

NewEstimator == samples = <<>> /\ lastValue = Unknown

(* _trim pops from the left up to the oldest sample in the window. *)
Trimmed(list, now) ==
    LET recent == {i \in DOMAIN list : now - list[i].at <= Window}
    IN  IF recent = {} THEN <<>> ELSE SubSeq(list, Min(recent), Len(list))

(* IsRepeat if every reading counted. *)
IsRepeat_Never(time) == FALSE

(* A repeat of the last device time is the same reading served again. *)
IsRepeat(time) == time = lastValue

Sample(reading, now) == [at |-> now, value |-> reading.time - now, taken |-> reading.taken]

(* OffsetEstimator.add; data without a usable device time adds nothing. *)
Add(reading, now) ==
    IF IsRepeat(reading.time) THEN UNCHANGED clockVars
    ELSE /\ lastValue' = reading.time
         /\ samples' = Trimmed(Append(samples, Sample(reading, now)), now)

(* A new tracker, whose constructor reads what the coordinator holds. *)
AddFirst(reading, now) == lastValue' = reading.time /\ samples' = <<Sample(reading, now)>>

(* InWindow if old samples were only dropped when one is added. *)
InWindow_Kept(now) == samples

InWindow(now) == Trimmed(samples, now)

(* estimate: the freshest sample is the largest. *)
Estimate(now) ==
    IF Len(InWindow(now)) < MinSamples THEN Unknown
    ELSE Max({s.value : s \in Range(InWindow(now))})

(* ClockTracker.offset: against local time, or nothing for a clock nobody set. *)
Offset(now, zone) ==
    IF Estimate(now) = Unknown THEN Unknown
    ELSE LET minutes == Estimate(now) - zone
         IN IF minutes <= MaxOffset /\ -minutes <= MaxOffset THEN minutes ELSE Unknown
=============================================================================
