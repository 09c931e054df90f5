----------------------------- MODULE ScheduleKeeper -----------------------------
(***************************************************************************)
(* What the real-time schedule promises, with every write atomic: the      *)
(* battery holds the owner's real-time schedule moved by one known offset. *)
(* Once the promise is broken (`trusted` is false) anything may follow.    *)
(***************************************************************************)
EXTENDS Integers

CONSTANTS Empty, None

VARIABLES
    wanted,     \* the schedule the owner was promised, in real time
    held,       \* the schedule on the battery, in its clock's time
    known,      \* the offset between the two, or None
    trusted

vars == <<wanted, held, known, trusted>>

Moved(s, m) == [plan |-> s.plan, at |-> IF s.plan = Empty THEN 0 ELSE s.at + m]

Init == held = wanted /\ known = None /\ trusted = TRUE

(* The owner's schedule replaces the old one, at the times asked for: in    *)
(* real time, or in the battery's when that is how they are entered.        *)
AsAsked == wanted'.at = 0 \/ held'.at = 0

Write ==
    /\ AsAsked /\ known' # None
    /\ held' = Moved(wanted', known')
    /\ UNCHANGED trusted

(* The clock moved: other battery times, the same real times. *)
Follow ==
    /\ known # None /\ known' # None
    /\ held' = Moved(wanted, known')
    /\ UNCHANGED <<wanted, trusted>>

(* First sight of the clock: the promise is what the battery does already. *)
Adopt ==
    /\ known = None /\ known' # None
    /\ wanted' = Moved(held, -known')
    /\ UNCHANGED <<held, trusted>>

(* Without an offset schedules pass unchanged. *)
WritePlain ==
    /\ known = None /\ known' = None
    /\ AsAsked
    /\ UNCHANGED trusted

Break == trusted' = FALSE

Next ==
    \/ Break
    \/ trusted /\ (Write \/ Follow \/ Adopt \/ WritePlain)

Spec == Init /\ [][Next]_vars

=============================================================================
