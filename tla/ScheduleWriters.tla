----------------------------- MODULE ScheduleWriters -----------------------------
(***************************************************************************)
(* Everything that writes a schedule, over several entries: the            *)
(* set_schedule service, which visits every entry that Home Assistant has  *)
(* loaded while others come and go; the Configure form; and the poll that  *)
(* follows each battery's clock.  Schedules are real windows here, so that *)
(* what the batteries run can be compared with what was asked.             *)
(* One write (publish and note the offset) is one step: ScheduleSync has   *)
(* what can happen inside it.  The service iterates over a dictionary that *)
(* changes under it, so the dictionary is here as CPython keeps it.        *)
(*                                                                         *)
(* A definition named X_Word is X with a plausible mistake: no part of the *)
(* specification, only there to show that the properties notice it.        *)
(***************************************************************************)
EXTENDS Windows

CONSTANTS
    Entries,
    Controlled,     \* the entries with control enabled
    Vendor,         \* schedules a battery may hold at first
    Asks,           \* schedules the service may be called with
    Edits,          \* what may be entered in the form
    Offsets,        \* clock offsets
    MaxEvents,      \* bound: calls, forms, clock changes, loads and faults
    None

ASSUME WritersAssumption ==
    /\ Controlled \subseteq Entries /\ MaxEvents \in Nat
    /\ IsFiniteSet(Entries) /\ None \notin Entries
    /\ Offsets \subseteq Int /\ None \notin Offsets
    /\ Vendor \cup Asks \subseteq Schedules
    /\ \A v \in Vendor, d \in Week : Len(v[d]) <= MaxWindows
    /\ Edits \subseteq Seq([win : Window, on : SUBSET Week])

VARIABLES
    phase,      \* per entry: "out", "in" hass.data while its platforms are
                \* set up, "up", or "leaving" once it is popped
    table,      \* hass.data[DOMAIN]: its entries in the order they were
                \* added, None where one was popped
    battery,    \* per entry: the schedule it holds and its mode
    clock,      \* per entry: its measured offset, or None
    applied,    \* per entry: the offset its schedule was written with, or None
    service,    \* set_schedule is registered
    call,       \* the service call: where it is and what it has to do
    form,       \* the schedule form of one entry
    wanted,     \* ghost: per entry, the minutes it was asked to run
    used,       \* ghost: per entry, the offsets its schedule has been through
    events

vars == <<phase, table, battery, clock, applied, service, call, form, wanted, used, events>>
world == <<phase, table, clock, service>>
ghosts == <<wanted, used>>

(* The iterator's place in the table, how many entries it still expects and *)
(* how many there were; whom the call wrote; and, a ghost, whether a rebuild *)
(* of the table moved entries that were still to come to places before it.  *)
NoCall == [pc |-> "idle", ask |-> Empty, at |-> 1, due |-> 0, size |-> 0,
           wrote |-> {}, moved |-> FALSE]
NoForm == [pc |-> "closed", of |-> None, before |-> <<>>, edited |-> FALSE]

InData(e) == phase[e] \in {"in", "up"}
Loaded == {e \in Entries : InData(e)}
HasControl(e) == InData(e) /\ e \in Controlled

Event == events < MaxEvents /\ events' = events + 1

(* One battery as the vendor's app left it, the others empty; no offset is  *)
(* known to have been applied, and the clocks, set alike, may be unmeasured. *)
Init ==
    /\ phase = [e \in Entries |-> "up"]
    /\ table \in [1..Cardinality(Entries) -> Entries] /\ ToSet(table) = Entries
    /\ \E v \in Vendor, first \in Controlled :
          battery = [e \in Entries |-> [sched |-> IF e = first THEN v ELSE Empty, mode |-> "auto"]]
    /\ \E c \in Offsets \cup {None} : clock = [e \in Entries |-> c]
    /\ applied = [e \in Entries |-> None]
    /\ service = TRUE /\ call = NoCall /\ form = NoForm
    /\ wanted = [e \in Entries |-> {}] /\ used = [e \in Entries |-> {}]
    /\ events = 0

-----------------------------------------------------------------------------
(* ControlCoordinator: to_real, prepare_write, async_written. *)

ToReal(e) ==
    IF applied[e] \in {None, 0} THEN battery[e].sched ELSE Shift(battery[e].sched, -applied[e])

(* The clock is not known yet, or a day would need more than two windows. *)
Prepared(e, real) == Shift(real, clock[e])
Refused(e, real) == clock[e] # None => Crowded(Prepared(e, real)) # {}

(* The frame reaches the battery, the offset is noted. *)
Writes(e, real, mode) ==
    /\ battery' = [battery EXCEPT ![e] = [sched |-> Held(Prepared(e, real)), mode |-> mode]]
    /\ applied' = [applied EXCEPT ![e] = clock[e]]
    /\ wanted' = [wanted EXCEPT ![e] = Covered(real)]
    /\ used' = [used EXCEPT ![e] = {clock[e]}]

(* _follow_clock: adopt on first sight, then re-write when the clock moved, *)
(* unless it does not fit; an empty schedule only has its offset noted.     *)
Adopts(e) ==
    /\ HasControl(e) /\ clock[e] # None /\ applied[e] = None
    /\ applied' = [applied EXCEPT ![e] = clock[e]]
    /\ wanted' = [wanted EXCEPT ![e] = Moved(Covered(battery[e].sched), -clock[e])]
    /\ used' = [used EXCEPT ![e] = {clock[e]}]
    /\ UNCHANGED <<world, battery, call, form, events>>

Rewritten_FromBattery(e) == Shift(battery[e].sched, clock[e])
Rewritten(e) == Shift(ToReal(e), clock[e])

Follows(e) ==
    /\ HasControl(e) /\ clock[e] # None /\ applied[e] \notin {None, clock[e]}
    /\ Crowded(Rewritten(e)) = {}
    /\ battery' = [battery EXCEPT ![e].sched = Held(Rewritten(e))]
    /\ applied' = [applied EXCEPT ![e] = clock[e]]
    /\ used' = [used EXCEPT ![e] = @ \cup {clock[e]}]
    /\ UNCHANGED <<world, wanted, call, form, events>>

ClockReads(e, c) ==
    /\ Event /\ e \in Controlled /\ c # clock[e]
    /\ clock' = [clock EXCEPT ![e] = c]
    /\ UNCHANGED <<phase, table, battery, applied, service, call, form, ghosts>>

-----------------------------------------------------------------------------
(* _set_schedule, a loop with an await at each entry it writes. *)

CallBegins(x) ==
    LET ask == Shift(Held(x), 0)
    IN  /\ call.pc = "idle" /\ service /\ Event
        /\ Crowded(ask) = {}
        /\ call' = [NoCall EXCEPT !.pc = "loop", !.ask = ask]
        /\ UNCHANGED <<world, battery, applied, form, ghosts>>

(* The iterator is made with the first visit, before anything is awaited.   *)
Size == IF call.at = 1 THEN Cardinality(Loaded) ELSE call.size
Due == IF call.at = 1 THEN Cardinality(Loaded) ELSE call.due

(* A dictionary that grew or shrank fails the iteration, and so does an     *)
(* entry that the iterator finds after as many as it expected.              *)
Changed == Cardinality(Loaded) # Size
Ahead == {i \in DOMAIN table : i >= call.at /\ table[i] # None}
Passed(i) == Cardinality({j \in Ahead : j <= i})
TooMany == Cardinality(Ahead) > Due

(* The next entry to write; those without control on the way are passed by. *)
Turn(i) ==
    /\ i \in Ahead /\ table[i] \in Controlled
    /\ \A j \in Ahead : j < i => table[j] \notin Controlled
Visit(i) == call.pc = "loop" /\ ~Changed /\ Turn(i) /\ Passed(i) <= Due
Visited(i) == [call EXCEPT !.at = i + 1, !.due = Due - Passed(i), !.size = Size]

CallWrites(i) ==
    /\ Visit(i) /\ ~Refused(table[i], call.ask)
    /\ Writes(table[i], call.ask, battery[table[i]].mode)
    /\ call' = [Visited(i) EXCEPT !.wrote = @ \cup {table[i]}]
    /\ UNCHANGED <<world, form, events>>

CallFails_GoesOn(i) ==
    /\ Visit(i) /\ Refused(table[i], call.ask)
    /\ call' = Visited(i)
    /\ UNCHANGED <<world, battery, applied, form, ghosts, events>>
CallFails(i) ==
    /\ Visit(i)
    /\ \/ Refused(table[i], call.ask) /\ UNCHANGED events
       \/ Event
    /\ call' = [call EXCEPT !.pc = "error"]
    /\ UNCHANGED <<world, battery, applied, form, ghosts>>

CallEnds ==
    /\ call.pc = "loop" /\ ~\E i \in DOMAIN table : Visit(i)
    /\ call' = [call EXCEPT !.pc = IF Changed \/ TooMany THEN "error" ELSE "ok"]
    /\ UNCHANGED <<world, battery, applied, form, ghosts, events>>

CallReturns ==
    /\ call.pc \in {"ok", "error"} /\ call' = NoCall
    /\ UNCHANGED <<world, battery, applied, form, ghosts, events>>

-----------------------------------------------------------------------------
(* async_step_schedule. *)

FormOpens(e) ==
    /\ form.pc = "closed" /\ Event /\ HasControl(e)
    /\ form' = [pc |-> "open", of |-> e, before |-> ToForm(ToReal(e)), edited |-> FALSE]
    /\ UNCHANGED <<world, battery, applied, call, ghosts>>

(* The form is sent with its windows or others; when it is in order, only   *)
(* windows that differ from those it opened with are written.               *)
Differs_FromBattery(e, f) == FromForm(f) # ToReal(e)
Differs(e, f) == FromForm(f) # FromForm(form.before)

Sent(f, mode) ==
    /\ form.pc = "open" /\ HasControl(form.of)
    /\ FormErrors(f) = {}
    /\ form' = [form EXCEPT !.pc = "sent", !.edited = f # form.before]

SavesMode(f, mode) ==
    /\ Sent(f, mode) /\ ~Differs(form.of, f)
    /\ battery' = [battery EXCEPT ![form.of].mode = mode]
    /\ UNCHANGED <<world, applied, call, ghosts, events>>

SavesSchedule(f, mode) ==
    /\ Sent(f, mode) /\ Differs(form.of, f) /\ ~Refused(form.of, FromForm(f))
    /\ Writes(form.of, FromForm(f), mode)
    /\ UNCHANGED <<world, call, events>>

(* publish_many: the mode frame is sent, the schedule frame is not; the     *)
(* form is shown again.                                                     *)
HalfSaved(f, mode) ==
    /\ form.pc = "open" /\ HasControl(form.of) /\ Event
    /\ FormErrors(f) = {} /\ Differs(form.of, f) /\ ~Refused(form.of, FromForm(f))
    /\ battery' = [battery EXCEPT ![form.of].mode = mode]
    /\ UNCHANGED <<world, applied, call, form, ghosts>>

FormCloses ==
    /\ form.pc # "closed" /\ form' = NoForm
    /\ UNCHANGED <<world, battery, applied, call, ghosts, events>>

-----------------------------------------------------------------------------
(* Entries come and go. *)

Compact == Sublist(table, {i \in DOMAIN table : table[i] # None})
GapBehind == \E i \in DOMAIN table : i < call.at /\ table[i] = None

(* A new entry goes to the end.  Once its table is full the dictionary is   *)
(* rebuilt without the places of popped entries, and a running iterator     *)
(* stays at its place by number; all earlier entries count for how full it  *)
(* is, so any addition may rebuild it.                                      *)
Loads(e) ==
    /\ phase[e] = "out" /\ Event
    /\ phase' = [phase EXCEPT ![e] = "in"]
    /\ \E kept \in {table, Compact} :
          /\ table' = Append(kept, e)
          /\ call' = [call EXCEPT !.moved = @ \/ (call.pc = "loop" /\ kept # table /\ GapBehind)]
    /\ UNCHANGED <<battery, clock, applied, service, form, ghosts>>

SetUp(e) ==
    /\ phase[e] = "in"
    /\ phase' = [phase EXCEPT ![e] = "up"] /\ service' = TRUE
    /\ UNCHANGED <<table, battery, clock, applied, call, form, ghosts, events>>

Popped(e) == [i \in DOMAIN table |-> IF table[i] = e THEN None ELSE table[i]]

(* Its platforms can't be set up.                                           *)
SetupFails(e) ==
    /\ phase[e] = "in" /\ Event
    /\ phase' = [phase EXCEPT ![e] = "out"] /\ table' = Popped(e)
    /\ UNCHANGED <<battery, clock, applied, service, call, form, ghosts>>

Unloads(e) ==
    /\ phase[e] = "up" /\ Event
    /\ phase' = [phase EXCEPT ![e] = "leaving"] /\ table' = Popped(e)
    /\ UNCHANGED <<battery, clock, applied, service, call, form, ghosts>>

(* After the coordinator's shutdown: the service goes with the last entry   *)
(* that has control.                                                        *)
StaysFor_Nobody == {}
StaysFor == {e \in Controlled : InData(e)}

Unloaded(e) ==
    /\ phase[e] = "leaving"
    /\ phase' = [phase EXCEPT ![e] = "out"]
    /\ service' = (service /\ StaysFor # {})
    /\ UNCHANGED <<table, battery, clock, applied, call, form, ghosts, events>>

Next ==
    \/ \E e \in Entries :
          \/ Adopts(e) \/ Follows(e) \/ \E c \in Offsets \cup {None} : ClockReads(e, c)
          \/ FormOpens(e)
          \/ Loads(e) \/ SetUp(e) \/ SetupFails(e) \/ Unloads(e) \/ Unloaded(e)
    \/ \E x \in Asks : CallBegins(x)
    \/ \E i \in DOMAIN table : CallWrites(i) \/ CallFails(i)
    \/ CallEnds \/ CallReturns
    \/ \E f \in Edits \cup {form.before}, mode \in {"auto", "manual"} :
          SavesMode(f, mode) \/ SavesSchedule(f, mode) \/ HalfSaved(f, mode)
    \/ FormCloses

Spec == Init /\ [][Next]_vars

-----------------------------------------------------------------------------

Minutes == 0..DayLen - 1

TypeOK ==
    /\ phase \in [Entries -> {"out", "in", "up", "leaving"}] /\ service \in BOOLEAN
    /\ \A e \in Entries :
          /\ \A d \in Week :
                /\ Len(battery[e].sched[d]) <= MaxWindows
                /\ \A w \in ToSet(battery[e].sched[d]) : w.s \in Minutes /\ w.e \in Minutes
          /\ clock[e] \in Offsets \cup {None} /\ applied[e] \in Offsets \cup {None}
    /\ call.pc \in {"idle", "loop", "ok", "error"} /\ form.pc \in {"closed", "open", "sent"}
    /\ call.wrote \subseteq Entries /\ events \in 0..MaxEvents
    /\ call.at \in Nat \ {0} /\ call.due \in Nat /\ call.size \in Nat /\ call.moved \in BOOLEAN
    /\ table \in Seq(Entries \cup {None})
    /\ \A e \in Entries : InData(e) <=> e \in ToSet(table)

(* In e's real time, the last minute before a midnight of the schedule at   *)
(* an offset it went through: what "until midnight" may add or lose.        *)
BeforeMidnight(e, t) == \E o \in used[e] \cup {0} : (t + o) % DayLen = DayLen - 1
Whole(e, c) == {t \in c : ~BeforeMidnight(e, t[1])}

(* Through any number of clock changes, splits, merges and re-writes each   *)
(* battery runs just the minutes it was last asked to run, at the power     *)
(* asked for, save for the minute before a midnight (timeshift.py:10).      *)
RunsAsAsked ==
    \A e \in Entries : applied[e] # None =>
        Whole(e, Moved(Covered(battery[e].sched), -applied[e])) = Whole(e, wanted[e])

(* A call that returns without an error wrote every entry that has control  *)
(* when it returns, though entries were loaded, unloaded and reloaded       *)
(* between its writes.  The one exception: a dictionary rebuilt under the   *)
(* loop after an entry that it had passed was popped; then it may skip one. *)
NoEntryPassedOver ==
    [][call.pc = "loop" /\ call'.pc = "ok" /\ ~call.moved =>
          {e \in Entries : HasControl(e)} \subseteq call.wrote]_vars

(* The service is there while an entry with control is set up: no other     *)
(* entry's unload takes it away, whichever of them is still on its way.     *)
ServiceWhenControlled == (\E e \in Controlled : phase[e] = "up") => service

(* config_flow.py:472: a form sent with its windows as they were never      *)
(* replaces a schedule, not even one that it can't show exactly.            *)
ModeAloneKeepsSchedule ==
    [][form.pc = "open" /\ form'.pc = "sent" /\ ~form'.edited =>
          \A e \in Entries : battery'[e].sched = battery[e].sched]_vars

=============================================================================
