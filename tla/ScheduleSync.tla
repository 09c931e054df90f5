------------------------------ MODULE ScheduleSync ------------------------------
(***************************************************************************)
(* The weekly schedule kept on real time: ControlCoordinator's schedule    *)
(* half, the set_schedule service and the schedule form, the battery, the  *)
(* persisted offset, and the restarts and settings changes between them.   *)
(*                                                                         *)
(* A schedule is a plan moved by some minutes: [plan, at].  The battery    *)
(* holds it in its own clock's time, people see it in real time, and       *)
(* shifting adds to `at` (the module Windows covers the shift itself).     *)
(*                                                                         *)
(* A definition named X_Word is X with a plausible mistake: no part of the *)
(* specification, only there to show that the properties notice it.        *)
(*                                                                         *)
(* One action stands for the code between two awaits.  A publish is three: *)
(* it is handed to the executor, the frame reaches the battery (or does    *)
(* not: QoS 0), and the event loop resumes the caller.                     *)
(***************************************************************************)
EXTENDS Integers

CONSTANTS
    Plans,          \* what the owner may ask for; Empty is the empty schedule
    Empty,
    Writers,        \* the callers of set_schedule and the schedule form
    Poller,         \* the coordinator's poll
    Offsets,        \* the minutes the clock tracker may answer
    Unfit,          \* <<plan, at>> that need a third window on some day
    RewriteMinutes, \* CLOCK_REWRITE_MINUTES
    FaultKinds,     \* which of "lost", "refused", "crash", "settings" may happen
    MaxReadings,    \* bound: changes of the tracker's answer
    MaxAsks,        \* bound: schedules asked for
    MaxFaults,      \* bound: faults
    None            \* no value

ASSUME ConstantsAssumption ==
    /\ Empty \in Plans
    /\ Poller \notin Writers
    /\ Offsets \subseteq Int
    /\ RewriteMinutes \in Nat
    /\ None \notin Int
    /\ None \notin [plan : Plans, at : Int]
    /\ MaxReadings \in Nat /\ MaxAsks \in Nat /\ MaxFaults \in Nat

Procs == Writers \cup {Poller}

(* The empty schedule has no times, so every shift leaves it alone. *)
Schedules == {s \in [plan : Plans, at : Int] : s.plan = Empty => s.at = 0}

Shift_Blind(s, m) == [plan |-> s.plan, at |-> s.at + m]
Shift(s, m) == [plan |-> s.plan, at |-> IF s.plan = Empty THEN 0 ELSE s.at + m]
Fits(s) == <<s.plan, s.at>> \notin Unfit

Within(a, b, d) == a - b < d /\ b - a < d

VARIABLES
    battery,    \* the schedule the battery holds, in its clock's time
    store,      \* the offset in the .storage file, or None
    realtime,   \* the "keep the schedule on real time" option
    offset,     \* what ClockTracker.offset() would answer now, or None
    applied,    \* ControlCoordinator.applied
    pending,    \* ControlCoordinator._pending
    data,       \* the schedule keys of ControlCoordinator.data, or None
    poll,       \* the poll up to the clock check
    job,        \* per process, a publish and the save that follows it
    wanted,     \* ghost: the real-time schedule the owner was promised
    fresh,      \* ghost: no writer's frame arrived since the poll read
    seen,       \* ghost: the offset the previous clock check saw
    upset,      \* ghost: the events after which the promise is off
    readings, asks, faults      \* bounded counters

plant == <<battery, store>>
ghosts == <<wanted, fresh, seen, upset>>
counters == <<readings, asks, faults>>
vars == <<battery, store, realtime, offset, applied, pending, data, poll, job,
          ghosts, counters>>

-----------------------------------------------------------------------------

NoPoll == [pc |-> "idle", snap |-> None, raw |-> None]
NoJob == [pc |-> "idle", frame |-> None, off |-> None]
ConfigOnly == [sched |-> None, real |-> None]     \* data without a schedule

Maybe == Schedules \cup {None}
Views == [sched : Maybe, real : Maybe] \cup {None}

At(p, where) == job[p].pc = where
Landed == {p \in Procs : At(p, "sent")}           \* at the battery, not yet noted

(* to_real; `a` is the offset applied at that moment. *)
ToReal_WrongWay(s, a) == IF ~realtime \/ a = None THEN s ELSE Shift(s, a)
ToReal(s, a) == IF ~realtime \/ a = None THEN s ELSE Shift(s, -a)
View(s, a) == [sched |-> s, real |-> ToReal(s, a)]

Init ==
    /\ \E p \in Plans : battery = [plan |-> p, at |-> 0]
    /\ store = None /\ applied = None /\ pending = None /\ data = None
    /\ realtime = TRUE
    /\ offset \in Offsets \cup {None}
    /\ poll = NoPoll
    /\ job = [p \in Procs |-> NoJob]
    /\ wanted = battery /\ fresh = FALSE /\ seen = None /\ upset = {}
    /\ readings = 0 /\ asks = 0 /\ faults = 0

-----------------------------------------------------------------------------
(* The poll: _async_update_data and _follow_clock. *)

(* The config registers are in and `state` is a copy of `data`.  (A failed  *)
(* config read ends the poll with nothing changed.)                         *)
PollBegins ==
    /\ poll.pc = "idle"
    /\ poll' = [pc |-> "reading", snap |-> data, raw |-> None]
    /\ UNCHANGED <<plant, realtime, offset, applied, pending, data, job, ghosts, counters>>

(* No usable reply: the copy is published with the schedule it had. *)
PollReadFails ==
    /\ poll.pc = "reading"
    /\ data' = IF poll.snap = None THEN ConfigOnly ELSE poll.snap
    /\ poll' = NoPoll
    /\ UNCHANGED <<plant, realtime, offset, applied, pending, job, ghosts, counters>>

(* The battery answers; the reply now waits for the event loop. *)
BatteryAnswers ==
    /\ poll.pc = "reading"
    /\ poll' = [pc |-> "read", snap |-> None, raw |-> battery]
    /\ fresh' = TRUE
    /\ UNCHANGED <<plant, realtime, offset, applied, pending, data, job,
                   wanted, seen, upset, counters>>

(* The reply is in, the poll's coroutine resumes with the clock check. *)
Resumes == poll.pc = "read" /\ At(Poller, "idle")

(* The clock check saw this offset. *)
Sees == seen' = IF realtime THEN offset ELSE seen

EndPoll(s) ==
    /\ poll' = NoPoll
    /\ data' = View(s, applied')

Moved ==
    /\ realtime /\ offset # None /\ applied # None
    /\ ~Within(offset, applied, RewriteMinutes)
Confirmed_Strict == pending # None /\ Within(pending, offset, 0)
Confirmed == pending # None /\ Within(pending, offset, 2)

(* Nothing to do: no offset, or one close to the one applied. *)
KeptPending_Stale == pending
KeptPending == IF realtime THEN None ELSE pending

PollKeeps ==
    /\ Resumes
    /\ \/ ~realtime
       \/ offset = None
       \/ applied # None /\ ~Moved
    /\ pending' = KeptPending
    /\ UNCHANGED applied
    /\ EndPoll(poll.raw)
    /\ Sees
    /\ UNCHANGED <<plant, realtime, offset, job, wanted, fresh, upset, counters>>

(* First run: adopt the offset, never write.  What the owner is promised is *)
(* the real time at which the stored schedule runs.                         *)
PollAdopts ==
    /\ Resumes
    /\ realtime /\ offset # None /\ applied = None
    /\ applied' = offset
    /\ job' = [job EXCEPT ![Poller] = [pc |-> "saving", frame |-> None, off |-> offset]]
    /\ wanted' = IF Landed = {} THEN Shift(battery, -offset) ELSE wanted
    /\ Sees
    /\ UNCHANGED <<plant, realtime, offset, pending, data, poll, fresh, upset, counters>>

(* The first poll that sees the move only remembers it. *)
PollNotesMove ==
    /\ Resumes
    /\ Moved /\ ~Confirmed
    /\ pending' = offset
    /\ UNCHANGED applied
    /\ EndPoll(poll.raw)
    /\ Sees
    /\ UNCHANGED <<plant, realtime, offset, job, wanted, fresh, upset, counters>>

(* Acting on a reply that a writer's frame has overtaken, or between that   *)
(* frame's arrival and the note of its offset.                              *)
Overtaken == IF ~fresh \/ Landed # {} THEN {"stale"} ELSE {}

(* The second one acts.  An empty schedule: only the offset is saved. *)
PollSavesMove ==
    /\ Resumes
    /\ Moved /\ Confirmed /\ poll.raw.plan = Empty
    /\ pending' = None /\ applied' = offset
    /\ job' = [job EXCEPT ![Poller] = [pc |-> "saving", frame |-> None, off |-> offset]]
    /\ upset' = upset \cup Overtaken
    /\ Sees
    /\ UNCHANGED <<plant, realtime, offset, data, poll, wanted, fresh, counters>>

Rewritten_Unread == Shift(poll.raw, offset)
Rewritten == Shift(ToReal(poll.raw, applied), offset)

(* The schedule cannot be moved: the owner is told, nothing is written. *)
PollRefuses ==
    /\ Resumes
    /\ Moved /\ Confirmed /\ poll.raw.plan # Empty /\ ~Fits(Rewritten)
    /\ pending' = None /\ UNCHANGED applied
    /\ EndPoll(poll.raw)
    /\ Sees
    /\ UNCHANGED <<plant, realtime, offset, job, wanted, fresh, upset, counters>>

PollRewrites ==
    /\ Resumes
    /\ Moved /\ Confirmed /\ poll.raw.plan # Empty /\ Fits(Rewritten)
    /\ pending' = None
    /\ job' = [job EXCEPT ![Poller] =
                  [pc |-> "publishing", frame |-> Rewritten, off |-> offset]]
    /\ upset' = upset \cup Overtaken
    /\ Sees
    /\ UNCHANGED <<plant, realtime, offset, applied, data, poll, wanted, fresh, counters>>

(* The rewrite's publish returned: the new offset is noted, then saved. *)
PollPublished ==
    /\ At(Poller, "sent")
    /\ applied' = job[Poller].off
    /\ job' = [job EXCEPT ![Poller].pc = "saving"]
    /\ UNCHANGED <<plant, realtime, offset, pending, data, poll, ghosts, counters>>

(* Store.async_save writes the latest offset it was given. *)
PollSaved ==
    /\ At(Poller, "saving")
    /\ store' = applied
    /\ UNCHANGED applied
    /\ EndPoll(IF job[Poller].frame = None THEN poll.raw ELSE job[Poller].frame)
    /\ job' = [job EXCEPT ![Poller] = NoJob]
    /\ UNCHANGED <<battery, realtime, offset, pending, ghosts, counters>>

-----------------------------------------------------------------------------
(* The owner: prepare_write, publish and async_written. *)

(* prepare_write refuses without an offset or when the result does not fit; *)
(* a refused request changes nothing.                                       *)
UsedOffset == IF realtime THEN offset ELSE 0

Prepared_Unshifted(p) == [plan |-> p, at |-> 0]
Prepared(p) == Shift([plan |-> p, at |-> 0], UsedOffset)

WriteAsked(w, p) ==
    /\ At(w, "idle") /\ asks < MaxAsks
    /\ realtime => offset # None /\ Fits(Prepared(p))
    /\ job' = [job EXCEPT ![w] =
                  [pc |-> "publishing", frame |-> Prepared(p), off |-> UsedOffset]]
    /\ asks' = asks + 1
    /\ UNCHANGED <<plant, realtime, offset, applied, pending, data, poll, ghosts,
                   readings, faults>>

Optimistic(w) == data' = IF data = None THEN None ELSE View(job[w].frame, applied')

WritePublished_Unsaved(w) ==
    /\ At(w, "sent")
    /\ applied' = IF realtime THEN job[w].off ELSE applied
    /\ job' = [job EXCEPT ![w] = NoJob]
    /\ Optimistic(w)
    /\ UNCHANGED <<plant, realtime, offset, pending, poll, ghosts, counters>>

(* async_written: the offset is saved only in real time and only if it differs. *)
WritePublished(w) ==
    /\ At(w, "sent")
    /\ IF realtime /\ job[w].off # applied
       THEN /\ applied' = job[w].off
            /\ job' = [job EXCEPT ![w].pc = "saving"]
            /\ UNCHANGED data
       ELSE /\ UNCHANGED applied
            /\ job' = [job EXCEPT ![w] = NoJob]
            /\ Optimistic(w)
    /\ UNCHANGED <<plant, realtime, offset, pending, poll, ghosts, counters>>

WriteSaved(w) ==
    /\ At(w, "saving")
    /\ store' = applied
    /\ UNCHANGED applied
    /\ Optimistic(w)
    /\ job' = [job EXCEPT ![w] = NoJob]
    /\ UNCHANGED <<battery, realtime, offset, pending, poll, ghosts, counters>>

-----------------------------------------------------------------------------
(* The wire and the surroundings. *)

Fault(kind) ==
    /\ kind \in FaultKinds /\ faults < MaxFaults
    /\ faults' = faults + 1

(* What the owner is promised once this process's frame is out.  With the   *)
(* option off times are the battery's own: the promise is the real times    *)
(* they mean by the measured offset, or else by the one on file.            *)
Measured ==
    CASE offset # None -> offset
      [] offset = None /\ applied # None -> applied
      [] offset = None /\ applied = None -> 0

Promise(p) ==
    wanted' = CASE p = Poller -> wanted
                [] p # Poller /\ realtime -> [plan |-> job[p].frame.plan, at |-> 0]
                [] p # Poller /\ ~realtime -> Shift(job[p].frame, -Measured)

Lands(p) ==
    /\ At(p, "publishing")
    /\ battery' = job[p].frame
    /\ job' = [job EXCEPT ![p].pc = "sent"]
    /\ Promise(p)
    /\ fresh' = (fresh /\ p = Poller)
    /\ upset' = upset
         \cup (IF \E q \in Landed : job[q].off # job[p].off THEN {"mixed"} ELSE {})
         \cup (IF p = Poller /\ ~fresh THEN {"stale"} ELSE {})
         \cup (IF ~realtime /\ applied \notin {None, Measured} THEN {"settings"} ELSE {})
    /\ UNCHANGED <<store, realtime, offset, applied, pending, data, poll, seen, counters>>

(* QoS 0: publish returns although the frame never arrived. *)
Lost(p) ==
    /\ At(p, "publishing")
    /\ Fault("lost")
    /\ job' = [job EXCEPT ![p].pc = "sent"]
    /\ Promise(p)
    /\ upset' = upset \cup {"lost"}
    /\ UNCHANGED <<plant, realtime, offset, applied, pending, data, poll, fresh, seen,
                   readings, asks>>

(* publish raises OSError: the owner is told; the poll keeps the old one. *)
Refused(p) ==
    /\ At(p, "publishing")
    /\ Fault("refused")
    /\ job' = [job EXCEPT ![p] = NoJob]
    /\ UNCHANGED applied
    /\ IF p = Poller THEN EndPoll(poll.raw) ELSE UNCHANGED <<poll, data>>
    /\ UNCHANGED <<plant, realtime, offset, pending, ghosts, readings, asks>>

(* The tracker's answer changes: daylight saving, drift, an odd reading. *)
ClockReads(o) ==
    /\ readings < MaxReadings /\ o # offset
    /\ offset' = o
    /\ readings' = readings + 1
    /\ UNCHANGED <<plant, realtime, applied, pending, data, poll, job, ghosts, asks, faults>>

(* A new ControlCoordinator and ClockTracker; async_load reads the file. *)
Restarted ==
    /\ applied' = store
    /\ pending' = None /\ data' = None /\ offset' = None /\ seen' = None
    /\ poll' = NoPoll /\ fresh' = FALSE
    /\ job' = [p \in Procs |-> NoJob]
    /\ UNCHANGED <<plant, wanted, readings, asks>>

(* Home Assistant stops anywhere.  After a frame arrived and before its     *)
(* offset is on disk, the two no longer belong together.                    *)
Crash ==
    /\ Fault("crash")
    /\ Restarted
    /\ upset' = upset \cup
         (IF \E p \in Procs : At(p, "sent") \/ At(p, "saving") THEN {"crash"} ELSE {})
    /\ UNCHANGED realtime

(* The option is changed and the entry reloads, with nothing in flight. *)
SettingsChanged ==
    /\ Fault("settings")
    /\ poll.pc = "idle" /\ \A p \in Procs : At(p, "idle")
    /\ realtime' = ~realtime
    /\ Restarted
    /\ UNCHANGED upset

-----------------------------------------------------------------------------

ClockCheck ==
    PollKeeps \/ PollAdopts \/ PollNotesMove \/ PollSavesMove \/ PollRefuses \/ PollRewrites

Next ==
    \/ PollBegins \/ PollReadFails \/ BatteryAnswers
    \/ ClockCheck
    \/ PollPublished \/ PollSaved
    \/ \E w \in Writers :
          (\E p \in Plans : WriteAsked(w, p)) \/ WritePublished(w) \/ WriteSaved(w)
    \/ \E p \in Procs : Lands(p) \/ Lost(p) \/ Refused(p)
    \/ \E o \in Offsets \cup {None} : ClockReads(o)
    \/ Crash \/ SettingsChanged

Spec == Init /\ [][Next]_vars

(* Polls repeat on a timer, coroutines resume, sockets time out, and a      *)
(* battery asked again and again answers some day.                          *)
Fairness ==
    /\ WF_vars(PollBegins)
    /\ SF_vars(BatteryAnswers)
    /\ WF_vars(ClockCheck)
    /\ WF_vars(PollPublished) /\ WF_vars(PollSaved)
    /\ \A w \in Writers : WF_vars(WritePublished(w)) /\ WF_vars(WriteSaved(w))
    /\ \A p \in Procs : WF_vars(Lands(p))

FairSpec == Spec /\ Fairness

-----------------------------------------------------------------------------

TypeOK ==
    /\ battery \in Schedules /\ wanted \in Schedules
    /\ store \in Int \cup {None} /\ applied \in Int \cup {None}
    /\ pending \in Int \cup {None} /\ seen \in Int \cup {None}
    /\ offset \in Offsets \cup {None}
    /\ realtime \in BOOLEAN /\ fresh \in BOOLEAN
    /\ data \in Views
    /\ poll \in [pc : {"idle", "reading", "read"}, snap : Views, raw : Maybe]
    /\ poll.pc = "read" => poll.raw # None
    /\ job \in [Procs -> [pc : {"idle", "publishing", "sent", "saving"},
                         frame : Maybe, off : Int \cup {None}]]
    /\ \A p \in Procs :
          /\ ~At(p, "idle") => job[p].off # None
          /\ At(p, "publishing") \/ At(p, "sent") => job[p].frame # None
          /\ p # Poller /\ At(p, "saving") => job[p].frame # None
    /\ upset \subseteq {"mixed", "stale", "settings", "lost", "crash"}

(* `applied` is the offset the stored schedule was written with             *)
(* (control_coordinator.py:12): shifting the promised real-time schedule by *)
(* it gives what the battery holds, whichever way polls, owners, refusals   *)
(* and restarts interleave, unless one of the `upset` events happened.      *)
AppliedIsWrittenWith ==
    upset = {} /\ applied # None /\ (realtime => Landed = {})
        => battery = Shift(wanted, applied)

(* What a restart would load is as good: once every save has ended, the     *)
(* file's offset belongs to the schedule on the battery.                    *)
FileBelongsToBattery ==
    upset = {} /\ store # None /\ (\A p \in Procs : ~At(p, "sent") /\ ~At(p, "saving"))
        => battery = Shift(wanted, store)

(* "Needs the same new offset on two polls in a row, so one odd reading     *)
(* never triggers a write": when the poll acts on a known offset, the check *)
(* right before this one saw the same move.                                 *)
ActsOnSecondSight ==
    [][At(Poller, "idle") /\ ~At(Poller, "idle")' /\ applied # None
          => seen # None /\ Within(seen, offset, 2)]_vars

(* When the clock settles, so does the schedule: in the end the applied     *)
(* offset is within CLOCK_REWRITE_MINUTES of the measured one, or moving    *)
(* the schedule would need a third window.                                  *)
CannotMove == battery.plan # Empty /\ ~Fits(Shift(ToReal(battery, applied), offset))

SettlesOnClock ==
    <>[](realtime /\ offset # None
            => applied # None /\ (Within(offset, applied, RewriteMinutes) \/ CannotMove))

(* However stale the replies and optimistic updates on the way, in the end  *)
(* the entities show what the battery holds, and in real time what the      *)
(* owner was promised.                                                      *)
ShowsPromise ==
    <>[](/\ data # None /\ data.sched = battery
         /\ upset = {} /\ realtime /\ applied # None => data.real = wanted)

(* The offset that belongs to the battery's schedule: a frame that arrived  *)
(* counts before its writer has noted the offset.                           *)
Known ==
    IF realtime /\ Landed # {} THEN job[CHOOSE p \in Landed : TRUE].off ELSE applied

(* While nothing upsets it, the whole machinery is one atomic keeper. *)
Keeper == INSTANCE ScheduleKeeper
              WITH held <- battery, known <- Known, trusted <- (upset = {})
KeepsSchedule == Keeper!Spec

-----------------------------------------------------------------------------
(* What the docs say without exceptions, at moments when nothing is in flight. *)

Quiet == \A p \in Procs : At(p, "idle")

(* examples/schedules.md:41-42, after a change of the clock "it re-writes   *)
(* the schedule so it keeps running at the same real times".                *)
KeepsRealTimes ==
    Quiet /\ realtime /\ applied # None => battery = Shift(wanted, applied)

(* control_coordinator.py:12-13, "`applied` is the offset the stored        *)
(* schedule was written with (persisted)": read back through it, the        *)
(* schedule shows the real times at which it was set to run.                *)
ReadsBackAsRun ==
    Quiet /\ realtime /\ applied # None => ToReal(battery, applied) = wanted

(* services.yaml and the form: a schedule the owner set stays until the     *)
(* owner sets another.                                                      *)
OwnersPlanStays == Quiet => battery.plan = wanted.plan

=============================================================================
