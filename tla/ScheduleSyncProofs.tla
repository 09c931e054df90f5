--------------------------- MODULE ScheduleSyncProofs ---------------------------
(***************************************************************************)
(* Proofs about ScheduleSync, for every set of plans, writers and offsets  *)
(* and without its bounds on readings, requests and faults playing a part. *)
(***************************************************************************)
EXTENDS ScheduleSync, TLAPS

(* What the offset argument needs about the process states. *)
Order ==
    /\ ~At(Poller, "idle") => poll.pc = "read" /\ realtime
    /\ (\A p \in Procs : ~At(p, "saving")) => store = applied
    /\ pending # None => pending = seen /\ applied # None

(* What is in flight: a rewrite only with a known offset, and the owner's   *)
(* frames at the times asked for.                                           *)
InFlight ==
    /\ At(Poller, "publishing") => applied # None
    /\ \A w \in Writers : At(w, "publishing") =>
          IF realtime THEN Shift(job[w].frame, -job[w].off).at = 0
                      ELSE job[w].frame.at = 0

(* The offsets and the schedules belong together. *)
Agreement ==
    /\ \A p, q \in Landed : job[p].off = job[q].off
    /\ \A p \in Landed : realtime => battery = Shift(wanted, job[p].off)
    /\ applied # None /\ (realtime => Landed = {}) => battery = Shift(wanted, applied)
    /\ At(Poller, "publishing") /\ fresh
          => job[Poller].frame = Shift(wanted, job[Poller].off)
    /\ Resumes /\ fresh => poll.raw = battery

IInv == TypeOK /\ Order /\ InFlight /\ (upset = {} => Agreement)

-----------------------------------------------------------------------------
(* Shifting. *)

(* A shifted schedule is a schedule. *)
LEMMA ShiftType ==
    ASSUME NEW s \in Schedules, NEW m \in Int
    PROVE  Shift(s, m) \in Schedules
  BY DEF Schedules, Shift

(* Shifting back and forth ends where it began. *)
LEMMA ShiftBack ==
    ASSUME NEW s \in Schedules, NEW m \in Int
    PROVE  /\ Shift(Shift(s, -m), m) = s
           /\ Shift(Shift(s, m), -m) = s
  BY DEF Schedules, Shift

(* Only the empty schedule shifts to the empty one, and it stays put. *)
LEMMA ShiftEmpty ==
    ASSUME NEW s \in Schedules, NEW m \in Int, Shift(s, m).plan = Empty
    PROVE  \A n : Shift(s, n) = s
  BY DEF Schedules, Shift

-----------------------------------------------------------------------------
(* Type correctness. *)

(* A schedule shown, shifted by any offset, is a schedule again. *)
LEMMA ViewType ==
    ASSUME TypeOK, NEW s \in Schedules, NEW a \in Int \cup {None}
    PROVE  View(s, a) \in Views /\ ToReal(s, a) \in Schedules
  <1>1. a # None => Shift(s, -a) \in Schedules
    BY ShiftType
  <1> QED
    BY <1>1 DEF View, Views, Maybe, ToReal

(* The initial states have the right types. *)
LEMMA TypeInit == Init => TypeOK
  <1> SUFFICES ASSUME Init PROVE TypeOK
    OBVIOUS
  <1> USE ConstantsAssumption
  <1>1. battery \in Schedules /\ wanted \in Schedules
    BY DEF Init, Schedules
  <1>2. data \in Views /\ poll \in [pc : {"idle", "reading", "read"}, snap : Views, raw : Maybe]
    BY DEF Init, Views, Maybe, NoPoll
  <1>3. job \in [Procs -> [pc : {"idle", "publishing", "sent", "saving"},
                           frame : Maybe, off : Int \cup {None}]]
    BY DEF Init, Maybe, NoJob
  <1>4. \A p \in Procs : At(p, "idle")
    BY DEF Init, NoJob, At
  <1>5. poll.pc = "idle"
    BY DEF Init, NoPoll
  <1> QED
    BY <1>1, <1>2, <1>3, <1>4, <1>5 DEF Init, TypeOK, At

(* The pieces of a process's record that an action touches keep their types. *)
LEMMA TypeStep == TypeOK /\ Order /\ [Next]_vars => TypeOK'
  <1> SUFFICES ASSUME TypeOK, Order, [Next]_vars PROVE TypeOK'
    OBVIOUS
  <1> USE ConstantsAssumption
  <1>0. battery # None /\ Schedules \subseteq Maybe
    BY DEF TypeOK, Schedules, Maybe
  <1>1. CASE PollBegins
    BY <1>1 DEF TypeOK, PollBegins, plant, ghosts, counters, Maybe, Views, At
  <1>2. CASE PollReadFails
    BY <1>2 DEF TypeOK, PollReadFails, plant, ghosts, counters, Maybe, Views, At, NoPoll, ConfigOnly
  <1>3. CASE BatteryAnswers
    BY <1>3, <1>0 DEF TypeOK, BatteryAnswers, plant, counters, Maybe, Views, At
  <1>4. /\ poll.pc = "read" => poll.raw \in Schedules
        /\ offset \in Int \cup {None} /\ applied \in Int \cup {None}
    BY DEF TypeOK, Maybe
  <1>5. ASSUME NEW s \in Schedules, EndPoll(s), applied' \in Int \cup {None}
        PROVE  data' \in Views /\ poll' = NoPoll
    BY <1>5, ViewType DEF EndPoll
  <1>6. CASE PollKeeps
    <2>1. data' \in Views /\ poll' = NoPoll
      BY <1>6, <1>4, <1>5 DEF PollKeeps, Resumes
    <2> QED
      BY <1>6, <2>1, <1>4
      DEF TypeOK, PollKeeps, KeptPending, Sees, plant, counters, NoPoll, Maybe, Views, At
  <1>7. CASE PollAdopts
    <2>1. wanted' \in Schedules
      BY <1>7, <1>4, ShiftType DEF PollAdopts, TypeOK
    <2> QED
      BY <1>7, <2>1, <1>4
      DEF TypeOK, PollAdopts, Sees, plant, counters, Maybe, At, Procs, Resumes
  <1>8. CASE PollNotesMove
    <2>1. data' \in Views /\ poll' = NoPoll
      BY <1>8, <1>4, <1>5 DEF PollNotesMove, Resumes
    <2> QED
      BY <1>8, <2>1, <1>4
      DEF TypeOK, PollNotesMove, Sees, plant, counters, NoPoll, Maybe, Views, At
  <1>9. CASE PollSavesMove
    BY <1>9, <1>4
    DEF TypeOK, PollSavesMove, Sees, plant, counters, Maybe, At, Procs, Resumes, Overtaken, Moved
  <1>10. CASE PollRefuses
    <2>1. data' \in Views /\ poll' = NoPoll
      BY <1>10, <1>4, <1>5 DEF PollRefuses, Resumes
    <2> QED
      BY <1>10, <2>1, <1>4
      DEF TypeOK, PollRefuses, Sees, plant, counters, NoPoll, Maybe, Views, At
  <1>11. CASE PollRewrites
    <2>1. Rewritten \in Schedules
      <3>1. ToReal(poll.raw, applied) \in Schedules
        BY <1>11, <1>4, ViewType DEF PollRewrites, Resumes
      <3> QED
        BY <1>11, <3>1, <1>4, ShiftType DEF PollRewrites, Moved, Rewritten
    <2>2. Rewritten # None
      BY <2>1 DEF Schedules
    <2> QED
      BY <1>11, <2>1, <2>2, <1>4
      DEF TypeOK, PollRewrites, Sees, plant, counters, Maybe, At, Procs, Resumes, Overtaken, Moved
  <1>12. CASE PollPublished
    BY <1>12 DEF TypeOK, PollPublished, plant, ghosts, counters, At, Procs
  <1>13. CASE PollSaved
    <2> DEFINE s == IF job[Poller].frame = None THEN poll.raw ELSE job[Poller].frame
    <2>1. s \in Schedules
      BY <1>13, <1>4 DEF PollSaved, TypeOK, Order, Procs, Maybe, At
    <2>2. data' \in Views /\ poll' = NoPoll
      BY <1>13, <2>1, <1>4, <1>5 DEF PollSaved
    <2> QED
      BY <1>13, <2>2, <1>4
      DEF TypeOK, PollSaved, ghosts, counters, NoPoll, NoJob, Maybe, Views, At, Procs
  <1>14. ASSUME NEW w \in Writers, Optimistic(w), job[w].frame \in Schedules,
                applied' \in Int \cup {None}
         PROVE  data' \in Views
    BY <1>14, ViewType DEF Optimistic, Views
  <1>15. ASSUME NEW w \in Writers, NEW p \in Plans, WriteAsked(w, p)
         PROVE  TypeOK'
    <2>1. UsedOffset \in Int
      BY <1>15, <1>4 DEF WriteAsked, UsedOffset
    <2>2. [plan |-> p, at |-> 0] \in Schedules
      BY DEF Schedules
    <2>3. Prepared(p) \in Schedules
      BY <2>1, <2>2, ShiftType DEF Prepared
    <2>4. Prepared(p) # None /\ UsedOffset # None
      BY <2>1, <2>3 DEF Schedules
    <2> QED
      BY <1>15, <2>1, <2>3, <2>4
      DEF TypeOK, WriteAsked, plant, ghosts, Maybe, At, Procs
  <1>16. ASSUME NEW w \in Writers, WritePublished(w)
         PROVE  TypeOK'
    <2>1. job[w].frame \in Schedules /\ job[w].off \in Int /\ w \in Procs
      BY <1>16 DEF WritePublished, TypeOK, Maybe, At, Procs
    <2>2. CASE realtime /\ job[w].off # applied
      BY <1>16, <2>1, <2>2 DEF TypeOK, WritePublished, plant, ghosts, counters, At
    <2>3. CASE ~(realtime /\ job[w].off # applied)
      <3>1. data' \in Views
        BY <1>16, <2>1, <2>3, <1>4, <1>14 DEF WritePublished
      <3> QED
        BY <1>16, <2>1, <2>3, <3>1
        DEF TypeOK, WritePublished, plant, ghosts, counters, NoJob, Maybe, At
    <2> QED
      BY <2>2, <2>3
  <1>17. ASSUME NEW w \in Writers, WriteSaved(w)
         PROVE  TypeOK'
    <2>1. job[w].frame \in Schedules /\ w \in Procs
      BY <1>17 DEF WriteSaved, TypeOK, Maybe, At, Procs
    <2>2. data' \in Views
      BY <1>17, <2>1, <1>4, <1>14 DEF WriteSaved
    <2> QED
      BY <1>17, <2>1, <2>2 DEF TypeOK, WriteSaved, ghosts, counters, NoJob, Maybe, At
  <1>18. ASSUME NEW p \in Procs, At(p, "publishing"), Promise(p)
         PROVE  wanted' \in Schedules
    <2>1. job[p].frame \in Schedules /\ job[p].off \in Int
      BY <1>18 DEF TypeOK, Maybe, At
    <2>2. Measured \in Int
      BY <1>4 DEF Measured
    <2>3. [plan |-> job[p].frame.plan, at |-> 0] \in Schedules
      BY <2>1 DEF Schedules
    <2>4. Shift(job[p].frame, -Measured) \in Schedules
      BY <2>1, <2>2, ShiftType
    <2>5. CASE p = Poller
      BY <1>18, <2>5 DEF Promise, TypeOK
    <2>6. CASE p # Poller
      BY <1>18, <2>3, <2>4, <2>6 DEF Promise, TypeOK
    <2> QED
      BY <2>5, <2>6
  <1>19. ASSUME NEW p \in Procs, Lands(p)
         PROVE  TypeOK'
    <2>1. wanted' \in Schedules
      BY <1>18, <1>19 DEF Lands
    <2>2. job[p].frame \in Schedules
      BY <1>19 DEF Lands, TypeOK, Maybe, At
    <2> QED
      BY <1>19, <2>1, <2>2 DEF TypeOK, Lands, counters, At
  <1>20. ASSUME NEW p \in Procs, Lost(p)
         PROVE  TypeOK'
    <2>1. wanted' \in Schedules
      BY <1>18, <1>20 DEF Lost
    <2> QED
      BY <1>20, <2>1 DEF TypeOK, Lost, plant, At
  <1>21. ASSUME NEW p \in Procs, Refused(p)
         PROVE  TypeOK'
    <2>1. CASE p = Poller
      <3>1. data' \in Views /\ poll' = NoPoll
        BY <1>21, <2>1, <1>4, <1>5 DEF Refused, Order, At
      <3> QED
        BY <1>21, <3>1 DEF TypeOK, Refused, plant, ghosts, NoPoll, NoJob, Maybe, Views, At
    <2>2. CASE p # Poller
      BY <1>21, <2>2 DEF TypeOK, Refused, plant, ghosts, NoJob, Maybe, At
    <2> QED
      BY <2>1, <2>2
  <1>22. ASSUME NEW o \in Offsets \cup {None}, ClockReads(o)
         PROVE  TypeOK'
    BY <1>22 DEF TypeOK, ClockReads, plant, ghosts, At
  <1>23. ASSUME Restarted, realtime' \in BOOLEAN,
                upset' \subseteq {"mixed", "stale", "settings", "lost", "crash"}
         PROVE  TypeOK'
    BY <1>23 DEF TypeOK, Restarted, plant, NoPoll, NoJob, Maybe, Views, At
  <1>24. CASE Crash
    BY <1>23, <1>24 DEF Crash, TypeOK
  <1>25. CASE SettingsChanged
    BY <1>23, <1>25 DEF SettingsChanged, TypeOK
  <1>26. CASE UNCHANGED vars
    BY <1>26 DEF vars, ghosts, counters, TypeOK, At
  <1> QED
    BY <1>1, <1>2, <1>3, <1>6, <1>7, <1>8, <1>9, <1>10, <1>11, <1>12, <1>13, <1>15,
       <1>16, <1>17, <1>19, <1>20, <1>21, <1>22, <1>24, <1>25, <1>26
    DEF Next, ClockCheck

-----------------------------------------------------------------------------
(* The order of the steps. *)

(* The poll and its publish never run past each other, and what the poll    *)
(* remembers of the clock is what its last check saw.                       *)
LEMMA OrderStep == TypeOK /\ Order /\ [Next]_vars => Order'
  <1> SUFFICES ASSUME TypeOK, Order, [Next]_vars PROVE Order'
    OBVIOUS
  <1> USE ConstantsAssumption
  <1>1. CASE PollBegins \/ PollReadFails \/ BatteryAnswers
    BY <1>1
    DEF Order, PollBegins, PollReadFails, BatteryAnswers, plant, ghosts, counters, NoPoll, At
  <1>2. CASE PollKeeps
    BY <1>2
    DEF Order, PollKeeps, KeptPending, EndPoll, NoPoll, Resumes, Sees, plant, counters, At
  <1>3. CASE PollAdopts
    BY <1>3 DEF TypeOK, Order, PollAdopts, Resumes, Sees, plant, counters, At, Procs
  <1>4. CASE PollNotesMove
    BY <1>4
    DEF Order, PollNotesMove, EndPoll, NoPoll, Resumes, Sees, Moved, plant, counters, At
  <1>5. CASE PollSavesMove
    BY <1>5 DEF TypeOK, Order, PollSavesMove, Resumes, Moved, plant, counters, At, Procs
  <1>6. CASE PollRefuses
    BY <1>6
    DEF Order, PollRefuses, EndPoll, NoPoll, Resumes, Moved, plant, counters, At
  <1>7. CASE PollRewrites
    BY <1>7 DEF TypeOK, Order, PollRewrites, Resumes, Moved, plant, counters, At, Procs
  <1>8. CASE PollPublished
    BY <1>8 DEF TypeOK, Order, PollPublished, plant, ghosts, counters, At, Procs
  <1>9. CASE PollSaved
    BY <1>9 DEF TypeOK, Order, PollSaved, ghosts, counters, EndPoll, NoPoll, NoJob, At, Procs
  <1>10. ASSUME NEW w \in Writers,
                (\E p \in Plans : WriteAsked(w, p)) \/ WritePublished(w) \/ WriteSaved(w)
         PROVE  Order'
    <2>1. w # Poller /\ w \in Procs
      BY DEF Procs
    <2>2. ASSUME NEW p \in Plans, WriteAsked(w, p) PROVE Order'
      BY <2>1, <2>2 DEF TypeOK, Order, WriteAsked, plant, ghosts, At
    <2>3. CASE WritePublished(w)
      <3>1. At(w, "sent") /\ job[w].off # None
        BY <2>1, <2>3 DEF TypeOK, WritePublished, At
      <3>2. CASE realtime /\ job[w].off # applied
        <4>1. /\ applied' # None /\ pending' = pending /\ seen' = seen
              /\ poll' = poll /\ realtime' = realtime
              /\ job' = [job EXCEPT ![w].pc = "saving"]
          BY <2>3, <3>1, <3>2 DEF WritePublished, ghosts
        <4>2. job'[w].pc = "saving" /\ job'[Poller] = job[Poller]
          BY <2>1, <4>1 DEF TypeOK
        <4> QED
          BY <2>1, <4>1, <4>2 DEF Order, At
      <3>3. CASE ~(realtime /\ job[w].off # applied)
        <4>1. /\ applied' = applied /\ store' = store /\ pending' = pending /\ seen' = seen
              /\ poll' = poll /\ realtime' = realtime
              /\ job' = [job EXCEPT ![w] = NoJob]
          BY <2>3, <3>3 DEF WritePublished, plant, ghosts, counters
        <4> QED
          BY <2>1, <3>1, <4>1 DEF TypeOK, Order, NoJob, At
      <3> QED
        BY <3>2, <3>3
    <2>4. CASE WriteSaved(w)
      BY <2>1, <2>4 DEF TypeOK, Order, WriteSaved, ghosts, counters, NoJob, At
    <2> QED
      BY <1>10, <2>2, <2>3, <2>4
  <1>11. ASSUME NEW p \in Procs, Lands(p) \/ Lost(p) PROVE Order'
    BY <1>11 DEF TypeOK, Order, Lands, Lost, plant, counters, At, Procs
  <1>12. ASSUME NEW p \in Procs, Refused(p) PROVE Order'
    BY <1>12 DEF TypeOK, Order, Refused, EndPoll, NoPoll, NoJob, plant, ghosts, At, Procs
  <1>13. ASSUME NEW o \in Offsets \cup {None}, ClockReads(o) PROVE Order'
    BY <1>13 DEF Order, ClockReads, plant, ghosts, At
  <1>14. CASE Crash \/ SettingsChanged
    BY <1>14 DEF Order, Crash, SettingsChanged, Restarted, plant, NoPoll, NoJob, At, Procs
  <1>15. CASE UNCHANGED vars
    BY <1>15 DEF vars, ghosts, counters, Order, At
  <1> QED
    BY <1>1, <1>2, <1>3, <1>4, <1>5, <1>6, <1>7, <1>8, <1>9, <1>10, <1>11, <1>12, <1>13,
       <1>14, <1>15
    DEF Next, ClockCheck

-----------------------------------------------------------------------------
(* The agreement of offset and schedule. *)

(* While nothing upsets the promise, every step keeps the agreement.  The   *)
(* cases that matter: a frame arrives (Lands), its offset is noted          *)
(* (PollPublished, WritePublished), the poll acts on what it read           *)
(* (PollAdopts, PollSavesMove, PollRewrites), and a restart loads the file. *)
LEMMA AgreementStep ==
    TypeOK /\ Order /\ InFlight /\ (upset = {} => Agreement) /\ [Next]_vars /\ upset' = {}
        => Agreement'
  <1> SUFFICES ASSUME TypeOK, Order, InFlight, upset = {} => Agreement, [Next]_vars, upset' = {}
               PROVE  Agreement'
    OBVIOUS
  <1> USE ConstantsAssumption
  <1>0. /\ battery \in Schedules /\ wanted \in Schedules
        /\ offset \in Int \cup {None} /\ applied \in Int \cup {None}
        /\ poll.pc = "read" => poll.raw \in Schedules
    BY DEF TypeOK, Maybe
  <1>1. CASE PollBegins \/ PollReadFails \/ BatteryAnswers
    <2>1. /\ upset' = upset /\ battery' = battery /\ wanted' = wanted /\ applied' = applied
          /\ realtime' = realtime /\ job' = job
          /\ poll.pc # "read" /\ (poll'.pc = "read" => poll'.raw = battery)
      BY <1>1 DEF PollBegins, PollReadFails, BatteryAnswers, plant, ghosts, counters, NoPoll
    <2> QED
      BY <2>1 DEF Agreement, Order, Landed, Resumes, At
  <1>2. CASE PollKeeps \/ PollNotesMove \/ PollRefuses
    <2>1. /\ upset' = upset /\ battery' = battery /\ wanted' = wanted /\ applied' = applied
          /\ realtime' = realtime /\ job' = job /\ fresh' = fresh /\ poll'.pc = "idle"
      BY <1>2 DEF PollKeeps, PollNotesMove, PollRefuses, EndPoll, plant, ghosts, counters, NoPoll
    <2> QED
      BY <2>1 DEF Agreement, Landed, Resumes, At
  <1>3. CASE PollAdopts
    <2>1. /\ upset' = upset /\ battery' = battery /\ applied' = offset /\ offset \in Int
          /\ realtime' = realtime /\ realtime /\ applied = None
          /\ job' = [job EXCEPT ![Poller] = [pc |-> "saving", frame |-> None, off |-> offset]]
          /\ wanted' = IF Landed = {} THEN Shift(battery, -offset) ELSE wanted
          /\ At(Poller, "idle")
      BY <1>0, <1>3 DEF PollAdopts, Resumes, plant, counters
    <2>2. Landed' = Landed /\ \A p \in Landed : job'[p] = job[p]
      BY <2>1 DEF TypeOK, Landed, At, Procs
    <2>3. job'[Poller].pc = "saving"
      BY <2>1 DEF TypeOK, Procs
    <2>4. Shift(Shift(battery, -offset), offset) = battery
      BY <1>0, <2>1, ShiftBack
    <2> QED
      BY <2>1, <2>2, <2>3, <2>4 DEF Agreement, Resumes, At
  <1>4. CASE PollSavesMove
    <2>1. /\ upset = {} /\ fresh /\ Landed = {}
      BY <1>4 DEF PollSavesMove, Overtaken
    <2>2. /\ battery' = battery /\ wanted' = wanted /\ applied' = offset /\ offset \in Int
          /\ realtime' = realtime /\ realtime /\ applied \in Int
          /\ job' = [job EXCEPT ![Poller] = [pc |-> "saving", frame |-> None, off |-> offset]]
          /\ Resumes /\ poll.raw.plan = Empty
      BY <1>0, <1>4 DEF PollSavesMove, Moved, plant, counters
    <2>3. battery = Shift(wanted, applied) /\ battery.plan = Empty
      BY <2>1, <2>2 DEF Agreement
    <2>4. battery = Shift(wanted, offset)
      BY <1>0, <2>2, <2>3, ShiftEmpty
    <2>5. Landed' = {} /\ job'[Poller].pc = "saving"
      BY <2>1, <2>2 DEF TypeOK, Landed, At, Procs
    <2> QED
      BY <2>2, <2>4, <2>5 DEF Agreement, Resumes, At
  <1>5. CASE PollRewrites
    <2>1. /\ upset = {} /\ fresh /\ Landed = {}
      BY <1>5 DEF PollRewrites, Overtaken
    <2>2. /\ battery' = battery /\ wanted' = wanted /\ applied' = applied /\ offset \in Int
          /\ realtime' = realtime /\ realtime /\ applied \in Int
          /\ job' = [job EXCEPT ![Poller] =
                        [pc |-> "publishing", frame |-> Rewritten, off |-> offset]]
          /\ Resumes
      BY <1>0, <1>5 DEF PollRewrites, Moved, plant, counters
    <2>3. battery = Shift(wanted, applied) /\ poll.raw = battery
      BY <2>1, <2>2 DEF Agreement
    <2>4. ToReal(poll.raw, applied) = Shift(poll.raw, -applied)
      BY <2>2 DEF ToReal
    <2>5. Rewritten = Shift(wanted, offset)
      BY <1>0, <2>2, <2>3, <2>4, ShiftBack DEF Rewritten
    <2>6. Landed' = {} /\ job'[Poller] = [pc |-> "publishing", frame |-> Rewritten, off |-> offset]
      BY <2>1, <2>2 DEF TypeOK, Landed, At, Procs
    <2> QED
      BY <2>1, <2>2, <2>3, <2>5, <2>6 DEF Agreement, Resumes, At
  <1>6. ASSUME NEW p \in Procs, At(p, "sent"), realtime, upset = {},
               applied' = job[p].off, job[p].off \in Int,
               \/ job' = [job EXCEPT ![p].pc = "saving"]
               \/ p # Poller /\ job' = [job EXCEPT ![p] = NoJob],
               UNCHANGED <<battery, wanted, realtime, poll, fresh>>
        PROVE  Agreement'
    <2>1. /\ p \in Landed /\ Landed' \subseteq Landed
          /\ \A q \in Landed' : job'[q] = job[q]
      BY <1>6 DEF TypeOK, Landed, NoJob, At
    <2>2. At(Poller, "publishing")' => job'[Poller] = job[Poller]
      BY <1>6 DEF TypeOK, NoJob, At, Procs
    <2>3. Resumes' => Resumes
      BY <1>6 DEF TypeOK, Resumes, NoJob, At, Procs
    <2>4. battery = Shift(wanted, job[p].off)
      BY <1>6, <2>1 DEF Agreement
    <2> QED
      BY <1>6, <2>1, <2>2, <2>3, <2>4 DEF Agreement, At
  <1>7. CASE PollPublished
    <2>1. /\ At(Poller, "sent") /\ realtime /\ upset = {} /\ Poller \in Procs
          /\ job[Poller].off \in Int
      BY <1>7 DEF PollPublished, Order, TypeOK, At, ghosts, Procs
    <2> QED
      BY <1>6, <1>7, <2>1 DEF PollPublished, plant, ghosts
  <1>8. ASSUME NEW p \in Procs, At(p, "saving"), upset = {}, job' = [job EXCEPT ![p] = NoJob],
               UNCHANGED <<battery, wanted, realtime, applied, fresh>>,
               IF p = Poller THEN poll' = NoPoll ELSE poll' = poll
        PROVE  Agreement'
    <2>1. Landed' = Landed /\ \A q \in Landed : job'[q] = job[q]
      BY <1>8 DEF TypeOK, Landed, NoJob, At
    <2>2. At(Poller, "publishing")' => job'[Poller] = job[Poller] /\ At(Poller, "publishing")
      BY <1>8 DEF TypeOK, NoJob, At, Procs
    <2>3. Resumes' => Resumes /\ poll' = poll
      BY <1>8 DEF TypeOK, Resumes, NoJob, NoPoll, At, Procs
    <2> QED
      BY <1>8, <2>1, <2>2, <2>3 DEF Agreement, At
  <1>9. CASE PollSaved
    BY <1>8, <1>9 DEF PollSaved, EndPoll, ghosts, Procs
  <1>10. ASSUME NEW w \in Writers, NEW p \in Plans, WriteAsked(w, p)
         PROVE  Agreement'
    <2>1. /\ upset = {} /\ w \in Procs /\ w # Poller /\ At(w, "idle")
          /\ battery' = battery /\ wanted' = wanted /\ applied' = applied
          /\ realtime' = realtime /\ poll' = poll /\ fresh' = fresh
          /\ job' = [job EXCEPT ![w] =
                [pc |-> "publishing", frame |-> Prepared(p), off |-> UsedOffset]]
      BY <1>10 DEF WriteAsked, plant, ghosts, Procs
    <2>2. Landed' = Landed /\ (\A q \in Landed : job'[q] = job[q]) /\ job'[Poller] = job[Poller]
      BY <2>1 DEF TypeOK, Landed, At, Procs
    <2> QED
      BY <2>1, <2>2 DEF Agreement, Resumes, At
  <1>11. ASSUME NEW w \in Writers, WritePublished(w)
         PROVE  Agreement'
    <2>1. /\ upset = {} /\ w \in Procs /\ w # Poller /\ At(w, "sent") /\ job[w].off \in Int
          /\ UNCHANGED <<battery, wanted, realtime, poll, fresh>>
      BY <1>11 DEF WritePublished, TypeOK, plant, ghosts, At, Procs
    <2>2. CASE realtime
      BY <1>6, <1>11, <2>1, <2>2 DEF WritePublished
    <2>3. CASE ~realtime
      <3>1. applied' = applied /\ job' = [job EXCEPT ![w] = NoJob]
        BY <1>11, <2>3 DEF WritePublished
      <3>2. /\ Landed' \subseteq Landed /\ job'[Poller] = job[Poller]
            /\ \A q \in Landed' : job'[q] = job[q]
        BY <2>1, <3>1 DEF TypeOK, Landed, NoJob, At, Procs
      <3> QED
        BY <2>1, <2>3, <3>1, <3>2 DEF Agreement, Resumes, At
    <2> QED
      BY <2>2, <2>3
  <1>12. ASSUME NEW w \in Writers, WriteSaved(w)
         PROVE  Agreement'
    BY <1>8, <1>12 DEF WriteSaved, ghosts, Procs
  <1>13. ASSUME NEW p \in Procs, Lands(p)
         PROVE  Agreement'
    <2>1. /\ upset = {} /\ At(p, "publishing")
          /\ \A q \in Landed : job[q].off = job[p].off
          /\ p = Poller => fresh
          /\ ~realtime => applied \in {None, Measured}
      BY <1>13 DEF Lands
    <2>2. /\ job[p].frame \in Schedules /\ job[p].off \in Int
      BY <2>1 DEF TypeOK, Maybe, At
    <2>3. Measured \in Int
      BY <1>0 DEF Measured
    <2>4. /\ realtime => job[p].frame = Shift(wanted', job[p].off)
          /\ ~realtime => job[p].frame = Shift(wanted', Measured)
      <3>1. CASE p = Poller
        BY <1>13, <2>1, <3>1 DEF Agreement, Order, Lands, Promise, At
      <3>2. CASE p # Poller /\ ~realtime
        BY <1>13, <2>2, <2>3, <3>2, ShiftBack DEF Lands, Promise
      <3>3. CASE p # Poller /\ realtime
        <4>1. Shift(job[p].frame, -job[p].off).at = 0
          BY <1>13, <2>1, <3>3 DEF InFlight, Procs
        <4>2. wanted' = [plan |-> job[p].frame.plan, at |-> 0]
          BY <1>13, <3>3 DEF Lands, Promise
        <4>3. wanted' = Shift(job[p].frame, -job[p].off)
          BY <4>1, <4>2 DEF Shift
        <4> QED
          BY <2>2, <3>3, <4>3, ShiftBack
      <3> QED
        BY <3>1, <3>2, <3>3
    <2>5. /\ battery' = job[p].frame /\ job' = [job EXCEPT ![p].pc = "sent"]
          /\ applied' = applied /\ realtime' = realtime /\ poll' = poll
          /\ fresh' = (fresh /\ p = Poller)
      BY <1>13 DEF Lands
    <2>6. /\ Landed' = Landed \cup {p}
          /\ \A q \in Landed' : job'[q].off = job[p].off
      BY <2>1, <2>5 DEF TypeOK, Landed, At
    <2>7. ~(At(Poller, "publishing")' /\ fresh') /\ ~(Resumes' /\ fresh')
      BY <2>5, <2>1 DEF TypeOK, Resumes, At, Procs
    <2> QED
      BY <2>1, <2>4, <2>5, <2>6, <2>7 DEF Agreement
  <1>14. ASSUME NEW p \in Procs, Lost(p)
         PROVE  FALSE
    BY <1>14 DEF Lost
  <1>15. ASSUME NEW p \in Procs, Refused(p)
         PROVE  Agreement'
    <2>1. /\ upset = {} /\ At(p, "publishing")
          /\ UNCHANGED <<battery, wanted, realtime, applied, fresh>>
          /\ job' = [job EXCEPT ![p] = NoJob]
          /\ IF p = Poller THEN poll' = NoPoll ELSE poll' = poll
      BY <1>15 DEF Refused, EndPoll, plant, ghosts
    <2>2. Landed' = Landed /\ \A q \in Landed : job'[q] = job[q]
      BY <2>1 DEF TypeOK, Landed, NoJob, At
    <2>3. At(Poller, "publishing")' => job'[Poller] = job[Poller] /\ At(Poller, "publishing")
      BY <2>1 DEF TypeOK, NoJob, At, Procs
    <2>4. Resumes' => Resumes /\ poll' = poll
      BY <2>1 DEF TypeOK, Resumes, NoJob, NoPoll, At, Procs
    <2> QED
      BY <2>1, <2>2, <2>3, <2>4 DEF Agreement, At
  <1>16. ASSUME NEW o \in Offsets \cup {None}, ClockReads(o)
         PROVE  Agreement'
    BY <1>16 DEF ClockReads, plant, ghosts, Agreement, Landed, Resumes, At
  <1>17. ASSUME Restarted, upset = {}, \A p \in Procs : ~At(p, "sent") /\ ~At(p, "saving")
         PROVE  Agreement'
    <2>1. applied' = applied /\ battery' = battery /\ wanted' = wanted
      BY <1>17 DEF Restarted, plant, Order
    <2>2. Landed = {} /\ Landed' = {} /\ poll'.pc = "idle" /\ ~At(Poller, "publishing")'
      BY <1>17 DEF Restarted, NoJob, NoPoll, Landed, At, Procs
    <2> QED
      BY <1>17, <2>1, <2>2 DEF Agreement, Resumes
  <1>18. CASE Crash
    BY <1>17, <1>18 DEF Crash
  <1>19. CASE SettingsChanged
    BY <1>17, <1>19 DEF SettingsChanged, At
  <1>20. CASE UNCHANGED vars
    BY <1>20 DEF vars, ghosts, counters, Agreement, Landed, Resumes, At
  <1> QED
    BY <1>1, <1>2, <1>3, <1>4, <1>5, <1>7, <1>9, <1>10, <1>11, <1>12, <1>13, <1>14, <1>15,
       <1>16, <1>18, <1>19, <1>20
    DEF Next, ClockCheck

-----------------------------------------------------------------------------

(* Nothing that is in flight changes on the way. *)
LEMMA InFlightStep == TypeOK /\ Order /\ InFlight /\ [Next]_vars => InFlight'
  <1> SUFFICES ASSUME TypeOK, Order, InFlight, [Next]_vars PROVE InFlight'
    OBVIOUS
  <1> USE ConstantsAssumption
  <1>1. ASSUME realtime' = realtime,
               At(Poller, "publishing")' => At(Poller, "publishing") \/ applied # None,
               applied # None => applied' # None,
               \A w \in Writers : At(w, "publishing")' => job'[w] = job[w]
        PROVE  InFlight'
    BY <1>1 DEF InFlight, At
  <1>2. CASE PollBegins \/ PollReadFails \/ BatteryAnswers \/ PollKeeps \/ PollNotesMove
             \/ PollRefuses
    <2>1. job' = job /\ applied' = applied /\ realtime' = realtime
      BY <1>2 DEF PollBegins, PollReadFails, BatteryAnswers, PollKeeps, PollNotesMove, PollRefuses
    <2> QED
      BY <1>1, <2>1 DEF At
  <1>3. CASE PollAdopts \/ PollSavesMove
    BY <1>1, <1>3 DEF PollAdopts, PollSavesMove, TypeOK, At, Procs, Moved
  <1>4. CASE PollRewrites
    BY <1>1, <1>4 DEF PollRewrites, TypeOK, At, Procs, Moved
  <1>5. CASE PollPublished \/ PollSaved
    <2>1. /\ realtime' = realtime /\ applied' \in {applied, job[Poller].off}
          /\ job[Poller].off # None
          /\ \/ job' = [job EXCEPT ![Poller].pc = "saving"]
             \/ job' = [job EXCEPT ![Poller] = NoJob]
      BY <1>5 DEF PollPublished, PollSaved, TypeOK, At, Procs
    <2>2. ~At(Poller, "publishing")' /\ \A w \in Writers : job'[w] = job[w]
      BY <2>1 DEF TypeOK, NoJob, At, Procs
    <2> QED
      BY <1>1, <2>1, <2>2
  <1>6. ASSUME NEW w \in Writers, NEW p \in Plans, WriteAsked(w, p)
        PROVE  InFlight'
    <2>1. /\ w \in Procs /\ w # Poller /\ applied' = applied /\ realtime' = realtime
          /\ job' = [job EXCEPT ![w] =
                [pc |-> "publishing", frame |-> Prepared(p), off |-> UsedOffset]]
          /\ realtime => offset \in Int
      BY <1>6 DEF WriteAsked, TypeOK, Procs
    <2>2. /\ job'[Poller] = job[Poller]
          /\ \A q \in Writers : q # w => job'[q] = job[q]
          /\ job'[w] = [pc |-> "publishing", frame |-> Prepared(p), off |-> UsedOffset]
      BY <2>1 DEF TypeOK, Procs
    <2>3. [plan |-> p, at |-> 0] \in Schedules
      BY DEF Schedules
    <2>4. IF realtime THEN Shift(Prepared(p), -UsedOffset).at = 0 ELSE Prepared(p).at = 0
      BY <2>1, <2>3 DEF Prepared, UsedOffset, Shift
    <2> QED
      BY <2>1, <2>2, <2>4 DEF InFlight, At
  <1>7. ASSUME NEW w \in Writers, WritePublished(w) \/ WriteSaved(w)
        PROVE  InFlight'
    <2>1. /\ w \in Procs /\ w # Poller /\ realtime' = realtime
          /\ applied' \in {applied, job[w].off} /\ job[w].off # None
          /\ \/ job' = [job EXCEPT ![w].pc = "saving"]
             \/ job' = [job EXCEPT ![w] = NoJob]
      BY <1>7 DEF WritePublished, WriteSaved, TypeOK, At, Procs
    <2>2. /\ job'[Poller] = job[Poller] /\ ~At(w, "publishing")'
          /\ \A q \in Writers : q # w => job'[q] = job[q]
      BY <2>1 DEF TypeOK, NoJob, At, Procs
    <2> QED
      BY <1>1, <2>1, <2>2 DEF At
  <1>8. ASSUME NEW p \in Procs, Lands(p) \/ Lost(p) \/ Refused(p)
        PROVE  InFlight'
    <2>1. /\ realtime' = realtime /\ applied' = applied
          /\ \/ job' = [job EXCEPT ![p].pc = "sent"]
             \/ job' = [job EXCEPT ![p] = NoJob]
      BY <1>8 DEF Lands, Lost, Refused
    <2>2. ~At(p, "publishing")' /\ \A q \in Procs : q # p => job'[q] = job[q]
      BY <2>1 DEF TypeOK, NoJob, At
    <2> QED
      BY <1>1, <2>1, <2>2 DEF At, Procs
  <1>9. ASSUME NEW o \in Offsets \cup {None}, ClockReads(o)
        PROVE  InFlight'
    BY <1>1, <1>9 DEF ClockReads, At
  <1>10. CASE Crash \/ SettingsChanged
    BY <1>10 DEF Crash, SettingsChanged, Restarted, NoJob, InFlight, At, Procs
  <1>11. CASE UNCHANGED vars
    BY <1>1, <1>11 DEF vars, At
  <1> QED
    BY <1>2, <1>3, <1>4, <1>5, <1>6, <1>7, <1>8, <1>9, <1>10, <1>11 DEF Next, ClockCheck

-----------------------------------------------------------------------------
(* The theorems. *)

(* Initially nothing is in flight and no offset is known. *)
LEMMA InitIInv == Init => IInv
  BY TypeInit, ConstantsAssumption
  DEF Init, IInv, Order, InFlight, Agreement, Landed, Resumes, NoPoll, NoJob, At, Procs

(* Every step preserves the invariant: its parts, put together. *)
LEMMA StepIInv == IInv /\ [Next]_vars => IInv'
  <1> SUFFICES ASSUME IInv, [Next]_vars PROVE IInv'
    OBVIOUS
  <1>1. TypeOK' /\ Order' /\ InFlight'
    BY TypeStep, OrderStep, InFlightStep DEF IInv
  <1>2. upset' = {} => Agreement'
    BY AgreementStep DEF IInv
  <1> QED
    BY <1>1, <1>2 DEF IInv

(* The inductive invariant holds of every behaviour. *)
THEOREM Invariance == Spec => []IInv
  BY InitIInv, StepIInv, PTL DEF Spec

(* Every variable keeps its type. *)
THEOREM TypeCorrect == Spec => []TypeOK
  BY Invariance, PTL DEF IInv

(* The offset in memory always belongs to the schedule on the battery. *)
THEOREM OffsetInMemory == Spec => []AppliedIsWrittenWith
  <1>1. IInv => AppliedIsWrittenWith
    BY DEF IInv, Agreement, AppliedIsWrittenWith
  <1> QED
    BY Invariance, <1>1, PTL

(* And so does the offset in the file, once the saves have ended. *)
THEOREM OffsetInFile == Spec => []FileBelongsToBattery
  <1>1. IInv => FileBelongsToBattery
    BY DEF IInv, Order, Agreement, Landed, FileBelongsToBattery
  <1> QED
    BY Invariance, <1>1, PTL

(* Only the clock check starts a write or a save of the poll's. *)
LEMMA PollerStarts ==
    ASSUME TypeOK, [Next]_vars, At(Poller, "idle"), ~At(Poller, "idle")'
    PROVE  PollAdopts \/ PollSavesMove \/ PollRewrites
  <1> USE ConstantsAssumption
  <1>1. job' # job
    BY DEF At
  <1>2. ASSUME NEW w \in Writers, NEW f, job' = [job EXCEPT ![w] = f]
        PROVE  FALSE
    BY <1>2 DEF TypeOK, At, Procs
  <1>3. ASSUME NEW p \in Procs, NEW f, job' = [job EXCEPT ![p] = f], ~At(p, "idle")
        PROVE  FALSE
    BY <1>3 DEF TypeOK, At, Procs
  <1>4. ~(PollBegins \/ PollReadFails \/ BatteryAnswers \/ PollKeeps \/ PollNotesMove
          \/ PollRefuses \/ UNCHANGED vars)
    BY <1>1
    DEF PollBegins, PollReadFails, BatteryAnswers, PollKeeps, PollNotesMove, PollRefuses, vars
  <1>5. ~(PollPublished \/ PollSaved)
    BY DEF PollPublished, PollSaved, At
  <1>6. ~ \E w \in Writers :
            (\E p \in Plans : WriteAsked(w, p)) \/ WritePublished(w) \/ WriteSaved(w)
    BY <1>2 DEF WriteAsked, WritePublished, WriteSaved
  <1>7. ~ \E p \in Procs : Lands(p) \/ Lost(p) \/ Refused(p)
    BY <1>3 DEF Lands, Lost, Refused, At
  <1>8. ~ \E o \in Offsets \cup {None} : ClockReads(o)
    BY <1>1 DEF ClockReads
  <1>9. ~(Crash \/ SettingsChanged)
    BY DEF Crash, SettingsChanged, Restarted, NoJob, At, Procs
  <1> QED
    BY <1>4, <1>5, <1>6, <1>7, <1>8, <1>9 DEF Next, ClockCheck

(* The poll acts only on a move that the check before it saw too. *)
THEOREM SecondSight == Spec => ActsOnSecondSight
  <1> DEFINE Acts == At(Poller, "idle") /\ ~At(Poller, "idle")' /\ applied # None
  <1>1. IInv /\ [Next]_vars => [Acts => seen # None /\ Within(seen, offset, 2)]_vars
    <2> SUFFICES ASSUME IInv, [Next]_vars, Acts
                 PROVE  seen # None /\ Within(seen, offset, 2)
      OBVIOUS
    <2>1. PollSavesMove \/ PollRewrites
      BY PollerStarts DEF IInv, PollAdopts
    <2>2. Confirmed
      BY <2>1 DEF PollSavesMove, PollRewrites
    <2> QED
      BY <2>2 DEF Confirmed, IInv, Order
  <1> QED
    BY Invariance, <1>1, PTL DEF Spec, ActsOnSecondSight

-----------------------------------------------------------------------------
(* ScheduleSync implements ScheduleKeeper. *)

(* The offset that belongs to the battery's schedule, without the choice. *)
KnownFacts ==
    /\ \A p \in Landed : realtime => Known = job[p].off
    /\ (realtime => Landed = {}) => Known = applied
    /\ Known \in Int \cup {None}
    /\ Known # None => battery = Shift(wanted, Known)

(* The refinement's chosen offset is the one every landed frame agrees on. *)
LEMMA KnownIs == IInv /\ upset = {} => KnownFacts
  <1> SUFFICES ASSUME IInv, upset = {} PROVE KnownFacts
    OBVIOUS
  <1>1. ASSUME NEW p \in Landed, realtime
        PROVE  Known = job[p].off /\ job[p].off \in Int
    <2>1. (CHOOSE q \in Landed : TRUE) \in Landed
      OBVIOUS
    <2>2. job[p].off \in Int
      BY DEF IInv, TypeOK, Landed, At
    <2> QED
      BY <1>1, <2>1, <2>2 DEF Known, IInv, Agreement
  <1>2. (realtime => Landed = {}) => Known = applied
    BY DEF Known
  <1>3. applied \in Int \cup {None}
    BY DEF IInv, TypeOK
  <1> QED
    BY <1>1, <1>2, <1>3 DEF IInv, Agreement, KnownFacts

(* The same in the state after a step. *)
LEMMA KnownIsNext == (IInv /\ upset = {} => KnownFacts)'
  BY KnownIs, PTL

KeeperStep == [Keeper!Next]_(Keeper!vars)

(* Every step is a step of the keeper or leaves it alone. *)
LEMMA KeeperSteps == IInv /\ IInv' /\ [Next]_vars => KeeperStep
  <1> SUFFICES ASSUME IInv, IInv', [Next]_vars PROVE KeeperStep
    OBVIOUS
  <1> USE ConstantsAssumption
  <1>1. CASE upset' # {}
    BY <1>1 DEF KeeperStep, Keeper!Next, Keeper!Break
  <1>2. upset \subseteq upset'
    <2>1. ASSUME NEW w \in Writers,
                 (\E p \in Plans : WriteAsked(w, p)) \/ WritePublished(w) \/ WriteSaved(w)
          PROVE  upset' = upset
      BY <2>1 DEF WriteAsked, WritePublished, WriteSaved, ghosts
    <2>2. ASSUME NEW p \in Procs, Lands(p) \/ Lost(p) \/ Refused(p)
          PROVE  upset \subseteq upset'
      BY <2>2 DEF Lands, Lost, Refused, ghosts
    <2>3. CASE PollBegins \/ PollReadFails \/ BatteryAnswers \/ PollPublished \/ PollSaved
               \/ UNCHANGED vars
      BY <2>3
      DEF PollBegins, PollReadFails, BatteryAnswers, PollPublished, PollSaved, ghosts, vars
    <2>4. CASE ClockCheck
      BY <2>4
      DEF ClockCheck, PollKeeps, PollAdopts, PollNotesMove, PollSavesMove, PollRefuses,
          PollRewrites
    <2>5. CASE Crash \/ SettingsChanged
      BY <2>5 DEF Crash, SettingsChanged
    <2>6. ASSUME NEW o \in Offsets \cup {None}, ClockReads(o)
          PROVE  upset' = upset
      BY <2>6 DEF ClockReads, ghosts
    <2> QED
      BY <2>1, <2>2, <2>3, <2>4, <2>5, <2>6 DEF Next
  <1> SUFFICES ASSUME upset' = {} PROVE KeeperStep
    BY <1>1
  <1>3. upset = {} /\ KnownFacts /\ KnownFacts' /\ TypeOK /\ Order /\ InFlight /\ Agreement
    BY <1>2, KnownIs, KnownIsNext DEF IInv
  <1>4. ASSUME wanted' = wanted, battery' = battery, Known' = Known
        PROVE  KeeperStep
    BY <1>3, <1>4 DEF KeeperStep, Keeper!vars
  <1>5. ASSUME realtime' = realtime, applied' = applied, Landed' = Landed,
               \A p \in Landed : job'[p].off = job[p].off
        PROVE  Known' = Known
    <2>1. CASE realtime => Landed = {}
      BY <1>3, <1>5, <2>1 DEF KnownFacts
    <2>2. CASE realtime /\ Landed # {}
      BY <1>3, <1>5, <2>2 DEF KnownFacts
    <2> QED
      BY <2>1, <2>2
  (* The offset of a frame that arrived is noted: what is known is the same. *)
  <1>6. ASSUME NEW p \in Landed, realtime, realtime' = realtime, applied' = job[p].off,
               Landed' \subseteq Landed, \A q \in Landed' : job'[q] = job[q]
        PROVE  Known' = Known
    <2>1. CASE Landed' = {}
      BY <1>3, <1>6, <2>1 DEF KnownFacts
    <2>2. CASE Landed' # {}
      BY <1>3, <1>6, <2>2 DEF KnownFacts
    <2> QED
      BY <2>1, <2>2
  <1>7. CASE PollBegins \/ PollReadFails \/ BatteryAnswers \/ PollKeeps \/ PollNotesMove
             \/ PollRefuses
    <2>1. /\ wanted' = wanted /\ battery' = battery
          /\ realtime' = realtime /\ applied' = applied /\ job' = job
      BY <1>7
      DEF PollBegins, PollReadFails, BatteryAnswers, PollKeeps, PollNotesMove, PollRefuses,
          plant, ghosts
    <2> QED
      BY <1>4, <1>5, <2>1 DEF Landed, At
  <1>8. CASE PollAdopts
    <2>1. /\ battery' = battery /\ realtime' = realtime /\ realtime
          /\ applied = None /\ applied' = offset /\ offset # None
          /\ wanted' = IF Landed = {} THEN Shift(battery, -offset) ELSE wanted
          /\ At(Poller, "idle")
          /\ job' = [job EXCEPT ![Poller] = [pc |-> "saving", frame |-> None, off |-> offset]]
      BY <1>8 DEF PollAdopts, Resumes, plant
    <2>2. Landed' = Landed /\ \A p \in Landed : job'[p] = job[p]
      BY <1>3, <2>1 DEF TypeOK, Landed, At, Procs
    <2>3. CASE Landed = {}
      <3>1. Known = None /\ Known' = offset
        BY <1>3, <2>1, <2>2, <2>3 DEF KnownFacts
      <3> QED
        BY <1>3, <2>1, <2>3, <3>1
        DEF KeeperStep, Keeper!Next, Keeper!Adopt, Keeper!Moved, Shift
    <2>4. CASE Landed # {}
      <3>1. Known' = Known
        BY <1>3, <2>1, <2>2, <2>4 DEF KnownFacts
      <3> QED
        BY <1>4, <2>1, <2>4, <3>1
    <2> QED
      BY <2>3, <2>4
  <1>9. CASE PollSavesMove
    <2>1. /\ battery' = battery /\ wanted' = wanted /\ realtime' = realtime
          /\ realtime /\ applied # None /\ applied' = offset /\ offset # None
          /\ Landed = {} /\ At(Poller, "idle")
          /\ job' = [job EXCEPT ![Poller] = [pc |-> "saving", frame |-> None, off |-> offset]]
      BY <1>3, <1>9 DEF PollSavesMove, Overtaken, Moved, Resumes, plant
    <2>2. Landed' = {}
      BY <1>3, <2>1 DEF TypeOK, Landed, At, Procs
    <2>3. Known # None /\ Known' # None
      BY <1>3, <2>1, <2>2 DEF KnownFacts
    <2> QED
      BY <1>3, <2>1, <2>3
      DEF KnownFacts, KeeperStep, Keeper!Next, Keeper!Follow, Keeper!Moved, Shift
  <1>10. CASE PollRewrites
    <2>1. /\ wanted' = wanted /\ battery' = battery
          /\ realtime' = realtime /\ applied' = applied /\ At(Poller, "idle")
          /\ job' = [job EXCEPT ![Poller] =
                        [pc |-> "publishing", frame |-> Rewritten, off |-> offset]]
      BY <1>10 DEF PollRewrites, Resumes, plant
    <2>2. Landed' = Landed /\ \A p \in Landed : job'[p] = job[p]
      BY <1>3, <2>1 DEF TypeOK, Landed, At, Procs
    <2> QED
      BY <1>4, <1>5, <2>1, <2>2
  <1>11. ASSUME NEW p \in Procs, At(p, "sent"), UNCHANGED <<wanted, battery, realtime>>,
                IF realtime THEN applied' = job[p].off ELSE applied' = applied,
                \/ job' = [job EXCEPT ![p].pc = "saving"]
                \/ job' = [job EXCEPT ![p] = NoJob]
         PROVE  KeeperStep
    <2>1. /\ p \in Landed /\ Landed' \subseteq Landed
          /\ \A q \in Landed' : job'[q] = job[q]
      BY <1>3, <1>11 DEF TypeOK, Landed, NoJob, At
    <2>2. Known' = Known
      BY <1>3, <1>6, <1>11, <2>1 DEF KnownFacts
    <2> QED
      BY <1>4, <1>11, <2>2
  <1>12. CASE PollPublished
    BY <1>3, <1>11, <1>12 DEF PollPublished, Order, plant, ghosts, At, Procs
  <1>13. ASSUME NEW w \in Writers, WritePublished(w)
         PROVE  KeeperStep
    BY <1>11, <1>13 DEF WritePublished, plant, ghosts, Procs
  <1>14. ASSUME NEW p \in Procs, ~At(p, "sent"), UNCHANGED <<wanted, battery, realtime, applied>>,
                NEW f, f.pc # "sent", job' = [job EXCEPT ![p] = f]
         PROVE  KeeperStep
    <2>1. Landed' = Landed /\ \A q \in Landed : job'[q] = job[q]
      BY <1>3, <1>14 DEF TypeOK, Landed, At
    <2> QED
      BY <1>4, <1>5, <1>14, <2>1
  <1>15. CASE PollSaved
    BY <1>14, <1>15 DEF PollSaved, ghosts, NoJob, At, Procs
  <1>16. ASSUME NEW w \in Writers, (\E p \in Plans : WriteAsked(w, p)) \/ WriteSaved(w)
         PROVE  KeeperStep
    <2>1. ASSUME NEW p \in Plans, WriteAsked(w, p) PROVE KeeperStep
      BY <1>14, <2>1 DEF WriteAsked, plant, ghosts, At, Procs
    <2>2. CASE WriteSaved(w)
      BY <1>14, <2>2 DEF WriteSaved, ghosts, NoJob, At, Procs
    <2> QED
      BY <1>16, <2>1, <2>2
  <1>17. ASSUME NEW p \in Procs, Refused(p)
         PROVE  KeeperStep
    BY <1>14, <1>17 DEF Refused, plant, ghosts, NoJob, At
  <1>18. ASSUME NEW p \in Procs, Lands(p)
         PROVE  KeeperStep
    <2>1. /\ At(p, "publishing") /\ battery' = job[p].frame
          /\ job' = [job EXCEPT ![p].pc = "sent"]
          /\ applied' = applied /\ realtime' = realtime
      BY <1>18 DEF Lands
    <2>2. p \in Landed' /\ job'[p].off = job[p].off
      BY <1>3, <2>1 DEF TypeOK, Landed, At
    <2>3. job[p].off \in Int /\ job[p].frame \in Schedules
      BY <1>3, <2>1 DEF TypeOK, Maybe, At
    <2>4. CASE p = Poller
      <3>1. realtime /\ wanted' = wanted /\ applied # None
        BY <1>3, <1>18, <2>1, <2>4 DEF Order, InFlight, Lands, Promise, At
      <3>2. Known' = job[p].off /\ Known' # None
        BY <1>3, <2>1, <2>2, <2>3, <3>1 DEF KnownFacts
      <3>3. Known # None
        <4>1. CASE Landed = {}
          BY <1>3, <3>1, <4>1 DEF KnownFacts
        <4>2. CASE Landed # {}
          <5>1. PICK q \in Landed : Known = job[q].off
            BY <1>3, <3>1, <4>2 DEF KnownFacts
          <5> QED
            BY <1>3, <5>1 DEF TypeOK, Landed, At
        <4> QED
          BY <4>1, <4>2
      <3> QED
        BY <1>3, <2>1, <3>1, <3>2, <3>3
        DEF KnownFacts, KeeperStep, Keeper!Next, Keeper!Follow, Keeper!Moved, Shift
    <2>5. CASE p # Poller /\ realtime
      <3>1. wanted'.at = 0
        BY <1>3, <1>18, <2>1, <2>5 DEF InFlight, Lands, Promise, At, Procs
      <3>2. Known' # None
        BY <1>3, <2>1, <2>2, <2>3, <2>5 DEF KnownFacts
      <3> QED
        BY <1>3, <3>1, <3>2
        DEF KnownFacts, KeeperStep, Keeper!Next, Keeper!Write, Keeper!AsAsked, Keeper!Moved, Shift
    <2>6. CASE p # Poller /\ ~realtime
      <3>1. battery'.at = 0
        BY <1>3, <2>1, <2>6 DEF InFlight, At, Procs
      <3>2. Known = applied /\ Known' = applied
        BY <1>3, <2>1, <2>6 DEF KnownFacts
      <3>3. CASE applied # None
        BY <1>3, <3>1, <3>2, <3>3
        DEF KnownFacts, KeeperStep, Keeper!Next, Keeper!Write, Keeper!AsAsked, Keeper!Moved, Shift
      <3>4. CASE applied = None
        BY <1>3, <3>1, <3>2, <3>4
        DEF KnownFacts, KeeperStep, Keeper!Next, Keeper!WritePlain, Keeper!AsAsked
      <3> QED
        BY <3>3, <3>4
    <2> QED
      BY <2>4, <2>5, <2>6
  <1>19. ASSUME NEW o \in Offsets \cup {None}, ClockReads(o)
         PROVE  KeeperStep
    BY <1>4, <1>5, <1>19 DEF ClockReads, plant, ghosts, Landed, At
  <1>20. CASE Crash \/ SettingsChanged
    <2>1. Restarted /\ \A p \in Procs : ~At(p, "sent") /\ ~At(p, "saving")
      BY <1>20 DEF Crash, SettingsChanged, At
    <2>2. applied' = applied /\ battery' = battery /\ wanted' = wanted
      BY <1>3, <2>1 DEF Restarted, plant, Order
    <2>3. Landed = {} /\ Landed' = {}
      BY <2>1 DEF Restarted, NoJob, Landed, At
    <2> QED
      BY <1>3, <1>4, <2>2, <2>3 DEF KnownFacts
  <1>21. CASE UNCHANGED vars
    BY <1>4, <1>5, <1>21 DEF vars, ghosts, Landed, At
  <1> QED
    BY <1>7, <1>8, <1>9, <1>10, <1>12, <1>13, <1>15, <1>16, <1>17, <1>18, <1>19, <1>20, <1>21,
       <1>3
    DEF Next, ClockCheck, Lost

(* The concurrent machinery of polls, writers, saves and restarts does what *)
(* the atomic keeper does, until something upsets it.                       *)
THEOREM Implements == Spec => KeepsSchedule
  <1>1. Init => Keeper!Init
    BY DEF Init, Keeper!Init, Known, Landed, NoJob, At
  <1>2. IInv /\ IInv' /\ [Next]_vars => [Keeper!Next]_(Keeper!vars)
    BY KeeperSteps DEF KeeperStep
  <1> QED
    BY Invariance, <1>1, <1>2, PTL DEF Spec, KeepsSchedule, Keeper!Spec

=============================================================================
