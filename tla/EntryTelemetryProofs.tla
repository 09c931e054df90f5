-------------------------- MODULE EntryTelemetryProofs --------------------------
(***************************************************************************)
(* That no reader thread is left over, that old data is shown as old, and  *)
(* the types, for any number of threads, setups, retries and reloads, and  *)
(* any faults.                                                             *)
(***************************************************************************)
EXTENDS EntryTelemetry, TLAPS

Threads == [pc : ReaderStates, stop : BOOLEAN, held : BOOLEAN, cut : BOOLEAN,
            late : BOOLEAN, id : {None, "probe", "read"}]

FlowSteps == {"form", "error", "ssh", "mqtt", "mqtt_ok", "mqtt_bad", "vendor_down", "done"}
States == {"none", "due", "setup", "loaded", "giving_up", "failing", "unloading", "retry", "error"}

Shape ==
    /\ reader \in [Readers -> Threads]
    /\ \A r \in Readers : At(r, "none") => reader[r] = NoThread
    /\ stopper \in [pc : {"idle", "look", "close", "join", "done", "raised"},
                    of : Readers \cup {None}]
    /\ current \in Readers \cup {None}

(* The entry is there exactly when the form is done with.                   *)
Phases ==
    /\ flow \in [at : FlowSteps, asked : {None, "auto", "ssh", "mqtt"}]
    /\ state \in States /\ source \in {None, "mqtt", "ssh"}
    /\ state = "none" <=> flow.at # "done"
    /\ state = "none" => source = None

(* Somebody reads over MQTT; or has begun to stop what reads.               *)
Runs ==
    \/ flow.at = "mqtt"
    \/ source = "mqtt" /\ state \in {"setup", "loaded"}
Stops ==
    \/ flow.at \in {"mqtt_ok", "mqtt_bad"}
    \/ source = "mqtt" /\ state \in {"giving_up", "failing", "unloading"}

(* How far stop() has come, and what that says of the thread.               *)
StopGets ==
    /\ Told(current) \/ At(current, "none")
    /\ stopper.pc = "close" => reader[current].held \/ At(current, "none")
    /\ stopper.pc = "done" => reader[current].late \/ At(current, "none")
    /\ stopper.pc = "raised" => At(current, "none")

(* Whose thread is whose.                                                   *)
Owner ==
    /\ Runs => /\ current \in Readers /\ stopper.pc = "idle"
               /\ ~At(current, "none") /\ ~Told(current)
    /\ Stops => /\ current \in Readers /\ stopper.of = current /\ stopper.pc # "idle"
                /\ StopGets
    /\ ~Runs /\ ~Stops => current = None /\ stopper.pc = "idle"

(* A thread holds a socket exactly from the dial's end to the clean-up.     *)
Holds == \A r \in Readers : reader[r].held <=> (reader[r].pc \in {"login", "ask", "recv", "cleanup"})

IInv == Shape /\ Phases /\ Holds /\ Owner /\ NoSecondReader

-----------------------------------------------------------------------------
(* What a step of the threads may do to one of them. *)

(* It ends, if it was told to; or it goes on: told or not as before, late   *)
(* if it was, and once told it does not let go of its socket before the end. *)
Moves(q) ==
    \/ reader[q].stop /\ ~At(q, "none") /\ reader'[q] = NoThread
    \/ /\ reader'[q].held <=> (reader'[q].pc \in {"login", "ask", "recv", "cleanup"})
       /\ At(q, "none") => reader'[q] = reader[q]
       /\ ~At(q, "none") =>
             /\ reader'[q].pc # "none" /\ reader'[q].stop = reader[q].stop
             /\ reader[q].late => reader'[q].late
             /\ reader[q].stop /\ reader[q].held => reader'[q].held

(* A thread is alive exactly when it is somewhere in its code.              *)
LEMMA AliveAt == Shape => \A r \in Readers : Alive(r) <=> ~At(r, "none")
  BY DEF Shape, Alive, At, NoThread

(* A thread that does not exist is a thread record too.                     *)
LEMMA NoThreadType == NoThread \in Threads /\ NoThread.pc = "none" /\ ~NoThread.held /\ ~NoThread.stop
  BY DEF NoThread, Threads, ReaderStates

(* Each step of a thread moves it and, at a login, cuts others.             *)
LEMMA ThreadsMove ==
    ASSUME Shape, Holds, NEW r \in Readers, ReaderStep(r) \/ SessionFails(r) \/ DialSlow(r)
    PROVE  reader' \in [Readers -> Threads] /\ stopper' = stopper /\ \A q \in Readers : Moves(q)
  <1>0. /\ reader \in [Readers -> Threads] /\ reader[r] \in Threads
        /\ reader[r].held <=> (reader[r].pc \in {"login", "ask", "recv", "cleanup"})
    BY DEF Shape, Holds
  <1>a. \A q \in Readers : reader'[q] = reader[q] => Moves(q)
    BY DEF Holds, Moves, At
  <1>b. ASSUME NEW t \in Threads, reader' = [reader EXCEPT ![r] = t], stopper' = stopper,
               ~At(r, "none"),
               \/ reader[r].stop /\ t = NoThread
               \/ /\ t.held <=> (t.pc \in {"login", "ask", "recv", "cleanup"})
                  /\ t.pc # "none" /\ t.stop = reader[r].stop
                  /\ reader[r].late => t.late
                  /\ reader[r].stop /\ reader[r].held => t.held
        PROVE  reader' \in [Readers -> Threads] /\ stopper' = stopper /\ \A q \in Readers : Moves(q)
    <2>1. reader' \in [Readers -> Threads] /\ reader'[r] = t
          /\ \A q \in Readers \ {r} : reader'[q] = reader[q]
      BY <1>0, <1>b
    <2>2. Moves(r)
      BY <1>b, <2>1 DEF Moves
    <2> QED
      BY <1>a, <1>b, <2>1, <2>2
  <1>1. CASE LoopHead(r)
    <2>1. CASE Told(r)
      <3>1. reader' = [reader EXCEPT ![r] = NoThread] /\ stopper' = stopper
        BY <1>1, <2>1 DEF LoopHead
      <3>2. ~At(r, "none") /\ reader[r].stop
        BY <1>1, <2>1 DEF LoopHead, At, Told
      <3> QED
        BY <1>b, <3>1, <3>2, NoThreadType
    <2>2. CASE ~Told(r)
      <3> DEFINE t == [reader[r] EXCEPT !.pc = "dial"]
      <3>1. reader' = [reader EXCEPT ![r] = t] /\ stopper' = stopper
        BY <1>1, <2>2 DEF LoopHead
      <3>2. /\ t \in Threads /\ ~At(r, "none") /\ ~reader[r].stop
            /\ t.held <=> (t.pc \in {"login", "ask", "recv", "cleanup"})
            /\ t.pc # "none" /\ t.stop = reader[r].stop
            /\ reader[r].late => t.late
        BY <1>0, <1>1, <2>2 DEF LoopHead, Told, At, Threads, ReaderStates
      <3> QED
        BY <1>b, <3>1, <3>2
    <2> QED
      BY <2>1, <2>2
  <1>2. CASE DialFails(r)
    <2>1. CASE Told(r)
      <3>1. reader' = [reader EXCEPT ![r] = NoThread] /\ stopper' = stopper
        BY <1>2, <2>1 DEF DialFails, AfterError
      <3>2. ~At(r, "none") /\ reader[r].stop
        BY <1>2, <2>1 DEF DialFails, At, Told
      <3> QED
        BY <1>b, <3>1, <3>2, NoThreadType
    <2>2. CASE ~Told(r)
      <3> DEFINE t == [reader[r] EXCEPT !.pc = "wait", !.held = FALSE, !.cut = FALSE]
      <3>1. reader' = [reader EXCEPT ![r] = t] /\ stopper' = stopper
        BY <1>2, <2>2 DEF DialFails, AfterError
      <3>2. t \in Threads
        BY <1>0 DEF Threads, ReaderStates
      <3>3. t.pc = "wait" /\ t.stop = reader[r].stop /\ t.late = reader[r].late
        BY <1>0 DEF Threads
      <3>4. ~t.held
        BY <1>0 DEF Threads
      <3>5. ~At(r, "none") /\ ~reader[r].stop
        BY <1>2, <2>2 DEF DialFails, At, Told
      <3> HIDE DEF t
      <3>6. t.held <=> (t.pc \in {"login", "ask", "recv", "cleanup"})
        BY <3>3, <3>4
      <3> QED
        BY <1>b, <3>1, <3>2, <3>3, <3>5, <3>6
    <2> QED
      BY <2>1, <2>2
  <1>3. CASE Cleanup(r)
    <2>1. CASE Told(r)
      <3>1. reader' = [reader EXCEPT ![r] = NoThread] /\ stopper' = stopper
        BY <1>3, <2>1 DEF Cleanup, AfterError
      <3>2. ~At(r, "none") /\ reader[r].stop
        BY <1>3, <2>1 DEF Cleanup, At, Told
      <3> QED
        BY <1>b, <3>1, <3>2, NoThreadType
    <2>2. CASE ~Told(r)
      <3> DEFINE t == [reader[r] EXCEPT !.pc = "wait", !.held = FALSE, !.cut = FALSE]
      <3>1. reader' = [reader EXCEPT ![r] = t] /\ stopper' = stopper
        BY <1>3, <2>2 DEF Cleanup, AfterError
      <3>2. t \in Threads
        BY <1>0 DEF Threads, ReaderStates
      <3>3. t.pc = "wait" /\ t.stop = reader[r].stop /\ t.late = reader[r].late
        BY <1>0 DEF Threads
      <3>4. ~t.held
        BY <1>0 DEF Threads
      <3>5. ~At(r, "none") /\ ~reader[r].stop
        BY <1>3, <2>2 DEF Cleanup, At, Told
      <3> HIDE DEF t
      <3>6. t.held <=> (t.pc \in {"login", "ask", "recv", "cleanup"})
        BY <3>3, <3>4
      <3> QED
        BY <1>b, <3>1, <3>2, <3>3, <3>5, <3>6
    <2> QED
      BY <2>1, <2>2
  <1>4. CASE Dialled(r)
    <2> DEFINE t == [reader[r] EXCEPT !.pc = "opened", !.cut = FALSE]
    <2>1. reader' = [reader EXCEPT ![r] = t] /\ stopper' = stopper
      BY <1>4 DEF Dialled
    <2>2. t \in Threads
      BY <1>0 DEF Threads, ReaderStates
    <2>3. t.pc = "opened" /\ t.stop = reader[r].stop /\ t.late = reader[r].late
      BY <1>0 DEF Threads
    <2>4. t.held <=> reader[r].held
      BY <1>0 DEF Threads
    <2>5. ~At(r, "none") /\ ~reader[r].held
      BY <1>0, <1>4 DEF Dialled, At
    <2> HIDE DEF t
    <2>6. t.held <=> (t.pc \in {"login", "ask", "recv", "cleanup"})
      BY <2>3, <2>4, <2>5
    <2> QED
      BY <1>b, <2>1, <2>2, <2>3, <2>5, <2>6
  <1>5. CASE Registers(r)
    <2> DEFINE t == [reader[r] EXCEPT !.pc = "login", !.held = TRUE]
    <2>1. reader' = [reader EXCEPT ![r] = t] /\ stopper' = stopper
      BY <1>5 DEF Registers
    <2>2. /\ t \in Threads /\ ~At(r, "none")
          /\ \/ reader[r].stop /\ t = NoThread
             \/ /\ t.held <=> (t.pc \in {"login", "ask", "recv", "cleanup"})
                /\ t.pc # "none" /\ t.stop = reader[r].stop
                /\ reader[r].late => t.late
                /\ reader[r].stop /\ reader[r].held => t.held
      BY <1>0, <1>5 DEF Registers, At, Threads, ReaderStates
    <2> QED
      BY <1>b, <2>1, <2>2
  <1>6. CASE DialSlow(r)
    <2> DEFINE t == [reader[r] EXCEPT !.late = TRUE]
    <2>1. reader' = [reader EXCEPT ![r] = t] /\ stopper' = stopper
      BY <1>6 DEF DialSlow
    <2>2. /\ t \in Threads /\ ~At(r, "none")
          /\ \/ reader[r].stop /\ t = NoThread
             \/ /\ t.held <=> (t.pc \in {"login", "ask", "recv", "cleanup"})
                /\ t.pc # "none" /\ t.stop = reader[r].stop
                /\ reader[r].late => t.late
                /\ reader[r].stop /\ reader[r].held => t.held
      BY <1>0, <1>6 DEF DialSlow, At, Threads, ReaderStates
    <2> QED
      BY <1>b, <2>1, <2>2
  <1>7. CASE AskOrLeave(r)
    <2> DEFINE t == [reader[r] EXCEPT !.pc = IF Told(r) THEN "cleanup" ELSE "recv"]
    <2>1. reader' = [reader EXCEPT ![r] = t] /\ stopper' = stopper
      BY <1>7 DEF AskOrLeave, Goto, Told
    <2>2. /\ t \in Threads /\ ~At(r, "none")
          /\ \/ reader[r].stop /\ t = NoThread
             \/ /\ t.held <=> (t.pc \in {"login", "ask", "recv", "cleanup"})
                /\ t.pc # "none" /\ t.stop = reader[r].stop
                /\ reader[r].late => t.late
                /\ reader[r].stop /\ reader[r].held => t.held
      BY <1>0, <1>7 DEF AskOrLeave, Goto, Told, At, Threads, ReaderStates
    <2> QED
      BY <1>b, <2>1, <2>2
  <1>8. CASE Answered(r)
    <2> DEFINE t == [reader[r] EXCEPT !.pc = "ask"]
    <2>1. reader' = [reader EXCEPT ![r] = t] /\ stopper' = stopper
      BY <1>8 DEF Answered, Goto
    <2>2. /\ t \in Threads /\ ~At(r, "none")
          /\ \/ reader[r].stop /\ t = NoThread
             \/ /\ t.held <=> (t.pc \in {"login", "ask", "recv", "cleanup"})
                /\ t.pc # "none" /\ t.stop = reader[r].stop
                /\ reader[r].late => t.late
                /\ reader[r].stop /\ reader[r].held => t.held
      BY <1>0, <1>8 DEF Answered, Goto, At, Threads, ReaderStates
    <2> QED
      BY <1>b, <2>1, <2>2
  <1>9. CASE NothingUsable(r)
    <2> DEFINE t == [reader[r] EXCEPT !.pc = "ask"]
    <2>1. reader' = [reader EXCEPT ![r] = t] /\ stopper' = stopper
      BY <1>9 DEF NothingUsable, Goto
    <2>2. /\ t \in Threads /\ ~At(r, "none")
          /\ \/ reader[r].stop /\ t = NoThread
             \/ /\ t.held <=> (t.pc \in {"login", "ask", "recv", "cleanup"})
                /\ t.pc # "none" /\ t.stop = reader[r].stop
                /\ reader[r].late => t.late
                /\ reader[r].stop /\ reader[r].held => t.held
      BY <1>0, <1>9 DEF NothingUsable, Goto, At, Threads, ReaderStates
    <2> QED
      BY <1>b, <2>1, <2>2
  <1>10. CASE Waited(r)
    <2> DEFINE t == [reader[r] EXCEPT !.pc = "head"]
    <2>1. reader' = [reader EXCEPT ![r] = t] /\ stopper' = stopper
      BY <1>10 DEF Waited, Goto
    <2>2. /\ t \in Threads /\ ~At(r, "none")
          /\ \/ reader[r].stop /\ t = NoThread
             \/ /\ t.held <=> (t.pc \in {"login", "ask", "recv", "cleanup"})
                /\ t.pc # "none" /\ t.stop = reader[r].stop
                /\ reader[r].late => t.late
                /\ reader[r].stop /\ reader[r].held => t.held
      BY <1>0, <1>10 DEF Waited, Goto, At, Threads, ReaderStates
    <2> QED
      BY <1>b, <2>1, <2>2
  <1>11. CASE SessionFails(r)
    <2> DEFINE t == [reader[r] EXCEPT !.pc = "cleanup"]
    <2>1. reader' = [reader EXCEPT ![r] = t] /\ stopper' = stopper
      BY <1>11 DEF SessionFails, Goto
    <2>2. /\ t \in Threads /\ ~At(r, "none")
          /\ \/ reader[r].stop /\ t = NoThread
             \/ /\ t.held <=> (t.pc \in {"login", "ask", "recv", "cleanup"})
                /\ t.pc # "none" /\ t.stop = reader[r].stop
                /\ reader[r].late => t.late
                /\ reader[r].stop /\ reader[r].held => t.held
      BY <1>0, <1>11 DEF SessionFails, Goto, At, Threads, ReaderStates
    <2> QED
      BY <1>b, <2>1, <2>2
  <1>12. CASE LoggedIn(r)
    BY <1>0, <1>12 DEF LoggedIn, Moves, Holds, Shape, At, Threads, ReaderStates
  <1> QED
    BY <1>1, <1>2, <1>3, <1>4, <1>5, <1>6, <1>7, <1>8, <1>9, <1>10, <1>11,
       <1>12 DEF ReaderStep

-----------------------------------------------------------------------------
(* The four ways in which threads, their owner and stop() change.           *)

(* Threads move, and nothing else that matters does.                        *)
LEMMA MovesKeep ==
    ASSUME IInv, reader' \in [Readers -> Threads], \A q \in Readers : Moves(q),
           UNCHANGED <<stopper, flow, state, source, current>>
    PROVE  IInv'
  <1>1. Shape'
    BY NoThreadType DEF IInv, Shape, Moves, At
  <1>2. Holds'
    BY NoThreadType DEF Moves, Holds
  <1>3. \A q \in Readers : At(q, "none") => At(q, "none")'
    BY NoThreadType DEF Moves, At
  <1>4. ASSUME NEW q \in Readers, Told(q)
        PROVE  /\ Told(q)' \/ At(q, "none")'
               /\ reader[q].late => reader'[q].late \/ At(q, "none")'
               /\ reader[q].held => reader'[q].held \/ At(q, "none")'
    BY <1>3, <1>4, NoThreadType DEF Moves, At, Told
  <1>5. ASSUME NEW q \in Readers, ~Told(q), ~At(q, "none")
        PROVE  ~Told(q)' /\ ~At(q, "none")'
    BY <1>5 DEF Moves, At, Told
  <1>6. Runs' = Runs /\ Stops' = Stops
    BY DEF Runs, Stops
  <1>7. Stops => StopGets'
    <2> SUFFICES ASSUME Stops PROVE StopGets'
      OBVIOUS
    <2>1. current \in Readers /\ current' = current /\ stopper' = stopper /\ StopGets
      BY DEF IInv, Owner
    <2>2. CASE At(current, "none")
      BY <1>3, <2>1, <2>2 DEF StopGets, At
    <2>3. CASE Told(current)
      BY <1>3, <1>4, <2>1, <2>3 DEF StopGets, At, Told
    <2> QED
      BY <2>1, <2>2, <2>3 DEF StopGets
  <1>8. Owner'
    BY <1>5, <1>6, <1>7 DEF IInv, Owner, At, Told
  <1>9. NoSecondReader'
    <2> SUFFICES ASSUME NEW r \in Readers, Alive(r)', r # current
                 PROVE  Told(r)' /\ reader'[r].late
      BY DEF NoSecondReader
    <2>1. ~At(r, "none")' /\ ~At(r, "none")
      BY <1>1, <1>3, NoThreadType DEF Shape, Alive, At, NoThread
    <2>2. Told(r) /\ reader[r].late
      BY <2>1, AliveAt DEF IInv, NoSecondReader
    <2> QED
      BY <1>4, <2>1, <2>2
  <1> QED
    BY <1>1, <1>2, <1>8, <1>9 DEF IInv, Phases

(* Nothing of it changes.                                                   *)
LEMMA StaysPut ==
    ASSUME IInv, UNCHANGED <<reader, stopper, flow, state, source, current>>
    PROVE  IInv'
  <1>1. \A q \in Readers : Moves(q)
    BY DEF IInv, Holds, Moves, At
  <1> QED
    BY <1>1, MovesKeep DEF IInv, Shape

(* The owner changes, but no thread has one before or after.                *)
LEMMA NobodyReads ==
    ASSUME IInv, Phases', ~Runs, ~Stops, ~Runs', ~Stops', UNCHANGED <<reader, stopper, current>>
    PROVE  IInv'
  BY DEF IInv, Shape, Holds, Owner, NoSecondReader, Alive, At, Told

(* A setup goes on with the reader it has.                                  *)
LEMMA ReadsOn ==
    ASSUME IInv, Phases', Runs, ~Stops, Runs', ~Stops', UNCHANGED <<reader, stopper, current>>
    PROVE  IInv'
  BY DEF IInv, Shape, Holds, Owner, NoSecondReader, Alive, At, Told

(* start(): a new thread, and it is the owner's.                            *)
LEMMA Starts ==
    ASSUME IInv, Phases', ~Runs, ~Stops, Runs', ~Stops', Free, NEW id \in {"probe", "read"},
           reader' = Started(id), current' = NewReader, stopper' = stopper
    PROVE  IInv'
  <1>1. NewReader \in Readers /\ ~Alive(NewReader)
    BY DEF Free, NewReader
  <1> DEFINE t == [NoThread EXCEPT !.pc = "head", !.id = id]
  <1>2. t \in Threads /\ t.pc = "head" /\ ~t.held /\ ~t.stop
    BY DEF NoThread, Threads, ReaderStates
  <1>3. reader' = [reader EXCEPT ![NewReader] = t]
    BY DEF Started
  <1> HIDE DEF t
  <1>4. reader' \in [Readers -> Threads] /\ reader'[NewReader] = t
        /\ \A r \in Readers \ {NewReader} : reader'[r] = reader[r]
    BY <1>1, <1>2, <1>3 DEF IInv, Shape
  <1>5. Shape' /\ Holds'
    BY <1>1, <1>2, <1>4 DEF IInv, Shape, Holds, At
  <1>6. Owner'
    BY <1>1, <1>2, <1>4 DEF IInv, Owner, At, Told
  <1>7. NoSecondReader'
    <2>1. current = None /\ None \notin Readers
      BY ReaderAssumption DEF IInv, Owner
    <2> QED
      BY <1>1, <1>4, <2>1 DEF IInv, NoSecondReader, Alive, Told
  <1> QED
    BY <1>5, <1>6, <1>7 DEF IInv

(* stop() begins: the thread that reads is told.                            *)
LEMMA BeginsToStop ==
    ASSUME IInv, Phases', Runs, ~Runs', Stops', Stopping(current), current' = current
    PROVE  IInv'
  <1>1. current \in Readers /\ ~At(current, "none")
    BY DEF IInv, Owner
  <1>2. /\ reader' \in [Readers -> Threads]
        /\ \A r \in Readers \ {current} : reader'[r] = reader[r]
        /\ reader'[current].stop /\ reader'[current].pc = reader[current].pc
        /\ reader'[current].held = reader[current].held
    BY <1>1 DEF Stopping, IInv, Shape, Threads
  <1>3. stopper' = [pc |-> "look", of |-> current]
    BY DEF Stopping
  <1>4. Shape' /\ Holds'
    BY <1>1, <1>2, <1>3 DEF IInv, Shape, Holds, At
  <1>5. Owner'
    BY <1>1, <1>2, <1>3 DEF Owner, StopGets, Told, At
  <1>6. NoSecondReader'
    BY <1>2 DEF IInv, NoSecondReader, Alive, Told
  <1> QED
    BY <1>4, <1>5, <1>6 DEF IInv

(* stop() has returned: whoever called it lets go of the reader.            *)
LEMMA LetsGo ==
    ASSUME IInv, Phases', Stops, Stopped, ~Runs', ~Stops', stopper' = NoStop, current' = None,
           reader' = reader
    PROVE  IInv'
  <1>1. /\ current \in Readers
        /\ (Told(current) /\ reader[current].late) \/ At(current, "none")
    BY DEF IInv, Owner, StopGets, Stopped
  <1>2. Shape' /\ Holds'
    BY DEF IInv, Shape, Holds, At, NoStop
  <1>3. Owner'
    BY DEF Owner, NoStop
  <1>4. NoSecondReader'
    BY <1>1, AliveAt DEF IInv, NoSecondReader, Alive, Told
  <1> QED
    BY <1>2, <1>3, <1>4 DEF IInv

(* stop() goes on: it leaves a socket alone only if it saw none.            *)
LEMMA StopGoesOn == ASSUME IInv, Stop PROVE IInv'
  <1>1. /\ UNCHANGED <<flow, state, source, current>> /\ stopper.pc \in {"look", "close", "join"}
    BY DEF Stop, StopStep, StopLooks, StopCloses, StopJoins, Rest, entryVars
  <1>2. Stops /\ current \in Readers /\ stopper.of = current /\ StopGets
    BY <1>1 DEF IInv, Owner
  <1>3. CASE StopLooks \/ StopJoins
    <2>1. /\ reader' = reader /\ stopper'.of = current
          /\ \/ stopper'.pc = "close" /\ reader[current].held
             \/ stopper'.pc = "join"
             \/ stopper'.pc = "done" /\ (~Alive(current) \/ reader[current].late)
      BY <1>2, <1>3 DEF StopLooks, StopJoins, JoinEnds, IInv, Shape
    <2>2. Shape' /\ Holds'
      <3>1. stopper' \in [pc : {"idle", "look", "close", "join", "done", "raised"},
                          of : Readers \cup {None}]
        BY <1>2, <1>3 DEF StopLooks, StopJoins, IInv, Shape
      <3> QED
        BY <1>1, <2>1, <3>1 DEF IInv, Shape, Holds, At
    <2>3. Owner'
      BY <1>1, <1>2, <2>1, AliveAt DEF IInv, Owner, StopGets, Runs, Stops, At, Told
    <2>4. NoSecondReader'
      BY <1>1, <2>1 DEF IInv, NoSecondReader, Alive, Told
    <2> QED
      BY <1>1, <2>2, <2>3, <2>4 DEF IInv, Phases
  <1>4. CASE StopCloses /\ reader[current].held
    <2>1. /\ reader' = [reader EXCEPT ![current].cut = TRUE]
          /\ stopper' = [stopper EXCEPT !.pc = "join"]
      BY <1>2, <1>4 DEF StopCloses
    <2> DEFINE t == [reader[current] EXCEPT !.cut = TRUE]
    <2>0. reader[current] \in Threads
      BY <1>2 DEF IInv, Shape
    <2>a. t \in Threads /\ t.pc = reader[current].pc
      BY <2>0 DEF Threads
    <2>b. t.held = reader[current].held /\ t.stop = reader[current].stop
      BY <2>0 DEF Threads
    <2>c. reader' = [reader EXCEPT ![current] = t]
      BY <2>1
    <2> HIDE DEF t
    <2>2. /\ reader' \in [Readers -> Threads]
          /\ \A r \in Readers \ {current} : reader'[r] = reader[r]
          /\ reader'[current].pc = reader[current].pc
          /\ reader'[current].stop = reader[current].stop
          /\ reader'[current].held = reader[current].held
      BY <1>2, <2>a, <2>b, <2>c DEF IInv, Shape
    <2>3. ~At(current, "none")
      BY <1>2, <1>4 DEF IInv, Holds, At
    <2>4. /\ stopper' \in [pc : {"idle", "look", "close", "join", "done", "raised"},
                            of : Readers \cup {None}]
          /\ stopper'.of = current /\ stopper'.pc = "join"
      BY <1>2, <2>1 DEF IInv, Shape
    <2>5. Shape' /\ Holds'
      BY <1>1, <1>2, <2>2, <2>3, <2>4 DEF IInv, Shape, Holds, At
    <2>6. Owner'
      BY <1>1, <1>2, <2>2, <2>4 DEF IInv, Owner, StopGets, Runs, Stops, At, Told
    <2>7. NoSecondReader'
      BY <1>1, <1>2, <2>2 DEF IInv, NoSecondReader, Alive, Told
    <2> QED
      BY <1>1, <2>5, <2>6, <2>7 DEF IInv, Phases
  <1>5. CASE StopCloses /\ ~reader[current].held
    <2>1. reader' = reader /\ stopper' = [stopper EXCEPT !.pc = "raised"] /\ stopper.pc = "close"
      BY <1>2, <1>5 DEF StopCloses
    <2>2. At(current, "none")
      BY <1>2, <1>5, <2>1 DEF StopGets
    <2>3. /\ stopper' \in [pc : {"idle", "look", "close", "join", "done", "raised"},
                            of : Readers \cup {None}]
          /\ stopper'.of = current /\ stopper'.pc = "raised"
      BY <1>2, <2>1 DEF IInv, Shape
    <2>4. Shape'
      BY <1>1, <2>1, <2>3 DEF IInv, Shape, At
    <2>7. Holds'
      BY <2>1 DEF IInv, Holds
    <2>5. Owner'
      BY <1>1, <1>2, <2>1, <2>2, <2>3 DEF IInv, Owner, StopGets, Runs, Stops, At, Told
    <2>6. NoSecondReader'
      BY <1>1, <2>1 DEF IInv, NoSecondReader, Alive, Told
    <2> QED
      BY <1>1, <2>4, <2>5, <2>6, <2>7 DEF IInv, Phases
  <1> QED
    BY <1>3, <1>4, <1>5 DEF Stop, StopStep

-----------------------------------------------------------------------------
(* Every step of the specification is one of these. *)

(* The setup form: a probe's reader is started, stopped and let go.         *)
LEMMA FlowKeeps == ASSUME IInv, FlowOnly PROVE IInv'
  <1>0. Phases /\ NoStop.pc = "idle"
    BY DEF IInv, NoStop
  <1>1. ASSUME NEW asked \in {"auto", "ssh", "mqtt"}, Submit(asked) PROVE IInv'
    <2>1. /\ flow.at \in {"form", "error"} /\ state = "none" /\ source = None
          /\ UNCHANGED <<state, source, stopper>>
      BY <1>0, <1>1 DEF Submit, Phases
    <2>2. CASE asked = "mqtt"
      <3>1. ProbeMqtt /\ flow' = [at |-> "mqtt", asked |-> asked]
        BY <1>1, <2>2 DEF Submit
      <3>2. Phases'
        BY <1>0, <2>1, <3>1 DEF Phases, FlowSteps
      <3>3. ~Runs /\ ~Stops /\ Runs' /\ ~Stops'
        BY <2>1, <3>1 DEF Runs, Stops
      <3> QED
        BY <2>1, <3>1, <3>2, <3>3, Starts DEF ProbeMqtt
    <2>3. CASE asked # "mqtt"
      <3>1. flow' = [at |-> "ssh", asked |-> asked] /\ UNCHANGED <<reader, current>>
        BY <1>1, <2>3 DEF Submit
      <3>2. Phases'
        BY <1>0, <2>1, <3>1 DEF Phases, FlowSteps
      <3>3. ~Runs /\ ~Stops /\ ~Runs' /\ ~Stops'
        BY <2>1, <3>1 DEF Runs, Stops
      <3> QED
        BY <2>1, <3>1, <3>2, <3>3, NobodyReads
    <2> QED
      BY <2>2, <2>3
  <1>2. CASE SshProbed \/ AddedUnread
    <2>1. /\ flow.at \in {"ssh", "vendor_down"} /\ state = "none" /\ source = None
          /\ flow' = [at |-> "done", asked |-> None] /\ state' = "due" /\ source' \in {"ssh", "mqtt"}
          /\ UNCHANGED <<reader, stopper, current>>
      BY <1>0, <1>2 DEF SshProbed, AddedUnread, SshProbeEnds, Creates, readerVars, Phases
    <2>2. Phases'
      BY <2>1 DEF Phases, FlowSteps, States
    <2>3. ~Runs /\ ~Stops /\ ~Runs' /\ ~Stops'
      BY <2>1 DEF Runs, Stops
    <2> QED
      BY <2>1, <2>2, <2>3, NobodyReads
  <1>3. ASSUME flow.at = "ssh", FlowTo("error"), UNCHANGED <<reader, stopper, state, source, current>>
        PROVE  IInv'
    <2>1. flow' \in [at : FlowSteps, asked : {None, "auto", "ssh", "mqtt"}] /\ flow'.at = "error"
      BY <1>0, <1>3 DEF FlowTo, Phases, FlowSteps
    <2>2. state = "none" /\ source = None
      BY <1>0, <1>3 DEF Phases
    <2>3. Phases'
      BY <1>0, <1>3, <2>1, <2>2 DEF Phases
    <2>4. ~Runs /\ ~Stops /\ ~Runs' /\ ~Stops'
      BY <1>3, <2>1, <2>2 DEF Runs, Stops
    <2> QED
      BY <1>3, <2>3, <2>4, NobodyReads
  <1>4. CASE SshProbeFails
    BY <1>3, <1>4 DEF SshProbeFails, SshProbeEnds, readerVars
  <1>5. CASE SshProbedNothing
    <2>1. CASE FlowTo("error") /\ UNCHANGED <<reader, handed, current>>
      BY <1>3, <1>5, <2>1 DEF SshProbedNothing, SshProbeEnds
    <2>2. CASE ProbeMqtt /\ FlowTo("mqtt")
      <3>1. /\ flow.at = "ssh" /\ state = "none" /\ source = None
            /\ UNCHANGED <<state, source, stopper>>
        BY <1>0, <1>5 DEF SshProbedNothing, SshProbeEnds, Phases
      <3>2. flow' \in [at : FlowSteps, asked : {None, "auto", "ssh", "mqtt"}] /\ flow'.at = "mqtt"
        BY <1>0, <2>2 DEF FlowTo, Phases, FlowSteps
      <3>3. Phases'
        BY <1>0, <3>1, <3>2 DEF Phases
      <3>4. ~Runs /\ ~Stops /\ Runs' /\ ~Stops'
        BY <3>1, <3>2 DEF Runs, Stops
      <3> QED
        BY <2>2, <3>1, <3>3, <3>4, Starts DEF ProbeMqtt
    <2> QED
      BY <1>5, <2>1, <2>2 DEF SshProbedNothing
  <1>6. CASE MqttProbed \/ MqttProbeTimesOut
    <2>1. /\ flow.at = "mqtt" /\ state = "none" /\ source = None
          /\ FlowTo("mqtt_ok") \/ FlowTo("mqtt_bad")
          /\ Stopping(current) /\ UNCHANGED <<state, source, current>>
      BY <1>0, <1>6 DEF MqttProbed, MqttProbeTimesOut, Phases
    <2>2. flow' \in [at : FlowSteps, asked : {None, "auto", "ssh", "mqtt"}]
          /\ flow'.at \in {"mqtt_ok", "mqtt_bad"}
      BY <1>0, <2>1 DEF FlowTo, Phases, FlowSteps
    <2>3. Phases'
      BY <1>0, <2>1, <2>2 DEF Phases
    <2>4. Runs /\ ~Runs' /\ Stops'
      BY <2>1, <2>2 DEF Runs, Stops
    <2> QED
      BY <2>1, <2>3, <2>4, BeginsToStop
  <1>7. CASE ProbeStopped
    <2>1. /\ flow.at \in {"mqtt_ok", "mqtt_bad"} /\ Stopped /\ stopper' = NoStop /\ current' = None
          /\ reader' = reader /\ state = "none" /\ source = None
      BY <1>0, <1>7 DEF ProbeStopped, Phases
    <2>2. CASE Creates("mqtt")
      <3>1. Phases'
        BY <2>2 DEF Creates, Phases, FlowSteps, States
      <3>2. Stops /\ ~Runs' /\ ~Stops'
        BY <2>1, <2>2 DEF Creates, Runs, Stops
      <3> QED
        BY <2>1, <3>1, <3>2, LetsGo
    <2>3. CASE (FlowTo("vendor_down") \/ FlowTo("error")) /\ UNCHANGED <<state, source>>
      <3>1. flow' \in [at : FlowSteps, asked : {None, "auto", "ssh", "mqtt"}]
            /\ flow'.at \in {"vendor_down", "error"}
        BY <1>0, <2>3 DEF FlowTo, Phases, FlowSteps
      <3>2. Phases'
        BY <1>0, <2>1, <2>3, <3>1 DEF Phases
      <3>3. Stops /\ ~Runs' /\ ~Stops'
        BY <2>1, <2>3, <3>1 DEF Runs, Stops
      <3> QED
        BY <2>1, <3>2, <3>3, LetsGo
    <2> QED
      BY <1>7, <2>2, <2>3 DEF ProbeStopped
  <1> QED
    BY <1>1, <1>2, <1>4, <1>5, <1>6, <1>7 DEF FlowOnly, FlowStep

(* The state of an existing entry changes: its phases hold.                 *)
LEMMA EntryPhases ==
    ASSUME Phases, state # "none", state' \in States \ {"none"}, UNCHANGED <<flow, source>>
    PROVE  Phases' /\ flow.at = "done"
  BY DEF Phases

(* The entry leaves a running state: its reader is told, or has none.       *)
LEMMA LeavesKeeps ==
    ASSUME IInv, state \in {"setup", "loaded"},
           NEW next \in {"giving_up", "failing", "unloading"}, Leaves(next),
           StopsReader \/ ClosesSession
    PROVE  IInv'
  <1>1. /\ Phases' /\ flow.at = "done" /\ state' = next
        /\ UNCHANGED <<flow, source, current>>
    BY EntryPhases DEF Leaves, IInv, States
  <1>2. CASE StopsReader
    <2>1. source = "mqtt" /\ Stopping(current)
      BY <1>2 DEF StopsReader
    <2>2. Runs /\ ~Runs' /\ Stops'
      BY <1>1, <2>1 DEF Runs, Stops
    <2> QED
      BY <1>1, <2>1, <2>2, BeginsToStop
  <1>3. CASE ClosesSession
    <2>1. source = "ssh" /\ UNCHANGED <<reader, stopper>>
      BY <1>3 DEF ClosesSession
    <2>2. ~Runs /\ ~Stops /\ ~Runs' /\ ~Stops'
      BY <1>1, <2>1 DEF Runs, Stops
    <2> QED
      BY <1>1, <2>1, <2>2, NobodyReads
  <1> QED
    BY <1>2, <1>3

(* Setup, its ends, the reload and the end of a shutdown.                   *)
LEMMA EntryKeeps == ASSUME IInv, EntryStep \/ PlatformsFail \/ Reload PROVE IInv'
  <1>0. Phases
    BY DEF IInv
  <1>1. CASE SetupBegins
    <2>1. /\ state \in {"due", "retry"} /\ state' = "setup" /\ UNCHANGED <<stopper, flow, source>>
      BY <1>1 DEF SetupBegins
    <2>2. Phases' /\ flow.at = "done"
      BY <1>0, <2>1, EntryPhases DEF States
    <2>3. ~Runs /\ ~Stops /\ ~Stops'
      BY <2>1, <2>2 DEF Runs, Stops
    <2>4. CASE source = "mqtt" /\ Free /\ reader' = Started("read") /\ current' = NewReader
      <3>1. Runs'
        BY <2>1, <2>4 DEF Runs
      <3> QED
        BY <2>1, <2>2, <2>3, <2>4, <3>1, Starts
    <2>5. CASE source = "ssh" /\ UNCHANGED <<reader, current>>
      <3>1. ~Runs'
        BY <2>1, <2>2, <2>5 DEF Runs
      <3> QED
        BY <2>1, <2>2, <2>3, <2>5, <3>1, NobodyReads
    <2> QED
      BY <1>1, <2>4, <2>5 DEF SetupBegins
  <1>2. CASE SetupTimesOut
    BY <1>2, LeavesKeeps DEF SetupTimesOut
  <1>3. CASE PlatformsFail
    BY <1>3, LeavesKeeps DEF PlatformsFail
  <1>4. CASE Reload
    BY <1>4, LeavesKeeps DEF Reload
  <1>5. CASE SetupSucceeds
    <2>1. /\ state = "setup" /\ state' = "loaded"
          /\ UNCHANGED <<reader, stopper, flow, source, current>>
      BY <1>5 DEF SetupSucceeds, readerVars
    <2>2. Phases' /\ flow.at = "done"
      BY <1>0, <2>1, EntryPhases DEF States
    <2>3. ~Stops /\ ~Stops' /\ Runs' = Runs
      BY <2>1, <2>2 DEF Runs, Stops
    <2> QED
      BY <2>1, <2>2, <2>3, ReadsOn, NobodyReads
  <1>6. CASE ShutDown
    <2>1. /\ state \in {"giving_up", "failing", "unloading"} /\ state' \in {"retry", "error", "due"}
          /\ (source = "mqtt" => Stopped) /\ stopper' = NoStop /\ current' = None
          /\ UNCHANGED <<reader, flow, source>>
      BY <1>6 DEF ShutDown, Then
    <2>2. Phases' /\ flow.at = "done"
      BY <1>0, <2>1, EntryPhases DEF States
    <2>3. ~Runs /\ ~Runs' /\ ~Stops'
      BY <2>1, <2>2 DEF Runs, Stops
    <2>4. CASE source = "mqtt"
      <3>1. Stops
        BY <2>1, <2>4 DEF Stops
      <3> QED
        BY <2>1, <2>2, <2>3, <2>4, <3>1, LetsGo
    <2>5. CASE source # "mqtt"
      <3>1. ~Stops
        BY <2>1, <2>2, <2>5 DEF Stops
      <3>2. current = None
        BY <2>3, <3>1 DEF IInv, Owner
      <3>3. Shape' /\ Holds'
        BY <2>1 DEF IInv, Shape, Holds, At, NoStop
      <3>4. Owner'
        BY <2>1, <2>3 DEF Owner, NoStop
      <3>5. NoSecondReader'
        BY <2>1, <3>2 DEF IInv, NoSecondReader, Alive, Told
      <3> QED
        BY <2>2, <3>3, <3>4, <3>5 DEF IInv
    <2> QED
      BY <2>4, <2>5
  <1> QED
    BY <1>1, <1>2, <1>3, <1>4, <1>5, <1>6 DEF EntryStep

(* The two coordinators, and the SSH session's polls.                       *)
LEMMA CoordinatorsKeep ==
    ASSUME IInv,
           \/ \E r \in Readers : Applied(r)
           \/ Tick \/ WatchdogLooks
           \/ Polls \/ PollBegins \/ PollSucceeds \/ PollUndecoded \/ PollFails
    PROVE  IInv'
  <1>1. CASE (\E r \in Readers : Applied(r)) \/ Tick \/ WatchdogLooks \/ Polls \/ PollBegins
             \/ PollSucceeds
    <2>1. UNCHANGED <<reader, stopper, flow, state, source, current>>
      BY <1>1 DEF Applied, Tick, WatchdogLooks, Polls, PollBegins, PollSucceeds, PollEnds, entryVars,
                  readerVars
    <2> QED
      BY <2>1, StaysPut
  <1>2. CASE PollUndecoded \/ PollFails
    <2>a. source = "ssh" /\ UNCHANGED <<reader, stopper, flow, source, current>>
      BY <1>2 DEF PollUndecoded, PollFails, PollEnds, readerVars
    <2>b. UNCHANGED state \/ Refuse
      BY <1>2 DEF PollUndecoded, PollFails
    <2>1. source = "ssh" /\ UNCHANGED <<reader, stopper, flow, source, current>>
          /\ (state' = state \/ (state = "setup" /\ state' = "retry"))
      BY <2>a, <2>b DEF Refuse
    <2>2. CASE state' = state
      BY <2>1, <2>2, StaysPut
    <2>3. CASE state = "setup" /\ state' = "retry"
      <3>1. Phases' /\ flow.at = "done"
        BY <2>1, <2>3, EntryPhases DEF IInv, States
      <3>2. ~Runs /\ ~Stops /\ ~Runs' /\ ~Stops'
        BY <2>1, <2>3, <3>1 DEF Runs, Stops
      <3> QED
        BY <2>1, <3>1, <3>2, NobodyReads
    <2> QED
      BY <2>1, <2>2, <2>3
  <1> QED
    BY <1>1, <1>2

(* The link cuts sessions and leaves the threads where they are.            *)
LEMMA LinkKeeps == ASSUME IInv, LinkDrops \/ LinkReturns PROVE IInv'
  <1>1. CASE LinkDrops
    <2>1. ASSUME NEW r \in Readers
          PROVE  /\ reader'[r] \in Threads /\ reader'[r].pc = reader[r].pc
                 /\ reader'[r].stop = reader[r].stop /\ reader'[r].held = reader[r].held
                 /\ reader'[r].late = reader[r].late
                 /\ At(r, "none") => reader'[r] = reader[r]
      <3> DEFINE c == reader[r].cut \/ reader[r].pc \in {"opened", "login", "ask", "recv"}
                 t == [reader[r] EXCEPT !.cut = c]
      <3>1. reader[r] \in Threads /\ c \in BOOLEAN
        BY DEF IInv, Shape, Threads
      <3>2. reader'[r] = t
        BY <1>1, <2>1 DEF LinkDrops
      <3>3. At(r, "none") => c = reader[r].cut
        BY <3>1 DEF At, Threads
      <3> HIDE DEF c
      <3>4. t \in Threads /\ t.pc = reader[r].pc
        BY <3>1 DEF Threads
      <3>5. t.stop = reader[r].stop /\ t.held = reader[r].held
        BY <3>1 DEF Threads
      <3>6. t.late = reader[r].late
        BY <3>1 DEF Threads
      <3>7. At(r, "none") => t = reader[r]
        BY <3>1, <3>3 DEF Threads
      <3> QED
        BY <3>2, <3>4, <3>5, <3>6, <3>7
    <2>2. reader' \in [Readers -> Threads]
      BY <1>1, <2>1 DEF LinkDrops
    <2>3. \A r \in Readers : Moves(r)
      BY <2>1 DEF Moves, IInv, Holds, At
    <2> QED
      BY <1>1, <2>2, <2>3, MovesKeep DEF LinkDrops, entryVars
  <1>2. CASE LinkReturns
    BY <1>2, StaysPut DEF LinkReturns, readerVars, entryVars
  <1> QED
    BY <1>1, <1>2

(* Home Assistant restarts without a thread.                                *)
LEMMA RestartKeeps == ASSUME IInv, Restart PROVE IInv'
  <1>1. /\ state # "none" /\ state' = "due" /\ UNCHANGED <<flow, source>> /\ Phases
        /\ reader' = [r \in Readers |-> NoThread] /\ stopper' = NoStop /\ current' = None
    BY DEF Restart, IInv
  <1>2. Phases' /\ flow.at = "done"
    BY <1>1, EntryPhases DEF States
  <1>3. ~Runs' /\ ~Stops'
    BY <1>1, <1>2 DEF Runs, Stops
  <1>4. Shape' /\ Holds'
    BY <1>1, NoThreadType DEF Shape, Holds, At, NoStop
  <1>5. Owner' /\ NoSecondReader'
    BY <1>1, <1>3 DEF Owner, NoStop, NoSecondReader, Alive
  <1> QED
    BY <1>2, <1>4, <1>5 DEF IInv

(* Nothing runs before the form is sent.                                    *)
LEMMA InvInit == Init => IInv
  <1> SUFFICES ASSUME Init PROVE IInv
    OBVIOUS
  <1>1. /\ reader = [r \in Readers |-> NoThread] /\ stopper = NoStop /\ current = None
        /\ flow = [at |-> "form", asked |-> None] /\ state = "none" /\ source = None
    BY DEF Init, ReaderInit
  <1>2. Shape /\ Holds
    BY <1>1, NoThreadType DEF Shape, Holds, At, NoStop
  <1>3. Phases
    BY <1>1 DEF Phases, FlowSteps, States
  <1>4. Owner /\ NoSecondReader
    BY <1>1 DEF Owner, Runs, Stops, NoStop, NoSecondReader, Alive
  <1> QED
    BY <1>2, <1>3, <1>4 DEF IInv

(* The inductive invariant holds in every behaviour.                        *)
THEOREM TelemetryInvariant == Spec => []IInv
  <1>1. ASSUME IInv, [Next]_vars PROVE IInv'
    <2>1. ASSUME NEW r \in Readers, Thread(r) \/ Disturbed(r) PROVE IInv'
      <3>1. /\ ReaderStep(r) \/ SessionFails(r) \/ DialSlow(r)
            /\ UNCHANGED <<flow, state, source, current>>
        BY <2>1 DEF Thread, Disturbed, Rest, entryVars
      <3> QED
        BY <1>1, <3>1, ThreadsMove, MovesKeep DEF IInv
    <2>2. CASE UNCHANGED vars
      BY <1>1, <2>2, StaysPut DEF vars, readerVars
    <2> QED
      BY <1>1, <2>1, <2>2, FlowKeeps, EntryKeeps, StopGoesOn, CoordinatorsKeep, LinkKeeps,
         RestartKeeps DEF Next
  <1> QED
    BY <1>1, InvInit, PTL DEF Spec

(* No thread goes on reading the battery after its owner let it go: what is *)
(* left of it was told to stop and is only finishing a slow dial            *)
(* (MqttReader.stop, async_shutdown, _async_probe_mqtt).                    *)
THEOREM NoThreadLeftOver == Spec => []NoSecondReader
  <1>1. IInv => NoSecondReader
    BY DEF IInv
  <1> QED
    BY <1>1, TelemetryInvariant, PTL

-----------------------------------------------------------------------------
(* The age of what the entities show. *)

Coords == [has : BOOLEAN, up : BOOLEAN, age : Nat, timer : Nat,
           failures : Nat, missed : Nat, bare : BOOLEAN]

(* Over MQTT the next look comes before the data is too old; over SSH the   *)
(* failures count the polls missed, unless one decoded to nothing.          *)
Ages ==
    /\ coord \in Coords
    /\ state = "none" => coord = Blank
    /\ source = "mqtt" /\ coord.up => coord.age + coord.timer <= Stale + 1
    /\ source = "ssh" /\ ~coord.bare =>
          coord.missed = coord.failures /\ (coord.up => coord.missed <= Grace)

(* A new coordinator shows nothing.                                         *)
LEMMA BlankAges ==
    /\ Blank \in Coords /\ ~Blank.up /\ ~Blank.bare
    /\ Blank.missed = 0 /\ Blank.failures = 0
  BY DEF Blank, Coords

(* A coordinator whose source goes on.                                      *)
LEMMA AgesKept ==
    ASSUME Ages, Phases, UNCHANGED <<source, coord>>, state' = "none" => state = "none"
    PROVE  Ages'
  BY DEF Ages

(* A push, the clock and a look at the age.                                 *)
LEMMA MqttAges ==
    ASSUME Ages, Phases, Tick \/ WatchdogLooks \/ \E r \in Readers : Applied(r)
    PROVE  Ages'
  <1>0. coord \in Coords /\ coord.age \in Nat /\ coord.timer \in Nat /\ Stale \in Nat
    BY EntryAssumption DEF Ages, Coords
  <1>1. UNCHANGED <<state, source>>
    BY DEF Tick, WatchdogLooks, Applied, entryVars
  <1>2. CASE coord' = coord
    BY <1>1, <1>2 DEF Ages
  <1>3. ASSUME NEW a \in Nat, NEW n \in Nat, source = "mqtt", coord' \in Coords,
               coord'.age = a, coord'.timer = n, coord'.up => a + n <= Stale + 1
        PROVE  Ages'
    <2>1. state # "none" /\ source # "ssh"
      BY <1>3, EntryAssumption DEF Phases
    <2> QED
      BY <1>1, <1>3, <2>1 DEF Ages
  <1>4. CASE Tick
    <2> DEFINE a == Cap(coord.age + 1, Stale + 2)
    <2> DEFINE n == coord.timer - 1
    <2> DEFINE c == [coord EXCEPT !.age = a, !.timer = n]
    <2>1. a \in Nat /\ a <= coord.age + 1 /\ n \in Nat /\ source = "mqtt"
      BY <1>0, <1>4 DEF Tick, Watches, Cap
    <2>2. coord' = c
      BY <1>4 DEF Tick
    <2>3. coord.up /\ source = "mqtt" => a + n <= Stale + 1
      BY <1>0, <2>1 DEF Ages
    <2> HIDE DEF a, n
    <2>4. c \in Coords
      BY <1>0, <2>1 DEF Coords
    <2>5. c.up = coord.up
      BY <1>0 DEF Coords
    <2>6. c.age = a /\ c.timer = n
      BY <1>0 DEF Coords
    <2> HIDE DEF c
    <2> QED
      BY <1>3, <2>1, <2>2, <2>3, <2>4, <2>5, <2>6
  <1>5. CASE WatchdogLooks
    <2> DEFINE u == coord.age <= Stale
    <2> DEFINE c == [coord EXCEPT !.up = u, !.timer = 1]
    <2>1. source = "mqtt" /\ coord' = c
      BY <1>5 DEF WatchdogLooks, Watches, Interval
    <2>2. u \in BOOLEAN /\ (u => coord.age + 1 <= Stale + 1)
      BY <1>0
    <2> HIDE DEF u
    <2>3. c \in Coords
      BY <1>0, <2>2 DEF Coords
    <2>4. c.up = u
      BY <1>0, <2>2 DEF Coords
    <2>5. c.age = coord.age /\ c.timer = 1
      BY <1>0 DEF Coords
    <2> HIDE DEF c
    <2> QED
      BY <1>0, <1>3, <2>1, <2>2, <2>3, <2>4, <2>5
  <1>6. ASSUME NEW r \in Readers, Applied(r) PROVE Ages'
    <2> DEFINE c == [coord EXCEPT !.has = TRUE, !.up = TRUE, !.age = 0, !.timer = 1]
    <2>1. coord' = coord \/ (source = "mqtt" /\ coord' = c)
      BY <1>6 DEF Applied, Interval
    <2>2. c \in Coords
      BY <1>0 DEF Coords
    <2>3. c.up = TRUE
      BY <1>0 DEF Coords
    <2>4. c.age = 0 /\ c.timer = 1
      BY <1>0 DEF Coords
    <2> HIDE DEF c
    <2> QED
      BY <1>0, <1>2, <1>3, <2>1, <2>2, <2>3, <2>4
  <1> QED
    BY <1>4, <1>5, <1>6

(* The three ends of a poll.                                                *)
LEMMA SshAges ==
    ASSUME Ages, Phases, Phases', PollSucceeds \/ PollUndecoded \/ PollFails
    PROVE  Ages'
  <1>0. coord \in Coords /\ coord.failures \in Nat /\ coord.missed \in Nat /\ Grace \in Nat
    BY EntryAssumption DEF Ages, Coords
  <1>1. source = "ssh" /\ UNCHANGED <<source, flow>>
    BY DEF PollSucceeds, PollUndecoded, PollFails, PollEnds
  <1>2. state' # "none"
    BY <1>1, EntryAssumption DEF Phases
  <1>3. ASSUME coord' \in Coords,
               ~coord'.bare => coord'.missed = coord'.failures /\ (coord'.up => coord'.missed <= Grace)
        PROVE  Ages'
    BY <1>1, <1>2, <1>3 DEF Ages
  <1>4. CASE PollSucceeds
    <2> DEFINE c == [coord EXCEPT !.has = TRUE, !.up = TRUE, !.failures = 0, !.missed = 0, !.bare = FALSE]
    <2>1. coord' = c
      BY <1>4 DEF PollSucceeds
    <2>2. c \in Coords
      BY <1>0 DEF Coords
    <2>3. c.missed = 0 /\ c.failures = 0
      BY <1>0 DEF Coords
    <2> HIDE DEF c
    <2> QED
      BY <1>0, <1>3, <2>1, <2>2, <2>3
  <1>5. CASE PollUndecoded
    <2> DEFINE m == Cap(coord.missed + 1, Grace + 1)
    <2> DEFINE c == [coord EXCEPT !.up = FALSE, !.failures = 0, !.missed = m, !.bare = TRUE]
    <2>1. coord' = c
      BY <1>5 DEF PollUndecoded
    <2>2. m \in Nat
      BY <1>0 DEF Cap
    <2> HIDE DEF m
    <2>3. c \in Coords
      BY <1>0, <2>2 DEF Coords
    <2>4. c.bare = TRUE
      BY <1>0 DEF Coords
    <2> HIDE DEF c
    <2> QED
      BY <1>3, <2>1, <2>3, <2>4
  <1>6. CASE PollFails
    <2> DEFINE u == StillServed(coord)
    <2> DEFINE f == Cap(coord.failures + 1, Grace + 1)
    <2> DEFINE m == Cap(coord.missed + 1, Grace + 1)
    <2> DEFINE c == [coord EXCEPT !.up = u, !.failures = f, !.missed = m]
    <2>1. coord' = c
      BY <1>6 DEF PollFails
    <2>2. f \in Nat /\ m \in Nat /\ u \in BOOLEAN
      BY <1>0 DEF Cap, StillServed, Coords
    <2>3. u => f <= Grace
      BY <1>0 DEF Cap, StillServed
    <2>4. coord.missed = coord.failures => m = f
      OBVIOUS
    <2> HIDE DEF u, f, m
    <2>5. c \in Coords
      BY <1>0, <2>2 DEF Coords
    <2>6. c.up = u
      BY <1>0, <2>2 DEF Coords
    <2>7. c.failures = f /\ c.missed = m
      BY <1>0 DEF Coords
    <2>8. c.bare = coord.bare
      BY <1>0 DEF Coords
    <2>9. ~coord.bare => coord.missed = coord.failures
      BY <1>1 DEF Ages
    <2> HIDE DEF c
    <2> QED
      BY <1>3, <2>1, <2>3, <2>4, <2>5, <2>6, <2>7, <2>8, <2>9
  <1> QED
    BY <1>4, <1>5, <1>6

(* Every step keeps the ages.                                               *)
LEMMA AgesNext == Ages /\ Phases /\ Phases' /\ [Next]_vars => Ages'
  <1> SUFFICES ASSUME Ages, Phases, Phases', [Next]_vars PROVE Ages'
    OBVIOUS
  <1>1. CASE SetupBegins \/ ShutDown \/ Restart
    <2>1. coord' = Blank
      BY <1>1 DEF SetupBegins, ShutDown, Restart
    <2> QED
      BY <2>1, BlankAges, EntryAssumption DEF Ages
  <1>2. CASE FlowOnly
    <2>1. CASE state' = "none"
      <3>1. state = "none" /\ coord' = coord /\ source' = None
        BY <1>2, <2>1 DEF FlowOnly, FlowStep, SshProbed, SshProbeFails, SshProbedNothing, MqttProbed,
             MqttProbeTimesOut, ProbeStopped, AddedUnread, Submit, Creates, Phases
      <3> QED
        BY <3>1, BlankAges DEF Ages
    <2>2. CASE state' # "none"
      <3>1. state = "none" /\ coord' = coord
        BY <1>2, <2>2 DEF FlowOnly, FlowStep, SshProbed, SshProbeFails, SshProbedNothing, MqttProbed,
             MqttProbeTimesOut, ProbeStopped, AddedUnread, Submit, SshProbeEnds, Phases
      <3>2. coord' = Blank
        BY <3>1 DEF Ages
      <3> QED
        BY <2>2, <3>2, BlankAges, EntryAssumption DEF Ages
    <2> QED
      BY <2>1, <2>2
  <1>3. CASE SetupTimesOut \/ SetupSucceeds \/ PlatformsFail \/ Reload \/ Stop \/ Polls \/ PollBegins
             \/ LinkDrops \/ LinkReturns \/ UNCHANGED vars
             \/ \E r \in Readers : Thread(r) \/ Disturbed(r)
    <2>1. UNCHANGED <<source, coord>>
      BY <1>3 DEF SetupTimesOut, SetupSucceeds, PlatformsFail, Reload, Leaves, Stop, Polls, PollBegins,
             LinkDrops, LinkReturns, vars, Thread, Disturbed, Rest, entryVars
    <2>2. state' = "none" => state = "none"
      BY <1>3 DEF SetupTimesOut, SetupSucceeds, PlatformsFail, Reload, Leaves, Stop, Polls, PollBegins,
             LinkDrops, LinkReturns, vars, Thread, Disturbed, Rest, entryVars
    <2> QED
      BY <2>1, <2>2, AgesKept
  <1> QED
    BY <1>1, <1>2, <1>3, MqttAges, SshAges DEF Next, EntryStep

(* The ages hold in every behaviour.                                        *)
THEOREM AgesInvariant == Spec => []Ages
  <1>1. Init => Ages
    BY BlankAges, EntryAssumption DEF Init, Ages
  <1>2. IInv => Phases
    BY DEF IInv
  <1> QED
    BY <1>1, <1>2, AgesNext, TelemetryInvariant, PTL DEF Spec

(* MQTT entities that show a value have one no older than a look of the     *)
(* watchdog past stale_seconds (MqttReadCoordinator._check_stale).          *)
THEOREM StaleShown == Spec => []StaleIsShown
  <1>1. Ages => StaleIsShown
    BY EntryAssumption DEF Ages, StaleIsShown, Watches, Coords
  <1> QED
    BY <1>1, AgesInvariant, PTL

(* SSH entities show old data for FAILURE_GRACE missed polls at most        *)
(* (HomepowerCoordinator._async_update_data).                               *)
THEOREM HeldRecent == Spec => []HeldIsRecent
  <1>1. Ages => HeldIsRecent
    BY DEF Ages, HeldIsRecent
  <1> QED
    BY <1>1, AgesInvariant, PTL

-----------------------------------------------------------------------------
(* The rest of the types: the link and what was handed over, the session    *)
(* and its attempts, the coordinator's counts.                              *)

Counted ==
    /\ link \in BOOLEAN /\ faults \in 0..MaxFaults
    /\ handed \in [Readers -> BOOLEAN]

Session ==
    /\ conn \in {"none", "open", "stale"}
    /\ poll \in [pc : {"idle", "connect", "run", "pause", "got", "failed"}, try : 0..Attempts]

Limits ==
    /\ coord.age \in 0..Stale + 2 /\ coord.timer \in 0..Interval
    /\ coord.failures \in 0..Grace + 1 /\ coord.missed \in 0..Grace + 1

(* A fault is only counted while there is room for one.                     *)
LEMMA FaultCounted ==
    ASSUME faults \in 0..MaxFaults, NEW kind, Fault(kind)
    PROVE  faults' \in 0..MaxFaults
  BY LinkAssumption DEF Fault

(* The link, the count and the readings handed over keep their types.       *)
LEMMA CountedNext == Counted /\ [Next]_vars => Counted'
  <1> SUFFICES ASSUME Counted, [Next]_vars PROVE Counted'
    OBVIOUS
  <1>0. /\ link \in BOOLEAN /\ faults \in 0..MaxFaults
        /\ handed \in [Readers -> BOOLEAN]
    BY DEF Counted
  <1>1. ASSUME link' \in BOOLEAN, handed' \in [Readers -> BOOLEAN],
               UNCHANGED faults \/ \E kind \in FaultKinds : Fault(kind)
        PROVE  Counted'
    BY <1>0, <1>1, FaultCounted DEF Counted
  <1>2. Unhanded \in [Readers -> BOOLEAN]
    BY <1>0 DEF Unhanded
  <1>3. CASE FlowOnly
    <2>1. UNCHANGED link
      BY <1>3 DEF FlowOnly, FlowStep, SshProbed, SshProbeFails, SshProbedNothing, MqttProbed,
         MqttProbeTimesOut, ProbeStopped, AddedUnread, Submit
    <2>2. handed' = handed \/ handed' = Unhanded
      BY <1>3 DEF FlowOnly, FlowStep, SshProbed, SshProbeFails, SshProbedNothing, MqttProbed,
         MqttProbeTimesOut, ProbeStopped, AddedUnread, Submit, ProbeMqtt, readerVars
    <2>3. UNCHANGED faults \/ \E kind \in FaultKinds : Fault(kind)
      BY <1>3 DEF FlowOnly, FlowStep, SshProbed, SshProbeFails, SshProbedNothing, MqttProbed,
         MqttProbeTimesOut, ProbeStopped, AddedUnread, Submit, Fault
    <2> QED
      BY <1>0, <1>1, <1>2, <2>1, <2>2, <2>3
  <1>4. CASE EntryStep \/ PlatformsFail \/ Reload
    <2>1. UNCHANGED link
      BY <1>4 DEF EntryStep, SetupBegins, SetupTimesOut, SetupSucceeds, ShutDown, PlatformsFail,
         Reload, Leaves
    <2>2. handed' = handed \/ handed' = Unhanded
      BY <1>4 DEF EntryStep, SetupBegins, SetupTimesOut, SetupSucceeds, ShutDown, PlatformsFail,
         Reload, Leaves, readerVars
    <2>3. UNCHANGED faults \/ \E kind \in FaultKinds : Fault(kind)
      BY <1>4 DEF EntryStep, SetupBegins, SetupTimesOut, SetupSucceeds, ShutDown, PlatformsFail,
         Reload, Fault
    <2> QED
      BY <1>0, <1>1, <1>2, <2>1, <2>2, <2>3
  <1>5. ASSUME NEW r \in Readers, Thread(r) \/ Disturbed(r) \/ Applied(r) PROVE Counted'
    <2>1. UNCHANGED link
      BY <1>5 DEF Thread, Disturbed, Applied, ReaderStep, LoopHead, DialFails, Dialled, Registers,
         LoggedIn, AskOrLeave, Answered, NothingUsable, Cleanup, Waited, SessionFails, DialSlow
    <2>2. handed' = handed \/ handed' = [handed EXCEPT ![r] = TRUE]
          \/ handed' = [handed EXCEPT ![r] = FALSE]
      BY <1>5 DEF Thread, Disturbed, Applied, ReaderStep, LoopHead, DialFails, Dialled, Registers,
         LoggedIn, AskOrLeave, Answered, NothingUsable, Cleanup, Waited, SessionFails, DialSlow
    <2>3. UNCHANGED faults \/ \E kind \in FaultKinds : Fault(kind)
      BY <1>5 DEF Thread, Disturbed, Applied, ReaderStep, LoopHead, DialFails, Dialled, Registers,
         LoggedIn, AskOrLeave, Answered, NothingUsable, Cleanup, Waited, SessionFails, DialSlow,
         Fault
    <2> QED
      BY <1>0, <1>1, <2>1, <2>2, <2>3
  <1>6. CASE Stop \/ Tick \/ WatchdogLooks \/ PollBegins \/ PollSucceeds \/ PollUndecoded \/ PollFails
             \/ UNCHANGED vars
    <2>1. UNCHANGED <<link, handed>>
      BY <1>6 DEF Stop, StopStep, StopLooks, StopCloses, StopJoins, Tick, WatchdogLooks, PollBegins,
         PollSucceeds, PollUndecoded, PollFails, PollEnds, readerVars, vars
    <2>2. UNCHANGED faults \/ \E kind \in FaultKinds : Fault(kind)
      BY <1>6 DEF Stop, StopStep, StopLooks, StopCloses, StopJoins, Tick, WatchdogLooks, PollBegins,
         PollSucceeds, PollUndecoded, PollFails, Fault, vars
    <2> QED
      BY <1>0, <1>1, <2>1, <2>2
  <1>7. CASE Polls
    <2>1. UNCHANGED <<link, handed>>
      BY <1>7 DEF Polls, SshStep, SshDialled, SshDialFails, FramesRead, NoFrames, CommandBreaks,
         Paused, readerVars
    <2>2. UNCHANGED faults \/ \E kind \in FaultKinds : Fault(kind)
      BY <1>7 DEF Polls, SshStep, SshDialled, SshDialFails, FramesRead, NoFrames, CommandBreaks,
         Paused, Fault
    <2> QED
      BY <1>0, <1>1, <2>1, <2>2
  <1>8. CASE LinkDrops \/ LinkReturns \/ Restart
    <2>1. link' \in BOOLEAN
      BY <1>0, <1>8 DEF LinkDrops, LinkReturns, Restart
    <2>2. handed' = handed \/ handed' = [r \in Readers |-> FALSE]
      BY <1>8 DEF LinkDrops, LinkReturns, Restart, readerVars
    <2>3. UNCHANGED faults \/ \E kind \in FaultKinds : Fault(kind)
      BY <1>8 DEF LinkDrops, LinkReturns, Restart, Fault
    <2> QED
      BY <1>0, <1>1, <2>1, <2>2, <2>3
  <1> QED
    BY <1>3, <1>4, <1>5, <1>6, <1>7, <1>8 DEF Next

(* An attempt begins within the attempts, and a failed one leads to the     *)
(* next only while one is left.                                             *)
LEMMA AttemptTypes ==
    /\ \A c : Attempt(c, 1) \in [pc : {"connect", "run"}, try : 0..Attempts]
    /\ NoPoll \in [pc : {"idle"}, try : 0..Attempts]
    /\ Session => \A c : Attempt(c, poll.try) \in [pc : {"connect", "run"}, try : 0..Attempts]
    /\ Session /\ AttemptFails =>
          poll' \in [pc : {"pause", "failed"}, try : 0..Attempts]
  <1>1. Attempts \in Nat /\ Attempts >= 1
    BY GatewayAssumption
  <1>2. ASSUME NEW c, NEW n \in 0..Attempts
        PROVE  Attempt(c, n) \in [pc : {"connect", "run"}, try : 0..Attempts]
    BY <1>1 DEF Attempt
  <1>3. NoPoll \in [pc : {"idle"}, try : 0..Attempts]
    BY <1>1 DEF NoPoll
  <1>4. ASSUME Session, AttemptFails
        PROVE  poll' \in [pc : {"pause", "failed"}, try : 0..Attempts]
    <2>1. poll.try \in 0..Attempts
      BY <1>4 DEF Session
    <2>2. CASE poll.try < Attempts
      BY <1>1, <1>4, <2>1, <2>2 DEF AttemptFails
    <2>3. CASE ~(poll.try < Attempts)
      <3>1. poll' = [poll EXCEPT !.pc = "failed"]
        BY <1>4, <2>3 DEF AttemptFails
      <3> QED
        BY <1>4, <3>1 DEF Session
    <2> QED
      BY <2>2, <2>3
  <1>5. Session => poll.try \in 0..Attempts
    BY DEF Session
  <1>6. 1 \in 0..Attempts
    BY <1>1
  <1> QED
    BY <1>2, <1>3, <1>4, <1>5, <1>6

(* A poll's attempts stay within their number.                              *)
LEMMA SessionNext == Session /\ [Next]_vars => Session'
  <1> SUFFICES ASSUME Session, [Next]_vars PROVE Session'
    OBVIOUS
  <1>0. /\ conn \in {"none", "open", "stale"}
        /\ poll \in [pc : {"idle", "connect", "run", "pause", "got", "failed"}, try : 0..Attempts]
    BY DEF Session
  <1>1. ASSUME conn' \in {"none", "open", "stale"},
               \/ poll' = poll \/ poll' = NoPoll \/ poll' = Attempt("none", 1)
               \/ poll' = Attempt(conn, 1) \/ poll' = Attempt(conn, poll.try)
               \/ poll' = [poll EXCEPT !.pc = "run"] \/ poll' = [poll EXCEPT !.pc = "got"]
               \/ AttemptFails
        PROVE  Session'
    <2> DEFINE Tries == 0..Attempts
    <2>1. CASE poll' = poll
      BY <1>0, <1>1, <2>1 DEF Session
    <2>2. CASE poll' = [poll EXCEPT !.pc = "run"] \/ poll' = [poll EXCEPT !.pc = "got"]
      BY <1>0, <1>1, <2>2 DEF Session
    <2>3. CASE poll' = NoPoll
      <3>1. poll' \in [pc : {"idle"}, try : Tries]
        BY <2>3, AttemptTypes
      <3> HIDE DEF Tries
      <3>2. poll' \in [pc : {"idle", "connect", "run", "pause", "got", "failed"}, try : Tries]
        BY <3>1
      <3> QED
        BY <1>1, <3>2 DEF Session, Tries
    <2>4. CASE \/ poll' = Attempt("none", 1) \/ poll' = Attempt(conn, 1)
               \/ poll' = Attempt(conn, poll.try)
      <3>1. poll' \in [pc : {"connect", "run"}, try : Tries]
        BY <2>4, AttemptTypes
      <3> HIDE DEF Tries
      <3>2. poll' \in [pc : {"idle", "connect", "run", "pause", "got", "failed"}, try : Tries]
        BY <3>1
      <3> QED
        BY <1>1, <3>2 DEF Session, Tries
    <2>5. CASE AttemptFails
      <3>1. poll' \in [pc : {"pause", "failed"}, try : Tries]
        BY <2>5, AttemptTypes
      <3> HIDE DEF Tries
      <3>2. poll' \in [pc : {"idle", "connect", "run", "pause", "got", "failed"}, try : Tries]
        BY <3>1
      <3> QED
        BY <1>1, <3>2 DEF Session, Tries
    <2> QED
      BY <1>1, <2>1, <2>2, <2>3, <2>4, <2>5
  <1>2. CASE FlowOnly
    BY <1>0, <1>1, <1>2 DEF FlowOnly, FlowStep, SshProbed, SshProbeFails, SshProbedNothing,
       MqttProbed, MqttProbeTimesOut, ProbeStopped, AddedUnread, Submit, SshProbeEnds, sshVars
  <1>3. CASE EntryStep \/ PlatformsFail \/ Reload
    BY <1>0, <1>1, <1>3 DEF EntryStep, SetupBegins, SetupTimesOut, SetupSucceeds, ShutDown,
       PlatformsFail, Reload, StopsReader, ClosesSession, sshVars
  <1>4. CASE Polls
    BY <1>0, <1>1, <1>4 DEF Polls, SshStep, SshDialled, SshDialFails, FramesRead, NoFrames,
       CommandBreaks, Paused, AfterBreak
  <1>5. CASE \/ \E r \in Readers : Thread(r) \/ Disturbed(r) \/ Applied(r)
             \/ Stop \/ Tick \/ WatchdogLooks \/ PollBegins \/ PollSucceeds \/ PollUndecoded
             \/ PollFails \/ LinkDrops \/ LinkReturns \/ Restart \/ UNCHANGED vars
    BY <1>0, <1>1, <1>5 DEF Thread, Disturbed, Applied, Stop, Rest, Tick, WatchdogLooks, PollBegins,
       PollSucceeds, PollUndecoded, PollFails, PollEnds, LinkDrops, LinkReturns, Restart, sshVars, vars
  <1> QED
    BY <1>2, <1>3, <1>4, <1>5 DEF Next

(* The coordinator's counts stay within their limits.                       *)
LEMMA LimitsNext == Limits /\ coord \in Coords /\ [Next]_vars => Limits'
  <1> SUFFICES ASSUME Limits, coord \in Coords, [Next]_vars PROVE Limits'
    OBVIOUS
  <1>0. /\ coord.age \in 0..Stale + 2 /\ coord.timer \in 0..1
        /\ coord.failures \in 0..Grace + 1 /\ coord.missed \in 0..Grace + 1
        /\ Stale \in Nat /\ Grace \in Nat
    BY EntryAssumption DEF Limits, Interval
  <1>a. /\ Cap(coord.age + 1, Stale + 2) \in 0..Stale + 2
        /\ Cap(coord.failures + 1, Grace + 1) \in 0..Grace + 1
        /\ Cap(coord.missed + 1, Grace + 1) \in 0..Grace + 1
    BY <1>0 DEF Cap
  <1>1. ASSUME coord'.age \in 0..Stale + 2, coord'.timer \in 0..1,
               coord'.failures \in 0..Grace + 1, coord'.missed \in 0..Grace + 1
        PROVE  Limits'
    BY <1>1 DEF Limits, Interval
  <1>2. CASE coord' = coord
    BY <1>0, <1>1, <1>2
  <1>3. CASE coord' = Blank
    BY <1>0, <1>1, <1>3 DEF Blank
  <1>4. CASE Tick
    <2> DEFINE a == Cap(coord.age + 1, Stale + 2)
    <2>1. coord' = [coord EXCEPT !.age = a, !.timer = coord.timer - 1] /\ coord.timer - 1 \in 0..1
      BY <1>0, <1>4 DEF Tick
    <2>2. a \in 0..Stale + 2
      BY <1>a
    <2> HIDE DEF a
    <2>3. coord'.age = a /\ coord'.timer = coord.timer - 1
      BY <2>1 DEF Coords
    <2>4. coord'.failures = coord.failures /\ coord'.missed = coord.missed
      BY <2>1 DEF Coords
    <2> QED
      BY <1>0, <1>1, <2>1, <2>2, <2>3, <2>4
  <1>5. CASE WatchdogLooks
    <2>1. PICK u : coord' = [coord EXCEPT !.up = u, !.timer = 1]
      BY <1>5 DEF WatchdogLooks, Interval
    <2>2. coord'.age = coord.age /\ coord'.timer = 1
      BY <2>1 DEF Coords
    <2>3. coord'.failures = coord.failures /\ coord'.missed = coord.missed
      BY <2>1 DEF Coords
    <2> QED
      BY <1>0, <1>1, <2>2, <2>3
  <1>6. ASSUME NEW r \in Readers, Applied(r) PROVE Limits'
    <2>1. coord' = coord \/ coord' = [coord EXCEPT !.has = TRUE, !.up = TRUE, !.age = 0, !.timer = 1]
      BY <1>6 DEF Applied, Interval
    <2>2. CASE coord' = [coord EXCEPT !.has = TRUE, !.up = TRUE, !.age = 0, !.timer = 1]
      <3>1. coord'.age = 0 /\ coord'.timer = 1
        BY <2>2 DEF Coords
      <3>2. coord'.failures = coord.failures /\ coord'.missed = coord.missed
        BY <2>2 DEF Coords
      <3> QED
        BY <1>0, <1>1, <3>1, <3>2
    <2> QED
      BY <1>2, <2>1, <2>2
  <1>7. CASE PollSucceeds \/ PollUndecoded \/ PollFails
    <2> DEFINE f == Cap(coord.failures + 1, Grace + 1)
    <2> DEFINE m == Cap(coord.missed + 1, Grace + 1)
    <2>1. \/ coord' = [coord EXCEPT !.has = TRUE, !.up = TRUE, !.failures = 0, !.missed = 0, !.bare = FALSE]
          \/ coord' = [coord EXCEPT !.up = FALSE, !.failures = 0, !.missed = m, !.bare = TRUE]
          \/ \E u : coord' = [coord EXCEPT !.up = u, !.failures = f, !.missed = m]
      BY <1>7 DEF PollSucceeds, PollUndecoded, PollFails
    <2>2. f \in 0..Grace + 1 /\ m \in 0..Grace + 1
      BY <1>a
    <2> HIDE DEF f, m
    <2>3. coord'.age = coord.age /\ coord'.timer = coord.timer
      BY <2>1 DEF Coords
    <2>4. coord'.failures \in {0, f} /\ coord'.missed \in {0, m}
      BY <2>1 DEF Coords
    <2> QED
      BY <1>0, <1>1, <2>2, <2>3, <2>4
  <1>8. CASE \/ FlowOnly \/ EntryStep \/ PlatformsFail \/ Reload \/ Stop \/ Polls \/ PollBegins
             \/ LinkDrops \/ LinkReturns \/ Restart \/ UNCHANGED vars
             \/ \E r \in Readers : Thread(r) \/ Disturbed(r)
    <2>1. coord' = coord \/ coord' = Blank
      BY <1>8 DEF FlowOnly, FlowStep, SshProbed, SshProbeFails, SshProbedNothing, MqttProbed,
         MqttProbeTimesOut, ProbeStopped, AddedUnread, Submit, EntryStep, SetupBegins, SetupTimesOut,
         SetupSucceeds, ShutDown, PlatformsFail, Reload, Leaves, Stop, Polls, PollBegins, LinkDrops,
         LinkReturns, Restart, Thread, Disturbed, Rest, vars
    <2> QED
      BY <1>2, <1>3, <2>1
  <1> QED
    BY <1>4, <1>5, <1>6, <1>7, <1>8 DEF Next

(* Every variable has its type in every behaviour: among them that a stop   *)
(* in progress is of the current reader, and that a poll makes no more than *)
(* DEFAULT_ATTEMPTS attempts (Gateway.read_latest).                         *)
THEOREM TelemetryTyped == Spec => []TypeOK
  <1>1. Init => Counted /\ Session /\ Limits
    <2> SUFFICES ASSUME Init PROVE Counted /\ Session /\ Limits
      OBVIOUS
    <2>1. Counted
      BY LinkAssumption DEF Init, ReaderInit, Counted
    <2>2. Session
      BY GatewayAssumption DEF Init, GatewayInit, Session, NoPoll
    <2>3. Limits
      BY EntryAssumption DEF Init, Limits, Blank, Interval
    <2> QED
      BY <2>1, <2>2, <2>3
  <1>2. Ages => coord \in Coords
    BY DEF Ages
  <1>3. IInv /\ Counted /\ Session /\ Limits => TypeOK
    <2> SUFFICES ASSUME IInv, Counted, Session, Limits PROVE TypeOK
      OBVIOUS
    <2>1. \A r \in Readers : reader[r].pc \in ReaderStates /\ handed[r] \in BOOLEAN
      BY DEF IInv, Shape, Threads, Counted
    <2>2. \A r \in Readers : reader[r].held \in BOOLEAN
      BY DEF IInv, Shape, Threads
    <2>3. \A r \in Readers : reader[r].held = (reader[r].pc \in {"login", "ask", "recv", "cleanup"})
      BY <2>2 DEF IInv, Holds
    <2>4. /\ stopper.pc \in {"idle", "look", "close", "join", "done", "raised"}
          /\ stopper.pc # "idle" => stopper.of = current
      BY DEF IInv, Shape, Owner
    <2>5. state \in {"none", "due", "setup", "loaded", "giving_up", "failing", "unloading",
                      "retry", "error"}
      BY DEF IInv, Phases, States
    <2>6. /\ conn \in {"none", "open", "stale"} /\ poll.try \in 0..Attempts
          /\ poll.pc \in {"idle", "connect", "run", "pause", "got", "failed"}
      BY DEF Session
    <2> QED
      BY <2>1, <2>3, <2>4, <2>5, <2>6 DEF TypeOK, Counted, Limits
  <1> QED
    BY <1>1, <1>2, <1>3, CountedNext, SessionNext, LimitsNext, TelemetryInvariant, AgesInvariant,
       PTL DEF Spec

=============================================================================
