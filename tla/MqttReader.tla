------------------------------- MODULE MqttReader -------------------------------
(***************************************************************************)
(* The thread that reads telemetry from the broker, and the call that      *)
(* stops it.  A reader is a thread of its own: Home Assistant starts one   *)
(* for each setup check and for each attempt to set the entry up, and      *)
(* stops it by setting an event, closing the socket under it and waiting   *)
(* a bounded time for it to end.                                           *)
(***************************************************************************)
EXTENDS Link

CONSTANTS Readers, None

ASSUME ReaderAssumption == None \notin Readers

VARIABLES
    reader,         \* per thread: where it is, its stop event, whether it
                    \* holds a socket in _sock, whether that session is cut,
                    \* whether its dial outlasts the join, and its client id
    handed,         \* per thread: a reading handed to the event loop
    stopper         \* the one stop() in progress: where it is, and of which

readerVars == <<reader, handed, stopper>>

NoThread == [pc |-> "none", stop |-> FALSE, held |-> FALSE, cut |-> FALSE,
             late |-> FALSE, id |-> None]
NoStop == [pc |-> "idle", of |-> None]

ReaderInit ==
    /\ reader = [r \in Readers |-> NoThread]
    /\ handed = [r \in Readers |-> FALSE]
    /\ stopper = NoStop

Alive(r) == reader[r] # NoThread
At(r, pc) == reader[r].pc = pc
Goto(r, pc) == reader' = [reader EXCEPT ![r].pc = pc]
Told(r) == reader[r].stop

(* start(), for a new client id. *)
Free == \E r \in Readers : ~Alive(r)
NewReader == CHOOSE r \in Readers : ~Alive(r)
Started(id) == [reader EXCEPT ![NewReader] = [NoThread EXCEPT !.pc = "head", !.id = id]]
Unhanded == [handed EXCEPT ![NewReader] = FALSE]

-----------------------------------------------------------------------------
(* The thread: _run around _session around _recv_loop. *)

LoopHead(r) ==
    /\ At(r, "head")
    /\ reader' = [reader EXCEPT ![r] = IF Told(r) THEN NoThread ELSE [@ EXCEPT !.pc = "dial"]]
    /\ UNCHANGED <<link, faults, handed, stopper>>

(* An exception ends the thread if it was told to stop; else it backs off. *)
AfterError(r) ==
    IF Told(r) THEN NoThread ELSE [reader[r] EXCEPT !.pc = "wait", !.held = FALSE, !.cut = FALSE]

(* Name resolution is not covered by the connect timeout, and each address  *)
(* has a timeout of its own: the dial may outlast stop()'s join.            *)
DialSlow(r) ==
    /\ At(r, "dial") /\ ~reader[r].late
    /\ Fault("slow")
    /\ reader' = [reader EXCEPT ![r].late = TRUE]
    /\ UNCHANGED <<link, handed, stopper>>

DialFails(r) ==
    /\ At(r, "dial")
    /\ \/ ~link /\ UNCHANGED faults
       \/ Fault("broker")
    /\ reader' = [reader EXCEPT ![r] = AfterError(r)]
    /\ UNCHANGED <<link, handed, stopper>>

Dialled(r) ==
    /\ At(r, "dial") /\ link
    /\ reader' = [reader EXCEPT ![r].pc = "opened", ![r].cut = FALSE]
    /\ UNCHANGED <<link, faults, handed, stopper>>

(* self._sock = s: from here on stop() can see the socket. *)
Registers(r) ==
    /\ At(r, "opened")
    /\ reader' = [reader EXCEPT ![r].pc = "login", ![r].held = TRUE]
    /\ UNCHANGED <<link, faults, handed, stopper>>

(* A broker drops the session that had the client id before. *)
LoggedIn(r) ==
    /\ At(r, "login") /\ ~reader[r].cut
    /\ reader' = [q \in Readers |->
          IF q = r THEN [reader[r] EXCEPT !.pc = "ask"]
          ELSE [reader[q] EXCEPT !.cut = @ \/ (reader[q].id = reader[r].id
                                               /\ reader[q].pc \in {"ask", "recv"})]]
    /\ UNCHANGED <<link, faults, handed, stopper>>

(* The top of _recv_loop: leave, or send the request and wait. *)
AskOrLeave_NeverLooks(r) ==
    /\ At(r, "ask") /\ Goto(r, "recv")
    /\ UNCHANGED <<link, faults, handed, stopper>>
AskOrLeave(r) ==
    /\ At(r, "ask")
    /\ Goto(r, IF Told(r) THEN "cleanup" ELSE "recv")
    /\ UNCHANGED <<link, faults, handed, stopper>>

Answered(r) ==
    /\ At(r, "recv") /\ ~reader[r].cut
    /\ handed' = [handed EXCEPT ![r] = TRUE]
    /\ Goto(r, "ask")
    /\ UNCHANGED <<link, faults, stopper>>

(* recv times out, or what came is not a plausible reading. *)
NothingUsable(r) ==
    /\ At(r, "recv")
    /\ \/ (reader[r].cut \/ Told(r)) /\ UNCHANGED faults
       \/ Fault("junk")
    /\ Goto(r, "ask")
    /\ UNCHANGED <<link, handed, stopper>>

(* CONNACK refused or missing; the socket closed by the broker, by stop()   *)
(* or by a link that was gone too long.                                     *)
SessionFails(r) ==
    /\ reader[r].pc \in {"login", "ask", "recv"}
    /\ \/ reader[r].cut /\ UNCHANGED faults
       \/ Fault("broker")
    /\ Goto(r, "cleanup")
    /\ UNCHANGED <<link, handed, stopper>>

(* finally: self._sock = None; s.close().  Only stop() or an exception      *)
(* leads here, so the back-off follows unless the thread is to end.         *)
Cleanup(r) ==
    /\ At(r, "cleanup")
    /\ reader' = [reader EXCEPT ![r] = AfterError(r)]
    /\ UNCHANGED <<link, faults, handed, stopper>>

(* self._stop.wait(backoff) returns. *)
Waited(r) ==
    /\ At(r, "wait") /\ Goto(r, "head")
    /\ UNCHANGED <<link, faults, handed, stopper>>

ReaderStep(r) ==
    \/ LoopHead(r) \/ DialFails(r) \/ Dialled(r) \/ Registers(r) \/ LoggedIn(r)
    \/ AskOrLeave(r) \/ Answered(r) \/ NothingUsable(r) \/ Cleanup(r) \/ Waited(r)

-----------------------------------------------------------------------------
(* stop(), in an executor thread.  It reads _sock twice: the thread may     *)
(* clear it between the test and the close, which no handler expects.       *)

Stopping(r) ==
    /\ reader' = [reader EXCEPT ![r].stop = TRUE]
    /\ stopper' = [pc |-> "look", of |-> r]

StopLooks ==
    /\ stopper.pc = "look"
    /\ stopper' = [stopper EXCEPT !.pc = IF reader[stopper.of].held THEN "close" ELSE "join"]
    /\ UNCHANGED <<link, faults, reader, handed>>

StopCloses ==
    /\ stopper.pc = "close"
    /\ \/ /\ reader[stopper.of].held
          /\ reader' = [reader EXCEPT ![stopper.of].cut = TRUE]
          /\ stopper' = [stopper EXCEPT !.pc = "join"]
       \/ /\ ~reader[stopper.of].held
          /\ stopper' = [stopper EXCEPT !.pc = "raised"]
          /\ UNCHANGED reader
    /\ UNCHANGED <<link, faults, handed>>

(* join(timeout) returns: the thread has ended, or its dial takes too long. *)
JoinEnds_AtOnce(r) == TRUE
JoinEnds(r) == ~Alive(r) \/ reader[r].late

StopJoins ==
    /\ stopper.pc = "join" /\ JoinEnds(stopper.of)
    /\ stopper' = [stopper EXCEPT !.pc = "done"]
    /\ UNCHANGED <<link, faults, reader, handed>>

StopStep == StopLooks \/ StopCloses \/ StopJoins
Stopped == stopper.pc \in {"done", "raised"}

=============================================================================
