------------------------------- MODULE SshGateway -------------------------------
(***************************************************************************)
(* The persistent SSH session to the gateway and one poll over it: a read  *)
(* of the log with its second attempt.  The lock around a command is never *)
(* contended, since only the coordinator's one refresh uses the session.   *)
(***************************************************************************)
EXTENDS Link

CONSTANT Attempts   \* DEFAULT_ATTEMPTS

ASSUME GatewayAssumption == Attempts \in Nat \ {0}

VARIABLES
    logs,           \* the unit's daemon writes its frames to the log
    conn,           \* _conn: "none", "open", or "stale" when the link went
    poll            \* where read_latest is, and which attempt it is in

sshVars == <<conn, poll>>

NoPoll == [pc |-> "idle", try |-> 0]

GatewayInit == logs \in BOOLEAN /\ conn = "none" /\ poll = NoPoll

(* _run: dial unless a connection is held. *)
Attempt(c, n) == [pc |-> IF c = "none" THEN "connect" ELSE "run", try |-> n]

(* TransportError: pause before the next attempt, or give up. *)
AttemptFails_Endless == poll' = [pc |-> "pause", try |-> poll.try + 1]
AttemptFails ==
    poll' = IF poll.try < Attempts THEN [pc |-> "pause", try |-> poll.try + 1]
            ELSE [poll EXCEPT !.pc = "failed"]

SshDialled ==
    /\ poll.pc = "connect" /\ link
    /\ conn' = "open" /\ poll' = [poll EXCEPT !.pc = "run"]
    /\ UNCHANGED <<link, faults, logs>>

SshDialFails ==
    /\ poll.pc = "connect"
    /\ \/ ~link /\ UNCHANGED faults
       \/ Fault("ssh")
    /\ AttemptFails
    /\ UNCHANGED <<link, logs, conn>>

FramesRead ==
    /\ poll.pc = "run" /\ conn = "open" /\ logs
    /\ poll' = [poll EXCEPT !.pc = "got"]
    /\ UNCHANGED <<link, faults, logs, conn>>

(* Nothing valid in the log: an error, but the session is kept. *)
NoFrames ==
    /\ poll.pc = "run" /\ conn = "open"
    /\ \/ ~logs /\ UNCHANGED faults
       \/ Fault("nolog")
    /\ AttemptFails
    /\ UNCHANGED <<link, logs, conn>>

(* The command fails or times out: the session is dropped, so that the next *)
(* attempt dials again.                                                     *)
AfterBreak_Kept == conn
AfterBreak == "none"

CommandBreaks ==
    /\ poll.pc = "run"
    /\ \/ conn = "stale" /\ UNCHANGED faults
       \/ Fault("ssh")
    /\ conn' = AfterBreak
    /\ AttemptFails
    /\ UNCHANGED <<link, logs>>

Paused ==
    /\ poll.pc = "pause" /\ poll' = Attempt(conn, poll.try)
    /\ UNCHANGED <<link, faults, logs, conn>>

SshStep ==
    \/ SshDialled \/ SshDialFails \/ FramesRead \/ NoFrames \/ CommandBreaks \/ Paused

=============================================================================
