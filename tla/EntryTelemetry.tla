----------------------------- MODULE EntryTelemetry -----------------------------
(***************************************************************************)
(* One battery from the setup form to its entities: the form's checks, the *)
(* entry that Home Assistant sets up, retries, reloads and unloads, and    *)
(* the coordinator that turns what a reader thread hands over, or what a   *)
(* poll of the SSH session returns, into available entities.               *)
(*                                                                         *)
(* A definition named X_Word is X with a plausible mistake: no part of the *)
(* specification, only there to show that the properties notice it.        *)
(***************************************************************************)
EXTENDS MqttReader, SshGateway

CONSTANTS
    Stale,          \* stale_seconds, in units of a third of it
    Grace           \* FAILURE_GRACE: polls missed on old data

ASSUME EntryAssumption ==
    /\ Stale \in Nat \ {0} /\ Grace \in Nat
    /\ None \notin {"mqtt", "ssh"}

VARIABLES
    flow,           \* the setup form: its step and the read source asked for
    state,          \* the entry: "none" until it is created, then its state
    source,         \* its read source
    current,        \* the reader of the probe or of the live coordinator
    coord,          \* the live coordinator
    since           \* faults when the present attempt began, less one if it
                    \* began in trouble; 0 when there is no attempt

vars == <<link, faults, readerVars, logs, sshVars, flow, state, source, current, coord, since>>
entryVars == <<flow, state, source, current, since>>

(* A coordinator: it has data and shows it; how old that is and when it     *)
(* looks at the age (MQTT); its failures in a row, and, as ghosts, the      *)
(* polls missed since its data and whether one of them decoded to nothing   *)
(* (SSH).                                                                   *)
Blank == [has |-> FALSE, up |-> FALSE, age |-> 0, timer |-> 0,
          failures |-> 0, missed |-> 0, bare |-> FALSE]

Init ==
    /\ link \in BOOLEAN /\ faults = (IF link THEN 0 ELSE 1)
    /\ ReaderInit /\ GatewayInit
    /\ flow = [at |-> "form", asked |-> None]
    /\ state = "none" /\ source = None /\ current = None
    /\ coord = Blank /\ since = 0

Cap(n, m) == IF n < m THEN n ELSE m

(* Something befell the present attempt, so that its wait may time out: each *)
(* wait is longer than an undisturbed exchange takes.                       *)
Troubled == ~link \/ faults > since
Clean == link /\ \A r \in Readers : ~Alive(r)
SinceNow == IF Clean THEN faults ELSE faults - 1

-----------------------------------------------------------------------------
(* The setup form. *)

FlowTo(at) == flow' = [flow EXCEPT !.at = at]

(* The entry is created and Home Assistant sets it up. *)
Creates(src) == flow' = [at |-> "done", asked |-> None] /\ state' = "due" /\ source' = src

ProbeMqtt ==
    /\ Free
    /\ reader' = Started("probe") /\ handed' = Unhanded /\ current' = NewReader

Submit(asked) ==
    /\ flow.at \in {"form", "error"}
    /\ \/ /\ asked = "mqtt" /\ ProbeMqtt
          /\ flow' = [at |-> "mqtt", asked |-> asked]
          /\ UNCHANGED poll
       \/ /\ asked # "mqtt"
          /\ flow' = [at |-> "ssh", asked |-> asked]
          /\ poll' = Attempt("none", 1)
          /\ UNCHANGED <<reader, handed, current>>
    /\ since' = SinceNow
    /\ UNCHANGED <<link, faults, stopper, logs, conn, state, source, coord>>

(* _async_probe, over a session of its own that is closed in any case:      *)
(* frames that decode; frames without a known register, which sends "auto"  *)
(* on to MQTT; or an error, an empty log among them.                        *)
SshProbeEnds(pc) == flow.at = "ssh" /\ poll.pc = pc /\ poll' = NoPoll /\ conn' = "none"

SshProbed ==
    /\ SshProbeEnds("got") /\ Creates("ssh")
    /\ UNCHANGED <<link, faults, readerVars, logs, current, coord, since>>

SshProbeFails ==
    /\ SshProbeEnds("failed") /\ FlowTo("error")
    /\ UNCHANGED <<link, faults, readerVars, logs, state, source, current, coord, since>>

SshProbedNothing ==
    /\ SshProbeEnds("got") /\ Fault("junk")
    /\ \/ /\ flow.asked = "auto" /\ ProbeMqtt /\ FlowTo("mqtt")
       \/ FlowTo("error") /\ UNCHANGED <<reader, handed, current>>
    /\ UNCHANGED <<link, stopper, logs, state, source, coord, since>>

(* _async_probe_mqtt: a reading is handed over or the wait ends; either way *)
(* the reader is stopped first.                                             *)
MqttProbed ==
    /\ flow.at = "mqtt" /\ handed[current]
    /\ FlowTo("mqtt_ok") /\ Stopping(current)
    /\ UNCHANGED <<link, faults, handed, logs, sshVars, state, source, current, coord, since>>

MqttProbeTimesOut ==
    /\ flow.at = "mqtt" /\ ~handed[current] /\ Troubled
    /\ FlowTo("mqtt_bad") /\ Stopping(current)
    /\ UNCHANGED <<link, faults, handed, logs, sshVars, state, source, current, coord, since>>

(* Vendor's broker gone: the entry may be added all the same. *)
ProbeStopped ==
    /\ flow.at \in {"mqtt_ok", "mqtt_bad"} /\ Stopped
    /\ stopper' = NoStop /\ current' = None
    /\ \/ flow.at = "mqtt_ok" /\ stopper.pc = "done" /\ Creates("mqtt")
       \/ flow.at = "mqtt_bad" /\ stopper.pc = "done" /\ FlowTo("vendor_down")
          /\ UNCHANGED <<state, source>>
       \/ (flow.at = "mqtt_bad" \/ stopper.pc = "raised")
          /\ FlowTo("error") /\ UNCHANGED <<state, source>>
    /\ UNCHANGED <<link, faults, reader, handed, logs, sshVars, coord, since>>

AddedUnread ==
    /\ flow.at = "vendor_down" /\ Creates("mqtt")
    /\ UNCHANGED <<link, faults, readerVars, logs, sshVars, current, coord, since>>

FlowStep ==
    \/ SshProbed \/ SshProbeFails \/ SshProbedNothing
    \/ MqttProbed \/ MqttProbeTimesOut \/ ProbeStopped \/ AddedUnread

-----------------------------------------------------------------------------
(* The entry: async_setup_entry, async_unload_entry and the reload. *)

(* A new coordinator.  Over MQTT its reader starts and the first data is    *)
(* awaited; over SSH the first refresh is.                                  *)
SetupBegins ==
    /\ state \in {"due", "retry"}
    /\ state' = "setup" /\ coord' = Blank /\ since' = SinceNow
    /\ \/ /\ source = "mqtt" /\ Free
          /\ reader' = Started("read") /\ handed' = Unhanded /\ current' = NewReader
          /\ UNCHANGED sshVars
       \/ /\ source = "ssh"
          /\ conn' = "none" /\ poll' = Attempt("none", 1)
          /\ UNCHANGED <<reader, handed, current>>
    /\ UNCHANGED <<link, faults, stopper, logs, flow, source>>

(* shutdown(): the reader is stopped; or the session is closed and Home     *)
(* Assistant cancels the coordinator's refresh before it could dial again   *)
(* (its pause is longer than the close).                                    *)
StopsReader == source = "mqtt" /\ Stopping(current) /\ UNCHANGED sshVars
ClosesSession ==
    /\ source = "ssh" /\ conn' = "none" /\ poll' = NoPoll
    /\ UNCHANGED <<reader, stopper>>

Leaves(next) ==
    /\ state' = next
    /\ UNCHANGED <<link, handed, logs, flow, source, current, coord, since>>

(* min(stale, 45) seconds without a reading: not ready, try again later. *)
SetupTimesOut ==
    /\ state = "setup" /\ ~coord.has /\ Troubled
    /\ StopsReader /\ Leaves("giving_up") /\ UNCHANGED faults

(* The data is there; the platforms are set up. *)
SetupSucceeds ==
    /\ state = "setup" /\ coord.has
    /\ state' = "loaded" /\ since' = 0
    /\ UNCHANGED <<link, faults, readerVars, logs, sshVars, flow, source, current, coord>>

PlatformsFail_Leaks ==
    /\ state = "setup" /\ coord.has /\ Fault("platform")
    /\ state' = "error" /\ current' = None
    /\ UNCHANGED <<link, readerVars, logs, sshVars, flow, source, coord, since>>
PlatformsFail ==
    /\ state = "setup" /\ coord.has /\ Fault("platform")
    /\ (StopsReader \/ ClosesSession) /\ Leaves("failing")

(* A changed option, or the owner. *)
Reload ==
    /\ state = "loaded" /\ Fault("reload")
    /\ (StopsReader \/ ClosesSession) /\ Leaves("unloading")

(* shutdown() returned, or stop() raised out of it. *)
Then(s) ==
    CASE s = "giving_up" -> "retry" [] s = "failing" -> "error" [] s = "unloading" -> "due"

ShutDown ==
    /\ state \in {"giving_up", "failing", "unloading"}
    /\ source = "mqtt" => Stopped
    /\ state' = IF stopper.pc = "raised" THEN "error" ELSE Then(state)
    /\ stopper' = NoStop /\ current' = None /\ coord' = Blank /\ since' = 0
    /\ UNCHANGED <<link, faults, reader, handed, logs, sshVars, flow, source>>

EntryStep == SetupBegins \/ SetupTimesOut \/ SetupSucceeds \/ ShutDown

-----------------------------------------------------------------------------
(* MqttReadCoordinator. *)

(* Several looks in each window; a push starts the wait for one anew. *)
Interval_Window == Stale
Interval == 1

(* _apply, on the event loop.  What an earlier reader left there reaches a  *)
(* coordinator that is gone.                                                *)
Applied(r) ==
    /\ handed[r] /\ flow.at # "mqtt"
    /\ handed' = [handed EXCEPT ![r] = FALSE]
    /\ coord' = IF r = current /\ source = "mqtt"
                THEN [coord EXCEPT !.has = TRUE, !.up = TRUE, !.age = 0, !.timer = Interval]
                ELSE coord
    /\ UNCHANGED <<link, faults, reader, stopper, logs, sshVars, entryVars>>

Watches == state = "loaded" /\ source = "mqtt"

Tick ==
    /\ Watches /\ coord.timer > 0
    /\ coord' = [coord EXCEPT !.age = Cap(@ + 1, Stale + 2), !.timer = @ - 1]
    /\ UNCHANGED <<link, faults, readerVars, logs, sshVars, entryVars>>

WatchdogLooks ==
    /\ Watches /\ coord.timer = 0
    /\ coord' = [coord EXCEPT !.up = coord.age <= Stale, !.timer = Interval]
    /\ UNCHANGED <<link, faults, readerVars, logs, sshVars, entryVars>>

-----------------------------------------------------------------------------
(* HomepowerCoordinator. *)

PollBegins ==
    /\ state = "loaded" /\ source = "ssh" /\ poll.pc = "idle"
    /\ poll' = Attempt(conn, 1)
    /\ UNCHANGED <<link, faults, readerVars, logs, conn, coord, entryVars>>

(* A first refresh that fails ends the attempt; the session it may have     *)
(* left open belongs to a coordinator nobody holds any more.                *)
PollEnds == poll' = NoPoll /\ UNCHANGED <<link, readerVars, logs, conn, flow, source, current, since>>
Refuse == state' = IF state = "setup" THEN "retry" ELSE state

PollSucceeds ==
    /\ poll.pc = "got" /\ source = "ssh"
    /\ coord' = [coord EXCEPT !.has = TRUE, !.up = TRUE, !.failures = 0, !.missed = 0,
                              !.bare = FALSE]
    /\ PollEnds /\ UNCHANGED <<faults, state>>

(* The frames hold no known register: the failures start again at 0. *)
PollUndecoded ==
    /\ poll.pc = "got" /\ source = "ssh" /\ Fault("junk")
    /\ coord' = [coord EXCEPT !.up = FALSE, !.failures = 0, !.missed = Cap(@ + 1, Grace + 1),
                              !.bare = TRUE]
    /\ Refuse /\ PollEnds

(* Old data is served for the first few failures in a row. *)
StillServed_Always(c) == c.has
StillServed(c) == c.has /\ c.failures < Grace

PollFails ==
    /\ poll.pc = "failed" /\ source = "ssh"
    /\ coord' = [coord EXCEPT !.up = StillServed(coord),
                              !.failures = Cap(@ + 1, Grace + 1), !.missed = Cap(@ + 1, Grace + 1)]
    /\ IF StillServed(coord) THEN UNCHANGED state ELSE Refuse
    /\ PollEnds /\ UNCHANGED faults

-----------------------------------------------------------------------------
(* The link, and Home Assistant. *)

(* No session that was there lives on; over SSH nobody is told. *)
LinkDrops ==
    /\ link /\ Fault("link")
    /\ link' = FALSE
    /\ reader' = [r \in Readers |-> [reader[r] EXCEPT !.cut =
                    @ \/ reader[r].pc \in {"opened", "login", "ask", "recv"}]]
    /\ conn' = IF conn = "open" THEN "stale" ELSE conn
    /\ UNCHANGED <<handed, stopper, logs, poll, coord, entryVars>>

LinkReturns ==
    /\ ~link /\ link' = TRUE
    /\ UNCHANGED <<faults, readerVars, logs, sshVars, coord, entryVars>>

(* Home Assistant restarts: its threads are gone. *)
Restart ==
    /\ state # "none" /\ Fault("restart")
    /\ state' = "due"
    /\ reader' = [r \in Readers |-> NoThread] /\ handed' = [r \in Readers |-> FALSE]
    /\ stopper' = NoStop /\ conn' = "none" /\ poll' = NoPoll
    /\ current' = None /\ coord' = Blank /\ since' = 0
    /\ UNCHANGED <<link, logs, flow, source>>

FlowOnly == FlowStep \/ \E asked \in {"auto", "ssh", "mqtt"} : Submit(asked)

Rest == <<logs, sshVars, coord, entryVars>>
Thread(r) == ReaderStep(r) /\ UNCHANGED Rest
Disturbed(r) == (SessionFails(r) \/ DialSlow(r)) /\ UNCHANGED Rest
Stop == StopStep /\ UNCHANGED Rest

Polls == SshStep /\ UNCHANGED <<readerVars, coord, entryVars>>

Next ==
    \/ FlowOnly
    \/ EntryStep \/ PlatformsFail \/ Reload
    \/ \E r \in Readers : Thread(r) \/ Disturbed(r) \/ Applied(r)
    \/ Stop
    \/ Tick \/ WatchdogLooks
    \/ Polls \/ PollBegins \/ PollSucceeds \/ PollUndecoded \/ PollFails
    \/ LinkDrops \/ LinkReturns \/ Restart

Spec == Init /\ [][Next]_vars

(* Every wait of a thread is bounded, the event loop runs what it is handed, *)
(* Home Assistant goes on with a check, a setup, a stop, a retry and the     *)
(* next poll, and the link returns.                                          *)
Main == FlowStep \/ EntryStep \/ Stop
Refresh == Polls \/ PollBegins \/ PollSucceeds \/ PollFails

Fairness ==
    /\ \A r \in Readers :
          /\ WF_vars(Thread(r))
          /\ WF_vars(reader[r].cut /\ Disturbed(r))
    /\ WF_vars(\E r \in Readers : Applied(r))
    /\ WF_vars(Main) /\ WF_vars(Refresh) /\ WF_vars(LinkReturns)

FairSpec == Spec /\ Fairness

-----------------------------------------------------------------------------

ReaderStates == {"none", "head", "dial", "opened", "login", "ask", "recv", "cleanup",
                 "wait"}

TypeOK ==
    /\ link \in BOOLEAN /\ faults \in 0..MaxFaults
    /\ \A r \in Readers :
          /\ reader[r].pc \in ReaderStates /\ handed[r] \in BOOLEAN
          /\ reader[r].held = (reader[r].pc \in {"login", "ask", "recv", "cleanup"})
    /\ stopper.pc \in {"idle", "look", "close", "join", "done", "raised"}
    /\ stopper.pc # "idle" => stopper.of = current
    /\ conn \in {"none", "open", "stale"} /\ poll.try \in 0..Attempts
    /\ poll.pc \in {"idle", "connect", "run", "pause", "got", "failed"}
    /\ state \in {"none", "due", "setup", "loaded", "giving_up", "failing", "unloading",
                  "retry", "error"}
    /\ coord.age \in 0..Stale + 2 /\ coord.timer \in 0..Interval
    /\ coord.failures \in 0..Grace + 1 /\ coord.missed \in 0..Grace + 1

(* No second reader on the battery: a thread that neither the running probe *)
(* nor the live coordinator owns was told to stop and only its slow dial    *)
(* outlasted the wait for it, through every retry, reload and failed setup. *)
NoSecondReader == \A r \in Readers : Alive(r) /\ r # current => Told(r) /\ reader[r].late

(* Entities go unavailable close to stale_seconds after telemetry stops,    *)
(* not at twice that, whenever the last push fell between two looks.        *)
StaleIsShown == Watches /\ coord.up => coord.age <= Stale + 1

(* Old SSH data is served for FAILURE_GRACE missed polls at most, unless a  *)
(* poll that decoded to nothing started the count again.                    *)
HeldIsRecent == state = "loaded" /\ source = "ssh" /\ coord.up /\ ~coord.bare => coord.missed <= Grace

(* A thread told to stop ends, wherever the stop met it. *)
StoppedEnds == \A r \in Readers : Told(r) ~> ~Alive(r)

(* Once an entry is there, and unless it failed for good, its entities are  *)
(* available again and again: no dead session, slow thread, lost setup or   *)
(* reload keeps it from coming back.                                        *)
KeepsComingBack ==
    []<>(state \in {"none", "error"} \/ (state = "loaded" /\ coord.up))

(* config_flow.py:189, "SSH works but this unit's daemon doesn't log frames *)
(* to disk, so fall back to MQTT - which every unit speaks": asked for      *)
(* "auto", an undisturbed check does not end in an error.                   *)
AutoFindsTelemetry == flow.at = "error" /\ flow.asked = "auto" => Troubled
=============================================================================
