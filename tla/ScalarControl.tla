----------------------------- MODULE ScalarControl -----------------------------
(***************************************************************************)
(* The single-value settings: number and select entities that write        *)
(* registers over MQTT, the coordinator's poll that reads them back in     *)
(* four separate requests, and the dictionary of values both share.        *)
(*                                                                         *)
(* Off-grid reserve and excess generation live in one register block.  The *)
(* excess entity writes its own register; the reserve entity writes the    *)
(* whole block, with the excess value the dictionary holds at that moment. *)
(*                                                                         *)
(* A definition named X_Word is X with a plausible mistake: no part of the *)
(* specification, only there to show that the properties notice it.        *)
(***************************************************************************)
EXTENDS Naturals, Sequences

CONSTANTS
    Settings,       \* the settings modelled, among the five there are
    Values,
    DefaultExcess,  \* written when the dictionary has no excess value
    Callers,        \* service calls that may be under way at once
    FaultKinds,     \* which of "lost", "refused", "short" may happen
    MaxCalls,       \* bound: service calls
    MaxFaults,      \* bound: faults
    None

ASSUME SettingsAssumption ==
    /\ {"reserve_off", "excess"} \subseteq Settings
    /\ Settings \subseteq {"mode", "max_soc", "reserve_on", "reserve_off", "excess"}
    /\ DefaultExcess \in Values
    /\ None \notin Values
    /\ MaxCalls \in Nat /\ MaxFaults \in Nat

(* read_config's four requests, in its order. *)
ReadOrder == << {"max_soc"}, {"reserve_on"}, {"reserve_off", "excess"}, {"mode"} >>
Block == 3

VARIABLES
    regs,       \* the battery's registers
    data,       \* ControlCoordinator.data, per setting; None: no such key
    available,  \* last_update_success: entities accept calls
    step,       \* the request the poll waits for; 0: no poll, 5: all
                \* answered, 6: reading the schedule before publishing
    got,        \* what the poll has read; None: not read
    state,      \* the dictionary the poll will publish
    call,       \* per caller, the frame under way
    suspect,    \* ghost: settings whose value in `data` may be wrong
    touched,    \* ghost: settings written since this poll read them
    based,      \* ghost: callers whose block carries the true excess
    calls, faults

poll == <<step, got, state>>
vars == <<regs, data, available, step, got, state, call, suspect, touched, based, calls, faults>>

Nothing == [k \in Settings |-> None]
NoCall == [pc |-> "idle", key |-> None, val |-> None, excess |-> None]

Sent(k) == {c \in Callers : call[c].pc = "sent" /\ call[c].key = k}

Init ==
    /\ regs \in [Settings -> Values]
    /\ data = Nothing /\ available = FALSE
    /\ step = 0 /\ got = Nothing /\ state = Nothing
    /\ call = [c \in Callers |-> NoCall]
    /\ suspect = {} /\ touched = {} /\ based = {}
    /\ calls = 0 /\ faults = 0

-----------------------------------------------------------------------------
(* The poll. *)

PollBegins ==
    /\ step = 0 /\ step' = 1
    /\ touched' = {}
    /\ UNCHANGED <<got, state, regs, data, available, call, suspect, based, calls, faults>>

(* A request's reply arrives with the registers `ks`. *)
Reply(ks) ==
    /\ step' = step + 1
    /\ got' = [k \in Settings |-> IF k \in ks THEN regs[k] ELSE got[k]]
    /\ touched' = touched \ ks
    /\ UNCHANGED <<state, regs, data, available, call, suspect, based, calls>>

BatteryAnswers ==
    /\ step \in 1..4
    /\ Reply(ReadOrder[step])
    /\ UNCHANGED faults

Fault(kind) ==
    /\ kind \in FaultKinds /\ faults < MaxFaults
    /\ faults' = faults + 1

(* A reply with fewer registers than asked for: the block's loop takes what *)
(* there is.  (The other requests index the reply and fail, see PollFails.) *)
ShortAnswer ==
    /\ step = Block
    /\ \E ks \in {{}, {"reserve_off"}} : Reply(ks)
    /\ Fault("short")

EndPoll == step' = 0 /\ got' = Nothing /\ state' = Nothing

(* A request timed out or its reply was unusable. *)
PollFails ==
    /\ step \in 1..4
    /\ available' = FALSE
    /\ EndPoll
    /\ UNCHANGED <<regs, data, call, suspect, touched, based, calls, faults>>

(* dict(self.data), overwritten with what was read. *)
Overlaid_Shy == [k \in Settings |-> IF data[k] = None THEN got[k] ELSE data[k]]
Overlaid == [k \in Settings |-> IF got[k] = None THEN data[k] ELSE got[k]]

(* All requests answered: the new dictionary is put together, then the      *)
(* schedule is read before it is published.                                 *)
PollMerges ==
    /\ step = 5 /\ step' = 6
    /\ state' = Overlaid
    /\ touched' = touched \cup {k \in Settings : got[k] = None /\ Sent(k) # {}}
    /\ UNCHANGED <<got, regs, data, available, call, suspect, based, calls, faults>>

(* A value is beyond doubt when the poll read it and nothing wrote it since. *)
PollPublishes ==
    /\ step = 6
    /\ data' = state
    /\ available' = TRUE
    /\ EndPoll
    /\ suspect' = touched \cup {k \in suspect : got[k] = None \/ Sent(k) # {}}
    /\ UNCHANGED <<regs, call, touched, based, calls, faults>>

-----------------------------------------------------------------------------
(* Service calls: async_set_native_value and async_select_option. *)

KnownExcess_Bare == data["excess"]
KnownExcess == IF data["excess"] = None THEN DefaultExcess ELSE data["excess"]

(* Calls to unavailable entities are dropped.  The frame is built here,     *)
(* before the publish.                                                      *)
Call(c, k, v) ==
    /\ call[c].pc = "idle" /\ calls < MaxCalls
    /\ available
    /\ call' = [call EXCEPT ![c] =
           [pc |-> "publishing", key |-> k, val |-> v,
            excess |-> IF k = "reserve_off" THEN KnownExcess ELSE None]]
    /\ based' = IF /\ k = "reserve_off" /\ data["excess"] # None
                   /\ "excess" \notin suspect /\ Sent("excess") = {}
                THEN based \cup {c} ELSE based
    /\ calls' = calls + 1
    /\ UNCHANGED <<regs, data, available, poll, suspect, touched, faults>>

(* The registers after a caller's frame: one, or the two of the block. *)
Written_Default(c) ==
    [k \in Settings |->
        CASE k = call[c].key -> call[c].val
          [] k = "excess" /\ call[c].key = "reserve_off" -> DefaultExcess
          [] OTHER -> regs[k]]
Written(c) ==
    [k \in Settings |->
        CASE k = call[c].key -> call[c].val
          [] k = "excess" /\ call[c].key = "reserve_off" -> call[c].excess
          [] OTHER -> regs[k]]

Touches(c) ==
    {call[c].key} \cup IF call[c].key = "reserve_off" THEN {"excess"} ELSE {}

Lands(c) ==
    /\ call[c].pc = "publishing"
    /\ regs' = Written(c)
    /\ call' = [call EXCEPT ![c].pc = "sent"]
    /\ touched' = touched \cup Touches(c)
    /\ suspect' = suspect
         \cup (IF Sent(call[c].key) # {} THEN {call[c].key} ELSE {})
         \cup (IF call[c].key = "reserve_off" /\ c \notin based THEN {"excess"} ELSE {})
    /\ based' = IF "excess" \in Touches(c) /\ c \notin based THEN {} ELSE based \ {c}
    /\ UNCHANGED <<data, available, poll, calls, faults>>

(* QoS 0: the publish returns although the frame never arrived. *)
Lost(c) ==
    /\ call[c].pc = "publishing"
    /\ Fault("lost")
    /\ call' = [call EXCEPT ![c].pc = "sent"]
    /\ suspect' = suspect \cup {call[c].key}
    /\ based' = based \ {c}
    /\ UNCHANGED <<regs, data, available, poll, touched, calls>>

(* OSError: the call fails, nothing else happens. *)
Refused(c) ==
    /\ call[c].pc = "publishing"
    /\ Fault("refused")
    /\ call' = [call EXCEPT ![c] = NoCall]
    /\ based' = based \ {c}
    /\ UNCHANGED <<regs, data, available, poll, suspect, touched, calls>>

(* The publish returned: the value is shown at once, into whatever          *)
(* dictionary the coordinator has by now; a refresh is requested.           *)
Shown(c) ==
    /\ call[c].pc = "sent"
    /\ data' = [data EXCEPT ![call[c].key] = call[c].val]
    /\ call' = [call EXCEPT ![c] = NoCall]
    /\ UNCHANGED <<regs, available, poll, suspect, touched, based, calls, faults>>

-----------------------------------------------------------------------------

PollStep ==
    PollBegins \/ BatteryAnswers \/ ShortAnswer \/ PollFails \/ PollMerges \/ PollPublishes

Next ==
    \/ PollStep
    \/ \E c \in Callers :
          \/ \E k \in Settings, v \in Values : Call(c, k, v)
          \/ Lands(c) \/ Lost(c) \/ Refused(c) \/ Shown(c)

Spec == Init /\ [][Next]_vars

(* Polls repeat and move on; every request is answered in full again and    *)
(* again; sockets time out, so publishes return.                            *)
Fairness ==
    /\ WF_vars(PollBegins) /\ WF_vars(PollMerges) /\ WF_vars(PollPublishes)
    /\ \A i \in 1..4 : SF_vars(step = i /\ BatteryAnswers)
    /\ \A c \in Callers : WF_vars(Lands(c)) /\ WF_vars(Shown(c))

FairSpec == Spec /\ Fairness

-----------------------------------------------------------------------------

Known == Values \cup {None}

TypeOK ==
    /\ regs \in [Settings -> Values]
    /\ data \in [Settings -> Known]
    /\ available \in BOOLEAN
    /\ step \in 0..6
    /\ got \in [Settings -> Known] /\ state \in [Settings -> Known]
    /\ call \in [Callers -> [pc : {"idle", "publishing", "sent"},
                             key : Settings \cup {None}, val : Known, excess : Known]]
    /\ \A c \in Callers : call[c].pc # "idle" =>
          /\ call[c].key \in Settings /\ call[c].val \in Values
          /\ call[c].key = "reserve_off" => call[c].excess \in Values
    /\ suspect \subseteq Settings /\ touched \subseteq Settings /\ based \subseteq Callers

(* What an entity shows is what the battery holds, outside the moments      *)
(* between a frame's arrival and its display, unless the setting is suspect:*)
(* its frame was lost or crossed another one, or a poll published a value   *)
(* read before the write.  The next undisturbed poll ends the suspicion.    *)
ShownIsStored ==
    \A k \in Settings \ suspect :
        data[k] # None /\ Sent(k) = {} => data[k] = regs[k]

(* "Off-grid reserve writes the whole block using the coordinator's current *)
(* excess value": a block built while the excess shown was beyond doubt,    *)
(* and with no excess write until it arrives, leaves the excess as it was.  *)
BasedBlockKeepsExcess ==
    [][\A c \in based : Lands(c) => regs'["excess"] = regs["excess"]]_vars

(* Once the calls end, every entity comes to show what the battery holds,   *)
(* however polls, writes, lost frames and short replies crossed.            *)
ReadsBack == <>[](\A k \in Settings : data[k] = regs[k])

(* number.py:3-5 and control.py:108-109, without the exceptions: writing    *)
(* the off-grid reserve never clobbers the excess value.                    *)
BlockKeepsExcess ==
    [][\A c \in Callers : Lands(c) /\ call[c].key = "reserve_off"
          => regs'["excess"] = regs["excess"]]_vars

=============================================================================
