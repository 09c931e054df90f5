------------------------------- MODULE BrokerMove -------------------------------
(***************************************************************************)
(* Moving the battery between Enertek's broker and the local broker        *)
(* add-on: the three dialogs (move to local, reconnect, move to vendor),   *)
(* the background task behind each progress screen, the gateway's two      *)
(* files with its reboots, and the entry the dialogs finally rewrite.      *)
(*                                                                         *)
(* The gateway runs the redirect that firewall.user held when it booted.   *)
(* Its daemon looks Enertek's name up before it connects: in /etc/hosts,   *)
(* else in DNS, where the name no longer exists once it has expired.       *)
(*                                                                         *)
(* The add-on serves every battery of the house with one battery login.    *)
(* "this" is the battery whose entry is followed, "other" one with an      *)
(* entry, dialogs and a gateway of its own, which runs the same code.      *)
(*                                                                         *)
(* A definition named X_Word is X with a plausible mistake: no part of the *)
(* specification, only there to show that the properties notice it.        *)
(***************************************************************************)
EXTENDS Naturals

CONSTANTS
    Addresses,      \* what may be entered as Home Assistant's address
    FirstHome,      \* the one it has at first
    Vendor,         \* Enertek's broker
    Dialogs,        \* options dialogs; a closed one may leave its task behind
    Logins,         \* what batteries log in with: records [user, pwd]
    Mine,           \* this battery's login
    FaultKinds,     \* of "addon", "ssh", "script", "silent", "power", "home",
                    \* "expired", "closed", "crash", "other"
    MaxMoves,       \* bound: moves started
    MaxFaults,      \* bound: faults
    None

ASSUME MoveAssumption ==
    /\ FirstHome \in Addresses /\ Vendor \notin Addresses /\ None \notin Addresses /\ Vendor # None
    /\ None \notin {"move_local", "reconnect", "move_vendor"}
    /\ Mine \in Logins /\ None \notin Logins
    /\ MaxMoves \in Nat /\ MaxFaults \in Nat

VARIABLES
    redirect,       \* the target of our line in firewall.user, or None
    hosts,          \* the address in our line in /etc/hosts, or None
    live,           \* the redirect in force since the last boot, or None
    power,          \* the gateway: "up", "due" to reboot, or "down"
    home,           \* Home Assistant's address
    dns,            \* Enertek's name resolves and its broker answers
    theirs,         \* the other battery's login
    addon,          \* the add-on's options: the battery login, or None, and the
                    \* batteries whose entries have a login of their own
    plan,           \* per dialog, the options its task is to save
    other,          \* the other battery's move: "away", "checked" with its
                    \* plan made, or "there"
    theirPlan,
    overlap,        \* ghost: two plans for the add-on were under way at once
    entry,          \* the config entry's broker and its "local broker" flag
    known,          \* Enertek's host is known when moving back
    dialog,         \* per dialog: "closed", "form" or "progress"
    task,           \* per dialog, the move behind its progress screen
    told,           \* ghost: the last outcome the owner saw was an error
    upset,          \* ghost: events after which no promise is made
    moves, faults

files == <<redirect, hosts>>
gateway == <<files, live, power>>
world == <<home, dns, known>>
broker == <<theirs, addon, plan, other, theirPlan, overlap>>
counters == <<moves, faults>>
vars == <<gateway, world, broker, entry, dialog, task, told, upset, counters>>

Kinds == {"move_local", "reconnect", "move_vendor"}
Ended == {"moved", "returned", "undone", "failed", "stuck"}
NoPlan == [login |-> None, listed |-> {}]
NoTask == [kind |-> None, addr |-> None, pc |-> "idle"]

Idle(d) == task[d].pc = "idle"
Running(d) == task[d].pc \notin Ended \cup {"idle"}
Goto(d, pc) == task' = [task EXCEPT ![d].pc = pc]

(* A battery on Enertek's broker; or one moved before the hosts entry was   *)
(* known to be needed, about which the owner then finds no data arriving.   *)
(* The add-on is new, has a login typed in by hand, or serves who is there. *)
Init ==
    /\ home = FirstHome /\ dns \in BOOLEAN /\ known \in BOOLEAN
    /\ \/ entry = [broker |-> Vendor, local |-> FALSE] /\ redirect = None /\ told = FALSE
       \/ entry = [broker |-> home, local |-> TRUE] /\ redirect = home /\ told = TRUE
    /\ hosts = None /\ live = redirect /\ power = "up"
    /\ theirs \in Logins /\ other \in {"away", "there"}
    /\ LET there == (IF entry.local THEN {"this"} ELSE {})
                    \cup (IF other = "there" THEN {"other"} ELSE {})
       IN  \E l \in {None, theirs} :
             /\ "this" \in there => l = Mine
             /\ "other" \in there => l = theirs
             /\ addon = [login |-> l, listed |-> there]
    /\ plan = [d \in Dialogs |-> NoPlan] /\ theirPlan = NoPlan /\ overlap = FALSE
    /\ dialog = [d \in Dialogs |-> "closed"] /\ task = [d \in Dialogs |-> NoTask]
    /\ upset = {} /\ moves = 0 /\ faults = 0

Fault(kind) ==
    /\ kind \in FaultKinds /\ faults < MaxFaults
    /\ faults' = faults + 1

-----------------------------------------------------------------------------
(* The dialogs. *)

(* The menu offers what fits the entry at that moment. *)
Offered == IF entry.local THEN {"reconnect", "move_vendor"} ELSE {"move_local"}

Open(d, kind) ==
    /\ dialog[d] = "closed" /\ Idle(d)
    /\ kind \in Offered
    /\ dialog' = [dialog EXCEPT ![d] = "form"]
    /\ task' = [task EXCEPT ![d].kind = kind]
    /\ UNCHANGED <<gateway, world, broker, entry, told, upset, counters>>

FirstStep(kind) ==
    CASE kind = "move_local" -> "addon"
      [] kind = "reconnect" -> "hosts"
      [] kind = "move_vendor" -> "unredirect"

(* merge_addon_options: the add-on's options with battery b and its login;  *)
(* refused if they name another user and list another battery.              *)
Merged(b, login) == [login |-> login, listed |-> addon.listed \cup {b}]
Taken_Never(b, login) == FALSE
Taken(b, login) ==
    addon.login # None /\ addon.login.user # login.user /\ addon.listed \ {b} # {}

(* The form is sent and the checks that change nothing pass: the task       *)
(* starts.  (If one fails, the form is shown again.)                        *)
Submit(d, a) ==
    /\ dialog[d] = "form" /\ moves < MaxMoves
    /\ power # "down"
    /\ (a = Vendor) = (task[d].kind = "move_vendor")
    /\ IF task[d].kind = "move_local"
       THEN ~Taken("this", Mine) /\ plan' = [plan EXCEPT ![d] = Merged("this", Mine)]
       ELSE UNCHANGED plan
    /\ dialog' = [dialog EXCEPT ![d] = "progress"]
    /\ task' = [task EXCEPT ![d] = [kind |-> task[d].kind, addr |-> a,
                                    pc |-> FirstStep(task[d].kind)]]
    /\ upset' = upset \cup (IF \E e \in Dialogs : ~Idle(e) THEN {"crossed"} ELSE {})
    /\ overlap' = (overlap \/ (other = "checked" /\ task[d].kind = "move_local"))
    /\ moves' = moves + 1
    /\ UNCHANGED <<gateway, world, theirs, addon, other, theirPlan, entry, told, faults>>

(* Closed before it is sent; or during the move, which goes on. *)
Close(d) ==
    /\ dialog[d] # "closed"
    /\ dialog' = [dialog EXCEPT ![d] = "closed"]
    /\ \/ dialog[d] = "form"
          /\ task' = [task EXCEPT ![d] = NoTask]
          /\ UNCHANGED <<upset, faults>>
       \/ dialog[d] = "progress" /\ Fault("closed")
          /\ upset' = upset \cup {"closed"}
          /\ UNCHANGED task
    /\ UNCHANGED <<gateway, world, broker, entry, told, moves>>

(* The outcome of a task nobody waits for is dropped. *)
Dropped(d) ==
    /\ dialog[d] = "closed" /\ task[d].pc \in Ended
    /\ task' = [task EXCEPT ![d] = NoTask]
    /\ UNCHANGED <<gateway, world, broker, entry, dialog, told, upset, counters>>

(* _save_broker.  Without Enertek's host only the flag is cleared. *)
Saved_Unmoved(t) == [broker |-> entry.broker, local |-> t.pc = "moved"]
Saved(t) ==
    CASE t.pc = "moved" -> [broker |-> t.addr, local |-> TRUE]
      [] t.pc = "returned" /\ known -> [broker |-> Vendor, local |-> FALSE]
      [] t.pc = "returned" /\ ~known -> [entry EXCEPT !.local = FALSE]
      [] t.pc \in {"undone", "failed", "stuck"} -> entry

Finish(d) ==
    /\ dialog[d] = "progress" /\ task[d].pc \in Ended
    /\ entry' = Saved(task[d])
    /\ told' = (task[d].pc \in {"undone", "failed", "stuck"})
    /\ task' = [task EXCEPT ![d] = NoTask]
    /\ dialog' = [dialog EXCEPT ![d] = "closed"]
    /\ UNCHANGED <<gateway, world, broker, upset, counters>>

-----------------------------------------------------------------------------
(* The tasks: _do_move_local, _do_reconnect, _do_move_vendor. *)

(* The add-on's options are saved and it restarts; then its login is tried  *)
(* at the address given, for up to a minute.                                *)
AddonApplied(d) ==
    /\ task[d].pc = "addon"
    /\ \/ addon' = plan[d] /\ Goto(d, "login") /\ UNCHANGED faults
       \/ addon' \in {addon, plan[d]} /\ Goto(d, "failed") /\ Fault("addon")
    /\ UNCHANGED <<gateway, world, theirs, plan, other, theirPlan, overlap, entry, dialog, told,
                   upset, moves>>

LoginTimesOut_Never == FALSE
LoginTimesOut == TRUE
LoginChecked(d) ==
    /\ task[d].pc = "login"
    /\ LET accepted == task[d].addr = home /\ "this" \in addon.listed
       IN  \/ accepted /\ Goto(d, "redirect")
           \/ ~accepted /\ LoginTimesOut /\ Goto(d, "failed")
    /\ UNCHANGED <<gateway, world, broker, entry, dialog, told, upset, counters>>

Writes == {"redirect", "hosts"}
Removals == {"unredirect", "unhosts", "tidy_redirect", "tidy_hosts"}
Reboots == {"reboot", "reboot_back"}

(* What the two files hold after a command. *)
RedirectAfter(t) ==
    CASE t.pc = "redirect" -> t.addr
      [] t.pc \in {"unredirect", "tidy_redirect"} -> None
      [] OTHER -> redirect

HostsAfter_OnlyAdds(t) == IF t.pc = "hosts" THEN t.addr ELSE hosts
HostsAfter(t) ==
    CASE t.pc = "hosts" -> t.addr
      [] t.pc \in {"unhosts", "tidy_hosts"} -> None
      [] OTHER -> hosts

Then(t) ==
    CASE t.pc = "redirect" -> IF t.kind = "move_local" THEN "hosts" ELSE "reboot"
      [] t.pc = "hosts" -> IF t.kind = "move_local" THEN "reboot" ELSE "inspect"
      [] t.pc = "reboot" -> "verify"
      [] t.pc = "unredirect" -> "unhosts"
      [] t.pc = "unhosts" -> IF t.kind = "move_local" THEN "reboot_back" ELSE "reboot"
      [] t.pc = "reboot_back" -> "undone"
      [] t.pc = "tidy_redirect" -> "tidy_hosts"
      [] t.pc = "tidy_hosts" -> "failed"

(* MoveError.  Before the reboot both files are tidied, errors ignored; a   *)
(* rollback that fails says so; every other task just ends.                 *)
Failing(t) ==
    CASE t.kind = "move_local" /\ t.pc \in Writes -> "tidy_redirect"
      [] t.pc = "tidy_redirect" -> "tidy_hosts"
      [] t.kind = "move_local" /\ t.pc \in {"unredirect", "unhosts", "reboot_back"} -> "stuck"
      [] OTHER -> "failed"

Commands == Writes \cup Removals \cup Reboots

Effect(t) ==
    /\ redirect' = RedirectAfter(t) /\ hosts' = HostsAfter(t)
    /\ power' = IF t.pc \in Reboots THEN "due" ELSE power

(* Over SSH the command runs and its output is as expected. *)
CommandRuns(d) ==
    /\ task[d].pc \in Commands /\ power # "down"
    /\ Effect(task[d])
    /\ Goto(d, Then(task[d]))
    /\ UNCHANGED <<live, world, broker, entry, dialog, told, upset, counters>>

(* No connection, or it breaks: the command ran or it did not. *)
CommandFails(d) ==
    /\ task[d].pc \in Commands \cup {"inspect"}
    /\ Goto(d, Failing(task[d]))
    /\ \/ power = "down" /\ UNCHANGED <<files, power, faults>>
       \/ /\ power # "down" /\ Fault("ssh")
          /\ \/ UNCHANGED <<files, power>>
             \/ Effect(task[d])
    /\ UNCHANGED <<live, world, broker, entry, dialog, told, upset, moves>>

(* sed fails, the rest of the script is skipped and nothing is printed: an  *)
(* error when writing a line, but taken for success when removing one.      *)
ScriptFails(d) ==
    /\ task[d].pc \in Writes \cup Removals /\ power # "down"
    /\ Fault("script")
    /\ Goto(d, IF task[d].pc \in Writes THEN Failing(task[d]) ELSE Then(task[d]))
    /\ upset' = IF task[d].pc \in Removals THEN upset \cup {"script"} ELSE upset
    /\ UNCHANGED <<gateway, world, broker, entry, dialog, told, moves>>

(* Reconnecting re-points the redirect only if it has to. *)
PointsAt_Live(a) == live = a
PointsAt(a) == live = a /\ redirect = a
Inspected(d) ==
    /\ task[d].pc = "inspect" /\ power # "down"
    /\ Goto(d, IF PointsAt(task[d].addr) THEN "verify" ELSE "redirect")
    /\ UNCHANGED <<gateway, world, broker, entry, dialog, told, upset, counters>>

(* The broker the battery is on. *)
Connected ==
    CASE power = "down" \/ (hosts = None /\ ~dns) -> None
      [] power # "down" /\ (hosts # None \/ dns) /\ live # None ->
            IF live = home /\ addon.login = Mine THEN home ELSE None
      [] power # "down" /\ dns /\ hosts = None /\ live = None -> Vendor
      [] power # "down" /\ hosts # None /\ live = None -> None

(* Home Assistant gets in there: with its own login on the add-on, or with  *)
(* what is known of Enertek's.                                              *)
Reached(d) == IF task[d].addr = Vendor THEN known ELSE "this" \in addon.listed

(* battery_answers: some message of the battery on the broker it should     *)
(* have moved to.                                                           *)
BatteryAnswers(d) ==
    /\ task[d].pc = "verify" /\ Connected = task[d].addr /\ Reached(d)
    /\ Goto(d, IF task[d].kind = "move_vendor" THEN "returned" ELSE "moved")
    /\ UNCHANGED <<gateway, world, broker, entry, dialog, told, upset, counters>>

(* None in time: a move to local is rolled back, a reconnection reported;   *)
(* moving back counts as done, just not confirmed (nor tried without        *)
(* Enertek's host).                                                         *)
Unanswered_RollsBack(kind) == IF kind = "move_vendor" THEN "returned" ELSE "back"
Unanswered(kind) ==
    CASE kind = "move_local" -> "back"
      [] kind = "reconnect" -> "failed"
      [] kind = "move_vendor" -> "returned"

BatterySilent(d) ==
    /\ task[d].pc = "verify"
    /\ \/ (Connected # task[d].addr \/ ~Reached(d)) /\ UNCHANGED faults
       \/ Connected = task[d].addr /\ Fault("silent")
    /\ Goto(d, Unanswered(task[d].kind))
    /\ UNCHANGED <<gateway, world, broker, entry, dialog, told, upset, moves>>

(* wait_until_back, before the rollback. *)
GatewayBack(d) ==
    /\ task[d].pc = "back"
    /\ Goto(d, IF power = "down" THEN "stuck" ELSE "unredirect")
    /\ UNCHANGED <<gateway, world, broker, entry, dialog, told, upset, counters>>

TaskStep(d) ==
    \/ AddonApplied(d) \/ LoginChecked(d)
    \/ CommandRuns(d) \/ CommandFails(d) \/ ScriptFails(d)
    \/ Inspected(d) \/ BatteryAnswers(d) \/ BatterySilent(d) \/ GatewayBack(d)

-----------------------------------------------------------------------------
(* The gateway and the rest of the world. *)

GoesDown ==
    /\ \/ power = "due" /\ UNCHANGED faults
       \/ power = "up" /\ Fault("power")
    /\ power' = "down" /\ live' = None
    /\ UNCHANGED <<files, world, broker, entry, dialog, task, told, upset, moves>>

(* firewall.user runs at boot. *)
Boots ==
    /\ power = "down"
    /\ power' = "up" /\ live' = redirect
    /\ UNCHANGED <<files, world, broker, entry, dialog, task, told, upset, counters>>

HomeMoves(a) ==
    /\ Fault("home")
    /\ a # home /\ home' = a
    /\ UNCHANGED <<gateway, dns, known, broker, entry, dialog, task, told, upset, moves>>

DomainExpires ==
    /\ Fault("expired")
    /\ dns /\ dns' = FALSE
    /\ UNCHANGED <<gateway, home, known, broker, entry, dialog, task, told, upset, moves>>

(* Home Assistant stops: dialogs and tasks are gone, wherever they were. *)
Crash ==
    /\ Fault("crash")
    /\ dialog' = [d \in Dialogs |-> "closed"] /\ task' = [d \in Dialogs |-> NoTask]
    /\ upset' = upset \cup (IF \E d \in Dialogs : ~Idle(d) THEN {"crash"} ELSE {})
    /\ other' = (IF other = "checked" THEN "away" ELSE other)
    /\ UNCHANGED <<gateway, world, theirs, addon, plan, theirPlan, overlap, entry, told, moves>>

(* The other battery moves to the add-on as well. *)
OtherChecks ==
    /\ other = "away" /\ Fault("other")
    /\ ~Taken("other", theirs)
    /\ other' = "checked" /\ theirPlan' = Merged("other", theirs)
    /\ overlap' = (overlap \/ \E d \in Dialogs : task[d].pc = "addon")
    /\ UNCHANGED <<gateway, world, theirs, addon, plan, entry, dialog, task, told, upset, moves>>

OtherSaves ==
    /\ other = "checked"
    /\ addon' = theirPlan /\ other' = "there"
    /\ UNCHANGED <<gateway, world, theirs, plan, theirPlan, overlap, entry, dialog, task, told,
                   upset, counters>>

Next ==
    \/ \E d \in Dialogs :
          \/ \E kind \in Kinds : Open(d, kind)
          \/ \E a \in Addresses \cup {Vendor} : Submit(d, a)
          \/ Close(d) \/ Dropped(d) \/ Finish(d)
          \/ TaskStep(d)
    \/ GoesDown \/ Boots
    \/ \E a \in Addresses : HomeMoves(a)
    \/ DomainExpires \/ Crash
    \/ OtherChecks \/ OtherSaves

Spec == Init /\ [][Next]_vars

(* Every wait of a task has a timeout, a finished task's screen moves on by *)
(* itself, and a gateway that went down comes up.                           *)
Fairness ==
    /\ \A d \in Dialogs : WF_vars(TaskStep(d)) /\ WF_vars(Finish(d)) /\ WF_vars(Dropped(d))
    /\ WF_vars(GoesDown /\ power = "due") /\ WF_vars(Boots)

FairSpec == Spec /\ Fairness

-----------------------------------------------------------------------------

Steps ==
    [move_local |-> {"addon", "login", "redirect", "hosts", "reboot", "verify", "back",
                     "unredirect", "unhosts", "reboot_back", "tidy_redirect", "tidy_hosts",
                     "moved", "undone", "failed", "stuck"},
     reconnect |-> {"hosts", "inspect", "redirect", "reboot", "verify", "moved", "failed"},
     move_vendor |-> {"unredirect", "unhosts", "reboot", "verify", "returned", "failed"}]

Options == [login : Logins \cup {None}, listed : SUBSET {"this", "other"}]

MoveTypeOK ==
    /\ redirect \in Addresses \cup {None} /\ hosts \in Addresses \cup {None}
    /\ live \in Addresses \cup {None} /\ power \in {"up", "due", "down"}
    /\ home \in Addresses /\ dns \in BOOLEAN /\ known \in BOOLEAN /\ told \in BOOLEAN
    /\ entry \in [broker : Addresses \cup {Vendor}, local : BOOLEAN]
    /\ dialog \in [Dialogs -> {"closed", "form", "progress"}]
    /\ \A d \in Dialogs :
          IF Idle(d) THEN task[d].addr = None /\ dialog[d] # "progress"
          ELSE /\ task[d].kind \in Kinds /\ task[d].pc \in Steps[task[d].kind]
               /\ task[d].addr \in (IF task[d].kind = "move_vendor" THEN {Vendor} ELSE Addresses)
               /\ dialog[d] # "form"
    /\ upset \subseteq {"crossed", "closed", "script", "crash"}

AddonTypeOK ==
    /\ theirs \in Logins /\ other \in {"away", "checked", "there"} /\ overlap \in BOOLEAN
    /\ addon \in Options /\ plan \in [Dialogs -> Options] /\ theirPlan \in Options

TypeOK == MoveTypeOK /\ AddonTypeOK

Quiet == \A d \in Dialogs : Idle(d)

(* With no move under way, either the last thing the owner saw was an       *)
(* error, or the gateway's files match the entry, so that it stays that way *)
(* through any power cut: whichever command failed, ran unnoticed, or met a *)
(* gateway that was down.  Not promised after a dialog was closed or Home   *)
(* Assistant stopped during a move, two moves crossed, or sed failed.       *)
FilesMatchEntry ==
    Quiet /\ ~told /\ upset = {} =>
        IF entry.local THEN redirect = entry.broker /\ hosts = entry.broker
        ELSE redirect = None /\ hosts = None

(* An outcome is true of the gateway, also when nobody waits for it any     *)
(* more: after "moved" both lines carry the address given; after "the       *)
(* change has been undone and the battery is going back to Enertek's        *)
(* broker", or a move back, both are gone and the redirect is out of force  *)
(* or the reboot that ends it under way.                                    *)
OutcomeIsTrue ==
    \A d \in Dialogs : upset \subseteq {"closed"} =>
        /\ task[d].pc = "moved" => redirect = task[d].addr /\ hosts = task[d].addr
        /\ task[d].pc \in {"undone", "returned"} =>
              redirect = None /\ hosts = None /\ (live = None \/ power # "up")

(* Batteries with different logins have different names for them. *)
Apart == theirs.user = Mine.user => theirs = Mine

(* A battery on the add-on, this one or the other, keeps the login it uses  *)
(* there, and Home Assistant its own: no move of the other one, done,       *)
(* failed or abandoned, cuts it off.  Not promised when two moves had their *)
(* checks before either saved the options, or when two logins differ in     *)
(* their password only, which are not told apart.                           *)
KeepsLogins ==
    ~overlap /\ Apart =>
        /\ entry.local => addon.login = Mine /\ "this" \in addon.listed
        /\ other = "there" => addon.login = theirs /\ "other" \in addon.listed

(* In the end the battery is on the broker the entry's flag names, if that  *)
(* broker is there at all, or the owner was told of an error.               *)
EndsConnected ==
    <>[](Quiet /\ ~told /\ upset = {} /\ ~overlap /\ Apart =>
           Connected = (IF entry.local /\ entry.broker = home THEN home
                        ELSE IF ~entry.local /\ dns THEN Vendor ELSE None))

(* Every move ends: no login, reboot, probe or rollback waits for ever. *)
EveryMoveEnds == \A d \in Dialogs : Running(d) ~> ~Running(d)

(* strings.json:70, "if the battery doesn't connect, the change is undone   *)
(* automatically": no failed move leaves the redirect for the next boot.    *)
FailedMoveIsUndone ==
    \A d \in Dialogs : task[d].kind = "move_local" /\ task[d].pc = "failed" /\ upset = {} =>
        redirect = None

=============================================================================
