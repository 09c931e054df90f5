---------------------------- MODULE BrokerMoveProofs ----------------------------
(***************************************************************************)
(* Proofs about BrokerMove, for any number of dialogs, addresses, moves    *)
(* and faults.                                                             *)
(***************************************************************************)
EXTENDS BrokerMove, TLAPS

PCs == {"idle", "addon", "login", "redirect", "hosts", "reboot", "verify", "back",
        "inspect", "unredirect", "unhosts", "reboot_back", "tidy_redirect", "tidy_hosts",
        "moved", "returned", "undone", "failed", "stuck"}

Tasks == [kind : Kinds \cup {None}, addr : Addresses \cup {Vendor, None}, pc : PCs]

(* MoveTypeOK says where each kind of move may be; this adds that the tasks are *)
(* records, and that a form knows what it asks for.                         *)
Shape ==
    /\ MoveTypeOK
    /\ task \in [Dialogs -> Tasks]
    /\ \A d \in Dialogs : dialog[d] = "form" => task[d].kind \in Kinds

(* The part of MoveTypeOK about everything but the dialogs. *)
Scalars ==
    /\ redirect \in Addresses \cup {None} /\ hosts \in Addresses \cup {None}
    /\ live \in Addresses \cup {None} /\ power \in {"up", "due", "down"}
    /\ home \in Addresses /\ dns \in BOOLEAN /\ known \in BOOLEAN /\ told \in BOOLEAN
    /\ entry \in [broker : Addresses \cup {Vendor}, local : BOOLEAN]
    /\ upset \subseteq {"crossed", "closed", "script", "crash"}

(* A task t and its dialog v go together. *)
Fits(t, v) ==
    IF t.pc = "idle" THEN t.addr = None /\ v # "progress" /\ (v = "form" => t.kind \in Kinds)
    ELSE /\ t.kind \in Kinds /\ t.pc \in Steps[t.kind]
         /\ t.addr \in (IF t.kind = "move_vendor" THEN {Vendor} ELSE Addresses)
         /\ v # "form"

(* One task at a time, unless two crossed; and somebody waits for it,       *)
(* unless its dialog was closed.                                            *)
OneTask ==
    /\ "crossed" \notin upset =>
          \A d, e \in Dialogs : ~Idle(d) /\ ~Idle(e) => d = e
    /\ "closed" \notin upset => \A d \in Dialogs : ~Idle(d) => dialog[d] = "progress"

(* How far a task has come with the two files and the rule in force. *)
Progress(d) ==
    /\ task[d].kind # "move_vendor" /\ task[d].pc \in {"reboot", "verify", "moved"} =>
          redirect = task[d].addr /\ hosts = task[d].addr
    /\ task[d].kind = "move_local" /\ task[d].pc = "hosts" => redirect = task[d].addr
    /\ task[d].kind = "reconnect" /\ task[d].pc \in {"inspect", "redirect"} =>
          hosts = task[d].addr
    /\ task[d].pc = "unhosts" => redirect = None
    /\ \/ task[d].pc \in {"reboot_back", "undone"}
       \/ task[d].kind = "move_vendor" /\ task[d].pc \in {"reboot", "verify", "returned"}
       => redirect = None /\ hosts = None
    /\ \/ task[d].pc = "undone"
       \/ task[d].kind = "move_vendor" /\ task[d].pc \in {"verify", "returned"}
       => live = None \/ power # "up"

(* What is promised while nothing crossed, no script failed and Home        *)
(* Assistant did not stop.                                                  *)
Promise == upset \subseteq {"closed"} => \A d \in Dialogs : Progress(d)

(* This battery is on the add-on, about to be, or being reconnected to it. *)
Uses(d) ==
    \/ task[d].kind = "reconnect"
    \/ task[d].kind = "move_local" /\ task[d].pc \notin {"idle", "addon", "failed"}

(* Who is on the add-on, and what the plans under way would make of it. *)
Lists ==
    /\ "other" \in addon.listed <=> other = "there"
    /\ entry.local \/ (\E d \in Dialogs : Uses(d)) => "this" \in addon.listed
    /\ Apart => /\ "this" \in addon.listed => addon.login = Mine
                /\ other = "there" => addon.login = theirs

Plans ==
    /\ \A d \in Dialogs : task[d].pc = "addon" =>
          /\ other # "checked" /\ plan[d].login = Mine /\ "this" \in plan[d].listed
          /\ "other" \in plan[d].listed <=> other = "there"
          /\ Apart /\ other = "there" => theirs = Mine
    /\ other = "checked" =>
          /\ theirPlan.login = theirs /\ "other" \in theirPlan.listed
          /\ "this" \in theirPlan.listed <=> "this" \in addon.listed
          /\ Apart /\ "this" \in addon.listed => theirs = Mine

Addon == AddonTypeOK /\ (~overlap => Lists /\ Plans)

IInv == Shape /\ OneTask /\ Promise /\ FilesMatchEntry /\ Addon

-----------------------------------------------------------------------------
(* Type correctness. *)

(* Initially every variable has its type. *)
LEMMA ShapeInit == Init => Shape
  <1> SUFFICES ASSUME Init PROVE Shape
    OBVIOUS
  <1>1. NoTask \in Tasks
    BY DEF NoTask, Tasks, PCs
  <1>2. task \in [Dialogs -> Tasks] /\ \A d \in Dialogs : Idle(d) /\ task[d].addr = None
    BY <1>1 DEF Init, NoTask, Idle
  <1>3. dialog \in [Dialogs -> {"closed", "form", "progress"}]
        /\ \A d \in Dialogs : dialog[d] = "closed"
    BY DEF Init
  <1>4. entry \in [broker : Addresses \cup {Vendor}, local : BOOLEAN]
    <2>1. CASE entry = [broker |-> Vendor, local |-> FALSE]
      BY <2>1
    <2>2. CASE entry = [broker |-> FirstHome, local |-> TRUE]
      BY <2>2, MoveAssumption
    <2>3. \/ entry = [broker |-> Vendor, local |-> FALSE]
          \/ entry = [broker |-> home, local |-> TRUE]
      BY Zenon DEF Init
    <2> QED
      BY <2>1, <2>2, <2>3 DEF Init
  <1>5. dns \in BOOLEAN /\ known \in BOOLEAN /\ told \in BOOLEAN
    <2>1. told = TRUE \/ told = FALSE
      BY DEF Init
    <2>2. told \in BOOLEAN
      BY <2>1, Zenon
    <2>3. dns \in BOOLEAN /\ known \in BOOLEAN
      BY Zenon DEF Init
    <2> QED
      BY <2>2, <2>3, Zenon
  <1>6. /\ redirect \in Addresses \cup {None} /\ hosts \in Addresses \cup {None}
        /\ live \in Addresses \cup {None} /\ power \in {"up", "due", "down"}
        /\ home \in Addresses /\ upset = {}
    BY MoveAssumption DEF Init
  <1> QED
    BY <1>2, <1>3, <1>4, <1>5, <1>6 DEF Shape, MoveTypeOK

(* A task that goes on keeps its kind and its address, and no other moves.  *)
LEMMA TaskMoves ==
    ASSUME Shape, NEW d \in Dialogs, NEW pc \in PCs, Goto(d, pc)
    PROVE  /\ task' \in [Dialogs -> Tasks]
           /\ task'[d].kind = task[d].kind /\ task'[d].addr = task[d].addr /\ task'[d].pc = pc
           /\ \A e \in Dialogs \ {d} : task'[e] = task[e]
  BY DEF Shape, Goto, Tasks

(* A step that changes one dialog and its task only.                        *)
LEMMA ShapeKept ==
    ASSUME Shape, Scalars', NEW d \in Dialogs,
           task' \in [Dialogs -> Tasks], dialog' \in [Dialogs -> {"closed", "form", "progress"}],
           \A e \in Dialogs \ {d} : task'[e] = task[e] /\ dialog'[e] = dialog[e],
           Fits(task'[d], dialog'[d])
    PROVE  Shape'
  <1>1. \A e \in Dialogs : Fits(task'[e], dialog'[e])
    BY DEF Shape, MoveTypeOK, Fits, Idle
  <1>2. \A e \in Dialogs :
          IF Idle(e)' THEN task'[e].addr = None /\ dialog'[e] # "progress"
          ELSE /\ task'[e].kind \in Kinds /\ task'[e].pc \in Steps[task'[e].kind]
               /\ task'[e].addr \in (IF task'[e].kind = "move_vendor" THEN {Vendor} ELSE Addresses)
               /\ dialog'[e] # "form"
    BY <1>1 DEF Fits, Idle
  <1>3. \A e \in Dialogs : dialog'[e] = "form" => task'[e].kind \in Kinds
    BY <1>1 DEF Fits
  <1> QED
    BY <1>2, <1>3 DEF Shape, MoveTypeOK, Scalars

(* A task goes on to a step of its kind: the types hold.                    *)
LEMMA TaskShape ==
    ASSUME Shape, NEW d \in Dialogs, ~Idle(d), NEW pc \in Steps[task[d].kind], Goto(d, pc),
           dialog' = dialog, Scalars'
    PROVE  Shape'
  <1>1. task[d].kind \in Kinds /\ pc \in PCs /\ pc # "idle"
    BY DEF Shape, MoveTypeOK, Kinds, Steps, PCs
  <1>2. /\ task' \in [Dialogs -> Tasks]
        /\ task'[d].kind = task[d].kind /\ task'[d].addr = task[d].addr /\ task'[d].pc = pc
        /\ \A e \in Dialogs \ {d} : task'[e] = task[e]
    BY <1>1, TaskMoves
  <1>3. Fits(task'[d], dialog'[d])
    BY <1>1, <1>2 DEF Fits, Shape, MoveTypeOK, Idle
  <1> QED
    BY <1>2, <1>3, ShapeKept DEF Shape, MoveTypeOK

(* A command or a script leaves files and power of the right type.          *)
LEMMA EffectType ==
    ASSUME Shape, NEW d \in Dialogs, task[d].pc \in Commands, Effect(task[d])
    PROVE  /\ redirect' \in Addresses \cup {None} /\ hosts' \in Addresses \cup {None}
           /\ power' \in {"up", "due", "down"}
  <1>1. task[d].pc \in {"redirect", "hosts"} => task[d].addr \in Addresses
    BY DEF Shape, MoveTypeOK, Idle, Kinds, Steps
  <1> QED
    BY <1>1 DEF Shape, MoveTypeOK, Effect, RedirectAfter, HostsAfter

(* The dialogs keep the types.                                              *)
LEMMA TypeDialog ==
    ASSUME Shape, NEW d \in Dialogs,
           \/ \E kind \in Kinds : Open(d, kind)
           \/ \E a \in Addresses \cup {Vendor} : Submit(d, a)
           \/ Close(d) \/ Dropped(d) \/ Finish(d)
    PROVE  Shape'
  <1>0. NoTask \in Tasks /\ NoTask.pc = "idle" /\ NoTask.addr = None
    BY DEF NoTask, Tasks, PCs
  <1>1. ASSUME NEW kind \in Kinds, Open(d, kind) PROVE Shape'
    <2>1. /\ task' \in [Dialogs -> Tasks] /\ dialog' \in [Dialogs -> {"closed", "form", "progress"}]
          /\ \A e \in Dialogs \ {d} : task'[e] = task[e] /\ dialog'[e] = dialog[e]
          /\ task'[d].pc = task[d].pc /\ task'[d].addr = task[d].addr /\ task'[d].kind = kind
          /\ dialog'[d] = "form"
      BY <1>1 DEF Open, Shape, MoveTypeOK, Tasks
    <2>2. Fits(task'[d], dialog'[d])
      BY <1>1, <2>1 DEF Fits, Open, Shape, MoveTypeOK, Idle
    <2>3. Scalars'
      BY <1>1 DEF Open, Scalars, Shape, MoveTypeOK, gateway, files, world
    <2> QED
      BY <2>1, <2>2, <2>3, ShapeKept
  <1>2. ASSUME NEW a \in Addresses \cup {Vendor}, Submit(d, a) PROVE Shape'
    <2>1. task[d].kind \in Kinds
      BY <1>2 DEF Submit, Shape
    <2>2. FirstStep(task[d].kind) \in Steps[task[d].kind] /\ FirstStep(task[d].kind) \in PCs \ {"idle"}
      BY <2>1 DEF Kinds, FirstStep, Steps, PCs
    <2>3. [kind |-> task[d].kind, addr |-> a, pc |-> FirstStep(task[d].kind)] \in Tasks
      BY <2>1, <2>2 DEF Tasks
    <2>4. /\ task' \in [Dialogs -> Tasks] /\ dialog' \in [Dialogs -> {"closed", "form", "progress"}]
          /\ \A e \in Dialogs \ {d} : task'[e] = task[e] /\ dialog'[e] = dialog[e]
          /\ task'[d] = [kind |-> task[d].kind, addr |-> a, pc |-> FirstStep(task[d].kind)]
          /\ dialog'[d] = "progress"
      BY <1>2, <2>3 DEF Submit, Shape, MoveTypeOK
    <2>5. Fits(task'[d], dialog'[d])
      BY <1>2, <2>1, <2>2, <2>4, MoveAssumption DEF Fits, Submit
    <2>6. Scalars'
      BY <1>2 DEF Submit, Scalars, Shape, MoveTypeOK, gateway, files, world
    <2> QED
      BY <2>4, <2>5, <2>6, ShapeKept
  <1>3. CASE Close(d)
    <2>1. /\ task' \in [Dialogs -> Tasks] /\ dialog' \in [Dialogs -> {"closed", "form", "progress"}]
          /\ \A e \in Dialogs \ {d} : task'[e] = task[e] /\ dialog'[e] = dialog[e]
          /\ dialog'[d] = "closed"
          /\ \/ task'[d] = NoTask
             \/ task'[d] = task[d] /\ dialog[d] = "progress"
      BY <1>0, <1>3 DEF Close, Shape, MoveTypeOK
    <2>2. Fits(task'[d], dialog'[d])
      BY <1>0, <2>1 DEF Fits, Shape, MoveTypeOK, Idle
    <2>3. Scalars'
      BY <1>3 DEF Close, Scalars, Shape, MoveTypeOK, gateway, files, world
    <2> QED
      BY <2>1, <2>2, <2>3, ShapeKept
  <1>4. CASE Dropped(d)
    <2>1. /\ task' \in [Dialogs -> Tasks] /\ dialog' = dialog /\ dialog[d] = "closed"
          /\ \A e \in Dialogs \ {d} : task'[e] = task[e]
          /\ task'[d] = NoTask
      BY <1>0, <1>4 DEF Dropped, Shape, MoveTypeOK
    <2>2. Fits(task'[d], dialog'[d])
      BY <1>0, <2>1 DEF Fits
    <2>3. Scalars'
      BY <1>4 DEF Dropped, Scalars, Shape, MoveTypeOK, gateway, files, world
    <2> QED
      BY <2>1, <2>2, <2>3, ShapeKept DEF Shape, MoveTypeOK
  <1>5. CASE Finish(d)
    <2>1. /\ task' \in [Dialogs -> Tasks] /\ dialog' \in [Dialogs -> {"closed", "form", "progress"}]
          /\ \A e \in Dialogs \ {d} : task'[e] = task[e] /\ dialog'[e] = dialog[e]
          /\ task'[d] = NoTask /\ dialog'[d] = "closed"
      BY <1>0, <1>5 DEF Finish, Shape, MoveTypeOK
    <2>2. Fits(task'[d], dialog'[d])
      BY <1>0, <2>1 DEF Fits
    <2>3. entry' \in [broker : Addresses \cup {Vendor}, local : BOOLEAN]
      <3>1. task[d].pc = "moved" => task[d].addr \in Addresses \cup {Vendor}
        BY DEF Shape, MoveTypeOK, Idle
      <3>2. entry.broker \in Addresses \cup {Vendor}
        BY DEF Shape, MoveTypeOK
      <3>3. CASE task[d].pc = "moved"
        <4>1. entry' = [broker |-> task[d].addr, local |-> TRUE]
          BY <1>5, <3>3 DEF Finish, Saved
        <4> QED
          BY <4>1, <3>1, <3>3
      <3>4. CASE task[d].pc = "returned" /\ known
        <4>1. entry' = [broker |-> Vendor, local |-> FALSE]
          BY <1>5, <3>4 DEF Finish, Saved
        <4> QED
          BY <4>1
      <3>5. CASE task[d].pc = "returned" /\ ~known
        <4>1. entry' = [entry EXCEPT !.local = FALSE]
          BY <1>5, <3>5 DEF Finish, Saved
        <4> QED
          BY <4>1 DEF Shape, MoveTypeOK
      <3>6. CASE task[d].pc \in {"undone", "failed", "stuck"}
        <4>1. entry' = entry
          BY <1>5, <3>6 DEF Finish, Saved
        <4> QED
          BY <4>1 DEF Shape, MoveTypeOK
      <3> QED
        BY <1>5, <3>3, <3>4, <3>5, <3>6 DEF Finish, Ended
    <2>4. told' \in BOOLEAN
      <3>1. told' = (task[d].pc \in {"undone", "failed", "stuck"})
        BY <1>5 DEF Finish
      <3>2. told' = TRUE \/ told' = FALSE
        BY <3>1
      <3> QED
        BY <3>2, Zenon
    <2>5. Scalars'
      BY <1>5, <2>3, <2>4 DEF Finish, Scalars, Shape, MoveTypeOK, gateway, files, world
    <2> QED
      BY <2>1, <2>2, <2>5, ShapeKept
  <1> QED
    BY <1>1, <1>2, <1>3, <1>4, <1>5

(* The tasks' steps keep the types.                                         *)
LEMMA TypeTask ==
    ASSUME Shape, NEW d \in Dialogs, TaskStep(d)
    PROVE  Shape'
  <1>0. Scalars
    BY DEF Scalars, Shape, MoveTypeOK
  <1>1. CASE AddonApplied(d)
    <2>1. ~Idle(d) /\ task[d].kind = "move_local"
      BY <1>1 DEF AddonApplied, Idle, Shape, MoveTypeOK, Kinds, Steps
    <2>2. \E pc \in Steps[task[d].kind] : Goto(d, pc)
      BY <1>1, <2>1 DEF AddonApplied, Steps
    <2>3. Scalars' /\ dialog' = dialog
      BY <1>0, <1>1 DEF AddonApplied, Scalars, gateway, files, world
    <2> QED
      BY <2>1, <2>2, <2>3, TaskShape
  <1>2. CASE LoginChecked(d)
    <2>1. ~Idle(d) /\ task[d].kind = "move_local"
      BY <1>2 DEF LoginChecked, Idle, Shape, MoveTypeOK, Kinds, Steps
    <2>2. \E pc \in Steps[task[d].kind] : Goto(d, pc)
      BY <1>2, <2>1 DEF LoginChecked, Steps
    <2>3. Scalars' /\ dialog' = dialog
      BY <1>0, <1>2 DEF LoginChecked, Scalars, gateway, files, world
    <2> QED
      BY <2>1, <2>2, <2>3, TaskShape
  <1>3. CASE CommandRuns(d)
    <2>1. ~Idle(d) /\ Then(task[d]) \in Steps[task[d].kind]
      BY <1>3 DEF CommandRuns, Commands, Writes, Removals, Reboots, Idle, Shape, MoveTypeOK, Kinds,
                  Steps, Then
    <2>2. Scalars'
      BY <1>0, <1>3, EffectType DEF CommandRuns, Scalars, world
    <2> QED
      BY <1>3, <2>1, <2>2, TaskShape DEF CommandRuns
  <1>4. CASE CommandFails(d)
    <2>1. ~Idle(d) /\ Failing(task[d]) \in Steps[task[d].kind]
      BY <1>4 DEF CommandFails, Commands, Writes, Removals, Reboots, Idle, Shape, MoveTypeOK, Kinds,
                  Steps, Failing
    <2>2. Effect(task[d]) /\ task[d].pc = "inspect" =>
            UNCHANGED <<files, power>>
      BY DEF Effect, RedirectAfter, HostsAfter, Reboots, files
    <2>3. Scalars'
      BY <1>0, <1>4, <2>2, EffectType DEF CommandFails, Scalars, world, files
    <2> QED
      BY <1>4, <2>1, <2>3, TaskShape DEF CommandFails
  <1>5. CASE ScriptFails(d)
    <2>1. ~Idle(d)
      BY <1>5 DEF ScriptFails, Writes, Removals, Idle
    <2>2. \E pc \in Steps[task[d].kind] : Goto(d, pc)
      BY <1>5, <2>1 DEF ScriptFails, Writes, Removals, Idle, Shape, MoveTypeOK, Kinds, Steps, Then,
                        Failing
    <2>3. Scalars' /\ dialog' = dialog
      BY <1>0, <1>5 DEF ScriptFails, Scalars, gateway, files, world
    <2> QED
      BY <2>1, <2>2, <2>3, TaskShape
  <1>6. CASE Inspected(d)
    <2>1. ~Idle(d) /\ task[d].kind = "reconnect"
      BY <1>6 DEF Inspected, Idle, Shape, MoveTypeOK, Kinds, Steps
    <2>2. \E pc \in Steps[task[d].kind] : Goto(d, pc)
      BY <1>6, <2>1 DEF Inspected, Steps
    <2>3. Scalars' /\ dialog' = dialog
      BY <1>0, <1>6 DEF Inspected, Scalars, gateway, files, world
    <2> QED
      BY <2>1, <2>2, <2>3, TaskShape
  <1>7. CASE BatteryAnswers(d)
    <2>1. ~Idle(d) /\ task[d].kind \in Kinds
      BY <1>7 DEF BatteryAnswers, Idle, Shape, MoveTypeOK
    <2>2. \E pc \in Steps[task[d].kind] : Goto(d, pc)
      BY <1>7, <2>1 DEF BatteryAnswers, Steps, Kinds
    <2>3. Scalars' /\ dialog' = dialog
      BY <1>0, <1>7 DEF BatteryAnswers, Scalars, gateway, files, world
    <2> QED
      BY <2>1, <2>2, <2>3, TaskShape
  <1>8. CASE BatterySilent(d)
    <2>1. ~Idle(d) /\ task[d].kind \in Kinds
      BY <1>8 DEF BatterySilent, Idle, Shape, MoveTypeOK
    <2>2. \E pc \in Steps[task[d].kind] : Goto(d, pc)
      BY <1>8, <2>1 DEF BatterySilent, Unanswered, Steps, Kinds
    <2>3. Scalars' /\ dialog' = dialog
      BY <1>0, <1>8 DEF BatterySilent, Scalars, gateway, files, world
    <2> QED
      BY <2>1, <2>2, <2>3, TaskShape
  <1>9. CASE GatewayBack(d)
    <2>1. ~Idle(d) /\ task[d].kind = "move_local"
      BY <1>9 DEF GatewayBack, Idle, Shape, MoveTypeOK, Kinds, Steps
    <2>2. \E pc \in Steps[task[d].kind] : Goto(d, pc)
      BY <1>9, <2>1 DEF GatewayBack, Steps
    <2>3. Scalars' /\ dialog' = dialog
      BY <1>0, <1>9 DEF GatewayBack, Scalars, gateway, files, world
    <2> QED
      BY <2>1, <2>2, <2>3, TaskShape
  <1> QED
    BY <1>1, <1>2, <1>3, <1>4, <1>5, <1>6, <1>7, <1>8, <1>9 DEF TaskStep

(* The gateway, the network and Home Assistant's stop keep the types.       *)
LEMMA TypeWorld ==
    ASSUME Shape, GoesDown \/ Boots \/ (\E a \in Addresses : HomeMoves(a)) \/ DomainExpires \/ Crash
           \/ OtherChecks \/ OtherSaves
    PROVE  Shape'
  <1>0. Scalars
    BY DEF Scalars, Shape, MoveTypeOK
  <1>1. CASE Crash
    <2>1. NoTask \in Tasks /\ NoTask.pc = "idle" /\ NoTask.addr = None
      BY DEF NoTask, Tasks, PCs
    <2>2. /\ task' \in [Dialogs -> Tasks] /\ dialog' \in [Dialogs -> {"closed", "form", "progress"}]
          /\ \A d \in Dialogs : task'[d] = NoTask /\ dialog'[d] = "closed"
      BY <1>1, <2>1 DEF Crash
    <2>3. Scalars'
      BY <1>0, <1>1 DEF Crash, Scalars, gateway, files, world
    <2> QED
      BY <2>1, <2>2, <2>3 DEF Shape, MoveTypeOK, Scalars, Idle
  <1>2. CASE GoesDown \/ Boots \/ (\E a \in Addresses : HomeMoves(a)) \/ DomainExpires
    <2>1. UNCHANGED <<task, dialog>>
      BY <1>2 DEF GoesDown, Boots, HomeMoves, DomainExpires
    <2>2. Scalars'
      <3>1. CASE GoesDown \/ Boots
        BY <1>0, <3>1 DEF GoesDown, Boots, Scalars, files, world
      <3>2. ASSUME NEW a \in Addresses, HomeMoves(a) PROVE Scalars'
        BY <1>0, <3>2 DEF HomeMoves, Scalars, gateway, files
      <3>3. CASE DomainExpires
        <4>1. dns' \in BOOLEAN
          BY <3>3, Zenon DEF DomainExpires
        <4> QED
          BY <1>0, <3>3, <4>1 DEF DomainExpires, Scalars, gateway, files
      <3> QED
        BY <1>2, <3>1, <3>2, <3>3
    <2> QED
      BY <2>1, <2>2 DEF Shape, MoveTypeOK, Scalars, Idle
  <1>3. CASE OtherChecks \/ OtherSaves
    <2>1. UNCHANGED <<gateway, world, entry, dialog, task, told, upset>>
      BY <1>3 DEF OtherChecks, OtherSaves
    <2> QED
      BY <2>1 DEF Shape, MoveTypeOK, Idle, gateway, files, world
  <1> QED
    BY <1>1, <1>2, <1>3

(* Every step keeps the types.                                              *)
LEMMA TypeNext == Shape /\ [Next]_vars => Shape'
  <1> SUFFICES ASSUME Shape, [Next]_vars PROVE Shape'
    OBVIOUS
  <1>1. CASE UNCHANGED vars
    BY <1>1 DEF vars, gateway, files, world, counters, Shape, MoveTypeOK, Idle
  <1> QED
    BY <1>1, TypeDialog, TypeTask, TypeWorld DEF Next

-----------------------------------------------------------------------------
(* The invariant. *)

(* A step of a task leaves it a task and touches no other dialog.           *)
LEMMA TaskStaysTask ==
    ASSUME Shape, NEW d \in Dialogs, TaskStep(d)
    PROVE  /\ ~Idle(d) /\ ~Idle(d)' /\ task'[d].kind = task[d].kind
           /\ task'[d].addr = task[d].addr
           /\ \A e \in Dialogs \ {d} : task'[e] = task[e]
           /\ UNCHANGED <<dialog, entry, told, live>> /\ upset \subseteq upset'
           /\ \A k \in {"crossed", "closed"} : k \in upset' <=> k \in upset
  <1>1. ~Idle(d)
    BY DEF TaskStep, AddonApplied, LoginChecked, CommandRuns, CommandFails, ScriptFails, Inspected,
           BatteryAnswers, BatterySilent, GatewayBack, Commands, Writes, Removals, Reboots, Idle
  <1>2. \E pc \in PCs \ {"idle"} : Goto(d, pc)
    BY DEF TaskStep, AddonApplied, LoginChecked, CommandRuns, CommandFails, ScriptFails, Inspected,
           BatteryAnswers, BatterySilent, GatewayBack, Commands, Writes, Removals, Reboots, Then,
           Failing, Unanswered, Shape, MoveTypeOK, Idle, Kinds, Steps, PCs
  <1>3. UNCHANGED <<dialog, entry, told, live>>
    BY DEF TaskStep, AddonApplied, LoginChecked, CommandRuns, CommandFails, ScriptFails, Inspected,
           BatteryAnswers, BatterySilent, GatewayBack, gateway
  <1>4. upset' = upset \/ upset' = upset \cup {"script"}
    BY DEF TaskStep, AddonApplied, LoginChecked, CommandRuns, CommandFails, ScriptFails, Inspected,
           BatteryAnswers, BatterySilent, GatewayBack
  <1>5. PICK pc \in PCs \ {"idle"} : Goto(d, pc)
    BY <1>2
  <1> QED
    BY <1>1, <1>3, <1>4, <1>5, TaskMoves DEF Idle

(* At most one task at a time, and a dialog that waits for it.              *)
LEMMA OneTaskNext == Shape /\ OneTask /\ [Next]_vars => OneTask'
  <1> SUFFICES ASSUME Shape, OneTask, [Next]_vars PROVE OneTask'
    OBVIOUS
  <1>0. NoTask.pc = "idle"
    BY DEF NoTask
  <1>1. ASSUME NEW d \in Dialogs, NEW kind \in Kinds, Open(d, kind) PROVE OneTask'
    <2>1. \A e \in Dialogs : task'[e].pc = task[e].pc
      BY <1>1 DEF Open, Shape, Tasks
    <2>2. \A e \in Dialogs \ {d} : dialog'[e] = dialog[e]
      BY <1>1 DEF Open, Shape, MoveTypeOK
    <2> QED
      BY <1>1, <2>1, <2>2 DEF Open, OneTask, Idle
  <1>2. ASSUME NEW d \in Dialogs, NEW a \in Addresses \cup {Vendor}, Submit(d, a) PROVE OneTask'
    <2>1. /\ \A e \in Dialogs \ {d} : task'[e] = task[e] /\ dialog'[e] = dialog[e]
          /\ dialog'[d] = "progress"
      BY <1>2 DEF Submit, Shape, MoveTypeOK
    <2>2. "closed" \in upset' <=> "closed" \in upset
      BY <1>2 DEF Submit
    <2>3. ASSUME "crossed" \notin upset' PROVE \A e \in Dialogs : Idle(e)
      BY <1>2, <2>3 DEF Submit
    <2>4. "crossed" \notin upset' => \A e, f \in Dialogs : ~Idle(e)' /\ ~Idle(f)' => e = f
      BY <2>1, <2>3 DEF Idle
    <2>5. "closed" \notin upset' => \A e \in Dialogs : ~Idle(e)' => dialog'[e] = "progress"
      BY <2>1, <2>2 DEF OneTask, Idle
    <2> QED
      BY <2>4, <2>5 DEF OneTask
  <1>3. ASSUME NEW d \in Dialogs, Close(d) PROVE OneTask'
    <2>1. CASE dialog[d] = "form"
      <3>1. /\ \A e \in Dialogs \ {d} : task'[e] = task[e] /\ dialog'[e] = dialog[e]
            /\ task'[d] = NoTask /\ upset' = upset
        BY <1>3, <2>1 DEF Close, Shape, MoveTypeOK
      <3> QED
        BY <1>0, <3>1 DEF OneTask, Idle
    <2>2. CASE dialog[d] = "progress"
      <3>1. task' = task /\ upset' = upset \cup {"closed"}
        BY <1>3, <2>2 DEF Close
      <3> QED
        BY <3>1 DEF OneTask, Idle
    <2> QED
      BY <1>3, <2>1, <2>2 DEF Close
  <1>4. ASSUME NEW d \in Dialogs, Dropped(d) \/ Finish(d) PROVE OneTask'
    <2>1. /\ \A e \in Dialogs \ {d} : task'[e] = task[e] /\ dialog'[e] = dialog[e]
          /\ task'[d] = NoTask /\ upset' = upset
      BY <1>4 DEF Dropped, Finish, Shape, MoveTypeOK
    <2> QED
      BY <1>0, <2>1 DEF OneTask, Idle
  <1>5. ASSUME NEW d \in Dialogs, TaskStep(d) PROVE OneTask'
    <2>1. \A e \in Dialogs : Idle(e)' = Idle(e)
      BY <1>5, TaskStaysTask DEF Idle
    <2>2. /\ dialog' = dialog
          /\ \A k \in {"crossed", "closed"} : k \in upset' <=> k \in upset
      BY <1>5, TaskStaysTask
    <2> QED
      BY <2>1, <2>2 DEF OneTask
  <1>6. CASE GoesDown \/ Boots \/ (\E a \in Addresses : HomeMoves(a)) \/ DomainExpires
             \/ OtherChecks \/ OtherSaves
    <2>1. UNCHANGED <<task, dialog, upset>>
      BY <1>6 DEF GoesDown, Boots, HomeMoves, DomainExpires, OtherChecks, OtherSaves
    <2> QED
      BY <2>1 DEF OneTask, Idle
  <1>7. CASE Crash
    <2>1. \A d \in Dialogs : task'[d] = NoTask
      BY <1>7 DEF Crash
    <2> QED
      BY <1>0, <2>1 DEF OneTask, Idle
  <1>8. CASE UNCHANGED vars
    BY <1>8 DEF vars, OneTask, Idle
  <1> QED
    BY <1>1, <1>2, <1>3, <1>4, <1>5, <1>6, <1>7, <1>8 DEF Next

(* A task's step takes it as far as its place says.                         *)
LEMMA ProgressTask ==
    ASSUME Shape, NEW d \in Dialogs, TaskStep(d), Progress(d), "script" \notin upset'
    PROVE  Progress(d)'
  <1>0. /\ ~Idle(d) /\ task[d].kind \in Kinds /\ task[d].pc \in Steps[task[d].kind]
        /\ task'[d].kind = task[d].kind /\ task'[d].addr = task[d].addr /\ live' = live
    BY TaskStaysTask DEF Shape, MoveTypeOK
  <1>a. \A pc \in PCs : Goto(d, pc) => task'[d].pc = pc
    BY TaskMoves
  <1>1. CASE AddonApplied(d) \/ LoginChecked(d) \/ GatewayBack(d)
    <2>1. /\ task[d].kind = "move_local"
          /\ task'[d].pc \in {"login", "failed", "redirect", "stuck", "unredirect"}
      BY <1>0, <1>1, <1>a DEF AddonApplied, LoginChecked, GatewayBack, Kinds, Steps, PCs
    <2> QED
      BY <1>0, <2>1 DEF Progress
  <1>2. CASE CommandRuns(d)
    <2>1. /\ Then(task[d]) \in PCs /\ Goto(d, Then(task[d])) /\ Effect(task[d])
          /\ task[d].pc \in Commands
      BY <1>0, <1>2 DEF CommandRuns, Commands, Writes, Removals, Reboots, Then, PCs
    <2>2. task'[d].pc = Then(task[d])
      BY <2>1, <1>a
    <2>3. CASE task[d].kind = "move_local"
      BY <1>0, <2>1, <2>2, <2>3 DEF Progress, Then, Effect, RedirectAfter, HostsAfter, Reboots,
                                    Commands, Writes, Removals, Steps
    <2>4. CASE task[d].kind = "reconnect"
      <3>1. task[d].pc \in {"hosts", "redirect", "reboot"}
        BY <1>0, <2>1, <2>4 DEF Commands, Writes, Removals, Reboots, Steps
      <3>2. CASE task[d].pc = "hosts"
        BY <1>0, <2>1, <2>2, <2>4, <3>2 DEF Progress, Then, Effect, RedirectAfter, HostsAfter, Reboots
      <3>3. CASE task[d].pc = "redirect"
        BY <1>0, <2>1, <2>2, <2>4, <3>3 DEF Progress, Then, Effect, RedirectAfter, HostsAfter, Reboots
      <3>4. CASE task[d].pc = "reboot"
        BY <1>0, <2>1, <2>2, <2>4, <3>4 DEF Progress, Then, Effect, RedirectAfter, HostsAfter, Reboots
      <3> QED
        BY <3>1, <3>2, <3>3, <3>4
    <2>5. CASE task[d].kind = "move_vendor"
      <3>1. task[d].pc \in {"unredirect", "unhosts", "reboot"}
        BY <1>0, <2>1, <2>5 DEF Commands, Writes, Removals, Reboots, Steps
      <3>2. CASE task[d].pc = "unredirect"
        BY <1>0, <2>1, <2>2, <2>5, <3>2 DEF Progress, Then, Effect, RedirectAfter, HostsAfter, Reboots
      <3>3. CASE task[d].pc = "unhosts"
        BY <1>0, <2>1, <2>2, <2>5, <3>3 DEF Progress, Then, Effect, RedirectAfter, HostsAfter, Reboots
      <3>4. CASE task[d].pc = "reboot"
        BY <1>0, <2>1, <2>2, <2>5, <3>4 DEF Progress, Then, Effect, RedirectAfter, HostsAfter, Reboots
      <3> QED
        BY <3>1, <3>2, <3>3, <3>4
    <2> QED
      BY <1>0, <2>3, <2>4, <2>5 DEF Kinds
  <1>3. CASE CommandFails(d) \/ ScriptFails(d)
    <2>1. Goto(d, Failing(task[d]))
      BY <1>3 DEF CommandFails, ScriptFails, Writes, Removals
    <2>2. Failing(task[d]) \in {"tidy_redirect", "tidy_hosts", "failed", "stuck"}
      BY DEF Failing
    <2>3. task'[d].pc \in {"tidy_redirect", "tidy_hosts", "failed", "stuck"}
      BY <1>a, <2>1, <2>2 DEF PCs
    <2> QED
      BY <2>3 DEF Progress
  <1>4. CASE Inspected(d) \/ BatteryAnswers(d) \/ BatterySilent(d)
    <2>1. UNCHANGED <<redirect, hosts, power>>
      BY <1>4 DEF Inspected, BatteryAnswers, BatterySilent, gateway, files
    <2>2. CASE Inspected(d)
      <3>1. task[d].kind = "reconnect" /\ hosts = task[d].addr
        BY <1>0, <2>2 DEF Inspected, Kinds, Steps, Progress
      <3>2. \/ task'[d].pc = "verify" /\ redirect = task[d].addr
            \/ task'[d].pc = "redirect"
        BY <1>a, <2>2 DEF Inspected, PointsAt, PCs
      <3> QED
        BY <1>0, <2>1, <3>1, <3>2 DEF Progress
    <2>3. CASE BatteryAnswers(d)
      <3>1. /\ task[d].pc = "verify"
            /\ task'[d].pc = (IF task[d].kind = "move_vendor" THEN "returned" ELSE "moved")
        BY <1>a, <2>3 DEF BatteryAnswers, PCs
      <3> QED
        BY <1>0, <2>1, <3>1 DEF Progress
    <2>4. CASE BatterySilent(d)
      <3>1. task[d].pc = "verify" /\ task'[d].pc = Unanswered(task[d].kind)
        BY <1>0, <1>a, <2>4 DEF BatterySilent, Unanswered, Kinds, PCs
      <3> QED
        BY <1>0, <2>1, <3>1 DEF Progress, Unanswered, Kinds
    <2> QED
      BY <1>4, <2>2, <2>3, <2>4
  <1> QED
    BY <1>1, <1>2, <1>3, <1>4 DEF TaskStep

(* The promise outlives every step.                                         *)
LEMMA PromiseNext == Shape /\ OneTask /\ Promise /\ [Next]_vars => Promise'
  <1> SUFFICES ASSUME Shape, OneTask, Promise, [Next]_vars, upset' \subseteq {"closed"},
                      NEW e \in Dialogs
               PROVE  Progress(e)'
    BY DEF Promise
  <1>0. NoTask.pc = "idle"
    BY DEF NoTask
  <1>1. ASSUME NEW d \in Dialogs,
               \/ \E kind \in Kinds : Open(d, kind)
               \/ \E a \in Addresses \cup {Vendor} : Submit(d, a)
               \/ Close(d) \/ Dropped(d) \/ Finish(d)
        PROVE  Progress(e)'
    <2>1. UNCHANGED gateway /\ upset \subseteq upset'
      BY <1>1 DEF Open, Submit, Close, Dropped, Finish
    <2>2. Progress(e)
      BY <2>1 DEF Promise
    <2>3. CASE e # d
      <3>1. task'[e] = task[e]
        BY <1>1, <2>3 DEF Open, Submit, Close, Dropped, Finish, Shape
      <3> QED
        BY <2>1, <2>2, <3>1 DEF Progress, gateway, files
    <2>4. CASE e = d /\ (Dropped(d) \/ Finish(d) \/ Close(d))
      <3>1. task'[d] = NoTask \/ task'[d] = task[d]
        BY <2>4 DEF Dropped, Finish, Close, Shape
      <3> QED
        BY <1>0, <2>1, <2>2, <2>4, <3>1 DEF Progress, gateway, files
    <2>5. CASE e = d /\ \E kind \in Kinds : Open(d, kind)
      <3>1. task'[d].pc = "idle"
        BY <2>5 DEF Open, Idle, Shape, Tasks
      <3> QED
        BY <2>5, <3>1 DEF Progress
    <2>6. CASE e = d /\ \E a \in Addresses \cup {Vendor} : Submit(d, a)
      <3>1. task[d].kind \in Kinds
        BY <2>6 DEF Submit, Shape
      <3>2. task'[d].pc = FirstStep(task[d].kind) /\ task'[d].kind = task[d].kind
        BY <2>6 DEF Submit, Shape
      <3>3. \/ task'[d].pc \in {"addon", "unredirect"}
            \/ task'[d].pc = "hosts" /\ task'[d].kind = "reconnect"
        BY <3>1, <3>2 DEF FirstStep, Kinds
      <3> QED
        BY <2>6, <3>3 DEF Progress
    <2> QED
      BY <1>1, <2>3, <2>4, <2>5, <2>6
  <1>2. ASSUME NEW d \in Dialogs, TaskStep(d) PROVE Progress(e)'
    <2>1. upset \subseteq upset' /\ ~Idle(d) /\ \A f \in Dialogs \ {d} : task'[f] = task[f]
      BY <1>2, TaskStaysTask
    <2>2. CASE e = d
      BY <1>2, <2>1, <2>2, ProgressTask DEF Promise
    <2>3. CASE e # d
      <3>1. task'[e].pc = "idle"
        BY <2>1, <2>3 DEF OneTask, Idle
      <3> QED
        BY <3>1 DEF Progress
    <2> QED
      BY <2>2, <2>3
  <1>3. CASE GoesDown \/ Boots
    <2>1. Progress(e) /\ UNCHANGED <<redirect, hosts, task>>
      BY <1>3 DEF GoesDown, Boots, files, Promise
    <2>2. \/ live' = None
          \/ live' = redirect
      BY <1>3 DEF GoesDown, Boots
    <2>3. \/ task[e].pc = "undone"
          \/ task[e].kind = "move_vendor" /\ task[e].pc \in {"verify", "returned"}
          => redirect = None
      BY <2>1 DEF Progress
    <2> QED
      BY <2>1, <2>2, <2>3 DEF Progress
  <1>4. CASE (\E a \in Addresses : HomeMoves(a)) \/ DomainExpires \/ OtherChecks \/ OtherSaves
    <2>1. Progress(e) /\ UNCHANGED <<gateway, task>>
      BY <1>4 DEF HomeMoves, DomainExpires, OtherChecks, OtherSaves, Promise
    <2> QED
      BY <2>1 DEF Progress, gateway, files
  <1>5. CASE Crash
    <2>1. task'[e].pc = "idle"
      BY <1>0, <1>5 DEF Crash
    <2> QED
      BY <2>1 DEF Progress
  <1>6. CASE UNCHANGED vars
    <2>1. Progress(e) /\ UNCHANGED <<gateway, task>>
      BY <1>6 DEF vars, Promise
    <2> QED
      BY <2>1 DEF Progress, gateway, files
  <1> QED
    BY <1>1, <1>2, <1>3, <1>4, <1>5, <1>6 DEF Next

(* What the files hold changes under a task only, and the entry follows     *)
(* when the owner is shown how it ended.                                    *)
LEMMA FilesNext == Shape /\ OneTask /\ Promise /\ FilesMatchEntry /\ [Next]_vars => FilesMatchEntry'
  <1> SUFFICES ASSUME Shape, OneTask, Promise, FilesMatchEntry, [Next]_vars,
                      Quiet', ~told', upset' = {}
               PROVE  IF entry'.local THEN redirect' = entry'.broker /\ hosts' = entry'.broker
                      ELSE redirect' = None /\ hosts' = None
    BY DEF FilesMatchEntry
  <1>a. ASSUME Quiet, upset = {}, UNCHANGED <<redirect, hosts, entry, told>>
        PROVE  IF entry'.local THEN redirect' = entry'.broker /\ hosts' = entry'.broker
               ELSE redirect' = None /\ hosts' = None
    BY <1>a DEF FilesMatchEntry
  <1>1. ASSUME NEW d \in Dialogs, NEW kind \in Kinds, Open(d, kind)
        PROVE  Quiet /\ upset = {} /\ UNCHANGED <<redirect, hosts, entry, told>>
    <2>1. \A e \in Dialogs : task'[e].pc = task[e].pc
      BY <1>1 DEF Open, Shape, Tasks
    <2> QED
      BY <1>1, <2>1 DEF Open, Quiet, Idle, gateway, files
  <1>2. ASSUME NEW d \in Dialogs, NEW a \in Addresses \cup {Vendor}, Submit(d, a) PROVE FALSE
    <2>1. task'[d].pc = FirstStep(task[d].kind) /\ task[d].kind \in Kinds
      BY <1>2 DEF Submit, Shape
    <2> QED
      BY <2>1 DEF FirstStep, Kinds, Quiet, Idle
  <1>3. ASSUME NEW d \in Dialogs, Close(d)
        PROVE  Quiet /\ upset = {} /\ UNCHANGED <<redirect, hosts, entry, told>>
    <2>1. dialog[d] = "form" /\ upset = {} /\ UNCHANGED <<redirect, hosts, entry, told>>
      BY <1>3 DEF Close, gateway, files
    <2>2. Idle(d) /\ \A e \in Dialogs \ {d} : task'[e] = task[e]
      BY <1>3, <2>1 DEF Close, Shape, MoveTypeOK
    <2> QED
      BY <2>1, <2>2 DEF Quiet, Idle
  <1>4. ASSUME NEW d \in Dialogs, Dropped(d) PROVE FALSE
    <2>1. dialog[d] = "closed" /\ ~Idle(d) /\ upset = {}
      BY <1>4 DEF Dropped, Ended, Idle
    <2> QED
      BY <2>1 DEF OneTask
  <1>5. ASSUME NEW d \in Dialogs, Finish(d)
        PROVE  IF entry'.local THEN redirect' = entry'.broker /\ hosts' = entry'.broker
               ELSE redirect' = None /\ hosts' = None
    <2>1. /\ task[d].pc \in {"moved", "returned"} /\ entry' = Saved(task[d])
          /\ UNCHANGED <<redirect, hosts>> /\ upset = {}
      BY <1>5 DEF Finish, Ended, gateway, files
    <2>2. Progress(d)
      BY <2>1 DEF Promise
    <2>3. task[d].kind \in Kinds /\ task[d].pc \in Steps[task[d].kind]
      BY <2>1 DEF Shape, MoveTypeOK, Idle
    <2>4. CASE task[d].pc = "moved"
      <3>1. redirect = task[d].addr /\ hosts = task[d].addr
        BY <2>2, <2>3, <2>4 DEF Progress, Kinds, Steps
      <3>2. entry' = [broker |-> task[d].addr, local |-> TRUE]
        BY <2>1, <2>4 DEF Saved
      <3> QED
        BY <2>1, <3>1, <3>2
    <2>5. CASE task[d].pc = "returned"
      <3>1. redirect = None /\ hosts = None
        BY <2>2, <2>3, <2>5 DEF Progress, Kinds, Steps
      <3>2. \/ entry' = [broker |-> Vendor, local |-> FALSE]
            \/ entry' = [entry EXCEPT !.local = FALSE]
        BY <2>1, <2>5 DEF Saved
      <3>3. ~entry'.local
        BY <3>2 DEF Shape, MoveTypeOK
      <3> QED
        BY <2>1, <3>1, <3>3
    <2> QED
      BY <2>1, <2>4, <2>5
  <1>6. ASSUME NEW d \in Dialogs, TaskStep(d) PROVE FALSE
    BY <1>6, TaskStaysTask DEF Quiet
  <1>7. CASE GoesDown \/ Boots \/ (\E a \in Addresses : HomeMoves(a)) \/ DomainExpires
             \/ OtherChecks \/ OtherSaves \/ UNCHANGED vars
    <2>1. UNCHANGED <<redirect, hosts, entry, told, task, upset>>
      BY <1>7 DEF GoesDown, Boots, HomeMoves, DomainExpires, OtherChecks, OtherSaves, vars, gateway,
                  files
    <2> QED
      BY <1>a, <2>1 DEF Quiet, Idle
  <1>8. CASE Crash
    <2>1. Quiet /\ upset = {} /\ UNCHANGED <<redirect, hosts, entry, told>>
      BY <1>8 DEF Crash, Quiet, gateway, files
    <2> QED
      BY <1>a, <2>1
  <1> QED
    BY <1>a, <1>1, <1>2, <1>3, <1>4, <1>5, <1>6, <1>7, <1>8 DEF Next

(* The add-on's part of the state has its type at first.                    *)
LEMMA AddonTypeInit == Init => AddonTypeOK
  <1> SUFFICES ASSUME Init PROVE AddonTypeOK
    OBVIOUS
  <1>1. NoPlan \in Options
    BY DEF NoPlan, Options
  <1>2. theirs \in Logins /\ other \in {"away", "there"} /\ overlap \in BOOLEAN
    BY DEF Init
  <1>3. addon \in Options
    <2>1. PICK l \in {None, theirs} :
            addon = [login |-> l, listed |-> (IF entry.local THEN {"this"} ELSE {})
                                             \cup (IF other = "there" THEN {"other"} ELSE {})]
      BY DEF Init
    <2> QED
      BY <1>2, <2>1 DEF Options
  <1>4. plan \in [Dialogs -> Options] /\ theirPlan \in Options
    BY <1>1 DEF Init
  <1> QED
    BY <1>2, <1>3, <1>4 DEF AddonTypeOK

(* At first the add-on lists who is there, with their login.                *)
LEMMA AddonInit == Init => Addon
  <1> SUFFICES ASSUME Init PROVE Addon
    OBVIOUS
  <1>1. PICK l \in {None, theirs} :
          /\ entry.local => l = Mine
          /\ other = "there" => l = theirs
          /\ addon = [login |-> l, listed |-> (IF entry.local THEN {"this"} ELSE {})
                                           \cup (IF other = "there" THEN {"other"} ELSE {})]
    BY DEF Init
  <1>2. \A d \in Dialogs : task[d].pc = "idle" /\ task[d].kind = None
    BY DEF Init, NoTask
  <1>3. other # "checked"
    BY DEF Init
  <1>4. Lists
    <2>1. \A d \in Dialogs : ~Uses(d)
      BY <1>2, MoveAssumption DEF Uses
    <2> QED
      BY <1>1, <2>1 DEF Lists
  <1>5. Plans
    BY <1>2, <1>3 DEF Plans
  <1> QED
    BY <1>4, <1>5, AddonTypeInit DEF Addon

(* The steps that leave the add-on's part as it is.                         *)
LEMMA BrokerKept ==
    ASSUME Addon, UNCHANGED broker,
           \A d \in Dialogs : task'[d].pc = "addon" => task[d].pc = "addon",
           entry'.local \/ (\E d \in Dialogs : Uses(d)') =>
              entry.local \/ \E d \in Dialogs : Uses(d)
    PROVE  Addon'
  <1>1. AddonTypeOK'
    BY DEF Addon, AddonTypeOK, broker, Options
  <1>2. ASSUME ~overlap' PROVE Lists' /\ Plans'
    <2>1. Lists /\ Plans
      BY <1>2 DEF Addon, broker
    <2>2. Lists'
      BY <2>1 DEF Lists, broker, Apart
    <2>3. Plans'
      BY <2>1 DEF Plans, broker, Apart
    <2> QED
      BY <2>2, <2>3
  <1> QED
    BY <1>1, <1>2 DEF Addon

(* No step of a task goes back to the add-on.                               *)
LEMMA StepsOn == ASSUME Shape, NEW d \in Dialogs, TaskStep(d) PROVE task'[d].pc # "addon"
  <1>1. \E pc \in PCs \ {"addon"} : Goto(d, pc)
    BY DEF TaskStep, AddonApplied, LoginChecked, CommandRuns, CommandFails, ScriptFails, Inspected,
           BatteryAnswers, BatterySilent, GatewayBack, Commands, Writes, Removals, Reboots, Then,
           Failing, Unanswered, Shape, MoveTypeOK, Idle, Kinds, Steps, PCs
  <1> QED
    BY <1>1, TaskMoves

(* A move to local is planned: with the other battery's login untouched.    *)
LEMMA PlanMade ==
    ASSUME Shape, Addon, NEW d \in Dialogs, NEW a \in Addresses \cup {Vendor}, Submit(d, a),
           task[d].kind = "move_local"
    PROVE  Addon'
  <1>0. /\ AddonTypeOK /\ plan' = [plan EXCEPT ![d] = Merged("this", Mine)]
        /\ ~Taken("this", Mine)
        /\ UNCHANGED <<theirs, addon, other, theirPlan, entry>>
        /\ overlap' = (overlap \/ other = "checked")
    BY DEF Addon, Submit
  <1>1. Merged("this", Mine) \in Options
    BY <1>0, MoveAssumption DEF AddonTypeOK, Merged, Options
  <1>2. overlap' \in BOOLEAN
    <2>1. overlap' = TRUE \/ overlap' = FALSE
      BY <1>0 DEF AddonTypeOK
    <2> QED
      BY <2>1, Zenon
  <1>3. AddonTypeOK'
    BY <1>0, <1>1, <1>2 DEF AddonTypeOK, Options
  <1>4. ASSUME ~overlap' PROVE Lists' /\ Plans'
    <2>1. Lists /\ Plans /\ other # "checked"
      BY <1>0, <1>4 DEF Addon
    <2>2. /\ task'[d].kind = "move_local" /\ task'[d].pc = "addon"
          /\ \A e \in Dialogs \ {d} : task'[e] = task[e]
      BY DEF Submit, Shape, FirstStep
    <2>3. \A e \in Dialogs : Uses(e)' => Uses(e)
      BY <2>2 DEF Uses
    <2>4. Lists'
      BY <1>0, <2>1, <2>3 DEF Lists, Apart
    <2>5. plan'[d] = [login |-> Mine, listed |-> addon.listed \cup {"this"}]
          /\ \A e \in Dialogs \ {d} : plan'[e] = plan[e]
      BY <1>0 DEF AddonTypeOK, Merged
    <2>6. Apart /\ other = "there" => theirs = Mine
      BY <1>0, <2>1, MoveAssumption DEF Taken, Lists, Apart, AddonTypeOK
    <2>7. \A e \in Dialogs : task'[e].pc = "addon" =>
            /\ plan'[e].login = Mine /\ "this" \in plan'[e].listed
            /\ "other" \in plan'[e].listed <=> other = "there"
      BY <2>1, <2>2, <2>5 DEF Plans, Lists
    <2> QED
      BY <1>0, <2>1, <2>4, <2>6, <2>7 DEF Plans, Apart
  <1> QED
    BY <1>3, <1>4 DEF Addon

(* The options are saved, or not, and the task goes on.                     *)
LEMMA PlanSaved == ASSUME Shape, Addon, NEW d \in Dialogs, AddonApplied(d) PROVE Addon'
  <1>0. /\ AddonTypeOK /\ task[d].pc = "addon" /\ task[d].kind = "move_local"
        /\ UNCHANGED <<theirs, plan, other, theirPlan, overlap, entry>>
        /\ \/ addon' = plan[d] /\ Goto(d, "login")
           \/ addon' \in {addon, plan[d]} /\ Goto(d, "failed")
    BY DEF Addon, AddonApplied, Shape, MoveTypeOK, Idle, Kinds, Steps
  <1>1. AddonTypeOK'
    BY <1>0 DEF AddonTypeOK, Options
  <1>2. /\ task'[d].kind = "move_local" /\ task'[d].pc \in {"login", "failed"}
        /\ task'[d].pc = "login" => addon' = plan[d]
        /\ \A e \in Dialogs \ {d} : task'[e] = task[e]
    BY <1>0, TaskMoves DEF PCs
  <1>3. ASSUME ~overlap' PROVE Lists' /\ Plans'
    <2>1. Lists /\ Plans
      BY <1>0, <1>3 DEF Addon
    <2>2. /\ plan[d].login = Mine /\ "this" \in plan[d].listed
          /\ "other" \in plan[d].listed <=> other = "there"
          /\ Apart /\ other = "there" => theirs = Mine
          /\ other # "checked"
      BY <1>0, <2>1 DEF Plans
    <2>3. \A e \in Dialogs \ {d} : Uses(e)' <=> Uses(e)
      BY <1>2 DEF Uses
    <2>4. entry'.local \/ (\E e \in Dialogs : Uses(e)') => "this" \in addon'.listed
      <3>1. "this" \in addon.listed => "this" \in addon'.listed
        BY <1>0, <2>2
      <3>2. Uses(d)' => "this" \in addon'.listed
        BY <1>2, <2>2 DEF Uses
      <3> QED
        BY <1>0, <2>1, <2>3, <3>1, <3>2 DEF Lists
    <2>5. "other" \in addon'.listed <=> other' = "there"
      BY <1>0, <2>1, <2>2 DEF Lists
    <2>6. Apart => /\ "this" \in addon'.listed => addon'.login = Mine
                   /\ other = "there" => addon'.login = theirs
      BY <1>0, <2>1, <2>2 DEF Lists
    <2>7. Lists'
      BY <1>0, <2>4, <2>5, <2>6 DEF Lists, Apart
    <2>8. Plans'
      BY <1>0, <1>2, <2>1, <2>2 DEF Plans, Apart
    <2> QED
      BY <2>7, <2>8
  <1> QED
    BY <1>1, <1>3 DEF Addon

(* The other battery makes its plan and saves it.                           *)
LEMMA OtherKeeps == ASSUME Addon, OtherChecks \/ OtherSaves PROVE Addon'
  <1>0. AddonTypeOK /\ UNCHANGED <<task, entry>>
    BY DEF Addon, OtherChecks, OtherSaves
  <1>a. \A d \in Dialogs : Uses(d)' <=> Uses(d)
    BY <1>0 DEF Uses
  <1>1. CASE OtherChecks
    <2>0. /\ other = "away" /\ ~Taken("other", theirs)
          /\ other' = "checked" /\ theirPlan' = Merged("other", theirs)
          /\ overlap' = (overlap \/ \E d \in Dialogs : task[d].pc = "addon")
          /\ UNCHANGED <<theirs, addon, plan>>
      BY <1>1 DEF OtherChecks
    <2>1. Merged("other", theirs) \in Options
      BY <1>0 DEF AddonTypeOK, Merged, Options
    <2>2. overlap' \in BOOLEAN
      <3>1. overlap' = TRUE \/ overlap' = FALSE
        BY <2>0
      <3> QED
        BY <3>1, Zenon
    <2>3. AddonTypeOK'
      BY <1>0, <2>0, <2>1, <2>2 DEF AddonTypeOK, Options
    <2>4. ASSUME ~overlap' PROVE Lists' /\ Plans'
      <3>1. Lists /\ Plans /\ \A d \in Dialogs : task[d].pc # "addon"
        BY <2>0, <2>4 DEF Addon
      <3>2. Lists'
        BY <1>0, <1>a, <2>0, <3>1 DEF Lists, Apart
      <3>3. theirPlan' = [login |-> theirs, listed |-> addon.listed \cup {"other"}]
        BY <2>0 DEF Merged
      <3>4. Apart /\ "this" \in addon.listed => theirs = Mine
        BY <2>0, <3>1, MoveAssumption DEF Taken, Lists, Apart, AddonTypeOK
      <3> QED
        BY <1>0, <2>0, <3>1, <3>2, <3>3, <3>4 DEF Plans, Apart
    <2> QED
      BY <2>3, <2>4 DEF Addon
  <1>2. CASE OtherSaves
    <2>0. /\ other = "checked" /\ addon' = theirPlan /\ other' = "there"
          /\ UNCHANGED <<theirs, plan, theirPlan, overlap>>
      BY <1>2 DEF OtherSaves
    <2>1. AddonTypeOK'
      BY <1>0, <2>0 DEF AddonTypeOK, Options
    <2>2. ASSUME ~overlap' PROVE Lists' /\ Plans'
      <3>1. Lists /\ Plans /\ \A d \in Dialogs : task[d].pc # "addon"
        BY <2>0, <2>2 DEF Addon, Plans
      <3>2. /\ theirPlan.login = theirs /\ "other" \in theirPlan.listed
            /\ "this" \in theirPlan.listed <=> "this" \in addon.listed
            /\ Apart /\ "this" \in addon.listed => theirs = Mine
        BY <2>0, <3>1 DEF Plans
      <3>3. Lists'
        BY <1>0, <1>a, <2>0, <3>1, <3>2 DEF Lists, Apart
      <3> QED
        BY <1>0, <2>0, <3>1, <3>3 DEF Plans
    <2> QED
      BY <2>1, <2>2 DEF Addon
  <1> QED
    BY <1>1, <1>2

(* Whoever uses the add-on stays listed, with its login.                    *)
LEMMA AddonNext == Shape /\ Addon /\ [Next]_vars => Addon'
  <1> SUFFICES ASSUME Shape, Addon, [Next]_vars PROVE Addon'
    OBVIOUS
  <1>0. NoTask.pc = "idle" /\ NoTask.kind \notin Kinds
    BY MoveAssumption DEF NoTask, Kinds
  <1>1. ASSUME NEW d \in Dialogs, NEW kind \in Kinds, Open(d, kind) PROVE Addon'
    <2>1. /\ UNCHANGED broker /\ entry' = entry /\ kind \in Offered
          /\ task'[d].pc = "idle" /\ task'[d].kind = kind
          /\ \A e \in Dialogs \ {d} : task'[e] = task[e]
      BY <1>1 DEF Open, Shape, Tasks, Idle
    <2>2. Uses(d)' => entry.local
      BY <2>1 DEF Uses, Offered
    <2>3. \A e \in Dialogs \ {d} : Uses(e)' <=> Uses(e)
      BY <2>1 DEF Uses
    <2> QED
      BY <2>1, <2>2, <2>3, BrokerKept
  <1>2. ASSUME NEW d \in Dialogs, NEW a \in Addresses \cup {Vendor}, Submit(d, a) PROVE Addon'
    <2>1. CASE task[d].kind = "move_local"
      BY <1>2, <2>1, PlanMade
    <2>2. CASE task[d].kind # "move_local"
      <3>1. /\ UNCHANGED broker /\ entry' = entry /\ task[d].kind \in Kinds
            /\ task'[d].kind = task[d].kind /\ task'[d].pc = FirstStep(task[d].kind)
            /\ \A e \in Dialogs \ {d} : task'[e] = task[e]
        <4>1. overlap' = overlap
          <5>1. overlap' = (overlap \/ FALSE) /\ overlap \in BOOLEAN
            BY <1>2, <2>2 DEF Submit, Addon, AddonTypeOK
          <5> QED
            BY <5>1
        <4> QED
          BY <1>2, <2>2, <4>1 DEF Submit, Shape, broker
      <3>2. task'[d].pc # "addon"
        BY <2>2, <3>1 DEF FirstStep, Kinds
      <3>3. \A e \in Dialogs : Uses(e)' => Uses(e)
        BY <2>2, <3>1 DEF Uses
      <3> QED
        BY <3>1, <3>2, <3>3, BrokerKept
    <2> QED
      BY <2>1, <2>2
  <1>3. ASSUME NEW d \in Dialogs, Close(d) \/ Dropped(d) PROVE Addon'
    <2>1. /\ UNCHANGED broker /\ entry' = entry
          /\ \A e \in Dialogs : task'[e] = task[e] \/ task'[e] = NoTask
      BY <1>3 DEF Close, Dropped, Shape
    <2>2. \A e \in Dialogs : Uses(e)' => Uses(e)
      BY <1>0, <2>1 DEF Uses, Kinds
    <2> QED
      BY <1>0, <2>1, <2>2, BrokerKept
  <1>4. ASSUME NEW d \in Dialogs, Finish(d) PROVE Addon'
    <2>1. /\ UNCHANGED broker /\ task[d].pc \in Ended /\ entry' = Saved(task[d])
          /\ \A e \in Dialogs : task'[e] = task[e] \/ task'[e] = NoTask
      BY <1>4 DEF Finish, Shape
    <2>2. \A e \in Dialogs : Uses(e)' => Uses(e)
      BY <1>0, <2>1 DEF Uses, Kinds
    <2>3. entry'.local => entry.local \/ Uses(d)
      <3>1. CASE task[d].pc = "moved"
        <4>1. task[d].kind \in {"move_local", "reconnect"}
          BY <3>1 DEF Shape, MoveTypeOK, Idle, Kinds, Steps
        <4> QED
          BY <3>1, <4>1 DEF Uses
      <3>2. CASE task[d].pc = "returned" /\ known
        BY <2>1, <3>2 DEF Saved
      <3>3. CASE task[d].pc = "returned" /\ ~known
        <4>1. entry' = [entry EXCEPT !.local = FALSE]
          BY <2>1, <3>3 DEF Saved
        <4> QED
          BY <4>1 DEF Shape, MoveTypeOK
      <3>4. CASE task[d].pc \in {"undone", "failed", "stuck"}
        BY <2>1, <3>4 DEF Saved
      <3> QED
        BY <2>1, <3>1, <3>2, <3>3, <3>4 DEF Ended
    <2> QED
      BY <1>0, <2>1, <2>2, <2>3, BrokerKept
  <1>5. ASSUME NEW d \in Dialogs, TaskStep(d) PROVE Addon'
    <2>1. CASE AddonApplied(d)
      BY <2>1, PlanSaved
    <2>2. CASE ~AddonApplied(d)
      <3>1. UNCHANGED broker /\ task[d].pc # "addon"
        BY <1>5, <2>2 DEF TaskStep, LoginChecked, CommandRuns, CommandFails, ScriptFails, Inspected,
             BatteryAnswers, BatterySilent, GatewayBack, Commands, Writes, Removals, Reboots
      <3>2. task[d].pc \notin Ended
        BY <1>5, <2>2 DEF TaskStep, LoginChecked, CommandRuns, CommandFails, ScriptFails, Inspected,
             BatteryAnswers, BatterySilent, GatewayBack, Commands, Writes, Removals, Reboots, Ended
      <3>3. /\ ~Idle(d) /\ task'[d].kind = task[d].kind /\ entry' = entry
            /\ \A e \in Dialogs \ {d} : task'[e] = task[e]
        BY <1>5, TaskStaysTask
      <3>4. task'[d].pc # "addon"
        BY <1>5, <3>3, <2>2, StepsOn
      <3>5. Uses(d)' => Uses(d)
        BY <3>1, <3>2, <3>3 DEF Uses, Idle, Ended
      <3>6. \A e \in Dialogs \ {d} : Uses(e)' <=> Uses(e)
        BY <3>3 DEF Uses
      <3> QED
        BY <3>1, <3>3, <3>4, <3>5, <3>6, BrokerKept
    <2> QED
      BY <2>1, <2>2
  <1>6. CASE GoesDown \/ Boots \/ (\E a \in Addresses : HomeMoves(a)) \/ DomainExpires
             \/ UNCHANGED vars
    <2>1. UNCHANGED <<task, entry>> /\ UNCHANGED broker
      BY <1>6 DEF GoesDown, Boots, HomeMoves, DomainExpires, vars
    <2> QED
      BY <2>1, BrokerKept DEF Uses
  <1>7. CASE Crash
    <2>1. /\ UNCHANGED <<theirs, addon, plan, theirPlan, overlap, entry>>
          /\ \A d \in Dialogs : task'[d] = NoTask
          /\ other' = (IF other = "checked" THEN "away" ELSE other)
      BY <1>7 DEF Crash
    <2>2. \A d \in Dialogs : task'[d].pc # "addon" /\ ~Uses(d)'
      BY <1>0, <2>1 DEF Uses, Kinds
    <2>3. AddonTypeOK'
      BY <2>1 DEF Addon, AddonTypeOK, Options
    <2>4. ASSUME ~overlap' PROVE Lists' /\ Plans'
      <3>1. Lists /\ (other' = "there" <=> other = "there") /\ other' # "checked"
        BY <2>1, <2>4 DEF Addon
      <3> QED
        BY <2>1, <2>2, <3>1 DEF Lists, Plans, Apart
    <2> QED
      BY <2>3, <2>4 DEF Addon
  <1>8. CASE OtherChecks \/ OtherSaves
    BY <1>8, OtherKeeps
  <1> QED
    BY <1>1, <1>2, <1>3, <1>4, <1>5, <1>6, <1>7, <1>8 DEF Next

(* Before the first move nothing is claimed, and the files match the entry, *)
(* or the owner knows that they do not.                                     *)
LEMMA InvInit == Init => IInv
  <1> SUFFICES ASSUME Init PROVE IInv
    OBVIOUS
  <1>1. Shape
    BY ShapeInit
  <1>2. \A d \in Dialogs : Idle(d)
    BY DEF Init, Idle, NoTask
  <1>3. OneTask /\ Promise
    BY <1>2 DEF OneTask, Promise, Progress, Idle
  <1>4. FilesMatchEntry
    BY DEF Init, FilesMatchEntry
  <1> QED
    BY <1>1, <1>3, <1>4, AddonInit DEF IInv

(* The inductive invariant holds in every behaviour.                        *)
THEOREM MovesInvariant == Spec => []IInv
  <1>1. IInv /\ [Next]_vars => IInv'
    BY TypeNext, OneTaskNext, PromiseNext, FilesNext, AddonNext DEF IInv
  <1> QED
    BY <1>1, InvInit, PTL DEF Spec

-----------------------------------------------------------------------------
(* Every variable keeps its type, and every task is at a step of its kind.  *)
THEOREM MovesTyped == Spec => []TypeOK
  <1>1. IInv => TypeOK
    BY DEF IInv, Shape, Addon, TypeOK
  <1> QED
    BY <1>1, MovesInvariant, PTL

(* When the owner has seen no error, the gateway's files say what the entry *)
(* says (config_flow.py, _save_broker after the tasks of the three moves).  *)
THEOREM FilesMatch == Spec => []FilesMatchEntry
  <1>1. IInv => FilesMatchEntry
    BY DEF IInv
  <1> QED
    BY <1>1, MovesInvariant, PTL

(* "Moved", "undone" and "returned" are true of the gateway when they are   *)
(* said (the outcomes of _do_move_local, _do_reconnect, _do_move_vendor).   *)
THEOREM OutcomesAreTrue == Spec => []OutcomeIsTrue
  <1>1. IInv => OutcomeIsTrue
    <2> SUFFICES ASSUME IInv, NEW d \in Dialogs, upset \subseteq {"closed"}
                 PROVE  /\ task[d].pc = "moved" => redirect = task[d].addr /\ hosts = task[d].addr
                        /\ task[d].pc \in {"undone", "returned"} =>
                              redirect = None /\ hosts = None /\ (live = None \/ power # "up")
      BY DEF OutcomeIsTrue
    <2>1. Progress(d)
      BY DEF IInv, Promise
    <2>2. ~Idle(d) => task[d].kind \in Kinds /\ task[d].pc \in Steps[task[d].kind]
      BY DEF IInv, Shape, MoveTypeOK
    <2>3. task[d].pc = "moved" => task[d].kind # "move_vendor"
      BY <2>2 DEF Kinds, Steps, Idle
    <2>4. task[d].pc = "returned" => task[d].kind = "move_vendor"
      BY <2>2 DEF Kinds, Steps, Idle
    <2> QED
      BY <2>1, <2>3, <2>4 DEF Progress
  <1> QED
    BY <1>1, MovesInvariant, PTL

(* A battery that is on the add-on keeps its login there, and Home          *)
(* Assistant its own, whatever move comes after                             *)
(* (local_broker.py, merge_addon_options and apply).                        *)
THEOREM LoginsKept == Spec => []KeepsLogins
  <1>1. IInv => KeepsLogins
    BY DEF IInv, Addon, Lists, KeepsLogins
  <1> QED
    BY <1>1, MovesInvariant, PTL

=============================================================================
