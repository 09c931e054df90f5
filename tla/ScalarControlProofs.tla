--------------------------- MODULE ScalarControlProofs ---------------------------
(***************************************************************************)
(* Proofs about ScalarControl, for every set of settings, values and       *)
(* concurrent callers.                                                     *)
(***************************************************************************)
EXTENDS ScalarControl, TLAPS

Frames == [pc : {"idle", "publishing", "sent"},
           key : Settings \cup {None}, val : Known, excess : Known]

(* Values on their way that will be shown or written are the battery's own, *)
(* unless the ghosts say otherwise.                                         *)
OnTheWay ==
    /\ \A k \in Settings \ suspect : \A c \in Sent(k) : call[c].val = regs[k]
    /\ \A c \in based :
          /\ call[c].pc = "publishing" /\ call[c].key = "reserve_off"
          /\ call[c].excess = regs["excess"]

(* What the poll has read holds, unless written since; and what it will     *)
(* publish holds, unless written or suspect.                                *)
PollHolds ==
    /\ step \in 1..5 =>
          \A k \in Settings \ touched : got[k] # None => got[k] = regs[k]
    /\ step = 6 =>
          \A k \in Settings \ touched :
             (got[k] # None \/ k \notin suspect) /\ state[k] # None => state[k] = regs[k]
    /\ step \in {0, 1} => got = Nothing

IInv == TypeOK /\ ShownIsStored /\ OnTheWay /\ PollHolds

-----------------------------------------------------------------------------
(* Type correctness. *)

(* Initially every variable has its type: nothing is known or under way. *)
LEMMA TypeInit == Init => TypeOK
  <1> SUFFICES ASSUME Init PROVE TypeOK
    OBVIOUS
  <1>1. Nothing \in [Settings -> Known]
    BY DEF Nothing, Known
  <1>2. NoCall \in Frames
    BY DEF NoCall, Frames, Known
  <1>3. call \in [Callers -> Frames]
    BY <1>2 DEF Init
  <1>4. \A c \in Callers : call[c].pc = "idle"
    BY DEF Init, NoCall
  <1>5. data \in [Settings -> Known] /\ got \in [Settings -> Known] /\ state \in [Settings -> Known]
    BY <1>1, Zenon DEF Init
  <1>6. /\ regs \in [Settings -> Values] /\ step = 0
        /\ suspect = {} /\ touched = {} /\ based = {}
    BY DEF Init
  <1>7. available \in BOOLEAN
    BY Zenon DEF Init
  <1> QED
    BY <1>3, <1>4, <1>5, <1>6, <1>7 DEF TypeOK, Frames

(* The poll's steps put values of the right type into its dictionaries. *)
LEMMA TypePoll == TypeOK /\ PollStep => TypeOK'
  <1> SUFFICES ASSUME TypeOK, PollStep PROVE TypeOK'
    OBVIOUS
  <1>0. Nothing \in [Settings -> Known]
    BY DEF Nothing, Known
  <1>1. CASE PollBegins
    BY <1>1 DEF TypeOK, PollBegins
  <1>2. ASSUME NEW ks, Reply(ks), step \in 1..4
        PROVE  TypeOK'
    <2>1. [k \in Settings |-> IF k \in ks THEN regs[k] ELSE got[k]] \in [Settings -> Known]
      BY DEF TypeOK, Known
    <2>2. step' \in 0..6 /\ got' \in [Settings -> Known] /\ touched' \subseteq Settings
      BY <1>2, <2>1 DEF Reply, TypeOK
    <2> QED
      BY <1>2, <2>2 DEF TypeOK, Reply
  <1>3. CASE BatteryAnswers \/ ShortAnswer
    BY <1>2, <1>3 DEF BatteryAnswers, ShortAnswer, Block
  <1>4. CASE PollFails
    <2>1. /\ step' = 0 /\ got' = Nothing /\ state' = Nothing
          /\ UNCHANGED <<regs, data, call, suspect, touched, based>>
      BY <1>4 DEF PollFails, EndPoll
    <2>2. got' \in [Settings -> Known] /\ state' \in [Settings -> Known]
      BY <1>0, <2>1, Zenon
    <2>3. available' \in BOOLEAN
      BY <1>4, Zenon DEF PollFails
    <2> QED
      BY <2>1, <2>2, <2>3 DEF TypeOK
  <1>5. CASE PollMerges
    <2>1. Overlaid \in [Settings -> Known]
      BY DEF TypeOK, Overlaid
    <2>2. touched' \subseteq Settings
      BY <1>5 DEF TypeOK, PollMerges
    <2> QED
      BY <1>5, <2>1, <2>2 DEF TypeOK, PollMerges
  <1>6. CASE PollPublishes
    <2>1. suspect' \subseteq Settings
      BY <1>6 DEF TypeOK, PollPublishes
    <2> QED
      BY <1>0, <1>6, <2>1 DEF TypeOK, PollPublishes, EndPoll
  <1> QED
    BY <1>1, <1>3, <1>4, <1>5, <1>6 DEF PollStep

(* A block's excess is a value even before any excess was ever read. *)
LEMMA BlockType == TypeOK => KnownExcess \in Values
  BY SettingsAssumption DEF TypeOK, KnownExcess, Known

(* A call keeps a frame of the right shape while it is under way. *)
LEMMA TypeCall ==
    ASSUME TypeOK, NEW c \in Callers,
           \/ \E k \in Settings, v \in Values : Call(c, k, v)
           \/ Lands(c) \/ Lost(c) \/ Refused(c) \/ Shown(c)
    PROVE  TypeOK'
  <1> USE SettingsAssumption
  <1>0. call \in [Callers -> Frames] /\ NoCall \in Frames
    BY DEF TypeOK, Frames, NoCall, Known
  <1>1. ASSUME NEW k \in Settings, NEW v \in Values, Call(c, k, v)
        PROVE  TypeOK'
    <2> DEFINE f == [pc |-> "publishing", key |-> k, val |-> v,
                     excess |-> IF k = "reserve_off" THEN KnownExcess ELSE None]
    <2>1. f \in Frames
      BY BlockType DEF Frames, Known
    <2>2. call' = [call EXCEPT ![c] = f]
      BY <1>1 DEF Call
    <2>3. call' \in [Callers -> Frames] /\ call'[c] = f
          /\ \A d \in Callers : d # c => call'[d] = call[d]
      BY <1>0, <2>1, <2>2
    <2>4. based' \subseteq Callers
      BY <1>1 DEF Call, TypeOK
    <2>5. \A d \in Callers : call'[d].pc # "idle" =>
             /\ call'[d].key \in Settings /\ call'[d].val \in Values
             /\ call'[d].key = "reserve_off" => call'[d].excess \in Values
      BY <2>3, BlockType DEF TypeOK
    <2> QED
      BY <1>1, <2>3, <2>4, <2>5 DEF TypeOK, Call, Frames, poll
  <1>2. CASE Lands(c)
    <2>1. /\ call[c].pc = "publishing" /\ call[c].key \in Settings /\ call[c].val \in Values
          /\ call[c].key = "reserve_off" => call[c].excess \in Values
      BY <1>2 DEF TypeOK, Lands
    <2>2. Written(c) \in [Settings -> Values]
      BY <2>1 DEF TypeOK, Written
    <2>3. Touches(c) \subseteq Settings
      BY <2>1 DEF Touches
    <2>4. touched' \subseteq Settings /\ suspect' \subseteq Settings /\ based' \subseteq Callers
      BY <1>2, <2>1, <2>3 DEF Lands, TypeOK
    <2>5. call' = [call EXCEPT ![c].pc = "sent"]
      BY <1>2 DEF Lands
    <2>6. call' \in [Callers -> Frames]
      BY <1>0, <2>5 DEF Frames
    <2>7. \A d \in Callers : call'[d].pc # "idle" =>
             /\ call'[d].key \in Settings /\ call'[d].val \in Values
             /\ call'[d].key = "reserve_off" => call'[d].excess \in Values
      BY <1>0, <2>1, <2>5 DEF TypeOK, Frames
    <2> QED
      BY <1>2, <2>2, <2>4, <2>6, <2>7 DEF TypeOK, Lands, Frames, poll
  <1>3. CASE Lost(c)
    <2>1. call[c].pc = "publishing" /\ call[c].key \in Settings
      BY <1>3 DEF TypeOK, Lost
    <2>2. call' = [call EXCEPT ![c].pc = "sent"]
      BY <1>3 DEF Lost
    <2>3. call' \in [Callers -> Frames]
      BY <1>0, <2>2 DEF Frames
    <2>4. \A d \in Callers : call'[d].pc # "idle" =>
             /\ call'[d].key \in Settings /\ call'[d].val \in Values
             /\ call'[d].key = "reserve_off" => call'[d].excess \in Values
      BY <1>0, <2>1, <2>2 DEF TypeOK, Frames
    <2> QED
      BY <1>3, <2>1, <2>3, <2>4 DEF TypeOK, Lost, Frames, poll
  <1>4. ASSUME call' = [call EXCEPT ![c] = NoCall]
        PROVE  /\ call' \in [Callers -> Frames]
               /\ \A d \in Callers : call'[d].pc # "idle" =>
                    /\ call'[d].key \in Settings /\ call'[d].val \in Values
                    /\ call'[d].key = "reserve_off" => call'[d].excess \in Values
    BY <1>0, <1>4 DEF TypeOK, NoCall
  <1>5. CASE Refused(c)
    <2>1. call' = [call EXCEPT ![c] = NoCall]
      BY <1>5 DEF Refused
    <2> QED
      BY <1>4, <1>5, <2>1 DEF TypeOK, Refused, Frames, poll
  <1>6. CASE Shown(c)
    <2>1. call' = [call EXCEPT ![c] = NoCall] /\ call[c].val \in Known
      BY <1>0, <1>6 DEF Shown, Frames
    <2> QED
      BY <1>4, <1>6, <2>1 DEF TypeOK, Shown, Frames, poll
  <1> QED
    BY <1>1, <1>2, <1>3, <1>5, <1>6

(* No step puts a value of the wrong type anywhere. *)
LEMMA TypeStep == TypeOK /\ [Next]_vars => TypeOK'
  <1>1. ASSUME TypeOK, UNCHANGED vars PROVE TypeOK'
    BY <1>1 DEF TypeOK, vars, poll
  <1> QED
    BY <1>1, TypePoll, TypeCall DEF Next

(* Every variable keeps its type, and a block's frame always carries an     *)
(* excess value, also after a short reply left none in the dictionary.      *)
THEOREM TypeCorrect == Spec => []TypeOK
  BY TypeInit, TypeStep, PTL DEF Spec

-----------------------------------------------------------------------------
(* The inductive invariant. *)

(* Initially nothing is shown, on its way or read. *)
LEMMA InitIInv == Init => IInv
  <1> SUFFICES ASSUME Init PROVE IInv
    OBVIOUS
  <1>1. TypeOK
    BY TypeInit
  <1>2. \A c \in Callers : call[c].pc = "idle"
    BY DEF Init, NoCall
  <1>3. \A k \in Settings : data[k] = None
    BY Zenon DEF Init, Nothing
  <1>4. ShownIsStored
    BY <1>3 DEF ShownIsStored
  <1>5. OnTheWay
    BY <1>2 DEF OnTheWay, Sent, Init
  <1>6. step = 0 /\ got = Nothing
    BY Zenon DEF Init
  <1>7. PollHolds
    BY <1>6 DEF PollHolds
  <1> QED
    BY <1>1, <1>4, <1>5, <1>7 DEF IInv

(* What a reply just read holds; the rest of the read still does. *)
LEMMA StepReply ==
    ASSUME IInv, NEW ks, Reply(ks), step \in 1..4
    PROVE  ShownIsStored' /\ OnTheWay' /\ PollHolds'
  <1>1. UNCHANGED <<regs, data, call, suspect, based>>
    BY DEF Reply
  <1>2. ShownIsStored' /\ OnTheWay'
    BY <1>1 DEF IInv, ShownIsStored, OnTheWay, Sent
  <1>3. \A k \in Settings \ touched' : got'[k] # None => got'[k] = regs'[k]
    <2> SUFFICES ASSUME NEW k \in Settings, k \notin touched', got'[k] # None
                 PROVE  got'[k] = regs'[k]
      OBVIOUS
    <2>1. got'[k] = IF k \in ks THEN regs[k] ELSE got[k]
      BY DEF Reply
    <2>2. k \in ks \/ k \notin touched
      BY DEF Reply
    <2> QED
      BY <1>1, <2>1, <2>2 DEF IInv, PollHolds
  <1>4. step' \in 2..5
    BY DEF Reply
  <1> QED
    BY <1>2, <1>3, <1>4 DEF PollHolds

(* The new dictionary holds what was read and, beyond that, what the old    *)
(* one held.                                                                *)
LEMMA StepMerges ==
    ASSUME IInv, PollMerges
    PROVE  ShownIsStored' /\ OnTheWay' /\ PollHolds'
  <1>1. UNCHANGED <<regs, data, call, suspect, based, got>> /\ step = 5 /\ step' = 6
    BY DEF PollMerges
  <1>2. ShownIsStored' /\ OnTheWay'
    BY <1>1 DEF IInv, ShownIsStored, OnTheWay, Sent
  <1>3. ASSUME NEW k \in Settings, k \notin touched', got[k] # None \/ k \notin suspect,
               state'[k] # None
        PROVE  state'[k] = regs[k]
    <2>1. state'[k] = IF got[k] = None THEN data[k] ELSE got[k]
      BY DEF PollMerges, Overlaid
    <2>2. k \notin touched /\ (got[k] = None => Sent(k) = {})
      BY <1>3 DEF PollMerges
    <2> QED
      BY <1>1, <1>3, <2>1, <2>2 DEF IInv, PollHolds, ShownIsStored
  <1> QED
    BY <1>1, <1>2, <1>3 DEF PollHolds

(* Publishing ends the suspicion only where the poll's value holds. *)
LEMMA StepPublishes ==
    ASSUME IInv, PollPublishes
    PROVE  ShownIsStored' /\ OnTheWay' /\ PollHolds'
  <1>1. UNCHANGED <<regs, call, based>> /\ data' = state /\ step' = 0 /\ got' = Nothing
    BY DEF PollPublishes, EndPoll
  <1>2. ASSUME NEW k \in Settings, k \notin suspect'
        PROVE  k \notin touched /\ (k \notin suspect \/ (got[k] # None /\ Sent(k) = {}))
    <2>1. suspect' = touched \cup {j \in suspect : got[j] = None \/ Sent(j) # {}}
      BY DEF PollPublishes
    <2> QED
      BY <1>2, <2>1, Zenon
  <1>3. ShownIsStored'
    <2> SUFFICES ASSUME NEW k \in Settings, k \notin suspect', data'[k] # None
                 PROVE  data'[k] = regs'[k]
      BY DEF ShownIsStored
    <2>1. step = 6
      BY DEF PollPublishes
    <2> QED
      BY <1>1, <1>2, <2>1 DEF IInv, PollHolds
  <1>4. OnTheWay'
    BY <1>1, <1>2 DEF IInv, OnTheWay, Sent
  <1>5. PollHolds'
    BY <1>1 DEF PollHolds
  <1> QED
    BY <1>3, <1>4, <1>5

(* A new call disturbs nothing, and its block is based only on an excess    *)
(* value that is the battery's.                                             *)
LEMMA StepCall ==
    ASSUME IInv, NEW c \in Callers, NEW k \in Settings, NEW v \in Values, Call(c, k, v)
    PROVE  ShownIsStored' /\ OnTheWay' /\ PollHolds'
  <1> USE SettingsAssumption
  <1>1. UNCHANGED <<regs, data, step, got, state, suspect, touched>>
    BY DEF Call, poll
  <1>2. /\ call'[c] = [pc |-> "publishing", key |-> k, val |-> v,
                       excess |-> IF k = "reserve_off" THEN KnownExcess ELSE None]
        /\ \A d \in Callers : d # c => call'[d] = call[d]
        /\ call[c].pc = "idle"
    BY DEF Call, IInv, TypeOK
  <1>3. \A j \in Settings : Sent(j)' = Sent(j)
    BY <1>2 DEF Sent
  <1>4. ShownIsStored'
    BY <1>1, <1>3 DEF IInv, ShownIsStored
  <1>5. \A j \in Settings \ suspect' : \A d \in Sent(j)' : call'[d].val = regs'[j]
    BY <1>1, <1>2, <1>3 DEF IInv, OnTheWay, Sent
  <1>6. ASSUME c \in based', c \notin based
        PROVE  k = "reserve_off" /\ KnownExcess = regs["excess"]
    <2>1. k = "reserve_off" /\ data["excess"] # None /\ "excess" \notin suspect /\ Sent("excess") = {}
      BY <1>6 DEF Call
    <2> QED
      BY <2>1 DEF IInv, ShownIsStored, KnownExcess
  <1>7. c \notin based /\ based' \subseteq based \cup {c}
    BY <1>2 DEF IInv, OnTheWay, Call
  <1>8. \A d \in based' : call'[d].pc = "publishing" /\ call'[d].key = "reserve_off"
                            /\ call'[d].excess = regs'["excess"]
    <2> SUFFICES ASSUME NEW d \in based'
                 PROVE  call'[d].pc = "publishing" /\ call'[d].key = "reserve_off"
                        /\ call'[d].excess = regs'["excess"]
      OBVIOUS
    <2>1. CASE d = c
      BY <1>1, <1>2, <1>6, <1>7, <2>1
    <2>2. CASE d # c
      <3>1. d \in based /\ d \in Callers
        BY <1>7, <2>2 DEF IInv, TypeOK
      <3> QED
        BY <1>1, <1>2, <2>2, <3>1 DEF IInv, OnTheWay
    <2> QED
      BY <2>1, <2>2
  <1>9. PollHolds'
    BY <1>1, Zenon DEF IInv, PollHolds
  <1> QED
    BY <1>4, <1>5, <1>8, <1>9 DEF OnTheWay

(* A block based on the battery's excess writes it back unchanged. *)
LEMMA BlockLands ==
    ASSUME IInv, NEW c \in Callers, Lands(c), c \in based
    PROVE  regs'["excess"] = regs["excess"]
  <1>1. call[c].key = "reserve_off" /\ call[c].excess = regs["excess"]
    BY DEF IInv, OnTheWay
  <1> QED
    BY <1>1, SettingsAssumption DEF Lands, Written

(* An arriving frame touches its registers and moves to its caller's        *)
(* display; the excess of a block nothing vouched for becomes suspect.      *)
LEMMA StepLands ==
    ASSUME IInv, NEW c \in Callers, Lands(c)
    PROVE  ShownIsStored' /\ OnTheWay' /\ PollHolds'
  <1> USE SettingsAssumption
  <1>1. UNCHANGED <<data, step, got, state>> /\ call[c].pc = "publishing"
        /\ call[c].key \in Settings
    BY DEF Lands, poll, IInv, TypeOK
  <1>2. /\ call'[c].pc = "sent" /\ call'[c].key = call[c].key /\ call'[c].val = call[c].val
        /\ \A d \in Callers : d # c => call'[d] = call[d]
    BY DEF Lands, IInv, TypeOK
  <1>3. \A j \in Settings : j # call[c].key => Sent(j)' = Sent(j)
    BY <1>1, <1>2 DEF Sent
  <1>4. \A j \in Settings : j = call[c].key =>
           c \in Sent(j)' /\ \A d \in Sent(j)' : d = c \/ d \in Sent(j)
    BY <1>1, <1>2 DEF Sent
  <1>5. \A j \in Settings : j \notin Touches(c) => regs'[j] = regs[j]
    BY <1>1 DEF Lands, Written, Touches
  <1>6. regs'[call[c].key] = call[c].val
    BY <1>1 DEF Lands, Written
  <1>7. suspect \subseteq suspect' /\ touched' = touched \cup Touches(c)
    BY DEF Lands
  <1>8. ASSUME NEW j \in Settings, j # call[c].key, j \notin suspect'
        PROVE  regs'[j] = regs[j]
    <2>1. CASE j \notin Touches(c)
      BY <1>5, <2>1
    <2>2. CASE j \in Touches(c)
      <3>1. j = "excess" /\ call[c].key = "reserve_off"
        BY <1>8, <2>2 DEF Touches
      <3>2. c \in based
        BY <1>8, <3>1 DEF Lands
      <3> QED
        BY <3>1, <3>2, BlockLands
    <2> QED
      BY <2>1, <2>2
  <1>9. ShownIsStored'
    <2> SUFFICES ASSUME NEW j \in Settings, j \notin suspect', data'[j] # None, Sent(j)' = {}
                 PROVE  data'[j] = regs'[j]
      BY DEF ShownIsStored
    <2>1. j # call[c].key
      BY <1>4
    <2> QED
      BY <1>1, <1>3, <1>7, <1>8, <2>1 DEF IInv, ShownIsStored
  <1>10. ASSUME NEW j \in Settings, j \notin suspect', NEW d \in Sent(j)'
         PROVE  call'[d].val = regs'[j]
    <2>1. CASE j = call[c].key
      <3>1. Sent(j) = {}
        <4>1. Sent(call[c].key) # {} => call[c].key \in suspect'
          BY DEF Lands
        <4> QED
          BY <1>10, <2>1, <4>1
      <3>2. d = c
        BY <1>4, <2>1, <3>1
      <3> QED
        BY <1>2, <1>6, <2>1, <3>2
    <2>2. CASE j # call[c].key
      <3>1. d \in Sent(j) /\ d # c /\ d \in Callers
        BY <1>1, <1>3, <2>2 DEF Sent
      <3> QED
        BY <1>2, <1>7, <1>8, <1>10, <2>2, <3>1 DEF IInv, OnTheWay
    <2> QED
      BY <2>1, <2>2
  <1>11. ASSUME NEW d \in based'
         PROVE  /\ call'[d].pc = "publishing" /\ call'[d].key = "reserve_off"
                /\ call'[d].excess = regs'["excess"]
    <2>1. d \in based /\ d # c /\ d \in Callers /\ ("excess" \in Touches(c) => c \in based)
      BY <1>11 DEF Lands, IInv, TypeOK
    <2>2. regs'["excess"] = regs["excess"]
      BY <1>5, <2>1, BlockLands
    <2> QED
      BY <1>2, <2>1, <2>2 DEF IInv, OnTheWay
  <1>12. \A j \in Settings \ touched' : j \in Settings \ touched /\ regs'[j] = regs[j]
    BY <1>5, <1>7
  <1>13. PollHolds'
    BY <1>1, <1>7, <1>12 DEF IInv, PollHolds
  <1> QED
    BY <1>9, <1>10, <1>11, <1>13 DEF OnTheWay

(* A lost frame makes its setting suspect. *)
LEMMA StepLost ==
    ASSUME IInv, NEW c \in Callers, Lost(c)
    PROVE  ShownIsStored' /\ OnTheWay' /\ PollHolds'
  <1>1. /\ UNCHANGED <<regs, data, step, got, state, touched>>
        /\ suspect' = suspect \cup {call[c].key} /\ based' = based \ {c}
        /\ call[c].pc = "publishing"
    BY DEF Lost, poll
  <1>2. /\ call'[c].pc = "sent" /\ call'[c].key = call[c].key
        /\ \A d \in Callers : d # c => call'[d] = call[d]
    BY DEF Lost, IInv, TypeOK
  <1>3. \A j \in Settings \ suspect' : Sent(j)' = Sent(j) /\ c \notin Sent(j)
    BY <1>1, <1>2 DEF Sent
  <1>4. ShownIsStored'
    BY <1>1, <1>3 DEF IInv, ShownIsStored
  <1>5. \A j \in Settings \ suspect' : \A d \in Sent(j)' : call'[d].val = regs'[j]
    <2> SUFFICES ASSUME NEW j \in Settings \ suspect', NEW d \in Sent(j)'
                 PROVE  call'[d].val = regs'[j]
      OBVIOUS
    <2>1. d \in Sent(j) /\ d # c /\ d \in Callers
      BY <1>3 DEF Sent
    <2> QED
      BY <1>1, <1>2, <2>1 DEF IInv, OnTheWay
  <1>6. \A d \in based' : call'[d].pc = "publishing" /\ call'[d].key = "reserve_off"
                            /\ call'[d].excess = regs'["excess"]
    <2> SUFFICES ASSUME NEW d \in based'
                 PROVE  call'[d].pc = "publishing" /\ call'[d].key = "reserve_off"
                        /\ call'[d].excess = regs'["excess"]
      OBVIOUS
    <2>1. d \in based /\ d # c /\ d \in Callers
      BY <1>1 DEF IInv, TypeOK
    <2> QED
      BY <1>1, <1>2, <2>1 DEF IInv, OnTheWay
  <1>7. PollHolds'
    BY <1>1 DEF IInv, PollHolds
  <1> QED
    BY <1>4, <1>5, <1>6, <1>7 DEF OnTheWay

(* A refused frame leaves everything as it was. *)
LEMMA StepRefused ==
    ASSUME IInv, NEW c \in Callers, Refused(c)
    PROVE  ShownIsStored' /\ OnTheWay' /\ PollHolds'
  <1>1. /\ UNCHANGED <<regs, data, step, got, state, suspect, touched>>
        /\ based' = based \ {c} /\ call[c].pc = "publishing"
    BY DEF Refused, poll
  <1>2. /\ call'[c].pc = "idle"
        /\ \A d \in Callers : d # c => call'[d] = call[d]
    BY DEF Refused, IInv, TypeOK, NoCall
  <1>3. \A j \in Settings : Sent(j)' = Sent(j) /\ c \notin Sent(j)
    BY <1>1, <1>2 DEF Sent
  <1>4. ShownIsStored'
    BY <1>1, <1>3 DEF IInv, ShownIsStored
  <1>5. \A j \in Settings \ suspect' : \A d \in Sent(j)' : call'[d].val = regs'[j]
    <2> SUFFICES ASSUME NEW j \in Settings \ suspect', NEW d \in Sent(j)'
                 PROVE  call'[d].val = regs'[j]
      OBVIOUS
    <2>1. d \in Sent(j) /\ d # c /\ d \in Callers
      BY <1>3 DEF Sent
    <2> QED
      BY <1>1, <1>2, <2>1 DEF IInv, OnTheWay
  <1>6. \A d \in based' : call'[d].pc = "publishing" /\ call'[d].key = "reserve_off"
                            /\ call'[d].excess = regs'["excess"]
    <2> SUFFICES ASSUME NEW d \in based'
                 PROVE  call'[d].pc = "publishing" /\ call'[d].key = "reserve_off"
                        /\ call'[d].excess = regs'["excess"]
      OBVIOUS
    <2>1. d \in based /\ d # c /\ d \in Callers
      BY <1>1 DEF IInv, TypeOK
    <2> QED
      BY <1>1, <1>2, <2>1 DEF IInv, OnTheWay
  <1>7. PollHolds'
    BY <1>1 DEF IInv, PollHolds
  <1> QED
    BY <1>4, <1>5, <1>6, <1>7 DEF OnTheWay

(* A value shown at once is the one its frame wrote, unless suspect. *)
LEMMA StepShown ==
    ASSUME IInv, NEW c \in Callers, Shown(c)
    PROVE  ShownIsStored' /\ OnTheWay' /\ PollHolds'
  <1>1. /\ UNCHANGED <<regs, step, got, state, suspect, touched, based>>
        /\ call[c].pc = "sent" /\ call[c].key \in Settings
    BY DEF Shown, poll, IInv, TypeOK
  <1>2. /\ call'[c].pc = "idle"
        /\ \A d \in Callers : d # c => call'[d] = call[d]
    BY DEF Shown, IInv, TypeOK, NoCall
  <1>3. \A j \in Settings : data'[j] = IF j = call[c].key THEN call[c].val ELSE data[j]
    BY DEF Shown, IInv, TypeOK
  <1>4. \A j \in Settings : j # call[c].key => Sent(j)' = Sent(j)
    BY <1>1, <1>2 DEF Sent
  <1>5. c \in Sent(call[c].key)
    BY <1>1 DEF Sent
  <1>6. ShownIsStored'
    BY <1>1, <1>3, <1>4, <1>5 DEF IInv, ShownIsStored, OnTheWay
  <1>7. \A j \in Settings : \A d \in Sent(j)' : d \in Sent(j) /\ d # c /\ d \in Callers
    BY <1>2 DEF Sent
  <1>8. \A j \in Settings \ suspect' : \A d \in Sent(j)' : call'[d].val = regs'[j]
    BY <1>1, <1>2, <1>7 DEF IInv, OnTheWay
  <1>9. \A d \in based' : call'[d].pc = "publishing" /\ call'[d].key = "reserve_off"
                            /\ call'[d].excess = regs'["excess"]
    <2> SUFFICES ASSUME NEW d \in based'
                 PROVE  call'[d].pc = "publishing" /\ call'[d].key = "reserve_off"
                        /\ call'[d].excess = regs'["excess"]
      OBVIOUS
    <2>1. d \in based /\ d \in Callers /\ d # c
      BY <1>1 DEF IInv, TypeOK, OnTheWay
    <2> QED
      BY <1>1, <1>2, <2>1 DEF IInv, OnTheWay
  <1>10. PollHolds'
    BY <1>1 DEF IInv, PollHolds
  <1> QED
    BY <1>6, <1>8, <1>9, <1>10 DEF OnTheWay

(* Every step preserves the invariant. *)
LEMMA StepIInv == IInv /\ [Next]_vars => IInv'
  <1> SUFFICES ASSUME IInv, [Next]_vars PROVE IInv'
    OBVIOUS
  <1>1. TypeOK'
    BY TypeStep DEF IInv
  <1>2. ShownIsStored' /\ OnTheWay' /\ PollHolds'
    <2>1. CASE PollBegins
      <3>1. UNCHANGED <<regs, data, call, suspect, based, got>> /\ step = 0 /\ step' = 1
        BY <2>1 DEF PollBegins
      <3>2. got' = Nothing
        BY <3>1 DEF IInv, PollHolds
      <3>3. PollHolds'
        BY <3>1, <3>2 DEF PollHolds, Nothing
      <3> QED
        BY <3>1, <3>3 DEF IInv, ShownIsStored, OnTheWay, Sent
    <2>2. CASE BatteryAnswers \/ ShortAnswer
      BY <2>2, StepReply DEF BatteryAnswers, ShortAnswer, Block
    <2>3. CASE PollFails
      <3>1. UNCHANGED <<regs, data, call, suspect, based>> /\ step' = 0 /\ got' = Nothing
        BY <2>3 DEF PollFails, EndPoll
      <3> QED
        BY <3>1 DEF IInv, ShownIsStored, OnTheWay, PollHolds, Sent
    <2>4. CASE UNCHANGED vars
      BY <2>4 DEF IInv, ShownIsStored, OnTheWay, PollHolds, Sent, vars, poll
    <2> QED
      BY <2>1, <2>2, <2>3, <2>4, StepMerges, StepPublishes, StepCall, StepLands, StepLost,
         StepRefused, StepShown DEF Next, PollStep
  <1> QED
    BY <1>1, <1>2 DEF IInv

(* The invariant holds throughout. *)
THEOREM Invariance == Spec => []IInv
  BY InitIInv, StepIInv, PTL DEF Spec

(* What an entity shows is what the battery holds, in every state and with  *)
(* any number of calls crossing the poll, except for suspect settings.      *)
THEOREM ShownHolds == Spec => []ShownIsStored
  BY Invariance, PTL DEF IInv

(* Writing the off-grid reserve leaves the excess value alone whenever the  *)
(* block was built from an excess beyond doubt.                             *)
THEOREM ExcessKept == Spec => BasedBlockKeepsExcess
  <1>1. IInv /\ [Next]_vars => [\A c \in based : Lands(c) => regs'["excess"] = regs["excess"]]_vars
    <2> SUFFICES ASSUME IInv, NEW c \in based, Lands(c)
                 PROVE  regs'["excess"] = regs["excess"]
      OBVIOUS
    <2>1. c \in Callers
      BY DEF IInv, TypeOK
    <2> QED
      BY <2>1, BlockLands
  <1> QED
    BY <1>1, Invariance, PTL DEF Spec, BasedBlockKeepsExcess

=============================================================================
