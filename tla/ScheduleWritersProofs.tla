-------------------------- MODULE ScheduleWritersProofs --------------------------
(***************************************************************************)
(* What the service promises about when it is there and whom it writes,    *)
(* for any number of entries and whatever the schedules are; and that      *)
(* every battery runs what it was asked to, from the laws of schedules     *)
(* that WindowsProofs states.                                              *)
(***************************************************************************)
EXTENDS ScheduleWriters, WindowsProofs, TLAPS

Phases == {"out", "in", "up", "leaving"}
Slot == Entries \cup {None}
Calls == [pc : {"idle", "loop", "ok", "error"}, ask : Schedules, at : Nat \ {0}, due : Nat,
          size : Nat, wrote : SUBSET Entries, moved : BOOLEAN]

(* The dictionary has just the entries that are loaded. *)
Listed == \A e \in Entries : InData(e) <=> \E i \in DOMAIN table : table[i] = e

(* The types of what the service's promises speak of. *)
Shape ==
    /\ phase \in [Entries -> Phases] /\ table \in Seq(Slot) /\ call \in Calls
    /\ Listed

(* Whoever has control and stands before the iterator's place was written,  *)
(* and a new entry always comes behind it.                                  *)
NobodyLost ==
    call.pc = "loop" /\ ~call.moved =>
        /\ call.at <= Len(table) + 1
        /\ \A i \in DOMAIN table : i < call.at /\ table[i] \in Controlled => table[i] \in call.wrote

(* What holds in every state of the service.                                *)
IInv == Shape /\ NobodyLost /\ ServiceWhenControlled

-----------------------------------------------------------------------------
(* Facts about the constants and the dictionary. *)

(* An empty schedule is one, and offsets are numbers. *)
LEMMA WritersFacts ==
    /\ Empty \in Holdable /\ Empty \in Schedules /\ Vendor \subseteq Holdable /\ Asks \subseteq Schedules
    /\ Holdable \subseteq Schedules
    /\ Offsets \subseteq Int /\ None \notin Offsets /\ Controlled \subseteq Entries
    /\ \A o \in Offsets : -o \in Int
  <1>0. \A o \in Int : -o \in Int
    OBVIOUS
  <1>1. Empty \in Schedules /\ \A d \in Week : Len(Empty[d]) = 0
    BY EmptySeq DEF Empty, Schedules
  <1>2. MaxWindows \in Nat
    BY WeekAssumption
  <1>3. Empty \in Holdable
    BY <1>1, <1>2 DEF Holdable
  <1> QED
    BY <1>0, <1>1, <1>3, WritersAssumption DEF Holdable

(* Places in the dictionary are numbers from one on, and hold entries. *)
LEMMA TablePlaces ==
    ASSUME table \in Seq(Slot)
    PROVE  /\ Len(table) \in Nat /\ DOMAIN table = 1..Len(table)
           /\ \A i \in DOMAIN table : i \in Nat \ {0} /\ i <= Len(table) /\ table[i] \in Slot
  BY LenProperties

(* What the iterator counts is finite. *)
LEMMA CountsTyped ==
    ASSUME Shape
    PROVE  /\ Cardinality(Loaded) \in Nat /\ Size \in Nat /\ Due \in Nat
           /\ Cardinality(Ahead) \in Nat
           /\ \A i \in DOMAIN table : Passed(i) \in Nat /\ Passed(i) <= Cardinality(Ahead)
  <1>1. Cardinality(Loaded) \in Nat
    <2>1. IsFiniteSet(Loaded)
      BY WritersAssumption, FS_Subset DEF Loaded
    <2> QED
      BY <2>1, FS_CardinalityType
  <1>2. Size \in Nat /\ Due \in Nat
    BY <1>1 DEF Shape, Calls, Size, Due
  <1>3. IsFiniteSet(Ahead)
    <2>1. Len(table) \in Nat /\ DOMAIN table = 1..Len(table)
      BY TablePlaces DEF Shape
    <2>2. IsFiniteSet(DOMAIN table)
      BY <2>1, FS_Interval
    <2>3. Ahead \in SUBSET DOMAIN table
      BY DEF Ahead
    <2> QED
      BY <2>2, <2>3, FS_Subset
  <1>4. Cardinality(Ahead) \in Nat
    BY <1>3, FS_CardinalityType
  <1>5. ASSUME NEW i \in DOMAIN table PROVE Passed(i) \in Nat /\ Passed(i) <= Cardinality(Ahead)
    <2> DEFINE P == {j \in Ahead : j <= i}
    <2>1. P \in SUBSET Ahead
      OBVIOUS
    <2>2. IsFiniteSet(P) /\ Cardinality(P) <= Cardinality(Ahead)
      BY <1>3, <2>1, FS_Subset
    <2>3. Cardinality(P) \in Nat
      BY <2>2, FS_CardinalityType
    <2> QED
      BY <2>2, <2>3 DEF Passed
  <1> QED
    BY <1>1, <1>2, <1>4, <1>5

(* Before anything happens every entry is in it. *)
LEMMA ShapeInit == Init => Shape
  <1> SUFFICES ASSUME Init PROVE Shape
    OBVIOUS
  <1>1. phase \in [Entries -> Phases] /\ \A e \in Entries : InData(e)
    BY DEF Init, Phases, InData
  <1>2. call \in Calls
    BY WritersFacts DEF Init, NoCall, Calls
  <1>3. Cardinality(Entries) \in Nat
    BY WritersAssumption, FS_CardinalityType
  <1>4. table \in [1..Cardinality(Entries) -> Entries] /\ ToSet(table) = Entries
    BY DEF Init
  <1>5. table \in Seq(Slot)
    <2>1. table \in [1..Cardinality(Entries) -> Slot]
      BY <1>4 DEF Slot
    <2> QED
      BY <1>3, <2>1, SeqDef
  <1>6. Listed
    BY <1>1, <1>4 DEF Listed, ToSet
  <1> QED
    BY <1>1, <1>2, <1>5, <1>6 DEF Shape

-----------------------------------------------------------------------------
(* Steps of the call. *)

(* A visit writes the entry whose turn it is, and goes to the next place.   *)
LEMMA CallMoves ==
    ASSUME Shape, NEW i \in DOMAIN table, CallWrites(i) \/ CallFails(i)
    PROVE  /\ call' \in Calls /\ call.pc = "loop" /\ call'.pc \in {"loop", "error"}
           /\ UNCHANGED <<phase, table>> /\ table[i] \in Entries
           /\ call'.pc = "loop" =>
                 /\ Turn(i) /\ call'.at = i + 1 /\ call'.moved = call.moved
                 /\ call'.wrote = call.wrote \cup {table[i]}
  <1>1. /\ call \in Calls /\ Turn(i) /\ Passed(i) <= Due /\ call.pc = "loop"
        /\ UNCHANGED <<phase, table>>
    BY DEF Shape, CallWrites, CallFails, Visit, world
  <1>2. table[i] \in Entries /\ i + 1 \in Nat \ {0}
    BY <1>1, WritersFacts, TablePlaces DEF Turn, Shape
  <1>3. Size \in Nat /\ Due \in Nat /\ Passed(i) \in Nat
    BY CountsTyped
  <1>4. Due - Passed(i) \in Nat
    BY <1>1, <1>3
  <1>5. CASE CallWrites(i)
    <2>1. call' = [[call EXCEPT !.at = i + 1, !.due = Due - Passed(i), !.size = Size]
                      EXCEPT !.wrote = @ \cup {table[i]}]
      BY <1>5 DEF CallWrites, Visited
    <2> HIDE DEF Due, Passed, Size
    <2> DEFINE d == Due - Passed(i)
    <2>2. d \in Nat /\ call' = [[call EXCEPT !.at = i + 1, !.due = d, !.size = Size]
                                  EXCEPT !.wrote = @ \cup {table[i]}]
      BY <1>4, <2>1
    <2> HIDE DEF d
    <2>3. /\ call'.pc = "loop" /\ call'.at = i + 1 /\ call'.moved = call.moved
          /\ call'.wrote = call.wrote \cup {table[i]}
      BY <1>1, <2>2 DEF Calls
    <2>4. call' \in Calls
      BY <1>1, <1>2, <1>3, <2>2 DEF Calls
    <2> QED
      BY <1>1, <1>2, <2>3, <2>4
  <1>6. CASE CallFails(i)
    <2>1. call' = [call EXCEPT !.pc = "error"]
      BY <1>6 DEF CallFails
    <2>2. call' \in Calls /\ call'.pc = "error"
      BY <1>1, <2>1 DEF Calls
    <2> QED
      BY <1>1, <1>2, <2>2
  <1> QED
    BY <1>5, <1>6

(* A call begins at the front, having written nobody. *)
LEMMA BeginsTyped ==
    ASSUME NEW x \in Asks, CallBegins(x)
    PROVE  call' \in Calls /\ call'.at = 1 /\ UNCHANGED <<phase, table>>
  <1>1. call' = [NoCall EXCEPT !.pc = "loop", !.ask = Shift(Held(x), 0)]
    BY DEF CallBegins
  <1>2. Shift(Held(x), 0) \in Schedules
    <2>1. x \in Schedules /\ Held(x) \in Schedules
      BY WritersFacts, HeldType
    <2> QED
      BY <2>1, ShiftType
  <1> DEFINE ask == Shift(Held(x), 0)
  <1>3. call' = [pc |-> "loop", ask |-> ask, at |-> 1, due |-> 0, size |-> 0,
                 wrote |-> {}, moved |-> FALSE]
    BY <1>1 DEF NoCall
  <1>4. ask \in Schedules
    BY <1>2
  <1>5. UNCHANGED <<phase, table>>
    BY DEF CallBegins, world
  <1> HIDE DEF ask
  <1> QED
    BY <1>3, <1>4, <1>5 DEF Calls

(* It ends with or without an error. *)
LEMMA EndsTyped ==
    ASSUME Shape, CallEnds \/ CallReturns
    PROVE  /\ call' \in Calls /\ call'.pc # "loop" /\ UNCHANGED <<phase, table>>
           /\ call'.pc = "ok" => CallEnds /\ ~Changed /\ ~TooMany
  <1>0. call \in Calls
    BY DEF Shape
  <1>1. CASE CallEnds
    <2>1. call' = [call EXCEPT !.pc = IF Changed \/ TooMany THEN "error" ELSE "ok"]
      BY <1>1 DEF CallEnds
    <2> HIDE DEF Changed, TooMany
    <2>2. call' \in Calls /\ call'.pc = IF Changed \/ TooMany THEN "error" ELSE "ok"
      BY <1>0, <2>1 DEF Calls
    <2> QED
      BY <1>1, <2>2 DEF CallEnds, world
  <1>2. CASE CallReturns
    BY <1>2, WritersFacts DEF CallReturns, NoCall, Calls, world
  <1> QED
    BY <1>1, <1>2

-----------------------------------------------------------------------------
(* Entries come and go. *)

(* A popped entry leaves its place empty, and nothing else moves. *)
LEMMA PoppedTyped ==
    ASSUME Shape, NEW e \in Entries, NEW after \in Phases \ {"in", "up"},
           phase' = [phase EXCEPT ![e] = after], table' = Popped(e), call' = call
    PROVE  /\ Shape' /\ Len(table') = Len(table)
           /\ \A i \in DOMAIN table' : table'[i] # None => i \in DOMAIN table /\ table'[i] = table[i]
  <1>1. /\ phase \in [Entries -> Phases] /\ table \in Seq(Slot) /\ call \in Calls /\ None \notin Entries
        /\ Len(table) \in Nat /\ DOMAIN table = 1..Len(table)
        /\ \A i \in DOMAIN table : table[i] \in Slot
    BY TablePlaces, WritersAssumption DEF Shape
  <1>2. /\ table' \in [1..Len(table) -> Slot]
        /\ \A i \in 1..Len(table) : table'[i] = IF table[i] = e THEN None ELSE table[i]
    BY <1>1 DEF Popped, Slot
  <1>3. table' \in Seq(Slot) /\ Len(table') = Len(table) /\ DOMAIN table' = 1..Len(table)
    BY <1>1, <1>2, SeqDef, LenProperties
  <1>4. phase' \in [Entries -> Phases]
    BY <1>1
  <1>5. ASSUME NEW f \in Entries
        PROVE  InData(f)' <=> \E i \in DOMAIN table' : table'[i] = f
    <2>1. CASE f = e
      <3>1. ~InData(f)'
        BY <1>1, <2>1 DEF InData
      <3>2. \A i \in 1..Len(table) : table'[i] # f
        BY <1>1, <1>2, <2>1
      <3> QED
        BY <1>3, <3>1, <3>2
    <2>2. CASE f # e
      <3>1. InData(f)' <=> InData(f)
        BY <1>1, <2>2 DEF InData
      <3>2. \A i \in 1..Len(table) : table'[i] = f <=> table[i] = f
        BY <1>1, <1>2, <2>2
      <3> QED
        BY <1>1, <1>3, <3>1, <3>2 DEF Shape, Listed
    <2> QED
      BY <2>1, <2>2
  <1>6. Listed'
    BY <1>5 DEF Listed
  <1> QED
    BY <1>1, <1>2, <1>3, <1>4, <1>6 DEF Shape

(* Closing the gaps loses no entry, and moves none that has no gap before it. *)
LEMMA CompactKeeps ==
    ASSUME Shape
    PROVE  /\ Compact \in Seq(Slot)
           /\ \A e \in Entries : (\E i \in DOMAIN Compact : Compact[i] = e)
                                   <=> \E i \in DOMAIN table : table[i] = e
           /\ ~GapBehind /\ call.at <= Len(table) + 1 =>
                 /\ call.at <= Len(Compact) + 1
                 /\ \A i \in 1..call.at - 1 : i \in DOMAIN table /\ Compact[i] = table[i]
  <1> DEFINE I == {i \in DOMAIN table : table[i] # None}
             c == Cardinality(I)
             sub == Sublist(table, I)
             k == call.at - 1
  <1>1. /\ table \in Seq(Slot) /\ None \notin Entries
        /\ Len(table) \in Nat /\ DOMAIN table = 1..Len(table)
        /\ call.at \in Nat \ {0} /\ k \in Nat
    BY TablePlaces, WritersAssumption DEF Shape, Calls
  <1>2. I \in SUBSET (1..Len(table)) /\ \A i \in I : table[i] # None
    BY <1>1
  <1>3. \A i \in 1..Len(table) : table[i] # None => i \in I
    BY <1>1
  <1> HIDE DEF I
  <1>4. /\ c \in Nat /\ sub \in Seq(Slot) /\ Len(sub) = c
        /\ \A n \in 1..c : \E i \in I : sub[n] = table[i]
        /\ \A i \in I : \E n \in 1..c : sub[n] = table[i]
    BY <1>1, <1>2, SublistKeeps
  <1>5. DOMAIN sub = 1..c
    BY <1>4, LenProperties
  <1>6. Compact = sub
    BY DEF Compact, I
  <1>7. ASSUME ~GapBehind, call.at <= Len(table) + 1
        PROVE  /\ call.at <= c + 1
               /\ \A i \in 1..k : i \in 1..Len(table) /\ sub[i] = table[i]
    <2>1. \A n \in 1..k : n \in 1..Len(table) /\ n < call.at
      BY <1>1, <1>7
    <2>2. \A n \in 1..k : n \in I
      BY <1>1, <1>3, <1>7, <2>1 DEF GapBehind
    <2>3. \A n \in 1..k : n <= c /\ sub[n] = table[n]
      BY <1>1, <1>2, <2>2, SublistStart
    <2>4. k <= c
      BY <1>1, <1>4, <2>3
    <2> QED
      BY <1>1, <1>4, <2>1, <2>3, <2>4
  <1> HIDE DEF sub, c
  <1>8. ASSUME NEW e \in Entries
        PROVE  (\E n \in 1..c : sub[n] = e) <=> \E i \in 1..Len(table) : table[i] = e
    BY <1>1, <1>2, <1>3, <1>4
  <1> QED
    BY <1>1, <1>4, <1>5, <1>6, <1>7, <1>8

(* A new entry goes to the end, of the table or of what a rebuild leaves.   *)
LEMMA LoadsTyped ==
    ASSUME Shape, NobodyLost, NEW e \in Entries, Loads(e)
    PROVE  Shape' /\ NobodyLost' /\ call'.pc = call.pc
  <1>0. PICK kept \in {table, Compact} :
           /\ table' = Append(kept, e)
           /\ call' = [call EXCEPT !.moved = @ \/ (call.pc = "loop" /\ kept # table /\ GapBehind)]
    BY DEF Loads
  <1>1. /\ phase \in [Entries -> Phases] /\ table \in Seq(Slot) /\ call \in Calls /\ None \notin Entries
        /\ call.at \in Nat \ {0}
    BY WritersAssumption DEF Shape, Calls
  <1>2. /\ kept \in Seq(Slot)
        /\ \A f \in Entries : (\E i \in DOMAIN kept : kept[i] = f) <=> InData(f)
    BY <1>1, CompactKeeps DEF Shape, Listed
  <1>3. Len(kept) \in Nat /\ DOMAIN kept = 1..Len(kept)
    BY <1>2, LenProperties
  <1>4. /\ table' \in Seq(Slot) /\ Len(table') = Len(kept) + 1
        /\ \A i \in 1..Len(kept) : table'[i] = kept[i]
        /\ table'[Len(kept) + 1] = e
    BY <1>0, <1>2, AppendProperties DEF Slot
  <1>5. DOMAIN table' = 1..Len(kept) + 1
    BY <1>3, <1>4, LenProperties
  <1>6. phase[e] = "out" /\ phase' = [phase EXCEPT ![e] = "in"]
    BY DEF Loads
  <1>7. phase' \in [Entries -> Phases]
    BY <1>1, <1>6 DEF Phases
  <1>8. Listed'
    <2>1. ASSUME NEW f \in Entries
          PROVE  InData(f)' <=> \E i \in DOMAIN table' : table'[i] = f
      <3>1. CASE f = e
        <4>1. InData(f)'
          BY <1>1, <1>6, <3>1 DEF InData
        <4>2. Len(kept) + 1 \in DOMAIN table'
          BY <1>3, <1>5
        <4> QED
          BY <1>4, <3>1, <4>1, <4>2
      <3>2. CASE f # e
        <4>1. InData(f)' <=> InData(f)
          BY <1>1, <1>6, <3>2 DEF InData
        <4>2. \A i \in DOMAIN table' : table'[i] = f <=> i \in DOMAIN kept /\ kept[i] = f
          BY <1>3, <1>4, <1>5, <3>2
        <4>3. \A i \in DOMAIN kept : i \in DOMAIN table'
          BY <1>3, <1>5
        <4> QED
          BY <1>2, <4>1, <4>2, <4>3
      <3> QED
        BY <3>1, <3>2
    <2> QED
      BY <2>1 DEF Listed
  <1> DEFINE m == call.moved \/ (call.pc = "loop" /\ kept # table /\ GapBehind)
  <1>9. call' = [call EXCEPT !.moved = m]
    BY <1>0
  <1>10. m \in BOOLEAN
    BY <1>1 DEF Calls
  <1>11. m <=> call.moved \/ (call.pc = "loop" /\ kept # table /\ GapBehind)
    OBVIOUS
  <1> HIDE DEF m
  <1>12. call' \in Calls
    BY <1>1, <1>9, <1>10 DEF Calls
  <1>13. /\ call'.pc = call.pc /\ call'.at = call.at /\ call'.wrote = call.wrote
         /\ call'.moved = m
    BY <1>1, <1>9 DEF Calls
  <1>14. NobodyLost'
    <2> SUFFICES ASSUME call.pc = "loop", ~m
                 PROVE  /\ call.at <= Len(table') + 1
                        /\ \A i \in DOMAIN table' :
                              i < call.at /\ table'[i] \in Controlled => table'[i] \in call.wrote
      BY <1>13 DEF NobodyLost
    <2>1. /\ call.at <= Len(table) + 1
          /\ \A i \in DOMAIN table : i < call.at /\ table[i] \in Controlled => table[i] \in call.wrote
      BY <1>11 DEF NobodyLost
    <2>2. call.at <= Len(kept) + 1
      BY <1>1, <1>11, <2>1, CompactKeeps
    <2>3. ASSUME NEW i \in DOMAIN table', i < call.at
          PROVE  i \in DOMAIN table /\ table'[i] = table[i]
      <3>1. i \in 1..Len(kept) /\ table'[i] = kept[i] /\ i \in 1..call.at - 1
        BY <1>1, <1>3, <1>4, <1>5, <2>2, <2>3
      <3>2. CASE kept = table
        BY <1>3, <3>1, <3>2
      <3>3. CASE kept # table
        <4>1. kept = Compact /\ ~GapBehind
          BY <1>11, <3>3
        <4> QED
          BY <2>1, <3>1, <4>1, CompactKeeps
      <3> QED
        BY <3>2, <3>3
    <2> QED
      BY <1>1, <1>3, <1>4, <2>1, <2>2, <2>3
  <1> QED
    BY <1>4, <1>7, <1>8, <1>12, <1>13, <1>14 DEF Shape

(* Setting up its platforms, and the end of its unloading, move nobody.     *)
LEMMA SettledTyped ==
    ASSUME Shape, NEW e \in Entries, SetUp(e) \/ Unloaded(e)
    PROVE  Shape' /\ UNCHANGED <<table, call>>
  <1>1. /\ phase \in [Entries -> Phases] /\ table \in Seq(Slot) /\ call \in Calls /\ Listed
        /\ UNCHANGED <<table, call>>
    BY DEF Shape, SetUp, Unloaded
  <1>2. phase' \in [Entries -> Phases] /\ \A f \in Entries : InData(f)' <=> InData(f)
    BY <1>1 DEF SetUp, Unloaded, InData, Phases
  <1> QED
    BY <1>1, <1>2 DEF Shape, Listed

-----------------------------------------------------------------------------
(* The invariant. *)

(* What each step can be for the dictionary and the call. *)
LEMMA CallSteps ==
    ASSUME [Next]_vars
    PROVE  \/ UNCHANGED <<phase, table, call, service>>
           \/ \E i \in DOMAIN table : CallWrites(i) \/ CallFails(i)
           \/ \E x \in Asks : CallBegins(x)
           \/ CallEnds \/ CallReturns
           \/ \E e \in Entries : Loads(e) \/ SetUp(e) \/ SetupFails(e) \/ Unloads(e) \/ Unloaded(e)
  BY DEF Next, Adopts, Follows, ClockReads, SavesMode, SavesSchedule, HalfSaved, FormOpens,
         FormCloses, Sent, world, vars

(* Nobody is lost: a new entry comes behind the iterator's place.           *)
LEMMA LostNext ==
    ASSUME Shape, NobodyLost, [Next]_vars
    PROVE  Shape' /\ NobodyLost'
  <1>1. CASE UNCHANGED <<phase, table, call, service>>
    BY <1>1 DEF Shape, Listed, InData, NobodyLost
  <1>2. ASSUME NEW i \in DOMAIN table, CallWrites(i) \/ CallFails(i)
        PROVE  Shape' /\ NobodyLost'
    <2>1. /\ call' \in Calls /\ call.pc = "loop" /\ UNCHANGED <<phase, table>>
          /\ call'.pc = "loop" =>
                /\ Turn(i) /\ call'.at = i + 1 /\ call'.moved = call.moved
                /\ call'.wrote = call.wrote \cup {table[i]}
      BY <1>2, CallMoves
    <2>2. Shape'
      BY <2>1 DEF Shape, Listed, InData
    <2>3. /\ Len(table) \in Nat /\ i \in Nat /\ i <= Len(table) /\ call.at \in Nat
          /\ None \notin Controlled /\ \A j \in DOMAIN table : j \in Nat
      BY TablePlaces, WritersAssumption DEF Shape, Calls
    <2>4. ASSUME call'.pc = "loop", ~call'.moved,
                 NEW j \in DOMAIN table, j < i + 1, table[j] \in Controlled
          PROVE  table[j] \in call'.wrote
      <3>1. CASE j < call.at
        BY <2>1, <2>4, <3>1 DEF NobodyLost
      <3>2. CASE j >= call.at /\ j # i
        <4>1. j \in Ahead /\ j < i
          BY <2>3, <2>4, <3>2 DEF Ahead
        <4> QED
          BY <2>1, <2>4, <4>1 DEF Turn
      <3>3. CASE j = i
        BY <2>1, <2>4, <3>3
      <3> QED
        BY <2>3, <3>1, <3>2, <3>3
    <2>5. NobodyLost'
      BY <2>1, <2>3, <2>4 DEF NobodyLost
    <2> QED
      BY <2>2, <2>5
  <1>3. ASSUME NEW x \in Asks, CallBegins(x) PROVE Shape' /\ NobodyLost'
    <2>1. call' \in Calls /\ call'.at = 1 /\ UNCHANGED <<phase, table>>
      BY <1>3, BeginsTyped
    <2>2. Len(table) \in Nat /\ \A j \in DOMAIN table : j \in Nat \ {0}
      BY TablePlaces DEF Shape
    <2> QED
      BY <2>1, <2>2 DEF Shape, Listed, InData, NobodyLost
  <1>4. CASE CallEnds \/ CallReturns
    <2>1. call' \in Calls /\ call'.pc # "loop" /\ UNCHANGED <<phase, table>>
      BY <1>4, EndsTyped
    <2> QED
      BY <2>1 DEF Shape, Listed, InData, NobodyLost
  <1>5. ASSUME NEW e \in Entries, SetUp(e) \/ Unloaded(e) PROVE Shape' /\ NobodyLost'
    BY <1>5, SettledTyped DEF NobodyLost
  <1>6. ASSUME NEW e \in Entries, SetupFails(e) \/ Unloads(e) PROVE Shape' /\ NobodyLost'
    <2>1. /\ Shape' /\ Len(table') = Len(table) /\ call' = call
          /\ \A i \in DOMAIN table' : table'[i] # None => i \in DOMAIN table /\ table'[i] = table[i]
      BY <1>6, PoppedTyped DEF SetupFails, Unloads, Phases
    <2>2. None \notin Controlled
      BY WritersAssumption
    <2> QED
      BY <2>1, <2>2 DEF NobodyLost
  <1>7. ASSUME NEW e \in Entries, Loads(e) PROVE Shape' /\ NobodyLost'
    BY <1>7, LoadsTyped
  <1> QED
    BY <1>1, <1>2, <1>3, <1>4, <1>5, <1>6, <1>7, CallSteps

(* The service is removed only when no entry with control is left.          *)
LEMMA ServiceNext == Shape /\ ServiceWhenControlled /\ [Next]_vars => ServiceWhenControlled'
  <1> SUFFICES ASSUME Shape, ServiceWhenControlled, [Next]_vars,
                      NEW c \in Controlled, phase'[c] = "up"
               PROVE  service'
    BY DEF ServiceWhenControlled
  <1>0. c \in Entries /\ phase \in [Entries -> Phases]
    BY WritersAssumption DEF Shape
  <1>1. ASSUME NEW e \in Entries, Loads(e) \/ SetupFails(e) \/ Unloads(e) PROVE service'
    <2>1. phase[c] = "up" /\ service' = service
      BY <1>0, <1>1 DEF Loads, SetupFails, Unloads
    <2> QED
      BY <2>1 DEF ServiceWhenControlled
  <1>2. ASSUME NEW e \in Entries, SetUp(e) PROVE service'
    BY <1>2 DEF SetUp
  <1>3. ASSUME NEW e \in Entries, Unloaded(e) PROVE service'
    <2>1. phase[c] = "up" /\ service' = (service /\ StaysFor # {})
      BY <1>0, <1>3 DEF Unloaded
    <2>2. c \in StaysFor
      BY <2>1 DEF StaysFor, InData
    <2>3. service
      BY <2>1 DEF ServiceWhenControlled
    <2> QED
      BY <2>1, <2>2, <2>3
  <1>4. CASE UNCHANGED <<phase, service>>
    BY <1>4 DEF ServiceWhenControlled
  <1>5. ASSUME NEW i \in DOMAIN table, CallWrites(i) \/ CallFails(i) PROVE UNCHANGED <<phase, service>>
    BY <1>5 DEF CallWrites, CallFails, world
  <1>6. ASSUME NEW x \in Asks, CallBegins(x) PROVE UNCHANGED <<phase, service>>
    BY <1>6 DEF CallBegins, world
  <1>7. CallEnds \/ CallReturns => UNCHANGED <<phase, service>>
    BY DEF CallEnds, CallReturns, world
  <1> QED
    BY <1>1, <1>2, <1>3, <1>4, <1>5, <1>6, <1>7, CallSteps

(* The inductive invariant holds in every behaviour.                        *)
THEOREM WritersInvariant == Spec => []IInv
  <1>1. Init => IInv
    <2> SUFFICES ASSUME Init PROVE IInv
      OBVIOUS
    <2>1. NobodyLost /\ ServiceWhenControlled
      BY DEF Init, NoCall, NobodyLost, ServiceWhenControlled
    <2> QED
      BY <2>1, ShapeInit DEF IInv
  <1>2. IInv /\ [Next]_vars => IInv'
    BY LostNext, ServiceNext DEF IInv
  <1> QED
    BY <1>1, <1>2, PTL DEF Spec

-----------------------------------------------------------------------------
(* set_schedule is registered while an entry with control is set up         *)
(* (__init__.py, the registration and async_unload_entry).                  *)
THEOREM ServiceStays == Spec => []ServiceWhenControlled
  <1>1. IInv => ServiceWhenControlled
    BY DEF IInv
  <1> QED
    BY <1>1, WritersInvariant, PTL

(* A call that ends without an error has no entry with control ahead of it. *)
LEMMA NobodyAhead ==
    ASSUME Shape, call.pc = "loop", CallEnds, ~Changed, ~TooMany,
           NEW i \in Ahead, table[i] \in Controlled
    PROVE  FALSE
  <1> DEFINE T == {j \in Ahead : table[j] \in Controlled}
  <1>1. T \in SUBSET Nat /\ T # {}
    BY TablePlaces DEF Ahead, Shape
  <1>2. PICK j \in T : \A k \in T : j <= k
    BY <1>1, LeastNatural
  <1>3. j \in Ahead /\ j \in DOMAIN table /\ table[j] \in Controlled /\ j \in Nat
    BY <1>1 DEF Ahead
  <1>4. \A k \in Ahead : k < j => table[k] \notin Controlled
    <2> SUFFICES ASSUME NEW k \in Ahead, k < j, table[k] \in Controlled PROVE FALSE
      OBVIOUS
    <2>1. k \in T /\ k \in Nat /\ j <= k
      BY <1>1, <1>2
    <2> QED
      BY <1>3, <2>1
  <1>5. Turn(j)
    BY <1>3, <1>4 DEF Turn
  <1>6. Passed(j) <= Due
    <2>1. /\ Passed(j) \in Nat /\ Cardinality(Ahead) \in Nat /\ Due \in Nat
          /\ Passed(j) <= Cardinality(Ahead)
      BY <1>3, CountsTyped
    <2>2. ~(Cardinality(Ahead) > Due)
      BY DEF TooMany
    <2> HIDE DEF Passed, Ahead, Due
    <2> QED
      BY <2>1, <2>2
  <1>7. Visit(j)
    BY <1>5, <1>6 DEF Visit
  <1> QED
    BY <1>3, <1>7 DEF CallEnds

(* A service call that returns without an error passed over no entry that   *)
(* has control, unless the dictionary was rebuilt under its loop after an   *)
(* entry it had passed was popped (__init__.py, the loop of _set_schedule). *)
THEOREM NobodyPassedOver == Spec => NoEntryPassedOver
  <1>1. ASSUME IInv, [Next]_vars, call.pc = "loop", call'.pc = "ok", ~call.moved
        PROVE  {e \in Entries : HasControl(e)} \subseteq call.wrote
    <2>0. Shape /\ NobodyLost
      BY <1>1 DEF IInv
    <2>1. CallEnds /\ ~Changed /\ ~TooMany
      <3>1. \A i \in DOMAIN table : ~(CallWrites(i) \/ CallFails(i))
        BY <1>1, <2>0, CallMoves
      <3>2. \A e \in Entries : ~(Loads(e) \/ SetUp(e) \/ SetupFails(e) \/ Unloads(e) \/ Unloaded(e))
        BY <1>1, <2>0, LoadsTyped DEF SetUp, SetupFails, Unloads, Unloaded
      <3>3. \A x \in Asks : ~CallBegins(x)
        BY <1>1 DEF CallBegins
      <3> QED
        BY <1>1, <2>0, <3>1, <3>2, <3>3, CallSteps, EndsTyped
    <2>2. ASSUME NEW e \in Entries, HasControl(e) PROVE e \in call.wrote
      <3>1. e \in Controlled /\ e # None
        BY <2>2, WritersAssumption DEF HasControl
      <3>2. PICK i \in DOMAIN table : table[i] = e
        BY <2>0, <2>2 DEF Shape, Listed, HasControl
      <3>3. i \in Nat /\ call.at \in Nat
        BY <2>0, TablePlaces DEF Shape, Calls
      <3>4. CASE i < call.at
        BY <1>1, <2>0, <3>1, <3>2, <3>4 DEF NobodyLost
      <3>5. CASE i >= call.at
        <4>1. i \in Ahead
          BY <3>1, <3>2, <3>5 DEF Ahead
        <4> QED
          BY <1>1, <2>0, <2>1, <3>1, <3>2, <4>1, NobodyAhead
      <3> QED
        BY <3>3, <3>4, <3>5
    <2> QED
      BY <2>2
  <1>2. IInv /\ [Next]_vars =>
          [call.pc = "loop" /\ call'.pc = "ok" /\ ~call.moved =>
              {e \in Entries : HasControl(e)} \subseteq call.wrote]_vars
    BY <1>1
  <1> QED
    BY <1>2, WritersInvariant, PTL DEF Spec, NoEntryPassedOver

-----------------------------------------------------------------------------
(* What a write leaves in the battery, for any schedules. *)

(* What a battery holds.                                                    *)
Battery == [sched : Holdable, mode : {"auto", "manual"}]

(* The types of what the writers share. *)
Typed ==
    /\ battery \in [Entries -> Battery]
    /\ clock \in [Entries -> Offsets \cup {None}] /\ applied \in [Entries -> Offsets \cup {None}]
    /\ wanted \in [Entries -> SUBSET WeekMinutes] /\ used \in [Entries -> SUBSET Offsets]

(* The type of the form.                                                    *)
FormTyped ==
    /\ form = [pc |-> form.pc, of |-> form.of, before |-> form.before, edited |-> form.edited]
    /\ form.pc \in {"closed", "open", "sent"}

(* A write leaves the battery a schedule that it can hold. *)
LEMMA WritesTyped ==
    ASSUME Typed, NEW e \in Entries, NEW real \in Schedules, NEW mode \in {"auto", "manual"},
           ~Refused(e, real), Writes(e, real, mode), clock' = clock
    PROVE  /\ Typed' /\ clock[e] \in Offsets /\ Crowded(Shift(real, clock[e])) = {}
           /\ battery'[e].sched = Held(Shift(real, clock[e]))
  <1>1. clock[e] \in Offsets /\ clock[e] \in Int /\ Crowded(Shift(real, clock[e])) = {}
    BY WritersFacts DEF Refused, Prepared, Typed
  <1>2. Held(Shift(real, clock[e])) \in Holdable
    BY <1>1, ShiftType, HeldType
  <1>3. Covered(real) \in SUBSET WeekMinutes
    BY CoveredType DEF WeekMinutes
  <1>4. battery' = [battery EXCEPT ![e] = [sched |-> Held(Shift(real, clock[e])), mode |-> mode]]
    BY DEF Writes, Prepared
  <1>5. [sched |-> Held(Shift(real, clock[e])), mode |-> mode] \in Battery
    BY <1>2 DEF Battery
  <1>6. battery' \in [Entries -> Battery] /\ battery'[e].sched = Held(Shift(real, clock[e]))
    BY <1>4, <1>5 DEF Typed
  <1>7. wanted' \in [Entries -> SUBSET WeekMinutes] /\ used' \in [Entries -> SUBSET Offsets]
    BY <1>1, <1>3 DEF Writes, Typed
  <1> QED
    BY <1>1, <1>6, <1>7 DEF Writes, Typed

(* So does a re-write when the clock moved. *)
LEMMA FollowsTyped ==
    ASSUME Typed, NEW e \in Entries, Follows(e)
    PROVE  /\ Typed' /\ clock[e] \in Offsets /\ applied[e] \in Offsets
           /\ ToReal(e) \in Schedules /\ Crowded(Shift(ToReal(e), clock[e])) = {}
           /\ battery'[e].sched = Held(Shift(ToReal(e), clock[e]))
  <1>1. clock[e] \in Offsets /\ applied[e] \in Offsets /\ Crowded(Shift(ToReal(e), clock[e])) = {}
    BY DEF Follows, Rewritten, Typed
  <1>2. battery[e] \in Battery /\ battery[e].sched \in Schedules
    BY WritersFacts DEF Typed, Battery
  <1>3. applied[e] \in Int /\ -applied[e] \in Int /\ clock[e] \in Int
    BY <1>1, WritersFacts
  <1>4. ToReal(e) \in Schedules
    BY <1>2, <1>3, ShiftType DEF ToReal
  <1>5. Held(Shift(ToReal(e), clock[e])) \in Holdable
    BY <1>3, <1>4, ShiftType, HeldType
  <1>6. battery' = [battery EXCEPT ![e].sched = Held(Shift(ToReal(e), clock[e]))]
    BY DEF Follows, Rewritten
  <1>7. battery' \in [Entries -> Battery] /\ battery'[e].sched = Held(Shift(ToReal(e), clock[e]))
    BY <1>2, <1>5, <1>6 DEF Typed, Battery
  <1>8. /\ applied' \in [Entries -> Offsets \cup {None}] /\ used' \in [Entries -> SUBSET Offsets]
        /\ UNCHANGED <<clock, wanted>>
    BY <1>1 DEF Follows, Typed, world
  <1> QED
    BY <1>1, <1>4, <1>7, <1>8 DEF Typed

(* The first sight of an offset writes nothing to the battery. *)
LEMMA AdoptsTyped ==
    ASSUME Typed, NEW e \in Entries, Adopts(e)
    PROVE  Typed'
  <1>1. clock[e] \in Offsets /\ -clock[e] \in Int
    <2>1. clock[e] \in Offsets
      BY DEF Adopts, Typed
    <2> QED
      BY <2>1, WritersFacts
  <1>2. Covered(battery[e].sched) \in SUBSET WeekMinutes
    <2>1. battery[e].sched \in Schedules
      BY WritersFacts DEF Typed, Battery
    <2> QED
      BY <2>1, CoveredType DEF WeekMinutes
  <1>3. Moved(Covered(battery[e].sched), -clock[e]) \in SUBSET WeekMinutes
    BY <1>1, <1>2, MovedType
  <1>4. wanted' \in [Entries -> SUBSET WeekMinutes]
    BY <1>3 DEF Adopts, Typed
  <1>5. applied' \in [Entries -> Offsets \cup {None}] /\ used' \in [Entries -> SUBSET Offsets]
        /\ UNCHANGED <<battery, clock>>
    BY <1>1 DEF Adopts, Typed, world
  <1> QED
    BY <1>4, <1>5 DEF Typed

-----------------------------------------------------------------------------
(* What the battery then runs. *)

(* RunsAsAsked for one entry, and that the offset noted for its schedule is  *)
(* one that the schedule has been through.                                   *)
Kept(e) ==
    applied[e] # None =>
        /\ applied[e] \in used[e]
        /\ RunsOn(used[e], battery[e].sched, applied[e], wanted[e])

KeptAll == \A e \in Entries : Kept(e)

(* RunsAsAsked says just that. *)
LEMMA KeptRuns == KeptAll => RunsAsAsked
  BY DEF KeptAll, Kept, RunsAsAsked, RunsOn, Plain, Clear, Whole, BeforeMidnight

(* After a write the battery runs what the schedule asks for. *)
LEMMA WritesKept ==
    ASSUME Typed, NEW e \in Entries, NEW real \in Schedules, NEW mode \in {"auto", "manual"},
           ~Refused(e, real), Writes(e, real, mode), clock' = clock
    PROVE  Kept(e)'
  <1> DEFINE o == clock[e]
  <1>1. /\ o \in Offsets /\ o \in Int /\ Crowded(Shift(real, o)) = {}
        /\ battery'[e].sched = Held(Shift(real, o))
    BY WritesTyped, WritersFacts
  <1>2. applied'[e] = o /\ wanted'[e] = Covered(real) /\ used'[e] = {o}
    BY DEF Writes, Typed
  <1> HIDE DEF o
  <1>3. RunsOn({o}, Held(Shift(real, o)), o, Covered(real))
    BY <1>1, WrittenRuns
  <1> QED
    BY <1>1, <1>2, <1>3 DEF Kept

(* After a re-write it runs what it ran. *)
LEMMA FollowsKept ==
    ASSUME Typed, NEW e \in Entries, Kept(e), Follows(e)
    PROVE  Kept(e)'
  <1> DEFINE o == clock[e]
             was == applied[e]
             x == battery[e].sched
             real == ToReal(e)
  <1>1. /\ o \in Offsets /\ was \in Offsets /\ o \in Int /\ was \in Int /\ was # None
        /\ real \in Schedules /\ Crowded(Shift(real, o)) = {}
        /\ battery'[e].sched = Held(Shift(real, o))
    BY FollowsTyped, WritersFacts
  <1>2. applied'[e] = o /\ wanted' = wanted /\ used'[e] = used[e] \cup {o}
    BY DEF Follows, Typed
  <1>3. x \in Schedules /\ wanted[e] \in SUBSET WeekMinutes
    BY WritersFacts DEF Typed, Battery
  <1>4. real = IF was = 0 THEN x ELSE Shift(x, -was)
    BY <1>1 DEF ToReal
  <1>5. was \in used[e] /\ RunsOn(used[e], x, was, wanted[e])
    BY <1>1 DEF Kept
  <1> HIDE DEF o, was, x, real
  <1>6. RunsOn(used[e] \cup {o}, Held(Shift(real, o)), o, wanted[e])
    BY <1>1, <1>3, <1>4, <1>5, RewrittenRuns
  <1> QED
    BY <1>1, <1>2, <1>6 DEF Kept

(* An adopted schedule is taken to be what the battery was asked to run. *)
LEMMA AdoptsKept ==
    ASSUME Typed, NEW e \in Entries, Adopts(e)
    PROVE  Kept(e)'
  <1>1. /\ applied'[e] = clock[e] /\ used'[e] = {clock[e]} /\ battery' = battery
        /\ wanted'[e] = Moved(Covered(battery[e].sched), -clock[e])
    BY DEF Adopts, Typed
  <1> QED
    BY <1>1 DEF Kept, RunsOn

(* The other entries keep what they have. *)
LEMMA OthersKept ==
    ASSUME Typed, NEW e \in Entries,
           Adopts(e) \/ Follows(e) \/ \E real, mode : Writes(e, real, mode),
           NEW f \in Entries, f # e, Kept(f)
    PROVE  Kept(f)'
  <1>1. /\ battery'[f] = battery[f] /\ applied'[f] = applied[f]
        /\ wanted'[f] = wanted[f] /\ used'[f] = used[f]
    <2>1. CASE Adopts(e)
      BY <2>1 DEF Adopts, Typed
    <2>2. CASE Follows(e)
      BY <2>2 DEF Follows, Typed
    <2>3. CASE \E real, mode : Writes(e, real, mode)
      BY <2>3 DEF Writes, Typed
    <2> QED
      BY <2>1, <2>2, <2>3
  <1> QED
    BY <1>1 DEF Kept

-----------------------------------------------------------------------------

(* A frame with a mode leaves the schedule alone. *)
LEMMA ModeOnly ==
    ASSUME Typed, NEW e, NEW mode \in {"auto", "manual"},
           battery' = [battery EXCEPT ![e].mode = mode]
    PROVE  /\ battery' \in [Entries -> Battery]
           /\ \A f \in Entries : battery'[f].sched = battery[f].sched
  BY DEF Typed, Battery

(* Every step is a write, a re-write, a first sight, or touches no schedule. *)
LEMMA StepKinds ==
    ASSUME Typed, [Next]_vars
    PROVE  \/ \E e \in Entries : Adopts(e) \/ Follows(e)
           \/ \E i \in DOMAIN table : CallWrites(i)
           \/ \E f \in Edits, mode \in {"auto", "manual"} : SavesSchedule(f, mode)
           \/ /\ UNCHANGED <<applied, wanted, used>> /\ battery' \in [Entries -> Battery]
              /\ clock' \in [Entries -> Offsets \cup {None}]
              /\ \A e \in Entries : battery'[e].sched = battery[e].sched
  <1> DEFINE Quiet == /\ UNCHANGED <<applied, wanted, used>> /\ battery' \in [Entries -> Battery]
                      /\ clock' \in [Entries -> Offsets \cup {None}]
                      /\ \A e \in Entries : battery'[e].sched = battery[e].sched
  <1>0. battery \in [Entries -> Battery] /\ clock \in [Entries -> Offsets \cup {None}]
    BY DEF Typed
  <1>1. CASE UNCHANGED <<applied, wanted, used, battery, clock>>
    <2>1. Quiet
      BY <1>0, <1>1
    <2> QED
      BY <2>1
  <1>2. ASSUME NEW e \in Entries, NEW c \in Offsets \cup {None}, ClockReads(e, c) PROVE Quiet
    BY <1>0, <1>2 DEF ClockReads, ghosts
  <1>3. ASSUME NEW f \in Edits \cup {form.before}, NEW mode \in {"auto", "manual"},
               SavesMode(f, mode) \/ HalfSaved(f, mode)
        PROVE  Quiet
    <2>1. battery' = [battery EXCEPT ![form.of].mode = mode]
      BY <1>3 DEF SavesMode, HalfSaved
    <2>2. UNCHANGED <<applied, wanted, used, clock>>
      BY <1>3 DEF SavesMode, HalfSaved, world, ghosts
    <2> QED
      BY <1>0, <2>1, <2>2, ModeOnly
  <1>4. ASSUME NEW f \in Edits \cup {form.before}, NEW mode \in {"auto", "manual"}, SavesSchedule(f, mode)
        PROVE  f \in Edits
    BY <1>4 DEF SavesSchedule, Differs
  <1>6. \/ UNCHANGED <<applied, wanted, used, battery, clock>>
        \/ \E i \in DOMAIN table : CallWrites(i)
        \/ \E e \in Entries : Adopts(e) \/ Follows(e)
                              \/ \E c \in Offsets \cup {None} : ClockReads(e, c)
        \/ \E f \in Edits \cup {form.before}, mode \in {"auto", "manual"} :
              SavesMode(f, mode) \/ SavesSchedule(f, mode) \/ HalfSaved(f, mode)
    BY DEF Next, CallBegins, CallFails, CallEnds, CallReturns, FormOpens, FormCloses,
           Loads, SetUp, SetupFails, Unloads, Unloaded, world, ghosts, vars
  <1> HIDE DEF Quiet
  <1>7. \/ \E e \in Entries : Adopts(e) \/ Follows(e)
        \/ \E i \in DOMAIN table : CallWrites(i)
        \/ \E f \in Edits, mode \in {"auto", "manual"} : SavesSchedule(f, mode)
        \/ Quiet
        \/ UNCHANGED <<applied, wanted, used, battery, clock>>
    BY <1>2, <1>3, <1>4, <1>6
  <1> QED
    BY <1>1, <1>7 DEF Quiet

-----------------------------------------------------------------------------
(* From step to step. *)

(* The types and what every battery runs, from step to step. *)
LEMMA KeptNext ==
    ASSUME Shape, Typed, KeptAll, [Next]_vars
    PROVE  Typed' /\ KeptAll'
  <1>1. ASSUME NEW e \in Entries, Adopts(e) \/ Follows(e) PROVE Typed' /\ KeptAll'
    <2>1. Typed'
      BY <1>1, AdoptsTyped, FollowsTyped
    <2>2. \A f \in Entries : Kept(f)'
      <3> TAKE f \in Entries
      <3>1. CASE f = e
        BY <1>1, <3>1, AdoptsKept, FollowsKept DEF KeptAll
      <3>2. CASE f # e
        BY <1>1, <3>2, OthersKept DEF KeptAll
      <3> QED
        BY <3>1, <3>2
    <2> QED
      BY <2>1, <2>2 DEF KeptAll
  <1>2. ASSUME NEW e \in Entries, NEW real \in Schedules, NEW mode \in {"auto", "manual"},
               ~Refused(e, real), Writes(e, real, mode), clock' = clock
        PROVE  Typed' /\ KeptAll'
    <2>1. Typed' /\ Kept(e)'
      BY <1>2, WritesTyped, WritesKept
    <2>2. \A f \in Entries : f # e => Kept(f)'
      BY <1>2, OthersKept DEF KeptAll
    <2> QED
      BY <2>1, <2>2 DEF KeptAll
  <1>3. ASSUME NEW i \in DOMAIN table, CallWrites(i) PROVE Typed' /\ KeptAll'
    <2>1. /\ ~Refused(table[i], call.ask) /\ Writes(table[i], call.ask, battery[table[i]].mode)
          /\ clock' = clock
      BY <1>3 DEF CallWrites, world
    <2>2. table[i] \in Entries
      BY <1>3, CallMoves
    <2>3. call.ask \in Schedules /\ battery[table[i]].mode \in {"auto", "manual"}
      BY <2>2 DEF Shape, Calls, Typed, Battery
    <2> QED
      BY <1>2, <2>1, <2>2, <2>3
  <1>4. ASSUME NEW f \in Edits, NEW mode \in {"auto", "manual"}, SavesSchedule(f, mode)
        PROVE  Typed' /\ KeptAll'
    <2>1. /\ ~Refused(form.of, FromForm(f)) /\ Writes(form.of, FromForm(f), mode) /\ clock' = clock
          /\ HasControl(form.of)
      BY <1>4 DEF SavesSchedule, Sent, world
    <2>2. form.of \in Entries
      BY <2>1, WritersFacts DEF HasControl
    <2>3. FromForm(f) \in Schedules
      BY WritersAssumption, FromFormType DEF FormWindow
    <2> QED
      BY <1>2, <2>1, <2>2, <2>3
  <1>5. ASSUME UNCHANGED <<applied, wanted, used>>, battery' \in [Entries -> Battery],
               clock' \in [Entries -> Offsets \cup {None}],
               \A e \in Entries : battery'[e].sched = battery[e].sched
        PROVE  Typed' /\ KeptAll'
    <2>1. Typed'
      BY <1>5 DEF Typed
    <2>2. ASSUME NEW e \in Entries PROVE Kept(e)'
      BY <1>5 DEF KeptAll, Kept
    <2> QED
      BY <2>1, <2>2 DEF KeptAll
  <1> QED
    BY <1>1, <1>3, <1>4, <1>5, StepKinds

(* What a step does to the form.                                            *)
LEMMA FormNext ==
    ASSUME FormTyped, [Next]_vars
    PROVE  /\ FormTyped'
           /\ form'.pc = "sent" /\ form.pc # "sent" =>
                 \E f \in Edits \cup {form.before}, mode \in {"auto", "manual"} :
                    /\ SavesMode(f, mode) \/ SavesSchedule(f, mode)
                    /\ form'.edited = (f # form.before)
  <1>0. /\ form = [pc |-> form.pc, of |-> form.of, before |-> form.before, edited |-> form.edited]
        /\ form.pc \in {"closed", "open", "sent"}
    BY DEF FormTyped
  <1>1. CASE UNCHANGED form
    BY <1>0, <1>1 DEF FormTyped
  <1>2. ASSUME NEW f \in Edits \cup {form.before}, NEW mode \in {"auto", "manual"},
               SavesMode(f, mode) \/ SavesSchedule(f, mode)
        PROVE  FormTyped' /\ form'.edited = (f # form.before)
    <2>1. form' = [pc |-> "sent", of |-> form.of, before |-> form.before, edited |-> (f # form.before)]
      <3>1. form' = [form EXCEPT !.pc = "sent", !.edited = (f # form.before)]
        BY <1>2 DEF SavesMode, SavesSchedule, Sent
      <3> QED
        BY <1>0, <3>1
    <2> QED
      BY <2>1 DEF FormTyped
  <1>3. ASSUME NEW e \in Entries, FormOpens(e) PROVE FormTyped' /\ form'.pc = "open"
    BY <1>3 DEF FormOpens, FormTyped
  <1>4. CASE FormCloses
    BY <1>4 DEF FormCloses, NoForm, FormTyped
  <1>5. FormCloses => form'.pc = "closed"
    BY DEF FormCloses, NoForm
  <1>6. \/ UNCHANGED form
        \/ \E f \in Edits \cup {form.before}, mode \in {"auto", "manual"} :
              SavesMode(f, mode) \/ SavesSchedule(f, mode)
        \/ \E e \in Entries : FormOpens(e)
        \/ FormCloses
    BY DEF Next, Adopts, Follows, ClockReads, CallBegins, CallWrites, CallFails, CallEnds,
           CallReturns, HalfSaved, Loads, SetUp, SetupFails, Unloads, Unloaded, world, vars
  <1> QED
    BY <1>1, <1>2, <1>3, <1>4, <1>5, <1>6

EventsTyped == service \in BOOLEAN /\ events \in 0..MaxEvents

(* The service is there or not, and events are counted to their bound.      *)
LEMMA EventsNext ==
    ASSUME EventsTyped, [Next]_vars
    PROVE  EventsTyped'
  <1>1. service' \in BOOLEAN
    <2>1. service \in BOOLEAN
      BY DEF EventsTyped
    <2>2. \/ service' = service
          \/ \E e \in Entries : SetUp(e) \/ Unloaded(e)
      BY DEF Next, Adopts, Follows, ClockReads, CallBegins, CallWrites, CallFails, CallEnds,
             CallReturns, SavesMode, SavesSchedule, HalfSaved, FormOpens, FormCloses, Loads, SetupFails, Unloads,
             Sent, world, vars
    <2> QED
      BY <2>1, <2>2 DEF SetUp, Unloaded
  <1>2. events' \in 0..MaxEvents
    <2>1. events' = events \/ Event
      BY DEF Next, Adopts, Follows, ClockReads, CallBegins, CallWrites, CallFails, CallEnds,
             CallReturns, SavesMode, SavesSchedule, HalfSaved, FormOpens, FormCloses, Loads, SetUp,
             SetupFails, Unloads, Unloaded, vars
    <2> QED
      BY <2>1, WritersAssumption DEF EventsTyped, Event
  <1> QED
    BY <1>1, <1>2 DEF EventsTyped

-----------------------------------------------------------------------------
(* The theorems. *)

(* What holds of the schedules in every state.                              *)
RunInv == Typed /\ FormTyped /\ EventsTyped /\ KeptAll

(* What the writers share keeps its types, and every battery runs what it   *)
(* was asked to, in every behaviour.                                        *)
THEOREM RunInvariant == Spec => []RunInv
  <1>1. Init => RunInv
    <2> SUFFICES ASSUME Init PROVE RunInv
      OBVIOUS
    <2>1. Typed
      <3>1. battery \in [Entries -> Battery]
        BY WritersFacts DEF Init, Battery
      <3>2. clock \in [Entries -> Offsets \cup {None}] /\ applied \in [Entries -> Offsets \cup {None}]
        BY DEF Init
      <3>3. wanted \in [Entries -> SUBSET WeekMinutes] /\ used \in [Entries -> SUBSET Offsets]
        BY DEF Init
      <3> QED
        BY <3>1, <3>2, <3>3 DEF Typed
    <2>2. FormTyped /\ EventsTyped
      <3>1. FormTyped
        BY DEF Init, NoForm, FormTyped
      <3>2. EventsTyped
        BY WritersAssumption DEF Init, EventsTyped
      <3> QED
        BY <3>1, <3>2
    <2>3. KeptAll
      BY DEF Init, KeptAll, Kept
    <2> QED
      BY <2>1, <2>2, <2>3 DEF RunInv
  <1>2. RunInv /\ IInv /\ [Next]_vars => RunInv'
    <2> SUFFICES ASSUME RunInv, IInv, [Next]_vars PROVE RunInv'
      OBVIOUS
    <2>1. Shape /\ Typed /\ FormTyped /\ EventsTyped /\ KeptAll
      BY DEF RunInv, IInv
    <2> QED
      BY <2>1, KeptNext, FormNext, EventsNext DEF RunInv
  <1> QED
    BY <1>1, <1>2, WritersInvariant, PTL DEF Spec

(* Every variable keeps its type; no battery is ever sent more windows a    *)
(* day than its registers have, nor a minute they can't say (control.py).   *)
THEOREM WritersTyped == Spec => []TypeOK
  <1>1. ASSUME IInv, RunInv PROVE TypeOK
    <2>1. phase \in [Entries -> {"out", "in", "up", "leaving"}] /\ service \in BOOLEAN
          /\ events \in 0..MaxEvents
      BY <1>1 DEF IInv, Shape, Phases, RunInv, EventsTyped
    <2>2. /\ call.pc \in {"idle", "loop", "ok", "error"} /\ form.pc \in {"closed", "open", "sent"}
          /\ call.wrote \subseteq Entries /\ call.at \in Nat \ {0} /\ call.due \in Nat
          /\ call.size \in Nat /\ call.moved \in BOOLEAN
      BY <1>1 DEF IInv, Shape, Calls, RunInv, FormTyped
    <2>4. table \in Seq(Entries \cup {None}) /\ \A e \in Entries : InData(e) <=> e \in ToSet(table)
      BY <1>1 DEF IInv, Shape, Slot, Listed, ToSet
    <2>3. ASSUME NEW e \in Entries
          PROVE  /\ \A d \in Week :
                       /\ Len(battery[e].sched[d]) <= MaxWindows
                       /\ \A w \in ToSet(battery[e].sched[d]) : w.s \in Minutes /\ w.e \in Minutes
                 /\ clock[e] \in Offsets \cup {None} /\ applied[e] \in Offsets \cup {None}
      <3>1. battery[e].sched \in Holdable
        BY <1>1 DEF RunInv, Typed, Battery
      <3>2. ASSUME NEW d \in Week, NEW w \in ToSet(battery[e].sched[d])
            PROVE  w.s \in Minutes /\ w.e \in Minutes
        <4>1. battery[e].sched[d] \in Seq(Window)
          BY <3>1 DEF Holdable, Schedules
        <4>2. w \in Window
          BY <4>1, LenProperties DEF ToSet
        <4> QED
          BY <4>2 DEF Window, Minutes
      <3>3. clock[e] \in Offsets \cup {None} /\ applied[e] \in Offsets \cup {None}
        BY <1>1 DEF RunInv, Typed
      <3> QED
        BY <3>1, <3>2, <3>3 DEF Holdable
    <2> QED
      BY <2>1, <2>2, <2>3, <2>4 DEF TypeOK
  <1> QED
    BY <1>1, RunInvariant, WritersInvariant, PTL

(* Whatever is written and by whom, for any schedules, clocks and number of  *)
(* changes of them, each battery runs just the minutes it was last asked     *)
(* to (timeshift.py, and ControlCoordinator's prepare_write and              *)
(* _follow_clock).                                                           *)
THEOREM BatteriesRunAsAsked == Spec => []RunsAsAsked
  <1>1. RunInv => RunsAsAsked
    BY KeptRuns DEF RunInv
  <1> QED
    BY <1>1, RunInvariant, PTL

(* A form that is sent as it was opened never touches a schedule, whatever   *)
(* it could show of it (config_flow.py, async_step_schedule).                *)
THEOREM ModeAlone == Spec => ModeAloneKeepsSchedule
  <1>1. ASSUME RunInv, [Next]_vars, form.pc = "open", form'.pc = "sent", ~form'.edited
        PROVE  \A e \in Entries : battery'[e].sched = battery[e].sched
    <2>1. Typed /\ FormTyped
      BY <1>1 DEF RunInv
    <2>2. PICK f \in Edits \cup {form.before}, mode \in {"auto", "manual"} :
             /\ SavesMode(f, mode) \/ SavesSchedule(f, mode)
             /\ form'.edited = (f # form.before)
      BY <1>1, <2>1, FormNext
    <2>3. f = form.before
      BY <1>1, <2>2
    <2>4. ~SavesSchedule(f, mode)
      BY <2>3 DEF SavesSchedule, Differs
    <2>5. battery' = [battery EXCEPT ![form.of].mode = mode]
      BY <2>2, <2>4 DEF SavesMode
    <2> QED
      BY <2>1, <2>5, ModeOnly
  <1>2. RunInv /\ [Next]_vars =>
          [form.pc = "open" /\ form'.pc = "sent" /\ ~form'.edited =>
              \A e \in Entries : battery'[e].sched = battery[e].sched]_vars
    BY <1>1
  <1> QED
    BY <1>2, RunInvariant, PTL DEF Spec, ModeAloneKeepsSchedule

=============================================================================
