--------------------------- MODULE ReadingsProofs ---------------------------
(* Proofs about Readings: the daily total, for every length of the day,      *)
(* every order of readings, stops, crashes and midnights, and any amounts;   *)
(* and the offset estimate, for every window, every number of samples it     *)
(* needs and every age a reading may have.                                   *)
EXTENDS Readings, NumberFacts, SequenceTheorems, FiniteSetTheorems, TLAPS

(* What two readings of the counter, one taken after the other, can be. *)
Later(a, b) ==
    /\ a.energy <= b.energy /\ a.zeroed <= b.zeroed
    /\ a.zeroed = b.zeroed => b.count - a.count = b.energy - a.energy
    /\ a.zeroed < b.zeroed => b.count <= b.energy - a.energy

(* The sum says what was metered over the span, however often it was zeroed. *)
Measured(sum, span) ==
    /\ sum <= span.last.energy - span.first.energy
    /\ span.last.zeroed = span.first.zeroed => sum = span.last.energy - span.first.energy

(* An accumulator that has heard nothing, or readings up to one before `meter`. *)
Sound(sum, last, span, meter) ==
    /\ sum \in Nat /\ span \in Span
    /\ \/ sum = 0 /\ last = None /\ span.last = None /\ span.first = None
       \/ /\ span.first \in Meter /\ span.last \in Meter
          /\ last = span.last.count
          /\ Later(span.first, span.last) /\ Later(span.last, meter)
          /\ Measured(sum, span)

(* What the daily sum keeps over a restart.                                   *)
Stored == [total : Nat, last : Nat \cup {None}, seen : Span]

(* The daily sum and what is stored of it are of readings heard.              *)
IInv ==
    /\ day \in Nat /\ battery \in Meter /\ held.meter \in Meter
    /\ Later(held.meter, battery)
    /\ Sound(total, lastSource, seen, held.meter)
    /\ saved # None =>
          saved \in Stored /\ Sound(saved.total, saved.last, saved.seen, held.meter)
-----------------------------------------------------------------------------
(* A reading is later than itself. *)
LEMMA LaterSelf == ASSUME NEW a \in Meter PROVE Later(a, a)
  BY DEF Later, Meter

(* What comes after a later reading is later. *)
LEMMA LaterStill ==
    ASSUME NEW a \in Meter, NEW b \in Meter, NEW c \in Meter, Later(a, b), Later(b, c)
    PROVE  Later(a, c)
  BY DEF Later, Meter

(* Metering and zeroing make later readings. *)
LEMMA LaterMetered ==
    ASSUME NEW m \in Meter
    PROVE  /\ Metered(m) \in Meter /\ Later(m, Metered(m))
           /\ Emptied(m) \in Meter /\ Later(m, Emptied(m))
  BY DEF Later, Meter, Metered, Emptied

(* An accumulator stays sound when the gateway reads again. *)
LEMMA SoundLater ==
    ASSUME NEW sum, NEW last, NEW span, NEW m \in Meter, NEW n \in Meter,
           Sound(sum, last, span, m), Later(m, n)
    PROVE  Sound(sum, last, span, n)
  <1>1. CASE span.last = None /\ last = None /\ span.first = None /\ sum = 0
    BY <1>1 DEF Sound
  <1>2. CASE span.last \in Meter /\ Later(span.last, m)
    <2>1. Later(span.last, n)
      BY <1>2, LaterStill
    <2> QED
      BY <2>1, <1>2 DEF Sound
  <1> QED
    BY <1>1, <1>2 DEF Sound

(* One rise measures what was metered between two readings, or less of it    *)
(* when the counter was zeroed in between.                                   *)
LEMMA RiseMeasures ==
    ASSUME NEW a \in Meter, NEW b \in Meter, Later(a, b)
    PROVE  /\ Rise(a.count, b.count) \in Nat
           /\ Rise(a.count, b.count) <= b.energy - a.energy
           /\ a.zeroed = b.zeroed => Rise(a.count, b.count) = b.energy - a.energy
  BY DEF Rise, Later, Meter

(* update(source) keeps an accumulator sound. *)
LEMMA FoldSound ==
    ASSUME NEW sum, NEW last, NEW span, NEW source \in Source,
           held.meter \in Meter, Sound(sum, last, span, held.meter)
    PROVE  LET acc == Folded(sum, last, source)
           IN Sound(acc.total, acc.last, Spanning(span, source), held.meter)
  <1> DEFINE m == held.meter
  <1>0. None \notin Int /\ None \notin Meter
    BY ReadingsAssumption
  <1>1. CASE source = None
    BY <1>1 DEF Folded, Spanning
  <1>2. CASE source # None
    <2>1. source = m.count /\ m.count \in Nat
      BY <1>2 DEF Source, Meter
    <2>2. CASE last = None /\ span.last = None /\ sum = 0
      <3>1. Folded(sum, last, source) = [total |-> 0, last |-> m.count]
        BY <1>2, <2>1, <2>2 DEF Folded
      <3>2. Spanning(span, source) = [span EXCEPT !.first = m, !.last = m]
        BY <1>2, <2>2 DEF Spanning
      <3>3. [span EXCEPT !.first = m, !.last = m] \in Span
        BY DEF Sound, Span
      <3>4. Later(m, m)
        BY LaterSelf
      <3>5. /\ [span EXCEPT !.first = m, !.last = m].first = m
            /\ [span EXCEPT !.first = m, !.last = m].last = m
        BY DEF Sound, Span
      <3>6. Measured(0, [span EXCEPT !.first = m, !.last = m])
        BY <3>5 DEF Measured, Meter
      <3> QED
        BY <3>1, <3>2, <3>3, <3>4, <3>5, <3>6 DEF Sound
    <2>3. CASE /\ span.first \in Meter /\ span.last \in Meter
               /\ last = span.last.count
               /\ Later(span.first, span.last) /\ Later(span.last, m)
               /\ Measured(sum, span)
      <3> DEFINE step == Rise(span.last.count, m.count)
                 grown == [span EXCEPT !.last = m]
      <3>0. last # None /\ span.last # None
        BY <1>0, <2>3 DEF Meter
      <3>1. Folded(sum, last, source) = [total |-> sum + step, last |-> m.count]
        BY <1>2, <2>1, <2>3, <3>0 DEF Folded
      <3>2. Spanning(span, source) = grown
        BY <1>2, <3>0 DEF Spanning
      <3>3. /\ step \in Nat /\ step <= m.energy - span.last.energy
            /\ span.last.zeroed = m.zeroed => step = m.energy - span.last.energy
        BY <2>3, RiseMeasures
      <3>4. grown \in Span /\ grown.first = span.first /\ grown.last = m
        BY DEF Sound, Span
      <3>5. Later(span.first, m)
        BY <2>3, LaterStill
      <3>6. sum \in Nat
        BY DEF Sound
      <3>7. Measured(sum + step, grown)
        <4> HIDE DEF step
        <4>1. sum + step <= m.energy - span.first.energy
          BY <2>3, <3>3, <3>6 DEF Measured, Meter
        <4>2. ASSUME m.zeroed = span.first.zeroed
              PROVE  sum + step = m.energy - span.first.energy
          <5>1. span.last.zeroed = m.zeroed /\ span.last.zeroed = span.first.zeroed
            BY <2>3, <4>2 DEF Later, Meter
          <5> QED
            BY <2>3, <3>3, <3>6, <5>1 DEF Measured, Meter
        <4> QED
          BY <3>4, <4>1, <4>2 DEF Measured
      <3>8. Later(m, m)
        BY LaterSelf
      <3> QED
        <4> HIDE DEF step, grown
        <4> QED
          BY <2>3, <3>1, <3>2, <3>3, <3>4, <3>5, <3>6, <3>7, <3>8 DEF Sound
    <2> QED
      BY <2>2, <2>3 DEF Sound
  <1> QED
    BY <1>1, <1>2

(* A new accumulator is sound. *)
LEMMA NewSound ==
    ASSUME NEW today \in Nat, NEW m \in Meter
    PROVE  Sound(0, None, NothingSeen(today), m)
  BY DEF Sound, NothingSeen, Span
-----------------------------------------------------------------------------
(* The invariant holds before the entry is first set up. *)
LEMMA TotalInit == Init => IInv
  <1> SUFFICES ASSUME Init PROVE IInv
    OBVIOUS
  <1>1. battery \in Meter /\ held.meter = battery /\ day \in Nat
    BY DEF Init, ReadingNow, Meter
  <1>2. Later(held.meter, battery)
    BY <1>1, LaterSelf
  <1>3. Sound(total, lastSource, seen, held.meter)
    BY <1>1, NewSound DEF Init, NewAccumulator
  <1> QED
    BY <1>1, <1>2, <1>3 DEF Init, IInv

(* The battery and the clocks leave the sum alone. *)
LEMMA TotalWorld ==
    ASSUME IInv, Tick \/ Meters \/ Zeroed \/ ClockSet \/ ZoneChanges
    PROVE  IInv'
  <1>1. /\ held' = held /\ total' = total /\ lastSource' = lastSource
        /\ seen' = seen /\ saved' = saved
    BY DEF Tick, Meters, Zeroed, ClockSet, ZoneChanges, homeVars, dailyVars
  <1>2. day' \in Nat
    BY DEF IInv, Tick, Meters, Zeroed, ClockSet, ZoneChanges, worldVars
  <1>3. battery' \in {battery, Metered(battery), Emptied(battery)}
    BY DEF Tick, Meters, Zeroed, ClockSet, ZoneChanges
  <1>4. battery' \in Meter /\ Later(battery, battery')
    BY <1>3, LaterSelf, LaterMetered DEF IInv
  <1>5. Later(held.meter, battery')
    BY <1>4, LaterStill DEF IInv
  <1> QED
    BY <1>1, <1>2, <1>4, <1>5 DEF IInv, Sound

(* A new reading at the gateway is later than every one the sum spans. *)
LEMMA TotalGateway ==
    ASSUME IInv, GatewayReads
    PROVE  IInv'
  <1>1. held'.meter = battery /\ Later(held.meter, battery)
    BY DEF GatewayReads, ReadingNow, IInv
  <1>2. /\ battery' = battery /\ day' = day /\ total' = total /\ lastSource' = lastSource
        /\ seen' = seen /\ saved' = saved
    BY DEF GatewayReads, worldVars, homeVars, dailyVars
  <1>3. Sound(total, lastSource, seen, battery)
    BY <1>1, SoundLater DEF IInv
  <1>4. saved # None => Sound(saved.total, saved.last, saved.seen, battery)
    BY <1>1, SoundLater DEF IInv
  <1>5. Later(battery, battery)
    BY LaterSelf DEF IInv
  <1>6. /\ day' \in Nat /\ battery' \in Meter /\ held'.meter \in Meter
        /\ Later(held'.meter, battery')
    BY <1>1, <1>2, <1>5 DEF IInv
  <1>7. Sound(total', lastSource', seen', held'.meter)
    BY <1>1, <1>2, <1>3
  <1>8. saved' # None =>
          saved' \in Stored /\ Sound(saved'.total, saved'.last, saved'.seen, held'.meter)
    BY <1>1, <1>2, <1>4 DEF IInv
  <1> QED
    BY <1>6, <1>7, <1>8 DEF IInv, Sound

(* A coordinator update. *)
LEMMA TotalHear ==
    ASSUME IInv, NEW source \in Source, Hear(source)
    PROVE  IInv'
  <1>1. /\ total' = Folded(total, lastSource, source).total
        /\ lastSource' = Folded(total, lastSource, source).last
        /\ seen' = Spanning(seen, source)
    BY DEF Hear, Update, Becomes
  <1>2. /\ day' = day /\ battery' = battery /\ held' = held /\ saved' = saved
    BY DEF Hear, worldVars
  <1>3. Sound(total', lastSource', seen', held.meter)
    BY <1>1, FoldSound DEF IInv
  <1> QED
    BY <1>2, <1>3 DEF IInv, Sound

(* The local midnight: the sum and its span start again at the last reading. *)
LEMMA TotalMidnight ==
    ASSUME IInv, Midnight
    PROVE  IInv'
  <1>1. /\ total' = 0 /\ lastSource' = lastSource
        /\ seen' = [seen EXCEPT !.first = seen.last, !.day = day]
    BY DEF Midnight, Reset
  <1>2. /\ day' = day /\ battery' = battery /\ held' = held /\ saved' = saved
    BY DEF Midnight, worldVars
  <1>3. seen \in Span /\ day \in Nat
    BY DEF IInv, Sound
  <1>4. seen' \in Span /\ seen'.first = seen.last /\ seen'.last = seen.last
    BY <1>1, <1>3 DEF Span
  <1>5. CASE lastSource = None /\ seen.last = None
    BY <1>1, <1>2, <1>4, <1>5 DEF IInv, Sound
  <1>6. CASE /\ seen.last \in Meter /\ lastSource = seen.last.count
             /\ Later(seen.last, held.meter)
    <2>1. Later(seen.last, seen.last)
      BY <1>6, LaterSelf
    <2>2. Measured(0, seen')
      BY <1>4, <1>6 DEF Measured, Meter
    <2>3. Sound(total', lastSource', seen', held.meter)
      BY <1>1, <1>4, <1>6, <2>1, <2>2 DEF Sound
    <2> QED
      BY <1>2, <2>3 DEF IInv, Sound
  <1> QED
    BY <1>5, <1>6 DEF IInv, Sound

(* Saving, stopping and crashing: what is stored was sound when stored. *)
LEMMA TotalStops ==
    ASSUME IInv, Saves \/ Stops \/ Crashes
    PROVE  IInv'
  <1>1. /\ day' = day /\ battery' = battery /\ held' = held
    BY DEF Saves, Stops, Crashes, Gone, worldVars
  <1>2. \/ total' = total /\ lastSource' = lastSource /\ seen' = seen
        \/ total' = 0 /\ lastSource' = None /\ seen' = NothingSeen(day)
    BY DEF Saves, Stops, Crashes, Gone, dailyVars
  <1>3. Sound(total', lastSource', seen', held.meter)
    BY <1>2, NewSound DEF IInv
  <1>4. saved' = saved \/ saved' = Extra
    BY DEF Saves, Stops, Crashes
  <1>5. Extra \in Stored
    BY DEF IInv, Sound, Extra, Stored, Meter
  <1>6. saved' # None =>
          saved' \in Stored /\ Sound(saved'.total, saved'.last, saved'.seen, held.meter)
    BY <1>4, <1>5 DEF IInv, Extra
  <1> QED
    BY <1>1, <1>3, <1>6 DEF IInv, Sound

(* Setup restores a sound sum, or begins one. *)
LEMMA TotalStarts ==
    ASSUME IInv, NEW source \in Source, Starts(source)
    PROVE  IInv'
  <1>1. /\ day' = day /\ battery' = battery /\ held' = held /\ saved' = saved
    BY DEF Starts, worldVars
  <1>2. CASE saved = None
    <2>1. /\ total' = Folded(0, None, source).total /\ lastSource' = Folded(0, None, source).last
          /\ seen' = Spanning(NothingSeen(day), source)
      BY <1>2 DEF Starts, Restore, Becomes
    <2>2. Sound(0, None, NothingSeen(day), held.meter)
      BY NewSound DEF IInv
    <2>3. Sound(total', lastSource', seen', held.meter)
      BY <2>1, <2>2, FoldSound DEF IInv
    <2> QED
      BY <1>1, <2>3 DEF IInv, Sound
  <1>3. CASE saved # None
    <2>1. /\ total' = Folded(saved.total, saved.last, source).total
          /\ lastSource' = Folded(saved.total, saved.last, source).last
          /\ seen' = Spanning(saved.seen, source)
      BY <1>3 DEF Starts, Restore, Becomes
    <2>2. Sound(total', lastSource', seen', held.meter)
      BY <1>3, <2>1, FoldSound DEF IInv
    <2> QED
      BY <1>1, <2>2 DEF IInv, Sound
  <1> QED
    BY <1>2, <1>3

(* Every step keeps the invariant. *)
LEMMA TotalNext == IInv /\ [Next]_vars => IInv'
  <1> SUFFICES ASSUME IInv, [Next]_vars PROVE IInv'
    OBVIOUS
  <1>1. CASE Tick \/ Meters \/ Zeroed \/ ClockSet \/ ZoneChanges
    BY <1>1, TotalWorld
  <1>2. CASE GatewayReads
    BY <1>2, TotalGateway
  <1>3. CASE \E source \in Source : Hear(source) \/ Starts(source)
    BY <1>3, TotalHear, TotalStarts
  <1>4. CASE Midnight
    BY <1>4, TotalMidnight
  <1>5. CASE Saves \/ Stops \/ Crashes
    BY <1>5, TotalStops
  <1>6. CASE UNCHANGED vars
    BY <1>6 DEF vars, worldVars, homeVars, dailyVars, IInv, Sound
  <1> QED
    BY <1>1, <1>2, <1>3, <1>4, <1>5, <1>6 DEF Next

(* The daily total is what was metered between the readings it spans, and    *)
(* never more, whatever restarts, crashes and midnights lie between them     *)
(* (sensor.py's HomepowerLocalDailySensor, daily_reset.py).                  *)
THEOREM TotalsAreTrue == Spec => []TotalIsTrue
  <1>1. IInv => TotalIsTrue
    <2> SUFFICES ASSUME IInv, seen.last # None
                 PROVE  /\ total <= seen.last.energy - seen.first.energy
                        /\ seen.last.zeroed = seen.first.zeroed =>
                              total = seen.last.energy - seen.first.energy
      BY DEF TotalIsTrue
    <2> QED
      BY DEF IInv, Sound, Measured
  <1> QED
    BY <1>1, TotalInit, TotalNext, PTL DEF Spec
-----------------------------------------------------------------------------
(* The samples of the clock tracker *)

(* A sample: when it was heard, what was heard, when the gateway took it.     *)
SampleSet == [at : Nat, value : Int, taken : Nat]

(* `kept` is `list` without its oldest k samples, those before the first one *)
(* in the window.                                                            *)
Without(kept, list, n, k) ==
    /\ kept \in Seq(SampleSet) /\ Len(kept) = Len(list) - k
    /\ \A i \in 1..Len(list) - k : kept[i] = list[i + k]
    /\ k < Len(list) => n - list[k + 1].at <= Window
    /\ \A i \in 1..Len(list) : n - list[i].at <= Window => k < i

(* What trimming keeps: the newest samples, from the first one in the window. *)
LEMMA TrimmedKeeps ==
    ASSUME NEW list \in Seq(SampleSet), NEW n \in Nat
    PROVE  \E k \in 0..Len(list) : Without(Trimmed(list, n), list, n, k)
  <1> DEFINE recent == {i \in DOMAIN list : n - list[i].at <= Window}
  <1>0. Len(list) \in Nat /\ DOMAIN list = 1..Len(list) /\ \A i \in 1..Len(list) : list[i] \in SampleSet
    BY LenProperties, ElementOfSeq
  <1>1. CASE recent = {}
    <2> DEFINE kept == Trimmed(list, n)
    <2>1. kept \in Seq(SampleSet) /\ Len(kept) = 0
      BY <1>1, EmptySeq DEF Trimmed
    <2>2. \A i \in 1..Len(list) : ~(n - list[i].at <= Window)
      BY <1>0, <1>1
    <2> HIDE DEF kept, recent
    <2>3. Without(kept, list, n, Len(list))
      <3>1. Len(list) - Len(list) = 0
        BY <1>0
      <3>2. 1..0 = {} /\ ~(Len(list) < Len(list))
        BY <1>0
      <3>3. Len(kept) = Len(list) - Len(list)
        BY <2>1, <3>1
      <3>4. \A i \in 1..Len(list) - Len(list) : kept[i] = list[i + Len(list)]
        BY <3>1, <3>2
      <3> QED
        BY <2>1, <2>2, <3>2, <3>3, <3>4 DEF Without
    <2> QED
      BY <1>0, <2>3 DEF kept
  <1>2. CASE recent # {}
    <2> DEFINE m == Min(recent)
    <2>1. recent \in SUBSET Nat
      BY <1>0
    <2>2. m \in recent /\ \A i \in recent : m <= i
      <3> HIDE DEF recent
      <3> QED
        BY <1>2, <2>1, LeastIsMin
    <2>3. m \in 1..Len(list) /\ n - list[m].at <= Window
      BY <1>0, <2>2
    <2>4. Trimmed(list, n) = SubSeq(list, m, Len(list))
      BY <1>2 DEF Trimmed
    <2>5. \A i \in 1..Len(list) : n - list[i].at <= Window => m <= i
      BY <1>0, <2>2
    <2> HIDE DEF m, recent
    <2>6. \A i \in m..Len(list) : list[i] \in SampleSet
      BY <1>0, <2>3
    <2>7. /\ Trimmed(list, n) \in Seq(SampleSet)
          /\ Len(Trimmed(list, n)) = Len(list) - m + 1
          /\ \A i \in 1..Len(list) - m + 1 : Trimmed(list, n)[i] = list[m + i - 1]
      BY <1>0, <2>3, <2>4, <2>6, SubSeqProperties
    <2> DEFINE k == m - 1
    <2>8. k \in 0..Len(list) /\ k + 1 = m
      BY <1>0, <2>3
    <2>9. \A i \in 1..Len(list) - k : Trimmed(list, n)[i] = list[i + k]
      BY <1>0, <2>3, <2>7
    <2>10. Len(Trimmed(list, n)) = Len(list) - k
      BY <1>0, <2>3, <2>7
    <2>11. \A i \in 1..Len(list) : n - list[i].at <= Window => k < i
      BY <1>0, <2>3, <2>5
    <2> HIDE DEF k
    <2>12. Without(Trimmed(list, n), list, n, k)
      BY <2>3, <2>7, <2>8, <2>9, <2>10, <2>11 DEF Without
    <2> QED
      BY <2>8, <2>12
  <1> QED
    BY <1>1, <1>2

(* What a sample says: a reading not older than MaxAge, and the true skew if  *)
(* it was taken since the clock was last set, at c, to k.                     *)
SampleTrue(x, n, c, k) ==
    /\ x.at <= n /\ x.taken <= x.at /\ x.at - x.taken <= MaxAge
    /\ x.taken > c => x.value = k + x.taken - x.at

(* Every one of the list is, and they are in the order they were taken.       *)
AllTrue(list, n, c, k) == \A i \in 1..Len(list) : SampleTrue(list[i], n, c, k)

InOrder(list) ==
    \A i, j \in 1..Len(list) :
        i < j => list[i].at <= list[j].at /\ list[i].taken < list[j].taken

(* The newest sample is of the last reading heard. *)
Newest(list, last, h) ==
    Len(list) > 0 =>
        LET l == list[Len(list)]
        IN  /\ last = l.at + l.value /\ l.taken <= h.taken
            /\ l.taken = h.taken => h.time = last

(* The reading the gateway holds, against the clock of the battery.           *)
Clocks ==
    /\ now \in Nat /\ changed \in Nat /\ changed <= now /\ skew \in Skews
    /\ held \in [time : Int, taken : Nat, meter : Meter]
    /\ held.taken <= now /\ now - held.taken <= MaxAge
    /\ held.taken > changed => held.time = held.taken + skew

(* The tracker's samples are true ones, in order, the last heard at the end.  *)
SInv ==
    /\ Clocks
    /\ samples \in Seq(SampleSet) /\ lastValue \in Int \cup {Unknown}
    /\ AllTrue(samples, now, changed, skew) /\ InOrder(samples)
    /\ Newest(samples, lastValue, held)

(* The sample of the held reading is a true one. *)
LEMMA SampleOfHeld ==
    ASSUME Clocks
    PROVE  /\ Sample(held, now) \in SampleSet
           /\ Sample(held, now).at = now /\ Sample(held, now).taken = held.taken
           /\ Sample(held, now).value = held.time - now
           /\ SampleTrue(Sample(held, now), now, changed, skew)
  <1> DEFINE x == Sample(held, now)
  <1>1. skew \in Int /\ held.time \in Int /\ held.taken \in Nat /\ now \in Nat /\ changed \in Nat
    BY ReadingsAssumption DEF Clocks
  <1>2. x.at = now /\ x.taken = held.taken /\ x.value = held.time - now
    BY DEF Sample
  <1>3. x \in SampleSet
    BY <1>1 DEF Sample, SampleSet
  <1> HIDE DEF x
  <1>4. SampleTrue(x, now, changed, skew)
    BY <1>1, <1>2, ReadingsAssumption DEF SampleTrue, Clocks
  <1> QED
    BY <1>2, <1>3, <1>4 DEF x

(* A reading that is no repeat is newer than every sample. *)
LEMMA AppendedInOrder ==
    ASSUME SInv, held.time # lastValue
    PROVE  LET list == Append(samples, Sample(held, now))
           IN  /\ list \in Seq(SampleSet) /\ Len(list) = Len(samples) + 1
               /\ list[Len(list)] = Sample(held, now)
               /\ AllTrue(list, now, changed, skew) /\ InOrder(list)
  <1> DEFINE x == Sample(held, now)
             list == Append(samples, x)
             n == Len(samples)
  <1>0. /\ Clocks /\ samples \in Seq(SampleSet) /\ AllTrue(samples, now, changed, skew)
        /\ InOrder(samples) /\ Newest(samples, lastValue, held)
    BY DEF SInv
  <1>1. /\ x \in SampleSet /\ x.at = now /\ x.taken = held.taken
        /\ SampleTrue(x, now, changed, skew)
    BY <1>0, SampleOfHeld
  <1>2. /\ n \in Nat /\ \A i \in 1..n : samples[i] \in SampleSet
    BY <1>0, LenProperties, ElementOfSeq
  <1> HIDE DEF x
  <1>3. /\ list \in Seq(SampleSet) /\ Len(list) = n + 1 /\ list[n + 1] = x
        /\ \A i \in 1..n : list[i] = samples[i]
    BY <1>0, <1>1, AppendProperties
  <1> HIDE DEF list
  <1>4. AllTrue(list, now, changed, skew)
    <2> SUFFICES ASSUME NEW i \in 1..n + 1 PROVE SampleTrue(list[i], now, changed, skew)
      BY <1>3 DEF AllTrue
    <2>1. CASE i = n + 1
      BY <1>1, <1>3, <2>1
    <2>2. CASE i \in 1..n
      BY <1>0, <1>3, <2>2 DEF AllTrue
    <2> QED
      BY <1>2, <2>1, <2>2
  <1>5. \A i \in 1..n : samples[i].at <= now /\ samples[i].taken < held.taken
    <2> SUFFICES ASSUME NEW i \in 1..n
                 PROVE  samples[i].at <= now /\ samples[i].taken < held.taken
      OBVIOUS
    <2>1. samples[i].at <= now
      BY <1>0 DEF AllTrue, SampleTrue
    <2> DEFINE l == samples[n]
    <2>2. n > 0 /\ n \in 1..n
      BY <1>2
    <2>3. l.taken <= held.taken /\ l.taken # held.taken
      BY <1>0, <2>2 DEF Newest
    <2>4. i = n \/ i < n
      BY <1>2
    <2>5. samples[i].taken <= l.taken
      <3>1. CASE i = n
        BY <1>2, <2>2, <3>1 DEF SampleSet
      <3>2. CASE i < n
        <4>1. samples[i].taken < l.taken
          BY <1>0, <2>2, <3>2 DEF InOrder
        <4> QED
          BY <1>2, <2>2, <4>1 DEF SampleSet
      <3> QED
        BY <2>4, <3>1, <3>2
    <2>6. samples[i].taken \in Nat /\ l.taken \in Nat /\ held.taken \in Nat
      BY <1>0, <1>2, <2>2 DEF SampleSet, Clocks
    <2> QED
      BY <2>1, <2>3, <2>5, <2>6
  <1>6. InOrder(list)
    <2> SUFFICES ASSUME NEW i \in 1..n + 1, NEW j \in 1..n + 1, i < j
                 PROVE  list[i].at <= list[j].at /\ list[i].taken < list[j].taken
      BY <1>3 DEF InOrder
    <2>1. i \in 1..n /\ list[i] = samples[i]
      BY <1>2, <1>3
    <2>2. CASE j = n + 1
      BY <1>1, <1>3, <1>5, <2>1, <2>2
    <2>3. CASE j \in 1..n
      BY <1>0, <1>3, <2>1, <2>3 DEF InOrder
    <2> QED
      BY <1>2, <2>2, <2>3
  <1> QED
    BY <1>3, <1>4, <1>6 DEF list, x

(* Trimming keeps what is true of the samples. *)
LEMMA TrimmedKeepsOrder ==
    ASSUME NEW list \in Seq(SampleSet), NEW t \in Nat, NEW k \in 0..Len(list), NEW kept,
           Without(kept, list, t, k), NEW n, NEW c, NEW s,
           AllTrue(list, n, c, s), InOrder(list)
    PROVE  AllTrue(kept, n, c, s) /\ InOrder(kept)
  <1>0. Len(list) \in Nat
    BY LenProperties
  <1>1. \A i \in 1..Len(kept) : i + k \in 1..Len(list) /\ kept[i] = list[i + k]
    BY <1>0 DEF Without
  <1>2. AllTrue(kept, n, c, s)
    BY <1>1 DEF AllTrue
  <1>3. InOrder(kept)
    <2> SUFFICES ASSUME NEW i \in 1..Len(kept), NEW j \in 1..Len(kept), i < j
                 PROVE  kept[i].at <= kept[j].at /\ kept[i].taken < kept[j].taken
      BY DEF InOrder
    <2>1. i + k < j + k /\ i + k \in 1..Len(list) /\ j + k \in 1..Len(list)
      BY <1>0, <1>1 DEF Without
    <2>2. list[i + k].at <= list[j + k].at /\ list[i + k].taken < list[j + k].taken
      BY <2>1 DEF InOrder
    <2> QED
      BY <1>1, <2>2
  <1> QED
    BY <1>2, <1>3

(* OffsetEstimator.add keeps the samples true and in order. *)
LEMMA AddKeeps ==
    ASSUME SInv, Add(held, now)
    PROVE  /\ samples' \in Seq(SampleSet) /\ lastValue' \in Int \cup {Unknown}
           /\ AllTrue(samples', now, changed, skew) /\ InOrder(samples')
           /\ Newest(samples', lastValue', held)
  <1>1. CASE held.time = lastValue
    BY <1>1 DEF SInv, Add, IsRepeat, clockVars
  <1>2. CASE held.time # lastValue
    <2> DEFINE x == Sample(held, now)
               list == Append(samples, x)
    <2>1. samples' = Trimmed(list, now) /\ lastValue' = held.time
      BY <1>2 DEF Add, IsRepeat
    <2>2. /\ list \in Seq(SampleSet) /\ Len(list) = Len(samples) + 1
          /\ list[Len(list)] = x
          /\ AllTrue(list, now, changed, skew) /\ InOrder(list)
      BY <1>2, AppendedInOrder
    <2>3. x.at = now /\ x.taken = held.taken /\ x.value = held.time - now
      BY SampleOfHeld DEF SInv
    <2>4. now \in Nat /\ held.time \in Int
      BY DEF SInv, Clocks
    <2>5. Len(samples) \in Nat
      BY LenProperties DEF SInv
    <2> HIDE DEF list, x
    <2>6. PICK k \in 0..Len(list) : Without(samples', list, now, k)
      BY <2>1, <2>2, <2>4, TrimmedKeeps
    <2>7. AllTrue(samples', now, changed, skew) /\ InOrder(samples')
      BY <2>2, <2>4, <2>6, TrimmedKeepsOrder
    <2>8. k < Len(list)
      <3>1. now - list[Len(list)].at <= Window
        BY <2>2, <2>3, <2>4, ReadingsAssumption
      <3> QED
        BY <2>2, <2>5, <2>6, <3>1 DEF Without
    <2>9. /\ samples' \in Seq(SampleSet) /\ Len(samples') = Len(list) - k
          /\ samples'[Len(samples')] = x
      <3>1. samples' \in Seq(SampleSet) /\ Len(samples') = Len(list) - k
        BY <2>6 DEF Without
      <3>2. Len(list) - k \in 1..Len(list) - k /\ (Len(list) - k) + k = Len(list)
        BY <2>2, <2>5, <2>8
      <3>3. samples'[Len(list) - k] = list[(Len(list) - k) + k]
        BY <2>6, <3>2 DEF Without
      <3> QED
        BY <2>2, <3>1, <3>2, <3>3
    <2>10. Newest(samples', lastValue', held)
      <3>1. held.time = now + (held.time - now) /\ held.taken <= held.taken
        BY <2>4 DEF SInv, Clocks
      <3> QED
        BY <2>1, <2>3, <2>9, <3>1 DEF Newest
    <2> QED
      BY <2>1, <2>4, <2>7, <2>9, <2>10
  <1> QED
    BY <1>1, <1>2

(* A new tracker's only sample is the held reading's. *)
LEMMA AddFirstKeeps ==
    ASSUME SInv, AddFirst(held, now)
    PROVE  /\ samples' \in Seq(SampleSet) /\ lastValue' \in Int \cup {Unknown}
           /\ AllTrue(samples', now, changed, skew) /\ InOrder(samples')
           /\ Newest(samples', lastValue', held)
  <1> DEFINE x == Sample(held, now)
  <1>1. /\ x \in SampleSet /\ x.at = now /\ x.taken = held.taken /\ x.value = held.time - now
        /\ SampleTrue(x, now, changed, skew)
    BY SampleOfHeld DEF SInv
  <1>2. now \in Nat /\ held.time \in Int /\ held.taken \in Nat
    BY DEF SInv, Clocks
  <1>3. samples' = <<x>> /\ lastValue' = held.time
    BY DEF AddFirst
  <1> HIDE DEF x
  <1>4. samples' \in Seq(SampleSet) /\ Len(samples') = 1 /\ samples'[1] = x
    BY <1>1, <1>3
  <1>5. \A i \in 1..1 : i = 1
    OBVIOUS
  <1>6. AllTrue(samples', now, changed, skew) /\ InOrder(samples')
    BY <1>1, <1>4, <1>5 DEF AllTrue, InOrder
  <1>7. held.time = now + (held.time - now)
    BY <1>2
  <1>8. Newest(samples', lastValue', held)
    BY <1>1, <1>2, <1>3, <1>4, <1>7 DEF Newest
  <1> QED
    BY <1>2, <1>3, <1>4, <1>6, <1>8

(* The invariant holds before the entry is first set up. *)
LEMMA SamplesInit == Init => SInv
  <1> SUFFICES ASSUME Init PROVE SInv
    OBVIOUS
  <1>1. now = 0 /\ changed = 0 /\ skew \in Skews /\ skew \in Int
    BY ReadingsAssumption DEF Init
  <1>2. held = [time |-> 0 + skew, taken |-> 0, meter |-> battery] /\ battery \in Meter
    BY <1>1 DEF Init, ReadingNow, Meter
  <1>3. Clocks
    BY <1>1, <1>2, ReadingsAssumption DEF Clocks
  <1>4. samples = <<>> /\ lastValue = Unknown
    BY DEF Init, NewEstimator
  <1>5. samples \in Seq(SampleSet) /\ Len(samples) = 0
    BY <1>4
  <1>6. AllTrue(samples, now, changed, skew) /\ InOrder(samples) /\ Newest(samples, lastValue, held)
    BY <1>5 DEF AllTrue, InOrder, Newest
  <1> QED
    BY <1>3, <1>4, <1>5, <1>6 DEF SInv

(* Every step keeps it: time only makes samples older, a clock that is set    *)
(* leaves no sample taken since, and a new reading is newer than any sample.  *)
LEMMA SamplesNext == SInv /\ battery \in Meter /\ [Next]_vars => SInv'
  <1> SUFFICES ASSUME SInv, battery \in Meter, [Next]_vars PROVE SInv'
    OBVIOUS
  <1>0. /\ Clocks /\ samples \in Seq(SampleSet) /\ lastValue \in Int \cup {Unknown}
        /\ AllTrue(samples, now, changed, skew) /\ InOrder(samples)
        /\ Newest(samples, lastValue, held)
        /\ skew \in Int
    BY ReadingsAssumption DEF SInv, Clocks
  <1>00. \A i \in 1..Len(samples) : samples[i] \in SampleSet
    BY <1>0, ElementOfSeq
  <1>1. CASE Tick
    <2>1. /\ now' = now + 1 /\ now - held.taken < MaxAge
          /\ UNCHANGED <<skew, changed, held, samples, lastValue>>
      BY <1>1 DEF Tick, clockVars
    <2>2. Clocks'
      BY <1>0, <2>1, ReadingsAssumption DEF Clocks
    <2>3. AllTrue(samples, now + 1, changed, skew)
      <3> SUFFICES ASSUME NEW i \in 1..Len(samples)
                   PROVE  SampleTrue(samples[i], now + 1, changed, skew)
        BY DEF AllTrue
      <3>1. SampleTrue(samples[i], now, changed, skew) /\ samples[i].at \in Nat /\ now \in Nat
        BY <1>0, <1>00 DEF AllTrue, SampleSet, Clocks
      <3> QED
        BY <3>1 DEF SampleTrue
    <2> QED
      BY <1>0, <2>1, <2>2, <2>3 DEF SInv, AllTrue, SampleTrue, InOrder, Newest
  <1>2. CASE GatewayReads
    <2>1. /\ held.taken < now /\ held' = [time |-> now + skew, taken |-> now, meter |-> battery]
          /\ UNCHANGED <<now, skew, changed, samples, lastValue>>
      BY <1>2 DEF GatewayReads, ReadingNow, worldVars, clockVars
    <2>2. /\ held'.time = now + skew /\ held'.taken = now
          /\ held' \in [time : Int, taken : Nat, meter : Meter]
      BY <1>0, <2>1 DEF Clocks
    <2>3. Clocks'
      BY <1>0, <2>1, <2>2, ReadingsAssumption DEF Clocks
    <2>4. Newest(samples, lastValue, held')
      <3> DEFINE l == samples[Len(samples)]
      <3>1. ASSUME Len(samples) > 0
            PROVE  lastValue = l.at + l.value /\ l.taken <= now /\ l.taken # now
        <4>1. Len(samples) \in 1..Len(samples)
          BY <1>0, <3>1, LenProperties
        <4>2. l.taken \in Nat /\ lastValue = l.at + l.value /\ l.taken <= held.taken
          BY <1>0, <1>00, <4>1 DEF Newest, SampleSet
        <4>3. now \in Int /\ held.taken \in Int /\ held.taken < now
          BY <1>0, <2>1 DEF Clocks
        <4>4. l.taken \in Int
          BY <4>2
        <4> HIDE DEF l
        <4> QED
          BY <4>2, <4>3, <4>4
      <3> HIDE DEF l
      <3> QED
        BY <2>2, <3>1 DEF Newest, l
    <2> QED
      BY <1>0, <2>1, <2>3, <2>4 DEF SInv, AllTrue, SampleTrue, InOrder, Newest
  <1>3. CASE ClockSet
    <2>1. /\ skew' \in Skews /\ changed' = now
          /\ UNCHANGED <<now, held, samples, lastValue>>
      BY <1>3 DEF ClockSet, clockVars
    <2>2. Clocks'
      BY <1>0, <2>1, ReadingsAssumption DEF Clocks
    <2>3. AllTrue(samples, now, now, skew')
      <3> SUFFICES ASSUME NEW i \in 1..Len(samples)
                   PROVE  SampleTrue(samples[i], now, now, skew')
        BY DEF AllTrue
      <3>1. /\ SampleTrue(samples[i], now, changed, skew)
            /\ samples[i].at \in Nat /\ samples[i].taken \in Nat /\ now \in Nat
        BY <1>0, <1>00 DEF AllTrue, SampleSet, Clocks
      <3> QED
        BY <3>1 DEF SampleTrue
    <2> QED
      BY <1>0, <2>1, <2>2, <2>3 DEF SInv, AllTrue, SampleTrue, InOrder, Newest
  <1>4. ASSUME NEW source \in Source, Hear(source) \/ Starts(source)
        PROVE  SInv'
    <2>1. Add(held, now) \/ AddFirst(held, now)
      BY <1>4 DEF Hear, Starts
    <2>2. UNCHANGED <<now, skew, changed, held>>
      BY <1>4 DEF Hear, Starts, worldVars
    <2>3. /\ samples' \in Seq(SampleSet) /\ lastValue' \in Int \cup {Unknown}
          /\ AllTrue(samples', now, changed, skew) /\ InOrder(samples')
          /\ Newest(samples', lastValue', held)
      BY <2>1, AddKeeps, AddFirstKeeps
    <2> QED
      BY <1>0, <2>2, <2>3 DEF SInv, Clocks, AllTrue, SampleTrue, InOrder, Newest
  <1>5. CASE Stops \/ Crashes
    <2>1. /\ samples' = <<>> /\ lastValue' = Unknown
          /\ UNCHANGED <<now, skew, changed, held>>
      BY <1>5 DEF Stops, Crashes, Gone
    <2>2. samples' \in Seq(SampleSet) /\ Len(samples') = 0
      BY <2>1
    <2> QED
      BY <1>0, <2>1, <2>2 DEF SInv, Clocks, AllTrue, InOrder, Newest
  <1>6. CASE UNCHANGED <<now, skew, changed, held, samples, lastValue>>
    BY <1>0, <1>6 DEF SInv, Clocks, AllTrue, SampleTrue, InOrder, Newest
  <1>7. CASE Meters \/ Zeroed \/ ZoneChanges \/ Midnight \/ Saves \/ UNCHANGED vars
    <2>1. UNCHANGED <<now, skew, changed, held, samples, lastValue>>
      BY <1>7 DEF Meters, Zeroed, ZoneChanges, Midnight, Saves, vars, worldVars, clockVars
    <2> QED
      BY <1>6, <2>1
  <1> QED
    BY <1>1, <1>2, <1>3, <1>4, <1>5, <1>7 DEF Next

(* What the estimate is made from: samples in the window, in order.           *)
LEMMA WindowHolds ==
    ASSUME SInv
    PROVE  LET t == InWindow(now)
           IN  /\ t \in Seq(SampleSet) /\ Len(t) \in Nat /\ DOMAIN t = 1..Len(t)
               /\ \A i \in 1..Len(t) : t[i] \in SampleSet /\ now - t[i].at <= Window
               /\ AllTrue(t, now, changed, skew) /\ InOrder(t)
  <1> DEFINE t == InWindow(now)
  <1>0. /\ samples \in Seq(SampleSet) /\ now \in Nat /\ InOrder(samples)
        /\ AllTrue(samples, now, changed, skew)
    BY DEF SInv, Clocks
  <1>1. PICK k \in 0..Len(samples) : Without(t, samples, now, k)
    BY <1>0, TrimmedKeeps DEF InWindow
  <1> HIDE DEF t
  <1>2. AllTrue(t, now, changed, skew) /\ InOrder(t)
    BY <1>0, <1>1, TrimmedKeepsOrder
  <1>3. t \in Seq(SampleSet)
    BY <1>1 DEF Without
  <1>4. Len(t) \in Nat /\ DOMAIN t = 1..Len(t) /\ \A i \in 1..Len(t) : t[i] \in SampleSet
    BY <1>3, LenProperties, ElementOfSeq
  <1>5. ASSUME NEW i \in 1..Len(t) PROVE now - t[i].at <= Window
    <2>0. Len(samples) \in Nat /\ Len(t) = Len(samples) - k
      BY <1>0, <1>1, LenProperties DEF Without
    <2>1. 1 \in 1..Len(t) /\ k < Len(samples)
      BY <1>4, <2>0
    <2>2. t[1] = samples[1 + k] /\ now - samples[k + 1].at <= Window
      BY <1>1, <2>0, <2>1 DEF Without
    <2>3. now - t[1].at <= Window
      BY <2>2
    <2>4. i = 1 \/ 1 < i
      OBVIOUS
    <2>5. t[1].at <= t[i].at
      BY <1>2, <1>4, <2>1, <2>4 DEF InOrder, SampleSet
    <2>6. t[1].at \in Nat /\ t[i].at \in Nat
      BY <1>4, <2>1 DEF SampleSet
    <2>7. now \in Int /\ Window \in Int
      BY <1>0, ReadingsAssumption
    <2>8. \A a, b \in Int : a <= b /\ now - a <= Window => now - b <= Window
      BY <2>7
    <2>9. t[1].at \in Int /\ t[i].at \in Int
      BY <2>6
    <2> QED
      BY <2>3, <2>5, <2>8, <2>9
  <1> QED
    BY <1>2, <1>3, <1>4, <1>5 DEF t

(* An estimate rests on as many readings of the battery as it has samples.    *)
LEMMA RestsHolds ==
    ASSUME SInv
    PROVE  RestsOnReadings
  <1> DEFINE t == InWindow(now)
             T == {s.taken : s \in Range(t)}
             f == [i \in 1..Len(t) |-> t[i].taken]
  <1>0. /\ Len(t) \in Nat /\ DOMAIN t = 1..Len(t)
        /\ \A i \in 1..Len(t) : t[i] \in SampleSet
        /\ AllTrue(t, now, changed, skew) /\ InOrder(t)
    BY WindowHolds
  <1>1. now \in Nat
    BY DEF SInv, Clocks
  <1> SUFFICES ASSUME ~(Len(t) < MinSamples) PROVE Cardinality(T) >= MinSamples
    BY DEF RestsOnReadings, Estimate
  <1> HIDE DEF t
  <1>2. \A i \in 1..Len(t) : t[i].taken \in T
    BY <1>0 DEF Range
  <1>3. T \in SUBSET Nat /\ \A x \in T : x <= now
    <2> SUFFICES ASSUME NEW i \in 1..Len(t) PROVE t[i].taken \in Nat /\ t[i].taken <= now
      BY <1>0 DEF Range
    <2>1. t[i].taken \in Nat /\ t[i].at \in Nat
      BY <1>0 DEF SampleSet
    <2>2. t[i].at <= now /\ t[i].taken <= t[i].at
      BY <1>0 DEF AllTrue, SampleTrue
    <2> QED
      BY <1>1, <2>1, <2>2
  <1>4. \A i, j \in 1..Len(t) : t[i].taken = t[j].taken => i = j
    <2> SUFFICES ASSUME NEW i \in 1..Len(t), NEW j \in 1..Len(t), i # j
                 PROVE  t[i].taken # t[j].taken
      OBVIOUS
    <2>1. i < j \/ j < i
      OBVIOUS
    <2>2. t[i].taken < t[j].taken \/ t[j].taken < t[i].taken
      BY <2>1, <1>0 DEF InOrder
    <2>3. t[i].taken \in Nat /\ t[j].taken \in Nat
      BY <1>0 DEF SampleSet
    <2> QED
      BY <2>2, <2>3
  <1> HIDE DEF T
  <1>5. f \in Injection(1..Len(t), T)
    BY <1>2, <1>4 DEF Injection, IsInjective
  <1>6. IsFiniteSet(T)
    BY <1>1, <1>3, FS_BoundedSetOfNaturals
  <1> HIDE DEF f
  <1>7. Cardinality(1..Len(t)) <= Cardinality(T)
    BY <1>5, <1>6, FS_Injection
  <1>8. Cardinality(1..Len(t)) = Len(t)
    <2>1. Cardinality(1..Len(t)) = IF 1 > Len(t) THEN 0 ELSE Len(t) - 1 + 1
      BY <1>0, FS_Interval
    <2> QED
      BY <1>0, <2>1
  <1>9. Cardinality(T) \in Nat
    BY <1>6, FS_CardinalityType
  <1> QED
    BY <1>0, <1>7, <1>8, <1>9, ReadingsAssumption

(* Samples all taken since the clock was last set are never ahead of it.      *)
LEMMA OffsetHolds ==
    ASSUME SInv, zone \in {0, 1}
    PROVE  OffsetIsTrue
  <1> DEFINE t == InWindow(now)
             V == {s.value : s \in Range(t)}
  <1>0. /\ Len(t) \in Nat /\ DOMAIN t = 1..Len(t)
        /\ \A i \in 1..Len(t) : t[i] \in SampleSet /\ now - t[i].at <= Window
        /\ AllTrue(t, now, changed, skew)
    BY WindowHolds
  <1>1. now \in Nat /\ changed \in Nat /\ skew \in Int /\ Unknown \notin Int
    BY ReadingsAssumption DEF SInv, Clocks
  <1> SUFFICES ASSUME now - changed > Window + MaxAge, Offset(now, zone) # Unknown
               PROVE  /\ Offset(now, zone) <= skew - zone
                      /\ FreshSample => Offset(now, zone) = skew - zone
    BY DEF OffsetIsTrue
  <1>a. Estimate(now) # Unknown /\ Offset(now, zone) = Estimate(now) - zone
    BY DEF Offset
  <1>b. ~(Len(t) < MinSamples) /\ Estimate(now) = Max(V)
    BY <1>a DEF Estimate
  <1>2. FreshSample <=> \E s \in Range(t) : s.taken = s.at
    BY DEF FreshSample
  <1> HIDE DEF t
  <1>3. ASSUME NEW i \in 1..Len(t)
        PROVE  /\ t[i].value \in Int /\ t[i].value <= skew
               /\ t[i].taken = t[i].at => t[i].value = skew
    <2>1. /\ t[i].value \in Int /\ t[i].taken \in Nat /\ t[i].at \in Nat
          /\ now - t[i].at <= Window
      BY <1>0 DEF SampleSet
    <2>2. SampleTrue(t[i], now, changed, skew)
      BY <1>0 DEF AllTrue
    <2>3. t[i].taken > changed
      BY <1>1, <2>1, <2>2, ReadingsAssumption DEF SampleTrue
    <2> QED
      BY <1>1, <2>1, <2>2, <2>3 DEF SampleTrue
  <1>4. V \subseteq Int /\ \A x \in V : x <= skew
    BY <1>0, <1>3 DEF Range
  <1>5. V # {}
    <2>1. 1 \in 1..Len(t)
      BY <1>0, <1>b, ReadingsAssumption
    <2>2. t[1].value \in V
      BY <1>0, <2>1 DEF Range
    <2> QED
      BY <2>2
  <1>6. FreshSample => skew \in V
    BY <1>0, <1>2, <1>3 DEF Range
  <1> HIDE DEF V
  <1>7. Max(V) \in V /\ \A y \in V : Max(V) >= y
    BY <1>1, <1>4, <1>5, GreatestInteger
  <1>8. Max(V) \in Int /\ Max(V) <= skew /\ (FreshSample => Max(V) >= skew)
    BY <1>4, <1>6, <1>7
  <1> QED
    BY <1>1, <1>8, <1>a, <1>b

(* The types the two invariants above do not give.                            *)
Flags == zone \in {0, 1} /\ upsets \in Nat /\ up \in BOOLEAN /\ due \in BOOLEAN

(* All of it, in every state.                                                 *)
RInv == IInv /\ SInv /\ Flags

(* The plain flags and counters keep their types.                             *)
LEMMA FlagsNext == Flags /\ [Next]_vars => Flags'
  <1> SUFFICES ASSUME Flags, [Next]_vars PROVE Flags'
    OBVIOUS
  <1>1. zone' \in {zone, 1 - zone}
    BY DEF Next, Tick, Meters, Zeroed, GatewayReads, ClockSet, ZoneChanges, Hear, Starts, Midnight,
           Saves, Stops, Crashes, Gone, vars, worldVars
  <1>2. upsets' \in {upsets, upsets + 1}
    BY DEF Next, Tick, Meters, Zeroed, GatewayReads, ClockSet, ZoneChanges, Hear, Starts, Midnight,
           Saves, Stops, Crashes, Gone, Upset, vars, worldVars
  <1>3. up' \in {up, TRUE, FALSE}
    BY DEF Next, Tick, Meters, Zeroed, GatewayReads, ClockSet, ZoneChanges, Hear, Starts, Midnight,
           Saves, Stops, Crashes, Gone, vars, homeVars
  <1>4. due' \in {due, FALSE} \/ Tick
    BY DEF Next, Meters, Zeroed, GatewayReads, ClockSet, ZoneChanges, Hear, Starts, Midnight,
           Saves, Stops, Crashes, Gone, vars, homeVars
  <1>5. Tick => due' \in BOOLEAN
    BY DEF Tick
  <1>6. zone' \in {0, 1} /\ upsets' \in Nat
    BY <1>1, <1>2 DEF Flags
  <1>7. up' \in BOOLEAN /\ due' \in BOOLEAN
    BY <1>3, <1>4, <1>5, Zenon DEF Flags
  <1> QED
    BY <1>6, <1>7 DEF Flags

(* The inductive invariant of the whole module.                               *)
THEOREM ReadingsInvariant == Spec => []RInv
  <1>1. Init => RInv
    <2>1. Init => zone \in {0, 1} /\ upsets \in Nat
      BY DEF Init
    <2>2. Init => up \in BOOLEAN /\ due \in BOOLEAN
      BY Zenon DEF Init
    <2> QED
      BY <2>1, <2>2, TotalInit, SamplesInit DEF RInv, Flags
  <1>2. RInv /\ [Next]_vars => RInv'
    <2> SUFFICES ASSUME RInv, [Next]_vars PROVE RInv'
      OBVIOUS
    <2>1. battery \in Meter
      BY DEF RInv, IInv
    <2> QED
      BY <2>1, TotalNext, SamplesNext, FlagsNext DEF RInv
  <1> QED
    BY <1>1, <1>2, PTL DEF Spec

(* The types of the clock tracker's samples, of the daily sum and of what is  *)
(* stored of it (clock.py, daily_reset.py, sensor.py's extra data).           *)
THEOREM ReadingsTyped == Spec => []TypeOK
  <1>1. RInv => TypeOK
    <2> SUFFICES ASSUME RInv PROVE TypeOK
      OBVIOUS
    <2>0. IInv /\ SInv /\ Flags
      BY DEF RInv
    <2>1. /\ now \in Nat /\ changed \in Nat /\ skew \in Skews
          /\ held \in [time : Int, taken : Nat, meter : Meter]
          /\ samples \in Seq([at : Nat, value : Int, taken : Nat])
          /\ lastValue \in Int \cup {Unknown}
      BY <2>0 DEF SInv, Clocks, SampleSet
    <2>2. day \in Nat /\ battery \in Meter /\ total \in Nat /\ seen \in Span
      BY <2>0 DEF IInv, Sound
    <2>3. lastSource \in Nat \cup {None}
      BY <2>0 DEF IInv, Sound, Meter
    <2>4. saved \in [total : Nat, last : Nat \cup {None}, seen : Span] \cup {None}
      BY <2>0 DEF IInv, Stored
    <2> QED
      BY <2>0, <2>1, <2>2, <2>3, <2>4 DEF TypeOK, Flags
  <1> QED
    BY <1>1, ReadingsInvariant, PTL

(* A stale reading served again and again is one sample, whatever happens to  *)
(* the battery's clock in between (OffsetEstimator.add and estimate).         *)
THEOREM EstimateRests == Spec => []RestsOnReadings
  <1>1. RInv => RestsOnReadings
    BY RestsHolds DEF RInv
  <1> QED
    BY <1>1, ReadingsInvariant, PTL

(* The offset is never ahead of the true one once the clock was left alone    *)
(* for the window and a reading's age, and exact with one fresh sample        *)
(* (clock.py, the module's comment).                                          *)
THEOREM OffsetTrue == Spec => []OffsetIsTrue
  <1>1. RInv => OffsetIsTrue
    BY OffsetHolds DEF RInv, Flags
  <1> QED
    BY <1>1, ReadingsInvariant, PTL
=============================================================================
