--------------------------------- MODULE Windows ---------------------------------
(***************************************************************************)
(* The arithmetic on schedules: the shift between real time and the        *)
(* battery's clock, what its registers can hold, and the Configure form's  *)
(* two windows.  One type of window (the types never meet), on a week of   *)
(* Days days of DayLen minutes.                                            *)
(*                                                                         *)
(* A schedule gives each day its list of windows, from s to e at power p.  *)
(***************************************************************************)
EXTENDS Integers, FiniteSetsExt, SequencesExt

CONSTANTS Days, DayLen, MaxWindows

ASSUME WeekAssumption ==
    Days \in Nat \ {0} /\ DayLen \in Nat \ {0, 1} /\ MaxWindows \in Nat \ {0}

Week == 0..Days - 1
WeekLen == Days * DayLen
Empty == [d \in Week |-> <<>>]

Window == [s : 0..DayLen - 1, e : 0..DayLen - 1, p : Nat]
Schedules == [Week -> Seq(Window)]

Before(v, w) == v.s < w.s \/ (v.s = w.s /\ (v.e < w.e \/ (v.e = w.e /\ v.p < w.p)))

(* The elements of S in order, when below[x] are those that come before x.  *)
Sorted(S, below) == [n \in 1..Cardinality(S) |-> CHOOSE x \in S : Cardinality(below[x]) = n - 1]
(* The elements of a list at the places I, in order. *)
Sublist(list, I) ==
    LET kept == Sorted(I, [i \in I |-> {j \in I : j < i}])
    IN  [n \in DOMAIN kept |-> list[kept[n]]]

SortedWindows(S) == Sorted(S, [w \in S |-> {v \in S : Before(v, w)}])

-----------------------------------------------------------------------------
(* timeshift.py *)

(* The next day starts with the same power at midnight. *)
Continues(x, d, p) == \E w \in ToSet(x[(d + 1) % Days]) : w.s = 0 /\ w.p = p

(* An end of 23:59 before such a day means "until midnight". *)
EndMinutes(x, d, w) == IF w.e = DayLen - 1 /\ Continues(x, d, w.p) THEN DayLen ELSE w.e

(* The end of a window that starts on day d, past midnight if overnight. *)
RunsUntil(x, d, w) == LET e == EndMinutes(x, d, w) IN IF e < w.s THEN e + DayLen ELSE e

(* Window i of day d, moved and split at each midnight: its pieces on day k. *)
Pieces(x, m, d, i, k) ==
    LET w == x[d][i]
        from == (d * DayLen + w.s + m) % WeekLen
        to == from + RunsUntil(x, d, w) - w.s
    IN  {[s |-> Max({from, j * DayLen}) - j * DayLen,
          e |-> Min({to, (j + 1) * DayLen}) - j * DayLen, p |-> w.p, of |-> <<d, i>>] :
            j \in {j \in 0..2 * Days : /\ j % Days = k /\ from < to
                                       /\ from < (j + 1) * DayLen /\ j * DayLen < to}}

PiecesOn(x, m, k) == UNION {UNION {Pieces(x, m, d, i, k) : i \in DOMAIN x[d]} : d \in Week}

(* Pieces that are alike stay apart, in the order of their windows. *)
Earlier(v, w) ==
    \/ Before(v, w)
    \/ /\ v.s = w.s /\ v.e = w.e /\ v.p = w.p
       /\ v.of[1] < w.of[1] \/ (v.of[1] = w.of[1] /\ v.of[2] < w.of[2])

(* Pieces that meet with the same power become one. *)
Joined(done, w) ==
    IF done # <<>> /\ Last(done).e = w.s /\ Last(done).p = w.p
    THEN [done EXCEPT ![Len(done)].e = w.e]
    ELSE Append(done, [s |-> w.s, e |-> w.e, p |-> w.p])

Merged(list) ==
    LET done[n \in 0..Len(list)] == IF n = 0 THEN <<>> ELSE Joined(done[n - 1], list[n])
    IN  done[Len(list)]

(* _fmt: midnight cannot be stored. *)
Stored_Midnight(w) == w
Stored(w) == [w EXCEPT !.e = Min({w.e, DayLen - 1})]

ShiftedDay(x, m, k) ==
    LET pieces == PiecesOn(x, m, k)
        merged == Merged(Sorted(pieces, [w \in pieces |-> {v \in pieces : Earlier(v, w)}]))
    IN  [i \in DOMAIN merged |-> Stored(merged[i])]

Shift(x, m) == [k \in Week |-> ShiftedDay(x, m, k)]

(* The problems shift_schedule reports. *)
Crowded(x) == {d \in Week : Len(x[d]) > MaxWindows}

-----------------------------------------------------------------------------
(* control.py: schedule JSON to registers and back.  MaxWindows a day, and   *)
(* one that ends when it starts is not active.                              *)
HeldDay(day) ==
    Sublist(day, {i \in 1..Min({MaxWindows, Len(day)}) : day[i].s # day[i].e})
Held(x) == [d \in Week |-> HeldDay(x[d])]

-----------------------------------------------------------------------------
(* schedule_form.py *)

DaysOf(x, w) == {d \in Week : w \in ToSet(x[d])}
Slots(x) == UNION {{d} \X DOMAIN x[d] : d \in Week}
Uses(x, w) == Cardinality({t \in Slots(x) : x[t[1]][t[2]] = w})

(* The most used first; then the one on the earlier day. *)
Above(x, v, w) ==
    \/ Uses(x, v) > Uses(x, w)
    \/ /\ Uses(x, v) = Uses(x, w)
       /\ \/ Min(DaysOf(x, v)) < Min(DaysOf(x, w))
          \/ Min(DaysOf(x, v)) = Min(DaysOf(x, w)) /\ Before(v, w)
Ranked(x) ==
    LET wins == UNION {ToSet(x[d]) : d \in Week}
    IN  Sorted(wins, [w \in wins |-> {v \in wins : Above(x, v, w)}])

(* The form's two windows, each with the days it runs on. *)
ToForm(x) ==
    LET r == Ranked(x)
    IN  [i \in 1..Min({2, Len(r)}) |-> [win |-> r[i], on |-> DaysOf(x, r[i])]]

Overlap(v, w) == v.s < w.e /\ w.s < v.e
Faulty(f, i) ==
    \/ f[i].win.e <= f[i].win.s \/ f[i].on = {}
    \/ \E j \in 1..i - 1 : /\ f[j].win.e > f[j].win.s
                           /\ f[i].on \cap f[j].on # {} /\ Overlap(f[i].win, f[j].win)
FormErrors(f) == {i \in DOMAIN f : Faulty(f, i)}

(* What the form sends: the windows without an error, in order. *)
FromForm(f) ==
    [d \in Week |->
        SortedWindows({f[i].win : i \in {i \in DOMAIN f \ FormErrors(f) : d \in f[i].on}})]

-----------------------------------------------------------------------------
(* What a schedule means: the minutes of the week that run, at which power. *)

Covered(x) ==
    LET Of(d, w) == {<<(d * DayLen + w.s + t) % WeekLen, w.p>> :
                        t \in 0..((w.e - w.s + DayLen) % DayLen) - 1}
    IN  UNION {UNION {Of(d, w) : w \in ToSet(x[d])} : d \in Week}

Moved(c, m) == {<<(t[1] + m) % WeekLen, t[2]>> : t \in c}

=============================================================================
