----------------------------- MODULE WindowsProofs -----------------------------
(***************************************************************************)
(* The arithmetic on schedules, for any schedule, any shift and a week of  *)
(* any length: a shift moves the minutes a schedule means and nothing else *)
(* (ShiftMoves), the registers keep what fits (HeldCovers), and a battery  *)
(* whose clock is wrong runs what was asked, however often it is written   *)
(* again (WrittenRuns, RewrittenRuns).  The form sends back what it was    *)
(* filled with (FormReturns).                                              *)
(*                                                                         *)
(* A schedule is read as minutes of the week.  The pieces a window is cut  *)
(* into cover its minutes (PiecesRun, EitherWeek), sorting lists them all  *)
(* (SortedLists), and joining them adds and drops none (MergedRuns).       *)
(***************************************************************************)
EXTENDS Windows, NumberFacts, SequenceTheorems, FiniteSetTheorems, TLAPS

(* What a function makes of a finite set is finite. *)
LEMMA FiniteImage ==
    ASSUME NEW S, NEW T, NEW f \in [S -> T], IsFiniteSet(S)
    PROVE  IsFiniteSet({f[x] : x \in S})
  <1>1. f \in Surjection(S, {f[x] : x \in S})
    BY DEF Surjection
  <1> QED
    BY <1>1, FS_Surjection

(* Sorted lists every element of a finite set, and nothing else, when `below` *)
(* is a strict order of it.                                                   *)
LEMMA SortedLists ==
    ASSUME NEW S, IsFiniteSet(S), NEW below \in [S -> SUBSET S],
           \A x \in S : x \notin below[x],
           \A x, y \in S : x # y => x \in below[y] \/ y \in below[x],
           \A x, y \in S : x \in below[y] => below[x] \subseteq below[y]
    PROVE  /\ Cardinality(S) \in Nat
           /\ Sorted(S, below) \in [1..Cardinality(S) -> S]
           /\ \A x \in S : \E n \in 1..Cardinality(S) : Sorted(S, below)[n] = x
  <1> DEFINE N == Cardinality(S)
             rank == [x \in S |-> Cardinality(below[x]) + 1]
  <1>1. N \in Nat
    BY FS_CardinalityType
  <1>2. ASSUME NEW x \in S
        PROVE  /\ IsFiniteSet(below[x]) /\ Cardinality(below[x]) \in Nat
               /\ Cardinality(below[x]) < N
    <2>1. IsFiniteSet(S \ {x}) /\ Cardinality(S \ {x}) = N - 1
      BY FS_RemoveElement
    <2>2. below[x] \in SUBSET (S \ {x})
      OBVIOUS
    <2>3. IsFiniteSet(below[x]) /\ Cardinality(below[x]) <= N - 1
      BY <2>1, <2>2, FS_Subset
    <2>4. Cardinality(below[x]) \in Nat
      BY <2>3, FS_CardinalityType
    <2> QED
      BY <1>1, <2>3, <2>4
  <1>3. ASSUME NEW x \in S, NEW y \in S, x \in below[y]
        PROVE  Cardinality(below[x]) # Cardinality(below[y])
    <2>1. below[x] \in SUBSET below[y] /\ below[x] # below[y]
      BY <1>3
    <2>2. IsFiniteSet(below[y])
      BY <1>2
    <2> QED
      BY <2>1, <2>2, FS_Subset
  <1>4. \A x, y \in S : Cardinality(below[x]) = Cardinality(below[y]) => x = y
    BY <1>3
  <1>5. rank \in Injection(S, 1..N)
    <2>1. \A x \in S : Cardinality(below[x]) + 1 \in 1..N
      BY <1>1, <1>2
    <2>2. rank \in [S -> 1..N]
      BY <2>1
    <2>3. ASSUME NEW x \in S, NEW y \in S, rank[x] = rank[y] PROVE x = y
      BY <1>2, <1>4, <2>3
    <2> HIDE DEF rank
    <2> QED
      BY <2>2, <2>3 DEF Injection, IsInjective
  <1>6. IsFiniteSet(1..N) /\ Cardinality(1..N) = N
    <2>1. IsFiniteSet(1..N) /\ Cardinality(1..N) = IF 1 > N THEN 0 ELSE N - 1 + 1
      BY <1>1, FS_Interval
    <2> QED
      BY <1>1, <2>1
  <1>7. rank \in Surjection(S, 1..N)
    <2> HIDE DEF rank
    <2> QED
      BY <1>5, <1>6, FS_Injection
  <1>8. ASSUME NEW n \in 1..N
        PROVE  /\ Sorted(S, below)[n] \in S
               /\ Cardinality(below[Sorted(S, below)[n]]) = n - 1
    <2>1. PICK x \in S : rank[x] = n
      BY <1>7 DEF Surjection
    <2>2. Cardinality(below[x]) = n - 1
      BY <1>2, <2>1
    <2>3. Sorted(S, below)[n] = CHOOSE y \in S : Cardinality(below[y]) = n - 1
      BY DEF Sorted
    <2> QED
      BY <2>2, <2>3
  <1>9. ASSUME NEW x \in S PROVE \E n \in 1..N : Sorted(S, below)[n] = x
    <2>1. rank[x] \in 1..N /\ Cardinality(below[x]) = rank[x] - 1
      BY <1>1, <1>2
    <2> HIDE DEF rank
    <2>2. Sorted(S, below)[rank[x]] = x
      BY <1>4, <1>8, <2>1
    <2> QED
      BY <2>1, <2>2
  <1>10. Sorted(S, below) \in [1..N -> S]
    <2>1. Sorted(S, below) = [n \in 1..N |-> Sorted(S, below)[n]]
      BY DEF Sorted
    <2> QED
      BY <1>8, <2>1
  <1> QED
    BY <1>1, <1>9, <1>10

(* list, joined from the left up to its n-th element for every n. *)
Joins(done, list, k) ==
    /\ done[0] = <<>>
    /\ \A n \in 1..k : done[n] = Joined(done[n - 1], list[n])

(* Merged is the last of its steps.  (The steps exist: the least k up to      *)
(* which they did not would follow one up to which they did.)                 *)
LEMMA MergedSteps ==
    ASSUME NEW list, Len(list) \in Nat
    PROVE  \E done : Merged(list) = done[Len(list)] /\ Joins(done, list, Len(list))
  <1> DEFINE N == Len(list)
             Is(g, k) == g = [n \in 0..k |-> IF n = 0 THEN <<>> ELSE Joined(g[n - 1], list[n])]
             Bad == {k \in 0..N : ~ \E g : Is(g, k)}
  <1>1. \E g : Is(g, 0)
    <2> DEFINE g == [n \in 0..0 |-> <<>>]
    <2>1. Is(g, 0)
      OBVIOUS
    <2> QED
      BY <2>1
  <1>2. ASSUME NEW k \in 1..N, NEW g, Is(g, k - 1) PROVE \E h : Is(h, k)
    <2> DEFINE next == Joined(g[k - 1], list[k])
               h == [n \in 0..k |-> IF n = k THEN next ELSE g[n]]
    <2>1. k - 1 \in 0..k - 1 /\ k # 0 /\ \A n \in 0..k : n # k => n \in 0..k - 1
      OBVIOUS
    <2>2. \A n \in 0..k - 1 : g[n] = IF n = 0 THEN <<>> ELSE Joined(g[n - 1], list[n])
      BY <1>2
    <2>3. ASSUME NEW n \in 0..k PROVE h[n] = IF n = 0 THEN <<>> ELSE Joined(h[n - 1], list[n])
      <3>1. CASE n = k
        BY <2>1, <3>1
      <3>2. CASE n # k
        <4>1. h[n] = g[n] /\ n \in 0..k - 1
          BY <2>1, <3>2
        <4>2. n # 0 => h[n - 1] = g[n - 1]
          BY <3>2
        <4> HIDE DEF h
        <4> QED
          BY <2>2, <4>1, <4>2
      <3> QED
        BY <3>1, <3>2
    <2>4. h = [n \in 0..k |-> h[n]]
      OBVIOUS
    <2> HIDE DEF h
    <2>5. Is(h, k)
      BY <2>3, <2>4
    <2> QED
      BY <2>5
  <1>3. Bad = {}
    <2> SUFFICES ASSUME Bad # {} PROVE FALSE
      OBVIOUS
    <2>1. Bad \in SUBSET Nat
      OBVIOUS
    <2>2. PICK k \in Bad : \A y \in Bad : k <= y
      BY <2>1, LeastNatural
    <2>3. k \in 0..N /\ k # 0
      BY <1>1, <2>2
    <2>4. k - 1 \in 0..N /\ k \in 1..N /\ ~(k <= k - 1)
      BY <2>3
    <2>5. k - 1 \notin Bad
      BY <2>2, <2>4
    <2>6. PICK g : Is(g, k - 1)
      BY <2>4, <2>5
    <2> HIDE DEF Is
    <2>7. \E h : Is(h, k)
      BY <1>2, <2>4, <2>6
    <2> QED
      BY <2>2, <2>7
  <1>4. N \in 0..N
    OBVIOUS
  <1>5. \E g : Is(g, N)
    BY <1>3, <1>4
  <1> DEFINE done == CHOOSE g : Is(g, N)
  <1>6. Is(done, N)
    BY <1>5
  <1>7. Merged(list) = done[N]
    BY DEF Merged
  <1> HIDE DEF done
  <1>8. Joins(done, list, N)
    <2>1. \A n \in 0..N : done[n] = IF n = 0 THEN <<>> ELSE Joined(done[n - 1], list[n])
      BY <1>6
    <2>2. 0 \in 0..N /\ \A n \in 1..N : n \in 0..N /\ n # 0
      OBVIOUS
    <2> HIDE DEF N
    <2> QED
      BY <2>1, <2>2 DEF Joins
  <1> QED
    BY <1>7, <1>8

-----------------------------------------------------------------------------
(* Joining pieces keeps the minutes. *)

(* A stretch of a day, before its end is fitted into the registers. *)
SpanSet == {w \in [s : Nat, e : Nat, p : Nat] : w.s < w.e /\ w.e <= DayLen}

(* Minute r of the day runs at power p. *)
In(w, r, p) == w.p = p /\ w.s <= r /\ r < w.e
Runs(list, r, p) == \E i \in 1..Len(list) : In(list[i], r, p)

(* Joining a piece to what is done adds just its minutes. *)
LEMMA JoinedRuns ==
    ASSUME NEW done \in Seq(SpanSet), NEW w,
           w.s \in Nat, w.e \in Nat, w.p \in Nat, w.s < w.e, w.e <= DayLen
    PROVE  /\ Joined(done, w) \in Seq(SpanSet)
           /\ \A r \in Int, p \in Nat : Runs(Joined(done, w), r, p) <=> Runs(done, r, p) \/ In(w, r, p)
  <1> DEFINE n == Len(done)
             J == Joined(done, w)
  <1>1. n \in Nat /\ DOMAIN done = 1..n /\ done \in [1..n -> SpanSet]
    BY LenProperties
  <1>2. \A i \in 1..n : done[i] \in SpanSet
    BY <1>1
  <1>3. CASE done # <<>> /\ Last(done).e = w.s /\ Last(done).p = w.p
    <2> DEFINE l == done[n]
               g == [l EXCEPT !.e = w.e]
    <2>1. n \in 1..n /\ l \in SpanSet /\ l.e = w.s /\ l.p = w.p
      <3>1. n # 0
        BY <1>3, EmptySeq
      <3> QED
        BY <1>1, <1>3, <3>1 DEF Last
    <2>2. g \in SpanSet /\ g.s = l.s /\ g.e = w.e /\ g.p = l.p
      BY <2>1 DEF SpanSet
    <2>3. J = [done EXCEPT ![n] = g]
      BY <1>3 DEF Joined
    <2> HIDE DEF g, J
    <2>4. J \in Seq(SpanSet) /\ Len(J) = n /\ \A i \in 1..n : J[i] = IF i = n THEN g ELSE done[i]
      BY <2>1, <2>2, <2>3, ExceptSeq
    <2>5. ASSUME NEW r \in Int, NEW p \in Nat
          PROVE  Runs(J, r, p) <=> Runs(done, r, p) \/ In(w, r, p)
      <3>1. In(g, r, p) <=> In(l, r, p) \/ In(w, r, p)
        BY <2>1, <2>2 DEF In, SpanSet
      <3> HIDE DEF l
      <3>2. Runs(J, r, p) <=> In(g, r, p) \/ \E i \in 1..n : i # n /\ In(done[i], r, p)
        BY <2>1, <2>4 DEF Runs
      <3>3. Runs(done, r, p) <=> In(l, r, p) \/ \E i \in 1..n : i # n /\ In(done[i], r, p)
        BY <2>1 DEF Runs, l
      <3> QED
        BY <3>1, <3>2, <3>3
    <2> QED
      BY <2>4, <2>5 DEF J
  <1>4. CASE ~(done # <<>> /\ Last(done).e = w.s /\ Last(done).p = w.p)
    <2> DEFINE g == [s |-> w.s, e |-> w.e, p |-> w.p]
    <2>1. J = Append(done, g)
      BY <1>4 DEF Joined
    <2>2. g \in SpanSet /\ g.s = w.s /\ g.e = w.e /\ g.p = w.p
      BY DEF SpanSet
    <2> HIDE DEF g, J
    <2>3. J \in Seq(SpanSet) /\ Len(J) = n + 1 /\ J[n + 1] = g /\ \A i \in 1..n : J[i] = done[i]
      BY <2>1, <2>2, AppendProperties
    <2>4. ASSUME NEW r \in Int, NEW p \in Nat
          PROVE  Runs(J, r, p) <=> Runs(done, r, p) \/ In(w, r, p)
      <3>1. In(g, r, p) <=> In(w, r, p)
        BY <2>2 DEF In
      <3>2. Runs(J, r, p) <=> In(g, r, p) \/ \E i \in 1..n : In(done[i], r, p)
        <4>1. \A i \in 1..n + 1 : i = n + 1 \/ i \in 1..n
          BY <1>1
        <4>2. n + 1 \in 1..n + 1 /\ \A i \in 1..n : i \in 1..n + 1
          BY <1>1
        <4> QED
          BY <2>3, <4>1, <4>2 DEF Runs
      <3> QED
        BY <3>1, <3>2 DEF Runs
    <2> QED
      BY <2>3, <2>4 DEF J
  <1> QED
    BY <1>3, <1>4

(* A list of pieces and what it is merged to run the same minutes. *)
LEMMA MergedRuns ==
    ASSUME NEW list, Len(list) \in Nat,
           \A i \in 1..Len(list) :
              /\ list[i].s \in Nat /\ list[i].e \in Nat /\ list[i].p \in Nat
              /\ list[i].s < list[i].e /\ list[i].e <= DayLen
    PROVE  /\ Merged(list) \in Seq(SpanSet)
           /\ \A r \in Int, p \in Nat : Runs(Merged(list), r, p) <=> Runs(list, r, p)
  <1> DEFINE N == Len(list)
  <1>1. PICK done : Merged(list) = done[N] /\ Joins(done, list, N)
    BY MergedSteps
  <1> DEFINE Good(n) == /\ done[n] \in Seq(SpanSet)
                        /\ \A r \in Int, p \in Nat :
                              Runs(done[n], r, p) <=> \E i \in 1..n : In(list[i], r, p)
             Bad == {n \in 0..N : ~Good(n)}
  <1>2. Good(0)
    <2>1. done[0] = <<>>
      BY <1>1 DEF Joins
    <2>2. done[0] \in Seq(SpanSet) /\ Len(done[0]) = 0
      BY <2>1, EmptySeq
    <2>3. 1..0 = {}
      OBVIOUS
    <2> QED
      BY <2>2, <2>3 DEF Runs
  <1>3. ASSUME NEW n \in 1..N, Good(n - 1) PROVE Good(n)
    <2>1. done[n] = Joined(done[n - 1], list[n])
      BY <1>1 DEF Joins
    <2>2. done[n] \in Seq(SpanSet)
      BY <1>3, <2>1, JoinedRuns
    <2>3. ASSUME NEW r \in Int, NEW p \in Nat
          PROVE  Runs(done[n], r, p) <=> \E i \in 1..n : In(list[i], r, p)
      <3>1. Runs(done[n], r, p) <=> Runs(done[n - 1], r, p) \/ In(list[n], r, p)
        BY <1>3, <2>1, JoinedRuns
      <3>2. Runs(done[n - 1], r, p) <=> \E i \in 1..n - 1 : In(list[i], r, p)
        BY <1>3
      <3>3. \A i \in 1..n : i = n \/ i \in 1..n - 1
        OBVIOUS
      <3>4. n \in 1..n /\ \A i \in 1..n - 1 : i \in 1..n
        OBVIOUS
      <3> QED
        BY <3>1, <3>2, <3>3, <3>4
    <2> QED
      BY <2>2, <2>3
  <1>4. Bad = {}
    <2> SUFFICES ASSUME Bad # {} PROVE FALSE
      OBVIOUS
    <2>1. Bad \in SUBSET Nat
      OBVIOUS
    <2>2. PICK n \in Bad : \A y \in Bad : n <= y
      BY <2>1, LeastNatural
    <2> HIDE DEF Good
    <2>3. n \in 0..N /\ n # 0
      BY <1>2, <2>2
    <2>4. n - 1 \in 0..N /\ n \in 1..N /\ ~(n <= n - 1)
      BY <2>3
    <2>5. Good(n - 1)
      BY <2>2, <2>4
    <2> QED
      BY <1>3, <2>2, <2>4, <2>5
  <1>5. N \in 0..N
    OBVIOUS
  <1>6. Good(N)
    <2> HIDE DEF Good
    <2> QED
      BY <1>4, <1>5
  <1> QED
    BY <1>1, <1>6 DEF Runs

-----------------------------------------------------------------------------
(* The pieces of a shifted schedule. *)

(* The week has a length, and its days start at multiples of DayLen. *)
LEMMA WeekFacts ==
    /\ Days \in Nat \ {0} /\ DayLen \in Nat \ {0} /\ DayLen > 1 /\ WeekLen \in Nat \ {0}
    /\ \A j \in Int : j * DayLen \in Int /\ (j + 1) * DayLen = j * DayLen + DayLen
  <1>1. Days \in Nat \ {0} /\ DayLen \in Nat \ {0} /\ DayLen > 1
    BY WeekAssumption
  <1>2. Days * DayLen \in Nat \ {0}
    BY <1>1
  <1> QED
    BY <1>1, <1>2 DEF WeekLen

(* A window of a schedule runs for a day at most. *)
LEMMA SpanOfWindow ==
    ASSUME NEW x \in Schedules, NEW d \in Week, NEW i \in DOMAIN x[d]
    PROVE  /\ x[d] \in Seq(Window) /\ x[d][i] \in Window /\ i \in Nat
           /\ RunsUntil(x, d, x[d][i]) \in Int
           /\ x[d][i].s <= RunsUntil(x, d, x[d][i])
           /\ RunsUntil(x, d, x[d][i]) <= x[d][i].s + DayLen
  <1>1. x[d] \in Seq(Window)
    BY DEF Schedules
  <1>2. DOMAIN x[d] = 1..Len(x[d]) /\ x[d] \in [1..Len(x[d]) -> Window] /\ Len(x[d]) \in Nat
    BY <1>1, LenProperties
  <1>3. x[d][i] \in Window /\ i \in Nat
    BY <1>2
  <1> DEFINE w == x[d][i]
  <1>4. w.s \in 0..DayLen - 1 /\ w.e \in 0..DayLen - 1
    BY <1>3 DEF Window
  <1>5. EndMinutes(x, d, w) = DayLen \/ EndMinutes(x, d, w) = w.e
    BY DEF EndMinutes
  <1>6. RunsUntil(x, d, w) = IF EndMinutes(x, d, w) < w.s THEN EndMinutes(x, d, w) + DayLen
                             ELSE EndMinutes(x, d, w)
    BY DEF RunsUntil
  <1> QED
    BY <1>1, <1>3, <1>4, <1>5, <1>6, WeekFacts

(* A piece of window of[2] of day of[1].                                     *)
Piece == {v \in [s : Nat, e : Nat, p : Nat, of : Int \X Int] : v.s < v.e /\ v.e <= DayLen}

(* What a window is cut into are stretches of one day each, finitely many. *)
LEMMA PieceShape ==
    ASSUME NEW x \in Schedules, NEW m \in Int, NEW k, NEW d \in Week, NEW i \in DOMAIN x[d]
    PROVE  Pieces(x, m, d, i, k) \subseteq Piece /\ IsFiniteSet(Pieces(x, m, d, i, k))
  <1> DEFINE w == x[d][i]
             from == (d * DayLen + w.s + m) % WeekLen
             to == from + RunsUntil(x, d, w) - w.s
             On == {j \in 0..2 * Days : /\ j % Days = k /\ from < to
                                        /\ from < (j + 1) * DayLen /\ j * DayLen < to}
             cut(j) == [s |-> Max({from, j * DayLen}) - j * DayLen,
                        e |-> Min({to, (j + 1) * DayLen}) - j * DayLen, p |-> w.p, of |-> <<d, i>>]
             f == [j \in On |-> cut(j)]
  <1>1. w \in Window /\ i \in Int /\ d \in Int /\ RunsUntil(x, d, w) \in Int
    BY SpanOfWindow, WeekFacts DEF Week
  <1>2. w.s \in Int /\ w.p \in Nat
    BY <1>1 DEF Window
  <1>3. from \in Int /\ to \in Int
    <2>1. d * DayLen + w.s + m \in Int
      BY <1>1, <1>2, WeekFacts
    <2>2. from \in Int
      BY <2>1, WeekFacts, DivMod
    <2> HIDE DEF from
    <2> QED
      BY <1>1, <1>2, <2>2
  <1>4. Pieces(x, m, d, i, k) = {cut(j) : j \in On}
    BY DEF Pieces
  <1> HIDE DEF from, to, w
  <1>5. ASSUME NEW j \in On PROVE cut(j) \in Piece
    <2>1. j \in Int /\ from < to /\ from < (j + 1) * DayLen /\ j * DayLen < to
      BY WeekFacts
    <2> DEFINE a == j * DayLen
               b == (j + 1) * DayLen
    <2>2. a \in Int /\ b = a + DayLen
      BY <2>1, WeekFacts
    <2>3. from < to /\ from < b /\ a < to
      BY <2>1
    <2> HIDE DEF a, b
    <2>4. Max({from, a}) = (IF from >= a THEN from ELSE a) /\ Min({to, b}) = (IF to <= b THEN to ELSE b)
      BY <1>3, <2>2, WeekFacts, MinOfTwo, MaxOfTwo
    <2>5. /\ Max({from, a}) - a \in Nat /\ Min({to, b}) - a \in Nat
          /\ Max({from, a}) - a < Min({to, b}) - a /\ Min({to, b}) - a <= DayLen
      BY <1>3, <2>2, <2>3, <2>4, WeekFacts
    <2> QED
      BY <1>1, <1>2, <2>5 DEF Piece, a, b
  <1>6. IsFiniteSet(On)
    <2>1. 2 * Days \in Int /\ 0 \in Int
      BY WeekFacts
    <2>2. IsFiniteSet(0..2 * Days)
      BY <2>1, FS_Interval
    <2> QED
      BY <2>2, FS_Subset
  <1> HIDE DEF On, cut
  <1>7. IsFiniteSet({f[j] : j \in On})
    <2>1. f \in [On -> Piece]
      BY <1>5
    <2> QED
      BY <1>6, <2>1, FiniteImage
  <1>8. {f[j] : j \in On} = {cut(j) : j \in On}
    OBVIOUS
  <1> QED
    BY <1>4, <1>5, <1>7, <1>8

(* So is the day's whole set of them. *)
LEMMA PiecesOnDay ==
    ASSUME NEW x \in Schedules, NEW m \in Int, NEW k
    PROVE  PiecesOn(x, m, k) \subseteq Piece /\ IsFiniteSet(PiecesOn(x, m, k))
  <1> DEFINE All(d) == {Pieces(x, m, d, i, k) : i \in DOMAIN x[d]}
  <1>1. ASSUME NEW d \in Week PROVE IsFiniteSet(UNION All(d)) /\ UNION All(d) \subseteq Piece
    <2> DEFINE f == [i \in DOMAIN x[d] |-> Pieces(x, m, d, i, k)]
    <2>1. x[d] \in Seq(Window)
      BY DEF Schedules
    <2>2. IsFiniteSet(DOMAIN x[d])
      <3>1. DOMAIN x[d] = 1..Len(x[d]) /\ Len(x[d]) \in Int
        BY <2>1, LenProperties
      <3> QED
        BY <3>1, FS_Interval
    <2>3. \A i \in DOMAIN x[d] : Pieces(x, m, d, i, k) \subseteq Piece /\ IsFiniteSet(Pieces(x, m, d, i, k))
      BY PieceShape
    <2>4. IsFiniteSet({f[i] : i \in DOMAIN x[d]})
      <3>1. f \in [DOMAIN x[d] -> SUBSET Piece]
        BY <2>3
      <3> HIDE DEF f
      <3> QED
        BY <2>2, <3>1, FiniteImage
    <2>5. {f[i] : i \in DOMAIN x[d]} = All(d)
      OBVIOUS
    <2>6. IsFiniteSet(UNION All(d))
      BY <2>3, <2>4, <2>5, FS_UNION
    <2> QED
      BY <2>3, <2>6
  <1> DEFINE g == [d \in Week |-> UNION All(d)]
  <1>2. IsFiniteSet(Week)
    <2>1. 0 \in Int /\ Days - 1 \in Int
      BY WeekFacts
    <2> QED
      BY <2>1, FS_Interval DEF Week
  <1>3. IsFiniteSet({g[d] : d \in Week})
    <2>1. g \in [Week -> SUBSET Piece]
      BY <1>1
    <2> HIDE DEF g
    <2> QED
      BY <1>2, <2>1, FiniteImage
  <1>4. {g[d] : d \in Week} = {UNION All(d) : d \in Week}
    OBVIOUS
  <1> HIDE DEF All
  <1>5. IsFiniteSet(UNION {UNION All(d) : d \in Week}) /\ UNION {UNION All(d) : d \in Week} \subseteq Piece
    BY <1>1, <1>3, <1>4, FS_UNION
  <1> QED
    BY <1>5 DEF PiecesOn, All

(* Earlier puts the pieces of a day in one order. *)
LEMMA EarlierOrders ==
    ASSUME NEW u \in Piece, NEW v \in Piece, NEW w \in Piece
    PROVE  /\ ~Earlier(u, u)
           /\ u # v => Earlier(u, v) \/ Earlier(v, u)
           /\ Earlier(u, v) /\ Earlier(v, w) => Earlier(u, w)
  <1>1. /\ u.s \in Int /\ u.e \in Int /\ u.p \in Int /\ u.of[1] \in Int /\ u.of[2] \in Int
        /\ v.s \in Int /\ v.e \in Int /\ v.p \in Int /\ v.of[1] \in Int /\ v.of[2] \in Int
        /\ w.s \in Int /\ w.e \in Int /\ w.p \in Int /\ w.of[1] \in Int /\ w.of[2] \in Int
    BY DEF Piece
  <1>2. /\ u = [s |-> u.s, e |-> u.e, p |-> u.p, of |-> u.of] /\ u.of = <<u.of[1], u.of[2]>>
        /\ v = [s |-> v.s, e |-> v.e, p |-> v.p, of |-> v.of] /\ v.of = <<v.of[1], v.of[2]>>
    BY DEF Piece
  <1>3. ~Earlier(u, u)
    BY <1>1 DEF Earlier, Before
  <1>4. u # v => Earlier(u, v) \/ Earlier(v, u)
    BY <1>1, <1>2 DEF Earlier, Before
  <1>5. Earlier(u, v) /\ Earlier(v, w) => Earlier(u, w)
    BY <1>1 DEF Earlier, Before
  <1> QED
    BY <1>3, <1>4, <1>5

(* Windows that end on the day they start on. *)
Upright == {w \in Window : w.s <= w.e}

(* A day after the shift: the minutes of its pieces, till the last one. *)
LEMMA ShiftedDayRuns ==
    ASSUME NEW x \in Schedules, NEW m \in Int, NEW k
    PROVE  /\ ShiftedDay(x, m, k) \in Seq(Upright)
           /\ \A r \in 0..DayLen - 2, p \in Nat :
                 Runs(ShiftedDay(x, m, k), r, p) <=> \E v \in PiecesOn(x, m, k) : In(v, r, p)
  <1> DEFINE S == PiecesOn(x, m, k)
             below == [w \in S |-> {v \in S : Earlier(v, w)}]
             list == Sorted(S, below)
             merged == Merged(list)
             day == [i \in DOMAIN merged |-> Stored(merged[i])]
  <1>1. S \subseteq Piece /\ IsFiniteSet(S)
    BY PiecesOnDay
  <1>2. Cardinality(S) \in Nat /\ list \in [1..Cardinality(S) -> S]
        /\ \A v \in S : \E n \in 1..Cardinality(S) : list[n] = v
    <2> HIDE DEF S
    <2>1. below \in [S -> SUBSET S]
      OBVIOUS
    <2>2. \A v \in S : v \notin below[v]
      BY <1>1, EarlierOrders
    <2>3. \A v, w \in S : v # w => v \in below[w] \/ w \in below[v]
      BY <1>1, EarlierOrders
    <2>4. \A v, w \in S : v \in below[w] => below[v] \subseteq below[w]
      BY <1>1, EarlierOrders
    <2> HIDE DEF below
    <2> QED
      BY <1>1, <2>1, <2>2, <2>3, <2>4, SortedLists
  <1> HIDE DEF S, below, list
  <1>3. Len(list) = Cardinality(S) /\ list \in Seq(S)
    BY <1>2, SeqDef, LenProperties
  <1>4. \A i \in 1..Len(list) :
           /\ list[i].s \in Nat /\ list[i].e \in Nat /\ list[i].p \in Nat
           /\ list[i].s < list[i].e /\ list[i].e <= DayLen
    BY <1>1, <1>2, <1>3 DEF Piece
  <1>5. merged \in Seq(SpanSet) /\ \A r \in Int, p \in Nat : Runs(merged, r, p) <=> Runs(list, r, p)
    BY <1>2, <1>3, <1>4, MergedRuns
  <1>6. \A r \in Int, p \in Nat : Runs(list, r, p) <=> \E v \in S : In(v, r, p)
    BY <1>2, <1>3 DEF Runs
  <1> HIDE DEF merged
  <1>7. DOMAIN merged = 1..Len(merged) /\ Len(merged) \in Nat /\ \A i \in 1..Len(merged) : merged[i] \in SpanSet
    <2>1. merged \in [1..Len(merged) -> SpanSet] /\ DOMAIN merged = 1..Len(merged) /\ Len(merged) \in Nat
      BY <1>5, LenProperties
    <2> QED
      BY <2>1
  <1>8. ASSUME NEW w \in SpanSet
        PROVE  /\ Stored(w) \in Upright
               /\ \A r \in 0..DayLen - 2, p \in Nat : In(Stored(w), r, p) <=> In(w, r, p)
    <2>1. w.s \in Nat /\ w.e \in Nat /\ w.p \in Nat /\ w.s < w.e /\ w.e <= DayLen
      BY DEF SpanSet
    <2>2. Min({w.e, DayLen - 1}) = IF w.e <= DayLen - 1 THEN w.e ELSE DayLen - 1
      BY <2>1, WeekFacts, MinOfTwo
    <2>3. Stored(w) \in [s : Nat, e : Int, p : Nat] /\ Stored(w).s = w.s
          /\ Stored(w).e = Min({w.e, DayLen - 1}) /\ Stored(w).p = w.p
      BY <2>1, <2>2, WeekFacts DEF Stored, SpanSet
    <2> QED
      BY <2>1, <2>2, <2>3, WeekFacts DEF Window, Upright, In
  <1>9. day \in [1..Len(merged) -> Upright] /\ \A i \in 1..Len(merged) : day[i] = Stored(merged[i])
    BY <1>7, <1>8
  <1>10. ShiftedDay(x, m, k) = day
    BY DEF ShiftedDay, merged, list, below, S
  <1> HIDE DEF day
  <1>11. day \in Seq(Upright) /\ Len(day) = Len(merged)
    BY <1>7, <1>9, SeqDef, LenProperties
  <1>12. ASSUME NEW r \in 0..DayLen - 2, NEW p \in Nat PROVE Runs(day, r, p) <=> Runs(merged, r, p)
    BY <1>7, <1>8, <1>9, <1>11 DEF Runs
  <1>13. \A r \in 0..DayLen - 2 : r \in Int
    BY WeekFacts
  <1> QED
    BY <1>5, <1>6, <1>10, <1>11, <1>12, <1>13 DEF S

-----------------------------------------------------------------------------
(* The minutes that pieces cover. *)

(* A multiple that is less has the lesser factor. *)
LEMMA FactorLess ==
    ASSUME NEW n \in Nat \ {0}, NEW a \in Int, NEW b \in Int, a * n < b * n
    PROVE  a < b
  <1> SUFFICES ASSUME a >= b PROVE FALSE
    OBVIOUS
  <1>1. a - b \in Nat /\ n \in Nat /\ (a - b) * n = a * n - b * n
    OBVIOUS
  <1>2. \A c \in Nat : c * n >= 0
    OBVIOUS
  <1>3. (a - b) * n >= 0
    BY <1>1, <1>2
  <1>4. a * n \in Int /\ b * n \in Int
    OBVIOUS
  <1> QED
    BY <1>1, <1>3, <1>4

(* The minutes that window i of day d runs after the shift, in minutes from *)
(* the start of the week, and past its end.                                 *)
From(x, m, d, i) == (d * DayLen + x[d][i].s + m) % WeekLen
Until(x, m, d, i) == From(x, m, d, i) + RunsUntil(x, d, x[d][i]) - x[d][i].s

(* The pieces on a day run the minutes between, counted from either week.   *)
LEMMA PiecesRun ==
    ASSUME NEW x \in Schedules, NEW m \in Int, NEW d \in Week, NEW i \in DOMAIN x[d],
           NEW k, NEW r \in 0..DayLen - 1, NEW p \in Nat
    PROVE  (\E v \in Pieces(x, m, d, i, k) : In(v, r, p)) <=>
              /\ x[d][i].p = p
              /\ \E j \in 0..2 * Days : /\ j % Days = k /\ From(x, m, d, i) <= j * DayLen + r
                                        /\ j * DayLen + r < Until(x, m, d, i)
  <1> DEFINE w == x[d][i]
             from == From(x, m, d, i)
             to == Until(x, m, d, i)
             On == {j \in 0..2 * Days : /\ j % Days = k /\ from < to
                                        /\ from < (j + 1) * DayLen /\ j * DayLen < to}
             cut(j) == [s |-> Max({from, j * DayLen}) - j * DayLen,
                        e |-> Min({to, (j + 1) * DayLen}) - j * DayLen, p |-> w.p, of |-> <<d, i>>]
  <1>1. Pieces(x, m, d, i, k) = {cut(j) : j \in On}
    BY DEF Pieces, From, Until
  <1>2. from \in Int /\ to \in Int
    <2>1. w \in Window /\ d \in Int /\ RunsUntil(x, d, w) \in Int
      BY SpanOfWindow, WeekFacts DEF Week
    <2>2. w.s \in Int
      BY <2>1 DEF Window
    <2>3. d * DayLen + w.s + m \in Int
      <3>1. d * DayLen \in Int
        BY <2>1, WeekFacts
      <3> HIDE DEF w
      <3> QED
        BY <2>2, <3>1
    <2>4. from \in Int
      BY <2>3, WeekFacts, DivMod DEF From
    <2> HIDE DEF from
    <2> QED
      BY <2>1, <2>2, <2>4 DEF Until, from
  <1>3. r \in Int /\ 0 <= r /\ r < DayLen
    BY WeekFacts
  <1> HIDE DEF from, to, w
  <1>4. ASSUME NEW j \in 0..2 * Days
        PROVE  /\ j \in On /\ In(cut(j), r, p) <=>
                      /\ w.p = p /\ j % Days = k
                      /\ from <= j * DayLen + r /\ j * DayLen + r < to
    <2> DEFINE a == j * DayLen
               b == (j + 1) * DayLen
    <2>1. j \in Int
      BY WeekFacts
    <2>2. a \in Int /\ b = a + DayLen
      BY <2>1, WeekFacts
    <2>3. j \in On <=> j % Days = k /\ from < to /\ from < b /\ a < to
      OBVIOUS
    <2>4. /\ cut(j).s = Max({from, a}) - a /\ cut(j).e = Min({to, b}) - a /\ cut(j).p = w.p
      OBVIOUS
    <2> HIDE DEF a, b, cut, On
    <2>5. Max({from, a}) = (IF from >= a THEN from ELSE a) /\ Min({to, b}) = (IF to <= b THEN to ELSE b)
      BY <1>2, <2>2, WeekFacts, MinOfTwo, MaxOfTwo
    <2>6. /\ (cut(j).s <= r) <=> (from <= a + r)
          /\ (r < cut(j).e) <=> (a + r < to)
          /\ from <= a + r /\ a + r < to => from < to /\ from < b /\ a < to
      BY <1>2, <1>3, <2>2, <2>4, <2>5, WeekFacts
    <2>7. In(cut(j), r, p) <=> w.p = p /\ from <= a + r /\ a + r < to
      BY <2>4, <2>6 DEF In
    <2> QED
      BY <2>3, <2>6, <2>7 DEF a
  <1> HIDE DEF cut
  <1>5. (\E v \in Pieces(x, m, d, i, k) : In(v, r, p)) <=> \E j \in On : In(cut(j), r, p)
    BY <1>1
  <1>6. (\E j \in On : In(cut(j), r, p)) <=> \E j \in 0..2 * Days : j \in On /\ In(cut(j), r, p)
    OBVIOUS
  <1> HIDE DEF On
  <1> QED
    BY <1>4, <1>5, <1>6 DEF from, to, w

(* A minute of the week is minute r of day k. *)
LEMMA MinuteOfDay ==
    ASSUME NEW t \in 0..WeekLen - 1
    PROVE  /\ t \div DayLen \in Week /\ t % DayLen \in 0..DayLen - 1
           /\ t = (t \div DayLen) * DayLen + (t % DayLen)
           /\ t % WeekLen = t /\ t \in Int
  <1>1. t \in Int /\ 0 <= t /\ t < Days * DayLen
    BY WeekFacts DEF WeekLen
  <1> DEFINE k == t \div DayLen
             r == t % DayLen
  <1>2. r \in 0..DayLen - 1 /\ k \in Int /\ t = DayLen * k + r
    BY <1>1, WeekFacts, DivMod
  <1> HIDE DEF k, r
  <1>3. DayLen * k = k * DayLen
    BY <1>2, WeekFacts
  <1>4. k < Days
    <2>1. k * DayLen < Days * DayLen
      BY <1>1, <1>2, <1>3, WeekFacts
    <2> QED
      BY <1>2, <2>1, WeekFacts, FactorLess
  <1>5. -1 < k
    <2>1. (-1) * DayLen < k * DayLen
      BY <1>1, <1>2, <1>3, WeekFacts
    <2> QED
      BY <1>2, <2>1, WeekFacts, FactorLess
  <1>6. t % WeekLen = t
    <2>1. t \in 0..WeekLen - 1 /\ 0 \in Int /\ WeekLen * 0 + t = t
      BY <1>1, WeekFacts
    <2> QED
      BY <2>1, WeekFacts, ModUnique
  <1> QED
    BY <1>1, <1>2, <1>3, <1>4, <1>5, <1>6, WeekFacts DEF k, r, Week

(* Counted from either week, they are the minutes of the week the window    *)
(* runs, one after the other.                                               *)
LEMMA EitherWeek ==
    ASSUME NEW from \in 0..WeekLen - 1, NEW n \in 0..WeekLen, NEW t \in 0..WeekLen - 1
    PROVE  (\E j \in 0..2 * Days : /\ j % Days = t \div DayLen /\ from <= j * DayLen + (t % DayLen)
                                   /\ j * DayLen + (t % DayLen) < from + n)
           <=> \E c \in 0..n - 1 : t = (from + c) % WeekLen
  <1> DEFINE k == t \div DayLen
             r == t % DayLen
  <1>1. /\ k \in Week /\ r \in 0..DayLen - 1 /\ t = k * DayLen + r /\ t % WeekLen = t /\ t \in Int
    BY MinuteOfDay
  <1>2. k \in Int /\ 0 <= k /\ k < Days /\ r \in Int /\ 0 <= r /\ r < DayLen
    BY <1>1, WeekFacts DEF Week
  <1>3. from \in Int /\ 0 <= from /\ from < WeekLen /\ n \in Int /\ 0 <= n /\ n <= WeekLen
    BY WeekFacts
  <1> HIDE DEF k, r
  <1>4. ASSUME NEW j \in 0..2 * Days, j % Days = k, from <= j * DayLen + r, j * DayLen + r < from + n
        PROVE  \E c \in 0..n - 1 : t = (from + c) % WeekLen
    <2> DEFINE q == j \div Days
               c == j * DayLen + r - from
    <2>1. j \in Int
      BY WeekFacts
    <2>2. q \in Int /\ j = Days * q + k
      BY <1>4, <2>1, WeekFacts, DivMod
    <2> HIDE DEF q
    <2>3. j * DayLen + r = (Days * DayLen) * q + t
      <3>1. (Days * q + k) * DayLen = (Days * DayLen) * q + k * DayLen
        BY <1>2, <2>2, WeekFacts
      <3> QED
        BY <1>1, <1>2, <2>2, <3>1, WeekFacts
    <2>4. (j * DayLen + r) % WeekLen = t
      <3>1. j * DayLen + r = WeekLen * q + t
        BY <2>3 DEF WeekLen
      <3>2. (WeekLen * q + t) % WeekLen = t % WeekLen
        BY <1>1, <2>2, WeekFacts, ModPlus
      <3> QED
        BY <1>1, <3>1, <3>2
    <2>5. c \in 0..n - 1 /\ from + c = j * DayLen + r
      BY <1>2, <1>3, <1>4, <2>1, WeekFacts
    <2> HIDE DEF c
    <2> QED
      BY <2>4, <2>5
  <1>5. ASSUME NEW c \in 0..n - 1, t = (from + c) % WeekLen
        PROVE  \E j \in 0..2 * Days : j % Days = k /\ from <= j * DayLen + r /\ j * DayLen + r < from + n
    <2> DEFINE v == from + c
               q == v \div WeekLen
               j == v \div DayLen
               g == Days * q + k
    <2>1. v \in Int /\ from <= v /\ v < from + n /\ 0 <= v /\ v < WeekLen + WeekLen
      BY <1>3, WeekFacts
    <2>2. q \in Int /\ v = WeekLen * q + t
      BY <1>5, <2>1, WeekFacts, DivMod
    <2> HIDE DEF q, v
    <2>3. g \in Int
      BY <1>2, <2>2, WeekFacts
    <2>4. v = DayLen * g + r
      <3>1. (Days * DayLen) * q + k * DayLen = DayLen * (Days * q + k)
        BY <1>2, <2>2, WeekFacts
      <3>2. (Days * DayLen) * q \in Int /\ k * DayLen \in Int
        BY <1>2, <2>2, WeekFacts
      <3> QED
        BY <1>1, <1>2, <2>2, <3>1, <3>2 DEF WeekLen
    <2>5. g % Days = k
      <3>1. k \in 0..Days - 1
        BY <1>2, WeekFacts
      <3> QED
        BY <2>2, <3>1, WeekFacts, ModUnique
    <2> HIDE DEF g
    <2>6. DayLen * g = g * DayLen /\ g * DayLen \in Int
      BY <2>3, WeekFacts
    <2>7. g < 2 * Days
      <3>1. g * DayLen < (2 * Days) * DayLen
        <4>1. (2 * Days) * DayLen = WeekLen + WeekLen
          BY WeekFacts DEF WeekLen
        <4> QED
          BY <1>2, <2>1, <2>4, <2>6, <4>1, WeekFacts
      <3> QED
        BY <2>3, <3>1, WeekFacts, FactorLess
    <2>8. -1 < g
      <3>1. (-1) * DayLen < g * DayLen
        BY <1>2, <2>1, <2>4, <2>6, WeekFacts
      <3> QED
        BY <2>3, <3>1, WeekFacts, FactorLess
    <2>9. g \in 0..2 * Days /\ g * DayLen + r = v
      BY <1>2, <2>3, <2>4, <2>6, <2>7, <2>8, WeekFacts
    <2> QED
      BY <2>1, <2>5, <2>9
  <1> QED
    BY <1>4, <1>5 DEF k, r

-----------------------------------------------------------------------------
(* The minutes a schedule means. *)

(* Covered, a window and a minute at a time. *)
LEMMA CoveredMinutes ==
    ASSUME NEW x, NEW t, NEW p
    PROVE  <<t, p>> \in Covered(x) <=>
              \E d \in Week : \E i \in DOMAIN x[d] :
                 /\ x[d][i].p = p
                 /\ \E c \in 0..((x[d][i].e - x[d][i].s + DayLen) % DayLen) - 1 :
                       t = (d * DayLen + x[d][i].s + c) % WeekLen
  BY DEF Covered, ToSet

(* A schedule covers minutes of the week, at powers. *)
LEMMA CoveredType ==
    ASSUME NEW x \in Schedules
    PROVE  Covered(x) \subseteq (0..WeekLen - 1) \X Nat
  <1> SUFFICES ASSUME NEW z \in Covered(x) PROVE z \in (0..WeekLen - 1) \X Nat
    OBVIOUS
  <1>0. PICK d \in Week : \E i \in DOMAIN x[d] :
           \E c \in 0..((x[d][i].e - x[d][i].s + DayLen) % DayLen) - 1 :
              z = <<(d * DayLen + x[d][i].s + c) % WeekLen, x[d][i].p>>
    BY DEF Covered, ToSet
  <1>1. PICK i \in DOMAIN x[d] : \E c \in 0..((x[d][i].e - x[d][i].s + DayLen) % DayLen) - 1 :
           z = <<(d * DayLen + x[d][i].s + c) % WeekLen, x[d][i].p>>
    BY <1>0
  <1> DEFINE w == x[d][i]
  <1>2. w \in Window /\ d \in Int
    BY SpanOfWindow, WeekFacts DEF Week
  <1>3. w.s \in Int /\ w.e \in Int /\ w.p \in Nat /\ d * DayLen \in Int
    BY <1>2, WeekFacts DEF Window
  <1> HIDE DEF w
  <1>4. ASSUME NEW c \in 0..((w.e - w.s + DayLen) % DayLen) - 1
        PROVE  (d * DayLen + w.s + c) % WeekLen \in 0..WeekLen - 1
    <2>1. w.e - w.s + DayLen \in Int
      BY <1>3, WeekFacts
    <2>2. (w.e - w.s + DayLen) % DayLen \in Int
      BY <2>1, WeekFacts, DivMod
    <2>3. c \in Int
      BY <2>2
    <2>4. d * DayLen + w.s + c \in Int
      BY <1>3, <2>3
    <2> QED
      BY <2>4, WeekFacts, DivMod
  <1> QED
    BY <1>1, <1>3, <1>4 DEF w

(* The minutes of the week that x means, with "until midnight" read as it is. *)
Busy(x, t, p) ==
    \E d \in Week : \E i \in DOMAIN x[d] :
       /\ x[d][i].p = p
       /\ \E c \in 0..RunsUntil(x, d, x[d][i]) - x[d][i].s - 1 :
             t = (d * DayLen + x[d][i].s + c) % WeekLen

(* How long a window runs, and what "until midnight" adds: a last minute. *)
LEMMA LengthOfWindow ==
    ASSUME NEW x \in Schedules, NEW d \in Week, NEW i \in DOMAIN x[d]
    PROVE  LET w == x[d][i]
               n == RunsUntil(x, d, w) - w.s
               l == (w.e - w.s + DayLen) % DayLen
           IN  n \in Int /\ l \in Int /\ (n = l \/ (l = DayLen - 1 - w.s /\ n = l + 1))
  <1> DEFINE w == x[d][i]
             n == RunsUntil(x, d, w) - w.s
             l == (w.e - w.s + DayLen) % DayLen
             e == EndMinutes(x, d, w)
  <1>1. w \in Window
    BY SpanOfWindow
  <1>2. w.s \in Int /\ w.e \in Int /\ 0 <= w.s /\ w.s < DayLen /\ 0 <= w.e /\ w.e < DayLen
    BY <1>1, WeekFacts DEF Window
  <1>3. e = w.e \/ (e = DayLen /\ w.e = DayLen - 1)
    BY DEF EndMinutes
  <1>4. n = (IF e < w.s THEN e + DayLen ELSE e) - w.s
    BY DEF RunsUntil
  <1> HIDE DEF e, n, w
  <1>5. l = IF w.e < w.s THEN w.e - w.s + DayLen ELSE w.e - w.s
    <2>1. CASE w.e < w.s
      <3> DEFINE r == w.e - w.s + DayLen
      <3>1. r \in 0..DayLen - 1 /\ DayLen * 0 + r = r /\ 0 \in Int
        BY <1>2, <2>1, WeekFacts
      <3> HIDE DEF r
      <3>2. r % DayLen = r
        BY <3>1, WeekFacts, ModUnique
      <3> QED
        BY <2>1, <3>2 DEF r
    <2>2. CASE ~(w.e < w.s)
      <3> DEFINE r == w.e - w.s
      <3>1. r \in 0..DayLen - 1 /\ DayLen * 1 + r = r + DayLen /\ 1 \in Int
        BY <1>2, <2>2, WeekFacts
      <3> HIDE DEF r
      <3>2. (r + DayLen) % DayLen = r
        BY <3>1, WeekFacts, ModUnique
      <3> QED
        BY <2>2, <3>2 DEF r
    <2> QED
      BY <2>1, <2>2
  <1> HIDE DEF l
  <1>6. n \in Int /\ l \in Int /\ (n = l \/ (l = DayLen - 1 - w.s /\ n = l + 1))
    BY <1>2, <1>3, <1>4, <1>5, WeekFacts
  <1> QED
    BY <1>6 DEF n, l, w

(* Save for the last minute of a day, the two readings agree. *)
LEMMA BusyIsCovered ==
    ASSUME NEW x \in Schedules, NEW t \in 0..WeekLen - 1, NEW p, t % DayLen # DayLen - 1
    PROVE  Busy(x, t, p) <=> <<t, p>> \in Covered(x)
  <1>1. ASSUME NEW d \in Week, NEW i \in DOMAIN x[d]
        PROVE  (\E c \in 0..RunsUntil(x, d, x[d][i]) - x[d][i].s - 1 :
                   t = (d * DayLen + x[d][i].s + c) % WeekLen) <=>
               (\E c \in 0..((x[d][i].e - x[d][i].s + DayLen) % DayLen) - 1 :
                   t = (d * DayLen + x[d][i].s + c) % WeekLen)
    <2> DEFINE w == x[d][i]
               n == RunsUntil(x, d, w) - w.s
               l == (w.e - w.s + DayLen) % DayLen
    <2>1. n \in Int /\ l \in Int /\ (n = l \/ (l = DayLen - 1 - w.s /\ n = l + 1))
      BY LengthOfWindow
    <2>2. w.s \in Int /\ d \in Int /\ d * DayLen \in Int
      <3>1. w \in Window
        BY SpanOfWindow
      <3>2. w.s \in Int
        BY <3>1 DEF Window
      <3>3. d \in Int
        BY WeekFacts DEF Week
      <3> QED
        BY <3>2, <3>3, WeekFacts
    <2> HIDE DEF n, l, w
    <2>3. l = DayLen - 1 - w.s => t # (d * DayLen + w.s + l) % WeekLen
      <3> SUFFICES ASSUME l = DayLen - 1 - w.s, t = (d * DayLen + w.s + l) % WeekLen PROVE FALSE
        OBVIOUS
      <3> DEFINE a == d * DayLen + w.s + l
      <3>1. a = DayLen * d + (DayLen - 1) /\ a \in Int
        <4>1. d * DayLen = DayLen * d
          BY <2>2, WeekFacts
        <4> QED
          BY <2>1, <2>2, <4>1, WeekFacts
      <3> HIDE DEF a
      <3>2. DayLen - 1 \in 0..DayLen - 1
        BY WeekFacts
      <3>3. a % DayLen = DayLen - 1
        BY <2>2, <3>1, <3>2, WeekFacts, ModUnique
      <3>4. (a % (Days * DayLen)) % DayLen = a % DayLen
        BY <3>1, WeekFacts, ModMod
      <3> QED
        BY <3>3, <3>4 DEF WeekLen, a
    <2>4. (\E c \in 0..n - 1 : t = (d * DayLen + w.s + c) % WeekLen) <=>
          (\E c \in 0..l - 1 : t = (d * DayLen + w.s + c) % WeekLen)
      <3> DEFINE P(c) == t = (d * DayLen + w.s + c) % WeekLen
      <3>1. CASE n = l
        BY <3>1
      <3>2. CASE l = DayLen - 1 - w.s /\ n = l + 1
        <4>1. ~P(l)
          BY <2>3, <3>2
        <4>2. \A c \in 0..n - 1 : c = l \/ c \in 0..l - 1
          BY <2>1, <3>2
        <4>3. \A c \in 0..l - 1 : c \in 0..n - 1
          BY <2>1, <3>2
        <4> HIDE DEF P
        <4>4. (\E c \in 0..n - 1 : P(c)) <=> (\E c \in 0..l - 1 : P(c))
          BY <4>1, <4>2, <4>3
        <4> QED
          BY <4>4 DEF P
      <3> QED
        BY <2>1, <3>1, <3>2
    <2> QED
      BY <2>4 DEF n, l, w
  <1> QED
    BY <1>1, CoveredMinutes DEF Busy

(* When no window crosses midnight, each day has its own minutes. *)
LEMMA UprightCovers ==
    ASSUME NEW y \in [Week -> Seq(Upright)], NEW t \in 0..WeekLen - 1, NEW p \in Nat
    PROVE  <<t, p>> \in Covered(y) <=> Runs(y[t \div DayLen], t % DayLen, p)
  <1>0. y \in Schedules
    <2>1. Seq(Upright) \subseteq Seq(Window)
      <3>1. Upright \subseteq Window
        BY DEF Upright
      <3> QED
        BY <3>1
    <2> QED
      BY <2>1 DEF Schedules
  <1>1. /\ t \div DayLen \in Week /\ t % DayLen \in 0..DayLen - 1
        /\ t = (t \div DayLen) * DayLen + (t % DayLen) /\ t \in Int
    BY MinuteOfDay
  <1>2. ASSUME NEW d \in Week, NEW i \in DOMAIN y[d]
        PROVE  (\E c \in 0..((y[d][i].e - y[d][i].s + DayLen) % DayLen) - 1 :
                   t = (d * DayLen + y[d][i].s + c) % WeekLen) <=>
               d = t \div DayLen /\ y[d][i].s <= t % DayLen /\ t % DayLen < y[d][i].e
    <2> DEFINE w == y[d][i]
               l == (w.e - w.s + DayLen) % DayLen
    <2>1. w \in Upright
      <3>1. y[d] \in Seq(Upright)
        OBVIOUS
      <3>2. y[d] \in [1..Len(y[d]) -> Upright] /\ DOMAIN y[d] = 1..Len(y[d])
        BY <3>1, LenProperties
      <3> QED
        BY <3>2
    <2>2. w.s \in Int /\ w.e \in Int /\ 0 <= w.s /\ w.s <= w.e /\ w.e <= DayLen - 1
      BY <2>1, WeekFacts DEF Upright, Window
    <2>3. d \in Int /\ 0 <= d /\ d <= Days - 1
      BY WeekFacts DEF Week
    <2> HIDE DEF w
    <2>4. l = w.e - w.s
      <3> DEFINE r == w.e - w.s
      <3>1. r \in 0..DayLen - 1 /\ DayLen * 1 + r = r + DayLen /\ 1 \in Int
        BY <2>2, WeekFacts
      <3> HIDE DEF r
      <3>2. (r + DayLen) % DayLen = r
        BY <3>1, WeekFacts, ModUnique
      <3> QED
        BY <3>2 DEF r
    <2> HIDE DEF l
    <2>5. ASSUME NEW r \in 0..DayLen - 1
          PROVE  /\ (d * DayLen + r) % WeekLen = d * DayLen + r
                 /\ (d * DayLen + r) \div DayLen = d /\ (d * DayLen + r) % DayLen = r
      <3>1. d * DayLen = DayLen * d /\ d * DayLen \in Int /\ r \in Int /\ 0 <= r /\ r < DayLen
        BY <2>3, WeekFacts
      <3>2. (DayLen * d + r) \div DayLen = d /\ (DayLen * d + r) % DayLen = r
        BY <2>3, WeekFacts, ModUnique
      <3>3. 0 <= d * DayLen
        BY <2>3, WeekFacts
      <3>4. d * DayLen <= WeekLen - DayLen
        <4>1. 0 <= (Days - 1 - d) * DayLen
          <5>1. Days - 1 - d \in Nat /\ DayLen \in Nat
            BY <2>3, WeekFacts
          <5> HIDE DEF Week
          <5> QED
            BY <5>1
        <4>2. (Days - 1 - d) * DayLen = WeekLen - DayLen - d * DayLen
          BY <2>3, WeekFacts DEF WeekLen
        <4> QED
          BY <3>1, <4>1, <4>2, WeekFacts
      <3>5. d * DayLen + r \in 0..WeekLen - 1
        BY <3>1, <3>3, <3>4, WeekFacts
      <3> QED
        BY <3>1, <3>2, <3>5, MinuteOfDay
    <2>6. ASSUME NEW c \in 0..l - 1, t = (d * DayLen + w.s + c) % WeekLen
          PROVE  d = t \div DayLen /\ w.s <= t % DayLen /\ t % DayLen < w.e
      <3> DEFINE r == w.s + c
      <3>1. r \in 0..DayLen - 1 /\ w.s <= r /\ r < w.e /\ c \in Int
        BY <2>2, <2>4, WeekFacts
      <3>2. d * DayLen + w.s + c = d * DayLen + r
        BY <2>2, <2>3, <3>1, WeekFacts
      <3> HIDE DEF r
      <3>3. t = d * DayLen + r /\ t \div DayLen = d /\ t % DayLen = r
        BY <2>5, <2>6, <3>1, <3>2
      <3> QED
        BY <3>1, <3>3
    <2>7. ASSUME d = t \div DayLen, w.s <= t % DayLen, t % DayLen < w.e
          PROVE  \E c \in 0..l - 1 : t = (d * DayLen + w.s + c) % WeekLen
      <3> DEFINE r == t % DayLen
                 c == r - w.s
      <3>1. r \in 0..DayLen - 1 /\ r \in Int /\ t = d * DayLen + r
        BY <1>1, <2>7, WeekFacts
      <3>2. w.s <= r /\ r < w.e
        BY <2>7
      <3> HIDE DEF r
      <3>3. c \in 0..l - 1 /\ d * DayLen + w.s + c = d * DayLen + r
        BY <2>2, <2>3, <2>4, <3>1, <3>2, WeekFacts
      <3>4. t = (d * DayLen + w.s + c) % WeekLen
        BY <2>5, <3>1, <3>3
      <3> HIDE DEF c
      <3> QED
        BY <3>3, <3>4
    <2> QED
      BY <2>6, <2>7 DEF l, w
  <1>3. \A d \in Week : DOMAIN y[d] = 1..Len(y[d])
    BY LenProperties
  <1>4. <<t, p>> \in Covered(y) <=>
          \E d \in Week : \E i \in 1..Len(y[d]) :
             y[d][i].p = p /\ d = t \div DayLen /\ y[d][i].s <= t % DayLen /\ t % DayLen < y[d][i].e
    BY <1>2, <1>3, CoveredMinutes
  <1> QED
    BY <1>1, <1>4 DEF Runs, In

-----------------------------------------------------------------------------
(* The shift. *)

(* Moving forth in one place is moving back in the other. *)
LEMMA MovedBack ==
    ASSUME NEW t \in 0..WeekLen - 1, NEW a \in Int, NEW m \in Int
    PROVE  t = (a + m) % WeekLen <=> (t - m) % WeekLen = a % WeekLen
  <1>1. t \in Int /\ t % WeekLen = t
    BY MinuteOfDay
  <1>2. ASSUME t = (a + m) % WeekLen PROVE (t - m) % WeekLen = a % WeekLen
    <2> DEFINE b == a + m
               n == -m
    <2>0. b \in Int /\ n \in Int /\ b + n = a /\ t + n = t - m
      BY <1>1
    <2> HIDE DEF b, n
    <2>1. ((b % WeekLen) + n) % WeekLen = (b + n) % WeekLen
      BY <2>0, WeekFacts, ModAdd
    <2>2. t = b % WeekLen
      BY <1>2 DEF b
    <2> QED
      BY <2>0, <2>1, <2>2
  <1>3. ASSUME (t - m) % WeekLen = a % WeekLen PROVE t = (a + m) % WeekLen
    <2> DEFINE b == t - m
    <2>0. b \in Int /\ b + m = t
      BY <1>1
    <2>1. b % WeekLen = a % WeekLen
      BY <1>3
    <2> HIDE DEF b
    <2>2. ((b % WeekLen) + m) % WeekLen = (b + m) % WeekLen
      BY <2>0, WeekFacts, ModAdd
    <2>3. ((a % WeekLen) + m) % WeekLen = (a + m) % WeekLen
      BY WeekFacts, ModAdd
    <2> QED
      BY <1>1, <2>0, <2>1, <2>2, <2>3
  <1> QED
    BY <1>2, <1>3

(* The pieces of the shifted schedule are the minutes it meant, moved.      *)
LEMMA PiecesAreBusy ==
    ASSUME NEW x \in Schedules, NEW m \in Int, NEW t \in 0..WeekLen - 1, NEW p \in Nat
    PROVE  (\E v \in PiecesOn(x, m, t \div DayLen) : In(v, t % DayLen, p)) <=>
           Busy(x, (t - m) % WeekLen, p)
  <1> DEFINE k == t \div DayLen
             r == t % DayLen
             u == (t - m) % WeekLen
  <1>1. k \in Week /\ r \in 0..DayLen - 1 /\ t \in Int
    BY MinuteOfDay
  <1>2. ASSUME NEW d \in Week, NEW i \in DOMAIN x[d]
        PROVE  (\E v \in Pieces(x, m, d, i, k) : In(v, r, p)) <=>
                  /\ x[d][i].p = p
                  /\ \E c \in 0..RunsUntil(x, d, x[d][i]) - x[d][i].s - 1 :
                        u = (d * DayLen + x[d][i].s + c) % WeekLen
    <2> DEFINE w == x[d][i]
               n == RunsUntil(x, d, w) - w.s
               base == d * DayLen + w.s
               from == From(x, m, d, i)
    <2>1. n \in 0..WeekLen /\ base \in Int
      <3>0. d \in Int
        BY WeekFacts DEF Week
      <3>1. /\ w \in Window /\ d \in Int /\ RunsUntil(x, d, w) \in Int
            /\ w.s <= RunsUntil(x, d, w) /\ RunsUntil(x, d, w) <= w.s + DayLen
        BY <3>0, SpanOfWindow
      <3>2. w.s \in Int
        BY <3>1 DEF Window
      <3>3. DayLen <= WeekLen
        <4>1. 0 <= (Days - 1) * DayLen
          <5>1. Days - 1 \in Nat /\ DayLen \in Nat
            BY WeekFacts
          <5> QED
            BY <5>1
        <4>2. (Days - 1) * DayLen = WeekLen - DayLen
          BY WeekFacts DEF WeekLen
        <4> QED
          BY <4>1, <4>2, WeekFacts
      <3>4. d * DayLen \in Int
        BY <3>1, WeekFacts
      <3> DEFINE R == RunsUntil(x, d, w)
      <3> HIDE DEF w
      <3>5. R \in Int /\ w.s <= R /\ R <= w.s + DayLen
        BY <3>1
      <3> HIDE DEF R
      <3>6. R - w.s \in 0..WeekLen
        BY <3>2, <3>3, <3>5, WeekFacts
      <3> QED
        BY <3>2, <3>4, <3>6 DEF R
    <2>2. from = (base + m) % WeekLen
      BY DEF From
    <2>3. Until(x, m, d, i) = from + n
      <3>1. w \in Window /\ RunsUntil(x, d, w) \in Int
        BY SpanOfWindow
      <3>2. w.s \in Int
        BY <3>1 DEF Window
      <3>3. from \in Int
        BY <2>1, <2>2, WeekFacts, DivMod
      <3> DEFINE R == RunsUntil(x, d, w)
      <3>4. Until(x, m, d, i) = from + R - w.s
        BY DEF Until
      <3>5. R \in Int
        BY <3>1
      <3> HIDE DEF R, w, from
      <3>6. from + R - w.s = from + (R - w.s)
        BY <3>2, <3>3, <3>5
      <3> QED
        BY <3>4, <3>6 DEF R
    <2> HIDE DEF n, base, from
    <2>4. from \in 0..WeekLen - 1
      BY <2>1, <2>2, WeekFacts, DivMod
    <2>5. (\E v \in Pieces(x, m, d, i, k) : In(v, r, p)) <=>
              /\ w.p = p
              /\ \E j \in 0..2 * Days : /\ j % Days = k /\ from <= j * DayLen + r
                                        /\ j * DayLen + r < from + n
      <3> HIDE DEF k, r
      <3>1. (\E v \in Pieces(x, m, d, i, k) : In(v, r, p)) <=>
              /\ x[d][i].p = p
              /\ \E j \in 0..2 * Days : /\ j % Days = k /\ From(x, m, d, i) <= j * DayLen + r
                                        /\ j * DayLen + r < Until(x, m, d, i)
        BY <1>1, PiecesRun
      <3> QED
        BY <2>3, <3>1 DEF from
    <2>6. (\E j \in 0..2 * Days : /\ j % Days = k /\ from <= j * DayLen + r
                                  /\ j * DayLen + r < from + n)
          <=> \E c \in 0..n - 1 : t = (from + c) % WeekLen
      BY <2>1, <2>4, EitherWeek
    <2>7. ASSUME NEW c \in 0..n - 1
          PROVE  t = (from + c) % WeekLen <=> u = (base + c) % WeekLen
      <3>1. c \in Int
        BY <2>1
      <3>2. (from + c) % WeekLen = (base + m + c) % WeekLen
        <4> DEFINE b == base + m
        <4>1. b \in Int
          BY <2>1
        <4>2. from = b % WeekLen
          BY <2>2
        <4> HIDE DEF b
        <4>3. ((b % WeekLen) + c) % WeekLen = (b + c) % WeekLen
          BY <3>1, <4>1, WeekFacts, ModAdd
        <4> QED
          BY <4>2, <4>3 DEF b
      <3>3. base + m + c = (base + c) + m /\ base + c \in Int
        BY <2>1, <3>1
      <3>4. t = ((base + c) + m) % WeekLen <=> (t - m) % WeekLen = (base + c) % WeekLen
        BY <3>3, MovedBack
      <3> QED
        BY <3>2, <3>3, <3>4
    <2>8. (\E c \in 0..n - 1 : t = (from + c) % WeekLen) <=> \E c \in 0..n - 1 : u = (base + c) % WeekLen
      BY <2>7
    <2> HIDE DEF k, r, u, w
    <2> QED
      BY <2>5, <2>6, <2>8 DEF n, base, w
  <1> HIDE DEF k, r, u
  <1>3. (\E v \in PiecesOn(x, m, k) : In(v, r, p)) <=>
           \E d \in Week : \E i \in DOMAIN x[d] : \E v \in Pieces(x, m, d, i, k) : In(v, r, p)
    BY DEF PiecesOn
  <1>4. Busy(x, u, p) <=> \E d \in Week : \E i \in DOMAIN x[d] : \E v \in Pieces(x, m, d, i, k) : In(v, r, p)
    BY <1>2 DEF Busy
  <1> QED
    BY <1>3, <1>4 DEF k, r, u

(* A shifted schedule is a schedule, and none of its windows crosses        *)
(* midnight.                                                                *)
LEMMA ShiftType ==
    ASSUME NEW x \in Schedules, NEW m \in Int
    PROVE  Shift(x, m) \in [Week -> Seq(Upright)] /\ Shift(x, m) \in Schedules
  <1>1. \A k \in Week : ShiftedDay(x, m, k) \in Seq(Upright)
    BY ShiftedDayRuns
  <1>2. Seq(Upright) \subseteq Seq(Window)
    BY DEF Upright
  <1> QED
    BY <1>1, <1>2 DEF Shift, Schedules

(* timeshift.py, shift_schedule: shifting a schedule moves the minutes it   *)
(* runs, in the week and at their powers, and does nothing else, however    *)
(* its windows were split at midnights and joined; save for the last minute *)
(* of a day, which the registers can't say (timeshift.py:10).               *)
THEOREM ShiftMoves ==
    ASSUME NEW x \in Schedules, NEW m \in Int, NEW t \in 0..WeekLen - 1, NEW p \in Nat,
           t % DayLen # DayLen - 1, ((t - m) % WeekLen) % DayLen # DayLen - 1
    PROVE  <<t, p>> \in Covered(Shift(x, m)) <=> <<(t - m) % WeekLen, p>> \in Covered(x)
  <1> DEFINE k == t \div DayLen
             r == t % DayLen
             u == (t - m) % WeekLen
  <1>1. k \in Week /\ r \in 0..DayLen - 1 /\ t \in Int
    BY MinuteOfDay
  <1>2. r \in 0..DayLen - 2
    BY <1>1, WeekFacts
  <1>3. u \in 0..WeekLen - 1
    BY <1>1, WeekFacts, DivMod
  <1> HIDE DEF k, r, u
  <1>4. <<t, p>> \in Covered(Shift(x, m)) <=> Runs(Shift(x, m)[k], r, p)
    BY ShiftType, UprightCovers DEF k, r
  <1>5. Runs(Shift(x, m)[k], r, p) <=> \E v \in PiecesOn(x, m, k) : In(v, r, p)
    BY <1>1, <1>2, ShiftedDayRuns DEF Shift
  <1>6. (\E v \in PiecesOn(x, m, k) : In(v, r, p)) <=> Busy(x, u, p)
    BY PiecesAreBusy DEF k, r, u
  <1>7. Busy(x, u, p) <=> <<u, p>> \in Covered(x)
    BY <1>3, BusyIsCovered DEF u
  <1> QED
    BY <1>4, <1>5, <1>6, <1>7 DEF u

-----------------------------------------------------------------------------
(* What the registers hold. *)

(* A sorted list of some kind of thing. *)
LEMMA SortedType ==
    ASSUME NEW T, NEW S \in SUBSET T, IsFiniteSet(S), NEW below \in [S -> SUBSET S],
           \A x \in S : x \notin below[x],
           \A x, y \in S : x # y => x \in below[y] \/ y \in below[x],
           \A x, y \in S : x \in below[y] => below[x] \subseteq below[y]
    PROVE  /\ Sorted(S, below) \in Seq(T) /\ Len(Sorted(S, below)) = Cardinality(S)
           /\ Cardinality(S) \in Nat
           /\ \A n \in 1..Cardinality(S) : Sorted(S, below)[n] \in S
           /\ \A x \in S : \E n \in 1..Cardinality(S) : Sorted(S, below)[n] = x
  <1> DEFINE l == Sorted(S, below)
             n == Cardinality(S)
  <1>1. n \in Nat /\ l \in [1..n -> S] /\ \A x \in S : \E i \in 1..n : l[i] = x
    BY SortedLists
  <1> HIDE DEF l, n
  <1>2. l \in Seq(S) /\ Len(l) = n
    BY <1>1, SeqDef, LenProperties
  <1>3. l \in Seq(T) /\ \A i \in 1..n : l[i] \in S
    <2>1. l \in [1..n -> T]
      BY <1>1
    <2> QED
      BY <1>1, <2>1, SeqDef
  <1> QED
    BY <1>1, <1>2, <1>3 DEF l, n

(* What is kept of a list: just the elements at the places I. *)
LEMMA SublistKeeps ==
    ASSUME NEW T, NEW list \in Seq(T), NEW I \in SUBSET (1..Len(list))
    PROVE  /\ IsFiniteSet(I) /\ Cardinality(I) \in Nat
           /\ Sublist(list, I) \in Seq(T) /\ Len(Sublist(list, I)) = Cardinality(I)
           /\ \A n \in 1..Cardinality(I) : \E i \in I : Sublist(list, I)[n] = list[i]
           /\ \A i \in I : \E n \in 1..Cardinality(I) : Sublist(list, I)[n] = list[i]
  <1> DEFINE N == Len(list)
             b == [i \in I |-> {j \in I : j < i}]
             kept == Sorted(I, b)
             sub == [n \in DOMAIN kept |-> list[kept[n]]]
             c == Cardinality(I)
  <1>1. N \in Nat /\ \A i \in 1..N : list[i] \in T
    BY LenProperties
  <1>2. I \in SUBSET (1..N)
    OBVIOUS
  <1> HIDE DEF N
  <1>3. \A i \in I : i \in Int /\ list[i] \in T
    BY <1>1, <1>2
  <1>4. IsFiniteSet(I)
    <2>1. IsFiniteSet(1..N)
      BY <1>1, FS_Interval
    <2> QED
      BY <1>2, <2>1, FS_Subset
  <1>5. b \in [I -> SUBSET I] /\ \A i, j \in I : i \in b[j] <=> i < j
    OBVIOUS
  <1> HIDE DEF b
  <1>6. \A i \in I : i \notin b[i]
    BY <1>3, <1>5
  <1>7. \A i, j \in I : i # j => i \in b[j] \/ j \in b[i]
    BY <1>3, <1>5
  <1>8. \A i, j \in I : i \in b[j] => b[i] \subseteq b[j]
    <2> SUFFICES ASSUME NEW i \in I, NEW j \in I, i \in b[j], NEW h \in b[i] PROVE h \in b[j]
      OBVIOUS
    <2>1. h \in I
      BY <1>5
    <2> QED
      BY <1>3, <1>5, <2>1
  <1>9. /\ c \in Nat /\ kept \in [1..c -> I]
        /\ \A i \in I : \E n \in 1..c : kept[n] = i
    BY <1>4, <1>5, <1>6, <1>7, <1>8, SortedLists
  <1> HIDE DEF kept, c
  <1>10. sub \in [1..c -> T] /\ \A n \in 1..c : sub[n] = list[kept[n]] /\ kept[n] \in I
    BY <1>3, <1>9
  <1>11. Sublist(list, I) = sub
    BY DEF Sublist, kept, b
  <1> HIDE DEF sub
  <1>12. sub \in Seq(T) /\ Len(sub) = c
    BY <1>9, <1>10, SeqDef, LenProperties
  <1>13. \A i \in I : \E n \in 1..c : sub[n] = list[i]
    BY <1>9, <1>10
  <1> QED
    BY <1>4, <1>9, <1>10, <1>11, <1>12, <1>13 DEF c

(* A beginning that is kept whole stays where it is. *)
LEMMA SublistStart ==
    ASSUME NEW T, NEW list \in Seq(T), NEW I \in SUBSET (1..Len(list)), NEW k \in Nat,
           \A n \in 1..k : n \in I
    PROVE  \A n \in 1..k : n <= Cardinality(I) /\ Sublist(list, I)[n] = list[n]
  <1> SUFFICES ASSUME NEW n \in 1..k
               PROVE  n <= Cardinality(I) /\ Sublist(list, I)[n] = list[n]
    OBVIOUS
  <1> DEFINE b == [i \in I |-> {j \in I : j < i}]
             c == Cardinality(I)
             rank(i) == Cardinality(b[i])
             kept == Sorted(I, b)
  <1>0. IsFiniteSet(I) /\ c \in Nat
    BY SublistKeeps
  <1>1. /\ n \in I /\ n \in Nat /\ n >= 1 /\ \A j \in 1..n : j \in I
        /\ \A i \in I : i \in Int /\ i >= 1
    <2>1. Len(list) \in Nat
      BY LenProperties
    <2>2. \A i \in 1..Len(list) : i \in Int /\ i >= 1
      BY <2>1
    <2> QED
      BY <2>2
  <1>2. ASSUME NEW i \in 1..n PROVE b[i] = 1..i - 1
    <2>1. i \in I /\ i \in Int /\ i <= n
      BY <1>1
    <2>2. \A j \in 1..i - 1 : j \in 1..n /\ j < i
      BY <1>1, <2>1
    <2>3. \A j \in I : j < i => j \in 1..i - 1
      BY <1>1, <2>1
    <2>4. {j \in I : j < i} = 1..i - 1
      BY <1>1, <2>2, <2>3
    <2> QED
      BY <2>1, <2>4
  <1>3. \A i \in I : b[i] \in SUBSET I /\ \A j \in I : j \in b[i] <=> j < i
    OBVIOUS
  <1> HIDE DEF b
  <1>4. \A i \in 1..n : rank(i) = i - 1
    <2> SUFFICES ASSUME NEW i \in 1..n PROVE rank(i) = i - 1
      OBVIOUS
    <2>1. i \in Int /\ i - 1 \in Int /\ i >= 1
      BY <1>1
    <2>2. Cardinality(1..i - 1) = IF 1 > i - 1 THEN 0 ELSE i - 1 - 1 + 1
      BY <2>1, FS_Interval
    <2> QED
      BY <1>2, <2>1, <2>2
  <1>5. ASSUME NEW i \in I, rank(i) = n - 1 PROVE i = n
    <2>1. CASE i < n
      <3>1. i \in 1..n /\ i # n
        BY <1>1, <2>1
      <3> QED
        BY <1>1, <1>4, <1>5, <3>1
    <2>2. CASE i > n
      <3>1. n \in b[i] /\ n \notin b[n] /\ b[n] \in SUBSET b[i]
        <4>1. \A j \in I : j < n => j < i
          BY <1>1, <2>2
        <4>2. b[n] \in SUBSET b[i]
          BY <1>1, <1>3, <4>1
        <4> QED
          BY <1>1, <1>3, <2>2, <4>2
      <3>2. IsFiniteSet(b[i])
        BY <1>0, <1>3, FS_Subset
      <3>3. rank(n) # rank(i)
        BY <3>1, <3>2, FS_Subset
      <3>4. rank(n) = n - 1
        BY <1>1, <1>4
      <3> QED
        BY <1>5, <3>3, <3>4
    <2> QED
      BY <1>1, <2>1, <2>2
  <1>6. rank(n) = n - 1
    BY <1>1, <1>4
  <1>7. n <= c
    <2>1. 1..n \in SUBSET I
      BY <1>1
    <2>2. Cardinality(1..n) = IF 1 > n THEN 0 ELSE n - 1 + 1
      BY <1>1, FS_Interval
    <2>3. Cardinality(1..n) = n
      BY <1>1, <2>2
    <2> QED
      BY <1>0, <2>1, <2>3, FS_Subset
  <1>8. n \in 1..c /\ DOMAIN kept = 1..c
    BY <1>0, <1>1, <1>7 DEF Sorted
  <1>9. kept[n] = n
    BY <1>1, <1>5, <1>6, <1>8 DEF Sorted
  <1>10. Sublist(list, I) = [m \in DOMAIN kept |-> list[kept[m]]]
    BY DEF Sublist, b
  <1> HIDE DEF kept
  <1> QED
    BY <1>7, <1>8, <1>9, <1>10

(* control.py: what the registers keep of a day.  At most MaxWindows, each   *)
(* of them one of the day's first that runs at all.                          *)
LEMMA HeldDayKeeps ==
    ASSUME NEW day \in Seq(Window)
    PROVE  /\ HeldDay(day) \in Seq(Window) /\ Len(HeldDay(day)) <= MaxWindows
           /\ \A n \in 1..Len(HeldDay(day)) :
                 \E i \in 1..Len(day) : day[i].s # day[i].e /\ HeldDay(day)[n] = day[i]
           /\ Len(day) <= MaxWindows =>
                 \A i \in 1..Len(day) : day[i].s # day[i].e =>
                    \E n \in 1..Len(HeldDay(day)) : HeldDay(day)[n] = day[i]
  <1> DEFINE N == Len(day)
             M == Min({MaxWindows, N})
             active == {i \in 1..M : day[i].s # day[i].e}
             c == Cardinality(active)
             held == Sublist(day, active)
  <1>1. N \in Nat /\ MaxWindows \in Nat
    BY WeekAssumption, LenProperties
  <1> HIDE DEF N
  <1>2. M = IF MaxWindows <= N THEN MaxWindows ELSE N
    BY <1>1, MinOfTwo
  <1>3. M \in Nat /\ M <= N /\ M <= MaxWindows /\ (N <= MaxWindows => M = N)
    BY <1>1, <1>2
  <1> HIDE DEF M
  <1>4. /\ active \in SUBSET (1..N) /\ active \in SUBSET (1..M)
        /\ \A i \in active : day[i].s # day[i].e
        /\ N <= MaxWindows => \A i \in 1..N : day[i].s # day[i].e => i \in active
    BY <1>1, <1>3
  <1>5. HeldDay(day) = held
    BY DEF HeldDay, M, N
  <1> HIDE DEF active
  <1>6. /\ c \in Nat /\ held \in Seq(Window) /\ Len(held) = c
        /\ \A n \in 1..c : \E i \in active : held[n] = day[i]
        /\ \A i \in active : \E n \in 1..c : held[n] = day[i]
    BY <1>4, SublistKeeps DEF N
  <1>7. c <= MaxWindows
    <2>1. IsFiniteSet(1..M) /\ Cardinality(1..M) = IF 1 > M THEN 0 ELSE M - 1 + 1
      BY <1>3, FS_Interval
    <2>2. IsFiniteSet(1..M) /\ Cardinality(1..M) = M
      BY <1>3, <2>1
    <2>3. c <= M
      BY <1>4, <2>2, FS_Subset
    <2> HIDE DEF c
    <2> QED
      BY <1>1, <1>3, <1>6, <2>3
  <1> HIDE DEF c, held
  <1>8. \A n \in 1..c : \E i \in 1..N : day[i].s # day[i].e /\ held[n] = day[i]
    BY <1>4, <1>6
  <1>9. N <= MaxWindows =>
           \A i \in 1..N : day[i].s # day[i].e => \E n \in 1..c : held[n] = day[i]
    BY <1>4, <1>6
  <1> QED
    BY <1>5, <1>6, <1>7, <1>8, <1>9 DEF N

(* The schedules the registers can hold. *)
Holdable == {x \in Schedules : \A d \in Week : Len(x[d]) <= MaxWindows}

(* What the registers hold of a schedule is one of those.                    *)
LEMMA HeldType ==
    ASSUME NEW x \in Schedules
    PROVE  Held(x) \in Holdable
  <1>1. \A d \in Week : x[d] \in Seq(Window)
    BY DEF Schedules
  <1>2. \A d \in Week : HeldDay(x[d]) \in Seq(Window) /\ Len(HeldDay(x[d])) <= MaxWindows
    BY <1>1, HeldDayKeeps
  <1> QED
    BY <1>2 DEF Held, Holdable, Schedules

(* Window w of day d runs in minute t of the week. *)
During(w, d, t) ==
    \E c \in 0..((w.e - w.s + DayLen) % DayLen) - 1 : t = (d * DayLen + w.s + c) % WeekLen

(* Covered, by window and minute.                                            *)
LEMMA CoveredDuring ==
    ASSUME NEW x, NEW t, NEW p
    PROVE  <<t, p>> \in Covered(x) <=>
              \E d \in Week : \E i \in DOMAIN x[d] : x[d][i].p = p /\ During(x[d][i], d, t)
  BY DEF Covered, ToSet, During

(* What fits runs as it was: only windows that run for no time are dropped.  *)
LEMMA HeldCovers ==
    ASSUME NEW x \in Schedules, Crowded(x) = {}
    PROVE  Covered(Held(x)) = Covered(x)
  <1> DEFINE H == Held(x)
  <1>1. H \in Schedules /\ \A d \in Week : H[d] = HeldDay(x[d]) /\ x[d] \in Seq(Window)
    BY HeldType DEF Held, Holdable, Schedules
  <1>2. \A d \in Week : Len(x[d]) <= MaxWindows
    <2>1. \A d \in Week : Len(x[d]) \in Nat
      BY <1>1, LenProperties
    <2>2. \A d \in Week : ~(Len(x[d]) > MaxWindows)
      BY DEF Crowded
    <2>3. MaxWindows \in Nat
      BY WeekAssumption
    <2> QED
      BY <2>1, <2>2, <2>3
  <1> HIDE DEF H
  <1>3. ASSUME NEW w \in Window, w.s = w.e, NEW d, NEW t, During(w, d, t) PROVE FALSE
    <2>1. w.s \in Int /\ w.e \in Int
      BY DEF Window
    <2>2. w.e - w.s + DayLen = DayLen * 1 + 0 /\ 1 \in Int /\ 0 \in 0..DayLen - 1
      BY <1>3, <2>1, WeekFacts
    <2>3. (DayLen * 1 + 0) % DayLen = 0
      BY <2>2, WeekFacts, ModUnique
    <2>4. (w.e - w.s + DayLen) % DayLen = 0
      BY <2>2, <2>3
    <2>5. 0..0 - 1 = {}
      OBVIOUS
    <2> QED
      BY <1>3, <2>4, <2>5 DEF During
  <1>4. \A d \in Week : DOMAIN x[d] = 1..Len(x[d]) /\ DOMAIN H[d] = 1..Len(H[d])
    <2>1. \A d \in Week : H[d] \in Seq(Window)
      BY <1>1 DEF Schedules
    <2> QED
      BY <1>1, <2>1, LenProperties
  <1>5. ASSUME NEW t, NEW p, <<t, p>> \in Covered(H) PROVE <<t, p>> \in Covered(x)
    <2>1. PICK d \in Week : \E i \in DOMAIN H[d] : H[d][i].p = p /\ During(H[d][i], d, t)
      BY <1>5, CoveredDuring
    <2>2. PICK n \in 1..Len(H[d]) : H[d][n].p = p /\ During(H[d][n], d, t)
      BY <1>4, <2>1
    <2>3. PICK i \in 1..Len(x[d]) : H[d][n] = x[d][i]
      BY <1>1, HeldDayKeeps
    <2>4. i \in DOMAIN x[d] /\ x[d][i].p = p /\ During(x[d][i], d, t)
      BY <1>4, <2>2, <2>3
    <2> QED
      BY <2>4, CoveredDuring
  <1>6. ASSUME NEW t, NEW p, <<t, p>> \in Covered(x) PROVE <<t, p>> \in Covered(H)
    <2>1. PICK d \in Week : \E i \in DOMAIN x[d] : x[d][i].p = p /\ During(x[d][i], d, t)
      BY <1>6, CoveredDuring
    <2>2. PICK i \in 1..Len(x[d]) : x[d][i].p = p /\ During(x[d][i], d, t)
      BY <1>4, <2>1
    <2>3. x[d][i] \in Window
      <3>1. x[d] \in [1..Len(x[d]) -> Window]
        BY <1>1, LenProperties
      <3> QED
        BY <3>1
    <2>4. x[d][i].s # x[d][i].e
      BY <1>3, <2>2, <2>3
    <2>5. PICK n \in 1..Len(H[d]) : H[d][n] = x[d][i]
      <3>1. x[d] \in Seq(Window) /\ H[d] = HeldDay(x[d]) /\ Len(x[d]) <= MaxWindows
        BY <1>1, <1>2
      <3>2. \A j \in 1..Len(x[d]) : x[d][j].s # x[d][j].e =>
               \E n \in 1..Len(HeldDay(x[d])) : HeldDay(x[d])[n] = x[d][j]
        BY <3>1, HeldDayKeeps
      <3> QED
        BY <2>4, <3>1, <3>2
    <2>6. n \in DOMAIN H[d] /\ H[d][n].p = p /\ During(H[d][n], d, t)
      BY <1>4, <2>2, <2>5
    <2> QED
      BY <2>6, CoveredDuring
  <1>7. Covered(H) \subseteq (0..WeekLen - 1) \X Nat /\ Covered(x) \subseteq (0..WeekLen - 1) \X Nat
    BY <1>1, CoveredType
  <1>8. \A z \in (0..WeekLen - 1) \X Nat : z = <<z[1], z[2]>>
    OBVIOUS
  <1>9. \A z : z \in Covered(H) <=> z \in Covered(x)
    BY <1>5, <1>6, <1>7, <1>8
  <1> QED
    BY <1>9 DEF H

-----------------------------------------------------------------------------
(* The form. *)

(* A window of the form, and the days it runs on.                            *)
FormWindow == [win : Window, on : SUBSET Week]

(* Windows are ordered by start, end and power. *)
LEMMA WindowOrder ==
    ASSUME NEW S \in SUBSET Window
    PROVE  /\ \A w \in S : ~Before(w, w)
           /\ \A v, w \in S : v # w => Before(v, w) \/ Before(w, v)
           /\ \A u, v, w \in S : Before(u, v) /\ Before(v, w) => Before(u, w)
  <1>1. \A w \in S : /\ w.s \in Int /\ w.e \in Int /\ w.p \in Int
                     /\ w = [s |-> w.s, e |-> w.e, p |-> w.p]
    BY DEF Window
  <1>2. \A w \in S : ~Before(w, w)
    BY <1>1 DEF Before
  <1>3. ASSUME NEW v \in S, NEW w \in S, v # w PROVE Before(v, w) \/ Before(w, v)
    <2>1. v.s # w.s \/ v.e # w.e \/ v.p # w.p
      BY <1>1, <1>3
    <2> QED
      BY <1>1, <2>1 DEF Before
  <1>4. ASSUME NEW u \in S, NEW v \in S, NEW w \in S, Before(u, v), Before(v, w) PROVE Before(u, w)
    BY <1>1, <1>4 DEF Before
  <1> QED
    BY <1>2, <1>3, <1>4

(* What the form sends is a schedule. *)
LEMMA FromFormType ==
    ASSUME NEW f \in Seq(FormWindow)
    PROVE  FromForm(f) \in Schedules
  <1>1. DOMAIN f = 1..Len(f) /\ Len(f) \in Nat /\ f \in [1..Len(f) -> FormWindow]
    BY LenProperties
  <1>2. ASSUME NEW S \in SUBSET Window, IsFiniteSet(S) PROVE SortedWindows(S) \in Seq(Window)
    <2> DEFINE below == [w \in S |-> {v \in S : Before(v, w)}]
    <2>0. below \in [S -> SUBSET S] /\ \A v, w \in S : v \in below[w] <=> Before(v, w)
      OBVIOUS
    <2>1. /\ \A w \in S : ~Before(w, w)
          /\ \A v, w \in S : v # w => Before(v, w) \/ Before(w, v)
          /\ \A u, v, w \in S : Before(u, v) /\ Before(v, w) => Before(u, w)
      BY WindowOrder
    <2> HIDE DEF below
    <2>5. /\ \A w \in S : w \notin below[w]
          /\ \A v, w \in S : v # w => v \in below[w] \/ w \in below[v]
      BY <2>0, <2>1
    <2>6. \A v, w \in S : v \in below[w] => below[v] \subseteq below[w]
      BY <2>0, <2>1
    <2>7. Sorted(S, below) \in Seq(Window)
      BY <1>2, <2>0, <2>5, <2>6, SortedType
    <2> QED
      BY <2>7 DEF SortedWindows, below
  <1>3. ASSUME NEW d \in Week
        PROVE  SortedWindows({f[i].win : i \in {i \in DOMAIN f \ FormErrors(f) : d \in f[i].on}}) \in Seq(Window)
    <2> DEFINE I == {i \in DOMAIN f \ FormErrors(f) : d \in f[i].on}
               g == [i \in I |-> f[i].win]
    <2>1. IsFiniteSet(I)
      <3>1. I \in SUBSET (1..Len(f))
        BY <1>1
      <3>2. IsFiniteSet(1..Len(f))
        BY <1>1, FS_Interval
      <3> QED
        BY <3>1, <3>2, FS_Subset
    <2>2. \A i \in I : f[i] \in FormWindow
      BY <1>1
    <2> HIDE DEF I
    <2>3. g \in [I -> Window] /\ \A i \in I : g[i] = f[i].win
      BY <2>2 DEF FormWindow
    <2> HIDE DEF g
    <2>4. {g[i] : i \in I} \in SUBSET Window /\ {g[i] : i \in I} = {f[i].win : i \in I}
      BY <2>3
    <2>5. IsFiniteSet({g[i] : i \in I})
      <3>1. g \in [I -> Window]
        BY <2>3
      <3> QED
        BY <2>1, <3>1, FiniteImage
    <2> QED
      BY <1>2, <2>4, <2>5 DEF I
  <1> QED
    BY <1>3 DEF FromForm, Schedules

(* Every window of the week, whatever its day. *)
WindowsOf(x) == UNION {ToSet(x[d]) : d \in Week}

(* There are finitely many, each on some day, and each used so many times.   *)
LEMMA FewWindows ==
    ASSUME NEW x \in Schedules
    PROVE  /\ WindowsOf(x) \in SUBSET Window /\ IsFiniteSet(WindowsOf(x))
           /\ \A w \in WindowsOf(x) : Uses(x, w) \in Nat
           /\ \A w \in WindowsOf(x) : DaysOf(x, w) # {} /\ Min(DaysOf(x, w)) \in Nat
           /\ \A d \in Week : ToSet(x[d]) \subseteq WindowsOf(x)
  <1>1. \A d \in Week : /\ x[d] \in Seq(Window) /\ DOMAIN x[d] = 1..Len(x[d]) /\ Len(x[d]) \in Nat
                        /\ x[d] \in [1..Len(x[d]) -> Window]
    BY LenProperties DEF Schedules
  <1>2. \A d \in Week : ToSet(x[d]) \in SUBSET Window
    BY <1>1 DEF ToSet
  <1>3. ASSUME NEW d \in Week PROVE IsFiniteSet(ToSet(x[d])) /\ IsFiniteSet({d} \X DOMAIN x[d])
    <2>0. Len(x[d]) \in Int
      BY <1>1
    <2>1. IsFiniteSet(1..Len(x[d])) /\ IsFiniteSet({d})
      <3>1. IsFiniteSet(1..Len(x[d]))
        BY <2>0, FS_Interval
      <3>2. IsFiniteSet({d})
        BY FS_Singleton
      <3> QED
        BY <3>1, <3>2
    <2>2. IsFiniteSet({x[d][i] : i \in 1..Len(x[d])})
      <3> DEFINE l == x[d]
                 S == 1..Len(x[d])
      <3>1. l \in [S -> Window] /\ IsFiniteSet(S)
        BY <1>1, <2>1
      <3> HIDE DEF l, S
      <3>2. IsFiniteSet({l[i] : i \in S})
        BY <3>1, FiniteImage
      <3> QED
        BY <3>2 DEF l, S
    <2>3. IsFiniteSet({d} \X (1..Len(x[d])))
      BY <2>1, FS_Product
    <2> QED
      BY <1>1, <2>2, <2>3 DEF ToSet
  <1>4. IsFiniteSet(Week) /\ Week \subseteq Nat
    <2>1. Days \in Nat
      BY WeekAssumption
    <2> QED
      BY <2>1, FS_Interval DEF Week
  <1>5. IsFiniteSet(WindowsOf(x))
    <2> DEFINE f == [d \in Week |-> ToSet(x[d])]
    <2>1. f \in [Week -> SUBSET Window] /\ \A d \in Week : f[d] = ToSet(x[d])
      BY <1>2
    <2> HIDE DEF f
    <2>2. IsFiniteSet({f[d] : d \in Week})
      BY <1>4, <2>1, FiniteImage
    <2>3. \A T \in {f[d] : d \in Week} : IsFiniteSet(T)
      BY <1>3, <2>1
    <2>4. IsFiniteSet(UNION {f[d] : d \in Week})
      BY <2>2, <2>3, FS_UNION
    <2>5. {f[d] : d \in Week} = {ToSet(x[d]) : d \in Week}
      BY <2>1
    <2> QED
      BY <2>4, <2>5 DEF WindowsOf
  <1>6. IsFiniteSet(Slots(x))
    <2> DEFINE f == [d \in Week |-> {d} \X DOMAIN x[d]]
    <2>1. f \in [Week -> SUBSET (Week \X Nat)] /\ \A d \in Week : f[d] = {d} \X DOMAIN x[d]
      BY <1>1
    <2> HIDE DEF f
    <2>0. f \in [Week -> SUBSET (Week \X Nat)] /\ IsFiniteSet(Week)
      BY <1>4, <2>1
    <2>2. IsFiniteSet({f[d] : d \in Week})
      BY <2>0, FiniteImage
    <2>3. \A T \in {f[d] : d \in Week} : IsFiniteSet(T)
      BY <1>3, <2>1
    <2>4. IsFiniteSet(UNION {f[d] : d \in Week})
      BY <2>2, <2>3, FS_UNION
    <2>5. {f[d] : d \in Week} = {{d} \X DOMAIN x[d] : d \in Week}
      BY <2>1
    <2> QED
      BY <2>4, <2>5 DEF Slots
  <1>7. ASSUME NEW w \in WindowsOf(x) PROVE Uses(x, w) \in Nat
    <2>1. {t \in Slots(x) : x[t[1]][t[2]] = w} \in SUBSET Slots(x)
      OBVIOUS
    <2>2. IsFiniteSet({t \in Slots(x) : x[t[1]][t[2]] = w})
      BY <1>6, <2>1, FS_Subset
    <2> QED
      BY <2>2, FS_CardinalityType DEF Uses
  <1>8. ASSUME NEW w \in WindowsOf(x) PROVE DaysOf(x, w) # {} /\ Min(DaysOf(x, w)) \in Nat
    <2>1. DaysOf(x, w) \in SUBSET Nat /\ DaysOf(x, w) # {}
      BY <1>4 DEF DaysOf, WindowsOf
    <2> QED
      BY <2>1, LeastIsMin
  <1>9. WindowsOf(x) \in SUBSET Window /\ \A d \in Week : ToSet(x[d]) \subseteq WindowsOf(x)
    BY <1>2 DEF WindowsOf
  <1> QED
    BY <1>5, <1>7, <1>8, <1>9

(* The form ranks every window of the week once. *)
LEMMA FormRanks ==
    ASSUME NEW x \in Schedules
    PROVE  LET n == Cardinality(WindowsOf(x))
               r == Ranked(x)
           IN  /\ n \in Nat /\ Len(r) = n /\ r \in Seq(Window)
               /\ \A i \in 1..n : r[i] \in WindowsOf(x)
               /\ \A w \in WindowsOf(x) : \E i \in 1..n : r[i] = w
               /\ \A i, j \in 1..n : r[i] = r[j] => i = j
  <1> DEFINE S == WindowsOf(x)
             n == Cardinality(S)
             below == [w \in S |-> {v \in S : Above(x, v, w)}]
             r == Sorted(S, below)
  <1>1. S \in SUBSET Window /\ IsFiniteSet(S)
    BY FewWindows
  <1>2. \A w \in S : Uses(x, w) \in Int /\ Min(DaysOf(x, w)) \in Int
    BY FewWindows
  <1> HIDE DEF S
  <1>3. /\ \A w \in S : ~Before(w, w)
        /\ \A v, w \in S : v # w => Before(v, w) \/ Before(w, v)
        /\ \A u, v, w \in S : Before(u, v) /\ Before(v, w) => Before(u, w)
    BY <1>1, WindowOrder
  <1>4. below \in [S -> SUBSET S] /\ \A v, w \in S : v \in below[w] <=> Above(x, v, w)
    OBVIOUS
  <1> HIDE DEF below
  <1>5. \A w \in S : ~Above(x, w, w)
    BY <1>2, <1>3 DEF Above
  <1>6. \A v, w \in S : v # w => Above(x, v, w) \/ Above(x, w, v)
    BY <1>2, <1>3 DEF Above
  <1>7. ASSUME NEW u \in S, NEW v \in S, NEW w \in S, Above(x, u, v), Above(x, v, w)
        PROVE  Above(x, u, w)
    BY <1>2, <1>3, <1>7 DEF Above
  <1>8. /\ \A w \in S : w \notin below[w]
        /\ \A v, w \in S : v # w => v \in below[w] \/ w \in below[v]
        /\ \A v, w \in S : v \in below[w] => below[v] \subseteq below[w]
    <2>1. \A v, w \in S : v \in below[w] => below[v] \subseteq below[w]
      BY <1>4, <1>7
    <2> QED
      BY <1>4, <1>5, <1>6, <2>1
  <1>9. /\ r \in Seq(Window) /\ Len(r) = n /\ n \in Nat
        /\ \A i \in 1..n : r[i] \in S
        /\ \A w \in S : \E i \in 1..n : r[i] = w
    BY <1>1, <1>4, <1>8, SortedType
  <1>10. r = Ranked(x)
    BY DEF Ranked, S, WindowsOf, below
  <1> HIDE DEF r, n
  <1>11. \A i, j \in 1..n : r[i] = r[j] => i = j
    <2>1. r \in [1..n -> S]
      <3>1. r \in [1..n -> Window]
        BY <1>9, LenProperties
      <3> QED
        BY <1>9, <3>1
    <2>2. r \in Surjection(1..n, S)
      BY <1>9, <2>1 DEF Surjection
    <2>3. IsFiniteSet(1..n) /\ Cardinality(1..n) = n /\ Cardinality(S) = n
      <3>0. n \in Int
        BY <1>9
      <3>1. IsFiniteSet(1..n) /\ Cardinality(1..n) = IF 1 > n THEN 0 ELSE n - 1 + 1
        BY <3>0, FS_Interval
      <3> QED
        BY <1>9, <3>1 DEF n
    <2>4. r \in Injection(1..n, S)
      BY <2>2, <2>3, FS_SurjSameCardinalityImpliesInj
    <2> QED
      BY <2>4 DEF Injection, IsInjective
  <1> QED
    BY <1>9, <1>10, <1>11 DEF S, n
(* Windows of a day that the form accepts as they are. *)
Apart(S) == \A v, w \in S : v.s < v.e /\ (v # w => ~Overlap(v, w))

(* A schedule of at most two windows, in order on each day, none overnight   *)
(* and no two overlapping, is shown by the form without an error, and the    *)
(* form sends it back as it is (schedule_to_form, form_to_schedule).         *)
THEOREM FormReturns ==
    ASSUME NEW x \in Schedules,
           \A d \in Week : x[d] = SortedWindows(ToSet(x[d])) /\ Apart(ToSet(x[d])),
           Cardinality(UNION {ToSet(x[d]) : d \in Week}) <= 2
    PROVE  FormErrors(ToForm(x)) = {} /\ FromForm(ToForm(x)) = x
  <1> DEFINE S == WindowsOf(x)
             n == Cardinality(S)
             r == Ranked(x)
             f == ToForm(x)
  <1>1. /\ n \in Nat /\ Len(r) = n /\ n <= 2
        /\ \A i \in 1..n : r[i] \in S
        /\ \A w \in S : \E i \in 1..n : r[i] = w
        /\ \A i, j \in 1..n : r[i] = r[j] => i = j
    BY FormRanks DEF WindowsOf
  <1>2. /\ \A w \in S : DaysOf(x, w) # {}
        /\ \A d \in Week : ToSet(x[d]) \subseteq S
        /\ S \in SUBSET Window
    BY FewWindows
  <1>3. \A d \in Week, w \in S : d \in DaysOf(x, w) <=> w \in ToSet(x[d])
    BY DEF DaysOf
  <1>4. \A w \in S : DaysOf(x, w) \subseteq Week
    BY DEF DaysOf
  <1>5. f = [i \in 1..n |-> [win |-> r[i], on |-> DaysOf(x, r[i])]]
    <2>1. 2 \in Int /\ Len(r) \in Int /\ Min({2, Len(r)}) = n
      BY <1>1, MinOfTwo
    <2> HIDE DEF r, n
    <2>2. f = [i \in 1..Min({2, Len(r)}) |-> [win |-> r[i], on |-> DaysOf(x, r[i])]]
      BY DEF ToForm, r
    <2> QED
      BY <2>1, <2>2
  <1> HIDE DEF S, n, r, f
  <1>6. DOMAIN f = 1..n /\ \A i \in 1..n : f[i].win = r[i] /\ f[i].on = DaysOf(x, r[i])
    BY <1>5
  <1>7. \A w \in S : w.s \in Int /\ w.e \in Int
    BY <1>2 DEF Window
  <1>8. \A w \in S : w.s < w.e
    BY <1>2, <1>3, <1>4 DEF Apart
  <1>9. ASSUME NEW i \in 1..n, NEW j \in 1..i - 1, f[i].on \cap f[j].on # {}
        PROVE  ~Overlap(f[i].win, f[j].win)
    <2>1. j \in 1..n /\ j # i
      BY <1>1
    <2>2. r[i] \in S /\ r[j] \in S /\ r[i] # r[j]
      BY <1>1, <2>1
    <2>3. PICK d \in Week : d \in DaysOf(x, r[i]) /\ d \in DaysOf(x, r[j])
      BY <1>4, <1>6, <1>9, <2>1, <2>2
    <2>4. r[i] \in ToSet(x[d]) /\ r[j] \in ToSet(x[d])
      BY <1>3, <2>2, <2>3
    <2>5. ~Overlap(r[i], r[j])
      BY <2>2, <2>4 DEF Apart
    <2> QED
      BY <1>6, <2>1, <2>5
  <1>10. \A i \in 1..n : ~Faulty(f, i)
    <2> SUFFICES ASSUME NEW i \in 1..n PROVE ~Faulty(f, i)
      OBVIOUS
    <2>1. f[i].win \in S /\ f[i].on # {}
      BY <1>1, <1>2, <1>6
    <2>2. ~(f[i].win.e <= f[i].win.s)
      BY <1>7, <1>8, <2>1
    <2> QED
      BY <1>9, <2>1, <2>2 DEF Faulty
  <1>11. FormErrors(f) = {}
    BY <1>6, <1>10 DEF FormErrors
  <1>12. ASSUME NEW d \in Week
         PROVE  {f[i].win : i \in {i \in DOMAIN f \ FormErrors(f) : d \in f[i].on}} = ToSet(x[d])
    <2>1. DOMAIN f \ FormErrors(f) = 1..n
      BY <1>6, <1>11
    <2>2. {f[i].win : i \in {i \in 1..n : d \in f[i].on}} = {r[i] : i \in {i \in 1..n : d \in DaysOf(x, r[i])}}
      BY <1>6
    <2>3. \A i \in 1..n : d \in DaysOf(x, r[i]) <=> r[i] \in ToSet(x[d])
      BY <1>1, <1>3
    <2>4. {r[i] : i \in {i \in 1..n : d \in DaysOf(x, r[i])}} = ToSet(x[d])
      BY <1>1, <1>2, <2>3
    <2> QED
      BY <2>1, <2>2, <2>4
  <1>13. FromForm(f) = [d \in Week |-> x[d]]
    <2>1. \A d \in Week :
            SortedWindows({f[i].win : i \in {i \in DOMAIN f \ FormErrors(f) : d \in f[i].on}}) = x[d]
      BY <1>12
    <2> QED
      BY <2>1 DEF FromForm
  <1>14. x = [d \in Week |-> x[d]]
    BY DEF Schedules
  <1> QED
    BY <1>11, <1>13, <1>14 DEF f

-----------------------------------------------------------------------------
(* Minutes of the week, moved there and back. *)

(* A minute of the week, and a power to run at.                              *)
WeekMinutes == (0..WeekLen - 1) \X Nat

(* What is among the moved minutes was among them before the move.          *)
LEMMA MovedPair ==
    ASSUME NEW c \in SUBSET WeekMinutes, NEW m \in Int, NEW t \in 0..WeekLen - 1, NEW p
    PROVE  <<t, p>> \in Moved(c, m) <=> <<(t - m) % WeekLen, p>> \in c
  <1>1. \A z \in c : z = <<z[1], z[2]>> /\ z[1] \in 0..WeekLen - 1 /\ z[1] \in Int
    BY WeekFacts DEF WeekMinutes
  <1>2. \A z \in c : t = (z[1] + m) % WeekLen <=> (t - m) % WeekLen = z[1]
    <2> SUFFICES ASSUME NEW z \in c
                 PROVE  t = (z[1] + m) % WeekLen <=> (t - m) % WeekLen = z[1]
      OBVIOUS
    <2>1. z[1] % WeekLen = z[1] /\ z[1] \in Int
      BY <1>1, MinuteOfDay
    <2> QED
      BY <2>1, MovedBack
  <1>3. <<t, p>> \in Moved(c, m) <=> \E z \in c : t = (z[1] + m) % WeekLen /\ p = z[2]
    BY DEF Moved
  <1>4. <<t, p>> \in Moved(c, m) <=> \E z \in c : (t - m) % WeekLen = z[1] /\ p = z[2]
    BY <1>2, <1>3
  <1> QED
    BY <1>1, <1>4

(* Moved minutes are minutes of the week. *)
LEMMA MovedType ==
    ASSUME NEW c \in SUBSET WeekMinutes, NEW m \in Int
    PROVE  Moved(c, m) \in SUBSET WeekMinutes
  <1> SUFFICES ASSUME NEW z \in c PROVE <<(z[1] + m) % WeekLen, z[2]>> \in WeekMinutes
    BY DEF Moved
  <1>1. z[1] \in Int /\ z[2] \in Nat
    BY WeekFacts DEF WeekMinutes
  <1>2. z[1] + m \in Int
    BY <1>1
  <1>3. (z[1] + m) % WeekLen \in 0..WeekLen - 1
    BY <1>2, WeekFacts, DivMod
  <1> QED
    BY <1>1, <1>3 DEF WeekMinutes

(* A minute of the week that comes before no midnight still doesn't when it *)
(* is counted round the week.                                               *)
LEMMA RoundTheWeek ==
    ASSUME NEW a \in Int
    PROVE  a % WeekLen \in 0..WeekLen - 1 /\ (a % WeekLen) % DayLen = a % DayLen
  <1>1. (a % (Days * DayLen)) % DayLen = a % DayLen
    BY WeekFacts, ModMod
  <1> QED
    BY <1>1, WeekFacts, DivMod DEF WeekLen

(* To real time: the schedule shifted back runs what the battery runs, seen *)
(* by a clock that is right.                                                *)
THEOREM ShiftedToReal ==
    ASSUME NEW x \in Schedules, NEW o \in Int, NEW t \in 0..WeekLen - 1, NEW p \in Nat,
           t % DayLen # DayLen - 1, (t + o) % DayLen # DayLen - 1
    PROVE  <<t, p>> \in Covered(Shift(x, -o)) <=> <<t, p>> \in Moved(Covered(x), -o)
  <1> DEFINE m == -o
             u == (t + o) % WeekLen
  <1>1. t \in Int
    BY WeekFacts
  <1>2. m \in Int /\ t - m = t + o /\ t + o \in Int
    BY <1>1
  <1>3. u % DayLen = (t + o) % DayLen
    BY <1>2, RoundTheWeek
  <1> HIDE DEF m
  <1>4. (t - m) % WeekLen = u
    BY <1>2
  <1> HIDE DEF u
  <1>5. <<t, p>> \in Covered(Shift(x, m)) <=> <<(t - m) % WeekLen, p>> \in Covered(x)
    BY <1>2, <1>3, <1>4, ShiftMoves
  <1>6. <<t, p>> \in Moved(Covered(x), m) <=> <<(t - m) % WeekLen, p>> \in Covered(x)
    <2>1. Covered(x) \in SUBSET WeekMinutes
      BY CoveredType DEF WeekMinutes
    <2> QED
      BY <1>2, <2>1, MovedPair
  <1> QED
    BY <1>5, <1>6 DEF m

(* To the battery's clock: what it then runs, seen by a clock that is right, *)
(* is what the schedule meant.                                               *)
THEOREM ShiftedToBattery ==
    ASSUME NEW x \in Schedules, NEW o \in Int, NEW t \in 0..WeekLen - 1, NEW p \in Nat,
           t % DayLen # DayLen - 1, (t + o) % DayLen # DayLen - 1
    PROVE  <<t, p>> \in Moved(Covered(Shift(x, o)), -o) <=> <<t, p>> \in Covered(x)
  <1> DEFINE m == -o
             u == (t + o) % WeekLen
             y == Shift(x, o)
  <1>1. t \in Int /\ t % WeekLen = t
    BY MinuteOfDay
  <1>2. m \in Int /\ t - m = t + o /\ t + o \in Int
    BY <1>1
  <1>3. u % DayLen = (t + o) % DayLen /\ u \in 0..WeekLen - 1
    BY <1>2, RoundTheWeek
  <1>4. (u - o) % WeekLen = t
    <2>1. t = ((t + o) + m) % WeekLen
      <3>1. t + o + m = t
        BY <1>1
      <3> HIDE DEF m
      <3> QED
        BY <1>1, <3>1
    <2>2. u = (t + o) % WeekLen
      OBVIOUS
    <2> HIDE DEF u
    <2>3. u = (t + o) % WeekLen <=> (u - o) % WeekLen = t % WeekLen
      BY <1>1, <1>3, MovedBack
    <2> QED
      BY <1>1, <2>2, <2>3
  <1> HIDE DEF m
  <1>5. (t - m) % WeekLen = u
    BY <1>2
  <1> HIDE DEF u, y
  <1>6. <<t, p>> \in Moved(Covered(y), m) <=> <<u, p>> \in Covered(y)
    <2>1. Covered(y) \in SUBSET WeekMinutes
      BY ShiftType, CoveredType DEF WeekMinutes, y
    <2> QED
      BY <1>2, <1>5, <2>1, MovedPair
  <1>7. <<u, p>> \in Covered(y) <=> <<t, p>> \in Covered(x)
    <2>1. (u - o) % WeekLen = t /\ u \in 0..WeekLen - 1 /\ u % DayLen # DayLen - 1
      BY <1>3, <1>4
    <2> QED
      BY <2>1, ShiftMoves DEF y
  <1> QED
    BY <1>6, <1>7 DEF m, y

(* Not moving changes nothing. *)
LEMMA NotMoved ==
    ASSUME NEW c \in SUBSET WeekMinutes
    PROVE  Moved(c, 0) = c
  <1>1. \A z \in c : z = <<z[1], z[2]>> /\ z[1] \in 0..WeekLen - 1 /\ z[1] + 0 = z[1]
    BY WeekFacts DEF WeekMinutes
  <1>2. \A z \in c : (z[1] + 0) % WeekLen = z[1]
    BY <1>1, MinuteOfDay
  <1>3. \A z \in c : <<(z[1] + 0) % WeekLen, z[2]>> = z
    BY <1>1, <1>2
  <1> QED
    BY <1>3 DEF Moved

-----------------------------------------------------------------------------
(* What a battery with a wrong clock runs. *)

(* Minute t of the week is the last before no midnight, in real time and on *)
(* clocks that are off by any of offs.                                      *)
Clear(offs, t) == \A o \in offs \cup {0} : (t + o) % DayLen # DayLen - 1
Plain(offs, c) == {z \in c : Clear(offs, z[1])}

(* A battery with its clock off by o, that holds x, runs the minutes w.     *)
RunsOn(offs, x, o, w) == Plain(offs, Moved(Covered(x), -o)) = Plain(offs, w)

(* Sets of minutes are the same when they agree minute by minute.           *)
LEMMA PlainAgree ==
    ASSUME NEW offs, NEW a \in SUBSET WeekMinutes, NEW b \in SUBSET WeekMinutes
    PROVE  Plain(offs, a) = Plain(offs, b) <=>
              \A t \in 0..WeekLen - 1, p \in Nat :
                 Clear(offs, t) => (<<t, p>> \in a <=> <<t, p>> \in b)
  <1>1. \A z \in WeekMinutes : z = <<z[1], z[2]>> /\ z[1] \in 0..WeekLen - 1 /\ z[2] \in Nat
    BY DEF WeekMinutes
  <1>2. ASSUME \A t \in 0..WeekLen - 1, p \in Nat :
                  Clear(offs, t) => (<<t, p>> \in a <=> <<t, p>> \in b)
        PROVE  Plain(offs, a) = Plain(offs, b)
    <2>1. \A z \in WeekMinutes : Clear(offs, z[1]) => (z \in a <=> z \in b)
      BY <1>1, <1>2
    <2> QED
      BY <2>1 DEF Plain
  <1>3. ASSUME Plain(offs, a) = Plain(offs, b), NEW t \in 0..WeekLen - 1, NEW p \in Nat, Clear(offs, t)
        PROVE  <<t, p>> \in a <=> <<t, p>> \in b
    <2> DEFINE z == <<t, p>>
    <2>1. z[1] = t
      OBVIOUS
    <2> HIDE DEF z
    <2>2. /\ z \in a <=> z \in Plain(offs, a)
          /\ z \in b <=> z \in Plain(offs, b)
      BY <1>3, <2>1 DEF Plain
    <2> QED
      BY <1>3, <2>2 DEF z
  <1> QED
    BY <1>2, <1>3

(* A clear minute is clear at each of the offsets. *)
LEMMA ClearAt ==
    ASSUME NEW offs, NEW t \in 0..WeekLen - 1, Clear(offs, t)
    PROVE  /\ t % DayLen # DayLen - 1
           /\ \A o \in offs : (t + o) % DayLen # DayLen - 1
  <1>1. t + 0 = t
    BY WeekFacts
  <1> QED
    BY <1>1 DEF Clear

(* A schedule written for a clock that is off by o is run as it was meant.  *)
THEOREM WrittenRuns ==
    ASSUME NEW x \in Schedules, NEW o \in Int, Crowded(Shift(x, o)) = {},
           NEW offs, o \in offs
    PROVE  RunsOn(offs, Held(Shift(x, o)), o, Covered(x))
  <1> DEFINE a == Moved(Covered(Shift(x, o)), -o)
             b == Covered(x)
  <1>0. -o \in Int
    OBVIOUS
  <1>1. Shift(x, o) \in Schedules
    BY ShiftType
  <1>2. Covered(Held(Shift(x, o))) = Covered(Shift(x, o))
    BY <1>1, HeldCovers
  <1>3. a \in SUBSET WeekMinutes /\ b \in SUBSET WeekMinutes
    BY <1>0, <1>1, CoveredType, MovedType DEF WeekMinutes
  <1>4. ASSUME NEW t \in 0..WeekLen - 1, NEW p \in Nat, Clear(offs, t)
        PROVE  <<t, p>> \in a <=> <<t, p>> \in b
    BY <1>4, ClearAt, ShiftedToBattery
  <1> HIDE DEF a, b
  <1>5. Plain(offs, a) = Plain(offs, b)
    BY <1>3, <1>4, PlainAgree
  <1> QED
    BY <1>2, <1>5 DEF RunsOn, a, b

(* Taken back to real time, and written again for a clock that is off by o  *)
(* now, it is still run as it was: no rewriting adds or drops a minute.      *)
THEOREM RewrittenRuns ==
    ASSUME NEW x \in Schedules, NEW o \in Int, NEW was \in Int, NEW offs, was \in offs,
           NEW w \in SUBSET WeekMinutes, RunsOn(offs, x, was, w),
           NEW real \in Schedules, real = IF was = 0 THEN x ELSE Shift(x, -was),
           Crowded(Shift(real, o)) = {}
    PROVE  RunsOn(offs \cup {o}, Held(Shift(real, o)), o, w)
  <1> DEFINE both == offs \cup {o}
             seen == Moved(Covered(x), -was)
             a == Moved(Covered(Held(Shift(real, o))), -o)
             b == Covered(real)
  <1>0. -o \in Int /\ -was \in Int
    OBVIOUS
  <1>1. Covered(x) \in SUBSET WeekMinutes /\ b \in SUBSET WeekMinutes
        /\ Covered(Held(Shift(real, o))) \in SUBSET WeekMinutes
    <2>1. Held(Shift(real, o)) \in Schedules
      BY ShiftType, HeldType DEF Holdable
    <2> QED
      BY <2>1, CoveredType DEF WeekMinutes
  <1>2. seen \in SUBSET WeekMinutes /\ a \in SUBSET WeekMinutes
    BY <1>0, <1>1, MovedType
  <1>3. Plain(both, a) = Plain(both, b)
    <2>1. RunsOn(both, Held(Shift(real, o)), o, Covered(real))
      BY WrittenRuns
    <2> QED
      BY <2>1 DEF RunsOn
  <1>4. ASSUME NEW t \in 0..WeekLen - 1, NEW p \in Nat, Clear(offs, t)
        PROVE  <<t, p>> \in b <=> <<t, p>> \in seen
    <2>1. t % DayLen # DayLen - 1 /\ (t + was) % DayLen # DayLen - 1
      BY <1>4, ClearAt
    <2>2. CASE was = 0
      <3> DEFINE m == -was
      <3>1. m \in Int /\ m + was = 0
        OBVIOUS
      <3>2. real = x /\ seen = Moved(Covered(x), m)
        BY <2>2
      <3> HIDE DEF m, seen
      <3>4. m = 0
        BY <2>2, <3>1
      <3>3. seen = Covered(x)
        BY <1>1, <3>2, <3>4, NotMoved
      <3> QED
        BY <3>2, <3>3
    <2>3. CASE was # 0
      BY <2>1, <2>3, ShiftedToReal
    <2> QED
      BY <2>2, <2>3
  <1> HIDE DEF a, b, seen
  <1>5. Plain(offs, seen) = Plain(offs, w)
    BY DEF RunsOn, seen
  <1>6. \A t \in 0..WeekLen - 1, p \in Nat : Clear(offs, t) => (<<t, p>> \in seen <=> <<t, p>> \in w)
    BY <1>2, <1>5, PlainAgree
  <1>7. \A t \in 0..WeekLen - 1, p \in Nat : Clear(both, t) => (<<t, p>> \in a <=> <<t, p>> \in b)
    BY <1>1, <1>2, <1>3, PlainAgree
  <1>8. \A t : Clear(both, t) => Clear(offs, t)
    BY DEF Clear
  <1>9. \A t \in 0..WeekLen - 1, p \in Nat : Clear(both, t) => (<<t, p>> \in a <=> <<t, p>> \in w)
    BY <1>4, <1>6, <1>7, <1>8
  <1>10. Plain(both, a) = Plain(both, w)
    BY <1>2, <1>9, PlainAgree
  <1> QED
    BY <1>10 DEF RunsOn, a
=============================================================================
