--------------------------- MODULE MCScheduleWriters ---------------------------
(* A small instance of ScheduleWriters: a week of two short days, with      *)
(* windows that end at, cross or start just before midnight, before a day   *)
(* that starts with the same power or with the other.                       *)
EXTENDS ScheduleWriters, TLC

Win(p) == {w \in [s : Minutes, e : Minutes, p : {p}] : w.s # w.e}
On(a, b) == [d \in Week |-> IF d = 0 THEN a ELSE b]
From(s, e, p) == [s |-> s, e |-> e, p |-> p]

SmallAsks ==
    {On(<<From(1, 3, 1)>>, <<From(0, 1, 1), From(3, 1, 1)>>),
     On(<<From(2, 3, 2)>>, <<From(0, 1, 1), From(1, 2, 2)>>)}

(* Four different windows, which the form can't show exactly: in the battery *)
(* that a call would write first, while the other one holds none.            *)
SmallVendor == {On(<<From(1, 2, 1), From(2, 3, 2)>>, <<From(0, 1, 1), From(1, 2, 2)>>)}

SmallInit ==
    /\ Init
    /\ \A i, j \in DOMAIN table :
          i < j /\ table[i] \in Controlled /\ table[j] \in Controlled => battery[table[j]].sched = Empty
SmallSpec == SmallInit /\ [][Next]_vars

SmallEdits ==
    {<<>>,
     <<[win |-> From(1, 2, 1), on |-> {0}], [win |-> From(2, 3, 2), on |-> Week]>>}

(* The two entries with control are alike. *)
Alike == Permutations(Controlled)
=============================================================================
