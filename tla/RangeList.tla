------------------------------ MODULE RangeList ------------------------------
(***************************************************************************)
(* utils/RangeList.go: a set of keys as a sorted list of the bounds of its *)
(* ranges.  Place -1 is before the first bound, place n at or after the    *)
(* n-th one (from 0); an even place is inside a range ("red").  Keys are   *)
(* numbers, in the order of the strings.                                   *)
(***************************************************************************)
EXTENDS Integers, Sequences

LOCAL S == INSTANCE SequencesExt

get(lists, plc) == lists[plc + 1]
redPlace(plc) == plc >= 0 /\ plc % 2 = 0
stepThere(lists, s, plc) == plc >= 0 /\ get(lists, plc) = s
leftRange(lists, plc) == SubSeq(lists, 1, plc)
rightRange(lists, plc) == SubSeq(lists, plc + 2, Len(lists))

\* Mutant: a bound is taken to belong to the place before it.
goodPlace_closed(lists, s, plc) ==
    /\ plc = -1 \/ get(lists, plc) <= s
    /\ plc = Len(lists) - 1 \/ s <= get(lists, plc + 1)

goodPlace(lists, s, plc) ==
    /\ plc = -1 \/ get(lists, plc) <= s
    /\ plc = Len(lists) - 1 \/ s < get(lists, plc + 1)

\* Division in Go rounds towards zero.
half(n) == IF n < 0 THEN -((-n) \div 2) ELSE n \div 2

RECURSIVE findFrom(_, _, _, _)
findFrom(lists, s, start, end) ==
    LET plc == half(start + end)
    IN  IF goodPlace(lists, s, plc) THEN plc
        ELSE IF s < get(lists, plc) THEN findFrom(lists, s, start, plc - 1)
        ELSE findFrom(lists, s, plc + 1, end)

find(lists, s) == findFrom(lists, s, -1, Len(lists) - 1)

Search(lists, p) == redPlace(find(lists, p))

\* The new range continues the one that ends at its lower bound.
joined(lists, low, pl) == stepThere(lists, low, pl)

AddRange(lists, low, high) ==
    LET pl == find(lists, low)
        pr == find(lists, high)
        left == IF redPlace(pl) THEN leftRange(lists, pl) \o <<get(lists, pl)>>
                ELSE IF joined(lists, low, pl) THEN leftRange(lists, pl - 1) \o <<get(lists, pl - 1)>>
                ELSE leftRange(lists, pl + 1) \o <<low>>
        right == IF redPlace(pr) THEN <<get(lists, pr + 1)>> \o rightRange(lists, pr + 1)
                 ELSE <<high>> \o rightRange(lists, pr)
    IN  CASE high <= low -> lists
          [] high > low /\ lists = <<>> -> <<low, high>>
          [] high > low /\ lists # <<>> -> IF pl = pr /\ redPlace(pl) THEN lists ELSE left \o right

DeleteRange(lists, low, high) ==
    LET pl == find(lists, low)
        pr == find(lists, high)
        left == IF ~redPlace(pl) THEN leftRange(lists, pl + 1)
                ELSE IF stepThere(lists, low, pl) THEN leftRange(lists, pl)
                ELSE leftRange(lists, pl + 1) \o <<low>>
        right == IF ~redPlace(pr) THEN rightRange(lists, pr)
                 ELSE IF stepThere(lists, high, pr) THEN rightRange(lists, pr - 1)
                 ELSE <<high>> \o rightRange(lists, pr)
    IN  IF high <= low \/ lists = <<>> \/ (pl = pr /\ ~redPlace(pl)) THEN lists ELSE left \o right

\* Range: the pairs of bounds
Range(lists) == [n \in 1 .. Len(lists) \div 2 |-> <<lists[2 * n - 1], lists[2 * n]>>]

\* Add of the ranges of another store
Add(lists, ranges) == S!FoldLeft(LAMBDA r, rg : AddRange(r, rg[1], rg[2]), lists, ranges)
=============================================================================
