------------------------------ MODULE RangeTree ------------------------------
(***************************************************************************)
(* utils/RangeTree.go: a set of keys as a tree of ranges.  A node has two  *)
(* children or none; a leaf stands for the whole range between the bounds  *)
(* that come down from the root.  A left child's ukey is where its range   *)
(* ends, a right child's where it begins.  Keys are numbers.               *)
(***************************************************************************)
EXTENDS Integers, Sequences

LOCAL S == INSTANCE SequencesExt

Nil   == [ukey |-> -1, depth |-> -1, kids |-> <<>>]
Panic == [ukey |-> -2, depth |-> -2, kids |-> <<>>]

NewRangeTreeLeaf(ukey) == [ukey |-> ukey, depth |-> 0, kids |-> <<>>]
NewRangeTree == [start |-> 0, end |-> 0, root |-> Nil]

IsLeaf(t) == t.kids = <<>>
strInRange(s, u, v) == u <= s /\ s <= v
deeper(l, r) == 1 + IF l.depth > r.depth THEN l.depth ELSE r.depth
node(ukey, l, r) == [ukey |-> ukey, depth |-> deeper(l, r), kids |-> <<l, r>>]

\* The cases of AddRange and DeleteRange: where the bounds of a range fall in a node
\* from low to high whose children end at left and begin at right.
caseOf(rangeLow, rangeHigh, low, left, right, high) ==
    LET lowIn(u, v)  == strInRange(rangeLow, u, v)
        highIn(u, v) == strInRange(rangeHigh, u, v)
    IN  IF lowIn(low, left) /\ highIn(right, high) THEN 1
        ELSE IF lowIn(low, left) /\ highIn(low, left) THEN 2
        ELSE IF lowIn(right, high) /\ highIn(right, high) THEN 3
        ELSE IF lowIn(left, right) /\ highIn(right, high) THEN 4
        ELSE IF lowIn(low, left) /\ highIn(left, right) THEN 5
        ELSE IF lowIn(left, right) /\ highIn(left, right) THEN 6
        ELSE 7

\* What AddRange defers: two leaves that meet become one.
settle(t, l, r) ==
    IF IsLeaf(l) /\ IsLeaf(r) /\ l.ukey = r.ukey THEN NewRangeTreeLeaf(t.ukey)
    ELSE node(t.ukey, l, r)

\* Case 1: the new range covers the gap between the children.
close_gap(l, r) == IF l.depth < r.depth THEN <<[l EXCEPT !.ukey = r.ukey], r>>
                   ELSE <<l, [r EXCEPT !.ukey = l.ukey]>>

RECURSIVE AddRangeNode(_, _, _, _, _)
AddRangeNode(t, low, rangeLow, rangeHigh, high) ==
    IF IsLeaf(t) THEN t ELSE
    LET L == t.kids[1]
        R == t.kids[2]
        n == caseOf(rangeLow, rangeHigh, low, L.ukey, R.ukey, high)
    IN  CASE n = 1 -> LET k == close_gap(AddRangeNode(L, low, rangeLow, L.ukey, L.ukey),
                                         AddRangeNode(R, R.ukey, R.ukey, rangeHigh, high))
                      IN  settle(t, k[1], k[2])
          [] n = 2 -> settle(t, AddRangeNode(L, low, rangeLow, rangeHigh, L.ukey), R)
          [] n = 3 -> settle(t, L, AddRangeNode(R, R.ukey, rangeLow, rangeHigh, high))
          [] n = 4 -> settle(t, L, AddRangeNode([R EXCEPT !.ukey = rangeLow], rangeLow, rangeLow, rangeHigh, high))
          [] n = 5 -> settle(t, AddRangeNode([L EXCEPT !.ukey = rangeHigh], low, rangeLow, rangeHigh, rangeHigh), R)
          [] n = 6 -> IF L.depth < R.depth
                      THEN settle(t, node(rangeHigh, L, NewRangeTreeLeaf(rangeLow)), R)
                      ELSE settle(t, L, node(rangeLow, NewRangeTreeLeaf(rangeHigh), R))
          [] n = 7 -> Panic

AddRange(t, rangeLow, rangeHigh) ==
    IF rangeHigh < rangeLow THEN t
    ELSE IF t.root = Nil THEN
        [start |-> rangeLow, end |-> rangeHigh, root |-> NewRangeTreeLeaf(rangeHigh)]
    ELSE IF rangeHigh < t.start THEN
        [t EXCEPT !.start = rangeLow,
                  !.root = node(t.end, NewRangeTreeLeaf(rangeHigh), [@ EXCEPT !.ukey = t.start])]
    ELSE IF rangeLow > t.end THEN
        [t EXCEPT !.end = rangeHigh,
                  !.root = node(rangeHigh, @, NewRangeTreeLeaf(rangeLow))]
    ELSE
        LET start == IF rangeLow < t.start THEN rangeLow ELSE t.start
            end   == IF rangeHigh > t.end THEN rangeHigh ELSE t.end
            root  == IF rangeHigh > t.end THEN [t.root EXCEPT !.ukey = end] ELSE t.root
        IN  [start |-> start, end |-> end,
             root |-> AddRangeNode(root, start, rangeLow, rangeHigh, end)]

\* Mutant: an only child keeps the bound it had as a right child.
rejoin_as_is(t, l, r, low, high, leftRange, rightRange) ==
    CASE l = Nil /\ r = Nil -> [node |-> Nil, low |-> leftRange, high |-> rightRange]
      [] l # Nil /\ r # Nil -> [node |-> node(IF t.ukey = high THEN rightRange ELSE leftRange, l, r),
                                low |-> leftRange, high |-> rightRange]
      [] l # Nil /\ r = Nil -> [node |-> l, low |-> leftRange, high |-> l.ukey]
      [] l = Nil /\ r # Nil -> [node |-> r, low |-> r.ukey, high |-> rightRange]

\* The end of DeleteRange in a node, its children being what is left of them and
\* leftRange and rightRange the bounds of what is left.
rejoin(t, l, r, low, high, leftRange, rightRange) ==
    LET isLeft == t.ukey = high
        ukey   == IF isLeft THEN rightRange ELSE leftRange
    IN  IF l = Nil /\ r = Nil THEN [node |-> Nil, low |-> leftRange, high |-> rightRange]
        ELSE IF t.ukey \notin {low, high} THEN [node |-> Panic, low |-> low, high |-> high]
        ELSE IF l # Nil /\ r # Nil THEN [node |-> node(ukey, l, r), low |-> leftRange, high |-> rightRange]
        ELSE IF l # Nil THEN
            [node |-> IF isLeft THEN l ELSE [l EXCEPT !.ukey = leftRange], low |-> leftRange, high |-> l.ukey]
        ELSE
            [node |-> IF isLeft THEN [r EXCEPT !.ukey = rightRange] ELSE r, low |-> r.ukey, high |-> rightRange]

RECURSIVE DeleteRangeNode(_, _, _, _, _)
DeleteRangeNode(t, low, rangeLow, rangeHigh, high) ==
    IF rangeLow = low /\ rangeHigh = high THEN [node |-> Nil, low |-> low, high |-> high]
    ELSE IF rangeLow = rangeHigh THEN [node |-> t, low |-> low, high |-> high]
    ELSE IF IsLeaf(t) THEN
        IF rangeHigh = high THEN
            [node |-> IF t.ukey = high THEN [t EXCEPT !.ukey = rangeLow] ELSE t, low |-> low, high |-> rangeLow]
        ELSE IF rangeLow = low THEN
            [node |-> IF t.ukey = low THEN [t EXCEPT !.ukey = rangeHigh] ELSE t, low |-> rangeHigh, high |-> high]
        ELSE [node |-> node(t.ukey, NewRangeTreeLeaf(rangeLow), NewRangeTreeLeaf(rangeHigh)),
              low |-> low, high |-> high]
    ELSE
        LET L == t.kids[1]
            R == t.kids[2]
            n == caseOf(rangeLow, rangeHigh, low, L.ukey, R.ukey, high)
            l == CASE n \in {1, 5} -> DeleteRangeNode(L, low, rangeLow, L.ukey, L.ukey)
                   [] n = 2 -> DeleteRangeNode(L, low, rangeLow, rangeHigh, L.ukey)
                   [] n \notin {1, 2, 5} -> [node |-> L, low |-> low, high |-> L.ukey]
            r == CASE n \in {1, 4} -> DeleteRangeNode(R, R.ukey, R.ukey, rangeHigh, high)
                   [] n = 3 -> DeleteRangeNode(R, R.ukey, rangeLow, rangeHigh, high)
                   [] n \notin {1, 3, 4} -> [node |-> R, low |-> R.ukey, high |-> high]
        IN  rejoin(t, l.node, r.node, low, high, l.low, r.high)

DeleteRange(t, rangeLow, rangeHigh) ==
    IF rangeHigh < rangeLow \/ t.root = Nil \/ rangeHigh < t.start \/ rangeLow > t.end THEN t
    ELSE LET d == DeleteRangeNode(t.root, t.start,
                                  IF rangeLow < t.start THEN t.start ELSE rangeLow,
                                  IF rangeHigh > t.end THEN t.end ELSE rangeHigh, t.end)
         IN  [start |-> d.low, end |-> d.high, root |-> d.node]

RECURSIVE SearchNode(_, _, _, _)
SearchNode(t, p, low, high) ==
    IF IsLeaf(t) THEN low <= p /\ p < high
    ELSE IF p < t.kids[1].ukey THEN SearchNode(t.kids[1], p, low, t.kids[1].ukey)
    ELSE p >= t.kids[2].ukey /\ SearchNode(t.kids[2], p, t.kids[2].ukey, high)

Search(t, p) == t.root # Nil /\ SearchNode(t.root, p, t.start, t.end)

RECURSIVE RangeNode(_, _, _)
RangeNode(t, low, high) ==
    IF IsLeaf(t) THEN << <<low, high>> >>
    ELSE RangeNode(t.kids[1], low, t.kids[1].ukey) \o RangeNode(t.kids[2], t.kids[2].ukey, high)

\* Mutant: the last range is left out.
Range_but_last(t) == IF t.root = Nil THEN <<>> ELSE S!Front(RangeNode(t.root, t.start, t.end))

Range(t) == IF t.root = Nil THEN <<>> ELSE RangeNode(t.root, t.start, t.end)

\* Add of the ranges of another tree; NewRangeTreeFromString, for an empty one
Add(t, ranges) == S!FoldLeft(LAMBDA u, pair : AddRange(u, pair[1], pair[2]), t, ranges)
=============================================================================
