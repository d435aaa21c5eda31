-------------------------------- MODULE CList --------------------------------
(***************************************************************************)
(* The concurrent list under the mempools (libs/clist).  Every operation   *)
(* holds the list's mutex, so each is a function from list to list.  A     *)
(* WaitGroup is its counter: whoever waits for it goes on when it is 0,    *)
(* and Done below 0 is a panic.                                            *)
(***************************************************************************)
EXTENDS Integers

CONSTANTS Element,   \* the elements a list may ever have
          Nil

\* waitGroup1
waitGroup1 == 1

\* New
New == [head |-> Nil, tail |-> Nil, len |-> 0, wg |-> waitGroup1,
        next |-> [e \in Element |-> Nil], nextWg |-> [e \in Element |-> waitGroup1],
        prev |-> [e \in Element |-> Nil], prevWg |-> [e \in Element |-> waitGroup1],
        removed |-> {}, panic |-> FALSE]

\* The counter after a link has changed from old to new: SetNext and SetPrev
Relinked(wg, old, new) == CASE old # Nil /\ new = Nil -> waitGroup1
                            [] old = Nil /\ new # Nil -> wg - 1
                            [] OTHER -> wg

SetNext(l, e, new) == [l EXCEPT !.next[e] = new, !.nextWg[e] = Relinked(@, l.next[e], new)]
SetPrev(l, e, new) == [l EXCEPT !.prev[e] = new, !.prevWg[e] = Relinked(@, l.prev[e], new)]

\* SetRemoved wakes up whoever waits at e, in either direction.
SetRemoved(l, e) == [l EXCEPT !.removed = @ \cup {e},
                              !.prevWg[e] = IF l.prev[e] = Nil THEN @ - 1 ELSE @,
                              !.nextWg[e] = IF l.next[e] = Nil THEN @ - 1 ELSE @]

\* PushBack of a new element
PushBack(l, e) ==
    LET grown == [l EXCEPT !.len = @ + 1, !.wg = IF l.len = 0 THEN @ - 1 ELSE @, !.tail = e]
    IN  IF l.tail = Nil THEN [grown EXCEPT !.head = e]
        ELSE SetNext(SetPrev(grown, e, l.tail), l.tail, e)

\* Mutant: the tail is not moved back when the last element goes.
RemoveElement_keeps_tail(l, e) ==
    LET prev == l.prev[e]
        next == l.next[e]
        less == [l EXCEPT !.len = @ - 1, !.wg = IF l.len = 1 THEN waitGroup1 ELSE @]
        left == IF prev = Nil THEN [less EXCEPT !.head = next] ELSE SetNext(less, prev, next)
    IN  SetRemoved(IF next = Nil THEN left ELSE SetPrev(left, next, prev), e)

\* Remove: its three panics, then the links around e
RemoveElement(l, e) ==
    LET prev == l.prev[e]
        next == l.next[e]
        less == [l EXCEPT !.len = @ - 1, !.wg = IF l.len = 1 THEN waitGroup1 ELSE @]
        left == IF prev = Nil THEN [less EXCEPT !.head = next] ELSE SetNext(less, prev, next)
        both == IF next = Nil THEN [left EXCEPT !.tail = prev] ELSE SetPrev(left, next, prev)
    IN  IF l.head = Nil \/ l.tail = Nil \/ (prev = Nil /\ l.head # e) \/ (next = Nil /\ l.tail # e)
        THEN [l EXCEPT !.panic = TRUE]
        ELSE SetRemoved(both, e)

\* for e := from; e != nil; e = link(e); n bounds the walk
Walk(from, link, n) ==
    LET at[k \in 1 .. n] == IF k = 1 THEN from
                            ELSE LET e == at[k - 1] IN IF e = Nil THEN Nil ELSE link[e]
        visits == CHOOSE m \in 0 .. n : \A k \in 1 .. n : at[k] # Nil <=> k <= m
    IN  [k \in 1 .. visits |-> at[k]]

\* Front and Next, Back and Prev
Forward(l, n)  == Walk(l.head, l.next, n)
Backward(l, n) == Walk(l.tail, l.prev, n)

\* FrontWait and NextWait return only when these counters are 0.
FrontWaits(l) == l.wg > 0
NextWaits(l, e) == l.nextWg[e] > 0
PrevWaits(l, e) == l.prevWg[e] > 0
=============================================================================
