------------------------------ MODULE LockStep ------------------------------
(***************************************************************************)
(* What the leaders of the shards promise one another, with no messages,   *)
(* no hashes and no store: every shard proposes and certifies one block    *)
(* per view, and no shard proposes the block of view v+1 before EVERY      *)
(* shard has certified (collected a quorum of votes for) its block of      *)
(* view v.  UrdLeaders implements this specification.                      *)
(***************************************************************************)
EXTENDS Integers

CONSTANT Shard          \* the shards

VARIABLES proposed,     \* proposed[s]  = view of the last block s proposed
          certified     \* certified[s] = view of the last block s certified

vars == <<proposed, certified>>

Init == /\ proposed  = [s \in Shard |-> 0]
        /\ certified = [s \in Shard |-> 0]

\* s has a quorum for its current block.
Certify(s) == /\ certified[s] = proposed[s] - 1
              /\ certified' = [certified EXCEPT ![s] = @ + 1]
              /\ UNCHANGED proposed

\* Every shard has certified the view s is in: s proposes the next block.
Propose(s) == /\ certified[s] = proposed[s]
              /\ \A t \in Shard : certified[t] >= proposed[s]
              /\ proposed' = [proposed EXCEPT ![s] = @ + 1]
              /\ UNCHANGED certified

\* The last certificate was the shard's own: both in one step.
CertifyAndPropose(s) == /\ certified[s] = proposed[s] - 1
                        /\ \A t \in Shard \ {s} : certified[t] >= proposed[s]
                        /\ certified' = [certified EXCEPT ![s] = @ + 1]
                        /\ proposed'  = [proposed EXCEPT ![s] = @ + 1]

Next == \E s \in Shard : Certify(s) \/ Propose(s) \/ CertifyAndPropose(s)

Spec == Init /\ [][Next]_vars
=============================================================================
