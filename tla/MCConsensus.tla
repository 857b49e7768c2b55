---------------------------- MODULE MCConsensus ----------------------------
(***************************************************************************)
(* Instances of Consensus for TLC: which calls run on which nodes.         *)
(***************************************************************************)
EXTENDS ConsensusLedger, TLC

CONSTANTS n1, n2, n3, c1, c2, a, b

TwoNodes == {n1, n2}
ThreeNodes == {n1, n2, n3}

OneCallNode == c1 :> n1
OneUser == c1 :> "user"
OneName == c1 :> a

IdsOfTwo == n1 :> 1 @@ n2 :> 2
IdsOfThree == n1 :> 1 @@ n2 :> 2 @@ n3 :> 3

\* Both calls set the user name a, each on its own node.
RivalNodes == c1 :> n1 @@ c2 :> n2
BothUser == c1 :> "user" @@ c2 :> "user"
SameName == c1 :> a @@ c2 :> a

\* Two calls on one node: two HTTP handlers, or one and the job queue.
SharedNode == c1 :> n1 @@ c2 :> n1
TwoNames == c1 :> a @@ c2 :> b

\* A scenario: no retry, the second call starts once n1 has announced a
\* decision, and its node is the first to advance, with a phase one that has
\* just succeeded.  A constraint only leaves behaviours out.
LateRival ==
    /\ \A c \in Call : pc[c] = "check" => attempt[c] = 0
    /\ pc[c2] # "idle" => tlcSent[n1] # {}
    /\ step[n2] > 0 => (pc[c2] = "p2" \/ (pc[c2] = "p1" /\ success[c2]))
    /\ step[n1] > 0 => step[n2] > 0 /\ pc[c2] = "p2"
    /\ step[n3] = 0

=============================================================================
