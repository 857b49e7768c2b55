--------------------------- MODULE RumorBroadcast ---------------------------
(***************************************************************************)
(* What the gossip layer promises to the layers above it, and what module  *)
(* Consensus assumes of it: a peer processes the rumors of every other     *)
(* peer in the order they were broadcast, each exactly once, however late. *)
(* What peer d has not processed of peer o, log[o][o] after Len(log[d][o]), *)
(* is the queue net[o][d] of module Consensus.                             *)
(***************************************************************************)
EXTENDS Naturals, Sequences

CONSTANTS Node, Payload

VARIABLE log    \* log[n][o]: the rumors of o that n has processed; log[o][o]: all

Init == log = [n \in Node |-> [o \in Node |-> << >>]]

Broadcast(o) ==
    \E m \in Payload : log' = [log EXCEPT ![o][o] = Append(@, m)]

Deliver(o, d) ==
    /\ Len(log[d][o]) < Len(log[o][o])
    /\ log' = [log EXCEPT ![d][o] = Append(@, log[o][o][Len(@) + 1])]

Next == \E o \in Node : Broadcast(o) \/ \E d \in Node : Deliver(o, d)

Spec == Init /\ [][Next]_log

=============================================================================
