------------------------------ MODULE MCGossip ------------------------------
(***************************************************************************)
(* An instance of Gossip for TLC.                                          *)
(***************************************************************************)
EXTENDS Gossip, TLC

CONSTANTS n1, n2

TwoNodes == {n1, n2}

\* A pair, of which only one end knows the other.
Pair == n1 :> {n2} @@ n2 :> {}

\* n1 broadcasts twice.
PairEnd == n1 :> 2 @@ n2 :> 0

=============================================================================
