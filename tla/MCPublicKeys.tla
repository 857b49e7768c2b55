---------------------------- MODULE MCPublicKeys -----------------------------
(***************************************************************************)
(* An instance of PublicKeys for TLC: a line of three peers, n2 between    *)
(* the others, of which n3 restarts.                                       *)
(***************************************************************************)
EXTENDS PublicKeys, TLC

CONSTANTS n1, n2, n3

ThreeNodes == {n1, n2, n3}

\* n3 adds n2, or learns its address from a friend request.
Line == n1 :> {n2} @@ n2 :> {n1} @@ n3 :> {n2}
MiddleAsks == [n \in ThreeNodes |-> IF n = n2 THEN {n3} ELSE {}]

\* The last one restarts once.
LastRestarts == [n \in ThreeNodes |-> IF n = n2 THEN 1 ELSE 2]

\* n3 has sent its key to n2, and n2 its table to everybody: n1 knows the key of
\* n3 from n2 only.
TableOfLast == n1 :> None @@ n2 :> None @@ n3 :> <<n3, 1>>
TableOfMiddle == n1 :> None @@ n2 :> <<n2, 1>> @@ n3 :> <<n3, 1>>
TableOfFirst == n1 :> <<n1, 1>> @@ n2 :> <<n2, 1>> @@ n3 :> <<n3, 1>>

Exchanged ==
    /\ life = [n \in Node |-> 1] /\ up = [n \in Node |-> TRUE]
    /\ routes = n1 :> {n1, n2} @@ n2 :> ThreeNodes @@ n3 :> {n2, n3}
    /\ neighbours = n1 :> {n2} @@ n2 :> {n1} @@ n3 :> {n2}
    /\ table = n1 :> TableOfFirst @@ n2 :> TableOfMiddle @@ n3 :> TableOfLast
    /\ safe = [n \in Node |-> {n}] /\ heard = [n \in Node |-> [a \in Node |-> {}]]
    /\ tasks = [n \in Node |-> {}]
    /\ sent = {[type |-> "table", src |-> n3, to |-> {n2}, table |-> TableOfLast],
               [type |-> "table", src |-> n2, to |-> ThreeNodes, table |-> TableOfMiddle]}

RestartSpec == Exchanged /\ [][Next]_vars

=============================================================================
