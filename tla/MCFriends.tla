------------------------------ MODULE MCFriends ------------------------------
(***************************************************************************)
(* An instance of Friends for TLC: n1 and n2 have added each other, users  *)
(* of both ask for friendship, and n2 restarts.                            *)
(***************************************************************************)
EXTENDS Friends, TLC

CONSTANTS n1, n2, t1, t2

TwoNodes == {n1, n2}

EachAdds == n1 :> {n2} @@ n2 :> {n1}
BothAsk == n1 :> {n2} @@ n2 :> {n1}
Users == t1 :> n1 @@ t2 :> n2
SecondRestarts == n1 :> 1 @@ n2 :> 2

Both == [n \in TwoNodes |-> <<n, 1>>]

Sent(n, to, t) == [type |-> "table", src |-> n, to |-> to, table |-> t]

\* n1 has sent its table, n2 has taken it and sent its own to both, and n1 as well.
Acquainted ==
    /\ life = [n \in Node |-> 1] /\ up = [n \in Node |-> TRUE]
    /\ routes = [n \in Node |-> Node]
    /\ neighbours = n1 :> {n2} @@ n2 :> {n1}
    /\ table = [n \in Node |-> Both] /\ safe = [n \in Node |-> {n}]
    /\ heard = [n \in Node |-> [a \in Node |-> {}]] /\ tasks = [n \in Node |-> {}]
    /\ sent = {Sent(n1, {n2}, InitTable(n1, 1)), Sent(n1, {n1}, InitTable(n1, 1)),
               Sent(n2, {n1}, Both), Sent(n2, TwoNodes, Both), Sent(n1, TwoNodes, Both)}
    /\ friends = [n \in Node |-> {}] /\ pending = [n \in Node |-> [m \in Node |-> 0]]
    /\ thread = [t \in Thread |-> Idle] /\ mail = {} /\ read = [n \in Node |-> {}]

AcquaintedSpec == Acquainted /\ [][FriendsNext]_allVars

=============================================================================
