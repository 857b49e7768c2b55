----------------------------- MODULE PublicKeys ------------------------------
(***************************************************************************)
(* The decentralized table of public keys (peer/decentralized_PKI.go, and  *)
(* peer/impl/mod.go 683-901).  Peers exchange their tables; a key that the *)
(* owner itself sends a second time is safe.  A peer that restarts makes a *)
(* new key, so that tables come to disagree.                               *)
(*                                                                         *)
(* The network is UDP: a message that was sent may arrive at any time, any *)
(* number of times, or never.                                              *)
(***************************************************************************)
EXTENDS Integers, FiniteSets

CONSTANTS
    Node,
    None,       \* no entry
    Peers,      \* Peers[n]: addresses that n adds with AddPeer
    Asks,       \* Asks[n]: whom users of n ask for friendship
    MaxSent,    \* bound: messages ever sent
    MaxLife     \* bound: MaxLife[n] runs of n, one more than its restarts

ASSUME NodeAssumption ==
    /\ IsFiniteSet(Node)
    /\ Peers \in [Node -> SUBSET Node] /\ Asks \in [Node -> SUBSET Node]
    /\ MaxLife \in [Node -> Nat] /\ MaxSent \in Nat

\* The key pair of a peer in one of its runs.
Key == Node \X Nat

ASSUME NoneAssumption == None \notin Node /\ None \notin Key

VARIABLES
    life,       \* life[n]: the run that n is in
    up,         \* up[n]: n has not crashed in this run
    routes,     \* routes[n]: the destinations in the routing table
    neighbours, \* neighbourTable
    table,      \* table[n][a]: the key of a as n knows it
    safe,       \* safeAddress
    heard,      \* heard[n][a]: the values in consensusPK[a], {} if there is no map
    tasks,      \* goroutines of SendTablePKTo, by destination; None: SendTablePK of Start
    sent        \* messages sent so far

vars == <<life, up, routes, neighbours, table, safe, heard, tasks, sent>>

Table == [Node -> Key \cup {None}]

PublicKeyMessage == [type : {"table"}, src : Node, to : SUBSET Node, table : Table]
NeedConfirmationPKMessage == [type : {"need"}, src : Node, to : SUBSET Node, about : Node]
ConfirmationPKMessage ==
    [type : {"confirm"}, src : Node, to : SUBSET Node, about : Node, key : Key]
Message == PublicKeyMessage \cup NeedConfirmationPKMessage \cup ConfirmationPKMessage

TypeOK ==
    /\ life \in [Node -> Nat] /\ up \in [Node -> BOOLEAN]
    /\ routes \in [Node -> SUBSET Node] /\ neighbours \in [Node -> SUBSET Node]
    /\ table \in [Node -> Table] /\ safe \in [Node -> SUBSET Node]
    /\ heard \in [Node -> [Node -> SUBSET Key]]
    /\ tasks \in [Node -> SUBSET (Node \cup {None})] /\ sent \subseteq Message

\* Mutant: the own address is not safe from the beginning.
InitSafeNone(n) == {}

\* InitiatePKI: the own key and the own address.
InitSafe(n) == {n}
InitTable(n, l) == [a \in Node |-> IF a = n THEN <<n, l>> ELSE None]

Init ==
    /\ life = [n \in Node |-> 1] /\ up = [n \in Node |-> TRUE]
    /\ routes = [n \in Node |-> {n}] /\ neighbours = [n \in Node |-> {}]
    /\ table = [n \in Node |-> InitTable(n, 1)] /\ safe = [n \in Node |-> InitSafe(n)]
    /\ heard = [n \in Node |-> [a \in Node |-> {}]]
    /\ tasks = [n \in Node |-> {None}] /\ sent = {}

Known(t) == {a \in Node : t[a] # None}

\* The table t, sent by n to those of S that it has a route to.
TableTo(n, S, t) ==
    IF S \cap routes[n] = {} THEN {}
    ELSE {[type |-> "table", src |-> n, to |-> S \cap routes[n], table |-> t]}

-----------------------------------------------------------------------------

\* AddPeer, once in a run for each peer; the goroutine that sends the table may come
\* before the route, and then sends nothing: as if its message were lost.
AddPeer(n, m) ==
    /\ m \in Peers[n] \ neighbours[n]
    /\ routes' = [routes EXCEPT ![n] = @ \cup {m}]
    /\ neighbours' = [neighbours EXCEPT ![n] = @ \cup ({m} \ {n})]
    /\ tasks' = [tasks EXCEPT ![n] = @ \cup {m}]
    /\ UNCHANGED <<life, up, table, safe, heard, sent>>

\* ExecFriendRequest: a route to a peer that n had none to.
LearnRoute(n, m) ==
    /\ n \in Asks[m] /\ m \notin routes[n]
    /\ routes' = [routes EXCEPT ![n] = @ \cup {m}]
    /\ tasks' = [tasks EXCEPT ![n] = @ \cup {m}]
    /\ UNCHANGED <<life, up, neighbours, table, safe, heard, sent>>

\* SendTablePK and SendTablePKTo.
SendTable(n, m) ==
    /\ m \in tasks[n]
    /\ tasks' = [tasks EXCEPT ![n] = @ \ {m}]
    /\ sent' = sent \cup TableTo(n, IF m = None THEN Node ELSE {m}, table[n])
    /\ UNCHANGED <<life, up, routes, neighbours, table, safe, heard>>

-----------------------------------------------------------------------------
(* ExecPublicKeyMessage                                                    *)

\* Mutant: a safe key is replaced by another one.
SkipsOwn(n, a) == a = n

\* AddKey does nothing about a safe address.
Skips(n, a) == a \in safe[n]

\* Mutant: the key of the sender is taken for the one of the address.
KeyOfSender(p, a) == p.table[p.src]

KeyIn(p, a) == p.table[a]

\* Mutant: whoever sends a key that is known confirms it.
FromOwnerAny(p, a) == TRUE

FromOwner(p, a) == a = p.src

\* What AddKey finds: an address never seen, one whose owner sends its key again,
\* and one for which somebody else sends another key.
Checked(n, p) == {a \in Known(p.table) : ~Skips(n, a)}
Unseen(n, p) == Checked(n, p) \ Known(table[n])
Confirmed(n, p) == {a \in Checked(n, p) \cap Known(table[n]) : FromOwner(p, a)}

\* Mutant: an address never seen is taken for one in conflict.
ConflictsUnseen(n, p) ==
    {a \in Checked(n, p) : ~FromOwner(p, a) /\ KeyIn(p, a) # table[n][a]}

Conflicts(n, p) ==
    {a \in Checked(n, p) \cap Known(table[n]) : ~FromOwner(p, a) /\ KeyIn(p, a) # table[n][a]}

\* The values that an election at n is about.
Values(n, a) == heard[n][a] \cup {table[n][a]}

\* SendNeedConfirmationPK about each address of S.
NeedConfirmation(n, S) ==
    {[type |-> "need", src |-> n, to |-> neighbours[n] \cap routes[n], about |-> a] : a \in S}

\* The handler waits for confirmations in the main loop, which would have to receive
\* them; and it keeps no maximum, so that it takes any value heard.
HandleTable(n, p) ==
    LET conflicts == Conflicts(n, p)
        taken == Unseen(n, p) \cup Confirmed(n, p)
    IN /\ p.type = "table"
       /\ \E elected \in [conflicts -> UNION {Values(n, a) : a \in conflicts}] :
              /\ \A a \in conflicts : elected[a] \in Values(n, a)
              /\ LET new == [a \in Node |-> IF a \in conflicts THEN elected[a]
                                            ELSE IF a \in taken THEN KeyIn(p, a)
                                            ELSE table[n][a]]
                     correct == \/ Unseen(n, p) # {} \/ conflicts # {}
                                \/ \E a \in Confirmed(n, p) : KeyIn(p, a) # table[n][a]
                 IN /\ table' = [table EXCEPT ![n] = new]
                    /\ sent' = sent \cup NeedConfirmation(n, conflicts) \cup
                           (IF correct \/ Cardinality(Known(new)) # Cardinality(Known(p.table))
                            THEN TableTo(n, Node, new) ELSE {})
       /\ safe' = [safe EXCEPT ![n] = @ \cup Confirmed(n, p)]
       /\ heard' = [heard EXCEPT ![n] =
                       [a \in Node |-> IF a \in conflicts THEN @[a] \cup {table[n][a]} ELSE @[a]]]
       /\ UNCHANGED <<life, up, routes, neighbours, tasks>>

\* SendConfirmationPK.
Confirmation(n, m, a) ==
    [type |-> "confirm", src |-> n, to |-> {m}, about |-> a, key |-> table[n][a]]

\* ExecNeedConfirmationPKMessage.
HandleNeed(n, p) ==
    /\ p.type = "need" /\ table[n][p.about] # None /\ p.src \in routes[n]
    /\ sent' = sent \cup {Confirmation(n, p.src, p.about)}
    /\ UNCHANGED <<life, up, routes, neighbours, table, safe, heard, tasks>>

\* ExecConfirmationPKMessage: the write to a map that is nil kills the peer.
HandleConfirm(n, p) ==
    /\ p.type = "confirm"
    /\ \/ /\ heard[n][p.about] # {}
          /\ heard' = [heard EXCEPT ![n][p.about] = @ \cup {p.key}]
          /\ UNCHANGED up
       \/ /\ heard[n][p.about] = {}
          /\ up' = [up EXCEPT ![n] = FALSE]
          /\ UNCHANGED heard
    /\ UNCHANGED <<life, routes, neighbours, table, safe, tasks, sent>>

\* The peer is started anew at its address; nothing is stored.
Restart(n) ==
    /\ life[n] < MaxLife[n]
    /\ life' = [life EXCEPT ![n] = @ + 1] /\ up' = [up EXCEPT ![n] = TRUE]
    /\ routes' = [routes EXCEPT ![n] = {n}] /\ neighbours' = [neighbours EXCEPT ![n] = {}]
    /\ table' = [table EXCEPT ![n] = InitTable(n, life[n] + 1)]
    /\ safe' = [safe EXCEPT ![n] = InitSafe(n)]
    /\ heard' = [heard EXCEPT ![n] = [a \in Node |-> {}]]
    /\ tasks' = [tasks EXCEPT ![n] = {None}]
    /\ UNCHANGED sent

Receive(n, p) == n \in p.to /\ (HandleTable(n, p) \/ HandleNeed(n, p) \/ HandleConfirm(n, p))

KeyStep(n) ==
    /\ up[n]
    /\ \/ \E m \in Node : AddPeer(n, m) \/ LearnRoute(n, m)
       \/ \E m \in tasks[n] : SendTable(n, m)
       \/ \E p \in sent : Receive(n, p)
    /\ Cardinality(sent') <= MaxSent

Step(n) == KeyStep(n) \/ Restart(n)

Next == \E n \in Node : Step(n)

Spec == Init /\ [][Next]_vars

-----------------------------------------------------------------------------
(* Properties                                                              *)

\* The own key of a peer is the one of its run, also if others send it back the
\* one it had before.
OwnKey == \A n \in Node : table[n][n] = <<n, life[n]>>

\* A key stands at the address whose key it is or was, in tables and among the
\* values for an election.
KeyGenuine ==
    \A n, a \in Node :
        /\ table[n][a] # None => table[n][a][1] = a /\ table[n][a][2] <= life[a]
        /\ \A k \in heard[n][a] : k[1] = a /\ k[2] <= life[a]

\* A safe key was sent by its owner itself to the peer that takes it as safe.
SafeFromOwner ==
    \A n \in Node : \A a \in safe[n] \ {n} :
        \E p \in sent : p.type = "table" /\ p.src = a /\ n \in p.to /\ p.table[a] = table[n][a]

\* As long as a peer runs, no message and no election changes a safe key.
SafeFixed ==
    [][\A n \in Node : life'[n] = life[n] =>
           safe[n] \subseteq safe'[n] /\ \A a \in safe[n] : table'[n][a] = table[n][a]]_vars

=============================================================================
