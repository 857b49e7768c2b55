-------------------------------- MODULE Bully --------------------------------
(***************************************************************************)
(* The election of a coordinator by the bully algorithm                    *)
(* (peer/impl/bully.go).  Every call of Elect is a goroutine: it sends     *)
(* Election messages to the peers with higher ids and then waits for one   *)
(* token on electionFailed, or for the timeout.  The handler of Answer     *)
(* messages puts the tokens, in the main loop of the peer and blocking.    *)
(*                                                                         *)
(* Peers are their ids.  Messages of one type between two peers are equal, *)
(* so that the network counts them; they arrive in any order.              *)
(***************************************************************************)
EXTENDS Integers, FiniteSets, FiniteSetsExt

CONSTANTS
    Node,        \* the ids in the network configured at every peer
    TotalPeers,  \* capacity of electionFailed
    Electors,    \* the peers whose clients begin elections
    MaxElect,    \* bound: elections that clients begin
    MaxCrash     \* bound: peers that crash

ASSUME NodeAssumption == Node \subseteq Nat \ {0} /\ IsFiniteSet(Node) /\ Electors \subseteq Node
ASSUME CapacityAssumption == TotalPeers \in Nat \ {0}
ASSUME BoundAssumption == MaxElect \in Nat /\ MaxCrash \in Nat

VARIABLES
    coordinator, \* coordinator[n]: bully.coordinator, 0 for none
    starting,    \* starting[n]: calls of Elect that have sent nothing yet
    waiting,     \* waiting[n]: calls of Elect in their select
    tokens,      \* tokens[n]: len(electionFailed)
    blocked,     \* the peers whose main loop waits to put a token
    alive,       \* the peers that have not crashed
    election,    \* election[n][m]: Election messages from n to m in flight
    answer,      \* answer[n][m]: Answer messages
    victory,     \* victory[n][m]: Coordinator messages
    elects       \* elections begun by clients so far

calls == <<starting, waiting, tokens, blocked>>
net == <<election, answer, victory>>
vars == <<coordinator, calls, alive, net, elects>>

Count == [Node -> Nat]
NetCount == [Node -> Count]

TypeOK ==
    /\ coordinator \in [Node -> Node \cup {0}]
    /\ starting \in Count /\ waiting \in Count
    /\ tokens \in [Node -> 0 .. TotalPeers]
    /\ blocked \subseteq Node /\ alive \subseteq Node
    /\ election \in NetCount /\ answer \in NetCount /\ victory \in NetCount
    /\ elects \in 0 .. MaxElect

NoMessages == [n \in Node |-> [m \in Node |-> 0]]

Init ==
    /\ coordinator = [n \in Node |-> 0]
    /\ starting = [n \in Node |-> 0] /\ waiting = [n \in Node |-> 0]
    /\ tokens = [n \in Node |-> 0]
    /\ blocked = {} /\ alive = Node
    /\ election = NoMessages /\ answer = NoMessages /\ victory = NoMessages
    /\ elects = 0

-----------------------------------------------------------------------------
(* Elect                                                                   *)

Higher(n) == {m \in Node : m > n}

\* Mutant: the largest peer is not asked.
AskedButLargest(n) == {m \in Node : m > n /\ \E k \in Node : k > m}

\* The peers that Elect sends Election messages to.
Asked(n) == Higher(n)

\* One message more from n to each peer of S that runs.
SendAll(counts, n, S) ==
    [counts EXCEPT ![n] =
        [m \in Node |-> IF m \in S \cap alive THEN counts[n][m] + 1 ELSE counts[n][m]]]

ClientElects(n) ==
    /\ n \in Electors \cap alive /\ elects < MaxElect
    /\ elects' = elects + 1
    /\ starting' = [starting EXCEPT ![n] = @ + 1]
    /\ UNCHANGED <<coordinator, waiting, tokens, blocked, alive, net>>

StartElect(n) ==
    /\ n \in alive /\ starting[n] > 0
    /\ starting' = [starting EXCEPT ![n] = @ - 1]
    /\ waiting' = [waiting EXCEPT ![n] = @ + 1]
    /\ election' = SendAll(election, n, Asked(n))
    /\ UNCHANGED <<coordinator, tokens, blocked, alive, answer, victory, elects>>

\* The call takes a token.  A main loop that waits to put one puts it then.
ElectionFails(n) ==
    /\ n \in alive /\ waiting[n] > 0 /\ tokens[n] > 0
    /\ waiting' = [waiting EXCEPT ![n] = @ - 1]
    /\ tokens' = [tokens EXCEPT ![n] = IF n \in blocked THEN @ ELSE @ - 1]
    /\ blocked' = blocked \ {n}
    /\ UNCHANGED <<coordinator, starting, alive, net, elects>>

\* Mutant: the call does not wait for the answers.
InTimeNever(n, m) == TRUE

\* A peer that runs and handles messages answers in time: no Election message
\* to it, and no Answer of it, is on its way when the timeout elapses.
InTime(n, m) == answer[m][n] = 0 /\ (m \notin blocked => election[n][m] = 0)

\* No token when BullyElectionTimeout elapses: n is the coordinator, and says
\* so to all peers, itself included.
ElectionTimeout(n) ==
    /\ n \in alive /\ waiting[n] > 0 /\ tokens[n] = 0
    /\ \A m \in Higher(n) \cap alive : InTime(n, m)
    /\ waiting' = [waiting EXCEPT ![n] = @ - 1]
    /\ coordinator' = [coordinator EXCEPT ![n] = n]
    /\ victory' = SendAll(victory, n, Node)
    /\ UNCHANGED <<starting, tokens, blocked, alive, election, answer, elects>>

-----------------------------------------------------------------------------
(* ExecBullyMessage, in the main loop of n                                 *)

\* Mutant: room for one token more than the channel has.
HasRoomForMore(n) == tokens[n] <= TotalPeers

HasRoom(n) == tokens[n] < TotalPeers

Handles(n) == n \in alive /\ n \notin blocked

\* Election: answer a lower peer and hold an election of one's own.
HandleElection(n, m) ==
    /\ Handles(n) /\ election[m][n] > 0
    /\ election' = [election EXCEPT ![m][n] = @ - 1]
    /\ \/ m < n /\ answer' = SendAll(answer, n, {m}) /\ starting' = [starting EXCEPT ![n] = @ + 1]
       \/ m >= n /\ UNCHANGED <<answer, starting>>
    /\ UNCHANGED <<coordinator, waiting, tokens, blocked, alive, victory, elects>>

\* Answer: put a token, whether a call waits for it or not.
HandleAnswer(n, m) ==
    /\ Handles(n) /\ answer[m][n] > 0
    /\ answer' = [answer EXCEPT ![m][n] = @ - 1]
    /\ \/ HasRoom(n) /\ tokens' = [tokens EXCEPT ![n] = @ + 1] /\ UNCHANGED blocked
       \/ ~HasRoom(n) /\ blocked' = blocked \cup {n} /\ UNCHANGED tokens
    /\ UNCHANGED <<coordinator, starting, waiting, alive, election, victory, elects>>

HandleVictory(n, m) ==
    /\ Handles(n) /\ victory[m][n] > 0
    /\ victory' = [victory EXCEPT ![m][n] = @ - 1]
    /\ coordinator' = [coordinator EXCEPT ![n] = m]
    /\ UNCHANGED <<calls, alive, election, answer, elects>>

\* A peer stops for good.  What was sent to it is lost.
Crash(n) ==
    /\ n \in alive /\ Cardinality(Node \ alive) < MaxCrash
    /\ alive' = alive \ {n}
    /\ blocked' = blocked \ {n}
    /\ election' = [m \in Node |-> [election[m] EXCEPT ![n] = 0]]
    /\ answer' = [m \in Node |-> [answer[m] EXCEPT ![n] = 0]]
    /\ victory' = [m \in Node |-> [victory[m] EXCEPT ![n] = 0]]
    /\ UNCHANGED <<coordinator, starting, waiting, tokens, elects>>

Handle(n, m) == HandleElection(n, m) \/ HandleAnswer(n, m) \/ HandleVictory(n, m)

Next ==
    \/ \E n \in Node : \/ ClientElects(n) \/ StartElect(n)
                       \/ ElectionFails(n) \/ ElectionTimeout(n) \/ Crash(n)
    \/ \E n, m \in Node : Handle(n, m)

Spec == Init /\ [][Next]_vars

-----------------------------------------------------------------------------
(* Properties                                                              *)

\* A peer makes itself coordinator only when every higher peer has crashed or is
\* deaf: the answers of the others were all counted, whatever the order in which
\* several elections of the peer, the answers to them and the tokens interleave.
NoUsurper ==
    [][\A n \in Node : ElectionTimeout(n) => Higher(n) \cap alive \subseteq blocked]_vars

\* Calls run, timers elapse and main loops go on.  Nothing makes a client call
\* Elect and nothing makes a peer crash.
Fairness ==
    \A n \in Node :
        /\ WF_vars(StartElect(n))
        /\ WF_vars(ElectionFails(n) \/ ElectionTimeout(n))
        /\ \A m \in Node : WF_vars(Handle(n, m))

FairSpec == Spec /\ Fairness

AllFollow(n) == \A m \in alive : coordinator[m] = n

\* The largest peer leads in the end, while no peer crashes or is deaf: no order
\* of the messages of several elections leaves a peer with another coordinator.
LargestLeads ==
    (\E n \in Node : waiting[n] > 0) ~> (alive # Node \/ blocked # {} \/ AllFollow(Max(Node)))


=============================================================================
