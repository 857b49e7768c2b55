------------------------------- MODULE Gossip -------------------------------
(***************************************************************************)
(* The gossip layer of a peer (peer/impl/mod.go): rumors with a sequence   *)
(* number per origin, acknowledgements that carry a status, anti-entropy,  *)
(* and the neighbour and routing tables that rumors keep up to date.       *)
(*                                                                         *)
(* A rumor is processed when its number is the next one of its origin; a   *)
(* peer that hears of more than it has asks for it with its own status.    *)
(* Calls of Broadcast run in goroutines of their own and interleave with   *)
(* the main loop, which handles one packet at a time.                      *)
(*                                                                         *)
(* Packets travel over UDP: they are lost, duplicated and reordered.       *)
(***************************************************************************)
EXTENDS Integers, Sequences, FiniteSets

CONSTANTS
    Node,
    Peers,      \* Peers[n]: the addresses given to AddPeer of n at start
    Quota,      \* bound: Quota[n] broadcasts of n
    MaxFlight,  \* bound: packets in flight
    None        \* no neighbour, no route

ASSUME NodeAssumption == IsFiniteSet(Node) /\ None \notin Node
ASSUME PeersAssumption == Peers \in [Node -> SUBSET Node]
ASSUME BoundAssumption == Quota \in [Node -> Nat] /\ MaxFlight \in Nat \ {0}

-----------------------------------------------------------------------------
\* The message of a rumor: nothing but its origin and the broadcast it is from.
Payload == UNION {{<<o, i>> : i \in 1 .. Quota[o]} : o \in Node}

\* Status messages: the number of rumors known of each origin.
Status == [Node -> Nat]

\* Consecutive rumors of one origin, the first with number "first".
Segment == [origin : Node, first : Nat \ {0}, msgs : Seq(Payload)]

\* The packets.  The id of a packet that waits for an ack is the number of the
\* rumor it was sent for, 0 for every other packet.
RumorsMessage == [type : {"rumors"}, src : Node, dst : Node, id : Nat,
                  rumors : Seq(Segment)]
AckMessage == [type : {"ack"}, src : Node, dst : Node, id : Nat, status : Status]
StatusMessage == [type : {"status"}, src : Node, dst : Node, status : Status]
Packet == RumorsMessage \cup AckMessage \cup StatusMessage

\* A call of broadCast: Broadcast waits for an ack and processes the message
\* locally, broadCastWithoutProcessing waits, heartbeat does neither.
Kind == {"broadcast", "relay", "heartbeat"}
Acked(kind) == kind \in {"broadcast", "relay"}
Processed(kind) == kind = "broadcast"
Call == [kind : Kind, to : Node \cup {None}, stage : {"logged", "sent", "waiting", "returned"}]

VARIABLES
    log,        \* log[n][o]: ackRumors.values[o] of n
    neighbours, \* neighbours[n]: neighbourTable
    route,      \* route[n][o]: routingTable
    calls,      \* calls[n][i]: the call of broadCast that made rumor i of n
    handled,    \* handled[n]: the numbers of its own rumors n has processed
    flight      \* the packets sent and not received yet

tables == <<neighbours, route>>
vars == <<log, tables, calls, handled, flight>>

TypeOK ==
    /\ log \in [Node -> [Node -> Seq(Payload)]]
    /\ neighbours \in [Node -> SUBSET Node]
    /\ route \in [Node -> [Node -> Node \cup {None}]]
    /\ calls \in [Node -> Seq(Call)]
    /\ handled \in [Node -> SUBSET (Nat \ {0})]
    /\ flight \in SUBSET Packet

Init ==
    /\ log = [n \in Node |-> [o \in Node |-> << >>]]
    /\ neighbours = [n \in Node |-> Peers[n] \ {n}]
    /\ route = [n \in Node |-> [o \in Node |-> IF o \in Peers[n] \cup {n} THEN o ELSE None]]
    /\ calls = [n \in Node |-> << >>]
    /\ handled = [n \in Node |-> {}]
    /\ flight = {}

-----------------------------------------------------------------------------
(* Sending                                                                 *)

\* The packets in flight are those of the set after, if there is room.
Fly(after) == Cardinality(after) <= MaxFlight /\ flight' = after

StatusOf(n) == [o \in Node |-> Len(log'[n][o])]

\* Mutant: the slice ends one rumor early.
MissingButLast(n, o, s) ==
    [origin |-> o, first |-> s[o] + 1, msgs |-> SubSeq(log[n][o], s[o] + 1, Len(log[n][o]) - 1)]

\* The rumors of o that a peer with status s does not know.
Missing(n, o, s) ==
    [origin |-> o, first |-> s[o] + 1, msgs |-> SubSeq(log[n][o], s[o] + 1, Len(log[n][o]))]

\* Maps are iterated in any order.
Orders(S) ==
    {f \in [1 .. Cardinality(S) -> S] : \A i, j \in DOMAIN f : f[i] = f[j] => i = j}

\* getRandomNeighbourExclude: any neighbour but one, None if there is no other.
Choices(known, exclude) == IF known \ {exclude} = {} THEN {None} ELSE known \ {exclude}

\* Mutant: the error of getRandomNeighbourExclude is ignored.
ToAnyone(d, p) == {p}

To(d, p) == IF d = None THEN {} ELSE {p}

\* The rumor i of n, in a packet of its own.
OwnRumor(n, i, d, id) ==
    [type |-> "rumors", src |-> n, dst |-> d, id |-> id,
     rumors |-> << [origin |-> n, first |-> i, msgs |-> <<log[n][n][i]>>] >>]

-----------------------------------------------------------------------------
(* Broadcasting                                                            *)

\* broadCast logs the rumor under the next number.  The neighbour was chosen
\* by its caller.
Broadcast(n, kind) ==
    LET i == Len(log[n][n]) + 1 IN
    /\ i <= Quota[n]
    /\ log' = [log EXCEPT ![n][n] = Append(@, <<n, i>>)]
    /\ \E d \in Choices(neighbours[n], None) :
           calls' = [calls EXCEPT ![n] = Append(@, [kind |-> kind, to |-> d, stage |-> "logged"])]
    /\ UNCHANGED <<tables, handled, flight>>

\* The rumor is sent.  With no neighbour the call goes on without.
SendRumor(n, i) ==
    LET c == calls[n][i] IN
    /\ c.stage = "logged"
    /\ Fly(flight \cup To(c.to, OwnRumor(n, i, c.to, IF Acked(c.kind) THEN i ELSE 0)))
    /\ calls' = [calls EXCEPT ![n][i].stage = "sent"]
    /\ UNCHANGED <<log, tables, handled>>

\* Socket.Send fails and the call returns the error.
SendFails(n, i) ==
    /\ calls[n][i].stage = "logged"
    /\ calls[n][i].to # None
    /\ calls' = [calls EXCEPT ![n][i].stage = "returned"]
    /\ UNCHANGED <<log, tables, handled, flight>>

\* The message is processed locally and then the channel for the ack is
\* registered: an ack that came before finds none.
ProcessOwn(n, i) ==
    LET c == calls[n][i] IN
    /\ c.stage = "sent"
    /\ handled' = [handled EXCEPT ![n] = IF Processed(c.kind) THEN @ \cup {i} ELSE @]
    /\ calls' = [calls EXCEPT ![n][i].stage =
                     IF Acked(c.kind) /\ c.to # None THEN "waiting" ELSE "returned"]
    /\ UNCHANGED <<log, tables, flight>>

\* AckTimeout elapses: the rumor is sent once more, to another neighbour.
AckTimeout(n, i) ==
    /\ calls[n][i].stage = "waiting"
    /\ \E d \in Choices(neighbours[n], calls[n][i].to) :
           Fly(flight \cup To(d, OwnRumor(n, i, d, 0)))
    /\ calls' = [calls EXCEPT ![n][i].stage = "returned"]
    /\ UNCHANGED <<log, tables, handled>>

CallStep(n) ==
    \/ \E kind \in Kind : Broadcast(n, kind)
    \/ \E i \in DOMAIN calls[n] :
           SendRumor(n, i) \/ SendFails(n, i) \/ ProcessOwn(n, i) \/ AckTimeout(n, i)

\* The ticker of the anti-entropy goroutine.
AntiEntropy(n, d) ==
    /\ d \in neighbours[n]
    /\ Fly(flight \cup {[type |-> "status", src |-> n, dst |-> d,
                         status |-> [o \in Node |-> Len(log[n][o])]]})
    /\ UNCHANGED <<log, tables, calls, handled>>

-----------------------------------------------------------------------------
(* Receiving                                                               *)

\* Mutant: any later rumor is taken.
NewInAny(n, s) ==
    s.first + Len(s.msgs) - 1 > Len(log[n][s.origin])

\* A segment holds the next rumor of its origin.
NewIn(n, s) ==
    LET next == Len(log[n][s.origin]) + 1 IN
    s.first <= next /\ next < s.first + Len(s.msgs)

\* Mutant: the newest rumor of the segment.
NextInLast(n, s) == s.msgs[Len(s.msgs)]

NextIn(n, s) ==
    LET i == Len(log[n][s.origin]) + 2 - s.first IN
    s.msgs[IF i \in DOMAIN s.msgs THEN i ELSE Len(s.msgs)]

\* ExecRumorsMessage.  The loop over the rumors calls handleSingleRumor only
\* until one is expected ("expected || ..."): the first expected rumor is taken,
\* the rest of the message is skipped.  The whole message is passed on.
HandleRumors(n, p, rest) ==
    LET New == {k \in DOMAIN p.rumors : NewIn(n, p.rumors[k])}
        ack == [type |-> "ack", src |-> n, dst |-> p.src, id |-> p.id, status |-> StatusOf(n)]
    IN /\ p.type = "rumors"
       /\ neighbours' = [neighbours EXCEPT ![n] = @ \cup {p.src}]
       /\ \/ New = {} /\ UNCHANGED <<log, route>> /\ Fly(rest \cup {ack})
          \/ \E k \in New : LET s == p.rumors[k] IN
                 /\ \A j \in New : k <= j
                 /\ log' = [log EXCEPT ![n][s.origin] = Append(@, NextIn(n, s))]
                 /\ route' = [route EXCEPT ![n][s.origin] = p.src]
                 /\ \E d \in Choices(neighbours'[n], p.src) :
                        Fly(rest \cup {ack} \cup To(d, [p EXCEPT !.src = n, !.dst = d, !.id = 0]))
       /\ UNCHANGED <<calls, handled>>

\* ExecStatusMessage: ask for what is missing here, send what is missing there,
\* or pass the status on.
AnswerStatus(n, p, rest) ==
    LET status(d) == [type |-> "status", src |-> n, dst |-> d,
                      status |-> [o \in Node |-> Len(log[n][o])]]
        behind == \E o \in Node : Len(log[n][o]) < p.status[o]
        Ahead == {o \in Node : Len(log[n][o]) > p.status[o]}
    IN /\ neighbours' = [neighbours EXCEPT ![n] = @ \cup {p.src}]
       /\ \/ /\ behind \/ Ahead # {}
             /\ \E order \in Orders(Ahead) :
                    Fly(rest \cup (IF behind THEN {status(p.src)} ELSE {})
                             \cup (IF Ahead = {} THEN {} ELSE
                                   {[type |-> "rumors", src |-> n, dst |-> p.src, id |-> 0,
                                     rumors |-> [k \in DOMAIN order |->
                                                    Missing(n, order[k], p.status)]]}))
          \/ /\ ~behind /\ Ahead = {}
             /\ \/ Fly(rest)
                \/ \E d \in Choices(neighbours'[n], p.src) : Fly(rest \cup To(d, status(d)))
       /\ UNCHANGED <<log, route, handled>>

HandleStatus(n, p, rest) ==
    p.type = "status" /\ AnswerStatus(n, p, rest) /\ UNCHANGED calls

\* ExecAckMessage: release the call that waits for this packet, then process
\* the status in the ack.
HandleAck(n, p, rest) ==
    /\ p.type = "ack"
    /\ calls' = IF p.id \in DOMAIN calls[n] /\ calls[n][p.id].stage = "waiting"
                THEN [calls EXCEPT ![n][p.id].stage = "returned"] ELSE calls
    /\ AnswerStatus(n, p, rest)

\* The main loop of n handles packet p; "rest" is what else is in flight.
Handle(n, p, rest) ==
    /\ p \in flight /\ p.dst = n
    /\ HandleRumors(n, p, rest) \/ HandleStatus(n, p, rest) \/ HandleAck(n, p, rest)

Receive(n, p) == Handle(n, p, flight \ {p})

\* The network delivers a packet and will deliver it again, or drops it.
ReceiveTwice(n, p) == Handle(n, p, flight)
Lose(p) == p \in flight /\ flight' = flight \ {p} /\ UNCHANGED <<log, tables, calls, handled>>

-----------------------------------------------------------------------------
Next ==
    \/ \E n \in Node : CallStep(n)
    \/ \E n, d \in Node : AntiEntropy(n, d)
    \/ \E n \in Node : \E p \in flight : Receive(n, p) \/ ReceiveTwice(n, p)
    \/ \E p \in flight : Lose(p)

Spec == Init /\ [][Next]_vars

-----------------------------------------------------------------------------
(* Safety                                                                  *)

\* What a peer has logged of an origin is the beginning of what the origin has
\* broadcast: nothing is skipped, repeated or exchanged, whatever the network
\* loses, repeats or reorders.
LogPrefix ==
    \A n, o \in Node :
        /\ Len(log[n][o]) <= Len(log[o][o])
        /\ \A j \in DOMAIN log[n][o] : log[n][o][j] = log[o][o][j]

B == INSTANCE RumorBroadcast

\* The gossip layer is a reliable broadcast: every step that logs rumors logs
\* one, a new one at its origin or the next one elsewhere.
ImplementsBroadcast == B!Spec

-----------------------------------------------------------------------------
(* Liveness                                                                *)

Stages(n) == \E i \in DOMAIN calls[n] : SendRumor(n, i) \/ ProcessOwn(n, i) \/ AckTimeout(n, i)

\* A status message the ticker repeats, a rumors message with news.
Fresh(p) ==
    IF p.type = "status" THEN p.status = [o \in Node |-> Len(log[p.src][o])]
    ELSE p.type = "rumors" /\ \E k \in DOMAIN p.rumors : NewIn(p.dst, p.rumors[k])

ReceiveFresh(m, n, type) ==
    \E p \in flight : p.src = m /\ p.type = type /\ Fresh(p) /\ Receive(n, p)

\* Calls go on; the ticker picks each configured peer again and again; no packet
\* is in flight forever, and of what is sent again and again between a peer and
\* one configured at it something arrives.  Nothing makes a client broadcast,
\* and nothing is asked of acks.
Fairness ==
    /\ \A n \in Node : SF_vars(Stages(n))
    /\ \A n \in Node : \A d \in Peers[n] : SF_vars(AntiEntropy(n, d))
    /\ WF_vars(\E p \in flight : Receive(p.dst, p) \/ Lose(p))
    /\ \A n \in Node : \A d \in Peers[n] : \A type \in {"rumors", "status"} :
           SF_vars(ReceiveFresh(n, d, type)) /\ SF_vars(ReceiveFresh(d, n, type))

FairSpec == Spec /\ Fairness

\* A rumor reaches every peer: the anti-entropy replaces whatever is lost.
Delivered ==
    \A n, o \in Node : \A i \in 1 .. Quota[o] :
        Len(log[o][o]) >= i ~> Len(log[n][o]) >= i

=============================================================================
