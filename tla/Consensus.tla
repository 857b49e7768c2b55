----------------------------- MODULE Consensus -----------------------------
(***************************************************************************)
(* The naming consensus of a GossipNet peer (peer/impl/mod.go and          *)
(* peer/impl/username.go): Tag and SetUsername run Paxos over gossip       *)
(* rumors, one instance per step of a threshold logical clock (TLC), and   *)
(* a threshold of TLC messages appends a block to the node's blockchain    *)
(* and updates its naming store.                                           *)
(*                                                                         *)
(* Threads.  A node processes packets one at a time in its main loop; each *)
(* call of Tag runs in a goroutine of its own (an HTTP handler or the job  *)
(* queue).  Broadcast hands the rumor to the gossip layer and then, in the *)
(* SAME goroutine, processes the message locally, so a thread is either    *)
(* free or about to process one message of its own (local[t]).             *)
(*                                                                         *)
(* Transport.  A rumor is accepted from its origin in sequence order and   *)
(* exactly once (handleSingleRumor): net[o][d] is the queue of rumors of o *)
(* that d has not processed yet.  A delay of any length is possible.       *)
(***************************************************************************)
EXTENDS Integers, Sequences, FiniteSets

CONSTANTS
    Node,           \* the TotalPeers peers
    PaxosID,        \* PaxosID[n]: the configured first proposal number of n
    PaxosThreshold, \* the value of PaxosThreshold(TotalPeers)
    Call,           \* the calls of Tag / SetUsername that clients may make
    CallNode,       \* the node a call is made on
    CallKind,       \* "file" (Tag) or "user" (SetUsername)
    CallName,       \* the name the call asks for
    Name,           \* the names (peer.EmptyName is None)
    None,           \* nil, the empty name, no message
    MaxAttempt,     \* bound: iterations of Tag's loop per call
    MaxStep         \* bound: steps in which calls may propose

ASSUME NodeAssumption ==
    /\ IsFiniteSet(Node) /\ Node # {}
    /\ PaxosID \in [Node -> 1 .. Cardinality(Node)]
    /\ \A n, o \in Node : PaxosID[n] = PaxosID[o] => n = o
    /\ PaxosThreshold \in Nat \ {0}

ASSUME CallAssumption ==
    /\ CallNode \in [Call -> Node]
    /\ CallKind \in [Call -> {"file", "user"}]
    /\ CallName \in [Call -> Name]
    /\ Call \cap Node = {}

ASSUME BoundAssumption == MaxAttempt \in Nat \ {0} /\ MaxStep \in Nat \ {0}

N == Cardinality(Node)      \* TotalPeers
Steps == 0 .. MaxStep
Thread == Node \cup Call
NodeOf(t) == IF t \in Call THEN CallNode[t] ELSE t

-----------------------------------------------------------------------------
(* Values, blocks and messages                                             *)

Uid == Call \X (1 .. MaxAttempt)    \* xid.New(): a fresh identifier per proposal

\* PaxosValue.  The Filename of a user value is the JSON pair (old, new); its
\* Metahash is the address of the node.  A file's Metahash stands for the call.
Value == [uid : Uid, kind : {"file", "user"}, old : Name \cup {None},
          name : Name, meta : Node \cup Call]

\* A block's hash covers its index, its value and PrevHash.  The identifier
\* determines the value and the length of the hash determines the index.
Hash == Seq(Uid)
ZeroHash == << >>
Block == [index : Steps, value : Value, prev : Hash]
HashOf(b) == Append(b.prev, b.value.uid)

\* The rumors (a promise is the content of a PrivateMessage).  Proposal numbers
\* are positive: acceptedId 0 stands for "nothing accepted".
Number == Nat \ {0}
PaxosPrepareMessage == [type : {"prepare"}, src : Node, step : Steps, id : Number]
PaxosPromiseMessage == [type : {"promise"}, src : Node, dest : Node, step : Steps,
                        id : Number, accId : Nat, accVal : Value \cup {None}]
PaxosProposeMessage == [type : {"propose"}, src : Node, step : Steps, id : Number,
                        val : Value]
PaxosAcceptMessage == [type : {"accept"}, src : Node, step : Steps, id : Number,
                       val : Value]
TLCMessage == [type : {"tlc"}, src : Node, step : Steps, block : Block]
Message == PaxosPrepareMessage \cup PaxosPromiseMessage \cup PaxosProposeMessage
           \cup PaxosAcceptMessage \cup TLCMessage

ASSUME NoneAssumption ==
    None \notin Name \cup Node \cup Call /\ None \notin Value /\ None \notin Message

-----------------------------------------------------------------------------
VARIABLES
    \* step: the logical clock and its TLC bookkeeping
    step,       \* step[n]: step.value
    tlc,        \* tlc[n][s]: step.tlcMessages[s], in order of arrival
    tlcSent,    \* tlcSent[n]: the steps with step.tlcMessagesSent
    finished,   \* finished[n]: the steps whose finished channel holds a token
    \* storage
    chain,      \* chain[n]: the blocks of the blockchain store, oldest first
    naming,     \* naming[n]: the naming store
    username,   \* username[n]: username.value
    \* acceptor
    maxId, acceptedId, acceptedValue,
    \* proposer
    phaseOne, highestAcceptedId, highestAcceptedValue,
    phaseTwoPeers,  \* phaseTwoPeers[n][uid]: phaseTwoAcceptedPeers[uid]
    \* local variables of the calls of Tag
    pc,         \* idle, check, prepare, p1, p2, wait, done or failed
    current,    \* currentStep
    previous,   \* prevStep (-1: ^uint(0) - 1, no step yet)
    paxosId,    \* paxosId
    attempt,    \* iterations started so far (bounded by MaxAttempt)
    oldName,    \* the username read by SetUsername before it calls Tag
    proposed,   \* the value of the current propose message
    original,   \* isOriginal
    phaseOnePeers,  \* phaseOneAcceptedPeers of the call's iteration
    registered, \* is the channel in phase{One,Two}SuccessChanMap this call's?
    success,    \* does this call's success channel hold a token?
    \* threads and gossip
    local,      \* local[t]: the message thread t is about to process locally
    net,        \* net[o][d]: rumors of o not yet processed by d
    rumors      \* rumors[n]: ackRumors.values[n] of n, all it has broadcast

stepVars == <<step, tlc, tlcSent, finished>>
storeVars == <<chain, naming, username>>
acceptorVars == <<maxId, acceptedId, acceptedValue>>
highestVars == <<highestAcceptedId, highestAcceptedValue>>
proposerVars == <<phaseOne, highestVars, phaseTwoPeers>>
loopVars == <<current, previous, paxosId, attempt, oldName>>
callVars == <<pc, loopVars, proposed, original, phaseOnePeers, registered, success>>
gossipVars == <<local, net, rumors>>
vars == <<stepVars, storeVars, acceptorVars, proposerVars, callVars, gossipVars>>

StepTypeOK ==
    /\ step \in [Node -> Steps]
    /\ tlc \in [Node -> [Steps -> Seq(Block)]]
    /\ tlcSent \in [Node -> SUBSET Steps]
    /\ finished \in [Node -> SUBSET Steps]

StoreTypeOK ==
    /\ chain \in [Node -> Seq(Block)]
    /\ naming \in [Node -> [Name -> Node \cup Call \cup {None}]]
    /\ username \in [Node -> Name \cup {None}]

AcceptorTypeOK ==
    /\ maxId \in [Node -> Nat]
    /\ acceptedId \in [Node -> Nat]
    /\ acceptedValue \in [Node -> Value \cup {None}]

ProposerTypeOK ==
    /\ phaseOne \in [Node -> BOOLEAN]
    /\ highestAcceptedId \in [Node -> Nat]
    /\ highestAcceptedValue \in [Node -> Value \cup {None}]
    /\ phaseTwoPeers \in [Node -> [Uid -> SUBSET Node]]

CallTypeOK ==
    /\ pc \in [Call -> {"idle", "check", "prepare", "p1", "p2", "wait", "done", "failed"}]
    /\ current \in [Call -> Steps]
    /\ previous \in [Call -> Steps \cup {-1}]
    /\ paxosId \in [Call -> Nat]
    /\ attempt \in [Call -> 0 .. MaxAttempt]
    /\ oldName \in [Call -> Name \cup {None}]
    /\ proposed \in [Call -> Value \cup {None}]
    /\ original \in [Call -> BOOLEAN]
    /\ phaseOnePeers \in [Call -> SUBSET Node]
    /\ registered \in [Call -> BOOLEAN]
    /\ success \in [Call -> BOOLEAN]

GossipTypeOK ==
    /\ local \in [Thread -> Message \cup {None}]
    /\ net \in [Node -> [Node -> Seq(Message)]]
    /\ rumors \in [Node -> SUBSET Message]

TypeOK ==
    /\ StepTypeOK
    /\ StoreTypeOK
    /\ AcceptorTypeOK
    /\ ProposerTypeOK
    /\ CallTypeOK
    /\ GossipTypeOK

InitButRumors ==
    /\ step = [n \in Node |-> 0]
    /\ tlc = [n \in Node |-> [s \in Steps |-> << >>]]
    /\ tlcSent = [n \in Node |-> {}]
    /\ finished = [n \in Node |-> {}]
    /\ chain = [n \in Node |-> << >>]
    /\ naming = [n \in Node |-> [x \in Name |-> None]]
    /\ username = [n \in Node |-> None]
    /\ maxId = [n \in Node |-> 0]
    /\ acceptedId = [n \in Node |-> 0]
    /\ acceptedValue = [n \in Node |-> None]
    /\ phaseOne = [n \in Node |-> TRUE]
    /\ highestAcceptedId = [n \in Node |-> 0]
    /\ highestAcceptedValue = [n \in Node |-> None]
    /\ phaseTwoPeers = [n \in Node |-> [u \in Uid |-> {}]]
    /\ pc = [c \in Call |-> "idle"]
    /\ current = [c \in Call |-> 0]
    /\ previous = [c \in Call |-> -1]
    /\ paxosId = [c \in Call |-> 0]
    /\ attempt = [c \in Call |-> 0]
    /\ oldName = [c \in Call |-> None]
    /\ proposed = [c \in Call |-> None]
    /\ original = [c \in Call |-> FALSE]
    /\ phaseOnePeers = [c \in Call |-> {}]
    /\ registered = [c \in Call |-> FALSE]
    /\ success = [c \in Call |-> FALSE]
    /\ local = [t \in Thread |-> None]

Init ==
    /\ InitButRumors
    /\ net = [o \in Node |-> [d \in Node |-> << >>]]
    /\ rumors = [n \in Node |-> {}]

-----------------------------------------------------------------------------
(* Broadcast                                                               *)

\* The peers that act on a rumor.  A promise travels inside a PrivateMessage:
\* every peer gets the rumor, only the recipient processes its content.
ActsOn(m, d) == m.type = "promise" => m.dest = d

\* The queues after n broadcasts m, q being the queues before.
Enqueue(q, n, m) ==
    [q EXCEPT ![n] = [d \in Node |->
        IF d # n /\ ActsOn(m, d) THEN Append(q[n][d], m) ELSE q[n][d]]]

\* Thread t of n broadcasts m and will process it locally.
Broadcast(t, n, m, q) ==
    /\ net' = Enqueue(q, n, m)
    /\ rumors' = [rumors EXCEPT ![n] = @ \cup {m}]
    /\ local' = [local EXCEPT ![t] = IF ActsOn(m, n) THEN m ELSE None]

\* Thread t is done with the message it was processing and broadcasts nothing.
Finish(t, q) ==
    /\ net' = q
    /\ local' = [local EXCEPT ![t] = None]
    /\ UNCHANGED rumors

-----------------------------------------------------------------------------
(* Resets: resetWithoutLocking of the acceptor and of the proposer         *)

\* Mutant: only the promised number is forgotten.
ResetAcceptorMaxId(n) ==
    maxId' = [maxId EXCEPT ![n] = 0] /\ UNCHANGED <<acceptedId, acceptedValue>>

ResetAcceptor(n) ==
    /\ maxId' = [maxId EXCEPT ![n] = 0]
    /\ acceptedId' = [acceptedId EXCEPT ![n] = 0]
    /\ acceptedValue' = [acceptedValue EXCEPT ![n] = None]

ResetProposer(n) ==
    /\ phaseOne' = [phaseOne EXCEPT ![n] = TRUE]
    /\ highestAcceptedId' = [highestAcceptedId EXCEPT ![n] = 0]
    /\ highestAcceptedValue' = [highestAcceptedValue EXCEPT ![n] = None]

-----------------------------------------------------------------------------
(* Acceptor                                                                *)

\* A prepare is promised at its step, for a number above every promised one.
Promisable(n, m) == m.step = step[n] /\ m.id > maxId[n]

\* Mutant: the promised number is not checked.
AcceptableAny(n, m) == m.step = step[n]

\* A proposal is accepted at its step, for the last promised number only.
Acceptable(n, m) == m.step = step[n] /\ m.id = maxId[n]

\* ExecPaxosPrepareMessage
HandlePrepare(t, n, m, q) ==
    /\ m.type = "prepare"
    /\ IF Promisable(n, m)
       THEN /\ maxId' = [maxId EXCEPT ![n] = m.id]
            /\ Broadcast(t, n, [type |-> "promise", src |-> n, dest |-> m.src,
                                step |-> step[n], id |-> m.id,
                                accId |-> acceptedId[n],
                                accVal |-> acceptedValue[n]], q)
       ELSE Finish(t, q) /\ UNCHANGED maxId
    /\ UNCHANGED <<stepVars, storeVars, acceptedId, acceptedValue, proposerVars, callVars>>

\* ExecPaxosProposeMessage: the node also leaves phase one as a proposer.
HandlePropose(t, n, m, q) ==
    /\ m.type = "propose"
    /\ IF Acceptable(n, m)
       THEN /\ phaseOne' = [phaseOne EXCEPT ![n] = FALSE]
            /\ acceptedId' = [acceptedId EXCEPT ![n] = m.id]
            /\ acceptedValue' = [acceptedValue EXCEPT ![n] = m.val]
            /\ Broadcast(t, n, [type |-> "accept", src |-> n, step |-> m.step,
                                id |-> m.id, val |-> m.val], q)
       ELSE Finish(t, q) /\ UNCHANGED <<phaseOne, acceptedId, acceptedValue>>
    /\ UNCHANGED <<stepVars, storeVars, maxId, highestVars, phaseTwoPeers, callVars>>

-----------------------------------------------------------------------------
(* Proposer                                                                *)

\* The call on n whose channel and peer set are stored under the iteration
\* "step#id" of a promise.
PhaseOneCall(n, s, i) ==
    {c \in Call : /\ CallNode[c] = n /\ pc[c] = "p1" /\ registered[c]
                  /\ current[c] = s /\ paxosId[c] = i}

\* The call on n whose channel is stored under the identifier of an accept.
PhaseTwoCall(n, u) ==
    {c \in Call : /\ CallNode[c] = n /\ pc[c] = "p2" /\ registered[c]
                  /\ proposed[c].uid = u}

\* ExecPaxosPromiseMessage
HandlePromise(t, n, m, q) ==
    /\ m.type = "promise"
    /\ IF m.step = step[n] /\ phaseOne[n]
       THEN LET C == PhaseOneCall(n, m.step, m.id) IN
            /\ phaseOnePeers' = [c \in Call |->
                   phaseOnePeers[c] \cup (IF c \in C THEN {m.src} ELSE {})]
            /\ success' = [c \in Call |-> success[c] \/
                   (c \in C /\ Cardinality(phaseOnePeers'[c]) >= PaxosThreshold)]
            /\ IF m.accId > highestAcceptedId[n] /\ m.accVal # None
               THEN /\ highestAcceptedId' = [highestAcceptedId EXCEPT ![n] = m.accId]
                    /\ highestAcceptedValue' = [highestAcceptedValue EXCEPT ![n] = m.accVal]
               ELSE UNCHANGED highestVars
       ELSE UNCHANGED <<phaseOnePeers, success, highestVars>>
    /\ Finish(t, q)
    /\ UNCHANGED <<stepVars, storeVars, acceptorVars, phaseOne, phaseTwoPeers,
                   pc, loopVars, proposed, original, registered>>

\* The block a node at step s builds for value v, on its last block.
NewBlock(n, s, v) ==
    [index |-> s, value |-> v,
     prev |-> IF s = 0 THEN ZeroHash ELSE HashOf(chain[n][Len(chain[n])])]

\* Mutant: off by one.
DecidesEarly(peers) == Cardinality(peers) + 1 >= PaxosThreshold

\* Enough distinct peers have accepted the value.
Decides(peers) == Cardinality(peers) >= PaxosThreshold

\* ExecPaxosAcceptMessage.  Every accept from the threshold on makes the node
\* broadcast a TLC message: tlcMessagesSent is written here, not read.
HandleAccept(t, n, m, q) ==
    /\ m.type = "accept"
    /\ LET peers == phaseTwoPeers[n][m.val.uid] \cup {m.src}
           decided == Decides(peers)
       IN IF m.step = step[n] /\ ~phaseOne[n]
          THEN /\ phaseTwoPeers' = [phaseTwoPeers EXCEPT ![n][m.val.uid] = peers]
               /\ success' = [c \in Call |-> success[c] \/
                      (decided /\ c \in PhaseTwoCall(n, m.val.uid))]
               /\ IF decided
                  THEN /\ tlcSent' = [tlcSent EXCEPT ![n] = @ \cup {m.step}]
                       /\ Broadcast(t, n, [type |-> "tlc", src |-> n, step |-> m.step,
                                           block |-> NewBlock(n, m.step, m.val)], q)
                  ELSE Finish(t, q) /\ UNCHANGED tlcSent
          ELSE Finish(t, q) /\ UNCHANGED <<phaseTwoPeers, success, tlcSent>>
    /\ UNCHANGED <<step, tlc, finished, storeVars, acceptorVars, phaseOne, highestVars,
                   pc, loopVars, proposed, original, phaseOnePeers, registered>>

-----------------------------------------------------------------------------
(* Threshold logical clock                                                 *)

LastIn(S) == CHOOSE i \in S : \A j \in S : j <= i

Renames(b, x) == b.value.kind = "user" /\ b.value.old = x

\* Mutant: the old name is not deleted.
NamingKept(names, bs) ==
    [x \in Name |->
        LET I == {i \in DOMAIN bs : bs[i].value.name = x}
        IN IF I = {} THEN names[x] ELSE bs[LastIn(I)].value.meta]

\* The naming store after the blocks bs: a block deletes its old name, then
\* sets its name; the last block that touches a name decides.
NamingAfter(names, bs) ==
    [x \in Name |->
        LET I == {i \in DOMAIN bs : bs[i].value.name = x \/ Renames(bs[i], x)}
        IN IF I = {} THEN names[x]
           ELSE IF bs[LastIn(I)].value.name = x THEN bs[LastIn(I)].value.meta
           ELSE None]

UsernameAfter(n, name, bs) ==
    LET I == {i \in DOMAIN bs : bs[i].value.kind = "user" /\ bs[i].value.meta = n}
    IN IF I = {} THEN name ELSE bs[LastIn(I)].value.name

\* Mutant: no catching up.
NextStep(n, s) == s + 1

\* The step catchUpTLCWithoutLocking stops at: the first one after s that has
\* fewer TLC messages than the threshold.
CatchUpStep(n, s) ==
    CHOOSE k \in s + 1 .. MaxStep :
        /\ k < MaxStep => Len(tlc[n][k]) < PaxosThreshold
        /\ \A j \in s + 1 .. k - 1 : Len(tlc[n][j]) >= PaxosThreshold

\* Mutant: every step gets the block of the first.
CommittedRepeat(n, m, top) == [i \in 1 .. top - m.step |-> m.block]

\* The blocks of the steps left: that of the message m that reaches the
\* threshold, then that of the first message stored for each ready step.
CommittedBlocks(n, m, top) ==
    [i \in 1 .. top - m.step |->
        IF i = 1 THEN m.block ELSE tlc[n][m.step + i - 1][1]]

\* Mutants: the step entered, or one step too few.
SignalledEntered(top) == top
SignalledTooLow(top) == top - 2

\* The step whose waiting calls are signalled by a node that moves to step top.
Signalled(top) == top - 1

\* A TLC message for a later step, or one more below the threshold: stored only.
StoreTLC(t, n, m, q) ==
    /\ m.step >= step[n]
    /\ m.step = step[n] => Len(tlc[n][m.step]) + 1 < PaxosThreshold
    /\ tlc' = [tlc EXCEPT ![n][m.step] = Append(@, m.block)]
    /\ Finish(t, q)
    /\ UNCHANGED <<step, tlcSent, finished, storeVars, acceptorVars, proposerVars>>

\* The threshold of the current step is reached: append the block, relay the
\* message if this node sent none for the step, catch up with the steps that
\* are ready (with the first message stored for each) and reset Paxos.  Only
\* the last step left is signalled to the calls of Tag.
AdvanceStep(t, n, m, q) ==
    LET s == step[n]
        top == CatchUpStep(n, s)
        blocks == CommittedBlocks(n, m, top)
    IN /\ m.step = s
       /\ Len(tlc[n][s]) + 1 >= PaxosThreshold
       /\ s < MaxStep
       /\ tlc' = [tlc EXCEPT ![n][s] = Append(@, m.block)]
       /\ chain' = [chain EXCEPT ![n] = @ \o blocks]
       /\ naming' = [naming EXCEPT ![n] = NamingAfter(@, blocks)]
       /\ username' = [username EXCEPT ![n] = UsernameAfter(n, @, blocks)]
       /\ LET relayed == [m EXCEPT !.src = n]
              relays == s \notin tlcSent[n]
          IN /\ net' = IF relays THEN Enqueue(q, n, relayed) ELSE q
             /\ rumors' = IF relays THEN [rumors EXCEPT ![n] = @ \cup {relayed}]
                                    ELSE rumors
             /\ tlcSent' = [tlcSent EXCEPT ![n] = @ \cup {s}]
       /\ step' = [step EXCEPT ![n] = top]
       /\ finished' = [finished EXCEPT ![n] = @ \cup {Signalled(top)}]
       /\ ResetAcceptor(n)
       /\ ResetProposer(n)
       /\ local' = [local EXCEPT ![t] = None]
       /\ UNCHANGED phaseTwoPeers

\* ExecTLCMessage
HandleTLC(t, n, m, q) ==
    /\ m.type = "tlc"
    /\ \/ /\ m.step < step[n]
          /\ Finish(t, q)
          /\ UNCHANGED <<stepVars, storeVars, acceptorVars, proposerVars>>
       \/ StoreTLC(t, n, m, q)
       \/ AdvanceStep(t, n, m, q)
    /\ UNCHANGED callVars

-----------------------------------------------------------------------------
(* Threads                                                                 *)

Handle(t, n, m, q) ==
    \/ HandlePrepare(t, n, m, q)
    \/ HandlePropose(t, n, m, q)
    \/ HandlePromise(t, n, m, q)
    \/ HandleAccept(t, n, m, q)
    \/ HandleTLC(t, n, m, q)

\* The main loop of d processes the next rumor of o.
Receive(o, d) ==
    /\ local[d] = None
    /\ net[o][d] # << >>
    /\ Handle(d, d, Head(net[o][d]), [net EXCEPT ![o][d] = Tail(@)])

\* Thread t processes the message it has just broadcast.
ProcessLocal(t) ==
    /\ local[t] # None
    /\ Handle(t, NodeOf(t), local[t], net)

-----------------------------------------------------------------------------
(* Calls                                                                   *)

\* A client calls Tag, or SetUsername, which reads the node's username and the
\* naming store before it calls Tag.
BeginCall(c) ==
    LET n == CallNode[c] IN
    /\ pc[c] = "idle"
    /\ IF CallKind[c] = "file"
       THEN pc' = [pc EXCEPT ![c] = "check"] /\ UNCHANGED oldName
       ELSE /\ oldName' = [oldName EXCEPT ![c] = username[n]]
            /\ pc' = [pc EXCEPT ![c] =
                         IF username[n] = CallName[c] THEN "done"
                         ELSE IF naming[n][CallName[c]] # None THEN "failed"
                         ELSE "check"]
    /\ UNCHANGED <<stepVars, storeVars, acceptorVars, proposerVars, gossipVars,
                   current, previous, paxosId, attempt, proposed, original,
                   phaseOnePeers, registered, success>>

\* The head of Tag's loop: give up if the name is in the naming store.
CheckName(c) ==
    /\ pc[c] = "check"
    /\ local[c] = None
    /\ pc' = [pc EXCEPT ![c] = IF naming[CallNode[c]][CallName[c]] # None
                               THEN "failed" ELSE "prepare"]
    /\ UNCHANGED <<stepVars, storeVars, acceptorVars, proposerVars, gossipVars,
                   loopVars, proposed, original, phaseOnePeers, registered, success>>

\* Choose the step and the proposal number, reset the proposer, register the
\* channel and the peer set of the iteration and broadcast the prepare.
StartPhaseOne(c) ==
    LET n == CallNode[c]
        s == step[n]
        id == IF s = previous[c] THEN paxosId[c] + N ELSE PaxosID[n]
    IN /\ pc[c] = "prepare"
       /\ attempt[c] < MaxAttempt
       /\ s < MaxStep
       /\ pc' = [pc EXCEPT ![c] = "p1"]
       /\ current' = [current EXCEPT ![c] = s]
       /\ previous' = [previous EXCEPT ![c] = s]
       /\ paxosId' = [paxosId EXCEPT ![c] = id]
       /\ attempt' = [attempt EXCEPT ![c] = @ + 1]
       /\ ResetProposer(n)
       /\ registered' = [d \in Call |->
              d = c \/ (registered[d] /\ d \notin PhaseOneCall(n, s, id))]
       /\ phaseOnePeers' = [phaseOnePeers EXCEPT ![c] = {}]
       /\ success' = [success EXCEPT ![c] = FALSE]
       /\ Broadcast(c, n, [type |-> "prepare", src |-> n, step |-> s, id |-> id], net)
       /\ UNCHANGED <<stepVars, storeVars, acceptorVars, phaseTwoPeers, oldName,
                      proposed, original>>

\* PaxosProposerRetry elapses in phase one or in phase two.
Timeout(c) ==
    /\ pc[c] \in {"p1", "p2"}
    /\ local[c] = None
    /\ pc' = [pc EXCEPT ![c] = "check"]
    /\ UNCHANGED <<stepVars, storeVars, acceptorVars, proposerVars, gossipVars,
                   loopVars, proposed, original, phaseOnePeers, registered, success>>

\* The value the call proposes in this iteration, if it is its own.
OwnValue(c) ==
    [uid |-> <<c, attempt[c]>>, kind |-> CallKind[c], old |-> oldName[c],
     name |-> CallName[c],
     meta |-> IF CallKind[c] = "user" THEN CallNode[c] ELSE c]

\* Mutant: promises are not looked at.
ProposeOwn(c) == OwnValue(c)

\* The value of the highest accepted proposal the node's proposer knows NOW,
\* else the call's own value.
ValueToPropose(c) ==
    IF highestAcceptedValue[CallNode[c]] # None
    THEN highestAcceptedValue[CallNode[c]]
    ELSE OwnValue(c)

\* Mutant: every accepted value is taken for the call's own.
AlwaysOriginal(c) == TRUE

IsOriginal(c) == highestAcceptedValue[CallNode[c]] = None

\* The token of phase one is there: propose a value.
Propose(c) ==
    LET n == CallNode[c]
        v == ValueToPropose(c)
    IN /\ pc[c] = "p1"
       /\ local[c] = None
       /\ success[c]
       /\ pc' = [pc EXCEPT ![c] = "p2"]
       /\ proposed' = [proposed EXCEPT ![c] = v]
       /\ original' = [original EXCEPT ![c] = IsOriginal(c)]
       /\ phaseTwoPeers' = [phaseTwoPeers EXCEPT ![n][v.uid] = {}]
       /\ registered' = [d \in Call |->
              d = c \/ (registered[d] /\ d \notin PhaseTwoCall(n, v.uid))]
       /\ success' = [success EXCEPT ![c] = FALSE]
       /\ Broadcast(c, n, [type |-> "propose", src |-> n, step |-> current[c],
                           id |-> paxosId[c], val |-> v], net)
       /\ UNCHANGED <<stepVars, storeVars, acceptorVars, phaseOne, highestVars,
                      loopVars, phaseOnePeers>>

\* The token of phase two is there: done if the value was the call's own.
Accepted(c) ==
    /\ pc[c] = "p2"
    /\ local[c] = None
    /\ success[c]
    /\ pc' = [pc EXCEPT ![c] = IF original[c] THEN "wait" ELSE "check"]
    /\ UNCHANGED <<stepVars, storeVars, acceptorVars, proposerVars, gossipVars,
                   loopVars, proposed, original, phaseOnePeers, registered, success>>

\* Tag returns when it gets the token of its step.  The channel exists: the
\* node has been at the step.
Return(c) ==
    LET n == CallNode[c] IN
    /\ pc[c] = "wait"
    /\ current[c] \in finished[n]
    /\ finished' = [finished EXCEPT ![n] = @ \ {current[c]}]
    /\ pc' = [pc EXCEPT ![c] = "done"]
    /\ UNCHANGED <<step, tlc, tlcSent, storeVars, acceptorVars, proposerVars, gossipVars,
                   loopVars, proposed, original, phaseOnePeers, registered, success>>

-----------------------------------------------------------------------------
CallStep(c) ==
    \/ BeginCall(c) \/ CheckName(c) \/ StartPhaseOne(c) \/ Timeout(c)
    \/ Propose(c) \/ Accepted(c) \/ Return(c)

Next ==
    \/ \E o, d \in Node : Receive(o, d)
    \/ \E t \in Thread : ProcessLocal(t)
    \/ \E c \in Call : CallStep(c)

Spec == Init /\ [][Next]_vars

-----------------------------------------------------------------------------
(* Safety                                                                  *)

\* The peers that have broadcast an accept for the identifier u.
Acceptors(u) == {o \in Node : \E r \in rumors[o] : r.type = "accept" /\ r.val.uid = u}

\* Whatever is announced with a TLC message was accepted by a threshold of
\* distinct peers (ExecPaxosAcceptMessage counts them, ExecTLCMessage relays).
DecisionBacked ==
    \A n \in Node : \A m \in rumors[n] :
        m.type = "tlc" => Cardinality(Acceptors(m.block.value.uid)) >= PaxosThreshold

\* A promise hides nothing: an acceptor that has promised number i at a step
\* has accepted at that step no number below i other than those up to the one
\* it reports, whatever order prepares and proposals arrive in.
PromiseFaithful ==
    \A n \in Node : \A p, r \in rumors[n] :
        (p.type = "promise" /\ r.type = "accept" /\ r.step = p.step /\ r.id < p.id)
            => (r.id <= p.accId /\ p.accVal # None)

\* The blockchain of a node has one block per step it has left, each holding
\* the hash of the one before it, catch-up included.
ChainLinked ==
    \A n \in Node :
        /\ Len(chain[n]) = step[n]
        /\ \A i \in 1 .. Len(chain[n]) :
               /\ chain[n][i].index = i - 1
               /\ chain[n][i].prev = IF i = 1 THEN ZeroHash ELSE HashOf(chain[n][i - 1])

\* Two nodes never have different blocks at a position.
Agreement ==
    \A n, o \in Node : \A i \in DOMAIN chain[n] \cap DOMAIN chain[o] :
        chain[n][i] = chain[o][i]

\* The block that commits a value of the call c is in the blockchain of n.
Committed(c, n) == \E i \in DOMAIN chain[n] : chain[n][i].value.uid[1] = c

\* When Tag returns without an error after it ran Paxos, a value of the call
\* is in the blockchain of its node.
DoneCommitted ==
    \A c \in Call : (pc[c] = "done" /\ attempt[c] > 0) => Committed(c, CallNode[c])

\* A proposal is committed at most once, however often it is adopted and
\* proposed again by other calls.
CommittedOnce ==
    \A n \in Node : \A i, j \in DOMAIN chain[n] :
        chain[n][i].value.uid = chain[n][j].value.uid => i = j

\* The name a node believes it has is bound to its address in its own store.
UsernameOwned ==
    \A n \in Node : username[n] # None => naming[n][username[n]] = n

\* A call is not left waiting for a step its node has left: the token is there.
NoLostWakeup ==
    \A c \in Call : (pc[c] = "wait" /\ step[CallNode[c]] > current[c])
        => current[c] \in finished[CallNode[c]]

\* No deadlock of the clock: once every rumor is processed, no call waits for
\* its step to finish, so a threshold of accepts is followed by enough TLCs.
Quiet == (\A t \in Thread : local[t] = None) /\ (\A o, d \in Node : net[o][d] = << >>)
NoStuckWait ==
    Quiet => \A c \in Call : pc[c] = "wait" => current[c] \in finished[CallNode[c]]

\* The naming store is what replaying the blockchain block by block gives,
\* however many blocks a step of the clock appended.
Replay(c) ==
    LET names[i \in 0 .. Len(c)] ==
            IF i = 0 THEN [x \in Name |-> None]
            ELSE LET v == c[i].value IN
                 [x \in Name |-> IF x = v.name THEN v.meta
                                 ELSE IF v.kind = "user" /\ x = v.old THEN None
                                 ELSE names[i - 1][x]]
    IN names[Len(c)]
NamingReplays == \A n \in Node : naming[n] = Replay(chain[n])

\* The clock does not stand at a step for which it holds a threshold of TLC
\* messages, in whatever order and number they came (catchUpTLCWithoutLocking).
ClockAdvanced ==
    \A n \in Node : step[n] < MaxStep => Len(tlc[n][step[n]]) < PaxosThreshold

-----------------------------------------------------------------------------
(* Liveness                                                                *)

\* The main loops and local processing do not stop, rumors reach every peer
\* (anti-entropy), goroutines of calls are scheduled.  Clients need not call.
Fairness ==
    /\ \A o, d \in Node : WF_vars(Receive(o, d))
    /\ \A t \in Thread : WF_vars(ProcessLocal(t))
    /\ \A c \in Call : WF_vars(CheckName(c) \/ StartPhaseOne(c) \/ Timeout(c)
                               \/ Propose(c) \/ Accepted(c) \/ Return(c))

FairSpec == Spec /\ Fairness

\* A call whose value is accepted by a threshold returns: the nodes exchange
\* TLC messages, its node leaves the step and signals it.
WaitReturns == \A c \in Call : pc[c] = "wait" ~> pc[c] = "done"

=============================================================================
