-------------------------- MODULE ConsensusProofs --------------------------
(***************************************************************************)
(* What the naming consensus guarantees for every set of nodes and calls,  *)
(* every threshold and every bound: types, faithful promises, TLC messages *)
(* backed by a threshold of acceptors, naming stores that follow their     *)
(* blockchains, blocks that come from calls and continue a blockchain;     *)
(* what follows for blockchains, returns and the abstract ledger if Paxos  *)
(* decides once per step and no call proposes at a step its node has left; *)
(* and when Paxos decides once: with a majority, if no two calls of a node *)
(* share a step and what is announced was accepted with one number; when   *)
(* no waiting call misses its token; that quiet clocks agree; and what     *)
(* calls that take turns guarantee: the ledger, whatever the threshold,    *)
(* and that no call is left waiting.                                       *)
(***************************************************************************)
EXTENDS ConsensusLedger, FiniteSetTheorems, SequenceTheorems, TLAPS

-----------------------------------------------------------------------------
(* The inductive invariant                                                 *)

\* Tag is at its iteration's proposal with a number and an identifier.
CallInv ==
    \A c \in Call : pc[c] \in {"p1", "p2"} => paxosId[c] > 0 /\ attempt[c] > 0

\* A block per step left.
ChainLength == \A n \in Node : Len(chain[n]) = step[n]

Shape == TypeOK /\ CallInv /\ ChainLength

Queues == [Node -> [Node -> Seq(Message)]]

-----------------------------------------------------------------------------
(* Sets and sequences                                                      *)

\* The suffixes of a finite set of numbers are well-founded under inclusion.
LEMMA LastExists ==
    ASSUME NEW S \in SUBSET Nat, IsFiniteSet(S), S # {}
    PROVE  LastIn(S) \in S /\ \A j \in S : j <= LastIn(S)
<1> DEFINE From(x) == {y \in S : x <= y}
           F == {From(x) : x \in S}
           R == StrictSubsetOrdering(S)
<1>1. IsWellFoundedOn(R, FiniteSubsetsOf(S))
  BY FS_StrictSubsetOrderingWellFounded
<1>2. F \subseteq FiniteSubsetsOf(S) /\ F # {}
  <2>1. \A x \in S : From(x) \in SUBSET S /\ IsFiniteSet(From(x))
    BY FS_Subset
  <2> QED BY <2>1 DEF FiniteSubsetsOf
<1>3. PICK U \in F : \A V \in F : ~(<<V, U>> \in R)
  <2> HIDE DEF F, R
  <2> QED BY <1>1, <1>2, WFMin
<1>4. PICK x \in S : U = From(x)
  BY <1>3
<1>5. \A j \in S : j <= x
  <2> SUFFICES ASSUME NEW j \in S, x < j PROVE FALSE
    OBVIOUS
  <2>0. \A y \in S : y \in Nat
    OBVIOUS
  <2>1. x \in From(x) /\ x \notin From(j)
    BY <2>0
  <2>3. From(j) \subseteq From(x)
    <3> SUFFICES ASSUME NEW y \in S, j <= y PROVE x <= y
      OBVIOUS
    <3> QED BY <2>0
  <2>2. <<From(j), U>> \in R
    BY <1>4, <2>1, <2>3 DEF StrictSubsetOrdering
  <2> QED BY <1>3, <2>2
<1> QED BY <1>5 DEF LastIn

LEMMA LastOfDomain ==
    ASSUME NEW S, NEW s \in Seq(S), NEW I \in SUBSET DOMAIN s, I # {}
    PROVE  LastIn(I) \in DOMAIN s
<1>1. Len(s) \in Nat /\ DOMAIN s = 1 .. Len(s)
  BY LenProperties
<1>2. IsFiniteSet(1 .. Len(s))
  BY <1>1, FS_Interval
<1>3. IsFiniteSet(I)
  BY <1>1, <1>2, FS_Subset
<1>4. I \in SUBSET Nat
  <2>1. \A i \in I : i \in 1 .. Len(s)
    BY <1>1
  <2> QED BY <2>1
<1>5. LastIn(I) \in I
  BY <1>3, <1>4, LastExists
<1> QED BY <1>5

LEMMA FirstExists ==
    ASSUME NEW b \in Nat, NEW S \in SUBSET (0 .. b), S # {}
    PROVE  \E i \in S : \A j \in S : i <= j
<1> DEFINE T == {b - i : i \in S}
<1>1. T \in SUBSET (0 .. b) /\ T # {}
  <2>1. \A i \in S : i \in 0 .. b /\ b - i \in 0 .. b
    <3> TAKE i \in S
    <3>1. i \in 0 .. b
      OBVIOUS
    <3> QED BY <3>1
  <2> QED BY <2>1
<1>2. IsFiniteSet(T)
  <2>1. IsFiniteSet(0 .. b)
    BY FS_Interval
  <2> HIDE DEF T
  <2> QED BY <1>1, <2>1, FS_Subset
<1>3. LastIn(T) \in T /\ \A j \in T : j <= LastIn(T)
  <2>1. T \in SUBSET Nat
    BY <1>1
  <2> HIDE DEF T
  <2> QED BY <1>1, <1>2, <2>1, LastExists
<1>4. PICK i \in S : LastIn(T) = b - i
  BY <1>3
<1>5. \A j \in S : b - j <= b - i
  BY <1>3, <1>4
<1> QED BY <1>5

LEMMA NodeCount == N \in Nat \ {0}
BY NodeAssumption, FS_CardinalityType, FS_EmptySet DEF N

-----------------------------------------------------------------------------
(* Operators of the model                                                  *)

LEMMA NodeOfType == \A t \in Thread : NodeOf(t) \in Node
BY CallAssumption DEF Thread, NodeOf

\* Catching up ends at the first later step that is not ready.
LEMMA CatchUpStepExists ==
    ASSUME NEW n \in Node, NEW s \in Steps, s < MaxStep,
           tlc \in [Node -> [Steps -> Seq(Block)]]
    PROVE  /\ CatchUpStep(n, s) \in s + 1 .. MaxStep
           /\ \A j \in s + 1 .. CatchUpStep(n, s) - 1 :
                  Len(tlc[n][j]) >= PaxosThreshold
           /\ CatchUpStep(n, s) < MaxStep
                  => Len(tlc[n][CatchUpStep(n, s)]) < PaxosThreshold
<1> DEFINE Stops(k) == k < MaxStep => Len(tlc[n][k]) < PaxosThreshold
           S == {k \in s + 1 .. MaxStep : Stops(k)}
<1>1. MaxStep \in Nat /\ s \in Nat /\ s + 1 \in Nat
  BY BoundAssumption DEF Steps
<1>2. S \in SUBSET (0 .. MaxStep) /\ MaxStep \in S
  BY <1>1
<1>3. PICK i \in S : \A j \in S : i <= j
  BY <1>1, <1>2, FirstExists
<1>4. \A j \in s + 1 .. i - 1 : Len(tlc[n][j]) >= PaxosThreshold
  <2> SUFFICES ASSUME NEW j \in s + 1 .. i - 1
               PROVE  Len(tlc[n][j]) >= PaxosThreshold
    OBVIOUS
  <2>1. i \in s + 1 .. MaxStep /\ j \in Int /\ j < i /\ j \in s + 1 .. MaxStep
    BY <1>1
  <2>2. ~ Stops(j)
    <3> HIDE DEF Stops
    <3> QED BY <1>1, <1>3, <2>1
  <2>3. Len(tlc[n][j]) \in Nat
    BY <1>1, <2>1, LenProperties DEF Steps
  <2> QED BY <2>2, <2>3, NodeAssumption
<1> QED BY <1>4 DEF CatchUpStep

LEMMA CommittedBlocksType ==
    ASSUME StepTypeOK, NEW n \in Node, NEW m \in TLCMessage,
           m.step = step[n], step[n] < MaxStep,
           NEW top, top = CatchUpStep(n, step[n])
    PROVE  /\ CommittedBlocks(n, m, top) \in Seq(Block)
           /\ Len(CommittedBlocks(n, m, top)) = top - step[n]
<1> DEFINE s == step[n]
           e(i) == IF i = 1 THEN m.block ELSE tlc[n][m.step + i - 1][1]
<1>1. s \in Nat /\ MaxStep \in Nat /\ s \in Steps
  BY BoundAssumption DEF StepTypeOK, Steps
<1>2. /\ top \in s + 1 .. MaxStep
      /\ \A j \in s + 1 .. top - 1 : Len(tlc[n][j]) >= PaxosThreshold
  BY <1>1, CatchUpStepExists DEF StepTypeOK
<1>3. ASSUME NEW i \in 1 .. top - s PROVE e(i) \in Block
  <2>1. CASE i = 1
    BY <2>1 DEF TLCMessage
  <2>2. CASE i # 1
    <3>1. s + i - 1 \in s + 1 .. top - 1 /\ s + i - 1 \in Steps
      BY <1>1, <1>2, <2>2 DEF Steps
    <3>2. tlc[n][s + i - 1] \in Seq(Block) /\ Len(tlc[n][s + i - 1]) >= PaxosThreshold
      BY <1>2, <3>1 DEF StepTypeOK
    <3>3. 1 \in 1 .. Len(tlc[n][s + i - 1])
      BY <3>2, NodeAssumption, LenProperties
    <3> QED BY <2>2, <3>2, <3>3, ElementOfSeq
  <2> QED BY <2>1, <2>2
<1>4. top - s \in Nat
  BY <1>1, <1>2
<1>5. [i \in 1 .. top - s |-> e(i)] \in Seq(Block)
  <2> HIDE DEF e, s
  <2> QED BY <1>3, <1>4, IsASeq
<1>6. CommittedBlocks(n, m, top) = [i \in 1 .. top - s |-> e(i)]
  BY DEF CommittedBlocks
<1>7. Len([i \in 1 .. top - s |-> e(i)]) = top - s
  <2> HIDE DEF e, s
  <2> QED BY <1>4
<1> QED BY <1>5, <1>6, <1>7

LEMMA NamingAfterType ==
    ASSUME NEW names \in [Name -> Node \cup Call \cup {None}], NEW bs \in Seq(Block)
    PROVE  NamingAfter(names, bs) \in [Name -> Node \cup Call \cup {None}]
<1> SUFFICES ASSUME NEW x \in Name
             PROVE  NamingAfter(names, bs)[x] \in Node \cup Call \cup {None}
  BY DEF NamingAfter
<1> DEFINE I == {i \in DOMAIN bs : bs[i].value.name = x \/ Renames(bs[i], x)}
<1>1. CASE I = {}
  BY <1>1 DEF NamingAfter
<1>2. CASE I # {}
  <2>1. LastIn(I) \in DOMAIN bs
    BY <1>2, LastOfDomain
  <2>2. bs[LastIn(I)] \in Block
    <3>1. DOMAIN bs = 1 .. Len(bs)
      BY LenProperties
    <3> HIDE DEF I
    <3> QED BY <2>1, <3>1, ElementOfSeq
  <2>3. bs[LastIn(I)].value \in Value
    BY <2>2 DEF Block
  <2>4. bs[LastIn(I)].value.meta \in Node \cup Call
    BY <2>3 DEF Value
  <2> QED BY <1>2, <2>4 DEF NamingAfter
<1> QED BY <1>1, <1>2

LEMMA UsernameAfterType ==
    ASSUME NEW n, NEW name \in Name \cup {None}, NEW bs \in Seq(Block)
    PROVE  UsernameAfter(n, name, bs) \in Name \cup {None}
<1> DEFINE I == {i \in DOMAIN bs : bs[i].value.kind = "user" /\ bs[i].value.meta = n}
<1>1. CASE I = {}
  BY <1>1 DEF UsernameAfter
<1>2. CASE I # {}
  <2>1. LastIn(I) \in DOMAIN bs
    BY <1>2, LastOfDomain
  <2>2. bs[LastIn(I)] \in Block
    <3>1. DOMAIN bs = 1 .. Len(bs)
      BY LenProperties
    <3> HIDE DEF I
    <3> QED BY <2>1, <3>1, ElementOfSeq
  <2>3. bs[LastIn(I)].value \in Value
    BY <2>2 DEF Block
  <2>4. bs[LastIn(I)].value.name \in Name
    BY <2>3 DEF Value
  <2> QED BY <1>2, <2>4 DEF UsernameAfter
<1> QED BY <1>1, <1>2

LEMMA BlockOnTop ==
    ASSUME chain \in [Node -> Seq(Block)], NEW n \in Node, NEW s \in Steps, NEW v \in Value,
           Len(chain[n]) = s
    PROVE  NewBlock(n, s, v) \in Block
<1>1. ZeroHash \in Hash
  BY DEF ZeroHash, Hash
<1>2. \A b \in Block : HashOf(b) \in Hash
  BY AppendProperties DEF Block, Value, Hash, HashOf
<1>3. s # 0 => chain[n][Len(chain[n])] \in Block
  <2>1. s # 0 => Len(chain[n]) \in 1 .. Len(chain[n])
    BY LenProperties
  <2> QED BY <2>1, ElementOfSeq
<1> QED BY <1>1, <1>2, <1>3 DEF NewBlock, Block

LEMMA EnqueueType ==
    ASSUME NEW n \in Node, NEW m \in Message, NEW q \in Queues
    PROVE  Enqueue(q, n, m) \in Queues
<1> DEFINE row == [d \in Node |-> IF d # n /\ ActsOn(m, d) THEN Append(q[n][d], m)
                                  ELSE q[n][d]]
<1>1. \A d \in Node : q[n][d] \in Seq(Message)
  BY DEF Queues
<1>2. \A d \in Node : Append(q[n][d], m) \in Seq(Message)
  BY <1>1, AppendProperties
<1>3. row \in [Node -> Seq(Message)]
  BY <1>1, <1>2
<1>4. Enqueue(q, n, m) = [q EXCEPT ![n] = row]
  BY DEF Enqueue
<1> HIDE DEF row
<1> QED BY <1>3, <1>4 DEF Queues

LEMMA BroadcastType ==
    ASSUME GossipTypeOK, NEW t \in Thread, NEW n \in Node, NEW m \in Message,
           NEW q \in Queues, Broadcast(t, n, m, q)
    PROVE  GossipTypeOK'
BY EnqueueType DEF Broadcast, GossipTypeOK, Queues

LEMMA FinishType ==
    ASSUME GossipTypeOK, NEW t \in Thread, NEW q \in Queues, Finish(t, q)
    PROVE  GossipTypeOK'
BY DEF Finish, GossipTypeOK, Queues

-----------------------------------------------------------------------------
(* Types: what a node does with a message                                  *)

LEMMA MessageKinds ==
    ASSUME NEW m \in Message
    PROVE  /\ m.type = "prepare" => m \in PaxosPrepareMessage
           /\ m.type = "promise" => m \in PaxosPromiseMessage
           /\ m.type = "propose" => m \in PaxosProposeMessage
           /\ m.type = "accept" => m \in PaxosAcceptMessage
           /\ m.type = "tlc" => m \in TLCMessage
           /\ m.src \in Node
           /\ m.step \in Steps
BY DEF Message, PaxosPrepareMessage, PaxosPromiseMessage, PaxosProposeMessage,
       PaxosAcceptMessage, TLCMessage

LEMMA PrepareShape ==
    ASSUME Shape, NEW t \in Thread, NEW n \in Node, NEW m \in Message,
           NEW q \in Queues, HandlePrepare(t, n, m, q)
    PROVE  Shape'
<1>1. m \in PaxosPrepareMessage
  BY MessageKinds DEF HandlePrepare
<1>2. AcceptorTypeOK' /\ GossipTypeOK'
  <2>1. CASE Promisable(n, m)
    <3> DEFINE p == [type |-> "promise", src |-> n, dest |-> m.src,
                     step |-> step[n], id |-> m.id, accId |-> acceptedId[n],
                     accVal |-> acceptedValue[n]]
    <3>1. p \in PaxosPromiseMessage
      BY <1>1 DEF Shape, TypeOK, StepTypeOK, AcceptorTypeOK, PaxosPromiseMessage,
                  PaxosPrepareMessage
    <3>2. p \in Message /\ Broadcast(t, n, p, q)
      BY <2>1, <3>1 DEF HandlePrepare, Message
    <3>3. GossipTypeOK'
      <4> HIDE DEF p
      <4> QED BY <3>2, BroadcastType DEF Shape, TypeOK
    <3>4. AcceptorTypeOK'
      BY <1>1, <2>1 DEF HandlePrepare, Shape, TypeOK, AcceptorTypeOK,
                        PaxosPrepareMessage, Number
    <3> QED BY <3>3, <3>4
  <2>2. CASE ~ Promisable(n, m)
    BY <2>2, FinishType DEF HandlePrepare, Shape, TypeOK, AcceptorTypeOK
  <2> QED BY <2>1, <2>2
<1>3. StepTypeOK' /\ StoreTypeOK' /\ ProposerTypeOK'
  BY DEF HandlePrepare, Shape, TypeOK, StepTypeOK, StoreTypeOK, ProposerTypeOK,
         stepVars, storeVars, proposerVars, highestVars
<1>4. CallTypeOK' /\ CallInv' /\ ChainLength'
  BY DEF HandlePrepare, Shape, TypeOK, CallTypeOK, CallInv, ChainLength,
         stepVars, storeVars, callVars, loopVars
<1> QED BY <1>2, <1>3, <1>4 DEF Shape, TypeOK

LEMMA ProposeShape ==
    ASSUME Shape, NEW t \in Thread, NEW n \in Node, NEW m \in Message,
           NEW q \in Queues, HandlePropose(t, n, m, q)
    PROVE  Shape'
<1>1. m \in PaxosProposeMessage
  BY MessageKinds DEF HandlePropose
<1>2. AcceptorTypeOK' /\ ProposerTypeOK' /\ GossipTypeOK'
  <2>1. CASE Acceptable(n, m)
    <3> DEFINE r == [type |-> "accept", src |-> n, step |-> m.step, id |-> m.id,
                     val |-> m.val]
    <3>1. r \in PaxosAcceptMessage
      BY <1>1 DEF PaxosAcceptMessage, PaxosProposeMessage
    <3>2. r \in Message /\ Broadcast(t, n, r, q)
      BY <2>1, <3>1 DEF HandlePropose, Message
    <3>3. GossipTypeOK'
      <4> HIDE DEF r
      <4> QED BY <3>2, BroadcastType DEF Shape, TypeOK
    <3>4. AcceptorTypeOK' /\ ProposerTypeOK'
      BY <1>1, <2>1 DEF HandlePropose, Shape, TypeOK, AcceptorTypeOK, ProposerTypeOK,
                        PaxosProposeMessage, Number, highestVars
    <3> QED BY <3>3, <3>4
  <2>2. CASE ~ Acceptable(n, m)
    BY <2>2, FinishType DEF HandlePropose, Shape, TypeOK, AcceptorTypeOK,
                            ProposerTypeOK, highestVars
  <2> QED BY <2>1, <2>2
<1>3. StepTypeOK' /\ StoreTypeOK'
  BY DEF HandlePropose, Shape, TypeOK, StepTypeOK, StoreTypeOK, stepVars, storeVars
<1>4. CallTypeOK' /\ CallInv' /\ ChainLength'
  BY DEF HandlePropose, Shape, TypeOK, CallTypeOK, CallInv, ChainLength,
         stepVars, storeVars, callVars, loopVars
<1> QED BY <1>2, <1>3, <1>4 DEF Shape, TypeOK

LEMMA PromiseShape ==
    ASSUME Shape, NEW t \in Thread, NEW n \in Node, NEW m \in Message,
           NEW q \in Queues, HandlePromise(t, n, m, q)
    PROVE  Shape'
<1>1. m \in PaxosPromiseMessage
  BY MessageKinds DEF HandlePromise
<1>2. GossipTypeOK'
  BY FinishType DEF HandlePromise, Shape, TypeOK
<1>3. ProposerTypeOK'
  BY <1>1 DEF HandlePromise, Shape, TypeOK, ProposerTypeOK, PaxosPromiseMessage,
              highestVars
<1>4. phaseOnePeers' \in [Call -> SUBSET Node] /\ success' \in [Call -> BOOLEAN]
  <2>1. m.src \in Node
    BY MessageKinds
  <2>2. phaseOnePeers \in [Call -> SUBSET Node] /\ success \in [Call -> BOOLEAN]
    BY DEF Shape, TypeOK, CallTypeOK
  <2>3. CASE m.step = step[n] /\ phaseOne[n]
    <3> DEFINE C == PhaseOneCall(n, m.step, m.id)
    <3>1. phaseOnePeers' = [c \in Call |->
              phaseOnePeers[c] \cup (IF c \in C THEN {m.src} ELSE {})]
      BY <2>3 DEF HandlePromise
    <3>2. success' = [c \in Call |-> success[c] \/
              (c \in C /\ Cardinality(phaseOnePeers'[c]) >= PaxosThreshold)]
      BY <2>3, Zenon DEF HandlePromise
    <3> HIDE DEF C
    <3> QED BY <2>1, <2>2, <3>1, <3>2
  <2>4. CASE ~ (m.step = step[n] /\ phaseOne[n])
    BY <2>2, <2>4 DEF HandlePromise
  <2> QED BY <2>3, <2>4
<1>5. StepTypeOK' /\ StoreTypeOK' /\ AcceptorTypeOK'
  BY DEF HandlePromise, Shape, TypeOK, StepTypeOK, StoreTypeOK, AcceptorTypeOK,
         stepVars, storeVars, acceptorVars
<1>6. CallTypeOK' /\ CallInv' /\ ChainLength'
  BY <1>4 DEF HandlePromise, Shape, TypeOK, CallTypeOK, CallInv, ChainLength,
         stepVars, storeVars, loopVars
<1> QED BY <1>2, <1>3, <1>5, <1>6 DEF Shape, TypeOK

LEMMA AcceptShape ==
    ASSUME Shape, NEW t \in Thread, NEW n \in Node, NEW m \in Message,
           NEW q \in Queues, HandleAccept(t, n, m, q)
    PROVE  Shape'
<1> DEFINE peers == phaseTwoPeers[n][m.val.uid] \cup {m.src}
           C == PhaseTwoCall(n, m.val.uid)
<1>1. m \in PaxosAcceptMessage /\ m.val \in Value /\ m.val.uid \in Uid
  BY MessageKinds DEF HandleAccept, PaxosAcceptMessage, Value
<1>2. CASE m.step = step[n] /\ ~phaseOne[n]
  <2>1. phaseTwoPeers' = [phaseTwoPeers EXCEPT ![n][m.val.uid] = peers]
    BY <1>2 DEF HandleAccept
  <2>2. success' = [c \in Call |-> success[c] \/ (Decides(peers) /\ c \in C)]
    BY <1>2 DEF HandleAccept
  <2>3. peers \in SUBSET Node
    BY <1>1 DEF Shape, TypeOK, ProposerTypeOK, PaxosAcceptMessage
  <2>4. phaseTwoPeers' \in [Node -> [Uid -> SUBSET Node]]
    <3> HIDE DEF peers
    <3> QED BY <1>1, <2>1, <2>3 DEF Shape, TypeOK, ProposerTypeOK
  <2>5. success' \in [Call -> BOOLEAN]
    <3> HIDE DEF peers, C
    <3> QED BY <2>2
  <2>6. tlcSent' \in [Node -> SUBSET Steps] /\ GossipTypeOK'
    <3>1. CASE Decides(peers)
      <4> DEFINE r == [type |-> "tlc", src |-> n, step |-> m.step,
                       block |-> NewBlock(n, m.step, m.val)]
      <4>1. NewBlock(n, m.step, m.val) \in Block
        BY <1>1, <1>2, BlockOnTop
           DEF PaxosAcceptMessage, Shape, TypeOK, StoreTypeOK, ChainLength
      <4>2. r \in TLCMessage
        BY <1>1, <4>1 DEF TLCMessage, PaxosAcceptMessage
      <4>3. r \in Message /\ Broadcast(t, n, r, q)
        BY <1>2, <3>1, <4>2 DEF HandleAccept, Message
      <4>4. GossipTypeOK'
        <5> HIDE DEF r
        <5> QED BY <4>3, BroadcastType DEF Shape, TypeOK
      <4>5. tlcSent' = [tlcSent EXCEPT ![n] = @ \cup {m.step}]
        BY <1>2, <3>1 DEF HandleAccept
      <4>6. tlcSent' \in [Node -> SUBSET Steps]
        BY <4>5, MessageKinds DEF Shape, TypeOK, StepTypeOK
      <4> QED BY <4>4, <4>6
    <3>2. CASE ~ Decides(peers)
      BY <1>2, <3>2, FinishType DEF HandleAccept, Shape, TypeOK, StepTypeOK
    <3> QED BY <3>1, <3>2
  <2> QED BY <2>4, <2>5, <2>6
       DEF HandleAccept, Shape, TypeOK, StepTypeOK, StoreTypeOK, AcceptorTypeOK,
           ProposerTypeOK, CallTypeOK, CallInv, ChainLength, storeVars, acceptorVars,
           highestVars, loopVars
<1>3. CASE ~ (m.step = step[n] /\ ~phaseOne[n])
  BY <1>3, FinishType
     DEF HandleAccept, Shape, TypeOK, StepTypeOK, StoreTypeOK, AcceptorTypeOK,
         ProposerTypeOK, CallTypeOK, CallInv, ChainLength, storeVars, acceptorVars,
         highestVars, loopVars
<1> QED BY <1>2, <1>3

LEMMA StoreTLCShape ==
    ASSUME Shape, NEW t \in Thread, NEW n \in Node, NEW m \in TLCMessage,
           NEW q \in Queues, StoreTLC(t, n, m, q), UNCHANGED callVars
    PROVE  Shape'
<1>1. m.step \in Steps /\ m.block \in Block
  BY DEF TLCMessage
<1>2. tlc' = [tlc EXCEPT ![n][m.step] = Append(@, m.block)]
  BY DEF StoreTLC
<1>3. Append(tlc[n][m.step], m.block) \in Seq(Block)
  BY <1>1, AppendProperties DEF Shape, TypeOK, StepTypeOK
<1>4. tlc' \in [Node -> [Steps -> Seq(Block)]]
  BY <1>1, <1>2, <1>3 DEF Shape, TypeOK, StepTypeOK
<1>5. GossipTypeOK'
  BY FinishType DEF StoreTLC, Shape, TypeOK
<1> QED BY <1>4, <1>5
     DEF StoreTLC, Shape, TypeOK, StepTypeOK, StoreTypeOK, AcceptorTypeOK,
         ProposerTypeOK, CallTypeOK, CallInv, ChainLength, storeVars, acceptorVars,
         proposerVars, highestVars, callVars, loopVars

LEMMA AdvanceStepShape ==
    ASSUME Shape, NEW t \in Thread, NEW n \in Node, NEW m \in TLCMessage,
           NEW q \in Queues, AdvanceStep(t, n, m, q), UNCHANGED callVars
    PROVE  Shape'
<1> DEFINE s == step[n]
           top == CatchUpStep(n, s)
           blocks == CommittedBlocks(n, m, top)
           relayed == [m EXCEPT !.src = n]
<1>1. /\ m.step = s /\ m.block \in Block /\ s \in Steps /\ s \in Nat
      /\ MaxStep \in Nat /\ s < MaxStep
  BY BoundAssumption DEF AdvanceStep, TLCMessage, Shape, TypeOK, StepTypeOK, Steps
<1>2. top \in s + 1 .. MaxStep
  BY <1>1, CatchUpStepExists DEF Shape, TypeOK, StepTypeOK
<1>3. blocks \in Seq(Block) /\ Len(blocks) = top - s
  BY <1>1, CommittedBlocksType DEF Shape, TypeOK
<1>4. top \in Steps /\ Signalled(top) \in Steps
  BY <1>1, <1>2 DEF Steps, Signalled
<1>5. StepTypeOK'
  <2>1. Append(tlc[n][s], m.block) \in Seq(Block)
    BY <1>1, AppendProperties DEF Shape, TypeOK, StepTypeOK
  <2>2. tlc' = [tlc EXCEPT ![n][s] = Append(@, m.block)]
    BY DEF AdvanceStep
  <2>3. tlc' \in [Node -> [Steps -> Seq(Block)]]
    BY <1>1, <2>1, <2>2 DEF Shape, TypeOK, StepTypeOK
  <2>4. tlcSent' \in [Node -> SUBSET Steps]
    <3>1. tlcSent' = [tlcSent EXCEPT ![n] = @ \cup {s}]
      BY DEF AdvanceStep
    <3> QED BY <1>1, <3>1 DEF Shape, TypeOK, StepTypeOK
  <2>5. step' = [step EXCEPT ![n] = top]
        /\ finished' = [finished EXCEPT ![n] = @ \cup {Signalled(top)}]
    BY DEF AdvanceStep
  <2> HIDE DEF top
  <2> QED BY <1>4, <2>3, <2>4, <2>5 DEF Shape, TypeOK, StepTypeOK
<1>6. StoreTypeOK' /\ ChainLength'
  <2>1. /\ chain' = [chain EXCEPT ![n] = @ \o blocks]
        /\ naming' = [naming EXCEPT ![n] = NamingAfter(@, blocks)]
        /\ username' = [username EXCEPT ![n] = UsernameAfter(n, @, blocks)]
        /\ step' = [step EXCEPT ![n] = top]
    BY DEF AdvanceStep
  <2> HIDE DEF blocks, top
  <2>2. chain[n] \in Seq(Block) /\ Len(chain[n]) = s
    BY DEF Shape, TypeOK, StoreTypeOK, ChainLength
  <2>3. chain[n] \o blocks \in Seq(Block) /\ Len(chain[n] \o blocks) = top
    <3>1. /\ chain[n] \o blocks \in Seq(Block)
          /\ Len(chain[n] \o blocks) = Len(chain[n]) + Len(blocks)
      BY <1>3, <2>2, ConcatProperties
    <3>2. s + (top - s) = top
      BY <1>1, <1>2
    <3> QED BY <1>3, <2>2, <3>1, <3>2
  <2>4. chain' \in [Node -> Seq(Block)] /\ ChainLength'
    BY <2>1, <2>3 DEF Shape, TypeOK, StoreTypeOK, StepTypeOK, ChainLength
  <2>5. naming' \in [Node -> [Name -> Node \cup Call \cup {None}]]
    <3>1. NamingAfter(naming[n], blocks) \in [Name -> Node \cup Call \cup {None}]
      BY <1>3, NamingAfterType DEF Shape, TypeOK, StoreTypeOK
    <3> QED BY <2>1, <3>1 DEF Shape, TypeOK, StoreTypeOK
  <2>6. username' \in [Node -> Name \cup {None}]
    <3>1. UsernameAfter(n, username[n], blocks) \in Name \cup {None}
      BY <1>3, UsernameAfterType DEF Shape, TypeOK, StoreTypeOK
    <3> QED BY <2>1, <3>1 DEF Shape, TypeOK, StoreTypeOK
  <2> QED BY <2>4, <2>5, <2>6 DEF StoreTypeOK
<1>7. GossipTypeOK'
  <2>1. relayed \in TLCMessage /\ relayed \in Message
    BY DEF TLCMessage, Message
  <2>2. Enqueue(q, n, relayed) \in Queues
    <3> HIDE DEF relayed
    <3> QED BY <2>1, EnqueueType
  <2>3. /\ net' = IF s \notin tlcSent[n] THEN Enqueue(q, n, relayed) ELSE q
        /\ rumors' = IF s \notin tlcSent[n] THEN [rumors EXCEPT ![n] = @ \cup {relayed}]
                     ELSE rumors
        /\ local' = [local EXCEPT ![t] = None]
    BY DEF AdvanceStep
  <2> HIDE DEF relayed
  <2> QED BY <2>1, <2>2, <2>3 DEF Shape, TypeOK, GossipTypeOK, Queues
<1>8. AcceptorTypeOK' /\ ProposerTypeOK'
  BY DEF AdvanceStep, ResetAcceptor, ResetProposer, Shape, TypeOK, AcceptorTypeOK,
         ProposerTypeOK
<1>9. CallTypeOK' /\ CallInv'
  BY DEF Shape, TypeOK, CallTypeOK, CallInv, callVars, loopVars
<1> QED BY <1>5, <1>6, <1>7, <1>8, <1>9 DEF Shape, TypeOK

LEMMA TLCShape ==
    ASSUME Shape, NEW t \in Thread, NEW n \in Node, NEW m \in Message,
           NEW q \in Queues, HandleTLC(t, n, m, q)
    PROVE  Shape'
<1>1. m \in TLCMessage /\ UNCHANGED callVars
  BY MessageKinds DEF HandleTLC
<1>2. CASE m.step < step[n] /\ Finish(t, q)
           /\ UNCHANGED <<stepVars, storeVars, acceptorVars, proposerVars>>
  BY <1>1, <1>2, FinishType
     DEF Shape, TypeOK, StepTypeOK, StoreTypeOK, AcceptorTypeOK, ProposerTypeOK,
         CallTypeOK, CallInv, ChainLength, stepVars, storeVars, acceptorVars,
         proposerVars, highestVars, callVars, loopVars
<1>3. CASE StoreTLC(t, n, m, q)
  BY <1>1, <1>3, StoreTLCShape
<1>4. CASE AdvanceStep(t, n, m, q)
  BY <1>1, <1>4, AdvanceStepShape
<1> QED BY <1>2, <1>3, <1>4 DEF HandleTLC

LEMMA HandleShape ==
    ASSUME Shape, NEW t \in Thread, NEW n \in Node, NEW m \in Message,
           NEW q \in Queues, Handle(t, n, m, q)
    PROVE  Shape'
BY PrepareShape, ProposeShape, PromiseShape, AcceptShape, TLCShape DEF Handle

-----------------------------------------------------------------------------
(* Types: threads and calls                                                *)

LEMMA ReceiveMessage ==
    ASSUME GossipTypeOK, NEW o \in Node, NEW d \in Node, net[o][d] # << >>
    PROVE  /\ Head(net[o][d]) \in Message
           /\ [net EXCEPT ![o][d] = Tail(@)] \in Queues
           /\ d \in Thread /\ NodeOf(d) = d
<1>1. net[o][d] \in Seq(Message)
  BY DEF GossipTypeOK
<1>2. Head(net[o][d]) \in Message /\ Tail(net[o][d]) \in Seq(Message)
  BY <1>1, HeadTailProperties
<1>3. [net EXCEPT ![o][d] = Tail(@)] \in Queues
  BY <1>2 DEF GossipTypeOK, Queues
<1> QED BY <1>2, <1>3, CallAssumption DEF Thread, NodeOf

LEMMA LocalMessage ==
    ASSUME GossipTypeOK, NEW t \in Thread, local[t] # None
    PROVE  local[t] \in Message /\ NodeOf(t) \in Node /\ net \in Queues
BY NodeOfType DEF GossipTypeOK, Queues

LEMMA StartPhaseOneShape ==
    ASSUME Shape, NEW c \in Call, StartPhaseOne(c)
    PROVE  Shape'
<1> DEFINE n == CallNode[c]
           s == step[n]
           id == IF s = previous[c] THEN paxosId[c] + N ELSE PaxosID[n]
           m == [type |-> "prepare", src |-> n, step |-> s, id |-> id]
<1>1. n \in Node /\ s \in Steps /\ c \in Thread
  BY CallAssumption DEF Shape, TypeOK, StepTypeOK, Thread
<1>2. id \in Number
  BY <1>1, NodeCount, NodeAssumption DEF Shape, TypeOK, CallTypeOK, Number, N
<1>3. m \in Message
  BY <1>1, <1>2 DEF Message, PaxosPrepareMessage
<1>4. GossipTypeOK'
  <2>1. Broadcast(c, n, m, net) /\ net \in Queues
    BY DEF StartPhaseOne, Shape, TypeOK, GossipTypeOK, Queues
  <2> HIDE DEF m
  <2> QED BY <1>1, <1>3, <2>1, BroadcastType DEF Shape, TypeOK
<1>5. attempt[c] + 1 \in 1 .. MaxAttempt
  BY BoundAssumption DEF StartPhaseOne, Shape, TypeOK, CallTypeOK
<1>6. /\ pc' = [pc EXCEPT ![c] = "p1"]
      /\ current' = [current EXCEPT ![c] = s]
      /\ previous' = [previous EXCEPT ![c] = s]
      /\ paxosId' = [paxosId EXCEPT ![c] = id]
      /\ attempt' = [attempt EXCEPT ![c] = @ + 1]
      /\ phaseOnePeers' = [phaseOnePeers EXCEPT ![c] = {}]
      /\ success' = [success EXCEPT ![c] = FALSE]
      /\ UNCHANGED <<oldName, proposed, original>>
  BY DEF StartPhaseOne
<1>7. registered' \in [Call -> BOOLEAN]
  BY DEF StartPhaseOne
<1>8. CallTypeOK' /\ CallInv'
  <2> HIDE DEF id, s
  <2>1. id \in Nat /\ id > 0 /\ attempt[c] + 1 \in 0 .. MaxAttempt
    BY <1>2, <1>5, BoundAssumption DEF Number
  <2>2. CallTypeOK'
    BY <1>1, <1>6, <1>7, <2>1 DEF Shape, TypeOK, CallTypeOK
  <2>3. CallInv'
    BY <1>5, <1>6, <2>1 DEF Shape, TypeOK, CallTypeOK, CallInv
  <2> QED BY <2>2, <2>3
<1>9. ProposerTypeOK'
  BY DEF StartPhaseOne, ResetProposer, Shape, TypeOK, ProposerTypeOK
<1>10. StepTypeOK' /\ StoreTypeOK' /\ AcceptorTypeOK' /\ ChainLength'
  BY DEF StartPhaseOne, Shape, TypeOK, StepTypeOK, StoreTypeOK, AcceptorTypeOK,
         ChainLength, stepVars, storeVars, acceptorVars
<1> QED BY <1>4, <1>8, <1>9, <1>10 DEF Shape, TypeOK

\* What a call proposes is a value: its own has the identifier of its iteration.
LEMMA ValueToProposeType ==
    ASSUME Shape, NEW c \in Call, pc[c] = "p1"
    PROVE  ValueToPropose(c) \in Value
<1>1. CallNode[c] \in Node /\ CallKind[c] \in {"file", "user"} /\ CallName[c] \in Name
  BY CallAssumption
<1>2. attempt[c] \in 1 .. MaxAttempt
  BY BoundAssumption DEF Shape, TypeOK, CallTypeOK, CallInv
<1>3. OwnValue(c) \in Value
  BY <1>1, <1>2 DEF OwnValue, Value, Uid, Shape, TypeOK, CallTypeOK
<1> QED BY <1>1, <1>3 DEF ValueToPropose, Shape, TypeOK, ProposerTypeOK

LEMMA CallProposeShape ==
    ASSUME Shape, NEW c \in Call, Propose(c)
    PROVE  Shape'
<1> DEFINE n == CallNode[c]
           v == ValueToPropose(c)
           m == [type |-> "propose", src |-> n, step |-> current[c],
                 id |-> paxosId[c], val |-> v]
<1>1. n \in Node /\ c \in Thread
  BY CallAssumption DEF Thread
<1>2. v \in Value /\ v.uid \in Uid
  <2>1. v \in Value
    BY ValueToProposeType DEF Propose
  <2> HIDE DEF v
  <2> QED BY <2>1 DEF Value
<1>3. m \in Message
  <2> HIDE DEF v
  <2> QED BY <1>1, <1>2 DEF Message, PaxosProposeMessage, Number, Propose, Shape,
             TypeOK, CallTypeOK, CallInv
<1>4. GossipTypeOK'
  <2>1. Broadcast(c, n, m, net) /\ net \in Queues
    BY DEF Propose, Shape, TypeOK, GossipTypeOK, Queues
  <2> HIDE DEF m
  <2> QED BY <1>1, <1>3, <2>1, BroadcastType DEF Shape, TypeOK
<1>5. /\ pc[c] = "p1"
      /\ pc' = [pc EXCEPT ![c] = "p2"]
      /\ proposed' = [proposed EXCEPT ![c] = v]
      /\ success' = [success EXCEPT ![c] = FALSE]
      /\ UNCHANGED <<loopVars, phaseOnePeers>>
      /\ phaseTwoPeers' = [phaseTwoPeers EXCEPT ![n][v.uid] = {}]
      /\ UNCHANGED <<phaseOne, highestVars>>
  BY DEF Propose
<1>6. registered' \in [Call -> BOOLEAN] /\ original' \in [Call -> BOOLEAN]
  BY DEF Propose, IsOriginal, Shape, TypeOK, CallTypeOK
<1>7. CallTypeOK' /\ CallInv' /\ ProposerTypeOK'
  <2> HIDE DEF v
  <2> QED BY <1>1, <1>2, <1>5, <1>6 DEF Shape, TypeOK, CallTypeOK, CallInv,
             ProposerTypeOK, loopVars, highestVars
<1>8. StepTypeOK' /\ StoreTypeOK' /\ AcceptorTypeOK' /\ ChainLength'
  BY DEF Propose, Shape, TypeOK, StepTypeOK, StoreTypeOK, AcceptorTypeOK,
         ChainLength, stepVars, storeVars, acceptorVars
<1> QED BY <1>4, <1>7, <1>8 DEF Shape, TypeOK

\* The steps of a call that change nothing but where the call is.
CallMoves(c) ==
    BeginCall(c) \/ CheckName(c) \/ Timeout(c) \/ Accepted(c) \/ Return(c)

LEMMA CallMovesKeep ==
    ASSUME NEW c, CallMoves(c)
    PROVE  /\ UNCHANGED <<step, tlc, tlcSent, storeVars, acceptorVars, proposerVars,
                          gossipVars>>
           /\ UNCHANGED <<current, previous, paxosId, attempt, proposed, original,
                          phaseOnePeers, registered, success>>
BY DEF CallMoves, BeginCall, CheckName, Timeout, Accepted, Return, stepVars, loopVars

LEMMA CallMovesShape ==
    ASSUME Shape, NEW c \in Call, CallMoves(c)
    PROVE  Shape'
<1>1. /\ UNCHANGED <<step, tlc, tlcSent, storeVars, acceptorVars, proposerVars,
                     gossipVars>>
      /\ UNCHANGED <<current, previous, paxosId, attempt, proposed, original,
                     phaseOnePeers, registered, success>>
  BY CallMovesKeep
<1>2. finished' \in [Node -> SUBSET Steps] /\ oldName' \in [Call -> Name \cup {None}]
  <2>1. CallNode[c] \in Node
    BY CallAssumption
  <2>2. CASE BeginCall(c)
    <3>1. finished' = finished
      BY <2>2 DEF BeginCall, stepVars
    <3>2. oldName' = oldName \/ oldName' = [oldName EXCEPT ![c] = username[CallNode[c]]]
      BY <2>2 DEF BeginCall
    <3>3. username[CallNode[c]] \in Name \cup {None}
      BY <2>1 DEF Shape, TypeOK, StoreTypeOK
    <3>4. finished \in [Node -> SUBSET Steps] /\ oldName \in [Call -> Name \cup {None}]
      BY DEF Shape, TypeOK, StepTypeOK, CallTypeOK
    <3> QED BY <3>1, <3>2, <3>3, <3>4
  <2>3. CASE CheckName(c) \/ Timeout(c) \/ Accepted(c)
    BY <2>3 DEF CheckName, Timeout, Accepted, stepVars, loopVars, Shape, TypeOK,
                StepTypeOK, CallTypeOK
  <2>4. CASE Return(c)
    <3>1. /\ finished' = [finished EXCEPT ![CallNode[c]] = @ \ {current[c]}]
          /\ oldName' = oldName
      BY <2>4 DEF Return, loopVars
    <3> QED BY <2>1, <3>1 DEF Shape, TypeOK, StepTypeOK, CallTypeOK
  <2> QED BY <2>2, <2>3, <2>4 DEF CallMoves
<1>3. /\ pc' \in [Call -> {"idle", "check", "prepare", "p1", "p2", "wait", "done",
                           "failed"}]
      /\ CallInv'
  BY <1>1 DEF CallMoves, BeginCall, CheckName, Timeout, Accepted, Return,
              Shape, TypeOK, CallTypeOK, CallInv
<1> QED BY <1>1, <1>2, <1>3
     DEF Shape, TypeOK, StepTypeOK, StoreTypeOK, AcceptorTypeOK, ProposerTypeOK,
         CallTypeOK, GossipTypeOK, ChainLength, storeVars, acceptorVars, proposerVars,
         highestVars, gossipVars

LEMMA InitShape == Init => Shape
<1> SUFFICES ASSUME Init PROVE Shape
  OBVIOUS
<1>1. 0 \in Steps /\ 0 \in 0 .. MaxAttempt
  BY BoundAssumption DEF Steps
<1>2. << >> \in Seq(Block) /\ << >> \in Seq(Message) /\ Len(<< >>) = 0
  BY EmptySeq
<1> QED BY <1>1, <1>2
     DEF Init, InitButRumors, Shape, TypeOK, StepTypeOK, StoreTypeOK, AcceptorTypeOK,
         ProposerTypeOK, CallTypeOK, GossipTypeOK, CallInv, ChainLength

LEMMA NextShape == Shape /\ [Next]_vars => Shape'
<1> SUFFICES ASSUME Shape, [Next]_vars PROVE Shape'
  OBVIOUS
<1>1. ASSUME NEW o \in Node, NEW d \in Node, Receive(o, d) PROVE Shape'
  BY <1>1, ReceiveMessage, HandleShape DEF Receive, Shape, TypeOK
<1>2. ASSUME NEW t \in Thread, ProcessLocal(t) PROVE Shape'
  BY <1>2, LocalMessage, HandleShape DEF ProcessLocal, Shape, TypeOK
<1>3. ASSUME NEW c \in Call, CallStep(c) PROVE Shape'
  BY <1>3, StartPhaseOneShape, CallProposeShape, CallMovesShape DEF CallStep, CallMoves
<1>4. CASE UNCHANGED vars
  BY <1>4 DEF vars, Shape, TypeOK, StepTypeOK, StoreTypeOK, AcceptorTypeOK,
              ProposerTypeOK, CallTypeOK, GossipTypeOK, CallInv, ChainLength, stepVars,
              storeVars, acceptorVars, proposerVars, highestVars, callVars, loopVars,
              gossipVars
<1> QED BY <1>1, <1>2, <1>3, <1>4 DEF Next

LEMMA ShapeInvariant == Spec => []Shape
BY InitShape, NextShape, PTL DEF Spec

\* Every variable keeps its type, and with it the code its indices: a step is
\* never below zero or past the bound, a proposal number is positive, a block
\* built on the last one exists.
THEOREM TypeCorrect == Spec => []TypeOK
BY ShapeInvariant, PTL DEF Shape

-----------------------------------------------------------------------------
(* The clock                                                               *)

LEMMA AdvanceStepClock ==
    ASSUME Shape, ClockAdvanced, NEW t \in Thread, NEW n \in Node,
           NEW m \in TLCMessage, NEW q \in Queues, AdvanceStep(t, n, m, q)
    PROVE  ClockAdvanced'
<1> DEFINE s == step[n]
           top == CatchUpStep(n, s)
<1>1. m.step = s /\ s \in Steps /\ s < MaxStep /\ s \in Nat /\ MaxStep \in Nat
  BY BoundAssumption DEF AdvanceStep, Shape, TypeOK, StepTypeOK, Steps
<1>2. tlc \in [Node -> [Steps -> Seq(Block)]] /\ step \in [Node -> Steps]
  BY DEF Shape, TypeOK, StepTypeOK
<1>3. /\ top \in s + 1 .. MaxStep
      /\ top < MaxStep => Len(tlc[n][top]) < PaxosThreshold
  BY <1>1, <1>2, CatchUpStepExists
<1>4. top \in Steps /\ top # s
  BY <1>1, <1>3 DEF Steps
<1>5. /\ tlc' = [tlc EXCEPT ![n][s] = Append(@, m.block)]
      /\ step' = [step EXCEPT ![n] = top]
  BY DEF AdvanceStep
<1> HIDE DEF top, s
<1>6. tlc'[n][top] = tlc[n][top] /\ step'[n] = top
  BY <1>2, <1>4, <1>5
<1>7. \A o \in Node \ {n} : tlc'[o] = tlc[o] /\ step'[o] = step[o]
  BY <1>2, <1>5
<1> QED BY <1>3, <1>6, <1>7 DEF ClockAdvanced

LEMMA HandleClock ==
    ASSUME Shape, ClockAdvanced, NEW t \in Thread, NEW n \in Node,
           NEW m \in Message, NEW q \in Queues, Handle(t, n, m, q)
    PROVE  ClockAdvanced'
<1>1. CASE UNCHANGED <<step, tlc>>
  BY <1>1 DEF ClockAdvanced
<1>2. CASE StoreTLC(t, n, m, q)
  <2>1. m.step \in Steps
    BY MessageKinds
  <2>2. tlc \in [Node -> [Steps -> Seq(Block)]] /\ step \in [Node -> Steps]
    BY DEF Shape, TypeOK, StepTypeOK
  <2>3. tlc[n][m.step] \in Seq(Block) /\ Len(tlc[n][m.step]) \in Nat
    BY <2>1, <2>2, LenProperties
  <2>4. /\ tlc' = [tlc EXCEPT ![n][m.step] = Append(@, m.block)]
        /\ step' = step
        /\ m.step = step[n] => Len(tlc[n][m.step]) + 1 < PaxosThreshold
    BY <1>2 DEF StoreTLC
  <2>5. m.step = step[n] => Len(tlc'[n][step[n]]) < PaxosThreshold
    <3>1. CASE m.step = step[n]
      <4>1. tlc'[n][step[n]] = Append(tlc[n][m.step], m.block)
        BY <2>1, <2>2, <2>4, <3>1
      <4>2. Len(Append(tlc[n][m.step], m.block)) = Len(tlc[n][m.step]) + 1
        BY <2>3
      <4> QED BY <2>4, <3>1, <4>1, <4>2
    <3> QED BY <3>1
  <2>6. m.step # step[n] => tlc'[n][step[n]] = tlc[n][step[n]]
    BY <2>1, <2>2, <2>4
  <2>7. \A o \in Node \ {n} : tlc'[o] = tlc[o]
    BY <2>2, <2>4
  <2> QED BY <2>4, <2>5, <2>6, <2>7 DEF ClockAdvanced
<1>3. CASE AdvanceStep(t, n, m, q) /\ m \in TLCMessage
  BY <1>3, AdvanceStepClock
<1> QED BY <1>1, <1>2, <1>3, MessageKinds
     DEF Handle, HandlePrepare, HandlePropose, HandlePromise, HandleAccept, HandleTLC,
         stepVars

\* A node never stands at a step for which it holds a threshold of TLC messages:
\* the catch-up of ExecTLCMessage leaves no ready step behind, for any threshold.
THEOREM ClockNeverBehind == Spec => []ClockAdvanced
<1>1. Init => ClockAdvanced
  BY EmptySeq, NodeAssumption, BoundAssumption
     DEF Init, InitButRumors, ClockAdvanced, Steps
<1>2. Shape /\ ClockAdvanced /\ [Next]_vars => ClockAdvanced'
  <2> SUFFICES ASSUME Shape, ClockAdvanced, [Next]_vars PROVE ClockAdvanced'
    OBVIOUS
  <2>1. ASSUME NEW o \in Node, NEW d \in Node, Receive(o, d) PROVE ClockAdvanced'
    BY <2>1, ReceiveMessage, HandleClock DEF Receive, Shape, TypeOK
  <2>2. ASSUME NEW t \in Thread, ProcessLocal(t) PROVE ClockAdvanced'
    BY <2>2, LocalMessage, HandleClock DEF ProcessLocal, Shape, TypeOK
  <2>3. ASSUME NEW c \in Call, CallStep(c) PROVE ClockAdvanced'
    <3>1. UNCHANGED <<step, tlc>>
      BY <2>3, CallMovesKeep DEF CallStep, CallMoves, StartPhaseOne, Propose, stepVars
    <3> QED BY <3>1 DEF ClockAdvanced
  <2>4. CASE UNCHANGED vars
    BY <2>4 DEF ClockAdvanced, vars, stepVars
  <2> QED BY <2>1, <2>2, <2>3, <2>4 DEF Next
<1> QED BY <1>1, <1>2, ShapeInvariant, PTL DEF Spec

-----------------------------------------------------------------------------
(* The acceptor                                                            *)

\* What the memory of an acceptor says of the promises and accepts it has
\* broadcast at its step; it says nothing of the steps it has left.
AcceptorInv ==
    \A n \in Node :
        /\ acceptedId[n] <= maxId[n]
        /\ \A r \in rumors[n] : r.type \in {"promise", "accept"} => r.step <= step[n]
        /\ \A r \in rumors[n] : (r.type = "promise" /\ r.step = step[n]) => r.id <= maxId[n]
        /\ \A r \in rumors[n] : (r.type = "accept" /\ r.step = step[n])
               => r.id <= acceptedId[n] /\ acceptedValue[n] # None

Faithful == AcceptorInv /\ PromiseFaithful

\* Nothing but promises and accepts matters.
LEMMA OtherRumors ==
    ASSUME Faithful, UNCHANGED <<step, maxId, acceptedId, acceptedValue>>,
           \A n \in Node : \A r \in rumors'[n] :
               r \in rumors[n] \/ r.type \notin {"promise", "accept"}
    PROVE  Faithful'
<1>1. AcceptorInv'
  BY DEF Faithful, AcceptorInv
<1>2. PromiseFaithful'
  BY DEF Faithful, PromiseFaithful
<1> QED BY <1>1, <1>2 DEF Faithful

\* The rumors of a node after it broadcasts m.
LEMMA BroadcastRumors ==
    ASSUME Shape, NEW t, NEW n \in Node, NEW m, NEW q, Broadcast(t, n, m, q)
    PROVE  /\ rumors'[n] = rumors[n] \cup {m}
           /\ \A o \in Node \ {n} : rumors'[o] = rumors[o]
BY DEF Broadcast, Shape, TypeOK, GossipTypeOK

LEMMA BroadcastAdds ==
    ASSUME Shape, NEW t, NEW n \in Node, NEW m, NEW q, Broadcast(t, n, m, q)
    PROVE  \A o \in Node : \A r \in rumors'[o] : r \in rumors[o] \/ r = m
BY DEF Broadcast, Shape, TypeOK, GossipTypeOK

LEMMA AcceptorNumbers ==
    ASSUME Shape, NEW n \in Node
    PROVE  /\ maxId[n] \in Nat /\ acceptedId[n] \in Nat /\ step[n] \in Nat
           /\ \A r \in rumors[n] : r.type \in {"promise", "accept"} => r.id \in Nat
<1>1. maxId[n] \in Nat /\ acceptedId[n] \in Nat /\ step[n] \in Nat
  BY DEF Shape, TypeOK, AcceptorTypeOK, StepTypeOK, Steps, Number
<1>2. ASSUME NEW r \in rumors[n], r.type \in {"promise", "accept"} PROVE r.id \in Nat
  <2>1. r \in Message
    BY DEF Shape, TypeOK, GossipTypeOK
  <2>2. r \in PaxosPromiseMessage \/ r \in PaxosAcceptMessage
    BY <1>2, <2>1, MessageKinds
  <2> QED BY <2>2 DEF PaxosPromiseMessage, PaxosAcceptMessage, Number
<1> QED BY <1>1, <1>2

LEMMA PrepareFaithful ==
    ASSUME Shape, Faithful, NEW t \in Thread, NEW n \in Node, NEW m \in Message,
           NEW q \in Queues, HandlePrepare(t, n, m, q)
    PROVE  Faithful'
<1>1. CASE Promisable(n, m)
  <2> DEFINE p == [type |-> "promise", src |-> n, dest |-> m.src,
                   step |-> step[n], id |-> m.id, accId |-> acceptedId[n],
                   accVal |-> acceptedValue[n]]
  <2>1. /\ maxId' = [maxId EXCEPT ![n] = m.id]
        /\ UNCHANGED <<step, acceptedId, acceptedValue>>
        /\ Broadcast(t, n, p, q)
    BY <1>1 DEF HandlePrepare, stepVars
  <2>2. /\ p.type = "promise" /\ p.step = step[n] /\ p.id = m.id
        /\ p.accId = acceptedId[n] /\ p.accVal = acceptedValue[n]
    OBVIOUS
  <2> HIDE DEF p
  <2>3. /\ rumors'[n] = rumors[n] \cup {p}
        /\ \A o \in Node \ {n} : rumors'[o] = rumors[o]
    BY <2>1, BroadcastRumors
  <2>4. /\ maxId'[n] = m.id /\ m.id \in Nat /\ m.id > maxId[n]
        /\ \A o \in Node \ {n} : maxId'[o] = maxId[o]
    BY <1>1, <2>1, MessageKinds DEF Promisable, HandlePrepare, PaxosPrepareMessage,
       Number, Shape, TypeOK, AcceptorTypeOK
  <2>5. /\ maxId[n] \in Nat /\ acceptedId[n] \in Nat /\ step[n] \in Nat
        /\ \A r \in rumors[n] : r.type \in {"promise", "accept"} => r.id \in Nat
    BY AcceptorNumbers
  <2>6. AcceptorInv'
    <3> SUFFICES ASSUME NEW o \in Node
        PROVE /\ acceptedId'[o] <= maxId'[o]
              /\ \A r \in rumors'[o] :
                     /\ r.type \in {"promise", "accept"} => r.step <= step'[o]
                     /\ (r.type = "promise" /\ r.step = step'[o]) => r.id <= maxId'[o]
                     /\ (r.type = "accept" /\ r.step = step'[o])
                            => r.id <= acceptedId'[o] /\ acceptedValue'[o] # None
      BY DEF AcceptorInv
    <3>1. CASE o = n
      BY <2>1, <2>2, <2>3, <2>4, <2>5, <3>1 DEF Faithful, AcceptorInv
    <3>2. CASE o # n
      BY <2>1, <2>3, <2>4, <3>2 DEF Faithful, AcceptorInv
    <3> QED BY <3>1, <3>2
  <2>7. PromiseFaithful'
    BY <2>2, <2>3, <2>4, <2>5 DEF Faithful, PromiseFaithful, AcceptorInv
  <2> QED BY <2>6, <2>7 DEF Faithful
<1>2. CASE ~ Promisable(n, m)
  BY <1>2, OtherRumors DEF HandlePrepare, Finish, stepVars
<1> QED BY <1>1, <1>2

LEMMA ProposeFaithful ==
    ASSUME Shape, Faithful, NEW t \in Thread, NEW n \in Node, NEW m \in Message,
           NEW q \in Queues, HandlePropose(t, n, m, q)
    PROVE  Faithful'
<1>1. CASE Acceptable(n, m)
  <2> DEFINE a == [type |-> "accept", src |-> n, step |-> m.step, id |-> m.id,
                   val |-> m.val]
  <2>1. /\ acceptedId' = [acceptedId EXCEPT ![n] = m.id]
        /\ acceptedValue' = [acceptedValue EXCEPT ![n] = m.val]
        /\ UNCHANGED <<step, maxId>>
        /\ Broadcast(t, n, a, q)
    BY <1>1 DEF HandlePropose, stepVars
  <2>2. a.type = "accept" /\ a.step = step[n] /\ a.id = maxId[n] /\ m.id = maxId[n]
    BY <1>1 DEF Acceptable
  <2> HIDE DEF a
  <2>3. /\ rumors'[n] = rumors[n] \cup {a}
        /\ \A o \in Node \ {n} : rumors'[o] = rumors[o]
    BY <2>1, BroadcastRumors
  <2>4. /\ acceptedId'[n] = maxId[n] /\ acceptedValue'[n] # None
        /\ \A o \in Node \ {n} : acceptedId'[o] = acceptedId[o]
                                 /\ acceptedValue'[o] = acceptedValue[o]
    <3>1. m.val \in Value
      BY MessageKinds DEF HandlePropose, PaxosProposeMessage
    <3> QED BY <2>1, <2>2, <3>1, NoneAssumption DEF Shape, TypeOK, AcceptorTypeOK
  <2>5. /\ maxId[n] \in Nat /\ acceptedId[n] \in Nat /\ step[n] \in Nat
        /\ \A r \in rumors[n] : r.type \in {"promise", "accept"} => r.id \in Nat
    BY AcceptorNumbers
  <2>6. AcceptorInv'
    <3> SUFFICES ASSUME NEW o \in Node
        PROVE /\ acceptedId'[o] <= maxId'[o]
              /\ \A r \in rumors'[o] :
                     /\ r.type \in {"promise", "accept"} => r.step <= step'[o]
                     /\ (r.type = "promise" /\ r.step = step'[o]) => r.id <= maxId'[o]
                     /\ (r.type = "accept" /\ r.step = step'[o])
                            => r.id <= acceptedId'[o] /\ acceptedValue'[o] # None
      BY DEF AcceptorInv
    <3>1. CASE o = n
      BY <2>1, <2>2, <2>3, <2>4, <2>5, <3>1 DEF Faithful, AcceptorInv
    <3>2. CASE o # n
      BY <2>1, <2>3, <2>4, <3>2 DEF Faithful, AcceptorInv
    <3> QED BY <3>1, <3>2
  <2>7. PromiseFaithful'
    BY <2>2, <2>3, <2>5 DEF Faithful, PromiseFaithful, AcceptorInv
  <2> QED BY <2>6, <2>7 DEF Faithful
<1>2. CASE ~ Acceptable(n, m)
  BY <1>2, OtherRumors DEF HandlePropose, Finish, stepVars
<1> QED BY <1>1, <1>2

\* The steps left are behind: nothing said there binds the acceptor any more.
LEMMA AdvanceFaithful ==
    ASSUME Shape, Faithful, NEW t \in Thread, NEW n \in Node, NEW m \in TLCMessage,
           NEW q \in Queues, AdvanceStep(t, n, m, q)
    PROVE  Faithful'
<1> DEFINE top == CatchUpStep(n, step[n])
<1>1. step[n] \in Steps /\ step[n] \in Nat /\ step[n] < MaxStep /\ MaxStep \in Nat
  BY BoundAssumption DEF AdvanceStep, Shape, TypeOK, StepTypeOK, Steps
<1>2. top > step[n] /\ top \in Nat
  <2>1. top \in step[n] + 1 .. MaxStep
    BY <1>1, CatchUpStepExists DEF Shape, TypeOK, StepTypeOK
  <2> QED BY <1>1, <2>1
<1>3. /\ step' = [step EXCEPT ![n] = top]
      /\ maxId' = [maxId EXCEPT ![n] = 0]
      /\ acceptedId' = [acceptedId EXCEPT ![n] = 0]
      /\ acceptedValue' = [acceptedValue EXCEPT ![n] = None]
  BY DEF AdvanceStep, ResetAcceptor
<1> HIDE DEF top
<1>4. \A o \in Node : \A r \in rumors'[o] :
          r \in rumors[o] \/ r.type \notin {"promise", "accept"}
  <2>1. [m EXCEPT !.src = n].type = "tlc"
    BY DEF TLCMessage
  <2> QED BY <2>1 DEF AdvanceStep, Shape, TypeOK, GossipTypeOK
<1>5. \A o \in Node : \A r \in rumors[o] : r.type \in {"promise", "accept"} => r.step \in Nat
  BY MessageKinds DEF Shape, TypeOK, GossipTypeOK, Steps
<1>6. /\ step'[n] = top /\ maxId'[n] = 0 /\ acceptedId'[n] = 0
      /\ \A o \in Node \ {n} :
             /\ step'[o] = step[o] /\ maxId'[o] = maxId[o]
             /\ acceptedId'[o] = acceptedId[o] /\ acceptedValue'[o] = acceptedValue[o]
  BY <1>3 DEF Shape, TypeOK, StepTypeOK, AcceptorTypeOK
<1>7. AcceptorInv'
  <2> SUFFICES ASSUME NEW o \in Node
      PROVE /\ acceptedId'[o] <= maxId'[o]
            /\ \A r \in rumors'[o] :
                   /\ r.type \in {"promise", "accept"} => r.step <= step'[o]
                   /\ (r.type = "promise" /\ r.step = step'[o]) => r.id <= maxId'[o]
                   /\ (r.type = "accept" /\ r.step = step'[o])
                          => r.id <= acceptedId'[o] /\ acceptedValue'[o] # None
    BY DEF AcceptorInv
  <2>1. CASE o = n
    <3>1. \A r \in rumors[n] : r.type \in {"promise", "accept"} => r.step <= step[n]
      BY DEF Faithful, AcceptorInv
    <3>2. \A r \in rumors[n] : r.type \in {"promise", "accept"} => r.step < top
      BY <1>1, <1>2, <1>5, <3>1
    <3> QED BY <1>2, <1>4, <1>5, <1>6, <2>1, <3>2
  <2>2. CASE o # n
    BY <1>4, <1>6, <2>2 DEF Faithful, AcceptorInv
  <2> QED BY <2>1, <2>2
<1>8. PromiseFaithful'
  BY <1>4 DEF Faithful, PromiseFaithful
<1> QED BY <1>7, <1>8 DEF Faithful

LEMMA AcceptFaithful ==
    ASSUME Shape, Faithful, NEW t \in Thread, NEW n \in Node, NEW m \in Message,
           NEW q \in Queues, HandleAccept(t, n, m, q)
    PROVE  Faithful'
<1>1. UNCHANGED <<step, maxId, acceptedId, acceptedValue>>
  BY DEF HandleAccept, acceptorVars
<1>2. \A o \in Node : \A r \in rumors'[o] :
          r \in rumors[o] \/ r.type \notin {"promise", "accept"}
  <2> DEFINE r == [type |-> "tlc", src |-> n, step |-> m.step,
                   block |-> NewBlock(n, m.step, m.val)]
  <2>1. Broadcast(t, n, r, q) \/ Finish(t, q)
    BY DEF HandleAccept
  <2>2. r.type = "tlc"
    OBVIOUS
  <2> HIDE DEF r
  <2>3. CASE Broadcast(t, n, r, q)
    <3>1. \A o \in Node : \A x \in rumors'[o] : x \in rumors[o] \/ x = r
      BY <2>3, BroadcastAdds
    <3> QED BY <2>2, <3>1
  <2>4. CASE Finish(t, q)
    BY <2>4 DEF Finish
  <2> QED BY <2>1, <2>3, <2>4
<1> QED BY <1>1, <1>2, OtherRumors

LEMMA HandleFaithful ==
    ASSUME Shape, Faithful, NEW t \in Thread, NEW n \in Node, NEW m \in Message,
           NEW q \in Queues, Handle(t, n, m, q)
    PROVE  Faithful'
<1>1. CASE HandlePromise(t, n, m, q)
  BY <1>1, OtherRumors DEF HandlePromise, Finish, stepVars, acceptorVars
<1>2. CASE HandleTLC(t, n, m, q)
  <2>1. CASE UNCHANGED <<step, acceptorVars, rumors>>
    BY <2>1, OtherRumors DEF acceptorVars
  <2>2. CASE AdvanceStep(t, n, m, q)
    BY <1>2, <2>2, AdvanceFaithful, MessageKinds DEF HandleTLC
  <2> QED BY <1>2, <2>1, <2>2 DEF HandleTLC, StoreTLC, Finish, stepVars
<1> QED BY <1>1, <1>2, PrepareFaithful, ProposeFaithful, AcceptFaithful DEF Handle

LEMMA CallFaithful ==
    ASSUME Shape, Faithful, NEW c \in Call, CallStep(c)
    PROVE  Faithful'
<1>1. CASE StartPhaseOne(c) \/ Propose(c)
  <2>1. UNCHANGED <<step, maxId, acceptedId, acceptedValue>>
    BY <1>1 DEF StartPhaseOne, Propose, stepVars, acceptorVars
  <2>2. PICK m : m.type \notin {"promise", "accept"} /\ Broadcast(c, CallNode[c], m, net)
    BY <1>1, Zenon DEF StartPhaseOne, Propose
  <2>3. CallNode[c] \in Node
    BY CallAssumption
  <2>4. \A o \in Node : \A x \in rumors'[o] : x \in rumors[o] \/ x = m
    BY <2>2, <2>3, BroadcastAdds
  <2>5. \A o \in Node : \A x \in rumors'[o] :
            x \in rumors[o] \/ x.type \notin {"promise", "accept"}
    BY <2>2, <2>4
  <2> QED BY <2>1, <2>5, OtherRumors
<1>2. CASE CallMoves(c)
  BY <1>2, CallMovesKeep, OtherRumors DEF acceptorVars, gossipVars
<1> QED BY <1>1, <1>2 DEF CallStep, CallMoves

LEMMA FaithfulInvariant == Spec => []Faithful
<1>1. Init => Faithful
  BY DEF Init, InitButRumors, Faithful, AcceptorInv, PromiseFaithful
<1>2. Shape /\ Faithful /\ [Next]_vars => Faithful'
  <2> SUFFICES ASSUME Shape, Faithful, [Next]_vars PROVE Faithful'
    OBVIOUS
  <2>1. ASSUME NEW o \in Node, NEW d \in Node, Receive(o, d) PROVE Faithful'
    BY <2>1, ReceiveMessage, HandleFaithful DEF Receive, Shape, TypeOK
  <2>2. ASSUME NEW t \in Thread, ProcessLocal(t) PROVE Faithful'
    BY <2>2, LocalMessage, HandleFaithful DEF ProcessLocal, Shape, TypeOK
  <2>3. ASSUME NEW c \in Call, CallStep(c) PROVE Faithful'
    BY <2>3, CallFaithful
  <2>4. CASE UNCHANGED vars
    BY <2>4, OtherRumors DEF vars, stepVars, acceptorVars, gossipVars
  <2> QED BY <2>1, <2>2, <2>3, <2>4 DEF Next
<1> QED BY <1>1, <1>2, ShapeInvariant, PTL DEF Spec

\* A promise never hides an accepted proposal, whatever the number of peers,
\* the order of prepares and proposals and the resets at every step.
THEOREM PromisesFaithful == Spec => []PromiseFaithful
<1>1. Faithful => PromiseFaithful
  BY DEF Faithful
<1> QED BY <1>1, FaithfulInvariant, PTL

-----------------------------------------------------------------------------
(* Decisions                                                               *)

\* What peers receive was broadcast by its sender, under its own address.
Known(q) ==
    \A o, d \in Node : \A i \in 1 .. Len(q[o][d]) : q[o][d][i] \in rumors[o]

GossipInv ==
    /\ \A o \in Node : \A r \in rumors[o] : r.src = o
    /\ Known(net)
    /\ \A t \in Thread : local[t] # None => local[t] \in rumors[NodeOf(t)]

\* The peers a proposer counts have broadcast their accept.
PeersInv == \A n \in Node : \A u \in Uid : phaseTwoPeers[n][u] \subseteq Acceptors(u)

Backed == GossipInv /\ PeersInv /\ DecisionBacked

LEMMA AcceptorsFinite ==
    ASSUME NEW u
    PROVE  IsFiniteSet(Acceptors(u)) /\ Acceptors(u) \in SUBSET Node
<1>1. Acceptors(u) \in SUBSET Node
  BY DEF Acceptors
<1> QED BY <1>1, FS_Subset, NodeAssumption

\* Rumors are never taken back.
LEMMA AcceptorsGrow ==
    ASSUME \A o \in Node : rumors[o] \subseteq rumors'[o], NEW u
    PROVE  /\ Acceptors(u) \subseteq Acceptors(u)'
           /\ \A k \in Nat : Cardinality(Acceptors(u)) >= k => Cardinality(Acceptors(u)') >= k
<1>1. Acceptors(u) \subseteq Acceptors(u)'
  BY DEF Acceptors
<1>2. Acceptors(u)' \in SUBSET Node
  BY DEF Acceptors
<1>3. IsFiniteSet(Acceptors(u)')
  BY <1>2, FS_Subset, NodeAssumption
<1>4. Cardinality(Acceptors(u)) <= Cardinality(Acceptors(u)')
  BY <1>1, <1>3, FS_Subset
<1>5. Cardinality(Acceptors(u)) \in Nat /\ Cardinality(Acceptors(u)') \in Nat
  BY <1>3, AcceptorsFinite, FS_CardinalityType
<1> QED BY <1>1, <1>4, <1>5

LEMMA EnqueueKnown ==
    ASSUME NEW n \in Node, NEW m \in Message, NEW q \in Queues, Known(q),
           \A o \in Node : rumors[o] \subseteq rumors'[o], m \in rumors'[n],
           net' = Enqueue(q, n, m)
    PROVE  Known(net)'
<1> SUFFICES ASSUME NEW o \in Node, NEW d \in Node, NEW i \in 1 .. Len(net'[o][d])
             PROVE  net'[o][d][i] \in rumors'[o]
  BY DEF Known
<1>1. q[o][d] \in Seq(Message) /\ Len(q[o][d]) \in Nat
  BY LenProperties DEF Queues
<1>2. \A j \in 1 .. Len(q[o][d]) : q[o][d][j] \in rumors'[o]
  BY DEF Known
<1>3. net'[o][d] = q[o][d] \/ (o = n /\ net'[o][d] = Append(q[o][d], m))
  BY DEF Enqueue, Queues
<1>4. CASE net'[o][d] = q[o][d]
  BY <1>2, <1>4
<1>5. CASE o = n /\ net'[o][d] = Append(q[o][d], m)
  <2>1. /\ Len(Append(q[o][d], m)) = Len(q[o][d]) + 1
        /\ Append(q[o][d], m)[Len(q[o][d]) + 1] = m
        /\ \A j \in 1 .. Len(q[o][d]) : Append(q[o][d], m)[j] = q[o][d][j]
    BY <1>1, AppendProperties
  <2> QED BY <1>1, <1>2, <1>5, <2>1
<1> QED BY <1>3, <1>4, <1>5

LEMMA BroadcastGossip ==
    ASSUME Shape, GossipInv, NEW t \in Thread, NEW m \in Message,
           NEW q \in Queues, Known(q), m.src = NodeOf(t), Broadcast(t, NodeOf(t), m, q)
    PROVE  GossipInv' /\ \A o \in Node : rumors[o] \subseteq rumors'[o]
<1> DEFINE n == NodeOf(t)
<1>1. n \in Node
  BY NodeOfType
<1>2. /\ rumors'[n] = rumors[n] \cup {m}
      /\ \A o \in Node \ {n} : rumors'[o] = rumors[o]
  BY <1>1, BroadcastRumors
<1>3. \A o \in Node : rumors[o] \subseteq rumors'[o]
  BY <1>2
<1>4. Known(net)'
  BY <1>1, <1>2, <1>3, EnqueueKnown DEF Broadcast
<1>5. \A o \in Node : \A r \in rumors'[o] : r.src = o
  BY <1>1, <1>2 DEF GossipInv
<1>6. \A u \in Thread : local'[u] # None => local'[u] \in rumors'[NodeOf(u)]
  <2>1. \A u \in Thread : NodeOf(u) \in Node
    BY NodeOfType
  <2>2. local' = [local EXCEPT ![t] = IF ActsOn(m, n) THEN m ELSE None]
    BY DEF Broadcast
  <2>3. \A u \in Thread : local[u] # None => local[u] \in rumors[NodeOf(u)]
    BY DEF GossipInv
  <2>4. local \in [Thread -> Message \cup {None}]
    BY DEF Shape, TypeOK, GossipTypeOK
  <2> QED BY <1>2, <1>3, <2>1, <2>2, <2>3, <2>4
<1> QED BY <1>3, <1>4, <1>5, <1>6 DEF GossipInv

LEMMA FinishGossip ==
    ASSUME Shape, GossipInv, NEW t \in Thread, NEW q \in Queues, Known(q), Finish(t, q)
    PROVE  GossipInv' /\ rumors' = rumors
BY DEF Finish, GossipInv, Known, Shape, TypeOK, GossipTypeOK

\* A step keeps the decisions backed if it counts only acceptors and announces
\* only what a threshold has accepted.
LEMMA KeepBacked ==
    ASSUME Shape, Backed, GossipInv', \A o \in Node : rumors[o] \subseteq rumors'[o],
           \A o \in Node : \A r \in rumors'[o] : r.type = "tlc" =>
               r \in rumors[o] \/ Cardinality(Acceptors(r.block.value.uid)) >= PaxosThreshold,
           \A n \in Node : \A u \in Uid :
               phaseTwoPeers'[n][u] \subseteq phaseTwoPeers[n][u] \cup Acceptors(u)
    PROVE  Backed'
<1>1. PeersInv'
  <2> SUFFICES ASSUME NEW n \in Node, NEW u \in Uid
               PROVE  phaseTwoPeers'[n][u] \subseteq Acceptors(u)'
    BY DEF PeersInv
  <2>1. phaseTwoPeers[n][u] \subseteq Acceptors(u)
    BY DEF Backed, PeersInv
  <2>2. Acceptors(u) \subseteq Acceptors(u)'
    BY AcceptorsGrow
  <2>3. phaseTwoPeers'[n][u] \subseteq phaseTwoPeers[n][u] \cup Acceptors(u)
    OBVIOUS
  <2> QED BY <2>1, <2>2, <2>3
<1>2. DecisionBacked'
  <2> SUFFICES ASSUME NEW n \in Node, NEW r \in rumors'[n], r.type = "tlc"
               PROVE  Cardinality(Acceptors(r.block.value.uid)') >= PaxosThreshold
    BY DEF DecisionBacked, Acceptors
  <2>1. Cardinality(Acceptors(r.block.value.uid)) >= PaxosThreshold
    BY DEF Backed, DecisionBacked
  <2> QED BY <2>1, AcceptorsGrow, NodeAssumption
<1> QED BY <1>1, <1>2 DEF Backed

LEMMA QuietBacked ==
    ASSUME Shape, Backed, UNCHANGED <<local, net, rumors, phaseTwoPeers>>
    PROVE  Backed'
<1>1. GossipInv'
  BY DEF Backed, GossipInv, Known
<1> QED BY <1>1, KeepBacked

LEMMA FinishBacked ==
    ASSUME Shape, Backed, NEW t \in Thread, NEW q \in Queues, Known(q), Finish(t, q),
           UNCHANGED phaseTwoPeers
    PROVE  Backed'
<1>1. GossipInv' /\ rumors' = rumors
  BY FinishGossip DEF Backed
<1> QED BY <1>1, KeepBacked

LEMMA BroadcastBacked ==
    ASSUME Shape, Backed, NEW t \in Thread, NEW m \in Message, NEW q \in Queues,
           Known(q), m.src = NodeOf(t), Broadcast(t, NodeOf(t), m, q), m.type # "tlc",
           UNCHANGED phaseTwoPeers
    PROVE  Backed'
<1>1. GossipInv' /\ \A o \in Node : rumors[o] \subseteq rumors'[o]
  BY BroadcastGossip DEF Backed
<1>2. \A o \in Node : \A r \in rumors'[o] : r \in rumors[o] \/ r = m
  BY NodeOfType, BroadcastAdds
<1>3. \A o \in Node : \A r \in rumors'[o] : r.type = "tlc" => r \in rumors[o]
  BY <1>2
<1> QED BY <1>1, <1>3, KeepBacked

LEMMA AcceptBacked ==
    ASSUME Shape, Backed, NEW t \in Thread, NEW m \in Message, NEW q \in Queues,
           Known(q), m \in rumors[m.src], HandleAccept(t, NodeOf(t), m, q)
    PROVE  Backed'
<1> DEFINE n == NodeOf(t)
           u == m.val.uid
           peers == phaseTwoPeers[n][u] \cup {m.src}
           r == [type |-> "tlc", src |-> n, step |-> m.step,
                 block |-> NewBlock(n, m.step, m.val)]
<1>1. /\ n \in Node /\ m \in PaxosAcceptMessage /\ m.src \in Node /\ m.val \in Value
      /\ u \in Uid
  BY NodeOfType, MessageKinds DEF HandleAccept, PaxosAcceptMessage, Value
<1>2. m.src \in Acceptors(u)
  BY <1>1 DEF Acceptors, HandleAccept
<1>3. peers \subseteq Acceptors(u)
  BY <1>1, <1>2 DEF Backed, PeersInv
<1>4. CASE m.step = step[n] /\ ~phaseOne[n]
  <2>1. phaseTwoPeers' = [phaseTwoPeers EXCEPT ![n][u] = peers]
    BY <1>4 DEF HandleAccept
  <2>2. \A o \in Node : \A w \in Uid :
            phaseTwoPeers'[o][w] \subseteq phaseTwoPeers[o][w] \cup Acceptors(w)
    <3>1. phaseTwoPeers \in [Node -> [Uid -> SUBSET Node]]
      BY DEF Shape, TypeOK, ProposerTypeOK
    <3> HIDE DEF peers, u
    <3> QED BY <1>1, <1>3, <2>1, <3>1
  <2>3. CASE Decides(peers)
    <3>1. Cardinality(Acceptors(u)) >= PaxosThreshold
      <4>1. Cardinality(peers) <= Cardinality(Acceptors(u))
            /\ IsFiniteSet(peers) /\ IsFiniteSet(Acceptors(u))
        <5> HIDE DEF peers, u
        <5> QED BY <1>3, AcceptorsFinite, FS_Subset
      <4>2. Cardinality(peers) \in Nat /\ Cardinality(Acceptors(u)) \in Nat
        BY <4>1, FS_CardinalityType
      <4> QED BY <2>3, <4>1, <4>2, NodeAssumption DEF Decides
    <3>2. NewBlock(n, m.step, m.val) \in Block
      BY <1>1, <1>4, BlockOnTop
         DEF PaxosAcceptMessage, Shape, TypeOK, StoreTypeOK, ChainLength
    <3>3. r \in Message /\ r.src = n /\ r.block.value.uid = u
      BY <1>1, <3>2 DEF Message, TLCMessage, PaxosAcceptMessage, NewBlock
    <3>4. Broadcast(t, n, r, q)
      BY <1>4, <2>3 DEF HandleAccept
    <3> HIDE DEF r, u
    <3>5. GossipInv' /\ \A o \in Node : rumors[o] \subseteq rumors'[o]
      BY <3>3, <3>4, BroadcastGossip DEF Backed
    <3>6. \A o \in Node : \A x \in rumors'[o] : x \in rumors[o] \/ x = r
      BY <1>1, <3>4, BroadcastAdds
    <3>7. \A o \in Node : \A x \in rumors'[o] :
              x \in rumors[o] \/ Cardinality(Acceptors(x.block.value.uid)) >= PaxosThreshold
      BY <3>1, <3>3, <3>6
    <3> QED BY <2>2, <3>5, <3>7, KeepBacked
  <2>4. CASE ~ Decides(peers)
    <3>1. Finish(t, q)
      BY <1>4, <2>4 DEF HandleAccept
    <3>2. GossipInv' /\ rumors' = rumors
      BY <3>1, FinishGossip DEF Backed
    <3> QED BY <2>2, <3>2, KeepBacked
  <2> QED BY <2>3, <2>4
<1>5. CASE ~ (m.step = step[n] /\ ~phaseOne[n])
  <2>1. Finish(t, q) /\ UNCHANGED phaseTwoPeers
    BY <1>5 DEF HandleAccept
  <2> QED BY <2>1, FinishBacked
<1> QED BY <1>4, <1>5

LEMMA AdvanceBacked ==
    ASSUME Shape, Backed, NEW t \in Thread, NEW m \in TLCMessage, NEW q \in Queues,
           Known(q), m \in rumors[m.src], AdvanceStep(t, NodeOf(t), m, q)
    PROVE  Backed'
<1> DEFINE n == NodeOf(t)
           relayed == [m EXCEPT !.src = n]
<1>1. /\ n \in Node /\ m.src \in Node /\ m.type = "tlc" /\ m \in Message
      /\ UNCHANGED phaseTwoPeers /\ local' = [local EXCEPT ![t] = None]
  BY NodeOfType DEF TLCMessage, Message, AdvanceStep
<1>2. /\ relayed \in Message /\ relayed.src = n
      /\ relayed.block.value.uid = m.block.value.uid
  BY <1>1 DEF TLCMessage, Message
<1>3. Cardinality(Acceptors(m.block.value.uid)) >= PaxosThreshold
  BY <1>1 DEF Backed, DecisionBacked
<1>4. \/ net' = q /\ rumors' = rumors
      \/ net' = Enqueue(q, n, relayed)
         /\ rumors' = [rumors EXCEPT ![n] = @ \cup {relayed}]
  BY DEF AdvanceStep
<1> HIDE DEF relayed
<1>5. /\ \A o \in Node : rumors[o] \subseteq rumors'[o]
      /\ \A o \in Node : \A r \in rumors'[o] : r \in rumors[o] \/ (o = n /\ r = relayed)
  BY <1>1, <1>4 DEF Shape, TypeOK, GossipTypeOK
<1>6. Known(net)'
  <2>1. CASE net' = q /\ rumors' = rumors
    BY <2>1 DEF Known
  <2>2. CASE net' = Enqueue(q, n, relayed)
             /\ rumors' = [rumors EXCEPT ![n] = @ \cup {relayed}]
    <3>1. relayed \in rumors'[n]
      BY <1>1, <2>2 DEF Shape, TypeOK, GossipTypeOK
    <3> QED BY <1>1, <1>2, <1>5, <2>2, <3>1, EnqueueKnown
  <2> QED BY <1>4, <2>1, <2>2
<1>7. \A u \in Thread : local'[u] # None => local'[u] \in rumors'[NodeOf(u)]
  <2>1. \A u \in Thread : local'[u] # None => local'[u] = local[u]
    BY <1>1 DEF Shape, TypeOK, GossipTypeOK
  <2> QED BY <1>5, <2>1, NodeOfType DEF Backed, GossipInv
<1>8. GossipInv'
  BY <1>2, <1>5, <1>6, <1>7 DEF Backed, GossipInv
<1>9. \A o \in Node : \A r \in rumors'[o] :
          r \in rumors[o] \/ Cardinality(Acceptors(r.block.value.uid)) >= PaxosThreshold
  BY <1>2, <1>3, <1>5
<1> QED BY <1>1, <1>5, <1>8, <1>9, KeepBacked

LEMMA HandleBacked ==
    ASSUME Shape, Backed, NEW t \in Thread, NEW m \in Message, NEW q \in Queues,
           Known(q), m \in rumors[m.src], Handle(t, NodeOf(t), m, q)
    PROVE  Backed'
<1> DEFINE n == NodeOf(t)
<1>0. n \in Node /\ Shape
  BY NodeOfType
<1>1. CASE HandlePrepare(t, n, m, q)
  <2> DEFINE p == [type |-> "promise", src |-> n, dest |-> m.src, step |-> step[n],
                   id |-> m.id, accId |-> acceptedId[n], accVal |-> acceptedValue[n]]
  <2>1. Broadcast(t, n, p, q) \/ Finish(t, q)
    BY <1>1 DEF HandlePrepare
  <2>2. UNCHANGED phaseTwoPeers
    BY <1>1 DEF HandlePrepare, proposerVars
  <2>3. p \in Message /\ p.src = n /\ p.type # "tlc"
    BY <1>0, <1>1, MessageKinds DEF HandlePrepare, Message, PaxosPromiseMessage,
       PaxosPrepareMessage, Shape, TypeOK, StepTypeOK, AcceptorTypeOK
  <2> HIDE DEF p
  <2> QED BY <2>1, <2>2, <2>3, BroadcastBacked, FinishBacked
<1>2. CASE HandlePropose(t, n, m, q)
  <2> DEFINE r == [type |-> "accept", src |-> n, step |-> m.step, id |-> m.id,
                   val |-> m.val]
  <2>1. Broadcast(t, n, r, q) \/ Finish(t, q)
    BY <1>2 DEF HandlePropose
  <2>2. UNCHANGED phaseTwoPeers
    BY <1>2 DEF HandlePropose
  <2>3. r \in Message /\ r.src = n /\ r.type # "tlc"
    BY <1>0, <1>2, MessageKinds DEF HandlePropose, Message, PaxosAcceptMessage,
       PaxosProposeMessage
  <2> HIDE DEF r
  <2> QED BY <2>1, <2>2, <2>3, BroadcastBacked, FinishBacked
<1>3. CASE HandlePromise(t, n, m, q)
  BY <1>3, FinishBacked DEF HandlePromise
<1>4. CASE HandleAccept(t, n, m, q)
  BY <1>4, AcceptBacked
<1>5. CASE HandleTLC(t, n, m, q)
  <2>1. m \in TLCMessage
    BY <1>5, MessageKinds DEF HandleTLC
  <2>2. CASE AdvanceStep(t, n, m, q)
    BY <2>1, <2>2, AdvanceBacked
  <2>3. CASE ~ AdvanceStep(t, n, m, q)
    <3>1. Finish(t, q) /\ UNCHANGED phaseTwoPeers
      BY <1>5, <2>3 DEF HandleTLC, StoreTLC, proposerVars
    <3> QED BY <3>1, FinishBacked
  <2> QED BY <2>2, <2>3
<1> QED BY <1>1, <1>2, <1>3, <1>4, <1>5 DEF Handle

LEMMA CallBacked ==
    ASSUME Shape, Backed, NEW c \in Call, CallStep(c)
    PROVE  Backed'
<1>1. /\ c \in Thread /\ NodeOf(c) = CallNode[c] /\ net \in Queues /\ Known(net)
      /\ CallNode[c] \in Node
  BY CallAssumption DEF Thread, NodeOf, Shape, TypeOK, GossipTypeOK, Queues, Backed,
                        GossipInv
<1>2. CASE StartPhaseOne(c)
  <2> DEFINE n == CallNode[c]
             id == IF step[n] = previous[c] THEN paxosId[c] + N ELSE PaxosID[n]
             m == [type |-> "prepare", src |-> n, step |-> step[n], id |-> id]
  <2>1. Broadcast(c, n, m, net) /\ UNCHANGED phaseTwoPeers
    BY <1>2 DEF StartPhaseOne
  <2>2. id \in Number
    BY <1>1, NodeCount, NodeAssumption DEF Shape, TypeOK, CallTypeOK, Number, N
  <2>3. m \in Message /\ m.src = n /\ m.type # "tlc"
    <3> HIDE DEF id
    <3> QED BY <1>1, <2>2 DEF Message, PaxosPrepareMessage, Shape, TypeOK, StepTypeOK
  <2> HIDE DEF m
  <2> QED BY <1>1, <2>1, <2>3, BroadcastBacked
<1>3. CASE Propose(c)
  <2> DEFINE n == CallNode[c]
             v == ValueToPropose(c)
             m == [type |-> "propose", src |-> n, step |-> current[c],
                   id |-> paxosId[c], val |-> v]
  <2>1. v \in Value /\ v.uid \in Uid
    <3>1. v \in Value
      BY <1>3, ValueToProposeType DEF Propose
    <3> HIDE DEF v
    <3> QED BY <3>1 DEF Value
  <2>2. /\ Broadcast(c, n, m, net)
        /\ phaseTwoPeers' = [phaseTwoPeers EXCEPT ![n][v.uid] = {}]
    BY <1>3 DEF Propose
  <2>3. m \in Message /\ m.src = n /\ m.type # "tlc"
    <3> HIDE DEF v
    <3> QED BY <1>1, <1>3, <2>1 DEF Message, PaxosProposeMessage, Number, Propose,
               Shape, TypeOK, CallTypeOK, CallInv
  <2> HIDE DEF m, v
  <2>4. GossipInv' /\ \A o \in Node : rumors[o] \subseteq rumors'[o]
    BY <1>1, <2>2, <2>3, BroadcastGossip DEF Backed
  <2>5. \A o \in Node : \A r \in rumors'[o] : r \in rumors[o] \/ r = m
    BY <1>1, <2>2, BroadcastAdds
  <2>6. \A o \in Node : \A r \in rumors'[o] : r.type = "tlc" => r \in rumors[o]
    BY <2>3, <2>5
  <2>7. \A o \in Node : \A u \in Uid :
            phaseTwoPeers'[o][u] \subseteq phaseTwoPeers[o][u] \cup Acceptors(u)
    BY <1>1, <2>1, <2>2 DEF Shape, TypeOK, ProposerTypeOK
  <2> QED BY <2>4, <2>6, <2>7, KeepBacked
<1>4. CASE CallMoves(c)
  BY <1>4, CallMovesKeep, QuietBacked DEF proposerVars, gossipVars
<1> QED BY <1>2, <1>3, <1>4 DEF CallStep, CallMoves

\* What peers process was broadcast, and what they announce was accepted.
LEMMA BackedInvariant == Spec => []Backed
<1>1. Init => Backed
  BY EmptySeq DEF Init, InitButRumors, Backed, GossipInv, Known, PeersInv, DecisionBacked,
                  Acceptors
<1>2. Shape /\ Backed /\ [Next]_vars => Backed'
  <2> SUFFICES ASSUME Shape, Backed, [Next]_vars PROVE Backed'
    OBVIOUS
  <2>1. ASSUME NEW o \in Node, NEW d \in Node, Receive(o, d) PROVE Backed'
    <3> DEFINE m == Head(net[o][d])
               q == [net EXCEPT ![o][d] = Tail(@)]
    <3>1. m \in Message /\ q \in Queues /\ d \in Thread /\ NodeOf(d) = d
          /\ Handle(d, d, m, q)
      BY <2>1, ReceiveMessage DEF Receive, Shape, TypeOK
    <3>2. net[o][d] \in Seq(Message) /\ net[o][d] # << >>
      BY <2>1 DEF Receive, Shape, TypeOK, GossipTypeOK
    <3>3. /\ m = net[o][d][1] /\ Len(net[o][d]) \in Nat /\ Len(net[o][d]) > 0
          /\ Len(Tail(net[o][d])) = Len(net[o][d]) - 1
          /\ \A i \in 1 .. Len(Tail(net[o][d])) : Tail(net[o][d])[i] = net[o][d][i + 1]
      BY <3>2, HeadTailProperties, LenProperties, EmptySeq
    <3>4. m \in rumors[m.src]
      BY <3>3 DEF Backed, GossipInv, Known
    <3>5. Known(q)
      <4> SUFFICES ASSUME NEW x \in Node, NEW y \in Node, NEW i \in 1 .. Len(q[x][y])
                   PROVE  q[x][y][i] \in rumors[x]
        BY DEF Known
      <4>1. net \in [Node -> [Node -> Seq(Message)]]
        BY DEF Shape, TypeOK, GossipTypeOK
      <4>2. CASE x = o /\ y = d
        <5>1. q[x][y] = Tail(net[o][d])
          BY <4>1, <4>2
        <5>2. i \in 1 .. Len(Tail(net[o][d])) /\ q[x][y][i] = Tail(net[o][d])[i]
          BY <5>1, Zenon
        <5>3. i + 1 \in 1 .. Len(net[o][d]) /\ q[x][y][i] = net[o][d][i + 1]
          <6> HIDE DEF q
          <6> QED BY <3>3, <5>2
        <5> QED BY <4>2, <5>3 DEF Backed, GossipInv, Known
      <4>3. CASE ~ (x = o /\ y = d)
        <5>1. q[x][y] = net[x][y]
          BY <4>1, <4>3
        <5> QED BY <5>1 DEF Backed, GossipInv, Known
      <4> QED BY <4>2, <4>3
    <3> HIDE DEF m, q
    <3> QED BY <3>1, <3>4, <3>5, HandleBacked
  <2>2. ASSUME NEW t \in Thread, ProcessLocal(t) PROVE Backed'
    <3>1. /\ local[t] \in Message /\ NodeOf(t) \in Node /\ net \in Queues
          /\ Handle(t, NodeOf(t), local[t], net)
      BY <2>2, LocalMessage DEF ProcessLocal, Shape, TypeOK
    <3>2. local[t] \in rumors[local[t].src] /\ Known(net)
      BY <2>2, <3>1 DEF ProcessLocal, Backed, GossipInv
    <3> QED BY <3>1, <3>2, HandleBacked
  <2>3. ASSUME NEW c \in Call, CallStep(c) PROVE Backed'
    BY <2>3, CallBacked
  <2>4. CASE UNCHANGED vars
    BY <2>4, QuietBacked DEF vars, proposerVars, gossipVars
  <2> QED BY <2>1, <2>2, <2>3, <2>4 DEF Next
<1> QED BY <1>1, <1>2, ShapeInvariant, PTL DEF Spec

\* Whatever a peer announces or relays was accepted by a threshold of distinct
\* peers: duplicates, races between calls and relays add no false decision.
THEOREM DecisionsBacked == Spec => []DecisionBacked
BY BackedInvariant, PTL DEF Backed

-----------------------------------------------------------------------------
(* Replaying the blockchain                                                *)

\* What the replay does with one block.
ReplayBlock(names, b) ==
    [x \in Name |-> IF x = b.value.name THEN b.value.meta
                    ELSE IF b.value.kind = "user" /\ x = b.value.old THEN None
                    ELSE names[x]]

\* f holds the naming store after each of the first k blocks of c.
ReplayUpTo(c, k, f) ==
    f = [i \in 0 .. k |-> IF i = 0 THEN [x \in Name |-> None]
                          ELSE ReplayBlock(f[i - 1], c[i])]

\* NamingAfter the first k blocks of bs.
NamingUpTo(names, bs, k) ==
    [x \in Name |->
        LET I == {i \in 1 .. k : bs[i].value.name = x \/ Renames(bs[i], x)}
        IN IF I = {} THEN names[x]
           ELSE IF bs[LastIn(I)].value.name = x THEN bs[LastIn(I)].value.meta
           ELSE None]

\* The recursive function of Replay exists, by a least length that has none.
LEMMA ReplayExists ==
    ASSUME NEW c, NEW k \in Nat
    PROVE  \E f : ReplayUpTo(c, k, f)
<1> DEFINE S == {j \in 0 .. k : ~ \E f : ReplayUpTo(c, j, f)}
<1> SUFFICES ASSUME S # {} PROVE FALSE
  OBVIOUS
<1>1. PICK j \in S : \A i \in S : j <= i
  BY FirstExists
<1>2. j # 0
  <2> DEFINE f == [i \in 0 .. 0 |-> [x \in Name |-> None]]
  <2>1. ReplayUpTo(c, 0, f)
    BY DEF ReplayUpTo
  <2> QED BY <2>1
<1>3. j \in Nat /\ j - 1 \in 0 .. k /\ j - 1 \notin S
  <2>1. j \in 0 .. k
    OBVIOUS
  <2> HIDE DEF S
  <2> QED BY <1>1, <1>2, <2>1
<1>4. PICK f : ReplayUpTo(c, j - 1, f)
  BY <1>3
<1> DEFINE e(h, i) == IF i = 0 THEN [x \in Name |-> None] ELSE ReplayBlock(h[i - 1], c[i])
           g == [i \in 0 .. j |-> IF i < j THEN f[i] ELSE ReplayBlock(f[j - 1], c[j])]
<1>5. \A i \in 0 .. j - 1 : f[i] = e(f, i)
  BY <1>3, <1>4 DEF ReplayUpTo
<1>6. \A i \in 0 .. j : g[i] = e(g, i)
  <2> HIDE DEF S
  <2> TAKE i \in 0 .. j
  <2>1. CASE i < j
    <3>1. g[i] = e(f, i)
      <4> HIDE DEF e
      <4> QED BY <1>3, <1>5, <2>1
    <3>2. i # 0 => g[i - 1] = f[i - 1]
      BY <1>3, <2>1
    <3> QED BY <3>1, <3>2
  <2>2. CASE i = j
    <3>1. g[j] = ReplayBlock(f[j - 1], c[j]) /\ g[j - 1] = f[j - 1]
      BY <1>2, <1>3
    <3> QED BY <1>2, <2>2, <3>1
  <2> QED BY <1>3, <2>1, <2>2
<1>7. g = [i \in 0 .. j |-> e(g, i)]
  <2>1. g = [i \in 0 .. j |-> g[i]]
    OBVIOUS
  <2> HIDE DEF e, g
  <2> QED BY <1>6, <2>1
<1>8. ReplayUpTo(c, j, g)
  <2> HIDE DEF g
  <2> QED BY <1>7 DEF ReplayUpTo
<1> QED BY <1>8

\* Chains with the same first blocks are replayed to the same store.
LEMMA ReplaySame ==
    ASSUME NEW c, NEW d, NEW k \in Nat, NEW l \in Nat, NEW f, NEW g,
           ReplayUpTo(c, k, f), ReplayUpTo(d, l, g), k <= l,
           \A i \in 1 .. k : c[i] = d[i]
    PROVE  f[k] = g[k]
<1> DEFINE S == {j \in 0 .. k : f[j] # g[j]}
<1> SUFFICES ASSUME S # {} PROVE FALSE
  OBVIOUS
<1>1. PICK j \in S : \A i \in S : j <= i
  BY FirstExists
<1>2. /\ \A i \in 0 .. k : f[i] = IF i = 0 THEN [x \in Name |-> None]
                                  ELSE ReplayBlock(f[i - 1], c[i])
      /\ \A i \in 0 .. l : g[i] = IF i = 0 THEN [x \in Name |-> None]
                                  ELSE ReplayBlock(g[i - 1], d[i])
  BY DEF ReplayUpTo
<1>3. j \in 0 .. k /\ j \in 0 .. l /\ f[j] # g[j]
  OBVIOUS
<1>4. CASE j = 0
  BY <1>2, <1>3, <1>4
<1>5. CASE j # 0
  <2>1. j - 1 \in 0 .. k /\ j - 1 \notin S /\ j \in 1 .. k
    <3> HIDE DEF S
    <3> QED BY <1>1, <1>3, <1>5
  <2>2. f[j - 1] = g[j - 1]
    BY <2>1
  <2> HIDE DEF S
  <2>3. f[j] = ReplayBlock(f[j - 1], c[j]) /\ g[j] = ReplayBlock(g[j - 1], d[j])
    BY <1>2, <1>3, <1>5
  <2> QED BY <1>3, <2>1, <2>2, <2>3
<1> QED BY <1>4, <1>5

LEMMA ReplayIs ==
    ASSUME NEW c \in Seq(Block), NEW f, ReplayUpTo(c, Len(c), f)
    PROVE  Replay(c) = f[Len(c)]
<1> DEFINE g == CHOOSE h : ReplayUpTo(c, Len(c), h)
<1>1. Replay(c) = g[Len(c)]
  BY DEF Replay, ReplayUpTo, ReplayBlock
<1>2. ReplayUpTo(c, Len(c), g)
  <2> HIDE DEF g
  <2>1. \E h : ReplayUpTo(c, Len(c), h)
    OBVIOUS
  <2> QED BY <2>1 DEF g
<1>3. Len(c) \in Nat
  BY LenProperties
<1> HIDE DEF g
<1>4. g[Len(c)] = f[Len(c)]
  BY <1>2, <1>3, ReplaySame
<1> QED BY <1>1, <1>4

\* One block more: it decides for the names it touches.
LEMMA NamingUpToNext ==
    ASSUME NEW names, NEW bs, NEW k \in Nat
    PROVE  NamingUpTo(names, bs, k + 1) = ReplayBlock(NamingUpTo(names, bs, k), bs[k + 1])
<1> DEFINE J(x) == {i \in 1 .. k : bs[i].value.name = x \/ Renames(bs[i], x)}
           I(x) == {i \in 1 .. k + 1 : bs[i].value.name = x \/ Renames(bs[i], x)}
           Of(K, x) == IF K = {} THEN names[x]
                       ELSE IF bs[LastIn(K)].value.name = x THEN bs[LastIn(K)].value.meta
                       ELSE None
<1>1. /\ NamingUpTo(names, bs, k) = [x \in Name |-> Of(J(x), x)]
      /\ NamingUpTo(names, bs, k + 1) = [x \in Name |-> Of(I(x), x)]
  BY DEF NamingUpTo
<1>2. ASSUME NEW x \in Name
      PROVE  Of(I(x), x) = IF x = bs[k + 1].value.name THEN bs[k + 1].value.meta
                           ELSE IF Renames(bs[k + 1], x) THEN None ELSE Of(J(x), x)
  <2>1. CASE bs[k + 1].value.name = x \/ Renames(bs[k + 1], x)
    <3>1. k + 1 \in I(x) /\ I(x) \in SUBSET (0 .. k + 1)
      BY <2>1
    <3>2. IsFiniteSet(0 .. k + 1) /\ 0 .. k + 1 \in SUBSET Nat
      BY FS_Interval
    <3>3. LastIn(I(x)) \in I(x) /\ k + 1 <= LastIn(I(x))
      <4>1. IsFiniteSet(I(x)) /\ I(x) \in SUBSET Nat /\ I(x) # {}
        <5> HIDE DEF I
        <5> QED BY <3>1, <3>2, FS_Subset
      <4> HIDE DEF I
      <4> QED BY <3>1, <4>1, LastExists
    <3>4. LastIn(I(x)) = k + 1
      BY <3>3
    <3>5. I(x) # {}
      BY <3>1
    <3>6. Of(I(x), x) = IF bs[k + 1].value.name = x THEN bs[k + 1].value.meta ELSE None
      <4> HIDE DEF I
      <4> QED BY <3>4, <3>5
    <3> HIDE DEF I, J, Of
    <3> QED BY <2>1, <3>6
  <2>2. CASE ~ (bs[k + 1].value.name = x \/ Renames(bs[k + 1], x))
    <3>1. I(x) = J(x)
      BY <2>2
    <3> HIDE DEF I, J, Of
    <3> QED BY <2>2, <3>1
  <2> QED BY <2>1, <2>2
<1>3. ReplayBlock(NamingUpTo(names, bs, k), bs[k + 1])
          = [x \in Name |-> IF x = bs[k + 1].value.name THEN bs[k + 1].value.meta
                            ELSE IF Renames(bs[k + 1], x) THEN None ELSE Of(J(x), x)]
  <2> HIDE DEF Of, J
  <2> QED BY <1>1 DEF ReplayBlock, Renames
<1> HIDE DEF Of, I, J
<1> QED BY <1>1, <1>2, <1>3

\* Appending blocks changes the replayed store the way NamingAfter says.
LEMMA ReplayConcat ==
    ASSUME NEW c \in Seq(Block), NEW bs \in Seq(Block)
    PROVE  Replay(c \o bs) = NamingAfter(Replay(c), bs)
<1> DEFINE d == c \o bs
           n == Len(c)
<1>1. /\ d \in Seq(Block) /\ n \in Nat /\ Len(bs) \in Nat
      /\ Len(d) = n + Len(bs) /\ Len(d) \in Nat
      /\ \A i \in 1 .. n : c[i] = d[i]
      /\ \A i \in 1 .. Len(bs) : d[n + i] = bs[i]
  <2>1. /\ d \in Seq(Block) /\ n \in Nat /\ Len(bs) \in Nat /\ Len(d) = n + Len(bs)
        /\ \A i \in 1 .. n + Len(bs) : d[i] = IF i <= n THEN c[i] ELSE bs[i - n]
    BY ConcatProperties, LenProperties
  <2>2. n + Len(bs) \in Nat
    BY <2>1
  <2> HIDE DEF d, n
  <2> QED BY <2>1, <2>2
<1>2. PICK f : ReplayUpTo(c, n, f)
  BY <1>1, ReplayExists
<1>3. PICK g : ReplayUpTo(d, Len(d), g)
  <2> HIDE DEF d, n
  <2> QED BY <1>1, ReplayExists
<1> HIDE DEF d
<1>4. Replay(c) = f[n] /\ Replay(d) = g[Len(d)] /\ f[n] = g[n]
  <2>1. Replay(c) = f[n]
    BY <1>2, ReplayIs
  <2>2. Replay(d) = g[Len(d)]
    BY <1>1, <1>3, ReplayIs
  <2> HIDE DEF n
  <2>3. f[n] = g[n]
    BY <1>1, <1>2, <1>3, ReplaySame
  <2> QED BY <2>1, <2>2, <2>3
<1> HIDE DEF n
<1>5. \A i \in 1 .. Len(d) : g[i] = ReplayBlock(g[i - 1], d[i])
  <2>1. \A i \in 0 .. Len(d) : g[i] = IF i = 0 THEN [x \in Name |-> None]
                                    ELSE ReplayBlock(g[i - 1], d[i])
    BY <1>3 DEF ReplayUpTo
  <2> TAKE i \in 1 .. Len(d)
  <2>2. i \in 0 .. Len(d) /\ i # 0
    BY <1>1
  <2> QED BY <2>1, <2>2
<1> DEFINE S == {k \in 0 .. Len(bs) : g[n + k] # NamingUpTo(g[n], bs, k)}
<1>6. S = {}
  <2> SUFFICES ASSUME S # {} PROVE FALSE
    OBVIOUS
  <2>1. PICK k \in S : \A i \in S : k <= i
    BY <1>1, FirstExists
  <2>2. k \in 0 .. Len(bs) /\ g[n + k] # NamingUpTo(g[n], bs, k)
    OBVIOUS
  <2>3. CASE k = 0
    <3>1. g[n] = [x \in Name |-> g[n][x]]
      <4>1. g[n] = [x \in Name |-> None] \/ \E names, b : g[n] = ReplayBlock(names, b)
        <5>1. n \in 0 .. Len(d)
          BY <1>1
        <5> QED BY <1>3, <5>1 DEF ReplayUpTo
      <4> QED BY <4>1 DEF ReplayBlock
    <3>2. NamingUpTo(g[n], bs, 0) = [x \in Name |-> g[n][x]]
      <4>1. \A x : {i \in 1 .. 0 : bs[i].value.name = x \/ Renames(bs[i], x)} = {}
        OBVIOUS
      <4> HIDE DEF S
      <4> QED BY <4>1, Zenon DEF NamingUpTo
    <3> QED BY <1>1, <2>2, <2>3, <3>1, <3>2
  <2>4. CASE k # 0
    <3>1. k - 1 \in 0 .. Len(bs) /\ k - 1 \in Nat /\ k - 1 \notin S
      <4> HIDE DEF S
      <4> QED BY <1>1, <2>1, <2>2, <2>4
    <3>2. g[n + (k - 1)] = NamingUpTo(g[n], bs, k - 1)
      BY <3>1
    <3> HIDE DEF S
    <3>3. NamingUpTo(g[n], bs, (k - 1) + 1)
              = ReplayBlock(NamingUpTo(g[n], bs, k - 1), bs[(k - 1) + 1])
      BY <3>1, NamingUpToNext
    <3>4. (k - 1) + 1 = k /\ n + k - 1 = n + (k - 1) /\ n + k \in 1 .. Len(d)
          /\ k \in 1 .. Len(bs)
      BY <1>1, <2>2, <2>4
    <3>5. g[n + k] = ReplayBlock(g[n + (k - 1)], bs[k])
      BY <1>1, <1>5, <3>4
    <3> QED BY <2>2, <3>2, <3>3, <3>4, <3>5
  <2> QED BY <2>3, <2>4
<1>7. g[n + Len(bs)] = NamingUpTo(g[n], bs, Len(bs))
  BY <1>1, <1>6
<1>8. NamingUpTo(g[n], bs, Len(bs)) = NamingAfter(g[n], bs)
  <2>1. DOMAIN bs = 1 .. Len(bs)
    BY LenProperties
  <2> QED BY <2>1 DEF NamingUpTo, NamingAfter
<1> QED BY <1>1, <1>4, <1>7, <1>8 DEF d

\* The naming store of every node is what its blockchain gives when it is
\* replayed block by block, whatever number of blocks catching up appends at a
\* time (NamingReplays).
THEOREM NamingFollowsChain == Spec => []NamingReplays
<1>1. Init => NamingReplays
  <2> SUFFICES ASSUME Init, NEW n \in Node PROVE naming[n] = Replay(chain[n])
    BY DEF NamingReplays
  <2>1. chain[n] = << >> /\ naming[n] = [x \in Name |-> None]
    BY DEF Init, InitButRumors
  <2> DEFINE f == [i \in 0 .. 0 |-> [x \in Name |-> None]]
  <2>2. << >> \in Seq(Block) /\ Len(<< >>) = 0
    OBVIOUS
  <2>3. ReplayUpTo(<< >>, 0, f)
    BY DEF ReplayUpTo
  <2>4. Replay(<< >>) = f[0]
    <3> HIDE DEF f
    <3> QED BY <2>2, <2>3, ReplayIs
  <2> QED BY <2>1, <2>4
<1>2. ASSUME Shape, NamingReplays, [Next]_vars PROVE NamingReplays'
  <2>1. CASE UNCHANGED <<chain, naming>>
    BY <1>2, <2>1 DEF NamingReplays
  <2>2. ASSUME NEW t \in Thread, NEW n \in Node, NEW m \in Message, NEW q,
               AdvanceStep(t, n, m, q), m.type = "tlc"
        PROVE  NamingReplays'
    <3> DEFINE blocks == CommittedBlocks(n, m, CatchUpStep(n, step[n]))
    <3>1. blocks \in Seq(Block)
      BY <1>2, <2>2, MessageKinds, CommittedBlocksType DEF AdvanceStep, Shape, TypeOK
    <3>2. /\ chain' = [chain EXCEPT ![n] = @ \o blocks]
          /\ naming' = [naming EXCEPT ![n] = NamingAfter(@, blocks)]
      BY <2>2 DEF AdvanceStep
    <3>3. chain \in [Node -> Seq(Block)] /\ naming \in [Node -> [Name -> Node \cup Call \cup {None}]]
      BY <1>2 DEF Shape, TypeOK, StoreTypeOK
    <3> HIDE DEF blocks
    <3>4. Replay(chain[n] \o blocks) = NamingAfter(Replay(chain[n]), blocks)
      BY <3>1, <3>3, ReplayConcat
    <3> SUFFICES ASSUME NEW o \in Node PROVE naming'[o] = Replay(chain'[o])
      BY Zenon DEF NamingReplays
    <3>5. CASE o = n
      BY <1>2, <3>2, <3>3, <3>4, <3>5 DEF NamingReplays
    <3>6. CASE o # n
      BY <1>2, <3>2, <3>3, <3>6 DEF NamingReplays
    <3> QED BY <3>5, <3>6
  <2>3. ASSUME NEW t \in Thread, NEW n \in Node, NEW m \in Message, NEW q, Handle(t, n, m, q)
        PROVE  NamingReplays'
    BY <2>1, <2>2, <2>3
       DEF Handle, HandlePrepare, HandlePropose, HandlePromise, HandleAccept, HandleTLC,
           StoreTLC, storeVars
  <2>4. ASSUME NEW o \in Node, NEW d \in Node, Receive(o, d) PROVE NamingReplays'
    BY <1>2, <2>3, <2>4, ReceiveMessage DEF Receive, Shape, TypeOK
  <2>5. ASSUME NEW t \in Thread, ProcessLocal(t) PROVE NamingReplays'
    BY <1>2, <2>3, <2>5, LocalMessage DEF ProcessLocal, Shape, TypeOK
  <2>6. ASSUME NEW c \in Call, CallStep(c) PROVE NamingReplays'
    BY <2>1, <2>6
       DEF CallStep, BeginCall, CheckName, StartPhaseOne, Timeout, Propose, Accepted, Return,
           storeVars
  <2>7. CASE UNCHANGED vars
    BY <2>1, <2>7 DEF vars, storeVars
  <2> QED BY <1>2, <2>4, <2>5, <2>6, <2>7 DEF Next
<1> QED BY <1>1, <1>2, ShapeInvariant, PTL DEF Spec

-----------------------------------------------------------------------------
(* Where values and blocks come from                                       *)

\* The iteration that the identifier names has got as far as its proposal.
Used(u) == u[2] <= attempt[u[1]] /\ (pc[u[1]] = "p1" => u[2] < attempt[u[1]])

\* A node has left s steps, and none of them with this identifier.
NewAt(u, s) ==
    \E o \in Node : s <= Len(chain[o]) /\ \A i \in 1 .. s : chain[o][i].value.uid # u

\* The value is the one its call asked for.
Genuine(v) ==
    LET c == v.uid[1] IN
    /\ v.kind = CallKind[c] /\ v.old = oldName[c] /\ v.name = CallName[c]
    /\ v.meta = IF CallKind[c] = "user" THEN CallNode[c] ELSE c

\* A call has proposed the identifier at step s, or a peer has announced it.
ProposedAt(u, s) ==
    \E o \in Node : \E r \in rumors[o] : r.type = "propose" /\ r.val.uid = u /\ r.step = s
Announced(blk, s) ==
    \E o \in Node : \E r \in rumors[o] : r.type = "tlc" /\ r.block = blk /\ r.step = s

ValueAt(v, s) ==
    Used(v.uid) /\ NewAt(v.uid, s) /\ Genuine(v) /\ ProposedAt(v.uid, s)

\* The block continues the blockchain of some node, of s blocks.
OnTop(blk, s) ==
    /\ blk.index = s
    /\ s = 0 => blk.prev = ZeroHash
    /\ s # 0 => \E o \in Node : s <= Len(chain[o]) /\ blk.prev = HashOf(chain[o][s])

BlockAt(blk, s) == ValueAt(blk.value, s) /\ OnTop(blk, s)
StoredAt(blk, s) == BlockAt(blk, s) /\ Announced(blk, s)

SoundMessage(m) ==
    /\ m.type \in {"propose", "accept"} => ValueAt(m.val, m.step)
    /\ (m.type = "promise" /\ m.accVal # None) => ValueAt(m.accVal, m.step)
    /\ m.type = "tlc" => BlockAt(m.block, m.step)

RumorsSound == \A n \in Node : \A m \in rumors[n] : SoundMessage(m)
MemorySound ==
    \A n \in Node :
        /\ acceptedValue[n] # None => ValueAt(acceptedValue[n], step[n])
        /\ highestAcceptedValue[n] # None => ValueAt(highestAcceptedValue[n], step[n])
StoredSound ==
    \A n \in Node, s \in Steps : \A i \in 1 .. Len(tlc[n][s]) : StoredAt(tlc[n][s][i], s)
ChainSound == \A n \in Node : \A i \in 1 .. Len(chain[n]) : StoredAt(chain[n][i], i - 1)
CurrentPast == \A c \in Call : current[c] <= step[CallNode[c]]
IdleNew == \A c \in Call : pc[c] = "idle" => attempt[c] = 0

Sound ==
    RumorsSound /\ MemorySound /\ StoredSound /\ ChainSound /\ CurrentPast /\ IdleNew

\* What every step does: blockchains grow at their end, rumors stay, and
\* iterations go on, with the old name read at the beginning of the call.
Grows ==
    /\ \A n \in Node : /\ Len(chain[n]) <= Len(chain'[n])
                       /\ \A i \in 1 .. Len(chain[n]) : chain'[n][i] = chain[n][i]
                       /\ rumors[n] \subseteq rumors'[n]
    /\ \A c \in Call : /\ attempt[c] <= attempt'[c]
                       /\ pc'[c] = "p1" => pc[c] = "p1" \/ attempt[c] < attempt'[c]
                       /\ attempt[c] > 0 => oldName'[c] = oldName[c]
                       /\ pc'[c] = "idle" => pc[c] = "idle" /\ attempt'[c] = attempt[c]

LEMMA ValuesKept ==
    ASSUME Shape, Shape', Grows, NEW v \in Value, NEW s \in Steps, ValueAt(v, s)
    PROVE  ValueAt(v, s)'
<1>1. v.uid \in Call \X (1 .. MaxAttempt) /\ v.uid[1] \in Call /\ v.uid[2] \in Nat
  BY BoundAssumption DEF Value, Uid
<1>2. \A c \in Call : attempt[c] \in Nat /\ attempt'[c] \in Nat
  BY BoundAssumption DEF Shape, TypeOK, CallTypeOK
<1>3. \A n \in Node : Len(chain[n]) \in Nat /\ Len(chain'[n]) \in Nat
  BY LenProperties DEF Shape, TypeOK, StoreTypeOK
<1>4. s \in Nat
  BY DEF Steps
<1>5. Used(v.uid)'
  BY <1>1, <1>2 DEF ValueAt, Used, Grows
<1>6. NewAt(v.uid, s)'
  <2>1. PICK o \in Node : s <= Len(chain[o]) /\ \A i \in 1 .. s : chain[o][i].value.uid # v.uid
    BY DEF ValueAt, NewAt
  <2>2. s <= Len(chain'[o]) /\ \A i \in 1 .. s : chain'[o][i].value.uid # v.uid
    BY <1>3, <1>4, <2>1 DEF Grows
  <2> QED BY <2>2 DEF NewAt
<1>7. Genuine(v)'
  <2>1. attempt[v.uid[1]] > 0
    <3>1. v.uid[2] >= 1 /\ v.uid[2] <= attempt[v.uid[1]]
      BY <1>1, BoundAssumption DEF ValueAt, Used
    <3> QED BY <1>1, <1>2, <3>1
  <2>2. oldName'[v.uid[1]] = oldName[v.uid[1]]
    BY <1>1, <2>1 DEF Grows
  <2> QED BY <2>2 DEF ValueAt, Genuine
<1>8. ProposedAt(v.uid, s)'
  BY DEF ValueAt, ProposedAt, Grows
<1> QED BY <1>5, <1>6, <1>7, <1>8 DEF ValueAt

LEMMA BlocksKept ==
    ASSUME Shape, Shape', Grows, NEW blk \in Block, NEW s \in Steps, BlockAt(blk, s)
    PROVE  BlockAt(blk, s)'
<1>1. ValueAt(blk.value, s)'
  BY ValuesKept DEF BlockAt, Block
<1>2. OnTop(blk, s)'
  <2>1. CASE s = 0
    BY <2>1 DEF BlockAt, OnTop
  <2>2. CASE s # 0
    <3>1. PICK o \in Node : s <= Len(chain[o]) /\ blk.prev = HashOf(chain[o][s])
      BY <2>2 DEF BlockAt, OnTop
    <3>2. Len(chain[o]) \in Nat /\ Len(chain'[o]) \in Nat /\ s \in Nat
      BY LenProperties DEF Shape, TypeOK, StoreTypeOK, Steps
    <3>3. s <= Len(chain'[o]) /\ chain'[o][s] = chain[o][s]
      BY <2>2, <3>1, <3>2 DEF Grows
    <3>4. blk.index = s
      BY DEF BlockAt, OnTop
    <3>5. blk.prev = HashOf(chain'[o][s])
      BY <3>1, <3>3
    <3> QED BY <2>2, <3>3, <3>4, <3>5 DEF OnTop, HashOf
  <2> QED BY <2>1, <2>2
<1> QED BY <1>1, <1>2 DEF BlockAt

LEMMA StoredKept ==
    ASSUME Shape, Shape', Grows, NEW blk \in Block, NEW s \in Steps, StoredAt(blk, s)
    PROVE  StoredAt(blk, s)'
<1>1. Announced(blk, s)'
  BY DEF StoredAt, Announced, Grows
<1> QED BY <1>1, BlocksKept DEF StoredAt

LEMMA MessagesKept ==
    ASSUME Shape, Shape', Grows, NEW m \in Message, SoundMessage(m)
    PROVE  SoundMessage(m)'
<1>1. m.type \in {"propose", "accept"} => m.val \in Value
  BY MessageKinds DEF PaxosProposeMessage, PaxosAcceptMessage
<1>2. m.type = "promise" => m.accVal \in Value \cup {None}
  BY MessageKinds DEF PaxosPromiseMessage
<1>3. m.type = "tlc" => m.block \in Block
  BY MessageKinds DEF TLCMessage
<1>4. m.step \in Steps
  BY MessageKinds
<1>5. m.type \in {"propose", "accept"} => ValueAt(m.val, m.step)'
  BY <1>1, <1>4, ValuesKept DEF SoundMessage
<1>6. (m.type = "promise" /\ m.accVal # None) => ValueAt(m.accVal, m.step)'
  BY <1>2, <1>4, ValuesKept DEF SoundMessage
<1>7. m.type = "tlc" => BlockAt(m.block, m.step)'
  BY <1>3, <1>4, BlocksKept DEF SoundMessage
<1> QED BY <1>5, <1>6, <1>7 DEF SoundMessage

\* A step keeps the invariant if what it adds was sound before.
LEMMA KeepSound ==
    ASSUME Shape, Shape', Sound, Grows,
           \A n \in Node : \A m \in rumors'[n] : m \in rumors[n] \/ SoundMessage(m)',
           \A n \in Node, v \in Value, s \in Steps :
               (v \in {acceptedValue'[n], highestAcceptedValue'[n]} /\ step'[n] = s) =>
                   \/ v \in {acceptedValue[n], highestAcceptedValue[n]} /\ step[n] = s
                   \/ ValueAt(v, s),
           \A n \in Node, s \in Steps, blk \in Block : \A i \in 1 .. Len(tlc'[n][s]) :
               tlc'[n][s][i] = blk =>
                   (i \in 1 .. Len(tlc[n][s]) /\ tlc[n][s][i] = blk) \/ StoredAt(blk, s),
           \A n \in Node, blk \in Block : \A i \in 1 .. Len(chain'[n]) :
               chain'[n][i] = blk =>
                   \/ i \in 1 .. Len(chain[n]) /\ chain[n][i] = blk
                   \/ i - 1 \in Steps /\ StoredAt(blk, i - 1),
           \A c \in Call : current'[c] <= step'[CallNode[c]]
    PROVE  Sound'
<1>1. RumorsSound'
  <2> SUFFICES ASSUME NEW n \in Node, NEW m \in rumors'[n] PROVE SoundMessage(m)'
    BY DEF RumorsSound
  <2>1. CASE m \in rumors[n]
    <3>1. m \in Message /\ SoundMessage(m)
      BY <2>1 DEF Sound, RumorsSound, Shape, TypeOK, GossipTypeOK
    <3> QED BY <3>1, MessagesKept
  <2> QED BY <2>1
<1>2. MemorySound'
  <2>1. ASSUME NEW n \in Node, NEW v \in Value, v \in {acceptedValue'[n], highestAcceptedValue'[n]}
        PROVE  \A s \in Steps : step'[n] = s => ValueAt(v, s)'
    <3> SUFFICES ASSUME NEW s \in Steps, step'[n] = s PROVE ValueAt(v, s)'
      OBVIOUS
    <3>1. v # None
      BY NoneAssumption
    <3>2. ValueAt(v, s)
      BY <2>1, <3>1 DEF Sound, MemorySound
    <3> QED BY <3>2, ValuesKept
  <2>2. \A n \in Node : /\ step'[n] \in Steps /\ acceptedValue'[n] \in Value \cup {None}
                        /\ highestAcceptedValue'[n] \in Value \cup {None}
    BY DEF Shape, TypeOK, StepTypeOK, AcceptorTypeOK, ProposerTypeOK
  <2> QED BY <2>1, <2>2 DEF MemorySound
<1>3. StoredSound'
  <2> SUFFICES ASSUME NEW n \in Node, NEW s \in Steps, NEW i \in 1 .. Len(tlc'[n][s])
               PROVE  StoredAt(tlc[n][s][i], s)'
    BY DEF StoredSound
  <2>1. tlc'[n][s][i] \in Block
    <3>1. tlc'[n][s] \in Seq(Block)
      BY DEF Shape, TypeOK, StepTypeOK
    <3> QED BY <3>1, ElementOfSeq
  <2>2. PICK blk \in Block : blk = tlc'[n][s][i]
    BY <2>1
  <2>3. StoredAt(blk, s)
    BY <2>2 DEF Sound, StoredSound
  <2>4. StoredAt(blk, s)'
    BY <2>3, StoredKept
  <2> QED BY <2>2, <2>4
<1>4. ChainSound'
  <2> SUFFICES ASSUME NEW n \in Node, NEW i \in 1 .. Len(chain'[n])
               PROVE  StoredAt(chain[n][i], i - 1)'
    BY DEF ChainSound
  <2>1. chain'[n] \in Seq(Block) /\ Len(chain'[n]) \in Nat /\ Len(chain'[n]) \in Steps
    BY LenProperties DEF Shape, TypeOK, StoreTypeOK, StepTypeOK, ChainLength
  <2>2. i - 1 \in Steps
    BY <2>1, BoundAssumption DEF Steps
  <2>3. PICK blk \in Block : blk = chain'[n][i]
    BY <2>1, ElementOfSeq
  <2>4. StoredAt(blk, i - 1)
    BY <2>3 DEF Sound, ChainSound
  <2>5. StoredAt(blk, i - 1)'
    BY <2>2, <2>4, StoredKept
  <2> QED BY <2>3, <2>5
<1>5. CurrentPast'
  BY DEF CurrentPast
<1>6. IdleNew'
  BY DEF Sound, IdleNew, Grows
<1> QED BY <1>1, <1>2, <1>3, <1>4, <1>5, <1>6 DEF Sound

\* The same for a step that leaves the clock and the blockchains as they are.
LEMMA QuietSound ==
    ASSUME Shape, Shape', Sound, Grows, UNCHANGED <<step, tlc, chain, current>>,
           \A n \in Node : \A m \in rumors'[n] : m \in rumors[n] \/ SoundMessage(m)',
           \A n \in Node, v \in Value :
               v \in {acceptedValue'[n], highestAcceptedValue'[n]} =>
                   \/ v \in {acceptedValue[n], highestAcceptedValue[n]}
                   \/ ValueAt(v, step[n])
    PROVE  Sound'
<1>1. \A c \in Call : current'[c] <= step'[CallNode[c]]
  BY DEF Sound, CurrentPast
<1> QED BY <1>1, KeepSound

\* What a broadcast adds to the rumors is its message.
LEMMA BroadcastSound ==
    ASSUME Shape, Shape', NEW t, NEW n \in Node, NEW m \in Message, NEW q,
           Broadcast(t, n, m, q), SoundMessage(m), Grows
    PROVE  \A o \in Node : \A r \in rumors'[o] : r \in rumors[o] \/ SoundMessage(r)'
BY BroadcastAdds, MessagesKept

LEMMA BroadcastKeeps ==
    ASSUME Shape, NEW t, NEW n \in Node, NEW m, NEW q, Broadcast(t, n, m, q)
    PROVE  \A o \in Node : rumors[o] \subseteq rumors'[o]
BY DEF Broadcast, Shape, TypeOK, GossipTypeOK

\* A main loop and a thread that processes its own message do not act on calls.
LEMMA HandleKeeps ==
    ASSUME Shape, NEW t, NEW n \in Node, NEW m, NEW q, Handle(t, n, m, q)
    PROVE  /\ UNCHANGED <<attempt, pc, oldName, current>>
           /\ \A o \in Node : rumors[o] \subseteq rumors'[o]
           /\ chain' = chain \/ (HandleTLC(t, n, m, q) /\ AdvanceStep(t, n, m, q))
<1>1. CASE HandlePrepare(t, n, m, q)
  BY <1>1, BroadcastKeeps DEF HandlePrepare, Finish, callVars, loopVars, storeVars
<1>2. CASE HandlePropose(t, n, m, q)
  BY <1>2, BroadcastKeeps DEF HandlePropose, Finish, callVars, loopVars, storeVars
<1>3. CASE HandlePromise(t, n, m, q)
  BY <1>3 DEF HandlePromise, Finish, loopVars, storeVars
<1>4. CASE HandleAccept(t, n, m, q)
  <2>1. UNCHANGED <<attempt, pc, oldName, current, chain>>
    BY <1>4 DEF HandleAccept, loopVars, storeVars
  <2>2. \A o \in Node : rumors[o] \subseteq rumors'[o]
    <3>1. \/ Finish(t, q)
          \/ Broadcast(t, n, [type |-> "tlc", src |-> n, step |-> m.step,
                              block |-> NewBlock(n, m.step, m.val)], q)
      BY <1>4 DEF HandleAccept
    <3> QED BY <3>1, BroadcastKeeps DEF Finish
  <2> QED BY <2>1, <2>2
<1>5. CASE HandleTLC(t, n, m, q)
  <2>1. UNCHANGED <<attempt, pc, oldName, current>>
    BY <1>5 DEF HandleTLC, callVars, loopVars
  <2>2. CASE AdvanceStep(t, n, m, q)
    <3>1. \A o \in Node : rumors[o] \subseteq rumors'[o]
      BY <2>2 DEF AdvanceStep, Shape, TypeOK, GossipTypeOK
    <3> QED BY <1>5, <2>1, <2>2, <3>1
  <2>3. CASE ~ AdvanceStep(t, n, m, q)
    BY <1>5, <2>1, <2>3 DEF HandleTLC, StoreTLC, Finish, storeVars
  <2> QED BY <2>2, <2>3
<1> QED BY <1>1, <1>2, <1>3, <1>4, <1>5 DEF Handle

\* A blockchain that stays the same or gets blocks at its end.
LEMMA ChainExtends ==
    ASSUME NEW c \in Seq(Block), NEW bs \in Seq(Block)
    PROVE  /\ Len(c) \in Nat /\ Len(bs) \in Nat
           /\ Len(c \o bs) = Len(c) + Len(bs)
           /\ \A i \in 1 .. Len(c) : (c \o bs)[i] = c[i]
           /\ \A i \in 1 .. Len(bs) : (c \o bs)[Len(c) + i] = bs[i]
BY ConcatProperties, LenProperties

LEMMA HandleGrows ==
    ASSUME Shape, NEW t, NEW n \in Node, NEW m \in Message, NEW q, Handle(t, n, m, q)
    PROVE  Grows
<1>1. /\ UNCHANGED <<attempt, pc, oldName, current>>
      /\ \A o \in Node : rumors[o] \subseteq rumors'[o]
      /\ chain' = chain \/ (HandleTLC(t, n, m, q) /\ AdvanceStep(t, n, m, q))
  BY HandleKeeps
<1>2. \A c \in Call : attempt[c] \in Nat
  BY BoundAssumption DEF Shape, TypeOK, CallTypeOK
<1>3. \A o \in Node : chain[o] \in Seq(Block) /\ Len(chain[o]) \in Nat
  BY LenProperties DEF Shape, TypeOK, StoreTypeOK
<1>4. CASE chain' = chain
  BY <1>1, <1>2, <1>3, <1>4 DEF Grows
<1>5. CASE HandleTLC(t, n, m, q) /\ AdvanceStep(t, n, m, q)
  <2> DEFINE blocks == CommittedBlocks(n, m, CatchUpStep(n, step[n]))
  <2>1. chain' = [chain EXCEPT ![n] = @ \o blocks]
    BY <1>5 DEF AdvanceStep
  <2>2. blocks \in Seq(Block)
    <3>1. m \in TLCMessage /\ m.step = step[n] /\ step[n] < MaxStep
      BY <1>5, MessageKinds DEF HandleTLC, AdvanceStep
    <3> QED BY <3>1, CommittedBlocksType DEF Shape, TypeOK
  <2> HIDE DEF blocks
  <2>3. \A o \in Node : chain'[o] = chain[o] \/ chain'[o] = chain[o] \o blocks
    BY <2>1 DEF Shape, TypeOK, StoreTypeOK
  <2>4. \A o \in Node : /\ Len(chain[o]) <= Len(chain'[o])
                        /\ \A i \in 1 .. Len(chain[o]) : chain'[o][i] = chain[o][i]
    <3> TAKE o \in Node
    <3>1. chain[o] \in Seq(Block)
      BY <1>3
    <3> QED BY <2>2, <2>3, <3>1, ChainExtends
  <2> QED BY <1>1, <1>2, <2>4 DEF Grows
<1> QED BY <1>1, <1>4, <1>5

LEMMA CallGrows ==
    ASSUME Shape, IdleNew, NEW c \in Call, CallStep(c)
    PROVE  Grows
<1>1. attempt \in [Call -> Nat] /\ DOMAIN pc = Call /\ DOMAIN oldName = Call
  BY BoundAssumption DEF Shape, TypeOK, CallTypeOK
<1>2. \A o \in Node : Len(chain[o]) \in Nat
  BY LenProperties DEF Shape, TypeOK, StoreTypeOK
<1>3. chain' = chain
  BY DEF CallStep, BeginCall, CheckName, StartPhaseOne, Timeout, Propose, Accepted, Return, storeVars
<1>4. \A o \in Node : rumors[o] \subseteq rumors'[o]
  <2>1. CASE StartPhaseOne(c)
    BY <2>1, BroadcastKeeps, CallAssumption DEF StartPhaseOne
  <2>2. CASE Propose(c)
    BY <2>2, BroadcastKeeps, CallAssumption DEF Propose
  <2>3. CASE CallMoves(c)
    BY <2>3, CallMovesKeep DEF gossipVars
  <2> QED BY <2>1, <2>2, <2>3 DEF CallStep, CallMoves
<1>5. \A d \in Call :
          /\ attempt[d] <= attempt'[d]
          /\ pc'[d] = "p1" => pc[d] = "p1" \/ attempt[d] < attempt'[d]
          /\ attempt[d] > 0 => oldName'[d] = oldName[d]
          /\ pc'[d] = "idle" => pc[d] = "idle" /\ attempt'[d] = attempt[d]
  <2>1. CASE BeginCall(c)
    BY <1>1, <2>1 DEF BeginCall, IdleNew
  <2>2. CASE CheckName(c)
    BY <1>1, <2>2 DEF CheckName, loopVars
  <2>3. CASE StartPhaseOne(c)
    BY <1>1, <2>3 DEF StartPhaseOne
  <2>4. CASE Timeout(c)
    BY <1>1, <2>4 DEF Timeout, loopVars
  <2>5. CASE Propose(c)
    BY <1>1, <2>5 DEF Propose, loopVars
  <2>6. CASE Accepted(c)
    BY <1>1, <2>6 DEF Accepted, loopVars
  <2>7. CASE Return(c)
    BY <1>1, <2>7 DEF Return, loopVars
  <2> QED BY <2>1, <2>2, <2>3, <2>4, <2>5, <2>6, <2>7 DEF CallStep
<1> QED BY <1>2, <1>3, <1>4, <1>5 DEF Grows

LEMMA PrepareSound ==
    ASSUME Shape, Shape', Sound, Grows, NEW t, NEW n \in Node, NEW m \in Message, NEW q,
           HandlePrepare(t, n, m, q)
    PROVE  Sound'
<1>1. /\ UNCHANGED <<step, tlc, chain, current, acceptedValue,
                     highestAcceptedValue>>
  BY DEF HandlePrepare, stepVars, storeVars, proposerVars, highestVars, callVars, loopVars
<1>3. CASE Promisable(n, m)
  <2> DEFINE p == [type |-> "promise", src |-> n, dest |-> m.src, step |-> step[n],
                   id |-> m.id, accId |-> acceptedId[n], accVal |-> acceptedValue[n]]
  <2>1. Broadcast(t, n, p, q)
    BY <1>3 DEF HandlePrepare
  <2>2. p \in Message
    BY MessageKinds DEF HandlePrepare, Message, PaxosPromiseMessage, PaxosPrepareMessage,
                        Shape, TypeOK, StepTypeOK, AcceptorTypeOK
  <2>3. SoundMessage(p)
    <3>1. p.type = "promise" /\ p.accVal = acceptedValue[n] /\ p.step = step[n]
      OBVIOUS
    <3> HIDE DEF p
    <3> QED BY <3>1 DEF SoundMessage, Sound, MemorySound
  <2> HIDE DEF p
  <2>4. \A o \in Node : \A r \in rumors'[o] : r \in rumors[o] \/ SoundMessage(r)'
    BY <2>1, <2>2, <2>3, BroadcastSound
  <2> QED BY <1>1, <2>4, QuietSound
<1>4. CASE ~ Promisable(n, m)
  <2>1. rumors' = rumors
    BY <1>4 DEF HandlePrepare, Finish
  <2> QED BY <1>1, <2>1, QuietSound
<1> QED BY <1>3, <1>4

LEMMA ProposeSound ==
    ASSUME Shape, Shape', Sound, Grows, NEW t, NEW n \in Node, NEW m \in Message, NEW q,
           HandlePropose(t, n, m, q), SoundMessage(m)
    PROVE  Sound'
<1>1. /\ UNCHANGED <<step, tlc, chain, current, highestAcceptedValue>>
  BY DEF HandlePropose, stepVars, storeVars, highestVars, callVars, loopVars
<1>3. CASE Acceptable(n, m)
  <2> DEFINE r == [type |-> "accept", src |-> n, step |-> m.step, id |-> m.id,
                   val |-> m.val]
  <2>1. Broadcast(t, n, r, q) /\ acceptedValue' = [acceptedValue EXCEPT ![n] = m.val]
    BY <1>3 DEF HandlePropose
  <2>2. r \in Message
    BY MessageKinds DEF HandlePropose, Message, PaxosAcceptMessage, PaxosProposeMessage
  <2>3. ValueAt(m.val, m.step) /\ m.step = step[n]
    BY <1>3 DEF HandlePropose, SoundMessage, Acceptable
  <2>4. SoundMessage(r)
    <3>1. r.type = "accept" /\ r.val = m.val /\ r.step = m.step
      OBVIOUS
    <3> HIDE DEF r
    <3> QED BY <2>3, <3>1 DEF SoundMessage
  <2> HIDE DEF r
  <2>5. \A o \in Node : \A x \in rumors'[o] : x \in rumors[o] \/ SoundMessage(x)'
    BY <2>1, <2>2, <2>4, BroadcastSound
  <2>6. \A o \in Node : acceptedValue'[o] = acceptedValue[o] \/ (o = n /\ acceptedValue'[o] = m.val)
    BY <2>1 DEF Shape, TypeOK, AcceptorTypeOK
  <2>7. \A o \in Node, v \in Value :
            v \in {acceptedValue'[o], highestAcceptedValue'[o]} =>
                \/ v \in {acceptedValue[o], highestAcceptedValue[o]}
                \/ ValueAt(v, step[o])
    BY <1>1, <2>3, <2>6
  <2> QED BY <1>1, <2>5, <2>7, QuietSound
<1>4. CASE ~ Acceptable(n, m)
  <2>1. rumors' = rumors /\ acceptedValue' = acceptedValue
    BY <1>4 DEF HandlePropose, Finish
  <2> QED BY <1>1, <2>1, QuietSound
<1> QED BY <1>3, <1>4

LEMMA PromiseSound ==
    ASSUME Shape, Shape', Sound, Grows, NEW t, NEW n \in Node, NEW m \in Message, NEW q,
           HandlePromise(t, n, m, q), SoundMessage(m)
    PROVE  Sound'
<1>1. /\ UNCHANGED <<step, tlc, chain, current, acceptedValue>>
      /\ rumors' = rumors
  BY DEF HandlePromise, stepVars, storeVars, acceptorVars, loopVars, Finish
<1>2. \A o \in Node :
          \/ highestAcceptedValue'[o] = highestAcceptedValue[o]
          \/ /\ o = n /\ highestAcceptedValue'[o] = m.accVal
             /\ m.accVal # None /\ m.step = step[n]
  BY DEF HandlePromise, highestVars, Shape, TypeOK, ProposerTypeOK
<1>3. m.accVal # None => ValueAt(m.accVal, m.step)
  BY DEF SoundMessage, HandlePromise
<1>4. \A o \in Node, v \in Value :
          v \in {acceptedValue'[o], highestAcceptedValue'[o]} =>
              \/ v \in {acceptedValue[o], highestAcceptedValue[o]}
              \/ ValueAt(v, step[o])
  BY <1>1, <1>2, <1>3
<1>5. \A o \in Node : \A x \in rumors'[o] : x \in rumors[o]
  BY <1>1
<1> QED BY <1>1, <1>4, <1>5, QuietSound

\* The block of a decision is built on the last one of its node.
LEMMA AcceptSound ==
    ASSUME Shape, Shape', Sound, Grows, NEW t, NEW n \in Node, NEW m \in Message, NEW q,
           HandleAccept(t, n, m, q), SoundMessage(m)
    PROVE  Sound'
<1> DEFINE r == [type |-> "tlc", src |-> n, step |-> m.step,
                 block |-> NewBlock(n, m.step, m.val)]
<1>1. /\ UNCHANGED <<step, tlc, chain, current, acceptedValue, highestAcceptedValue>>
  BY DEF HandleAccept, storeVars, acceptorVars, highestVars, loopVars
<1>3. rumors' = rumors \/ (m.step = step[n] /\ Broadcast(t, n, r, q))
  BY DEF HandleAccept, Finish
<1>4. CASE m.step = step[n] /\ Broadcast(t, n, r, q)
  <2>1. m.val \in Value /\ m.step \in Steps /\ ValueAt(m.val, m.step)
    BY MessageKinds DEF HandleAccept, PaxosAcceptMessage, SoundMessage
  <2>2. Len(chain[n]) = m.step
    BY <1>4 DEF Shape, ChainLength
  <2>3. NewBlock(n, m.step, m.val) \in Block
    BY <2>1, <2>2, BlockOnTop DEF Shape, TypeOK, StoreTypeOK
  <2>4. OnTop(NewBlock(n, m.step, m.val), m.step)
    <3>1. m.step <= Len(chain[n])
      BY <2>1, <2>2 DEF Steps
    <3> QED BY <2>2, <3>1 DEF OnTop, NewBlock
  <2>5. NewBlock(n, m.step, m.val).value = m.val
    BY DEF NewBlock
  <2>6. BlockAt(NewBlock(n, m.step, m.val), m.step)
    BY <2>1, <2>4, <2>5 DEF BlockAt
  <2>7. r \in Message
    BY <2>1, <2>3 DEF Message, TLCMessage
  <2>8. SoundMessage(r)
    <3>1. r.type = "tlc" /\ r.block = NewBlock(n, m.step, m.val) /\ r.step = m.step
      OBVIOUS
    <3> HIDE DEF r
    <3> QED BY <2>6, <3>1 DEF SoundMessage
  <2> HIDE DEF r
  <2>9. \A o \in Node : \A x \in rumors'[o] : x \in rumors[o] \/ SoundMessage(x)'
    BY <1>4, <2>7, <2>8, BroadcastSound
  <2> QED BY <1>1, <2>9, QuietSound
<1>5. CASE rumors' = rumors
  BY <1>1, <1>5, QuietSound
<1> QED BY <1>3, <1>4, <1>5

LEMMA StoreSound ==
    ASSUME Shape, Shape', Sound, Grows, NEW t, NEW n \in Node, NEW m \in TLCMessage, NEW q,
           StoreTLC(t, n, m, q), SoundMessage(m), Announced(m.block, m.step), UNCHANGED callVars
    PROVE  Sound'
<1>1. /\ UNCHANGED <<step, chain, current, acceptedValue, highestAcceptedValue, rumors>>
      /\ tlc' = [tlc EXCEPT ![n][m.step] = Append(@, m.block)]
  BY DEF StoreTLC, storeVars, acceptorVars, proposerVars, highestVars, callVars, loopVars, Finish
<1>3. m.step \in Steps /\ StoredAt(m.block, m.step)
  BY DEF TLCMessage, SoundMessage, StoredAt
<1>4. \A o \in Node, s \in Steps, blk \in Block : \A i \in 1 .. Len(tlc'[o][s]) :
          tlc'[o][s][i] = blk =>
              (i \in 1 .. Len(tlc[o][s]) /\ tlc[o][s][i] = blk) \/ StoredAt(blk, s)
  <2> SUFFICES ASSUME NEW o \in Node, NEW s \in Steps, NEW i \in 1 .. Len(tlc'[o][s])
               PROVE  \/ i \in 1 .. Len(tlc[o][s]) /\ tlc'[o][s][i] = tlc[o][s][i]
                      \/ tlc'[o][s][i] = m.block /\ s = m.step
    BY <1>3
  <2>1. tlc[o][s] \in Seq(Block) /\ tlc \in [Node -> [Steps -> Seq(Block)]]
    BY DEF Shape, TypeOK, StepTypeOK
  <2>2. CASE o = n /\ s = m.step
    <3>1. tlc'[o][s] = Append(tlc[o][s], m.block)
      BY <1>1, <1>3, <2>1, <2>2
    <3> QED BY <2>1, <2>2, <3>1, AppendProperties, LenProperties
  <2>3. CASE ~ (o = n /\ s = m.step)
    <3>1. tlc'[o][s] = tlc[o][s]
      BY <1>1, <1>3, <2>1, <2>3
    <3> QED BY <3>1
  <2> QED BY <2>2, <2>3
<1>5. /\ \A o \in Node, blk \in Block : \A i \in 1 .. Len(chain'[o]) :
            chain'[o][i] = blk => i \in 1 .. Len(chain[o]) /\ chain[o][i] = blk
      /\ \A c \in Call : current'[c] <= step'[CallNode[c]]
      /\ \A o \in Node : \A x \in rumors'[o] : x \in rumors[o]
  BY <1>1 DEF Sound, CurrentPast
<1> QED BY <1>1, <1>4, <1>5, KeepSound

\* The blocks appended are the message's and, for each step that was ready, one
\* that was stored for it.
LEMMA AdvanceSound ==
    ASSUME Shape, Shape', Sound, Grows, NEW t, NEW n \in Node, NEW m \in TLCMessage, NEW q,
           AdvanceStep(t, n, m, q), SoundMessage(m), Announced(m.block, m.step),
           UNCHANGED callVars
    PROVE  Sound'
<1> DEFINE s == step[n]
           top == CatchUpStep(n, s)
           blocks == CommittedBlocks(n, m, top)
           relayed == [m EXCEPT !.src = n]
<1>1. /\ m.step = s /\ s \in Steps /\ s \in Nat /\ s < MaxStep /\ m.block \in Block
      /\ MaxStep \in Nat /\ StoredAt(m.block, m.step)
  BY BoundAssumption DEF AdvanceStep, TLCMessage, Shape, TypeOK, StepTypeOK, Steps, SoundMessage,
         StoredAt
<1>2. /\ top \in s + 1 .. MaxStep /\ top \in Steps
      /\ \A j \in s + 1 .. top - 1 : Len(tlc[n][j]) >= PaxosThreshold
  <2>1. /\ top \in s + 1 .. MaxStep
        /\ \A j \in s + 1 .. top - 1 : Len(tlc[n][j]) >= PaxosThreshold
    BY <1>1, CatchUpStepExists DEF Shape, TypeOK, StepTypeOK
  <2> HIDE DEF top, s
  <2> QED BY <1>1, <2>1 DEF Steps
<1>3. blocks \in Seq(Block) /\ Len(blocks) = top - s
  BY <1>1, CommittedBlocksType DEF Shape, TypeOK
<1>4. /\ chain' = [chain EXCEPT ![n] = @ \o blocks]
      /\ step' = [step EXCEPT ![n] = top]
      /\ tlc' = [tlc EXCEPT ![n][s] = Append(@, m.block)]
      /\ rumors' = rumors \/ rumors' = [rumors EXCEPT ![n] = @ \cup {relayed}]
      /\ acceptedValue' = [acceptedValue EXCEPT ![n] = None]
      /\ highestAcceptedValue' = [highestAcceptedValue EXCEPT ![n] = None]
      /\ UNCHANGED <<current, attempt, pc>>
  BY DEF AdvanceStep, ResetAcceptor, ResetProposer, callVars, loopVars
<1>5. \A i \in 1 .. top - s : s + i - 1 \in Steps /\ StoredAt(blocks[i], s + i - 1)
  <2> TAKE i \in 1 .. top - s
  <2>1. blocks[i] = IF i = 1 THEN m.block ELSE tlc[n][s + i - 1][1]
    BY <1>1 DEF CommittedBlocks
  <2> HIDE DEF top, blocks, s
  <2>2. CASE i = 1
    <3>1. s + i - 1 = s
      BY <1>1, <2>2
    <3> QED BY <1>1, <2>1, <2>2, <3>1
  <2>3. CASE i # 1
    <3>1. s + i - 1 \in s + 1 .. top - 1 /\ s + i - 1 \in Steps
      BY <1>1, <1>2, <2>3 DEF Steps
    <3>2. tlc[n][s + i - 1] \in Seq(Block) /\ Len(tlc[n][s + i - 1]) >= PaxosThreshold
      BY <1>2, <3>1 DEF Shape, TypeOK, StepTypeOK
    <3>3. 1 \in 1 .. Len(tlc[n][s + i - 1])
      BY <3>2, NodeAssumption, LenProperties
    <3> QED BY <2>1, <2>3, <3>1, <3>3 DEF Sound, StoredSound
  <2> QED BY <2>2, <2>3
<1>6. /\ chain \in [Node -> Seq(Block)] /\ Len(chain[n]) = s
      /\ step \in [Node -> Steps]
      /\ tlc \in [Node -> [Steps -> Seq(Block)]]
  BY DEF Shape, TypeOK, StoreTypeOK, StepTypeOK, ChainLength
<1> HIDE DEF top, blocks, s, relayed
<1>7. /\ \A o \in Node : o # n => chain'[o] = chain[o] /\ step'[o] = step[o]
      /\ chain'[n] = chain[n] \o blocks /\ step'[n] = top
  BY <1>4, <1>6
<1>8. /\ Len(chain'[n]) = s + (top - s)
      /\ \A i \in 1 .. s : chain'[n][i] = chain[n][i]
      /\ \A i \in s + 1 .. s + (top - s) : chain'[n][i] = blocks[i - s]
  <2>1. /\ Len(chain[n] \o blocks) = Len(chain[n]) + Len(blocks)
        /\ \A i \in 1 .. Len(chain[n]) + Len(blocks) :
               (chain[n] \o blocks)[i] = IF i <= Len(chain[n]) THEN chain[n][i]
                                         ELSE blocks[i - Len(chain[n])]
    <3>1. chain[n] \in Seq(Block)
      BY <1>6
    <3> QED BY <1>3, <3>1, ConcatProperties
  <2> QED BY <1>1, <1>2, <1>3, <1>6, <1>7, <2>1
<1>9. \A o \in Node : \A r \in rumors'[o] : r \in rumors[o] \/ SoundMessage(r)'
  <2>1. \A o \in Node : \A r \in rumors'[o] : r \in rumors[o] \/ r = relayed
    <3>1. rumors \in [Node -> SUBSET Message]
      BY DEF Shape, TypeOK, GossipTypeOK
    <3>2. rumors' = rumors \/ rumors' = [rumors EXCEPT ![n] = @ \cup {relayed}]
      BY <1>4
    <3> QED BY <3>1, <3>2
  <2>2. /\ relayed \in Message /\ relayed.type = "tlc"
        /\ relayed.block = m.block /\ relayed.step = m.step
    BY DEF relayed, TLCMessage, Message
  <2>3. SoundMessage(relayed)
    BY <1>1, <2>2 DEF SoundMessage, StoredAt
  <2> QED BY <2>1, <2>2, <2>3, MessagesKept
<1>10. \A o \in Node, v \in Value, j \in Steps :
           (v \in {acceptedValue'[o], highestAcceptedValue'[o]} /\ step'[o] = j) =>
               v \in {acceptedValue[o], highestAcceptedValue[o]} /\ step[o] = j
  BY <1>4, <1>7, NoneAssumption DEF Shape, TypeOK, AcceptorTypeOK, ProposerTypeOK
<1>11. \A o \in Node, j \in Steps, blk \in Block : \A i \in 1 .. Len(tlc'[o][j]) :
           tlc'[o][j][i] = blk =>
               (i \in 1 .. Len(tlc[o][j]) /\ tlc[o][j][i] = blk) \/ StoredAt(blk, j)
  <2> SUFFICES ASSUME NEW o \in Node, NEW j \in Steps, NEW i \in 1 .. Len(tlc'[o][j])
               PROVE  \/ i \in 1 .. Len(tlc[o][j]) /\ tlc'[o][j][i] = tlc[o][j][i]
                      \/ tlc'[o][j][i] = m.block /\ j = m.step
    BY <1>1
  <2>1. tlc[o][j] \in Seq(Block)
    BY <1>6
  <2>2. CASE o = n /\ j = s
    <3>1. tlc'[o][j] = Append(tlc[o][j], m.block)
      BY <1>1, <1>4, <1>6, <2>2
    <3> QED BY <1>1, <2>1, <2>2, <3>1, AppendProperties, LenProperties
  <2>3. CASE ~ (o = n /\ j = s)
    <3>1. tlc'[o][j] = tlc[o][j]
      BY <1>1, <1>4, <1>6, <2>3
    <3> QED BY <3>1
  <2> QED BY <2>2, <2>3
<1>12. \A o \in Node, blk \in Block : \A i \in 1 .. Len(chain'[o]) :
           chain'[o][i] = blk =>
               \/ i \in 1 .. Len(chain[o]) /\ chain[o][i] = blk
               \/ i - 1 \in Steps /\ StoredAt(blk, i - 1)
  <2> SUFFICES ASSUME NEW o \in Node, NEW i \in 1 .. Len(chain'[o])
               PROVE  \/ i \in 1 .. Len(chain[o]) /\ chain'[o][i] = chain[o][i]
                      \/ i - 1 \in Steps /\ StoredAt(chain'[o][i], i - 1)
    OBVIOUS
  <2>1. CASE o # n
    BY <1>7, <2>1
  <2>2. CASE o = n /\ i <= s
    BY <1>1, <1>6, <1>8, <2>2
  <2>3. CASE o = n /\ s < i
    <3>1. i - s \in 1 .. top - s /\ s + (i - s) - 1 = i - 1 /\ chain'[n][i] = blocks[i - s]
      BY <1>1, <1>2, <1>8, <2>3
    <3>2. i - 1 \in Steps /\ StoredAt(blocks[i - s], i - 1)
      BY <1>5, <3>1
    <3> QED BY <2>3, <3>1, <3>2
  <2>4. i <= s \/ s < i
    BY <1>1, <1>2, <1>8, LenProperties DEF Shape, TypeOK, StoreTypeOK
  <2> QED BY <2>1, <2>2, <2>3, <2>4
<1>13. \A c \in Call : current'[c] <= step'[CallNode[c]]
  <2>1. \A c \in Call : current[c] \in Nat /\ current[c] <= step[CallNode[c]] /\ CallNode[c] \in Node
    BY CallAssumption DEF Sound, CurrentPast, Shape, TypeOK, CallTypeOK, Steps
  <2>2. \A o \in Node : step[o] \in Nat /\ step[o] <= step'[o] /\ step'[o] \in Nat
    <3> TAKE o \in Node
    <3>1. step[o] \in Nat
      BY <1>6 DEF Steps
    <3>2. CASE o = n
      <4>1. step[o] = s /\ step'[o] = top
        BY <1>7, <3>2 DEF s
      <4> QED BY <1>1, <1>2, <3>1, <4>1
    <3>3. CASE o # n
      BY <1>7, <3>1, <3>3
    <3> QED BY <3>2, <3>3
  <2> QED BY <1>4, <2>1, <2>2
<1> QED BY <1>9, <1>10, <1>11, <1>12, <1>13, KeepSound

LEMMA HandleSound ==
    ASSUME Shape, Shape', Sound, NEW t, NEW n \in Node, NEW m \in Message, NEW q,
           NEW o \in Node, m \in rumors[o], Handle(t, n, m, q)
    PROVE  Sound'
<1>1. Grows /\ SoundMessage(m)
  BY HandleGrows DEF Sound, RumorsSound
<1>2. CASE HandleTLC(t, n, m, q)
  <2>1. m \in TLCMessage /\ UNCHANGED callVars /\ Announced(m.block, m.step)
    BY <1>2, MessageKinds DEF HandleTLC, Announced
  <2>2. CASE AdvanceStep(t, n, m, q)
    BY <1>1, <2>1, <2>2, AdvanceSound
  <2>3. CASE StoreTLC(t, n, m, q)
    BY <1>1, <2>1, <2>3, StoreSound
  <2>4. CASE Finish(t, q) /\ UNCHANGED <<stepVars, storeVars, acceptorVars, proposerVars>>
    <3>1. UNCHANGED <<step, tlc, chain, current, acceptedValue, highestAcceptedValue, rumors>>
      BY <2>1, <2>4 DEF Finish, stepVars, storeVars, acceptorVars, proposerVars, highestVars,
                        callVars, loopVars
    <3> QED BY <1>1, <3>1, QuietSound
  <2> QED BY <1>2, <2>2, <2>3, <2>4 DEF HandleTLC
<1> QED BY <1>1, <1>2, PrepareSound, ProposeSound, PromiseSound, AcceptSound DEF Handle

\* A new iteration has an identifier of its own, at the step of its node.
LEMMA StartSound ==
    ASSUME Shape, Shape', Sound, Grows, NEW c \in Call, StartPhaseOne(c)
    PROVE  Sound'
<1> DEFINE n == CallNode[c]
           id == IF step[n] = previous[c] THEN paxosId[c] + N ELSE PaxosID[n]
           m == [type |-> "prepare", src |-> n, step |-> step[n], id |-> id]
<1>1. n \in Node /\ \A d \in Call : CallNode[d] \in Node
  BY CallAssumption
<1>2. /\ UNCHANGED <<step, tlc, chain, acceptedValue>>
      /\ current' = [current EXCEPT ![c] = step[n]]
      /\ highestAcceptedValue' = [highestAcceptedValue EXCEPT ![n] = None]
      /\ Broadcast(c, n, m, net)
  BY DEF StartPhaseOne, ResetProposer, stepVars, storeVars, acceptorVars
<1>3. \A o \in Node : \A r \in rumors'[o] : r \in rumors[o] \/ SoundMessage(r)'
  <2>1. \A o \in Node : \A r \in rumors'[o] : r \in rumors[o] \/ r = m
    BY <1>1, <1>2, BroadcastAdds
  <2>2. m.type = "prepare"
    OBVIOUS
  <2> HIDE DEF m
  <2> QED BY <2>1, <2>2 DEF SoundMessage
<1>4. \A o \in Node, v \in Value :
          v \in {acceptedValue'[o], highestAcceptedValue'[o]} =>
              v \in {acceptedValue[o], highestAcceptedValue[o]}
  BY <1>2, NoneAssumption DEF Shape, TypeOK, ProposerTypeOK
<1>5. \A d \in Call : current'[d] <= step'[CallNode[d]]
  <2> TAKE d \in Call
  <2>1. current \in [Call -> Steps] /\ step[n] \in Nat /\ step' = step
    BY <1>1, <1>2 DEF Shape, TypeOK, CallTypeOK, StepTypeOK, Steps
  <2>2. CASE d = c
    BY <1>2, <2>1, <2>2
  <2>3. CASE d # c
    <3>1. current'[d] = current[d]
      BY <1>2, <2>1, <2>3
    <3> QED BY <2>1, <3>1 DEF Sound, CurrentPast
  <2> QED BY <2>2, <2>3
<1>6. /\ \A o \in Node, s \in Steps, blk \in Block : \A i \in 1 .. Len(tlc'[o][s]) :
             tlc'[o][s][i] = blk => i \in 1 .. Len(tlc[o][s]) /\ tlc[o][s][i] = blk
      /\ \A o \in Node, blk \in Block : \A i \in 1 .. Len(chain'[o]) :
             chain'[o][i] = blk => i \in 1 .. Len(chain[o]) /\ chain[o][i] = blk
  BY <1>2
<1> HIDE DEF m, n
<1> QED BY <1>2, <1>3, <1>4, <1>5, <1>6, KeepSound

\* The value proposed is one of the node's step, which is the call's or a later
\* one, or it is the call's own, which no message and no block has held.
LEMMA CallProposeSound ==
    ASSUME Shape, Shape', Sound, Grows, NEW c \in Call, Propose(c)
    PROVE  Sound'
<1>1. PICK n \in Node : n = CallNode[c]
  BY CallAssumption
<1>2. PICK v \in Value : v = ValueToPropose(c)
  BY ValueToProposeType DEF Propose
<1>3. PICK s \in Steps : s = current[c]
  BY DEF Shape, TypeOK, CallTypeOK
<1>4. PICK m : m = [type |-> "propose", src |-> n, step |-> s, id |-> paxosId[c], val |-> v]
  OBVIOUS
<1>5. /\ UNCHANGED <<step, tlc, chain, acceptedValue, highestAcceptedValue, current, attempt>>
      /\ oldName' = oldName /\ pc[c] = "p1" /\ pc' = [pc EXCEPT ![c] = "p2"]
  BY DEF Propose, stepVars, storeVars, acceptorVars, highestVars, loopVars
<1>6. Broadcast(c, n, m, net)
  BY <1>1, <1>2, <1>3, <1>4 DEF Propose
<1>7. /\ highestAcceptedValue[n] # None => v = highestAcceptedValue[n]
      /\ highestAcceptedValue[n] = None => v = OwnValue(c)
  BY <1>1, <1>2 DEF ValueToPropose
<1>8. v.uid \in Call \X (1 .. MaxAttempt) /\ v.uid[1] \in Call
  BY DEF Value, Uid
<1>9. \A d \in Call : attempt[d] \in Nat /\ attempt'[d] = attempt[d]
  BY <1>5, BoundAssumption DEF Shape, TypeOK, CallTypeOK
<1>10. pc'[c] = "p2" /\ \A d \in Call : pc'[d] = "p1" => pc[d] = "p1"
  BY <1>5 DEF Shape, TypeOK, CallTypeOK
<1>11. /\ s \in Nat /\ step[n] \in Nat /\ s <= step[n] /\ Len(chain[n]) = step[n]
  BY <1>1, <1>3 DEF Shape, TypeOK, StepTypeOK, ChainLength, Steps, Sound, CurrentPast
<1>12. ProposedAt(v.uid, s)'
  <2>1. m \in rumors'[n]
    BY <1>6, BroadcastRumors
  <2> QED BY <1>4, <2>1 DEF ProposedAt
<1>13. ValueAt(v, s)'
  <2>1. CASE highestAcceptedValue[n] # None
    <3>1. ValueAt(v, step[n])
      BY <1>7, <2>1 DEF Sound, MemorySound
    <3>2. Used(v.uid)'
      BY <1>8, <1>9, <1>10, <3>1 DEF ValueAt, Used
    <3>3. NewAt(v.uid, s)'
      <4>1. PICK o \in Node : /\ step[n] <= Len(chain[o])
                             /\ \A i \in 1 .. step[n] : chain[o][i].value.uid # v.uid
        BY <3>1 DEF ValueAt, NewAt
      <4>2. Len(chain[o]) \in Nat
        BY LenProperties DEF Shape, TypeOK, StoreTypeOK
      <4>3. /\ s <= Len(chain[o])
            /\ \A i \in 1 .. s : chain[o][i].value.uid # v.uid
        BY <1>11, <4>1, <4>2
      <4> QED BY <1>5, <4>3 DEF NewAt
    <3>4. Genuine(v)'
      BY <1>5, <3>1 DEF ValueAt, Genuine
    <3> QED BY <1>12, <3>2, <3>3, <3>4 DEF ValueAt
  <2>2. CASE highestAcceptedValue[n] = None
    <3>1. v.uid = <<c, attempt[c]>> /\ v.uid[1] = c /\ v.uid[2] = attempt[c]
      BY <1>7, <2>2 DEF OwnValue
    <3>2. ~ Used(v.uid)
      BY <1>5, <1>9, <3>1 DEF Used
    <3>3. \A i \in 1 .. Len(chain[n]) : chain[n][i].value.uid # v.uid
      BY <3>2 DEF Sound, ChainSound, StoredAt, BlockAt, ValueAt
    <3>4. Used(v.uid)'
      BY <1>9, <1>10, <3>1 DEF Used
    <3>5. NewAt(v.uid, s)'
      <4>1. /\ s <= Len(chain[n])
            /\ \A i \in 1 .. s : chain[n][i].value.uid # v.uid
        BY <1>11, <3>3
      <4> QED BY <1>5, <4>1 DEF NewAt
    <3>6. Genuine(v)'
      BY <1>5, <1>7, <2>2, <3>1 DEF Genuine, OwnValue
    <3> QED BY <1>12, <3>4, <3>5, <3>6 DEF ValueAt
  <2> QED BY <2>1, <2>2
<1>14. \A o \in Node : \A r \in rumors'[o] : r \in rumors[o] \/ SoundMessage(r)'
  <2>1. \A o \in Node : \A r \in rumors'[o] : r \in rumors[o] \/ r = m
    BY <1>6, BroadcastAdds
  <2>2. m.type = "propose" /\ m.val = v /\ m.step = s
    BY <1>4
  <2>3. SoundMessage(m)'
    BY <1>13, <2>2 DEF SoundMessage
  <2> QED BY <2>1, <2>3
<1>15. UNCHANGED <<step, tlc, chain, current>>
  BY <1>5
<1>16. \A o \in Node, w \in Value :
           w \in {acceptedValue'[o], highestAcceptedValue'[o]} =>
               \/ w \in {acceptedValue[o], highestAcceptedValue[o]}
               \/ ValueAt(w, step[o])
  BY <1>5
<1> QED BY <1>14, <1>15, <1>16, QuietSound

LEMMA CallSound ==
    ASSUME Shape, Shape', Sound, NEW c \in Call, CallStep(c)
    PROVE  Sound'
<1>1. Grows
  BY CallGrows DEF Sound
<1>2. CASE CallMoves(c)
  <2>1. UNCHANGED <<step, tlc, chain, current, acceptedValue, highestAcceptedValue, rumors>>
    BY <1>2, CallMovesKeep DEF storeVars, acceptorVars, proposerVars, highestVars, gossipVars
  <2> QED BY <1>1, <2>1, QuietSound
<1> QED BY <1>1, <1>2, StartSound, CallProposeSound DEF CallStep, CallMoves

LEMMA InitSound == Init => Sound
<1> SUFFICES ASSUME Init PROVE Sound
  OBVIOUS
<1>1. RumorsSound
  BY DEF Init, RumorsSound
<1>2. MemorySound
  BY DEF Init, InitButRumors, MemorySound
<1>3. \A n \in Node : /\ chain[n] = << >> /\ step[n] = 0
                     /\ \A s \in Steps : tlc[n][s] = << >>
  BY DEF Init, InitButRumors
<1>4. Len(<< >>) = 0
  BY EmptySeq
<1>5. StoredSound /\ ChainSound
  BY <1>3, <1>4 DEF StoredSound, ChainSound
<1>6. CurrentPast
  BY <1>3, CallAssumption DEF Init, InitButRumors, CurrentPast
<1>7. IdleNew
  BY DEF Init, InitButRumors, IdleNew
<1> QED BY <1>1, <1>2, <1>5, <1>6, <1>7 DEF Sound

\* What the peers hold is sound: every message a peer handles is a rumor.
LEMMA SoundInvariant == Spec => []Sound
<1>1. Shape /\ Shape' /\ Backed /\ Sound /\ [Next]_vars => Sound'
  <2> SUFFICES ASSUME Shape, Shape', Backed, Sound, [Next]_vars PROVE Sound'
    OBVIOUS
  <2>1. ASSUME NEW o \in Node, NEW d \in Node, Receive(o, d) PROVE Sound'
    <3>1. PICK m \in Message, q \in Queues : m = Head(net[o][d]) /\ Handle(d, d, m, q)
      BY <2>1, ReceiveMessage DEF Receive, Shape, TypeOK
    <3>2. m \in rumors[o]
      <4>1. net[o][d] \in Seq(Message) /\ net[o][d] # << >>
        BY <2>1 DEF Receive, Shape, TypeOK, GossipTypeOK
      <4>2. m = net[o][d][1] /\ 1 \in 1 .. Len(net[o][d])
        BY <3>1, <4>1, HeadTailProperties, LenProperties, EmptySeq
      <4> QED BY <4>2 DEF Backed, GossipInv, Known
    <3> QED BY <3>1, <3>2, HandleSound
  <2>2. ASSUME NEW t \in Thread, ProcessLocal(t) PROVE Sound'
    <3>1. PICK m \in Message : m = local[t] /\ Handle(t, NodeOf(t), m, net)
      BY <2>2, LocalMessage DEF ProcessLocal, Shape, TypeOK
    <3>2. NodeOf(t) \in Node /\ m \in rumors[NodeOf(t)]
      BY <2>2, <3>1, NodeOfType DEF ProcessLocal, Backed, GossipInv
    <3> QED BY <3>1, <3>2, HandleSound
  <2>3. ASSUME NEW c \in Call, CallStep(c) PROVE Sound'
    BY <2>3, CallSound
  <2>4. CASE UNCHANGED vars
    <3>1. UNCHANGED <<step, tlc, chain, current, attempt, pc, oldName, acceptedValue,
                      highestAcceptedValue, rumors>>
      BY <2>4 DEF vars, stepVars, storeVars, acceptorVars, proposerVars, highestVars,
                  callVars, loopVars, gossipVars
    <3>2. Grows
      <4>1. \A d \in Call : attempt[d] \in Nat
        BY BoundAssumption DEF Shape, TypeOK, CallTypeOK
      <4>2. \A n \in Node : Len(chain[n]) \in Nat
        BY LenProperties DEF Shape, TypeOK, StoreTypeOK
      <4> QED BY <3>1, <4>1, <4>2 DEF Grows
    <3> QED BY <3>1, <3>2, QuietSound
  <2> QED BY <2>1, <2>2, <2>3, <2>4 DEF Next
<1> QED BY <1>1, InitSound, ShapeInvariant, BackedInvariant, PTL DEF Spec

-----------------------------------------------------------------------------
(* What the blockchains are as long as the nodes agree                     *)

LEMMA SoundChain ==
    ASSUME Shape, Sound, NEW n \in Node, NEW i \in 1 .. Len(chain[n])
    PROVE  /\ i \in Nat /\ i >= 1 /\ Len(chain[n]) \in Nat
           /\ i \in DOMAIN chain[n]
           /\ StoredAt(chain[n][i], i - 1)
<1>1. chain[n] \in Seq(Block)
  BY DEF Shape, TypeOK, StoreTypeOK
<1>2. Len(chain[n]) \in Nat /\ DOMAIN chain[n] = 1 .. Len(chain[n])
  BY <1>1, LenProperties
<1>3. i \in Nat /\ i >= 1
  BY <1>2
<1>4. StoredAt(chain[n][i], i - 1)
  BY DEF Sound, ChainSound
<1> QED BY <1>2, <1>3, <1>4

\* While no two nodes differ at a position, each block of a node has the index
\* of its position and holds the hash of the node's own block before it,
\* although it was built by another node, on that node's blockchain.
THEOREM AgreedChainsLinked == Spec => [](Agreement => ChainLinked)
<1>1. Shape /\ Sound /\ Agreement => ChainLinked
  <2> SUFFICES ASSUME Shape, Sound, Agreement, NEW n \in Node
               PROVE  /\ Len(chain[n]) = step[n]
                      /\ \A i \in 1 .. Len(chain[n]) :
                             /\ chain[n][i].index = i - 1
                             /\ chain[n][i].prev =
                                   IF i = 1 THEN ZeroHash ELSE HashOf(chain[n][i - 1])
    BY DEF ChainLinked
  <2>1. Len(chain[n]) = step[n]
    BY DEF Shape, ChainLength
  <2>2. ASSUME NEW i \in 1 .. Len(chain[n])
        PROVE  /\ chain[n][i].index = i - 1
               /\ chain[n][i].prev = IF i = 1 THEN ZeroHash ELSE HashOf(chain[n][i - 1])
    <3>1. i \in Nat /\ i >= 1 /\ Len(chain[n]) \in Nat /\ OnTop(chain[n][i], i - 1)
      BY SoundChain DEF StoredAt, BlockAt
    <3>2. CASE i = 1
      BY <3>1, <3>2 DEF OnTop
    <3>3. CASE i # 1
      <4>1. PICK o \in Node : /\ i - 1 <= Len(chain[o])
                              /\ chain[n][i].prev = HashOf(chain[o][i - 1])
        BY <3>1, <3>3 DEF OnTop
      <4>2. Len(chain[o]) \in Nat
        BY LenProperties DEF Shape, TypeOK, StoreTypeOK
      <4>3. i - 1 \in 1 .. Len(chain[n]) /\ i - 1 \in 1 .. Len(chain[o])
        BY <3>1, <3>3, <4>1, <4>2
      <4>4. chain[n][i - 1] = chain[o][i - 1]
        BY <4>3, SoundChain DEF Agreement
      <4> QED BY <3>1, <3>3, <4>1, <4>4 DEF OnTop
    <3> QED BY <3>2, <3>3
  <2> QED BY <2>1, <2>2
<1> QED BY <1>1, ShapeInvariant, SoundInvariant, PTL

\* While no two nodes differ at a position, no proposal is in a blockchain
\* twice, however often calls adopted it and proposed it again.
THEOREM AgreedCommitOnce == Spec => [](Agreement => CommittedOnce)
<1>1. Shape /\ Sound /\ Agreement => CommittedOnce
  <2> SUFFICES ASSUME Shape, Sound, Agreement, NEW n \in Node, NEW i \in DOMAIN chain[n],
                      NEW j \in DOMAIN chain[n],
                      chain[n][i].value.uid = chain[n][j].value.uid
               PROVE  i = j
    BY DEF CommittedOnce
  <2>1. i \in 1 .. Len(chain[n]) /\ j \in 1 .. Len(chain[n])
    BY LenProperties DEF Shape, TypeOK, StoreTypeOK
  <2>2. ASSUME NEW k \in 1 .. Len(chain[n]), NEW l \in 1 .. Len(chain[n]),
               chain[n][k].value.uid = chain[n][l].value.uid
        PROVE  ~ (k < l)
    <3> SUFFICES ASSUME k < l PROVE FALSE
      OBVIOUS
    <3>1. /\ k \in Nat /\ k >= 1 /\ l \in Nat /\ k \in DOMAIN chain[n]
          /\ NewAt(chain[n][l].value.uid, l - 1)
      BY SoundChain DEF StoredAt, BlockAt, ValueAt
    <3>2. PICK o \in Node : /\ l - 1 <= Len(chain[o])
                            /\ \A x \in 1 .. l - 1 :
                                   chain[o][x].value.uid # chain[n][l].value.uid
      BY <3>1 DEF NewAt
    <3>3. k \in 1 .. l - 1
      BY <3>1
    <3>4. k \in 1 .. Len(chain[o])
      <4>1. Len(chain[o]) \in Nat
        BY LenProperties DEF Shape, TypeOK, StoreTypeOK
      <4> QED BY <3>1, <3>2, <3>3, <4>1
    <3>5. chain[n][k] = chain[o][k]
      BY <3>1, <3>4, SoundChain DEF Agreement
    <3> QED BY <2>2, <3>2, <3>3, <3>5
  <2>3. i \in Nat /\ j \in Nat
    BY <2>1, SoundChain
  <2> QED BY <2>1, <2>2, <2>3
<1> QED BY <1>1, ShapeInvariant, SoundInvariant, PTL

-----------------------------------------------------------------------------
(* What is committed                                                       *)

BlocksAsked ==
    \A n \in Node : \A i \in 1 .. Len(chain[n]) : Genuine(chain[n][i].value)

\* Every block of a blockchain holds what a call has asked for and proposed:
\* its kind, its name, the name the user had and the address of the node.
THEOREM OnlyAskedCommitted == Spec => []BlocksAsked
<1>1. Shape /\ Sound => BlocksAsked
  BY SoundChain DEF BlocksAsked, StoredAt, BlockAt, ValueAt
<1> QED BY <1>1, ShapeInvariant, SoundInvariant, PTL

\* Paxos decides one value for each step.
DecidedOnce ==
    \A n, o \in Node : \A m \in rumors[n], r \in rumors[o] :
        (m.type = "tlc" /\ r.type = "tlc" /\ m.step = r.step)
            => m.block.value.uid = r.block.value.uid

LEMMA SameBlock ==
    ASSUME NEW a \in Block, NEW b \in Block, a.index = b.index, a.prev = b.prev,
           a.value.uid = b.value.uid, Genuine(a.value), Genuine(b.value)
    PROVE  a = b
<1>1. a.value = b.value
  <2>1. a.value \in Value /\ b.value \in Value
    BY DEF Block
  <2>2. /\ a.value.kind = b.value.kind /\ a.value.old = b.value.old
        /\ a.value.name = b.value.name /\ a.value.meta = b.value.meta
    BY DEF Genuine
  <2> QED BY <2>1, <2>2 DEF Value
<1> QED BY <1>1 DEF Block

\* What the blockchains need of Paxos is that it decides once per step: that two
\* nodes have the same block at a position follows, by the least position at
\* which two differ.
THEOREM DecisionsAgree == Spec => [](DecidedOnce => Agreement)
<1>1. Shape /\ Sound /\ DecidedOnce => Agreement
  <2> SUFFICES ASSUME Shape, Sound, DecidedOnce, ~ Agreement PROVE FALSE
    OBVIOUS
  <2> DEFINE Differ(i) == \E n, o \in Node : /\ i \in 1 .. Len(chain[n])
                                             /\ i \in 1 .. Len(chain[o])
                                             /\ chain[n][i] # chain[o][i]
             S == {i \in 0 .. MaxStep : Differ(i)}
  <2>1. \A n \in Node : /\ chain[n] \in Seq(Block) /\ Len(chain[n]) \in 0 .. MaxStep
                        /\ DOMAIN chain[n] = 1 .. Len(chain[n])
    BY LenProperties DEF Shape, TypeOK, StoreTypeOK, StepTypeOK, ChainLength, Steps
  <2>2. S # {}
    <3>1. PICK n \in Node, o \in Node : \E i \in DOMAIN chain[n] \cap DOMAIN chain[o] :
              chain[n][i] # chain[o][i]
      BY DEF Agreement
    <3>2. PICK i \in DOMAIN chain[n] \cap DOMAIN chain[o] : chain[n][i] # chain[o][i]
      BY <3>1
    <3>3. i \in 0 .. MaxStep /\ Differ(i)
      BY <2>1, <3>2, BoundAssumption
    <3> QED BY <3>3
  <2>3. PICK i \in S : \A j \in S : i <= j
    <3>1. S \in SUBSET (0 .. MaxStep) /\ MaxStep \in Nat
      BY BoundAssumption
    <3> HIDE DEF S
    <3> QED BY <2>2, <3>1, FirstExists
  <2>4. PICK n \in Node, o \in Node : /\ i \in 1 .. Len(chain[n])
                                      /\ i \in 1 .. Len(chain[o])
                                      /\ chain[n][i] # chain[o][i]
    BY <2>3
  <2>5. i \in Nat /\ i >= 1 /\ i <= MaxStep /\ MaxStep \in Nat
    BY <2>3, <2>4, SoundChain, BoundAssumption
  <2> DEFINE a == chain[n][i]
             b == chain[o][i]
  <2>6. a \in Block /\ b \in Block /\ StoredAt(a, i - 1) /\ StoredAt(b, i - 1)
    BY <2>1, <2>4, SoundChain, ElementOfSeq
  <2> HIDE DEF a, b
  <2>7. a.index = b.index /\ Genuine(a.value) /\ Genuine(b.value)
    BY <2>6 DEF StoredAt, BlockAt, OnTop, ValueAt
  <2>8. a.value.uid = b.value.uid
    BY <2>6 DEF StoredAt, Announced, DecidedOnce
  <2>9. a.prev = b.prev
    <3>1. CASE i = 1
      BY <2>6, <3>1 DEF StoredAt, BlockAt, OnTop
    <3>2. CASE i # 1
      <4>1. PICK x \in Node : i - 1 <= Len(chain[x]) /\ a.prev = HashOf(chain[x][i - 1])
        BY <2>5, <2>6, <3>2 DEF StoredAt, BlockAt, OnTop
      <4>2. PICK y \in Node : i - 1 <= Len(chain[y]) /\ b.prev = HashOf(chain[y][i - 1])
        BY <2>5, <2>6, <3>2 DEF StoredAt, BlockAt, OnTop
      <4>3. i - 1 \in 0 .. MaxStep /\ i - 1 \in 1 .. Len(chain[x]) /\ i - 1 \in 1 .. Len(chain[y])
        BY <2>1, <2>5, <3>2, <4>1, <4>2
      <4>4. i - 1 \notin S
        <5> HIDE DEF S
        <5> QED BY <2>3, <2>5
      <4>5. chain[x][i - 1] = chain[y][i - 1]
        BY <4>3, <4>4
      <4> QED BY <4>1, <4>2, <4>5
    <3> QED BY <3>1, <3>2
  <2>10. a = b
    BY <2>6, <2>7, <2>8, <2>9, SameBlock
  <2> QED BY <2>4, <2>10 DEF a, b
<1> QED BY <1>1, ShapeInvariant, SoundInvariant, PTL

-----------------------------------------------------------------------------
(* What a return of Tag means                                              *)

\* A peer has announced the identifier as decided.
Told(u) == \E o \in Node : \E r \in rumors[o] : r.type = "tlc" /\ r.block.value.uid = u

\* The identifier of the call's present iteration, proposed at its step, is
\* decided.
OwnDecided(c) == Told(<<c, attempt[c]>>) /\ ProposedAt(<<c, attempt[c]>>, current[c])

TokensPast == \A n \in Node : \A s \in finished[n] : s < step[n]

CallTold(c) ==
    /\ pc[c] = "p2" => /\ ProposedAt(proposed[c].uid, current[c])
                       /\ original[c] => proposed[c].uid = <<c, attempt[c]>>
                       /\ success[c] => Told(proposed[c].uid)
    /\ pc[c] = "wait" => attempt[c] > 0 /\ OwnDecided(c)
    /\ (pc[c] = "done" /\ attempt[c] > 0) => OwnDecided(c) /\ current[c] < step[CallNode[c]]

Returning == TokensPast /\ \A c \in Call : CallTold(c)

LEMMA ToldKept ==
    ASSUME \A o \in Node : rumors[o] \subseteq rumors'[o], NEW u
    PROVE  /\ Told(u) => Told(u)'
           /\ \A s \in Steps : ProposedAt(u, s) => ProposedAt(u, s)'
BY DEF Told, ProposedAt

\* What a call was told stays true while the call does not move.
LEMMA CallToldKept ==
    ASSUME Shape, Shape', NEW c \in Call, CallTold(c),
           \A o \in Node : rumors[o] \subseteq rumors'[o],
           \A n \in Node : step[n] <= step'[n],
           pc'[c] = pc[c], attempt'[c] = attempt[c], current'[c] = current[c],
           proposed'[c] = proposed[c], original'[c] = original[c],
           (pc[c] = "p2" /\ success'[c]) => success[c] \/ Told(proposed[c].uid)'
    PROVE  CallTold(c)'
<1>1. /\ current[c] \in Steps /\ current[c] \in Nat
      /\ step[CallNode[c]] \in Nat /\ step'[CallNode[c]] \in Nat
      /\ step[CallNode[c]] <= step'[CallNode[c]]
  BY CallAssumption DEF Shape, TypeOK, CallTypeOK, StepTypeOK, Steps
<1>2. PICK u, w, s : /\ u = proposed[c].uid /\ w = <<c, attempt[c]>>
                     /\ s = current[c] /\ s \in Steps
  BY <1>1
<1>3. u = proposed'[c].uid /\ w = <<c, attempt'[c]>> /\ s = current'[c]
  BY <1>2
<1>4. /\ Told(u) => Told(u)'
      /\ Told(w) => Told(w)'
      /\ ProposedAt(u, s) => ProposedAt(u, s)'
      /\ ProposedAt(w, s) => ProposedAt(w, s)'
  BY <1>2, ToldKept
<1>5. pc'[c] = "p2" => /\ ProposedAt(proposed[c].uid, current[c])'
                       /\ original'[c] => proposed'[c].uid = <<c, attempt'[c]>>
                       /\ success'[c] => Told(proposed[c].uid)'
  <2> SUFFICES ASSUME pc'[c] = "p2"
               PROVE  /\ ProposedAt(u, s)' /\ (original'[c] => u = w)
                      /\ success'[c] => Told(u)'
    BY <1>3 DEF ProposedAt, Told
  <2>1. success'[c] => success[c] \/ Told(u)'
    BY <1>3 DEF Told
  <2>2. ProposedAt(u, s) /\ (original[c] => u = w) /\ (success[c] => Told(u))
    BY <1>2 DEF CallTold
  <2> QED BY <1>4, <2>1, <2>2
<1>6. OwnDecided(c) => OwnDecided(c)'
  <2>1. OwnDecided(c) => Told(w) /\ ProposedAt(w, s)
    BY <1>2 DEF OwnDecided
  <2>2. Told(w)' /\ ProposedAt(w, s)' => OwnDecided(c)'
    BY <1>3 DEF OwnDecided, Told, ProposedAt
  <2> QED BY <1>4, <2>1, <2>2
<1>7. pc'[c] = "wait" => attempt'[c] > 0 /\ OwnDecided(c)'
  BY <1>6 DEF CallTold
<1>8. (pc'[c] = "done" /\ attempt'[c] > 0)
          => OwnDecided(c)' /\ current'[c] < step'[CallNode[c]]
  BY <1>1, <1>6 DEF CallTold
<1> QED BY <1>5, <1>7, <1>8 DEF CallTold

\* The token of phase two comes with a TLC message of the same thread.
LEMMA HandleTells ==
    ASSUME Shape, NEW t, NEW n \in Node, NEW m \in Message, NEW q, Handle(t, n, m, q)
    PROVE  \A c \in Call : (pc[c] = "p2" /\ success'[c]) =>
               success[c] \/ Told(proposed[c].uid)'
<1> SUFFICES ASSUME NEW c \in Call, pc[c] = "p2", success'[c], ~ success[c]
             PROVE  Told(proposed[c].uid)'
  OBVIOUS
<1>1. success' # success
  OBVIOUS
<1>2. CASE HandlePromise(t, n, m, q)
  BY <1>1, <1>2 DEF HandlePromise, PhaseOneCall
<1>3. CASE HandleAccept(t, n, m, q)
  <2> DEFINE r == [type |-> "tlc", src |-> n, step |-> m.step,
                   block |-> NewBlock(n, m.step, m.val)]
  <2>1. c \in PhaseTwoCall(n, m.val.uid) /\ Broadcast(t, n, r, q) /\ UNCHANGED proposed
    BY <1>1, <1>3 DEF HandleAccept
  <2>2. r.type = "tlc" /\ r.block.value.uid = m.val.uid
    BY DEF NewBlock
  <2> HIDE DEF r
  <2>3. r \in rumors'[n]
    BY <2>1, BroadcastRumors
  <2>4. proposed'[c].uid = m.val.uid
    BY <2>1 DEF PhaseTwoCall
  <2> QED BY <2>2, <2>3, <2>4 DEF Told
<1>4. CASE HandlePrepare(t, n, m, q) \/ HandlePropose(t, n, m, q) \/ HandleTLC(t, n, m, q)
  BY <1>1, <1>4 DEF HandlePrepare, HandlePropose, HandleTLC, callVars
<1> QED BY <1>2, <1>3, <1>4 DEF Handle

LEMMA HandleTokens ==
    ASSUME Shape, Shape', TokensPast, NEW t, NEW n \in Node, NEW m \in Message, NEW q,
           Handle(t, n, m, q)
    PROVE  TokensPast' /\ \A o \in Node : step[o] <= step'[o]
<1>1. \A o \in Node : step[o] \in Nat
  BY DEF Shape, TypeOK, StepTypeOK, Steps
<1>2. CASE UNCHANGED <<step, finished>>
  BY <1>1, <1>2 DEF TokensPast
<1>3. CASE HandleTLC(t, n, m, q) /\ AdvanceStep(t, n, m, q)
  <2> DEFINE top == CatchUpStep(n, step[n])
  <2>1. /\ step' = [step EXCEPT ![n] = top]
        /\ finished' = [finished EXCEPT ![n] = @ \cup {top - 1}]
        /\ step[n] < MaxStep
    BY <1>3 DEF AdvanceStep, Signalled
  <2>2. top \in step[n] + 1 .. MaxStep
    BY <2>1, CatchUpStepExists DEF Shape, TypeOK, StepTypeOK
  <2> HIDE DEF top
  <2>3. /\ step \in [Node -> Steps] /\ finished \in [Node -> SUBSET Steps]
        /\ MaxStep \in Nat /\ top \in Nat /\ step[n] < top
    BY <1>1, <2>2, BoundAssumption DEF Shape, TypeOK, StepTypeOK
  <2>4. \A o \in Node : step'[o] \in Nat /\ step[o] <= step'[o]
    BY <1>1, <2>1, <2>3
  <2>5. ASSUME NEW o \in Node, NEW s \in finished'[o]
        PROVE  s < step'[o]
    <3>1. CASE o = n
      <4>1. s \in finished[n] \/ s = top - 1
        BY <2>1, <2>3, <3>1
      <4>2. s \in finished[n] => s \in Nat /\ s < step[n]
        BY <2>3 DEF TokensPast, Steps
      <4> QED BY <1>1, <2>1, <2>3, <3>1, <4>1, <4>2
    <3>2. CASE o # n
      BY <2>1, <2>3, <3>2 DEF TokensPast
    <3> QED BY <3>1, <3>2
  <2> QED BY <2>4, <2>5 DEF TokensPast
<1> QED
  BY <1>2, <1>3 DEF Handle, HandlePrepare, HandlePropose, HandlePromise, HandleAccept, HandleTLC,
                    StoreTLC, stepVars

LEMMA HandleReturning ==
    ASSUME Shape, Shape', Returning, NEW t, NEW n \in Node, NEW m \in Message, NEW q,
           Handle(t, n, m, q)
    PROVE  Returning'
<1>1. UNCHANGED <<pc, attempt, current, proposed, original>>
  BY DEF Handle, HandlePrepare, HandlePropose, HandlePromise, HandleAccept, HandleTLC,
         callVars, loopVars
<1>2. \A o \in Node : rumors[o] \subseteq rumors'[o]
  BY HandleKeeps
<1>3. TokensPast' /\ \A o \in Node : step[o] <= step'[o]
  BY HandleTokens DEF Returning
<1>4. \A c \in Call : (pc[c] = "p2" /\ success'[c]) => success[c] \/ Told(proposed[c].uid)'
  BY HandleTells
<1>5. ASSUME NEW c \in Call PROVE CallTold(c)'
  <2>1. CallTold(c)
    BY DEF Returning
  <2> QED BY <1>1, <1>2, <1>3, <1>4, <2>1, CallToldKept
<1> QED BY <1>3, <1>5 DEF Returning

LEMMA CallReturning ==
    ASSUME Shape, Shape', Sound, Returning, NEW c \in Call, CallStep(c)
    PROVE  Returning'
<1>1. \A o \in Node : rumors[o] \subseteq rumors'[o]
  BY CallGrows DEF Sound, Grows
<1>2. step' = step /\ \A o \in Node : step[o] \in Nat
  BY DEF CallStep, BeginCall, CheckName, StartPhaseOne, Timeout, Propose, Accepted, Return,
         stepVars, Shape, TypeOK, StepTypeOK, Steps
<1>3. TokensPast'
  <2>1. finished' = finished \/ finished' = [finished EXCEPT ![CallNode[c]] = @ \ {current[c]}]
    BY DEF CallStep, BeginCall, CheckName, StartPhaseOne, Timeout, Propose, Accepted, Return,
           stepVars
  <2>2. \A o \in Node : finished'[o] \subseteq finished[o]
    BY <2>1 DEF Shape, TypeOK, StepTypeOK
  <2> QED BY <1>2, <2>2 DEF Returning, TokensPast
<1>4. /\ pc \in [Call -> {"idle", "check", "prepare", "p1", "p2", "wait", "done", "failed"}]
      /\ DOMAIN attempt = Call /\ DOMAIN current = Call /\ DOMAIN proposed = Call
      /\ DOMAIN original = Call /\ DOMAIN success = Call
  BY DEF Shape, TypeOK, CallTypeOK
<1>5. ASSUME NEW d \in Call, d # c
      PROVE  CallTold(d)'
  <2>1. /\ pc'[d] = pc[d] /\ attempt'[d] = attempt[d]
        /\ current'[d] = current[d] /\ proposed'[d] = proposed[d]
        /\ original'[d] = original[d] /\ success'[d] = success[d]
    <3>1. CASE StartPhaseOne(c)
      BY <1>4, <1>5, <3>1 DEF StartPhaseOne
    <3>2. CASE Propose(c)
      BY <1>4, <1>5, <3>2 DEF Propose, loopVars
    <3>3. CASE CallMoves(c)
      <4>1. pc'[d] = pc[d]
        BY <1>4, <1>5, <3>3 DEF CallMoves, BeginCall, CheckName, Timeout, Accepted, Return
      <4> QED BY <3>3, <4>1, CallMovesKeep
    <3> QED BY <3>1, <3>2, <3>3 DEF CallStep, CallMoves
  <2>2. CallTold(d)
    BY DEF Returning
  <2> QED BY <1>1, <1>2, <2>1, <2>2, CallToldKept
<1>6. CallTold(c)'
  <2>0. CallTold(c) /\ CallNode[c] \in Node
    BY CallAssumption DEF Returning
  <2>1. CASE BeginCall(c)
    <3>1. pc'[c] \in {"check", "done", "failed"} /\ attempt'[c] = 0
      BY <1>4, <2>1 DEF BeginCall, Sound, IdleNew
    <3> QED BY <3>1 DEF CallTold
  <2>2. CASE CheckName(c) \/ Timeout(c)
    <3>1. pc'[c] \in {"failed", "prepare", "check"}
      BY <1>4, <2>2 DEF CheckName, Timeout
    <3> QED BY <3>1 DEF CallTold
  <2>3. CASE StartPhaseOne(c)
    <3>1. pc'[c] = "p1"
      BY <1>4, <2>3 DEF StartPhaseOne
    <3> QED BY <3>1 DEF CallTold
  <2>4. CASE Propose(c)
    <3>0. PICK n \in Node : n = CallNode[c]
      BY <2>0
    <3>1. PICK v, s, m :
              /\ v = ValueToPropose(c) /\ s = current[c]
              /\ m = [type |-> "propose", src |-> n, step |-> s, id |-> paxosId[c], val |-> v]
      OBVIOUS
    <3>2. /\ pc'[c] = "p2" /\ proposed'[c] = v /\ original'[c] = IsOriginal(c)
          /\ success'[c] = FALSE /\ current' = current /\ attempt' = attempt
          /\ Broadcast(c, n, m, net)
      BY <1>4, <2>4, <3>0, <3>1 DEF Propose, loopVars
    <3>3. m \in rumors'[n] /\ m.type = "propose" /\ m.val = v /\ m.step = s
      <4>1. m \in rumors'[n]
        BY <3>2, BroadcastRumors DEF Shape
      <4>2. m.type = "propose" /\ m.val = v /\ m.step = s
        BY <3>1
      <4> QED BY <4>1, <4>2
    <3>4. ProposedAt(proposed[c].uid, current[c])'
      BY <3>1, <3>2, <3>3 DEF ProposedAt
    <3>5. original'[c] => proposed'[c].uid = <<c, attempt'[c]>>
      <4>1. original'[c] => v = OwnValue(c)
        BY <3>0, <3>1, <3>2 DEF IsOriginal, ValueToPropose
      <4>2. OwnValue(c).uid = <<c, attempt[c]>>
        BY DEF OwnValue
      <4> QED BY <3>2, <4>1, <4>2
    <3> QED BY <3>2, <3>4, <3>5 DEF CallTold
  <2>5. CASE Accepted(c)
    <3>1. /\ pc[c] = "p2" /\ success[c] /\ pc'[c] \in {"check", "wait"}
          /\ pc'[c] = "wait" => original[c]
          /\ attempt' = attempt /\ current' = current
      BY <1>4, <2>5 DEF Accepted, loopVars
    <3>2. pc'[c] = "wait" => OwnDecided(c) /\ attempt[c] > 0
      BY <2>0, <3>1 DEF CallTold, OwnDecided, Shape, CallInv
    <3>3. OwnDecided(c) => OwnDecided(c)'
      <4>1. rumors' = rumors
        BY <2>5 DEF Accepted, gossipVars
      <4> QED BY <3>1, <4>1 DEF OwnDecided, Told, ProposedAt
    <3> QED BY <3>1, <3>2, <3>3 DEF CallTold
  <2>6. CASE Return(c)
    <3>1. /\ pc[c] = "wait" /\ pc'[c] = "done" /\ current[c] \in finished[CallNode[c]]
          /\ attempt' = attempt /\ current' = current /\ rumors' = rumors
      BY <1>4, <2>6 DEF Return, loopVars, gossipVars
    <3>2. current[c] < step[CallNode[c]]
      BY <2>0, <3>1 DEF Returning, TokensPast
    <3>3. OwnDecided(c) => OwnDecided(c)'
      BY <3>1 DEF OwnDecided, Told, ProposedAt
    <3> QED BY <1>2, <2>0, <3>1, <3>2, <3>3 DEF CallTold
  <2> QED BY <2>1, <2>2, <2>3, <2>4, <2>5, <2>6 DEF CallStep
<1> QED BY <1>3, <1>5, <1>6 DEF Returning

LEMMA ReturningInvariant == Spec => []Returning
<1>1. Init => Returning
  BY DEF Init, InitButRumors, Returning, TokensPast, CallTold
<1>2. Shape /\ Shape' /\ Sound /\ Returning /\ [Next]_vars => Returning'
  <2> SUFFICES ASSUME Shape, Shape', Sound, Returning, [Next]_vars PROVE Returning'
    OBVIOUS
  <2>1. ASSUME NEW o \in Node, NEW d \in Node, Receive(o, d) PROVE Returning'
    BY <2>1, ReceiveMessage, HandleReturning DEF Receive, Shape, TypeOK
  <2>2. ASSUME NEW t \in Thread, ProcessLocal(t) PROVE Returning'
    BY <2>2, LocalMessage, HandleReturning DEF ProcessLocal, Shape, TypeOK
  <2>3. ASSUME NEW c \in Call, CallStep(c) PROVE Returning'
    BY <2>3, CallReturning
  <2>4. CASE UNCHANGED vars
    <3>1. UNCHANGED <<step, finished>>
      BY <2>4 DEF vars, stepVars
    <3>2. UNCHANGED <<pc, current, attempt, proposed, original, success>>
      BY <2>4 DEF vars, callVars, loopVars
    <3>3. UNCHANGED rumors
      BY <2>4 DEF vars, gossipVars
    <3>4. TokensPast'
      BY <3>1 DEF Returning, TokensPast
    <3>5. ASSUME NEW c \in Call PROVE CallTold(c)'
      <4>1. CallTold(c)
        BY DEF Returning
      <4>2. \A o \in Node : rumors[o] \subseteq rumors'[o] /\ step[o] <= step'[o]
        BY <3>1, <3>3 DEF Shape, TypeOK, StepTypeOK, Steps
      <4> QED BY <3>2, <4>1, <4>2, CallToldKept
    <3> QED BY <3>4, <3>5 DEF Returning
  <2> QED BY <2>1, <2>2, <2>3, <2>4 DEF Next
<1> QED BY <1>1, <1>2, ShapeInvariant, SoundInvariant, PTL DEF Spec

\* When Tag has returned without an error after it ran Paxos, its node has left
\* the step of the call's last iteration, and the proposal of this iteration, the
\* call's own, was announced as decided and accepted by a threshold of peers.
ReturnsDecided ==
    \A c \in Call : (pc[c] = "done" /\ attempt[c] > 0) =>
        /\ current[c] < step[CallNode[c]]
        /\ OwnDecided(c)
        /\ Cardinality(Acceptors(<<c, attempt[c]>>)) >= PaxosThreshold

THEOREM ReturnsAreDecided == Spec => []ReturnsDecided
<1>1. Returning /\ DecisionBacked => ReturnsDecided
  BY DEF Returning, CallTold, ReturnsDecided, OwnDecided, Told, DecisionBacked
<1> QED BY <1>1, ReturningInvariant, DecisionsBacked, PTL

-----------------------------------------------------------------------------
(* What a return means if no proposal comes late                           *)

\* A call that proposes is at the step of its node's clock.
FreshProposals == \A c \in Call : Propose(c) => current[c] = step[CallNode[c]]

\* An identifier is proposed at one step only.
OneStep ==
    \A n, o \in Node : \A m \in rumors[n], r \in rumors[o] :
        (m.type = "propose" /\ r.type = "propose" /\ m.val.uid = r.val.uid) => m.step = r.step

LEMMA KeepOneStep ==
    ASSUME OneStep, \A n \in Node : \A m \in rumors'[n] : m \in rumors[n] \/ m.type # "propose"
    PROVE  OneStep'
BY DEF OneStep

LEMMA HandleOneStep ==
    ASSUME Shape, OneStep, NEW t, NEW n \in Node, NEW m \in Message, NEW q, Handle(t, n, m, q)
    PROVE  OneStep'
<1> SUFFICES \A o \in Node : \A r \in rumors'[o] : r \in rumors[o] \/ r.type # "propose"
  BY KeepOneStep
<1>1. CASE HandlePrepare(t, n, m, q)
  <2> DEFINE p == [type |-> "promise", src |-> n, dest |-> m.src, step |-> step[n],
                   id |-> m.id, accId |-> acceptedId[n], accVal |-> acceptedValue[n]]
  <2>1. (Broadcast(t, n, p, q) \/ Finish(t, q)) /\ p.type # "propose"
    BY <1>1 DEF HandlePrepare
  <2> HIDE DEF p
  <2> QED BY <2>1, BroadcastAdds DEF Finish
<1>2. CASE HandlePropose(t, n, m, q)
  <2> DEFINE r == [type |-> "accept", src |-> n, step |-> m.step, id |-> m.id,
                   val |-> m.val]
  <2>1. (Broadcast(t, n, r, q) \/ Finish(t, q)) /\ r.type # "propose"
    BY <1>2 DEF HandlePropose
  <2> HIDE DEF r
  <2> QED BY <2>1, BroadcastAdds DEF Finish
<1>3. CASE HandlePromise(t, n, m, q)
  BY <1>3 DEF HandlePromise, Finish
<1>4. CASE HandleAccept(t, n, m, q)
  <2> DEFINE r == [type |-> "tlc", src |-> n, step |-> m.step,
                   block |-> NewBlock(n, m.step, m.val)]
  <2>1. (Broadcast(t, n, r, q) \/ Finish(t, q)) /\ r.type # "propose"
    BY <1>4 DEF HandleAccept
  <2> HIDE DEF r
  <2> QED BY <2>1, BroadcastAdds DEF Finish
<1>5. CASE HandleTLC(t, n, m, q)
  <2> DEFINE r == [m EXCEPT !.src = n]
  <2>1. \/ rumors' = rumors
        \/ rumors' = [rumors EXCEPT ![n] = @ \cup {r}]
    BY <1>5 DEF HandleTLC, StoreTLC, AdvanceStep, Finish
  <2>2. r.type # "propose"
    BY <1>5, MessageKinds DEF HandleTLC, TLCMessage
  <2> HIDE DEF r
  <2> QED BY <2>1, <2>2 DEF Shape, TypeOK, GossipTypeOK
<1> QED BY <1>1, <1>2, <1>3, <1>4, <1>5 DEF Handle

\* A new proposal has a new identifier, or that of a value which was proposed at
\* the step of the node, and is made at this step.
LEMMA CallOneStep ==
    ASSUME Shape, Sound, OneStep, NEW c \in Call, CallStep(c), FreshProposals
    PROVE  OneStep'
<1>1. CASE StartPhaseOne(c)
  <2>1. PICK m : m.type = "prepare" /\ Broadcast(c, CallNode[c], m, net)
    BY <1>1 DEF StartPhaseOne
  <2> QED BY <2>1, BroadcastAdds, CallAssumption, KeepOneStep
<1>2. CASE CallMoves(c)
  BY <1>2, CallMovesKeep, KeepOneStep DEF gossipVars
<1>3. CASE Propose(c)
  <2>1. PICK n \in Node : n = CallNode[c]
    BY CallAssumption
  <2>2. PICK v, s, m :
            /\ v = ValueToPropose(c) /\ s = current[c]
            /\ m = [type |-> "propose", src |-> n, step |-> s, id |-> paxosId[c], val |-> v]
    OBVIOUS
  <2>3. Broadcast(c, n, m, net) /\ pc[c] = "p1" /\ s = step[n]
    BY <1>3, <2>1, <2>2 DEF Propose, FreshProposals
  <2>4. m.type = "propose" /\ m.val = v /\ m.step = s
    BY <2>2
  <2>5. \A o \in Node : \A r \in rumors'[o] : r \in rumors[o] \/ r = m
    BY <2>3, BroadcastAdds
  <2>6. ASSUME NEW o \in Node, NEW r \in rumors[o], r.type = "propose", r.val.uid = v.uid
        PROVE  r.step = s
    <3>1. CASE highestAcceptedValue[n] # None
      <4>1. v = highestAcceptedValue[n]
        BY <2>1, <2>2, <3>1 DEF ValueToPropose
      <4>2. ProposedAt(v.uid, s)
        BY <2>3, <3>1, <4>1 DEF Sound, MemorySound, ValueAt
      <4> QED BY <2>6, <4>2 DEF ProposedAt, OneStep
    <3>2. CASE highestAcceptedValue[n] = None
      <4>1. v = OwnValue(c)
        BY <2>1, <2>2, <3>2 DEF ValueToPropose
      <4>2. v.uid[1] = c /\ v.uid[2] = attempt[c]
        BY <4>1 DEF OwnValue
      <4>3. Used(v.uid)
        BY <2>6 DEF Sound, RumorsSound, SoundMessage, ValueAt
      <4>4. attempt[c] \in Nat
        BY BoundAssumption DEF Shape, TypeOK, CallTypeOK
      <4> QED BY <2>3, <4>2, <4>3, <4>4 DEF Used
    <3> QED BY <3>1, <3>2
  <2>7. ASSUME NEW o \in Node, NEW r \in rumors'[o], r.type = "propose", r.val.uid = v.uid
        PROVE  r.step = s
    BY <2>4, <2>5, <2>6, <2>7
  <2> SUFFICES ASSUME NEW x \in Node, NEW y \in Node, NEW a \in rumors'[x], NEW b \in rumors'[y],
                      a.type = "propose", b.type = "propose", a.val.uid = b.val.uid
               PROVE  a.step = b.step
    BY DEF OneStep
  <2>8. CASE a = m \/ b = m
    BY <2>4, <2>7, <2>8
  <2>9. CASE a # m /\ b # m
    BY <2>5, <2>9 DEF OneStep
  <2> QED BY <2>8, <2>9
<1> QED BY <1>1, <1>2, <1>3 DEF CallStep, CallMoves

LEMMA OneStepInvariant == Spec /\ [][FreshProposals]_vars => []OneStep
<1>1. Init => OneStep
  BY DEF Init, OneStep
<1>2. Shape /\ Sound /\ OneStep /\ [Next]_vars /\ [FreshProposals]_vars => OneStep'
  <2> SUFFICES ASSUME Shape, Sound, OneStep, [Next]_vars, [FreshProposals]_vars PROVE OneStep'
    OBVIOUS
  <2>1. CASE UNCHANGED vars
    BY <2>1 DEF vars, gossipVars, OneStep
  <2>2. CASE FreshProposals
    <3>1. ASSUME NEW o \in Node, NEW d \in Node, Receive(o, d) PROVE OneStep'
      BY <3>1, ReceiveMessage, HandleOneStep DEF Receive, Shape, TypeOK
    <3>2. ASSUME NEW t \in Thread, ProcessLocal(t) PROVE OneStep'
      BY <3>2, LocalMessage, HandleOneStep DEF ProcessLocal, Shape, TypeOK
    <3>3. ASSUME NEW c \in Call, CallStep(c) PROVE OneStep'
      BY <2>2, <3>3, CallOneStep
    <3> QED BY <2>1, <3>1, <3>2, <3>3 DEF Next
  <2> QED BY <2>1, <2>2
<1> QED BY <1>1, <1>2, ShapeInvariant, SoundInvariant, PTL DEF Spec

\* If no call proposes after its node has left the step, a call that returns
\* finds its own block in the blockchain of its node, as long as Paxos decides
\* one value for each step.
THEOREM ReturnsCommitted == Spec /\ [][FreshProposals]_vars => [](DecidedOnce => DoneCommitted)
<1>1. Shape /\ Sound /\ Returning /\ OneStep /\ DecidedOnce => DoneCommitted
  <2> SUFFICES ASSUME Shape, Sound, Returning, OneStep, DecidedOnce, NEW c \in Call,
                      pc[c] = "done", attempt[c] > 0
               PROVE  Committed(c, CallNode[c])
    BY DEF DoneCommitted
  <2> DEFINE u == <<c, attempt[c]>>
             i == current[c] + 1
  <2>1. PICK n \in Node : n = CallNode[c]
    BY CallAssumption
  <2>2. OwnDecided(c) /\ current[c] < step[n]
    BY <2>1 DEF Returning, CallTold
  <2>3. /\ current[c] \in Nat /\ Len(chain[n]) = step[n] /\ step[n] \in Nat
        /\ DOMAIN chain[n] = 1 .. Len(chain[n])
    BY LenProperties DEF Shape, TypeOK, CallTypeOK, StepTypeOK, StoreTypeOK, ChainLength, Steps
  <2>4. i \in 1 .. Len(chain[n]) /\ i - 1 = current[c]
    BY <2>2, <2>3
  <2>5. Announced(chain[n][i], current[c])
    <3>1. StoredAt(chain[n][i], i - 1)
      BY <2>4, SoundChain
    <3> QED BY <2>4, <3>1 DEF StoredAt
  <2> HIDE DEF u, i
  <2>6. PICK o \in Node : \E r \in rumors[o] : r.type = "tlc" /\ r.block.value.uid = u
    BY <2>2 DEF OwnDecided, Told, u
  <2>7. PICK r \in rumors[o] : r.type = "tlc" /\ r.block.value.uid = u
    BY <2>6
  <2>8. r.step = current[c]
    <3>1. ProposedAt(u, r.step)
      BY <2>7 DEF Sound, RumorsSound, SoundMessage, BlockAt, ValueAt
    <3>2. ProposedAt(u, current[c])
      BY <2>2 DEF OwnDecided, u
    <3> QED BY <3>1, <3>2 DEF ProposedAt, OneStep
  <2>9. chain[n][i].value.uid = u
    BY <2>5, <2>7, <2>8 DEF Announced, DecidedOnce
  <2>10. chain[n][i].value.uid[1] = c
    BY <2>9 DEF u
  <2> QED BY <2>1, <2>3, <2>4, <2>10 DEF Committed
<1> QED BY <1>1, ShapeInvariant, SoundInvariant, ReturningInvariant, OneStepInvariant, PTL

-----------------------------------------------------------------------------
(* The ledger                                                              *)

\* LongestChain is Longest(chain).
Longest(f) == f[CHOOSE n \in Node : \A o \in Node : Len(f[o]) <= Len(f[n])]

Returned == {c \in Call : pc[c] = "done" /\ attempt[c] > 0}

LEMMA LongestExists ==
    ASSUME NEW f, \A n \in Node : Len(f[n]) \in Steps
    PROVE  \E n \in Node : /\ Longest(f) = f[n]
                           /\ \A o \in Node : Len(f[o]) <= Len(f[n])
<1> DEFINE S == {Len(f[n]) : n \in Node}
<1>1. S \in SUBSET (0 .. MaxStep) /\ MaxStep \in Nat
  BY BoundAssumption DEF Steps
<1>2. S # {}
  <2>1. PICK n : n \in Node
    BY NodeAssumption
  <2> QED BY <2>1
<1>3. IsFiniteSet(S)
  <2>1. IsFiniteSet(0 .. MaxStep)
    BY <1>1, FS_Interval
  <2> HIDE DEF S
  <2> QED BY <1>1, <2>1, FS_Subset
<1>4. LastIn(S) \in S /\ \A j \in S : j <= LastIn(S)
  <2> HIDE DEF S
  <2>1. S \in SUBSET Nat
    BY <1>1
  <2> QED BY <1>2, <1>3, <2>1, LastExists
<1>5. PICK n \in Node : LastIn(S) = Len(f[n])
  BY <1>4
<1>6. \A o \in Node : Len(f[o]) <= Len(f[n])
  BY <1>4, <1>5
<1> QED BY <1>6 DEF Longest

LEMMA LedgerIsLongest ==
    ASSUME Shape
    PROVE  \E n \in Node : /\ LongestChain = chain[n]
                           /\ \A o \in Node : Len(chain[o]) <= Len(chain[n])
<1>1. \A n \in Node : Len(chain[n]) \in Steps
  BY DEF Shape, ChainLength, TypeOK, StepTypeOK
<1> QED BY <1>1, LongestExists DEF LongestChain, Longest

\* Of two sequences that agree where both are defined the shorter is a prefix.
LEMMA AgreedPrefix ==
    ASSUME NEW a \in Seq(Block), NEW b \in Seq(Block), Len(a) <= Len(b),
           \A i \in DOMAIN a \cap DOMAIN b : a[i] = b[i]
    PROVE  L!IsPrefix(a, b) /\ (Len(a) = Len(b) => a = b)
<1>1. /\ Len(a) \in Nat /\ Len(b) \in Nat
      /\ DOMAIN a = 1 .. Len(a) /\ DOMAIN b = 1 .. Len(b)
  BY LenProperties
<1>2. \A i \in 1 .. Len(a) : a[i] = b[i]
  BY <1>1
<1>3. SubSeq(a, 1, Len(a)) = SubSeq(b, 1, Len(a))
  BY <1>1, <1>2, SubSeqProperties, SeqEqual
<1>4. Len(a) = Len(b) => a = b
  BY <1>1, <1>2, SeqEqual
<1> QED BY <1>3, <1>4 DEF L!IsPrefix

\* A step that leaves the blockchains alone leaves the ledger alone.
LEMMA SameLedger ==
    ASSUME chain' = chain
    PROVE  LongestChain' = LongestChain
<1>1. LongestChain = Longest(chain) /\ LongestChain' = Longest(chain')
  BY DEF LongestChain, Longest
<1> QED BY <1>1

\* A call that returns finds its block in the ledger.
LEMMA ReturnLedger ==
    ASSUME Shape, Returning, Agreement, DoneCommitted', NEW c \in Call, Return(c)
    PROVE  L!Return(c)
<1>1. /\ pc[c] = "wait" /\ pc' = [pc EXCEPT ![c] = "done"]
      /\ attempt' = attempt /\ chain' = chain
  BY DEF Return, loopVars, storeVars
<1>2. attempt[c] > 0
  BY <1>1 DEF Returning, CallTold
<1>3. Returned' = Returned \cup {c} /\ c \notin Returned
  BY <1>1, <1>2 DEF Returned, Shape, TypeOK, CallTypeOK
<1>4. PICK n \in Node : n = CallNode[c]
  BY CallAssumption
<1>5. PICK i \in DOMAIN chain[n] : chain[n][i].value.uid[1] = c
  <2>1. pc'[c] = "done" /\ attempt'[c] > 0
    BY <1>1, <1>2 DEF Shape, TypeOK, CallTypeOK
  <2> QED BY <1>1, <1>4, <2>1 DEF DoneCommitted, Committed
<1>6. PICK l \in Node : /\ LongestChain = chain[l]
                        /\ \A o \in Node : Len(chain[o]) <= Len(chain[l])
  BY LedgerIsLongest
<1>7. i \in DOMAIN chain[l] /\ chain[l][i].value.uid[1] = c
  <2>1. /\ Len(chain[n]) \in Nat /\ Len(chain[l]) \in Nat
        /\ DOMAIN chain[n] = 1 .. Len(chain[n]) /\ DOMAIN chain[l] = 1 .. Len(chain[l])
    BY LenProperties DEF Shape, TypeOK, StoreTypeOK
  <2>2. i \in DOMAIN chain[l]
    BY <1>6, <2>1
  <2> QED BY <1>5, <2>2 DEF Agreement
<1> QED BY <1>1, <1>3, <1>6, <1>7, SameLedger DEF L!Return, BlockAuthor, Returned

\* Every other step of a call leaves the blockchains and the returned calls.
LEMMA CallLedger ==
    ASSUME Shape, Sound, Returning, Agreement, DoneCommitted', NEW c \in Call, CallStep(c)
    PROVE  L!Return(c) \/ UNCHANGED L!ledgerVars
<1>1. CASE Return(c)
  BY <1>1, ReturnLedger
<1>2. CASE ~ Return(c)
  <2>1. chain' = chain
    BY DEF CallStep, BeginCall, CheckName, StartPhaseOne, Timeout, Propose, Accepted, Return,
           storeVars
  <2>2. /\ pc[c] # "done" /\ (pc'[c] = "done" => attempt'[c] = 0)
        /\ \A d \in Call \ {c} : pc'[d] = pc[d] /\ attempt'[d] = attempt[d]
    BY <1>2
       DEF CallStep, BeginCall, CheckName, StartPhaseOne, Timeout, Propose, Accepted,
           loopVars, Sound, IdleNew, Shape, TypeOK, CallTypeOK
  <2>3. Returned' = Returned
    BY <2>2 DEF Returned
  <2> QED BY <2>1, <2>3, SameLedger DEF L!ledgerVars, Returned
<1> QED BY <1>1, <1>2

\* A node that leaves steps of the clock takes the blocks it lacks from the
\* ledger, or is the first to append them to it.
LEMMA AdvanceLedger ==
    ASSUME Shape, Shape', Agreement, Agreement', NEW t, NEW n \in Node, NEW m \in Message,
           NEW q, HandleTLC(t, n, m, q), AdvanceStep(t, n, m, q)
    PROVE  L!Extend(n)
<1>1. PICK blocks \in Seq(Block) : /\ chain' = [chain EXCEPT ![n] = @ \o blocks]
                                   /\ Len(blocks) > 0
  <2>1. m \in TLCMessage /\ m.step = step[n] /\ step[n] < MaxStep
    BY MessageKinds DEF HandleTLC, AdvanceStep
  <2> DEFINE top == CatchUpStep(n, step[n])
             blocks == CommittedBlocks(n, m, top)
  <2>2. step[n] \in Nat /\ top \in step[n] + 1 .. MaxStep /\ MaxStep \in Nat
    BY <2>1, CatchUpStepExists, BoundAssumption DEF Shape, TypeOK, StepTypeOK, Steps
  <2>3. blocks \in Seq(Block) /\ Len(blocks) = top - m.step
    BY <2>1, CommittedBlocksType DEF Shape, TypeOK
  <2>4. chain' = [chain EXCEPT ![n] = @ \o blocks]
    BY DEF AdvanceStep
  <2>5. Len(blocks) > 0
    BY <2>1, <2>2, <2>3
  <2> HIDE DEF blocks
  <2> QED BY <2>3, <2>4, <2>5
<1>2. /\ chain \in [Node -> Seq(Block)] /\ chain' \in [Node -> Seq(Block)]
      /\ \A o \in Node : Len(chain[o]) \in Nat /\ Len(chain'[o]) \in Nat
  BY LenProperties DEF Shape, TypeOK, StoreTypeOK
<1>3. /\ chain'[n] = chain[n] \o blocks
      /\ \A o \in Node \ {n} : chain'[o] = chain[o]
  BY <1>1, <1>2
<1>4. Len(chain[n]) < Len(chain'[n]) /\ L!IsPrefix(chain[n], chain'[n])
  <2>1. chain[n] \in Seq(Block)
    BY <1>2
  <2>2. /\ Len(chain'[n]) = Len(chain[n]) + Len(blocks)
        /\ \A i \in 1 .. Len(chain[n]) : chain'[n][i] = chain[n][i]
        /\ Len(blocks) \in Nat
    BY <1>3, <2>1, ChainExtends
  <2>3. DOMAIN chain[n] = 1 .. Len(chain[n]) /\ chain'[n] \in Seq(Block)
    BY <1>2, <2>1, LenProperties
  <2>4. Len(chain[n]) < Len(chain'[n])
    BY <1>1, <1>2, <2>2
  <2>5. L!IsPrefix(chain[n], chain'[n])
    <3>1. Len(chain[n]) <= Len(chain'[n])
      BY <1>2, <2>4
    <3>2. \A i \in DOMAIN chain[n] \cap DOMAIN chain'[n] : chain[n][i] = chain'[n][i]
      BY <2>2, <2>3
    <3> QED BY <2>1, <2>3, <3>1, <3>2, AgreedPrefix
  <2> QED BY <2>4, <2>5
<1>5. \A o \in Node, p \in Node :
          Len(chain'[o]) <= Len(chain'[p]) =>
              /\ L!IsPrefix(chain'[o], chain'[p])
              /\ Len(chain'[o]) = Len(chain'[p]) => chain'[o] = chain'[p]
  BY <1>2, AgreedPrefix DEF Agreement
<1>6. PICK l \in Node : /\ LongestChain = chain[l]
                        /\ \A o \in Node : Len(chain[o]) <= Len(chain[l])
  BY LedgerIsLongest
<1>7. PICK k \in Node : /\ LongestChain' = chain'[k]
                        /\ \A o \in Node : Len(chain'[o]) <= Len(chain'[k])
  <2>1. \A o \in Node : Len(chain'[o]) \in Steps
    <3>1. ChainLength' /\ step' \in [Node -> Steps]
      BY DEF Shape, TypeOK, StepTypeOK
    <3>2. \A o \in Node : Len(chain'[o]) = step'[o]
      BY <3>1 DEF ChainLength
    <3> QED BY <3>1, <3>2
  <2> QED BY <2>1, LongestExists DEF LongestChain, Longest
<1>8. UNCHANGED Returned
  BY DEF HandleTLC, callVars, loopVars, Returned
<1>9. chain' = [chain EXCEPT ![n] = chain'[n]]
  BY <1>1, <1>2
<1>10. CASE Len(chain'[n]) <= Len(chain[l])
  <2>1. l # n /\ chain'[l] = chain[l]
    BY <1>2, <1>3, <1>4, <1>10
  <2>2. Len(chain'[k]) = Len(chain'[l])
    <3>1. Len(chain'[k]) <= Len(chain'[l])
      BY <1>3, <1>6, <1>10, <2>1
    <3> QED BY <1>2, <1>7, <3>1
  <2>3. LongestChain' = LongestChain
    BY <1>2, <1>5, <1>6, <1>7, <2>1, <2>2
  <2>4. L!IsPrefix(chain'[n], LongestChain)
    BY <1>5, <1>6, <1>10, <2>1
  <2> QED BY <1>4, <1>8, <1>9, <2>3, <2>4 DEF L!Extend, L!IsStrictPrefix, Returned
<1>11. CASE Len(chain[l]) < Len(chain'[n])
  <2>1. k = n
    <3>1. \A o \in Node \ {n} : Len(chain'[o]) < Len(chain'[n])
      BY <1>2, <1>3, <1>6, <1>11
    <3> QED BY <1>2, <1>7, <3>1
  <2>2. L!IsPrefix(chain[l], chain'[n])
    <3>1. CASE l = n
      BY <1>4, <3>1
    <3>2. CASE l # n
      <4>1. chain'[l] = chain[l] /\ Len(chain'[l]) <= Len(chain'[n])
        BY <1>2, <1>3, <1>11, <3>2
      <4> QED BY <1>5, <4>1
    <3> QED BY <3>1, <3>2
  <2>3. L!IsStrictPrefix(LongestChain, chain'[n])
    BY <1>2, <1>6, <1>11, <2>2 DEF L!IsStrictPrefix
  <2> QED BY <1>4, <1>7, <1>8, <1>9, <2>1, <2>3 DEF L!Extend, L!IsStrictPrefix, Returned
<1> QED BY <1>2, <1>10, <1>11

LEMMA HandleLedger ==
    ASSUME Shape, Shape', Agreement, Agreement', NEW t, NEW n \in Node, NEW m \in Message,
           NEW q, Handle(t, n, m, q)
    PROVE  L!Extend(n) \/ UNCHANGED L!ledgerVars
<1>1. /\ UNCHANGED <<attempt, pc>>
      /\ chain' = chain \/ (HandleTLC(t, n, m, q) /\ AdvanceStep(t, n, m, q))
  BY HandleKeeps
<1>2. CASE chain' = chain
  <2>1. Returned' = Returned
    BY <1>1 DEF Returned
  <2> QED BY <1>2, <2>1, SameLedger DEF L!ledgerVars, Returned
<1> QED BY <1>1, <1>2, AdvanceLedger

\* While the blockchains agree and every return is committed, each step of the
\* consensus is a step of the abstract ledger or leaves it alone.
THEOREM ConsensusBuildsLedger == Spec /\ [](Agreement /\ DoneCommitted) => ImplementsLedger
<1>1. Init => L!Init
  <2> SUFFICES ASSUME Init PROVE L!Init
    OBVIOUS
  <2>1. Returned = {}
    BY DEF Init, InitButRumors, Returned
  <2>2. chain = [n \in Node |-> << >>]
    BY DEF Init, InitButRumors
  <2>3. PICK n \in Node : LongestChain = chain[n]
    BY InitShape, LedgerIsLongest
  <2> QED BY <2>1, <2>2, <2>3 DEF L!Init, Returned
<1>2. Shape /\ Shape' /\ Sound /\ Returning /\ Agreement /\ Agreement' /\ DoneCommitted'
      /\ [Next]_vars => [L!Next]_(L!ledgerVars)
  <2> SUFFICES ASSUME Shape, Shape', Sound, Returning, Agreement, Agreement', DoneCommitted',
                      [Next]_vars
               PROVE  L!Next \/ UNCHANGED L!ledgerVars
    OBVIOUS
  <2>1. ASSUME NEW o \in Node, NEW d \in Node, Receive(o, d)
        PROVE  L!Next \/ UNCHANGED L!ledgerVars
    <3>1. L!Extend(d) \/ UNCHANGED L!ledgerVars
      BY <2>1, ReceiveMessage, HandleLedger DEF Receive, Shape, TypeOK
    <3> QED BY <3>1 DEF L!Next
  <2>2. ASSUME NEW t \in Thread, ProcessLocal(t)
        PROVE  L!Next \/ UNCHANGED L!ledgerVars
    <3>1. NodeOf(t) \in Node
      BY NodeOfType
    <3>2. L!Extend(NodeOf(t)) \/ UNCHANGED L!ledgerVars
      BY <2>2, LocalMessage, HandleLedger DEF ProcessLocal, Shape, TypeOK
    <3> QED BY <3>1, <3>2 DEF L!Next
  <2>3. ASSUME NEW c \in Call, CallStep(c)
        PROVE  L!Next \/ UNCHANGED L!ledgerVars
    <3>1. L!Return(c) \/ UNCHANGED L!ledgerVars
      BY <2>3, CallLedger
    <3> QED BY <3>1 DEF L!Next
  <2>4. CASE UNCHANGED vars
    <3>1. chain' = chain /\ UNCHANGED <<pc, attempt>>
      BY <2>4 DEF vars, storeVars, callVars, loopVars
    <3>2. Returned' = Returned
      BY <3>1 DEF Returned
    <3> QED BY <3>1, <3>2, SameLedger DEF L!ledgerVars, Returned
  <2> QED BY <2>1, <2>2, <2>3, <2>4 DEF Next
<1> QED BY <1>1, <1>2, ShapeInvariant, SoundInvariant, ReturningInvariant, PTL
        DEF Spec, ImplementsLedger, L!Spec

\* What the ledger needs of Paxos: one decision per step, and no late proposal.
THEOREM LedgerImplemented ==
    Spec /\ [][FreshProposals]_vars /\ []DecidedOnce => ImplementsLedger
BY DecisionsAgree, ReturnsCommitted, ConsensusBuildsLedger, PTL

-----------------------------------------------------------------------------
(* Paxos                                                                   *)

\* No two calls of a node start an iteration at the same step.
OneProposer ==
    \A c, d \in Call :
        (CallNode[c] = CallNode[d] /\ previous[c] = previous[d] /\ previous[c] # -1) => c = d

\* What nodes have broadcast.
Prepared(n, s, i) == \E r \in rumors[n] : r.type = "prepare" /\ r.step = s /\ r.id = i
Promised(o, s, i, k) ==
    \E r \in rumors[o] : r.type = "promise" /\ r.step = s /\ r.id = i /\ r.accId <= k
Proposal(s, i, v) ==
    \E n \in Node : \E r \in rumors[n] :
        r.type = "propose" /\ r.step = s /\ r.id = i /\ r.val = v

\* The numbers of a node.
NumberOf(n, i) == \E k \in Nat : i = PaxosID[n] + k * N

\* The number i of a node was given out before the present proposal of the call
\* that runs at its step.
Given(n, i, used) ==
    \E c \in Call :
        /\ CallNode[c] = n /\ previous[c] = step[n] /\ i <= paxosId[c]
        /\ (used /\ pc[c] = "p1") => i < paxosId[c]

\* A call goes up in its node's numbers as long as the step lasts.
CallNumbers ==
    \A c \in Call :
        /\ previous[c] <= step[CallNode[c]]
        /\ pc[c] = "p1" => previous[c] = current[c]
        /\ previous[c] # -1 => NumberOf(CallNode[c], paxosId[c])
RumorNumbers ==
    \A n \in Node : \A r \in rumors[n] : r.type \in {"prepare", "propose"} =>
        /\ NumberOf(n, r.id)
        /\ r.step <= step[n]
        /\ r.step = step[n] => Given(n, r.id, r.type = "propose")

\* A number has one value at a step.
OneValue ==
    \A n, o \in Node : \A a \in rumors[n], b \in rumors[o] :
        (a.type = "propose" /\ b.type = "propose" /\ a.step = b.step /\ a.id = b.id)
            => a.val = b.val

\* A threshold has promised the number of a proposal and reported nothing, or
\* accepted numbers up to one that proposes the same value.
Safe(s, i, v) ==
    \E Q \in SUBSET Node : \E k \in Nat :
        /\ Cardinality(Q) >= PaxosThreshold
        /\ k < i /\ (k > 0 => Proposal(s, k, v))
        /\ \A o \in Q : Promised(o, s, i, k)
SafeProposals ==
    \A n \in Node : \A r \in rumors[n] : r.type = "propose" => Safe(r.step, r.id, r.val)

Proposals == CallNumbers /\ RumorNumbers /\ OneValue /\ SafeProposals

\* What was accepted, with its number, was proposed.
Vote(s, k, v) == (k = 0 <=> v = None) /\ (k > 0 => Proposal(s, k, v))
VoteMessage(r) ==
    /\ r.type = "accept" => Proposal(r.step, r.id, r.val)
    /\ r.type = "promise" =>
           /\ r.accId < r.id /\ Vote(r.step, r.accId, r.accVal)
           /\ Prepared(r.dest, r.step, r.id)
VotesSent == \A n \in Node : \A r \in rumors[n] : VoteMessage(r)
VotesKept ==
    \A n \in Node : /\ Vote(step[n], acceptedId[n], acceptedValue[n])
                    /\ Vote(step[n], highestAcceptedId[n], highestAcceptedValue[n])
Votes == VotesSent /\ VotesKept

\* What a call that waits for promises has counted.
Counting(c) ==
    LET n == CallNode[c] IN
    /\ highestAcceptedId[n] < paxosId[c]
    /\ \A o \in phaseOnePeers[c] : Promised(o, current[c], paxosId[c], highestAcceptedId[n])
    /\ success[c] => Cardinality(phaseOnePeers[c]) >= PaxosThreshold
Counts == \A c \in Call : (pc[c] = "p1" /\ current[c] = step[CallNode[c]]) => Counting(c)

\* A promise reaches the peer that it is for.
Addressed(q) ==
    \A o, d \in Node : \A i \in 1 .. Len(q[o][d]) : ActsOn(q[o][d][i], d)
Delivery == Addressed(net) /\ \A t \in Thread : local[t] # None => ActsOn(local[t], NodeOf(t))

Paxos == Proposals /\ Votes /\ Counts /\ Delivery

\* What was broadcast stays broadcast.
LEMMA SentStays ==
    ASSUME \A n \in Node : rumors[n] \subseteq rumors'[n]
    PROVE  /\ \A n \in Node : \A s, i : Prepared(n, s, i) => Prepared(n, s, i)'
           /\ \A n \in Node : \A s, i, k : Promised(n, s, i, k) => Promised(n, s, i, k)'
           /\ \A s, i, v : Proposal(s, i, v) => Proposal(s, i, v)'
           /\ \A s, k, v : Vote(s, k, v) => Vote(s, k, v)'
           /\ \A s, i, v : Safe(s, i, v) => Safe(s, i, v)'
<1>1. \A n \in Node : \A s, i : Prepared(n, s, i) => Prepared(n, s, i)'
  BY DEF Prepared
<1>2. \A n \in Node : \A s, i, k : Promised(n, s, i, k) => Promised(n, s, i, k)'
  BY DEF Promised
<1>3. \A s, i, v : Proposal(s, i, v) => Proposal(s, i, v)'
  BY DEF Proposal
<1>4. \A s, k, v : Vote(s, k, v) => Vote(s, k, v)'
  BY <1>3 DEF Vote
<1>5. ASSUME NEW s, NEW i, NEW v, Safe(s, i, v) PROVE Safe(s, i, v)'
  <2>1. PICK Q \in SUBSET Node, k \in Nat :
            /\ Cardinality(Q) >= PaxosThreshold
            /\ k < i /\ (k > 0 => Proposal(s, k, v))
            /\ \A o \in Q : Promised(o, s, i, k)
    BY <1>5 DEF Safe
  <2>2. (k > 0 => Proposal(s, k, v)') /\ \A o \in Q : Promised(o, s, i, k)'
    BY <1>2, <1>3, <2>1
  <2> QED BY <2>1, <2>2 DEF Safe
<1> QED BY <1>1, <1>2, <1>3, <1>4, <1>5

\* A main loop and a thread that processes its own message prepare nothing and
\* propose nothing; the clock does not go back.
LEMMA HandleQuiet ==
    ASSUME Shape, NEW t, NEW n \in Node, NEW m \in Message, NEW q, Handle(t, n, m, q)
    PROVE  /\ UNCHANGED <<pc, current, previous, paxosId>>
           /\ \A o \in Node : rumors[o] \subseteq rumors'[o] /\ step[o] <= step'[o]
           /\ \A o \in Node : \A r \in rumors'[o] :
                  r \in rumors[o] \/ r.type \notin {"prepare", "propose"}
<1>1. UNCHANGED <<pc, current, previous, paxosId>>
  BY DEF Handle, HandlePrepare, HandlePropose, HandlePromise, HandleAccept, HandleTLC,
         callVars, loopVars
<1>2. \A o \in Node : rumors[o] \subseteq rumors'[o]
  BY HandleKeeps
<1>3. \A o \in Node : step[o] <= step'[o]
  <2>1. \A o \in Node : step[o] \in Nat
    BY DEF Shape, TypeOK, StepTypeOK, Steps
  <2>2. CASE AdvanceStep(t, n, m, q) /\ HandleTLC(t, n, m, q)
    <3>1. m.step = step[n] /\ step[n] \in Steps /\ step[n] < MaxStep
      BY <2>2 DEF AdvanceStep, Shape, TypeOK, StepTypeOK
    <3>2. CatchUpStep(n, step[n]) \in step[n] + 1 .. MaxStep
      BY <3>1, CatchUpStepExists DEF Shape, TypeOK, StepTypeOK
    <3>3. step' = [step EXCEPT ![n] = CatchUpStep(n, step[n])]
      BY <2>2 DEF AdvanceStep
    <3>4. step'[n] >= step[n] /\ \A o \in Node \ {n} : step'[o] = step[o]
      BY <2>1, <3>2, <3>3 DEF Shape, TypeOK, StepTypeOK
    <3> QED BY <2>1, <3>4
  <2>3. CASE ~ (AdvanceStep(t, n, m, q) /\ HandleTLC(t, n, m, q))
    <3>1. step' = step
      BY <2>3 DEF Handle, HandlePrepare, HandlePropose, HandlePromise, HandleAccept, HandleTLC,
                  StoreTLC, stepVars
    <3> QED BY <2>1, <3>1
  <2> QED BY <2>2, <2>3
<1>4. \A o \in Node : \A r \in rumors'[o] :
          r \in rumors[o] \/ r.type \notin {"prepare", "propose"}
  <2>1. CASE HandlePrepare(t, n, m, q)
    <3> DEFINE p == [type |-> "promise", src |-> n, dest |-> m.src, step |-> step[n],
                     id |-> m.id, accId |-> acceptedId[n], accVal |-> acceptedValue[n]]
    <3>1. (Broadcast(t, n, p, q) \/ Finish(t, q)) /\ p.type = "promise"
      BY <2>1 DEF HandlePrepare
    <3> HIDE DEF p
    <3> QED BY <3>1, BroadcastAdds DEF Finish
  <2>2. CASE HandlePropose(t, n, m, q)
    <3> DEFINE r == [type |-> "accept", src |-> n, step |-> m.step, id |-> m.id,
                     val |-> m.val]
    <3>1. (Broadcast(t, n, r, q) \/ Finish(t, q)) /\ r.type = "accept"
      BY <2>2 DEF HandlePropose
    <3> HIDE DEF r
    <3> QED BY <3>1, BroadcastAdds DEF Finish
  <2>3. CASE HandlePromise(t, n, m, q)
    BY <2>3 DEF HandlePromise, Finish
  <2>4. CASE HandleAccept(t, n, m, q)
    <3> DEFINE r == [type |-> "tlc", src |-> n, step |-> m.step,
                     block |-> NewBlock(n, m.step, m.val)]
    <3>1. (Broadcast(t, n, r, q) \/ Finish(t, q)) /\ r.type = "tlc"
      BY <2>4 DEF HandleAccept
    <3> HIDE DEF r
    <3> QED BY <3>1, BroadcastAdds DEF Finish
  <2>5. CASE HandleTLC(t, n, m, q)
    <3> DEFINE r == [m EXCEPT !.src = n]
    <3>1. rumors' = rumors \/ rumors' = [rumors EXCEPT ![n] = @ \cup {r}]
      BY <2>5 DEF HandleTLC, StoreTLC, AdvanceStep, Finish
    <3>2. r.type = "tlc"
      BY <2>5, MessageKinds DEF HandleTLC, TLCMessage
    <3> HIDE DEF r
    <3> QED BY <3>1, <3>2 DEF Shape, TypeOK, GossipTypeOK
  <2> QED BY <2>1, <2>2, <2>3, <2>4, <2>5 DEF Handle
<1> QED BY <1>1, <1>2, <1>3, <1>4

\* A step that prepares and proposes nothing, and lets calls go on outside of
\* phase one.
LEMMA KeepProposals ==
    ASSUME Shape, Shape', Proposals, UNCHANGED <<current, previous, paxosId>>,
           \A c \in Call : pc'[c] = "p1" => pc[c] = "p1",
           \A o \in Node : rumors[o] \subseteq rumors'[o] /\ step[o] <= step'[o],
           \A o \in Node : \A r \in rumors'[o] :
               r \in rumors[o] \/ r.type \notin {"prepare", "propose"}
    PROVE  Proposals'
<1>1. /\ \A o \in Node : step[o] \in Nat /\ step'[o] \in Nat
      /\ \A o \in Node : \A r \in rumors[o] : r.step \in Nat
      /\ \A c \in Call : previous[c] \in Nat \cup {-1} /\ CallNode[c] \in Node
  BY MessageKinds, CallAssumption
     DEF Shape, TypeOK, StepTypeOK, GossipTypeOK, CallTypeOK, Steps
<1>2. CallNumbers'
  <2> SUFFICES ASSUME NEW c \in Call
               PROVE  /\ previous'[c] <= step'[CallNode[c]]
                      /\ pc'[c] = "p1" => previous'[c] = current'[c]
                      /\ previous'[c] # -1 => NumberOf(CallNode[c], paxosId'[c])
    BY DEF CallNumbers, NumberOf
  <2> QED BY <1>1 DEF Proposals, CallNumbers
<1>3. RumorNumbers'
  <2> SUFFICES ASSUME NEW n \in Node, NEW r \in rumors'[n], r.type \in {"prepare", "propose"}
               PROVE  /\ NumberOf(n, r.id)
                      /\ r.step <= step'[n]
                      /\ r.step = step'[n] => Given(n, r.id, r.type = "propose")'
    BY DEF RumorNumbers, NumberOf
  <2>1. /\ r \in rumors[n] /\ NumberOf(n, r.id) /\ r.step <= step[n]
        /\ r.step = step[n] => Given(n, r.id, r.type = "propose")
    BY DEF Proposals, RumorNumbers
  <2>2. ASSUME r.step = step'[n] PROVE Given(n, r.id, r.type = "propose")'
    <3>1. step'[n] = step[n] /\ r.step = step[n]
      BY <1>1, <2>1, <2>2
    <3> QED BY <2>1, <3>1 DEF Given
  <2> QED BY <1>1, <2>1, <2>2
<1>4. OneValue'
  BY DEF Proposals, OneValue
<1>5. SafeProposals'
  BY SentStays DEF Proposals, SafeProposals
<1> QED BY <1>2, <1>3, <1>4, <1>5 DEF Proposals

\* The numbers of two nodes differ.
LEMMA NumbersApart ==
    ASSUME NEW n \in Node, NEW o \in Node, NEW i, NumberOf(n, i), NumberOf(o, i)
    PROVE  n = o
<1>1. PICK k \in Nat : i = PaxosID[n] + k * N
  BY DEF NumberOf
<1>2. PICK l \in Nat : i = PaxosID[o] + l * N
  BY DEF NumberOf
<1>3. /\ N \in Nat /\ N > 0
      /\ PaxosID[n] \in 1 .. N /\ PaxosID[o] \in 1 .. N
  BY NodeCount, NodeAssumption DEF N
<1>4. ASSUME NEW a \in 1 .. N, NEW b \in 1 .. N, NEW x \in Nat, NEW y \in Nat, x < y,
             a + x * N = b + y * N
      PROVE  FALSE
  <2>1. PICK z \in Nat : y = x + 1 + z
    <3>1. y - x - 1 \in Nat /\ y = x + 1 + (y - x - 1)
      BY <1>4
    <3> QED BY <3>1
  <2>2. y * N = x * N + N + z * N
    BY <1>3, <2>1
  <2>3. x * N \in Nat /\ z * N \in Nat
    BY <1>3
  <2> QED BY <1>3, <1>4, <2>2, <2>3
<1>5. k = l
  BY <1>1, <1>2, <1>3, <1>4
<1>6. PaxosID[n] = PaxosID[o]
  <2>1. k * N \in Nat
    BY <1>3
  <2> QED BY <1>1, <1>2, <1>3, <1>5, <2>1
<1> QED BY <1>6, NodeAssumption

LEMMA ProposalIds ==
    ASSUME Shape
    PROVE  \A o \in Node : \A r \in rumors[o] :
               /\ r \in Message /\ r.step \in Nat
               /\ r.type \in {"prepare", "propose", "promise", "accept"} => r.id \in Nat /\ r.id > 0
<1> SUFFICES ASSUME NEW o \in Node, NEW r \in rumors[o]
             PROVE  /\ r \in Message /\ r.step \in Nat
                    /\ r.type \in {"prepare", "propose", "promise", "accept"} => r.id \in Nat /\ r.id > 0
  OBVIOUS
<1>1. r \in Message
  BY DEF Shape, TypeOK, GossipTypeOK
<1>2. r.step \in Nat
  BY <1>1, MessageKinds DEF Steps
<1>3. r.type \in {"prepare", "propose", "promise", "accept"} => r.id \in Number
  BY <1>1 DEF Message, PaxosPrepareMessage, PaxosPromiseMessage, PaxosProposeMessage,
              PaxosAcceptMessage, TLCMessage
<1> QED BY <1>1, <1>2, <1>3 DEF Number

LEMMA StartProposals ==
    ASSUME Shape, Proposals, NEW c \in Call, StartPhaseOne(c)
    PROVE  Proposals'
<1>1. PICK n \in Node, s \in Nat : n = CallNode[c] /\ s = step[n]
  BY CallAssumption DEF Shape, TypeOK, StepTypeOK, Steps
<1>2. PICK i : i = IF s = previous[c] THEN paxosId[c] + N ELSE PaxosID[n]
  OBVIOUS
<1>3. /\ pc' = [pc EXCEPT ![c] = "p1"] /\ current' = [current EXCEPT ![c] = s]
      /\ previous' = [previous EXCEPT ![c] = s] /\ paxosId' = [paxosId EXCEPT ![c] = i]
      /\ step' = step
      /\ Broadcast(c, n, [type |-> "prepare", src |-> n, step |-> s, id |-> i], net)
  BY <1>1, <1>2 DEF StartPhaseOne, stepVars
<1>4. PICK m : m.type = "prepare" /\ m.step = s /\ m.id = i /\ Broadcast(c, n, m, net)
  BY <1>3
<1>5. /\ DOMAIN pc = Call /\ DOMAIN current = Call /\ previous \in [Call -> Nat \cup {-1}]
      /\ paxosId \in [Call -> Nat] /\ step \in [Node -> Nat]
      /\ \A o \in Node : \A r \in rumors[o] : r.type \in {"prepare", "propose"} => r.id \in Nat
  <2>1. /\ pc \in [Call -> {"idle", "check", "prepare", "p1", "p2", "wait", "done", "failed"}]
        /\ current \in [Call -> Steps] /\ previous \in [Call -> Steps \cup {-1}]
        /\ paxosId \in [Call -> Nat] /\ step \in [Node -> Steps]
    BY DEF Shape, TypeOK, StepTypeOK, CallTypeOK
  <2> QED BY <2>1, ProposalIds DEF Steps
<1>6. /\ rumors'[n] = rumors[n] \cup {m}
      /\ \A o \in Node \ {n} : rumors'[o] = rumors[o]
  BY <1>4, BroadcastRumors
<1>7. N \in Nat /\ N > 0 /\ PaxosID[n] \in Nat
  BY NodeCount, NodeAssumption
<1>8. /\ pc'[c] = "p1" /\ current'[c] = s /\ previous'[c] = s /\ paxosId'[c] = i
      /\ \A d \in Call \ {c} : /\ pc'[d] = pc[d] /\ current'[d] = current[d]
                                /\ previous'[d] = previous[d] /\ paxosId'[d] = paxosId[d]
  BY <1>3, <1>5
<1>9. NumberOf(n, i) /\ i \in Nat /\ (s = previous[c] => i > paxosId[c])
  <2>1. CASE s = previous[c]
    <3>1. PICK k \in Nat : paxosId[c] = PaxosID[n] + k * N
      BY <1>1, <2>1 DEF Proposals, CallNumbers, NumberOf
    <3>2. (k + 1) * N = k * N + N /\ k * N \in Nat /\ k + 1 \in Nat
      BY <1>7
    <3>3. i = PaxosID[n] + (k + 1) * N /\ paxosId[c] \in Nat
      BY <1>2, <1>5, <1>7, <2>1, <3>1, <3>2
    <3>4. NumberOf(n, i)
      BY <3>2, <3>3 DEF NumberOf
    <3> QED BY <1>2, <1>7, <2>1, <3>3, <3>4
  <2>2. CASE s # previous[c]
    <3>1. i = PaxosID[n] + 0 * N
      BY <1>2, <1>7, <2>2
    <3>2. NumberOf(n, i)
      BY <3>1 DEF NumberOf
    <3> QED BY <1>2, <1>7, <2>2, <3>2
  <2> QED BY <2>1, <2>2
<1>10. CallNumbers'
  <2> SUFFICES ASSUME NEW d \in Call
               PROVE  /\ previous'[d] <= step'[CallNode[d]]
                      /\ pc'[d] = "p1" => previous'[d] = current'[d]
                      /\ previous'[d] # -1 => NumberOf(CallNode[d], paxosId'[d])
    BY DEF CallNumbers, NumberOf
  <2>1. CASE d = c
    BY <1>1, <1>3, <1>8, <1>9, <2>1
  <2>2. CASE d # c
    BY <1>3, <1>8, <2>2 DEF Proposals, CallNumbers
  <2> QED BY <2>1, <2>2
<1>11. RumorNumbers'
  <2> SUFFICES ASSUME NEW o \in Node, NEW r \in rumors'[o], r.type \in {"prepare", "propose"}
               PROVE  /\ NumberOf(o, r.id)
                      /\ r.step <= step'[o]
                      /\ r.step = step'[o] => Given(o, r.id, r.type = "propose")'
    BY DEF RumorNumbers, NumberOf
  <2>1. CASE r \in rumors[o]
    <3>1. /\ NumberOf(o, r.id) /\ r.step <= step[o]
          /\ r.step = step[o] => Given(o, r.id, r.type = "propose")
      BY <2>1 DEF Proposals, RumorNumbers
    <3>2. ASSUME r.step = step'[o] PROVE Given(o, r.id, r.type = "propose")'
      <4>1. PICK d \in Call :
                /\ CallNode[d] = o /\ previous[d] = step[o] /\ r.id <= paxosId[d]
                /\ ((r.type = "propose") /\ pc[d] = "p1") => r.id < paxosId[d]
        BY <1>3, <3>1, <3>2 DEF Given
      <4>2. CASE d = c
        <5>1. previous'[c] = step'[o] /\ CallNode[c] = o
          BY <1>1, <1>3, <1>8, <4>1, <4>2
        <5>2. r.id < paxosId'[c]
          BY <1>1, <1>5, <1>8, <1>9, <2>1, <4>1, <4>2
        <5>3. r.id \in Nat /\ paxosId'[c] \in Nat
          BY <1>5, <1>8, <1>9, <2>1
        <5>4. r.id <= paxosId'[c]
          BY <5>2, <5>3
        <5> QED BY <5>1, <5>2, <5>4 DEF Given
      <4>3. CASE d # c
        <5>1. /\ previous'[d] = step'[o] /\ r.id <= paxosId'[d]
              /\ ((r.type = "propose") /\ pc'[d] = "p1") => r.id < paxosId'[d]
          BY <1>3, <1>8, <4>1, <4>3
        <5> QED BY <4>1, <5>1 DEF Given
      <4> QED BY <4>2, <4>3
    <3> QED BY <1>3, <3>1, <3>2
  <2>2. CASE r = m /\ o = n
    <3>1. Given(o, r.id, r.type = "propose")'
      BY <1>1, <1>3, <1>4, <1>8, <1>9, <2>2 DEF Given
    <3> QED BY <1>1, <1>3, <1>4, <1>9, <2>2, <3>1
  <2> QED BY <1>6, <2>1, <2>2
<1>12. \A o \in Node : \A r \in rumors'[o] : r.type = "propose" => r \in rumors[o]
  BY <1>4, <1>6
<1>13. OneValue'
  BY <1>12 DEF Proposals, OneValue
<1>14. SafeProposals'
  <2>1. \A o \in Node : rumors[o] \subseteq rumors'[o]
    BY <1>6
  <2> QED BY <1>12, <2>1, SentStays DEF Proposals, SafeProposals
<1> QED BY <1>10, <1>11, <1>13, <1>14 DEF Proposals

\* A call that proposes at the step of its node takes the value of the highest
\* accepted number that the threshold has reported.
LEMMA CallProposeProposals ==
    ASSUME Shape, Proposals, Votes, Counts, OneProposer, NEW c \in Call, Propose(c),
           FreshProposals
    PROVE  Proposals'
<1>1. PICK n \in Node, s \in Nat : n = CallNode[c] /\ s = step[n]
  BY CallAssumption DEF Shape, TypeOK, StepTypeOK, Steps
<1>2. PICK v, i : v = ValueToPropose(c) /\ i = paxosId[c]
  OBVIOUS
<1>3. /\ pc[c] = "p1" /\ success[c] /\ current[c] = s
      /\ pc' = [pc EXCEPT ![c] = "p2"]
      /\ UNCHANGED <<step, current, previous, paxosId>>
      /\ Broadcast(c, n, [type |-> "propose", src |-> n, step |-> s, id |-> i, val |-> v], net)
  BY <1>1, <1>2 DEF Propose, FreshProposals, stepVars, loopVars
<1>4. PICK m : /\ m.type = "propose" /\ m.step = s /\ m.id = i /\ m.val = v
               /\ Broadcast(c, n, m, net)
  BY <1>3
<1>5. previous[c] = s /\ NumberOf(n, i) /\ i \in Nat
  <2>1. previous[c] = s
    BY <1>3 DEF Proposals, CallNumbers
  <2>2. previous[c] # -1
    BY <2>1
  <2> QED BY <1>1, <1>2, <2>1, <2>2 DEF Proposals, CallNumbers, Shape, TypeOK, CallTypeOK
<1>6. /\ rumors'[n] = rumors[n] \cup {m}
      /\ \A o \in Node \ {n} : rumors'[o] = rumors[o]
  BY <1>4, BroadcastRumors
<1>7. /\ pc'[c] = "p2" /\ \A d \in Call : pc'[d] = "p1" => pc[d] = "p1"
  BY <1>3 DEF Shape, TypeOK, CallTypeOK
<1>8. CallNumbers'
  BY <1>3, <1>7 DEF Proposals, CallNumbers, NumberOf
<1>9. RumorNumbers'
  <2> SUFFICES ASSUME NEW o \in Node, NEW r \in rumors'[o], r.type \in {"prepare", "propose"}
               PROVE  /\ NumberOf(o, r.id)
                      /\ r.step <= step'[o]
                      /\ r.step = step'[o] => Given(o, r.id, r.type = "propose")'
    BY DEF RumorNumbers, NumberOf
  <2>1. CASE r \in rumors[o]
    <3>1. /\ NumberOf(o, r.id) /\ r.step <= step[o]
          /\ r.step = step[o] => Given(o, r.id, r.type = "propose")
      BY <2>1 DEF Proposals, RumorNumbers
    <3>2. ASSUME r.step = step'[o] PROVE Given(o, r.id, r.type = "propose")'
      BY <1>3, <1>7, <3>1, <3>2 DEF Given
    <3> QED BY <1>3, <3>1, <3>2
  <2>2. CASE r = m /\ o = n
    <3>1. Given(o, r.id, r.type = "propose")'
      BY <1>1, <1>2, <1>3, <1>4, <1>5, <1>7, <2>2 DEF Given
    <3> QED BY <1>1, <1>3, <1>4, <1>5, <2>2, <3>1
  <2> QED BY <1>6, <2>1, <2>2
<1>10. \A o \in Node : \A r \in rumors'[o] : r \in rumors[o] \/ r = m
  BY <1>6
<1>11. ASSUME NEW o \in Node, NEW r \in rumors[o], r.type = "propose", r.step = s, r.id = i
       PROVE  FALSE
  <2>1. NumberOf(o, i)
    BY <1>11 DEF Proposals, RumorNumbers
  <2>2. o = n
    BY <1>5, <2>1, NumbersApart
  <2>3. Given(n, i, TRUE)
    <3>1. Given(n, r.id, r.type = "propose")
      BY <1>1, <1>11, <2>2 DEF Proposals, RumorNumbers
    <3> QED BY <1>11, <3>1 DEF Given
  <2>4. PICK d \in Call : /\ CallNode[d] = n /\ previous[d] = s
                          /\ pc[d] = "p1" => i < paxosId[d]
    BY <1>1, <2>3 DEF Given
  <2>5. d = c
    <3>1. previous[c] # -1
      BY <1>5
    <3> QED BY <1>1, <1>5, <2>4, <3>1 DEF OneProposer
  <2> QED BY <1>2, <1>3, <1>5, <2>4, <2>5
<1>12. OneValue'
  <2> SUFFICES ASSUME NEW x \in Node, NEW y \in Node, NEW a \in rumors'[x], NEW b \in rumors'[y],
                      a.type = "propose", b.type = "propose", a.step = b.step, a.id = b.id
               PROVE  a.val = b.val
    BY DEF OneValue
  <2>1. CASE a \in rumors[x] /\ b \in rumors[y]
    BY <2>1 DEF Proposals, OneValue
  <2>2. CASE a = m /\ b # m
    BY <1>4, <1>10, <1>11, <2>2
  <2>3. CASE b = m /\ a # m
    BY <1>4, <1>10, <1>11, <2>3
  <2> QED BY <1>10, <2>1, <2>2, <2>3
<1>13. Safe(s, i, v)
  <2> DEFINE Q == phaseOnePeers[c]
             k == highestAcceptedId[n]
  <2>1. /\ k < i /\ Cardinality(Q) >= PaxosThreshold
        /\ \A o \in Q : Promised(o, s, i, k)
    BY <1>1, <1>2, <1>3 DEF Counts, Counting
  <2>2. Q \in SUBSET Node /\ k \in Nat
    BY DEF Shape, TypeOK, CallTypeOK, ProposerTypeOK
  <2>3. k > 0 => Proposal(s, k, v)
    <3>1. Vote(s, k, highestAcceptedValue[n])
      BY <1>1 DEF Votes, VotesKept
    <3>2. k > 0 => v = highestAcceptedValue[n]
      BY <1>1, <1>2, <3>1 DEF Vote, ValueToPropose
    <3> QED BY <3>1, <3>2 DEF Vote
  <2> HIDE DEF Q, k
  <2> QED BY <2>1, <2>2, <2>3 DEF Safe
<1>14. SafeProposals'
  <2>1. \A o \in Node : rumors[o] \subseteq rumors'[o]
    BY <1>6
  <2>2. Safe(s, i, v)'
    BY <1>13, <2>1, SentStays
  <2> SUFFICES ASSUME NEW o \in Node, NEW r \in rumors'[o], r.type = "propose"
               PROVE  Safe(r.step, r.id, r.val)'
    BY DEF SafeProposals
  <2>3. CASE r \in rumors[o]
    <3>1. Safe(r.step, r.id, r.val)
      BY <2>3 DEF Proposals, SafeProposals
    <3> QED BY <2>1, <3>1, SentStays
  <2>4. CASE r = m
    BY <1>4, <2>2, <2>4
  <2> QED BY <1>10, <2>3, <2>4
<1> QED BY <1>8, <1>9, <1>12, <1>14 DEF Proposals

LEMMA CallProposals ==
    ASSUME Shape, Shape', Proposals, Votes, Counts, OneProposer, NEW c \in Call, CallStep(c),
           FreshProposals
    PROVE  Proposals'
<1>1. CASE CallMoves(c)
  <2>1. /\ UNCHANGED <<current, previous, paxosId, step, rumors>>
    BY <1>1, CallMovesKeep DEF gossipVars
  <2>2. \A d \in Call : pc'[d] = "p1" => pc[d] = "p1"
    <3>1. pc \in [Call -> {"idle", "check", "prepare", "p1", "p2", "wait", "done", "failed"}]
      BY DEF Shape, TypeOK, CallTypeOK
    <3> QED BY <1>1, <3>1 DEF CallMoves, BeginCall, CheckName, Timeout, Accepted, Return
  <2>3. \A o \in Node : step[o] <= step'[o]
    BY <2>1 DEF Shape, TypeOK, StepTypeOK, Steps
  <2> QED BY <2>1, <2>2, <2>3, KeepProposals
<1> QED BY <1>1, StartProposals, CallProposeProposals DEF CallStep, CallMoves

LEMMA HandleProposals ==
    ASSUME Shape, Shape', Proposals, NEW t, NEW n \in Node, NEW m \in Message, NEW q,
           Handle(t, n, m, q)
    PROVE  Proposals'
BY HandleQuiet, KeepProposals

\* A step keeps the votes if what it sends and remembers was proposed.
LEMMA KeepVotes ==
    ASSUME Shape, Votes,
           \A n \in Node : rumors[n] \subseteq rumors'[n],
           \A n \in Node : \A r \in rumors'[n] :
               r \in rumors[n] \/ r.type \notin {"promise", "accept"} \/ VoteMessage(r)',
           \A n \in Node :
               \/ /\ step'[n] = step[n] /\ acceptedId'[n] = acceptedId[n]
                  /\ acceptedValue'[n] = acceptedValue[n]
               \/ Vote(step[n], acceptedId[n], acceptedValue[n])',
           \A n \in Node :
               \/ /\ step'[n] = step[n] /\ highestAcceptedId'[n] = highestAcceptedId[n]
                  /\ highestAcceptedValue'[n] = highestAcceptedValue[n]
               \/ Vote(step[n], highestAcceptedId[n], highestAcceptedValue[n])'
    PROVE  Votes'
<1>1. VotesSent'
  <2> SUFFICES ASSUME NEW n \in Node, NEW r \in rumors'[n] PROVE VoteMessage(r)'
    BY DEF VotesSent
  <2>1. CASE r \in rumors[n]
    <3>1. VoteMessage(r)
      BY <2>1 DEF Votes, VotesSent
    <3>2. r.type = "promise" => r.dest \in Node
      BY <2>1, ProposalIds, MessageKinds DEF PaxosPromiseMessage
    <3> QED BY <3>1, <3>2, SentStays DEF VoteMessage
  <2>2. CASE r.type \notin {"promise", "accept"}
    BY <2>2 DEF VoteMessage
  <2> QED BY <2>1, <2>2
<1>2. VotesKept'
  <2> SUFFICES ASSUME NEW n \in Node
               PROVE  /\ Vote(step[n], acceptedId[n], acceptedValue[n])'
                      /\ Vote(step[n], highestAcceptedId[n], highestAcceptedValue[n])'
    BY DEF VotesKept
  <2>1. /\ Vote(step[n], acceptedId[n], acceptedValue[n])
        /\ Vote(step[n], highestAcceptedId[n], highestAcceptedValue[n])
    BY DEF Votes, VotesKept
  <2>2. \A s, k, v : Vote(s, k, v) => (k = 0 <=> v = None) /\ (k > 0 => Proposal(s, k, v)')
    BY SentStays DEF Vote
  <2>3. Vote(step[n], acceptedId[n], acceptedValue[n])'
    BY <2>1, <2>2 DEF Vote
  <2>4. Vote(step[n], highestAcceptedId[n], highestAcceptedValue[n])'
    BY <2>1, <2>2 DEF Vote
  <2> QED BY <2>3, <2>4
<1> QED BY <1>1, <1>2 DEF Votes

LEMMA PrepareVotes ==
    ASSUME Shape, Votes, AcceptorInv, NEW t, NEW n \in Node, NEW m \in Message, NEW q,
           m \in rumors[m.src], HandlePrepare(t, n, m, q)
    PROVE  Votes'
<1>1. \A o \in Node : rumors[o] \subseteq rumors'[o]
  BY HandleKeeps DEF Handle
<1>2. UNCHANGED <<step, acceptedId, acceptedValue, highestAcceptedId, highestAcceptedValue>>
  BY DEF HandlePrepare, stepVars, proposerVars, highestVars
<1>3. CASE Promisable(n, m)
  <2>1. PICK p : /\ p.type = "promise" /\ p.dest = m.src /\ p.step = step[n] /\ p.id = m.id
                 /\ p.accId = acceptedId[n] /\ p.accVal = acceptedValue[n]
                 /\ Broadcast(t, n, p, q)
    BY <1>3 DEF HandlePrepare
  <2>2. \A o \in Node : \A r \in rumors'[o] : r \in rumors[o] \/ r = p
    BY <2>1, BroadcastAdds
  <2>3. acceptedId[n] < m.id
    <3>1. acceptedId[n] \in Nat /\ maxId[n] \in Nat
      BY DEF Shape, TypeOK, AcceptorTypeOK
    <3>2. m.src \in Node /\ m.type = "prepare"
      BY MessageKinds DEF HandlePrepare
    <3>3. m.id \in Nat
      BY <3>2, ProposalIds
    <3> QED BY <1>3, <3>1, <3>3 DEF AcceptorInv, Promisable
  <2>4. Prepared(m.src, step[n], m.id)
    BY <1>3 DEF Prepared, Promisable, HandlePrepare
  <2>5. Vote(step[n], acceptedId[n], acceptedValue[n])
    BY DEF Votes, VotesKept
  <2>6. m.src \in Node
    BY MessageKinds
  <2>7. Prepared(m.src, step[n], m.id)' /\ Vote(step[n], acceptedId[n], acceptedValue[n])'
    <3>1. \A s, i : Prepared(m.src, s, i) => Prepared(m.src, s, i)'
      BY <1>1, <2>6, SentStays
    <3>2. \A s, k, v : Vote(s, k, v) => Vote(s, k, v)'
      BY <1>1, SentStays
    <3>3. Prepared(m.src, step[n], m.id)'
      BY <1>2, <2>4, <3>1 DEF Prepared
    <3>4. Vote(step[n], acceptedId[n], acceptedValue[n])'
      BY <1>2, <2>5, <3>2 DEF Vote
    <3> QED BY <3>3, <3>4
  <2>8. VoteMessage(p)'
    BY <1>2, <2>1, <2>3, <2>7 DEF VoteMessage, Vote, Prepared
  <2> QED BY <1>1, <1>2, <2>2, <2>8, KeepVotes
<1>4. CASE ~ Promisable(n, m)
  BY <1>1, <1>2, <1>4, KeepVotes DEF HandlePrepare, Finish
<1> QED BY <1>3, <1>4

LEMMA ProposeVotes ==
    ASSUME Shape, Votes, NEW t, NEW n \in Node, NEW m \in Message, NEW q,
           m \in rumors[m.src], HandlePropose(t, n, m, q)
    PROVE  Votes'
<1>1. \A o \in Node : rumors[o] \subseteq rumors'[o]
  BY HandleKeeps DEF Handle
<1>2. UNCHANGED <<step, highestAcceptedId, highestAcceptedValue>>
  BY DEF HandlePropose, stepVars, highestVars
<1>3. CASE Acceptable(n, m)
  <2>1. PICK r : /\ r.type = "accept" /\ r.step = m.step /\ r.id = m.id /\ r.val = m.val
                 /\ Broadcast(t, n, r, q)
    BY <1>3 DEF HandlePropose
  <2>2. \A o \in Node : \A x \in rumors'[o] : x \in rumors[o] \/ x = r
    BY <2>1, BroadcastAdds
  <2>3. m.src \in Node /\ m.type = "propose" /\ m.val \in Value
    BY MessageKinds DEF HandlePropose, PaxosProposeMessage
  <2>4. m.id \in Nat /\ m.id > 0
    BY <2>3, ProposalIds
  <2>5. Proposal(m.step, m.id, m.val)'
    <3>1. Proposal(m.step, m.id, m.val)
      BY <2>3 DEF Proposal
    <3> QED BY <1>1, <3>1, SentStays
  <2>6. VoteMessage(r)'
    BY <2>1, <2>5 DEF VoteMessage
  <2>7. acceptedId' = [acceptedId EXCEPT ![n] = m.id] /\ acceptedValue' = [acceptedValue EXCEPT ![n] = m.val]
    BY <1>3 DEF HandlePropose
  <2>8. /\ acceptedId'[n] = m.id /\ acceptedValue'[n] = m.val
        /\ \A o \in Node \ {n} : acceptedId'[o] = acceptedId[o]
                                 /\ acceptedValue'[o] = acceptedValue[o]
    BY <2>7 DEF Shape, TypeOK, AcceptorTypeOK
  <2>9. Vote(step[n], acceptedId[n], acceptedValue[n])'
    <3>1. m.step = step[n] /\ m.val # None
      BY <1>3, <2>3, NoneAssumption DEF Acceptable
    <3> QED BY <1>2, <2>4, <2>5, <2>8, <3>1 DEF Vote
  <2>10. \A o \in Node :
            \/ /\ step'[o] = step[o] /\ acceptedId'[o] = acceptedId[o]
               /\ acceptedValue'[o] = acceptedValue[o]
            \/ Vote(step[o], acceptedId[o], acceptedValue[o])'
    BY <1>2, <2>8, <2>9
  <2> QED BY <1>1, <1>2, <2>2, <2>6, <2>10, KeepVotes
<1>4. CASE ~ Acceptable(n, m)
  BY <1>1, <1>2, <1>4, KeepVotes DEF HandlePropose, Finish
<1> QED BY <1>3, <1>4

LEMMA PromiseVotes ==
    ASSUME Shape, Votes, NEW t, NEW n \in Node, NEW m \in Message, NEW q,
           m \in rumors[m.src], HandlePromise(t, n, m, q)
    PROVE  Votes'
<1>1. rumors' = rumors /\ UNCHANGED <<step, acceptedId, acceptedValue>>
  BY DEF HandlePromise, Finish, stepVars, acceptorVars
<1>2. CASE UNCHANGED highestVars
  BY <1>1, <1>2, KeepVotes DEF highestVars
<1>3. CASE ~ UNCHANGED highestVars
  <2>1. /\ m.type = "promise" /\ m.step = step[n]
        /\ highestAcceptedId' = [highestAcceptedId EXCEPT ![n] = m.accId]
        /\ highestAcceptedValue' = [highestAcceptedValue EXCEPT ![n] = m.accVal]
    BY <1>3 DEF HandlePromise
  <2>2. /\ highestAcceptedId'[n] = m.accId /\ highestAcceptedValue'[n] = m.accVal
        /\ \A o \in Node \ {n} : highestAcceptedId'[o] = highestAcceptedId[o]
                                 /\ highestAcceptedValue'[o] = highestAcceptedValue[o]
    BY <2>1 DEF Shape, TypeOK, ProposerTypeOK
  <2>3. Vote(step[n], m.accId, m.accVal)
    <3>1. m.src \in Node
      BY MessageKinds
    <3> QED BY <2>1, <3>1 DEF Votes, VotesSent, VoteMessage
  <2>4. Vote(step[n], highestAcceptedId[n], highestAcceptedValue[n])'
    BY <1>1, <2>2, <2>3 DEF Vote, Proposal
  <2>5. \A o \in Node :
            \/ /\ step'[o] = step[o] /\ highestAcceptedId'[o] = highestAcceptedId[o]
               /\ highestAcceptedValue'[o] = highestAcceptedValue[o]
            \/ Vote(step[o], highestAcceptedId[o], highestAcceptedValue[o])'
    BY <1>1, <2>2, <2>4
  <2> QED BY <1>1, <2>5, KeepVotes
<1> QED BY <1>2, <1>3

\* A node that leaves its step remembers nothing, neither as an acceptor nor as
\* a proposer.
LEMMA AdvanceVotes ==
    ASSUME Shape, Votes, NEW t, NEW n \in Node, NEW m \in Message, NEW q,
           HandleTLC(t, n, m, q), AdvanceStep(t, n, m, q)
    PROVE  Votes'
<1>1. /\ \A o \in Node : rumors[o] \subseteq rumors'[o]
      /\ \A o \in Node : \A r \in rumors'[o] : r \in rumors[o] \/ r.type = "tlc"
  <2>1. PICK r : /\ r.type = "tlc"
                 /\ rumors' = rumors \/ rumors' = [rumors EXCEPT ![n] = @ \cup {r}]
    <3>1. [m EXCEPT !.src = n].type = "tlc"
      BY MessageKinds DEF HandleTLC, TLCMessage
    <3> QED BY <3>1 DEF AdvanceStep
  <2> QED BY <2>1 DEF Shape, TypeOK, GossipTypeOK
<1>2. /\ acceptedId' = [acceptedId EXCEPT ![n] = 0]
      /\ acceptedValue' = [acceptedValue EXCEPT ![n] = None]
      /\ highestAcceptedId' = [highestAcceptedId EXCEPT ![n] = 0]
      /\ highestAcceptedValue' = [highestAcceptedValue EXCEPT ![n] = None]
      /\ \E k : step' = [step EXCEPT ![n] = k]
  BY DEF AdvanceStep, ResetAcceptor, ResetProposer
<1>3. /\ acceptedId'[n] = 0 /\ acceptedValue'[n] = None
      /\ highestAcceptedId'[n] = 0 /\ highestAcceptedValue'[n] = None
      /\ \A o \in Node \ {n} :
             /\ acceptedId'[o] = acceptedId[o] /\ acceptedValue'[o] = acceptedValue[o]
             /\ highestAcceptedId'[o] = highestAcceptedId[o]
             /\ highestAcceptedValue'[o] = highestAcceptedValue[o]
             /\ step'[o] = step[o]
  BY <1>2 DEF Shape, TypeOK, AcceptorTypeOK, ProposerTypeOK, StepTypeOK
<1>4. /\ Vote(step[n], acceptedId[n], acceptedValue[n])'
      /\ Vote(step[n], highestAcceptedId[n], highestAcceptedValue[n])'
  BY <1>3 DEF Vote
<1>5. \A o \in Node :
          \/ /\ step'[o] = step[o] /\ acceptedId'[o] = acceptedId[o]
             /\ acceptedValue'[o] = acceptedValue[o]
          \/ Vote(step[o], acceptedId[o], acceptedValue[o])'
  BY <1>3, <1>4
<1>6. \A o \in Node :
          \/ /\ step'[o] = step[o] /\ highestAcceptedId'[o] = highestAcceptedId[o]
             /\ highestAcceptedValue'[o] = highestAcceptedValue[o]
          \/ Vote(step[o], highestAcceptedId[o], highestAcceptedValue[o])'
  BY <1>3, <1>4
<1>7. \A o \in Node : \A r \in rumors'[o] :
          r \in rumors[o] \/ r.type \notin {"promise", "accept"} \/ VoteMessage(r)'
  BY <1>1
<1> QED BY <1>1, <1>5, <1>6, <1>7, KeepVotes

LEMMA HandleVotes ==
    ASSUME Shape, Votes, AcceptorInv, NEW t, NEW n \in Node, NEW m \in Message, NEW q,
           m \in rumors[m.src], Handle(t, n, m, q)
    PROVE  Votes'
<1>1. CASE HandleAccept(t, n, m, q)
  <2>1. UNCHANGED <<step, acceptedId, acceptedValue, highestAcceptedId, highestAcceptedValue>>
    BY <1>1 DEF HandleAccept, acceptorVars, highestVars
  <2>2. PICK r : r.type = "tlc" /\ (Broadcast(t, n, r, q) \/ Finish(t, q))
    BY <1>1 DEF HandleAccept
  <2>3. \A o \in Node : \A x \in rumors'[o] : x \in rumors[o] \/ x = r
    BY <2>2, BroadcastAdds DEF Finish
  <2>4. \A o \in Node : rumors[o] \subseteq rumors'[o]
    BY HandleKeeps
  <2> QED BY <2>1, <2>2, <2>3, <2>4, KeepVotes
<1>2. CASE HandleTLC(t, n, m, q) /\ ~ AdvanceStep(t, n, m, q)
  <2>1. UNCHANGED <<step, acceptedId, acceptedValue, highestAcceptedId, highestAcceptedValue, rumors>>
    BY <1>2 DEF HandleTLC, StoreTLC, Finish, stepVars, acceptorVars, proposerVars, highestVars
  <2> QED BY <2>1, KeepVotes
<1> QED BY <1>1, <1>2, PrepareVotes, ProposeVotes, PromiseVotes, AdvanceVotes DEF Handle

LEMMA CallVotes ==
    ASSUME Shape, Votes, NEW c \in Call, CallStep(c)
    PROVE  Votes'
<1>1. CASE CallMoves(c)
  <2>1. UNCHANGED <<step, acceptedId, acceptedValue, highestAcceptedId, highestAcceptedValue, rumors>>
    BY <1>1, CallMovesKeep DEF acceptorVars, proposerVars, highestVars, gossipVars
  <2> QED BY <2>1, KeepVotes
<1>2. CASE StartPhaseOne(c) \/ Propose(c)
  <2>1. PICK n \in Node : n = CallNode[c]
    BY CallAssumption
  <2>2. PICK m : m.type \notin {"promise", "accept"} /\ Broadcast(c, n, m, net)
    BY <1>2, <2>1, Zenon DEF StartPhaseOne, Propose
  <2>3. /\ \A o \in Node : \A x \in rumors'[o] : x \in rumors[o] \/ x = m
        /\ \A o \in Node : rumors[o] \subseteq rumors'[o]
    BY <2>2, BroadcastAdds, BroadcastKeeps
  <2>4. UNCHANGED <<step, acceptedId, acceptedValue>>
    BY <1>2 DEF StartPhaseOne, Propose, stepVars, acceptorVars
  <2>5. \/ UNCHANGED highestVars
        \/ /\ highestAcceptedId' = [highestAcceptedId EXCEPT ![n] = 0]
           /\ highestAcceptedValue' = [highestAcceptedValue EXCEPT ![n] = None]
    BY <1>2, <2>1 DEF StartPhaseOne, Propose, ResetProposer
  <2>6. \A o \in Node :
            \/ /\ highestAcceptedId'[o] = highestAcceptedId[o]
               /\ highestAcceptedValue'[o] = highestAcceptedValue[o]
            \/ highestAcceptedId'[o] = 0 /\ highestAcceptedValue'[o] = None
    BY <2>5 DEF highestVars, Shape, TypeOK, ProposerTypeOK
  <2>7. \A o \in Node :
            \/ /\ step'[o] = step[o] /\ highestAcceptedId'[o] = highestAcceptedId[o]
               /\ highestAcceptedValue'[o] = highestAcceptedValue[o]
            \/ Vote(step[o], highestAcceptedId[o], highestAcceptedValue[o])'
    BY <2>4, <2>6 DEF Vote
  <2> QED BY <2>2, <2>3, <2>4, <2>7, KeepVotes
<1> QED BY <1>1, <1>2 DEF CallStep, CallMoves

\* Messages are delivered to the peers they are for.
LEMMA EnqueueAddressed ==
    ASSUME NEW n \in Node, NEW m, NEW q \in Queues, Addressed(q), net' = Enqueue(q, n, m)
    PROVE  Addressed(net)'
<1> SUFFICES ASSUME NEW o \in Node, NEW d \in Node, NEW i \in 1 .. Len(net'[o][d])
             PROVE  ActsOn(net'[o][d][i], d)
  BY DEF Addressed
<1>1. q[o][d] \in Seq(Message)
  BY DEF Queues
<1>2. \A k \in 1 .. Len(q[o][d]) : ActsOn(q[o][d][k], d)
  BY DEF Addressed
<1>3. \/ net'[o][d] = q[o][d]
      \/ ActsOn(m, d) /\ net'[o][d] = Append(q[o][d], m)
  BY DEF Enqueue, Queues
<1>4. CASE net'[o][d] = q[o][d]
  BY <1>2, <1>4
<1>5. CASE ActsOn(m, d) /\ net'[o][d] = Append(q[o][d], m)
  <2>1. /\ Len(Append(q[o][d], m)) = Len(q[o][d]) + 1 /\ Len(q[o][d]) \in Nat
        /\ \A k \in 1 .. Len(q[o][d]) + 1 :
               Append(q[o][d], m)[k] = IF k = Len(q[o][d]) + 1 THEN m ELSE q[o][d][k]
    BY <1>1, LenProperties
  <2> QED BY <1>2, <1>5, <2>1
<1> QED BY <1>3, <1>4, <1>5

LEMMA BroadcastDelivery ==
    ASSUME Shape, Delivery, NEW t \in Thread, NEW m, NEW q \in Queues, Addressed(q),
           Broadcast(t, NodeOf(t), m, q)
    PROVE  Delivery'
<1>1. PICK n \in Node : n = NodeOf(t)
  BY NodeOfType
<1>2. net' = Enqueue(q, n, m) /\ local' = [local EXCEPT ![t] = IF ActsOn(m, n) THEN m ELSE None]
  BY <1>1 DEF Broadcast
<1>3. Addressed(net)'
  BY <1>2, EnqueueAddressed
<1>4. \A u \in Thread : local'[u] # None => ActsOn(local'[u], NodeOf(u))
  BY <1>1, <1>2 DEF Delivery, Shape, TypeOK, GossipTypeOK
<1> QED BY <1>3, <1>4 DEF Delivery

LEMMA FinishDelivery ==
    ASSUME Shape, Delivery, NEW t \in Thread, NEW q \in Queues, Addressed(q), Finish(t, q)
    PROVE  Delivery'
<1>1. net' = q /\ local' = [local EXCEPT ![t] = None]
  BY DEF Finish
<1>2. Addressed(net)'
  BY <1>1 DEF Addressed
<1>3. \A u \in Thread : local'[u] # None => ActsOn(local'[u], NodeOf(u))
  BY <1>1 DEF Delivery, Shape, TypeOK, GossipTypeOK
<1> QED BY <1>2, <1>3 DEF Delivery

LEMMA HandleDelivery ==
    ASSUME Shape, Delivery, NEW t \in Thread, NEW m \in Message, NEW q \in Queues,
           Addressed(q), Handle(t, NodeOf(t), m, q)
    PROVE  Delivery'
<1>1. CASE \/ HandlePrepare(t, NodeOf(t), m, q) \/ HandlePropose(t, NodeOf(t), m, q)
           \/ HandleAccept(t, NodeOf(t), m, q)
  <2>1. Finish(t, q) \/ \E r : Broadcast(t, NodeOf(t), r, q)
    BY <1>1, Zenon DEF HandlePrepare, HandlePropose, HandleAccept
  <2> QED BY <2>1, BroadcastDelivery, FinishDelivery
<1>2. CASE HandlePromise(t, NodeOf(t), m, q)
  BY <1>2, FinishDelivery DEF HandlePromise
<1>3. CASE HandleTLC(t, NodeOf(t), m, q) /\ ~ AdvanceStep(t, NodeOf(t), m, q)
  BY <1>3, FinishDelivery DEF HandleTLC, StoreTLC
<1>4. CASE AdvanceStep(t, NodeOf(t), m, q)
  <2>1. PICK n \in Node : n = NodeOf(t)
    BY NodeOfType
  <2>2. PICK r : net' = IF step[n] \notin tlcSent[n] THEN Enqueue(q, n, r) ELSE q
    BY <1>4, <2>1 DEF AdvanceStep
  <2>3. Addressed(net)'
    BY <2>2, EnqueueAddressed DEF Addressed
  <2>4. local' = [local EXCEPT ![t] = None]
    BY <1>4 DEF AdvanceStep
  <2>5. \A u \in Thread : local'[u] # None => ActsOn(local'[u], NodeOf(u))
    BY <2>4 DEF Delivery, Shape, TypeOK, GossipTypeOK
  <2> QED BY <2>3, <2>5 DEF Delivery
<1> QED BY <1>1, <1>2, <1>3, <1>4 DEF Handle

LEMMA CallDelivery ==
    ASSUME Shape, Delivery, NEW c \in Call, CallStep(c)
    PROVE  Delivery'
<1>1. CASE CallMoves(c)
  BY <1>1, CallMovesKeep DEF gossipVars, Delivery, Addressed
<1>2. CASE StartPhaseOne(c) \/ Propose(c)
  <2>1. c \in Thread /\ NodeOf(c) = CallNode[c] /\ net \in Queues /\ Addressed(net)
    BY DEF Thread, NodeOf, Shape, TypeOK, GossipTypeOK, Queues, Delivery
  <2>2. PICK m : Broadcast(c, CallNode[c], m, net)
    BY <1>2, Zenon DEF StartPhaseOne, Propose
  <2> QED BY <2>1, <2>2, BroadcastDelivery
<1> QED BY <1>1, <1>2 DEF CallStep, CallMoves

-----------------------------------------------------------------------------
(* What the proposer counts                                                *)

\* A step that changes nothing for the calls that wait for promises.
LEMMA KeepCounts ==
    ASSUME Counts, UNCHANGED <<current, paxosId>>,
           \A n \in Node : rumors[n] \subseteq rumors'[n],
           \A c \in Call : (pc'[c] = "p1" /\ current[c] = step'[CallNode[c]]) =>
               /\ pc[c] = "p1" /\ step'[CallNode[c]] = step[CallNode[c]]
               /\ highestAcceptedId'[CallNode[c]] = highestAcceptedId[CallNode[c]]
               /\ phaseOnePeers'[c] = phaseOnePeers[c] /\ phaseOnePeers[c] \subseteq Node
               /\ success'[c] = success[c]
    PROVE  Counts'
<1> SUFFICES ASSUME NEW c \in Call, pc'[c] = "p1", current'[c] = step'[CallNode[c]]
             PROVE  Counting(c)'
  BY DEF Counts
<1>1. Counting(c)
  BY DEF Counts
<1>2. \A o \in phaseOnePeers[c] : o \in Node
  OBVIOUS
<1>3. \A o \in phaseOnePeers[c] :
          Promised(o, current[c], paxosId[c], highestAcceptedId[CallNode[c]])'
  <2> SUFFICES ASSUME NEW o \in phaseOnePeers[c]
               PROVE  Promised(o, current[c], paxosId[c], highestAcceptedId[CallNode[c]])'
    OBVIOUS
  <2>1. Promised(o, current[c], paxosId[c], highestAcceptedId[CallNode[c]])
    BY <1>1 DEF Counting
  <2> QED BY <1>2, <2>1 DEF Promised
<1> QED BY <1>1, <1>3 DEF Counting

LEMMA PromiseCounts ==
    ASSUME Shape, Proposals, Votes, Counts, OneProposer, NEW t, NEW n \in Node,
           NEW m \in Message, NEW q, m \in rumors[m.src], ActsOn(m, n),
           HandlePromise(t, n, m, q)
    PROVE  Counts'
<1> DEFINE C == PhaseOneCall(n, m.step, m.id)
<1>1. /\ rumors' = rumors /\ UNCHANGED <<step, pc, current, paxosId>>
  BY DEF HandlePromise, Finish, stepVars, loopVars
<1>2. m.type = "promise" /\ m.dest = n /\ m.src \in Node /\ m.accId \in Nat /\ m.id \in Nat
  <2>1. m.type = "promise"
    BY DEF HandlePromise
  <2>2. m \in PaxosPromiseMessage
    BY <2>1, MessageKinds
  <2> QED BY <2>1, <2>2 DEF PaxosPromiseMessage, ActsOn, Number
<1>3. CASE UNCHANGED <<phaseOnePeers, success, highestVars>>
  <2>1. \A c \in Call : phaseOnePeers[c] \subseteq Node
    BY DEF Shape, TypeOK, CallTypeOK
  <2> QED BY <1>1, <1>3, <2>1, KeepCounts DEF highestVars
<1>4. CASE m.step = step[n] /\ phaseOne[n]
  <2>1. /\ phaseOnePeers' = [c \in Call |->
                phaseOnePeers[c] \cup (IF c \in C THEN {m.src} ELSE {})]
        /\ success' = [c \in Call |-> success[c] \/
               (c \in C /\ Cardinality(phaseOnePeers'[c]) >= PaxosThreshold)]
        /\ IF m.accId > highestAcceptedId[n] /\ m.accVal # None
           THEN highestAcceptedId' = [highestAcceptedId EXCEPT ![n] = m.accId]
           ELSE highestAcceptedId' = highestAcceptedId
    BY <1>4 DEF HandlePromise, highestVars
  <2>2. /\ m.accId < m.id /\ Vote(m.step, m.accId, m.accVal) /\ Prepared(n, m.step, m.id)
    BY <1>2 DEF Votes, VotesSent, VoteMessage
  <2>3. highestAcceptedId \in [Node -> Nat]
    BY DEF Shape, TypeOK, ProposerTypeOK
  <2>4. /\ highestAcceptedId'[n] >= highestAcceptedId[n] /\ highestAcceptedId'[n] \in Nat
        /\ highestAcceptedId'[n] = highestAcceptedId[n] \/ highestAcceptedId'[n] = m.accId
        /\ m.accId <= highestAcceptedId'[n]
        /\ \A o \in Node \ {n} : highestAcceptedId'[o] = highestAcceptedId[o]
    <3>1. CASE m.accId > highestAcceptedId[n] /\ m.accVal # None
      BY <1>2, <2>1, <2>3, <3>1
    <3>2. CASE ~ (m.accId > highestAcceptedId[n] /\ m.accVal # None)
      <4>1. highestAcceptedId' = highestAcceptedId
        BY <2>1, <3>2
      <4>2. m.accVal = None => m.accId = 0
        BY <2>2 DEF Vote
      <4> QED BY <1>2, <2>3, <3>2, <4>1, <4>2
    <3> QED BY <3>1, <3>2
  <2> SUFFICES ASSUME NEW c \in Call, pc'[c] = "p1", current'[c] = step'[CallNode[c]]
               PROVE  Counting(c)'
    BY DEF Counts
  <2>5. pc[c] = "p1" /\ current[c] = step[CallNode[c]] /\ Counting(c)
    BY <1>1 DEF Counts
  <2>6. phaseOnePeers[c] \subseteq Node /\ phaseOnePeers'[c] \subseteq Node
    BY <1>2, <2>1 DEF Shape, TypeOK, CallTypeOK
  <2>7. CASE CallNode[c] # n
    <3>1. c \notin C
      BY <2>7 DEF PhaseOneCall
    <3>2. CallNode[c] \in Node
      BY CallAssumption
    <3>3. /\ phaseOnePeers'[c] = phaseOnePeers[c] /\ success'[c] = success[c]
          /\ highestAcceptedId'[CallNode[c]] = highestAcceptedId[CallNode[c]]
      BY <2>1, <2>4, <2>7, <3>1, <3>2 DEF Shape, TypeOK, CallTypeOK
    <3> QED BY <1>1, <2>5, <3>3 DEF Counting, Promised
  <2>8. CASE CallNode[c] = n
    <3>1. m.accId < paxosId[c]
      <4>1. PICK r \in rumors[n] : r.type = "prepare" /\ r.step = step[n] /\ r.id = m.id
        BY <1>4, <2>2 DEF Prepared
      <4>2. Given(n, m.id, r.type = "propose")
        BY <4>1 DEF Proposals, RumorNumbers
      <4>3. PICK d \in Call : CallNode[d] = n /\ previous[d] = step[n] /\ m.id <= paxosId[d]
        BY <4>2 DEF Given
      <4>4. previous[c] = step[n]
        BY <2>5, <2>8 DEF Proposals, CallNumbers
      <4>5. step[n] # -1
        BY DEF Shape, TypeOK, StepTypeOK, Steps
      <4>6. d = c
        BY <2>8, <4>3, <4>4, <4>5 DEF OneProposer
      <4>7. paxosId[c] \in Nat
        BY DEF Shape, TypeOK, CallTypeOK
      <4> QED BY <1>2, <2>2, <4>3, <4>6, <4>7
    <3>2. highestAcceptedId'[n] < paxosId[c]
      BY <2>4, <2>5, <2>8, <3>1 DEF Counting
    <3>3. ASSUME NEW o \in phaseOnePeers'[c]
          PROVE  \E r \in rumors[o] : /\ r.type = "promise" /\ r.step = current[c]
                                      /\ r.id = paxosId[c] /\ r.accId <= highestAcceptedId'[n]
      <4>1. CASE o \in phaseOnePeers[c]
        <5>1. PICK r \in rumors[o] : /\ r.type = "promise" /\ r.step = current[c]
                                     /\ r.id = paxosId[c] /\ r.accId <= highestAcceptedId[n]
          BY <2>5, <2>8, <4>1 DEF Counting, Promised
        <5>2. r.accId \in Nat
          <6>1. r \in Message
            BY <2>6, <4>1, ProposalIds
          <6>2. r \in PaxosPromiseMessage
            BY <5>1, <6>1, MessageKinds
          <6> QED BY <6>2 DEF PaxosPromiseMessage
        <5>3. r.accId <= highestAcceptedId'[n]
          BY <2>3, <2>4, <5>1, <5>2
        <5> QED BY <5>1, <5>3
      <4>2. CASE o = m.src /\ c \in C
        <5>1. m.step = current[c] /\ m.id = paxosId[c]
          BY <4>2 DEF PhaseOneCall
        <5> QED BY <1>2, <2>4, <4>2, <5>1
      <4> QED BY <2>1, <4>1, <4>2
    <3>4. success'[c] => Cardinality(phaseOnePeers'[c]) >= PaxosThreshold
      <4>1. phaseOnePeers[c] \subseteq phaseOnePeers'[c]
        BY <2>1
      <4>2. IsFiniteSet(phaseOnePeers'[c])
        BY <2>6, NodeAssumption, FS_Subset
      <4>3. /\ Cardinality(phaseOnePeers[c]) <= Cardinality(phaseOnePeers'[c])
            /\ Cardinality(phaseOnePeers[c]) \in Nat /\ Cardinality(phaseOnePeers'[c]) \in Nat
        BY <4>1, <4>2, FS_Subset, FS_CardinalityType
      <4>4. PaxosThreshold \in Nat
        BY NodeAssumption
      <4>5. success[c] => Cardinality(phaseOnePeers[c]) >= PaxosThreshold
        BY <2>5 DEF Counting
      <4>6. success'[c] => success[c] \/ Cardinality(phaseOnePeers'[c]) >= PaxosThreshold
        BY <2>1
      <4> QED BY <4>3, <4>4, <4>5, <4>6
    <3> QED BY <1>1, <2>8, <3>2, <3>3, <3>4 DEF Counting, Promised
  <2> QED BY <2>7, <2>8
<1> QED BY <1>3, <1>4 DEF HandlePromise

LEMMA HandleCounts ==
    ASSUME Shape, Shape', Proposals, Votes, Counts, OneProposer, CurrentPast, NEW t,
           NEW n \in Node, NEW m \in Message, NEW q, m \in rumors[m.src], ActsOn(m, n),
           Handle(t, n, m, q)
    PROVE  Counts'
<1>1. UNCHANGED <<pc, current, paxosId>>
  BY HandleQuiet
<1>2. \A o \in Node : rumors[o] \subseteq rumors'[o]
  BY HandleKeeps
<1>3. \A c \in Call : phaseOnePeers[c] \subseteq Node
  BY DEF Shape, TypeOK, CallTypeOK
<1>4. CASE \/ HandlePrepare(t, n, m, q) \/ HandlePropose(t, n, m, q)
           \/ HandleTLC(t, n, m, q) /\ ~ AdvanceStep(t, n, m, q)
  <2>1. UNCHANGED <<step, highestAcceptedId, phaseOnePeers, success>>
    BY <1>4 DEF HandlePrepare, HandlePropose, HandleTLC, StoreTLC, stepVars, proposerVars,
                highestVars, callVars
  <2> QED BY <1>1, <1>2, <1>3, <2>1, KeepCounts
<1>5. CASE HandleAccept(t, n, m, q)
  <2>1. UNCHANGED <<step, highestAcceptedId, phaseOnePeers>>
    BY <1>5 DEF HandleAccept, highestVars
  <2>2. \A c \in Call : pc[c] = "p1" => success'[c] = success[c]
    BY <1>5 DEF HandleAccept, PhaseTwoCall, Shape, TypeOK, CallTypeOK
  <2> QED BY <1>1, <1>2, <1>3, <2>1, <2>2, KeepCounts
<1>6. CASE HandleTLC(t, n, m, q) /\ AdvanceStep(t, n, m, q)
  <2>1. UNCHANGED <<phaseOnePeers, success>>
    BY <1>6 DEF HandleTLC, callVars
  <2>2. /\ highestAcceptedId' = [highestAcceptedId EXCEPT ![n] = 0]
        /\ step' = [step EXCEPT ![n] = CatchUpStep(n, step[n])]
    BY <1>6 DEF AdvanceStep, ResetProposer
  <2>3. step[n] < step'[n]
    <3>1. m.step = step[n] /\ step[n] \in Steps /\ step[n] < MaxStep /\ step[n] \in Nat
      BY <1>6 DEF AdvanceStep, Shape, TypeOK, StepTypeOK, Steps
    <3>2. CatchUpStep(n, step[n]) \in step[n] + 1 .. MaxStep
      BY <3>1, CatchUpStepExists DEF Shape, TypeOK, StepTypeOK
    <3>3. step'[n] = CatchUpStep(n, step[n])
      BY <2>2 DEF Shape, TypeOK, StepTypeOK
    <3> QED BY <3>1, <3>2, <3>3
  <2>4. \A o \in Node \ {n} :
            step'[o] = step[o] /\ highestAcceptedId'[o] = highestAcceptedId[o]
    BY <2>2 DEF Shape, TypeOK, StepTypeOK, ProposerTypeOK
  <2>5. ASSUME NEW c \in Call, pc'[c] = "p1", current[c] = step'[CallNode[c]]
        PROVE  CallNode[c] # n
    <3>1. current[c] <= step[CallNode[c]]
      BY DEF CurrentPast
    <3>2. step[n] \in Nat /\ step'[n] \in Nat
      BY DEF Shape, TypeOK, StepTypeOK, Steps
    <3> QED BY <2>3, <2>5, <3>1, <3>2
  <2>6. \A c \in Call : CallNode[c] \in Node
    BY CallAssumption
  <2> QED BY <1>1, <1>2, <1>3, <2>1, <2>4, <2>5, <2>6, KeepCounts
<1> QED BY <1>4, <1>5, <1>6, PromiseCounts DEF Handle

\* A call that begins an iteration is alone at its step, and counts anew.
LEMMA StartCounts ==
    ASSUME Shape, Proposals, Counts, OneProposer', NEW c \in Call, StartPhaseOne(c)
    PROVE  Counts'
<1>1. PICK n \in Node, s \in Nat : n = CallNode[c] /\ s = step[n]
  BY CallAssumption DEF Shape, TypeOK, StepTypeOK, Steps
<1>2. PICK i : i = IF s = previous[c] THEN paxosId[c] + N ELSE PaxosID[n]
  OBVIOUS
<1>3. /\ pc' = [pc EXCEPT ![c] = "p1"] /\ current' = [current EXCEPT ![c] = s]
      /\ previous' = [previous EXCEPT ![c] = s] /\ paxosId' = [paxosId EXCEPT ![c] = i]
      /\ phaseOnePeers' = [phaseOnePeers EXCEPT ![c] = {}]
      /\ success' = [success EXCEPT ![c] = FALSE]
      /\ highestAcceptedId' = [highestAcceptedId EXCEPT ![n] = 0]
      /\ step' = step
      /\ Broadcast(c, n, [type |-> "prepare", src |-> n, step |-> s, id |-> i], net)
  BY <1>1, <1>2 DEF StartPhaseOne, ResetProposer, stepVars
<1>4. \A o \in Node : rumors[o] \subseteq rumors'[o]
  BY <1>3, BroadcastKeeps
<1>5. i > 0
  BY <1>2, NodeCount, NodeAssumption DEF Shape, TypeOK, CallTypeOK
<1>6. /\ pc'[c] = "p1" /\ current'[c] = s /\ previous'[c] = s /\ paxosId'[c] = i
      /\ phaseOnePeers'[c] = {} /\ ~ success'[c] /\ highestAcceptedId'[n] = 0
      /\ \A d \in Call \ {c} :
             /\ pc'[d] = pc[d] /\ current'[d] = current[d] /\ previous'[d] = previous[d]
             /\ paxosId'[d] = paxosId[d] /\ phaseOnePeers'[d] = phaseOnePeers[d]
             /\ success'[d] = success[d] /\ phaseOnePeers[d] \subseteq Node
      /\ \A o \in Node \ {n} : highestAcceptedId'[o] = highestAcceptedId[o]
  BY <1>3 DEF Shape, TypeOK, CallTypeOK, ProposerTypeOK
<1> SUFFICES ASSUME NEW d \in Call, pc'[d] = "p1", current'[d] = step'[CallNode[d]]
             PROVE  Counting(d)'
  BY DEF Counts
<1>7. CASE d = c
  BY <1>1, <1>5, <1>6, <1>7 DEF Counting
<1>8. CASE d # c
  <2>1. pc[d] = "p1" /\ current[d] = step[CallNode[d]] /\ Counting(d)
    BY <1>3, <1>6, <1>8 DEF Counts
  <2>2. CallNode[d] # n
    <3>1. previous[d] = current[d]
      BY <2>1 DEF Proposals, CallNumbers
    <3> QED BY <1>1, <1>6, <1>8, <2>1, <3>1 DEF OneProposer
  <2>3. CallNode[d] \in Node
    BY CallAssumption
  <2>4. highestAcceptedId'[CallNode[d]] = highestAcceptedId[CallNode[d]]
    BY <1>6, <2>2, <2>3
  <2>5. \A o \in phaseOnePeers[d] : o \in Node
    BY <1>6, <1>8
  <2>6. /\ highestAcceptedId[CallNode[d]] < paxosId[d]
        /\ success[d] => Cardinality(phaseOnePeers[d]) >= PaxosThreshold
        /\ \A o \in phaseOnePeers[d] :
               Promised(o, current[d], paxosId[d], highestAcceptedId[CallNode[d]])
    BY <2>1 DEF Counting
  <2>7. \A o \in phaseOnePeers'[d] : \E r \in rumors'[o] :
            /\ r.type = "promise" /\ r.step = current'[d]
            /\ r.id = paxosId'[d] /\ r.accId <= highestAcceptedId'[CallNode[d]]
    BY <1>4, <1>6, <1>8, <2>4, <2>5, <2>6 DEF Promised
  <2> QED BY <1>6, <1>8, <2>4, <2>6, <2>7 DEF Counting, Promised
<1> QED BY <1>7, <1>8

LEMMA CallCounts ==
    ASSUME Shape, Proposals, Counts, OneProposer', NEW c \in Call, CallStep(c)
    PROVE  Counts'
<1>1. \A d \in Call : phaseOnePeers[d] \subseteq Node
  BY DEF Shape, TypeOK, CallTypeOK
<1>2. CASE CallMoves(c)
  <2>1. UNCHANGED <<current, paxosId, step, rumors, highestAcceptedId, phaseOnePeers, success>>
    BY <1>2, CallMovesKeep DEF gossipVars, proposerVars, highestVars
  <2>2. \A d \in Call : pc'[d] = "p1" => pc[d] = "p1"
    <3>1. pc \in [Call -> {"idle", "check", "prepare", "p1", "p2", "wait", "done", "failed"}]
      BY DEF Shape, TypeOK, CallTypeOK
    <3> QED BY <1>2, <3>1 DEF CallMoves, BeginCall, CheckName, Timeout, Accepted, Return
  <2> QED BY <1>1, <2>1, <2>2, KeepCounts
<1>3. CASE Propose(c)
  <2>1. /\ UNCHANGED <<current, paxosId, step, highestAcceptedId, phaseOnePeers>>
        /\ pc' = [pc EXCEPT ![c] = "p2"] /\ success' = [success EXCEPT ![c] = FALSE]
    BY <1>3 DEF Propose, stepVars, loopVars, highestVars
  <2>2. \A d \in Call : pc'[d] = "p1" => pc[d] = "p1" /\ success'[d] = success[d]
    BY <2>1 DEF Shape, TypeOK, CallTypeOK
  <2>3. \A o \in Node : rumors[o] \subseteq rumors'[o]
    BY <1>3, CallAssumption, BroadcastKeeps DEF Propose
  <2> QED BY <1>1, <2>1, <2>2, <2>3, KeepCounts
<1> QED BY <1>2, <1>3, StartCounts DEF CallStep, CallMoves

-----------------------------------------------------------------------------
(* One value per step                                                      *)

LEMMA HandlePaxos ==
    ASSUME Shape, Shape', GossipInv, AcceptorInv, CurrentPast, Paxos, OneProposer,
           NEW t \in Thread, NEW m \in Message, NEW q \in Queues, Addressed(q),
           m \in rumors[m.src], ActsOn(m, NodeOf(t)), Handle(t, NodeOf(t), m, q)
    PROVE  Paxos'
<1>1. NodeOf(t) \in Node
  BY NodeOfType
<1> QED BY <1>1, HandleProposals, HandleVotes, HandleCounts, HandleDelivery DEF Paxos

LEMMA CallPaxos ==
    ASSUME Shape, Shape', Paxos, OneProposer, OneProposer', NEW c \in Call, CallStep(c),
           FreshProposals
    PROVE  Paxos'
BY CallProposals, CallVotes, CallCounts, CallDelivery DEF Paxos

LEMMA InitPaxos == Init => Paxos
<1> SUFFICES ASSUME Init PROVE Paxos
  OBVIOUS
<1>1. /\ \A n \in Node : rumors[n] = {} /\ step[n] = 0
      /\ \A o, d \in Node : net[o][d] = << >>
      /\ \A t \in Thread : local[t] = None
      /\ \A c \in Call : pc[c] = "idle" /\ previous[c] = -1 /\ CallNode[c] \in Node
      /\ \A n \in Node : /\ acceptedId[n] = 0 /\ acceptedValue[n] = None
                          /\ highestAcceptedId[n] = 0 /\ highestAcceptedValue[n] = None
  BY CallAssumption DEF Init, InitButRumors
<1>2. Proposals
  BY <1>1 DEF Proposals, CallNumbers, RumorNumbers, OneValue, SafeProposals
<1>3. Votes
  BY <1>1 DEF Votes, VotesSent, VotesKept, Vote
<1>4. Counts
  BY <1>1 DEF Counts
<1>5. Delivery
  BY <1>1, EmptySeq DEF Delivery, Addressed
<1> QED BY <1>2, <1>3, <1>4, <1>5 DEF Paxos

LEMMA PaxosInvariant == Spec /\ [][FreshProposals]_vars /\ []OneProposer => []Paxos
<1>1. Shape /\ Shape' /\ Faithful /\ Backed /\ Sound /\ Paxos /\ OneProposer /\ OneProposer'
          /\ [Next]_vars /\ [FreshProposals]_vars => Paxos'
  <2> SUFFICES ASSUME Shape, Shape', Faithful, Backed, Sound, Paxos, OneProposer, OneProposer',
                      [Next]_vars, [FreshProposals]_vars
               PROVE  Paxos'
    OBVIOUS
  <2>1. GossipInv /\ AcceptorInv /\ CurrentPast /\ Delivery
    BY DEF Backed, Faithful, Sound, Paxos
  <2>2. CASE UNCHANGED vars
    BY <2>2 DEF vars, stepVars, acceptorVars, proposerVars, highestVars, callVars, loopVars,
                gossipVars, Paxos, Proposals, CallNumbers, RumorNumbers, Given, OneValue,
                SafeProposals, Safe, Promised, Proposal, Votes, VotesSent, VoteMessage, Vote,
                Prepared, VotesKept, Counts, Counting, Delivery, Addressed
  <2>3. ASSUME NEW o \in Node, NEW d \in Node, Receive(o, d) PROVE Paxos'
    <3> DEFINE m == Head(net[o][d])
               q == [net EXCEPT ![o][d] = Tail(@)]
    <3>1. /\ m \in Message /\ q \in Queues /\ d \in Thread /\ NodeOf(d) = d
          /\ Handle(d, d, m, q)
      BY <2>3, ReceiveMessage DEF Receive, Shape, TypeOK
    <3>2. net \in Queues /\ net[o][d] \in Seq(Message) /\ net[o][d] # << >>
      BY <2>3 DEF Receive, Queues, Shape, TypeOK, GossipTypeOK
    <3>3. /\ m = net[o][d][1] /\ Len(net[o][d]) \in Nat /\ Len(net[o][d]) > 0
          /\ Len(Tail(net[o][d])) = Len(net[o][d]) - 1
          /\ \A i \in 1 .. Len(Tail(net[o][d])) : Tail(net[o][d])[i] = net[o][d][i + 1]
      BY <3>2, HeadTailProperties, LenProperties, EmptySeq
    <3>4. m \in rumors[m.src] /\ ActsOn(m, d)
      <4>1. 1 \in 1 .. Len(net[o][d])
        BY <3>3
      <4>2. m \in rumors[o] /\ ActsOn(m, d)
        BY <2>1, <3>3, <4>1 DEF GossipInv, Known, Delivery, Addressed
      <4> QED BY <2>1, <4>2 DEF GossipInv
    <3>5. Addressed(q)
      <4> SUFFICES ASSUME NEW x \in Node, NEW y \in Node, NEW i \in 1 .. Len(q[x][y])
                   PROVE  ActsOn(q[x][y][i], y)
        BY DEF Addressed
      <4>1. \A k \in 1 .. Len(net[x][y]) : ActsOn(net[x][y][k], y)
        BY <2>1 DEF Delivery, Addressed
      <4>2. \/ q[x][y] = net[x][y]
            \/ x = o /\ y = d /\ q[x][y] = Tail(net[o][d])
        BY <3>2 DEF Queues
      <4> HIDE DEF q
      <4>3. CASE q[x][y] = net[x][y]
        BY <4>1, <4>3
      <4>4. CASE x = o /\ y = d /\ q[x][y] = Tail(net[o][d])
        <5>1. i + 1 \in 1 .. Len(net[o][d]) /\ q[x][y][i] = net[o][d][i + 1]
          BY <3>3, <4>4
        <5> QED BY <4>1, <4>4, <5>1
      <4> QED BY <4>2, <4>3, <4>4
    <3> HIDE DEF m, q
    <3> QED BY <2>1, <3>1, <3>4, <3>5, HandlePaxos
  <2>4. ASSUME NEW t \in Thread, ProcessLocal(t) PROVE Paxos'
    <3> DEFINE m == local[t]
    <3>1. m \in Message /\ net \in Queues /\ NodeOf(t) \in Node /\ Handle(t, NodeOf(t), m, net)
      BY <2>4, LocalMessage DEF ProcessLocal, Shape, TypeOK
    <3>2. m \in rumors[m.src] /\ ActsOn(m, NodeOf(t)) /\ Addressed(net)
      BY <2>1, <2>4, <3>1 DEF ProcessLocal, GossipInv, Delivery
    <3> HIDE DEF m
    <3> QED BY <2>1, <3>1, <3>2, HandlePaxos
  <2>5. CASE \E c \in Call : CallStep(c)
    <3>1. CASE FreshProposals
      BY <2>5, <3>1, CallPaxos
    <3> QED BY <2>2, <3>1
  <2> QED BY <2>2, <2>3, <2>4, <2>5 DEF Next
<1> QED BY <1>1, InitPaxos, ShapeInvariant, FaithfulInvariant, BackedInvariant, SoundInvariant, PTL
        DEF Spec

\* A threshold of peers has accepted the identifier u at step s with number i.
AcceptedAt(s, i, u) ==
    {o \in Node : \E r \in rumors[o] :
        r.type = "accept" /\ r.step = s /\ r.id = i /\ r.val.uid = u}
Chosen(s, i, u) == Cardinality(AcceptedAt(s, i, u)) >= PaxosThreshold

\* From a chosen number on, nothing but its value is proposed.
LEMMA ChosenStays ==
    ASSUME Shape, Paxos, PromiseFaithful, 2 * PaxosThreshold > Cardinality(Node),
           NEW s, NEW j \in Nat, NEW u, Chosen(s, j, u),
           NEW i \in Nat, i >= j, NEW v, Proposal(s, i, v)
    PROVE  v.uid = u
<1> DEFINE Bad == {k \in 0 .. i : k >= j /\ \E w : Proposal(s, k, w) /\ w.uid # u}
<1>1. IsFiniteSet(AcceptedAt(s, j, u)) /\ AcceptedAt(s, j, u) \in SUBSET Node
  <2>1. AcceptedAt(s, j, u) \in SUBSET Node
    BY DEF AcceptedAt
  <2> QED BY <2>1, NodeAssumption, FS_Subset
<1>2. /\ PaxosThreshold \in Nat \ {0} /\ Cardinality(Node) \in Nat /\ IsFiniteSet(Node)
      /\ Cardinality(AcceptedAt(s, j, u)) \in Nat
      /\ Cardinality(AcceptedAt(s, j, u)) >= PaxosThreshold
  BY <1>1, NodeAssumption, FS_CardinalityType DEF Chosen
<1>3. j > 0 /\ \E w : Proposal(s, j, w) /\ w.uid = u
  <2>1. PICK o \in AcceptedAt(s, j, u) : TRUE
    BY <1>1, <1>2, FS_EmptySet
  <2>2. PICK r \in rumors[o] : r.type = "accept" /\ r.step = s /\ r.id = j /\ r.val.uid = u
    BY <2>1 DEF AcceptedAt
  <2>3. o \in Node
    BY DEF AcceptedAt
  <2>4. Proposal(s, j, r.val)
    BY <2>2, <2>3 DEF Paxos, Votes, VotesSent, VoteMessage
  <2> QED BY <2>2, <2>3, <2>4, ProposalIds
<1>4. ASSUME NEW k \in Bad, \A l \in Bad : k <= l PROVE FALSE
  <2>1. PICK w : Proposal(s, k, w) /\ w.uid # u
    OBVIOUS
  <2>2. k \in Nat /\ k >= j /\ k <= i
    OBVIOUS
  <2> HIDE DEF Bad
  <2>3. k # j
    <3>1. PICK x : Proposal(s, j, x) /\ x.uid = u
      BY <1>3
    <3>2. ASSUME k = j PROVE w = x
      BY <2>1, <3>1, <3>2 DEF Proposal, Paxos, Proposals, OneValue
    <3> QED BY <2>1, <3>1, <3>2
  <2>4. Safe(s, k, w)
    BY <2>1 DEF Proposal, Paxos, Proposals, SafeProposals
  <2>5. PICK Q \in SUBSET Node, l \in Nat :
            /\ Cardinality(Q) >= PaxosThreshold
            /\ l < k /\ (l > 0 => Proposal(s, l, w))
            /\ \A o \in Q : Promised(o, s, k, l)
    BY <2>4 DEF Safe
  <2>6. PICK o : o \in Q /\ o \in AcceptedAt(s, j, u)
    <3>1. IsFiniteSet(Q) /\ Cardinality(Q) \in Nat
      BY <1>2, <2>5, FS_Subset, FS_CardinalityType
    <3>2. Cardinality(Q) + Cardinality(AcceptedAt(s, j, u)) > Cardinality(Node)
      BY <1>2, <2>5, <3>1
    <3>3. Q \cap AcceptedAt(s, j, u) # {}
      BY <1>1, <1>2, <3>2, FS_MajoritiesIntersect
    <3> QED BY <3>3
  <2>7. l >= j
    <3>1. PICK p \in rumors[o] : p.type = "promise" /\ p.step = s /\ p.id = k /\ p.accId <= l
      BY <2>5, <2>6 DEF Promised
    <3>2. PICK r \in rumors[o] : r.type = "accept" /\ r.step = s /\ r.id = j
      BY <2>6 DEF AcceptedAt
    <3>3. o \in Node /\ r.id < p.id
      BY <2>2, <2>3, <2>6, <3>1, <3>2 DEF AcceptedAt
    <3>4. r.id <= p.accId
      BY <3>1, <3>2, <3>3 DEF PromiseFaithful
    <3>5. p.accId \in Nat
      <4>1. p \in Message
        BY <3>3, ProposalIds
      <4>2. p \in PaxosPromiseMessage
        BY <3>1, <4>1, MessageKinds
      <4> QED BY <4>2 DEF PaxosPromiseMessage
    <3> QED BY <3>1, <3>2, <3>4, <3>5
  <2>8. l \in Bad
    <3>1. Proposal(s, l, w)
      BY <1>3, <2>5, <2>7
    <3>2. l \in 0 .. i
      BY <2>2, <2>5
    <3> QED BY <2>1, <2>7, <3>1, <3>2 DEF Bad
  <2> QED BY <1>4, <2>2, <2>5, <2>8
<1>5. Bad = {}
  <2>1. Bad \in SUBSET (0 .. i)
    OBVIOUS
  <2> HIDE DEF Bad
  <2> QED BY <1>4, <2>1, FirstExists
<1>6. v.uid # u => i \in Bad
  OBVIOUS
<1> QED BY <1>5, <1>6

ChosenOnce ==
    \A s \in Steps : \A i, j \in Nat : \A u, v :
        (Chosen(s, i, u) /\ Chosen(s, j, v)) => u = v

\* Two identifiers that a majority has accepted at one step, each with one number,
\* are the same, however calls of different nodes overtake and adopt each other.
THEOREM PaxosChoosesOnce ==
    ASSUME 2 * PaxosThreshold > Cardinality(Node)
    PROVE  Spec /\ [][FreshProposals]_vars /\ []OneProposer => []ChosenOnce
<1>1. ASSUME Shape, Paxos, PromiseFaithful, NEW s, NEW i \in Nat, NEW j \in Nat, NEW u, NEW v,
             Chosen(s, i, u), Chosen(s, j, v), i <= j
      PROVE  u = v
  <2>1. PICK o \in Node : \E r \in rumors[o] :
            r.type = "accept" /\ r.step = s /\ r.id = j /\ r.val.uid = v
    <3>1. AcceptedAt(s, j, v) # {}
      <4>1. Cardinality(AcceptedAt(s, j, v)) >= PaxosThreshold
        BY <1>1 DEF Chosen
      <4>2. PaxosThreshold > 0
        BY NodeAssumption
      <4>3. Cardinality({}) = 0
        BY FS_EmptySet
      <4>4. CASE AcceptedAt(s, j, v) = {}
        <5>1. Cardinality(AcceptedAt(s, j, v)) = 0
          BY <4>3, <4>4
        <5>2. PaxosThreshold \in Nat
          BY NodeAssumption
        <5> HIDE <4>4
        <5> QED BY <4>1, <4>2, <5>1, <5>2
      <4> QED BY <4>4
    <3> QED BY <3>1 DEF AcceptedAt
  <2>2. PICK r \in rumors[o] : r.type = "accept" /\ r.step = s /\ r.id = j /\ r.val.uid = v
    BY <2>1
  <2>3. Proposal(s, j, r.val)
    BY <1>1, <2>2 DEF Paxos, Votes, VotesSent, VoteMessage
  <2>4. r.val.uid = u
    BY <1>1, <2>3, ChosenStays
  <2> QED BY <2>2, <2>4
<1>2. Shape /\ Paxos /\ PromiseFaithful => ChosenOnce
  <2> SUFFICES ASSUME Shape, Paxos, PromiseFaithful, NEW s \in Steps, NEW i \in Nat, NEW j \in Nat,
                      NEW u, NEW v, Chosen(s, i, u), Chosen(s, j, v)
               PROVE  u = v
    BY DEF ChosenOnce
  <2>1. i <= j \/ j <= i
    OBVIOUS
  <2> QED BY <1>1, <2>1
<1> QED BY <1>2, ShapeInvariant, PaxosInvariant, PromisesFaithful, PTL

\* A node announces a value only if a threshold has accepted it with one number.
CountedPerNumber ==
    \A n \in Node : \A m \in rumors[n] :
        m.type = "tlc" => \E i \in Nat : Chosen(m.step, i, m.block.value.uid)

\* Nodes agree, and build the ledger, if a majority decides, no call proposes at
\* a step its node has left, no two calls of a node share a step, and what is
\* announced was accepted with one number.  Tag and ExecPaxosAcceptMessage ensure
\* none of the three: the behaviours in which nodes differ lack one of them.
THEOREM MajorityBuildsLedger ==
    ASSUME 2 * PaxosThreshold > Cardinality(Node)
    PROVE  Spec /\ [][FreshProposals]_vars /\ []OneProposer /\ []CountedPerNumber
               => []Agreement /\ ImplementsLedger
<1>1. Shape /\ ChosenOnce /\ CountedPerNumber => DecidedOnce
  <2> SUFFICES ASSUME Shape, ChosenOnce, CountedPerNumber,
                      NEW n \in Node, NEW o \in Node, NEW m \in rumors[n], NEW r \in rumors[o],
                      m.type = "tlc", r.type = "tlc", m.step = r.step
               PROVE  m.block.value.uid = r.block.value.uid
    BY DEF DecidedOnce
  <2>1. m.step \in Steps
    BY MessageKinds DEF Shape, TypeOK, GossipTypeOK
  <2>2. PICK i \in Nat : Chosen(m.step, i, m.block.value.uid)
    BY DEF CountedPerNumber
  <2>3. PICK j \in Nat : Chosen(m.step, j, r.block.value.uid)
    BY DEF CountedPerNumber
  <2> QED BY <2>1, <2>2, <2>3 DEF ChosenOnce
<1> QED BY <1>1, ShapeInvariant, PaxosChoosesOnce, DecisionsAgree, LedgerImplemented, PTL

-----------------------------------------------------------------------------
(* The token of a step                                                     *)

\* Catching up leaves one step at a time.
NoJump == \A n \in Node : step'[n] <= step[n] + 1

Running(c) == pc[c] \in {"p1", "p2", "wait"}

\* Another call of the node has returned at the step, with its token.
TokenTaken(c) ==
    \E d \in Call : /\ CallNode[d] = CallNode[c] /\ current[d] = current[c]
                    /\ pc[d] = "done" /\ attempt[d] > 0

\* The token of a step that was left is there, or was taken.
Woken ==
    \A c \in Call : (Running(c) /\ current[c] < step[CallNode[c]])
        => current[c] \in finished[CallNode[c]] \/ TokenTaken(c)

LEMMA HandleWoken ==
    ASSUME Shape, Sound, Woken, NoJump, NEW t, NEW n \in Node, NEW m \in Message, NEW q,
           Handle(t, n, m, q)
    PROVE  Woken'
<1>1. UNCHANGED <<pc, attempt, current>>
  BY DEF Handle, HandlePrepare, HandlePropose, HandlePromise, HandleAccept, HandleTLC,
         callVars, loopVars
<1>2. \A c \in Call : TokenTaken(c) => TokenTaken(c)'
  BY <1>1 DEF TokenTaken
<1>3. CASE UNCHANGED <<step, finished>>
  BY <1>1, <1>2, <1>3 DEF Woken, Running
<1>4. CASE HandleTLC(t, n, m, q) /\ AdvanceStep(t, n, m, q)
  <2> DEFINE top == CatchUpStep(n, step[n])
  <2>1. /\ step' = [step EXCEPT ![n] = top]
        /\ finished' = [finished EXCEPT ![n] = @ \cup {top - 1}]
        /\ step[n] < MaxStep
    BY <1>4 DEF AdvanceStep, Signalled
  <2>2. top \in step[n] + 1 .. MaxStep
    BY <2>1, CatchUpStepExists DEF Shape, TypeOK, StepTypeOK
  <2> HIDE DEF top
  <2>3. /\ step \in [Node -> Steps] /\ finished \in [Node -> SUBSET Steps]
        /\ MaxStep \in Nat /\ top \in Nat /\ step[n] < top /\ step[n] \in Nat
    BY <2>2, BoundAssumption DEF Shape, TypeOK, StepTypeOK, Steps
  <2>4. top = step[n] + 1
    BY <2>1, <2>3 DEF NoJump
  <2>5. ASSUME NEW c \in Call, Running(c)', current'[c] < step'[CallNode[c]]
        PROVE  current[c] \in finished'[CallNode[c]] \/ TokenTaken(c)
    <3>1. Running(c) /\ current'[c] = current[c] /\ CallNode[c] \in Node
      BY <1>1, <2>5, CallAssumption DEF Running
    <3>2. /\ current[c] \in Nat /\ current[c] <= step[CallNode[c]]
      BY DEF Shape, TypeOK, CallTypeOK, Steps, Sound, CurrentPast
    <3>3. finished[CallNode[c]] \subseteq finished'[CallNode[c]]
      BY <2>1, <2>3, <3>1
    <3>4. CASE current[c] < step[CallNode[c]]
      BY <3>1, <3>3, <3>4 DEF Woken
    <3>5. CASE ~ (current[c] < step[CallNode[c]])
      <4>1. step[CallNode[c]] \in Nat
        BY <2>3, <3>1 DEF Steps
      <4>2. current[c] = step[CallNode[c]]
        BY <3>2, <3>5, <4>1
      <4>3. CallNode[c] = n
        BY <2>1, <2>3, <2>5, <3>1, <4>1, <4>2
      <4> QED BY <2>1, <2>3, <2>4, <4>2, <4>3
    <3> QED BY <3>4, <3>5
  <2> QED BY <1>1, <1>2, <2>5 DEF Woken
<1> QED
  BY <1>3, <1>4 DEF Handle, HandlePrepare, HandlePropose, HandlePromise, HandleAccept, HandleTLC,
                    StoreTLC, stepVars

LEMMA CallWoken ==
    ASSUME Shape, Woken, Returning, NEW c \in Call, CallStep(c)
    PROVE  Woken'
<1>1. step' = step /\ \A o \in Node : step[o] \in Nat
  BY DEF CallStep, BeginCall, CheckName, StartPhaseOne, Timeout, Propose, Accepted, Return,
         stepVars, Shape, TypeOK, StepTypeOK, Steps
<1>2. /\ pc \in [Call -> {"idle", "check", "prepare", "p1", "p2", "wait", "done", "failed"}]
      /\ DOMAIN attempt = Call /\ DOMAIN current = Call
      /\ \A d \in Call : CallNode[d] \in Node
      /\ \A o \in Node : finished[o] \subseteq Steps
      /\ DOMAIN finished = Node
  BY CallAssumption DEF Shape, TypeOK, CallTypeOK, StepTypeOK
<1>3. \A d \in Call : d # c =>
          pc'[d] = pc[d] /\ attempt'[d] = attempt[d] /\ current'[d] = current[d]
  BY <1>2 DEF CallStep, BeginCall, CheckName, StartPhaseOne, Timeout, Propose, Accepted, Return,
              loopVars
<1>4. pc[c] # "done"
  BY DEF CallStep, BeginCall, CheckName, StartPhaseOne, Timeout, Propose, Accepted, Return
<1>5. ASSUME NEW d \in Call, TokenTaken(d), current'[d] = current[d]
      PROVE  TokenTaken(d)'
  BY <1>3, <1>4, <1>5 DEF TokenTaken
<1>6. ASSUME NEW d \in Call, Running(d)', current'[d] < step'[CallNode[d]]
      PROVE  Running(d) /\ current'[d] = current[d]
  <2>1. CASE d # c
    BY <1>3, <1>6, <2>1 DEF Running
  <2>2. CASE d = c
    <3>1. CASE StartPhaseOne(c)
      <4>1. current'[c] = step[CallNode[c]]
        BY <1>2, <3>1 DEF StartPhaseOne
      <4> QED BY <1>1, <1>2, <1>6, <2>2, <4>1
    <3>2. CASE BeginCall(c) \/ CheckName(c) \/ Timeout(c) \/ Return(c)
      <4>1. pc'[c] \in {"check", "prepare", "done", "failed"}
        BY <1>2, <3>2 DEF BeginCall, CheckName, Timeout, Return
      <4> QED BY <1>6, <2>2, <4>1 DEF Running
    <3>3. CASE Propose(c) \/ Accepted(c)
      BY <2>2, <3>3 DEF Propose, Accepted, Running, loopVars
    <3> QED BY <3>1, <3>2, <3>3 DEF CallStep
  <2> QED BY <2>1, <2>2
<1>7. CASE finished' = finished
  BY <1>1, <1>5, <1>6, <1>7 DEF Woken
<1>8. CASE Return(c)
  <2>1. /\ pc[c] = "wait" /\ pc'[c] = "done" /\ current' = current /\ attempt' = attempt
        /\ finished' = [finished EXCEPT ![CallNode[c]] = @ \ {current[c]}]
    BY <1>2, <1>8 DEF Return, loopVars
  <2>2. attempt[c] > 0
    BY <2>1 DEF Returning, CallTold
  <2>3. ASSUME NEW d \in Call, Running(d)', current'[d] < step'[CallNode[d]]
        PROVE  current'[d] \in finished'[CallNode[d]] \/ TokenTaken(d)'
    <3>1. Running(d) /\ current[d] < step[CallNode[d]] /\ current'[d] = current[d]
      BY <1>1, <1>6, <2>3
    <3>2. CASE TokenTaken(d)
      BY <1>5, <3>1, <3>2
    <3>3. CASE current[d] \in finished'[CallNode[d]]
      BY <3>1, <3>3
    <3>4. CASE ~ TokenTaken(d) /\ current[d] \notin finished'[CallNode[d]]
      <4>1. current[d] \in finished[CallNode[d]]
        BY <3>1, <3>4 DEF Woken
      <4>2. CallNode[d] = CallNode[c] /\ current[d] = current[c]
        BY <1>2, <2>1, <3>4, <4>1
      <4> QED BY <2>1, <2>2, <4>2 DEF TokenTaken
    <3> QED BY <3>2, <3>3, <3>4
  <2> QED BY <2>3 DEF Woken
<1> QED
  BY <1>7, <1>8 DEF CallStep, BeginCall, CheckName, StartPhaseOne, Timeout, Propose, Accepted,
                    stepVars

LEMMA WokenInvariant == Spec /\ [][NoJump]_vars => []Woken
<1>1. Init => Woken
  BY DEF Init, InitButRumors, Woken, Running
<1>2. Shape /\ Sound /\ Returning /\ Woken /\ [Next]_vars /\ [NoJump]_vars => Woken'
  <2> SUFFICES ASSUME Shape, Sound, Returning, Woken, [Next]_vars, [NoJump]_vars PROVE Woken'
    OBVIOUS
  <2>1. CASE UNCHANGED vars
    <3>1. UNCHANGED <<step, finished, pc, current, attempt>>
      BY <2>1 DEF vars, stepVars, callVars, loopVars
    <3> QED BY <3>1 DEF Woken, Running, TokenTaken
  <2>2. CASE Next /\ NoJump
    <3>1. ASSUME NEW o \in Node, NEW d \in Node, Receive(o, d) PROVE Woken'
      BY <2>2, <3>1, ReceiveMessage, HandleWoken DEF Receive, Shape, TypeOK
    <3>2. ASSUME NEW t \in Thread, ProcessLocal(t) PROVE Woken'
      BY <2>2, <3>2, LocalMessage, HandleWoken DEF ProcessLocal, Shape, TypeOK
    <3>3. ASSUME NEW c \in Call, CallStep(c) PROVE Woken'
      BY <3>3, CallWoken
    <3> QED BY <2>2, <3>1, <3>2, <3>3 DEF Next
  <2> QED BY <2>1, <2>2
<1> QED BY <1>1, <1>2, ShapeInvariant, SoundInvariant, ReturningInvariant, PTL DEF Spec

\* If clocks leave one step at a time and no call proposes at a step its node has
\* left, a call that waits at a step that was left finds the token, as long as
\* Paxos decides one value for each step: no other call can have taken it.
THEOREM WakeupsKept ==
    Spec /\ [][FreshProposals]_vars /\ [][NoJump]_vars => [](DecidedOnce => NoLostWakeup)
<1>1. ASSUME Shape, Sound, Returning, OneStep, DecidedOnce, NEW c \in Call, NEW d \in Call,
             OwnDecided(c), OwnDecided(d), current[c] = current[d]
      PROVE  c = d
  <2>1. PICK n \in Node : \E m \in rumors[n] :
            m.type = "tlc" /\ m.block.value.uid = <<c, attempt[c]>>
    BY <1>1 DEF OwnDecided, Told
  <2>2. PICK m \in rumors[n] : m.type = "tlc" /\ m.block.value.uid = <<c, attempt[c]>>
    BY <2>1
  <2>3. PICK o \in Node : \E r \in rumors[o] :
            r.type = "tlc" /\ r.block.value.uid = <<d, attempt[d]>>
    BY <1>1 DEF OwnDecided, Told
  <2>4. PICK r \in rumors[o] : r.type = "tlc" /\ r.block.value.uid = <<d, attempt[d]>>
    BY <2>3
  <2>5. ProposedAt(<<c, attempt[c]>>, m.step) /\ ProposedAt(<<d, attempt[d]>>, r.step)
    BY <1>1, <2>2, <2>4 DEF Sound, RumorsSound, SoundMessage, BlockAt, ValueAt
  <2>6. m.step = current[c] /\ r.step = current[d]
    BY <1>1, <2>5 DEF OwnDecided, ProposedAt, OneStep
  <2>7. m.block.value.uid = r.block.value.uid
    BY <1>1, <2>2, <2>4, <2>6 DEF DecidedOnce
  <2> QED BY <2>2, <2>4, <2>7
<1>2. Shape /\ Sound /\ Returning /\ OneStep /\ Woken => (DecidedOnce => NoLostWakeup)
  <2> SUFFICES ASSUME Shape, Sound, Returning, OneStep, Woken, DecidedOnce, NEW c \in Call,
                      pc[c] = "wait", step[CallNode[c]] > current[c]
               PROVE  current[c] \in finished[CallNode[c]]
    BY DEF NoLostWakeup
  <2>1. step[CallNode[c]] \in Nat /\ current[c] \in Nat
    BY CallAssumption DEF Shape, TypeOK, StepTypeOK, CallTypeOK, Steps
  <2>2. current[c] \in finished[CallNode[c]] \/ TokenTaken(c)
    BY <2>1 DEF Woken, Running
  <2>3. ASSUME TokenTaken(c) PROVE FALSE
    <3>1. PICK d \in Call : current[d] = current[c] /\ pc[d] = "done" /\ attempt[d] > 0
      BY <2>3 DEF TokenTaken
    <3>2. OwnDecided(c) /\ OwnDecided(d)
      BY <3>1 DEF Returning, CallTold
    <3> QED BY <1>1, <3>1, <3>2
  <2> QED BY <2>2, <2>3
<1> QED BY <1>2, ShapeInvariant, SoundInvariant, ReturningInvariant, OneStepInvariant,
           WokenInvariant, PTL

-----------------------------------------------------------------------------
(* The TLC messages on their way                                           *)

IsTLC(m, s) == m.type = "tlc" /\ m.step = s

\* The places <<sender, position>> of the TLC messages of step s queued for d.
Underway(q, d, s) ==
    {p \in Node \X (Nat \ {0}) :
        p[2] <= Len(q[p[1]][d]) /\ IsTLC(q[p[1]][d][p[2]], s)}

\* The threads of d about to process a TLC message of step s of their own.
Own(d, s) == {t \in Thread : NodeOf(t) = d /\ local[t] # None /\ IsTLC(local[t], s)}

InFlight(d, s) == Cardinality(Underway(net, d, s)) + Cardinality(Own(d, s))

\* What is left once thread t has taken its message, with the queues q.
Left(t, q, d, s) == Cardinality(Underway(q, d, s)) + Cardinality(Own(d, s) \ {t})

FiniteUnderway(q) == \A d \in Node : \A s \in Steps : IsFiniteSet(Underway(q, d, s))
FiniteFlight ==
    FiniteUnderway(net) /\ \A d \in Node : \A s \in Steps : IsFiniteSet(Own(d, s))

One(P) == IF P THEN 1 ELSE 0

\* Thread t of n has taken the message m, and the queues are q.
Taken(t, n, m, q) ==
    /\ FiniteUnderway(q)
    /\ \A d \in Node : \A s \in Steps :
           InFlight(d, s) = Left(t, q, d, s) + One(d = n /\ IsTLC(m, s))

LEMMA FlightNat ==
    ASSUME FiniteFlight, NEW d \in Node, NEW s \in Steps
    PROVE  InFlight(d, s) \in Nat
BY FS_CardinalityType DEF FiniteFlight, FiniteUnderway, InFlight

LEMMA LeftNat ==
    ASSUME FiniteFlight, NEW t, NEW q, FiniteUnderway(q), NEW d \in Node, NEW s \in Steps
    PROVE  Left(t, q, d, s) \in Nat
<1>1. IsFiniteSet(Own(d, s) \ {t}) /\ IsFiniteSet(Underway(q, d, s))
  BY FS_RemoveElement DEF FiniteFlight, FiniteUnderway
<1> QED BY <1>1, FS_CardinalityType DEF Left

\* Taking the first rumor of o moves the others one place forward.
LEMMA TailUnderway ==
    ASSUME NEW q \in Queues, NEW o \in Node, NEW d \in Node, q[o][d] # << >>,
           NEW s \in Steps, IsFiniteSet(Underway(q, d, s)),
           NEW r, r = [q EXCEPT ![o][d] = Tail(@)]
    PROVE  /\ IsFiniteSet(Underway(r, d, s))
           /\ Cardinality(Underway(q, d, s))
                  = Cardinality(Underway(r, d, s)) + One(IsTLC(Head(q[o][d]), s))
<1> DEFINE U == Underway(q, d, s) \ {<<o, 1>>}
           V == Underway(r, d, s)
           shift(p) == IF p[1] = o THEN <<o, p[2] - 1>> ELSE p
           back(p) == IF p[1] = o THEN <<o, p[2] + 1>> ELSE p
           f == [p \in U |-> shift(p)]
<1>1. /\ q[o][d] \in Seq(Message) /\ Len(q[o][d]) \in Nat
      /\ r[o][d] = Tail(q[o][d])
      /\ \A e \in Node : e # o => r[e][d] = q[e][d]
  BY LenProperties DEF Queues
<1>2. /\ Len(r[o][d]) = Len(q[o][d]) - 1 /\ Len(q[o][d]) > 0
      /\ \A i \in 1 .. Len(q[o][d]) - 1 : r[o][d][i] = q[o][d][i + 1]
      /\ Head(q[o][d]) = q[o][d][1]
  <2>1. Len(q[o][d]) > 0
    BY <1>1, EmptySeq
  <2>2. /\ Len(Tail(q[o][d])) = Len(q[o][d]) - 1
        /\ \A i \in 1 .. Len(Tail(q[o][d])) : Tail(q[o][d])[i] = q[o][d][i + 1]
    BY <1>1, HeadTailProperties
  <2>3. Head(q[o][d]) = q[o][d][1]
    BY <1>1
  <2>4. \A i \in 1 .. Len(q[o][d]) - 1 : r[o][d][i] = q[o][d][i + 1]
    BY <1>1, <2>2
  <2> QED BY <1>1, <2>1, <2>2, <2>3, <2>4
<1>3. \A p \in U : shift(p) \in V
  <2> SUFFICES ASSUME NEW p \in U PROVE shift(p) \in V
    OBVIOUS
  <2>1. /\ p[1] \in Node /\ p[2] \in Nat \ {0} /\ p = <<p[1], p[2]>> /\ p # <<o, 1>>
        /\ p[2] <= Len(q[p[1]][d]) /\ IsTLC(q[p[1]][d][p[2]], s)
    BY DEF Underway
  <2>2. CASE p[1] = o
    <3>1. p[2] - 1 \in 1 .. Len(q[o][d]) - 1 /\ p[2] # 1
      BY <1>1, <2>1, <2>2
    <3>2. r[o][d][p[2] - 1] = q[o][d][p[2]]
      BY <1>2, <2>1, <3>1
    <3>3. <<o, p[2] - 1>> \in V
      BY <1>1, <1>2, <2>1, <2>2, <3>1, <3>2 DEF Underway
    <3> QED BY <2>2, <3>3
  <2>3. CASE p[1] # o
    BY <1>1, <2>1, <2>3 DEF Underway
  <2> QED BY <2>2, <2>3
<1>4. \A p \in V : back(p) \in U /\ shift(back(p)) = p
  <2> SUFFICES ASSUME NEW p \in V PROVE back(p) \in U /\ shift(back(p)) = p
    OBVIOUS
  <2>1. /\ p[1] \in Node /\ p[2] \in Nat \ {0} /\ p = <<p[1], p[2]>>
        /\ p[2] <= Len(r[p[1]][d]) /\ IsTLC(r[p[1]][d][p[2]], s)
    BY DEF Underway
  <2>2. CASE p[1] = o
    <3>1. p[2] \in 1 .. Len(q[o][d]) - 1
      BY <1>1, <1>2, <2>1, <2>2
    <3>2. r[o][d][p[2]] = q[o][d][p[2] + 1] /\ p[2] + 1 \in Nat \ {0}
      BY <1>2, <2>1, <3>1
    <3>3. /\ <<o, p[2] + 1>> \in Underway(q, d, s)
          /\ p[2] + 1 # 1 /\ p[2] + 1 - 1 = p[2]
      BY <1>1, <1>2, <2>1, <2>2, <3>1, <3>2 DEF Underway
    <3> QED BY <2>1, <2>2, <3>3
  <2>3. CASE p[1] # o
    BY <1>1, <2>1, <2>3 DEF Underway
  <2> QED BY <2>2, <2>3
<1>5. \A p1, p2 \in U : shift(p1) = shift(p2) => p1 = p2
  <2> SUFFICES ASSUME NEW p1 \in U, NEW p2 \in U, shift(p1) = shift(p2) PROVE p1 = p2
    OBVIOUS
  <2>1. /\ p1[2] \in Nat /\ p1 = <<p1[1], p1[2]>>
        /\ p2[2] \in Nat /\ p2 = <<p2[1], p2[2]>>
    BY DEF Underway
  <2> QED BY <2>1
<1>6. f \in Bijection(U, V)
  <2>1. f \in [U -> V]
    BY <1>3
  <2>2. \A p1, p2 \in U : f[p1] = f[p2] => p1 = p2
    BY <1>5
  <2>3. \A p \in V : \E u \in U : f[u] = p
    BY <1>4
  <2> HIDE DEF f, U, V
  <2> QED BY <2>1, <2>2, <2>3 DEF Bijection, Injection, Surjection, IsInjective
<1>7. /\ IsFiniteSet(U)
      /\ Cardinality(U) = Cardinality(Underway(q, d, s)) - One(IsTLC(Head(q[o][d]), s))
  <2>1. <<o, 1>> \in Underway(q, d, s) <=> IsTLC(Head(q[o][d]), s)
    BY <1>1, <1>2 DEF Underway
  <2>2. Cardinality(Underway(q, d, s)) \in Nat
    BY FS_CardinalityType
  <2> QED BY <2>1, <2>2, FS_RemoveElement DEF One
<1>8. IsFiniteSet(V) /\ Cardinality(V) = Cardinality(U)
  <2> HIDE DEF U, V, f
  <2> QED BY <1>6, <1>7, FS_Bijection DEF ExistsBijection
<1>9. Cardinality(Underway(q, d, s)) \in Nat
  BY FS_CardinalityType
<1> HIDE DEF U
<1> QED BY <1>7, <1>8, <1>9 DEF One

\* The queues after a broadcast of m: a TLC message of step s is one more for
\* every other node.
LEMMA EnqueueUnderway ==
    ASSUME NEW q \in Queues, NEW n \in Node, NEW m \in Message, NEW d \in Node,
           NEW s \in Steps, IsFiniteSet(Underway(q, d, s))
    PROVE  /\ IsFiniteSet(Underway(Enqueue(q, n, m), d, s))
           /\ Cardinality(Underway(Enqueue(q, n, m), d, s))
                  = Cardinality(Underway(q, d, s)) + One(d # n /\ IsTLC(m, s))
<1> DEFINE r == Enqueue(q, n, m)
           U == Underway(q, d, s)
           p == <<n, Len(q[n][d]) + 1>>
<1>1. /\ \A e \in Node : q[e][d] \in Seq(Message) /\ Len(q[e][d]) \in Nat
      /\ \A e \in Node : e # n => r[e][d] = q[e][d]
      /\ r[n][d] = IF d # n /\ ActsOn(m, d) THEN Append(q[n][d], m) ELSE q[n][d]
  BY LenProperties DEF Queues, Enqueue
<1>2. Cardinality(U) \in Nat
  BY FS_CardinalityType
<1>3. /\ Len(Append(q[n][d], m)) = Len(q[n][d]) + 1
      /\ \A i \in 1 .. Len(q[n][d]) : Append(q[n][d], m)[i] = q[n][d][i]
      /\ Append(q[n][d], m)[Len(q[n][d]) + 1] = m
  BY <1>1, AppendProperties
<1> HIDE DEF r
<1>4. CASE d # n /\ IsTLC(m, s)
  <2>1. r[n][d] = Append(q[n][d], m)
    BY <1>1, <1>4 DEF ActsOn, IsTLC
  <2>2. p \in Underway(r, d, s) /\ p \notin U
    <3>1. /\ p \in Node \X (Nat \ {0}) /\ p[1] = n
          /\ p[2] = Len(q[n][d]) + 1 /\ Len(q[n][d]) \in Nat
      BY <1>1
    <3> HIDE DEF p
    <3>2. p[2] <= Len(r[p[1]][d]) /\ r[p[1]][d][p[2]] = m
      BY <1>3, <2>1, <3>1
    <3>3. p \in Underway(r, d, s)
      BY <1>4, <3>1, <3>2 DEF Underway
    <3>4. ~ (p[2] <= Len(q[p[1]][d]))
      BY <3>1
    <3> QED BY <3>3, <3>4 DEF Underway
  <2>3. \A x \in U : x \in Underway(r, d, s)
    BY <1>1, <1>3, <2>1 DEF Underway
  <2>4. ASSUME NEW x \in Underway(r, d, s), x # p PROVE x \in U
    <3>1. /\ x[1] \in Node /\ x[2] \in Nat \ {0} /\ x = <<x[1], x[2]>>
          /\ x[2] <= Len(r[x[1]][d]) /\ IsTLC(r[x[1]][d][x[2]], s)
      BY DEF Underway
    <3>2. x[1] = n => x[2] \in 1 .. Len(q[n][d])
      BY <1>1, <1>3, <2>1, <2>4, <3>1
    <3>3. r[x[1]][d][x[2]] = q[x[1]][d][x[2]] /\ x[2] <= Len(q[x[1]][d])
      BY <1>1, <1>3, <2>1, <3>1, <3>2
    <3> QED BY <3>1, <3>3 DEF Underway
  <2>5. Underway(r, d, s) = U \cup {p}
    BY <2>2, <2>3, <2>4
  <2> HIDE DEF U, p
  <2>6. IsFiniteSet(U)
    BY DEF U
  <2>7. /\ IsFiniteSet(Underway(r, d, s))
        /\ Cardinality(Underway(r, d, s)) = Cardinality(U) + 1
    BY <2>2, <2>5, <2>6, FS_AddElement
  <2> QED BY <1>4, <2>7 DEF r, U, One
<1>5. CASE ~ (d # n /\ IsTLC(m, s))
  <2>1. CASE r[n][d] = q[n][d]
    <3>1. Underway(r, d, s) = U
      BY <1>1, <2>1 DEF Underway
    <3> QED BY <1>2, <1>5, <3>1 DEF r, One
  <2>2. CASE r[n][d] = Append(q[n][d], m) /\ d # n
    <3>1. ASSUME NEW x \in U PROVE x \in Underway(r, d, s)
      <4>1. /\ x[1] \in Node /\ x[2] \in Nat \ {0} /\ x = <<x[1], x[2]>>
            /\ x[2] <= Len(q[x[1]][d]) /\ IsTLC(q[x[1]][d][x[2]], s)
        BY DEF Underway
      <4>2. r[x[1]][d][x[2]] = q[x[1]][d][x[2]] /\ x[2] <= Len(r[x[1]][d])
        BY <1>1, <1>3, <2>2, <4>1
      <4> QED BY <4>1, <4>2 DEF Underway
    <3>2. ASSUME NEW x \in Underway(r, d, s) PROVE x \in U
      <4>1. /\ x[1] \in Node /\ x[2] \in Nat \ {0} /\ x = <<x[1], x[2]>>
            /\ x[2] <= Len(r[x[1]][d]) /\ IsTLC(r[x[1]][d][x[2]], s)
        BY DEF Underway
      <4>2. ASSUME x[1] = n PROVE x[2] \in 1 .. Len(q[n][d])
        <5>1. x[2] <= Len(q[n][d]) + 1 /\ IsTLC(Append(q[n][d], m)[x[2]], s)
          BY <1>3, <2>2, <4>1, <4>2
        <5>2. x[2] # Len(q[n][d]) + 1
          BY <1>3, <1>5, <2>2, <5>1
        <5> QED BY <1>1, <4>1, <5>1, <5>2
      <4>3. r[x[1]][d][x[2]] = q[x[1]][d][x[2]] /\ x[2] <= Len(q[x[1]][d])
        BY <1>1, <1>3, <2>2, <4>1, <4>2
      <4> QED BY <4>1, <4>3 DEF Underway
    <3>3. Underway(r, d, s) = U
      BY <3>1, <3>2
    <3> QED BY <1>2, <1>5, <3>3 DEF r, One
  <2> QED BY <1>1, <2>1, <2>2
<1> QED BY <1>4, <1>5

\* Thread t is left with the message x, or with none.
LEMMA OwnAfter ==
    ASSUME Shape, NEW t \in Thread, NEW x \in Message \cup {None},
           local' = [local EXCEPT ![t] = x], NEW d \in Node, NEW s \in Steps,
           IsFiniteSet(Own(d, s))
    PROVE  /\ IsFiniteSet(Own(d, s)')
           /\ Cardinality(Own(d, s)')
                  = Cardinality(Own(d, s) \ {t})
                    + One(d = NodeOf(t) /\ x # None /\ IsTLC(x, s))
<1> DEFINE W == Own(d, s) \ {t}
           C == d = NodeOf(t) /\ x # None /\ IsTLC(x, s)
<1>1. local'[t] = x /\ \A u \in Thread : u # t => local'[u] = local[u]
  BY DEF Shape, TypeOK, GossipTypeOK
<1>2. Own(d, s)' = IF C THEN W \cup {t} ELSE W
  BY <1>1 DEF Own
<1>3. IsFiniteSet(W) /\ t \notin W /\ Cardinality(W) \in Nat
  BY FS_RemoveElement, FS_CardinalityType
<1> HIDE DEF W
<1>4. IsFiniteSet(W \cup {t}) /\ Cardinality(W \cup {t}) = Cardinality(W) + 1
  BY <1>3, FS_AddElement
<1>5. CASE C
  BY <1>2, <1>4, <1>5 DEF W, One
<1>6. CASE ~ C
  BY <1>2, <1>3, <1>6 DEF W, One
<1> QED BY <1>5, <1>6

LEMMA OwnRest ==
    ASSUME FiniteFlight, NEW t, NEW d \in Node, NEW s \in Steps
    PROVE  /\ IsFiniteSet(Own(d, s) \ {t})
           /\ Cardinality(Own(d, s) \ {t}) = Cardinality(Own(d, s)) - One(t \in Own(d, s))
           /\ Cardinality(Own(d, s)) \in Nat
BY FS_RemoveElement, FS_CardinalityType DEF FiniteFlight, One

\* The main loop takes the rumor it is going to process.
LEMMA ReceiveTaken ==
    ASSUME Shape, FiniteFlight, NEW o \in Node, NEW n \in Node, net[o][n] # << >>,
           local[n] = None
    PROVE  Taken(n, n, Head(net[o][n]), [net EXCEPT ![o][n] = Tail(@)])
<1> DEFINE q == [net EXCEPT ![o][n] = Tail(@)]
           m == Head(net[o][n])
<1>1. net \in Queues
  BY DEF Shape, TypeOK, GossipTypeOK, Queues
<1>2. ASSUME NEW d \in Node, NEW s \in Steps
      PROVE  /\ IsFiniteSet(Underway(q, d, s))
             /\ InFlight(d, s) = Left(n, q, d, s) + One(d = n /\ IsTLC(m, s))
  <2>1. n \notin Own(d, s)
    BY DEF Own
  <2>2. /\ Cardinality(Own(d, s) \ {n}) = Cardinality(Own(d, s))
        /\ Cardinality(Own(d, s)) \in Nat
    BY <2>1, OwnRest DEF One
  <2>3. IsFiniteSet(Underway(net, d, s)) /\ Cardinality(Underway(net, d, s)) \in Nat
    BY FS_CardinalityType DEF FiniteFlight, FiniteUnderway
  <2>4. CASE d = n
    <3>1. /\ IsFiniteSet(Underway(q, n, s))
          /\ Cardinality(Underway(net, n, s)) = Cardinality(Underway(q, n, s)) + One(IsTLC(m, s))
      BY <1>1, <2>3, <2>4, TailUnderway
    <3>2. Cardinality(Underway(q, n, s)) \in Nat
      BY <3>1, FS_CardinalityType
    <3>3. One(d = n /\ IsTLC(m, s)) = One(IsTLC(m, s)) /\ One(IsTLC(m, s)) \in Nat
      BY <2>4 DEF One
    <3> HIDE DEF q, m
    <3> QED BY <2>2, <2>4, <3>1, <3>2, <3>3 DEF InFlight, Left
  <2>5. CASE d # n
    <3>1. \A e \in Node : q[e][d] = net[e][d]
      BY <1>1, <2>5 DEF Queues
    <3> HIDE DEF q, m
    <3>2. Underway(q, d, s) = Underway(net, d, s)
      BY <3>1 DEF Underway
    <3>3. One(d = n /\ IsTLC(m, s)) = 0
      BY <2>5 DEF One
    <3> QED BY <2>2, <2>3, <3>2, <3>3 DEF InFlight, Left
  <2> QED BY <2>4, <2>5
<1> HIDE DEF q, m
<1>3. Taken(n, n, m, q)
  BY <1>2 DEF Taken, FiniteUnderway
<1> QED BY <1>3 DEF q, m

\* A thread takes the message it has just broadcast.
LEMMA LocalTaken ==
    ASSUME FiniteFlight, NEW t \in Thread, local[t] # None
    PROVE  Taken(t, NodeOf(t), local[t], net)
<1>1. ASSUME NEW d \in Node, NEW s \in Steps
      PROVE  InFlight(d, s) = Left(t, net, d, s) + One(d = NodeOf(t) /\ IsTLC(local[t], s))
  <2>1. t \in Own(d, s) <=> d = NodeOf(t) /\ IsTLC(local[t], s)
    BY DEF Own
  <2>2. /\ Cardinality(Own(d, s) \ {t}) = Cardinality(Own(d, s)) - One(t \in Own(d, s))
        /\ Cardinality(Own(d, s)) \in Nat
    BY OwnRest
  <2>3. Cardinality(Underway(net, d, s)) \in Nat
    BY FS_CardinalityType DEF FiniteFlight, FiniteUnderway
  <2> QED BY <2>1, <2>2, <2>3 DEF InFlight, Left, One
<1> QED BY <1>1 DEF Taken, FiniteFlight

\* What is in flight once thread t has broadcast r, which it processes next.
LEMMA BroadcastFlight ==
    ASSUME Shape, FiniteFlight, NEW t \in Thread, NEW q \in Queues, FiniteUnderway(q),
           NEW r \in Message, Broadcast(t, NodeOf(t), r, q)
    PROVE  /\ FiniteFlight'
           /\ \A d \in Node : \A s \in Steps :
                  InFlight(d, s)' = Left(t, q, d, s) + One(IsTLC(r, s))
<1> DEFINE n == NodeOf(t)
           x == IF ActsOn(r, n) THEN r ELSE None
<1>1. /\ n \in Node /\ x \in Message \cup {None}
      /\ net' = Enqueue(q, n, r) /\ local' = [local EXCEPT ![t] = x]
  BY NodeOfType DEF Broadcast
<1>2. ASSUME NEW d \in Node, NEW s \in Steps
      PROVE  /\ IsFiniteSet(Underway(net', d, s)) /\ IsFiniteSet(Own(d, s)')
             /\ InFlight(d, s)' = Left(t, q, d, s) + One(IsTLC(r, s))
  <2>1. /\ IsFiniteSet(Underway(net', d, s))
        /\ Cardinality(Underway(net', d, s))
               = Cardinality(Underway(q, d, s)) + One(d # n /\ IsTLC(r, s))
    BY <1>1, EnqueueUnderway DEF FiniteUnderway
  <2>2. /\ IsFiniteSet(Own(d, s)')
        /\ Cardinality(Own(d, s)')
               = Cardinality(Own(d, s) \ {t}) + One(d = n /\ x # None /\ IsTLC(x, s))
    <3>1. IsFiniteSet(Own(d, s))
      BY DEF FiniteFlight
    <3> HIDE DEF x
    <3> QED BY <1>1, <3>1, OwnAfter
  <2>3. (x # None /\ IsTLC(x, s)) <=> IsTLC(r, s)
    <3>1. r # None
      BY NoneAssumption
    <3> QED BY <3>1 DEF IsTLC, ActsOn
  <2>4. /\ Cardinality(Underway(q, d, s)) \in Nat
        /\ Cardinality(Own(d, s) \ {t}) \in Nat
    BY OwnRest, FS_CardinalityType DEF FiniteUnderway
  <2> HIDE DEF n, x
  <2> QED BY <2>1, <2>2, <2>3, <2>4 DEF InFlight, Left, One
<1> QED BY <1>2 DEF FiniteFlight, FiniteUnderway

LEMMA FinishFlight ==
    ASSUME Shape, FiniteFlight, NEW t \in Thread, NEW q \in Queues, FiniteUnderway(q),
           local' = [local EXCEPT ![t] = None], net' = q
    PROVE  /\ FiniteFlight'
           /\ \A d \in Node : \A s \in Steps : InFlight(d, s)' = Left(t, q, d, s)
<1>1. ASSUME NEW d \in Node, NEW s \in Steps
      PROVE  /\ IsFiniteSet(Underway(net', d, s)) /\ IsFiniteSet(Own(d, s)')
             /\ InFlight(d, s)' = Left(t, q, d, s)
  <2>1. IsFiniteSet(Underway(net', d, s))
    BY DEF FiniteUnderway
  <2>2. /\ IsFiniteSet(Own(d, s)')
        /\ Cardinality(Own(d, s)') = Cardinality(Own(d, s) \ {t}) + One(FALSE)
    BY OwnAfter DEF FiniteFlight
  <2>3. Cardinality(Own(d, s) \ {t}) \in Nat
    BY OwnRest, FS_CardinalityType
  <2> QED BY <2>1, <2>2, <2>3 DEF InFlight, Left, One
<1> QED BY <1>1 DEF FiniteFlight, FiniteUnderway

-----------------------------------------------------------------------------
(* Clocks meet: every node that has not left a step gets as many TLC       *)
(* messages of it as any other, and one of every node that sent one        *)

Announcers(s) == {o \in Node : s \in tlcSent[o]}

\* The TLC messages of step s that d has stored or will process.
Total(d, s) == Len(tlc[d][s]) + InFlight(d, s)

TLCCounted ==
    /\ \A s \in Steps : \A d \in Node : step[d] <= s =>
           /\ Cardinality(Announcers(s)) <= Total(d, s)
           /\ \A e \in Node : /\ Len(tlc[e][s]) <= Total(d, s)
                              /\ step[e] <= s => Total(e, s) = Total(d, s)
    /\ \A s \in Steps : \A d \in Node : step[d] > s => Len(tlc[d][s]) >= PaxosThreshold

\* A call about to prepare has nothing of its own to process.
PrepareFree == \A c \in Call : pc[c] = "prepare" => local[c] = None

Flight == FiniteFlight /\ PrepareFree /\ TLCCounted

LEMMA LengthNat ==
    ASSUME Shape, NEW d \in Node, NEW s \in Steps
    PROVE  /\ Len(tlc[d][s]) \in Nat /\ tlc[d][s] \in Seq(Block)
           /\ step[d] \in Nat /\ s \in Nat
BY LenProperties, BoundAssumption DEF Shape, TypeOK, StepTypeOK, Steps

LEMMA AnnouncersFinite ==
    ASSUME NEW s
    PROVE  IsFiniteSet(Announcers(s)) /\ Cardinality(Announcers(s)) \in Nat
BY NodeAssumption, FS_Subset, FS_CardinalityType DEF Announcers

\* Clocks stand, and of step z every node that has not left it gets k more.
LEMMA CountedKept ==
    ASSUME Shape, Shape', FiniteFlight, FiniteFlight', TLCCounted, step' = step,
           NEW z, NEW k \in {0, 1},
           \A d \in Node : \A s \in Steps :
               step[d] <= s => Total(d, s)' = Total(d, s) + One(s = z /\ k = 1),
           \A d \in Node : \A s \in Steps :
               /\ Len(tlc[d][s]) <= Len(tlc'[d][s])
               /\ step[d] <= s \/ tlc'[d][s] = tlc[d][s],
           \A s \in Steps :
               Cardinality(Announcers(s)') <= Cardinality(Announcers(s)) + One(s = z /\ k = 1)
    PROVE  TLCCounted'
<1>1. ASSUME NEW s \in Steps, NEW d \in Node, step[d] <= s
      PROVE  /\ Cardinality(Announcers(s)') <= Total(d, s)'
             /\ \A e \in Node : /\ Len(tlc'[e][s]) <= Total(d, s)'
                                /\ step[e] <= s => Total(e, s)' = Total(d, s)'
  <2>1. /\ Cardinality(Announcers(s)) <= Total(d, s)
        /\ \A e \in Node : /\ Len(tlc[e][s]) <= Total(d, s)
                           /\ step[e] <= s => Total(e, s) = Total(d, s)
    BY <1>1 DEF TLCCounted
  <2>2. Total(d, s) \in Nat /\ One(s = z /\ k = 1) \in Nat
    BY LengthNat, FlightNat DEF Total, One
  <2>3. Total(d, s)' = Total(d, s) + One(s = z /\ k = 1)
    BY <1>1
  <2>4. Cardinality(Announcers(s)') <= Total(d, s)'
    <3>1. Cardinality(Announcers(s)) \in Nat /\ Cardinality(Announcers(s)') \in Nat
      BY AnnouncersFinite, NodeAssumption, FS_Subset, FS_CardinalityType DEF Announcers
    <3> QED BY <2>1, <2>2, <2>3, <3>1
  <2>5. ASSUME NEW e \in Node
        PROVE  /\ Len(tlc'[e][s]) <= Total(d, s)'
               /\ step[e] <= s => Total(e, s)' = Total(d, s)'
    <3>1. step[e] <= s => Total(e, s)' = Total(d, s)'
      BY <2>1, <2>3
    <3>2. CASE step[e] <= s
      <4>1. Total(e, s)' = Len(tlc'[e][s]) + InFlight(e, s)' /\ InFlight(e, s)' \in Nat
        BY FS_CardinalityType DEF FiniteFlight, FiniteUnderway, InFlight, Total
      <4>2. Len(tlc'[e][s]) \in Nat
        BY LenProperties DEF Shape, TypeOK, StepTypeOK
      <4> QED BY <3>1, <3>2, <4>1, <4>2
    <3>3. CASE tlc'[e][s] = tlc[e][s]
      BY <2>1, <2>2, <2>3, <3>1, <3>3, LengthNat
    <3> QED BY <3>2, <3>3
  <2> QED BY <2>4, <2>5
<1>2. ASSUME NEW s \in Steps, NEW d \in Node, step[d] > s
      PROVE  Len(tlc'[d][s]) >= PaxosThreshold
  <2>1. /\ Len(tlc[d][s]) >= PaxosThreshold /\ Len(tlc[d][s]) \in Nat
        /\ ~ (step[d] <= s)
    BY <1>2, LengthNat DEF TLCCounted
  <2> QED BY <2>1
<1> QED BY <1>1, <1>2 DEF TLCCounted

LEMMA TakenNat ==
    ASSUME Shape, FiniteFlight, NEW t, NEW n, NEW m, NEW q, Taken(t, n, m, q)
    PROVE  \A d \in Node : \A s \in Steps :
               /\ Left(t, q, d, s) \in Nat
               /\ Total(d, s) = Len(tlc[d][s]) + Left(t, q, d, s) + One(d = n /\ IsTLC(m, s))
               /\ Total(d, s) \in Nat
<1> SUFFICES ASSUME NEW d \in Node, NEW s \in Steps
             PROVE  /\ Left(t, q, d, s) \in Nat
                    /\ Total(d, s) = Len(tlc[d][s]) + Left(t, q, d, s)
                                     + One(d = n /\ IsTLC(m, s))
                    /\ Total(d, s) \in Nat
  OBVIOUS
<1>1. Len(tlc[d][s]) \in Nat /\ InFlight(d, s) \in Nat /\ Left(t, q, d, s) \in Nat
  BY LengthNat, FlightNat, LeftNat DEF Taken
<1>2. InFlight(d, s) = Left(t, q, d, s) + One(d = n /\ IsTLC(m, s))
  BY DEF Taken
<1>3. One(d = n /\ IsTLC(m, s)) \in Nat
  BY DEF One
<1> QED BY <1>1, <1>2, <1>3 DEF Total

\* The message was no TLC message, and thread t broadcasts r or nothing.
LEMMA OtherFlight ==
    ASSUME Shape, Shape', FiniteFlight, TLCCounted, NEW t \in Thread, NEW m, m.type # "tlc",
           NEW q \in Queues, Taken(t, NodeOf(t), m, q), UNCHANGED <<step, tlc, tlcSent>>,
           Finish(t, q) \/ \E r \in Message : r.type # "tlc" /\ Broadcast(t, NodeOf(t), r, q)
    PROVE  FiniteFlight' /\ TLCCounted'
<1>1. FiniteUnderway(q) /\ NodeOf(t) \in Node
  BY NodeOfType DEF Taken
<1>2. /\ FiniteFlight'
      /\ \A d \in Node : \A s \in Steps : InFlight(d, s)' = Left(t, q, d, s)
  <2>1. CASE Finish(t, q)
    BY <1>1, <2>1, FinishFlight DEF Finish
  <2>2. ASSUME NEW r \in Message, r.type # "tlc", Broadcast(t, NodeOf(t), r, q)
        PROVE  /\ FiniteFlight'
               /\ \A d \in Node : \A s \in Steps : InFlight(d, s)' = Left(t, q, d, s)
    <3>1. /\ FiniteFlight'
          /\ \A d \in Node : \A s \in Steps :
                 InFlight(d, s)' = Left(t, q, d, s) + One(IsTLC(r, s))
      BY <1>1, <2>2, BroadcastFlight
    <3>2. \A s : One(IsTLC(r, s)) = 0
      BY <2>2 DEF One, IsTLC
    <3>3. \A d \in Node : \A s \in Steps : Left(t, q, d, s) \in Nat
      BY <1>1, LeftNat
    <3> QED BY <3>1, <3>2, <3>3
  <2> QED BY <2>1, <2>2
<1>3. \A d \in Node : \A s \in Steps :
          Total(d, s)' = Total(d, s) + One(s = 0 /\ 0 = 1) /\ Len(tlc[d][s]) \in Nat
  <2>1. \A s : One(NodeOf(t) \in Node /\ IsTLC(m, s)) = 0 /\ One(s = 0 /\ 0 = 1) = 0
    BY DEF One, IsTLC
  <2>2. ASSUME NEW d \in Node, NEW s \in Steps
        PROVE  Total(d, s)' = Total(d, s) + One(s = 0 /\ 0 = 1) /\ Len(tlc[d][s]) \in Nat
    <3>1. One(d = NodeOf(t) /\ IsTLC(m, s)) = 0 /\ One(s = 0 /\ 0 = 1) = 0
      BY DEF One, IsTLC
    <3>2. /\ Left(t, q, d, s) \in Nat /\ Len(tlc[d][s]) \in Nat
          /\ Total(d, s) = Len(tlc[d][s]) + Left(t, q, d, s)
                           + One(d = NodeOf(t) /\ IsTLC(m, s))
      BY TakenNat, LengthNat
    <3>3. Total(d, s)' = Len(tlc[d][s]) + Left(t, q, d, s)
      BY <1>2 DEF Total
    <3> QED BY <3>1, <3>2, <3>3
  <2> QED BY <2>2
<1>4. \A s \in Steps : /\ Announcers(s)' = Announcers(s)
                       /\ Cardinality(Announcers(s)) \in Nat
  BY AnnouncersFinite DEF Announcers
<1>5. \A d \in Node : \A s \in Steps :
          Len(tlc[d][s]) <= Len(tlc'[d][s]) /\ tlc'[d][s] = tlc[d][s]
  BY <1>3
<1>6. \A s \in Steps :
          Cardinality(Announcers(s)') <= Cardinality(Announcers(s)) + One(s = 0 /\ 0 = 1)
  BY <1>4 DEF One
<1> QED BY <1>2, <1>3, <1>5, <1>6, CountedKept

\* An accept was counted, and announced or not.
LEMMA AcceptFlight ==
    ASSUME Shape, Shape', FiniteFlight, TLCCounted, NEW t \in Thread, NEW m \in Message,
           NEW q \in Queues, Taken(t, NodeOf(t), m, q), HandleAccept(t, NodeOf(t), m, q)
    PROVE  FiniteFlight' /\ TLCCounted'
<1> DEFINE n == NodeOf(t)
           r == [type |-> "tlc", src |-> n, step |-> m.step,
                 block |-> NewBlock(n, m.step, m.val)]
<1>1. /\ FiniteUnderway(q) /\ n \in Node /\ m.type = "accept" /\ m \in PaxosAcceptMessage
      /\ UNCHANGED <<step, tlc>>
  BY NodeOfType, MessageKinds DEF Taken, HandleAccept
<1>2. CASE Finish(t, q) /\ tlcSent' = tlcSent
  BY <1>1, <1>2, OtherFlight
<1>3. CASE /\ Broadcast(t, n, r, q) /\ m.step = step[n]
           /\ tlcSent' = [tlcSent EXCEPT ![n] = @ \cup {m.step}]
  <2>1. r \in Message
    <3>1. m.step \in Steps /\ m.val \in Value /\ Len(chain[n]) = m.step
      BY <1>1, <1>3 DEF PaxosAcceptMessage, Shape, ChainLength
    <3>2. NewBlock(n, m.step, m.val) \in Block
      BY <1>1, <3>1, BlockOnTop DEF Shape, TypeOK, StoreTypeOK
    <3> QED BY <1>1, <3>1, <3>2 DEF Message, TLCMessage
  <2>2. r.type = "tlc" /\ r.step = m.step
    OBVIOUS
  <2> HIDE DEF r
  <2>3. /\ FiniteFlight'
        /\ \A d \in Node : \A s \in Steps :
               InFlight(d, s)' = Left(t, q, d, s) + One(IsTLC(r, s))
    BY <1>1, <1>3, <2>1, BroadcastFlight
  <2>4. ASSUME NEW d \in Node, NEW s \in Steps
        PROVE  Total(d, s)' = Total(d, s) + One(s = m.step /\ 1 = 1)
    <3>1. One(d = n /\ IsTLC(m, s)) = 0 /\ One(IsTLC(r, s)) = One(s = m.step /\ 1 = 1)
      BY <1>1, <2>2 DEF One, IsTLC
    <3>2. /\ Left(t, q, d, s) \in Nat /\ Len(tlc[d][s]) \in Nat
          /\ Total(d, s) = Len(tlc[d][s]) + Left(t, q, d, s) + One(d = n /\ IsTLC(m, s))
      BY TakenNat, LengthNat
    <3>3. Total(d, s)' = Len(tlc[d][s]) + (Left(t, q, d, s) + One(IsTLC(r, s)))
      BY <1>1, <2>3 DEF Total
    <3>4. One(s = m.step /\ 1 = 1) \in Nat
      BY DEF One
    <3> QED BY <3>1, <3>2, <3>3, <3>4
  <2>5. ASSUME NEW s \in Steps
        PROVE  Cardinality(Announcers(s)')
                   <= Cardinality(Announcers(s)) + One(s = m.step /\ 1 = 1)
    <3>1. IsFiniteSet(Announcers(s)) /\ Cardinality(Announcers(s)) \in Nat
      BY AnnouncersFinite
    <3>2. CASE s = m.step
      <4>1. Announcers(s)' = Announcers(s) \cup {n}
        BY <1>1, <1>3, <3>2 DEF Announcers, Shape, TypeOK, StepTypeOK
      <4>2. Cardinality(Announcers(s) \cup {n}) <= Cardinality(Announcers(s)) + 1
        <5> HIDE DEF n
        <5>1. Cardinality(Announcers(s) \cup {n})
                  = IF n \in Announcers(s) THEN Cardinality(Announcers(s))
                    ELSE Cardinality(Announcers(s)) + 1
          BY <3>1, FS_AddElement
        <5> QED BY <3>1, <5>1
      <4> QED BY <3>2, <4>1, <4>2 DEF One
    <3>3. CASE s # m.step
      <4>1. Announcers(s)' = Announcers(s)
        BY <1>1, <1>3, <3>3 DEF Announcers, Shape, TypeOK, StepTypeOK
      <4> QED BY <3>1, <3>3, <4>1 DEF One
    <3> QED BY <3>2, <3>3
  <2>6. \A d \in Node : \A s \in Steps :
            Len(tlc[d][s]) <= Len(tlc'[d][s]) /\ tlc'[d][s] = tlc[d][s]
    BY <1>1, LengthNat
  <2> QED BY <1>1, <2>3, <2>4, <2>5, <2>6, CountedKept
<1> QED BY <1>2, <1>3 DEF HandleAccept

\* A TLC message was stored, or it was for a step the node has left.
LEMMA StoreFlight ==
    ASSUME Shape, Shape', FiniteFlight, TLCCounted, NEW t \in Thread, NEW m \in TLCMessage,
           NEW q \in Queues, Taken(t, NodeOf(t), m, q), Finish(t, q),
           UNCHANGED <<step, tlcSent>>,
           \/ m.step < step[NodeOf(t)] /\ tlc' = tlc
           \/ /\ m.step >= step[NodeOf(t)]
              /\ tlc' = [tlc EXCEPT ![NodeOf(t)][m.step] = Append(@, m.block)]
    PROVE  FiniteFlight' /\ TLCCounted'
<1> DEFINE n == NodeOf(t)
<1>1. FiniteUnderway(q) /\ n \in Node /\ m.type = "tlc" /\ m.step \in Steps
      /\ m.block \in Block /\ tlc \in [Node -> [Steps -> Seq(Block)]]
  BY NodeOfType DEF Taken, TLCMessage, Shape, TypeOK, StepTypeOK
<1>2. /\ FiniteFlight'
      /\ \A d \in Node : \A s \in Steps : InFlight(d, s)' = Left(t, q, d, s)
  BY <1>1, FinishFlight DEF Finish
<1>3. ASSUME NEW d \in Node, NEW s \in Steps
      PROVE  /\ step[d] <= s => Total(d, s)' = Total(d, s) + One(s = 0 /\ 0 = 1)
             /\ Len(tlc[d][s]) <= Len(tlc'[d][s])
             /\ step[d] <= s \/ tlc'[d][s] = tlc[d][s]
  <2>1. /\ Left(t, q, d, s) \in Nat /\ Len(tlc[d][s]) \in Nat
        /\ step[d] \in Nat /\ s \in Nat /\ tlc[d][s] \in Seq(Block)
        /\ Total(d, s) = Len(tlc[d][s]) + Left(t, q, d, s) + One(d = n /\ IsTLC(m, s))
    BY TakenNat, LengthNat
  <2>2. Total(d, s)' = Len(tlc'[d][s]) + Left(t, q, d, s) /\ One(s = 0 /\ 0 = 1) = 0
    BY <1>2 DEF Total, One
  <2>3. CASE d = n /\ s = m.step
    <3>1. One(d = n /\ IsTLC(m, s)) = 1
      BY <1>1, <2>3 DEF One, IsTLC
    <3>2. CASE m.step < step[n]
      BY <2>1, <2>3, <3>2
    <3>3. CASE /\ m.step >= step[n]
               /\ tlc' = [tlc EXCEPT ![n][m.step] = Append(@, m.block)]
      <4>1. tlc'[d][s] = Append(tlc[d][s], m.block)
        BY <1>1, <2>3, <3>3
      <4>2. Len(tlc'[d][s]) = Len(tlc[d][s]) + 1
        BY <1>1, <2>1, <4>1, AppendProperties
      <4>3. Total(d, s)' = Total(d, s)
        BY <2>1, <2>2, <3>1, <4>2
      <4>4. step[d] <= s
        BY <2>3, <3>3
      <4>5. Total(d, s)' = Total(d, s) + One(s = 0 /\ 0 = 1)
        BY <2>1, <2>2, <3>1, <4>3
      <4>6. Len(tlc[d][s]) <= Len(tlc'[d][s])
        BY <2>1, <4>2
      <4> QED BY <4>4, <4>5, <4>6
    <3> QED BY <2>1, <3>2, <3>3
  <2>4. CASE ~ (d = n /\ s = m.step)
    <3>1. One(d = n /\ IsTLC(m, s)) = 0
      BY <1>1, <2>4 DEF One, IsTLC
    <3>2. tlc'[d][s] = tlc[d][s]
      BY <1>1, <2>4
    <3> QED BY <2>1, <2>2, <3>1, <3>2
  <2> QED BY <2>3, <2>4
<1>4. \A s \in Steps :
          Cardinality(Announcers(s)') <= Cardinality(Announcers(s)) + One(s = 0 /\ 0 = 1)
  <2>1. \A s \in Steps : /\ Announcers(s)' = Announcers(s)
                         /\ Cardinality(Announcers(s)) \in Nat
    BY AnnouncersFinite DEF Announcers
  <2> QED BY <2>1 DEF One
<1> QED BY <1>2, <1>3, <1>4, CountedKept

\* A node leaves its step, and maybe others: it relays the TLC message to the
\* other nodes if it has sent none for the step.
LEMMA AdvanceFlight ==
    ASSUME Shape, Shape', FiniteFlight, TLCCounted, NEW t \in Thread, NEW m \in TLCMessage,
           NEW q \in Queues, Taken(t, NodeOf(t), m, q), AdvanceStep(t, NodeOf(t), m, q)
    PROVE  FiniteFlight' /\ TLCCounted'
<1> DEFINE n == NodeOf(t)
           z == m.step
           relays == z \notin tlcSent[n]
           r == [m EXCEPT !.src = n]
           top == CatchUpStep(n, z)
<1>1. /\ FiniteUnderway(q) /\ n \in Node /\ z = step[n] /\ z \in Steps /\ z < MaxStep
      /\ m.type = "tlc" /\ m.block \in Block
      /\ tlc \in [Node -> [Steps -> Seq(Block)]] /\ step \in [Node -> Steps]
      /\ tlcSent \in [Node -> SUBSET Steps]
  BY NodeOfType DEF Taken, AdvanceStep, Shape, TypeOK, StepTypeOK, TLCMessage
<1>2. /\ tlc' = [tlc EXCEPT ![n][z] = Append(@, m.block)]
      /\ step' = [step EXCEPT ![n] = top]
      /\ tlcSent' = [tlcSent EXCEPT ![n] = @ \cup {z}]
      /\ net' = IF relays THEN Enqueue(q, n, r) ELSE q
      /\ local' = [local EXCEPT ![t] = None]
      /\ Len(tlc[n][z]) + 1 >= PaxosThreshold
  BY <1>1 DEF AdvanceStep
<1>3. r \in Message /\ \A s : IsTLC(r, s) <=> s = z
  BY <1>1 DEF Message, TLCMessage, IsTLC
<1>4. top \in z + 1 .. MaxStep /\ \A j \in z + 1 .. top - 1 : Len(tlc[n][j]) >= PaxosThreshold
  BY <1>1, CatchUpStepExists
<1>5. z \in Nat /\ MaxStep \in Nat /\ top \in Nat /\ z < top
  BY <1>1, <1>4, BoundAssumption DEF Steps
<1> HIDE DEF r, top, relays
<1>6. ASSUME NEW d \in Node, NEW s \in Steps
      PROVE  /\ IsFiniteSet(Underway(net', d, s)) /\ IsFiniteSet(Own(d, s)')
             /\ InFlight(d, s)' = Left(t, q, d, s) + One(relays /\ d # n /\ s = z)
  <2>1. /\ IsFiniteSet(Underway(net', d, s))
        /\ Cardinality(Underway(net', d, s))
               = Cardinality(Underway(q, d, s)) + One(relays /\ d # n /\ s = z)
    <3>1. IsFiniteSet(Underway(q, d, s)) /\ Cardinality(Underway(q, d, s)) \in Nat
      BY <1>1, FS_CardinalityType DEF FiniteUnderway
    <3>2. CASE relays
      <4>1. net' = Enqueue(q, n, r)
        BY <1>2, <3>2
      <4>2. /\ IsFiniteSet(Underway(Enqueue(q, n, r), d, s))
            /\ Cardinality(Underway(Enqueue(q, n, r), d, s))
                   = Cardinality(Underway(q, d, s)) + One(d # n /\ IsTLC(r, s))
        BY <1>1, <1>3, <3>1, EnqueueUnderway
      <4>3. One(d # n /\ IsTLC(r, s)) = One(relays /\ d # n /\ s = z)
        BY <1>3, <3>2 DEF One
      <4> QED BY <4>1, <4>2, <4>3
    <3>3. CASE ~ relays
      BY <1>2, <3>1, <3>3 DEF One
    <3> QED BY <3>2, <3>3
  <2>2. /\ IsFiniteSet(Own(d, s)')
        /\ Cardinality(Own(d, s)') = Cardinality(Own(d, s) \ {t}) + One(FALSE)
    BY <1>2, OwnAfter DEF FiniteFlight
  <2>3. /\ Cardinality(Own(d, s) \ {t}) \in Nat /\ One(FALSE) = 0
        /\ Cardinality(Underway(q, d, s)) \in Nat /\ One(relays /\ d # n /\ s = z) \in Nat
    BY <1>1, OwnRest, FS_CardinalityType DEF FiniteUnderway, One
  <2>4. InFlight(d, s)' = Cardinality(Underway(net', d, s)) + Cardinality(Own(d, s)')
    BY DEF InFlight
  <2>5. Left(t, q, d, s) = Cardinality(Underway(q, d, s)) + Cardinality(Own(d, s) \ {t})
    BY DEF Left
  <2>6. InFlight(d, s)' = Left(t, q, d, s) + One(relays /\ d # n /\ s = z)
    <3>1. Cardinality(Own(d, s)') = Cardinality(Own(d, s) \ {t})
      BY <2>2, <2>3 DEF One
    <3> QED BY <2>1, <2>3, <2>4, <2>5, <3>1
  <2> QED BY <2>1, <2>2, <2>6
<1>7. FiniteFlight'
  BY <1>6 DEF FiniteFlight, FiniteUnderway
<1>8. ASSUME NEW d \in Node, NEW s \in Steps
      PROVE  /\ tlc'[d][s] = IF d = n /\ s = z THEN Append(tlc[n][z], m.block) ELSE tlc[d][s]
             /\ step'[d] = IF d = n THEN top ELSE step[d]
             /\ Len(tlc'[d][s]) = Len(tlc[d][s]) + One(d = n /\ s = z)
             /\ Len(tlc[d][s]) \in Nat /\ step[d] \in Nat /\ s \in Nat
  <2>1. /\ tlc'[d][s] = IF d = n /\ s = z THEN Append(tlc[n][z], m.block) ELSE tlc[d][s]
        /\ step'[d] = IF d = n THEN top ELSE step[d]
    BY <1>1, <1>2
  <2>2. /\ Len(tlc[d][s]) \in Nat /\ step[d] \in Nat /\ s \in Nat
        /\ tlc[n][z] \in Seq(Block) /\ Len(tlc[n][z]) \in Nat
    BY <1>1, LengthNat
  <2>3. Len(Append(tlc[n][z], m.block)) = Len(tlc[n][z]) + 1
    BY <1>1, <2>2, AppendProperties
  <2>4. Len(tlc'[d][s]) = Len(tlc[d][s]) + One(d = n /\ s = z)
    <3>1. CASE d = n /\ s = z
      BY <2>1, <2>3, <3>1 DEF One
    <3>2. CASE ~ (d = n /\ s = z)
      <4>1. tlc'[d][s] = tlc[d][s] /\ One(d = n /\ s = z) = 0
        BY <2>1, <3>2 DEF One
      <4> QED BY <2>2, <4>1
    <3> QED BY <3>1, <3>2
  <2> QED BY <2>1, <2>2, <2>4
<1>9. ASSUME NEW d \in Node, NEW s \in Steps
      PROVE  /\ Total(d, s) \in Nat
             /\ d # n => Total(d, s)' = Total(d, s) + One(relays /\ s = z)
             /\ Len(tlc'[n][z]) <= Total(n, z) /\ Len(tlc'[n][z]) \in Nat
  <2>1. /\ Left(t, q, d, s) \in Nat /\ Total(d, s) \in Nat
        /\ Total(d, s) = Len(tlc[d][s]) + Left(t, q, d, s) + One(d = n /\ IsTLC(m, s))
        /\ Total(n, z) = Len(tlc[n][z]) + Left(t, q, n, z) + One(n = n /\ IsTLC(m, z))
        /\ Left(t, q, n, z) \in Nat /\ Len(tlc[n][z]) \in Nat
    BY <1>1, TakenNat, LengthNat
  <2>2. One(n = n /\ IsTLC(m, z)) = 1 /\ (d # n => One(d = n /\ IsTLC(m, s)) = 0)
    BY <1>1 DEF One, IsTLC
  <2>3. Len(tlc'[n][z]) = Len(tlc[n][z]) + 1
    BY <1>1, <1>8 DEF One
  <2>4. d # n => Total(d, s)' = Len(tlc[d][s]) + (Left(t, q, d, s) + One(relays /\ s = z))
    BY <1>6, <1>8 DEF Total, One
  <2>5. One(relays /\ s = z) \in Nat /\ Len(tlc[d][s]) \in Nat
    BY <1>8 DEF One
  <2>6. d # n => Total(d, s)' = Total(d, s) + One(relays /\ s = z)
    BY <2>1, <2>2, <2>4, <2>5
  <2>7. Len(tlc'[n][z]) <= Total(n, z) /\ Len(tlc'[n][z]) \in Nat
    BY <2>1, <2>2, <2>3
  <2> QED BY <2>1, <2>6, <2>7
<1>10. ASSUME NEW s \in Steps
       PROVE  /\ Cardinality(Announcers(s)') = Cardinality(Announcers(s)) + One(relays /\ s = z)
              /\ Cardinality(Announcers(s)) \in Nat
  <2>1. IsFiniteSet(Announcers(s)) /\ Cardinality(Announcers(s)) \in Nat
    BY AnnouncersFinite
  <2>2. CASE relays /\ s = z
    <3>1. Announcers(s)' = Announcers(s) \cup {n} /\ n \notin Announcers(s)
      BY <1>1, <1>2, <2>2 DEF Announcers, relays
    <3> HIDE DEF n
    <3>2. Cardinality(Announcers(s) \cup {n}) = Cardinality(Announcers(s)) + 1
      BY <2>1, <3>1, FS_AddElement
    <3> QED BY <2>1, <2>2, <3>1, <3>2 DEF One
  <2>3. CASE ~ (relays /\ s = z)
    <3>1. Announcers(s)' = Announcers(s)
      BY <1>1, <1>2, <2>3 DEF Announcers, relays
    <3> QED BY <2>1, <2>3, <3>1 DEF One
  <2> QED BY <2>2, <2>3
<1>11. ASSUME NEW s \in Steps, NEW d \in Node, step'[d] <= s
       PROVE  step[d] <= s /\ Total(d, s)' = Total(d, s) + One(relays /\ s = z)
  <2>1. CASE d # n
    BY <1>8, <1>9, <1>11, <2>1
  <2>2. CASE d = n
    <3>1. step[d] \in Nat /\ s \in Nat /\ step[d] <= s /\ s # z
      BY <1>1, <1>5, <1>8, <1>11, <2>2
    <3>2. /\ One(d = n /\ IsTLC(m, s)) = 0 /\ One(relays /\ d # n /\ s = z) = 0
          /\ One(relays /\ s = z) = 0 /\ One(d = n /\ s = z) = 0
      BY <1>1, <3>1 DEF One, IsTLC
    <3>3. /\ Left(t, q, d, s) \in Nat /\ Len(tlc[d][s]) \in Nat
          /\ Total(d, s) = Len(tlc[d][s]) + Left(t, q, d, s) + One(d = n /\ IsTLC(m, s))
      BY TakenNat, LengthNat
    <3>4. InFlight(d, s)' = Left(t, q, d, s) + One(relays /\ d # n /\ s = z)
      BY <1>6
    <3>5. Total(d, s)' = Len(tlc'[d][s]) + InFlight(d, s)'
      BY DEF Total
    <3>6. Len(tlc'[d][s]) = Len(tlc[d][s]) + One(d = n /\ s = z)
      BY <1>8
    <3> QED BY <3>1, <3>2, <3>3, <3>4, <3>5, <3>6
  <2> QED BY <2>1, <2>2
<1>12. ASSUME NEW s \in Steps, NEW d \in Node, step'[d] <= s
       PROVE  /\ Cardinality(Announcers(s)') <= Total(d, s)'
              /\ \A e \in Node : /\ Len(tlc'[e][s]) <= Total(d, s)'
                                 /\ step'[e] <= s => Total(e, s)' = Total(d, s)'
  <2>1. One(relays /\ s = z) \in Nat /\ Total(d, s) \in Nat
    BY <1>9 DEF One
  <2>2. step[d] <= s /\ Total(d, s)' = Total(d, s) + One(relays /\ s = z)
    BY <1>11, <1>12
  <2>3. /\ Cardinality(Announcers(s)) <= Total(d, s)
        /\ \A e \in Node : /\ Len(tlc[e][s]) <= Total(d, s)
                           /\ step[e] <= s => Total(e, s) = Total(d, s)
    BY <2>2 DEF TLCCounted
  <2>4. Cardinality(Announcers(s)') <= Total(d, s)'
    BY <1>10, <2>1, <2>2, <2>3
  <2>5. ASSUME NEW e \in Node, step'[e] <= s PROVE Total(e, s)' = Total(d, s)'
    BY <1>11, <2>2, <2>3, <2>5
  <2>6. ASSUME NEW e \in Node PROVE Len(tlc'[e][s]) <= Total(d, s)'
    <3>1. CASE e = n /\ s = z
      <4>1. step[n] <= z /\ Total(n, z) = Total(d, s)
        BY <1>1, <1>5, <2>3, <3>1
      <4>2. Len(tlc'[n][z]) <= Total(n, z) /\ Len(tlc'[n][z]) \in Nat
        BY <1>9
      <4>3. Len(tlc'[n][z]) <= Total(d, s)'
        BY <2>1, <2>2, <4>1, <4>2
      <4> QED BY <3>1, <4>3
    <3>2. CASE ~ (e = n /\ s = z)
      <4>1. tlc'[e][s] = tlc[e][s] /\ Len(tlc[e][s]) \in Nat
        BY <1>8, <3>2
      <4> QED BY <2>1, <2>2, <2>3, <4>1
    <3> QED BY <3>1, <3>2
  <2> QED BY <2>4, <2>5, <2>6
<1>13. ASSUME NEW s \in Steps, NEW d \in Node, step'[d] > s
       PROVE  Len(tlc'[d][s]) >= PaxosThreshold
  <2>1. /\ Len(tlc'[d][s]) = Len(tlc[d][s]) + One(d = n /\ s = z)
        /\ Len(tlc[d][s]) \in Nat /\ step[d] \in Nat /\ s \in Nat
        /\ step'[d] = IF d = n THEN top ELSE step[d]
    BY <1>8
  <2>2. CASE step[d] > s
    <3>1. Len(tlc[d][s]) >= PaxosThreshold
      BY <2>2 DEF TLCCounted
    <3>2. One(d = n /\ s = z) \in Nat
      BY DEF One
    <3> QED BY <2>1, <3>1, <3>2, NodeAssumption
  <2>3. CASE d = n /\ s = z
    BY <1>2, <2>1, <2>3 DEF One
  <2>4. CASE ~ (step[d] > s) /\ ~ (d = n /\ s = z)
    <3>1. d = n /\ s \in z + 1 .. top - 1
      BY <1>1, <1>5, <1>13, <2>1, <2>4
    <3>2. Len(tlc[n][s]) >= PaxosThreshold
      BY <1>4, <3>1
    <3>3. One(d = n /\ s = z) = 0 /\ Len(tlc[d][s]) >= PaxosThreshold
      BY <2>4, <3>1, <3>2 DEF One
    <3> QED BY <2>1, <3>3
  <2> QED BY <2>2, <2>3, <2>4
<1> QED BY <1>7, <1>12, <1>13 DEF TLCCounted

LEMMA HandleFlight ==
    ASSUME Shape, Shape', Flight, NEW t \in Thread, NEW m \in Message, NEW q \in Queues,
           Taken(t, NodeOf(t), m, q), local[t] # None \/ t \in Node,
           Handle(t, NodeOf(t), m, q)
    PROVE  Flight'
<1> DEFINE n == NodeOf(t)
<1>1. n \in Node
  BY NodeOfType
<1>2. FiniteFlight' /\ TLCCounted'
  <2>1. CASE HandlePrepare(t, n, m, q)
    <3> DEFINE r == [type |-> "promise", src |-> n, dest |-> m.src, step |-> step[n],
                     id |-> m.id, accId |-> acceptedId[n], accVal |-> acceptedValue[n]]
    <3>1. /\ m.type = "prepare" /\ UNCHANGED <<step, tlc, tlcSent>>
          /\ Broadcast(t, n, r, q) \/ Finish(t, q)
      BY <2>1 DEF HandlePrepare, stepVars
    <3>2. r \in Message
      <4>1. m \in PaxosPrepareMessage
        BY <3>1, MessageKinds
      <4> QED BY <1>1, <4>1 DEF Message, PaxosPromiseMessage, PaxosPrepareMessage, Shape, TypeOK,
                           StepTypeOK, AcceptorTypeOK
    <3>3. r.type # "tlc"
      OBVIOUS
    <3> HIDE DEF r
    <3> QED BY <3>1, <3>2, <3>3, OtherFlight DEF Flight
  <2>2. CASE HandlePropose(t, n, m, q)
    <3> DEFINE r == [type |-> "accept", src |-> n, step |-> m.step, id |-> m.id,
                     val |-> m.val]
    <3>1. /\ m.type = "propose" /\ UNCHANGED <<step, tlc, tlcSent>>
          /\ Broadcast(t, n, r, q) \/ Finish(t, q)
      BY <2>2 DEF HandlePropose, stepVars
    <3>2. r \in Message
      <4>1. m \in PaxosProposeMessage
        BY <3>1, MessageKinds
      <4> QED BY <1>1, <4>1 DEF Message, PaxosProposeMessage, PaxosAcceptMessage
    <3>3. r.type # "tlc"
      OBVIOUS
    <3> HIDE DEF r
    <3> QED BY <3>1, <3>2, <3>3, OtherFlight DEF Flight
  <2>3. CASE HandlePromise(t, n, m, q)
    <3>1. m.type = "promise" /\ UNCHANGED <<step, tlc, tlcSent>> /\ Finish(t, q)
      BY <2>3 DEF HandlePromise, stepVars
    <3>2. m.type # "tlc"
      BY <3>1
    <3> QED BY <3>1, <3>2, OtherFlight DEF Flight
  <2>4. CASE HandleAccept(t, n, m, q)
    BY <2>4, AcceptFlight DEF Flight
  <2>5. CASE HandleTLC(t, n, m, q)
    <3>1. m \in TLCMessage
      BY <2>5, MessageKinds DEF HandleTLC
    <3>2. CASE m.step < step[n] /\ Finish(t, q) /\ UNCHANGED stepVars
      BY <3>1, <3>2, StoreFlight DEF Flight, stepVars
    <3>3. CASE StoreTLC(t, n, m, q)
      BY <3>1, <3>3, StoreFlight DEF Flight, StoreTLC
    <3>4. CASE AdvanceStep(t, n, m, q)
      BY <3>1, <3>4, AdvanceFlight DEF Flight
    <3> QED BY <2>5, <3>2, <3>3, <3>4 DEF HandleTLC
  <2> QED BY <2>1, <2>2, <2>3, <2>4, <2>5 DEF Handle
<1>3. PrepareFree'
  <2>1. pc' = pc
    BY <1>1, HandleQuiet
  <2>2. \A u \in Thread : u # t => local'[u] = local[u]
    BY DEF Handle, HandlePrepare, HandlePropose, HandlePromise, HandleAccept, HandleTLC,
           StoreTLC, AdvanceStep, Broadcast, Finish, Shape, TypeOK, GossipTypeOK
  <2>3. \A c \in Call : pc[c] = "prepare" => c # t /\ c \in Thread
    BY CallAssumption DEF Flight, PrepareFree, Thread
  <2> QED BY <2>1, <2>2, <2>3 DEF Flight, PrepareFree
<1> QED BY <1>2, <1>3 DEF Flight

LEMMA CallFlight ==
    ASSUME Shape, Shape', Flight, NEW c \in Call, CallStep(c)
    PROVE  Flight'
<1>1. c \in Thread /\ NodeOf(c) = CallNode[c] /\ CallNode[c] \in Node
  BY CallAssumption DEF Thread, NodeOf
<1>2. CASE CallMoves(c)
  <2>1. UNCHANGED <<step, tlc, tlcSent, local, net>>
    BY <1>2, CallMovesKeep DEF gossipVars
  <2>2. FiniteFlight' /\ TLCCounted'
    <3>1. \A d, s : /\ Underway(net', d, s) = Underway(net, d, s)
                    /\ Own(d, s)' = Own(d, s)
                    /\ Announcers(s)' = Announcers(s)
      BY <2>1 DEF Own, Announcers
    <3>2. \A d, s : Total(d, s)' = Total(d, s)
      BY <2>1, <3>1 DEF Total, InFlight
    <3> QED BY <2>1, <3>1, <3>2 DEF Flight, FiniteFlight, FiniteUnderway, TLCCounted
  <2>3. \A d \in Call : pc'[d] = "prepare" => pc[d] = "prepare" \/ local[d] = None
    BY <1>2 DEF CallMoves, BeginCall, CheckName, Timeout, Accepted, Return, Shape, TypeOK,
                CallTypeOK
  <2> QED BY <2>1, <2>2, <2>3 DEF Flight, PrepareFree
<1>3. CASE /\ local[c] = None /\ UNCHANGED <<step, tlc, tlcSent>>
           /\ \E r \in Message : r.type # "tlc" /\ Broadcast(c, CallNode[c], r, net)
           /\ \A d \in Call : pc'[d] = "prepare" => pc[d] = "prepare" /\ d # c
  <2>1. Taken(c, CallNode[c], [type |-> "none"], net)
    <3>1. \A d \in Node : \A s \in Steps : c \notin Own(d, s)
      BY <1>3 DEF Own
    <3>2. ASSUME NEW d \in Node, NEW s \in Steps
          PROVE  InFlight(d, s)
                     = Left(c, net, d, s) + One(d = CallNode[c] /\ IsTLC([type |-> "none"], s))
      <4>1. Own(d, s) \ {c} = Own(d, s) /\ Cardinality(Own(d, s)) \in Nat
        BY <3>1, OwnRest DEF Flight
      <4>2. Cardinality(Underway(net, d, s)) \in Nat
        BY FS_CardinalityType DEF Flight, FiniteFlight, FiniteUnderway
      <4>3. One(d = CallNode[c] /\ IsTLC([type |-> "none"], s)) = 0
        BY DEF One, IsTLC
      <4>4. InFlight(d, s) = Left(c, net, d, s) /\ InFlight(d, s) \in Nat
        BY <4>1, <4>2 DEF InFlight, Left
      <4> QED BY <4>3, <4>4
    <3> QED BY <3>2 DEF Taken, Flight, FiniteFlight
  <2>2. FiniteFlight' /\ TLCCounted'
    <3>1. net \in Queues
      BY DEF Shape, TypeOK, GossipTypeOK, Queues
    <3> QED BY <1>1, <1>3, <2>1, <3>1, OtherFlight DEF Flight
  <2>3. \A d \in Call : d # c => local'[d] = local[d]
    BY <1>1, <1>3, CallAssumption DEF Broadcast, Shape, TypeOK, GossipTypeOK, Thread
  <2> QED BY <1>3, <2>2, <2>3 DEF Flight, PrepareFree
<1>4. CASE StartPhaseOne(c)
  <2> DEFINE id == IF step[CallNode[c]] = previous[c] THEN paxosId[c] + N ELSE PaxosID[CallNode[c]]
             r == [type |-> "prepare", src |-> CallNode[c], step |-> step[CallNode[c]],
                   id |-> id]
  <2>1. r \in Message
    <3>1. id \in Number
      BY <1>1, NodeCount, NodeAssumption DEF Shape, TypeOK, CallTypeOK, Number, N
    <3> HIDE DEF id
    <3> QED BY <1>1, <3>1 DEF Message, PaxosPrepareMessage, Shape, TypeOK, StepTypeOK
  <2>2. r.type # "tlc" /\ Broadcast(c, CallNode[c], r, net)
    BY <1>4 DEF StartPhaseOne
  <2>3. local[c] = None
    BY <1>4 DEF StartPhaseOne, Flight, PrepareFree
  <2>4. \A d \in Call : pc'[d] = "prepare" => pc[d] = "prepare" /\ d # c
    BY <1>4 DEF StartPhaseOne, Shape, TypeOK, CallTypeOK
  <2>5. UNCHANGED <<step, tlc, tlcSent>>
    BY <1>4 DEF StartPhaseOne, stepVars
  <2> HIDE DEF r
  <2> QED BY <1>3, <2>1, <2>2, <2>3, <2>4, <2>5
<1>5. CASE Propose(c)
  <2> DEFINE r == [type |-> "propose", src |-> CallNode[c], step |-> current[c],
                   id |-> paxosId[c], val |-> ValueToPropose(c)]
  <2>1. r \in Message
    <3>1. ValueToPropose(c) \in Value /\ paxosId[c] \in Number
      BY <1>5, ValueToProposeType DEF Propose, Shape, TypeOK, CallTypeOK, CallInv, Number
    <3> QED BY <1>1, <3>1 DEF Message, PaxosProposeMessage, Shape, TypeOK, CallTypeOK
  <2>2. r.type # "tlc" /\ Broadcast(c, CallNode[c], r, net)
    BY <1>5 DEF Propose
  <2>3. \A d \in Call : pc'[d] = "prepare" => pc[d] = "prepare" /\ d # c
    BY <1>5 DEF Propose, Shape, TypeOK, CallTypeOK
  <2>4. UNCHANGED <<step, tlc, tlcSent>> /\ local[c] = None
    BY <1>5 DEF Propose, stepVars
  <2> HIDE DEF r
  <2> QED BY <1>3, <2>1, <2>2, <2>3, <2>4
<1> QED BY <1>2, <1>4, <1>5 DEF CallStep, CallMoves

LEMMA InitFlight == Init => Flight
<1> SUFFICES ASSUME Init PROVE Flight
  OBVIOUS
<1>1. \A d \in Node : \A s \in Steps :
          /\ Underway(net, d, s) = {} /\ Own(d, s) = {} /\ Announcers(s) = {}
          /\ Len(tlc[d][s]) = 0 /\ step[d] = 0
  <2>1. Len(<< >>) = 0
    OBVIOUS
  <2>2. \A o, d \in Node : Len(net[o][d]) = 0
    BY <2>1 DEF Init
  <2>3. \A d \in Node : \A s \in Steps : Underway(net, d, s) = {}
    BY <2>2 DEF Underway
  <2>4. \A d \in Node : \A s \in Steps : Own(d, s) = {} /\ Announcers(s) = {}
    BY DEF Own, Announcers, Init, InitButRumors
  <2>5. \A d \in Node : \A s \in Steps : Len(tlc[d][s]) = 0 /\ step[d] = 0
    BY <2>1 DEF Init, InitButRumors
  <2> QED BY <2>3, <2>4, <2>5
<1>2. \A d \in Node : \A s \in Steps : /\ IsFiniteSet(Underway(net, d, s))
                                       /\ IsFiniteSet(Own(d, s))
                                       /\ Total(d, s) = 0 /\ Cardinality(Announcers(s)) = 0
  <2> SUFFICES ASSUME NEW d \in Node, NEW s \in Steps
               PROVE  /\ IsFiniteSet(Underway(net, d, s)) /\ IsFiniteSet(Own(d, s))
                      /\ Total(d, s) = 0 /\ Cardinality(Announcers(s)) = 0
    OBVIOUS
  <2>1. /\ Underway(net, d, s) = {} /\ Own(d, s) = {} /\ Announcers(s) = {}
        /\ Len(tlc[d][s]) = 0
    BY <1>1
  <2>2. /\ Cardinality(Underway(net, d, s)) = 0 /\ Cardinality(Own(d, s)) = 0
        /\ Cardinality(Announcers(s)) = 0
    BY <2>1, FS_EmptySet
  <2>3. Total(d, s) = 0
    BY <2>1, <2>2 DEF Total, InFlight
  <2> QED BY <2>1, <2>2, <2>3, FS_EmptySet
<1>3. \A s \in Steps : s >= 0 /\ ~ (0 > s)
  BY BoundAssumption DEF Steps
<1>4. TLCCounted
  BY <1>1, <1>2, <1>3 DEF TLCCounted
<1>5. PrepareFree
  BY DEF Init, InitButRumors, PrepareFree
<1> QED BY <1>2, <1>4, <1>5 DEF Flight, FiniteFlight, FiniteUnderway

LEMMA FlightInvariant == Spec => []Flight
<1>1. Shape /\ Shape' /\ Flight /\ [Next]_vars => Flight'
  <2> SUFFICES ASSUME Shape, Shape', Flight, [Next]_vars PROVE Flight'
    OBVIOUS
  <2>1. ASSUME NEW o \in Node, NEW d \in Node, Receive(o, d) PROVE Flight'
    <3>1. /\ local[d] = None /\ net[o][d] # << >>
          /\ Handle(d, d, Head(net[o][d]), [net EXCEPT ![o][d] = Tail(@)])
      BY <2>1 DEF Receive
    <3>2. /\ Head(net[o][d]) \in Message /\ [net EXCEPT ![o][d] = Tail(@)] \in Queues
          /\ d \in Thread /\ NodeOf(d) = d
      BY <3>1, ReceiveMessage DEF Shape, TypeOK
    <3>3. Taken(d, d, Head(net[o][d]), [net EXCEPT ![o][d] = Tail(@)])
      BY <3>1, ReceiveTaken DEF Flight
    <3> QED BY <3>1, <3>2, <3>3, HandleFlight
  <2>2. ASSUME NEW t \in Thread, ProcessLocal(t) PROVE Flight'
    <3>1. local[t] # None /\ Handle(t, NodeOf(t), local[t], net)
      BY <2>2 DEF ProcessLocal
    <3>2. local[t] \in Message /\ net \in Queues
      BY <3>1, LocalMessage DEF Shape, TypeOK
    <3>3. Taken(t, NodeOf(t), local[t], net)
      BY <3>1, LocalTaken DEF Flight
    <3> QED BY <3>1, <3>2, <3>3, HandleFlight
  <2>3. ASSUME NEW c \in Call, CallStep(c) PROVE Flight'
    BY <2>3, CallFlight
  <2>4. CASE UNCHANGED vars
    <3>1. UNCHANGED <<step, tlc, tlcSent, pc, local, net>>
      BY <2>4 DEF vars, stepVars, callVars, gossipVars
    <3>2. \A d, s : /\ Underway(net', d, s) = Underway(net, d, s)
                    /\ Own(d, s)' = Own(d, s)
                    /\ Announcers(s)' = Announcers(s)
      BY <3>1 DEF Own, Announcers
    <3>3. \A d, s : Total(d, s)' = Total(d, s)
      BY <3>1, <3>2 DEF Total, InFlight
    <3> QED BY <3>1, <3>2, <3>3
            DEF Flight, FiniteFlight, FiniteUnderway, TLCCounted, PrepareFree
  <2> QED BY <2>1, <2>2, <2>3, <2>4 DEF Next
<1> QED BY <1>1, InitFlight, ShapeInvariant, PTL DEF Spec

\* When nothing is on its way, a node holds for its step as many TLC messages as
\* any node, and one for every node that sent one.
LEMMA QuietCounts ==
    ASSUME Shape, Flight, Quiet, NEW d \in Node, NEW s \in Steps, step[d] <= s
    PROVE  /\ Cardinality(Announcers(s)) <= Len(tlc[d][s])
           /\ \A e \in Node : Len(tlc[e][s]) <= Len(tlc[d][s])
<1>1. Underway(net, d, s) = {}
  <2>1. \A o \in Node : Len(net[o][d]) = 0
    BY DEF Quiet
  <2> QED BY <2>1 DEF Underway
<1>2. Own(d, s) = {}
  BY DEF Quiet, Own
<1>3. Total(d, s) = Len(tlc[d][s])
  BY <1>1, <1>2, FS_EmptySet, LengthNat DEF Total, InFlight
<1> QED BY <1>3 DEF Flight, TLCCounted

\* The clocks of all nodes agree once every rumor is processed: no node can be
\* left behind at a step that another node has left (the relay of a TLC message
\* in ExecTLCMessage), for any threshold and whatever Paxos decided.
ClocksMeet == Quiet => \A n, o \in Node : step[n] = step[o]

THEOREM ClocksAgree == Spec => []ClocksMeet
<1>1. Shape /\ Flight /\ ClockAdvanced => ClocksMeet
  <2> SUFFICES ASSUME Shape, Flight, ClockAdvanced, Quiet, NEW n \in Node, NEW o \in Node,
                      step[n] < step[o]
               PROVE  FALSE
    <3>1. Shape => \A d \in Node : step[d] \in Nat
      BY BoundAssumption DEF Shape, TypeOK, StepTypeOK, Steps
    <3> QED BY <3>1 DEF ClocksMeet
  <2>1. step[n] \in Steps /\ step[n] \in Nat /\ step[n] < MaxStep
    BY BoundAssumption DEF Shape, TypeOK, StepTypeOK, Steps
  <2>2. Len(tlc[o][step[n]]) >= PaxosThreshold
    BY <2>1 DEF Flight, TLCCounted
  <2>3. Len(tlc[o][step[n]]) <= Len(tlc[n][step[n]])
    BY <2>1, QuietCounts
  <2>4. Len(tlc[n][step[n]]) < PaxosThreshold
    BY <2>1 DEF ClockAdvanced
  <2> QED BY <2>1, <2>2, <2>3, <2>4, LengthNat, NodeAssumption
<1> QED BY <1>1, ShapeInvariant, FlightInvariant, ClockNeverBehind, PTL

-----------------------------------------------------------------------------
(* Iterations that do not compete                                          *)

\* An iteration of Tag starts at a step at which no other one has started: calls
\* take turns, and the one that has timed out finds that its step was left.
Unrivalled ==
    \A c \in Call : StartPhaseOne(c) =>
        \A n \in Node : \A r \in rumors[n] :
            r.type = "prepare" => r.step # step[CallNode[c]]

\* A step has one prepare and at most one proposal, of the same node and number;
\* a call in phase one is the only one of its step and has prepared it.
Sole ==
    /\ \A n, o \in Node : \A r \in rumors[n], x \in rumors[o] :
           (r.type = "prepare" /\ x.type = "prepare" /\ r.step = x.step)
               => n = o /\ r.id = x.id
    /\ \A n \in Node : \A r \in rumors[n] :
           r.type = "propose" => Prepared(n, r.step, r.id)
    /\ \A n, o \in Node : \A r \in rumors[n], x \in rumors[o] :
           (r.type = "propose" /\ x.type = "propose" /\ r.step = x.step) => n = o /\ r = x
    /\ \A c \in Call : pc[c] = "p1" =>
           /\ Prepared(CallNode[c], current[c], paxosId[c])
           /\ \A n \in Node : \A r \in rumors[n] : r.type = "propose" => r.step # current[c]
    /\ \A c, d \in Call : (pc[c] = "p1" /\ pc[d] = "p1" /\ current[c] = current[d]) => c = d

\* Nothing is prepared or proposed, and no call enters phase one.
LEMMA KeepSole ==
    ASSUME Sole, \A n \in Node : rumors[n] \subseteq rumors'[n],
           \A n \in Node : \A r \in rumors'[n] :
               r \in rumors[n] \/ r.type \notin {"prepare", "propose"},
           \A c \in Call : pc'[c] = "p1" =>
               pc[c] = "p1" /\ current'[c] = current[c] /\ paxosId'[c] = paxosId[c]
    PROVE  Sole'
<1>1. \A n, s, i : (n \in Node /\ Prepared(n, s, i)) => Prepared(n, s, i)'
  BY DEF Prepared
<1> QED BY <1>1, CallAssumption DEF Sole

LEMMA StartSole ==
    ASSUME Shape, Sole, NEW c \in Call, StartPhaseOne(c), Unrivalled
    PROVE  Sole'
<1> DEFINE n == CallNode[c]
           id == IF step[n] = previous[c] THEN paxosId[c] + N ELSE PaxosID[n]
           m == [type |-> "prepare", src |-> n, step |-> step[n], id |-> id]
<1>1. /\ n \in Node /\ Broadcast(c, n, m, net)
      /\ pc' = [pc EXCEPT ![c] = "p1"]
      /\ current' = [current EXCEPT ![c] = step[n]]
      /\ paxosId' = [paxosId EXCEPT ![c] = id]
  BY CallAssumption DEF StartPhaseOne
<1>2. m.type = "prepare" /\ m.step = step[n] /\ m.id = id
  OBVIOUS
<1>3. /\ DOMAIN pc = Call /\ DOMAIN current = Call /\ DOMAIN paxosId = Call
      /\ \A d \in Call : CallNode[d] \in Node
  BY CallAssumption DEF Shape, TypeOK, CallTypeOK
<1>4. /\ pc'[c] = "p1" /\ current'[c] = step[n] /\ paxosId'[c] = id
      /\ \A d \in Call : d # c => /\ pc'[d] = pc[d] /\ current'[d] = current[d]
                                  /\ paxosId'[d] = paxosId[d]
  BY <1>1, <1>3
<1> HIDE DEF m, id
<1>5. /\ rumors'[n] = rumors[n] \cup {m}
      /\ \A o \in Node \ {n} : rumors'[o] = rumors[o]
  BY <1>1, BroadcastRumors
<1>6. \A o \in Node : \A r \in rumors[o] : r.type \in {"prepare", "propose"} => r.step # step[n]
  <2>1. \A o \in Node : \A r \in rumors[o] : r.type = "prepare" => r.step # step[n]
    BY DEF Unrivalled
  <2> QED BY <2>1 DEF Sole, Prepared
<1>7. \A o, s, i : (o \in Node /\ Prepared(o, s, i)) => Prepared(o, s, i)'
  BY <1>5 DEF Prepared
<1>8. \A s, i : (s = step[n] /\ i = id) => Prepared(n, s, i)'
  BY <1>2, <1>5 DEF Prepared
<1>9. \A x, y \in Node : \A r \in rumors'[x], z \in rumors'[y] :
          (r.type = "prepare" /\ z.type = "prepare" /\ r.step = z.step) => x = y /\ r.id = z.id
  <2>1. \A x \in Node : \A r \in rumors'[x] : r \in rumors[x] \/ (x = n /\ r = m)
    BY <1>5
  <2> QED BY <1>2, <1>6, <2>1 DEF Sole
<1>10. \A x \in Node : \A r \in rumors'[x] : r.type = "propose" => r \in rumors[x]
  BY <1>2, <1>5
<1>11. \A d \in Call : pc'[d] = "p1" =>
           /\ Prepared(CallNode[d], current[d], paxosId[d])'
           /\ \A x \in Node : \A r \in rumors'[x] : r.type = "propose" => r.step # current'[d]
  <2> SUFFICES ASSUME NEW d \in Call, pc'[d] = "p1"
               PROVE  /\ Prepared(CallNode[d], current[d], paxosId[d])'
                      /\ \A x \in Node : \A r \in rumors'[x] :
                             r.type = "propose" => r.step # current'[d]
    OBVIOUS
  <2>1. CASE d = c
    <3>1. Prepared(CallNode[d], current[d], paxosId[d])'
      BY <1>4, <1>8, <2>1 DEF Prepared
    <3> QED BY <1>4, <1>6, <1>10, <2>1, <3>1
  <2>2. CASE d # c
    <3>1. pc[d] = "p1" /\ current'[d] = current[d] /\ paxosId'[d] = paxosId[d]
      BY <1>4, <2>2
    <3>2. Prepared(CallNode[d], current[d], paxosId[d])
      BY <3>1 DEF Sole
    <3>3. Prepared(CallNode[d], current[d], paxosId[d])'
      BY <1>3, <1>7, <3>1, <3>2 DEF Prepared
    <3> QED BY <1>10, <3>1, <3>3 DEF Sole
  <2> QED BY <2>1, <2>2
<1>12. \A d \in Call : (pc[d] = "p1" /\ d # c) => current[d] # step[n]
  BY <1>3, <1>6 DEF Sole, Prepared
<1>13. \A d, e \in Call : (pc'[d] = "p1" /\ pc'[e] = "p1" /\ current'[d] = current'[e]) => d = e
  BY <1>4, <1>12 DEF Sole
<1> HIDE DEF n
<1>14. \A x \in Node : \A r \in rumors'[x] : r.type = "propose" => Prepared(x, r.step, r.id)'
  BY <1>7, <1>10 DEF Sole
<1>15. \A x, y \in Node : \A r \in rumors'[x], z \in rumors'[y] :
           (r.type = "propose" /\ z.type = "propose" /\ r.step = z.step) => x = y /\ r = z
  BY <1>10 DEF Sole
<1> QED BY <1>9, <1>11, <1>13, <1>14, <1>15 DEF Sole

LEMMA CallProposeSole ==
    ASSUME Shape, Sole, NEW c \in Call, Propose(c)
    PROVE  Sole'
<1> DEFINE n == CallNode[c]
           m == [type |-> "propose", src |-> n, step |-> current[c], id |-> paxosId[c],
                 val |-> ValueToPropose(c)]
<1>1. /\ n \in Node /\ Broadcast(c, n, m, net) /\ pc[c] = "p1"
      /\ pc' = [pc EXCEPT ![c] = "p2"] /\ UNCHANGED <<current, paxosId>>
  BY CallAssumption DEF Propose, loopVars
<1>2. m.type = "propose" /\ m.step = current[c] /\ m.id = paxosId[c]
  OBVIOUS
<1> HIDE DEF m
<1>3. /\ rumors'[n] = rumors[n] \cup {m}
      /\ \A o \in Node \ {n} : rumors'[o] = rumors[o]
  BY <1>1, BroadcastRumors
<1>4. /\ Prepared(n, current[c], paxosId[c])
      /\ \A o \in Node : \A r \in rumors[o] : r.type = "propose" => r.step # current[c]
  BY <1>1 DEF Sole
<1>5. \A o, s, i : (o \in Node /\ Prepared(o, s, i)) => Prepared(o, s, i)'
  BY <1>3 DEF Prepared
<1>6. \A o \in Node : \A r \in rumors'[o] : r \in rumors[o] \/ (o = n /\ r = m)
  BY <1>3
<1>7. \A d \in Call : pc'[d] = "p1" => pc[d] = "p1" /\ d # c
  BY <1>1 DEF Shape, TypeOK, CallTypeOK
<1>8. \A d \in Call : pc'[d] = "p1" =>
          /\ Prepared(CallNode[d], current[d], paxosId[d])'
          /\ \A x \in Node : \A r \in rumors'[x] : r.type = "propose" => r.step # current'[d]
  <2> SUFFICES ASSUME NEW d \in Call, pc'[d] = "p1"
               PROVE  /\ Prepared(CallNode[d], current[d], paxosId[d])'
                      /\ \A x \in Node : \A r \in rumors'[x] :
                             r.type = "propose" => r.step # current'[d]
    OBVIOUS
  <2>1. pc[d] = "p1" /\ d # c /\ current[d] # current[c]
    BY <1>1, <1>7 DEF Sole
  <2>2. Prepared(CallNode[d], current[d], paxosId[d])
    BY <2>1 DEF Sole
  <2>3. Prepared(CallNode[d], current[d], paxosId[d])'
    BY <1>1, <1>5, <2>2, CallAssumption DEF Prepared
  <2>4. \A x \in Node : \A r \in rumors[x] : r.type = "propose" => r.step # current[d]
    BY <2>1 DEF Sole
  <2> QED BY <1>1, <1>2, <1>6, <2>1, <2>3, <2>4
<1> HIDE DEF n
<1>9. \A x \in Node : \A r \in rumors'[x] : r.type = "propose" => Prepared(x, r.step, r.id)'
  BY <1>2, <1>4, <1>5, <1>6, <1>1 DEF Sole
<1>10. \A x, y \in Node : \A r \in rumors'[x], z \in rumors'[y] :
           (r.type = "propose" /\ z.type = "propose" /\ r.step = z.step) => x = y /\ r = z
  BY <1>2, <1>4, <1>6 DEF Sole
<1>11. \A x, y \in Node : \A r \in rumors'[x], z \in rumors'[y] :
           (r.type = "prepare" /\ z.type = "prepare" /\ r.step = z.step) => x = y /\ r.id = z.id
  BY <1>2, <1>6 DEF Sole
<1>12. \A d, e \in Call : (pc'[d] = "p1" /\ pc'[e] = "p1" /\ current'[d] = current'[e]) => d = e
  BY <1>1, <1>7 DEF Sole
<1> QED BY <1>8, <1>9, <1>10, <1>11, <1>12 DEF Sole

LEMMA SoleInvariant == Spec /\ [][Unrivalled]_vars => []Sole
<1>1. Init => Sole
  BY DEF Init, InitButRumors, Sole
<1>2. Shape /\ Sole /\ [Next]_vars /\ [Unrivalled]_vars => Sole'
  <2> SUFFICES ASSUME Shape, Sole, [Next]_vars, [Unrivalled]_vars PROVE Sole'
    OBVIOUS
  <2>1. ASSUME NEW t, NEW n \in Node, NEW m \in Message, NEW q, Handle(t, n, m, q)
        PROVE  Sole'
    BY <2>1, HandleQuiet, KeepSole
  <2>2. ASSUME NEW o \in Node, NEW d \in Node, Receive(o, d) PROVE Sole'
    BY <2>1, <2>2, ReceiveMessage DEF Receive, Shape, TypeOK
  <2>3. ASSUME NEW t \in Thread, ProcessLocal(t) PROVE Sole'
    BY <2>1, <2>3, LocalMessage DEF ProcessLocal, Shape, TypeOK
  <2>4. CASE UNCHANGED vars
    <3>1. UNCHANGED <<rumors, pc, current, paxosId>>
      BY <2>4 DEF vars, gossipVars, callVars, loopVars
    <3> QED BY <3>1, KeepSole
  <2>5. ASSUME NEW c \in Call, CallStep(c), Unrivalled PROVE Sole'
    <3>1. CASE CallMoves(c)
      <4>1. UNCHANGED <<rumors, current, paxosId>>
        BY <3>1, CallMovesKeep DEF gossipVars
      <4>2. \A d \in Call : pc'[d] = "p1" => pc[d] = "p1"
        BY <3>1 DEF CallMoves, BeginCall, CheckName, Timeout, Accepted, Return, Shape, TypeOK,
                    CallTypeOK
      <4> QED BY <4>1, <4>2, KeepSole
    <3> QED BY <2>5, <3>1, StartSole, CallProposeSole DEF CallStep, CallMoves
  <2> QED BY <2>2, <2>3, <2>4, <2>5 DEF Next
<1> QED BY <1>1, <1>2, ShapeInvariant, PTL DEF Spec

\* The step of a call in phase one is not left: nothing was proposed for it.
LEMMA SoleFresh ==
    ASSUME Shape, Sound, Sole, NEW c \in Call, pc[c] = "p1"
    PROVE  current[c] = step[CallNode[c]]
<1>1. PICK n \in Node : n = CallNode[c]
  BY CallAssumption
<1>2. /\ current[c] \in Nat /\ step[n] \in Nat /\ current[c] <= step[n]
      /\ Len(chain[n]) = step[n]
  BY <1>1, BoundAssumption
     DEF Shape, TypeOK, StepTypeOK, CallTypeOK, ChainLength, Steps, Sound, CurrentPast
<1>3. ASSUME current[c] # step[n] PROVE FALSE
  <2>1. PICK i \in 1 .. Len(chain[n]) : i - 1 = current[c]
    <3>1. PICK k \in Nat : k = current[c] + 1
      BY <1>2
    <3>2. k \in 1 .. Len(chain[n]) /\ k - 1 = current[c]
      BY <1>2, <1>3, <3>1
    <3> QED BY <3>2
  <2>2. StoredAt(chain[n][i], i - 1)
    BY DEF Sound, ChainSound
  <2>3. ProposedAt(chain[n][i].value.uid, current[c])
    BY <2>1, <2>2 DEF StoredAt, BlockAt, ValueAt
  <2> QED BY <2>3 DEF Sole, ProposedAt
<1> QED BY <1>1, <1>3

LEMMA SoleDecides ==
    ASSUME Sound, Sole
    PROVE  DecidedOnce
<1> SUFFICES ASSUME NEW n \in Node, NEW o \in Node, NEW m \in rumors[n], NEW r \in rumors[o],
                    m.type = "tlc", r.type = "tlc", m.step = r.step
             PROVE  m.block.value.uid = r.block.value.uid
  BY DEF DecidedOnce
<1>1. ProposedAt(m.block.value.uid, m.step) /\ ProposedAt(r.block.value.uid, r.step)
  BY DEF Sound, RumorsSound, SoundMessage, BlockAt, ValueAt
<1> QED BY <1>1 DEF ProposedAt, Sole

\* When no two iterations of Tag start at the same step, what rivalry can break
\* is kept, for every threshold: the blockchains of all nodes agree, a call that
\* returns has its block, and the consensus implements the ledger.
THEOREM TurnsBuildLedger ==
    Spec /\ [][Unrivalled]_vars => []Agreement /\ []DoneCommitted /\ ImplementsLedger
<1>1. Shape /\ Sound /\ Sole => FreshProposals
  BY SoleFresh DEF FreshProposals, Propose
<1>2. Spec /\ [][Unrivalled]_vars => [][FreshProposals]_vars /\ []DecidedOnce
  <2>1. Shape /\ Sound /\ Sole => [FreshProposals]_vars
    BY <1>1
  <2> QED BY <2>1, SoleDecides, ShapeInvariant, SoundInvariant, SoleInvariant, PTL
<1> QED BY <1>2, DecisionsAgree, ReturnsCommitted, LedgerImplemented, PTL

-----------------------------------------------------------------------------
(* Who hears of which accept                                               *)

Voted(o, s) == \E r \in rumors[o] : r.type = "accept" /\ r.step = s
Voter(o, s) == step[o] = s /\ Voted(o, s)
HasProposed(p, s) == \E r \in rumors[p] : r.type = "propose" /\ r.step = s

On(q, d, o, r) == \E i \in 1 .. Len(q[d][o]) : q[d][o][i] = r

\* Peer o has counted the accept r, or is still to process it.
Heard(r, o) ==
    \/ r.src \in phaseTwoPeers[o][r.val.uid]
    \/ On(net, r.src, o, r)
    \/ \E t \in Thread : NodeOf(t) = o /\ local[t] = r

HearsAll(o, M, s) ==
    \A d \in M : \A r \in rumors[d] : (r.type = "accept" /\ r.step = s) => Heard(r, o)

\* Of any peers that have accepted at their step, the first to do so hears all:
\* what arrives before a peer has accepted is lost (ExecPaxosAcceptMessage).
FirstHears ==
    \A s \in Steps : \A M \in SUBSET Node :
        (M # {} /\ \A o \in M : Voter(o, s)) => \E o \in M : HearsAll(o, M, s)

\* Everyone hears the accept of the proposer, which its proposal precedes.
ProposerHeard ==
    \A s \in Steps : \A p, o \in Node :
        (HasProposed(p, s) /\ Voter(o, s)) => HearsAll(o, {p}, s)

\* The accept of the proposer comes after its proposal.
Follows(q) ==
    \A p, o \in Node : \A i \in 1 .. Len(q[p][o]) : \A r \in rumors[p] :
        (p # o /\ q[p][o][i].type = "propose" /\ r.type = "accept" /\ r.step = q[p][o][i].step)
            => \E j \in i + 1 .. Len(q[p][o]) : q[p][o][j] = r

PhaseOneVotes == \A o \in Node : phaseOne[o] <=> ~ Voted(o, step[o])

\* A peer that has counted a threshold has sent its TLC message.
Announces ==
    \A o, d \in Node : \A r \in rumors[d] :
        (r.type = "accept" /\ Cardinality(phaseTwoPeers[o][r.val.uid]) >= PaxosThreshold)
            => r.step \in tlcSent[o]

CallVoted ==
    \A c \in Call :
        /\ pc[c] \in {"p1", "p2", "wait"} => current[c] < MaxStep
        /\ pc[c] \in {"p2", "wait"} => HasProposed(CallNode[c], current[c])
        /\ (pc[c] = "wait" \/ (pc[c] = "p2" /\ success[c]))
               => current[c] \in tlcSent[CallNode[c]] /\ Voted(CallNode[c], current[c])

Hearing == /\ FirstHears /\ ProposerHeard /\ Follows(net)
           /\ PhaseOneVotes /\ Announces /\ CallVoted

\* Thread t of its node accepts the proposal m.
Accepting(t, m, q) == HandlePropose(t, NodeOf(t), m, q) /\ Acceptable(NodeOf(t), m)
VoteFor(t, m) == [type |-> "accept", src |-> NodeOf(t), step |-> m.step, id |-> m.id,
                  val |-> m.val]

\* Thread t has taken m, and q is what is left in the queues.
Takes(t, m, q) ==
    /\ \A d, o \in Node : \A r : On(net, d, o, r) => On(q, d, o, r) \/ (o = NodeOf(t) /\ m = r)
    /\ local[t] # None => m = local[t]

\* The accepts of the sender of a proposal are behind it.
Behind(n, m, q) ==
    (m.type = "propose" /\ m.src # n) =>
        \A r \in rumors[m.src] : (r.type = "accept" /\ r.step = m.step) => On(q, m.src, n, r)

LEMMA EnqueueOn ==
    ASSUME NEW n \in Node, NEW m \in Message, NEW q \in Queues, NEW d \in Node, NEW o \in Node
    PROVE  /\ \A r : On(q, d, o, r) => On(Enqueue(q, n, m), d, o, r)
           /\ (d = n /\ o # n /\ ActsOn(m, o)) => On(Enqueue(q, n, m), d, o, m)
<1> DEFINE e == Enqueue(q, n, m)
<1>1. q[d][o] \in Seq(Message)
  BY DEF Queues
<1>2. e[d][o] = q[d][o] \/ e[d][o] = Append(q[d][o], m)
  BY DEF Enqueue, Queues
<1>3. (d = n /\ o # n /\ ActsOn(m, o)) => e[d][o] = Append(q[d][o], m)
  BY DEF Enqueue, Queues
<1> HIDE DEF e
<1>4. /\ Len(Append(q[d][o], m)) = Len(q[d][o]) + 1
      /\ Len(q[d][o]) \in Nat
      /\ \A i \in 1 .. Len(q[d][o]) : Append(q[d][o], m)[i] = q[d][o][i]
      /\ Append(q[d][o], m)[Len(q[d][o]) + 1] = m
  BY <1>1
<1>5. ASSUME NEW r, On(q, d, o, r) PROVE On(e, d, o, r)
  <2>1. PICK i \in 1 .. Len(q[d][o]) : q[d][o][i] = r
    BY <1>5 DEF On
  <2>2. i \in 1 .. Len(e[d][o])
    BY <1>2, <1>4
  <2>3. e[d][o][i] = r
    BY <1>2, <1>4, <2>1
  <2> QED BY <2>2, <2>3 DEF On
<1>6. ASSUME d = n, o # n, ActsOn(m, o) PROVE On(e, d, o, m)
  <2>1. Len(e[d][o]) = Len(q[d][o]) + 1 /\ e[d][o][Len(q[d][o]) + 1] = m
    BY <1>3, <1>4, <1>6
  <2>2. PICK k \in Nat : k = Len(q[d][o]) + 1
    BY <1>4
  <2>3. k \in 1 .. Len(e[d][o]) /\ e[d][o][k] = m
    BY <1>4, <2>1, <2>2
  <2> QED BY <2>3 DEF On
<1> QED BY <1>5, <1>6 DEF e

LEMMA ReceiveTakes ==
    ASSUME Shape, NEW o \in Node, NEW n \in Node, net[o][n] # << >>, local[n] = None
    PROVE  Takes(n, Head(net[o][n]), [net EXCEPT ![o][n] = Tail(@)])
<1> DEFINE q == [net EXCEPT ![o][n] = Tail(@)]
           w == net[o][n]
<1>1. net \in Queues /\ w \in Seq(Message) /\ NodeOf(n) = n
  BY CallAssumption DEF Shape, TypeOK, GossipTypeOK, Queues, NodeOf
<1>2. ASSUME NEW d \in Node, NEW e \in Node, NEW r, On(net, d, e, r)
      PROVE  On(q, d, e, r) \/ (e = n /\ Head(w) = r)
  <2>1. CASE d = o /\ e = n
    <3>1. PICK i \in 1 .. Len(w) : w[i] = r
      BY <1>2, <2>1 DEF On
    <3>2. CASE i = 1
      BY <1>1, <2>1, <3>1, <3>2
    <3>3. CASE i # 1
      <4>1. q[d][e] = Tail(w)
        BY <1>1, <2>1 DEF Queues
      <4>2. /\ Len(Tail(w)) = Len(w) - 1 /\ Len(w) \in Nat
            /\ \A j \in 1 .. Len(w) - 1 : Tail(w)[j] = w[j + 1]
        BY <1>1
      <4> HIDE DEF q, w
      <4>3. i - 1 \in 1 .. Len(w) - 1
        BY <3>1, <3>3, <4>2
      <4>4. PICK k \in 1 .. Len(w) - 1 : k = i - 1
        BY <4>3
      <4>5. Tail(w)[k] = w[k + 1] /\ k + 1 = i
        BY <3>1, <4>2, <4>4
      <4> QED BY <3>1, <4>1, <4>2, <4>4, <4>5 DEF On
    <3> QED BY <3>2, <3>3
  <2>2. CASE ~ (d = o /\ e = n)
    <3>1. q[d][e] = net[d][e]
      BY <1>1, <2>2 DEF Queues
    <3> QED BY <1>2, <3>1 DEF On
  <2> QED BY <2>1, <2>2
<1> QED BY <1>1, <1>2 DEF Takes

LEMMA LocalTakes ==
    ASSUME NEW t \in Thread, local[t] # None
    PROVE  Takes(t, local[t], net)
BY DEF Takes

\* What a thread that processes a message sends and changes.
LEMMA HandleSends ==
    ASSUME Shape, Shape', NEW t \in Thread, NEW m \in Message, NEW q \in Queues,
           Handle(t, NodeOf(t), m, q)
    PROVE  /\ \A u \in Thread : u # t => local'[u] = local[u]
           /\ \A o \in Node : \A u \in Uid : phaseTwoPeers[o][u] \subseteq phaseTwoPeers'[o][u]
           /\ \A o \in Node : tlcSent[o] \subseteq tlcSent'[o]
           /\ \/ net' = q /\ rumors' = rumors
              \/ \E x \in Message :
                     /\ x.type # "propose" /\ net' = Enqueue(q, NodeOf(t), x)
                     /\ \A o \in Node :
                            rumors'[o] = IF o = NodeOf(t) THEN rumors[o] \cup {x} ELSE rumors[o]
                     /\ x.type = "accept" => Accepting(t, m, q) /\ x = VoteFor(t, m)
<1> DEFINE n == NodeOf(t)
<1>1. n \in Node /\ DOMAIN rumors = Node /\ rumors' \in [Node -> SUBSET Message]
  BY NodeOfType DEF Shape, TypeOK, GossipTypeOK
<1>2. \A u \in Thread : u # t => local'[u] = local[u]
  BY DEF Handle, HandlePrepare, HandlePropose, HandlePromise, HandleAccept, HandleTLC,
         StoreTLC, AdvanceStep, Broadcast, Finish, Shape, TypeOK, GossipTypeOK
<1>3. \A o \in Node : \A u \in Uid : phaseTwoPeers[o][u] \subseteq phaseTwoPeers'[o][u]
  <2>1. CASE HandleAccept(t, n, m, q)
    <3>1. phaseTwoPeers' = phaseTwoPeers
          \/ phaseTwoPeers' = [phaseTwoPeers EXCEPT ![n][m.val.uid] =
                                   phaseTwoPeers[n][m.val.uid] \cup {m.src}]
      BY <2>1 DEF HandleAccept
    <3>2. phaseTwoPeers \in [Node -> [Uid -> SUBSET Node]]
      BY DEF Shape, TypeOK, ProposerTypeOK
    <3> SUFFICES ASSUME NEW o \in Node, NEW u \in Uid
                 PROVE  phaseTwoPeers[o][u] \subseteq phaseTwoPeers'[o][u]
      OBVIOUS
    <3>3. CASE o = n /\ u = m.val.uid
      BY <3>1, <3>2, <3>3
    <3>4. CASE ~ (o = n /\ u = m.val.uid)
      BY <3>1, <3>2, <3>4
    <3> QED BY <3>3, <3>4
  <2>2. CASE ~ HandleAccept(t, n, m, q)
    BY <2>2 DEF Handle, HandlePrepare, HandlePropose, HandlePromise, HandleTLC,
                StoreTLC, AdvanceStep, proposerVars
  <2> QED BY <2>1, <2>2
<1>4. \A o \in Node : tlcSent[o] \subseteq tlcSent'[o]
  <2>1. tlcSent' = tlcSent \/ \E z : tlcSent' = [tlcSent EXCEPT ![n] = @ \cup {z}]
    BY DEF Handle, HandlePrepare, HandlePropose, HandlePromise, HandleAccept, HandleTLC,
           StoreTLC, AdvanceStep, stepVars
  <2>2. DOMAIN tlcSent = Node
    BY DEF Shape, TypeOK, StepTypeOK
  <2> QED BY <1>1, <2>1, <2>2
<1> DEFINE Sends(x) == /\ net' = Enqueue(q, n, x)
                       /\ rumors' = [rumors EXCEPT ![n] = @ \cup {x}]
           Kind(x) == /\ x.type # "propose"
                      /\ x.type = "accept" => Accepting(t, m, q) /\ x = VoteFor(t, m)
<1>5. (net' = q /\ rumors' = rumors) \/ \E x : Sends(x) /\ Kind(x)
  <2>1. CASE HandlePrepare(t, n, m, q)
    <3> DEFINE r == [type |-> "promise", src |-> n, dest |-> m.src, step |-> step[n],
                     id |-> m.id, accId |-> acceptedId[n], accVal |-> acceptedValue[n]]
    <3>1. Broadcast(t, n, r, q) \/ Finish(t, q)
      BY <2>1 DEF HandlePrepare
    <3>2. r.type = "promise"
      OBVIOUS
    <3> HIDE DEF r
    <3> QED BY <3>1, <3>2 DEF Broadcast, Finish
  <2>2. CASE HandlePropose(t, n, m, q)
    <3>1. (Acceptable(n, m) /\ Broadcast(t, n, VoteFor(t, m), q)) \/ Finish(t, q)
      BY <2>2 DEF HandlePropose, VoteFor
    <3>2. VoteFor(t, m).type = "accept"
      BY DEF VoteFor
    <3> QED BY <2>2, <3>1, <3>2 DEF Broadcast, Finish, Accepting
  <2>3. CASE HandlePromise(t, n, m, q)
    BY <2>3 DEF HandlePromise, Finish
  <2>4. CASE HandleAccept(t, n, m, q)
    <3> DEFINE r == [type |-> "tlc", src |-> n, step |-> m.step,
                     block |-> NewBlock(n, m.step, m.val)]
    <3>1. Broadcast(t, n, r, q) \/ Finish(t, q)
      BY <2>4 DEF HandleAccept
    <3>2. r.type = "tlc"
      OBVIOUS
    <3> HIDE DEF r
    <3> QED BY <3>1, <3>2 DEF Broadcast, Finish
  <2>5. CASE HandleTLC(t, n, m, q)
    <3> DEFINE r == [m EXCEPT !.src = n]
    <3>1. m \in TLCMessage /\ m.type = "tlc"
      BY <2>5, MessageKinds DEF HandleTLC
    <3>2. r.type = "tlc"
      BY <3>1 DEF TLCMessage
    <3>3. Finish(t, q) \/ Sends(r) \/ (net' = q /\ rumors' = rumors)
      BY <2>5 DEF HandleTLC, StoreTLC, AdvanceStep
    <3> HIDE DEF r
    <3> QED BY <3>2, <3>3 DEF Finish
  <2> QED BY <2>1, <2>2, <2>3, <2>4, <2>5 DEF Handle
<1>6. ASSUME NEW x, Sends(x)
      PROVE  /\ x \in Message
             /\ \A o \in Node : rumors'[o] = IF o = n THEN rumors[o] \cup {x} ELSE rumors[o]
  <2>1. rumors'[n] = rumors[n] \cup {x} /\ rumors'[n] \in SUBSET Message
    BY <1>1, <1>6
  <2>2. x \in Message
    BY <2>1
  <2> QED BY <1>1, <1>6, <2>2
<1> HIDE DEF n
<1>7. \/ net' = q /\ rumors' = rumors
      \/ \E x \in Message :
             /\ x.type # "propose" /\ net' = Enqueue(q, n, x)
             /\ \A o \in Node : rumors'[o] = IF o = n THEN rumors[o] \cup {x} ELSE rumors[o]
             /\ x.type = "accept" => Accepting(t, m, q) /\ x = VoteFor(t, m)
  BY <1>5, <1>6
<1> QED BY <1>2, <1>3, <1>4, <1>7 DEF n

LEMMA ReceiveFollows ==
    ASSUME Shape, GossipInv, Follows(net), NEW o \in Node, NEW n \in Node, net[o][n] # << >>
    PROVE  /\ Follows([net EXCEPT ![o][n] = Tail(@)])
           /\ Behind(n, Head(net[o][n]), [net EXCEPT ![o][n] = Tail(@)])
<1> DEFINE q == [net EXCEPT ![o][n] = Tail(@)]
           w == net[o][n]
<1>1. net \in Queues /\ w \in Seq(Message) /\ w # << >>
  BY DEF Shape, TypeOK, GossipTypeOK, Queues
<1>2. /\ Len(Tail(w)) = Len(w) - 1 /\ Len(w) \in Nat /\ Len(w) > 0 /\ Head(w) = w[1]
      /\ \A j \in 1 .. Len(w) - 1 : Tail(w)[j] = w[j + 1]
  BY <1>1
<1>3. q[o][n] = Tail(w)
  BY <1>1 DEF Queues
<1>4. \A d, e \in Node : (d # o \/ e # n) => q[d][e] = net[d][e]
  BY <1>1 DEF Queues
<1>5. ASSUME NEW r, NEW j \in 2 .. Len(w), w[j] = r
      PROVE  \E k \in 1 .. Len(w) - 1 : k = j - 1 /\ Tail(w)[k] = r
  <2>1. PICK k \in 1 .. Len(w) - 1 : k = j - 1
    <3>1. j - 1 \in 1 .. Len(w) - 1
      BY <1>2
    <3> QED BY <3>1
  <2>2. k + 1 = j
    BY <1>2, <2>1
  <2> QED BY <1>2, <1>5, <2>1, <2>2
<1> HIDE DEF q, w
<1>6. Follows(q)
  <2> SUFFICES ASSUME NEW p \in Node, NEW d \in Node, NEW i \in 1 .. Len(q[p][d]),
                      NEW r \in rumors[p], p # d, q[p][d][i].type = "propose",
                      r.type = "accept", r.step = q[p][d][i].step
               PROVE  \E j \in i + 1 .. Len(q[p][d]) : q[p][d][j] = r
    BY DEF Follows
  <2>1. CASE p # o \/ d # n
    BY <1>4, <2>1 DEF Follows
  <2>2. CASE p = o /\ d = n
    <3>1. i \in 1 .. Len(w) - 1 /\ q[p][d][i] = w[i + 1] /\ i \in Nat
      BY <1>2, <1>3, <2>2
    <3>2. PICK l \in 1 .. Len(w) : l = i + 1
      <4>1. i + 1 \in 1 .. Len(w)
        BY <1>2, <3>1
      <4> QED BY <4>1
    <3>3. PICK j \in l + 1 .. Len(w) : w[j] = r
      BY <2>2, <3>1, <3>2 DEF Follows, w
    <3>4. j \in 2 .. Len(w) /\ j > i + 1
      BY <1>2, <3>1, <3>2
    <3>5. PICK k \in 1 .. Len(w) - 1 : k = j - 1 /\ Tail(w)[k] = r
      BY <1>5, <3>3, <3>4
    <3>6. k \in i + 1 .. Len(q[p][d]) /\ q[p][d][k] = r
      <4>1. q[p][d] = Tail(w) /\ Len(q[p][d]) = Len(w) - 1
        BY <1>2, <1>3, <2>2
      <4>2. k \in i + 1 .. Len(w) - 1
        BY <1>2, <3>1, <3>4, <3>5
      <4> QED BY <3>5, <4>1, <4>2
    <3> QED BY <3>6
  <2> QED BY <2>1, <2>2
<1>7. Behind(n, Head(w), q)
  <2> SUFFICES ASSUME Head(w).type = "propose", Head(w).src # n, NEW r \in rumors[Head(w).src],
                      r.type = "accept", r.step = Head(w).step
               PROVE  On(q, Head(w).src, n, r)
    BY DEF Behind
  <2>1. 1 \in 1 .. Len(w) /\ Head(w) = w[1]
    BY <1>2
  <2>2. Head(w).src = o
    BY <2>1 DEF GossipInv, Known, w
  <2>3. PICK j \in 1 + 1 .. Len(w) : w[j] = r
    BY <2>1, <2>2 DEF Follows, w
  <2>4. j \in 2 .. Len(w)
    BY <1>2
  <2>5. \E k \in 1 .. Len(w) - 1 : Tail(w)[k] = r
    BY <1>5, <2>3, <2>4
  <2> QED BY <1>2, <1>3, <2>2, <2>5 DEF On
<1> QED BY <1>6, <1>7 DEF q, w

LEMMA FollowsAfter ==
    ASSUME NEW q \in Queues, Follows(q), NEW n \in Node, NEW x \in Message,
           net' = Enqueue(q, n, x),
           \A o \in Node : rumors'[o] = IF o = n THEN rumors[o] \cup {x} ELSE rumors[o],
           x.type = "propose" => \A r \in rumors[n] : r.type = "accept" => r.step # x.step
    PROVE  Follows(net)'
<1> SUFFICES ASSUME NEW p \in Node, NEW o \in Node, NEW i \in 1 .. Len(net'[p][o]),
                    NEW r \in rumors'[p], p # o, net'[p][o][i].type = "propose",
                    r.type = "accept", r.step = net'[p][o][i].step
             PROVE  \E j \in i + 1 .. Len(net'[p][o]) : net'[p][o][j] = r
  BY DEF Follows
<1> DEFINE w == q[p][o]
           v == net'[p][o]
<1>1. w \in Seq(Message) /\ Len(w) \in Nat
  BY DEF Queues
<1>2. v = w \/ (v = Append(w, x) /\ p = n)
  BY DEF Enqueue, Queues
<1>3. (p = n /\ x.type = "accept") => v = Append(w, x)
  BY DEF Enqueue, Queues, ActsOn
<1> HIDE DEF w, v
<1>4. /\ Len(Append(w, x)) = Len(w) + 1 /\ Append(w, x)[Len(w) + 1] = x
      /\ \A j \in 1 .. Len(w) : Append(w, x)[j] = w[j]
  BY <1>1
<1>5. /\ \A j \in 1 .. Len(w) : v[j] = w[j]
      /\ Len(w) <= Len(v) /\ Len(v) \in Nat
  BY <1>1, <1>2, <1>4
<1>6. i \in Nat /\ i >= 1 /\ i <= Len(v) /\ v[i].type = "propose" /\ r.step = v[i].step
  BY <1>5 DEF v
<1>7. i <= Len(w)
  <2>1. CASE v = w
    BY <1>6, <2>1
  <2>2. CASE v = Append(w, x) /\ p = n /\ i = Len(w) + 1
    <3>1. v[i] = x
      BY <1>4, <2>2
    <3>2. x.type = "propose" /\ r.step = x.step
      BY <1>6, <3>1
    <3>3. r \in rumors[n]
      BY <2>2, <3>2
    <3> QED BY <3>2, <3>3
  <2> QED BY <1>1, <1>2, <1>4, <1>6, <2>1, <2>2
<1>8. i \in 1 .. Len(w) /\ w[i] = v[i]
  BY <1>1, <1>5, <1>6, <1>7
<1>9. CASE r \in rumors[p]
  <2>1. PICK j \in i + 1 .. Len(w) : w[j] = r
    BY <1>6, <1>8, <1>9 DEF Follows, w
  <2>2. j \in 1 .. Len(w) /\ j \in i + 1 .. Len(v)
    BY <1>1, <1>5, <1>6, <2>1
  <2>3. v[j] = r
    BY <1>5, <2>1, <2>2
  <2> QED BY <2>2, <2>3 DEF v
<1>10. CASE r = x /\ p = n
  <2>1. v = Append(w, x)
    BY <1>3, <1>10
  <2>2. PICK k \in Nat : k = Len(w) + 1
    BY <1>1
  <2>3. k \in i + 1 .. Len(v) /\ v[k] = r
    BY <1>1, <1>4, <1>6, <1>7, <1>10, <2>1, <2>2
  <2> QED BY <2>3 DEF v
<1> QED BY <1>9, <1>10

\* An accept is on its way to everyone once it is sent.
LEMMA AcceptHeard ==
    ASSUME Shape, NEW t \in Thread, NEW m \in Message, NEW q \in Queues, Accepting(t, m, q)
    PROVE  \A o \in Node : Heard(VoteFor(t, m), o)'
<1> DEFINE n == NodeOf(t)
           x == VoteFor(t, m)
<1>1. n \in Node /\ m \in PaxosProposeMessage
  BY NodeOfType, MessageKinds DEF Accepting, HandlePropose
<1>2. x \in Message /\ x.type = "accept" /\ x.src = n
  BY <1>1 DEF VoteFor, Message, PaxosProposeMessage, PaxosAcceptMessage
<1>3. Broadcast(t, n, x, q)
  BY DEF Accepting, HandlePropose, VoteFor
<1>4. net' = Enqueue(q, n, x) /\ local' = [local EXCEPT ![t] = x]
  BY <1>2, <1>3 DEF Broadcast, ActsOn
<1>5. \A o \in Node : ActsOn(x, o)
  BY <1>2 DEF ActsOn
<1> HIDE DEF x
<1> SUFFICES ASSUME NEW o \in Node PROVE Heard(x, o)'
  BY DEF x
<1>6. CASE o = n
  <2>1. local'[t] = x
    BY <1>4 DEF Shape, TypeOK, GossipTypeOK
  <2> QED BY <1>6, <2>1 DEF Heard
<1>7. CASE o # n
  <2>1. On(net', n, o, x)
    BY <1>1, <1>2, <1>4, <1>5, <1>7, EnqueueOn
  <2> QED BY <1>2, <2>1 DEF Heard
<1> QED BY <1>6, <1>7

\* What a peer has heard it has counted or is still to process, unless the accept
\* reaches it before it has accepted itself or after it has left the step.
LEMMA HeardStays ==
    ASSUME Shape, Shape', GossipInv, NEW t \in Thread, NEW m \in Message, NEW q \in Queues,
           Takes(t, m, q), Handle(t, NodeOf(t), m, q), NEW d \in Node, NEW r \in rumors[d],
           r.type = "accept", NEW o \in Node, step[o] = r.step, ~ phaseOne[o], Heard(r, o)
    PROVE  Heard(r, o)'
<1> DEFINE n == NodeOf(t)
<1>1. /\ n \in Node /\ r \in PaxosAcceptMessage /\ r.src = d /\ r # None
      /\ r.val.uid \in Uid /\ r \in Message
  <2>1. r \in Message
    BY DEF Shape, TypeOK, GossipTypeOK
  <2> QED BY <2>1, NodeOfType, MessageKinds, NoneAssumption
          DEF GossipInv, PaxosAcceptMessage, Value
<1>2. ASSUME n = o, m = r PROVE Heard(r, o)'
  <2>1. HandleAccept(t, n, m, q)
    BY <1>2 DEF Handle, HandlePrepare, HandlePropose, HandlePromise, HandleTLC
  <2>2. phaseTwoPeers' = [phaseTwoPeers EXCEPT ![n][m.val.uid] =
                              phaseTwoPeers[n][m.val.uid] \cup {m.src}]
    BY <1>2, <2>1 DEF HandleAccept
  <2>3. r.src \in phaseTwoPeers'[o][r.val.uid]
    BY <1>1, <1>2, <2>2 DEF Shape, TypeOK, ProposerTypeOK
  <2> QED BY <2>3 DEF Heard
<1>3. CASE r.src \in phaseTwoPeers[o][r.val.uid]
  <2>1. phaseTwoPeers[o][r.val.uid] \subseteq phaseTwoPeers'[o][r.val.uid]
    BY <1>1, HandleSends
  <2> QED BY <1>3, <2>1 DEF Heard
<1>4. CASE On(net, r.src, o, r)
  <2>1. On(q, r.src, o, r) \/ (o = n /\ m = r)
    BY <1>1, <1>4 DEF Takes
  <2>2. ASSUME On(q, r.src, o, r) PROVE On(net', r.src, o, r)
    <3>1. net' = q \/ \E x \in Message : net' = Enqueue(q, n, x)
      BY HandleSends
    <3> QED BY <1>1, <2>2, <3>1, EnqueueOn
  <2> QED BY <1>2, <2>1, <2>2 DEF Heard
<1>5. ASSUME NEW u \in Thread, NodeOf(u) = o, local[u] = r PROVE Heard(r, o)'
  <2>1. CASE u = t
    BY <1>1, <1>2, <1>5, <2>1 DEF Takes
  <2>2. CASE u # t
    <3>1. local'[u] = r
      BY <1>5, <2>2, HandleSends
    <3> QED BY <1>5, <3>1 DEF Heard
  <2> QED BY <2>1, <2>2
<1> QED BY <1>3, <1>4, <1>5 DEF Heard

\* The accepts that are new, and everyone hears of those.
LEMMA NewAccepts ==
    ASSUME Shape, Shape', NEW t \in Thread, NEW m \in Message, NEW q \in Queues,
           Handle(t, NodeOf(t), m, q), NEW d \in Node, NEW r \in rumors'[d], r.type = "accept",
           r \notin rumors[d]
    PROVE  /\ d = NodeOf(t) /\ Accepting(t, m, q) /\ r.step = m.step /\ step[d] = m.step
           /\ m.type = "propose" /\ \A o \in Node : Heard(r, o)'
<1>1. d = NodeOf(t) /\ Accepting(t, m, q) /\ r = VoteFor(t, m)
  <2>1. \/ rumors' = rumors
        \/ \E x \in Message :
               /\ \A o \in Node :
                      rumors'[o] = IF o = NodeOf(t) THEN rumors[o] \cup {x} ELSE rumors[o]
               /\ x.type = "accept" => Accepting(t, m, q) /\ x = VoteFor(t, m)
    BY HandleSends
  <2> QED BY <2>1
<1>2. r.step = m.step
  BY <1>1 DEF VoteFor
<1>3. step[d] = m.step /\ m.type = "propose"
  BY <1>1 DEF Accepting, Acceptable, HandlePropose
<1> QED BY <1>1, <1>2, <1>3, AcceptHeard

LEMMA VotersBefore ==
    ASSUME Shape, Shape', AcceptorInv, NEW t \in Thread, NEW m \in Message, NEW q \in Queues,
           Handle(t, NodeOf(t), m, q), NEW o \in Node, NEW s, Voter(o, s)', ~ Voter(o, s)
    PROVE  /\ o = NodeOf(t) /\ Accepting(t, m, q) /\ s = m.step /\ step[o] = s
           /\ m.type = "propose" /\ ~ Voted(o, s)
<1>1. step'[o] = s /\ Voted(o, s)'
  BY DEF Voter
<1>2. PICK r \in rumors'[o] : r.type = "accept" /\ r.step = s
  BY <1>1 DEF Voted
<1>3. CASE r \in rumors[o]
  <2>1. step[o] # s
    BY <1>2, <1>3 DEF Voter, Voted
  <2>2. /\ step[o] \in Nat /\ step'[o] \in Nat /\ r.step \in Nat
        /\ step[o] <= step'[o] /\ r.step <= step[o]
    <3>1. NodeOf(t) \in Node
      BY NodeOfType
    <3>2. step[o] <= step'[o]
      BY <3>1, HandleQuiet
    <3>3. step[o] \in Nat /\ step'[o] \in Nat
      BY BoundAssumption DEF Shape, TypeOK, StepTypeOK, Steps
    <3>4. r.step <= step[o]
      BY <1>2, <1>3 DEF AcceptorInv
    <3> QED BY <1>1, <1>2, <3>2, <3>3, <3>4
  <2> QED BY <1>1, <1>2, <2>1, <2>2
<1>4. CASE r \notin rumors[o]
  <2>1. /\ o = NodeOf(t) /\ Accepting(t, m, q) /\ s = m.step /\ step[o] = s
        /\ m.type = "propose"
    BY <1>2, <1>4, NewAccepts
  <2> QED BY <2>1 DEF Voter
<1> QED BY <1>3, <1>4

LEMMA HandleFirst ==
    ASSUME Shape, Shape', GossipInv, AcceptorInv, PhaseOneVotes, FirstHears, NEW t \in Thread,
           NEW m \in Message, NEW q \in Queues, Takes(t, m, q), Handle(t, NodeOf(t), m, q)
    PROVE  FirstHears'
<1> SUFFICES ASSUME NEW s \in Steps, NEW M \in SUBSET Node, M # {},
                    \A o \in M : Voter(o, s)'
             PROVE  \E o \in M : HearsAll(o, M, s)'
  BY DEF FirstHears
<1> DEFINE n == NodeOf(t)
\* A peer that hears all of K hears all of M, if the rest are new accepts.
<1>1. ASSUME NEW K \in SUBSET M, NEW o \in K, HearsAll(o, K, s), Voter(o, s),
             \A d \in M \ K : ~ Voted(d, s)
      PROVE  HearsAll(o, M, s)'
  <2> SUFFICES ASSUME NEW d \in M, NEW r \in rumors'[d], r.type = "accept", r.step = s
               PROVE  Heard(r, o)'
    BY DEF HearsAll
  <2>1. CASE r \notin rumors[d]
    BY <2>1, NewAccepts
  <2>2. CASE r \in rumors[d]
    <3>1. d \in K
      BY <1>1, <2>2 DEF Voted
    <3>2. Heard(r, o)
      BY <1>1, <2>2, <3>1 DEF HearsAll
    <3>3. step[o] = r.step /\ ~ phaseOne[o]
      BY <1>1 DEF Voter, PhaseOneVotes
    <3> QED BY <2>2, <3>2, <3>3, HeardStays
  <2> QED BY <2>1, <2>2
<1>2. CASE \A o \in M : Voter(o, s)
  <2>1. PICK o \in M : HearsAll(o, M, s)
    BY <1>2 DEF FirstHears
  <2>2. HearsAll(o, M, s)'
    BY <1>1, <1>2, <2>1
  <2> QED BY <2>2
<1>3. ASSUME NEW e \in M, ~ Voter(e, s) PROVE \E o \in M : HearsAll(o, M, s)'
  <2>1. e = n /\ ~ Voted(e, s)
    BY <1>3, VotersBefore
  <2>2. \A o \in M \ {e} : Voter(o, s)
    BY <2>1, VotersBefore
  <2>3. CASE M = {e}
    <3>1. HearsAll(e, M, s)'
      <4> SUFFICES ASSUME NEW d \in M, NEW r \in rumors'[d], r.type = "accept", r.step = s
                   PROVE  Heard(r, e)'
        BY DEF HearsAll
      <4>1. r \notin rumors[d]
        BY <2>1, <2>3 DEF Voted
      <4> QED BY <4>1, NewAccepts
    <3> QED BY <3>1
  <2>4. CASE M \ {e} # {}
    <3>1. PICK o \in M \ {e} : HearsAll(o, M \ {e}, s)
      BY <2>2, <2>4 DEF FirstHears
    <3>2. Voter(o, s) /\ \A d \in M \ (M \ {e}) : ~ Voted(d, s)
      BY <2>1, <2>2, <3>1
    <3>3. HearsAll(o, M, s)'
      BY <1>1, <3>1, <3>2
    <3> QED BY <3>3
  <2> QED BY <1>3, <2>3, <2>4
<1> QED BY <1>2, <1>3

LEMMA HandleProposer ==
    ASSUME Shape, Shape', GossipInv, AcceptorInv, PhaseOneVotes, Sole, ProposerHeard,
           NEW t \in Thread, NEW m \in Message, m \in rumors[m.src], NEW q \in Queues,
           Takes(t, m, q), Behind(NodeOf(t), m, q), Handle(t, NodeOf(t), m, q)
    PROVE  ProposerHeard'
<1> SUFFICES ASSUME NEW s \in Steps, NEW p \in Node, NEW o \in Node,
                    HasProposed(p, s)', Voter(o, s)', NEW r \in rumors'[p],
                    r.type = "accept", r.step = s
             PROVE  Heard(r, o)'
  BY DEF ProposerHeard, HearsAll
<1>1. NodeOf(t) \in Node /\ m.src \in Node
  BY NodeOfType, MessageKinds
<1>2. PICK x \in rumors[p] : x.type = "propose" /\ x.step = s
  BY <1>1, HandleQuiet DEF HasProposed
<1>3. CASE r \notin rumors[p]
  BY <1>3, NewAccepts
<1>4. CASE r \in rumors[p] /\ Voter(o, s)
  <2>1. Heard(r, o)
    BY <1>2, <1>4 DEF ProposerHeard, HasProposed, HearsAll
  <2>2. step[o] = r.step /\ ~ phaseOne[o]
    BY <1>4 DEF Voter, PhaseOneVotes
  <2> QED BY <1>4, <2>1, <2>2, HeardStays
<1>5. CASE r \in rumors[p] /\ ~ Voter(o, s)
  <2>1. /\ o = NodeOf(t) /\ s = m.step /\ m.type = "propose" /\ ~ Voted(o, s)
    BY <1>5, VotersBefore
  <2>2. m.src = p
    BY <1>1, <1>2, <2>1 DEF Sole
  <2>3. p # o
    BY <1>5, <2>1 DEF Voted
  <2>4. On(q, p, o, r)
    BY <1>5, <2>1, <2>2, <2>3 DEF Behind
  <2>5. net' = q \/ \E y \in Message : net' = Enqueue(q, NodeOf(t), y)
    BY HandleSends
  <2>6. On(net', p, o, r)
    BY <1>1, <2>4, <2>5, EnqueueOn
  <2>7. r.src = p
    BY <1>5 DEF GossipInv
  <2> QED BY <2>6, <2>7 DEF Heard
<1> QED BY <1>3, <1>4, <1>5

LEMMA HandleFollows ==
    ASSUME Shape, Shape', NEW t \in Thread, NEW m \in Message, NEW q \in Queues, Follows(q),
           Handle(t, NodeOf(t), m, q)
    PROVE  Follows(net)'
<1>1. CASE net' = q /\ rumors' = rumors
  BY <1>1 DEF Follows
<1>2. ASSUME NEW x \in Message, x.type # "propose", net' = Enqueue(q, NodeOf(t), x),
             \A o \in Node : rumors'[o] = IF o = NodeOf(t) THEN rumors[o] \cup {x}
                                          ELSE rumors[o]
      PROVE  Follows(net)'
  BY <1>2, NodeOfType, FollowsAfter
<1> QED BY <1>1, <1>2, HandleSends

LEMMA HandlePhaseOne ==
    ASSUME Shape, Shape', AcceptorInv, PhaseOneVotes, NEW t \in Thread, NEW m \in Message,
           NEW q \in Queues, Handle(t, NodeOf(t), m, q)
    PROVE  PhaseOneVotes'
<1> DEFINE n == NodeOf(t)
<1>1. n \in Node
  BY NodeOfType
<1> SUFFICES ASSUME NEW o \in Node PROVE phaseOne'[o] <=> ~ Voted(o, step[o])'
  BY DEF PhaseOneVotes
<1>2. phaseOne'[o] \in BOOLEAN /\ phaseOne[o] \in BOOLEAN /\ DOMAIN phaseOne = Node
      /\ DOMAIN step = Node
  BY DEF Shape, TypeOK, ProposerTypeOK, StepTypeOK
<1>3. CASE Accepting(t, m, q) /\ o = n
  <2>1. /\ phaseOne' = [phaseOne EXCEPT ![n] = FALSE] /\ step' = step /\ step[n] = m.step
        /\ Broadcast(t, n, VoteFor(t, m), q)
    BY <1>3 DEF Accepting, Acceptable, HandlePropose, VoteFor, stepVars
  <2>2. VoteFor(t, m) \in rumors'[n]
    BY <1>1, <2>1 DEF Broadcast, Shape, TypeOK, GossipTypeOK
  <2>3. Voted(o, step[o])'
    BY <1>3, <2>1, <2>2 DEF Voted, VoteFor
  <2> QED BY <1>2, <1>3, <2>1, <2>3
<1>4. CASE HandleTLC(t, n, m, q) /\ AdvanceStep(t, n, m, q) /\ o = n
  <2> DEFINE top == CatchUpStep(n, step[n])
  <2>1. /\ m.type = "tlc" /\ step[n] < MaxStep /\ step' = [step EXCEPT ![n] = top]
        /\ phaseOne' = [phaseOne EXCEPT ![n] = TRUE]
    BY <1>4 DEF HandleTLC, AdvanceStep, ResetProposer
  <2>2. step[n] \in Steps /\ tlc \in [Node -> [Steps -> Seq(Block)]]
    BY <1>1 DEF Shape, TypeOK, StepTypeOK
  <2>3. top \in step[n] + 1 .. MaxStep
    BY <1>1, <2>1, <2>2, CatchUpStepExists
  <2>4. step'[o] = top
    BY <1>1, <1>2, <1>4, <2>1
  <2> HIDE DEF top
  <2>5. step[o] \in Nat /\ step'[o] > step[o]
    BY <1>4, <2>2, <2>3, <2>4, BoundAssumption DEF Steps
  <2>6. ASSUME NEW r \in rumors'[o], r.type = "accept", r.step = step'[o] PROVE FALSE
    <3>1. r \in rumors[o]
      BY <2>1, <2>6, NewAccepts
    <3>2. r.step <= step[o]
      BY <2>6, <3>1 DEF AcceptorInv
    <3> QED BY <2>3, <2>4, <2>5, <2>6, <3>2
  <2>7. ~ Voted(o, step[o])'
    BY <2>6 DEF Voted
  <2> QED BY <1>1, <1>2, <1>4, <2>1, <2>7
<1>5. CASE /\ ~ (Accepting(t, m, q) /\ o = n)
           /\ ~ (HandleTLC(t, n, m, q) /\ AdvanceStep(t, n, m, q) /\ o = n)
  <2>1. phaseOne'[o] = phaseOne[o] /\ step'[o] = step[o]
    BY <1>1, <1>2, <1>5 DEF Handle, HandlePrepare, HandlePropose, HandlePromise, HandleAccept,
                  HandleTLC, StoreTLC, AdvanceStep, ResetProposer, Accepting, stepVars,
                  proposerVars
  <2>2. \A r \in rumors'[o] : r.type = "accept" => r \in rumors[o]
    BY <1>5, NewAccepts
  <2>3. rumors[o] \subseteq rumors'[o]
    BY <1>1, HandleQuiet
  <2>4. Voted(o, step[o])' <=> Voted(o, step[o])
    BY <2>1, <2>2, <2>3 DEF Voted
  <2> QED BY <2>1, <2>4 DEF PhaseOneVotes
<1> QED BY <1>3, <1>4, <1>5

LEMMA HandleAnnounces ==
    ASSUME Shape, Shape', PeersInv, Sound', OneStep', Announces, NEW t \in Thread,
           NEW m \in Message, m \in rumors[m.src], NEW q \in Queues,
           Handle(t, NodeOf(t), m, q)
    PROVE  Announces'
<1> DEFINE n == NodeOf(t)
<1> SUFFICES ASSUME NEW o \in Node, NEW d \in Node, NEW r \in rumors'[d], r.type = "accept",
                    Cardinality(phaseTwoPeers'[o][r.val.uid]) >= PaxosThreshold
             PROVE  r.step \in tlcSent'[o]
  BY DEF Announces
<1> DEFINE u == r.val.uid
<1>1. n \in Node /\ m.src \in Node
  BY NodeOfType, MessageKinds
<1>2. \A e \in Node : \A x \in rumors'[e] :
          (x.type = "accept" /\ x.val.uid = u) => x.step = r.step
  <2>1. \A e \in Node : \A x \in rumors'[e] : x.type = "accept" => ProposedAt(x.val.uid, x.step)'
    BY DEF Sound, RumorsSound, SoundMessage, ValueAt
  <2> QED BY <2>1 DEF ProposedAt, OneStep
<1>3. u \in Uid
  <2>1. r \in Message
    BY DEF Shape, TypeOK, GossipTypeOK
  <2> QED BY <2>1, MessageKinds DEF PaxosAcceptMessage, Value
<1> HIDE DEF u
<1>4. \A e \in Node : rumors[e] \subseteq rumors'[e]
  BY <1>1, HandleQuiet
<1>5. tlcSent[o] \subseteq tlcSent'[o]
  BY HandleSends
<1>6. CASE phaseTwoPeers'[o][u] = phaseTwoPeers[o][u]
  <2>1. phaseTwoPeers[o][u] # {}
    <3>1. ASSUME phaseTwoPeers[o][u] = {} PROVE FALSE
      <4>1. Cardinality({}) = 0
        BY FS_EmptySet
      <4>2. Cardinality({}) >= PaxosThreshold
        BY <1>6, <3>1 DEF u
      <4> QED BY <4>1, <4>2, NodeAssumption
    <3> QED BY <3>1
  <2>2. PICK e \in Node : \E x \in rumors[e] : x.type = "accept" /\ x.val.uid = u
    BY <1>3, <2>1 DEF PeersInv, Acceptors
  <2>3. PICK x \in rumors[e] : x.type = "accept" /\ x.val.uid = u
    BY <2>2
  <2>4. x.step \in tlcSent[o]
    BY <1>6, <2>3 DEF Announces, u
  <2>5. x.step = r.step
    BY <1>2, <1>4, <2>3
  <2> QED BY <1>5, <2>4, <2>5
<1>7. CASE phaseTwoPeers'[o][u] # phaseTwoPeers[o][u]
  <2> DEFINE peers == phaseTwoPeers[n][m.val.uid] \cup {m.src}
  <2>1. HandleAccept(t, n, m, q)
    BY <1>7 DEF Handle, HandlePrepare, HandlePropose, HandlePromise, HandleTLC,
                StoreTLC, AdvanceStep, proposerVars
  <2>2. /\ m.type = "accept"
        /\ phaseTwoPeers' = [phaseTwoPeers EXCEPT ![n][m.val.uid] = peers]
        /\ Decides(peers) => tlcSent' = [tlcSent EXCEPT ![n] = @ \cup {m.step}]
    BY <1>7, <2>1 DEF HandleAccept
  <2> HIDE DEF peers
  <2>3. o = n /\ u = m.val.uid /\ phaseTwoPeers'[o][u] = peers
    BY <1>1, <1>3, <1>7, <2>2 DEF Shape, TypeOK, ProposerTypeOK
  <2>4. Decides(peers)
    BY <2>3 DEF Decides, u
  <2>5. m.step \in tlcSent'[o]
    <3>1. tlcSent' = [tlcSent EXCEPT ![n] = @ \cup {m.step}]
      BY <2>2, <2>4
    <3>2. tlcSent \in [Node -> SUBSET Steps]
      BY DEF Shape, TypeOK, StepTypeOK
    <3> QED BY <1>1, <2>3, <3>1, <3>2
  <2>6. m.step = r.step
    BY <1>1, <1>2, <1>4, <2>2, <2>3
  <2> QED BY <2>5, <2>6
<1> QED BY <1>6, <1>7

LEMMA HandleCallVoted ==
    ASSUME Shape, Shape', Sound, OneStep, Returning, PhaseOneVotes, CallVoted,
           NEW t \in Thread, NEW m \in Message, m \in rumors[m.src], NEW q \in Queues,
           Handle(t, NodeOf(t), m, q)
    PROVE  CallVoted'
<1> DEFINE n == NodeOf(t)
<1>1. n \in Node /\ m.src \in Node /\ UNCHANGED <<pc, current>>
      /\ \A o \in Node : rumors[o] \subseteq rumors'[o]
  <2>1. n \in Node
    BY NodeOfType
  <2> QED BY <2>1, MessageKinds, HandleQuiet
<1>2. \A o \in Node : tlcSent[o] \subseteq tlcSent'[o]
  BY HandleSends
<1>3. \A o \in Node : \A s : /\ Voted(o, s) => Voted(o, s)'
                             /\ HasProposed(o, s) => HasProposed(o, s)'
  BY <1>1 DEF Voted, HasProposed
<1>4. ASSUME NEW c \in Call, pc[c] = "p2", success'[c], ~ success[c]
      PROVE  current[c] \in tlcSent'[CallNode[c]] /\ Voted(CallNode[c], current[c])
  <2>1. HandleAccept(t, n, m, q)
    BY <1>4 DEF Handle, HandlePrepare, HandlePropose, HandlePromise, HandleTLC, PhaseOneCall,
                callVars
  <2> DEFINE peers == phaseTwoPeers[n][m.val.uid] \cup {m.src}
  <2>2. /\ m.type = "accept" /\ m.step = step[n] /\ ~ phaseOne[n]
        /\ c \in PhaseTwoCall(n, m.val.uid)
        /\ tlcSent' = [tlcSent EXCEPT ![n] = @ \cup {m.step}]
    BY <1>4, <2>1 DEF HandleAccept
  <2>3. CallNode[c] = n /\ proposed[c].uid = m.val.uid
    BY <2>2 DEF PhaseTwoCall
  <2>4. ProposedAt(proposed[c].uid, current[c])
    BY <1>4 DEF Returning, CallTold
  <2>5. ProposedAt(m.val.uid, m.step)
    BY <1>1, <2>2 DEF Sound, RumorsSound, SoundMessage, ValueAt
  <2>6. m.step = current[c]
    BY <2>3, <2>4, <2>5 DEF ProposedAt, OneStep
  <2>7. Voted(n, m.step)
    BY <1>1, <2>2 DEF PhaseOneVotes
  <2>8. m.step \in tlcSent'[n]
    BY <1>1, <2>2 DEF Shape, TypeOK, StepTypeOK
  <2> QED BY <2>3, <2>6, <2>7, <2>8
<1> SUFFICES ASSUME NEW c \in Call
             PROVE  /\ pc'[c] \in {"p1", "p2", "wait"} => current'[c] < MaxStep
                    /\ pc'[c] \in {"p2", "wait"} => HasProposed(CallNode[c], current[c])'
                    /\ (pc'[c] = "wait" \/ (pc'[c] = "p2" /\ success'[c]))
                           => /\ current'[c] \in tlcSent'[CallNode[c]]
                              /\ Voted(CallNode[c], current[c])'
  BY DEF CallVoted
<1>5. CallNode[c] \in Node
  BY CallAssumption
<1>6. pc[c] \in {"p2", "wait"} => HasProposed(CallNode[c], current[c])'
  BY <1>1, <1>3, <1>5 DEF CallVoted, HasProposed
<1>7. Voted(CallNode[c], current[c]) => Voted(CallNode[c], current[c])'
  BY <1>1, <1>3, <1>5 DEF Voted
<1>8. (pc[c] = "wait" \/ (pc[c] = "p2" /\ success'[c]))
          => current[c] \in tlcSent'[CallNode[c]] /\ Voted(CallNode[c], current[c])
  BY <1>2, <1>4, <1>5 DEF CallVoted
<1> QED BY <1>1, <1>6, <1>7, <1>8 DEF CallVoted

\* A call sends a prepare or a proposal: nothing is counted or taken.
LEMMA CallSends ==
    ASSUME Shape, FirstHears, ProposerHeard, Follows(net), NEW c \in Call, local[c] = None,
           NEW x \in Message, x.type \in {"prepare", "propose"},
           Broadcast(c, CallNode[c], x, net), step' = step,
           \A o, d \in Node : \A r \in rumors[d] : (r.type = "accept" /\ Voter(o, r.step)) =>
               phaseTwoPeers'[o][r.val.uid] = phaseTwoPeers[o][r.val.uid],
           x.type = "propose" => \A d \in Node : ~ Voted(d, x.step)
    PROVE  FirstHears' /\ ProposerHeard' /\ Follows(net)'
<1> DEFINE n == CallNode[c]
<1>1. n \in Node /\ c \in Thread /\ net \in Queues
  BY CallAssumption DEF Thread, Shape, TypeOK, GossipTypeOK, Queues
<1>2. /\ net' = Enqueue(net, n, x)
      /\ \A u \in Thread : u # c => local'[u] = local[u]
      /\ \A o \in Node : rumors'[o] = IF o = n THEN rumors[o] \cup {x} ELSE rumors[o]
  BY <1>1 DEF Broadcast, Shape, TypeOK, GossipTypeOK
<1>3. \A o \in Node : \A r \in rumors'[o] : r.type = "accept" => r \in rumors[o]
  BY <1>2
<1>4. \A o \in Node : rumors[o] \subseteq rumors'[o]
  BY <1>2
<1>5. \A o \in Node : \A s : Voter(o, s)' <=> Voter(o, s)
  BY <1>3, <1>4 DEF Voter, Voted
<1>6. ASSUME NEW d \in Node, NEW r \in rumors[d], r.type = "accept", NEW o \in Node,
             Voter(o, r.step), Heard(r, o)
      PROVE  Heard(r, o)'
  <2>1. r # None /\ r.src \in Node
    <3>1. r \in Message
      BY DEF Shape, TypeOK, GossipTypeOK
    <3> QED BY <3>1, MessageKinds, NoneAssumption
  <2>2. CASE r.src \in phaseTwoPeers[o][r.val.uid]
    BY <1>6, <2>2 DEF Heard
  <2>3. CASE On(net, r.src, o, r)
    <3>1. On(net', r.src, o, r)
      BY <1>1, <1>2, <2>1, <2>3, EnqueueOn
    <3> QED BY <3>1 DEF Heard
  <2>4. ASSUME NEW t \in Thread, NodeOf(t) = o, local[t] = r PROVE Heard(r, o)'
    <3>1. local'[t] = r
      BY <1>2, <2>1, <2>4
    <3> QED BY <2>4, <3>1 DEF Heard
  <2> QED BY <1>6, <2>2, <2>3, <2>4 DEF Heard
<1>7. ASSUME NEW s, NEW M \in SUBSET Node, NEW o \in Node, Voter(o, s), HearsAll(o, M, s)
      PROVE  HearsAll(o, M, s)'
  <2> SUFFICES ASSUME NEW d \in M, NEW r \in rumors'[d], r.type = "accept", r.step = s
               PROVE  Heard(r, o)'
    BY DEF HearsAll
  <2>1. r \in rumors[d]
    BY <1>3
  <2>2. Heard(r, o) /\ Voter(o, r.step)
    BY <1>7, <2>1 DEF HearsAll
  <2> QED BY <1>6, <2>1, <2>2
<1>8. FirstHears'
  <2> SUFFICES ASSUME NEW s \in Steps, NEW M \in SUBSET Node, M # {},
                      \A o \in M : Voter(o, s)'
               PROVE  \E o \in M : HearsAll(o, M, s)'
    BY DEF FirstHears
  <2>1. \A o \in M : Voter(o, s)
    BY <1>5
  <2>2. PICK o \in M : HearsAll(o, M, s)
    BY <2>1 DEF FirstHears
  <2>3. HearsAll(o, M, s)'
    BY <1>7, <2>1, <2>2
  <2> QED BY <2>3
<1>9. ProposerHeard'
  <2> SUFFICES ASSUME NEW s \in Steps, NEW p \in Node, NEW o \in Node,
                      HasProposed(p, s)', Voter(o, s)'
               PROVE  HearsAll(o, {p}, s)'
    BY DEF ProposerHeard
  <2>1. Voter(o, s)
    BY <1>5
  <2>2. HasProposed(p, s)
    <3>1. ASSUME ~ HasProposed(p, s) PROVE FALSE
      <4>1. PICK r \in rumors'[p] : r.type = "propose" /\ r.step = s
        BY DEF HasProposed
      <4>2. r \notin rumors[p]
        BY <3>1, <4>1 DEF HasProposed
      <4>3. r = x
        BY <1>2, <4>2
      <4> QED BY <2>1, <4>1, <4>3 DEF Voter
    <3> QED BY <3>1
  <2>3. HearsAll(o, {p}, s)
    BY <2>1, <2>2 DEF ProposerHeard
  <2> QED BY <1>7, <2>1, <2>3
<1>10. Follows(net)'
  <2>1. x.type = "propose" => \A r \in rumors[n] : r.type = "accept" => r.step # x.step
    BY <1>1 DEF Voted
  <2> HIDE DEF n
  <2> QED BY <1>1, <1>2, <2>1, FollowsAfter
<1> QED BY <1>8, <1>9, <1>10

\* Nothing was accepted at a step where nothing was proposed.
LEMMA AcceptProposed ==
    ASSUME VotesSent, NEW o \in Node, NEW s, Voted(o, s)
    PROVE  \E n \in Node : HasProposed(n, s)
BY DEF Voted, VotesSent, VoteMessage, Proposal, HasProposed

LEMMA StartHears ==
    ASSUME Shape, Shape', Sole, Votes, PrepareFree, Hearing, NEW c \in Call, StartPhaseOne(c),
           Unrivalled
    PROVE  Hearing'
<1> DEFINE n == CallNode[c]
           id == IF step[n] = previous[c] THEN paxosId[c] + N ELSE PaxosID[n]
           x == [type |-> "prepare", src |-> n, step |-> step[n], id |-> id]
<1>1. /\ n \in Node /\ local[c] = None /\ Broadcast(c, n, x, net)
      /\ UNCHANGED <<step, tlcSent, phaseTwoPeers>>
      /\ phaseOne' = [phaseOne EXCEPT ![n] = TRUE]
      /\ pc' = [pc EXCEPT ![c] = "p1"] /\ current' = [current EXCEPT ![c] = step[n]]
      /\ success' = [success EXCEPT ![c] = FALSE] /\ step[n] < MaxStep
  BY CallAssumption DEF StartPhaseOne, PrepareFree, ResetProposer, stepVars
<1>2. x.type = "prepare"
  OBVIOUS
<1> HIDE DEF x
<1>3. x \in Message
  <2>1. x \in rumors'[n] /\ rumors'[n] \subseteq Message
    BY <1>1 DEF Broadcast, Shape, TypeOK, GossipTypeOK
  <2> QED BY <2>1
<1>4. FirstHears' /\ ProposerHeard' /\ Follows(net)'
  BY <1>1, <1>2, <1>3, CallSends DEF Hearing
<1>5. /\ rumors'[n] = rumors[n] \cup {x}
      /\ \A o \in Node \ {n} : rumors'[o] = rumors[o]
  BY <1>1, BroadcastRumors
<1>6. \A o \in Node : rumors[o] \subseteq rumors'[o]
          /\ \A r \in rumors'[o] : r.type = "accept" => r \in rumors[o]
  BY <1>2, <1>5
<1>7. ~ Voted(n, step[n])
  <2>1. ASSUME Voted(n, step[n]) PROVE FALSE
    <3>1. PICK o \in Node : HasProposed(o, step[n])
      BY <1>1, <2>1, AcceptProposed DEF Votes
    <3>2. PICK r \in rumors[o] : r.type = "propose" /\ r.step = step[n]
      BY <3>1 DEF HasProposed
    <3>3. Prepared(o, r.step, r.id)
      BY <3>2 DEF Sole
    <3> QED BY <3>2, <3>3 DEF Prepared, Unrivalled
  <2> QED BY <2>1
<1>8. PhaseOneVotes'
  <2>1. \A o \in Node : Voted(o, step[o])' <=> Voted(o, step[o])
    BY <1>1, <1>6 DEF Voted
  <2>2. DOMAIN phaseOne = Node
    BY DEF Shape, TypeOK, ProposerTypeOK
  <2> QED BY <1>1, <1>7, <2>1, <2>2 DEF Hearing, PhaseOneVotes
<1>9. Announces'
  BY <1>1, <1>6 DEF Hearing, Announces
<1>10. CallVoted'
  <2>1. \A o \in Node : \A s : /\ Voted(o, s) => Voted(o, s)'
                               /\ HasProposed(o, s) => HasProposed(o, s)'
    BY <1>6 DEF Voted, HasProposed
  <2>2. /\ DOMAIN pc = Call /\ DOMAIN current = Call /\ DOMAIN success = Call
        /\ \A d \in Call : CallNode[d] \in Node
    BY CallAssumption DEF Shape, TypeOK, CallTypeOK
  <2> SUFFICES ASSUME NEW d \in Call
               PROVE  /\ pc'[d] \in {"p1", "p2", "wait"} => current'[d] < MaxStep
                      /\ pc'[d] \in {"p2", "wait"} => HasProposed(CallNode[d], current[d])'
                      /\ (pc'[d] = "wait" \/ (pc'[d] = "p2" /\ success'[d]))
                             => /\ current'[d] \in tlcSent'[CallNode[d]]
                                /\ Voted(CallNode[d], current[d])'
    BY DEF CallVoted
  <2>3. CASE d = c
    BY <1>1, <2>2, <2>3
  <2>4. CASE d # c
    <3>1. pc'[d] = pc[d] /\ current'[d] = current[d] /\ success'[d] = success[d]
      BY <1>1, <2>2, <2>4
    <3>2. /\ HasProposed(CallNode[d], current[d]) => HasProposed(CallNode[d], current[d])'
          /\ Voted(CallNode[d], current[d]) => Voted(CallNode[d], current[d])'
      BY <2>1, <2>2, <3>1 DEF HasProposed, Voted
    <3> QED BY <1>1, <3>1, <3>2 DEF Hearing, CallVoted
  <2> QED BY <2>3, <2>4
<1> QED BY <1>4, <1>8, <1>9, <1>10 DEF Hearing

LEMMA CallProposeHears ==
    ASSUME Shape, Shape', Sound, Sole, Votes, Hearing, NEW c \in Call, Propose(c)
    PROVE  Hearing'
<1> DEFINE n == CallNode[c]
           v == ValueToPropose(c)
           x == [type |-> "propose", src |-> n, step |-> current[c], id |-> paxosId[c],
                 val |-> v]
<1>1. /\ n \in Node /\ local[c] = None /\ Broadcast(c, n, x, net) /\ pc[c] = "p1"
      /\ UNCHANGED <<step, tlcSent, phaseOne, current>>
      /\ phaseTwoPeers' = [phaseTwoPeers EXCEPT ![n][v.uid] = {}]
      /\ pc' = [pc EXCEPT ![c] = "p2"] /\ success' = [success EXCEPT ![c] = FALSE]
  BY CallAssumption DEF Propose, stepVars, loopVars
<1>2. x.type = "propose" /\ x.step = current[c]
  OBVIOUS
<1> HIDE DEF x, v
<1>3. x \in Message
  <2>1. x \in rumors'[n] /\ rumors'[n] \subseteq Message
    BY <1>1 DEF Broadcast, Shape, TypeOK, GossipTypeOK
  <2> QED BY <2>1
<1>4. current[c] = step[n] /\ \A o \in Node : ~ Voted(o, current[c])
  <2>1. \A o \in Node : ~ HasProposed(o, current[c])
    BY <1>1 DEF Sole, HasProposed
  <2> QED BY <1>1, <2>1, SoleFresh, AcceptProposed DEF Votes
<1>5. phaseTwoPeers \in [Node -> [Uid -> SUBSET Node]]
  BY DEF Shape, TypeOK, ProposerTypeOK
<1>6. /\ rumors'[n] = rumors[n] \cup {x}
      /\ \A o \in Node \ {n} : rumors'[o] = rumors[o]
  BY <1>1, BroadcastRumors
<1>7. \A o \in Node : rumors[o] \subseteq rumors'[o]
          /\ \A r \in rumors'[o] : r.type = "accept" => r \in rumors[o]
  BY <1>2, <1>6
<1>8. FirstHears' /\ ProposerHeard' /\ Follows(net)'
  <2>1. \A o, d \in Node : \A r \in rumors[d] : (r.type = "accept" /\ Voter(o, r.step)) =>
               phaseTwoPeers'[o][r.val.uid] = phaseTwoPeers[o][r.val.uid]
    <3> SUFFICES ASSUME NEW o \in Node, NEW d \in Node, NEW r \in rumors[d],
                        r.type = "accept", Voter(o, r.step)
                 PROVE  phaseTwoPeers'[o][r.val.uid] = phaseTwoPeers[o][r.val.uid]
      OBVIOUS
    <3>1. o # n
      BY <1>4 DEF Voter
    <3> QED BY <1>1, <1>5, <3>1
  <2> HIDE DEF n
  <2>2. \A d \in Node : ~ Voted(d, x.step)
    BY <1>2, <1>4
  <2> QED BY <1>1, <1>2, <1>3, <2>1, <2>2, CallSends DEF Hearing, n
<1>9. PhaseOneVotes'
  <2>1. \A o \in Node : Voted(o, step[o])' <=> Voted(o, step[o])
    BY <1>1, <1>7 DEF Voted
  <2> QED BY <1>1, <2>1 DEF Hearing, PhaseOneVotes
<1>10. Announces'
  <2> SUFFICES ASSUME NEW o \in Node, NEW d \in Node, NEW r \in rumors'[d],
                      r.type = "accept",
                      Cardinality(phaseTwoPeers'[o][r.val.uid]) >= PaxosThreshold
               PROVE  r.step \in tlcSent'[o]
    BY DEF Announces
  <2>1. r \in rumors[d] /\ r.val.uid \in Uid
    <3>1. r \in rumors[d]
      BY <1>7
    <3>2. r \in Message
      BY <3>1 DEF Shape, TypeOK, GossipTypeOK
    <3> QED BY <3>1, <3>2, MessageKinds DEF PaxosAcceptMessage, Value
  <2>2. CASE o = n /\ r.val.uid = v.uid
    <3>1. phaseTwoPeers'[o][r.val.uid] = {}
      BY <1>1, <1>5, <2>1, <2>2
    <3>2. Cardinality({}) = 0
      BY FS_EmptySet
    <3>3. 0 >= PaxosThreshold
      BY <3>1, <3>2
    <3> QED BY <3>3, NodeAssumption
  <2>3. CASE ~ (o = n /\ r.val.uid = v.uid)
    <3>1. phaseTwoPeers'[o][r.val.uid] = phaseTwoPeers[o][r.val.uid]
      BY <1>1, <1>5, <2>1, <2>3
    <3>2. Cardinality(phaseTwoPeers[o][r.val.uid]) >= PaxosThreshold
      BY <3>1
    <3> QED BY <1>1, <2>1, <3>2 DEF Hearing, Announces
  <2> QED BY <2>2, <2>3
<1>11. CallVoted'
  <2>1. \A o \in Node : \A s : /\ Voted(o, s) => Voted(o, s)'
                               /\ HasProposed(o, s) => HasProposed(o, s)'
    BY <1>7 DEF Voted, HasProposed
  <2>2. /\ DOMAIN pc = Call /\ DOMAIN success = Call
        /\ \A d \in Call : CallNode[d] \in Node
    BY CallAssumption DEF Shape, TypeOK, CallTypeOK
  <2> SUFFICES ASSUME NEW d \in Call
               PROVE  /\ pc'[d] \in {"p1", "p2", "wait"} => current'[d] < MaxStep
                      /\ pc'[d] \in {"p2", "wait"} => HasProposed(CallNode[d], current[d])'
                      /\ (pc'[d] = "wait" \/ (pc'[d] = "p2" /\ success'[d]))
                             => /\ current'[d] \in tlcSent'[CallNode[d]]
                                /\ Voted(CallNode[d], current[d])'
    BY DEF CallVoted
  <2>3. CASE d = c
    <3>1. current'[d] < MaxStep
      BY <1>1, <2>3 DEF Hearing, CallVoted
    <3>2. HasProposed(CallNode[d], current[d])'
      BY <1>1, <1>2, <1>6, <2>3 DEF HasProposed
    <3>3. pc'[d] = "p2" /\ ~ success'[d]
      BY <1>1, <2>2, <2>3
    <3> QED BY <3>1, <3>2, <3>3
  <2>4. CASE d # c
    <3>1. pc'[d] = pc[d] /\ current'[d] = current[d] /\ success'[d] = success[d]
      BY <1>1, <2>2, <2>4
    <3>2. /\ HasProposed(CallNode[d], current[d]) => HasProposed(CallNode[d], current[d])'
          /\ Voted(CallNode[d], current[d]) => Voted(CallNode[d], current[d])'
      BY <1>7, <2>2, <3>1 DEF HasProposed, Voted
    <3> QED BY <1>1, <3>1, <3>2 DEF Hearing, CallVoted
  <2> QED BY <2>3, <2>4
<1> QED BY <1>8, <1>9, <1>10, <1>11 DEF Hearing

\* What is heard stays when nothing moves but a call.
LEMMA KeepHearing ==
    ASSUME Shape, Hearing,
           UNCHANGED <<step, tlcSent, phaseOne, phaseTwoPeers, local, net, rumors, current,
                       success>>,
           \A c \in Call : /\ pc'[c] \in {"p1", "p2"} => pc'[c] = pc[c]
                           /\ pc'[c] = "wait" => pc[c] = "wait" \/ (pc[c] = "p2" /\ success[c])
    PROVE  Hearing'
<1>1. /\ \A o, s : /\ Voted(o, s)' <=> Voted(o, s)
                   /\ Voter(o, s)' <=> Voter(o, s)
                   /\ HasProposed(o, s)' <=> HasProposed(o, s)
      /\ \A r, o : Heard(r, o)' <=> Heard(r, o)
  BY DEF Voted, Voter, HasProposed, Heard, On
<1>2. \A o, M, s : HearsAll(o, M, s)' <=> HearsAll(o, M, s)
  BY <1>1 DEF HearsAll
<1>3. FirstHears' /\ ProposerHeard'
  BY <1>1, <1>2 DEF Hearing, FirstHears, ProposerHeard
<1>4. Follows(net)'
  BY DEF Hearing, Follows
<1>5. PhaseOneVotes'
  <2>1. \A o : Voted(o, step[o])' <=> Voted(o, step[o])
    BY DEF Voted
  <2> QED BY <2>1 DEF Hearing, PhaseOneVotes
<1>6. Announces'
  BY DEF Hearing, Announces
<1>7. CallVoted'
  <2>1. \A c : /\ HasProposed(CallNode[c], current[c])' <=> HasProposed(CallNode[c], current[c])
               /\ Voted(CallNode[c], current[c])' <=> Voted(CallNode[c], current[c])
    BY DEF HasProposed, Voted
  <2> QED BY <2>1 DEF Hearing, CallVoted
<1> QED BY <1>3, <1>4, <1>5, <1>6, <1>7 DEF Hearing

LEMMA CallHears ==
    ASSUME Shape, Shape', Sound, Sole, Votes, PrepareFree, Hearing, NEW c \in Call,
           CallStep(c), Unrivalled
    PROVE  Hearing'
<1>1. CASE CallMoves(c)
  <2>1. UNCHANGED <<step, tlcSent, phaseOne, phaseTwoPeers, local, net, rumors, current,
                    success>>
    BY <1>1, CallMovesKeep DEF gossipVars, proposerVars
  <2>2. \A d \in Call : /\ pc'[d] \in {"p1", "p2"} => pc'[d] = pc[d]
                        /\ pc'[d] = "wait" => pc[d] = "wait" \/ (pc[d] = "p2" /\ success[d])
    BY <1>1 DEF CallMoves, BeginCall, CheckName, Timeout, Accepted, Return, Shape, TypeOK,
                CallTypeOK
  <2> QED BY <2>1, <2>2, KeepHearing
<1> QED BY <1>1, StartHears, CallProposeHears DEF CallStep, CallMoves

LEMMA HandleHears ==
    ASSUME Shape, Shape', Backed, AcceptorInv, Sound, Sound', OneStep, OneStep', Returning,
           Sole, Hearing, NEW t \in Thread, NEW m \in Message, m \in rumors[m.src],
           NEW q \in Queues, Takes(t, m, q), Behind(NodeOf(t), m, q), Follows(q),
           Handle(t, NodeOf(t), m, q)
    PROVE  Hearing'
<1>1. FirstHears'
  BY HandleFirst DEF Hearing, Backed
<1>2. ProposerHeard'
  BY HandleProposer DEF Hearing, Backed
<1>3. Follows(net)'
  BY HandleFollows
<1>4. PhaseOneVotes'
  BY HandlePhaseOne DEF Hearing
<1>5. Announces'
  BY HandleAnnounces DEF Hearing, Backed
<1>6. CallVoted'
  BY HandleCallVoted DEF Hearing
<1> QED BY <1>1, <1>2, <1>3, <1>4, <1>5, <1>6 DEF Hearing

LEMMA InitHearing == Init => Hearing
<1> SUFFICES ASSUME Init PROVE Hearing
  OBVIOUS
<1>1. /\ \A o \in Node : rumors[o] = {} /\ phaseOne[o]
      /\ \A o, d \in Node : net[o][d] = << >>
      /\ \A c \in Call : pc[c] = "idle"
  BY DEF Init, InitButRumors
<1>2. \A o \in Node : \A s : ~ Voted(o, s) /\ ~ HasProposed(o, s)
  BY <1>1 DEF Voted, HasProposed
<1>3. FirstHears /\ ProposerHeard
  BY <1>2 DEF FirstHears, ProposerHeard, Voter
<1>4. Follows(net) /\ Announces
  BY <1>1 DEF Follows, Announces
<1>5. PhaseOneVotes
  BY <1>1, <1>2 DEF PhaseOneVotes
<1>6. CallVoted
  BY <1>1 DEF CallVoted
<1> QED BY <1>3, <1>4, <1>5, <1>6 DEF Hearing

LEMMA VotesInvariant == Spec => []Votes
<1>1. Shape /\ GossipInv /\ AcceptorInv /\ Votes /\ [Next]_vars => Votes'
  <2> SUFFICES ASSUME Shape, GossipInv, AcceptorInv, Votes, [Next]_vars PROVE Votes'
    OBVIOUS
  <2>1. ASSUME NEW o \in Node, NEW d \in Node, Receive(o, d) PROVE Votes'
    <3>1. Head(net[o][d]) \in Message
      BY <2>1, ReceiveMessage DEF Receive, Shape, TypeOK
    <3>2. Head(net[o][d]) \in rumors[Head(net[o][d]).src]
      <4>1. net[o][d] \in Seq(Message) /\ net[o][d] # << >>
        BY <2>1 DEF Receive, Shape, TypeOK, GossipTypeOK
      <4>2. 1 \in 1 .. Len(net[o][d]) /\ Head(net[o][d]) = net[o][d][1]
        BY <4>1
      <4> QED BY <4>2 DEF GossipInv, Known
    <3> QED BY <2>1, <3>1, <3>2, HandleVotes DEF Receive
  <2>2. ASSUME NEW t \in Thread, ProcessLocal(t) PROVE Votes'
    <3>1. local[t] \in Message /\ NodeOf(t) \in Node
      BY <2>2, LocalMessage DEF ProcessLocal, Shape, TypeOK
    <3>2. local[t] \in rumors[local[t].src]
      BY <2>2, <3>1 DEF ProcessLocal, GossipInv
    <3> QED BY <2>2, <3>1, <3>2, HandleVotes DEF ProcessLocal
  <2>3. ASSUME NEW c \in Call, CallStep(c) PROVE Votes'
    BY <2>3, CallVotes
  <2>4. CASE UNCHANGED vars
    <3>1. UNCHANGED <<step, acceptedId, acceptedValue, highestAcceptedId,
                      highestAcceptedValue, rumors>>
      BY <2>4 DEF vars, stepVars, acceptorVars, proposerVars, highestVars, gossipVars
    <3> QED BY <3>1, KeepVotes
  <2> QED BY <2>1, <2>2, <2>3, <2>4 DEF Next
<1>2. Shape /\ Backed /\ Faithful => GossipInv /\ AcceptorInv
  BY DEF Backed, Faithful
<1>3. Init => Votes
  BY InitPaxos DEF Paxos
<1> QED BY <1>1, <1>2, <1>3, ShapeInvariant, BackedInvariant, FaithfulInvariant, PTL DEF Spec

LEMMA HearingInvariant == Spec /\ [][Unrivalled]_vars => []Hearing
<1> DEFINE Facts == /\ Shape /\ Backed /\ AcceptorInv /\ Sound /\ OneStep /\ Returning
                     /\ Sole /\ Votes /\ PrepareFree
<1>1. Facts /\ Facts' /\ Hearing /\ [Next]_vars /\ [Unrivalled]_vars => Hearing'
  <2> SUFFICES ASSUME Facts, Facts', Hearing, [Next]_vars, [Unrivalled]_vars PROVE Hearing'
    OBVIOUS
  <2>1. ASSUME NEW o \in Node, NEW d \in Node, Receive(o, d) PROVE Hearing'
    <3> DEFINE m == Head(net[o][d])
               q == [net EXCEPT ![o][d] = Tail(@)]
    <3>1. local[d] = None /\ net[o][d] # << >> /\ Handle(d, d, m, q)
      BY <2>1 DEF Receive
    <3>2. m \in Message /\ q \in Queues /\ d \in Thread /\ NodeOf(d) = d
      BY <3>1, ReceiveMessage DEF Shape, TypeOK
    <3>3. m \in rumors[m.src]
      <4>1. net[o][d] \in Seq(Message)
        BY DEF Shape, TypeOK, GossipTypeOK
      <4>2. 1 \in 1 .. Len(net[o][d]) /\ m = net[o][d][1]
        BY <3>1, <4>1
      <4> QED BY <4>2 DEF Backed, GossipInv, Known
    <3>4. Takes(d, m, q)
      BY <3>1, ReceiveTakes
    <3>5. Follows(q) /\ Behind(NodeOf(d), m, q)
      BY <3>1, <3>2, ReceiveFollows DEF Backed, Hearing
    <3> HIDE DEF m, q
    <3> QED BY <3>1, <3>2, <3>3, <3>4, <3>5, HandleHears
  <2>2. ASSUME NEW t \in Thread, ProcessLocal(t) PROVE Hearing'
    <3>1. local[t] # None /\ Handle(t, NodeOf(t), local[t], net)
      BY <2>2 DEF ProcessLocal
    <3>2. local[t] \in Message /\ net \in Queues
      BY <3>1, LocalMessage DEF Shape, TypeOK
    <3>3. local[t].src = NodeOf(t) /\ local[t] \in rumors[local[t].src]
      BY <3>1, NodeOfType DEF Backed, GossipInv
    <3>4. Takes(t, local[t], net)
      BY <3>1, LocalTakes
    <3>5. Behind(NodeOf(t), local[t], net)
      BY <3>3 DEF Behind
    <3> QED BY <3>1, <3>2, <3>3, <3>4, <3>5, HandleHears DEF Hearing
  <2>3. CASE UNCHANGED vars
    <3>1. UNCHANGED <<step, tlcSent, phaseOne, phaseTwoPeers, local, net, rumors, current,
                      success, pc>>
      BY <2>3 DEF vars, stepVars, proposerVars, callVars, loopVars, gossipVars
    <3> QED BY <3>1, KeepHearing
  <2>4. ASSUME NEW c \in Call, CallStep(c), Unrivalled PROVE Hearing'
    BY <2>4, CallHears
  <2> QED BY <2>1, <2>2, <2>3, <2>4 DEF Next
<1>2. Faithful /\ Flight => AcceptorInv /\ PrepareFree
  BY DEF Faithful, Flight
<1>3. Shape /\ Sound /\ Sole => [FreshProposals]_vars
  BY SoleFresh DEF FreshProposals, Propose
<1>4. Spec /\ [][Unrivalled]_vars => []OneStep
  BY <1>3, ShapeInvariant, SoundInvariant, SoleInvariant, OneStepInvariant, PTL
<1> QED BY <1>1, <1>2, <1>4, InitHearing, ShapeInvariant, BackedInvariant, FaithfulInvariant,
           SoundInvariant, ReturningInvariant, SoleInvariant, VotesInvariant, FlightInvariant,
           PTL DEF Spec

-----------------------------------------------------------------------------
(* Calls that wait                                                         *)

\* As many peers have accepted the value of a waiting call as it takes for a
\* threshold of them to hear a threshold: twice the threshold but two.
WellAccepted ==
    \A c \in Call : pc[c] = "wait" =>
        Cardinality(Acceptors(<<c, attempt[c]>>)) >= 2 * PaxosThreshold - 2

\* A call that waits when nothing is on its way: its node has left the step.
LEMMA WaitLeft ==
    ASSUME Shape, Backed, Sound, OneStep, Returning, Sole, VotesSent, Flight, ClocksMeet,
           ClockAdvanced, Hearing, Quiet, NEW c \in Call, pc[c] = "wait",
           Cardinality(Acceptors(<<c, attempt[c]>>)) >= 2 * PaxosThreshold - 2
    PROVE  current[c] < step[CallNode[c]]
<1> DEFINE p == CallNode[c]
           s == current[c]
           u == <<c, attempt[c]>>
           A == Acceptors(u)
           M == A \ Announcers(s)
<1>1. /\ p \in Node /\ s \in Steps /\ step[p] \in Nat /\ s \in Nat /\ s <= step[p]
      /\ s < MaxStep /\ PaxosThreshold \in Nat \ {0}
  BY CallAssumption, BoundAssumption, NodeAssumption
     DEF Shape, TypeOK, StepTypeOK, CallTypeOK, Steps, Sound, CurrentPast, Hearing, CallVoted
<1> SUFFICES ASSUME step[p] = s PROVE FALSE
  BY <1>1
<1>2. \A o \in Node : step[o] = s
  BY <1>1 DEF ClocksMeet
<1>3. HasProposed(p, s) /\ s \in tlcSent[p] /\ Voted(p, s)
  BY DEF Hearing, CallVoted
<1>4. OwnDecided(c) /\ u \in Uid
  <2>1. attempt[c] > 0 /\ attempt[c] \in 1 .. MaxAttempt
    BY BoundAssumption DEF Returning, CallTold, Shape, TypeOK, CallTypeOK
  <2> QED BY <2>1 DEF Returning, CallTold, Uid
<1> HIDE DEF p, s, u
<1>5. ProposedAt(u, s) /\ Told(u)
  BY <1>4 DEF OwnDecided, u, s
<1>6. Cardinality(A) >= PaxosThreshold /\ Cardinality(A) >= 2 * PaxosThreshold - 2
  BY <1>5 DEF Told, Backed, DecisionBacked, u
\* The peers that have accepted the value did so at this step, and nothing else.
<1>7. \A o \in A : Voter(o, s)
  <2> SUFFICES ASSUME NEW o \in A PROVE Voter(o, s)
    OBVIOUS
  <2>1. PICK r \in rumors[o] : r.type = "accept" /\ r.val.uid = u
    BY DEF Acceptors
  <2>2. o \in Node /\ ProposedAt(u, r.step)
    BY <2>1 DEF Acceptors, Sound, RumorsSound, SoundMessage, ValueAt
  <2>3. r.step = s
    BY <1>5, <2>2 DEF ProposedAt, OneStep
  <2> QED BY <1>2, <2>1, <2>2, <2>3 DEF Voter, Voted
<1>8. \A o \in Node : \A r \in rumors[o] : (r.type = "accept" /\ r.step = s) => r.val.uid = u
  <2> SUFFICES ASSUME NEW o \in Node, NEW r \in rumors[o], r.type = "accept", r.step = s
               PROVE  r.val.uid = u
    OBVIOUS
  <2>1. Proposal(s, r.id, r.val)
    BY DEF VotesSent, VoteMessage
  <2>2. PICK n \in Node : \E x \in rumors[n] :
            x.type = "propose" /\ x.step = s /\ x.val = r.val
    BY <2>1 DEF Proposal
  <2>3. PICK x \in rumors[n] : x.type = "propose" /\ x.step = s /\ x.val = r.val
    BY <2>2
  <2>4. PICK l \in Node : \E y \in rumors[l] :
            y.type = "propose" /\ y.step = s /\ y.val.uid = u
    BY <1>5 DEF ProposedAt
  <2>5. PICK y \in rumors[l] : y.type = "propose" /\ y.step = s /\ y.val.uid = u
    BY <2>4
  <2>6. x = y
    BY <2>3, <2>5 DEF Sole
  <2> QED BY <2>3, <2>5, <2>6
\* When nothing is on its way, what a peer hears it has counted.
<1>9. ASSUME NEW o \in Node, NEW K \in SUBSET Node, HearsAll(o, K, s),
             NEW d \in K, Voted(d, s)
      PROVE  d \in phaseTwoPeers[o][u]
  <2>1. PICK r \in rumors[d] : r.type = "accept" /\ r.step = s
    BY <1>9 DEF Voted
  <2>2. Heard(r, o) /\ r.val.uid = u /\ r.src = d /\ r # None
    <3>1. r \in Message /\ r.src = d
      BY <2>1 DEF Backed, GossipInv, Shape, TypeOK, GossipTypeOK
    <3> QED BY <1>8, <1>9, <2>1, <3>1, NoneAssumption DEF HearsAll
  <2>3. ~ On(net, r.src, o, r)
    <3>1. net[d][o] = << >>
      BY DEF Quiet
    <3>2. Len(net[d][o]) = 0
      BY <3>1
    <3>3. 1 .. 0 = {}
      OBVIOUS
    <3> QED BY <2>2, <3>2, <3>3 DEF On
  <2> QED BY <2>2, <2>3 DEF Heard, Quiet
<1>10. IsFiniteSet(A) /\ A \in SUBSET Node /\ Cardinality(A) \in Nat
  BY AcceptorsFinite, FS_CardinalityType
<1> HIDE DEF A
<1>11. /\ IsFiniteSet(M) /\ M \subseteq A /\ Cardinality(M) \in Nat /\ p \notin M
       /\ IsFiniteSet(Announcers(s)) /\ Cardinality(Announcers(s)) \in Nat
  <2>1. p \in Announcers(s)
    BY <1>1, <1>3 DEF Announcers
  <2> QED BY <1>10, <2>1, FS_Subset, FS_CardinalityType, AnnouncersFinite
\* The peers that have accepted and sent nothing are few.
<1>12. M = {} \/ Cardinality(M) <= PaxosThreshold - 2
  <2> SUFFICES ASSUME M # {} PROVE Cardinality(M) <= PaxosThreshold - 2
    OBVIOUS
  <2>1. M \in SUBSET Node /\ \A o \in M : Voter(o, s)
    BY <1>7, <1>10
  <2> HIDE DEF M
  <2>2. PICK o \in M : HearsAll(o, M, s)
    BY <1>1, <2>1 DEF Hearing, FirstHears
  <2>3. o \in Node /\ Voter(o, s) /\ HearsAll(o, {p}, s)
    BY <1>1, <1>3, <2>1 DEF Hearing, ProposerHeard
  <2>4. M \subseteq phaseTwoPeers[o][u]
    BY <1>9, <2>1, <2>2, <2>3 DEF Voter
  <2>5. p \in phaseTwoPeers[o][u]
    BY <1>1, <1>3, <1>9, <2>3
  <2> DEFINE P == phaseTwoPeers[o][u]
  <2>6. IsFiniteSet(P) /\ Cardinality(P) \in Nat
    <3>1. P \in SUBSET Node
      BY <1>4, <2>3 DEF Shape, TypeOK, ProposerTypeOK
    <3> QED BY <3>1, NodeAssumption, FS_Subset, FS_CardinalityType
  <2>7. Cardinality(P) < PaxosThreshold
    <3>1. PICK r \in rumors[o] : r.type = "accept" /\ r.step = s
      BY <2>3 DEF Voter, Voted
    <3>2. r.val.uid = u
      BY <1>8, <2>3, <3>1
    <3>3. s \notin tlcSent[o]
      BY <2>2, <2>3 DEF M, Announcers
    <3>4. ~ (Cardinality(P) >= PaxosThreshold)
      BY <2>3, <3>1, <3>2, <3>3 DEF Hearing, Announces
    <3> QED BY <1>1, <2>6, <3>4
  <2> HIDE DEF P
  <2>8. Cardinality(M \cup {p}) = Cardinality(M) + 1
    BY <1>11, FS_AddElement
  <2>9. Cardinality(M \cup {p}) <= Cardinality(P)
    <3>1. M \cup {p} \subseteq P
      BY <2>4, <2>5 DEF P
    <3> QED BY <2>6, <3>1, FS_Subset
  <2> QED BY <1>1, <1>11, <2>6, <2>7, <2>8, <2>9
<1>13. Cardinality(Announcers(s)) >= PaxosThreshold
  <2>1. A \ M \subseteq Announcers(s)
    OBVIOUS
  <2>2. Cardinality(A \ M) = Cardinality(A) - Cardinality(M)
    <3>1. A \cap M = M
      BY <1>11
    <3>2. Cardinality(A \ M) = Cardinality(A) - Cardinality(A \cap M)
      BY <1>10, <1>11, FS_Difference
    <3> QED BY <3>1, <3>2
  <2>3. Cardinality(A \ M) <= Cardinality(Announcers(s))
    BY <1>11, <2>1, FS_Subset
  <2>4. M = {} => Cardinality(M) = 0
    BY FS_EmptySet
  <2> HIDE DEF M
  <2> QED BY <1>1, <1>6, <1>10, <1>11, <1>12, <2>2, <2>3, <2>4
<1>14. Len(tlc[p][s]) >= PaxosThreshold
  <2>1. Cardinality(Announcers(s)) <= Len(tlc[p][s])
    BY <1>1, QuietCounts
  <2>2. Len(tlc[p][s]) \in Nat
    BY <1>1, LengthNat
  <2> QED BY <1>1, <1>11, <1>13, <2>1, <2>2
<1>15. Len(tlc[p][s]) < PaxosThreshold
  BY <1>1 DEF ClockAdvanced
<1>16. Len(tlc[p][s]) \in Nat
  BY <1>1, LengthNat
<1> QED BY <1>1, <1>14, <1>15, <1>16

\* Once every rumor is processed, no call waits at the step of its node's clock.
ClockMoves ==
    Quiet => \A c \in Call : pc[c] = "wait" => current[c] < step[CallNode[c]]

\* No deadlock of the clock: if no two iterations of Tag start at the same step,
\* and enough peers have accepted the values of the calls that wait, each of
\* these peers has announced the decision or the clock would have moved.
THEOREM ClockMovesOn ==
    Spec /\ [][Unrivalled]_vars => [](WellAccepted => ClockMoves)
<1>1. Shape /\ Backed /\ Sound /\ OneStep /\ Returning /\ Sole /\ Votes /\ Flight
          /\ ClocksMeet /\ ClockAdvanced /\ Hearing => (WellAccepted => ClockMoves)
  BY WaitLeft DEF WellAccepted, ClockMoves, Votes
<1>2. Shape /\ Sound /\ Sole => [FreshProposals]_vars
  BY SoleFresh DEF FreshProposals, Propose
<1>3. Spec /\ [][Unrivalled]_vars => []OneStep
  BY <1>2, ShapeInvariant, SoundInvariant, SoleInvariant, OneStepInvariant, PTL
<1> QED BY <1>1, <1>3, ShapeInvariant, BackedInvariant, SoundInvariant, ReturningInvariant,
           SoleInvariant, VotesInvariant, FlightInvariant, ClocksAgree, ClockNeverBehind,
           HearingInvariant, PTL

\* If, besides, clocks leave one step at a time, no call is left waiting when
\* every rumor is processed: its node has left the step and the token is there.
THEOREM WaitsEnd ==
    Spec /\ [][Unrivalled]_vars /\ [][NoJump]_vars => [](WellAccepted => NoStuckWait)
<1>1. Shape /\ NoLostWakeup /\ ClockMoves => NoStuckWait
  <2> SUFFICES ASSUME Shape, NoLostWakeup, ClockMoves, Quiet, NEW c \in Call, pc[c] = "wait"
               PROVE  current[c] \in finished[CallNode[c]]
    BY DEF NoStuckWait
  <2>1. current[c] < step[CallNode[c]]
    BY DEF ClockMoves
  <2>2. current[c] \in Nat /\ step[CallNode[c]] \in Nat
    BY CallAssumption, BoundAssumption DEF Shape, TypeOK, StepTypeOK, CallTypeOK, Steps
  <2> QED BY <2>1, <2>2 DEF NoLostWakeup
<1>2. Shape /\ Sound /\ Sole => [FreshProposals]_vars
  BY SoleFresh DEF FreshProposals, Propose
<1>3. Shape /\ Sound /\ Sole => DecidedOnce
  BY SoleDecides
<1>4. Spec /\ [][Unrivalled]_vars /\ [][NoJump]_vars => []NoLostWakeup
  BY <1>2, <1>3, ShapeInvariant, SoundInvariant, SoleInvariant, WakeupsKept, PTL
<1> QED BY <1>1, <1>4, ShapeInvariant, ClockMovesOn, PTL

\* Where two peers decide, whatever the number of peers, enough have accepted:
\* what was announced was accepted by a threshold.
THEOREM PairsNeverWait ==
    ASSUME PaxosThreshold <= 2
    PROVE  Spec /\ [][Unrivalled]_vars /\ [][NoJump]_vars => []NoStuckWait
<1>1. Backed /\ Returning => WellAccepted
  <2> SUFFICES ASSUME Backed, Returning, NEW c \in Call, pc[c] = "wait"
               PROVE  Cardinality(Acceptors(<<c, attempt[c]>>)) >= 2 * PaxosThreshold - 2
    BY DEF WellAccepted
  <2>1. Told(<<c, attempt[c]>>)
    BY DEF Returning, CallTold, OwnDecided
  <2>2. Cardinality(Acceptors(<<c, attempt[c]>>)) >= PaxosThreshold
    BY <2>1 DEF Told, Backed, DecisionBacked
  <2>3. Cardinality(Acceptors(<<c, attempt[c]>>)) \in Nat
    BY AcceptorsFinite, FS_CardinalityType
  <2>4. PaxosThreshold \in Nat
    BY NodeAssumption
  <2> QED BY <2>2, <2>3, <2>4
<1> QED BY <1>1, BackedInvariant, ReturningInvariant, WaitsEnd, PTL

=============================================================================
