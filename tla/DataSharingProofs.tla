-------------------------- MODULE DataSharingProofs --------------------------
(***************************************************************************)
(* Theorems about module DataSharing, for any peers, files, routes, calls  *)
(* and budgets.  A packet in flight says only what is so: answers name     *)
(* blobs that their peer holds or has held, and data is the part that was  *)
(* asked for.  What requests in flight may still spend, and what was asked *)
(* under an identifier, stay within the budget of its attempt together.    *)
(***************************************************************************)
EXTENDS DataSharing, FiniteSetTheorems, TLAPS

\* What the call d asks for under the id <<d, i>>.
Asked(id) == Wanted(id[1])[id[2]]

Honest(p) ==
    /\ p.type = "reply" => \A f \in p.files : \A k \in Keys(f) : HasHeld(p.src, k)
    /\ p.type = "get" => p.key = Asked(p.id)
    /\ p.type = "data" => p.value \in {None, Asked(p.id)}

FlightHonest == \A p \in flight : Honest(p)

\* A call of Download that waits has asked a peer it can reach for its next part.
Expects(d) ==
    download[d].stage = "wait" =>
        /\ download[d].from \in Node /\ Route[By(d)][download[d].from] # None
        /\ download[d].attempt < Backoff
        /\ Part(d) <= Len(Wanted(d))
        /\ replies[d] \subseteq {None, Wanted(d)[Part(d)]}

Waiting == \A d \in Download : Expects(d)

InOrder(d) ==
    /\ Len(download[d].got) <= Len(Wanted(d))
    /\ \A i \in DOMAIN download[d].got : download[d].got[i] = Wanted(d)[i]

Inv == TypeOK /\ Waiting /\ FlightHonest /\ PartsInOrder /\ CatalogHonest /\ WholeFiles

-----------------------------------------------------------------------------
(* Operators                                                               *)

LEMMA SharesType ==
    ASSUME NEW total \in Nat, NEW S \in SUBSET Node,
           NEW share \in Shares(total, S)
    PROVE  DOMAIN share \subseteq S /\ share \in [DOMAIN share -> Nat]
<1>1. IsFiniteSet(S) /\ Cardinality(S) \in Nat /\ (S # {} => Cardinality(S) # 0)
  BY NodeAssumption, FS_Subset, FS_EmptySet, FS_CardinalityType
<1>2. CASE total <= Cardinality(S)
  <2>1. PICK T \in kSubset(total, S) : share = [m \in T |-> 1]
    BY <1>2 DEF Shares
  <2>2. T \subseteq S
    BY DEF kSubset
  <2>. QED
    BY <2>1, <2>2
<1>3. CASE ~(total <= Cardinality(S))
  <2>1. PICK T : share = [m \in S |-> (total \div Cardinality(S)) + (IF m \in T THEN 1 ELSE 0)]
    BY <1>3 DEF Shares
  <2>2. S # {} => total \div Cardinality(S) \in Nat
    BY <1>1
  <2>. QED
    BY <2>1, <2>2
<1>. QED
  BY <1>2, <1>3

LEMMA RequestsType ==
    ASSUME NEW n \in Node, NEW id \in SearchId, NEW S \in SUBSET Node, NEW share,
           DOMAIN share \subseteq S, share \in [DOMAIN share -> Nat]
    PROVE  /\ Requests(n, id, share) \in SUBSET SearchRequestMessage
           /\ \A p \in Requests(n, id, share) : p.type = "request"
BY DEF Requests, SearchRequestMessage

LEMMA CountType ==
    ASSUME TypeOK, NEW id \in SearchId, NEW S \in SUBSET Node, NEW share, DOMAIN share \subseteq S
    PROVE  Count(id, share) \in [Search -> [0 .. Retry - 1 -> Nat]]
<1>1. Cardinality(DOMAIN share) \in Nat
  BY NodeAssumption, FS_Subset, FS_CardinalityType
<1>2. id[1] \in Search /\ id[2] \in 0 .. Retry - 1
  BY DEF SearchId
<1>3. asked[id[1]] \in [0 .. Retry - 1 -> Nat] /\ asked[id[1]][id[2]] \in Nat
  BY <1>2 DEF TypeOK
<1>. DEFINE row == [asked[id[1]] EXCEPT ![id[2]] = @ + Cardinality(DOMAIN share)]
<1>4. row \in [0 .. Retry - 1 -> Nat]
  BY <1>1, <1>2, <1>3
<1>5. Count(id, share) = [asked EXCEPT ![id[1]] = row]
  BY <1>2, <1>3 DEF Count, TypeOK
<1>. HIDE DEF row
<1>. QED
  BY <1>2, <1>4, <1>5 DEF TypeOK

LEMMA FileTypes ==
    /\ \A x \in Name : Meta(x) \in Key /\ Chunks(x) \subseteq Key
    /\ \A d \in Download : By(d) \in Node /\ Wanted(d) \in Seq(Key)
BY StoreAssumption, CallAssumption DEF Meta, Chunks, By, Wanted

\* What a peer holds, or held until an update, is never lost again.
LEMMA HasHeldStable ==
    ASSUME NEW m, NEW k, HasHeld(m, k), updates' \subseteq updates,
           \A j : j \in blobs[m] \ blobs'[m] =>
                      \E x \in Replaced : j = Meta(x) /\ <<m, x>> \notin updates'
    PROVE  HasHeld(m, k)'
BY DEF HasHeld

-----------------------------------------------------------------------------
(* Types.  What is in flight after a step was there or is a packet.         *)

LEMMA InitInv == Init => Inv
<1>. SUFFICES ASSUME Init
              PROVE  Inv
  OBVIOUS
<1>1. TypeOK
  BY StoreAssumption, CallAssumption, NodeAssumption
     DEF Init, TypeOK, SearchCall, DownloadCall
<1>2. Waiting /\ FlightHonest /\ PartsInOrder /\ CatalogHonest
  BY StoreAssumption, FileTypes
     DEF Init, Waiting, Expects, FlightHonest, PartsInOrder, CatalogHonest
<1>3. WholeFiles
  BY DEF Init, WholeFiles
<1>. QED
  BY <1>1, <1>2, <1>3 DEF Inv

LEMMA AttemptType ==
    ASSUME TypeOK, NEW c \in Search, NEW i \in 0 .. Retry - 1, Attempt(c, i)
    PROVE  flight' \in SUBSET Packet /\ asked' \in [Search -> [0 .. Retry - 1 -> Nat]]
<1>1. SearchBy[c] \in Node /\ Neighbours[SearchBy[c]] \in SUBSET Node
  BY NodeAssumption, CallAssumption
<1>2. Budget[i] \in Nat
  BY CallAssumption
<1>3. <<c, i>> \in SearchId
  BY DEF SearchId
<1>4. PICK share \in Shares(Budget[i], Neighbours[SearchBy[c]]) :
          /\ flight' = flight \cup Requests(SearchBy[c], <<c, i>>, share)
          /\ asked' = Count(<<c, i>>, share)
  BY DEF Attempt, Fly
<1>5. DOMAIN share \subseteq Neighbours[SearchBy[c]] /\ share \in [DOMAIN share -> Nat]
  BY <1>1, <1>2, SharesType
<1>. QED
  BY <1>1, <1>3, <1>4, <1>5, RequestsType, CountType DEF TypeOK, Packet

LEMMA CalledType ==
    ASSUME NEW kind \in {"all", "first"}, NEW stage \in {"wait", "done"}, NEW local \in SUBSET Name
    PROVE  Called(kind, stage, local) \in SearchCall
BY CallAssumption DEF Called, SearchCall

LEMMA SearchType ==
    ASSUME TypeOK, NEW c \in Search, SearchStep(c)
    PROVE  TypeOK'
<1>. USE CallAssumption
<1>1. search[c] \in SearchCall /\ names[SearchBy[c]] \subseteq Name
  BY DEF TypeOK
<1>2. ASSUME BeginAll(c)
      PROVE  TypeOK'
  <2>1. flight' \in SUBSET Packet /\ asked' \in [Search -> [0 .. Retry - 1 -> Nat]]
    BY <1>2, AttemptType DEF BeginAll, ReturnLocal, TypeOK
  <2>2. search' \in [Search -> SearchCall]
    <3>1. \E stage \in {"wait", "done"}, local \in SUBSET Name :
              search' = [search EXCEPT ![c] = Called("all", stage, local)]
      BY <1>1, <1>2 DEF BeginAll, ReturnLocal
    <3>. QED
      BY <3>1, CalledType DEF TypeOK
  <2>. QED
    BY <1>2, <2>1, <2>2 DEF BeginAll, TypeOK, stores, downloadVars
<1>3. ASSUME BeginFirst(c)
      PROVE  TypeOK'
  <2>1. flight' \in SUBSET Packet /\ asked' \in [Search -> [0 .. Retry - 1 -> Nat]]
    <3>1. UNCHANGED <<flight, asked>> \/ Attempt(c, 0)
      BY <1>3 DEF BeginFirst, ReturnLocal
    <3>2. 0 \in 0 .. Retry - 1
      OBVIOUS
    <3>. QED
      BY <3>1, <3>2, AttemptType DEF TypeOK
  <2>2. search' \in [Search -> SearchCall]
    <3>1. \E stage \in {"wait", "done"}, local \in SUBSET Name :
              search' = [search EXCEPT ![c] = Called("first", stage, local)]
      BY <1>1, <1>3 DEF BeginFirst, ReturnLocal
    <3>. QED
      BY <3>1, CalledType DEF TypeOK
  <2>. QED
    BY <1>3, <2>1, <2>2 DEF BeginFirst, TypeOK, stores, downloadVars
<1>4. ASSUME Take(c)
      PROVE  TypeOK'
  <2>1. search' \in [Search -> SearchCall] /\ found' \in [Search -> SUBSET SUBSET Name]
    <3>1. PICK v \in found[c] :
              /\ found' = [found EXCEPT ![c] = @ \ {v}]
              /\ search' = [search EXCEPT ![c] = Answered(search[c], v)]
      BY <1>4 DEF Take
    <3>2. v \subseteq Name
      BY <3>1 DEF TypeOK
    <3>3. Answered(search[c], v) \in SearchCall
      BY <1>1, <3>2 DEF SearchCall, Answered
    <3>4. search' \in [Search -> SearchCall]
      BY <3>1, <3>3 DEF TypeOK
    <3>5. found[c] \ {v} \in SUBSET SUBSET Name
      BY DEF TypeOK
    <3>. QED
      BY <3>1, <3>4, <3>5 DEF TypeOK
  <2>. QED
    BY <1>4, <2>1 DEF Take, TypeOK, stores, downloadVars
<1>5. ASSUME SearchTimeout(c)
      PROVE  TypeOK'
  <2>1. CASE /\ search[c].attempt + 1 < Retry
             /\ search' = [search EXCEPT ![c].attempt = search[c].attempt + 1]
             /\ found' = [found EXCEPT ![c] = {}]
             /\ Attempt(c, search[c].attempt + 1)
    <3>1. search[c].attempt + 1 \in 0 .. Retry - 1
      BY <1>1, <2>1 DEF SearchCall
    <3>2. flight' \in SUBSET Packet /\ asked' \in [Search -> [0 .. Retry - 1 -> Nat]]
      BY <2>1, <3>1, AttemptType
    <3>3. search' \in [Search -> SearchCall] /\ found' \in [Search -> SUBSET SUBSET Name]
      BY <1>1, <2>1, <3>1 DEF TypeOK, SearchCall
    <3>. QED
      BY <1>5, <3>2, <3>3 DEF SearchTimeout, TypeOK, stores, downloadVars
  <2>2. CASE /\ search' = [search EXCEPT ![c].stage = "done"]
             /\ UNCHANGED <<found, asked, flight>>
    <3>1. search' \in [Search -> SearchCall]
      BY <1>1, <2>2 DEF TypeOK, SearchCall
    <3>. QED
      BY <1>5, <2>2, <3>1 DEF SearchTimeout, TypeOK, stores, downloadVars
  <2>. QED
    BY <1>5, <2>1, <2>2 DEF SearchTimeout, MoreAttempts
<1>. QED
  BY <1>2, <1>3, <1>4, <1>5 DEF SearchStep

\* A download asks its next part, of a peer that it can reach.
LEMMA GetType ==
    ASSUME TypeOK, NEW d \in Download, NEW from \in Node, Route[By(d)][from] # None,
           Part(d) <= Len(Wanted(d))
    PROVE  /\ Wanted(d)[Part(d)] \in Key
           /\ Get(d, from) \in DataRequestMessage /\ Get(d, from).type = "get"
           /\ Get(d, from).id = <<d, Part(d)>> /\ Get(d, from).key = Wanted(d)[Part(d)]
<1>1. Part(d) \in Nat \ {0}
  BY DEF TypeOK, DownloadCall, Part
<1>2. Wanted(d) \in Seq(Key) /\ By(d) \in Node
  BY FileTypes
<1>3. Wanted(d)[Part(d)] \in Key
  BY <1>1, <1>2
<1>4. Route[By(d)][from] \in Node
  BY <1>2, NodeAssumption
<1>. QED
  BY <1>1, <1>2, <1>3, <1>4 DEF Get, DataRequestMessage, DownloadId

LEMMA DownloadType ==
    ASSUME Inv, NEW d \in Download, DownloadStep(d)
    PROVE  TypeOK'
<1>. USE CallAssumption DEF Inv
<1>1. /\ download[d] \in DownloadCall /\ download[d].got \in Seq(Key)
      /\ Part(d) \in Nat \ {0} /\ replies[d] \subseteq Key \cup {None}
  BY DEF TypeOK, DownloadCall, Part
<1>2. Wanted(d) \in Seq(Key) /\ By(d) \in Node
  BY FileTypes
<1>3. ASSUME Fail(d)
      PROVE  TypeOK'
  <2>1. download' \in [Download -> DownloadCall]
    BY <1>1, <1>3 DEF Fail, TypeOK, DownloadCall
  <2>. QED
    BY <1>3, <2>1 DEF Fail, TypeOK, stores, searchVars
<1>4. CASE BeginDownload(d)
  <2>1. download' \in [Download -> DownloadCall]
    BY <1>1, <1>4 DEF BeginDownload, TypeOK, DownloadCall
  <2>. QED
    BY <1>4, <2>1 DEF BeginDownload, TypeOK, stores, searchVars
<1>5. CASE LookLocal(d)
  <2>1. Wanted(d)[Part(d)] \in Key
    BY <1>1, <1>2, <1>5 DEF LookLocal
  <2>2. Append(download[d].got, Wanted(d)[Part(d)]) \in Seq(Key)
    BY <1>1, <2>1
  <2>3. download' \in [Download -> DownloadCall]
    BY <1>1, <1>5, <2>2 DEF LookLocal, TypeOK, DownloadCall
  <2>. QED
    BY <1>5, <2>3 DEF LookLocal, TypeOK, stores, searchVars
<1>6. CASE AskPeer(d)
  <2>1. CASE Fail(d)
    BY <1>3, <2>1
  <2>2. ASSUME NEW from \in catalog[By(d)][Wanted(d)[Part(d)]],
               Route[By(d)][from] # None,
               download' = [download EXCEPT ![d].stage = "wait", ![d].from = from,
                                            ![d].attempt = 0],
               replies' = [replies EXCEPT ![d] = {}],
               Fly(flight \cup {Get(d, from)}), UNCHANGED <<stores, searchVars>>
        PROVE  TypeOK'
    <3>1. Part(d) <= Len(Wanted(d))
      BY <1>6 DEF AskPeer
    <3>2. from \in Node
      BY <1>1, <1>2, <3>1, <2>2 DEF TypeOK
    <3>. DEFINE next == [download[d] EXCEPT !.stage = "wait", !.from = from, !.attempt = 0]
    <3>5. next \in DownloadCall
      BY SMTT(20), <1>1, <3>2 DEF DownloadCall
    <3>6. download' = [download EXCEPT ![d] = next]
      BY <1>1, <2>2 DEF TypeOK, DownloadCall
    <3>. HIDE DEF next
    <3>3. download' \in [Download -> DownloadCall]
      BY <3>5, <3>6 DEF TypeOK
    <3>4. flight' \in SUBSET Packet
      BY <2>2, <3>1, <3>2, GetType DEF Fly, TypeOK, Packet
    <3>. QED
      BY <2>2, <3>3, <3>4 DEF TypeOK, stores, searchVars
  <2>. QED
    BY <1>6, <2>1, <2>2 DEF AskPeer
<1>7. CASE TakePart(d)
  <2>1. CASE Fail(d)
    BY <1>3, <2>1
  <2>2. ASSUME NEW v \in replies[d], v # None,
               download' = [download EXCEPT ![d].stage = "look", ![d].got = Append(@, v)],
               replies' = [replies EXCEPT ![d] = {}],
               UNCHANGED <<stores, searchVars, flight>>
        PROVE  TypeOK'
    <3>1. Append(download[d].got, v) \in Seq(Key)
      BY <1>1, <2>2
    <3>2. download' \in [Download -> DownloadCall]
      BY <1>1, <2>2, <3>1 DEF TypeOK, DownloadCall
    <3>. QED
      BY <2>2, <3>2 DEF TypeOK, stores, searchVars
  <2>. QED
    BY <1>7, <2>1, <2>2 DEF TakePart
<1>8. CASE Resend(d)
  <2>1. /\ download[d].from \in Node /\ Route[By(d)][download[d].from] # None
        /\ download[d].attempt < Backoff /\ Part(d) <= Len(Wanted(d))
    BY <1>8 DEF Resend, Waiting, Expects
  <2>2. download[d].attempt + 1 \in 0 .. Backoff
    BY <1>1, <2>1 DEF DownloadCall
  <2>3. download' \in [Download -> DownloadCall]
    BY <1>1, <1>8, <2>2 DEF Resend, LastWait, TypeOK, DownloadCall
  <2>4. flight' \in SUBSET Packet
    BY <1>8, <2>1, GetType DEF Resend, Fly, TypeOK, Packet
  <2>. QED
    BY <1>8, <2>3, <2>4 DEF Resend, LastWait, TypeOK, stores, searchVars
<1>9. CASE FinishDownload(d)
  <2>1. Range(download[d].got) \subseteq Key
    BY <1>1 DEF Range
  <2>2. blobs' \in [Node -> SUBSET Key]
    BY <1>2, <1>9, <2>1 DEF FinishDownload, TypeOK
  <2>3. download' \in [Download -> DownloadCall]
    BY <1>1, <1>9 DEF FinishDownload, TypeOK, DownloadCall
  <2>. QED
    BY <1>9, <2>2, <2>3 DEF FinishDownload, TypeOK, searchVars
<1>. QED
  BY <1>4, <1>5, <1>6, <1>7, <1>8, <1>9 DEF DownloadStep

\* The files of an answer are those of the peer, with the chunks it holds.
LEMMA MatchesType ==
    ASSUME TypeOK, NEW n \in Node, NEW c \in Search
    PROVE  /\ Matches(n, c) \in SUBSET FileInfo
           /\ \A f \in Matches(n, c) : Keys(f) \subseteq blobs[n]
BY FileTypes DEF Matches, FileInfo, Keys, TypeOK

LEMMA KeysType ==
    ASSUME NEW files \in SUBSET FileInfo
    PROVE  /\ UNION {Keys(f) : f \in files} \subseteq Key
           /\ {f.name : f \in files} \subseteq Name
BY FileTypes DEF FileInfo, Keys

\* A packet by the kind of its message.
LEMMA PacketKinds ==
    ASSUME NEW p \in Packet
    PROVE  /\ p.type \in {"request", "reply", "get", "data"}
           /\ p.src \in Node /\ p.at \in Node /\ p.dst \in Node
           /\ p.type = "request" => p.id \in SearchId /\ p.budget \in Nat
           /\ p.type = "reply" => p.id \in SearchId /\ p.files \in SUBSET FileInfo
           /\ p.type = "get" => p.id \in DownloadId /\ p.key \in Key
           /\ p.type = "data" => p.id \in DownloadId /\ p.value \in Key \cup {None}
BY DEF Packet, SearchRequestMessage, SearchReplyMessage, DataRequestMessage, DataReplyMessage

\* What a peer answers is a packet that says what is so.
LEMMA RequestHandled ==
    ASSUME TypeOK, NEW p \in Packet, NEW n \in Node, NEW rest \in SUBSET flight,
           HandleRequest(n, p, rest)
    PROVE  TypeOK' /\ \A q \in flight' : q \in flight \/ Honest(q)
<1>1. p.type = "request"
  BY DEF HandleRequest, NeighboursExclude
<1>2. p.src \in Node /\ p.id \in SearchId /\ p.budget \in Nat
  BY <1>1, PacketKinds
<1>3. p.id[1] \in Search /\ SearchBy[p.id[1]] \in Node
  BY <1>2, CallAssumption DEF SearchId
<1>. DEFINE others == Neighbours[n] \ {p.src}
            files == Matches(n, p.id[1])
            answer == [type |-> "reply", src |-> n, at |-> p.src, dst |-> SearchBy[p.id[1]],
                       id |-> p.id, files |-> files]
<1>4. CASE p.id \in processed[n] /\ flight' = rest /\ UNCHANGED <<processed, asked>>
  BY <1>4 DEF HandleRequest, NeighboursExclude, TypeOK, stores, downloadVars
<1>5. CASE p.id \notin processed[n]
  <2>1. PICK share \in IF Remaining(p) > 0 /\ others # {}
                       THEN Shares(Remaining(p), others) ELSE {<< >>} :
            /\ asked' = Count(p.id, share)
            /\ flight' = rest \cup Requests(n, p.id, share)
                              \cup (IF files = {} THEN {} ELSE {answer})
            /\ processed' = [processed EXCEPT ![n] = @ \cup {p.id}]
    BY <1>5 DEF HandleRequest, NeighboursExclude, Fly
  <2>2. others \in SUBSET Node
    BY NodeAssumption
  <2>3. DOMAIN share \subseteq others /\ share \in [DOMAIN share -> Nat]
    <3>1. CASE Remaining(p) > 0 /\ others # {}
      <4>1. Remaining(p) \in Nat
        BY <1>2, <3>1 DEF Remaining
      <4>2. share \in Shares(Remaining(p), others)
        BY <2>1, <3>1
      <4>. QED
        BY <2>2, <4>1, <4>2, SharesType
    <3>2. CASE ~(Remaining(p) > 0 /\ others # {})
      <4>1. share = << >> /\ << >> \in Seq(Nat) /\ Len(<< >>) = 0
        BY <2>1, <3>2
      <4>2. DOMAIN << >> = 1 .. 0 /\ << >> \in [1 .. 0 -> Nat]
        BY <4>1
      <4>. QED
        BY <4>1, <4>2
    <3>. QED
      BY <3>1, <3>2
  <2>4. files \in SUBSET FileInfo /\ \A f \in files : Keys(f) \subseteq blobs[n]
    BY <1>3, MatchesType
  <2>. HIDE DEF others, files
  <2>5. answer \in Packet
    BY <1>2, <1>3, <2>4 DEF Packet, SearchReplyMessage
  <2>6. Honest(answer)
    BY <2>4 DEF Honest, HasHeld
  <2>7. /\ Requests(n, p.id, share) \in SUBSET Packet
        /\ \A q \in Requests(n, p.id, share) : q.type = "request"
    BY <1>2, <2>2, <2>3, RequestsType DEF Packet
  <2>8. \A q \in Requests(n, p.id, share) : Honest(q)
    BY <2>7 DEF Honest
  <2>. HIDE DEF answer
  <2>9. flight' \in SUBSET Packet /\ \A q \in flight' : q \in flight \/ Honest(q)
    BY <2>1, <2>5, <2>6, <2>7, <2>8 DEF TypeOK
  <2>10. asked' \in [Search -> [0 .. Retry - 1 -> Nat]]
    BY <1>2, <2>1, <2>2, <2>3, CountType
  <2>11. processed' \in [Node -> SUBSET SearchId]
    BY <1>2, <2>1 DEF TypeOK
  <2>. QED
    BY <2>9, <2>10, <2>11 DEF HandleRequest, NeighboursExclude, TypeOK, stores, downloadVars
<1>. QED
  BY <1>4, <1>5 DEF HandleRequest, NeighboursExclude

LEMMA ReplyHandledType ==
    ASSUME TypeOK, NEW p \in Packet, NEW n \in Node, NEW rest \in SUBSET flight,
           HandleReply(n, p, rest)
    PROVE  TypeOK'
<1>1. p.type = "reply"
  BY DEF HandleReply, UpdateCatalog
<1>2. p.src \in Node /\ p.id \in SearchId /\ p.files \in SUBSET FileInfo
  BY <1>1, PacketKinds
<1>. DEFINE told == {f.name : f \in p.files}
            row == [k \in Key |-> IF k \in UNION {Keys(f) : f \in p.files} /\ p.src # n
                                  THEN catalog[n][k] \cup {p.src} ELSE catalog[n][k]]
<1>3. told \subseteq Name
  BY <1>2, KeysType
<1>4. catalog' \in [Node -> [Key -> SUBSET Node]]
  <2>1. row \in [Key -> SUBSET Node]
    BY <1>2 DEF TypeOK
  <2>2. catalog' = [catalog EXCEPT ![n] = row]
    BY DEF HandleReply, UpdateCatalog, TypeOK
  <2>. HIDE DEF row
  <2>. QED
    BY <2>1, <2>2 DEF TypeOK
<1>5. names' \in [Node -> SUBSET Name]
  <2>1. names' = [names EXCEPT ![n] = IF Tagging THEN @ \cup told ELSE @]
    BY DEF HandleReply, UpdateCatalog
  <2>. HIDE DEF told
  <2>. QED
    BY <1>3, <2>1 DEF TypeOK
<1>6. found' \in [Search -> SUBSET SUBSET Name]
  <2>1. PICK v \in Notices(p) : found' = found \/ found' = [found EXCEPT ![p.id[1]] = @ \cup {v}]
    BY DEF HandleReply, UpdateCatalog
  <2>2. v \in SUBSET Name
    BY <1>2, <1>3 DEF Notices, FileInfo
  <2>3. p.id[1] \in Search
    BY <1>2 DEF SearchId
  <2>4. found[p.id[1]] \cup {v} \in SUBSET SUBSET Name
    BY <2>2, <2>3 DEF TypeOK
  <2>. QED
    BY <2>1, <2>3, <2>4 DEF TypeOK
<1>. QED
  BY <1>4, <1>5, <1>6 DEF HandleReply, UpdateCatalog, TypeOK, searchVars, downloadVars

LEMMA GetHandled ==
    ASSUME TypeOK, NEW p \in Packet, Honest(p), NEW n \in Node, NEW rest \in SUBSET flight,
           HandleGet(n, p, rest)
    PROVE  TypeOK' /\ \A q \in flight' : q \in flight \/ Honest(q)
<1>1. p.type = "get"
  BY DEF HandleGet
<1>2. p.src \in Node /\ p.id \in DownloadId /\ p.key \in Key /\ p.key = Asked(p.id)
  BY <1>1, PacketKinds DEF Honest
<1>3. CASE flight' \subseteq rest
  BY <1>3 DEF HandleGet, TypeOK, stores, searchVars, downloadVars
<1>4. CASE Route[n][p.src] # None
  <2>. DEFINE answer == [type |-> "data", src |-> n, at |-> Route[n][p.src], dst |-> p.src,
                         id |-> p.id, value |-> IF p.key \in blobs[n] THEN p.key ELSE None]
  <2>1. flight' = rest \cup {answer}
    BY <1>4 DEF HandleGet, Fly
  <2>2. Route[n][p.src] \in Node
    BY <1>2, <1>4, NodeAssumption
  <2>3. answer \in Packet
    BY <1>2, <2>2 DEF Packet, DataReplyMessage
  <2>4. Honest(answer)
    BY <1>2 DEF Honest
  <2>. HIDE DEF answer
  <2>. QED
    BY <2>1, <2>3, <2>4 DEF HandleGet, TypeOK, stores, searchVars, downloadVars
<1>. QED
  BY <1>3, <1>4 DEF HandleGet, Fly

LEMMA Relayed ==
    ASSUME TypeOK, NEW p \in Packet, Honest(p), NEW n \in Node, NEW rest \in SUBSET flight,
           Relay(n, p, rest)
    PROVE  TypeOK' /\ \A q \in flight' : q \in flight \/ Honest(q)
<1>1. CASE flight' \subseteq rest
  BY <1>1 DEF Relay, TypeOK, stores, searchVars, downloadVars
<1>2. CASE Route[n][p.dst] # None
  <2>. DEFINE next == [p EXCEPT !.at = Route[n][p.dst]]
  <2>1. flight' = rest \cup {next}
    BY <1>2 DEF Relay, Fly
  <2>2. Route[n][p.dst] \in Node
    BY <1>2, PacketKinds, NodeAssumption
  <2>3. next \in Packet
    <3>1. CASE p \in SearchRequestMessage
      BY <2>2, <3>1 DEF Packet, SearchRequestMessage
    <3>2. CASE p \in SearchReplyMessage
      BY <2>2, <3>2 DEF Packet, SearchReplyMessage
    <3>3. CASE p \in DataRequestMessage
      BY <2>2, <3>3 DEF Packet, DataRequestMessage
    <3>4. CASE p \in DataReplyMessage
      BY <2>2, <3>4 DEF Packet, DataReplyMessage
    <3>. QED
      BY <3>1, <3>2, <3>3, <3>4 DEF Packet
  <2>4. Honest(next)
    <3>1. CASE p \in SearchRequestMessage
      BY <3>1 DEF Honest, SearchRequestMessage
    <3>2. CASE p \in SearchReplyMessage
      BY <3>2 DEF Honest, SearchReplyMessage
    <3>3. CASE p \in DataRequestMessage
      BY <3>3 DEF Honest, DataRequestMessage
    <3>4. CASE p \in DataReplyMessage
      BY <3>4 DEF Honest, DataReplyMessage
    <3>. QED
      BY <3>1, <3>2, <3>3, <3>4 DEF Packet
  <2>. HIDE DEF next
  <2>. QED
    BY <2>1, <2>3, <2>4 DEF Relay, TypeOK, stores, searchVars, downloadVars
<1>. QED
  BY <1>1, <1>2 DEF Relay, Fly

LEMMA DataHandledType ==
    ASSUME TypeOK, NEW p \in Packet, NEW n \in Node, NEW rest \in SUBSET flight,
           HandleData(n, p, rest)
    PROVE  TypeOK'
<1>1. p.id[1] \in Download /\ p.value \in Key \cup {None}
  BY PacketKinds DEF HandleData, DownloadId
<1>2. replies' \in [Download -> SUBSET (Key \cup {None})]
  BY <1>1 DEF HandleData, TypeOK
<1>. QED
  BY <1>2 DEF HandleData, TypeOK, stores, searchVars

LEMMA UpdateType ==
    ASSUME TypeOK, NEW n \in Node, NEW x \in Replaced, UpdateAvatar(n, x)
    PROVE  TypeOK'
BY DEF UpdateAvatar, TypeOK, searchVars, downloadVars

-----------------------------------------------------------------------------
(* The invariant is kept.                                                   *)

\* A step that leaves the stores alone.
LEMMA StoresSame ==
    ASSUME CatalogHonest, WholeFiles, UNCHANGED stores
    PROVE  CatalogHonest' /\ WholeFiles'
<1>1. UNCHANGED <<blobs, catalog, updates>>
  BY DEF stores
<1>2. CatalogHonest'
  BY <1>1 DEF CatalogHonest, HasHeld
<1>3. WholeFiles'
  BY <1>1 DEF WholeFiles
<1>. QED
  BY <1>2, <1>3

\* A step that leaves stores and downloads alone, and sends what is so.
LEMMA Kept ==
    ASSUME Inv, TypeOK', UNCHANGED <<stores, downloadVars>>,
           \A q \in flight' : q \in flight \/ Honest(q)
    PROVE  Inv'
<1>1. FlightHonest'
  BY DEF Inv, FlightHonest, Honest, HasHeld, stores
<1>2. Waiting' /\ PartsInOrder'
  BY DEF Inv, Waiting, Expects, Part, PartsInOrder, downloadVars
<1>3. CatalogHonest' /\ WholeFiles'
  BY StoresSame DEF Inv
<1>. QED
  BY <1>1, <1>2, <1>3 DEF Inv

LEMMA SearchKept ==
    ASSUME Inv, NEW c \in Search, SearchStep(c)
    PROVE  Inv'
<1>1. TypeOK'
  BY SearchType DEF Inv
<1>2. UNCHANGED <<stores, downloadVars>>
  BY DEF SearchStep, BeginAll, BeginFirst, Take, SearchTimeout
<1>3. \A q \in flight' : q \in flight \/ Honest(q)
  <2>1. \/ UNCHANGED flight
        \/ \E i \in 0 .. Retry - 1 : Attempt(c, i)
    <3>1. 0 \in 0 .. Retry - 1
      BY CallAssumption
    <3>2. search[c].attempt \in 0 .. Retry - 1
      BY DEF Inv, TypeOK, SearchCall
    <3>3. MoreAttempts(search[c].attempt + 1) => search[c].attempt + 1 \in 0 .. Retry - 1
      BY <3>2, CallAssumption DEF MoreAttempts
    <3>. QED
      BY <3>1, <3>3
         DEF SearchStep, BeginAll, BeginFirst, ReturnLocal, Take, SearchTimeout
  <2>2. ASSUME NEW i \in 0 .. Retry - 1, Attempt(c, i)
        PROVE  \A q \in flight' : q \in flight \/ q.type = "request"
    BY <2>2 DEF Attempt, Fly, Requests
  <2>. QED
    BY <2>1, <2>2 DEF Honest
<1>. QED
  BY <1>1, <1>2, <1>3, Kept

\* A step of the call d that leaves the stores alone.
LEMMA OwnKept ==
    ASSUME Inv, TypeOK', UNCHANGED stores, NEW d \in Download,
           \A e \in Download \ {d} : download'[e] = download[e] /\ replies'[e] = replies[e],
           Expects(d)', InOrder(d)',
           \A q \in flight' : q \in flight \/ Honest(q)
    PROVE  Inv'
<1>1. FlightHonest'
  BY DEF Inv, FlightHonest, Honest, HasHeld, stores
<1>2. Waiting'
  <2>1. ASSUME NEW e \in Download \ {d}
        PROVE  Expects(e)'
    BY <2>1 DEF Inv, Waiting, Expects, Part
  <2>. QED
    BY <2>1 DEF Waiting
<1>3. PartsInOrder'
  <2>1. ASSUME NEW e \in Download \ {d}
        PROVE  InOrder(e)'
    BY <2>1 DEF Inv, PartsInOrder, InOrder
  <2>. QED
    BY <2>1 DEF InOrder, PartsInOrder
<1>4. CatalogHonest' /\ WholeFiles'
  BY StoresSame DEF Inv
<1>. QED
  BY <1>1, <1>2, <1>3, <1>4 DEF Inv

\* A part more, the one that was asked for, is in order.
LEMMA NextPart ==
    ASSUME Inv, NEW d \in Download, NEW v, v = Wanted(d)[Part(d)], Part(d) <= Len(Wanted(d)),
           download'[d].got = Append(download[d].got, v)
    PROVE  InOrder(d)'
<1>1. download[d].got \in Seq(Key) /\ Wanted(d) \in Seq(Key)
  BY FileTypes DEF Inv, TypeOK, DownloadCall
<1>2. v \in Key
  BY <1>1 DEF Part
<1>. DEFINE got == download[d].got
<1>3. /\ Len(Append(got, v)) = Len(got) + 1
      /\ \A i \in 1 .. Len(got) : Append(got, v)[i] = got[i]
      /\ Append(got, v)[Len(got) + 1] = v
      /\ DOMAIN Append(got, v) = 1 .. Len(got) + 1
  BY <1>1, <1>2
<1>4. \A i \in 1 .. Len(got) : got[i] = Wanted(d)[i]
  BY <1>1 DEF Inv, PartsInOrder
<1>. QED
  BY <1>1, <1>3, <1>4 DEF InOrder, Part, Wanted

LEMMA FinishKept ==
    ASSUME Inv, NEW d \in Download, FinishDownload(d)
    PROVE  Inv'
<1>1. TypeOK'
  BY DownloadType DEF DownloadStep
<1>2. download[d].got \in Seq(Key) /\ Wanted(d) \in Seq(Key) /\ DownloadOf[d] \in Name
  BY FileTypes, CallAssumption DEF Inv, TypeOK, DownloadCall
<1>3. Range(download[d].got) = {Wanted(d)[i] : i \in 1 .. Len(Wanted(d))}
  <2>1. Len(download[d].got) = Len(Wanted(d)) /\ DOMAIN download[d].got = 1 .. Len(Wanted(d))
    BY <1>2 DEF FinishDownload, Complete
  <2>2. \A i \in 1 .. Len(Wanted(d)) : download[d].got[i] = Wanted(d)[i]
    BY <2>1 DEF Inv, PartsInOrder
  <2>. QED
    BY <2>1, <2>2 DEF Range
<1>4. /\ \A m \in Node : blobs[m] \subseteq blobs'[m]
      /\ \A m \in Node \ {By(d)} : blobs'[m] = blobs[m]
      /\ blobs'[By(d)] = blobs[By(d)] \cup Range(download[d].got)
  BY FileTypes DEF FinishDownload, Inv, TypeOK
<1>5. FlightHonest'
  <2>1. \A m \in Node : \A k : HasHeld(m, k) => HasHeld(m, k)'
    BY <1>4 DEF HasHeld, FinishDownload
  <2>2. \A p \in flight : p.src \in Node
    BY PacketKinds DEF Inv, TypeOK
  <2>. QED
    BY <2>1, <2>2 DEF Inv, FlightHonest, Honest, FinishDownload
<1>6. Waiting'
  <2>1. ASSUME NEW e \in Download
        PROVE  Expects(e)'
    <3>1. CASE e = d
      BY <3>1 DEF FinishDownload, Inv, TypeOK, Expects
    <3>2. CASE e # d
      BY <3>2 DEF FinishDownload, Inv, Waiting, Expects, Part
    <3>. QED
      BY <3>1, <3>2
  <2>. QED
    BY <2>1 DEF Waiting
<1>7. PartsInOrder'
  <2>1. ASSUME NEW e \in Download
        PROVE  download'[e].got = download[e].got
    BY DEF FinishDownload, Inv, TypeOK, DownloadCall
  <2>. QED
    BY <2>1 DEF Inv, PartsInOrder
<1>8. CatalogHonest'
  <2>1. \A m \in Node : \A k : HasHeld(m, k) => HasHeld(m, k)'
    BY <1>4 DEF HasHeld, FinishDownload
  <2>. QED
    BY <2>1 DEF Inv, CatalogHonest, FinishDownload
<1>9. WholeFiles'
  <2>1. SUFFICES ASSUME NEW n \in Node, NEW x \in Name,
                        Meta(x) \in blobs'[n], Meta(x) \notin InitBlobs[n]
                 PROVE  Chunks(x) \subseteq blobs'[n]
    BY DEF WholeFiles
  <2>2. CASE Meta(x) \in blobs[n]
    BY <1>4, <2>1, <2>2 DEF Inv, WholeFiles
  <2>3. CASE Meta(x) \notin blobs[n]
    <3>1. n = By(d) /\ Meta(x) \in Range(download[d].got)
      BY <1>4, <2>1, <2>3
    <3>2. PICK i \in 1 .. Len(Wanted(d)) : Parts[x][1] = Wanted(d)[i]
      BY <1>3, <3>1 DEF Meta
    <3>3. i = 1
      BY <1>2, <3>2, StoreAssumption DEF Wanted
    <3>4. Parts[x] = Wanted(d)
      BY <1>2, <3>2, <3>3, StoreAssumption DEF Wanted
    <3>5. Chunks(x) \subseteq Range(download[d].got)
      BY <1>2, <1>3, <3>4 DEF Chunks
    <3>. QED
      BY <1>4, <3>1, <3>5
  <2>. QED
    BY <2>2, <2>3
<1>. QED
  BY <1>1, <1>5, <1>6, <1>7, <1>8, <1>9 DEF Inv

LEMMA DownloadKept ==
    ASSUME Inv, NEW d \in Download, DownloadStep(d)
    PROVE  Inv'
<1>. USE DEF Inv
<1>1. TypeOK'
  BY DownloadType
<1>2. /\ download[d] \in DownloadCall /\ download[d].got \in Seq(Key)
      /\ Part(d) \in Nat \ {0} /\ InOrder(d) /\ Expects(d)
  BY DEF TypeOK, DownloadCall, Part, PartsInOrder, InOrder, Waiting
<1>3. ASSUME Fail(d)
      PROVE  Inv'
  <2>1. download'[d].stage = "failed" /\ download'[d].got = download[d].got
    BY <1>2, <1>3 DEF Fail, TypeOK, DownloadCall
  <2>2. Expects(d)' /\ InOrder(d)'
    BY <1>2, <2>1 DEF Expects, InOrder, Wanted
  <2>. QED
    BY <1>1, <1>3, <2>2, OwnKept DEF Fail, TypeOK
<1>4. CASE BeginDownload(d)
  <2>1. download'[d].stage = "look" /\ download'[d].got = download[d].got
    BY <1>2, <1>4 DEF BeginDownload, TypeOK, DownloadCall
  <2>2. Expects(d)' /\ InOrder(d)'
    BY <1>2, <2>1 DEF Expects, InOrder, Wanted
  <2>. QED
    BY <1>1, <1>4, <2>2, OwnKept DEF BeginDownload, TypeOK
<1>5. CASE LookLocal(d)
  <2>1. /\ download'[d].stage = "look"
        /\ download'[d].got = Append(download[d].got, Wanted(d)[Part(d)])
    BY <1>2, <1>5 DEF LookLocal, TypeOK, DownloadCall
  <2>2. Expects(d)' /\ InOrder(d)'
    BY <1>5, <2>1, NextPart DEF Expects, LookLocal
  <2>. QED
    BY <1>1, <1>5, <2>2, OwnKept DEF LookLocal, TypeOK
<1>6. CASE AskPeer(d)
  <2>1. Part(d) <= Len(Wanted(d)) /\ Wanted(d)[Part(d)] \in Key /\ By(d) \in Node
    <3>1. Part(d) <= Len(Wanted(d))
      BY <1>6 DEF AskPeer
    <3>2. Wanted(d) \in Seq(Key) /\ By(d) \in Node
      BY FileTypes
    <3>. QED
      BY <1>2, <3>1, <3>2
  <2>2. CASE Fail(d)
    BY <1>3, <2>2
  <2>3. ASSUME NEW from \in catalog[By(d)][Wanted(d)[Part(d)]],
               Route[By(d)][from] # None,
               download' = [download EXCEPT ![d].stage = "wait", ![d].from = from,
                                            ![d].attempt = 0],
               replies' = [replies EXCEPT ![d] = {}],
               Fly(flight \cup {Get(d, from)}), UNCHANGED <<stores, searchVars>>
        PROVE  Inv'
    <3>1. from \in Node
      BY <2>1, <2>3 DEF TypeOK
    <3>2. /\ download'[d].from = from /\ download'[d].attempt = 0
          /\ download'[d].got = download[d].got /\ replies'[d] = {}
      BY <1>2, <2>3 DEF TypeOK, DownloadCall
    <3>3. Expects(d)'
      BY <2>1, <2>3, <3>1, <3>2, CallAssumption DEF Expects, Part, By, Wanted
    <3>4. InOrder(d)'
      BY <1>2, <3>2 DEF InOrder, Wanted
    <3>5. \A q \in flight' : q \in flight \/ Honest(q)
      BY <2>1, <2>3, <3>1, GetType DEF Fly, Honest, Asked
    <3>. QED
      BY <1>1, <2>3, <3>3, <3>4, <3>5, OwnKept DEF TypeOK
  <2>. QED
    BY <1>6, <2>2, <2>3 DEF AskPeer
<1>7. CASE TakePart(d)
  <2>1. CASE Fail(d)
    BY <1>3, <2>1
  <2>2. ASSUME NEW v \in replies[d], v # None,
               download' = [download EXCEPT ![d].stage = "look", ![d].got = Append(@, v)],
               replies' = [replies EXCEPT ![d] = {}],
               UNCHANGED <<stores, searchVars, flight>>
        PROVE  Inv'
    <3>1. v = Wanted(d)[Part(d)] /\ Part(d) <= Len(Wanted(d))
      BY <1>2, <1>7, <2>2 DEF TakePart, Expects
    <3>2. download'[d].stage = "look" /\ download'[d].got = Append(download[d].got, v)
      BY <1>2, <2>2 DEF TypeOK, DownloadCall
    <3>3. Expects(d)' /\ InOrder(d)'
      BY <3>1, <3>2, NextPart DEF Expects
    <3>. QED
      BY <1>1, <2>2, <3>3, OwnKept DEF TypeOK
  <2>. QED
    BY <1>7, <2>1, <2>2 DEF TakePart
<1>8. CASE Resend(d)
  <2>1. /\ download[d].from \in Node /\ Route[By(d)][download[d].from] # None
        /\ download[d].attempt < Backoff /\ Part(d) <= Len(Wanted(d))
        /\ replies[d] \subseteq {None, Wanted(d)[Part(d)]}
    BY <1>2, <1>8 DEF Resend, Expects
  <2>2. /\ download'[d].got = download[d].got /\ download'[d].from = download[d].from
        /\ download'[d].attempt = download[d].attempt + 1
        /\ download'[d].stage = "wait" => download[d].attempt + 1 # Backoff
    BY <1>2, <1>8 DEF Resend, LastWait, TypeOK, DownloadCall
  <2>3. Expects(d)'
    <3>1. download[d].attempt + 1 # Backoff => download[d].attempt + 1 < Backoff
      BY <1>2, <2>1, CallAssumption DEF DownloadCall
    <3>. QED
      BY <1>8, <2>1, <2>2, <3>1 DEF Resend, Expects, Part, By, Wanted
  <2>4. InOrder(d)'
    BY <1>2, <2>2 DEF InOrder, Wanted
  <2>5. \A q \in flight' : q \in flight \/ Honest(q)
    BY <1>8, <2>1, GetType DEF Resend, Fly, Honest, Asked
  <2>. QED
    BY <1>1, <1>8, <2>3, <2>4, <2>5, OwnKept DEF Resend, LastWait, TypeOK
<1>9. CASE FinishDownload(d)
  BY <1>9, FinishKept
<1>. QED
  BY <1>4, <1>5, <1>6, <1>7, <1>8, <1>9 DEF DownloadStep

LEMMA ReplyKept ==
    ASSUME Inv, NEW p \in flight, NEW n \in Node, NEW rest \in SUBSET flight,
           HandleReply(n, p, rest)
    PROVE  Inv'
<1>. USE DEF Inv
<1>1. p \in Packet /\ p.type = "reply" /\ p.src \in Node
  BY PacketKinds DEF TypeOK, HandleReply, UpdateCatalog
<1>2. TypeOK'
  BY <1>1, ReplyHandledType
<1>3. UNCHANGED <<blobs, updates, downloadVars>> /\ flight' \subseteq flight
  BY DEF HandleReply, UpdateCatalog
<1>4. FlightHonest' /\ Waiting' /\ PartsInOrder' /\ WholeFiles'
  BY <1>3 DEF FlightHonest, Honest, HasHeld, Waiting, Expects, Part, PartsInOrder,
              WholeFiles, downloadVars
<1>5. CatalogHonest'
  <2>1. \A k \in UNION {Keys(f) : f \in p.files} : HasHeld(p.src, k)
    BY <1>1 DEF FlightHonest, Honest
  <2>2. ASSUME NEW m \in Node, NEW a \in Node, NEW k \in Key, a \in catalog'[m][k]
        PROVE  a # m /\ HasHeld(a, k)
    <3>1. CASE a \in catalog[m][k]
      BY <3>1 DEF CatalogHonest
    <3>2. CASE a \notin catalog[m][k]
      <4>1. m = n /\ k \in UNION {Keys(f) : f \in p.files} /\ a = p.src /\ p.src # n
        BY <2>2, <3>2 DEF HandleReply, UpdateCatalog, TypeOK
      <4>. QED
        BY <2>1, <4>1
    <3>. QED
      BY <3>1, <3>2
  <2>. QED
    BY <1>3, <2>2 DEF CatalogHonest, HasHeld
<1>. QED
  BY <1>2, <1>4, <1>5

LEMMA DataKept ==
    ASSUME Inv, NEW p \in flight, NEW n \in Node, NEW rest \in SUBSET flight,
           HandleData(n, p, rest)
    PROVE  Inv'
<1>. USE DEF Inv
<1>. DEFINE d == p.id[1]
<1>1. p \in Packet /\ p.type = "data" /\ p.id \in DownloadId
  BY PacketKinds DEF TypeOK, HandleData
<1>2. d \in Download /\ p.value \in {None, Wanted(d)[p.id[2]]}
  BY <1>1 DEF DownloadId, FlightHonest, Honest, Asked
<1>3. TypeOK'
  BY <1>1, DataHandledType
<1>4. UNCHANGED <<stores, download>> /\ \A q \in flight' : q \in flight
  BY DEF HandleData
<1>5. \A e \in Download \ {d} : replies'[e] = replies[e]
  BY DEF HandleData, TypeOK
<1>6. Awaits(p) => replies'[d] = replies[d] \cup {p.value}
  BY <1>2 DEF HandleData, TypeOK
<1>7. ~Awaits(p) => replies' = replies
  BY DEF HandleData
<1>. HIDE DEF d
<1>8. Expects(d) /\ InOrder(d)
  BY <1>2 DEF Waiting, PartsInOrder, InOrder
<1>9. Expects(d)' /\ InOrder(d)'
  <2>1. Awaits(p) => Part(d) = p.id[2]
    BY DEF Awaits, d
  <2>. QED
    BY <1>2, <1>4, <1>6, <1>7, <1>8, <2>1 DEF Expects, InOrder, Part, By, Wanted
<1>. QED
  BY <1>2, <1>3, <1>4, <1>5, <1>9, OwnKept

LEMMA UpdateKept ==
    ASSUME Inv, NEW n \in Node, NEW x \in Replaced, UpdateAvatar(n, x)
    PROVE  Inv'
<1>. USE DEF Inv
<1>1. TypeOK'
  BY UpdateType
<1>2. /\ updates' = updates \ {<<n, x>>}
      /\ \A m \in Node : blobs'[m] = IF m = n THEN blobs[m] \ {Meta(x)} ELSE blobs[m]
      /\ UNCHANGED <<catalog, flight, download, replies>>
  BY DEF UpdateAvatar, TypeOK, downloadVars
<1>3. \A m \in Node : \A k : HasHeld(m, k) => HasHeld(m, k)'
  BY <1>2 DEF HasHeld
<1>4. \A q \in flight : q.src \in Node
  BY PacketKinds DEF TypeOK
<1>5. FlightHonest' /\ CatalogHonest'
  BY <1>2, <1>3, <1>4 DEF FlightHonest, Honest, CatalogHonest
<1>6. Waiting' /\ PartsInOrder'
  BY <1>2 DEF Waiting, Expects, Part, PartsInOrder
<1>7. WholeFiles'
  <2>1. \A y \in Name : Meta(x) \notin Chunks(y)
    BY StoreAssumption DEF Meta, Chunks
  <2>. QED
    BY <1>2, <2>1 DEF WholeFiles
<1>. QED
  BY <1>1, <1>5, <1>6, <1>7

LEMMA ReceiveKept ==
    ASSUME Inv, NEW p \in flight, NEW n \in Node, NEW rest \in SUBSET flight,
           Receive(n, p, rest)
    PROVE  Inv'
<1>. USE DEF Inv
<1>1. p \in Packet /\ Honest(p)
  BY DEF TypeOK, FlightHonest
<1>2. CASE Relay(n, p, rest)
  BY <1>1, <1>2, Relayed, Kept DEF Relay
<1>3. CASE HandleRequest(n, p, rest)
  BY <1>1, <1>3, RequestHandled, Kept DEF HandleRequest, NeighboursExclude
<1>4. CASE HandleReply(n, p, rest)
  BY <1>4, ReplyKept
<1>5. CASE HandleGet(n, p, rest)
  BY <1>1, <1>5, GetHandled, Kept DEF HandleGet
<1>6. CASE HandleData(n, p, rest)
  BY <1>6, DataKept
<1>. QED
  BY <1>2, <1>3, <1>4, <1>5, <1>6 DEF Receive

LEMMA NextInv == Inv /\ [Next]_vars => Inv'
<1>. SUFFICES ASSUME Inv, [Next]_vars
              PROVE  Inv'
  OBVIOUS
<1>1. CASE UNCHANGED vars
  <2>1. UNCHANGED <<stores, downloadVars>> /\ \A q \in flight' : q \in flight
    BY <1>1 DEF vars
  <2>2. TypeOK'
    BY <1>1 DEF Inv, TypeOK, vars, stores, searchVars, downloadVars
  <2>. QED
    BY <2>1, <2>2, Kept
<1>2. ASSUME NEW c \in Search, SearchStep(c)
      PROVE  Inv'
  BY <1>2, SearchKept
<1>3. ASSUME NEW d \in Download, DownloadStep(d)
      PROVE  Inv'
  BY <1>3, DownloadKept
<1>4. ASSUME NEW p \in flight, Lose(p)
      PROVE  Inv'
  <2>1. TypeOK'
    BY <1>4 DEF Lose, Inv, TypeOK, stores, searchVars, downloadVars
  <2>. QED
    BY <1>4, <2>1, Kept DEF Lose
<1>5. ASSUME NEW p \in flight, NEW n \in Node,
             Receive(n, p, flight \ {p}) \/ Receive(n, p, flight)
      PROVE  Inv'
  BY <1>5, ReceiveKept
<1>6. ASSUME NEW n \in Node, NEW x \in Replaced, UpdateAvatar(n, x)
      PROVE  Inv'
  BY <1>6, UpdateKept
<1>. QED
  BY <1>1, <1>2, <1>3, <1>4, <1>5, <1>6 DEF Next

-----------------------------------------------------------------------------
(* Theorems                                                                *)

LEMMA InvHolds == Spec => []Inv
<1>. QED
  BY InitInv, NextInv, PTL DEF Spec

\* Stores, calls and packets keep their types: above all the requests that
\* assignBudgets makes, the repeats that the backoff counts and the catalog.
THEOREM TypeCorrect == Spec => []TypeOK
<1>1. Inv => TypeOK
  BY DEF Inv
<1>. QED
  BY <1>1, InvHolds, PTL

\* A download puts together the parts it asked for, each at its place, however
\* requests are repeated and answers delayed, repeated or lost.
THEOREM PartsOrdered == Spec => []PartsInOrder
<1>1. Inv => PartsInOrder
  BY DEF Inv
<1>. QED
  BY <1>1, InvHolds, PTL

\* The peers that a catalog names for a key are others, and hold the blob or
\* have held it until an update of an avatar.
THEOREM CatalogsHonest == Spec => []CatalogHonest
<1>1. Inv => CatalogHonest
  BY DEF Inv
<1>. QED
  BY <1>1, InvHolds, PTL

\* A peer that downloads a file is a source of all of it or of nothing: the
\* metafile is stored together with the chunks it lists, and no update takes a
\* chunk away.
THEOREM FilesWhole == Spec => []WholeFiles
<1>1. Inv => WholeFiles
  BY DEF Inv
<1>. QED
  BY <1>1, InvHolds, PTL
-----------------------------------------------------------------------------
(* What SearchFirst finds                                                   *)

\* The chunks of x are at n, or n knows one peer to have the whole file from.
Available(n, x) ==
    \/ Chunks(x) \subseteq blobs[n]
    \/ \E m \in Node : \A k \in {Meta(x)} \cup Chunks(x) : m \in catalog[n][k]

\* An answer goes to the peer that searches.
Addressed(p) == p.type = "reply" => p.dst = SearchBy[p.id[1]]

\* What SearchFirst has returned, and what is in its channel, is available.
Sound(c) ==
    /\ search[c].stage = "idle" => found[c] = {}
    /\ search[c].kind = "first" =>
           /\ \A x \in search[c].names : Available(SearchBy[c], x)
           /\ \A v \in found[c] : \A x \in v : Available(SearchBy[c], x)

FirstInv == (\A p \in flight : Addressed(p)) /\ \A c \in Search : Sound(c)

\* Nothing that is available is lost.
Grown ==
    \A n \in Node :
        /\ \A k \in Key : catalog[n][k] \subseteq catalog'[n][k]
        /\ \A x \in Name : Chunks(x) \subseteq blobs[n] => Chunks(x) \subseteq blobs'[n]

LEMMA AvailableStays ==
    ASSUME Grown, NEW n \in Node, NEW x \in Name, Available(n, x)
    PROVE  Available(n, x)'
<1>1. {Meta(x)} \cup Chunks(x) \subseteq Key
  BY FileTypes
<1>. QED
  BY <1>1 DEF Grown, Available

LEMMA SameGrown ==
    ASSUME UNCHANGED <<blobs, catalog>>
    PROVE  Grown
BY DEF Grown

\* No step takes a chunk away, or a peer off a catalog.
LEMMA NextGrown ==
    ASSUME TypeOK, Next
    PROVE  Grown
<1>1. ASSUME NEW c \in Search, SearchStep(c)
      PROVE  Grown
  BY <1>1, SameGrown DEF SearchStep, BeginAll, BeginFirst, Take, SearchTimeout, stores
<1>2. ASSUME NEW d \in Download, DownloadStep(d)
      PROVE  Grown
  <2>1. CASE FinishDownload(d)
    <3>1. By(d) \in Node
      BY FileTypes
    <3>2. catalog' = catalog /\ \A n \in Node : blobs[n] \subseteq blobs'[n]
      BY <2>1, <3>1 DEF FinishDownload, TypeOK
    <3>. QED
      BY <3>2 DEF Grown
  <2>2. CASE ~FinishDownload(d)
    BY <1>2, <2>2, SameGrown
       DEF DownloadStep, BeginDownload, LookLocal, AskPeer, TakePart, Resend, Fail, stores
  <2>. QED
    BY <2>1, <2>2
<1>3. ASSUME NEW p \in flight, Lose(p)
      PROVE  Grown
  BY <1>3, SameGrown DEF Lose, stores
<1>4. ASSUME NEW p \in flight, NEW n \in Node, NEW rest \in SUBSET flight, Receive(n, p, rest)
      PROVE  Grown
  <2>1. CASE HandleReply(n, p, rest)
    <3>1. blobs' = blobs /\ \A m \in Node, k \in Key : catalog[m][k] \subseteq catalog'[m][k]
      BY <2>1 DEF HandleReply, UpdateCatalog, TypeOK
    <3>. QED
      BY <3>1 DEF Grown
  <2>2. CASE ~HandleReply(n, p, rest)
    <3>1. UNCHANGED stores
      BY <1>4, <2>2 DEF Receive, Relay, HandleRequest, HandleGet, HandleData
    <3>. QED
      BY <3>1, SameGrown DEF stores
  <2>. QED
    BY <2>1, <2>2
<1>5. ASSUME NEW n \in Node, NEW x \in Replaced, UpdateAvatar(n, x)
      PROVE  Grown
  <2>1. x \in Name /\ \A y \in Name : Meta(x) \notin Chunks(y)
    BY StoreAssumption DEF Meta, Chunks
  <2>2. /\ catalog' = catalog
        /\ \A m \in Node : blobs'[m] = IF m = n THEN blobs[m] \ {Meta(x)} ELSE blobs[m]
    BY <1>5 DEF UpdateAvatar, TypeOK
  <2>. QED
    BY <2>1, <2>2 DEF Grown
<1>6. \A p \in flight : flight \ {p} \in SUBSET flight /\ flight \in SUBSET flight
  OBVIOUS
<1>. QED
  BY <1>1, <1>2, <1>3, <1>4, <1>5, <1>6 DEF Next

\* A step that neither searches nor hands an answer over.
LEMMA SoundStays ==
    ASSUME TypeOK, Grown, NEW c \in Search, Sound(c), search'[c] = search[c], found'[c] = found[c]
    PROVE  Sound(c)'
<1>1. /\ SearchBy[c] \in Node /\ search[c].names \subseteq Name
      /\ \A v \in found[c] : v \subseteq Name
  BY CallAssumption DEF TypeOK, SearchCall
<1>2. \A x \in Name : Available(SearchBy[c], x) => Available(SearchBy[c], x)'
  BY <1>1, AvailableStays
<1>. QED
  BY <1>1, <1>2 DEF Sound

\* A reply brings whole files, or the peer has their chunks: an answer to itself.
LEMMA ReplyAvailable ==
    ASSUME Inv, NEW p \in flight, NEW n \in Node, NEW rest \in SUBSET flight,
           HandleReply(n, p, rest), NEW f \in p.files, IsFull(f)
    PROVE  Available(n, f.name)'
<1>1. p \in Packet /\ p.type = "reply"
  BY DEF Inv, TypeOK, HandleReply, UpdateCatalog
<1>2. p.src \in Node /\ f \in FileInfo
  BY <1>1, PacketKinds
<1>3. Keys(f) = {Meta(f.name)} \cup Chunks(f.name) /\ f.name \in Name /\ Keys(f) \subseteq Key
  BY <1>2, FileTypes DEF Keys, IsFull, FileInfo
<1>4. CASE p.src = n
  <2>1. \A k \in Keys(f) : HasHeld(n, k)
    BY <1>1, <1>4 DEF Inv, FlightHonest, Honest
  <2>2. \A x \in Replaced : Meta(x) \notin Chunks(f.name)
    BY <1>3, StoreAssumption DEF Meta, Chunks
  <2>3. Chunks(f.name) \subseteq blobs[n]
    BY <1>3, <2>1, <2>2 DEF HasHeld
  <2>4. blobs' = blobs
    BY DEF HandleReply
  <2>. QED
    BY <2>3, <2>4 DEF Available
<1>5. CASE p.src # n
  <2>1. \A k \in Keys(f) : p.src \in catalog'[n][k]
    BY <1>3, <1>5 DEF Inv, TypeOK, HandleReply, UpdateCatalog
  <2>. QED
    BY <1>2, <1>3, <2>1 DEF Available
<1>. QED
  BY <1>4, <1>5

LEMMA ReplySound ==
    ASSUME Inv, FirstInv, Grown, NEW p \in flight, NEW n \in Node, NEW rest \in SUBSET flight,
           p.dst = n, HandleReply(n, p, rest)
    PROVE  \A c \in Search : Sound(c)'
<1>1. p \in Packet /\ p.type = "reply"
  BY DEF Inv, TypeOK, HandleReply, UpdateCatalog
<1>2. p.id[1] \in Search /\ SearchBy[p.id[1]] = n
  BY <1>1, PacketKinds DEF SearchId, FirstInv, Addressed
<1>3. search' = search
  BY DEF HandleReply
<1>4. \A c \in Search \ {p.id[1]} : found'[c] = found[c]
  BY DEF HandleReply, Inv, TypeOK
<1>5. PICK v \in Notices(p) :
          found'[p.id[1]] = found[p.id[1]] \/
              (found'[p.id[1]] = found[p.id[1]] \cup {v} /\ search[p.id[1]].stage = "wait")
  BY <1>2 DEF HandleReply, Inv, TypeOK
<1>6. CASE found'[p.id[1]] = found[p.id[1]]
  BY <1>3, <1>4, <1>6, SoundStays DEF Inv, FirstInv
<1>7. CASE found'[p.id[1]] = found[p.id[1]] \cup {v} /\ search[p.id[1]].stage = "wait"
  <2>. DEFINE c == p.id[1]
  <2>1. c \in Search /\ search'[c] = search[c] /\ search[c].stage = "wait" /\ SearchBy[c] = n
    BY <1>2, <1>3, <1>7
  <2>2. found'[c] = found[c] \cup {v}
    BY <1>7
  <2>3. search[c].kind = "first" => \A x \in v : Available(n, x)'
    <3>. SUFFICES ASSUME search[c].kind = "first", NEW x \in v
                  PROVE  Available(n, x)'
      OBVIOUS
    <3>1. \E f \in p.files : IsFull(f) /\ x = f.name
      BY DEF Notices
    <3>. QED
      BY <3>1, ReplyAvailable
  <2>4. /\ Sound(c) /\ search[c].names \subseteq Name /\ \A w \in found[c] : w \subseteq Name
    BY <2>1 DEF Inv, TypeOK, SearchCall, FirstInv
  <2>5. \A x \in Name : Available(n, x) => Available(n, x)'
    BY AvailableStays
  <2>. HIDE DEF c
  <2>6. Sound(c)'
    BY <2>1, <2>2, <2>3, <2>4, <2>5 DEF Sound
  <2>. QED
    BY <1>3, <1>4, <2>6, SoundStays DEF Inv, FirstInv, c
<1>. QED
  BY <1>5, <1>6, <1>7

\* A call returns a file that it holds in full, or takes the names of an answer.
LEMMA SearchSound ==
    ASSUME TypeOK, FirstInv, Grown, NEW c \in Search, SearchStep(c)
    PROVE  \A e \in Search : Sound(e)'
<1>1. \A e \in Search \ {c} : search'[e] = search[e] /\ found'[e] = found[e]
  BY DEF SearchStep, BeginAll, BeginFirst, ReturnLocal, Take, SearchTimeout, TypeOK
<1>2. /\ search[c] \in SearchCall /\ SearchBy[c] \in Node /\ Sound(c)
      /\ \A v \in found[c] : v \subseteq Name
  BY CallAssumption DEF TypeOK, FirstInv
<1>3. \A x \in Name : Available(SearchBy[c], x) => Available(SearchBy[c], x)'
  BY <1>2, AvailableStays
<1>4. CASE BeginAll(c)
  <2>1. search'[c].kind = "all" /\ search'[c].stage # "idle"
    BY <1>4 DEF BeginAll, ReturnLocal, Called, TypeOK
  <2>. QED
    BY <1>1, <2>1, SoundStays DEF FirstInv, Sound
<1>5. CASE BeginFirst(c)
  <2>1. search[c].stage = "idle" /\ found'[c] = found[c]
    BY <1>5 DEF BeginFirst
  <2>2. /\ search'[c].stage # "idle"
        /\ search'[c].names \subseteq {x \in names[SearchBy[c]] : Full(SearchBy[c], x)}
    BY <1>5 DEF BeginFirst, ReturnLocal, Called, TypeOK
  <2>3. \A x \in search'[c].names : x \in Name /\ Available(SearchBy[c], x)
    BY <1>2, <2>2 DEF TypeOK, Full, Available
  <2>4. Sound(c)'
    BY <1>2, <1>3, <2>1, <2>2, <2>3 DEF Sound
  <2>. QED
    BY <1>1, <2>4, SoundStays DEF FirstInv
<1>6. CASE Take(c)
  <2>1. PICK v \in found[c] :
            /\ found'[c] = found[c] \ {v}
            /\ search'[c] = Answered(search[c], v)
    BY <1>6 DEF Take, TypeOK
  <2>2. /\ search'[c].kind = search[c].kind /\ search'[c].stage \in {"wait", "done"}
        /\ search'[c].names = search[c].names \cup v
    BY <1>2, <2>1 DEF Answered, SearchCall
  <2>3. search[c].names \subseteq Name /\ v \subseteq Name
    BY <1>2, <2>1 DEF SearchCall
  <2>4. Sound(c)'
    BY <1>2, <1>3, <2>1, <2>2, <2>3 DEF Sound
  <2>. QED
    BY <1>1, <2>4, SoundStays DEF FirstInv
<1>7. CASE SearchTimeout(c)
  <2>1. /\ found'[c] \subseteq found[c] /\ search'[c].kind = search[c].kind
        /\ search'[c].stage \in {"wait", "done"} /\ search'[c].names = search[c].names
    BY <1>2, <1>7 DEF SearchTimeout, TypeOK, SearchCall
  <2>2. search[c].names \subseteq Name
    BY <1>2 DEF SearchCall
  <2>3. Sound(c)'
    BY <1>2, <1>3, <2>1, <2>2 DEF Sound
  <2>. QED
    BY <1>1, <2>3, SoundStays DEF FirstInv
<1>. QED
  BY <1>4, <1>5, <1>6, <1>7 DEF SearchStep

\* Every answer on its way after a step was there, or goes to the peer that searches.
LEMMA AddressedStays ==
    ASSUME TypeOK, \A p \in flight : Addressed(p), Next
    PROVE  \A p \in flight' : Addressed(p)
<1>1. ASSUME NEW c \in Search, SearchStep(c)
      PROVE  \A q \in flight' : q \in flight \/ q.type = "request"
  <2>1. flight' = flight \/ \E i : Attempt(c, i)
    BY <1>1 DEF SearchStep, BeginAll, BeginFirst, ReturnLocal, Take, SearchTimeout
  <2>2. ASSUME NEW i, Attempt(c, i)
        PROVE  \A q \in flight' : q \in flight \/ q.type = "request"
    BY <2>2 DEF Attempt, Fly, Requests
  <2>. QED
    BY <2>1, <2>2
<1>2. ASSUME NEW d \in Download, DownloadStep(d)
      PROVE  \A q \in flight' : q \in flight \/ q.type = "get"
  <2>1. flight' = flight \/ \E from : flight' = flight \cup {Get(d, from)}
    BY <1>2 DEF DownloadStep, BeginDownload, LookLocal, AskPeer, TakePart, Resend,
                FinishDownload, Fail, Fly
  <2>2. \A from : Get(d, from).type = "get"
    BY DEF Get
  <2>. QED
    BY <2>1, <2>2
<1>3. ASSUME NEW p \in flight, NEW n \in Node, NEW rest \in SUBSET flight, Receive(n, p, rest)
      PROVE  \A q \in flight' : Addressed(q)
  <2>1. CASE Relay(n, p, rest)
    <3>. DEFINE next == [p EXCEPT !.at = Route[n][p.dst]]
    <3>1. flight' \subseteq rest \cup {next}
      BY <2>1 DEF Relay, Fly
    <3>2. p \in Packet
      BY DEF TypeOK
    <3>3. next.type = p.type /\ next.dst = p.dst /\ next.id = p.id
      BY <3>2 DEF Packet, SearchRequestMessage, SearchReplyMessage, DataRequestMessage,
                  DataReplyMessage
    <3>. HIDE DEF next
    <3>. QED
      BY <3>1, <3>3 DEF Addressed
  <2>2. CASE HandleRequest(n, p, rest)
    <3>. DEFINE answer == [type |-> "reply", src |-> n, at |-> p.src,
                           dst |-> SearchBy[p.id[1]], id |-> p.id, files |-> Matches(n, p.id[1])]
    <3>1. Addressed(answer)
      BY DEF Addressed
    <3>2. \A q \in flight' : q \in flight \/ q.type = "request" \/ q = answer
      <4>1. \/ flight' = rest
            \/ \E share : flight' \subseteq rest \cup Requests(n, p.id, share) \cup {answer}
        BY <2>2 DEF HandleRequest, NeighboursExclude, Fly
      <4>2. \A share : \A q \in Requests(n, p.id, share) : q.type = "request"
        BY DEF Requests
      <4>. HIDE DEF answer
      <4>. QED
        BY <4>1, <4>2
    <3>. HIDE DEF answer
    <3>. QED
      BY <3>1, <3>2 DEF Addressed
  <2>3. CASE HandleReply(n, p, rest) \/ HandleData(n, p, rest)
    BY <2>3 DEF HandleReply, HandleData
  <2>4. CASE HandleGet(n, p, rest)
    <3>1. \A q \in flight' : q \in flight \/ q.type = "data"
      BY <2>4 DEF HandleGet, Fly
    <3>. QED
      BY <3>1 DEF Addressed
  <2>. QED
    BY <1>3, <2>1, <2>2, <2>3, <2>4 DEF Receive
<1>4. ASSUME NEW p \in flight, Lose(p)
      PROVE  \A q \in flight' : q \in flight
  BY <1>4 DEF Lose
<1>5. ASSUME NEW n \in Node, NEW x \in Replaced, UpdateAvatar(n, x)
      PROVE  flight' = flight
  BY <1>5 DEF UpdateAvatar
<1>6. \A p \in flight : flight \ {p} \in SUBSET flight /\ flight \in SUBSET flight
  OBVIOUS
<1>. QED
  BY <1>1, <1>2, <1>3, <1>4, <1>5, <1>6 DEF Next, Addressed

LEMMA NextSound ==
    ASSUME Inv, FirstInv, Next
    PROVE  FirstInv'
<1>. USE DEF Inv
<1>1. Grown /\ \A p \in flight' : Addressed(p)
  BY NextGrown, AddressedStays DEF FirstInv
<1>2. ASSUME NEW c \in Search, SearchStep(c)
      PROVE  \A e \in Search : Sound(e)'
  BY <1>1, <1>2, SearchSound
<1>3. ASSUME UNCHANGED <<search, found>>
      PROVE  \A e \in Search : Sound(e)'
  BY <1>1, <1>3, SoundStays DEF FirstInv
<1>4. ASSUME NEW p \in flight, NEW n \in Node, NEW rest \in SUBSET flight, Receive(n, p, rest)
      PROVE  \A e \in Search : Sound(e)'
  <2>1. CASE p.dst = n /\ HandleReply(n, p, rest)
    BY <1>1, <2>1, ReplySound
  <2>2. CASE ~(p.dst = n /\ HandleReply(n, p, rest))
    <3>1. UNCHANGED <<search, found>>
      BY <1>4, <2>2 DEF Receive, Relay, HandleRequest, HandleGet, HandleData, searchVars
    <3>. QED
      BY <1>3, <3>1
  <2>. QED
    BY <2>1, <2>2
<1>5. ASSUME NEW d \in Download, DownloadStep(d)
      PROVE  UNCHANGED <<search, found>>
  BY <1>5 DEF DownloadStep, BeginDownload, LookLocal, AskPeer, TakePart, Resend, FinishDownload,
              Fail, searchVars
<1>6. ASSUME NEW p \in flight, Lose(p)
      PROVE  UNCHANGED <<search, found>>
  BY <1>6 DEF Lose, searchVars
<1>7. ASSUME NEW n \in Node, NEW x \in Replaced, UpdateAvatar(n, x)
      PROVE  UNCHANGED <<search, found>>
  BY <1>7 DEF UpdateAvatar, searchVars
<1>8. \A p \in flight : flight \ {p} \in SUBSET flight /\ flight \in SUBSET flight
  OBVIOUS
<1>9. \A e \in Search : Sound(e)'
  <2>1. CASE UNCHANGED <<search, found>>
    BY <1>3, <2>1
  <2>2. CASE ~UNCHANGED <<search, found>>
    <3>1. \/ \E c \in Search : SearchStep(c)
          \/ \E p \in flight, n \in Node, rest \in SUBSET flight : Receive(n, p, rest)
      BY <1>5, <1>6, <1>7, <1>8, <2>2 DEF Next
    <3>. QED
      BY <1>2, <1>4, <3>1
  <2>. QED
    BY <2>1, <2>2
<1>. QED
  BY <1>1, <1>9 DEF FirstInv, Addressed

\* What SearchFirst returns can be downloaded, however late the answer was, and by whatever
\* way its request came back: updates of avatars take no chunk away, and no peer off a catalog.
THEOREM FirstsFound == Spec => []FirstFound
<1>1. Init => FirstInv
  BY DEF Init, FirstInv, Sound
<1>2. Inv /\ FirstInv /\ [Next]_vars => FirstInv'
  <2>1. CASE Inv /\ FirstInv /\ Next
    BY <2>1, NextSound
  <2>2. CASE Inv /\ FirstInv /\ UNCHANGED vars
    BY <2>2 DEF FirstInv, Addressed, Sound, Available, vars, stores, searchVars
  <2>. QED
    BY <2>1, <2>2
<1>3. FirstInv => FirstFound
  BY DEF FirstInv, Sound, Available, FirstFound
<1>. QED
  BY <1>1, <1>2, <1>3, InvHolds, PTL DEF Spec

-----------------------------------------------------------------------------
(* The budget of a search                                                  *)

\* What the requests P may still spend: a request with budget b stands for b - 1
\* requests that its peer may pass on.
Spendable(P) == UNION {{p} \X (1 .. p.budget - 1) : p \in P}

\* The requests under an id that will not be dropped as repeated.
Live(id) == {p \in flight : p.type = "request" /\ p.id = id /\ id \notin processed[p.at]}

\* The call has not come to the attempt.
Unused(c, i) == search[c].stage = "idle" \/ i > search[c].attempt

NoneSent(c, i) ==
    asked[c][i] = 0 /\ \A p \in flight : p.type = "request" => p.id # <<c, i>>

\* What was sent and what may still be sent are within the budget.
InBudget(c, i) == asked[c][i] + Cardinality(Spendable(Live(<<c, i>>))) <= Budget[i]

\* A request is sent to the peer it is for: it is never relayed.
Spent ==
    /\ IsFiniteSet(flight)
    /\ \A p \in flight : p.type = "request" => p.at = p.dst
    /\ \A c \in Search, i \in 0 .. Retry - 1 :
           InBudget(c, i) /\ (Unused(c, i) => NoneSent(c, i))

\* A call that waits has neighbours to ask.
Connected == \A c \in Search : search[c].stage = "wait" => Neighbours[SearchBy[c]] # {}

LEMMA SpendableFinite ==
    ASSUME NEW P, IsFiniteSet(P), \A p \in P : p.budget \in Nat
    PROVE  IsFiniteSet(Spendable(P)) /\ Cardinality(Spendable(P)) \in Nat
<1>. DEFINE S == {{p} \X (1 .. p.budget - 1) : p \in P}
            f == [p \in P |-> {p} \X (1 .. p.budget - 1)]
<1>1. IsFiniteSet(S)
  <2>1. f \in Surjection(P, S)
    BY DEF Surjection
  <2>. HIDE DEF f, S
  <2>. QED
    BY <2>1, FS_Surjection
<1>2. ASSUME NEW p \in P
      PROVE  IsFiniteSet({p} \X (1 .. p.budget - 1))
  <2>1. p.budget - 1 \in Int /\ 1 \in Int
    OBVIOUS
  <2>2. IsFiniteSet(1 .. p.budget - 1) /\ IsFiniteSet({p})
    BY <2>1, FS_Interval, FS_Singleton
  <2>. QED
    BY <2>2, FS_Product
<1>3. \A T \in S : IsFiniteSet(T)
  BY <1>2
<1>4. IsFiniteSet(UNION S)
  <2>. HIDE DEF S
  <2>. QED
    BY <1>1, <1>3, FS_UNION
<1>5. Spendable(P) = UNION S
  BY DEF Spendable
<1>. HIDE DEF S
<1>. QED
  BY <1>4, <1>5, FS_CardinalityType

LEMMA SpendableSubset ==
    ASSUME NEW P, NEW Q \in SUBSET P, IsFiniteSet(P), \A p \in P : p.budget \in Nat
    PROVE  /\ Cardinality(Spendable(Q)) \in Nat
           /\ Cardinality(Spendable(Q)) <= Cardinality(Spendable(P))
<1>1. IsFiniteSet(Q)
  BY FS_Subset
<1>2. Spendable(Q) \in SUBSET Spendable(P)
  BY DEF Spendable
<1>. QED
  BY <1>1, <1>2, SpendableFinite, FS_Subset

\* The budget of a request that is handled leaves the sum.
LEMMA SpendableWithout ==
    ASSUME NEW P, IsFiniteSet(P), \A p \in P : p.budget \in Nat, NEW p \in P
    PROVE  /\ Cardinality(Spendable(P \ {p})) \in Nat
           /\ Cardinality(Spendable(P \ {p})) <= Cardinality(Spendable(P))
           /\ p.budget > 0 => Cardinality(Spendable(P \ {p})) + (p.budget - 1)
                                  = Cardinality(Spendable(P))
<1>1. /\ Cardinality(Spendable(P \ {p})) \in Nat
      /\ Cardinality(Spendable(P \ {p})) <= Cardinality(Spendable(P))
  BY SpendableSubset
<1>2. ASSUME p.budget > 0
      PROVE  Cardinality(Spendable(P \ {p})) + (p.budget - 1) = Cardinality(Spendable(P))
  <2>. DEFINE own == {p} \X (1 .. p.budget - 1)
              other == Spendable(P \ {p})
  <2>1. IsFiniteSet(own) /\ Cardinality(own) = p.budget - 1
    <3>1. PICK b \in Nat : b = p.budget - 1
      BY <1>2
    <3>2. IsFiniteSet(1 .. b) /\ Cardinality(1 .. b) = b
      <4>1. /\ IsFiniteSet(1 .. b)
            /\ Cardinality(1 .. b) = IF 1 > b THEN 0 ELSE b - 1 + 1
        BY FS_Interval
      <4>. QED
        BY <4>1
    <3>3. IsFiniteSet({p}) /\ Cardinality({p}) = 1
      BY FS_Singleton
    <3>4. IsFiniteSet({p} \X (1 .. b)) /\ Cardinality({p} \X (1 .. b)) = 1 * b
      BY <3>2, <3>3, FS_Product
    <3>. QED
      BY <3>1, <3>4
  <2>2. IsFiniteSet(other) /\ Cardinality(other) \in Nat
    <3>1. IsFiniteSet(P \ {p})
      BY FS_Subset
    <3>. QED
      BY <3>1, SpendableFinite
  <2>3. Spendable(P) = other \cup own /\ other \cap own = {}
    BY DEF Spendable
  <2>. HIDE DEF own, other
  <2>4. Cardinality(other \cup own) = Cardinality(other) + Cardinality(own)
    <3>1. Cardinality(other \cap own) = 0
      BY <2>3, FS_EmptySet
    <3>2. Cardinality(other \cup own)
              = Cardinality(other) + Cardinality(own) - Cardinality(other \cap own)
      BY <2>1, <2>2, FS_Union
    <3>3. Cardinality(own) \in Nat
      BY <2>1, FS_CardinalityType
    <3>. QED
      BY <2>2, <3>1, <3>2, <3>3
  <2>. QED
    BY <2>1, <2>2, <2>3, <2>4 DEF other
<1>. QED
  BY <1>1, <1>2

\* What the shares leave to the peers for passing on.
Passed(share) == UNION {{m} \X (1 .. share[m] - 1) : m \in DOMAIN share}

LEMMA TimesLess ==
    ASSUME NEW k \in Nat, NEW q \in Nat \ {0}
    PROVE  k * (q - 1) \in Nat /\ k * (q - 1) + k = k * q
<1>1. PICK j \in Nat : q = j + 1
  <2>1. q - 1 \in Nat /\ q = (q - 1) + 1
    OBVIOUS
  <2>. QED
    BY <2>1
<1>2. k * (j + 1) = k * j + k /\ k * j \in Nat
  OBVIOUS
<1>. QED
  BY <1>1, <1>2

\* Shares spend what there is: one for each request, the rest for passing on.
LEMMA SharesSpend ==
    ASSUME NEW total \in Nat, NEW S \in SUBSET Node, S # {}, NEW share \in Shares(total, S)
    PROVE  /\ IsFiniteSet(DOMAIN share) /\ IsFiniteSet(Passed(share))
           /\ Cardinality(DOMAIN share) + Cardinality(Passed(share)) <= total
<1>. DEFINE k == Cardinality(S)
<1>1. IsFiniteSet(S) /\ k \in Nat /\ k > 0
  BY NodeAssumption, FS_Subset, FS_EmptySet, FS_CardinalityType
<1>2. CASE total <= k
  <2>1. PICK T \in kSubset(total, S) : share = [m \in T |-> 1]
    BY <1>2 DEF Shares
  <2>2. T \subseteq S /\ Cardinality(T) = total
    BY DEF kSubset
  <2>3. IsFiniteSet(T)
    BY <1>1, <2>2, FS_Subset
  <2>4. Passed(share) = {}
    <3>. SUFFICES ASSUME NEW t \in Passed(share)
                  PROVE  FALSE
      OBVIOUS
    <3>1. PICK m \in T : t \in {m} \X (1 .. share[m] - 1)
      BY <2>1 DEF Passed
    <3>2. share[m] - 1 = 0
      BY <2>1
    <3>. QED
      BY <3>1, <3>2
  <2>5. DOMAIN share = T
    BY <2>1
  <2>. QED
    BY <2>2, <2>3, <2>4, <2>5, FS_EmptySet
<1>3. CASE ~(total <= k)
  <2>. DEFINE q == total \div k
              r == total % k
  <2>1. PICK T \in kSubset(r, S) : share = [m \in S |-> q + (IF m \in T THEN 1 ELSE 0)]
    BY <1>3 DEF Shares
  <2>2. T \subseteq S /\ Cardinality(T) = r
    BY DEF kSubset
  <2>3. q \in Nat /\ r \in Nat /\ q > 0 /\ total = k * q + r
    BY <1>1, <1>3
  <2>. HIDE DEF q, r, k
  <2>4. k * (q - 1) \in Nat /\ k * (q - 1) + k = k * q
    BY <1>1, <2>3, TimesLess
  <2>. DEFINE A == S \X (1 .. q - 1)
              B == T \X {q}
  <2>5. IsFiniteSet(A) /\ Cardinality(A) = k * (q - 1)
    <3>1. 1 \in Int /\ q - 1 \in Int /\ q - 1 \in Nat
      BY <2>3
    <3>2. IsFiniteSet(1 .. q - 1) /\ Cardinality(1 .. q - 1) = IF 1 > q - 1 THEN 0 ELSE q - 1 - 1 + 1
      BY <3>1, FS_Interval
    <3>3. Cardinality(1 .. q - 1) = q - 1
      BY <3>1, <3>2
    <3>. QED
      BY <1>1, <3>2, <3>3, FS_Product DEF k
  <2>6. IsFiniteSet(B) /\ Cardinality(B) = r
    <3>1. IsFiniteSet(T) /\ IsFiniteSet({q}) /\ Cardinality({q}) = 1
      BY <1>1, <2>2, FS_Subset, FS_Singleton
    <3>2. IsFiniteSet(B) /\ Cardinality(B) = r * 1
      BY <2>2, <3>1, FS_Product
    <3>. QED
      BY <2>3, <3>2
  <2>7. Passed(share) \in SUBSET (A \cup B)
    <3>. SUFFICES ASSUME NEW t \in Passed(share)
                  PROVE  t \in A \cup B
      OBVIOUS
    <3>5. PICK m \in S : t \in {m} \X (1 .. share[m] - 1)
      BY <2>1 DEF Passed
    <3>6. share[m] \in Nat
      BY <2>1, <2>3
    <3>1. PICK j \in Nat \ {0} : t = <<m, j>> /\ j < share[m]
      BY <3>5, <3>6
    <3>2. share[m] = q + 1 \/ (share[m] = q /\ m \notin T)
      BY <2>1, <2>3
    <3>3. CASE j < q
      <4>1. j \in 1 .. q - 1
        BY <2>3, <3>3
      <4>. QED
        BY <3>1, <4>1
    <3>4. CASE ~ (j < q)
      <4>1. j = q /\ m \in T
        BY <2>1, <2>3, <3>1, <3>2, <3>4
      <4>. QED
        BY <3>1, <4>1
    <3>. QED
      BY <3>3, <3>4
  <2>8. /\ IsFiniteSet(Passed(share)) /\ Cardinality(Passed(share)) \in Nat
        /\ Cardinality(Passed(share)) <= k * (q - 1) + r
    <3>. HIDE DEF A, B
    <3>1. /\ IsFiniteSet(A \cup B)
          /\ Cardinality(A \cup B) = Cardinality(A) + Cardinality(B) - Cardinality(A \cap B)
      BY <2>5, <2>6, FS_Union
    <3>2. Cardinality(A \cap B) \in Nat /\ Cardinality(A \cup B) \in Nat
      BY <2>5, <3>1, FS_Intersection, FS_CardinalityType
    <3>3. /\ IsFiniteSet(Passed(share))
          /\ Cardinality(Passed(share)) <= Cardinality(A \cup B)
          /\ Cardinality(Passed(share)) \in Nat
      BY <2>7, <3>1, FS_Subset, FS_CardinalityType
    <3>. QED
      BY <2>3, <2>4, <2>5, <2>6, <3>1, <3>2, <3>3
  <2>9. DOMAIN share = S
    BY <2>1
  <2>10. k + Cardinality(Passed(share)) <= total
    BY <1>1, <2>3, <2>4, <2>8
  <2>. QED
    BY <1>1, <2>8, <2>9, <2>10 DEF k
<1>. QED
  BY <1>2, <1>3

\* The requests of a share may spend what it leaves for passing on.
LEMMA RequestsSpend ==
    ASSUME NEW n, NEW id, NEW share, share \in [DOMAIN share -> Nat],
           IsFiniteSet(DOMAIN share), IsFiniteSet(Passed(share))
    PROVE  /\ IsFiniteSet(Requests(n, id, share))
           /\ Cardinality(Spendable(Requests(n, id, share))) <= Cardinality(Passed(share))
           /\ \A p \in Requests(n, id, share) :
                  p.type = "request" /\ p.id = id /\ p.at = p.dst /\ p.budget \in Nat
<1>. DEFINE R == Requests(n, id, share)
            req(m) == [type |-> "request", src |-> n, at |-> m, dst |-> m, id |-> id,
                       budget |-> share[m]]
            f == [m \in DOMAIN share |-> req(m)]
            g == [t \in Passed(share) |-> <<req(t[1]), t[2]>>]
<1>1. R = {req(m) : m \in DOMAIN share}
  BY DEF Requests
<1>2. \A m \in DOMAIN share : req(m).budget = share[m] /\ share[m] \in Nat
  OBVIOUS
<1>3. \A p \in R : p.type = "request" /\ p.id = id /\ p.at = p.dst /\ p.budget \in Nat
  BY <1>1, <1>2
<1>4. IsFiniteSet(R)
  <2>1. f \in Surjection(DOMAIN share, R)
    BY <1>1 DEF Surjection
  <2>. HIDE DEF f, R
  <2>. QED
    BY <2>1, FS_Surjection
<1>5. Cardinality(Spendable(R)) <= Cardinality(Passed(share))
  <2>1. \A t \in Passed(share) : g[t] \in Spendable(R)
    <3>. SUFFICES ASSUME NEW m \in DOMAIN share, NEW j \in 1 .. share[m] - 1
                  PROVE  <<req(m), j>> \in Spendable(R)
      BY DEF Passed
    <3>1. req(m) \in R /\ req(m).budget = share[m]
      BY <1>1
    <3>. HIDE DEF req, R
    <3>. QED
      BY <3>1 DEF Spendable
  <2>2. ASSUME NEW y \in Spendable(R)
        PROVE  \E t \in Passed(share) : g[t] = y
    <3>1. PICK p \in R : y \in {p} \X (1 .. p.budget - 1)
      BY DEF Spendable
    <3>2. PICK m \in DOMAIN share : p = req(m)
      BY <1>1, <3>1
    <3>3. PICK j \in 1 .. share[m] - 1 : y = <<req(m), j>>
      BY <3>1, <3>2
    <3>4. <<m, j>> \in Passed(share)
      BY DEF Passed
    <3>. QED
      BY <3>3, <3>4
  <2>3. g \in Surjection(Passed(share), Spendable(R))
    <3>1. DOMAIN g = Passed(share) /\ g \in [Passed(share) -> Spendable(R)]
      BY <2>1
    <3>. HIDE DEF g, R
    <3>. QED
      BY <2>2, <3>1 DEF Surjection
  <2>. HIDE DEF g, R
  <2>. QED
    BY <2>3, FS_Surjection
<1>. QED
  BY <1>3, <1>4, <1>5

\* Requests that are live were live or are new.
LEMMA LiveAfter ==
    ASSUME TypeOK, NEW id, NEW New, \A m \in Node : processed[m] \subseteq processed'[m],
           \A p \in flight' : p \in flight \/ p \in New \/ p.type # "request",
           \A p \in New : p.type = "request" => p.at \in Node
    PROVE  Live(id)' \subseteq Live(id) \cup {p \in New : p.id = id}
<1>. SUFFICES ASSUME NEW p \in Live(id)', p \notin New
              PROVE  p \in Live(id)
  BY DEF Live
<1>1. p \in flight /\ p.at \in Node
  <2>1. p \in flight
    BY DEF Live
  <2>. QED
    BY <2>1, PacketKinds DEF TypeOK
<1>. QED
  BY <1>1 DEF Live

LEMMA LiveFinite ==
    ASSUME TypeOK, IsFiniteSet(flight), NEW id
    PROVE  /\ IsFiniteSet(Live(id)) /\ \A p \in Live(id) : p.budget \in Nat
           /\ Cardinality(Spendable(Live(id))) \in Nat
<1>1. Live(id) \in SUBSET flight
  BY DEF Live
<1>2. IsFiniteSet(Live(id))
  BY <1>1, FS_Subset
<1>3. \A p \in Live(id) : p.budget \in Nat
  BY <1>1, PacketKinds DEF Live, TypeOK
<1>. QED
  BY <1>2, <1>3, SpendableFinite

\* Steps that send no request spend nothing.
LEMMA KeepSpent ==
    ASSUME TypeOK, Spent, UNCHANGED <<asked, processed>>, IsFiniteSet(flight'),
           \A p \in flight' : p \in flight \/ p.type # "request",
           \A c \in Search, i \in 0 .. Retry - 1 : Unused(c, i)' => Unused(c, i)
    PROVE  Spent'
<1>1. \A p \in flight' : p.type = "request" => p.at = p.dst
  BY DEF Spent
<1>2. ASSUME NEW c \in Search, NEW i \in 0 .. Retry - 1
      PROVE  InBudget(c, i)' /\ (Unused(c, i)' => NoneSent(c, i)')
  <2>1. InBudget(c, i) /\ (Unused(c, i) => NoneSent(c, i))
    BY <1>2 DEF Spent
  <2>2. Live(<<c, i>>)' \subseteq Live(<<c, i>>)
    BY DEF Live
  <2>3. /\ Cardinality(Spendable(Live(<<c, i>>)')) \in Nat
        /\ Cardinality(Spendable(Live(<<c, i>>)')) <= Cardinality(Spendable(Live(<<c, i>>)))
    BY <2>2, LiveFinite, SpendableSubset DEF Spent
  <2>4. Cardinality(Spendable(Live(<<c, i>>))) \in Nat
    BY LiveFinite DEF Spent
  <2>5. asked[c][i] \in Nat /\ Budget[i] \in Nat
    BY CallAssumption DEF TypeOK
  <2>6. InBudget(c, i)'
    <3>1. InBudget(c, i)' = (asked'[c][i] + Cardinality(Spendable(Live(<<c, i>>)')) <= Budget[i])
      BY DEF InBudget, Spendable
    <3>. QED
      BY <2>1, <2>3, <2>4, <2>5, <3>1 DEF InBudget
  <2>7. Unused(c, i)' => NoneSent(c, i)'
    BY <2>1 DEF NoneSent
  <2>. QED
    BY <2>6, <2>7
<1>. QED
  BY <1>1, <1>2 DEF Spent

LEMMA CountOf ==
    ASSUME TypeOK, NEW c \in Search, NEW i \in 0 .. Retry - 1, NEW share,
           asked' = Count(<<c, i>>, share)
    PROVE  /\ asked'[c][i] = asked[c][i] + Cardinality(DOMAIN share)
           /\ \A d \in Search, j \in 0 .. Retry - 1 :
                  <<d, j>> # <<c, i>> => asked'[d][j] = asked[d][j]
<1>1. PICK row : row = [asked[c] EXCEPT ![i] = @ + Cardinality(DOMAIN share)]
  OBVIOUS
<1>2. asked' = [asked EXCEPT ![c] = row]
  BY <1>1 DEF Count
<1>3. DOMAIN asked = Search /\ DOMAIN asked[c] = 0 .. Retry - 1
  BY DEF TypeOK
<1>4. asked'[c] = row /\ \A d \in Search \ {c} : asked'[d] = asked[d]
  BY <1>2, <1>3
<1>5. /\ row[i] = asked[c][i] + Cardinality(DOMAIN share)
      /\ \A j \in (0 .. Retry - 1) \ {i} : row[j] = asked[c][j]
  BY <1>1, <1>3
<1>. QED
  BY <1>4, <1>5

\* Requests under an id leave what was sent under the others.
LEMMA OthersSpent ==
    ASSUME TypeOK, Spent, NEW c \in Search, NEW i \in 0 .. Retry - 1, NEW share, NEW New,
           asked' = Count(<<c, i>>, share),
           \A m \in Node : processed[m] \subseteq processed'[m],
           \A p \in flight' : p \in flight \/ p \in New \/ p.type # "request",
           \A p \in New : p.type = "request" => p.at \in Node /\ p.id = <<c, i>>,
           NEW d \in Search, NEW j \in 0 .. Retry - 1, <<d, j>> # <<c, i>>,
           Unused(d, j)' => Unused(d, j)
    PROVE  InBudget(d, j)' /\ (Unused(d, j)' => NoneSent(d, j)')
<1>1. InBudget(d, j) /\ (Unused(d, j) => NoneSent(d, j))
  BY DEF Spent
<1>2. asked'[d][j] = asked[d][j] /\ asked[d][j] \in Nat /\ Budget[j] \in Nat
  <2>1. asked'[d][j] = asked[d][j]
    BY CountOf
  <2>2. asked[d][j] \in Nat /\ Budget[j] \in Nat
    BY SMTT(20), CallAssumption DEF TypeOK
  <2>. QED
    BY <2>1, <2>2
<1>3. Live(<<d, j>>)' \subseteq Live(<<d, j>>)
  <2>1. Live(<<d, j>>)' \subseteq Live(<<d, j>>) \cup {p \in New : p.id = <<d, j>>}
    BY LiveAfter
  <2>2. \A p \in Live(<<d, j>>)' : p.type = "request"
    BY DEF Live
  <2>. QED
    BY <2>1, <2>2
<1>4. /\ Cardinality(Spendable(Live(<<d, j>>)')) \in Nat
      /\ Cardinality(Spendable(Live(<<d, j>>)')) <= Cardinality(Spendable(Live(<<d, j>>)))
      /\ Cardinality(Spendable(Live(<<d, j>>))) \in Nat
  BY <1>3, LiveFinite, SpendableSubset DEF Spent
<1>5. InBudget(d, j)'
  <2>1. InBudget(d, j)' = (asked'[d][j] + Cardinality(Spendable(Live(<<d, j>>)')) <= Budget[j])
    BY DEF InBudget, Spendable
  <2>. QED
    BY <1>1, <1>2, <1>4, <2>1 DEF InBudget
<1>6. Unused(d, j) => NoneSent(d, j)'
  BY <1>1, <1>2 DEF NoneSent
<1>. QED
  BY <1>5, <1>6

\* The first requests under an id spend its budget.
LEMMA AttemptSpent ==
    ASSUME TypeOK, Spent, NEW c \in Search, NEW i \in 0 .. Retry - 1, Attempt(c, i),
           Neighbours[SearchBy[c]] # {}, Unused(c, i), UNCHANGED processed,
           \A d \in Search, j \in 0 .. Retry - 1 :
               Unused(d, j)' => Unused(d, j) /\ <<d, j>> # <<c, i>>
    PROVE  Spent'
<1>1. PICK n \in Node : n = SearchBy[c]
  BY CallAssumption
<1>2. PICK share \in Shares(Budget[i], Neighbours[n]) :
          /\ flight' = flight \cup Requests(n, <<c, i>>, share)
          /\ asked' = Count(<<c, i>>, share)
  BY <1>1 DEF Attempt, Fly
<1>3. Budget[i] \in Nat /\ Neighbours[n] \in SUBSET Node
  BY CallAssumption, NodeAssumption
<1>4. DOMAIN share \subseteq Neighbours[n] /\ share \in [DOMAIN share -> Nat]
  BY <1>3, SharesType
<1>5. /\ IsFiniteSet(DOMAIN share) /\ IsFiniteSet(Passed(share))
      /\ Cardinality(DOMAIN share) + Cardinality(Passed(share)) <= Budget[i]
  BY <1>1, <1>3, SharesSpend
<1>6. PICK New : New = Requests(n, <<c, i>>, share)
  OBVIOUS
<1>7. /\ IsFiniteSet(New)
      /\ Cardinality(Spendable(New)) <= Cardinality(Passed(share))
      /\ \A p \in New : p.type = "request" /\ p.id = <<c, i>> /\ p.at = p.dst /\ p.budget \in Nat
  BY <1>4, <1>5, <1>6, RequestsSpend
<1>8. \A p \in New : p.at \in Node
  BY <1>3, <1>4, <1>6 DEF Requests
<1>9. flight' = flight \cup New
  BY <1>2, <1>6
<1>10. IsFiniteSet(flight') /\ \A p \in flight' : p.type = "request" => p.at = p.dst
  BY <1>7, <1>9, FS_Union DEF Spent
<1>11. InBudget(c, i)'
  <2>1. NoneSent(c, i)
    BY DEF Spent
  <2>2. Live(<<c, i>>)' \subseteq New
    BY <1>9, <2>1 DEF Live, NoneSent
  <2>3. /\ Cardinality(Spendable(Live(<<c, i>>)')) \in Nat
        /\ Cardinality(Spendable(Live(<<c, i>>)')) <= Cardinality(Spendable(New))
        /\ Cardinality(Spendable(New)) \in Nat
    BY <1>7, <2>2, SpendableSubset, SpendableFinite
  <2>4. asked'[c][i] = Cardinality(DOMAIN share)
    <3>1. asked'[c][i] = 0 + Cardinality(DOMAIN share)
      BY <1>2, <2>1, CountOf DEF NoneSent
    <3>2. Cardinality(DOMAIN share) \in Nat
      BY <1>5, FS_CardinalityType
    <3>. QED
      BY <3>1, <3>2
  <2>5. InBudget(c, i)' = (asked'[c][i] + Cardinality(Spendable(Live(<<c, i>>)')) <= Budget[i])
    BY DEF InBudget, Spendable
  <2>6. Cardinality(DOMAIN share) \in Nat /\ Cardinality(Passed(share)) \in Nat
    BY <1>5, FS_CardinalityType
  <2>7. Cardinality(DOMAIN share) + Cardinality(Spendable(Live(<<c, i>>)')) <= Budget[i]
    <3>1. PICK k \in Nat, s \in Nat, w \in Nat, y \in Nat :
              /\ k = Cardinality(DOMAIN share) /\ s = Cardinality(Passed(share))
              /\ w = Cardinality(Spendable(New)) /\ y = Cardinality(Spendable(Live(<<c, i>>)'))
      BY <2>3, <2>6
    <3>2. k + s <= Budget[i] /\ w <= s /\ y <= w
      BY <1>5, <1>7, <2>3, <3>1
    <3>3. k + y <= Budget[i]
      BY <1>3, <3>2
    <3>. QED
      BY <3>1, <3>3
  <2>. QED
    BY <2>4, <2>5, <2>7
<1>12. ASSUME NEW d \in Search, NEW j \in 0 .. Retry - 1, <<d, j>> # <<c, i>>
       PROVE  InBudget(d, j)' /\ (Unused(d, j)' => NoneSent(d, j)')
  <2>1. \A p \in flight' : p \in flight \/ p \in New \/ p.type # "request"
    BY <1>9
  <2>2. \A p \in New : p.type = "request" => p.at \in Node /\ p.id = <<c, i>>
    BY <1>7, <1>8
  <2>3. Unused(d, j)' => Unused(d, j)
    OBVIOUS
  <2>. QED
    BY <1>2, <1>12, <2>1, <2>2, <2>3, OthersSpent
<1>13. \A d \in Search, j \in 0 .. Retry - 1 :
           InBudget(d, j)' /\ (Unused(d, j)' => NoneSent(d, j)')
  BY <1>11, <1>12
<1>. QED
  BY <1>10, <1>13 DEF Spent

\* A request that is passed on is paid with the budget it came with.
LEMMA RequestSpent ==
    ASSUME TypeOK, Spent, NEW p \in flight, NEW n \in Node, NEW rest \in SUBSET flight,
           p.at = n, HandleRequest(n, p, rest)
    PROVE  Spent'
<1>1. /\ p.type = "request" /\ p.id \in SearchId /\ p.budget \in Nat /\ p.src \in Node
      /\ UNCHANGED search /\ IsFiniteSet(rest)
  BY PacketKinds, FS_Subset DEF HandleRequest, NeighboursExclude, TypeOK, Spent
<1>2. CASE p.id \in processed[n] /\ flight' = rest /\ UNCHANGED <<processed, asked>>
  BY <1>1, <1>2, KeepSpent DEF Unused
<1>3. CASE p.id \notin processed[n]
  <2>1. PICK c \in Search, i \in 0 .. Retry - 1 : p.id = <<c, i>>
    BY <1>1 DEF SearchId
  <2>16. PICK others \in SUBSET Node : others = Neighbours[n] \ {p.src}
    BY NodeAssumption
  <2>2. PICK extra :
            /\ IsFiniteSet(extra) /\ \A q \in extra : q.type # "request"
            /\ \E share \in IF Remaining(p) > 0 /\ others # {}
                            THEN Shares(Remaining(p), others) ELSE {<< >>} :
                   /\ asked' = Count(p.id, share)
                   /\ flight' = rest \cup Requests(n, p.id, share) \cup extra
            /\ processed' = [processed EXCEPT ![n] = @ \cup {p.id}]
    <3>. DEFINE files == Matches(n, p.id[1])
                answer == [type |-> "reply", src |-> n, at |-> p.src,
                           dst |-> SearchBy[p.id[1]], id |-> p.id, files |-> files]
                extra == IF files = {} THEN {} ELSE {answer}
    <3>1. \E share \in IF Remaining(p) > 0 /\ Neighbours[n] \ {p.src} # {}
                       THEN Shares(Remaining(p), Neighbours[n] \ {p.src}) ELSE {<< >>} :
              /\ asked' = Count(p.id, share)
              /\ flight' = rest \cup Requests(n, p.id, share) \cup extra
      BY <1>3 DEF HandleRequest, NeighboursExclude, Fly
    <3>2. processed' = [processed EXCEPT ![n] = @ \cup {p.id}]
      BY <1>3 DEF HandleRequest, NeighboursExclude
    <3>3. IsFiniteSet(extra) /\ \A q \in extra : q.type # "request"
      <4>1. answer.type # "request"
        OBVIOUS
      <4>. HIDE DEF answer, files
      <4>2. extra = {} \/ extra = {answer}
        OBVIOUS
      <4>3. IsFiniteSet(extra)
        BY <4>2, FS_EmptySet, FS_Singleton
      <4>. QED
        BY <4>1, <4>2, <4>3
    <3>. HIDE DEF extra
    <3>. QED
      BY <2>16, <3>1, <3>2, <3>3
  <2>3. PICK share : /\ asked' = Count(<<c, i>>, share)
                     /\ flight' = rest \cup Requests(n, <<c, i>>, share) \cup extra
                     /\ IF Remaining(p) > 0 /\ others # {}
                        THEN share \in Shares(Remaining(p), others) ELSE share = << >>
    BY <2>1, <2>2
  <2>4. /\ share \in [DOMAIN share -> Nat] /\ DOMAIN share \subseteq others
        /\ IsFiniteSet(DOMAIN share) /\ IsFiniteSet(Passed(share))
        /\ \/ /\ p.budget > 0
              /\ Cardinality(DOMAIN share) + Cardinality(Passed(share)) <= p.budget - 1
           \/ Cardinality(DOMAIN share) = 0 /\ Cardinality(Passed(share)) = 0
    <3>1. CASE Remaining(p) > 0 /\ others # {}
      <4>1. Remaining(p) = p.budget - 1 /\ Remaining(p) \in Nat /\ p.budget > 0
        BY <1>1, <3>1 DEF Remaining
      <4>2. share \in Shares(Remaining(p), others)
        BY <2>3, <3>1
      <4>3. DOMAIN share \subseteq others /\ share \in [DOMAIN share -> Nat]
        BY <4>1, <4>2, SharesType
      <4>4. /\ IsFiniteSet(DOMAIN share) /\ IsFiniteSet(Passed(share))
            /\ Cardinality(DOMAIN share) + Cardinality(Passed(share)) <= Remaining(p)
        BY <3>1, <4>1, <4>2, SharesSpend
      <4>. QED
        BY <4>1, <4>3, <4>4
    <3>2. CASE ~(Remaining(p) > 0 /\ others # {})
      <4>1. share = << >> /\ << >> \in Seq(Nat) /\ Len(<< >>) = 0
        BY <2>3, <3>2
      <4>2. DOMAIN << >> = 1 .. 0 /\ << >> \in [1 .. 0 -> Nat]
        BY <4>1
      <4>3. DOMAIN share = {}
        BY <4>1, <4>2
      <4>4. Passed(share) = {}
        BY <4>3 DEF Passed
      <4>. QED
        BY <4>1, <4>2, <4>3, <4>4, FS_EmptySet
    <3>. QED
      BY <3>1, <3>2
  <2>5. PICK New : New = Requests(n, <<c, i>>, share)
    OBVIOUS
  <2>6. /\ IsFiniteSet(New)
        /\ Cardinality(Spendable(New)) <= Cardinality(Passed(share))
        /\ \A q \in New : q.type = "request" /\ q.id = <<c, i>> /\ q.at = q.dst /\ q.budget \in Nat
    BY <2>4, <2>5, RequestsSpend
  <2>7. \A q \in New : q.at \in Node
    BY <2>2, <2>4, <2>5 DEF Requests
  <2>8. flight' = rest \cup New \cup extra
    BY <2>3, <2>5
  <2>9. IsFiniteSet(flight') /\ \A q \in flight' : q.type = "request" => q.at = q.dst
    <3>1. IsFiniteSet(rest \cup New)
      BY <1>1, <2>6, FS_Union
    <3>2. IsFiniteSet((rest \cup New) \cup extra)
      BY <2>2, <3>1, FS_Union
    <3>. QED
      BY <2>2, <2>6, <2>8, <3>2 DEF Spent
  <2>10. \A q \in flight' : q \in flight \/ q \in New \/ q.type # "request"
    BY <2>2, <2>8
  <2>11. \A m \in Node : processed[m] \subseteq processed'[m]
    BY <2>2 DEF TypeOK
  <2>12. InBudget(c, i)'
    <3>. DEFINE Old == Live(<<c, i>>)
    <3>1. p \in Old /\ IsFiniteSet(Old) /\ \A q \in Old : q.budget \in Nat
      <4>1. p \in Old
        BY <1>1, <1>3, <2>1 DEF Live
      <4>. QED
        BY <4>1, LiveFinite DEF Spent
    <3>2. Live(<<c, i>>)' \subseteq (Old \ {p}) \cup New
      <4>1. Live(<<c, i>>)' \subseteq Old \cup {q \in New : q.id = <<c, i>>}
        BY <2>7, <2>10, <2>11, LiveAfter
      <4>2. p \notin Live(<<c, i>>)'
        BY <2>1, <2>2 DEF Live, TypeOK
      <4>. QED
        BY <4>1, <4>2
    <3>3. /\ Cardinality(Spendable(Old \ {p})) \in Nat /\ Cardinality(Spendable(Old)) \in Nat
          /\ Cardinality(Spendable(Old \ {p})) <= Cardinality(Spendable(Old))
          /\ p.budget > 0 => Cardinality(Spendable(Old \ {p})) + (p.budget - 1)
                                 = Cardinality(Spendable(Old))
      <4>. HIDE DEF Old
      <4>. QED
        BY <3>1, SpendableWithout, SpendableFinite
    <3>4. /\ Cardinality(Spendable(Live(<<c, i>>)')) \in Nat
          /\ Cardinality(Spendable(Live(<<c, i>>)'))
                 <= Cardinality(Spendable(Old \ {p})) + Cardinality(Spendable(New))
          /\ Cardinality(Spendable(New)) \in Nat
      <4>. HIDE DEF Old
      <4>. DEFINE A == Old \ {p}
      <4>1. IsFiniteSet(A) /\ IsFiniteSet(A \cup New)
        BY <2>6, <3>1, FS_RemoveElement, FS_Union
      <4>2. \A q \in A \cup New : q.budget \in Nat
        BY <2>6, <3>1
      <4>3. /\ Cardinality(Spendable(Live(<<c, i>>)')) \in Nat
            /\ Cardinality(Spendable(Live(<<c, i>>)')) <= Cardinality(Spendable(A \cup New))
        BY <3>2, <4>1, <4>2, SpendableSubset
      <4>4. Spendable(A \cup New) = Spendable(A) \cup Spendable(New)
        BY DEF Spendable
      <4>5. /\ IsFiniteSet(Spendable(A)) /\ IsFiniteSet(Spendable(New))
            /\ Cardinality(Spendable(A)) \in Nat /\ Cardinality(Spendable(New)) \in Nat
        BY <2>6, <4>1, <4>2, SpendableFinite
      <4>6. Cardinality(Spendable(A) \cup Spendable(New))
                = Cardinality(Spendable(A)) + Cardinality(Spendable(New))
                  - Cardinality(Spendable(A) \cap Spendable(New))
        BY <4>5, FS_Union
      <4>7. Cardinality(Spendable(A) \cap Spendable(New)) \in Nat
        BY <4>5, FS_Intersection, FS_CardinalityType
      <4>. HIDE DEF A
      <4>8. Cardinality(Spendable(A \cup New))
                <= Cardinality(Spendable(A)) + Cardinality(Spendable(New))
        <5>1. PICK a \in Nat, b \in Nat, x \in Nat :
                  /\ a = Cardinality(Spendable(A)) /\ b = Cardinality(Spendable(New))
                  /\ x = Cardinality(Spendable(A) \cap Spendable(New))
          BY <4>5, <4>7
        <5>2. Cardinality(Spendable(A) \cup Spendable(New)) = a + b - x
          BY <4>6, <5>1
        <5>3. a + b - x <= a + b
          OBVIOUS
        <5>. QED
          BY <4>4, <5>1, <5>2, <5>3
      <4>9. Cardinality(Spendable(A \cup New)) \in Nat
        <5>1. \A q \in A \cup New : q.budget \in Nat
          BY <4>2
        <5>. QED
          BY <4>1, <5>1, SpendableFinite
      <4>. QED
        BY <4>3, <4>5, <4>8, <4>9 DEF A
    <3>5. asked'[c][i] = asked[c][i] + Cardinality(DOMAIN share)
      BY <2>3, CountOf
    <3>9. asked[c][i] \in Nat /\ Budget[i] \in Nat
      BY CallAssumption DEF TypeOK
    <3>6. asked[c][i] + Cardinality(Spendable(Old)) <= Budget[i]
      BY DEF Spent, InBudget
    <3>7. Cardinality(DOMAIN share) \in Nat /\ Cardinality(Passed(share)) \in Nat
      BY <2>4, FS_CardinalityType
    <3>8. InBudget(c, i)' = (asked'[c][i] + Cardinality(Spendable(Live(<<c, i>>)')) <= Budget[i])
      BY DEF InBudget, Spendable
    <3>. HIDE DEF Old
    <3>10. PICK a \in Nat, k \in Nat, s \in Nat, w \in Nat, x \in Nat, y \in Nat :
               /\ a = asked[c][i] /\ k = Cardinality(DOMAIN share)
               /\ s = Cardinality(Spendable(New)) /\ w = Cardinality(Spendable(Old \ {p}))
               /\ x = Cardinality(Spendable(Old)) /\ y = Cardinality(Spendable(Live(<<c, i>>)'))
      BY <3>3, <3>4, <3>7, <3>9
    <3>11. \/ k + s <= p.budget - 1 /\ w + (p.budget - 1) = x
           \/ k = 0 /\ s = 0 /\ w <= x
      <4>1. s <= Cardinality(Passed(share)) /\ w <= x
        BY <2>6, <3>3, <3>10
      <4>2. CASE p.budget > 0 /\ k + Cardinality(Passed(share)) <= p.budget - 1
        BY <1>1, <3>3, <3>7, <3>10, <4>1, <4>2
      <4>3. CASE k = 0 /\ Cardinality(Passed(share)) = 0
        BY <4>1, <4>3
      <4>. QED
        BY <2>4, <3>10, <4>2, <4>3
    <3>12. y <= w + s /\ a + x <= Budget[i]
      BY <3>4, <3>6, <3>10
    <3>13. (a + k) + y <= Budget[i]
      BY <1>1, <3>9, <3>11, <3>12
    <3>. QED
      BY <3>5, <3>8, <3>10, <3>13
  <2>13. ~ Unused(c, i)'
    <3>1. ~ Unused(c, i)
      BY <1>1, <2>1 DEF Spent, NoneSent
    <3>. QED
      BY <1>1, <3>1 DEF Unused
  <2>14. ASSUME NEW d \in Search, NEW j \in 0 .. Retry - 1, <<d, j>> # <<c, i>>
         PROVE  InBudget(d, j)' /\ (Unused(d, j)' => NoneSent(d, j)')
    <3>1. Unused(d, j)' => Unused(d, j)
      BY <1>1 DEF Unused
    <3>2. \A q \in New : q.type = "request" => q.at \in Node /\ q.id = <<c, i>>
      BY <2>6, <2>7
    <3>. QED
      BY <2>3, <2>10, <2>11, <2>14, <3>1, <3>2, OthersSpent
  <2>15. \A d \in Search, j \in 0 .. Retry - 1 :
             InBudget(d, j)' /\ (Unused(d, j)' => NoneSent(d, j)')
    BY <2>12, <2>13, <2>14
  <2>. QED
    BY <2>9, <2>15 DEF Spent
<1>. QED
  BY <1>2, <1>3 DEF HandleRequest, NeighboursExclude

LEMMA SearchSpent ==
    ASSUME TypeOK, Connected, Spent, NEW c \in Search, SearchStep(c)
    PROVE  Spent'
<1>1. search[c] \in SearchCall /\ search[c].attempt \in 0 .. Retry - 1 /\ 0 \in 0 .. Retry - 1
  BY CallAssumption DEF TypeOK, SearchCall
<1>2. DOMAIN search = Search
  BY DEF TypeOK
<1>3. ASSUME NEW kind, NEW stage, NEW local, stage # "idle",
             search[c].stage = "idle",
             search' = [search EXCEPT ![c] = Called(kind, stage, local)]
      PROVE  /\ \A d \in Search, j \in 0 .. Retry - 1 :
                    Unused(d, j)' => Unused(d, j) /\ <<d, j>> # <<c, 0>>
             /\ Unused(c, 0)
  <2>1. /\ search'[c].stage # "idle" /\ search'[c].attempt = 0
        /\ \A d \in Search \ {c} : search'[d] = search[d]
    BY <1>2, <1>3 DEF Called
  <2>. QED
    BY <1>3, <2>1 DEF Unused
<1>4. ASSUME BeginAll(c) \/ BeginFirst(c)
      PROVE  Spent'
  <2>1. UNCHANGED processed /\ search[c].stage = "idle"
    BY <1>4 DEF BeginAll, BeginFirst
  <2>2. \/ \E kind, local : ReturnLocal(c, kind, local)
        \/ /\ \E kind, local : search' = [search EXCEPT ![c] = Called(kind, "wait", local)]
           /\ Neighbours[SearchBy[c]] # {} /\ Attempt(c, 0)
    BY <1>4 DEF BeginAll, BeginFirst
  <2>3. CASE \E kind, local : ReturnLocal(c, kind, local)
    <3>1. /\ UNCHANGED <<flight, asked>>
          /\ \E kind, local : search' = [search EXCEPT ![c] = Called(kind, "done", local)]
      BY <2>3 DEF ReturnLocal
    <3>2. \A d \in Search, j \in 0 .. Retry - 1 : Unused(d, j)' => Unused(d, j)
      BY <1>3, <2>1, <3>1
    <3>. QED
      BY <2>1, <3>1, <3>2, KeepSpent DEF Spent
  <2>4. CASE /\ \E kind, local : search' = [search EXCEPT ![c] = Called(kind, "wait", local)]
             /\ Neighbours[SearchBy[c]] # {} /\ Attempt(c, 0)
    <3>1. /\ \A d \in Search, j \in 0 .. Retry - 1 :
                 Unused(d, j)' => Unused(d, j) /\ <<d, j>> # <<c, 0>>
          /\ Unused(c, 0)
      BY <1>3, <2>1, <2>4
    <3>. QED
      BY <1>1, <2>1, <2>4, <3>1, AttemptSpent
  <2>. QED
    BY <2>2, <2>3, <2>4
<1>5. ASSUME Take(c)
      PROVE  Spent'
  <2>1. /\ UNCHANGED <<processed, asked, flight>> /\ search[c].stage = "wait"
        /\ \E v : search' = [search EXCEPT ![c] = Answered(search[c], v)]
    BY <1>5 DEF Take
  <2>2. search'[c].stage # "idle" /\ search'[c].attempt = search[c].attempt
    BY <1>1, <1>2, <2>1 DEF Answered, SearchCall
  <2>3. \A d \in Search \ {c} : search'[d] = search[d]
    BY <1>2, <2>1
  <2>. QED
    BY <2>1, <2>2, <2>3, KeepSpent DEF Unused, Spent
<1>6. ASSUME SearchTimeout(c)
      PROVE  Spent'
  <2>1. UNCHANGED processed /\ search[c].stage = "wait"
    BY <1>6 DEF SearchTimeout
  <2>2. CASE /\ search[c].kind = "first" /\ MoreAttempts(search[c].attempt + 1)
             /\ search' = [search EXCEPT ![c].attempt = search[c].attempt + 1]
             /\ Attempt(c, search[c].attempt + 1)
    <3>1. PICK i \in 0 .. Retry - 1 : i = search[c].attempt + 1
      BY <1>1, <2>2, CallAssumption DEF MoreAttempts
    <3>2. /\ search'[c].stage = "wait" /\ search'[c].attempt = i
          /\ \A d \in Search \ {c} : search'[d] = search[d]
      BY <1>1, <1>2, <2>1, <2>2, <3>1 DEF SearchCall
    <3>3. \A d \in Search, j \in 0 .. Retry - 1 :
              Unused(d, j)' => Unused(d, j) /\ <<d, j>> # <<c, i>>
      BY <1>1, <3>1, <3>2 DEF Unused
    <3>4. Unused(c, i) /\ Attempt(c, i)
      BY <1>1, <2>2, <3>1 DEF Unused
    <3>5. Neighbours[SearchBy[c]] # {}
      BY <2>1 DEF Connected
    <3>. QED
      BY <2>1, <3>3, <3>4, <3>5, AttemptSpent
  <2>3. CASE /\ search' = [search EXCEPT ![c].stage = "done"]
             /\ UNCHANGED <<found, asked, flight>>
    <3>1. /\ search'[c].stage = "done" /\ search'[c].attempt = search[c].attempt
          /\ \A d \in Search \ {c} : search'[d] = search[d]
      BY <1>1, <1>2, <2>3 DEF SearchCall
    <3>. QED
      BY <2>1, <2>3, <3>1, KeepSpent DEF Unused, Spent
  <2>. QED
    BY <1>6, <2>2, <2>3 DEF SearchTimeout
<1>. QED
  BY <1>4, <1>5, <1>6 DEF SearchStep

LEMMA DownloadSpent ==
    ASSUME TypeOK, Spent, NEW d \in Download, DownloadStep(d)
    PROVE  Spent'
<1>1. UNCHANGED searchVars
  BY DEF DownloadStep, BeginDownload, LookLocal, AskPeer, TakePart, Resend, FinishDownload,
         Fail, searchVars
<1>2. flight' = flight \/ \E from : flight' = flight \cup {Get(d, from)}
  BY DEF DownloadStep, BeginDownload, LookLocal, AskPeer, TakePart, Resend, FinishDownload,
         Fail, Fly
<1>3. IsFiniteSet(flight') /\ \A p \in flight' : p \in flight \/ p.type # "request"
  <2>1. \A from : Get(d, from).type # "request"
    BY DEF Get
  <2>. QED
    BY <1>2, <2>1, FS_AddElement DEF Spent
<1>. QED
  BY <1>1, <1>3, KeepSpent DEF searchVars, Unused

LEMMA ReceiveSpent ==
    ASSUME TypeOK, Spent, NEW p \in flight, NEW n \in Node, NEW rest \in SUBSET flight,
           Receive(n, p, rest)
    PROVE  Spent'
<1>1. IsFiniteSet(rest) /\ p.at = n
  BY FS_Subset DEF Spent, Receive
<1>7. \A q : IsFiniteSet(rest \cup {q})
  BY <1>1, FS_AddElement
<1>2. CASE p.dst # n /\ Relay(n, p, rest)
  <2>1. p.type # "request" /\ p \in Packet
    BY <1>1, <1>2 DEF Spent, TypeOK
  <2>2. flight' = rest \/ \E m : flight' = rest \cup {[p EXCEPT !.at = m]}
    BY <1>2 DEF Relay, Fly
  <2>3. \A m : [p EXCEPT !.at = m].type # "request"
    BY <2>1 DEF Packet, SearchRequestMessage, SearchReplyMessage, DataRequestMessage,
                DataReplyMessage
  <2>5. IsFiniteSet(flight')
    BY <1>1, <1>7, <2>2
  <2>4. IsFiniteSet(flight') /\ \A q \in flight' : q \in flight \/ q.type # "request"
    BY <2>2, <2>3, <2>5
  <2>. QED
    BY <1>2, <2>4, KeepSpent DEF Relay, searchVars, Unused
<1>3. CASE HandleRequest(n, p, rest)
  BY <1>1, <1>3, RequestSpent
<1>4. CASE HandleReply(n, p, rest)
  BY <1>1, <1>4, KeepSpent DEF HandleReply, Unused
<1>5. CASE HandleGet(n, p, rest)
  <2>1. \/ flight' = rest
        \/ \E v, m : flight' = rest \cup {[type |-> "data", src |-> n, at |-> m,
                                           dst |-> p.src, id |-> p.id, value |-> v]}
    BY <1>5 DEF HandleGet, Fly
  <2>3. IsFiniteSet(flight')
    BY <1>1, <1>7, <2>1
  <2>2. IsFiniteSet(flight') /\ \A q \in flight' : q \in flight \/ q.type # "request"
    BY <2>1, <2>3
  <2>. QED
    BY <1>5, <2>2, KeepSpent DEF HandleGet, searchVars, Unused
<1>6. CASE HandleData(n, p, rest)
  BY <1>1, <1>6, KeepSpent DEF HandleData, searchVars, Unused
<1>. QED
  BY <1>2, <1>3, <1>4, <1>5, <1>6 DEF Receive

LEMMA InitSpent == Init => Spent
<1>. SUFFICES ASSUME Init
              PROVE  Spent
  OBVIOUS
<1>1. flight = {} /\ IsFiniteSet(flight)
  BY FS_EmptySet DEF Init
<1>2. ASSUME NEW c \in Search, NEW i \in 0 .. Retry - 1
      PROVE  InBudget(c, i) /\ NoneSent(c, i)
  <2>1. Spendable(Live(<<c, i>>)) = {}
    BY <1>1 DEF Spendable, Live
  <2>2. asked[c][i] = 0 /\ Budget[i] \in Nat
    BY CallAssumption DEF Init
  <2>3. Cardinality(Spendable(Live(<<c, i>>))) = 0
    BY <2>1, FS_EmptySet
  <2>. QED
    BY <1>1, <2>2, <2>3 DEF InBudget, NoneSent
<1>. QED
  BY <1>1, <1>2 DEF Spent

LEMMA ConnectedInvariant == Spec => []Connected
<1>1. Init => Connected
  BY DEF Init, Connected
<1>2. TypeOK /\ Connected /\ [Next]_vars => Connected'
  <2>. SUFFICES ASSUME TypeOK, Connected, [Next]_vars
                PROVE  Connected'
    OBVIOUS
  <2>1. CASE UNCHANGED search
    BY <2>1 DEF Connected
  <2>2. ASSUME NEW c \in Search, SearchStep(c)
        PROVE  Connected'
    <3>1. \A d \in Search \ {c} : search'[d] = search[d]
      BY <2>2 DEF SearchStep, BeginAll, BeginFirst, Take, SearchTimeout, ReturnLocal, TypeOK
    <3>2. search'[c].stage = "wait" => search[c].stage = "wait" \/ Neighbours[SearchBy[c]] # {}
      <4>1. DOMAIN search = Search
        BY DEF TypeOK
      <4>2. CASE BeginAll(c) \/ BeginFirst(c)
        BY <4>1, <4>2 DEF BeginAll, BeginFirst, ReturnLocal, Called
      <4>3. CASE Take(c) \/ SearchTimeout(c)
        BY <4>3 DEF Take, SearchTimeout
      <4>. QED
        BY <2>2, <4>2, <4>3 DEF SearchStep
    <3>. QED
      BY <3>1, <3>2 DEF Connected
  <2>3. ASSUME NEW d \in Download, DownloadStep(d)
        PROVE  UNCHANGED search
    BY <2>3 DEF DownloadStep, BeginDownload, LookLocal, AskPeer, TakePart, Resend,
                FinishDownload, Fail, searchVars
  <2>4. ASSUME NEW p \in flight, NEW n \in Node, NEW rest, Receive(n, p, rest)
        PROVE  UNCHANGED search
    BY <2>4 DEF Receive, Relay, HandleRequest, NeighboursExclude, HandleReply, HandleGet,
                HandleData, searchVars
  <2>5. ASSUME NEW p \in flight, Lose(p)
        PROVE  UNCHANGED search
    BY <2>5 DEF Lose, searchVars
  <2>6. ASSUME NEW n \in Node, NEW x \in Replaced, UpdateAvatar(n, x)
        PROVE  UNCHANGED search
    BY <2>6 DEF UpdateAvatar, searchVars
  <2>7. CASE UNCHANGED vars
    BY <2>1, <2>7 DEF vars, searchVars
  <2>. QED
    BY <2>1, <2>2, <2>3, <2>4, <2>5, <2>6, <2>7 DEF Next
<1>. QED
  BY <1>1, <1>2, TypeCorrect, PTL DEF Spec

LEMMA NextSpent == TypeOK /\ Connected /\ Spent /\ [Next]_vars => Spent'
<1>. SUFFICES ASSUME TypeOK, Connected, Spent, [Next]_vars
              PROVE  Spent'
  OBVIOUS
<1>1. CASE UNCHANGED vars
  BY <1>1, KeepSpent DEF vars, searchVars, Unused, Spent
<1>2. ASSUME NEW c \in Search, SearchStep(c)
      PROVE  Spent'
  BY <1>2, SearchSpent
<1>3. ASSUME NEW d \in Download, DownloadStep(d)
      PROVE  Spent'
  BY <1>3, DownloadSpent
<1>4. ASSUME NEW p \in flight, Lose(p)
      PROVE  Spent'
  BY <1>4, KeepSpent, FS_RemoveElement DEF Lose, searchVars, Unused, Spent
<1>5. ASSUME NEW p \in flight, NEW n \in Node,
             Receive(n, p, flight \ {p}) \/ Receive(n, p, flight)
      PROVE  Spent'
  BY <1>5, ReceiveSpent
<1>6. ASSUME NEW n \in Node, NEW x \in Replaced, UpdateAvatar(n, x)
      PROVE  Spent'
  BY <1>6, KeepSpent DEF UpdateAvatar, searchVars, Unused, Spent
<1>. QED
  BY <1>1, <1>2, <1>3, <1>4, <1>5, <1>6 DEF Next

\* However the requests of a search are split among neighbours, passed on,
\* repeated, lost and sent back, an attempt costs no more requests than its budget.
THEOREM BudgetsKept == Spec => []BudgetKept
<1>1. TypeOK /\ Spent => BudgetKept
  <2>. SUFFICES ASSUME TypeOK, Spent, NEW c \in Search, NEW i \in 0 .. Retry - 1
                PROVE  asked[c][i] <= Budget[i]
    BY DEF BudgetKept
  <2>1. InBudget(c, i) /\ Cardinality(Spendable(Live(<<c, i>>))) \in Nat
    BY LiveFinite DEF Spent
  <2>2. asked[c][i] \in Nat /\ Budget[i] \in Nat
    BY CallAssumption DEF TypeOK
  <2>. QED
    BY <2>1, <2>2 DEF InBudget
<1>. QED
  BY <1>1, NextSpent, InitSpent, ConnectedInvariant, TypeCorrect, PTL DEF Spec

=============================================================================
