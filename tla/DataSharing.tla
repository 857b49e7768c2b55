----------------------------- MODULE DataSharing -----------------------------
(***************************************************************************)
(* Searching and downloading files (peer/impl/mod.go, peer/impl/avatar.go).*)
(* A search spends a budget on requests that peers answer and pass on; the *)
(* answers fill the catalog of the peer that searches.  A download asks    *)
(* for the metafile and then for each chunk, of one peer of the catalog.   *)
(*                                                                         *)
(* A blob is its key: its content is addressed by its hash.  The network   *)
(* is UDP: a packet is lost, delivered late or delivered again.            *)
(***************************************************************************)
EXTENDS Integers, Sequences, FiniteSets, FiniteSetsExt, Functions

CONSTANTS
    Node, Name, Key,
    None,        \* no route, nil
    Neighbours,  \* Neighbours[n]: neighbourTable
    Route,       \* Route[n][m]: routingTable, None if m is missing
    Parts,       \* Parts[x]: the keys of the metafile and of the chunks of file x
    InitNames,   \* InitNames[n]: naming store at the beginning
    InitBlobs,   \* InitBlobs[n]: the keys in the blob store
    Replaced,    \* old avatars, that AvatarUpdate messages delete
    Tagging,     \* PaxosID and TotalPeers let a search write the naming store
    Search,      \* calls of SearchAll and SearchFirst
    SearchBy, Pattern,
    Retry,       \* attempts of SearchFirst
    Budget,      \* Budget[i]: of attempt i, Initial * Factor ^ i; SearchAll has the first
    Download,    \* calls of Download
    DownloadBy, DownloadOf,
    Backoff,     \* BackoffDataRequest.Retry
    MaxFlight    \* bound: packets on their way at a time

ASSUME NodeAssumption ==
    /\ IsFiniteSet(Node) /\ None \notin Node \cup Key
    /\ Neighbours \in [Node -> SUBSET Node]
    /\ Route \in [Node -> [Node -> Node \cup {None}]]

\* A metafile determines its chunks, and no chunk has the content of a metafile.
ASSUME StoreAssumption ==
    /\ Parts \in [Name -> Seq(Key)] /\ \A x \in Name : Len(Parts[x]) >= 2
    /\ \A x, y \in Name :
           /\ Parts[x][1] = Parts[y][1] => Parts[x] = Parts[y]
           /\ \A i \in 2 .. Len(Parts[y]) : Parts[x][1] # Parts[y][i]
    /\ InitNames \in [Node -> SUBSET Name] /\ InitBlobs \in [Node -> SUBSET Key]
    /\ Replaced \subseteq Name /\ Tagging \in BOOLEAN

\* A search begins with a budget of one at least.
ASSUME CallAssumption ==
    /\ SearchBy \in [Search -> Node] /\ Pattern \in [Search -> SUBSET Name]
    /\ Retry \in Nat \ {0} /\ Budget \in [0 .. Retry - 1 -> Nat \ {0}]
    /\ DownloadBy \in [Download -> Node] /\ DownloadOf \in [Download -> Name]
    /\ Backoff \in Nat \ {0} /\ MaxFlight \in Nat \ {0}

Meta(x) == Parts[x][1]
Chunks(x) == {Parts[x][i] : i \in 2 .. Len(Parts[x])}

\* A search sends its requests under an id for each attempt, a download under
\* one for each part.
SearchId == Search \X (0 .. Retry - 1)
DownloadId == Download \X (Nat \ {0})

\* A file in an answer, with the chunks that the peer holds.
FileInfo == [name : Name, chunks : SUBSET Key]

\* src and dst are those of the header, at is the peer the packet is sent to.
SearchRequestMessage ==
    [type : {"request"}, src : Node, at : Node, dst : Node, id : SearchId, budget : Nat]
SearchReplyMessage ==
    [type : {"reply"}, src : Node, at : Node, dst : Node, id : SearchId, files : SUBSET FileInfo]
DataRequestMessage ==
    [type : {"get"}, src : Node, at : Node, dst : Node, id : DownloadId, key : Key]
DataReplyMessage ==
    [type : {"data"}, src : Node, at : Node, dst : Node, id : DownloadId, value : Key \cup {None}]
Packet == SearchRequestMessage \cup SearchReplyMessage \cup DataRequestMessage \cup DataReplyMessage

VARIABLES
    names,      \* naming stores
    blobs,      \* blob stores
    catalog,    \* catalog[n][k]
    processed,  \* processedSearchRequest
    flight,     \* packets on their way
    search,     \* search[c]: a call of SearchAll or SearchFirst
    found,      \* found[c]: what is in its channel
    asked,      \* asked[c][i]: requests sent so far under id <<c, i>>
    download,   \* download[d]: a call of Download
    replies,    \* replies[d]: what is in its channel
    updates     \* the AvatarUpdate messages <<n, x>> that n has yet to handle

stores == <<names, blobs, catalog, updates>>
searchVars == <<processed, search, found, asked>>
downloadVars == <<download, replies>>
vars == <<stores, searchVars, downloadVars, flight>>

SearchCall == [kind : {"all", "first"}, stage : {"idle", "wait", "done"},
               attempt : 0 .. Retry - 1, names : SUBSET Name]
DownloadCall == [stage : {"idle", "look", "wait", "done", "failed"}, got : Seq(Key),
                 from : Node \cup {None}, attempt : 0 .. Backoff]

TypeOK ==
    /\ names \in [Node -> SUBSET Name] /\ blobs \in [Node -> SUBSET Key]
    /\ catalog \in [Node -> [Key -> SUBSET Node]]
    /\ processed \in [Node -> SUBSET SearchId] /\ flight \in SUBSET Packet
    /\ search \in [Search -> SearchCall] /\ found \in [Search -> SUBSET SUBSET Name]
    /\ asked \in [Search -> [0 .. Retry - 1 -> Nat]]
    /\ download \in [Download -> DownloadCall]
    /\ replies \in [Download -> SUBSET (Key \cup {None})]
    /\ updates \subseteq Node \X Replaced

Init ==
    /\ names = InitNames /\ blobs = InitBlobs
    /\ catalog = [n \in Node |-> [k \in Key |-> {}]]
    /\ processed = [n \in Node |-> {}] /\ flight = {}
    /\ search = [c \in Search |->
                    [kind |-> "all", stage |-> "idle", attempt |-> 0, names |-> {}]]
    /\ found = [c \in Search |-> {}]
    /\ asked = [c \in Search |-> [i \in 0 .. Retry - 1 |-> 0]]
    /\ download = [d \in Download |->
                      [stage |-> "idle", got |-> << >>, from |-> None, attempt |-> 0]]
    /\ replies = [d \in Download |-> {}]
    /\ updates = Node \X Replaced

\* The packets on their way are those of the set after, if there is room.
Fly(after) == Cardinality(after) <= MaxFlight /\ flight' = after

-----------------------------------------------------------------------------
(* SearchAll and SearchFirst                                               *)

\* assignBudgets, for the neighbours S in random order.
Shares(total, S) ==
    LET k == Cardinality(S) IN
    IF total <= k THEN {[m \in T |-> 1] : T \in kSubset(total, S)}
    ELSE {[m \in S |-> (total \div k) + (IF m \in T THEN 1 ELSE 0)] : T \in kSubset(total % k, S)}

Requests(n, id, share) ==
    {[type |-> "request", src |-> n, at |-> m, dst |-> m, id |-> id, budget |-> share[m]] :
        m \in DOMAIN share}

Count(id, share) == [asked EXCEPT ![id[1]][id[2]] = @ + Cardinality(DOMAIN share)]

Full(n, x) == Meta(x) \in blobs[n] /\ Chunks(x) \subseteq blobs[n]

\* The requests of one attempt.
Attempt(c, i) ==
    \E share \in Shares(Budget[i], Neighbours[SearchBy[c]]) :
        /\ Fly(flight \cup Requests(SearchBy[c], <<c, i>>, share))
        /\ asked' = Count(<<c, i>>, share)

\* A call after its search of the local stores.
Called(kind, stage, local) == [kind |-> kind, stage |-> stage, attempt |-> 0, names |-> local]

\* A call ends with what it found locally.
ReturnLocal(c, kind, local) ==
    /\ search' = [search EXCEPT ![c] = Called(kind, "done", local)]
    /\ UNCHANGED <<flight, asked>>

BeginAll(c) ==
    LET local == names[SearchBy[c]] \cap Pattern[c] IN
    /\ search[c].stage = "idle"
    /\ \/ Neighbours[SearchBy[c]] = {} /\ ReturnLocal(c, "all", local)
       \/ /\ Neighbours[SearchBy[c]] # {}
          /\ search' = [search EXCEPT ![c] = Called("all", "wait", local)]
          /\ Attempt(c, 0)
    /\ UNCHANGED <<stores, processed, found, downloadVars>>

BeginFirst(c) ==
    LET n == SearchBy[c]
        local == {x \in names[n] \cap Pattern[c] : Full(n, x)}
    IN /\ search[c].stage = "idle"
       /\ \/ \E x \in local : ReturnLocal(c, "first", {x})
          \/ local = {} /\ Neighbours[n] = {} /\ ReturnLocal(c, "first", {})
          \/ /\ local = {} /\ Neighbours[n] # {}
             /\ search' = [search EXCEPT ![c] = Called("first", "wait", {})]
             /\ Attempt(c, 0)
       /\ UNCHANGED <<stores, processed, found, downloadVars>>

\* A call with the names v of an answer, which ends SearchFirst.
Answered(call, v) ==
    [call EXCEPT !.stage = IF call.kind = "first" THEN "done" ELSE "wait",
                 !.names = call.names \cup v]

Take(c) ==
    /\ search[c].stage = "wait"
    /\ \E v \in found[c] :
           /\ found' = [found EXCEPT ![c] = @ \ {v}]
           /\ search' = [search EXCEPT ![c] = Answered(search[c], v)]
    /\ UNCHANGED <<stores, processed, asked, downloadVars, flight>>

MoreAttempts(i) == i < Retry

\* The timeout elapses: SearchFirst tries again with a larger budget, under a
\* new id and with a new channel.
SearchTimeout(c) ==
    LET i == search[c].attempt + 1 IN
    /\ search[c].stage = "wait"
    /\ \/ /\ search[c].kind = "first" /\ MoreAttempts(i)
          /\ search' = [search EXCEPT ![c].attempt = i]
          /\ found' = [found EXCEPT ![c] = {}]
          /\ Attempt(c, i)
       \/ /\ search[c].kind = "all" \/ ~MoreAttempts(i)
          /\ search' = [search EXCEPT ![c].stage = "done"]
          /\ UNCHANGED <<found, asked, flight>>
    /\ UNCHANGED <<stores, processed, downloadVars>>

-----------------------------------------------------------------------------
(* The handlers of search messages, for a packet p at peer n; "rest" is what *)
(* else is in flight.                                                        *)

\* searchLocalStorage.
Matches(n, c) ==
    {[name |-> x, chunks |-> Chunks(x) \cap blobs[n]] :
        x \in {y \in names[n] \cap Pattern[c] : Meta(y) \in blobs[n]}}

NeighboursExclude(n, m) == Neighbours[n] \ {m}

\* Mutant: the request is passed on with the budget it came with.
RemainingAll(p) == p.budget

Remaining(p) == p.budget - 1

\* The answer goes back the way the request came, and is relayed to the peer that
\* searches.  One without files has no effect and is left out.  A peer passes its
\* own request on when it comes back: only those it handled are marked.
HandleRequest(n, p, rest) ==
    LET others == NeighboursExclude(n, p.src)
        files == Matches(n, p.id[1])
        answer == [type |-> "reply", src |-> n, at |-> p.src, dst |-> SearchBy[p.id[1]],
                   id |-> p.id, files |-> files]
    IN /\ p.type = "request"
       /\ \/ p.id \in processed[n] /\ flight' = rest /\ UNCHANGED <<processed, asked>>
          \/ /\ p.id \notin processed[n]
             /\ processed' = [processed EXCEPT ![n] = @ \cup {p.id}]
             /\ \E share \in IF Remaining(p) > 0 /\ others # {}
                             THEN Shares(Remaining(p), others) ELSE {<< >>} :
                    /\ asked' = Count(p.id, share)
                    /\ Fly(rest \cup Requests(n, p.id, share)
                                \cup (IF files = {} THEN {} ELSE {answer}))
       /\ UNCHANGED <<stores, search, found, downloadVars>>

\* Mutant: a part of the chunks is enough.
IsFullSome(f) == f.chunks # {}

IsFull(f) == f.chunks = Chunks(f.name)

\* What a handler puts in the channel of the call, if anything: the names, or
\* the first of the files that the peer holds in full.
Notices(p) ==
    IF search[p.id[1]].kind = "all" THEN {{f.name : f \in p.files}}
    ELSE LET full == {f \in p.files : IsFull(f)} IN
         IF full = {} THEN {{}} ELSE {{f.name} : f \in full}

\* Mutant: a chunk that the peer does not hold (a nil entry) is recorded too.
KeysAll(f) == {Meta(f.name)} \cup Chunks(f.name)

\* The keys for which an answer with file f goes into the catalog.
Keys(f) == {Meta(f.name)} \cup f.chunks

\* n never records itself.
UpdateCatalog(n, keys, m) ==
    catalog' = [catalog EXCEPT ![n] = [k \in Key |->
        IF k \in keys /\ m # n THEN @[k] \cup {m} ELSE @[k]]]

HandleReply(n, p, rest) ==
    LET c == p.id[1]
        keys == UNION {Keys(f) : f \in p.files}
    IN /\ p.type = "reply"
       /\ UpdateCatalog(n, keys, p.src)
       /\ names' = [names EXCEPT ![n] = IF Tagging THEN @ \cup {f.name : f \in p.files} ELSE @]
       /\ \E v \in Notices(p) :
              found' = IF v # {} /\ search[c].stage = "wait" /\ search[c].attempt = p.id[2]
                       THEN [found EXCEPT ![c] = @ \cup {v}] ELSE found
       /\ flight' = rest
       /\ UNCHANGED <<blobs, updates, processed, search, asked, downloadVars>>

-----------------------------------------------------------------------------
(* Download                                                                *)

By(d) == DownloadBy[d]
Wanted(d) == Parts[DownloadOf[d]]

\* The index of the part that the call works on.
Part(d) == Len(download[d].got) + 1

BeginDownload(d) ==
    /\ download[d].stage = "idle"
    /\ download' = [download EXCEPT ![d].stage = "look"]
    /\ UNCHANGED <<stores, searchVars, replies, flight>>

Fail(d) ==
    /\ download' = [download EXCEPT ![d].stage = "failed"]
    /\ UNCHANGED <<stores, searchVars, replies, flight>>

Get(d, from) ==
    [type |-> "get", src |-> By(d), at |-> Route[By(d)][from], dst |-> from,
     id |-> <<d, Part(d)>>, key |-> Wanted(d)[Part(d)]]

\* The next part is in the blob store.
LookLocal(d) ==
    /\ download[d].stage = "look" /\ Part(d) <= Len(Wanted(d))
    /\ Wanted(d)[Part(d)] \in blobs[By(d)]
    /\ download' = [download EXCEPT ![d].got = Append(@, Wanted(d)[Part(d)])]
    /\ UNCHANGED <<stores, searchVars, replies, flight>>

\* A random peer of the catalog is asked.
AskPeer(d) ==
    LET key == Wanted(d)[Part(d)] IN
    /\ download[d].stage = "look" /\ Part(d) <= Len(Wanted(d))
    /\ key \notin blobs[By(d)]
    /\ \/ catalog[By(d)][key] = {} /\ Fail(d)
       \/ \E from \in catalog[By(d)][key] :
              \/ Route[By(d)][from] = None /\ Fail(d)
              \/ /\ Route[By(d)][from] # None
                 /\ download' = [download EXCEPT ![d].stage = "wait", ![d].from = from,
                                                 ![d].attempt = 0]
                 /\ replies' = [replies EXCEPT ![d] = {}]
                 /\ Fly(flight \cup {Get(d, from)})
                 /\ UNCHANGED <<stores, searchVars>>

TakePart(d) ==
    /\ download[d].stage = "wait"
    /\ \E v \in replies[d] :
           \/ v = None /\ Fail(d)
           \/ /\ v # None
              /\ download' = [download EXCEPT ![d].stage = "look", ![d].got = Append(@, v)]
              /\ replies' = [replies EXCEPT ![d] = {}]
              /\ UNCHANGED <<stores, searchVars, flight>>

\* Mutant: one wait more (attempt <= backoff.Retry).
LastWaitOneMore(d) == download[d].attempt = Backoff

LastWait(d) == download[d].attempt + 1 = Backoff

\* The request is sent again; after the last time the call does not wait.
Resend(d) ==
    /\ download[d].stage = "wait"
    /\ download' = [download EXCEPT ![d].attempt = @ + 1,
                        ![d].stage = IF LastWait(d) THEN "failed" ELSE @]
    /\ Fly(flight \cup {Get(d, download[d].from)})
    /\ UNCHANGED <<stores, searchVars, replies>>

\* Mutant: the metafile is stored before its chunks are there.
CompleteEarly(d) == download[d].got # << >>

Complete(d) == Len(download[d].got) = Len(Wanted(d))

\* All parts are stored once the last one has come.
FinishDownload(d) ==
    /\ download[d].stage = "look" /\ Complete(d)
    /\ blobs' = [blobs EXCEPT ![By(d)] = @ \cup Range(download[d].got)]
    /\ download' = [download EXCEPT ![d].stage = "done"]
    /\ UNCHANGED <<names, catalog, updates, searchVars, replies, flight>>

HandleGet(n, p, rest) ==
    /\ p.type = "get"
    /\ Fly(IF Route[n][p.src] = None THEN rest
           ELSE rest \cup {[type |-> "data", src |-> n, at |-> Route[n][p.src],
                            dst |-> p.src, id |-> p.id,
                            value |-> IF p.key \in blobs[n] THEN p.key ELSE None]})
    /\ UNCHANGED <<stores, searchVars, downloadVars>>

\* Mutant: one channel for all the parts of a download.
AwaitsAny(p) == download[p.id[1]].stage = "wait"

\* A call waits at the channel of the request.
Awaits(p) == download[p.id[1]].stage = "wait" /\ Part(p.id[1]) = p.id[2]

HandleData(n, p, rest) ==
    /\ p.type = "data"
    /\ replies' = IF Awaits(p) THEN [replies EXCEPT ![p.id[1]] = @ \cup {p.value}] ELSE replies
    /\ flight' = rest
    /\ UNCHANGED <<stores, searchVars, download>>

-----------------------------------------------------------------------------
(* Packets                                                                 *)

\* relayPacket: the packet is sent on, or dropped if there is no route.
Relay(n, p, rest) ==
    /\ Fly(IF Route[n][p.dst] = None THEN rest
           ELSE rest \cup {[p EXCEPT !.at = Route[n][p.dst]]})
    /\ UNCHANGED <<stores, searchVars, downloadVars>>

Receive(n, p, rest) ==
    /\ p.at = n
    /\ \/ p.dst # n /\ Relay(n, p, rest)
       \/ /\ p.dst = n
          /\ \/ HandleRequest(n, p, rest) \/ HandleReply(n, p, rest)
             \/ HandleGet(n, p, rest) \/ HandleData(n, p, rest)

Lose(p) ==
    /\ flight' = flight \ {p}
    /\ UNCHANGED <<stores, searchVars, downloadVars>>

\* ExecAvatarUpdateMessage: the name and the metafile are deleted, the chunks stay.
UpdateAvatar(n, x) ==
    /\ <<n, x>> \in updates
    /\ updates' = updates \ {<<n, x>>}
    /\ names' = [names EXCEPT ![n] = @ \ {x}]
    /\ blobs' = [blobs EXCEPT ![n] = @ \ {Meta(x)}]
    /\ UNCHANGED <<catalog, searchVars, downloadVars, flight>>

SearchStep(c) == BeginAll(c) \/ BeginFirst(c) \/ Take(c) \/ SearchTimeout(c)

DownloadStep(d) ==
    BeginDownload(d) \/ LookLocal(d) \/ AskPeer(d) \/ TakePart(d) \/ Resend(d) \/ FinishDownload(d)

Next ==
    \/ \E c \in Search : SearchStep(c)
    \/ \E d \in Download : DownloadStep(d)
    \/ \E p \in flight : Lose(p) \/ \E n \in Node : Receive(n, p, flight \ {p}) \/ Receive(n, p, flight)
    \/ \E n \in Node, x \in Replaced : UpdateAvatar(n, x)

Spec == Init /\ [][Next]_vars

-----------------------------------------------------------------------------
(* Properties                                                              *)

\* However requests are split, passed on, repeated and sent back, no more of
\* them are sent than the budget of the attempt.
BudgetKept == \A c \in Search : \A i \in 0 .. Retry - 1 : asked[c][i] <= Budget[i]

\* What SearchFirst has returned can be downloaded: the peer has every chunk, or
\* its catalog names one peer for the metafile and every chunk.
FirstFound ==
    \A c \in Search : \A x \in search[c].names :
        (search[c].kind = "first" /\ search[c].stage = "done") =>
            LET n == SearchBy[c] IN
            \/ Chunks(x) \subseteq blobs[n]
            \/ \E m \in Node : \A k \in {Meta(x)} \cup Chunks(x) : m \in catalog[n][k]

\* The peer holds the blob, or held it until an update deleted it.
HasHeld(m, k) ==
    k \in blobs[m] \/ \E x \in Replaced : k = Meta(x) /\ <<m, x>> \notin updates

\* A catalog names other peers, which hold the blob unless an update deleted it.
CatalogHonest ==
    \A n, m \in Node : \A k \in Key :
        m \in catalog[n][k] => m # n /\ HasHeld(m, k)

\* The parts that a download has are those it asked for, in their order, with
\* any retries and with answers that come late, twice or to another request.
PartsInOrder ==
    \A d \in Download :
        LET got == download[d].got IN
        Len(got) <= Len(Wanted(d)) /\ \A i \in DOMAIN got : got[i] = Wanted(d)[i]

\* A download makes its peer a source of the whole file or of nothing of it:
\* a peer that had no metafile has it only together with all the chunks.
WholeFiles ==
    \A n \in Node, x \in Name :
        (Meta(x) \in blobs[n] /\ Meta(x) \notin InitBlobs[n]) => Chunks(x) \subseteq blobs[n]

=============================================================================
