------------------------------- MODULE WebPage -------------------------------
(***************************************************************************)
(* The web page as a whole: the forms, the feed of packets, and the peer   *)
(* behind its proxy.                                                       *)
(***************************************************************************)
EXTENDS PageForms, PageFeed

vars == <<pageVars, feedVars>>

TypeOK == PageTypeOK /\ FeedTypeOK

\* main: the controllers are registered, and connected when the page is complete.
Init == PageInit /\ FeedInit

\* The page is opened again: nothing of what it showed or waited for is left.  The peer
\* still serves the requests that it has got.
Reload ==
    /\ load < page.loads /\ stream < MaxStreams
    /\ load' = load + 1 /\ stream' = stream + 1 /\ started' = {} /\ typed' = Blank
    /\ flash' = {} /\ sent' = {} /\ panel' = NothingShown
    /\ addr' = FALSE /\ holder' = FALSE
    /\ history' = << >> /\ notices' = << >> /\ posted' = << >>
    /\ UNCHANGED <<page, clicks, reqs, nodeVars, registryVars>>

FormsStep ==
    \/ FormsInitialize \/ FormsClick \/ RoutesLearned
    \/ \E v \in Value \cup {Blank} : Type(v)
    \/ \E i \in DOMAIN reqs : Serve(i) \/ Refuse(i)

Done(i) == \E how \in {"ok", "refused", "failed"} :
    (FormsDone(i, how) /\ UNCHANGED feedVars) \/ FeedDone(i, how)

Next ==
    \/ FormsStep /\ UNCHANGED feedVars
    \/ \E i \in DOMAIN reqs : Done(i)
    \/ PacketsInitialize \/ PacketError \/ FeedClick \/ FeedStep \/ Reload
    \/ \E p \in Packet : Process(p)

Spec == Init /\ [][Next]_vars

\* The browser connects the sections, and the goroutines of the registry and of the streams
\* go on.
Fairness == WF_vars(PacketsInitialize) /\ WF_vars(FeedStep)

FairSpec == Spec /\ Fairness

-----------------------------------------------------------------------------
(* Safety                                                                   *)

Granted(op, v) == [op |-> op, val |-> v] \in granted

\* What the page says was done, the peer has done: with the very value that was in the
\* input when the user clicked, whatever is there when the answer comes.  A post and a
\* friend request by the button of a search result are listed whatever came of them.
Accepted ==
    /\ \A f \in flash : f.kind = "success" => Granted(reqs[f.req].op, reqs[f.req].val)
    /\ \A e \in sent : e.op \notin {"post", "addFriend"} => Granted(e.op, e.val)

\* Every request about the topic is over for the peer and, if this page sent it, answered;
\* each was sent when the ones before it were over.
Settled(topic) ==
    /\ \E i \in DOMAIN reqs : reqs[i].op \in topic /\ reqs[i].load = load
    /\ \A i \in DOMAIN reqs : reqs[i].op \in topic =>
           /\ reqs[i].alone /\ reqs[i].node # "open"
           /\ reqs[i].load = load => reqs[i].page \in {"ok", "refused"}

\* What the page shows is no older than any change this page was told of.
UpToDate(area, change) ==
    \A i \in DOMAIN reqs :
        reqs[i].op \in change /\ reqs[i].load = load /\ reqs[i].page = "ok"
            => panel[area] \in Nat /\ panel[area] >= reqs[i].reply

\* Nothing outdated is shown.  When no answers can have overtaken each other, the page shows
\* the name of its peer, and a routing table and a catalog with all that was entered on the
\* page; and the text that stands for users to come is gone when no search is under way.
Fresh ==
    /\ holder /\ Settled({"myName", "setName"}) => panel["name"] = node.name
    /\ Settled({"table"}) => UpToDate("table", {"addPeer", "setEntry"})
    /\ Settled({"catalog"}) => UpToDate("catalog", {"addEntry"})
    /\ panel["users"] = Searching =>
           \E i \in DOMAIN reqs :
               reqs[i].op = "searchNames" /\ reqs[i].page = "waits" /\ reqs[i].load = load

\* The page shows only what was notified, in that order and each packet once; and between two
\* packets that came by the same stream it has missed none.
FeedInOrder ==
    /\ \A i \in DOMAIN history : \E n \in DOMAIN notified : notified[n] = history[i].pkt
    /\ \A i, j \in DOMAIN history, m, n \in DOMAIN notified :
           (i < j /\ notified[m] = history[i].pkt /\ notified[n] = history[j].pkt) =>
               /\ m < n
               /\ (j = i + 1 /\ history[i].via = history[j].via) => n = m + 1

\* Handlers that say what came of the request, whatever it is.
Talking == Op \ {"address", "myName", "myAvatar", "graph", "catalog", "addEntry", "askPosts",
                 "uploadAvatar", "viewAvatar", "addFriend"}

\* When such a handler is through, its user has been told so.
Told ==
    \A i \in DOMAIN reqs :
        reqs[i].op \in Talking /\ reqs[i].load = load /\ reqs[i].page # "waits" =>
            \/ \E f \in flash : f.req = i /\ f.kind \in {"success", "error"}
            \/ [op |-> reqs[i].op, val |-> reqs[i].val] \in sent

-----------------------------------------------------------------------------
(* Liveness                                                                 *)

Registered(s) == \E k \in DOMAIN callbacks : callbacks[k] = s

\* The channel of a connection that nobody serves any more is full: its callback blocks.
Clogged ==
    \E k \in DOMAIN callbacks : callbacks[k] \notin serving /\ ~Room(callbacks[k])

ShownBy(s, p) == \E h \in DOMAIN history : history[h].pkt = p /\ history[h].via = s

\* A packet that is processed while a page listens is shown on it, unless the page is left or
\* connects again, or a connection that is gone has clogged the registry (RegisterNotify has
\* no counterpart that removes a callback).
Fed ==
    \A s \in Stream, p \in Packet :
        (p \in waiting /\ stream = s /\ Registered(s)) ~> (ShownBy(s, p) \/ stream # s \/ Clogged)

=============================================================================
