--------------------------------- MODULE Page ---------------------------------
(***************************************************************************)
(* The web page of a peer (gui/web/node.html and main.js): its requests to *)
(* the proxy of the peer, what it shows, and the table with the name and   *)
(* the address of the peer.  A handler of a click runs up to its request;  *)
(* the rest of it runs when the request is over, in any order.             *)
(***************************************************************************)
EXTENDS Naturals, Sequences

CONSTANTS
    Value,      \* what users type and nodes reply: messages, names, addresses, hashes
    Blank,      \* an empty input
    None,       \* nothing shown, no name
    Searching,  \* the text that stands for a result to come
    Pages,      \* the pages explored: their sections (node.html has them all), and as bounds
                \* what is typed, the clicks that may send a request, how often it is opened
    MaxRoutes   \* bound: changes of the routing table by other peers

Section == {"peerInfo", "routing", "catalog", "packets", "unicast", "encryptedMessage",
            "friendRequest", "postFriends", "postsFriend", "broadcast", "dataSharing",
            "search", "naming", "username", "avatar"}

\* The sections whose controller does something when it is connected.
Starting == {"peerInfo", "routing", "catalog", "packets"}

Op == {"address", "myName", "myAvatar", "table", "graph", "addPeer", "setEntry", "catalog",
       "addEntry", "unicast", "encrypted", "friendRequest", "accept", "decline", "post",
       "askPosts", "broadcast", "private", "upload", "download", "searchAll", "searchFirst",
       "resolve", "tag", "setName", "searchNames", "viewAvatar", "addFriend", "uploadAvatar"}

Area == {"name", "avatar", "table", "graph", "catalog", "uploaded", "saved", "searchAll",
         "searchFirst", "resolved", "users", "picture", "avatarUploaded"}

ASSUME PageAssumption ==
    /\ Pages \subseteq [sections : SUBSET Section, inputs : SUBSET Value, clicks : Nat, loads : Nat]
    /\ MaxRoutes \in Nat
    /\ Blank \notin Value /\ None \notin Value /\ Searching \notin Value \cup {None}

VARIABLES
    page,       \* the page, one of Pages
    started,    \* those that have been connected since the page was opened
    load,       \* how often the page was opened
    clicks,     \* requests of clicks so far
    typed,      \* what the inputs in use hold
    reqs,       \* the requests, in the order they were sent
    flash,      \* the messages shown since the page was opened, each for four seconds at
                \* most, and the request they are about
    sent,       \* entries "sent to" in the lists of messages
    panel,      \* what the areas for results show
    addr,       \* the page knows the address of its peer (socketAddr)
    holder,     \* the page knows where to show a name (PeerInfo.usernameHolder)
    node,       \* the peer: its name, and how often its routes and catalog were changed
    granted     \* history: what the peer has done for a page

userVars == <<page, started, load, clicks, typed>>
shownVars == <<flash, sent, panel>>
infoVars == <<addr, holder>>
nodeVars == <<node, granted>>
pageVars == <<userVars, reqs, shownVars, infoVars, nodeVars>>

sections == page.sections

Request ==
    [op : Op, val : Value \cup {Blank}, load : Nat, alone : BOOLEAN,
     node : {"open", "ok", "refused"}, page : {"waits", "ok", "refused", "failed"},
     reply : Value \cup {None} \cup Nat]

PageTypeOK ==
    /\ page \in Pages /\ started \subseteq Starting /\ load \in Nat /\ clicks \in Nat
    /\ typed \in Value \cup {Blank} /\ reqs \in Seq(Request)
    /\ flash \subseteq [kind : {"form", "progress", "success", "error", "alert"}, req : Nat]
    /\ sent \subseteq [op : Op, val : Value \cup {Blank}]
    /\ panel \in [Area -> Value \cup {Blank, None, Searching} \cup Nat]
    /\ addr \in BOOLEAN /\ holder \in BOOLEAN
    /\ node \in [name : Value \cup {None}, routes : Nat, catalog : Nat]
    /\ granted \subseteq [op : Op, val : Value \cup {Blank}]

NothingShown == [a \in Area |-> None]

PageInit ==
    /\ page \in Pages /\ started = {} /\ load = 1 /\ clicks = 0 /\ typed = Blank
    /\ reqs = << >> /\ flash = {} /\ sent = {} /\ panel = NothingShown
    /\ addr = FALSE /\ holder = FALSE
    /\ node = [name |-> None, routes |-> 0, catalog |-> 0] /\ granted = {}

-----------------------------------------------------------------------------
(* Requests                                                                 *)

\* Requests about the same thing, whose answers may overtake each other.
Topic(op) ==
    IF op \in {"myName", "setName"} THEN {"myName", "setName"} ELSE {op}

\* The page has not seen the end of r, or the peer has not.
Pending(r) == r.node = "open" \/ (r.page = "waits" /\ r.load = load)

NewRequest(op, v) ==
    [op |-> op, val |-> v, load |-> load,
     alone |-> \A j \in DOMAIN reqs : reqs[j].op \in Topic(op) => ~Pending(reqs[j]),
     node |-> "open", page |-> "waits", reply |-> None]

\* The user may click: all sections are connected, which no click can come between.
Ready(s) == s \in sections /\ sections \cap Starting = started /\ clicks < page.clicks

\* A handler reads its inputs and sends a request.
Send(op, v) ==
    /\ reqs' = Append(reqs, NewRequest(op, v))
    /\ clicks' = clicks + 1
    /\ UNCHANGED <<page, started, load, typed, infoVars, nodeVars>>

Flashed(kind, i) == flash' = flash \cup {[kind |-> kind, req |-> i]}

\* checkInputs: an empty input is an error, and the handler returns.
InputMissing(s) ==
    /\ s \in sections /\ sections \cap Starting = started
    /\ typed = Blank /\ Flashed("form", 0)
    /\ UNCHANGED <<userVars, reqs, sent, panel, infoVars, nodeVars>>

Type(v) ==
    /\ typed # v /\ v \in page.inputs \cup {Blank} /\ typed' = v
    /\ UNCHANGED <<page, started, load, clicks, reqs, shownVars, infoVars, nodeVars>>

\* What a request can come to for the page: an answer of the peer, or a broken connection.
CanEnd(i, how) ==
    /\ reqs[i].page = "waits" /\ reqs[i].load = load
    /\ how = "failed" \/ reqs[i].node = how

\* The handler that waits for request i goes on, how it ended: fetch of BaseElement
\* throws unless the status is 200.
Ends(i, op, how) ==
    /\ i \in DOMAIN reqs /\ reqs[i].op = op /\ CanEnd(i, how)
    /\ reqs' = [reqs EXCEPT ![i].page = how]

\* The same, and the handler sends another request.
EndsThenAsks(i, op, how, next) ==
    /\ i \in DOMAIN reqs /\ reqs[i].op = op /\ CanEnd(i, how)
    /\ reqs' = Append([reqs EXCEPT ![i].page = how], NewRequest(next, Blank))

Ok(how) == how = "ok"

\* Mutant: the input is read again when the answer comes.
ListedTyped(i) == sent' = sent \cup {[op |-> reqs[i].op, val |-> typed]}

Listed(i) == sent' = sent \cup {[op |-> reqs[i].op, val |-> reqs[i].val]}
Shown(area, x) == panel' = [panel EXCEPT ![area] = x]

\* Only what is displayed has changed.
Rest == UNCHANGED <<userVars, infoVars, nodeVars>>

-----------------------------------------------------------------------------
(* The table of the peer                                                    *)

\* A section is connected, peerInfo first: the order of the elements in the page.
Connected(s) ==
    /\ s \in sections \ started
    /\ "peerInfo" \in sections => s = "peerInfo" \/ "peerInfo" \in started
    /\ started' = started \cup {s}
    /\ UNCHANGED <<page, load, clicks, typed, shownVars, infoVars, nodeVars>>

PeerInfoInitialize == Connected("peerInfo") /\ reqs' = Append(reqs, NewRequest("address", Blank))

\* The address, whatever the status; then the name is asked for.
AddressDone(i, how) ==
    /\ EndsThenAsks(i, "address", how, "myName")
    /\ IF how = "failed" THEN Flashed("error", i) /\ addr' = addr
                         ELSE addr' = TRUE /\ flash' = flash
    /\ UNCHANGED <<userVars, sent, panel, holder, nodeVars>>

\* The name, or the text of a 404, is shown; from here on setup can show a name.
MyNameDone(i, how) ==
    /\ EndsThenAsks(i, "myName", how, "myAvatar")
    /\ IF how = "failed" THEN panel' = panel ELSE Shown("name", reqs[i].reply)
    /\ holder' = TRUE
    /\ UNCHANGED <<userVars, flash, sent, addr, nodeVars>>

\* The avatar, or the text of a 404, here None.
MyAvatarDone(i, how) ==
    /\ Ends(i, "myAvatar", how)
    /\ IF how = "failed" THEN panel' = panel ELSE Shown("avatar", reqs[i].reply)
    /\ Rest /\ UNCHANGED <<flash, sent>>

PeerInfoDone(i, how) == AddressDone(i, how) \/ MyNameDone(i, how) \/ MyAvatarDone(i, how)

-----------------------------------------------------------------------------
(* The peer behind its proxy (gui/httpnode/controller)                      *)

\* Handlers that cannot refuse what the page sends.
Certain == {"address", "table", "graph", "addPeer", "setEntry", "catalog", "addEntry", "post",
            "askPosts"}

Did(op, v) ==
    node' = CASE op = "setName" -> [node EXCEPT !.name = v]
              [] op \in {"addPeer", "setEntry"} -> [node EXCEPT !.routes = @ + 1]
              [] op = "addEntry" -> [node EXCEPT !.catalog = @ + 1]
              [] OTHER -> node

\* What the peer can reply when it grants a request.
Replies(r) ==
    CASE r.op = "myName" -> {node.name} \ {None}
      [] r.op \in {"table", "graph"} -> {node.routes}
      [] r.op \in {"addPeer", "setEntry"} -> {node.routes + 1}
      [] r.op = "catalog" -> {node.catalog}
      [] r.op = "addEntry" -> {node.catalog + 1}
      [] r.op \in {"searchAll", "searchFirst"} -> Value \cup {None}
      [] r.op = "resolve" -> IF r.val = Blank THEN {} ELSE Value \cup {None}
      [] r.op = "searchNames" -> Value
      [] r.op = "myAvatar" -> Value
      [] OTHER -> {None}

Serve(i) ==
    /\ reqs[i].node = "open"
    /\ \E x \in Replies(reqs[i]) :
           reqs' = [reqs EXCEPT ![i].node = "ok", ![i].reply = x]
    /\ Did(reqs[i].op, reqs[i].val)
    /\ granted' = granted \cup {[op |-> reqs[i].op, val |-> reqs[i].val]}
    /\ UNCHANGED <<userVars, shownVars, infoVars>>

Refuse(i) ==
    /\ reqs[i].node = "open" /\ reqs[i].op \notin Certain
    /\ reqs[i].op = "myName" => node.name = None
    /\ reqs' = [reqs EXCEPT ![i].node = "refused"]
    /\ UNCHANGED <<userVars, shownVars, infoVars, nodeVars>>

\* Other peers change the routing table.  Bound: only where a page shows it.
RoutesLearned ==
    /\ "routing" \in sections
    /\ node.routes < MaxRoutes /\ node' = [node EXCEPT !.routes = @ + 1]
    /\ UNCHANGED <<userVars, reqs, shownVars, infoVars, granted>>

=============================================================================
