------------------------------- MODULE PageFeed -------------------------------
(***************************************************************************)
(* The packets of a peer on their way to its page: the notifications of    *)
(* the message registry (registry/standard/mod.go), one stream of events   *)
(* per connection (gui/httpnode/controller/registry.go), and the section   *)
(* "packets" of main.js with the friend requests and posts it shows.       *)
(***************************************************************************)
EXTENDS Page

CONSTANTS
    Packet,     \* packets the peer processes, each once
    Kind,       \* Kind[p]: the type of the message in p
    From,       \* From[p]: the address that sent it
    Me,         \* the address of the peer
    Capacity,   \* room in the channel of a stream, 100 in the code
    MaxStreams  \* bound: connections for packets

Stream == 1 .. MaxStreams
Kinds == {"chat", "friendRequest", "positiveResponse", "negativeResponse", "posts", "newPost",
          "other"}

ASSUME FeedAssumption ==
    /\ Kind \in [Packet -> Kinds] /\ From \in [Packet -> Value] /\ Me \in Value
    /\ Capacity \in Nat \ {0} /\ MaxStreams \in Nat \ {0} /\ None \notin Packet

VARIABLES
    waiting,    \* packets whose notification waits for the lock
    lock,       \* the one that holds it, and the next callback to call
    notified,   \* history: the packets in the order they took the lock
    connecting, \* streams whose callback is not registered yet
    callbacks,  \* the callbacks, by their streams; none is ever removed
    chan,       \* chan[s]: the packets in the channel of stream s
    serving,    \* streams whose connection the proxy still serves
    stream,     \* the stream that the page listens to, or will
    history,    \* the packets the page has shown, where, and the stream they came by
    notices,    \* friend requests on display, with their buttons
    posted      \* posts of friends on display

registryVars == <<waiting, lock, notified, connecting, callbacks, chan, serving>>
listVars == <<history, notices, posted>>
feedVars == <<registryVars, stream, listVars>>

Free == [pkt |-> None, next |-> 0]

FeedTypeOK ==
    /\ waiting \subseteq Packet
    /\ \/ lock = Free
       \/ lock \in [pkt : Packet, next : 1 .. Len(callbacks) + 1]
    /\ notified \in Seq(Packet) /\ connecting \subseteq Stream /\ callbacks \in Seq(Stream)
    /\ chan \in [Stream -> Seq(Packet)] /\ \A s \in Stream : Len(chan[s]) <= Capacity
    /\ serving \subseteq Stream /\ stream \in Stream
    /\ history \in Seq([pkt : Packet, side : {"sent", "received", "none"}, via : Stream])
    /\ notices \in Seq(Packet) /\ posted \in Seq(Packet)

FeedInit ==
    /\ waiting = {} /\ lock = Free /\ notified = << >>
    /\ connecting = {} /\ callbacks = << >> /\ serving = {}
    /\ chan = [s \in Stream |-> << >>] /\ stream = 1
    /\ history = << >> /\ notices = << >> /\ posted = << >>

-----------------------------------------------------------------------------
(* The registry                                                             *)

Processed == waiting \cup {notified[i] : i \in DOMAIN notified}

\* ProcessPacket has called the handler and starts the notification.  It waits for it,
\* twenty seconds at most; clients and nested messages have packets processed meanwhile.
\* Bound: pages without the section "packets" are explored without packets.
Process(p) ==
    /\ p \notin Processed /\ "packets" \in sections
    /\ waiting' = waiting \cup {p}
    /\ UNCHANGED <<pageVars, lock, notified, connecting, callbacks, chan, serving, stream, listVars>>

\* ExecAll calls the callbacks one after the other, under the lock.
Notify(p) ==
    /\ p \in waiting /\ lock = Free
    /\ waiting' = waiting \ {p} /\ lock' = [pkt |-> p, next |-> 1]
    /\ notified' = Append(notified, p)
    /\ UNCHANGED <<pageVars, connecting, callbacks, chan, serving, stream, listVars>>

\* Mutant: room for one more.
RoomForMore(s) == Len(chan[s]) <= Capacity

Room(s) == Len(chan[s]) < Capacity

\* Mutant: the callback does not wait for room.
PushOrDrop ==
    LET s == callbacks[lock.next]
    IN /\ lock # Free /\ lock.next <= Len(callbacks)
       /\ chan' = IF Room(s) THEN [chan EXCEPT ![s] = Append(@, lock.pkt)] ELSE chan
       /\ lock' = [lock EXCEPT !.next = @ + 1]
       /\ UNCHANGED <<pageVars, waiting, notified, connecting, callbacks, serving, stream, listVars>>

\* The callback of a stream puts the packet in its channel, and blocks while it is full.
Push ==
    LET s == callbacks[lock.next]
    IN /\ lock # Free /\ lock.next <= Len(callbacks) /\ Room(s)
       /\ chan' = [chan EXCEPT ![s] = Append(@, lock.pkt)]
       /\ lock' = [lock EXCEPT !.next = @ + 1]
       /\ UNCHANGED <<pageVars, waiting, notified, connecting, callbacks, serving, stream, listVars>>

Unlock ==
    /\ lock # Free /\ lock.next > Len(callbacks)
    /\ lock' = Free
    /\ UNCHANGED <<pageVars, waiting, notified, connecting, callbacks, chan, serving, stream,
                   listVars>>

\* Mutant: Add does not take the lock.
RegisterAnytime(s) ==
    /\ s \in connecting
    /\ connecting' = connecting \ {s} /\ serving' = serving \cup {s}
    /\ callbacks' = Append(callbacks, s)
    /\ UNCHANGED <<pageVars, waiting, lock, notified, chan, stream, listVars>>

\* pktNotifyGet registers a callback, which takes the lock, and serves the stream.
Register(s) ==
    /\ s \in connecting /\ lock = Free
    /\ connecting' = connecting \ {s} /\ serving' = serving \cup {s}
    /\ callbacks' = Append(callbacks, s)
    /\ UNCHANGED <<pageVars, waiting, lock, notified, chan, stream, listVars>>

\* The connection is gone: the proxy stops to serve it, the callback stays.
Leave(s) ==
    /\ s \in serving /\ s # stream
    /\ serving' = serving \ {s}
    /\ UNCHANGED <<pageVars, waiting, lock, notified, connecting, callbacks, chan, stream, listVars>>

-----------------------------------------------------------------------------
(* The section "packets" of the page                                        *)

\* The side of the entry in the list of messages, if there is one.  Before it knows the
\* address of its peer, the page takes all for received.
Side(p) ==
    IF Kind[p] \in {"posts", "newPost", "other"} THEN "none"
    ELSE IF From[p] = Me /\ addr THEN "sent" ELSE "received"

\* packetMessage: every packet enters the history; a chat message, a friend request or
\* an answer to one, or the posts of a friend, also a list of their own.
PacketMessage(p) ==
    /\ history' = Append(history, [pkt |-> p, side |-> Side(p), via |-> stream])
    /\ notices' = IF Kind[p] = "friendRequest" THEN Append(notices, p) ELSE notices
    /\ posted' = IF Kind[p] = "posts" THEN Append(posted, p) ELSE posted
    /\ IF Kind[p] = "newPost" THEN Flashed("alert", 0) ELSE flash' = flash

\* The next packet of a stream is written; one for a connection that is gone is lost.
Deliver(s) ==
    /\ s \in serving /\ chan[s] # << >>
    /\ chan' = [chan EXCEPT ![s] = Tail(@)]
    /\ IF s = stream THEN PacketMessage(Head(chan[s])) ELSE UNCHANGED <<listVars, flash>>
    /\ UNCHANGED <<userVars, reqs, sent, panel, infoVars, nodeVars, waiting, lock, notified,
                   connecting, callbacks, serving, stream>>

PacketsInitialize ==
    /\ Connected("packets") /\ reqs' = reqs
    /\ connecting' = connecting \cup {stream}
    /\ UNCHANGED <<waiting, lock, notified, callbacks, chan, serving, stream, listVars>>

\* packetError: the connection breaks, and the browser connects again.
PacketError ==
    /\ stream \in connecting \cup serving /\ stream < MaxStreams
    /\ stream' = stream + 1 /\ connecting' = connecting \cup {stream + 1}
    /\ Flashed("error", 0)
    /\ UNCHANGED <<userVars, reqs, sent, panel, infoVars, nodeVars, waiting, lock, notified,
                   callbacks, chan, serving, listVars>>

\* A button of a notice: send answers the request of that notice, then remove takes the
\* first notice of the page away, whichever it is.
Answer(op, j) ==
    /\ Ready("packets") /\ j \in DOMAIN notices
    /\ Send(op, From[notices[j]])
    /\ notices' = Tail(notices)
    /\ UNCHANGED <<shownVars, registryVars, stream, history, posted>>

AnswerDone(op, i, how) ==
    /\ Ends(i, op, how)
    /\ IF Ok(how) THEN Listed(i) /\ flash' = flash ELSE Flashed("error", i) /\ sent' = sent
    /\ Rest /\ UNCHANGED <<panel, feedVars>>

Accept(j) == Answer("accept", j)
AcceptDone(i, how) == AnswerDone("accept", i, how)
Decline(j) == Answer("decline", j)
DeclineDone(i, how) == AnswerDone("decline", i, how)

\* The posts on display are removed before the input is looked at.
AskPosts ==
    /\ posted' = << >>
    /\ \/ InputMissing("postsFriend")
       \/ Ready("postsFriend") /\ typed # Blank /\ Send("askPosts", typed) /\ UNCHANGED shownVars
    /\ UNCHANGED <<registryVars, stream, history, notices>>

AskPostsDone(i, how) ==
    /\ Ends(i, "askPosts", how)
    /\ IF Ok(how) THEN flash' = flash ELSE Flashed("error", i)
    /\ Rest /\ UNCHANGED <<sent, panel, feedVars>>

-----------------------------------------------------------------------------
FeedClick == AskPosts \/ \E j \in DOMAIN notices : Accept(j) \/ Decline(j)

FeedDone(i, how) == AcceptDone(i, how) \/ DeclineDone(i, how) \/ AskPostsDone(i, how)

\* What the registry, the proxy and the page do by themselves.
FeedStep ==
    \/ \E p \in Packet : Notify(p)
    \/ Push \/ Unlock
    \/ \E s \in Stream : Register(s) \/ Leave(s) \/ Deliver(s)

=============================================================================
