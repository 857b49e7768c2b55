------------------------------- MODULE Friends -------------------------------
(***************************************************************************)
(* Friends, posts and encrypted messages (peer/impl/mod.go 611-681 and     *)
(* 2591-2823), on top of the keys of module PublicKeys.  Calls of clients  *)
(* run beside the main loop and share lists with it that no lock protects. *)
(***************************************************************************)
EXTENDS PublicKeys

CONSTANTS
    Thread,     \* calls of clients, one at a time each
    ThreadOf,   \* the peer of a thread
    MaxMail     \* bound: messages of this module ever sent

ASSUME ThreadAssumption == ThreadOf \in [Thread -> Node] /\ MaxMail \in Nat

VARIABLES
    friends,    \* friends[n]: the addresses in friendsList
    pending,    \* pending[n][m]: how often m is in pendingFriendRequests
    thread,     \* thread[t]: where the call of t is
    mail,       \* messages of this module sent so far
    read        \* read[n]: the encrypted messages that n has opened, which are then in its registry

friendVars == <<friends, pending, thread, mail, read>>
allVars == <<vars, friendVars>>

PlainMail ==
    [type : {"request", "positive", "negative", "ask", "posts", "alert"}, src : Node, dst : Node]
EncryptedMail == [type : {"encrypted"}, src : Node, dst : Node, lock : Key, sign : Key]

\* sawFriends, sawPending: the lists as the call has read them.
Idle == [stage |-> "idle", of |-> None, sawFriends |-> {}, sawPending |-> [m \in Node |-> 0]]
Call == [stage : {"asked", "pend", "accepted", "befriend"}, of : Node,
         sawFriends : SUBSET Node, sawPending : [Node -> Nat]]

FriendsTypeOK ==
    /\ friends \in [Node -> SUBSET Node] /\ pending \in [Node -> [Node -> Nat]]
    /\ thread \in [Thread -> Call \cup {Idle}] /\ mail \subseteq PlainMail \cup EncryptedMail
    /\ read \in [Node -> SUBSET EncryptedMail]

FriendsInit ==
    /\ Init
    /\ friends = [n \in Node |-> {}] /\ pending = [n \in Node |-> [m \in Node |-> 0]]
    /\ thread = [t \in Thread |-> Idle] /\ mail = {} /\ read = [n \in Node |-> {}]

Plain(type, n, m) == [type |-> type, src |-> n, dst |-> m]

\* Unicast: an error if there is no route.
Unicast(type, n, m) == m \in routes[n] /\ mail' = mail \cup {Plain(type, n, m)}

-----------------------------------------------------------------------------
(* Calls of clients, by the thread t of the peer n.                         *)

At(t, stage) == thread[t].stage = stage

\* SendFriendRequest: the request is sent, and the address added to the list later.
SendRequest(t, n, m) ==
    /\ At(t, "idle") /\ m \in Asks[n] \ friends[n] /\ pending[n][m] = 0
    /\ Unicast("request", n, m)
    /\ thread' = [thread EXCEPT ![t] = [Idle EXCEPT !.stage = "asked", !.of = m]]
    /\ UNCHANGED <<vars, friends, pending, read>>

ReadPending(t, n) ==
    /\ At(t, "asked")
    /\ thread' = [thread EXCEPT ![t] = [@ EXCEPT !.stage = "pend", !.sawPending = pending[n]]]
    /\ UNCHANGED <<vars, friends, pending, mail, read>>

Added(counts, m) == [counts EXCEPT ![m] = @ + 1]

\* If the main loop has changed the list meanwhile, either write is lost or none.
WritePending(t, n) ==
    LET m == thread[t].of
        saw == thread[t].sawPending
    IN /\ At(t, "pend")
       /\ \E list \in IF saw = pending[n] THEN {Added(saw, m)}
                      ELSE {Added(saw, m), Added(pending[n], m), pending[n]} :
              pending' = [pending EXCEPT ![n] = list]
       /\ thread' = [thread EXCEPT ![t] = Idle]
       /\ UNCHANGED <<vars, friends, mail, read>>

\* Users answer what was asked.  friendRequestWaitList, which nothing reads, is left
\* out.
IsAsked(n, m) == Plain("request", m, n) \in mail

\* AcceptFriendRequest: the answer is sent, and the friend added later.
Accept(t, n, m) ==
    /\ At(t, "idle") /\ IsAsked(n, m) /\ Unicast("positive", n, m)
    /\ thread' = [thread EXCEPT ![t] = [Idle EXCEPT !.stage = "accepted", !.of = m]]
    /\ UNCHANGED <<vars, friends, pending, read>>

ReadFriends(t, n) ==
    /\ At(t, "accepted")
    /\ thread' = [thread EXCEPT ![t] = [@ EXCEPT !.stage = "befriend", !.sawFriends = friends[n]]]
    /\ UNCHANGED <<vars, friends, pending, mail, read>>

WriteFriends(t, n) ==
    LET m == thread[t].of
        saw == thread[t].sawFriends
    IN /\ At(t, "befriend")
       /\ \E list \in IF saw = friends[n] THEN {saw \cup {m}}
                      ELSE {saw \cup {m}, friends[n] \cup {m}, friends[n]} :
              friends' = [friends EXCEPT ![n] = list]
       /\ thread' = [thread EXCEPT ![t] = Idle]
       /\ UNCHANGED <<vars, pending, mail, read>>

\* DeclineFriendRequest.
Decline(t, n, m) ==
    /\ At(t, "idle") /\ IsAsked(n, m) /\ Unicast("negative", n, m)
    /\ UNCHANGED <<vars, friends, pending, thread, read>>

\* SetPersonalPost, for the alerts it sends.
SetPersonalPost(t, n) ==
    /\ At(t, "idle")
    /\ mail' = mail \cup {Plain("alert", n, m) : m \in friends[n] \cap routes[n]}
    /\ UNCHANGED <<vars, friends, pending, thread, read>>

GetPersonalPost(t, n, m) ==
    /\ At(t, "idle") /\ m \in Asks[n] /\ Unicast("ask", n, m)
    /\ UNCHANGED <<vars, friends, pending, thread, read>>

\* Mutant: the key of the sender.
LockOwn(n, m) == table[n][n]

\* The key that Encrypt takes for m.
Lock(n, m) == table[n][m]

EncryptMessage(t, n, m) ==
    /\ At(t, "idle") /\ m \in friends[n] \cap routes[n] /\ table[n][m] # None
    /\ mail' = mail \cup {[type |-> "encrypted", src |-> n, dst |-> m, lock |-> Lock(n, m),
                           sign |-> <<n, life[n]>>]}
    /\ UNCHANGED <<vars, friends, pending, thread, read>>

-----------------------------------------------------------------------------
(* Handlers                                                                *)

\* Mutant: an address that is not in the list is removed too.
RemovedAny(counts, m) == [counts EXCEPT ![m] = @ - 1]

Removed(counts, m) == IF counts[m] = 0 THEN counts ELSE [counts EXCEPT ![m] = @ - 1]

HandleRequest(n, p) ==
    /\ p.type = "request"
    /\ \/ LearnRoute(n, p.src)
       \/ p.src \in routes[n] /\ UNCHANGED vars
    /\ UNCHANGED friendVars

HandlePositive(n, p) ==
    /\ p.type = "positive"
    /\ pending' = [pending EXCEPT ![n] = Removed(@, p.src)]
    /\ friends' = [friends EXCEPT ![n] = @ \cup {p.src}]
    /\ UNCHANGED <<vars, thread, mail, read>>

HandleNegative(n, p) ==
    /\ p.type = "negative"
    /\ pending' = [pending EXCEPT ![n] = Removed(@, p.src)]
    /\ UNCHANGED <<vars, friends, thread, mail, read>>

\* Mutant: posts are sent to anybody who asks.
MayReadAny(n, m) == TRUE

MayRead(n, m) == m \in friends[n]

HandleAsk(n, p) ==
    /\ p.type = "ask" /\ MayRead(n, p.src) /\ Unicast("posts", n, p.src)
    /\ UNCHANGED <<vars, friends, pending, thread, read>>

\* Mutant: the signature is not checked against the key of the sender, nor opened with
\* the key of this run.
OpensAny(n, p) == table[n][p.src] # None

\* Decrypt: the signature is of the key known for the sender, the lock of the own key.
Opens(n, p) == p.sign = table[n][p.src] /\ p.lock = <<n, life[n]>>

HandleEncrypted(n, p) ==
    /\ p.type = "encrypted" /\ Opens(n, p)
    /\ read' = [read EXCEPT ![n] = @ \cup {p}]
    /\ UNCHANGED <<vars, friends, pending, thread, mail>>

HandleMail(n, p) ==
    \/ HandleRequest(n, p) \/ HandlePositive(n, p) \/ HandleNegative(n, p)
    \/ HandleAsk(n, p) \/ HandleEncrypted(n, p)

RestartPeer(n) ==
    /\ Restart(n)
    /\ friends' = [friends EXCEPT ![n] = {}]
    /\ pending' = [pending EXCEPT ![n] = [m \in Node |-> 0]]
    /\ thread' = [t \in Thread |-> IF ThreadOf[t] = n THEN Idle ELSE thread[t]]
    /\ read' = [read EXCEPT ![n] = {}]
    /\ UNCHANGED mail

ClientStep(t, n) ==
    /\ up[n]
    /\ \/ ReadPending(t, n) \/ WritePending(t, n) \/ ReadFriends(t, n) \/ WriteFriends(t, n)
       \/ SetPersonalPost(t, n)
       \/ \E m \in Node : \/ SendRequest(t, n, m) \/ Accept(t, n, m) \/ Decline(t, n, m)
                          \/ GetPersonalPost(t, n, m) \/ EncryptMessage(t, n, m)

MailStep(n) == up[n] /\ \E p \in {q \in mail : q.dst = n} : HandleMail(n, p)

FriendsNext ==
    \/ \E n \in Node : RestartPeer(n) \/ (KeyStep(n) /\ UNCHANGED friendVars)
    \/ \E n \in Node : MailStep(n) /\ Cardinality(mail') <= MaxMail
    \/ \E t \in Thread : ClientStep(t, ThreadOf[t]) /\ Cardinality(mail') <= MaxMail

FriendsSpec == FriendsInit /\ [][FriendsNext]_allVars

-----------------------------------------------------------------------------
(* Properties                                                              *)

\* One of the two has asked the other, who has accepted.
Agreed(n, m) ==
    \E a, b \in Node : {a, b} = {n, m} /\ Plain("request", a, b) \in mail
                                       /\ Plain("positive", b, a) \in mail

\* Posts, alerts and encrypted messages go only to a peer with which a friendship
\* was asked and accepted, whatever lists are raced and whoever restarts.
PrivateToFriends ==
    \A p \in mail : p.type \in {"posts", "alert", "encrypted"} => Agreed(p.src, p.dst)

\* Only the one it is for can open an encrypted message: its key is one of his, and
\* what a peer has opened was sealed for the run that it is in, by who it says.
SealedForFriend ==
    /\ \A p \in mail : p.type = "encrypted" => p.lock[1] = p.dst /\ p.lock[2] <= life[p.dst]
    /\ \A n \in Node : \A p \in read[n] :
           p.lock = <<n, life[n]>> /\ p.sign[1] = p.src /\ p \in mail

=============================================================================
