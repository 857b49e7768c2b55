---------------------------- MODULE FriendsProofs ----------------------------
(***************************************************************************)
(* Theorems about Friends, for any peers, users, threads, restarts and     *)
(* bounds.  Friends has the steps of PublicKeys, so that the theorems of   *)
(* PublicKeysProofs hold of it.  Whoever is in a list of friends, or in a  *)
(* copy of one that a call holds, has agreed.                              *)
(***************************************************************************)
EXTENDS Friends, PublicKeysProofs, FiniteSetTheorems

Bounded == Cardinality(sent) <= MaxSent

\* An answer was asked for.
AnswersAsked ==
    \A p \in mail : p.type = "positive" => Plain("request", p.dst, p.src) \in mail

FriendsAgreed == \A n \in Node : \A m \in friends[n] : Agreed(n, m)

\* So did those whom a call adds or has read.
CallAgreed(t) ==
    /\ thread[t].stage \in {"accepted", "befriend"} => Agreed(ThreadOf[t], thread[t].of)
    /\ \A m \in thread[t].sawFriends : Agreed(ThreadOf[t], m)

AgreeInv ==
    /\ AnswersAsked /\ FriendsAgreed /\ PrivateToFriends
    /\ \A t \in Thread : CallAgreed(t)

-----------------------------------------------------------------------------
(* The steps of PublicKeys                                                  *)

LEMMA MailFields ==
    ASSUME FriendsTypeOK, NEW p \in mail
    PROVE  /\ p.src \in Node /\ p.dst \in Node
           /\ p.type # "encrypted" => p = Plain(p.type, p.src, p.dst)
           /\ p.type = "encrypted" => p \in EncryptedMail /\ p.lock \in Key
BY DEF FriendsTypeOK, PlainMail, EncryptedMail, Plain

\* A step of the peers is one of PublicKeys or changes nothing of it.
LEMMA StepMaps ==
    ASSUME Bounded, FriendsTypeOK, [FriendsNext]_allVars
    PROVE  [Next]_vars /\ Bounded'
<1>1. ASSUME NEW n \in Node, MailStep(n)
      PROVE  [Next]_vars /\ Bounded'
  <2>1. PICK p \in mail : HandleMail(n, p) /\ up[n]
    BY <1>1 DEF MailStep
  <2>2. CASE LearnRoute(n, p.src)
    <3>1. UNCHANGED sent /\ p.src \in Node
      BY <2>2, MailFields DEF LearnRoute
    <3>2. KeyStep(n) /\ Bounded'
      BY <2>1, <2>2, <3>1 DEF KeyStep, Bounded
    <3> QED
      BY <3>2 DEF Next, Step
  <2>3. CASE UNCHANGED vars
    BY <2>3 DEF vars, Bounded
  <2> QED
    BY <2>1, <2>2, <2>3
    DEF HandleMail, HandleRequest, HandlePositive, HandleNegative, HandleAsk, HandleEncrypted
<1>2. ASSUME NEW t \in Thread, NEW n \in Node, ClientStep(t, n)
      PROVE  UNCHANGED vars
  BY <1>2 DEF ClientStep, ReadPending, WritePending, ReadFriends, WriteFriends, SetPersonalPost,
              SendRequest, Accept, Decline, GetPersonalPost, EncryptMessage
<1>3. ASSUME NEW n \in Node, RestartPeer(n)
      PROVE  [Next]_vars /\ Bounded'
  BY <1>3 DEF RestartPeer, Restart, Bounded, Next, Step
<1>4. ASSUME NEW n \in Node, KeyStep(n)
      PROVE  [Next]_vars /\ Bounded'
  BY <1>4 DEF KeyStep, Bounded, Next, Step
<1>5. ASSUME UNCHANGED vars
      PROVE  [Next]_vars /\ Bounded'
  BY <1>5 DEF vars, Bounded
<1>6. ASSUME NEW t \in Thread
      PROVE  ThreadOf[t] \in Node
  BY ThreadAssumption
<1> QED
  BY <1>1, <1>2, <1>3, <1>4, <1>5, <1>6 DEF FriendsNext, allVars

-----------------------------------------------------------------------------
(* Types                                                                    *)

LEMMA PlainType ==
    ASSUME NEW n \in Node, NEW m \in Node,
           NEW type \in {"request", "positive", "negative", "ask", "posts", "alert"}
    PROVE  Plain(type, n, m) \in PlainMail
BY DEF Plain, PlainMail

\* Counts stay counts when one address is added or removed.
LEMMA CountsType ==
    ASSUME NEW counts \in [Node -> Nat], NEW m \in Node
    PROVE  Added(counts, m) \in [Node -> Nat] /\ Removed(counts, m) \in [Node -> Nat]
BY DEF Added, Removed

LEMMA ClientKeepsType ==
    ASSUME TypeOK, FriendsTypeOK, NEW t \in Thread, ClientStep(t, ThreadOf[t])
    PROVE  FriendsTypeOK'
<1> DEFINE n == ThreadOf[t]
<1>0. n \in Node
  BY ThreadAssumption
<1>1. thread[t].stage # "idle" => thread[t] \in Call
  BY DEF FriendsTypeOK, Idle
<1>2. CASE ReadPending(t, n) \/ ReadFriends(t, n)
  <2>1. /\ thread[t].of \in Node /\ thread[t].sawFriends \in SUBSET Node
        /\ thread[t].sawPending \in [Node -> Nat] /\ thread[t] \in Call
    BY <1>1, <1>2 DEF ReadPending, ReadFriends, At, Call
  <2>2. pending[n] \in [Node -> Nat] /\ friends[n] \in SUBSET Node
    BY <1>0 DEF FriendsTypeOK
  <2>3. /\ [thread[t] EXCEPT !.stage = "pend", !.sawPending = pending[n]] \in Call
        /\ [thread[t] EXCEPT !.stage = "befriend", !.sawFriends = friends[n]] \in Call
    BY <2>1, <2>2 DEF Call
  <2>4. thread' \in [Thread -> Call \cup {Idle}]
    BY <1>2, <2>3 DEF ReadPending, ReadFriends, FriendsTypeOK
  <2> QED
    BY <1>2, <2>4 DEF ReadPending, ReadFriends, FriendsTypeOK
<1>3. CASE WritePending(t, n)
  <2>1. thread[t].of \in Node /\ thread[t].sawPending \in [Node -> Nat]
    BY <1>1, <1>3 DEF WritePending, At, Call
  <2>2. pending[n] \in [Node -> Nat]
    BY <1>0 DEF FriendsTypeOK
  <2>3. PICK list \in [Node -> Nat] : pending' = [pending EXCEPT ![n] = list]
    BY <1>3, <2>1, <2>2, CountsType DEF WritePending
  <2> QED
    BY <1>0, <1>3, <2>3 DEF WritePending, FriendsTypeOK
<1>4. CASE WriteFriends(t, n)
  <2>1. thread[t].of \in Node /\ thread[t].sawFriends \in SUBSET Node
    BY <1>1, <1>4 DEF WriteFriends, At, Call
  <2>2. friends[n] \in SUBSET Node
    BY <1>0 DEF FriendsTypeOK
  <2>3. PICK list \in SUBSET Node : friends' = [friends EXCEPT ![n] = list]
    BY <1>4, <2>1, <2>2 DEF WriteFriends
  <2> QED
    BY <1>0, <1>4, <2>3 DEF WriteFriends, FriendsTypeOK
<1>5. CASE SetPersonalPost(t, n)
  BY <1>0, <1>5, PlainType DEF SetPersonalPost, FriendsTypeOK
<1>6. ASSUME NEW m \in Node, SendRequest(t, n, m) \/ Accept(t, n, m)
      PROVE  FriendsTypeOK'
  <2>1. /\ [Idle EXCEPT !.stage = "asked", !.of = m] \in Call
        /\ [Idle EXCEPT !.stage = "accepted", !.of = m] \in Call
    BY DEF Idle, Call
  <2>2. thread' \in [Thread -> Call \cup {Idle}]
    BY <1>6, <2>1 DEF SendRequest, Accept, FriendsTypeOK
  <2>3. mail' \subseteq PlainMail \cup EncryptedMail
    BY <1>0, <1>6, PlainType DEF SendRequest, Accept, Unicast, FriendsTypeOK
  <2> QED
    BY <1>6, <2>2, <2>3 DEF SendRequest, Accept, FriendsTypeOK
<1>7. ASSUME NEW m \in Node, Decline(t, n, m) \/ GetPersonalPost(t, n, m)
      PROVE  FriendsTypeOK'
  BY <1>0, <1>7, PlainType DEF Decline, GetPersonalPost, Unicast, FriendsTypeOK
<1>8. ASSUME NEW m \in Node, EncryptMessage(t, n, m)
      PROVE  FriendsTypeOK'
  <2>1. table[n][m] \in Key /\ <<n, life[n]>> \in Key
    BY <1>0, <1>8 DEF EncryptMessage, TypeOK, Table, Key
  <2>2. [type |-> "encrypted", src |-> n, dst |-> m, lock |-> Lock(n, m), sign |-> <<n, life[n]>>]
            \in EncryptedMail
    BY <1>0, <2>1 DEF EncryptedMail, Lock
  <2> QED
    BY <1>8, <2>2 DEF EncryptMessage, FriendsTypeOK
<1> QED
  BY <1>2, <1>3, <1>4, <1>5, <1>6, <1>7, <1>8 DEF ClientStep

LEMMA FriendsTypeStep ==
    ASSUME TypeOK, FriendsTypeOK, [FriendsNext]_allVars
    PROVE  FriendsTypeOK'
<1>1. ASSUME UNCHANGED friendVars
      PROVE  FriendsTypeOK'
  BY <1>1 DEF friendVars, FriendsTypeOK
<1>2. ASSUME NEW n \in Node, RestartPeer(n)
      PROVE  FriendsTypeOK'
  BY <1>2 DEF RestartPeer, FriendsTypeOK
<1>3. ASSUME NEW n \in Node, MailStep(n)
      PROVE  FriendsTypeOK'
  <2>1. PICK p \in mail : HandleMail(n, p)
    BY <1>3 DEF MailStep
  <2>2. p.src \in Node
    BY MailFields
  <2>3. CASE HandleRequest(n, p)
    BY <2>3, <1>1 DEF HandleRequest
  <2>4. CASE HandlePositive(n, p) \/ HandleNegative(n, p)
    <3>1. Removed(pending[n], p.src) \in [Node -> Nat]
      BY <2>2, CountsType DEF FriendsTypeOK
    <3>2. pending' \in [Node -> [Node -> Nat]]
      BY <2>4, <3>1 DEF HandlePositive, HandleNegative, FriendsTypeOK
    <3>3. friends' \in [Node -> SUBSET Node]
      BY <2>2, <2>4 DEF HandlePositive, HandleNegative, FriendsTypeOK
    <3>4. UNCHANGED <<thread, mail, read>>
      BY <2>4 DEF HandlePositive, HandleNegative
    <3> QED
      BY <3>2, <3>3, <3>4 DEF FriendsTypeOK
  <2>5. CASE HandleAsk(n, p)
    BY <2>2, <2>5, PlainType DEF HandleAsk, Unicast, FriendsTypeOK
  <2>6. CASE HandleEncrypted(n, p)
    BY <2>6, MailFields DEF HandleEncrypted, FriendsTypeOK
  <2> QED
    BY <2>1, <2>3, <2>4, <2>5, <2>6 DEF HandleMail
<1> QED
  BY <1>1, <1>2, <1>3, ClientKeepsType DEF FriendsNext, allVars

\* What the induction of the others takes for granted.
Typed == TypeOK /\ FriendsTypeOK /\ Bounded

LEMMA TypedAlways == FriendsSpec => []Typed
<1>1. FriendsInit => Typed
  <2>1. FriendsInit => FriendsTypeOK
    BY DEF FriendsInit, FriendsTypeOK
  <2>2. FriendsInit => Bounded
    BY NodeAssumption, FS_EmptySet DEF FriendsInit, Init, Bounded
  <2> QED
    BY <2>1, <2>2, TypeInit DEF FriendsInit, Typed
<1>2. Typed /\ [FriendsNext]_allVars => Typed'
  BY StepMaps, TypeStep, FriendsTypeStep DEF Typed
<1> QED
  BY <1>1, <1>2, PTL DEF FriendsSpec

\* Lists, calls and messages of friends keep their types; a count of pending requests
\* is not removed below zero.
THEOREM FriendsTypeCorrect == FriendsSpec => []FriendsTypeOK
BY TypedAlways, PTL DEF Typed

\* With friends, the peers go on exchanging keys as PublicKeys says.
THEOREM ImplementsPublicKeys == FriendsSpec => Spec
<1>1. Typed /\ [FriendsNext]_allVars => [Next]_vars
  BY StepMaps DEF Typed
<1> QED
  BY <1>1, TypedAlways, PTL DEF FriendsSpec, FriendsInit, Spec

-----------------------------------------------------------------------------
(* Friendships                                                             *)

LEMMA AgreedSymmetric ==
    ASSUME NEW n \in Node, NEW m \in Node, Agreed(n, m)
    PROVE  Agreed(m, n)
BY DEF Agreed

\* Messages stay sent, so that what was agreed remains so.
LEMMA AgreedStays ==
    ASSUME mail \subseteq mail', NEW n, NEW m, Agreed(n, m)
    PROVE  Agreed(n, m)'
BY DEF Agreed

LEMMA MailGrows ==
    ASSUME [FriendsNext]_allVars
    PROVE  mail \subseteq mail'
<1>1. ASSUME NEW n, MailStep(n)
      PROVE  mail \subseteq mail'
  BY <1>1 DEF MailStep, HandleMail, HandleRequest, HandlePositive, HandleNegative, HandleAsk,
              HandleEncrypted, Unicast, friendVars
<1>2. ASSUME NEW t, NEW n, ClientStep(t, n)
      PROVE  mail \subseteq mail'
  BY <1>2 DEF ClientStep, ReadPending, WritePending, ReadFriends, WriteFriends, SetPersonalPost,
              SendRequest, Accept, Decline, GetPersonalPost, EncryptMessage, Unicast
<1> QED
  BY <1>1, <1>2 DEF FriendsNext, RestartPeer, allVars, friendVars

\* A step that sends nothing new of these types, and adds no friend, changes nothing.
LEMMA SameAgreed ==
    ASSUME AgreeInv, mail \subseteq mail', UNCHANGED <<friends, thread>>,
           \A p \in mail' \ mail : p.type \in {"request", "negative", "ask"}
    PROVE  AgreeInv'
<1>1. AnswersAsked' /\ PrivateToFriends'
  BY AgreedStays DEF AgreeInv, AnswersAsked, PrivateToFriends
<1>2. FriendsAgreed' /\ \A t \in Thread : CallAgreed(t)'
  BY AgreedStays DEF AgreeInv, FriendsAgreed, CallAgreed
<1> QED
  BY <1>1, <1>2 DEF AgreeInv

\* Posts, alerts and encrypted messages to friends.
LEMMA SentToFriends ==
    ASSUME AgreeInv, mail \subseteq mail', UNCHANGED <<friends, thread>>,
           \A p \in mail' \ mail : /\ p.type \in {"posts", "alert", "encrypted"}
                                   /\ p.src \in Node /\ p.dst \in friends[p.src]
    PROVE  AgreeInv'
<1>1. AnswersAsked' /\ PrivateToFriends'
  BY AgreedStays DEF AgreeInv, AnswersAsked, PrivateToFriends, FriendsAgreed
<1>2. FriendsAgreed' /\ \A t \in Thread : CallAgreed(t)'
  BY AgreedStays DEF AgreeInv, FriendsAgreed, CallAgreed
<1> QED
  BY <1>1, <1>2 DEF AgreeInv

\* The lists of friends and the calls change, and no message is sent.
LEMMA SameMail ==
    ASSUME AgreeInv, UNCHANGED mail, FriendsAgreed', \A t \in Thread : CallAgreed(t)'
    PROVE  AgreeInv'
BY DEF AgreeInv, AnswersAsked, PrivateToFriends, Agreed

LEMMA MailKeepsAgreed ==
    ASSUME Typed, AgreeInv, NEW n \in Node, NEW p \in mail, p.dst = n, HandleMail(n, p)
    PROVE  AgreeInv'
<1>0. p.src \in Node /\ FriendsTypeOK
  BY MailFields DEF Typed
<1>1. CASE HandleRequest(n, p)
  BY <1>1, SameMail DEF HandleRequest, friendVars, AgreeInv, FriendsAgreed, CallAgreed, Agreed
<1>2. CASE HandleNegative(n, p)
  BY <1>2, SameAgreed DEF HandleNegative
<1>3. CASE HandlePositive(n, p)
  <2>1. p = Plain("positive", p.src, n)
    BY <1>0, <1>3, MailFields DEF HandlePositive
  <2>2. Agreed(n, p.src)
    BY <1>0, <1>3, <2>1 DEF HandlePositive, AgreeInv, AnswersAsked, Agreed
  <2>3. \A t \in Thread : CallAgreed(t)'
    BY <1>3 DEF HandlePositive, AgreeInv, CallAgreed, Agreed
  <2>4. FriendsAgreed'
    BY <1>0, <1>3, <2>2 DEF HandlePositive, AgreeInv, FriendsAgreed, FriendsTypeOK, Agreed
  <2> QED
    BY <1>3, <2>3, <2>4, SameMail DEF HandlePositive
<1>4. CASE HandleAsk(n, p)
  BY <1>0, <1>4, SentToFriends DEF HandleAsk, Unicast, Plain, MayRead
<1>5. CASE HandleEncrypted(n, p)
  BY <1>5, SameMail DEF HandleEncrypted, AgreeInv, FriendsAgreed, CallAgreed, Agreed
<1> QED
  BY <1>1, <1>2, <1>3, <1>4, <1>5 DEF HandleMail

LEMMA ClientKeepsAgreed ==
    ASSUME Typed, AgreeInv, NEW t \in Thread, ClientStep(t, ThreadOf[t])
    PROVE  AgreeInv'
<1> DEFINE n == ThreadOf[t]
<1>0. n \in Node /\ FriendsTypeOK
  BY ThreadAssumption DEF Typed
<1>1. CASE ReadPending(t, n)
  <2>0. thread[t] \in Call /\ UNCHANGED mail
    BY <1>0, <1>1 DEF ReadPending, At, FriendsTypeOK, Idle
  <2>1. ASSUME NEW u \in Thread
        PROVE  CallAgreed(u)'
    <3>1. thread'[u].sawFriends = thread[u].sawFriends /\ (u # t => thread'[u] = thread[u])
      BY <1>0, <1>1, <2>0 DEF ReadPending, FriendsTypeOK, Call
    <3>2. thread'[t].stage = "pend"
      BY <1>0, <1>1, <2>0 DEF ReadPending, FriendsTypeOK, Call
    <3> QED
      BY <2>0, <3>1, <3>2, AgreedStays DEF AgreeInv, CallAgreed
  <2> QED
    BY <1>1, <2>1, SameMail DEF ReadPending, AgreeInv, FriendsAgreed, Agreed
<1>2. CASE WritePending(t, n)
  <2>1. \A u \in Thread : CallAgreed(u)'
    BY ZenonT(30), <1>0, <1>2 DEF WritePending, AgreeInv, CallAgreed, Agreed, FriendsTypeOK, Idle
  <2> QED
    BY <1>2, <2>1, SameMail DEF WritePending, AgreeInv, FriendsAgreed, Agreed
<1>3. CASE ReadFriends(t, n)
  <2>0. thread[t] \in Call /\ thread[t].stage = "accepted" /\ UNCHANGED <<mail, friends>>
    BY <1>0, <1>3 DEF ReadFriends, At, FriendsTypeOK, Idle
  <2>1. ASSUME NEW u \in Thread
        PROVE  CallAgreed(u)'
    <3>1. u # t => thread'[u] = thread[u]
      BY <1>0, <1>3 DEF ReadFriends, FriendsTypeOK
    <3>2. thread'[t].of = thread[t].of /\ thread'[t].sawFriends = friends[n]
      BY <1>0, <1>3, <2>0 DEF ReadFriends, FriendsTypeOK, Call
    <3> QED
      BY <1>0, <2>0, <3>1, <3>2, AgreedStays DEF AgreeInv, CallAgreed, FriendsAgreed
  <2> QED
    BY <1>3, <2>1, SameMail DEF ReadFriends, AgreeInv, FriendsAgreed, Agreed
<1>4. CASE WriteFriends(t, n)
  <2>1. \A u \in Thread : CallAgreed(u)'
    BY ZenonT(30), <1>0, <1>4 DEF WriteFriends, AgreeInv, CallAgreed, Agreed, FriendsTypeOK, Idle
  <2>2. Agreed(n, thread[t].of) /\ \A m \in thread[t].sawFriends : Agreed(n, m)
    BY <1>4 DEF WriteFriends, At, AgreeInv, CallAgreed
  <2>3. FriendsAgreed'
    <3>1. \A m \in friends'[n] : m \in friends[n] \cup thread[t].sawFriends \cup {thread[t].of}
      BY <1>0, <1>4 DEF WriteFriends, FriendsTypeOK
    <3>2. \A k \in Node \ {n} : friends'[k] = friends[k]
      BY <1>0, <1>4 DEF WriteFriends, FriendsTypeOK
    <3>3. UNCHANGED mail
      BY <1>4 DEF WriteFriends
    <3> QED
      BY <1>0, <2>2, <3>1, <3>2, <3>3, AgreedStays DEF AgreeInv, FriendsAgreed
  <2> QED
    BY <1>4, <2>1, <2>3, SameMail DEF WriteFriends
<1>5. CASE SetPersonalPost(t, n)
  BY <1>0, <1>5, SentToFriends DEF SetPersonalPost, Plain
<1>6. ASSUME NEW m \in Node, SendRequest(t, n, m)
      PROVE  AgreeInv'
  <2>1. mail \subseteq mail' /\ \A p \in mail' \ mail : p.type = "request"
    BY <1>6 DEF SendRequest, Unicast, Plain
  <2>2. AnswersAsked' /\ PrivateToFriends' /\ FriendsAgreed'
    BY <1>6, <2>1, AgreedStays
    DEF SendRequest, AgreeInv, AnswersAsked, PrivateToFriends, FriendsAgreed
  <2>3. ASSUME NEW u \in Thread
        PROVE  CallAgreed(u)'
    BY <1>0, <1>6, <2>1, AgreedStays DEF SendRequest, AgreeInv, CallAgreed, FriendsTypeOK, Idle
  <2> QED
    BY <2>2, <2>3 DEF AgreeInv
<1>7. ASSUME NEW m \in Node, Accept(t, n, m)
      PROVE  AgreeInv'
  <2>1. mail' = mail \cup {Plain("positive", n, m)} /\ Plain("request", m, n) \in mail
    BY <1>7 DEF Accept, Unicast, IsAsked
  <2>2. Agreed(n, m)'
    BY <1>0, <2>1 DEF Agreed
  <2>3. AnswersAsked'
    BY <2>1 DEF AgreeInv, AnswersAsked, Plain
  <2>4. PrivateToFriends' /\ FriendsAgreed'
    BY <1>7, <2>1, AgreedStays DEF Accept, AgreeInv, PrivateToFriends, FriendsAgreed, Plain
  <2>5. ASSUME NEW u \in Thread
        PROVE  CallAgreed(u)'
    BY <1>0, <1>7, <2>1, <2>2, AgreedStays DEF Accept, AgreeInv, CallAgreed, FriendsTypeOK, Idle
  <2> QED
    BY <2>3, <2>4, <2>5 DEF AgreeInv
<1>8. ASSUME NEW m \in Node, Decline(t, n, m) \/ GetPersonalPost(t, n, m)
      PROVE  AgreeInv'
  BY <1>8, SameAgreed DEF Decline, GetPersonalPost, Unicast, Plain
<1>9. ASSUME NEW m \in Node, EncryptMessage(t, n, m)
      PROVE  AgreeInv'
  BY <1>0, <1>9, SentToFriends DEF EncryptMessage
<1> QED
  BY <1>1, <1>2, <1>3, <1>4, <1>5, <1>6, <1>7, <1>8, <1>9 DEF ClientStep

LEMMA AgreeStep ==
    ASSUME Typed, AgreeInv, [FriendsNext]_allVars
    PROVE  AgreeInv'
<1>1. ASSUME UNCHANGED friendVars
      PROVE  AgreeInv'
  BY <1>1, SameMail DEF friendVars, AgreeInv, FriendsAgreed, CallAgreed, Agreed
<1>2. ASSUME NEW n \in Node, RestartPeer(n)
      PROVE  AgreeInv'
  <2>1. \A t \in Thread : CallAgreed(t)'
    BY <1>2 DEF RestartPeer, AgreeInv, CallAgreed, Agreed, Idle
  <2>2. FriendsAgreed'
    BY <1>2 DEF RestartPeer, AgreeInv, FriendsAgreed, Agreed, Typed, FriendsTypeOK
  <2> QED
    BY <1>2, <2>1, <2>2, SameMail DEF RestartPeer
<1>3. ASSUME NEW n \in Node, MailStep(n)
      PROVE  AgreeInv'
  BY <1>3, MailKeepsAgreed DEF MailStep
<1> QED
  BY <1>1, <1>2, <1>3, ClientKeepsAgreed DEF FriendsNext, allVars

\* Posts, alerts and encrypted messages go only to a peer with which a friendship was
\* asked and accepted.
THEOREM PostsPrivate == FriendsSpec => []PrivateToFriends
<1>1. FriendsInit => AgreeInv
  BY DEF FriendsInit, AgreeInv, AnswersAsked, FriendsAgreed, PrivateToFriends, CallAgreed, Idle
<1>2. AgreeInv => PrivateToFriends
  BY DEF AgreeInv
<1> QED
  BY <1>1, <1>2, AgreeStep, TypedAlways, PTL DEF FriendsSpec

\* The lock of an encrypted message is a key of the peer it is for.
Sealed == \A p \in mail : p.type = "encrypted" => p.lock[1] = p.dst /\ p.lock[2] <= life[p.dst]

LEMMA SealedStep ==
    ASSUME Typed, KeyGenuine, Sealed, [FriendsNext]_allVars
    PROVE  Sealed'
<1> SUFFICES ASSUME NEW p \in mail', p.type = "encrypted"
             PROVE  p.lock[1] = p.dst /\ p.lock[2] <= life'[p.dst]
  BY DEF Sealed
<1>1. \A a \in Node : life[a] \in Nat /\ life'[a] \in Nat /\ life[a] <= life'[a]
  BY StepMaps, LifeStep DEF Typed, TypeOK, Restart
<1>2. CASE p \in mail
  <2>1. p.dst \in Node /\ p.lock[2] \in Nat
    BY <1>2, MailFields DEF Typed, Key
  <2> QED
    BY <1>1, <1>2, <2>1 DEF Sealed
<1>3. CASE p \notin mail
  <2>1. PICK t \in Thread : ClientStep(t, ThreadOf[t])
    BY <1>3 DEF FriendsNext, allVars, friendVars, RestartPeer, MailStep, HandleMail,
                HandleRequest, HandlePositive, HandleNegative, HandleAsk, HandleEncrypted,
                Unicast, Plain
  <2>2. PICK m \in Node : EncryptMessage(t, ThreadOf[t], m)
    <3> DEFINE n == ThreadOf[t]
    <3>1. ~(ReadPending(t, n) \/ WritePending(t, n) \/ ReadFriends(t, n) \/ WriteFriends(t, n))
      BY <1>3 DEF ReadPending, WritePending, ReadFriends, WriteFriends
    <3>2. ~SetPersonalPost(t, n)
      BY <1>3 DEF SetPersonalPost, Plain
    <3>3. ASSUME NEW m \in Node
          PROVE  ~(SendRequest(t, n, m) \/ Accept(t, n, m) \/ Decline(t, n, m)
                    \/ GetPersonalPost(t, n, m))
      BY <1>3 DEF SendRequest, Accept, Decline, GetPersonalPost, Unicast, Plain
    <3> QED
      BY <2>1, <3>1, <3>2, <3>3 DEF ClientStep
  <2>3. /\ p.dst = m /\ p.lock = table[ThreadOf[t]][m] /\ p.lock # None /\ life' = life
    BY <1>3, <2>2 DEF EncryptMessage, Lock, vars
  <2> QED
    BY <2>3, ThreadAssumption DEF KeyGenuine
<1> QED
  BY <1>2, <1>3

\* What a peer has opened was sealed for the run that it is in, by who it says.
Opened ==
    \A n \in Node : \A p \in read[n] : p.lock = <<n, life[n]>> /\ p.sign[1] = p.src /\ p \in mail

LEMMA OpenedStep ==
    ASSUME Typed, KeyGenuine, Opened, [FriendsNext]_allVars
    PROVE  Opened'
<1>0. mail \subseteq mail' /\ TypeOK /\ FriendsTypeOK
  BY MailGrows DEF Typed
<1>1. ASSUME NEW n \in Node, RestartPeer(n)
      PROVE  Opened'
  BY <1>0, <1>1 DEF RestartPeer, Restart, Opened, TypeOK, FriendsTypeOK
<1>2. ASSUME NEW n \in Node, MailStep(n)
      PROVE  Opened'
  <2>1. PICK p \in mail : p.dst = n /\ HandleMail(n, p)
    BY <1>2 DEF MailStep
  <2>2. CASE HandleEncrypted(n, p)
    <3>1. p.src \in Node /\ p.sign = table[n][p.src] /\ p.sign \in Key
      BY <2>2, MailFields DEF HandleEncrypted, Opens, EncryptedMail, Typed
    <3>2. p.sign[1] = p.src /\ p.lock = <<n, life[n]>>
      BY <2>2, <3>1, NoneAssumption DEF KeyGenuine, HandleEncrypted, Opens
    <3>3. UNCHANGED <<life, mail>> /\ read' = [read EXCEPT ![n] = @ \cup {p}]
      BY <2>2 DEF HandleEncrypted, vars
    <3> QED
      BY <1>0, <3>2, <3>3 DEF Opened, FriendsTypeOK
  <2>3. CASE ~HandleEncrypted(n, p)
    <3>1. UNCHANGED <<life, read>>
      BY <2>1, <2>3 DEF HandleMail, HandleRequest, HandlePositive, HandleNegative, HandleAsk,
                        LearnRoute, vars, friendVars
    <3> QED
      BY <1>0, <3>1 DEF Opened
  <2> QED
    BY <2>2, <2>3
<1>3. ASSUME NEW t \in Thread, ClientStep(t, ThreadOf[t])
      PROVE  Opened'
  <2>1. UNCHANGED <<life, read>>
    BY <1>3 DEF ClientStep, ReadPending, WritePending, ReadFriends, WriteFriends, SetPersonalPost,
                SendRequest, Accept, Decline, GetPersonalPost, EncryptMessage, vars
  <2> QED
    BY <1>0, <2>1 DEF Opened
<1>4. ASSUME NEW n \in Node, KeyStep(n), UNCHANGED friendVars
      PROVE  Opened'
  <2>1. UNCHANGED <<life, read>>
    BY <1>4 DEF KeyStep, Receive, AddPeer, LearnRoute, SendTable, HandleTable, HandleNeed,
                HandleConfirm, friendVars
  <2> QED
    BY <1>0, <2>1 DEF Opened
<1>5. ASSUME UNCHANGED allVars
      PROVE  Opened'
  BY <1>5 DEF allVars, vars, friendVars, Opened
<1> QED
  BY <1>1, <1>2, <1>3, <1>4, <1>5 DEF FriendsNext

\* The key of an encrypted message is one of the peer it is for; what a peer has opened
\* was sealed for its present run, and signed by the sender.
THEOREM MessagesSealed == FriendsSpec => []SealedForFriend
<1>1. FriendsInit => Sealed /\ Opened
  BY DEF FriendsInit, Sealed, Opened
<1>2. Sealed /\ Opened => SealedForFriend
  BY DEF Sealed, Opened, SealedForFriend
<1> QED
  BY <1>1, <1>2, SealedStep, OpenedStep, TypedAlways, ImplementsPublicKeys, KeysGenuine, PTL
  DEF FriendsSpec
=============================================================================
