---------------------------- MODULE WebPageProofs ----------------------------
(***************************************************************************)
(* Theorems about module WebPage, for any values, packets, bounds and      *)
(* room in a channel.  What the many handlers of the page have in common   *)
(* is stated once (Clicked, Ended, Spoke); each handler is shown to have   *)
(* it, and the invariants follow from it.                                  *)
(***************************************************************************)
EXTENDS WebPage, TLAPS, SequenceTheorems

How == {"ok", "refused", "failed"}
Shows == Value \cup {Blank, None, Searching} \cup Nat

-----------------------------------------------------------------------------
(* What handlers have in common                                            *)

Finished(i, how) == [reqs EXCEPT ![i].page = how]

\* The request i is over for the page; another may have been sent.
Ended(i, how) ==
    /\ i \in DOMAIN reqs /\ CanEnd(i, how)
    /\ \/ reqs' = Finished(i, how)
       \/ \E op \in Op \ {"setName"} : reqs' = Append(Finished(i, how), NewRequest(op, Blank))

\* What its handler says of it.
Spoke(i, how) ==
    /\ \/ flash' = flash
       \/ how = "ok" /\ flash' = flash \cup {[kind |-> "success", req |-> i]}
       \/ flash' = flash \cup {[kind |-> "error", req |-> i]}
    /\ \/ sent' = sent
       \/ /\ sent' = sent \cup {[op |-> reqs[i].op, val |-> reqs[i].val]}
          /\ how = "ok" \/ reqs[i].op \in {"post", "addFriend"}
    /\ reqs[i].op \in Talking =>
           \/ \E f \in flash' : f.req = i /\ f.kind \in {"success", "error"}
           \/ [op |-> reqs[i].op, val |-> reqs[i].val] \in sent'
    /\ panel' \in [Area -> Shows] /\ addr' \in BOOLEAN /\ holder' \in BOOLEAN
    /\ UNCHANGED <<page, started, load, clicks, typed, node, granted>>

\* A click, an input, a section that is connected or a packet: at most one request more.
Clicked ==
    /\ \/ reqs' = reqs
       \/ \E op \in Op, v \in Value \cup {Blank} :
              (op = "setName" => v # Blank) /\ reqs' = Append(reqs, NewRequest(op, v))
    /\ \/ flash' = flash
       \/ \E k \in {"form", "progress", "alert", "error"}, n \in Nat : flash' = flash \cup {[kind |-> k, req |-> n]}
    /\ panel' \in [Area -> Shows] /\ clicks' \in Nat /\ typed' \in Value \cup {Blank}
    /\ started \subseteq started' /\ started' \subseteq Starting
    /\ UNCHANGED <<page, load, sent, addr, holder, node, granted>>

\* How a request may end for the page, and what is shown of it.
LEMMA EndsEnded ==
    ASSUME PageTypeOK, NEW i, NEW op \in Op, NEW how \in How, Ends(i, op, how)
    PROVE  Ended(i, how) /\ reqs[i] \in Request /\ reqs[i].op = op /\ i \in Nat
BY DEF PageTypeOK, Ends, Ended, Finished

LEMMA AsksEnded ==
    ASSUME PageTypeOK, NEW i, NEW op \in Op, NEW how \in How, NEW next \in Op \ {"setName"},
           EndsThenAsks(i, op, how, next)
    PROVE  Ended(i, how) /\ reqs[i] \in Request /\ reqs[i].op = op /\ i \in Nat
BY DEF PageTypeOK, EndsThenAsks, Ended, Finished

\* What is put in an area is something an area can show.
LEMMA ShownType ==
    ASSUME panel \in [Area -> Shows], NEW a \in Area, NEW x \in Shows, Shown(a, x)
    PROVE  panel' \in [Area -> Shows]
BY DEF Shown

\* An element of a set of messages that has just been added.
LEMMA InFlash ==
    ASSUME NEW i, NEW k \in {"success", "error"}, flash' = flash \cup {[kind |-> k, req |-> i]}
    PROVE  \E f \in flash' : f.req = i /\ f.kind \in {"success", "error"}
<1>1. [kind |-> k, req |-> i] \in flash'
  OBVIOUS
<1>2. [kind |-> k, req |-> i].req = i /\ [kind |-> k, req |-> i].kind \in {"success", "error"}
  OBVIOUS
<1> QED  BY <1>1, <1>2

\* The three kinds of handlers that end with a message in a list, or a flash.
LEMMA ListSpoke ==
    ASSUME PageTypeOK, NEW i \in Nat, NEW how \in How, reqs[i] \in Request, ListOrError(i, how)
    PROVE  Spoke(i, how)
BY InFlash DEF PageTypeOK, ListOrError, Ok, Listed, Error, Flashed, Rest, Spoke, userVars, infoVars,
          nodeVars, Shows

LEMMA FlashSpoke ==
    ASSUME PageTypeOK, NEW i \in Nat, NEW how \in How, FlashOnly(i, how)
    PROVE  Spoke(i, how)
BY InFlash DEF PageTypeOK, FlashOnly, Ok, Success, Error, Flashed, Rest, Spoke, userVars, infoVars,
          nodeVars, Shows

LEMMA ResultSpoke ==
    ASSUME PageTypeOK, NEW i \in Nat, NEW how \in How, NEW a \in Area, NEW x \in Shows,
           ResultOrError(i, how, a, x)
    PROVE  Spoke(i, how)
BY InFlash, ShownType DEF PageTypeOK, ResultOrError, Ok, Success, Error, Flashed, Rest, Spoke,
          userVars, infoVars, nodeVars, Shows

\* A handler that says nothing of a request whose user is not told.
LEMMA QuietSpoke ==
    ASSUME PageTypeOK, NEW i \in Nat, NEW how \in How, reqs[i].op \notin Talking,
           flash' = flash \/ Flashed("error", i) \/ (how = "ok" /\ Flashed("success", i)),
           sent' = sent, panel' \in [Area -> Shows], addr' \in BOOLEAN, holder' \in BOOLEAN,
           UNCHANGED <<userVars, nodeVars>>
    PROVE  Spoke(i, how)
BY DEF PageTypeOK, Flashed, Spoke, userVars, nodeVars

\* Every handler of the forms ends its request, and says what came of it.
LEMMA FormsSpoke ==
    ASSUME PageTypeOK, NEW i, NEW how \in How, FormsDone(i, how)
    PROVE  Ended(i, how) /\ Spoke(i, how)
<1> USE DEF Op
<1>1. CASE AddressDone(i, how)
  <2>1. Ended(i, how) /\ reqs[i].op = "address" /\ i \in Nat
    BY <1>1, AsksEnded DEF AddressDone
  <2>2. Spoke(i, how)
    BY <1>1, <2>1, QuietSpoke DEF AddressDone, Talking, PageTypeOK, Shows
  <2> QED  BY <2>1, <2>2
<1>2. CASE MyNameDone(i, how)
  <2>1. Ended(i, how) /\ reqs[i] \in Request /\ reqs[i].op = "myName" /\ i \in Nat
    BY <1>2, AsksEnded DEF MyNameDone
  <2>2. panel' \in [Area -> Shows]
    BY <1>2, <2>1, ShownType DEF MyNameDone, PageTypeOK, Shows, Request, Area
  <2>3. Spoke(i, how)
    BY <1>2, <2>1, <2>2, QuietSpoke DEF MyNameDone, Talking, PageTypeOK
  <2> QED  BY <2>1, <2>3
<1>3. CASE MyAvatarDone(i, how)
  <2>1. Ended(i, how) /\ reqs[i] \in Request /\ reqs[i].op = "myAvatar" /\ i \in Nat
    BY <1>3, EndsEnded DEF MyAvatarDone
  <2>2. panel' \in [Area -> Shows]
    BY <1>3, <2>1, ShownType DEF MyAvatarDone, PageTypeOK, Shows, Request, Area
  <2>3. Spoke(i, how)
    BY <1>3, <2>1, <2>2, QuietSpoke DEF MyAvatarDone, Talking, PageTypeOK, Rest, infoVars
  <2> QED  BY <2>1, <2>3
<1>4. CASE UnicastDone(i, how)
  BY <1>4, EndsEnded, ListSpoke DEF UnicastDone
<1>5. CASE EncryptedMessageDone(i, how)
  BY <1>5, EndsEnded, ListSpoke DEF EncryptedMessageDone
<1>6. CASE FriendRequestDone(i, how)
  BY <1>6, EndsEnded, ListSpoke DEF FriendRequestDone
<1>7. CASE PostFriendsDone(i, how)
  <2>1. Ended(i, how) /\ reqs[i] \in Request /\ reqs[i].op = "post" /\ i \in Nat
    BY <1>7, EndsEnded DEF PostFriendsDone
  <2>2. Spoke(i, how)
    BY <1>7, <2>1 DEF PostFriendsDone, PageTypeOK, Ok, Listed, Success, Error, Flashed, Rest,
                      Spoke, userVars, infoVars, nodeVars, Shows
  <2> QED  BY <2>1, <2>2
<1>8. CASE SendChatDone(i, how)
  BY <1>8, EndsEnded, FlashSpoke DEF SendChatDone
<1>9. CASE SendPrivateDone(i, how)
  BY <1>9, EndsEnded, FlashSpoke DEF SendPrivateDone
<1>10. CASE TableDone(i, how)
  <2>1. Ended(i, how) /\ reqs[i] \in Request /\ i \in Nat
    BY <1>10, AsksEnded DEF TableDone
  <2> QED  BY <1>10, <2>1, ResultSpoke DEF TableDone, Request, Shows, Area
<1>11. CASE GraphDone(i, how)
  <2>1. Ended(i, how) /\ reqs[i] \in Request /\ reqs[i].op = "graph" /\ i \in Nat
    BY <1>11, EndsEnded DEF GraphDone
  <2>2. panel' \in [Area -> Shows]
    BY <1>11, <2>1, ShownType DEF GraphDone, PageTypeOK, Shows, Request, Area
  <2>3. Spoke(i, how)
    BY <1>11, <2>1, <2>2, QuietSpoke DEF GraphDone, Error, Talking, PageTypeOK, Rest, infoVars
  <2> QED  BY <2>1, <2>3
<1>12. CASE UpdateAfter(i, "addPeer", how) \/ UpdateAfter(i, "setEntry", how)
  <2>1. Ended(i, how) /\ i \in Nat
    BY <1>12, EndsEnded, AsksEnded DEF UpdateAfter
  <2> QED  BY <1>12, <2>1, FlashSpoke DEF UpdateAfter
<1>13. CASE CatalogDone(i, how)
  <2>1. Ended(i, how) /\ reqs[i] \in Request /\ reqs[i].op = "catalog" /\ i \in Nat
    BY <1>13, EndsEnded DEF CatalogDone
  <2>2. panel' \in [Area -> Shows]
    BY <1>13, <2>1, ShownType DEF CatalogDone, PageTypeOK, Shows, Request, Area
  <2>3. Spoke(i, how)
    BY <1>13, <2>1, <2>2, QuietSpoke DEF CatalogDone, Ok, Success, Error, Talking, PageTypeOK, Rest,
                                        infoVars
  <2> QED  BY <2>1, <2>3
<1>14. CASE CatalogAddDone(i, how)
  <2>1. Ended(i, how) /\ reqs[i].op = "addEntry" /\ i \in Nat
    BY <1>14, EndsEnded, AsksEnded DEF CatalogAddDone
  <2>2. Spoke(i, how)
    BY <1>14, <2>1, QuietSpoke DEF CatalogAddDone, Ok, Error, Talking, PageTypeOK, Rest, infoVars,
                                   Shows
  <2> QED  BY <2>1, <2>2
<1>15. CASE UploadDone(i, how)
  <2>1. Ended(i, how) /\ reqs[i] \in Request /\ i \in Nat
    BY <1>15, EndsEnded DEF UploadDone
  <2> QED  BY <1>15, <2>1, ResultSpoke DEF UploadDone, Request, Shows, Area
<1>16. CASE DownloadDone(i, how)
  <2>1. Ended(i, how) /\ reqs[i] \in Request /\ i \in Nat
    BY <1>16, EndsEnded DEF DownloadDone
  <2> QED  BY <1>16, <2>1, ResultSpoke DEF DownloadDone, Request, Shows, Area
<1>17. CASE AvatarUploadDone(i, how)
  <2>1. Ended(i, how) /\ reqs[i] \in Request /\ reqs[i].op = "uploadAvatar" /\ i \in Nat
    BY <1>17, EndsEnded DEF AvatarUploadDone
  <2>2. panel' \in [Area -> Shows]
    BY <1>17, <2>1, ShownType DEF AvatarUploadDone, PageTypeOK, Shows, Request, Area
  <2>3. Spoke(i, how)
    BY <1>17, <2>1, <2>2, QuietSpoke DEF AvatarUploadDone, Ok, Error, Talking, PageTypeOK, Rest,
                                        infoVars
  <2> QED  BY <2>1, <2>3
<1>18. CASE SearchAllDone(i, how)
  <2>1. Ended(i, how) /\ reqs[i] \in Request /\ i \in Nat
    BY <1>18, EndsEnded DEF SearchAllDone
  <2> QED  BY <1>18, <2>1, ResultSpoke DEF SearchAllDone, Request, Shows, Area
<1>19. CASE SearchFirstDone(i, how)
  <2>1. Ended(i, how) /\ reqs[i] \in Request /\ i \in Nat
    BY <1>19, EndsEnded DEF SearchFirstDone
  <2> QED  BY <1>19, <2>1, ResultSpoke DEF SearchFirstDone, Request, Shows, Area
<1>20. CASE ResolveDone(i, how)
  <2>1. Ended(i, how) /\ reqs[i] \in Request /\ i \in Nat
    BY <1>20, EndsEnded DEF ResolveDone
  <2> QED  BY <1>20, <2>1, ResultSpoke DEF ResolveDone, Request, Shows, Area
<1>21. CASE TagDone(i, how)
  BY <1>21, EndsEnded, FlashSpoke DEF TagDone
<1>22. CASE SetupDone(i, how)
  <2>1. Ended(i, how) /\ reqs[i] \in Request /\ i \in Nat
    BY <1>22, EndsEnded DEF SetupDone
  <2>2. panel' \in [Area -> Shows]
    BY <1>22, <2>1, ShownType DEF SetupDone, PageTypeOK, Shows, Request, Area
  <2>3. Spoke(i, how)
    BY <1>22, <2>1, <2>2, InFlash DEF SetupDone, Ok, Success, Error, Flashed, PageTypeOK, Rest,
                               Spoke, userVars, infoVars, nodeVars
  <2> QED  BY <2>1, <2>3
<1>23. CASE SearchUsernameDone(i, how)
  <2>1. Ended(i, how) /\ reqs[i] \in Request /\ i \in Nat
    BY <1>23, EndsEnded DEF SearchUsernameDone
  <2>2. panel' \in [Area -> Shows]
    BY <1>23, <2>1 DEF SearchUsernameDone, PageTypeOK, Shows, Request, Area
  <2>3. Spoke(i, how)
    BY <1>23, <2>1, <2>2, InFlash DEF SearchUsernameDone, Ok, Success, Error, Flashed, PageTypeOK,
                               Rest, Spoke, userVars, infoVars, nodeVars
  <2> QED  BY <2>1, <2>3
<1>24. CASE ViewAvatarDone(i, how)
  <2>1. Ended(i, how) /\ reqs[i] \in Request /\ reqs[i].op = "viewAvatar" /\ i \in Nat
    BY <1>24, EndsEnded DEF ViewAvatarDone
  <2>2. panel' \in [Area -> Shows]
    BY <1>24, <2>1, ShownType DEF ViewAvatarDone, PageTypeOK, Shows, Request, Area
  <2>3. Spoke(i, how)
    BY <1>24, <2>1, <2>2, QuietSpoke DEF ViewAvatarDone, Talking, PageTypeOK, Rest, infoVars
  <2> QED  BY <2>1, <2>3
<1>25. CASE AddFriendDone(i, how)
  <2>1. Ended(i, how) /\ reqs[i] \in Request /\ reqs[i].op = "addFriend" /\ i \in Nat
    BY <1>25, EndsEnded DEF AddFriendDone
  <2>2. Spoke(i, how)
    BY <1>25, <2>1 DEF AddFriendDone, PageTypeOK, Listed, Rest, Talking, Spoke, userVars, infoVars,
                      nodeVars, Shows
  <2> QED  BY <2>1, <2>2
<1> QED
  BY FormsDone(i, how), <1>1, <1>2, <1>3, <1>4, <1>5, <1>6, <1>7, <1>8, <1>9, <1>10, <1>11, <1>12,
     <1>13, <1>14, <1>15, <1>16, <1>17, <1>18, <1>19, <1>20, <1>21, <1>22, <1>23, <1>24, <1>25
  DEF FormsDone, PeerInfoDone, AddPeerDone, SetEntryDone

\* So does every handler of the packets.
LEMMA FeedSpoke ==
    ASSUME PageTypeOK, NEW i, NEW how \in How, FeedDone(i, how)
    PROVE  Ended(i, how) /\ Spoke(i, how) /\ UNCHANGED feedVars
<1> USE DEF Op
<1>1. CASE AnswerDone("accept", i, how) \/ AnswerDone("decline", i, how)
  <2>1. Ended(i, how) /\ reqs[i] \in Request /\ i \in Nat
    BY <1>1, EndsEnded DEF AnswerDone
  <2> QED  BY <1>1, <2>1, InFlash DEF AnswerDone, Ok, Listed, Flashed, Rest, Spoke, PageTypeOK,
                            userVars, infoVars, nodeVars, Shows
<1>2. CASE AskPostsDone(i, how)
  <2>1. Ended(i, how) /\ reqs[i].op = "askPosts" /\ i \in Nat
    BY <1>2, EndsEnded DEF AskPostsDone
  <2> QED  BY <1>2, <2>1, QuietSpoke DEF AskPostsDone, Ok, Talking, PageTypeOK, Rest, infoVars, Shows
<1> QED  BY FeedDone(i, how), <1>1, <1>2 DEF FeedDone, AcceptDone, DeclineDone

-----------------------------------------------------------------------------
(* Clicks, and the other steps of the page                                 *)

\* A click that sends a request.
LEMMA SendClicked ==
    ASSUME PageTypeOK, NEW op \in Op, NEW v \in Value \cup {Blank}, Send(op, v),
           op = "setName" => v # Blank,
           \/ flash' = flash
           \/ \E k \in {"form", "progress", "alert", "error"}, n \in Nat :
                  flash' = flash \cup {[kind |-> k, req |-> n]},
           panel' \in [Area -> Shows], sent' = sent
    PROVE  Clicked
BY DEF PageTypeOK, Send, Clicked, infoVars, nodeVars

LEMMA SubmitClicked ==
    ASSUME PageTypeOK, NEW s, NEW op \in Op, Submit(s, op)
    PROVE  Clicked
BY SendClicked DEF PageTypeOK, Submit, shownVars, Shows

LEMMA SubmitWaitingClicked ==
    ASSUME PageTypeOK, NEW s, NEW op \in Op, NEW a \in Area, SubmitWaiting(s, op, a)
    PROVE  Clicked
<1>1. panel' \in [Area -> Shows]
  BY ShownType DEF SubmitWaiting, PageTypeOK, Shows
<1> QED  BY <1>1, SendClicked DEF PageTypeOK, SubmitWaiting

LEMMA MissingClicked ==
    ASSUME PageTypeOK, NEW s, InputMissing(s)
    PROVE  Clicked
<1>1. flash' = flash \cup {[kind |-> "form", req |-> 0]}
  BY DEF InputMissing, Flashed
<1> QED  BY <1>1 DEF PageTypeOK, InputMissing, Clicked, userVars, infoVars, nodeVars, Shows

LEMMA TypeClicked ==
    ASSUME PageTypeOK, NEW v \in Value \cup {Blank}, Type(v)
    PROVE  Clicked
BY DEF PageTypeOK, Type, Clicked, shownVars, infoVars, nodeVars, Shows

LEMMA ConnectedClicked ==
    ASSUME PageTypeOK, NEW s \in Starting, Connected(s),
           \/ reqs' = reqs
           \/ \E op \in Op \ {"setName"} : reqs' = Append(reqs, NewRequest(op, Blank))
    PROVE  Clicked
BY DEF PageTypeOK, Connected, Clicked, shownVars, infoVars, nodeVars, Shows

LEMMA FormsInitializeClicked ==
    ASSUME PageTypeOK, FormsInitialize
    PROVE  Clicked
BY ConnectedClicked DEF FormsInitialize, PeerInfoInitialize, RoutingInitialize, CatalogInitialize,
    Starting, Op

LEMMA FormsClicked ==
    ASSUME PageTypeOK, FormsClick
    PROVE  Clicked
<1> USE DEF Op
<1>1. CASE \/ UnicastSend \/ EncryptedMessageSend \/ FriendRequestSend \/ PostFriendsSend
           \/ SendChat \/ SendPrivate \/ AddPeer \/ SetEntry \/ CatalogAdd \/ Download
           \/ AvatarUpload \/ Tag \/ Setup
  BY <1>1, SubmitClicked DEF UnicastSend, EncryptedMessageSend, FriendRequestSend, PostFriendsSend,
     SendChat, SendPrivate, AddPeer, SetEntry, CatalogAdd, Download, AvatarUpload, Tag, Setup
<1>2. CASE SearchAll \/ SearchFirst
  BY <1>2, SubmitWaitingClicked DEF SearchAll, SearchFirst, Area
<1>3. CASE RoutingUpdate \/ CatalogUpdate
  BY <1>3, SendClicked DEF RoutingUpdate, CatalogUpdate, PageTypeOK, shownVars, Shows
<1>4. CASE Upload
  <2>1. Len(reqs) + 1 \in Nat
    BY DEF PageTypeOK
  <2> QED  BY <1>4, <2>1, SendClicked DEF Upload, Flashed, PageTypeOK, Shows
<1>5. CASE Resolve
  <2>1. flash' = flash \/ flash' = flash \cup {[kind |-> "form", req |-> 0]}
    BY <1>5 DEF Resolve, Flashed
  <2> QED  BY <1>5, <2>1, SendClicked DEF Resolve, PageTypeOK, Shows
<1>6. CASE SearchUsername
  <2>1. panel' \in [Area -> Shows]
    BY <1>6 DEF SearchUsername, PageTypeOK, Shows, Area
  <2> QED  BY <1>6, <2>1, SendClicked DEF SearchUsername, PageTypeOK
<1>7. CASE ViewAvatar \/ AddFriend
  BY <1>7, SendClicked DEF ViewAvatar, AddFriend, Beside, PageTypeOK, shownVars, Shows
<1>8. CASE \E s \in sections \ {"peerInfo", "packets", "postsFriend"} : InputMissing(s)
  BY <1>8, MissingClicked
<1> QED  BY FormsClick, <1>1, <1>2, <1>3, <1>4, <1>5, <1>6, <1>7, <1>8 DEF FormsClick

\* The page of a click in the feed, of a packet and of a connection.
LEMMA FeedClicked ==
    ASSUME PageTypeOK, FeedTypeOK, PacketsInitialize \/ PacketError \/ FeedClick \/ FeedStep
    PROVE  Clicked
<1>1. CASE PacketsInitialize
  BY <1>1, ConnectedClicked DEF PacketsInitialize, Starting
<1>2. CASE PacketError
  <2>1. flash' = flash \cup {[kind |-> "error", req |-> 0]}
    BY <1>2 DEF PacketError, Flashed
  <2> QED  BY <1>2, <2>1 DEF PacketError, PageTypeOK, Clicked, userVars, infoVars, nodeVars, Shows
<1>3. CASE AskPosts
  <2>1. CASE InputMissing("postsFriend")
    BY <2>1, MissingClicked
  <2>2. CASE typed # Blank /\ Send("askPosts", typed) /\ UNCHANGED shownVars
    BY <2>2, SendClicked DEF PageTypeOK, shownVars, Shows, Op
  <2> QED  BY <1>3, <2>1, <2>2 DEF AskPosts
<1>4. ASSUME NEW op \in {"accept", "decline"}, NEW j, Answer(op, j)
      PROVE  Clicked
  <2>1. From[notices[j]] \in Value
    BY <1>4, FeedAssumption DEF Answer, FeedTypeOK
  <2> QED  BY <1>4, <2>1, SendClicked DEF Answer, PageTypeOK, shownVars, Shows, Op
<1>5. CASE FeedStep
  <2>1. ASSUME NEW s, Deliver(s)
        PROVE  flash' = flash \/ flash' = flash \cup {[kind |-> "alert", req |-> 0]}
    BY <2>1 DEF Deliver, PacketMessage, Flashed
  <2>2. ASSUME NEW s, Deliver(s)
        PROVE  Clicked
    BY <2>1, <2>2 DEF Deliver, PageTypeOK, Clicked, userVars, infoVars, nodeVars, Shows
  <2>3. ASSUME UNCHANGED pageVars
        PROVE  Clicked
    BY <2>3 DEF PageTypeOK, Clicked, pageVars, userVars, shownVars, infoVars, nodeVars, Shows
  <2> QED  BY <1>5, <2>2, <2>3 DEF FeedStep, Notify, Push, Unlock, Register, Leave
<1> QED  BY PacketsInitialize \/ PacketError \/ FeedClick \/ FeedStep, <1>1, <1>2, <1>3, <1>4, <1>5
         DEF FeedClick, Accept, Decline

LEMMA ProcessClicked ==
    ASSUME PageTypeOK, NEW p, Process(p)
    PROVE  Clicked
BY DEF Process, PageTypeOK, Clicked, pageVars, userVars, shownVars, infoVars, nodeVars, Shows

\* Every step of the page is of one of five kinds.
LEMMA Steps ==
    ASSUME TypeOK, Next
    PROVE  \/ Clicked
           \/ \E i \in DOMAIN reqs, how \in How : Ended(i, how) /\ Spoke(i, how)
           \/ \E i \in DOMAIN reqs : Serve(i) \/ Refuse(i)
           \/ RoutesLearned
           \/ Reload
<1>1. CASE FormsStep
  BY <1>1, FormsInitializeClicked, FormsClicked, TypeClicked DEF FormsStep, TypeOK
<1>2. ASSUME NEW i \in DOMAIN reqs, Done(i)
      PROVE  \E how \in How : Ended(i, how) /\ Spoke(i, how)
  BY <1>2, FormsSpoke, FeedSpoke DEF Done, TypeOK, How
<1>3. CASE PacketsInitialize \/ PacketError \/ FeedClick \/ FeedStep \/ \E p \in Packet : Process(p)
  BY <1>3, FeedClicked, ProcessClicked DEF TypeOK
<1> QED  BY Next, <1>1, <1>2, <1>3 DEF Next

-----------------------------------------------------------------------------
(* Types                                                                   *)

LEMMA NewRequestType ==
    ASSUME PageTypeOK, NEW op \in Op, NEW v \in Value \cup {Blank}
    PROVE  NewRequest(op, v) \in Request
BY DEF PageTypeOK, NewRequest, Request

\* One request has changed.
LEMMA ChangedAt ==
    ASSUME PageTypeOK, NEW i \in DOMAIN reqs, NEW r \in Request
    PROVE  /\ [reqs EXCEPT ![i] = r] \in Seq(Request)
           /\ DOMAIN [reqs EXCEPT ![i] = r] = DOMAIN reqs
           /\ Len([reqs EXCEPT ![i] = r]) = Len(reqs)
           /\ \A j \in DOMAIN reqs : [reqs EXCEPT ![i] = r][j] = IF j = i THEN r ELSE reqs[j]
<1>1. reqs \in Seq(Request) /\ i \in 1 .. Len(reqs) /\ DOMAIN reqs = 1 .. Len(reqs)
  BY DEF PageTypeOK
<1> QED  BY <1>1, ExceptSeq, Zenon

LEMMA FinishedType ==
    ASSUME PageTypeOK, NEW i \in DOMAIN reqs, NEW how \in How
    PROVE  /\ Finished(i, how) \in Seq(Request)
           /\ DOMAIN Finished(i, how) = DOMAIN reqs /\ Len(Finished(i, how)) = Len(reqs)
           /\ \A j \in DOMAIN reqs :
                  Finished(i, how)[j] = IF j = i THEN [reqs[j] EXCEPT !.page = how] ELSE reqs[j]
<1>1. reqs[i] \in Request
  BY DEF PageTypeOK
<1>2. [reqs[i] EXCEPT !.page = how] \in Request
  BY <1>1 DEF Request, How
<1>3. Finished(i, how) = [reqs EXCEPT ![i] = [reqs[i] EXCEPT !.page = how]]
  BY DEF Finished
<1> QED  BY <1>2, <1>3, ChangedAt

\* The peer has dealt with one request.
LEMMA ServedAt ==
    ASSUME PageTypeOK, NEW i \in DOMAIN reqs, Serve(i) \/ Refuse(i)
    PROVE  /\ reqs' \in Seq(Request) /\ DOMAIN reqs' = DOMAIN reqs /\ Len(reqs') = Len(reqs)
           /\ \A j \in DOMAIN reqs :
                  /\ reqs'[j].op = reqs[j].op /\ reqs'[j].val = reqs[j].val
                  /\ reqs'[j].load = reqs[j].load /\ reqs'[j].page = reqs[j].page
                  /\ j # i => reqs'[j].node = reqs[j].node
           /\ reqs'[i].node \in {"ok", "refused"} /\ (reqs'[i].node = "ok" => Serve(i))
<1>1. reqs[i] \in Request /\ \A j \in DOMAIN reqs : reqs[j] \in Request
  BY DEF PageTypeOK
<1>2. CASE Serve(i)
  <2>1. PICK x \in Replies(reqs[i]) :
            reqs' = [reqs EXCEPT ![i] = [reqs[i] EXCEPT !.node = "ok", !.reply = x]]
    BY <1>2 DEF Serve
  <2>2. x \in Value \cup {None} \cup Nat
    BY DEF PageTypeOK, Replies
  <2>3. [reqs[i] EXCEPT !.node = "ok", !.reply = x] \in Request
    BY <1>1, <2>2 DEF Request
  <2>4. /\ reqs' \in Seq(Request) /\ DOMAIN reqs' = DOMAIN reqs /\ Len(reqs') = Len(reqs)
        /\ \A j \in DOMAIN reqs : reqs'[j] = IF j = i THEN [reqs[i] EXCEPT !.node = "ok", !.reply = x]
                                                     ELSE reqs[j]
    BY <2>1, <2>3, ChangedAt
  <2>5. ASSUME NEW j \in DOMAIN reqs, j # i
        PROVE  reqs'[j] = reqs[j]
    BY <2>4, <2>5
  <2>6. reqs'[i] = [reqs[i] EXCEPT !.node = "ok", !.reply = x]
    BY <2>4
  <2>7. /\ reqs'[i].op = reqs[i].op /\ reqs'[i].val = reqs[i].val /\ reqs'[i].load = reqs[i].load
        /\ reqs'[i].page = reqs[i].page /\ reqs'[i].node = "ok"
    BY <1>1, <2>6 DEF Request
  <2> QED  BY <1>2, <2>4, <2>5, <2>7
<1>3. CASE ~Serve(i)
  <2>1. [reqs[i] EXCEPT !.node = "refused"] \in Request
    BY <1>1 DEF Request
  <2>2. reqs' = [reqs EXCEPT ![i] = [reqs[i] EXCEPT !.node = "refused"]]
    BY <1>3 DEF Refuse
  <2>3. /\ reqs' \in Seq(Request) /\ DOMAIN reqs' = DOMAIN reqs /\ Len(reqs') = Len(reqs)
        /\ \A j \in DOMAIN reqs : reqs'[j] = IF j = i THEN [reqs[i] EXCEPT !.node = "refused"]
                                                     ELSE reqs[j]
    BY <2>1, <2>2, ChangedAt
  <2> QED  BY <1>1, <1>3, <2>3 DEF Request
<1> QED  BY <1>2, <1>3

\* A name is set to what was typed, never to an empty one.
Named == \A i \in DOMAIN reqs : reqs[i].op = "setName" => reqs[i].val # Blank

LEMMA PageTypeStep ==
    ASSUME TypeOK, Named, Next
    PROVE  PageTypeOK'
<1> USE DEF TypeOK
<1>1. CASE Clicked
  <2>1. reqs' \in Seq(Request)
    <3>1. reqs \in Seq(Request)
      BY DEF PageTypeOK
    <3>2. \/ reqs' = reqs
          \/ \E op \in Op, v \in Value \cup {Blank} : reqs' = Append(reqs, NewRequest(op, v))
      BY <1>1 DEF Clicked
    <3> QED  BY <3>1, <3>2, NewRequestType
  <2>2. flash' \subseteq [kind : {"form", "progress", "success", "error", "alert"}, req : Nat]
    BY <1>1 DEF Clicked, PageTypeOK
  <2> QED  BY <1>1, <2>1, <2>2 DEF Clicked, PageTypeOK, Shows
<1>2. ASSUME NEW i \in DOMAIN reqs, NEW how \in How, Ended(i, how), Spoke(i, how)
      PROVE  PageTypeOK'
  <2>1. reqs[i] \in Request /\ i \in Nat
    BY DEF PageTypeOK
  <2>2. reqs' \in Seq(Request)
    BY SMTT(20), <1>2, FinishedType, NewRequestType DEF Ended
  <2>3. flash' \subseteq [kind : {"form", "progress", "success", "error", "alert"}, req : Nat]
    BY <1>2, <2>1 DEF Spoke, PageTypeOK
  <2>4. sent' \subseteq [op : Op, val : Value \cup {Blank}]
    BY <1>2, <2>1 DEF Spoke, PageTypeOK, Request
  <2> QED  BY <1>2, <2>2, <2>3, <2>4 DEF Spoke, PageTypeOK, Shows
<1>3. ASSUME NEW i \in DOMAIN reqs, Serve(i)
      PROVE  PageTypeOK'
  <2>1. reqs[i] \in Request
    BY DEF PageTypeOK
  <2>3. reqs' \in Seq(Request)
    BY <1>3, ServedAt
  <2>2. reqs[i].op = "setName" => reqs[i].val \in Value
    BY <2>1 DEF Named, Request
  <2>4. node' \in [name : Value \cup {None}, routes : Nat, catalog : Nat]
    <3>1. node \in [name : Value \cup {None}, routes : Nat, catalog : Nat]
      BY DEF PageTypeOK
    <3>2. Did(reqs[i].op, reqs[i].val)
      BY <1>3 DEF Serve
    <3> QED  BY <2>2, <3>1, <3>2 DEF Did
  <2>5. granted' \subseteq [op : Op, val : Value \cup {Blank}]
    BY <1>3, <2>1 DEF Serve, PageTypeOK, Request
  <2> QED  BY <1>3, <2>3, <2>4, <2>5 DEF Serve, PageTypeOK, userVars, shownVars, infoVars
<1>4. ASSUME NEW i \in DOMAIN reqs, Refuse(i)
      PROVE  PageTypeOK'
  <2>1. reqs' \in Seq(Request)
    BY <1>4, ServedAt
  <2> QED  BY <1>4, <2>1 DEF Refuse, PageTypeOK, userVars, shownVars, infoVars, nodeVars
<1>5. CASE RoutesLearned
  BY <1>5 DEF RoutesLearned, PageTypeOK, userVars, shownVars, infoVars
<1>6. CASE Reload
  <2>1. panel' \in [Area -> Shows]
    BY <1>6 DEF Reload, NothingShown, Shows
  <2>2. flash' = {} /\ sent' = {} /\ started' = {} /\ UNCHANGED <<page, clicks, reqs, node, granted>>
    BY <1>6 DEF Reload, nodeVars
  <2>3. typed' = Blank /\ load' \in Nat
    BY <1>6 DEF Reload, PageTypeOK
  <2>4. addr' \in BOOLEAN /\ holder' \in BOOLEAN
    BY <1>6, Zenon DEF Reload
  <2> QED  BY <2>1, <2>2, <2>3, <2>4 DEF PageTypeOK, Shows
<1> QED  BY Steps, <1>1, <1>2, <1>3, <1>4, <1>5, <1>6

LEMMA NamedStep ==
    ASSUME TypeOK, Named, Next
    PROVE  Named'
<1> USE DEF TypeOK, Named
<1>0. reqs \in Seq(Request)
  BY DEF PageTypeOK
<1>1. CASE Clicked
  <2>1. ASSUME NEW op \in Op, NEW v \in Value \cup {Blank}, op = "setName" => v # Blank,
               reqs' = Append(reqs, NewRequest(op, v))
        PROVE  Named'
    <3>1. /\ NewRequest(op, v) \in Request
          /\ NewRequest(op, v).op = op /\ NewRequest(op, v).val = v
      BY NewRequestType DEF NewRequest
    <3> QED  BY <1>0, <2>1, <3>1
  <2> QED  BY <1>1, <2>1 DEF Clicked
<1>2. ASSUME NEW i \in DOMAIN reqs, NEW how \in How, Ended(i, how)
      PROVE  Named'
  <2>1. /\ Finished(i, how) \in Seq(Request)
        /\ DOMAIN Finished(i, how) = DOMAIN reqs /\ Len(Finished(i, how)) = Len(reqs)
        /\ \A j \in DOMAIN reqs : reqs[j] \in Request
        /\ \A j \in DOMAIN reqs :
               Finished(i, how)[j] = IF j = i THEN [reqs[j] EXCEPT !.page = how] ELSE reqs[j]
    BY <1>0, FinishedType
  <2>4. \A j \in DOMAIN reqs : /\ Finished(i, how)[j].op = reqs[j].op
                             /\ Finished(i, how)[j].val = reqs[j].val
    BY <2>1 DEF Request
  <2>2. CASE reqs' = Finished(i, how)
    BY <2>1, <2>2, <2>4
  <2>3. ASSUME NEW op \in Op \ {"setName"}, reqs' = Append(Finished(i, how), NewRequest(op, Blank))
        PROVE  Named'
    <3>1. NewRequest(op, Blank) \in Request /\ NewRequest(op, Blank).op = op
      BY NewRequestType DEF NewRequest
    <3> QED  BY <2>1, <2>3, <2>4, <3>1
  <2> QED  BY <1>2, <2>2, <2>3 DEF Ended
<1>3. ASSUME NEW i \in DOMAIN reqs, Serve(i) \/ Refuse(i)
      PROVE  Named'
  BY <1>3, ServedAt
<1>4. CASE RoutesLearned \/ Reload
  BY <1>4 DEF RoutesLearned, Reload
<1> QED  BY Steps, <1>1, <1>2, <1>3, <1>4

\* The feed is not touched by the forms.
LEMMA FeedTypeStutter ==
    ASSUME FeedTypeOK, UNCHANGED feedVars
    PROVE  FeedTypeOK'
BY DEF FeedTypeOK, feedVars, registryVars, listVars

LEMMA FeedTypeStep ==
    ASSUME TypeOK, Next
    PROVE  FeedTypeOK'
<1> USE FeedAssumption DEF TypeOK
<1>1. CASE \/ FormsStep /\ UNCHANGED feedVars
           \/ \E i \in DOMAIN reqs : Done(i)
  BY <1>1, FeedSpoke, FeedTypeStutter DEF Done, How
<1>2. CASE PacketsInitialize
  BY <1>2 DEF PacketsInitialize, FeedTypeOK, listVars
<1>3. CASE PacketError
  BY <1>3 DEF PacketError, FeedTypeOK, listVars, Stream
<1>4. CASE AskPosts
  BY <1>4 DEF AskPosts, FeedTypeOK, registryVars
<1>5. ASSUME NEW op, NEW j, Answer(op, j)
      PROVE  FeedTypeOK'
  BY <1>5 DEF Answer, FeedTypeOK, registryVars
<1>6. ASSUME NEW p \in Packet, Notify(p)
      PROVE  FeedTypeOK'
  BY <1>6 DEF Notify, FeedTypeOK, listVars
<1>7. CASE Push
  <2> DEFINE s == callbacks[lock.next]
  <2>1. s \in Stream /\ lock.pkt \in Packet /\ lock.next \in 1 .. Len(callbacks)
    BY <1>7 DEF Push, FeedTypeOK
  <2>2. chan[s] \in Seq(Packet) /\ Len(chan[s]) + 1 <= Capacity
    BY SMTT(20), <1>7, <2>1 DEF Push, Room, FeedTypeOK
  <2>3. chan' = [chan EXCEPT ![s] = Append(chan[s], lock.pkt)]
    BY <1>7 DEF Push
  <2>4. chan' \in [Stream -> Seq(Packet)] /\ \A t \in Stream : Len(chan'[t]) <= Capacity
    BY SMTT(20), <2>1, <2>2, <2>3 DEF FeedTypeOK
  <2>5. lock \in [pkt : Packet, next : 1 .. Len(callbacks) + 1]
    BY <1>7 DEF Push, FeedTypeOK
  <2>6. lock' = [lock EXCEPT !.next = lock.next + 1] /\ callbacks' = callbacks
    BY <1>7 DEF Push
  <2>7. lock.next + 1 \in 1 .. Len(callbacks) + 1
    BY SMTT(20), <2>1 DEF FeedTypeOK
  <2>8. lock' \in [pkt : Packet, next : 1 .. Len(callbacks') + 1]
    BY <2>5, <2>6, <2>7
  <2> QED  BY <1>7, <2>1, <2>4, <2>8 DEF Push, FeedTypeOK, listVars
<1>8. CASE Unlock
  BY <1>8 DEF Unlock, Free, FeedTypeOK, listVars
<1>9. ASSUME NEW s \in Stream, Register(s)
      PROVE  FeedTypeOK'
  BY <1>9 DEF Register, FeedTypeOK, listVars
<1>10. ASSUME NEW s \in Stream, Leave(s)
       PROVE  FeedTypeOK'
  BY <1>10 DEF Leave, FeedTypeOK, listVars
<1>11. ASSUME NEW s \in Stream, Deliver(s)
       PROVE  FeedTypeOK'
  <2>1. Head(chan[s]) \in Packet
    BY <1>11 DEF Deliver, FeedTypeOK
  <2>2. chan' \in [Stream -> Seq(Packet)] /\ \A t \in Stream : Len(chan'[t]) <= Capacity
    BY <1>11 DEF Deliver, FeedTypeOK
  <2>3. CASE PacketMessage(Head(chan[s]))
    <3>1. Side(Head(chan[s])) \in {"sent", "received", "none"}
      BY DEF Side
    <3> HIDE DEF Side
    <3> QED  BY <1>11, <2>1, <2>2, <2>3, <3>1 DEF Deliver, PacketMessage, FeedTypeOK
  <2>4. CASE UNCHANGED listVars
    BY <1>11, <2>2, <2>4 DEF Deliver, FeedTypeOK, listVars
  <2> QED  BY <1>11, <2>3, <2>4 DEF Deliver
<1>12. CASE Reload
  BY <1>12 DEF Reload, FeedTypeOK, registryVars, Stream
<1>13. ASSUME NEW p \in Packet, Process(p)
       PROVE  FeedTypeOK'
  BY <1>13 DEF Process, FeedTypeOK, listVars
<1> QED
  BY Next, <1>1, <1>2, <1>3, <1>4, <1>5, <1>6, <1>7, <1>8, <1>9, <1>10, <1>11, <1>12, <1>13
  DEF Next, FeedClick, Accept, Decline, FeedStep

LEMMA Stuttered ==
    ASSUME UNCHANGED vars
    PROVE  UNCHANGED pageVars /\ UNCHANGED feedVars
BY DEF vars

\* Every variable of the page, the registry and the streams keeps its type.
THEOREM TypeCorrect == Spec => []TypeOK
<1> DEFINE Inv == TypeOK /\ Named
<1>1. Init => Inv
  <2> SUFFICES ASSUME Init PROVE Inv
    OBVIOUS
  <2>1. PageTypeOK /\ Named
    <3>1. addr \in BOOLEAN /\ holder \in BOOLEAN
      BY Zenon DEF Init, PageInit
    <3> QED  BY <3>1, PageAssumption DEF Init, PageInit, PageTypeOK, Named, NothingShown
  <2>2. FeedTypeOK
    BY FeedAssumption DEF Init, FeedInit, FeedTypeOK, Free, Stream
  <2> QED  BY <2>1, <2>2 DEF TypeOK
<1>2. Inv /\ [Next]_vars => Inv'
  <2>1. CASE Inv /\ Next
    BY <2>1, PageTypeStep, FeedTypeStep, NamedStep DEF TypeOK
  <2>2. CASE Inv /\ UNCHANGED vars
    BY <2>2, Stuttered, FeedTypeStutter
    DEF TypeOK, PageTypeOK, Named, pageVars, userVars, shownVars, infoVars, nodeVars
  <2> QED  BY <2>1, <2>2
<1> QED  BY <1>1, <1>2, PTL DEF Spec

-----------------------------------------------------------------------------
(* What the page says was done                                             *)

\* A request is what it was when it was sent; the peer grants it once and for all, and
\* only Serve does.
Kept ==
    /\ \A j \in DOMAIN reqs :
           /\ j \in DOMAIN reqs' /\ reqs'[j].op = reqs[j].op /\ reqs'[j].val = reqs[j].val
           /\ reqs'[j].load = reqs[j].load
           /\ reqs[j].node = "ok" => reqs'[j].node = "ok"
           /\ reqs[j].node # "ok" /\ reqs'[j].node = "ok" =>
                  [op |-> reqs[j].op, val |-> reqs[j].val] \in granted'
    /\ \A j \in DOMAIN reqs' \ DOMAIN reqs :
           reqs'[j].node = "open" /\ reqs'[j].page = "waits" /\ reqs'[j].load = load
    /\ granted \subseteq granted'

LEMMA AppendedAt ==
    ASSUME PageTypeOK, NEW s \in Seq(Request), NEW op \in Op, NEW v \in Value \cup {Blank},
           reqs' = Append(s, NewRequest(op, v))
    PROVE  /\ DOMAIN s \subseteq DOMAIN reqs' /\ \A j \in DOMAIN s : reqs'[j] = s[j]
           /\ \A j \in DOMAIN reqs' \ DOMAIN s :
                  reqs'[j].node = "open" /\ reqs'[j].page = "waits" /\ reqs'[j].load = load
<1>1. /\ NewRequest(op, v) \in Request /\ NewRequest(op, v).node = "open"
      /\ NewRequest(op, v).page = "waits" /\ NewRequest(op, v).load = load
  BY NewRequestType DEF NewRequest
<1> QED  BY <1>1

\* A request that ends changes for the page only.
LEMMA EndedAt ==
    ASSUME PageTypeOK, NEW i, NEW how \in How, Ended(i, how)
    PROVE  /\ \A j \in DOMAIN reqs :
                  /\ j \in DOMAIN reqs' /\ reqs'[j].op = reqs[j].op /\ reqs'[j].val = reqs[j].val
                  /\ reqs'[j].load = reqs[j].load /\ reqs'[j].node = reqs[j].node
                  /\ j # i => reqs'[j].page = reqs[j].page
           /\ \A j \in DOMAIN reqs' \ DOMAIN reqs :
                  reqs'[j].node = "open" /\ reqs'[j].page = "waits" /\ reqs'[j].load = load
<1> DEFINE s == Finished(i, how)
<1>1. i \in DOMAIN reqs /\ reqs \in Seq(Request)
  BY DEF Ended, PageTypeOK
<1>2. /\ s \in Seq(Request) /\ DOMAIN s = DOMAIN reqs
      /\ \A j \in DOMAIN reqs : s[j] = IF j = i THEN [reqs[j] EXCEPT !.page = how] ELSE reqs[j]
  BY <1>1, FinishedType
<1>3. \A j \in DOMAIN reqs : reqs[j] \in Request
  BY <1>1
<1>4. \A j \in DOMAIN reqs :
          /\ s[j].op = reqs[j].op /\ s[j].val = reqs[j].val /\ s[j].load = reqs[j].load
          /\ s[j].node = reqs[j].node /\ (j # i => s[j].page = reqs[j].page)
  BY <1>2, <1>3 DEF Request
<1>5. \/ reqs' = s
      \/ \E op \in Op \ {"setName"} : reqs' = Append(s, NewRequest(op, Blank))
  BY DEF Ended
<1> HIDE DEF s
<1>6. CASE reqs' = s
  BY <1>2, <1>4, <1>6
<1>7. ASSUME NEW op \in Op \ {"setName"}, reqs' = Append(s, NewRequest(op, Blank))
      PROVE  /\ DOMAIN s \subseteq DOMAIN reqs' /\ \A j \in DOMAIN s : reqs'[j] = s[j]
             /\ \A j \in DOMAIN reqs' \ DOMAIN s :
                    reqs'[j].node = "open" /\ reqs'[j].page = "waits" /\ reqs'[j].load = load
  BY <1>2, <1>7, AppendedAt
<1> QED  BY <1>2, <1>4, <1>5, <1>6, <1>7

\* A click changes no request.
LEMMA ClickedAt ==
    ASSUME PageTypeOK, Clicked
    PROVE  /\ \A j \in DOMAIN reqs : j \in DOMAIN reqs' /\ reqs'[j] = reqs[j]
           /\ \A j \in DOMAIN reqs' \ DOMAIN reqs :
                  reqs'[j].node = "open" /\ reqs'[j].page = "waits" /\ reqs'[j].load = load
<1>1. reqs \in Seq(Request)
  BY DEF PageTypeOK
<1> QED  BY <1>1, AppendedAt DEF Clicked

LEMMA RequestsKept ==
    ASSUME TypeOK, Next
    PROVE  Kept
<1>0. PageTypeOK
  BY DEF TypeOK
<1>1. CASE Clicked
  <2>1. granted' = granted
    BY <1>1 DEF Clicked
  <2> QED  BY <1>0, <1>1, <2>1, ClickedAt DEF Kept
<1>2. ASSUME NEW i \in DOMAIN reqs, NEW how \in How, Ended(i, how), Spoke(i, how)
      PROVE  Kept
  <2>1. granted' = granted
    BY <1>2 DEF Spoke
  <2> QED  BY <1>0, <1>2, <2>1, EndedAt DEF Kept
<1>3. ASSUME NEW i \in DOMAIN reqs, Serve(i) \/ Refuse(i)
      PROVE  Kept
  <2>1. /\ DOMAIN reqs' = DOMAIN reqs
        /\ \A j \in DOMAIN reqs :
               /\ reqs'[j].op = reqs[j].op /\ reqs'[j].val = reqs[j].val
               /\ reqs'[j].load = reqs[j].load /\ (j # i => reqs'[j].node = reqs[j].node)
        /\ reqs'[i].node = "ok" => Serve(i)
    BY <1>0, <1>3, ServedAt
  <2>2. reqs[i].node = "open" /\ granted \subseteq granted'
    BY <1>3 DEF Serve, Refuse, nodeVars
  <2>3. reqs'[i].node = "ok" => [op |-> reqs[i].op, val |-> reqs[i].val] \in granted'
    BY <2>1 DEF Serve
  <2> QED  BY <2>1, <2>2, <2>3 DEF Kept
<1>4. CASE RoutesLearned \/ Reload
  BY <1>4 DEF RoutesLearned, Reload, nodeVars, Kept
<1> QED  BY <1>1, <1>2, <1>3, <1>4, Steps

\* What makes Accepted inductive: a success is shown for a request that the peer has
\* granted, and what was granted is never taken back.
Linked ==
    /\ \A i \in DOMAIN reqs : reqs[i].node = "ok" => Granted(reqs[i].op, reqs[i].val)
    /\ \A f \in flash : f.kind = "success" => f.req \in DOMAIN reqs /\ reqs[f.req].node = "ok"
    /\ \A e \in sent : e.op \notin {"post", "addFriend"} => Granted(e.op, e.val)

LEMMA LinkedStep ==
    ASSUME TypeOK, Linked, Next
    PROVE  Linked'
<1>0. PageTypeOK /\ Kept
  BY RequestsKept DEF TypeOK
<1>1. \A i \in DOMAIN reqs' : reqs'[i].node = "ok" => [op |-> reqs'[i].op, val |-> reqs'[i].val] \in granted'
  <2> TAKE i \in DOMAIN reqs'
  <2>1. CASE i \in DOMAIN reqs
    BY <1>0, <2>1 DEF Linked, Kept, Granted
  <2>2. CASE i \notin DOMAIN reqs
    BY <1>0, <2>2 DEF Kept
  <2> QED  BY <2>1, <2>2
<1>2. \A f \in flash' : f.kind = "success" =>
          f \in flash \/ (f.req \in DOMAIN reqs /\ reqs[f.req].node = "ok")
  <2>1. CASE Clicked
    BY <2>1 DEF Clicked
  <2>2. ASSUME NEW i \in DOMAIN reqs, NEW how \in How, Ended(i, how), Spoke(i, how),
               NEW f \in flash', f.kind = "success", f \notin flash
        PROVE  f.req \in DOMAIN reqs /\ reqs[f.req].node = "ok"
    <3>1. how = "ok" /\ f = [kind |-> "success", req |-> i]
      BY <2>2 DEF Spoke
    <3>2. reqs[i].node = "ok"
      BY <2>2, <3>1 DEF Ended, CanEnd
    <3> QED  BY <3>1, <3>2
  <2>3. CASE RoutesLearned \/ Reload \/ \E i \in DOMAIN reqs : Serve(i) \/ Refuse(i)
    BY <2>3 DEF RoutesLearned, Reload, Serve, Refuse, shownVars
  <2> QED  BY <2>1, <2>2, <2>3, Steps
<1>3. \A e \in sent' : e.op \notin {"post", "addFriend"} => 
          e \in sent \/ [op |-> e.op, val |-> e.val] \in granted'
  <2>1. CASE Clicked
    BY <2>1 DEF Clicked
  <2>2. ASSUME NEW i \in DOMAIN reqs, NEW how \in How, Ended(i, how), Spoke(i, how),
               NEW e \in sent', e.op \notin {"post", "addFriend"}, e \notin sent
        PROVE  [op |-> e.op, val |-> e.val] \in granted'
    <3>1. /\ e = [op |-> reqs[i].op, val |-> reqs[i].val]
          /\ how = "ok" \/ reqs[i].op \in {"post", "addFriend"}
      BY <2>2 DEF Spoke
    <3>2. reqs[i].node = "ok"
      BY <2>2, <3>1 DEF Ended, CanEnd
    <3> QED  BY <1>0, <3>1, <3>2 DEF Linked, Granted, Kept
  <2>3. CASE RoutesLearned \/ Reload \/ \E i \in DOMAIN reqs : Serve(i) \/ Refuse(i)
    BY <2>3 DEF RoutesLearned, Reload, Serve, Refuse, shownVars
  <2> QED  BY <2>1, <2>2, <2>3, Steps
<1>4. \A f \in flash' : f.kind = "success" => f.req \in DOMAIN reqs' /\ reqs'[f.req].node = "ok"
  BY <1>0, <1>2 DEF Linked, Kept
<1>5. \A e \in sent' : e.op \notin {"post", "addFriend"} => [op |-> e.op, val |-> e.val] \in granted'
  BY <1>0, <1>3 DEF Linked, Kept, Granted
<1> QED  BY <1>1, <1>4, <1>5 DEF Linked, Granted

\* Whatever answers overtake each other and whatever breaks: what the page says was done,
\* the peer has done, with the value of the time of the click.
THEOREM OnlyAccepted == Spec => []Accepted
<1>1. Init => Linked
  BY DEF Init, PageInit, Linked
<1>2. TypeOK /\ Linked /\ [Next]_vars => Linked'
  <2>1. CASE TypeOK /\ Linked /\ Next
    BY <2>1, LinkedStep
  <2>2. CASE TypeOK /\ Linked /\ UNCHANGED vars
    BY <2>2, Stuttered DEF Linked, Granted, pageVars, shownVars, nodeVars
  <2> QED  BY <2>1, <2>2
<1>3. Linked => Accepted
  BY DEF Linked, Accepted
<1> QED  BY <1>1, <1>2, <1>3, TypeCorrect, PTL DEF Spec

-----------------------------------------------------------------------------
(* Every user is told                                                      *)

\* Requests are of pages that have been opened.
Past == \A i \in DOMAIN reqs : reqs[i].load <= load

LEMMA ToldStep ==
    ASSUME TypeOK, Past, Told, Next
    PROVE  Past' /\ Told'
<1>0. PageTypeOK /\ Kept /\ load \in Nat /\ \A i \in DOMAIN reqs : reqs[i].load \in Nat
  <2>1. PageTypeOK /\ Kept
    BY RequestsKept DEF TypeOK
  <2>2. load \in Nat /\ \A i \in DOMAIN reqs : reqs[i] \in Request
    BY <2>1 DEF PageTypeOK
  <2> QED  BY <2>1, <2>2 DEF Request
<1>1. CASE Reload
  <2>1. load' = load + 1 /\ reqs' = reqs
    BY <1>1 DEF Reload
  <2> QED  BY <1>0, <2>1 DEF Past, Told
<1>2. CASE ~Reload
  <2>1. load' = load
    BY <1>2, Steps DEF Clicked, Spoke, Serve, Refuse, RoutesLearned, userVars
  <2>2. \A i \in DOMAIN reqs' : reqs'[i].load <= load'
    <3> TAKE i \in DOMAIN reqs'
    <3>1. CASE i \in DOMAIN reqs
      BY <1>0, <2>1, <3>1 DEF Past, Kept
    <3>2. CASE i \notin DOMAIN reqs
      <4>1. reqs'[i].load = load
        BY <1>0, <3>2 DEF Kept
      <4> QED  BY <1>0, <2>1, <4>1
    <3> QED  BY <3>1, <3>2
  <2>3. flash \subseteq flash' /\ sent \subseteq sent'
    BY <1>2, Steps DEF Clicked, Spoke, Serve, Refuse, RoutesLearned, shownVars
  <2>4. ASSUME NEW i \in DOMAIN reqs', reqs'[i].page # "waits"
        PROVE  \/ i \in DOMAIN reqs /\ reqs[i].page # "waits"
               \/ i \in DOMAIN reqs /\ \E how \in How : Spoke(i, how)
    <3>1. i \in DOMAIN reqs
      BY <1>0, <2>4 DEF Kept
    <3>2. CASE Clicked
      BY <1>0, <2>4, <3>1, <3>2, ClickedAt
    <3>3. ASSUME NEW k \in DOMAIN reqs, NEW how \in How, Ended(k, how), Spoke(k, how)
          PROVE  reqs[i].page # "waits" \/ \E h \in How : Spoke(i, h)
      BY <1>0, <2>4, <3>1, <3>3, EndedAt
    <3>4. ASSUME NEW k \in DOMAIN reqs, Serve(k) \/ Refuse(k)
          PROVE  reqs[i].page # "waits"
      BY <1>0, <2>4, <3>1, <3>4, ServedAt
    <3>5. CASE RoutesLearned
      BY <2>4, <3>1, <3>5 DEF RoutesLearned
    <3> QED  BY <1>2, <3>1, <3>2, <3>3, <3>4, <3>5, Steps
  <2>5. ASSUME NEW i \in DOMAIN reqs', reqs'[i].op \in Talking, reqs'[i].load = load',
               reqs'[i].page # "waits"
        PROVE  \/ \E f \in flash' : f.req = i /\ f.kind \in {"success", "error"}
               \/ [op |-> reqs'[i].op, val |-> reqs'[i].val] \in sent'
    <3>1. i \in DOMAIN reqs /\ (reqs[i].page # "waits" \/ \E how \in How : Spoke(i, how))
      BY <2>4, <2>5
    <3>2. reqs'[i].op = reqs[i].op /\ reqs'[i].val = reqs[i].val /\ reqs[i].load = load
      BY <1>0, <2>1, <2>5, <3>1 DEF Kept
    <3>3. CASE reqs[i].page # "waits"
      BY <2>3, <2>5, <3>1, <3>2, <3>3 DEF Told
    <3>4. CASE \E how \in How : Spoke(i, how)
      BY <2>5, <3>2, <3>4 DEF Spoke
    <3> QED  BY <3>1, <3>3, <3>4
  <2> QED  BY <2>2, <2>5 DEF Past, Told
<1> QED  BY <1>1, <1>2

\* A user who sent something by a form that talks is told what came of it.
THEOREM EveryoneTold == Spec => []Told
<1>1. Init => Past /\ Told
  BY DEF Init, PageInit, Past, Told
<1>2. TypeOK /\ Past /\ Told /\ [Next]_vars => Past' /\ Told'
  <2>1. CASE TypeOK /\ Past /\ Told /\ Next
    BY <2>1, ToldStep
  <2>2. CASE TypeOK /\ Past /\ Told /\ UNCHANGED vars
    BY <2>2, Stuttered DEF Past, Told, pageVars, userVars, shownVars
  <2> QED  BY <2>1, <2>2
<1> QED  BY <1>1, <1>2, TypeCorrect, PTL DEF Spec

-----------------------------------------------------------------------------
(* The packets on display                                                  *)

\* How many of the notified packets the callback k has been given, or has come too late for.
Given(k) == IF lock # Free /\ k >= lock.next THEN Len(notified) - 1 ELSE Len(notified)

\* How many of them have left its channel.
Taken(k) == Given(k) - Len(chan[callbacks[k]])

\* A packet is notified once, and the lock is held for the last one.
Once ==
    /\ \A m, n \in DOMAIN notified : notified[m] = notified[n] => m = n
    /\ \A p \in waiting, n \in DOMAIN notified : notified[n] # p
    /\ lock # Free => notified # << >> /\ lock.pkt = notified[Len(notified)]

\* A stream registers once, and the page listens to the last one.
Streams ==
    /\ \A k, l \in DOMAIN callbacks : callbacks[k] = callbacks[l] => k = l
    /\ \A k \in DOMAIN callbacks : callbacks[k] \notin connecting /\ callbacks[k] <= stream
    /\ \A s \in connecting : s <= stream
    /\ "packets" \notin started => stream \notin connecting /\ ~Registered(stream)
    /\ \A s \in serving : Registered(s)

\* A channel holds the packets that its callback was given last.
Channels ==
    /\ \A s \in Stream : ~Registered(s) => chan[s] = << >>
    /\ \A k \in DOMAIN callbacks :
           /\ Taken(k) >= 0
           /\ \A j \in DOMAIN chan[callbacks[k]] : chan[callbacks[k]][j] = notified[Taken(k) + j]

\* What is on display has left the channel of the stream, and the last packet that came by
\* it is the last that left it.
Displayed ==
    /\ \A i \in DOMAIN history : Registered(history[i].via)
    /\ \A k \in DOMAIN callbacks : callbacks[k] = stream =>
           /\ \A i \in DOMAIN history, n \in DOMAIN notified :
                  notified[n] = history[i].pkt => n <= Taken(k)
           /\ history # << >> /\ history[Len(history)].via = stream =>
                  /\ Taken(k) \in DOMAIN notified
                  /\ notified[Taken(k)] = history[Len(history)].pkt

FeedInv == Once /\ Streams /\ Channels /\ Displayed /\ FeedInOrder

\* The forms, the answers and the buttons leave all this alone.
LEMMA QuietFeed ==
    ASSUME FeedInv, UNCHANGED <<registryVars, stream, history>>, started \subseteq started'
    PROVE  FeedInv'
<1>1. /\ UNCHANGED <<waiting, lock, notified, connecting, callbacks, chan, serving, stream, history>>
      /\ "packets" \notin started' => "packets" \notin started
  BY DEF registryVars
<1>2. \A k : Given(k)' = Given(k) /\ Taken(k)' = Taken(k)
  BY <1>1 DEF Given, Taken
<1>3. \A s : Registered(s)' <=> Registered(s)
  BY <1>1 DEF Registered
<1>4. Once' /\ FeedInOrder'
  BY <1>1 DEF FeedInv, Once, FeedInOrder, Free
<1>5. Streams'
  BY <1>1, <1>3 DEF FeedInv, Streams
<1>6. Channels' /\ Displayed'
  BY <1>1, <1>2, <1>3 DEF FeedInv, Channels, Displayed
<1> QED  BY <1>4, <1>5, <1>6 DEF FeedInv

\* How much each callback has been given is a number, and so is the rest.
LEMMA Amounts ==
    ASSUME FeedTypeOK
    PROVE  /\ Len(notified) \in Nat /\ DOMAIN notified = 1 .. Len(notified)
           /\ Len(callbacks) \in Nat /\ DOMAIN callbacks = 1 .. Len(callbacks)
           /\ Len(history) \in Nat /\ DOMAIN history = 1 .. Len(history)
           /\ \A k \in DOMAIN callbacks :
                  /\ callbacks[k] \in Stream /\ chan[callbacks[k]] \in Seq(Packet)
                  /\ Len(chan[callbacks[k]]) \in Nat
                  /\ DOMAIN chan[callbacks[k]] = 1 .. Len(chan[callbacks[k]])
                  /\ Given(k) \in Int /\ Taken(k) \in Int
                  /\ Taken(k) + Len(chan[callbacks[k]]) = Given(k) /\ Given(k) <= Len(notified)
<1>1. notified \in Seq(Packet) /\ callbacks \in Seq(Stream) /\ chan \in [Stream -> Seq(Packet)]
      /\ history \in Seq([pkt : Packet, side : {"sent", "received", "none"}, via : Stream])
  BY DEF FeedTypeOK
<1>2. ASSUME NEW k \in DOMAIN callbacks
      PROVE  /\ callbacks[k] \in Stream /\ chan[callbacks[k]] \in Seq(Packet)
             /\ Len(chan[callbacks[k]]) \in Nat
             /\ DOMAIN chan[callbacks[k]] = 1 .. Len(chan[callbacks[k]])
             /\ Given(k) \in Int /\ Given(k) <= Len(notified)
  BY <1>1 DEF Given
<1>3. \A k \in DOMAIN callbacks : Taken(k) \in Int /\ Taken(k) + Len(chan[callbacks[k]]) = Given(k)
  BY <1>2 DEF Taken
<1> QED  BY <1>1, <1>2, <1>3

LEMMA ProcessFeed ==
    ASSUME FeedTypeOK, FeedInv, NEW p \in Packet, Process(p)
    PROVE  FeedInv'
<1>1. /\ UNCHANGED <<started, lock, notified, connecting, callbacks, chan, serving, stream, history>>
      /\ waiting' = waiting \cup {p} /\ \A n \in DOMAIN notified : notified[n] # p
  BY DEF Process, Processed, pageVars, userVars, listVars
<1>2. \A k : Given(k)' = Given(k) /\ Taken(k)' = Taken(k)
  BY <1>1 DEF Given, Taken
<1>3. \A s : Registered(s)' <=> Registered(s)
  BY <1>1 DEF Registered
<1>4. Once' /\ FeedInOrder'
  BY <1>1 DEF FeedInv, Once, FeedInOrder, Free
<1>5. Streams'
  BY <1>1, <1>3 DEF FeedInv, Streams
<1>6. Channels' /\ Displayed'
  BY <1>1, <1>2, <1>3 DEF FeedInv, Channels, Displayed
<1> QED  BY <1>4, <1>5, <1>6 DEF FeedInv

LEMMA LeaveFeed ==
    ASSUME FeedTypeOK, FeedInv, NEW s \in Stream, Leave(s)
    PROVE  FeedInv'
<1>1. /\ UNCHANGED <<started, waiting, lock, notified, connecting, callbacks, chan, stream, history>>
      /\ serving' \subseteq serving
  BY DEF Leave, pageVars, userVars, listVars
<1>2. \A k : Given(k)' = Given(k) /\ Taken(k)' = Taken(k)
  BY <1>1 DEF Given, Taken
<1>3. \A t : Registered(t)' <=> Registered(t)
  BY <1>1 DEF Registered
<1>4. Once' /\ FeedInOrder'
  BY <1>1 DEF FeedInv, Once, FeedInOrder, Free
<1>5. Streams'
  BY <1>1, <1>3 DEF FeedInv, Streams
<1>6. Channels' /\ Displayed'
  BY <1>1, <1>2, <1>3 DEF FeedInv, Channels, Displayed
<1> QED  BY <1>4, <1>5, <1>6 DEF FeedInv

LEMMA UnlockFeed ==
    ASSUME FeedTypeOK, FeedInv, Unlock
    PROVE  FeedInv'
<1>1. /\ UNCHANGED <<started, waiting, notified, connecting, callbacks, chan, serving, stream, history>>
      /\ lock' = Free /\ lock.next > Len(callbacks)
  BY DEF Unlock, pageVars, userVars, listVars
<1>2. \A k \in DOMAIN callbacks : Given(k)' = Given(k) /\ Taken(k)' = Taken(k)
  <2>1. lock.next \in Nat
    BY DEF FeedTypeOK, Free
  <2>2. ASSUME NEW k \in DOMAIN callbacks
        PROVE  Given(k) = Len(notified) /\ Given(k)' = Len(notified)
    <3>1. k \in Nat /\ Len(callbacks) \in Nat /\ ~(k >= lock.next)
      BY <1>1, <2>1, Amounts
    <3> QED  BY <1>1, <3>1 DEF Given
  <2> QED  BY <1>1, <2>2 DEF Taken
<1>3. \A t : Registered(t)' <=> Registered(t)
  BY <1>1 DEF Registered
<1>4. Once' /\ FeedInOrder'
  BY <1>1 DEF FeedInv, Once, FeedInOrder, Free
<1>5. Streams'
  BY <1>1, <1>3 DEF FeedInv, Streams
<1>6. Channels' /\ Displayed'
  BY <1>1, <1>2, <1>3 DEF FeedInv, Channels, Displayed
<1> QED  BY <1>4, <1>5, <1>6 DEF FeedInv

LEMMA NotifyFeed ==
    ASSUME FeedTypeOK, FeedInv, NEW p \in Packet, Notify(p)
    PROVE  FeedInv'
<1> DEFINE N == Len(notified)
<1>1. /\ UNCHANGED <<started, connecting, callbacks, chan, serving, stream, history>>
      /\ lock = Free /\ lock' = [pkt |-> p, next |-> 1] /\ waiting' = waiting \ {p}
      /\ notified' = Append(notified, p) /\ p \in waiting
  BY DEF Notify, pageVars, userVars, listVars
<1>2. /\ Len(notified') = N + 1 /\ DOMAIN notified' = 1 .. N + 1 /\ N \in Nat
      /\ DOMAIN notified = 1 .. N
      /\ \A n \in 1 .. N : notified'[n] = notified[n]
      /\ notified'[N + 1] = p
  BY <1>1 DEF FeedTypeOK
<1>3. \A n \in 1 .. N : notified[n] # p
  BY <1>1, <1>2 DEF FeedInv, Once
<1> HIDE DEF N
<1>4. \A k \in DOMAIN callbacks : Given(k) = N /\ Given(k)' = N
  <2>1. lock' # Free
    BY <1>1, FeedAssumption DEF Free
  <2>2. ASSUME NEW k \in DOMAIN callbacks
        PROVE  Given(k) = N /\ Given(k)' = N
    <3>1. k >= lock'.next /\ Len(notified') - 1 = N
      BY <1>1, <1>2, Amounts
    <3>2. Given(k)' = Len(notified') - 1
      BY <2>1, <3>1 DEF Given
    <3> QED  BY <1>1, <3>1, <3>2 DEF Given, N
  <2> QED  BY <2>2
<1>5. \A k \in DOMAIN callbacks : Taken(k)' = Taken(k)
  BY <1>1, <1>4 DEF Taken
<1>6. \A t : Registered(t)' <=> Registered(t)
  BY <1>1 DEF Registered
<1>7. Once'
  <2>1. \A m, n \in DOMAIN notified' : notified'[m] = notified'[n] => m = n
    BY <1>2, <1>3 DEF FeedInv, Once
  <2>2. \A q \in waiting', n \in DOMAIN notified' : notified'[n] # q
    BY <1>1, <1>2 DEF FeedInv, Once
  <2>3. notified' # << >> /\ lock'.pkt = notified'[Len(notified')]
    BY <1>1, <1>2
  <2> QED  BY <2>1, <2>2, <2>3 DEF Once
<1>8. Streams'
  BY <1>1, <1>6 DEF FeedInv, Streams
<1>9. Channels'
  <2>1. ASSUME NEW k \in DOMAIN callbacks, NEW j \in DOMAIN chan[callbacks[k]]
        PROVE  chan[callbacks[k]][j] = notified'[Taken(k) + j]
    <3>1. /\ chan[callbacks[k]][j] = notified[Taken(k) + j] /\ Taken(k) >= 0
          /\ j \in 1 .. Len(chan[callbacks[k]])
      BY Amounts DEF FeedInv, Channels
    <3>2. Taken(k) + j \in 1 .. N
      BY <1>4, <3>1, Amounts
    <3> QED  BY <1>2, <3>1, <3>2
  <2>2. ASSUME NEW k \in DOMAIN callbacks
        PROVE  /\ Taken(k)' >= 0
               /\ \A j \in DOMAIN chan'[callbacks'[k]] :
                      chan'[callbacks'[k]][j] = notified'[Taken(k)' + j]
    <3>1. Taken(k)' = Taken(k) /\ Taken(k) >= 0
      BY <1>5 DEF FeedInv, Channels
    <3> QED  BY <1>1, <2>1, <3>1
  <2>3. \A t \in Stream : ~Registered(t)' => chan'[t] = << >>
    BY <1>1, <1>6 DEF FeedInv, Channels
  <2> QED  BY <1>1, <2>2, <2>3 DEF Channels
<1>10. \A i \in DOMAIN history : history[i].pkt # p
  BY <1>2, <1>3 DEF FeedInv, FeedInOrder
<1>11. \A i \in DOMAIN history, n \in DOMAIN notified' :
           notified'[n] = history[i].pkt => n \in DOMAIN notified /\ notified[n] = history[i].pkt
  BY <1>2, <1>10
<1>12. FeedInOrder'
  <2>1. \A i \in DOMAIN history : \E n \in DOMAIN notified' : notified'[n] = history[i].pkt
    BY <1>2 DEF FeedInv, FeedInOrder
  <2>2. \A i, j \in DOMAIN history, m, n \in DOMAIN notified' :
            (i < j /\ notified'[m] = history[i].pkt /\ notified'[n] = history[j].pkt) =>
                /\ m < n
                /\ (j = i + 1 /\ history[i].via = history[j].via) => n = m + 1
    BY <1>11 DEF FeedInv, FeedInOrder
  <2> QED  BY <1>1, <2>1, <2>2 DEF FeedInOrder
<1>13. Displayed'
  <2>1. \A k \in DOMAIN callbacks : callbacks[k] = stream =>
            \A i \in DOMAIN history, n \in DOMAIN notified' :
                notified'[n] = history[i].pkt => n <= Taken(k)
    BY <1>11 DEF FeedInv, Displayed
  <2>2. \A k \in DOMAIN callbacks :
            callbacks[k] = stream /\ history # << >> /\ history[Len(history)].via = stream =>
                /\ Taken(k) \in DOMAIN notified'
                /\ notified'[Taken(k)] = history[Len(history)].pkt
    BY <1>2 DEF FeedInv, Displayed
  <2> QED  BY <1>1, <1>5, <1>6, <2>1, <2>2 DEF FeedInv, Displayed
<1> QED  BY <1>7, <1>8, <1>9, <1>12, <1>13 DEF FeedInv

LEMMA PushFeed ==
    ASSUME FeedTypeOK, FeedInv, Push
    PROVE  FeedInv'
<1>0. PICK k0 \in DOMAIN callbacks : k0 = lock.next
  BY Amounts DEF Push, FeedTypeOK
<1> DEFINE s == callbacks[k0]
           N == Len(notified)
<1>1. /\ UNCHANGED <<started, waiting, notified, connecting, callbacks, serving, stream, history>>
      /\ lock # Free /\ lock.next <= Len(callbacks)
      /\ chan' = [chan EXCEPT ![s] = Append(chan[s], lock.pkt)]
      /\ lock' = [lock EXCEPT !.next = lock.next + 1]
  BY <1>0 DEF Push, pageVars, userVars, listVars
<1>2. /\ lock \in [pkt : Packet, next : 1 .. Len(callbacks) + 1]
      /\ s \in Stream /\ lock.pkt \in Packet /\ chan \in [Stream -> Seq(Packet)]
  BY <1>0, <1>1, Amounts DEF FeedTypeOK
<1>3. /\ lock'.pkt = lock.pkt /\ lock'.next = k0 + 1 /\ lock.next = k0 /\ lock' # Free
  BY <1>0, <1>1, <1>2, FeedAssumption DEF Free
<1>4. /\ N \in Nat \ {0} /\ lock.pkt = notified[N]
  BY <1>1, Amounts DEF FeedInv, Once, FeedTypeOK
<1>5. /\ chan'[s] = Append(chan[s], lock.pkt) /\ chan[s] \in Seq(Packet)
      /\ \A t \in Stream : t # s => chan'[t] = chan[t]
  BY <1>1, <1>2
<1>6. Given(k0) = N - 1 /\ Given(k0)' = N
  <2>1. k0 >= lock.next /\ ~(k0 >= lock'.next)
    BY <1>3, Amounts
  <2> QED  BY <1>1, <1>3, <2>1 DEF Given
<1>7. ASSUME NEW k \in DOMAIN callbacks, k # k0
      PROVE  Given(k)' = Given(k)
  <2>1. k >= lock'.next <=> k >= lock.next
    BY <1>2, <1>3, <1>7, Amounts
  <2> QED  BY <1>1, <1>3, <2>1 DEF Given
<1>8. \A k \in DOMAIN callbacks : k # k0 => callbacks[k] # s /\ callbacks[k] \in Stream
  BY <1>2, Amounts DEF FeedInv, Streams
<1> HIDE DEF s, N
<1>9. \A k \in DOMAIN callbacks : k # k0 => Taken(k)' = Taken(k)
  BY <1>1, <1>5, <1>7, <1>8 DEF Taken
<1>10. Len(chan'[s]) = Len(chan[s]) + 1
  BY <1>2, <1>5
<1>11. Taken(k0)' = Taken(k0)
  <2>1. Taken(k0) = N - 1 - Len(chan[s]) /\ Taken(k0)' = N - Len(chan'[s])
    BY <1>1, <1>6 DEF Taken, s
  <2> QED  BY <1>2, <1>4, <1>5, <1>10, <2>1
<1>12. \A k \in DOMAIN callbacks : Taken(k)' = Taken(k)
  BY <1>9, <1>11
<1>13. \A t : Registered(t)' <=> Registered(t)
  BY <1>1 DEF Registered
<1>14. Once'
  BY <1>1, <1>3, Zenon DEF FeedInv, Once
<1>15. Streams' /\ FeedInOrder'
  BY <1>1, <1>13 DEF FeedInv, Streams, FeedInOrder
<1>16. Displayed'
  BY <1>1, <1>12, <1>13 DEF FeedInv, Displayed
<1>17. Channels'
  <2>1. ASSUME NEW t \in Stream, ~Registered(t)
        PROVE  chan'[t] = << >>
    <3>1. t # s
      BY <1>2, <2>1 DEF Registered, s
    <3> QED  BY <1>5, <2>1, <3>1 DEF FeedInv, Channels
  <2>2. ASSUME NEW k \in DOMAIN callbacks, k # k0
        PROVE  chan'[callbacks[k]] = chan[callbacks[k]]
    BY <1>5, <1>8, <2>2
  <2>3. ASSUME NEW j \in DOMAIN chan'[s]
        PROVE  chan'[s][j] = notified[Taken(k0) + j]
    <3>1. j \in 1 .. Len(chan[s]) + 1 /\ Len(chan[s]) \in Nat
      BY <1>5, <1>10, <2>3
    <3>2. CASE j \in 1 .. Len(chan[s])
      <4>1. chan'[s][j] = chan[s][j] /\ j \in DOMAIN chan[s]
        BY <1>2, <1>5, <3>2
      <4> QED  BY <1>2, <4>1 DEF FeedInv, Channels, s
    <3>3. CASE j = Len(chan[s]) + 1
      <4>1. chan'[s][j] = lock.pkt
        BY <1>2, <1>5, <3>3
      <4>2. Taken(k0) + j = N
        BY <1>2, <1>4, <1>6, <3>1, <3>3 DEF Taken, s
      <4> QED  BY <1>4, <4>1, <4>2
    <3> QED  BY <3>1, <3>2, <3>3
  <2>4. ASSUME NEW k \in DOMAIN callbacks
        PROVE  /\ Taken(k) >= 0
               /\ \A j \in DOMAIN chan'[callbacks[k]] :
                      chan'[callbacks[k]][j] = notified[Taken(k) + j]
    <3>1. CASE k = k0
      BY <1>2, <2>3, <3>1 DEF FeedInv, Channels, s
    <3>2. CASE k # k0
      BY <2>2, <3>2 DEF FeedInv, Channels
    <3> QED  BY <3>1, <3>2
  <2> QED  BY <1>1, <1>12, <1>13, <2>1, <2>4 DEF Channels
<1> QED  BY <1>14, <1>15, <1>16, <1>17 DEF FeedInv

LEMMA RegisterFeed ==
    ASSUME FeedTypeOK, FeedInv, NEW s \in Stream, Register(s)
    PROVE  FeedInv'
<1>0. PICK N \in Nat, C \in Nat : N = Len(notified) /\ C = Len(callbacks)
  BY Amounts
<1>1. /\ UNCHANGED <<started, waiting, lock, notified, chan, stream, history>>
      /\ lock = Free /\ s \in connecting /\ connecting' = connecting \ {s}
      /\ serving' = serving \cup {s} /\ callbacks' = Append(callbacks, s)
  BY DEF Register, pageVars, userVars, listVars
<1>2. /\ N \in Nat /\ C \in Nat /\ DOMAIN notified = 1 .. N /\ DOMAIN callbacks = 1 .. C
      /\ DOMAIN callbacks' = 1 .. C + 1 /\ callbacks'[C + 1] = s
      /\ \A k \in 1 .. C : callbacks'[k] = callbacks[k]
  BY <1>0, <1>1 DEF FeedTypeOK
<1>3. \A k : Given(k) = N /\ Given(k)' = N
  BY <1>0, <1>1 DEF Given
<1>4. ~Registered(s) /\ s <= stream /\ \A k \in 1 .. C : callbacks[k] # s
  BY <1>1, <1>2 DEF FeedInv, Streams, Registered
<1>5. \A t : Registered(t)' <=> Registered(t) \/ t = s
  BY <1>1, <1>2 DEF Registered
<1>6. \A k \in 1 .. C : Taken(k)' = Taken(k)
  BY <1>1, <1>2, <1>3 DEF Taken
<1>7. Taken(C + 1)' = N /\ chan[s] = << >>
  <2>1. chan[s] = << >>
    BY <1>4 DEF FeedInv, Channels
  <2>2. Taken(C + 1)' = N - Len(chan[s])
    BY <1>1, <1>2, <1>3 DEF Taken
  <2> QED  BY <1>2, <2>1, <2>2
<1>8. Once' /\ FeedInOrder'
  BY <1>1 DEF FeedInv, Once, FeedInOrder, Free
<1>9. Streams'
  <2>1. \A k, l \in 1 .. C + 1 : callbacks'[k] = callbacks'[l] => k = l
    BY <1>2, <1>4 DEF FeedInv, Streams
  <2>2. \A k \in 1 .. C + 1 : callbacks'[k] \notin connecting' /\ callbacks'[k] <= stream
    BY <1>1, <1>2, <1>4 DEF FeedInv, Streams
  <2>3. "packets" \notin started => stream \notin connecting' /\ ~Registered(stream)'
    BY <1>1, <1>5 DEF FeedInv, Streams
  <2>4. \A t \in serving' : Registered(t)'
    BY <1>1, <1>5 DEF FeedInv, Streams
  <2> QED  BY <1>1, <1>2, <2>1, <2>2, <2>3, <2>4 DEF FeedInv, Streams
<1>10. Channels'
  <2>1. \A t \in Stream : ~Registered(t)' => chan'[t] = << >>
    BY <1>1, <1>5 DEF FeedInv, Channels
  <2>2. ASSUME NEW k \in 1 .. C
        PROVE  /\ Taken(k)' >= 0
               /\ \A j \in DOMAIN chan'[callbacks'[k]] :
                      chan'[callbacks'[k]][j] = notified'[Taken(k)' + j]
    BY <1>1, <1>2, <1>6 DEF FeedInv, Channels
  <2>3. /\ Taken(C + 1)' >= 0
        /\ \A j \in DOMAIN chan'[callbacks'[C + 1]] :
               chan'[callbacks'[C + 1]][j] = notified'[Taken(C + 1)' + j]
    BY <1>1, <1>2, <1>7
  <2> QED  BY <1>2, <2>1, <2>2, <2>3 DEF Channels
<1>11. Displayed'
  <2>1. \A i \in DOMAIN history : Registered(history[i].via)
    BY DEF FeedInv, Displayed
  <2>2. ASSUME NEW k \in 1 .. C, callbacks[k] = stream
        PROVE  /\ \A i \in DOMAIN history, n \in DOMAIN notified :
                      notified[n] = history[i].pkt => n <= Taken(k)'
               /\ history # << >> /\ history[Len(history)].via = stream =>
                      /\ Taken(k)' \in DOMAIN notified
                      /\ notified[Taken(k)'] = history[Len(history)].pkt
    BY <1>2, <1>6, <2>2 DEF FeedInv, Displayed
  <2>3. CASE s = stream
    <3>1. history # << >> => history[Len(history)].via # stream
      BY <1>4, <2>1, <2>3, Amounts
    <3>2. \A n \in DOMAIN notified : n <= Taken(C + 1)'
      BY <1>2, <1>7
    <3>3. \A k \in 1 .. C : callbacks'[k] # stream
      BY <1>2, <1>4, <2>3
    <3> QED  BY <1>1, <1>2, <1>5, <2>1, <3>1, <3>2, <3>3 DEF Displayed
  <2>4. CASE s # stream
    BY <1>1, <1>2, <1>5, <2>1, <2>2, <2>4 DEF Displayed
  <2> QED  BY <2>3, <2>4
<1> QED  BY <1>8, <1>9, <1>10, <1>11 DEF FeedInv

\* A stream that the page has not asked for yet, as the page connects for the first time, or
\* again.
LEMMA ConnectFeed ==
    ASSUME FeedTypeOK, FeedInv, UNCHANGED <<waiting, lock, notified, callbacks, chan, serving>>,
           \/ /\ "packets" \notin started /\ stream' = stream /\ history' = history
              /\ connecting' = connecting \cup {stream} /\ "packets" \in started'
           \/ /\ stream' = stream + 1 /\ history' = history
              /\ connecting' = connecting \cup {stream + 1} /\ "packets" \in started'
           \/ stream' = stream + 1 /\ history' = << >> /\ connecting' = connecting
    PROVE  FeedInv'
<1>1. stream \in Nat /\ \A k \in DOMAIN callbacks : callbacks[k] \in Nat
  BY Amounts DEF FeedTypeOK, Stream
<1>2. \A k : Given(k)' = Given(k) /\ Taken(k)' = Taken(k)
  BY DEF Given, Taken
<1>3. \A t : Registered(t)' <=> Registered(t)
  BY DEF Registered
<1>4. Once' /\ FeedInOrder'
  BY DEF FeedInv, Once, FeedInOrder, Free
<1>5. \A k \in DOMAIN callbacks : callbacks[k] # stream + 1
  BY <1>1 DEF FeedInv, Streams
<1>6. stream + 1 \notin connecting
  BY <1>1 DEF FeedInv, Streams
<1>7. Streams'
  <2>1. \A s \in connecting : s \in Nat
    BY DEF FeedTypeOK, Stream
  <2> QED  BY <1>1, <1>3, <1>5, <1>6, <2>1 DEF FeedInv, Streams, Registered
<1>8. Channels'
  BY <1>2, <1>3 DEF FeedInv, Channels
<1>9. Displayed'
  <2>1. CASE stream' = stream
    BY <1>1, <1>2, <1>3, <2>1 DEF FeedInv, Displayed
  <2>2. CASE stream' = stream + 1 /\ history' \in {history, << >>}
    <3>1. \A i \in DOMAIN history' : \E k \in DOMAIN callbacks : callbacks[k] = history'[i].via
      BY <2>2 DEF FeedInv, Displayed, Registered
    <3>2. \A k \in DOMAIN callbacks' : callbacks'[k] # stream'
      BY <1>5, <2>2
    <3> QED  BY <3>1, <3>2 DEF Displayed, Registered
  <2> QED  BY <2>1, <2>2
<1> QED  BY <1>4, <1>7, <1>8, <1>9 DEF FeedInv

LEMMA DeliverFeed ==
    ASSUME FeedTypeOK, FeedInv, NEW s \in Stream, Deliver(s)
    PROVE  FeedInv'
<1>0. PICK k0 \in DOMAIN callbacks : callbacks[k0] = s
  BY DEF Deliver, FeedInv, Streams, Registered
<1>1. /\ UNCHANGED <<started, waiting, lock, notified, connecting, callbacks, serving, stream>>
      /\ chan[s] # << >> /\ chan' = [chan EXCEPT ![s] = Tail(chan[s])]
  BY DEF Deliver, userVars
<1>2. chan \in [Stream -> Seq(Packet)] /\ chan[s] \in Seq(Packet)
  BY DEF FeedTypeOK
<1>3. /\ chan'[s] = Tail(chan[s]) /\ Len(chan'[s]) = Len(chan[s]) - 1 /\ Len(chan[s]) \in Nat \ {0}
      /\ DOMAIN chan'[s] = 1 .. Len(chan[s]) - 1 /\ DOMAIN chan[s] = 1 .. Len(chan[s])
      /\ \A j \in 1 .. Len(chan[s]) - 1 : chan'[s][j] = chan[s][j + 1]
      /\ Head(chan[s]) = chan[s][1]
  BY <1>1, <1>2
<1>4. \A k \in DOMAIN callbacks : k # k0 => callbacks[k] # s /\ chan'[callbacks[k]] = chan[callbacks[k]]
  BY <1>0, <1>1, <1>2, Amounts DEF FeedInv, Streams
<1>5. \A k : Given(k)' = Given(k)
  BY <1>1 DEF Given
<1>6. PICK T \in Nat : T = Taken(k0)
  BY Amounts DEF FeedInv, Channels
<1>7. Taken(k0)' = T + 1
  <2>1. Taken(k0) = Given(k0) - Len(chan[s]) /\ Taken(k0)' = Given(k0) - Len(chan'[s])
    BY <1>0, <1>1, <1>5 DEF Taken
  <2>2. Given(k0) \in Int
    BY Amounts
  <2> QED  BY <1>3, <1>6, <2>1, <2>2
<1>8. \A k \in DOMAIN callbacks : k # k0 => Taken(k)' = Taken(k)
  BY <1>1, <1>4, <1>5 DEF Taken
<1>9. \A t : Registered(t)' <=> Registered(t)
  BY <1>1 DEF Registered
<1>10. Once' /\ Streams'
  BY <1>1, <1>9 DEF FeedInv, Once, Streams, Free
<1>11. T + 1 \in DOMAIN notified /\ Head(chan[s]) = notified[T + 1]
  <2>1. T + Len(chan[s]) <= Len(notified)
    BY <1>0, <1>6, Amounts
  <2>2. chan[s][1] = notified[T + 1]
    BY <1>0, <1>3, <1>6 DEF FeedInv, Channels
  <2> QED  BY <1>3, <2>1, <2>2, Amounts
<1>12. Channels'
  <2>1. \A t \in Stream : ~Registered(t) => chan'[t] = << >>
    BY <1>0, <1>1, <1>2 DEF FeedInv, Channels, Registered
  <2>2. /\ Taken(k0)' >= 0
        /\ \A j \in DOMAIN chan'[callbacks[k0]] : chan'[callbacks[k0]][j] = notified[Taken(k0)' + j]
    <3>1. \A j \in DOMAIN chan[s] : chan[s][j] = notified[T + j]
      BY <1>0, <1>6 DEF FeedInv, Channels
    <3>2. ASSUME NEW j \in 1 .. Len(chan[s]) - 1
          PROVE  chan'[s][j] = notified[T + 1 + j]
      <4>1. j + 1 \in DOMAIN chan[s] /\ T + (j + 1) = T + 1 + j
        BY <1>3
      <4> QED  BY <1>3, <3>1, <4>1
    <3> QED  BY <1>0, <1>3, <1>7, <3>2
  <2>3. ASSUME NEW k \in DOMAIN callbacks, k # k0
        PROVE  /\ Taken(k)' >= 0
               /\ \A j \in DOMAIN chan'[callbacks[k]] :
                      chan'[callbacks[k]][j] = notified[Taken(k)' + j]
    <3>1. Taken(k)' = Taken(k) /\ chan'[callbacks[k]] = chan[callbacks[k]]
      BY <1>4, <1>8, <2>3
    <3> QED  BY <3>1 DEF FeedInv, Channels
  <2>4. ASSUME NEW k \in DOMAIN callbacks
        PROVE  /\ Taken(k)' >= 0
               /\ \A j \in DOMAIN chan'[callbacks[k]] :
                      chan'[callbacks[k]][j] = notified[Taken(k)' + j]
    BY <2>2, <2>3
  <2> QED  BY <1>1, <1>9, <2>1, <2>4 DEF Channels
<1>13. CASE s # stream
  <2>1. history' = history
    BY <1>13 DEF Deliver, listVars
  <2>2. \A k \in DOMAIN callbacks : callbacks[k] = stream => Taken(k)' = Taken(k)
    BY <1>0, <1>8, <1>13
  <2>3. FeedInOrder'
    BY <1>1, <2>1 DEF FeedInv, FeedInOrder
  <2>4. Displayed'
    BY <1>1, <1>9, <2>1, <2>2 DEF FeedInv, Displayed
  <2> QED  BY <1>10, <1>12, <2>3, <2>4 DEF FeedInv
<1>14. CASE s = stream
  <2>0. PICK L \in Nat : L = Len(history)
    BY Amounts
  <2>1. history' = Append(history, [pkt |-> notified[T + 1], side |-> Side(Head(chan[s])), via |-> s])
    BY <1>11, <1>14 DEF Deliver, PacketMessage
  <2>2. /\ DOMAIN history = 1 .. L /\ DOMAIN history' = 1 .. L + 1 /\ Len(history') = L + 1
        /\ \A i \in 1 .. L : history'[i] = history[i]
        /\ history'[L + 1].pkt = notified[T + 1] /\ history'[L + 1].via = s
    <3> DEFINE h == [pkt |-> notified[T + 1], side |-> Side(Head(chan[s])), via |-> s]
    <3>1. h.pkt = notified[T + 1] /\ h.via = s
      OBVIOUS
    <3> HIDE DEF h
    <3>2. history' = Append(history, h)
      BY <2>1 DEF h
    <3> QED  BY <2>0, <3>1, <3>2 DEF FeedTypeOK
  <2>3. \A n \in DOMAIN notified : notified[n] = notified[T + 1] => n = T + 1
    BY <1>11 DEF FeedInv, Once
  <2>4. \A i \in 1 .. L, m \in DOMAIN notified : notified[m] = history[i].pkt => m <= T
    BY <1>0, <1>6, <1>14, <2>2 DEF FeedInv, Displayed
  <2>5. L > 0 /\ history[L].via = s =>
            \A m \in DOMAIN notified : notified[m] = history[L].pkt => m = T
    <3> SUFFICES ASSUME L > 0, history[L].via = s
                 PROVE  \A m \in DOMAIN notified : notified[m] = history[L].pkt => m = T
      OBVIOUS
    <3>1. history # << >> /\ history[Len(history)].via = stream
      BY <1>14, <2>0, <2>2
    <3>2. T \in DOMAIN notified /\ notified[T] = history[L].pkt
      BY <1>0, <1>6, <1>14, <2>0, <3>1 DEF FeedInv, Displayed
    <3> QED  BY <3>2 DEF FeedInv, Once
  <2>6. FeedInOrder'
    <3>1. \A i \in 1 .. L + 1 : \E n \in DOMAIN notified : notified[n] = history'[i].pkt
      BY <1>11, <2>2 DEF FeedInv, FeedInOrder
    <3>2. ASSUME NEW i \in 1 .. L + 1, NEW j \in 1 .. L + 1,
                 NEW m \in DOMAIN notified, NEW n \in DOMAIN notified,
                 i < j, notified[m] = history'[i].pkt, notified[n] = history'[j].pkt
          PROVE  /\ m < n
                 /\ (j = i + 1 /\ history'[i].via = history'[j].via) => n = m + 1
      <4>1. i \in 1 .. L /\ history'[i] = history[i]
        BY <2>2, <3>2
      <4>2. CASE j \in 1 .. L
        <5>1. history'[j] = history[j] /\ i \in DOMAIN history /\ j \in DOMAIN history
          BY <2>2, <4>1, <4>2
        <5>2. notified[m] = history[i].pkt /\ notified[n] = history[j].pkt
          BY <3>2, <4>1, <5>1
        <5>3. /\ m < n
              /\ (j = i + 1 /\ history[i].via = history[j].via) => n = m + 1
          BY <3>2, <5>1, <5>2 DEF FeedInv, FeedInOrder
        <5> QED  BY <4>1, <5>1, <5>3
      <4>3. CASE j = L + 1
        <5>1. n = T + 1 /\ m <= T
          BY <2>2, <2>3, <2>4, <3>2, <4>1, <4>3
        <5>2. m \in Nat
          BY Amounts
        <5>3. (j = i + 1 /\ history'[i].via = history'[j].via) => m = T
          BY <2>2, <2>5, <3>2, <4>1, <4>3
        <5> QED  BY <5>1, <5>2, <5>3
      <4> QED  BY <4>2, <4>3
    <3> QED  BY <1>1, <2>2, <3>1, <3>2 DEF FeedInOrder
  <2>7. Displayed'
    <3>1. \A i \in 1 .. L + 1 : Registered(history'[i].via)
      BY <1>0, <2>2 DEF FeedInv, Displayed, Registered
    <3>2. \A k \in DOMAIN callbacks : callbacks[k] = stream => k = k0
      BY <1>0, <1>14 DEF FeedInv, Streams
    <3>3. \A i \in 1 .. L + 1, n \in DOMAIN notified : notified[n] = history'[i].pkt => n <= T + 1
      <4> SUFFICES ASSUME NEW i \in 1 .. L + 1, NEW n \in DOMAIN notified,
                          notified[n] = history'[i].pkt
                   PROVE  n <= T + 1
        OBVIOUS
      <4>1. T \in Nat /\ n \in Nat
        BY Amounts
      <4>2. CASE i \in 1 .. L
        <5>1. notified[n] = history[i].pkt
          BY <2>2, <4>2
        <5> QED  BY <2>4, <4>1, <4>2, <5>1
      <4>3. CASE i = L + 1
        <5>1. n = T + 1
          BY <2>2, <2>3, <4>3
        <5> QED  BY <4>1, <5>1
      <4> QED  BY <2>0, <4>2, <4>3
    <3>4. notified[T + 1] = history'[Len(history')].pkt
      BY <2>2
    <3>5. \A k \in DOMAIN callbacks : callbacks[k] = stream => Taken(k)' = T + 1
      BY <1>7, <3>2
    <3> QED  BY ZenonT(30), <1>1, <1>9, <1>11, <2>2, <3>1, <3>3, <3>4, <3>5 DEF Displayed, Registered
  <2> QED  BY <1>10, <1>12, <2>6, <2>7 DEF FeedInv
<1> QED  BY <1>13, <1>14

LEMMA FeedStepInv ==
    ASSUME TypeOK, FeedInv, Next
    PROVE  FeedInv'
<1>0. PageTypeOK /\ FeedTypeOK
  BY DEF TypeOK
<1>1. CASE FormsStep /\ UNCHANGED feedVars
  <2>1. started \subseteq started'
    <3>1. CASE FormsInitialize \/ FormsClick \/ \E v \in Value \cup {Blank} : Type(v)
      BY <1>0, <3>1, FormsInitializeClicked, FormsClicked, TypeClicked DEF Clicked
    <3>2. CASE RoutesLearned \/ \E i \in DOMAIN reqs : Serve(i) \/ Refuse(i)
      BY <3>2 DEF RoutesLearned, Serve, Refuse, userVars
    <3> QED  BY <1>1, <3>1, <3>2 DEF FormsStep
  <2> QED  BY <1>1, <2>1, QuietFeed DEF feedVars, listVars
<1>2. ASSUME NEW i \in DOMAIN reqs, Done(i)
      PROVE  FeedInv'
  <2>1. started' = started /\ UNCHANGED feedVars
    BY <1>0, <1>2, FormsSpoke, FeedSpoke DEF Done, Spoke, How
  <2> QED  BY <2>1, QuietFeed DEF feedVars, listVars
<1>3. CASE FeedClick
  <2>1. started \subseteq started'
    BY <1>0, <1>3, FeedClicked DEF Clicked
  <2>2. UNCHANGED <<registryVars, stream, history>>
    BY <1>3 DEF FeedClick, AskPosts, Accept, Decline, Answer
  <2> QED  BY <2>1, <2>2, QuietFeed
<1>4. CASE PacketsInitialize
  BY <1>0, <1>4, ConnectFeed DEF PacketsInitialize, Connected, listVars
<1>5. CASE PacketError
  <2>1. "packets" \in started
    BY <1>5 DEF PacketError, FeedInv, Streams
  <2> QED  BY <1>0, <1>5, <2>1, ConnectFeed DEF PacketError, listVars, userVars
<1>6. CASE Reload
  BY <1>0, <1>6, ConnectFeed DEF Reload, registryVars
<1>7. CASE FeedStep \/ \E p \in Packet : Process(p)
  BY <1>0, <1>7, NotifyFeed, PushFeed, UnlockFeed, RegisterFeed, LeaveFeed, DeliverFeed, ProcessFeed
  DEF FeedStep
<1> QED  BY Next, <1>1, <1>2, <1>3, <1>4, <1>5, <1>6, <1>7 DEF Next

\* Whatever connections break, pages are opened again and streams register in between: a page
\* shows packets in the order of their notification, once, and without a gap in a stream.
THEOREM FeedOrdered == Spec => []FeedInOrder
<1>1. Init => FeedInv
  <2> SUFFICES ASSUME Init PROVE FeedInv
    OBVIOUS
  <2> USE DEF Init, PageInit, FeedInit
  <2>1. Once /\ Streams
    BY DEF Once, Streams, Registered, Free
  <2>2. Channels /\ Displayed /\ FeedInOrder
    BY DEF Channels, Displayed, FeedInOrder
  <2> QED  BY <2>1, <2>2 DEF FeedInv
<1>2. TypeOK /\ FeedInv /\ [Next]_vars => FeedInv'
  <2>1. CASE TypeOK /\ FeedInv /\ Next
    BY <2>1, FeedStepInv
  <2>2. CASE TypeOK /\ FeedInv /\ UNCHANGED vars
    BY <2>2, Stuttered, QuietFeed DEF pageVars, userVars, feedVars, listVars
  <2> QED  BY <2>1, <2>2
<1> QED  BY <1>1, <1>2, TypeCorrect, PTL DEF Spec, FeedInv

=============================================================================
