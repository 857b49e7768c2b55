----------------------------- MODULE PanelProofs -----------------------------
(***************************************************************************)
(* What the web page shows is not outdated (Fresh), for any values and     *)
(* bounds.  Requests about one topic that were each sent when the ones     *)
(* before were over have answers in the order they were sent; the          *)
(* invariants say what such answers have left on display.                  *)
(***************************************************************************)
EXTENDS WebPageProofs

Watched == {"name", "table", "catalog"}

\* What the end of request i does to the areas that Fresh is about.
Effect(i, how) ==
    LET op == reqs[i].op IN
    /\ panel'["name"] =
           IF op = "myName" /\ how # "failed" THEN reqs[i].reply
           ELSE IF op = "setName" /\ how = "ok" /\ holder THEN reqs[i].val ELSE panel["name"]
    /\ op = "myName" => holder'
    /\ op # "myName" => holder' = holder
    /\ \A a \in {"table", "catalog"} :
           panel'[a] = IF op = a /\ how = "ok" THEN reqs[i].reply ELSE panel[a]
    /\ panel'["users"] =
           IF op # "searchNames" THEN panel["users"] ELSE IF how = "ok" THEN reqs[i].reply ELSE None

\* The request that follows a change of the table or of the catalog.
AsksAgain(i, how) ==
    /\ reqs[i].op \in {"addPeer", "setEntry"} /\ how = "ok" =>
           reqs' = Append(Finished(i, how), NewRequest("table", Blank))
    /\ reqs[i].op = "addEntry" /\ how = "ok" =>
           reqs' = Append(Finished(i, how), NewRequest("catalog", Blank))

\* Only the areas of searches are touched by a click, and a search of users sends a request.
Still ==
    /\ \A a \in Watched : panel'[a] = panel[a]
    /\ \/ panel'["users"] = panel["users"]
       \/ \E v \in Value \cup {Blank} : reqs' = Append(reqs, NewRequest("searchNames", v))

LEMMA PanelDomain == PageTypeOK => panel \in [Area -> Shows]
BY DEF PageTypeOK, Shows

\* Handlers that leave the areas alone.
LEMMA NoEffect ==
    ASSUME PageTypeOK, NEW i, NEW how,
           reqs[i].op \notin {"myName", "setName", "table", "catalog", "searchNames", "addPeer",
                              "setEntry", "addEntry"},
           holder' = holder,
           \A a \in Watched \cup {"users"} : panel'[a] = panel[a]
    PROVE  Effect(i, how) /\ AsksAgain(i, how)
BY DEF Effect, AsksAgain, Watched

LEMMA ShownElsewhere ==
    ASSUME PageTypeOK, NEW a, NEW x, Shown(a, x), a \notin Watched \cup {"users"}
    PROVE  \A b \in Watched \cup {"users"} : panel'[b] = panel[b]
BY PanelDomain DEF Shown, Watched, Area

LEMMA ShownHere ==
    ASSUME PageTypeOK, NEW a \in Watched, NEW x, Shown(a, x)
    PROVE  panel'[a] = x /\ \A b \in (Watched \cup {"users"}) \ {a} : panel'[b] = panel[b]
BY PanelDomain DEF Shown, Watched, Area

LEMMA FormsEffect ==
    ASSUME PageTypeOK, NEW i, NEW how \in How, FormsDone(i, how)
    PROVE  Effect(i, how) /\ AsksAgain(i, how)
<1>1. CASE AddressDone(i, how)
  BY <1>1, NoEffect DEF AddressDone, EndsThenAsks
<1>2. CASE MyNameDone(i, how)
  <2>1. reqs[i].op = "myName" /\ holder'
    BY <1>2 DEF MyNameDone, EndsThenAsks
  <2>2. CASE how = "failed"
    BY <1>2, <2>1, <2>2 DEF MyNameDone, Effect, AsksAgain
  <2>3. CASE how # "failed"
    <3>1. Shown("name", reqs[i].reply)
      BY <1>2, <2>3 DEF MyNameDone
    <3> QED  BY <2>1, <2>3, <3>1, ShownHere DEF Effect, AsksAgain, Watched
  <2> QED  BY <2>2, <2>3
<1>3. CASE MyAvatarDone(i, how)
  BY <1>3, NoEffect, ShownElsewhere DEF MyAvatarDone, Ends, Rest, infoVars, Watched
<1>4. CASE \/ UnicastDone(i, how) \/ EncryptedMessageDone(i, how) \/ FriendRequestDone(i, how)
           \/ PostFriendsDone(i, how) \/ SendChatDone(i, how) \/ SendPrivateDone(i, how)
           \/ TagDone(i, how) \/ AddFriendDone(i, how)
  <2>1. /\ reqs[i].op \in {"unicast", "encrypted", "friendRequest", "post", "broadcast", "private",
                           "tag", "addFriend"}
        /\ panel' = panel /\ holder' = holder
    BY <1>4 DEF UnicastDone, EncryptedMessageDone, FriendRequestDone, PostFriendsDone, SendChatDone,
       SendPrivateDone, TagDone, AddFriendDone, Ends, ListOrError, FlashOnly, Rest, infoVars
  <2> QED  BY <2>1, NoEffect
<1>5. CASE TableDone(i, how)
  <2>1. reqs[i].op = "table" /\ holder' = holder
    BY <1>5 DEF TableDone, EndsThenAsks, ResultOrError, Rest, infoVars
  <2>2. IF how = "ok" THEN Shown("table", reqs[i].reply) ELSE panel' = panel
    BY <1>5 DEF TableDone, ResultOrError, Ok
  <2> QED  BY <2>1, <2>2, ShownHere DEF Effect, AsksAgain, Watched
<1>6. CASE GraphDone(i, how)
  BY <1>6, NoEffect, ShownElsewhere DEF GraphDone, Ends, Rest, infoVars, Watched
<1>7. ASSUME NEW op \in {"addPeer", "setEntry"}, UpdateAfter(i, op, how)
      PROVE  Effect(i, how) /\ AsksAgain(i, how)
  <2>1. reqs[i].op = op /\ panel' = panel /\ holder' = holder
    BY <1>7 DEF UpdateAfter, EndsThenAsks, Ends, FlashOnly, Rest, infoVars
  <2>2. how = "ok" => reqs' = Append(Finished(i, how), NewRequest("table", Blank))
    BY <1>7 DEF UpdateAfter, EndsThenAsks, Ok, Finished
  <2> QED  BY <1>7, <2>1, <2>2 DEF Effect, AsksAgain
<1>8. CASE CatalogDone(i, how)
  <2>1. reqs[i].op = "catalog" /\ holder' = holder
    BY <1>8 DEF CatalogDone, Ends, Rest, infoVars
  <2>2. IF how = "ok" THEN Shown("catalog", reqs[i].reply) ELSE panel' = panel
    BY <1>8 DEF CatalogDone, Ok
  <2> QED  BY <2>1, <2>2, ShownHere DEF Effect, AsksAgain, Watched
<1>9. CASE CatalogAddDone(i, how)
  <2>1. reqs[i].op = "addEntry" /\ panel' = panel /\ holder' = holder
    BY <1>9 DEF CatalogAddDone, EndsThenAsks, Ends, Rest, infoVars
  <2>2. how = "ok" => reqs' = Append(Finished(i, how), NewRequest("catalog", Blank))
    BY <1>9 DEF CatalogAddDone, EndsThenAsks, Ok, Finished
  <2> QED  BY <2>1, <2>2 DEF Effect, AsksAgain
<1>10. CASE \/ UploadDone(i, how) \/ DownloadDone(i, how) \/ SearchAllDone(i, how)
            \/ SearchFirstDone(i, how) \/ ResolveDone(i, how)
  <2>1. /\ reqs[i].op \in {"upload", "download", "searchAll", "searchFirst", "resolve"}
        /\ \E a \in {"uploaded", "saved", "searchAll", "searchFirst", "resolved"} :
               \E x : ResultOrError(i, how, a, x)
    BY <1>10 DEF UploadDone, DownloadDone, SearchAllDone, SearchFirstDone, ResolveDone, Ends
  <2>2. PICK a \in {"uploaded", "saved", "searchAll", "searchFirst", "resolved"} :
            \E x : ResultOrError(i, how, a, x)
    BY <2>1
  <2>3. PICK x : ResultOrError(i, how, a, x)
    BY <2>2
  <2>4. holder' = holder /\ (Shown(a, x) \/ panel' = panel)
    BY <2>3 DEF ResultOrError, Rest, infoVars
  <2>5. a \notin Watched \cup {"users"}
    BY DEF Watched
  <2> QED  BY <2>1, <2>4, <2>5, NoEffect, ShownElsewhere
<1>11. CASE AvatarUploadDone(i, how)
  BY <1>11, NoEffect, ShownElsewhere DEF AvatarUploadDone, Ends, Rest, infoVars, Watched
<1>12. CASE SetupDone(i, how)
  <2>1. reqs[i].op = "setName" /\ holder' = holder
    BY <1>12 DEF SetupDone, Ends, Rest, infoVars
  <2>2. IF how = "ok" /\ holder THEN Shown("name", reqs[i].val) ELSE panel' = panel
    BY <1>12 DEF SetupDone, Ok
  <2> QED  BY <2>1, <2>2, ShownHere DEF Effect, AsksAgain, Watched
<1>13. CASE SearchUsernameDone(i, how)
  <2>1. reqs[i].op = "searchNames" /\ holder' = holder
    BY <1>13 DEF SearchUsernameDone, Ends, Rest, infoVars
  <2>2. panel' = [panel EXCEPT !["users"] = IF how = "ok" THEN reqs[i].reply ELSE None,
                               !["picture"] = None]
    BY <1>13 DEF SearchUsernameDone, Ok
  <2>3. /\ panel'["users"] = IF how = "ok" THEN reqs[i].reply ELSE None
        /\ \A a \in Watched : panel'[a] = panel[a]
    BY <2>2, PanelDomain DEF Watched, Area
  <2> QED  BY <2>1, <2>3 DEF Effect, AsksAgain, Watched
<1>14. CASE ViewAvatarDone(i, how)
  BY <1>14, NoEffect, ShownElsewhere DEF ViewAvatarDone, Ends, Rest, infoVars, Watched
<1> QED
  BY FormsDone(i, how), <1>1, <1>2, <1>3, <1>4, <1>5, <1>6, <1>7, <1>8, <1>9, <1>10, <1>11, <1>12,
     <1>13, <1>14
  DEF FormsDone, PeerInfoDone, AddPeerDone, SetEntryDone

LEMMA FeedEffect ==
    ASSUME PageTypeOK, NEW i, NEW how \in How, FeedDone(i, how)
    PROVE  Effect(i, how) /\ AsksAgain(i, how)
<1>1. reqs[i].op \in {"accept", "decline", "askPosts"} /\ panel' = panel /\ holder' = holder
  BY DEF FeedDone, AcceptDone, DeclineDone, AnswerDone, AskPostsDone, Ends, Rest, infoVars
<1> QED  BY <1>1, NoEffect

-----------------------------------------------------------------------------
(* The invariant                                                           *)

\* The requests about a topic were each sent when the ones before were over.
AllAlone(topic) == \A i \in DOMAIN reqs : reqs[i].op \in topic => reqs[i].alone

\* What the two sides of a request say of each other, and what one that was sent alone says
\* of those before it.
Ordered ==
    /\ \A i \in DOMAIN reqs :
           /\ reqs[i].load <= load
           /\ reqs[i].page \in {"ok", "refused"} => reqs[i].node = reqs[i].page
           /\ reqs[i].node # "ok" => reqs[i].reply = None
           /\ reqs[i].op \in Certain => reqs[i].node # "refused"
    /\ \A i, j \in DOMAIN reqs : i < j =>
           /\ reqs[i].load <= reqs[j].load
           /\ reqs[j].alone /\ reqs[i].op \in Topic(reqs[j].op) =>
                  /\ reqs[i].node # "open"
                  /\ reqs[i].page = "waits" => reqs[i].load # reqs[j].load

\* An area that shows how much the peer knows, and the requests that add to that.
Count(a) == IF a = "table" THEN node.routes ELSE node.catalog
Changes(a) == IF a = "table" THEN {"addPeer", "setEntry"} ELSE {"addEntry"}

\* Replies are never ahead of the peer; each change was followed by a look at the area; later
\* looks, sent alone, see no less, and what is shown is the latest.
Counted(a) ==
    /\ \A i \in DOMAIN reqs : reqs[i].op \in {a} \cup Changes(a) /\ reqs[i].node = "ok" =>
           reqs[i].reply \in Nat /\ reqs[i].reply <= Count(a)
    /\ \A i \in DOMAIN reqs : reqs[i].op \in Changes(a) /\ reqs[i].page = "ok" =>
           \E t \in DOMAIN reqs :
               /\ reqs[t].op = a /\ reqs[t].load = reqs[i].load
               /\ reqs[t].node = "ok" => reqs[t].reply >= reqs[i].reply
    /\ \A i, j \in DOMAIN reqs :
           (/\ i < j /\ reqs[j].alone /\ reqs[i].op = a /\ reqs[j].op = a
            /\ reqs[i].node = "ok" /\ reqs[j].node = "ok") => reqs[i].reply <= reqs[j].reply
    /\ AllAlone({a}) =>
           \A i \in DOMAIN reqs : reqs[i].op = a /\ reqs[i].load = load /\ reqs[i].page = "ok" =>
               panel[a] \in Nat /\ panel[a] >= reqs[i].reply

Names == {"myName", "setName"}

\* A request for the name or for another one that this page has sent.
Asked(i) == reqs[i].op \in Names /\ reqs[i].load = load

\* The answers on their way to this page tell the name of the peer.
Telling ==
    \A i \in DOMAIN reqs : Asked(i) /\ reqs[i].page = "waits" /\ reqs[i].node # "open" =>
        /\ reqs[i].op = "myName" => reqs[i].reply = node.name
        /\ reqs[i].op = "setName" /\ reqs[i].node = "ok" => reqs[i].val = node.name

\* An answer that is lost, or one that is to tell a new name.
Lost == \E i \in DOMAIN reqs : Asked(i) /\ reqs[i].page = "failed"
Renaming ==
    \E i \in DOMAIN reqs :
        Asked(i) /\ reqs[i].page = "waits" /\ reqs[i].op = "setName" /\ reqs[i].node = "ok"

\* Where there is a place for it, the name is shown, but for answers that tell.
NameShown ==
    /\ holder => \E i \in DOMAIN reqs : Asked(i)
    /\ AllAlone(Names) =>
           Telling /\ (~holder \/ Lost \/ Renaming \/ panel["name"] = node.name)

\* The text that stands for users goes with the last answer.
UsersShown ==
    /\ \A i \in DOMAIN reqs : reqs[i].op = "searchNames" /\ reqs[i].node = "ok" =>
           reqs[i].reply \in Value
    /\ panel["users"] = Searching =>
           \E i \in DOMAIN reqs :
               reqs[i].op = "searchNames" /\ reqs[i].page = "waits" /\ reqs[i].load = load

PanelInv ==
    Ordered /\ Counted("table") /\ Counted("catalog") /\ NameShown /\ UsersShown

-----------------------------------------------------------------------------
(* What a step does to a request                                           *)

\* A request r becomes q: nothing, it ends for the page, or the peer refuses or grants it.
Moves(r, q) ==
    /\ q.op = r.op /\ q.val = r.val /\ q.load = r.load /\ q.alone = r.alone
    /\ \/ /\ q.node = r.node /\ q.reply = r.reply
          /\ q.page = r.page \/ (r.page = "waits" /\ q.page \in {"failed", r.node})
       \/ /\ q.page = r.page /\ r.node = "open" /\ q.node = "refused"
          /\ q.reply = r.reply /\ r.op \notin Certain
       \/ q.page = r.page /\ r.node = "open" /\ q.node = "ok"

\* Request j has just been sent.
JustSent(j) ==
    /\ \A k \in DOMAIN reqs : k < j
    /\ reqs'[j].node = "open" /\ reqs'[j].page = "waits" /\ reqs'[j].load = load
    /\ reqs'[j].reply = None
    /\ reqs'[j].alone => \A k \in DOMAIN reqs :
                             reqs[k].op \in Topic(reqs'[j].op) => ~Pending(reqs[k])

\* The requests move, and one more may be sent.
Moved ==
    /\ \A j \in DOMAIN reqs : j \in DOMAIN reqs' /\ Moves(reqs[j], reqs'[j])
    /\ \A j, k \in DOMAIN reqs' \ DOMAIN reqs : j = k /\ JustSent(j)

LEMMA SentAt ==
    ASSUME PageTypeOK, NEW s \in Seq(Request), Len(s) = Len(reqs), NEW op \in Op,
           NEW v \in Value \cup {Blank}, reqs' = Append(s, NewRequest(op, v))
    PROVE  /\ DOMAIN reqs \subseteq DOMAIN reqs' /\ \A j \in DOMAIN reqs : reqs'[j] = s[j]
           /\ \A j, k \in DOMAIN reqs' \ DOMAIN reqs :
                  j = k /\ JustSent(j) /\ reqs'[j] = NewRequest(op, v)
           /\ Len(reqs) + 1 \in DOMAIN reqs'
<1>1. NewRequest(op, v) \in Request /\ reqs \in Seq(Request)
  BY NewRequestType DEF PageTypeOK
<1>2. /\ DOMAIN reqs = 1 .. Len(reqs) /\ DOMAIN s = 1 .. Len(reqs)
      /\ DOMAIN reqs' = 1 .. Len(reqs) + 1 /\ Len(reqs) \in Nat
      /\ \A j \in 1 .. Len(reqs) : reqs'[j] = s[j]
      /\ reqs'[Len(reqs) + 1] = NewRequest(op, v)
  BY <1>1
<1>3. JustSent(Len(reqs) + 1)
  BY <1>2 DEF JustSent, NewRequest
<1>4. \A j \in DOMAIN reqs' \ DOMAIN reqs : j = Len(reqs) + 1
  BY <1>2
<1> QED  BY <1>2, <1>3, <1>4

LEMMA PressedMoves ==
    ASSUME PageTypeOK, Clicked
    PROVE  /\ \A j \in DOMAIN reqs : j \in DOMAIN reqs' /\ reqs'[j] = reqs[j]
           /\ Moved
<1>1. reqs \in Seq(Request)
  BY DEF PageTypeOK
<1>2. /\ \A j \in DOMAIN reqs : j \in DOMAIN reqs' /\ reqs'[j] = reqs[j]
      /\ \A j, k \in DOMAIN reqs' \ DOMAIN reqs : j = k /\ JustSent(j)
  BY <1>1, SentAt DEF Clicked
<1> QED  BY <1>2 DEF Moved, Moves

LEMMA EndedMoves ==
    ASSUME PageTypeOK, NEW i, NEW how \in How, Ended(i, how)
    PROVE  /\ i \in DOMAIN reqs /\ CanEnd(i, how)
           /\ \A j \in DOMAIN reqs : j # i => reqs'[j] = reqs[j]
           /\ reqs'[i] = [reqs[i] EXCEPT !.page = how]
           /\ Moved
<1> DEFINE s == Finished(i, how)
<1>1. i \in DOMAIN reqs /\ CanEnd(i, how) /\ reqs \in Seq(Request)
  BY DEF Ended, PageTypeOK
<1>2. /\ s \in Seq(Request) /\ DOMAIN s = DOMAIN reqs /\ Len(s) = Len(reqs)
      /\ \A j \in DOMAIN reqs : s[j] = IF j = i THEN [reqs[j] EXCEPT !.page = how] ELSE reqs[j]
  BY <1>1, FinishedType
<1>3. \/ reqs' = s
      \/ \E op \in Op \ {"setName"} : reqs' = Append(s, NewRequest(op, Blank))
  BY DEF Ended
<1> HIDE DEF s
<1>4. /\ \A j \in DOMAIN reqs : j \in DOMAIN reqs' /\ reqs'[j] = s[j]
      /\ \A j, k \in DOMAIN reqs' \ DOMAIN reqs : j = k /\ JustSent(j)
  <2>1. CASE reqs' = s
    BY <1>2, <2>1
  <2>2. ASSUME NEW op \in Op \ {"setName"}, reqs' = Append(s, NewRequest(op, Blank))
        PROVE  /\ \A j \in DOMAIN reqs : j \in DOMAIN reqs' /\ reqs'[j] = s[j]
               /\ \A j, k \in DOMAIN reqs' \ DOMAIN reqs : j = k /\ JustSent(j)
    BY <1>2, <2>2, SentAt
  <2> QED  BY <1>3, <2>1, <2>2
<1>5. /\ \A j \in DOMAIN reqs : j # i => reqs'[j] = reqs[j]
      /\ reqs'[i] = [reqs[i] EXCEPT !.page = how]
  BY <1>1, <1>2, <1>4
<1>6. reqs[i] \in Request
  BY <1>1
<1>7. Moves(reqs[i], reqs'[i])
  BY <1>1, <1>5, <1>6 DEF Moves, CanEnd, Request, How
<1> QED  BY <1>1, <1>4, <1>5, <1>7 DEF Moved, Moves

LEMMA ServedMoves ==
    ASSUME PageTypeOK, NEW i \in DOMAIN reqs, Serve(i)
    PROVE  /\ DOMAIN reqs' = DOMAIN reqs
           /\ \A j \in DOMAIN reqs : j # i => reqs'[j] = reqs[j]
           /\ \E x \in Replies(reqs[i]) :
                  reqs'[i] = [reqs[i] EXCEPT !.node = "ok", !.reply = x]
           /\ Moved
<1>1. reqs[i] \in Request /\ reqs[i].node = "open"
  BY DEF PageTypeOK, Serve
<1>2. PICK x \in Replies(reqs[i]) :
          reqs' = [reqs EXCEPT ![i] = [reqs[i] EXCEPT !.node = "ok", !.reply = x]]
  BY DEF Serve
<1>3. DOMAIN reqs' = DOMAIN reqs /\ \A j \in DOMAIN reqs : j # i => reqs'[j] = reqs[j]
  BY <1>2
<1>4. reqs'[i] = [reqs[i] EXCEPT !.node = "ok", !.reply = x]
  BY <1>2
<1>5. Moves(reqs[i], reqs'[i])
  BY <1>1, <1>4 DEF Moves, Request
<1>6. Moved
  BY <1>3, <1>5 DEF Moved, Moves
<1> QED  BY <1>3, <1>4, <1>6

LEMMA RefusedMoves ==
    ASSUME PageTypeOK, NEW i \in DOMAIN reqs, Refuse(i)
    PROVE  /\ DOMAIN reqs' = DOMAIN reqs
           /\ \A j \in DOMAIN reqs : j # i => reqs'[j] = reqs[j]
           /\ reqs'[i] = [reqs[i] EXCEPT !.node = "refused"]
           /\ Moved
<1>1. reqs[i] \in Request /\ reqs[i].node = "open" /\ reqs[i].op \notin Certain
  BY DEF PageTypeOK, Refuse
<1>2. reqs' = [reqs EXCEPT ![i] = [reqs[i] EXCEPT !.node = "refused"]]
  BY DEF Refuse
<1>3. /\ DOMAIN reqs' = DOMAIN reqs /\ \A j \in DOMAIN reqs : j # i => reqs'[j] = reqs[j]
      /\ reqs'[i] = [reqs[i] EXCEPT !.node = "refused"]
  BY <1>2
<1>4. Moves(reqs[i], reqs'[i])
  BY <1>1, <1>3 DEF Moves, Request
<1> QED  BY <1>3, <1>4 DEF Moved, Moves

-----------------------------------------------------------------------------
(* Kinds of steps                                                          *)

\* A click, an input, a section that is connected or a packet.
Pressed == Clicked /\ Still

\* The page sees the end of request i.
Answered(i, how) == Ended(i, how) /\ Spoke(i, how) /\ Effect(i, how) /\ AsksAgain(i, how)

LEMMA StillSame ==
    ASSUME panel' = panel
    PROVE  Still
BY DEF Still

LEMMA FormsStill ==
    ASSUME PageTypeOK, FormsClick
    PROVE  Still
<1>1. CASE \/ UnicastSend \/ EncryptedMessageSend \/ FriendRequestSend \/ PostFriendsSend
           \/ SendChat \/ SendPrivate \/ AddPeer \/ SetEntry \/ CatalogAdd \/ Download
           \/ AvatarUpload \/ Tag \/ Setup
  BY <1>1, StillSame DEF UnicastSend, EncryptedMessageSend, FriendRequestSend, PostFriendsSend,
     SendChat, SendPrivate, AddPeer, SetEntry, CatalogAdd, Download, AvatarUpload, Tag, Setup,
     Submit, shownVars
<1>2. CASE SearchAll \/ SearchFirst
  <2>1. PICK a \in {"searchAll", "searchFirst"} : Shown(a, Searching)
    BY <1>2 DEF SearchAll, SearchFirst, SubmitWaiting
  <2>2. a \notin Watched \cup {"users"}
    BY DEF Watched
  <2> QED  BY <2>1, <2>2, ShownElsewhere DEF Still, Watched
<1>3. CASE RoutingUpdate \/ CatalogUpdate \/ Upload \/ Resolve \/ ViewAvatar \/ AddFriend
  BY <1>3, StillSame DEF RoutingUpdate, CatalogUpdate, Upload, Resolve, ViewAvatar, AddFriend, Beside,
     shownVars
<1>4. CASE SearchUsername
  <2>1. /\ typed \in Value \cup {Blank}
        /\ reqs' = Append(reqs, NewRequest("searchNames", typed))
        /\ panel' = [panel EXCEPT !["users"] = Searching, !["picture"] = None]
    BY <1>4 DEF SearchUsername, Send, PageTypeOK
  <2>2. \A a \in Watched : panel'[a] = panel[a]
    BY <2>1, PanelDomain DEF Watched, Area
  <2> QED  BY <2>1, <2>2 DEF Still
<1>5. CASE \E s \in sections \ {"peerInfo", "packets", "postsFriend"} : InputMissing(s)
  BY <1>5, StillSame DEF InputMissing
<1> QED  BY FormsClick, <1>1, <1>2, <1>3, <1>4, <1>5 DEF FormsClick

LEMMA FeedStill ==
    ASSUME PacketsInitialize \/ PacketError \/ FeedClick \/ FeedStep \/ \E p \in Packet : Process(p)
    PROVE  Still
<1>1. panel' = panel
  <2>1. CASE PacketsInitialize
    BY <2>1 DEF PacketsInitialize, Connected, shownVars
  <2>2. CASE PacketError
    BY <2>2 DEF PacketError
  <2>3. CASE FeedClick
    BY <2>3 DEF FeedClick, Accept, Decline, Answer, AskPosts, InputMissing, shownVars
  <2>4. CASE FeedStep
    BY <2>4 DEF FeedStep, Notify, Push, Unlock, Register, Leave, Deliver, pageVars, shownVars
  <2>5. CASE \E p \in Packet : Process(p)
    BY <2>5 DEF Process, pageVars, shownVars
  <2> QED
    BY PacketsInitialize \/ PacketError \/ FeedClick \/ FeedStep \/ \E p \in Packet : Process(p),
       <2>1, <2>2, <2>3, <2>4, <2>5
<1> QED  BY <1>1, StillSame

LEMMA StepKinds ==
    ASSUME TypeOK, Next
    PROVE  \/ Pressed
           \/ \E i \in DOMAIN reqs, how \in How : Answered(i, how)
           \/ \E i \in DOMAIN reqs : Serve(i) \/ Refuse(i)
           \/ RoutesLearned
           \/ Reload
<1>1. CASE FormsStep
  <2>1. CASE FormsInitialize \/ \E v \in Value \cup {Blank} : Type(v)
    <3>1. panel' = panel
      BY <2>1 DEF FormsInitialize, PeerInfoInitialize, RoutingInitialize, CatalogInitialize, Connected,
         Type, shownVars
    <3> QED  BY <2>1, <3>1, FormsInitializeClicked, TypeClicked, StillSame DEF Pressed, TypeOK
  <2>2. CASE FormsClick
    BY <2>2, FormsClicked, FormsStill DEF Pressed, TypeOK
  <2> QED  BY <1>1, <2>1, <2>2 DEF FormsStep
<1>2. ASSUME NEW i \in DOMAIN reqs, Done(i)
      PROVE  \E how \in How : Answered(i, how)
  BY <1>2, FormsSpoke, FeedSpoke, FormsEffect, FeedEffect DEF Done, TypeOK, How, Answered
<1>3. CASE PacketsInitialize \/ PacketError \/ FeedClick \/ FeedStep \/ \E p \in Packet : Process(p)
  BY <1>3, FeedClicked, ProcessClicked, FeedStill DEF TypeOK, Pressed
<1> QED  BY Next, <1>1, <1>2, <1>3 DEF Next

LEMMA StepMoves ==
    ASSUME TypeOK, Next
    PROVE  Moved /\ load' \in Nat /\ load' >= load
<1>0. PageTypeOK /\ load \in Nat
  BY DEF TypeOK, PageTypeOK
<1>1. CASE Pressed
  BY <1>0, <1>1, PressedMoves DEF Pressed, Clicked
<1>2. ASSUME NEW i \in DOMAIN reqs, NEW how \in How, Answered(i, how)
      PROVE  Moved /\ load' \in Nat /\ load' >= load
  <2>1. load' = load
    BY <1>2 DEF Answered, Spoke
  <2>2. Moved
    BY <1>0, <1>2, EndedMoves, Zenon DEF Answered
  <2> QED  BY <1>0, <2>1, <2>2
<1>3. ASSUME NEW i \in DOMAIN reqs, Serve(i) \/ Refuse(i)
      PROVE  Moved /\ load' \in Nat /\ load' >= load
  <2>1. load' = load
    BY <1>3 DEF Serve, Refuse, userVars
  <2>2. Moved
    BY <1>0, <1>3, ServedMoves, RefusedMoves, Zenon
  <2> QED  BY <1>0, <2>1, <2>2
<1>4. CASE RoutesLearned
  <2>1. reqs' = reqs /\ load' = load
    BY <1>4 DEF RoutesLearned, userVars
  <2> QED  BY <1>0, <2>1 DEF Moved, Moves
<1>5. CASE Reload
  <2>1. reqs' = reqs /\ load' = load + 1
    BY <1>5 DEF Reload
  <2> QED  BY <1>0, <2>1 DEF Moved, Moves
<1> QED  BY StepKinds, <1>1, <1>2, <1>3, <1>4, <1>5

-----------------------------------------------------------------------------
(* The order of the requests                                               *)

LEMMA OrderedStep ==
    ASSUME TypeOK, TypeOK', Ordered, Next
    PROVE  Ordered'
<1>0. /\ \A j \in DOMAIN reqs : reqs[j] \in Request /\ j \in Nat
      /\ \A j \in DOMAIN reqs' : reqs'[j] \in Request /\ j \in Nat
      /\ load \in Nat
  BY DEF TypeOK, PageTypeOK
<1>1. Moved /\ load' \in Nat /\ load' >= load
  BY StepMoves
<1>2. \A j \in DOMAIN reqs : Moves(reqs[j], reqs'[j])
  BY <1>1 DEF Moved
<1>3. \A j \in DOMAIN reqs' \ DOMAIN reqs : JustSent(j)
  BY <1>1 DEF Moved
<1>4. ASSUME NEW i \in DOMAIN reqs'
      PROVE  /\ reqs'[i].load <= load'
             /\ reqs'[i].page \in {"ok", "refused"} => reqs'[i].node = reqs'[i].page
             /\ reqs'[i].node # "ok" => reqs'[i].reply = None
             /\ reqs'[i].op \in Certain => reqs'[i].node # "refused"
  <2>1. CASE i \in DOMAIN reqs
    <3>1. reqs[i].load \in Nat /\ reqs[i].load <= load
      BY <1>0, <2>1 DEF Ordered, Request
    <3>2. reqs'[i].load <= load'
      BY <1>0, <1>1, <1>2, <2>1, <3>1 DEF Moves
    <3>3. Moves(reqs[i], reqs'[i])
      BY <1>2, <2>1
    <3>4. /\ reqs[i].page \in {"ok", "refused"} => reqs[i].node = reqs[i].page
          /\ reqs[i].node # "ok" => reqs[i].reply = None
          /\ reqs[i].op \in Certain => reqs[i].node # "refused"
      BY <2>1 DEF Ordered
    <3> QED  BY <3>2, <3>3, <3>4 DEF Moves
  <2>2. CASE i \notin DOMAIN reqs
    BY <1>0, <1>1, <1>3, <2>2 DEF JustSent
  <2> QED  BY <2>1, <2>2
<1>5. ASSUME NEW i \in DOMAIN reqs', NEW j \in DOMAIN reqs', i < j
      PROVE  /\ reqs'[i].load <= reqs'[j].load
             /\ reqs'[j].alone /\ reqs'[i].op \in Topic(reqs'[j].op) =>
                    /\ reqs'[i].node # "open"
                    /\ reqs'[i].page = "waits" => reqs'[i].load # reqs'[j].load
  <2>1. CASE i \in DOMAIN reqs /\ j \in DOMAIN reqs
    <3>1. Moves(reqs[i], reqs'[i]) /\ Moves(reqs[j], reqs'[j])
      BY <1>2, <2>1
    <3>2. /\ reqs[i].load <= reqs[j].load
          /\ reqs[j].alone /\ reqs[i].op \in Topic(reqs[j].op) =>
                 /\ reqs[i].node # "open"
                 /\ reqs[i].page = "waits" => reqs[i].load # reqs[j].load
      BY <1>5, <2>1 DEF Ordered
    <3> QED  BY <3>1, <3>2 DEF Moves
  <2>2. CASE i \in DOMAIN reqs /\ j \notin DOMAIN reqs
    <3>1. Moves(reqs[i], reqs'[i]) /\ JustSent(j) /\ reqs[i].load <= load
      BY <1>2, <1>3, <2>2 DEF Ordered
    <3>2. reqs'[j].alone /\ reqs[i].op \in Topic(reqs'[j].op) => ~Pending(reqs[i])
      BY <2>2, <3>1 DEF JustSent
    <3>3. reqs'[j].load = load
      BY <3>1 DEF JustSent
    <3> QED  BY <3>1, <3>2, <3>3 DEF Moves, Pending
  <2>3. CASE i \notin DOMAIN reqs
    <3>1. JustSent(i) /\ (j \notin DOMAIN reqs => j = i)
      BY <1>1, <2>3 DEF Moved
    <3>2. j \in DOMAIN reqs => j < i
      BY <3>1 DEF JustSent
    <3> QED  BY <1>0, <1>5, <3>1, <3>2
  <2> QED  BY <2>1, <2>2, <2>3
<1> QED  BY <1>4, <1>5 DEF Ordered

\* A request that the peer or this page still waits for is not followed by one about the same
\* topic that was sent alone.
LEMMA OnlyLast ==
    ASSUME TypeOK, Ordered, NEW i \in DOMAIN reqs, NEW j \in DOMAIN reqs, i < j, reqs[j].alone,
           reqs[i].op \in Topic(reqs[j].op)
    PROVE  ~Pending(reqs[i])
<1>1. /\ reqs[i].load <= reqs[j].load /\ reqs[j].load <= load /\ reqs[i].node # "open"
      /\ reqs[i].page = "waits" => reqs[i].load # reqs[j].load
  BY DEF Ordered
<1>2. reqs[i] \in Request /\ reqs[j] \in Request /\ load \in Nat
  BY DEF TypeOK, PageTypeOK
<1> QED  BY <1>1, <1>2 DEF Pending, Request

-----------------------------------------------------------------------------
(* What changes, and by which step                                         *)

\* A request that the peer has granted had been before, or is served by this step.
LEMMA GrantedBy ==
    ASSUME TypeOK, Next, NEW i \in DOMAIN reqs', reqs'[i].node = "ok"
    PROVE  /\ i \in DOMAIN reqs /\ Moves(reqs[i], reqs'[i])
           /\ \/ reqs[i].node = "ok" /\ reqs'[i].reply = reqs[i].reply
              \/ Serve(i) /\ reqs'[i].reply \in Replies(reqs[i])
<1>0. PageTypeOK
  BY DEF TypeOK
<1>1. Moved
  BY StepMoves
<1>2. i \in DOMAIN reqs
  BY <1>1 DEF Moved, JustSent
<1>3. Moves(reqs[i], reqs'[i])
  BY <1>1, <1>2 DEF Moved
<1>4. CASE reqs[i].node = "ok"
  BY <1>2, <1>3, <1>4 DEF Moves
<1>5. CASE reqs[i].node # "ok"
  <2>1. CASE Pressed
    BY <1>0, <1>2, <1>5, <2>1, PressedMoves DEF Pressed
  <2>2. ASSUME NEW k \in DOMAIN reqs, NEW how \in How, Answered(k, how)
        PROVE  FALSE
    <3>1. /\ \A j \in DOMAIN reqs : j # k => reqs'[j] = reqs[j]
          /\ reqs'[k] = [reqs[k] EXCEPT !.page = how]
      BY <1>0, <2>2, EndedMoves DEF Answered
    <3>2. reqs[k] \in Request
      BY <1>0 DEF PageTypeOK
    <3> QED  BY <1>2, <1>5, <3>1, <3>2 DEF Request
  <2>3. ASSUME NEW k \in DOMAIN reqs, Serve(k)
        PROVE  Serve(i) /\ reqs'[i].reply \in Replies(reqs[i])
    <3>1. \A j \in DOMAIN reqs : j # k => reqs'[j] = reqs[j]
      BY <1>0, <2>3, ServedMoves
    <3>2. PICK x \in Replies(reqs[k]) : reqs'[k] = [reqs[k] EXCEPT !.node = "ok", !.reply = x]
      BY <1>0, <2>3, ServedMoves
    <3>3. reqs[k] \in Request
      BY <1>0 DEF PageTypeOK
    <3>4. reqs'[k].reply = x
      BY <3>2, <3>3 DEF Request
    <3>5. i = k
      BY <1>2, <1>5, <3>1
    <3> QED  BY <2>3, <3>2, <3>4, <3>5
  <2>4. ASSUME NEW k \in DOMAIN reqs, Refuse(k)
        PROVE  FALSE
    <3>1. /\ \A j \in DOMAIN reqs : j # k => reqs'[j] = reqs[j]
          /\ reqs'[k] = [reqs[k] EXCEPT !.node = "refused"]
      BY <1>0, <2>4, RefusedMoves
    <3>2. reqs[k] \in Request
      BY <1>0 DEF PageTypeOK
    <3> QED  BY <1>2, <1>5, <3>1, <3>2 DEF Request
  <2>5. CASE RoutesLearned \/ Reload
    BY <1>5, <2>5 DEF RoutesLearned, Reload
  <2> QED  BY <1>2, <1>3, <2>1, <2>2, <2>3, <2>4, <2>5, StepKinds
<1> QED  BY <1>4, <1>5

\* A request that the page has seen granted had been before, or its handler goes on.
LEMMA SeenBy ==
    ASSUME TypeOK, Next, NEW i \in DOMAIN reqs', reqs'[i].page = "ok"
    PROVE  i \in DOMAIN reqs /\ (reqs[i].page = "ok" \/ Answered(i, "ok"))
<1>0. PageTypeOK
  BY DEF TypeOK
<1>1. Moved
  BY StepMoves
<1>2. i \in DOMAIN reqs
  BY <1>1 DEF Moved, JustSent
<1>3. reqs[i] \in Request
  BY <1>0, <1>2 DEF PageTypeOK
<1>4. ASSUME reqs[i].page # "ok"
      PROVE  Answered(i, "ok")
  <2>1. CASE Pressed
    BY <1>0, <1>2, <1>4, <2>1, PressedMoves DEF Pressed
  <2>2. ASSUME NEW k \in DOMAIN reqs, NEW how \in How, Answered(k, how)
        PROVE  Answered(i, "ok")
    <3>1. /\ \A j \in DOMAIN reqs : j # k => reqs'[j] = reqs[j]
          /\ reqs'[k] = [reqs[k] EXCEPT !.page = how]
      BY <1>0, <2>2, EndedMoves DEF Answered
    <3>2. i = k
      BY <1>2, <1>4, <3>1
    <3>3. how = "ok"
      BY <1>3, <3>1, <3>2 DEF Request
    <3> QED  BY <2>2, <3>2, <3>3
  <2>3. ASSUME NEW k \in DOMAIN reqs, Serve(k) \/ Refuse(k)
        PROVE  FALSE
    BY <1>0, <1>2, <1>4, <2>3, ServedAt
  <2>4. CASE RoutesLearned \/ Reload
    BY <1>4, <2>4 DEF RoutesLearned, Reload
  <2> QED  BY <2>1, <2>2, <2>3, <2>4, StepKinds
<1> QED  BY <1>2, <1>4

\* What the page has answered it has seen answered.
LEMMA AnsweredBy ==
    ASSUME TypeOK, NEW i \in DOMAIN reqs, NEW how \in How, Answered(i, how)
    PROVE  /\ reqs[i].page = "waits" /\ reqs[i].load = load /\ load' = load
           /\ how # "failed" => reqs[i].node = how
           /\ Pending(reqs[i]) /\ node' = node
           /\ reqs'[i].page = how /\ reqs'[i].reply = reqs[i].reply /\ reqs'[i].node = reqs[i].node
<1>1. CanEnd(i, how) /\ reqs'[i] = [reqs[i] EXCEPT !.page = how]
  BY EndedMoves DEF Answered, TypeOK
<1>2. reqs[i] \in Request
  BY DEF TypeOK, PageTypeOK
<1>3. load' = load /\ node' = node
  BY DEF Answered, Spoke
<1> QED  BY <1>1, <1>2, <1>3 DEF CanEnd, Pending, Request

\* With fewer requests, none less was sent alone.
LEMMA AloneBefore ==
    ASSUME TypeOK, Next, NEW topic, AllAlone(topic)'
    PROVE  AllAlone(topic)
<1>1. \A j \in DOMAIN reqs : j \in DOMAIN reqs' /\ Moves(reqs[j], reqs'[j])
  BY StepMoves DEF Moved
<1> QED  BY <1>1 DEF AllAlone, Moves

-----------------------------------------------------------------------------
(* Users                                                                   *)

LEMMA UsersStep ==
    ASSUME TypeOK, UsersShown, Next
    PROVE  UsersShown'
<1>0. PageTypeOK /\ \A j \in DOMAIN reqs : reqs[j] \in Request
  BY DEF TypeOK, PageTypeOK
<1>1. ASSUME NEW i \in DOMAIN reqs', reqs'[i].op = "searchNames", reqs'[i].node = "ok"
      PROVE  reqs'[i].reply \in Value
  <2>1. /\ i \in DOMAIN reqs /\ Moves(reqs[i], reqs'[i])
        /\ \/ reqs[i].node = "ok" /\ reqs'[i].reply = reqs[i].reply
           \/ Serve(i) /\ reqs'[i].reply \in Replies(reqs[i])
    BY <1>1, GrantedBy
  <2>2. reqs[i].op = "searchNames"
    BY <1>1, <2>1 DEF Moves
  <2> QED  BY <2>1, <2>2 DEF UsersShown, Replies
<1>2. ASSUME panel'["users"] = Searching
      PROVE  \E i \in DOMAIN reqs' :
                 reqs'[i].op = "searchNames" /\ reqs'[i].page = "waits" /\ reqs'[i].load = load'
  <2> DEFINE Waits(i) ==
        reqs'[i].op = "searchNames" /\ reqs'[i].page = "waits" /\ reqs'[i].load = load'
  <2>0. ASSUME panel'["users"] = panel["users"]
        PROVE  \E i \in DOMAIN reqs :
                   reqs[i].op = "searchNames" /\ reqs[i].page = "waits" /\ reqs[i].load = load
    BY <1>2, <2>0 DEF UsersShown
  <2>1. CASE Pressed
    <3>1. load' = load /\ \A j \in DOMAIN reqs : j \in DOMAIN reqs' /\ reqs'[j] = reqs[j]
      BY <1>0, <2>1, PressedMoves DEF Pressed, Clicked
    <3>2. CASE panel'["users"] = panel["users"]
      BY <2>0, <3>1, <3>2
    <3>3. ASSUME NEW v \in Value \cup {Blank}, reqs' = Append(reqs, NewRequest("searchNames", v))
          PROVE  \E i \in DOMAIN reqs' : Waits(i)
      <4>1. /\ reqs'[Len(reqs) + 1] = NewRequest("searchNames", v)
            /\ Len(reqs) + 1 \in DOMAIN reqs'
        BY <1>0, <3>3, NewRequestType DEF PageTypeOK, Op
      <4>2. Waits(Len(reqs) + 1)
        BY <3>1, <4>1 DEF NewRequest
      <4> QED  BY <4>1, <4>2
    <3> QED  BY <2>1, <3>2, <3>3 DEF Pressed, Still
  <2>2. ASSUME NEW k \in DOMAIN reqs, NEW how \in How, Answered(k, how)
        PROVE  \E i \in DOMAIN reqs' : Waits(i)
    <3>1. load' = load /\ (how # "failed" => reqs[k].node = how)
      BY <2>2, AnsweredBy
    <3>2. CASE reqs[k].op # "searchNames"
      <4>1. panel'["users"] = panel["users"]
        BY <2>2, <3>2 DEF Answered, Effect
      <4>2. PICK i \in DOMAIN reqs :
                reqs[i].op = "searchNames" /\ reqs[i].page = "waits" /\ reqs[i].load = load
        BY <2>0, <4>1
      <4>3. i # k
        BY <3>2, <4>2
      <4>4. i \in DOMAIN reqs' /\ reqs'[i] = reqs[i]
        BY <1>0, <2>2, <4>3, EndedMoves DEF Answered, Moved
      <4> QED  BY <3>1, <4>2, <4>4
    <3>3. CASE reqs[k].op = "searchNames"
      <4>1. panel'["users"] = IF how = "ok" THEN reqs[k].reply ELSE None
        BY <2>2, <3>3 DEF Answered, Effect
      <4>2. how = "ok" => reqs[k].reply \in Value
        BY <3>1, <3>3 DEF UsersShown
      <4> QED  BY <1>2, <4>1, <4>2, PageAssumption
    <3> QED  BY <3>2, <3>3
  <2>3. ASSUME NEW k \in DOMAIN reqs, Serve(k) \/ Refuse(k)
        PROVE  \E i \in DOMAIN reqs' : Waits(i)
    <3>1. panel' = panel /\ load' = load
      BY <2>3 DEF Serve, Refuse, shownVars, userVars
    <3>2. \A j \in DOMAIN reqs : /\ j \in DOMAIN reqs' /\ reqs'[j].op = reqs[j].op
                               /\ reqs'[j].load = reqs[j].load /\ reqs'[j].page = reqs[j].page
      BY <1>0, <2>3, ServedAt
    <3> QED  BY <2>0, <3>1, <3>2
  <2>4. CASE RoutesLearned
    BY <2>0, <2>4 DEF RoutesLearned, shownVars, userVars
  <2>5. CASE Reload
    <3>1. panel'["users"] = None
      BY <2>5 DEF Reload, NothingShown, Area
    <3> QED  BY <1>2, <3>1, PageAssumption
  <2> QED  BY <2>1, <2>2, <2>3, <2>4, <2>5, StepKinds
<1> QED  BY <1>1, <1>2 DEF UsersShown

-----------------------------------------------------------------------------
(* The table and the catalog                                               *)

LEMMA CountGrows ==
    ASSUME TypeOK, Next, NEW a \in {"table", "catalog"}
    PROVE  /\ Count(a) \in Nat /\ Count(a)' \in Nat /\ Count(a)' >= Count(a)
           /\ \A i : Serve(i) /\ reqs[i].op \in Changes(a) => Count(a)' = Count(a) + 1
<1>0. node \in [name : Value \cup {None}, routes : Nat, catalog : Nat]
  BY DEF TypeOK, PageTypeOK
<1>1. ASSUME NEW i, Serve(i)
      PROVE  /\ Count(a)' \in Nat /\ Count(a)' >= Count(a)
             /\ reqs[i].op \in Changes(a) => Count(a)' = Count(a) + 1
  <2>1. Did(reqs[i].op, reqs[i].val)
    BY <1>1 DEF Serve
  <2> QED  BY <1>0, <2>1 DEF Did, Count, Changes
<1>2. node' = node => Count(a)' \in Nat /\ Count(a)' >= Count(a)
  BY <1>0 DEF Count
<1>3. ASSUME RoutesLearned
      PROVE  Count(a)' \in Nat /\ Count(a)' >= Count(a)
  BY <1>0, <1>3 DEF RoutesLearned, Count
<1>4. \/ node' = node
      \/ RoutesLearned
      \/ \E i : Serve(i)
  BY StepKinds DEF Pressed, Clicked, Answered, Spoke, Refuse, nodeVars, Reload
<1>5. Count(a)' \in Nat /\ Count(a)' >= Count(a)
  BY <1>1, <1>2, <1>3, <1>4
<1>6. Count(a) \in Nat
  BY <1>0 DEF Count
<1> QED  BY <1>1, <1>5, <1>6

LEMMA CountedStep ==
    ASSUME TypeOK, TypeOK', Ordered, NEW a \in {"table", "catalog"}, Counted(a), Next
    PROVE  Counted(a)'
<1>0. /\ PageTypeOK /\ \A j \in DOMAIN reqs : reqs[j] \in Request /\ j \in Nat
      /\ Topic(a) = {a} /\ a \notin Changes(a)
  BY DEF TypeOK, PageTypeOK, Topic, Changes
<1>1. Count(a) \in Nat /\ Count(a)' \in Nat /\ Count(a)' >= Count(a)
  BY CountGrows
<1>2. \A i \in DOMAIN reqs : i \in DOMAIN reqs' /\ Moves(reqs[i], reqs'[i])
  BY StepMoves DEF Moved
<1>3. ASSUME NEW i \in DOMAIN reqs', reqs'[i].op = a, reqs'[i].node = "ok"
      PROVE  /\ i \in DOMAIN reqs /\ reqs[i].op = a
             /\ \/ reqs[i].node = "ok" /\ reqs'[i].reply = reqs[i].reply
                \/ reqs[i].node = "open" /\ reqs'[i].reply = Count(a)
             /\ reqs'[i].reply \in Nat /\ reqs'[i].reply <= Count(a)
  <2>1. /\ i \in DOMAIN reqs /\ reqs[i].op = a
        /\ \/ reqs[i].node = "ok" /\ reqs'[i].reply = reqs[i].reply
           \/ Serve(i) /\ reqs'[i].reply \in Replies(reqs[i])
    BY <1>3, GrantedBy DEF Moves
  <2>2. Replies(reqs[i]) = {Count(a)}
    BY <2>1 DEF Replies, Count
  <2> QED  BY <1>1, <2>1, <2>2 DEF Counted, Serve
<1>4. ASSUME NEW i \in DOMAIN reqs', reqs'[i].op \in Changes(a), reqs'[i].node = "ok"
      PROVE  reqs'[i].reply \in Nat /\ reqs'[i].reply <= Count(a)'
  <2>1. /\ i \in DOMAIN reqs /\ reqs[i].op \in Changes(a)
        /\ \/ reqs[i].node = "ok" /\ reqs'[i].reply = reqs[i].reply
           \/ Serve(i) /\ reqs'[i].reply \in Replies(reqs[i])
    BY <1>4, GrantedBy DEF Moves
  <2>2. CASE reqs[i].node = "ok" /\ reqs'[i].reply = reqs[i].reply
    BY <1>1, <2>1, <2>2 DEF Counted
  <2>3. CASE Serve(i) /\ reqs'[i].reply \in Replies(reqs[i])
    <3>1. Replies(reqs[i]) = {Count(a) + 1}
      BY <2>1 DEF Replies, Count, Changes
    <3>2. Count(a)' = Count(a) + 1
      BY <2>1, <2>3, CountGrows
    <3> QED  BY <1>1, <2>3, <3>1, <3>2
  <2> QED  BY <2>1, <2>2, <2>3
<1>5. ASSUME NEW i \in DOMAIN reqs', reqs'[i].op \in Changes(a), reqs'[i].page = "ok"
      PROVE  \E t \in DOMAIN reqs' :
                 /\ reqs'[t].op = a /\ reqs'[t].load = reqs'[i].load
                 /\ reqs'[t].node = "ok" => reqs'[t].reply >= reqs'[i].reply
  <2>1. i \in DOMAIN reqs /\ (reqs[i].page = "ok" \/ Answered(i, "ok"))
    BY <1>5, SeenBy
  <2>2. reqs[i].op \in Changes(a) /\ reqs'[i].load = reqs[i].load
    BY <1>2, <1>5, <2>1 DEF Moves
  <2>3. CASE reqs[i].page = "ok"
    <3>1. PICK t \in DOMAIN reqs :
              /\ reqs[t].op = a /\ reqs[t].load = reqs[i].load
              /\ reqs[t].node = "ok" => reqs[t].reply >= reqs[i].reply
      BY <2>1, <2>2, <2>3 DEF Counted
    <3>2. reqs[i].node = "ok"
      BY <2>1, <2>3 DEF Ordered
    <3>3. reqs'[i].reply = reqs[i].reply
      BY <1>2, <2>1, <3>2 DEF Moves
    <3>4. reqs[i].reply \in Nat /\ reqs[i].reply <= Count(a)
      BY <2>1, <2>2, <3>2 DEF Counted
    <3>5. t \in DOMAIN reqs' /\ reqs'[t].op = a /\ reqs'[t].load = reqs'[i].load
      BY <1>2, <2>2, <3>1 DEF Moves
    <3>6. reqs'[t].node = "ok" => reqs'[t].reply >= reqs'[i].reply
      BY <1>1, <1>3, <3>1, <3>3, <3>4, <3>5
    <3> QED  BY <3>5, <3>6
  <2>4. CASE Answered(i, "ok")
    <3>1. reqs' = Append(Finished(i, "ok"), NewRequest(a, Blank))
      BY <2>2, <2>4 DEF Answered, AsksAgain, Changes
    <3>2. Finished(i, "ok") \in Seq(Request) /\ Len(Finished(i, "ok")) = Len(reqs)
      BY <1>0, <2>1, FinishedType DEF How
    <3>3. a \in Op /\ Len(reqs) \in Nat /\ NewRequest(a, Blank) \in Request
      BY <1>0, NewRequestType DEF Op, PageTypeOK
    <3>4. Len(reqs) + 1 \in DOMAIN reqs' /\ reqs'[Len(reqs) + 1] = NewRequest(a, Blank)
      BY <3>1, <3>2, <3>3
    <3>5. reqs[i].load = load
      BY <2>1, <2>4, AnsweredBy DEF How
    <3>6. /\ reqs'[Len(reqs) + 1].op = a /\ reqs'[Len(reqs) + 1].load = reqs'[i].load
          /\ reqs'[Len(reqs) + 1].node = "open"
      BY <2>2, <3>4, <3>5 DEF NewRequest
    <3> QED  BY <3>4, <3>6
  <2> QED  BY <2>1, <2>3, <2>4
<1>6. ASSUME NEW i \in DOMAIN reqs', NEW j \in DOMAIN reqs', i < j, reqs'[j].alone,
             reqs'[i].op = a, reqs'[j].op = a, reqs'[i].node = "ok", reqs'[j].node = "ok"
      PROVE  reqs'[i].reply <= reqs'[j].reply
  <2>1. /\ i \in DOMAIN reqs /\ reqs[i].op = a /\ j \in DOMAIN reqs /\ reqs[j].op = a
        /\ reqs[j].alone
    BY <1>2, <1>3, <1>6 DEF Moves
  <2>2. reqs[i].node # "open"
    BY <1>0, <1>6, <2>1 DEF Ordered
  <2>3. reqs[i].node = "ok" /\ reqs'[i].reply = reqs[i].reply
    BY <1>3, <1>6, <2>2
  <2>4. CASE reqs[j].node = "ok" /\ reqs'[j].reply = reqs[j].reply
    BY <1>6, <2>1, <2>3, <2>4 DEF Counted
  <2>5. CASE reqs'[j].reply = Count(a)
    BY <1>3, <1>6, <2>5
  <2> QED  BY <1>3, <1>6, <2>4, <2>5
<1>7. ASSUME AllAlone({a})', NEW i \in DOMAIN reqs', reqs'[i].op = a, reqs'[i].load = load',
             reqs'[i].page = "ok"
      PROVE  panel'[a] \in Nat /\ panel'[a] >= reqs'[i].reply
  <2>1. AllAlone({a})
    BY <1>7, AloneBefore
  <2>2. i \in DOMAIN reqs /\ (reqs[i].page = "ok" \/ Answered(i, "ok"))
    BY <1>7, SeenBy
  <2>3. reqs[i].op = a /\ reqs[i].load = load'
    BY <1>2, <1>7, <2>2 DEF Moves
  <2>4. reqs[i].node = "ok"
    BY <2>2, AnsweredBy DEF Ordered, How
  <2>5. reqs'[i].reply = reqs[i].reply /\ reqs[i].reply \in Nat
    BY <1>2, <2>2, <2>3, <2>4 DEF Moves, Counted
  <2>6. ASSUME panel'[a] = panel[a], load' = load, ~Answered(i, "ok")
        PROVE  panel'[a] \in Nat /\ panel'[a] >= reqs'[i].reply
    BY <2>1, <2>2, <2>3, <2>5, <2>6 DEF Counted
  <2>7. ASSUME Answered(i, "ok")
        PROVE  panel'[a] \in Nat /\ panel'[a] >= reqs'[i].reply
    <3>1. panel'[a] = reqs[i].reply
      BY <2>3, <2>7 DEF Answered, Effect
    <3> QED  BY <2>5, <3>1
  <2>8. CASE ~Answered(i, "ok")
    <3>1. CASE Pressed
      <4>1. panel'[a] = panel[a] /\ load' = load
        BY <3>1 DEF Pressed, Still, Watched, Clicked
      <4> QED  BY <2>6, <2>8, <4>1
    <3>2. ASSUME NEW k \in DOMAIN reqs, NEW how \in How, Answered(k, how)
          PROVE  panel'[a] \in Nat /\ panel'[a] >= reqs'[i].reply
      <4>1. /\ load' = load /\ reqs[k].page = "waits" /\ Pending(reqs[k])
            /\ how # "failed" => reqs[k].node = how
        BY <3>2, AnsweredBy
      <4>2. CASE reqs[k].op = a /\ how = "ok"
        <5>1. panel'[a] = reqs[k].reply
          BY <3>2, <4>2 DEF Answered, Effect
        <5>2. reqs[i].page = "ok" /\ i # k
          BY <2>2, <2>8, <4>1
        <5>3. reqs[k].alone /\ reqs[i].alone
          BY <2>1, <2>2, <2>3, <4>2 DEF AllAlone
        <5>4. ~(k < i)
          BY <1>0, <2>2, <2>3, <4>1, <4>2, <5>3, OnlyLast
        <5>5. i < k
          BY <1>0, <2>2, <5>2, <5>4
        <5>6. reqs[i].reply <= reqs[k].reply /\ reqs[k].reply \in Nat
          BY <2>2, <2>3, <2>4, <4>1, <4>2, <5>3, <5>5 DEF Counted
        <5> QED  BY <2>5, <5>1, <5>6
      <4>3. CASE ~(reqs[k].op = a /\ how = "ok")
        <5>1. panel'[a] = panel[a]
          BY <3>2, <4>3 DEF Answered, Effect
        <5> QED  BY <2>6, <2>8, <4>1, <5>1
      <4> QED  BY <4>2, <4>3
    <3>3. CASE RoutesLearned \/ \E k \in DOMAIN reqs : Serve(k) \/ Refuse(k)
      <4>1. panel' = panel /\ load' = load
        BY <3>3 DEF RoutesLearned, Serve, Refuse, userVars, shownVars
      <4> QED  BY <2>6, <2>8, <4>1
    <3>4. CASE Reload
      <4>1. load' = load + 1 /\ load \in Nat /\ reqs[i].load <= load
        BY <1>0, <2>2, <3>4 DEF Reload, Ordered, PageTypeOK
      <4> QED  BY <2>3, <4>1
    <3> QED  BY <3>1, <3>2, <3>3, <3>4, StepKinds
  <2> QED  BY <2>7, <2>8
<1>8. \A i \in DOMAIN reqs' : reqs'[i].op \in {a} \cup Changes(a) /\ reqs'[i].node = "ok" =>
          reqs'[i].reply \in Nat /\ reqs'[i].reply <= Count(a)'
  BY <1>1, <1>3, <1>4
<1> QED  BY <1>5, <1>6, <1>7, <1>8 DEF Counted

-----------------------------------------------------------------------------
(* The name                                                                *)

\* At most one of the requests for the name is under way.
LEMMA OneAsked ==
    ASSUME TypeOK, Ordered, AllAlone(Names), NEW i \in DOMAIN reqs, NEW j \in DOMAIN reqs,
           reqs[i].op \in Names, reqs[j].op \in Names, Pending(reqs[i])
    PROVE  j <= i /\ (Pending(reqs[j]) => i = j)
<1>1. reqs[i].alone /\ reqs[j].alone
  BY DEF AllAlone
<1>2. reqs[i].op \in Topic(reqs[j].op) /\ reqs[j].op \in Topic(reqs[i].op)
  BY DEF Topic, Names
<1>3. i \in Nat /\ j \in Nat
  BY DEF TypeOK, PageTypeOK
<1>4. ~(i < j) /\ (Pending(reqs[j]) => ~(j < i))
  BY <1>1, <1>2, OnlyLast
<1> QED  BY <1>3, <1>4

\* The name of the peer changes when it grants a request for another one.
LEMMA NameServed ==
    ASSUME TypeOK, NEW k \in DOMAIN reqs, Serve(k)
    PROVE  /\ node'.name = IF reqs[k].op = "setName" THEN reqs[k].val ELSE node.name
           /\ reqs[k].op = "myName" => reqs'[k].reply = node.name
           /\ reqs[k].node = "open" /\ Pending(reqs[k]) /\ reqs'[k].node = "ok"
           /\ UNCHANGED <<load, holder, panel>>
           /\ \A j \in DOMAIN reqs : j # k => reqs'[j] = reqs[j]
           /\ DOMAIN reqs' = DOMAIN reqs
<1>1. /\ PageTypeOK /\ reqs[k] \in Request
      /\ node \in [name : Value \cup {None}, routes : Nat, catalog : Nat]
  BY DEF TypeOK, PageTypeOK
<1>2. Did(reqs[k].op, reqs[k].val) /\ reqs[k].node = "open" /\ UNCHANGED <<load, holder, panel>>
  BY DEF Serve, userVars, shownVars, infoVars
<1>3. node'.name = IF reqs[k].op = "setName" THEN reqs[k].val ELSE node.name
  BY <1>1, <1>2 DEF Did
<1>4. PICK x \in Replies(reqs[k]) : reqs'[k] = [reqs[k] EXCEPT !.node = "ok", !.reply = x]
  BY <1>1, ServedMoves
<1>5. reqs'[k].reply = x /\ reqs'[k].node = "ok"
  BY <1>1, <1>4 DEF Request
<1>6. reqs[k].op = "myName" => x = node.name
  BY <1>4 DEF Replies
<1>7. DOMAIN reqs' = DOMAIN reqs /\ \A j \in DOMAIN reqs : j # k => reqs'[j] = reqs[j]
  BY <1>1, ServedMoves
<1> QED  BY <1>2, <1>3, <1>5, <1>6, <1>7 DEF Pending

LEMMA TellingStep ==
    ASSUME TypeOK, TypeOK', Ordered, AllAlone(Names), Telling, Next
    PROVE  Telling'
<1>0. PageTypeOK /\ \A j \in DOMAIN reqs : reqs[j] \in Request /\ j \in Nat
  BY DEF TypeOK, PageTypeOK
<1>1. Moved
  BY StepMoves
<1> SUFFICES ASSUME NEW i \in DOMAIN reqs', Asked(i)', reqs'[i].page = "waits",
                    reqs'[i].node # "open"
             PROVE  /\ reqs'[i].op = "myName" => reqs'[i].reply = node'.name
                    /\ reqs'[i].op = "setName" /\ reqs'[i].node = "ok" => reqs'[i].val = node'.name
  BY DEF Telling
<1>2. i \in DOMAIN reqs /\ Moves(reqs[i], reqs'[i])
  BY <1>1 DEF Moved, JustSent
<1>3. reqs[i].op \in Names /\ reqs[i].load = load' /\ reqs[i].page = "waits"
  BY <1>0, <1>2 DEF Asked, Moves, Names, Request
<1>4. ASSUME reqs'[i] = reqs[i], load' = load, node'.name = node.name
      PROVE  /\ reqs'[i].op = "myName" => reqs'[i].reply = node'.name
             /\ reqs'[i].op = "setName" /\ reqs'[i].node = "ok" => reqs'[i].val = node'.name
  BY <1>2, <1>3, <1>4 DEF Telling, Asked, Names
<1>5. CASE Pressed
  BY <1>0, <1>2, <1>4, <1>5, PressedMoves DEF Pressed, Clicked
<1>6. ASSUME NEW k \in DOMAIN reqs, NEW how \in How, Answered(k, how)
      PROVE  /\ reqs'[i].op = "myName" => reqs'[i].reply = node'.name
             /\ reqs'[i].op = "setName" /\ reqs'[i].node = "ok" => reqs'[i].val = node'.name
  <2>1. load' = load /\ node' = node /\ reqs'[k].page = how
    BY <1>6, AnsweredBy
  <2>2. i # k
    BY <2>1 DEF How
  <2>3. \A j \in DOMAIN reqs : j # k => reqs'[j] = reqs[j]
    BY <1>0, <1>6, EndedMoves DEF Answered
  <2> QED  BY <1>2, <1>4, <2>1, <2>2, <2>3
<1>7. ASSUME NEW k \in DOMAIN reqs, Serve(k)
      PROVE  /\ reqs'[i].op = "myName" => reqs'[i].reply = node'.name
             /\ reqs'[i].op = "setName" /\ reqs'[i].node = "ok" => reqs'[i].val = node'.name
  <2>1. CASE i = k
    BY <1>2, <1>7, <2>1, NameServed DEF Moves
  <2>2. CASE i # k
    <3>1. /\ reqs'[i] = reqs[i] /\ load' = load /\ Pending(reqs[k])
          /\ node'.name = IF reqs[k].op = "setName" THEN reqs[k].val ELSE node.name
      BY <1>2, <1>7, <2>2, NameServed
    <3>2. Pending(reqs[i])
      BY <1>3, <3>1 DEF Pending
    <3>3. reqs[k].op # "setName"
      BY <1>2, <1>3, <2>2, <3>1, <3>2, OneAsked DEF Names
    <3> QED  BY <1>4, <3>1, <3>3
  <2> QED  BY <2>1, <2>2
<1>8. ASSUME NEW k \in DOMAIN reqs, Refuse(k)
      PROVE  /\ reqs'[i].op = "myName" => reqs'[i].reply = node'.name
             /\ reqs'[i].op = "setName" /\ reqs'[i].node = "ok" => reqs'[i].val = node'.name
  <2>1. load' = load /\ node' = node /\ (reqs[k].op = "myName" => node.name = None)
    BY <1>8 DEF Refuse, userVars, nodeVars
  <2>2. CASE i = k
    <3>1. reqs'[k] = [reqs[k] EXCEPT !.node = "refused"] /\ reqs[k] \in Request
      BY <1>0, <1>8, RefusedMoves
    <3>2. reqs'[k].node = "refused" /\ reqs'[k].reply = reqs[k].reply /\ reqs'[k].op = reqs[k].op
      BY <3>1 DEF Request
    <3>3. reqs[k].reply = None
      BY <1>8 DEF Ordered, Refuse
    <3> QED  BY <2>1, <2>2, <3>2, <3>3
  <2>3. CASE i # k
    BY <1>0, <1>2, <1>4, <1>8, <2>1, <2>3, RefusedMoves
  <2> QED  BY <2>2, <2>3
<1>9. CASE RoutesLearned
  <2>1. reqs' = reqs /\ load' = load /\ node' = [node EXCEPT !.routes = node.routes + 1]
    BY <1>9 DEF RoutesLearned, userVars
  <2>2. node'.name = node.name
    BY <1>0, <2>1 DEF PageTypeOK
  <2> QED  BY <1>4, <2>1, <2>2
<1>10. CASE Reload
  <2>1. load' = load + 1 /\ load \in Nat /\ reqs[i].load <= load
    BY <1>0, <1>2, <1>10 DEF Reload, Ordered, PageTypeOK
  <2> QED  BY <1>3, <2>1
<1> QED  BY <1>5, <1>6, <1>7, <1>8, <1>9, <1>10, StepKinds

LEMMA NameStep ==
    ASSUME TypeOK, TypeOK', Ordered, NameShown, Next
    PROVE  NameShown'
<1>0. PageTypeOK /\ \A j \in DOMAIN reqs : reqs[j] \in Request /\ j \in Nat
  BY DEF TypeOK, PageTypeOK
<1>1. \A j \in DOMAIN reqs : j \in DOMAIN reqs' /\ Moves(reqs[j], reqs'[j])
  BY StepMoves DEF Moved
<1>2. ASSUME holder'
      PROVE  \E i \in DOMAIN reqs' : Asked(i)'
  <2>1. CASE holder /\ load' = load
    <3>1. PICK i \in DOMAIN reqs : Asked(i)
      BY <2>1 DEF NameShown
    <3> QED  BY <1>1, <2>1, <3>1 DEF Asked, Moves
  <2>2. CASE ~(holder /\ load' = load)
    <3>1. PICK k \in DOMAIN reqs, how \in How : Answered(k, how)
      <4>1. ~Pressed
        BY <1>2, <2>2 DEF Pressed, Clicked
      <4>2. ~RoutesLearned /\ ~Reload /\ ~\E i \in DOMAIN reqs : Serve(i) \/ Refuse(i)
        BY <1>2, <2>2 DEF RoutesLearned, Reload, Serve, Refuse, userVars, infoVars
      <4> QED  BY <4>1, <4>2, StepKinds
    <3>2. load' = load /\ reqs[k].load = load
      BY <3>1, AnsweredBy
    <3>3. reqs[k].op = "myName"
      BY <1>2, <2>2, <3>1, <3>2 DEF Answered, Effect
    <3> QED  BY <1>1, <3>2, <3>3 DEF Asked, Moves, Names
  <2> QED  BY <2>1, <2>2
<1>3. ASSUME AllAlone(Names)'
      PROVE  Telling' /\ (~holder' \/ Lost' \/ Renaming' \/ panel'["name"] = node'.name)
  <2>0. /\ AllAlone(Names) /\ Telling
        /\ ~holder \/ Lost \/ Renaming \/ panel["name"] = node.name
    BY <1>3, AloneBefore DEF NameShown
  <2>1. Telling'
    BY <2>0, TellingStep
  <2>2. Lost /\ load' = load => Lost'
    BY <1>1 DEF Lost, Asked, Moves
  \* The requests for the name that have not been answered by this step.
  <2>3. ASSUME NEW k, \A j \in DOMAIN reqs : j # k => reqs'[j] = reqs[j],
               load' = load, holder' = holder, node'.name = node.name,
               panel'["name"] = panel["name"],
               k \in DOMAIN reqs => ~(reqs[k].op = "setName" /\ reqs[k].node = "ok")
        PROVE  ~holder' \/ Lost' \/ Renaming' \/ panel'["name"] = node'.name
    <3>1. Renaming => Renaming'
      <4> SUFFICES ASSUME Renaming PROVE Renaming'
        OBVIOUS
      <4>1. PICK i \in DOMAIN reqs :
                Asked(i) /\ reqs[i].page = "waits" /\ reqs[i].op = "setName" /\ reqs[i].node = "ok"
        BY DEF Renaming
      <4>2. i # k /\ i \in DOMAIN reqs' /\ reqs'[i] = reqs[i]
        BY <1>1, <2>3, <4>1
      <4> QED  BY <2>3, <4>1, <4>2 DEF Renaming, Asked
    <3> QED  BY <2>0, <2>2, <2>3, <3>1
  <2>4. CASE Pressed
    <3>1. load' = load /\ holder' = holder /\ node'.name = node.name
      BY <2>4 DEF Pressed, Clicked
    <3>2. panel'["name"] = panel["name"]
      BY <2>4 DEF Pressed, Still, Watched
    <3>3. \A j \in DOMAIN reqs : reqs'[j] = reqs[j]
      BY <1>0, <2>4, PressedMoves DEF Pressed
    <3>4. 0 \notin DOMAIN reqs
      BY <1>0 DEF PageTypeOK
    <3> QED  BY <2>1, <2>3, <3>1, <3>2, <3>3, <3>4
  <2>5. ASSUME NEW k \in DOMAIN reqs, NEW how \in How, Answered(k, how)
        PROVE  ~holder' \/ Lost' \/ Renaming' \/ panel'["name"] = node'.name
    <3>1. /\ reqs[k].page = "waits" /\ reqs[k].load = load /\ load' = load /\ node' = node
          /\ (how # "failed" => reqs[k].node = how) /\ reqs'[k].page = how
      BY <2>5, AnsweredBy
    <3>2. \A j \in DOMAIN reqs : j # k => reqs'[j] = reqs[j]
      BY <1>0, <2>5, EndedMoves DEF Answered
    <3>3. CASE reqs[k].op \in Names /\ how = "failed"
      <4>1. k \in DOMAIN reqs' /\ Asked(k)' /\ reqs'[k].page = "failed"
        BY <1>1, <3>1, <3>3 DEF Asked, Moves
      <4> QED  BY <4>1 DEF Lost
    <3>4. CASE reqs[k].op = "myName" /\ how # "failed"
      <4>1. panel'["name"] = reqs[k].reply
        BY <2>5, <3>4 DEF Answered, Effect
      <4>2. Asked(k) /\ reqs[k].node # "open"
        BY <3>1, <3>4 DEF Asked, Names, How
      <4> QED  BY <2>0, <3>1, <3>4, <4>1, <4>2 DEF Telling
    <3>5. CASE reqs[k].op = "setName" /\ how = "ok"
      <4>1. /\ panel'["name"] = IF holder THEN reqs[k].val ELSE panel["name"]
            /\ holder' = holder
        BY <2>5, <3>5 DEF Answered, Effect
      <4>2. Asked(k) /\ reqs[k].node = "ok"
        BY <3>1, <3>5 DEF Asked, Names
      <4>3. reqs[k].val = node.name
        BY <2>0, <3>1, <3>5, <4>2 DEF Telling
      <4> QED  BY <3>1, <4>1, <4>3
    <3>6. CASE reqs[k].op \notin Names \/ (reqs[k].op = "setName" /\ how = "refused")
      <4>1. panel'["name"] = panel["name"] /\ holder' = holder
        BY <2>5, <3>6 DEF Answered, Effect, Names
      <4>2. ~(reqs[k].op = "setName" /\ reqs[k].node = "ok")
        BY <3>1, <3>6 DEF Names
      <4> QED  BY <2>3, <3>1, <3>2, <4>1, <4>2
    <3> QED  BY <3>3, <3>4, <3>5, <3>6 DEF How, Names
  <2>6. ASSUME NEW k \in DOMAIN reqs, Serve(k)
        PROVE  ~holder' \/ Lost' \/ Renaming' \/ panel'["name"] = node'.name
    <3>1. /\ node'.name = IF reqs[k].op = "setName" THEN reqs[k].val ELSE node.name
          /\ reqs[k].node = "open" /\ Pending(reqs[k]) /\ reqs'[k].node = "ok"
          /\ UNCHANGED <<load, holder, panel>>
          /\ \A j \in DOMAIN reqs : j # k => reqs'[j] = reqs[j]
      BY <2>6, NameServed
    <3>2. CASE reqs[k].op # "setName"
      BY <2>3, <3>1, <3>2
    <3>3. CASE reqs[k].op = "setName" /\ reqs[k].load = load
      <4>1. k \in DOMAIN reqs' /\ Asked(k)' /\ reqs'[k].op = "setName"
        BY <1>1, <3>1, <3>3 DEF Asked, Moves, Names
      <4>2. reqs'[k].page \in {"waits", "failed"}
        <5>1. reqs[k].page \in {"waits", "failed"}
          BY <1>0, <3>1 DEF Ordered, Request
        <5>2. reqs'[k].page = reqs[k].page
          BY <1>0, <2>6, ServedAt
        <5> QED  BY <5>1, <5>2
      <4> QED  BY <3>1, <4>1, <4>2 DEF Lost, Renaming
    <3>4. CASE reqs[k].op = "setName" /\ reqs[k].load # load
      <4>1. ASSUME NEW t \in DOMAIN reqs, Asked(t)
            PROVE  FALSE
        <5>1. t <= k
          BY <2>0, <3>1, <3>4, <4>1, OneAsked DEF Asked, Names
        <5>2. t # k
          BY <3>4, <4>1 DEF Asked
        <5>3. t < k
          BY <1>0, <5>1, <5>2
        <5>4. reqs[t].load <= reqs[k].load /\ reqs[k].load <= load /\ reqs[t].load = load
          BY <4>1, <5>3 DEF Ordered, Asked
        <5>5. reqs[k].load \in Nat /\ load \in Nat
          BY <1>0 DEF Request, PageTypeOK
        <5> QED  BY <3>4, <5>4, <5>5
      <4> QED  BY <3>1, <4>1 DEF NameShown
    <3> QED  BY <3>2, <3>3, <3>4
  <2>7. ASSUME NEW k \in DOMAIN reqs, Refuse(k)
        PROVE  ~holder' \/ Lost' \/ Renaming' \/ panel'["name"] = node'.name
    <3>1. UNCHANGED <<load, holder, node, panel>> /\ reqs[k].node = "open"
      BY <2>7 DEF Refuse, userVars, shownVars, infoVars, nodeVars
    <3>2. \A j \in DOMAIN reqs : j # k => reqs'[j] = reqs[j]
      BY <1>0, <2>7, RefusedMoves
    <3> QED  BY <2>3, <3>1, <3>2
  <2>8. CASE RoutesLearned
    <3>1. UNCHANGED <<reqs, load, holder, panel>> /\ node' = [node EXCEPT !.routes = node.routes + 1]
      BY <2>8 DEF RoutesLearned, userVars, shownVars, infoVars
    <3>2. node'.name = node.name
      BY <1>0, <3>1 DEF PageTypeOK
    <3>3. 0 \notin DOMAIN reqs
      BY <1>0 DEF PageTypeOK
    <3> QED  BY <2>1, <2>3, <3>1, <3>2, <3>3
  <2>9. CASE Reload
    BY <2>1, <2>9 DEF Reload
  <2> QED  BY <2>1, <2>4, <2>5, <2>6, <2>7, <2>8, <2>9, StepKinds
<1> QED  BY <1>2, <1>3 DEF NameShown

-----------------------------------------------------------------------------
(* What is shown is not outdated                                           *)

\* A topic that is settled leaves what was counted on display.
LEMMA CountedFresh ==
    ASSUME TypeOK, Ordered, NEW a \in {"table", "catalog"}, Counted(a), Settled({a})
    PROVE  UpToDate(a, Changes(a))
<1> SUFFICES ASSUME NEW i \in DOMAIN reqs, reqs[i].op \in Changes(a), reqs[i].load = load,
                    reqs[i].page = "ok"
             PROVE  panel[a] \in Nat /\ panel[a] >= reqs[i].reply
  BY DEF UpToDate
<1>1. PICK t \in DOMAIN reqs :
          /\ reqs[t].op = a /\ reqs[t].load = reqs[i].load
          /\ reqs[t].node = "ok" => reqs[t].reply >= reqs[i].reply
  BY DEF Counted
<1>2. AllAlone({a})
  BY DEF Settled, AllAlone
<1>3. reqs[t].page \in {"ok", "refused"}
  BY <1>1 DEF Settled
<1>4. reqs[t].page = "ok" /\ reqs[t].node = "ok"
  BY <1>1, <1>3 DEF Ordered, Certain
<1>5. panel[a] \in Nat /\ panel[a] >= reqs[t].reply
  BY <1>1, <1>2, <1>4 DEF Counted
<1>6. reqs[t].reply \in Nat /\ reqs[i].reply \in Nat
  <2>1. reqs[i].node = "ok"
    BY DEF Ordered
  <2> QED  BY <1>1, <1>4, <2>1 DEF Counted
<1> QED  BY <1>1, <1>4, <1>5, <1>6

LEMMA NameFresh ==
    ASSUME TypeOK, Ordered, NameShown, holder, Settled(Names)
    PROVE  panel["name"] = node.name
<1>1. AllAlone(Names)
  BY DEF Settled, AllAlone
<1>2. ~Lost /\ ~Renaming
  BY DEF Settled, Lost, Renaming, Asked
<1> QED  BY <1>1, <1>2 DEF NameShown

\* The page shows the name of its peer, a table and a catalog with all that was entered on
\* it, and no text for users to come when no search is under way; but for answers that may
\* have overtaken each other.
THEOREM NothingOutdated == Spec => []Fresh
<1>1. Init => PanelInv
  <2> SUFFICES ASSUME Init PROVE PanelInv
    OBVIOUS
  <2>1. reqs = << >> /\ DOMAIN reqs = {} /\ holder = FALSE /\ panel["users"] = None
    BY DEF Init, PageInit, NothingShown, Area
  <2> QED
    BY <2>1, PageAssumption
    DEF PanelInv, Ordered, Counted, NameShown, Telling, UsersShown
<1>2. TypeOK /\ TypeOK' /\ PanelInv /\ [Next]_vars => PanelInv'
  <2>1. CASE TypeOK /\ TypeOK' /\ PanelInv /\ Next
    BY <2>1, OrderedStep, CountedStep, NameStep, UsersStep DEF PanelInv
  <2>2. CASE PanelInv /\ UNCHANGED vars
    BY <2>2, Stuttered
    DEF PanelInv, Ordered, Counted, Count, AllAlone, NameShown, Telling, Lost, Renaming, Asked,
        UsersShown, pageVars, userVars, shownVars, infoVars, nodeVars
  <2> QED  BY <2>1, <2>2
<1>3. TypeOK /\ PanelInv => Fresh
  <2> SUFFICES ASSUME TypeOK, PanelInv PROVE Fresh
    OBVIOUS
  <2>1. holder /\ Settled({"myName", "setName"}) => panel["name"] = node.name
    BY NameFresh DEF PanelInv, Names
  <2>2. Settled({"table"}) => UpToDate("table", {"addPeer", "setEntry"})
    BY CountedFresh DEF PanelInv, Changes
  <2>3. Settled({"catalog"}) => UpToDate("catalog", {"addEntry"})
    BY CountedFresh DEF PanelInv, Changes
  <2> QED  BY <2>1, <2>2, <2>3 DEF PanelInv, UsersShown, Fresh
<1> QED  BY <1>1, <1>2, <1>3, TypeCorrect, PTL DEF Spec

=============================================================================
