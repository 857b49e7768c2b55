------------------------------ MODULE PageForms ------------------------------
(***************************************************************************)
(* The controllers of main.js that send what a user typed and show what    *)
(* comes back.  One action for the click, up to the request, and one for   *)
(* what the handler does when the request is over, how it ended.           *)
(***************************************************************************)
EXTENDS Page

\* A form: all inputs are filled, and what they hold is sent.
Submit(s, op) ==
    /\ Ready(s) /\ typed # Blank
    /\ Send(op, typed)
    /\ UNCHANGED shownVars

\* The same, and a text in the area stands for the result.
SubmitWaiting(s, op, area) ==
    /\ Ready(s) /\ typed # Blank
    /\ Send(op, typed)
    /\ Shown(area, Searching) /\ UNCHANGED <<flash, sent>>

Success(i) == Flashed("success", i)

\* Mutant: the error is caught and not shown.
ErrorUnseen(i) == flash' = flash

Error(i) == Flashed("error", i)

\* Handlers that enter a message in a list, or show an error.
ListOrError(i, how) ==
    /\ IF Ok(how) THEN Listed(i) /\ flash' = flash ELSE Error(i) /\ sent' = sent
    /\ Rest /\ UNCHANGED panel

\* Handlers that show a success or an error.
FlashOnly(i, how) ==
    /\ IF Ok(how) THEN Success(i) ELSE Error(i)
    /\ Rest /\ UNCHANGED <<sent, panel>>

\* Handlers that also put the result x in an area.
ResultOrError(i, how, area, x) ==
    /\ IF Ok(how) THEN Success(i) /\ Shown(area, x) ELSE Error(i) /\ panel' = panel
    /\ Rest /\ UNCHANGED sent

-----------------------------------------------------------------------------
(* Messages and friend requests                                             *)

UnicastSend == Submit("unicast", "unicast")
UnicastDone(i, how) == Ends(i, "unicast", how) /\ ListOrError(i, how)

EncryptedMessageSend == Submit("encryptedMessage", "encrypted")
EncryptedMessageDone(i, how) == Ends(i, "encrypted", how) /\ ListOrError(i, how)

FriendRequestSend == Submit("friendRequest", "friendRequest")
FriendRequestDone(i, how) == Ends(i, "friendRequest", how) /\ ListOrError(i, how)

\* A post enters the list of posts even when the peer has not taken it.
PostFriendsSend == Submit("postFriends", "post")
PostFriendsDone(i, how) ==
    /\ Ends(i, "post", how) /\ Listed(i)
    /\ IF Ok(how) THEN Success(i) ELSE Error(i)
    /\ Rest /\ UNCHANGED panel

SendChat == Submit("broadcast", "broadcast")
SendChatDone(i, how) == Ends(i, "broadcast", how) /\ FlashOnly(i, how)

SendPrivate == Submit("broadcast", "private")
SendPrivateDone(i, how) == Ends(i, "private", how) /\ FlashOnly(i, how)

-----------------------------------------------------------------------------
(* The routing table                                                        *)

RoutingInitialize == Connected("routing") /\ reqs' = Append(reqs, NewRequest("table", Blank))

\* update: the table, then in any case the graph.
RoutingUpdate == Ready("routing") /\ Send("table", Blank) /\ UNCHANGED shownVars
TableDone(i, how) ==
    /\ EndsThenAsks(i, "table", how, "graph")
    /\ ResultOrError(i, how, "table", reqs[i].reply)

\* The graph may fail to be drawn.
GraphDone(i, how) ==
    /\ Ends(i, "graph", how)
    /\ \/ Ok(how) /\ Shown("graph", reqs[i].reply) /\ flash' = flash
       \/ Error(i) /\ panel' = panel
    /\ Rest /\ UNCHANGED sent

\* Mutant: the table is not asked for again.
UpdateForgotten(i, op, how) == Ends(i, op, how) /\ FlashOnly(i, how)

\* addPeer and setEntry: once the peer has taken it, the table is asked for again.
UpdateAfter(i, op, how) ==
    /\ IF Ok(how) THEN EndsThenAsks(i, op, how, "table") ELSE Ends(i, op, how)
    /\ FlashOnly(i, how)

AddPeer == Submit("routing", "addPeer")
AddPeerDone(i, how) == UpdateAfter(i, "addPeer", how)

\* The relay may be empty, which deletes the entry; the origin may not.
SetEntry == Submit("routing", "setEntry")
SetEntryDone(i, how) == UpdateAfter(i, "setEntry", how)

-----------------------------------------------------------------------------
(* The catalog and data                                                     *)

CatalogInitialize == Connected("catalog") /\ reqs' = Append(reqs, NewRequest("catalog", Blank))
CatalogUpdate == Ready("catalog") /\ Send("catalog", Blank) /\ UNCHANGED shownVars

\* Nothing is flashed for an empty catalog.
CatalogDone(i, how) ==
    /\ Ends(i, "catalog", how)
    /\ IF Ok(how) THEN Shown("catalog", reqs[i].reply) ELSE panel' = panel
    /\ IF ~Ok(how) THEN Error(i)
       ELSE IF reqs[i].reply = 0 THEN flash' = flash ELSE Success(i)
    /\ Rest /\ UNCHANGED sent

CatalogAdd == Submit("catalog", "addEntry")
CatalogAddDone(i, how) ==
    /\ IF Ok(how) THEN EndsThenAsks(i, "addEntry", how, "catalog") /\ flash' = flash
                  ELSE Ends(i, "addEntry", how) /\ Error(i)
    /\ Rest /\ UNCHANGED <<sent, panel>>

\* The progress of reading the file is flashed before the file is sent.
Upload ==
    /\ Ready("dataSharing") /\ typed # Blank
    /\ Send("upload", typed)
    /\ Flashed("progress", Len(reqs) + 1) /\ UNCHANGED <<sent, panel>>
UploadDone(i, how) == Ends(i, "upload", how) /\ ResultOrError(i, how, "uploaded", reqs[i].val)

\* triggerDownload saves what came under the hash that was asked for.
Download == Submit("dataSharing", "download")
DownloadDone(i, how) == Ends(i, "download", how) /\ ResultOrError(i, how, "saved", reqs[i].val)

\* Exactly one file must be chosen.
AvatarUpload == Submit("avatar", "uploadAvatar")
AvatarUploadDone(i, how) ==
    /\ Ends(i, "uploadAvatar", how)
    /\ IF Ok(how) THEN Shown("avatarUploaded", reqs[i].val) /\ flash' = flash
                  ELSE Error(i) /\ panel' = panel
    /\ Rest /\ UNCHANGED sent

-----------------------------------------------------------------------------
(* Searches and names of files                                              *)

\* After an error the text that stands for the result stays.
SearchAll == SubmitWaiting("search", "searchAll", "searchAll")
SearchAllDone(i, how) ==
    Ends(i, "searchAll", how) /\ ResultOrError(i, how, "searchAll", reqs[i].reply)

SearchFirst == SubmitWaiting("search", "searchFirst", "searchFirst")
SearchFirstDone(i, how) ==
    Ends(i, "searchFirst", how) /\ ResultOrError(i, how, "searchFirst", reqs[i].reply)

\* resolve does not return when the input is empty: it shows the error and asks.
Resolve ==
    /\ Ready("naming") /\ Send("resolve", typed)
    /\ IF typed = Blank THEN Flashed("form", 0) ELSE flash' = flash
    /\ UNCHANGED <<sent, panel>>
ResolveDone(i, how) == Ends(i, "resolve", how) /\ ResultOrError(i, how, "resolved", reqs[i].reply)

Tag == Submit("naming", "tag")
TagDone(i, how) == Ends(i, "tag", how) /\ FlashOnly(i, how)

-----------------------------------------------------------------------------
(* User names                                                               *)

\* Without a place to show the name the handler throws, and says that setup failed.
Setup == Submit("username", "setName")
SetupDone(i, how) ==
    /\ Ends(i, "setName", how)
    /\ IF Ok(how) /\ holder THEN Success(i) /\ Shown("name", reqs[i].val)
                            ELSE Error(i) /\ panel' = panel
    /\ Rest /\ UNCHANGED sent

\* The results take the place of the earlier ones, and of the avatars beside them.
SearchUsername ==
    /\ Ready("username") /\ typed # Blank
    /\ Send("searchNames", typed)
    /\ panel' = [panel EXCEPT !["users"] = Searching, !["picture"] = None]
    /\ UNCHANGED <<flash, sent>>
SearchUsernameDone(i, how) ==
    /\ Ends(i, "searchNames", how)
    /\ panel' = [panel EXCEPT !["users"] = IF Ok(how) THEN reqs[i].reply ELSE None,
                              !["picture"] = None]
    /\ IF Ok(how) THEN Success(i) ELSE Error(i)
    /\ Rest /\ UNCHANGED sent

\* The buttons beside the user in the first row of the results.
Beside(op) ==
    /\ Ready("username") /\ panel["users"] \in Value
    /\ Send(op, panel["users"])
    /\ UNCHANGED shownVars

\* The avatar goes to the row by its number, whoever is in it now.
ViewAvatar == Beside("viewAvatar")
ViewAvatarDone(i, how) ==
    /\ Ends(i, "viewAvatar", how)
    /\ IF Ok(how) /\ panel["users"] \in Value THEN Shown("picture", reqs[i].val)
                                              ELSE panel' = panel
    /\ Rest /\ UNCHANGED <<flash, sent>>

\* A plain fetch: any status counts as sent, and an error is not shown.
AddFriend == Beside("addFriend")
AddFriendDone(i, how) ==
    /\ Ends(i, "addFriend", how)
    /\ IF how = "failed" THEN sent' = sent ELSE Listed(i)
    /\ Rest /\ UNCHANGED <<flash, panel>>

-----------------------------------------------------------------------------
FormsInitialize == PeerInfoInitialize \/ RoutingInitialize \/ CatalogInitialize

FormsClick ==
    \/ UnicastSend \/ EncryptedMessageSend \/ FriendRequestSend \/ PostFriendsSend
    \/ SendChat \/ SendPrivate
    \/ RoutingUpdate \/ AddPeer \/ SetEntry
    \/ CatalogUpdate \/ CatalogAdd \/ Upload \/ Download \/ AvatarUpload
    \/ SearchAll \/ SearchFirst \/ Resolve \/ Tag
    \/ Setup \/ SearchUsername \/ ViewAvatar \/ AddFriend
    \/ \E s \in sections \ {"peerInfo", "packets", "postsFriend"} : InputMissing(s)

FormsDone(i, how) ==
    \/ PeerInfoDone(i, how)
    \/ UnicastDone(i, how) \/ EncryptedMessageDone(i, how) \/ FriendRequestDone(i, how)
    \/ PostFriendsDone(i, how) \/ SendChatDone(i, how) \/ SendPrivateDone(i, how)
    \/ TableDone(i, how) \/ GraphDone(i, how) \/ AddPeerDone(i, how) \/ SetEntryDone(i, how)
    \/ CatalogDone(i, how) \/ CatalogAddDone(i, how)
    \/ UploadDone(i, how) \/ DownloadDone(i, how) \/ AvatarUploadDone(i, how)
    \/ SearchAllDone(i, how) \/ SearchFirstDone(i, how)
    \/ ResolveDone(i, how) \/ TagDone(i, how)
    \/ SetupDone(i, how) \/ SearchUsernameDone(i, how)
    \/ ViewAvatarDone(i, how) \/ AddFriendDone(i, how)

=============================================================================
