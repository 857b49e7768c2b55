------------------------------- MODULE MCWebPage -------------------------------
(***************************************************************************)
(* Pages of one or two sections each, a peer with few packets, and a user  *)
(* with few clicks.                                                        *)
(***************************************************************************)
EXTENDS WebPage

CONSTANTS v1, v2, p1, p2

Bounded(secs, vals, c, l) == [sections |-> secs, inputs |-> vals, clicks |-> c, loads |-> l]

MCPages == {
    Bounded({"friendRequest"}, {v1, v2}, 2, 2),
    Bounded({"unicast", "encryptedMessage"}, {v1}, 2, 1),
    Bounded({"postFriends", "broadcast"}, {v1}, 2, 1),
    Bounded({"routing"}, {v1}, 1, 1),
    Bounded({"catalog"}, {v1}, 2, 1),
    Bounded({"dataSharing", "avatar"}, {v1}, 2, 1),
    Bounded({"search", "naming"}, {v1}, 2, 1),
    Bounded({"peerInfo", "username"}, {v1}, 1, 1),
    Bounded({"username"}, {v1}, 2, 1),
    Bounded({"peerInfo", "packets"}, {}, 0, 1),
    Bounded({"packets", "postsFriend"}, {v1}, 1, 2)}

\* A friend request of another peer, and a chat message of its own.
MCKind == [p \in Packet |-> IF p = p1 THEN "friendRequest" ELSE "chat"]
MCFrom == [p \in Packet |-> IF p = p1 THEN v2 ELSE v1]

=============================================================================
