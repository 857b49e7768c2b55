----------------------------- MODULE MCCatchUp -----------------------------
(***************************************************************************)
(* ExecTLCMessage alone: TLC messages for three steps reach the node n3    *)
(* from two peers, out of order, repeated or missing, as the test          *)
(* Test_Username_TLC_Catchup sends them from a bare socket.                *)
(***************************************************************************)
EXTENDS Consensus, TLC

CONSTANTS n1, n2, n3, c1, a, b, c

Ids == n1 :> 1 @@ n2 :> 2 @@ n3 :> 3
File == c1 :> "file"
OnNode == c1 :> n3
Asks == c1 :> a

MaxQueue == 3       \* bound: messages each peer has sent

\* The values of the test, in linked blocks: a user takes a, a file is tagged b
\* and the user renames a to c.
TestValue(s) ==
    [uid |-> <<c1, s + 1>>,
     kind |-> IF s = 1 THEN "file" ELSE "user",
     old |-> IF s = 2 THEN a ELSE None,
     name |-> CASE s = 0 -> a [] s = 1 -> b [] OTHER -> c,
     meta |-> IF s = 1 THEN c1 ELSE n1]
TestHash[s \in 0 .. MaxStep] ==
    IF s = 0 THEN ZeroHash ELSE Append(TestHash[s - 1], TestValue(s - 1).uid)
TestTLC(o, s) ==
    [type |-> "tlc", src |-> o, step |-> s,
     block |-> [index |-> s, value |-> TestValue(s), prev |-> TestHash[s]]]

Queues == UNION {[1 .. k -> 0 .. MaxStep - 1] : k \in 0 .. MaxQueue}

CatchUpInit ==
    \E q1, q2 \in Queues :
        LET sent(o, q) == [i \in DOMAIN q |-> TestTLC(o, q[i])] IN
        /\ net = [o \in Node |-> [d \in Node |->
                    CASE o = n1 /\ d = n3 -> sent(n1, q1)
                      [] o = n2 /\ d = n3 -> sent(n2, q2)
                      [] OTHER -> << >>]]
        /\ rumors = [o \in Node |-> {net[o][n3][i] : i \in DOMAIN net[o][n3]}]
        /\ InitButRumors

CatchUpNext == \E o \in {n1, n2} : Receive(o, n3)

CatchUpSpec == CatchUpInit /\ [][CatchUpNext]_vars

=============================================================================
