---------------------------- MODULE GossipProofs ----------------------------
(***************************************************************************)
(* Theorems about module Gossip, for any peers, quotas and network.  Their *)
(* heart is that every rumor in flight is a copy of one in the log of its  *)
(* origin (FlightCopied): a rumor is taken only with the next number, so   *)
(* that every step of the log is a step of a reliable broadcast.           *)
(***************************************************************************)
EXTENDS Gossip, FiniteSetTheorems, TLAPS

LogType == log \in [Node -> [Node -> Seq(Payload)]]

\* The rumors of a segment are those its origin logged under their numbers.
Copied(s) ==
    /\ s.first + Len(s.msgs) - 1 <= Len(log[s.origin][s.origin])
    /\ \A j \in DOMAIN s.msgs : s.msgs[j] = log[s.origin][s.origin][s.first + j - 1]

CopiedPacket(p) == p.type = "rumors" => \A k \in DOMAIN p.rumors : Copied(p.rumors[k])

FlightCopied == \A p \in flight : CopiedPacket(p)

\* Every rumor of a peer has its call.
Numbered == \A n \in Node : Len(calls[n]) = Len(log[n][n])

Inv == TypeOK /\ Numbered /\ LogPrefix /\ FlightCopied

-----------------------------------------------------------------------------
(* Steps of the broadcast                                                  *)

\* The log keeps its type.
LEMMA LogTypeKept ==
    ASSUME LogType, [B!Next]_log
    PROVE  LogType'
<1>1. CASE UNCHANGED log
  BY <1>1 DEF LogType
<1>2. ASSUME NEW o \in Node, B!Broadcast(o)
      PROVE  LogType'
  BY <1>2 DEF LogType, B!Broadcast
<1>3. ASSUME NEW o \in Node, NEW d \in Node, B!Deliver(o, d)
      PROVE  LogType'
  <2>1. log[o][o] \in Seq(Payload) /\ log[d][o] \in Seq(Payload)
    BY DEF LogType
  <2>2. log[o][o][Len(log[d][o]) + 1] \in Payload
    BY <1>3, <2>1 DEF B!Deliver
  <2>3. Append(log[d][o], log[o][o][Len(log[d][o]) + 1]) \in Seq(Payload)
    BY <2>1, <2>2
  <2>. QED
    BY <1>3, <2>3 DEF LogType, B!Deliver
<1>. QED
  BY <1>1, <1>2, <1>3 DEF B!Next

\* The log of an origin only grows at its end, and every other log by the rumor
\* that is next.
LEMMA OriginGrows ==
    ASSUME LogType, [B!Next]_log, NEW o \in Node
    PROVE  /\ Len(log[o][o]) <= Len(log'[o][o])
           /\ \A j \in DOMAIN log[o][o] : log'[o][o][j] = log[o][o][j]
<1>. USE DEF LogType
<1>0. log[o][o] \in Seq(Payload)
  OBVIOUS
<1>1. CASE UNCHANGED log
  BY <1>0, <1>1
<1>2. ASSUME NEW q \in Node, B!Broadcast(q)
      PROVE  /\ Len(log[o][o]) <= Len(log'[o][o])
             /\ \A j \in DOMAIN log[o][o] : log'[o][o][j] = log[o][o][j]
  <2>1. PICK m \in Payload : log' = [log EXCEPT ![q][q] = Append(@, m)]
    BY <1>2 DEF B!Broadcast
  <2>2. CASE q = o
    <3>1. log'[o][o] = Append(log[o][o], m)
      BY <2>1, <2>2
    <3>. QED
      BY <1>0, <3>1
  <2>3. CASE q # o
    BY <1>0, <2>1, <2>3
  <2>. QED
    BY <2>2, <2>3
<1>3. ASSUME NEW q \in Node, NEW d \in Node, B!Deliver(q, d)
      PROVE  log'[o][o] = log[o][o]
  BY <1>3 DEF B!Deliver
<1>. QED
  BY <1>0, <1>1, <1>2, <1>3 DEF B!Next

LEMMA PrefixKept ==
    ASSUME LogType, LogPrefix, [B!Next]_log
    PROVE  LogPrefix'
<1>. USE DEF LogType
<1>. SUFFICES ASSUME NEW n \in Node, NEW o \in Node
              PROVE  /\ Len(log'[n][o]) <= Len(log'[o][o])
                     /\ \A j \in DOMAIN log'[n][o] : log'[n][o][j] = log'[o][o][j]
  BY DEF LogPrefix
<1>1. /\ log[n][o] \in Seq(Payload) /\ log[o][o] \in Seq(Payload)
      /\ log'[n][o] \in Seq(Payload) /\ log'[o][o] \in Seq(Payload)
  BY LogTypeKept
<1>2. /\ Len(log[n][o]) <= Len(log[o][o])
      /\ \A j \in DOMAIN log[n][o] : log[n][o][j] = log[o][o][j]
  BY DEF LogPrefix
<1>3. /\ Len(log[o][o]) <= Len(log'[o][o])
      /\ \A j \in DOMAIN log[o][o] : log'[o][o][j] = log[o][o][j]
  BY OriginGrows
<1>4. CASE log'[n][o] = log[n][o]
  BY <1>1, <1>2, <1>3, <1>4
<1>5. CASE n = o
  BY <1>1, <1>5
<1>6. ASSUME n # o, B!Deliver(o, n)
      PROVE  /\ Len(log'[n][o]) <= Len(log'[o][o])
             /\ \A j \in DOMAIN log'[n][o] : log'[n][o][j] = log'[o][o][j]
  <2>1. log'[n][o] = Append(log[n][o], log[o][o][Len(log[n][o]) + 1])
    BY <1>6 DEF B!Deliver
  <2>2. Len(log[n][o]) < Len(log[o][o]) /\ log'[o][o] = log[o][o]
    BY <1>6 DEF B!Deliver
  <2>. QED
    BY <1>1, <1>2, <2>1, <2>2
<1>7. n # o /\ ~B!Deliver(o, n) => log'[n][o] = log[n][o]
  <2>1. CASE UNCHANGED log
    BY <2>1
  <2>2. ASSUME NEW q \in Node, B!Broadcast(q), n # o
        PROVE  log'[n][o] = log[n][o]
    BY <2>2 DEF B!Broadcast
  <2>3. ASSUME NEW q \in Node, NEW d \in Node, B!Deliver(q, d), <<q, d>> # <<o, n>>
        PROVE  log'[n][o] = log[n][o]
    BY <2>3 DEF B!Deliver
  <2>. QED
    BY <2>1, <2>2, <2>3 DEF B!Next
<1>. QED
  BY <1>4, <1>5, <1>6, <1>7

LEMMA CopiedKept ==
    ASSUME LogType, [B!Next]_log, NEW s \in Segment, Copied(s)
    PROVE  Copied(s)'
<1>1. s.origin \in Node /\ s.first \in Nat \ {0} /\ s.msgs \in Seq(Payload)
  BY DEF Segment
<1>2. /\ Len(log[s.origin][s.origin]) <= Len(log'[s.origin][s.origin])
      /\ \A j \in DOMAIN log[s.origin][s.origin] :
             log'[s.origin][s.origin][j] = log[s.origin][s.origin][j]
  BY <1>1, OriginGrows
<1>3. log[s.origin][s.origin] \in Seq(Payload) /\ log'[s.origin][s.origin] \in Seq(Payload)
  BY <1>1, LogTypeKept DEF LogType
<1>4. /\ s.first + Len(s.msgs) - 1 <= Len(log[s.origin][s.origin])
      /\ \A j \in DOMAIN s.msgs : s.msgs[j] = log[s.origin][s.origin][s.first + j - 1]
  BY DEF Copied
<1>. DEFINE L == log[s.origin][s.origin]
            M == log'[s.origin][s.origin]
<1>5. L \in Seq(Payload) /\ M \in Seq(Payload) /\ Len(L) <= Len(M)
      /\ \A j \in DOMAIN L : M[j] = L[j]
  BY <1>2, <1>3
<1>6. s.first + Len(s.msgs) - 1 <= Len(L) /\ \A j \in DOMAIN s.msgs : s.msgs[j] = L[s.first + j - 1]
  BY <1>4
<1>. HIDE DEF L, M
<1>7. /\ s.first + Len(s.msgs) - 1 <= Len(M)
      /\ \A j \in DOMAIN s.msgs : s.msgs[j] = M[s.first + j - 1]
  <2>1. Len(s.msgs) \in Nat /\ DOMAIN s.msgs = 1 .. Len(s.msgs) /\ DOMAIN L = 1 .. Len(L)
        /\ Len(L) \in Nat /\ Len(M) \in Nat
    BY <1>1, <1>5
  <2>2. ASSUME NEW j \in DOMAIN s.msgs
        PROVE  s.first + j - 1 \in DOMAIN L
    BY <1>1, <1>6, <2>1
  <2>. QED
    BY <1>1, <1>5, <1>6, <2>1, <2>2
<1>. QED
  BY <1>7 DEF L, M, Copied

-----------------------------------------------------------------------------
(* Packets                                                                 *)

Good(p) == p \in Packet /\ CopiedPacket(p)

\* A packet stays good: the log of its origin only grows.
LEMMA GoodKept ==
    ASSUME LogType, [B!Next]_log, NEW p, Good(p)
    PROVE  Good(p)'
<1>1. SUFFICES ASSUME p.type = "rumors", NEW k \in DOMAIN p.rumors
               PROVE  Copied(p.rumors[k])'
  BY DEF Good, CopiedPacket, Packet, RumorsMessage, AckMessage, StatusMessage, Status, Segment,
         Payload
<1>2. p \in RumorsMessage
  BY <1>1 DEF Good, Packet, AckMessage, StatusMessage
<1>3. p.rumors[k] \in Segment
  BY <1>1, <1>2 DEF RumorsMessage
<1>4. Copied(p.rumors[k])
  BY <1>1 DEF Good, CopiedPacket
<1>. QED
  BY <1>3, <1>4, CopiedKept

\* What a step sends has only to be good when it is sent.
LEMMA FlightKept ==
    ASSUME LogType, flight \in SUBSET Packet, FlightCopied, [B!Next]_log,
           \A p \in flight' : p \in flight \/ Good(p)
    PROVE  flight' \in SUBSET Packet /\ FlightCopied'
<1>1. ASSUME NEW p \in flight'
      PROVE  Good(p)'
  <2>1. Good(p)
    BY DEF Good, FlightCopied
  <2>. QED
    BY <2>1, GoodKept
<1>. QED
  BY <1>1 DEF Good, FlightCopied, Packet, RumorsMessage, AckMessage, StatusMessage

LEMMA OwnRumorGood ==
    ASSUME LogType, NEW n \in Node, NEW i \in DOMAIN log[n][n], NEW d \in Node, NEW id \in Nat
    PROVE  Good(OwnRumor(n, i, d, id))
<1>. DEFINE s == [origin |-> n, first |-> i, msgs |-> <<log[n][n][i]>>]
<1>1. log[n][n] \in Seq(Payload) /\ i \in Nat \ {0} /\ i <= Len(log[n][n])
  BY DEF LogType
<1>2. log[n][n][i] \in Payload
  BY <1>1
<1>3. s \in Segment /\ Copied(s)
  BY <1>1, <1>2 DEF Segment, Copied
<1>. HIDE DEF s
<1>4. OwnRumor(n, i, d, id) = [type |-> "rumors", src |-> n, dst |-> d, id |-> id, rumors |-> <<s>>]
  BY DEF s, OwnRumor
<1>. QED
  BY <1>3, <1>4 DEF Good, CopiedPacket, Packet, RumorsMessage

LEMMA StatusGood ==
    ASSUME LogType, NEW n \in Node, NEW d \in Node
    PROVE  Good([type |-> "status", src |-> n, dst |-> d,
                 status |-> [o \in Node |-> Len(log[n][o])]])
BY DEF LogType, Good, CopiedPacket, Packet, StatusMessage, Status

\* The rumors a peer sends are those of the origins.
LEMMA MissingCopied ==
    ASSUME LogType, LogPrefix, NEW n \in Node, NEW o \in Node, NEW s \in Status,
           Len(log[n][o]) > s[o]
    PROVE  Missing(n, o, s) \in Segment /\ Copied(Missing(n, o, s))
<1>. DEFINE L == log[n][o]
            M == log[o][o]
            f == s[o]
            T == SubSeq(L, f + 1, Len(L))
<1>1. L \in Seq(Payload) /\ M \in Seq(Payload) /\ f \in Nat /\ f < Len(L)
  BY DEF LogType, Status
<1>2. Len(L) <= Len(M) /\ \A j \in DOMAIN L : L[j] = M[j]
  BY DEF LogPrefix
<1>3. Missing(n, o, s) = [origin |-> o, first |-> f + 1, msgs |-> T]
  BY DEF Missing
<1>. HIDE DEF L, M, f
<1>4. T \in Seq(Payload) /\ Len(T) = Len(L) - f
  BY <1>1
<1>5. \A j \in 1 .. Len(T) : T[j] = L[f + j]
  BY <1>1
<1>6. \A j \in DOMAIN T : T[j] = M[(f + 1) + j - 1]
  BY <1>1, <1>2, <1>4, <1>5
<1>. HIDE DEF T
<1>7. (f + 1) + Len(T) - 1 <= Len(M)
  <2>1. Len(L) \in Nat /\ Len(M) \in Nat /\ Len(T) \in Nat
    BY <1>1, <1>4
  <2>. QED
    BY <1>1, <1>2, <1>4, <2>1
<1>. QED
  BY <1>1, <1>3, <1>4, <1>6, <1>7 DEF Segment, Copied, M

-----------------------------------------------------------------------------
(* The steps                                                               *)

\* What every step keeps, and what it may do to the log.
Kept == TypeOK' /\ Numbered' /\ FlightCopied' /\ [B!Next]_log

LEMMA BroadcastStep ==
    ASSUME Inv, NEW n \in Node, NEW kind \in Kind, Broadcast(n, kind)
    PROVE  Kept
<1>. DEFINE i == Len(log[n][n]) + 1
<1>1. LogType /\ flight \in SUBSET Packet /\ FlightCopied /\ Numbered /\ TypeOK
  BY DEF Inv, TypeOK, LogType
<1>2. i \in Nat \ {0} /\ i <= Quota[n] /\ Quota[n] \in Nat
  BY <1>1, BoundAssumption DEF Broadcast, LogType
<1>3. <<n, i>> \in Payload
  BY <1>2 DEF Payload
<1>4. log' = [log EXCEPT ![n][n] = Append(@, <<n, i>>)]
  BY DEF Broadcast
<1>5. B!Broadcast(n)
  BY <1>3, <1>4 DEF B!Broadcast
<1>6. [B!Next]_log
  BY <1>5 DEF B!Next
<1>7. LogType'
  BY <1>1, <1>6, LogTypeKept
<1>8. flight' = flight /\ handled' = handled /\ neighbours' = neighbours /\ route' = route
  BY DEF Broadcast, tables
<1>9. FlightCopied'
  BY <1>1, <1>6, <1>8, FlightKept
<1>10. PICK d \in Node \cup {None} :
           calls' = [calls EXCEPT ![n] = Append(@, [kind |-> kind, to |-> d, stage |-> "logged"])]
  BY <1>1 DEF Broadcast, Choices, TypeOK
<1>11. calls' \in [Node -> Seq(Call)]
  <2>1. [kind |-> kind, to |-> d, stage |-> "logged"] \in Call
    BY DEF Call
  <2>2. Append(calls[n], [kind |-> kind, to |-> d, stage |-> "logged"]) \in Seq(Call)
    BY <1>1, <2>1 DEF TypeOK
  <2>. QED
    BY <1>1, <1>10, <2>2 DEF TypeOK
<1>12. Numbered'
  <2>1. SUFFICES ASSUME NEW m \in Node
                 PROVE  Len(calls'[m]) = Len(log'[m][m])
    BY DEF Numbered
  <2>2. Len(calls[m]) = Len(log[m][m]) /\ log[m][m] \in Seq(Payload)
    BY <1>1 DEF Numbered, LogType
  <2>3. CASE m = n
    <3>1. Len(log'[m][m]) = Len(log[m][m]) + 1
      BY <1>1, <1>3, <1>4, <2>2, <2>3 DEF LogType
    <3>2. Len(calls'[m]) = Len(calls[m]) + 1
      BY <1>1, <1>10, <2>3 DEF TypeOK
    <3>. QED
      BY <2>2, <3>1, <3>2
  <2>4. CASE m # n
    BY <1>1, <1>4, <1>10, <2>2, <2>4 DEF TypeOK, LogType
  <2>. QED
    BY <2>3, <2>4
<1>13. TypeOK'
  BY <1>1, <1>7, <1>8, <1>11 DEF TypeOK, LogType
<1>. QED
  BY <1>6, <1>9, <1>12, <1>13 DEF Kept

\* A step that leaves the log and sends good packets.
LEMMA QuietStep ==
    ASSUME Inv, UNCHANGED log, \A p \in flight' : p \in flight \/ Good(p)
    PROVE  flight' \in SUBSET Packet /\ FlightCopied' /\ [B!Next]_log
<1>1. LogType /\ flight \in SUBSET Packet /\ FlightCopied
  BY DEF Inv, TypeOK, LogType
<1>. QED
  BY <1>1, FlightKept

\* The stage of a call moves.
LEMMA StageMoves ==
    ASSUME Inv, UNCHANGED log, NEW n \in Node, NEW i \in DOMAIN calls[n],
           NEW stage \in {"logged", "sent", "waiting", "returned"},
           calls' = [calls EXCEPT ![n][i].stage = stage]
    PROVE  calls' \in [Node -> Seq(Call)] /\ Numbered'
<1>. DEFINE c == [calls[n][i] EXCEPT !.stage = stage]
<1>1. calls \in [Node -> Seq(Call)] /\ Numbered
  BY DEF Inv, TypeOK
<1>2. c \in Call
  <2>1. calls[n][i] \in Call
    BY <1>1
  <2>. QED
    BY <2>1 DEF Call
<1>3. calls' = [calls EXCEPT ![n] = [calls[n] EXCEPT ![i] = c]]
  BY <1>1
<1>. HIDE DEF c
<1>4. /\ [calls[n] EXCEPT ![i] = c] \in Seq(Call)
      /\ Len([calls[n] EXCEPT ![i] = c]) = Len(calls[n])
  BY <1>1, <1>2
<1>5. calls' \in [Node -> Seq(Call)]
  BY <1>1, <1>3, <1>4
<1>6. Numbered'
  BY <1>1, <1>3, <1>4 DEF Numbered
<1>. QED
  BY <1>5, <1>6

LEMMA CallNumber ==
    ASSUME Inv, NEW n \in Node, NEW i \in DOMAIN calls[n]
    PROVE  /\ i \in DOMAIN log[n][n] /\ i \in Nat \ {0}
           /\ calls[n][i] \in Call
BY DEF Inv, TypeOK, Numbered

LEMMA SendRumorStep ==
    ASSUME Inv, NEW n \in Node, NEW i \in DOMAIN calls[n], SendRumor(n, i)
    PROVE  Kept
<1>. DEFINE c == calls[n][i]
            q == OwnRumor(n, i, c.to, IF Acked(c.kind) THEN i ELSE 0)
<1>1. LogType /\ TypeOK /\ i \in DOMAIN log[n][n] /\ i \in Nat \ {0} /\ c.to \in Node \cup {None}
  BY CallNumber DEF Inv, TypeOK, LogType, Call
<1>2. flight' = flight \cup To(c.to, q)
  BY DEF SendRumor, Fly
<1>3. c.to # None => Good(q)
  BY <1>1, OwnRumorGood
<1>. HIDE DEF q
<1>4. flight' \in SUBSET Packet /\ FlightCopied' /\ [B!Next]_log
  BY <1>2, <1>3, QuietStep DEF To, SendRumor
<1>5. calls' \in [Node -> Seq(Call)] /\ Numbered'
  BY StageMoves DEF SendRumor
<1>6. TypeOK'
  BY <1>1, <1>4, <1>5 DEF TypeOK, SendRumor, tables
<1>. QED
  BY <1>4, <1>5, <1>6 DEF Kept

LEMMA SendFailsStep ==
    ASSUME Inv, NEW n \in Node, NEW i \in DOMAIN calls[n], SendFails(n, i)
    PROVE  Kept
<1>1. flight' \in SUBSET Packet /\ FlightCopied' /\ [B!Next]_log
  BY QuietStep DEF SendFails
<1>2. calls' \in [Node -> Seq(Call)] /\ Numbered'
  BY StageMoves DEF SendFails
<1>. QED
  BY <1>1, <1>2 DEF Kept, Inv, TypeOK, SendFails, tables

LEMMA ProcessOwnStep ==
    ASSUME Inv, NEW n \in Node, NEW i \in DOMAIN calls[n], ProcessOwn(n, i)
    PROVE  Kept
<1>1. flight' \in SUBSET Packet /\ FlightCopied' /\ [B!Next]_log
  BY QuietStep DEF ProcessOwn
<1>2. calls' \in [Node -> Seq(Call)] /\ Numbered'
  BY StageMoves DEF ProcessOwn
<1>3. handled' \in [Node -> SUBSET (Nat \ {0})]
  BY CallNumber DEF Inv, TypeOK, ProcessOwn
<1>. QED
  BY <1>1, <1>2, <1>3 DEF Kept, Inv, TypeOK, ProcessOwn, tables

LEMMA AckTimeoutStep ==
    ASSUME Inv, NEW n \in Node, NEW i \in DOMAIN calls[n], AckTimeout(n, i)
    PROVE  Kept
<1>1. LogType /\ TypeOK /\ i \in DOMAIN log[n][n]
  BY CallNumber DEF Inv, TypeOK, LogType
<1>2. PICK d \in Choices(neighbours[n], calls[n][i].to) :
          flight' = flight \cup To(d, OwnRumor(n, i, d, 0))
  BY DEF AckTimeout, Fly
<1>3. d # None => d \in Node
  BY <1>1, <1>2 DEF Choices, TypeOK
<1>4. d # None => Good(OwnRumor(n, i, d, 0))
  BY <1>1, <1>3, OwnRumorGood
<1>5. flight' \in SUBSET Packet /\ FlightCopied' /\ [B!Next]_log
  BY <1>2, <1>4, QuietStep DEF To, AckTimeout
<1>6. calls' \in [Node -> Seq(Call)] /\ Numbered'
  BY StageMoves DEF AckTimeout
<1>. QED
  BY <1>5, <1>6 DEF Kept, Inv, TypeOK, AckTimeout, tables

LEMMA AntiEntropyStep ==
    ASSUME Inv, NEW n \in Node, NEW d \in Node, AntiEntropy(n, d)
    PROVE  Kept
<1>1. LogType
  BY DEF Inv, TypeOK, LogType
<1>2. Good([type |-> "status", src |-> n, dst |-> d,
            status |-> [o \in Node |-> Len(log[n][o])]])
  BY <1>1, StatusGood
<1>3. flight' \in SUBSET Packet /\ FlightCopied' /\ [B!Next]_log
  BY <1>2, QuietStep DEF AntiEntropy, Fly
<1>. QED
  BY <1>3 DEF Kept, Inv, TypeOK, AntiEntropy, tables, Numbered

-----------------------------------------------------------------------------
(* The handlers                                                            *)

\* A segment in flight holds the next rumor of its origin: the one its origin
\* logged under that number.
LEMMA NextInCopied ==
    ASSUME LogType, NEW n \in Node, NEW s \in Segment, Copied(s), NewIn(n, s)
    PROVE  /\ Len(log[n][s.origin]) < Len(log[s.origin][s.origin])
           /\ NextIn(n, s) = log[s.origin][s.origin][Len(log[n][s.origin]) + 1]
<1>. DEFINE L == log[n][s.origin]
            M == log[s.origin][s.origin]
            i == Len(L) + 2 - s.first
<1>1. s.origin \in Node /\ s.first \in Nat \ {0} /\ s.msgs \in Seq(Payload)
  BY DEF Segment
<1>2. L \in Seq(Payload) /\ M \in Seq(Payload)
  BY <1>1 DEF LogType
<1>3. /\ s.first + Len(s.msgs) - 1 <= Len(M)
      /\ \A j \in DOMAIN s.msgs : s.msgs[j] = M[s.first + j - 1]
  BY DEF Copied
<1>4. s.first <= Len(L) + 1 /\ Len(L) + 1 < s.first + Len(s.msgs)
  BY DEF NewIn
<1>5. NextIn(n, s) = s.msgs[IF i \in DOMAIN s.msgs THEN i ELSE Len(s.msgs)]
  BY DEF NextIn
<1>. HIDE DEF L, M
<1>6. Len(L) \in Nat /\ Len(M) \in Nat /\ Len(s.msgs) \in Nat /\ DOMAIN s.msgs = 1 .. Len(s.msgs)
  BY <1>1, <1>2
<1>7. i \in DOMAIN s.msgs /\ s.first + i - 1 = Len(L) + 1
  BY <1>1, <1>4, <1>6
<1>8. NextIn(n, s) = M[Len(L) + 1] /\ Len(L) < Len(M)
  <2>1. NextIn(n, s) = s.msgs[i]
    BY <1>5, <1>7
  <2>2. s.msgs[i] = M[s.first + i - 1]
    BY <1>3, <1>7
  <2>3. Len(L) < Len(M)
    BY <1>1, <1>3, <1>4, <1>6
  <2>. QED
    BY <1>7, <2>1, <2>2, <2>3
<1>. QED
  BY <1>8 DEF L, M

LEMMA HandleRumorsStep ==
    ASSUME Inv, NEW n \in Node, NEW p \in flight, NEW rest \in SUBSET flight,
           HandleRumors(n, p, rest)
    PROVE  Kept
<1>. DEFINE New == {k \in DOMAIN p.rumors : NewIn(n, p.rumors[k])}
            ack == [type |-> "ack", src |-> n, dst |-> p.src, id |-> p.id, status |-> StatusOf(n)]
<1>1. LogType /\ TypeOK /\ FlightCopied /\ Numbered /\ LogPrefix
  BY DEF Inv, TypeOK, LogType
<1>2. p \in RumorsMessage
  BY <1>1 DEF TypeOK, Packet, AckMessage, StatusMessage, HandleRumors
<1>3. UNCHANGED <<calls, handled>> /\ neighbours' = [neighbours EXCEPT ![n] = @ \cup {p.src}]
  BY DEF HandleRumors
<1>4. neighbours' \in [Node -> SUBSET Node]
  BY <1>1, <1>2, <1>3 DEF TypeOK, RumorsMessage
<1>5. CASE UNCHANGED <<log, route>> /\ flight' = rest \cup {ack}
  <2>1. UNCHANGED <<log, route>> /\ flight' = rest \cup {ack}
    BY <1>5
  <2>2. StatusOf(n) \in Status
    BY <1>1, <2>1 DEF StatusOf, Status, LogType
  <2>3. Good(ack)
    BY <1>2, <2>2 DEF Good, CopiedPacket, Packet, AckMessage, RumorsMessage
  <2>. HIDE DEF ack
  <2>4. flight' \in SUBSET Packet /\ FlightCopied' /\ [B!Next]_log
    BY <2>1, <2>3, QuietStep
  <2>. QED
    BY <1>1, <1>3, <1>4, <2>1, <2>4 DEF Kept, TypeOK, Numbered
<1>6. ASSUME NEW k \in New,
             /\ log' = [log EXCEPT ![n][p.rumors[k].origin] = Append(@, NextIn(n, p.rumors[k]))]
             /\ route' = [route EXCEPT ![n][p.rumors[k].origin] = p.src]
             /\ \E d \in Choices(neighbours'[n], p.src) :
                    flight' = rest \cup {ack} \cup To(d, [p EXCEPT !.src = n, !.dst = d, !.id = 0])
      PROVE  Kept
  <2>. DEFINE s == p.rumors[k]
  <2>1. /\ log' = [log EXCEPT ![n][s.origin] = Append(@, NextIn(n, s))]
        /\ route' = [route EXCEPT ![n][s.origin] = p.src]
        /\ \E d \in Choices(neighbours'[n], p.src) :
               flight' = rest \cup {ack} \cup To(d, [p EXCEPT !.src = n, !.dst = d, !.id = 0])
    BY <1>6
  <2>3. s \in Segment /\ Copied(s) /\ NewIn(n, s)
    <3>1. k \in DOMAIN p.rumors /\ NewIn(n, s)
      OBVIOUS
    <3>2. s \in Segment
      BY <1>2, <3>1 DEF RumorsMessage
    <3>3. Copied(s)
      BY <1>1, <1>2, <3>1 DEF FlightCopied, CopiedPacket, RumorsMessage
    <3>. QED
      BY <3>1, <3>2, <3>3
  <2>. HIDE DEF s
  <2>4. s.origin \in Node
    BY <2>3 DEF Segment
  <2>5. /\ Len(log[n][s.origin]) < Len(log[s.origin][s.origin])
        /\ NextIn(n, s) = log[s.origin][s.origin][Len(log[n][s.origin]) + 1]
    BY <1>1, <2>3, NextInCopied
  <2>6. B!Deliver(s.origin, n)
    BY <2>1, <2>4, <2>5 DEF B!Deliver
  <2>7. [B!Next]_log
    BY <2>4, <2>6 DEF B!Next
  <2>8. LogType'
    BY <1>1, <2>7, LogTypeKept
  <2>9. Good(ack)
    <3>1. StatusOf(n) \in Status
      BY <2>8 DEF StatusOf, Status, LogType
    <3>. QED
      BY <1>2, <3>1 DEF Good, CopiedPacket, Packet, AckMessage, RumorsMessage
  <2>. HIDE DEF ack
  <2>10. PICK d \in Choices(neighbours'[n], p.src) :
             flight' = rest \cup {ack} \cup To(d, [p EXCEPT !.src = n, !.dst = d, !.id = 0])
    BY <2>1
  <2>11. d # None => Good([p EXCEPT !.src = n, !.dst = d, !.id = 0])
    BY <1>1, <1>2, <1>4, <2>10 DEF Choices, Good, CopiedPacket, FlightCopied, Packet, RumorsMessage
  <2>12. flight' \in SUBSET Packet /\ FlightCopied'
    BY <1>1, <2>7, <2>9, <2>10, <2>11, FlightKept DEF To, TypeOK
  <2>13. Numbered'
    <3>1. \A m \in Node : Len(log'[m][m]) = Len(log[m][m])
      BY <1>1, <2>1, <2>4, <2>5 DEF LogType
    <3>. QED
      BY <1>1, <1>3, <3>1 DEF Numbered
  <2>14. route' \in [Node -> [Node -> Node \cup {None}]]
    BY <1>1, <1>2, <2>1, <2>4 DEF TypeOK, RumorsMessage
  <2>15. TypeOK'
    BY <1>1, <1>3, <1>4, <2>8, <2>12, <2>14 DEF TypeOK, LogType
  <2>. QED
    BY <2>7, <2>12, <2>13, <2>15 DEF Kept
<1>7. \/ UNCHANGED <<log, route>> /\ flight' = rest \cup {ack}
      \/ \E k \in New :
            /\ log' = [log EXCEPT ![n][p.rumors[k].origin] = Append(@, NextIn(n, p.rumors[k]))]
            /\ route' = [route EXCEPT ![n][p.rumors[k].origin] = p.src]
            /\ \E d \in Choices(neighbours'[n], p.src) :
                   flight' = rest \cup {ack} \cup To(d, [p EXCEPT !.src = n, !.dst = d, !.id = 0])
  BY DEF HandleRumors, Fly
<1>. QED
  BY <1>5, <1>6, <1>7

\* What a status is answered with is good.
LEMMA AnswerStep ==
    ASSUME Inv, NEW n \in Node, NEW p \in flight, NEW rest \in SUBSET flight,
           p \in AckMessage \cup StatusMessage, AnswerStatus(n, p, rest)
    PROVE  /\ flight' \in SUBSET Packet /\ FlightCopied' /\ [B!Next]_log
           /\ neighbours' \in [Node -> SUBSET Node]
           /\ UNCHANGED <<log, route, handled>>
<1>. DEFINE mine == [o \in Node |-> Len(log[n][o])]
            status(d) == [type |-> "status", src |-> n, dst |-> d, status |-> mine]
            behind == \E o \in Node : Len(log[n][o]) < p.status[o]
            Ahead == {o \in Node : Len(log[n][o]) > p.status[o]}
            rumors(order) == [type |-> "rumors", src |-> n, dst |-> p.src, id |-> 0,
                              rumors |-> [k \in DOMAIN order |-> Missing(n, order[k], p.status)]]
<1>1. LogType /\ TypeOK /\ LogPrefix
  BY DEF Inv, TypeOK, LogType
<1>2. p.src \in Node /\ p.status \in Status
  BY DEF AckMessage, StatusMessage
<1>3. UNCHANGED <<log, route, handled>> /\ neighbours' = [neighbours EXCEPT ![n] = @ \cup {p.src}]
  BY DEF AnswerStatus
<1>4. neighbours' \in [Node -> SUBSET Node]
  BY <1>1, <1>2, <1>3 DEF TypeOK
<1>5. ASSUME NEW d \in Node
      PROVE  Good(status(d))
  BY <1>1, StatusGood
<1>6. ASSUME NEW order \in Orders(Ahead)
      PROVE  Good(rumors(order))
  <2>1. Cardinality(Ahead) \in Nat
    <3>1. IsFiniteSet(Ahead)
      BY NodeAssumption, FS_Subset
    <3>. QED
      BY <3>1, FS_CardinalityType
  <2>. DEFINE c == Cardinality(Ahead)
  <2>2. order \in [1 .. c -> Ahead]
    BY DEF Orders
  <2>. HIDE DEF c
  <2>3. c \in Nat /\ DOMAIN order = 1 .. c
    BY <2>1, <2>2 DEF c
  <2>4. ASSUME NEW k \in 1 .. c
        PROVE  /\ Missing(n, order[k], p.status) \in Segment
               /\ Copied(Missing(n, order[k], p.status))
    <3>1. order[k] \in Node /\ Len(log[n][order[k]]) > p.status[order[k]]
      BY <2>2
    <3>. QED
      BY <1>1, <1>2, <3>1, MissingCopied
  <2>. DEFINE R == [k \in 1 .. c |-> Missing(n, order[k], p.status)]
  <2>5. R \in Seq(Segment) /\ \A k \in DOMAIN R : Copied(R[k])
    BY <2>3, <2>4
  <2>6. rumors(order) = [type |-> "rumors", src |-> n, dst |-> p.src, id |-> 0, rumors |-> R]
    BY <2>3
  <2>. HIDE DEF R
  <2>. QED
    BY <1>2, <2>5, <2>6 DEF Good, CopiedPacket, Packet, RumorsMessage
<1>7. ASSUME NEW q \in flight'
      PROVE  q \in flight \/ Good(q)
  <2>1. CASE \E order \in Orders(Ahead) :
                 flight' = rest \cup (IF behind THEN {status(p.src)} ELSE {})
                                \cup (IF Ahead = {} THEN {} ELSE {rumors(order)})
    BY <1>2, <1>5, <1>6, <2>1
  <2>2. CASE flight' = rest
    BY <2>2
  <2>3. CASE \E d \in Choices(neighbours'[n], p.src) : flight' = rest \cup To(d, status(d))
    BY <1>4, <1>5, <2>3 DEF To, Choices
  <2>4. \/ \E order \in Orders(Ahead) :
                 flight' = rest \cup (IF behind THEN {status(p.src)} ELSE {})
                                \cup (IF Ahead = {} THEN {} ELSE {rumors(order)})
        \/ flight' = rest
        \/ \E d \in Choices(neighbours'[n], p.src) : flight' = rest \cup To(d, status(d))
    BY DEF AnswerStatus, Fly
  <2>. QED
    BY <2>1, <2>2, <2>3, <2>4
<1>8. flight' \in SUBSET Packet /\ FlightCopied' /\ [B!Next]_log
  BY <1>3, <1>7, QuietStep
<1>. QED
  BY <1>3, <1>4, <1>8

LEMMA HandleStep ==
    ASSUME Inv, NEW n \in Node, NEW p \in flight, NEW rest \in SUBSET flight,
           Handle(n, p, rest)
    PROVE  Kept
<1>0. p \in Packet /\ TypeOK
  BY DEF Inv, TypeOK
<1>1. CASE HandleRumors(n, p, rest)
  BY <1>1, HandleRumorsStep
<1>2. CASE HandleStatus(n, p, rest)
  <2>1. p \in StatusMessage
    BY <1>0, <1>2 DEF HandleStatus, Packet, RumorsMessage, AckMessage
  <2>2. /\ flight' \in SUBSET Packet /\ FlightCopied' /\ [B!Next]_log
        /\ neighbours' \in [Node -> SUBSET Node]
        /\ UNCHANGED <<log, route, handled>>
    BY <1>2, <2>1, AnswerStep DEF HandleStatus
  <2>. QED
    BY <1>0, <1>2, <2>2 DEF Kept, Inv, TypeOK, Numbered, HandleStatus
<1>3. CASE HandleAck(n, p, rest)
  <2>1. p \in AckMessage
    BY <1>0, <1>3 DEF HandleAck, Packet, RumorsMessage, StatusMessage
  <2>2. /\ flight' \in SUBSET Packet /\ FlightCopied' /\ [B!Next]_log
        /\ neighbours' \in [Node -> SUBSET Node]
        /\ UNCHANGED <<log, route, handled>>
    BY <1>3, <2>1, AnswerStep DEF HandleAck
  <2>3. calls' \in [Node -> Seq(Call)] /\ Numbered'
    <3>1. CASE p.id \in DOMAIN calls[n] /\ calls' = [calls EXCEPT ![n][p.id].stage = "returned"]
      BY <2>2, <3>1, StageMoves
    <3>2. CASE calls' = calls
      BY <2>2, <3>2 DEF Inv, TypeOK, Numbered
    <3>. QED
      BY <1>3, <3>1, <3>2 DEF HandleAck
  <2>. QED
    BY <1>0, <2>2, <2>3 DEF Kept, TypeOK
<1>. QED
  BY <1>1, <1>2, <1>3 DEF Handle

LEMMA LoseStep ==
    ASSUME Inv, NEW p \in flight, Lose(p)
    PROVE  Kept
<1>1. flight' \in SUBSET Packet /\ FlightCopied' /\ [B!Next]_log
  BY QuietStep DEF Lose
<1>. QED
  BY <1>1 DEF Kept, Inv, TypeOK, Numbered, Lose, tables

-----------------------------------------------------------------------------
(* Theorems                                                                *)

LEMMA InitInv == Init => Inv
<1>. SUFFICES ASSUME Init
              PROVE  Inv
  OBVIOUS
<1>1. TypeOK
  BY PeersAssumption DEF Init, TypeOK
<1>2. Numbered /\ LogPrefix /\ FlightCopied
  BY DEF Init, Numbered, LogPrefix, FlightCopied
<1>. QED
  BY <1>1, <1>2 DEF Inv

LEMMA NextKept ==
    ASSUME Inv, [Next]_vars
    PROVE  Kept
<1>1. CASE UNCHANGED vars
  BY <1>1 DEF Kept, Inv, TypeOK, Numbered, FlightCopied, CopiedPacket, Copied, vars, tables
<1>2. ASSUME NEW n \in Node, CallStep(n)
      PROVE  Kept
  BY <1>2, BroadcastStep, SendRumorStep, SendFailsStep, ProcessOwnStep, AckTimeoutStep DEF CallStep
<1>3. ASSUME NEW n \in Node, NEW p \in flight, Receive(n, p) \/ ReceiveTwice(n, p)
      PROVE  Kept
  BY <1>3, HandleStep DEF Receive, ReceiveTwice
<1>. QED
  BY <1>1, <1>2, <1>3, AntiEntropyStep, LoseStep DEF Next

LEMMA NextInv ==
    ASSUME Inv, [Next]_vars
    PROVE  Inv'
<1>1. Kept
  BY NextKept
<1>2. LogPrefix'
  BY <1>1, PrefixKept DEF Kept, Inv, TypeOK, LogType
<1>. QED
  BY <1>1, <1>2 DEF Kept, Inv

\* Every variable keeps its type: no packet is sent to nobody, and no status or
\* segment of rumors is cut wrongly.
THEOREM TypeCorrect == Spec => []TypeOK
<1>1. Inv => TypeOK
  BY DEF Inv
<1>. QED
  BY InitInv, NextInv, <1>1, PTL DEF Spec

\* The log of every peer is a prefix of the log of the origin, whatever the
\* network loses, repeats or reorders.
THEOREM LogsArePrefixes == Spec => []LogPrefix
<1>1. Inv => LogPrefix
  BY DEF Inv
<1>. QED
  BY InitInv, NextInv, <1>1, PTL DEF Spec

\* The gossip layer is the reliable broadcast that the consensus assumes.
THEOREM Implementation == Spec => ImplementsBroadcast
<1>1. Init => B!Init
  BY DEF Init, B!Init
<1>2. Inv /\ [Next]_vars => [B!Next]_log
  BY NextKept DEF Kept
<1>. QED
  BY InitInv, NextInv, <1>1, <1>2, PTL DEF Spec, ImplementsBroadcast, B!Spec

=============================================================================
