----------------------------- MODULE BullyProofs -----------------------------
(***************************************************************************)
(* Theorems about module Bully, for any number of peers, elections and     *)
(* crashes.  A call of Elect waits for as many tokens as there are calls;  *)
(* Counted says that each of them is still on its way from every higher    *)
(* peer that runs, as a question, as an answer or as a token.              *)
(***************************************************************************)
EXTENDS Bully, TLAPS

\* A main loop waits to put a token only when the channel is full.
BlockedFull == \A n \in blocked : tokens[n] = TotalPeers

\* The token that the main loop of n holds in its hand.
Held(n) == IF n \in blocked THEN 1 ELSE 0

Counted ==
    \A n, m \in alive :
        n < m => waiting[n] <= tokens[n] + Held(n) + election[n][m] + answer[m][n]

Inv == TypeOK /\ BlockedFull /\ Counted

LEMMA InitInv == Init => Inv
<1>. SUFFICES ASSUME Init
              PROVE  Inv
  OBVIOUS
<1>1. TypeOK
  BY CapacityAssumption, BoundAssumption DEF Init, TypeOK, NoMessages, NetCount, Count
<1>2. BlockedFull
  BY DEF Init, BlockedFull
<1>3. Counted
  BY DEF Init, Counted, Held, NoMessages
<1>. QED
  BY <1>1, <1>2, <1>3 DEF Inv

LEMMA SendAllType ==
    ASSUME NEW counts \in NetCount, NEW n \in Node, NEW S
    PROVE  /\ SendAll(counts, n, S) \in NetCount
           /\ \A k, m \in Node : SendAll(counts, n, S)[k][m] >= counts[k][m]
           /\ \A m \in S \cap alive \cap Node : SendAll(counts, n, S)[n][m] = counts[n][m] + 1
BY DEF SendAll, NetCount, Count

LEMMA TypeStep ==
    ASSUME TypeOK, [Next]_vars
    PROVE  TypeOK'
<1>. USE CapacityAssumption, BoundAssumption DEF TypeOK
<1>1. ASSUME NEW n \in Node, ClientElects(n)
      PROVE  TypeOK'
  BY <1>1 DEF ClientElects, net, Count
<1>2. ASSUME NEW n \in Node, StartElect(n)
      PROVE  TypeOK'
  <2>1. election' \in NetCount
    BY <1>2, SendAllType DEF StartElect
  <2>2. starting' \in Count /\ waiting' \in Count
    BY <1>2 DEF StartElect, Count
  <2>. QED
    BY <1>2, <2>1, <2>2 DEF StartElect
<1>3. ASSUME NEW n \in Node, ElectionFails(n)
      PROVE  TypeOK'
  BY <1>3 DEF ElectionFails, net, Count
<1>4. ASSUME NEW n \in Node, ElectionTimeout(n)
      PROVE  TypeOK'
  <2>1. victory' \in NetCount
    BY <1>4, SendAllType DEF ElectionTimeout
  <2>2. waiting' \in Count
    BY <1>4 DEF ElectionTimeout, Count
  <2>. QED
    BY <1>4, <2>1, <2>2 DEF ElectionTimeout
<1>5. ASSUME NEW n \in Node, Crash(n)
      PROVE  TypeOK'
  BY <1>5 DEF Crash, NetCount, Count
<1>6. ASSUME NEW n \in Node, NEW m \in Node, HandleElection(n, m)
      PROVE  TypeOK'
  <2>1. election' \in NetCount
    BY <1>6 DEF HandleElection, NetCount, Count
  <2>2. answer' \in NetCount
    BY <1>6, SendAllType DEF HandleElection
  <2>3. starting' \in Count
    BY <1>6 DEF HandleElection, Count
  <2>. QED
    BY <1>6, <2>1, <2>2, <2>3 DEF HandleElection
<1>7. ASSUME NEW n \in Node, NEW m \in Node, HandleAnswer(n, m)
      PROVE  TypeOK'
  <2>1. answer' \in NetCount
    BY <1>7 DEF HandleAnswer, NetCount, Count
  <2>2. tokens' \in [Node -> 0 .. TotalPeers] /\ blocked' \subseteq Node
    BY <1>7 DEF HandleAnswer, HasRoom
  <2>. QED
    BY <1>7, <2>1, <2>2 DEF HandleAnswer
<1>8. ASSUME NEW n \in Node, NEW m \in Node, HandleVictory(n, m)
      PROVE  TypeOK'
  BY <1>8 DEF HandleVictory, calls, NetCount, Count
<1>9. CASE UNCHANGED vars
  BY <1>9 DEF vars, calls, net
<1>. QED
  BY <1>1, <1>2, <1>3, <1>4, <1>5, <1>6, <1>7, <1>8, <1>9 DEF Next, Handle

LEMMA BlockedStep ==
    ASSUME TypeOK, BlockedFull, [Next]_vars
    PROVE  BlockedFull'
<1>. USE DEF BlockedFull
<1>1. ASSUME NEW n \in Node, ElectionFails(n)
      PROVE  BlockedFull'
  BY <1>1 DEF ElectionFails, TypeOK
<1>2. ASSUME NEW n \in Node, NEW m \in Node, HandleAnswer(n, m)
      PROVE  BlockedFull'
  <2>1. CASE HasRoom(n) /\ tokens' = [tokens EXCEPT ![n] = @ + 1] /\ UNCHANGED blocked
    BY <1>2, <2>1 DEF HandleAnswer, Handles, TypeOK
  <2>2. CASE ~HasRoom(n) /\ blocked' = blocked \cup {n} /\ UNCHANGED tokens
    <3>1. tokens[n] = TotalPeers
      BY <2>2, CapacityAssumption DEF HasRoom, TypeOK
    <3>. QED
      BY <2>2, <3>1
  <2>. QED
    BY <1>2, <2>1, <2>2 DEF HandleAnswer
<1>3. ASSUME NEW n \in Node, ClientElects(n) \/ StartElect(n) \/ ElectionTimeout(n) \/ Crash(n)
      PROVE  BlockedFull'
  BY <1>3 DEF ClientElects, StartElect, ElectionTimeout, Crash
<1>4. ASSUME NEW n \in Node, NEW m \in Node, HandleElection(n, m) \/ HandleVictory(n, m)
      PROVE  BlockedFull'
  BY <1>4 DEF HandleElection, HandleVictory, calls
<1>5. CASE UNCHANGED vars
  BY <1>5 DEF vars, calls
<1>. QED
  BY <1>1, <1>2, <1>3, <1>4, <1>5 DEF Next, Handle

\* No step makes the questions, answers and tokens of a call fewer than the calls.
LEMMA CountedStep ==
    ASSUME Inv, TypeOK', [Next]_vars
    PROVE  Counted'
<1>. SUFFICES ASSUME NEW n \in alive', NEW m \in alive', n < m
              PROVE  waiting'[n] <= tokens'[n] + Held(n)' + election'[n][m] + answer'[m][n]
  BY DEF Counted
<1>. DEFINE Sum == tokens[n] + Held(n) + election[n][m] + answer[m][n]
<1>0. /\ TypeOK /\ BlockedFull /\ TypeOK'
      /\ alive' \subseteq alive /\ n \in Node /\ m \in Node /\ n # m
      /\ waiting[n] <= Sum
  <2>1. alive' \subseteq alive
    BY DEF Next, Handle, ClientElects, StartElect, ElectionFails, ElectionTimeout, Crash,
           HandleElection, HandleAnswer, HandleVictory, vars
  <2>. QED
    BY <2>1, NodeAssumption DEF Inv, TypeOK, Counted
<1>1. ASSUME NEW k \in Node, ClientElects(k) \/ Crash(k)
      PROVE  waiting'[n] <= tokens'[n] + Held(n)' + election'[n][m] + answer'[m][n]
  BY <1>0, <1>1 DEF ClientElects, Crash, Held, TypeOK, net, NetCount, Count
<1>2. ASSUME NEW k \in Node, StartElect(k)
      PROVE  waiting'[n] <= tokens'[n] + Held(n)' + election'[n][m] + answer'[m][n]
  <2>1. election'[n][m] = IF k = n THEN election[n][m] + 1 ELSE election[n][m]
    BY <1>0, <1>2 DEF StartElect, SendAll, Asked, Higher, TypeOK, NetCount, Count
  <2>. QED
    BY <1>0, <1>2, <2>1 DEF StartElect, Held, TypeOK, NetCount, Count
<1>3. ASSUME NEW k \in Node, ElectionFails(k)
      PROVE  waiting'[n] <= tokens'[n] + Held(n)' + election'[n][m] + answer'[m][n]
  BY <1>0, <1>3 DEF ElectionFails, Held, TypeOK, net, NetCount, Count
<1>4. ASSUME NEW k \in Node, ElectionTimeout(k)
      PROVE  waiting'[n] <= tokens'[n] + Held(n)' + election'[n][m] + answer'[m][n]
  BY <1>0, <1>4 DEF ElectionTimeout, Held, TypeOK, NetCount, Count
<1>5. ASSUME NEW k \in Node, NEW l \in Node, HandleElection(k, l)
      PROVE  waiting'[n] <= tokens'[n] + Held(n)' + election'[n][m] + answer'[m][n]
  <2>1. UNCHANGED <<waiting, tokens, blocked, alive>>
    BY <1>5 DEF HandleElection
  <2>2. CASE k = m /\ l = n
    <3>1. election'[n][m] = election[n][m] - 1
      BY <1>0, <1>5, <2>2 DEF HandleElection, TypeOK, NetCount, Count
    <3>2. answer'[m][n] = answer[m][n] + 1
      <4>1. answer' = SendAll(answer, m, {n})
        BY <1>0, <1>5, <2>2, NodeAssumption DEF HandleElection, TypeOK
      <4>2. n \in {n} \cap alive \cap Node
        BY <1>0, <2>1
      <4>. QED
        BY <1>0, <4>1, <4>2, SendAllType DEF TypeOK
    <3>. QED
      BY <1>0, <2>1, <3>1, <3>2 DEF Held, TypeOK, NetCount, Count
  <2>3. CASE ~(k = m /\ l = n)
    <3>1. election'[n][m] = election[n][m]
      BY <1>0, <1>5, <2>3 DEF HandleElection, TypeOK, NetCount, Count
    <3>2. answer'[m][n] >= answer[m][n]
      <4>1. CASE answer' = SendAll(answer, k, {l})
        BY <1>0, <4>1, SendAllType DEF TypeOK
      <4>2. CASE answer' = answer
        BY <1>0, <4>2 DEF TypeOK, NetCount, Count
      <4>. QED
        BY <1>5, <4>1, <4>2 DEF HandleElection
    <3>. QED
      BY <1>0, <2>1, <3>1, <3>2 DEF Held, TypeOK, NetCount, Count
  <2>. QED
    BY <2>2, <2>3
<1>6. ASSUME NEW k \in Node, NEW l \in Node, HandleAnswer(k, l)
      PROVE  waiting'[n] <= tokens'[n] + Held(n)' + election'[n][m] + answer'[m][n]
  <2>1. UNCHANGED <<waiting, election, alive>>
    BY <1>6 DEF HandleAnswer
  <2>2. CASE k = n
    <3>1. tokens'[n] + Held(n)' = tokens[n] + Held(n) + 1
      BY <1>0, <1>6, <2>2 DEF HandleAnswer, Handles, Held, TypeOK
    <3>2. answer'[m][n] >= answer[m][n] - 1
      BY <1>0, <1>6, <2>2 DEF HandleAnswer, TypeOK, NetCount, Count
    <3>. QED
      BY <1>0, <2>1, <3>1, <3>2 DEF Held, TypeOK, NetCount, Count
  <2>3. CASE k # n
    BY <1>0, <1>6, <2>1, <2>3 DEF HandleAnswer, Held, TypeOK, NetCount, Count
  <2>. QED
    BY <2>2, <2>3
<1>7. ASSUME NEW k \in Node, NEW l \in Node, HandleVictory(k, l)
      PROVE  waiting'[n] <= tokens'[n] + Held(n)' + election'[n][m] + answer'[m][n]
  BY <1>0, <1>7 DEF HandleVictory, calls, Held
<1>8. CASE UNCHANGED vars
  BY <1>0, <1>8 DEF vars, calls, net, Held
<1>. QED
  BY <1>1, <1>2, <1>3, <1>4, <1>5, <1>6, <1>7, <1>8 DEF Next, Handle

LEMMA NextInv ==
    ASSUME Inv, [Next]_vars
    PROVE  Inv'
BY TypeStep, BlockedStep, CountedStep DEF Inv

\* Types.
THEOREM TypeCorrect == Spec => []TypeOK
<1>1. Inv => TypeOK
  BY DEF Inv
<1>. QED
  BY InitInv, NextInv, <1>1, PTL DEF Spec

\* No peer makes itself coordinator over a higher peer that runs and handles its
\* messages, for any number of concurrent elections and crashes.
THEOREM NoUsurpers == Spec => NoUsurper
<1>1. ASSUME Inv, [Next]_vars
      PROVE  [\A n \in Node : ElectionTimeout(n) => Higher(n) \cap alive \subseteq blocked]_vars
  <2>. SUFFICES ASSUME NEW n \in Node, ElectionTimeout(n), NEW m \in Higher(n) \cap alive,
                       m \notin blocked
                PROVE  FALSE
    BY <1>1
  <2>1. m \in Node /\ n < m /\ n \in alive /\ m \in alive
    BY <1>1, NodeAssumption DEF Higher, ElectionTimeout
  <2>2. waiting[n] > 0 /\ tokens[n] = 0 /\ answer[m][n] = 0 /\ election[n][m] = 0
    BY DEF ElectionTimeout, InTime
  <2>3. n \notin blocked
    BY <1>1, <2>2, CapacityAssumption DEF Inv, BlockedFull, TypeOK
  <2>4. waiting[n] <= tokens[n] + Held(n) + election[n][m] + answer[m][n]
    BY <1>1, <2>1 DEF Inv, Counted
  <2>5. Held(n) = 0
    BY <2>3 DEF Held
  <2>. QED
    BY <1>1, <2>1, <2>2, <2>4, <2>5 DEF Inv, TypeOK, Count
<1>. QED
  BY InitInv, NextInv, <1>1, PTL DEF Spec, NoUsurper

=============================================================================
