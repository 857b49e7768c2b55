-------------------------- MODULE PublicKeysProofs ---------------------------
(***************************************************************************)
(* Theorems about PublicKeys, for any peers, addresses, restarts and       *)
(* bounds.                                                                 *)
(***************************************************************************)
EXTENDS PublicKeys, TLAPS

\* The own address is safe.
SelfSafe == \A n \in Node : n \in safe[n]

-----------------------------------------------------------------------------
(* Lemmas                                                                   *)

\* What SendTablePK sends are messages.
LEMMA TableToType ==
    ASSUME NEW n \in Node, NEW S \in SUBSET Node, NEW t \in Table, TypeOK
    PROVE  TableTo(n, S, t) \subseteq Message
BY DEF TableTo, Message, PublicKeyMessage, TypeOK

\* A table is a message with a table, and a confirmation one with a key.
LEMMA MessageFields ==
    ASSUME NEW p \in Message
    PROVE  /\ p.src \in Node
           /\ p.type = "table" => p.table \in Table
           /\ p.type \in {"need", "confirm"} => p.about \in Node
           /\ p.type = "confirm" => p.key \in Key
BY DEF Message, PublicKeyMessage, NeedConfirmationPKMessage, ConfirmationPKMessage

\* The parts of the table that a handler makes.
New(n, p, elected) ==
    [a \in Node |-> IF a \in Conflicts(n, p) THEN elected[a]
                    ELSE IF a \in Unseen(n, p) \cup Confirmed(n, p) THEN KeyIn(p, a)
                    ELSE table[n][a]]
Asking(n, p) == NeedConfirmation(n, Conflicts(n, p))

\* The new table has the old values, those of the message for addresses that it may
\* set, and for those in conflict values that were heard.
LEMMA TableStep ==
    ASSUME TypeOK, NEW n \in Node, NEW p \in sent, HandleTable(n, p)
    PROVE  \E elected \in [Conflicts(n, p) -> Key] :
               /\ p.table \in Table /\ p.src \in Node /\ New(n, p, elected) \in Table
               /\ \A a \in Conflicts(n, p) : elected[a] \in heard[n][a] \cup {table[n][a]}
               /\ table' = [table EXCEPT ![n] = New(n, p, elected)]
               /\ \/ sent' = sent \cup Asking(n, p)
                  \/ sent' = sent \cup Asking(n, p) \cup TableTo(n, Node, New(n, p, elected))
<1>1. p \in Message /\ p.type = "table"
  BY DEF TypeOK, HandleTable
<1>2. p.table \in Table /\ p.src \in Node
  BY <1>1, MessageFields
<1>3. \A a \in Conflicts(n, p) : Values(n, a) \subseteq Key
  BY DEF Conflicts, Values, Known, TypeOK, Table
<1>4. PICK elected \in [Conflicts(n, p) -> UNION {Values(n, a) : a \in Conflicts(n, p)}] :
          /\ \A a \in Conflicts(n, p) : elected[a] \in Values(n, a)
          /\ table' = [table EXCEPT ![n] = New(n, p, elected)]
          /\ \/ sent' = sent \cup Asking(n, p)
             \/ sent' = sent \cup Asking(n, p) \cup TableTo(n, Node, New(n, p, elected))
  BY DEF HandleTable, New, Asking
<1>5. elected \in [Conflicts(n, p) -> Key]
  BY <1>3, <1>4
<1>6. New(n, p, elected) \in Table
  <2>1. ASSUME NEW a \in Node
        PROVE  New(n, p, elected)[a] \in Key \cup {None}
    BY <1>2, <1>5 DEF New, KeyIn, Table, TypeOK
  <2> QED
    BY <2>1 DEF New, Table
<1> QED
  BY <1>2, <1>4, <1>5, <1>6 DEF Values

-----------------------------------------------------------------------------
(* Types                                                                   *)

LEMMA TableKeepsType ==
    ASSUME TypeOK, NEW n \in Node, NEW p \in sent, HandleTable(n, p)
    PROVE  TypeOK'
<1>1. PICK elected \in [Conflicts(n, p) -> Key] :
          /\ New(n, p, elected) \in Table
          /\ table' = [table EXCEPT ![n] = New(n, p, elected)]
          /\ \/ sent' = sent \cup Asking(n, p)
             \/ sent' = sent \cup Asking(n, p) \cup TableTo(n, Node, New(n, p, elected))
  BY TableStep
<1>2. Conflicts(n, p) \subseteq Node /\ Confirmed(n, p) \subseteq Node
  BY DEF Conflicts, Confirmed, Checked, Known
<1>3. table' \in [Node -> Table]
  BY <1>1 DEF TypeOK
<1>4. sent' \subseteq Message
  <2>1. Asking(n, p) \subseteq NeedConfirmationPKMessage
    BY <1>2 DEF Asking, NeedConfirmation, NeedConfirmationPKMessage, TypeOK
  <2>2. TableTo(n, Node, New(n, p, elected)) \subseteq Message
    BY <1>1, TableToType
  <2> QED
    BY <1>1, <2>1, <2>2 DEF TypeOK, Message
<1>5. heard' \in [Node -> [Node -> SUBSET Key]]
  <2>1. \A a \in Conflicts(n, p) : table[n][a] \in Key
    BY DEF Conflicts, Known, TypeOK, Table
  <2>2. [a \in Node |-> IF a \in Conflicts(n, p) THEN heard[n][a] \cup {table[n][a]}
                        ELSE heard[n][a]] \in [Node -> SUBSET Key]
    BY <2>1 DEF TypeOK
  <2> QED
    BY <2>2 DEF HandleTable, TypeOK
<1>6. safe' \in [Node -> SUBSET Node]
  BY <1>2 DEF HandleTable, TypeOK
<1> QED
  BY <1>3, <1>4, <1>5, <1>6 DEF HandleTable, TypeOK

LEMMA NeedKeepsType ==
    ASSUME TypeOK, NEW n \in Node, NEW p \in sent, HandleNeed(n, p)
    PROVE  TypeOK'
<1>1. p \in Message /\ p.src \in Node /\ p.about \in Node
  BY MessageFields DEF TypeOK, HandleNeed, Confirmation
<1>2. table[n][p.about] \in Key
  BY <1>1 DEF HandleNeed, Confirmation, TypeOK, Table
<1>3. [type |-> "confirm", src |-> n, to |-> {p.src}, about |-> p.about,
       key |-> table[n][p.about]] \in Message
  BY <1>1, <1>2 DEF Message, ConfirmationPKMessage
<1>4. sent' \subseteq Message
  BY <1>3 DEF HandleNeed, Confirmation, TypeOK
<1> QED
  BY <1>4 DEF HandleNeed, Confirmation, TypeOK

LEMMA ConfirmKeepsType ==
    ASSUME TypeOK, NEW n \in Node, NEW p \in sent, HandleConfirm(n, p)
    PROVE  TypeOK'
<1>1. p.about \in Node /\ p.key \in Key
  BY MessageFields DEF TypeOK, HandleConfirm
<1>2. heard' \in [Node -> [Node -> SUBSET Key]]
  <2>1. [heard[n] EXCEPT ![p.about] = @ \cup {p.key}] \in [Node -> SUBSET Key]
    BY <1>1 DEF TypeOK
  <2> QED
    BY <2>1 DEF HandleConfirm, TypeOK
<1>3. up' \in [Node -> BOOLEAN]
  BY DEF HandleConfirm, TypeOK
<1> QED
  BY <1>2, <1>3 DEF HandleConfirm, TypeOK

LEMMA RestartKeepsType ==
    ASSUME TypeOK, NEW n \in Node, Restart(n)
    PROVE  TypeOK'
<1>1. life[n] + 1 \in Nat
  BY DEF TypeOK
<1>2. InitTable(n, life[n] + 1) \in Table
  BY <1>1 DEF InitTable, Table, Key
<1> QED
  BY <1>1, <1>2 DEF Restart, TypeOK, InitSafe

LEMMA SendKeepsType ==
    ASSUME TypeOK, NEW n \in Node, NEW m \in tasks[n], SendTable(n, m)
    PROVE  TypeOK'
<1>1. TableTo(n, IF m = None THEN Node ELSE {m}, table[n]) \subseteq Message
  <2>1. m = None \/ m \in Node
    BY DEF TypeOK
  <2> QED
    BY <2>1, TableToType DEF TypeOK
<1> QED
  BY <1>1 DEF SendTable, TypeOK

LEMMA TypeStep ==
    ASSUME TypeOK, [Next]_vars
    PROVE  TypeOK'
<1>1. ASSUME NEW n \in Node, NEW m \in Node, AddPeer(n, m)
      PROVE  TypeOK'
  BY <1>1 DEF AddPeer, TypeOK
<1>2. ASSUME NEW n \in Node, NEW m \in Node, LearnRoute(n, m)
      PROVE  TypeOK'
  BY <1>2 DEF LearnRoute, TypeOK
<1>3. CASE UNCHANGED vars
  BY <1>3 DEF vars, TypeOK
<1> QED
  BY <1>1, <1>2, <1>3, TableKeepsType, NeedKeepsType, ConfirmKeepsType, RestartKeepsType,
     SendKeepsType DEF Next, Step, KeyStep, Receive

LEMMA TypeInit == Init => TypeOK
<1>1. ASSUME NEW n \in Node
      PROVE  InitTable(n, 1) \in Table
  BY DEF InitTable, Table, Key
<1> QED
  BY <1>1 DEF Init, TypeOK, InitSafe

\* Tables, safe addresses, values heard and messages keep their types, whatever is
\* delivered how often.
THEOREM TypeCorrect == Spec => []TypeOK
BY TypeInit, TypeStep, PTL DEF Spec

-----------------------------------------------------------------------------
(* Safe keys                                                               *)

\* A handler leaves the keys of safe addresses alone.
LEMMA SafeUnchecked ==
    ASSUME NEW n \in Node, NEW p, NEW a \in safe[n]
    PROVE  a \notin Conflicts(n, p) /\ a \notin Unseen(n, p) /\ a \notin Confirmed(n, p)
BY DEF Conflicts, Unseen, Confirmed, Checked, Skips

\* As long as a peer runs, its safe addresses stay safe and keep their keys.
LEMMA SafeStep ==
    ASSUME TypeOK, [Next]_vars, NEW n \in Node, life'[n] = life[n]
    PROVE  safe[n] \subseteq safe'[n] /\ \A a \in safe[n] : table'[n][a] = table[n][a]
<1>1. CASE UNCHANGED <<table, safe>>
  BY <1>1
<1>2. ASSUME NEW m \in Node, NEW p \in sent, HandleTable(m, p)
      PROVE  safe[n] \subseteq safe'[n] /\ \A a \in safe[n] : table'[n][a] = table[n][a]
  <2>1. PICK elected \in [Conflicts(m, p) -> Key] :
            table' = [table EXCEPT ![m] = New(m, p, elected)]
    BY <1>2, TableStep
  <2>2. \A a \in safe[m] : New(m, p, elected)[a] = table[m][a]
    BY SafeUnchecked DEF New, TypeOK
  <2>3. \A a \in safe[n] : table'[n][a] = table[n][a]
    BY <2>1, <2>2 DEF TypeOK
  <2> QED
    BY <1>2, <2>3 DEF HandleTable, TypeOK
<1>3. ASSUME NEW m \in Node, Restart(m)
      PROVE  safe[n] \subseteq safe'[n] /\ \A a \in safe[n] : table'[n][a] = table[n][a]
  <2>1. n # m
    BY <1>3 DEF Restart, TypeOK
  <2> QED
    BY <1>3, <2>1 DEF Restart, TypeOK
<1> QED
  BY <1>1, <1>2, <1>3
  DEF Next, Step, KeyStep, Receive, AddPeer, LearnRoute, SendTable, HandleNeed, Confirmation,
      HandleConfirm, vars

\* As long as a peer runs, no message and no election changes a safe key.
THEOREM SafeKeysFixed == Spec => SafeFixed
<1>1. TypeOK /\ [Next]_vars => 
          [\A n \in Node : life'[n] = life[n] =>
              safe[n] \subseteq safe'[n] /\ \A a \in safe[n] : table'[n][a] = table[n][a]]_vars
  BY SafeStep
<1> QED
  BY <1>1, TypeCorrect, PTL DEF Spec, SafeFixed

\* Messages stay sent.
LEMMA SentGrows ==
    ASSUME TypeOK, [Next]_vars
    PROVE  sent \subseteq sent'
<1>1. ASSUME NEW n \in Node, NEW p \in sent, HandleTable(n, p)
      PROVE  sent \subseteq sent'
  BY <1>1, TableStep
<1> QED
  BY <1>1 DEF Next, Step, KeyStep, Receive, AddPeer, LearnRoute, SendTable, HandleNeed, Confirmation,
              HandleConfirm, Restart, vars

\* A peer that goes on running has the safe keys that it had, or has just heard them
\* from their owners.
LEMMA SafeNew ==
    ASSUME TypeOK, NEW n \in Node, NEW p \in sent, HandleTable(n, p), n \in p.to,
           NEW a \in safe'[n] \ safe[n]
    PROVE  p.type = "table" /\ p.src = a /\ p.table[a] = table'[n][a]
<1>1. a \in Confirmed(n, p) /\ a \notin Conflicts(n, p) /\ a \in Node
  BY DEF HandleTable, Confirmed, Conflicts, Checked, Known, TypeOK
<1>2. PICK elected \in [Conflicts(n, p) -> Key] :
          table' = [table EXCEPT ![n] = New(n, p, elected)]
  BY TableStep
<1> QED
  BY <1>1, <1>2 DEF New, KeyIn, HandleTable, Confirmed, FromOwner, TypeOK

\* Only a restart begins a run.
LEMMA LifeStep ==
    ASSUME [Next]_vars
    PROVE  UNCHANGED life \/ \E m \in Node : Restart(m)
<1>1. ASSUME NEW n \in Node, KeyStep(n)
      PROVE  UNCHANGED life
  BY <1>1 DEF KeyStep, Receive, AddPeer, LearnRoute, SendTable, HandleTable, HandleNeed, Confirmation,
              HandleConfirm
<1> QED
  BY <1>1 DEF Next, Step, vars

\* The own address is safe and its key that of the run.
OwnSafe == OwnKey /\ SelfSafe

LEMMA OwnSafeStep ==
    ASSUME TypeOK, OwnSafe, [Next]_vars
    PROVE  OwnSafe'
<1>1. ASSUME NEW m \in Node, Restart(m)
      PROVE  OwnSafe'
  BY <1>1 DEF Restart, OwnSafe, OwnKey, SelfSafe, InitTable, InitSafe, TypeOK
<1>2. CASE UNCHANGED life
  BY <1>2, SafeStep DEF OwnSafe, OwnKey, SelfSafe
<1> QED
  BY <1>1, <1>2, LifeStep

\* No election and no message gives a peer another own key than that of its run.
THEOREM OwnKeyKept == Spec => []OwnKey
<1>1. Init => OwnSafe
  BY DEF Init, OwnSafe, OwnKey, SelfSafe, InitTable, InitSafe
<1> QED
  BY <1>1, OwnSafeStep, TypeCorrect, PTL DEF Spec, OwnSafe

LEMMA OwnerStep ==
    ASSUME TypeOK, SafeFromOwner, [Next]_vars
    PROVE  SafeFromOwner'
<1> SUFFICES ASSUME NEW n \in Node, NEW a \in safe'[n] \ {n}
             PROVE  \E p \in sent' : p.type = "table" /\ p.src = a /\ n \in p.to
                                     /\ p.table[a] = table'[n][a]
  BY DEF SafeFromOwner
<1>1. CASE life'[n] = life[n] /\ a \in safe[n]
  <2>1. table'[n][a] = table[n][a]
    BY <1>1, SafeStep
  <2> QED
    BY <1>1, <2>1, SentGrows DEF SafeFromOwner
<1>2. CASE a \notin safe[n]
  <2>1. ASSUME NEW m \in Node, Restart(m)
        PROVE  FALSE
    BY <1>2, <2>1 DEF Restart, InitSafe, TypeOK
  <2>2. PICK m \in Node, p \in sent : HandleTable(m, p) /\ m \in p.to
    BY <1>2, <2>1 DEF Next, Step, KeyStep, Receive, AddPeer, LearnRoute, SendTable,
                      HandleNeed, Confirmation, HandleConfirm, vars
  <2>3. m = n
    BY <1>2, <2>2 DEF HandleTable, TypeOK
  <2> QED
    BY <1>2, <2>2, <2>3, SafeNew, SentGrows
<1>3. CASE life'[n] # life[n]
  <2>1. Restart(n)
    BY <1>3, LifeStep DEF Restart, TypeOK
  <2> QED
    BY <2>1 DEF Restart, InitSafe, TypeOK
<1> QED
  BY <1>1, <1>2, <1>3

\* A safe key came from its owner, in a message to the peer that takes it as safe.
THEOREM SafeOnesFromOwner == Spec => []SafeFromOwner
<1>1. Init => SafeFromOwner
  BY DEF Init, SafeFromOwner, InitSafe
<1> QED
  BY <1>1, OwnerStep, TypeCorrect, PTL DEF Spec
-----------------------------------------------------------------------------
(* Keys at their addresses                                                  *)

GenuineKey(a, k) == k # None => k[1] = a /\ k[2] <= life[a]

\* The invariant: tables, values heard and messages have keys at their addresses.
KeysAt ==
    /\ \A n, a \in Node : GenuineKey(a, table[n][a])
    /\ \A n, a \in Node : \A k \in heard[n][a] : GenuineKey(a, k)
    /\ \A p \in sent : p.type = "table" => \A a \in Node : GenuineKey(a, p.table[a])
    /\ \A p \in sent : p.type = "confirm" => GenuineKey(p.about, p.key)

LEMMA TableKeepsKeys ==
    ASSUME TypeOK, KeysAt, NEW n \in Node, NEW p \in sent, HandleTable(n, p)
    PROVE  KeysAt'
<1>1. PICK elected \in [Conflicts(n, p) -> Key] :
          /\ p.table \in Table /\ p.src \in Node /\ New(n, p, elected) \in Table
          /\ \A a \in Conflicts(n, p) : elected[a] \in heard[n][a] \cup {table[n][a]}
          /\ table' = [table EXCEPT ![n] = New(n, p, elected)]
          /\ \/ sent' = sent \cup Asking(n, p)
             \/ sent' = sent \cup Asking(n, p) \cup TableTo(n, Node, New(n, p, elected))
  BY TableStep
<1>2. p.type = "table" /\ UNCHANGED life
  BY DEF HandleTable
<1>3. ASSUME NEW a \in Node
      PROVE  GenuineKey(a, New(n, p, elected)[a])
  BY <1>1, <1>2 DEF New, KeyIn, KeysAt
<1>4. \A m, a \in Node : GenuineKey(a, table'[m][a])
  BY <1>1, <1>3 DEF KeysAt, TypeOK
<1>5. \A m, a \in Node : \A k \in heard'[m][a] : GenuineKey(a, k)
  BY DEF HandleTable, KeysAt, TypeOK
<1>6. \A q \in sent' : q.type = "table" => \A a \in Node : GenuineKey(a, q.table[a])
  <2>1. \A q \in Asking(n, p) : q.type = "need"
    BY DEF Asking, NeedConfirmation
  <2>2. \A q \in TableTo(n, Node, New(n, p, elected)) : q.table = New(n, p, elected)
    BY DEF TableTo
  <2> QED
    BY <1>1, <1>3, <2>1, <2>2 DEF KeysAt
<1>7. \A q \in sent' : q.type = "confirm" => GenuineKey(q.about, q.key)
  <2>1. \A q \in Asking(n, p) : q.type = "need"
    BY DEF Asking, NeedConfirmation
  <2>2. \A q \in TableTo(n, Node, New(n, p, elected)) : q.type = "table"
    BY DEF TableTo
  <2> QED
    BY <1>1, <2>1, <2>2 DEF KeysAt
<1> QED
  BY <1>2, <1>4, <1>5, <1>6, <1>7 DEF KeysAt, GenuineKey

LEMMA NeedKeepsKeys ==
    ASSUME TypeOK, KeysAt, NEW n \in Node, NEW p \in sent, HandleNeed(n, p)
    PROVE  KeysAt'
<1>1. p.about \in Node
  BY MessageFields DEF TypeOK, HandleNeed, Confirmation
<1>2. GenuineKey(p.about, table[n][p.about])
  BY <1>1 DEF KeysAt
<1>3. \A q \in sent' : q \in sent \/ (/\ q.type = "confirm" /\ q.about = p.about
                                      /\ q.key = table[n][p.about])
  BY DEF HandleNeed, Confirmation
<1>4. UNCHANGED <<life, table, heard>>
  BY DEF HandleNeed, Confirmation
<1> QED
  BY <1>2, <1>3, <1>4 DEF KeysAt, GenuineKey

LEMMA ConfirmKeepsKeys ==
    ASSUME TypeOK, KeysAt, NEW n \in Node, NEW p \in sent, HandleConfirm(n, p)
    PROVE  KeysAt'
<1>1. p.about \in Node /\ GenuineKey(p.about, p.key)
  BY MessageFields DEF TypeOK, HandleConfirm, KeysAt
<1>2. UNCHANGED <<life, table, sent>>
  BY DEF HandleConfirm
<1>3. \A m, a \in Node : \A k \in heard'[m][a] : k \in heard[m][a] \/ (a = p.about /\ k = p.key)
  BY <1>1 DEF HandleConfirm, TypeOK
<1> QED
  BY <1>1, <1>2, <1>3 DEF KeysAt, GenuineKey

LEMMA SendKeepsKeys ==
    ASSUME TypeOK, KeysAt, NEW n \in Node, NEW m \in tasks[n], SendTable(n, m)
    PROVE  KeysAt'
<1>1. \A q \in sent' : q \in sent \/ (q.type = "table" /\ q.table = table[n])
  BY DEF SendTable, TableTo
<1>2. UNCHANGED <<life, table, heard>>
  BY DEF SendTable
<1> QED
  BY <1>1, <1>2 DEF KeysAt, GenuineKey

\* A key that is genuine stays so in the next run.
LEMMA RestartKeepsKeys ==
    ASSUME TypeOK, KeysAt, NEW n \in Node, Restart(n)
    PROVE  KeysAt'
<1>1. \A a \in Node : life[a] \in Nat /\ life'[a] \in Nat /\ life[a] <= life'[a]
  BY DEF Restart, TypeOK
<1>2. \A a \in Node, k \in Key \cup {None} : GenuineKey(a, k) => GenuineKey(a, k)'
  BY <1>1 DEF GenuineKey, Key
<1>3. ASSUME NEW m \in Node, NEW a \in Node
      PROVE  GenuineKey(a, table[m][a])'
  <2>1. CASE m = n
    <3>1. table'[n] = InitTable(n, life'[n])
      BY DEF Restart, TypeOK
    <3> QED
      BY <1>1, <2>1, <3>1 DEF GenuineKey, InitTable
  <2>2. CASE m # n
    <3>1. table'[m][a] = table[m][a] /\ table[m][a] \in Key \cup {None}
      BY <2>2 DEF Restart, TypeOK, Table
    <3> QED
      BY <1>2, <3>1 DEF KeysAt, GenuineKey
  <2> QED
    BY <2>1, <2>2
<1>4. ASSUME NEW m \in Node, NEW a \in Node, NEW k \in heard'[m][a]
      PROVE  GenuineKey(a, k)'
  <2>1. k \in heard[m][a] /\ k \in Key
    BY <1>4 DEF Restart, TypeOK
  <2> QED
    BY <1>2, <2>1 DEF KeysAt
<1>5. ASSUME NEW p \in sent, p.type = "table", NEW a \in Node
      PROVE  GenuineKey(a, p.table[a])'
  <2>1. p.table[a] \in Key \cup {None}
    BY <1>5, MessageFields DEF TypeOK, Table
  <2> QED
    BY <1>2, <1>5, <2>1 DEF KeysAt, GenuineKey
<1>6. ASSUME NEW p \in sent, p.type = "confirm"
      PROVE  GenuineKey(p.about, p.key)'
  <2>1. p.about \in Node /\ p.key \in Key
    BY <1>6, MessageFields DEF TypeOK
  <2> QED
    BY <1>2, <1>6, <2>1 DEF KeysAt, GenuineKey
<1>7. sent' = sent
  BY DEF Restart
<1> QED
  BY <1>3, <1>4, <1>5, <1>6, <1>7 DEF KeysAt, GenuineKey

\* No election and no message takes the key of one peer for that of another.
THEOREM KeysGenuine == Spec => []KeyGenuine
<1>1. Init => KeysAt
  BY DEF Init, KeysAt, InitTable, GenuineKey
<1>2. TypeOK /\ KeysAt /\ [Next]_vars => KeysAt'
  <2> SUFFICES ASSUME TypeOK, KeysAt, [Next]_vars
               PROVE  KeysAt'
    OBVIOUS
  <2>1. ASSUME UNCHANGED <<life, table, heard, sent>>
        PROVE  KeysAt'
    BY <2>1 DEF KeysAt, GenuineKey
  <2> QED
    BY <2>1, TableKeepsKeys, NeedKeepsKeys, ConfirmKeepsKeys, SendKeepsKeys, RestartKeepsKeys
    DEF Next, Step, KeyStep, Receive, AddPeer, LearnRoute, vars
<1>3. TypeOK /\ KeysAt => KeyGenuine
  BY NoneAssumption DEF TypeOK, KeysAt, GenuineKey, KeyGenuine
<1> QED
  BY <1>1, <1>2, <1>3, TypeCorrect, PTL DEF Spec
=============================================================================
