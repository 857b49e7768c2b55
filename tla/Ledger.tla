------------------------------- MODULE Ledger -------------------------------
(***************************************************************************)
(* What the naming consensus promises (Tag of peer/datasharing.go: "ensure *)
(* uniqueness with blockchain/TLC/Paxos"): the peers build one ledger.     *)
(* Each peer holds a prefix of it that only grows, and a call that has     *)
(* returned without an error finds its block there.                        *)
(***************************************************************************)
EXTENDS Naturals, Sequences, SequencesExt

CONSTANTS Peer, Client, Author(_)   \* Author(b): the call that made block b

VARIABLES ledger, log, returned
ledgerVars == <<ledger, log, returned>>

Init ==
    /\ ledger = << >>
    /\ log = [p \in Peer |-> << >>]
    /\ returned = {}

\* A peer learns more of the ledger, or is the first to append to it.
Extend(p) ==
    /\ IsStrictPrefix(log[p], log'[p])
    /\ log' = [log EXCEPT ![p] = log'[p]]
    /\ \/ IsPrefix(log'[p], ledger) /\ UNCHANGED ledger
       \/ IsStrictPrefix(ledger, log'[p]) /\ ledger' = log'[p]
    /\ UNCHANGED returned

\* A call whose block is in the ledger returns.
Return(c) ==
    /\ c \notin returned
    /\ \E i \in DOMAIN ledger : Author(ledger[i]) = c
    /\ returned' = returned \cup {c}
    /\ UNCHANGED <<ledger, log>>

Next == (\E p \in Peer : Extend(p)) \/ (\E c \in Client : Return(c))

Spec == Init /\ [][Next]_ledgerVars

=============================================================================
