-------------------------- MODULE ConsensusLedger --------------------------
(***************************************************************************)
(* The naming consensus implements the abstract ledger.                    *)
(***************************************************************************)
EXTENDS Consensus

\* The ledger is the longest blockchain of a node.
LongestChain == chain[CHOOSE n \in Node : \A o \in Node : Len(chain[o]) <= Len(chain[n])]

BlockAuthor(blk) == blk.value.uid[1]

L == INSTANCE Ledger WITH
        Peer <- Node, Client <- Call, Author <- BlockAuthor,
        ledger <- LongestChain, log <- chain,
        returned <- {c \in Call : pc[c] = "done" /\ attempt[c] > 0}

\* The consensus implements one ledger: no two nodes ever extend their
\* blockchains differently, and Tag returns only once the ledger has the block.
ImplementsLedger == L!Spec

=============================================================================
