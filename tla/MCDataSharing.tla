--------------------------- MODULE MCDataSharing ---------------------------
(***************************************************************************)
(* An instance of DataSharing for TLC: a file of two chunks that one peer  *)
(* holds in full and another in part, and a peer that looks for it.        *)
(***************************************************************************)
EXTENDS DataSharing, TLC

CONSTANTS n1, n2, n3, x, mx, k1, k2, c1, d1

ThreeNodes == {n1, n2, n3}

\* All peers are neighbours, so that a request comes back to n1, but n2 relays
\* between n1 and n3.
Triangle == [n \in ThreeNodes |-> ThreeNodes \ {n}]
ByRelay == [n \in ThreeNodes |-> [m \in ThreeNodes |-> IF {n, m} = {n1, n3} THEN n2 ELSE m]]

File == x :> <<mx, k1, k2>>
Named == [n \in ThreeNodes |-> IF n = n1 THEN {} ELSE {x}]
Stored == n1 :> {k1} @@ n2 :> {mx, k1} @@ n3 :> {mx, k1, k2}

\* n1 searches the file and downloads it.
\* Two attempts: Initial = 2, Factor = 3.
Ring == [i \in 0 .. 1 |-> 2 * 3 ^ i]

ByOne == c1 :> n1
AnyFile == c1 :> {x}
GetByOne == d1 :> n1
GetFile == d1 :> x

=============================================================================
