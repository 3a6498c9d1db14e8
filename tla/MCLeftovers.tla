---------------------------- MODULE MCLeftovers ----------------------------
(* An instance of Leftovers for TLC: a contract whose file can be cut in   *)
(* two ways, of a root each and a leaf that both have.                     *)
EXTENDS MCFileStore, Leftovers, TLC

ThreeBlocks == {b1, b2, b4}
TwoCuts == [m \in Merkles |-> {b1, b4}]
TwoCutsDag == [r \in {b1, b4} |-> {r, b2}]

\* The goroutines are alike, and so are the cuts.
Alike == Permutations(TwoProcs) \cup Permutations({b1, b4})
=============================================================================
