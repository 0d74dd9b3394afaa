---------------------------- MODULE MCConsensus ----------------------------
(***************************************************************************)
(* Small instances of Consensus: two forks, with a block on top of each.   *)
(***************************************************************************)
EXTENDS Consensus, TLC

CONSTANTS n1, n2

(* Both nodes are needed, or one decides and the other only follows.       *)
EqualWeight == [n \in Node |-> 1]
LeaderWeight == [n \in Node |-> IF n = n1 THEN 2 ELSE 0]

TreeParent == [b \in Block |-> IF b <= 2 THEN Genesis ELSE b - 2]
TreeChain == [b \in Block |-> IF b <= 2 THEN {b} ELSE {b, b - 2}]

Symmetry == Permutations(Node)
=============================================================================
