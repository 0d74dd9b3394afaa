------------------------ MODULE MCElectionSchedulers ------------------------
(* Three roots. The forks a1, a2 and a3 share one; a2 is in another bucket  *)
(* than the other two, as forks may leave different balances.               *)
EXTENDS ElectionSchedulers

CONSTANTS a1, a2, a3, b, c

MCRootOf == [x \in Block |-> IF x \in {a1, a2, a3} THEN "ra" ELSE IF x = b THEN "rb" ELSE "rc"]
MCTime == [x \in Block |-> IF x \in {a1, a2, a3} THEN 2 ELSE 1]
MCBalance == [x \in Block |-> IF x \in {a2, c} THEN 1 ELSE 0]
=============================================================================
