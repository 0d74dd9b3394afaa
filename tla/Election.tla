------------------------------ MODULE Election ------------------------------
(***************************************************************************)
(* One election: the votes for the blocks that compete for one root, their *)
(* tallies, the winner, the quorum and the confirmation                    *)
(* (node/src/consensus/election/election.rs, block_tallies.rs).            *)
(*                                                                         *)
(* A block is known by its hash, a positive number, because hashes are     *)
(* compared when two votes of one representative carry the same time.  A   *)
(* node holds the key of at most one representative: a voter is a node.  A *)
(* vote is final when its time is the largest one.                         *)
(***************************************************************************)
EXTENDS Integers, FiniteSetsExt

CONSTANTS
    Node,       \* the nodes, each with one representative or none
    Block,      \* hashes of the blocks, positive numbers
    Weight,     \* voting weight of each node, 0 without representative
    Delta,      \* quorum_delta, the weight that decides
    FinalTime   \* Vote::TIMESTAMP_MAX

Vote == [voter : Node, block : Block, time : 1..FinalTime]

Final(votes) == {v \in votes : v.time = FinalTime}

Voters(votes, b) == {v.voter : v \in {w \in votes : w.block = b}}

WeightOf(nodes) == MapThenSumSet(LAMBDA n : Weight[n], nodes)

Tally(votes, b) == WeightOf(Voters(votes, b))

Quorum == {Q \in SUBSET Node : WeightOf(Q) >= Delta}

(* Two quorums share a voter.  It holds when Delta is more than half of    *)
(* all weight; OnlineReps asks for 67 per cent of the online weight.       *)
ASSUME QuorumAssumption == \A A, B \in Quorum : A \cap B # {}

ASSUME ElectionAssumption ==
    /\ Block \subseteq Nat \ {0}
    /\ Weight \in [Node -> Nat]
    /\ FinalTime \in Nat \ {0}

-----------------------------------------------------------------------------
(* An election is open, confirmed, cancelled or, between two of them for   *)
(* the same root, absent.  Passive and active elections count votes alike. *)

NoElection == [state |-> "none", winner |-> 0, candidates |-> {}, votes |-> {}, quorum |-> FALSE]

ElectionSet ==
    [state : {"none", "open", "confirmed", "cancelled"}, winner : Block \union {0},
     candidates : SUBSET Block, votes : SUBSET Vote, quorum : BOOLEAN]

New(b) == [state |-> "open", winner |-> b, candidates |-> {b}, votes |-> {}, quorum |-> FALSE]

HasEnded(e) == e.state # "open"

(* A full election would discard its weakest block; fewer forks are assumed. *)
TryAddFork(e, b) ==
    IF HasEnded(e) THEN e ELSE [e EXCEPT !.candidates = @ \union {b}]

(* A vote is refused when it is older than the one that is counted, or as   *)
(* old and for a hash that is not larger.                                   *)
EnsureNoReplay(e, v) ==
    \A w \in e.votes :
        w.voter = v.voter => w.time < v.time \/ (w.time = v.time /\ w.block < v.block)

AddVote(e, v) ==
    [e EXCEPT !.votes = {w \in @ : w.voter # v.voter} \union {v}]

(* Only after a quorum of weight has voted may the winner change.  Blocks   *)
(* with the same tally stand in an order the hash map happens to give.      *)
Winners(e) ==
    LET voted == {v.block : v \in e.votes}
    IN  IF WeightOf({v.voter : v \in e.votes}) < Delta
        THEN {e.winner}
        ELSE {b \in voted : \A c \in voted : Tally(e.votes, b) >= Tally(e.votes, c)}

CheckQuorum(votes) ==
    \E b \in Block :
        /\ Tally(votes, b) >= Delta
        /\ \A c \in Block \ {b} : Tally(votes, b) - Tally(votes, c) >= Delta

IsConfirmed(votes, winner) == Tally(Final(votes), winner) >= Delta

(* update_tallies, for every order of equal tallies.                        *)
UpdateTallies(e) ==
    IF HasEnded(e)
    THEN {e}
    ELSE {[state |-> IF IsConfirmed(e.votes, b) THEN "confirmed" ELSE "open",
           winner |-> b, candidates |-> e.candidates, votes |-> e.votes,
           quorum |-> e.quorum \/ CheckQuorum(e.votes)] : b \in Winners(e)}

(* Final votes are asked for once a quorum was seen, for whichever block    *)
(* leads from then on.                                                      *)
IsFinal(e) == e.state = "confirmed" \/ e.quorum
=============================================================================
