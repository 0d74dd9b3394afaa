----------------------------- MODULE Consensus -----------------------------
(***************************************************************************)
(* Nodes that agree by voting on which block follows another.              *)
(*                                                                         *)
(* Every node has a ledger, a table of the final votes it has cast and, in *)
(* memory only, its elections and the queues between its threads.  Blocks  *)
(* form a tree below an already cemented one; blocks with the same parent  *)
(* are forks and share a root.  Votes are never forged, but they arrive at *)
(* any time, in any order, any number of times or not at all, and a node   *)
(* may restart at any point.  The steps inside the ledger are those of     *)
(* module Ledger; here one write transaction is one step.                  *)
(***************************************************************************)
EXTENDS Election

CONSTANTS
    Parent,       \* the block before each block, or Genesis
    Chain,        \* each block with all blocks before it, without Genesis
    MaxFaults,    \* bound on the restarts, timeouts and evictions
    MaxQueued     \* bound on the entries in the queues between a node's threads

VARIABLES
    ledger,       \* the blocks in each node's ledger
    cemented,     \* the confirmed blocks among them
    finalVote,    \* the final vote table: the block for each root, or None
    election,     \* the election for each root
    recent,       \* recently confirmed winners, which get no new election
    generator,    \* votes wanted by the voter, <<block, final>>
    changed,      \* winner changes waiting to be handled, <<old, new>>
    elected,      \* winners of confirmed elections waiting to be handled
    forced,       \* new winners in the block processor, <<step, block>>
    confirming,   \* the confirming set, deferred entries included
    events,       \* ledger events waiting, <<kind, block>>
    clock,        \* time of the last vote for each root that was not final
    faults,       \* number of restarts, timeouts and evictions
    sent          \* all votes that were ever sent

vars == <<ledger, cemented, finalVote, election, recent, generator,
          changed, elected, forced, confirming, events, clock, faults, sent>>

Genesis == 0
None == 0
Root == Block \union {Genesis}
EventKind == {"fork", "confirmed", "rolled back", "failed"}
Event == EventKind \X Block

ASSUME TreeAssumption ==
    /\ Parent \in [Block -> Root]
    /\ Chain \in [Block -> SUBSET Block]
    /\ \A b \in Block :
          /\ Chain[b] = {b} \union (IF Parent[b] = Genesis THEN {} ELSE Chain[Parent[b]])
          /\ \A c \in Chain[b] : Chain[c] \subseteq Chain[b]

ASSUME BoundsAssumption == MaxFaults \in Nat /\ MaxQueued \in Nat

TypeOK ==
    /\ ledger \in [Node -> SUBSET Block]
    /\ cemented \in [Node -> SUBSET Block]
    /\ finalVote \in [Node -> [Root -> Block \union {None}]]
    /\ election \in [Node -> [Root -> ElectionSet]]
    /\ recent \in [Node -> SUBSET Block]
    /\ generator \in [Node -> SUBSET (Block \X BOOLEAN)]
    /\ changed \in [Node -> SUBSET (Block \X Block)]
    /\ elected \in [Node -> SUBSET Block]
    /\ forced \in [Node -> SUBSET ({"queued", "unblocked"} \X Block)]
    /\ confirming \in [Node -> SUBSET Block]
    /\ events \in [Node -> SUBSET Event]
    /\ clock \in [Node -> [Root -> 0..FinalTime - 1]]
    /\ faults \in 0..MaxFaults
    /\ sent \subseteq Vote

Init ==
    /\ ledger = [n \in Node |-> {}]
    /\ cemented = [n \in Node |-> {}]
    /\ finalVote = [n \in Node |-> [r \in Root |-> None]]
    /\ election = [n \in Node |-> [r \in Root |-> NoElection]]
    /\ recent = [n \in Node |-> {}]
    /\ generator = [n \in Node |-> {}]
    /\ changed = [n \in Node |-> {}]
    /\ elected = [n \in Node |-> {}]
    /\ forced = [n \in Node |-> {}]
    /\ confirming = [n \in Node |-> {}]
    /\ events = [n \in Node |-> {}]
    /\ clock = [n \in Node |-> [r \in Root |-> 0]]
    /\ faults = 0
    /\ sent = {}

-----------------------------------------------------------------------------
(* Helpers                                                                 *)

Active(n, r) == election[n][r].state # "none"

HasRoot(n, r) == \E b \in ledger[n] : Parent[b] = r

(* A block and all blocks that follow it in the node's ledger.              *)
Successors(n, b) == {c \in ledger[n] : b \in Chain[c]}

(* Variant: votes do not wait for the block before.                        *)
DependentsInLedger(n, b) == Parent[b] = Genesis \/ Parent[b] \in ledger[n]

(* On a chain of one account the only dependency is the block before.       *)
DependentsConfirmed(n, b) == Parent[b] = Genesis \/ Parent[b] \in cemented[n]

(* The block and all uncemented blocks above it go, unless one is cemented. *)
(* Elections of the ones above are erased when the event is processed.      *)
RollBack(n, b) ==
    /\ ledger' = [ledger EXCEPT ![n] = @ \ Successors(n, b)]
    /\ events' = [events EXCEPT ![n] =
                     @ \union {<<"rolled back", c>> : c \in Successors(n, b) \ {b}}]

(* What interrupts the normal course of things happens a bounded number of  *)
(* times.                                                                   *)
Fault ==
    /\ faults < MaxFaults
    /\ faults' = faults + 1

(* A step that would fill the queues further waits while they are full.     *)
Queued(n) ==
    Cardinality(changed[n]) + Cardinality(elected[n]) + Cardinality(forced[n])
        + Cardinality(events[n])

HasRoom(n) == Queued(n)' <= Queued(n) \/ Queued(n) < MaxQueued

(* Only a node whose wallet has a representative with enough weight votes;  *)
(* the others keep elections and cement like it.                            *)
IsRepresentative(n) == Weight[n] > 0

Send(n, b, t) == sent' = sent \union {[voter |-> n, block |-> b, time |-> t]}

-----------------------------------------------------------------------------
(* Blocks                                                                  *)

(* A block is inserted if its parent is in the ledger and its root is free. *)
(* A fork is announced; any other block is dropped.                         *)
Process(n, b) ==
    LET free == ~ HasRoot(n, Parent[b]) /\ (Parent[b] = Genesis \/ Parent[b] \in ledger[n])
        fork == HasRoot(n, Parent[b]) /\ b \notin ledger[n]
    IN  /\ ledger' = [ledger EXCEPT ![n] = IF free THEN @ \union {b} ELSE @]
        /\ events' = [events EXCEPT ![n] = IF fork THEN @ \union {<<"fork", b>>} ELSE @]

ProcessBlock(n, b) ==
    /\ Process(n, b)
    /\ UNCHANGED <<cemented, finalVote, election, recent, generator, changed,
                   elected, forced, confirming, clock, faults, sent>>
    /\ HasRoom(n)

(* A block that is forced into the ledger takes two transactions: first the *)
(* competitor is rolled back, unless it is cemented, then the block is      *)
(* processed like any other one.                                            *)
RollBackCompetitor(n, b) ==
    /\ <<"queued", b>> \in forced[n]
    /\ forced' = [forced EXCEPT ![n] = (@ \ {<<"queued", b>>}) \union {<<"unblocked", b>>}]
    /\ LET competitors == {c \in ledger[n] \ {b} : Parent[c] = Parent[b]}
       IN  \/ \E c \in competitors \ cemented[n] : RollBack(n, c)
           \/ competitors \subseteq cemented[n] /\ UNCHANGED <<ledger, events>>
    /\ UNCHANGED <<cemented, finalVote, election, recent, generator, changed,
                   elected, confirming, clock, faults, sent>>

ProcessForced(n, b) ==
    /\ <<"unblocked", b>> \in forced[n]
    /\ forced' = [forced EXCEPT ![n] = @ \ {<<"unblocked", b>>}]
    /\ Process(n, b)
    /\ UNCHANGED <<cemented, finalVote, election, recent, generator, changed,
                   elected, confirming, clock, faults, sent>>

(* The bounded backlog removes a block that no election and no confirmation *)
(* is about; the blocks above it are not asked.                             *)
RollBackBacklog(n, b) ==
    /\ b \in ledger[n] \ cemented[n]
    /\ b \notin election[n][Parent[b]].candidates
    /\ b \notin recent[n] \union confirming[n]
    /\ RollBack(n, b)
    /\ Fault
    /\ UNCHANGED <<cemented, finalVote, election, recent, generator,
                   changed, elected, forced, confirming, clock, sent>>
    /\ HasRoom(n)

-----------------------------------------------------------------------------
(* Elections                                                               *)

(* A scheduler starts an election for an unconfirmed block.                 *)
StartElection(n, b) ==
    /\ b \in ledger[n] \ cemented[n]
    /\ ~ Active(n, Parent[b])
    /\ \A c \in recent[n] : Parent[c] # Parent[b]
    /\ election' = [election EXCEPT ![n][Parent[b]] = New(b)]
    /\ UNCHANGED <<ledger, cemented, finalVote, recent, generator, changed,
                   elected, forced, confirming, events, clock, faults, sent>>

(* An election that has ended is erased; one that has not may time out or   *)
(* make room for another one.                                               *)
EraseElection(n, r) ==
    /\ Active(n, r)
    /\ election' = [election EXCEPT ![n][r] = NoElection]
    /\ IF HasEnded(election[n][r]) THEN UNCHANGED faults ELSE Fault
    /\ UNCHANGED <<ledger, cemented, finalVote, recent, generator,
                   changed, elected, forced, confirming, events, clock, sent>>

(* A vote reaches the election its block is a candidate of.                 *)
ApplyVote(n, v) ==
    LET r == Parent[v.block]
        e == election[n][r]
    IN  /\ v.block \in e.candidates
        /\ e.state # "confirmed"
        /\ EnsureNoReplay(e, v)
        /\ \E f \in UpdateTallies(AddVote(e, v)) :
              /\ changed' = [changed EXCEPT ![n] =
                    IF f.winner # e.winner THEN @ \union {<<e.winner, f.winner>>} ELSE @]
              /\ IF f.state = "confirmed"
                 THEN /\ election' = [election EXCEPT ![n][r] = NoElection]
                      /\ elected' = [elected EXCEPT ![n] = @ \union {f.winner}]
                      /\ recent' = [recent EXCEPT ![n] =
                            IF \E c \in @ : Parent[c] = r THEN @ ELSE @ \union {f.winner}]
                 ELSE /\ election' = [election EXCEPT ![n][r] = f]
                      /\ UNCHANGED <<elected, recent>>
        /\ UNCHANGED <<ledger, cemented, finalVote, generator, forced,
                       confirming, events, clock, faults, sent>>
        /\ HasRoom(n)

(* A new winner is queued to be forced into the ledger.  The node's own     *)
(* vote leaves the election if the history of local votes still has it for  *)
(* the old winner.                                                          *)
HandleWinnerChanged(n, old, new) ==
    /\ <<old, new>> \in changed[n]
    /\ changed' = [changed EXCEPT ![n] = @ \ {<<old, new>>}]
    /\ forced' = [forced EXCEPT ![n] = @ \union {<<"queued", new>>}]
    /\ \/ UNCHANGED election
       \/ /\ \E v \in sent : v.voter = n /\ v.block = old
          /\ election' = [election EXCEPT ![n][Parent[new]].votes =
                             {v \in @ : v.voter # n}]
    /\ UNCHANGED <<ledger, cemented, finalVote, recent, generator, elected,
                   confirming, events, clock, faults, sent>>

(* The winner of a confirmed election enters the confirming set.            *)
HandleConfirmed(n, b) ==
    /\ b \in elected[n]
    /\ elected' = [elected EXCEPT ![n] = @ \ {b}]
    /\ confirming' = [confirming EXCEPT ![n] = @ \union {b}]
    /\ UNCHANGED <<ledger, cemented, finalVote, election, recent, generator,
                   changed, forced, events, clock, faults, sent>>

-----------------------------------------------------------------------------
(* Votes                                                                   *)

(* Variant: a root without election is voted on.                           *)
VoterTickAnyRoot(n, r) ==
    /\ generator' = [generator EXCEPT ![n] =
                        @ \union {<<election[n][r].winner, IsFinal(election[n][r])>>}]
    /\ UNCHANGED <<ledger, cemented, finalVote, election, recent, changed,
                   elected, forced, confirming, events, clock, faults, sent>>

(* The voter asks for a vote on the current winner.                         *)
VoterTick(n, r) ==
    /\ Active(n, r)
    /\ Cardinality(generator[n]) < MaxQueued
    /\ generator' = [generator EXCEPT ![n] =
                        @ \union {<<election[n][r].winner, IsFinal(election[n][r])>>}]
    /\ UNCHANGED <<ledger, cemented, finalVote, election, recent, changed,
                   elected, forced, confirming, events, clock, faults, sent>>

(* Verified votes wait once more before they are signed and broadcast; as   *)
(* a vote may take any time to arrive, it counts as sent from here on.      *)
GenerateVote(n, b) ==
    /\ <<b, FALSE>> \in generator[n]
    /\ generator' = [generator EXCEPT ![n] = @ \ {<<b, FALSE>>}]
    /\ IF IsRepresentative(n) /\ b \in ledger[n] /\ DependentsConfirmed(n, b)
       THEN /\ clock[n][Parent[b]] + 1 < FinalTime
            /\ clock' = [clock EXCEPT ![n][Parent[b]] = @ + 1]
            /\ Send(n, b, clock[n][Parent[b]] + 1)
       ELSE UNCHANGED <<clock, sent>>
    /\ UNCHANGED <<ledger, cemented, finalVote, election, recent, changed,
                   elected, forced, confirming, events, faults>>

(* Variant: the table is written but not respected.                        *)
ShouldVoteAgain(n, b) == b \in ledger[n] /\ DependentsConfirmed(n, b)

(* should_vote_final, which enters the block into the table if the root has *)
(* no entry.                                                                *)
ShouldVoteFinal(n, b) ==
    /\ b \in ledger[n]
    /\ DependentsConfirmed(n, b)
    /\ finalVote[n][Parent[b]] \in {None, b}

GenerateFinalVote(n, b) ==
    /\ <<b, TRUE>> \in generator[n]
    /\ generator' = [generator EXCEPT ![n] = @ \ {<<b, TRUE>>}]
    /\ IF ShouldVoteFinal(n, b)
       THEN /\ finalVote' = [finalVote EXCEPT ![n][Parent[b]] = b]
            /\ IF IsRepresentative(n) THEN Send(n, b, FinalTime) ELSE UNCHANGED sent
       ELSE UNCHANGED <<finalVote, sent>>
    /\ UNCHANGED <<ledger, cemented, election, recent, changed,
                   elected, forced, confirming, events, clock, faults>>

(* The table decides which request gets a final vote, or the confirmation   *)
(* if the table has no entry.  The reply does not write the table.          *)
RepliesFinal(n, b) ==
    IF finalVote[n][Parent[b]] # None
    THEN finalVote[n][Parent[b]] = b
    ELSE b \in cemented[n]

ReplyToRequest(n, b) ==
    /\ IsRepresentative(n)
    /\ b \in ledger[n]
    /\ RepliesFinal(n, b)
    /\ DependentsConfirmed(n, b)
    /\ Send(n, b, FinalTime)
    /\ UNCHANGED <<ledger, cemented, finalVote, election, recent, generator,
                   changed, elected, forced, confirming, events, clock, faults>>

-----------------------------------------------------------------------------
(* Cementing                                                               *)

(* Variant: whichever block the ledger has for the root is cemented.       *)
CementRoot(n, b, c) ==
    /\ b \in confirming[n]
    /\ \E d \in ledger[n] :
          /\ Parent[d] = Parent[b]
          /\ cemented' = [cemented EXCEPT ![n] = @ \union Chain[d]]
    /\ confirming' = [confirming EXCEPT ![n] = @ \ {b}]
    /\ UNCHANGED <<ledger, finalVote, election, recent, generator,
                   changed, elected, forced, events, clock, faults, sent>>
    /\ HasRoom(n)

(* The winner b is cemented after everything before it; c is the last block *)
(* of one transaction.  A winner that is not in the ledger is deferred: it  *)
(* stays in the set.                                                        *)
Cement(n, b, c) ==
    /\ b \in confirming[n] \intersect ledger[n]
    /\ cemented' = [cemented EXCEPT ![n] = @ \union Chain[c]]
    /\ confirming' = [confirming EXCEPT ![n] = IF c = b THEN @ \ {b} ELSE @]
    /\ events' = [events EXCEPT ![n] =
                     @ \union {<<"confirmed", d>> : d \in Chain[c] \ (cemented[n] \union {b})}]
    /\ UNCHANGED <<ledger, finalVote, election, recent, generator,
                   changed, elected, forced, clock, faults, sent>>
    /\ HasRoom(n)

(* A deferred block that got too old is given up.                           *)
EvictDeferred(n, b) ==
    /\ b \in confirming[n] \ ledger[n]
    /\ confirming' = [confirming EXCEPT ![n] = @ \ {b}]
    /\ events' = [events EXCEPT ![n] = @ \union {<<"failed", b>>}]
    /\ Fault
    /\ UNCHANGED <<ledger, cemented, finalVote, election, recent, generator,
                   changed, elected, forced, clock, sent>>
    /\ HasRoom(n)

(* Elections follow the ledger: a fork joins the one for its root, one      *)
(* whose winner was cemented with another block is confirmed, one for       *)
(* another block is cancelled, one whose block was rolled back with another *)
(* is erased.  A block given up may have an election again.                 *)
HandleLedgerEvent(n, kind, b) ==
    LET r == Parent[b]
        e == election[n][r]
        ended == IF HasEnded(e) THEN e
                 ELSE [e EXCEPT !.state = IF e.winner = b THEN "confirmed" ELSE "cancelled"]
        new == IF kind = "fork" THEN TryAddFork(e, b)
               ELSE IF kind = "confirmed" THEN ended
               ELSE IF kind = "rolled back" THEN NoElection
               ELSE e
    IN  /\ <<kind, b>> \in events[n]
        /\ events' = [events EXCEPT ![n] = @ \ {<<kind, b>>}]
        /\ election' = [election EXCEPT ![n][r] = new]
        /\ recent' = [recent EXCEPT ![n] = IF kind = "failed" THEN @ \ {b} ELSE @]
        /\ UNCHANGED <<ledger, cemented, finalVote, generator, changed,
                       elected, forced, confirming, clock, faults, sent>>

(* Only what is in the database survives.                                   *)
Restart(n) ==
    /\ Fault
    /\ election' = [election EXCEPT ![n] = [r \in Root |-> NoElection]]
    /\ recent' = [recent EXCEPT ![n] = {}]
    /\ generator' = [generator EXCEPT ![n] = {}]
    /\ changed' = [changed EXCEPT ![n] = {}]
    /\ elected' = [elected EXCEPT ![n] = {}]
    /\ forced' = [forced EXCEPT ![n] = {}]
    /\ confirming' = [confirming EXCEPT ![n] = {}]
    /\ events' = [events EXCEPT ![n] = {}]
    /\ UNCHANGED <<ledger, cemented, finalVote, clock, sent>>

-----------------------------------------------------------------------------
NodeNext(n) ==
    \/ \E b \in Block :
          \/ ProcessBlock(n, b)
          \/ RollBackCompetitor(n, b)
          \/ ProcessForced(n, b)
          \/ RollBackBacklog(n, b)
          \/ StartElection(n, b)
          \/ HandleConfirmed(n, b)
          \/ GenerateVote(n, b)
          \/ GenerateFinalVote(n, b)
          \/ ReplyToRequest(n, b)
          \/ EvictDeferred(n, b)
          \/ \E c \in Chain[b] : Cement(n, b, c)
    \/ \E r \in Root : EraseElection(n, r) \/ VoterTick(n, r)
    \/ \E v \in sent : ApplyVote(n, v)
    \/ \E b, c \in Block : HandleWinnerChanged(n, b, c)
    \/ \E kind \in EventKind, b \in Block : HandleLedgerEvent(n, kind, b)
    \/ Restart(n)

Next == \E n \in Node : NodeNext(n)

Spec == Init /\ [][Next]_vars

-----------------------------------------------------------------------------
(* Properties                                                              *)

(* A quorum has sent final votes for the block.                             *)
Decided(b) == \E Q \in Quorum : Q \subseteq Voters(Final(sent), b)

(* No two nodes ever cement different blocks for the same root.  Confirming *)
(* an election and cementing the winner with all blocks before it, while    *)
(* winners change, nodes restart and blocks are rolled back, never forks    *)
(* the confirmed ledgers.                                                   *)
Agreement ==
    \A n, m \in Node : \A b \in cemented[n], c \in cemented[m] :
        Parent[b] = Parent[c] => b = c

(* A representative casts at most one final vote per root, ever: through    *)
(* the vote generator, in replies to requests, after rollbacks, after the   *)
(* confirmation of another block and across restarts.                       *)
FinalVoteUnique ==
    \A v, w \in Final(sent) :
        v.voter = w.voter /\ Parent[v.block] = Parent[w.block] => v.block = w.block

(* Every cemented block has a quorum of final votes of its own, also one    *)
(* that was cemented only because a later block was confirmed: voters cast  *)
(* final votes only on what follows a confirmed block.                      *)
CementedHasQuorum ==
    \A n \in Node : \A b \in cemented[n] : Decided(b)
=============================================================================
