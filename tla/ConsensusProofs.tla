-------------------------- MODULE ConsensusProofs --------------------------
(***************************************************************************)
(* Agreement of the nodes, for every number of nodes and blocks, every     *)
(* distribution of weight, any number of votes and any number of faults.   *)
(***************************************************************************)
EXTENDS Consensus, TLAPS

(***************************************************************************)
(* The inductive invariant                                                 *)
(***************************************************************************)
(* A ledger is a path: one block per root, with everything before it.      *)
LedgerInv ==
    \A n \in Node :
        /\ cemented[n] \subseteq ledger[n]
        /\ \A b, c \in ledger[n] : Parent[b] = Parent[c] => b = c
        /\ \A b \in ledger[n] : Chain[b] \subseteq ledger[n]
        /\ \A b \in cemented[n] : Chain[b] \subseteq cemented[n]

(* Elections have a winner and count only votes that were sent.            *)
HasWinner(e) == e.winner \in Block \/ (e.state = "none" /\ e.candidates = {})

ElectionInv ==
    \A n \in Node, r \in Root :
        HasWinner(election[n][r]) /\ election[n][r].votes \subseteq sent

(* A final vote that was sent is in the table of its voter, or the voter   *)
(* had cemented the block without ever voting on it; what the block        *)
(* follows is cemented there.                                              *)
VoteInv ==
    \A v \in Final(sent) :
        /\ \/ finalVote[v.voter][Parent[v.block]] = v.block
           \/ /\ finalVote[v.voter][Parent[v.block]] = None
              /\ v.block \in cemented[v.voter]
        /\ DependentsConfirmed(v.voter, v.block)

(* Winners go into the queue to the confirming set, and from there into    *)
(* the cemented part, only with a quorum of final votes.                   *)
QuorumInv ==
    /\ \A n \in Node : \A b \in elected[n] \union confirming[n] : Decided(b)
    /\ CementedHasQuorum

IInv == TypeOK /\ LedgerInv /\ ElectionInv /\ VoteInv /\ QuorumInv

(***************************************************************************)
(* Votes and elections                                                     *)
(***************************************************************************)
(* update_tallies keeps an election an election, with a winner, and the    *)
(* votes it counted.                                                       *)
LEMMA TalliesTyped ==
  ASSUME NEW e \in ElectionSet, e.winner \in Block, NEW f \in UpdateTallies(e)
  PROVE  /\ f \in ElectionSet /\ f.winner \in Block /\ f.votes = e.votes
         /\ f.state = "none" => e.state = "none"
<1>1. CASE HasEnded(e)
  BY <1>1 DEF UpdateTallies
<1>2. CASE ~HasEnded(e)
  <2>1. CheckQuorum(e.votes) \in BOOLEAN /\ e.quorum \in BOOLEAN
    BY DEF CheckQuorum, ElectionSet
  <2>2. \A b \in Winners(e) : b \in Block
    BY DEF Winners, ElectionSet, Vote
  <2>3. PICK b \in Winners(e) :
          f = [state |-> IF IsConfirmed(e.votes, b) THEN "confirmed" ELSE "open",
               winner |-> b, candidates |-> e.candidates, votes |-> e.votes,
               quorum |-> e.quorum \/ CheckQuorum(e.votes)]
    BY <1>2, Zenon DEF UpdateTallies
  <2>4. b \in Block
    BY <2>2
  <2>5. (e.quorum \/ CheckQuorum(e.votes)) \in BOOLEAN
    BY <2>1
  <2> QED BY <1>2, <2>3, <2>4, <2>5 DEF ElectionSet, HasEnded
<1> QED BY <1>1, <1>2

(* An election is confirmed by a quorum of final votes for its winner.     *)
LEMMA ConfirmedByQuorum ==
  ASSUME NEW e \in ElectionSet, e.state # "confirmed",
         NEW f \in UpdateTallies(e), f.state = "confirmed"
  PROVE  \E Q \in Quorum : Q \subseteq Voters(Final(e.votes), f.winner)
<1>1. ~HasEnded(e)
  BY DEF UpdateTallies
<1>2. PICK b \in Winners(e) :
        f = [state |-> IF IsConfirmed(e.votes, b) THEN "confirmed" ELSE "open",
               winner |-> b, candidates |-> e.candidates, votes |-> e.votes,
               quorum |-> e.quorum \/ CheckQuorum(e.votes)]
  BY <1>1, Zenon DEF UpdateTallies
<1>3. f.winner = b /\ IsConfirmed(e.votes, b)
  BY <1>2 DEF ElectionSet
<1>4. Voters(Final(e.votes), b) \in SUBSET Node
  BY DEF Voters, Final, ElectionSet, Vote
<1> QED BY <1>3, <1>4 DEF IsConfirmed, Tally, Quorum

(* More votes decide no less.                                              *)
LEMMA DecidedStays ==
  ASSUME sent \subseteq sent', NEW b, Decided(b)
  PROVE  Decided(b)'
BY DEF Decided, Voters, Final

(***************************************************************************)
(* The steps                                                               *)
(***************************************************************************)
(* The ledger keeps its shape: blocks are inserted on top of the one they  *)
(* follow, removed with all that follow them, and cemented with all they   *)
(* follow.                                                                 *)
LEMMA InsertKeepsLedger ==
  ASSUME TypeOK, LedgerInv, NEW n \in Node, NEW b \in Block, Process(n, b),
         cemented' = cemented
  PROVE  LedgerInv'
<1> DEFINE free == ~HasRoot(n, Parent[b]) /\ (Parent[b] = Genesis \/ Parent[b] \in ledger[n])
<1>1. CASE ~free
  <2>1. ledger' = [ledger EXCEPT ![n] = ledger[n]]
    BY <1>1, Zenon DEF Process
  <2>2. ledger' = ledger
    BY <2>1 DEF TypeOK
  <2> QED BY <2>2 DEF LedgerInv
<1>2. CASE free
  <2>1. ledger' = [ledger EXCEPT ![n] = @ \union {b}] /\ cemented' = cemented
    BY <1>2, Zenon DEF Process
  <2>2. Chain[b] \subseteq ledger[n] \union {b}
    BY <1>2, TreeAssumption DEF LedgerInv
  <2> SUFFICES ASSUME NEW m \in Node
               PROVE  /\ cemented'[m] \subseteq ledger'[m]
                      /\ \A x, y \in ledger'[m] : Parent[x] = Parent[y] => x = y
                      /\ \A x \in ledger'[m] : Chain[x] \subseteq ledger'[m]
                      /\ \A x \in cemented'[m] : Chain[x] \subseteq cemented'[m]
    BY DEF LedgerInv
  <2>3. CASE m # n
    <3>1. ledger'[m] = ledger[m] /\ cemented'[m] = cemented[m]
      BY <2>1, <2>3 DEF TypeOK
    <3> QED BY <3>1 DEF LedgerInv
  <2>4. CASE m = n
    <3>1. ledger'[m] = ledger[n] \union {b} /\ cemented'[m] = cemented[n]
      BY <2>1, <2>4 DEF TypeOK
    <3> QED BY <1>2, <2>2, <3>1 DEF LedgerInv, HasRoot
  <2> QED BY <2>3, <2>4
<1> QED BY <1>1, <1>2

LEMMA RollBackKeepsLedger ==
  ASSUME TypeOK, LedgerInv, NEW n \in Node, NEW b \in ledger[n] \ cemented[n],
         RollBack(n, b), cemented' = cemented
  PROVE  LedgerInv'
<1> SUFFICES ASSUME NEW m \in Node
             PROVE  /\ cemented'[m] \subseteq ledger'[m]
                    /\ \A x, y \in ledger'[m] : Parent[x] = Parent[y] => x = y
                    /\ \A x \in ledger'[m] : Chain[x] \subseteq ledger'[m]
                    /\ \A x \in cemented'[m] : Chain[x] \subseteq cemented'[m]
  BY DEF LedgerInv
<1>1. CASE m # n
  <2>1. ledger'[m] = ledger[m] /\ cemented'[m] = cemented[m]
    BY <1>1 DEF RollBack, TypeOK
  <2> QED BY <2>1 DEF LedgerInv
<1>2. CASE m = n
  <2>1. ledger'[m] = {x \in ledger[n] : b \notin Chain[x]} /\ cemented'[m] = cemented[n]
    BY <1>2 DEF RollBack, Successors, TypeOK
  <2>2. \A x \in ledger[n] : \A y \in Chain[x] : Chain[y] \subseteq Chain[x]
    BY TreeAssumption DEF TypeOK
  <2> QED BY <2>1, <2>2 DEF LedgerInv
<1> QED BY <1>1, <1>2

LEMMA CementKeepsLedger ==
  ASSUME TypeOK, LedgerInv, NEW n \in Node, NEW b \in Block, NEW c \in Chain[b],
         Cement(n, b, c)
  PROVE  LedgerInv'
<1> SUFFICES ASSUME NEW m \in Node
             PROVE  /\ cemented'[m] \subseteq ledger'[m]
                    /\ \A x, y \in ledger'[m] : Parent[x] = Parent[y] => x = y
                    /\ \A x \in ledger'[m] : Chain[x] \subseteq ledger'[m]
                    /\ \A x \in cemented'[m] : Chain[x] \subseteq cemented'[m]
  BY DEF LedgerInv
<1>1. CASE m # n
  <2>1. ledger'[m] = ledger[m] /\ cemented'[m] = cemented[m]
    BY <1>1 DEF Cement, TypeOK
  <2> QED BY <2>1 DEF LedgerInv
<1>2. CASE m = n
  <2>1. ledger'[m] = ledger[n] /\ cemented'[m] = cemented[n] \union Chain[c]
    BY <1>2 DEF Cement, TypeOK
  <2>2. Chain[c] \subseteq Chain[b] /\ \A y \in Chain[b] : Chain[y] \subseteq Chain[b]
    BY TreeAssumption, SMTT(30)
  <2>3. c \in Block /\ \A y \in Chain[c] : Chain[y] \subseteq Chain[c]
    BY TreeAssumption, SMTT(30)
  <2> QED BY <2>1, <2>2, <2>3 DEF Cement, LedgerInv
<1> QED BY <1>1, <1>2

LEMMA LedgerStep ==
  ASSUME TypeOK, LedgerInv, NEW n \in Node, NodeNext(n)
  PROVE  LedgerInv'
<1>1. CASE UNCHANGED <<ledger, cemented>>
  BY <1>1 DEF LedgerInv
<1>2. ASSUME NEW b \in Block, ProcessBlock(n, b) \/ ProcessForced(n, b) PROVE LedgerInv'
  BY <1>2, InsertKeepsLedger DEF ProcessBlock, ProcessForced
<1>3. ASSUME NEW b \in Block, RollBackBacklog(n, b) PROVE LedgerInv'
  BY <1>3, RollBackKeepsLedger DEF RollBackBacklog
<1>4. ASSUME NEW b \in Block, RollBackCompetitor(n, b) PROVE LedgerInv'
  <2>1. CASE UNCHANGED <<ledger, events>>
    BY <1>1, <1>4, <2>1 DEF RollBackCompetitor
  <2>2. CASE ~ UNCHANGED <<ledger, events>>
    BY <1>4, <2>2, RollBackKeepsLedger DEF RollBackCompetitor
  <2> QED BY <2>1, <2>2
<1>5. ASSUME NEW b \in Block, NEW c \in Chain[b], Cement(n, b, c) PROVE LedgerInv'
  BY <1>5, CementKeepsLedger
<1> QED
  BY <1>1, <1>2, <1>3, <1>4, <1>5, Zenon
  DEF NodeNext, StartElection, HandleConfirmed, GenerateVote, GenerateFinalVote,
      ReplyToRequest, EvictDeferred, EraseElection, VoterTick, ApplyVote,
      HandleWinnerChanged, HandleLedgerEvent, Restart

(* One election changes, or none.                                          *)
ElectionType == election \in [Node -> [Root -> ElectionSet]]

LEMMA OneElectionChanges ==
  ASSUME ElectionType, ElectionInv, sent \subseteq sent', NEW n \in Node, NEW r \in Root,
         NEW e \in ElectionSet, HasWinner(e), e.votes \subseteq sent,
         election' = [election EXCEPT ![n][r] = e]
  PROVE  ElectionType' /\ ElectionInv'
<1>1. ElectionType'
  BY DEF ElectionType
<1>2. ASSUME NEW m \in Node, NEW q \in Root
      PROVE  election'[m][q] = IF m = n /\ q = r THEN e ELSE election[m][q]
  BY DEF ElectionType
<1>3. ElectionInv'
  BY <1>2 DEF ElectionInv, HasWinner
<1> QED BY <1>1, <1>3

LEMMA NoElectionChanges ==
  ASSUME ElectionType, ElectionInv, sent \subseteq sent', election' = election
  PROVE  ElectionType' /\ ElectionInv'
BY DEF ElectionType, ElectionInv, HasWinner

LEMMA NoElectionFits ==
  /\ NoElection \in ElectionSet
  /\ HasWinner(NoElection) /\ NoElection.votes = {}
BY SMTT(30) DEF NoElection, ElectionSet, HasWinner

(* A vote reaches only an election that has a winner; counting it leaves   *)
(* one that has a winner.                                                  *)
LEMMA VoteFacts ==
  ASSUME TypeOK, ElectionInv, NEW n \in Node, NEW v \in sent, ApplyVote(n, v)
  PROVE  LET e == election[n][Parent[v.block]]
             g == AddVote(e, v)
         IN  /\ e.winner \in Block
             /\ g \in ElectionSet /\ g.votes \subseteq sent /\ g.state # "confirmed"
             /\ \A f \in UpdateTallies(g) :
                   f \in ElectionSet /\ f.winner \in Block /\ f.votes = g.votes
<1> DEFINE r == Parent[v.block]
           e == election[n][r]
           g == AddVote(e, v)
<1>1. v \in Vote /\ v.block \in Block /\ r \in Root
  BY TreeAssumption DEF TypeOK, Vote
<1>2. e \in ElectionSet /\ HasWinner(e) /\ e.votes \subseteq sent
  BY <1>1, SMTT(30) DEF TypeOK, ElectionInv
<1>3. v.block \in e.candidates /\ e.state # "confirmed"
  BY SMTT(30) DEF ApplyVote
<1>4. e.winner \in Block
  BY <1>2, <1>3, SMTT(30) DEF HasWinner
<1>5. /\ g \in ElectionSet /\ g.winner = e.winner /\ g.state = e.state
      /\ g.votes \subseteq sent
  BY <1>1, <1>2 DEF AddVote, ElectionSet
<1> HIDE DEF e, g
<1>6. \A f \in UpdateTallies(g) :
        f \in ElectionSet /\ f.winner \in Block /\ f.votes = g.votes
  BY <1>4, <1>5, TalliesTyped, SMTT(30)
<1> QED BY <1>3, <1>4, <1>5, <1>6, Zenon DEF e, g

(* A new election, a vote, a fork that joins one and the end of one.       *)
LEMMA ElectionStep ==
  ASSUME TypeOK, ElectionInv, NEW n \in Node, NodeNext(n), sent \subseteq sent'
  PROVE  ElectionType' /\ ElectionInv'
<1>1. ElectionType /\ sent \subseteq Vote /\ ledger \in [Node -> SUBSET Block]
  BY DEF TypeOK, ElectionType
<1>2. \A m \in Node, r \in Root :
        /\ election[m][r] \in ElectionSet
        /\ HasWinner(election[m][r]) /\ election[m][r].votes \subseteq sent
  BY <1>1 DEF ElectionType, ElectionInv
<1>3. \A b \in Block : Parent[b] \in Root
  BY TreeAssumption
<1>4. CASE election' = election
  BY <1>1, <1>4, NoElectionChanges
<1>5. ASSUME NEW b \in Block, StartElection(n, b) PROVE ElectionType' /\ ElectionInv'
  <2>1. New(b) \in ElectionSet /\ HasWinner(New(b)) /\ New(b).votes = {}
    BY DEF New, ElectionSet, HasWinner
  <2> QED BY <1>1, <1>3, <1>5, <2>1, OneElectionChanges, Zenon DEF StartElection
<1>6. ASSUME NEW r \in Root, EraseElection(n, r) PROVE ElectionType' /\ ElectionInv'
  BY <1>1, <1>6, NoElectionFits, OneElectionChanges, Zenon DEF EraseElection
<1>7. ASSUME NEW v \in sent, ApplyVote(n, v) PROVE ElectionType' /\ ElectionInv'
  <2> DEFINE r == Parent[v.block]
             e == election[n][r]
             g == AddVote(e, v)
  <2>1. r \in Root
    BY <1>1, <1>3, SMTT(30) DEF Vote
  <2>2. PICK f \in UpdateTallies(g) :
          \/ election' = [election EXCEPT ![n][r] = NoElection]
          \/ election' = [election EXCEPT ![n][r] = f]
    BY <1>7, SMTT(30) DEF ApplyVote
  <2>3. f \in ElectionSet /\ HasWinner(f) /\ f.votes \subseteq sent
    BY <1>7, VoteFacts DEF HasWinner
  <2> HIDE DEF r, e, g
  <2> QED BY <1>1, <2>1, <2>2, <2>3, NoElectionFits, OneElectionChanges
<1>8. ASSUME NEW b \in Block, NEW c \in Block, HandleWinnerChanged(n, b, c)
      PROVE  ElectionType' /\ ElectionInv'
  <2> DEFINE r == Parent[c]
             e == [election[n][r] EXCEPT !.votes = {v \in @ : v.voter # n}]
  <2>1. e \in ElectionSet /\ HasWinner(e) /\ e.votes \subseteq sent /\ r \in Root
    BY <1>2, <1>3 DEF ElectionSet, HasWinner
  <2>2. \/ election' = election
        \/ election' = [election EXCEPT ![n][r].votes = {v \in @ : v.voter # n}]
    BY <1>8 DEF HandleWinnerChanged
  <2> HIDE DEF r
  <2>3. election' = election \/ election' = [election EXCEPT ![n][r] = e]
    BY <2>2
  <2> HIDE DEF e
  <2> QED BY <1>1, <1>4, <2>1, <2>3, OneElectionChanges, SMTT(30)
<1>9. ASSUME NEW kind \in EventKind, NEW b \in Block, HandleLedgerEvent(n, kind, b)
       PROVE  ElectionType' /\ ElectionInv'
  <2> DEFINE r == Parent[b]
             e == election[n][r]
             s == IF e.winner = b THEN "confirmed" ELSE "cancelled"
             f == IF kind = "fork" THEN TryAddFork(e, b)
                  ELSE IF kind = "confirmed"
                       THEN IF HasEnded(e) THEN e ELSE [e EXCEPT !.state = s]
                  ELSE IF kind = "rolled back" THEN NoElection
                  ELSE e
  <2>1. e \in ElectionSet /\ HasWinner(e) /\ e.votes \subseteq sent /\ r \in Root
    BY <1>2, <1>3
  <2>2. ~HasEnded(e) => e.winner \in Block
    BY <2>1 DEF HasEnded, HasWinner
  <2>3. election' = [election EXCEPT ![n][r] = f]
    BY <1>9, Zenon DEF HandleLedgerEvent
  <2> HIDE DEF e
  <2>4. s \in {"confirmed", "cancelled"}
    OBVIOUS
  <2> HIDE DEF s
  <2>5. LET g == TryAddFork(e, b) IN g \in ElectionSet /\ HasWinner(g) /\ g.votes = e.votes
    BY <2>1, <2>2 DEF TryAddFork, ElectionSet, HasWinner
  <2>6. LET g == IF HasEnded(e) THEN e ELSE [e EXCEPT !.state = s]
        IN  g \in ElectionSet /\ HasWinner(g) /\ g.votes = e.votes
    BY <2>1, <2>2, <2>4 DEF ElectionSet, HasWinner
  <2>7. f \in ElectionSet /\ HasWinner(f) /\ f.votes \subseteq sent
    BY <2>1, <2>5, <2>6, NoElectionFits
  <2> HIDE DEF r, f
  <2> QED BY <1>1, <2>1, <2>3, <2>7, OneElectionChanges, Zenon
<1>10. ASSUME Restart(n) PROVE ElectionType' /\ ElectionInv'
  <2>1. election' = [election EXCEPT ![n] = [r \in Root |-> NoElection]]
    BY <1>10 DEF Restart
  <2>2. ElectionType'
    BY <1>1, <2>1, NoElectionFits DEF ElectionType
  <2>3. ASSUME NEW m \in Node, NEW q \in Root
        PROVE  election'[m][q] = IF m = n THEN NoElection ELSE election[m][q]
    BY <1>1, <2>1, SMTT(30) DEF ElectionType
  <2> QED BY <1>2, <2>2, <2>3, NoElectionFits DEF ElectionInv, HasWinner
<1> QED
  BY <1>4, <1>5, <1>6, <1>7, <1>8, <1>9, <1>10, Zenon
  DEF NodeNext, ProcessBlock, RollBackCompetitor, ProcessForced, RollBackBacklog,
      HandleConfirmed, GenerateVote, GenerateFinalVote, ReplyToRequest, Cement,
      EvictDeferred, VoterTick

(* Votes are never taken back.                                             *)
LEMMA SentGrows ==
  ASSUME NEW n \in Node, NodeNext(n)
  PROVE  sent \subseteq sent'
BY Zenon DEF NodeNext, ProcessBlock, RollBackCompetitor, ProcessForced, RollBackBacklog,
       StartElection, HandleConfirmed, GenerateVote, GenerateFinalVote, ReplyToRequest,
       Cement, EvictDeferred, EraseElection, VoterTick, ApplyVote, HandleWinnerChanged,
       HandleLedgerEvent, Restart, Send

(* A rollback keeps the types of what it changes.                          *)
LEMMA RollBackTyped ==
  ASSUME ledger \in [Node -> SUBSET Block], events \in [Node -> SUBSET Event],
         NEW n \in Node, NEW b \in Block, RollBack(n, b)
  PROVE  ledger' \in [Node -> SUBSET Block] /\ events' \in [Node -> SUBSET Event]
<1> DEFINE new == {<<"rolled back", c>> : c \in Successors(n, b) \ {b}}
<1>1. new \subseteq Event
  <2>1. Successors(n, b) \subseteq Block
    BY DEF Successors
  <2>2. \A c \in Block : <<"rolled back", c>> \in Event
    BY DEF Event, EventKind
  <2> QED BY <2>1, <2>2
<1>2. events' = [events EXCEPT ![n] = @ \union new]
  BY DEF RollBack
<1> HIDE DEF new
<1> QED BY <1>1, <1>2 DEF RollBack, Successors

(* The remaining variables keep their types.                               *)
LEMMA TypeStep ==
  ASSUME TypeOK, ElectionInv, NEW n \in Node, NodeNext(n), ElectionType'
  PROVE  TypeOK'
<1>1. \A b \in Block : Parent[b] \in Root /\ Chain[b] \in SUBSET Block
  BY TreeAssumption
<1>2. ledger \in [Node -> SUBSET Block]
  BY DEF TypeOK
<1>3. cemented \in [Node -> SUBSET Block]
  BY DEF TypeOK
<1>4. finalVote \in [Node -> [Root -> Block \union {None}]]
  BY DEF TypeOK
<1>5. recent \in [Node -> SUBSET Block]
  BY DEF TypeOK
<1>6. generator \in [Node -> SUBSET (Block \X BOOLEAN)]
  BY DEF TypeOK
<1>7. changed \in [Node -> SUBSET (Block \X Block)]
  BY DEF TypeOK
<1>8. confirming \in [Node -> SUBSET Block]
  BY DEF TypeOK
<1>9. events \in [Node -> SUBSET Event]
  BY DEF TypeOK
<1>10. clock \in [Node -> [Root -> 0..FinalTime - 1]]
  BY DEF TypeOK
<1>11. faults \in 0..MaxFaults
  BY DEF TypeOK
<1>12. sent \subseteq Vote
  BY DEF TypeOK
<1>13. elected \in [Node -> SUBSET Block]
  BY DEF TypeOK
<1>14. forced \in [Node -> SUBSET ({"queued", "unblocked"} \X Block)]
  BY DEF TypeOK
<1>15. ASSUME NEW b \in Block, Process(n, b)
       PROVE  ledger' \in [Node -> SUBSET Block] /\ events' \in [Node -> SUBSET Event]
  <2>1. <<"fork", b>> \in Event
    BY DEF Event, EventKind
  <2> QED BY <1>2, <1>9, <1>15, <2>1 DEF Process
<1>16. ASSUME NEW b \in Block, ProcessBlock(n, b) PROVE TypeOK'
  <2>1. UNCHANGED <<cemented, finalVote, recent, generator, changed, elected, forced,
                   confirming, clock, faults, sent>> /\ Process(n, b)
    BY <1>16 DEF ProcessBlock
  <2> QED BY <1>15, <2>1, Zenon DEF TypeOK, ElectionType
<1>17. ASSUME NEW b \in Block, ProcessForced(n, b) PROVE TypeOK'
  <2>1. forced' \in [Node -> SUBSET ({"queued", "unblocked"} \X Block)]
    BY <1>14, <1>17 DEF ProcessForced
  <2>2. UNCHANGED <<cemented, finalVote, recent, generator, changed, elected,
                   confirming, clock, faults, sent>> /\ Process(n, b)
    BY <1>17 DEF ProcessForced
  <2> QED BY <1>15, <2>1, <2>2, Zenon DEF TypeOK, ElectionType
<1>18. ASSUME NEW b \in Block, RollBackCompetitor(n, b) PROVE TypeOK'
  <2>1. \/ \E d \in Block : RollBack(n, d)
        \/ UNCHANGED <<ledger, events>>
    BY <1>2, <1>18 DEF RollBackCompetitor
  <2>2. <<"unblocked", b>> \in {"queued", "unblocked"} \X Block
    OBVIOUS
  <2>3. forced' \in [Node -> SUBSET ({"queued", "unblocked"} \X Block)]
    BY <1>14, <1>18, <2>2 DEF RollBackCompetitor
  <2>4. ledger' \in [Node -> SUBSET Block] /\ events' \in [Node -> SUBSET Event]
    BY <1>2, <1>9, <2>1, RollBackTyped
  <2>5. UNCHANGED <<cemented, finalVote, recent, generator, changed, elected,
                   confirming, clock, faults, sent>>
    BY <1>18 DEF RollBackCompetitor
  <2> QED BY <2>3, <2>4, <2>5, Zenon DEF TypeOK, ElectionType
<1>19. ASSUME NEW b \in Block, HandleConfirmed(n, b) PROVE TypeOK'
  <2>1. elected' \in [Node -> SUBSET Block]
    BY <1>13, <1>19 DEF HandleConfirmed
  <2>2. confirming' \in [Node -> SUBSET Block]
    BY <1>8, <1>19 DEF HandleConfirmed
  <2>3. UNCHANGED <<ledger, cemented, finalVote, recent, generator, changed, forced,
                   events, clock, faults, sent>>
    BY <1>19 DEF HandleConfirmed
  <2> QED BY <2>1, <2>2, <2>3, Zenon DEF TypeOK, ElectionType
<1>20. ASSUME NEW b \in Block, RollBackBacklog(n, b) PROVE TypeOK'
  <2>1. RollBack(n, b)
    BY <1>20 DEF RollBackBacklog
  <2>2. ledger' \in [Node -> SUBSET Block] /\ events' \in [Node -> SUBSET Event]
    BY <1>2, <1>9, <2>1, RollBackTyped
  <2>3. faults' \in 0..MaxFaults
    BY <1>11, <1>20, BoundsAssumption DEF RollBackBacklog, Fault
  <2>4. UNCHANGED <<cemented, finalVote, recent, generator, changed, elected, forced,
                   confirming, clock, sent>>
    BY <1>20 DEF RollBackBacklog
  <2> QED BY <2>2, <2>3, <2>4, Zenon DEF TypeOK, ElectionType
<1>21. ASSUME NEW b \in Block, StartElection(n, b) PROVE TypeOK'
  <2>1. UNCHANGED <<ledger, cemented, finalVote, recent, generator, changed, elected, forced,
                   confirming, events, clock, faults, sent>>
    BY <1>21 DEF StartElection
  <2> QED BY <2>1, Zenon DEF TypeOK, ElectionType
<1>22. ASSUME NEW b \in Block, GenerateVote(n, b) PROVE TypeOK'
  <2>1. generator' \in [Node -> SUBSET (Block \X BOOLEAN)]
    BY <1>6, <1>22, Zenon DEF GenerateVote
  <2>2. clock' \in [Node -> [Root -> 0..FinalTime - 1]]
    BY <1>1, <1>10, <1>22, ElectionAssumption DEF GenerateVote
  <2>3. sent' \subseteq Vote
    <3> DEFINE t == clock[n][Parent[b]] + 1
    <3>1. t < FinalTime => t \in 1..FinalTime
      BY <1>1, <1>10, ElectionAssumption
    <3>2. CASE IsRepresentative(n) /\ b \in ledger[n] /\ DependentsConfirmed(n, b)
      <4>1. t < FinalTime /\ Send(n, b, t)
        BY <1>22, <3>2, Zenon DEF GenerateVote
      <4> HIDE DEF t
      <4> QED BY <1>12, <3>1, <4>1 DEF Send, Vote
    <3>3. CASE ~(IsRepresentative(n) /\ b \in ledger[n] /\ DependentsConfirmed(n, b))
      BY <1>12, <1>22, <3>3 DEF GenerateVote
    <3> QED BY <3>2, <3>3
  <2>4. UNCHANGED <<ledger, cemented, finalVote, recent, changed, elected, forced,
                   confirming, events, faults>>
    BY <1>22 DEF GenerateVote
  <2> QED BY <2>1, <2>2, <2>3, <2>4, Zenon DEF TypeOK, ElectionType
<1>23. ASSUME NEW b \in Block, GenerateFinalVote(n, b) PROVE TypeOK'
  <2>1. finalVote' \in [Node -> [Root -> Block \union {None}]]
    <3>1. \/ finalVote' = [finalVote EXCEPT ![n][Parent[b]] = b]
          \/ finalVote' = finalVote
      BY <1>23 DEF GenerateFinalVote
    <3> QED BY <1>1, <1>4, <3>1
  <2>2. generator' \in [Node -> SUBSET (Block \X BOOLEAN)]
    BY <1>6, <1>23, Zenon DEF GenerateFinalVote
  <2>3. sent' \subseteq Vote
    BY <1>12, <1>23, ElectionAssumption DEF GenerateFinalVote, Send, Vote
  <2>4. UNCHANGED <<ledger, cemented, recent, changed, elected, forced, confirming,
                   events, clock, faults>>
    BY <1>23 DEF GenerateFinalVote
  <2> QED BY <2>1, <2>2, <2>3, <2>4, Zenon DEF TypeOK, ElectionType
<1>24. ASSUME NEW b \in Block, ReplyToRequest(n, b) PROVE TypeOK'
  <2>1. sent' \subseteq Vote
    BY <1>12, <1>24, ElectionAssumption DEF ReplyToRequest, Send, Vote
  <2>2. UNCHANGED <<ledger, cemented, finalVote, recent, generator, changed, elected, forced,
                   confirming, events, clock, faults>>
    BY <1>24 DEF ReplyToRequest
  <2> QED BY <2>1, <2>2, Zenon DEF TypeOK, ElectionType
<1>25. ASSUME NEW b \in Block, NEW c \in Chain[b], Cement(n, b, c) PROVE TypeOK'
  <2>1. cemented' \in [Node -> SUBSET Block]
    BY <1>1, <1>3, <1>25, SMTT(30) DEF Cement
  <2>2. confirming' \in [Node -> SUBSET Block]
    BY <1>8, <1>25 DEF Cement
  <2>3. events' \in [Node -> SUBSET Event]
    <3> DEFINE new == {<<"confirmed", d>> : d \in Chain[c] \ (cemented[n] \union {b})}
    <3>1. new \subseteq Event
      <4>1. Chain[c] \subseteq Block
        BY <1>1
      <4>2. \A d \in Block : <<"confirmed", d>> \in Event
        BY DEF Event, EventKind
      <4> QED BY <4>1, <4>2
    <3>2. events' = [events EXCEPT ![n] = @ \union new]
      BY <1>25 DEF Cement
    <3> HIDE DEF new
    <3> QED BY <1>9, <3>1, <3>2
  <2>4. UNCHANGED <<ledger, finalVote, recent, generator, changed, elected, forced, clock, faults, sent>>
    BY <1>25 DEF Cement
  <2> QED BY <2>1, <2>2, <2>3, <2>4, Zenon DEF TypeOK, ElectionType
<1>26. ASSUME NEW b \in Block, EvictDeferred(n, b) PROVE TypeOK'
  <2>1. confirming' \in [Node -> SUBSET Block]
    BY <1>8, <1>26 DEF EvictDeferred
  <2>2. <<"failed", b>> \in Event
    BY DEF Event, EventKind
  <2>3. events' \in [Node -> SUBSET Event]
    BY <1>9, <1>26, <2>2 DEF EvictDeferred
  <2>4. faults' \in 0..MaxFaults
    BY <1>11, <1>26, BoundsAssumption DEF EvictDeferred, Fault
  <2>5. UNCHANGED <<ledger, cemented, finalVote, recent, generator, changed, elected,
                   forced, clock, sent>>
    BY <1>26 DEF EvictDeferred
  <2> QED BY <2>1, <2>3, <2>4, <2>5, Zenon DEF TypeOK, ElectionType
<1>27. ASSUME NEW r \in Root, EraseElection(n, r) PROVE TypeOK'
  <2>1. faults' \in 0..MaxFaults
    BY <1>11, <1>27, BoundsAssumption DEF EraseElection, Fault
  <2>2. UNCHANGED <<ledger, cemented, finalVote, recent, generator, changed, elected, forced,
                   confirming, events, clock, sent>>
    BY <1>27 DEF EraseElection
  <2> QED BY <2>1, <2>2, Zenon DEF TypeOK, ElectionType
<1>28. ASSUME NEW r \in Root, VoterTick(n, r) PROVE TypeOK'
  <2>1. election[n][r].winner \in Block
    BY <1>28 DEF VoterTick, Active, ElectionInv, HasWinner
  <2>2. IsFinal(election[n][r]) \in BOOLEAN
    BY DEF IsFinal, TypeOK, ElectionSet
  <2>3. generator' \in [Node -> SUBSET (Block \X BOOLEAN)]
    BY <1>6, <1>28, <2>1, <2>2 DEF VoterTick
  <2>4. UNCHANGED <<ledger, cemented, finalVote, recent, changed, elected, forced, confirming,
                   events, clock, faults, sent>>
    BY <1>28 DEF VoterTick
  <2> QED BY <2>3, <2>4, Zenon DEF TypeOK, ElectionType
<1>29. ASSUME NEW v \in sent, ApplyVote(n, v) PROVE TypeOK'
  <2> DEFINE e == election[n][Parent[v.block]]
  <2>1. PICK f \in UpdateTallies(AddVote(e, v)) :
          /\ changed' = [changed EXCEPT ![n] =
                IF f.winner # e.winner THEN @ \union {<<e.winner, f.winner>>} ELSE @]
          /\ \/ UNCHANGED <<elected, recent>>
             \/ /\ elected' = [elected EXCEPT ![n] = @ \union {f.winner}]
                /\ recent' = [recent EXCEPT ![n] =
                      IF \E c \in @ : Parent[c] = Parent[v.block] THEN @ ELSE @ \union {f.winner}]
    BY <1>29, Zenon DEF ApplyVote
  <2>2. e.winner \in Block /\ f.winner \in Block
    BY <1>29, VoteFacts, SMTT(30)
  <2> HIDE DEF e
  <2>3. recent' \in [Node -> SUBSET Block]
    BY <1>5, <2>1, <2>2
  <2>4. changed' \in [Node -> SUBSET (Block \X Block)]
    BY <1>7, <2>1, <2>2
  <2>5. elected' \in [Node -> SUBSET Block]
    BY <1>13, <2>1, <2>2, SMTT(30)
  <2>6. UNCHANGED <<ledger, cemented, finalVote, generator, forced, confirming, events,
                   clock, faults, sent>>
    BY <1>29 DEF ApplyVote
  <2> QED BY <2>3, <2>4, <2>5, <2>6, Zenon DEF TypeOK, ElectionType
<1>30. ASSUME NEW b \in Block, NEW c \in Block, HandleWinnerChanged(n, b, c) PROVE TypeOK'
  <2>1. changed' \in [Node -> SUBSET (Block \X Block)]
    BY <1>7, <1>30 DEF HandleWinnerChanged
  <2>2. <<"queued", c>> \in {"queued", "unblocked"} \X Block
    OBVIOUS
  <2>3. forced' \in [Node -> SUBSET ({"queued", "unblocked"} \X Block)]
    BY <1>14, <1>30, <2>2 DEF HandleWinnerChanged
  <2>4. UNCHANGED <<ledger, cemented, finalVote, recent, generator, elected, confirming,
                   events, clock, faults, sent>>
    BY <1>30 DEF HandleWinnerChanged
  <2> QED BY <2>1, <2>3, <2>4, Zenon DEF TypeOK, ElectionType
<1>31. ASSUME NEW kind \in EventKind, NEW b \in Block, HandleLedgerEvent(n, kind, b)
       PROVE  TypeOK'
  <2>1. events' \in [Node -> SUBSET Event]
    BY <1>9, <1>31 DEF HandleLedgerEvent
  <2>2. recent' \in [Node -> SUBSET Block]
    BY <1>5, <1>31 DEF HandleLedgerEvent
  <2>3. UNCHANGED <<ledger, cemented, finalVote, generator, changed, elected, forced,
                   confirming, clock, faults, sent>>
    BY <1>31 DEF HandleLedgerEvent
  <2> QED BY <2>1, <2>2, <2>3, Zenon DEF TypeOK, ElectionType
<1>32. ASSUME Restart(n) PROVE TypeOK'
  <2>1. recent' \in [Node -> SUBSET Block]
    BY <1>5, <1>32 DEF Restart
  <2>2. generator' \in [Node -> SUBSET (Block \X BOOLEAN)]
    BY <1>6, <1>32 DEF Restart
  <2>3. changed' \in [Node -> SUBSET (Block \X Block)]
    BY <1>7, <1>32 DEF Restart
  <2>4. confirming' \in [Node -> SUBSET Block]
    BY <1>8, <1>32 DEF Restart
  <2>5. events' \in [Node -> SUBSET Event]
    BY <1>9, <1>32 DEF Restart
  <2>6. faults' \in 0..MaxFaults
    BY <1>11, <1>32, BoundsAssumption DEF Restart, Fault
  <2>7. elected' \in [Node -> SUBSET Block]
    BY <1>13, <1>32 DEF Restart
  <2>8. forced' \in [Node -> SUBSET ({"queued", "unblocked"} \X Block)]
    BY <1>14, <1>32 DEF Restart
  <2>9. UNCHANGED <<ledger, cemented, finalVote, clock, sent>>
    BY <1>32, SMTT(30) DEF Restart
  <2> QED BY <2>1, <2>2, <2>3, <2>4, <2>5, <2>6, <2>7, <2>8, <2>9, Zenon DEF TypeOK, ElectionType
<1> QED
  BY <1>20, <1>21, <1>22, <1>23, <1>24, <1>25, <1>26, <1>27, <1>28, <1>29, <1>30, <1>31, <1>32,
     <1>16, <1>17, <1>18, <1>19
  DEF NodeNext

(* A final vote is sent only for the block in the voter's table, or for a  *)
(* cemented one if there is none; the table never changes an entry, and a  *)
(* cemented block leaves no room for an entry of a fork.                   *)
LEMMA VoteStep ==
  ASSUME TypeOK, LedgerInv, VoteInv, NEW n \in Node, NodeNext(n)
  PROVE  VoteInv'
<1>1. /\ finalVote \in [Node -> [Root -> Block \union {None}]]
      /\ ledger \in [Node -> SUBSET Block] /\ cemented \in [Node -> SUBSET Block]
      /\ sent \subseteq Vote
  BY DEF TypeOK
<1>2. \A v \in Vote : v.voter \in Node /\ v.block \in Block /\ Parent[v.block] \in Root
  BY TreeAssumption DEF Vote
<1>3. CASE UNCHANGED <<finalVote, cemented>> /\ Final(sent') = Final(sent)
  BY <1>3 DEF VoteInv, DependentsConfirmed
<1>4. ASSUME NEW b \in Block, GenerateVote(n, b) PROVE VoteInv'
  <2>1. Final(sent') = Final(sent)
    <3> DEFINE t == clock[n][Parent[b]] + 1
    <3>1. CASE IsRepresentative(n) /\ b \in ledger[n] /\ DependentsConfirmed(n, b)
      <4>1. t < FinalTime /\ sent' = sent \union {[voter |-> n, block |-> b, time |-> t]}
        BY <1>4, <3>1, Zenon DEF GenerateVote, Send
      <4>2. t \in Int
        BY TreeAssumption DEF TypeOK
      <4> HIDE DEF t
      <4> QED BY <4>1, <4>2, ElectionAssumption DEF Final
    <3>2. CASE ~(IsRepresentative(n) /\ b \in ledger[n] /\ DependentsConfirmed(n, b))
      BY <1>4, <3>2 DEF GenerateVote
    <3> QED BY <3>1, <3>2
  <2> QED BY <1>3, <1>4, <2>1 DEF GenerateVote
<1>5. ASSUME NEW b \in Block, GenerateFinalVote(n, b) PROVE VoteInv'
  <2>1. CASE ~ShouldVoteFinal(n, b)
    BY <1>3, <1>5, <2>1, SMTT(30) DEF GenerateFinalVote
  <2>2. CASE ShouldVoteFinal(n, b)
    <3> DEFINE new == [voter |-> n, block |-> b, time |-> FinalTime]
    <3>1. /\ finalVote' = [finalVote EXCEPT ![n][Parent[b]] = b] /\ cemented' = cemented
          /\ sent' \subseteq sent \union {new}
      BY <1>5, <2>2 DEF GenerateFinalVote, Send
    <3>2. \A m \in Node, r \in Root :
            finalVote'[m][r] = IF m = n /\ r = Parent[b] THEN b ELSE finalVote[m][r]
      BY <1>1, <3>1
    <3>3. Parent[b] \in Root /\ b # None
      BY TreeAssumption, ElectionAssumption, SMTT(30) DEF None
    <3> SUFFICES ASSUME NEW v \in Final(sent')
                 PROVE  /\ \/ finalVote'[v.voter][Parent[v.block]] = v.block
                           \/ /\ finalVote'[v.voter][Parent[v.block]] = None
                              /\ v.block \in cemented[v.voter]
                        /\ DependentsConfirmed(v.voter, v.block)
      BY <3>1, SMTT(30) DEF VoteInv, DependentsConfirmed
    <3>4. CASE v = new
      BY <2>2, <3>2, <3>3, <3>4, SMTT(30) DEF ShouldVoteFinal
    <3>5. CASE v # new
      <4>1. v \in Final(sent) /\ v \in Vote
        BY <1>1, <3>1, <3>5, SMTT(30) DEF Final
      <4>2. /\ \/ finalVote[v.voter][Parent[v.block]] = v.block
               \/ /\ finalVote[v.voter][Parent[v.block]] = None
                  /\ v.block \in cemented[v.voter]
            /\ DependentsConfirmed(v.voter, v.block)
        BY <4>1 DEF VoteInv
      <4>3. CASE v.voter = n /\ Parent[v.block] = Parent[b]
        <5>1. v.block # None
          BY <1>2, <4>1, ElectionAssumption DEF None
        <5>2. v.block = b
          BY <2>2, <4>2, <4>3, <5>1, SMTT(30) DEF ShouldVoteFinal, LedgerInv
        <5> QED BY <3>2, <3>3, <4>2, <4>3, <5>2
      <4>4. CASE ~(v.voter = n /\ Parent[v.block] = Parent[b])
        BY <1>2, <3>2, <4>1, <4>2, <4>4, SMTT(30)
      <4> QED BY <4>3, <4>4
    <3> QED BY <3>4, <3>5
  <2> QED BY <2>1, <2>2
<1>6. ASSUME NEW b \in Block, ReplyToRequest(n, b) PROVE VoteInv'
  <2>1. /\ UNCHANGED <<finalVote, cemented>> /\ DependentsConfirmed(n, b)
        /\ sent' = sent \union {[voter |-> n, block |-> b, time |-> FinalTime]}
        /\ \/ finalVote[n][Parent[b]] = b
           \/ finalVote[n][Parent[b]] = None /\ b \in cemented[n]
    BY <1>6, SMTT(30) DEF ReplyToRequest, RepliesFinal, Send
  <2> QED BY <2>1, SMTT(30) DEF VoteInv, Final, DependentsConfirmed
<1>7. ASSUME NEW b \in Block, NEW c \in Chain[b], Cement(n, b, c) PROVE VoteInv'
  <2>1. UNCHANGED <<finalVote, sent>> /\ \A m \in Node : cemented[m] \subseteq cemented'[m]
    BY <1>1, <1>7 DEF Cement
  <2>2. \A v \in Final(sent) : v.voter \in Node
    BY <1>1, <1>2 DEF Final
  <2> QED BY <2>1, <2>2 DEF VoteInv, DependentsConfirmed
<1> QED
  BY <1>3, <1>4, <1>5, <1>6, <1>7, Zenon
  DEF NodeNext, ProcessBlock, RollBackCompetitor, ProcessForced, RollBackBacklog,
      StartElection, HandleConfirmed, EvictDeferred, EraseElection, VoterTick, ApplyVote,
      HandleWinnerChanged, HandleLedgerEvent, Restart

(* Everything below a decided block is decided: one of its voters had      *)
(* cemented all that when it voted.                                        *)
LEMMA DecidedBelow ==
  ASSUME TypeOK, LedgerInv, VoteInv, CementedHasQuorum, NEW b \in Block, Decided(b),
         NEW c \in Chain[b]
  PROVE  Decided(c)
<1>1. PICK Q \in Quorum : Q \subseteq Voters(Final(sent), b)
  BY DEF Decided
<1>2. PICK m : m \in Q
  BY QuorumAssumption
<1>3. PICK v \in Final(sent) : v.voter = m /\ v.block = b
  BY <1>1, <1>2, SMTT(30) DEF Voters
<1>4. m \in Node /\ DependentsConfirmed(m, b)
  BY <1>3, SMTT(30) DEF VoteInv, TypeOK, Final, Vote
<1>5. CASE c = b
  BY <1>5
<1>6. CASE c # b
  <2>1. Parent[b] # Genesis /\ c \in Chain[Parent[b]]
    BY <1>6, TreeAssumption, SMTT(30)
  <2> QED BY <1>4, <2>1 DEF DependentsConfirmed, LedgerInv, CementedHasQuorum
<1> QED BY <1>5, <1>6

LEMMA QuorumStep ==
  ASSUME IInv, NEW n \in Node, NodeNext(n), sent \subseteq sent'
  PROVE  QuorumInv'
<1>1. /\ elected \in [Node -> SUBSET Block] /\ confirming \in [Node -> SUBSET Block]
      /\ cemented \in [Node -> SUBSET Block]
  BY DEF IInv, TypeOK
<1>2. ASSUME \A m \in Node : \A b \in elected'[m] \union confirming'[m] :
                b \in elected[m] \union confirming[m] \/ Decided(b)',
             \A m \in Node : \A b \in cemented'[m] : b \in cemented[m] \/ Decided(b)'
      PROVE  QuorumInv'
  BY <1>2, DecidedStays DEF IInv, QuorumInv, CementedHasQuorum
<1>3. CASE UNCHANGED <<elected, confirming, cemented>>
  BY <1>2, <1>3
<1>4. ASSUME NEW b \in Block, EvictDeferred(n, b) PROVE QuorumInv'
  BY <1>1, <1>2, <1>4 DEF EvictDeferred
<1>5. ASSUME Restart(n) PROVE QuorumInv'
  BY <1>1, <1>2, <1>5, SMTT(30) DEF Restart
<1>6. ASSUME NEW b \in Block, NEW c \in Chain[b], Cement(n, b, c) PROVE QuorumInv'
  <2>1. b \in confirming[n] /\ \A d \in Chain[b] : Decided(d)'
    BY <1>6, DecidedBelow, DecidedStays DEF Cement, IInv, QuorumInv
  <2>2. \A d \in Chain[c] : Decided(d)'
    BY <2>1, TreeAssumption
  <2> QED BY <1>1, <1>2, <1>6, <2>2, SMTT(30) DEF Cement
<1>7. ASSUME NEW v \in sent, ApplyVote(n, v) PROVE QuorumInv'
  <2> DEFINE e == election[n][Parent[v.block]]
             g == AddVote(e, v)
  <2>1. PICK f \in UpdateTallies(g) :
          \/ UNCHANGED elected
          \/ /\ f.state = "confirmed"
             /\ elected' = [elected EXCEPT ![n] = @ \union {f.winner}]
    BY <1>7, Zenon DEF ApplyVote
  <2>2. UNCHANGED <<confirming, cemented>>
    BY <1>7, SMTT(30) DEF ApplyVote
  <2>3. CASE UNCHANGED elected
    BY <1>3, <2>2, <2>3
  <2>4. CASE /\ f.state = "confirmed"
             /\ elected' = [elected EXCEPT ![n] = @ \union {f.winner}]
    <3>1. g \in ElectionSet /\ g.votes \subseteq sent /\ g.state # "confirmed"
      BY <1>7, VoteFacts, SMTT(30) DEF IInv
    <3> HIDE DEF g
    <3>2. PICK Q \in Quorum : Q \subseteq Voters(Final(g.votes), f.winner)
      BY <2>4, <3>1, ConfirmedByQuorum, SMTT(30)
    <3>3. Decided(f.winner)
      BY <3>1, <3>2 DEF Decided, Voters, Final
    <3> QED BY <1>1, <1>2, <2>2, <2>4, <3>3, DecidedStays, SMTT(30)
  <2> QED BY <2>1, <2>3, <2>4
<1>8. ASSUME NEW b \in Block, HandleConfirmed(n, b) PROVE QuorumInv'
  BY <1>1, <1>2, <1>8 DEF HandleConfirmed
<1> QED
  BY <1>3, <1>4, <1>5, <1>6, <1>7, <1>8, Zenon
  DEF NodeNext, ProcessBlock, RollBackCompetitor, ProcessForced, RollBackBacklog,
      StartElection, GenerateVote, GenerateFinalVote, ReplyToRequest, EraseElection,
      VoterTick, HandleWinnerChanged, HandleLedgerEvent

(***************************************************************************)
(* The theorems                                                            *)
(***************************************************************************)
LEMMA InitOK ==
  ASSUME Init PROVE IInv
<1>1. TypeOK
  BY ElectionAssumption, BoundsAssumption, NoElectionFits, SMTT(30)
  DEF Init, TypeOK, Root, None
<1>2. LedgerInv /\ VoteInv /\ QuorumInv
  BY SMTT(30) DEF Init, LedgerInv, VoteInv, QuorumInv, CementedHasQuorum, Final
<1>3. ElectionInv
  BY NoElectionFits, Zenon DEF Init, ElectionInv
<1> QED BY <1>1, <1>2, <1>3, SMTT(30) DEF IInv

(* The inductive invariant holds in every behaviour.                       *)
THEOREM ConsensusInvariance == Spec => []IInv
<1>1. Init => IInv
  BY InitOK
<1>2. IInv /\ [Next]_vars => IInv'
  <2> SUFFICES ASSUME IInv, [Next]_vars PROVE IInv'
    OBVIOUS
  <2>1. CASE UNCHANGED vars
    BY <2>1, Zenon
    DEF vars, IInv, TypeOK, LedgerInv, ElectionInv, VoteInv, QuorumInv, CementedHasQuorum,
        DependentsConfirmed, Decided
  <2>2. ASSUME NEW n \in Node, NodeNext(n) PROVE IInv'
    <3>1. sent \subseteq sent'
      BY <2>2, SentGrows
    <3>2. ElectionType' /\ ElectionInv'
      BY <2>2, <3>1, ElectionStep DEF IInv
    <3>3. TypeOK'
      BY <2>2, <3>2, TypeStep DEF IInv
    <3>4. LedgerInv'
      BY <2>2, LedgerStep DEF IInv
    <3>5. VoteInv'
      BY <2>2, VoteStep DEF IInv
    <3>6. QuorumInv'
      BY <2>2, <3>1, QuorumStep
    <3> QED BY <3>2, <3>3, <3>4, <3>5, <3>6 DEF IInv
  <2> QED BY <2>1, <2>2 DEF Next
<1> QED BY <1>1, <1>2, PTL DEF Spec

(* Ledgers, elections, queues and votes keep their types.                  *)
THEOREM ConsensusTypes == Spec => []TypeOK
<1>1. IInv => TypeOK
  BY SMTT(30) DEF IInv
<1> QED BY <1>1, ConsensusInvariance, PTL

(* Whatever a node does and however often it restarts, its representative  *)
(* sends final votes for one block per root only.                          *)
LEMMA UniqueFinalVotes ==
  ASSUME IInv PROVE FinalVoteUnique
<1> SUFFICES ASSUME NEW v \in Final(sent), NEW w \in Final(sent), v.voter = w.voter,
                    Parent[v.block] = Parent[w.block]
             PROVE  v.block = w.block
  BY SMTT(30) DEF FinalVoteUnique
<1>1. v.voter \in Node /\ v.block \in Block /\ w.block \in Block
  BY DEF IInv, TypeOK, Final, Vote
<1>2. v.block # None /\ w.block # None
  BY <1>1, ElectionAssumption, SMTT(30) DEF None
<1> DEFINE voted == finalVote[v.voter][Parent[v.block]]
<1>3. /\ voted = v.block \/ (voted = None /\ v.block \in cemented[v.voter])
      /\ voted = w.block \/ (voted = None /\ w.block \in cemented[v.voter])
  BY SMTT(30) DEF IInv, VoteInv
<1>4. \A b, c \in cemented[v.voter] : Parent[b] = Parent[c] => b = c
  BY <1>1 DEF IInv, LedgerInv
<1> HIDE DEF voted
<1> QED BY <1>2, <1>3, <1>4

THEOREM FinalVotesUnique == Spec => []FinalVoteUnique
BY UniqueFinalVotes, ConsensusInvariance, PTL

(* A block is cemented only after a quorum sent final votes for it.        *)
THEOREM CementedNeedsQuorum == Spec => []CementedHasQuorum
<1>1. IInv => CementedHasQuorum
  BY DEF IInv, QuorumInv
<1> QED BY <1>1, ConsensusInvariance, PTL

(* Two quorums share a voter, and a voter sends final votes for one block: *)
(* no two nodes cement different blocks for one root.                      *)
THEOREM NodesAgree == Spec => []Agreement
<1>1. IInv => Agreement
  <2> SUFFICES ASSUME IInv, NEW n \in Node, NEW m \in Node, NEW b \in cemented[n],
                      NEW c \in cemented[m], Parent[b] = Parent[c]
               PROVE  b = c
    BY DEF Agreement
  <2>1. Decided(b) /\ Decided(c)
    BY DEF IInv, QuorumInv, CementedHasQuorum
  <2>2. PICK A \in Quorum : A \subseteq Voters(Final(sent), b)
    BY <2>1 DEF Decided
  <2>3. PICK B \in Quorum : B \subseteq Voters(Final(sent), c)
    BY <2>1 DEF Decided
  <2>4. PICK k : k \in A /\ k \in B
    BY QuorumAssumption
  <2>5. PICK v \in Final(sent) : v.voter = k /\ v.block = b
    BY <2>2, <2>4 DEF Voters
  <2>6. PICK w \in Final(sent) : w.voter = k /\ w.block = c
    BY <2>3, <2>4 DEF Voters
  <2> QED BY <2>5, <2>6, UniqueFinalVotes DEF FinalVoteUnique
<1> QED BY <1>1, ConsensusInvariance, PTL
=============================================================================
