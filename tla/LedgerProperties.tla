-------------------------- MODULE LedgerProperties --------------------------
(***************************************************************************)
(* What the ledger promises.                                               *)
(***************************************************************************)
EXTENDS Ledger

TablesOK ==
  /\ DOMAIN block \subseteq Hash /\ \A h \in DOMAIN block : block[h] \in Sideband
  /\ DOMAIN successors \subseteq Hash
  /\ \A h \in DOMAIN successors : successors[h] \in Hash
  /\ DOMAIN account \subseteq Account
  /\ \A a \in DOMAIN account : account[a] \in AccountInfo
  /\ DOMAIN pending \subseteq Link \X Link
  /\ \A k \in DOMAIN pending : pending[k] \in PendingInfo
  /\ DOMAIN confirmation_height \subseteq Account
  /\ \A a \in DOMAIN confirmation_height :
       confirmation_height[a] \in [height : Nat, frontier : Hash]
  /\ rep_weight \in [Rep -> Amount]

StackEntry == [target : Hash, head : Hash]

ThreadsOK ==
  /\ writer \in Processor \cup {"none", "backlog", "cementer"}
  /\ DOMAIN proc = Processor
  /\ \A p \in Processor :
       proc[p].pc \in {"idle", "competitors", "insert"} /\ proc[p].batch \in Seq(Hash)
  /\ rb.target \in Hash \cup {Zero}
  /\ rb.stack \in Seq(StackEntry)
  /\ cem.pc \in {"idle", "loop", "step", "refresh"}

(* Every table and every thread's state has the shape the code declares:   *)
(* amounts, weights and heights stay in range, keys are of the right kind. *)
TypeOK == TablesOK /\ ThreadsOK

(***************************************************************************)
(* Chain integrity                                                         *)
(***************************************************************************)
(* A block's account is known, its height is within the account's block    *)
(* count, and only the head has that height.                               *)
HeightsBounded ==
  \A h \in DOMAIN block :
    LET a == block[h].account IN
    /\ a \in DOMAIN account
    /\ block[h].height \in 1 .. account[a].block_count
    /\ block[h].height = account[a].block_count <=> h = account[a].head

(* An account's head is one of its blocks and holds its balance and epoch. *)
HeadsMatch ==
  \A a \in DOMAIN account :
    /\ account[a].head \in DOMAIN block
    /\ block[account[a].head].account = a
    /\ Balance(account[a].head) = account[a].balance
    /\ block[account[a].head].epoch = account[a].epoch

(* Every block but the first of its account follows a block of the same    *)
(* account that is one lower; the first one is the account's open block.   *)
ChainsLinked ==
  \A h \in DOMAIN block :
    LET prev == Block[h].previous IN
    IF prev = Zero
    THEN block[h].height = 1 /\ account[block[h].account].open_block = h
    ELSE /\ prev \in DOMAIN block
         /\ block[prev].account = block[h].account
         /\ block[prev].height = block[h].height - 1

(* There is never more than one block in a position of a chain: no fork is *)
(* in the ledger, whatever the threads do.                                 *)
NoForks ==
  \A h1, h2 \in DOMAIN block :
    block[h1].account = block[h2].account /\ block[h1].height = block[h2].height
      => h1 = h2

(* The successor table is exactly the inverse of the previous links.       *)
SuccessorsMatch ==
  /\ \A h \in DOMAIN successors :
       successors[h] \in DOMAIN block /\ Block[successors[h]].previous = h
  /\ \A h \in DOMAIN block :
       Block[h].previous # Zero =>
         /\ Block[h].previous \in DOMAIN successors
         /\ successors[Block[h].previous] = h

(* After every step of every thread the tables describe one chain per      *)
(* account, without gaps and without forks.  Insertion rechecks only the   *)
(* account's head, so this is what that check has to guarantee.            *)
ChainIntegrity ==
  /\ HeightsBounded
  /\ HeadsMatch
  /\ ChainsLinked
  /\ NoForks
  /\ SuccessorsMatch

(***************************************************************************)
(* Cementing                                                               *)
(***************************************************************************)
(* A confirmation height is the height of its frontier, a block of that    *)
(* account that is still in the ledger.                                    *)
FrontiersExist ==
  \A a \in DOMAIN confirmation_height :
    LET f == confirmation_height[a].frontier IN
    /\ f \in DOMAIN block
    /\ block[f].account = a
    /\ block[f].height = confirmation_height[a].height

Dependents(h) == {DependentBlocks(h)[1], DependentBlocks(h)[2]} \ {Zero}

(* The confirmed part of the ledger is closed: whatever a confirmed block  *)
(* depends on is confirmed too, also when the cementing thread drops the   *)
(* bottom of its stack, commits half way and loses the race to a rollback. *)
ConfirmedClosed ==
  \A h \in DOMAIN block : IsConfirmed(h) =>
    \A d \in Dependents(h) : IsConfirmed(d)

(* A cemented block is never removed and never uncemented.                 *)
CementedStays ==
  [][\A h \in Hash : IsConfirmed(h) => IsConfirmed(h)']_vars

(* Cementing never skips a block: a height grows by one at a time.         *)
CementsOneByOne ==
  [][\A a \in DOMAIN confirmation_height' :
       LET old == IF a \in DOMAIN confirmation_height
                  THEN confirmation_height[a].height ELSE 0
       IN  confirmation_height'[a].height \in {old, old + 1}]_vars

(***************************************************************************)
(* Value                                                                   *)
(***************************************************************************)
(* Every block a stored block depends on (previous and source) is stored:  *)
(* what GapPrevious and GapSource are there for.                           *)
SourcesExist ==
  \A h \in DOMAIN block :
    \A d \in Dependents(h) : Exists(d)

Receivers(s) ==
  {r \in DOMAIN block \ {GenesisHash} : block[r].is_receive /\ SourceOrLink(r) = s}

(* The pending table holds exactly the sends that were not received, with  *)
(* the sender and the amount of the send; a send that is not pending was   *)
(* received once, by its destination.                                      *)
PendingExact ==
  /\ \A k \in DOMAIN pending :
       /\ Exists(k[2])
       /\ block[k[2]].is_send
       /\ k = SendKey(k[2])
       /\ pending[k].source = block[k[2]].account
       /\ pending[k].amount = PreviousBalance(k[2]) - Balance(k[2])
       /\ pending[k].epoch = block[k[2]].epoch
  /\ \A s \in DOMAIN block : block[s].is_send =>
       IF SendKey(s) \in DOMAIN pending
       THEN Receivers(s) = {}
       ELSE \E r \in DOMAIN block :
              Receivers(s) = {r} /\ block[r].account = DestinationOrLink(s)

(* No amount is created or lost: balances and pending amounts add up to    *)
(* the genesis balance.                                                    *)
SupplyConserved ==
  MapThenSumSet(LAMBDA a : account[a].balance, DOMAIN account)
    + MapThenSumSet(LAMBDA k : pending[k].amount, DOMAIN pending) = Supply

(* The stored weight of a representative is the sum of the balances        *)
(* delegated to it, after any mix of insertions and rollbacks.             *)
RepWeightsExact ==
  \A r \in Rep :
    rep_weight[r] = BalanceDelegatedTo(r, DOMAIN account) % (Supply + 1)

(* weight(): "Returns the cached vote weight for the given representative. *)
(* If the weight is below the cache limit it returns 0."                   *)
RepCacheExact ==
  \A r \in Rep :
    rep_cache[r] = IF rep_weight[r] < MinWeight THEN 0 ELSE rep_weight[r]

(* An account's representative is the one its newest block with a          *)
(* representative field names, also after rolling back to a block without. *)
RepIsNewest ==
  \A a \in DOMAIN account : account[a].rep = Block[FindRepBlock(account[a].head)].rep

(* The counters in memory are what a restart would compute.                *)
CountersExact == cache = LoadedCounters

(***************************************************************************)
(* Rollback                                                                *)
(***************************************************************************)
Removed == rb.before \ DOMAIN block

RollbackEnded == rb.target # Zero /\ rb.stack = <<>>

DependsOn(h, d) ==
  \/ Block[h].previous = d
  \/ /\ Block[h].type \in {"receive", "open"} \/ IsState(h)
     /\ Block[h].link = d

(* "Rolls back the given block and all of its successor blocks and         *)
(* dependencies": an error free rollback removes the target, everything    *)
(* that depends on a removed block, and nothing else.                      *)
RollbackExact ==
  RollbackEnded /\ rb.error = "none" =>
    /\ rb.target \in Removed
    /\ \A h \in rb.before : (\E d \in Removed : DependsOn(h, d)) => h \in Removed
    /\ \A h \in Removed \ {rb.target} : \E d \in Removed : DependsOn(h, d)

(* A rollback only fails because its target is confirmed: one that starts  *)
(* on an unconfirmed block never stops half way.                           *)
RollbackFailsOnlyIfConfirmed ==
  RollbackEnded /\ rb.error # "none" =>
    rb.error = "BlockConfirmed" /\ IsConfirmed(rb.target)

(* The unwrap() and expect() calls of rollback and cementing always find   *)
(* what they look for.                                                     *)
NoPanic ==
  /\ rb.stack # <<>> /\ Exists(Top.target) =>
       /\ Exists(Top.head)
       /\ DependencyFirst(Top.head) /\ ~IsConfirmed(Top.head) =>
            DestinationOrLink(Top.head) \in DOMAIN account
  /\ cem.pc = "step" /\ cem.stack # <<>> => Exists(StackTop(cem.stack))

(***************************************************************************)
(* Progress                                                                *)
(***************************************************************************)
(* "call this function multiple times": although one call of confirm()     *)
(* keeps a bounded stack and cements a bounded number of blocks, cementing *)
(* a root comes to an end.                                                 *)
CementingEnds == cem.pc # "idle" ~> cem.pc = "idle"

(* Every rollback ends: the loop over targets and heads makes progress,    *)
(* also when a dependency is paired with the wrong account's head.         *)
RollbackEnds == rb.target # Zero ~> rb.target = Zero

(* Every batch that was popped is processed to the end.                    *)
BatchEnds == \A p \in Processor : proc[p].pc # "idle" ~> proc[p].pc = "idle"

=============================================================================
