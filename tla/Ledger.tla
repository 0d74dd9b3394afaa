------------------------------- MODULE Ledger -------------------------------
(***************************************************************************)
(* The ledger (crate `ledger`) as its threads use it: block processor      *)
(* threads (roll back the competitors of forced blocks, validate a batch   *)
(* on a read snapshot, insert it in a write transaction), the bounded      *)
(* backlog thread (rolls back unconfirmed blocks) and the cementing thread *)
(* (advances confirmation heights).                                        *)
(*                                                                         *)
(* LMDB has one write transaction at a time: `writer` is the thread that   *)
(* holds it.  A write transaction is a sequence of small steps.  Readers   *)
(* see the last commit, so a read is placed before the transaction that is *)
(* open at that time; a crash inside a transaction loses it and is placed  *)
(* there as well.  Where the code may commit and reopen its transaction    *)
(* (refresh), the model releases `writer`: keeping it is the same as       *)
(* taking it again at once.  A panic (unwrap, expect) is a state in which  *)
(* the thread has no step; the invariants say it is not reached.           *)
(***************************************************************************)
EXTENDS BlockValidation, FiniteSetsExt, Functions

CONSTANTS
  Processor,      \* block processor threads
  Forced,         \* blocks that may be forced: election winners, user's
  Elected,        \* blocks the confirming set may be given
  Backlog,        \* TRUE iff the bounded backlog thread runs
  MaxBatch,       \* bound: blocks in a batch (config.batch_size)
  MaxCement,      \* max_blocks of BlockCementer::confirm
  MinWeight,      \* weights below are not cached
  LoadThreads     \* threads that load the caches at start (1 or 2)

ASSUME ThreadAssumption ==
  /\ Processor \cap {"none", "backlog", "cementer"} = {}
  /\ Backlog \in BOOLEAN
  /\ Forced \subseteq Hash /\ Elected \subseteq Hash
  /\ MaxBatch \in Nat \ {0}
  /\ MaxCement \in Nat \ {0}
  /\ MinWeight \in Nat
  /\ LoadThreads \in {1, 2}

VARIABLES
  block,                \* table: hash -> sideband
  successors,           \* table: hash -> next block of the chain
  account,              \* table: account -> account info
  pending,              \* table: <<destination, send hash>> -> pending info
  confirmation_height,  \* table: account -> height and frontier
  rep_weight,           \* table: representative -> weight (0: no entry)
  rep_cache,            \* in memory: representative -> weight (0: no entry)
  cache,                \* in memory: the counters of LedgerCache
  writer,               \* holder of the write transaction, or "none"
  proc,                 \* state of each block processor thread
  rb,                   \* the rollback in progress
  cem                   \* the cementing thread

tables == <<block, successors, account, pending, confirmation_height, rep_weight>>
vars == <<tables, rep_cache, cache, writer, proc, rb, cem>>

Rep == Account \cup {Zero}

(* Vec::last() and Vec::pop() of a stack. *)
StackTop(stack) == stack[Len(stack)]

StackPop(stack) == SubSeq(stack, 1, Len(stack) - 1)

(***************************************************************************)
(* Tables                                                                  *)
(***************************************************************************)
Put(table, key, value) ==
  [k \in DOMAIN table \cup {key} |-> IF k = key THEN value ELSE table[k]]

Del(table, key) == [k \in DOMAIN table \ {key} |-> table[k]]

Info(a) == IF a \in DOMAIN account THEN account[a] ELSE NoInfo

Exists(h) == h \in DOMAIN block

(* SavedBlock::balance(): from the block if it has the field. *)
Balance(h) ==
  IF Block[h].type \in {"send", "state"} THEN Block[h].balance ELSE block[h].balance

IsConfirmed(h) ==
  /\ Exists(h)
  /\ block[h].account \in DOMAIN confirmation_height
  /\ block[h].height <= confirmation_height[block[h].account].height

(* SavedBlock::dependent_blocks(): previous block and source, Zero where   *)
(* there is none.                                                          *)
DependentBlocks(h) ==
  CASE Block[h].type = "open" ->
         <<IF Block[h].account = GenesisAccount THEN Zero ELSE Block[h].link, Zero>>
    [] Block[h].type = "receive" -> <<Block[h].previous, Block[h].link>>
    [] Block[h].type = "state" ->
         <<Block[h].previous,
           IF block[h].is_send \/ HasEpochLink(h) THEN Zero ELSE Block[h].link>>
    [] OTHER -> <<Block[h].previous, Zero>>

(* block_successor_by_qualified_root(): the ledger's block in the position *)
(* of h, Zero if there is none.                                            *)
BlockAtRoot(h) ==
  LET prev == Block[h].previous
      root == QualifiedRoot(h).root
  IN  IF prev # Zero
      THEN IF prev \in DOMAIN successors THEN successors[prev] ELSE Zero
      ELSE Info(root).open_block

(***************************************************************************)
(* Representative weights: wrapping u128 arithmetic on the stored weight;  *)
(* the cache drops weights below the minimum.                              *)
(***************************************************************************)
(* Variant: the old balance is not subtracted. *)
NegateForgotten(x) == x

Negate(x) == (Supply + 1 - x) % (Supply + 1)

(* Variant: without wrapping. *)
AddWeightUnwrapped(weights, rep, x) == [weights EXCEPT ![rep] = @ + x]

AddWeight(weights, rep, x) == [weights EXCEPT ![rep] = (@ + x) % (Supply + 1)]

(* Variant: the limit itself is not cached. *)
CachedAboveLimit(w) == IF w <= MinWeight THEN 0 ELSE w

CachedWeight(w) == IF w < MinWeight THEN 0 ELSE w

(* representation_add_dual *)
MoveWeight(rep1, x1, rep2, x2) ==
  LET new == AddWeight(AddWeight(rep_weight, rep1, x1), rep2, x2)
  IN  /\ rep_weight' = new
      /\ rep_cache' = [rep_cache EXCEPT ![rep1] = CachedWeight(new[rep1]),
                                        ![rep2] = CachedWeight(new[rep2])]

(* update_account(): a default new info deletes the entry. *)
UpdateAccount(a, old, new) ==
  account' = IF new.head # Zero THEN Put(account, a, new) ELSE Del(account, a)

(* Variant: a removed account is still counted. *)
OpenedAccounts(old, new) == IF old.head = Zero THEN 1 ELSE 0

AccountCountDelta(old, new) ==
  IF new.head = Zero THEN -1
  ELSE IF old.head = Zero /\ new.open_block = new.head THEN 1 ELSE 0

(***************************************************************************)
(* Block processor: process_blocks() of the batch processor calls          *)
(* roll_back_competitors() for the forced blocks, then process_batch().    *)
(***************************************************************************)
IdleProc == [pc |-> "idle", batch |-> <<>>, todo |-> <<>>, results |-> <<>>]

NoRollback == [target |-> Zero, stack |-> <<>>, error |-> "none", before |-> {}]

IdleCem == [pc |-> "idle", root |-> Zero, stack |-> <<>>, count |-> 0]

(* A batch is popped from the queue; `forced` are its winners of elections *)
(* and blocks forced by the user.                                          *)
PopBatch(p, batch, forced) ==
  /\ proc[p].pc = "idle"
  /\ proc' = [proc EXCEPT ![p] =
       [pc |-> "competitors", batch |-> batch, results |-> <<>>,
        todo |-> SelectSeq(batch, LAMBDA h : h \in forced)]]
  /\ UNCHANGED <<tables, rep_cache, cache, writer, rb, cem>>

(* BlockRollbackPerformer::roll_back(): push the target with the head of   *)
(* its account.                                                            *)
BeginRollback(thread, target) ==
  /\ writer' = thread
  /\ rb' = [target |-> target, error |-> "none", before |-> DOMAIN block,
            stack |-> <<[target |-> target,
                         head |-> Info(block[target].account).head]>>]

(* Variant: the loop over the forced blocks does not advance. *)
SameCompetitorAgain(p) ==
  /\ proc[p].pc = "competitors" /\ proc[p].todo # <<>>
  /\ writer = "none"
  /\ LET competitor == BlockAtRoot(Head(proc[p].todo))
     IN  IF Exists(competitor) /\ competitor # Head(proc[p].todo)
         THEN BeginRollback(p, competitor)
         ELSE UNCHANGED <<writer, rb>>
  /\ UNCHANGED <<tables, rep_cache, cache, proc, cem>>

(* rollback_competitor(): the ledger's block in the position of the next   *)
(* forced block is rolled back unless it is that block.                    *)
RollBackCompetitor(p) ==
  /\ proc[p].pc = "competitors" /\ proc[p].todo # <<>>
  /\ writer = "none"
  /\ LET forced     == Head(proc[p].todo)
         competitor == BlockAtRoot(forced)
     IN  IF Exists(competitor) /\ competitor # forced
         THEN BeginRollback(p, competitor)
         ELSE UNCHANGED <<writer, rb>>
  /\ proc' = [proc EXCEPT ![p].todo = Tail(@)]
  /\ UNCHANGED <<tables, rep_cache, cache, cem>>

(* create_validator(): everything validation reads, from one snapshot. *)
Validator(h) ==
  LET prev   == Block[h].previous
      hasPrev == prev # Zero /\ Exists(prev)
      acc    == IF Block[h].type \in {"open", "state"} THEN Block[h].account
                ELSE IF hasPrev THEN block[prev].account ELSE Zero
      source == SourceOrLink(h)
      hasPending == source # Zero /\ <<acc, source>> \in DOMAIN pending
  IN  [hash |-> h, account |-> acc, exists |-> Exists(h),
       hasPrevious |-> hasPrev,
       previous |-> [balance |-> IF hasPrev THEN Balance(prev) ELSE 0],
       info |-> Info(acc),
       hasPending |-> hasPending,
       pending |-> IF hasPending THEN pending[<<acc, source>>] ELSE NoPending,
       anyPending |-> \E k \in DOMAIN pending : k[1] = acc,
       sourceExists |-> source # Zero /\ Exists(source)]

(* The validation result: instructions, or an error. *)
ValidationResult(h) ==
  LET v == Validator(h)
  IN  IF Validate(v) = "Ok" THEN Instructions(v) ELSE [error |-> Validate(v)]

(* process_batch(), first half: the whole batch in one read transaction. *)
ValidateBatch(p) ==
  /\ proc[p].pc = "competitors" /\ proc[p].todo = <<>>
  /\ writer = "none"
  /\ proc' = [proc EXCEPT
       ![p].pc = "insert",
       ![p].results = [i \in DOMAIN proc[p].batch |->
                         ValidationResult(proc[p].batch[i])]]
  /\ UNCHANGED <<tables, rep_cache, cache, writer, rb, cem>>

(* Variant: no check after validation. *)
AssumeUnchanged(ins) == TRUE

(* account_changed_since_validation() compares only the account's head. *)
AccountUnchanged(ins) == Info(ins.account).head = ins.old.head

(* BlockInserter::insert() *)
Insert(ins) ==
  LET h    == ins.hash
      prev == Block[h].previous
      received == IF ins.receives
                  THEN Del(pending, <<ins.account, SourceOrLink(h)>>)
                  ELSE pending
  IN  /\ block' = Put(block, h, ins.sideband)
      /\ successors' = IF prev # Zero THEN Put(successors, prev, h) ELSE successors
      /\ UpdateAccount(ins.account, ins.old, ins.new)
      /\ pending' = IF ins.sends
                    THEN Put(received, <<DestinationOrLink(h), h>>, ins.pending)
                    ELSE received
      /\ IF ins.old.head # Zero
         THEN MoveWeight(ins.old.rep, Negate(ins.old.balance),
                         ins.new.rep, ins.new.balance)
         ELSE MoveWeight(ins.new.rep, ins.new.balance, ins.new.rep, 0)
      /\ cache' = [cache EXCEPT
           !.block_count = @ + 1,
           !.account_count = @ + AccountCountDelta(ins.old, ins.new)]

(* process_batch(), second half: one write transaction inserts the blocks  *)
(* one by one; a block whose account changed is a Conflict.                *)
InsertNext(p) ==
  /\ proc[p].pc = "insert" /\ proc[p].results # <<>>
  /\ writer = "none" \/ writer = p
  /\ LET ins == Head(proc[p].results)
     IN  IF ins.error = "Ok" /\ AccountUnchanged(ins)
         THEN Insert(ins)
         ELSE UNCHANGED <<block, successors, account, pending, rep_weight,
                          rep_cache, cache>>
  /\ writer' = p
  /\ proc' = [proc EXCEPT ![p].results = Tail(@)]
  /\ UNCHANGED <<confirmation_height, rb, cem>>

CommitBatch(p) ==
  /\ proc[p].pc = "insert" /\ proc[p].results = <<>>
  /\ writer = "none" \/ writer = p
  /\ writer' = "none"
  /\ proc' = [proc EXCEPT ![p] = IdleProc]
  /\ UNCHANGED <<tables, rep_cache, cache, rb, cem>>

(***************************************************************************)
(* Bounded backlog: roll_back_batch().  The targets were gathered earlier, *)
(* from an index of unconfirmed blocks, so a target may be gone or         *)
(* confirmed by now.  can_roll_back is an unconstrained veto.              *)
(***************************************************************************)
RollBackTarget(target) ==
  /\ Backlog
  /\ writer = "none"
  /\ Exists(target)
  /\ BeginRollback("backlog", target)
  /\ UNCHANGED <<tables, rep_cache, cache, proc, cem>>

(***************************************************************************)
(* Rollback: the loop of roll_back_impl() works on a stack of targets,     *)
(* each with the head of its account.                                      *)
(***************************************************************************)
Top == StackTop(rb.stack)

PreviousBalance(h) ==
  IF Block[h].previous = Zero THEN 0 ELSE Balance(Block[h].previous)

(* block_sub_type(): decided by the balances only. *)
RollsBackSend(h) == Info(block[h].account).balance < PreviousBalance(h)

(* Variant: a receive is treated like a change. *)
NeverRollsBackReceive(h) == FALSE

RollsBackReceive(h) == Info(block[h].account).balance > PreviousBalance(h)

SendKey(h) == <<DestinationOrLink(h), h>>

ReceiveKey(h) == <<block[h].account, SourceOrLink(h)>>

(* Variant: the receiver of a send is not rolled back. *)
NoDependencyFirst(h) == FALSE

(* roll_back_destination_account_if_send_block_is_received() *)
DependencyFirst(h) == RollsBackSend(h) /\ SendKey(h) \notin DOMAIN pending

(* find_rep_block(): the nearest block at or below h in its chain that     *)
(* names a representative; Zero if there is none.                          *)
FindRepBlock(h) ==
  LET candidates == {b \in DOMAIN block :
                       /\ HasRep(b)
                       /\ block[b].account = block[h].account
                       /\ block[b].height <= block[h].height}
  IN  IF candidates = {} THEN Zero
      ELSE CHOOSE b \in candidates :
             \A c \in candidates : block[c].height <= block[b].height

(* Variant: searches from the block that is rolled back. *)
RepBlockFromHead(h) == FindRepBlock(h)

(* get_previous_representative(): the block that names it, or Zero. *)
PreviousRepBlock(h) ==
  IF Block[h].previous = Zero THEN Zero ELSE FindRepBlock(Block[h].previous)

(* Variants: confirmed blocks are not protected; the confirmed frontier is *)
(* not protected; an open block is expected to have a predecessor that     *)
(* names a representative.                                                 *)
NoRollbackError(h) == "none"

FrontierUnprotected(h) ==
  IF IsConfirmed(h) /\ block[h].height < confirmation_height[block[h].account].height
  THEN "BlockConfirmed" ELSE "none"

OpenNeedsRepBlock(h) ==
  IF IsConfirmed(h) THEN "BlockConfirmed"
  ELSE IF /\ ~DependencyFirst(h) /\ PreviousRepBlock(h) = Zero
          /\ Block[h].type \in {"change", "state"}
  THEN "RepresentativeBlockMissing"
  ELSE "none"

(* create_planner() and roll_back_head_block(): why head h cannot be       *)
(* rolled back.                                                            *)
RollbackError(h) ==
  IF Block[h].previous # Zero /\ ~Exists(Block[h].previous)
  THEN "PreviousBlockMissing"
  ELSE IF IsConfirmed(h) THEN "BlockConfirmed"
  ELSE IF /\ ~DependencyFirst(h)
          /\ PreviousRepBlock(h) = Zero
          /\ Block[h].type \in {"change", "state"} /\ ~IsOpen(h)
  THEN "RepresentativeBlockMissing"
  ELSE "none"

(* previous_account_info() *)
PreviousAccountInfo(h) ==
  LET info == Info(block[h].account)
      prev == Block[h].previous
      repBlock == PreviousRepBlock(h)
  IN  IF prev = Zero THEN NoInfo
      ELSE [head |-> prev,
            rep |-> IF repBlock = Zero THEN info.rep ELSE Block[repBlock].rep,
            open_block |-> info.open_block,
            balance |-> Balance(prev),
            block_count |-> info.block_count - 1,
            epoch |-> block[prev].epoch]

(* Variant: the whole balance becomes receivable. *)
WholeBalancePending(h) ==
  [source |-> block[SourceOrLink(h)].account,
   amount |-> Info(block[h].account).balance,
   epoch  |-> block[h].source_epoch]

(* add_pending(): what a rolled back receive makes receivable again. *)
RestoredPending(h) ==
  LET source == SourceOrLink(h)
  IN  [source |-> IF source # Zero /\ Exists(source)
                    THEN block[source].account ELSE Zero,
       amount |-> Info(block[h].account).balance - PreviousBalance(h),
       epoch  |-> block[h].source_epoch]

(* RollbackInstructionsExecutor::execute() *)
RemoveHead(h) ==
  LET acc == block[h].account
      old == Info(acc)
      new == PreviousAccountInfo(h)
      prev == Block[h].previous
      repBlock == PreviousRepBlock(h)
  IN  /\ pending' = CASE RollsBackSend(h) -> Del(pending, SendKey(h))
                      [] RollsBackReceive(h) ->
                           Put(pending, ReceiveKey(h), RestoredPending(h))
                      [] OTHER -> pending
      /\ UpdateAccount(acc, old, new)
      /\ block' = Del(block, h)
      /\ successors' = IF prev # Zero THEN Del(successors, prev) ELSE successors
      /\ IF repBlock # Zero
         THEN MoveWeight(old.rep, Negate(old.balance),
                         Block[repBlock].rep, PreviousBalance(h))
         ELSE MoveWeight(old.rep, Negate(old.balance), old.rep, 0)
      /\ cache' = [cache EXCEPT
           !.block_count = @ - 1,
           !.account_count = @ + AccountCountDelta(old, new)]

(* Variants: the whole stack is dropped; the entry is never popped. *)
DropWholeStack ==
  /\ rb.stack # <<>>
  /\ ~Exists(Top.target)
  /\ rb' = [rb EXCEPT !.stack = <<>>]
  /\ UNCHANGED <<tables, rep_cache, cache, writer, proc, cem>>

PopForgotten ==
  /\ rb.stack # <<>>
  /\ ~Exists(Top.target)
  /\ UNCHANGED vars

(* The target is gone: next entry of the stack. *)
RollbackPop ==
  /\ rb.stack # <<>>
  /\ ~Exists(Top.target)
  /\ rb' = [rb EXCEPT !.stack = StackPop(@)]
  /\ UNCHANGED <<tables, rep_cache, cache, writer, proc, cem>>

(* An error ends the rollback; what was removed stays removed. *)
RollbackFail ==
  /\ rb.stack # <<>>
  /\ Exists(Top.target) /\ Exists(Top.head)
  /\ RollbackError(Top.head) # "none"
  /\ rb' = [rb EXCEPT !.stack = <<>>, !.error = RollbackError(Top.head)]
  /\ UNCHANGED <<tables, rep_cache, cache, writer, proc, cem>>

(* The send was received: roll back the head of the destination first.     *)
(* The code pairs it with the head of the *sender's* account, which only   *)
(* makes the loop ask once more.                                           *)
RollbackDependency ==
  /\ rb.stack # <<>>
  /\ Exists(Top.target) /\ Exists(Top.head)
  /\ RollbackError(Top.head) = "none"
  /\ DependencyFirst(Top.head)
  /\ DestinationOrLink(Top.head) \in DOMAIN account
  /\ rb' = [rb EXCEPT !.stack = Append(@,
       [target |-> account[DestinationOrLink(Top.head)].head,
        head   |-> Info(block[Top.target].account).head])]
  /\ UNCHANGED <<tables, rep_cache, cache, writer, proc, cem>>

(* Remove the head; if it was not the target, go on with the new head. *)
RollbackExecute ==
  /\ rb.stack # <<>>
  /\ Exists(Top.target) /\ Exists(Top.head)
  /\ RollbackError(Top.head) = "none"
  /\ ~DependencyFirst(Top.head)
  /\ RemoveHead(Top.head)
  /\ rb' = IF Top.head = Top.target THEN rb
           ELSE [rb EXCEPT !.stack[Len(rb.stack)].head =
                   account'[block[Top.target].account].head]
  /\ UNCHANGED <<confirmation_height, writer, proc, cem>>

RollbackDone ==
  /\ rb.target # Zero /\ rb.stack = <<>>
  /\ writer' = "none"
  /\ rb' = NoRollback
  /\ UNCHANGED <<tables, rep_cache, cache, proc, cem>>

(***************************************************************************)
(* Cementing: confirm_batch() for one root.  The batch is a sequence of    *)
(* roots between which the transaction may be refreshed.                   *)
(***************************************************************************)
BeginCement(root) ==
  /\ cem.pc = "idle"
  /\ cem' = [IdleCem EXCEPT !.pc = "loop", !.root = root]
  /\ UNCHANGED <<tables, rep_cache, cache, writer, proc, rb>>

(* Top of the loop: a root that was rolled back is given up. *)
CementLoop ==
  /\ cem.pc = "loop" /\ writer = "none"
  /\ IF Exists(cem.root)
     THEN /\ writer' = "cementer"
          /\ cem' = [cem EXCEPT !.pc = "step", !.stack = <<cem.root>>, !.count = 0]
     ELSE /\ cem' = IdleCem
          /\ UNCHANGED writer
  /\ UNCHANGED <<tables, rep_cache, cache, proc, rb>>

(* Variant: the stack keeps the oldest entries. *)
PushWhileRoom(stack, new) ==
  LET all == stack \o new
  IN  SubSeq(all, 1, IF Len(all) > MaxCement THEN MaxCement ELSE Len(all))

(* The stack keeps the newest MaxCement entries: pushing beyond that       *)
(* forgets the bottom.                                                     *)
PushBounded(stack, new) ==
  LET all == stack \o new
  IN  SubSeq(all, IF Len(all) > MaxCement THEN Len(all) - MaxCement + 1 ELSE 1,
             Len(all))

(* Variants: sources, or predecessors, are not cemented first. *)
UnconfirmedPrevious(h) ==
  LET d == DependentBlocks(h)[1]
  IN  IF d = Zero \/ IsConfirmed(d) THEN <<>> ELSE <<d>>

UnconfirmedSource(h) ==
  LET d == DependentBlocks(h)[2]
  IN  IF d = Zero \/ IsConfirmed(d) THEN <<>> ELSE <<d>>

UnconfirmedDependents(h) ==
  LET Unconfirmed(d) == IF d = Zero \/ IsConfirmed(d) THEN <<>> ELSE <<d>>
  IN  Unconfirmed(DependentBlocks(h)[1]) \o Unconfirmed(DependentBlocks(h)[2])

(* One iteration of BlockCementer::confirm().  block.get().unwrap() needs  *)
(* the block at the top of the stack.  After each iteration the            *)
(* transaction may be refreshed: commit and let others write.              *)
CementStep(refresh) ==
  /\ cem.pc = "step" /\ cem.stack # <<>> /\ cem.count < MaxCement
  /\ Exists(StackTop(cem.stack))
  /\ LET h == StackTop(cem.stack)
         unconfirmed == UnconfirmedDependents(h)
         pc == IF refresh THEN "refresh" ELSE "step"
     IN  IF unconfirmed # <<>>
         THEN /\ cem' = [cem EXCEPT !.pc = pc, !.stack = PushBounded(@, unconfirmed)]
              /\ UNCHANGED <<confirmation_height, cache>>
         ELSE IF IsConfirmed(h)
         THEN /\ cem' = [cem EXCEPT !.pc = pc, !.stack = StackPop(@)]
              /\ UNCHANGED <<confirmation_height, cache>>
         ELSE /\ cem' = [cem EXCEPT !.pc = pc, !.stack = StackPop(@), !.count = @ + 1]
              /\ confirmation_height' =
                   Put(confirmation_height, block[h].account,
                       [height |-> block[h].height, frontier |-> h])
              /\ cache' = [cache EXCEPT !.confirmed_count = @ + 1]
  /\ writer' = IF refresh THEN "none" ELSE writer
  /\ UNCHANGED <<block, successors, account, pending, rep_weight, rep_cache,
                 proc, rb>>

(* Variant: the root is not looked up again. *)
ResumeUnchecked ==
  /\ cem.pc = "refresh" /\ writer = "none"
  /\ writer' = "cementer"
  /\ cem' = [cem EXCEPT !.pc = "step"]
  /\ UNCHANGED <<tables, rep_cache, cache, proc, rb>>

(* After the refresh the walk stops if its root was rolled back. *)
CementResume ==
  /\ cem.pc = "refresh" /\ writer = "none"
  /\ IF Exists(cem.root)
     THEN writer' = "cementer" /\ cem' = [cem EXCEPT !.pc = "step"]
     ELSE UNCHANGED writer /\ cem' = [cem EXCEPT !.pc = "loop", !.stack = <<>>]
  /\ UNCHANGED <<tables, rep_cache, cache, proc, rb>>

(* The walk is over; the loop goes on until the root is confirmed. *)
CementFinish ==
  /\ cem.pc = "step"
  /\ cem.stack = <<>> \/ cem.count >= MaxCement
  /\ writer' = "none"
  /\ cem' = IF IsConfirmed(cem.root) THEN IdleCem
            ELSE [cem EXCEPT !.pc = "loop", !.stack = <<>>, !.count = 0]
  /\ UNCHANGED <<tables, rep_cache, cache, proc, rb>>

(***************************************************************************)
(* Start: the caches are computed from the tables, by one or more threads  *)
(* that each own a part of the account table.                              *)
(***************************************************************************)
BalanceDelegatedTo(rep, accounts) ==
  MapThenSumSet(LAMBDA a : IF account[a].rep = rep THEN account[a].balance ELSE 0,
                accounts)

(* copy_from(): adds one thread's sums to the cache. *)
CopyFrom(weights, accounts) ==
  [r \in Rep |->
     LET sum == BalanceDelegatedTo(r, accounts)
     IN  IF sum = 0 THEN weights[r]
         ELSE CachedWeight((weights[r] + sum) % (Supply + 1))]

LoadedCounters ==
  [block_count |-> MapThenSumSet(LAMBDA a : account[a].block_count, DOMAIN account),
   account_count |-> Cardinality(DOMAIN account),
   confirmed_count |-> MapThenSumSet(LAMBDA a : confirmation_height[a].height,
                                     DOMAIN confirmation_height)]

(* Crash and restart: the tables survive, everything else is rebuilt. *)
Restart ==
  /\ writer = "none"
  /\ \E first \in SUBSET DOMAIN account :
       /\ LoadThreads = 1 => first = DOMAIN account
       /\ rep_cache' = CopyFrom(CopyFrom([r \in Rep |-> 0], first),
                                DOMAIN account \ first)
  /\ cache' = LoadedCounters
  /\ proc' = [p \in Processor |-> IdleProc]
  /\ cem' = IdleCem
  /\ UNCHANGED <<tables, writer, rb>>

(***************************************************************************)
(* Initial state: an empty database gets the genesis block, confirmed.     *)
(***************************************************************************)
GenesisSideband ==
  [account |-> GenesisAccount, height |-> 1, balance |-> Supply, epoch |-> 0,
   source_epoch |-> 0, is_send |-> FALSE, is_receive |-> TRUE, is_epoch |-> FALSE]

GenesisInfo ==
  [head |-> GenesisHash, rep |-> GenesisAccount, open_block |-> GenesisHash,
   balance |-> Supply, block_count |-> 1, epoch |-> 0]

Single(key, value) == [k \in {key} |-> value]

Init ==
  /\ block = Single(GenesisHash, GenesisSideband)
  /\ successors = [h \in {} |-> Zero]
  /\ account = Single(GenesisAccount, GenesisInfo)
  /\ pending = [k \in {} |-> NoPending]
  /\ confirmation_height =
       Single(GenesisAccount, [height |-> 1, frontier |-> GenesisHash])
  /\ rep_weight = [r \in Rep |-> IF r = GenesisAccount THEN Supply ELSE 0]
  /\ rep_cache = [r \in Rep |-> IF r = GenesisAccount THEN CachedWeight(Supply) ELSE 0]
  /\ cache = [block_count |-> 1, account_count |-> 1, confirmed_count |-> 1]
  /\ writer = "none"
  /\ proc = [p \in Processor |-> IdleProc]
  /\ rb = NoRollback
  /\ cem = IdleCem

Batches == UNION {[1 .. n -> Hash] : n \in 1 .. MaxBatch}

RollbackStep ==
  RollbackPop \/ RollbackFail \/ RollbackDependency \/ RollbackExecute \/ RollbackDone

ProcessorStep(p) ==
  RollBackCompetitor(p) \/ ValidateBatch(p) \/ InsertNext(p) \/ CommitBatch(p)

CementerStep ==
  \/ CementLoop
  \/ \E refresh \in BOOLEAN : CementStep(refresh)
  \/ CementResume
  \/ CementFinish

Next ==
  \/ \E p \in Processor :
       \/ \E batch \in Batches : \E forced \in SUBSET (Forced \cap Range(batch)) :
            PopBatch(p, batch, forced)
       \/ ProcessorStep(p)
  \/ \E h \in Hash \ {GenesisHash} : RollBackTarget(h)
  \/ RollbackStep
  \/ \E h \in Elected : BeginCement(h)
  \/ CementerStep
  \/ Restart

Spec == Init /\ [][Next]_vars

(* A thread that runs keeps running, and a thread that waits for the write *)
(* transaction gets it eventually, although others take it in between:     *)
(* LMDB's writer mutex does not starve a waiter forever.                   *)
Fairness ==
  /\ WF_vars(RollbackStep)
  /\ \A p \in Processor : SF_vars(ProcessorStep(p))
  /\ SF_vars(CementerStep)

FairSpec == Spec /\ Fairness
=============================================================================
