------------------------- MODULE LedgerInvariant ----------------------------
(***************************************************************************)
(* The inductive invariant from which the ledger's theorems are proved.    *)
(***************************************************************************)
EXTENDS LedgerProperties

(* What a stored block looks like by its content alone: heights, block     *)
(* counts and open blocks are functions of a hash.  An account that has    *)
(* the head it had at validation therefore has the whole info it had, as   *)
(* far as the chain is concerned.                                          *)
ChainStatic ==
  /\ \A h \in DOMAIN block :
       /\ block[h].height = Depth[h]
       /\ Block[h].previous = Zero => block[h].account = Block[h].account
  /\ \A a \in DOMAIN account :
       /\ account[a].head # Zero
       /\ account[a].block_count = Depth[account[a].head]
       /\ account[a].open_block = ChainRoot[account[a].head]

InstructionSet ==
  [error : {"Ok"}, hash : Hash, account : Account, old : AccountInfo,
   new : AccountInfo, sideband : Sideband, receives : BOOLEAN, sends : BOOLEAN,
   pending : PendingInfo]

(* What validation established about its instructions, independently of    *)
(* the ledger's state when they are executed.                              *)
Sound(ins) ==
  /\ ins.new.head = ins.hash
  /\ ins.new.block_count = Depth[ins.hash]
  /\ ins.new.open_block = ChainRoot[ins.hash]
  /\ ins.sideband.account = ins.account
  /\ ins.sideband.height = Depth[ins.hash]
  /\ ins.sideband.epoch = ins.new.epoch
  /\ ins.new.balance = IF Block[ins.hash].type \in {"send", "state"}
                       THEN Block[ins.hash].balance ELSE ins.sideband.balance
  /\ Block[ins.hash].previous = ins.old.head
  /\ ins.old.head = Zero => ins.account = Block[ins.hash].account

Errors ==
  {"BadSignature", "GapPrevious", "Old", "BlockPosition", "OpenedBurnAccount",
   "Fork", "GapSource", "BalanceMismatch", "Unreceivable", "InsufficientWork",
   "NegativeSpend", "RepresentativeMismatch", "GapEpochOpenPending"}

Result == {ins \in InstructionSet : Sound(ins)} \cup [error : Errors]

ProcState(todo) ==
  [pc : {"idle", "competitors", "insert"}, batch : Seq(Hash), todo : {todo},
   results : Seq(Result)]

(* The records of the threads; what a field holds is left open where the   *)
(* invariant does not depend on it.                                        *)
ThreadsInv ==
  /\ \A p \in Processor :
       proc[p] \in ProcState(proc[p].todo)
  /\ cem \in [pc : {"idle", "loop", "step", "refresh"}, root : {cem.root},
              stack : {cem.stack}, count : {cem.count}]
  /\ rb \in [target : Hash \cup {Zero}, stack : Seq(StackEntry),
             error : {rb.error}, before : {rb.before}]

(* Who holds the write transaction. *)
Locking ==
  /\ cem.pc = "step" => writer = "cementer"
  /\ rb.target # Zero =>
       \/ writer = "backlog"
       \/ writer \in Processor /\ proc[writer].pc = "competitors"
  /\ rb.target = Zero => rb.stack = <<>>

(* A head that a rollback remembers is still the head of its account, or   *)
(* it is gone.                                                             *)
StackFresh ==
  \A i \in 1 .. Len(rb.stack) :
    LET h == rb.stack[i].head
    IN  Exists(h) => account[block[h].account].head = h

TablesInv ==
  TablesOK /\ ChainIntegrity /\ ChainStatic /\ FrontiersExist /\ ConfirmedClosed

IInv == TablesInv /\ ThreadsOK /\ ThreadsInv /\ Locking /\ StackFresh

=============================================================================
