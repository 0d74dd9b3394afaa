--------------------------- MODULE BlockValidation ---------------------------
(***************************************************************************)
(* The block validation rules (ledger/src/block_insertion/validation).     *)
(* A validator v is the record the code calls BlockValidator: the block    *)
(* and everything that was read about it from one ledger snapshot.         *)
(*   v.hash          the block to validate                                 *)
(*   v.account       its account, Zero if unknown                          *)
(*   v.exists        the block is in the ledger already                    *)
(*   v.hasPrevious, v.previous   the previous block's type and balance     *)
(*   v.info          the account's info, NoInfo for a new account          *)
(*   v.hasPending, v.pending     the entry it would receive                *)
(*   v.anyPending    the account has some pending entry                    *)
(*   v.sourceExists  the block named by source_or_link is in the ledger    *)
(***************************************************************************)
EXTENDS Blocks

AccountInfo ==
  [head : Hash \cup {Zero}, rep : Account \cup {Zero},
   open_block : Hash \cup {Zero}, balance : Amount, block_count : Nat,
   epoch : Epoch]

(* AccountInfo::default(): what the code works with for a new account. *)
NoInfo ==
  [head |-> Zero, rep |-> Zero, open_block |-> Zero, balance |-> 0,
   block_count |-> 0, epoch |-> 0]

PendingInfo == [source : Account \cup {Zero}, amount : Amount, epoch : Epoch]

NoPending == [source |-> Zero, amount |-> 0, epoch |-> 0]

Sideband ==
  [account : Account, height : Nat, balance : Amount, epoch : Epoch,
   source_epoch : Epoch, is_send : BOOLEAN, is_receive : BOOLEAN,
   is_epoch : BOOLEAN]

AccountExists(v) == v.info.head # Zero

IsSend(v) ==
  \/ Block[v.hash].type = "send"
  \/ IsState(v.hash) /\ AccountExists(v) /\ Block[v.hash].balance < v.info.balance

IsReceive(v) ==
  \/ Block[v.hash].type \in {"receive", "open"}
  \/ /\ IsState(v.hash)
     /\ ~HasEpochLink(v.hash)
     /\ AccountExists(v) =>
          Block[v.hash].balance >= v.info.balance /\ Block[v.hash].link # Zero

(* v.previous.balance is 0 without a previous block. *)
IsEpochBlock(v) ==
  HasEpochLink(v.hash) /\ v.previous.balance = Block[v.hash].balance

AmountReceived(v) ==
  CASE Block[v.hash].type \in {"receive", "open"} -> v.pending.amount
    [] IsState(v.hash) /\ v.previous.balance < Block[v.hash].balance ->
         Block[v.hash].balance - v.previous.balance
    [] OTHER -> 0

AmountSent(v) ==
  IF /\ AccountExists(v)
     /\ Block[v.hash].type \in {"send", "state"}
     /\ Block[v.hash].balance < v.info.balance
  THEN v.info.balance - Block[v.hash].balance
  ELSE 0

(* u128 arithmetic: a release build wraps. *)
NewBalance(v) ==
  (v.info.balance + AmountReceived(v) - AmountSent(v)) % (Supply + 1)

MaxEpoch(e1, e2) == IF e1 >= e2 THEN e1 ELSE e2

NewEpoch(v) ==
  IF IsEpochBlock(v)
  THEN EpochOf[Block[v.hash].link]
  ELSE MaxEpoch(v.info.epoch, v.pending.epoch)

(***************************************************************************)
(* The rules.  Each is named after the code's ensure_ function and says    *)
(* what an accepted block satisfies.                                       *)
(***************************************************************************)
EpochCandidateIsSigned(v) ==
  HasEpochLink(v.hash) => Block[v.hash].signer \in {"owner", "epoch"}

EpochCandidateHasPrevious(v) ==
  HasEpochLink(v.hash) /\ Block[v.hash].previous # Zero => v.hasPrevious

PredecessorExists(v) == Block[v.hash].previous # Zero => v.hasPrevious

PredecessorIsValid(v) ==
  Block[v.hash].previous # Zero => ValidPredecessor(v.hash, Block[v.hash].previous)

ValidSignature(v) ==
  Block[v.hash].signer = IF IsEpochBlock(v) THEN "epoch" ELSE "owner"

AccountExistsForNonOpen(v) == IsOpen(v.hash) \/ AccountExists(v)

NoDoubleOpen(v) == ~(AccountExists(v) /\ IsOpen(v.hash))

PreviousBlockExists(v) ==
  IF AccountExists(v) THEN v.hasPrevious ELSE Block[v.hash].previous = Zero

PreviousIsAccountHead(v) ==
  AccountExists(v) => Block[v.hash].previous = v.info.head

OpenHasLink(v) ==
  IsState(v.hash) /\ IsOpen(v.hash) => Block[v.hash].link # Zero

NoReceiveWithoutLink(v) ==
  IsState(v.hash) /\ Block[v.hash].link = Zero => AmountReceived(v) = 0

SourceExists(v) == IsReceive(v) => v.sourceExists

Receivable(v) == IsReceive(v) => v.hasPending

ReceivesPendingAmount(v) == IsReceive(v) => AmountReceived(v) = v.pending.amount

LegacySourceIsEpoch0(v) ==
  Block[v.hash].type \in {"receive", "open"} => v.pending.epoch = 0

NoNegativeSend(v) ==
  Block[v.hash].type = "send" => v.previous.balance >= Block[v.hash].balance

EpochKeepsRep(v) ==
  IsEpochBlock(v) =>
    /\ AccountExists(v) => Block[v.hash].rep = v.info.rep
    /\ IsOpen(v.hash) => Block[v.hash].rep = Zero

EpochOpenHasPending(v) == IsOpen(v.hash) /\ IsEpochBlock(v) => v.anyPending

EpochIsSequential(v) ==
  IsEpochBlock(v) /\ AccountExists(v) =>
    EpochOf[Block[v.hash].link] = v.info.epoch + 1

EpochKeepsBalance(v) ==
  IsEpochBlock(v) /\ AccountExists(v) => NewBalance(v) = v.info.balance

(* validate(): the first rule that fails decides the error. *)
Validate(v) ==
  IF ~EpochCandidateIsSigned(v)         THEN "BadSignature"
  ELSE IF ~EpochCandidateHasPrevious(v) THEN "GapPrevious"
  ELSE IF v.exists                      THEN "Old"
  ELSE IF ~PredecessorExists(v)         THEN "GapPrevious"
  ELSE IF ~PredecessorIsValid(v)        THEN "BlockPosition"
  ELSE IF ~ValidSignature(v)            THEN "BadSignature"
  ELSE IF v.account = Zero              THEN "OpenedBurnAccount"
  ELSE IF ~AccountExistsForNonOpen(v)   THEN "GapPrevious"
  ELSE IF ~NoDoubleOpen(v)              THEN "Fork"
  ELSE IF ~PreviousBlockExists(v)       THEN "GapPrevious"
  ELSE IF ~PreviousIsAccountHead(v)     THEN "Fork"
  ELSE IF ~OpenHasLink(v)               THEN "GapSource"
  ELSE IF ~NoReceiveWithoutLink(v)      THEN "BalanceMismatch"
  ELSE IF ~SourceExists(v)              THEN "GapSource"
  ELSE IF ~Receivable(v)                THEN "Unreceivable"
  ELSE IF ~ReceivesPendingAmount(v)     THEN "BalanceMismatch"
  ELSE IF ~LegacySourceIsEpoch0(v)      THEN "Unreceivable"
  ELSE IF ~Block[v.hash].work           THEN "InsufficientWork"
  ELSE IF ~NoNegativeSend(v)            THEN "NegativeSpend"
  ELSE IF ~EpochKeepsRep(v)             THEN "RepresentativeMismatch"
  ELSE IF ~EpochOpenHasPending(v)       THEN "GapEpochOpenPending"
  ELSE IF ~EpochIsSequential(v)         THEN "BlockPosition"
  ELSE IF ~EpochKeepsBalance(v)         THEN "BalanceMismatch"
  ELSE "Ok"

NewSideband(v) ==
  [account |-> v.account, height |-> v.info.block_count + 1,
   balance |-> NewBalance(v), epoch |-> NewEpoch(v),
   source_epoch |-> v.pending.epoch, is_send |-> IsSend(v),
   is_receive |-> IsReceive(v), is_epoch |-> IsEpochBlock(v)]

NewAccountInfo(v) ==
  [head |-> v.hash,
   rep |-> IF HasRep(v.hash) THEN Block[v.hash].rep ELSE v.info.rep,
   open_block |-> IF AccountExists(v) THEN v.info.open_block ELSE v.hash,
   balance |-> NewBalance(v),
   block_count |-> v.info.block_count + 1,
   epoch |-> NewEpoch(v)]

(* The pending entry of a send; a legacy send has one even if it moves     *)
(* nothing, and its entry is always of epoch 0.                            *)
NewPendingInfo(v) ==
  [source |-> v.account, amount |-> AmountSent(v),
   epoch  |-> IF IsState(v.hash) THEN NewEpoch(v) ELSE 0]

(* create_instructions(): what insertion will write. *)
Instructions(v) ==
  [error |-> "Ok", hash |-> v.hash, account |-> v.account, old |-> v.info,
   new |-> NewAccountInfo(v), sideband |-> NewSideband(v),
   receives |-> IsReceive(v), sends |-> IsSend(v),
   pending |-> NewPendingInfo(v)]
=============================================================================
