--------------------- MODULE LedgerValidationProofs -------------------------
(***************************************************************************)
(* What validation returns, and what cementing one block does to the       *)
(* tables, for every set of blocks.                                        *)
(***************************************************************************)
EXTENDS LedgerInvariant, NatLemmas, TLAPS

(***************************************************************************)
(* Cementing                                                               *)
(***************************************************************************)
(* The cementing thread extends the confirmed part by exactly one block,   *)
(* the next one of its account.                                            *)
LEMMA CementsNextBlock ==
  ASSUME TablesInv,
         NEW h \in DOMAIN block, UnconfirmedDependents(h) = <<>>, ~IsConfirmed(h),
         confirmation_height' = Put(confirmation_height, block[h].account,
                                    [height |-> block[h].height, frontier |-> h]),
         UNCHANGED <<block, successors, account, pending, rep_weight>>
  PROVE  /\ TablesInv'
         /\ \A x \in Hash : IsConfirmed(x) => IsConfirmed(x)'
         /\ \A b \in DOMAIN confirmation_height' :
              LET old == IF b \in DOMAIN confirmation_height
                         THEN confirmation_height[b].height ELSE 0
              IN  confirmation_height'[b].height \in {old, old + 1}
<1> DEFINE a == block[h].account
           prev == Block[h].previous
<1>1. /\ h \in Hash /\ a \in Account /\ block[h].height \in Nat
      /\ 1 <= block[h].height
      /\ \A x \in DOMAIN block : block[x].height \in Nat
      /\ \A b \in DOMAIN confirmation_height : confirmation_height[b].height \in Nat
  BY DEF TablesInv, TablesOK, Sideband, ChainIntegrity, HeightsBounded
<1>2. \A d \in Dependents(h) : IsConfirmed(d)
  BY DEF UnconfirmedDependents, Dependents
<1>3. prev # Zero => /\ a \in DOMAIN confirmation_height
                     /\ confirmation_height[a].height = block[h].height - 1
  <2> SUFFICES ASSUME prev # Zero
               PROVE  /\ a \in DOMAIN confirmation_height
                      /\ confirmation_height[a].height = block[h].height - 1
    OBVIOUS
  <2>1. prev \in Dependents(h)
    BY <1>1, BlockAssumption DEF Dependents, DependentBlocks
  <2>2. /\ prev \in DOMAIN block /\ block[prev].account = a
        /\ block[prev].height = block[h].height - 1
    BY DEF TablesInv, ChainIntegrity, ChainsLinked
  <2>3. /\ a \in DOMAIN confirmation_height
        /\ block[prev].height <= confirmation_height[a].height
    BY <1>2, <2>1, <2>2 DEF IsConfirmed
  <2>4. ~(block[h].height <= confirmation_height[a].height)
    BY <2>3 DEF IsConfirmed, Exists
  <2> QED BY <1>1, <2>2, <2>3, <2>4
<1>4. prev = Zero => a \notin DOMAIN confirmation_height /\ block[h].height = 1
  <2> SUFFICES ASSUME prev = Zero
               PROVE  a \notin DOMAIN confirmation_height /\ block[h].height = 1
    OBVIOUS
  <2>1. block[h].height = 1
    BY DEF TablesInv, ChainIntegrity, ChainsLinked
  <2>2. ASSUME a \in DOMAIN confirmation_height PROVE FALSE
    <3> DEFINE f == confirmation_height[a].frontier
    <3>1. f \in DOMAIN block /\ block[f].height = confirmation_height[a].height
      BY <2>2 DEF TablesInv, FrontiersExist
    <3>2. 1 <= block[f].height
      BY <1>1, <3>1 DEF TablesInv, ChainIntegrity, HeightsBounded
    <3> QED BY <2>1, <2>2, <3>1, <3>2 DEF IsConfirmed, Exists
  <2> QED BY <2>1, <2>2
<1>5. /\ DOMAIN confirmation_height' = DOMAIN confirmation_height \cup {a}
      /\ confirmation_height'[a] = [height |-> block[h].height, frontier |-> h]
      /\ \A b \in DOMAIN confirmation_height :
           b # a => confirmation_height'[b] = confirmation_height[b]
  BY DEF Put
<1>6. ASSUME NEW x PROVE IsConfirmed(x)' <=> IsConfirmed(x) \/ x = h
  <2>1. CASE x \in DOMAIN block /\ block[x].account = a
    <3>1. IsConfirmed(x)' <=> block[x].height <= block[h].height
      BY <1>5, <2>1 DEF IsConfirmed, Exists
    <3>2. block[x].height = block[h].height <=> x = h
      BY <2>1 DEF TablesInv, ChainIntegrity, NoForks
    <3>3. CASE prev # Zero
      <4>1. IsConfirmed(x) <=> block[x].height <= block[h].height - 1
        BY <1>3, <2>1, <3>3 DEF IsConfirmed, Exists
      <4> QED BY <1>1, <2>1, <3>1, <3>2, <4>1
    <3>4. CASE prev = Zero
      <4>1. ~IsConfirmed(x) /\ 1 <= block[x].height
        BY <1>1, <1>4, <2>1, <3>4
        DEF IsConfirmed, TablesInv, ChainIntegrity, HeightsBounded
      <4> QED BY <1>1, <1>4, <2>1, <3>1, <3>2, <3>4, <4>1
    <3> QED BY <3>3, <3>4
  <2>2. CASE x \in DOMAIN block /\ block[x].account # a
    BY <1>5, <2>2 DEF IsConfirmed, Exists
  <2>3. CASE x \notin DOMAIN block
    BY <2>3 DEF IsConfirmed, Exists
  <2> QED BY <2>1, <2>2, <2>3
<1>7. TablesOK'
  BY <1>1, <1>5 DEF TablesInv, TablesOK
<1>8. ChainIntegrity' /\ ChainStatic'
  BY DEF TablesInv, ChainIntegrity, ChainStatic, HeightsBounded, HeadsMatch, Balance,
         ChainsLinked, NoForks, SuccessorsMatch
<1>9. FrontiersExist'
  BY <1>5 DEF TablesInv, FrontiersExist
<1>10. ConfirmedClosed'
  <2> SUFFICES ASSUME NEW x \in DOMAIN block', IsConfirmed(x)',
                      NEW d \in Dependents(x)'
               PROVE  IsConfirmed(d)'
    BY DEF ConfirmedClosed
  <2>1. d \in Dependents(x) /\ x \in DOMAIN block
    BY DEF Dependents, DependentBlocks
  <2>2. IsConfirmed(d)
    BY <1>2, <1>6, <2>1 DEF TablesInv, ConfirmedClosed
  <2> QED BY <1>6, <2>2
<1>11. ASSUME NEW b \in DOMAIN confirmation_height'
       PROVE  LET old == IF b \in DOMAIN confirmation_height
                         THEN confirmation_height[b].height ELSE 0
              IN  confirmation_height'[b].height \in {old, old + 1}
  <2>1. CASE b = a
    BY <1>1, <1>3, <1>4, <1>5, <2>1
  <2>2. CASE b # a
    BY <1>5, <2>2
  <2> QED BY <2>1, <2>2
<1> QED BY <1>6, <1>7, <1>8, <1>9, <1>10, <1>11 DEF TablesInv

(***************************************************************************)
(* Validation                                                              *)
(***************************************************************************)
LEMMA SmallModulo ==
  ASSUME NEW x \in Amount PROVE x % (Supply + 1) = x
BY SortAssumption DEF Amount

(* What validation reads is well typed and tells whether the account and   *)
(* its head exist.                                                         *)
LEMMA ValidatorFacts ==
  ASSUME TablesInv, NEW h \in Hash
  PROVE  LET v == Validator(h)
             prev == Block[h].previous
         IN  /\ v.hash = h
             /\ v.account \in Account \cup {Zero}
             /\ v.info = Info(v.account)
             /\ v.info \in AccountInfo
             /\ v.pending \in PendingInfo
             /\ v.previous.balance \in Amount
             /\ AccountExists(v) <=> v.account \in DOMAIN account
             /\ v.hasPrevious <=> prev # Zero /\ prev \in DOMAIN block
             /\ v.previous.balance = IF v.hasPrevious THEN Balance(prev) ELSE 0
             /\ Block[h].type \in {"open", "state"} => v.account = Block[h].account
             /\ Block[h].type \notin {"open", "state"} /\ prev = Zero =>
                  v.account = Zero
<1> DEFINE v == Validator(h)
           prev == Block[h].previous
<1>1. Block[h] \in BlockContent /\ prev \in Hash \cup {Zero}
  BY BlockAssumption DEF BlockContent
<1>2. /\ v.hash = h /\ v.info = Info(v.account)
      /\ v.hasPrevious <=> prev # Zero /\ prev \in DOMAIN block
      /\ v.previous.balance = IF v.hasPrevious THEN Balance(prev) ELSE 0
      /\ Block[h].type \in {"open", "state"} => v.account = Block[h].account
      /\ Block[h].type \notin {"open", "state"} =>
           v.account = IF v.hasPrevious THEN block[prev].account ELSE Zero
  <2>1. v.hash = h /\ v.info = Info(v.account)
    BY Zenon DEF Validator
  <2>2. v.hasPrevious <=> prev # Zero /\ prev \in DOMAIN block
    BY Zenon DEF Validator, Exists
  <2>3. v.previous.balance = IF v.hasPrevious THEN Balance(prev) ELSE 0
    BY Zenon DEF Validator
  <2>4. Block[h].type \in {"open", "state"} => v.account = Block[h].account
    BY DEF Validator
  <2>5. Block[h].type \notin {"open", "state"} =>
           v.account = IF v.hasPrevious THEN block[prev].account ELSE Zero
    BY Zenon DEF Validator
  <2> QED BY <2>1, <2>2, <2>3, <2>4, <2>5, SMTT(30)
<1>3. v.pending \in PendingInfo
  <2>1. NoPending \in PendingInfo
    BY SortAssumption DEF NoPending, PendingInfo, Amount, Epoch
  <2> QED BY <2>1 DEF Validator, TablesInv, TablesOK
<1> HIDE DEF v
<1>4. v.account \in Account \cup {Zero}
  BY <1>1, <1>2 DEF BlockContent, TablesInv, TablesOK, Sideband
<1>5. v.info \in AccountInfo /\ (AccountExists(v) <=> v.account \in DOMAIN account)
  <2>1. NoInfo \in AccountInfo /\ NoInfo.head = Zero
    BY SortAssumption DEF NoInfo, AccountInfo, Amount, Epoch
  <2> QED BY <1>2, <2>1 DEF Info, AccountExists, TablesInv, TablesOK, ChainStatic
<1>6. v.previous.balance \in Amount
  <2>1. \A x \in DOMAIN block : Balance(x) \in Amount
    BY BlockAssumption DEF TablesInv, TablesOK, Balance, BlockContent, Sideband
  <2>2. 0 \in Amount
    BY SortAssumption DEF Amount
  <2> QED BY <1>2, <2>1, <2>2
<1>7. v = Validator(h)
  BY DEF v
<1> QED BY <1>2, <1>3, <1>4, <1>5, <1>6, <1>7

(* A block that validates gets sound instructions.                         *)
LEMMA ValidationSound ==
  ASSUME TablesInv, NEW h \in Hash
  PROVE  ValidationResult(h) \in Result
<1> DEFINE v == Validator(h)
           prev == Block[h].previous
           b == Block[h].balance
<1>1. CASE Validate(v) # "Ok"
  <2> HIDE DEF v
  <2>1. Validate(v) \in Errors
    BY <1>1, SMTT(30) DEF Validate, Errors
  <2>2. ValidationResult(h) = [error |-> Validate(v)]
    BY <1>1 DEF ValidationResult, v
  <2> QED BY <1>1, <2>1, <2>2 DEF Result
<1>2. CASE Validate(v) = "Ok"
  <2>1. /\ v.hash = h
        /\ v.account \in Account \cup {Zero}
        /\ v.info = Info(v.account) /\ v.info \in AccountInfo
        /\ v.pending \in PendingInfo /\ v.previous.balance \in Amount
        /\ AccountExists(v) <=> v.account \in DOMAIN account
        /\ v.hasPrevious <=> prev # Zero /\ prev \in DOMAIN block
        /\ v.previous.balance = IF v.hasPrevious THEN Balance(prev) ELSE 0
        /\ Block[h].type \in {"open", "state"} => v.account = Block[h].account
        /\ Block[h].type \notin {"open", "state"} /\ prev = Zero => v.account = Zero
    BY ValidatorFacts
  <2>2. ValidationResult(h) = Instructions(v)
    BY <1>2 DEF ValidationResult
  <2> HIDE DEF v
  <2>3. /\ v.account # Zero /\ AccountExistsForNonOpen(v)
        /\ PreviousBlockExists(v) /\ PreviousIsAccountHead(v) /\ NoNegativeSend(v)
    BY <1>2, SMTT(20) DEF Validate
  <2>4. Block[h] \in BlockContent /\ prev \in Hash \cup {Zero} /\ b \in Amount
    BY BlockAssumption DEF BlockContent
  <2>5. prev = v.info.head
    BY <2>1, <2>3 DEF PreviousBlockExists, PreviousIsAccountHead, Info, NoInfo, AccountExists
  <2>6. /\ v.info.block_count + 1 = Depth[h]
        /\ (IF AccountExists(v) THEN v.info.open_block ELSE h) = ChainRoot[h]
        /\ v.previous.balance = v.info.balance
    <3>1. CASE AccountExists(v)
      <4>1. /\ v.info = account[v.account] /\ prev # Zero
            /\ v.info.block_count = Depth[prev] /\ v.info.open_block = ChainRoot[prev]
            /\ prev \in DOMAIN block /\ Balance(prev) = v.info.balance
        BY <2>1, <2>5, <3>1
        DEF AccountExists, Info, TablesInv, ChainStatic, ChainIntegrity, HeadsMatch
      <4> QED BY <2>1, <3>1, <4>1, AcyclicAssumption
    <3>2. CASE ~AccountExists(v)
      <4>1. v.info = NoInfo /\ prev = Zero
        BY <2>1, <2>5, <3>2 DEF Info, AccountExists
      <4> QED BY <2>1, <3>2, <4>1, AcyclicAssumption DEF NoInfo
    <3> QED BY <3>1, <3>2
  <2>7. v.info.head = Zero => v.account = Block[h].account
    BY <2>1, <2>3, <2>5
  <2>8. NewBalance(v) \in Amount /\ AmountSent(v) \in Amount
    <3>1. v.info.balance \in Amount /\ v.pending.amount \in Amount
      BY <2>1 DEF AccountInfo, PendingInfo
    <3>2. AmountReceived(v) \in Int
      BY <2>1, <2>4, <3>1, SortAssumption DEF AmountReceived, Amount
    <3>3. AmountSent(v) \in Amount
      BY <2>1, <2>4, <3>1, SortAssumption DEF AmountSent, Amount
    <3> QED BY <3>1, <3>2, <3>3, SortAssumption DEF NewBalance, Amount
  <2>9. Block[h].type \in {"send", "state"} => NewBalance(v) = b
    <3> SUFFICES ASSUME Block[h].type \in {"send", "state"} PROVE NewBalance(v) = b
      OBVIOUS
    <3>1. v.info.balance \in Amount
      BY <2>1 DEF AccountInfo
    <3>2. ~AccountExists(v) => v.info.balance = 0 /\ IsState(h)
      BY <2>1, <2>3 DEF AccountExistsForNonOpen, IsOpen, IsState, Info, NoInfo
    <3>3. v.info.balance + AmountReceived(v) - AmountSent(v) = b
      <4>1. CASE Block[h].type = "state"
        <5>1. AmountReceived(v) = IF v.info.balance < b THEN b - v.info.balance ELSE 0
          BY <2>1, <2>6, <4>1 DEF AmountReceived, IsState
        <5>2. AmountSent(v) = IF AccountExists(v) /\ b < v.info.balance
                              THEN v.info.balance - b ELSE 0
          BY <2>1, <4>1 DEF AmountSent
        <5>3. v.info.balance \in Nat /\ b \in Nat
          BY <2>4, <3>1, SortAssumption DEF Amount
        <5>4. b < v.info.balance => AccountExists(v)
          BY <3>2, <5>3
        <5> HIDE DEF b
        <5>5. CASE b < v.info.balance
          BY <5>1, <5>2, <5>3, <5>4, <5>5
        <5>6. CASE ~(b < v.info.balance)
          BY <5>1, <5>2, <5>3, <5>6
        <5> QED BY <5>5, <5>6
      <4>2. CASE Block[h].type = "send"
        <5>1. AccountExists(v) /\ v.info.balance >= b
          BY <2>1, <2>3, <2>6, <3>2, <4>2 DEF NoNegativeSend, IsState
        <5>2. AmountReceived(v) = 0
          BY <2>1, <4>2 DEF AmountReceived, IsState
        <5>3. AmountSent(v) = IF b < v.info.balance THEN v.info.balance - b ELSE 0
          BY <2>1, <4>2, <5>1 DEF AmountSent
        <5> QED BY <2>4, <3>1, <5>1, <5>2, <5>3 DEF Amount
      <4> QED BY <4>1, <4>2
    <3> QED BY <2>4, <3>3, SmallModulo DEF NewBalance
  <2>10. NewEpoch(v) \in Epoch
    BY <2>1, SortAssumption
    DEF NewEpoch, IsEpochBlock, HasEpochLink, MaxEpoch, Epoch, AccountInfo, PendingInfo
  <2>11. NewAccountInfo(v) \in AccountInfo
    <3>1. (IF HasRep(h) THEN Block[h].rep ELSE v.info.rep) \in Account \cup {Zero}
      BY <2>1, <2>4 DEF BlockContent, AccountInfo
    <3>2. (IF AccountExists(v) THEN v.info.open_block ELSE h) \in Hash \cup {Zero}
      BY <2>1 DEF AccountInfo
    <3>3. v.info.block_count + 1 \in Nat
      BY <2>1 DEF AccountInfo
    <3> QED BY <2>1, <2>8, <2>10, <3>1, <3>2, <3>3 DEF NewAccountInfo, AccountInfo
  <2>12. NewSideband(v) \in Sideband
    <3>1. v.info.block_count + 1 \in Nat /\ v.pending.epoch \in Epoch
      BY <2>1 DEF AccountInfo, PendingInfo
    <3>2. IsSend(v) \in BOOLEAN /\ IsReceive(v) \in BOOLEAN /\ IsEpochBlock(v) \in BOOLEAN
      BY DEF IsSend, IsReceive, IsEpochBlock, HasEpochLink
    <3> QED BY <2>1, <2>3, <2>8, <2>10, <3>1, <3>2 DEF NewSideband, Sideband
  <2>13. NewPendingInfo(v) \in PendingInfo
    BY <2>1, <2>8, <2>10, SMTT(30) DEF NewPendingInfo, PendingInfo, Epoch
  <2>14. Instructions(v) \in InstructionSet
    BY <2>1, <2>3, <2>11, <2>12, <2>13, SMTT(30)
    DEF Instructions, InstructionSet, IsReceive, IsSend
  <2>15. Sound(Instructions(v))
    BY <2>1, <2>5, <2>6, <2>7, <2>9, Zenon
    DEF Sound, Instructions, NewAccountInfo, NewSideband
  <2> QED BY <2>2, <2>14, <2>15 DEF Result
<1> QED BY <1>1, <1>2

=============================================================================
