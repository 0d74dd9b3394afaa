---------------------- MODULE LedgerRollbackProofs --------------------------
(***************************************************************************)
(* What removing the head of an account does to the tables, for every set  *)
(* of blocks.                                                              *)
(***************************************************************************)
EXTENDS LedgerInsertProofs

(* find_rep_block() returns a block of the ledger or nothing.              *)
LEMMA RepBlockStored ==
  ASSUME TablesOK, NEW h \in DOMAIN block
  PROVE  FindRepBlock(h) \in DOMAIN block \cup {Zero}
<1> DEFINE candidates == {b \in DOMAIN block :
                            /\ HasRep(b)
                            /\ block[b].account = block[h].account
                            /\ block[b].height <= block[h].height}
           distance(b) == block[h].height - block[b].height
<1>1. CASE candidates = {}
  BY <1>1 DEF FindRepBlock
<1>2. CASE candidates # {}
  <2>1. \A b \in candidates : distance(b) \in Nat /\ block[b].height \in Nat
    BY DEF TablesOK, Sideband
  <2>2. PICK n \in {distance(b) : b \in candidates} :
          \A m \in {distance(b) : b \in candidates} : n <= m
    <3>1. {distance(b) : b \in candidates} \in SUBSET Nat
      BY <2>1
    <3>2. {distance(b) : b \in candidates} # {}
      BY <1>2
    <3> HIDE DEF candidates, distance
    <3> QED BY <3>1, <3>2, LeastNumber, Zenon
  <2>3. PICK b \in candidates : n = distance(b)
    OBVIOUS
  <2>4. block[h].height \in Nat
    BY DEF TablesOK, Sideband
  <2>5. ASSUME NEW c \in candidates PROVE block[c].height <= block[b].height
    <3>1. distance(b) <= distance(c)
      BY <2>2, <2>3
    <3> QED BY <2>1, <2>4, <3>1
  <2>6. FindRepBlock(h) = CHOOSE x \in candidates :
                            \A c \in candidates : block[c].height <= block[x].height
    BY <1>2 DEF FindRepBlock
  <2>7. FindRepBlock(h) \in candidates
    BY <2>5, <2>6
  <2> QED BY <2>7
<1> QED BY <1>1, <1>2

(* What the head of an account looks like.                                 *)
LEMMA HeadFacts ==
  ASSUME TablesOK, ChainIntegrity, ChainStatic,
         NEW h \in DOMAIN block, account[block[h].account].head = h
  PROVE  LET a == block[h].account
             prev == Block[h].previous
         IN  /\ h \in Hash /\ a \in DOMAIN account /\ a \in Account
             /\ account[a].block_count = block[h].height
             /\ block[h].height \in Nat
             /\ \A x \in DOMAIN block : Block[x].previous # h
             /\ \A x \in DOMAIN block : block[x].account = a /\ x # h =>
                  block[x].height < block[h].height
             /\ IF prev = Zero
                THEN /\ block[h].height = 1
                     /\ \A x \in DOMAIN block : block[x].account = a => x = h
                ELSE /\ prev \in DOMAIN block /\ prev \in Hash
                     /\ block[prev].account = a
                     /\ block[prev].height = block[h].height - 1
<1> DEFINE a == block[h].account
           prev == Block[h].previous
<1>1. h \in Hash /\ a \in DOMAIN account /\ a \in Account
      /\ block[h].height = account[a].block_count /\ block[h].height \in Nat
  BY DEF ChainIntegrity, HeightsBounded, TablesOK, Sideband
<1>2. \A x \in DOMAIN block : block[x].account = a /\ x # h =>
        block[x].height \in Nat /\ 1 <= block[x].height
        /\ block[x].height < block[h].height
  <2> SUFFICES ASSUME NEW x \in DOMAIN block, block[x].account = a, x # h
               PROVE  block[x].height \in Nat /\ 1 <= block[x].height
                      /\ block[x].height < block[h].height
    OBVIOUS
  <2>1. /\ block[x].height \in 1 .. account[a].block_count
        /\ block[x].height = account[a].block_count <=> x = account[a].head
    BY DEF ChainIntegrity, HeightsBounded
  <2> QED BY <1>1, <2>1
<1>3. \A x \in DOMAIN block : Block[x].previous # h
  <2> SUFFICES ASSUME NEW x \in DOMAIN block, Block[x].previous = h PROVE FALSE
    OBVIOUS
  <2>1. h # Zero
    BY <1>1, SortAssumption
  <2>2. block[x].account = a /\ block[h].height = block[x].height - 1
    BY <2>1 DEF ChainIntegrity, ChainsLinked
  <2>3. block[x].height \in Nat
    BY DEF TablesOK, Sideband
  <2> QED BY <1>1, <1>2, <2>2, <2>3
<1>4. CASE prev = Zero
  <2>1. block[h].height = 1
    BY <1>4 DEF ChainIntegrity, ChainsLinked
  <2> QED BY <1>1, <1>2, <1>3, <1>4, <2>1
<1>5. CASE prev # Zero
  <2>1. /\ prev \in DOMAIN block /\ block[prev].account = a
        /\ block[prev].height = block[h].height - 1
    BY <1>5 DEF ChainIntegrity, ChainsLinked
  <2> QED BY <1>1, <1>2, <1>3, <1>5, <2>1 DEF TablesOK
<1> QED BY <1>4, <1>5

(* The account info that rollback restores is that of the previous block.  *)
LEMMA RestoredInfo ==
  ASSUME TablesOK, ChainIntegrity, ChainStatic,
         NEW h \in DOMAIN block, account[block[h].account].head = h,
         Block[h].previous # Zero
  PROVE  LET new == PreviousAccountInfo(h)
             prev == Block[h].previous
         IN  /\ new \in AccountInfo
             /\ new.head = prev
             /\ new.block_count = block[h].height - 1
             /\ new.block_count = Depth[prev]
             /\ new.open_block = ChainRoot[prev]
             /\ new.open_block = account[block[h].account].open_block
             /\ new.balance = Balance(prev)
             /\ new.epoch = block[prev].epoch
<1> DEFINE a == block[h].account
           prev == Block[h].previous
           repBlock == PreviousRepBlock(h)
<1>1. /\ h \in Hash /\ a \in DOMAIN account /\ Info(a) = account[a]
      /\ account[a].block_count = block[h].height /\ block[h].height \in Nat
      /\ prev \in DOMAIN block /\ prev \in Hash /\ prev # Zero
      /\ block[prev].height = block[h].height - 1
  BY HeadFacts DEF Info
<1>2. /\ account[a] \in AccountInfo /\ block[prev] \in Sideband
      /\ Balance(prev) \in Amount
  BY <1>1, BlockAssumption DEF TablesOK, Balance, BlockContent, Sideband
<1>3. repBlock # Zero => Block[repBlock].rep \in Account \cup {Zero}
  <2>1. repBlock \in DOMAIN block \cup {Zero}
    BY <1>1, RepBlockStored DEF PreviousRepBlock
  <2> QED BY <2>1, BlockAssumption DEF TablesOK, BlockContent
<1>4. /\ block[prev].height = Depth[prev] /\ block[prev].height \in Nat
      /\ ChainRoot[h] = ChainRoot[prev] /\ account[a].open_block = ChainRoot[h]
  BY <1>1, AcyclicAssumption DEF ChainStatic
<1>5. PreviousAccountInfo(h) =
        [head |-> prev,
         rep |-> IF repBlock = Zero THEN account[a].rep ELSE Block[repBlock].rep,
         open_block |-> account[a].open_block,
         balance |-> Balance(prev),
         block_count |-> account[a].block_count - 1,
         epoch |-> block[prev].epoch]
  BY <1>1 DEF PreviousAccountInfo
<1> HIDE DEF repBlock
<1>6. PreviousAccountInfo(h) \in AccountInfo
  BY <1>1, <1>2, <1>3, <1>4, <1>5 DEF AccountInfo, Sideband
<1> QED BY <1>1, <1>4, <1>5, <1>6

(* Removing the unconfirmed head of an account keeps the chains.           *)
LEMMA RemoveKeepsChains ==
  ASSUME TablesOK, ChainIntegrity, ChainStatic,
         NEW h \in DOMAIN block, account[block[h].account].head = h,
         RemoveHead(h)
  PROVE  ChainIntegrity' /\ ChainStatic'
<1> DEFINE a == block[h].account
           prev == Block[h].previous
           new == PreviousAccountInfo(h)
<1>1. /\ h \in Hash /\ a \in DOMAIN account /\ a \in Account
      /\ account[a].block_count = block[h].height /\ block[h].height \in Nat
      /\ \A x \in DOMAIN block : Block[x].previous # h
      /\ \A x \in DOMAIN block : block[x].account = a /\ x # h =>
           block[x].height < block[h].height
      /\ prev = Zero => \A x \in DOMAIN block : block[x].account = a => x = h
      /\ prev # Zero => /\ prev \in DOMAIN block /\ prev \in Hash
                        /\ block[prev].account = a
                        /\ block[prev].height = block[h].height - 1
  BY HeadFacts
<1>2. DOMAIN block' = DOMAIN block \ {h}
      /\ \A x \in DOMAIN block' : block'[x] = block[x]
  BY DEF RemoveHead, Del
<1>3. prev # Zero => /\ new.head = prev /\ new.block_count = block[h].height - 1
                     /\ new.block_count = Depth[prev]
                     /\ new.open_block = ChainRoot[prev]
                     /\ new.open_block = account[a].open_block
                     /\ new.balance = Balance(prev)
                     /\ new.epoch = block[prev].epoch
  BY RestoredInfo
<1>4. /\ prev = Zero => DOMAIN account' = DOMAIN account \ {a}
      /\ prev # Zero => DOMAIN account' = DOMAIN account /\ account'[a] = new
      /\ \A x \in DOMAIN account' : x # a => account'[x] = account[x]
  <2>1. CASE prev = Zero
    <3>1. account' = Del(account, a)
      BY <2>1 DEF RemoveHead, UpdateAccount, PreviousAccountInfo, NoInfo
    <3> QED BY <2>1, <3>1 DEF Del
  <2>2. CASE prev # Zero
    <3>1. account' = Put(account, a, new)
      BY <1>3, <2>2 DEF RemoveHead, UpdateAccount
    <3> HIDE DEF new
    <3> QED BY <1>1, <2>2, <3>1, Zenon DEF Put
  <2> QED BY <2>1, <2>2
<1>5. /\ prev = Zero => successors' = successors
      /\ prev # Zero => DOMAIN successors' = DOMAIN successors \ {prev}
      /\ \A x \in DOMAIN successors' : successors'[x] = successors[x]
  BY DEF RemoveHead, Del
<1> HIDE DEF new
<1>6. HeightsBounded'
  <2> SUFFICES ASSUME NEW x \in DOMAIN block'
               PROVE  LET b == block'[x].account IN
                      /\ b \in DOMAIN account'
                      /\ block'[x].height \in 1 .. account'[b].block_count
                      /\ block'[x].height = account'[b].block_count
                           <=> x = account'[b].head
    BY DEF HeightsBounded
  <2>1. x \in DOMAIN block /\ x # h /\ block'[x] = block[x]
    BY <1>2
  <2>2. LET b == block[x].account IN
        /\ b \in DOMAIN account
        /\ block[x].height \in 1 .. account[b].block_count
        /\ block[x].height = account[b].block_count <=> x = account[b].head
    BY <2>1 DEF ChainIntegrity, HeightsBounded
  <2>3. CASE block[x].account = a
    <3>1. prev # Zero /\ block[x].height < block[h].height
      BY <1>1, <2>1, <2>3
    <3>2. block[x].height = block[prev].height <=> x = prev
      BY <1>1, <2>1, <2>3, <3>1 DEF ChainIntegrity, NoForks
    <3> QED BY <1>1, <1>3, <1>4, <2>1, <2>2, <2>3, <3>1, <3>2
  <2>4. CASE block[x].account # a
    BY <1>4, <2>1, <2>2, <2>4
  <2> QED BY <2>3, <2>4
<1>7. HeadsMatch'
  <2> SUFFICES ASSUME NEW b \in DOMAIN account'
               PROVE  /\ account'[b].head \in DOMAIN block'
                      /\ block'[account'[b].head].account = b
                      /\ Balance(account[b].head)' = account'[b].balance
                      /\ block'[account'[b].head].epoch = account'[b].epoch
    BY DEF HeadsMatch
  <2>1. CASE b = a
    <3>1. prev # Zero /\ account'[a] = new
      BY <1>4, <2>1
    <3>2. prev \in DOMAIN block' /\ block'[prev] = block[prev]
      BY <1>1, <1>2, <3>1
    <3> QED BY <1>1, <1>3, <2>1, <3>1, <3>2 DEF Balance
  <2>2. CASE b # a
    <3>1. b \in DOMAIN account /\ account'[b] = account[b]
      BY <1>4, <2>2
    <3>2. /\ account[b].head \in DOMAIN block
          /\ block[account[b].head].account = b
          /\ Balance(account[b].head) = account[b].balance
          /\ block[account[b].head].epoch = account[b].epoch
      BY <3>1 DEF ChainIntegrity, HeadsMatch
    <3> QED BY <1>2, <2>2, <3>1, <3>2 DEF Balance
  <2> QED BY <2>1, <2>2
<1>8. ChainsLinked'
  <2> SUFFICES ASSUME NEW x \in DOMAIN block'
               PROVE  IF Block[x].previous = Zero
                      THEN /\ block'[x].height = 1
                           /\ account'[block'[x].account].open_block = x
                      ELSE /\ Block[x].previous \in DOMAIN block'
                           /\ block'[Block[x].previous].account = block'[x].account
                           /\ block'[Block[x].previous].height = block'[x].height - 1
    BY DEF ChainsLinked
  <2>1. x \in DOMAIN block /\ x # h /\ block'[x] = block[x]
    BY <1>2
  <2>2. CASE Block[x].previous = Zero
    <3>1. /\ block[x].height = 1 /\ account[block[x].account].open_block = x
          /\ block[x].account \in DOMAIN account
      BY <2>1, <2>2 DEF ChainIntegrity, ChainsLinked, HeightsBounded
    <3>2. CASE block[x].account = a
      <4>1. prev # Zero
        BY <1>1, <2>1, <3>2
      <4> QED BY <1>3, <1>4, <2>1, <2>2, <3>1, <3>2, <4>1
    <3>3. CASE block[x].account # a
      BY <1>4, <2>1, <2>2, <3>1, <3>3
    <3> QED BY <3>2, <3>3
  <2>3. CASE Block[x].previous # Zero
    <3>1. /\ Block[x].previous \in DOMAIN block
          /\ block[Block[x].previous].account = block[x].account
          /\ block[Block[x].previous].height = block[x].height - 1
      BY <2>1, <2>3 DEF ChainIntegrity, ChainsLinked
    <3> QED BY <1>1, <1>2, <2>1, <2>3, <3>1
  <2> QED BY <2>2, <2>3
<1>9. NoForks'
  BY <1>2 DEF ChainIntegrity, NoForks
<1>10. SuccessorsMatch'
  <2>1. ASSUME NEW x \in DOMAIN successors'
        PROVE  successors'[x] \in DOMAIN block' /\ Block[successors'[x]].previous = x
    <3>1. x \in DOMAIN successors /\ successors'[x] = successors[x]
      BY <1>5
    <3>2. successors[x] \in DOMAIN block /\ Block[successors[x]].previous = x
      BY <3>1 DEF ChainIntegrity, SuccessorsMatch
    <3>3. successors[x] # h
      BY <1>5, <2>1, <3>2, SortAssumption DEF TablesOK
    <3> QED BY <1>2, <3>1, <3>2, <3>3
  <2>2. ASSUME NEW x \in DOMAIN block', Block[x].previous # Zero
        PROVE  /\ Block[x].previous \in DOMAIN successors'
               /\ successors'[Block[x].previous] = x
    <3>1. /\ x \in DOMAIN block /\ x # h
          /\ Block[x].previous \in DOMAIN successors
          /\ successors[Block[x].previous] = x
      BY <1>2, <2>2 DEF ChainIntegrity, SuccessorsMatch
    <3>2. prev # Zero => Block[x].previous # prev
      BY <3>1 DEF ChainIntegrity, SuccessorsMatch
    <3> QED BY <1>5, <3>1, <3>2
  <2> QED BY <2>1, <2>2 DEF SuccessorsMatch
<1>11. ChainStatic'
  BY <1>2, <1>3, <1>4 DEF ChainStatic
<1> QED BY <1>6, <1>7, <1>8, <1>9, <1>10, <1>11 DEF ChainIntegrity

(* Removing a head keeps the tables well typed.                            *)
LEMMA RemoveKeepsTypes ==
  ASSUME TablesOK, ChainIntegrity, ChainStatic,
         NEW h \in DOMAIN block, account[block[h].account].head = h,
         RemoveHead(h), confirmation_height' = confirmation_height
  PROVE  TablesOK'
<1> DEFINE a == block[h].account
           prev == Block[h].previous
           new == PreviousAccountInfo(h)
           repBlock == PreviousRepBlock(h)
<1>1. /\ h \in Hash /\ a \in DOMAIN account /\ a \in Account
      /\ Info(a) = account[a] /\ account[a] \in AccountInfo
      /\ prev # Zero => prev \in DOMAIN block /\ prev \in Hash
  BY HeadFacts DEF Info, TablesOK
<1>2. DOMAIN block' \subseteq Hash /\ \A x \in DOMAIN block' : block'[x] \in Sideband
  BY DEF TablesOK, RemoveHead, Del
<1>3. /\ DOMAIN successors' \subseteq Hash
      /\ \A x \in DOMAIN successors' : successors'[x] \in Hash
  BY DEF TablesOK, RemoveHead, Del
<1>4. /\ DOMAIN account' \subseteq Account
      /\ \A x \in DOMAIN account' : account'[x] \in AccountInfo
  <2>1. account' = Del(account, a) \/ account' = Put(account, a, new)
    BY DEF RemoveHead, UpdateAccount
  <2>2. account' = Put(account, a, new) => new \in AccountInfo
    <3>1. CASE prev = Zero
      BY <3>1, SortAssumption
      DEF PreviousAccountInfo, NoInfo, AccountInfo, Amount, Epoch
    <3>2. CASE prev # Zero
      BY <3>2, RestoredInfo
    <3> QED BY <3>1, <3>2
  <2> HIDE DEF new
  <2> QED BY <1>1, <2>1, <2>2 DEF TablesOK, Put, Del
<1>5. PreviousBalance(h) \in Amount
  <2>1. \A x \in DOMAIN block : Balance(x) \in Amount
    BY BlockAssumption DEF TablesOK, Balance, BlockContent, Sideband
  <2>2. 0 \in Amount
    BY SortAssumption DEF Amount
  <2> QED BY <1>1, <2>1, <2>2 DEF PreviousBalance
<1>6. /\ DOMAIN pending' \subseteq Link \X Link
      /\ \A k \in DOMAIN pending' : pending'[k] \in PendingInfo
  <2>1. CASE RollsBackSend(h)
    <3>1. ~RollsBackReceive(h)
      BY <1>1, <1>5, <2>1, SortAssumption
      DEF RollsBackSend, RollsBackReceive, AccountInfo, Amount
    <3>2. pending' = Del(pending, SendKey(h))
      BY <2>1, <3>1 DEF RemoveHead
    <3> QED BY <3>2 DEF Del, TablesOK
  <2>2. CASE ~RollsBackSend(h) /\ RollsBackReceive(h)
    <3>1. ReceiveKey(h) \in Link \X Link
      BY <1>1, BlockAssumption DEF ReceiveKey, SourceOrLink, BlockContent, Link
    <3>2. RestoredPending(h) \in PendingInfo
      <4>1. account[a].balance - PreviousBalance(h) \in Amount
        BY <1>1, <1>5, <2>2, SortAssumption DEF RollsBackReceive, AccountInfo, Amount
      <4>2. block[h].source_epoch \in Epoch
        BY DEF TablesOK, Sideband
      <4>3. \A s : Exists(s) => block[s].account \in Account
        BY DEF Exists, TablesOK, Sideband
      <4> QED BY <1>1, <4>1, <4>2, <4>3 DEF RestoredPending, PendingInfo
    <3>3. pending' = Put(pending, ReceiveKey(h), RestoredPending(h))
      BY <2>2 DEF RemoveHead
    <3> QED BY <3>1, <3>2, <3>3 DEF TablesOK, Put
  <2>3. CASE ~RollsBackSend(h) /\ ~RollsBackReceive(h)
    BY <2>3 DEF RemoveHead, TablesOK
  <2> QED BY <2>1, <2>2, <2>3
<1>7. rep_weight' \in [Rep -> Amount]
  <2>1. /\ account[a].rep \in Rep /\ account[a].balance \in Nat
        /\ PreviousBalance(h) \in Int /\ Negate(account[a].balance) \in Int
        /\ 0 \in Int
    BY <1>1, <1>5, SortAssumption DEF AccountInfo, Rep, Amount, Negate
  <2>2. CASE repBlock # Zero
    <3>1. repBlock \in DOMAIN block
      BY <1>1, <2>2, RepBlockStored DEF PreviousRepBlock
    <3>2. Block[repBlock].rep \in Rep
      BY <3>1, BlockAssumption DEF TablesOK, BlockContent, Rep
    <3>3. MoveWeight(account[a].rep, Negate(account[a].balance),
                     Block[repBlock].rep, PreviousBalance(h))
      BY <1>1, <2>2 DEF RemoveHead
    <3> HIDE DEF repBlock
    <3> QED BY <2>1, <3>2, <3>3, WeightsTyped DEF TablesOK
  <2>3. CASE repBlock = Zero
    <3>1. MoveWeight(account[a].rep, Negate(account[a].balance), account[a].rep, 0)
      BY <1>1, <2>3 DEF RemoveHead
    <3> QED BY <2>1, <3>1, WeightsTyped DEF TablesOK
  <2> QED BY <2>2, <2>3
<1> QED BY <1>2, <1>3, <1>4, <1>6, <1>7 DEF TablesOK

(* Rollback refuses confirmed blocks, so what is confirmed stays so.       *)
LEMMA RemoveKeepsConfirmed ==
  ASSUME TablesOK, FrontiersExist, ConfirmedClosed,
         NEW h \in DOMAIN block, ~IsConfirmed(h),
         RemoveHead(h), confirmation_height' = confirmation_height
  PROVE  /\ FrontiersExist' /\ ConfirmedClosed'
         /\ \A x \in Hash : IsConfirmed(x)' <=> IsConfirmed(x)
<1>1. DOMAIN block' = DOMAIN block \ {h}
      /\ \A x \in DOMAIN block' : block'[x] = block[x]
  BY DEF RemoveHead, Del
<1>2. ASSUME NEW x PROVE IsConfirmed(x)' <=> IsConfirmed(x)
  BY <1>1 DEF IsConfirmed, Exists
<1>3. FrontiersExist'
  <2> SUFFICES ASSUME NEW a \in DOMAIN confirmation_height
               PROVE  LET f == confirmation_height[a].frontier IN
                      /\ f \in DOMAIN block'
                      /\ block'[f].account = a
                      /\ block'[f].height = confirmation_height[a].height
    BY DEF FrontiersExist
  <2> DEFINE f == confirmation_height[a].frontier
  <2>1. /\ f \in DOMAIN block /\ block[f].account = a
        /\ block[f].height = confirmation_height[a].height
    BY DEF FrontiersExist
  <2>2. confirmation_height[a].height \in Nat
    BY DEF TablesOK
  <2>3. f # h
    BY <2>1, <2>2 DEF IsConfirmed, Exists
  <2> QED BY <1>1, <2>1, <2>3
<1>4. ConfirmedClosed'
  <2> SUFFICES ASSUME NEW x \in DOMAIN block', IsConfirmed(x)',
                      NEW d \in Dependents(x)'
               PROVE  IsConfirmed(d)'
    BY DEF ConfirmedClosed
  <2>1. IsConfirmed(x) /\ x \in DOMAIN block
    BY <1>1, <1>2
  <2>2. d \in Dependents(x)
    BY <1>1 DEF Dependents, DependentBlocks
  <2> QED BY <1>2, <2>1, <2>2 DEF ConfirmedClosed
<1> QED BY <1>2, <1>3, <1>4

=============================================================================
