----------------------- MODULE LedgerInsertProofs ---------------------------
(***************************************************************************)
(* What inserting one block does to the tables, for every set of blocks.   *)
(***************************************************************************)
EXTENDS LedgerInvariant, NatLemmas, TLAPS

(* Instructions whose account still has the head they were made for extend *)
(* that account by a block that is not in the ledger.                      *)
LEMMA InsertsNewBlock ==
  ASSUME TablesOK, ChainIntegrity, ChainStatic,
         NEW ins \in InstructionSet, Sound(ins), AccountUnchanged(ins)
  PROVE  /\ ins.hash \notin DOMAIN block
         /\ IF ins.old.head = Zero
            THEN ins.account \notin DOMAIN account
            ELSE /\ ins.account \in DOMAIN account
                 /\ account[ins.account].head = ins.old.head
                 /\ account[ins.account].block_count + 1 = Depth[ins.hash]
                 /\ account[ins.account].open_block = ChainRoot[ins.hash]
<1> USE SortAssumption, BlockAssumption, AcyclicAssumption
<1> DEFINE h == ins.hash
           a == ins.account
           prev == Block[h].previous
<1>1. h \in Hash /\ a \in Account /\ prev = ins.old.head /\ Info(a).head = prev
  BY DEF InstructionSet, Sound, AccountUnchanged
<1>2. CASE prev = Zero
  <2>1. a \notin DOMAIN account
    BY <1>1, <1>2 DEF Info, ChainStatic
  <2>2. h \notin DOMAIN block
    <3> SUFFICES ASSUME h \in DOMAIN block PROVE FALSE
      OBVIOUS
    <3>1. block[h].account = Block[h].account
      BY <1>2 DEF ChainStatic
    <3>2. a = Block[h].account
      BY <1>1, <1>2 DEF Sound
    <3> QED BY <2>1, <3>1, <3>2 DEF ChainIntegrity, HeightsBounded
  <2> QED BY <1>1, <1>2, <2>1, <2>2
<1>3. CASE prev # Zero
  <2>1. a \in DOMAIN account /\ account[a].head = prev
    BY <1>1, <1>3 DEF Info, NoInfo
  <2>2. /\ account[a].block_count = Depth[prev]
        /\ account[a].open_block = ChainRoot[prev]
    BY <2>1 DEF ChainStatic
  <2>3. prev \in Hash /\ Depth[h] = Depth[prev] + 1 /\ ChainRoot[h] = ChainRoot[prev]
    BY <1>1, <1>3 DEF BlockContent
  <2>4. h \notin DOMAIN block
    <3> SUFFICES ASSUME h \in DOMAIN block PROVE FALSE
      OBVIOUS
    <3>1. prev \in DOMAIN block /\ block[prev].account = block[h].account
      BY <1>3 DEF ChainIntegrity, ChainsLinked
    <3>2. block[prev].account = a
      BY <2>1 DEF ChainIntegrity, HeadsMatch
    <3>3. block[h].height \in 1 .. account[a].block_count
      BY <3>1, <3>2, Zenon DEF ChainIntegrity, HeightsBounded
    <3>4. block[h].height = Depth[h]
      BY DEF ChainStatic
    <3> QED BY <2>2, <2>3, <3>3, <3>4
  <2> QED BY <1>1, <1>3, <2>1, <2>2, <2>3, <2>4
<1> QED BY <1>2, <1>3

(* Insertion keeps one gapless chain per account.                          *)
LEMMA InsertKeepsChains ==
  ASSUME TablesOK, ChainIntegrity, ChainStatic,
         NEW ins \in InstructionSet, Sound(ins), AccountUnchanged(ins),
         Insert(ins)
  PROVE  ChainIntegrity' /\ ChainStatic'
<1> DEFINE h == ins.hash
           a == ins.account
           prev == Block[h].previous
<1>1. /\ h \in Hash /\ a \in Account /\ prev = ins.old.head
      /\ ins.new.head = h /\ ins.new.block_count = Depth[h]
      /\ ins.new.open_block = ChainRoot[h]
      /\ ins.sideband.account = a /\ ins.sideband.height = Depth[h]
      /\ ins.sideband.epoch = ins.new.epoch
      /\ prev = Zero => a = Block[h].account
  BY DEF InstructionSet, Sound
<1>2. /\ h \notin DOMAIN block
      /\ IF prev = Zero
         THEN a \notin DOMAIN account
         ELSE /\ a \in DOMAIN account
              /\ account[a].head = prev
              /\ account[a].block_count + 1 = Depth[h]
              /\ account[a].open_block = ChainRoot[h]
  BY <1>1, InsertsNewBlock
<1>3. /\ DOMAIN block' = DOMAIN block \cup {h}
      /\ block'[h] = ins.sideband
      /\ \A x \in DOMAIN block : block'[x] = block[x] /\ x # h
  BY <1>2 DEF Insert, Put
<1>4. /\ DOMAIN account' = DOMAIN account \cup {a}
      /\ account'[a] = ins.new
      /\ \A x \in DOMAIN account : x # a => account'[x] = account[x]
  <2>1. account' = Put(account, a, ins.new)
    BY <1>1, SortAssumption DEF Insert, UpdateAccount
  <2> QED BY <2>1 DEF Put
<1>5. /\ prev = Zero => successors' = successors
      /\ prev # Zero =>
           /\ DOMAIN successors' = DOMAIN successors \cup {prev}
           /\ successors'[prev] = h
           /\ \A x \in DOMAIN successors : x # prev => successors'[x] = successors[x]
  BY DEF Insert, Put
<1>6. Depth[h] \in Nat /\ Depth[h] >= 1 /\ (prev = Zero => Depth[h] = 1)
  BY <1>1, BlockAssumption, AcyclicAssumption DEF BlockContent
<1>7. \A x \in DOMAIN block : block[x].account # a \/ block[x].height < Depth[h]
  <2> SUFFICES ASSUME NEW x \in DOMAIN block, block[x].account = a
               PROVE  block[x].height < Depth[h]
    BY DEF TablesOK
  <2>1. a \in DOMAIN account /\ block[x].height \in 1 .. account[a].block_count
    BY DEF ChainIntegrity, HeightsBounded
  <2>2. account[a].block_count \in Nat /\ account[a].block_count + 1 = Depth[h]
    BY <1>2, <2>1 DEF TablesOK, AccountInfo
  <2> QED BY <2>1, <2>2
<1>8. HeightsBounded'
  <2> SUFFICES ASSUME NEW x \in DOMAIN block'
               PROVE  LET b == block'[x].account IN
                      /\ b \in DOMAIN account'
                      /\ block'[x].height \in 1 .. account'[b].block_count
                      /\ block'[x].height = account'[b].block_count
                           <=> x = account'[b].head
    BY DEF HeightsBounded
  <2>1. CASE x = h
    BY <2>1, <1>1, <1>3, <1>4, <1>6
  <2>2. CASE x # h
    <3>1. x \in DOMAIN block /\ block'[x] = block[x] /\ block[x].height \in Nat
      BY <2>2, <1>3 DEF TablesOK, Sideband
    <3>2. LET b == block[x].account IN
          /\ b \in DOMAIN account
          /\ block[x].height \in 1 .. account[b].block_count
          /\ block[x].height = account[b].block_count <=> x = account[b].head
      BY <3>1 DEF ChainIntegrity, HeightsBounded
    <3>3. CASE block[x].account = a
      <4>1. block[x].height < Depth[h]
        BY <3>1, <3>3, <1>7
      <4> QED BY <2>2, <3>1, <3>2, <3>3, <4>1, <1>1, <1>4, <1>6
    <3>4. CASE block[x].account # a
      BY <3>1, <3>2, <3>4, <1>4
    <3> QED BY <3>3, <3>4
  <2> QED BY <2>1, <2>2
<1>9. HeadsMatch'
  <2> SUFFICES ASSUME NEW b \in DOMAIN account'
               PROVE  /\ account'[b].head \in DOMAIN block'
                      /\ block'[account'[b].head].account = b
                      /\ Balance(account[b].head)' = account'[b].balance
                      /\ block'[account'[b].head].epoch = account'[b].epoch
    BY DEF HeadsMatch
  <2>1. CASE b = a
    <3>1. Balance(h)' = ins.new.balance
      BY <1>3 DEF Sound, Balance
    <3> QED BY <2>1, <3>1, <1>1, <1>3, <1>4 DEF Balance
  <2>2. CASE b # a
    <3>1. b \in DOMAIN account /\ account'[b] = account[b]
      BY <2>2, <1>4
    <3>2. /\ account[b].head \in DOMAIN block
          /\ block[account[b].head].account = b
          /\ Balance(account[b].head) = account[b].balance
          /\ block[account[b].head].epoch = account[b].epoch
      BY <3>1 DEF ChainIntegrity, HeadsMatch
    <3> QED BY <3>1, <3>2, <1>3 DEF Balance
  <2> QED BY <2>1, <2>2
<1>10. ChainsLinked'
  <2> SUFFICES ASSUME NEW x \in DOMAIN block'
               PROVE  IF Block[x].previous = Zero
                      THEN /\ block'[x].height = 1
                           /\ account'[block'[x].account].open_block = x
                      ELSE /\ Block[x].previous \in DOMAIN block'
                           /\ block'[Block[x].previous].account = block'[x].account
                           /\ block'[Block[x].previous].height = block'[x].height - 1
    BY DEF ChainsLinked
  <2>1. CASE x = h
    <3>1. CASE prev = Zero
      BY <2>1, <3>1, <1>1, <1>3, <1>4, <1>6, AcyclicAssumption
    <3>2. CASE prev # Zero
      <4>1. prev \in DOMAIN block /\ block[prev].account = a
        BY <3>2, <1>2 DEF ChainIntegrity, HeadsMatch
      <4>2. block[prev].height = Depth[prev] /\ Depth[h] = Depth[prev] + 1
        BY <3>2, <4>1, <1>1, AcyclicAssumption DEF ChainStatic
      <4>3. Depth[prev] \in Nat
        BY <4>1, AcyclicAssumption DEF TablesOK
      <4> QED BY <2>1, <3>2, <4>1, <4>2, <4>3, <1>1, <1>3
    <3> QED BY <3>1, <3>2
  <2>2. CASE x # h
    <3>1. x \in DOMAIN block /\ block'[x] = block[x]
      BY <2>2, <1>3
    <3>2. CASE Block[x].previous = Zero
      <4>1. block[x].height = 1 /\ account[block[x].account].open_block = x
        BY <3>1, <3>2 DEF ChainIntegrity, ChainsLinked
      <4>2. block[x].account \in DOMAIN account
        BY <3>1 DEF ChainIntegrity, HeightsBounded
      <4>3. CASE block[x].account = a
        <5>1. account[a].open_block = ChainRoot[h]
          BY <4>2, <4>3, <1>2
        <5> QED BY <3>1, <3>2, <4>1, <4>3, <5>1, <1>1, <1>4
      <4>4. CASE block[x].account # a
        BY <3>1, <3>2, <4>1, <4>2, <4>4, <1>4
      <4> QED BY <4>3, <4>4
    <3>3. CASE Block[x].previous # Zero
      BY <3>1, <3>3, <1>3 DEF ChainIntegrity, ChainsLinked
    <3> QED BY <3>2, <3>3
  <2> QED BY <2>1, <2>2
<1>11. NoForks'
  <2> SUFFICES ASSUME NEW x \in DOMAIN block', NEW y \in DOMAIN block',
                      block'[x].account = block'[y].account,
                      block'[x].height = block'[y].height
               PROVE  x = y
    BY DEF NoForks
  <2>1. CASE x # h /\ y # h
    BY <2>1, <1>3 DEF ChainIntegrity, NoForks
  <2>2. CASE x # h /\ y = h
    <3>1. x \in DOMAIN block /\ block[x].account = a /\ block[x].height = Depth[h]
      BY <2>2, <1>1, <1>3
    <3> QED BY <3>1, <1>6, <1>7
  <2>3. CASE x = h /\ y # h
    <3>1. y \in DOMAIN block /\ block[y].account = a /\ block[y].height = Depth[h]
      BY <2>3, <1>1, <1>3
    <3> QED BY <3>1, <1>6, <1>7
  <2> QED BY <2>1, <2>2, <2>3
<1>12. SuccessorsMatch'
  <2>1. \A x \in DOMAIN block : Block[x].previous # Zero => Block[x].previous # prev
    <3> SUFFICES ASSUME NEW x \in DOMAIN block, Block[x].previous # Zero,
                        Block[x].previous = prev
                 PROVE  FALSE
      OBVIOUS
    <3>1. prev \in DOMAIN block /\ block[prev].account = block[x].account
      BY DEF ChainIntegrity, ChainsLinked
    <3>2. block[prev].account = a
      BY <1>2 DEF ChainIntegrity, HeadsMatch
    <3>3. block[x].height = Depth[h]
      BY <1>1, AcyclicAssumption DEF ChainStatic, TablesOK
    <3>4. block[x].account = a
      BY <3>1, <3>2
    <3> QED BY <3>3, <3>4, <1>6, <1>7
  <2>2. \A x \in DOMAIN successors' :
          successors'[x] \in DOMAIN block' /\ Block[successors'[x]].previous = x
    BY <1>3, <1>5 DEF ChainIntegrity, SuccessorsMatch
  <2>3. ASSUME NEW x \in DOMAIN block', Block[x].previous # Zero
        PROVE  /\ Block[x].previous \in DOMAIN successors'
               /\ successors'[Block[x].previous] = x
    <3>1. CASE x = h
      BY <2>3, <3>1, <1>5
    <3>2. CASE x # h
      BY <2>1, <2>3, <3>2, <1>3, <1>5 DEF ChainIntegrity, SuccessorsMatch
    <3> QED BY <3>1, <3>2
  <2> QED BY <2>2, <2>3 DEF SuccessorsMatch
<1>13. ChainStatic'
  BY <1>1, <1>2, <1>3, <1>4, SortAssumption DEF ChainStatic
<1> QED BY <1>8, <1>9, <1>10, <1>11, <1>12, <1>13 DEF ChainIntegrity

(* Insertion keeps the tables well typed.                                  *)
LEMMA WeightsTyped ==
  ASSUME rep_weight \in [Rep -> Amount],
         NEW r1 \in Rep, NEW x1 \in Int, NEW r2 \in Rep, NEW x2 \in Int,
         MoveWeight(r1, x1, r2, x2)
  PROVE  rep_weight' \in [Rep -> Amount]
<1>1. ASSUME NEW w \in [Rep -> Amount], NEW r \in Rep, NEW x \in Int
      PROVE  AddWeight(w, r, x) \in [Rep -> Amount]
  <2>1. (w[r] + x) % (Supply + 1) \in Amount
    BY SortAssumption DEF Amount
  <2> QED BY <2>1 DEF AddWeight
<1> QED BY <1>1, Zenon DEF MoveWeight

(* Insertion keeps the tables typed.                                       *)
LEMMA InsertKeepsTypes ==
  ASSUME TablesOK, NEW ins \in InstructionSet, Sound(ins), Insert(ins),
         confirmation_height' = confirmation_height
  PROVE  TablesOK'
<1> DEFINE h == ins.hash
           a == ins.account
           prev == Block[h].previous
<1>1. /\ h \in Hash /\ a \in Account /\ ins.sideband \in Sideband
      /\ ins.new \in AccountInfo /\ ins.old \in AccountInfo
      /\ ins.pending \in PendingInfo /\ ins.new.head = h
      /\ prev \in Hash \cup {Zero}
  BY BlockAssumption DEF InstructionSet, Sound, BlockContent
<1>2. DOMAIN block' \subseteq Hash /\ \A x \in DOMAIN block' : block'[x] \in Sideband
  BY <1>1 DEF TablesOK, Insert, Put
<1>3. /\ DOMAIN successors' \subseteq Hash
      /\ \A x \in DOMAIN successors' : successors'[x] \in Hash
  BY <1>1 DEF TablesOK, Insert, Put
<1>4. /\ DOMAIN account' \subseteq Account
      /\ \A x \in DOMAIN account' : account'[x] \in AccountInfo
  <2>1. account' = Put(account, a, ins.new)
    BY <1>1, SortAssumption DEF Insert, UpdateAccount
  <2> QED BY <1>1, <2>1 DEF TablesOK, Put
<1>5. /\ DOMAIN pending' \subseteq Link \X Link
      /\ \A k \in DOMAIN pending' : pending'[k] \in PendingInfo
  <2> DEFINE received == IF ins.receives
                         THEN Del(pending, <<a, SourceOrLink(h)>>) ELSE pending
  <2>1. /\ DOMAIN received \subseteq Link \X Link
        /\ \A k \in DOMAIN received : received[k] \in PendingInfo
    BY DEF TablesOK, Del
  <2>2. <<DestinationOrLink(h), h>> \in Link \X Link
    BY <1>1, BlockAssumption DEF DestinationOrLink, BlockContent, Link
  <2>3. pending' = IF ins.sends
                   THEN Put(received, <<DestinationOrLink(h), h>>, ins.pending)
                   ELSE received
    BY DEF Insert
  <2> HIDE DEF received
  <2> QED BY <1>1, <2>1, <2>2, <2>3 DEF Put
<1>6. rep_weight' \in [Rep -> Amount]
  <2>1. /\ ins.old.rep \in Rep /\ ins.new.rep \in Rep
        /\ ins.old.balance \in Nat /\ ins.new.balance \in Nat
        /\ Negate(ins.old.balance) \in Int
    BY <1>1, SortAssumption DEF AccountInfo, Rep, Amount, Negate
  <2>2. CASE ins.old.head # Zero
    BY <2>1, <2>2, WeightsTyped DEF Insert, TablesOK
  <2>3. CASE ins.old.head = Zero
    BY <2>1, <2>3, WeightsTyped DEF Insert, TablesOK
  <2> QED BY <2>2, <2>3
<1> QED BY <1>2, <1>3, <1>4, <1>5, <1>6 DEF TablesOK

(* A block that is not in the ledger is above the confirmed part, so       *)
(* inserting it changes nothing about what is confirmed.                   *)
LEMMA InsertKeepsConfirmed ==
  ASSUME TablesOK, ChainIntegrity, ChainStatic, FrontiersExist, ConfirmedClosed,
         NEW ins \in InstructionSet, Sound(ins), AccountUnchanged(ins),
         Insert(ins), confirmation_height' = confirmation_height
  PROVE  /\ FrontiersExist' /\ ConfirmedClosed'
         /\ \A x \in Hash : IsConfirmed(x)' <=> IsConfirmed(x)
<1> DEFINE h == ins.hash
           a == ins.account
<1>1. /\ h \in Hash /\ h \notin DOMAIN block
      /\ ins.sideband.account = a /\ ins.sideband.height = Depth[h]
      /\ Depth[h] \in Nat
      /\ a \in DOMAIN account => account[a].block_count + 1 = Depth[h]
  BY InsertsNewBlock, AcyclicAssumption, SortAssumption
  DEF InstructionSet, Sound, ChainStatic, AccountUnchanged, Info
<1>2. /\ DOMAIN block' = DOMAIN block \cup {h}
      /\ block'[h] = ins.sideband
      /\ \A x \in DOMAIN block : block'[x] = block[x] /\ x # h
  BY <1>1 DEF Insert, Put
<1>3. ~IsConfirmed(h)'
  <2> SUFFICES ASSUME a \in DOMAIN confirmation_height,
                      Depth[h] <= confirmation_height[a].height
               PROVE  FALSE
    BY <1>1, <1>2 DEF IsConfirmed, Exists
  <2> DEFINE f == confirmation_height[a].frontier
  <2>1. /\ f \in DOMAIN block /\ block[f].account = a
        /\ block[f].height = confirmation_height[a].height
    BY DEF FrontiersExist
  <2>2. a \in DOMAIN account /\ block[f].height \in 1 .. account[a].block_count
    BY <2>1 DEF ChainIntegrity, HeightsBounded
  <2>3. account[a].block_count \in Nat
    BY <2>2 DEF TablesOK, AccountInfo
  <2> QED BY <1>1, <2>1, <2>2, <2>3
<1>4. ASSUME NEW x PROVE IsConfirmed(x)' <=> IsConfirmed(x)
  <2>1. CASE x = h
    BY <1>1, <1>3, <2>1 DEF IsConfirmed, Exists
  <2>2. CASE x # h
    BY <1>2, <2>2 DEF IsConfirmed, Exists
  <2> QED BY <2>1, <2>2
<1>5. FrontiersExist'
  BY <1>2 DEF FrontiersExist
<1>6. ConfirmedClosed'
  <2> SUFFICES ASSUME NEW x \in DOMAIN block', IsConfirmed(x)',
                      NEW d \in Dependents(x)'
               PROVE  IsConfirmed(d)'
    BY DEF ConfirmedClosed
  <2>1. IsConfirmed(x) /\ x \in DOMAIN block
    BY <1>4 DEF IsConfirmed, Exists
  <2>2. d \in Dependents(x)
    BY <1>2, <2>1 DEF Dependents, DependentBlocks
  <2>3. IsConfirmed(d)
    BY <2>1, <2>2 DEF ConfirmedClosed
  <2> QED BY <1>4, <2>3
<1> QED BY <1>4, <1>5, <1>6

=============================================================================
