---------------------------- MODULE LedgerProofs ----------------------------
(***************************************************************************)
(* Chain integrity and cementing safety of the ledger, for every set of    *)
(* blocks, every number of threads and every bound.                        *)
(***************************************************************************)
EXTENDS LedgerRollbackProofs, LedgerValidationProofs

(***************************************************************************)
(* The steps                                                               *)
(***************************************************************************)
(* What the two action properties ask of a step.                           *)
KeepsCemented == \A h \in Hash : IsConfirmed(h) => IsConfirmed(h)'

CementsNext ==
  \A a \in DOMAIN confirmation_height' :
    LET old == IF a \in DOMAIN confirmation_height
               THEN confirmation_height[a].height ELSE 0
    IN  confirmation_height'[a].height \in {old, old + 1}

Good == IInv' /\ KeepsCemented /\ CementsNext

(* A step that leaves the tables alone keeps what is said of them.         *)
LEMMA TablesStutter ==
  ASSUME TablesInv, UNCHANGED tables
  PROVE  TablesInv' /\ KeepsCemented /\ CementsNext
<1> USE DEF tables
<1>1. TablesOK'
  BY DEF TablesInv, TablesOK
<1>2. ChainIntegrity' /\ ChainStatic'
  BY DEF TablesInv, ChainIntegrity, ChainStatic, HeightsBounded, HeadsMatch, Balance,
         ChainsLinked, NoForks, SuccessorsMatch
<1>3. ASSUME NEW x PROVE IsConfirmed(x)' <=> IsConfirmed(x)
  BY DEF IsConfirmed, Exists
<1>4. FrontiersExist'
  BY DEF TablesInv, FrontiersExist
<1>5. ConfirmedClosed'
  BY <1>3 DEF TablesInv, ConfirmedClosed, Dependents, DependentBlocks
<1> QED BY <1>1, <1>2, <1>3, <1>4, <1>5 DEF TablesInv, KeepsCemented, CementsNext

(* It keeps the rollback stack fresh as well, if it leaves that alone too. *)
LEMMA StackStutter ==
  ASSUME StackFresh, UNCHANGED <<block, account, rb>>
  PROVE  StackFresh'
BY DEF StackFresh, Exists

(* A step of processor p that changes only its own state.                  *)
LEMMA ProcessorStep1 ==
  ASSUME IInv, NEW p \in Processor, NEW new,
         proc' = [proc EXCEPT ![p] = new],
         new \in ProcState(new.todo),
         proc[p].pc = "competitors" => new.pc = "competitors" \/ writer # p,
         UNCHANGED <<writer, rb, cem>>
  PROVE  ThreadsOK' /\ ThreadsInv' /\ Locking'
<1>1. ThreadsOK'
  BY DEF IInv, ThreadsOK, ProcState
<1>2. ThreadsInv'
  BY DEF IInv, ThreadsOK, ThreadsInv
<1>3. Locking'
  BY DEF IInv, ThreadsOK, Locking
<1> QED BY <1>1, <1>2, <1>3

(* Popping a batch touches no table.                                       *)
LEMMA PopBatchGood ==
  ASSUME IInv, NEW p \in Processor, NEW batch \in Batches, NEW forced,
         PopBatch(p, batch, forced)
  PROVE  Good
<1>1. batch \in Seq(Hash)
  BY DEF Batches
<1>2. ThreadsOK' /\ ThreadsInv' /\ Locking'
  <2> DEFINE new == [pc |-> "competitors", batch |-> batch, results |-> <<>>,
                     todo |-> SelectSeq(batch, LAMBDA h : h \in forced)]
  <2>1. proc' = [proc EXCEPT ![p] = new] /\ UNCHANGED <<writer, rb, cem>>
    BY DEF PopBatch
  <2>2. new \in ProcState(new.todo) /\ new.pc = "competitors"
    BY <1>1 DEF ProcState
  <2> HIDE DEF new
  <2> QED BY <2>1, <2>2, ProcessorStep1, Zenon
<1>3. StackFresh'
  BY StackStutter DEF IInv, PopBatch, tables
<1>4. TablesInv' /\ KeepsCemented /\ CementsNext
  BY TablesStutter DEF IInv, PopBatch
<1> QED BY <1>2, <1>3, <1>4 DEF Good, IInv

(* Validation yields only sound instructions (ValidationSound).            *)
LEMMA ValidateBatchGood ==
  ASSUME IInv, NEW p \in Processor, ValidateBatch(p)
  PROVE  Good
<1> DEFINE batch == proc[p].batch
           results == [i \in DOMAIN batch |-> ValidationResult(batch[i])]
           new == [proc[p] EXCEPT !.pc = "insert", !.results = results]
<1>1. batch \in Seq(Hash) /\ proc[p].pc = "competitors" /\ writer = "none"
  BY DEF IInv, ThreadsOK, ValidateBatch
<1>2. results \in Seq(Result)
  <2>1. \A i \in 1 .. Len(batch) : ValidationResult(batch[i]) \in Result
    BY <1>1, ValidationSound DEF IInv
  <2>2. Len(batch) \in Nat /\ DOMAIN batch = 1 .. Len(batch)
    BY <1>1
  <2>3. results \in [1 .. Len(batch) -> Result]
    BY <2>1, <2>2
  <2> HIDE DEF results
  <2> QED BY <2>2, <2>3
<1> HIDE DEF results
<1>3. proc' = [proc EXCEPT ![p] = new]
  BY Zenon DEF ValidateBatch, results
<1>4. proc[p] \in ProcState(proc[p].todo)
  BY DEF IInv, ThreadsInv
<1>5. new \in ProcState(new.todo) /\ new.pc = "insert"
  BY <1>2, <1>4, Zenon DEF ProcState
<1> HIDE DEF new
<1>6. ThreadsOK' /\ ThreadsInv' /\ Locking'
  <2>1. writer # p /\ UNCHANGED <<writer, rb, cem>>
    BY <1>1, ThreadAssumption DEF ValidateBatch
  <2> QED BY <1>1, <1>2, <1>3, <1>5, <2>1, ProcessorStep1, Zenon
<1>7. StackFresh'
  BY StackStutter DEF IInv, ValidateBatch, tables
<1>8. TablesInv' /\ KeepsCemented /\ CementsNext
  BY TablesStutter DEF IInv, ValidateBatch
<1> QED BY <1>6, <1>7, <1>8 DEF Good, IInv

(* The first stack of a rollback.                                          *)
LEMMA BeginRollbackFresh ==
  ASSUME IInv, NEW thread, NEW target \in DOMAIN block,
         BeginRollback(thread, target), UNCHANGED <<block, account>>
  PROVE  /\ rb' \in [target : Hash, stack : Seq(StackEntry),
                     error : {rb'.error}, before : {rb'.before}]
         /\ StackFresh'
<1> DEFINE a == block[target].account
           entry == [target |-> target, head |-> account[a].head]
<1>1. /\ target \in Hash /\ a \in DOMAIN account
      /\ account[a].head \in DOMAIN block /\ account[a].head \in Hash
      /\ block[account[a].head].account = a
  BY DEF IInv, TablesInv, TablesOK, ChainIntegrity, HeightsBounded, HeadsMatch
<1>2. rb' = [target |-> target, error |-> "none", before |-> DOMAIN block,
             stack |-> <<entry>>]
  BY <1>1 DEF BeginRollback, Info
<1>3. entry \in StackEntry
  BY <1>1 DEF StackEntry
<1>4. <<entry>> \in Seq(StackEntry)
  BY <1>3
<1>5. rb' \in [target : Hash, stack : Seq(StackEntry),
               error : {rb'.error}, before : {rb'.before}]
  <2> HIDE DEF entry
  <2> QED BY <1>1, <1>2, <1>4
<1>6. StackFresh'
  <2> SUFFICES ASSUME NEW i \in 1 .. Len(rb'.stack)
               PROVE  account'[block'[rb'.stack[i].head].account].head
                        = rb'.stack[i].head
    BY DEF StackFresh
  <2>1. i = 1 /\ rb'.stack[i] = entry
    BY <1>2
  <2> QED BY <1>1, <2>1
<1> QED BY <1>5, <1>6

(* A competitor is rolled back by the thread that found it.                *)
LEMMA RollBackCompetitorGood ==
  ASSUME IInv, NEW p \in Processor, RollBackCompetitor(p)
  PROVE  Good
<1> DEFINE forced == Head(proc[p].todo)
           competitor == BlockAtRoot(forced)
           new == [proc[p] EXCEPT !.todo = Tail(@)]
<1>1. /\ proc[p].pc = "competitors" /\ writer = "none"
      /\ UNCHANGED <<tables, cem>>
      /\ proc' = [proc EXCEPT ![p] = new]
  BY DEF RollBackCompetitor
<1>2. new \in ProcState(new.todo) /\ new.pc = "competitors"
  BY <1>1 DEF IInv, ThreadsInv, ProcState
<1>3. TablesInv' /\ KeepsCemented /\ CementsNext
  BY <1>1, TablesStutter DEF IInv
<1>4. CASE ~(Exists(competitor) /\ competitor # forced)
  <2>1. UNCHANGED <<writer, rb>>
    BY <1>4 DEF RollBackCompetitor
  <2> HIDE DEF new
  <2>2. ThreadsOK' /\ ThreadsInv' /\ Locking'
    BY <1>1, <1>2, <2>1, ProcessorStep1, Zenon
  <2>3. StackFresh'
    BY <1>1, <2>1, StackStutter DEF IInv, tables
  <2> QED BY <1>3, <2>2, <2>3 DEF Good, IInv
<1>5. CASE Exists(competitor) /\ competitor # forced
  <2>1. BeginRollback(p, competitor) /\ competitor \in DOMAIN block
    BY <1>5 DEF RollBackCompetitor, Exists
  <2> HIDE DEF competitor, new
  <2>2. /\ rb' \in [target : Hash, stack : Seq(StackEntry),
                    error : {rb'.error}, before : {rb'.before}]
        /\ StackFresh'
    BY <1>1, <2>1, BeginRollbackFresh DEF tables
  <2>3. writer' = p /\ rb'.target # Zero
    BY <2>1, <2>2, SortAssumption DEF BeginRollback
  <2>4. ThreadsOK' /\ ThreadsInv'
    BY <1>1, <1>2, <2>2, <2>3 DEF IInv, ThreadsOK, ThreadsInv, ProcState
  <2>5. Locking'
    BY <1>1, <1>2, <2>3 DEF IInv, ThreadsOK, Locking
  <2> QED BY <1>3, <2>2, <2>4, <2>5 DEF Good, IInv
<1> QED BY <1>4, <1>5

(* So is a target of the bounded backlog.                                  *)
LEMMA RollBackTargetGood ==
  ASSUME IInv, NEW target, RollBackTarget(target)
  PROVE  Good
<1>1. /\ writer = "none" /\ target \in DOMAIN block
      /\ BeginRollback("backlog", target) /\ UNCHANGED <<tables, proc, cem>>
  BY DEF RollBackTarget, Exists
<1>2. TablesInv' /\ KeepsCemented /\ CementsNext
  BY <1>1, TablesStutter DEF IInv
<1>3. /\ rb' \in [target : Hash, stack : Seq(StackEntry),
                  error : {rb'.error}, before : {rb'.before}]
      /\ StackFresh'
  BY <1>1, BeginRollbackFresh DEF tables
<1>4. writer' = "backlog" /\ rb'.target # Zero
  BY <1>1, <1>3, SortAssumption DEF BeginRollback
<1>5. ThreadsOK' /\ ThreadsInv'
  BY <1>1, <1>3, <1>4 DEF IInv, ThreadsOK, ThreadsInv
<1>6. Locking'
  BY <1>1, <1>4 DEF IInv, Locking
<1> QED BY <1>2, <1>3, <1>5, <1>6 DEF Good, IInv

(* While instructions are executed no rollback is in progress.             *)
LEMMA NoRollbackDuringInsert ==
  ASSUME IInv, NEW p \in Processor, proc[p].pc = "insert",
         writer = "none" \/ writer = p
  PROVE  rb.target = Zero /\ rb.stack = <<>> /\ cem.pc # "step"
BY ThreadAssumption DEF IInv, Locking, ThreadsOK

(* Insertion happens outside any rollback; it keeps the tables by the      *)
(* Insert* lemmas.                                                         *)
LEMMA InsertNextGood ==
  ASSUME IInv, NEW p \in Processor, InsertNext(p)
  PROVE  Good
<1> DEFINE ins == Head(proc[p].results)
           new == [proc[p] EXCEPT !.results = Tail(@)]
<1>1. /\ proc[p].pc = "insert" /\ proc[p].results # <<>>
      /\ writer = "none" \/ writer = p
      /\ writer' = p /\ proc' = [proc EXCEPT ![p] = new]
      /\ UNCHANGED <<confirmation_height, rb, cem>>
  BY DEF InsertNext
<1>2. /\ proc[p] \in ProcState(proc[p].todo)
      /\ proc[p].results \in Seq(Result) /\ DOMAIN proc = Processor
  BY DEF IInv, ThreadsInv, ProcState, ThreadsOK
<1>3. ins \in Result /\ Tail(proc[p].results) \in Seq(Result)
  BY <1>1, <1>2
<1>4. new \in ProcState(new.todo) /\ new.pc = "insert"
  BY <1>1, <1>2, <1>3, Zenon DEF ProcState
<1>5. rb.target = Zero /\ rb.stack = <<>> /\ cem.pc # "step"
  BY <1>1, NoRollbackDuringInsert
<1>6. ThreadsOK' /\ ThreadsInv'
  <2> HIDE DEF new
  <2> QED BY <1>1, <1>4 DEF IInv, ThreadsOK, ThreadsInv, ProcState
<1>7. Locking' /\ StackFresh'
  BY <1>1, <1>5 DEF Locking, StackFresh
<1>8. TablesInv' /\ KeepsCemented /\ CementsNext
  <2>1. CASE ins.error = "Ok" /\ AccountUnchanged(ins)
    <3>1. Insert(ins)
      BY <2>1 DEF InsertNext
    <3>2. ins \in InstructionSet /\ Sound(ins)
      BY <1>3, <2>1 DEF Result, Errors
    <3> HIDE DEF ins
    <3>3. TablesOK' /\ ChainIntegrity' /\ ChainStatic'
      BY <1>1, <2>1, <3>1, <3>2, InsertKeepsTypes, InsertKeepsChains
      DEF IInv, TablesInv
    <3>4. /\ FrontiersExist' /\ ConfirmedClosed'
          /\ \A x \in Hash : IsConfirmed(x)' <=> IsConfirmed(x)
      BY <1>1, <2>1, <3>1, <3>2, InsertKeepsConfirmed DEF IInv, TablesInv
    <3> QED BY <1>1, <3>3, <3>4 DEF TablesInv, KeepsCemented, CementsNext
  <2>2. CASE ~(ins.error = "Ok" /\ AccountUnchanged(ins))
    <3>1. UNCHANGED tables
      BY <1>1, <2>2 DEF InsertNext, tables
    <3> QED BY <3>1, TablesStutter DEF IInv
  <2> QED BY <2>1, <2>2
<1> QED BY <1>6, <1>7, <1>8 DEF Good, IInv

(* The commit only ends the batch.                                         *)
LEMMA CommitBatchGood ==
  ASSUME IInv, NEW p \in Processor, CommitBatch(p)
  PROVE  Good
<1>1. /\ writer' = "none" /\ proc' = [proc EXCEPT ![p] = IdleProc]
      /\ UNCHANGED <<tables, rb, cem>>
  BY DEF CommitBatch
<1>2. rb.target = Zero /\ rb.stack = <<>> /\ cem.pc # "step"
  BY NoRollbackDuringInsert DEF CommitBatch
<1>3. IdleProc \in ProcState(IdleProc.todo)
  BY DEF IdleProc, ProcState
<1>4. ThreadsOK' /\ ThreadsInv'
  BY <1>1, <1>3 DEF IInv, ThreadsOK, ThreadsInv, ProcState
<1>5. Locking' /\ StackFresh'
  BY <1>1, <1>2 DEF Locking, StackFresh
<1>6. TablesInv' /\ KeepsCemented /\ CementsNext
  BY <1>1, TablesStutter DEF IInv
<1> QED BY <1>4, <1>5, <1>6 DEF Good, IInv

(* Steps of a rollback that only change its stack.                         *)
LEMMA RollbackStackGood ==
  ASSUME IInv, rb.stack # <<>>, NEW stack \in Seq(StackEntry),
         NEW error, rb' = [rb EXCEPT !.stack = stack, !.error = error],
         \A i \in 1 .. Len(stack) :
           Exists(stack[i].head) =>
             account[block[stack[i].head].account].head = stack[i].head,
         UNCHANGED <<tables, writer, proc, cem>>
  PROVE  Good
<1>1. rb.target # Zero /\ rb.target \in Hash
  BY DEF IInv, Locking, ThreadsOK
<1>2. rb' \in [target : Hash \cup {Zero}, stack : Seq(StackEntry),
               error : {rb'.error}, before : {rb'.before}]
      /\ rb'.target = rb.target /\ rb'.stack = stack
  BY Zenon DEF IInv, ThreadsInv
<1>3. ThreadsOK' /\ ThreadsInv'
  BY <1>2 DEF IInv, ThreadsOK, ThreadsInv
<1>4. Locking'
  BY <1>1, <1>2 DEF IInv, Locking
<1>5. StackFresh'
  BY <1>2 DEF StackFresh, Exists, tables
<1>6. TablesInv' /\ KeepsCemented /\ CementsNext
  BY TablesStutter DEF IInv
<1> QED BY <1>3, <1>4, <1>5, <1>6 DEF Good, IInv

(* The stack after a pop or a push, element by element.                    *)
LEMMA StackFacts ==
  ASSUME NEW S, NEW s \in Seq(S), s # <<>>
  PROVE  /\ Len(s) \in Nat /\ Len(s) >= 1
         /\ StackTop(s) = s[Len(s)] /\ StackTop(s) \in S
         /\ StackPop(s) \in Seq(S)
         /\ Len(StackPop(s)) = Len(s) - 1
         /\ \A i \in 1 .. Len(s) - 1 : StackPop(s)[i] = s[i]
<1>1. Len(s) \in Nat /\ Len(s) >= 1 /\ \A i \in 1 .. Len(s) : s[i] \in S
  OBVIOUS
<1>2. StackTop(s) = s[Len(s)] /\ StackTop(s) \in S
  BY <1>1 DEF StackTop
<1>3. /\ StackPop(s) \in Seq(S)
      /\ Len(StackPop(s)) = Len(s) - 1
      /\ \A i \in 1 .. Len(s) - 1 : StackPop(s)[i] = s[i]
  <2> DEFINE n == Len(s) - 1
  <2>1. 1 \in Int /\ n \in Int /\ \A i \in 1 .. n : s[i] \in S
    BY <1>1
  <2> HIDE DEF n
  <2>2. /\ SubSeq(s, 1, n) \in Seq(S)
        /\ Len(SubSeq(s, 1, n)) = IF 1 <= n THEN n - 1 + 1 ELSE 0
        /\ \A i \in 1 .. n - 1 + 1 : SubSeq(s, 1, n)[i] = s[1 + i - 1]
    BY <2>1, SubSeqProperties
  <2>3. StackPop(s) = SubSeq(s, 1, n) /\ n = Len(s) - 1
    BY DEF StackPop, n
  <2>4. Len(StackPop(s)) = Len(s) - 1
    BY <1>1, <2>2, <2>3
  <2>5. \A i \in 1 .. Len(s) - 1 : StackPop(s)[i] = s[i]
    <3> TAKE i \in 1 .. Len(s) - 1
    <3>1. i \in 1 .. n - 1 + 1 /\ 1 + i - 1 = i
      BY <1>1, <2>3
    <3> QED BY <2>2, <2>3, <3>1
  <2> QED BY <2>2, <2>3, <2>4, <2>5
<1> QED BY <1>1, <1>2, <1>3

(* The top of a nonempty stack is an entry of it, and its head is the head *)
(* of the account.                                                         *)
LEMMA TopFacts ==
  ASSUME IInv, rb.stack # <<>>
  PROVE  /\ rb.stack \in Seq(StackEntry)
         /\ Len(rb.stack) \in Nat /\ Len(rb.stack) >= 1
         /\ Top = rb.stack[Len(rb.stack)]
         /\ Top \in StackEntry
         /\ rb \in [target : Hash \cup {Zero},
                    stack : Seq(StackEntry),
                    error : {rb.error}, before : {rb.before}]
         /\ Exists(Top.head) => account[block[Top.head].account].head = Top.head
<1>1. /\ rb \in [target : Hash \cup {Zero},
                 stack : Seq(StackEntry),
                 error : {rb.error}, before : {rb.before}]
      /\ rb.stack \in Seq(StackEntry)
  BY DEF IInv, ThreadsInv
<1>2. Len(rb.stack) \in Nat /\ Len(rb.stack) >= 1
  BY <1>1, StackFacts
<1>3. /\ Top = rb.stack[Len(rb.stack)] /\ Len(rb.stack) \in 1 .. Len(rb.stack)
      /\ Top \in StackEntry
  BY <1>1, <1>2, StackFacts, SMTT(30) DEF Top
<1> QED BY <1>1, <1>2, <1>3 DEF IInv, StackFresh

(* A popped stack is a prefix, thus still fresh.                           *)
LEMMA RollbackPopGood ==
  ASSUME IInv, RollbackPop
  PROVE  Good
<1> DEFINE stack == StackPop(rb.stack)
<1>1. /\ rb.stack # <<>> /\ UNCHANGED <<tables, writer, proc, cem>>
      /\ rb' = [rb EXCEPT !.stack = stack]
  BY DEF RollbackPop
<1>2. /\ stack \in Seq(StackEntry)
      /\ Len(stack) = Len(rb.stack) - 1
      /\ \A i \in 1 .. Len(stack) : stack[i] = rb.stack[i]
  BY <1>1, TopFacts, StackFacts, Zenon
<1> HIDE DEF stack
<1>3. rb' = [rb EXCEPT !.stack = stack, !.error = rb.error]
  BY <1>1, TopFacts, Zenon
<1>4. \A i \in 1 .. Len(stack) :
        Exists(stack[i].head) =>
          account[block[stack[i].head].account].head = stack[i].head
  <2>1. \A i \in 1 .. Len(stack) : i \in 1 .. Len(rb.stack)
    BY <1>1, <1>2, TopFacts
  <2> QED BY <1>2, <2>1, SMTT(30) DEF IInv, StackFresh
<1> QED BY <1>1, <1>2, <1>3, <1>4, RollbackStackGood, Zenon

(* A failed rollback drops the stack.                                      *)
LEMMA RollbackFailGood ==
  ASSUME IInv, RollbackFail
  PROVE  Good
<1>1. /\ rb.stack # <<>> /\ UNCHANGED <<tables, writer, proc, cem>>
      /\ rb' = [rb EXCEPT !.stack = <<>>, !.error = RollbackError(Top.head)]
  BY DEF RollbackFail
<1>2. <<>> \in Seq(StackEntry) /\ Len(<<>>) = 0
  OBVIOUS
<1>3. \A i \in 1 .. Len(<<>>) :
        Exists(<<>>[i].head) => account[block[<<>>[i].head].account].head = <<>>[i].head
  BY <1>2, SMTT(30)
<1> QED BY <1>1, <1>2, <1>3, RollbackStackGood, Zenon

(* The pushed head is the head of an account at that time.                 *)
LEMMA RollbackDependencyGood ==
  ASSUME IInv, RollbackDependency
  PROVE  Good
<1> DEFINE dest == DestinationOrLink(Top.head)
           a == block[Top.target].account
           entry == [target |-> account[dest].head, head |-> account[a].head]
           stack == Append(rb.stack, entry)
<1>1. /\ rb.stack # <<>> /\ UNCHANGED <<tables, writer, proc, cem>>
      /\ Top.target \in DOMAIN block /\ dest \in DOMAIN account
      /\ rb' = [rb EXCEPT !.stack = Append(@,
                  [target |-> account[dest].head, head |-> Info(a).head])]
  BY DEF RollbackDependency, Exists
<1>2. /\ a \in DOMAIN account /\ Info(a).head = account[a].head
      /\ account[a].head \in DOMAIN block /\ account[dest].head \in DOMAIN block
      /\ block[account[a].head].account = a
      /\ DOMAIN block \subseteq Hash
  BY <1>1 DEF IInv, TablesInv, TablesOK, ChainIntegrity, HeightsBounded, HeadsMatch, Info
<1>3. rb' = [rb EXCEPT !.stack = stack, !.error = rb.error]
  BY <1>1, <1>2, TopFacts, Zenon
<1>4. entry \in StackEntry /\ entry.head = account[a].head
  BY <1>2 DEF StackEntry
<1> HIDE DEF entry
<1>5. /\ stack \in Seq(StackEntry)
      /\ Len(stack) = Len(rb.stack) + 1
      /\ \A i \in 1 .. Len(rb.stack) : stack[i] = rb.stack[i]
      /\ stack[Len(rb.stack) + 1] = entry
  BY <1>1, <1>4, TopFacts
<1> HIDE DEF stack
<1>6. ASSUME NEW i \in 1 .. Len(stack), Exists(stack[i].head)
      PROVE  account[block[stack[i].head].account].head = stack[i].head
  <2>1. CASE i \in 1 .. Len(rb.stack)
    BY <1>5, <1>6, <2>1 DEF IInv, StackFresh
  <2>2. CASE i = Len(rb.stack) + 1
    BY <1>2, <1>4, <1>5, <2>2
  <2> QED BY <1>1, <1>5, <2>1, <2>2, TopFacts
<1> QED BY <1>1, <1>3, <1>5, <1>6, RollbackStackGood, Zenon

(* One head is removed: it was the head of its account and not confirmed.  *)
LEMMA RollbackExecuteGood ==
  ASSUME IInv, RollbackExecute
  PROVE  Good
<1> DEFINE h == Top.head
           a == block[h].account
           b == block[Top.target].account
           n == Len(rb.stack)
<1>1. /\ rb.stack # <<>> /\ Top.target \in DOMAIN block /\ h \in DOMAIN block
      /\ RollbackError(h) = "none" /\ RemoveHead(h)
      /\ UNCHANGED <<confirmation_height, writer, proc, cem>>
      /\ rb' = IF h = Top.target THEN rb
               ELSE [rb EXCEPT !.stack[n].head = account'[b].head]
  BY DEF RollbackExecute, Exists
<1>2. account[a].head = h
  BY <1>1, TopFacts DEF Exists
<1>3. ~IsConfirmed(h)
  BY <1>1 DEF RollbackError
<1>4. TablesInv'
  <2> HIDE DEF h
  <2>1. TablesOK' /\ ChainIntegrity' /\ ChainStatic'
    BY <1>1, <1>2, RemoveKeepsTypes, RemoveKeepsChains DEF IInv, TablesInv
  <2>2. FrontiersExist' /\ ConfirmedClosed'
    BY <1>1, <1>3, RemoveKeepsConfirmed DEF IInv, TablesInv
  <2> QED BY <2>1, <2>2 DEF TablesInv
<1>5. KeepsCemented /\ CementsNext
  <2> HIDE DEF h
  <2>1. \A x \in Hash : IsConfirmed(x)' <=> IsConfirmed(x)
    BY <1>1, <1>3, RemoveKeepsConfirmed DEF IInv, TablesInv
  <2> QED BY <1>1, <2>1 DEF KeepsCemented, CementsNext
<1>6. /\ DOMAIN block' = DOMAIN block \ {h}
      /\ \A x \in DOMAIN block' : block'[x] = block[x]
  BY <1>1 DEF RemoveHead, Del
<1>7. \A x \in DOMAIN account : x # a => x \in DOMAIN account' /\ account'[x] = account[x]
  BY <1>1 DEF RemoveHead, UpdateAccount, Put, Del
<1>8. \A i \in 1 .. n : rb.stack[i].head \in DOMAIN block' =>
        account'[block'[rb.stack[i].head].account].head = rb.stack[i].head
  <2> SUFFICES ASSUME NEW i \in 1 .. n, NEW e, e = rb.stack[i].head,
                      e \in DOMAIN block'
               PROVE  account'[block'[e].account].head = e
    OBVIOUS
  <2>1. e \in DOMAIN block /\ e # h /\ block'[e] = block[e]
    BY <1>6
  <2>2. account[block[e].account].head = e
    BY <2>1 DEF IInv, StackFresh, Exists
  <2>3. block[e].account \in DOMAIN account
    BY <2>1 DEF IInv, TablesInv, ChainIntegrity, HeightsBounded
  <2> QED BY <1>2, <1>7, <2>1, <2>2, <2>3
<1>9. CASE h = Top.target
  <2>1. rb' = rb
    BY <1>1, <1>9
  <2>2. ThreadsOK' /\ ThreadsInv' /\ Locking'
    BY <1>1, <2>1 DEF IInv, ThreadsOK, ThreadsInv, Locking
  <2>3. StackFresh'
    BY <1>8, <2>1 DEF StackFresh, Exists
  <2> QED BY <1>4, <1>5, <2>2, <2>3 DEF Good, IInv
<1>10. CASE h # Top.target
  <2> DEFINE head == account'[b].head
             stack == [rb.stack EXCEPT ![n].head = head]
  <2>1. b \in DOMAIN account' /\ block'[Top.target].account = b
    BY <1>1, <1>4, <1>6, <1>10 DEF TablesInv, ChainIntegrity, HeightsBounded
  <2>2. head \in DOMAIN block' /\ block'[head].account = b /\ head \in Hash
    BY <1>4, <2>1 DEF TablesInv, TablesOK, ChainIntegrity, HeadsMatch
  <2> HIDE DEF head
  <2>3. /\ stack \in Seq(StackEntry) /\ Len(stack) = n
        /\ stack[n].head = head
        /\ \A i \in 1 .. n : i # n => stack[i] = rb.stack[i]
    <3>1. rb.stack \in Seq(StackEntry) /\ n \in 1 .. n /\ rb.stack[n] \in StackEntry
      BY <1>1, TopFacts
    <3>2. [rb.stack[n] EXCEPT !.head = head] \in StackEntry
      BY <2>2, <3>1 DEF StackEntry
    <3>3. [rb.stack[n] EXCEPT !.head = head].head = head
      BY <3>1 DEF StackEntry
    <3> DEFINE new == [rb.stack[n] EXCEPT !.head = head]
    <3>4. stack = [rb.stack EXCEPT ![n] = new]
      OBVIOUS
    <3> HIDE DEF new
    <3> QED BY <3>1, <3>2, <3>3, <3>4, ExceptSeq DEF new
  <2>4. rb' = [rb EXCEPT !.stack = stack]
    BY <1>1, <1>10 DEF head
  <2> HIDE DEF stack
  <2>5. /\ rb' \in [target : Hash \cup {Zero}, stack : Seq(StackEntry),
                    error : {rb'.error}, before : {rb'.before}]
        /\ rb'.target = rb.target /\ rb'.stack = stack
    BY <1>1, <2>3, <2>4, TopFacts
  <2>6. ThreadsOK' /\ ThreadsInv'
    BY <1>1, <2>5, Zenon DEF IInv, ThreadsOK, ThreadsInv
  <2>7. Locking'
    <3>1. rb.target # Zero
      BY <1>1 DEF IInv, Locking
    <3> QED BY <1>1, <2>5, <3>1 DEF IInv, Locking
  <2>8. StackFresh'
    <3> SUFFICES ASSUME NEW i \in 1 .. n, stack[i].head \in DOMAIN block'
                 PROVE  account'[block'[stack[i].head].account].head = stack[i].head
      BY <2>3, <2>5 DEF StackFresh, Exists
    <3>1. CASE i = n
      BY <2>2, <2>3, <3>1 DEF head
    <3>2. CASE i # n
      BY <1>8, <2>3, <3>2
    <3> QED BY <3>1, <3>2
  <2> QED BY <1>4, <1>5, <2>6, <2>7, <2>8 DEF Good, IInv
<1> QED BY <1>9, <1>10

(* The end of a rollback releases the transaction.                         *)
LEMMA RollbackDoneGood ==
  ASSUME IInv, RollbackDone
  PROVE  Good
<1>1. /\ writer' = "none" /\ rb' = NoRollback /\ UNCHANGED <<tables, proc, cem>>
      /\ rb.target # Zero
  BY DEF RollbackDone
<1>2. NoRollback \in [target : Hash \cup {Zero}, stack : Seq(StackEntry),
                      error : {NoRollback.error}, before : {NoRollback.before}]
      /\ NoRollback.target = Zero /\ NoRollback.stack = <<>> /\ Len(<<>>) = 0
  BY DEF NoRollback
<1>3. cem.pc # "step"
  BY <1>1, ThreadAssumption DEF IInv, Locking
<1>4. ThreadsOK' /\ ThreadsInv'
  BY <1>1, <1>2 DEF IInv, ThreadsOK, ThreadsInv
<1>5. Locking' /\ StackFresh'
  BY <1>1, <1>2, <1>3 DEF Locking, StackFresh
<1>6. TablesInv' /\ KeepsCemented /\ CementsNext
  BY <1>1, TablesStutter DEF IInv
<1> QED BY <1>4, <1>5, <1>6 DEF Good, IInv

(* Steps of the cementing thread that change only its state and the lock.  *)
LEMMA CementerGood ==
  ASSUME IInv, UNCHANGED <<tables, proc, rb>>,
         cem' \in [pc : {"idle", "loop", "step", "refresh"}, root : {cem'.root},
                   stack : {cem'.stack}, count : {cem'.count}],
         \/ writer' = writer /\ cem'.pc # "step"
         \/ writer = "none" /\ writer' = "cementer"
         \/ cem.pc = "step" /\ cem'.pc # "step" /\ writer' = "none"
  PROVE  Good
<1>1. writer \in {"none", "cementer"} => rb.target = Zero
  BY ThreadAssumption DEF IInv, Locking
<1>2. ThreadsOK' /\ ThreadsInv'
  BY DEF IInv, ThreadsOK, ThreadsInv
<1>3. Locking'
  BY <1>1 DEF IInv, Locking
<1>4. StackFresh'
  BY StackStutter DEF IInv, tables
<1>5. TablesInv' /\ KeepsCemented /\ CementsNext
  BY TablesStutter DEF IInv
<1> QED BY <1>2, <1>3, <1>4, <1>5 DEF Good, IInv

(* The shape of the cementing thread.                                      *)
LEMMA CemFacts ==
  ASSUME IInv
  PROVE  /\ cem \in [pc : {"idle", "loop", "step", "refresh"}, root : {cem.root},
                     stack : {cem.stack}, count : {cem.count}]
         /\ IdleCem \in [pc : {"idle", "loop", "step", "refresh"},
                         root : {IdleCem.root}, stack : {IdleCem.stack},
                         count : {IdleCem.count}]
         /\ IdleCem.pc = "idle"
BY DEF IInv, ThreadsInv, IdleCem

(* A new root.                                                             *)
LEMMA BeginCementGood ==
  ASSUME IInv, NEW root, BeginCement(root)
  PROVE  Good
BY CementerGood, CemFacts, Zenon DEF BeginCement

(* The top of the loop.                                                    *)
LEMMA CementLoopGood ==
  ASSUME IInv, CementLoop
  PROVE  Good
<1>1. CASE Exists(cem.root)
  BY <1>1, CementerGood, CemFacts, Zenon DEF CementLoop
<1>2. CASE ~Exists(cem.root)
  BY <1>2, CementerGood, CemFacts DEF CementLoop
<1> QED BY <1>1, <1>2

(* After a refresh.                                                        *)
LEMMA CementResumeGood ==
  ASSUME IInv, CementResume
  PROVE  Good
<1>1. CASE Exists(cem.root)
  BY <1>1, CementerGood, CemFacts DEF CementResume
<1>2. CASE ~Exists(cem.root)
  BY <1>2, CementerGood, CemFacts, Zenon DEF CementResume
<1> QED BY <1>1, <1>2

(* The end of a walk.                                                      *)
LEMMA CementFinishGood ==
  ASSUME IInv, CementFinish
  PROVE  Good
<1>1. CASE IsConfirmed(cem.root)
  BY <1>1, CementerGood, CemFacts DEF CementFinish
<1>2. CASE ~IsConfirmed(cem.root)
  BY <1>2, CementerGood, CemFacts, Zenon DEF CementFinish
<1> QED BY <1>1, <1>2

(* Only this step raises a confirmation height.                            *)
LEMMA CementStepGood ==
  ASSUME IInv, NEW refresh \in BOOLEAN, CementStep(refresh)
  PROVE  Good
<1> DEFINE h == StackTop(cem.stack)
           pc == IF refresh THEN "refresh" ELSE "step"
<1>1. /\ cem.pc = "step" /\ h \in DOMAIN block
      /\ writer' = IF refresh THEN "none" ELSE writer
      /\ UNCHANGED <<block, successors, account, pending, rep_weight, proc, rb>>
  BY DEF CementStep, Exists
<1>2. cem' \in [pc : {pc}, root : {cem'.root}, stack : {cem'.stack},
                count : {cem'.count}]
  <2>1. \/ cem' = [cem EXCEPT !.pc = pc,
                              !.stack = PushBounded(@, UnconfirmedDependents(h))]
        \/ cem' = [cem EXCEPT !.pc = pc, !.stack = StackPop(@)]
        \/ cem' = [cem EXCEPT !.pc = pc, !.stack = StackPop(@), !.count = @ + 1]
    BY DEF CementStep
  <2> HIDE DEF pc
  <2> QED BY <2>1, CemFacts, Zenon
<1>3. writer = "cementer" /\ rb.target = Zero
  BY <1>1, ThreadAssumption DEF IInv, Locking
<1>4. ThreadsOK' /\ ThreadsInv' /\ Locking'
  BY <1>1, <1>2, <1>3 DEF IInv, ThreadsOK, ThreadsInv, Locking
<1>5. StackFresh'
  BY <1>1, StackStutter DEF IInv
<1>6. TablesInv' /\ KeepsCemented /\ CementsNext
  <2>1. CASE UnconfirmedDependents(h) = <<>> /\ ~IsConfirmed(h)
    <3>1. confirmation_height' = Put(confirmation_height, block[h].account,
                                     [height |-> block[h].height, frontier |-> h])
      BY <2>1 DEF CementStep
    <3> HIDE DEF h
    <3> QED BY <1>1, <2>1, <3>1, CementsNextBlock DEF IInv, KeepsCemented, CementsNext
  <2>2. CASE ~(UnconfirmedDependents(h) = <<>> /\ ~IsConfirmed(h))
    <3>1. UNCHANGED tables
      BY <1>1, <2>2 DEF CementStep, tables
    <3> QED BY <3>1, TablesStutter DEF IInv
  <2> QED BY <2>1, <2>2
<1> QED BY <1>4, <1>5, <1>6 DEF Good, IInv

(* A restart keeps the tables and forgets the threads.                     *)
LEMMA RestartGood ==
  ASSUME IInv, Restart
  PROVE  Good
<1>1. /\ writer = "none" /\ proc' = [p \in Processor |-> IdleProc]
      /\ cem' = IdleCem /\ UNCHANGED <<tables, writer, rb>>
  BY DEF Restart
<1>2. IdleProc \in ProcState(IdleProc.todo)
  BY DEF IdleProc, ProcState
<1>3. ThreadsOK' /\ ThreadsInv'
  BY <1>1, <1>2, CemFacts DEF IInv, ThreadsOK, ThreadsInv, ProcState
<1>4. Locking'
  BY <1>1, CemFacts, ThreadAssumption DEF IInv, Locking
<1>5. StackFresh'
  BY <1>1, StackStutter DEF IInv, tables
<1>6. TablesInv' /\ KeepsCemented /\ CementsNext
  BY <1>1, TablesStutter DEF IInv
<1> QED BY <1>3, <1>4, <1>5, <1>6 DEF Good, IInv

(* Nothing happens.                                                        *)
LEMMA StutterGood ==
  ASSUME IInv, UNCHANGED vars
  PROVE  Good
<1>1. TablesInv' /\ KeepsCemented /\ CementsNext
  BY TablesStutter DEF IInv, vars
<1>2. StackFresh'
  BY StackStutter DEF IInv, vars, tables
<1> QED BY <1>1, <1>2 DEF Good, IInv, vars, ThreadsOK, ThreadsInv, Locking

(***************************************************************************)
(* The theorems                                                            *)
(***************************************************************************)
(* The inductive step, one case per action.                                *)
LEMMA NextGood ==
  ASSUME IInv, [Next]_vars
  PROVE  Good
<1>1. ASSUME NEW p \in Processor, NEW batch \in Batches,
             NEW forced \in SUBSET (Forced \cap Range(batch)),
             PopBatch(p, batch, forced)
      PROVE  Good
  BY <1>1, PopBatchGood
<1>2. ASSUME NEW p \in Processor, ProcessorStep(p)
      PROVE  Good
  BY <1>2, RollBackCompetitorGood, ValidateBatchGood, InsertNextGood, CommitBatchGood
  DEF ProcessorStep
<1>3. ASSUME NEW h \in Hash, RollBackTarget(h)
      PROVE  Good
  BY <1>3, RollBackTargetGood
<1>4. CASE RollbackStep
  BY <1>4, RollbackPopGood, RollbackFailGood, RollbackDependencyGood,
     RollbackExecuteGood, RollbackDoneGood DEF RollbackStep
<1>5. ASSUME NEW h \in Elected, BeginCement(h)
      PROVE  Good
  BY <1>5, BeginCementGood
<1>6. CASE CementerStep
  BY <1>6, CementLoopGood, CementStepGood, CementResumeGood, CementFinishGood
  DEF CementerStep
<1>7. CASE Restart
  BY <1>7, RestartGood
<1>8. CASE UNCHANGED vars
  BY <1>8, StutterGood
<1> QED BY <1>1, <1>2, <1>3, <1>4, <1>5, <1>6, <1>7, <1>8 DEF Next

(* A new database holds the genesis block alone (add_genesis_block).       *)
LEMMA InitIInv ==
  ASSUME Init
  PROVE  IInv
<1> USE SortAssumption, BlockAssumption, GenesisAssumption
<1> DEFINE g == GenesisHash
           ga == GenesisAccount
<1>1. /\ g \in Hash /\ ga \in Account /\ Block[g].previous = Zero
      /\ Depth[g] = 1 /\ ChainRoot[g] = g /\ Block[g].account = ga
      /\ Block[g].type = "open"
  BY AcyclicAssumption DEF GenesisAccount
<1>2. /\ DOMAIN block = {g} /\ block[g] = GenesisSideband
      /\ DOMAIN account = {ga} /\ account[ga] = GenesisInfo
      /\ DOMAIN confirmation_height = {ga}
      /\ confirmation_height[ga] = [height |-> 1, frontier |-> g]
      /\ DOMAIN successors = {} /\ DOMAIN pending = {}
  BY DEF Init, Single
<1> HIDE DEF g, ga
<1>3. TablesOK
  <2>1. GenesisSideband \in Sideband
    BY <1>1 DEF GenesisSideband, Sideband, Amount, Epoch, ga
  <2>2. GenesisInfo \in AccountInfo
    BY <1>1 DEF GenesisInfo, AccountInfo, Amount, Epoch, g, ga
  <2>3. rep_weight \in [Rep -> Amount]
    BY DEF Init, Amount
  <2> QED BY <1>1, <1>2, <2>1, <2>2, <2>3 DEF TablesOK
<1>4. ChainIntegrity /\ ChainStatic
  <2> USE <1>1, <1>2 DEF GenesisSideband, GenesisInfo
  <2>0. /\ block[g].account = ga /\ block[g].height = 1 /\ account[ga].head = g
        /\ account[ga].block_count = 1 /\ account[ga].open_block = g
        /\ account[ga].balance = Supply /\ block[g].balance = Supply
        /\ account[ga].epoch = block[g].epoch
    BY DEF g, ga
  <2>1. HeightsBounded /\ ChainsLinked /\ NoForks /\ SuccessorsMatch
    BY <2>0, SMTT(30) DEF HeightsBounded, ChainsLinked, NoForks, SuccessorsMatch
  <2>2. HeadsMatch
    BY <2>0 DEF HeadsMatch, Balance
  <2>3. ChainStatic
    BY <2>0 DEF ChainStatic
  <2> QED BY <2>1, <2>2, <2>3 DEF ChainIntegrity
<1>5. FrontiersExist
  BY <1>1, <1>2 DEF FrontiersExist, GenesisSideband, ga
<1>6. ConfirmedClosed
  <2>1. Dependents(g) = {}
    <3>1. DependentBlocks(g) = <<Zero, Zero>>
      BY <1>1 DEF DependentBlocks, ga
    <3> QED BY <3>1 DEF Dependents
  <2> QED BY <1>2, <2>1 DEF ConfirmedClosed
<1>7. ThreadsOK /\ ThreadsInv /\ Locking /\ StackFresh
  <2>1. writer = "none" /\ rb = NoRollback /\ cem = IdleCem
    BY DEF Init
  <2>2. DOMAIN proc = Processor /\ \A p \in Processor : proc[p] = IdleProc
    BY DEF Init
  <2>3. <<>> \in Seq(Hash) /\ <<>> \in Seq(Result) /\ <<>> \in Seq(StackEntry)
        /\ Len(<<>>) = 0
    OBVIOUS
  <2>4. /\ rb.target = Zero /\ rb.stack = <<>>
        /\ rb \in [target : Hash \cup {Zero}, stack : Seq(StackEntry),
                   error : {rb.error}, before : {rb.before}]
    BY <2>1, <2>3 DEF NoRollback
  <2>5. /\ cem.pc = "idle"
        /\ cem \in [pc : {"idle", "loop", "step", "refresh"}, root : {cem.root},
                    stack : {cem.stack}, count : {cem.count}]
    BY <2>1 DEF IdleCem
  <2>6. ASSUME NEW p \in Processor
        PROVE  proc[p] \in ProcState(proc[p].todo)
    <3>1. IdleProc \in ProcState(IdleProc.todo)
      BY DEF IdleProc, ProcState
    <3> QED BY <2>2, <3>1
  <2>7. ThreadsOK
    BY <2>1, <2>2, <2>3, <2>4, <2>5 DEF ThreadsOK, IdleProc
  <2>8. StackFresh
    BY <2>3, <2>4 DEF StackFresh
  <2> QED BY <2>4, <2>5, <2>6, <2>7, <2>8, SMTT(30) DEF ThreadsInv, Locking
<1> QED BY <1>3, <1>4, <1>5, <1>6, <1>7 DEF IInv, TablesInv

(* IInv is an inductive invariant of the ledger: it holds in a new         *)
(* database and no step of any thread breaks it.                           *)
THEOREM Invariance == Spec => []IInv
<1>1. IInv /\ [Next]_vars => IInv'
  BY NextGood DEF Good
<1> QED BY InitIInv, <1>1, PTL DEF Spec

(* The tables keep their declared shape; in particular no balance, weight  *)
(* or height leaves its range (update_account, representation_add).        *)
THEOREM TypeCorrect == Spec => []TypeOK
<1>1. IInv => TypeOK
  BY DEF IInv, TablesInv, TypeOK
<1> QED BY Invariance, <1>1, PTL

(* Rechecking the account's head is enough (BlockInserter::account_changed *)
(* against instructions validated in an older snapshot): for any number of *)
(* processing threads, any blocks and any rollbacks there is one gap-free, *)
(* fork-free chain per account, and the account and successor tables match *)
(* it.                                                                     *)
THEOREM ChainsStayIntact == Spec => []ChainIntegrity
<1>1. IInv => ChainIntegrity
  BY DEF IInv, TablesInv
<1> QED BY Invariance, <1>1, PTL

(* A confirmation height always belongs to a stored block: no rollback     *)
(* removes a cemented frontier (ensure_block_is_not_confirmed).            *)
THEOREM FrontiersStay == Spec => []FrontiersExist
<1>1. IInv => FrontiersExist
  BY DEF IInv, TablesInv
<1> QED BY Invariance, <1>1, PTL

(* A block is cemented only after everything it depends on, whatever the   *)
(* bounded stack of BlockCementer::confirm dropped and whatever happened   *)
(* while the write transaction was released.                               *)
THEOREM ConfirmedStaysClosed == Spec => []ConfirmedClosed
<1>1. IInv => ConfirmedClosed
  BY DEF IInv, TablesInv
<1> QED BY Invariance, <1>1, PTL

(* What is cemented stays in the ledger and stays cemented.                *)
THEOREM CementedIsForever == Spec => CementedStays
<1>1. IInv /\ [Next]_vars => [KeepsCemented]_vars
  BY NextGood DEF Good
<1> QED BY Invariance, <1>1, PTL DEF Spec, CementedStays, KeepsCemented

(* A confirmation height grows by at most one in a step.                   *)
THEOREM CementsInOrder == Spec => CementsOneByOne
<1>1. IInv /\ [Next]_vars => [CementsNext]_vars
  BY NextGood DEF Good
<1> QED BY Invariance, <1>1, PTL DEF Spec, CementsOneByOne, CementsNext
=============================================================================
