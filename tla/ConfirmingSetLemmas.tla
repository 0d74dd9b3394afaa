------------------------- MODULE ConfirmingSetLemmas -------------------------
(***************************************************************************)
(* Lemmas for ConfirmingSetProofs: the queues as sequences, the inductive  *)
(* invariant, and that every step keeps the types and the batch.           *)
(***************************************************************************)
EXTENDS ConfirmingSet, TLAPS, FiniteSetTheorems, SequenceTheorems

-----------------------------------------------------------------------------
(* Sequences as the queues use them                                        *)

(* The elements of a sequence are of its type. *)
LEMMA ToSetType ==
    ASSUME NEW S, NEW s \in Seq(S)
    PROVE  ToSet(s) \subseteq S
BY DEF ToSet

(* An empty sequence has no elements. *)
LEMMA ToSetEmpty == ToSet(<< >>) = {} /\ IsInjective(<< >>)
BY DEF ToSet, IsInjective

(* Append adds one element. *)
LEMMA AppendFacts ==
    ASSUME NEW S, NEW s \in Seq(S), NEW e \in S
    PROVE  /\ Append(s, e) \in Seq(S) /\ Append(s, e) # << >>
           /\ ToSet(Append(s, e)) = ToSet(s) \union {e}
           /\ Len(Append(s, e)) = Len(s) + 1
           /\ IsInjective(s) /\ e \notin ToSet(s) => IsInjective(Append(s, e))
           /\ \A i \in DOMAIN s : i \in DOMAIN Append(s, e) /\ Append(s, e)[i] = s[i]
           /\ \A i \in DOMAIN Append(s, e) :
                 \/ i \in DOMAIN s /\ Append(s, e)[i] = s[i]
                 \/ i = Len(s) + 1 /\ Append(s, e)[i] = e
<1> DEFINE t == Append(s, e)
<1>1. /\ Len(s) \in Nat /\ DOMAIN s = 1..Len(s) /\ t \in Seq(S) /\ t # << >>
      /\ Len(t) = Len(s) + 1 /\ DOMAIN t = 1..(Len(s) + 1)
      /\ \A i \in 1..Len(s) : t[i] = s[i]
      /\ t[Len(s) + 1] = e
  BY AppendProperties
<1> HIDE DEF t
<1>2. /\ \A i \in DOMAIN s : i \in DOMAIN t /\ t[i] = s[i]
      /\ \A i \in DOMAIN t : (i \in DOMAIN s /\ t[i] = s[i]) \/ (i = Len(s) + 1 /\ t[i] = e)
      /\ Len(s) + 1 \in DOMAIN t
  BY <1>1
<1>3. ToSet(t) \subseteq ToSet(s) \union {e}
  BY <1>2 DEF ToSet
<1>4. ToSet(s) \union {e} \subseteq ToSet(t)
  BY <1>1, <1>2 DEF ToSet
<1>5. IsInjective(s) /\ e \notin ToSet(s) => IsInjective(t)
  BY <1>2 DEF ToSet, IsInjective
<1>6. QED
  BY <1>1, <1>2, <1>3, <1>4, <1>5 DEF t

(* PushBack adds an element that is not there yet. *)
LEMMA PushBackFacts ==
    ASSUME NEW S, NEW s \in Seq(S), NEW e \in S
    PROVE  /\ PushBack(s, e) \in Seq(S)
           /\ ToSet(PushBack(s, e)) = ToSet(s) \union {e}
           /\ IsInjective(s) => IsInjective(PushBack(s, e))
BY AppendFacts DEF PushBack

(* A sequence is its head and its tail. *)
LEMMA HeadTailFacts ==
    ASSUME NEW S, NEW s \in Seq(S), s # << >>
    PROVE  /\ Head(s) \in S /\ Head(s) \in ToSet(s)
           /\ Tail(s) \in Seq(S) /\ Len(Tail(s)) = Len(s) - 1
           /\ ToSet(s) = {Head(s)} \union ToSet(Tail(s))
           /\ IsInjective(s) => IsInjective(Tail(s)) /\ Head(s) \notin ToSet(Tail(s))
           /\ \A i \in DOMAIN Tail(s) : i + 1 \in DOMAIN s /\ Tail(s)[i] = s[i + 1]
<1>1. /\ Len(s) \in Nat /\ Len(s) > 0 /\ Head(s) = s[1] /\ Tail(s) \in Seq(S)
      /\ Len(Tail(s)) = Len(s) - 1
      /\ \A i \in 1..(Len(s) - 1) : Tail(s)[i] = s[i + 1]
      /\ DOMAIN s = 1..Len(s) /\ DOMAIN Tail(s) = 1..(Len(s) - 1)
  OBVIOUS
<1>2. ToSet(s) = {Head(s)} \union ToSet(Tail(s))
  <2>1. ASSUME NEW i \in DOMAIN s PROVE s[i] \in {Head(s)} \union ToSet(Tail(s))
    <3>1. CASE i = 1
      BY <3>1, <1>1
    <3>2. CASE i # 1
      <4>1. i - 1 \in DOMAIN Tail(s) /\ Tail(s)[i - 1] = s[i]
        BY <3>2, <1>1
      <4>2. QED
        BY <4>1 DEF ToSet
    <3>3. QED
      BY <3>1, <3>2
  <2>2. ASSUME NEW i \in DOMAIN Tail(s) PROVE Tail(s)[i] \in ToSet(s)
    BY <1>1 DEF ToSet
  <2>3. ToSet(s) \subseteq {Head(s)} \union ToSet(Tail(s))
    BY <2>1 DEF ToSet
  <2>4. ToSet(Tail(s)) \subseteq ToSet(s)
    BY <2>2 DEF ToSet
  <2>5. Head(s) \in ToSet(s)
    BY <1>1 DEF ToSet
  <2>6. QED
    BY <2>3, <2>4, <2>5
<1>3. IsInjective(s) => IsInjective(Tail(s)) /\ Head(s) \notin ToSet(Tail(s))
  BY <1>1 DEF IsInjective, ToSet
<1>4. QED
  BY <1>1, <1>2, <1>3

(* The lengths and the places of the two parts of a sequence. *)
LEMMA SplitArithmetic ==
    ASSUME NEW l \in Nat, NEW n \in 0..l
    PROVE  /\ n - 1 + 1 = n /\ (IF 1 <= n THEN n - 1 + 1 ELSE 0) = n
           /\ l - (n + 1) + 1 = l - n
           /\ (IF n + 1 <= l THEN l - (n + 1) + 1 ELSE 0) = l - n
           /\ \A i \in 1..n : 1 + i - 1 = i
           /\ \A i \in 1..(l - n) : (n + 1) + i - 1 = i + n
OBVIOUS

(* A sequence is its first n elements and the others. *)
LEMMA SplitFacts ==
    ASSUME NEW S, NEW s \in Seq(S), NEW n \in 0..Len(s)
    PROVE  LET first == SubSeq(s, 1, n)
               rest == SubSeq(s, n + 1, Len(s))
           IN  /\ first \in Seq(S) /\ rest \in Seq(S)
               /\ ToSet(s) = ToSet(first) \union ToSet(rest)
               /\ IsInjective(s) => IsInjective(first) /\ IsInjective(rest)
<1> DEFINE first == SubSeq(s, 1, n)
           rest == SubSeq(s, n + 1, Len(s))
<1>1. /\ first \in Seq(S) /\ DOMAIN first = 1..n /\ \A i \in 1..n : first[i] = s[i]
      /\ rest \in Seq(S) /\ DOMAIN rest = 1..(Len(s) - n)
      /\ \A i \in 1..(Len(s) - n) : rest[i] = s[i + n]
      /\ DOMAIN s = 1..Len(s) /\ Len(s) \in Nat /\ n \in Nat
  <2>1. DOMAIN s = 1..Len(s) /\ Len(s) \in Nat /\ n \in Nat /\ n <= Len(s)
    OBVIOUS
  <2>2. /\ n + 1 \in Int /\ 1 \in Int /\ n \in Int /\ Len(s) \in Int
        /\ \A i \in 1..n : s[i] \in S
        /\ \A i \in (n + 1)..Len(s) : s[i] \in S
    BY <2>1
  <2>3. /\ first \in Seq(S) /\ Len(first) = IF 1 <= n THEN n - 1 + 1 ELSE 0
        /\ \A i \in 1..(n - 1 + 1) : first[i] = s[1 + i - 1]
    BY <2>2, SubSeqProperties
  <2>4. /\ rest \in Seq(S) /\ Len(rest) = IF n + 1 <= Len(s) THEN Len(s) - (n + 1) + 1 ELSE 0
        /\ \A i \in 1..(Len(s) - (n + 1) + 1) : rest[i] = s[(n + 1) + i - 1]
    BY <2>2, SubSeqProperties
  <2> HIDE DEF first, rest
  <2>5. Len(first) = n /\ \A i \in 1..n : first[i] = s[i]
    BY <2>1, <2>3, SplitArithmetic
  <2>6. Len(rest) = Len(s) - n /\ \A i \in 1..(Len(s) - n) : rest[i] = s[i + n]
    <3>1. /\ Len(s) - (n + 1) + 1 = Len(s) - n
          /\ (IF n + 1 <= Len(s) THEN Len(s) - (n + 1) + 1 ELSE 0) = Len(s) - n
          /\ \A i \in 1..(Len(s) - n) : (n + 1) + i - 1 = i + n
      BY <2>1, SplitArithmetic, Zenon
    <3>2. Len(rest) = Len(s) - n /\ \A i \in 1..(Len(s) - n) : rest[i] = s[(n + 1) + i - 1]
      BY <2>4, <3>1, Zenon
    <3>3. QED
      BY <3>1, <3>2, Zenon
  <2>7. DOMAIN first = 1..Len(first) /\ DOMAIN rest = 1..Len(rest)
    BY <2>3, <2>4
  <2>8. QED
    BY <2>1, <2>3, <2>4, <2>5, <2>6, <2>7
<1> HIDE DEF first, rest
<1>2. ASSUME NEW i \in DOMAIN s PROVE s[i] \in ToSet(first) \union ToSet(rest)
  <2>1. CASE i <= n
    BY <2>1, <1>1 DEF ToSet
  <2>2. CASE i > n
    <3>1. i - n \in DOMAIN rest /\ rest[i - n] = s[i]
      BY <2>2, <1>1
    <3>2. QED
      BY <3>1 DEF ToSet
  <2>3. QED
    BY <2>1, <2>2, <1>1
<1>3. /\ \A i \in DOMAIN first : i \in DOMAIN s /\ first[i] = s[i]
      /\ \A i \in DOMAIN rest : i \in Int /\ i + n \in DOMAIN s /\ rest[i] = s[i + n]
  BY <1>1
<1>4. ToSet(s) = ToSet(first) \union ToSet(rest)
  <2>1. ToSet(first) \subseteq ToSet(s)
    BY <1>3 DEF ToSet
  <2>2. ToSet(rest) \subseteq ToSet(s)
    BY <1>3 DEF ToSet
  <2>3. ToSet(s) \subseteq ToSet(first) \union ToSet(rest)
    BY <1>2 DEF ToSet
  <2>4. QED
    BY <2>1, <2>2, <2>3
<1>5. IsInjective(s) => IsInjective(first) /\ IsInjective(rest)
  <2> SUFFICES ASSUME IsInjective(s) PROVE IsInjective(first) /\ IsInjective(rest)
    OBVIOUS
  <2>1. IsInjective(first)
    BY <1>3 DEF IsInjective
  <2>2. ASSUME NEW i \in DOMAIN rest, NEW j \in DOMAIN rest, rest[i] = rest[j] PROVE i = j
    <3>1. i + n = j + n
      BY <2>2, <1>3 DEF IsInjective
    <3>2. QED
      BY <3>1, <1>1, <1>3
  <2>3. QED
    BY <2>1, <2>2 DEF IsInjective
<1>6. QED
  BY <1>1, <1>4, <1>5 DEF first, rest

(* RemoveEntry removes an element from a queue that has it once. *)
LEMMA RemoveFacts ==
    ASSUME NEW S, NEW s \in Seq(S), IsInjective(s), NEW b
    PROVE  /\ RemoveEntry(s, b) \in Seq(S) /\ Len(RemoveEntry(s, b)) <= Len(s)
           /\ ToSet(RemoveEntry(s, b)) = ToSet(s) \ {b}
           /\ IsInjective(RemoveEntry(s, b))
<1>1. CASE b \notin ToSet(s)
  BY <1>1 DEF RemoveEntry
<1>2. CASE b \in ToSet(s)
  <2> DEFINE k == CHOOSE i \in DOMAIN s : s[i] = b
             r == SubSeq(s, 1, k - 1) \o SubSeq(s, k + 1, Len(s))
  <2>1. k \in 1..Len(s) /\ s[k] = b /\ Len(s) \in Nat /\ DOMAIN s = 1..Len(s)
    BY <1>2 DEF ToSet
  <2>2. RemoveEntry(s, b) = r
    BY <1>2 DEF RemoveEntry, RemoveAt
  <2> HIDE DEF k
  <2>3. /\ SubSeq(s, 1, k - 1) \in Seq(S) /\ Len(SubSeq(s, 1, k - 1)) = k - 1
        /\ \A i \in 1..(k - 1) : SubSeq(s, 1, k - 1)[i] = s[i]
    BY <2>1, SubSeqProperties
  <2>4. /\ SubSeq(s, k + 1, Len(s)) \in Seq(S) /\ Len(SubSeq(s, k + 1, Len(s))) = Len(s) - k
        /\ \A i \in 1..(Len(s) - k) : SubSeq(s, k + 1, Len(s))[i] = s[i + k]
    <3>1. k + 1 \in 1..(Len(s) + 1) /\ Len(s) \in ((k + 1) - 1)..Len(s)
      BY <2>1
    <3>2. Len(s) - (k + 1) + 1 = Len(s) - k /\ \A i \in 1..(Len(s) - k) : (k + 1) + i - 1 = i + k
      BY <2>1
    <3>3. QED
      BY <3>1, <3>2, SubSeqProperties
  <2> DEFINE f == SubSeq(s, 1, k - 1)
             g == SubSeq(s, k + 1, Len(s))
  <2>5. /\ r \in Seq(S) /\ Len(r) = Len(s) - 1 /\ DOMAIN r = 1..(Len(s) - 1)
        /\ \A i \in 1..(Len(s) - 1) : r[i] = IF i < k THEN s[i] ELSE s[i + 1]
    <3>1. f \in Seq(S) /\ g \in Seq(S) /\ Len(f) = k - 1 /\ Len(g) = Len(s) - k /\ r = f \o g
      BY <2>3, <2>4
    <3> HIDE DEF f, g, r
    <3>2. r \in Seq(S) /\ Len(r) = Len(s) - 1
      <4>1. r \in Seq(S) /\ Len(r) = Len(f) + Len(g)
        BY <3>1, ConcatProperties
      <4>2. QED
        BY <4>1, <3>1, <2>1
    <3>3. ASSUME NEW i \in 1..(Len(s) - 1) PROVE r[i] = IF i < k THEN s[i] ELSE s[i + 1]
      <4>1. r[i] = IF i <= Len(f) THEN f[i] ELSE g[i - Len(f)]
        BY <2>1, <3>1, ConcatProperties
      <4>2. CASE i < k
        BY <4>1, <4>2, <2>1, <2>3, <3>1 DEF f
      <4>3. CASE i >= k
        <5>1. i - (k - 1) \in 1..(Len(s) - k) /\ (i - (k - 1)) + k = i + 1 /\ ~(i <= k - 1)
          BY <4>3, <2>1
        <5>2. g[i - (k - 1)] = s[(i - (k - 1)) + k]
          BY <5>1, <2>4 DEF g
        <5>3. r[i] = g[i - (k - 1)]
          BY <4>1, <5>1, <3>1
        <5>4. ~(i < k)
          BY <4>3, <2>1
        <5>5. QED
          BY <5>1, <5>2, <5>3, <5>4
      <4>4. QED
        BY <4>2, <4>3, <2>1
    <3>4. QED
      BY <3>2, <3>3
  <2> HIDE DEF r
  <2>6. ASSUME NEW i \in DOMAIN s, i # k PROVE s[i] \in ToSet(r)
    <3>1. CASE i < k
      BY <3>1, <2>1, <2>5 DEF ToSet
    <3>2. CASE i > k
      <4>1. i - 1 \in DOMAIN r /\ r[i - 1] = s[i]
        BY <3>2, <2>1, <2>5
      <4>2. QED
        BY <4>1 DEF ToSet
    <3>3. QED
      BY <3>1, <3>2, <2>1, <2>6
  <2> DEFINE at(i) == IF i < k THEN i ELSE i + 1
  <2>7. \A i \in DOMAIN r : at(i) \in DOMAIN s /\ at(i) # k /\ r[i] = s[at(i)]
    BY <2>1, <2>5
  <2>8. ToSet(r) = ToSet(s) \ {b}
    <3>1. \A i \in DOMAIN r : r[i] \in ToSet(s) /\ r[i] # b
      <4> SUFFICES ASSUME NEW i \in DOMAIN r PROVE r[i] \in ToSet(s) /\ r[i] # b
        OBVIOUS
      <4> HIDE DEF at
      <4>1. QED
        BY <2>1, <2>7 DEF ToSet, IsInjective
    <3>2. \A i \in DOMAIN s : s[i] # b => s[i] \in ToSet(r)
      BY <2>1, <2>6
    <3>3. QED
      BY <3>1, <3>2 DEF ToSet
  <2>9. IsInjective(r)
    <3>1. \A i, j \in DOMAIN r : at(i) = at(j) => i = j
      BY <2>1, <2>5
    <3> HIDE DEF at
    <3>2. QED
      BY <3>1, <2>7 DEF IsInjective
  <2>10. QED
    BY <2>1, <2>2, <2>5, <2>8, <2>9
<1>3. QED
  BY <1>1, <1>2

-----------------------------------------------------------------------------
(* The inductive invariant                                                 *)

(* What a block depends on is in the ledger with it. *)
LedgerClosed == \A b \in ledger : Chain[b] \subseteq ledger

(* What is left of the batch is current, and a current block is left, or    *)
(* cemented, or queued again.                                               *)
BatchInv ==
    /\ thread.evicted # << >> => thread.pc = "evict"
    /\ thread.pc \in {"top", "evict", "wait", "recovered"} => current = {}
    /\ thread.pc \in {"begin", "txn", "announce", "clear"} =>
          current \subseteq ToSet(thread.batch) \union cemented \union ToSet(deferred) \union ToSet(set)
    /\ thread.pc \in {"begin", "txn", "announce"} => ToSet(thread.batch) \subseteq current
    /\ thread.pc = "clear" => thread.batch = << >>

(* What is cemented and not announced is with the thread or in one event,   *)
(* and nothing else is.                                                     *)
AnnounceInv ==
    /\ thread.confirmed \subseteq cemented \ announced
    /\ \A i \in DOMAIN events : events[i].kind = "confirmed" =>
          /\ events[i].blocks \subseteq cemented \ (announced \union thread.confirmed)
          /\ \A j \in DOMAIN events : events[j].kind = "confirmed" /\ j # i =>
                events[i].blocks \intersect events[j].blocks = {}

IInv ==
    /\ TypeOK /\ LedgerClosed /\ BatchInv /\ AnnounceInv
    /\ DeferredIsRetried /\ RecentIsCared /\ CooldownEnds

-----------------------------------------------------------------------------
(* Types                                                                   *)

(* The invariant holds when the node starts. *)
LEMMA InitInv == Init => IInv
<1> SUFFICES ASSUME Init PROVE IInv
  OBVIOUS
<1>1. TypeOK
  <2>1. << >> \in Seq(Block) /\ << >> \in Seq(Events) /\ IsInjective(<< >>) /\ Len(<< >>) = 0
    BY ToSetEmpty, EmptySeq
  <2>2. thread \in Thread
    BY <2>1 DEF Init, Idle, Thread
  <2>3. MaxRecent \in Nat
    BY ConfirmingSetAssumption
  <2>4. /\ near_full \in BOOLEAN /\ cool_down \in BOOLEAN /\ signalled \in BOOLEAN
        /\ warning \in BOOLEAN /\ aec_cooldown \in BOOLEAN
    BY DEF Init
  <2>5. /\ set \in Seq(Block) /\ IsInjective(set) /\ deferred \in Seq(Block) /\ IsInjective(deferred)
        /\ recent \in Seq(Block) /\ IsInjective(recent) /\ elected \in Seq(Block)
        /\ events \in Seq(Events)
    BY <2>1, Zenon DEF Init
  <2>6. Len(recent) <= MaxRecent
    BY <2>1, <2>3 DEF Init
  <2>7. QED
    BY <2>2, <2>4, <2>5, <2>6 DEF Init, TypeOK
<1>2. LedgerClosed /\ BatchInv /\ AnnounceInv
  BY ToSetEmpty DEF Init, Idle, LedgerClosed, BatchInv, AnnounceInv
<1>3. DeferredIsRetried /\ RecentIsCared /\ CooldownEnds
  BY ToSetEmpty DEF Init, DeferredIsRetried, RecentIsCared, CooldownEnds
<1>4. QED
  BY <1>1, <1>2, <1>3 DEF IInv

(* The batch is the first part of the set. *)
LEMMA TakeFacts ==
    ASSUME TypeOK, Take
    PROVE  \/ /\ set = << >> /\ thread' = [Idle EXCEPT !.pc = "wait"]
              /\ set' = set /\ current' = current /\ near_full' = near_full /\ signalled' = signalled
           \/ \E batch \in Seq(Block), recovered \in BOOLEAN :
                 /\ set' \in Seq(Block) /\ IsInjective(set')
                 /\ ToSet(set) = ToSet(batch) \union ToSet(set')
                 /\ current' = ToSet(batch)
                 /\ near_full' \in BOOLEAN /\ signalled' = signalled
                 /\ thread' = [Idle EXCEPT !.pc = "begin", !.batch = batch, !.recovered = recovered]
<1>1. CASE set = << >>
  BY <1>1 DEF Take
<1>2. CASE set # << >>
  <2> DEFINE n == IF Len(set) < BatchSize THEN Len(set) ELSE BatchSize
             batch == SubSeq(set, 1, n)
             recovered == near_full /\ Len(set') < recovered_limit
  <2>1. n \in 0..Len(set)
    BY ConfirmingSetAssumption DEF TypeOK
  <2>2. /\ set' = SubSeq(set, n + 1, Len(set)) /\ current' = ToSet(batch)
        /\ near_full' = (near_full /\ ~ recovered) /\ signalled' = signalled
        /\ thread' = [Idle EXCEPT !.pc = "begin", !.batch = batch, !.recovered = recovered]
    BY <1>2 DEF Take
  <2> HIDE DEF n
  <2>3. /\ batch \in Seq(Block) /\ set' \in Seq(Block) /\ IsInjective(set')
        /\ ToSet(set) = ToSet(batch) \union ToSet(set')
    BY <2>1, <2>2, SplitFacts DEF TypeOK
  <2>4. recovered \in BOOLEAN /\ near_full' \in BOOLEAN
    BY <2>2
  <2> HIDE DEF batch, recovered
  <2>5. QED
    BY <2>2, <2>3, <2>4
<1>3. QED
  BY <1>1, <1>2

(* The thread's record keeps its type when fields of it change. *)
LEMMA ThreadFacts ==
    /\ Idle \in Thread /\ [Idle EXCEPT !.pc = "wait"] \in Thread
    /\ \A evicted \in Seq(Block) : [Idle EXCEPT !.pc = "evict", !.evicted = evicted] \in Thread
    /\ \A batch \in Seq(Block), recovered \in BOOLEAN :
          [Idle EXCEPT !.pc = "begin", !.batch = batch, !.recovered = recovered] \in Thread
    /\ \A t \in Thread :
          /\ t.evicted \in Seq(Block) /\ t.batch \in Seq(Block)
          /\ t.confirmed \subseteq Block /\ t.count \in Nat
          /\ \A pc \in {"top", "begin", "txn", "recovered"} : [t EXCEPT !.pc = pc] \in Thread
          /\ [t EXCEPT !.pc = "announce", !.count = 0] \in Thread
          /\ \A evicted \in Seq(Block) : [t EXCEPT !.evicted = evicted] \in Thread
          /\ \A batch \in Seq(Block) : [t EXCEPT !.batch = batch] \in Thread
          /\ \A pc \in {"clear", "begin"} : [t EXCEPT !.confirmed = {}, !.pc = pc] \in Thread
          /\ \A confirmed \in SUBSET Block, count \in Nat, batch \in Seq(Block) :
                [t EXCEPT !.confirmed = confirmed, !.count = count, !.batch = batch] \in Thread
<1>1. << >> \in Seq(Block)
  BY EmptySeq
<1>2. Idle \in Thread
  BY <1>1 DEF Idle, Thread
<1>3. QED
  BY <1>1, <1>2 DEF Thread, Idle

(* The set a transaction confirms is a set of blocks. *)
LEMMA ConfirmFacts ==
    ASSUME TypeOK, NEW b \in Block, NEW new \in ConfirmMax(b)
    PROVE  /\ new \subseteq Chain[b] \ cemented /\ new \subseteq Block /\ Cardinality(new) \in Nat
<1>1. new \subseteq Chain[b] \ cemented /\ Chain[b] \subseteq Block
  BY ConfirmingSetAssumption DEF ConfirmMax
<1>2. IsFiniteSet(new)
  BY <1>1, FS_Subset, ConfirmingSetAssumption
<1>3. QED
  BY <1>1, <1>2, FS_CardinalityType

(* Events stay events when one is sent or handled. *)
LEMMA EventFacts ==
    /\ \A b \in Block : Event("processed", {b}) \in Events /\ Event("failed", {b}) \in Events
    /\ \A blocks \in SUBSET Block :
          Event("confirmed", blocks) \in Events /\ Event("rolledBack", blocks) \in Events
    /\ Event("nearFull", {}) \in Events /\ Event("recovered", {}) \in Events
    /\ \A e \in Events : e.kind \in {"processed", "failed"} => \E b \in Block : e.blocks = {b}
    /\ \A e \in Events : e.blocks \subseteq Block /\ e = [kind |-> e.kind, blocks |-> e.blocks]
<1>1. \A e \in Events : e.kind \in {"processed", "failed"} => \E b \in Block : e.blocks = {b}
  BY DEF Events
<1>2. \A e \in Events : e.blocks \subseteq Block /\ e = [kind |-> e.kind, blocks |-> e.blocks]
  BY DEF Events
<1>3. \A b \in Block : Event("processed", {b}) \in Events /\ Event("failed", {b}) \in Events
  BY DEF Events, Event
<1>4. \A blocks \in SUBSET Block :
         Event("confirmed", blocks) \in Events /\ Event("rolledBack", blocks) \in Events
  BY DEF Events, Event
<1>5. Event("nearFull", {}) \in Events /\ Event("recovered", {}) \in Events
  BY DEF Events, Event
<1>6. QED
  BY <1>1, <1>2, <1>3, <1>4, <1>5

(* Every step keeps the types, and the ledger closed. *)
LEMMA TypeStep ==
    ASSUME TypeOK, LedgerClosed, AnnounceInv, Next
    PROVE  TypeOK' /\ LedgerClosed'
<1> USE DEF ledgerVars, setVars, aecVars, channelVars
<1>1. ASSUME NEW b \in Winner, Elect(b) PROVE TypeOK' /\ LedgerClosed'
  <2>1. b \in Block /\ b \notin ToSet(recent)
    BY <1>1, ConfirmingSetAssumption DEF Elect
  <2>2. recent' \in Seq(Block) /\ IsInjective(recent') /\ Len(recent') <= MaxRecent
    <3> DEFINE all == Append(recent, b)
    <3>1. all \in Seq(Block) /\ IsInjective(all) /\ all # << >> /\ Len(all) = Len(recent) + 1
      BY <2>1, AppendFacts DEF TypeOK
    <3>2. recent' = IF Len(all) > MaxRecent THEN Tail(all) ELSE all
      BY <1>1 DEF Elect
    <3> HIDE DEF all
    <3>3. Tail(all) \in Seq(Block) /\ IsInjective(Tail(all)) /\ Len(Tail(all)) = Len(all) - 1
      BY <3>1, HeadTailFacts
    <3>4. Len(recent) \in Nat /\ MaxRecent \in Nat /\ Len(recent) <= MaxRecent
      BY ConfirmingSetAssumption DEF TypeOK
    <3>5. QED
      BY <3>1, <3>2, <3>3, <3>4
  <2>3. elected' \in Seq(Block)
    BY <1>1, <2>1, AppendFacts DEF Elect, TypeOK
  <2>4. QED
    BY <1>1, <2>2, <2>3 DEF Elect, TypeOK, LedgerClosed
<1>2. CASE Add
  <2>1. Head(elected) \in Block /\ elected' \in Seq(Block)
    BY <1>2, HeadTailFacts DEF Add, TypeOK
  <2>2. set' \in Seq(Block) /\ IsInjective(set')
    BY <1>2, <2>1, PushBackFacts DEF Add, TypeOK
  <2>3. signalled' \in BOOLEAN /\ near_full' \in BOOLEAN /\ warning' \in BOOLEAN
    BY <1>2 DEF Add, TypeOK, NotifyAll
  <2>4. QED
    BY <1>2, <2>1, <2>2, <2>3 DEF Add, TypeOK, LedgerClosed
<1>3. CASE SendNearFull
  <2>1. events' \in Seq(Events)
    BY <1>3, EventFacts, AppendFacts DEF SendNearFull, Send, TypeOK
  <2>2. QED
    BY <1>3, <2>1 DEF SendNearFull, TypeOK, LedgerClosed
<1>4. ASSUME Take, deferred' \in Seq(Block), IsInjective(deferred'),
             UNCHANGED <<ledgerVars, cool_down, aecVars, taken, unsent, channelVars>>
      PROVE  TypeOK' /\ LedgerClosed'
  <2>1. /\ set' \in Seq(Block) /\ IsInjective(set') /\ current' \subseteq Block
        /\ near_full' \in BOOLEAN /\ signalled' \in BOOLEAN
        /\ thread' \in Thread
    <3>1. \A batch \in Seq(Block) : ToSet(batch) \subseteq Block
      BY ToSetType
    <3>2. QED
      BY <1>4, <3>1, TakeFacts, ThreadFacts DEF TypeOK
  <2>2. QED
    BY <1>4, <2>1 DEF TypeOK, LedgerClosed
<1>5. CASE Loop
  <2>1. PICK n \in Cleanup :
          IF n > 0
          THEN /\ thread' = [Idle EXCEPT !.pc = "evict", !.evicted = SubSeq(deferred, 1, n)]
               /\ deferred' = SubSeq(deferred, n + 1, Len(deferred))
               /\ UNCHANGED <<set, current, near_full, signalled>>
          ELSE Take /\ UNCHANGED deferred
    BY <1>5 DEF Loop
  <2>2. CASE n > 0
    <3>1. n \in 0..Len(deferred) /\ deferred \in Seq(Block) /\ IsInjective(deferred)
      BY DEF Cleanup, TypeOK
    <3>2. /\ SubSeq(deferred, 1, n) \in Seq(Block)
          /\ deferred' \in Seq(Block) /\ IsInjective(deferred')
      <4>1. deferred' = SubSeq(deferred, n + 1, Len(deferred))
        BY <2>1, <2>2
      <4>2. /\ SubSeq(deferred, 1, n) \in Seq(Block)
            /\ SubSeq(deferred, n + 1, Len(deferred)) \in Seq(Block)
            /\ IsInjective(SubSeq(deferred, n + 1, Len(deferred)))
        BY <3>1, SplitFacts
      <4>3. QED
        BY <4>1, <4>2
    <3>3. thread' \in Thread
      BY <2>1, <2>2, <3>2, ThreadFacts
    <3>4. QED
      BY <1>5, <2>1, <2>2, <3>2, <3>3 DEF Loop, TypeOK, LedgerClosed
  <2>3. CASE ~ n > 0
    BY <1>4, <1>5, <2>1, <2>3 DEF Loop, TypeOK
  <2>4. QED
    BY <2>2, <2>3
<1>6. CASE NotifyEvicted
  <2>1. Head(thread.evicted) \in Block /\ Tail(thread.evicted) \in Seq(Block)
    BY <1>6, HeadTailFacts, ThreadFacts DEF NotifyEvicted, TypeOK
  <2>2. events' \in Seq(Events)
    <3>1. Event("failed", {Head(thread.evicted)}) \in Events /\ events \in Seq(Events)
      BY <2>1, EventFacts DEF TypeOK
    <3>2. QED
      BY <1>6, <3>1, AppendFacts DEF NotifyEvicted, Send
  <2>3. QED
    BY <1>6, <2>1, <2>2, ThreadFacts DEF NotifyEvicted, TypeOK, LedgerClosed
<1>7. CASE TakeAfterEviction
  BY <1>4, <1>7 DEF TakeAfterEviction, TypeOK
<1>8. CASE Wake \/ WaitOn \/ BeginWrite \/ Refresh
  BY <1>8, ThreadFacts DEF Wake, WaitOn, BeginWrite, Refresh, TypeOK, LedgerClosed
<1>9. CASE CementBlock
  <2>1. Head(thread.batch) \in Block /\ Tail(thread.batch) \in Seq(Block)
    BY <1>9, HeadTailFacts, ThreadFacts DEF CementBlock, TypeOK
  <2>2. PICK new \in ConfirmMax(Head(thread.batch)) :
          /\ cemented' = cemented \union new
          /\ thread' = [thread EXCEPT !.confirmed = @ \union new,
                                      !.count = @ + Cardinality(new),
                                      !.batch = IF Head(@) \in cemented' THEN Tail(@) ELSE @]
    BY <1>9 DEF CementBlock
  <2>3. new \subseteq ledger /\ new \subseteq Block /\ Cardinality(new) \in Nat
    BY <1>9, <2>1, ConfirmFacts DEF CementBlock, LedgerClosed
  <2>4. thread' \in Thread
    <3>1. /\ thread.confirmed \union new \in SUBSET Block /\ thread.count + Cardinality(new) \in Nat
          /\ (IF Head(thread.batch) \in cemented' THEN Tail(thread.batch) ELSE thread.batch) \in Seq(Block)
      <4>1. thread.confirmed \subseteq Block /\ thread.count \in Nat /\ thread.batch \in Seq(Block)
        BY ThreadFacts DEF TypeOK
      <4>2. QED
        BY <2>1, <2>3, <4>1
    <3>2. QED
      BY <2>2, <3>1, ThreadFacts DEF TypeOK
  <2>5. QED
    BY <1>9, <2>2, <2>3, <2>4 DEF CementBlock, TypeOK, LedgerClosed
<1>10. CASE DeferMissing
  <2>1. Head(thread.batch) \in Block /\ Tail(thread.batch) \in Seq(Block)
    BY <1>10, HeadTailFacts, ThreadFacts DEF DeferMissing, TypeOK
  <2>2. deferred' \in Seq(Block) /\ IsInjective(deferred')
    BY <1>10, <2>1, PushBackFacts DEF DeferMissing, TypeOK
  <2>3. QED
    BY <1>10, <2>1, <2>2, ThreadFacts DEF DeferMissing, TypeOK, LedgerClosed
<1>11. CASE Commit \/ ClearCurrent
  BY <1>11, ThreadFacts DEF Commit, ClearCurrent, TypeOK, LedgerClosed
<1>12. CASE AnnounceConfirmed
  <2>1. events' \in Seq(Events)
    <3>1. thread.confirmed \in SUBSET Block /\ events \in Seq(Events)
      BY ThreadFacts DEF TypeOK
    <3>2. Event("confirmed", thread.confirmed) \in Events
      BY <3>1, EventFacts
    <3>3. QED
      BY <1>12, <3>1, <3>2, AppendFacts DEF AnnounceConfirmed, Send
  <2>2. QED
    BY <1>12, <2>1, ThreadFacts DEF AnnounceConfirmed, TypeOK, LedgerClosed
<1>13. CASE SendRecovered
  <2>1. events' \in Seq(Events)
    BY <1>13, EventFacts, AppendFacts DEF SendRecovered, Send, TypeOK
  <2>2. QED
    BY <1>13, <2>1, ThreadFacts DEF SendRecovered, TypeOK, LedgerClosed
<1>14. ASSUME NEW kind \in {"processed", "rolledBack"}, TakeWork(kind) PROVE TypeOK' /\ LedgerClosed'
  BY <1>14 DEF TakeWork, TypeOK, LedgerClosed
<1>15. ASSUME NEW b \in Block, ProcessBlock(b) PROVE TypeOK' /\ LedgerClosed'
  <2>1. unsent' \subseteq {e \in Events : e.kind \in {"processed", "rolledBack"}}
    <3>1. Event("processed", {b}) \in Events /\ Event("processed", {b}).kind = "processed"
      BY EventFacts DEF Event
    <3>2. unsent' = unsent \union {Event("processed", {b})}
      BY <1>15 DEF ProcessBlock, Write
    <3>3. QED
      BY <3>1, <3>2 DEF TypeOK
  <2>2. LedgerClosed'
    BY <1>15 DEF ProcessBlock, Write, LedgerClosed
  <2>3. QED
    BY <1>15, <2>1, <2>2 DEF ProcessBlock, Write, TypeOK
<1>16. ASSUME NEW b \in Block, RollBack(b) PROVE TypeOK' /\ LedgerClosed'
  <2> DEFINE dependents == {c \in ledger : b \in Chain[c]}
             removed == IF dependents \intersect cemented = {} THEN dependents ELSE {}
  <2>1. ledger' = ledger \ removed /\ removed \subseteq Block /\ removed \intersect cemented = {}
    BY <1>16 DEF RollBack, TypeOK
  <2>2. unsent' \subseteq {e \in Events : e.kind \in {"processed", "rolledBack"}}
    <3>1. Event("rolledBack", removed) \in Events /\ Event("rolledBack", removed).kind = "rolledBack"
      BY <2>1, EventFacts DEF Event
    <3>2. unsent' \subseteq unsent \union {Event("rolledBack", removed)}
      BY <1>16 DEF RollBack, Write
    <3> HIDE DEF removed
    <3>3. QED
      BY <3>1, <3>2 DEF TypeOK
  <2>3. LedgerClosed'
    <3>1. ASSUME NEW c \in ledger', NEW d \in Chain[c] PROVE d \in ledger'
      <4>1. c \in ledger /\ c \in Block /\ d \in ledger /\ d \in Block /\ Chain[d] \subseteq Chain[c]
        BY <2>1, <3>1, ConfirmingSetAssumption DEF LedgerClosed, TypeOK
      <4>2. QED
        BY <2>1, <3>1, <4>1
    <3>2. QED
      BY <3>1 DEF LedgerClosed
  <2>4. QED
    BY <1>16, <2>1, <2>2, <2>3 DEF RollBack, Write, TypeOK
<1>17. ASSUME NEW kind \in {"processed", "rolledBack"}, SendResults(kind) PROVE TypeOK' /\ LedgerClosed'
  <2>1. PICK event \in unsent : unsent' = unsent \ {event} /\ events' = Append(events, event)
    BY <1>17 DEF SendResults, Send
  <2>2. events' \in Seq(Events)
    BY <2>1, AppendFacts DEF TypeOK
  <2>3. QED
    BY <1>17, <2>1, <2>2 DEF SendResults, TypeOK, LedgerClosed
<1>18. CASE ProcessEvent
  <2>1. Head(events) \in Events /\ events' \in Seq(Events) /\ Len(events') \in Nat
    BY <1>18, HeadTailFacts DEF ProcessEvent, TypeOK
  <2>2. /\ deferred' \in Seq(Block) /\ IsInjective(deferred')
        /\ set' \in Seq(Block) /\ IsInjective(set')
    <3>1. CASE Head(events).kind = "processed"
      <4>1. PICK b \in Block : RequeueBlock(b)
        BY <1>18, <2>1, <3>1, EventFacts DEF ProcessEvent, Handle
      <4>2. QED
        BY <4>1, PushBackFacts, RemoveFacts DEF RequeueBlock, TypeOK
    <3>2. CASE Head(events).kind # "processed"
      BY <1>18, <3>2 DEF ProcessEvent, Handle, TypeOK
    <3>3. QED
      BY <3>1, <3>2
  <2>3. recent' \in Seq(Block) /\ IsInjective(recent') /\ Len(recent') <= MaxRecent
    <3>1. CASE Head(events).kind = "failed"
      <4>1. PICK b \in Block : recent' = RemoveEntry(recent, b)
        BY <1>18, <2>1, <3>1, EventFacts DEF ProcessEvent, Handle
      <4>2. recent' \in Seq(Block) /\ IsInjective(recent') /\ Len(recent') <= Len(recent)
        BY <4>1, RemoveFacts DEF TypeOK
      <4>3. Len(recent) \in Nat /\ Len(recent') \in Nat /\ MaxRecent \in Nat /\ Len(recent) <= MaxRecent
        BY <4>2, ConfirmingSetAssumption DEF TypeOK
      <4>4. QED
        BY <4>2, <4>3
    <3>2. CASE Head(events).kind # "failed"
      BY <1>18, <3>2 DEF ProcessEvent, Handle, TypeOK
    <3>3. QED
      BY <3>1, <3>2
  <2>4. announced' \subseteq cemented'
    <3>1. 1 \in DOMAIN events /\ Head(events) = events[1]
      BY <1>18 DEF ProcessEvent, TypeOK
    <3>2. QED
      BY <1>18, <3>1 DEF ProcessEvent, Handle, TypeOK, AnnounceInv
  <2>5. cool_down' \in BOOLEAN /\ aec_cooldown' \in BOOLEAN /\ signalled' \in BOOLEAN
    <3>1. cool_down' \in BOOLEAN
      <4>1. \/ cool_down' = (Len(events') > SoftLimit \div 2)
            \/ cool_down' = (Len(events') >= SoftLimit)
        BY <1>18 DEF ProcessEvent, ShouldCoolDown
      <4>2. /\ (Len(events') > SoftLimit \div 2) \in BOOLEAN
            /\ (Len(events') >= SoftLimit) \in BOOLEAN
        OBVIOUS
      <4>3. QED
        BY <4>1, <4>2, Zenon
    <3>2. signalled' \in BOOLEAN
      BY <1>18 DEF ProcessEvent, NotifyAll, TypeOK
    <3>3. aec_cooldown' \in {TRUE, FALSE, aec_cooldown}
      BY <1>18 DEF ProcessEvent, Handle
    <3>4. QED
      BY <3>1, <3>2, <3>3 DEF TypeOK
  <2>6. QED
    BY <1>18, <2>1, <2>2, <2>3, <2>4, <2>5 DEF ProcessEvent, TypeOK, LedgerClosed
<1>19. QED
  BY <1>1, <1>2, <1>3, <1>5, <1>6, <1>7, <1>8, <1>9, <1>10, <1>11, <1>12, <1>13, <1>14, <1>15, <1>16,
     <1>17, <1>18 DEF Next, AecEventStep, CementingStep


(* A ledger event moves deferred blocks to the set, and only for a processed *)
(* block.                                                                    *)
LEMMA RequeueFacts ==
    ASSUME TypeOK, ProcessEvent
    PROVE  /\ ToSet(deferred) \union ToSet(set) = ToSet(deferred') \union ToSet(set')
           /\ ToSet(deferred') \subseteq ToSet(deferred)
           /\ Head(events).kind = "processed" =>
                 \A b \in Head(events).blocks : b \notin ToSet(deferred')
<1>1. Head(events) \in Events
  BY HeadTailFacts DEF ProcessEvent, TypeOK
<1>2. CASE Head(events).kind = "processed"
  <2>1. PICK b \in Block : Head(events).blocks = {b}
    BY <1>1, <1>2, EventFacts
  <2>2. /\ deferred' = RemoveEntry(deferred, b)
        /\ set' = IF b \in ToSet(deferred) THEN PushBack(set, b) ELSE set
    BY <1>2, <2>1 DEF ProcessEvent, Handle, RequeueBlock
  <2>3. ToSet(deferred') = ToSet(deferred) \ {b}
    BY <2>2, RemoveFacts DEF TypeOK
  <2>4. ToSet(PushBack(set, b)) = ToSet(set) \union {b}
    BY PushBackFacts DEF TypeOK
  <2>5. QED
    BY <2>1, <2>2, <2>3, <2>4
<1>3. CASE Head(events).kind # "processed"
  BY <1>3 DEF ProcessEvent, Handle
<1>4. QED
  BY <1>2, <1>3

-----------------------------------------------------------------------------
(* The batch                                                               *)

(* The thread starts a batch with what it takes, and with nothing else. *)
LEMMA TakeBatch ==
    ASSUME TypeOK, BatchInv, Take, thread.pc \in {"top", "evict"}
    PROVE  BatchInv' /\ thread'.evicted = << >> /\ current = {}
           /\ ToSet(set) = current' \union ToSet(set') /\ thread'.confirmed = {}
<1>1. current = {}
  BY DEF BatchInv
<1>2. CASE /\ set = << >> /\ thread' = [Idle EXCEPT !.pc = "wait"]
           /\ set' = set /\ current' = current
  <2>1. thread'.pc = "wait" /\ thread'.evicted = << >> /\ thread'.confirmed = {}
    BY <1>2 DEF Idle
  <2>2. QED
    BY <1>1, <1>2, <2>1 DEF BatchInv
<1>3. ASSUME NEW batch \in Seq(Block), NEW recovered \in BOOLEAN,
             ToSet(set) = ToSet(batch) \union ToSet(set'), current' = ToSet(batch),
             thread' = [Idle EXCEPT !.pc = "begin", !.batch = batch, !.recovered = recovered]
      PROVE  BatchInv' /\ thread'.evicted = << >> /\ ToSet(set) = current' \union ToSet(set')
             /\ thread'.confirmed = {}
  <2>1. /\ thread'.pc = "begin" /\ thread'.evicted = << >> /\ thread'.batch = batch
        /\ thread'.confirmed = {}
    BY <1>3 DEF Idle
  <2>2. QED
    BY <1>3, <2>1 DEF BatchInv
<1>4. QED
  BY <1>1, <1>2, <1>3, TakeFacts

(* What cleanup() evicts leaves the deferred blocks; without an eviction the *)
(* next batch is taken.                                                      *)
LEMMA LoopFacts ==
    ASSUME TypeOK, BatchInv, Loop
    PROVE  \/ /\ Take /\ deferred' = deferred
           \/ /\ thread'.pc = "evict" /\ thread'.confirmed = {}
              /\ thread'.evicted \in Seq(Block)
              /\ ToSet(deferred) = ToSet(thread'.evicted) \union ToSet(deferred')
              /\ set' = set /\ current' = current
<1>1. PICK n \in Cleanup :
        IF n > 0
        THEN /\ thread' = [Idle EXCEPT !.pc = "evict", !.evicted = SubSeq(deferred, 1, n)]
             /\ deferred' = SubSeq(deferred, n + 1, Len(deferred))
             /\ UNCHANGED <<set, current, near_full, signalled>>
        ELSE Take /\ UNCHANGED deferred
  BY DEF Loop
<1>2. CASE n > 0
  <2>1. /\ thread' = [Idle EXCEPT !.pc = "evict", !.evicted = SubSeq(deferred, 1, n)]
        /\ deferred' = SubSeq(deferred, n + 1, Len(deferred))
        /\ set' = set /\ current' = current
    BY <1>1, <1>2
  <2>2. n \in 0..Len(deferred) /\ deferred \in Seq(Block)
    BY DEF Cleanup, TypeOK
  <2>3. /\ SubSeq(deferred, 1, n) \in Seq(Block)
        /\ ToSet(deferred) = ToSet(SubSeq(deferred, 1, n))
                             \union ToSet(SubSeq(deferred, n + 1, Len(deferred)))
    BY <2>2, SplitFacts
  <2>4. /\ thread'.pc = "evict" /\ thread'.evicted = SubSeq(deferred, 1, n)
        /\ thread'.confirmed = {}
    BY <2>1 DEF Idle
  <2>5. QED
    BY <2>1, <2>3, <2>4
<1>3. CASE ~ n > 0
  BY <1>1, <1>3
<1>4. QED
  BY <1>2, <1>3

(* Every step keeps the batch in care. *)
LEMMA BatchStep ==
    ASSUME TypeOK, BatchInv, Next
    PROVE  BatchInv'
<1> USE DEF ledgerVars, setVars, aecVars, channelVars
<1>1. CASE UNCHANGED <<thread, current, cemented, deferred, set>>
  BY <1>1 DEF BatchInv
<1>2. CASE Add
  <2>1. ToSet(set) \subseteq ToSet(set')
    <3>1. Head(elected) \in Block /\ set' = PushBack(set, Head(elected)) /\ set \in Seq(Block)
      BY <1>2, HeadTailFacts DEF Add, TypeOK
    <3>2. QED
      BY <3>1, PushBackFacts
  <2>2. QED
    BY <1>2, <2>1 DEF Add, BatchInv
<1>3. CASE Loop
  <2>1. CASE Take /\ deferred' = deferred
    BY <1>3, <2>1, TakeBatch DEF Loop
  <2>2. CASE thread'.pc = "evict" /\ current' = current
    BY <1>3, <2>2 DEF Loop, BatchInv
  <2>3. QED
    BY <1>3, <2>1, <2>2, LoopFacts
<1>4. CASE NotifyEvicted
  <2>1. thread'.pc = "evict" /\ current' = current
    BY <1>4 DEF NotifyEvicted, TypeOK, Thread
  <2>2. QED
    BY <1>4, <2>1 DEF NotifyEvicted, BatchInv
<1>5. CASE TakeAfterEviction
  BY <1>5, TakeBatch DEF TakeAfterEviction
<1>6. CASE Wake \/ SendRecovered
  <2>1. thread'.pc = "top" /\ thread'.evicted = << >> /\ current' = current
    BY <1>6 DEF Wake, SendRecovered, Idle
  <2>2. QED
    BY <1>6, <2>1 DEF Wake, SendRecovered, BatchInv
<1>7. CASE BeginWrite \/ Refresh \/ Commit
  <2>1. /\ thread'.evicted = thread.evicted /\ thread'.batch = thread.batch
        /\ thread.pc \in {"begin", "txn"} /\ thread'.pc \in {"begin", "txn", "announce"}
    BY <1>7 DEF BeginWrite, Refresh, Commit, TypeOK, Thread
  <2>2. UNCHANGED <<current, cemented, deferred, set>>
    BY <1>7 DEF BeginWrite, Refresh, Commit
  <2>3. QED
    BY <2>1, <2>2 DEF BatchInv
<1>8. CASE CementBlock
  <2>1. PICK new \in ConfirmMax(Head(thread.batch)) :
          /\ cemented' = cemented \union new
          /\ thread' = [thread EXCEPT !.confirmed = @ \union new,
                                      !.count = @ + Cardinality(new),
                                      !.batch = IF Head(@) \in cemented' THEN Tail(@) ELSE @]
    BY <1>8 DEF CementBlock
  <2>2. /\ thread.pc = "txn" /\ thread'.pc = "txn" /\ thread'.evicted = thread.evicted
        /\ thread'.batch = IF Head(thread.batch) \in cemented' THEN Tail(thread.batch)
                                                               ELSE thread.batch
    BY <1>8, <2>1 DEF CementBlock, TypeOK, Thread
  <2>3. ToSet(thread.batch) = {Head(thread.batch)} \union ToSet(Tail(thread.batch))
    BY <1>8, HeadTailFacts, ThreadFacts DEF CementBlock, TypeOK
  <2>4. UNCHANGED <<current, deferred, set>>
    BY <1>8 DEF CementBlock
  <2>5. QED
    BY <2>1, <2>2, <2>3, <2>4 DEF BatchInv
<1>9. CASE DeferMissing
  <2>1. /\ Head(thread.batch) \in Block
        /\ ToSet(thread.batch) = {Head(thread.batch)} \union ToSet(Tail(thread.batch))
    BY <1>9, HeadTailFacts, ThreadFacts DEF DeferMissing, TypeOK
  <2>2. ToSet(deferred') = ToSet(deferred) \union {Head(thread.batch)}
    <3>1. deferred' = PushBack(deferred, Head(thread.batch)) /\ deferred \in Seq(Block)
      BY <1>9 DEF DeferMissing, TypeOK
    <3>2. QED
      BY <2>1, <3>1, PushBackFacts
  <2>3. /\ thread.pc = "txn" /\ thread'.pc = "txn" /\ thread'.evicted = thread.evicted
        /\ thread'.batch = Tail(thread.batch)
    BY <1>9 DEF DeferMissing, TypeOK, Thread
  <2>4. UNCHANGED <<current, cemented, set>>
    BY <1>9 DEF DeferMissing
  <2>5. QED
    BY <2>1, <2>2, <2>3, <2>4 DEF BatchInv
<1>10. CASE AnnounceConfirmed
  <2>1. /\ thread.pc = "announce" /\ thread'.evicted = thread.evicted
        /\ thread'.batch = thread.batch
        /\ thread'.pc = IF thread.batch = << >> THEN "clear" ELSE "begin"
    BY <1>10 DEF AnnounceConfirmed, TypeOK, Thread
  <2>2. UNCHANGED <<current, cemented, deferred, set>>
    BY <1>10 DEF AnnounceConfirmed
  <2>3. QED
    BY <2>1, <2>2 DEF BatchInv
<1>11. CASE ClearCurrent
  <2>1. /\ thread.pc = "clear" /\ thread'.evicted = thread.evicted
        /\ thread'.pc \in {"top", "recovered"} /\ current' = {}
    BY <1>11 DEF ClearCurrent, TypeOK, Thread
  <2>2. QED
    BY <2>1 DEF BatchInv
<1>12. CASE ProcessEvent
  <2>1. ToSet(deferred) \union ToSet(set) = ToSet(deferred') \union ToSet(set')
    BY <1>12, RequeueFacts
  <2>2. UNCHANGED <<thread, current, cemented>>
    BY <1>12 DEF ProcessEvent
  <2>3. QED
    BY <2>1, <2>2 DEF BatchInv
<1>13. QED
  BY <1>1, <1>2, <1>3, <1>4, <1>5, <1>6, <1>7, <1>8, <1>9, <1>10, <1>11, <1>12
  DEF Next, AecEventStep, CementingStep, Elect, SendNearFull, WaitOn, TakeWork, SendResults,
      ProcessBlock, RollBack, Write
=============================================================================
