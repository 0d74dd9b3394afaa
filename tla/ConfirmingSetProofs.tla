------------------------- MODULE ConfirmingSetProofs -------------------------
(***************************************************************************)
(* The confirming set implements Confirmation and keeps its invariants,    *)
(* for any blocks, dependencies and limits.                                *)
(***************************************************************************)
EXTENDS ConfirmingSetLemmas

-----------------------------------------------------------------------------
(* Announcements                                                           *)

(* A sent event is the last one of the channel. *)
LEMMA SendFacts ==
    ASSUME TypeOK, NEW e \in Events, Send(e)
    PROVE  /\ events' # << >> /\ ToSet(events') = ToSet(events) \union {e}
           /\ \A i \in DOMAIN events' :
                 \/ i \in DOMAIN events /\ events'[i] = events[i]
                 \/ i = Len(events) + 1 /\ events'[i] = e
<1>1. events \in Seq(Events) /\ events' = Append(events, e)
  BY DEF TypeOK, Send
<1>2. QED
  BY <1>1, AppendFacts

(* An event that confirms nothing leaves the announcements alone. *)
LEMMA SendOther ==
    ASSUME TypeOK, AnnounceInv, NEW e \in Events, e.kind # "confirmed", Send(e),
           UNCHANGED <<cemented, announced>>, thread'.confirmed = thread.confirmed
    PROVE  AnnounceInv'
<1>1. \A i \in DOMAIN events' : events'[i].kind = "confirmed" =>
         i \in DOMAIN events /\ events'[i] = events[i]
  BY SendFacts
<1>2. QED
  BY <1>1 DEF AnnounceInv

(* Without an event, and with nothing newly confirmed, they stay as well. *)
LEMMA SendNothing ==
    ASSUME AnnounceInv, UNCHANGED <<events, cemented, announced>>,
           thread'.confirmed \subseteq thread.confirmed
    PROVE  AnnounceInv'
BY DEF AnnounceInv


(* Every confirmation is announced once. *)
LEMMA AnnounceStep ==
    ASSUME TypeOK, BatchInv, AnnounceInv, Next
    PROVE  AnnounceInv'
<1> USE DEF ledgerVars, setVars, aecVars, channelVars
<1>1. CASE UNCHANGED <<thread, events, cemented, announced>>
  BY <1>1 DEF AnnounceInv
<1>2. CASE SendNearFull
  <2>1. Event("nearFull", {}) \in Events /\ Event("nearFull", {}).kind = "nearFull"
    BY EventFacts DEF Event
  <2>2. QED
    BY <1>2, <2>1, SendOther DEF SendNearFull
<1>3. CASE Loop \/ TakeAfterEviction
  <2>1. thread'.confirmed = {} /\ UNCHANGED <<events, cemented, announced>>
    BY <1>3, LoopFacts, TakeBatch DEF Loop, TakeAfterEviction
  <2>2. QED
    BY <2>1, SendNothing
<1>4. CASE NotifyEvicted
  <2> DEFINE e == Event("failed", {Head(thread.evicted)})
  <2>1. Head(thread.evicted) \in Block
    BY <1>4, HeadTailFacts, ThreadFacts DEF NotifyEvicted, TypeOK
  <2>2. e \in Events /\ e.kind = "failed"
    BY <2>1, EventFacts DEF Event
  <2>3. Send(e) /\ thread'.confirmed = thread.confirmed /\ UNCHANGED <<cemented, announced>>
    BY <1>4 DEF NotifyEvicted, TypeOK, Thread
  <2> HIDE DEF e
  <2>4. QED
    BY <2>2, <2>3, SendOther
<1>5. CASE Wake
  <2>1. thread'.confirmed = {} /\ UNCHANGED <<events, cemented, announced>>
    BY <1>5 DEF Wake, Idle
  <2>2. QED
    BY <2>1, SendNothing
<1>6. CASE BeginWrite \/ Refresh \/ Commit \/ DeferMissing \/ ClearCurrent
  <2>1. thread'.confirmed = thread.confirmed /\ UNCHANGED <<events, cemented, announced>>
    BY <1>6 DEF BeginWrite, Refresh, Commit, DeferMissing, ClearCurrent, TypeOK, Thread
  <2>2. QED
    BY <2>1, SendNothing
<1>7. CASE CementBlock
  <2>1. Head(thread.batch) \in Block
    BY <1>7, HeadTailFacts, ThreadFacts DEF CementBlock, TypeOK
  <2>2. PICK new \in ConfirmMax(Head(thread.batch)) :
          /\ cemented' = cemented \union new
          /\ thread' = [thread EXCEPT !.confirmed = @ \union new,
                                      !.count = @ + Cardinality(new),
                                      !.batch = IF Head(@) \in cemented' THEN Tail(@) ELSE @]
    BY <1>7 DEF CementBlock
  <2>3. new \intersect cemented = {}
    BY <2>1, ConfirmFacts
  <2>4. thread'.confirmed = thread.confirmed \union new /\ UNCHANGED <<events, announced>>
    BY <1>7, <2>2 DEF CementBlock, TypeOK, Thread
  <2>5. announced \subseteq cemented
    BY DEF TypeOK
  <2>6. QED
    BY <2>2, <2>3, <2>4, <2>5 DEF AnnounceInv
<1>8. CASE AnnounceConfirmed
  <2> DEFINE e == Event("confirmed", thread.confirmed)
  <2>1. thread'.confirmed = {} /\ UNCHANGED <<cemented, announced>>
    BY <1>8 DEF AnnounceConfirmed, TypeOK, Thread
  <2>2. CASE thread.confirmed = {}
    BY <1>8, <2>1, <2>2, SendNothing DEF AnnounceConfirmed
  <2>3. CASE thread.confirmed # {}
    <3>1. thread.confirmed \in SUBSET Block
      BY ThreadFacts DEF TypeOK
    <3>2. e \in Events /\ e.kind = "confirmed" /\ e.blocks = thread.confirmed
      BY <3>1, EventFacts DEF Event
    <3>3. Send(e)
      BY <1>8, <2>3 DEF AnnounceConfirmed
    <3> HIDE DEF e
    <3>4. \A i \in DOMAIN events' :
             \/ i \in DOMAIN events /\ events'[i] = events[i]
             \/ i = Len(events) + 1 /\ events'[i] = e
      BY <3>2, <3>3, SendFacts
    <3>5. ASSUME NEW i \in DOMAIN events', events'[i].kind = "confirmed"
          PROVE  /\ events'[i].blocks \subseteq cemented \ announced
                 /\ \A j \in DOMAIN events' : events'[j].kind = "confirmed" /\ j # i =>
                       events'[i].blocks \intersect events'[j].blocks = {}
      BY <3>2, <3>4, <3>5 DEF AnnounceInv
    <3>6. QED
      BY <2>1, <3>5 DEF AnnounceInv
  <2>4. QED
    BY <2>2, <2>3
<1>9. CASE SendRecovered
  <2>1. Event("recovered", {}) \in Events /\ Event("recovered", {}).kind = "recovered"
    BY EventFacts DEF Event
  <2>2. thread'.confirmed = {} /\ UNCHANGED <<cemented, announced>>
    BY <1>9 DEF SendRecovered, Idle
  <2>3. Send(Event("recovered", {}))
    BY <1>9 DEF SendRecovered
  <2>4. \A i \in DOMAIN events' : events'[i].kind = "confirmed" =>
           i \in DOMAIN events /\ events'[i] = events[i]
    BY <2>1, <2>3, SendFacts
  <2>5. QED
    BY <2>2, <2>4 DEF AnnounceInv
<1>10. ASSUME NEW kind \in {"processed", "rolledBack"}, SendResults(kind) PROVE AnnounceInv'
  <2>1. PICK e \in unsent : e.kind = kind /\ Send(e) /\ UNCHANGED <<thread, cemented, announced>>
    BY <1>10 DEF SendResults
  <2>2. e \in Events /\ e.kind # "confirmed"
    BY <2>1 DEF TypeOK
  <2>3. QED
    BY <2>1, <2>2, SendOther
<1>11. CASE ProcessEvent
  <2>1. /\ 1 \in DOMAIN events /\ Head(events) = events[1]
        /\ \A i \in DOMAIN events' : i + 1 \in DOMAIN events /\ events'[i] = events[i + 1]
                                     /\ i \in Int /\ i + 1 # 1
    <3>1. events \in Seq(Events) /\ events # << >> /\ events' = Tail(events)
      BY <1>11 DEF ProcessEvent, TypeOK
    <3>2. QED
      BY <3>1
  <2>2. UNCHANGED <<thread, cemented>>
    BY <1>11 DEF ProcessEvent
  <2>3. announced' = IF events[1].kind = "confirmed" THEN announced \union events[1].blocks
                     ELSE announced
    BY <1>11, <2>1 DEF ProcessEvent, Handle
  <2>4. ASSUME NEW i \in DOMAIN events', events'[i].kind = "confirmed"
        PROVE  /\ events'[i].blocks \subseteq cemented \ (announced' \union thread.confirmed)
               /\ \A j \in DOMAIN events' : events'[j].kind = "confirmed" /\ j # i =>
                     events'[i].blocks \intersect events'[j].blocks = {}
    <3>1. events'[i].blocks \subseteq cemented \ (announced' \union thread.confirmed)
      BY <2>1, <2>3, <2>4 DEF AnnounceInv
    <3>2. ASSUME NEW j \in DOMAIN events', events'[j].kind = "confirmed", j # i
          PROVE  events'[i].blocks \intersect events'[j].blocks = {}
      <4>1. i + 1 # j + 1
        BY <2>1, <3>2
      <4>2. QED
        BY <2>1, <2>4, <3>2, <4>1 DEF AnnounceInv
    <3>3. QED
      BY <3>1, <3>2
  <2>5. thread.confirmed \subseteq cemented \ announced'
    BY <2>1, <2>3 DEF AnnounceInv
  <2>6. QED
    BY <2>2, <2>4, <2>5 DEF AnnounceInv
<1>12. QED
  BY <1>1, <1>2, <1>3, <1>4, <1>5, <1>6, <1>7, <1>8, <1>9, <1>10, <1>11
  DEF Next, AecEventStep, CementingStep, Elect, Add, WaitOn, TakeWork, ProcessBlock, RollBack, Write

-----------------------------------------------------------------------------
(* Retries and the cool-down                                               *)

(* The event that requeues a deferred block stays on its way. *)
LEMMA RetriedFrame ==
    ASSUME DeferredIsRetried, ToSet(deferred') \subseteq ToSet(deferred), ledger' \subseteq ledger,
           \A e \in OnTheWay : e.kind = "processed" => e \in OnTheWay'
    PROVE  DeferredIsRetried'
BY DEF DeferredIsRetried

(* An event that is sent is on its way. *)
LEMMA SendOnTheWay ==
    ASSUME TypeOK, NEW e \in Events, Send(e), UNCHANGED unsent
    PROVE  OnTheWay' = OnTheWay \union {e}
BY SendFacts DEF OnTheWay

(* The events the cementing thread and the processor of election events send. *)
LEMMA SentFacts ==
    ASSUME TypeOK, SendNearFull \/ NotifyEvicted \/ AnnounceConfirmed \/ SendRecovered
    PROVE  \/ events' = events /\ OnTheWay' = OnTheWay /\ ~ NotifyEvicted
           \/ /\ events' # << >>
              /\ \E e \in Events :
                    /\ OnTheWay' = OnTheWay \union {e}
                    /\ IF NotifyEvicted
                       THEN e.kind = "failed" /\ e.blocks = {Head(thread.evicted)}
                       ELSE e.kind \in {"nearFull", "confirmed", "recovered"}
<1> USE DEF ledgerVars, setVars, aecVars, channelVars
<1>1. CASE SendNearFull
  <2> DEFINE e == Event("nearFull", {})
  <2>1. e \in Events /\ e.kind = "nearFull"
    BY EventFacts DEF Event
  <2>2. Send(e) /\ UNCHANGED <<unsent, thread>>
    BY <1>1 DEF SendNearFull
  <2> HIDE DEF e
  <2>3. ~ NotifyEvicted
    BY <1>1 DEF SendNearFull, NotifyEvicted
  <2>4. QED
    BY <2>1, <2>2, <2>3, SendFacts, SendOnTheWay
<1>2. CASE NotifyEvicted
  <2> DEFINE e == Event("failed", {Head(thread.evicted)})
  <2>1. Head(thread.evicted) \in Block
    BY <1>2, HeadTailFacts, ThreadFacts DEF NotifyEvicted, TypeOK
  <2>2. e \in Events /\ e.kind = "failed" /\ e.blocks = {Head(thread.evicted)}
    BY <2>1, EventFacts DEF Event
  <2>3. Send(e) /\ UNCHANGED unsent
    BY <1>2 DEF NotifyEvicted
  <2> HIDE DEF e
  <2>4. QED
    BY <1>2, <2>2, <2>3, SendFacts, SendOnTheWay
<1>3. CASE AnnounceConfirmed
  <2> DEFINE e == Event("confirmed", thread.confirmed)
  <2>1. thread.confirmed \in SUBSET Block
    BY ThreadFacts DEF TypeOK
  <2>2. e \in Events /\ e.kind = "confirmed"
    BY <2>1, EventFacts DEF Event
  <2>3. ~ NotifyEvicted
    BY <1>3 DEF AnnounceConfirmed, NotifyEvicted
  <2>4. UNCHANGED unsent /\ (events' = events \/ Send(e))
    BY <1>3 DEF AnnounceConfirmed
  <2> HIDE DEF e
  <2>5. CASE events' = events
    BY <2>3, <2>4, <2>5 DEF OnTheWay
  <2>6. CASE Send(e)
    BY <2>2, <2>3, <2>4, <2>6, SendFacts, SendOnTheWay
  <2>7. QED
    BY <2>4, <2>5, <2>6
<1>4. CASE SendRecovered
  <2> DEFINE e == Event("recovered", {})
  <2>1. e \in Events /\ e.kind = "recovered"
    BY EventFacts DEF Event
  <2>2. Send(e) /\ UNCHANGED unsent /\ ~ NotifyEvicted
    BY <1>4 DEF SendRecovered, NotifyEvicted
  <2> HIDE DEF e
  <2>3. QED
    BY <2>1, <2>2, SendFacts, SendOnTheWay
<1>5. QED
  BY <1>1, <1>2, <1>3, <1>4

(* The result of a transaction is on its way until it is processed. *)
LEMMA ResultFacts ==
    ASSUME TypeOK, NEW kind \in {"processed", "rolledBack"}, SendResults(kind)
    PROVE  events' # << >> /\ OnTheWay' = OnTheWay
<1>1. PICK e \in unsent : unsent' = unsent \ {e} /\ Send(e)
  BY DEF SendResults
<1>2. e \in Events
  BY DEF TypeOK
<1>3. events' # << >> /\ ToSet(events') = ToSet(events) \union {e}
  BY <1>1, <1>2, SendFacts
<1>4. QED
  BY <1>1, <1>3 DEF OnTheWay

(* A processed event was the first one of the channel. *)
LEMMA ReceiveFacts ==
    ASSUME TypeOK, ProcessEvent
    PROVE  Head(events) \in Events /\ OnTheWay = OnTheWay' \union {Head(events)}
<1>1. /\ events \in Seq(Events) /\ events # << >> /\ events' = Tail(events) /\ unsent' = unsent
  BY DEF ProcessEvent, TypeOK
<1>2. Head(events) \in Events /\ ToSet(events) = {Head(events)} \union ToSet(Tail(events))
  BY <1>1, HeadTailFacts
<1>3. QED
  BY <1>1, <1>2 DEF OnTheWay

(* A block that is back in the ledger is requeued. *)
LEMMA RetriedStep ==
    ASSUME TypeOK, BatchInv, DeferredIsRetried, Next
    PROVE  DeferredIsRetried'
<1> USE DEF ledgerVars, setVars, aecVars, channelVars
<1>1. CASE UNCHANGED <<deferred, ledger, events, unsent>>
  BY <1>1, RetriedFrame DEF OnTheWay
<1>2. CASE SendNearFull \/ NotifyEvicted \/ AnnounceConfirmed \/ SendRecovered
  <2>1. UNCHANGED <<deferred, ledger>>
    BY <1>2 DEF SendNearFull, NotifyEvicted, AnnounceConfirmed, SendRecovered
  <2>2. OnTheWay \subseteq OnTheWay'
    BY <1>2, SentFacts
  <2>3. QED
    BY <2>1, <2>2, RetriedFrame
<1>3. CASE Loop
  <2>1. UNCHANGED <<ledger, events, unsent>>
    BY <1>3 DEF Loop
  <2>2. ToSet(deferred') \subseteq ToSet(deferred)
    BY <1>3, LoopFacts
  <2>3. QED
    BY <2>1, <2>2, RetriedFrame DEF OnTheWay
<1>4. CASE DeferMissing
  <2>1. /\ Head(thread.batch) \in Block /\ deferred \in Seq(Block)
        /\ deferred' = PushBack(deferred, Head(thread.batch))
        /\ Head(thread.batch) \notin ledger /\ UNCHANGED <<ledger, events, unsent>>
    BY <1>4, HeadTailFacts, ThreadFacts DEF DeferMissing, TypeOK
  <2>2. ToSet(deferred') = ToSet(deferred) \union {Head(thread.batch)}
    BY <2>1, PushBackFacts
  <2>3. QED
    BY <2>1, <2>2 DEF DeferredIsRetried, OnTheWay
<1>5. ASSUME NEW b \in Block, ProcessBlock(b) PROVE DeferredIsRetried'
  <2> DEFINE e == Event("processed", {b})
  <2>1. e.kind = "processed" /\ e.blocks = {b}
    BY DEF Event
  <2>2. UNCHANGED <<deferred, events>> /\ unsent' = unsent \union {e} /\ ledger' \subseteq ledger \union {b}
    BY <1>5 DEF ProcessBlock, Write
  <2> HIDE DEF e
  <2>3. OnTheWay' = OnTheWay \union {e}
    BY <2>2 DEF OnTheWay
  <2>4. QED
    BY <2>1, <2>2, <2>3 DEF DeferredIsRetried
<1>6. ASSUME NEW b \in Block, RollBack(b) PROVE DeferredIsRetried'
  <2>1. UNCHANGED <<deferred, events>> /\ unsent \subseteq unsent' /\ ledger' \subseteq ledger
    BY <1>6 DEF RollBack, Write
  <2>2. QED
    BY <2>1, RetriedFrame DEF OnTheWay
<1>7. ASSUME NEW kind \in {"processed", "rolledBack"}, SendResults(kind) PROVE DeferredIsRetried'
  <2>1. UNCHANGED <<deferred, ledger>>
    BY <1>7 DEF SendResults
  <2>2. QED
    BY <1>7, <2>1, ResultFacts, RetriedFrame
<1>8. CASE ProcessEvent
  <2>1. ledger' = ledger
    BY <1>8 DEF ProcessEvent
  <2>2. /\ OnTheWay = OnTheWay' \union {Head(events)}
        /\ ToSet(deferred') \subseteq ToSet(deferred)
        /\ Head(events).kind = "processed" =>
              \A b \in Head(events).blocks : b \notin ToSet(deferred')
    BY <1>8, ReceiveFacts, RequeueFacts
  <2>3. QED
    BY <2>1, <2>2 DEF DeferredIsRetried
<1>9. QED
  BY <1>1, <1>2, <1>3, <1>4, <1>5, <1>6, <1>7, <1>8
  DEF Next, AecEventStep, CementingStep, Elect, Add, TakeAfterEviction, Wake, WaitOn, BeginWrite,
      Refresh, CementBlock, Commit, ClearCurrent, TakeWork

(* The last event ends a cool-down. *)
LEMMA CooldownStep ==
    ASSUME TypeOK, CooldownEnds, Next
    PROVE  CooldownEnds'
<1> USE DEF ledgerVars, setVars, aecVars, channelVars
<1>1. CASE UNCHANGED <<events, cool_down>>
  BY <1>1 DEF CooldownEnds
<1>2. CASE SendNearFull \/ NotifyEvicted \/ AnnounceConfirmed \/ SendRecovered
  <2>1. cool_down' = cool_down
    BY <1>2 DEF SendNearFull, NotifyEvicted, AnnounceConfirmed, SendRecovered
  <2>2. events' = events \/ events' # << >>
    BY <1>2, SentFacts
  <2>3. QED
    BY <2>1, <2>2 DEF CooldownEnds
<1>3. ASSUME NEW kind \in {"processed", "rolledBack"}, SendResults(kind) PROVE CooldownEnds'
  BY <1>3, ResultFacts DEF CooldownEnds
<1>4. CASE ProcessEvent
  <2> SUFFICES ASSUME events' = << >> PROVE ~ cool_down'
    BY DEF CooldownEnds
  <2>1. Len(events') = 0
    OBVIOUS
  <2>2. SoftLimit \in Nat \ {0}
    BY ConfirmingSetAssumption
  <2>3. ~ ShouldCoolDown(0)
    BY <2>2 DEF ShouldCoolDown
  <2>4. QED
    BY <1>4, <2>1, <2>3 DEF ProcessEvent
<1>5. QED
  BY <1>1, <1>2, <1>3, <1>4
  DEF Next, AecEventStep, CementingStep, Elect, Add, Loop, TakeAfterEviction, Wake, WaitOn,
      BeginWrite, Refresh, CementBlock, DeferMissing, Commit, ClearCurrent, TakeWork,
      ProcessBlock, RollBack, Write

-----------------------------------------------------------------------------
(* The promise to the elections                                            *)

(* The abstract state does not change. *)
Stays == UNCHANGED <<Requested, cemented, announced, Failed>>

(* What a step has to keep for the elections: it is a step of Confirmation,  *)
(* and recently confirmed roots stay cared for.                              *)
KeepsCare == [Abstract!Next]_(Abstract!vars) /\ RecentIsCared'

(* Failures change with the failure events on their way only. *)
LEMMA FailedFrame ==
    ASSUME \A e \in OnTheWay : e.kind = "failed" => e \in OnTheWay',
           \A e \in OnTheWay' : e.kind = "failed" => e \in OnTheWay
    PROVE  Failed' = Failed
BY DEF Failed

(* A step that changes none of it keeps the promise. *)
LEMMA StaysFrame ==
    ASSUME RecentIsCared, Stays, UNCHANGED <<recent, elected>>
    PROVE  KeepsCare
<1>1. UNCHANGED Abstract!vars
  BY DEF Stays, Abstract!vars
<1>2. RecentIsCared'
  BY DEF Stays, RecentIsCared
<1>3. QED
  BY <1>1, <1>2 DEF KeepsCare

(* Every step keeps the promise. *)
LEMMA CareStep ==
    ASSUME TypeOK, BatchInv, AnnounceInv, RecentIsCared, Next
    PROVE  KeepsCare
<1> USE DEF ledgerVars, setVars, aecVars, channelVars
<1>1. CASE UNCHANGED <<set, deferred, current, thread, cemented, announced, events, unsent,
                       recent, elected>>
  <2>1. Stays
    BY <1>1 DEF Stays, Requested, Failed, OnTheWay
  <2>2. QED
    BY <1>1, <2>1, StaysFrame
<1>2. ASSUME NEW b \in Winner, Elect(b) PROVE KeepsCare
  <2>1. b \in Block /\ Stays
    BY <1>2, ConfirmingSetAssumption DEF Elect, Stays, Requested, Failed, OnTheWay
  <2>2. ToSet(elected') = ToSet(elected) \union {b}
    <3>1. elected \in Seq(Block) /\ elected' = Append(elected, b)
      BY <1>2 DEF Elect, TypeOK
    <3>2. QED
      BY <2>1, <3>1, AppendFacts
  <2>3. ToSet(recent') \subseteq ToSet(recent) \union {b}
    <3> DEFINE all == Append(recent, b)
    <3>1. recent \in Seq(Block) /\ recent' = IF Len(all) > MaxRecent THEN Tail(all) ELSE all
      BY <1>2 DEF Elect, TypeOK
    <3>2. all \in Seq(Block) /\ all # << >> /\ ToSet(all) = ToSet(recent) \union {b}
      BY <2>1, <3>1, AppendFacts
    <3> HIDE DEF all
    <3>3. ToSet(Tail(all)) \subseteq ToSet(all)
      BY <3>2, HeadTailFacts
    <3>4. QED
      BY <3>1, <3>2, <3>3
  <2>4. RecentIsCared'
    BY <2>1, <2>2, <2>3 DEF Stays, RecentIsCared
  <2>5. UNCHANGED Abstract!vars
    BY <2>1 DEF Stays, Abstract!vars
  <2>6. QED
    BY <2>4, <2>5 DEF KeepsCare
<1>3. CASE Add
  <2> DEFINE b == Head(elected)
  <2>1. /\ elected \in Seq(Block) /\ elected # << >> /\ elected' = Tail(elected)
        /\ set \in Seq(Block) /\ set' = PushBack(set, b)
        /\ UNCHANGED <<deferred, current, thread, cemented, announced, events, unsent, recent>>
    BY <1>3 DEF Add, TypeOK
  <2>2. b \in Block /\ ToSet(elected) = {b} \union ToSet(elected')
    BY <2>1, HeadTailFacts
  <2> HIDE DEF b
  <2>3. ToSet(set') = ToSet(set) \union {b}
    <3>1. b \in Block /\ set \in Seq(Block) /\ set' = PushBack(set, b)
      BY <2>1, <2>2
    <3>2. QED
      BY <3>1, PushBackFacts
  <2>4. Requested' = Requested \union {b} /\ Failed' = Failed
    BY <2>1, <2>3 DEF Requested, Failed, OnTheWay
  <2>5. RecentIsCared'
    BY <2>1, <2>2, <2>4 DEF RecentIsCared
  <2>6. Abstract!Request(b)
    BY <2>1, <2>4 DEF Abstract!Request
  <2>7. QED
    BY <2>2, <2>5, <2>6 DEF KeepsCare, Abstract!Next
<1>4. ASSUME Take, thread.pc \in {"top", "evict"}, thread.evicted = << >>, deferred' = deferred,
             UNCHANGED <<cemented, announced, events, unsent, recent, elected>>
      PROVE  KeepsCare
  <2>1. /\ thread'.evicted = << >> /\ current = {}
        /\ ToSet(set) = current' \union ToSet(set')
    BY <1>4, TakeBatch
  <2>2. Requested' = Requested
    BY <1>4, <2>1, ToSetEmpty DEF Requested
  <2>3. Stays
    BY <1>4, <2>2 DEF Stays, Failed, OnTheWay
  <2>4. QED
    BY <1>4, <2>3, StaysFrame
<1>5. CASE Loop
  <2>1. thread.pc = "top" /\ thread.evicted = << >>
        /\ UNCHANGED <<cemented, announced, events, unsent, recent, elected>>
    BY <1>5 DEF Loop, BatchInv
  <2>2. CASE Take /\ deferred' = deferred
    BY <1>4, <2>1, <2>2
  <2>3. CASE /\ ToSet(deferred) = ToSet(thread'.evicted) \union ToSet(deferred')
             /\ set' = set /\ current' = current
    <3>1. Requested' = Requested
      BY <2>1, <2>3, ToSetEmpty DEF Requested
    <3>2. Stays
      BY <2>1, <3>1 DEF Stays, Failed, OnTheWay
    <3>3. QED
      BY <2>1, <3>2, StaysFrame
  <2>4. QED
    BY <1>5, <2>2, <2>3, LoopFacts
<1>6. CASE TakeAfterEviction
  BY <1>4, <1>6 DEF TakeAfterEviction
<1>7. CASE NotifyEvicted
  <2> DEFINE b == Head(thread.evicted)
  <2>1. /\ thread.evicted \in Seq(Block) /\ thread.evicted # << >>
        /\ thread'.evicted = Tail(thread.evicted)
        /\ UNCHANGED <<set, deferred, current, cemented, announced, recent, elected>>
    BY <1>7 DEF NotifyEvicted, TypeOK, Thread
  <2>2. b \in Block /\ ToSet(thread.evicted) = {b} \union ToSet(thread'.evicted)
    BY <2>1, HeadTailFacts
  <2>3. PICK e \in Events : OnTheWay' = OnTheWay \union {e} /\ e.kind = "failed" /\ e.blocks = {b}
    BY <1>7, SentFacts
  <2> HIDE DEF b
  <2>4. Failed' = Failed \union {b}
    BY <2>2, <2>3 DEF Failed
  <2>5. Requested = Requested' \union {b}
    BY <2>1, <2>2 DEF Requested
  <2>6. RecentIsCared'
    BY <2>1, <2>4, <2>5 DEF RecentIsCared
  <2>7. Requested' \in {Requested, Requested \ {b}}
    BY <2>5
  <2>8. Abstract!GiveUp(b)
    BY <2>1, <2>4, <2>5, <2>7 DEF Abstract!GiveUp
  <2>9. QED
    BY <2>2, <2>6, <2>8 DEF KeepsCare, Abstract!Next
<1>8. CASE Wake
  <2>1. /\ thread'.evicted = << >> /\ thread.evicted = << >>
        /\ UNCHANGED <<set, deferred, current, cemented, announced, events, unsent, recent, elected>>
    BY <1>8 DEF Wake, Idle, BatchInv
  <2>2. Stays
    BY <2>1 DEF Stays, Requested, Failed, OnTheWay
  <2>3. QED
    BY <2>1, <2>2, StaysFrame
<1>9. CASE BeginWrite \/ Refresh \/ Commit
  <2>1. /\ thread'.evicted = thread.evicted
        /\ UNCHANGED <<set, deferred, current, cemented, announced, events, unsent, recent, elected>>
    BY <1>9 DEF BeginWrite, Refresh, Commit, TypeOK, Thread
  <2>2. Stays
    BY <2>1 DEF Stays, Requested, Failed, OnTheWay
  <2>3. QED
    BY <2>1, <2>2, StaysFrame
<1>10. CASE CementBlock
  <2> DEFINE b == Head(thread.batch)
  <2>1. b \in Block /\ b \in ToSet(thread.batch)
    BY <1>10, HeadTailFacts, ThreadFacts DEF CementBlock, TypeOK
  <2>2. PICK new \in ConfirmMax(b) :
          /\ cemented' = cemented \union new
          /\ thread' = [thread EXCEPT !.confirmed = @ \union new,
                                      !.count = @ + Cardinality(new),
                                      !.batch = IF Head(@) \in cemented' THEN Tail(@) ELSE @]
    BY <1>10 DEF CementBlock
  <2>3. new \in SUBSET Block /\ new \intersect cemented = {}
    BY <2>1, ConfirmFacts
  <2>4. /\ thread'.evicted = thread.evicted
        /\ UNCHANGED <<set, deferred, current, announced, events, unsent, recent, elected>>
    BY <1>10, <2>2 DEF CementBlock, TypeOK, Thread
  <2>5. b \in Requested
    BY <1>10, <2>1 DEF CementBlock, BatchInv, Requested
  <2> HIDE DEF b
  <2>6. Requested' = Requested /\ Failed' = Failed
    BY <2>4 DEF Requested, Failed, OnTheWay
  <2>7. RecentIsCared'
    BY <2>2, <2>4, <2>6 DEF RecentIsCared
  <2>8. Abstract!Cement(b, new)
    BY <2>2, <2>3, <2>4, <2>5, <2>6 DEF Abstract!Cement
  <2>9. QED
    BY <2>1, <2>3, <2>7, <2>8 DEF KeepsCare, Abstract!Next
<1>11. CASE DeferMissing
  <2> DEFINE b == Head(thread.batch)
  <2>1. b \in Block /\ b \in ToSet(thread.batch)
    BY <1>11, HeadTailFacts, ThreadFacts DEF DeferMissing, TypeOK
  <2>2. /\ deferred \in Seq(Block) /\ deferred' = PushBack(deferred, b) /\ thread'.evicted = thread.evicted
        /\ UNCHANGED <<set, current, cemented, announced, events, unsent, recent, elected>>
    BY <1>11 DEF DeferMissing, TypeOK, Thread
  <2>3. b \in current
    BY <1>11, <2>1 DEF DeferMissing, BatchInv
  <2> HIDE DEF b
  <2>4. ToSet(deferred') = ToSet(deferred) \union {b}
    BY <2>1, <2>2, PushBackFacts
  <2>5. Requested' = Requested /\ Failed' = Failed
    BY <2>2, <2>3, <2>4 DEF Requested, Failed, OnTheWay
  <2>6. QED
    BY <2>2, <2>5, StaysFrame DEF Stays
<1>12. CASE SendNearFull \/ AnnounceConfirmed \/ SendRecovered
  <2>1. /\ thread'.evicted = thread.evicted
        /\ UNCHANGED <<set, deferred, current, cemented, announced, recent, elected>>
    <3>1. CASE SendNearFull
      BY <3>1 DEF SendNearFull
    <3>2. CASE AnnounceConfirmed
      BY <3>2 DEF AnnounceConfirmed, TypeOK, Thread
    <3>3. CASE SendRecovered
      BY <3>3 DEF SendRecovered, BatchInv, Idle
    <3>4. QED
      BY <1>12, <3>1, <3>2, <3>3
  <2>2. Failed' = Failed
    <3>1. ~ NotifyEvicted \/ SendNearFull
      BY <1>12 DEF AnnounceConfirmed, SendRecovered, NotifyEvicted
    <3>2. ~ (NotifyEvicted /\ SendNearFull)
      BY DEF SendNearFull, NotifyEvicted, TypeOK, Thread
    <3>3. CASE OnTheWay' = OnTheWay
      BY <3>3, FailedFrame
    <3>4. ASSUME NEW e \in Events, OnTheWay' = OnTheWay \union {e},
                 e.kind \in {"nearFull", "confirmed", "recovered"}
          PROVE  Failed' = Failed
      BY <3>4, FailedFrame
    <3>5. QED
      BY <1>12, <3>1, <3>2, <3>3, <3>4, SentFacts
  <2>3. Stays
    BY <2>1, <2>2 DEF Stays, Requested
  <2>4. QED
    BY <2>1, <2>3, StaysFrame
<1>13. CASE ClearCurrent
  <2> DEFINE blocks == Requested \ Requested'
  <2>1. /\ thread.pc = "clear" /\ thread'.evicted = thread.evicted /\ current' = {}
        /\ UNCHANGED <<set, deferred, cemented, announced, events, unsent, recent, elected>>
    BY <1>13 DEF ClearCurrent, TypeOK, Thread
  <2>2. current \subseteq cemented \union ToSet(deferred) \union ToSet(set)
    BY <2>1, ToSetEmpty DEF BatchInv
  <2>3. Requested' \subseteq Requested /\ blocks \subseteq cemented /\ Failed' = Failed
    BY <2>1, <2>2 DEF Requested, Failed, OnTheWay
  <2>4. Requested' = Requested \ blocks /\ blocks \in SUBSET Block
    BY <2>3 DEF TypeOK
  <2>5. RecentIsCared'
    BY <2>1, <2>3 DEF RecentIsCared
  <2> HIDE DEF blocks
  <2>6. Abstract!Complete(blocks)
    BY <2>1, <2>3, <2>4 DEF Abstract!Complete
  <2>7. QED
    BY <2>4, <2>5, <2>6 DEF KeepsCare, Abstract!Next
<1>14. ASSUME NEW b \in Block, ProcessBlock(b) \/ RollBack(b) PROVE KeepsCare
  <2>1. /\ UNCHANGED <<set, deferred, current, thread, cemented, announced, events, recent, elected>>
        /\ unsent \subseteq unsent'
        /\ \A e \in unsent' \ unsent : e.kind # "failed"
    <3>1. CASE ProcessBlock(b)
      BY <3>1 DEF ProcessBlock, Write, Event
    <3>2. CASE RollBack(b)
      BY <3>2 DEF RollBack, Write, Event
    <3>3. QED
      BY <1>14, <3>1, <3>2
  <2>2. Failed' = Failed
    BY <2>1, FailedFrame DEF OnTheWay
  <2>3. Stays
    BY <2>1, <2>2 DEF Stays, Requested
  <2>4. QED
    BY <2>1, <2>3, StaysFrame
<1>15. ASSUME NEW kind \in {"processed", "rolledBack"}, SendResults(kind) PROVE KeepsCare
  <2>1. UNCHANGED <<set, deferred, current, thread, cemented, announced, recent, elected>>
    BY <1>15 DEF SendResults
  <2>2. OnTheWay' = OnTheWay
    BY <1>15, ResultFacts
  <2>3. Stays
    BY <2>1, <2>2, FailedFrame DEF Stays, Requested
  <2>4. QED
    BY <2>1, <2>3, StaysFrame
<1>16. CASE ProcessEvent
  <2> DEFINE e == Head(events)
  <2>1. e \in Events /\ OnTheWay = OnTheWay' \union {e}
    BY <1>16, ReceiveFacts
  <2>2. /\ UNCHANGED <<current, thread, cemented, elected>>
        /\ announced' = IF e.kind = "confirmed" THEN announced \union e.blocks ELSE announced
        /\ e.kind # "failed" => recent' = recent
    BY <1>16 DEF ProcessEvent, Handle
  <2>3. Requested' = Requested
    BY <1>16, <2>2, RequeueFacts DEF Requested
  <2>4. CASE e.kind = "confirmed"
    <3>1. 1 \in DOMAIN events /\ e = events[1]
      BY <1>16 DEF ProcessEvent, TypeOK
    <3>2. e.blocks \subseteq cemented \ announced /\ e.blocks \in SUBSET Block
      BY <2>4, <3>1 DEF AnnounceInv, TypeOK
    <3> HIDE DEF e
    <3>3. Failed' = Failed
      BY <2>1, <2>4, FailedFrame
    <3>4. RecentIsCared'
      BY <2>2, <2>3, <2>4, <3>3 DEF RecentIsCared
    <3>5. Abstract!Announce(e.blocks)
      BY <2>2, <2>3, <2>4, <3>2, <3>3 DEF Abstract!Announce
    <3>6. QED
      BY <3>2, <3>4, <3>5 DEF KeepsCare, Abstract!Next
  <2>5. CASE e.kind = "failed"
    <3>1. PICK b \in Block : e.blocks = {b}
      BY <2>1, <2>5, EventFacts
    <3>2. recent' = RemoveEntry(recent, b)
      BY <1>16, <2>5, <3>1 DEF ProcessEvent, Handle
    <3>3. ToSet(recent') = ToSet(recent) \ {b}
      BY <3>2, RemoveFacts DEF TypeOK
    <3> HIDE DEF e
    <3>4. Failed' \subseteq Failed /\ Failed \subseteq Failed' \union {b}
      BY <2>1, <3>1 DEF Failed
    <3>5. RecentIsCared'
      BY <2>2, <2>3, <3>3, <3>4 DEF RecentIsCared
    <3>6. announced' = announced /\ (Failed' = Failed \/ Failed' = Failed \ {b})
      BY <2>2, <2>5, <3>4
    <3>7. CASE Failed' = Failed
      <4>1. UNCHANGED Abstract!vars
        BY <2>2, <2>3, <3>6, <3>7 DEF Abstract!vars
      <4>2. QED
        BY <3>5, <4>1 DEF KeepsCare
    <3>8. CASE Failed' = Failed \ {b}
      <4>1. Abstract!NoticeFailure(b)
        BY <2>2, <2>3, <3>6, <3>8 DEF Abstract!NoticeFailure
      <4>2. QED
        BY <3>1, <3>5, <4>1 DEF KeepsCare, Abstract!Next
    <3>9. QED
      BY <3>6, <3>7, <3>8
  <2>6. CASE e.kind \notin {"confirmed", "failed"}
    <3> HIDE DEF e
    <3>1. Failed' = Failed
      BY <2>1, <2>6, FailedFrame
    <3>2. Stays /\ UNCHANGED <<recent, elected>>
      BY <2>2, <2>3, <2>6, <3>1 DEF Stays
    <3>3. QED
      BY <3>2, StaysFrame
  <2>7. QED
    BY <2>4, <2>5, <2>6
<1>17. QED
  BY <1>1, <1>2, <1>3, <1>5, <1>6, <1>7, <1>8, <1>9, <1>10, <1>11, <1>12, <1>13, <1>14, <1>15, <1>16
  DEF Next, AecEventStep, CementingStep, WaitOn, TakeWork

-----------------------------------------------------------------------------
(* The theorems                                                            *)

(* The inductive invariant holds in every reachable state: types, a ledger   *)
(* with its dependencies, the batch in care, each confirmation in one place, *)
(* and the three safety properties of the confirming set.                    *)
THEOREM Invariance == Spec => []IInv
<1>1. ASSUME IInv, [Next]_vars PROVE IInv'
  <2>1. CASE Next
    <3>1. RecentIsCared'
      BY <1>1, <2>1, CareStep DEF IInv, KeepsCare
    <3>2. QED
      BY <1>1, <2>1, <3>1, TypeStep, BatchStep, AnnounceStep, RetriedStep, CooldownStep DEF IInv
  <2>2. CASE UNCHANGED vars
    <3> USE <2>2 DEF vars, ledgerVars, setVars, aecVars, channelVars
    <3>1. TypeOK' /\ LedgerClosed'
      BY <1>1 DEF IInv, TypeOK, LedgerClosed
    <3>2. BatchInv' /\ AnnounceInv'
      BY <1>1 DEF IInv, BatchInv, AnnounceInv
    <3>3. DeferredIsRetried' /\ RecentIsCared' /\ CooldownEnds'
      BY <1>1 DEF IInv, DeferredIsRetried, RecentIsCared, CooldownEnds, OnTheWay, Requested, Failed
    <3>4. QED
      BY <3>1, <3>2, <3>3 DEF IInv
  <2>3. QED
    BY <1>1, <2>1, <2>2
<1>2. QED
  BY <1>1, InitInv, PTL DEF Spec

(* The state stays in its types and a block is in a queue once, whatever     *)
(* the limits of ConfirmingSet.                                              *)
THEOREM TypeCorrect == Spec => []TypeOK
<1>1. IInv => TypeOK
  BY DEF IInv
<1>2. QED
  BY <1>1, Invariance, PTL

(* cementing_failed() under the write transaction is enough: no deferred     *)
(* block is in the ledger without an event on its way that requeues it.      *)
THEOREM Retried == Spec => []DeferredIsRetried
<1>1. IInv => DeferredIsRetried
  BY DEF IInv
<1>2. QED
  BY <1>1, Invariance, PTL

(* A root in RecentlyConfirmedCache is cemented, on its way to be cemented,  *)
(* or its failure is on its way.                                             *)
THEOREM RecentCared == Spec => []RecentIsCared
<1>1. IInv => RecentIsCared
  BY DEF IInv
<1>2. QED
  BY <1>1, Invariance, PTL

(* should_cool_down() ends the cool-down with the last event at the latest.  *)
THEOREM CooldownOver == Spec => []CooldownEnds
<1>1. IInv => CooldownEnds
  BY DEF IInv
<1>2. QED
  BY <1>1, Invariance, PTL

(* The confirming set with its threads implements Confirmation: a winner     *)
(* stays in its care until it is cemented or its failure announced, and      *)
(* every confirmation is announced once.                                     *)
THEOREM Refinement == Spec => KeepsPromise
<1>1. Init => Abstract!Init
  BY ToSetEmpty DEF Init, Abstract!Init, Requested, Failed, OnTheWay, Idle
<1>2. ASSUME IInv, [Next]_vars PROVE [Abstract!Next]_(Abstract!vars)
  <2>1. CASE Next
    BY <1>2, <2>1, CareStep DEF IInv, KeepsCare
  <2>2. CASE UNCHANGED vars
    <3>1. UNCHANGED Abstract!vars
      BY <2>2 DEF vars, ledgerVars, setVars, aecVars, channelVars, Abstract!vars,
                  Requested, Failed, OnTheWay
    <3>2. QED
      BY <3>1
  <2>3. QED
    BY <1>2, <2>1, <2>2
<1>3. QED
  BY <1>1, <1>2, Invariance, PTL DEF Spec, KeepsPromise, Abstract!Spec
=============================================================================
