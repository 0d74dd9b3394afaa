--------------------------- MODULE ConfirmingSet ---------------------------
(***************************************************************************)
(* The confirming set between the elections and the ledger, with the       *)
(* threads around it: the processor of election events adds the winners,   *)
(* the cementing thread takes them in batches, the block processor inserts *)
(* blocks, and the processor of ledger events requeues what could not be   *)
(* cemented, tells the elections about failures and slows the others down  *)
(* while its channel is full.                                              *)
(***************************************************************************)
EXTENDS Integers, Sequences, SequencesExt, FiniteSets

CONSTANTS
    Block,        \* the blocks, winners of elections and what they depend on
    Winner,       \* the winners of elections
    Chain,        \* each block with all blocks it depends on
    BatchSize,    \* config.batch_size
    MaxBlocks,    \* config.max_blocks
    MaxDeferred,  \* config.max_deferred
    MaxRecent,    \* size of the cache of recently confirmed elections
    SoftLimit,    \* soft limit of the channel of ledger events
    MaxEvents     \* bound on the messages in flight when an input arrives

ASSUME ConfirmingSetAssumption ==
    /\ IsFiniteSet(Block) /\ Winner \subseteq Block
    /\ Chain \in [Block -> SUBSET Block]
    /\ \A b \in Block : b \in Chain[b] /\ \A c \in Chain[b] : Chain[c] \subseteq Chain[b]
    /\ {BatchSize, MaxBlocks, MaxDeferred, MaxRecent, SoftLimit, MaxEvents} \subseteq Nat \ {0}

VARIABLES
    ledger,      \* blocks in the ledger
    cemented,    \* confirmed blocks
    set,         \* blocks ready to be cemented, in order
    deferred,    \* blocks that could not be cemented, in order
    current,     \* blocks of the current batch
    near_full, cool_down,
    thread,      \* the cementing thread
    signalled,   \* was the condition notified since the thread went to sleep?
    recent,      \* recently confirmed elections, oldest first
    elected,     \* confirmed elections waiting for the event processor
    warning,     \* the event processor has still to send ConfirmingSetNearFull
    aec_cooldown,\* do elections cool down because of the confirming set?
    taken,       \* threads with work they took before a cool-down
    unsent,      \* results of committed transactions that are not sent yet
    events,      \* the channel of ledger events
    announced    \* blocks whose confirmation was processed

ledgerVars == <<ledger, cemented>>
setVars == <<set, deferred, current, near_full, cool_down>>
aecVars == <<recent, elected, warning, aec_cooldown>>
channelVars == <<events, announced>>
vars == <<ledgerVars, setVars, thread, signalled, aecVars, taken, unsent, channelVars>>

Event(kind, blocks) == [kind |-> kind, blocks |-> blocks]

Idle ==
    [pc |-> "top", evicted |-> <<>>, batch |-> <<>>, confirmed |-> {}, count |-> 0,
     recovered |-> FALSE]

near_full_limit == (MaxBlocks * 100) \div 75
recovered_limit == (MaxBlocks * 100) \div 50

Init ==
    /\ ledger = {} /\ cemented = {}
    /\ set = <<>> /\ deferred = <<>> /\ current = {}
    /\ near_full = FALSE /\ cool_down = FALSE
    /\ thread = Idle /\ signalled = FALSE
    /\ recent = <<>> /\ elected = <<>> /\ warning = FALSE /\ aec_cooldown = FALSE
    /\ taken = {} /\ unsent = {}
    /\ events = <<>> /\ announced = {}

(* OrderedEntries: a block is in it once, where it came in first. *)
PushBack(entries, b) == IF b \in ToSet(entries) THEN entries ELSE Append(entries, b)

RemoveEntry(entries, b) ==
    IF b \in ToSet(entries)
    THEN RemoveAt(entries, CHOOSE i \in DOMAIN entries : entries[i] = b) ELSE entries

(* Bound: inputs arrive while less than MaxEvents messages are in flight. *)
HasRoom == Len(elected) + Cardinality(taken) + Cardinality(unsent) + Len(events) < MaxEvents

Send(event) == events' = Append(events, event)

(* Variant: the notification is forgotten. *)
NotifyNobody == UNCHANGED signalled

(* notify_all() after the change was made under the mutex: it reaches the   *)
(* thread only if that waits.                                               *)
NotifyAll == signalled' = (thread.pc = "wait")
-----------------------------------------------------------------------------
(* Elections and the processor of their events                             *)

(* An election ends with a winner; the root gets no other election while    *)
(* the cache remembers it.                                                  *)
Elect(b) ==
    /\ HasRoom
    /\ b \notin ToSet(recent)
    /\ recent' = LET all == Append(recent, b)
                 IN  IF Len(all) > MaxRecent THEN Tail(all) ELSE all
    /\ elected' = Append(elected, b)
    /\ UNCHANGED <<ledgerVars, setVars, thread, signalled, warning, aec_cooldown,
                   taken, unsent, channelVars>>

Add ==
    /\ elected # <<>> /\ ~ warning
    /\ set' = PushBack(set, Head(elected))
    /\ LET full == ~ near_full /\ Len(set') + Cardinality(current) >= near_full_limit
       IN  near_full' = (near_full \/ full) /\ warning' = full
    /\ IF set' # set THEN NotifyAll ELSE UNCHANGED signalled
    /\ elected' = Tail(elected)
    /\ UNCHANGED <<ledgerVars, deferred, current, cool_down, thread, recent,
                   aec_cooldown, taken, unsent, channelVars>>

SendNearFull ==
    /\ warning
    /\ warning' = FALSE
    /\ Send(Event("nearFull", {}))
    /\ UNCHANGED <<ledgerVars, setVars, thread, signalled, recent, elected,
                   aec_cooldown, taken, unsent, announced>>
-----------------------------------------------------------------------------
(* The cementing thread                                                    *)

(* cleanup(): the first entries go, those older than the cutoff and those   *)
(* over the limit. They came in with growing timestamps, and any time may   *)
(* have passed.                                                             *)
Cleanup == {n \in 0..Len(deferred) : Len(deferred) - n <= MaxDeferred}

(* The batch leaves the set and becomes current; without anything to do the *)
(* thread waits.                                                            *)
Take ==
    IF set # <<>>
    THEN LET n == IF Len(set) < BatchSize THEN Len(set) ELSE BatchSize
             batch == SubSeq(set, 1, n)
         IN  /\ set' = SubSeq(set, n + 1, Len(set))
             /\ current' = ToSet(batch)
             /\ LET recovered == near_full /\ Len(set') < recovered_limit
                IN  /\ near_full' = (near_full /\ ~ recovered)
                    /\ thread' = [Idle EXCEPT !.pc = "begin", !.batch = batch,
                                              !.recovered = recovered]
             /\ UNCHANGED signalled
    ELSE /\ thread' = [Idle EXCEPT !.pc = "wait"]
         /\ UNCHANGED <<set, current, near_full, signalled>>

Loop ==
    /\ thread.pc = "top"
    /\ \E n \in Cleanup :
          IF n > 0
          THEN /\ thread' = [Idle EXCEPT !.pc = "evict", !.evicted = SubSeq(deferred, 1, n)]
               /\ deferred' = SubSeq(deferred, n + 1, Len(deferred))
               /\ UNCHANGED <<set, current, near_full, signalled>>
          ELSE Take /\ UNCHANGED deferred
    /\ UNCHANGED <<ledgerVars, cool_down, aecVars, taken, unsent, channelVars>>

NotifyEvicted ==
    /\ thread.pc = "evict" /\ thread.evicted # <<>>
    /\ Send(Event("failed", {Head(thread.evicted)}))
    /\ thread' = [thread EXCEPT !.evicted = Tail(@)]
    /\ UNCHANGED <<ledgerVars, setVars, signalled, aecVars, taken, unsent, announced>>

TakeAfterEviction ==
    /\ thread.pc = "evict" /\ thread.evicted = <<>>
    /\ Take
    /\ UNCHANGED <<ledgerVars, deferred, cool_down, aecVars, taken, unsent, channelVars>>

(* wait_while(): the condition is looked at again after each notification. *)
Wake ==
    /\ thread.pc = "wait" /\ signalled
    /\ set # <<>> /\ ~ cool_down
    /\ signalled' = FALSE
    /\ thread' = Idle
    /\ UNCHANGED <<ledgerVars, setVars, aecVars, taken, unsent, channelVars>>

WaitOn ==
    /\ thread.pc = "wait" /\ signalled
    /\ set = <<>> \/ cool_down
    /\ signalled' = FALSE
    /\ UNCHANGED <<ledgerVars, setVars, thread, aecVars, taken, unsent, channelVars>>

(* Variant: the current blocks are cleared before they are cemented. *)
BeginWriteCleared ==
    /\ thread.pc = "begin"
    /\ thread' = [thread EXCEPT !.pc = "txn"]
    /\ current' = {}
    /\ UNCHANGED <<ledgerVars, set, deferred, near_full, cool_down, signalled, aecVars,
                   taken, unsent, channelVars>>

BeginWrite ==
    /\ thread.pc = "begin"
    /\ thread' = [thread EXCEPT !.pc = "txn"]
    /\ UNCHANGED <<ledgerVars, setVars, signalled, aecVars, taken, unsent, channelVars>>

(* The transaction is refreshed after some time: others may write. *)
Refresh ==
    /\ thread.pc = "txn" /\ thread.batch # <<>>
    /\ thread' = [thread EXCEPT !.pc = "begin"]
    /\ UNCHANGED <<ledgerVars, setVars, signalled, aecVars, taken, unsent, channelVars>>

(* confirm_max(): at most MaxBlocks blocks, what others depend on first; the *)
(* bounds of its stack and of its result may end it before the target.       *)
ConfirmMax(b) ==
    {new \in SUBSET (Chain[b] \ cemented) :
        /\ \A c \in new : Chain[c] \ cemented \subseteq new
        /\ Cardinality(new) <= MaxBlocks
        /\ new = {} => Chain[b] \subseteq cemented}

CementBlock ==
    /\ thread.pc = "txn" /\ thread.batch # <<>> /\ thread.count < MaxBlocks
    /\ Head(thread.batch) \in ledger
    /\ \E new \in ConfirmMax(Head(thread.batch)) :
          /\ cemented' = cemented \union new
          /\ thread' = [thread EXCEPT !.confirmed = @ \union new,
                                      !.count = @ + Cardinality(new),
                                      !.batch = IF Head(@) \in cemented' THEN Tail(@) ELSE @]
    /\ UNCHANGED <<ledger, setVars, signalled, aecVars, taken, unsent, channelVars>>

(* Variant: a block that is missing is forgotten. *)
ForgetMissing ==
    /\ thread.pc = "txn" /\ thread.batch # <<>> /\ thread.count < MaxBlocks
    /\ Head(thread.batch) \notin ledger
    /\ thread' = [thread EXCEPT !.batch = Tail(@)]
    /\ UNCHANGED <<ledgerVars, setVars, signalled, aecVars, taken, unsent, channelVars>>

(* Variant: a missing block is deferred after the transaction was left. *)
DeferLate ==
    /\ thread.batch # <<>> /\ thread.count < MaxBlocks
    /\ \/ /\ thread.pc = "txn" /\ Head(thread.batch) \notin ledger
          /\ thread' = [thread EXCEPT !.pc = "begin", !.evicted = <<Head(thread.batch)>>]
          /\ UNCHANGED deferred
       \/ /\ thread.pc = "begin" /\ thread.evicted # <<>>
          /\ thread' = [thread EXCEPT !.evicted = <<>>, !.batch = Tail(@)]
          /\ deferred' = PushBack(deferred, Head(thread.evicted))
    /\ UNCHANGED <<ledgerVars, set, current, near_full, cool_down, signalled,
                   aecVars, taken, unsent, channelVars>>

(* cementing_failed(): while the transaction is still held. *)
DeferMissing ==
    /\ thread.pc = "txn" /\ thread.batch # <<>> /\ thread.count < MaxBlocks
    /\ Head(thread.batch) \notin ledger
    /\ deferred' = PushBack(deferred, Head(thread.batch))
    /\ thread' = [thread EXCEPT !.batch = Tail(@)]
    /\ UNCHANGED <<ledgerVars, set, current, near_full, cool_down, signalled,
                   aecVars, taken, unsent, channelVars>>

(* Variant: what was confirmed is dropped by the commit in between. *)
CommitUnannounced ==
    /\ thread.pc = "txn"
    /\ thread.batch = <<>> \/ thread.count >= MaxBlocks
    /\ thread' = [thread EXCEPT !.pc = "announce", !.count = 0,
                                !.confirmed = IF thread.batch = <<>> THEN @ ELSE {}]
    /\ UNCHANGED <<ledgerVars, setVars, signalled, aecVars, taken, unsent, channelVars>>

(* Commit at the end of the batch, or in between when much was confirmed. *)
Commit ==
    /\ thread.pc = "txn"
    /\ thread.batch = <<>> \/ thread.count >= MaxBlocks
    /\ thread' = [thread EXCEPT !.pc = "announce", !.count = 0]
    /\ UNCHANGED <<ledgerVars, setVars, signalled, aecVars, taken, unsent, channelVars>>

AnnounceConfirmed ==
    /\ thread.pc = "announce"
    /\ IF thread.confirmed # {}
       THEN Send(Event("confirmed", thread.confirmed)) ELSE UNCHANGED events
    /\ thread' = [thread EXCEPT !.confirmed = {},
                                !.pc = IF thread.batch = <<>> THEN "clear" ELSE "begin"]
    /\ UNCHANGED <<ledgerVars, setVars, signalled, aecVars, taken, unsent, announced>>

ClearCurrent ==
    /\ thread.pc = "clear"
    /\ current' = {}
    /\ thread' = [thread EXCEPT !.pc = IF thread.recovered THEN "recovered" ELSE "top"]
    /\ UNCHANGED <<ledgerVars, set, deferred, near_full, cool_down, signalled,
                   aecVars, taken, unsent, channelVars>>

SendRecovered ==
    /\ thread.pc = "recovered"
    /\ Send(Event("recovered", {}))
    /\ thread' = Idle
    /\ UNCHANGED <<ledgerVars, setVars, signalled, aecVars, taken, unsent, announced>>
-----------------------------------------------------------------------------
(* The block processor and time                                            *)

(* The block processor takes a batch, or the bounded backlog a target, only *)
(* without a cool-down.                                                     *)
TakeWork(kind) ==
    /\ HasRoom /\ ~ cool_down
    /\ kind \notin taken /\ \A e \in unsent : e.kind # kind
    /\ taken' = taken \union {kind}
    /\ UNCHANGED <<ledgerVars, setVars, thread, signalled, aecVars, unsent, channelVars>>

(* There is one write transaction; the results are sent after the commit. *)
Write(kind, results) ==
    /\ kind \in taken /\ thread.pc # "txn"
    /\ taken' = taken \ {kind}
    /\ unsent' = unsent \union results
    /\ UNCHANGED <<cemented, setVars, thread, signalled, aecVars, channelVars>>

(* A block is inserted, refused or known already. *)
ProcessBlock(b) ==
    /\ Write("processed", {Event("processed", {b})})
    /\ ledger' = IF Chain[b] \ {b} \subseteq ledger THEN ledger \union {b} ELSE ledger

(* Variant: cemented blocks are not protected. *)
RollBackCemented(b) ==
    LET removed == {c \in ledger : b \in Chain[c]}
    IN  /\ Write("rolledBack", {Event("rolledBack", removed)} \ {Event("rolledBack", {})})
        /\ ledger' = ledger \ removed

(* A block goes with what depends on it, unless any of that is cemented;    *)
(* nothing is sent if nothing was rolled back.                              *)
RollBack(b) ==
    LET dependents == {c \in ledger : b \in Chain[c]}
        removed == IF dependents \intersect cemented = {} THEN dependents ELSE {}
    IN  /\ Write("rolledBack", {Event("rolledBack", removed)} \ {Event("rolledBack", {})})
        /\ ledger' = ledger \ removed

SendResults(kind) ==
    \E event \in unsent :
        /\ event.kind = kind
        /\ unsent' = unsent \ {event}
        /\ Send(event)
        /\ UNCHANGED <<ledgerVars, setVars, thread, signalled, aecVars, taken, announced>>
-----------------------------------------------------------------------------
(* The processor of ledger events                                          *)

(* Variant: half of the soft limit is not low enough. *)
ShouldCoolDownLonger(length) ==
    IF cool_down THEN length >= SoftLimit \div 2 ELSE length >= SoftLimit

(* should_cool_down(): on at the soft limit, off at half of it. *)
ShouldCoolDown(length) ==
    IF cool_down THEN length > SoftLimit \div 2 ELSE length >= SoftLimit

(* requeue_blocks(): whatever became of the block, it is tried again. *)
RequeueBlock(b) ==
    /\ deferred' = RemoveEntry(deferred, b)
    /\ set' = IF b \in ToSet(deferred) THEN PushBack(set, b) ELSE set

Handle(event) ==
    /\ IF event.kind = "processed" THEN \E b \in event.blocks : RequeueBlock(b)
       ELSE UNCHANGED <<deferred, set>>
    /\ announced' = IF event.kind = "confirmed" THEN announced \union event.blocks ELSE announced
    /\ IF event.kind = "failed" THEN \E b \in event.blocks : recent' = RemoveEntry(recent, b)
       ELSE UNCHANGED recent
    /\ aec_cooldown' = CASE event.kind = "nearFull" -> TRUE
                         [] event.kind = "recovered" -> FALSE
                         [] OTHER -> aec_cooldown

(* The next event is received, the cool-down switched if need be, and the    *)
(* event processed.                                                          *)
ProcessEvent ==
    /\ events # <<>>
    /\ events' = Tail(events)
    /\ cool_down' = ShouldCoolDown(Len(events'))
    /\ Handle(Head(events))
    /\ IF cool_down' # cool_down \/ deferred' # deferred THEN NotifyAll
       ELSE UNCHANGED signalled
    /\ UNCHANGED <<ledgerVars, current, near_full, thread, elected, warning, taken, unsent>>
-----------------------------------------------------------------------------
CementingStep ==
    \/ Loop \/ NotifyEvicted \/ TakeAfterEviction \/ Wake \/ WaitOn
    \/ BeginWrite \/ Refresh \/ CementBlock \/ DeferMissing \/ Commit
    \/ AnnounceConfirmed \/ ClearCurrent \/ SendRecovered

AecEventStep == Add \/ SendNearFull

Next ==
    \/ \E b \in Winner : Elect(b)
    \/ \E b \in Block : ProcessBlock(b) \/ RollBack(b)
    \/ AecEventStep
    \/ CementingStep
    \/ \E kind \in {"processed", "rolledBack"} : TakeWork(kind) \/ SendResults(kind)
    \/ ProcessEvent

Spec == Init /\ [][Next]_vars

(* Every thread goes on. A transaction is not too old each time a block is  *)
(* to be cemented, and a cool-down does not come back each time before the  *)
(* notified thread gets the mutex. Elections, blocks, rollbacks and the age *)
(* of entries owe nothing.                                                  *)
Fairness ==
    /\ WF_vars(AecEventStep)
    /\ WF_vars(CementingStep)
    /\ SF_vars(Wake)
    /\ SF_vars(CementBlock \/ DeferMissing \/ Commit)
    /\ \A kind \in {"processed", "rolledBack"} : WF_vars(SendResults(kind))
    /\ WF_vars(ProcessEvent)

FairSpec == Spec /\ Fairness
-----------------------------------------------------------------------------
(* Events on their way to the elections and to the confirming set. *)
OnTheWay == ToSet(events) \union unsent

Requested == ToSet(set) \union ToSet(deferred) \union current \union ToSet(thread.evicted)

Failed == {b \in Block : \E e \in OnTheWay : e.kind = "failed" /\ b \in e.blocks}

Abstract ==
    INSTANCE Confirmation WITH
        requested <- Requested, cemented <- cemented, announced <- announced, failed <- Failed

(* The confirming set keeps its promise to the elections: a winner stays in  *)
(* its care "until after ledger has them marked as confirmed" or until its   *)
(* failure is announced, only requested blocks and their dependencies are    *)
(* cemented, and every confirmation is announced once, whatever is rolled    *)
(* back or requeued while a batch is cemented.                               *)
KeepsPromise == Abstract!Spec

Thread ==
    [pc : {"top", "evict", "wait", "begin", "txn", "announce", "clear", "recovered"},
     evicted : Seq(Block), batch : Seq(Block), confirmed : SUBSET Block, count : Nat,
     recovered : BOOLEAN]

(* An event is about one block, or about all that was confirmed or rolled    *)
(* back together.                                                            *)
Events ==
    [kind : {"processed", "failed"}, blocks : {{b} : b \in Block}]
    \union [kind : {"confirmed", "rolledBack", "nearFull", "recovered"}, blocks : SUBSET Block]

(* The state stays in its types, entries are in a queue once.              *)
TypeOK ==
    /\ ledger \subseteq Block /\ cemented \subseteq ledger
    /\ set \in Seq(Block) /\ IsInjective(set)
    /\ deferred \in Seq(Block) /\ IsInjective(deferred)
    /\ current \subseteq Block
    /\ near_full \in BOOLEAN /\ cool_down \in BOOLEAN /\ signalled \in BOOLEAN
    /\ warning \in BOOLEAN /\ aec_cooldown \in BOOLEAN
    /\ thread \in Thread
    /\ recent \in Seq(Block) /\ IsInjective(recent) /\ Len(recent) <= MaxRecent
    /\ elected \in Seq(Block) /\ announced \subseteq cemented
    /\ taken \subseteq {"processed", "rolledBack"}
    /\ unsent \subseteq {e \in Events : e.kind \in {"processed", "rolledBack"}}
    /\ events \in Seq(Events)

(* A deferred block that is back in the ledger is tried again: the event    *)
(* that requeues it is on its way. That is why cementing_failed() is called *)
(* "while still holding the exclusive database write transaction".          *)
DeferredIsRetried ==
    \A b \in ToSet(deferred) \intersect ledger :
        \E e \in OnTheWay : e.kind = "processed" /\ b \in e.blocks

(* A root that is kept from another election because it was confirmed       *)
(* recently is cemented, still on its way to be cemented, or about to be    *)
(* forgotten because that failed.                                           *)
RecentIsCared ==
    ToSet(recent) \subseteq cemented \union ToSet(elected) \union Requested \union Failed

(* The confirming set does not stay in cool-down once all ledger events are *)
(* processed: nothing else would ever end it.                               *)
CooldownEnds == events = <<>> => ~ cool_down

(* A winner that is in the ledger gets cemented unless it is rolled back or *)
(* its failure is announced: no wake-up is lost and no cool-down lasts.     *)
WinnerGetsCemented ==
    \A b \in Winner :
        b \in ledger \intersect Requested ~> b \in cemented \union Failed \/ b \notin ledger

(* Everything that is cemented is announced to the elections in the end.    *)
CementedIsAnnounced == \A b \in Block : b \in cemented ~> b \in announced
=============================================================================
