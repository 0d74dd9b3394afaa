--------------------------- MODULE BlockPipeline ---------------------------
(***************************************************************************)
(* The way of a block into the ledger: peers, elections and local callers  *)
(* push into the queue of the block processor, its threads take batches    *)
(* and process them, blocks that miss another one wait in the unchecked    *)
(* map, and a ticker brings back those whose dependency has arrived.       *)
(* The ledger is reduced to the set of its blocks (Ledger has the tables). *)
(***************************************************************************)
EXTENDS FairQueue, TLC

CONSTANTS
    Blocks,        \* the blocks in the order of their hashes
    Previous,      \* the block before (None: the first one of a chain)
    Source,        \* the received send block (None: receives nothing)
    Peer,          \* the origins that are channels to peers
    FromPeer, Local,  \* blocks sent by peers, by local callers
    Thread,        \* the block processor threads
    BatchSize,     \* config.batch_size
    MaxUnchecked,  \* max_blocks of the unchecked map
    SearchSize     \* batch_size of the re-enqueuer

Block == ToSet(Blocks)

ASSUME BlockPipelineAssumption ==
    /\ Previous \in [Block -> Block \union {None}] /\ Source \in [Block -> Block \union {None}]
    /\ Origin = Peer \union {"unchecked", "local"}
    /\ FromPeer \union Local \subseteq Block
    /\ {BatchSize, MaxUnchecked, SearchSize} \subseteq Nat \ {0}

VARIABLES
    saved,      \* blocks in the ledger
    queue,      \* the queue of the block processor
    cool_down,  \* is the block processor told to pause?
    worker,     \* the block processor threads
    signalled,  \* idle threads that look into the queue and do not wait (any more)
    unchecked,  \* entries <<dependency, block>>, oldest first
    search,     \* the ticker of the re-enqueuer
    caller,     \* the local caller that waits for the result of its block
    dead        \* channels that were cleaned up

vars == <<saved, queue, cool_down, worker, signalled, unchecked, search, caller, dead>>

Idle == [pc |-> "wait", batch |-> <<>>, result |-> <<>>, hand |-> <<>>]

Init ==
    /\ saved = {}
    /\ queue = EmptyQueue /\ cool_down = FALSE
    /\ worker = [t \in Thread |-> Idle] /\ signalled = Thread
    /\ unchecked = <<>>
    /\ search = [start |-> 1, found |-> {}, hand |-> <<>>]
    /\ caller = "idle"
    /\ dead = {}

HashOrder(b) == CHOOSE i \in DOMAIN Blocks : Blocks[i] = b

(* Threads that wait on the condition: for a batch, or because of the       *)
(* backlog.                                                                 *)
Waiting == {t \in Thread : worker[t].pc \in {"wait", "throttled"}} \ signalled

(* A thread that is woken without reason to go on waits again at once. *)
GoOn(t) == worker[t].pc = "wait"

(* notify_one() reaches any one of the waiting threads, if there is one. *)
NotifyOne ==
    \/ Waiting = {} /\ UNCHANGED signalled
    \/ \E t \in Waiting : signalled' = IF GoOn(t) THEN signalled \union {t} ELSE signalled

NotifyAll == signalled' = signalled \union {t \in Waiting : GoOn(t)}

(* push() ignores the rest of a block it cannot take. *)
PushBlock(o, b) ==
    /\ queue' = Push(queue, o, b)
    /\ IF Accepts(queue, o) THEN NotifyOne ELSE UNCHANGED signalled
-----------------------------------------------------------------------------
(* Where blocks come from                                                  *)

Receive(o, b) ==
    /\ o \notin dead
    /\ PushBlock(o, b)
    /\ UNCHANGED <<saved, cool_down, worker, unchecked, search, caller, dead>>

(* push_blocking(): the caller waits for the result, also if the queue did  *)
(* not take its block.                                                      *)
PushBlocking(b) ==
    /\ caller = "idle"
    /\ PushBlock("local", b)
    /\ caller' = IF Accepts(queue, "local") THEN "waiting" ELSE "refused"
    /\ UNCHANGED <<saved, cool_down, worker, unchecked, search, dead>>

clean_up_dead_channels(o) ==
    /\ o \notin dead
    /\ dead' = dead \union {o}
    /\ queue' = RemoveOrigin(queue, o)
    /\ UNCHANGED <<saved, cool_down, worker, signalled, unchecked, search, caller>>

(* The processor of ledger events asks for a pause while its channel is     *)
(* full. Here what fills it are the results of the block processor.         *)
set_cooldown(on) ==
    /\ cool_down # on
    /\ on => \E t \in Thread : worker[t].batch # <<>>
    /\ cool_down' = on
    /\ NotifyAll
    /\ UNCHANGED <<saved, queue, worker, unchecked, search, caller, dead>>
-----------------------------------------------------------------------------
(* The threads of the block processor                                      *)

Step(t, w) == worker' = [worker EXCEPT ![t] = w]

(* pop_blocking(): one pass of the loop under the queue's mutex. Before the *)
(* thread starts with a batch it may have to wait_for_backlog(), on the     *)
(* condition of the queue and at most a second.                             *)
PopBlocking(t) ==
    /\ t \in signalled
    /\ LET next == NextBatch(queue, BatchSize)
       IN  IF cool_down \/ is_empty(queue)
           THEN Step(t, Idle) /\ UNCHANGED queue
           ELSE /\ \E pc \in {"process", "throttled"} :
                      Step(t, [Idle EXCEPT !.pc = pc, !.batch = next.items])
                /\ queue' = next.rest
    /\ signalled' = signalled \ {t}
    /\ UNCHANGED <<saved, cool_down, unchecked, search, caller, dead>>

WaitTimeout(t) ==
    /\ worker[t].pc = "throttled"
    /\ Step(t, [worker[t] EXCEPT !.pc = "process"])
    /\ UNCHANGED <<saved, queue, cool_down, signalled, unchecked, search, caller, dead>>

Missing(d) == d # None /\ d \notin saved

Validate(b) ==
    CASE b \in saved                   -> "old"
      [] Missing(Previous[b])   -> "gapPrevious"
      [] Missing(Source[b])     -> "gapSource"
      [] OTHER                         -> "ok"

(* process_batch(): the whole batch is validated before its first block is  *)
(* inserted, which needs the head of the account it was validated with.     *)
ProcessBatch(t) ==
    LET batch == worker[t].batch
        Inserted[n \in 0..Len(batch)] ==
            IF n = 0 THEN [ledger |-> saved, result |-> <<>>]
            ELSE LET b == batch[n].block
                     before == Inserted[n - 1]
                     result == IF Validate(b) = "ok" /\ b \in before.ledger THEN "conflict"
                               ELSE Validate(b)
                 IN  [ledger |-> before.ledger \union {x \in {b} : result = "ok"},
                      result |-> Append(before.result, result)]
    IN  /\ worker[t].pc = "process"
        /\ saved' = Inserted[Len(batch)].ledger
        /\ Step(t, [worker[t] EXCEPT !.pc = "results", !.result = Inserted[Len(batch)].result])
        /\ UNCHANGED <<queue, cool_down, signalled, unchecked, search, caller, dead>>
-----------------------------------------------------------------------------
(* The unchecked map                                                       *)

(* put(): an entry is there once; the oldest one goes when there are too    *)
(* many.                                                                    *)
Put(d, b) ==
    LET all == IF <<d, b>> \in ToSet(unchecked) THEN unchecked ELSE Append(unchecked, <<d, b>>)
    IN  unchecked' = IF Len(all) > MaxUnchecked THEN Tail(all) ELSE all

InKeyOrder(entries) ==
    SetToSortSeq(entries, LAMBDA x, y :
        \/ HashOrder(x[1]) < HashOrder(y[1])
        \/ x[1] = y[1] /\ HashOrder(x[2]) < HashOrder(y[2]))

(* pop_dependend_blocks(): the blocks that wait for one of ds. *)
Dependend(ds) ==
    LET keys == InKeyOrder({e \in ToSet(unchecked) : e[1] \in ds})
    IN  [i \in DOMAIN keys |-> keys[i][2]]

Without(ds) == SelectSeq(unchecked, LAMBDA e : e[1] \notin ds)

(* Variant: the block is only taken out of the map. *)
ResultForgotten(t) ==
    LET w == worker[t]
        b == w.batch[Len(w.result)].block
    IN  /\ w.pc = "results" /\ w.hand = <<>> /\ w.result # <<>>
        /\ unchecked' = IF Last(w.result) = "ok" THEN Without({b}) ELSE unchecked
        /\ Step(t, [w EXCEPT !.result = Front(@)])
        /\ UNCHANGED <<saved, queue, cool_down, signalled, search, caller, dead>>

(* The results are handled from the last to the first, so that the blocks   *)
(* that follow another one in the batch already wait when that one is done. *)
HandleResult(t) ==
    LET w == worker[t]
        b == w.batch[Len(w.result)].block
        r == Last(w.result)
    IN  /\ w.pc = "results" /\ w.hand = <<>> /\ w.result # <<>>
        /\ CASE r = "ok"          -> unchecked' = Without({b})
             [] r = "gapPrevious" -> Put(Previous[b], b)
             [] r = "gapSource"   -> Put(Source[b], b)
             [] OTHER             -> UNCHANGED unchecked
        /\ Step(t, [w EXCEPT !.result = Front(@), !.hand = IF r = "ok" THEN Dependend({b}) ELSE <<>>])
        /\ UNCHANGED <<saved, queue, cool_down, signalled, search, caller, dead>>

(* enqueue_satisfied_blocks(), whether the queue takes the block or not.    *)
ReenqueueDependend(t) ==
    /\ worker[t].hand # <<>>
    /\ PushBlock("unchecked", Head(worker[t].hand))
    /\ Step(t, [worker[t] EXCEPT !.hand = Tail(@)])
    /\ UNCHANGED <<saved, cool_down, unchecked, search, caller, dead>>

(* The waiters of the batch get their results. *)
FinishBatch(t) ==
    /\ worker[t].pc = "results" /\ worker[t].hand = <<>> /\ worker[t].result = <<>>
    /\ caller' = IF \E i \in DOMAIN worker[t].batch : worker[t].batch[i].origin = "local"
                 THEN "idle"
                 ELSE caller
    /\ Step(t, Idle)
    /\ signalled' = signalled \union {t}
    /\ UNCHANGED <<saved, queue, cool_down, unchecked, search, dead>>
-----------------------------------------------------------------------------
(* The ticker                                                              *)

Candidates(entries) == InKeyOrder({e \in ToSet(entries) : HashOrder(e[1]) >= search.start})

(* Variant: after the last entry the search does not start again. *)
NextStartOnward(candidates) ==
    IF candidates = <<>> THEN search.start ELSE HashOrder(Last(candidates)[1]) + 1

(* next_search_start: behind the last candidate, or the beginning. *)
NextStart(candidates) ==
    IF candidates = <<>> THEN 1 ELSE HashOrder(Last(candidates)[1]) + 1

(* discard_old_entries(): the oldest entries, as many as are too old. A     *)
(* whole search takes far less than that age (at most 66 ticks of a second, *)
(* against 15 minutes), so that none of them waits for a block that came.   *)
AfterDiscard ==
    {SubSeq(unchecked, n + 1, Len(unchecked)) :
        n \in {k \in 0..Len(unchecked) : \A i \in 1..k : unchecked[i][1] \notin saved}}

(* The end of a tick, discard_old_entries(), and the beginning of the next  *)
(* one, fill_candidates() and filter_satisfied_candidates().                *)
Search ==
    /\ search.found = {} /\ search.hand = <<>>
    /\ unchecked' \in AfterDiscard
    /\ LET all == Candidates(unchecked')
           candidates == SubSeq(all, 1, Min({SearchSize, Len(all)}))
       IN  search' = [search EXCEPT !.start = NextStart(candidates),
                          !.found = {candidates[i][1] : i \in DOMAIN candidates} \cap saved]
    /\ UNCHANGED <<saved, queue, cool_down, worker, signalled, caller, dead>>

(* pop_satisfied_candidates() *)
PopSatisfied ==
    /\ search.found # {}
    /\ search' = [search EXCEPT !.found = {}, !.hand = Dependend(search.found)]
    /\ unchecked' = Without(search.found)
    /\ UNCHANGED <<saved, queue, cool_down, worker, signalled, caller, dead>>

ReenqueueSatisfied ==
    /\ search.hand # <<>>
    /\ PushBlock("unchecked", Head(search.hand))
    /\ search' = [search EXCEPT !.hand = Tail(@)]
    /\ UNCHANGED <<saved, cool_down, worker, unchecked, caller, dead>>
-----------------------------------------------------------------------------
ThreadStep(t) ==
    \/ PopBlocking(t) \/ WaitTimeout(t)
    \/ ProcessBatch(t)
    \/ HandleResult(t) \/ ReenqueueDependend(t) \/ FinishBatch(t)

Tick == Search \/ PopSatisfied \/ ReenqueueSatisfied

Next ==
    \/ \E o \in Peer, b \in FromPeer : Receive(o, b)
    \/ \E b \in Local : PushBlocking(b)
    \/ \E o \in Peer : clean_up_dead_channels(o)
    \/ \E on \in BOOLEAN : set_cooldown(on)
    \/ \E t \in Thread : ThreadStep(t)
    \/ Tick

Spec == Init /\ [][Next]_vars

(* The threads and the ticker run, and a pause ends: the processor of       *)
(* ledger events, which asks for it, ends it when its channel is drained    *)
(* (CooldownEnds in ConfirmingSet).                                         *)
Fairness ==
    /\ \A t \in Thread : WF_vars(ThreadStep(t))
    /\ WF_vars(Tick)
    /\ WF_vars(set_cooldown(FALSE))

FairSpec == Spec /\ Fairness
-----------------------------------------------------------------------------
(* The blocks of the batch whose result is not handled yet. *)
InWork(t) ==
    LET w == worker[t]
    IN  {w.batch[i].block : i \in IF w.pc = "results" THEN DOMAIN w.result ELSE DOMAIN w.batch}

Queued(o) == IF o \in DOMAIN queue.queues THEN ToSet(queue.queues[o]) ELSE {}

(* The state stays in its types, and the queue's counter and position fit   *)
(* its contents through pushes, batches and the removal of channels: or     *)
(* next() would look for ever for an item that is not there.                *)
TypeOK ==
    /\ saved \subseteq Block
    /\ Consistent(queue)
    /\ IsInjective(unchecked) /\ Len(unchecked) <= MaxUnchecked
    /\ search.start \in 1..(Len(Blocks) + 1)
    /\ signalled \subseteq {t \in Thread : worker[t].pc = "wait"}
    /\ dead \subseteq Peer

(* Blocks that the node has taken and not decided upon. *)
Held ==
    UNION {Queued(o) : o \in Origin}
        \union UNION {InWork(t) \union ToSet(worker[t].hand) : t \in Thread}
        \union {e[2] : e \in ToSet(unchecked)}
        \union ToSet(search.hand)

(* A block that was taken does not get lost: it is only let go when it is   *)
(* saved, when it was queued for a channel that died, when the queue or the *)
(* unchecked map is full, or when it waited too long.                       *)
HeldUntilDecided ==
    [][\A b \in Held \ Held' :
          \/ b \in saved
          \/ dead' # dead
          \/ ~ Accepts(queue, "unchecked")
          \/ Len(unchecked) = MaxUnchecked
          \/ unchecked' # unchecked /\ search.found = {} /\ search.hand = <<>>]_vars

(* A block that waits in the unchecked map for a block that is in the       *)
(* ledger is found: by the thread that saved the dependency or, if the      *)
(* block came too late for that, by the search of the ticker.               *)
WaitingIsFound ==
    \A b \in Block : \A d \in {Previous[b], Source[b]} \ {None} :
        <<d, b>> \in ToSet(unchecked) /\ d \in saved
            ~> <<d, b>> \notin ToSet(unchecked) \/ d \notin saved

(* A local caller whose block was taken gets its result, however many       *)
(* blocks peers send and elections force: no origin starves, no wake-up is  *)
(* lost for good to a thread that waits because of the backlog, and a pause *)
(* does not stop the threads.                                               *)
BlockingPushReturns == caller = "waiting" ~> caller = "idle"
=============================================================================
