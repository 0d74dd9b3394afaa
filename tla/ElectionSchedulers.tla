------------------------- MODULE ElectionSchedulers -------------------------
(***************************************************************************)
(* The four threads that start elections, around the container of active   *)
(* elections: the priority scheduler with its bucket queues, the manual,   *)
(* the optimistic and the hinted scheduler. Votes, forks, cementation,     *)
(* rollbacks, the ticker and the processor of election events run beside   *)
(* them; each takes the lock of the container on its own.                  *)
(***************************************************************************)
EXTENDS ActiveElections

CONSTANTS
    Reserved,       \* config.reserved_elections of a bucket
    MaxQueued,      \* config.max_blocks of a bucket
    MaxWaiting,     \* config.max_size of the optimistic scheduler
    MaxOptimistic,  \* elections the optimistic scheduler may have
    MaxHinted,      \* elections the hinted scheduler may have
    Saved,          \* the blocks the ledger may hold; the others are only forks
    Priority, Manual, Optimistic, Hinted,   \* those that come to each scheduler
    Reason,         \* reasons for a cool-down
    MaxEvents       \* bound on the events waiting when the container changes

ASSUME SchedulersAssumption ==
    /\ {Reserved, MaxQueued, MaxWaiting, MaxOptimistic, MaxHinted, MaxEvents} \subseteq Nat \ {0}
    /\ Saved \subseteq Block /\ Priority \cup Manual \cup Optimistic \cup Hinted \subseteq Saved
    /\ Reason \subseteq {"ConfirmingSetFull", "AecEventQueueFull"}

VARIABLES
    aec,         \* the container of active elections
    cooling,     \* reasons for which the container cools down
    cemented,    \* cemented blocks
    queue,       \* blocks queued in each priority bucket
    prio,        \* the thread of the priority scheduler
    manual,      \* blocks queued for manual elections
    candidates,  \* blocks queued for optimistic elections
    optimist,    \* the thread of the optimistic scheduler
    hinter       \* the thread of the hinted scheduler

vars == <<aec, cooling, cemented, queue, prio, manual, candidates, optimist, hinter>>

Thread(pc, hand) == [pc |-> pc, hand |-> hand]

Init ==
    /\ aec = Empty /\ cooling = {} /\ cemented = {}
    /\ queue = [i \in PrioBucket |-> {}] /\ prio = "check"
    /\ manual = <<>>
    /\ candidates = <<>> /\ optimist = Thread("check", {})
    /\ hinter = "wait"

(* Bound: less than MaxEvents events wait for their processor. *)
HasRoom == aec.events < MaxEvents

Confirmed(b) == \E c \in cemented : RootOf[c] = RootOf[b]

vacancy ==
    IF cooling # {} THEN 0 ELSE MaxElections - Cardinality(DOMAIN aec.by_root)
-----------------------------------------------------------------------------
(* The priority scheduler                                                  *)

Highest(blocks) == CHOOSE b \in blocks : \A c \in blocks : Time[c] <= Time[b]
Lowest(blocks) == CHOOSE b \in blocks : \A c \in blocks : Time[b] <= Time[c]

(* Variant: a full bucket still counts as one with room. *)
AvailableWhenFull(i, blocks, container, room) ==
    /\ blocks # {}
    /\ \/ /\ container.buckets[i] # {}
          /\ Time[Highest(blocks)] > Time[lowest_priority(container, i)]
       \/ bucket_len(container, i) <= Reserved /\ room

(* Can the bucket start an election for its best block? *)
Available(i, blocks, container, room) ==
    /\ blocks # {}
    /\ \/ /\ container.buckets[i] # {}
          /\ Time[Highest(blocks)] > Time[lowest_priority(container, i)]
       \/ bucket_len(container, i) < Reserved /\ room

predicate == \E i \in PrioBucket : Available(i, queue[i], aec, vacancy > 0)

(* notify_all() does not take the mutex the thread waits with: it reaches   *)
(* the thread only if that already waits.                                   *)
NotifyPrio == prio' = IF prio = "wait" THEN "check" ELSE prio

(* A block whose dependencies are confirmed is queued in its bucket; a full *)
(* bucket lets its worst block go.                                          *)
Activate(b) ==
    /\ ~ Confirmed(b)
    /\ b \notin queue[Balance[b]]
    /\ LET all == queue[Balance[b]] \cup {b}
           rest == IF Cardinality(all) > MaxQueued THEN all \ {Lowest(all)} ELSE all
       IN  /\ queue' = [queue EXCEPT ![Balance[b]] = rest]
           /\ IF b \in rest THEN NotifyPrio ELSE UNCHANGED prio
    /\ UNCHANGED <<aec, cooling, cemented, manual, candidates, optimist, hinter>>

(* The thread looks for work and decides to wait; only then it waits. *)
CheckPrio ==
    /\ prio = "check"
    /\ prio' = IF predicate THEN "run" ELSE "idle"
    /\ UNCHANGED <<aec, cooling, cemented, queue, manual, candidates, optimist, hinter>>

WaitPrio ==
    /\ prio = "idle"
    /\ prio' = "wait"
    /\ UNCHANGED <<aec, cooling, cemented, queue, manual, candidates, optimist, hinter>>

Room(container) ==
    cooling = {} /\ Cardinality(DOMAIN container.by_root) < MaxElections

(* Variant: the bucket does not make place. *)
ActivateBucketOver(state, i) ==
    LET top == Highest(state.queue[i])
        active == Has(state.aec, RootOf[top]) /\ BucketOf(state.aec.by_root[RootOf[top]]) = i
    IN  IF ~ Available(i, state.queue[i], state.aec, Room(state.aec)) THEN state
        ELSE [queue |-> [state.queue EXCEPT ![i] = @ \ {top}],
              aec |-> IF active THEN state.aec ELSE Insert(state.aec, top, "priority")]

(* The best block of bucket i gets an election; a full bucket gives up its  *)
(* lowest election first, even if the insertion then fails.                 *)
ActivateBucket(state, i) ==
    LET top == Highest(state.queue[i])
        active == Has(state.aec, RootOf[top]) /\ BucketOf(state.aec.by_root[RootOf[top]]) = i
        freed == IF bucket_len(state.aec, i) >= Reserved
                 THEN Erase(state.aec, RootOf[lowest_priority(state.aec, i)])
                 ELSE state.aec
    IN  IF ~ Available(i, state.queue[i], state.aec, Room(state.aec)) THEN state
        ELSE [queue |-> [state.queue EXCEPT ![i] = @ \ {top}],
              aec |-> IF active THEN state.aec ELSE Insert(freed, top, "priority")]

(* One pass over the buckets, from the highest balance down. *)
RunPrio ==
    /\ HasRoom
    /\ prio = "run"
    /\ LET after == FoldLeft(ActivateBucket, [queue |-> queue, aec |-> aec],
                             [k \in 1..PrioBuckets |-> PrioBuckets - k])
       IN  queue' = after.queue /\ aec' = after.aec
    /\ prio' = "check"
    /\ UNCHANGED <<cooling, cemented, manual, candidates, optimist, hinter>>
-----------------------------------------------------------------------------
(* The manual scheduler                                                    *)

(* Bound: a block is not queued twice. *)
PushManual(b) ==
    /\ b \notin ToSet(manual) /\ ~ Confirmed(b)
    /\ manual' = Append(manual, b)
    /\ UNCHANGED <<aec, cooling, cemented, queue, prio, candidates, optimist, hinter>>

(* The queue changes under the mutex the thread checks it with, so that no  *)
(* notification is lost; the block the thread has taken is as good as       *)
(* queued until it is inserted.                                             *)
RunManual ==
    /\ manual # <<>>
    /\ aec' = Insert(aec, Head(manual), "manual")
    /\ manual' = Tail(manual)
    /\ UNCHANGED <<cooling, cemented, queue, prio, candidates, optimist, hinter>>
-----------------------------------------------------------------------------
(* The optimistic scheduler; it polls, so notifications only hasten it     *)

Candidate(b) ==
    /\ ~ Confirmed(b)
    /\ b \notin ToSet(candidates) /\ Len(candidates) < MaxWaiting
    /\ candidates' = Append(candidates, b)
    /\ UNCHANGED <<aec, cooling, cemented, queue, prio, manual, optimist, hinter>>

OptimisticVacancy == MaxOptimistic > aec.count["optimistic"] /\ vacancy > 0

(* The lock of the container is released between the check and the insertion. *)
PopOptimistic ==
    /\ optimist.pc = "check"
    /\ candidates # <<>> /\ OptimisticVacancy
    /\ candidates' = Tail(candidates)
    /\ optimist' = Thread("insert", {Head(candidates)})
    /\ UNCHANGED <<aec, cooling, cemented, queue, prio, manual, hinter>>

(* The ledger snapshot may be older than the cementation of the block. *)
InsertOptimistic ==
    /\ optimist.pc = "insert"
    /\ \E b \in optimist.hand :
          \/ aec' = Insert(aec, b, "optimistic")
          \/ Confirmed(b) /\ UNCHANGED aec
    /\ optimist' = Thread("check", {})
    /\ UNCHANGED <<cooling, cemented, queue, prio, manual, candidates, hinter>>
-----------------------------------------------------------------------------
(* The hinted scheduler; it polls too                                      *)

HintedVacancy == MaxHinted > aec.count["hinted"] /\ vacancy > 0

CheckHinted ==
    /\ hinter = "wait" /\ HintedVacancy
    /\ hinter' = "insert"
    /\ UNCHANGED <<aec, cooling, cemented, queue, prio, manual, candidates, optimist>>

(* One check lets the blocks through that a cached tally leads to. *)
InsertHinted(b) ==
    /\ hinter = "insert"
    /\ ~ Confirmed(b)
    /\ aec' = Insert(aec, b, "hinted")
    /\ UNCHANGED <<cooling, cemented, queue, prio, manual, candidates, optimist, hinter>>

EndHinted ==
    /\ hinter = "insert"
    /\ hinter' = "wait"
    /\ UNCHANGED <<aec, cooling, cemented, queue, prio, manual, candidates, optimist>>
-----------------------------------------------------------------------------
(* What else happens to the container                                      *)

schedulerVars == <<queue, prio, manual, candidates, optimist, hinter>>

AddForkToElection(fork) ==
    /\ aec' \in AddFork(aec, fork)
    /\ UNCHANGED <<cooling, cemented, schedulerVars>>

Vote(b) ==
    /\ HasRoom
    /\ aec' \in ApplyVote(aec, b)
    /\ UNCHANGED <<cooling, cemented, schedulerVars>>

Tick ==
    /\ HasRoom
    /\ \E expired \in SUBSET DOMAIN aec.by_root : aec' = TransitionTime(aec, expired)
    /\ UNCHANGED <<cooling, cemented, schedulerVars>>

(* The event of a cemented block reaches the container. *)
Cement(b) ==
    /\ ~ Confirmed(b)
    /\ cemented' = cemented \cup {b}
    /\ aec' = ConfirmDependent(aec, b)
    /\ UNCHANGED <<cooling, schedulerVars>>

(* Blocks above a rolled back one lose their elections. *)
RolledBack(r) ==
    /\ HasRoom
    /\ Has(aec, r) /\ \A b \in cemented : RootOf[b] # r
    /\ aec' = Erase(aec, r)
    /\ UNCHANGED <<cooling, cemented, schedulerVars>>

ConfirmationFailed(b) ==
    /\ b \in ToSet(aec.recent) /\ b \notin cemented
    /\ aec' = ForgetRecent(aec, b)
    /\ UNCHANGED <<cooling, cemented, schedulerVars>>

SetCooldown(reason, on) ==
    /\ HasRoom
    /\ (reason \in cooling) # on
    /\ cooling' = IF on THEN cooling \cup {reason} ELSE cooling \ {reason}
    /\ aec' = IF cooling # {} /\ cooling' = {} THEN Notify(aec) ELSE aec
    /\ UNCHANGED <<cemented, schedulerVars>>

(* The event processor wakes the schedulers when an election has ended. *)
ProcessEvent ==
    /\ aec.events > 0
    /\ aec' = [aec EXCEPT !.events = @ - 1]
    /\ NotifyPrio
    /\ UNCHANGED <<cooling, cemented, queue, manual, candidates, optimist, hinter>>
-----------------------------------------------------------------------------
Scheduler ==
    \/ CheckPrio \/ WaitPrio \/ RunPrio
    \/ RunManual
    \/ PopOptimistic \/ InsertOptimistic
    \/ CheckHinted \/ EndHinted

Next ==
    \/ Scheduler
    \/ \E b \in Block : AddForkToElection(b) \/ Vote(b) \/ ConfirmationFailed(b)
    \/ \E b \in Saved : Cement(b)
    \/ \E b \in Priority : Activate(b)
    \/ \E b \in Manual : PushManual(b)
    \/ \E b \in Optimistic : Candidate(b)
    \/ \E b \in Hinted : InsertHinted(b)
    \/ \E r \in Root : RolledBack(r)
    \/ Tick
    \/ \E reason \in Reason, on \in BOOLEAN : SetCooldown(reason, on)
    \/ ProcessEvent

Spec == Init /\ [][Next]_vars

(* The threads of the priority and the manual scheduler and the event       *)
(* processor keep running.                                                  *)
Fairness ==
    /\ WF_vars(CheckPrio) /\ WF_vars(WaitPrio) /\ WF_vars(RunPrio)
    /\ WF_vars(ProcessEvent)

FairSpec == Spec /\ Fairness
-----------------------------------------------------------------------------
(* Every index of the container tells the same: a running election is in    *)
(* the bucket of its behavior and priority and nowhere else, exactly its    *)
(* candidates are routed to it, and the counters count it once              *)
(* (RootContainer, VoteRouter and count_by_behavior, through insertions,    *)
(* upgrades, forks and every way an election ends).                         *)
IndexesAgree ==
    LET elections == aec.by_root
    IN  /\ \A i \in Bucket :
              aec.buckets[i] = {elections[r].block :
                                  r \in {q \in DOMAIN elections : BucketOf(elections[q]) = i}}
        /\ DOMAIN aec.routes = UNION {elections[r].candidates : r \in DOMAIN elections}
        /\ \A b \in DOMAIN aec.routes : b \in elections[aec.routes[b]].candidates
        /\ \A k \in Behavior :
              aec.count[k] = Cardinality({r \in DOMAIN elections : elections[r].behavior = k})

(* A root that was confirmed by votes has no election while the cache       *)
(* remembers it, whichever scheduler still holds one of its blocks          *)
(* (ensure_not_recently_confirmed, confirm_if_quorum).                      *)
ConfirmedRootsRest == \A r \in DOMAIN aec.by_root : ~ recently_confirmed(aec, r)

PrioStep == prio = "run" /\ prio' = "check"

(* An election the priority scheduler ends to make place had a lower        *)
(* priority than a block that leaves the queue of the same bucket, though   *)
(* the thread found work under locks it has released since                  *)
(* (Bucket::activate, erase_lowest_prio_election).                          *)
EvictedForHigher ==
    [][PrioStep =>
        \A r \in DOMAIN aec.by_root \ DOMAIN aec'.by_root :
            LET i == BucketOf(aec.by_root[r])
            IN  \E b \in queue[i] \ queue'[i] : Time[b] > Time[aec.by_root[r].block]]_vars

(* A priority bucket grows beyond its reserved elections only by an         *)
(* election that is upgraded, though a better block may start one during a  *)
(* cool-down and without vacancy (Bucket::available, Bucket::activate).     *)
BucketWithinReserve ==
    [][\A i \in PrioBucket :
        bucket_len(aec', i) > bucket_len(aec, i) =>
            \/ bucket_len(aec', i) <= Reserved
            \/ \E r \in DOMAIN aec.by_root \cap DOMAIN aec'.by_root :
                  aec.by_root[r].behavior # aec'.by_root[r].behavior]_vars

(* The best block of a bucket that may start an election gets it, unless    *)
(* that changes (PriorityScheduler::activate, notify, run; the test         *)
(* activate_one_timely).                                                    *)
ActivatedTimely ==
    \A b \in Block :
        LET i == Balance[b]
            waits == /\ b \in queue[i] /\ b = Highest(queue[i]) /\ ~ Confirmed(b)
                     /\ Available(i, queue[i], aec, vacancy > 0)
        IN  waits ~> ~ waits
=============================================================================
