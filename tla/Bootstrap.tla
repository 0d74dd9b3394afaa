----------------------------- MODULE Bootstrap -----------------------------
(***************************************************************************)
(* The bootstrap client: three requesters ask peers for the blocks of      *)
(* candidate accounts, for the account of a missing block and for          *)
(* frontiers, responses feed the block queue, the block processor works on *)
(* the blocks, the block inspector learns from every result, whoever sent  *)
(* the block, and a cleanup thread forgets what took too long.             *)
(* Each step holds the mutex of BootstrapLogic; the ledger is reduced to   *)
(* the set of its blocks and the block processor to its queue of bootstrap *)
(* blocks.                                                                 *)
(* A cool-down of an account (last_request) may be over at any moment.     *)
(***************************************************************************)
EXTENDS BootstrapCandidates

CONSTANTS
    Chain,              \* the blocks of each account, as the network has them
    Source,             \* the send a block receives (None: receives nothing)
    Destination,        \* the account a block sends to (None: sends nothing)
    Genesis,            \* the account that is in the ledger from the start
    Peers,              \* ledgers of peers: the number of blocks of each account
    Live,               \* the blocks that live traffic brings
    PullCount,          \* blocks asked for (at least MIN_PULL_COUNT)
    MaxRequests,        \* config.max_requests
    Threshold,          \* config.block_processor_theshold
    ProcessorMax,       \* capacity of the block processor per source
    MaxPending,         \* max_pending of the frontier check pool
    MaxResults          \* bound: results the inspector has not seen yet

Account == DOMAIN Chain
Block == UNION {ToSet(Chain[a]) : a \in Account}
AccountOf == [b \in Block |-> CHOOSE a \in Account : b \in ToSet(Chain[a])]
Height == [b \in Block |-> CHOOSE i \in DOMAIN Chain[AccountOf[b]] : Chain[AccountOf[b]][i] = b]
FullPeer == [a \in Account |-> Len(Chain[a])]

ASSUME BootstrapAssumption ==
    /\ \A a, b \in Account : a # b => ToSet(Chain[a]) \intersect ToSet(Chain[b]) = {}
    /\ Source \in [Block -> Block \union {None}] /\ Destination \in [Block -> Account \union {None}]
    /\ Peers \subseteq [Account -> Nat] /\ FullPeer \in Peers
    /\ Live \subseteq Block /\ PullCount \in Nat \ {0, 1}
    /\ {MaxRequests, Threshold, ProcessorMax, MaxPending, MaxResults} \subseteq Nat \ {0}

VARIABLES
    saved,            \* the blocks in the ledger
    candidates,       \* CandidateAccounts
    block_queue,      \* BlockQueue
    running_queries,  \* the queries that wait for a response, oldest first
    to_check,         \* frontiers of peers queued for the frontier check pool
    overfill,         \* frontier_checker_overfill
    processor,        \* the bootstrap blocks queued in the block processor
    results           \* processed blocks the inspector has not seen yet

vars == <<saved, candidates, block_queue, running_queries, to_check, overfill, processor, results>>

Init ==
    /\ saved = {Chain[Genesis][1]}
    /\ candidates \in priority_up(Genesis, NoCandidates)
    /\ block_queue = EmptyBlockQueue
    /\ running_queries = << >> /\ to_check = << >> /\ overfill = FALSE
    /\ processor = << >> /\ results = << >>

SavedOf(a) == {i \in DOMAIN Chain[a] : Chain[a][i] \in saved}

-----------------------------------------------------------------------------
\* Requesters

Query(source, account, hash) == [source |-> source, account |-> account, hash |-> hash]
Running(source) == {q \in ToSet(running_queries) : q.source = source}

\* ChannelWaiter and QuerySender; a channel that refuses the message leaves
\* everything as it is.
Send(query) ==
    /\ Len(running_queries) < MaxRequests
    /\ running_queries' = Append(running_queries, query)
    /\ UNCHANGED <<saved, candidates, block_queue, to_check, overfill, processor, results>>

\* The head or (safe) the confirmed frontier; None, that is the account, when
\* there is none.  Only the first genesis block is confirmed during the run.
OptimisticStart(a) == IF SavedOf(a) = {} THEN None ELSE Chain[a][Max(SavedOf(a))]
SafeStart(a) == IF a = Genesis THEN Chain[Genesis][1] ELSE None
PullStarts(a) == {OptimisticStart(a), SafeStart(a)}

RequestBlocks(a, start) ==
    /\ Len(processor) < Threshold
    /\ a \in Prioritized(candidates)
    /\ ~contains_account(a, block_queue)
    /\ \A q \in Running("Priority") : q.account # a
    /\ start \in PullStarts(a)
    /\ Send(Query("Priority", a, start))

RequestDependency ==
    LET next == SelectSeq(UnknownDependencies(candidates),
                          LAMBDA h : \A q \in Running("Dependencies") : q.hash # h)
    IN  next # << >> /\ Send(Query("Dependencies", None, Head(next)))

RequestFrontiers ==
    /\ ~priority_half_full(candidates)
    /\ ~overfill
    /\ Send(Query("Frontiers", None, None))

-----------------------------------------------------------------------------
\* Responses

\* enqueue_next_blocks: waiting blocks go to the block processor, in any
\* order, until it refuses one.
EnqueueNext(q) ==
    LET free == ProcessorMax - Len(processor)
    IN  \E next \in kSubset(Min({free, Cardinality(DOMAIN q.waiting)}), DOMAIN q.waiting) :
           /\ block_queue' = enqueued_for_processing(next, q)
           /\ \E order \in SetToSeqs(next) : processor' = processor \o order

\* What the bootstrap server of a peer answers.
StartHeight(query) == IF query.hash = None THEN 1 ELSE Height[query.hash]

BlocksOf(peer, query) ==
    LET from == StartHeight(query)
    IN  SubSeq(Chain[query.account], from, Min({peer[query.account], from + PullCount - 1}))

AccountInfoOf(peer, hash) ==
    IF peer[AccountOf[hash]] < Height[hash] THEN None ELSE AccountOf[hash]

FrontiersOf(peer) == [a \in {x \in Account : peer[x] > 0} |-> Chain[a][peer[a]]]

\* verify_blocks; a peer sends what was asked for.
NothingNew(query, blocks) == Len(blocks) = 0 \/ (query.hash # None /\ Len(blocks) = 1)

\* The first block of a response to a hash is the one the ledger has.
ProcessBlocks(query, blocks) ==
    IF NothingNew(query, blocks)
    THEN /\ candidates' \in priority_down(query.account, candidates)
         /\ EnqueueNext(block_queue)
    ELSE /\ candidates' = candidates
         /\ EnqueueNext(Insert(query.account,
                               IF query.hash = None THEN blocks ELSE Tail(blocks), block_queue))

ProcessAccountInfo(query, account) ==
    /\ candidates' \in IF account = None THEN {candidates}
                       ELSE UNION {priority_up(account, c) :
                                      c \in dependency_update(query.hash, account, candidates)}
    /\ EnqueueNext(block_queue)

ProcessFrontiers(frontiers) ==
    /\ to_check' = IF frontiers = << >> THEN to_check ELSE Append(to_check, frontiers)
    /\ candidates' = candidates
    /\ EnqueueNext(block_queue)

\* enqueue_frontiers: the worker may have taken one already; it is no longer queued.
UpdateOverfill == \E taken \in {0, 1} : overfill' = (Len(to_check') - taken >= MaxPending)

\* A peer answers the i-th running query.  A response that comes after the
\* query timed out finds no query and changes nothing.
Respond(i, peer) ==
    LET query == running_queries[i]
    IN  /\ running_queries' = RemoveAt(running_queries, i)
        /\ \/ /\ query.source = "Priority" /\ UNCHANGED to_check
              /\ ProcessBlocks(query, BlocksOf(peer, query))
           \/ /\ query.source = "Dependencies" /\ UNCHANGED to_check
              /\ ProcessAccountInfo(query, AccountInfoOf(peer, query.hash))
           \/ /\ query.source = "Frontiers"
              /\ ProcessFrontiers(FrontiersOf(peer))
        /\ UpdateOverfill
        /\ UNCHANGED <<saved, results>>

\* The account is behind in the ledger, or not in it although a send to it is.
IsOutdated(a, hash) ==
    IF SavedOf(a) # {} THEN hash \notin saved
    ELSE \E s \in saved : Destination[s] = a /\ \A r \in saved : Source[r] # s

Outdated(frontiers) == {a \in DOMAIN frontiers : IsOutdated(a, frontiers[a])}

CheckFrontiers ==
    /\ to_check # << >>
    /\ to_check' = Tail(to_check)
    /\ candidates' \in FoldSet(LAMBDA a, set : UNION {priority_up(a, c) : c \in set},
                               {candidates}, Outdated(Head(to_check)))
    /\ UNCHANGED <<saved, block_queue, running_queries, overfill, processor, results>>

-----------------------------------------------------------------------------
\* The block processor

Status(b) ==
    CASE b \in saved -> "Old"
      [] Height[b] > 1 /\ Chain[AccountOf[b]][Height[b] - 1] \notin saved -> "GapPrevious"
      [] Source[b] # None /\ Source[b] \notin saved -> "GapSource"
      [] OTHER -> "Ok"

\* A live block waits in a queue of its own, where it changes nothing, so it
\* arrives and is processed in one step.  The result of one that the ledger
\* has already matters only to the block queue.
Process(b, source) ==
    /\ Len(results) < MaxResults
    /\ saved' = IF Status(b) = "Ok" THEN saved \union {b} ELSE saved
    /\ results' = Append(results, [block |-> b, source |-> source, status |-> Status(b)])
    /\ UNCHANGED <<candidates, block_queue, running_queries, to_check, overfill>>

ProcessLive(b) ==
    /\ b \notin saved \/ b \in DOMAIN block_queue.in_block_processor
    /\ Process(b, "Live")
    /\ UNCHANGED processor

ProcessBootstrap ==
    /\ processor # << >>
    /\ Process(Head(processor), "Bootstrap")
    /\ processor' = Tail(processor)

-----------------------------------------------------------------------------
\* The block inspector

\* Blocks from live traffic need no further bootstrapping.
InspectSaved(r, c) ==
    LET account == AccountOf[r.block]
        destination == Destination[r.block]
        own == UNION {priority_up(account, d) : d \in unblock(account, None, c)}
    IN  IF r.source = "Live" THEN {c}
        ELSE IF destination = None THEN own
        ELSE UNION {IF Unblocks(destination, r.block, d) THEN unblock(destination, r.block, d)
                    ELSE priority_up(destination, d) : d \in own}

InspectError(r, c) ==
    CASE r.status = "GapSource" /\ r.source = "Bootstrap" -> block(AccountOf[r.block], Source[r.block], c)
      [] /\ r.status = "GapPrevious" /\ r.source = "Live"
         /\ ~priority_half_full(c) /\ ~blocked_half_full(c) -> priority_up(AccountOf[r.block], c)
      [] OTHER -> {c}

\* A plausible slip: the blocks of the account stay queued after a failure.
InspectKeepsFailed(i) ==
    LET r == results[i]
    IN  /\ results' = RemoveAt(results, i)
        /\ candidates' \in IF r.status = "Ok" THEN InspectSaved(r, candidates)
                           ELSE InspectError(r, candidates)
        /\ EnqueueNext(IF r.status = "Ok" THEN processed(r.block, block_queue) ELSE block_queue)
        /\ UNCHANGED <<saved, running_queries, to_check, overfill>>

\* The threads of the block processor deliver their results in any order.
Inspect(i) ==
    LET r == results[i]
    IN  /\ results' = RemoveAt(results, i)
        /\ candidates' \in IF r.status = "Ok" THEN InspectSaved(r, candidates)
                           ELSE InspectError(r, candidates)
        /\ EnqueueNext(IF r.status = "Ok" THEN processed(r.block, block_queue)
                       ELSE processing_failed(r.block, block_queue))
        /\ UNCHANGED <<saved, running_queries, to_check, overfill>>

-----------------------------------------------------------------------------
\* A plausible slip: queries wait for their response forever.
CleanupKeepsQueries(decayed, timed_out) ==
    /\ candidates' \in sync_dependencies(decay_blocking(decayed, candidates))
    /\ UNCHANGED <<saved, block_queue, running_queries, to_check, overfill, processor, results>>

\* Cleanup: the oldest blocking entries decay, the oldest queries time out and
\* accounts known to hold a dependency are asked about again.
Cleanup(decayed, timed_out) ==
    /\ candidates' \in sync_dependencies(decay_blocking(decayed, candidates))
    /\ running_queries' = SubSeq(running_queries, timed_out + 1, Len(running_queries))
    /\ UNCHANGED <<saved, block_queue, to_check, overfill, processor, results>>

-----------------------------------------------------------------------------
Next ==
    \/ \E a \in Account : \E start \in PullStarts(a) : RequestBlocks(a, start)
    \/ RequestDependency
    \/ RequestFrontiers
    \/ \E i \in DOMAIN running_queries, peer \in Peers : Respond(i, peer)
    \/ CheckFrontiers
    \/ \E b \in Live : ProcessLive(b)
    \/ ProcessBootstrap
    \/ \E i \in DOMAIN results : Inspect(i)
    \/ \E decayed \in 0..Len(candidates.blocking), timed_out \in 0..Len(running_queries) :
          Cleanup(decayed, timed_out)

Spec == Init /\ [][Next]_vars

\* Every requester gets its turn and, asked again and again, some peer answers
\* with all there is; the threads run; an entry does not stay forever.
FullResponse(query) ==
    \E i \in DOMAIN running_queries : running_queries[i] = query /\ Respond(i, FullPeer)

InspectNext == results # << >> /\ Inspect(1)

Decays(a) ==
    /\ a \in Blocked(candidates)
    /\ \E decayed \in 1..Len(candidates.blocking) : Cleanup(decayed, 0) /\ a \notin Blocked(candidates')

TimesOut == \E timed_out \in 1..Len(running_queries) : Cleanup(0, timed_out)

Fairness ==
    /\ \A a \in Account :
          /\ SF_vars(RequestBlocks(a, OptimisticStart(a)))
          /\ SF_vars(FullResponse(Query("Priority", a, OptimisticStart(a))))
    /\ SF_vars(RequestDependency)
    /\ \A b \in {Source[r] : r \in Block} \ {None} : SF_vars(FullResponse(Query("Dependencies", None, b)))
    /\ SF_vars(RequestFrontiers) /\ SF_vars(FullResponse(Query("Frontiers", None, None)))
    /\ WF_vars(CheckFrontiers)
    /\ SF_vars(ProcessBootstrap)
    /\ WF_vars(InspectNext) /\ WF_vars(TimesOut) /\ \A a \in Account : WF_vars(Decays(a))

FairSpec == Spec /\ Fairness

-----------------------------------------------------------------------------
\* The block queue and the candidates stay in order, whatever is answered,
\* processed and inspected when: every queued account has its first block in
\* exactly one of the two maps and the maps hold nothing else, so that no
\* lookup that expects an account (block_queue.rs:82, 114, 148) fails; a block
\* believed to be in the block processor is there, or its result is on its way,
\* so that the account does not stay queued; an account is never a candidate
\* and blocked at once (candidate_accounts.rs:200).
NothingIsStuck ==
    LET q == block_queue
        fronts == {<<Head(q.accounts[a]), a>> : a \in DOMAIN q.accounts}
        pairs(f) == {<<h, f[h]>> : h \in DOMAIN f}
    IN  /\ \A a \in DOMAIN q.accounts : q.accounts[a] # << >>
        /\ pairs(q.waiting) \union pairs(q.in_block_processor) = fronts
        /\ DOMAIN q.waiting \intersect DOMAIN q.in_block_processor = {}
        /\ q.blocks = FoldSet(LAMBDA a, n : n + Len(q.accounts[a]), 0, DOMAIN q.accounts)
        /\ DOMAIN q.in_block_processor \subseteq
              ToSet(processor) \union {results[i].block : i \in DOMAIN results}
        /\ Prioritized(candidates) \intersect Blocked(candidates) = {}
        /\ Cardinality(Prioritized(candidates)) <= PrioritiesMax
        /\ Len(candidates.blocking) <= BlockingMax

\* The node gets every block of the network, though queries time out, peers
\* are behind and blocks arrive in the wrong order, unless the frontier scan
\* stops: the overfill flag is only computed anew when a response arrives
\* (frontier_check_pool.rs:48), so a flag set by the last one stays.
CatchesUp == <>(saved = Block) \/ <>[]overfill
=============================================================================
