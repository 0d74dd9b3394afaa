------------------------ MODULE BootstrapCandidates ------------------------
(***************************************************************************)
(* The two containers of the bootstrap client that other steps work on:    *)
(*                                                                         *)
(* CandidateAccounts, a record c: c.priorities maps the accounts to ask    *)
(* peers about to their number of failed requests, c.blocking is the       *)
(* sequence of accounts that wait for a block of another account.  The     *)
(* priority of an entry is left out: which entry has the lowest one is a   *)
(* choice, so these operators give the SET of the possible results.        *)
(*                                                                         *)
(* BlockQueue, a record q: the blocks received for each account go to the  *)
(* block processor one at a time.                                          *)
(***************************************************************************)
EXTENDS Integers, Sequences, FiniteSets, FiniteSetsExt, SequencesExt, Functions, Relation, TLC

CONSTANTS
    PrioritiesMax, BlockingMax,  \* config.priorities_max, config.blocking_max
    MaxFails,                    \* CandidateAccounts::MAX_FAILS
    MaxAccounts,                 \* BlockQueue::max_accounts
    None                         \* a zero hash, a zero account

ASSUME CandidatesAssumption == {PrioritiesMax, BlockingMax, MaxFails, MaxAccounts} \subseteq Nat \ {0}

Without(f, keys) == Restrict(f, DOMAIN f \ keys)

-----------------------------------------------------------------------------
\* Candidate accounts

NoCandidates == [priorities |-> << >>, blocking |-> << >>]

Prioritized(c) == DOMAIN c.priorities
Blocked(c) == {c.blocking[i].account : i \in DOMAIN c.blocking}

priority_half_full(c) == Cardinality(Prioritized(c)) > PrioritiesMax \div 2
blocked_half_full(c) == Len(c.blocking) > BlockingMax \div 2

\* The entries of `accounts` go, and all that wait for an account that went.
RemoveWithDependents(blocking, accounts) ==
    LET entries == ToSet(blocking)
        all == {e.account : e \in entries}
        waits == [x, y \in all |-> [account |-> x, dependency_account |-> y] \in
                     {[account |-> e.account, dependency_account |-> e.dependency_account] : e \in entries}]
        reaches == ReflexiveTransitiveClosure(waits, all)
    IN  SelectSeq(blocking, LAMBDA e : ~ \E a \in accounts : reaches[e.account, a])

\* Every operation inserts one entry at most.
trim_overflow(c) ==
    {[priorities |-> Restrict(c.priorities, kept),
      blocking |-> IF Len(c.blocking) > BlockingMax
                   THEN RemoveWithDependents(c.blocking, {Head(c.blocking).account})
                   ELSE c.blocking] :
        kept \in kSubset(Min({PrioritiesMax, Cardinality(Prioritized(c))}), Prioritized(c))}

priority_up(a, c) ==
    IF a \in Blocked(c) THEN {c}
    ELSE trim_overflow([c EXCEPT !.priorities = (a :> 0) @@ @])

\* An entry without failures has a priority of 2 or more and is kept; one that
\* failed is also erased when its halved priority got too low.
priority_down(a, c) ==
    IF a \notin Prioritized(c) THEN {c}
    ELSE {d \in {[c EXCEPT !.priorities[a] = @ + 1], [c EXCEPT !.priorities = Without(@, {a})]} :
             /\ c.priorities[a] >= MaxFails => a \notin Prioritized(d)
             /\ c.priorities[a] = 0 => a \in Prioritized(d)}

block(a, dependency, c) ==
    IF a \notin Prioritized(c) THEN {c}
    ELSE trim_overflow([priorities |-> Without(c.priorities, {a}),
                        blocking |-> Append(c.blocking, [account |-> a, dependency |-> dependency,
                                                         dependency_account |-> None])])

\* The blocking entry goes and the account is asked about again, if its
\* dependency is `hash` (None: whatever it waits for).
Unblocks(a, hash, c) ==
    \E i \in DOMAIN c.blocking : c.blocking[i].account = a /\ hash \in {None, c.blocking[i].dependency}

unblock(a, hash, c) ==
    IF ~Unblocks(a, hash, c) THEN {c}
    ELSE trim_overflow([priorities |-> (a :> 0) @@ c.priorities,
                        blocking |-> SelectSeq(c.blocking, LAMBDA e : e.account # a)])

\* Accounts that are neither blocked nor prioritized get an entry, while
\* there is room; the order is that of the account numbers.
PrioritySet(accounts, c) ==
    LET new == accounts \ (Prioritized(c) \union Blocked(c) \union {None})
        room == Max({0, PrioritiesMax - Cardinality(Prioritized(c))})
    IN  {[c EXCEPT !.priorities = [a \in set |-> 0] @@ @] :
            set \in kSubset(Min({room, Cardinality(new)}), new)}

dependency_update(hash, account, c) ==
    LET updates(e) == e.dependency = hash /\ e.dependency_account # account
        updated == [c EXCEPT !.blocking =
                       [i \in DOMAIN @ |-> IF updates(@[i]) THEN [@[i] EXCEPT !.dependency_account = account]
                                           ELSE @[i]]]
    IN  IF \E i \in DOMAIN c.blocking : updates(c.blocking[i]) THEN PrioritySet({account}, updated)
        ELSE {c}

sync_dependencies(c) == PrioritySet({c.blocking[i].dependency_account : i \in DOMAIN c.blocking}, c)

\* The n oldest entries are older than the cutoff.
decay_blocking(n, c) ==
    [c EXCEPT !.blocking = RemoveWithDependents(@, {@[i].account : i \in 1..n})]

\* The dependencies whose account is not known yet, in the order of the entries.
UnknownDependencies(c) ==
    LET unknown == SelectSeq(c.blocking, LAMBDA e : e.dependency_account = None)
    IN  [i \in DOMAIN unknown |-> unknown[i].dependency]

-----------------------------------------------------------------------------
\* The block queue

EmptyBlockQueue == [accounts |-> << >>, waiting |-> << >>, in_block_processor |-> << >>, blocks |-> 0]

contains_account(a, q) == a \in DOMAIN q.accounts

\* The blocks replace those of an earlier response for the account.
Insert(a, blocks, q) ==
    IF Cardinality(DOMAIN q.accounts) >= MaxAccounts \/ blocks = << >> THEN q
    ELSE LET old == IF contains_account(a, q) THEN q.accounts[a] ELSE << >>
             front == IF old = << >> THEN {} ELSE {Head(old)}
         IN  [accounts |-> (a :> blocks) @@ q.accounts,
              waiting |-> (Head(blocks) :> a) @@ Without(q.waiting, front),
              in_block_processor |-> Without(q.in_block_processor, front),
              blocks |-> q.blocks + Len(blocks) - Len(old)]

enqueued_for_processing(hashes, q) ==
    [q EXCEPT !.waiting = Without(@, hashes),
              !.in_block_processor = [h \in hashes |-> q.waiting[h]] @@ @]

processed(hash, q) ==
    IF hash \notin DOMAIN q.in_block_processor THEN q
    ELSE LET a == q.in_block_processor[hash]
             rest == Tail(q.accounts[a])
         IN  [accounts |-> IF rest = << >> THEN Without(q.accounts, {a}) ELSE [q.accounts EXCEPT ![a] = rest],
              waiting |-> IF rest = << >> THEN q.waiting ELSE (Head(rest) :> a) @@ q.waiting,
              in_block_processor |-> Without(q.in_block_processor, {hash}),
              blocks |-> q.blocks - 1]

\* What the account still has queued is dropped with the block.
processing_failed(hash, q) ==
    IF hash \notin DOMAIN q.in_block_processor THEN q
    ELSE LET a == q.in_block_processor[hash]
         IN  [q EXCEPT !.accounts = Without(@, {a}),
                       !.in_block_processor = Without(@, {hash}),
                       !.blocks = @ - Len(q.accounts[a])]
=============================================================================
