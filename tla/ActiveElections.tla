-------------------------- MODULE ActiveElections --------------------------
(***************************************************************************)
(* The container of active elections: elections by root, the buckets that  *)
(* order them by priority, the routes from block hashes to elections, the  *)
(* counters by behavior and the cache of recently confirmed roots. Every   *)
(* operation runs under the write lock of the container, so each is an     *)
(* operator from one container to the next. What happens within an         *)
(* election is modelled in Consensus; here its votes are a choice.         *)
(***************************************************************************)
EXTENDS Integers, Sequences, SequencesExt, FiniteSets

CONSTANTS
    Block,          \* the blocks
    RootOf,         \* the qualified root of each block; forks share it
    Time,           \* the time priority of each block, higher is better
    Balance,        \* the priority bucket the balance of each block falls in
    PrioBuckets,    \* number of priority buckets
    MaxElections,   \* config.max_elections
    MaxCandidates,  \* Election::MAX_BLOCKS
    MaxRecent       \* config.confirmation_cache

Root == {RootOf[b] : b \in Block}
Behavior == {"priority", "manual", "hinted", "optimistic"}
PrioBucket == 0 .. PrioBuckets - 1
Bucket == 0 .. PrioBuckets + 2

ASSUME ActiveElectionsAssumption ==
    /\ RootOf \in [Block -> Root]
    /\ Time \in [Block -> Nat]
    /\ PrioBuckets \in Nat \ {0}
    /\ Balance \in [Block -> PrioBucket]
    /\ {MaxElections, MaxCandidates, MaxRecent} \subseteq Nat \ {0}

bucket_index(behavior, b) ==
    CASE behavior = "priority"   -> Balance[b]
      [] behavior = "manual"     -> PrioBuckets
      [] behavior = "hinted"     -> PrioBuckets + 1
      [] behavior = "optimistic" -> PrioBuckets + 2

(* `block` is the block the entry was made for, which fixes its priority.   *)
(* An election that still runs is "active", in its passive phase too.       *)
NewEntry(b, behavior) ==
    [block |-> b, behavior |-> behavior, state |-> "active",
     candidates |-> {b}, winner |-> b]

BucketOf(entry) == bucket_index(entry.behavior, entry.block)

Empty ==
    [by_root |-> [r \in {} |-> r],
     buckets |-> [i \in Bucket |-> {}],
     routes |-> [b \in {} |-> b],
     count |-> [k \in Behavior |-> 0],
     recent |-> <<>>,
     events |-> 0]   \* ElectionEnded and Recovered, not processed yet

Has(aec, r) == r \in DOMAIN aec.by_root

Without(f, keys) == [k \in DOMAIN f \ keys |-> f[k]]
With(f, key, value) == [k \in DOMAIN f \cup {key} |-> IF k = key THEN value ELSE f[k]]

Notify(aec) == [aec EXCEPT !.events = @ + 1]

recently_confirmed(aec, r) == \E i \in DOMAIN aec.recent : RootOf[aec.recent[i]] = r
-----------------------------------------------------------------------------
InsertNew(aec, b, behavior) ==
    LET entry == NewEntry(b, behavior)
    IN  [aec EXCEPT !.by_root = With(@, RootOf[b], entry),
                    !.buckets[BucketOf(entry)] = @ \cup {b},
                    !.routes = With(@, b, RootOf[b]),
                    !.count[behavior] = @ + 1]

(* Variant: the election stays in the bucket it came from. *)
UpgradeInPlace(aec, r) ==
    LET entry == aec.by_root[r]
    IN  [aec EXCEPT !.by_root[r].behavior = "priority",
                    !.count[entry.behavior] = @ - 1,
                    !.count["priority"] = @ + 1]

(* A hinted or optimistic election becomes a priority election; it keeps    *)
(* the priority it started with.                                            *)
Upgrade(aec, r) ==
    LET entry == aec.by_root[r]
        moved == [entry EXCEPT !.behavior = "priority"]
    IN  [aec EXCEPT !.by_root[r] = moved,
                    !.buckets = [@ EXCEPT ![BucketOf(entry)] = @ \ {entry.block},
                                          ![BucketOf(moved)] = @ \cup {entry.block}],
                    !.count = [@ EXCEPT ![entry.behavior] = @ - 1,
                                        !["priority"] = @ + 1]]

CanUpgrade(aec, b, behavior) ==
    behavior = "priority" /\ aec.by_root[RootOf[b]].behavior \in {"hinted", "optimistic"}

(* Variant: roots that were confirmed recently are not refused. *)
InsertAgain(aec, b, behavior) ==
    CASE ~ Has(aec, RootOf[b]) -> InsertNew(aec, b, behavior)
      [] CanUpgrade(aec, b, behavior) -> Upgrade(aec, RootOf[b])
      [] OTHER -> aec

Insert(aec, b, behavior) ==
    CASE recently_confirmed(aec, RootOf[b]) -> aec
      [] ~ Has(aec, RootOf[b]) -> InsertNew(aec, b, behavior)
      [] CanUpgrade(aec, b, behavior) -> Upgrade(aec, RootOf[b])
      [] OTHER -> aec

Erase(aec, r) ==
    LET entry == aec.by_root[r]
    IN  IF ~ Has(aec, r) THEN aec
        ELSE Notify([aec EXCEPT !.by_root = Without(@, {r}),
                                !.routes = Without(@, entry.candidates),
                                !.buckets[BucketOf(entry)] = @ \ {entry.block},
                                !.count[entry.behavior] = @ - 1])

EraseAll(aec, roots) == FoldSet(LAMBDA r, rest : Erase(rest, r), aec, roots)

(* The last entry of the bucket. *)
lowest_priority(aec, i) ==
    CHOOSE b \in aec.buckets[i] : \A c \in aec.buckets[i] : Time[b] <= Time[c]

bucket_len(aec, i) == Cardinality(aec.buckets[i])

(* The containers try_add_fork may leave: a full election lets a candidate  *)
(* go only for a fork with a higher tally.                                  *)
AddFork(aec, fork) ==
    LET r == RootOf[fork]
        entry == aec.by_root[r]
        Add(removed) ==
            [aec EXCEPT !.by_root[r].candidates = (@ \ removed) \cup {fork},
                        !.routes = With(Without(@, removed), fork, r)]
    IN  CASE ~ Has(aec, r) -> {aec}
          [] entry.state # "active" \/ fork \in entry.candidates -> {aec}
          [] Cardinality(entry.candidates) < MaxCandidates -> {Add({})}
          [] OTHER -> {aec} \cup {Add({x}) : x \in entry.candidates \ {entry.winner}}

PutRecent(aec, b) ==
    IF recently_confirmed(aec, RootOf[b]) THEN aec
    ELSE LET all == Append(aec.recent, b)
         IN  [aec EXCEPT !.recent = IF Len(all) > MaxRecent THEN Tail(all) ELSE all]

(* The containers a vote for b may leave: the votes of an election that     *)
(* runs may make any candidate the winner, and may confirm the winner.      *)
ApplyVote(aec, b) ==
    LET r == aec.routes[b]
        entry == aec.by_root[r]
        Won(w) == [aec EXCEPT !.by_root[r].winner = w]
    IN  CASE b \notin DOMAIN aec.routes \/ ~ Has(aec, r) -> {aec}
          [] entry.state = "confirmed" -> {Erase(aec, r)}
          [] entry.state = "cancelled" -> {aec}
          [] OTHER -> {Won(w) : w \in entry.candidates}
                      \cup {Erase(PutRecent(aec, w), r) : w \in entry.candidates}

(* A block that was cemented ends the election of its root: at the next     *)
(* tick the election is gone.                                               *)
ConfirmDependent(aec, b) ==
    LET r == RootOf[b]
    IN  IF Has(aec, r) /\ aec.by_root[r].state = "active"
        THEN [aec EXCEPT !.by_root[r].state =
                IF aec.by_root[r].winner = b THEN "confirmed" ELSE "cancelled"]
        ELSE aec

ForgetRecent(aec, b) == [aec EXCEPT !.recent = SelectSeq(@, LAMBDA x : x # b)]

(* The tick erases every election that has ended and those of `expired`,    *)
(* which lived longer than their behavior allows.                           *)
TransitionTime(aec, expired) ==
    EraseAll(aec, {r \in DOMAIN aec.by_root :
                       aec.by_root[r].state # "active" \/ r \in expired})
=============================================================================
