----------------------------- MODULE FairQueue -----------------------------
(***************************************************************************)
(* The queue that shares a worker between the origins of its items: one    *)
(* bounded queue per origin, served in turn, each for up to its priority.  *)
(* The operators are functions of a queue record                           *)
(*   queues  - the items of every origin that was pushed to, oldest first  *)
(*   current - the origin that is served (None: not chosen yet)            *)
(*   counter - items taken from it in a row                                *)
(*   total   - total_len, the number of all items                          *)
(***************************************************************************)
EXTENDS Integers, Sequences, SequencesExt, FiniteSetsExt

CONSTANTS
    Origins,   \* the origins in the order of the map's keys
    MaxSize,   \* max_size_query
    Priority,  \* priority_query
    None

Origin == ToSet(Origins)

Place(o) == CHOOSE i \in DOMAIN Origins : Origins[i] = o

ASSUME FairQueueAssumption ==
    /\ IsInjective(Origins) /\ None \notin Origin
    /\ MaxSize \in [Origin -> Nat] /\ Priority \in [Origin -> Nat \ {0}]

EmptyQueue == [queues |-> <<>>, current |-> None, counter |-> 0, total |-> 0]

is_empty(q) == q.total = 0

queue_len(q, o) == IF o \in DOMAIN q.queues THEN Len(q.queues[o]) ELSE 0

Accepts(q, o) == queue_len(q, o) < MaxSize[o]

(* The origin gets its entry also when the item is dropped. *)
Push(q, o, item) ==
    LET held == IF o \in DOMAIN q.queues THEN q.queues[o] ELSE <<>>
        entry == [x \in {o} |-> IF Accepts(q, o) THEN Append(held, item) ELSE held]
    IN  [q EXCEPT !.queues = entry @@ @, !.total = IF Accepts(q, o) THEN @ + 1 ELSE @]

(* Variant: the items of a removed origin are still counted. *)
RemoveUncounted(q, o) ==
    IF o \in DOMAIN q.queues
    THEN [q EXCEPT !.queues = [x \in DOMAIN q.queues \ {o} |-> q.queues[x]], !.current = None]
    ELSE q

RemoveOrigin(q, o) ==
    IF o \in DOMAIN q.queues
    THEN [q EXCEPT !.queues = [x \in DOMAIN q.queues \ {o} |-> q.queues[x]],
                   !.current = None, !.total = @ - Len(q.queues[o])]
    ELSE q

should_seek(q) ==
    \/ q.current \notin DOMAIN q.queues
    \/ q.queues[q.current] = <<>>
    \/ q.counter >= Priority[q.current]

(* Variant: every search starts with the first origin. *)
SeekFromFirst(q) ==
    [q EXCEPT !.counter = 0,
              !.current = SelectSeq(Origins, LAMBDA o : queue_len(q, o) > 0)[1]]

(* The first origin with items behind the current one, and then from the   *)
(* beginning.                                                               *)
seek_next(q) ==
    LET keys == SelectSeq(Origins, LAMBDA o : o \in DOMAIN q.queues)
        behind == IF q.current \in Origin
                  THEN SelectSeq(keys, LAMBDA o : Place(o) > Place(q.current))
                  ELSE <<>>
    IN  [q EXCEPT !.counter = 0,
                  !.current = SelectSeq(behind \o keys, LAMBDA o : q.queues[o] # <<>>)[1]]

Seek(q) == IF should_seek(q) THEN seek_next(q) ELSE q

(* next(): the item with its origin, and what remains. *)
TakeNext(q) ==
    LET at == Seek(q)
    IN  [item |-> [origin |-> at.current, block |-> Head(at.queues[at.current])],
         rest |-> [at EXCEPT !.queues[at.current] = Tail(@), !.counter = @ + 1, !.total = @ - 1]]

(* next_batch(): items as long as there are any, at most n. *)
NextBatch(q, n) ==
    LET Taken[k \in 0..n] ==
            IF k = 0 THEN [items |-> <<>>, rest |-> q]
            ELSE LET before == Taken[k - 1]
                 IN  IF is_empty(before.rest) THEN before
                     ELSE [items |-> Append(before.items, TakeNext(before.rest).item),
                           rest |-> TakeNext(before.rest).rest]
    IN  Taken[n]

(* The number of items is the sum over the origins: otherwise next() looks  *)
(* for an item that is not there and never ends ("TODO Endless loop if     *)
(* everything is empty!").                                                  *)
Consistent(q) ==
    /\ DOMAIN q.queues \subseteq Origin
    /\ q.total = MapThenSumSet(LAMBDA o : Len(q.queues[o]), DOMAIN q.queues)
    /\ \A o \in DOMAIN q.queues : Len(q.queues[o]) <= MaxSize[o]
    /\ q.current \in DOMAIN q.queues \union {None}
=============================================================================
