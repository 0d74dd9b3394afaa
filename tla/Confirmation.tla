---------------------------- MODULE Confirmation ----------------------------
(***************************************************************************)
(* What the confirming set promises to the elections: a block that was     *)
(* handed over stays in its care until the ledger has it as confirmed or   *)
(* until its failure is announced; nothing else is ever confirmed, and     *)
(* every confirmed block is announced once.                                *)
(***************************************************************************)
CONSTANT Block

VARIABLES
    requested,   \* blocks in the care of the confirming set
    cemented,    \* blocks the ledger has as confirmed
    announced,   \* blocks whose confirmation was announced
    failed       \* blocks whose failure was announced and not yet noticed

vars == <<requested, cemented, announced, failed>>

Init ==
    /\ requested = {}
    /\ cemented = {}
    /\ announced = {}
    /\ failed = {}

Request(b) ==
    /\ requested' = requested \union {b}
    /\ UNCHANGED <<cemented, announced, failed>>

(* Blocks are confirmed on behalf of a requested one that joins them sooner *)
(* or later.                                                                *)
Cement(b, new) ==
    /\ b \in requested
    /\ new \intersect cemented = {}
    /\ cemented' = cemented \union new
    /\ UNCHANGED <<requested, announced, failed>>

Announce(blocks) ==
    /\ blocks \subseteq cemented \ announced
    /\ announced' = announced \union blocks
    /\ UNCHANGED <<requested, cemented, failed>>

Complete(blocks) ==
    /\ blocks \subseteq cemented
    /\ requested' = requested \ blocks
    /\ UNCHANGED <<cemented, announced, failed>>

(* The same block may have been handed over once more in the meantime. *)
GiveUp(b) ==
    /\ b \in requested
    /\ requested' \in {requested, requested \ {b}}
    /\ failed' = failed \union {b}
    /\ UNCHANGED <<cemented, announced>>

NoticeFailure(b) ==
    /\ failed' = failed \ {b}
    /\ UNCHANGED <<requested, cemented, announced>>

Next ==
    \/ \E b \in Block :
          \/ Request(b)
          \/ GiveUp(b)
          \/ NoticeFailure(b)
          \/ \E new \in SUBSET Block : Cement(b, new)
    \/ \E blocks \in SUBSET Block : Announce(blocks) \/ Complete(blocks)

Spec == Init /\ [][Next]_vars
=============================================================================
