-------------------------- MODULE MCConfirmingSet --------------------------
(* A send and the block that receives it, on two account chains. *)
EXTENDS ConfirmingSet, TLC

CONSTANTS send, receive

MCBlock == {send, receive}
MCChain == send :> {send} @@ receive :> {send, receive}
=============================================================================
