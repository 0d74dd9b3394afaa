---------------------------- MODULE MCBootstrap ----------------------------
(* The genesis account sends to an account that receives and goes on; one  *)
(* peer has it all, another one only what the node starts with.             *)
EXTENDS Bootstrap

CONSTANTS genesis, other, open, send, receive, change

MCChain == genesis :> <<open, send>> @@ other :> <<receive, change>>
MCSource == [b \in Block |-> IF b = receive THEN send ELSE None]
MCDestination == [b \in Block |-> IF b = send THEN other ELSE None]
MCPeers == {genesis :> 2 @@ other :> 2, genesis :> 1 @@ other :> 0}
=============================================================================
