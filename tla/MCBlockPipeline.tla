-------------------------- MODULE MCBlockPipeline --------------------------
(* A local send block and a block from a peer that receives it. *)
EXTENDS BlockPipeline

CONSTANTS send, receive

MCOrigins == <<"peer", "unchecked", "local">>
MCBlocks == <<send, receive>>
MCPrevious == [b \in Block |-> None]
MCSource == [b \in Block |-> IF b = receive THEN send ELSE None]
MCPriority == [o \in Origin |-> 1]
MCMaxSize == [o \in Origin |-> 1]
=============================================================================
