------------------------------- MODULE Blocks -------------------------------
(***************************************************************************)
(* The blocks of the block lattice (crate `types`).  A block is named by   *)
(* its hash; Block[h] is its immutable content.  Hashes, accounts, links   *)
(* and representatives are all 32-byte values in the code, so a link can   *)
(* be read as a hash, as an account or as one of the epoch links.          *)
(***************************************************************************)
EXTENDS Integers, Sequences, FiniteSets

CONSTANTS
  Hash,          \* the hashes of all blocks that exist in the network
  Account,       \* accounts; a representative is an account as well
  Zero,          \* the all-zero 32-byte value (burn account, "no block")
  EpochOf,       \* maps each released epoch link to its epoch number (1, 2)
  Block,         \* the content of each block
  GenesisHash,   \* the genesis block
  Supply         \* the genesis balance: Amount::MAX in the code

LegacyType == {"send", "receive", "open", "change"}

EpochLinks == DOMAIN EpochOf

(* What a 32-byte link can be read as. *)
Link == Hash \cup Account \cup EpochLinks \cup {Zero}

Amount == 0 .. Supply

Epoch == 0 .. 2

(* The fields of the five block types.  A field a type does not have is    *)
(* Zero (or 0); `link` is the destination of a legacy send and the source  *)
(* of a legacy receive or open.  `signer` says which key signed the block, *)
(* `work` whether its proof of work meets the threshold of its details.    *)
BlockContent ==
  [type     : LegacyType \cup {"state"},
   account  : Account \cup {Zero},
   previous : Hash \cup {Zero},
   link     : Link,
   rep      : Account \cup {Zero},
   balance  : Amount,
   signer   : {"owner", "epoch", "other"},
   work     : BOOLEAN]

ASSUME SortAssumption ==
  /\ Zero \notin Hash \cup Account \cup EpochLinks
  /\ Hash \cap Account = {}
  /\ EpochLinks \cap (Hash \cup Account) = {}
  /\ EpochOf \in [EpochLinks -> {1, 2}]
  /\ Supply \in Nat \ {0}

(* The parsers guarantee the shape: a legacy open has no previous block,   *)
(* and only open and state blocks carry an account.                        *)
ASSUME BlockAssumption ==
  /\ Block \in [Hash -> BlockContent]
  /\ \A h \in Hash : Block[h].type = "open" => Block[h].previous = Zero
  /\ \A h \in Hash :
       Block[h].type \in {"send", "receive", "change"} => Block[h].account = Zero

(* The genesis block is a legacy open block of an account that represents  *)
(* itself.                                                                 *)
ASSUME GenesisAssumption ==
  /\ GenesisHash \in Hash
  /\ Block[GenesisHash].type = "open"
  /\ Block[GenesisHash].account \in Account
  /\ Block[GenesisHash].rep = Block[GenesisHash].account

(* The position of a block in the chain of its previous links, and the     *)
(* first block of that chain.                                              *)
Depth[h \in Hash] ==
  IF Block[h].previous = Zero THEN 1 ELSE Depth[Block[h].previous] + 1

ChainRoot[h \in Hash] ==
  IF Block[h].previous = Zero THEN h ELSE ChainRoot[Block[h].previous]

(* A hash covers the previous hash, so following the previous links never  *)
(* returns to the same block and both functions are well defined.          *)
ASSUME AcyclicAssumption ==
  \A h \in Hash :
    /\ Depth[h] \in Nat
    /\ Depth[h] = IF Block[h].previous = Zero THEN 1
                  ELSE Depth[Block[h].previous] + 1
    /\ ChainRoot[h] \in Hash
    /\ ChainRoot[h] = IF Block[h].previous = Zero THEN h
                      ELSE ChainRoot[Block[h].previous]

GenesisAccount == Block[GenesisHash].account

IsState(h) == Block[h].type = "state"

(* An open block starts a chain: a legacy open, or a state block without   *)
(* a previous block.                                                       *)
IsOpen(h) ==
  \/ Block[h].type = "open"
  \/ IsState(h) /\ Block[h].previous = Zero

HasEpochLink(h) == IsState(h) /\ Block[h].link \in EpochLinks

(* source_or_link: the source field of a legacy receive or open, the link  *)
(* of a state block, else zero.                                            *)
SourceOrLink(h) ==
  IF Block[h].type \in {"receive", "open", "state"} THEN Block[h].link ELSE Zero

(* destination_or_link: the destination of a legacy send, the link of a    *)
(* state block, else zero.                                                 *)
DestinationOrLink(h) ==
  IF Block[h].type \in {"send", "state"} THEN Block[h].link ELSE Zero

(* Only open, change and state blocks name a representative.               *)
HasRep(h) == Block[h].type \in {"open", "change", "state"}

(* valid_predecessor: a legacy block never follows a state block and       *)
(* nothing precedes an open block.                                         *)
ValidPredecessor(h, predecessor) ==
  CASE Block[h].type = "state" -> TRUE
    [] Block[h].type = "open"  -> FALSE
    [] OTHER -> Block[predecessor].type \in LegacyType

(* The qualified root: competing blocks of one position share it.          *)
QualifiedRoot(h) ==
  [root     |-> IF Block[h].previous # Zero
                  THEN Block[h].previous
                  ELSE Block[h].account,
   previous |-> Block[h].previous]
=============================================================================
