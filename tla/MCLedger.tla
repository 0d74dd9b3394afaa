------------------------------ MODULE MCLedger ------------------------------
(***************************************************************************)
(* Small instances of Ledger: the block universes the runs use.  Every     *)
(* block is one a wallet or an epoch signer can create; whether and when   *)
(* the ledger accepts it is up to the model.                               *)
(***************************************************************************)
EXTENDS LedgerProperties

MCEpochOf == [l \in {"epoch1"} |-> 1]

BlockOf(type, a, prev, link, rep, bal) ==
  [type |-> type, account |-> a, previous |-> prev, link |-> link,
   rep |-> rep, balance |-> bal, signer |-> "owner", work |-> TRUE]

StateBlock(a, prev, link, rep, bal) == BlockOf("state", a, prev, link, rep, bal)

EpochBlock(a, prev, rep, bal) ==
  [StateBlock(a, prev, "epoch1", rep, bal) EXCEPT !.signer = "epoch"]

GenesisBlock == BlockOf("open", "A", "0", "A", "A", 0)

(* A transfer A -> B -> A with a fork of its first block: rolling back s1  *)
(* has to roll back every other block of the ring first.                   *)
RingBlock ==
  [g  |-> GenesisBlock,
   s1 |-> StateBlock("A", "g", "B", "A", 1),
   f1 |-> StateBlock("A", "g", "0", "B", 2),
   o1 |-> StateBlock("B", "0", "s1", "A", 1),
   s2 |-> StateBlock("B", "o1", "A", "B", 0)]

(* The same ring closed, in all five block types and over an epoch         *)
(* upgrade: legacy send, legacy open (with a state block as its fork),     *)
(* legacy change, epoch block, state send, state receive.                  *)
LatticeBlock ==
  [g  |-> GenesisBlock,
   s1 |-> BlockOf("send", "0", "g", "B", "0", 1),
   f1 |-> StateBlock("A", "g", "0", "B", 2),
   o1 |-> BlockOf("open", "B", "0", "s1", "A", 0),
   x1 |-> StateBlock("B", "0", "s1", "B", 1),
   c1 |-> BlockOf("change", "0", "o1", "0", "B", 0),
   e1 |-> EpochBlock("B", "c1", "B", 1),
   s2 |-> StateBlock("B", "e1", "A", "B", 0),
   r2 |-> StateBlock("A", "s1", "s2", "A", 2)]

=============================================================================
