------------------------------ MODULE BlockTree ------------------------------
(***************************************************************************)
(* The data every other module talks about: Wcash blocks, the AuxPoW       *)
(* witnesses a block can carry, chains of blocks, and the rows and tips    *)
(* the explorer stores.                                                    *)
(*                                                                         *)
(* A block stands for its hash.  The hash commits to the predecessor (the  *)
(* `previousblockhash' field), so the predecessor is the constant function *)
(* Parent, and the hash does not commit to the witness, so a witness is a  *)
(* value of its own.                                                       *)
(***************************************************************************)
EXTENDS Integers

CONSTANTS
    Block,      \* block hashes
    Witness,    \* witness hashes (block_witness_hash of the raw block)
    WitnessSize, \* serialized size of a block that carries this witness
    NoBlock,    \* an absent hash: None, SQL NULL, or the all-zero predecessor
    NoWitness,  \* an absent witness hash
    Genesis,    \* the genesis hash the explorer is configured with
    Parent,     \* predecessor of a block; NoBlock for a genesis block
    MaxHeight   \* BOUND: no chain of the model is higher than this

ASSUME TreeAssumption ==
    /\ NoBlock \notin Block
    /\ NoWitness \notin Witness
    /\ WitnessSize \in [Witness -> Nat]
    /\ Genesis \in Block
    /\ Parent \in [Block -> Block \cup {NoBlock}]
    /\ Parent[Genesis] = NoBlock
    /\ MaxHeight \in Nat

Heights == 0..MaxHeight

\* One row of canonical_chain, without its key (the height).
Row == [hash : Block, wit : Witness]
NoRow == [hash |-> NoBlock, wit |-> NoWitness]

\* A chain tip; NoTip is the tip of an empty chain.
NoTip == [height |-> -1, hash |-> NoBlock]
Tip == [height : -1..MaxHeight, hash : Block \cup {NoBlock}]

(***************************************************************************)
(* A chain gives a hash to every height up to its tip and NoBlock to the   *)
(* heights above it.  It is linked: the block at each height has the block *)
(* below as its predecessor.                                               *)
(***************************************************************************)
Linked(c) ==
    /\ c[0] # NoBlock => Parent[c[0]] = NoBlock
    /\ \A h \in Heights \ {0} :
          c[h] # NoBlock => c[h-1] # NoBlock /\ Parent[c[h]] = c[h-1]

\* Chain c has a block at exactly the heights up to n.
ReachesTo(c, n) == \A h \in Heights : c[h] # NoBlock <=> h <= n

\* t is the tip of chain c.
IsTip(c, t) ==
    /\ t \in Tip
    /\ t.height = -1 <=> t.hash = NoBlock
    /\ t.height # -1 => c[t.height] = t.hash
    /\ ReachesTo(c, t.height)
==============================================================================
