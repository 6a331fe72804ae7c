------------------------------ MODULE WcashNode ------------------------------
(***************************************************************************)
(* The Wcash node, external to the repository and modelled from how the    *)
(* indexer's RPC client uses it.  The node owns a best chain that it may   *)
(* replace at any moment by any other chain from its own genesis block:    *)
(* longer, shorter (a rollback or a resync) or diverging.  For each block  *)
(* it holds one exact witness, which may change while the hash does not.   *)
(***************************************************************************)
EXTENDS BlockTree

CONSTANT NodeRoots  \* genesis blocks the node at the other end may have

ASSUME RootsAssumption ==
    NodeRoots \subseteq Block /\ \A r \in NodeRoots : Parent[r] = NoBlock

VARIABLES
    best,     \* the node's best chain
    nodeWit,  \* the witness the node holds for each block
    seen      \* history: every <<block, witness>> that was on the best chain

nodeVars == <<best, nodeWit, seen>>

Chain ==
    {c \in [Heights -> Block \cup {NoBlock}] :
        c[0] \in NodeRoots /\ Linked(c) /\ \E n \in Heights : ReachesTo(c, n)}

\* `blocks' of getblockchaininfo.
BestHeight == CHOOSE n \in Heights : ReachesTo(best, n)

\* getblockhash has an answer for this height.
Serves(h) == h \in Heights /\ best[h] # NoBlock

\* getauxblockstatus answers best_chain for this exact block and witness.
BestWitness(b, w) == nodeWit[b] = w /\ \E h \in Heights : best[h] = b

Exposed(c, w) == {<<c[h], w[c[h]]>> : h \in {k \in Heights : c[k] # NoBlock}}

NodeTypeOK ==
    /\ best \in Chain
    /\ nodeWit \in [Block -> Witness]
    /\ seen \subseteq Block \X Witness

NodeInit ==
    /\ best \in Chain
    /\ nodeWit \in [Block -> Witness]
    /\ seen = Exposed(best, nodeWit)

\* The node adopts another best chain.
NodeMove ==
    \E c \in Chain :
        /\ c # best /\ c[0] = best[0]
        /\ best' = c
        /\ seen' = seen \cup Exposed(c, nodeWit)
        /\ UNCHANGED nodeWit

\* The node comes to hold a different witness for the same block hash.  A
\* genesis block carries native work and no witness that could be exchanged.
NodeRewitness ==
    \E b \in {c \in Block : Parent[c] # NoBlock}, w \in Witness :
        /\ nodeWit[b] # w
        /\ nodeWit' = [nodeWit EXCEPT ![b] = w]
        /\ seen' = seen \cup Exposed(best, nodeWit')
        /\ UNCHANGED best
==============================================================================
