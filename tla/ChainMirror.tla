----------------------------- MODULE ChainMirror -----------------------------
(***************************************************************************)
(* What the explorer promises its readers about the canonical chain,       *)
(* without processes, calls or transactions.  The mirror is a chain from   *)
(* the configured genesis block, made only of blocks the node has served;  *)
(* it grows by one block at a time, or is replaced above a block it shares *)
(* with its replacement in one step that rewrites at most Depth heights.   *)
(***************************************************************************)
EXTENDS BlockTree

CONSTANT Depth

VARIABLES
    mirror,  \* the published chain
    served   \* blocks the node has had on its best chain

Valid(c) ==
    /\ c[0] \in {Genesis, NoBlock}
    /\ Linked(c)
    /\ \A h \in Heights : c[h] # NoBlock => c[h] \in served

Init ==
    /\ mirror = [h \in Heights |-> NoBlock]
    /\ served \subseteq Block

\* The node serves blocks it did not serve before.
Serve == served \subseteq served' /\ UNCHANGED mirror

\* One block is appended at the tip.
Extend ==
    \E t \in Tip, b \in served :
        /\ IsTip(mirror, t) /\ t.height < MaxHeight
        /\ mirror' = [mirror EXCEPT ![t.height + 1] = b]
        /\ Valid(mirror')
        /\ UNCHANGED served

\* The heights at which both chains have a block, but not the same one.
Contested(c, d) == {h \in Heights : c[h] # d[h] /\ NoBlock \notin {c[h], d[h]}}

\* The chain above a common block is replaced.
Reorganize ==
    \E k \in Heights :
        /\ mirror[k] # NoBlock
        /\ \A h \in 0..k : mirror'[h] = mirror[h]
        /\ Valid(mirror')
        /\ \E d \in 0..Depth : Contested(mirror, mirror') \subseteq k+1 .. k+d
        /\ UNCHANGED served

Next == Serve \/ Extend \/ Reorganize

Spec == Init /\ [][Next]_<<mirror, served>>
==============================================================================
