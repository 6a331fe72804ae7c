------------------------------ MODULE MCIndexer ------------------------------
(***************************************************************************)
(* Block trees for model checking the indexer.                             *)
(*                                                                         *)
(*   Wide      g - a1 - a2         two branches that share only genesis,   *)
(*              \- b1 - b2         and x, the genesis block of another      *)
(*             x                   network                                 *)
(*                                                                         *)
(*   Line      g - a1 - a2                                                 *)
(*                                                                         *)
(*   Pair      g - a1                                                      *)
(*                                                                         *)
(*   Live      g - a1              a fork above genesis, and the genesis   *)
(*              \- b1              block of another network                *)
(*             x                                                           *)
(***************************************************************************)
EXTENDS Indexer, TLC

WideBlocks == {"g", "a1", "a2", "b1", "b2", "x"}
WideParent ==
    [b \in WideBlocks |->
        CASE b \in {"g", "x"} -> "none"
          [] b \in {"a1", "b1"} -> "g"
          [] b = "a2" -> "a1"
          [] b = "b2" -> "b1"]

LiveBlocks == {"g", "a1", "b1", "x"}
LiveParent == [b \in LiveBlocks |-> IF b \in {"g", "x"} THEN "none" ELSE "g"]

LineBlocks == {"g", "a1", "a2"}
LineParent ==
    [b \in LineBlocks |-> CASE b = "g" -> "none" [] b = "a1" -> "g" [] b = "a2" -> "a1"]

PairBlocks == {"g", "a1"}
PairParent == [b \in PairBlocks |-> IF b = "g" THEN "none" ELSE "g"]

OneSize == [w \in Witness |-> 1]
TwoSizes == [w \in Witness |-> IF w = "w1" THEN 1 ELSE 2]

\* The proof of a genesis block, which never changes, is taken to be this one.
LiveInit == Init /\ \A b \in NodeRoots : nodeWit[b] = "w1"
LiveSpec == LiveInit /\ [][Next]_vars /\ Fairness

\* Neither the processes nor the witnesses of one size can be told apart.
Swaps == Permutations(Indexers) \cup Permutations(Witness)
==============================================================================
