---------------------------- MODULE IndexerProofs ----------------------------
(***************************************************************************)
(* Proofs about the indexer for any tree of blocks, any node behaviour,    *)
(* any number of processes and any depth bounds, as long as the lease      *)
(* session does not die under a running process.                           *)
(*                                                                         *)
(* None of the safety invariants is inductive by itself: a transaction     *)
(* publishes what sync_once gathered over many calls, so the invariant has *)
(* to say what the local variables are worth at every call.  Because only  *)
(* the lease holder runs, what it read from the database still holds; what *)
(* it read from the node may not, and only facts that survive a move of    *)
(* the node are in the invariant.                                          *)
(***************************************************************************)
EXTENDS Indexer, ChainLemmas

Fetching == {"fetch", "body", "aux_status", "confirm"}

Appending(i) == pc[i] \in Fetching \cup {"commit"} /\ job[i].mode = "append"

Staging(i) ==
    \/ pc[i] \in Fetching /\ job[i].mode = "stage"
    \/ pc[i] \in {"recheck_tip", "recheck_ancestor", "replace"}

Refreshing(i) ==
    \/ pc[i] \in Fetching /\ job[i].mode = "refresh"
    \/ pc[i] \in {"candidate", "refresh_prev", "refresh", "final_tip", "finish"}

\* The node's genesis is the configured one once it has been checked, and the
\* snapshot is a height the model has.
SnapInv(i) ==
    pc[i] \in InSync =>
        /\ job[i].snap.height \in Heights
        /\ pc[i] \notin {"tip_hash", "identity"} => best[0] = Genesis

\* Before any block is fetched: the stored tip is current, and the search for
\* an ancestor stays on both chains.
SearchInv(i) ==
    /\ pc[i] \in {"tip_hash", "identity", "read_tip", "observe"} =>
          job[i].cursor = 0 /\ job[i].prev = NoBlock
    /\ pc[i] \in {"tip_hash", "identity", "read_tip", "observe", "compare",
                  "search", "search_node"} =>
          job[i].mode = "append" /\ job[i].staged = NoStage
    /\ pc[i] \in {"observe", "compare", "search", "search_node"} =>
          job[i].tip = state.indexed
    /\ pc[i] \in {"compare", "search", "search_node"} => job[i].tip.height \in Heights
    /\ pc[i] = "compare" => job[i].tip.height <= job[i].snap.height
    /\ pc[i] \in {"search", "search_node"} =>
          job[i].cursor \in 0..job[i].tip.height /\ job[i].cursor <= job[i].snap.height
    /\ pc[i] = "search_node" => job[i].hash = canon[job[i].cursor].hash

\* While appending, the block wanted next is the child of the indexed tip.
AppendInv(i) ==
    /\ pc[i] = "commit" => job[i].mode = "append"
    /\ Appending(i) =>
          /\ job[i].cursor \in 0..job[i].snap.height
          /\ state.indexed = [height |-> job[i].cursor - 1, hash |-> job[i].prev]

\* While staging, the ancestor is still selected and the stored tip is current.
StageInv(i) ==
    Staging(i) =>
        /\ job[i].tip = state.indexed
        /\ job[i].anc.height \in 0..state.indexed.height
        /\ job[i].anc.hash = canon[job[i].anc.height].hash
        /\ job[i].anc.height < job[i].cursor
        /\ job[i].cursor \in 1..job[i].snap.height + 1
        /\ pc[i] \in Fetching => job[i].cursor <= job[i].snap.height
        /\ \A h \in Heights : job[i].staged[h] # NoRow =>
              <<job[i].staged[h].hash, job[i].staged[h].wit>> \in seen

\* After the loops the chain is not empty, and the final tip is current.
RefreshInv(i) ==
    /\ Refreshing(i) => state.indexed.height \in Heights
    /\ pc[i] = "refresh_prev" =>
          job[i].cursor \in Heights \ {0} /\ job[i].mode = "refresh"
    /\ pc[i] \in Fetching /\ job[i].mode = "refresh" => job[i].cursor \in Heights \ {0}
    /\ pc[i] = "finish" => job[i].tip = state.indexed

\* What is known of the block in hand.
FetchInv(i) ==
    /\ pc[i] \in {"body", "aux_status", "confirm", "commit", "refresh"} =>
          job[i].hash \in Block /\ (job[i].cursor = 0 => job[i].hash = Genesis)
    /\ pc[i] \in {"aux_status", "confirm", "commit", "refresh"} =>
          job[i].wit \in Witness /\ Parent[job[i].hash] = job[i].prev
    /\ pc[i] \in {"confirm", "commit", "refresh"} => <<job[i].hash, job[i].wit>> \in seen

JobInv(i) ==
    /\ SnapInv(i) /\ SearchInv(i) /\ AppendInv(i) /\ StageInv(i)
    /\ RefreshInv(i) /\ FetchInv(i)

IInv ==
    /\ TypeOK
    /\ SingleWriter
    /\ ChainIntegrity
    /\ StoredWasBest
    /\ ReadyCaughtUp
    /\ Exposed(best, nodeWit) \subseteq seen
    /\ \A i \in Indexers : JobInv(i)

------------------------------------------------------------------------------
\* A process that is running is the only one.
LEMMA OthersDown ==
    ASSUME TypeOK, SingleWriter, NEW i \in Indexers, NEW k \in Indexers, k # i,
           pc[i] \in Running
    PROVE  pc[k] = "down"
BY DEF TypeOK, SingleWriter

\* Nothing is claimed of a process that is down.
LEMMA DownJob ==
    ASSUME NEW k \in Indexers, pc'[k] = "down"
    PROVE  JobInv(k)'
BY DEF JobInv, SnapInv, SearchInv, AppendInv, StageInv, RefreshInv, FetchInv,
       Appending, Staging, Refreshing, Fetching, InSync, HashCalls

\* A step of one process: it may write to the database, the node stays put.
LEMMA DbStep ==
    ASSUME IInv, NEW i \in Indexers, pc[i] \in Running,
           NEW l \in Running, NEW j \in Job,
           Goto(i, l, j), UNCHANGED <<nodeVars, lease>>,
           DbTypeOK', ChainIntegrity', StoredWasBest', ReadyCaughtUp', JobInv(i)'
    PROVE  IInv'
<1>1. TypeOK'
  BY DEF IInv, TypeOK, Goto, nodeVars, NodeTypeOK, Chain
<1>2. \A k \in Indexers \ {i} : pc[k] = "down" /\ pc'[k] = "down"
  BY OthersDown DEF IInv, TypeOK, Goto
<1>3. SingleWriter'
  BY <1>2 DEF IInv, SingleWriter, Goto, TypeOK, Running, InSync, HashCalls
<1>4. (Exposed(best, nodeWit) \subseteq seen)'
  BY DEF IInv, Exposed, nodeVars
<1>5. \A k \in Indexers : JobInv(k)'
  BY <1>2, DownJob
<1> QED
  BY <1>1, <1>3, <1>4, <1>5 DEF IInv

\* A step of one process that only changes its own local variables.
LEMMA LocalStep ==
    ASSUME IInv, NEW i \in Indexers, pc[i] \in Running,
           NEW l \in Running, NEW j \in Job,
           Goto(i, l, j), UNCHANGED <<dbVars, nodeVars, lease>>,
           JobInv(i)'
    PROVE  IInv'
<1>1. DbTypeOK'
  BY DEF IInv, TypeOK, dbVars, DbTypeOK
<1>2. ChainIntegrity' /\ StoredWasBest' /\ ReadyCaughtUp'
  BY DEF IInv, ChainIntegrity, OneChain, StateAtTip, StoredWasBest, ReadyCaughtUp,
         Selected, Linked, IsTip, ReachesTo, dbVars, nodeVars
<1> QED
  BY <1>1, <1>2, DbStep

\* The tip the code reads from the selectors is the one in chain_state.
LEMMA CanonicalTip ==
    ASSUME DbTypeOK, StateAtTip
    PROVE  canonical_tip = state.indexed
BY TipOfSelectors DEF StateAtTip

\* The shape of local values.
LEMMA JobShapes ==
    /\ NoStage \in [Heights -> Row \cup {NoRow}]
    /\ NoJob \in Job
    /\ \A j \in Job : Rest(j) \in Job
    /\ \A j \in Job, h \in 0..MaxHeight + 1, p \in Block \cup {NoBlock} : At(j, h, p) \in Job
<1>1. NoStage \in [Heights -> Row \cup {NoRow}]
  BY DEF NoStage
<1>2. NoTip \in Tip
  BY TreeAssumption DEF NoTip, Tip
<1>3. NoJob \in Job
  BY <1>1, <1>2, TreeAssumption DEF NoJob, Job, Mode
<1>4. ASSUME NEW j \in Job PROVE Rest(j) \in Job
  BY <1>3 DEF Rest, Job
<1>5. ASSUME NEW j \in Job, NEW h \in 0..MaxHeight + 1, NEW p \in Block \cup {NoBlock}
      PROVE  At(j, h, p) \in Job
  BY DEF At, Job
<1> QED
  BY <1>1, <1>3, <1>4, <1>5

\* A pass that fails forgets everything.
LEMMA AbortStep ==
    ASSUME IInv, NEW i \in Indexers, pc[i] \in Running,
           Abort(i), UNCHANGED <<dbVars, nodeVars, lease>>
    PROVE  IInv'
<1>1. Goto(i, "failed", NoJob) /\ "failed" \in Running /\ NoJob \in Job
  BY JobShapes DEF Abort, Running
<1>2. pc'[i] = "failed"
  BY <1>1 DEF Goto, IInv, TypeOK
<1>3. JobInv(i)'
  BY <1>2 DEF JobInv, SnapInv, SearchInv, AppendInv, StageInv, RefreshInv, FetchInv,
              Appending, Staging, Refreshing, Fetching, InSync, HashCalls
<1> QED
  BY <1>1, <1>3, LocalStep

\* A tip is the pair of its two fields.
LEMMA TipPair ==
    ASSUME NEW t \in Tip
    PROVE  t = [height |-> t.height, hash |-> t.hash]
BY DEF Tip

\* Entering the search for a common ancestor at the lower of the two tips.
LEMMA SearchJob ==
    ASSUME TypeOK, NEW i \in Indexers, NEW j \in Job,
           Goto(i, "search", At(j, SearchFrom(j), NoBlock)),
           j.snap.height \in Heights, best'[0] = Genesis, j.tip.height \in Heights,
           j.tip = state'.indexed, j.mode = "append", j.staged = NoStage
    PROVE  JobInv(i)' /\ At(j, SearchFrom(j), NoBlock) \in Job
<1> DEFINE k == At(j, SearchFrom(j), NoBlock)
<1>1. /\ SearchFrom(j) \in 0..j.tip.height /\ SearchFrom(j) <= j.snap.height
      /\ SearchFrom(j) \in 0..MaxHeight + 1
  BY TreeAssumption DEF SearchFrom, Heights
<1>2. /\ k \in Job /\ k.snap = j.snap /\ k.tip = j.tip /\ k.mode = j.mode
      /\ k.staged = j.staged /\ k.cursor = SearchFrom(j)
  BY <1>1, JobShapes DEF At, Job
<1>3. pc'[i] = "search" /\ job'[i] = k
  BY DEF Goto, TypeOK
<1> HIDE DEF k
<1>4. JobInv(i)'
  BY <1>1, <1>2, <1>3 DEF JobInv, SnapInv, SearchInv, AppendInv, StageInv, RefreshInv, FetchInv,
             Appending, Staging, Refreshing, Fetching, InSync, HashCalls
<1> QED
  BY <1>2, <1>4 DEF k

\* The head of the loop over heights: what the loop needs to be entered or left
\* for the local invariant to hold afterwards.
LEMMA LoopJob ==
    ASSUME TypeOK, NEW i \in Indexers, NEW j \in Job, Loop(i, j),
           j.snap.height \in Heights, best'[0] = Genesis,
           \/ /\ j.mode = "append"
              /\ j.cursor \in 0..j.snap.height + 1
              /\ state'.indexed = [height |-> j.cursor - 1, hash |-> j.prev]
           \/ /\ j.mode = "stage"
              /\ j.tip = state'.indexed
              /\ j.anc.height \in 0..state'.indexed.height
              /\ j.anc.hash = canon'[j.anc.height].hash
              /\ j.anc.height < j.cursor
              /\ j.cursor \in 1..j.snap.height + 1
              /\ \A h \in Heights : j.staged[h] # NoRow =>
                    <<j.staged[h].hash, j.staged[h].wit>> \in seen'
    PROVE  /\ JobInv(i)'
           /\ \E l \in Running, k \in Job : Goto(i, l, k)
<1>1. CASE j.cursor <= j.snap.height
  <2>1. Goto(i, "fetch", j) /\ pc'[i] = "fetch" /\ job'[i] = j
    BY <1>1 DEF Loop, Goto, TypeOK
  <2>2. \E l \in Running, k \in Job : Goto(i, l, k)
    BY <2>1 DEF Running, InSync, HashCalls
  <2>3. j.cursor \in Nat /\ j.snap.height \in Nat
    BY TreeAssumption DEF Job, Heights
  <2> QED
    BY <1>1, <2>1, <2>2, <2>3 DEF JobInv, SnapInv, SearchInv, AppendInv, StageInv, RefreshInv, FetchInv,
                Appending, Staging, Refreshing, Fetching, Running, InSync, HashCalls
<1>2. CASE ~(j.cursor <= j.snap.height) /\ j.mode = "stage"
  <2>1. Goto(i, "recheck_tip", j) /\ pc'[i] = "recheck_tip" /\ job'[i] = j
    BY <1>2 DEF Loop, Goto, TypeOK
  <2> QED
    BY <1>2, <2>1 DEF JobInv, SnapInv, SearchInv, AppendInv, StageInv, RefreshInv, FetchInv,
                Appending, Staging, Refreshing, Fetching, Running, InSync, HashCalls
<1>3. CASE ~(j.cursor <= j.snap.height) /\ j.mode = "append"
  <2>1. Goto(i, "candidate", Rest(j)) /\ pc'[i] = "candidate" /\ job'[i] = Rest(j)
    BY <1>3 DEF Loop, Goto, TypeOK
  <2>2. Rest(j) \in Job /\ Rest(j).snap = j.snap /\ Rest(j).mode = "append"
    BY JobShapes DEF Rest, NoJob
  <2>3. state'.indexed.height \in Heights
    BY <1>3, TreeAssumption DEF Job, Heights, Tip
  <2> QED
    BY <2>1, <2>2, <2>3 DEF JobInv, SnapInv, SearchInv, AppendInv, StageInv, RefreshInv,
        FetchInv, Appending, Staging, Refreshing, Fetching, Running, InSync, HashCalls
<1> QED
  BY <1>1, <1>2, <1>3

------------------------------------------------------------------------------
(***************************************************************************)
(* The steps that read: one lemma per step of sync_once.                   *)
(***************************************************************************)
\* A pass starts from a height the node has.
LEMMA BlockchainInfoStep ==
    ASSUME IInv, NEW i \in Indexers, blockchain_info(i)
    PROVE  IInv'
<1> DEFINE j == [NoJob EXCEPT !.snap.height = BestHeight]
<1>1. BestHeight \in Heights
  BY DEF IInv, TypeOK, NodeTypeOK, Chain, BestHeight
<1> DEFINE t == [height |-> BestHeight, hash |-> NoBlock]
<1>a. t \in Tip
  BY <1>1, TreeAssumption DEF Tip, Heights
<1>b. j = [NoJob EXCEPT !.snap = t]
  BY DEF NoJob, NoTip
<1> HIDE DEF t
<1>c. j \in Job /\ j.snap = t
  BY <1>a, <1>b, JobShapes DEF Job
<1>2. j \in Job /\ j.snap.height \in Heights /\ j.cursor = 0 /\ j.prev = NoBlock
      /\ j.mode = "append" /\ j.staged = NoStage
  BY <1>1, <1>c DEF NoJob, t
<1>3. pc'[i] = "tip_hash" /\ job'[i] = j
  BY DEF blockchain_info, Goto, IInv, TypeOK
<1>4. JobInv(i)'
  BY <1>2, <1>3 DEF JobInv, SnapInv, SearchInv, AppendInv, StageInv, RefreshInv, FetchInv,
             Appending, Staging, Refreshing, Fetching, InSync, HashCalls
<1> QED
  BY <1>2, <1>4, LocalStep DEF blockchain_info, Running, InSync, HashCalls

\* The snapshot's hash is a block of the node, or the call is refused.
LEMMA TipHashStep ==
    ASSUME IInv, NEW i \in Indexers, tip_hash(i)
    PROVE  IInv'
<1> DEFINE j == [job[i] EXCEPT !.snap.hash = best[job[i].snap.height]]
<1>1. job[i] \in Job /\ job[i].snap.height \in Heights
  BY DEF tip_hash, Asks, IInv, TypeOK, JobInv, SnapInv, InSync, HashCalls
<1>2. best[job[i].snap.height] \in Block \cup {NoBlock}
  BY <1>1 DEF IInv, TypeOK, NodeTypeOK, Chain
<1>3. j \in Job /\ j.snap.height = job[i].snap.height /\ j.cursor = job[i].cursor
      /\ j.prev = job[i].prev /\ j.mode = job[i].mode /\ j.staged = job[i].staged
  BY <1>1, <1>2 DEF Job, Tip
<1>4. pc'[i] = "identity" /\ job'[i] = j
  BY DEF tip_hash, Goto, IInv, TypeOK
<1>5. JobInv(i)'
  BY <1>1, <1>3, <1>4 DEF tip_hash, Asks, IInv, JobInv, SnapInv, SearchInv, AppendInv, StageInv, RefreshInv, FetchInv,
             Appending, Staging, Refreshing, Fetching, InSync, HashCalls
<1> QED
  BY <1>3, <1>5, LocalStep DEF tip_hash, Asks, Running, InSync, HashCalls

\* Past the identity check the node's genesis block is the configured one,
\* and stays so: the node only moves to chains from its own genesis block.
LEMMA ValidateIdentityStep ==
    ASSUME IInv, NEW i \in Indexers, validate_identity(i)
    PROVE  IInv'
<1>1. CASE best[0] = Genesis
  <2>1. Goto(i, "read_tip", job[i]) /\ pc'[i] = "read_tip" /\ job'[i] = job[i]
    BY <1>1 DEF validate_identity, Goto, IInv, TypeOK
  <2>2. JobInv(i)'
    BY <1>1, <2>1 DEF validate_identity, Asks, nodeVars, IInv, JobInv, SnapInv, SearchInv, AppendInv, StageInv, RefreshInv, FetchInv,
             Appending, Staging, Refreshing, Fetching, InSync, HashCalls
  <2> QED
    BY <2>1, <2>2, LocalStep DEF validate_identity, Asks, IInv, TypeOK, Running, InSync, HashCalls
<1>2. CASE best[0] # Genesis
  BY <1>2, AbortStep DEF validate_identity, Asks, Running, InSync, HashCalls
<1> QED
  BY <1>1, <1>2

\* The stored tip a pass reads is the indexed tip.
LEMMA ReadTipStep ==
    ASSUME IInv, NEW i \in Indexers, read_tip(i)
    PROVE  IInv'
<1> DEFINE j == [job[i] EXCEPT !.tip = canonical_tip]
<1>1. canonical_tip = state.indexed /\ state.indexed \in Tip /\ job[i] \in Job
  BY CanonicalTip DEF IInv, ChainIntegrity, TypeOK, DbTypeOK
<1>2. /\ j \in Job /\ j.tip = state.indexed /\ j.snap = job[i].snap
      /\ j.cursor = job[i].cursor /\ j.prev = job[i].prev /\ j.mode = job[i].mode
      /\ j.staged = job[i].staged
  BY <1>1 DEF Job
<1>3. pc'[i] = "observe" /\ job'[i] = j /\ pc[i] = "read_tip"
  BY DEF read_tip, Goto, IInv, TypeOK
<1>4. JobInv(i)'
  BY <1>2, <1>3 DEF read_tip, dbVars, nodeVars, IInv, JobInv, SnapInv, SearchInv, AppendInv, StageInv, RefreshInv, FetchInv,
             Appending, Staging, Refreshing, Fetching, InSync, HashCalls
<1> QED
  BY <1>2, <1>4, LocalStep DEF read_tip, Running, InSync, HashCalls

\* Comparing the stored tip with the node ends in the append loop above it or
\* in the search below it.
LEMMA CompareStep ==
    ASSUME IInv, NEW i \in Indexers, compare(i)
    PROVE  IInv'
<1> DEFINE j == job[i]
<1>1. /\ pc[i] = "compare" /\ j \in Job /\ j.snap.height \in Heights
      /\ j.tip = state.indexed /\ j.tip.height \in Heights /\ j.tip.hash \in Block \cup {NoBlock}
      /\ j.mode = "append" /\ j.staged = NoStage /\ best[0] = Genesis
      /\ j.tip.height <= j.snap.height
  BY DEF compare, Asks, IInv, TypeOK, DbTypeOK, Tip, JobInv, SnapInv, SearchInv, AppendInv, StageInv, RefreshInv, FetchInv,
             Appending, Staging, Refreshing, Fetching, InSync, HashCalls
<1>2. UNCHANGED <<dbVars, nodeVars, lease>> /\ pc[i] \in Running
  BY <1>1 DEF compare, Running, InSync, HashCalls
<1>3. CASE best[j.tip.height] = j.tip.hash
  <2> DEFINE k == At(j, j.tip.height + 1, j.tip.hash)
  <2>1. /\ k \in Job /\ k.snap = j.snap /\ k.mode = "append"
        /\ k.cursor = j.tip.height + 1 /\ k.prev = j.tip.hash
    <3>1. j.tip.height + 1 \in 0..MaxHeight + 1
      BY <1>1, TreeAssumption DEF Heights
    <3> QED
      BY <1>1, <3>1, JobShapes DEF At, Job
  <2>2. k.cursor \in 0..k.snap.height + 1
    BY <1>1, <1>3, <2>1, TreeAssumption DEF Heights
  <2>3. state'.indexed = [height |-> k.cursor - 1, hash |-> k.prev]
    <3>1. state'.indexed = [height |-> j.tip.height, hash |-> j.tip.hash]
      BY <1>1, <1>2, TipPair DEF dbVars, IInv, TypeOK, DbTypeOK
    <3>2. k.cursor - 1 = j.tip.height
      BY <1>1, <2>1, TreeAssumption DEF Heights
    <3> QED
      BY <2>1, <3>1, <3>2
  <2>4. Loop(i, k) /\ best'[0] = Genesis /\ TypeOK
    BY <1>1, <1>2, <1>3 DEF compare, nodeVars, IInv
  <2>5. JobInv(i)' /\ \E l \in Running, m \in Job : Goto(i, l, m)
    BY <1>1, <2>1, <2>2, <2>3, <2>4, LoopJob
  <2> QED
    BY <1>2, <2>5, LocalStep
<1>4. CASE best[j.tip.height] # j.tip.hash
  <2>1. Goto(i, "search", At(j, SearchFrom(j), NoBlock))
    BY <1>4 DEF compare
  <2>2. JobInv(i)' /\ At(j, SearchFrom(j), NoBlock) \in Job
    BY <1>1, <1>2, <2>1, SearchJob DEF dbVars, nodeVars, IInv
  <2> QED
    BY <1>2, <2>1, <2>2, LocalStep DEF Running, InSync
<1> QED
  BY <1>3, <1>4

\* The hash read in the search is the selector at the cursor.
LEMMA SearchStep ==
    ASSUME IInv, NEW i \in Indexers, search(i)
    PROVE  IInv'
<1> DEFINE j == job[i]
           k == [j EXCEPT !.hash = canonical_hash(j.cursor)]
<1>1. /\ pc[i] = "search" /\ pc[i] \in Running /\ j \in Job
      /\ j.cursor \in Heights /\ JobInv(i)
  <2>1. pc[i] = "search" /\ j \in Job /\ JobInv(i)
    BY DEF search, IInv, TypeOK
  <2>2. j.cursor \in 0..j.tip.height /\ j.tip.height \in Heights
    BY <2>1 DEF JobInv, SearchInv
  <2> QED
    BY <2>1, <2>2, TreeAssumption DEF Running, InSync, Heights
<1>2. UNCHANGED <<dbVars, nodeVars, lease>>
  BY DEF search
<1>3. CASE SearchFrom(j) - j.cursor > MaxReorgDepth
  BY <1>1, <1>2, <1>3, AbortStep DEF search
<1>4. CASE ~(SearchFrom(j) - j.cursor > MaxReorgDepth)
  <2>1. canon[j.cursor].hash \in Block \cup {NoBlock}
    BY <1>1 DEF IInv, TypeOK, DbTypeOK, Row, NoRow
  <2>2. /\ k \in Job /\ k.hash = canon[j.cursor].hash /\ k.snap = j.snap /\ k.tip = j.tip
        /\ k.mode = j.mode /\ k.staged = j.staged /\ k.cursor = j.cursor
    BY <1>1, <2>1 DEF Job, canonical_hash
  <2>3. Goto(i, "search_node", k) /\ pc'[i] = "search_node" /\ job'[i] = k
    BY <1>4 DEF search, Goto, IInv, TypeOK
  <2> HIDE DEF k
  <2>4. JobInv(i)'
    BY <1>1, <1>2, <2>2, <2>3 DEF dbVars, nodeVars, JobInv, SnapInv, SearchInv, AppendInv, StageInv, RefreshInv, FetchInv,
             Appending, Staging, Refreshing, Fetching, InSync, HashCalls
  <2> QED
    BY <1>1, <1>2, <2>2, <2>3, <2>4, LocalStep DEF Running, InSync, HashCalls
<1> QED
  BY <1>3, <1>4

\* An ancestor that is found is on the stored chain, and the search never
\* leaves the heights of the chain.
LEMMA SearchNodeStep ==
    ASSUME IInv, NEW i \in Indexers, search_node(i)
    PROVE  IInv'
<1> DEFINE j == job[i]
<1>1. /\ pc[i] = "search_node" /\ pc[i] \in Running /\ j \in Job /\ TypeOK
      /\ j.snap.height \in Heights /\ best[0] = Genesis
      /\ j.mode = "append" /\ j.staged = NoStage
      /\ j.tip = state.indexed /\ j.tip.height \in Heights
      /\ j.cursor \in 0..j.tip.height /\ j.cursor <= j.snap.height
      /\ j.hash = canon[j.cursor].hash
  BY DEF search_node, Asks, IInv, TypeOK, Running, JobInv, SnapInv, SearchInv, AppendInv, StageInv, RefreshInv, FetchInv,
             Appending, Staging, Refreshing, Fetching, InSync, HashCalls
<1>2. UNCHANGED <<dbVars, nodeVars, lease>>
  BY DEF search_node
<1>3. j.cursor \in Heights /\ j.cursor + 1 \in 0..MaxHeight + 1 /\ j.cursor \in 0..j.snap.height
  BY <1>1, TreeAssumption DEF Heights
<1>4. CASE best[j.cursor] = j.hash
  <2> DEFINE a == [height |-> j.cursor, hash |-> j.hash]
             m == At(j, j.cursor + 1, j.hash)
             k == [m EXCEPT !.mode = "stage", !.anc = a]
  <2>1. j.hash \in Block \cup {NoBlock} /\ a \in Tip
    BY <1>1, <1>3, TreeAssumption DEF Job, Tip, Heights
  <2>2. m \in Job /\ m.snap = j.snap /\ m.tip = j.tip /\ m.staged = j.staged
        /\ m.cursor = j.cursor + 1
    BY <1>1, <1>3, <2>1, JobShapes DEF At, Job
  <2> HIDE DEF m, a
  <2>3. /\ k \in Job /\ k.snap = j.snap /\ k.tip = j.tip /\ k.staged = NoStage
        /\ k.cursor = j.cursor + 1 /\ k.mode = "stage" /\ k.anc = a
    BY <1>1, <2>1, <2>2 DEF Job, Mode
  <2>4. k.anc.height = j.cursor /\ k.anc.hash = j.hash
    BY <2>3 DEF a
  <2>5. Loop(i, k)
    BY <1>4 DEF search_node, m, a
  <2> HIDE DEF k
  <2>6. \A h \in Heights : k.staged[h] = NoRow
    BY <2>3 DEF NoStage
  <2>7. /\ k.anc.height \in 0..state'.indexed.height
        /\ k.anc.hash = canon'[k.anc.height].hash /\ k.tip = state'.indexed
    BY <1>1, <1>2, <2>3, <2>4 DEF dbVars
  <2>8. k.anc.height < k.cursor /\ k.cursor \in 1..k.snap.height + 1
    BY <1>1, <1>3, <2>3, <2>4, TreeAssumption DEF Heights
  <2>9. JobInv(i)' /\ \E l \in Running, n \in Job : Goto(i, l, n)
    BY <1>1, <1>2, <2>3, <2>5, <2>6, <2>7, <2>8, LoopJob DEF nodeVars
  <2> QED
    BY <1>1, <1>2, <2>9, LocalStep
<1>5. CASE best[j.cursor] # j.hash /\ j.cursor = 0
  BY <1>1, <1>2, <1>5, AbortStep DEF search_node
<1>6. CASE best[j.cursor] # j.hash /\ j.cursor # 0
  <2> DEFINE k == At(j, j.cursor - 1, NoBlock)
  <2>1. j.cursor - 1 \in 0..j.tip.height /\ j.cursor - 1 <= j.snap.height
        /\ j.cursor - 1 \in 0..MaxHeight + 1
    BY <1>1, <1>3, <1>6, TreeAssumption DEF Heights
  <2>2. /\ k \in Job /\ k.snap = j.snap /\ k.tip = j.tip /\ k.mode = j.mode
        /\ k.staged = j.staged /\ k.cursor = j.cursor - 1
    BY <1>1, <2>1, JobShapes DEF At, Job
  <2>3. Goto(i, "search", k) /\ pc'[i] = "search" /\ job'[i] = k
    BY <1>6 DEF search_node, Goto, IInv, TypeOK
  <2> HIDE DEF k
  <2>4. JobInv(i)'
    BY <1>1, <1>2, <2>1, <2>2, <2>3 DEF dbVars, nodeVars, JobInv, SnapInv, SearchInv, AppendInv, StageInv, RefreshInv, FetchInv,
             Appending, Staging, Refreshing, Fetching, InSync, HashCalls
  <2> QED
    BY <1>1, <1>2, <2>2, <2>3, <2>4, LocalStep DEF Running, InSync
<1> QED
  BY <1>4, <1>5, <1>6

\* The block fetched at height 0 is the configured genesis block.
LEMMA FetchStep ==
    ASSUME IInv, NEW i \in Indexers, fetch(i)
    PROVE  IInv'
<1> DEFINE j == job[i]
           k == [j EXCEPT !.hash = best[j.cursor]]
<1>1. pc[i] = "fetch" /\ pc[i] \in Running /\ j \in Job /\ JobInv(i) /\ Serves(j.cursor)
  BY DEF fetch, Asks, AskedHeight, IInv, TypeOK, Running, InSync, HashCalls
<1>2. best[j.cursor] \in Block
  BY <1>1 DEF Serves, IInv, TypeOK, NodeTypeOK, Chain
<1>3. UNCHANGED <<dbVars, nodeVars, lease>>
  BY DEF fetch
<1>4. /\ k \in Job /\ k.hash = best[j.cursor] /\ k.snap = j.snap /\ k.tip = j.tip
      /\ k.mode = j.mode /\ k.staged = j.staged /\ k.cursor = j.cursor
      /\ k.prev = j.prev /\ k.anc = j.anc
  BY <1>1, <1>2 DEF Job
<1>5. Goto(i, "body", k) /\ pc'[i] = "body" /\ job'[i] = k
  BY DEF fetch, Goto, IInv, TypeOK
<1> HIDE DEF k
<1>6. JobInv(i)'
  BY <1>1, <1>2, <1>3, <1>4, <1>5 DEF dbVars, nodeVars, JobInv, SnapInv, SearchInv, AppendInv, StageInv, RefreshInv, FetchInv,
             Appending, Staging, Refreshing, Fetching, InSync, HashCalls
<1> QED
  BY <1>1, <1>3, <1>4, <1>5, <1>6, LocalStep DEF Running, InSync

\* A block that passes the predecessor check continues what was expected, and
\* its witness is the one the node holds.
LEMMA BodyStep ==
    ASSUME IInv, NEW i \in Indexers, body(i)
    PROVE  IInv'
<1> DEFINE j == job[i]
           k == [j EXCEPT !.wit = nodeWit[j.hash]]
           l == IF j.cursor = 0 THEN "confirm" ELSE "aux_status"
<1>1. /\ pc[i] = "body" /\ pc[i] \in Running /\ j \in Job /\ JobInv(i)
      /\ j.hash \in Block /\ (j.cursor = 0 => j.hash = Genesis) /\ best[0] = Genesis
  BY DEF body, IInv, TypeOK, Running, JobInv, SnapInv, SearchInv, AppendInv, StageInv, RefreshInv, FetchInv,
             Appending, Staging, Refreshing, Fetching, InSync, HashCalls
<1>2. UNCHANGED <<dbVars, nodeVars, lease>>
  BY DEF body
<1>3. CASE Parent[j.hash] = j.prev
  <2>1. nodeWit[j.hash] \in Witness
    BY <1>1 DEF IInv, TypeOK, NodeTypeOK
  <2>2. j.cursor = 0 => <<j.hash, nodeWit[j.hash]>> \in seen
    <3>1. 0 \in Heights /\ Genesis # NoBlock
      BY TreeAssumption DEF Heights
    <3> QED
      BY <1>1, <3>1 DEF IInv, Exposed
  <2>3. /\ k \in Job /\ k.hash = j.hash /\ k.wit = nodeWit[j.hash] /\ k.snap = j.snap
        /\ k.tip = j.tip /\ k.mode = j.mode /\ k.staged = j.staged /\ k.cursor = j.cursor
        /\ k.prev = j.prev /\ k.anc = j.anc
    BY <1>1, <2>1 DEF Job
  <2>4. Goto(i, l, k) /\ pc'[i] = l /\ job'[i] = k /\ l \in Running
    BY <1>3 DEF body, Goto, IInv, TypeOK, Running, InSync, HashCalls
  <2> HIDE DEF k
  <2>5. JobInv(i)'
    BY <1>1, <1>2, <1>3, <2>1, <2>2, <2>3, <2>4 DEF dbVars, nodeVars, JobInv, SnapInv, SearchInv, AppendInv, StageInv, RefreshInv, FetchInv,
             Appending, Staging, Refreshing, Fetching, InSync, HashCalls
  <2> QED
    BY <1>1, <1>2, <2>3, <2>4, <2>5, LocalStep
<1>4. CASE Parent[j.hash] # j.prev
  BY <1>1, <1>2, <1>4, AbortStep DEF body
<1> QED
  BY <1>3, <1>4

\* A confirmed witness was on the node's best chain with its block.
LEMMA AuxStatusStep ==
    ASSUME IInv, NEW i \in Indexers, aux_status(i)
    PROVE  IInv'
<1> DEFINE j == job[i]
<1>1. /\ pc[i] = "aux_status" /\ pc[i] \in Running /\ j \in Job /\ JobInv(i) /\ j.hash \in Block
  BY DEF aux_status, IInv, TypeOK, Running, JobInv, SnapInv, SearchInv, AppendInv, StageInv, RefreshInv, FetchInv,
             Appending, Staging, Refreshing, Fetching, InSync, HashCalls
<1>2. UNCHANGED <<dbVars, nodeVars, lease>>
  BY DEF aux_status
<1>3. CASE BestWitness(j.hash, j.wit)
  <2>1. <<j.hash, j.wit>> \in seen
    BY <1>1, <1>3, TreeAssumption DEF BestWitness, IInv, Exposed
  <2>2. Goto(i, "confirm", j) /\ pc'[i] = "confirm" /\ job'[i] = j
    BY <1>3 DEF aux_status, Goto, IInv, TypeOK
  <2>3. JobInv(i)'
    BY <1>1, <1>2, <2>1, <2>2 DEF dbVars, nodeVars, JobInv, SnapInv, SearchInv, AppendInv, StageInv, RefreshInv, FetchInv,
             Appending, Staging, Refreshing, Fetching, InSync, HashCalls
  <2> QED
    BY <1>1, <1>2, <2>2, <2>3, LocalStep DEF Running, InSync, HashCalls
<1>4. CASE ~BestWitness(j.hash, j.wit)
  BY <1>1, <1>2, <1>4, AbortStep DEF aux_status
<1> QED
  BY <1>3, <1>4

\* A confirmed block is committed, refreshed or added to the staged branch;
\* either way the pair was on the node's best chain.
LEMMA ConfirmStep ==
    ASSUME IInv, NEW i \in Indexers, confirm(i)
    PROVE  IInv'
<1> DEFINE j == job[i]
<1>1. /\ pc[i] = "confirm" /\ pc[i] \in Running /\ j \in Job /\ JobInv(i) /\ TypeOK
      /\ j.hash \in Block /\ j.wit \in Witness /\ <<j.hash, j.wit>> \in seen
      /\ j.snap.height \in Heights /\ best[0] = Genesis /\ Serves(j.cursor)
  BY DEF confirm, Asks, AskedHeight, IInv, TypeOK, Running, JobInv, SnapInv, SearchInv, AppendInv, StageInv, RefreshInv, FetchInv,
             Appending, Staging, Refreshing, Fetching, InSync, HashCalls
<1>2. UNCHANGED <<dbVars, nodeVars, lease>>
  BY DEF confirm
<1>3. CASE best[j.cursor] # j.hash
  BY <1>1, <1>2, <1>3, AbortStep DEF confirm
<1>4. CASE best[j.cursor] = j.hash /\ j.mode = "append"
  <2>1. Goto(i, "commit", j) /\ pc'[i] = "commit" /\ job'[i] = j
    BY <1>4 DEF confirm, Goto, IInv, TypeOK
  <2>2. JobInv(i)'
    BY <1>1, <1>2, <1>4, <2>1 DEF dbVars, nodeVars, JobInv, SnapInv, SearchInv, AppendInv, StageInv, RefreshInv, FetchInv,
             Appending, Staging, Refreshing, Fetching, InSync, HashCalls
  <2> QED
    BY <1>1, <1>2, <2>1, <2>2, LocalStep DEF Running, InSync
<1>5. CASE best[j.cursor] = j.hash /\ j.mode = "refresh"
  <2>1. Goto(i, "refresh", j) /\ pc'[i] = "refresh" /\ job'[i] = j
    BY <1>5 DEF confirm, Goto, IInv, TypeOK
  <2>2. JobInv(i)'
    BY <1>1, <1>2, <1>5, <2>1 DEF dbVars, nodeVars, JobInv, SnapInv, SearchInv, AppendInv, StageInv, RefreshInv, FetchInv,
             Appending, Staging, Refreshing, Fetching, InSync, HashCalls
  <2> QED
    BY <1>1, <1>2, <2>1, <2>2, LocalStep DEF Running, InSync
<1>6. CASE best[j.cursor] = j.hash /\ j.mode = "stage"
  <2> DEFINE m == At(j, j.cursor + 1, j.hash)
             r == Fetched(i)
             k == [m EXCEPT !.staged[j.cursor] = r]
  <2>1. j.cursor \in Heights /\ j.cursor + 1 \in 0..MaxHeight + 1
    BY <1>1, TreeAssumption DEF Serves, Heights
  <2>2. m \in Job /\ m.snap = j.snap /\ m.tip = j.tip /\ m.staged = j.staged
        /\ m.cursor = j.cursor + 1 /\ m.anc = j.anc /\ m.mode = "stage"
    BY <1>1, <1>6, <2>1, JobShapes DEF At, Job
  <2>3. r \in Row /\ r = [hash |-> j.hash, wit |-> j.wit]
    BY <1>1 DEF Fetched, Row
  <2>4. Loop(i, k)
    BY <1>6 DEF confirm
  <2> HIDE DEF m, r
  <2> DEFINE st == [j.staged EXCEPT ![j.cursor] = r]
  <2>5. st \in [Heights -> Row \cup {NoRow}]
    BY <1>1, <2>3 DEF Job
  <2>6. k = [m EXCEPT !.staged = st]
    BY <2>2 DEF Job
  <2>7. k \in Job /\ k.snap = j.snap /\ k.tip = j.tip /\ k.staged = st
        /\ k.cursor = j.cursor + 1 /\ k.anc = j.anc /\ k.mode = "stage"
    BY <2>2, <2>5, <2>6 DEF Job
  <2> HIDE DEF k
  <2>8. /\ j.tip = state.indexed /\ j.anc.height \in 0..state.indexed.height
        /\ j.anc.hash = canon[j.anc.height].hash
        /\ j.anc.height < j.cursor
        /\ \A h \in Heights : j.staged[h] # NoRow =>
              <<j.staged[h].hash, j.staged[h].wit>> \in seen
    BY <1>1, <1>6 DEF JobInv, StageInv, Staging, Fetching
  <2>9. j.cursor \in 1..j.snap.height + 1 /\ j.cursor <= j.snap.height
    BY <1>1, <1>6 DEF JobInv, StageInv, Staging, Fetching
  <2>10. \A h \in Heights : k.staged[h] # NoRow =>
              <<k.staged[h].hash, k.staged[h].wit>> \in seen'
    BY <1>1, <1>2, <2>1, <2>3, <2>7, <2>8 DEF nodeVars, Job
  <2>11. k.anc.height < k.cursor /\ k.cursor \in 1..k.snap.height + 1
    BY <1>1, <2>1, <2>7, <2>8, <2>9, TreeAssumption DEF Heights
  <2>12. JobInv(i)' /\ \E l \in Running, n \in Job : Goto(i, l, n)
    BY <1>1, <1>2, <2>4, <2>7, <2>8, <2>10, <2>11, LoopJob DEF nodeVars, dbVars
  <2> QED
    BY <1>1, <1>2, <2>12, LocalStep
<1> QED
  BY <1>1, <1>3, <1>4, <1>5, <1>6 DEF Job, Mode

\* The second look at the snapshot changes nothing that is known.
LEMMA RecheckTipStep ==
    ASSUME IInv, NEW i \in Indexers, recheck_tip(i)
    PROVE  IInv'
<1> DEFINE j == job[i]
<1>1. pc[i] = "recheck_tip" /\ pc[i] \in Running /\ j \in Job /\ JobInv(i)
  BY DEF recheck_tip, Asks, IInv, TypeOK, Running, InSync, HashCalls
<1>2. UNCHANGED <<dbVars, nodeVars, lease>>
  BY DEF recheck_tip
<1>3. CASE best[j.snap.height] = j.snap.hash
  <2>1. Goto(i, "recheck_ancestor", j) /\ pc'[i] = "recheck_ancestor" /\ job'[i] = j
    BY <1>3 DEF recheck_tip, Goto, IInv, TypeOK
  <2>2. JobInv(i)'
    BY <1>1, <1>2, <2>1 DEF dbVars, nodeVars, JobInv, SnapInv, SearchInv, AppendInv, StageInv, RefreshInv, FetchInv,
             Appending, Staging, Refreshing, Fetching, InSync, HashCalls
  <2> QED
    BY <1>1, <1>2, <2>1, <2>2, LocalStep DEF Running, InSync, HashCalls
<1>4. CASE ~(best[j.snap.height] = j.snap.hash)
  BY <1>1, <1>2, <1>4, AbortStep DEF recheck_tip
<1> QED
  BY <1>3, <1>4

\* The second look at the ancestor changes nothing that is known.
LEMMA RecheckAncestorStep ==
    ASSUME IInv, NEW i \in Indexers, recheck_ancestor(i)
    PROVE  IInv'
<1> DEFINE j == job[i]
<1>1. pc[i] = "recheck_ancestor" /\ pc[i] \in Running /\ j \in Job /\ JobInv(i)
  BY DEF recheck_ancestor, Asks, IInv, TypeOK, Running, InSync, HashCalls
<1>2. UNCHANGED <<dbVars, nodeVars, lease>>
  BY DEF recheck_ancestor
<1>3. CASE best[j.anc.height] = j.anc.hash
  <2>1. Goto(i, "replace", j) /\ pc'[i] = "replace" /\ job'[i] = j
    BY <1>3 DEF recheck_ancestor, Goto, IInv, TypeOK
  <2>2. JobInv(i)'
    BY <1>1, <1>2, <2>1 DEF dbVars, nodeVars, JobInv, SnapInv, SearchInv, AppendInv, StageInv, RefreshInv, FetchInv,
             Appending, Staging, Refreshing, Fetching, InSync, HashCalls
  <2> QED
    BY <1>1, <1>2, <2>1, <2>2, LocalStep DEF Running, InSync, HashCalls
<1>4. CASE ~(best[j.anc.height] = j.anc.hash)
  BY <1>1, <1>2, <1>4, AbortStep DEF recheck_ancestor
<1> QED
  BY <1>3, <1>4

\* A record picked for refresh lies above the genesis block.
LEMMA CandidateStep ==
    ASSUME IInv, NEW i \in Indexers, candidate(i)
    PROVE  IInv'
<1> DEFINE j == job[i]
<1>1. pc[i] = "candidate" /\ pc[i] \in Running /\ j \in Job /\ JobInv(i)
  BY DEF candidate, IInv, TypeOK, Running, InSync
<1>2. UNCHANGED <<dbVars, nodeVars, lease>>
  BY DEF candidate
<1>3. CASE Goto(i, "final_tip", j)
  <2>1. pc'[i] = "final_tip" /\ job'[i] = j
    BY <1>3 DEF Goto, IInv, TypeOK
  <2>2. JobInv(i)'
    BY <1>1, <1>2, <2>1 DEF dbVars, nodeVars, JobInv, SnapInv, SearchInv, AppendInv, StageInv, RefreshInv, FetchInv,
             Appending, Staging, Refreshing, Fetching, InSync, HashCalls
  <2> QED
    BY <1>1, <1>2, <1>3, <2>2, LocalStep DEF Running, InSync
<1>4. ASSUME NEW h \in RefreshWindow(RefreshDepth),
             Goto(i, "refresh_prev", [j EXCEPT !.mode = "refresh", !.cursor = h])
      PROVE  IInv'
  <2> DEFINE k == [j EXCEPT !.mode = "refresh", !.cursor = h]
  <2>1. h \in Heights \ {0} /\ h \in 0..MaxHeight + 1
    BY TreeAssumption DEF RefreshWindow, Heights
  <2>2. k \in Job /\ k.snap = j.snap /\ k.mode = "refresh" /\ k.cursor = h
    BY <1>1, <2>1 DEF Job, Mode
  <2>3. pc'[i] = "refresh_prev" /\ job'[i] = k
    BY <1>4 DEF Goto, IInv, TypeOK
  <2> HIDE DEF k
  <2>4. JobInv(i)'
    BY <1>1, <1>2, <2>1, <2>2, <2>3 DEF dbVars, nodeVars, JobInv, SnapInv, SearchInv, AppendInv, StageInv, RefreshInv, FetchInv,
             Appending, Staging, Refreshing, Fetching, InSync, HashCalls
  <2> QED
    BY <1>1, <1>2, <1>4, <2>2, <2>4, LocalStep DEF Running, InSync, HashCalls, k
<1> QED
  BY <1>3, <1>4 DEF candidate

\* The refreshed record's predecessor is asked below a positive height.
LEMMA RefreshPrevStep ==
    ASSUME IInv, NEW i \in Indexers, refresh_prev(i)
    PROVE  IInv'
<1> DEFINE j == job[i]
           k == [j EXCEPT !.prev = best[j.cursor - 1]]
<1>1. /\ pc[i] = "refresh_prev" /\ pc[i] \in Running /\ j \in Job /\ JobInv(i)
      /\ Serves(j.cursor - 1)
  BY DEF refresh_prev, Asks, AskedHeight, IInv, TypeOK, Running, InSync, HashCalls
<1>2. UNCHANGED <<dbVars, nodeVars, lease>>
  BY DEF refresh_prev
<1>3. best[j.cursor - 1] \in Block
  BY <1>1 DEF Serves, IInv, TypeOK, NodeTypeOK, Chain
<1>4. /\ k \in Job /\ k.snap = j.snap /\ k.mode = j.mode /\ k.cursor = j.cursor
  BY <1>1, <1>3 DEF Job
<1>5. Goto(i, "fetch", k) /\ pc'[i] = "fetch" /\ job'[i] = k
  BY DEF refresh_prev, Goto, IInv, TypeOK
<1> HIDE DEF k
<1>6. JobInv(i)'
  BY <1>1, <1>2, <1>4, <1>5 DEF dbVars, nodeVars, JobInv, SnapInv, SearchInv, AppendInv, StageInv, RefreshInv, FetchInv,
             Appending, Staging, Refreshing, Fetching, InSync, HashCalls
<1> QED
  BY <1>1, <1>2, <1>4, <1>5, <1>6, LocalStep DEF Running, InSync, HashCalls

\* The final tip a pass reads is the indexed tip.
LEMMA FinalTipStep ==
    ASSUME IInv, NEW i \in Indexers, final_tip(i)
    PROVE  IInv'
<1> DEFINE j == job[i]
           k == [j EXCEPT !.tip = canonical_tip]
<1>1. pc[i] = "final_tip" /\ pc[i] \in Running /\ j \in Job /\ JobInv(i)
  BY DEF final_tip, IInv, TypeOK, Running, InSync
<1>2. UNCHANGED <<dbVars, nodeVars, lease>>
  BY DEF final_tip
<1>3. canonical_tip = state.indexed /\ state.indexed \in Tip
  BY CanonicalTip DEF IInv, ChainIntegrity, TypeOK, DbTypeOK
<1>4. k \in Job /\ k.tip = state.indexed /\ k.snap = j.snap
  BY <1>1, <1>3 DEF Job
<1>5. Goto(i, "finish", k) /\ pc'[i] = "finish" /\ job'[i] = k
  BY DEF final_tip, Goto, IInv, TypeOK
<1> HIDE DEF k
<1>6. JobInv(i)'
  BY <1>1, <1>2, <1>4, <1>5 DEF dbVars, nodeVars, JobInv, SnapInv, SearchInv, AppendInv, StageInv, RefreshInv, FetchInv,
             Appending, Staging, Refreshing, Fetching, InSync, HashCalls
<1> QED
  BY <1>1, <1>2, <1>4, <1>5, <1>6, LocalStep DEF Running, InSync

------------------------------------------------------------------------------
(***************************************************************************)
(* The steps that write.                                                   *)
(***************************************************************************)

\* A write to the node tip and the status leaves the chain as it is.
LEMMA StatusWrite ==
    ASSUME IInv, NEW t \in Tip, NEW s \in Status,
           state' = [state EXCEPT !.node = t, !.status = s],
           UNCHANGED <<canon, facts, lastReorg, seen>>
    PROVE  /\ state'.indexed = state.indexed /\ state'.node = t /\ state'.status = s
           /\ DbTypeOK' /\ ChainIntegrity' /\ StoredWasBest'
<1>1. /\ state' \in [indexed : Tip, node : Tip, status : Status]
      /\ state'.indexed = state.indexed /\ state'.node = t /\ state'.status = s
  BY DEF IInv, TypeOK, DbTypeOK
<1>2. DbTypeOK'
  BY <1>1 DEF IInv, TypeOK, DbTypeOK
<1>3. ChainIntegrity' /\ StoredWasBest'
  BY <1>1 DEF IInv, ChainIntegrity, OneChain, StateAtTip, StoredWasBest, Selected, Linked,
              IsTip, ReachesTo
<1> QED
  BY <1>1, <1>2, <1>3

\* Recording the node's tip keeps `ready' only at that tip.
LEMMA ObserveStep ==
    ASSUME IInv, NEW i \in Indexers, observe(i)
    PROVE  IInv'
<1> DEFINE j == job[i]
           s == IF state.indexed = j.snap THEN state.status ELSE "syncing"
<1>1. /\ pc[i] = "observe" /\ pc[i] \in Running /\ j \in Job /\ TypeOK
      /\ j.snap.height \in Heights /\ best[0] = Genesis /\ j.tip = state.indexed
      /\ j.mode = "append" /\ j.staged = NoStage /\ j.cursor = 0 /\ j.prev = NoBlock
  BY DEF observe, IInv, TypeOK, Running, JobInv, SnapInv, SearchInv, AppendInv, StageInv, RefreshInv, FetchInv,
             Appending, Staging, Refreshing, Fetching, InSync, HashCalls
<1>2. UNCHANGED <<canon, facts, lastReorg, nodeVars, lease>>
  BY DEF observe, observe_node_tip
<1>3. s \in Status /\ j.snap \in Tip
  BY <1>1 DEF IInv, TypeOK, DbTypeOK, Status, Job
<1>4. state' = [state EXCEPT !.node = j.snap, !.status = s]
  BY DEF observe, observe_node_tip, IInv, TypeOK, DbTypeOK
<1>5. /\ state'.indexed = state.indexed /\ state'.node = j.snap /\ state'.status = s
      /\ DbTypeOK' /\ ChainIntegrity' /\ StoredWasBest'
  BY <1>2, <1>3, <1>4, StatusWrite DEF nodeVars
<1>6. ReadyCaughtUp'
  BY <1>5 DEF IInv, ReadyCaughtUp
<1>7. CASE j.tip = NoTip
  <2>1. Loop(i, j)
    BY <1>7 DEF observe
  <2>2. state'.indexed = [height |-> j.cursor - 1, hash |-> j.prev]
    BY <1>1, <1>5, <1>7 DEF NoTip
  <2>3. j.cursor \in 0..j.snap.height + 1
    BY <1>1, TreeAssumption DEF Heights
  <2>4. JobInv(i)' /\ \E l \in Running, m \in Job : Goto(i, l, m)
    BY <1>1, <1>2, <2>1, <2>2, <2>3, LoopJob DEF nodeVars
  <2> QED
    BY <1>1, <1>2, <1>5, <1>6, <2>4, DbStep
<1>8. ASSUME j.tip # NoTip PROVE j.tip.height \in Heights
  <2>1. j.tip \in Tip /\ IsTip(Selected, j.tip)
    BY <1>1 DEF IInv, ChainIntegrity, StateAtTip, Job
  <2>2. j.tip.height # -1
    BY <1>8, <2>1, TipPair DEF IsTip, NoTip
  <2> QED
    BY <2>1, <2>2, TreeAssumption DEF Tip, Heights
<1>9. CASE j.tip # NoTip /\ j.tip.height <= j.snap.height
  <2>1. Goto(i, "compare", j) /\ pc'[i] = "compare" /\ job'[i] = j
    BY <1>9 DEF observe, Goto, IInv, TypeOK
  <2>2. JobInv(i)'
    BY <1>1, <1>2, <1>5, <1>8, <1>9, <2>1 DEF nodeVars, JobInv, SnapInv, SearchInv, AppendInv, StageInv, RefreshInv, FetchInv,
             Appending, Staging, Refreshing, Fetching, InSync, HashCalls
  <2> QED
    BY <1>1, <1>2, <1>5, <1>6, <2>1, <2>2, DbStep DEF Running, InSync, HashCalls
<1>10. CASE j.tip # NoTip /\ ~(j.tip.height <= j.snap.height)
  <2>1. Goto(i, "search", At(j, SearchFrom(j), NoBlock))
    BY <1>10 DEF observe
  <2>2. JobInv(i)' /\ At(j, SearchFrom(j), NoBlock) \in Job
    BY <1>1, <1>2, <1>5, <1>8, <1>10, <2>1, SearchJob DEF nodeVars
  <2> QED
    BY <1>1, <1>2, <1>5, <1>6, <2>1, <2>2, DbStep DEF Running, InSync
<1> QED
  BY <1>7, <1>9, <1>10

\* The pass ends `ready' exactly when the final tip has the snapshot's height.
LEMMA FinishStep ==
    ASSUME IInv, NEW i \in Indexers, finish(i)
    PROVE  IInv'
<1> DEFINE j == job[i]
           f == IF j.tip = NoTip THEN 0 ELSE j.tip.height
           s == IF f = j.snap.height THEN "ready" ELSE "syncing"
<1>1. /\ pc[i] = "finish" /\ pc[i] \in Running /\ j \in Job
      /\ j.snap.height \in Heights /\ j.tip = state.indexed /\ state.indexed.height \in Heights
  BY DEF finish, IInv, TypeOK, Running, JobInv, SnapInv, SearchInv, AppendInv, StageInv, RefreshInv, FetchInv,
             Appending, Staging, Refreshing, Fetching, InSync, HashCalls
<1>2. UNCHANGED <<canon, facts, lastReorg, nodeVars, lease>>
  BY DEF finish, update_node_tip
<1>3. s \in Status /\ j.snap \in Tip
  BY <1>1 DEF Status, Job
<1>4. state' = [state EXCEPT !.node = j.snap, !.status = s]
  BY DEF finish, update_node_tip
<1>5. /\ state'.indexed = state.indexed /\ state'.node = j.snap /\ state'.status = s
      /\ DbTypeOK' /\ ChainIntegrity' /\ StoredWasBest'
  BY <1>2, <1>3, <1>4, StatusWrite DEF nodeVars
<1>6. j.tip # NoTip
  BY <1>1, TreeAssumption DEF NoTip, Heights
<1>7. ReadyCaughtUp'
  BY <1>1, <1>5, <1>6 DEF ReadyCaughtUp
<1>8. Goto(i, "idle", NoJob) /\ pc'[i] = "idle"
  BY DEF finish, Goto, IInv, TypeOK
<1>9. JobInv(i)'
  BY <1>8 DEF JobInv, SnapInv, SearchInv, AppendInv, StageInv, RefreshInv, FetchInv,
             Appending, Staging, Refreshing, Fetching, InSync, HashCalls
<1> QED
  BY <1>1, <1>2, <1>5, <1>7, <1>8, <1>9, JobShapes, DbStep DEF Running

\* Recording a failure touches the status alone.
LEMMA FailedStep ==
    ASSUME IInv, NEW i \in Indexers, Failed(i)
    PROVE  IInv'
<1>1. pc[i] = "failed" /\ Goto(i, "idle", NoJob) /\ pc'[i] = "idle" /\ pc[i] \in Running
  BY DEF Failed, Goto, IInv, TypeOK, Running
<1>2. JobInv(i)'
  BY <1>1 DEF JobInv, SnapInv, SearchInv, AppendInv, StageInv, RefreshInv, FetchInv,
             Appending, Staging, Refreshing, Fetching, InSync, HashCalls
<1>3. CASE UNCHANGED dbVars
  BY <1>1, <1>2, <1>3, JobShapes, LocalStep DEF Failed, Running
<1>4. CASE mark_indexer_error
  <2>1. state' = [state EXCEPT !.node = state.node, !.status = "error"]
        /\ state.node \in Tip /\ "error" \in Status
    BY <1>4 DEF mark_indexer_error, IInv, TypeOK, DbTypeOK, Status
  <2>2. UNCHANGED <<canon, facts, lastReorg, nodeVars, lease>>
    BY <1>4 DEF mark_indexer_error, Failed
  <2>3. state'.status = "error" /\ DbTypeOK' /\ ChainIntegrity' /\ StoredWasBest'
    BY <2>1, <2>2, StatusWrite DEF nodeVars
  <2>4. ReadyCaughtUp'
    BY <2>3 DEF ReadyCaughtUp
  <2> QED
    BY <1>1, <1>2, <2>2, <2>3, <2>4, JobShapes, DbStep DEF Running
<1> QED
  BY <1>3, <1>4 DEF Failed

\* Refreshing a record adds a pair the node had on its best chain.
LEMMA RefreshStep ==
    ASSUME IInv, NEW i \in Indexers, refresh(i)
    PROVE  IInv'
<1> DEFINE j == job[i]
<1>1. /\ pc[i] = "refresh" /\ pc[i] \in Running /\ j \in Job /\ JobInv(i)
      /\ <<j.hash, j.wit>> \in seen
  BY DEF refresh, IInv, TypeOK, Running, JobInv, SnapInv, SearchInv, AppendInv, StageInv, RefreshInv, FetchInv,
             Appending, Staging, Refreshing, Fetching, InSync, HashCalls
<1>2. UNCHANGED <<nodeVars, lease>>
  BY DEF refresh
<1>3. CASE refresh_block_evidence_ok(Fetched(i))
  <2>1. /\ facts' = facts \cup {<<j.hash, j.wit>>} /\ UNCHANGED <<canon, state, lastReorg>>
    BY <1>3 DEF refresh, refresh_block_evidence, Fetched
  <2>2. DbTypeOK' /\ ChainIntegrity' /\ StoredWasBest' /\ ReadyCaughtUp'
    <3>1. facts' \subseteq seen' /\ facts \subseteq facts'
      BY <1>1, <1>2, <2>1 DEF IInv, StoredWasBest, nodeVars
    <3>2. DbTypeOK'
      BY <1>2, <2>1, <3>1 DEF IInv, TypeOK, DbTypeOK, NodeTypeOK, nodeVars
    <3>3. StoredWasBest'
      BY <2>1, <3>1 DEF IInv, StoredWasBest
    <3>4. ChainIntegrity' /\ ReadyCaughtUp'
      BY <2>1 DEF IInv, ChainIntegrity, OneChain, StateAtTip, ReadyCaughtUp, Selected, Linked,
                  IsTip, ReachesTo
    <3> QED
      BY <3>2, <3>3, <3>4
  <2>3. Goto(i, "final_tip", Rest(j)) /\ pc'[i] = "final_tip" /\ job'[i] = Rest(j)
    BY <1>3 DEF refresh, Goto, IInv, TypeOK
  <2>4. Rest(j) \in Job /\ Rest(j).snap = j.snap
    BY <1>1, JobShapes DEF Rest, NoJob
  <2>5. JobInv(i)'
    BY <1>1, <1>2, <2>1, <2>3, <2>4 DEF nodeVars, JobInv, SnapInv, SearchInv, AppendInv, StageInv, RefreshInv, FetchInv,
             Appending, Staging, Refreshing, Fetching, InSync, HashCalls
  <2> QED
    BY <1>1, <1>2, <2>2, <2>3, <2>4, <2>5, DbStep DEF Running, InSync
<1>4. CASE ~refresh_block_evidence_ok(Fetched(i))
  BY <1>1, <1>2, <1>4, AbortStep DEF refresh
<1> QED
  BY <1>3, <1>4

\* Committing a block extends the chain by a child of its tip.
LEMMA CommitStep ==
    ASSUME IInv, NEW i \in Indexers, commit(i)
    PROVE  IInv'
<1> DEFINE j == job[i]
           r == Fetched(i)
           u == [height |-> j.cursor, hash |-> j.hash]
<1>1. /\ pc[i] = "commit" /\ pc[i] \in Running /\ j \in Job /\ TypeOK
      /\ j.mode = "append" /\ j.snap.height \in Heights /\ best[0] = Genesis
      /\ j.cursor \in 0..j.snap.height
      /\ state.indexed = [height |-> j.cursor - 1, hash |-> j.prev]
      /\ j.hash \in Block /\ (j.cursor = 0 => j.hash = Genesis)
      /\ j.wit \in Witness /\ Parent[j.hash] = j.prev /\ <<j.hash, j.wit>> \in seen
  BY DEF commit, IInv, TypeOK, Running, JobInv, SnapInv, SearchInv, AppendInv, StageInv, RefreshInv, FetchInv,
             Appending, Staging, Refreshing, Fetching, InSync, HashCalls
<1>2. UNCHANGED <<nodeVars, lease>>
  BY DEF commit
<1>3. CASE commit_block_ok(j.cursor, r)
  <2>1. /\ canon' = [canon EXCEPT ![j.cursor] = r]
        /\ facts' = facts \cup {<<j.hash, j.wit>>}
        /\ state' = [state EXCEPT !.indexed = u, !.status = "syncing"]
        /\ UNCHANGED lastReorg
    BY <1>3 DEF commit, commit_block, Fetched
  <2>2. j.cursor \in Heights /\ r \in Row /\ r.hash = j.hash /\ r.wit = j.wit
    BY <1>1, TreeAssumption DEF Fetched, Row, Heights
  <2>3. u \in Tip
    BY <1>1, <2>2, TreeAssumption DEF Tip, Heights
  <2>4. state'.indexed = u /\ state'.status = "syncing" /\ state'.node = state.node
        /\ state' \in [indexed : Tip, node : Tip, status : Status]
    BY <2>1, <2>3 DEF IInv, TypeOK, DbTypeOK, Status
  <2> HIDE DEF r
  <2>5. canon' \in [Heights -> Row \cup {NoRow}]
    BY <2>1, <2>2 DEF IInv, TypeOK, DbTypeOK
  <2>6. facts' \subseteq seen' /\ facts \subseteq facts' /\ <<j.hash, j.wit>> \in facts'
    BY <1>1, <1>2, <2>1 DEF IInv, StoredWasBest, nodeVars
  <2>7. DbTypeOK'
    BY <1>2, <2>1, <2>4, <2>5, <2>6 DEF IInv, TypeOK, DbTypeOK, NodeTypeOK, nodeVars
  <2>8. StoredWasBest'
    BY <2>1, <2>2, <2>6 DEF IInv, StoredWasBest, TypeOK, DbTypeOK
  <2>9. ReadyCaughtUp'
    BY <2>4 DEF ReadyCaughtUp
  <2>10. ChainIntegrity'
    <3>1. Selected \in [Heights -> Block \cup {NoBlock}]
      BY DEF IInv, TypeOK, DbTypeOK, Selected, Row, NoRow
    <3>2. Selected' = [Selected EXCEPT ![j.cursor] = j.hash]
      BY <2>1, <2>2 DEF Selected, IInv, TypeOK, DbTypeOK
    <3>3. /\ state.indexed \in Tip /\ state.indexed.hash = j.prev
          /\ j.cursor = state.indexed.height + 1
      <4>1. state.indexed \in Tip
        BY DEF IInv, TypeOK, DbTypeOK
      <4>2. state.indexed = [height |-> j.cursor - 1, hash |-> j.prev]
        BY <1>1
      <4>3. j.cursor \in Int
        BY <2>2, TreeAssumption DEF Heights
      <4> QED
        BY <4>1, <4>2, <4>3
    <3>4. Selected'[0] \in {Genesis, NoBlock} /\ Linked(Selected') /\ IsTip(Selected', u)
      BY <1>1, <2>2, <3>1, <3>2, <3>3, AppendKeepsChain
           DEF IInv, ChainIntegrity, OneChain, StateAtTip
    <3> QED
      BY <2>4, <3>4 DEF ChainIntegrity, OneChain, StateAtTip, Linked, IsTip, ReachesTo, Selected
  <2> DEFINE k == At(j, j.cursor + 1, j.hash)
  <2>11. k \in Job /\ k.snap = j.snap /\ k.mode = "append" /\ k.cursor = j.cursor + 1
         /\ k.prev = j.hash
    <3>1. j.cursor + 1 \in 0..MaxHeight + 1
      BY <2>2, TreeAssumption DEF Heights
    <3> QED
      BY <1>1, <3>1, JobShapes DEF At, Job
  <2>12. Loop(i, k)
    BY <1>3 DEF commit, r
  <2> HIDE DEF k
  <2>13. /\ k.cursor \in 0..k.snap.height + 1
         /\ state'.indexed = [height |-> k.cursor - 1, hash |-> k.prev]
    <3>1. k.cursor - 1 = j.cursor /\ k.cursor \in 0..k.snap.height + 1
      BY <1>1, <2>2, <2>11, TreeAssumption DEF Heights
    <3> QED
      BY <2>4, <2>11, <3>1
  <2>14. JobInv(i)' /\ \E l \in Running, m \in Job : Goto(i, l, m)
    BY <1>1, <1>2, <2>11, <2>12, <2>13, LoopJob DEF nodeVars
  <2> QED
    BY <1>1, <1>2, <2>7, <2>8, <2>9, <2>10, <2>14, DbStep
<1>4. CASE ~commit_block_ok(j.cursor, r)
  BY <1>1, <1>2, <1>4, AbortStep DEF commit
<1> QED
  BY <1>3, <1>4

\* Publishing a staged branch: the ancestor is still selected and the branch
\* was checked to continue from it.
LEMMA ReplaceStep ==
    ASSUME IInv, NEW i \in Indexers, replace(i)
    PROVE  IInv'
<1> DEFINE j == job[i]
           a == j.anc.height
           n == j.snap.height
           u == state'.indexed
<1>1. /\ pc[i] = "replace" /\ pc[i] \in Running /\ j \in Job /\ TypeOK
      /\ n \in Heights /\ best[0] = Genesis
      /\ j.tip = state.indexed /\ a \in 0..state.indexed.height
      /\ j.anc.hash = canon[a].hash /\ a < j.cursor /\ j.cursor \in 1..n + 1
      /\ \A h \in Heights : j.staged[h] # NoRow =>
            <<j.staged[h].hash, j.staged[h].wit>> \in seen
  BY DEF replace, IInv, TypeOK, Running, JobInv, SnapInv, SearchInv, AppendInv, StageInv, RefreshInv, FetchInv,
             Appending, Staging, Refreshing, Fetching, InSync, HashCalls
<1>2. UNCHANGED <<nodeVars, lease>>
  BY DEF replace
<1>3. CASE replace_canonical_branch_ok(j.tip, j.anc, j.staged, n)
  <2>1. /\ canon' = [h \in Heights |->
                IF h <= a THEN canon[h] ELSE IF h \in a+1..n THEN j.staged[h] ELSE NoRow]
        /\ facts' = facts \cup {<<j.staged[h].hash, j.staged[h].wit>> : h \in a+1..n}
        /\ lastReorg' = [old |-> j.tip, ancestor |-> j.anc]
        /\ state' = [state EXCEPT
              !.indexed = IF a+1..n = {} THEN j.anc
                          ELSE [height |-> n, hash |-> j.staged[n].hash],
              !.status = "syncing"]
    BY <1>3 DEF replace, replace_canonical_branch
  <2>2. \A h \in a+1..n :
          /\ j.staged[h] # NoRow
          /\ Parent[j.staged[h].hash] = IF h = a + 1 THEN j.anc.hash ELSE j.staged[h-1].hash
    BY <1>3 DEF replace_canonical_branch_ok, validate_replacement_branch
  <2>3. /\ a \in Nat /\ n \in Nat /\ MaxHeight \in Nat /\ a <= n /\ n <= MaxHeight
        /\ a \in Heights /\ \A h \in a+1..n : h \in Heights
    <3>1. state.indexed.height \in -1..MaxHeight /\ j.cursor \in Int
      BY <1>1 DEF TypeOK, DbTypeOK, Tip, Job
    <3> QED
      BY <1>1, <3>1, TreeAssumption DEF Heights
  <2>4. j.staged \in [Heights -> Row \cup {NoRow}] /\ j.anc \in Tip /\ j.tip \in Tip
    BY <1>1 DEF Job
  <2>5. \A h \in a+1..n : /\ j.staged[h] \in Row /\ j.staged[h].hash \in Block
                          /\ <<j.staged[h].hash, j.staged[h].wit>> \in seen
    BY <1>1, <2>2, <2>3, <2>4 DEF Row
  <2>6. canon' \in [Heights -> Row \cup {NoRow}]
    BY <2>1, <2>4 DEF IInv, TypeOK, DbTypeOK
  <2>7. u \in Tip /\ u.height = n /\ u.hash = canon'[n].hash
    <3>1. CASE a + 1 <= n
      <4>1. n \in a+1..n /\ ~(n <= a)
        BY <2>3, <3>1
      <4>2. u = [height |-> n, hash |-> j.staged[n].hash]
        BY <2>1, <4>1 DEF IInv, TypeOK, DbTypeOK
      <4>3. canon'[n] = j.staged[n]
        BY <1>1, <2>1, <4>1
      <4>4. n \in -1..MaxHeight
        BY <2>3
      <4>5. j.staged[n].hash \in Block
        BY <2>5, <4>1
      <4>6. [height |-> n, hash |-> j.staged[n].hash] \in Tip
        BY <4>4, <4>5 DEF Tip
      <4> QED
        BY <4>2, <4>3, <4>6
    <3>2. CASE ~(a + 1 <= n)
      <4>1. n = a /\ a+1..n = {}
        BY <2>3, <3>2
      <4>2. u = j.anc
        BY <2>1, <4>1 DEF IInv, TypeOK, DbTypeOK
      <4>3. canon'[n] = canon[a]
        BY <1>1, <2>1, <2>3, <4>1
      <4> QED
        BY <1>1, <2>4, <4>1, <4>2, <4>3
    <3> QED
      BY <3>1, <3>2
  <2>8. state'.status = "syncing" /\ state'.node = state.node
        /\ state' \in [indexed : Tip, node : Tip, status : Status]
    <3>1. state'.status = "syncing" /\ state'.node = state.node /\ state'.node \in Tip
      BY <2>1 DEF IInv, TypeOK, DbTypeOK
    <3>2. state' = [indexed |-> u, node |-> state'.node, status |-> state'.status]
      BY <2>1 DEF IInv, TypeOK, DbTypeOK
    <3> QED
      BY <2>7, <3>1, <3>2 DEF Status
  <2>9. facts' \subseteq seen' /\ facts \subseteq facts'
    BY <1>2, <2>1, <2>5 DEF IInv, StoredWasBest, nodeVars
  <2>10. DbTypeOK'
    <3>1. lastReorg' \in [old : Tip, ancestor : Tip]
      BY <2>1, <2>4
    <3> QED
      BY <1>2, <2>6, <2>8, <2>9, <3>1 DEF IInv, TypeOK, DbTypeOK, NodeTypeOK, nodeVars
  <2>11. StoredWasBest'
    <3>1. ASSUME NEW h \in Heights, canon'[h] # NoRow
          PROVE  <<canon'[h].hash, canon'[h].wit>> \in facts'
      <4>1. CASE h <= a
        BY <2>1, <2>9, <3>1, <4>1 DEF IInv, StoredWasBest
      <4>2. CASE ~(h <= a)
        <5>1. canon'[h] = j.staged[h] /\ h \in a+1..n
          BY <2>1, <3>1, <4>2
        <5> QED
          BY <2>1, <5>1
      <4> QED
        BY <4>1, <4>2
    <3> QED
      BY <2>9, <3>1 DEF StoredWasBest
  <2>12. ReadyCaughtUp'
    BY <2>8 DEF ReadyCaughtUp
  <2>13. ChainIntegrity'
    <3> DEFINE s == [h \in Heights |-> j.staged[h].hash]
    <3>1. /\ Selected \in [Heights -> Block \cup {NoBlock}]
          /\ s \in [Heights -> Block \cup {NoBlock}]
          /\ Selected' \in [Heights -> Block \cup {NoBlock}]
      BY <2>4, <2>6 DEF IInv, TypeOK, DbTypeOK, Selected, Row, NoRow
    <3>2. \A h \in a+1..n :
            s[h] # NoBlock /\ Parent[s[h]] = IF h = a + 1 THEN Selected[a] ELSE s[h-1]
      <4>1. ASSUME NEW h \in a+1..n
            PROVE  s[h] # NoBlock /\ Parent[s[h]] = IF h = a + 1 THEN Selected[a] ELSE s[h-1]
        <5>1. h \in Heights /\ h - 1 \in Heights
          BY <2>3 DEF Heights
        <5>2. s[h] = j.staged[h].hash /\ s[h-1] = j.staged[h-1].hash
          BY <5>1
        <5>3. Selected[a] = j.anc.hash
          BY <1>1, <2>3 DEF Selected
        <5> QED
          BY <2>2, <2>5, <5>2, <5>3, TreeAssumption
      <4> QED
        BY <4>1
    <3>3. \A h \in Heights :
            Selected'[h] = IF h <= a THEN Selected[h]
                           ELSE IF h \in a+1..n THEN s[h] ELSE NoBlock
      BY <2>1 DEF Selected, NoRow
    <3>4. u.hash = Selected'[n]
      BY <1>1, <2>7 DEF Selected
    <3>5. state.indexed \in Tip /\ Selected[0] \in {Genesis, NoBlock} /\ Linked(Selected)
          /\ IsTip(Selected, state.indexed)
      BY DEF IInv, TypeOK, DbTypeOK, ChainIntegrity, OneChain, StateAtTip
    <3> HIDE DEF s, a, n, u
    <3>6. Selected'[0] \in {Genesis, NoBlock} /\ Linked(Selected') /\ IsTip(Selected', u)
      BY <1>1, <2>3, <2>7, <3>1, <3>2, <3>3, <3>4, <3>5, ReplaceKeepsChain
    <3> QED
      BY <3>6 DEF u, ChainIntegrity, OneChain, StateAtTip, Linked, IsTip, ReachesTo, Selected
  <2>14. Goto(i, "candidate", Rest(j)) /\ pc'[i] = "candidate" /\ job'[i] = Rest(j)
    BY <1>3 DEF replace, Goto, IInv, TypeOK
  <2>15. Rest(j) \in Job /\ Rest(j).snap = j.snap
    BY <1>1, JobShapes DEF Rest, NoJob
  <2>16. JobInv(i)'
    BY <1>1, <1>2, <2>7, <2>14, <2>15 DEF nodeVars, JobInv, SnapInv, SearchInv, AppendInv, StageInv, RefreshInv, FetchInv,
             Appending, Staging, Refreshing, Fetching, InSync, HashCalls
  <2> QED
    BY <1>1, <1>2, <2>10, <2>11, <2>12, <2>13, <2>14, <2>15, <2>16, DbStep DEF Running, InSync
<1>4. CASE ~replace_canonical_branch_ok(j.tip, j.anc, j.staged, n)
  BY <1>1, <1>2, <1>4, AbortStep DEF replace
<1> QED
  BY <1>3, <1>4

------------------------------------------------------------------------------
(***************************************************************************)
(* The node, the lease and the faults.                                     *)
(***************************************************************************)

\* Whatever the node does, what was seen stays seen and covers its new chain,
\* and its genesis block stays.
LEMMA NodeGrows ==
    ASSUME NodeTypeOK, NodeStep
    PROVE  /\ NodeTypeOK' /\ seen \subseteq seen' /\ best'[0] = best[0]
           /\ Exposed(best', nodeWit') \subseteq seen'
<1>1. CASE NodeMove
  <2>1. PICK c \in Chain : /\ c[0] = best[0] /\ best' = c /\ nodeWit' = nodeWit
                           /\ seen' = seen \cup Exposed(c, nodeWit)
    BY <1>1 DEF NodeMove
  <2>2. Exposed(c, nodeWit) \subseteq Block \X Witness
    BY DEF Exposed, Chain, NodeTypeOK
  <2>3. Exposed(best', nodeWit') = Exposed(c, nodeWit)
    BY <2>1
  <2> QED
    BY <2>1, <2>2, <2>3 DEF NodeTypeOK, Chain
<1>2. CASE NodeRewitness
  <2>1. PICK b \in Block, w \in Witness : /\ nodeWit' = [nodeWit EXCEPT ![b] = w]
                                          /\ seen' = seen \cup Exposed(best, nodeWit')
                                          /\ best' = best
    BY <1>2 DEF NodeRewitness
  <2>2. nodeWit' \in [Block -> Witness]
    BY <2>1 DEF NodeTypeOK
  <2>3. Exposed(best, nodeWit') \subseteq Block \X Witness
    BY <2>2 DEF Exposed, Chain, NodeTypeOK
  <2>4. Exposed(best', nodeWit') = Exposed(best, nodeWit')
    BY <2>1
  <2> QED
    BY <2>1, <2>2, <2>3, <2>4 DEF NodeTypeOK, Chain
<1> QED
  BY <1>1, <1>2 DEF NodeStep

\* The node may move at any call: what a pass knows of the node's past, and of
\* its genesis block, stays true.
LEMMA NodeStepKeeps ==
    ASSUME IInv, NodeStep
    PROVE  IInv'
<1>1. UNCHANGED <<canon, facts, state, lastReorg, lease, pc, job>>
  BY DEF NodeStep, dbVars
<1>2. NodeTypeOK' /\ seen \subseteq seen' /\ best'[0] = best[0]
      /\ Exposed(best', nodeWit') \subseteq seen'
  BY NodeGrows DEF IInv, TypeOK
<1>3. TypeOK' /\ SingleWriter'
  BY <1>1, <1>2 DEF IInv, TypeOK, DbTypeOK, SingleWriter
<1>4. ChainIntegrity' /\ StoredWasBest' /\ ReadyCaughtUp'
  BY <1>1, <1>2 DEF IInv, ChainIntegrity, OneChain, StateAtTip, StoredWasBest, ReadyCaughtUp,
                    Selected, Linked, IsTip, ReachesTo
<1>5. ASSUME NEW k \in Indexers PROVE JobInv(k)'
  <2>1. JobInv(k)
    BY DEF IInv
  <2>2. SnapInv(k)' /\ SearchInv(k)' /\ AppendInv(k)' /\ RefreshInv(k)'
    BY <1>1, <1>2, <2>1 DEF JobInv, SnapInv, SearchInv, AppendInv, RefreshInv, Appending,
                            Refreshing
  <2>3. StageInv(k)'
    BY <1>1, <1>2, <2>1 DEF JobInv, StageInv, Staging
  <2>4. FetchInv(k)'
    BY <1>1, <1>2, <2>1 DEF JobInv, FetchInv
  <2> QED
    BY <2>2, <2>3, <2>4 DEF JobInv
<1>6. (Exposed(best, nodeWit) \subseteq seen)'
  BY <1>2
<1> QED
  BY <1>3, <1>4, <1>5, <1>6 DEF IInv

\* A process that starts, dies or stops: the others were down before or it is
\* down after, and the database is as it was.
LEMMA ProcessStep ==
    ASSUME IInv, UNCHANGED <<dbVars, nodeVars>>,
           lease' \in Indexers \cup {NoOne},
           pc' \in [Indexers -> Running \cup {"down"}], job' \in [Indexers -> Job],
           \A k \in Indexers : pc'[k] \in {"down", "idle"},
           \A k \in Indexers : pc'[k] = "idle" => lease' = k
    PROVE  IInv'
<1>1. UNCHANGED <<canon, facts, state, lastReorg, best, nodeWit, seen>>
  BY DEF dbVars, nodeVars
<1>2. TypeOK'
  BY <1>1 DEF IInv, TypeOK, DbTypeOK, NodeTypeOK, Chain
<1>3. SingleWriter'
  BY DEF SingleWriter, Running, InSync, HashCalls
<1>4. ChainIntegrity' /\ StoredWasBest' /\ ReadyCaughtUp'
  BY <1>1 DEF IInv, ChainIntegrity, OneChain, StateAtTip, StoredWasBest, ReadyCaughtUp,
              Selected, Linked, IsTip, ReachesTo
<1>5. (Exposed(best, nodeWit) \subseteq seen)'
  BY <1>1 DEF IInv, Exposed
<1>6. \A k \in Indexers : JobInv(k)'
  BY DEF JobInv, SnapInv, SearchInv, AppendInv, StageInv, RefreshInv, FetchInv,
         Appending, Staging, Refreshing, Fetching, InSync, HashCalls
<1> QED
  BY <1>2, <1>3, <1>4, <1>5, <1>6 DEF IInv

\* Taking the lease: nobody holds it, so nobody is running.
LEMMA AcquireStep ==
    ASSUME IInv, NEW i \in Indexers, acquire_writer_lock(i)
    PROVE  IInv'
<1>1. \A k \in Indexers : pc[k] = "down"
  BY IndexerAssumption DEF acquire_writer_lock, IInv, TypeOK, SingleWriter
<1>2. pc' = [pc EXCEPT ![i] = "idle"] /\ job' = [job EXCEPT ![i] = NoJob] /\ lease' = i
  BY DEF acquire_writer_lock, Goto
<1>3. job' \in [Indexers -> Job]
  BY <1>2, JobShapes DEF IInv, TypeOK
<1>4. /\ pc' \in [Indexers -> Running \cup {"down"}]
      /\ \A k \in Indexers : pc'[k] \in {"down", "idle"} /\ (pc'[k] = "idle" => k = i)
  BY <1>1, <1>2 DEF IInv, TypeOK, Running
<1> QED
  BY <1>2, <1>3, <1>4, ProcessStep DEF acquire_writer_lock

\* A crash ends the only process that was running.
LEMMA CrashStep ==
    ASSUME IInv, NEW i \in Indexers, Crash(i)
    PROVE  IInv'
<1>1. \A k \in Indexers \ {i} : pc[k] = "down"
  BY OthersDown DEF Crash, IInv
<1>2. pc' = [pc EXCEPT ![i] = "down"] /\ job' = [job EXCEPT ![i] = NoJob]
      /\ lease' \in Indexers \cup {NoOne}
  BY DEF Crash, Goto, IInv, TypeOK
<1>3. job' \in [Indexers -> Job]
  BY <1>2, JobShapes DEF IInv, TypeOK
<1>4. pc' \in [Indexers -> Running \cup {"down"}] /\ \A k \in Indexers : pc'[k] = "down"
  BY <1>1, <1>2 DEF IInv, TypeOK
<1> QED
  BY <1>2, <1>3, <1>4, ProcessStep DEF Crash

------------------------------------------------------------------------------
\* The empty database and any state of the node satisfy the invariant.
LEMMA InitIInv ==
    ASSUME Init
    PROVE  IInv
<1>1. NoTip \in Tip /\ NoTip.height = -1 /\ NoTip.hash = NoBlock
  BY TreeAssumption DEF NoTip, Tip
<1>2. DbTypeOK
  BY <1>1 DEF Init, DbInit, DbTypeOK, Status, NoReorg
<1>3. Exposed(best, nodeWit) \subseteq Block \X Witness
  BY DEF Init, NodeInit, Exposed, Chain
<1>4. NodeTypeOK
  BY <1>3 DEF Init, NodeInit, NodeTypeOK
<1>5. TypeOK
  BY <1>2, <1>4, JobShapes DEF Init, TypeOK
<1>6. \A h \in Heights : Selected[h] = NoBlock /\ canon[h] = NoRow
  BY DEF Init, DbInit, Selected, NoRow
<1>7. 0 \in Heights
  BY TreeAssumption DEF Heights
<1>8. IsTip(Selected, NoTip)
  BY <1>1, <1>6, TreeAssumption DEF IsTip, ReachesTo, Heights
<1>9. ChainIntegrity
  BY <1>6, <1>7, <1>8 DEF ChainIntegrity, OneChain, StateAtTip, Linked, Init, DbInit
<1>10. StoredWasBest /\ ReadyCaughtUp
  BY <1>6 DEF StoredWasBest, ReadyCaughtUp, Init, DbInit
<1>11. \A i \in Indexers : pc[i] = "down"
  BY DEF Init
<1>12. SingleWriter
  BY <1>11 DEF SingleWriter, Running, InSync, HashCalls
<1>13. \A i \in Indexers : JobInv(i)
  BY <1>11 DEF JobInv, SnapInv, SearchInv, AppendInv, StageInv, RefreshInv, FetchInv,
         Appending, Staging, Refreshing, Fetching, InSync, HashCalls
<1> QED
  BY <1>5, <1>9, <1>10, <1>12, <1>13 DEF IInv, Init, NodeInit

\* No step breaks the invariant while the lease session lives as long as its
\* process.
LEMMA NextIInv ==
    ASSUME ~LeaseMayBreak, IInv, [Next]_vars
    PROVE  IInv'
<1>1. CASE UNCHANGED vars
  <2>1. UNCHANGED <<canon, facts, state, lastReorg, best, nodeWit, seen, lease, pc, job>>
    BY <1>1 DEF vars, dbVars, nodeVars
  <2>2. TypeOK' /\ SingleWriter' /\ (Exposed(best, nodeWit) \subseteq seen)'
    BY <2>1 DEF IInv, TypeOK, DbTypeOK, NodeTypeOK, Chain, SingleWriter, Exposed
  <2>3. ChainIntegrity' /\ StoredWasBest' /\ ReadyCaughtUp'
    BY <2>1 DEF IInv, ChainIntegrity, OneChain, StateAtTip, StoredWasBest, ReadyCaughtUp,
                Selected, Linked, IsTip, ReachesTo
  <2>4. \A i \in Indexers : JobInv(i)'
    BY <2>1 DEF IInv, JobInv, SnapInv, SearchInv, AppendInv, StageInv, RefreshInv, FetchInv,
                Appending, Staging, Refreshing
  <2> QED
    BY <2>2, <2>3, <2>4 DEF IInv
<1>2. CASE NodeStep
  BY <1>2, NodeStepKeeps
<1>3. CASE LeaseBreaks
  BY <1>3 DEF LeaseBreaks
<1>4. ASSUME NEW i \in Indexers, Crash(i) PROVE IInv'
  BY <1>4, CrashStep
<1>5. ASSUME NEW i \in Indexers, CallFails(i) PROVE IInv'
  BY <1>5, AbortStep DEF CallFails, Running
<1>6. ASSUME NEW i \in Indexers, acquire_writer_lock(i) PROVE IInv'
  BY <1>6, AcquireStep
<1>7. ASSUME NEW i \in Indexers, LeaseLossNoticed(i) PROVE IInv'
  BY <1>7 DEF LeaseLossNoticed, IInv, SingleWriter
<1>8. ASSUME NEW i \in Indexers, SyncStep(i) PROVE IInv'
  <2>1. CASE NodeRefuses(i)
    BY <2>1, AbortStep DEF NodeRefuses, Running, InSync
  <2> QED
    BY <1>8, <2>1, BlockchainInfoStep, TipHashStep, ValidateIdentityStep, ReadTipStep,
       ObserveStep, CompareStep, SearchStep, SearchNodeStep, FetchStep, BodyStep,
       AuxStatusStep, ConfirmStep, CommitStep, RecheckTipStep, RecheckAncestorStep,
       ReplaceStep, CandidateStep, RefreshPrevStep, RefreshStep, FinalTipStep,
       FinishStep, FailedStep
       DEF SyncStep
<1> QED
  BY <1>1, <1>2, <1>3, <1>4, <1>5, <1>6, <1>7, <1>8 DEF Next, FaultStep

\* The inductive invariant holds in every reachable state.
THEOREM IndexerInvariant ==
    ASSUME ~LeaseMayBreak
    PROVE  Spec => []IInv
<1>1. Init => IInv
  BY InitIInv
<1>2. IInv /\ [Next]_vars => IInv'
  BY NextIInv
<1> QED
  BY <1>1, <1>2, PTL DEF Spec

\* At most the lease holder runs sync_once.
THEOREM WriterExclusion ==
    ASSUME ~LeaseMayBreak
    PROVE  Spec => []SingleWriter
<1>1. IInv => SingleWriter
  BY DEF IInv
<1> QED
  BY <1>1, IndexerInvariant, PTL

\* The published selectors are one chain from the configured genesis block and
\* chain_state names its tip, whatever the node does between two calls and
\* wherever a pass fails or its process dies.
THEOREM PublishedChain ==
    ASSUME ~LeaseMayBreak
    PROVE  Spec => []ChainIntegrity
<1>1. IInv => ChainIntegrity
  BY DEF IInv
<1> QED
  BY <1>1, IndexerInvariant, PTL

\* `ready' is reported only at the recorded height of the node.
THEOREM ReadyIsCaughtUp ==
    ASSUME ~LeaseMayBreak
    PROVE  Spec => []ReadyCaughtUp
<1>1. IInv => ReadyCaughtUp
  BY DEF IInv
<1> QED
  BY <1>1, IndexerInvariant, PTL

------------------------------------------------------------------------------
\* The selectors change in two transactions only.
LEMMA CanonChanges ==
    ASSUME IInv, [Next]_vars, canon' # canon
    PROVE  \E i \in Indexers : (commit(i) \/ replace(i)) /\ pc[i] \in Running
<1>1. ASSUME NEW i \in Indexers, SyncStep(i)
      PROVE  commit(i) \/ replace(i)
  BY <1>1 DEF SyncStep, blockchain_info, tip_hash, validate_identity, read_tip, observe,
     compare, search, search_node, fetch, body, aux_status, confirm, recheck_tip,
     recheck_ancestor, candidate, refresh_prev, refresh, final_tip, finish, NodeRefuses,
     Failed, dbVars, observe_node_tip, update_node_tip, refresh_block_evidence,
     mark_indexer_error
<1>2. \E i \in Indexers : SyncStep(i)
  BY DEF Next, vars, dbVars, NodeStep, FaultStep, LeaseBreaks, Crash, CallFails,
         acquire_writer_lock, LeaseLossNoticed
<1> QED
  BY <1>1, <1>2 DEF commit, replace, Running, InSync

\* A commit takes nothing away, and a replacement keeps what is at or below an
\* ancestor that is selected.
LEMMA ReorgStep ==
    ASSUME IInv, [Next]_vars, NEW h \in Heights, canon[h] # NoRow, canon'[h] # canon[h]
    PROVE  /\ lastReorg'.old = canonical_tip
           /\ lastReorg'.ancestor.height \in 0..h-1
           /\ \A k \in 0..lastReorg'.ancestor.height : canon'[k] = canon[k]
           /\ canon[lastReorg'.ancestor.height].hash = lastReorg'.ancestor.hash
<1>1. PICK i \in Indexers : commit(i) \/ replace(i)
  BY CanonChanges
<1> DEFINE j == job[i]
           a == j.anc
<1>2. ~commit(i)
  <2>1. ASSUME commit(i) PROVE canon'[h] = canon[h]
    BY <2>1 DEF commit, commit_block_ok, commit_block, dbVars, IInv, TypeOK, DbTypeOK
  <2> QED
    BY <2>1
<1>3. /\ replace_canonical_branch(j.tip, a, j.staged, j.snap.height)
      /\ pc[i] = "replace"
  BY <1>1, <1>2 DEF replace, dbVars
<1>4. /\ j.tip = state.indexed /\ a.height \in 0..state.indexed.height
      /\ a.hash = canon[a.height].hash /\ state.indexed \in Tip
  BY <1>3 DEF IInv, JobInv, StageInv, Staging, TypeOK, DbTypeOK
<1>5. canonical_tip = state.indexed
  BY CanonicalTip DEF IInv, TypeOK, ChainIntegrity
<1>6. /\ lastReorg' = [old |-> j.tip, ancestor |-> a]
      /\ canon' = [k \in Heights |-> IF k <= a.height THEN canon[k]
                                     ELSE IF k \in a.height + 1 .. j.snap.height
                                          THEN j.staged[k] ELSE NoRow]
  BY <1>3 DEF replace_canonical_branch
<1>7. a.height \in Nat /\ a.height <= MaxHeight /\ ~(h <= a.height)
  BY <1>4, <1>6, TreeAssumption DEF Tip
<1>8. \A k \in 0..a.height : k \in Heights /\ canon'[k] = canon[k]
  BY <1>6, <1>7, TreeAssumption DEF Heights
<1>9. a.height \in 0..h-1
  BY <1>7, TreeAssumption DEF Heights
<1> QED
  BY <1>4, <1>5, <1>6, <1>8, <1>9

\* Every selector that disappears or changes is covered by the reorganization
\* row of its transaction, which names the displaced tip and the ancestor both
\* chains have.
THEOREM ReorgsAreRecorded ==
    ASSUME ~LeaseMayBreak
    PROVE  Spec => ReorgRecorded
<1>1. IInv /\ [Next]_vars =>
        [\A h \in Heights :
          canon[h] # NoRow /\ canon'[h] # canon[h] =>
            /\ lastReorg'.old = canonical_tip
            /\ lastReorg'.ancestor.height \in 0..h-1
            /\ \A k \in 0..lastReorg'.ancestor.height : canon'[k] = canon[k]
            /\ canon[lastReorg'.ancestor.height].hash = lastReorg'.ancestor.hash]_vars
  BY ReorgStep
<1> QED
  BY <1>1, IndexerInvariant, PTL DEF Spec, ReorgRecorded

------------------------------------------------------------------------------
(***************************************************************************)
(* The indexer implements ChainMirror, for any tree of blocks and any      *)
(* depth bound: what it publishes only ever grows by one served block or   *)
(* is replaced above a common block, in one step that rewrites at most     *)
(* MAX_REORG_DEPTH heights both chains have.                               *)
(*                                                                         *)
(* The depth test of find_common_ancestor is made once, many calls before  *)
(* the transaction that relies on it.  DepthInv carries its result there.  *)
(***************************************************************************)
\* The distance the search has covered when it is at height h.
Covers(j, h) == SearchFrom(j) - h <= MaxReorgDepth

Deep(label, j) ==
    /\ label = "search_node" => Covers(j, j.cursor)
    /\ \/ label \in Fetching /\ j.mode = "stage"
       \/ label \in {"recheck_tip", "recheck_ancestor", "replace"}
       => Covers(j, j.anc.height)

DepthInv == \A i \in Indexers : Deep(pc[i], job[i])

------------------------------------------------------------------------------
\* A process that goes on within the bound keeps everyone within it.
LEMMA DeepGoto ==
    ASSUME TypeOK, DepthInv, NEW i \in Indexers, NEW l, NEW j,
           Goto(i, l, j), Deep(l, j)
    PROVE  DepthInv'
<1>1. ASSUME NEW k \in Indexers PROVE Deep(pc'[k], job'[k])
  <2>1. CASE k = i
    BY <2>1 DEF Goto, TypeOK
  <2>2. CASE k # i
    BY <2>2 DEF Goto, TypeOK, DepthInv
  <2> QED
    BY <2>1, <2>2
<1> QED
  BY <1>1 DEF DepthInv, Deep, Covers, SearchFrom

\* Labels at which the bound is not needed.
LEMMA DeepElsewhere ==
    ASSUME TypeOK, DepthInv, NEW i \in Indexers, NEW l, NEW j, Goto(i, l, j),
           l \notin {"search_node", "recheck_tip", "recheck_ancestor", "replace"},
           l \in Fetching => j.mode # "stage"
    PROVE  DepthInv'
BY DeepGoto DEF Deep

\* The head of the loop keeps the ancestor and both tips.
LEMMA DeepLoop ==
    ASSUME TypeOK, DepthInv, NEW i \in Indexers, NEW j, Loop(i, j),
           j.mode = "stage" => Covers(j, j.anc.height)
    PROVE  DepthInv'
<1>1. CASE j.cursor <= j.snap.height
  BY <1>1, DeepGoto DEF Loop, Deep, Fetching
<1>2. CASE ~(j.cursor <= j.snap.height) /\ j.mode = "stage"
  BY <1>2, DeepGoto DEF Loop, Deep, Fetching
<1>3. CASE ~(j.cursor <= j.snap.height) /\ j.mode # "stage"
  BY <1>3, DeepElsewhere DEF Loop, Fetching
<1> QED
  BY <1>1, <1>2, <1>3

\* A step along the staged path keeps what the bound is about.
LEMMA DeepAlong ==
    ASSUME TypeOK, DepthInv, NEW i \in Indexers, NEW l, NEW j, Goto(i, l, j),
           Staging(i) \/ j.mode # "stage",
           l \in Fetching \/ Staging(i), l # "search_node",
           j.mode = job[i].mode, j.tip = job[i].tip, j.snap = job[i].snap,
           j.anc = job[i].anc
    PROVE  DepthInv'
<1>1. Staging(i) => Covers(job[i], job[i].anc.height)
  BY DEF DepthInv, Deep, Staging
<1>2. Staging(i) => Deep(l, j)
  BY <1>1 DEF Deep, Covers, SearchFrom
<1>3. ~Staging(i) => Deep(l, j)
  BY DEF Deep, Fetching
<1> QED
  BY <1>2, <1>3, DeepGoto

------------------------------------------------------------------------------
\* The test of the search, and the ancestor it finds.
LEMMA DeepSearch ==
    ASSUME IInv, DepthInv, NEW i \in Indexers, search(i) \/ search_node(i)
    PROVE  DepthInv'
<1> DEFINE j == job[i]
<1>1. TypeOK /\ j \in Job
  BY DEF IInv, TypeOK
<1>2. CASE search(i)
  <2> DEFINE k == [j EXCEPT !.hash = canonical_hash(j.cursor)]
  <2>1. CASE SearchFrom(j) - j.cursor > MaxReorgDepth
    BY <1>1, <1>2, <2>1, DeepElsewhere DEF search, Abort, Fetching
  <2>2. CASE ~(SearchFrom(j) - j.cursor > MaxReorgDepth)
    <3>1. /\ k.cursor = j.cursor /\ k.tip = j.tip /\ k.snap = j.snap
      BY <1>1 DEF Job
    <3>2. SearchFrom(j) - j.cursor <= MaxReorgDepth
      BY <1>1, <2>2, IndexerAssumption, TreeAssumption DEF SearchFrom, Job, Tip
    <3>3. Deep("search_node", k)
      BY <3>1, <3>2 DEF Deep, Covers, SearchFrom, Fetching
    <3>4. Goto(i, "search_node", k)
      BY <1>2, <2>2 DEF search
    <3> QED
      BY <1>1, <3>3, <3>4, DeepGoto
  <2> QED
    BY <2>1, <2>2
<1>3. CASE search_node(i)
  <2>1. pc[i] = "search_node" /\ Covers(j, j.cursor)
    BY <1>3 DEF search_node, Asks, DepthInv, Deep
  <2>2. CASE best[j.cursor] = j.hash
    <3> DEFINE k == [At(j, j.cursor + 1, j.hash) EXCEPT
                        !.mode = "stage",
                        !.anc = [height |-> j.cursor, hash |-> j.hash]]
    <3>1. k.tip = j.tip /\ k.snap = j.snap /\ k.anc.height = j.cursor
      BY <1>1 DEF At, Job
    <3>2. Loop(i, k)
      BY <1>3, <2>2 DEF search_node
    <3>3. Covers(k, k.anc.height)
      BY <2>1, <3>1 DEF Covers, SearchFrom
    <3> HIDE DEF k
    <3> QED
      BY <1>1, <3>2, <3>3, DeepLoop
  <2>3. CASE best[j.cursor] # j.hash
    BY <1>1, <1>3, <2>3, DeepElsewhere DEF search_node, Abort, Fetching
  <2> QED
    BY <2>2, <2>3
<1> QED
  BY <1>2, <1>3

\* The calls from a fetch to its confirmation, for whatever the block is for.
LEMMA DeepFetch ==
    ASSUME IInv, DepthInv, NEW i \in Indexers,
           fetch(i) \/ body(i) \/ aux_status(i) \/ confirm(i)
    PROVE  DepthInv'
<1> DEFINE j == job[i]
<1>1. TypeOK /\ j \in Job /\ pc[i] \in Fetching
  BY DEF IInv, TypeOK, fetch, body, aux_status, confirm, Asks, Fetching
<1>2. j.mode = "stage" => Staging(i) /\ Covers(j, j.anc.height)
  BY <1>1 DEF Staging, DepthInv, Deep
<1>3. CASE Abort(i)
  BY <1>1, <1>3, DeepElsewhere DEF Abort, Fetching
<1>4. CASE fetch(i)
  <2> DEFINE k == [j EXCEPT !.hash = best[j.cursor]]
  <2>1. Goto(i, "body", k) /\ k.mode = j.mode /\ k.tip = j.tip /\ k.snap = j.snap /\ k.anc = j.anc
    BY <1>1, <1>4 DEF fetch, Job
  <2> HIDE DEF k
  <2> QED
    BY <1>1, <1>2, <2>1, DeepAlong DEF Fetching
<1>5. CASE body(i) /\ ~Abort(i)
  <2> DEFINE k == [j EXCEPT !.wit = nodeWit[j.hash]]
             l == IF j.cursor = 0 THEN "confirm" ELSE "aux_status"
  <2>1. Goto(i, l, k) /\ k.mode = j.mode /\ k.tip = j.tip /\ k.snap = j.snap /\ k.anc = j.anc
    BY <1>1, <1>5 DEF body, Job
  <2>2. l \in Fetching /\ l # "search_node"
    BY DEF Fetching
  <2> HIDE DEF k, l
  <2> QED
    BY <1>1, <1>2, <2>1, <2>2, DeepAlong
<1>6. CASE aux_status(i) /\ ~Abort(i)
  <2>1. Goto(i, "confirm", j)
    BY <1>6 DEF aux_status
  <2> QED
    BY <1>1, <1>2, <2>1, DeepAlong DEF Fetching
<1>7. CASE confirm(i) /\ ~Abort(i)
  <2>1. CASE j.mode = "append"
    BY <1>1, <1>7, <2>1, DeepElsewhere DEF confirm, Fetching
  <2>2. CASE j.mode = "refresh"
    BY <1>1, <1>7, <2>2, DeepElsewhere DEF confirm, Fetching
  <2>3. CASE j.mode = "stage"
    <3> DEFINE k == [At(j, j.cursor + 1, j.hash) EXCEPT !.staged[j.cursor] = Fetched(i)]
    <3>1. k.tip = j.tip /\ k.snap = j.snap /\ k.anc = j.anc
      BY <1>1 DEF At, Job
    <3>2. Loop(i, k)
      BY <1>7, <2>3 DEF confirm
    <3>3. Covers(k, k.anc.height)
      BY <1>2, <2>3, <3>1 DEF Covers, SearchFrom
    <3> HIDE DEF k
    <3> QED
      BY <1>1, <3>2, <3>3, DeepLoop
  <2> QED
    BY <1>1, <2>1, <2>2, <2>3 DEF Job, Mode
<1> QED
  BY <1>3, <1>4, <1>5, <1>6, <1>7

\* The two checks before the replacement, and the replacement.
LEMMA DeepReplace ==
    ASSUME IInv, DepthInv, NEW i \in Indexers,
           recheck_tip(i) \/ recheck_ancestor(i) \/ replace(i)
    PROVE  DepthInv'
<1>1. TypeOK /\ Staging(i)
  BY DEF IInv, recheck_tip, recheck_ancestor, replace, Asks, Staging
<1>2. CASE Abort(i)
  BY <1>1, <1>2, DeepElsewhere DEF Abort, Fetching
<1>3. CASE (recheck_tip(i) \/ recheck_ancestor(i)) /\ ~Abort(i)
  <2>1. Goto(i, "recheck_ancestor", job[i]) \/ Goto(i, "replace", job[i])
    BY <1>3 DEF recheck_tip, recheck_ancestor
  <2> QED
    BY <1>1, <2>1, DeepAlong
<1>4. CASE replace(i) /\ ~Abort(i)
  BY <1>1, <1>4, DeepElsewhere DEF replace, Fetching
<1> QED
  BY <1>2, <1>3, <1>4

\* The steps that are never on the staged path.
LEMMA DeepOther ==
    ASSUME IInv, DepthInv, NEW i \in Indexers, SyncStep(i),
           ~(search(i) \/ search_node(i)),
           ~(fetch(i) \/ body(i) \/ aux_status(i) \/ confirm(i)),
           ~(recheck_tip(i) \/ recheck_ancestor(i) \/ replace(i))
    PROVE  DepthInv'
<1> DEFINE j == job[i]
<1>1. TypeOK /\ j \in Job /\ JobInv(i)
  BY DEF IInv, TypeOK
<1>2. CASE \/ blockchain_info(i) \/ tip_hash(i) \/ validate_identity(i) \/ read_tip(i)
           \/ refresh(i) \/ final_tip(i) \/ finish(i) \/ NodeRefuses(i) \/ Failed(i)
  BY <1>1, <1>2, DeepElsewhere
     DEF blockchain_info, tip_hash, validate_identity, read_tip, refresh, final_tip, finish,
         NodeRefuses, Failed, Abort, Fetching
<1>3. CASE observe(i)
  <2>1. j.mode = "append"
    BY <1>1, <1>3 DEF observe, JobInv, SearchInv
  <2>2. CASE Loop(i, j)
    BY <1>1, <2>1, <2>2, DeepLoop
  <2>3. CASE ~Loop(i, j)
    BY <1>1, <1>3, <2>3, DeepElsewhere DEF observe, Fetching
  <2> QED
    BY <2>2, <2>3
<1>4. CASE compare(i)
  <2> DEFINE k == At(j, j.tip.height + 1, j.tip.hash)
  <2>1. j.mode = "append"
    BY <1>1, <1>4 DEF compare, Asks, JobInv, SearchInv
  <2>2. k.mode = "append"
    BY <1>1, <2>1 DEF At, Job
  <2>3. CASE Loop(i, k)
    <3> HIDE DEF k
    <3> QED
      BY <1>1, <2>2, <2>3, DeepLoop
  <2>4. CASE ~Loop(i, k)
    BY <1>1, <1>4, <2>4, DeepElsewhere DEF compare, Fetching
  <2> QED
    BY <2>3, <2>4
<1>5. CASE commit(i)
  <2> DEFINE k == At(j, j.cursor + 1, j.hash)
  <2>1. j.mode = "append"
    BY <1>1, <1>5 DEF commit, JobInv, AppendInv
  <2>2. k.mode = "append"
    BY <1>1, <2>1 DEF At, Job
  <2>3. CASE Loop(i, k)
    <3> HIDE DEF k
    <3> QED
      BY <1>1, <2>2, <2>3, DeepLoop
  <2>4. CASE ~Loop(i, k)
    BY <1>1, <1>5, <2>4, DeepElsewhere DEF commit, Abort, Fetching
  <2> QED
    BY <2>3, <2>4
<1>6. CASE candidate(i)
  <2>1. CASE Goto(i, "final_tip", j)
    BY <1>1, <2>1, DeepElsewhere DEF Fetching
  <2>2. CASE ~Goto(i, "final_tip", j)
    <3>1. PICK h \in RefreshWindow(RefreshDepth) :
             Goto(i, "refresh_prev", [j EXCEPT !.mode = "refresh", !.cursor = h])
      BY <1>6, <2>2 DEF candidate
    <3> DEFINE k == [j EXCEPT !.mode = "refresh", !.cursor = h]
    <3>2. Goto(i, "refresh_prev", k)
      BY <3>1
    <3> HIDE DEF k
    <3> QED
      BY <1>1, <3>2, DeepElsewhere DEF Fetching
  <2> QED
    BY <2>1, <2>2
<1>7. CASE refresh_prev(i)
  <2> DEFINE k == [j EXCEPT !.prev = best[j.cursor - 1]]
  <2>1. j.mode = "refresh" /\ k.mode = j.mode
    BY <1>1, <1>7 DEF refresh_prev, Asks, JobInv, RefreshInv, Job
  <2>2. Goto(i, "fetch", k)
    BY <1>7 DEF refresh_prev
  <2> HIDE DEF k
  <2> QED
    BY <1>1, <2>1, <2>2, DeepElsewhere
<1> QED
  BY <1>2, <1>3, <1>4, <1>5, <1>6, <1>7 DEF SyncStep

\* The bound found by the search still holds when the branch is published.
LEMMA NextDepthInv ==
    ASSUME IInv, DepthInv, [Next]_vars
    PROVE  DepthInv'
<1>1. TypeOK
  BY DEF IInv
<1>2. CASE UNCHANGED <<pc, job>>
  BY <1>2 DEF DepthInv, Deep, Covers, SearchFrom
<1>3. ASSUME NEW i \in Indexers,
             acquire_writer_lock(i) \/ LeaseLossNoticed(i) \/ Crash(i) \/ CallFails(i)
      PROVE  DepthInv'
  BY <1>1, <1>3, DeepElsewhere
     DEF acquire_writer_lock, LeaseLossNoticed, Crash, CallFails, Abort, Fetching
<1>4. ASSUME NEW i \in Indexers, SyncStep(i)
      PROVE  DepthInv'
  BY <1>4, DeepSearch, DeepFetch, DeepReplace, DeepOther
<1> QED
  BY <1>2, <1>3, <1>4 DEF Next, NodeStep, FaultStep, LeaseBreaks, vars

------------------------------------------------------------------------------
\* Blocks the node has had on its best chain.
Served == {f[1] : f \in seen}

\* The words of the abstract specification are those of the detailed one.
LEMMA SameWords ==
    /\ Mirror!Heights = Heights /\ Mirror!Tip = Tip
    /\ \A c : Mirror!Linked(c) <=> Linked(c)
    /\ \A c, t : Mirror!IsTip(c, t) <=> IsTip(c, t)
BY DEF Mirror!Heights, Heights, Mirror!Tip, Tip, Mirror!Linked, Linked,
       Mirror!IsTip, IsTip, Mirror!ReachesTo, ReachesTo

\* What was served stays served, and only the node's steps serve more.
LEMMA ServedGrows ==
    ASSUME [Next]_vars
    PROVE  seen \subseteq seen'
BY DEF Next, vars, nodeVars, NodeStep, NodeMove, NodeRewitness, FaultStep, LeaseBreaks, Crash,
       CallFails, acquire_writer_lock, LeaseLossNoticed, SyncStep,
       blockchain_info, tip_hash, validate_identity, read_tip, observe, compare, search,
       search_node, fetch, body, aux_status, confirm, commit, recheck_tip, recheck_ancestor,
       replace, candidate, refresh_prev, refresh, final_tip, finish, NodeRefuses, Failed

\* A new mirror is valid for what has been served before the step.
LEMMA NewMirrorValid ==
    ASSUME IInv', UNCHANGED seen
    PROVE  Mirror!Valid(Selected')
<1>1. Served' = Served
  BY DEF Served
<1>2. ASSUME NEW h \in Heights, Selected'[h] # NoBlock
      PROVE  Selected'[h] \in Served
  <2>1. canon'[h] # NoRow /\ Selected'[h] = canon'[h].hash
    BY <1>2 DEF Selected, NoRow
  <2>2. <<canon'[h].hash, canon'[h].wit>> \in seen
    BY <2>1 DEF IInv, StoredWasBest
  <2> QED
    BY <2>1, <2>2 DEF Served
<1>3. Selected'[0] \in {Genesis, NoBlock} /\ Linked(Selected')
  BY DEF IInv, ChainIntegrity, OneChain, Linked, Selected
<1> QED
  BY <1>2, <1>3, SameWords DEF Mirror!Valid, Served

\* A commit extends the mirror by one served block, or repeats what is there.
LEMMA CommitExtends ==
    ASSUME IInv, IInv', NEW i \in Indexers, commit(i), canon' # canon
    PROVE  Mirror!Extend
<1> DEFINE j == job[i]
           t == state.indexed
<1>1. /\ pc[i] = "commit" /\ TypeOK /\ j \in Job /\ Appending(i)
      /\ j.snap.height \in Heights /\ j.cursor \in 0..j.snap.height
      /\ t = [height |-> j.cursor - 1, hash |-> j.prev]
      /\ j.hash \in Block /\ <<j.hash, j.wit>> \in seen
  BY DEF commit, IInv, TypeOK, JobInv, SnapInv, AppendInv, FetchInv, Appending, Fetching,
         InSync, HashCalls
<1>2. UNCHANGED nodeVars /\ canon' = [canon EXCEPT ![j.cursor] = Fetched(i)]
  BY DEF commit, commit_block, dbVars
<1>3. j.cursor \in Heights /\ t.height + 1 = j.cursor /\ t.height < MaxHeight
  BY <1>1, TreeAssumption DEF Heights
<1>4. t \in Tip /\ IsTip(Selected, t)
  BY DEF IInv, TypeOK, DbTypeOK, ChainIntegrity, StateAtTip
<1>5. Selected' = [Selected EXCEPT ![t.height + 1] = j.hash]
  BY <1>1, <1>2, <1>3 DEF Selected, Fetched, TypeOK, DbTypeOK
<1>6. j.hash \in Served
  BY <1>1 DEF Served
<1>7. Mirror!Valid(Selected') /\ Served' = Served
  BY <1>2, NewMirrorValid DEF nodeVars, Served
<1> HIDE DEF t
<1> QED
  BY <1>3, <1>4, <1>5, <1>6, <1>7, SameWords DEF Mirror!Extend, Served

\* A replacement is one reorganization within the depth bound.
LEMMA ReplaceReorganizes ==
    ASSUME IInv, IInv', DepthInv, NEW i \in Indexers, replace(i), canon' # canon
    PROVE  Mirror!Reorganize
<1> DEFINE j == job[i]
           a == j.anc.height
           n == j.snap.height
           t == state.indexed
<1>1. /\ pc[i] = "replace" /\ TypeOK /\ j \in Job /\ n \in Heights
      /\ j.tip = t /\ a \in 0..t.height
  BY DEF replace, IInv, TypeOK, JobInv, SnapInv, StageInv, Staging, InSync, HashCalls
<1>2. /\ UNCHANGED nodeVars
      /\ canon' = [h \in Heights |-> IF h <= a THEN canon[h]
                                     ELSE IF h \in a+1..n THEN j.staged[h] ELSE NoRow]
  BY DEF replace, replace_canonical_branch, dbVars
<1>3. t \in Tip /\ ReachesTo(Selected, t.height)
  BY DEF IInv, TypeOK, DbTypeOK, ChainIntegrity, StateAtTip, IsTip
<1>4. /\ a \in Heights /\ a \in Nat /\ n \in Nat /\ t.height \in Int /\ 0..a \subseteq Heights
      /\ Heights \subseteq Nat /\ MaxReorgDepth \in Nat /\ a <= t.height
  BY <1>1, <1>3, TreeAssumption, IndexerAssumption DEF Heights, Tip
<1>5. Selected[a] # NoBlock
  BY <1>3, <1>4 DEF ReachesTo
<1>6. \A h \in Heights : h <= a => Selected'[h] = Selected[h]
  BY <1>2 DEF Selected
<1>7. \A h \in Heights : h > n /\ h > a => Selected'[h] = NoBlock
  BY <1>2, <1>4 DEF Selected, NoRow
<1>8. Covers(j, a)
  BY <1>1 DEF DepthInv, Deep
<1>9. Mirror!Contested(Selected, Selected') \subseteq a+1 .. a+MaxReorgDepth
  <2>1. ASSUME NEW h \in Heights, Selected[h] # Selected'[h],
               Selected[h] # NoBlock, Selected'[h] # NoBlock
        PROVE  h \in a+1 .. a+MaxReorgDepth
    <3>1. h > a /\ h <= n /\ h <= t.height
      BY <1>3, <1>4, <1>6, <1>7, <2>1 DEF ReachesTo
    <3>2. h <= SearchFrom(j)
      BY <1>1, <3>1 DEF SearchFrom
    <3>3. SearchFrom(j) \in Int /\ SearchFrom(j) - a <= MaxReorgDepth
      BY <1>1, <1>4, <1>8 DEF SearchFrom, Covers
    <3> HIDE DEF a
    <3> QED
      BY <1>4, <3>1, <3>2, <3>3
  <2> QED
    BY <2>1, SameWords DEF Mirror!Contested
<1>10. Mirror!Valid(Selected') /\ Served' = Served
  BY <1>2, NewMirrorValid DEF nodeVars, Served
<1>11. MaxReorgDepth \in 0..MaxReorgDepth
  BY <1>4
<1>12. \A h \in 0..a : Selected'[h] = Selected[h]
  BY <1>4, <1>6
<1> HIDE DEF a
<1> QED
  BY <1>4, <1>5, <1>9, <1>10, <1>11, <1>12, SameWords DEF Mirror!Reorganize, Served

\* Every step of the detailed system is a step of the abstract one or none.
LEMMA StepRefines ==
    ASSUME IInv, IInv', DepthInv, [Next]_vars
    PROVE  Mirror!Next \/ UNCHANGED <<Selected, Served>>
<1>1. CASE canon' = canon
  <2>1. Selected' = Selected
    BY <1>1 DEF Selected
  <2>2. Served \subseteq Served'
    BY ServedGrows DEF Served
  <2> QED
    BY <2>1, <2>2 DEF Mirror!Next, Mirror!Serve, Served
<1>2. CASE canon' # canon
  <2>1. PICK i \in Indexers : commit(i) \/ replace(i)
    BY <1>2, CanonChanges
  <2> QED
    BY <1>2, <2>1, CommitExtends, ReplaceReorganizes DEF Mirror!Next
<1> QED
  BY <1>1, <1>2

\* The indexer implements the mirror of the node's chain: whatever the node
\* does between two calls, wherever a pass fails and however often a process
\* dies, the published chain is extended by one block the node has served or
\* is replaced above a common block within the depth bound, and nothing else.
THEOREM IndexerImplementsMirror ==
    ASSUME ~LeaseMayBreak
    PROVE  Spec => MirrorSpec
<1>1. Init => Mirror!Init /\ DepthInv
  <2>1. ASSUME Init PROVE Mirror!Init
    <3>1. Selected = [h \in Heights |-> NoBlock]
      BY <2>1 DEF Init, DbInit, Selected, NoRow
    <3>2. Served \subseteq Block
      BY <2>1, InitIInv DEF IInv, TypeOK, NodeTypeOK, Served
    <3> QED
      BY <3>1, <3>2, SameWords DEF Mirror!Init, Served
  <2>2. ASSUME Init PROVE DepthInv
    BY <2>2 DEF Init, DepthInv, Deep, Fetching
  <2> QED
    BY <2>1, <2>2
<1>2. IInv /\ DepthInv /\ [Next]_vars => DepthInv'
  BY NextDepthInv
<1>3. IInv /\ IInv' /\ DepthInv /\ [Next]_vars => [Mirror!Next]_<<Selected, {f[1] : f \in seen}>>
  BY StepRefines DEF Served
<1>4. Spec => []IInv
  BY IndexerInvariant
<1> QED
  BY <1>1, <1>2, <1>3, <1>4, PTL DEF Spec, MirrorSpec, Mirror!Spec
==============================================================================
