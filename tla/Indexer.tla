------------------------------- MODULE Indexer -------------------------------
(***************************************************************************)
(* The explorer's indexer processes (src/indexer.rs) running against one   *)
(* database and one Wcash node.                                            *)
(*                                                                         *)
(* sync_once is a sequence of awaits.  The model takes one step per RPC    *)
(* call and per database statement or transaction, so the node may move    *)
(* and another process may run between any two of them.  pc[i] names the   *)
(* call process i makes next, job[i] holds the local variables of its      *)
(* sync_once:                                                              *)
(*   snap    info.blocks and node_tip_hash, the tip it synchronizes to     *)
(*   tip     stored_tip, and at the end final_tip                          *)
(*   mode    what a fetched block is for: append, stage or refresh         *)
(*   cursor  the height it works on                                        *)
(*   prev    expected_previous                                             *)
(*   anc     the common ancestor                                           *)
(*   staged  the replacement branch                                        *)
(*   hash, wit  the block being compared or fetched                        *)
(***************************************************************************)
EXTENDS ExplorerDb, WcashNode

CONSTANTS
    Indexers,         \* processes started with the indexer enabled
    NoOne,            \* the lease when nobody holds it
    MaxReorgDepth,    \* MAX_REORG_DEPTH
    RefreshDepth,     \* EVIDENCE_REFRESH_DEPTH
    LeaseMayBreak     \* can the lease session die under a running process?

ASSUME IndexerAssumption ==
    /\ NoOne \notin Indexers
    /\ MaxReorgDepth \in Nat
    /\ RefreshDepth \in Nat
    /\ LeaseMayBreak \in BOOLEAN

VARIABLES
    lease,  \* the session that holds the PostgreSQL advisory lock
    pc,
    job

vars == <<dbVars, nodeVars, lease, pc, job>>

Mode == {"append", "stage", "refresh"}

\* Calls to the node that ask for the hash at one height.
HashCalls == {"tip_hash", "identity", "compare", "search_node", "fetch",
              "confirm", "recheck_tip", "recheck_ancestor", "refresh_prev"}

\* Everything inside sync_once.
InSync == HashCalls \cup
    {"read_tip", "observe", "search", "body", "aux_status", "commit",
     "replace", "candidate", "refresh", "final_tip", "finish"}

Running == InSync \cup {"idle", "failed"}

Job == [snap : Tip, tip : Tip, mode : Mode, cursor : 0..MaxHeight + 1,
        prev : Block \cup {NoBlock}, anc : Tip,
        staged : [Heights -> Row \cup {NoRow}],
        hash : Block \cup {NoBlock}, wit : Witness \cup {NoWitness}]

NoStage == [h \in Heights |-> NoRow]

NoJob == [snap |-> NoTip, tip |-> NoTip, mode |-> "append", cursor |-> 0,
          prev |-> NoBlock, anc |-> NoTip, staged |-> NoStage,
          hash |-> NoBlock, wit |-> NoWitness]

TypeOK ==
    /\ DbTypeOK
    /\ NodeTypeOK
    /\ lease \in Indexers \cup {NoOne}
    /\ pc \in [Indexers -> Running \cup {"down"}]
    /\ job \in [Indexers -> Job]

Init ==
    /\ DbInit
    /\ NodeInit
    /\ lease = NoOne
    /\ pc = [i \in Indexers |-> "down"]
    /\ job = [i \in Indexers |-> NoJob]

------------------------------------------------------------------------------
(***************************************************************************)
(* Control helpers.                                                        *)
(***************************************************************************)
Goto(i, label, newJob) ==
    /\ pc' = [pc EXCEPT ![i] = label]
    /\ job' = [job EXCEPT ![i] = newJob]

\* sync_once returns an error; its local variables are gone.
Abort(i) == Goto(i, "failed", NoJob)

\* The row built from the block in hand.
Fetched(i) == [hash |-> job[i].hash, wit |-> job[i].wit]

\* The job with the block in hand dropped and the loop at height h.
At(j, h, previous) ==
    [j EXCEPT !.cursor = h, !.prev = previous, !.hash = NoBlock, !.wit = NoWitness]

\* What is left of a job once the chain is up to date: the snapshot.
Rest(j) == [NoJob EXCEPT !.snap = j.snap]

\* Mutant: the range leaves out the snapshot height itself.
LoopExclusive(i, j) ==
    IF j.cursor < j.snap.height THEN Goto(i, "fetch", j)
    ELSE IF j.mode = "stage" THEN Goto(i, "recheck_tip", j)
    ELSE Goto(i, "candidate", Rest(j))

\* `for height in start..=info.blocks': fetch the next height or leave the loop.
Loop(i, j) ==
    IF j.cursor <= j.snap.height THEN Goto(i, "fetch", j)
    ELSE IF j.mode = "stage" THEN Goto(i, "recheck_tip", j)
    ELSE Goto(i, "candidate", Rest(j))

\* The height process i asks the node about in its next call.
AskedHeight(i) ==
    CASE pc[i] \in {"tip_hash", "recheck_tip"} -> job[i].snap.height
      [] pc[i] = "compare" -> job[i].tip.height
      [] pc[i] \in {"search_node", "fetch", "confirm"} -> job[i].cursor
      [] pc[i] = "recheck_ancestor" -> job[i].anc.height
      [] pc[i] = "refresh_prev" -> job[i].cursor - 1
      [] OTHER -> 0

\* The node answers the hash call process i is at.
Asks(i, label) == pc[i] = label /\ Serves(AskedHeight(i))

------------------------------------------------------------------------------
(***************************************************************************)
(* The writer lease and the process around sync_once.                      *)
(***************************************************************************)

\* Mutant: the process starts whoever holds the lock.
acquire_writer_lock_unchecked(i) ==
    /\ pc[i] = "down"
    /\ lease' = i
    /\ Goto(i, "idle", NoJob)
    /\ UNCHANGED <<dbVars, nodeVars>>

\* main and the head of run: pg_try_advisory_lock; a process that does not get
\* the lock exits.  initialize_network leaves an existing chain_state alone.
acquire_writer_lock(i) ==
    /\ pc[i] = "down" /\ lease = NoOne
    /\ lease' = i
    /\ Goto(i, "idle", NoJob)
    /\ UNCHANGED <<dbVars, nodeVars>>

\* The process dies, or is stopped: its sessions end.
Crash(i) ==
    /\ pc[i] \in Running
    /\ lease' = IF lease = i THEN NoOne ELSE lease
    /\ Goto(i, "down", NoJob)
    /\ UNCHANGED <<dbVars, nodeVars>>

\* The session holding the advisory lock dies; the process does not know yet.
LeaseBreaks ==
    /\ LeaseMayBreak /\ lease # NoOne
    /\ lease' = NoOne
    /\ UNCHANGED <<dbVars, nodeVars, pc, job>>

\* writer_lock_is_held is false: run returns and main ends the process.  The
\* monitor's signal is not awaited while a failure is being recorded.
LeaseLossNoticed(i) ==
    /\ pc[i] \in Running \ {"failed"} /\ lease # i
    /\ Goto(i, "down", NoJob)
    /\ UNCHANGED <<dbVars, nodeVars, lease>>

\* sync_once failed: record it, or fail to record it, and wait for the next tick.
Failed(i) ==
    /\ pc[i] = "failed"
    /\ Goto(i, "idle", NoJob)
    /\ mark_indexer_error \/ UNCHANGED dbVars
    /\ UNCHANGED <<nodeVars, lease>>

\* Any RPC call or statement of sync_once fails or times out.  A commit whose
\* answer is lost is the commit followed by this step.
CallFails(i) ==
    /\ pc[i] \in InSync
    /\ Abort(i)
    /\ UNCHANGED <<dbVars, nodeVars, lease>>

\* The node has no block at the height asked for.
NodeRefuses(i) ==
    /\ pc[i] \in HashCalls /\ ~Serves(AskedHeight(i))
    /\ Abort(i)
    /\ UNCHANGED <<dbVars, nodeVars, lease>>

------------------------------------------------------------------------------
(***************************************************************************)
(* sync_once: the snapshot, the identity check and the stored tip.         *)
(***************************************************************************)
blockchain_info(i) ==
    /\ pc[i] = "idle"
    /\ Goto(i, "tip_hash", [NoJob EXCEPT !.snap.height = BestHeight])
    /\ UNCHANGED <<dbVars, nodeVars, lease>>

tip_hash(i) ==
    /\ Asks(i, "tip_hash")
    /\ Goto(i, "identity", [job[i] EXCEPT !.snap.hash = best[job[i].snap.height]])
    /\ UNCHANGED <<dbVars, nodeVars, lease>>

validate_identity(i) ==
    /\ Asks(i, "identity")
    /\ IF best[0] = Genesis THEN Goto(i, "read_tip", job[i]) ELSE Abort(i)
    /\ UNCHANGED <<dbVars, nodeVars, lease>>

read_tip(i) ==
    /\ pc[i] = "read_tip"
    /\ Goto(i, "observe", [job[i] EXCEPT !.tip = canonical_tip])
    /\ UNCHANGED <<dbVars, nodeVars, lease>>

\* Mutant: the search starts at the stored tip whatever the node's height is.
SearchFromStored(j) == j.tip.height

\* Where the search for a common ancestor starts.
SearchFrom(j) == IF j.tip.height <= j.snap.height THEN j.tip.height ELSE j.snap.height

observe(i) ==
    LET j == job[i] IN
    /\ pc[i] = "observe"
    /\ observe_node_tip(j.snap)
    /\ IF j.tip = NoTip THEN Loop(i, j)
       ELSE IF j.tip.height <= j.snap.height THEN Goto(i, "compare", j)
       ELSE Goto(i, "search", At(j, SearchFrom(j), NoBlock))
    /\ UNCHANGED <<nodeVars, lease>>

compare(i) ==
    LET j == job[i] IN
    /\ Asks(i, "compare")
    /\ IF best[j.tip.height] = j.tip.hash
       THEN Loop(i, At(j, j.tip.height + 1, j.tip.hash))
       ELSE Goto(i, "search", At(j, SearchFrom(j), NoBlock))
    /\ UNCHANGED <<dbVars, nodeVars, lease>>

------------------------------------------------------------------------------
(***************************************************************************)
(* find_common_ancestor: one loop iteration is a database read and a call  *)
(* to the node.                                                            *)
(***************************************************************************)
\* Mutant: the depth test is off by one.
search_one_deeper(i) ==
    LET j == job[i] IN
    /\ pc[i] = "search"
    /\ IF SearchFrom(j) - j.cursor > MaxReorgDepth + 1 THEN Abort(i)
       ELSE Goto(i, "search_node", [j EXCEPT !.hash = canonical_hash(j.cursor)])
    /\ UNCHANGED <<dbVars, nodeVars, lease>>

search(i) ==
    LET j == job[i] IN
    /\ pc[i] = "search"
    /\ IF SearchFrom(j) - j.cursor > MaxReorgDepth THEN Abort(i)
       ELSE Goto(i, "search_node", [j EXCEPT !.hash = canonical_hash(j.cursor)])
    /\ UNCHANGED <<dbVars, nodeVars, lease>>

search_node(i) ==
    LET j == job[i] IN
    /\ Asks(i, "search_node")
    /\ IF best[j.cursor] = j.hash
       THEN Loop(i, [At(j, j.cursor + 1, j.hash) EXCEPT
                        !.mode = "stage",
                        !.anc = [height |-> j.cursor, hash |-> j.hash]])
       ELSE IF j.cursor = 0 THEN Abort(i)
       ELSE Goto(i, "search", At(j, j.cursor - 1, NoBlock))
    /\ UNCHANGED <<dbVars, nodeVars, lease>>

------------------------------------------------------------------------------
(***************************************************************************)
(* fetch_indexed_block.                                                    *)
(***************************************************************************)
fetch(i) ==
    /\ Asks(i, "fetch")
    /\ Goto(i, "body", [job[i] EXCEPT !.hash = best[job[i].cursor]])
    /\ UNCHANGED <<dbVars, nodeVars, lease>>

\* Mutant: the predecessor is not compared with the expected one.
body_any_parent(i) ==
    LET j == job[i] IN
    /\ pc[i] = "body"
    /\ Goto(i, IF j.cursor = 0 THEN "confirm" ELSE "aux_status",
               [j EXCEPT !.wit = nodeWit[j.hash]])
    /\ UNCHANGED <<dbVars, nodeVars, lease>>

\* Mutant: no witness hash is computed for the native genesis block.
body_no_genesis_witness(i) ==
    LET j == job[i] IN
    /\ pc[i] = "body"
    /\ IF Parent[j.hash] = j.prev
       THEN IF j.cursor = 0 THEN Goto(i, "confirm", j)
            ELSE Goto(i, "aux_status", [j EXCEPT !.wit = nodeWit[j.hash]])
       ELSE Abort(i)
    /\ UNCHANGED <<dbVars, nodeVars, lease>>

\* block_raw and block_verbose, by hash: the predecessor must be the expected
\* one.  The native genesis block carries no AuxPoW proof to look up.
body(i) ==
    LET j == job[i] IN
    /\ pc[i] = "body"
    /\ IF Parent[j.hash] = j.prev
       THEN Goto(i, IF j.cursor = 0 THEN "confirm" ELSE "aux_status",
                    [j EXCEPT !.wit = nodeWit[j.hash]])
       ELSE Abort(i)
    /\ UNCHANGED <<dbVars, nodeVars, lease>>

\* Mutant: the node is not asked about the exact witness.
aux_status_unasked(i) ==
    /\ pc[i] = "aux_status"
    /\ Goto(i, "confirm", job[i])
    /\ UNCHANGED <<dbVars, nodeVars, lease>>

\* AuxPowVerifier::verify: the node must hold the exact witness on its best chain.
aux_status(i) ==
    /\ pc[i] = "aux_status"
    /\ IF BestWitness(job[i].hash, job[i].wit)
       THEN Goto(i, "confirm", job[i]) ELSE Abort(i)
    /\ UNCHANGED <<dbVars, nodeVars, lease>>

confirm(i) ==
    LET j == job[i] IN
    /\ Asks(i, "confirm")
    /\ IF best[j.cursor] # j.hash THEN Abort(i)
       ELSE CASE j.mode = "append"  -> Goto(i, "commit", j)
              [] j.mode = "refresh" -> Goto(i, "refresh", j)
              [] j.mode = "stage"   ->
                    Loop(i, [At(j, j.cursor + 1, j.hash) EXCEPT
                                !.staged[j.cursor] = Fetched(i)])
    /\ UNCHANGED <<dbVars, nodeVars, lease>>

------------------------------------------------------------------------------
(***************************************************************************)
(* Publication: one block at a time, or a whole replacement branch.        *)
(***************************************************************************)
commit(i) ==
    LET j == job[i] IN
    /\ pc[i] = "commit"
    /\ IF commit_block_ok(j.cursor, Fetched(i))
       THEN /\ commit_block(j.cursor, Fetched(i))
            /\ Loop(i, At(j, j.cursor + 1, j.hash))
       ELSE Abort(i) /\ UNCHANGED dbVars
    /\ UNCHANGED <<nodeVars, lease>>

recheck_tip(i) ==
    LET j == job[i] IN
    /\ Asks(i, "recheck_tip")
    /\ IF best[j.snap.height] = j.snap.hash
       THEN Goto(i, "recheck_ancestor", j) ELSE Abort(i)
    /\ UNCHANGED <<dbVars, nodeVars, lease>>

recheck_ancestor(i) ==
    LET j == job[i] IN
    /\ Asks(i, "recheck_ancestor")
    /\ IF best[j.anc.height] = j.anc.hash
       THEN Goto(i, "replace", j) ELSE Abort(i)
    /\ UNCHANGED <<dbVars, nodeVars, lease>>

replace(i) ==
    LET j == job[i] IN
    /\ pc[i] = "replace"
    /\ IF replace_canonical_branch_ok(j.tip, j.anc, j.staged, j.snap.height)
       THEN /\ replace_canonical_branch(j.tip, j.anc, j.staged, j.snap.height)
            /\ Goto(i, "candidate", Rest(j))
       ELSE Abort(i) /\ UNCHANGED dbVars
    /\ UNCHANGED <<nodeVars, lease>>

------------------------------------------------------------------------------
(***************************************************************************)
(* The evidence refresh and the end of the pass.                           *)
(***************************************************************************)

\* evidence_refresh_candidate: a record of the recent window, or none is stale.
candidate(i) ==
    /\ pc[i] = "candidate"
    /\ \/ Goto(i, "final_tip", job[i])
       \/ \E h \in RefreshWindow(RefreshDepth) :
             Goto(i, "refresh_prev", [job[i] EXCEPT !.mode = "refresh", !.cursor = h])
    /\ UNCHANGED <<dbVars, nodeVars, lease>>

refresh_prev(i) ==
    /\ Asks(i, "refresh_prev")
    /\ Goto(i, "fetch", [job[i] EXCEPT !.prev = best[job[i].cursor - 1]])
    /\ UNCHANGED <<dbVars, nodeVars, lease>>

refresh(i) ==
    /\ pc[i] = "refresh"
    /\ IF refresh_block_evidence_ok(Fetched(i))
       THEN refresh_block_evidence(Fetched(i)) /\ Goto(i, "final_tip", Rest(job[i]))
       ELSE Abort(i) /\ UNCHANGED dbVars
    /\ UNCHANGED <<nodeVars, lease>>

final_tip(i) ==
    /\ pc[i] = "final_tip"
    /\ Goto(i, "finish", [job[i] EXCEPT !.tip = canonical_tip])
    /\ UNCHANGED <<dbVars, nodeVars, lease>>

\* The height reported for an empty chain is 0, that of the configured genesis.
finish(i) ==
    LET j == job[i]
        final_height == IF j.tip = NoTip THEN 0 ELSE j.tip.height
    IN
    /\ pc[i] = "finish"
    /\ update_node_tip(j.snap, IF final_height = j.snap.height THEN "ready" ELSE "syncing")
    /\ Goto(i, "idle", NoJob)
    /\ UNCHANGED <<nodeVars, lease>>

------------------------------------------------------------------------------
\* The steps sync_once takes by itself.
SyncStep(i) ==
    \/ blockchain_info(i) \/ tip_hash(i) \/ validate_identity(i)
    \/ read_tip(i) \/ observe(i) \/ compare(i)
    \/ search(i) \/ search_node(i)
    \/ fetch(i) \/ body(i) \/ aux_status(i) \/ confirm(i)
    \/ commit(i) \/ recheck_tip(i) \/ recheck_ancestor(i) \/ replace(i)
    \/ candidate(i) \/ refresh_prev(i) \/ refresh(i)
    \/ final_tip(i) \/ finish(i)
    \/ NodeRefuses(i) \/ Failed(i)

NodeStep == (NodeMove \/ NodeRewitness) /\ UNCHANGED <<dbVars, lease, pc, job>>

FaultStep == LeaseBreaks \/ \E i \in Indexers : Crash(i) \/ CallFails(i)

Next ==
    \/ NodeStep
    \/ FaultStep
    \/ \E i \in Indexers :
          acquire_writer_lock(i) \/ LeaseLossNoticed(i) \/ SyncStep(i)

Spec == Init /\ [][Next]_vars
------------------------------------------------------------------------------
(***************************************************************************)
(* Safety.                                                                 *)
(***************************************************************************)

\* Only the process that holds the advisory lock is running: a second process
\* never indexes beside it, through any order of starts, crashes and restarts.
SingleWriter == \A i \in Indexers : pc[i] \in Running => lease = i

\* The selectors form one chain: contiguous from height 0, rooted at the
\* configured genesis block, each block the child of the one below, whatever
\* the node did between the calls of a pass and wherever a pass failed.
OneChain == Selected[0] \in {Genesis, NoBlock} /\ Linked(Selected)

\* chain_state points at the highest selector, and there is none above it.
StateAtTip == IsTip(Selected, state.indexed)

\* Readers find one chain and the tip they are told about is its tip.
ChainIntegrity == OneChain /\ StateAtTip

\* A block is stored, and selected, only with a witness that the node at some
\* moment held for it on its best chain.
StoredWasBest ==
    /\ facts \subseteq seen
    /\ \A h \in Heights : canon[h] # NoRow => <<canon[h].hash, canon[h].wit>> \in facts

\* `ready' is never reported for an index that is behind or ahead of the node
\* height recorded with it.
ReadyCaughtUp ==
    state.status = "ready" => state.indexed # NoTip /\ state.indexed.height = state.node.height

\* A selector that disappears or changes is covered by the reorganization row
\* written in the same transaction: it names the displaced tip and a block that
\* both chains have, and nothing at or below that block changes.
ReorgRecorded ==
    [][\A h \in Heights :
          canon[h] # NoRow /\ canon'[h] # canon[h] =>
            /\ lastReorg'.old = canonical_tip
            /\ lastReorg'.ancestor.height \in 0..h-1
            /\ \A k \in 0..lastReorg'.ancestor.height : canon'[k] = canon[k]
            /\ canon[lastReorg'.ancestor.height].hash = lastReorg'.ancestor.hash]_vars

\* A published reorganization displaces at most MAX_REORG_DEPTH canonical blocks.
\* The ancestor search counts from the lower of the two tips, so this does not
\* hold when the node's chain is shorter than the stored one.
ReorgDepthBounded ==
    [][lastReorg' # lastReorg =>
          lastReorg'.old.height - lastReorg'.ancestor.height <= MaxReorgDepth]_vars

\* A verified block can be stored whichever of its witnesses it carries.  The
\* size in `blocks' belongs to the first witness, so this does not hold when
\* the node comes to serve a witness of another length.
WitnessStorable ==
    \A i \in Indexers : pc[i] \in {"commit", "refresh"} => insert_block_ok(Fetched(i))

\* What the detailed system implements: a mirror of the node's chain that is
\* extended one block at a time or reorganized in one step.
Mirror == INSTANCE ChainMirror WITH
    mirror <- Selected, served <- {f[1] : f \in seen}, Depth <- MaxReorgDepth

MirrorSpec == Mirror!Spec

------------------------------------------------------------------------------
(***************************************************************************)
(* Liveness.  A tick always comes (the interval never stops), every call   *)
(* ends with an answer or a timeout, and the supervisor restarts a process *)
(* that exited.                                                            *)
(***************************************************************************)
Fairness ==
    \A i \in Indexers :
        /\ WF_vars(SyncStep(i))
        /\ WF_vars(acquire_writer_lock(i))

FairSpec == Spec /\ Fairness

\* A step that the code takes when the node, the database and the sessions all
\* answer: it may still end a pass with an error of its own, which is recorded.
QuietStep ==
    \E i \in Indexers :
        \/ acquire_writer_lock(i) \/ LeaseLossNoticed(i)
        \/ SyncStep(i) /\ (pc[i] = "failed" => mark_indexer_error)

\* From some moment on only such steps occur: the node keeps its chain and no
\* call, session or process fails.  A pass that fails for a reason of the code
\* (a search beyond the bound, a refused block, a height the node does not
\* have) may fail again and again, and is not excluded.
Quiescent == <>[][QuietStep]_vars

BestTip == [height |-> BestHeight, hash |-> best[BestHeight]]

Synced == state = [indexed |-> BestTip, node |-> BestTip, status |-> "ready"]

\* More heights are contested than MAX_REORG_DEPTH allows to replace.
TooDeep ==
    \E h \in Heights :
        /\ h <= state.indexed.height /\ h <= BestHeight
        /\ \A k \in Heights : k >= h - MaxReorgDepth /\ k <= h => canon[k].hash # best[k]

\* The node's chain has another genesis block than the configured one.
OtherNetwork == best[0] # Genesis

\* A block of the node's chain is stored with a witness of another length than
\* the one the node holds for it now (see WitnessStorable).
Unstorable ==
    \E h \in Heights :
        Serves(h) /\ ~insert_block_ok([hash |-> best[h], wit |-> nodeWit[best[h]]])

\* Once the node and the faults calm down the explorer reaches the node's tip
\* and stays ready there.  It ends otherwise only where passes fail for ever,
\* and is not reported ready after such a failure: before a divergence deeper
\* than the configured bound, before a node of another network, and before a
\* block whose stored size is that of another witness.
Converges ==
    Quiescent =>
        <>[](\/ Synced
             \/ state.status # "ready" /\ (TooDeep \/ OtherNetwork \/ Unstorable))
==============================================================================
