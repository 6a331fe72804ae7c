------------------------------ MODULE ExplorerDb ------------------------------
(***************************************************************************)
(* The part of the PostgreSQL database the indexer reads and writes, and   *)
(* the methods of `Database' (src/db.rs).  Each method that changes state  *)
(* runs in one transaction, so it is one action over these tables; a       *)
(* method that can refuse has a predicate <method>_ok for the outcome, and *)
(* a refusal rolls everything back.                                        *)
(*                                                                         *)
(* Left out: indexed_witness_hash and last_error (written, never read by   *)
(* the indexer), the timestamps, and the columns of a stored block that    *)
(* its hash determines.                                                    *)
(***************************************************************************)
EXTENDS BlockTree

VARIABLES
    canon,      \* canonical_chain: height -> row, NoRow where there is none
    facts,      \* block_witnesses: the <<block, witness>> pairs ever stored
    state,      \* chain_state: the indexed tip, the node tip, the status
    lastReorg   \* the newest row of reorg_events

dbVars == <<canon, facts, state, lastReorg>>

Status == {"starting", "syncing", "ready", "error"}

\* A reorg_events row: the displaced tip and the common ancestor.
NoReorg == [old |-> NoTip, ancestor |-> NoTip]

DbTypeOK ==
    /\ canon \in [Heights -> Row \cup {NoRow}]
    /\ facts \subseteq Block \X Witness
    /\ state \in [indexed : Tip, node : Tip, status : Status]
    /\ lastReorg \in [old : Tip, ancestor : Tip]

\* migrate and initialize_network on a fresh database.
DbInit ==
    /\ canon = [h \in Heights |-> NoRow]
    /\ facts = {}
    /\ state = [indexed |-> NoTip, node |-> NoTip, status |-> "starting"]
    /\ lastReorg = NoReorg

\* The hashes of the canonical chain, as a chain.
Selected == [h \in Heights |-> canon[h].hash]

canonical_hash(h) == canon[h].hash

\* The highest selector row; NoTip when the table is empty.
canonical_tip ==
    LET H == {h \in Heights : canon[h] # NoRow}
    IN  IF H = {} THEN NoTip
        ELSE LET top == CHOOSE h \in H : \A k \in H : k <= h
             IN  [height |-> top, hash |-> canon[top].hash]

(***************************************************************************)
(* The recent heights whose AuxPoW record may be refreshed.  Which of them *)
(* is the stalest, and whether any is stale yet, depends on the clock,     *)
(* which this module does not have.                                        *)
(***************************************************************************)
RefreshWindow(depth) ==
    LET top == canonical_tip.height
    IN  {h \in Heights : canon[h] # NoRow /\ h >= 1 /\ h >= top - depth}

(***************************************************************************)
(* insert_block: `blocks' has one row per hash and refuses a block whose   *)
(* columns differ from the stored ones.  All of them are determined by the *)
(* hash except size_bytes, the serialized size, which counts the witness.  *)
(* The row of `blocks' was written with the first witness stored.          *)
(***************************************************************************)
insert_block_ok(row) ==
    \A f \in facts : f[1] = row.hash => WitnessSize[f[2]] = WitnessSize[row.wit]

(***************************************************************************)
(* commit_block: store the block and its witness, insert a selector at its *)
(* height unless there is one, and refuse when the selector there is not   *)
(* this block with this witness.  UNIQUE (network_id, block_hash) refuses  *)
(* a block that is already selected at another height.                     *)
(***************************************************************************)
commit_block_ok(h, row) ==
    /\ insert_block_ok(row)
    /\ canon[h] \in {NoRow, row}
    /\ \A k \in Heights \ {h} : canon[k].hash # row.hash

commit_block(h, row) ==
    /\ canon' = [canon EXCEPT ![h] = row]
    /\ facts' = facts \cup {<<row.hash, row.wit>>}
    /\ state' = [state EXCEPT !.indexed = [height |-> h, hash |-> row.hash],
                              !.status = "syncing"]
    /\ UNCHANGED lastReorg

\* refresh_block_evidence: insert_block alone; the selectors stay.
refresh_block_evidence_ok(row) == insert_block_ok(row)

refresh_block_evidence(row) ==
    /\ facts' = facts \cup {<<row.hash, row.wit>>}
    /\ UNCHANGED <<canon, state, lastReorg>>

\* validate_replacement_branch: staged[lo..hi] continues from the ancestor.
validate_replacement_branch(ancestor, staged, hi) ==
    \A h \in ancestor.height + 1 .. hi :
        /\ staged[h] # NoRow
        /\ Parent[staged[h].hash] =
              IF h = ancestor.height + 1 THEN ancestor.hash ELSE staged[h-1].hash

(***************************************************************************)
(* replace_canonical_branch: compare the locked tip with the tip the       *)
(* search started from, then store the branch, record the reorganization,  *)
(* delete the selectors above the ancestor, insert the staged ones, and    *)
(* move chain_state to the new tip (the ancestor when nothing is staged).  *)
(***************************************************************************)
replace_canonical_branch_ok(old, ancestor, staged, hi) ==
    /\ state.indexed = old
    /\ validate_replacement_branch(ancestor, staged, hi)
    /\ \A h \in ancestor.height + 1 .. hi : insert_block_ok(staged[h])
    /\ \A h \in ancestor.height + 1 .. hi, k \in 0 .. ancestor.height :
          staged[h].hash # canon[k].hash

\* Mutant: the branch is selected without being stored.
replace_canonical_branch_no_insert(old, ancestor, staged, hi) ==
    LET branch == ancestor.height + 1 .. hi
    IN  /\ canon' = [h \in Heights |->
                        IF h <= ancestor.height THEN canon[h]
                        ELSE IF h \in branch THEN staged[h] ELSE NoRow]
        /\ lastReorg' = [old |-> old, ancestor |-> ancestor]
        /\ state' = [state EXCEPT
              !.indexed = IF branch = {} THEN ancestor
                          ELSE [height |-> hi, hash |-> staged[hi].hash],
              !.status = "syncing"]
        /\ UNCHANGED facts

\* Mutant: `height >= ancestor' in the delete, which takes the ancestor too.
replace_canonical_branch_over_delete(old, ancestor, staged, hi) ==
    LET branch == ancestor.height + 1 .. hi
    IN  /\ canon' = [h \in Heights |->
                        IF h < ancestor.height THEN canon[h]
                        ELSE IF h \in branch THEN staged[h] ELSE NoRow]
        /\ facts' = facts \cup {<<staged[h].hash, staged[h].wit>> : h \in branch}
        /\ lastReorg' = [old |-> old, ancestor |-> ancestor]
        /\ state' = [state EXCEPT
              !.indexed = IF branch = {} THEN ancestor
                          ELSE [height |-> hi, hash |-> staged[hi].hash],
              !.status = "syncing"]

replace_canonical_branch(old, ancestor, staged, hi) ==
    LET branch == ancestor.height + 1 .. hi
    IN  /\ canon' = [h \in Heights |->
                        IF h <= ancestor.height THEN canon[h]
                        ELSE IF h \in branch THEN staged[h] ELSE NoRow]
        /\ facts' = facts \cup {<<staged[h].hash, staged[h].wit>> : h \in branch}
        /\ lastReorg' = [old |-> old, ancestor |-> ancestor]
        /\ state' = [state EXCEPT
              !.indexed = IF branch = {} THEN ancestor
                          ELSE [height |-> hi, hash |-> staged[hi].hash],
              !.status = "syncing"]

mark_indexer_error ==
    /\ state' = [state EXCEPT !.status = "error"]
    /\ UNCHANGED <<canon, facts, lastReorg>>

\* Mutant: the status is kept whatever the node's tip is.
observe_node_tip_keeps_status(tip) ==
    /\ state' = [state EXCEPT !.node = tip]
    /\ UNCHANGED <<canon, facts, lastReorg>>

\* observe_node_tip keeps the status while the index is at the node's tip.
observe_node_tip(tip) ==
    /\ state' = [state EXCEPT
          !.node = tip,
          !.status = IF state.indexed = tip THEN @ ELSE "syncing"]
    /\ UNCHANGED <<canon, facts, lastReorg>>

update_node_tip(tip, status) ==
    /\ state' = [state EXCEPT !.node = tip, !.status = status]
    /\ UNCHANGED <<canon, facts, lastReorg>>
==============================================================================
