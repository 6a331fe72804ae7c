------------------------------- MODULE TxStore -------------------------------
(***************************************************************************)
(* The transactions of the stored blocks: transaction_instances with their *)
(* transparent_inputs and transparent_outputs, and block_transactions,     *)
(* written by insert_block and insert_transaction (src/db.rs).             *)
(*                                                                         *)
(* A txid does not commit to the authorizing data of a transaction, so a   *)
(* row is an instance: a txid with the digest of what authorizes it.  Rows *)
(* are never updated or deleted and are shared by all blocks that contain  *)
(* the instance; when an instance is told again it must be the same one.   *)
(*                                                                         *)
(* A transaction as the node tells it is a record                          *)
(*   txid, version, auth, raw  its identity: auth digest, raw hash         *)
(*   coinbase                  some input is a coinbase input              *)
(*   spends                    the <<txid, output index>> it spends        *)
(*   outs                      its outputs: [value, address]               *)
(* The shielded counts, sizes and scripts are compared like these and are  *)
(* left out.  The JSON object the node told, with fields nothing compares,  *)
(* is kept in raw_rpc as it was when the instance was inserted: two blocks *)
(* that share the instance may have told different ones.  Which object it  *)
(* is, is all that matters here: the pair it was told with.                *)
(***************************************************************************)
EXTENDS ExplorerDb, Sequences

CONSTANTS
    Contents,   \* the transaction lists the node may tell for each block
    NoDigest,   \* no authorization digest
    NoAddress   \* an output whose script names no address

VARIABLES
    tx,       \* instances: key -> the transaction as first told
    raw_rpc,  \* instances: key -> the pair with which it was first told
    rows,     \* block_transactions: stored pair -> the keys of its transactions
    told      \* history: what the node told when each pair was last stored

txVars == <<tx, raw_rpc, rows, told>>

TxInit ==
    /\ tx = [k \in {} |-> NoDigest]
    /\ raw_rpc = [k \in {} |-> NoDigest]
    /\ rows = [p \in {} |-> <<>>]
    /\ told = [p \in {} |-> <<>>]

\* instance_digest: the authorization digest since version 5, the raw hash
\* before.
instance_digest(t) == IF t.version >= 5 THEN t.auth ELSE t.raw

\* ON CONFLICT (txid, instance_digest).
Key(t) == <<t.txid, instance_digest(t)>>

Keys(content) == [n \in DOMAIN content |-> Key(content[n])]

\* The transactions of a batch of blocks, which one database transaction
\* stores: a function from pairs to lists.
Within(batch) == UNION {{batch[p][n] : n \in DOMAIN batch[p]} : p \in DOMAIN batch}

\* Mutant: an instance that is there already is linked without a comparison.
insert_transaction_ok_uncompared(t, batch) == t.version >= 5 => t.auth # NoDigest

\* insert_transaction refuses a transaction without the digest its version
\* needs, and one whose facts, inputs or outputs differ from the stored ones
\* (which a block of the same batch may just have stored).
insert_transaction_ok(t, batch) ==
    /\ t.version >= 5 => t.auth # NoDigest
    /\ Key(t) \in DOMAIN tx => tx[Key(t)] = t
    /\ \A u \in Within(batch) : Key(u) = Key(t) => u = t

\* The positions of a block: those stored for the pair must hold the same
\* instances, blocks.transaction_count must not change with the witness, and
\* no instance may occur twice in a block.
link_ok(p, content) ==
    /\ p \in DOMAIN rows => Keys(content) = rows[p]
    /\ \A q \in DOMAIN rows : q[1] = p[1] => Len(rows[q]) = Len(content)
    /\ \A i, j \in DOMAIN content : Key(content[i]) = Key(content[j]) => i = j

store_ok(batch) ==
    /\ \A t \in Within(batch) : insert_transaction_ok(t, batch)
    /\ \A p \in DOMAIN batch : link_ok(p, batch[p])

\* ON CONFLICT DO NOTHING everywhere: what is there stays.
insert_transactions(batch) ==
    tx' = [k \in DOMAIN tx \cup {Key(t) : t \in Within(batch)} |->
              IF k \in DOMAIN tx THEN tx[k] ELSE CHOOSE t \in Within(batch) : Key(t) = k]

\* raw_rpc of a new instance comes from the block that inserts it (the first of
\* those in the batch that have it: any of them here).
keep_raw_rpc(batch) ==
    \E teller \in [{Key(t) : t \in Within(batch)} \ DOMAIN raw_rpc -> DOMAIN batch] :
        /\ \A k \in DOMAIN teller : \E n \in DOMAIN batch[teller[k]] : Key(batch[teller[k]][n]) = k
        /\ raw_rpc' = [k \in DOMAIN raw_rpc \cup DOMAIN teller |->
                           IF k \in DOMAIN raw_rpc THEN raw_rpc[k] ELSE teller[k]]

link(batch) ==
    rows' = [p \in DOMAIN rows \cup DOMAIN batch |->
                IF p \in DOMAIN rows THEN rows[p] ELSE Keys(batch[p])]

store(batch) ==
    /\ insert_transactions(batch)
    /\ keep_raw_rpc(batch)
    /\ link(batch)
    /\ told' = [p \in DOMAIN told \cup DOMAIN batch |->
                   IF p \in DOMAIN batch THEN batch[p] ELSE told[p]]

------------------------------------------------------------------------------
\* Every stored pair has its transactions, and their facts, inputs and outputs
\* read back as the node told them each time it was asked, although the
\* instances are shared with blocks of other branches and were written by
\* whichever came first.
StoredAsTold ==
    /\ DOMAIN rows = facts
    /\ \A p \in facts :
          /\ DOMAIN rows[p] = DOMAIN told[p]
          /\ \A n \in DOMAIN rows[p] :
                rows[p][n] \in DOMAIN tx /\ tx[rows[p][n]] = told[p][n]
==============================================================================
