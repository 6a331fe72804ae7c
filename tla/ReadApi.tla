------------------------------- MODULE ReadApi -------------------------------
(***************************************************************************)
(* The read-only HTTP handlers (src/api.rs) against the transactions of    *)
(* the indexer.                                                            *)
(*                                                                         *)
(* A handler runs several SQL statements.  Most run them on the pool, each *)
(* in a snapshot of its own, so the indexer may publish between two of     *)
(* them; address, search and the analytics run them in one REPEATABLE READ *)
(* transaction.  Every handler first reads chain_state for the meta part   *)
(* of its answer.  One client is enough: readers change nothing.           *)
(*                                                                         *)
(* req is the request being served:                                        *)
(*   kind, pc   the route and its next statement; "done" with an answer    *)
(*   meta       the indexed tip that goes into the envelope                *)
(*   id         the height, address or txid that was asked for             *)
(*   row        the block found, with its height and its neighbours        *)
(*   aux, obs   outcome in auxpow_links and in parent_chain_observations   *)
(*   auxOf      the block and witness of the auxpow_links row returned     *)
(*   rpc        the block and witness raw_rpc was told with                *)
(*   view       the selectors in the snapshot of a repeatable-read         *)
(*              transaction; history once the transaction is over          *)
(*   sums       the row of totals, or the transaction, in the answer       *)
(*   list       the rows of the answer                                     *)
(*   pool       the transparent pool and what no address owns of it        *)
(*   cursor     where the next page of a listing starts                    *)
(*   walk       the rows of the pages fetched so far                       *)
(*   moved      selectors vanished since the first page (history)          *)
(***************************************************************************)
EXTENDS Ledger

CONSTANTS
    Outcome,    \* results of verifying a block against the parent sources
    NoOutcome,  \* no row
    PageLimit,  \* bounded_limit of the page size
    OfferedRow, \* BOUND: the blocks and witnesses that are ever published
    Routes      \* BOUND: the routes the client uses

BlockRoutes == {"block", "raw_block", "block_auxpow"}
Listings == {"blocks", "transactions"}
SnapshotRoutes == {"address", "search", "rich_list", "address_stats", "network_history"}
AllRoutes == BlockRoutes \cup Listings \cup SnapshotRoutes \cup {"status", "transaction"}

ASSUME ReadAssumption ==
    /\ NoOutcome \notin Outcome
    /\ PageLimit \in Nat \ {0}
    /\ OfferedRow \subseteq Row
    /\ Routes \subseteq AllRoutes

VARIABLES
    evid,  \* outcome of the newest verification of each stored pair
    req

tables == <<dbVars, txVars, evid>>
vars == <<tables, req>>

NoDetail == [height |-> -1, hash |-> NoBlock, wit |-> NoWitness,
             prev |-> NoBlock, next |-> NoBlock]

NoPair == <<NoBlock, NoWitness>>

Idle ==
    [kind |-> "status", pc |-> "idle", meta |-> NoTip, id |-> 0, row |-> NoDetail,
     aux |-> NoOutcome, auxOf |-> NoPair, obs |-> NoOutcome, rpc |-> NoPair,
     view |-> {}, sums |-> <<>>, list |-> {}, pool |-> <<>>,
     cursor |-> <<>>, walk |-> <<>>, moved |-> FALSE]

Init == DbInit /\ TxInit /\ evid = [p \in {} |-> NoOutcome] /\ req = Idle

------------------------------------------------------------------------------
(***************************************************************************)
(* The indexer, as readers see it: one transaction per step.               *)
(***************************************************************************)

\* Selectors, as the pairs readers join with.
SelectorsOf(c) ==
    {[height |-> h, hash |-> c[h].hash, wit |-> c[h].wit] :
        h \in {k \in Heights : c[k] # NoRow}}
Selectors == SelectorsOf(canon)

\* insert_block writes the outcome of its verification beside each pair.
Verify(pairs, o) == evid' = [p \in pairs \cup DOMAIN evid |-> IF p \in pairs THEN o ELSE evid[p]]

\* What the node may tell of some blocks.
Tellings(pairs) ==
    {batch \in [pairs -> UNION {Contents[p[1]] : p \in pairs}] :
        \A p \in pairs : batch[p] \in Contents[p[1]]}

\* insert_block of each pair: its transactions and its verification.
insert_blocks(pairs) ==
    \E batch \in Tellings(pairs), o \in Outcome :
        store_ok(batch) /\ store(batch) /\ Verify(pairs, o)

Publish ==
    \/ \E row \in OfferedRow :
          LET t == canonical_tip IN
          /\ t.height < MaxHeight /\ Parent[row.hash] = t.hash
          /\ t = NoTip => row.hash = Genesis
          /\ commit_block_ok(t.height + 1, row)
          /\ commit_block(t.height + 1, row)
          /\ insert_blocks({<<row.hash, row.wit>>})
          /\ UNCHANGED req
    \/ \E k \in 0..canonical_tip.height :
       \E hi \in k..MaxHeight :
       \E branch \in [k+1..hi -> OfferedRow] :
          LET ancestor == [height |-> k, hash |-> canonical_hash(k)]
              staged == [h \in Heights |-> IF h \in k+1..hi THEN branch[h] ELSE NoRow]
          IN
          /\ k < canonical_tip.height
          /\ \E h \in k+1..canonical_tip.height : h <= hi => branch[h].hash # canonical_hash(h)
          /\ replace_canonical_branch_ok(canonical_tip, ancestor, staged, hi)
          /\ replace_canonical_branch(canonical_tip, ancestor, staged, hi)
          /\ insert_blocks({<<branch[h].hash, branch[h].wit>> : h \in k+1..hi})
          /\ req' = [req EXCEPT !.moved = req.pc # "idle" /\ req.kind \in Listings]

\* refresh_block_evidence of a selected block, which is inserted again.
Refresh ==
    \E s \in Selectors :
        /\ s.height > 0 /\ refresh_block_evidence([hash |-> s.hash, wit |-> s.wit])
        /\ insert_blocks({<<s.hash, s.wit>>})
        /\ UNCHANGED req

------------------------------------------------------------------------------
(***************************************************************************)
(* Statements.                                                             *)
(***************************************************************************)
Statement(label) == req.pc = label /\ UNCHANGED tables

\* What the first statement after chain_state is.
SecondStatement(kind) ==
    CASE kind = "status" -> "latest"
      [] kind \in BlockRoutes -> "find_block"
      [] kind = "transaction" -> "find_tx"
      [] kind = "address" -> "balance"
      [] kind \in Listings -> "page"
      [] OTHER -> kind

\* The transactions ids a client may ask for.
Txids == UNION {{c[n].txid : n \in DOMAIN c} : c \in UNION {Contents[b] : b \in Block}}

Asked(kind) ==
    CASE kind \in BlockRoutes -> Heights
      [] kind = "transaction" -> Txids
      [] kind = "address" -> Address
      [] kind = "search" -> Address \cup Txids \cup Block
      [] OTHER -> {0}

\* chain_state, run on the pool, or snapshot_chain_state, the first statement
\* of a REPEATABLE READ transaction, which fixes the snapshot.
chain_state ==
    /\ Statement("idle")
    /\ \E kind \in Routes : \E id \in Asked(kind) :
          req' = [Idle EXCEPT
                !.kind = kind, !.id = id, !.meta = state.indexed,
                !.pc = SecondStatement(kind),
                !.view = IF kind \in SnapshotRoutes THEN Selectors ELSE {}]

\* status: the newest selected block.
latest ==
    /\ Statement("latest")
    /\ req' = [req EXCEPT
          !.pc = "done",
          !.row = [NoDetail EXCEPT !.height = canonical_tip.height,
                                   !.hash = canonical_tip.hash]]

\* find_block: BLOCK_DETAIL_QUERY by height; the predecessor comes from the
\* block, the successor from the selector above.
find_block ==
    LET h == req.id IN
    /\ Statement("find_block")
    /\ IF canon[h] = NoRow THEN req' = [req EXCEPT !.pc = "not_found"]
       ELSE req' = [req EXCEPT
              !.row = [height |-> h, hash |-> canon[h].hash, wit |-> canon[h].wit,
                       prev |-> Parent[canon[h].hash],
                       next |-> IF h < MaxHeight THEN canonical_hash(h + 1) ELSE NoBlock],
              !.pc = IF req.kind = "block_auxpow" THEN "auxpow" ELSE "keyed"]

\* value_pool_snapshots and TRANSACTIONS_FOR_BLOCK_QUERY (block), raw_block
\* (raw_block): rows keyed by the block and witness found.  These are never
\* deleted, so the statements of one handler may be taken together.
keyed ==
    /\ Statement("keyed")
    /\ req' = [req EXCEPT
          !.pc = IF <<req.row.hash, req.row.wit>> \notin facts THEN "failed"
                 ELSE IF req.kind = "raw_block" THEN "done" ELSE "auxpow"]

\* The rows of auxpow_links (the genesis block has none) joined with
\* canonical_chain on block and witness.
SelectedProofs == {<<s.hash, s.wit>> : s \in {r \in Selectors : r.height > 0}} \cap DOMAIN evid

\* Mutant: the rows are not restricted to the witness.
AUXPOW_QUERY_any_witness(hash, wit) == {p \in SelectedProofs : p[1] = hash}

\* WHERE a.block_hash = $1 AND a.witness_hash = $2.
AUXPOW_QUERY(hash, wit) == {p \in SelectedProofs : p[1] = hash /\ p[2] = wit}

\* load_auxpow: the row, if the block is still selected with that witness.
auxpow ==
    LET found == AUXPOW_QUERY(req.row.hash, req.row.wit) IN
    /\ Statement("auxpow")
    /\ \/ found = {} /\ req' = [req EXCEPT !.pc = "done"]
       \/ \E p \in found :
             req' = [req EXCEPT !.pc = "observations", !.aux = evid[p], !.auxOf = p]

\* load_auxpow, the observations of that pair.
observations ==
    /\ Statement("observations")
    /\ req' = [req EXCEPT !.pc = "done", !.obs = evid[<<req.row.hash, req.row.wit>>]]

\* transaction: TRANSACTION_DETAIL_QUERY, the newest selected instance.
find_tx ==
    LET found == {r \in canonical_tx(Selectors) : tx[r.key].txid = req.id} IN
    /\ Statement("find_tx")
    /\ IF found = {} THEN req' = [req EXCEPT !.pc = "not_found"]
       ELSE LET r == CHOOSE r \in found : \A q \in found : q.height <= r.height
            IN  req' = [req EXCEPT !.pc = "instance", !.list = {r},
                          !.row = [NoDetail EXCEPT !.height = r.height,
                                      !.hash = canon[r.height].hash,
                                      !.wit = canon[r.height].wit]]

\* Mutant: raw_rpc is looked up by the txid alone.
instance_by_txid ==
    LET key == (CHOOSE r \in req.list : TRUE).key IN
    /\ Statement("instance")
    /\ req' = [req EXCEPT !.pc = "done", !.sums = tx[key],
                  !.rpc = raw_rpc[CHOOSE k \in DOMAIN raw_rpc : k[1] = key[1]]]

\* transaction: inputs, outputs and raw_rpc of the instance found.  Its rows
\* never change, so the statements may be taken together.
instance ==
    LET key == (CHOOSE r \in req.list : TRUE).key IN
    /\ Statement("instance")
    /\ req' = [req EXCEPT !.pc = "done", !.sums = tx[key], !.rpc = raw_rpc[key]]

\* address: ADDRESS_BALANCE_QUERY, in the snapshot.
balance ==
    LET b == ADDRESS_BALANCE_QUERY(req.view, req.id, Max({req.meta.height, 0})) IN
    /\ Statement("balance")
    /\ req' = IF b.exists THEN [req EXCEPT !.pc = "activity", !.sums = b]
              ELSE [req EXCEPT !.pc = "not_found"]

\* Mutant: the statement runs on the pool.
activity_on_pool ==
    /\ Statement("activity")
    /\ req' = [req EXCEPT !.pc = "done", !.list = ADDRESS_ACTIVITY_QUERY(Selectors, req.id)]

\* address: ADDRESS_ACTIVITY_QUERY, in the same snapshot.
activity ==
    /\ Statement("activity")
    /\ req' = [req EXCEPT !.pc = "done", !.list = ADDRESS_ACTIVITY_QUERY(req.view, req.id)]

\* Mutant: a transaction is found as soon as it is stored.
search_stored ==
    LET sel == req.view
        found == \/ req.id \in {s.hash : s \in sel}
                 \/ req.id \in {k[1] : k \in DOMAIN tx}
                 \/ req.id \in {o.address : o \in outputs(canonical_tx(sel))}
    IN
    /\ Statement("search")
    /\ req' = [req EXCEPT !.pc = IF found THEN "done" ELSE "not_found"]

\* search: a selected block, a transaction of one, or an address paid in one.
search ==
    LET sel == req.view
        found == \/ req.id \in {s.hash : s \in sel}
                 \/ req.id \in {tx[r.key].txid : r \in canonical_tx(sel)}
                 \/ req.id \in {o.address : o \in outputs(canonical_tx(sel))}
    IN
    /\ Statement("search")
    /\ req' = [req EXCEPT !.pc = IF found THEN "done" ELSE "not_found"]

\* network_history.
network_history ==
    /\ Statement("network_history")
    /\ req' = [req EXCEPT !.pc = "done", !.list = NETWORK_HISTORY_QUERY(req.view)]

\* rich_list and address_stats up to their last statement.
rich_list ==
    /\ Statement("rich_list")
    /\ req' = [req EXCEPT !.pc = "pool", !.sums = RICH_LIST_QUERY(req.view)]

address_stats ==
    /\ Statement("address_stats")
    /\ req' = [req EXCEPT !.pc = "pool",
                  !.list = ADDRESS_STATS_QUERY(req.view),
                  !.sums = CURRENT_ADDRESS_STATS_QUERY(req.view)]

(***************************************************************************)
(* External: the chain as the node sees it, from the transactions it told. *)
(* Coins are the unspent outputs, and the transparent pool is their sum.   *)
(***************************************************************************)
Entries(sel) ==
    LET all == UNION {{[height |-> s.height, pos |-> n, t |-> told[<<s.hash, s.wit>>][n]] :
                          n \in DOMAIN told[<<s.hash, s.wit>>]} : s \in sel}
    IN  [n \in 1..Cardinality(all) |->
            CHOOSE e \in all : Cardinality({f \in all : Before(Place(f), Place(e))}) = n - 1]

Created(e) ==
    {[height |-> e.height, pos |-> e.pos, txid |-> e.t.txid, coinbase |-> e.t.coinbase,
      index |-> n, value |-> e.t.outs[n].value, address |-> e.t.outs[n].address] :
         n \in DOMAIN e.t.outs}

\* The coins after each of the first entries.
Replay(entries) ==
    LET after[n \in 0..Len(entries)] ==
           IF n = 0 THEN {}
           ELSE {c \in after[n - 1] : Prevout(c) \notin entries[n].t.spends} \cup Created(entries[n])
    IN  after

Coins(entries) == Replay(entries)[Len(entries)]

TransparentPool(sel) == SumValues(Coins(Entries(sel)))

\* rich_list and address_stats: LATEST_TRANSPARENT_POOL_QUERY and the rest.
pool ==
    LET p == LATEST_TRANSPARENT_POOL_QUERY(req.view, req.meta, TransparentPool(req.view))
        rest == unassigned_transparent_balance(p, req.sums.addressed_balance)
    IN
    /\ Statement("pool")
    /\ req' = [req EXCEPT !.pool = <<p, rest>>,
                  !.pc = IF rest = PoolError THEN "failed" ELSE "done"]

------------------------------------------------------------------------------
(***************************************************************************)
(* Listings: blocks, and transactions, whose rows are a block's positions. *)
(* A client follows the cursors to the end.                                *)
(***************************************************************************)
ListRows(kind) ==
    UNION {{<<s.height, p, s.hash>> :
               p \in IF kind = "blocks" THEN {0} ELSE DOMAIN rows[<<s.hash, s.wit>>]} : s \in Selectors}

BelowCursor(listed, cursor) == {r \in listed : cursor = <<>> \/ Before(r, cursor)}

\* Mutant: the cursor is taken from the extra row that is not returned.
NextCursor_extra(fetched) ==
    IF Len(fetched) > PageLimit THEN <<fetched[PageLimit + 1][1], fetched[PageLimit + 1][2]>> ELSE <<>>

\* encode_cursor of the last row returned, when the extra row was there.
NextCursor(fetched) ==
    IF Len(fetched) > PageLimit THEN <<fetched[PageLimit][1], fetched[PageLimit][2]>> ELSE <<>>

\* BLOCK_SUMMARY_QUERY or TRANSACTION_SUMMARY_QUERY: the newest rows first, and
\* one more than the page returns.
page ==
    LET below == BelowCursor(ListRows(req.kind), req.cursor)
        fetched == [n \in 1..Min({PageLimit + 1, Cardinality(below)}) |->
                    CHOOSE r \in below : Cardinality({q \in below : Before(r, q)}) = n - 1]
        returned == SubSeq(fetched, 1, Min({PageLimit, Len(fetched)}))
    IN
    /\ Statement("page")
    /\ req' = [req EXCEPT
          !.cursor = NextCursor(fetched),
          !.walk = req.walk \o returned,
          !.moved = req.moved /\ req.walk # <<>>,
          !.pc = IF NextCursor(fetched) = <<>> THEN "done" ELSE "next_page"]

\* The client sends the cursor it got with the next request.
next_page ==
    /\ Statement("next_page")
    /\ req' = [req EXCEPT !.pc = "page", !.meta = state.indexed]

\* The answer is sent.
Answered ==
    /\ req.pc \in {"done", "not_found", "failed"}
    /\ req' = Idle
    /\ UNCHANGED tables

Next ==
    \/ Publish \/ Refresh
    \/ chain_state \/ latest \/ find_block \/ keyed \/ auxpow \/ observations
    \/ find_tx \/ instance \/ balance \/ activity \/ search
    \/ network_history \/ rich_list \/ address_stats \/ pool
    \/ page \/ next_page \/ Answered

Spec == Init /\ [][Next]_vars

------------------------------------------------------------------------------
Answer(kind) == req.pc = "done" /\ req.kind = kind

\* The tip in the envelope is the tip of the chain in the snapshot.
SnapshotOfTip ==
    req.kind \in SnapshotRoutes /\ req.pc # "idle" =>
        /\ \A s \in req.view : s.height <= req.meta.height
        /\ req.meta # NoTip =>
              \E s \in req.view : s.height = req.meta.height /\ s.hash = req.meta.hash

\* An answer made of several statements of one transaction is about one chain:
\* the tip in the envelope, from which maturity is counted, is the tip of that
\* chain, and the newest row of an address's activity ends with the balance of
\* its totals, whatever is published while the handler runs.
SnapshotExact ==
    /\ SnapshotOfTip
    /\ Answer("address") =>
          \E r \in req.list :
             /\ \A q \in req.list : ~Before(r.place, q.place)
             /\ r.balance_after = req.sums.balance
             /\ req.sums.last_seen = {r.place[1]}

\* The totals of an address, which are added up from outputs and inputs that
\* were stored once for all branches, are those of replaying the transactions
\* the node told for the selected chain: its coins, and of these the ones no
\* block on top of the tip may spend yet.
BalanceIsReplay ==
    Answer("address") =>
        LET coins == {c \in Coins(Entries(req.view)) : c.address = req.id}
            locked == {c \in coins : c.coinbase /\ req.meta.height + 1 - c.height < Maturity}
            b == req.sums
        IN
        /\ b.balance = SumValues(coins)
        /\ b.utxo_count = Cardinality(coins)
        /\ b.immature_coinbase = SumValues(locked)
        /\ b.mature_coinbase = SumValues({c \in coins \ locked : c.coinbase})
        /\ b.mature_coinbase + b.immature_coinbase + b.non_coinbase = b.balance
        /\ b.total_received - b.total_spent = b.balance
        /\ b.anomalies = 0

\* Each row of an address's activity ends with the sum of the coins the address
\* had after that transaction, also when older rows did not fit in the answer;
\* and the rows are the newest transactions that changed those coins.
ActivityIsReplay ==
    Answer("address") =>
        LET entries == Entries(req.view)
            replay == Replay(entries)
            held(n) == {c \in replay[n] : c.address = req.id}
            place(n) == <<entries[n].height, entries[n].pos>>
            touched == {n \in 1..Len(entries) : held(n) # held(n - 1)}
        IN
        /\ {r.place : r \in req.list} =
              {place(n) : n \in {m \in touched :
                  Cardinality({k \in touched : k > m}) < ActivityLimit}}
        /\ \A r \in req.list, n \in touched :
              r.place = place(n) =>
                 /\ r.balance_after = SumValues(held(n))
                 /\ r.received - r.spent = SumValues(held(n)) - SumValues(held(n - 1))
        /\ req.sums.transaction_count = Cardinality(touched)

\* The rich list and the address statistics can always be answered, what the
\* addresses own and what no address owns is together the node's pool, and a
\* ranked address has the coins a replay gives it; no share is over 100 percent.
RichListBalanced ==
    /\ req.kind \in {"rich_list", "address_stats"} => req.pc # "failed"
    /\ Answer("rich_list") /\ req.meta # NoTip =>
          LET coins == Coins(Entries(req.view))
              of(a) == SumValues({c \in coins : c.address = a})
          IN
          /\ req.sums.addressed_balance = SumValues({c \in coins : c.address \in Address})
          /\ req.pool = <<SumValues(coins), of(NoAddress)>>
          /\ req.sums.funded_address_count = Cardinality({a \in Address : of(a) > 0})
          /\ \A r \in req.sums.rows :
                /\ r.balance = of(r.address)
                /\ r.balance = r.total_received - r.total_sent
                /\ exact_percent(r.balance, req.pool[1]) <= PercentScale
          /\ \A a \in Address, r \in req.sums.rows :
                of(a) > r.balance => \E q \in req.sums.rows : q.address = a

\* A point of a history that needs the blocks below it (the time since its
\* predecessor, the addresses seen so far) has the value it has in the whole
\* chain, also when those blocks are outside the page.
HistoryExact ==
    /\ Answer("network_history") =>
          \A p \in req.list :
             p.lag = IF Parent[p.hash] = NoBlock THEN {} ELSE {Parent[p.hash]}
    /\ Answer("address_stats") =>
          \A p \in req.list :
             p.total_seen =
                Cardinality({o.address : o \in
                   Addressed({s \in req.view : s.height <= p.height})})

\* The transactions told with a selected block name this txid or address.
Tells(s, a) ==
    \E n \in DOMAIN told[<<s.hash, s.wit>>] :
        LET t == told[<<s.hash, s.wit>>][n]
        IN  t.txid = a \/ \E o \in ToSet(t.outs) : o.address = a

\* The search finds a block, a transaction or an address exactly when the
\* selected chain has it, although what displaced blocks brought stays stored.
SearchExact ==
    req.kind = "search" /\ req.pc \in {"done", "not_found"} =>
        (req.pc = "done" <=> \E s \in req.view : s.hash = req.id \/ Tells(s, req.id))

\* A block answer is about one block and one witness although its statements
\* ran in several snapshots: its neighbours are those of one chain, the keyed
\* rows are there, and AuxPoW data is that of the block with that witness, also
\* when the block was selected again with another.  A transaction answer shows
\* the facts, inputs and outputs of the very instance the block it names was
\* told with; the raw object beside them is one the node told for a stored block
\* with the same instance, but not always the block that the answer names.
DetailCoherent ==
    /\ req.kind \in BlockRoutes => req.pc # "failed"
    /\ req.row.next # NoBlock => Parent[req.row.next] = req.row.hash
    /\ req.auxOf \in {NoPair, <<req.row.hash, req.row.wit>>}
    /\ Answer("transaction") =>
          /\ req.sums \in ToSet(told[<<req.row.hash, req.row.wit>>])
          /\ req.rpc \in facts
          /\ \A r \in req.list : r.key \in ToSet(rows[req.rpc])

\* Following the cursors never returns a row twice or out of order, also when
\* blocks are replaced between two pages; when only blocks were appended the
\* pages together are the whole list below the row it started from.
WalkExact ==
    /\ \A i, j \in 1..Len(req.walk) : i < j => Before(req.walk[j], req.walk[i])
    /\ req.kind \in Listings /\ req.pc = "done" /\ ~req.moved /\ req.walk # <<>> =>
          ToSet(req.walk) =
            {r \in ListRows(req.kind) : r = req.walk[1] \/ Before(r, req.walk[1])}

\* An answer describes one state of the database: the tip and the newest block
\* of a status answer are the same block when they have the same height, a
\* block above genesis is shown with its AuxPoW data, and the aggregate state
\* of the parent sources comes from the observations shown beside it.  Each
\* pair is read by two statements on the pool (and the AuxPoW statement asks
\* again whether the block is selected), so none of the three holds when the
\* indexer commits between them.
AnswerOfOneState ==
    /\ Answer("status") /\ req.row.height = req.meta.height => req.row.hash = req.meta.hash
    /\ Answer("block") /\ req.row.height > 0 => req.aux # NoOutcome
    /\ req.pc = "done" /\ req.aux # NoOutcome => req.obs = req.aux
==============================================================================
