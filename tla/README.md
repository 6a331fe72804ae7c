# A formal model of the Wcash explorer

The Wcash explorer indexes a merge-mined chain into PostgreSQL and serves it
over a read-only API. This directory models the parts of it whose correctness
depends on the order in which things happen: the indexer following a node that
changes its mind, the transactions that publish what it found, the ageing of
the merge-mining evidence, readers whose statements fall between those transactions,
the ledger they compute, and processes that start with the wrong settings. The
modules are checked with TLC and their central invariants are
proved with TLAPS.

All paths below `src/` are relative to the repository root.

## 1. Inventory

| Component | Source | State | Operations | Talks to |
| --- | --- | --- | --- | --- |
| Indexer | `src/indexer.rs` | local variables of one pass | `run`, `sync_once`, `find_common_ancestor`, `fetch_indexed_block` | node and parents (RPC), store (SQL) |
| Writer lease | `src/db.rs` 150-176, `src/indexer.rs` 55-90 | a PostgreSQL session's advisory lock | acquire, monitor each second, loss | indexer processes |
| Canonical chain store | `src/db.rs`, `migrations/0001_initial.sql` | `blocks`, `block_witnesses`, `canonical_chain`, `chain_state`, `reorg_events` | `commit_block`, `replace_canonical_branch`, `refresh_block_evidence`, `observe_node_tip`, `update_node_tip`, `mark_indexer_error` | indexer writes, API reads |
| Transaction store | `src/db.rs` 733-985 | `transaction_instances`, `block_transactions`, inputs, outputs | `insert_transaction` | called by `insert_block` |
| AuxPoW verifier | `src/auxpow.rs` | none | `verify`, `observe_parent`, `classify_observations`, proof arithmetic | node (`getauxblockstatus`), parent sources |
| Evidence | `src/db.rs` 214-249 and 620-731 | `auxpow_links`, `parent_chain_observations` | candidate selection, refresh | indexer, readiness probe, API |
| Readiness probe | `src/api.rs` 117-223, 1976-2036 | none | `ready` | `chain_state`, evidence |
| Read API | `src/api.rs` | none (readers) | `status`, `blocks`, `block`, `raw_block`, `block_auxpow`, `transactions`, `transaction`, `address`, `search`, `reorgs` | store |
| Analytics | `src/analytics.rs` | none | histories, mining statistics, rich list, address statistics | store, one snapshot per request |
| RPC client | `src/rpc.rs` | none | calls with timeouts | node, parents |
| Startup, configuration | `src/main.rs`, `src/config.rs`, `src/db.rs` 64-148 | settings; `networks` | migration, network identity, validation | everything |
| Web interface | `web/` | page state | fetches and renders | read API |

How they interact. One process holds the writer lease and repeats `sync_once`.
A pass asks the node for its tip and then makes one RPC call or one SQL
statement at a time; the node may adopt another chain or another witness of a
block between any two of them. What a pass publishes becomes visible in whole
transactions. The API shares nothing with the indexer but the database.

What is hard about it:

* *Interleaving.* Every `await` of a pass is a place where the node, another
  process or a reader may act.
* *Crashes and partial failure.* A process may die between any two commits; any
  call may time out, also a commit that took effect.
* *Identity.* A Wcash block hash does not commit to its AuxPoW witness, so
  "the same block" can come back different.
* *Leases.* The lock belongs to a database session which can die under a process
  that is still running.
* *Ageing.* Readiness depends on records being refreshed often enough, on one
  refresh per pass, and on a selection order that favours the tip.
* *Torn reads.* Most handlers run several statements, each in a snapshot of its
  own.
* *Shared rows.* Transactions are stored once for all branches and never deleted;
  every query has to start from the selected blocks.
* *Bindings.* A start writes the identity of the network before the rest of its
  settings is checked, and nodes change behind their addresses.

What makes each component correct: the published chain is always one chain of
blocks the node really had (`ChainIntegrity`, `StoredWasBest`); a rewrite is
recorded and bounded (`ReorgRecorded`, `MirrorSpec`); one writer
(`SingleWriter`); "ready" is earned (`ReadyCaughtUp`, `ReadyBacked`); the
explorer gets there and back (`Converges`, `ReadyRecovers`); evidence does not
starve (`TipEvidenceFresh`, `EveryRecordRefreshed`); an answer is about one
block or chain (`SnapshotExact`, `DetailCoherent`, `WalkExact`); what is stored is what
the node told (`StoredAsTold`), and what is computed from it is what a replay of
the chain gives (`BalanceIsReplay`, `ActivityIsReplay`, `RichListBalanced`,
`HistoryExact`, `SearchExact`); a database is of one chain per network
(`ServedIdentity`, `IdentityKept`, `MainnetFrozen`, `IndexedIsBound`) and a
quorum is one (`QuorumAsked`); the proof verified is the one in the block
(`SolutionExact`, `TargetExact`).

## 2. Modules

| Module | Models | Extends |
| --- | --- | --- |
| `BlockTree` | blocks, predecessors, witnesses, rows, tips, what a linked chain is | |
| `WcashNode` | the node (external): its best chain and the witness of each block | `BlockTree` |
| `ExplorerDb` | the tables the indexer decides by, one operator per transaction | `BlockTree` |
| `ChainMirror` | abstract specification: what readers are promised about the chain | `BlockTree` |
| `Indexer` | processes, lease, every call of `sync_once`, faults; refines `ChainMirror` | `ExplorerDb`, `WcashNode` |
| `Evidence` | clock, evidence records, refresh, parent observations, strict readiness | |
| `TxStore` | transaction instances and the positions of a block, compared when told again | `ExplorerDb` |
| `Ledger` | the queries of the API and the analytics as operators on one snapshot | `TxStore` |
| `ReadApi` | handlers statement by statement against the indexer's transactions | `Ledger` |
| `AuxPow` | the decoding of solution lengths and of compact targets | |
| `Startup` | the steps of `main`, settings, the binding of a database | |
| `MCIndexer`, `MCReadApi`, `MCStartup`, `MCEvidence` | trees, transactions, settings and byte sequences for the runs | `Indexer`, `ReadApi`, `Startup`, `Evidence` and `AuxPow` |
| `ChainLemmas` | facts about trees and the operators of `ExplorerDb` | `ExplorerDb` |
| `SumLemmas` | induction, functions defined by recursion, sums over finite sets | |
| `IndexerProofs`, `ProvenanceProofs`, `EvidenceProofs`, `StartupProofs`, `ReadApiProofs`, `LedgerProofs` | theorems and proofs | the modules they are about |

Operators named `<definition>_<what is wrong>` beside a definition are seeded
mistakes: each property is shown to notice one of them.

### BlockTree and WcashNode

A block stands for its hash. The hash commits to the predecessor, so `Parent` is
a constant function; it does not commit to the witness, which is a value of its
own. The node has a best chain `best`, which `NodeMove` replaces by any other
chain from its genesis block (longer, shorter, diverging), and a witness per
block, which `NodeRewitness` exchanges. `seen` is history: every pair of block
and witness that was ever on the best chain.

### ExplorerDb

`canon` is `canonical_chain`, `facts` the key set of `block_witnesses`, `state`
the row of `chain_state`, `lastReorg` the newest row of `reorg_events`. Each
transaction of `src/db.rs` is an operator of the same name; one that may refuse
has a predicate `<name>_ok`, and a refusal leaves the tables alone as the
rolled-back transaction does. `insert_block_ok` is the immutability check: the
columns of a block are determined by its hash, except its serialized size, which
counts the witness.

### Indexer

`pc[i]` names the next call of process `i`, `job[i]` holds the local variables
of its `sync_once`. The actions follow the code in order:

| Code | Actions |
| --- | --- |
| `run`, `acquire_writer_lock`, monitor | `acquire_writer_lock`, `LeaseBreaks`, `LeaseLossNoticed`, `Crash`, `Failed` |
| snapshot and identity (109-122) | `blockchain_info`, `tip_hash`, `validate_identity`, `read_tip`, `observe`, `compare` |
| `find_common_ancestor` (315-345) | `search` (database), `search_node` (node) |
| `fetch_indexed_block` (271-313) | `fetch`, `body`, `aux_status`, `confirm` |
| publication (150-185) | `commit`; `recheck_tip`, `recheck_ancestor`, `replace` |
| refresh and end (187-248) | `candidate`, `refresh_prev`, `refresh`, `final_tip`, `finish` |

`CallFails` lets any call fail; a commit whose answer is lost is the commit
followed by `CallFails`. `NodeRefuses` is the node having no block at a height.
Two reads that the code makes together by block hash (raw and verbose body) are
one step, `body`: if their solutions differ, since the node exchanged the witness
between them, the code refuses the block, which is `CallFails`.

`Converges` separates what the code does from what is done to it. `QuietStep` is
a step of the code while the node keeps its chain and no call, session or process
fails; a pass may still end with an error of the code's own (a search beyond the
bound, a refused block, a height the node does not have), which is recorded, and
may do so for ever. The property names the three situations in which that is the
end (`TooDeep`, `OtherNetwork`, `Unstorable`) and says that the explorer is not
reported ready in them; in every other one it ends ready at the node's tip. A
pass that keeps failing for any other reason violates it.

### Evidence

Time passes in ticks. A record holds the age of `verified_at`, the observation
of each parent source and the two classifications; `told` and `held` are
history, saying how long ago each source confirmed the parent block and the node
held the selected witness. `Pass` is a completed `sync_once`: it keeps the chain
up to a common block, selects freshly verified blocks above it, and refreshes
one candidate. The refresh asks the node by height and stores what it has there
now, so it is a refresh of the selected record only if the node is still on the
selected chain up to that height (`common`, which may drop within the pass) and
still holds the selected witness; `renewed`, history, says whether it was.
`PassFails` is a pass that stops somewhere, also after the refresh was stored.
`NodeMoves` is the node leaving the selected chain or coming back to it,
`Exchange` the node exchanging the witness of a selected block, `Reconfigure` a
restart with other parent sources. `ready` is the strict probe as a predicate.

The order of calls inside a pass is the subject of `Indexer`, not of this module.
The probe's conditions on the two tips hold after every completed pass here, and
whether the parent hash meets its claimed target, a property of the proof, is
taken to hold.

### TxStore and Ledger

A txid does not commit to the authorizing data of a transaction, so a row of
`transaction_instances` is keyed by the txid and a digest (`instance_digest`: the
auth digest since version 5, the raw hash before). `tx` holds the rows with their
inputs and outputs, `rows` the keys at the positions of each stored pair, and
`told`, history, what the node told when the pair was last stored.
`insert_transaction_ok` is the comparison with the stored row, `link_ok` that of
the positions. What is compared are the columns, inputs and outputs; the JSON object
stored beside them (`raw_rpc`) is that of the first telling and compared with
nothing, so the model keeps the pair it was told with. One database transaction may store several blocks, which share
instances; `store` takes the batch at once, and refuses it when two of its
transactions of one key differ, as the second insertion of the code does.

`Ledger` has an operator for each query, of the name of the SQL constant, on the
selectors of one snapshot. The structure of the SQL is kept where it could be
wrong: outputs joined to inputs by txid and index and not by instance, the
double-spend count, windows before or after a limit, totals before a limit, the
pool row joined through `chain_state`. `RICH_LIST_QUERY` chooses any set of the
right size when balances tie, where the code orders by address.

### ReadApi

`Publish` and `Refresh` are the indexer's transactions as readers see them, with
the transactions and the outcome of the verification stored beside each pair. A
client makes one request at a time (`req`): readers change nothing, so one is
enough. Each SQL statement of a handler is an action; `address`, `search` and
the analytics run all their statements in the snapshot that the first one fixed
(`view`). The AuxPoW rows are looked up by block and witness as the SQL does
(`AUXPOW_QUERY`), and the answer keeps the pair of the row it got. Statements of one handler that only read rows which are never deleted
and are keyed by the block and witness already found are one step (`keyed`,
`instance`). For the listings the client follows the cursors to the end.

The reference the answers are compared with is not made of the same joins:
`Entries` is the list of transactions the node told for the selected chain, in
order, and `Coins` folds over it, adding the outputs and removing the spent ones
of one transaction after the other. The transparent pool the node reports with a
block (external) is the sum of these coins.

### AuxPow

A byte has `Base` values, 256 in the code. The boundaries of the encodings stand
relative to `Base` as they do in the code, so a small `Base` has all of them.
`CompactSize` is the reference: how a node writes a length. Powers and sums of
bytes are recursive functions, so that they can be proved about. The operators have no
state; `MCEvidence` extends them beside `Evidence`, whose every selected block
has gone through them.

### Startup

Each step of `main` up to serving is an action of a process; an error, a crash
and a stop are `Ends`. From then on the module follows of each pass only what
concerns the identity of the node, one call at a time: `blockchain_info` tells
the chain name, `validate_identity` compares it and the genesis block,
`select_canonical` selects blocks of whatever chain the node has by then, any
number of calls later, and `PassEnds` is the end or the failure of the pass. The
lease may be lost under a running process (`LeaseBreaks`). `networks` is the
table, keyed by the network's id; `selected` is the genesis block below the
selected blocks of each network;
`fixed` stands for every setting but the genesis hash that is compared with the
row (the symbol is refreshed instead). Refused settings leave a process down. The
node behind the RPC address and the parent nodes change at any moment
(`WorldChanges`), also between two calls of a pass; `answered` is history, and so
is `steady`, whether a pass has spoken to one node since it began.
`IndexedIsBound` says how far a node that is exchanged after the comparison can
reach: into an empty table it brings its own genesis block, which stays until an
operator removes it, but never beside another chain, nor once a pass that spoke
to one node throughout has selected a block.

Two things the code does that are no property here. The table is keyed by the
network's id, so one database can be bound to Mainnet and Testnet at once, each
under its own rows (one lease serves both). And a Testnet start with a mistaken genesis
hash binds a fresh database before anything is asked of a node; the correct
settings are refused from then on.

## 3. Runs

Every run finishes within minutes with two workers.

| Run | Question | Bounds |
| --- | --- | --- |
| `sync` | one writer, types, one chain, provenance, caught up, recorded reorganizations, refinement of `ChainMirror` | two processes (symmetry), two branches of two blocks over genesis, another network's genesis, depth 1 |
| `live` | convergence, or an error for ever before a long divergence, a foreign node, a witness of another length | one process, two branches of one block over genesis, another network's genesis, two witnesses of different sizes, depth 0 |
| `witness` | exchanged witnesses are stored only as the node had them, across lost sessions and restarts | one process, chain of three blocks, two witnesses, symmetry |
| `evidence_ready` | ready is backed by recent facts; lengths and targets are decoded exactly | two sources, all five answers, four ticks without a pass, interval 1; bytes of six values, every length field of up to five bytes |
| `evidence_live` | the tip's evidence stays fresh, every record of the window is refreshed again, readiness comes back | two heights, interval 1, at most one tick between passes, a node that moves between and within passes, two sources that confirm |
| `readers` | answers of several statements, and cursors, against publications; the ledger against a replay | two branches over genesis, blocks of one to three transactions, pages of two, limits of one or two rows, one block with two witnesses, all twelve routes |
| `startup` | identity, frozen Mainnet, quorum | two processes (symmetry), ten settings, two parents, three network ids |

Why the bounds are enough for the cases of interest. A reorganization needs an
ancestor, a displaced block and a replacement; two branches of two blocks give
every relation between the depths: equal, longer, shorter, at the depth bound and
beyond it. Rollbacks below the stored tip, rollbacks followed by another branch,
and a chain that shares only genesis all occur. `MAX_REORG_DEPTH` is 1 (0 in
`live`) so that both the accepted and the refused search happen within two
blocks. Two processes are enough for a lease with one holder. In `Evidence` two
sources are what the quorum requires and the code supports; with an interval of 1 tick the
maximum age is 2, so that "fresh", "due" and "too old" are different ages, and ages
saturate one above the largest value the code compares with, which loses
nothing. In `evidence_live` the sources always answer "main": the other answers,
and what becomes of a record that gets one, are the subject of `evidence_ready`,
and the selection of a candidate looks only at times.
All three ends of `Converges` other than synchronization are reached in `live`: the
node settles on the other branch with a depth bound of 0, or on another genesis
block, or a block comes back with a longer witness; leaving any of them out of
the property gives a counterexample. The witness of a genesis block is one value
there (`LiveSpec`). In `readers` one block has two witnesses, which is enough for
it to be displaced and selected again with the other one; the view leaves out
the newest row of `reorg_events`, which no statement of these routes reads.
Pages of two rows end both inside and at the end of a block's transactions.

The transactions of `readers` are chosen for what can go wrong: a txid with two
instances on different branches, a coinbase output that matures one
block later, an output spent in the block that pays it, a transaction that spends and
pays one address, two transactions of one block that touch one address, an
output without an address, a transaction told with other outputs under the same
digest, and one without its digest. Activity, rich list and history limits are
below the number of rows there are. The settings of `startup` cover each rule on its
own: both networks with the right and the wrong genesis, an id without a
verifier profile, other fixed settings, no, one, two and two equal sources, with
and without indexer, quorum and migrations. `SolutionExact` and `TargetExact` are
claims about operators; the run evaluates them over every field of up to five
bytes, eight-byte fields of zeros and ones, the bodies around each boundary, and
all four-byte difficulty bits; that every other sequence of bytes is read exactly
too is a theorem. With six values per byte the lengths change their
encoding at 3, 36 and 1296, and the solution limit of 38 lies above the second
boundary as that of the code does.

`CONSTANT`s commented BOUND limit the model and not the program: `MaxHeight`,
`MaxGap`, `OfferedRow`, `Routes`.

### What the code does and its documents do not say

These runs are expected to end with a counterexample; each contradicts a
sentence quoted in `PROJECT.json`.

| Run | Shows |
| --- | --- |
| `stale_writer` | `commit_block` is not fenced by the lease. In the second before the monitor polls, a process whose session died commits above a tip that its successor rolled back, leaving a hole in the chain. |
| `rollback_depth` | The search depth counts from the lower of the two tips, so a node that went back further than `MAX_REORG_DEPTH` has the stored chain cut back all the way. |
| `witness_sizes` | The row of `blocks` is keyed by hash alone but holds the serialized size: a block that comes back with a witness of another length is refused for ever. |
| `evidence_exchange` | After the witness of the tip was exchanged, every refresh writes a record of its own; the selected one stays stale and first in the order, so nothing is refreshed until the tip moves. (A node that leaves the stored chain between the comparison and the refresh has the same effect for one pass: the pass ends `ready` without having refreshed the record it chose.) |
| `torn_answers` | An answer made of several statements need not describe one state of the database. The counterexample is a status that joins the tip of one chain with the difficulty and time of the next. The other two conjuncts of the property fail likewise: a merge-mined block is shown without AuxPoW data when it is displaced between two statements, and an aggregate parent state can come from a different verification than the observations beside it. |

### Fairness

`Indexer`: weak fairness of the steps of `sync_once`, because the poll interval
never stops and every call ends with an answer or a timeout; weak fairness of
`acquire_writer_lock`, because the systemd unit restarts the service on failure
(`src/deploy/systemd`). Nothing is assumed of the node or of faults: `Converges` is
conditional on both ceasing, not on passes succeeding.

`Evidence`: weak fairness of `Tick` and of a completed `Pass`. A pass is enabled
always, and `MaxGap` bounds the ticks between two passes; for `ReadyRecovers`
this says that the poll interval and a pass together take less than the
heartbeat's maximum age, as with the defaults (2 and 30 seconds). The
configuration does not enforce it. Both liveness properties are conditional on
rollbacks, failures and reconfigurations ceasing and on the sources confirming.

## 4. Proofs

`IndexerProofs` proves, for every block tree, every set of processes, every
depth, and all failures, crashes and node behaviours, provided that lease
sessions do not die under running processes (`~LeaseMayBreak`; with it the
integrity theorem is false, as `stale_writer` shows):

* `WriterExclusion`, `PublishedChain`, `ReadyIsCaughtUp`: `Spec => []` of
  `SingleWriter`, `ChainIntegrity` and `ReadyCaughtUp`.
* `ReorgsAreRecorded`: `Spec => ReorgRecorded`, for every step.
* What the tree and the transactions of the store do is in `ChainLemmas`, which
  `ReadApiProofs` uses as well.
* They follow from `IndexerInvariant`, the inductive invariant `IInv`. The
  properties alone are not inductive: that a commit extends the chain depends on
  what the process remembers. `IInv` adds `JobInv(i)`: at each call, what
  `job[i]` holds is related to the store. While appending, the cursor is one
  above the published tip and `prev` is its hash; while staging, the ancestor is
  a selected block and the staged rows form a chain from it up to the cursor;
  rows in hand past `aux_status` were seen on the best chain. `SingleWriter` is
  what makes these relations stable: nobody else writes between two calls.

Under the same proviso it proves that the indexer implements `ChainMirror`:

* `IndexerImplementsMirror`: `Spec => MirrorSpec`. A commit is `Extend`, a
  replacement is `Reorganize`, and every other step is `Serve` or a stutter.
* The distance between the ancestor and the lower of the two tips is tested once
  in `find_common_ancestor`, many calls before the transaction that rewrites the
  heights. `DepthInv` carries the result of the test along every call up to
  `replace`; there, a height that both chains have cannot lie above either tip,
  so at most `MaxReorgDepth` of them change.

`ProvenanceProofs` proves without that proviso, so also when processes go on
writing after their lease is lost:

* `TypeCorrect`: `Spec => []TypeOK`, and `Provenance`: `Spec => []StoredWasBest`.
* They follow from `KnowledgeInvariant`. Its invariant `KInv` says nothing about
  the tables beyond types and the property: for each process, `Knows` says what
  the rows in its hands have to do with the node's past, which no other process
  can change.

`EvidenceProofs` proves for any number of blocks and sources, any interval,
depth and maximum gap:

* `EvidenceTypeCorrect`: `Spec => []TypeOK`.
* `ReadyIsBacked`: `Spec => []ReadyBacked`. The invariant (`BackedInv`) says of
  each selected record that a source stored as canonical said so no longer ago
  than the record's age, and that the node held the selected witness no longer
  ago than that.
* `TipStaysFresh`: `Spec => []TipEvidenceFresh`, with nodes that move and
  witnesses that are exchanged. The invariant (`FreshInv`) bounds the tip's age by
  the refresh interval plus the ticks since the last completed pass, if that pass
  refreshed the record it chose or found none stale.

It also proves the decoding of `AuxPow` correct, for bytes of any number of
values that `AuxPowAssumption` allows and so for 256:

* `SolutionsReadExactly`: from every sequence of bytes `solution_from_raw_block`
  reads the solution a node has written there and refuses what no node writes, so
  `Spec => []SolutionExact`. `Accepted` and `ReadBack` are the two directions
  for the length in front of it: what is accepted is the shortest form of a
  number, and the shortest form of a number is accepted. Both split on the three
  forms, whose digits `TwoDigits`, `FourDigits` and `Digits` write out; a form of
  eight bytes cannot stand for a length within the limit.
* `TargetsReadExactly`: `compact_target` gives the whole part of the number the
  bits mean and refuses exactly the ones that mean none, so
  `Spec => []TargetExact`. `PlacedValue` says what three bytes between zeros
  stand for, `WholePart` that the bytes cut off below are the fraction.

`ReadApiProofs` proves for any block tree, any transactions the node may tell and
any routes:

* `StoredAsToldHolds`, `DetailCoherentHolds`, `SearchExactHolds`: `Spec => []` of
  `StoredAsTold`, `DetailCoherent`, `SearchExact`.
* `WalkExactHolds`: `Spec => []WalkExact`. Whoever follows the cursors never gets
  a row twice or out of order, also across a replacement of the chain; if blocks
  were only appended meanwhile, the pages together are the whole list below the
  row it started from. `WalkInv` says of the rows returned so far that the cursor
  stands at the last of them and that none between was passed over.
* The invariant is `IInv == TableInv /\ ReqInv`. `TableInv` says that the
  selectors form a chain whose blocks are all stored, and that the stored rows
  read back as told; it is preserved because every step keeps the rows of stored
  blocks as they are (`Kept`), which rests on the comparison in
  `insert_transaction_ok`. `ReqInv` says which statement each route may be at,
  that the block in hand is stored, and that the view is of stored blocks; `Kept`
  makes what an earlier statement read true of every later state. That an AuxPoW
  row is of the witness in hand rests on the keys of `AUXPOW_QUERY`, that a raw
  object is of a block with the instance shown on `keep_raw_rpc`.

`LedgerProofs` proves, with the same generality and for any amounts, addresses,
limits and lengths of chains, that what the SQL statements compute from the
stored rows is what a replay of the selected chain gives:

* `BalanceIsReplayHolds`: the totals of an address; `HistoryExactHolds`: the
  points of a history, also when what they depend on is outside the page;
  `ActivityIsReplayHolds`: which transactions are listed and the balance after
  each; `SnapshotExactHolds`: the statements of one answer describe one chain;
  `RichListBalancedHolds`: what addresses own and what no address owns is the
  node's pool, the ranked addresses are the richest, and no share exceeds the
  whole.
* The invariant is `AInv == IInv /\ ToldInv /\ AnswerInv`. `AnswerInv` says what
  each statement already made has read, as a function of `TxsOf(req.view)`, the
  transactions the node told with the blocks of the snapshot. A step of the
  indexer changes the chain but not what was told with a stored block, so
  `TxsOf(req.view)` stays and with it everything the answer holds.
* That a sum over rows grouped by the code in one way is the replay's sum in
  another way is shown with the lemmas of `SumLemmas`. They state induction over
  a set of numbers, induction over the subsets of a finite set and definition
  by recursion about sets and functions, so that the provers can use them: the
  replay is the recursive function `Replay`, one transaction after the other in
  the order of `Entries`, and each total satisfies the same recursion.
* `ToldInv` says that every stored block holds a list the node tells of it. Two
  assumptions are about the node and not about this code.
  `ContentsAssumption`: it tells lists of transactions whose amounts are not
  negative. `ConsensusAssumption`: on one chain no txid occurs twice, an output
  is spent by a later transaction, and nothing is spent twice (`OneLedger`).
  Without the second, no arithmetic on stored rows agrees with a replay.

`StartupProofs` proves for any number of processes and any settings:

* `ServedIdentityHolds`, `MainnetStaysFrozen`, `IndexedChainIsBound`,
  `QuorumIsAsked`: `Spec => []` of the four invariants, and `IdentityIsKept`:
  `Spec => IdentityKept`.
* The invariant says of each process what it has passed (`Passed`): once bound,
  its settings agree with the table, which stays so because no other process can
  change that part of a row; once validated, every source has answered. Of a pass
  (`KnowsNode`) it says that, while the pass is steady, what the node was found
  to be is what it still is. That two configured sources are two is shown with the cardinality of an injection.

Each proof uses only the `ASSUME`s of the modules (shape of the tree, natural
numbers, the sorts of settings), which TLC evaluates in the runs.

Every invariant and every action property of the runs is proved. Only
model-checked are the liveness properties `Converges`, `EveryRecordRefreshed` and
`ReadyRecovers`: temporal reasoning under fairness, which needs `ENABLED`, is
outside the prover. The runs that end with a counterexample need no proof.

## 5. Not modelled

* The connection pool and the request limits: their queues are those of external
  libraries and the code sets sizes only. No request waits for a connection
  while it holds one, and a call of the indexer that times out waiting for one is
  `CallFails`.
* Of the read API: `reorgs` (one statement), the optional block of the
  transaction route, a search by height, the reward shown with a block, and the
  formatting of amounts. Of the analytics: `value_pool_history` and
  `merge_mining_stats`, which copy and count stored columns in one snapshot, and
  the shares of the top ranks.
* The proof that `verify` decodes (Merkle branches, hashes, rules per height):
  the `wcash-zcash-aux` crate checks it, and only its outcome is represented.
* Parsing of the environment, RPC credentials, request framing.
* Shielded data: the counts of spends, outputs and actions are stored and compared
  like the columns that are represented, and so are the raw bytes; nullifiers are
  not stored in columns and compared only as part of these.
* The OpenAPI document, response shapes, the web interface and deployment files
  have no behaviour that these questions are about; the restart policy of the
  supervisor justifies a fairness assumption.
* A node that is exchanged for one of another network in the middle of a pass is
  the subject of `Startup`, for the genesis block below the selected chain only.
  The node of `Indexer` keeps its genesis block, right or wrong.
