-------------------------------- MODULE Ledger --------------------------------
(***************************************************************************)
(* The transparent ledger as the SQL of the read API and of the analytics  *)
(* computes it (src/api.rs, src/analytics.rs): the queries are operators   *)
(* on the selectors of one snapshot, `sel', and join them with the stored  *)
(* transactions.  Nothing is kept per address: every query starts from the *)
(* outputs and inputs of the selected blocks.                              *)
(*                                                                         *)
(* Left out: the block times, the columns that are copied into the answer, *)
(* and the casts to 64 bits.                                               *)
(***************************************************************************)
EXTENDS TxStore, FiniteSetsExt, SequencesExt

CONSTANTS
    Address,        \* decoded transparent addresses
    Maturity,       \* coinbase_maturity of the network
    ActivityLimit,  \* LIMIT of ADDRESS_ACTIVITY_QUERY (100)
    RichLimit,      \* limit of a rich list request
    HistoryLimit,   \* history_limit of a history request
    PercentScale    \* 100 percent in the units of exact_percent

ASSUME LedgerAssumption ==
    /\ NoAddress \notin Address
    /\ {Maturity, ActivityLimit, RichLimit, HistoryLimit, PercentScale} \subseteq Nat \ {0}

\* The node tells lists of transactions, whose outputs are lists too, with
\* amounts that are not negative (a CHECK of transparent_outputs).
ASSUME ContentsAssumption ==
    \A b \in Block : \A c \in Contents[b] :
        /\ c \in Seq(ToSet(c))
        /\ \A n \in DOMAIN c :
              c[n].outs \in Seq([value : Nat, address : Address \cup {NoAddress}])

Before(a, b) == a[1] < b[1] \/ (a[1] = b[1] /\ a[2] < b[2])
Place(r) == <<r.height, r.pos>>

\* External, the consensus of the node: on a chain from the genesis block no
\* txid occurs twice, an output is spent by a later transaction, and nothing is
\* spent twice, whatever the node tells of the authorizing data.
OneLedger(txs) ==
    \A e, f \in txs :
        /\ e.t.txid = f.t.txid => e = f
        /\ \A n \in DOMAIN f.t.outs : <<f.t.txid, n>> \in e.t.spends => Before(Place(f), Place(e))
        /\ e.t.spends \cap f.t.spends # {} => e = f

ASSUME ConsensusAssumption ==
    \A top \in Heights : \A chain \in [0..top -> Block] :
        chain[0] = Genesis /\ (\A h \in 1..top : Parent[chain[h]] = chain[h - 1]) =>
           \A c \in [0..top -> UNION {Contents[chain[h]] : h \in 0..top}] :
              (\A h \in 0..top : c[h] \in Contents[chain[h]]) =>
                 OneLedger(UNION {{[height |-> h, pos |-> n, t |-> c[h][n]] : n \in DOMAIN c[h]} :
                                     h \in 0..top})

\* The transactions of the selected blocks, with their places.
canonical_tx(sel) ==
    UNION {{[height |-> s.height, pos |-> n, key |-> rows[<<s.hash, s.wit>>][n]] :
               n \in DOMAIN rows[<<s.hash, s.wit>>]} : s \in sel}

\* The outputs of some transactions, addressed or not.
outputs(txs) ==
    UNION {{[height |-> r.height, pos |-> r.pos, txid |-> tx[r.key].txid,
             coinbase |-> tx[r.key].coinbase, index |-> n,
             value |-> tx[r.key].outs[n].value, address |-> tx[r.key].outs[n].address] :
               n \in DOMAIN tx[r.key].outs} : r \in txs}

owned_outputs(sel, a) == {o \in outputs(canonical_tx(sel)) : o.address = a}

Prevout(o) == <<o.txid, o.index>>

Spends(r, o) == Prevout(o) \in tx[r.key].spends

\* canonical_spends: selected inputs that name the output, counted once for
\* every selected output of that name.
spend_count(sel, o) ==
    Cardinality({q \in outputs(canonical_tx(sel)) : Prevout(q) = Prevout(o)}
                \X {r \in canonical_tx(sel) : Spends(r, o)})

SumValues(outs) == SumFunction([o \in outs |-> o.value])

\* event_keys: the places of the transactions that pay the address or spend
\* one of its outputs.
event_keys(sel, a) ==
    LET owned == owned_outputs(sel, a) IN
    {Place(r) : r \in {t \in canonical_tx(sel) :
                          \E o \in owned : Place(o) = Place(t) \/ Spends(t, o)}}

\* Mutant: the age of an output is one block short.
immature_short(o, tip) == o.coinbase /\ tip - o.height < Maturity

immature(o, tip) == o.coinbase /\ tip - o.height + 1 < Maturity

ADDRESS_BALANCE_QUERY(sel, a, tip) ==
    LET owned == owned_outputs(sel, a)
        unspent == {o \in owned : spend_count(sel, o) = 0}
        events == event_keys(sel, a)
    IN
    [exists |-> owned # {},
     total_received |-> SumValues(owned),
     total_spent |-> SumValues(owned \ unspent),
     balance |-> SumValues(unspent),
     immature_coinbase |-> SumValues({o \in unspent : immature(o, tip)}),
     mature_coinbase |-> SumValues({o \in unspent : o.coinbase /\ ~immature(o, tip)}),
     non_coinbase |-> SumValues({o \in unspent : ~o.coinbase}),
     utxo_count |-> Cardinality(unspent),
     mined_output_count |-> Cardinality({o \in owned : o.coinbase}),
     mined_transaction_count |-> Cardinality({Place(o) : o \in {q \in owned : q.coinbase}}),
     transaction_count |-> Cardinality(events),
     first_seen |-> {e[1] : e \in {f \in events : \A g \in events : ~Before(g, f)}},
     last_seen |-> {e[1] : e \in {f \in events : \A g \in events : ~Before(f, g)}},
     anomalies |-> SumFunction([o \in owned |-> Max({spend_count(sel, o) - 1, 0})])]

\* Mutant: the window runs over the rows of the page.
ADDRESS_ACTIVITY_QUERY_page_window(sel, a) ==
    LET owned == owned_outputs(sel, a)
        at(p) == CHOOSE r \in canonical_tx(sel) : Place(r) = p
        net(p) == SumValues({o \in owned : Place(o) = p})
                  - SumValues({o \in owned : Spends(at(p), o)})
        events == event_keys(sel, a)
        recent == {p \in events : Cardinality({q \in events : Before(p, q)}) < ActivityLimit}
    IN
    {[place |-> p,
      received |-> SumValues({o \in owned : Place(o) = p}),
      spent |-> SumValues({o \in owned : Spends(at(p), o)}),
      balance_after |-> SumFunction([q \in {e \in recent : ~Before(p, e)} |-> net(q)])] : p \in recent}

\* Received and spent per transaction; the running balance is a window over
\* all of them, and the newest are returned.
ADDRESS_ACTIVITY_QUERY(sel, a) ==
    LET owned == owned_outputs(sel, a)
        at(p) == CHOOSE r \in canonical_tx(sel) : Place(r) = p
        received(p) == SumValues({o \in owned : Place(o) = p})
        spent(p) == SumValues({o \in owned : Spends(at(p), o)})
        net(p) == received(p) - spent(p)
        events == event_keys(sel, a)
    IN
    {[place |-> p, received |-> received(p), spent |-> spent(p),
      balance_after |-> SumFunction([q \in {e \in events : ~Before(p, e)} |-> net(q)])] :
        p \in {q \in events : Cardinality({e \in events : Before(q, e)}) < ActivityLimit}}

------------------------------------------------------------------------------
(***************************************************************************)
(* The analytics.                                                          *)
(***************************************************************************)

\* spent_prevouts, and the outputs of `utxos': addressed and not spent.
spent_prevouts(sel) == UNION {tx[r.key].spends : r \in canonical_tx(sel)}

Addressed(sel) == {o \in outputs(canonical_tx(sel)) : o.address # NoAddress}

\* Mutant: outputs without a decoded address are ranked like an address.
utxos_addressless(sel) ==
    {o \in outputs(canonical_tx(sel)) : Prevout(o) \notin spent_prevouts(sel)}

utxos(sel) == {o \in Addressed(sel) : Prevout(o) \notin spent_prevouts(sel)}

\* `balances': the addresses with a positive sum.
balances(sel) ==
    LET sum(a) == SumValues({o \in utxos(sel) : o.address = a})
    IN  [a \in {b \in {o.address : o \in utxos(sel)} : sum(b) > 0} |-> sum(a)]

AddressedBalance(sel) == SumFunction(balances(sel))

\* `activity_events' of the analytics: the addresses a transaction touches,
\* found from the transaction instead of from the address.
events(sel) ==
    UNION {{[address |-> o.address, height |-> r.height, place |-> Place(r)] :
               o \in {q \in Addressed(sel) : Place(q) = Place(r) \/ Spends(r, q)}} :
           r \in canonical_tx(sel)}

\* exact_percent, with the scale as a constant.
exact_percent(n, d) == IF d <= 0 THEN 0 ELSE (n * PercentScale) \div d

\* LATEST_TRANSPARENT_POOL_QUERY: the pool of the block at the indexed tip, as
\* the node told it with that block; NoPool unless that block is selected.
NoPool == -1
LATEST_TRANSPARENT_POOL_QUERY(sel, tip, pool) ==
    IF \E s \in sel : s.height = tip.height /\ s.hash = tip.hash THEN pool ELSE NoPool

\* unassigned_transparent_balance: what no address owns; an error when the
\* addresses own more than there is.
PoolError == -2
unassigned_transparent_balance(pool, addressed) ==
    IF pool = NoPool THEN NoPool ELSE IF pool >= addressed THEN pool - addressed ELSE PoolError

\* RICH_LIST_QUERY and rich_list: the totals are taken over all rows before
\* the limit; without a row they are zero.
RICH_LIST_QUERY(sel) ==
    LET b == balances(sel)
        all == events(sel)
        ahead(a) == {c \in DOMAIN b : b[c] > b[a]}
        total(outs, a) == SumValues({o \in outs : o.address = a})
        listed == CHOOSE S \in SUBSET DOMAIN b :
                     /\ Cardinality(S) = Min({RichLimit, Cardinality(DOMAIN b)})
                     /\ \A a \in S : ahead(a) \subseteq S
    IN
    [funded_address_count |-> Cardinality(DOMAIN b),
     addressed_balance |-> AddressedBalance(sel),
     rows |-> {[address |-> a, balance |-> b[a],
                total_received |-> total(Addressed(sel), a),
                total_sent |-> total(Addressed(sel) \ utxos(sel), a),
                utxo_count |-> Cardinality({o \in utxos(sel) : o.address = a}),
                transaction_count |-> Cardinality({e \in all : e.address = a})] : a \in listed}]

\* The rows of a history request: the newest HistoryLimit selected blocks
\* below `before', with one more in the window.
Newest(sel, limit) == {s \in sel : Cardinality({t \in sel : t.height > s.height}) < limit}

\* Mutant: the limit is applied before the window.
HistoryWindow_exact(sel) == Newest(sel, HistoryLimit)

HistoryWindow(sel) == Newest(sel, HistoryLimit + 1)

\* NETWORK_HISTORY_QUERY: each point with the block LAG finds before it.
NETWORK_HISTORY_QUERY(sel) ==
    LET window == HistoryWindow(sel)
        lag(s) == {t \in window : t.height < s.height
                                  /\ \A u \in window : u.height < s.height => u.height <= t.height}
    IN {[height |-> s.height, hash |-> s.hash, lag |-> {t.hash : t \in lag(s)}] :
           s \in Newest(sel, HistoryLimit)}

\* ADDRESS_STATS_QUERY: the addresses active and new at each selected height.
ADDRESS_STATS_QUERY(sel) ==
    LET all == events(sel)
        first(a) == Min({e.height : e \in {f \in all : f.address = a}})
        new(h) == {a \in {e.address : e \in all} : first(a) = h}
    IN {[height |-> s.height,
         active |-> Cardinality({e.address : e \in {f \in all : f.height = s.height}}),
         new |-> Cardinality(new(s.height)),
         total_seen |-> SumFunction([t \in {u \in sel : u.height <= s.height} |->
                                        Cardinality(new(t.height))])] :
           s \in Newest(sel, HistoryLimit)}

\* CURRENT_ADDRESS_STATS_QUERY.
CURRENT_ADDRESS_STATS_QUERY(sel) ==
    [funded |-> Cardinality(DOMAIN balances(sel)),
     seen |-> Cardinality({o.address : o \in Addressed(sel)}),
     addressed_balance |-> AddressedBalance(sel)]
==============================================================================
