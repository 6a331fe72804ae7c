------------------------------ MODULE MCReadApi ------------------------------
(***************************************************************************)
(* The block tree and the transactions for model checking the readers:     *)
(*                                                                         *)
(*    g - a1 - a2        T, two instances of one txid, pays alice and a    *)
(*     \- b1 - b2        script without an address; U spends alice's part  *)
(*                       and pays bob and alice; V spends U in its block.  *)
(***************************************************************************)
EXTENDS ReadApi

ForkBlocks == {"g", "a1", "a2", "b1", "b2"}
ForkParent ==
    [b \in ForkBlocks |->
        CASE b = "g" -> "none"
          [] b \in {"a1", "b1"} -> "g"
          [] b = "a2" -> "a1"
          [] b = "b2" -> "b1"]

OneSize == [w \in Witness |-> 1]

Pays(v, a) == [value |-> v, address |-> a]

Coinbase(id, a) ==
    [txid |-> id, version |-> 4, auth |-> NoDigest, raw |-> id, coinbase |-> TRUE,
     spends |-> {}, outs |-> <<Pays(4, a)>>]

\* A transaction from the shielded pool; the txid does not commit to `auth'.
T(auth) ==
    [txid |-> "T", version |-> 5, auth |-> auth, raw |-> auth, coinbase |-> FALSE,
     spends |-> {}, outs |-> <<Pays(3, "alice"), Pays(1, NoAddress)>>]
U ==
    [txid |-> "U", version |-> 5, auth |-> "u", raw |-> "u", coinbase |-> FALSE,
     spends |-> {<<"T", 1>>}, outs |-> <<Pays(2, "bob"), Pays(1, "alice")>>]
\* U told with other outputs under the same digest.
ChangedU == [U EXCEPT !.outs = <<Pays(1, "bob"), Pays(2, "alice")>>]
V ==
    [txid |-> "V", version |-> 4, auth |-> NoDigest, raw |-> "v", coinbase |-> FALSE,
     spends |-> {<<"U", 1>>}, outs |-> <<Pays(2, "alice")>>]

ForkContents ==
    [b \in ForkBlocks |->
        CASE b = "g" -> {<<Coinbase("cg", "bob")>>}
          [] b = "a1" -> {<<Coinbase("ca1", "alice"), T("t1")>>}
          [] b = "a2" -> {<<Coinbase("ca2", "bob"), U, V>>}
          [] b = "b1" -> {<<Coinbase("cb1", "alice")>>}
          [] b = "b2" -> {<<Coinbase("cb2", "bob"), T("t2"), u>> : u \in {U, ChangedU}}
                         \cup {<<Coinbase("cb2", "bob"), T(NoDigest), U>>}]

\* One block comes with either of two witnesses, the others with one.
ForkRows ==
    [hash : ForkBlocks, wit : {"w1"}] \cup [hash : {"a2"}, wit : Witness]

\* No statement of these routes reads reorg_events.
WithoutReorgEvents == <<canon, facts, state, txVars, evid, req>>

PlainContents == [b \in ForkBlocks |-> {<<Coinbase(b, "bob")>>}]
==============================================================================
