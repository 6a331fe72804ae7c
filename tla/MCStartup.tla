------------------------------ MODULE MCStartup ------------------------------
(***************************************************************************)
(* Settings for model checking: the two networks with the right and with a *)
(* wrong genesis, an unknown network, other fixed settings, and the ways   *)
(* to configure parent sources.                                            *)
(***************************************************************************)
EXTENDS Startup, TLC

Base ==
    [id |-> "testnet", genesis |-> "gt", fixed |-> "std", symbol |-> "TWC",
     parents |-> <<"u1", "u2">>, run_indexer |-> TRUE, quorum |-> TRUE, migrate |-> TRUE]

Mainnet == [Base EXCEPT !.id = "mainnet", !.genesis = "gm"]

SomeSettings ==
    {Base,
     [Base EXCEPT !.genesis = "gm"],
     [Base EXCEPT !.fixed = "alt", !.symbol = "T"],
     [Base EXCEPT !.parents = <<"u1">>],
     [Base EXCEPT !.parents = <<"u1", "u1">>],
     [Base EXCEPT !.parents = <<"u1">>, !.quorum = FALSE, !.migrate = FALSE],
     [Base EXCEPT !.parents = <<>>, !.run_indexer = FALSE],
     Mainnet,
     [Mainnet EXCEPT !.genesis = "gt"],
     [Base EXCEPT !.id = "devnet"]}

Swaps == Permutations(Process)
==============================================================================
