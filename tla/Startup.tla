------------------------------- MODULE Startup -------------------------------
(***************************************************************************)
(* Starting a process (src/main.rs) from its settings (src/config.rs)      *)
(* against a database that other processes, older settings and refused     *)
(* starts have used before, with nodes that may be exchanged behind their  *)
(* addresses at any moment.                                                *)
(*                                                                         *)
(* The steps before the API is served are actions of their own: a process  *)
(* may die between them, and several processes may start at once.  `fixed' *)
(* stands for the settings other than the genesis hash that are compared   *)
(* with the stored row (name, maturity, spacing, emission).                *)
(*                                                                         *)
(* Of the chain a process then indexes only the genesis block matters here *)
(* (Indexer has the others): blocks are selected above a selected parent,  *)
(* and find_common_ancestor gives up when the genesis blocks differ.       *)
(***************************************************************************)
EXTENDS Integers, FiniteSets, Sequences

CONSTANTS
    Process,
    Settings,        \* what an operator may configure
    NetworkId,       \* values of WCASH_NETWORK
    GenesisHash,
    MainnetGenesis,  \* WCASH_MAINNET_GENESIS_HASH
    Source,          \* addresses of parent nodes
    None             \* no process, no settings

ChainName(id) ==
    CASE id = "mainnet" -> "main"
      [] id = "testnet" -> "test"
      [] OTHER -> id

ASSUME StartupAssumption ==
    /\ {"mainnet", "testnet"} \subseteq NetworkId
    /\ MainnetGenesis \in GenesisHash
    /\ None \notin Process
    /\ \A s \in Settings :
          /\ s.id \in NetworkId /\ s.genesis \in GenesisHash
          /\ s.parents \in Seq(Source)
          /\ {s.run_indexer, s.quorum, s.migrate} \subseteq BOOLEAN

VARIABLES
    networks,  \* the table: network id -> [genesis, fixed, symbol]
    migrated,  \* the tables exist
    selected,  \* network id -> the genesis block below its selected blocks
    indexed,   \* history: [id, node]: blocks selected by a pass that was steady
    lease,     \* the process that holds the writer lease
    phase,     \* how far each process has come
    conf,      \* its settings; None when it is down
    answered,  \* history: sources that answered as expected since it started
    pass,      \* how far its pass is, the chain name it was told, and, a
               \* history, whether it spoke to one node since the pass began
    node       \* external: the chain behind WCASH_RPC_URL

dbVars == <<networks, migrated, selected, indexed>>
vars == <<dbVars, lease, phase, conf, answered, pass, node>>

Phase == {"down", "connected", "prepared", "bound", "validated", "serving", "spawned", "indexing"}

NodeIdentity == [chain : {ChainName(id) : id \in NetworkId}, genesis : GenesisHash]

NoPass == [at |-> "idle", chain |-> "", steady |-> TRUE]

Init ==
    /\ networks = [id \in {} |-> None] /\ migrated = FALSE
    /\ selected = [id \in {} |-> None] /\ indexed = {}
    /\ lease = None
    /\ phase = [p \in Process |-> "down"]
    /\ conf = [p \in Process |-> None]
    /\ answered = [p \in Process |-> {}]
    /\ pass = [p \in Process |-> NoPass]
    /\ node \in NodeIdentity

Sources(s) == {s.parents[n] : n \in DOMAIN s.parents}

------------------------------------------------------------------------------
(***************************************************************************)
(* Settings.                                                               *)
(***************************************************************************)
\* Mutant: Mainnet takes any genesis.
validate_mainnet_genesis_any(s) == TRUE

validate_mainnet_genesis(s) == s.id = "mainnet" => s.genesis = MainnetGenesis

\* The endpoints must differ.
DistinctParents(s) ==
    \A i, j \in DOMAIN s.parents : s.parents[i] = s.parents[j] => i = j

\* Mutant: an off-by-one in the quorum.
validate_parent_configuration_one(s) ==
    s.run_indexer /\ s.quorum => Len(s.parents) >= 1

validate_parent_configuration(s) ==
    s.run_indexer /\ s.quorum => Len(s.parents) >= 2

from_env_ok(s) ==
    validate_mainnet_genesis(s) /\ DistinctParents(s) /\ validate_parent_configuration(s)

\* AuxPowVerifier::new knows two profiles; that of Mainnet has its genesis.
consensus_network_ok(s) ==
    /\ s.id \in {"mainnet", "testnet"}
    /\ s.id = "mainnet" => s.genesis = MainnetGenesis

------------------------------------------------------------------------------
(***************************************************************************)
(* The steps of main.                                                      *)
(***************************************************************************)
Step(p, from, to) == phase[p] = from /\ phase' = [phase EXCEPT ![p] = to]

Released(p) == IF lease = p THEN None ELSE lease

\* The process ends: an error in main, a crash, a stop.  Its session goes.
Ends(p) ==
    /\ phase[p] # "down"
    /\ phase' = [phase EXCEPT ![p] = "down"]
    /\ lease' = Released(p)
    /\ conf' = [conf EXCEPT ![p] = None]
    /\ answered' = [answered EXCEPT ![p] = {}]
    /\ pass' = [pass EXCEPT ![p] = NoPass]
    /\ UNCHANGED <<dbVars, node>>

\* Config::from_env and Database::connect.  Settings that are refused leave
\* the process down.
start(p) ==
    /\ Step(p, "down", "connected")
    /\ \E s \in Settings : from_env_ok(s) /\ conf' = [conf EXCEPT ![p] = s]
    /\ UNCHANGED <<dbVars, lease, answered, pass, node>>

migrate(p) ==
    /\ Step(p, "connected", "prepared")
    /\ migrated' = (migrated \/ conf[p].migrate)
    /\ UNCHANGED <<networks, selected, indexed, lease, conf, answered, pass, node>>

\* Mutant: the row is overwritten with the settings.
initialize_network_upserts(p) ==
    LET s == conf[p] IN
    /\ migrated /\ Step(p, "prepared", "bound")
    /\ networks' = [id \in DOMAIN networks \cup {s.id} |->
                       IF id = s.id
                       THEN [genesis |-> s.genesis, fixed |-> s.fixed, symbol |-> s.symbol]
                       ELSE networks[id]]
    /\ UNCHANGED <<migrated, selected, indexed, lease, conf, answered, pass, node>>

\* Mutant: a row that is there already is not compared.
initialize_network_uncompared(p) ==
    LET s == conf[p] IN
    /\ migrated /\ Step(p, "prepared", "bound")
    /\ networks' = [id \in DOMAIN networks \cup {s.id} |->
                       IF id \in DOMAIN networks THEN networks[id]
                       ELSE [genesis |-> s.genesis, fixed |-> s.fixed, symbol |-> s.symbol]]
    /\ UNCHANGED <<migrated, selected, indexed, lease, conf, answered, pass, node>>

\* initialize_network, one transaction: insert the row unless there is one,
\* compare everything but the symbol, take over the symbol.  The chain_state
\* row it adds is the initial state of the other modules.
initialize_network(p) ==
    LET s == conf[p] IN
    /\ migrated /\ Step(p, "prepared", "bound")
    /\ s.id \in DOMAIN networks =>
          networks[s.id].genesis = s.genesis /\ networks[s.id].fixed = s.fixed
    /\ networks' = [id \in DOMAIN networks \cup {s.id} |->
                       IF id = s.id
                       THEN [genesis |-> s.genesis, fixed |-> s.fixed, symbol |-> s.symbol]
                       ELSE networks[id]]
    /\ UNCHANGED <<migrated, selected, indexed, lease, conf, answered, pass, node>>

\* validate_chain_identity of one parent, when the process will index.  Any
\* parent may be the expected chain at this moment; if it is not, main ends,
\* which is Ends.
validate_chain_identity(p) ==
    /\ phase[p] = "bound" /\ conf[p].run_indexer
    /\ \E u \in Sources(conf[p]) \ answered[p] :
          answered' = [answered EXCEPT ![p] = @ \cup {u}]
    /\ UNCHANGED <<dbVars, lease, phase, conf, pass, node>>

\* AuxPowVerifier::new, after the loop over the parents.
bind_verifier(p) ==
    /\ Step(p, "bound", "validated")
    /\ conf[p].run_indexer => Sources(conf[p]) \subseteq answered[p]
    /\ consensus_network_ok(conf[p])
    /\ UNCHANGED <<dbVars, lease, conf, answered, pass, node>>

\* The indexer task is spawned and the API is served.
serve(p) ==
    /\ Step(p, "validated", IF conf[p].run_indexer THEN "spawned" ELSE "serving")
    /\ UNCHANGED <<dbVars, lease, conf, answered, pass, node>>

\* acquire_writer_lock: one lease for all networks of a database.  Without it
\* the indexer returns an error and main ends, which is Ends.
acquire_writer_lock(p) ==
    /\ lease = None /\ Step(p, "spawned", "indexing")
    /\ lease' = p
    /\ UNCHANGED <<dbVars, conf, answered, pass, node>>

\* The session of the lease is cut off while its process still runs; the
\* process ends when its monitor notices, which is Ends.
LeaseBreaks ==
    /\ lease # None /\ lease' = None
    /\ UNCHANGED <<dbVars, phase, conf, answered, pass, node>>

InPass(p, from, to) ==
    /\ phase[p] = "indexing" /\ pass[p].at = from
    /\ pass' = [pass EXCEPT ![p].at = to]
    /\ UNCHANGED <<networks, migrated, lease, phase, conf, answered, node>>

\* The first call of sync_once tells the chain name.
blockchain_info(p) ==
    /\ phase[p] = "indexing" /\ pass[p].at = "idle"
    /\ pass' = [pass EXCEPT ![p] = [at |-> "asked", chain |-> node.chain, steady |-> TRUE]]
    /\ UNCHANGED <<dbVars, lease, phase, conf, answered, node>>

\* Mutant: the node is known by its chain name.
validate_identity_ok_by_name(p) == pass[p].chain = ChainName(conf[p].id)

\* The genesis block is asked for now, the name was told before.
validate_identity_ok(p) ==
    node.genesis = conf[p].genesis /\ pass[p].chain = ChainName(conf[p].id)

\* Once in each pass.
validate_identity(p) ==
    /\ InPass(p, "asked", "checked") /\ validate_identity_ok(p)
    /\ UNCHANGED <<selected, indexed>>

\* commit_block or replace_canonical_branch, many calls later: blocks of the
\* node as it is then are selected, the genesis block if there is none yet.
select_canonical(p) ==
    LET id == conf[p].id IN
    /\ InPass(p, "checked", "checked")
    /\ id \in DOMAIN selected => selected[id] = node.genesis
    /\ selected' = [n \in DOMAIN selected \cup {id} |->
                       IF n = id THEN node.genesis ELSE selected[n]]
    /\ indexed' = IF pass[p].steady THEN indexed \cup {[id |-> id, node |-> node]} ELSE indexed

\* A pass is over, or fails at any of its calls.
PassEnds(p) ==
    /\ pass[p].at # "idle" /\ pass' = [pass EXCEPT ![p] = NoPass]
    /\ UNCHANGED <<dbVars, lease, phase, conf, answered, node>>

\* Another node answers at the address.
WorldChanges ==
    /\ node' \in NodeIdentity \ {node}
    /\ pass' = [p \in Process |->
                  IF pass[p].at = "idle" THEN pass[p] ELSE [pass[p] EXCEPT !.steady = FALSE]]
    /\ UNCHANGED <<dbVars, lease, phase, conf, answered>>

Next ==
    \/ \E p \in Process :
          \/ start(p) \/ migrate(p) \/ initialize_network(p) \/ validate_chain_identity(p)
          \/ bind_verifier(p) \/ serve(p) \/ acquire_writer_lock(p) \/ Ends(p)
          \/ blockchain_info(p) \/ validate_identity(p) \/ select_canonical(p) \/ PassEnds(p)
    \/ LeaseBreaks
    \/ WorldChanges

Spec == Init /\ [][Next]_vars

------------------------------------------------------------------------------
Serves(p) == phase[p] \in {"serving", "spawned", "indexing"}

\* Whatever starts succeed, fail or die beside it, a process that answers
\* requests answers them with the genesis, maturity and emission its database
\* was bound to, also when the binding was made by another process.
ServedIdentity ==
    \A p \in Process : Serves(p) =>
        /\ conf[p].id \in DOMAIN networks
        /\ networks[conf[p].id].genesis = conf[p].genesis
        /\ networks[conf[p].id].fixed = conf[p].fixed

\* A database that once was bound stays bound to that identity: no later start
\* changes or removes what identifies a chain, only its symbol.
IdentityKept ==
    [][\A id \in DOMAIN networks :
          /\ id \in DOMAIN networks'
          /\ networks'[id].genesis = networks[id].genesis
          /\ networks'[id].fixed = networks[id].fixed]_vars

\* The database is bound before the verifier is, so a refused start leaves its
\* binding behind; still Mainnet is never bound to another genesis.
MainnetFrozen ==
    "mainnet" \in DOMAIN networks => networks["mainnet"].genesis = MainnetGenesis

\* Under a network blocks of one chain are selected, and it is the chain the
\* network is bound to as soon as one of them was selected by a pass that spoke
\* to one node until then, whoever made the binding and whichever nodes answer
\* within other passes.  (A node that is exchanged after the comparison brings
\* in another chain while nothing is selected yet.)
IndexedIsBound ==
    /\ DOMAIN selected \subseteq DOMAIN networks \cap {"mainnet", "testnet"}
    /\ \A r \in indexed :
          /\ r.id \in DOMAIN selected
          /\ selected[r.id] = r.node.genesis
          /\ networks[r.id].genesis = r.node.genesis
          /\ r.node.chain = ChainName(r.id)

\* A process that indexes under a required quorum has asked two different
\* sources since it started and both were the expected parent chain; one that
\* indexes with any source has asked all of them.
QuorumAsked ==
    \A p \in Process : phase[p] = "indexing" =>
        /\ Sources(conf[p]) \subseteq answered[p]
        /\ conf[p].quorum => Cardinality(answered[p]) >= 2
==============================================================================
