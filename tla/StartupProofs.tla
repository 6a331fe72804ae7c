---------------------------- MODULE StartupProofs ----------------------------
(***************************************************************************)
(* The properties of Startup, for any number of processes, any settings an *)
(* operator may try in any order, and any behaviour of the nodes.          *)
(***************************************************************************)
EXTENDS Startup, FiniteSetTheorems, TLAPS

ChainNames == {ChainName(id) : id \in NetworkId} \cup {""}

TypeInv ==
    /\ phase \in [Process -> Phase]
    /\ conf \in [Process -> Settings \cup {None}]
    /\ answered \in [Process -> SUBSET Source]
    /\ pass \in [Process -> [at : {"idle", "asked", "checked"}, chain : ChainNames, steady : BOOLEAN]]
    /\ node \in NodeIdentity

\* The identity of network id is that of the settings s.
Binds(id, s) ==
    id \in DOMAIN networks /\ networks[id].genesis = s.genesis /\ networks[id].fixed = s.fixed

BoundPhase == {"bound", "validated", "serving", "spawned", "indexing"}
ValidPhase == {"validated", "serving", "spawned", "indexing"}

\* What a pass that spoke to one node knows of it.
KnowsNode(p) ==
    /\ pass[p].at # "idle" => phase[p] = "indexing"
    /\ pass[p].steady /\ pass[p].at # "idle" => pass[p].chain = node.chain
    /\ pass[p].at = "checked" => pass[p].chain = ChainName(conf[p].id)
    /\ pass[p].steady /\ pass[p].at = "checked" => node.genesis = conf[p].genesis

\* What a process has passed at each step of main.
Passed(p) ==
    /\ IsFiniteSet(answered[p])
    /\ phase[p] # "down" => conf[p] \in Settings /\ from_env_ok(conf[p])
    /\ phase[p] \in BoundPhase => Binds(conf[p].id, conf[p])
    /\ phase[p] \in ValidPhase =>
          /\ consensus_network_ok(conf[p])
          /\ conf[p].run_indexer => Sources(conf[p]) \subseteq answered[p]
    /\ phase[p] \in {"spawned", "indexing"} => conf[p].run_indexer
    /\ KnowsNode(p)

IInv ==
    /\ TypeInv
    /\ \A p \in Process : Passed(p)
    /\ MainnetFrozen
    /\ IndexedIsBound

------------------------------------------------------------------------------
\* Nothing is bound, stored or running at first.
LEMMA InitInvariant == Init => IInv
<1> SUFFICES ASSUME Init PROVE IInv
  OBVIOUS
<1>1. TypeInv
  BY DEF Init, TypeInv, Phase, NoPass, ChainNames
<1>2. \A p \in Process : Passed(p)
  BY FS_EmptySet DEF Init, Passed, BoundPhase, ValidPhase, KnowsNode, NoPass
<1>3. MainnetFrozen /\ IndexedIsBound
  BY DEF Init, MainnetFrozen, IndexedIsBound
<1> QED
  BY <1>1, <1>2, <1>3 DEF IInv

\* A step that leaves the tables alone needs only be checked for its process.
LEMMA LocalStep ==
    ASSUME IInv, NEW p \in Process, UNCHANGED <<networks, selected, indexed, node>>, TypeInv',
           \A q \in Process \ {p} :
              /\ phase'[q] = phase[q] /\ conf'[q] = conf[q] /\ answered'[q] = answered[q]
              /\ pass'[q] = pass[q],
           Passed(p)'
    PROVE  IInv'
<1>1. \A q \in Process : Passed(q)'
  <2> TAKE q \in Process
  <2>1. CASE q = p
    BY <2>1
  <2>2. CASE q # p
    BY <2>2 DEF IInv, Passed, KnowsNode, Binds, from_env_ok, validate_mainnet_genesis,
                DistinctParents, validate_parent_configuration, consensus_network_ok, Sources
  <2> QED
    BY <2>1, <2>2
<1>2. MainnetFrozen' /\ IndexedIsBound'
  BY DEF IInv, MainnetFrozen, IndexedIsBound
<1> QED
  BY <1>1, <1>2 DEF IInv

\* The transaction that binds the database keeps every binding there was.
LEMMA BindingStep ==
    ASSUME IInv, NEW p \in Process, initialize_network(p)
    PROVE  IInv' /\ \A id \in DOMAIN networks :
                       /\ id \in DOMAIN networks'
                       /\ networks'[id].genesis = networks[id].genesis
                       /\ networks'[id].fixed = networks[id].fixed
<1> DEFINE s == conf[p]
           row == [genesis |-> s.genesis, fixed |-> s.fixed, symbol |-> s.symbol]
<1>1. /\ phase[p] = "prepared" /\ phase' = [phase EXCEPT ![p] = "bound"]
      /\ UNCHANGED <<selected, indexed, lease, conf, answered, pass, node>>
  BY DEF initialize_network, Step
<1>2. s \in Settings /\ from_env_ok(s)
  BY <1>1 DEF IInv, Passed
<1>3. /\ DOMAIN networks' = DOMAIN networks \cup {s.id}
      /\ networks'[s.id] = row
      /\ \A id \in DOMAIN networks \ {s.id} : networks'[id] = networks[id]
  BY DEF initialize_network
<1>4. row.genesis = s.genesis /\ row.fixed = s.fixed
  OBVIOUS
<1>5. s.id \in DOMAIN networks =>
         networks[s.id].genesis = s.genesis /\ networks[s.id].fixed = s.fixed
  BY DEF initialize_network
<1> HIDE DEF s, row
<1>6. \A id \in DOMAIN networks :
         /\ id \in DOMAIN networks'
         /\ networks'[id].genesis = networks[id].genesis
         /\ networks'[id].fixed = networks[id].fixed
  BY <1>3, <1>4, <1>5
<1>7. TypeInv'
  BY <1>1 DEF IInv, TypeInv, Phase
<1>8. \A q \in Process : Passed(q)'
  <2> TAKE q \in Process
  <2>1. Binds(s.id, s)'
    BY <1>1, <1>3, <1>4 DEF Binds, s
  <2>2. CASE q = p
    <3>1. phase'[p] = "bound"
      BY <1>1 DEF IInv, TypeInv
    <3>2. conf' = conf /\ answered' = answered
      BY <1>1
    <3>3. Binds(conf[p].id, conf[p])'
      BY <2>1, <3>2 DEF s, Binds
    <3>4. IsFiniteSet(answered[p])' /\ (conf[p] \in Settings)'
      BY <3>2, <1>2 DEF IInv, Passed, s
    <3>5. from_env_ok(conf[p])'
      BY <3>2, <1>2 DEF from_env_ok, validate_mainnet_genesis, DistinctParents,
                         validate_parent_configuration, s
    <3>6. KnowsNode(p)'
      BY <1>1, <3>1, <3>2 DEF IInv, Passed, KnowsNode
    <3> QED
      BY <2>2, <3>1, <3>3, <3>4, <3>5, <3>6 DEF Passed, ValidPhase
  <2>3. CASE q # p
    <3>1. phase'[q] = phase[q]
      BY <1>1, <2>3 DEF IInv, TypeInv
    <3>2. conf' = conf /\ answered' = answered /\ pass' = pass /\ node' = node
      BY <1>1
    <3>3. Binds(conf[q].id, conf[q]) => Binds(conf[q].id, conf[q])'
      BY <1>6, <3>2 DEF Binds
    <3>4. Passed(q)
      BY DEF IInv
    <3> QED
      BY <3>1, <3>2, <3>3, <3>4 DEF Passed, KnowsNode, from_env_ok, validate_mainnet_genesis,
                DistinctParents, validate_parent_configuration, consensus_network_ok, Sources
  <2> QED
    BY <2>2, <2>3
<1>9. MainnetFrozen'
  <2>1. CASE s.id = "mainnet"
    BY <2>1, <1>2, <1>3, <1>4 DEF MainnetFrozen, from_env_ok, validate_mainnet_genesis
  <2>2. CASE s.id # "mainnet"
    BY <2>2, <1>3 DEF IInv, MainnetFrozen
  <2> QED
    BY <2>1, <2>2
<1>10. IndexedIsBound'
  BY <1>1, <1>6 DEF IInv, IndexedIsBound
<1> QED
  BY <1>6, <1>7, <1>8, <1>9, <1>10 DEF IInv

\* A pass selects blocks, those of the bound chain when it spoke to one node.
LEMMA IndexingStep ==
    ASSUME IInv, NEW p \in Process, select_canonical(p)
    PROVE  IInv'
<1> DEFINE id == conf[p].id
           r == [id |-> id, node |-> node]
<1>1. /\ phase[p] = "indexing" /\ pass[p].at = "checked"
      /\ pass' = [pass EXCEPT ![p].at = "checked"]
      /\ UNCHANGED <<networks, lease, phase, conf, answered, node>>
  BY DEF select_canonical, InPass
<1>2. /\ id \in DOMAIN selected => selected[id] = node.genesis
      /\ DOMAIN selected' = DOMAIN selected \cup {id}
      /\ selected'[id] = node.genesis
      /\ \A n \in DOMAIN selected : selected'[n] = selected[n]
      /\ indexed' = indexed \/ (pass[p].steady /\ indexed' = indexed \cup {r})
  BY DEF select_canonical
<1>3. pass' = pass
  BY <1>1 DEF IInv, TypeInv
<1>4. /\ Binds(id, conf[p]) /\ id \in {"mainnet", "testnet"}
      /\ pass[p].steady => node.genesis = conf[p].genesis /\ node.chain = ChainName(id)
  BY <1>1 DEF IInv, Passed, KnowsNode, BoundPhase, ValidPhase, consensus_network_ok
<1>5. r.id = id /\ r.node = node
  OBVIOUS
<1> HIDE DEF r, id
<1>6. IndexedIsBound'
  <2>1. DOMAIN selected' \subseteq DOMAIN networks' \cap {"mainnet", "testnet"}
    BY <1>1, <1>2, <1>4 DEF IInv, IndexedIsBound, Binds
  <2>2. ASSUME NEW i \in indexed'
        PROVE  /\ i.id \in DOMAIN selected' /\ selected'[i.id] = i.node.genesis
               /\ networks[i.id].genesis = i.node.genesis /\ i.node.chain = ChainName(i.id)
    <3>1. CASE i \in indexed
      BY <3>1, <1>2 DEF IInv, IndexedIsBound
    <3>2. CASE i = r /\ pass[p].steady
      BY <3>2, <1>2, <1>4, <1>5 DEF Binds
    <3> QED
      BY <3>1, <3>2, <1>2
  <2> QED
    BY <2>1, <2>2, <1>1 DEF IndexedIsBound
<1>7. TypeInv' /\ MainnetFrozen'
  BY <1>1, <1>3 DEF IInv, TypeInv, MainnetFrozen
<1>8. \A q \in Process : Passed(q)'
  BY <1>1, <1>3 DEF IInv, Passed, KnowsNode, Binds, from_env_ok, validate_mainnet_genesis,
         DistinctParents, validate_parent_configuration, consensus_network_ok, Sources
<1> QED
  BY <1>6, <1>7, <1>8 DEF IInv

\* The other steps of a pass, which are those of its process alone.
LEMMA PassStep ==
    ASSUME IInv, NEW p \in Process, blockchain_info(p) \/ validate_identity(p) \/ PassEnds(p)
    PROVE  IInv'
<1>1. UNCHANGED <<networks, selected, indexed, phase, conf, answered, node>>
  BY DEF blockchain_info, validate_identity, PassEnds, InPass, dbVars
<1>2. PICK r \in [at : {"idle", "asked", "checked"}, chain : ChainNames, steady : BOOLEAN] :
         /\ pass' = [pass EXCEPT ![p] = r]
         /\ r.at # "idle" => phase[p] = "indexing"
         /\ r.steady /\ r.at # "idle" => r.chain = node.chain
         /\ r.at = "checked" => r.chain = ChainName(conf[p].id) /\ node.genesis = conf[p].genesis
  <2>1. CASE blockchain_info(p)
    <3> DEFINE r == [at |-> "asked", chain |-> node.chain, steady |-> TRUE]
    <3>1. r.at = "asked" /\ r.chain = node.chain
          /\ r \in [at : {"idle", "asked", "checked"}, chain : ChainNames, steady : BOOLEAN]
      BY DEF IInv, TypeInv, NodeIdentity, ChainNames
    <3> HIDE DEF r
    <3>2. pass' = [pass EXCEPT ![p] = r] /\ phase[p] = "indexing"
      BY <2>1 DEF blockchain_info, r
    <3> QED
      BY <3>1, <3>2
  <2>2. CASE validate_identity(p)
    <3> DEFINE r == [pass[p] EXCEPT !.at = "checked"]
    <3>1. /\ phase[p] = "indexing" /\ pass[p].at = "asked"
          /\ pass' = [pass EXCEPT ![p] = r]
          /\ node.genesis = conf[p].genesis /\ pass[p].chain = ChainName(conf[p].id)
      BY <2>2 DEF validate_identity, InPass, validate_identity_ok
    <3>2. /\ r.at = "checked" /\ r.chain = pass[p].chain /\ r.steady = pass[p].steady
          /\ r \in [at : {"idle", "asked", "checked"}, chain : ChainNames, steady : BOOLEAN]
      BY DEF IInv, TypeInv
    <3>3. pass[p].steady => pass[p].chain = node.chain
      BY <3>1 DEF IInv, Passed, KnowsNode
    <3> HIDE DEF r
    <3> QED
      BY <3>1, <3>2, <3>3
  <2>3. CASE PassEnds(p)
    <3>1. /\ NoPass.at = "idle"
          /\ NoPass \in [at : {"idle", "asked", "checked"}, chain : ChainNames, steady : BOOLEAN]
      BY DEF NoPass, ChainNames
    <3> QED
      BY <2>3, <3>1 DEF PassEnds
  <2> QED
    BY <2>1, <2>2, <2>3
<1>3. TypeInv'
  BY <1>1, <1>2 DEF IInv, TypeInv
<1>4. pass'[p] = r /\ \A q \in Process \ {p} : pass'[q] = pass[q]
  BY <1>2 DEF IInv, TypeInv
<1>5. KnowsNode(p)'
  BY <1>1, <1>2, <1>4 DEF KnowsNode
<1>6. Passed(p)'
  BY <1>1, <1>5 DEF IInv, Passed, Binds, from_env_ok, validate_mainnet_genesis,
         DistinctParents, validate_parent_configuration, consensus_network_ok, Sources
<1> QED
  BY <1>1, <1>3, <1>4, <1>6, LocalStep

\* Another node answers: no pass that goes on has spoken to one node alone.
LEMMA WorldStep ==
    ASSUME IInv, WorldChanges
    PROVE  IInv'
<1>1. /\ UNCHANGED <<networks, selected, indexed, phase, conf, answered>>
      /\ node' \in NodeIdentity
      /\ pass' = [p \in Process |->
                    IF pass[p].at = "idle" THEN pass[p] ELSE [pass[p] EXCEPT !.steady = FALSE]]
  BY DEF WorldChanges, dbVars
<1>2. ASSUME NEW q \in Process
      PROVE  /\ pass'[q].at = pass[q].at /\ pass'[q].chain = pass[q].chain
             /\ pass'[q].at # "idle" => ~pass'[q].steady
             /\ pass'[q] \in [at : {"idle", "asked", "checked"}, chain : ChainNames, steady : BOOLEAN]
  BY <1>1 DEF IInv, TypeInv
<1>3. TypeInv'
  <2>1. pass' \in [Process -> [at : {"idle", "asked", "checked"}, chain : ChainNames, steady : BOOLEAN]]
    BY <1>1, <1>2
  <2> QED
    BY <1>1, <2>1 DEF IInv, TypeInv
<1>4. \A q \in Process : Passed(q)'
  <2> TAKE q \in Process
  <2>1. KnowsNode(q)'
    BY <1>1, <1>2 DEF IInv, Passed, KnowsNode
  <2> QED
    BY <1>1, <2>1 DEF IInv, Passed, Binds, from_env_ok, validate_mainnet_genesis,
           DistinctParents, validate_parent_configuration, consensus_network_ok, Sources
<1>5. MainnetFrozen' /\ IndexedIsBound'
  BY <1>1 DEF IInv, MainnetFrozen, IndexedIsBound
<1> QED
  BY <1>3, <1>4, <1>5 DEF IInv

------------------------------------------------------------------------------
(***************************************************************************)
(* The steps of main that leave the tables alone.                          *)
(***************************************************************************)
\* Settings are read and checked, whatever the database holds.
LEMMA StartStep ==
    ASSUME IInv, NEW p \in Process, start(p)
    PROVE  IInv'
<1>1. PICK s \in Settings : from_env_ok(s) /\ conf' = [conf EXCEPT ![p] = s]
  BY DEF start
<1>2. /\ phase' = [phase EXCEPT ![p] = "connected"]
      /\ UNCHANGED <<networks, selected, indexed, answered, pass, node>>
      /\ phase[p] = "down"
  BY DEF start, Step, dbVars
<1>3. TypeInv'
  BY <1>1, <1>2 DEF IInv, TypeInv, Phase
<1>4. phase'[p] = "connected" /\ conf'[p] = s
  BY <1>1, <1>2 DEF IInv, TypeInv
<1>5. from_env_ok(conf[p])'
  BY <1>1, <1>4 DEF from_env_ok, validate_mainnet_genesis, DistinctParents,
                    validate_parent_configuration
<1>6. Passed(p)'
  BY <1>2, <1>4, <1>5 DEF IInv, Passed, KnowsNode, BoundPhase, ValidPhase
<1> QED
  BY <1>1, <1>2, <1>3, <1>6, LocalStep DEF IInv, TypeInv

\* A source that answers is added to those that answered before.
LEMMA ParentStep ==
    ASSUME IInv, NEW p \in Process, validate_chain_identity(p)
    PROVE  IInv'
<1>1. PICK u \in Sources(conf[p]) \ answered[p] :
         answered' = [answered EXCEPT ![p] = answered[p] \cup {u}]
  BY DEF validate_chain_identity
<1>2. phase[p] = "bound" /\ UNCHANGED <<networks, selected, indexed, phase, conf, pass, node>>
  BY DEF validate_chain_identity, dbVars
<1>3. Passed(p)
  BY DEF IInv
<1>4. u \in Source
  <2>1. conf[p] \in Settings
    BY <1>2, <1>3 DEF Passed
  <2>2. conf[p].parents \in Seq(Source)
    BY <2>1, StartupAssumption
  <2> QED
    BY <2>2, <1>1 DEF Sources
<1>5. TypeInv'
  BY <1>1, <1>2, <1>4 DEF IInv, TypeInv
<1>6. answered'[p] = answered[p] \cup {u}
  BY <1>1 DEF IInv, TypeInv
<1>7. IsFiniteSet(answered[p])'
  BY <1>3, <1>6, FS_AddElement DEF Passed
<1>8. Passed(p)'
  BY <1>2, <1>3, <1>7 DEF Passed, KnowsNode, ValidPhase, Binds, from_env_ok,
       validate_mainnet_genesis, DistinctParents, validate_parent_configuration
<1>9. \A q \in Process \ {p} : answered'[q] = answered[q]
  BY <1>1 DEF IInv, TypeInv
<1> QED
  BY <1>2, <1>5, <1>8, <1>9, LocalStep

\* The steps that only move a process on: what each has passed is its guard.
LEMMA ForwardStep ==
    ASSUME IInv, NEW p \in Process,
           migrate(p) \/ bind_verifier(p) \/ serve(p) \/ acquire_writer_lock(p)
    PROVE  IInv'
<1>1. PICK to \in Phase : phase' = [phase EXCEPT ![p] = to]
  <2>1. CASE migrate(p)
    BY <2>1 DEF migrate, Step, Phase
  <2>2. CASE bind_verifier(p)
    BY <2>2 DEF bind_verifier, Step, Phase
  <2>3. CASE serve(p)
    BY <2>3 DEF serve, Step, Phase
  <2>4. CASE acquire_writer_lock(p)
    BY <2>4 DEF acquire_writer_lock, Step, Phase
  <2> QED
    BY <2>1, <2>2, <2>3, <2>4
<1>2. UNCHANGED <<networks, selected, indexed, conf, answered, pass, node>> /\ phase[p] # "indexing"
  BY DEF Step, migrate, bind_verifier, serve, acquire_writer_lock, dbVars
<1>3. TypeInv'
  BY <1>1, <1>2 DEF IInv, TypeInv
<1>4. Passed(p)
  BY DEF IInv
<1>5. phase'[p] = to
  BY <1>1 DEF IInv, TypeInv
<1>6. /\ IsFiniteSet(answered[p])'
      /\ Binds(conf[p].id, conf[p])' <=> Binds(conf[p].id, conf[p])
      /\ from_env_ok(conf[p])' <=> from_env_ok(conf[p])
      /\ consensus_network_ok(conf[p])' <=> consensus_network_ok(conf[p])
      /\ Sources(conf[p])' = Sources(conf[p])
      /\ KnowsNode(p)'
  BY <1>2, <1>4 DEF Passed, KnowsNode, Binds, from_env_ok, validate_mainnet_genesis, DistinctParents,
       validate_parent_configuration, consensus_network_ok, Sources
<1>7. Passed(p)'
  <2>1. CASE migrate(p)
    <3>1. phase[p] = "connected" /\ phase'[p] = "prepared"
      BY <2>1 DEF migrate, Step, IInv, TypeInv
    <3> QED
      BY <3>1, <1>2, <1>4, <1>6 DEF Passed, BoundPhase, ValidPhase
  <2>2. CASE bind_verifier(p)
    <3>1. /\ phase[p] = "bound" /\ phase'[p] = "validated"
          /\ conf[p].run_indexer => Sources(conf[p]) \subseteq answered[p]
          /\ consensus_network_ok(conf[p])
      BY <2>2 DEF bind_verifier, Step, IInv, TypeInv
    <3> QED
      BY <3>1, <1>2, <1>4, <1>6 DEF Passed, BoundPhase, ValidPhase
  <2>3. CASE serve(p)
    <3>1. /\ phase[p] = "validated"
          /\ phase'[p] = IF conf[p].run_indexer THEN "spawned" ELSE "serving"
      BY <2>3 DEF serve, Step, IInv, TypeInv
    <3> QED
      BY <3>1, <1>2, <1>4, <1>6 DEF Passed, BoundPhase, ValidPhase
  <2>4. CASE acquire_writer_lock(p)
    <3>1. phase[p] = "spawned" /\ phase'[p] = "indexing"
      BY <2>4 DEF acquire_writer_lock, Step, IInv, TypeInv
    <3> QED
      BY <3>1, <1>2, <1>4, <1>6 DEF Passed, BoundPhase, ValidPhase
  <2> QED
    BY <2>1, <2>2, <2>3, <2>4
<1>8. \A q \in Process \ {p} : phase'[q] = phase[q]
  BY <1>1 DEF IInv, TypeInv
<1> QED
  BY <1>2, <1>3, <1>7, <1>8, LocalStep

\* A process ends.
LEMMA EndStep ==
    ASSUME IInv, NEW p \in Process, Ends(p)
    PROVE  IInv'
<1>1. /\ phase' = [phase EXCEPT ![p] = "down"]
      /\ conf' = [conf EXCEPT ![p] = None]
      /\ answered' = [answered EXCEPT ![p] = {}]
      /\ pass' = [pass EXCEPT ![p] = NoPass]
      /\ UNCHANGED <<networks, selected, indexed, node>>
  BY DEF Ends, dbVars
<1>2. TypeInv'
  BY <1>1 DEF IInv, TypeInv, Phase, NoPass, ChainNames
<1>3. phase'[p] = "down" /\ answered'[p] = {} /\ pass'[p] = NoPass
  BY <1>1 DEF IInv, TypeInv
<1>4. Passed(p)'
  <2>1. NoPass.at = "idle"
    BY DEF NoPass
  <2>2. pass'[p].at = "idle"
    BY <1>3, <2>1
  <2>3. KnowsNode(p)'
    BY <2>2 DEF KnowsNode
  <2>4. IsFiniteSet(answered'[p])
    BY <1>3, FS_EmptySet
  <2> QED
    BY <1>3, <2>3, <2>4 DEF Passed, BoundPhase, ValidPhase
<1>5. \A q \in Process \ {p} :
         /\ phase'[q] = phase[q] /\ conf'[q] = conf[q] /\ answered'[q] = answered[q]
         /\ pass'[q] = pass[q]
  BY <1>1 DEF IInv, TypeInv
<1> QED
  BY <1>1, <1>2, <1>4, <1>5, LocalStep

\* What the invariant speaks of is untouched.
LEMMA QuietStep ==
    ASSUME IInv, UNCHANGED <<networks, selected, indexed, phase, conf, answered, pass, node>>
    PROVE  IInv'
<1>1. TypeInv' /\ MainnetFrozen' /\ IndexedIsBound'
  BY DEF IInv, TypeInv, MainnetFrozen, IndexedIsBound
<1>2. \A q \in Process : Passed(q)'
  BY DEF IInv, Passed, KnowsNode, Binds, from_env_ok, validate_mainnet_genesis, DistinctParents,
         validate_parent_configuration, consensus_network_ok, Sources
<1> QED
  BY <1>1, <1>2 DEF IInv

LEMMA NextInvariant == IInv /\ [Next]_vars => IInv'
<1> SUFFICES ASSUME IInv, [Next]_vars PROVE IInv'
  OBVIOUS
<1>1. CASE UNCHANGED vars
  BY <1>1, QuietStep DEF vars, dbVars
<1>2. CASE WorldChanges \/ LeaseBreaks
  BY <1>2, QuietStep, WorldStep DEF LeaseBreaks, dbVars
<1>3. CASE \E p \in Process :
             \/ start(p) \/ migrate(p) \/ initialize_network(p) \/ validate_chain_identity(p)
             \/ bind_verifier(p) \/ serve(p) \/ acquire_writer_lock(p) \/ Ends(p)
             \/ blockchain_info(p) \/ validate_identity(p) \/ select_canonical(p) \/ PassEnds(p)
  BY <1>3, StartStep, ForwardStep, BindingStep, ParentStep, IndexingStep, PassStep, EndStep
<1> QED
  BY <1>1, <1>2, <1>3 DEF Next

------------------------------------------------------------------------------
\* Two different sources are at least two.
LEMMA TwoSources ==
    ASSUME NEW p \in Process, IInv, phase[p] = "indexing", conf[p].quorum
    PROVE  Cardinality(answered[p]) >= 2
<1>1. Passed(p)
  BY DEF IInv
<1>2. /\ IsFiniteSet(answered[p]) /\ conf[p].run_indexer /\ conf[p] \in Settings
      /\ from_env_ok(conf[p]) /\ Sources(conf[p]) \subseteq answered[p]
  BY <1>1 DEF Passed, ValidPhase
<1> DEFINE us == conf[p].parents
<1>3. us \in Seq(Source) /\ Len(us) \in Nat /\ DOMAIN us = 1 .. Len(us)
  BY <1>2, StartupAssumption
<1>4. Len(us) >= 2 /\ \A i, j \in DOMAIN us : us[i] = us[j] => i = j
  BY <1>2 DEF from_env_ok, DistinctParents, validate_parent_configuration
<1>5. us[1] \in answered[p] /\ us[2] \in answered[p] \ {us[1]}
  BY <1>2, <1>3, <1>4 DEF Sources
<1> HIDE DEF us
<1> DEFINE rest == answered[p] \ {us[1]}
<1>6. IsFiniteSet(rest) /\ Cardinality(rest) = Cardinality(answered[p]) - 1
  BY <1>2, <1>5, FS_RemoveElement
<1>7. Cardinality(rest) \in Nat /\ Cardinality(rest) # 0
  <2>1. rest # {}
    BY <1>5
  <2> HIDE DEF rest
  <2> QED
    BY <2>1, <1>6, FS_CardinalityType, FS_EmptySet
<1>8. Cardinality(answered[p]) \in Nat
  BY <1>2, FS_CardinalityType
<1> QED
  BY <1>6, <1>7, <1>8

LEMMA InvariantHolds == Spec => []IInv
  BY InitInvariant, NextInvariant, PTL DEF Spec

\* A process that answers requests answers them with the identity its database
\* is bound to.
THEOREM ServedIdentityHolds == Spec => []ServedIdentity
<1>1. IInv => ServedIdentity
  BY DEF IInv, Passed, BoundPhase, Binds, ServedIdentity, Serves
<1> QED
  BY <1>1, InvariantHolds, PTL

\* No sequence of starts binds Mainnet to a genesis other than its own.
THEOREM MainnetStaysFrozen == Spec => []MainnetFrozen
<1>1. IInv => MainnetFrozen
  BY DEF IInv
<1> QED
  BY <1>1, InvariantHolds, PTL

\* Whatever nodes are put behind the address and whenever, under a network
\* blocks of one chain are selected, and of the chain it is bound to once a pass
\* that spoke to one node selected one of them.
THEOREM IndexedChainIsBound == Spec => []IndexedIsBound
<1>1. IInv => IndexedIsBound
  BY DEF IInv
<1> QED
  BY <1>1, InvariantHolds, PTL

\* Nothing is indexed under a required quorum before two different sources
\* have shown the expected parent chain.
THEOREM QuorumIsAsked == Spec => []QuorumAsked
<1>1. IInv => QuorumAsked
  BY TwoSources DEF IInv, Passed, ValidPhase, QuorumAsked
<1> QED
  BY <1>1, InvariantHolds, PTL

\* No start takes the identity of a database back.
THEOREM IdentityIsKept == Spec => IdentityKept
<1> DEFINE Kept == \A id \in DOMAIN networks :
                      /\ id \in DOMAIN networks'
                      /\ networks'[id].genesis = networks[id].genesis
                      /\ networks'[id].fixed = networks[id].fixed
<1>1. IInv /\ [Next]_vars => [Kept]_vars
  <2> SUFFICES ASSUME IInv, Next PROVE Kept
    OBVIOUS
  <2>1. CASE \E p \in Process : initialize_network(p)
    BY <2>1, BindingStep
  <2>2. CASE UNCHANGED networks
    BY <2>2
  <2>3. \/ \E p \in Process : initialize_network(p)
        \/ UNCHANGED networks
    BY DEF Next, start, migrate, validate_chain_identity, bind_verifier, serve,
           acquire_writer_lock, Ends, blockchain_info, validate_identity, select_canonical,
           PassEnds, InPass, LeaseBreaks, WorldChanges, dbVars
  <2> QED
    BY <2>1, <2>2, <2>3
<1> QED
  BY <1>1, InvariantHolds, PTL DEF Spec, IdentityKept
==============================================================================
