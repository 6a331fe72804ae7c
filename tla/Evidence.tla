------------------------------- MODULE Evidence -------------------------------
(***************************************************************************)
(* The ageing part of the explorer: the AuxPoW evidence stored with each   *)
(* canonical block, its refresh by the indexer's passes, and the readiness *)
(* probe that depends on both (src/db.rs, src/auxpow.rs, src/api.rs).      *)
(*                                                                         *)
(* Time passes in ticks; every age counts ticks and saturates one above    *)
(* the largest age the code compares with.  A pass of sync_once is one     *)
(* step here: module Indexer has its interleavings, this one has the       *)
(* clock.  What remains of the interleavings is that the node may adopt    *)
(* another chain between the passes, and within one between the selection  *)
(* of the blocks and the refresh, which asks the node by height.           *)
(* A record is that of the SELECTED block and witness of a height, the     *)
(* only one the refresh query and the probe look at.                       *)
(***************************************************************************)
EXTENDS Integers

CONSTANTS
    MaxHeight,        \* BOUND: the highest chain of the model
    Source,           \* labels of the two parent endpoints
    Reply,            \* what a parent endpoint may answer, a part of AnyReply
    RefreshInterval,  \* PARENT_EVIDENCE_REFRESH_INTERVAL_SECONDS, in ticks
    RefreshDepth,     \* EVIDENCE_REFRESH_DEPTH
    ReadyMaxAge,      \* READY_MAX_AGE_SECONDS, in ticks
    MaxGap,           \* BOUND: ticks without a completed pass
    MayExchange,      \* may the node exchange the witness of a selected block?
    MayMove           \* may the node adopt another chain?

\* A block on the parent's main chain, on a side chain, under another header
\* than the embedded one, an RPC error -5 or -8, any other failure.
AnyReply == {"main", "side", "other_header", "missing", "down"}

ASSUME EvidenceAssumption ==
    /\ MaxHeight \in Nat /\ RefreshInterval \in Nat \ {0}
    /\ RefreshDepth \in Nat /\ ReadyMaxAge \in Nat \ {0} /\ MaxGap \in Nat \ {0}
    /\ Reply \subseteq AnyReply /\ MayExchange \in BOOLEAN /\ MayMove \in BOOLEAN

VARIABLES
    top,         \* height of the canonical tip; 0 is the genesis block
    common,      \* up to this height the node's chain is the selected one
    ev,          \* the evidence record of each selected block
    same,        \* does the node still hold the selected witness?
    configured,  \* parent sources of the running indexer
    status,      \* chain_state.status
    beat,        \* age of chain_state.updated_at
    missed,      \* ticks since a pass was completed
    renewed      \* history: the last completed pass refreshed the record it
                 \* chose, or found none that was stale

vars == <<top, common, ev, same, configured, status, beat, missed, renewed>>

PARENT_EVIDENCE_MAX_AGE == RefreshInterval * 2
Never == PARENT_EVIDENCE_MAX_AGE + 1
Ages == 0..Never
Blocks == 1..MaxHeight

\* One tick older, saturating at top of the range.
Older(age, limit) == IF age < limit THEN age + 1 ELSE limit

------------------------------------------------------------------------------
(***************************************************************************)
(* One verification of a block against the parent sources.                 *)
(***************************************************************************)
ParentLookupState ==
    {"canonical", "orphaned", "not_found", "unavailable", "disagreement", "not_configured"}

\* Mutant: a failed lookup is stored under a name no reader knows.
observe_parent_error_name(reply) ==
    CASE reply = "main"         -> "canonical"
      [] reply = "side"         -> "orphaned"
      [] reply = "other_header" -> "disagreement"
      [] reply = "missing"      -> "not_found"
      [] reply = "down"         -> "error"

observe_parent(reply) ==
    CASE reply = "main"         -> "canonical"
      [] reply = "side"         -> "orphaned"
      [] reply = "other_header" -> "disagreement"
      [] reply = "missing"      -> "not_found"
      [] reply = "down"         -> "unavailable"

TwoSources(S) == \E s, t \in S : s # t

\* classify_observations, its first and its second component.
classify_observations(obs) ==
    LET has(st) == \E s \in DOMAIN obs : obs[s] = st IN
    CASE DOMAIN obs = {} -> "not_configured"
      [] \/ has("disagreement")
         \/ has("canonical") /\ (has("not_found") \/ has("orphaned")) -> "disagreement"
      [] has("canonical") -> "canonical"
      [] has("orphaned")  -> "orphaned"
      [] has("not_found") -> "not_found"
      [] OTHER            -> "unavailable"

sources_agree(obs) ==
    TwoSources(DOMAIN obs) /\ \A s, t \in DOMAIN obs : obs[s] = obs[t]

(***************************************************************************)
(* A record: the age of verified_at, the observation of each source and    *)
(* the two classifications.  The observations are deleted and rewritten in *)
(* the transaction that sets verified_at, so they share its age.           *)
(* History, not stored by the code: told, ticks since each source said     *)
(* that the parent block is on its main chain, and held, ticks since the   *)
(* node had the selected block with the selected witness on its chain.     *)
(***************************************************************************)
Evidence ==
    [age : Ages, obs : UNION {[S -> ParentLookupState] : S \in SUBSET Source},
     lookup : ParentLookupState, agree : BOOLEAN,
     told : [Source -> Ages], held : Ages]

NoEvidence ==
    [age |-> Never, obs |-> [s \in {} |-> "unavailable"], lookup |-> "not_configured",
     agree |-> FALSE, told |-> [s \in Source |-> Never], held |-> Never]

\* insert_block's auxpow_links and parent_chain_observations rows.
Verified(old, reply) ==
    LET obs == [s \in configured |-> observe_parent(reply[s])] IN
    [age    |-> 0,
     obs    |-> obs,
     lookup |-> classify_observations(obs),
     agree  |-> sources_agree(obs),
     told   |-> [s \in Source |->
                   IF s \in configured /\ reply[s] = "main" THEN 0 ELSE old.told[s]],
     held   |-> old.held]

\* A block that is selected now, with the witness the node holds now.
NewlyVerified(reply) == Verified([NoEvidence EXCEPT !.held = 0], reply)

------------------------------------------------------------------------------
(***************************************************************************)
(* evidence_refresh_candidate, over the records e of a chain up to n.      *)
(***************************************************************************)
\* Mutant: `>' in the comparison with the depth.
Window_exclusive(n) == {h \in Blocks : h <= n /\ h > n - RefreshDepth}

Window(n) == {h \in Blocks : h <= n /\ h >= n - RefreshDepth}

Stale(e, n) == {h \in Window(n) : e[h].age > RefreshInterval}

\* Mutant: the stalest record, the tip or not.
Candidates_stalest(e, n) ==
    {h \in Stale(e, n) : \A k \in Stale(e, n) : e[k].age <= e[h].age}

\* The stale tip, or the stalest records (the query takes any one of equals).
Candidates(e, n) ==
    IF n \in Stale(e, n) THEN {n}
    ELSE {h \in Stale(e, n) : \A k \in Stale(e, n) : e[k].age <= e[h].age}

\* The node has the selected block of height h with the selected witness, when
\* its chain is the selected one up to height m.
Held(h, m) == h <= m /\ same[h]

\* Mutant: records keyed by the block hash alone.
Refreshed_any_witness(e, h, reply, m) ==
    IF h <= m THEN [e EXCEPT ![h] = Verified(e[h], reply)] ELSE e

\* Mutant: verified_at is missing from the columns updated on conflict.
Refreshed_keeps_time(e, h, reply, m) ==
    IF Held(h, m) THEN [e EXCEPT ![h] = [Verified(@, reply) EXCEPT !.age = e[h].age]] ELSE e

\* The refresh fetches whatever the node has at that height now, with the
\* witness it holds now, and stores a record of that block and witness: it is
\* a record of its own unless they are the selected ones.
Refreshed(e, h, reply, m) ==
    IF Held(h, m) THEN [e EXCEPT ![h] = Verified(e[h], reply)] ELSE e

------------------------------------------------------------------------------
TypeOK ==
    /\ top \in 0..MaxHeight
    /\ common \in 0..top
    /\ ev \in [Blocks -> Evidence]
    /\ same \in [Blocks -> BOOLEAN]
    /\ configured \subseteq Source
    /\ status \in {"syncing", "ready", "error"}
    /\ beat \in 0..ReadyMaxAge + 1
    /\ missed \in Ages
    /\ renewed \in BOOLEAN

\* An indexer with its sources over a chain that has only the genesis block.
Init ==
    /\ top = 0 /\ common = 0
    /\ ev = [h \in Blocks |-> NoEvidence]
    /\ same = [h \in Blocks |-> TRUE]
    /\ configured = Source
    /\ status = "syncing" /\ beat = 0 /\ missed = 0 /\ renewed = TRUE

\* What the sources answer about each block above k.
Replies(k, n) == [k + 1 .. n -> [configured -> Reply]]

\* The records after the blocks above k were replaced by verified ones up to n.
Selected(k, n, replies) ==
    [h \in Blocks |-> IF h <= k THEN ev[h]
                      ELSE IF h <= n THEN NewlyVerified(replies[h]) ELSE NoEvidence]

\* commit_block for every block above the tip (k = top), or
\* replace_canonical_branch (k < top); nothing when k = n = top.
Select(k, n) ==
    /\ top' = n
    /\ same' = [h \in Blocks |-> h <= k => same[h]]

(***************************************************************************)
(* sync_once brings the chain to the node's tip n above the common block   *)
(* and refreshes one record if one is stale.  When it asks for the block   *)
(* to refresh, the node may have left the chain above height m.            *)
(***************************************************************************)
Pass ==
    \E n \in common..MaxHeight : \E replies \in Replies(common, n) :
        LET e == Selected(common, n, replies) IN
        /\ Select(common, n)
        /\ \/ Candidates(e, n) = {} /\ ev' = e /\ common' = n /\ renewed' = TRUE
           \/ \E h \in Candidates(e, n), reply \in [configured -> Reply], m \in 0..n :
                 /\ MayMove \/ m = n
                 /\ ev' = Refreshed(e, h, reply, m) /\ common' = m /\ renewed' = Held(h, m)
        /\ status' = "ready" /\ beat' = 0 /\ missed' = 0
        /\ UNCHANGED configured

\* What a failed pass leaves in chain_state: the failure recorded, the status
\* of an observed tip or of a commit, or, when it changed no block, the old one.
FailedStatus(unmoved) ==
    \/ status' = "error" /\ beat' = 0
    \/ unmoved /\ status' = status /\ beat' \in {beat, 0}
    \/ status' = "syncing" /\ beat' = 0

(***************************************************************************)
(* sync_once fails, and the failure is recorded by mark_indexer_error or   *)
(* that fails too.  Before it has selected anything nothing else changes;  *)
(* after some of the commits, or the replacement, the chain ends at n; and *)
(* when only the final tip could not be read or written the refresh of a   *)
(* record has been committed.                                              *)
(***************************************************************************)
PassFails ==
    \/ FailedStatus(TRUE) /\ UNCHANGED <<top, common, ev, same, configured, missed, renewed>>
    \/ \E n \in common..MaxHeight : \E replies \in Replies(common, n) :
          LET e == Selected(common, n, replies) IN
          /\ FailedStatus(common = top /\ n = top)
          /\ Select(common, n) /\ common' = n
          /\ \/ ev' = e
             \/ \E h \in Candidates(e, n), reply \in [configured -> Reply] :
                   ev' = Refreshed(e, h, reply, n)
          /\ UNCHANGED <<configured, missed, renewed>>

Tick ==
    /\ missed < MaxGap
    /\ beat' = Older(beat, ReadyMaxAge + 1)
    /\ missed' = Older(missed, Never)
    /\ ev' = [h \in Blocks |->
                [ev[h] EXCEPT !.age = Older(@, Never),
                              !.told = [s \in Source |-> Older(@[s], Never)],
                              !.held = IF Held(h, common) THEN 0 ELSE Older(@, Never)]]
    /\ UNCHANGED <<top, common, same, configured, status, renewed>>

\* The node comes to hold another witness for a selected block, or the selected
\* one again.
Exchange ==
    /\ MayExchange
    /\ \E h \in 1..top :
          /\ same' = [same EXCEPT ![h] = ~@]
          /\ ev' = [ev EXCEPT ![h].held = IF h <= common THEN 0 ELSE @]
    /\ UNCHANGED <<top, common, configured, status, beat, missed, renewed>>

\* The node leaves the selected chain above some height, or comes back to it.
NodeMoves ==
    /\ MayMove
    /\ common' \in 0..top
    /\ ev' = [h \in Blocks |-> [ev[h] EXCEPT !.held = IF Held(h, common') THEN 0 ELSE @]]
    /\ UNCHANGED <<top, same, configured, status, beat, missed, renewed>>

\* The indexer is restarted with other parent endpoints.
Reconfigure ==
    /\ configured' \in SUBSET Source \ {configured}
    /\ UNCHANGED <<top, common, ev, same, status, beat, missed, renewed>>

Next == Pass \/ PassFails \/ Tick \/ Exchange \/ NodeMoves \/ Reconfigure

Spec == Init /\ [][Next]_vars

------------------------------------------------------------------------------
\* ParentEvidenceReadiness::is_ready for the record of the tip.
parent_evidence_ready ==
    \/ top = 0
    \/ LET a == ev[top] IN
       /\ a.lookup = "canonical" /\ a.agree
       /\ TwoSources(DOMAIN a.obs)
       /\ \A s \in DOMAIN a.obs : a.obs[s] = "canonical"
       /\ a.age <= PARENT_EVIDENCE_MAX_AGE

\* GET /health/ready, with REQUIRE_PARENT_QUORUM.  What it compares of the two
\* tips holds after every completed pass of this model.
ready == status = "ready" /\ beat <= ReadyMaxAge /\ parent_evidence_ready

\* A ready explorer is backed by facts no older than the maximum age: two
\* parent sources had the tip's parent block on their main chain, and the node
\* had the tip with the selected witness on its own.
ReadyBacked ==
    ready /\ top > 0 =>
        /\ \E s, t \in Source : s # t /\ \A u \in {s, t} :
              ev[top].told[u] <= PARENT_EVIDENCE_MAX_AGE
        /\ ev[top].held <= PARENT_EVIDENCE_MAX_AGE

\* After a completed pass whose refresh reached the record it chose, or which
\* found none stale, the evidence of the tip stays within its maximum age
\* although every pass of one whole refresh interval fails, also when the pass
\* rolled the chain back to a block whose record is old.
TipEvidenceFresh ==
    status = "ready" /\ top > 0 /\ renewed /\ missed <= RefreshInterval =>
        ev[top].age <= PARENT_EVIDENCE_MAX_AGE

\* The same after every completed pass.  The refresh asks the node by height,
\* so this does not hold when the node has another witness, or another block.
TipRefreshed ==
    status = "ready" /\ top > 0 /\ missed <= RefreshInterval =>
        ev[top].age <= PARENT_EVIDENCE_MAX_AGE

------------------------------------------------------------------------------
\* Ticks come for ever, and so do passes (the poll interval never stops).
FairSpec == Spec /\ WF_vars(Tick) /\ WF_vars(Pass)

\* The node keeps the selected chain with the selected witnesses, the sources
\* stay and confirm every parent block they are asked about, and no failure is
\* recorded.
Calm ==
    /\ UNCHANGED <<top, common, same, configured>>
    /\ \A h \in 1..top : Held(h, common)
    /\ status' \in {status, "ready"}
    /\ \A h \in Blocks : ev'[h] # ev[h] /\ ev'[h].age = 0 =>
          ev'[h].obs = [s \in configured |-> "canonical"]

Quiescent == <>[][Calm]_vars /\ <>[](configured = Source)

\* Every record of the recent window is refreshed again and again, not only
\* that of the tip, which goes first.
EveryRecordRefreshed ==
    Quiescent => \A h \in Blocks :
        []<>(h <= top /\ h >= top - RefreshDepth => ev[h].age <= RefreshInterval)

\* When the disturbances end the explorer becomes ready and stays so.
ReadyRecovers == Quiescent => <>[]ready
==============================================================================
