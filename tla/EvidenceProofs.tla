---------------------------- MODULE EvidenceProofs ----------------------------
(***************************************************************************)
(* Proofs about the two sides of the verifier: module Evidence, for every  *)
(* height, depth, set of sources and refresh interval, and module AuxPow,  *)
(* for every base, raw block and target.                                   *)
(*                                                                         *)
(* A record is backed when every source it calls canonical said so no      *)
(* longer ago than the record's age, and the node held the selected        *)
(* block with its witness no longer ago than that.  This holds of every    *)
(* selected block, not only of the tip: a rollback makes any of them it.   *)
(*                                                                         *)
(* The decoding is proved correct by its digits: Power and LittleEndian    *)
(* are unfolded with the lemmas of SumLemmas, the numbers of two, three    *)
(* and four bytes are written out, and each form of a length and each      *)
(* place of a word in a target is a case.                                  *)
(***************************************************************************)
EXTENDS MCEvidence, SumLemmas, TLAPS

Backed(r) ==
    /\ \A s \in DOMAIN r.obs : r.obs[s] = "canonical" => r.told[s] <= r.age
    /\ r.held <= r.age

\* The inductive invariant behind ReadyBacked.
BackedInv ==
    /\ TypeOK
    /\ \A h \in Blocks : h <= top => Backed(ev[h]) /\ (Held(h, common) => ev[h].held = 0)

\* The inductive invariant behind TipEvidenceFresh.
FreshInv ==
    /\ TypeOK
    /\ status = "ready" /\ top > 0 /\ renewed => ev[top].age <= RefreshInterval + missed

------------------------------------------------------------------------------
\* Ages are natural numbers, and the oldest one is above both limits.
LEMMA AgesNat ==
    /\ Never \in Nat /\ Ages \subseteq Nat /\ 0 \in Ages /\ Never \in Ages
    /\ PARENT_EVIDENCE_MAX_AGE \in Nat /\ PARENT_EVIDENCE_MAX_AGE < Never
    /\ RefreshInterval + RefreshInterval = PARENT_EVIDENCE_MAX_AGE
    /\ RefreshInterval \in Nat
BY EvidenceAssumption DEF Never, Ages, PARENT_EVIDENCE_MAX_AGE

\* A tick adds at most one to an age and never leaves the range.
LEMMA OlderAge ==
    ASSUME NEW a \in Ages
    PROVE  Older(a, Never) \in Ages /\ Older(a, Never) <= a + 1
BY AgesNat DEF Older, Ages

\* A tick keeps the order of two ages.
LEMMA OlderMonotone ==
    ASSUME NEW a \in Ages, NEW b \in Ages, a <= b
    PROVE  Older(a, Never) <= Older(b, Never)
BY AgesNat DEF Older, Ages

\* A source is recorded as canonical only for a block on its main chain.
LEMMA ObserveParent ==
    ASSUME NEW r \in Reply
    PROVE  /\ observe_parent(r) \in ParentLookupState
           /\ observe_parent(r) = "canonical" => r = "main"
BY EvidenceAssumption DEF observe_parent, ParentLookupState, AnyReply

\* classify_observations gives one of the six states.
LEMMA ClassifyType ==
    ASSUME NEW obs
    PROVE  /\ classify_observations(obs) \in ParentLookupState
           /\ sources_agree(obs) \in BOOLEAN
<1> DEFINE has(st) == \E s \in DOMAIN obs : obs[s] = st
<1>1. classify_observations(obs) =
        CASE DOMAIN obs = {} -> "not_configured"
          [] \/ has("disagreement")
             \/ has("canonical") /\ (has("not_found") \/ has("orphaned")) -> "disagreement"
          [] has("canonical") -> "canonical"
          [] has("orphaned")  -> "orphaned"
          [] has("not_found") -> "not_found"
          [] OTHER            -> "unavailable"
  BY DEF classify_observations
<1> HIDE DEF has
<1>2. classify_observations(obs) \in ParentLookupState
  BY <1>1 DEF ParentLookupState
<1>3. sources_agree(obs) \in BOOLEAN
  BY DEF sources_agree
<1> QED BY <1>2, <1>3

\* The record of a block nobody verified yet.
LEMMA NoEvidenceType == NoEvidence \in Evidence
<1>1. [s \in {} |-> "unavailable"] \in [{} -> ParentLookupState]
  OBVIOUS
<1>2. [s \in {} |-> "unavailable"] \in UNION {[S -> ParentLookupState] : S \in SUBSET Source}
  BY <1>1
<1>3. "not_configured" \in ParentLookupState
  BY DEF ParentLookupState
<1> QED BY <1>2, <1>3, AgesNat DEF NoEvidence, Evidence

\* One verification of a block: a record of age 0, and what it says is backed
\* by what the sources said just now.
LEMMA VerifiedFacts ==
    ASSUME configured \subseteq Source,
           NEW old \in Evidence, NEW reply \in [configured -> Reply]
    PROVE  /\ Verified(old, reply) \in Evidence
           /\ Verified(old, reply).age = 0
           /\ Verified(old, reply).held = old.held
           /\ old.held = 0 => Backed(Verified(old, reply))
<1> DEFINE obs == [s \in configured |-> observe_parent(reply[s])]
           told == [s \in Source |->
                      IF s \in configured /\ reply[s] = "main" THEN 0 ELSE old.told[s]]
<1>1. \A s \in configured : reply[s] \in Reply
  OBVIOUS
<1>2. obs \in [configured -> ParentLookupState]
  BY <1>1, ObserveParent
<1>3. obs \in UNION {[S -> ParentLookupState] : S \in SUBSET Source}
  BY <1>2
<1>4. told \in [Source -> Ages] /\ old.held \in Ages
  BY AgesNat DEF Evidence
<1>5. Verified(old, reply) =
        [age |-> 0, obs |-> obs, lookup |-> classify_observations(obs),
         agree |-> sources_agree(obs), told |-> told, held |-> old.held]
  BY DEF Verified
<1>6. DOMAIN obs = configured /\ \A s \in configured : obs[s] = "canonical" => told[s] = 0
  BY <1>1, ObserveParent
<1> HIDE DEF obs, told
<1>7. Verified(old, reply) \in Evidence
  BY <1>3, <1>4, <1>5, ClassifyType, AgesNat DEF Evidence
<1>8. old.held = 0 => Backed(Verified(old, reply))
  BY <1>5, <1>6, AgesNat DEF Backed
<1> QED BY <1>5, <1>7, <1>8

\* The same for a block that is selected now.
LEMMA NewlyVerifiedFacts ==
    ASSUME configured \subseteq Source, NEW reply \in [configured -> Reply]
    PROVE  /\ NewlyVerified(reply) \in Evidence
           /\ NewlyVerified(reply).age = 0
           /\ NewlyVerified(reply).held = 0
           /\ Backed(NewlyVerified(reply))
<1> DEFINE old == [NoEvidence EXCEPT !.held = 0]
<1>1. old \in Evidence /\ old.held = 0
  BY NoEvidenceType, AgesNat DEF Evidence
<1>2. NewlyVerified(reply) = Verified(old, reply)
  BY DEF NewlyVerified
<1> HIDE DEF old
<1> QED BY <1>1, <1>2, VerifiedFacts

------------------------------------------------------------------------------
(***************************************************************************)
(* The pieces of a pass.                                                   *)
(***************************************************************************)

\* The records after the selection of the blocks from k+1 to n.
LEMMA SelectedFacts ==
    ASSUME TypeOK, NEW k \in 0..top, NEW n \in k..MaxHeight,
           NEW reply \in Replies(k, n)
    PROVE  /\ Selected(k, n, reply) \in [Blocks -> Evidence]
           /\ \A h \in Blocks :
                 /\ h <= k => Selected(k, n, reply)[h] = ev[h]
                 /\ h > k /\ h <= n => /\ Selected(k, n, reply)[h].age = 0
                                       /\ Selected(k, n, reply)[h].held = 0
                                       /\ Backed(Selected(k, n, reply)[h])
<1>1. top \in 0..MaxHeight /\ MaxHeight \in Nat /\ k \in Nat /\ n \in Nat
  BY EvidenceAssumption DEF TypeOK
<1>2. configured \subseteq Source /\ ev \in [Blocks -> Evidence]
  BY DEF TypeOK
<1> SUFFICES ASSUME NEW h \in Blocks
             PROVE  /\ Selected(k, n, reply)[h] \in Evidence
                    /\ h <= k => Selected(k, n, reply)[h] = ev[h]
                    /\ h > k /\ h <= n => /\ Selected(k, n, reply)[h].age = 0
                                          /\ Selected(k, n, reply)[h].held = 0
                                          /\ Backed(Selected(k, n, reply)[h])
  BY DEF Selected
<1>3. h \in Nat /\ (h > k /\ h <= n => reply[h] \in [configured -> Reply])
  BY <1>1 DEF Blocks, Replies
<1>4. Selected(k, n, reply)[h] =
        IF h <= k THEN ev[h] ELSE IF h <= n THEN NewlyVerified(reply[h]) ELSE NoEvidence
  BY DEF Selected
<1>5. CASE h <= k
  BY <1>1, <1>2, <1>3, <1>4, <1>5
<1>6. CASE h > k /\ h <= n
  BY <1>1, <1>2, <1>3, <1>4, <1>6, NewlyVerifiedFacts
<1>7. CASE h > k /\ h > n
  BY <1>1, <1>3, <1>4, <1>7, NoEvidenceType
<1> QED BY <1>1, <1>3, <1>5, <1>6, <1>7

\* The refresh of one record touches no other, and takes nothing from its age.
LEMMA RefreshedFacts ==
    ASSUME TypeOK, NEW e \in [Blocks -> Evidence], NEW h \in Blocks,
           NEW reply \in [configured -> Reply], NEW m
    PROVE  /\ Refreshed(e, h, reply, m) \in [Blocks -> Evidence]
           /\ \A g \in Blocks : g # h \/ ~Held(h, m) => Refreshed(e, h, reply, m)[g] = e[g]
           /\ Held(h, m) => /\ Refreshed(e, h, reply, m)[h].age = 0
                            /\ Refreshed(e, h, reply, m)[h].held = e[h].held
                            /\ e[h].held = 0 => Backed(Refreshed(e, h, reply, m)[h])
<1>1. configured \subseteq Source /\ e[h] \in Evidence
  BY DEF TypeOK
<1>2. /\ Verified(e[h], reply) \in Evidence
      /\ Verified(e[h], reply).age = 0
      /\ Verified(e[h], reply).held = e[h].held
      /\ e[h].held = 0 => Backed(Verified(e[h], reply))
  BY <1>1, VerifiedFacts
<1>3. Refreshed(e, h, reply, m) = IF Held(h, m) THEN [e EXCEPT ![h] = Verified(e[h], reply)] ELSE e
  BY DEF Refreshed
<1> QED BY <1>2, <1>3

\* A stale tip is the candidate; the candidates are blocks of the chain.
LEMMA CandidateFacts ==
    ASSUME NEW e \in [Blocks -> Evidence], NEW n \in 0..MaxHeight, NEW h \in Candidates(e, n)
    PROVE  /\ h \in Blocks /\ h <= n /\ e[h].age > RefreshInterval
           /\ n \in Blocks /\ e[n].age > RefreshInterval => h = n
<1>1. n \in Nat /\ RefreshDepth \in Nat
  BY EvidenceAssumption
<1>2. \A g \in Stale(e, n) : g \in Blocks /\ g <= n /\ e[g].age > RefreshInterval
  BY DEF Stale, Window
<1>3. n \in Blocks /\ e[n].age > RefreshInterval => n \in Stale(e, n)
  BY <1>1 DEF Stale, Window
<1>4. h \in Stale(e, n) /\ (n \in Stale(e, n) => h = n)
  BY DEF Candidates
<1> QED BY <1>2, <1>3, <1>4

\* When nothing is a candidate the tip is not stale.
LEMMA NoCandidate ==
    ASSUME NEW e \in [Blocks -> Evidence], NEW n \in Blocks, Candidates(e, n) = {}
    PROVE  ~(e[n].age > RefreshInterval)
<1>1. n \in Nat /\ RefreshDepth \in Nat
  BY EvidenceAssumption DEF Blocks
<1>2. e[n].age > RefreshInterval => n \in Stale(e, n)
  BY <1>1 DEF Stale, Window
<1>3. n \in Stale(e, n) => Candidates(e, n) = {n}
  BY DEF Candidates
<1> QED BY <1>2, <1>3

------------------------------------------------------------------------------
(***************************************************************************)
(* The effect of each action on the chain and its records.                 *)
(***************************************************************************)

\* The chain after a selection.
LEMMA SelectType ==
    ASSUME TypeOK, NEW k \in 0..top, NEW n \in k..MaxHeight, Select(k, n)
    PROVE  /\ top' = n /\ n \in 0..MaxHeight /\ same' \in [Blocks -> BOOLEAN]
           /\ \A h \in Blocks : (h <= k => same'[h] = same[h]) /\ (h > k => same'[h])
<1>1. top \in 0..MaxHeight /\ MaxHeight \in Nat /\ k \in Nat /\ n \in Nat
  BY EvidenceAssumption DEF TypeOK
<1>2. \A h \in Blocks : h \in Nat /\ same[h] \in BOOLEAN
  BY <1>1 DEF Blocks, TypeOK
<1>3. same' = [h \in Blocks |-> h <= k => same[h]] /\ top' = n
  BY DEF Select
<1>4. ASSUME NEW h \in Blocks
      PROVE  /\ same'[h] \in BOOLEAN
             /\ h <= k => same'[h] = same[h]
             /\ h > k => same'[h]
  <2>1. same'[h] = (h <= k => same[h])
    BY <1>3
  <2>2. h > k => ~(h <= k)
    BY <1>1, <1>2
  <2> QED BY <1>2, <2>1, <2>2
<1>5. same' \in [Blocks -> BOOLEAN]
  BY <1>3, <1>4
<1> QED BY <1>1, <1>3, <1>4, <1>5

\* What a pass does to the chain and the records when it selects the blocks up
\* to n, and the node has left the chain above m when the refresh asks it.
Ran(n, reply, m) ==
    /\ Select(common, n)
    /\ \/ ev' = Selected(common, n, reply)
       \/ \E h \in Candidates(Selected(common, n, reply), n), r \in [configured -> Reply] :
             ev' = Refreshed(Selected(common, n, reply), h, r, m)

\* A completed pass, and a failed one that had selected something, run like that.
LEMMA PassRuns ==
    ASSUME TypeOK, Pass \/ PassFails
    PROVE  \/ UNCHANGED <<top, common, ev, same>>
           \/ \E n \in common..MaxHeight : \E reply \in Replies(common, n) :
                 common' \in 0..n /\ Ran(n, reply, common')
<1>0. common \in Nat
  BY EvidenceAssumption DEF TypeOK
<1>1. CASE Pass
  <2>1. PICK n \in common..MaxHeight : \E reply \in Replies(common, n) :
          LET e == Selected(common, n, reply) IN
          /\ Select(common, n)
          /\ \/ ev' = e /\ common' = n
             \/ \E h \in Candidates(e, n), r \in [configured -> Reply], m \in 0..n :
                   ev' = Refreshed(e, h, r, m) /\ common' = m
    BY <1>1 DEF Pass
  <2>2. n \in 0..n
    BY <1>0
  <2> QED BY <2>1, <2>2 DEF Ran
<1>2. CASE PassFails
  <2>1. CASE UNCHANGED <<top, common, ev, same, configured, missed, renewed>>
    BY <2>1
  <2>2. ASSUME NEW n \in common..MaxHeight, NEW reply \in Replies(common, n),
               Select(common, n), common' = n,
               \/ ev' = Selected(common, n, reply)
               \/ \E h \in Candidates(Selected(common, n, reply), n), r \in [configured -> Reply] :
                     ev' = Refreshed(Selected(common, n, reply), h, r, n)
        PROVE  common' \in 0..n /\ Ran(n, reply, common')
    BY <1>0, <2>2 DEF Ran
  <2> QED BY <1>2, <2>1, <2>2 DEF PassFails
<1> QED BY <1>1, <1>2

\* Such a run keeps the types.
LEMMA RanType ==
    ASSUME TypeOK, NEW n \in common..MaxHeight, NEW reply \in Replies(common, n), NEW m,
           Ran(n, reply, m)
    PROVE  /\ top' = n /\ n \in 0..MaxHeight /\ same' \in [Blocks -> BOOLEAN]
           /\ ev' \in [Blocks -> Evidence]
<1>1. common \in 0..top /\ Select(common, n)
  BY DEF TypeOK, Ran
<1>2. Selected(common, n, reply) \in [Blocks -> Evidence]
  BY <1>1, SelectedFacts
<1>3. top' = n /\ n \in 0..MaxHeight /\ same' \in [Blocks -> BOOLEAN]
  BY <1>1, SelectType
<1>4. ASSUME NEW h \in Candidates(Selected(common, n, reply), n), NEW r \in [configured -> Reply],
             ev' = Refreshed(Selected(common, n, reply), h, r, m)
      PROVE  ev' \in [Blocks -> Evidence]
  <2>1. h \in Blocks
    BY <1>2, <1>3, CandidateFacts
  <2> QED BY <1>2, <1>4, <2>1, RefreshedFacts
<1> QED BY <1>2, <1>3, <1>4 DEF Ran

\* A tick ages every record and leaves the rest of it.
LEMMA TickFacts ==
    ASSUME TypeOK, Tick, NEW h \in Blocks
    PROVE  /\ ev'[h] \in Evidence /\ ev'[h].obs = ev[h].obs
           /\ ev'[h].age = Older(ev[h].age, Never)
           /\ \A s \in Source : ev'[h].told[s] = Older(ev[h].told[s], Never)
           /\ ev'[h].held = IF Held(h, common) THEN 0 ELSE Older(ev[h].held, Never)
<1>1. ev[h] \in Evidence
  BY DEF TypeOK
<1> DEFINE told == [s \in Source |-> Older(ev[h].told[s], Never)]
           held == IF Held(h, common) THEN 0 ELSE Older(ev[h].held, Never)
<1>2. ev'[h] = [ev[h] EXCEPT !.age = Older(ev[h].age, Never), !.told = told, !.held = held]
  BY <1>1 DEF Tick, Evidence
<1>3. told \in [Source -> Ages] /\ held \in Ages /\ Older(ev[h].age, Never) \in Ages
  BY <1>1, OlderAge, AgesNat DEF Evidence
<1>4. \A s \in Source : told[s] = Older(ev[h].told[s], Never)
  OBVIOUS
<1>5. held = IF Held(h, common) THEN 0 ELSE Older(ev[h].held, Never)
  OBVIOUS
<1> HIDE DEF told, held
<1>6. ev'[h] \in Evidence
  BY <1>1, <1>2, <1>3 DEF Evidence
<1>7. /\ ev'[h].obs = ev[h].obs /\ ev'[h].age = Older(ev[h].age, Never)
      /\ ev'[h].told = told /\ ev'[h].held = held
  BY <1>1, <1>2 DEF Evidence
<1> QED BY <1>4, <1>5, <1>6, <1>7

\* When the node adopts another chain only the time it held a block changes.
LEMMA MoveFacts ==
    ASSUME TypeOK, NodeMoves, NEW h \in Blocks
    PROVE  /\ ev'[h] \in Evidence /\ ev'[h].age = ev[h].age
           /\ ev'[h].obs = ev[h].obs /\ ev'[h].told = ev[h].told
           /\ ev'[h].held = IF Held(h, common') THEN 0 ELSE ev[h].held
<1>1. ev[h] \in Evidence
  BY DEF TypeOK
<1>2. ev'[h] = [ev[h] EXCEPT !.held = IF Held(h, common') THEN 0 ELSE ev[h].held]
  BY DEF NodeMoves
<1> QED BY <1>1, <1>2, AgesNat DEF Evidence

\* Types are kept by every step.
LEMMA TypeStep == TypeOK /\ [Next]_vars => TypeOK'
<1> SUFFICES ASSUME TypeOK, [Next]_vars PROVE TypeOK'
  OBVIOUS
<1>0. /\ ReadyMaxAge \in Nat /\ MaxHeight \in Nat
      /\ missed \in Ages /\ configured \subseteq Source
  BY EvidenceAssumption DEF TypeOK
<1>a. ASSUME Pass \/ PassFails
      PROVE  /\ top' \in 0..MaxHeight /\ common' \in 0..top'
             /\ same' \in [Blocks -> BOOLEAN] /\ ev' \in [Blocks -> Evidence]
  <2>1. CASE UNCHANGED <<top, common, ev, same>>
    BY <2>1 DEF TypeOK
  <2>2. ASSUME NEW n \in common..MaxHeight, NEW reply \in Replies(common, n),
               common' \in 0..n, Ran(n, reply, common')
        PROVE  /\ top' \in 0..MaxHeight /\ common' \in 0..top'
               /\ same' \in [Blocks -> BOOLEAN] /\ ev' \in [Blocks -> Evidence]
    BY <2>2, RanType
  <2> QED BY <1>a, <2>1, <2>2, PassRuns
<1>1. CASE Pass
  <2>1. /\ status' = "ready" /\ beat' = 0 /\ missed' = 0 /\ configured' = configured
        /\ renewed' \in BOOLEAN
    <3>1. \A h, m : Held(h, m) \in BOOLEAN
      BY DEF Held
    <3> QED BY <1>1, <3>1 DEF Pass
  <2> QED BY <1>0, <1>1, <1>a, <2>1, AgesNat DEF TypeOK
<1>2. CASE PassFails
  <2>1. /\ status' \in {status, "error", "syncing"} /\ beat' \in {beat, 0}
        /\ missed' = missed /\ configured' = configured /\ renewed' = renewed
    BY <1>2 DEF PassFails, FailedStatus
  <2> QED BY <1>0, <1>2, <1>a, <2>1 DEF TypeOK
<1>3. CASE Tick
  <2>1. ev' \in [Blocks -> Evidence]
    <3>1. ev' = [h \in Blocks |-> ev'[h]]
      BY <1>3 DEF Tick
    <3> QED BY <1>3, <3>1, TickFacts
  <2>2. missed' \in Ages
    BY <1>0, <1>3, OlderAge DEF Tick
  <2>3. beat' \in 0..ReadyMaxAge + 1
    <3>1. beat \in 0..ReadyMaxAge + 1
      BY DEF TypeOK
    <3>2. beat' = IF beat < ReadyMaxAge + 1 THEN beat + 1 ELSE ReadyMaxAge + 1
      BY <1>3 DEF Tick, Older
    <3> QED BY <1>0, <3>1, <3>2
  <2> QED BY <1>3, <2>1, <2>2, <2>3 DEF Tick, TypeOK
<1>4. CASE Exchange
  <2>1. PICK h \in 1..top :
          /\ same' = [same EXCEPT ![h] = ~same[h]]
          /\ ev' = [ev EXCEPT ![h].held = IF h <= common THEN 0 ELSE ev[h].held]
    BY <1>4 DEF Exchange
  <2>2. h \in Blocks /\ ev \in [Blocks -> Evidence]
    BY <1>0 DEF TypeOK, Blocks
  <2>3. ev' = [ev EXCEPT ![h] = [ev[h] EXCEPT !.held = IF h <= common THEN 0 ELSE ev[h].held]]
    BY <2>1
  <2>4. [ev[h] EXCEPT !.held = IF h <= common THEN 0 ELSE ev[h].held] \in Evidence
    BY <2>2, AgesNat DEF Evidence
  <2>5. ev' \in [Blocks -> Evidence]
    BY <2>2, <2>3, <2>4
  <2>6. same' \in [Blocks -> BOOLEAN]
    BY <2>1, <2>2 DEF TypeOK
  <2> QED BY <1>4, <2>5, <2>6 DEF Exchange, TypeOK
<1>b. CASE NodeMoves
  <2>1. ev' \in [Blocks -> Evidence]
    <3>1. ev' = [h \in Blocks |-> ev'[h]]
      BY <1>b DEF NodeMoves
    <3> QED BY <1>b, <3>1, MoveFacts
  <2> QED BY <1>b, <2>1 DEF NodeMoves, TypeOK
<1>5. CASE Reconfigure
  BY <1>5 DEF Reconfigure, TypeOK
<1>6. CASE UNCHANGED vars
  BY <1>6 DEF vars, TypeOK
<1> QED BY <1>1, <1>2, <1>3, <1>4, <1>b, <1>5, <1>6 DEF Next

\* The first state.
LEMMA InitType == Init => TypeOK
<1> SUFFICES ASSUME Init PROVE TypeOK
  OBVIOUS
<1>1. MaxHeight \in Nat /\ ReadyMaxAge \in Nat
  BY EvidenceAssumption
<1>2. ev \in [Blocks -> Evidence]
  BY NoEvidenceType DEF Init
<1> QED BY <1>1, <1>2, AgesNat DEF Init, TypeOK

\* Every record, age and status keeps its type: the states of a lookup are the
\* six of ParentLookupState whatever the sources answer (auxpow.rs).
THEOREM EvidenceTypeCorrect == Spec => []TypeOK
BY InitType, TypeStep, PTL DEF Spec

------------------------------------------------------------------------------
(***************************************************************************)
(* What a ready explorer is backed by.                                     *)
(***************************************************************************)

\* The backing of a selected block outlasts every step.
LEMMA BackedStep == BackedInv /\ [Next]_vars => BackedInv'
<1> SUFFICES ASSUME BackedInv, [Next]_vars PROVE BackedInv'
  OBVIOUS
<1> DEFINE Good(e, sm, m, h) == Backed(e[h]) /\ (h <= m /\ sm[h] => e[h].held = 0)
<1>0. /\ TypeOK /\ TypeOK' /\ MaxHeight \in Nat /\ top \in 0..MaxHeight /\ common \in 0..top
      /\ \A h \in Blocks : h \in Nat
      /\ \A h \in Blocks : h <= top => Good(ev, same, common, h)
  BY TypeStep, EvidenceAssumption DEF BackedInv, TypeOK, Blocks, Held
<1>a. SUFFICES \A h \in Blocks : h <= top' => Good(ev', same', common', h)
  BY <1>0 DEF BackedInv, Held
<1>6. CASE UNCHANGED <<top, common, ev, same>>
  BY <1>0, <1>6
<1>1. CASE Pass \/ PassFails
  <2>0. SUFFICES ASSUME NEW n \in common..MaxHeight, NEW reply \in Replies(common, n),
                        common' \in 0..n, Ran(n, reply, common')
                 PROVE  \A h \in Blocks : h <= top' => Good(ev', same', common', h)
    BY <1>0, <1>1, <1>6, PassRuns
  <2> DEFINE e == Selected(common, n, reply)
  <2>2. Select(common, n)
    BY <2>0 DEF Ran
  <2>3. e \in [Blocks -> Evidence] /\ common \in Nat /\ n \in 0..MaxHeight /\ top' = n
    BY <1>0, <2>2, SelectedFacts, SelectType
  <2>4. \A h \in Blocks : h <= common => e[h] = ev[h] /\ same'[h] = same[h]
    BY <1>0, <2>2, SelectedFacts, SelectType
  <2>5. \A h \in Blocks : h > common /\ h <= n =>
           Backed(e[h]) /\ e[h].held = 0 /\ e[h].age = 0
    BY <1>0, SelectedFacts
  <2>6. \A h \in Blocks : h <= n => Good(e, same', n, h)
    BY <1>0, <2>3, <2>4, <2>5
  <2>7. CASE ev' = e
    BY <1>0, <2>0, <2>3, <2>6, <2>7
  <2>8. ASSUME NEW c \in Candidates(e, n), NEW r \in [configured -> Reply],
                ev' = Refreshed(e, c, r, common')
        PROVE  \A h \in Blocks : h <= top' => Good(ev', same', common', h)
    <3>1. c \in Blocks /\ c <= n /\ e[c].age > RefreshInterval
      BY <2>3, CandidateFacts
    <3>2. c <= common
      BY <1>0, <2>3, <2>5, <3>1, AgesNat
    <3> HIDE DEF e
    <3>4. \A g \in Blocks : g # c \/ ~Held(g, common') => ev'[g] = e[g]
      <4>1. \A g \in Blocks : g # c \/ ~Held(c, common') => ev'[g] = e[g]
        BY <1>0, <2>3, <2>8, <3>1, RefreshedFacts
      <4> QED BY <4>1
    <3>5. Held(c, common') => /\ ev'[c].held = e[c].held
                              /\ e[c].held = 0 => Backed(ev'[c])
      BY <1>0, <2>3, <2>8, <3>1, RefreshedFacts
    <3>6. CASE Held(c, common')
      <4>1. same[c] /\ e[c].held = 0
        BY <2>4, <2>6, <3>1, <3>2, <3>6 DEF Held
      <4>2. Good(ev', same', common', c)
        BY <3>5, <3>6, <4>1
      <4>3. \A g \in Blocks : g <= n /\ g # c => Good(ev', same', common', g)
        BY <1>0, <2>0, <2>3, <2>6, <3>4
      <4> QED BY <2>3, <4>2, <4>3
    <3>7. CASE ~Held(c, common')
      <4>1. \A g \in Blocks : ev'[g] = e[g]
        BY <3>4, <3>7
      <4> QED BY <1>0, <2>0, <2>3, <2>6, <4>1
    <3> QED BY <3>6, <3>7
  <2> QED BY <2>0, <2>7, <2>8 DEF Ran
<1>3. CASE Tick
  <2> SUFFICES ASSUME NEW h \in Blocks, h <= top' PROVE Good(ev', same', common', h)
    OBVIOUS
  <2>1. /\ h <= top /\ Good(ev, same, common, h) /\ ev[h] \in Evidence
        /\ same' = same /\ common' = common
    BY <1>0, <1>3 DEF Tick, TypeOK
  <2>2. /\ ev'[h].obs = ev[h].obs
        /\ ev'[h].age = Older(ev[h].age, Never)
        /\ \A s \in Source : ev'[h].told[s] = Older(ev[h].told[s], Never)
        /\ ev'[h].held = IF h <= common /\ same[h] THEN 0 ELSE Older(ev[h].held, Never)
    BY <1>0, <1>3, TickFacts DEF Held
  <2>3. ev[h].age \in Ages /\ ev[h].held \in Ages /\ ev[h].told \in [Source -> Ages]
    BY <2>1 DEF Evidence
  <2>4. DOMAIN ev[h].obs \subseteq Source
    BY <2>1 DEF Evidence
  <2>5. \A s \in DOMAIN ev'[h].obs : ev'[h].obs[s] = "canonical" => ev'[h].told[s] <= ev'[h].age
    <3> SUFFICES ASSUME NEW s \in DOMAIN ev[h].obs, ev[h].obs[s] = "canonical"
                 PROVE  ev'[h].told[s] <= ev'[h].age
      BY <2>2
    <3>1. ev[h].told[s] <= ev[h].age /\ ev[h].told[s] \in Ages
      BY <2>1, <2>3, <2>4 DEF Backed
    <3> QED BY <2>2, <2>3, <2>4, <3>1, OlderMonotone
  <2>6. ev'[h].held <= ev'[h].age /\ (h <= common' /\ same'[h] => ev'[h].held = 0)
    <3>1. ev[h].held <= ev[h].age
      BY <2>1 DEF Backed
    <3>2. Older(ev[h].held, Never) <= Older(ev[h].age, Never)
      BY <2>3, <3>1, OlderMonotone
    <3>3. Older(ev[h].age, Never) \in Ages
      BY <2>3, OlderAge
    <3>4. 0 <= Older(ev[h].age, Never)
      <4>1. Older(ev[h].age, Never) \in Nat
        BY <3>3, AgesNat
      <4> QED BY <4>1
    <3> QED BY <2>1, <2>2, <3>2, <3>4 DEF Backed
  <2> QED BY <2>5, <2>6 DEF Backed
<1>4. CASE Exchange
  <2>1. PICK g \in 1..top :
          /\ same' = [same EXCEPT ![g] = ~same[g]]
          /\ ev' = [ev EXCEPT ![g].held = IF g <= common THEN 0 ELSE ev[g].held]
    BY <1>4 DEF Exchange
  <2>2. /\ ev \in [Blocks -> Evidence] /\ same \in [Blocks -> BOOLEAN]
        /\ top' = top /\ common' = common
    BY <1>0, <1>4 DEF Exchange, TypeOK
  <2> SUFFICES ASSUME NEW h \in Blocks, h <= top PROVE Good(ev', same', common, h)
    BY <2>2
  <2>3. Good(ev, same, common, h) /\ ev[h] \in Evidence
    BY <1>0, <2>2
  <2>4. CASE h = g
    <3>1. ev'[h] = [ev[h] EXCEPT !.held = IF h <= common THEN 0 ELSE ev[h].held]
      BY <2>1, <2>2, <2>4
    <3>2. /\ ev'[h].held = IF h <= common THEN 0 ELSE ev[h].held
          /\ ev'[h].age = ev[h].age
          /\ ev'[h].obs = ev[h].obs /\ ev'[h].told = ev[h].told
      BY <2>3, <3>1 DEF Evidence
    <3>3. ev[h].age \in Ages
      BY <2>3 DEF Evidence
    <3>4. 0 <= ev[h].age
      <4>1. ev[h].age \in Nat
        BY <3>3, AgesNat
      <4> QED BY <4>1
    <3> QED BY <2>3, <3>2, <3>4 DEF Backed
  <2>5. CASE h # g
    BY <2>1, <2>2, <2>3, <2>5
  <2> QED BY <2>4, <2>5
<1>b. CASE NodeMoves
  <2> SUFFICES ASSUME NEW h \in Blocks, h <= top PROVE Good(ev', same, common', h)
    BY <1>b DEF NodeMoves
  <2>1. Backed(ev[h]) /\ ev[h] \in Evidence
    BY <1>0 DEF TypeOK
  <2>2. /\ ev'[h].age = ev[h].age /\ ev'[h].obs = ev[h].obs /\ ev'[h].told = ev[h].told
        /\ ev'[h].held = IF h <= common' /\ same[h] THEN 0 ELSE ev[h].held
    BY <1>0, <1>b, MoveFacts DEF Held
  <2>3. 0 <= ev[h].age
    <3>1. ev[h].age \in Nat
      BY <2>1, AgesNat DEF Evidence
    <3> QED BY <3>1
  <2> QED BY <2>1, <2>2, <2>3 DEF Backed
<1>5. CASE Reconfigure
  BY <1>6, <1>5 DEF Reconfigure
<1>7. CASE UNCHANGED vars
  BY <1>6, <1>7 DEF vars
<1> QED BY <1>1, <1>3, <1>4, <1>b, <1>5, <1>7 DEF Next

\* A ready probe looked at a backed record.
LEMMA BackedReady == BackedInv => ReadyBacked
<1> SUFFICES ASSUME BackedInv, ready, top > 0
             PROVE  /\ \E s, t \in Source : s # t /\ \A u \in {s, t} :
                          ev[top].told[u] <= PARENT_EVIDENCE_MAX_AGE
                    /\ ev[top].held <= PARENT_EVIDENCE_MAX_AGE
  BY DEF ReadyBacked
<1>1. top \in Blocks /\ ev[top] \in Evidence /\ Backed(ev[top])
  BY EvidenceAssumption DEF BackedInv, TypeOK, Blocks
<1>2. /\ TwoSources(DOMAIN ev[top].obs)
      /\ \A s \in DOMAIN ev[top].obs : ev[top].obs[s] = "canonical"
      /\ ev[top].age <= PARENT_EVIDENCE_MAX_AGE
  BY EvidenceAssumption DEF ready, parent_evidence_ready, BackedInv, TypeOK
<1>3. /\ DOMAIN ev[top].obs \subseteq Source
      /\ ev[top].age \in Nat /\ ev[top].held \in Nat /\ \A s \in Source : ev[top].told[s] \in Nat
  BY <1>1, AgesNat DEF Evidence
<1>4. \A s \in DOMAIN ev[top].obs : ev[top].told[s] <= PARENT_EVIDENCE_MAX_AGE
  BY <1>1, <1>2, <1>3, AgesNat DEF Backed
<1>5. PICK s, t \in DOMAIN ev[top].obs : s # t
  BY <1>2 DEF TwoSources
<1>6. ev[top].held <= PARENT_EVIDENCE_MAX_AGE
  BY <1>1, <1>2, <1>3, AgesNat DEF Backed
<1> QED BY <1>3, <1>4, <1>5, <1>6

\* The strict probe (api.rs ready) never answers ready on evidence older than
\* the maximum age: within it two parent sources had the tip's parent block on
\* their main chain and the node had the tip with the selected witness on its
\* own, for any sources and intervals, exchanges of witnesses and moves of the
\* node's chain.
THEOREM ReadyIsBacked == Spec => []ReadyBacked
<1>1. Init => BackedInv
  <2> SUFFICES ASSUME Init PROVE \A h \in Blocks : ~(h <= top)
    BY InitType DEF BackedInv
  <2> QED BY EvidenceAssumption DEF Init, Blocks
<1> QED BY <1>1, BackedStep, BackedReady, PTL DEF Spec

------------------------------------------------------------------------------
(***************************************************************************)
(* How old the evidence of the tip can become.                             *)
(***************************************************************************)

\* After a completed pass that reached its record the tip is at most one refresh
\* interval old, and every tick without a pass adds one.
LEMMA FreshStep == FreshInv /\ [Next]_vars => FreshInv'
<1> SUFFICES ASSUME FreshInv, [Next]_vars PROVE FreshInv'
  OBVIOUS
<1>0. /\ TypeOK /\ TypeOK' /\ MaxHeight \in Nat /\ top \in 0..MaxHeight /\ common \in 0..top
      /\ missed \in Ages /\ \A h \in Blocks : h \in Nat
  BY TypeStep, EvidenceAssumption DEF FreshInv, TypeOK, Blocks
<1>1. CASE Pass
  <2>1. PICK n \in common..MaxHeight : \E reply \in Replies(common, n) :
          LET e == Selected(common, n, reply) IN
          /\ Select(common, n)
          /\ \/ Candidates(e, n) = {} /\ ev' = e
             \/ \E h \in Candidates(e, n), r \in [configured -> Reply], m \in 0..n :
                   ev' = Refreshed(e, h, r, m) /\ renewed' = Held(h, m)
    BY <1>1 DEF Pass
  <2>2. PICK reply \in Replies(common, n) :
          /\ Select(common, n)
          /\ \/ Candidates(Selected(common, n, reply), n) = {} /\ ev' = Selected(common, n, reply)
             \/ \E h \in Candidates(Selected(common, n, reply), n), r \in [configured -> Reply], m \in 0..n :
                   ev' = Refreshed(Selected(common, n, reply), h, r, m) /\ renewed' = Held(h, m)
    BY <2>1
  <2> DEFINE e == Selected(common, n, reply)
  <2>3. e \in [Blocks -> Evidence] /\ n \in 0..MaxHeight /\ top' = n /\ missed' = 0
    BY <1>0, <1>1, <2>2, SelectedFacts, SelectType DEF Pass
  <2>5. ASSUME n > 0, renewed' PROVE ev'[n].age <= RefreshInterval
    <3>0. n \in Blocks
      BY <1>0, <2>3, <2>5 DEF Blocks
    <3>1. n \in Blocks /\ e[n].age \in Nat
      <4> HIDE DEF e
      <4>1. e[n] \in Evidence
        BY <2>3, <3>0
      <4>2. e[n].age \in Ages
        BY <4>1 DEF Evidence
      <4> QED BY <3>0, <4>2, AgesNat
    <3>2. CASE Candidates(e, n) = {} /\ ev' = e
      BY <2>3, <3>1, <3>2, NoCandidate, AgesNat
    <3>3. ASSUME NEW h \in Candidates(e, n), NEW r \in [configured -> Reply], NEW m \in 0..n,
                 ev' = Refreshed(e, h, r, m), renewed' = Held(h, m)
          PROVE  ev'[n].age <= RefreshInterval
      <4>1. h \in Blocks /\ (e[n].age > RefreshInterval => h = n)
        BY <2>3, <3>1, CandidateFacts
      <4>2. Held(h, m)
        BY <2>5, <3>3
      <4> HIDE DEF e
      <4>3. n # h => ev'[n] = e[n]
        BY <1>0, <2>3, <3>1, <3>3, <4>1, <4>2, RefreshedFacts
      <4>4. ev'[h].age = 0
        BY <1>0, <2>3, <3>3, <4>1, <4>2, RefreshedFacts
      <4> QED BY <3>1, <4>1, <4>3, <4>4, AgesNat
    <3> QED BY <2>2, <3>2, <3>3
  <2>6. n \in Nat /\ RefreshInterval \in Nat
    BY <1>0, <2>3, AgesNat
  <2> QED BY <1>0, <2>3, <2>5, <2>6 DEF FreshInv
<1>2. CASE PassFails
  <2> SUFFICES ASSUME status' = "ready", top' > 0, renewed'
               PROVE  ev'[top'].age <= RefreshInterval + missed'
    BY <1>0 DEF FreshInv
  <2>1. missed' = missed /\ renewed' = renewed
    BY <1>2 DEF PassFails
  <2>2. ASSUME status = "ready", top' = top, top \in Blocks => ev'[top].age <= ev[top].age
        PROVE  ev'[top'].age <= RefreshInterval + missed'
    <3>1. top \in Blocks /\ ev[top].age <= RefreshInterval + missed
      BY <1>0, <2>1, <2>2 DEF FreshInv, Blocks
    <3>2. ev[top] \in Evidence /\ ev'[top] \in Evidence
      BY <1>0, <3>1 DEF TypeOK
    <3>3. ev[top].age \in Nat /\ ev'[top].age \in Nat /\ missed \in Nat /\ RefreshInterval \in Nat
      BY <1>0, <3>2, AgesNat DEF Evidence
    <3> QED BY <2>1, <2>2, <3>1, <3>3
  <2>3. CASE FailedStatus(TRUE) /\ UNCHANGED <<top, common, ev, same, configured, missed, renewed>>
    <3>1. status = "ready" /\ top' = top /\ ev' = ev
      BY <2>3 DEF FailedStatus
    <3>2. top \in Blocks => ev[top].age \in Nat
      BY <1>0, AgesNat DEF TypeOK, Evidence
    <3> QED BY <2>2, <3>1, <3>2
  <2>4. ASSUME NEW n \in common..MaxHeight, NEW reply \in Replies(common, n),
               FailedStatus(common = top /\ n = top), Select(common, n),
               \/ ev' = Selected(common, n, reply)
               \/ \E h \in Candidates(Selected(common, n, reply), n), r \in [configured -> Reply] :
                     ev' = Refreshed(Selected(common, n, reply), h, r, n)
        PROVE  ev'[top'].age <= RefreshInterval + missed'
    <3> DEFINE e == Selected(common, n, reply)
    <3>1. common = top /\ n = top /\ status = "ready"
      BY <2>4 DEF FailedStatus
    <3>2. e \in [Blocks -> Evidence] /\ top' = n /\ n \in 0..MaxHeight
      BY <1>0, <2>4, SelectedFacts, SelectType
    <3>3. top \in Blocks => e[top] = ev[top]
      BY <1>0, <3>1, SelectedFacts
    <3>4. top \in Blocks => ev[top].age \in Nat
      BY <1>0, AgesNat DEF TypeOK, Evidence
    <3> HIDE DEF e
    <3>5. CASE ev' = e
      BY <2>2, <3>1, <3>2, <3>3, <3>4, <3>5
    <3>6. ASSUME NEW h \in Candidates(e, n), NEW r \in [configured -> Reply],
                 ev' = Refreshed(e, h, r, n)
          PROVE  top \in Blocks => ev'[top].age <= ev[top].age
      <4>1. h \in Blocks
        BY <3>2, CandidateFacts
      <4>2. ASSUME top \in Blocks PROVE ev'[top] = e[top] \/ ev'[top].age = 0
        BY <1>0, <3>2, <3>6, <4>1, <4>2, RefreshedFacts
      <4> QED BY <3>3, <3>4, <4>2
    <3> QED BY <2>2, <2>4, <3>1, <3>2, <3>5, <3>6 DEF e
  <2> QED BY <1>2, <2>3, <2>4 DEF PassFails
<1>3. CASE Tick
  <2>1. /\ top' = top /\ status' = status /\ renewed' = renewed
        /\ missed' = Older(missed, Never)
    BY <1>3 DEF Tick
  <2>2. ASSUME status = "ready", top > 0, renewed
        PROVE  ev'[top].age <= RefreshInterval + missed'
    <3>1. top \in Blocks /\ ev[top].age \in Ages
      BY <1>0, <2>2 DEF TypeOK, Evidence, Blocks
    <3>2. ev'[top].age = Older(ev[top].age, Never)
      BY <1>0, <1>3, <3>1, TickFacts
    <3>3. ev[top].age <= RefreshInterval + missed
      BY <2>2 DEF FreshInv
    <3>4. missed' = IF missed < Never THEN missed + 1 ELSE Never
      BY <2>1 DEF Older
    <3>5. Older(ev[top].age, Never) <= ev[top].age + 1 /\ Older(ev[top].age, Never) <= Never
      BY <3>1, OlderAge, AgesNat DEF Ages
    <3>6. Older(ev[top].age, Never) \in Nat
      BY <3>1, OlderAge, AgesNat
    <3>7. /\ missed \in Nat /\ ev[top].age \in Nat /\ Never \in Nat
          /\ RefreshInterval \in Nat
      BY <1>0, <3>1, AgesNat
    <3> QED BY <3>2, <3>3, <3>4, <3>5, <3>6, <3>7
  <2> QED BY <1>0, <2>1, <2>2 DEF FreshInv
<1>4. ASSUME Exchange \/ NodeMoves PROVE FreshInv'
  <2>1. top' = top /\ status' = status /\ missed' = missed /\ renewed' = renewed
    BY <1>4 DEF Exchange, NodeMoves
  <2>2. \A h \in Blocks : ev'[h].age = ev[h].age
    <3>1. CASE Exchange
      <4>1. PICK g \in 1..top :
              ev' = [ev EXCEPT ![g].held = IF g <= common THEN 0 ELSE ev[g].held]
        BY <3>1 DEF Exchange
      <4>2. ev \in [Blocks -> Evidence]
        BY <1>0 DEF TypeOK
      <4>3. \A h \in Blocks : /\ h # g => ev'[h] = ev[h]
                              /\ h = g => ev'[h] = [ev[h] EXCEPT !.held = IF g <= common THEN 0 ELSE ev[g].held]
        BY <4>1, <4>2
      <4> QED BY <4>2, <4>3 DEF Evidence
    <3>2. CASE NodeMoves
      BY <1>0, <3>2, MoveFacts
    <3> QED BY <1>4, <3>1, <3>2
  <2>3. top > 0 => top \in Blocks
    BY <1>0 DEF Blocks
  <2> QED BY <1>0, <2>1, <2>2, <2>3 DEF FreshInv
<1>5. CASE Reconfigure
  BY <1>0, <1>5 DEF Reconfigure, FreshInv
<1>6. CASE UNCHANGED vars
  BY <1>0, <1>6 DEF vars, FreshInv
<1> QED BY <1>1, <1>2, <1>3, <1>4, <1>5, <1>6 DEF Next

\* After a completed pass whose refresh reached its record, the refresh query
\* (db.rs, evidence_refresh_candidate) keeps the evidence of the tip within its
\* maximum age although every pass of a whole refresh interval fails: for every
\* interval, depth and chain, through every rollback, exchange of a witness and
\* reorganization within a pass.
THEOREM TipStaysFresh == Spec => []TipEvidenceFresh
<1>1. Init => FreshInv
  BY InitType, EvidenceAssumption DEF Init, FreshInv
<1>2. FreshInv => TipEvidenceFresh
  <2> SUFFICES ASSUME FreshInv, status = "ready", top > 0, renewed, missed <= RefreshInterval
               PROVE  ev[top].age <= PARENT_EVIDENCE_MAX_AGE
    BY DEF TipEvidenceFresh
  <2>1. ev[top].age <= RefreshInterval + missed
    BY DEF FreshInv
  <2>2. ev[top].age \in Nat /\ missed \in Nat
    <3>1. top \in Blocks
      BY EvidenceAssumption DEF FreshInv, TypeOK, Blocks
    <3>2. ev[top] \in Evidence /\ missed \in Ages
      BY <3>1 DEF FreshInv, TypeOK
    <3>3. ev[top].age \in Ages
      BY <3>2 DEF Evidence
    <3> QED BY <3>2, <3>3, AgesNat
  <2> QED BY <2>1, <2>2, AgesNat
<1> QED BY <1>1, <1>2, FreshStep, PTL DEF Spec

------------------------------------------------------------------------------
(***************************************************************************)
(* Powers of the base, and numbers in it.                                  *)
(***************************************************************************)
LEMMA BaseIsNat == Base \in Nat /\ Base >= 4 /\ Base > 0
BY AuxPowAssumption

LEMMA Powers ==
    /\ Power[0] = 1
    /\ \A n \in Nat : Power[n] \in Nat \ {0} /\ Power[n + 1] = Base * Power[n]
<1> DEFINE V == Nat \ {0}
           next == [p \in Nat \X V |-> Base * p[2]]
           Solves(g) == g = [n \in Nat |-> IF n = 0 THEN 1 ELSE Base * g[n - 1]]
<1>1. next \in StepFunctions(V)
  <2>1. \A p \in Nat \X V : Base * p[2] \in V
    BY BaseIsNat
  <2> QED
    BY <2>1 DEF StepFunctions
<1>2. PICK f \in [Nat -> V] : f[0] = 1 /\ \A n \in Nat : f[n + 1] = Base * f[n]
  <2>0. 1 \in V
    OBVIOUS
  <2>1. PICK f \in [Nat -> V] : Iterates(f, 1, next)
    <3> HIDE DEF V, next
    <3> QED
      BY <1>1, <2>0, Recursion
  <2>2. \A n \in Nat : next[<<n, f[n]>>] = Base * f[n]
    OBVIOUS
  <2> QED
    BY <2>1, <2>2 DEF Iterates
<1>3. Solves(f)
  <2>1. \A n \in Nat : n # 0 => n - 1 \in Nat /\ (n - 1) + 1 = n
    OBVIOUS
  <2>2. \A n \in Nat : n # 0 => f[n] = Base * f[n - 1]
    BY <1>2, <2>1
  <2>3. \A n \in Nat : f[n] = IF n = 0 THEN 1 ELSE Base * f[n - 1]
    BY <1>2, <2>2
  <2> QED
    BY <1>2, <2>3
<1>4. Power = CHOOSE g : Solves(g)
  BY DEF Power
<1> HIDE DEF Solves
<1>5. Solves(Power)
  BY <1>3, <1>4
<1>6. Power[0] = 1 /\ \A n \in Nat : Power[n + 1] = Base * Power[n]
  <2>1. Power = [n \in Nat |-> IF n = 0 THEN 1 ELSE Base * Power[n - 1]]
    BY <1>5 DEF Solves
  <2>2. \A n \in Nat : n + 1 \in Nat /\ n + 1 # 0 /\ (n + 1) - 1 = n
    OBVIOUS
  <2>3. \A n \in Nat : Power[n] = IF n = 0 THEN 1 ELSE Base * Power[n - 1]
    BY <2>1
  <2> QED
    BY <2>2, <2>3
<1> DEFINE P == {n \in Nat : Power[n] \in V}
<1>7. 0 \in P
  BY <1>6
<1>8. ASSUME NEW n \in P PROVE n + 1 \in P
  <2>1. n \in Nat /\ Power[n] \in V /\ Power[n + 1] = Base * Power[n]
    BY <1>6
  <2>2. Base * Power[n] \in V
    BY <2>1, BaseIsNat
  <2> QED
    BY <2>1, <2>2
<1>9. P = Nat
  <2> HIDE DEF P
  <2>1. P \in SUBSET Nat
    BY DEF P
  <2> QED
    BY <1>7, <1>8, <2>1, Induction
<1>10. \A n \in Nat : Power[n] \in V
  BY <1>9
<1> HIDE DEF P
<1> QED
  BY <1>6, <1>10

LEMMA SmallPowers ==
    /\ Power[0] = 1 /\ Power[1] = Base /\ Power[2] = Base * Base
    /\ Power[3] = Base * (Base * Base) /\ Power[4] = Base * (Base * (Base * Base))
    /\ Power[2] \in Nat /\ Power[3] \in Nat /\ Power[4] \in Nat
<1>1. \A n \in Nat : Power[n + 1] = Base * Power[n]
  BY Powers
<1>2. Power[0 + 1] = Base * Power[0] /\ Power[1 + 1] = Base * Power[1]
      /\ Power[2 + 1] = Base * Power[2] /\ Power[3 + 1] = Base * Power[3]
  BY <1>1
<1>3. Power[0] = 1 /\ Power[1] = Base * 1 /\ Power[2] = Base * Power[1]
      /\ Power[3] = Base * Power[2] /\ Power[4] = Base * Power[3]
  BY <1>2, Powers
<1>4. Power[1] = Base
  BY <1>3, BaseIsNat
<1> QED
  BY <1>3, <1>4, Powers

\* LittleEndian adds up the bytes from the first one.
LEMMA LittleEndianAddsUp ==
    ASSUME NEW bytes \in Seq(Nat)
    PROVE  \E f \in [0..Len(bytes) -> Nat] :
              /\ f[0] = 0
              /\ \A n \in 1..Len(bytes) : f[n] = f[n - 1] + bytes[n] * Power[n - 1]
              /\ LittleEndian(bytes) = f[Len(bytes)]
<1> DEFINE L == Len(bytes)
           next == [p \in Nat \X Nat |->
                       IF p[1] + 1 <= L THEN p[2] + bytes[p[1] + 1] * Power[p[1]] ELSE 0]
           step(g, n) == IF n = 0 THEN 0 ELSE g[n - 1] + bytes[n] * Power[n - 1]
           Solves(g) == g = [n \in 0..L |-> step(g, n)]
           value == CHOOSE g : Solves(g)
<1>1. L \in Nat /\ \A n \in 1..L : bytes[n] \in Nat
  OBVIOUS
<1>2. LittleEndian(bytes) = value[L]
  BY DEF LittleEndian
<1> HIDE DEF L
<1>3. next \in StepFunctions(Nat)
  <2>1. ASSUME NEW i \in Nat, NEW v \in Nat, i + 1 <= L
        PROVE  v + bytes[i + 1] * Power[i] \in Nat
    <3>1. i + 1 \in 1..L
      BY <1>1, <2>1
    <3>2. bytes[i + 1] \in Nat /\ Power[i] \in Nat
      BY <1>1, <3>1, Powers
    <3> QED
      BY <3>2
  <2>2. \A p \in Nat \X Nat : next[p] \in Nat
    BY <2>1
  <2> QED
    BY <2>2 DEF StepFunctions
<1>4. PICK h \in [Nat -> Nat] :
         h[0] = 0 /\ \A n \in Nat : n + 1 <= L => h[n + 1] = h[n] + bytes[n + 1] * Power[n]
  <2>1. PICK h \in [Nat -> Nat] : Iterates(h, 0, next)
    BY <1>3, Recursion
  <2>2. \A n \in Nat : n + 1 <= L => next[<<n, h[n]>>] = h[n] + bytes[n + 1] * Power[n]
    OBVIOUS
  <2> HIDE DEF next
  <2> QED
    BY <2>1, <2>2 DEF Iterates
<1> DEFINE f == [n \in 0..L |-> h[n]]
<1>5. \A n \in 1..L : h[n] = h[n - 1] + bytes[n] * Power[n - 1]
  <2> TAKE n \in 1..L
  <2>1. n - 1 \in Nat /\ (n - 1) + 1 = n /\ n <= L
    BY <1>1
  <2> QED
    BY <1>4, <2>1
<1>6. f \in [0..L -> Nat] /\ f[0] = 0 /\ \A n \in 1..L : f[n] = f[n - 1] + bytes[n] * Power[n - 1]
  <2>1. \A n \in 1..L : n \in 0..L /\ n - 1 \in 0..L
    BY <1>1
  <2>2. 0 \in 0..L /\ \A n \in 0..L : n \in Nat
    BY <1>1
  <2> QED
    BY <1>4, <1>5, <2>1, <2>2
<1> HIDE DEF f, next
<1>7. Solves(f)
  <2>1. \A n \in 0..L : n # 0 => n \in 1..L
    BY <1>1
  <2>2. \A n \in 0..L : f[n] = step(f, n)
    BY <1>6, <2>1
  <2> HIDE DEF step
  <2> QED
    BY <1>6, <2>2
<1>8. Solves(value)
  <2> HIDE DEF Solves
  <2> QED
    BY <1>7
<1>9. value = f
  <2> DEFINE A == {n \in Nat : n <= L => value[n] = f[n]}
  <2>1. value = [n \in 0..L |-> step(value, n)]
    BY <1>8
  <2> HIDE DEF value
  <2>2. \A n \in 0..L : value[n] = step(value, n) /\ f[n] = step(f, n)
    BY <1>7, <2>1
  <2>0. ASSUME NEW m \in Nat, NEW l \in Nat, m + 1 <= l
        PROVE  m \in Nat /\ m + 1 \in 0..l /\ m + 1 # 0 /\ (m + 1) - 1 = m /\ m <= l
    BY <2>0
  <2>3. 0 \in A
    BY <1>1, <2>2
  <2>4. ASSUME NEW n \in A PROVE n + 1 \in A
    <3>0. n \in Nat /\ (n <= L => value[n] = f[n])
      OBVIOUS
    <3>1. CASE n + 1 <= L
      <4>1. n \in Nat /\ n + 1 \in 0..L /\ n + 1 # 0 /\ (n + 1) - 1 = n /\ n <= L
        BY <1>1, <2>0, <3>0, <3>1
      <4>2. value[n + 1] = step(value, n + 1) /\ f[n + 1] = step(f, n + 1) /\ value[n] = f[n]
        BY <2>2, <3>0, <4>1
      <4> QED
        BY <4>1, <4>2
    <3>2. CASE ~(n + 1 <= L)
      <4>1. n + 1 \in Nat /\ (n + 1 <= L => value[n + 1] = f[n + 1])
        BY <3>0, <3>2
      <4> QED
        BY <4>1
    <3> QED
      BY <3>1, <3>2
  <2>5. A = Nat
    <3> HIDE DEF A
    <3>1. A \in SUBSET Nat
      BY DEF A
    <3> QED
      BY <2>3, <2>4, <3>1, Induction
  <2>6. \A n \in 0..L : value[n] = f[n]
    <3>1. \A n \in Nat : n <= L => value[n] = f[n]
      BY <2>5
    <3> HIDE DEF A
    <3> QED
      BY <1>1, <3>1
  <2> HIDE DEF step, A
  <2> QED
    BY <1>6, <2>1, <2>6
<1> QED
  BY <1>2, <1>6, <1>9 DEF L

LEMMA Divided ==
    ASSUME NEW b \in Nat, b > 0, NEW x \in 0 .. b - 1, NEW m \in Nat, NEW n, n = x + b * m
    PROVE  n \div b = m /\ n % b = x
OBVIOUS

\* The digit at a place.
LEMMA Digit ==
    ASSUME NEW b \in Nat, b > 0, NEW p \in Nat, p > 0,
           NEW low \in 0 .. p - 1, NEW x \in 0 .. b - 1, NEW high \in Nat,
           NEW m \in Nat, m = x + b * high, NEW n, n = low + p * m
    PROVE  (n \div p) % b = x
<1>1. (low + p * m) \div p = m
  OBVIOUS
<1>2. m % b = x
  OBVIOUS
<1> QED
  BY <1>1, <1>2

\* Numbers of two and of four bytes.
Two(a, b) == a + Base * b
Four(a, b, c, d) == a + Base * (b + Base * (c + Base * d))

LEMMA TwoDigits ==
    ASSUME NEW a \in Byte, NEW b \in Byte
    PROVE  /\ Two(a, b) \in Nat /\ Two(a, b) < Power[2]
           /\ ToBytes(Two(a, b), 2) = <<a, b>>
<1> DEFINE n == Two(a, b)
<1>1. a \in Nat /\ b \in Nat /\ a < Base /\ b < Base
  BY BaseIsNat DEF Byte
<1>2. n \in Nat /\ n = a + Base * b
  BY <1>1, BaseIsNat DEF Two
<1>3. n < Base * Base
  <2>1. Base * b <= Base * (Base - 1)
    BY <1>1, BaseIsNat
  <2> QED
    BY <1>1, <1>2, <2>1, BaseIsNat
<1> HIDE DEF n
<1>4. (n \div Power[0]) % Base = a
  <2>1. n = 0 + 1 * n /\ 0 \in 0 .. 1 - 1 /\ a \in 0 .. Base - 1
    BY <1>1, <1>2, BaseIsNat
  <2> QED
    BY <1>1, <1>2, <2>1, BaseIsNat, SmallPowers, Digit
<1>5. (n \div Power[1]) % Base = b
  <2>1. b = b + Base * 0 /\ a \in 0 .. Base - 1 /\ b \in 0 .. Base - 1
    BY <1>1, <1>2, BaseIsNat
  <2> QED
    BY <1>1, <1>2, <2>1, BaseIsNat, SmallPowers, Digit
<1>6. ToBytes(n, 2) = <<a, b>>
  <2>1. ToBytes(n, 2) = [i \in 1 .. 2 |-> (n \div Power[i - 1]) % Base]
    BY DEF ToBytes
  <2>2. \A i \in 1 .. 2 : i = 1 \/ i = 2
    OBVIOUS
  <2>3. \A i \in 1 .. 2 : (n \div Power[i - 1]) % Base = <<a, b>>[i]
    BY <1>4, <1>5, <2>2
  <2>4. <<a, b>> = [i \in 1 .. 2 |-> <<a, b>>[i]]
    OBVIOUS
  <2> QED
    BY <2>1, <2>3, <2>4
<1> QED
  BY <1>2, <1>3, <1>6, SmallPowers DEF n

LEMMA FourDigits ==
    ASSUME NEW a \in Byte, NEW b \in Byte, NEW c \in Byte, NEW d \in Byte
    PROVE  /\ Four(a, b, c, d) \in Nat /\ Four(a, b, c, d) < Power[4]
           /\ ToBytes(Four(a, b, c, d), 4) = <<a, b, c, d>>
<1> DEFINE n == Four(a, b, c, d)
           m3 == c + Base * d
           m2 == b + Base * m3
           B2 == Base * Base
           B3 == Base * B2
<1>1. /\ a \in Nat /\ b \in Nat /\ c \in Nat /\ d \in Nat
      /\ a < Base /\ b < Base /\ c < Base /\ d < Base
  BY BaseIsNat DEF Byte
<1>2. m3 \in Nat /\ m2 \in Nat /\ n \in Nat /\ B2 \in Nat /\ B3 \in Nat /\ B2 > 0 /\ B3 > 0
      /\ m3 = c + Base * d /\ m2 = b + Base * m3 /\ n = a + Base * m2
  BY <1>1, BaseIsNat DEF Four
<1>0. B2 = Base * Base /\ B3 = Base * B2
  OBVIOUS
<1> HIDE DEF n, m3, m2, B2, B3
<1>3. ASSUME NEW x \in Nat, NEW k \in Nat, NEW t \in Nat, x < Base, k < t
      PROVE  x + Base * k < Base * t
  <2>1. k <= t - 1
    BY <1>3
  <2>2. Base * k <= Base * (t - 1)
    BY <1>3, <2>1, BaseIsNat
  <2>3. Base * (t - 1) = Base * t - Base
    BY <1>3, BaseIsNat
  <2>4. Base * k \in Nat /\ Base * t \in Nat
    BY BaseIsNat
  <2> QED
    BY <1>3, <2>2, <2>3, <2>4, BaseIsNat
<1>4. m3 < B2 /\ m2 < B3 /\ n < Base * B3
  <2>1. m3 < B2
    BY <1>0, <1>1, <1>2, <1>3, BaseIsNat
  <2>2. m2 < B3
    BY <1>0, <1>1, <1>2, <1>3, <2>1
  <2>3. n < Base * B3
    BY <1>1, <1>2, <1>3, <2>2
  <2> QED
    BY <2>1, <2>2, <2>3
<1>5. (n \div Power[0]) % Base = a
  <2>1. n = 0 + 1 * n /\ 0 \in 0 .. 1 - 1 /\ a \in 0 .. Base - 1
    BY <1>1, <1>2, BaseIsNat
  <2> QED
    BY <1>2, <2>1, BaseIsNat, SmallPowers, Digit
<1>6. (n \div Power[1]) % Base = b
  <2>1. a \in 0 .. Base - 1 /\ b \in 0 .. Base - 1 /\ Power[1] = Base
    BY <1>1, BaseIsNat, SmallPowers
  <2>2. n \div Base = m2
    <3>1. PICK p \in Nat : p = Base
      BY BaseIsNat
    <3>2. n = a + p * m2 /\ m2 \in Nat /\ p > 0 /\ a \in 0 .. p - 1
      BY <1>2, <2>1, <3>1, BaseIsNat
    <3>3. n \div p = m2
      BY <3>2, Divided
    <3> QED
      BY <3>1, <3>3
  <2>3. m2 % Base = b
    BY <1>2, <2>1, BaseIsNat, Divided
  <2> QED
    BY <2>1, <2>2, <2>3
<1>7. (n \div Power[2]) % Base = c
  <2> DEFINE low == a + Base * b
  <2>1. n = low + B2 * m3
    BY <1>0, <1>1, <1>2, BaseIsNat
  <2>2. low \in 0 .. B2 - 1 /\ c \in 0 .. Base - 1
    <3>1. low < B2 /\ low \in Nat
      BY <1>0, <1>1, <1>3, BaseIsNat
    <3> QED
      BY <1>1, <1>2, <3>1, BaseIsNat
  <2>3. Power[2] = B2
    BY <1>0, SmallPowers
  <2> HIDE DEF low
  <2>4. n \div B2 = m3
    BY <1>2, <2>1, <2>2, Divided
  <2>5. m3 % Base = c
    BY <1>1, <1>2, <2>2, BaseIsNat, Divided
  <2> QED
    BY <2>3, <2>4, <2>5
<1>8. (n \div Power[3]) % Base = d
  <2> DEFINE low == a + Base * (b + Base * c)
  <2>1. n = low + B3 * d /\ d = d + Base * 0
    BY <1>0, <1>1, <1>2, BaseIsNat
  <2>2. low \in 0 .. B3 - 1 /\ d \in 0 .. Base - 1
    <3>1. b + Base * c < B2 /\ b + Base * c \in Nat
      BY <1>0, <1>1, <1>3, BaseIsNat
    <3>2. low < B3 /\ low \in Nat
      BY <1>0, <1>1, <1>2, <1>3, <3>1, BaseIsNat
    <3> QED
      BY <1>1, <1>2, <3>2, BaseIsNat
  <2>3. Power[3] = B3
    BY <1>0, SmallPowers
  <2> HIDE DEF low
  <2> QED
    BY <1>1, <1>2, <2>1, <2>2, <2>3, BaseIsNat, Digit
<1>9. ToBytes(n, 4) = <<a, b, c, d>>
  <2>1. ToBytes(n, 4) = [i \in 1 .. 4 |-> (n \div Power[i - 1]) % Base]
    BY DEF ToBytes
  <2>2. \A i \in 1 .. 4 : i = 1 \/ i = 2 \/ i = 3 \/ i = 4
    OBVIOUS
  <2>3. \A i \in 1 .. 4 : (n \div Power[i - 1]) % Base = <<a, b, c, d>>[i]
    BY <1>5, <1>6, <1>7, <1>8, <2>2
  <2>4. <<a, b, c, d>> = [i \in 1 .. 4 |-> <<a, b, c, d>>[i]]
    OBVIOUS
  <2> QED
    BY <2>1, <2>3, <2>4
<1> QED
  BY <1>0, <1>2, <1>4, <1>9, SmallPowers DEF n

\* Every number below the fourth power has such digits.
LEMMA Digits ==
    ASSUME NEW n \in Nat
    PROVE  /\ n < Power[2] => \E a, b \in Byte : n = Two(a, b)
           /\ n < Power[4] => \E a, b, c, d \in Byte : n = Four(a, b, c, d)
<1>1. ASSUME NEW m \in Nat, NEW t \in Nat, m < Base * t
      PROVE  \E x \in Byte, k \in Nat : m = x + Base * k /\ k < t
  <2> DEFINE x == m % Base
             k == m \div Base
  <2>1. x \in Byte /\ k \in Nat /\ m = x + Base * k
    BY BaseIsNat DEF Byte
  <2> HIDE DEF x, k
  <2>2. k < t
    <3> SUFFICES ASSUME k >= t PROVE FALSE
      BY <2>1
    <3>1. Base * k >= Base * t
      BY <2>1, BaseIsNat
    <3>2. x \in Nat /\ Base * k \in Nat /\ Base * t \in Nat
      BY <2>1, BaseIsNat DEF Byte
    <3> QED
      BY <1>1, <2>1, <3>1, <3>2
  <2> QED
    BY <2>1, <2>2
<1>2. Base \in Nat /\ Base * Base \in Nat /\ Base * (Base * Base) \in Nat
  BY BaseIsNat
<1>3. \A k \in Nat : k < Base => k \in Byte
  BY BaseIsNat DEF Byte
<1>4. ASSUME n < Power[2]
      PROVE  \E a, b \in Byte : n = Two(a, b)
  <2>1. PICK a \in Byte, b \in Nat : n = a + Base * b /\ b < Base
    BY <1>1, <1>2, <1>4, SmallPowers
  <2> QED
    BY <1>3, <2>1 DEF Two
<1>5. ASSUME n < Power[4]
      PROVE  \E a, b, c, d \in Byte : n = Four(a, b, c, d)
  <2>0. n < Base * (Base * (Base * Base))
    BY <1>5, SmallPowers
  <2>1. PICK a \in Byte, k \in Nat : n = a + Base * k /\ k < Base * (Base * Base)
    <3> DEFINE t == Base * (Base * Base)
    <3>1. t \in Nat /\ n < Base * t
      BY <1>2, <2>0
    <3> HIDE DEF t
    <3>2. \E a \in Byte, k \in Nat : n = a + Base * k /\ k < t
      BY <1>1, <3>1
    <3> QED
      BY <3>2 DEF t
  <2>2. PICK b \in Byte, j \in Nat : k = b + Base * j /\ j < Base * Base
    BY <1>1, <1>2, <2>1
  <2>3. PICK c \in Byte, d \in Nat : j = c + Base * d /\ d < Base
    BY <1>1, <1>2, <2>2
  <2>4. d \in Byte
    BY <1>3, <2>3
  <2> QED
    BY <2>1, <2>2, <2>3, <2>4 DEF Four
<1> QED
  BY <1>4, <1>5

------------------------------------------------------------------------------
(***************************************************************************)
(* The length in front of a solution.                                      *)
(***************************************************************************)
\* b starts with the bytes s.
Starts(b, s) == Len(s) <= Len(b) /\ \A i \in 1 .. Len(s) : b[i] = s[i]

LEMMA Slice ==
    ASSUME NEW b \in Seq(Byte), NEW m \in Nat, NEW n \in Nat, m + n <= Len(b)
    PROVE  LET s == SubSeq(b, m + 1, m + n)
           IN  /\ s \in Seq(Byte) /\ Len(s) = n
               /\ \A i \in 1 .. n : s[i] = b[m + i]
<1> DEFINE s == SubSeq(b, m + 1, m + n)
<1>1. s = [i \in 1 .. n |-> b[m + i]]
  <2>1. s = [i \in 1 .. (m + n) - (m + 1) + 1 |-> b[i + (m + 1) - 1]]
    BY DEF SubSeq
  <2> QED
    BY <2>1
<1>2. \A i \in 1 .. n : b[m + i] \in Byte
  <2> TAKE i \in 1 .. n
  <2>1. m + i \in 1 .. Len(b)
    OBVIOUS
  <2> QED
    BY <2>1
<1> HIDE DEF s
<1>3. s \in Seq(Byte) /\ Len(s) = n
  BY <1>1, <1>2
<1> QED
  BY <1>1, <1>3 DEF s

LEMMA ByteIsNat == Byte \in SUBSET Nat /\ \A x \in Byte : x < Base
BY BaseIsNat DEF Byte

LEMMA BytesAreNat ==
    ASSUME NEW s \in Seq(Byte)
    PROVE  s \in Seq(Nat) /\ \A i \in 1 .. Len(s) : s[i] \in Byte /\ s[i] \in Nat
<1>1. \A i \in 1 .. Len(s) : s[i] \in Byte
  OBVIOUS
<1>2. \A i \in 1 .. Len(s) : s[i] \in Nat
  BY <1>1, ByteIsNat
<1>3. s = [i \in 1 .. Len(s) |-> s[i]] /\ Len(s) \in Nat
  OBVIOUS
<1> QED
  BY <1>1, <1>2, <1>3

\* A marker in front of digits.
LEMMA MarkedTwo ==
    ASSUME NEW S, NEW x \in S, NEW a \in S, NEW b \in S
    PROVE  <<x>> \o <<a, b>> = <<x, a, b>>
<1> DEFINE s == <<x>> \o <<a, b>>
<1>1. <<x>> \in Seq(S) /\ <<a, b>> \in Seq(S) /\ Len(<<x>>) = 1 /\ Len(<<a, b>>) = 2
  OBVIOUS
<1>2. s \in Seq(S) /\ Len(s) = 3
  BY <1>1
<1>3. s[1] = x /\ s[2] = a /\ s[3] = b
  BY <1>1
<1>4. s = [i \in 1 .. 3 |-> s[i]]
  BY <1>2
<1>5. \A i \in 1 .. 3 : s[i] = <<x, a, b>>[i]
  BY <1>3
<1>6. <<x, a, b>> = [i \in 1 .. 3 |-> <<x, a, b>>[i]]
  OBVIOUS
<1> HIDE DEF s
<1>7. s = <<x, a, b>>
  BY <1>4, <1>5, <1>6
<1> QED
  BY <1>7 DEF s

LEMMA MarkedFour ==
    ASSUME NEW S, NEW x \in S, NEW a \in S, NEW b \in S, NEW c \in S, NEW d \in S
    PROVE  <<x>> \o <<a, b, c, d>> = <<x, a, b, c, d>>
<1> DEFINE s == <<x>> \o <<a, b, c, d>>
<1>1. /\ <<x>> \in Seq(S) /\ <<a, b, c, d>> \in Seq(S)
      /\ Len(<<x>>) = 1 /\ Len(<<a, b, c, d>>) = 4
  OBVIOUS
<1>2. s \in Seq(S) /\ Len(s) = 5
  BY <1>1
<1>3. s[1] = x /\ s[2] = a /\ s[3] = b /\ s[4] = c /\ s[5] = d
  BY <1>1
<1>4. s = [i \in 1 .. 5 |-> s[i]]
  BY <1>2
<1>5. \A i \in 1 .. 5 : s[i] = <<x, a, b, c, d>>[i]
  BY <1>3
<1>6. <<x, a, b, c, d>> = [i \in 1 .. 5 |-> <<x, a, b, c, d>>[i]]
  OBVIOUS
<1> HIDE DEF s
<1>7. s = <<x, a, b, c, d>>
  BY <1>4, <1>5, <1>6
<1> QED
  BY <1>7 DEF s

\* What two and four bytes stand for.
LEMMA TwoBytes ==
    ASSUME NEW s \in Seq(Byte), Len(s) = 2
    PROVE  LittleEndian(s) = Two(s[1], s[2])
<1>1. s \in Seq(Nat) /\ s[1] \in Nat /\ s[2] \in Nat
  BY BytesAreNat
<1>2. PICK f \in [0..2 -> Nat] :
         /\ f[0] = 0 /\ \A n \in 1..2 : f[n] = f[n - 1] + s[n] * Power[n - 1]
         /\ LittleEndian(s) = f[2]
  BY <1>1, LittleEndianAddsUp
<1>3. f[1] = f[1 - 1] + s[1] * Power[1 - 1] /\ f[2] = f[2 - 1] + s[2] * Power[2 - 1]
  BY <1>2
<1>4. f[1] = s[1] * 1 /\ f[2] = f[1] + s[2] * Base
  BY <1>1, <1>2, <1>3, SmallPowers
<1> QED
  BY <1>1, <1>2, <1>4, BaseIsNat DEF Two

LEMMA FourBytes ==
    ASSUME NEW s \in Seq(Byte), Len(s) = 4
    PROVE  LittleEndian(s) = Four(s[1], s[2], s[3], s[4])
<1>1. s \in Seq(Nat) /\ s[1] \in Nat /\ s[2] \in Nat /\ s[3] \in Nat /\ s[4] \in Nat
  <2>1. s \in Seq(Nat) /\ \A i \in 1 .. 4 : s[i] \in Nat
    BY BytesAreNat
  <2> QED
    BY <2>1
<1>2. PICK f \in [0..4 -> Nat] :
         /\ f[0] = 0 /\ \A n \in 1..4 : f[n] = f[n - 1] + s[n] * Power[n - 1]
         /\ LittleEndian(s) = f[4]
  BY <1>1, LittleEndianAddsUp
<1>3. /\ f[1] = f[1 - 1] + s[1] * Power[1 - 1] /\ f[2] = f[2 - 1] + s[2] * Power[2 - 1]
      /\ f[3] = f[3 - 1] + s[3] * Power[3 - 1] /\ f[4] = f[4 - 1] + s[4] * Power[4 - 1]
  BY <1>2
<1>4. /\ f[1] = 0 + s[1] * Power[0] /\ f[2] = f[1] + s[2] * Power[1]
      /\ f[3] = f[2] + s[3] * Power[2] /\ f[4] = f[3] + s[4] * Power[3]
  BY <1>2, <1>3
<1>5. Power[0] = 1 /\ Power[1] = Base /\ Power[2] = Base * Base /\ Power[3] = Base * (Base * Base)
  BY SmallPowers
<1>6. f[4] = s[1] + Base * (s[2] + Base * (s[3] + Base * s[4]))
  <2>1. PICK w \in Nat, x \in Nat, y \in Nat, z \in Nat :
           w = s[1] /\ x = s[2] /\ y = s[3] /\ z = s[4]
    BY <1>1
  <2>2. f[4] = 0 + w * 1 + x * Base + y * (Base * Base) + z * (Base * (Base * Base))
    BY <1>4, <1>5, <2>1
  <2>3. 0 + w * 1 + x * Base + y * (Base * Base) + z * (Base * (Base * Base))
           = w + Base * (x + Base * (y + Base * z))
    BY ONLY BaseIsNat, w \in Nat, x \in Nat, y \in Nat, z \in Nat
  <2> QED
    BY <2>1, <2>2, <2>3
<1> QED
  BY <1>2, <1>6 DEF Four

\* How the node writes each length of a solution.
LEMMA Shortest ==
    ASSUME NEW n \in Nat
    PROVE  /\ n < Base - 3 => CompactSize(n) = <<n>>
           /\ \A a, b \in Byte :
                 n = Two(a, b) /\ n >= Base - 3 => CompactSize(n) = <<Base - 3, a, b>>
           /\ \A a, b, c, d \in Byte :
                 n = Four(a, b, c, d) /\ n >= Power[2] =>
                    CompactSize(n) = <<Base - 2, a, b, c, d>>
<1>1. n < Base - 3 => CompactSize(n) = <<n>>
  BY DEF CompactSize
<1>2. ASSUME NEW a \in Byte, NEW b \in Byte, n = Two(a, b), n >= Base - 3
      PROVE  CompactSize(n) = <<Base - 3, a, b>>
  <2>1. ToBytes(n, 2) = <<a, b>> /\ n < Power[2]
    BY <1>2, TwoDigits
  <2>2. ~(n < Base - 3)
    BY <1>2, BaseIsNat
  <2>3. CompactSize(n) = <<Base - 3>> \o <<a, b>>
    BY <2>1, <2>2 DEF CompactSize
  <2>4. Base - 3 \in Byte
    BY BaseIsNat DEF Byte
  <2> QED
    BY <2>3, <2>4, MarkedTwo
<1>3. ASSUME NEW a \in Byte, NEW b \in Byte, NEW c \in Byte, NEW d \in Byte,
             n = Four(a, b, c, d), n >= Power[2]
      PROVE  CompactSize(n) = <<Base - 2, a, b, c, d>>
  <2>1. ToBytes(n, 4) = <<a, b, c, d>> /\ n < Power[4]
    BY <1>3, FourDigits
  <2>2. ~(n < Power[2])
    BY <1>3, SmallPowers
  <2>3. Base * Base >= 4 * Base
    BY BaseIsNat
  <2>4. ~(n < Base - 3)
    BY <1>3, <2>3, BaseIsNat, SmallPowers
  <2>5. CompactSize(n) = <<Base - 2>> \o <<a, b, c, d>>
    BY <2>1, <2>2, <2>4 DEF CompactSize
  <2>6. Base - 2 \in Byte
    BY BaseIsNat DEF Byte
  <2> QED
    BY <2>5, <2>6, MarkedFour
<1> QED
  BY <1>1, <1>2, <1>3

\* What decode_compact_size makes of each marker.
LEMMA ReadsOne ==
    ASSUME NEW b \in Seq(Byte), b # <<>>, b[1] < Base - 3
    PROVE  decode_compact_size(b) = [value |-> b[1], used |-> 1]
BY DEF decode_compact_size, Literal

Counted(value, digits, smallest) ==
    IF value < smallest THEN Refused ELSE [value |-> value, used |-> digits + 1]

LEMMA ReadsWide ==
    ASSUME NEW b \in Seq(Byte), b # <<>>, NEW digits \in Nat, NEW smallest,
           Wide(b[1]) = [digits |-> digits, smallest |-> smallest], ~(b[1] < Base - 3)
    PROVE  /\ Len(b) <= digits => decode_compact_size(b) = Refused
           /\ ~(Len(b) <= digits) =>
                 decode_compact_size(b) =
                    Counted(LittleEndian(SubSeq(b, 2, digits + 1)), digits, smallest)
<1> DEFINE wide == Wide(b[1])
           value(k) == LittleEndian(SubSeq(b, 2, k + 1))
           result(w) == IF Len(b) <= w.digits \/ value(w.digits) < w.smallest THEN Refused
                        ELSE [value |-> value(w.digits), used |-> w.digits + 1]
<1>1. decode_compact_size(b) = result(wide)
  BY DEF decode_compact_size, Literal
<1> HIDE DEF value
<1>2. wide.digits = digits /\ wide.smallest = smallest
  OBVIOUS
<1> HIDE DEF wide
<1>3. decode_compact_size(b) = IF Len(b) <= digits \/ value(digits) < smallest THEN Refused
                               ELSE [value |-> value(digits), used |-> digits + 1]
  BY <1>1, <1>2
<1> QED
  BY <1>3 DEF Counted, value

LEMMA ReadsTwo ==
    ASSUME NEW b \in Seq(Byte), b # <<>>, b[1] = Base - 3
    PROVE  /\ Len(b) <= 2 => decode_compact_size(b) = Refused
           /\ Len(b) >= 3 => decode_compact_size(b) = Counted(Two(b[2], b[3]), 2, Base - 3)
<1>1. Wide(b[1]) = [digits |-> 2, smallest |-> Base - 3] /\ ~(b[1] < Base - 3)
  BY BaseIsNat DEF Wide
<1>2. Len(b) \in Nat
  OBVIOUS
<1>3. ASSUME Len(b) >= 3
      PROVE  LittleEndian(SubSeq(b, 2, 2 + 1)) = Two(b[2], b[3])
  <2> DEFINE s == SubSeq(b, 1 + 1, 1 + 2)
  <2>1. s \in Seq(Byte) /\ Len(s) = 2 /\ \A i \in 1 .. 2 : s[i] = b[1 + i]
    BY <1>2, <1>3, Slice
  <2>2. s = SubSeq(b, 2, 2 + 1)
    OBVIOUS
  <2> HIDE DEF s
  <2>3. s[1] = b[1 + 1] /\ s[2] = b[1 + 2]
    BY <2>1
  <2>4. s[1] = b[2] /\ s[2] = b[3]
    BY <2>3
  <2> QED
    BY <2>1, <2>2, <2>4, TwoBytes
<1> QED
  BY <1>1, <1>2, <1>3, ReadsWide

LEMMA ReadsFour ==
    ASSUME NEW b \in Seq(Byte), b # <<>>, b[1] = Base - 2
    PROVE  /\ Len(b) <= 4 => decode_compact_size(b) = Refused
           /\ Len(b) >= 5 =>
                 decode_compact_size(b) = Counted(Four(b[2], b[3], b[4], b[5]), 4, Power[2])
<1>1. Wide(b[1]) = [digits |-> 4, smallest |-> Power[2]] /\ ~(b[1] < Base - 3)
  BY BaseIsNat DEF Wide
<1>2. Len(b) \in Nat
  OBVIOUS
<1>3. ASSUME Len(b) >= 5
      PROVE  LittleEndian(SubSeq(b, 2, 4 + 1)) = Four(b[2], b[3], b[4], b[5])
  <2> DEFINE s == SubSeq(b, 1 + 1, 1 + 4)
  <2>1. s \in Seq(Byte) /\ Len(s) = 4 /\ \A i \in 1 .. 4 : s[i] = b[1 + i]
    BY <1>2, <1>3, Slice
  <2>2. s = SubSeq(b, 2, 4 + 1)
    OBVIOUS
  <2> HIDE DEF s
  <2>3. s[1] = b[1 + 1] /\ s[2] = b[1 + 2] /\ s[3] = b[1 + 3] /\ s[4] = b[1 + 4]
    BY <2>1
  <2>4. s[1] = b[2] /\ s[2] = b[3] /\ s[3] = b[4] /\ s[4] = b[5]
    BY <2>3
  <2> QED
    BY <2>1, <2>2, <2>4, FourBytes
<1> QED
  BY <1>1, <1>2, <1>3, ReadsWide

\* No solution is so long that its length needs eight bytes.
LEMMA ReadsEight ==
    ASSUME NEW b \in Seq(Byte), b # <<>>, b[1] = Base - 1, decode_compact_size(b) # Refused
    PROVE  ~(decode_compact_size(b).value <= SolutionLimit)
<1>1. Wide(b[1]) = [digits |-> 8, smallest |-> Power[4]] /\ ~(b[1] < Base - 3)
  BY BaseIsNat DEF Wide
<1>2. Len(b) \in Nat
  OBVIOUS
<1>3. Len(b) >= 9
  BY <1>1, <1>2, ReadsWide
<1> DEFINE s == SubSeq(b, 1 + 1, 1 + 8)
           v == LittleEndian(s)
<1>4. s \in Seq(Byte)
  BY <1>2, <1>3, Slice
<1>5. v \in Nat
  <2> HIDE DEF s
  <2>1. s \in Seq(Nat) /\ Len(s) \in 0 .. Len(s)
    BY <1>4, BytesAreNat
  <2> QED
    BY <2>1, LittleEndianAddsUp
<1>6. decode_compact_size(b) = Counted(v, 8, Power[4])
  <2>1. SubSeq(b, 2, 8 + 1) = s
    OBVIOUS
  <2> HIDE DEF s
  <2> QED
    BY <1>1, <1>2, <1>3, <2>1, ReadsWide
<1> HIDE DEF v
<1>7. decode_compact_size(b).value = v /\ ~(v < Power[4])
  BY <1>6 DEF Counted
<1>8. SolutionLimit \in Nat /\ SolutionLimit < Power[4] /\ Power[4] \in Nat
  <2>1. Base * Base * Base * Base = Base * (Base * (Base * Base))
    BY BaseIsNat
  <2> QED
    BY <2>1, AuxPowAssumption, SmallPowers
<1> QED
  BY <1>5, <1>7, <1>8

\* An accepted length is one the node has written, and has its size.
LEMMA Accepted ==
    ASSUME NEW b \in Seq(Byte), decode_compact_size(b) # Refused,
           decode_compact_size(b).value <= SolutionLimit
    PROVE  LET n == decode_compact_size(b).value
           IN  /\ n \in 0 .. SolutionLimit
               /\ decode_compact_size(b) = [value |-> n, used |-> Len(CompactSize(n))]
               /\ Starts(b, CompactSize(n))
<1> DEFINE d == decode_compact_size(b)
           n == d.value
<1>1. b # <<>>
  BY DEF decode_compact_size
<1>2. Len(b) \in Nat /\ Len(b) >= 1 /\ SolutionLimit \in Nat
  BY <1>1, AuxPowAssumption
<1>3. \A i \in 1 .. Len(b) : b[i] \in Byte /\ b[i] \in Nat
  BY BytesAreNat
<1>4. b[1] \in Byte /\ b[1] \in Nat
  BY <1>2, <1>3
<1> SUFFICES /\ n \in Nat
             /\ d = [value |-> n, used |-> Len(CompactSize(n))]
             /\ Starts(b, CompactSize(n))
  BY <1>2
<1>5. CASE b[1] < Base - 3
  <2>1. d = [value |-> b[1], used |-> 1]
    BY <1>1, <1>5, ReadsOne
  <2> HIDE DEF d
  <2>2. n = b[1] /\ CompactSize(n) = <<n>>
    BY <1>4, <1>5, <2>1, Shortest
  <2>3. Len(CompactSize(n)) = 1 /\ Starts(b, <<n>>)
    BY <1>2, <2>2 DEF Starts
  <2> QED
    BY <1>4, <2>1, <2>2, <2>3
<1>6. CASE b[1] = Base - 3
  <2>1. Len(b) >= 3
    BY <1>1, <1>2, <1>6, ReadsTwo
  <2>2. b[2] \in Byte /\ b[3] \in Byte
    BY <1>2, <1>3, <2>1
  <2> DEFINE v == Two(b[2], b[3])
  <2>3. d = Counted(v, 2, Base - 3)
    BY <1>1, <1>6, <2>1, ReadsTwo
  <2>4. v \in Nat
    BY <2>2, TwoDigits
  <2> HIDE DEF v, d
  <2>5. ~(v < Base - 3) /\ d = [value |-> v, used |-> 3] /\ n = v
    BY <2>3 DEF Counted, d
  <2>6. CompactSize(n) = <<Base - 3, b[2], b[3]>>
    BY <2>2, <2>4, <2>5, BaseIsNat, Shortest DEF v
  <2>7. Starts(b, <<Base - 3, b[2], b[3]>>) /\ Len(CompactSize(n)) = 3
    BY <1>2, <1>6, <2>1, <2>6 DEF Starts
  <2> QED
    BY <2>4, <2>5, <2>6, <2>7
<1>7. CASE b[1] = Base - 2
  <2>1. Len(b) >= 5
    BY <1>1, <1>2, <1>7, ReadsFour
  <2>2. b[2] \in Byte /\ b[3] \in Byte /\ b[4] \in Byte /\ b[5] \in Byte
    BY <1>2, <1>3, <2>1
  <2> DEFINE v == Four(b[2], b[3], b[4], b[5])
  <2>3. d = Counted(v, 4, Power[2])
    BY <1>1, <1>7, <2>1, ReadsFour
  <2>4. v \in Nat
    BY <2>2, FourDigits
  <2> HIDE DEF v, d
  <2>5. ~(v < Power[2]) /\ d = [value |-> v, used |-> 5] /\ n = v
    BY <2>3 DEF Counted, d
  <2>6. CompactSize(n) = <<Base - 2, b[2], b[3], b[4], b[5]>>
    BY <2>2, <2>4, <2>5, SmallPowers, Shortest DEF v
  <2>7. Starts(b, <<Base - 2, b[2], b[3], b[4], b[5]>>) /\ Len(CompactSize(n)) = 5
    BY <1>2, <1>7, <2>1, <2>6 DEF Starts
  <2> QED
    BY <2>4, <2>5, <2>6, <2>7
<1>8. CASE b[1] = Base - 1
  BY <1>1, <1>8, ReadsEight
<1>9. b[1] < Base - 3 \/ b[1] = Base - 3 \/ b[1] = Base - 2 \/ b[1] = Base - 1
  BY <1>4, BaseIsNat, ByteIsNat
<1> HIDE DEF d
<1> QED
  BY <1>5, <1>6, <1>7, <1>8, <1>9

\* A length the node has written is accepted.
LEMMA ReadBack ==
    ASSUME NEW b \in Seq(Byte), NEW n \in 0 .. SolutionLimit, Starts(b, CompactSize(n))
    PROVE  decode_compact_size(b) = [value |-> n, used |-> Len(CompactSize(n))]
<1>1. n \in Nat /\ n < Power[4]
  <2>1. Base * Base * Base * Base = Base * (Base * (Base * Base))
    BY BaseIsNat
  <2> QED
    BY <2>1, AuxPowAssumption, SmallPowers
<1>2. Len(b) \in Nat /\ (Len(b) >= 1 => b # <<>>)
  OBVIOUS
<1>3. CASE n < Base - 3
  <2>1. CompactSize(n) = <<n>>
    BY <1>1, <1>3, Shortest
  <2>2. b # <<>> /\ b[1] = n
    BY <1>2, <2>1 DEF Starts
  <2>3. Len(CompactSize(n)) = 1
    BY <2>1
  <2> QED
    BY <1>3, <2>2, <2>3, ReadsOne
<1>4. CASE n >= Base - 3 /\ n < Power[2]
  <2>1. PICK x, y \in Byte : n = Two(x, y)
    BY <1>1, <1>4, Digits
  <2>2. CompactSize(n) = <<Base - 3, x, y>>
    BY <1>1, <1>4, <2>1, Shortest
  <2>3. Starts(b, <<Base - 3, x, y>>) /\ Len(CompactSize(n)) = 3
    BY <2>2
  <2>4. Len(b) >= 3 /\ b # <<>> /\ b[1] = Base - 3 /\ b[2] = x /\ b[3] = y
    BY <1>2, <2>3 DEF Starts
  <2>5. decode_compact_size(b) = Counted(n, 2, Base - 3)
    BY <2>1, <2>4, ReadsTwo
  <2> QED
    BY <1>1, <1>4, <2>3, <2>5, BaseIsNat DEF Counted
<1>5. CASE n >= Power[2]
  <2>1. PICK w, x, y, z \in Byte : n = Four(w, x, y, z)
    BY <1>1, Digits
  <2>2. CompactSize(n) = <<Base - 2, w, x, y, z>>
    BY <1>1, <1>5, <2>1, Shortest
  <2>3. Starts(b, <<Base - 2, w, x, y, z>>) /\ Len(CompactSize(n)) = 5
    BY <2>2
  <2>4. /\ Len(b) >= 5 /\ b # <<>>
        /\ b[1] = Base - 2 /\ b[2] = w /\ b[3] = x /\ b[4] = y /\ b[5] = z
    BY <1>2, <2>3 DEF Starts
  <2>5. decode_compact_size(b) = Counted(n, 4, Power[2])
    BY <2>1, <2>4, ReadsFour
  <2> QED
    BY <1>1, <1>5, <2>3, <2>5, SmallPowers DEF Counted
<1> QED
  BY <1>1, <1>3, <1>4, <1>5, BaseIsNat, SmallPowers

LEMMA SizeOfLength ==
    ASSUME NEW n \in 0 .. SolutionLimit
    PROVE  Len(CompactSize(n)) \in 1 .. 5 /\ CompactSize(n) \in Seq(Nat)
<1>1. n \in Nat /\ n < Power[4]
  <2>1. Base * Base * Base * Base = Base * (Base * (Base * Base))
    BY BaseIsNat
  <2> QED
    BY <2>1, AuxPowAssumption, SmallPowers
<1> DEFINE C == CompactSize(n)
<1>2. CASE n < Base - 3
  <2>1. C = <<n>>
    BY <1>1, <1>2, Shortest
  <2> HIDE DEF C
  <2>2. Len(C) = 1 /\ C \in Seq(Nat)
    BY <1>1, <2>1
  <2> QED
    BY <2>2 DEF C
<1>3. CASE n >= Base - 3 /\ n < Power[2]
  <2>1. PICK x, y \in Byte : n = Two(x, y)
    BY <1>1, <1>3, Digits
  <2>2. C = <<Base - 3, x, y>>
    BY <1>1, <1>3, <2>1, Shortest
  <2>3. Base - 3 \in Nat /\ x \in Nat /\ y \in Nat
    BY BaseIsNat, ByteIsNat
  <2> HIDE DEF C
  <2>4. PICK m : m = Base - 3
    OBVIOUS
  <2>5. Len(C) = 3 /\ C \in Seq(Nat)
    BY <2>2, <2>3, <2>4
  <2> QED
    BY <2>5 DEF C
<1>4. CASE n >= Power[2]
  <2>1. PICK w, x, y, z \in Byte : n = Four(w, x, y, z)
    BY <1>1, Digits
  <2>2. C = <<Base - 2, w, x, y, z>>
    BY <1>1, <1>4, <2>1, Shortest
  <2>3. Base - 2 \in Nat /\ w \in Nat /\ x \in Nat /\ y \in Nat /\ z \in Nat
    BY BaseIsNat, ByteIsNat
  <2> HIDE DEF C
  <2>4. PICK m : m = Base - 2
    OBVIOUS
  <2>5. Len(C) = 5 /\ C \in Seq(Nat)
    BY <2>2, <2>3, <2>4
  <2> QED
    BY <2>5 DEF C
<1> QED
  BY <1>1, <1>2, <1>3, <1>4, BaseIsNat, SmallPowers

LEMMA SolutionIsWritten ==
    ASSUME NEW raw \in Seq(Byte)
    PROVE  solution_from_raw_block(raw) = UNION {Written(raw, n) : n \in 0 .. SolutionLimit}
<1> DEFINE L == Len(raw)
           O == SOLUTION_OFFSET
           b == SubSeq(raw, O + 1, L)
           d == decode_compact_size(b)
           W == UNION {Written(raw, n) : n \in 0 .. SolutionLimit}
           size(n) == CompactSize(n)
           fits(n) == O + Len(size(n)) + n <= L
           cut(n) == SubSeq(raw, O + Len(size(n)) + 1, O + Len(size(n)) + n)
<1>1. L \in Nat /\ O \in Nat /\ SolutionLimit \in Nat
  BY AuxPowAssumption
<1>2. \A n \in 0 .. SolutionLimit : Len(size(n)) \in 1 .. 5 /\ size(n) \in Seq(Nat)
  BY SizeOfLength
<1>3. ASSUME L >= O
      PROVE  b \in Seq(Byte) /\ Len(b) = L - O /\ \A i \in 1 .. L - O : b[i] = raw[O + i]
  <2> DEFINE k == L - O
  <2>1. k \in Nat /\ O + k = L
    BY <1>1, <1>3
  <2>2. b = SubSeq(raw, O + 1, O + k)
    BY <2>1
  <2> HIDE DEF k, b, O
  <2>3. O \in Nat /\ O + k <= Len(raw)
    BY <1>1, <2>1
  <2>4. /\ SubSeq(raw, O + 1, O + k) \in Seq(Byte) /\ Len(SubSeq(raw, O + 1, O + k)) = k
        /\ \A i \in 1 .. k : SubSeq(raw, O + 1, O + k)[i] = raw[O + i]
    BY <2>1, <2>3, Slice
  <2>5. b \in Seq(Byte) /\ Len(b) = k /\ \A i \in 1 .. k : b[i] = raw[O + i]
    BY <2>2, <2>4
  <2> QED
    BY <2>5 DEF k
<1>4. ASSUME NEW n \in 0 .. SolutionLimit, fits(n), L >= O
      PROVE  SubSeq(raw, O + 1, O + Len(size(n))) = size(n) <=> Starts(b, size(n))
  <2> DEFINE k == Len(size(n))
             s == SubSeq(raw, O + 1, O + k)
  <2>1. k \in 1 .. 5 /\ O + k <= L /\ k <= L - O
    BY <1>1, <1>2, <1>4
  <2>2. s \in Seq(Byte) /\ Len(s) = k /\ \A i \in 1 .. k : s[i] = raw[O + i]
    BY <1>1, <2>1, Slice
  <2>3. \A i \in 1 .. k : s[i] = b[i]
    BY <1>1, <1>3, <1>4, <2>1, <2>2
  <2>4. s = size(n) => Starts(b, size(n))
    BY <1>1, <1>3, <1>4, <2>1, <2>3 DEF Starts
  <2>5. ASSUME Starts(b, size(n))
        PROVE  s = size(n)
    <3>1. \A i \in 1 .. k : s[i] = size(n)[i]
      BY <2>3, <2>5 DEF Starts
    <3>2. size(n) = [i \in 1 .. k |-> size(n)[i]]
      BY <1>2
    <3>3. k \in Nat
      BY <2>1
    <3> HIDE DEF s, k, size
    <3>4. s = [i \in 1 .. k |-> s[i]]
      BY <2>2, <3>3
    <3> QED
      BY <3>1, <3>2, <3>4
  <2> QED
    BY <2>4, <2>5
<1>5. \A n \in 0 .. SolutionLimit :
         Written(raw, n) = IF fits(n) /\ SubSeq(raw, O + 1, O + Len(size(n))) = size(n)
                           THEN {cut(n)} ELSE {}
  <2> TAKE n \in 0 .. SolutionLimit
  <2> DEFINE k == Len(size(n))
             end == O + k + n
  <2>1. k \in Nat /\ n \in Nat
    BY <1>2
  <2>2. Written(raw, n) = IF end <= L /\ SubSeq(raw, O + 1, end - n) = size(n)
                          THEN {SubSeq(raw, end - n + 1, end)} ELSE {}
    BY DEF Written
  <2> HIDE DEF k
  <2>3. end - n = O + k
    BY <1>1, <2>1
  <2> QED
    BY <2>2, <2>3 DEF k
<1> DEFINE start == O + d.used
           taken == L >= O /\ d # Refused /\ d.value <= SolutionLimit /\ start + d.value <= L
<1>6. solution_from_raw_block(raw) =
         IF taken THEN {SubSeq(raw, start + 1, start + d.value)} ELSE {}
  BY DEF solution_from_raw_block
<1>7. \A n \in 0 .. SolutionLimit : fits(n) => L >= O
  BY <1>1, <1>2
<1>8. ASSUME NEW n \in 0 .. SolutionLimit, Written(raw, n) # {}
      PROVE  /\ fits(n) /\ d = [value |-> n, used |-> Len(size(n))] /\ Written(raw, n) = {cut(n)}
             /\ taken /\ d.value = n
  <2>1. /\ fits(n) /\ SubSeq(raw, O + 1, O + Len(size(n))) = size(n)
        /\ Written(raw, n) = {cut(n)}
    BY <1>5, <1>8
  <2>2. L >= O /\ Starts(b, size(n))
    BY <1>4, <1>7, <2>1
  <2>3. d = [value |-> n, used |-> Len(size(n))]
    BY <1>3, <2>2, ReadBack
  <2> HIDE DEF d, size
  <2>4. d.value = n /\ d.used = Len(size(n)) /\ d # Refused
    BY <1>1, <2>3 DEF Refused
  <2> QED
    BY <1>1, <2>1, <2>2, <2>3, <2>4
<1>9. CASE taken
  <2> DEFINE n == d.value
  <2>1. n \in 0 .. SolutionLimit /\ d = [value |-> n, used |-> Len(size(n))] /\ Starts(b, size(n))
    BY <1>3, <1>9, Accepted
  <2> HIDE DEF d, b, size
  <2>2. d.used = Len(size(n))
    BY <2>1
  <2>3. fits(n) /\ L >= O
    BY <1>9, <2>2
  <2>4. Written(raw, n) = {cut(n)}
    BY <1>4, <1>5, <2>1, <2>3
  <2>5. \A m \in 0 .. SolutionLimit : Written(raw, m) # {} => m = n
    BY <1>8
  <2>6. solution_from_raw_block(raw) = {cut(n)}
    BY <1>6, <1>9, <2>2
  <2> HIDE DEF cut, n
  <2>7. W = {cut(n)}
    BY <2>1, <2>4, <2>5
  <2> QED
    BY <2>6, <2>7
<1>10. CASE ~taken
  <2>1. \A m \in 0 .. SolutionLimit : Written(raw, m) = {}
    BY <1>8, <1>10
  <2> QED
    BY <1>6, <1>10, <2>1
<1> QED
  BY <1>9, <1>10

------------------------------------------------------------------------------
(***************************************************************************)
(* The target.                                                             *)
(***************************************************************************)
\* Numbers of three bytes.
Three(a, b, c) == a + Base * (b + Base * c)

LEMMA ThreeDigits ==
    ASSUME NEW a \in Byte, NEW b \in Byte, NEW c \in Byte
    PROVE  /\ Three(a, b, c) \in Nat
           /\ ToBytes(Three(a, b, c), 3) = <<a, b, c>>
<1> DEFINE n == Three(a, b, c)
<1>1. a \in Nat /\ b \in Nat /\ c \in Nat /\ 0 \in Byte
  BY BaseIsNat, ByteIsNat DEF Byte
<1>2. n = Four(a, b, c, 0)
  BY <1>1, BaseIsNat DEF Three, Four
<1>3. Four(a, b, c, 0) \in Nat /\ ToBytes(Four(a, b, c, 0), 4) = <<a, b, c, 0>>
  BY <1>1, FourDigits
<1> HIDE DEF n
<1>4. n \in Nat /\ ToBytes(n, 4) = <<a, b, c, 0>>
  BY <1>2, <1>3
<1>5. [i \in 1 .. 4 |-> (n \div Power[i - 1]) % Base] = <<a, b, c, 0>>
  BY <1>4 DEF ToBytes
<1>6. \A i \in 1 .. 4 : (n \div Power[i - 1]) % Base = <<a, b, c, 0>>[i]
  BY <1>5
<1>7. \A i \in 1 .. 3 : (n \div Power[i - 1]) % Base = <<a, b, c>>[i]
  <2>1. \A i \in 1 .. 3 : i \in 1 .. 4 /\ <<a, b, c, 0>>[i] = <<a, b, c>>[i]
    OBVIOUS
  <2> QED
    BY <1>6, <2>1
<1>8. <<a, b, c>> = [i \in 1 .. 3 |-> <<a, b, c>>[i]]
  OBVIOUS
<1>9. ToBytes(n, 3) = [i \in 1 .. 3 |-> (n \div Power[i - 1]) % Base]
  BY DEF ToBytes
<1>10. ToBytes(n, 3) = <<a, b, c>>
  BY <1>7, <1>8, <1>9
<1> QED
  BY <1>4, <1>10 DEF n

LEMMA ThreeOf ==
    ASSUME NEW n \in Nat, n < Power[3]
    PROVE  \E a, b, c \in Byte : n = Three(a, b, c)
<1>0. PICK p : p = Base
  OBVIOUS
<1>1. p \in Nat /\ p > 0 /\ Power[3] = p * (p * p) /\ Power[4] = p * (p * (p * p))
  BY <1>0, BaseIsNat, SmallPowers
<1>2. n < Power[4]
  <2>1. PICK t : t = p * (p * p)
    OBVIOUS
  <2>2. t \in Nat /\ n < t /\ Power[4] = p * t
    BY <1>1, <2>1
  <2>3. p * t >= 1 * t
    BY <1>1, <2>2
  <2> QED
    BY <2>2, <2>3, <1>1
<1>3. PICK a, b, c, d \in Byte : n = Four(a, b, c, d)
  BY <1>2, Digits
<1>4. a \in Nat /\ b \in Nat /\ c \in Nat /\ d \in Nat
  BY ByteIsNat
<1>5. n = a + p * (b + p * (c + p * d))
  BY <1>0, <1>3 DEF Four
<1>6. d = 0
  <2> SUFFICES ASSUME d >= 1 PROVE FALSE
    BY <1>4
  <2>1. p * d >= p
    BY <1>1, <1>4
  <2>2. PICK x : x = c + p * d
    OBVIOUS
  <2>3. x \in Nat /\ x >= p
    BY <1>1, <1>4, <2>1, <2>2
  <2>4. p * x >= p * p /\ p * x \in Nat /\ p * p \in Nat
    BY <1>1, <2>3
  <2>5. PICK y : y = b + p * x
    OBVIOUS
  <2>6. PICK q : q = p * p
    OBVIOUS
  <2>7. y \in Nat /\ q \in Nat /\ y >= q
    BY <1>4, <2>4, <2>5, <2>6
  <2>8. p * y >= p * q /\ p * y \in Nat /\ p * q \in Nat
    BY <1>1, <2>7
  <2>9. n = a + p * y /\ n < p * q
    BY <1>1, <1>5, <2>2, <2>5, <2>6
  <2> QED
    BY <1>4, <2>8, <2>9
<1>7. n = a + p * (b + p * c)
  BY <1>1, <1>4, <1>5, <1>6
<1> QED
  BY <1>0, <1>7 DEF Three

\* What three bytes stand for with zeros around them.
LEMMA PlacedThree ==
    ASSUME NEW t \in Seq(Nat), NEW k \in Nat, k + 3 <= Len(t),
           \A i \in 1 .. Len(t) : i \notin k + 1 .. k + 3 => t[i] = 0
    PROVE  LittleEndian(t) = t[k + 1] * Power[k] + t[k + 2] * Power[k + 1]
                             + t[k + 3] * Power[k + 2]
<1> DEFINE L == Len(t)
<1>1. L \in Nat /\ \A i \in 1 .. L : t[i] \in Nat
  OBVIOUS
<1>2. PICK f \in [0 .. L -> Nat] :
         /\ f[0] = 0
         /\ \A n \in 1 .. L : f[n] = f[n - 1] + t[n] * Power[n - 1]
         /\ LittleEndian(t) = f[L]
  BY LittleEndianAddsUp
<1> HIDE DEF L
<1>3. k + 3 <= L /\ \A i \in 1 .. L : i \notin k + 1 .. k + 3 => t[i] = 0
  BY DEF L
<1>4. ASSUME NEW n \in Nat, n + 1 <= L
      PROVE  /\ n + 1 \in 1 .. L /\ f[n] \in Nat
             /\ f[n + 1] = f[n] + t[n + 1] * Power[n]
             /\ n + 1 \notin k + 1 .. k + 3 => f[n + 1] = f[n]
  <2>1. n + 1 \in 1 .. L /\ n \in 0 .. L /\ (n + 1) - 1 = n
    BY <1>1, <1>4
  <2>2. f[n + 1] = f[n] + t[n + 1] * Power[n] /\ f[n] \in Nat
    BY <1>2, <2>1
  <2>3. Power[n] \in Nat
    BY Powers
  <2> QED
    BY <1>3, <2>1, <2>2, <2>3
<1> DEFINE A == {n \in Nat : n <= k => f[n] = 0}
           Z == {n \in Nat : (k + 3) + n <= L => f[(k + 3) + n] = f[k + 3]}
<1>5. A = Nat
  <2>1. 0 \in A
    BY <1>2
  <2>2. ASSUME NEW n \in A PROVE n + 1 \in A
    <3>1. n \in Nat /\ (n <= k => f[n] = 0)
      OBVIOUS
    <3>2. ASSUME n + 1 <= k PROVE f[n + 1] = 0
      <4>1. n + 1 <= L /\ n <= k /\ n + 1 \notin k + 1 .. k + 3
        BY <1>1, <1>3, <3>1, <3>2
      <4> QED
        BY <1>4, <3>1, <4>1
    <3> QED
      BY <3>1, <3>2
  <2>3. A \in SUBSET Nat
    OBVIOUS
  <2> HIDE DEF A
  <2> QED
    BY <2>1, <2>2, <2>3, Induction
<1>6. Z = Nat
  <2>1. 0 \in Z
    OBVIOUS
  <2>2. ASSUME NEW n \in Z PROVE n + 1 \in Z
    <3>1. n \in Nat /\ ((k + 3) + n <= L => f[(k + 3) + n] = f[k + 3])
      OBVIOUS
    <3>2. ASSUME (k + 3) + (n + 1) <= L PROVE f[(k + 3) + (n + 1)] = f[k + 3]
      <4>1. PICK m : m = (k + 3) + n
        OBVIOUS
      <4>2. m \in Nat /\ m + 1 <= L /\ m <= L /\ m + 1 \notin k + 1 .. k + 3
            /\ m + 1 = (k + 3) + (n + 1)
        BY <1>1, <3>1, <3>2, <4>1
      <4>3. f[m + 1] = f[m]
        BY <1>4, <4>2
      <4> QED
        BY <3>1, <4>1, <4>2, <4>3
    <3> QED
      BY <3>1, <3>2
  <2>3. Z \in SUBSET Nat
    OBVIOUS
  <2> HIDE DEF Z
  <2> QED
    BY <2>1, <2>2, <2>3, Induction
<1>7. f[k] = 0
  <2>1. k \in A
    BY <1>5
  <2> QED
    BY <2>1
<1>8. f[L] = f[k + 3]
  <2>1. L - (k + 3) \in Nat
    BY <1>1, <1>3
  <2>2. PICK n \in Nat : n = L - (k + 3)
    BY <2>1
  <2>3. PICK m : m = (k + 3) + n
    OBVIOUS
  <2>4. m = L
    BY <1>1, <2>2, <2>3
  <2>5. n \in Z
    BY <1>6
  <2>6. m <= L => f[m] = f[k + 3]
    BY <2>3, <2>5
  <2> HIDE DEF A, Z
  <2>7. L <= L
    BY <1>1
  <2> QED
    BY <2>4, <2>6, <2>7
<1>9. /\ f[k + 1] = f[k] + t[k + 1] * Power[k]
      /\ f[k + 2] = f[k + 1] + t[k + 2] * Power[k + 1]
      /\ f[k + 3] = f[k + 2] + t[k + 3] * Power[k + 2]
  <2>1. \A n \in Nat : n + 1 <= L => f[n + 1] = f[n] + t[n + 1] * Power[n]
    BY <1>4
  <2>2. (k + 1) + 1 = k + 2 /\ (k + 2) + 1 = k + 3 /\ k + 1 \in Nat /\ k + 2 \in Nat
        /\ k + 1 <= L /\ k + 2 <= L
    BY <1>1, <1>3
  <2>3. f[k + 1] = f[k] + t[k + 1] * Power[k]
    BY <2>1, <2>2
  <2>4. f[(k + 1) + 1] = f[k + 1] + t[(k + 1) + 1] * Power[k + 1]
    BY <2>1, <2>2
  <2>5. f[(k + 2) + 1] = f[k + 2] + t[(k + 2) + 1] * Power[k + 2]
    BY <1>3, <2>1, <2>2
  <2> QED
    BY <2>2, <2>3, <2>4, <2>5
<1>10. t[k + 1] * Power[k] \in Nat
  <2>1. k + 1 \in 1 .. L
    BY <1>1, <1>3
  <2>2. PICK x : x = t[k + 1]
    OBVIOUS
  <2>3. PICK y : y = Power[k]
    OBVIOUS
  <2>4. x \in Nat
    BY <1>1, <2>1, <2>2
  <2>5. y \in Nat
    BY <2>3, Powers
  <2>6. x * y \in Nat
    BY <2>4, <2>5
  <2> QED
    BY <2>2, <2>3, <2>6
<1> QED
  BY <1>2, <1>7, <1>8, <1>9, <1>10

\* Three numbers after k zeros, and zeros to the length T.
Padded(a, b, c, k, T) ==
    [i \in 1 .. T |->
        IF i = k + 1 THEN a ELSE IF i = k + 2 THEN b ELSE IF i = k + 3 THEN c ELSE 0]

Surrounded(t, a, b, c, k, T) ==
    /\ t \in Seq(Nat) /\ Len(t) = T
    /\ t[k + 1] = a /\ t[k + 2] = b /\ t[k + 3] = c
    /\ \A i \in 1 .. T : i \notin k + 1 .. k + 3 => t[i] = 0

LEMMA Placed ==
    ASSUME NEW T \in Nat, NEW k \in Nat, k + 3 <= T,
           NEW a \in Nat, NEW b \in Nat, NEW c \in Nat
    PROVE  Surrounded(Padded(a, b, c, k, T), a, b, c, k, T)
<1> DEFINE t == Padded(a, b, c, k, T)
<1>1. t = [i \in 1 .. T |->
              IF i = k + 1 THEN a ELSE IF i = k + 2 THEN b ELSE IF i = k + 3 THEN c ELSE 0]
  BY DEF Padded
<1> HIDE DEF t
<1>2. t \in Seq(Nat) /\ Len(t) = T
  BY <1>1
<1>3. t[k + 1] = a /\ t[k + 2] = b /\ t[k + 3] = c
  <2>1. k + 1 \in 1 .. T /\ k + 2 \in 1 .. T /\ k + 3 \in 1 .. T
    OBVIOUS
  <2>2. k + 2 # k + 1 /\ k + 3 # k + 1 /\ k + 3 # k + 2
    OBVIOUS
  <2> QED
    BY <1>1, <2>1, <2>2
<1>4. \A i \in 1 .. T : i \notin k + 1 .. k + 3 => t[i] = 0
  BY <1>1
<1> QED
  BY <1>2, <1>3, <1>4 DEF t, Surrounded

LEMMA PlacedValue ==
    ASSUME NEW n \in Nat, n < Power[3], NEW k \in Nat, k + 3 <= TargetBytes
    PROVE  LET t == [i \in 1 .. TargetBytes |->
                        IF i \in k + 1 .. k + 3 THEN ToBytes(n, 3)[i - k] ELSE 0]
           IN  Len(t) = TargetBytes /\ LittleEndian(t) = Power[k] * n
<1> DEFINE t == [i \in 1 .. TargetBytes |->
                    IF i \in k + 1 .. k + 3 THEN ToBytes(n, 3)[i - k] ELSE 0]
<1>1. PICK a, b, c \in Byte : n = Three(a, b, c)
  BY ThreeOf
<1>2. PICK s : s = <<a, b, c>> /\ s = ToBytes(n, 3)
  BY <1>1, ThreeDigits
<1>3. a \in Nat /\ b \in Nat /\ c \in Nat /\ TargetBytes \in Nat
  BY AuxPowAssumption, ByteIsNat
<1>4. s[1] = a /\ s[2] = b /\ s[3] = c
  BY <1>2
<1>5. \A i \in 1 .. TargetBytes :
         (IF i \in k + 1 .. k + 3 THEN s[i - k] ELSE 0)
         = IF i = k + 1 THEN a ELSE IF i = k + 2 THEN b ELSE IF i = k + 3 THEN c ELSE 0
  <2>1. (k + 1) - k = 1 /\ (k + 2) - k = 2 /\ (k + 3) - k = 3
    OBVIOUS
  <2>2. \A i \in Nat : i \in k + 1 .. k + 3 <=> i = k + 1 \/ i = k + 2 \/ i = k + 3
    OBVIOUS
  <2>3. \A i \in 1 .. TargetBytes : i \in Nat
    BY <1>3
  <2>4. k + 2 # k + 1 /\ k + 3 # k + 1 /\ k + 3 # k + 2
    OBVIOUS
  <2> QED
    BY <1>4, <2>1, <2>2, <2>3, <2>4
<1>6. t = [i \in 1 .. TargetBytes |-> IF i \in k + 1 .. k + 3 THEN s[i - k] ELSE 0]
  BY <1>2
<1> HIDE DEF t
<1>7. t = Padded(a, b, c, k, TargetBytes)
  BY <1>5, <1>6 DEF Padded
<1>8. Surrounded(t, a, b, c, k, TargetBytes)
  BY <1>3, <1>7, Placed
<1>9. /\ t \in Seq(Nat) /\ Len(t) = TargetBytes
      /\ t[k + 1] = a /\ t[k + 2] = b /\ t[k + 3] = c
      /\ \A i \in 1 .. TargetBytes : i \notin k + 1 .. k + 3 => t[i] = 0
  BY <1>8 DEF Surrounded
<1>10. \A i \in 1 .. Len(t) : i \notin k + 1 .. k + 3 => t[i] = 0
  BY <1>9
<1>11. LittleEndian(t) = a * Power[k] + b * Power[k + 1] + c * Power[k + 2]
  <2>1. k + 3 <= Len(t)
    BY <1>9
  <2>2. LittleEndian(t) = t[k + 1] * Power[k] + t[k + 2] * Power[k + 1] + t[k + 3] * Power[k + 2]
    BY <1>9, <1>10, <2>1, PlacedThree
  <2> QED
    BY <1>9, <2>2
<1>12. Power[k + 1] = Base * Power[k] /\ Power[k + 2] = Base * (Base * Power[k])
  <2>1. \A m \in Nat : Power[m + 1] = Base * Power[m]
    BY Powers
  <2>2. (k + 1) + 1 = k + 2 /\ k + 1 \in Nat
    OBVIOUS
  <2>3. Power[k + 1] = Base * Power[k] /\ Power[(k + 1) + 1] = Base * Power[k + 1]
    BY <2>1, <2>2
  <2> QED
    BY <2>2, <2>3
<1>13. PICK p : p = Power[k]
  OBVIOUS
<1>14. p \in Nat
  BY <1>13, Powers
<1>15. a * p + b * (Base * p) + c * (Base * (Base * p)) = p * (a + Base * (b + Base * c))
  BY <1>3, <1>14, BaseIsNat
<1> QED
  BY <1>1, <1>9, <1>11, <1>12, <1>13, <1>15 DEF Three, t

LEMMA WholePart ==
    ASSUME NEW w \in Nat, NEW p \in Nat, p > 0, NEW q \in Nat, q > 0, NEW n, n = p * q
    PROVE  (w * p) \div n = w \div q
<1> DEFINE m == w \div q
           r == w % q
<1>1. m \in Nat /\ r \in 0 .. q - 1 /\ w = r + q * m
  OBVIOUS
<1> HIDE DEF m, r
<1>2. w * p = p * r + n * m
  BY <1>1
<1>3. p * r <= p * (q - 1)
  BY <1>1
<1>4. p * r \in Nat /\ n \in Nat /\ p * (q - 1) = n - p
  BY <1>1
<1>5. PICK x : x = p * r
  OBVIOUS
<1>6. x \in 0 .. n - 1 /\ n > 0
  BY <1>3, <1>4, <1>5
<1>7. (w * p) \div n = m
  BY <1>1, <1>2, <1>4, <1>5, <1>6, Divided
<1> QED
  BY <1>7 DEF m

LEMMA PowersSplit ==
    ASSUME NEW k \in Nat
    PROVE  Power[k + 3] = Power[k] * Power[3]
<1>1. \A m \in Nat : Power[m + 1] = Base * Power[m]
  BY Powers
<1>2. (k + 1) + 1 = k + 2 /\ (k + 2) + 1 = k + 3 /\ k + 1 \in Nat /\ k + 2 \in Nat
  OBVIOUS
<1>3. Power[k + 1] = Base * Power[k] /\ Power[(k + 1) + 1] = Base * Power[k + 1]
      /\ Power[(k + 2) + 1] = Base * Power[k + 2]
  BY <1>1, <1>2
<1>4. Power[k + 3] = Base * (Base * (Base * Power[k]))
  BY <1>2, <1>3
<1>5. PICK p \in Nat : p = Power[k]
  BY Powers
<1>6. Base * (Base * (Base * p)) = p * (Base * (Base * Base))
  BY <1>5, BaseIsNat
<1> QED
  BY <1>4, <1>5, <1>6, SmallPowers

LEMMA SmallSplit ==
    ASSUME NEW s \in 0 .. 3
    PROVE  Power[s] * Power[3 - s] = Power[3]
<1>1. Base * (Base * Base) = (Base * Base) * Base
  BY BaseIsNat
<1>2. Power[3] \in Nat /\ Power[3] * 1 = Power[3] /\ 1 * Power[3] = Power[3]
  BY SmallPowers
<1>3. CASE s = 0
  <2>1. 3 - s = 3
    BY <1>3
  <2> QED
    BY <1>2, <1>3, <2>1, SmallPowers
<1>4. CASE s = 1
  <2>1. 3 - s = 2
    BY <1>4
  <2> QED
    BY <1>4, <2>1, SmallPowers
<1>5. CASE s = 2
  <2>1. 3 - s = 1
    BY <1>5
  <2> QED
    BY <1>1, <1>5, <2>1, SmallPowers
<1>6. CASE s = 3
  <2>1. 3 - s = 0
    BY <1>6
  <2> QED
    BY <1>2, <1>6, <2>1, SmallPowers
<1> QED
  BY <1>3, <1>4, <1>5, <1>6

\* The number of a word, and its sign.
LEMMA WordIs ==
    ASSUME NEW size, NEW hi \in Byte, NEW mid \in Byte, NEW lo \in Byte
    PROVE  LET bits == <<size, hi, mid, lo>>
           IN  /\ Word(bits) = lo + Base * mid + Base * Base * hi
               /\ Word(bits) \in Nat /\ Word(bits) < Power[3]
               /\ Negative(bits) <=> 2 * hi >= Base
               /\ bits[1] = size
<1> DEFINE bits == <<size, hi, mid, lo>>
<1>1. bits[1] = size /\ bits[2] = hi /\ bits[3] = mid /\ bits[4] = lo
  OBVIOUS
<1> HIDE DEF bits
<1>2. PICK p : p = Base
  OBVIOUS
<1>3. /\ p \in Nat /\ p >= 4 /\ p % 2 = 0
      /\ hi \in Nat /\ mid \in Nat /\ lo \in Nat /\ hi < p /\ mid < p /\ lo < p
  BY <1>2, AuxPowAssumption, ByteIsNat
<1>4. Word(bits) = hi * (p * p) + mid * p + lo
  BY <1>1, <1>2, SmallPowers DEF Word
<1>5. Word(bits) = lo + p * mid + p * p * hi /\ Word(bits) \in Nat
  BY <1>3, <1>4
<1>6. Word(bits) < Power[3]
  <2>1. ASSUME NEW x \in Nat, NEW k \in Nat, NEW t \in Nat, x < p, k < t
        PROVE  x + p * k < p * t
    <3>1. k <= t - 1
      BY <2>1
    <3>2. p * k <= p * (t - 1)
      BY <1>3, <2>1, <3>1
    <3>3. p * (t - 1) = p * t - p
      BY <1>3, <2>1
    <3>4. p * k \in Nat /\ p * t \in Nat
      BY <1>3
    <3> QED
      BY <1>3, <2>1, <3>2, <3>3, <3>4
  <2>2. PICK m : m = mid + p * hi
    OBVIOUS
  <2>3. PICK q : q = p * p
    OBVIOUS
  <2>4. m \in Nat /\ q \in Nat
    BY <1>3, <2>2, <2>3
  <2>5. m < q
    BY <1>3, <2>1, <2>2, <2>3
  <2>6. lo + p * m < p * q
    BY <1>3, <2>1, <2>4, <2>5
  <2>7. Word(bits) = lo + p * m
    BY <1>3, <1>4, <2>2
  <2>8. Power[3] = p * q
    BY <1>2, <2>3, SmallPowers
  <2> QED
    BY <2>6, <2>7, <2>8
<1>7. Negative(bits) <=> 2 * hi >= Base
  <2>1. Negative(bits) <=> hi >= p \div 2
    BY <1>1, <1>2 DEF Negative
  <2>2. hi >= p \div 2 <=> 2 * hi >= p
    BY <1>3
  <2> QED
    BY <1>2, <2>1, <2>2
<1> QED
  BY <1>1, <1>2, <1>5, <1>6, <1>7 DEF bits

LEMMA TargetsAreExact == TargetsExact
<1> SUFFICES
      ASSUME NEW size \in Byte, NEW hi \in Byte, NEW mid \in Byte, NEW lo \in Byte
      PROVE  LET bits == <<size, hi, mid, lo>>
                 word == lo + Base * mid + Base * Base * hi
             IN IF word = 0 \/ 2 * hi >= Base \/ size > TargetBytes
                THEN compact_target(bits) = {}
                ELSE \E target \in compact_target(bits) :
                        /\ compact_target(bits) = {target}
                        /\ Len(target) = TargetBytes
                        /\ LittleEndian(target) = (word * Power[size]) \div Power[3]
  BY DEF TargetsExact
<1> DEFINE bits == <<size, hi, mid, lo>>
           word == lo + Base * mid + Base * Base * hi
           value == IF size <= 3 THEN Word(bits) \div Power[3 - size] ELSE Word(bits)
           offset == IF size <= 3 THEN 0 ELSE size - 3
           target == [i \in 1 .. TargetBytes |->
                        IF i \in offset + 1 .. offset + 3
                        THEN ToBytes(value, 3)[i - offset] ELSE 0]
           refused == word = 0 \/ 2 * hi >= Base \/ size > TargetBytes
<1>1. /\ Word(bits) = word /\ word \in Nat /\ word < Power[3]
      /\ (Negative(bits) <=> 2 * hi >= Base) /\ bits[1] = size
  BY WordIs
<1>2. size \in Nat /\ TargetBytes \in Nat /\ TargetBytes >= 4
  BY AuxPowAssumption, ByteIsNat
<1>3. compact_target(bits) =
         IF Word(bits) = 0 \/ Negative(bits) \/ offset + 3 > TargetBytes THEN {} ELSE {target}
  <2> HIDE DEF bits
  <2>1. bits[1] = size
    BY <1>1
  <2> QED
    BY <2>1 DEF compact_target
<1> HIDE DEF bits, word, target
<1>4. offset \in Nat /\ (offset + 3 > TargetBytes <=> size > TargetBytes)
  BY <1>2
<1>5. compact_target(bits) = IF refused THEN {} ELSE {target}
  <2> HIDE DEF offset
  <2> QED
    BY <1>1, <1>3, <1>4
<1>6. ASSUME ~(size > TargetBytes)
      PROVE  /\ Len(target) = TargetBytes
             /\ LittleEndian(target) = (word * Power[size]) \div Power[3]
  <2>1. CASE size <= 3
    <3> DEFINE q == Power[3 - size]
    <3>1. size \in 0 .. 3 /\ 3 - size \in Nat /\ offset = 0
      BY <1>2, <2>1
    <3>2. q \in Nat /\ q > 0 /\ Power[size] \in Nat /\ Power[size] > 0
      BY <1>2, <3>1, Powers
    <3>3. value = word \div q
      BY <1>1, <2>1
    <3>4. Power[3] = Power[size] * q
      BY <3>1, SmallSplit
    <3> HIDE DEF q, value
    <3>5. (word * Power[size]) \div Power[3] = value
      BY <1>1, <3>2, <3>3, <3>4, WholePart
    <3>6. value \in Nat /\ value <= word
      BY <1>1, <3>2, <3>3
    <3>7. value < Power[3] /\ 0 + 3 <= TargetBytes
      BY <1>1, <1>2, <3>6, SmallPowers
    <3>8. target = [i \in 1 .. TargetBytes |->
                       IF i \in 0 + 1 .. 0 + 3 THEN ToBytes(value, 3)[i - 0] ELSE 0]
      BY <3>1 DEF target, value
    <3>9. Len(target) = TargetBytes /\ LittleEndian(target) = Power[0] * value
      <4> HIDE DEF target
      <4> QED
        BY <3>6, <3>7, <3>8, PlacedValue
    <3> QED
      BY <3>5, <3>6, <3>9, SmallPowers
  <2>2. CASE ~(size <= 3)
    <3>1. PICK k \in Nat : k = size - 3
      BY <1>2, <2>2
    <3>2. offset = k /\ k + 3 = size /\ k + 3 <= TargetBytes /\ value = word
      BY <1>1, <1>2, <1>6, <2>2, <3>1
    <3>3. target = [i \in 1 .. TargetBytes |->
                       IF i \in k + 1 .. k + 3 THEN ToBytes(word, 3)[i - k] ELSE 0]
      <4> HIDE DEF value, offset
      <4> QED
        BY <3>2 DEF target
    <3>4. Len(target) = TargetBytes /\ LittleEndian(target) = Power[k] * word
      BY <1>1, <3>2, <3>3, PlacedValue
    <3>5. Power[size] = Power[k] * Power[3]
      <4>1. Power[k + 3] = Power[k] * Power[3]
        BY PowersSplit
      <4> QED
        BY <3>2, <4>1
    <3>6. PICK p \in Nat : p = Power[k]
      BY Powers
    <3>7. PICK q \in Nat : q = Power[3] /\ q > 0
      BY Powers
    <3>8. PICK n \in Nat : n = word * p
      BY <1>1, <3>6
    <3>9. word * (p * q) = 0 + q * n /\ 0 \in 0 .. q - 1
      BY <1>1, <3>6, <3>7, <3>8
    <3>10. (word * (p * q)) \div q = n
      BY <3>7, <3>9, Divided
    <3>11. Power[k] * word = n
      BY <1>1, <3>6, <3>8
    <3> QED
      BY <3>4, <3>5, <3>6, <3>7, <3>10, <3>11
  <2> QED
    BY <2>1, <2>2
<1> HIDE DEF value, offset
<1>7. IF refused THEN compact_target(bits) = {}
      ELSE \E t \in compact_target(bits) :
              /\ compact_target(bits) = {t} /\ Len(t) = TargetBytes
              /\ LittleEndian(t) = (word * Power[size]) \div Power[3]
  BY <1>5, <1>6
<1> QED
  BY <1>7 DEF bits, word

------------------------------------------------------------------------------
\* Whatever the bytes of a raw block are, verify reads from it the solution
\* that a node has written there, or refuses it if no node writes such a block
\* (auxpow.rs, solution_from_raw_block, decode_compact_size): for bytes of any
\* number of values, header and limit.  The blocks of the runs are among them.
THEOREM SolutionsReadExactly ==
    /\ SolutionsExact(Seq(Byte))
    /\ Spec => []SolutionExact
<1>1. SolutionsExact(Seq(Byte))
  BY SolutionIsWritten DEF SolutionsExact
<1>0. \A m \in Nat : \A s \in [1 .. m -> Byte] : s \in Seq(Byte)
  OBVIOUS
<1>2. \A n \in Nat : Zeros(n) \in Seq(Byte)
  <2>1. 0 \in Byte
    BY BaseIsNat DEF Byte
  <2> QED
    BY <2>1 DEF Zeros
<1>3. ASSUME NEW field \in Fields
      PROVE  field \in Seq(Byte)
  <2>1. CASE field \in SeqOf(Byte, 5)
    <3>1. PICK m \in 0 .. 5 : field \in [1 .. m -> Byte]
      BY <2>1 DEF SeqOf
    <3>2. m \in Nat
      OBVIOUS
    <3> QED
      BY <1>0, <3>1, <3>2
  <2>2. CASE field \in {<<Base - 1>> \o f : f \in [1 .. 8 -> {0, 1}]}
    <3>1. PICK f \in [1 .. 8 -> {0, 1}] : field = <<Base - 1>> \o f
      BY <2>2
    <3>2. 0 \in Byte /\ 1 \in Byte /\ Base - 1 \in Byte
      BY BaseIsNat DEF Byte
    <3>3. f \in [1 .. 8 -> Byte]
      BY <3>2
    <3>4. f \in Seq(Byte)
      BY <1>0, <3>3
    <3>5. PICK last \in Byte : last = Base - 1
      BY <3>2
    <3>6. <<last>> \in Seq(Byte)
      OBVIOUS
    <3> QED
      BY <3>1, <3>4, <3>5, <3>6
  <2> QED
    BY <2>1, <2>2 DEF Fields
<1>4. RawBlocks \subseteq Seq(Byte)
  <2> DEFINE Length == {0, 3, 35, 36, SolutionLimit, SolutionLimit + 1}
             block(field, n) == <<0>> \o field \o Zeros(n)
  <2>1. ASSUME NEW field \in Fields, NEW n \in Length
        PROVE  block(field, n) \in Seq(Byte)
    <3>1. n \in Nat
      BY AuxPowAssumption
    <3>2. 0 \in Byte
      BY BaseIsNat DEF Byte
    <3>3. <<0>> \in Seq(Byte) /\ field \in Seq(Byte) /\ Zeros(n) \in Seq(Byte)
      BY <1>2, <1>3, <3>1, <3>2
    <3> QED
      BY <3>3
  <2>2. RawBlocks = {<<>>} \cup {block(field, n) : field \in Fields, n \in Length}
    BY DEF RawBlocks
  <2>3. <<>> \in Seq(Byte)
    OBVIOUS
  <2> HIDE DEF Length, block
  <2> SUFFICES ASSUME NEW raw \in RawBlocks PROVE raw \in Seq(Byte)
    OBVIOUS
  <2>4. raw = <<>> \/ \E field \in Fields, n \in Length : raw = block(field, n)
    BY <2>2
  <2> QED
    BY <2>1, <2>3, <2>4
<1>5. SolutionExact
  BY <1>1, <1>4 DEF SolutionExact, SolutionsRead, SolutionsExact
<1> QED
  BY <1>1, <1>5, PTL

\* The difficulty bits of a header become exactly the target they mean, or are
\* refused exactly if they mean none (auxpow.rs, compact_target): for bytes of
\* any even number of values and targets of any length.
THEOREM TargetsReadExactly ==
    /\ TargetsExact
    /\ Spec => []TargetExact
<1>1. TargetExact
  BY TargetsAreExact DEF TargetExact, TargetsRead
<1> QED
  BY <1>1, TargetsAreExact, PTL
==============================================================================
