-------------------------- MODULE ProvenanceProofs ---------------------------
(***************************************************************************)
(* What is stored comes from the node's best chain, also when lease        *)
(* sessions die under running processes and several of them write at once. *)
(*                                                                         *)
(* IndexerProofs relies on the lease: what a process read from the tables  *)
(* stays true because nobody else writes.  Provenance needs none of that.  *)
(* A process stores only what it fetched itself, and what it knows of a    *)
(* fetched block is about the node's past, which no other process can      *)
(* change.  The invariant therefore says nothing about the tables beyond   *)
(* their types and the property itself.                                    *)
(***************************************************************************)
EXTENDS IndexerProofs, WellFoundedInduction

\* What a process at call l with local variables j knows of the node.
Knows(l, j) ==
    /\ l \in InSync =>
          /\ j.snap.height \in Heights
          /\ l \notin {"tip_hash", "identity"} => best[0] = Genesis
    /\ l = "observe" => j.tip = NoTip \/ j.tip.height \in Heights
    /\ l = "search" => j.cursor \in Heights
    /\ l \in {"body", "aux_status", "confirm", "commit", "refresh"} =>
          j.hash \in Block /\ j.cursor \in Heights /\ (j.cursor = 0 => j.hash = Genesis)
    /\ l \in {"aux_status", "confirm", "commit", "refresh"} => j.wit \in Witness
    /\ l \in {"confirm", "commit", "refresh"} => <<j.hash, j.wit>> \in seen
    /\ \A h \in Heights : j.staged[h] # NoRow => <<j.staged[h].hash, j.staged[h].wit>> \in seen

\* The inductive invariant.
KInv ==
    /\ TypeOK
    /\ StoredWasBest
    /\ Exposed(best, nodeWit) \subseteq seen
    /\ \A i \in Indexers : Knows(pc[i], job[i])

\* Process i goes on to a call about which it knows enough.
Moves(i) ==
    \E l \in Running \cup {"down"}, j \in Job : Goto(i, l, j) /\ Knows(l, j)

------------------------------------------------------------------------------
\* A set of heights with an element has a highest one.
LEMMA HighestExists ==
    ASSUME NEW H \in SUBSET Heights, H # {}
    PROVE  \E h \in H : \A k \in H : k <= h
<1> DEFINE D == {MaxHeight - h : h \in H}
           Less == OpToRel(<, Nat)
<1>1. MaxHeight \in Nat /\ \A h \in H : h \in Nat /\ h <= MaxHeight
  BY TreeAssumption DEF Heights
<1>2. D \subseteq Nat /\ D # {}
  BY <1>1
<1>3. PICK d \in D : \A e \in D : <<e, d>> \notin Less
  BY <1>2, NatLessThanWellFounded, WFMin
<1>4. PICK h \in H : d = MaxHeight - h
  BY <1>3
<1>5. ASSUME NEW k \in H PROVE k <= h
  <2>1. MaxHeight - k \in D /\ MaxHeight - k \in Nat /\ d \in Nat
    BY <1>1, <1>4
  <2>2. ~(MaxHeight - k < d)
    BY <1>2, <1>3, <2>1 DEF OpToRel
  <2> QED
    BY <1>1, <1>4, <2>2
<1> QED
  BY <1>5

\* The tip read from the selectors, whatever they are.
LEMMA CanonicalTipShape ==
    ASSUME DbTypeOK
    PROVE  canonical_tip \in Tip /\ (canonical_tip = NoTip \/ canonical_tip.height \in Heights)
<1> DEFINE H == {h \in Heights : canon[h] # NoRow}
           top == CHOOSE h \in H : \A k \in H : k <= h
<1>1. CASE H = {}
  BY <1>1, TreeAssumption DEF canonical_tip, NoTip, Tip
<1>2. CASE H # {}
  <2>1. top \in H
    BY <1>2, HighestExists
  <2>2. canon[top].hash \in Block \cup {NoBlock}
    BY <2>1 DEF DbTypeOK, Row, NoRow
  <2>3. canonical_tip = [height |-> top, hash |-> canon[top].hash]
    BY <1>2 DEF canonical_tip
  <2> QED
    BY <2>1, <2>2, <2>3, TreeAssumption DEF Tip, Heights
<1> QED
  BY <1>1, <1>2

\* A step of one process that may write to the tables.
LEMMA WriteKeeps ==
    ASSUME KInv, NEW i \in Indexers, Moves(i), UNCHANGED nodeVars,
           lease' \in Indexers \cup {NoOne}, DbTypeOK', StoredWasBest'
    PROVE  KInv'
<1>1. PICK l \in Running \cup {"down"}, j \in Job : Goto(i, l, j) /\ Knows(l, j)
  BY DEF Moves
<1>2. /\ pc' \in [Indexers -> Running \cup {"down"}] /\ job' \in [Indexers -> Job]
      /\ pc'[i] = l /\ job'[i] = j
      /\ \A k \in Indexers \ {i} : pc'[k] = pc[k] /\ job'[k] = job[k]
  BY <1>1 DEF KInv, TypeOK, Goto
<1>3. TypeOK'
  BY <1>2 DEF KInv, TypeOK, nodeVars, NodeTypeOK, Chain
<1>4. ASSUME NEW k \in Indexers PROVE Knows(pc[k], job[k])'
  <2>1. Knows(pc'[k], job'[k])
    BY <1>1, <1>2 DEF KInv
  <2> QED
    BY <2>1 DEF Knows, nodeVars
<1>5. (Exposed(best, nodeWit) \subseteq seen)'
  BY DEF KInv, Exposed, nodeVars
<1> QED
  BY <1>3, <1>4, <1>5 DEF KInv

\* A step of one process that leaves the tables alone.
LEMMA QuietKeeps ==
    ASSUME KInv, NEW i \in Indexers, Moves(i), UNCHANGED <<dbVars, nodeVars>>,
           lease' \in Indexers \cup {NoOne}
    PROVE  KInv'
<1>1. DbTypeOK'
  BY DEF KInv, TypeOK, dbVars, DbTypeOK
<1>2. StoredWasBest'
  BY DEF KInv, StoredWasBest, dbVars, nodeVars
<1> QED
  BY <1>1, <1>2, WriteKeeps

\* Without a pass nothing has to be known.
LEMMA IdleKnows ==
    ASSUME NEW l \in {"down", "idle", "failed"}
    PROVE  Knows(l, NoJob) /\ l \in Running \cup {"down"}
BY DEF Knows, NoJob, NoStage, Running, InSync, HashCalls

\* A failed pass forgets everything.
LEMMA AbortMoves ==
    ASSUME NEW i \in Indexers, Abort(i)
    PROVE  Moves(i)
BY IdleKnows, JobShapes DEF Abort, Moves

\* The head of the loop over heights.
LEMMA LoopMoves ==
    ASSUME NEW i \in Indexers, NEW j \in Job, Loop(i, j),
           j.snap.height \in Heights, best[0] = Genesis,
           \A h \in Heights : j.staged[h] # NoRow => <<j.staged[h].hash, j.staged[h].wit>> \in seen
    PROVE  Moves(i)
<1>1. CASE j.cursor <= j.snap.height
  BY <1>1 DEF Loop, Moves, Knows, Running, InSync, HashCalls
<1>2. CASE ~(j.cursor <= j.snap.height) /\ j.mode = "stage"
  BY <1>2 DEF Loop, Moves, Knows, Running, InSync, HashCalls
<1>3. CASE ~(j.cursor <= j.snap.height) /\ j.mode # "stage"
  <2>1. Goto(i, "candidate", Rest(j))
    BY <1>3 DEF Loop
  <2>2. Rest(j) \in Job /\ Rest(j).snap = j.snap /\ Rest(j).staged = NoStage
    BY JobShapes DEF Rest, NoJob
  <2>3. Knows("candidate", Rest(j))
    BY <2>2 DEF Knows, NoStage, InSync, HashCalls
  <2> QED
    BY <2>1, <2>2, <2>3 DEF Moves, Running, InSync
<1> QED
  BY <1>1, <1>2, <1>3

------------------------------------------------------------------------------
(***************************************************************************)
(* The steps that read.                                                    *)
(***************************************************************************)
\* A pass starts from a height the node has and with the identity unchecked.
LEMMA SnapshotMoves ==
    ASSUME KInv, NEW i \in Indexers,
           blockchain_info(i) \/ tip_hash(i) \/ validate_identity(i)
    PROVE  Moves(i)
<1>1. CASE blockchain_info(i)
  <2> DEFINE t == [height |-> BestHeight, hash |-> NoBlock]
             j == [NoJob EXCEPT !.snap.height = BestHeight]
  <2>1. BestHeight \in Heights
    BY DEF KInv, TypeOK, NodeTypeOK, Chain, BestHeight
  <2>2. t \in Tip
    BY <2>1, TreeAssumption DEF Tip, Heights
  <2>3. j = [NoJob EXCEPT !.snap = t]
    BY DEF NoJob, NoTip
  <2>4. Goto(i, "tip_hash", j)
    BY <1>1 DEF blockchain_info
  <2>5. j \in Job /\ j.snap.height = BestHeight /\ j.staged = NoStage
    <3>1. t.height = BestHeight
      OBVIOUS
    <3> HIDE DEF t, j
    <3>2. [NoJob EXCEPT !.snap = t] \in Job
      BY <2>2, JobShapes DEF Job
    <3>3. /\ [NoJob EXCEPT !.snap = t].snap = t
          /\ [NoJob EXCEPT !.snap = t].staged = NoStage
      BY DEF NoJob
    <3> QED
      BY <2>3, <3>1, <3>2, <3>3
  <2> HIDE DEF j
  <2>6. Knows("tip_hash", j)
    BY <2>1, <2>5 DEF Knows, NoStage
  <2> QED
    BY <2>4, <2>5, <2>6 DEF Moves, Running, InSync, HashCalls
<1>2. CASE tip_hash(i)
  <2> DEFINE j == job[i]
             t == [j.snap EXCEPT !.hash = best[j.snap.height]]
             k == [j EXCEPT !.snap = t]
  <2>1. /\ j \in Job /\ Knows("tip_hash", j) /\ Goto(i, "identity", [j EXCEPT !.snap.hash = best[j.snap.height]])
        /\ j.snap.height \in Heights
    BY <1>2 DEF tip_hash, Asks, KInv, TypeOK, Knows, InSync, HashCalls
  <2>2. best[j.snap.height] \in Block \cup {NoBlock} /\ j.snap \in Tip
    BY <2>1 DEF KInv, TypeOK, NodeTypeOK, Chain, Job
  <2>3. t \in Tip /\ t.height = j.snap.height
    BY <2>2 DEF Tip
  <2>4. [j EXCEPT !.snap.hash = best[j.snap.height]] = k
    BY DEF Job
  <2> HIDE DEF t
  <2>5. k \in Job /\ k.snap = t /\ k.staged = j.staged
    BY <2>1, <2>3 DEF Job
  <2> HIDE DEF k
  <2>6. Knows("identity", k)
    BY <2>1, <2>3, <2>5 DEF Knows
  <2> QED
    BY <2>1, <2>4, <2>5, <2>6 DEF Moves, Running, InSync, HashCalls
<1>3. CASE validate_identity(i) /\ best[0] = Genesis
  <2>1. Goto(i, "read_tip", job[i]) /\ job[i] \in Job /\ Knows("identity", job[i])
    BY <1>3 DEF validate_identity, Asks, KInv, TypeOK
  <2>2. Knows("read_tip", job[i])
    BY <1>3, <2>1 DEF Knows, InSync, HashCalls
  <2> QED
    BY <2>1, <2>2 DEF Moves, Running, InSync, HashCalls
<1>4. CASE validate_identity(i) /\ best[0] # Genesis
  BY <1>4, AbortMoves DEF validate_identity
<1> QED
  BY <1>1, <1>2, <1>3, <1>4

\* The stored tip is none or at a height.
LEMMA TipMoves ==
    ASSUME KInv, NEW i \in Indexers, read_tip(i) \/ final_tip(i)
    PROVE  Moves(i)
<1> DEFINE j == job[i]
           k == [j EXCEPT !.tip = canonical_tip]
<1>1. /\ pc[i] \in {"read_tip", "final_tip"} /\ j \in Job /\ Knows(pc[i], j)
      /\ \/ Goto(i, "observe", k)
         \/ Goto(i, "finish", k)
  BY DEF read_tip, final_tip, KInv, TypeOK
<1>2. canonical_tip \in Tip /\ (canonical_tip = NoTip \/ canonical_tip.height \in Heights)
  BY CanonicalTipShape DEF KInv, TypeOK
<1>3. k \in Job /\ k.tip = canonical_tip /\ k.snap = j.snap /\ k.staged = j.staged
  BY <1>1, <1>2 DEF Job
<1> HIDE DEF k
<1>4. Knows("observe", k) /\ Knows("finish", k)
  BY <1>1, <1>2, <1>3 DEF Knows, InSync, HashCalls
<1> QED
  BY <1>1, <1>3, <1>4 DEF Moves, Running, InSync, HashCalls

\* Where the search for an ancestor begins.
LEMMA SearchStarts ==
    ASSUME NEW i \in Indexers, NEW j \in Job, NEW l \in InSync, Knows(l, j),
           l \notin {"tip_hash", "identity"}, j.tip.height \in Heights,
           Goto(i, "search", At(j, SearchFrom(j), NoBlock))
    PROVE  Moves(i)
<1> DEFINE k == At(j, SearchFrom(j), NoBlock)
<1>1. j.snap.height \in Heights /\ best[0] = Genesis
  BY DEF Knows
<1>2. SearchFrom(j) \in Heights /\ SearchFrom(j) \in 0..MaxHeight + 1
  BY <1>1, TreeAssumption DEF SearchFrom, Heights
<1>3. k \in Job /\ k.cursor = SearchFrom(j) /\ k.snap = j.snap /\ k.staged = j.staged
  BY <1>2, JobShapes DEF At, Job
<1> HIDE DEF k
<1>4. Knows("search", k)
  BY <1>1, <1>2, <1>3 DEF Knows
<1> QED
  BY <1>3, <1>4 DEF Moves, Running, InSync, HashCalls, k

\* Comparing the tips: the loop goes on above the stored tip, or a search starts.
LEMMA CompareMoves ==
    ASSUME KInv, NEW i \in Indexers, compare(i)
    PROVE  Moves(i)
<1> DEFINE j == job[i]
           k == At(j, j.tip.height + 1, j.tip.hash)
<1>1. /\ j \in Job /\ Knows("compare", j) /\ j.tip.height \in Heights
      /\ "compare" \in InSync /\ best[0] = Genesis /\ j.snap.height \in Heights
  BY DEF compare, Asks, AskedHeight, Serves, KInv, TypeOK, Knows, InSync, HashCalls
<1>2. CASE best[j.tip.height] = j.tip.hash
  <2>1. j.tip.height + 1 \in 0..MaxHeight + 1 /\ j.tip.hash \in Block \cup {NoBlock}
    BY <1>1, TreeAssumption DEF Heights, Job, Tip
  <2>2. k \in Job /\ k.snap = j.snap /\ k.staged = j.staged
    BY <1>1, <2>1, JobShapes DEF At, Job
  <2>3. Loop(i, k)
    BY <1>2 DEF compare
  <2> HIDE DEF k
  <2> QED
    BY <1>1, <2>2, <2>3, LoopMoves DEF Knows
<1>3. CASE best[j.tip.height] # j.tip.hash
  BY <1>1, <1>3, SearchStarts DEF compare
<1> QED
  BY <1>2, <1>3

\* The search goes down one height, stops at a common block, or gives up.
LEMMA SearchMoves ==
    ASSUME KInv, NEW i \in Indexers, search(i) \/ search_node(i)
    PROVE  Moves(i)
<1> DEFINE j == job[i]
           c == j.cursor
<1>1. j \in Job /\ Knows(pc[i], j) /\ best[0] = Genesis /\ j.snap.height \in Heights
  BY DEF search, search_node, Asks, KInv, TypeOK, Knows, InSync, HashCalls
<1>2. CASE Abort(i)
  BY <1>2, AbortMoves
<1>3. CASE search(i) /\ ~Abort(i)
  <2> DEFINE k == [j EXCEPT !.hash = canonical_hash(c)]
  <2>1. pc[i] = "search" /\ Goto(i, "search_node", k)
    BY <1>3 DEF search
  <2>2. canonical_hash(c) \in Block \cup {NoBlock}
    BY <1>1, <2>1 DEF Knows, canonical_hash, KInv, TypeOK, DbTypeOK, Row, NoRow
  <2>3. k \in Job /\ k.snap = j.snap /\ k.staged = j.staged
    BY <1>1, <2>2 DEF Job
  <2> HIDE DEF k
  <2>4. Knows("search_node", k)
    BY <1>1, <2>3 DEF Knows
  <2> QED
    BY <2>1, <2>3, <2>4 DEF Moves, Running, InSync, HashCalls
<1>4. CASE search_node(i) /\ best[c] = j.hash
  <2> DEFINE a == [height |-> c, hash |-> j.hash]
             m == At(j, c + 1, j.hash)
             k == [m EXCEPT !.mode = "stage", !.anc = a]
  <2>1. c \in Heights /\ c + 1 \in 0..MaxHeight + 1 /\ j.hash \in Block \cup {NoBlock}
    BY <1>1, <1>4, TreeAssumption
       DEF search_node, Asks, AskedHeight, Serves, Heights, Job
  <2>2. Loop(i, k)
    BY <1>4 DEF search_node
  <2>3. a \in Tip
    BY <2>1, TreeAssumption DEF Tip, Heights
  <2>4. m \in Job /\ m.snap = j.snap /\ m.staged = j.staged
    BY <1>1, <2>1, JobShapes DEF At, Job
  <2> HIDE DEF m, a
  <2>5. k \in Job /\ k.snap = j.snap /\ k.staged = j.staged
    BY <2>3, <2>4 DEF Job, Mode
  <2> HIDE DEF k
  <2> QED
    BY <1>1, <2>2, <2>5, LoopMoves DEF Knows
<1>5. CASE search_node(i) /\ best[c] # j.hash /\ c # 0
  <2> DEFINE k == At(j, c - 1, NoBlock)
  <2>1. c \in Heights /\ c - 1 \in Heights /\ c - 1 \in 0..MaxHeight + 1
    BY <1>5, TreeAssumption DEF search_node, Asks, AskedHeight, Serves, Heights
  <2>2. k \in Job /\ k.cursor = c - 1 /\ k.snap = j.snap /\ k.staged = j.staged
    BY <1>1, <2>1, JobShapes DEF At, Job
  <2>3. Goto(i, "search", k)
    BY <1>5 DEF search_node
  <2> HIDE DEF k
  <2>4. Knows("search", k)
    BY <1>1, <2>1, <2>2 DEF Knows
  <2> QED
    BY <2>2, <2>3, <2>4 DEF Moves, Running, InSync, HashCalls
<1> QED
  BY <1>2, <1>3, <1>4, <1>5 DEF search_node

\* What a process fetches at height 0 is the configured genesis block.
LEMMA FetchMoves ==
    ASSUME KInv, NEW i \in Indexers, fetch(i)
    PROVE  Moves(i)
<1> DEFINE j == job[i]
           k == [j EXCEPT !.hash = best[j.cursor]]
<1>1. /\ j \in Job /\ Knows("fetch", j) /\ j.cursor \in Heights /\ best[j.cursor] # NoBlock
      /\ "fetch" \in InSync
  BY DEF fetch, Asks, AskedHeight, Serves, KInv, TypeOK, InSync, HashCalls
<1>2. best[j.cursor] \in Block
  BY <1>1 DEF KInv, TypeOK, NodeTypeOK, Chain
<1>3. /\ k \in Job /\ k.hash = best[j.cursor] /\ k.cursor = j.cursor
      /\ k.snap = j.snap /\ k.staged = j.staged
  BY <1>1, <1>2 DEF Job
<1>4. Goto(i, "body", k)
  BY DEF fetch
<1> HIDE DEF k
<1>5. Knows("body", k)
  BY <1>1, <1>2, <1>3 DEF Knows
<1> QED
  BY <1>3, <1>4, <1>5 DEF Moves, Running, InSync

\* The witness in hand is the node's; for genesis it has been on the best chain.
LEMMA BodyMoves ==
    ASSUME KInv, NEW i \in Indexers, body(i)
    PROVE  Moves(i)
<1> DEFINE j == job[i]
           k == [j EXCEPT !.wit = nodeWit[j.hash]]
           l == IF j.cursor = 0 THEN "confirm" ELSE "aux_status"
<1>1. /\ j \in Job /\ Knows("body", j) /\ j.hash \in Block /\ best[0] = Genesis
      /\ j.cursor = 0 => j.hash = Genesis
  BY DEF body, KInv, TypeOK, Knows, InSync
<1>2. CASE Abort(i)
  BY <1>2, AbortMoves
<1>3. CASE Goto(i, l, k)
  <2>1. nodeWit[j.hash] \in Witness
    BY <1>1 DEF KInv, TypeOK, NodeTypeOK
  <2>2. j.cursor = 0 => <<j.hash, nodeWit[j.hash]>> \in seen
    <3>1. 0 \in Heights /\ Genesis # NoBlock
      BY TreeAssumption DEF Heights
    <3> QED
      BY <1>1, <3>1 DEF KInv, Exposed
  <2>3. /\ k \in Job /\ k.hash = j.hash /\ k.wit = nodeWit[j.hash] /\ k.cursor = j.cursor
        /\ k.snap = j.snap /\ k.staged = j.staged
    BY <1>1, <2>1 DEF Job
  <2> HIDE DEF k
  <2>4. Knows(l, k)
    BY <1>1, <2>1, <2>2, <2>3 DEF Knows, InSync, HashCalls
  <2> QED
    BY <1>3, <2>3, <2>4 DEF Moves, Running, InSync, HashCalls
<1> QED
  BY <1>2, <1>3 DEF body

\* A confirmed witness has been on the best chain with its block.
LEMMA AuxStatusMoves ==
    ASSUME KInv, NEW i \in Indexers, aux_status(i)
    PROVE  Moves(i)
<1> DEFINE j == job[i]
<1>1. /\ j \in Job /\ Knows("aux_status", j) /\ j.hash \in Block
  BY DEF aux_status, KInv, TypeOK, Knows
<1>2. CASE BestWitness(j.hash, j.wit)
  <2>1. <<j.hash, j.wit>> \in seen
    BY <1>1, <1>2, TreeAssumption DEF BestWitness, KInv, Exposed
  <2>2. Goto(i, "confirm", j) /\ Knows("confirm", j)
    BY <1>1, <1>2, <2>1 DEF aux_status, Knows, InSync, HashCalls
  <2> QED
    BY <1>1, <2>2 DEF Moves, Running, InSync, HashCalls
<1>3. CASE ~BestWitness(j.hash, j.wit)
  BY <1>3, AbortMoves DEF aux_status
<1> QED
  BY <1>2, <1>3

\* Only confirmed blocks are committed, refreshed or staged.
LEMMA ConfirmMoves ==
    ASSUME KInv, NEW i \in Indexers, confirm(i)
    PROVE  Moves(i)
<1> DEFINE j == job[i]
<1>1. /\ j \in Job /\ Knows("confirm", j) /\ best[0] = Genesis /\ j.snap.height \in Heights
      /\ j.hash \in Block /\ j.wit \in Witness /\ <<j.hash, j.wit>> \in seen
      /\ j.cursor \in Heights
  BY DEF confirm, Asks, KInv, TypeOK, Knows, InSync, HashCalls
<1>2. CASE Abort(i)
  BY <1>2, AbortMoves
<1>3. CASE Goto(i, "commit", j) \/ Goto(i, "refresh", j)
  <2>1. Knows("commit", j) /\ Knows("refresh", j)
    BY <1>1 DEF Knows, InSync, HashCalls
  <2> QED
    BY <1>1, <1>3, <2>1 DEF Moves, Running, InSync
<1>4. CASE Loop(i, [At(j, j.cursor + 1, j.hash) EXCEPT !.staged[j.cursor] = Fetched(i)])
  <2> DEFINE m == At(j, j.cursor + 1, j.hash)
             r == Fetched(i)
             st == [j.staged EXCEPT ![j.cursor] = r]
             k == [m EXCEPT !.staged[j.cursor] = r]
  <2>1. j.cursor + 1 \in 0..MaxHeight + 1
    BY <1>1, TreeAssumption DEF Heights
  <2>2. m \in Job /\ m.snap = j.snap /\ m.staged = j.staged
    BY <1>1, <2>1, JobShapes DEF At, Job
  <2>3. r \in Row /\ r = [hash |-> j.hash, wit |-> j.wit]
    BY <1>1 DEF Fetched, Row
  <2> HIDE DEF m, r
  <2>4. st \in [Heights -> Row \cup {NoRow}]
    BY <1>1, <2>3 DEF Job
  <2>5. k = [m EXCEPT !.staged = st]
    BY <2>2 DEF Job
  <2>6. k \in Job /\ k.snap = j.snap /\ k.staged = st
    BY <2>2, <2>4, <2>5 DEF Job
  <2>7. Loop(i, k)
    BY <1>4 DEF m, r
  <2> HIDE DEF k
  <2>8. \A h \in Heights : st[h] # NoRow => <<st[h].hash, st[h].wit>> \in seen
    BY <1>1, <2>3 DEF Knows, Job
  <2> HIDE DEF st
  <2> QED
    BY <1>1, <2>6, <2>7, <2>8, LoopMoves
<1> QED
  BY <1>1, <1>2, <1>3, <1>4 DEF confirm, Job, Mode

\* The second look at the snapshot and the ancestor.
LEMMA RecheckMoves ==
    ASSUME KInv, NEW i \in Indexers, recheck_tip(i) \/ recheck_ancestor(i)
    PROVE  Moves(i)
<1>1. job[i] \in Job /\ Knows(pc[i], job[i]) /\ pc[i] \in {"recheck_tip", "recheck_ancestor"}
  BY DEF recheck_tip, recheck_ancestor, Asks, KInv, TypeOK
<1>2. Knows("recheck_ancestor", job[i]) /\ Knows("replace", job[i])
  BY <1>1 DEF Knows, InSync, HashCalls
<1>3. Abort(i) \/ Goto(i, "recheck_ancestor", job[i]) \/ Goto(i, "replace", job[i])
  BY DEF recheck_tip, recheck_ancestor
<1> QED
  BY <1>1, <1>2, <1>3, AbortMoves DEF Moves, Running, InSync, HashCalls

\* A record to refresh, and the predecessor it must have.
LEMMA CandidateMoves ==
    ASSUME KInv, NEW i \in Indexers, candidate(i) \/ refresh_prev(i)
    PROVE  Moves(i)
<1> DEFINE j == job[i]
<1>1. j \in Job /\ Knows(pc[i], j) /\ pc[i] \in {"candidate", "refresh_prev"}
  BY DEF candidate, refresh_prev, Asks, KInv, TypeOK
<1>2. CASE Goto(i, "final_tip", j)
  <2>1. Knows("final_tip", j)
    BY <1>1 DEF Knows, InSync, HashCalls
  <2> QED
    BY <1>1, <1>2, <2>1 DEF Moves, Running, InSync
<1>3. ASSUME NEW h \in RefreshWindow(RefreshDepth),
             Goto(i, "refresh_prev", [j EXCEPT !.mode = "refresh", !.cursor = h])
      PROVE  Moves(i)
  <2> DEFINE k == [j EXCEPT !.mode = "refresh", !.cursor = h]
  <2>1. h \in 0..MaxHeight + 1
    BY TreeAssumption DEF RefreshWindow, Heights
  <2>2. k \in Job /\ k.snap = j.snap /\ k.staged = j.staged
    BY <1>1, <2>1 DEF Job, Mode
  <2> HIDE DEF k
  <2>3. Knows("refresh_prev", k)
    BY <1>1, <2>2 DEF Knows, InSync, HashCalls
  <2> QED
    BY <1>3, <2>2, <2>3 DEF Moves, Running, InSync, HashCalls, k
<1>4. CASE refresh_prev(i)
  <2> DEFINE k == [j EXCEPT !.prev = best[j.cursor - 1]]
  <2>1. best[j.cursor - 1] \in Block \cup {NoBlock}
    BY <1>4 DEF refresh_prev, Asks, AskedHeight, Serves, KInv, TypeOK, NodeTypeOK, Chain
  <2>2. k \in Job /\ k.snap = j.snap /\ k.staged = j.staged
    BY <1>1, <2>1 DEF Job
  <2>3. Goto(i, "fetch", k)
    BY <1>4 DEF refresh_prev
  <2> HIDE DEF k
  <2>4. Knows("fetch", k)
    BY <1>1, <2>2 DEF Knows, InSync, HashCalls
  <2> QED
    BY <2>2, <2>3, <2>4 DEF Moves, Running, InSync, HashCalls
<1> QED
  BY <1>2, <1>3, <1>4 DEF candidate

------------------------------------------------------------------------------
(***************************************************************************)
(* The steps that write.                                                   *)
(***************************************************************************)
\* A transaction that only updates chain_state.
LEMMA StateKeeps ==
    ASSUME KInv, NEW i \in Indexers, Moves(i), UNCHANGED <<nodeVars, lease>>,
           UNCHANGED <<canon, facts, lastReorg>>,
           state' \in [indexed : Tip, node : Tip, status : Status]
    PROVE  KInv'
<1>1. DbTypeOK' /\ lease' \in Indexers \cup {NoOne}
  BY DEF KInv, TypeOK, DbTypeOK
<1>2. StoredWasBest'
  BY DEF KInv, StoredWasBest, nodeVars
<1> QED
  BY <1>1, <1>2, WriteKeeps

\* Recording the node's tip, a finished pass or a failure.
LEMMA RecordStep ==
    ASSUME KInv, NEW i \in Indexers, observe(i) \/ finish(i) \/ Failed(i)
    PROVE  KInv'
<1> DEFINE j == job[i]
<1>1. /\ j \in Job /\ Knows(pc[i], j) /\ j.snap \in Tip /\ UNCHANGED nodeVars /\ UNCHANGED lease
      /\ state \in [indexed : Tip, node : Tip, status : Status]
  BY DEF observe, finish, Failed, KInv, TypeOK, DbTypeOK, Job
<1>2. CASE observe(i)
  <2>1. UNCHANGED <<canon, facts, lastReorg>>
    BY <1>2 DEF observe, observe_node_tip
  <2>2. state' \in [indexed : Tip, node : Tip, status : Status]
    BY <1>1, <1>2 DEF observe, observe_node_tip, Status
  <2>3. /\ pc[i] = "observe" /\ "observe" \in InSync /\ best[0] = Genesis
        /\ j.snap.height \in Heights /\ (j.tip = NoTip \/ j.tip.height \in Heights)
    BY <1>1, <1>2 DEF observe, Knows, InSync, HashCalls
  <2>4. CASE j.tip = NoTip
    BY <1>1, <1>2, <2>3, <2>4, LoopMoves, <2>1, <2>2, StateKeeps DEF observe, Knows
  <2>5. CASE j.tip # NoTip /\ j.tip.height <= j.snap.height
    <3>1. Goto(i, "compare", j) /\ Knows("compare", j)
      BY <1>1, <1>2, <2>3, <2>5 DEF observe, Knows, InSync, HashCalls
    <3>2. Moves(i)
      BY <1>1, <3>1 DEF Moves, Running, InSync, HashCalls
    <3> QED
      BY <1>1, <2>1, <2>2, <3>2, StateKeeps
  <2>6. CASE j.tip # NoTip /\ ~(j.tip.height <= j.snap.height)
    <3>1. Moves(i)
      BY <1>1, <1>2, <2>3, <2>6, SearchStarts DEF observe
    <3> QED
      BY <1>1, <2>1, <2>2, <3>1, StateKeeps
  <2> QED
    BY <2>4, <2>5, <2>6
<1>3. CASE finish(i)
  <2>1. UNCHANGED <<canon, facts, lastReorg>>
    BY <1>3 DEF finish, update_node_tip
  <2>2. state' \in [indexed : Tip, node : Tip, status : Status]
    BY <1>1, <1>3 DEF finish, update_node_tip, Status
  <2>3. Moves(i)
    BY <1>3, IdleKnows, JobShapes DEF finish, Moves
  <2> QED
    BY <1>1, <2>1, <2>2, <2>3, StateKeeps
<1>4. CASE Failed(i)
  <2>1. UNCHANGED <<canon, facts, lastReorg>>
    BY <1>4 DEF Failed, mark_indexer_error, dbVars
  <2>2. state' \in [indexed : Tip, node : Tip, status : Status]
    BY <1>1, <1>4 DEF Failed, mark_indexer_error, dbVars, Status
  <2>3. Moves(i)
    BY <1>4, IdleKnows, JobShapes DEF Failed, Moves
  <2> QED
    BY <1>1, <2>1, <2>2, <2>3, StateKeeps
<1> QED
  BY <1>2, <1>3, <1>4

\* A committed block was confirmed by the process that commits it.
LEMMA CommitKeeps ==
    ASSUME KInv, NEW i \in Indexers, commit(i)
    PROVE  KInv'
<1> DEFINE j == job[i]
           r == Fetched(i)
           k == At(j, j.cursor + 1, j.hash)
<1>1. /\ j \in Job /\ Knows("commit", j) /\ best[0] = Genesis /\ j.snap.height \in Heights
      /\ j.hash \in Block /\ j.wit \in Witness /\ <<j.hash, j.wit>> \in seen
      /\ j.cursor \in Heights /\ UNCHANGED nodeVars /\ UNCHANGED lease
  BY DEF commit, KInv, TypeOK, Knows, InSync, HashCalls
<1>2. CASE Abort(i) /\ UNCHANGED dbVars
  BY <1>1, <1>2, AbortMoves, QuietKeeps DEF KInv, TypeOK
<1>3. CASE commit_block(j.cursor, r) /\ Loop(i, k)
  <2>1. r \in Row /\ r.hash = j.hash /\ r.wit = j.wit
    BY <1>1 DEF Fetched, Row
  <2>2. /\ canon' = [canon EXCEPT ![j.cursor] = r] /\ facts' = facts \cup {<<j.hash, j.wit>>}
        /\ state' = [state EXCEPT !.indexed = [height |-> j.cursor, hash |-> j.hash],
                                  !.status = "syncing"]
        /\ UNCHANGED lastReorg
    BY <1>3, <2>1 DEF commit_block
  <2> HIDE DEF r
  <2>3. canon' \in [Heights -> Row \cup {NoRow}] /\ facts' \subseteq Block \X Witness
    BY <1>1, <2>1, <2>2 DEF KInv, TypeOK, DbTypeOK
  <2>4. [height |-> j.cursor, hash |-> j.hash] \in Tip
    BY <1>1, TreeAssumption DEF Tip, Heights
  <2>5. DbTypeOK'
    BY <2>2, <2>3, <2>4 DEF KInv, TypeOK, DbTypeOK, Status
  <2>6. StoredWasBest'
    BY <1>1, <2>1, <2>2 DEF KInv, TypeOK, DbTypeOK, StoredWasBest, nodeVars
  <2>7. j.cursor + 1 \in 0..MaxHeight + 1
    BY <1>1, TreeAssumption DEF Heights
  <2>8. k \in Job /\ k.snap = j.snap /\ k.staged = j.staged
    BY <1>1, <2>7, JobShapes DEF At, Job
  <2> HIDE DEF k
  <2>9. Moves(i)
    BY <1>1, <1>3, <2>8, LoopMoves DEF Knows
  <2> QED
    BY <1>1, <2>5, <2>6, <2>9, WriteKeeps DEF KInv, TypeOK
<1> QED
  BY <1>2, <1>3 DEF commit

\* Nor does a refresh store anything but a confirmed block.
LEMMA RefreshKeeps ==
    ASSUME KInv, NEW i \in Indexers, refresh(i)
    PROVE  KInv'
<1> DEFINE j == job[i]
           r == Fetched(i)
<1>1. /\ j \in Job /\ Knows("refresh", j) /\ best[0] = Genesis /\ j.snap.height \in Heights
      /\ j.hash \in Block /\ j.wit \in Witness /\ <<j.hash, j.wit>> \in seen
      /\ UNCHANGED nodeVars /\ UNCHANGED lease
  BY DEF refresh, KInv, TypeOK, Knows, InSync, HashCalls
<1>2. CASE Abort(i) /\ UNCHANGED dbVars
  BY <1>1, <1>2, AbortMoves, QuietKeeps DEF KInv, TypeOK
<1>3. CASE refresh_block_evidence(r) /\ Goto(i, "final_tip", Rest(j))
  <2>1. facts' = facts \cup {<<j.hash, j.wit>>} /\ UNCHANGED <<canon, state, lastReorg>>
    BY <1>3 DEF refresh_block_evidence, Fetched
  <2>2. DbTypeOK'
    BY <1>1, <2>1 DEF KInv, TypeOK, DbTypeOK
  <2>3. StoredWasBest'
    BY <1>1, <2>1 DEF KInv, StoredWasBest, nodeVars
  <2>4. Rest(j) \in Job /\ Rest(j).snap = j.snap /\ Rest(j).staged = NoStage
    BY <1>1, JobShapes DEF Rest, NoJob
  <2>5. Knows("final_tip", Rest(j))
    BY <1>1, <2>4 DEF Knows, NoStage, InSync, HashCalls
  <2>6. Moves(i)
    BY <1>3, <2>4, <2>5 DEF Moves, Running, InSync
  <2> QED
    BY <1>1, <2>2, <2>3, <2>6, WriteKeeps DEF KInv, TypeOK
<1> QED
  BY <1>2, <1>3 DEF refresh

\* Every row of a staged branch was confirmed by the process that publishes it.
LEMMA ReplaceKeeps ==
    ASSUME KInv, NEW i \in Indexers, replace(i)
    PROVE  KInv'
<1> DEFINE j == job[i]
           a == j.anc
           hi == j.snap.height
           B == a.height + 1 .. hi
<1>1. /\ j \in Job /\ Knows("replace", j) /\ best[0] = Genesis /\ hi \in Heights
      /\ UNCHANGED nodeVars /\ UNCHANGED lease /\ a \in Tip /\ j.tip \in Tip
      /\ j.staged \in [Heights -> Row \cup {NoRow}]
  BY DEF replace, KInv, TypeOK, Knows, InSync, HashCalls, Job
<1>2. CASE Abort(i) /\ UNCHANGED dbVars
  BY <1>1, <1>2, AbortMoves, QuietKeeps DEF KInv, TypeOK
<1>3. CASE /\ replace_canonical_branch_ok(j.tip, a, j.staged, hi)
           /\ replace_canonical_branch(j.tip, a, j.staged, hi)
           /\ Goto(i, "candidate", Rest(j))
  <2>1. B \subseteq Heights /\ \A h \in B : h \in Heights /\ h \in Int
    BY <1>1, TreeAssumption DEF Heights, Tip
  <2>2. \A h \in B : j.staged[h] \in Row /\ <<j.staged[h].hash, j.staged[h].wit>> \in seen
    BY <1>1, <1>3, <2>1 DEF replace_canonical_branch_ok, validate_replacement_branch, Knows
  <2>3. /\ canon' = [h \in Heights |-> IF h <= a.height THEN canon[h]
                                       ELSE IF h \in B THEN j.staged[h] ELSE NoRow]
        /\ facts' = facts \cup {<<j.staged[h].hash, j.staged[h].wit>> : h \in B}
        /\ lastReorg' = [old |-> j.tip, ancestor |-> a]
        /\ state' = [state EXCEPT
              !.indexed = IF B = {} THEN a ELSE [height |-> hi, hash |-> j.staged[hi].hash],
              !.status = "syncing"]
    BY <1>3 DEF replace_canonical_branch
  <2>4. canon' \in [Heights -> Row \cup {NoRow}]
    BY <2>2, <2>3 DEF KInv, TypeOK, DbTypeOK
  <2>5. facts' \subseteq Block \X Witness
    BY <2>2, <2>3 DEF KInv, TypeOK, DbTypeOK, Row
  <2>6. B # {} => hi \in B
    BY <1>1, TreeAssumption DEF Heights, Tip
  <2>7. (IF B = {} THEN a ELSE [height |-> hi, hash |-> j.staged[hi].hash]) \in Tip
    <3>1. CASE B = {}
      BY <1>1, <3>1
    <3>2. CASE B # {}
      <4>1. j.staged[hi].hash \in Block
        BY <2>2, <2>6, <3>2 DEF Row
      <4> QED
        BY <1>1, <3>2, <4>1, TreeAssumption DEF Tip, Heights
    <3> QED
      BY <3>1, <3>2
  <2>8. state' \in [indexed : Tip, node : Tip, status : Status]
        /\ lastReorg' \in [old : Tip, ancestor : Tip]
    BY <1>1, <2>3, <2>7 DEF KInv, TypeOK, DbTypeOK, Status
  <2>9. DbTypeOK'
    BY <2>4, <2>5, <2>8 DEF DbTypeOK
  <2>10. StoredWasBest'
    <3>1. facts' \subseteq seen'
      BY <1>1, <2>2, <2>3 DEF KInv, StoredWasBest, nodeVars
    <3>2. ASSUME NEW h \in Heights, canon'[h] # NoRow
          PROVE  <<canon'[h].hash, canon'[h].wit>> \in facts'
      <4>1. CASE h <= a.height
        BY <2>3, <3>2, <4>1 DEF KInv, StoredWasBest
      <4>2. CASE ~(h <= a.height)
        <5>1. h \in B /\ canon'[h] = j.staged[h]
          BY <2>3, <3>2, <4>2
        <5> QED
          BY <2>3, <5>1
      <4> QED
        BY <4>1, <4>2
    <3> QED
      BY <3>1, <3>2 DEF StoredWasBest
  <2>11. Rest(j) \in Job /\ Rest(j).snap = j.snap /\ Rest(j).staged = NoStage
    BY <1>1, JobShapes DEF Rest, NoJob
  <2>12. Knows("candidate", Rest(j))
    BY <1>1, <2>11 DEF Knows, NoStage, InSync, HashCalls
  <2>13. Moves(i)
    BY <1>3, <2>11, <2>12 DEF Moves, Running, InSync
  <2> QED
    BY <1>1, <2>9, <2>10, <2>13, WriteKeeps DEF KInv, TypeOK
<1> QED
  BY <1>2, <1>3 DEF replace

------------------------------------------------------------------------------
(***************************************************************************)
(* Processes, faults and the node.                                         *)
(***************************************************************************)
\* A process starts, dies, stops for its lost lease, or fails a call; or its
\* session dies under it.
LEMMA ProcessKeeps ==
    ASSUME KInv, NEW i \in Indexers,
           \/ acquire_writer_lock(i) \/ Crash(i) \/ LeaseLossNoticed(i)
           \/ CallFails(i) \/ NodeRefuses(i)
    PROVE  KInv'
<1>1. Goto(i, "idle", NoJob) \/ Goto(i, "down", NoJob) \/ Goto(i, "failed", NoJob)
  BY DEF acquire_writer_lock, Crash, LeaseLossNoticed, CallFails, NodeRefuses, Abort
<1>2. Moves(i)
  BY <1>1, IdleKnows, JobShapes DEF Moves
<1>3. lease' \in Indexers \cup {NoOne} /\ UNCHANGED <<dbVars, nodeVars>>
  BY DEF acquire_writer_lock, Crash, LeaseLossNoticed, CallFails, NodeRefuses, KInv, TypeOK
<1> QED
  BY <1>2, <1>3, QuietKeeps

\* A lease session that dies, or nothing at all, changes nothing that matters.
LEMMA OutsideKeeps ==
    ASSUME KInv, UNCHANGED <<dbVars, nodeVars, pc, job>>, lease' \in Indexers \cup {NoOne}
    PROVE  KInv'
<1>1. TypeOK'
  BY DEF KInv, TypeOK, DbTypeOK, NodeTypeOK, Chain, dbVars, nodeVars
<1>2. StoredWasBest' /\ (Exposed(best, nodeWit) \subseteq seen)'
  BY DEF KInv, StoredWasBest, Exposed, dbVars, nodeVars
<1>3. \A k \in Indexers : Knows(pc[k], job[k])'
  BY DEF KInv, Knows, nodeVars
<1> QED
  BY <1>1, <1>2, <1>3 DEF KInv

\* The node may do what it likes: knowledge of its past stays knowledge.
LEMMA NodeKeeps ==
    ASSUME KInv, NodeStep
    PROVE  KInv'
<1>1. UNCHANGED <<canon, facts, state, lastReorg, lease, pc, job>>
  BY DEF NodeStep, dbVars
<1>2. NodeTypeOK' /\ seen \subseteq seen' /\ best'[0] = best[0]
      /\ Exposed(best', nodeWit') \subseteq seen'
  BY NodeGrows DEF KInv, TypeOK
<1>3. TypeOK' /\ StoredWasBest'
  BY <1>1, <1>2 DEF KInv, TypeOK, DbTypeOK, StoredWasBest
<1>4. \A k \in Indexers : Knows(pc[k], job[k])'
  BY <1>1, <1>2 DEF KInv, Knows
<1> QED
  BY <1>2, <1>3, <1>4 DEF KInv

------------------------------------------------------------------------------
\* The empty database knows and stores nothing.
LEMMA InitKInv ==
    ASSUME Init
    PROVE  KInv
<1>1. TypeOK /\ StoredWasBest /\ Exposed(best, nodeWit) \subseteq seen
  BY InitIInv DEF IInv
<1>2. \A k \in Indexers : Knows(pc[k], job[k])
  BY IdleKnows DEF Init
<1> QED
  BY <1>1, <1>2 DEF KInv

\* No step of anybody breaks the invariant.
LEMMA NextKInv ==
    ASSUME KInv, [Next]_vars
    PROVE  KInv'
<1>1. CASE UNCHANGED vars
  BY <1>1, OutsideKeeps DEF vars, KInv, TypeOK
<1>2. CASE NodeStep
  BY <1>2, NodeKeeps
<1>3. CASE LeaseBreaks
  BY <1>3, OutsideKeeps DEF LeaseBreaks
<1>4. ASSUME NEW i \in Indexers,
             acquire_writer_lock(i) \/ Crash(i) \/ LeaseLossNoticed(i) \/ CallFails(i)
      PROVE  KInv'
  BY <1>4, ProcessKeeps
<1>5. ASSUME NEW i \in Indexers, SyncStep(i) PROVE KInv'
  <2>1. CASE NodeRefuses(i)
    BY <2>1, ProcessKeeps
  <2>2. CASE observe(i) \/ finish(i) \/ Failed(i)
    BY <2>2, RecordStep
  <2>3. CASE commit(i) \/ replace(i) \/ refresh(i)
    BY <2>3, CommitKeeps, ReplaceKeeps, RefreshKeeps
  <2>4. CASE \/ blockchain_info(i) \/ tip_hash(i) \/ validate_identity(i) \/ read_tip(i)
             \/ compare(i) \/ search(i) \/ search_node(i) \/ fetch(i) \/ body(i)
             \/ aux_status(i) \/ confirm(i) \/ recheck_tip(i) \/ recheck_ancestor(i)
             \/ candidate(i) \/ refresh_prev(i) \/ final_tip(i)
    <3>1. Moves(i)
      BY <2>4, SnapshotMoves, TipMoves, CompareMoves, SearchMoves, FetchMoves, BodyMoves,
         AuxStatusMoves, ConfirmMoves, RecheckMoves, CandidateMoves
    <3>2. UNCHANGED dbVars /\ UNCHANGED nodeVars /\ UNCHANGED lease
      BY <2>4 DEF blockchain_info, tip_hash, validate_identity, read_tip, compare, search,
                  search_node, fetch, body, aux_status, confirm, recheck_tip,
                  recheck_ancestor, candidate, refresh_prev, final_tip
    <3> QED
      BY <3>1, <3>2, QuietKeeps DEF KInv, TypeOK
  <2> QED
    BY <1>5, <2>1, <2>2, <2>3, <2>4 DEF SyncStep
<1> QED
  BY <1>1, <1>2, <1>3, <1>4, <1>5 DEF Next, FaultStep

\* The inductive invariant holds in every reachable state, with or without
\* lease sessions that die under running processes.
THEOREM KnowledgeInvariant == Spec => []KInv
<1>1. Init => KInv
  BY InitKInv
<1>2. KInv /\ [Next]_vars => KInv'
  BY NextKInv
<1> QED
  BY <1>1, <1>2, PTL DEF Spec

\* Every table and every local variable keeps its type: heights stay in range
\* through the loops of sync_once, no absent hash or witness is stored, and the
\* search for an ancestor never leaves the chain, also with several writers.
THEOREM TypeCorrect == Spec => []TypeOK
<1>1. KInv => TypeOK
  BY DEF KInv
<1> QED
  BY <1>1, KnowledgeInvariant, PTL

\* Nothing is stored that was not on the node's best chain with that witness,
\* also by a process that went on after its lease was lost.
THEOREM Provenance == Spec => []StoredWasBest
<1>1. KInv => StoredWasBest
  BY DEF KInv
<1> QED
  BY <1>1, KnowledgeInvariant, PTL
==============================================================================
