---------------------------- MODULE ReadApiProofs ----------------------------
(***************************************************************************)
(* Proofs about the transaction store and the read API, for any tree of    *)
(* blocks, any transactions the node may tell and any page sizes.          *)
(*                                                                         *)
(* Readers change nothing, so the invariant has two halves: what the       *)
(* indexer's transactions keep true of the tables, and what a request has  *)
(* read, which must stay true while the tables change under it.  That the  *)
(* rows of a stored block never change is what makes the second half work. *)
(***************************************************************************)
EXTENDS ReadApi, ChainLemmas, FiniteSetTheorems, WellFoundedInduction

\* The stored chain and its tip; what is selected is stored.
ChainInv ==
    /\ DbTypeOK
    /\ Selected[0] \in {Genesis, NoBlock} /\ Linked(Selected)
    /\ IsTip(Selected, state.indexed)
    /\ \A h \in Heights : canon[h] # NoRow => <<canon[h].hash, canon[h].wit>> \in facts

\* raw_rpc of every instance was told with a stored block that has it.
RawStored ==
    /\ DOMAIN raw_rpc = DOMAIN tx
    /\ \A k \in DOMAIN raw_rpc :
          raw_rpc[k] \in facts /\ \E n \in DOMAIN rows[raw_rpc[k]] : rows[raw_rpc[k]][n] = k

StoreInv == StoredAsTold /\ DOMAIN told = facts /\ RawStored

\* The rows of the blocks stored before are those of the blocks stored after.
Kept ==
    /\ facts \subseteq facts'
    /\ \A k \in DOMAIN tx : k \in DOMAIN tx' /\ tx'[k] = tx[k]
    /\ \A p \in facts : /\ rows'[p] = rows[p]
                        /\ DOMAIN told'[p] = DOMAIN told[p]
                        /\ \A n \in DOMAIN told[p] : told'[p][n] = told[p][n]

------------------------------------------------------------------------------
(***************************************************************************)
(* The tables.                                                             *)
(***************************************************************************)
\* store keeps what is there and adds what it was told.
LEMMA StoreKeeps ==
    ASSUME StoreInv, NEW batch, store_ok(batch), store(batch), facts' = facts \cup DOMAIN batch
    PROVE  StoreInv' /\ Kept
<1> DEFINE T == Within(batch)
<1>1. /\ DOMAIN tx' = DOMAIN tx \cup {Key(t) : t \in T}
      /\ \A k \in DOMAIN tx : tx'[k] = tx[k]
      /\ \A k \in {Key(t) : t \in T} \ DOMAIN tx : tx'[k] = CHOOSE t \in T : Key(t) = k
  BY DEF store, insert_transactions
<1>2. /\ \A t \in T : Key(t) \in DOMAIN tx => tx[Key(t)] = t
      /\ \A t, u \in T : Key(u) = Key(t) => u = t
  BY DEF store_ok, insert_transaction_ok
<1>3. \A t \in T : Key(t) \in DOMAIN tx' /\ tx'[Key(t)] = t
  <2> HIDE DEF T
  <2> TAKE t \in T
  <2>1. CASE Key(t) \in DOMAIN tx
    BY <2>1, <1>1, <1>2
  <2>2. CASE Key(t) \notin DOMAIN tx
    <3>1. tx'[Key(t)] = CHOOSE u \in T : Key(u) = Key(t)
      BY <2>2, <1>1
    <3> DEFINE c == CHOOSE u \in T : Key(u) = Key(t)
    <3>2. c \in T /\ Key(c) = Key(t)
      OBVIOUS
    <3> HIDE DEF c
    <3>3. c = t
      BY <3>2, <1>2
    <3> QED
      BY <3>1, <3>3, <1>1 DEF c
  <2> QED
    BY <2>1, <2>2
<1>4. \A p \in DOMAIN batch : \A n \in DOMAIN batch[p] : batch[p][n] \in T
  BY DEF Within
<1>5. /\ DOMAIN rows = facts /\ DOMAIN told = facts
      /\ DOMAIN rows' = facts' /\ DOMAIN told' = facts'
      /\ \A p \in facts : rows'[p] = rows[p]
      /\ \A p \in DOMAIN batch \ facts : rows'[p] = Keys(batch[p])
      /\ \A p \in DOMAIN batch : told'[p] = batch[p]
      /\ \A p \in facts \ DOMAIN batch : told'[p] = told[p]
  BY DEF store, link, StoreInv, StoredAsTold
<1>6. \A p \in DOMAIN batch : p \in facts => Keys(batch[p]) = rows[p]
  BY <1>5 DEF store_ok, link_ok
<1>7. \A p \in DOMAIN batch :
         /\ rows'[p] = Keys(batch[p])
         /\ DOMAIN rows'[p] = DOMAIN batch[p]
         /\ \A n \in DOMAIN batch[p] : rows'[p][n] = Key(batch[p][n])
  BY <1>5, <1>6 DEF Keys
<1> HIDE DEF T
<1>8. StoredAsTold'
  <2>1. ASSUME NEW p \in facts'
        PROVE  /\ DOMAIN rows'[p] = DOMAIN told'[p]
               /\ \A n \in DOMAIN rows'[p] :
                     rows'[p][n] \in DOMAIN tx' /\ tx'[rows'[p][n]] = told'[p][n]
    <3>1. CASE p \in DOMAIN batch
      BY <3>1, <1>3, <1>4, <1>5, <1>7
    <3>2. CASE p \notin DOMAIN batch
      <4>1. p \in facts /\ rows'[p] = rows[p] /\ told'[p] = told[p]
        BY <3>2, <1>5
      <4> QED
        BY <4>1, <1>1 DEF StoreInv, StoredAsTold
    <3> QED
      BY <3>1, <3>2
  <2> QED
    BY <2>1, <1>5 DEF StoredAsTold
<1>9. ASSUME NEW p \in facts
      PROVE  /\ DOMAIN told'[p] = DOMAIN told[p]
             /\ \A n \in DOMAIN told[p] : told'[p][n] = told[p][n]
  <2>1. /\ p \in facts' /\ rows'[p] = rows[p]
        /\ DOMAIN rows'[p] = DOMAIN told'[p] /\ DOMAIN rows[p] = DOMAIN told[p]
    BY <1>5, <1>8 DEF StoredAsTold, StoreInv
  <2>2. \A n \in DOMAIN rows[p] :
           /\ tx[rows[p][n]] = told[p][n] /\ rows[p][n] \in DOMAIN tx
           /\ tx'[rows[p][n]] = told'[p][n]
    BY <2>1, <1>8 DEF StoredAsTold, StoreInv
  <2> QED
    BY <2>1, <2>2, <1>1
<1>10. RawStored'
  <2> DEFINE new == {Key(t) : t \in Within(batch)} \ DOMAIN raw_rpc
  <2>1. PICK teller \in [new -> DOMAIN batch] :
           /\ \A k \in DOMAIN teller : \E n \in DOMAIN batch[teller[k]] : Key(batch[teller[k]][n]) = k
           /\ raw_rpc' = [k \in DOMAIN raw_rpc \cup DOMAIN teller |->
                             IF k \in DOMAIN raw_rpc THEN raw_rpc[k] ELSE teller[k]]
    BY DEF store, keep_raw_rpc
  <2>2. DOMAIN raw_rpc = DOMAIN tx
    BY DEF StoreInv, RawStored
  <2>3. DOMAIN raw_rpc' = DOMAIN tx'
    BY <2>1, <2>2, <1>1 DEF T
  <2>4. ASSUME NEW k \in DOMAIN raw_rpc
        PROVE  /\ raw_rpc'[k] \in facts'
               /\ \E n \in DOMAIN rows'[raw_rpc'[k]] : rows'[raw_rpc'[k]][n] = k
    <3>1. raw_rpc'[k] = raw_rpc[k]
      BY <2>1
    <3> QED
      BY <3>1, <1>5 DEF StoreInv, RawStored
  <2>5. ASSUME NEW k \in DOMAIN teller
        PROVE  /\ raw_rpc'[k] \in facts'
               /\ \E n \in DOMAIN rows'[raw_rpc'[k]] : rows'[raw_rpc'[k]][n] = k
    <3>1. raw_rpc'[k] = teller[k] /\ teller[k] \in DOMAIN batch
      BY <2>1
    <3>2. PICK n \in DOMAIN batch[teller[k]] : Key(batch[teller[k]][n]) = k
      BY <2>1
    <3> QED
      BY <3>1, <3>2, <1>7
  <2>6. DOMAIN raw_rpc' = DOMAIN raw_rpc \cup DOMAIN teller
    BY <2>1
  <2> QED
    BY <2>3, <2>4, <2>5, <2>6 DEF RawStored
<1> QED
  BY <1>1, <1>5, <1>8, <1>9, <1>10 DEF StoreInv, Kept

\* commit_block of a child of the tip.
LEMMA AppendStep ==
    ASSUME ChainInv, NEW row \in Row, canonical_tip.height < MaxHeight,
           Parent[row.hash] = canonical_tip.hash, canonical_tip = NoTip => row.hash = Genesis,
           commit_block(canonical_tip.height + 1, row)
    PROVE  ChainInv' /\ facts' = facts \cup {<<row.hash, row.wit>>}
<1> DEFINE t == state.indexed
           h == t.height + 1
           u == [height |-> h, hash |-> row.hash]
<1>1. canonical_tip = t /\ t \in Tip
  BY TipOfSelectors DEF ChainInv, IsTip
<1>2. h \in Heights /\ row.hash \in Block /\ row.wit \in Witness /\ row.hash # NoBlock
  BY <1>1, TreeAssumption DEF Tip, Heights, Row
<1>3. /\ canon' = [canon EXCEPT ![h] = row]
      /\ facts' = facts \cup {<<row.hash, row.wit>>}
      /\ state' = [state EXCEPT !.indexed = u, !.status = "syncing"]
      /\ lastReorg' = lastReorg
  BY <1>1 DEF commit_block
<1>4. u \in Tip
  BY <1>2 DEF Tip, Heights
<1>5. DbTypeOK'
  <2>1. canon' \in [Heights -> Row \cup {NoRow}] /\ facts' \subseteq Block \X Witness
    BY <1>2, <1>3 DEF ChainInv, DbTypeOK
  <2>2. state' \in [indexed : Tip, node : Tip, status : Status]
    BY <1>3, <1>4 DEF ChainInv, DbTypeOK, Status
  <2> QED
    BY <1>3, <2>1, <2>2 DEF ChainInv, DbTypeOK
<1>6. Selected \in [Heights -> Block \cup {NoBlock}]
  BY DEF ChainInv, DbTypeOK, Selected, Row, NoRow
<1>7. Selected' = [Selected EXCEPT ![h] = row.hash]
  BY <1>2, <1>3 DEF Selected, ChainInv, DbTypeOK
<1>8. h = 0 => row.hash = Genesis
  <2>1. h = 0 => t = NoTip
    <3> SUFFICES ASSUME h = 0 PROVE t = NoTip
      OBVIOUS
    <3>1. t.height = -1
      BY <1>1, <1>2 DEF Tip, Heights
    <3>2. t.hash = NoBlock
      BY <3>1 DEF ChainInv, IsTip
    <3> QED
      BY <1>1, <3>1, <3>2 DEF Tip, NoTip
  <2> QED
    BY <2>1, <1>1
<1>9. state'.indexed = u
  BY <1>3 DEF ChainInv, DbTypeOK
<1> HIDE DEF u
<1>10. /\ Selected'[0] \in {Genesis, NoBlock}
       /\ Linked(Selected') /\ IsTip(Selected', u)
  BY <1>1, <1>2, <1>6, <1>7, <1>8, AppendKeepsChain DEF ChainInv, u
<1>11. Linked(Selected)' /\ IsTip(Selected, state.indexed)'
  BY <1>9, <1>10 DEF Linked, IsTip, ReachesTo
<1>12. ASSUME NEW k \in Heights, canon'[k] # NoRow
       PROVE  <<canon'[k].hash, canon'[k].wit>> \in facts'
  <2>1. CASE k = h
    BY <2>1, <1>2, <1>3 DEF ChainInv, DbTypeOK
  <2>2. CASE k # h
    BY <2>2, <1>12, <1>3 DEF ChainInv, DbTypeOK
  <2> QED
    BY <2>1, <2>2
<1> QED
  BY <1>3, <1>5, <1>10, <1>11, <1>12 DEF ChainInv

\* replace_canonical_branch above a selected block.
LEMMA ReplaceStep ==
    ASSUME ChainInv, NEW k \in 0..canonical_tip.height, NEW hi \in k..MaxHeight,
           NEW staged \in [Heights -> Row \cup {NoRow}], \A h \in k+1..hi : staged[h] \in Row,
           NEW ancestor, ancestor = [height |-> k, hash |-> canonical_hash(k)],
           replace_canonical_branch_ok(canonical_tip, ancestor, staged, hi),
           replace_canonical_branch(canonical_tip, ancestor, staged, hi)
    PROVE  /\ ChainInv'
           /\ facts' = facts \cup {<<staged[h].hash, staged[h].wit>> : h \in k+1..hi}
<1> DEFINE t == state.indexed
           s == [h \in Heights |-> staged[h].hash]
           u == IF k+1..hi = {} THEN ancestor ELSE [height |-> hi, hash |-> staged[hi].hash]
<1>1. canonical_tip = t /\ t \in Tip
  BY TipOfSelectors DEF ChainInv, IsTip
<1>2. /\ k \in Nat /\ hi \in Heights /\ k \in Heights /\ k <= hi /\ k <= t.height
      /\ hi \in Nat /\ MaxHeight \in Nat /\ t.height \in Int /\ hi <= MaxHeight
  BY <1>1, TreeAssumption DEF Tip, Heights
<1>3. /\ ancestor.height = k /\ ancestor.hash = canon[k].hash
      /\ \A h \in k+1..hi : h \in Heights
  BY <1>2, TreeAssumption DEF Heights, canonical_hash
<1>4. /\ canon' = [h \in Heights |-> IF h <= k THEN canon[h]
                                     ELSE IF h \in k+1..hi THEN staged[h] ELSE NoRow]
      /\ facts' = facts \cup {<<staged[h].hash, staged[h].wit>> : h \in k+1..hi}
      /\ lastReorg' = [old |-> t, ancestor |-> ancestor]
      /\ state' = [state EXCEPT !.indexed = u, !.status = "syncing"]
  BY <1>1, <1>3 DEF replace_canonical_branch
<1>6. \A h \in Heights : (canon[h] # NoRow <=> h <= t.height) /\ canon[h] \in Row \cup {NoRow}
  BY TreeAssumption DEF ChainInv, DbTypeOK, IsTip, ReachesTo, Selected, Row, NoRow
<1>7. ancestor \in Tip /\ canon[k] \in Row
  BY <1>2, <1>3, <1>6 DEF Tip, Heights, Row, canonical_hash
<1>8. /\ u \in Tip /\ u.height = hi
      /\ u.hash = IF hi = k THEN canon[k].hash ELSE staged[hi].hash
  <2>1. CASE hi = k
    BY <2>1, <1>2, <1>3, <1>7
  <2>2. CASE hi # k
    <3>1. hi \in k+1..hi /\ staged[hi] \in Row
      BY <2>2, <1>2, <1>3
    <3>2. u = [height |-> hi, hash |-> staged[hi].hash]
      BY <3>1
    <3>3. u.height = hi /\ u.hash = staged[hi].hash /\ u \in Tip
      BY <3>1, <3>2, <1>2 DEF Tip, Row, Heights
    <3> HIDE DEF u
    <3> QED
      BY <2>2, <3>3
  <2> QED
    BY <2>1, <2>2
<1> HIDE DEF u
<1>9. DbTypeOK'
  <2>1. canon' \in [Heights -> Row \cup {NoRow}]
    BY <1>3, <1>4, <1>6
  <2>2. facts' \subseteq Block \X Witness
    BY <1>3, <1>4 DEF ChainInv, DbTypeOK, Row
  <2>3. state' \in [indexed : Tip, node : Tip, status : Status]
    BY <1>4, <1>8 DEF ChainInv, DbTypeOK, Status
  <2>4. lastReorg' \in [old : Tip, ancestor : Tip]
    BY <1>1, <1>4, <1>7
  <2> QED
    BY <2>1, <2>2, <2>3, <2>4 DEF DbTypeOK
<1>10. state'.indexed = u
  BY <1>4 DEF ChainInv, DbTypeOK
<1>11. /\ Selected \in [Heights -> Block \cup {NoBlock}] /\ s \in [Heights -> Block \cup {NoBlock}]
       /\ Selected' \in [Heights -> Block \cup {NoBlock}]
  BY <1>3, <1>9 DEF ChainInv, DbTypeOK, Selected, Row, NoRow
<1>12. \A h \in Heights :
          Selected'[h] = IF h <= k THEN Selected[h] ELSE IF h \in k+1..hi THEN s[h] ELSE NoBlock
  BY <1>4 DEF Selected, NoRow
<1>13. \A h \in k+1..hi :
          s[h] # NoBlock /\ Parent[s[h]] = IF h = k + 1 THEN Selected[k] ELSE s[h-1]
  <2> TAKE h \in k+1..hi
  <2>1. h \in Heights /\ staged[h] \in Row
    BY <1>3
  <2>2. Parent[staged[h].hash] = IF h = k + 1 THEN ancestor.hash ELSE staged[h-1].hash
    BY <1>3 DEF replace_canonical_branch_ok, validate_replacement_branch
  <2>3. s[h] = staged[h].hash /\ s[h] # NoBlock
    BY <2>1, TreeAssumption DEF Row
  <2>4. CASE h = k + 1
    BY <2>2, <2>3, <2>4, <1>2, <1>3 DEF Selected
  <2>5. CASE h # k + 1
    <3>1. h - 1 \in Heights
      BY <2>1, <2>5, <1>2 DEF Heights
    <3> QED
      BY <2>2, <2>3, <2>5, <3>1
  <2> QED
    BY <2>4, <2>5
<1>14. u.hash = Selected'[hi]
  <2>1. CASE hi = k
    BY <2>1, <1>2, <1>8, <1>12 DEF Selected
  <2>2. CASE hi # k
    BY <2>2, <1>2, <1>8, <1>12
  <2> QED
    BY <2>1, <2>2
<1>15. Selected[0] \in {Genesis, NoBlock} /\ Linked(Selected) /\ IsTip(Selected, t) /\ t \in Tip
  BY <1>1 DEF ChainInv
<1> HIDE DEF s, t
<1>16. Selected'[0] \in {Genesis, NoBlock} /\ Linked(Selected') /\ IsTip(Selected', u)
  <2> DEFINE a == k
             n == hi
  <2>1. a \in 0..t.height /\ n \in Heights /\ a <= n
    BY <1>2
  <2>2. \A h \in a+1..n :
           s[h] # NoBlock /\ Parent[s[h]] = IF h = a + 1 THEN Selected[a] ELSE s[h-1]
    BY <1>13
  <2>3. \A h \in Heights :
           Selected'[h] = IF h <= a THEN Selected[h] ELSE IF h \in a+1..n THEN s[h] ELSE NoBlock
    BY <1>12
  <2>4. u \in Tip /\ u.height = n /\ u.hash = Selected'[n]
    BY <1>8, <1>14
  <2> HIDE DEF a, n
  <2> QED
    BY <1>11, <1>15, <2>1, <2>2, <2>3, <2>4, ReplaceKeepsChain
<1>17. Linked(Selected)' /\ IsTip(Selected, state.indexed)' /\ Selected'[0] \in {Genesis, NoBlock}
  BY <1>10, <1>16 DEF Linked, IsTip, ReachesTo
<1>18. ASSUME NEW h \in Heights, canon'[h] # NoRow
       PROVE  <<canon'[h].hash, canon'[h].wit>> \in facts'
  <2>1. CASE h <= k
    BY <2>1, <1>4, <1>18 DEF ChainInv
  <2>2. CASE h \in k+1..hi
    <3>1. ~(h <= k)
      BY <2>2, <1>2
    <3>2. canon'[h] = staged[h]
      BY <2>2, <3>1, <1>3, <1>4
    <3> QED
      BY <2>2, <3>2, <1>4
  <2>3. CASE ~(h <= k) /\ h \notin k+1..hi
    BY <2>3, <1>4, <1>18
  <2> QED
    BY <2>1, <2>2, <2>3
<1> QED
  BY <1>4, <1>9, <1>17, <1>18 DEF ChainInv

\* A set of heights has a highest one.
LEMMA HighestExists ==
    ASSUME NEW S \in SUBSET Heights, S # {}
    PROVE  \E x \in S : \A y \in S : y <= x
<1> DEFINE depths == {MaxHeight - h : h \in S}
<1>1. \A h \in S : h \in Nat /\ MaxHeight - h \in Nat /\ MaxHeight - h \in depths
  BY TreeAssumption DEF Heights
<1>2. depths \subseteq Nat /\ depths # {}
  BY <1>1
<1>3. \E d \in depths : \A e \in depths : ~(e < d)
  <2> DEFINE R == OpToRel(<, Nat)
  <2>1. IsWellFoundedOn(R, Nat)
    BY NatLessThanWellFounded
  <2> HIDE DEF R, depths
  <2>2. PICK d \in depths : \A e \in depths : <<e, d>> \notin R
    BY <1>2, <2>1, WFMin
  <2>3. \A e \in depths : ~(e < d)
    <3> USE DEF R
    <3> QED
      BY <1>2, <2>2 DEF OpToRel
  <2> QED
    BY <2>3
<1>4. PICK x \in S : \A e \in depths : ~(e < MaxHeight - x)
  BY <1>3
<1> HIDE DEF depths
<1>5. \A y \in S : y <= x
  BY <1>1, <1>4, TreeAssumption
<1> QED
  BY <1>5

\* What a transaction of the indexer does to the tables.
LEMMA IndexerStep ==
    ASSUME ChainInv, StoreInv, Publish \/ Refresh
    PROVE  ChainInv' /\ StoreInv' /\ Kept
<1>1. ASSUME NEW pairs, insert_blocks(pairs), facts' = facts \cup pairs
      PROVE  StoreInv' /\ Kept
  <2>1. PICK batch \in Tellings(pairs) : store_ok(batch) /\ store(batch)
    BY <1>1 DEF insert_blocks
  <2>2. DOMAIN batch = pairs
    BY DEF Tellings
  <2> QED
    BY <1>1, <2>1, <2>2, StoreKeeps
<1>2. ASSUME NEW row \in OfferedRow,
             canonical_tip.height < MaxHeight, Parent[row.hash] = canonical_tip.hash,
             canonical_tip = NoTip => row.hash = Genesis,
             commit_block(canonical_tip.height + 1, row),
             insert_blocks({<<row.hash, row.wit>>})
      PROVE  ChainInv' /\ StoreInv' /\ Kept
  <2>1. row \in Row
    BY ReadAssumption
  <2> QED
    BY <1>1, <1>2, <2>1, AppendStep
<1>3. ASSUME NEW k \in 0..canonical_tip.height, NEW hi \in k..MaxHeight,
             NEW branch \in [k+1..hi -> OfferedRow], NEW ancestor, NEW staged,
             ancestor = [height |-> k, hash |-> canonical_hash(k)],
             staged = [h \in Heights |-> IF h \in k+1..hi THEN branch[h] ELSE NoRow],
             replace_canonical_branch_ok(canonical_tip, ancestor, staged, hi),
             replace_canonical_branch(canonical_tip, ancestor, staged, hi),
             insert_blocks({<<branch[h].hash, branch[h].wit>> : h \in k+1..hi})
      PROVE  ChainInv' /\ StoreInv' /\ Kept
  <2>1. \A h \in k+1..hi : h \in Heights /\ staged[h] = branch[h] /\ staged[h] \in Row
    BY <1>3, TreeAssumption, ReadAssumption DEF Heights
  <2>2. staged \in [Heights -> Row \cup {NoRow}]
    BY <1>3, <2>1
  <2>3. {<<staged[h].hash, staged[h].wit>> : h \in k+1..hi}
           = {<<branch[h].hash, branch[h].wit>> : h \in k+1..hi}
    BY <2>1
  <2>4. ChainInv' /\ facts' = facts \cup {<<staged[h].hash, staged[h].wit>> : h \in k+1..hi}
    <3>1. /\ ancestor = [height |-> k, hash |-> canonical_hash(k)]
          /\ replace_canonical_branch_ok(canonical_tip, ancestor, staged, hi)
          /\ replace_canonical_branch(canonical_tip, ancestor, staged, hi)
      BY <1>3
    <3>2. \A h \in k+1..hi : staged[h] \in Row
      BY <2>1
    <3> QED
      BY <3>1, <3>2, <2>2, ReplaceStep
  <2> QED
    BY <1>1, <1>3, <2>3, <2>4
<1>4. CASE Publish
  BY <1>2, <1>3, <1>4 DEF Publish
<1>5. CASE Refresh
  <2>1. PICK s \in Selectors :
           /\ refresh_block_evidence([hash |-> s.hash, wit |-> s.wit])
           /\ insert_blocks({<<s.hash, s.wit>>})
    BY <1>5 DEF Refresh
  <2>2. s.hash \in Block /\ s.wit \in Witness
    BY DEF Selectors, SelectorsOf, ChainInv, DbTypeOK, Row
  <2>3. facts' = facts \cup {<<s.hash, s.wit>>} /\ UNCHANGED <<canon, state, lastReorg>>
    BY <2>1 DEF refresh_block_evidence
  <2>4. DbTypeOK'
    BY <2>2, <2>3 DEF ChainInv, DbTypeOK
  <2>5. ChainInv'
    BY <2>3, <2>4 DEF ChainInv, Selected, Linked, IsTip, ReachesTo
  <2> QED
    BY <1>1, <2>1, <2>3, <2>5
<1> QED
  BY <1>4, <1>5

\* A step of a handler changes no table.
LEMMA ReaderReads ==
    ASSUME Next, ~(Publish \/ Refresh)
    PROVE  UNCHANGED tables
BY DEF Next, Statement, chain_state, latest, find_block, keyed, auxpow, observations, find_tx,
       instance, balance, activity, search, network_history, rich_list, address_stats, pool,
       page, next_page, Answered

LEMMA TablesInit ==
    ASSUME Init
    PROVE  ChainInv /\ StoreInv
<1>1. DbTypeOK
  BY TreeAssumption DEF Init, DbInit, DbTypeOK, NoTip, Tip, NoReorg, Status
<1>2. /\ \A h \in Heights : Selected[h] = NoBlock
      /\ Selected[0] = NoBlock
  BY TreeAssumption DEF Init, DbInit, Selected, NoRow, Heights
<1>3. IsTip(Selected, state.indexed)
  BY <1>1, <1>2, TreeAssumption DEF Init, DbInit, IsTip, ReachesTo, NoTip, Heights, DbTypeOK
<1> QED
  BY <1>1, <1>2, <1>3
     DEF Init, DbInit, TxInit, ChainInv, Linked, StoreInv, StoredAsTold, RawStored

TableInv == ChainInv /\ StoreInv

LEMMA TablesStay ==
    ASSUME TableInv, [Next]_vars
    PROVE  TableInv' /\ Kept
<1>1. CASE Publish \/ Refresh
  BY <1>1, IndexerStep DEF TableInv
<1>2. CASE UNCHANGED tables
  <2>1. UNCHANGED <<canon, facts, state, lastReorg, tx, raw_rpc, rows, told>>
    BY <1>2 DEF tables, dbVars, txVars
  <2>2. ChainInv'
    BY <2>1 DEF TableInv, ChainInv, DbTypeOK, Selected, Linked, IsTip, ReachesTo
  <2>3. StoreInv' /\ Kept
    BY <2>1 DEF TableInv, StoreInv, StoredAsTold, RawStored, Kept
  <2> QED
    BY <2>2, <2>3 DEF TableInv
<1> QED
  BY <1>1, <1>2, ReaderReads DEF vars

\* The transactions of every stored block read back as the node told them,
\* although insert_transaction shares the rows between blocks.
THEOREM StoredAsToldHolds == Spec => []StoredAsTold
<1>1. Init => TableInv
  BY TablesInit DEF TableInv
<1>2. TableInv /\ [Next]_vars => TableInv'
  BY TablesStay
<1>3. TableInv => StoredAsTold
  BY DEF TableInv, StoreInv
<1> QED
  BY <1>1, <1>2, <1>3, PTL DEF Spec

------------------------------------------------------------------------------
(***************************************************************************)
(* The request.                                                            *)
(***************************************************************************)
Fields == {"kind", "pc", "meta", "id", "row", "aux", "auxOf", "obs", "rpc", "view", "sums",
           "list", "pool", "cursor", "walk", "moved"}

\* A statement belongs to the routes that run it.
StatementOfRoute ==
    /\ req.pc = "latest" => req.kind = "status"
    /\ req.pc \in {"find_block", "keyed", "auxpow", "observations"} => req.kind \in BlockRoutes
    /\ req.pc \in {"find_tx", "instance"} => req.kind = "transaction"
    /\ req.pc \in {"balance", "activity"} => req.kind = "address"
    /\ req.pc \in {"page", "next_page"} => req.kind \in Listings
    /\ req.pc \in {"search", "rich_list", "address_stats", "network_history"} => req.kind = req.pc
    /\ req.pc = "pool" => req.kind \in {"rich_list", "address_stats"}

Pair == <<req.row.hash, req.row.wit>>

\* What a handler has read so far and still uses.
BlockRead ==
    /\ req.pc = "find_block" => req.id \in Heights
    /\ req.pc \in {"latest", "find_block", "find_tx"} => req.auxOf = NoPair
    /\ req.pc = "keyed" => Pair \in facts

TransactionRead ==
    /\ req.kind = "transaction" /\ req.pc \in {"instance", "done"} => Pair \in facts
    /\ req.pc = "instance" =>
          \E n \in DOMAIN rows[Pair], r \in req.list :
             req.list = {r} /\ r.key = rows[Pair][n]

ViewStored == \A s \in req.view : <<s.hash, s.wit>> \in facts

ReqInv ==
    /\ DOMAIN req = Fields
    /\ StatementOfRoute /\ BlockRead /\ TransactionRead /\ ViewStored
    /\ SnapshotOfTip /\ DetailCoherent /\ SearchExact

\* The fields the invariant is about, but for what answers consist of.
Same ==
    /\ DOMAIN req' = Fields
    /\ req'.kind = req.kind /\ req'.meta = req.meta /\ req'.id = req.id
    /\ req'.row = req.row /\ req'.auxOf = req.auxOf /\ req'.view = req.view

\* What the node told of a stored block is told of it in every later state.
LEMMA TellsKept ==
    ASSUME StoreInv, Kept, NEW s, <<s.hash, s.wit>> \in facts, NEW a
    PROVE  Tells(s, a)' <=> Tells(s, a)
BY DEF Tells, Kept

\* The indexer's transactions do not disturb a request that is being served.
LEMMA RequestUndisturbed ==
    ASSUME StoreInv, ReqInv, Kept, Same,
           req'.pc = req.pc, req'.sums = req.sums, req'.list = req.list, req'.rpc = req.rpc
    PROVE  ReqInv'
<1>1. StatementOfRoute' /\ DOMAIN req' = Fields
  BY DEF ReqInv, Same, StatementOfRoute
<1>2. facts \subseteq facts'
  BY DEF Kept
<1>3. Pair' = Pair
  BY DEF Pair, Same
<1>4. BlockRead' /\ ViewStored'
  BY <1>2, <1>3 DEF ReqInv, Same, BlockRead, ViewStored
<1>5. TransactionRead'
  <2>1. req.pc = "instance" => Pair \in facts
    BY DEF ReqInv, StatementOfRoute, TransactionRead
  <2> QED
    BY <1>2, <1>3, <2>1 DEF ReqInv, Same, TransactionRead, Kept
<1>6. SnapshotOfTip'
  BY DEF ReqInv, Same, SnapshotOfTip
<1>7. DetailCoherent'
  <2>1. Answer("transaction") => ToSet(told'[Pair]) = ToSet(told[Pair])
    BY DEF ReqInv, TransactionRead, Answer, Kept, ToSet
  <2>2. Answer("transaction") => req.rpc \in facts' /\ rows'[req.rpc] = rows[req.rpc]
    BY DEF ReqInv, DetailCoherent, Kept
  <2> QED
    BY <2>1, <2>2, <1>3 DEF ReqInv, Same, DetailCoherent, Answer, Pair
<1>8. SearchExact'
  BY TellsKept DEF ReqInv, Same, SearchExact, ViewStored
<1> QED
  BY <1>1, <1>4, <1>5, <1>6, <1>7, <1>8 DEF ReqInv

\* A statement whose result the invariant says nothing about.
LEMMA QuietStep ==
    ASSUME StoreInv, ReqInv, UNCHANGED tables, Same, req.pc # "idle",
           req'.pc \in {"auxpow", "observations", "activity", "pool", "page", "next_page",
                        "done", "not_found", "failed"},
           StatementOfRoute',
           req'.pc = "done" => req.kind \notin {"transaction", "search"},
           req'.pc = "not_found" => req.kind # "search",
           req'.pc = "failed" => req.kind \notin BlockRoutes
    PROVE  ReqInv'
<1>1. UNCHANGED <<facts, rows, tx, told>>
  BY DEF tables, dbVars, txVars
<1>2. BlockRead' /\ ViewStored' /\ TransactionRead'
  BY <1>1 DEF ReqInv, Same, BlockRead, ViewStored, TransactionRead
<1>3. SnapshotOfTip' /\ SearchExact'
  BY DEF ReqInv, Same, SnapshotOfTip, SearchExact
<1>4. DetailCoherent'
  BY <1>1 DEF ReqInv, Same, DetailCoherent, Answer
<1> QED
  BY <1>2, <1>3, <1>4 DEF ReqInv, Same

\* The selected blocks are those of the chain up to its tip.
LEMMA SelectorsOfTip ==
    ASSUME ChainInv
    PROVE  /\ \A s \in Selectors : /\ s.height \in Heights /\ s.height <= state.indexed.height
                                   /\ s.hash = canon[s.height].hash /\ s.wit = canon[s.height].wit
                                   /\ <<s.hash, s.wit>> \in facts
           /\ state.indexed # NoTip =>
                 \E s \in Selectors : s.height = state.indexed.height /\ s.hash = state.indexed.hash
<1> DEFINE t == state.indexed
<1>1. \A h \in Heights : canon[h] # NoRow <=> h <= t.height
  BY TreeAssumption DEF ChainInv, DbTypeOK, IsTip, ReachesTo, Selected, Row, NoRow
<1>2. ASSUME NEW s \in Selectors
      PROVE  /\ s.height \in Heights /\ s.height <= t.height
             /\ s.hash = canon[s.height].hash /\ s.wit = canon[s.height].wit
             /\ <<s.hash, s.wit>> \in facts
  <2>1. PICK h \in Heights : /\ canon[h] # NoRow
                             /\ s = [height |-> h, hash |-> canon[h].hash, wit |-> canon[h].wit]
    BY DEF Selectors, SelectorsOf
  <2> QED
    BY <1>1, <2>1 DEF ChainInv
<1>3. ASSUME t # NoTip
      PROVE  \E s \in Selectors : s.height = t.height /\ s.hash = t.hash
  <2>1. t \in Tip /\ t.height # -1
    BY <1>3 DEF ChainInv, IsTip, Tip, NoTip
  <2>2. t.height \in Heights /\ canon[t.height].hash = t.hash
    BY <2>1, TreeAssumption DEF ChainInv, IsTip, Tip, Heights, Selected
  <2> DEFINE s == [height |-> t.height, hash |-> canon[t.height].hash, wit |-> canon[t.height].wit]
  <2>3. s \in Selectors
    BY <1>1, <2>2, TreeAssumption DEF Selectors, SelectorsOf, Heights
  <2> QED
    BY <2>2, <2>3
<1> QED
  BY <1>2, <1>3

\* chain_state and snapshot_chain_state: a request starts.
LEMMA RequestStarts ==
    ASSUME ChainInv, UNCHANGED tables, chain_state
    PROVE  ReqInv'
<1>0. PICK kind \in Routes : \E id \in Asked(kind) :
         req' = [Idle EXCEPT !.kind = kind, !.id = id, !.meta = state.indexed,
                   !.pc = SecondStatement(kind),
                   !.view = IF kind \in SnapshotRoutes THEN Selectors ELSE {}]
  BY DEF chain_state
<1>1. PICK id \in Asked(kind) :
         req' = [Idle EXCEPT !.kind = kind, !.id = id, !.meta = state.indexed,
                   !.pc = SecondStatement(kind),
                   !.view = IF kind \in SnapshotRoutes THEN Selectors ELSE {}]
  BY <1>0
<1>2. /\ DOMAIN req' = Fields
      /\ req'.kind = kind /\ req'.id = id /\ req'.meta = state.indexed
      /\ req'.pc = SecondStatement(kind)
      /\ req'.view = IF kind \in SnapshotRoutes THEN Selectors ELSE {}
      /\ req'.row = NoDetail /\ req'.auxOf = NoPair
  BY <1>1 DEF Idle, Fields
<1>3. UNCHANGED <<canon, facts, state, lastReorg, tx, raw_rpc, rows, told>>
  BY DEF tables, dbVars, txVars
<1>4. /\ kind \in AllRoutes
      /\ req'.pc \in {"latest", "find_block", "find_tx", "balance", "page"} \cup SnapshotRoutes
      /\ StatementOfRoute'
      /\ req'.pc = "find_block" => kind \in BlockRoutes
  BY <1>2, ReadAssumption
     DEF AllRoutes, BlockRoutes, Listings, SnapshotRoutes, SecondStatement, StatementOfRoute
<1>5. /\ req'.pc \notin {"instance", "keyed", "done", "not_found", "failed"}
      /\ BlockRead' /\ TransactionRead' /\ SearchExact'
  <2>1. req'.pc \notin {"instance", "keyed", "done", "not_found", "failed"}
    BY <1>4 DEF SnapshotRoutes
  <2>2. kind \in BlockRoutes => id \in Heights
    BY DEF Asked, BlockRoutes
  <2>3. BlockRead'
    BY <1>2, <1>4, <2>1, <2>2 DEF BlockRead
  <2> QED
    BY <2>1, <2>3 DEF TransactionRead, SearchExact
<1>6. DetailCoherent'
  BY <1>2, <1>5 DEF DetailCoherent, NoDetail, Answer
<1>7. ViewStored'
  <2>1. \A s \in Selectors : <<s.hash, s.wit>> \in facts
    BY SelectorsOfTip
  <2>2. req'.view \subseteq Selectors /\ facts' = facts
    BY <1>2, <1>3
  <2> QED
    BY <2>1, <2>2 DEF ViewStored
<1>8. SnapshotOfTip'
  BY <1>2, <1>3, SelectorsOfTip DEF SnapshotOfTip
<1> QED
  BY <1>2, <1>4, <1>5, <1>6, <1>7, <1>8 DEF ReqInv

\* The statements about which the invariant says nothing, or very little.
LEMMA QuietStatements ==
    ASSUME StoreInv, ReqInv, UNCHANGED tables,
           \/ keyed \/ observations \/ balance \/ activity \/ network_history
           \/ rich_list \/ address_stats \/ pool \/ page
    PROVE  ReqInv'
<1>1. DOMAIN req = Fields /\ StatementOfRoute
  BY DEF ReqInv
<1>2. CASE keyed
  <2>1. Pair \in facts /\ req.pc = "keyed" /\ req.kind \in BlockRoutes
    BY <1>1, <1>2 DEF keyed, Statement, ReqInv, BlockRead, StatementOfRoute
  <2>2. req' = [req EXCEPT !.pc = IF req.kind = "raw_block" THEN "done" ELSE "auxpow"]
    BY <1>2, <2>1 DEF keyed, Pair
  <2>3. Same /\ StatementOfRoute' /\ req'.pc \in {"done", "auxpow"}
    BY <1>1, <2>1, <2>2 DEF Same, Fields, StatementOfRoute
  <2> QED
    BY <2>1, <2>3, QuietStep DEF BlockRoutes
<1>3. CASE observations
  <2>1. Same /\ StatementOfRoute' /\ req'.pc = "done" /\ req.pc = "observations"
        /\ req.kind \in BlockRoutes
    BY <1>1, <1>3 DEF observations, Statement, Same, Fields, StatementOfRoute
  <2> QED
    BY <2>1, QuietStep DEF BlockRoutes
<1>4. CASE balance
  <2>1. Same /\ StatementOfRoute' /\ req'.pc \in {"activity", "not_found"}
        /\ req.pc = "balance" /\ req.kind = "address"
    BY <1>1, <1>4 DEF balance, Statement, Same, Fields, StatementOfRoute
  <2> QED
    BY <2>1, QuietStep
<1>5. CASE activity
  <2>1. Same /\ StatementOfRoute' /\ req'.pc = "done" /\ req.pc = "activity"
        /\ req.kind = "address"
    BY <1>1, <1>5 DEF activity, Statement, Same, Fields, StatementOfRoute
  <2> QED
    BY <2>1, QuietStep
<1>6. CASE network_history
  <2>1. Same /\ StatementOfRoute' /\ req'.pc = "done" /\ req.pc = "network_history"
        /\ req.kind = "network_history"
    BY <1>1, <1>6 DEF network_history, Statement, Same, Fields, StatementOfRoute
  <2> QED
    BY <2>1, QuietStep
<1>7. CASE rich_list \/ address_stats
  <2>1. Same /\ StatementOfRoute' /\ req'.pc = "pool" /\ req.pc \in {"rich_list", "address_stats"}
    BY <1>1, <1>7 DEF rich_list, address_stats, Statement, Same, Fields, StatementOfRoute
  <2> QED
    BY <2>1, QuietStep
<1>8. CASE pool
  <2>1. Same /\ StatementOfRoute' /\ req'.pc \in {"done", "failed"} /\ req.pc = "pool"
        /\ req.kind \in {"rich_list", "address_stats"}
    BY <1>1, <1>8 DEF pool, Statement, Same, Fields, StatementOfRoute
  <2> QED
    BY <2>1, QuietStep DEF BlockRoutes
<1>9. CASE page
  <2>1. Same /\ StatementOfRoute' /\ req'.pc \in {"done", "next_page"} /\ req.pc = "page"
        /\ req.kind \in Listings
    BY <1>1, <1>9 DEF page, Statement, Same, Fields, StatementOfRoute
  <2> QED
    BY <2>1, QuietStep DEF Listings
<1> QED
  BY <1>2, <1>3, <1>4, <1>5, <1>6, <1>7, <1>8, <1>9

\* status and block: the statements that find the block.
LEMMA BlockFound ==
    ASSUME TableInv, ReqInv, UNCHANGED tables, latest \/ find_block \/ auxpow
    PROVE  ReqInv'
<1>1. DOMAIN req = Fields /\ StatementOfRoute
  BY DEF ReqInv
<1>2. UNCHANGED <<canon, facts, state, lastReorg, tx, raw_rpc, rows, told>>
  BY DEF tables, dbVars, txVars
<1>3. CASE latest
  <2>1. /\ DOMAIN req' = Fields /\ req'.kind = req.kind /\ req'.auxOf = req.auxOf
        /\ req'.view = req.view /\ req'.pc = "done" /\ req'.row.next = NoBlock
        /\ req.kind = "status" /\ req.auxOf = NoPair
    BY <1>1, <1>3
       DEF latest, Statement, Fields, StatementOfRoute, NoDetail, ReqInv, BlockRead
  <2>2. StatementOfRoute' /\ BlockRead' /\ TransactionRead'
    BY <2>1 DEF StatementOfRoute, BlockRead, TransactionRead
  <2>3. ViewStored'
    BY <1>2, <2>1 DEF ReqInv, ViewStored
  <2>4. SnapshotOfTip' /\ SearchExact'
    BY <2>1 DEF SnapshotOfTip, SearchExact, SnapshotRoutes
  <2>5. DetailCoherent'
    BY <2>1 DEF DetailCoherent, Answer
  <2> QED
    BY <2>1, <2>2, <2>3, <2>4, <2>5 DEF ReqInv
<1>4. CASE find_block
  <2>1. /\ req.kind \in BlockRoutes /\ req.id \in Heights /\ req.auxOf = NoPair
        /\ req.pc = "find_block"
    BY <1>1, <1>4 DEF find_block, Statement, StatementOfRoute, ReqInv, BlockRead
  <2> DEFINE h == req.id
             row == [height |-> h, hash |-> canon[h].hash, wit |-> canon[h].wit,
                     prev |-> Parent[canon[h].hash],
                     next |-> IF h < MaxHeight THEN canonical_hash(h + 1) ELSE NoBlock]
  <2>2. CASE canon[h] = NoRow
    <3>1. Same /\ req'.pc = "not_found"
      BY <1>1, <1>4, <2>2 DEF find_block, Same, Fields
    <3>2. StatementOfRoute'
      BY <3>1 DEF StatementOfRoute
    <3> QED
      BY <2>1, <3>1, <3>2, QuietStep DEF BlockRoutes, TableInv
  <2>3. CASE canon[h] # NoRow
    <3>1. /\ DOMAIN req' = Fields /\ req'.kind = req.kind /\ req'.auxOf = NoPair
          /\ req'.view = req.view /\ req'.row = row
          /\ req'.pc \in {"auxpow", "keyed"}
      BY <1>1, <1>4, <2>1, <2>3 DEF find_block, Fields
    <3>2. row.hash = canon[h].hash /\ row.wit = canon[h].wit /\ <<row.hash, row.wit>> \in facts
      BY <2>1, <2>3 DEF TableInv, ChainInv
    <3>3. row.next # NoBlock => Parent[row.next] = row.hash
      <4> SUFFICES ASSUME row.next # NoBlock PROVE Parent[row.next] = row.hash
        OBVIOUS
      <4>1. h < MaxHeight /\ row.next = Selected[h + 1] /\ h + 1 \in Heights \ {0}
        BY <2>1, TreeAssumption DEF Selected, Heights, canonical_hash
      <4>2. Parent[Selected[h + 1]] = Selected[(h + 1) - 1]
        BY <4>1 DEF TableInv, ChainInv, Linked
      <4> QED
        BY <2>1, <4>1, <4>2 DEF Selected, Heights
    <3> HIDE DEF row
    <3>4. StatementOfRoute' /\ BlockRead'
      BY <1>2, <2>1, <3>1, <3>2 DEF StatementOfRoute, BlockRead, Pair
    <3>5. TransactionRead' /\ SnapshotOfTip' /\ SearchExact'
      BY <2>1, <3>1
         DEF TransactionRead, SnapshotOfTip, SearchExact, BlockRoutes, SnapshotRoutes
    <3>6. ViewStored'
      BY <1>2, <3>1 DEF ReqInv, ViewStored
    <3>7. DetailCoherent'
      BY <2>1, <3>1, <3>3 DEF DetailCoherent, Answer
    <3> QED
      BY <3>1, <3>4, <3>5, <3>6, <3>7 DEF ReqInv
  <2> QED
    BY <2>2, <2>3
<1>5. CASE auxpow
  <2> DEFINE found == AUXPOW_QUERY(req.row.hash, req.row.wit)
  <2>0. /\ req.pc = "auxpow"
        /\ \/ req' = [req EXCEPT !.pc = "done"]
           \/ \E p \in found :
                 req' = [req EXCEPT !.pc = "observations", !.aux = evid[p], !.auxOf = p]
    BY <1>5 DEF auxpow, Statement
  <2>a. ASSUME NEW p \in found
        PROVE  p = Pair
    BY DEF AUXPOW_QUERY, SelectedProofs, Pair
  <2>b. req.kind \in BlockRoutes /\ req.auxOf \in {NoPair, Pair}
    BY <1>1, <2>0 DEF StatementOfRoute, ReqInv, DetailCoherent, Pair
  <2> HIDE DEF found
  <2>1. /\ DOMAIN req' = Fields /\ req'.kind = req.kind /\ req'.row = req.row
        /\ req'.view = req.view /\ req'.auxOf \in {NoPair, Pair}
        /\ req'.pc \in {"observations", "done"} /\ req.kind \in BlockRoutes
    BY <1>1, <2>0, <2>a, <2>b DEF Fields
  <2>2. StatementOfRoute' /\ BlockRead' /\ TransactionRead'
    BY <2>1 DEF StatementOfRoute, BlockRead, TransactionRead, BlockRoutes
  <2>3. ViewStored'
    BY <1>2, <2>1 DEF ReqInv, ViewStored
  <2>4. SnapshotOfTip' /\ SearchExact'
    BY <2>1 DEF SnapshotOfTip, SearchExact, SnapshotRoutes, BlockRoutes
  <2>5. DetailCoherent'
    BY <2>1 DEF ReqInv, DetailCoherent, Answer, BlockRoutes, Pair
  <2> QED
    BY <2>1, <2>2, <2>3, <2>4, <2>5 DEF ReqInv
<1> QED
  BY <1>3, <1>4, <1>5

\* transaction: the statements on the instance found.
LEMMA TransactionFound ==
    ASSUME TableInv, ReqInv, UNCHANGED tables, find_tx \/ instance
    PROVE  ReqInv'
<1>1. DOMAIN req = Fields /\ StatementOfRoute
  BY DEF ReqInv
<1>2. UNCHANGED <<canon, facts, state, lastReorg, tx, raw_rpc, rows, told>>
  BY DEF tables, dbVars, txVars
<1>3. CASE find_tx
  <2>1. req.kind = "transaction" /\ req.auxOf = NoPair /\ req.pc = "find_tx"
    BY <1>1, <1>3 DEF find_tx, Statement, StatementOfRoute, ReqInv, BlockRead
  <2> DEFINE found == {r \in canonical_tx(Selectors) : tx[r.key].txid = req.id}
             top(r) == r \in found /\ \A q \in found : q.height <= r.height
             r0 == CHOOSE r \in found : \A q \in found : q.height <= r.height
  <2>2. CASE found = {}
    <3>1. Same /\ req'.pc = "not_found"
      BY <1>1, <1>3, <2>2 DEF find_tx, Same, Fields
    <3>2. StatementOfRoute'
      BY <3>1 DEF StatementOfRoute
    <3> QED
      BY <2>1, <3>1, <3>2, QuietStep DEF BlockRoutes, TableInv
  <2>3. CASE found # {}
    <3>1. \A r \in found : \E s \in Selectors : \E n \in DOMAIN rows[<<s.hash, s.wit>>] :
             r.height = s.height /\ r.key = rows[<<s.hash, s.wit>>][n]
      <4> TAKE r \in found
      <4>1. PICK s \in Selectors :
               r \in {[height |-> s.height, pos |-> n, key |-> rows[<<s.hash, s.wit>>][n]] :
                        n \in DOMAIN rows[<<s.hash, s.wit>>]}
        BY DEF canonical_tx
      <4>2. PICK n \in DOMAIN rows[<<s.hash, s.wit>>] :
               r = [height |-> s.height, pos |-> n, key |-> rows[<<s.hash, s.wit>>][n]]
        BY <4>1
      <4>3. r.height = s.height /\ r.key = rows[<<s.hash, s.wit>>][n]
        BY <4>2
      <4> QED
        BY <4>3
    <3>2. \A r \in found : r.height \in Heights
      BY <3>1, SelectorsOfTip DEF TableInv
    <3>3. \E r \in found : top(r)
      <4> DEFINE S == {r.height : r \in found}
      <4> HIDE DEF found
      <4>1. S \in SUBSET Heights /\ S # {}
        BY <2>3, <3>2
      <4>2. PICK x \in S : \A y \in S : y <= x
        <5> HIDE DEF S
        <5> QED
          BY <4>1, HighestExists
      <4>3. PICK r \in found : r.height = x
        OBVIOUS
      <4> QED
        BY <4>2, <4>3
    <3>4. r0 \in found
      BY <3>3
    <3> DEFINE row == [NoDetail EXCEPT !.height = r0.height, !.hash = canon[r0.height].hash,
                                       !.wit = canon[r0.height].wit]
    <3>0. req' = [req EXCEPT !.pc = "instance", !.list = {r0}, !.row = row]
      BY <1>3, <2>3 DEF find_tx
    <3> HIDE DEF r0, found
    <3>5. /\ DOMAIN req' = Fields /\ req'.kind = req.kind /\ req'.auxOf = NoPair
          /\ req'.view = req.view /\ req'.pc = "instance" /\ req'.list = {r0}
          /\ req'.row.next = NoBlock
          /\ req'.row.hash = canon[r0.height].hash /\ req'.row.wit = canon[r0.height].wit
      BY <1>1, <2>1, <3>0 DEF Fields, NoDetail
    <3>6. PICK s \in Selectors : \E n \in DOMAIN rows[<<s.hash, s.wit>>] :
             r0.height = s.height /\ r0.key = rows[<<s.hash, s.wit>>][n]
      BY <3>1, <3>4
    <3>7. Pair' = <<s.hash, s.wit>> /\ <<s.hash, s.wit>> \in facts
      BY <3>5, <3>6, SelectorsOfTip DEF TableInv, Pair
    <3>8. StatementOfRoute' /\ BlockRead'
      BY <2>1, <3>5 DEF StatementOfRoute, BlockRead
    <3>9. TransactionRead'
      BY <1>2, <2>1, <3>5, <3>6, <3>7 DEF TransactionRead
    <3>10. SnapshotOfTip' /\ SearchExact'
      BY <2>1, <3>5 DEF SnapshotOfTip, SearchExact, SnapshotRoutes
    <3>11. ViewStored'
      BY <1>2, <3>5 DEF ReqInv, ViewStored
    <3>12. DetailCoherent'
      BY <2>1, <3>5 DEF DetailCoherent, Answer
    <3> QED
      BY <3>5, <3>8, <3>9, <3>10, <3>11, <3>12 DEF ReqInv
  <2> QED
    BY <2>2, <2>3
<1>4. CASE instance
  <2>1. req.kind = "transaction" /\ req.pc = "instance" /\ Pair \in facts
    BY <1>1, <1>4 DEF instance, Statement, StatementOfRoute, ReqInv, TransactionRead
  <2>2. PICK n \in DOMAIN rows[Pair], r \in req.list : req.list = {r} /\ r.key = rows[Pair][n]
    BY <2>1 DEF ReqInv, TransactionRead
  <2>3. (CHOOSE q \in req.list : TRUE) = r
    BY <2>2
  <2>4. tx[r.key] = told[Pair][n] /\ n \in DOMAIN told[Pair]
    BY <2>1, <2>2 DEF TableInv, StoreInv, StoredAsTold
  <2>5. /\ Same /\ req'.pc = "done" /\ req'.sums = told[Pair][n]
        /\ req'.rpc = raw_rpc[r.key] /\ req'.list = req.list
    BY <1>1, <1>4, <2>3, <2>4 DEF instance, Same, Fields
  <2>6. Pair' = Pair
    BY <2>5 DEF Same, Pair
  <2>7. StatementOfRoute' /\ BlockRead' /\ TransactionRead' /\ ViewStored'
    BY <1>2, <2>1, <2>5, <2>6
       DEF Same, StatementOfRoute, BlockRead, TransactionRead, ReqInv, ViewStored
  <2>8. SnapshotOfTip' /\ SearchExact'
    BY <2>1, <2>5 DEF Same, SnapshotOfTip, SearchExact, SnapshotRoutes
  <2>9. DetailCoherent'
    <3>1. req'.sums \in ToSet(told'[Pair'])
      BY <1>2, <2>4, <2>5, <2>6 DEF ToSet
    <3>2. r.key \in DOMAIN tx /\ req'.rpc \in facts /\ r.key \in ToSet(rows[req'.rpc])
      BY <2>1, <2>2, <2>5 DEF TableInv, StoreInv, StoredAsTold, RawStored, ToSet
    <3> QED
      BY <1>2, <2>1, <2>2, <2>5, <3>1, <3>2
         DEF ReqInv, Same, DetailCoherent, Pair, Answer, BlockRoutes
  <2> QED
    BY <2>5, <2>7, <2>8, <2>9 DEF Same, ReqInv
<1> QED
  BY <1>3, <1>4

\* search: the selected blocks read through the stored rows are as told.
LEMMA SearchAnswered ==
    ASSUME TableInv, ReqInv, UNCHANGED tables, search
    PROVE  ReqInv'
<1>1. DOMAIN req = Fields /\ req.kind = "search" /\ req.pc = "search"
  BY DEF ReqInv, search, Statement, StatementOfRoute
<1>2. UNCHANGED <<canon, facts, state, lastReorg, tx, raw_rpc, rows, told>>
  BY DEF tables, dbVars, txVars
<1> DEFINE a == req.id
           txs == canonical_tx(req.view)
           byTxid == a \in {tx[r.key].txid : r \in txs}
           byAddress == a \in {o.address : o \in outputs(txs)}
           found == a \in {s.hash : s \in req.view} \/ byTxid \/ byAddress
<1>3. /\ \A s \in req.view : /\ DOMAIN rows[<<s.hash, s.wit>>] = DOMAIN told[<<s.hash, s.wit>>]
                             /\ \A n \in DOMAIN rows[<<s.hash, s.wit>>] :
                                   tx[rows[<<s.hash, s.wit>>][n]] = told[<<s.hash, s.wit>>][n]
  BY DEF ReqInv, ViewStored, TableInv, StoreInv, StoredAsTold
<1>4. byTxid \/ byAddress <=>
         \E r \in txs : tx[r.key].txid = a \/ \E o \in ToSet(tx[r.key].outs) : o.address = a
  <2>1. byAddress <=> \E r \in txs : \E n \in DOMAIN tx[r.key].outs : tx[r.key].outs[n].address = a
    <3> HIDE DEF txs
    <3>1. byAddress <=> \E o \in outputs(txs) : o.address = a
      OBVIOUS
    <3> HIDE DEF byAddress, a
    <3>2. ASSUME NEW o \in outputs(txs), o.address = a
          PROVE  \E r \in txs : \E n \in DOMAIN tx[r.key].outs : tx[r.key].outs[n].address = a
      <4>1. PICK r \in txs :
               o \in {[height |-> r.height, pos |-> r.pos, txid |-> tx[r.key].txid,
                       coinbase |-> tx[r.key].coinbase, index |-> n,
                       value |-> tx[r.key].outs[n].value,
                       address |-> tx[r.key].outs[n].address] : n \in DOMAIN tx[r.key].outs}
        BY DEF outputs
      <4>2. PICK n \in DOMAIN tx[r.key].outs : o.address = tx[r.key].outs[n].address
        BY <4>1
      <4> QED
        BY <3>2, <4>2
    <3>3. ASSUME NEW r \in txs, NEW n \in DOMAIN tx[r.key].outs, tx[r.key].outs[n].address = a
          PROVE  \E o \in outputs(txs) : o.address = a
      <4> DEFINE o == [height |-> r.height, pos |-> r.pos, txid |-> tx[r.key].txid,
                       coinbase |-> tx[r.key].coinbase, index |-> n,
                       value |-> tx[r.key].outs[n].value,
                       address |-> tx[r.key].outs[n].address]
      <4>1. o \in outputs(txs)
        BY DEF outputs
      <4>2. o.address = tx[r.key].outs[n].address
        OBVIOUS
      <4> QED
        BY <3>3, <4>1, <4>2
    <3> QED
      BY <3>1, <3>2, <3>3
  <2>2. byTxid <=> \E r \in txs : tx[r.key].txid = a
    OBVIOUS
  <2> QED
    BY <2>1, <2>2 DEF ToSet
<1>5. ASSUME NEW r \in txs
      PROVE  \E s \in req.view : \E n \in DOMAIN told[<<s.hash, s.wit>>] :
                tx[r.key] = told[<<s.hash, s.wit>>][n]
  <2>1. PICK s \in req.view :
           r \in {[height |-> s.height, pos |-> n, key |-> rows[<<s.hash, s.wit>>][n]] :
                    n \in DOMAIN rows[<<s.hash, s.wit>>]}
    BY DEF canonical_tx
  <2> HIDE DEF txs
  <2>2. PICK n \in DOMAIN rows[<<s.hash, s.wit>>] : r.key = rows[<<s.hash, s.wit>>][n]
    BY <2>1
  <2>3. n \in DOMAIN told[<<s.hash, s.wit>>] /\ tx[r.key] = told[<<s.hash, s.wit>>][n]
    BY <1>3, <2>2
  <2> QED
    BY <2>3
<1>6. ASSUME NEW s \in req.view, NEW n \in DOMAIN told[<<s.hash, s.wit>>]
      PROVE  \E r \in txs : tx[r.key] = told[<<s.hash, s.wit>>][n]
  <2> DEFINE r == [height |-> s.height, pos |-> n, key |-> rows[<<s.hash, s.wit>>][n]]
  <2>1. n \in DOMAIN rows[<<s.hash, s.wit>>]
    BY <1>3
  <2>2. r \in {[height |-> s.height, pos |-> m, key |-> rows[<<s.hash, s.wit>>][m]] :
                  m \in DOMAIN rows[<<s.hash, s.wit>>]}
    BY <2>1
  <2>3. r \in txs
    BY <2>2 DEF canonical_tx
  <2>4. tx[r.key] = told[<<s.hash, s.wit>>][n]
    BY <1>3, <2>1
  <2> QED
    BY <2>3, <2>4
<1>7. byTxid \/ byAddress <=> \E s \in req.view : Tells(s, a)
  <2> DEFINE names(t) == t.txid = a \/ \E o \in ToSet(t.outs) : o.address = a
  <2>1. byTxid \/ byAddress <=> \E r \in txs : names(tx[r.key])
    BY <1>4
  <2>2. \A s : Tells(s, a) <=> \E n \in DOMAIN told[<<s.hash, s.wit>>] :
                                  names(told[<<s.hash, s.wit>>][n])
    BY DEF Tells
  <2> HIDE DEF txs, byTxid, byAddress, names, a
  <2>3. ASSUME NEW r \in txs, names(tx[r.key])
        PROVE  \E s \in req.view : Tells(s, a)
    <3>0. PICK s \in req.view : \E n \in DOMAIN told[<<s.hash, s.wit>>] :
             tx[r.key] = told[<<s.hash, s.wit>>][n]
      BY <1>5
    <3>1. PICK n \in DOMAIN told[<<s.hash, s.wit>>] : tx[r.key] = told[<<s.hash, s.wit>>][n]
      BY <3>0
    <3>2. names(told[<<s.hash, s.wit>>][n])
      BY <2>3, <3>1
    <3> QED
      BY <2>2, <3>2
  <2>4. ASSUME NEW s \in req.view, Tells(s, a)
        PROVE  \E r \in txs : names(tx[r.key])
    <3>1. PICK n \in DOMAIN told[<<s.hash, s.wit>>] : names(told[<<s.hash, s.wit>>][n])
      BY <2>2, <2>4
    <3>2. PICK r \in txs : tx[r.key] = told[<<s.hash, s.wit>>][n]
      BY <1>6
    <3> QED
      BY <3>1, <3>2
  <2> QED
    BY <2>1, <2>3, <2>4
<1>8. Same /\ req'.pc = IF found THEN "done" ELSE "not_found"
  BY <1>1 DEF search, Same, Fields
<1>9. SearchExact'
  <2>1. found <=> \E s \in req.view : s.hash = a \/ Tells(s, a)
    BY <1>7
  <2>2. ASSUME NEW s, NEW c
        PROVE  Tells(s, c)' <=> Tells(s, c)
    BY <1>2 DEF Tells
  <2> HIDE DEF found
  <2> QED
    BY <1>8, <2>1, <2>2 DEF Same, SearchExact
<1>10. StatementOfRoute' /\ BlockRead' /\ TransactionRead' /\ ViewStored'
  BY <1>1, <1>2, <1>8
     DEF Same, StatementOfRoute, BlockRead, TransactionRead, ReqInv, ViewStored
<1>11. SnapshotOfTip'
  BY <1>1, <1>8 DEF Same, ReqInv, SnapshotOfTip
<1>12. DetailCoherent'
  BY <1>1, <1>8 DEF Same, ReqInv, DetailCoherent, Answer, BlockRoutes
<1> QED
  BY <1>8, <1>9, <1>10, <1>11, <1>12 DEF Same, ReqInv

\* The next page of a listing, and the end of a request.
LEMMA RequestEnds ==
    ASSUME ReqInv, UNCHANGED tables, next_page \/ Answered
    PROVE  ReqInv'
<1>1. DOMAIN req = Fields /\ StatementOfRoute
  BY DEF ReqInv
<1>2. UNCHANGED <<canon, facts, state, lastReorg, tx, raw_rpc, rows, told>>
  BY DEF tables, dbVars, txVars
<1>3. CASE next_page
  <2>1. /\ DOMAIN req' = Fields /\ req'.kind = req.kind /\ req'.row = req.row
        /\ req'.view = req.view /\ req'.auxOf = req.auxOf
        /\ req'.pc = "page" /\ req.kind \in Listings
    BY <1>1, <1>3 DEF next_page, Statement, Fields, StatementOfRoute
  <2>2. StatementOfRoute' /\ BlockRead' /\ TransactionRead' /\ ViewStored'
    BY <1>2, <2>1
       DEF StatementOfRoute, BlockRead, TransactionRead, ReqInv, ViewStored
  <2>3. SnapshotOfTip' /\ SearchExact'
    BY <2>1 DEF SnapshotOfTip, SearchExact, SnapshotRoutes, Listings
  <2>4. DetailCoherent'
    BY <2>1 DEF ReqInv, DetailCoherent, Answer
  <2> QED
    BY <2>1, <2>2, <2>3, <2>4 DEF ReqInv
<1>4. CASE Answered
  <2>1. /\ DOMAIN req' = Fields /\ req'.kind = "status" /\ req'.pc = "idle"
        /\ req'.view = {} /\ req'.auxOf = NoPair /\ req'.row.next = NoBlock
    BY <1>4 DEF Answered, Idle, Fields, NoDetail
  <2> QED
    BY <2>1 DEF ReqInv, StatementOfRoute, BlockRead, TransactionRead, ViewStored, SnapshotOfTip,
                SearchExact, DetailCoherent, Answer
<1> QED
  BY <1>3, <1>4

IInv == TableInv /\ ReqInv

LEMMA ReadersInit ==
    ASSUME Init
    PROVE  IInv
<1>1. /\ DOMAIN req = Fields /\ req.kind = "status" /\ req.pc = "idle"
      /\ req.view = {} /\ req.auxOf = NoPair /\ req.row.next = NoBlock
  BY DEF Init, Idle, Fields, NoDetail
<1>2. ReqInv
  BY <1>1 DEF ReqInv, StatementOfRoute, BlockRead, TransactionRead, ViewStored, SnapshotOfTip,
              SearchExact, DetailCoherent, Answer
<1> QED
  BY <1>2, TablesInit DEF IInv, TableInv

LEMMA ReadersNext ==
    ASSUME IInv, [Next]_vars
    PROVE  IInv'
<1>1. TableInv' /\ Kept
  BY TablesStay DEF IInv
<1>2. CASE Publish \/ Refresh
  <2>1. /\ Same /\ req'.pc = req.pc /\ req'.sums = req.sums /\ req'.list = req.list
        /\ req'.rpc = req.rpc
    BY <1>2 DEF IInv, ReqInv, Publish, Refresh, Same, Fields
  <2> QED
    BY <1>1, <2>1, RequestUndisturbed DEF IInv, TableInv
<1>3. CASE UNCHANGED vars
  <2>1. /\ Same /\ req'.pc = req.pc /\ req'.sums = req.sums /\ req'.list = req.list
        /\ req'.rpc = req.rpc
    BY <1>3 DEF IInv, ReqInv, vars, Same
  <2> QED
    BY <1>1, <2>1, RequestUndisturbed DEF IInv, TableInv
<1>4. CASE Next /\ ~(Publish \/ Refresh)
  <2>1. UNCHANGED tables
    BY <1>4, ReaderReads
  <2>2. CASE chain_state
    BY <1>1, <2>1, <2>2, RequestStarts DEF IInv, TableInv
  <2>3. CASE latest \/ find_block \/ auxpow
    BY <1>1, <2>1, <2>3, BlockFound DEF IInv
  <2>4. CASE find_tx \/ instance
    BY <1>1, <2>1, <2>4, TransactionFound DEF IInv
  <2>5. CASE search
    BY <1>1, <2>1, <2>5, SearchAnswered DEF IInv
  <2>6. CASE next_page \/ Answered
    BY <1>1, <2>1, <2>6, RequestEnds DEF IInv
  <2>7. CASE \/ keyed \/ observations \/ balance \/ activity \/ network_history
             \/ rich_list \/ address_stats \/ pool \/ page
    BY <1>1, <2>1, <2>7, QuietStatements DEF IInv, TableInv
  <2> QED
    BY <1>4, <2>2, <2>3, <2>4, <2>5, <2>6, <2>7 DEF Next
<1> QED
  BY <1>2, <1>3, <1>4

\* A block answer is about one block and one witness, and a transaction answer
\* shows the very instance its block was told with, whatever is published between the
\* statements of the handler.
THEOREM DetailCoherentHolds == Spec => []DetailCoherent
<1>1. IInv => DetailCoherent
  BY DEF IInv, ReqInv
<1> QED
  BY <1>1, ReadersInit, ReadersNext, PTL DEF Spec

\* The search finds exactly what the selected chain of its snapshot has.
THEOREM SearchExactHolds == Spec => []SearchExact
<1>1. IInv => SearchExact
  BY DEF IInv, ReqInv
<1> QED
  BY <1>1, ReadersInit, ReadersNext, PTL DEF Spec

------------------------------------------------------------------------------
(***************************************************************************)
(* Proofs about what the answers of the read API consist of: the pages of  *)
(* a listing, the points of a history and the totals of an address, for    *)
(* any tree of blocks, any transactions the node may tell and any limits.  *)
(***************************************************************************)
------------------------------------------------------------------------------
(***************************************************************************)
(* Rows in the order of a listing.                                         *)
(***************************************************************************)
\* Places, or rows that start with one, of which no two are at one place.
Ordered(S) ==
    /\ IsFiniteSet(S)
    /\ \A r \in S : r[1] \in Int /\ r[2] \in Int
    /\ \A a, b \in S : a # b => Before(a, b) \/ Before(b, a)

\* How many of them come after.
Rank(S, r) == Cardinality({q \in S : Before(r, q)})

LEMMA OrderedSubset ==
    ASSUME NEW S, Ordered(S), NEW T \in SUBSET S
    PROVE  Ordered(T)
BY FS_Subset DEF Ordered

LEMMA RankRises ==
    ASSUME NEW S, Ordered(S), NEW a \in S, NEW b \in S, Before(b, a)
    PROVE  /\ Rank(S, a) \in Nat /\ Rank(S, b) \in Nat /\ Rank(S, a) < Rank(S, b)
           /\ Rank(S, b) < Cardinality(S)
<1> DEFINE A == {q \in S : Before(a, q)}
           B == {q \in S : Before(b, q)}
<1>1. IsFiniteSet(A) /\ IsFiniteSet(B) /\ IsFiniteSet(S)
  BY FS_Subset DEF Ordered
<1>2. a \notin A /\ b \notin B /\ a \in B
  BY DEF Ordered, Before
<1>3. A \subseteq B
  BY DEF Ordered, Before
<1> HIDE DEF A, B
<1>4. Cardinality(A) < Cardinality(B)
  <2>1. A \in SUBSET B /\ A # B
    BY <1>2, <1>3
  <2> QED
    BY <1>1, <2>1, FS_Subset, FS_CardinalityType
<1>5. Cardinality(B) < Cardinality(S)
  <2>1. B \in SUBSET S /\ B # S
    BY <1>2 DEF B
  <2> QED
    BY <1>1, <2>1, FS_Subset, FS_CardinalityType
<1> QED
  BY <1>1, <1>4, <1>5, FS_CardinalityType DEF Rank, A, B

\* The rows are numbered from the last one down, without a gap.
LEMMA RankCounts ==
    ASSUME NEW S, Ordered(S)
    PROVE  /\ Cardinality(S) \in Nat
           /\ \A r \in S : Rank(S, r) \in 0..Cardinality(S) - 1
           /\ \A a, b \in S : Rank(S, a) = Rank(S, b) => a = b
           /\ \A a, b \in S : Rank(S, a) < Rank(S, b) => Before(b, a)
           /\ \A m \in 0..Cardinality(S) - 1 : \E r \in S : Rank(S, r) = m
<1> DEFINE N == Cardinality(S)
           f == [r \in S |-> Rank(S, r)]
           T == 0..N - 1
<1>1. N \in Nat /\ IsFiniteSet(S)
  BY FS_CardinalityType DEF Ordered
<1>2. ASSUME NEW r \in S
      PROVE  Rank(S, r) \in T
  <2> DEFINE A == {q \in S : Before(r, q)}
  <2>1. A \in SUBSET S /\ A # S
    BY DEF Ordered, Before
  <2> HIDE DEF A
  <2>2. Cardinality(A) \in Nat /\ Cardinality(A) < N
    BY <1>1, <2>1, FS_Subset, FS_CardinalityType
  <2> QED
    BY <1>1, <2>2 DEF Rank, A
<1>3. ASSUME NEW a \in S, NEW b \in S, Rank(S, a) = Rank(S, b)
      PROVE  a = b
  <2>1. ~Before(a, b) /\ ~Before(b, a)
    BY <1>3, RankRises
  <2> QED
    BY <2>1 DEF Ordered
<1>4. ASSUME NEW a \in S, NEW b \in S, Rank(S, a) < Rank(S, b)
      PROVE  Before(b, a)
  <2>1. a # b
    BY <1>1, <1>2, <1>4
  <2>2. ~Before(a, b)
    BY <1>4, RankRises
  <2> QED
    BY <2>1, <2>2 DEF Ordered
<1>5. IsFiniteSet(T) /\ Cardinality(T) = N
  <2>1. 0 \in Int /\ N - 1 \in Int
    BY <1>1
  <2> QED
    BY <1>1, <2>1, FS_Interval
<1>6. f \in Injection(S, T)
  BY <1>2, <1>3 DEF Injection, IsInjective
<1>7. f \in Surjection(S, T)
  <2> HIDE DEF f, T
  <2> QED
    BY <1>5, <1>6, FS_Injection
<1>8. \A m \in T : \E r \in S : Rank(S, r) = m
  BY <1>7 DEF Surjection
<1> QED
  BY <1>1, <1>2, <1>3, <1>4, <1>8

LEMMA MinOfTwo ==
    ASSUME NEW a \in Int, NEW b \in Int
    PROVE  Min({a, b}) = IF a <= b THEN a ELSE b
<1> DEFINE m == CHOOSE x \in {a, b} : \A y \in {a, b} : x <= y
<1>1. \E x \in {a, b} : \A y \in {a, b} : x <= y
  OBVIOUS
<1>2. m \in {a, b} /\ \A y \in {a, b} : m <= y
  BY <1>1
<1>3. Min({a, b}) = m
  BY DEF Min
<1> HIDE DEF m
<1> QED
  BY <1>2, <1>3

\* What `page' fetches of the rows below the cursor.
Fetched(S) ==
    [n \in 1..Min({PageLimit + 1, Cardinality(S)}) |->
        CHOOSE r \in S : Cardinality({q \in S : Before(r, q)}) = n - 1]

\* What it returns of them.
Returned(fetched) == SubSeq(fetched, 1, Min({PageLimit, Len(fetched)}))

\* A page of a set of rows has the newest of them, the newest first; the rows
\* that it leaves out are those below its last row, where the cursor points.
LEMMA PageRows ==
    ASSUME NEW S, Ordered(S), NEW F, F = Fetched(S),
           NEW R, R = Returned(F)
    PROVE  /\ R \in Seq(S)
           /\ \A i, j \in 1..Len(R) : i < j => Before(R[j], R[i])
           /\ R # <<>> => ToSet(R) = {r \in S : r = R[Len(R)] \/ Before(R[Len(R)], r)}
           /\ NextCursor(F) = <<>> => ToSet(R) = S
           /\ NextCursor(F) # <<>> =>
                 R # <<>> /\ NextCursor(F) = <<R[Len(R)][1], R[Len(R)][2]>>
<1> DEFINE N == Cardinality(S)
           f == Min({PageLimit + 1, N})
           k == Min({PageLimit, f})
<1>1. N \in Nat /\ PageLimit \in Nat /\ PageLimit >= 1
  BY RankCounts, ReadAssumption
<1>2. f = (IF PageLimit + 1 <= N THEN PageLimit + 1 ELSE N) /\ f \in Nat
  BY <1>1, MinOfTwo
<1>3. k = (IF PageLimit <= f THEN PageLimit ELSE f) /\ k \in Nat /\ k <= f
  <2> HIDE DEF f
  <2> QED
    BY <1>1, <1>2, MinOfTwo
<1> HIDE DEF N, f, k
<1>4. \A n \in 1..f : F[n] \in S /\ Rank(S, F[n]) = n - 1
  <2> TAKE n \in 1..f
  <2> DEFINE c == CHOOSE r \in S : Rank(S, r) = n - 1
  <2>1. n - 1 \in 0..N - 1
    BY <1>1, <1>2
  <2>2. \E r \in S : Rank(S, r) = n - 1
    BY <2>1, RankCounts DEF N
  <2>3. c \in S /\ Rank(S, c) = n - 1
    BY <2>2
  <2>4. F[n] = c
    BY DEF f, N, Fetched, Rank
  <2> QED
    BY <2>3, <2>4
<1>5. F \in Seq(S) /\ Len(F) = f
  <2> DEFINE g(n) == CHOOSE r \in S : Cardinality({q \in S : Before(r, q)}) = n - 1
  <2>0. F = [n \in 1..f |-> g(n)]
    BY DEF f, N, Fetched
  <2> HIDE DEF g
  <2>1. DOMAIN F = 1..f
    BY <2>0
  <2>3. F \in [1..f -> S]
    BY <1>4, <2>0
  <2>4. F \in Seq(S)
    BY <1>2, <2>3
  <2> QED
    BY <1>2, <2>1, <2>4
<1>6. R \in Seq(S) /\ Len(R) = k /\ \A n \in 1..k : R[n] = F[n]
  <2>1. R = SubSeq(F, 1, k)
    BY <1>5 DEF k, Returned
  <2> QED
    BY <1>2, <1>3, <1>5, <2>1
<1>7. \A n \in 1..k : n \in 1..f /\ R[n] \in S /\ Rank(S, R[n]) = n - 1
  BY <1>2, <1>3, <1>4, <1>6
<1>8. \A i, j \in 1..k : i < j => Before(R[j], R[i])
  <2> TAKE i, j \in 1..k
  <2> HAVE i < j
  <2>1. Rank(S, R[i]) < Rank(S, R[j])
    BY <1>3, <1>7
  <2> QED
    BY <1>7, <2>1, RankCounts
<1>9. \A r \in S : Rank(S, r) < k => \E n \in 1..k : R[n] = r
  <2> TAKE r \in S
  <2> HAVE Rank(S, r) < k
  <2> DEFINE n == Rank(S, r) + 1
  <2>1. n \in 1..k /\ n - 1 = Rank(S, r)
    BY <1>1, <1>3, RankCounts DEF N
  <2>2. R[n] \in S /\ Rank(S, R[n]) = Rank(S, r)
    BY <1>7, <2>1
  <2> HIDE DEF n
  <2>3. R[n] = r
    BY <2>2, RankCounts
  <2> QED
    BY <2>1, <2>3
<1>10. ToSet(R) = {R[n] : n \in 1..k}
  BY <1>6 DEF ToSet
<1>11. ASSUME R # <<>>
       PROVE  ToSet(R) = {r \in S : r = R[Len(R)] \/ Before(R[Len(R)], r)}
  <2>1. k \in 1..k
    BY <1>3, <1>6, <1>11
  <2>2. ASSUME NEW n \in 1..k
        PROVE  R[n] = R[k] \/ Before(R[k], R[n])
    BY <1>3, <1>8, <2>1
  <2>3. ASSUME NEW r \in S, r = R[k] \/ Before(R[k], r)
        PROVE  \E n \in 1..k : R[n] = r
    <3>1. Rank(S, r) <= Rank(S, R[k]) /\ Rank(S, r) \in Int /\ Rank(S, R[k]) \in Int
      <4>1. R[k] \in S
        BY <1>7, <2>1
      <4>2. CASE r = R[k]
        BY <4>1, <4>2, RankCounts
      <4>3. CASE Before(R[k], r)
        BY <4>1, <4>3, RankRises
      <4> QED
        BY <2>3, <4>2, <4>3
    <3>2. Rank(S, r) < k
      BY <1>3, <1>7, <2>1, <3>1
    <3> QED
      BY <1>9, <3>2
  <2>4. \A n \in 1..k : R[n] \in S
    BY <1>7
  <2> QED
    BY <1>6, <1>10, <2>2, <2>3, <2>4
<1>12. ASSUME Len(F) <= PageLimit
       PROVE  NextCursor(F) = <<>> /\ ToSet(R) = S
  <2>1. ~(Len(F) > PageLimit)
    BY <1>1, <1>2, <1>5, <1>12
  <2>2. k = N
    BY <1>1, <1>2, <1>3, <1>5, <1>12
  <2>3. \A r \in S : \E n \in 1..k : R[n] = r
    BY <1>1, <1>9, <2>2, RankCounts DEF N
  <2>4. \A n \in 1..k : R[n] \in S
    BY <1>7
  <2> QED
    BY <1>10, <2>1, <2>3, <2>4 DEF NextCursor
<1>13. ASSUME Len(F) > PageLimit
       PROVE  /\ NextCursor(F) # <<>> /\ R # <<>>
              /\ NextCursor(F) = <<R[Len(R)][1], R[Len(R)][2]>>
  <2>1. k = PageLimit /\ k \in 1..k
    BY <1>1, <1>2, <1>3, <1>5, <1>13
  <2>2. R[k] = F[PageLimit]
    BY <1>6, <2>1
  <2>3. NextCursor(F) = <<R[k][1], R[k][2]>>
    BY <1>13, <2>2 DEF NextCursor
  <2>4. R # <<>>
    BY <1>6, <2>1
  <2>5. <<R[k][1], R[k][2]>> # <<>>
    OBVIOUS
  <2> QED
    BY <1>6, <2>3, <2>4, <2>5
<1>14. Len(F) <= PageLimit \/ Len(F) > PageLimit
  BY <1>1, <1>2, <1>5
<1> QED
  BY <1>6, <1>8, <1>11, <1>12, <1>13, <1>14

------------------------------------------------------------------------------
(***************************************************************************)
(* Listings.                                                               *)
(***************************************************************************)
\* What is stored of a block is something the node may tell of it.
ToldInv == \A p \in DOMAIN told : told[p] \in Contents[p[1]]

LEMMA ToldStays ==
    ASSUME ToldInv, [Next]_vars
    PROVE  ToldInv'
<1>1. ASSUME NEW pairs, insert_blocks(pairs)
      PROVE  ToldInv'
  <2>1. PICK batch \in Tellings(pairs) : store_ok(batch) /\ store(batch)
    BY <1>1 DEF insert_blocks
  <2>2. DOMAIN batch = pairs /\ \A p \in pairs : batch[p] \in Contents[p[1]]
    BY DEF Tellings
  <2>3. told' = [p \in DOMAIN told \cup DOMAIN batch |->
                    IF p \in DOMAIN batch THEN batch[p] ELSE told[p]]
    BY <2>1 DEF store
  <2> QED
    BY <2>2, <2>3 DEF ToldInv
<1>2. CASE Publish
  BY <1>1, <1>2 DEF Publish
<1>3. CASE Refresh
  BY <1>1, <1>3 DEF Refresh
<1>4. CASE UNCHANGED tables
  BY <1>4 DEF tables, txVars, ToldInv
<1> QED
  BY <1>2, <1>3, <1>4, ReaderReads DEF vars

\* The positions of the transactions of a stored block.
LEMMA StoredLists ==
    ASSUME TableInv, ToldInv, NEW p \in facts
    PROVE  /\ told[p] \in Seq(ToSet(told[p])) /\ Len(told[p]) \in Nat
           /\ DOMAIN told[p] = 1..Len(told[p]) /\ DOMAIN rows[p] = 1..Len(told[p])
           /\ \A n \in DOMAIN told[p] :
                 told[p][n].outs \in Seq([value : Nat, address : Address \cup {NoAddress}])
<1>1. p \in DOMAIN told /\ DOMAIN rows[p] = DOMAIN told[p]
  BY DEF TableInv, StoreInv, StoredAsTold
<1>2. told[p] \in Contents[p[1]] /\ p[1] \in Block
  BY <1>1 DEF ToldInv, TableInv, ChainInv, DbTypeOK
<1>3. /\ told[p] \in Seq(ToSet(told[p]))
      /\ \A n \in DOMAIN told[p] :
            told[p][n].outs \in Seq([value : Nat, address : Address \cup {NoAddress}])
  BY <1>2, ContentsAssumption
<1> DEFINE c == told[p]
           S == ToSet(c)
<1>4. c \in Seq(S)
  BY <1>3
<1>5. Len(c) \in Nat /\ DOMAIN c = 1..Len(c)
  <2> HIDE DEF c, S
  <2> QED
    BY <1>4
<1> QED
  BY <1>1, <1>3, <1>5

\* The rows of a listing are rows of selected blocks, at different places.
LEMMA ListRowsOf ==
    ASSUME NEW kind \in Listings, NEW r
    PROVE  r \in ListRows(kind) <=>
              \E s \in Selectors :
              \E p \in (IF kind = "blocks" THEN {0} ELSE DOMAIN rows[<<s.hash, s.wit>>]) :
                 r = <<s.height, p, s.hash>>
BY DEF ListRows

LEMMA ListRowsOrdered ==
    ASSUME TableInv, ToldInv, NEW kind \in Listings
    PROVE  /\ Ordered(ListRows(kind))
           /\ \A r \in ListRows(kind) : /\ r[1] \in Heights /\ r[1] <= state.indexed.height
                                        /\ r[2] \in Int
<1> DEFINE L == ListRows(kind)
           at(s) == IF kind = "blocks" THEN {0} ELSE DOMAIN rows[<<s.hash, s.wit>>]
           of(s) == {<<s.height, p, s.hash>> : p \in at(s)}
<1>1. \A s \in Selectors : /\ s.height \in Heights /\ s.height <= state.indexed.height
                           /\ s.hash = canon[s.height].hash /\ s.wit = canon[s.height].wit
                           /\ <<s.hash, s.wit>> \in facts
  BY SelectorsOfTip DEF TableInv
<1>2. \A s \in Selectors : at(s) \subseteq Int /\ IsFiniteSet(at(s))
  <2> TAKE s \in Selectors
  <2>1. CASE kind = "blocks"
    <3>1. at(s) = {0}
      BY <2>1
    <3>2. IsFiniteSet({0})
      BY FS_Singleton
    <3> HIDE DEF at
    <3> QED
      BY <3>1, <3>2
  <2>2. CASE kind # "blocks"
    <3> DEFINE q == <<s.hash, s.wit>>
    <3>1. DOMAIN rows[q] = 1..Len(told[q]) /\ Len(told[q]) \in Int
      BY <1>1, StoredLists
    <3>2. 1 \in Int /\ at(s) = 1..Len(told[q])
      BY <2>2, <3>1
    <3> HIDE DEF q, at
    <3>3. IsFiniteSet(1..Len(told[q])) /\ 1..Len(told[q]) \subseteq Int
      BY <3>1, <3>2, FS_Interval
    <3> QED
      BY <3>2, <3>3
  <2> QED
    BY <2>1, <2>2
<1>3. ASSUME NEW r \in L
      PROVE  /\ r[1] \in Heights /\ r[1] <= state.indexed.height /\ r[2] \in Int
             /\ r = <<r[1], r[2], canon[r[1]].hash>>
  <2>1. PICK s \in Selectors : \E p \in at(s) : r = <<s.height, p, s.hash>>
    BY ListRowsOf
  <2> HIDE DEF at
  <2>2. PICK p \in at(s) : r = <<s.height, p, s.hash>>
    BY <2>1
  <2> QED
    BY <1>1, <1>2, <2>2
<1>4. \A r \in L : r[1] \in Int
  BY <1>3, TreeAssumption DEF Heights
<1>5. ASSUME NEW a \in L, NEW b \in L, a # b
      PROVE  Before(a, b) \/ Before(b, a)
  BY <1>3, <1>4, <1>5 DEF Before
<1>6. IsFiniteSet(Selectors)
  <2> DEFINE H == {k \in Heights : canon[k] # NoRow}
             f == [h \in H |-> [height |-> h, hash |-> canon[h].hash, wit |-> canon[h].wit]]
  <2>1. IsFiniteSet(H)
    <3>1. 0 \in Int /\ MaxHeight \in Int
      BY TreeAssumption
    <3>2. IsFiniteSet(Heights)
      BY <3>1, FS_Interval DEF Heights
    <3>3. H \in SUBSET Heights
      OBVIOUS
    <3> HIDE DEF H
    <3> QED
      BY <3>2, <3>3, FS_Subset
  <2>2. f \in Surjection(H, Selectors)
    <3>1. Selectors = {[height |-> h, hash |-> canon[h].hash, wit |-> canon[h].wit] : h \in H}
      BY DEF Selectors, SelectorsOf
    <3> QED
      BY <3>1 DEF Surjection
  <2> QED
    BY <2>1, <2>2, FS_Surjection
<1>7. IsFiniteSet(L)
  <2> DEFINE U == {of(s) : s \in Selectors}
             g == [s \in Selectors |-> of(s)]
  <2>1. \A s \in Selectors : IsFiniteSet(of(s))
    <3> TAKE s \in Selectors
    <3> DEFINE f == [p \in at(s) |-> <<s.height, p, s.hash>>]
    <3>1. f \in Surjection(at(s), of(s))
      <4> HIDE DEF at
      <4> QED
        BY DEF Surjection
    <3> QED
      BY <1>2, <3>1, FS_Surjection
  <2>2. g \in Surjection(Selectors, U)
    <3> HIDE DEF of
    <3> QED
      BY DEF Surjection
  <2>3. IsFiniteSet(U)
    BY <1>6, <2>2, FS_Surjection
  <2>4. \A T \in U : IsFiniteSet(T)
    <3> HIDE DEF of
    <3> QED
      BY <2>1
  <2>5. L = UNION U
    BY DEF ListRows
  <2> HIDE DEF U, L
  <2> QED
    BY <2>3, <2>4, <2>5, FS_UNION
<1> QED
  BY <1>3, <1>4, <1>5, <1>7 DEF Ordered

\* The rows of L from a down to b.
Between(L, a, b) == {r \in L : (r = a \/ Before(r, a)) /\ (r = b \/ Before(b, r))}

ListRow == Int \X Int \X (Block \cup {NoBlock})

Descending(w) == \A i, j \in 1..Len(w) : i < j => Before(w[j], w[i])

\* The cursor points at the last row of the pages fetched so far.
CursorAtLast ==
    /\ req.pc = "page" /\ req.walk = <<>> => req.cursor = <<>>
    /\ req.pc = "next_page" => req.walk # <<>>
    /\ req.pc \in {"page", "next_page"} /\ req.walk # <<>> =>
          req.cursor = <<Last(req.walk)[1], Last(req.walk)[2]>>

\* As long as no selector vanished, these rows are all there are between the
\* first one and the last one; after the last page there are none below.
NothingMissed ==
    req.walk # <<>> /\ ~req.moved =>
       LET w == req.walk
           L == ListRows(req.kind)
       IN  /\ w[1] \in L /\ Last(w) \in L
           /\ ToSet(w) = Between(L, w[1], Last(w))
           /\ req.pc = "done" => \A r \in L : ~Before(r, Last(w))

WalkInv ==
    /\ req.walk \in Seq(ListRow) /\ req.moved \in BOOLEAN
    /\ req.walk # <<>> =>
          req.kind \in Listings /\ req.pc \in {"page", "next_page", "done"}
    /\ Descending(req.walk)
    /\ CursorAtLast
    /\ NothingMissed

\* Rows of blocks that stay selected stay, and no row appears among them.
LEMMA ListRowsKept ==
    ASSUME TableInv, Kept, NEW kind \in Listings, NEW r,
           \A h \in Heights : h <= state.indexed.height => canon'[h] = canon[h],
           r[1] <= state.indexed.height
    PROVE  r \in ListRows(kind)' <=> r \in ListRows(kind)
<1> DEFINE at(s) == IF kind = "blocks" THEN {0} ELSE DOMAIN rows[<<s.hash, s.wit>>]
           atN(s) == IF kind = "blocks" THEN {0} ELSE DOMAIN rows'[<<s.hash, s.wit>>]
           sel(h) == [height |-> h, hash |-> canon[h].hash, wit |-> canon[h].wit]
           selN(h) == [height |-> h, hash |-> canon'[h].hash, wit |-> canon'[h].wit]
<1>1. r \in ListRows(kind) <=> \E s \in Selectors : \E p \in at(s) : r = <<s.height, p, s.hash>>
  <2>1. ListRows(kind) = UNION {{<<s.height, p, s.hash>> : p \in at(s)} : s \in Selectors}
    BY Zenon DEF ListRows
  <2> HIDE DEF at
  <2> QED
    BY <2>1
<1>2. r \in ListRows(kind)' <=>
         \E s \in Selectors' : \E p \in atN(s) : r = <<s.height, p, s.hash>>
  <2>1. ListRows(kind)' = UNION {{<<s.height, p, s.hash>> : p \in atN(s)} : s \in Selectors'}
    BY Zenon DEF ListRows
  <2> HIDE DEF atN
  <2> QED
    BY <2>1
<1>3. /\ \A s : s \in Selectors <=> \E h \in Heights : canon[h] # NoRow /\ s = sel(h)
      /\ \A s : s \in Selectors' <=> \E h \in Heights : canon'[h] # NoRow /\ s = selN(h)
  BY DEF Selectors, SelectorsOf
<1>4. \A s \in Selectors : atN(s) = at(s)
  <2>1. \A s \in Selectors : <<s.hash, s.wit>> \in facts
    BY SelectorsOfTip DEF TableInv
  <2>2. \A s \in Selectors : rows'[<<s.hash, s.wit>>] = rows[<<s.hash, s.wit>>]
    BY <2>1 DEF Kept
  <2> QED
    BY <2>2
<1>5. \A h \in Heights : h <= state.indexed.height => selN(h) = sel(h)
  OBVIOUS
<1>6. \A h : sel(h).height = h /\ selN(h).height = h
  OBVIOUS
<1> HIDE DEF at, atN, sel, selN
<1>7. ASSUME NEW s, s.height <= state.indexed.height
      PROVE  s \in Selectors' <=> s \in Selectors
  BY <1>3, <1>5, <1>6, <1>7
<1>8. ASSUME r \in ListRows(kind)
      PROVE  r \in ListRows(kind)'
  <2>1. PICK s \in Selectors : \E p \in at(s) : r = <<s.height, p, s.hash>>
    BY <1>1, <1>8
  <2>2. s.height <= state.indexed.height
    BY <2>1
  <2> QED
    BY <1>2, <1>4, <1>7, <2>1, <2>2
<1>9. ASSUME r \in ListRows(kind)'
      PROVE  r \in ListRows(kind)
  <2>1. PICK s \in Selectors' : \E p \in atN(s) : r = <<s.height, p, s.hash>>
    BY <1>2, <1>9
  <2>2. s.height <= state.indexed.height
    BY <2>1
  <2>3. s \in Selectors
    BY <1>7, <2>1, <2>2
  <2> QED
    BY <1>1, <1>4, <2>1, <2>3
<1> QED
  BY <1>8, <1>9

\* The indexer disturbs no walk but one that it marks.
LEMMA WalkUndisturbed ==
    ASSUME TableInv, ToldInv, WalkInv, req' = req, Kept,
           \A h \in Heights : h <= state.indexed.height => canon'[h] = canon[h]
    PROVE  WalkInv'
<1>1. ASSUME req.walk # <<>>, ~req.moved
      PROVE  LET w == req.walk
                 L == ListRows(req.kind)'
             IN  /\ w[1] \in L /\ Last(w) \in L
                 /\ ToSet(w) = Between(L, w[1], Last(w))
                 /\ req.pc = "done" => \A r \in L : ~Before(r, Last(w))
  <2> DEFINE w == req.walk
             a == w[1]
             b == Last(w)
             kind == req.kind
             L == ListRows(kind)
             M == ListRows(kind)'
             top == state.indexed.height
  <2>1. /\ kind \in Listings
        /\ a \in L /\ b \in L /\ ToSet(w) = Between(L, a, b)
        /\ req.pc = "done" => \A r \in L : ~Before(r, b)
    BY <1>1 DEF WalkInv, NothingMissed
  <2>2. /\ \A r \in L : r[1] \in Int /\ r[1] <= top
        /\ top \in Int
    <3>1. \A r \in L : r[1] \in Heights /\ r[1] <= top
      BY <2>1, ListRowsOrdered
    <3>2. top \in Int
      BY TreeAssumption DEF TableInv, ChainInv, DbTypeOK, Tip
    <3> QED
      BY <3>1, <3>2, TreeAssumption DEF Heights
  <2>3. ASSUME NEW r, r[1] <= top
        PROVE  r \in M <=> r \in L
    BY <2>1, <2>3, ListRowsKept
  <2>4. \A r \in M : r[1] \in Int
    <3> TAKE r \in M
    <3>1. PICK s \in Selectors' :
             \E p \in (IF kind = "blocks" THEN {0} ELSE DOMAIN rows'[<<s.hash, s.wit>>]) :
                r = <<s.height, p, s.hash>>
      BY DEF ListRows
    <3>2. s.height \in Heights
      BY DEF Selectors, SelectorsOf
    <3> QED
      BY <3>1, <3>2, TreeAssumption DEF Heights
  <2> HIDE DEF L, M, a, b, top, kind
  <2>5. \A r \in M : r = a \/ Before(r, a) => r[1] <= top
    BY <2>1, <2>2, <2>4 DEF Before
  <2>6. \A r \in M : Before(r, b) => r[1] <= top
    BY <2>1, <2>2, <2>4 DEF Before
  <2>7. \A r \in L : r \in M
    BY <2>2, <2>3
  <2>8. Between(M, a, b) = Between(L, a, b)
    BY <2>3, <2>5, <2>7 DEF Between
  <2>9. req.pc = "done" => \A r \in M : ~Before(r, b)
    BY <2>1, <2>3, <2>6
  <2> QED
    BY <2>1, <2>7, <2>8, <2>9 DEF L, M, a, b, kind
<1>2. NothingMissed'
  BY <1>1 DEF NothingMissed
<1> QED
  BY <1>2 DEF WalkInv, CursorAtLast

LEMMA IndexerKeepsWalk ==
    ASSUME TableInv, ToldInv, ReqInv, WalkInv, Publish \/ Refresh
    PROVE  WalkInv'
<1>1. Kept
  BY IndexerStep DEF TableInv
<1>2. canonical_tip = state.indexed
  BY TipOfSelectors DEF TableInv, ChainInv
<1>3. ASSUME NEW row, commit_block(canonical_tip.height + 1, row), UNCHANGED req
      PROVE  WalkInv'
  <2>1. canon' = [canon EXCEPT ![state.indexed.height + 1] = row]
    BY <1>2, <1>3 DEF commit_block
  <2>2. state.indexed.height \in Int /\ \A h \in Heights : h \in Int
    BY TreeAssumption DEF TableInv, ChainInv, DbTypeOK, Tip, Heights
  <2>3. \A h \in Heights : h <= state.indexed.height => canon'[h] = canon[h]
    BY <2>1, <2>2 DEF TableInv, ChainInv, DbTypeOK
  <2> QED
    BY <1>1, <1>3, <2>3, WalkUndisturbed
<1>4. ASSUME req' = [req EXCEPT !.moved = req.pc # "idle" /\ req.kind \in Listings]
      PROVE  WalkInv'
  <2>1. /\ req'.walk = req.walk /\ req'.pc = req.pc /\ req'.kind = req.kind
        /\ req'.cursor = req.cursor
        /\ req'.moved = (req.pc # "idle" /\ req.kind \in Listings)
    BY <1>4 DEF ReqInv, Fields
  <2>2. NothingMissed'
    BY <2>1 DEF WalkInv, NothingMissed
  <2> QED
    BY <2>1, <2>2 DEF WalkInv, CursorAtLast
<1>5. CASE Publish
  BY <1>3, <1>4, <1>5 DEF Publish
<1>6. CASE Refresh
  <2>1. canon' = canon /\ req' = req
    BY <1>6 DEF Refresh, refresh_block_evidence
  <2> QED
    BY <1>1, <2>1, WalkUndisturbed
<1> QED
  BY <1>5, <1>6

\* The next page goes on where the walk stands.
LEMMA PageExtendsWalk ==
    ASSUME TableInv, ToldInv, ReqInv, WalkInv, page
    PROVE  WalkInv'
<1> DEFINE kind == req.kind
           L == ListRows(kind)
           S == BelowCursor(L, req.cursor)
           F == Fetched(S)
           R == Returned(F)
           w == req.walk
           v == w \o R
           a == w[1]
           b == w[Len(w)]
<1>1. req.pc = "page" /\ kind \in Listings /\ UNCHANGED tables
  BY DEF ReqInv, StatementOfRoute, page, Statement
<1>2. /\ req'.kind = kind /\ req'.walk = v /\ req'.cursor = NextCursor(F)
      /\ req'.moved = (req.moved /\ w # <<>>)
      /\ req'.pc = IF NextCursor(F) = <<>> THEN "done" ELSE "next_page"
  <2>1. req' = [req EXCEPT
                  !.cursor = NextCursor(F), !.walk = v, !.moved = req.moved /\ req.walk # <<>>,
                  !.pc = IF NextCursor(F) = <<>> THEN "done" ELSE "next_page"]
    BY DEF page, Fetched, Returned
  <2> HIDE DEF F, v, w, S
  <2> QED
    BY <2>1 DEF ReqInv, Fields, w
<1>3. ListRows(req.kind)' = L
  <2>1. UNCHANGED <<canon, rows>> /\ req'.kind = req.kind
    BY <1>1, <1>2 DEF tables, dbVars, txVars
  <2> QED
    BY <2>1 DEF ListRows, Selectors, SelectorsOf
<1>4. /\ Ordered(L)
      /\ \A r \in L : r[1] \in Int /\ r[2] \in Int /\ r \in ListRow
  <2>1. Ordered(L)
    BY <1>1, ListRowsOrdered
  <2>2. ASSUME NEW r \in L
        PROVE  r \in ListRow
    <3>1. r[1] \in Int /\ r[2] \in Int
      BY <2>1 DEF Ordered
    <3>2. PICK s \in Selectors :
             \E p \in (IF kind = "blocks" THEN {0} ELSE DOMAIN rows[<<s.hash, s.wit>>]) :
                r = <<s.height, p, s.hash>>
      BY DEF ListRows
    <3>3. s.hash \in Block \cup {NoBlock}
      BY DEF Selectors, SelectorsOf, TableInv, ChainInv, DbTypeOK, Row, NoRow
    <3> QED
      BY <3>1, <3>2, <3>3 DEF ListRow
  <2> QED
    BY <2>1, <2>2 DEF Ordered
<1>5. S \in SUBSET L
  BY DEF BelowCursor
<1>6. Ordered(S)
  BY <1>4, <1>5, OrderedSubset
<1> HIDE DEF F, R, L, S
<1>7. /\ R \in Seq(S)
      /\ \A i, j \in 1..Len(R) : i < j => Before(R[j], R[i])
      /\ R # <<>> => ToSet(R) = {r \in S : r = R[Len(R)] \/ Before(R[Len(R)], r)}
      /\ NextCursor(F) = <<>> => ToSet(R) = S
      /\ NextCursor(F) # <<>> =>
            R # <<>> /\ NextCursor(F) = <<R[Len(R)][1], R[Len(R)][2]>>
  BY <1>6, PageRows DEF F, R
<1>8. w \in Seq(ListRow) /\ Descending(w) /\ req.moved \in BOOLEAN
  BY DEF WalkInv
<1>9. R \in Seq(ListRow) /\ R \in Seq(L)
  <2>1. S \subseteq ListRow /\ S \subseteq L
    BY <1>4, <1>5
  <2> QED
    BY <1>7, <2>1
<1> HIDE DEF w
<1>10. /\ v \in Seq(ListRow) /\ Len(v) = Len(w) + Len(R) /\ Len(w) \in Nat /\ Len(R) \in Nat
       /\ \A i \in 1..Len(w) : v[i] = w[i]
       /\ \A i \in Len(w)+1..Len(v) : v[i] = R[i - Len(w)] /\ i - Len(w) \in 1..Len(R)
       /\ \A i \in 1..Len(R) : R[i] \in S
       /\ \A i \in 1..Len(w) : w[i] \in ListRow
  BY <1>7, <1>8, <1>9
<1>11. /\ w = <<>> <=> Len(w) = 0
       /\ R = <<>> <=> Len(R) = 0
       /\ v = <<>> <=> Len(v) = 0
  BY <1>8, <1>9, <1>10
<1>12. w = <<>> => S = L /\ v = R
  <2>1. w = <<>> => req.cursor = <<>>
    BY <1>1 DEF WalkInv, CursorAtLast, w
  <2>2. w = <<>> => S = L
    BY <2>1 DEF S, BelowCursor
  <2> QED
    BY <1>9, <2>2
<1>13. w # <<>> => S = {r \in L : Before(r, b)}
  <2> SUFFICES ASSUME w # <<>> PROVE S = {r \in L : Before(r, b)}
    OBVIOUS
  <2>1. req.cursor = <<b[1], b[2]>>
    BY <1>1 DEF WalkInv, CursorAtLast, w, Last
  <2>2. req.cursor # <<>>
    BY <2>1
  <2>3. \A r : Before(r, req.cursor) <=> Before(r, b)
    BY <2>1 DEF Before
  <2> QED
    BY <2>2, <2>3 DEF S, BelowCursor
<1>14. Descending(v)
  <2> SUFFICES ASSUME NEW i \in 1..Len(v), NEW j \in 1..Len(v), i < j
               PROVE  Before(v[j], v[i])
    BY DEF Descending
  <2>1. CASE j <= Len(w)
    BY <2>1, <1>8, <1>10 DEF Descending
  <2>2. CASE i > Len(w)
    <3>1. /\ i - Len(w) \in 1..Len(R) /\ j - Len(w) \in 1..Len(R) /\ i - Len(w) < j - Len(w)
          /\ v[i] = R[i - Len(w)] /\ v[j] = R[j - Len(w)]
      BY <2>2, <1>10
    <3> QED
      BY <3>1, <1>7
  <2>3. CASE i <= Len(w) /\ j > Len(w)
    <3>1. v[i] = w[i] /\ i \in 1..Len(w) /\ v[j] \in S /\ w # <<>>
      BY <2>3, <1>10, <1>11
    <3>2. Before(v[j], b) /\ v[j] \in L
      BY <3>1, <1>13
    <3>3. (b = w[i] \/ Before(b, w[i])) /\ b \in ListRow /\ w[i] \in ListRow
      BY <3>1, <1>8, <1>10, <1>11 DEF Descending
    <3> HIDE DEF b, v
    <3>4. /\ v[j][1] \in Int /\ v[j][2] \in Int /\ b[1] \in Int /\ b[2] \in Int
          /\ w[i][1] \in Int /\ w[i][2] \in Int
      BY <3>2, <3>3, <1>4 DEF ListRow
    <3> DEFINE x == v[j]
               y == w[i]
    <3>5. /\ Before(x, b) /\ (b = y \/ Before(b, y)) /\ v[i] = y
          /\ x[1] \in Int /\ x[2] \in Int /\ b[1] \in Int /\ b[2] \in Int
          /\ y[1] \in Int /\ y[2] \in Int
      BY <3>1, <3>2, <3>3, <3>4
    <3> HIDE DEF x, y
    <3>6. Before(x, y)
      BY <3>5 DEF Before
    <3> QED
      BY <3>5, <3>6 DEF x, y
  <2> QED
    BY <2>1, <2>2, <2>3, <1>10
<1>15. CursorAtLast'
  <2> SUFFICES ASSUME NextCursor(F) # <<>>
               PROVE  v # <<>> /\ NextCursor(F) = <<v[Len(v)][1], v[Len(v)][2]>>
    BY <1>2 DEF CursorAtLast, Last
  <2>1. R # <<>> /\ NextCursor(F) = <<R[Len(R)][1], R[Len(R)][2]>>
    BY <1>7
  <2>2. v # <<>> /\ v[Len(v)] = R[Len(R)]
    BY <2>1, <1>10, <1>11
  <2> QED
    BY <2>1, <2>2
<1>16. ToSet(v) = ToSet(w) \cup ToSet(R)
  <2>1. DOMAIN v = 1..Len(v) /\ DOMAIN w = 1..Len(w) /\ DOMAIN R = 1..Len(R)
    BY <1>8, <1>9, <1>10
  <2>2. ASSUME NEW i \in 1..Len(v)
        PROVE  (\E k \in 1..Len(w) : v[i] = w[k]) \/ (\E k \in 1..Len(R) : v[i] = R[k])
    BY <1>10
  <2>3. ASSUME NEW k \in 1..Len(w)
        PROVE  \E i \in 1..Len(v) : v[i] = w[k]
    BY <1>10
  <2>4. ASSUME NEW k \in 1..Len(R)
        PROVE  \E i \in 1..Len(v) : v[i] = R[k]
    <3>1. k + Len(w) \in Len(w)+1..Len(v) /\ k + Len(w) \in 1..Len(v) /\ (k + Len(w)) - Len(w) = k
      BY <1>10
    <3> QED
      BY <3>1, <1>10
  <2> HIDE DEF v
  <2>5. /\ ToSet(v) = {v[i] : i \in 1..Len(v)} /\ ToSet(w) = {w[i] : i \in 1..Len(w)}
        /\ ToSet(R) = {R[i] : i \in 1..Len(R)}
    BY <2>1 DEF ToSet
  <2> QED
    BY <2>2, <2>3, <2>4, <2>5
<1>17. ASSUME v # <<>>, ~req.moved \/ w = <<>>
       PROVE  /\ v[1] \in L /\ v[Len(v)] \in L
              /\ ToSet(v) = Between(L, v[1], v[Len(v)])
              /\ NextCursor(F) = <<>> => \A r \in L : ~Before(r, v[Len(v)])
  <2> DEFINE e == v[Len(v)]
  <2>1. ASSUME R # <<>>
        PROVE  /\ e = R[Len(R)] /\ e \in S /\ Len(v) \in 1..Len(v)
               /\ ToSet(R) = {r \in S : r = e \/ Before(e, r)}
               /\ NextCursor(F) = <<>> => \A r \in S : r = e \/ Before(e, r)
    BY <2>1, <1>7, <1>10, <1>11
  <2>2. ASSUME w # <<>>
        PROVE  /\ a \in L /\ b \in L /\ v[1] = a
               /\ ToSet(w) = Between(L, a, b)
    <3>1. /\ w[1] \in L /\ Last(w) \in L
          /\ ToSet(w) = Between(L, w[1], Last(w))
      BY <1>17, <2>2 DEF WalkInv, NothingMissed, w, L
    <3>2. v[1] = w[1]
      BY <1>10, <1>11, <2>2
    <3> QED
      BY <3>1, <3>2 DEF Last
  <2>3. CASE w = <<>>
    <3>1. S = L /\ v = R /\ R # <<>>
      BY <2>3, <1>12, <1>17
    <3>2. v[1] \in L /\ \A r \in {R[i] : i \in 1..Len(R)} : r = v[1] \/ Before(r, v[1])
      <4>1. 1 \in 1..Len(R) /\ v[1] = R[1]
        BY <3>1, <1>10, <1>11
      <4>2. \A i \in 1..Len(R) : i = 1 \/ 1 < i
        BY <1>10
      <4> QED
        BY <4>1, <4>2, <3>1, <1>7, <1>10
    <3>3. ToSet(v) = {R[i] : i \in 1..Len(R)}
      BY <3>1, <1>9 DEF ToSet
    <3>4. ToSet(v) = {r \in L : r = e \/ Before(e, r)}
      BY <2>1, <3>1
    <3> HIDE DEF v, e
    <3>5. ToSet(v) = Between(L, v[1], e)
      BY <3>2, <3>3, <3>4 DEF Between
    <3>6. NextCursor(F) = <<>> => \A r \in L : ~Before(r, e)
      BY <1>4, <2>1, <3>1 DEF Before
    <3> QED
      BY <2>1, <3>1, <3>2, <3>5, <3>6 DEF e
  <2>4. CASE w # <<>> /\ R = <<>>
    <3>1. v = w /\ S = {}
      BY <1>7, <1>8, <2>4 DEF ToSet
    <3>2. NextCursor(F) = <<>> => \A r \in L : ~Before(r, b)
      BY <1>13, <2>4, <3>1
    <3> HIDE DEF v
    <3> QED
      BY <2>2, <2>4, <3>1, <3>2
  <2>5. CASE w # <<>> /\ R # <<>>
    <3>1. S = {r \in L : Before(r, b)} /\ e \in L /\ Before(e, b)
      BY <1>13, <2>1, <2>5
    <3>2. a \in L /\ b \in L /\ v[1] = a /\ ToSet(w) = Between(L, a, b)
      BY <2>2, <2>5
    <3>3. ToSet(R) = {r \in S : r = e \/ Before(e, r)}
      BY <2>1, <2>5
    <3>4. b = a \/ Before(b, a)
      <4>1. 1 \in 1..Len(w) /\ Len(w) \in 1..Len(w)
        BY <1>10, <1>11, <2>5
      <4> QED
        BY <4>1, <1>8, <1>10 DEF Descending
    <3>5. NextCursor(F) = <<>> => \A r \in S : r = e \/ Before(e, r)
      BY <2>1, <2>5
    <3> HIDE DEF e, a, b, v
    <3>6. ASSUME NEW r \in L
          PROVE  /\ r \in Between(L, a, e) <=> r \in Between(L, a, b) \/ r \in ToSet(R)
                 /\ NextCursor(F) = <<>> => ~Before(r, e)
      <4>1. /\ r[1] \in Int /\ r[2] \in Int /\ e[1] \in Int /\ e[2] \in Int
            /\ a[1] \in Int /\ a[2] \in Int /\ b[1] \in Int /\ b[2] \in Int
        BY <1>4, <3>1, <3>2
      <4>2. r = b \/ Before(r, b) \/ Before(b, r)
        BY <1>4, <3>2 DEF Ordered
      <4>3. r \in Between(L, a, e) <=> (r = a \/ Before(r, a)) /\ (r = e \/ Before(e, r))
        BY DEF Between
      <4>4. r \in Between(L, a, b) <=> (r = a \/ Before(r, a)) /\ (r = b \/ Before(b, r))
        BY DEF Between
      <4>5. r \in ToSet(R) <=> Before(r, b) /\ (r = e \/ Before(e, r))
        BY <3>1, <3>3
      <4>6. NextCursor(F) = <<>> => ~Before(r, e)
        <5>1. Before(r, e) => r \in S /\ ~(r = e \/ Before(e, r))
          BY <4>1, <3>1 DEF Before
        <5> QED
          BY <5>1, <3>5
      <4>7. r \in Between(L, a, e) <=> r \in Between(L, a, b) \/ r \in ToSet(R)
        BY <4>1, <4>2, <4>3, <4>4, <4>5, <3>1, <3>4 DEF Before
      <4> QED
        BY <4>6, <4>7
    <3>7. ToSet(v) = Between(L, a, e)
      <4>1. ToSet(R) \subseteq L /\ Between(L, a, e) \subseteq L /\ Between(L, a, b) \subseteq L
        BY <3>1, <3>3 DEF Between
      <4> QED
        BY <4>1, <3>2, <3>6, <1>16
    <3> QED
      BY <3>1, <3>2, <3>6, <3>7 DEF e
  <2> QED
    BY <2>3, <2>4, <2>5
<1>18. NothingMissed'
  <2>1. req'.pc = "done" <=> NextCursor(F) = <<>>
    BY <1>2
  <2>2. ASSUME req'.walk # <<>>, ~req'.moved
        PROVE  /\ v[1] \in L /\ v[Len(v)] \in L
               /\ ToSet(v) = Between(L, v[1], v[Len(v)])
               /\ NextCursor(F) = <<>> => \A r \in L : ~Before(r, v[Len(v)])
    BY <2>2, <1>2, <1>8, <1>17
  <2> HIDE DEF v
  <2>3. NothingMissed' <=>
           (req'.walk # <<>> /\ ~req'.moved =>
              /\ req'.walk[1] \in L /\ Last(req'.walk) \in L
              /\ ToSet(req'.walk) = Between(L, req'.walk[1], Last(req'.walk))
              /\ req'.pc = "done" => \A r \in L : ~Before(r, Last(req'.walk)))
    BY <1>3 DEF NothingMissed
  <2> QED
    BY <2>1, <2>2, <2>3, <1>2 DEF Last
<1>19. req'.walk \in Seq(ListRow) /\ req'.moved \in BOOLEAN /\ Descending(req'.walk)
  BY <1>2, <1>8, <1>10, <1>14
<1> QED
  BY <1>1, <1>2, <1>15, <1>18, <1>19 DEF WalkInv, Descending

\* The other statements belong to requests that walk no listing.
LEMMA NoWalk ==
    ASSUME req'.walk = <<>>, req'.moved \in BOOLEAN,
           req'.pc \notin {"page", "next_page"} \/ (req'.pc = "page" /\ req'.cursor = <<>>)
    PROVE  WalkInv'
<1>1. <<>> \in Seq(ListRow) /\ Descending(<<>>)
  BY DEF Descending
<1> QED
  BY <1>1 DEF WalkInv, CursorAtLast, NothingMissed, Descending

LEMMA RequestKeepsWalk ==
    ASSUME TableInv, ToldInv, ReqInv, WalkInv, Next, ~(Publish \/ Refresh)
    PROVE  WalkInv'
<1>1. DOMAIN req = Fields /\ StatementOfRoute
  BY DEF ReqInv
<1>2. CASE page
  BY <1>2, PageExtendsWalk
<1>3. CASE next_page
  <2>1. /\ req.pc = "next_page" /\ req'.pc = "page" /\ req'.walk = req.walk
        /\ req'.moved = req.moved /\ req'.cursor = req.cursor /\ req'.kind = req.kind
        /\ UNCHANGED <<canon, rows>>
    BY <1>1, <1>3 DEF next_page, Statement, Fields, tables, dbVars, txVars
  <2>2. CursorAtLast' /\ Descending(req'.walk)
    BY <2>1 DEF WalkInv, CursorAtLast, Last
  <2>3. ListRows(req.kind)' = ListRows(req.kind)
    BY <2>1 DEF ListRows, Selectors, SelectorsOf
  <2>4. NothingMissed'
    BY <2>1, <2>3 DEF WalkInv, NothingMissed
  <2> QED
    BY <2>1, <2>2, <2>4 DEF WalkInv, Descending
<1>4. CASE Answered
  <2>1. req'.walk = <<>> /\ req'.moved = FALSE /\ req'.pc = "idle"
    BY <1>4 DEF Answered, Idle
  <2> QED
    BY <2>1, NoWalk
<1>5. CASE chain_state
  <2>1. PICK kind \in Routes : \E id \in Asked(kind) :
           req' = [Idle EXCEPT
                !.kind = kind, !.id = id, !.meta = state.indexed,
                !.pc = SecondStatement(kind),
                !.view = IF kind \in SnapshotRoutes THEN Selectors ELSE {}]
    BY <1>5 DEF chain_state
  <2>2. req'.walk = <<>> /\ req'.moved = FALSE /\ req'.cursor = <<>>
    BY <2>1 DEF Idle
  <2>3. req'.pc # "next_page"
    <3>1. req'.pc = SecondStatement(kind)
      BY <2>1 DEF Idle
    <3> QED
      BY <3>1, ReadAssumption
         DEF SecondStatement, AllRoutes, BlockRoutes, Listings, SnapshotRoutes
  <2> QED
    BY <2>2, <2>3, NoWalk
<1>6. CASE \/ latest \/ find_block \/ keyed \/ auxpow \/ observations \/ find_tx \/ instance
           \/ balance \/ activity \/ search \/ network_history \/ rich_list \/ address_stats
           \/ pool
  <2>1. req.walk = <<>>
    BY <1>6 DEF WalkInv, latest, find_block, keyed, auxpow, observations, find_tx, instance,
                balance, activity, search, network_history, rich_list, address_stats, pool,
                Statement
  <2>2. /\ req'.walk = req.walk /\ req'.moved = req.moved
        /\ req'.pc \notin {"page", "next_page"}
    <3>1. CASE latest \/ keyed \/ observations \/ activity \/ search \/ network_history
      BY <1>1, <3>1 DEF latest, keyed, observations, activity, search, network_history, Fields
    <3>2. CASE find_block
      BY <1>1, <3>2 DEF find_block, Fields
    <3>3. CASE auxpow
      BY <1>1, <3>3 DEF auxpow, Fields
    <3>4. CASE find_tx
      <4> DEFINE found == {r \in canonical_tx(Selectors) : tx[r.key].txid = req.id}
      <4>1. \/ req' = [req EXCEPT !.pc = "not_found"]
            \/ \E l, d : req' = [req EXCEPT !.pc = "instance", !.list = l, !.row = d]
        BY <3>4 DEF find_tx
      <4> QED
        BY <1>1, <4>1 DEF Fields
    <3>5. CASE instance
      BY <1>1, <3>5 DEF instance, Fields
    <3>6. CASE balance
      <4>1. \/ req' = [req EXCEPT !.pc = "not_found"]
            \/ \E b : req' = [req EXCEPT !.pc = "activity", !.sums = b]
        BY <3>6 DEF balance
      <4> QED
        BY <1>1, <4>1 DEF Fields
    <3>7. CASE rich_list
      <4>1. \E b : req' = [req EXCEPT !.pc = "pool", !.sums = b]
        BY <3>7 DEF rich_list
      <4> QED
        BY <1>1, <4>1 DEF Fields
    <3>8. CASE address_stats
      <4>1. \E b, l : req' = [req EXCEPT !.pc = "pool", !.list = l, !.sums = b]
        BY <3>8 DEF address_stats
      <4> QED
        BY <1>1, <4>1 DEF Fields
    <3>9. CASE pool
      <4>1. \E p, c : req' = [req EXCEPT !.pool = p, !.pc = c] /\ c \in {"failed", "done"}
        BY <3>9 DEF pool
      <4> QED
        BY <1>1, <4>1 DEF Fields
    <3> QED
      BY <1>6, <3>1, <3>2, <3>3, <3>4, <3>5, <3>6, <3>7, <3>8, <3>9
  <2> QED
    BY <2>1, <2>2, NoWalk DEF WalkInv
<1> QED
  BY <1>2, <1>3, <1>4, <1>5, <1>6 DEF Next

\* Following the cursors never repeats a row or leaves the order, whatever the
\* indexer publishes between two pages, and misses none of the rows unless a
\* branch was displaced meanwhile.
THEOREM WalkExactHolds == Spec => []WalkExact
<1> DEFINE Inv == IInv /\ ToldInv /\ WalkInv
<1>1. Init => Inv
  <2> SUFFICES ASSUME Init PROVE Inv
    OBVIOUS
  <2>1. req.walk = <<>> /\ req.moved = FALSE /\ req.pc = "idle"
    BY DEF Init, Idle
  <2>2. WalkInv
    <3>1. <<>> \in Seq(ListRow) /\ Descending(<<>>)
      BY DEF Descending
    <3> QED
      BY <2>1, <3>1 DEF WalkInv, CursorAtLast, NothingMissed, Descending
  <2>3. ToldInv
    BY DEF Init, TxInit, ToldInv
  <2> QED
    BY <2>2, <2>3, ReadersInit
<1>2. Inv /\ [Next]_vars => Inv'
  <2> SUFFICES ASSUME Inv, [Next]_vars PROVE Inv'
    OBVIOUS
  <2>1. IInv' /\ ToldInv'
    BY ReadersNext, ToldStays
  <2>2. CASE Publish \/ Refresh
    BY <2>1, <2>2, IndexerKeepsWalk DEF IInv
  <2>3. CASE Next /\ ~(Publish \/ Refresh)
    BY <2>1, <2>3, RequestKeepsWalk DEF IInv
  <2>4. CASE UNCHANGED vars
    <3>1. req' = req /\ UNCHANGED <<canon, rows, tx, facts, told>>
      BY <2>4 DEF vars, tables, dbVars, txVars
    <3>2. Kept
      BY <3>1 DEF Kept
    <3> QED
      BY <2>1, <3>1, <3>2, WalkUndisturbed DEF IInv
  <2> QED
    BY <2>1, <2>2, <2>3, <2>4
<1>3. Inv => WalkExact
  <2> SUFFICES ASSUME Inv PROVE WalkExact
    OBVIOUS
  <2>1. ASSUME req.kind \in Listings, req.pc = "done", ~req.moved, req.walk # <<>>
        PROVE  ToSet(req.walk) =
                 {r \in ListRows(req.kind) : r = req.walk[1] \/ Before(r, req.walk[1])}
    <3> DEFINE L == ListRows(req.kind)
               a == req.walk[1]
               b == Last(req.walk)
    <3>1. /\ b \in L /\ ToSet(req.walk) = Between(L, a, b)
          /\ \A r \in L : ~Before(r, b)
      BY <2>1 DEF WalkInv, NothingMissed
    <3>2. Ordered(L)
      BY <2>1, ListRowsOrdered DEF IInv
    <3> HIDE DEF L, a, b
    <3>3. \A r \in L : r = b \/ Before(b, r)
      BY <3>1, <3>2 DEF Ordered
    <3>4. ToSet(req.walk) = {r \in L : r = a \/ Before(r, a)}
      BY <3>1, <3>3 DEF Between
    <3> QED
      BY <3>4 DEF L, a
  <2> QED
    BY <2>1 DEF WalkExact, WalkInv, Descending
<1> QED
  BY <1>1, <1>2, <1>3, PTL DEF Spec
==============================================================================
