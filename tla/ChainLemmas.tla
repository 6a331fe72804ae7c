----------------------------- MODULE ChainLemmas -----------------------------
(***************************************************************************)
(* What the transactions of the database do to a chain, for any tree of    *)
(* blocks: the common ground of the proofs about the indexer, which writes *)
(* the chain, and about the read API, which answers from it.               *)
(***************************************************************************)
EXTENDS ExplorerDb, TLAPS

\* The tip the code reads from the selectors is the one in chain_state.
LEMMA TipOfSelectors ==
    ASSUME DbTypeOK, IsTip(Selected, state.indexed)
    PROVE  canonical_tip = state.indexed
<1> DEFINE H == {h \in Heights : canon[h] # NoRow}
           t == state.indexed
<1>1. \A h \in Heights : canon[h] # NoRow <=> canon[h].hash # NoBlock
  BY TreeAssumption DEF DbTypeOK, Row, NoRow
<1>2. t \in Tip /\ H = {h \in Heights : h <= t.height}
  BY <1>1 DEF IsTip, ReachesTo, Selected
<1>3. CASE t.height = -1
  <2>1. H = {}
    BY <1>2, <1>3, TreeAssumption DEF Heights
  <2>2. t = NoTip
    BY <1>2, <1>3 DEF IsTip, Tip, NoTip
  <2> QED
    BY <2>1, <2>2 DEF canonical_tip
<1>4. CASE t.height # -1
  <2>1. t.height \in Heights /\ t.height \in H /\ \A k \in H : k <= t.height
    BY <1>2, <1>4, TreeAssumption DEF Heights, Tip
  <2> DEFINE top == CHOOSE h \in H : \A k \in H : k <= h
  <2>2. top \in H /\ \A k \in H : k <= top
    BY <2>1
  <2>3. top = t.height
    BY <2>1, <2>2, TreeAssumption DEF Heights
  <2>4. canon[t.height].hash = t.hash
    BY <1>4, <2>1 DEF IsTip, Selected
  <2>5. canonical_tip = [height |-> t.height, hash |-> t.hash]
    BY <2>1, <2>3, <2>4 DEF canonical_tip
  <2> QED
    BY <1>2, <2>5 DEF Tip
<1> QED
  BY <1>3, <1>4

\* Appending the child of the tip to a chain gives a chain.
LEMMA AppendKeepsChain ==
    ASSUME NEW c \in [Heights -> Block \cup {NoBlock}], NEW t \in Tip,
           c[0] \in {Genesis, NoBlock}, Linked(c), IsTip(c, t),
           NEW b \in Block, NEW h \in Heights, h = t.height + 1,
           Parent[b] = t.hash, h = 0 => b = Genesis
    PROVE  LET d == [c EXCEPT ![h] = b]
               u == [height |-> h, hash |-> b]
           IN  /\ d[0] \in {Genesis, NoBlock}
               /\ Linked(d)
               /\ IsTip(d, u)
<1> DEFINE d == [c EXCEPT ![h] = b]
           u == [height |-> h, hash |-> b]
<1>1. h \in Nat /\ t.height \in Int /\ MaxHeight \in Nat /\ b # NoBlock
  BY TreeAssumption DEF Heights, Tip
<1>2. /\ d[h] = b /\ \A k \in Heights : k # h => d[k] = c[k]
      /\ \A k \in Heights : c[k] # NoBlock <=> k <= t.height
  BY DEF IsTip, ReachesTo
<1>3. d[0] \in {Genesis, NoBlock}
  BY <1>1, <1>2, TreeAssumption DEF Heights
<1>4. IsTip(d, u)
  <2>1. u \in Tip /\ u.height = h /\ u.hash = b
    BY <1>1 DEF Tip, Heights
  <2>2. ReachesTo(d, h)
    BY <1>1, <1>2 DEF ReachesTo, Heights
  <2> HIDE DEF d, u
  <2> QED
    BY <1>1, <1>2, <2>1, <2>2 DEF IsTip
<1>5. Linked(d)
  <2>1. d[0] # NoBlock => Parent[d[0]] = NoBlock
    BY <1>3, TreeAssumption
  <2>2. ASSUME NEW k \in Heights \ {0}, d[k] # NoBlock
        PROVE  d[k-1] # NoBlock /\ Parent[d[k]] = d[k-1]
    <3>1. k \in Heights /\ k - 1 \in Heights /\ k # 0 /\ k \in Nat
      BY <1>1 DEF Heights
    <3>2. CASE k = h
      <4>1. t.height # -1 /\ k - 1 = t.height /\ k - 1 # h
        BY <1>1, <3>1, <3>2
      <4>2. c[t.height] = t.hash /\ t.hash # NoBlock
        BY <4>1 DEF IsTip
      <4>3. d[k-1] = t.hash
        BY <1>2, <3>1, <4>1, <4>2
      <4> QED
        BY <1>2, <3>2, <4>2, <4>3
    <3>3. CASE k # h
      <4>1. d[k] = c[k] /\ c[k] # NoBlock
        BY <1>2, <2>2, <3>1, <3>3
      <4>2. k - 1 # h
        BY <1>1, <1>2, <3>1, <4>1
      <4> QED
        BY <1>2, <3>1, <4>1, <4>2 DEF Linked
    <3> QED
      BY <3>2, <3>3
  <2> QED
    BY <2>1, <2>2 DEF Linked
<1> QED
  BY <1>3, <1>4, <1>5

\* Exchanging what lies above a block of a chain for a branch that continues
\* from that block gives a chain, whose tip is the end of the branch.
LEMMA ReplaceKeepsChain ==
    ASSUME NEW c \in [Heights -> Block \cup {NoBlock}], NEW t \in Tip,
           c[0] \in {Genesis, NoBlock}, Linked(c), IsTip(c, t),
           NEW a \in 0..t.height, NEW n \in Heights, a <= n,
           NEW s \in [Heights -> Block \cup {NoBlock}],
           \A h \in a+1..n :
              s[h] # NoBlock /\ Parent[s[h]] = IF h = a + 1 THEN c[a] ELSE s[h-1],
           NEW d \in [Heights -> Block \cup {NoBlock}],
           \A h \in Heights :
              d[h] = IF h <= a THEN c[h] ELSE IF h \in a+1..n THEN s[h] ELSE NoBlock,
           NEW u \in Tip, u.height = n, u.hash = d[n]
    PROVE  d[0] \in {Genesis, NoBlock} /\ Linked(d) /\ IsTip(d, u)
<1>1. /\ a \in Nat /\ n \in Nat /\ MaxHeight \in Nat /\ a \in Heights
      /\ t.height \in Int /\ t.height <= MaxHeight /\ a <= t.height /\ n <= MaxHeight
  BY TreeAssumption DEF Heights, Tip
<1>2. \A h \in Heights : c[h] # NoBlock <=> h <= t.height
  BY DEF IsTip, ReachesTo
<1>3. \A h \in Heights : h <= a => d[h] = c[h] /\ d[h] # NoBlock
  BY <1>1, <1>2 DEF Heights
<1>4. \A h \in Heights : h > a /\ h <= n => h \in a+1..n /\ d[h] = s[h] /\ d[h] # NoBlock
  BY <1>1 DEF Heights
<1>5. \A h \in Heights : h > n => d[h] = NoBlock
  BY <1>1 DEF Heights
<1>6. ReachesTo(d, n)
  BY <1>1, <1>3, <1>4, <1>5 DEF ReachesTo, Heights
<1>7. 0 \in Heights /\ 0 <= a
  BY <1>1 DEF Heights
<1>8. d[0] \in {Genesis, NoBlock}
  BY <1>3, <1>7
<1>9. Linked(d)
  <2>1. d[0] # NoBlock => Parent[d[0]] = NoBlock
    BY <1>8, TreeAssumption
  <2>2. ASSUME NEW k \in Heights \ {0}, d[k] # NoBlock
        PROVE  d[k-1] # NoBlock /\ Parent[d[k]] = d[k-1]
    <3>1. k \in Heights /\ k - 1 \in Heights /\ k \in Nat /\ k # 0 /\ k <= n
      BY <1>1, <1>5, <2>2 DEF Heights
    <3>2. CASE k <= a
      <4>1. k - 1 <= a /\ d[k] = c[k] /\ d[k-1] = c[k-1]
        BY <1>1, <1>3, <3>1, <3>2
      <4> QED
        BY <2>2, <4>1 DEF Linked
    <3>3. CASE k = a + 1
      <4>1. k - 1 = a /\ k > a /\ d[a] = c[a] /\ d[a] # NoBlock
        BY <1>1, <1>3, <3>3
      <4>2. d[k] = s[k] /\ k \in a+1..n
        BY <1>4, <3>1, <4>1
      <4>3. Parent[s[k]] = c[a]
        BY <3>3, <4>2
      <4> QED
        BY <4>1, <4>2, <4>3
    <3>4. CASE k > a + 1
      <4>1. k - 1 > a /\ k > a /\ k - 1 <= n
        BY <1>1, <3>1, <3>4
      <4>2. /\ d[k] = s[k] /\ d[k-1] = s[k-1] /\ d[k-1] # NoBlock /\ k \in a+1..n
        BY <1>4, <3>1, <4>1
      <4>3. Parent[s[k]] = s[k-1]
        BY <1>1, <3>1, <3>4, <4>2
      <4> QED
        BY <4>2, <4>3
    <3> QED
      BY <1>1, <3>1, <3>2, <3>3, <3>4
  <2> QED
    BY <2>1, <2>2 DEF Linked
<1>10. IsTip(d, u)
  <2>1. d[n] # NoBlock
    BY <1>1, <1>6 DEF ReachesTo
  <2> QED
    BY <1>1, <1>6, <2>1 DEF IsTip
<1> QED
  BY <1>8, <1>9, <1>10
==============================================================================
