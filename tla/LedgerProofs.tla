----------------------------- MODULE LedgerProofs -----------------------------
(***************************************************************************)
(* Proofs about the transparent ledger: what the queries compute from the  *)
(* stored outputs and inputs is what replaying the told transactions gives.*)
(***************************************************************************)
EXTENDS ReadApiProofs, SumLemmas

------------------------------------------------------------------------------
(***************************************************************************)
(* The chain in a snapshot, and the transactions told of it.               *)
(***************************************************************************)
\* The selectors of one chain from the genesis block, of stored blocks.
OneChain(V) ==
    /\ \A s \in V : s.height \in Heights /\ s.hash \in Block /\ <<s.hash, s.wit>> \in facts
    /\ \A s, t \in V : s.height = t.height => s = t
    /\ \A s \in V : s.height = 0 => s.hash = Genesis
    /\ \A s \in V : s.height # 0 => \E t \in V : t.height = s.height - 1 /\ t.hash = Parent[s.hash]

LEMMA SelectorsAreOneChain ==
    ASSUME TableInv
    PROVE  OneChain(Selectors)
<1>1. \A s \in Selectors : /\ s.height \in Heights /\ canon[s.height] # NoRow
                           /\ s = [height |-> s.height, hash |-> canon[s.height].hash,
                                   wit |-> canon[s.height].wit]
  BY DEF Selectors, SelectorsOf
<1>2. \A h \in Heights : canon[h] # NoRow =>
         /\ [height |-> h, hash |-> canon[h].hash, wit |-> canon[h].wit] \in Selectors
         /\ canon[h].hash \in Block /\ <<canon[h].hash, canon[h].wit>> \in facts
  BY DEF Selectors, SelectorsOf, TableInv, ChainInv, DbTypeOK, Row
<1>3. \A s \in Selectors : s.hash \in Block /\ <<s.hash, s.wit>> \in facts
  BY <1>1, <1>2
<1>4. \A s, t \in Selectors : s.height = t.height => s = t
  BY <1>1
<1>5. \A h \in Heights : canon[h] # NoRow <=> Selected[h] # NoBlock
  BY TreeAssumption DEF TableInv, ChainInv, DbTypeOK, Selected, Row, NoRow
<1>6. \A s \in Selectors : s.height = 0 => s.hash = Genesis
  <2>1. 0 \in Heights
    BY TreeAssumption DEF Heights
  <2>2. canon[0] # NoRow => canon[0].hash = Genesis
    BY <1>5, <2>1 DEF TableInv, ChainInv, Selected
  <2> QED
    BY <1>1, <2>2
<1>7. ASSUME NEW s \in Selectors, s.height # 0
      PROVE  \E t \in Selectors : t.height = s.height - 1 /\ t.hash = Parent[s.hash]
  <2> DEFINE h == s.height
             k == h - 1
  <2>1. h \in Heights \ {0} /\ k \in Heights
    BY <1>1, <1>7, TreeAssumption DEF Heights
  <2>2. Selected[h] # NoBlock
    BY <1>1, <1>5, <2>1
  <2>3. Selected[k] # NoBlock /\ Parent[Selected[h]] = Selected[k]
    BY <2>1, <2>2 DEF TableInv, ChainInv, Linked
  <2>4. Selected[h] = s.hash /\ Selected[k] = canon[k].hash
    BY <1>1, <2>1 DEF Selected
  <2>5. canon[k] # NoRow
    BY <1>5, <2>1, <2>3
  <2> DEFINE t == [height |-> k, hash |-> canon[k].hash, wit |-> canon[k].wit]
  <2>6. t \in Selectors
    BY <1>2, <2>1, <2>5
  <2>7. t.height = s.height - 1 /\ t.hash = Parent[s.hash]
    BY <2>3, <2>4
  <2> QED
    BY <2>6, <2>7
<1> QED
  BY <1>1, <1>3, <1>4, <1>6, <1>7 DEF OneChain

LEMMA OneChainShape ==
    ASSUME NEW V, OneChain(V), NEW s \in V
    PROVE  s.height \in Nat /\ s.hash \in Block
<1>1. s.height \in Heights /\ s.hash \in Block
  BY DEF OneChain
<1> QED
  BY <1>1, TreeAssumption DEF Heights

LEMMA OneChainKept ==
    ASSUME NEW V, OneChain(V), Kept
    PROVE  OneChain(V)'
BY DEF OneChain, Kept

\* A chain has a block at every height up to its highest one.
LEMMA OneChainFull ==
    ASSUME NEW V, OneChain(V), NEW top \in V
    PROVE  \A h \in 0..top.height : \E s \in V : s.height = h
<1>0. top.height \in Nat
  <2>1. top.height \in Heights
    BY DEF OneChain
  <2> QED
    BY <2>1, TreeAssumption DEF Heights
<1> DEFINE P == {n \in Nat : n <= top.height => \E s \in V : s.height = top.height - n}
<1>1. 0 \in P
  BY <1>0
<1>2. ASSUME NEW n \in P
      PROVE  n + 1 \in P
  <2> SUFFICES ASSUME n + 1 <= top.height
               PROVE  \E s \in V : s.height = top.height - (n + 1)
    OBVIOUS
  <2>1. PICK s \in V : s.height = top.height - n
    BY <1>0
  <2>2. s.height # 0
    BY <1>0, <2>1
  <2>3. PICK t \in V : t.height = s.height - 1
    BY <2>2 DEF OneChain
  <2>4. t.height = top.height - (n + 1)
    BY <1>0, <2>1, <2>3
  <2> QED
    BY <2>4
<1>3. P = Nat
  <2> HIDE DEF P
  <2>1. P \in SUBSET Nat
    BY DEF P
  <2> QED
    BY <1>1, <1>2, <2>1, Induction
<1>4. ASSUME NEW h \in 0..top.height
      PROVE  \E s \in V : s.height = h
  <2>1. top.height - h \in P /\ top.height - h <= top.height
    BY <1>0, <1>3
  <2>2. top.height - (top.height - h) = h
    BY <1>0
  <2> QED
    BY <2>1, <2>2
<1> QED
  BY <1>4

LEMMA OneChainFinite ==
    ASSUME NEW V, OneChain(V)
    PROVE  IsFiniteSet(V)
<1> DEFINE f == [s \in V |-> s.height]
<1>1. f \in Injection(V, Heights)
  BY DEF OneChain, Injection, IsInjective
<1>2. IsFiniteSet(Heights)
  BY FS_Interval, TreeAssumption DEF Heights
<1> HIDE DEF f
<1> QED
  BY <1>1, <1>2, FS_Injection

\* The transactions told with the blocks of a chain.
TxsOf(V) ==
    UNION {{[height |-> s.height, pos |-> n, t |-> told[<<s.hash, s.wit>>][n]] :
               n \in DOMAIN told[<<s.hash, s.wit>>]} : s \in V}

Outputs == Seq([value : Nat, address : Address \cup {NoAddress}])

\* What is assumed of the transactions of one chain.
GoodLedger(E) ==
    /\ IsFiniteSet(E)
    /\ \A e \in E : e.height \in Nat /\ e.pos \in Nat /\ e.t.outs \in Outputs
    /\ \A e, f \in E : Place(e) = Place(f) => e = f
    /\ OneLedger(E)

LEMMA TxsOfMember ==
    ASSUME NEW V, NEW e
    PROVE  e \in TxsOf(V) <=>
              \E s \in V : \E n \in DOMAIN told[<<s.hash, s.wit>>] :
                 e = [height |-> s.height, pos |-> n, t |-> told[<<s.hash, s.wit>>][n]]
BY DEF TxsOf

LEMMA TxsOfKept ==
    ASSUME NEW V, OneChain(V), Kept
    PROVE  TxsOf(V)' = TxsOf(V)
<1> DEFINE at(s) == DOMAIN told[<<s.hash, s.wit>>]
           atN(s) == DOMAIN told'[<<s.hash, s.wit>>]
           entry(s, n) == [height |-> s.height, pos |-> n, t |-> told[<<s.hash, s.wit>>][n]]
           entryN(s, n) == [height |-> s.height, pos |-> n, t |-> told'[<<s.hash, s.wit>>][n]]
<1>1. \A s \in V : atN(s) = at(s) /\ \A n \in at(s) : entryN(s, n) = entry(s, n)
  BY DEF OneChain, Kept
<1>2. /\ \A e : e \in TxsOf(V)' <=> \E s \in V : \E n \in atN(s) : e = entryN(s, n)
      /\ \A e : e \in TxsOf(V) <=> \E s \in V : \E n \in at(s) : e = entry(s, n)
  BY DEF TxsOf
<1> HIDE DEF at, atN, entry, entryN
<1>3. \A e : e \in TxsOf(V)' <=> e \in TxsOf(V)
  BY <1>1, <1>2
<1> QED
  BY <1>3

\* The transactions told with the blocks of a chain are a ledger as the node's
\* consensus makes it.
LEMMA LedgerOfChain ==
    ASSUME TableInv, ToldInv, NEW V, OneChain(V), V # {}
    PROVE  OneLedger(TxsOf(V))
<1>1. PICK top \in V : \A s \in V : s.height <= top.height
  <2> DEFINE S == {s.height : s \in V}
  <2>1. S \in SUBSET Heights /\ S # {}
    BY DEF OneChain
  <2>2. \E x \in S : \A y \in S : y <= x
    <3> HIDE DEF S
    <3> QED
      BY <2>1, HighestExists
  <2> QED
    BY <2>2
<1> DEFINE n == top.height
           at(h) == CHOOSE s \in V : s.height = h
           chain == [h \in 0..n |-> at(h).hash]
           c == [h \in 0..n |-> told[<<at(h).hash, at(h).wit>>]]
           all == UNION {Contents[chain[h]] : h \in 0..n}
           txs == UNION {{[height |-> h, pos |-> i, t |-> c[h][i]] : i \in DOMAIN c[h]} : h \in 0..n}
<1>2. n \in Heights /\ n \in Nat /\ \A h \in 0..n : h \in Nat
  <2>1. n \in Heights
    BY DEF OneChain
  <2> QED
    BY <2>1, TreeAssumption DEF Heights
<1>3. \A h \in 0..n : at(h) \in V /\ at(h).height = h
  BY OneChainFull
<1>4. \A s \in V : s.height \in 0..n /\ at(s.height) = s
  <2> TAKE s \in V
  <2>1. s.height \in 0..n
    <3>1. s.height \in Heights /\ s.height <= n
      BY <1>1 DEF OneChain
    <3> QED
      BY <1>2, <3>1, TreeAssumption DEF Heights
  <2>2. at(s.height) \in V /\ at(s.height).height = s.height
    BY <1>3, <2>1
  <2> HIDE DEF at
  <2> QED
    BY <2>1, <2>2 DEF OneChain
<1> HIDE DEF at
<1>5. chain \in [0..n -> Block] /\ chain[0] = Genesis
  <2>1. 0 \in 0..n
    BY <1>2
  <2> QED
    BY <1>3, <2>1 DEF OneChain
<1>6. \A h \in 1..n : Parent[chain[h]] = chain[h - 1]
  <2> TAKE h \in 1..n
  <2>1. h \in 0..n /\ h - 1 \in 0..n /\ h # 0
    BY <1>2
  <2>2. PICK t \in V : t.height = h - 1 /\ t.hash = Parent[at(h).hash]
    BY <1>3, <2>1 DEF OneChain
  <2>3. at(h - 1) = t
    BY <1>4, <2>2
  <2> QED
    BY <2>1, <2>2, <2>3
<1>7. \A h \in 0..n : c[h] \in Contents[chain[h]]
  <2> TAKE h \in 0..n
  <2> DEFINE p == <<at(h).hash, at(h).wit>>
  <2>1. p \in DOMAIN told
    BY <1>3 DEF OneChain, TableInv, StoreInv
  <2>2. told[p] \in Contents[p[1]]
    BY <2>1 DEF ToldInv
  <2> QED
    BY <2>2
<1>8. c \in [0..n -> all]
  <2>1. \A h \in 0..n : c[h] \in all
    BY <1>7
  <2>2. c = [h \in 0..n |-> c[h]]
    OBVIOUS
  <2> HIDE DEF c, all
  <2> QED
    BY <2>1, <2>2
<1>9. TxsOf(V) = txs
  <2> DEFINE told_(s) == told[<<s.hash, s.wit>>]
             entry(h, list, i) == [height |-> h, pos |-> i, t |-> list[i]]
  <2>1. \A e : e \in TxsOf(V) <=>
           \E s \in V : \E i \in DOMAIN told_(s) : e = entry(s.height, told_(s), i)
    BY DEF TxsOf
  <2>2. \A e : e \in txs <=> \E h \in 0..n : \E i \in DOMAIN c[h] : e = entry(h, c[h], i)
    <3> HIDE DEF c, n
    <3> QED
      OBVIOUS
  <2>3. \A h \in 0..n : c[h] = told_(at(h))
    OBVIOUS
  <2> HIDE DEF told_, entry, c, txs
  <2>4. \A e : e \in TxsOf(V) <=> e \in txs
    BY <1>3, <1>4, <2>1, <2>2, <2>3
  <2> HIDE DEF n
  <2> QED
    BY <2>4
<1>10. OneLedger(txs)
  <2> HIDE DEF chain, c
  <2> QED
    BY <1>2, <1>5, <1>6, <1>7, <1>8, ConsensusAssumption
<1> QED
  BY <1>9, <1>10

LEMMA GoodLedgerOfChain ==
    ASSUME TableInv, ToldInv, NEW V, OneChain(V)
    PROVE  GoodLedger(TxsOf(V))
<1> DEFINE E == TxsOf(V)
           list(s) == told[<<s.hash, s.wit>>]
           entry(s, i) == [height |-> s.height, pos |-> i, t |-> list(s)[i]]
           of(s) == {entry(s, i) : i \in DOMAIN list(s)}
<1>1. ASSUME NEW s \in V
      PROVE  /\ s.height \in Nat /\ DOMAIN list(s) = 1..Len(list(s)) /\ Len(list(s)) \in Nat
             /\ \A i \in DOMAIN list(s) : list(s)[i].outs \in Outputs
  <2>1. <<s.hash, s.wit>> \in facts /\ s.height \in Heights
    BY DEF OneChain
  <2>2. s.height \in Nat
    BY <2>1, TreeAssumption DEF Heights
  <2> QED
    BY <2>1, <2>2, StoredLists DEF Outputs
<1>2. \A e : e \in E <=> \E s \in V : \E i \in DOMAIN list(s) : e = entry(s, i)
  BY DEF TxsOf
<1>3. \A s, i : entry(s, i).height = s.height /\ entry(s, i).pos = i /\ entry(s, i).t = list(s)[i]
  OBVIOUS
<1>4. IsFiniteSet(E)
  <2>1. ASSUME NEW s \in V
        PROVE  IsFiniteSet(of(s))
    <3> DEFINE b == [i \in DOMAIN list(s) |-> entry(s, i)]
    <3>1. IsFiniteSet(DOMAIN list(s))
      <4>1. 1 \in Int /\ Len(list(s)) \in Int
        BY <1>1
      <4> QED
        BY <1>1, <4>1, FS_Interval
    <3>2. of(s) = {b[i] : i \in DOMAIN list(s)}
      OBVIOUS
    <3> HIDE DEF b, of, list
    <3> QED
      BY <3>1, <3>2, ImageFinite
  <2> DEFINE b == [s \in V |-> of(s)]
             B == {b[s] : s \in V}
  <2>2. IsFiniteSet(B)
    <3> HIDE DEF b
    <3> QED
      BY OneChainFinite, ImageFinite
  <2>3. \A T \in B : IsFiniteSet(T)
    BY <2>1
  <2>4. E = UNION B
    BY DEF TxsOf
  <2> HIDE DEF B, E
  <2> QED
    BY <2>2, <2>3, <2>4, FS_UNION
<1> HIDE DEF entry, E
<1>5. \A e \in E : e.height \in Nat /\ e.pos \in Nat /\ e.t.outs \in Outputs
  <2> TAKE e \in E
  <2>1. PICK s \in V : \E i \in DOMAIN list(s) : e = entry(s, i)
    BY <1>2
  <2>2. PICK i \in DOMAIN list(s) : e = entry(s, i)
    BY <2>1
  <2>3. i \in Nat
    BY <1>1
  <2> HIDE DEF list
  <2> QED
    BY <1>1, <1>3, <2>2, <2>3
<1>6. \A e, f \in E : Place(e) = Place(f) => e = f
  <2> SUFFICES ASSUME NEW e \in E, NEW f \in E, Place(e) = Place(f) PROVE e = f
    OBVIOUS
  <2>1. e.height = f.height /\ e.pos = f.pos
    BY DEF Place
  <2>2. PICK s \in V : \E i \in DOMAIN list(s) : e = entry(s, i)
    BY <1>2
  <2>3. PICK t \in V : \E j \in DOMAIN list(t) : f = entry(t, j)
    BY <1>2
  <2>4. s = t
    BY <1>3, <2>1, <2>2, <2>3 DEF OneChain
  <2> QED
    BY <1>3, <2>1, <2>2, <2>3, <2>4
<1>7. OneLedger(E)
  <2>1. CASE V # {}
    BY <2>1, LedgerOfChain DEF E
  <2>2. CASE V = {}
    <3>1. E = {}
      BY <1>2, <2>2
    <3> QED
      BY <3>1 DEF OneLedger
  <2> QED
    BY <2>1, <2>2
<1> QED
  BY <1>4, <1>5, <1>6, <1>7 DEF GoodLedger, E

------------------------------------------------------------------------------
(***************************************************************************)
(* The outputs of a ledger.                                                *)
(***************************************************************************)
Outs(E) == UNION {Created(e) : e \in E}

\* The outputs no transaction of the ledger spends.
Unspent(E) == {o \in Outs(E) : \A e \in E : Prevout(o) \notin e.t.spends}

LEMMA LedgerSubset ==
    ASSUME NEW E, GoodLedger(E), NEW F \in SUBSET E
    PROVE  GoodLedger(F)
BY FS_Subset DEF GoodLedger, OneLedger

LEMMA CreatedOf ==
    ASSUME NEW e, NEW o
    PROVE  o \in Created(e) <=>
              \E n \in DOMAIN e.t.outs :
                 o = [height |-> e.height, pos |-> e.pos, txid |-> e.t.txid,
                      coinbase |-> e.t.coinbase, index |-> n,
                      value |-> e.t.outs[n].value, address |-> e.t.outs[n].address]
BY DEF Created

LEMMA CreatedShape ==
    ASSUME NEW E, GoodLedger(E), NEW e \in E, NEW o \in Created(e)
    PROVE  /\ o.height = e.height /\ o.pos = e.pos /\ Place(o) = Place(e)
           /\ o.index \in DOMAIN e.t.outs /\ Prevout(o) = <<e.t.txid, o.index>>
           /\ o.coinbase = e.t.coinbase
           /\ o.value \in Nat /\ o.address \in Address \cup {NoAddress}
<1>1. PICK n \in DOMAIN e.t.outs :
         o = [height |-> e.height, pos |-> e.pos, txid |-> e.t.txid,
              coinbase |-> e.t.coinbase, index |-> n,
              value |-> e.t.outs[n].value, address |-> e.t.outs[n].address]
  BY CreatedOf
<1>2. e.t.outs \in Outputs
  BY DEF GoodLedger
<1>3. e.t.outs[n] \in [value : Nat, address : Address \cup {NoAddress}]
  <2> DEFINE l == e.t.outs
  <2>1. l \in Outputs /\ n \in DOMAIN l
    BY <1>2
  <2> DEFINE S == [value : Nat, address : Address \cup {NoAddress}]
  <2>2. l[n] \in S
    <3>1. l \in Seq(S)
      BY <2>1 DEF Outputs
    <3> HIDE DEF S, l
    <3> QED
      BY <2>1, <3>1
  <2> HIDE DEF l
  <2> QED
    BY <2>2 DEF l
<1> QED
  BY <1>1, <1>3 DEF Place, Prevout

LEMMA OutsShape ==
    ASSUME NEW E, GoodLedger(E), NEW o \in Outs(E)
    PROVE  /\ o.value \in Nat /\ o.address \in Address \cup {NoAddress}
           /\ \E e \in E : o \in Created(e) /\ Place(o) = Place(e)
<1>1. PICK e \in E : o \in Created(e)
  BY DEF Outs
<1> QED
  BY <1>1, CreatedShape

\* An output is named by its transaction and its index.
LEMMA PrevoutsDiffer ==
    ASSUME NEW E, GoodLedger(E), NEW o \in Outs(E), NEW q \in Outs(E), Prevout(o) = Prevout(q)
    PROVE  o = q
<1>1. PICK e \in E : o \in Created(e)
  BY DEF Outs
<1>2. PICK f \in E : q \in Created(f)
  BY DEF Outs
<1>3. Prevout(o) = <<e.t.txid, o.index>> /\ Prevout(q) = <<f.t.txid, q.index>>
  BY <1>1, <1>2, CreatedShape
<1>4. e.t.txid = f.t.txid /\ o.index = q.index
  <2>1. <<e.t.txid, o.index>> = <<f.t.txid, q.index>>
    BY <1>3
  <2> QED
    BY <2>1
<1>5. e = f
  BY <1>4 DEF GoodLedger, OneLedger
<1> QED
  BY <1>1, <1>2, <1>4, <1>5, CreatedOf

LEMMA SpentLater ==
    ASSUME NEW E, GoodLedger(E), NEW f \in E, NEW o \in Created(f),
           NEW e \in E, Prevout(o) \in e.t.spends
    PROVE  Before(Place(f), Place(e))
<1>1. o.index \in DOMAIN f.t.outs /\ Prevout(o) = <<f.t.txid, o.index>>
  BY CreatedShape
<1> QED
  BY <1>1 DEF GoodLedger, OneLedger

LEMMA OutsFinite ==
    ASSUME NEW E, GoodLedger(E)
    PROVE  IsFiniteSet(Outs(E))
<1>1. ASSUME NEW e \in E
      PROVE  IsFiniteSet(Created(e))
  <2> DEFINE l == e.t.outs
             b == [n \in DOMAIN l |->
                     [height |-> e.height, pos |-> e.pos, txid |-> e.t.txid,
                      coinbase |-> e.t.coinbase, index |-> n,
                      value |-> l[n].value, address |-> l[n].address]]
  <2>1. l \in Outputs
    BY DEF GoodLedger
  <2>2. IsFiniteSet(DOMAIN l)
    <3> HIDE DEF l
    <3>1. DOMAIN l = 1..Len(l) /\ Len(l) \in Nat
      BY <2>1 DEF Outputs
    <3>2. 1 \in Int /\ Len(l) \in Int
      BY <3>1
    <3> QED
      BY <3>1, <3>2, FS_Interval
  <2>3. Created(e) = {b[n] : n \in DOMAIN l}
    BY DEF Created
  <2> HIDE DEF b, l
  <2> QED
    BY <2>2, <2>3, ImageFinite
<1> DEFINE b == [e \in E |-> Created(e)]
           B == {b[e] : e \in E}
<1>2. IsFiniteSet(B)
  <2>1. IsFiniteSet(E)
    BY DEF GoodLedger
  <2> HIDE DEF b
  <2> QED
    BY <2>1, ImageFinite
<1>3. Outs(E) = UNION B /\ \A T \in B : IsFiniteSet(T)
  BY <1>1 DEF Outs
<1> HIDE DEF B
<1> QED
  BY <1>2, <1>3, FS_UNION

\* Sums of amounts.
LEMMA ValuesSum ==
    ASSUME NEW S, IsFiniteSet(S), \A o \in S : o.value \in Nat
    PROVE  SumValues(S) \in Nat
<1> DEFINE f == [o \in S |-> o.value]
<1>1. \A o \in S : f[o] \in Nat
  OBVIOUS
<1>2. SumValues(S) = SumFunctionOnSet(f, S)
  BY DEF SumValues, SumFunction
<1> HIDE DEF f
<1> QED
  BY <1>1, <1>2, SumNat

LEMMA ValuesOfSubset ==
    ASSUME NEW S, IsFiniteSet(S), \A o \in S : o.value \in Nat, NEW T \in SUBSET S
    PROVE  SumValues(T) = SumFunctionOnSet([o \in S |-> o.value], T)
<1> DEFINE f == [o \in S |-> o.value]
           g == [o \in T |-> o.value]
<1>1. \A o \in T : f[o] \in Int /\ g[o] = f[o]
  OBVIOUS
<1>2. SumValues(T) = SumFunctionOnSet(g, T)
  BY DEF SumValues, SumFunction
<1>3. IsFiniteSet(T)
  BY FS_Subset
<1> HIDE DEF f, g
<1>4. SumFunctionOnSet(g, T) = SumFunctionOnSet(f, T)
  BY <1>1, <1>3, SumAgree
<1> QED
  BY <1>2, <1>4 DEF f

LEMMA ValuesUnion ==
    ASSUME NEW S, IsFiniteSet(S), \A o \in S : o.value \in Nat,
           NEW A \in SUBSET S, NEW B \in SUBSET S, A \cap B = {}, NEW C, C = A \cup B
    PROVE  SumValues(C) = SumValues(A) + SumValues(B)
<1> DEFINE f == [o \in S |-> o.value]
<1>1. \A o \in S : f[o] \in Int
  OBVIOUS
<1>2. C \in SUBSET S
  OBVIOUS
<1>3. /\ SumValues(A) = SumFunctionOnSet(f, A) /\ SumValues(B) = SumFunctionOnSet(f, B)
      /\ SumValues(C) = SumFunctionOnSet(f, C)
  BY <1>2, ValuesOfSubset
<1> HIDE DEF f
<1> QED
  BY <1>1, <1>3, SumUnion

------------------------------------------------------------------------------
(***************************************************************************)
(* Replaying a ledger.                                                     *)
(***************************************************************************)
\* es lists the transactions of E in the order of their places.
Lists(es, E) ==
    /\ Cardinality(E) \in Nat /\ Len(es) = Cardinality(E)
    /\ DOMAIN es = 1..Cardinality(E)
    /\ \A n \in 1..Cardinality(E) : es[n] \in E
    /\ \A e \in E : \E n \in 1..Cardinality(E) : es[n] = e
    /\ \A i, j \in 1..Cardinality(E) : i < j <=> Before(Place(es[i]), Place(es[j]))

LEMMA PlacesOrder ==
    ASSUME NEW E, GoodLedger(E), NEW R, R = {p \in E \X E : Before(Place(p[1]), Place(p[2]))}
    PROVE  /\ TotallyOrders(R, E)
           /\ \A e, f \in E : <<e, f>> \in R <=> Before(Place(e), Place(f))
<1>1. \A e, f \in E : <<e, f>> \in R <=> Before(Place(e), Place(f))
  OBVIOUS
<1>2. \A e, f \in E : e # f => Before(Place(e), Place(f)) \/ Before(Place(f), Place(e))
  BY DEF GoodLedger, Before, Place
<1>3. \A e \in E : ~Before(Place(e), Place(e))
  BY DEF GoodLedger, Before, Place
<1>4. \A e, f, g \in E : Before(Place(e), Place(f)) /\ Before(Place(f), Place(g))
                            => Before(Place(e), Place(g))
  BY DEF GoodLedger, Before, Place
<1> QED
  BY <1>1, <1>2, <1>3, <1>4 DEF TotallyOrders, GoodLedger

LEMMA EntriesList ==
    ASSUME NEW V, GoodLedger(TxsOf(V))
    PROVE  Lists(Entries(V), TxsOf(V))
<1> DEFINE E == TxsOf(V)
           N == Cardinality(E)
           R == {p \in E \X E : Before(Place(p[1]), Place(p[2]))}
           pos(e) == Position(R, E, e)
           es == Entries(V)
<1>1. es = [n \in 1..N |-> CHOOSE e \in E :
                             Cardinality({f \in E : Before(Place(f), Place(e))}) = n - 1]
  BY DEF Entries, TxsOf
<1>2. /\ TotallyOrders(R, E)
      /\ \A e, f \in E : <<e, f>> \in R <=> Before(Place(e), Place(f))
  <2> HIDE DEF E
  <2> QED
    BY PlacesOrder DEF E
<1> HIDE DEF R, E
<1>3. \A e \in E : Cardinality({f \in E : Before(Place(f), Place(e))}) = pos(e)
  <2> TAKE e \in E
  <2>1. {f \in E : Before(Place(f), Place(e))} = {f \in E : <<f, e>> \in R}
    BY <1>2
  <2> QED
    BY <2>1 DEF Position
<1>4. /\ N \in Nat
      /\ \A e \in E : pos(e) \in 0..N - 1
      /\ \A e, f \in E : pos(e) < pos(f) <=> <<e, f>> \in R
      /\ \A e, f \in E : pos(e) = pos(f) => e = f
      /\ \A m \in 0..N - 1 : \E e \in E : pos(e) = m
  BY <1>2, PositionCounts
<1> HIDE DEF pos, N
<1>5. ASSUME NEW n \in 1..N
      PROVE  es[n] \in E /\ pos(es[n]) = n - 1
  <2>1. n - 1 \in 0..N - 1
    BY <1>4
  <2>2. \E e \in E : Cardinality({f \in E : Before(Place(f), Place(e))}) = n - 1
    BY <1>3, <1>4, <2>1
  <2>3. es[n] \in E /\ Cardinality({f \in E : Before(Place(f), Place(es[n]))}) = n - 1
    BY <1>1, <2>2
  <2> QED
    BY <1>3, <2>3
<1>6. DOMAIN es = 1..N
  BY <1>1
<1>7. Len(es) = N
  BY <1>4, <1>6
<1> HIDE DEF es
<1>8. ASSUME NEW e \in E
      PROVE  \E n \in 1..N : es[n] = e
  <2>1. pos(e) + 1 \in 1..N /\ (pos(e) + 1) - 1 = pos(e)
    BY <1>4
  <2> QED
    BY <1>4, <1>5, <2>1
<1>9. \A i, j \in 1..N : i < j <=> Before(Place(es[i]), Place(es[j]))
  <2> TAKE i, j \in 1..N
  <2>1. i < j <=> pos(es[i]) < pos(es[j])
    BY <1>4, <1>5
  <2> QED
    BY <1>2, <1>4, <1>5, <2>1
<1> QED
  BY <1>4, <1>5, <1>6, <1>7, <1>8, <1>9 DEF Lists, N, E, es

\* The first n transactions.
First(es, n) == {es[k] : k \in 1..n}

LEMMA FirstOfList ==
    ASSUME NEW E, NEW es, Lists(es, E), NEW n \in 0..Cardinality(E)
    PROVE  /\ First(es, n) \in SUBSET E
           /\ n = 0 => First(es, n) = {}
           /\ n # 0 => First(es, n) = First(es, n - 1) \cup {es[n]}
           /\ n = Cardinality(E) => First(es, n) = E
<1>1. Cardinality(E) \in Nat /\ n \in Nat
  BY DEF Lists
<1>2. \A k \in 1..n : k \in 1..Cardinality(E)
  BY <1>1
<1>3. First(es, n) \in SUBSET E
  BY <1>2 DEF First, Lists
<1>4. n = 0 => First(es, n) = {}
  BY DEF First
<1>5. n # 0 => First(es, n) = First(es, n - 1) \cup {es[n]}
  <2> SUFFICES ASSUME n # 0 PROVE First(es, n) = First(es, n - 1) \cup {es[n]}
    OBVIOUS
  <2>1. \A k : k \in 1..n <=> k \in 1..n-1 \/ k = n
    BY <1>1
  <2> QED
    BY <2>1 DEF First
<1>6. n = Cardinality(E) => First(es, n) = E
  BY <1>3 DEF First, Lists
<1> QED
  BY <1>3, <1>4, <1>5, <1>6

\* One transaction later.
LEMMA UnspentGrows ==
    ASSUME NEW E, GoodLedger(E), NEW es, Lists(es, E), NEW n \in 1..Cardinality(E)
    PROVE  Unspent(First(es, n)) =
              {c \in Unspent(First(es, n - 1)) : Prevout(c) \notin es[n].t.spends}
              \cup Created(es[n])
<1> DEFINE F == First(es, n - 1)
           G == First(es, n)
           e == es[n]
<1>1. Cardinality(E) \in Nat /\ n \in 0..Cardinality(E) /\ n - 1 \in 0..Cardinality(E) /\ n # 0
  BY DEF Lists
<1>2. G = F \cup {e} /\ G \in SUBSET E /\ F \in SUBSET E
  BY <1>1, FirstOfList
<1>3. e \in E
  BY DEF Lists
<1>4. \A f \in G : ~Before(Place(e), Place(f))
  <2> TAKE f \in G
  <2>1. PICK k \in 1..n : f = es[k]
    BY DEF First
  <2>2. k \in 1..Cardinality(E) /\ ~(n < k)
    BY <1>1
  <2> QED
    BY <2>1, <2>2 DEF Lists
<1>5. \A o \in Created(e), f \in G : Prevout(o) \notin f.t.spends
  BY <1>2, <1>3, <1>4, SpentLater
<1> HIDE DEF F, G, e
<1>6. Outs(G) = Outs(F) \cup Created(e)
  BY <1>2 DEF Outs
<1>7. Unspent(G) = {c \in Unspent(F) : Prevout(c) \notin e.t.spends} \cup Created(e)
  BY <1>2, <1>5, <1>6 DEF Unspent
<1> QED
  BY <1>7 DEF F, G, e

\* The coins after each of the first transactions are the outputs that none of
\* these spends.
LEMMA ReplayIsUnspent ==
    ASSUME NEW E, GoodLedger(E), NEW es, Lists(es, E)
    PROVE  \A n \in 0..Cardinality(E) : Replay(es)[n] = Unspent(First(es, n))
<1> DEFINE N == Cardinality(E)
           step(g, n) == IF n = 0 THEN {}
                         ELSE {c \in g[n - 1] : Prevout(c) \notin es[n].t.spends} \cup Created(es[n])
           Solves(g) == g = [n \in 0..N |-> step(g, n)]
           after == CHOOSE g : Solves(g)
           u(n) == Unspent(First(es, n))
           h == [n \in 0..N |-> u(n)]
<1>1. Replay(es) = after
  <2>1. Len(es) = N
    BY DEF Lists
  <2> QED
    BY <2>1 DEF Replay
<1>2. N \in Nat
  BY DEF Lists
<1>3. u(0) = {}
  <2>1. First(es, 0) = {}
    BY DEF First
  <2> QED
    BY <2>1 DEF Unspent, Outs
<1>4. \A n \in 1..N : u(n) = {c \in u(n - 1) : Prevout(c) \notin es[n].t.spends} \cup Created(es[n])
  BY UnspentGrows
<1> HIDE DEF u, N
<1>5. Solves(h)
  <2>1. \A n \in 0..N : n # 0 => n \in 1..N /\ n - 1 \in 0..N
    BY <1>2
  <2>2. \A n \in 0..N : h[n] = step(h, n)
    BY <1>3, <1>4, <2>1
  <2>3. h = [n \in 0..N |-> h[n]]
    OBVIOUS
  <2> HIDE DEF h, step
  <2> QED
    BY <2>2, <2>3
<1>6. Solves(after)
  <2> HIDE DEF Solves
  <2> QED
    BY <1>5
<1>7. \A n \in 0..N : after[n] = step(after, n)
  <2> HIDE DEF after, step
  <2> QED
    BY <1>6
<1> HIDE DEF after, Solves, h
<1> DEFINE P == {n \in Nat : n <= N => after[n] = u(n)}
<1>8. 0 \in P
  <2>1. 0 \in 0..N
    BY <1>2
  <2>2. after[0] = step(after, 0)
    BY <1>7, <2>1
  <2>3. step(after, 0) = {}
    OBVIOUS
  <2> HIDE DEF step
  <2> QED
    BY <1>3, <2>2, <2>3
<1>9. ASSUME NEW n \in P
      PROVE  n + 1 \in P
  <2> SUFFICES ASSUME n + 1 <= N PROVE after[n + 1] = u(n + 1)
    OBVIOUS
  <2>1. n + 1 \in 1..N /\ n + 1 \in 0..N /\ n + 1 # 0 /\ (n + 1) - 1 = n /\ after[n] = u(n)
    BY <1>2
  <2> QED
    BY <1>4, <1>7, <2>1
<1>10. P = Nat
  <2> HIDE DEF P
  <2>1. P \in SUBSET Nat
    BY DEF P
  <2> QED
    BY <1>8, <1>9, <2>1, Induction
<1>11. \A n \in 0..N : after[n] = u(n)
  BY <1>2, <1>10
<1> QED
  BY <1>1, <1>11 DEF N, u

LEMMA CoinsAreUnspent ==
    ASSUME NEW V, GoodLedger(TxsOf(V))
    PROVE  Coins(Entries(V)) = Unspent(TxsOf(V))
<1> DEFINE E == TxsOf(V)
           es == Entries(V)
<1>1. Lists(es, E)
  BY EntriesList
<1> HIDE DEF E, es
<1>2. Cardinality(E) \in 0..Cardinality(E) /\ Len(es) = Cardinality(E)
  BY <1>1 DEF Lists
<1>3. Replay(es)[Len(es)] = Unspent(First(es, Cardinality(E)))
  BY <1>1, <1>2, ReplayIsUnspent DEF E
<1>4. First(es, Cardinality(E)) = E
  BY <1>1, <1>2, FirstOfList
<1> QED
  BY <1>3, <1>4 DEF Coins, E, es

------------------------------------------------------------------------------
(***************************************************************************)
(* The stored transactions of a chain are the ones told.                   *)
(***************************************************************************)
Entry(r) == [height |-> r.height, pos |-> r.pos, t |-> tx[r.key]]

LEMMA StoredLedger ==
    ASSUME TableInv, ToldInv, NEW V, OneChain(V)
    PROVE  /\ \A r \in canonical_tx(V) : Entry(r) \in TxsOf(V)
           /\ \A e \in TxsOf(V) : \E r \in canonical_tx(V) : Entry(r) = e
           /\ \A r, q \in canonical_tx(V) : Place(r) = Place(q) => r = q
           /\ \A r : Place(Entry(r)) = Place(r)
<1> DEFINE keys(s) == rows[<<s.hash, s.wit>>]
           list(s) == told[<<s.hash, s.wit>>]
           row(s, n) == [height |-> s.height, pos |-> n, key |-> keys(s)[n]]
           entry(s, n) == [height |-> s.height, pos |-> n, t |-> list(s)[n]]
<1>1. ASSUME NEW s \in V
      PROVE  /\ DOMAIN keys(s) = DOMAIN list(s)
             /\ \A n \in DOMAIN list(s) : tx[keys(s)[n]] = list(s)[n]
  BY DEF OneChain, TableInv, StoreInv, StoredAsTold
<1>2. /\ \A r : r \in canonical_tx(V) <=> \E s \in V : \E n \in DOMAIN keys(s) : r = row(s, n)
      /\ \A e : e \in TxsOf(V) <=> \E s \in V : \E n \in DOMAIN list(s) : e = entry(s, n)
  BY DEF canonical_tx, TxsOf
<1>3. \A s \in V : \A n \in DOMAIN list(s) : Entry(row(s, n)) = entry(s, n)
  BY <1>1 DEF Entry
<1>4. \A s, n : row(s, n).height = s.height /\ row(s, n).pos = n
  OBVIOUS
<1> HIDE DEF row, entry, keys, list
<1>5. \A r \in canonical_tx(V) : Entry(r) \in TxsOf(V)
  BY <1>1, <1>2, <1>3
<1>6. \A e \in TxsOf(V) : \E r \in canonical_tx(V) : Entry(r) = e
  BY <1>1, <1>2, <1>3
<1>7. ASSUME NEW r \in canonical_tx(V), NEW q \in canonical_tx(V), Place(r) = Place(q)
      PROVE  r = q
  <2>1. r.height = q.height /\ r.pos = q.pos
    BY <1>7 DEF Place
  <2>2. PICK s \in V : \E n \in DOMAIN keys(s) : r = row(s, n)
    BY <1>2
  <2>3. PICK t \in V : \E n \in DOMAIN keys(t) : q = row(t, n)
    BY <1>2
  <2>4. s = t
    BY <1>4, <2>1, <2>2, <2>3 DEF OneChain
  <2> QED
    BY <1>4, <2>1, <2>2, <2>3, <2>4
<1>8. \A r : Place(Entry(r)) = Place(r)
  BY DEF Entry, Place
<1> QED
  BY <1>5, <1>6, <1>7, <1>8

\* The outputs the queries start from.
LEMMA StoredOutputs ==
    ASSUME TableInv, ToldInv, NEW V, OneChain(V)
    PROVE  outputs(canonical_tx(V)) = Outs(TxsOf(V))
<1> DEFINE C == canonical_tx(V)
           E == TxsOf(V)
           of(r) == {[height |-> r.height, pos |-> r.pos, txid |-> tx[r.key].txid,
                      coinbase |-> tx[r.key].coinbase, index |-> n,
                      value |-> tx[r.key].outs[n].value,
                      address |-> tx[r.key].outs[n].address] : n \in DOMAIN tx[r.key].outs}
<1>1. \A r : Created(Entry(r)) = of(r)
  BY DEF Created, Entry
<1>2. \A o : o \in outputs(C) <=> \E r \in C : o \in of(r)
  BY DEF outputs
<1>3. \A o : o \in Outs(E) <=> \E e \in E : o \in Created(e)
  BY DEF Outs
<1>4. /\ \A r \in C : Entry(r) \in E
      /\ \A e \in E : \E r \in C : Entry(r) = e
  BY StoredLedger
<1> HIDE DEF of, C, E
<1>5. \A o : o \in outputs(C) <=> o \in Outs(E)
  BY <1>1, <1>2, <1>3, <1>4
<1> QED
  BY <1>5 DEF C, E

LEMMA StoredSpends ==
    ASSUME NEW r, NEW o
    PROVE  Spends(r, o) <=> Prevout(o) \in Entry(r).t.spends
BY DEF Spends, Entry

\* An output is spent at most once.
LEMMA SpendCount ==
    ASSUME TableInv, ToldInv, NEW V, OneChain(V), NEW o \in Outs(TxsOf(V))
    PROVE  /\ spend_count(V, o) \in {0, 1}
           /\ spend_count(V, o) = 0 <=> o \in Unspent(TxsOf(V))
<1> DEFINE C == canonical_tx(V)
           E == TxsOf(V)
           A == {q \in outputs(C) : Prevout(q) = Prevout(o)}
           B == {r \in C : Spends(r, o)}
<1>1. spend_count(V, o) = Cardinality(A \X B)
  BY DEF spend_count
<1>2. GoodLedger(E)
  BY GoodLedgerOfChain
<1>3. A = {o}
  BY <1>2, StoredOutputs, PrevoutsDiffer
<1>4. /\ \A r \in C : Entry(r) \in E
      /\ \A e \in E : \E r \in C : Entry(r) = e
      /\ \A r, q \in C : Place(r) = Place(q) => r = q
      /\ \A r : Place(Entry(r)) = Place(r)
  BY StoredLedger
<1>5. \A r, q \in B : r = q
  <2> TAKE r, q \in B
  <2>1. Entry(r) \in E /\ Entry(q) \in E
        /\ Prevout(o) \in Entry(r).t.spends /\ Prevout(o) \in Entry(q).t.spends
    BY <1>4, StoredSpends
  <2>2. Entry(r) = Entry(q)
    BY <1>2, <2>1 DEF GoodLedger, OneLedger
  <2>3. Place(r) = Place(q)
    BY <1>4, <2>2
  <2> QED
    BY <1>4, <2>3
<1>6. B = {} <=> o \in Unspent(E)
  BY <1>4, StoredSpends DEF Unspent
<1> HIDE DEF A, B, C, E
<1>7. CASE B = {}
  <2>1. A \X B = {}
    BY <1>7
  <2> QED
    BY <1>1, <1>6, <1>7, <2>1, FS_EmptySet DEF E
<1>8. CASE B # {}
  <2>1. PICK r : B = {r}
    BY <1>5, <1>8
  <2>2. A \X B = {<<o, r>>}
    BY <1>3, <2>1
  <2>3. Cardinality(A \X B) = 1
    BY <2>2, FS_Singleton
  <2> QED
    BY <1>1, <1>6, <1>8, <2>3 DEF E
<1> QED
  BY <1>7, <1>8

------------------------------------------------------------------------------
(***************************************************************************)
(* The totals of an address.                                               *)
(***************************************************************************)
OwnedBy(E, a) == {o \in Outs(E) : o.address = a}
UnspentBy(E, a) == {o \in Unspent(E) : o.address = a}

\* The transactions that pay an address or spend one of its outputs.
Touching(E, a) ==
    {e \in E : \E o \in OwnedBy(E, a) : Place(o) = Place(e) \/ Prevout(o) \in e.t.spends}

PlacesOf(F) == {Place(e) : e \in F}

\* The outputs of U by what they are and whether they may be spent.
Locked(U, tip) == {o \in U : immature(o, tip)}
Aged(U, tip) == {o \in U : o.coinbase /\ ~immature(o, tip)}
Ordinary(U) == {o \in U : ~o.coinbase}

NewestHeight(K) == {e[1] : e \in {f \in K : \A g \in K : ~Before(f, g)}}

LEMMA MaxWithZero ==
    ASSUME NEW a \in Int
    PROVE  Max({a, 0}) = IF a >= 0 THEN a ELSE 0
<1> DEFINE m == CHOOSE x \in {a, 0} : \A y \in {a, 0} : x >= y
<1>1. \E x \in {a, 0} : \A y \in {a, 0} : x >= y
  OBVIOUS
<1>2. m \in {a, 0} /\ \A y \in {a, 0} : m >= y
  BY <1>1
<1>3. Max({a, 0}) = m
  BY DEF Max
<1> HIDE DEF m
<1> QED
  BY <1>2, <1>3

LEMMA StoredEvents ==
    ASSUME TableInv, ToldInv, NEW V, OneChain(V), NEW a
    PROVE  /\ owned_outputs(V, a) = OwnedBy(TxsOf(V), a)
           /\ event_keys(V, a) = PlacesOf(Touching(TxsOf(V), a))
<1> DEFINE C == canonical_tx(V)
           E == TxsOf(V)
           O == OwnedBy(E, a)
<1>1. owned_outputs(V, a) = O
  BY StoredOutputs DEF owned_outputs, OwnedBy
<1>2. /\ \A r \in C : Entry(r) \in E
      /\ \A e \in E : \E r \in C : Entry(r) = e
      /\ \A r : Place(Entry(r)) = Place(r)
  BY StoredLedger
<1>3. \A p : p \in event_keys(V, a) <=>
         \E r \in C : (\E o \in O : Place(o) = Place(r) \/ Spends(r, o)) /\ p = Place(r)
  BY <1>1 DEF event_keys
<1>4. \A p : p \in PlacesOf(Touching(E, a)) <=>
         \E e \in E : (\E o \in O : Place(o) = Place(e) \/ Prevout(o) \in e.t.spends)
                      /\ p = Place(e)
  BY DEF PlacesOf, Touching
<1> HIDE DEF C, E, O
<1>5. \A p : p \in event_keys(V, a) <=> p \in PlacesOf(Touching(E, a))
  <2> TAKE p
  <2>1. ASSUME p \in event_keys(V, a)
        PROVE  p \in PlacesOf(Touching(E, a))
    <3>1. PICK r \in C : (\E o \in O : Place(o) = Place(r) \/ Spends(r, o)) /\ p = Place(r)
      BY <1>3, <2>1
    <3>2. Entry(r) \in E /\ Place(Entry(r)) = Place(r)
      BY <1>2
    <3>3. \E o \in O : Place(o) = Place(Entry(r)) \/ Prevout(o) \in Entry(r).t.spends
      BY <3>1, <3>2, StoredSpends
    <3> QED
      BY <1>4, <3>1, <3>2, <3>3
  <2>2. ASSUME p \in PlacesOf(Touching(E, a))
        PROVE  p \in event_keys(V, a)
    <3>1. PICK e \in E : (\E o \in O : Place(o) = Place(e) \/ Prevout(o) \in e.t.spends)
                         /\ p = Place(e)
      BY <1>4, <2>2
    <3>2. PICK r \in C : Entry(r) = e
      BY <1>2
    <3>3. Place(e) = Place(r) /\ \A o : Spends(r, o) <=> Prevout(o) \in e.t.spends
      BY <1>2, <3>2, StoredSpends
    <3> QED
      BY <1>3, <3>1, <3>3
  <2> QED
    BY <2>1, <2>2
<1> QED
  BY <1>1, <1>5 DEF E, O

\* A row of totals over the outputs O, of them U unspent, and the places K.
Totals(b, O, U, K, tip) ==
    /\ b.exists <=> O # {}
    /\ b.total_received = SumValues(O)
    /\ b.total_spent = SumValues(O \ U)
    /\ b.balance = SumValues(U)
    /\ b.immature_coinbase = SumValues(Locked(U, tip))
    /\ b.mature_coinbase = SumValues(Aged(U, tip))
    /\ b.non_coinbase = SumValues(Ordinary(U))
    /\ b.utxo_count = Cardinality(U)
    /\ b.transaction_count = Cardinality(K)
    /\ b.last_seen = NewestHeight(K)
    /\ b.anomalies = 0

\* ADDRESS_BALANCE_QUERY in terms of the told transactions.
LEMMA BalanceQuery ==
    ASSUME TableInv, ToldInv, NEW V, OneChain(V), NEW a, NEW tip
    PROVE  Totals(ADDRESS_BALANCE_QUERY(V, a, tip), OwnedBy(TxsOf(V), a),
                  UnspentBy(TxsOf(V), a), PlacesOf(Touching(TxsOf(V), a)), tip)
<1> DEFINE b == ADDRESS_BALANCE_QUERY(V, a, tip)
           O == OwnedBy(TxsOf(V), a)
           U == UnspentBy(TxsOf(V), a)
           K == PlacesOf(Touching(TxsOf(V), a))
           owned == owned_outputs(V, a)
           unspent == {o \in owned : spend_count(V, o) = 0}
           events_ == event_keys(V, a)
           I(X) == SumValues(Locked(X, tip))
           M(X) == SumValues(Aged(X, tip))
           T(X) == SumValues(Ordinary(X))
           mo == Cardinality({o \in owned : o.coinbase})
           mt == Cardinality({Place(o) : o \in {q \in owned : q.coinbase}})
           first == {e[1] : e \in {f \in events_ : \A g \in events_ : ~Before(g, f)}}
           last(X) == NewestHeight(X)
           over == [o \in owned |-> Max({spend_count(V, o) - 1, 0})]
<1>1. b = [exists |-> owned # {},
           total_received |-> SumValues(owned),
           total_spent |-> SumValues(owned \ unspent),
           balance |-> SumValues(unspent),
           immature_coinbase |-> I(unspent), mature_coinbase |-> M(unspent),
           non_coinbase |-> T(unspent),
           utxo_count |-> Cardinality(unspent),
           mined_output_count |-> mo, mined_transaction_count |-> mt,
           transaction_count |-> Cardinality(events_),
           first_seen |-> first, last_seen |-> last(events_),
           anomalies |-> SumFunction(over)]
  BY DEF ADDRESS_BALANCE_QUERY, Locked, Aged, Ordinary, NewestHeight
<1>2. owned = O /\ events_ = K
  BY StoredEvents
<1>3. GoodLedger(TxsOf(V))
  BY GoodLedgerOfChain
<1>4. \A o \in O : o \in Outs(TxsOf(V))
  BY DEF OwnedBy
<1>5. unspent = U
  BY <1>2, <1>4, SpendCount DEF UnspentBy, OwnedBy, Unspent
<1>6. SumFunction(over) = 0
  <2>1. \A o \in owned : over[o] = 0
    <3> TAKE o \in owned
    <3>1. spend_count(V, o) \in {0, 1}
      BY <1>2, <1>4, SpendCount
    <3>2. spend_count(V, o) - 1 \in Int /\ ~(spend_count(V, o) - 1 > 0)
      BY <3>1
    <3>3. Max({spend_count(V, o) - 1, 0}) = 0
      BY <3>2, MaxWithZero
    <3> QED
      BY <3>3
  <2>2. IsFiniteSet(owned)
    BY <1>2, <1>3, OutsFinite, FS_Subset DEF OwnedBy
  <2>3. SumFunction(over) = SumFunctionOnSet(over, owned)
    BY DEF SumFunction
  <2> HIDE DEF over, owned
  <2> QED
    BY <2>1, <2>2, <2>3, SumZero
<1> HIDE DEF b, O, U, K, owned, unspent, events_, I, M, T, mo, mt, first, last, over
<1>7. /\ b.total_received = SumValues(owned) /\ b.total_spent = SumValues(owned \ unspent)
      /\ b.balance = SumValues(unspent)
      /\ b.immature_coinbase = I(unspent) /\ b.mature_coinbase = M(unspent)
      /\ b.non_coinbase = T(unspent)
      /\ b.utxo_count = Cardinality(unspent) /\ b.transaction_count = Cardinality(events_)
      /\ b.last_seen = last(events_) /\ b.anomalies = SumFunction(over)
  BY ONLY <1>1
<1>8. b.exists = (owned # {})
  BY ONLY <1>1
<1>9. /\ b.total_received = SumValues(O) /\ b.total_spent = SumValues(O \ U)
      /\ b.balance = SumValues(U)
      /\ b.immature_coinbase = I(U) /\ b.mature_coinbase = M(U) /\ b.non_coinbase = T(U)
      /\ b.utxo_count = Cardinality(U) /\ b.transaction_count = Cardinality(K)
      /\ b.last_seen = last(K) /\ b.anomalies = 0
  BY <1>2, <1>5, <1>6, <1>7
<1>10. b.exists <=> O # {}
  BY <1>2, <1>8
<1> QED
  BY <1>9, <1>10 DEF Totals, I, M, T, last, b, O, U, K

\* What the totals of an address say about the chain at this height.
BalanceFacts(b, E, a, height) ==
    LET coins == UnspentBy(E, a)
        locked == {c \in coins : c.coinbase /\ height + 1 - c.height < Maturity}
    IN
    /\ b.balance = SumValues(coins)
    /\ b.utxo_count = Cardinality(coins)
    /\ b.immature_coinbase = SumValues(locked)
    /\ b.mature_coinbase = SumValues({c \in coins \ locked : c.coinbase})
    /\ b.mature_coinbase + b.immature_coinbase + b.non_coinbase = b.balance
    /\ b.total_received - b.total_spent = b.balance
    /\ b.anomalies = 0

\* What they say about its transactions.
EventFacts(b, E, a) ==
    LET K == PlacesOf(Touching(E, a))
    IN
    /\ b.transaction_count = Cardinality(K)
    /\ b.last_seen = NewestHeight(K)

LEMMA UnspentShape ==
    ASSUME NEW E, GoodLedger(E), NEW a
    PROVE  /\ UnspentBy(E, a) \in SUBSET OwnedBy(E, a) /\ OwnedBy(E, a) \in SUBSET Outs(E)
           /\ IsFiniteSet(OwnedBy(E, a)) /\ IsFiniteSet(UnspentBy(E, a))
           /\ \A o \in OwnedBy(E, a) : o.value \in Nat /\ o.height \in Nat
<1>1. UnspentBy(E, a) \in SUBSET OwnedBy(E, a) /\ OwnedBy(E, a) \in SUBSET Outs(E)
  BY DEF UnspentBy, OwnedBy, Unspent
<1>2. IsFiniteSet(OwnedBy(E, a))
  BY <1>1, OutsFinite, FS_Subset
<1>3. IsFiniteSet(UnspentBy(E, a))
  BY <1>1, <1>2, FS_Subset
<1>4. ASSUME NEW o \in Outs(E)
      PROVE  o.value \in Nat /\ o.height \in Nat
  <2>1. PICK e \in E : o \in Created(e)
    BY DEF Outs
  <2>2. o.value \in Nat /\ o.height = e.height
    BY <2>1, CreatedShape
  <2> QED
    BY <2>2 DEF GoodLedger
<1> QED
  BY <1>1, <1>2, <1>3, <1>4

\* The answer to a request for an address of the chain in the snapshot.
LEMMA BalanceAnswered ==
    ASSUME TableInv, ToldInv, NEW V, OneChain(V), NEW a,
           NEW height \in Int, \A s \in V : s.height <= height,
           NEW b, b = ADDRESS_BALANCE_QUERY(V, a, Max({height, 0}))
    PROVE  /\ BalanceFacts(b, TxsOf(V), a, height) /\ EventFacts(b, TxsOf(V), a)
           /\ b.exists <=> OwnedBy(TxsOf(V), a) # {}
<1> DEFINE E == TxsOf(V)
           O == OwnedBy(E, a)
           U == UnspentBy(E, a)
           K == PlacesOf(Touching(E, a))
           tip == Max({height, 0})
           L == {c \in U : c.coinbase /\ height + 1 - c.height < Maturity}
           I == Locked(U, tip)
           M == Aged(U, tip)
           T == Ordinary(U)
<1>1. GoodLedger(E)
  BY GoodLedgerOfChain
<1>2. /\ b.exists <=> O # {}
      /\ b.total_received = SumValues(O) /\ b.total_spent = SumValues(O \ U)
      /\ b.balance = SumValues(U)
      /\ b.immature_coinbase = SumValues(I)
      /\ b.mature_coinbase = SumValues(M) /\ b.non_coinbase = SumValues(T)
      /\ b.utxo_count = Cardinality(U)
      /\ b.transaction_count = Cardinality(K)
      /\ b.last_seen = NewestHeight(K)
      /\ b.anomalies = 0
  BY BalanceQuery DEF Totals
<1>3. /\ U \in SUBSET O /\ IsFiniteSet(O) /\ IsFiniteSet(U)
      /\ \A o \in O : o.value \in Nat /\ o.height \in Nat
  BY <1>1, UnspentShape
<1>4. E # {} => height >= 0
  <2> SUFFICES ASSUME NEW e \in E PROVE height >= 0
    OBVIOUS
  <2>0. \E s \in V : \E n \in DOMAIN told[<<s.hash, s.wit>>] :
           e = [height |-> s.height, pos |-> n, t |-> told[<<s.hash, s.wit>>][n]]
    BY TxsOfMember
  <2>1. PICK s \in V : e.height = s.height
    BY <2>0
  <2>2. e.height \in Nat /\ s.height <= height
    BY <1>1 DEF GoodLedger
  <2> QED
    BY <2>1, <2>2
<1>5. \A o \in O : tip = height
  <2>1. E = {} => Outs(E) = {}
    BY DEF Outs
  <2>2. height >= 0 => tip = height
    BY MaxWithZero
  <2> HIDE DEF E, tip
  <2> QED
    BY <1>4, <2>1, <2>2 DEF OwnedBy
<1>6. I = L
  <2>1. \A o \in U : tip - o.height + 1 = height + 1 - o.height
    <3> HIDE DEF tip, O, U
    <3> QED
      BY <1>3, <1>5
  <2> HIDE DEF tip, U
  <2> QED
    BY <2>1 DEF immature, Locked
<1>7. M = {c \in U \ L : c.coinbase}
  <2>1. M = {c \in U \ I : c.coinbase}
    <3> HIDE DEF tip, U
    <3> QED
      BY DEF Locked, Aged, immature
  <2> QED
    BY <2>1, <1>6
<1>8. SumValues(O) = SumValues(O \ U) + SumValues(U)
  <2>1. O \ U \in SUBSET O /\ (O \ U) \cap U = {} /\ O = (O \ U) \cup U
    BY <1>3
  <2> HIDE DEF O, U
  <2> QED
    BY <1>3, <2>1, ValuesUnion
<1>9. SumValues(U) = SumValues(M) + SumValues(I) + SumValues(T)
  <2> DEFINE B == {o \in U : o.coinbase}
  <2>1. /\ U = B \cup T /\ B \cap T = {} /\ B \in SUBSET U /\ T \in SUBSET U
        /\ B = M \cup I /\ M \cap I = {} /\ M \in SUBSET U /\ I \in SUBSET U
    <3> HIDE DEF tip, U
    <3> QED
      BY DEF immature, Locked, Aged, Ordinary
  <2>2. \A o \in U : o.value \in Nat
    BY <1>3
  <2> HIDE DEF U, B, T, M, I
  <2>3. SumValues(U) = SumValues(B) + SumValues(T)
    BY <1>3, <2>1, <2>2, ValuesUnion
  <2>4. SumValues(B) = SumValues(M) + SumValues(I)
    BY <1>3, <2>1, <2>2, ValuesUnion
  <2> QED
    BY <2>3, <2>4
<1>10. /\ SumValues(O) \in Nat /\ SumValues(O \ U) \in Nat /\ SumValues(U) \in Nat
       /\ SumValues(M) \in Nat /\ SumValues(I) \in Nat /\ SumValues(T) \in Nat
  <2>1. \A W \in SUBSET O : SumValues(W) \in Nat
    <3> TAKE W \in SUBSET O
    <3>1. IsFiniteSet(W) /\ \A o \in W : o.value \in Nat
      BY <1>3, FS_Subset
    <3> QED
      BY <3>1, ValuesSum
  <2>2. /\ O \in SUBSET O /\ O \ U \in SUBSET O /\ U \in SUBSET O
        /\ M \in SUBSET O /\ I \in SUBSET O /\ T \in SUBSET O
    <3> HIDE DEF tip, O, U
    <3> QED
      BY <1>3 DEF Locked, Aged, Ordinary
  <2> HIDE DEF O, U, M, I, T
  <2> QED
    BY <2>1, <2>2
<1>11. /\ b.mature_coinbase + b.immature_coinbase + b.non_coinbase = b.balance
       /\ b.total_received - b.total_spent = b.balance
  <2> HIDE DEF O, U, M, I, T, K
  <2> QED
    BY <1>2, <1>8, <1>9, <1>10
<1>12. BalanceFacts(b, E, a, height)
  <2> HIDE DEF E
  <2> QED
    BY <1>2, <1>6, <1>7, <1>11 DEF BalanceFacts
<1>13. EventFacts(b, E, a)
  BY <1>2 DEF EventFacts
<1> QED
  BY <1>2, <1>12, <1>13

------------------------------------------------------------------------------
(***************************************************************************)
(* The histories.                                                          *)
(***************************************************************************)
\* The points of a network history know the block below them.
HistoryFacts(list) ==
    \A p \in list : p.lag = IF Parent[p.hash] = NoBlock THEN {} ELSE {Parent[p.hash]}

Above(V, s) == {t \in V : t.height > s.height}

\* The extra row of the window is the block below the last point.
LEMMA WindowReachesBelow ==
    ASSUME NEW V, OneChain(V), NEW s \in Newest(V, HistoryLimit), NEW u \in V,
           u.height = s.height - 1
    PROVE  u \in HistoryWindow(V)
<1>1. s \in V /\ Cardinality(Above(V, s)) < HistoryLimit
  BY DEF Newest, Above
<1>2. \A t \in V : t.height \in Nat
  BY OneChainShape
<1>3. Above(V, u) = Above(V, s) \cup {s} /\ s \notin Above(V, s)
  BY <1>1, <1>2 DEF OneChain, Above
<1>4. IsFiniteSet(Above(V, s))
  BY OneChainFinite, FS_Subset DEF Above
<1>5. Cardinality(Above(V, u)) = Cardinality(Above(V, s)) + 1 /\ Cardinality(Above(V, s)) \in Nat
  BY <1>3, <1>4, FS_AddElement, FS_CardinalityType
<1>6. HistoryLimit \in Nat
  BY LedgerAssumption
<1>7. Cardinality(Above(V, u)) < HistoryLimit + 1
  BY <1>1, <1>5, <1>6
<1> QED
  BY <1>7 DEF HistoryWindow, Newest, Above

LEMMA HistoryAnswered ==
    ASSUME NEW V, OneChain(V)
    PROVE  HistoryFacts(NETWORK_HISTORY_QUERY(V))
<1> DEFINE W == HistoryWindow(V)
           lag(s) == {t \in W : t.height < s.height
                                /\ \A u \in W : u.height < s.height => u.height <= t.height}
<1>1. \A p \in NETWORK_HISTORY_QUERY(V) : \E s \in Newest(V, HistoryLimit) :
         p = [height |-> s.height, hash |-> s.hash, lag |-> {t.hash : t \in lag(s)}]
  BY DEF NETWORK_HISTORY_QUERY
<1> HIDE DEF W
<1>2. ASSUME NEW s \in Newest(V, HistoryLimit)
      PROVE  {t.hash : t \in lag(s)} = IF Parent[s.hash] = NoBlock THEN {} ELSE {Parent[s.hash]}
  <2>1. s \in V /\ W \in SUBSET V
    BY DEF Newest, HistoryWindow, W
  <2>2. \A t \in V : t.height \in Nat /\ t.hash \in Block
    BY OneChainShape
  <2>3. CASE s.height = 0
    <3>1. Parent[s.hash] = NoBlock
      BY <2>1, <2>3, TreeAssumption DEF OneChain
    <3>2. lag(s) = {}
      BY <2>1, <2>2, <2>3
    <3> QED
      BY <3>1, <3>2
  <2>4. CASE s.height # 0
    <3>1. PICK u \in V : u.height = s.height - 1 /\ u.hash = Parent[s.hash]
      BY <2>1, <2>4 DEF OneChain
    <3>2. u \in W
      BY <3>1, WindowReachesBelow DEF W
    <3>3. Parent[s.hash] # NoBlock
      BY <2>2, <3>1, TreeAssumption
    <3>4. lag(s) = {u}
      <4>1. u \in lag(s)
        BY <2>1, <2>2, <3>1, <3>2
      <4>2. \A t \in lag(s) : t.height = u.height
        BY <2>1, <2>2, <3>1, <3>2
      <4>3. \A t \in lag(s) : t = u
        BY <2>1, <4>2 DEF OneChain
      <4> QED
        BY <4>1, <4>3
    <3> HIDE DEF lag
    <3> QED
      BY <3>1, <3>3, <3>4
  <2> QED
    BY <2>3, <2>4
<1>3. ASSUME NEW p \in NETWORK_HISTORY_QUERY(V)
      PROVE  p.lag = IF Parent[p.hash] = NoBlock THEN {} ELSE {Parent[p.hash]}
  <2>1. PICK s \in Newest(V, HistoryLimit) :
           p = [height |-> s.height, hash |-> s.hash, lag |-> {t.hash : t \in lag(s)}]
    BY <1>1
  <2> DEFINE l == {t.hash : t \in lag(s)}
  <2>2. p.lag = l /\ p.hash = s.hash
    <3>1. p = [height |-> s.height, hash |-> s.hash, lag |-> l]
      BY <2>1
    <3> HIDE DEF l
    <3> QED
      BY ONLY <3>1
  <2> QED
    BY <1>2, <2>2
<1> QED
  BY <1>3 DEF HistoryFacts

\* The outputs with a decoded address, and what happened to them: where a
\* transaction made or spent one.
Paid(E) == {o \in Outs(E) : o.address # NoAddress}

EventOf(o, e) == [address |-> o.address, height |-> e.height, place |-> Place(e)]

LEMMA AddressedOutputs ==
    ASSUME TableInv, ToldInv, NEW V, OneChain(V)
    PROVE  Addressed(V) = Paid(TxsOf(V))
BY StoredOutputs DEF Addressed, Paid

LEMMA StoredHistory ==
    ASSUME TableInv, ToldInv, NEW V, OneChain(V), NEW v
    PROVE  v \in events(V) <=>
              \E e \in TxsOf(V) : \E o \in Paid(TxsOf(V)) :
                 (Place(o) = Place(e) \/ Prevout(o) \in e.t.spends) /\ v = EventOf(o, e)
<1> DEFINE C == canonical_tx(V)
           E == TxsOf(V)
           O == Paid(E)
<1>1. v \in events(V) <=>
         \E r \in C : \E o \in O :
            (Place(o) = Place(r) \/ Spends(r, o)) /\ v = EventOf(o, r)
  BY AddressedOutputs DEF events, EventOf
<1>2. /\ \A r \in C : Entry(r) \in E
      /\ \A e \in E : \E r \in C : Entry(r) = e
      /\ \A r : Place(Entry(r)) = Place(r)
  BY StoredLedger
<1>3. \A r, o : Spends(r, o) <=> Prevout(o) \in Entry(r).t.spends
  BY StoredSpends
<1>4. \A r, o : EventOf(o, Entry(r)) = EventOf(o, r)
  BY <1>2 DEF EventOf, Entry
<1> HIDE DEF C, E, O
<1> QED
  BY <1>1, <1>2, <1>3, <1>4 DEF C, E, O

\* The addresses that were paid up to a height.
Payees(E, h) == {o.address : o \in {q \in Paid(E) : q.height <= h}}

\* An address is seen first where it is paid first.
LEMMA SeenWherePaid ==
    ASSUME TableInv, ToldInv, NEW V, OneChain(V)
    PROVE  /\ \A v \in events(V) : v.height \in Nat /\ \E s \in V : s.height = v.height
           /\ \A v \in events(V) : \E o \in Paid(TxsOf(V)) :
                 o.address = v.address /\ o.height <= v.height
           /\ \A o \in Paid(TxsOf(V)) : \E v \in events(V) :
                 o.address = v.address /\ o.height = v.height
<1> DEFINE E == TxsOf(V)
<1>1. GoodLedger(E)
  BY GoodLedgerOfChain
<1>2. ASSUME NEW v \in events(V)
      PROVE  /\ v.height \in Nat /\ \E s \in V : s.height = v.height
             /\ \E o \in Paid(E) : o.address = v.address /\ o.height <= v.height
  <2>1. PICK e \in E : \E o \in Paid(E) :
           (Place(o) = Place(e) \/ Prevout(o) \in e.t.spends) /\ v = EventOf(o, e)
    BY StoredHistory
  <2>2. PICK o \in Paid(E) :
           (Place(o) = Place(e) \/ Prevout(o) \in e.t.spends) /\ v = EventOf(o, e)
    BY <2>1
  <2>3. v.height = e.height /\ v.address = o.address
    BY <2>2 DEF EventOf
  <2>4. e.height \in Nat
    BY <1>1 DEF GoodLedger
  <2>5. \E s \in V : s.height = e.height
    <3>1. \E s \in V : \E n \in DOMAIN told[<<s.hash, s.wit>>] :
             e = [height |-> s.height, pos |-> n, t |-> told[<<s.hash, s.wit>>][n]]
      BY TxsOfMember
    <3> QED
      BY <3>1
  <2>6. PICK f \in E : o \in Created(f)
    BY DEF Paid, Outs
  <2>7. o.height = f.height /\ Place(o) = Place(f) /\ f.height \in Nat
    BY <1>1, <2>6, CreatedShape DEF GoodLedger
  <2>8. o.height <= e.height
    <3> HIDE DEF E
    <3>1. CASE Place(o) = Place(e)
      BY <2>4, <2>7, <3>1 DEF Place
    <3>2. CASE Prevout(o) \in e.t.spends
      <4>1. Before(Place(f), Place(e))
        BY <1>1, <2>6, <3>2, SpentLater
      <4> QED
        BY <2>4, <2>7, <4>1 DEF Before, Place
    <3> QED
      BY <2>2, <3>1, <3>2
  <2> QED
    BY <2>3, <2>4, <2>5, <2>8
<1>3. ASSUME NEW o \in Paid(E)
      PROVE  \E v \in events(V) : o.address = v.address /\ o.height = v.height
  <2>1. PICK f \in E : o \in Created(f)
    BY DEF Paid, Outs
  <2>2. Place(o) = Place(f) /\ o.height = f.height
    BY <1>1, <2>1, CreatedShape
  <2>3. EventOf(o, f) \in events(V)
    BY <2>2, StoredHistory
  <2> QED
    BY <2>2, <2>3 DEF EventOf
<1> QED
  BY <1>2, <1>3

\* The points of an address history count the addresses paid so far.
StatFacts(list, E) ==
    \A p \in list : p.height \in Nat /\ p.total_seen = Cardinality(Payees(E, p.height))

LEMMA StatsAnswered ==
    ASSUME TableInv, ToldInv, NEW V, OneChain(V)
    PROVE  StatFacts(ADDRESS_STATS_QUERY(V), TxsOf(V))
<1> DEFINE all == events(V)
           E == TxsOf(V)
           seen == {e.address : e \in all}
           heights(a) == {e.height : e \in {f \in all : f.address = a}}
           first(a) == Min(heights(a))
           new(h) == {a \in seen : first(a) = h}
           at(s) == {u \in V : u.height <= s.height}
           sizes(s) == [t \in at(s) |-> Cardinality(new(t.height))]
<1>1. /\ \A v \in all : v.height \in Nat /\ \E s \in V : s.height = v.height
      /\ \A v \in all : \E o \in Paid(E) : o.address = v.address /\ o.height <= v.height
      /\ \A o \in Paid(E) : \E v \in all : o.address = v.address /\ o.height = v.height
  BY SeenWherePaid
<1>2. \A p \in ADDRESS_STATS_QUERY(V) : \E s \in Newest(V, HistoryLimit) :
         p.height = s.height /\ p.total_seen = SumFunction(sizes(s))
  <2> TAKE p \in ADDRESS_STATS_QUERY(V)
  <2>1. PICK s \in Newest(V, HistoryLimit) :
           p = [height |-> s.height,
                active |-> Cardinality({e.address : e \in {f \in all : f.height = s.height}}),
                new |-> Cardinality(new(s.height)),
                total_seen |-> SumFunction(sizes(s))]
    BY DEF ADDRESS_STATS_QUERY
  <2> QED
    BY <2>1
<1> HIDE DEF all, E
<1>3. ASSUME NEW a \in seen
      PROVE  /\ first(a) \in heights(a) /\ \A h \in heights(a) : first(a) <= h
             /\ heights(a) \in SUBSET Nat
  <2>1. heights(a) \in SUBSET Nat /\ heights(a) # {}
    BY <1>1
  <2>2. \E x \in heights(a) : \A y \in heights(a) : x <= y
    <3> HIDE DEF heights
    <3> QED
      BY <2>1, LeastExists
  <2> HIDE DEF heights
  <2> QED
    BY <2>1, <2>2 DEF Min
<1>4. ASSUME NEW s \in V
      PROVE  UNION {new(t.height) : t \in at(s)} = Payees(E, s.height)
  <2>1. s.height \in Nat /\ \A t \in V : t.height \in Nat
    BY OneChainShape
  <2>2. ASSUME NEW t \in at(s), NEW a \in new(t.height)
        PROVE  a \in Payees(E, s.height)
    <3>1. a \in seen /\ first(a) = t.height /\ first(a) \in heights(a)
      BY <1>3
    <3>2. PICK v \in all : v.address = a /\ v.height = t.height
      <4> HIDE DEF first
      <4> QED
        BY <3>1
    <3>3. PICK o \in Paid(E) : o.address = a /\ o.height <= t.height
      BY <1>1, <3>2
    <3>4. o.height \in Int
      BY <1>1, <3>3
    <3>5. o.height <= s.height
      BY <2>1, <3>3, <3>4
    <3> QED
      BY <3>3, <3>5 DEF Payees
  <2>3. ASSUME NEW a \in Payees(E, s.height)
        PROVE  \E t \in at(s) : a \in new(t.height)
    <3>1. PICK o \in Paid(E) : o.height <= s.height /\ o.address = a
      BY DEF Payees
    <3>2. PICK v \in all : o.address = v.address /\ o.height = v.height
      BY <1>1, <3>1
    <3>3. a \in seen /\ v.height \in heights(a)
      BY <3>1, <3>2
    <3>4. first(a) \in heights(a) /\ first(a) <= v.height /\ first(a) \in Nat
      BY <1>3, <3>3
    <3>5. PICK w \in all : w.height = first(a)
      <4> HIDE DEF first
      <4> QED
        BY <3>4
    <3>6. PICK t \in V : t.height = first(a)
      BY <1>1, <3>5
    <3>7. first(a) <= s.height
      <4> HIDE DEF first
      <4> QED
        BY <1>1, <2>1, <3>1, <3>2, <3>4
    <3> HIDE DEF first
    <3> QED
      BY <3>3, <3>6, <3>7
  <2> HIDE DEF new, at
  <2> QED
    BY <2>2, <2>3
<1>5. ASSUME NEW s \in V
      PROVE  SumFunction(sizes(s)) = Cardinality(Payees(E, s.height))
  <2> DEFINE D == at(s)
             F == [t \in D |-> new(t.height)]
             g == sizes(s)
  <2>1. IsFiniteSet(D)
    BY OneChainFinite, FS_Subset
  <2>2. IsFiniteSet(seen)
    <3> DEFINE b == [o \in Paid(E) |-> o.address]
               T == {b[o] : o \in Paid(E)}
    <3>1. IsFiniteSet(Paid(E))
      BY GoodLedgerOfChain, OutsFinite, FS_Subset DEF Paid, E
    <3>2. IsFiniteSet(T)
      <4> HIDE DEF b
      <4> QED
        BY <3>1, ImageFinite
    <3>3. seen \in SUBSET T
      BY <1>1
    <3> HIDE DEF T, seen
    <3> QED
      BY <3>2, <3>3, FS_Subset
  <2>3. Parts(F, D, seen)
    <3>1. \A t \in D : F[t] = new(t.height) /\ F[t] \in SUBSET seen
      OBVIOUS
    <3>2. \A t, u \in D : t # u => new(t.height) \cap new(u.height) = {}
      <4>1. \A t, u \in D : t # u => t.height # u.height
        BY DEF OneChain
      <4> HIDE DEF first
      <4> QED
        BY <4>1
    <3> HIDE DEF F, D, new, seen
    <3> QED
      BY <3>1, <3>2 DEF Parts
  <2>4. \A t \in D : g[t] = Cardinality(F[t])
    OBVIOUS
  <2>5. UNION {F[t] : t \in D} = UNION {new(t.height) : t \in D}
    <3> HIDE DEF new
    <3> QED
      OBVIOUS
  <2>6. SumFunction(g) = SumFunctionOnSet(g, D)
    BY DEF SumFunction
  <2>7. UNION {F[t] : t \in D} = Payees(E, s.height)
    BY <1>4, <2>5
  <2> HIDE DEF F, g, D, seen
  <2>8. SumFunctionOnSet(g, D) = Cardinality(UNION {F[t] : t \in D})
    BY <2>1, <2>2, <2>3, <2>4, CountByParts
  <2> QED
    BY <2>6, <2>7, <2>8 DEF g
<1>6. ASSUME NEW p \in ADDRESS_STATS_QUERY(V)
      PROVE  p.height \in Nat /\ p.total_seen = Cardinality(Payees(E, p.height))
  <2> HIDE DEF sizes
  <2>1. PICK s \in Newest(V, HistoryLimit) :
           p.height = s.height /\ p.total_seen = SumFunction(sizes(s))
    BY <1>2
  <2>2. s \in V
    BY DEF Newest
  <2> QED
    BY <1>5, <2>1, <2>2, OneChainShape
<1> QED
  BY <1>6 DEF StatFacts, E

\* The blocks up to a height are a chain too, and what they brought is what
\* the whole chain brought up to there.
LEMMA ChainBelow ==
    ASSUME NEW V, OneChain(V), NEW h \in Int, NEW W, W = {s \in V : s.height <= h}
    PROVE  OneChain(W)
<1>1. \A s \in V : s.height \in Nat
  BY OneChainShape
<1>2. ASSUME NEW s \in W, s.height # 0
      PROVE  \E t \in W : t.height = s.height - 1 /\ t.hash = Parent[s.hash]
  <2>1. PICK t \in V : t.height = s.height - 1 /\ t.hash = Parent[s.hash]
    BY <1>2 DEF OneChain
  <2>2. t.height <= h
    BY <1>1, <2>1
  <2> QED
    BY <2>1, <2>2
<1> QED
  BY <1>2 DEF OneChain

LEMMA PaidBelow ==
    ASSUME TableInv, ToldInv, NEW V, OneChain(V), NEW h \in Int,
           NEW W, W = {s \in V : s.height <= h}
    PROVE  Paid(TxsOf(W)) = {o \in Paid(TxsOf(V)) : o.height <= h}
<1> DEFINE E == TxsOf(V)
           F == TxsOf(W)
           entry(s, n) == [height |-> s.height, pos |-> n, t |-> told[<<s.hash, s.wit>>][n]]
<1>1. GoodLedger(E) /\ GoodLedger(F)
  BY ChainBelow, GoodLedgerOfChain
<1>2. \A e : e \in F <=> e \in E /\ e.height <= h
  <2> DEFINE of(s, e) == \E n \in DOMAIN told[<<s.hash, s.wit>>] : e = entry(s, n)
  <2>1. /\ \A e : e \in E <=> \E s \in V : of(s, e)
        /\ \A e : e \in F <=> \E s \in W : of(s, e)
    BY DEF TxsOf
  <2>2. \A s, e : of(s, e) => e.height = s.height
    OBVIOUS
  <2> HIDE DEF E, F, of
  <2> QED
    BY <2>1, <2>2
<1>3. ASSUME NEW o
      PROVE  o \in Outs(F) <=> o \in Outs(E) /\ o.height <= h
  <2> HIDE DEF E, F
  <2>1. ASSUME o \in Outs(F)
        PROVE  o \in Outs(E) /\ o.height <= h
    <3>1. PICK e \in F : o \in Created(e)
      BY <2>1 DEF Outs
    <3>2. o.height = e.height
      BY <1>1, <3>1, CreatedShape
    <3> QED
      BY <1>2, <3>1, <3>2 DEF Outs
  <2>2. ASSUME o \in Outs(E), o.height <= h
        PROVE  o \in Outs(F)
    <3>1. PICK e \in E : o \in Created(e)
      BY <2>2 DEF Outs
    <3>2. o.height = e.height
      BY <1>1, <3>1, CreatedShape
    <3> QED
      BY <1>2, <2>2, <3>1, <3>2 DEF Outs
  <2> QED
    BY <2>1, <2>2
<1> HIDE DEF E, F
<1>4. Paid(F) = {o \in Paid(E) : o.height <= h}
  BY <1>3 DEF Paid
<1> QED
  BY <1>4 DEF E, F

------------------------------------------------------------------------------
(***************************************************************************)
(* The activity of an address.                                             *)
(***************************************************************************)
\* What the transaction at a place brings an address and takes from it.
Gained(E, a, p) == {o \in OwnedBy(E, a) : Place(o) = p}
Lost(E, a, p) == {o \in OwnedBy(E, a) : \E e \in E : Place(e) = p /\ Prevout(o) \in e.t.spends}
Net(E, a, p) == SumValues(Gained(E, a, p)) - SumValues(Lost(E, a, p))

\* The transactions up to a place.
Upto(E, p) == {e \in E : ~Before(p, Place(e))}

\* Adding up what the transactions up to a place changed gives the coins the
\* address has there.
LEMMA RunningBalance ==
    ASSUME NEW E, GoodLedger(E), NEW a, NEW p \in PlacesOf(E),
           NEW D, D = {q \in PlacesOf(Touching(E, a)) : ~Before(p, q)},
           NEW g, \A q \in D : g[q] = Net(E, a, q)
    PROVE  SumFunctionOnSet(g, D) = SumValues(UnspentBy(Upto(E, p), a))
<1> DEFINE O == OwnedBy(E, a)
           f == [o \in O |-> o.value]
           G == [q \in D |-> Gained(E, a, q)]
           L == [q \in D |-> Lost(E, a, q)]
           gained == [q \in D |-> SumFunctionOnSet(f, G[q])]
           lost == [q \in D |-> SumFunctionOnSet(f, L[q])]
           H == UnspentBy(Upto(E, p), a)
           A == {o \in O : ~Before(p, Place(o))}
           B == {o \in O : \E e \in Upto(E, p) : Prevout(o) \in e.t.spends}
<1>1. /\ O \in SUBSET Outs(E) /\ IsFiniteSet(O)
      /\ \A o \in O : o.value \in Nat
      /\ \A o \in O : f[o] = o.value /\ f[o] \in Int
  <2>1. O \in SUBSET Outs(E) /\ IsFiniteSet(O) /\ \A o \in O : o.value \in Nat
    BY UnspentShape
  <2> HIDE DEF O
  <2> QED
    BY <2>1
<1>2. IsFiniteSet(D)
  <2> DEFINE b == [e \in Touching(E, a) |-> Place(e)]
             T == {b[e] : e \in Touching(E, a)}
  <2>1. IsFiniteSet(Touching(E, a))
    BY FS_Subset DEF Touching, GoodLedger
  <2>2. IsFiniteSet(T)
    <3> HIDE DEF b
    <3> QED
      BY <2>1, ImageFinite
  <2>3. D \in SUBSET T
    BY DEF PlacesOf
  <2> HIDE DEF T
  <2> QED
    BY <2>2, <2>3, FS_Subset
<1>3. \A o \in O : \E e \in E : Place(o) = Place(e) /\ o \in Created(e)
  BY <1>1, OutsShape
<1>4. \A q \in D : G[q] \in SUBSET O /\ L[q] \in SUBSET O
  BY DEF Gained, Lost
<1>5. Parts(G, D, O)
  <2>1. \A q, u \in D : q # u => Gained(E, a, q) \cap Gained(E, a, u) = {}
    BY DEF Gained
  <2> QED
    BY <1>4, <2>1 DEF Parts
<1>6. Parts(L, D, O)
  <2>1. \A q, u \in D : \A o \in Lost(E, a, q) \cap Lost(E, a, u) : q = u
    BY DEF Lost, GoodLedger, OneLedger
  <2>2. \A q, u \in D : q # u => Lost(E, a, q) \cap Lost(E, a, u) = {}
    BY <2>1
  <2> QED
    BY <1>4, <2>2 DEF Parts
<1>7. UNION {G[q] : q \in D} = A
  <2>1. ASSUME NEW o \in A
        PROVE  \E q \in D : o \in G[q]
    <3>1. PICK e \in E : Place(o) = Place(e) /\ o \in Created(e)
      BY <1>3
    <3>2. Place(o) \in D
      BY <3>1 DEF PlacesOf, Touching
    <3> QED
      BY <3>2 DEF Gained
  <2>2. \A q \in D : \A o \in G[q] : o \in A
    BY DEF Gained
  <2> HIDE DEF A, G
  <2> QED
    BY <2>1, <2>2
<1>8. UNION {L[q] : q \in D} = B
  <2>1. ASSUME NEW o \in B
        PROVE  \E q \in D : o \in L[q]
    <3>1. PICK e \in Upto(E, p) : Prevout(o) \in e.t.spends
      OBVIOUS
    <3>2. e \in E /\ ~Before(p, Place(e))
      BY DEF Upto
    <3>3. Place(e) \in D
      BY <3>1, <3>2 DEF PlacesOf, Touching
    <3>4. o \in Lost(E, a, Place(e))
      BY <3>1, <3>2 DEF Lost
    <3> QED
      BY <3>3, <3>4
  <2>2. ASSUME NEW q \in D, NEW o \in L[q]
        PROVE  o \in B
    <3>1. PICK e \in E : Place(e) = q /\ Prevout(o) \in e.t.spends
      BY DEF Lost
    <3>2. e \in Upto(E, p) /\ o \in O
      BY <3>1 DEF Upto, Lost
    <3> QED
      BY <3>1, <3>2
  <2> HIDE DEF B, L
  <2> QED
    BY <2>1, <2>2
<1>9. B \in SUBSET A
  <2>1. ASSUME NEW o \in O, NEW e \in Upto(E, p), Prevout(o) \in e.t.spends
        PROVE  ~Before(p, Place(o))
    <3>1. PICK d \in E : Place(o) = Place(d) /\ o \in Created(d)
      BY <1>3
    <3>2. e \in E /\ ~Before(p, Place(e))
      BY DEF Upto
    <3>3. Before(Place(d), Place(e))
      BY <2>1, <3>1, <3>2, SpentLater
    <3>4. PICK c \in E : p = Place(c)
      BY DEF PlacesOf
    <3> QED
      BY <3>1, <3>2, <3>3, <3>4 DEF GoodLedger, Before, Place
  <2> QED
    BY <2>1
<1>10. H = A \ B
  <2>1. \A o : o \in Outs(Upto(E, p)) <=> \E e \in E : ~Before(p, Place(e)) /\ o \in Created(e)
    BY DEF Outs, Upto
  <2>2. \A e \in E : \A o \in Created(e) : Place(o) = Place(e) /\ o \in Outs(E)
    BY CreatedShape DEF Outs
  <2>3. \A o : o \in Outs(Upto(E, p)) <=> o \in Outs(E) /\ ~Before(p, Place(o))
    BY <2>1, <2>2, OutsShape
  <2> QED
    BY <2>3 DEF UnspentBy, Unspent, OwnedBy
<1> HIDE DEF O, f, G, L, H, A, B
<1>11. SumFunctionOnSet(gained, D) = SumFunctionOnSet(f, A)
  <2>1. \A q \in D : gained[q] = SumFunctionOnSet(f, G[q])
    OBVIOUS
  <2> HIDE DEF gained
  <2> QED
    BY <1>1, <1>2, <1>5, <1>7, <2>1, SumByParts
<1>12. SumFunctionOnSet(lost, D) = SumFunctionOnSet(f, B)
  <2>1. \A q \in D : lost[q] = SumFunctionOnSet(f, L[q])
    OBVIOUS
  <2> HIDE DEF lost
  <2> QED
    BY <1>1, <1>2, <1>6, <1>8, <2>1, SumByParts
<1>13. \A q \in D : gained[q] \in Int /\ lost[q] \in Int /\ g[q] = gained[q] - lost[q]
  <2> TAKE q \in D
  <2>1. gained[q] = SumFunctionOnSet(f, G[q]) /\ lost[q] = SumFunctionOnSet(f, L[q])
    OBVIOUS
  <2>2. gained[q] \in Int /\ lost[q] \in Int
    BY <1>1, <1>4, <2>1, SumInt
  <2>3. G[q] = Gained(E, a, q) /\ L[q] = Lost(E, a, q)
    BY DEF G, L
  <2>4. SumValues(G[q]) = SumFunctionOnSet(f, G[q]) /\ SumValues(L[q]) = SumFunctionOnSet(f, L[q])
    BY <1>1, <1>4, ValuesOfSubset DEF f
  <2>5. g[q] = SumValues(G[q]) - SumValues(L[q])
    BY <2>3 DEF Net
  <2> HIDE DEF gained, lost
  <2> QED
    BY <2>1, <2>2, <2>4, <2>5
<1> HIDE DEF gained, lost
<1>14. SumFunctionOnSet(g, D) = SumFunctionOnSet(gained, D) - SumFunctionOnSet(lost, D)
  BY <1>2, <1>13, SumDifference
<1>15. A \in SUBSET O /\ H \in SUBSET O /\ B \in SUBSET O /\ H \cap B = {} /\ A = H \cup B
  BY <1>9, <1>10 DEF A, B
<1>16. SumFunctionOnSet(f, A) = SumFunctionOnSet(f, H) + SumFunctionOnSet(f, B)
  BY <1>1, <1>15, SumUnion
<1>17. SumFunctionOnSet(f, H) \in Int /\ SumFunctionOnSet(f, B) \in Int
  BY <1>1, <1>15, SumInt
<1>18. SumValues(H) = SumFunctionOnSet(f, H)
  BY <1>1, <1>15, ValuesOfSubset DEF f
<1>19. SumFunctionOnSet(g, D) = SumValues(H)
  BY <1>11, <1>12, <1>14, <1>16, <1>17, <1>18
<1> QED
  BY <1>19 DEF H

NewestPlaces(K) == {p \in K : Cardinality({q \in K : Before(p, q)}) < ActivityLimit}

\* What the rows of an address's activity say.
ActivityFacts(list, E, a) ==
    /\ {r.place : r \in list} = NewestPlaces(PlacesOf(Touching(E, a)))
    /\ \A r \in list : /\ r.balance_after = SumValues(UnspentBy(Upto(E, r.place), a))
                       /\ r.received - r.spent = Net(E, a, r.place)

LEMMA StoredChanges ==
    ASSUME TableInv, ToldInv, NEW V, OneChain(V), NEW a, NEW O, O = OwnedBy(TxsOf(V), a),
           NEW p \in PlacesOf(Touching(TxsOf(V), a)),
           NEW r, r = CHOOSE q \in canonical_tx(V) : Place(q) = p
    PROVE  {o \in O : Spends(r, o)} = Lost(TxsOf(V), a, p)
<1> DEFINE C == canonical_tx(V)
           E == TxsOf(V)
<1>1. /\ \A q \in C : Entry(q) \in E
      /\ \A e \in E : \E q \in C : Entry(q) = e
      /\ \A q : Place(Entry(q)) = Place(q)
      /\ \A q, o : Spends(q, o) <=> Prevout(o) \in Entry(q).t.spends
  BY StoredLedger, StoredSpends
<1>2. GoodLedger(E)
  BY GoodLedgerOfChain
<1>3. \E e \in E : p = Place(e)
  BY DEF PlacesOf, Touching
<1> HIDE DEF C, E
<1>4. \E q \in C : Place(q) = p
  BY <1>1, <1>3
<1>5. r \in C /\ Place(r) = p
  BY <1>4 DEF C
<1>6. Entry(r) \in E /\ Place(Entry(r)) = p
  BY <1>1, <1>5
<1>7. \A e \in E : Place(e) = p <=> e = Entry(r)
  BY <1>2, <1>6 DEF GoodLedger
<1>8. \A o : Spends(r, o) <=> \E e \in E : Place(e) = p /\ Prevout(o) \in e.t.spends
  BY <1>1, <1>6, <1>7
<1> QED
  BY <1>8 DEF Lost, E

LEMMA ActivityAnswered ==
    ASSUME TableInv, ToldInv, NEW V, OneChain(V), NEW a
    PROVE  ActivityFacts(ADDRESS_ACTIVITY_QUERY(V, a), TxsOf(V), a)
<1> DEFINE owned == owned_outputs(V, a)
           at(p) == CHOOSE r \in canonical_tx(V) : Place(r) = p
           received(p) == SumValues({o \in owned : Place(o) = p})
           spent(p) == SumValues({o \in owned : Spends(at(p), o)})
           net(p) == received(p) - spent(p)
           K == event_keys(V, a)
           after(p) == [q \in {e \in K : ~Before(p, e)} |-> net(q)]
           row(p) == [place |-> p, received |-> received(p), spent |-> spent(p),
                      balance_after |-> SumFunction(after(p))]
           list == ADDRESS_ACTIVITY_QUERY(V, a)
           E == TxsOf(V)
<1>1. list = {row(p) : p \in NewestPlaces(K)}
  BY DEF ADDRESS_ACTIVITY_QUERY, NewestPlaces
<1>2. GoodLedger(E)
  BY GoodLedgerOfChain
<1>3. owned = OwnedBy(E, a) /\ K = PlacesOf(Touching(E, a))
  BY StoredEvents
<1>4. \A p \in K : received(p) = SumValues(Gained(E, a, p)) /\ spent(p) = SumValues(Lost(E, a, p))
  <2> TAKE p \in K
  <2>1. {o \in owned : Place(o) = p} = Gained(E, a, p)
    BY <1>3 DEF Gained
  <2>2. {o \in owned : Spends(at(p), o)} = Lost(E, a, p)
    BY <1>3, StoredChanges
  <2> QED
    BY <2>1, <2>2
<1>5. \A p \in K : net(p) = Net(E, a, p)
  BY <1>4 DEF Net
<1>6. \A p : /\ row(p).place = p /\ row(p).received = received(p) /\ row(p).spent = spent(p)
             /\ row(p).balance_after = SumFunction(after(p))
  OBVIOUS
<1>7. ASSUME NEW p \in K
      PROVE  SumFunction(after(p)) = SumValues(UnspentBy(Upto(E, p), a))
  <2> DEFINE D == {e \in K : ~Before(p, e)}
             g == after(p)
  <2>1. p \in PlacesOf(E)
    BY <1>3 DEF PlacesOf, Touching
  <2>2. D = {q \in PlacesOf(Touching(E, a)) : ~Before(p, q)}
    BY <1>3
  <2>3. SumFunction(g) = SumFunctionOnSet(g, D)
    BY DEF SumFunction
  <2>4. \A q \in D : g[q] = Net(E, a, q)
    <3> HIDE DEF net
    <3> QED
      BY <1>5
  <2> HIDE DEF g, D, E, K
  <2>5. SumFunctionOnSet(g, D) = SumValues(UnspentBy(Upto(E, p), a))
    BY <1>2, <2>1, <2>2, <2>4, RunningBalance
  <2> QED
    BY <2>3, <2>5 DEF g
<1> HIDE DEF row, received, spent, after, K, E, list
<1>8. {r.place : r \in list} = NewestPlaces(K)
  BY <1>1, <1>6
<1>9. ASSUME NEW r \in list
      PROVE  /\ r.balance_after = SumValues(UnspentBy(Upto(E, r.place), a))
             /\ r.received - r.spent = Net(E, a, r.place)
  <2>1. PICK p \in NewestPlaces(K) : r = row(p)
    BY <1>1
  <2>2. p \in K
    BY DEF NewestPlaces
  <2>3. r.place = p /\ r.received = received(p) /\ r.spent = spent(p)
        /\ r.balance_after = SumFunction(after(p))
    BY <1>6, <2>1
  <2> QED
    BY <1>5, <1>7, <2>2, <2>3
<1> QED
  BY <1>3, <1>8, <1>9 DEF ActivityFacts, list, E

\* An address that was paid has a newest transaction, and the coins it has
\* there are the ones it has.
LEMMA LastTransaction ==
    ASSUME NEW E, GoodLedger(E), NEW a, OwnedBy(E, a) # {},
           NEW K, K = PlacesOf(Touching(E, a))
    PROVE  \E p \in NewestPlaces(K) :
              /\ \A q \in K : ~Before(p, q)
              /\ NewestHeight(K) = {p[1]}
              /\ UnspentBy(Upto(E, p), a) = UnspentBy(E, a)
<1> DEFINE F == Touching(E, a)
           R == {p \in F \X F : Before(Place(p[1]), Place(p[2]))}
<1>1. F \in SUBSET E /\ GoodLedger(F)
  BY LedgerSubset DEF Touching
<1>2. \A o \in Outs(E) : \E e \in E : Place(o) = Place(e) /\ o \in Created(e)
  BY OutsShape
<1>3. \A o \in OwnedBy(E, a) : o \in Outs(E)
  BY DEF OwnedBy
<1>4. F # {}
  <2>1. PICK o : o \in OwnedBy(E, a)
    OBVIOUS
  <2>2. PICK e \in E : Place(o) = Place(e)
    BY <1>2, <1>3, <2>1
  <2> QED
    BY <2>1, <2>2 DEF Touching
<1>5. TotallyOrders(R, F) /\ \A e, f \in F : <<e, f>> \in R <=> Before(Place(e), Place(f))
  <2> HIDE DEF F
  <2> QED
    BY <1>1, PlacesOrder DEF F
<1> HIDE DEF F, R
<1>6. /\ Cardinality(F) \in Nat
      /\ \A x \in F : Position(R, F, x) \in 0..Cardinality(F) - 1
      /\ \A x, y \in F : Position(R, F, x) < Position(R, F, y) <=> <<x, y>> \in R
      /\ \A m \in 0..Cardinality(F) - 1 : \E x \in F : Position(R, F, x) = m
  BY <1>5, PositionCounts
<1>7. Cardinality(F) - 1 \in 0..Cardinality(F) - 1
  <2>1. Cardinality(F) # 0
    BY <1>1, <1>4, FS_EmptySet DEF GoodLedger
  <2> QED
    BY <1>6, <2>1
<1>8. PICK x \in F : Position(R, F, x) = Cardinality(F) - 1
  BY <1>6, <1>7
<1>9. \A y \in F : ~Before(Place(x), Place(y))
  <2> TAKE y \in F
  <2>1. ~(Position(R, F, x) < Position(R, F, y))
    BY <1>6, <1>8
  <2> QED
    BY <1>5, <1>6, <2>1
<1> DEFINE p == Place(x)
<1>10. p \in K /\ \A q \in K : ~Before(p, q)
  BY <1>9 DEF PlacesOf, F
<1>11. \A q \in K : (\A r \in K : ~Before(q, r)) => q = p
  <2> TAKE q \in K
  <2>1. PICK y \in F : q = Place(y)
    BY DEF PlacesOf, F
  <2>2. Before(q, p) \/ q = p
    BY <1>1, <1>9, <2>1 DEF GoodLedger, Before, Place
  <2> QED
    BY <1>10, <2>2
<1>12. p \in NewestPlaces(K)
  <2>1. {q \in K : Before(p, q)} = {}
    BY <1>10
  <2>2. Cardinality({q \in K : Before(p, q)}) = 0
    BY <2>1, FS_EmptySet
  <2> QED
    BY <1>10, <2>2, LedgerAssumption DEF NewestPlaces
<1>13. NewestHeight(K) = {p[1]}
  <2>1. {f \in K : \A g \in K : ~Before(f, g)} = {p}
    BY <1>10, <1>11
  <2> QED
    BY <2>1 DEF NewestHeight
<1>14. UnspentBy(Upto(E, p), a) = UnspentBy(E, a)
  <2>1. ASSUME NEW o \in UnspentBy(E, a)
        PROVE  o \in UnspentBy(Upto(E, p), a)
    <3>1. o \in Outs(E) /\ o.address = a /\ o \in OwnedBy(E, a)
          /\ \A e \in E : Prevout(o) \notin e.t.spends
      BY <2>1 DEF UnspentBy, Unspent, OwnedBy
    <3>2. PICK e \in E : Place(o) = Place(e) /\ o \in Created(e)
      BY <1>2, <3>1
    <3>3. e \in F
      BY <3>1, <3>2 DEF Touching, F
    <3>4. e \in Upto(E, p)
      BY <1>9, <3>3, <3>2 DEF Upto
    <3> QED
      BY <3>1, <3>2, <3>4 DEF UnspentBy, Unspent, Outs, Upto
  <2>2. ASSUME NEW o \in UnspentBy(Upto(E, p), a)
        PROVE  o \in UnspentBy(E, a)
    <3>1. o.address = a /\ o \in Outs(E) /\ \A e \in Upto(E, p) : Prevout(o) \notin e.t.spends
      BY <2>2 DEF UnspentBy, Unspent, Outs, Upto
    <3>2. ASSUME NEW e \in E, Prevout(o) \in e.t.spends
          PROVE  FALSE
      <4>1. e \in F
        BY <3>1, <3>2 DEF Touching, OwnedBy, F
      <4> QED
        BY <1>9, <3>1, <3>2, <4>1 DEF Upto
    <3> QED
      BY <3>1, <3>2 DEF UnspentBy, Unspent
  <2> QED
    BY <2>1, <2>2
<1> QED
  BY <1>10, <1>12, <1>13, <1>14

\* The coins an address has after each of the listed transactions.
Held(es, a, n) == UnspentBy(First(es, n), a)

LEMMA HeldIsUpto ==
    ASSUME NEW E, NEW es, Lists(es, E), NEW n \in 1..Cardinality(E)
    PROVE  First(es, n) = Upto(E, Place(es[n]))
<1>1. Cardinality(E) \in Nat
  BY DEF Lists
<1>2. \A k \in 1..Cardinality(E) : k \in 1..n <=> ~Before(Place(es[n]), Place(es[k]))
  <2> TAKE k \in 1..Cardinality(E)
  <2>1. n < k <=> Before(Place(es[n]), Place(es[k]))
    BY DEF Lists
  <2> QED
    BY <1>1, <2>1
<1>3. \A k \in 1..n : k \in 1..Cardinality(E)
  BY <1>1
<1> QED
  BY <1>2, <1>3 DEF First, Upto, Lists

\* One transaction changes the coins of an address by what it brings and takes.
LEMMA HeldChanges ==
    ASSUME NEW E, GoodLedger(E), NEW es, Lists(es, E), NEW a, NEW n \in 1..Cardinality(E),
           NEW e, e = es[n]
    PROVE  /\ Lost(E, a, Place(e)) \in SUBSET Held(es, a, n - 1)
           /\ Held(es, a, n - 1) \cap Gained(E, a, Place(e)) = {}
           /\ Held(es, a, n) = (Held(es, a, n - 1) \ Lost(E, a, Place(e)))
                               \cup Gained(E, a, Place(e))
           /\ Held(es, a, n) \in SUBSET OwnedBy(E, a)
           /\ Held(es, a, n - 1) \in SUBSET OwnedBy(E, a)
<1> DEFINE F == First(es, n - 1)
           G == First(es, n)
           p == Place(e)
<1>1. /\ Cardinality(E) \in Nat /\ n - 1 \in 0..Cardinality(E) /\ n \in 0..Cardinality(E)
      /\ n # 0 /\ e \in E
  BY DEF Lists
<1>2. F \in SUBSET E /\ G \in SUBSET E
  BY <1>1, FirstOfList
<1>3. \A f \in E : f \in F <=> Before(Place(f), p)
  <2> TAKE f \in E
  <2>1. PICK k \in 1..Cardinality(E) : es[k] = f
    BY DEF Lists
  <2>2. k < n <=> Before(Place(f), p)
    BY <2>1 DEF Lists
  <2>3. k \in 1..n - 1 <=> k < n
    BY <1>1
  <2>4. f \in F => k \in 1..n - 1
    <3> SUFFICES ASSUME f \in F PROVE k \in 1..n - 1
      OBVIOUS
    <3>1. PICK j \in 1..n - 1 : es[j] = f
      BY DEF First
    <3>2. j \in 1..Cardinality(E) /\ j < n
      BY <1>1, <3>1
    <3>3. Before(Place(es[j]), Place(es[n]))
      BY <3>2 DEF Lists
    <3> QED
      BY <2>2, <2>3, <3>1, <3>3
  <2>5. k \in 1..n - 1 => f \in F
    BY <2>1 DEF First
  <2> QED
    BY <2>2, <2>3, <2>4, <2>5
<1>4. Unspent(G) = {c \in Unspent(F) : Prevout(c) \notin e.t.spends} \cup Created(e)
  BY UnspentGrows
<1>5. \A f \in E : Place(f) = p => f = e
  BY <1>1 DEF GoodLedger
<1>6. \A o \in Outs(E) : \E f \in E : o \in Created(f) /\ Place(o) = Place(f)
  BY OutsShape
<1>7. \A f \in E : \A o \in Created(f) : Place(o) = Place(f)
  BY CreatedShape
<1> HIDE DEF F, G, p
<1>8. \A o : o \in Unspent(F) <=> /\ o \in Outs(E) /\ Before(Place(o), p)
                                  /\ \A f \in E : Before(Place(f), p) => Prevout(o) \notin f.t.spends
  <2>1. \A o : o \in Outs(F) <=> o \in Outs(E) /\ Before(Place(o), p)
    BY <1>2, <1>3, <1>6, <1>7 DEF Outs
  <2> QED
    BY <1>2, <1>3, <2>1 DEF Unspent
<1>9. Gained(E, a, p) = {c \in Created(e) : c.address = a}
  <2>1. ASSUME NEW o \in Gained(E, a, p)
        PROVE  o \in Created(e) /\ o.address = a
    BY <1>5, <1>6 DEF Gained, OwnedBy
  <2>2. ASSUME NEW o \in Created(e), o.address = a
        PROVE  o \in Gained(E, a, p)
    BY <1>1, <1>7, <2>2 DEF Gained, OwnedBy, Outs, p
  <2> QED
    BY <2>1, <2>2
<1>10. Lost(E, a, p) = {o \in OwnedBy(E, a) : Prevout(o) \in e.t.spends}
  BY <1>1, <1>5 DEF Lost, p
<1>11. Held(es, a, n - 1) = {c \in Unspent(F) : c.address = a}
  BY DEF Held, UnspentBy, F
<1>12. Held(es, a, n) = {c \in Unspent(G) : c.address = a}
  BY DEF Held, UnspentBy, G
<1>13. \A c \in Unspent(F) : c.address = a => c \in OwnedBy(E, a)
  BY <1>8 DEF OwnedBy
<1>14. Lost(E, a, p) \in SUBSET Held(es, a, n - 1)
  <2> SUFFICES ASSUME NEW o \in OwnedBy(E, a), Prevout(o) \in e.t.spends
               PROVE  o \in Unspent(F) /\ o.address = a
    BY <1>10, <1>11
  <2>1. o \in Outs(E) /\ o.address = a
    BY DEF OwnedBy
  <2>2. PICK f \in E : o \in Created(f) /\ Place(o) = Place(f)
    BY <1>6, <2>1
  <2>3. Before(Place(o), p)
    BY <1>1, <2>2, SpentLater DEF p
  <2>4. \A d \in E : Prevout(o) \in d.t.spends => d = e
    BY <1>1 DEF GoodLedger, OneLedger
  <2>5. ~Before(p, p)
    BY <1>1 DEF p, Before, Place, GoodLedger
  <2> QED
    BY <1>8, <2>1, <2>3, <2>4, <2>5 DEF p
<1>15. Held(es, a, n - 1) \cap Gained(E, a, p) = {}
  <2>1. ~Before(p, p)
    BY <1>1 DEF p, Before, Place, GoodLedger
  <2> QED
    BY <1>8, <1>11, <2>1 DEF Gained
<1>16. Held(es, a, n) = (Held(es, a, n - 1) \ Lost(E, a, p)) \cup Gained(E, a, p)
  <2>1. Held(es, a, n) = {c \in Held(es, a, n - 1) : Prevout(c) \notin e.t.spends}
                         \cup Gained(E, a, p)
    BY <1>4, <1>9, <1>11, <1>12
  <2>2. \A c \in Held(es, a, n - 1) : Prevout(c) \in e.t.spends <=> c \in Lost(E, a, p)
    BY <1>10, <1>11, <1>13
  <2> QED
    BY <2>1, <2>2
<1>17. Held(es, a, n - 1) \in SUBSET OwnedBy(E, a) /\ Gained(E, a, p) \in SUBSET OwnedBy(E, a)
  BY <1>11, <1>13 DEF Gained
<1> QED
  BY <1>14, <1>15, <1>16, <1>17 DEF p

\* So the coins change exactly at the transactions that touch the address, and
\* their sum changes by the net of what is paid and spent.
LEMMA HeldAtTouching ==
    ASSUME NEW E, GoodLedger(E), NEW es, Lists(es, E), NEW a, NEW n \in 1..Cardinality(E)
    PROVE  /\ Held(es, a, n) # Held(es, a, n - 1) <=> es[n] \in Touching(E, a)
           /\ Net(E, a, Place(es[n])) = SumValues(Held(es, a, n)) - SumValues(Held(es, a, n - 1))
<1> DEFINE e == es[n]
           A == Held(es, a, n - 1)
           B == Held(es, a, n)
           L == Lost(E, a, Place(e))
           G == Gained(E, a, Place(e))
           O == OwnedBy(E, a)
<1>1. /\ L \in SUBSET A /\ A \cap G = {} /\ B = (A \ L) \cup G
      /\ B \in SUBSET O /\ A \in SUBSET O
  BY HeldChanges
<1>2. e \in E
  BY DEF Lists
<1>3. e \in Touching(E, a) <=> L # {} \/ G # {}
  <2>1. \A f \in E : Place(f) = Place(e) => f = e
    BY <1>2 DEF GoodLedger
  <2> QED
    BY <1>2, <2>1 DEF Touching, Lost, Gained
<1>4. IsFiniteSet(O) /\ \A o \in O : o.value \in Nat
  BY UnspentShape
<1> HIDE DEF e, A, B, L, G, O
<1>5. B # A <=> e \in Touching(E, a)
  BY <1>1, <1>3
<1>6. A \ L \in SUBSET O /\ L \in SUBSET O /\ G \in SUBSET O
      /\ (A \ L) \cap L = {} /\ A = (A \ L) \cup L /\ (A \ L) \cap G = {}
  BY <1>1
<1>7. SumValues(A) = SumValues(A \ L) + SumValues(L)
  BY <1>4, <1>6, ValuesUnion
<1>8. SumValues(B) = SumValues(A \ L) + SumValues(G)
  BY <1>1, <1>4, <1>6, ValuesUnion
<1>9. SumValues(A \ L) \in Nat /\ SumValues(L) \in Nat /\ SumValues(G) \in Nat
  <2>1. \A W \in SUBSET O : SumValues(W) \in Nat
    <3> TAKE W \in SUBSET O
    <3>1. IsFiniteSet(W) /\ \A o \in W : o.value \in Nat
      BY <1>4, FS_Subset
    <3> QED
      BY <3>1, ValuesSum
  <2> QED
    BY <1>6, <2>1
<1>10. SumValues(G) - SumValues(L) = SumValues(B) - SumValues(A)
  BY <1>7, <1>8, <1>9
<1> QED
  BY <1>5, <1>10 DEF e, A, B, L, G, Net

Touched(es, E, a) == {n \in 1..Cardinality(E) : es[n] \in Touching(E, a)}

\* M are the positions in the list of what is at the places K.
PositionsOf(M, es, K) ==
    /\ \A p : p \in K <=> \E n \in M : p = Place(es[n])
    /\ Cardinality(M) = Cardinality(K)
    /\ \A n \in M : Cardinality({k \in M : k > n}) =
                        Cardinality({q \in K : Before(Place(es[n]), q)})

LEMMA TouchedCounts ==
    ASSUME NEW E, GoodLedger(E), NEW es, Lists(es, E), NEW a
    PROVE  PositionsOf(Touched(es, E, a), es, PlacesOf(Touching(E, a)))
<1> DEFINE M == Touched(es, E, a)
           K == PlacesOf(Touching(E, a))
           b == [n \in M |-> Place(es[n])]
<1>0. M = {n \in 1..Cardinality(E) : es[n] \in Touching(E, a)}
  BY DEF Touched
<1> HIDE DEF M
<1>1. Cardinality(E) \in Nat
  BY DEF Lists
<1>2. IsFiniteSet(M)
  <2>1. 1 \in Int /\ Cardinality(E) \in Int
    BY <1>1
  <2>2. IsFiniteSet(1..Cardinality(E))
    BY <2>1, FS_Interval
  <2> QED
    BY <1>0, <2>2, FS_Subset
<1>3. \A n \in M : b[n] = Place(es[n])
  OBVIOUS
<1>4. \A n, m \in M : n < m <=> Before(b[n], b[m])
  BY <1>0 DEF Lists
<1>5. \A n, m \in M : b[n] = b[m] => n = m
  <2> TAKE n, m \in M
  <2>1. n \in Int /\ m \in Int
    BY <1>0, <1>1
  <2>2. ~(n < n) /\ ~(m < m)
    BY <2>1
  <2>3. b[n] = b[m] => ~(n < m) /\ ~(m < n)
    <3> HIDE DEF b
    <3> QED
      BY <1>4, <2>2
  <2> QED
    BY <2>1, <2>3
<1>6. K = {b[n] : n \in M}
  <2>1. \A n \in M : b[n] \in K
    BY <1>0 DEF PlacesOf
  <2>2. \A q \in K : \E n \in M : q = b[n]
    <3> TAKE q \in K
    <3>1. PICK e \in Touching(E, a) : q = Place(e)
      BY DEF PlacesOf
    <3>2. e \in E
      BY DEF Touching
    <3>3. PICK n \in 1..Cardinality(E) : es[n] = e
      BY <3>2 DEF Lists
    <3> QED
      BY <1>0, <3>1, <3>3
  <2> HIDE DEF b
  <2> QED
    BY <2>1, <2>2
<1> HIDE DEF b, K
<1>7. Cardinality(M) = Cardinality(K)
  BY <1>2, <1>5, <1>6, ImageFinite
<1>8. ASSUME NEW n \in M
      PROVE  Cardinality({k \in M : k > n}) = Cardinality({q \in K : Before(b[n], q)})
  <2> DEFINE S == {k \in M : k > n}
             T == {q \in K : Before(b[n], q)}
  <2>1. \A k \in M : k > n <=> n < k
    BY <1>0, <1>1
  <2>2. T = {b[k] : k \in S}
    BY <1>4, <1>6, <2>1
  <2>3. IsFiniteSet(S) /\ S \in SUBSET M
    BY <1>2, FS_Subset
  <2> HIDE DEF S, T
  <2>4. Cardinality(T) = Cardinality(S)
    BY <1>5, <2>2, <2>3, ImageFinite
  <2> QED
    BY <2>4 DEF S, T
<1>9. \A p : p \in K <=> \E n \in M : p = Place(es[n])
  BY <1>3, <1>6
<1> QED
  BY <1>3, <1>7, <1>8, <1>9 DEF PositionsOf, M, K

------------------------------------------------------------------------------
(***************************************************************************)
(* The rich list.                                                          *)
(***************************************************************************)
\* The coins some address owns, what an address owns, and who owns something.
OwnedCoins(E) == {c \in Unspent(E) : c.address \in Address}
Wealth(E, a) == SumValues(UnspentBy(E, a))
Funded(E) == {a \in Address : Wealth(E, a) > 0}

LEMMA UnspentFinite ==
    ASSUME NEW E, GoodLedger(E)
    PROVE  /\ Unspent(E) \in SUBSET Outs(E) /\ IsFiniteSet(Unspent(E))
           /\ \A c \in Unspent(E) : c.value \in Nat /\ c.address \in Address \cup {NoAddress}
<1>1. Unspent(E) \in SUBSET Outs(E)
  BY DEF Unspent
<1>2. IsFiniteSet(Unspent(E))
  BY <1>1, OutsFinite, FS_Subset
<1> QED
  BY <1>1, <1>2, OutsShape

LEMMA WealthIsNat ==
    ASSUME NEW E, GoodLedger(E), NEW a
    PROVE  Wealth(E, a) \in Nat
<1>1. UnspentBy(E, a) \in SUBSET Unspent(E)
  BY DEF UnspentBy
<1>2. IsFiniteSet(UnspentBy(E, a)) /\ \A c \in UnspentBy(E, a) : c.value \in Nat
  BY <1>1, UnspentFinite, FS_Subset
<1> QED
  BY <1>2, ValuesSum DEF Wealth

LEMMA StoredUtxos ==
    ASSUME TableInv, ToldInv, NEW V, OneChain(V)
    PROVE  utxos(V) = OwnedCoins(TxsOf(V))
<1> DEFINE C == canonical_tx(V)
           E == TxsOf(V)
<1>1. GoodLedger(E)
  BY GoodLedgerOfChain
<1>2. \A p : p \in spent_prevouts(V) <=> \E e \in E : p \in e.t.spends
  <2>1. \A p : p \in spent_prevouts(V) <=> \E r \in C : p \in Entry(r).t.spends
    BY DEF spent_prevouts, Entry
  <2>2. (\A r \in C : Entry(r) \in E) /\ \A e \in E : \E r \in C : Entry(r) = e
    BY StoredLedger
  <2> HIDE DEF C, E
  <2> QED
    BY <2>1, <2>2
<1>3. \A o : o \in utxos(V) <=> o \in Outs(E) /\ o.address # NoAddress
                                /\ Prevout(o) \notin spent_prevouts(V)
  BY AddressedOutputs DEF utxos, Paid
<1>4. \A o \in Outs(E) : o.address \in Address \cup {NoAddress}
  BY <1>1, OutsShape
<1> HIDE DEF E
<1>5. \A o : o \in OwnedCoins(E) <=>
                o \in Outs(E) /\ o.address \in Address /\ \A e \in E : Prevout(o) \notin e.t.spends
  BY DEF OwnedCoins, Unspent
<1>6. \A o : o \in utxos(V) <=> o \in OwnedCoins(E)
  BY <1>2, <1>3, <1>4, <1>5, LedgerAssumption
<1> QED
  BY <1>6 DEF E

\* `balances' has the addresses that own something.
LEMMA StoredBalances ==
    ASSUME TableInv, ToldInv, NEW V, OneChain(V)
    PROVE  /\ balances(V) = [a \in Funded(TxsOf(V)) |-> Wealth(TxsOf(V), a)]
           /\ IsFiniteSet(Funded(TxsOf(V)))
<1> DEFINE E == TxsOf(V)
           U == utxos(V)
           sum(a) == SumValues({o \in U : o.address = a})
           T == {o.address : o \in U}
<1>1. GoodLedger(E)
  BY GoodLedgerOfChain
<1>2. U = OwnedCoins(E)
  BY StoredUtxos
<1>3. balances(V) = [a \in {b \in T : sum(b) > 0} |-> sum(a)]
  BY DEF balances
<1> HIDE DEF U, E
<1>4. \A a \in Address : sum(a) = Wealth(E, a)
  <2> TAKE a \in Address
  <2>1. {o \in U : o.address = a} = UnspentBy(E, a)
    BY <1>2 DEF OwnedCoins, UnspentBy
  <2> QED
    BY <2>1 DEF Wealth
<1>5. T \in SUBSET Address
  BY <1>2 DEF OwnedCoins
<1>6. \A a \in Address : Wealth(E, a) > 0 => a \in T
  <2> SUFFICES ASSUME NEW a \in Address, a \notin T PROVE ~(Wealth(E, a) > 0)
    OBVIOUS
  <2>1. UnspentBy(E, a) = {}
    BY <1>2 DEF UnspentBy, OwnedCoins
  <2>2. SumValues({}) = 0
    BY SumEmpty DEF SumValues, SumFunction
  <2> QED
    BY <2>1, <2>2 DEF Wealth
<1> HIDE DEF sum
<1>7. {b \in T : sum(b) > 0} = Funded(E)
  BY <1>4, <1>5, <1>6 DEF Funded
<1>8. balances(V) = [a \in Funded(E) |-> Wealth(E, a)]
  <2>1. \A a \in Funded(E) : sum(a) = Wealth(E, a)
    BY <1>4 DEF Funded
  <2> QED
    BY <1>3, <1>7, <2>1
<1>9. IsFiniteSet(Funded(E))
  <2> DEFINE b == [o \in U |-> o.address]
  <2>1. IsFiniteSet(U)
    BY <1>1, <1>2, UnspentFinite, FS_Subset DEF OwnedCoins
  <2>2. T = {b[o] : o \in U}
    OBVIOUS
  <2> HIDE DEF b, T
  <2>3. IsFiniteSet(T)
    BY <2>1, <2>2, ImageFinite
  <2> QED
    BY <1>7, <2>3, FS_Subset
<1> QED
  BY <1>8, <1>9 DEF E

\* What the addresses own, added up by address, is what their coins add up to.
LEMMA AddressedSum ==
    ASSUME TableInv, ToldInv, NEW V, OneChain(V)
    PROVE  AddressedBalance(V) = SumValues(OwnedCoins(TxsOf(V)))
<1> DEFINE E == TxsOf(V)
           S == OwnedCoins(E)
           f == [c \in S |-> c.value]
           T == {c.address : c \in S}
           g == [a \in T |-> Wealth(E, a)]
           F == [a \in T |-> UnspentBy(E, a)]
           D == Funded(E)
           b == balances(V)
<1>1. GoodLedger(E) /\ IsFiniteSet(D) /\ b = [a \in D |-> Wealth(E, a)]
  BY GoodLedgerOfChain, StoredBalances
<1> HIDE DEF E
<1>2. IsFiniteSet(S) /\ \A c \in S : c.value \in Nat
  BY <1>1, UnspentFinite, FS_Subset DEF OwnedCoins
<1>3. IsFiniteSet(T)
  <2> DEFINE h == [c \in S |-> c.address]
  <2>1. T = {h[c] : c \in S}
    OBVIOUS
  <2> HIDE DEF h, T, S
  <2> QED
    BY <1>2, <2>1, ImageFinite
<1>4. \A a \in T : F[a] = {c \in S : c.address = a}
  BY DEF UnspentBy, OwnedCoins
<1>5. Parts(F, T, S) /\ UNION {F[a] : a \in T} = S
  <2> HIDE DEF F, S
  <2>1. \A a \in T : F[a] \in SUBSET S
    BY <1>4
  <2>2. \A a, u \in T : a # u => F[a] \cap F[u] = {}
    BY <1>4
  <2>3. UNION {F[a] : a \in T} = S
    BY <1>4
  <2> QED
    BY <2>1, <2>2, <2>3 DEF Parts
<1>6. \A a \in T : g[a] = SumFunctionOnSet(f, F[a]) /\ g[a] \in Int /\ g[a] = Wealth(E, a)
  <2> TAKE a \in T
  <2>1. F[a] \in SUBSET S
    BY <1>5 DEF Parts
  <2>2. SumValues(F[a]) = SumFunctionOnSet(f, F[a])
    <3> HIDE DEF S, F
    <3> QED
      BY <1>2, <2>1, ValuesOfSubset
  <2>3. g[a] = SumValues(F[a]) /\ g[a] = Wealth(E, a)
    BY DEF Wealth
  <2>4. Wealth(E, a) \in Nat
    BY <1>1, WealthIsNat
  <2> HIDE DEF g, F, f
  <2> QED
    BY <2>2, <2>3, <2>4
<1>7. D \in SUBSET T /\ \A a \in T \ D : g[a] = 0
  <2>1. \A a \in Address : a \notin T => UnspentBy(E, a) = {}
    BY DEF UnspentBy, OwnedCoins
  <2>2. SumValues({}) = 0
    BY SumEmpty DEF SumValues, SumFunction
  <2>3. D \in SUBSET T
    BY <2>1, <2>2 DEF Funded, Wealth
  <2>4. \A a \in T \ D : ~(Wealth(E, a) > 0) /\ Wealth(E, a) \in Nat
    BY <1>1, WealthIsNat DEF Funded, OwnedCoins
  <2>5. \A a \in T \ D : Wealth(E, a) = 0
    BY <2>4
  <2> QED
    BY <2>3, <2>5
<1> HIDE DEF S, f, T, g, F, D
<1>8. SumFunctionOnSet(g, T) = SumFunctionOnSet(f, S)
  <2>1. \A c \in S : f[c] \in Int
    BY <1>2 DEF f
  <2> QED
    BY <1>2, <1>3, <1>5, <1>6, <2>1, SumByParts
<1>9. SumFunctionOnSet(g, T) = SumFunctionOnSet(g, D)
  <2> DEFINE Q == T \ D
  <2>1. Q \in SUBSET T /\ D \cap Q = {} /\ D \cup Q = T /\ D \in SUBSET T
    BY <1>7
  <2>2. IsFiniteSet(Q) /\ \A a \in Q : g[a] = 0
    BY <1>3, <1>7, FS_Subset
  <2> HIDE DEF Q
  <2>3. SumFunctionOnSet(g, Q) = 0
    BY <2>2, SumZero
  <2>4. SumFunctionOnSet(g, D \cup Q) = SumFunctionOnSet(g, D) + SumFunctionOnSet(g, Q)
    BY <1>3, <1>6, <2>1, SumUnion
  <2>5. SumFunctionOnSet(g, D) \in Int
    BY <1>3, <1>6, <2>1, SumInt
  <2>6. SumFunctionOnSet(g, D \cup Q) = SumFunctionOnSet(g, D)
    BY <2>3, <2>4, <2>5
  <2> QED
    BY ONLY <2>1, <2>6
<1>10. SumFunctionOnSet(b, D) = SumFunctionOnSet(g, D)
  <2>1. \A a \in D : g[a] \in Int /\ b[a] = g[a]
    BY <1>1, <1>6, <1>7
  <2> HIDE DEF b
  <2> QED
    BY <1>1, <2>1, SumAgree
<1>11. AddressedBalance(V) = SumFunctionOnSet(b, D)
  BY <1>1 DEF AddressedBalance, SumFunction
<1>12. SumValues(S) = SumFunctionOnSet(f, S)
  BY DEF SumValues, SumFunction, f
<1> QED
  BY <1>8, <1>9, <1>10, <1>11, <1>12 DEF S, E

\* What a rich list says.
RichFacts(sums, E) ==
    /\ sums.addressed_balance = SumValues(OwnedCoins(E))
    /\ sums.funded_address_count = Cardinality(Funded(E))
    /\ \A r \in sums.rows : /\ r.address \in Funded(E)
                            /\ r.balance = Wealth(E, r.address)
                            /\ r.balance = r.total_received - r.total_sent
    /\ \A a \in Funded(E), r \in sums.rows :
          Wealth(E, a) > r.balance => \E q \in sums.rows : q.address = a

LEMMA ReceivedLessSent ==
    ASSUME NEW E, GoodLedger(E), NEW a
    PROVE  SumValues(OwnedBy(E, a)) - SumValues(OwnedBy(E, a) \ UnspentBy(E, a)) = Wealth(E, a)
<1> DEFINE O == OwnedBy(E, a)
           U == UnspentBy(E, a)
<1>1. /\ U \in SUBSET O /\ O \ U \in SUBSET O /\ (O \ U) \cap U = {} /\ O = (O \ U) \cup U
      /\ IsFiniteSet(O) /\ \A o \in O : o.value \in Nat
  BY UnspentShape
<1>2. IsFiniteSet(U) /\ IsFiniteSet(O \ U)
  BY <1>1, FS_Subset
<1> HIDE DEF O, U
<1>3. SumValues(O) = SumValues(O \ U) + SumValues(U)
  BY <1>1, ValuesUnion
<1>4. SumValues(U) \in Nat
  BY <1>1, <1>2, ValuesSum
<1>5. \A o \in O \ U : o.value \in Nat
  BY <1>1
<1>6. SumValues(O \ U) \in Nat
  BY <1>2, <1>5, ValuesSum
<1>7. SumValues(O) - SumValues(O \ U) = SumValues(U)
  BY <1>3, <1>4, <1>6
<1> QED
  BY <1>7 DEF O, U, Wealth

LEMMA RichAnswered ==
    ASSUME TableInv, ToldInv, NEW V, OneChain(V)
    PROVE  RichFacts(RICH_LIST_QUERY(V), TxsOf(V))
<1> DEFINE E == TxsOf(V)
           D == Funded(E)
           b == balances(V)
           all == events(V)
           ahead(a) == {c \in DOMAIN b : b[c] > b[a]}
           total(outs, a) == SumValues({o \in outs : o.address = a})
           k == Min({RichLimit, Cardinality(DOMAIN b)})
           Listed(S) == S \in SUBSET DOMAIN b /\ Cardinality(S) = k /\ \A a \in S : ahead(a) \subseteq S
           listed == CHOOSE S \in SUBSET DOMAIN b :
                     /\ Cardinality(S) = k
                     /\ \A a \in S : ahead(a) \subseteq S
           row(a) == [address |-> a, balance |-> b[a],
                total_received |-> total(Addressed(V), a),
                total_sent |-> total(Addressed(V) \ utxos(V), a),
                utxo_count |-> Cardinality({o \in utxos(V) : o.address = a}),
                transaction_count |-> Cardinality({e \in all : e.address = a})]
           list == RICH_LIST_QUERY(V)
<1>1. list = [funded_address_count |-> Cardinality(DOMAIN b),
              addressed_balance |-> AddressedBalance(V),
              rows |-> {row(a) : a \in listed}]
  BY DEF RICH_LIST_QUERY
<1>2. /\ b = [a \in D |-> Wealth(E, a)] /\ IsFiniteSet(D) /\ GoodLedger(E)
      /\ AddressedBalance(V) = SumValues(OwnedCoins(E))
  BY StoredBalances, GoodLedgerOfChain, AddressedSum
<1>3. \A a : /\ row(a).address = a /\ row(a).balance = b[a]
             /\ row(a).total_received = total(Addressed(V), a)
             /\ row(a).total_sent = total(Addressed(V) \ utxos(V), a)
  OBVIOUS
<1>4. Addressed(V) = Paid(E) /\ utxos(V) = OwnedCoins(E)
  BY AddressedOutputs, StoredUtxos
<1> HIDE DEF E, row
<1>5. DOMAIN b = D /\ D \in SUBSET Address /\ \A a \in D : b[a] = Wealth(E, a)
  <2>1. D \in SUBSET Address
    BY DEF Funded
  <2> HIDE DEF D, b
  <2> QED
    BY <1>2, <2>1
<1>6. Listed(listed)
  <2>1. Cardinality(D) \in Nat /\ RichLimit \in Nat
    BY <1>2, FS_CardinalityType, LedgerAssumption
  <2>2. k \in 0..Cardinality(D)
    <3> HIDE DEF D, b
    <3> QED
      BY <1>5, <2>1, MinOfTwo
  <2>3. \A a \in D : b[a] \in Int
    <3>1. \A a \in D : Wealth(E, a) \in Nat
      BY <1>2, WealthIsNat
    <3> HIDE DEF D, b
    <3> QED
      BY <1>5, <3>1
  <2> HIDE DEF D, b, k
  <2>4. PICK S : Leads(S, k, D, b)
    BY <1>2, <2>2, <2>3, LeadersExist
  <2>5. Listed(S)
    BY <1>5, <2>4 DEF Leads
  <2> QED
    BY <2>5
<1>7. ASSUME NEW a \in Address
      PROVE  total(Addressed(V), a) - total(Addressed(V) \ utxos(V), a) = Wealth(E, a)
  <2>1. {o \in Paid(E) : o.address = a} = OwnedBy(E, a)
    BY LedgerAssumption DEF Paid, OwnedBy
  <2>2. {o \in Paid(E) \ OwnedCoins(E) : o.address = a} = OwnedBy(E, a) \ UnspentBy(E, a)
    BY LedgerAssumption DEF Paid, OwnedBy, OwnedCoins, UnspentBy, Unspent
  <2> QED
    BY <1>2, <1>4, <2>1, <2>2, ReceivedLessSent
<1> HIDE DEF b, D, total, listed, ahead, k
<1>8. /\ list.addressed_balance = AddressedBalance(V)
      /\ list.funded_address_count = Cardinality(DOMAIN b)
      /\ list.rows = {row(a) : a \in listed}
  BY ONLY <1>1
<1>9. listed \in SUBSET D /\ \A a \in listed : ahead(a) \subseteq listed
  BY <1>5, <1>6
<1> HIDE DEF list, Listed
<1>10. ASSUME NEW r \in list.rows
       PROVE  /\ r.address \in D /\ r.balance = Wealth(E, r.address)
              /\ r.balance = r.total_received - r.total_sent
  <2>1. PICK a \in listed : r = row(a)
    BY <1>8
  <2>2. a \in D /\ a \in Address
    BY <1>5, <1>9
  <2> QED
    BY <1>3, <1>5, <1>7, <2>1, <2>2
<1>11. ASSUME NEW a \in D, NEW r \in list.rows, Wealth(E, a) > r.balance
       PROVE  \E q \in list.rows : q.address = a
  <2>1. PICK c \in listed : r = row(c)
    BY <1>8
  <2>2. b[a] > b[c]
    BY <1>3, <1>5, <1>11, <2>1
  <2>3. a \in ahead(c)
    BY <1>5, <2>2 DEF ahead
  <2>4. a \in listed
    BY <1>9, <2>1, <2>3
  <2> QED
    BY <1>3, <1>8, <2>4
<1> QED
  BY <1>2, <1>5, <1>8, <1>10, <1>11 DEF RichFacts, D, E, list

\* The share of a part is at most the whole.
LEMMA ShareAtMostWhole ==
    ASSUME NEW n \in Nat, NEW d \in Nat, n <= d
    PROVE  exact_percent(n, d) <= PercentScale
<1>1. PercentScale \in Nat
  BY LedgerAssumption
<1>2. CASE d = 0
  BY <1>1, <1>2 DEF exact_percent
<1>3. CASE d > 0
  <2> DEFINE P == PercentScale
             q == (n * P) \div d
  <2>1. n * P <= d * P
    BY <1>1
  <2>2. q * d <= n * P
    BY <1>1, <1>3
  <2>3. q \in Int
    BY <1>1, <1>3
  <2>4. q <= P
    <3> SUFFICES ASSUME q >= P + 1 PROVE FALSE
      BY <1>1, <2>3
    <3> HIDE DEF q, P
    <3>1. q * d >= (P + 1) * d
      BY <1>1, <1>3, <2>3 DEF P
    <3>2. (P + 1) * d = d * P + d
      BY <1>1 DEF P
    <3> QED
      BY <1>1, <1>3, <2>1, <2>2, <2>3, <3>1, <3>2 DEF P
  <2> QED
    BY <1>3, <2>4 DEF exact_percent
<1> QED
  BY <1>2, <1>3

\* What no address owns is the rest of what is unspent, and what anybody owns
\* is a part of it.
LEMMA UnspentSplit ==
    ASSUME NEW E, GoodLedger(E)
    PROVE  /\ SumValues(OwnedCoins(E)) \in Nat /\ Wealth(E, NoAddress) \in Nat
           /\ SumValues(Unspent(E)) = SumValues(OwnedCoins(E)) + Wealth(E, NoAddress)
<1> DEFINE U == Unspent(E)
           A == OwnedCoins(E)
           B == UnspentBy(E, NoAddress)
<1>1. IsFiniteSet(U) /\ (\A c \in U : c.value \in Nat /\ c.address \in Address \cup {NoAddress})
  BY UnspentFinite
<1>2. A \in SUBSET U /\ B \in SUBSET U /\ A \cap B = {} /\ U = A \cup B
  BY <1>1, LedgerAssumption DEF OwnedCoins, UnspentBy
<1>3. IsFiniteSet(A) /\ IsFiniteSet(B)
  BY <1>1, <1>2, FS_Subset
<1> HIDE DEF U, A, B
<1>4. SumValues(U) = SumValues(A) + SumValues(B)
  BY <1>1, <1>2, ValuesUnion
<1>5. (\A c \in A : c.value \in Nat) /\ \A c \in B : c.value \in Nat
  BY <1>1, <1>2
<1>6. SumValues(A) \in Nat /\ SumValues(B) \in Nat
  BY <1>3, <1>5, ValuesSum
<1> QED
  BY <1>4, <1>6 DEF U, A, B, Wealth

LEMMA WealthIsPart ==
    ASSUME NEW E, GoodLedger(E), NEW a
    PROVE  SumValues(Unspent(E)) \in Nat /\ Wealth(E, a) <= SumValues(Unspent(E))
<1> DEFINE U == Unspent(E)
           A == UnspentBy(E, a)
           B == U \ A
<1>1. IsFiniteSet(U) /\ (\A c \in U : c.value \in Nat)
  BY UnspentFinite
<1>2. A \in SUBSET U /\ B \in SUBSET U /\ A \cap B = {} /\ U = A \cup B
  BY DEF UnspentBy
<1>3. IsFiniteSet(A) /\ IsFiniteSet(B)
  BY <1>1, <1>2, FS_Subset
<1> HIDE DEF U, A, B
<1>4. SumValues(U) = SumValues(A) + SumValues(B)
  BY <1>1, <1>2, ValuesUnion
<1>5. (\A c \in A : c.value \in Nat) /\ \A c \in B : c.value \in Nat
  BY <1>1, <1>2
<1>6. SumValues(A) \in Nat /\ SumValues(B) \in Nat
  BY <1>3, <1>5, ValuesSum
<1>7. SumValues(U) \in Nat /\ SumValues(A) <= SumValues(U)
  BY <1>4, <1>6
<1> QED
  BY <1>7 DEF U, A, Wealth

\* The pool the node tells with the tip is what the transactions told with the
\* snapshot's chain leave unspent, so the addresses never own more than it has.
LEMMA PoolAnswered ==
    ASSUME TableInv, ToldInv, NEW V, OneChain(V), NEW tip,
           NEW sum, sum = SumValues(OwnedCoins(TxsOf(V)))
    PROVE  LET p == LATEST_TRANSPARENT_POOL_QUERY(V, tip, TransparentPool(V))
               rest == unassigned_transparent_balance(p, sum)
           IN  /\ rest # PoolError
               /\ (\E s \in V : s.height = tip.height /\ s.hash = tip.hash) =>
                     <<p, rest>> = <<SumValues(Unspent(TxsOf(V))), Wealth(TxsOf(V), NoAddress)>>
<1> DEFINE E == TxsOf(V)
           p == LATEST_TRANSPARENT_POOL_QUERY(V, tip, TransparentPool(V))
           whole == SumValues(Unspent(E))
           none == Wealth(E, NoAddress)
<1>1. GoodLedger(E)
  BY GoodLedgerOfChain
<1>2. TransparentPool(V) = whole
  BY <1>1, CoinsAreUnspent DEF TransparentPool
<1>3. sum \in Nat /\ none \in Nat /\ whole = sum + none
  BY <1>1, UnspentSplit
<1>4. p \in {whole, NoPool}
      /\ ((\E s \in V : s.height = tip.height /\ s.hash = tip.hash) => p = whole)
  BY <1>2 DEF LATEST_TRANSPARENT_POOL_QUERY
<1> HIDE DEF whole, none, p
<1>5. CASE p = whole
  <2>1. unassigned_transparent_balance(p, sum) = none
    BY <1>3, <1>5 DEF unassigned_transparent_balance, NoPool
  <2>2. none # PoolError
    BY <1>3 DEF PoolError
  <2> QED
    BY <1>5, <2>1, <2>2 DEF p, whole, none
<1>6. CASE p = NoPool /\ p # whole
  <2>1. unassigned_transparent_balance(p, sum) # PoolError
    BY <1>6 DEF unassigned_transparent_balance, NoPool, PoolError
  <2> QED
    BY <1>4, <1>6, <2>1 DEF p
<1> QED
  BY <1>4, <1>5, <1>6

------------------------------------------------------------------------------
(***************************************************************************)
(* What a request on a snapshot has read, in terms of the transactions     *)
(* told with the chain in the snapshot.                                    *)
(***************************************************************************)
\* address, after its first statement: the totals.
TotalsRead(r, E) ==
    r.kind = "address" /\ r.pc \in {"activity", "done"} =>
        /\ BalanceFacts(r.sums, E, r.id, r.meta.height)
        /\ EventFacts(r.sums, E, r.id)
        /\ OwnedBy(E, r.id) # {}

\* address, after its second statement: the newest transactions.
RowsRead(r, E) ==
    r.kind = "address" /\ r.pc = "done" => ActivityFacts(r.list, E, r.id)

\* network_history and address_stats: the points of the history.
PointsRead(r, E) ==
    /\ r.kind = "network_history" /\ r.pc = "done" => HistoryFacts(r.list)
    /\ r.kind = "address_stats" /\ r.pc \in {"pool", "done"} => StatFacts(r.list, E)

\* rich_list and address_stats: what the addresses own; the ranking; the pool.
OwnersRead(r, E) ==
    /\ r.kind \in {"rich_list", "address_stats"} => r.pc # "failed"
    /\ r.kind \in {"rich_list", "address_stats"} /\ r.pc \in {"pool", "done"} =>
          r.sums.addressed_balance = SumValues(OwnedCoins(E))
    /\ r.kind = "rich_list" /\ r.pc \in {"pool", "done"} => RichFacts(r.sums, E)
    /\ r.kind = "rich_list" /\ r.pc = "done" /\ r.meta # NoTip =>
          r.pool = <<SumValues(Unspent(E)), Wealth(E, NoAddress)>>

SnapshotRead(r, E) ==
    TotalsRead(r, E) /\ RowsRead(r, E) /\ PointsRead(r, E) /\ OwnersRead(r, E)

AnswerInv ==
    /\ OneChain(req.view)
    /\ req.meta \in Tip
    /\ SnapshotRead(req, TxsOf(req.view))

\* The fields what was read is kept in.
SameRead ==
    /\ req'.kind = req.kind /\ req'.id = req.id /\ req'.meta = req.meta
    /\ req'.view = req.view /\ req'.sums = req.sums /\ req'.list = req.list
    /\ req'.pool = req.pool

\* The transactions told with the blocks in the snapshot do not change.
LEMMA SnapshotKept ==
    ASSUME OneChain(req.view), Kept, req'.view = req.view
    PROVE  OneChain(req.view)' /\ TxsOf(req.view)' = TxsOf(req.view)
<1>1. PICK V : V = req.view
  OBVIOUS
<1>2. OneChain(V)' /\ TxsOf(V)' = TxsOf(V)
  BY <1>1, OneChainKept, TxsOfKept
<1>3. OneChain(req.view)' = OneChain(V)'
  BY <1>1 DEF OneChain
<1>4. TxsOf(req.view)' = TxsOf(V)' /\ TxsOf(req.view) = TxsOf(V)
  BY <1>1 DEF TxsOf
<1> QED
  BY <1>2, <1>3, <1>4

LEMMA AnswersUndisturbed ==
    ASSUME AnswerInv, Kept, SameRead, req'.pc = req.pc
    PROVE  AnswerInv'
<1>1. OneChain(req.view)' /\ TxsOf(req.view)' = TxsOf(req.view)
  BY SnapshotKept DEF AnswerInv, SameRead
<1>2. SnapshotRead(req', TxsOf(req.view))
  BY DEF AnswerInv, SameRead, SnapshotRead, TotalsRead, RowsRead, PointsRead, OwnersRead
<1> QED
  BY <1>1, <1>2 DEF AnswerInv, SameRead, Tip

\* Nothing is said of the other routes.
LEMMA OtherRoute ==
    ASSUME NEW r, NEW E, r.kind \notin SnapshotRoutes \/ r.pc \notin {"activity", "pool", "done", "failed"}
    PROVE  SnapshotRead(r, E)
BY DEF SnapshotRoutes, SnapshotRead, TotalsRead, RowsRead, PointsRead, OwnersRead

LEMMA EmptyChain == OneChain({})
BY DEF OneChain

LEMMA AnswersStart ==
    ASSUME TableInv, UNCHANGED tables, chain_state \/ Answered
    PROVE  AnswerInv'
<1>1. UNCHANGED <<canon, facts, state>>
  BY DEF tables, dbVars
<1>2. OneChain({})' /\ OneChain(Selectors)'
  <2>1. OneChain(Selectors) /\ OneChain({})
    BY SelectorsAreOneChain, EmptyChain
  <2>2. Selectors' = Selectors
    BY <1>1 DEF Selectors, SelectorsOf
  <2> QED
    BY <1>1, <2>1, <2>2 DEF OneChain
<1>3. CASE chain_state
  <2>1. PICK kind \in Routes : \E id \in Asked(kind) :
           req' = [Idle EXCEPT
                !.kind = kind, !.id = id, !.meta = state.indexed,
                !.pc = SecondStatement(kind),
                !.view = IF kind \in SnapshotRoutes THEN Selectors ELSE {}]
    BY <1>3 DEF chain_state
  <2>2. req'.meta = state.indexed /\ req'.pc = SecondStatement(kind)
        /\ req'.view = IF kind \in SnapshotRoutes THEN Selectors ELSE {}
    BY <2>1 DEF Idle
  <2>3. req'.pc \notin {"activity", "pool", "done", "failed"}
    BY <2>2, ReadAssumption
       DEF SecondStatement, AllRoutes, BlockRoutes, Listings, SnapshotRoutes
  <2>4. req'.meta \in Tip
    BY <2>2 DEF TableInv, ChainInv, DbTypeOK, Tip
  <2>5. Selectors' = Selectors
    BY <1>1 DEF Selectors, SelectorsOf
  <2>6. OneChain(req.view)'
    BY <1>2, <2>2, <2>5 DEF OneChain
  <2> QED
    BY <2>3, <2>4, <2>6, OtherRoute DEF AnswerInv, Tip
<1>4. CASE Answered
  <2>1. req'.view = {} /\ req'.meta = NoTip /\ req'.pc = "idle"
    BY <1>4 DEF Answered, Idle
  <2>2. OneChain(req.view)'
    BY <1>2, <2>1 DEF OneChain
  <2> QED
    BY <2>1, <2>2, OtherRoute, TreeAssumption DEF AnswerInv, Tip, NoTip
<1> QED
  BY <1>3, <1>4

\* The statements on a snapshot.
LEMMA StatementOnSnapshot ==
    ASSUME AnswerInv, UNCHANGED tables, req'.kind = req.kind, req'.id = req.id,
           req'.meta = req.meta, req'.view = req.view, SnapshotRead(req', TxsOf(req.view))
    PROVE  AnswerInv'
<1>1. Kept
  BY DEF tables, dbVars, txVars, Kept
<1>2. OneChain(req.view)' /\ TxsOf(req.view)' = TxsOf(req.view)
  BY <1>1, SnapshotKept DEF AnswerInv
<1> QED
  BY <1>2 DEF AnswerInv, Tip

LEMMA BalanceRead ==
    ASSUME TableInv, ToldInv, ReqInv, AnswerInv, UNCHANGED tables, balance
    PROVE  AnswerInv'
<1> DEFINE V == req.view
           b == ADDRESS_BALANCE_QUERY(V, req.id, Max({req.meta.height, 0}))
           E == TxsOf(V)
<1>1. /\ DOMAIN req = Fields /\ req.kind = "address"
      /\ \A s \in V : s.height <= req.meta.height
  BY DEF ReqInv, StatementOfRoute, balance, Statement, SnapshotOfTip, SnapshotRoutes
<1>2. /\ req'.kind = req.kind /\ req'.id = req.id /\ req'.meta = req.meta /\ req'.view = req.view
      /\ req'.pc \in {"activity", "not_found"}
      /\ req'.pc = "activity" => b.exists /\ req'.sums = b
  <2>1. req' = IF b.exists THEN [req EXCEPT !.pc = "activity", !.sums = b]
               ELSE [req EXCEPT !.pc = "not_found"]
    BY DEF balance
  <2> HIDE DEF b
  <2> QED
    BY <1>1, <2>1 DEF Fields
<1>3. req.meta.height \in Int /\ OneChain(V)
  BY TreeAssumption DEF AnswerInv, Tip
<1>4. /\ BalanceFacts(b, E, req.id, req.meta.height) /\ EventFacts(b, E, req.id)
      /\ b.exists <=> OwnedBy(E, req.id) # {}
  BY <1>1, <1>3, BalanceAnswered
<1>5. SnapshotRead(req', E)
  <2> HIDE DEF b, E
  <2> QED
    BY <1>1, <1>2, <1>4 DEF SnapshotRead, TotalsRead, RowsRead, PointsRead, OwnersRead
<1> QED
  BY <1>2, <1>5, StatementOnSnapshot

LEMMA ActivityRead ==
    ASSUME TableInv, ToldInv, ReqInv, AnswerInv, UNCHANGED tables, activity
    PROVE  AnswerInv'
<1> DEFINE V == req.view
           E == TxsOf(V)
<1>1. DOMAIN req = Fields /\ req.kind = "address" /\ req.pc = "activity"
  BY DEF ReqInv, StatementOfRoute, activity, Statement
<1>2. /\ req'.kind = req.kind /\ req'.id = req.id /\ req'.meta = req.meta /\ req'.view = req.view
      /\ req'.pc = "done" /\ req'.sums = req.sums
      /\ req'.list = ADDRESS_ACTIVITY_QUERY(V, req.id)
  BY <1>1 DEF activity, Fields
<1>3. ActivityFacts(ADDRESS_ACTIVITY_QUERY(V, req.id), E, req.id)
  BY ActivityAnswered DEF AnswerInv
<1>4. SnapshotRead(req', E)
  <2>1. TotalsRead(req, E)
    BY DEF AnswerInv, SnapshotRead
  <2> HIDE DEF V, E
  <2> QED
    BY <1>1, <1>2, <1>3, <2>1 DEF SnapshotRead, TotalsRead, RowsRead, PointsRead, OwnersRead
<1> QED
  BY <1>2, <1>4, StatementOnSnapshot

LEMMA HistoryRead ==
    ASSUME TableInv, ToldInv, ReqInv, AnswerInv, UNCHANGED tables, network_history
    PROVE  AnswerInv'
<1> DEFINE V == req.view
           E == TxsOf(V)
<1>1. DOMAIN req = Fields /\ req.kind = "network_history"
  BY DEF ReqInv, StatementOfRoute, network_history, Statement
<1>2. /\ req'.kind = req.kind /\ req'.id = req.id /\ req'.meta = req.meta /\ req'.view = req.view
      /\ req'.pc = "done" /\ req'.list = NETWORK_HISTORY_QUERY(V)
  BY <1>1 DEF network_history, Fields
<1>3. HistoryFacts(NETWORK_HISTORY_QUERY(V))
  BY HistoryAnswered DEF AnswerInv
<1>4. SnapshotRead(req', E)
  <2> HIDE DEF V, E
  <2> QED
    BY <1>1, <1>2, <1>3 DEF SnapshotRead, TotalsRead, RowsRead, PointsRead, OwnersRead
<1> QED
  BY <1>2, <1>4, StatementOnSnapshot

LEMMA StatsRead ==
    ASSUME TableInv, ToldInv, ReqInv, AnswerInv, UNCHANGED tables, address_stats
    PROVE  AnswerInv'
<1> DEFINE V == req.view
           E == TxsOf(V)
<1>1. DOMAIN req = Fields /\ req.kind = "address_stats"
  BY DEF ReqInv, StatementOfRoute, address_stats, Statement
<1>2. /\ req'.kind = req.kind /\ req'.id = req.id /\ req'.meta = req.meta /\ req'.view = req.view
      /\ req'.pc = "pool" /\ req'.list = ADDRESS_STATS_QUERY(V)
      /\ req'.sums = CURRENT_ADDRESS_STATS_QUERY(V)
  BY <1>1 DEF address_stats, Fields
<1>3. /\ StatFacts(ADDRESS_STATS_QUERY(V), E)
      /\ CURRENT_ADDRESS_STATS_QUERY(V).addressed_balance = SumValues(OwnedCoins(E))
  BY StatsAnswered, AddressedSum DEF AnswerInv, CURRENT_ADDRESS_STATS_QUERY
<1>4. SnapshotRead(req', E)
  <2> HIDE DEF V, E
  <2> QED
    BY <1>1, <1>2, <1>3 DEF SnapshotRead, TotalsRead, RowsRead, PointsRead, OwnersRead
<1> QED
  BY <1>2, <1>4, StatementOnSnapshot

LEMMA RichListRead ==
    ASSUME TableInv, ToldInv, ReqInv, AnswerInv, UNCHANGED tables, rich_list
    PROVE  AnswerInv'
<1> DEFINE V == req.view
           E == TxsOf(V)
<1>1. DOMAIN req = Fields /\ req.kind = "rich_list"
  BY DEF ReqInv, StatementOfRoute, rich_list, Statement
<1>2. /\ req'.kind = req.kind /\ req'.id = req.id /\ req'.meta = req.meta /\ req'.view = req.view
      /\ req'.pc = "pool" /\ req'.sums = RICH_LIST_QUERY(V)
  BY <1>1 DEF rich_list, Fields
<1>3. /\ RichFacts(RICH_LIST_QUERY(V), E)
      /\ RICH_LIST_QUERY(V).addressed_balance = SumValues(OwnedCoins(E))
  BY RichAnswered DEF AnswerInv, RichFacts
<1>4. SnapshotRead(req', E)
  <2> HIDE DEF V, E
  <2> QED
    BY <1>1, <1>2, <1>3 DEF SnapshotRead, TotalsRead, RowsRead, PointsRead, OwnersRead
<1> QED
  BY <1>2, <1>4, StatementOnSnapshot

LEMMA PoolRead ==
    ASSUME TableInv, ToldInv, ReqInv, AnswerInv, UNCHANGED tables, pool
    PROVE  AnswerInv'
<1> DEFINE V == req.view
           E == TxsOf(V)
           p == LATEST_TRANSPARENT_POOL_QUERY(V, req.meta, TransparentPool(V))
           rest == unassigned_transparent_balance(p, req.sums.addressed_balance)
<1>1. /\ DOMAIN req = Fields /\ req.kind \in {"rich_list", "address_stats"}
      /\ req.pc = "pool"
  BY DEF ReqInv, StatementOfRoute, pool, Statement
<1>2. /\ req'.kind = req.kind /\ req'.id = req.id /\ req'.meta = req.meta /\ req'.view = req.view
      /\ req'.sums = req.sums /\ req'.list = req.list
      /\ req'.pc = IF rest = PoolError THEN "failed" ELSE "done"
      /\ req'.pool = <<p, rest>>
  <2>1. req' = [req EXCEPT !.pool = <<p, rest>>,
                   !.pc = IF rest = PoolError THEN "failed" ELSE "done"]
    BY DEF pool
  <2> HIDE DEF p, rest
  <2> QED
    BY <1>1, <2>1 DEF Fields
<1>3. OneChain(V) /\ SnapshotRead(req, E)
  BY DEF AnswerInv
<1>4. req.sums.addressed_balance = SumValues(OwnedCoins(E))
  BY <1>1, <1>3 DEF SnapshotRead, OwnersRead
<1>5. /\ rest # PoolError
      /\ (\E s \in V : s.height = req.meta.height /\ s.hash = req.meta.hash) =>
            <<p, rest>> = <<SumValues(Unspent(E)), Wealth(E, NoAddress)>>
  BY <1>3, <1>4, PoolAnswered
<1>6. req.meta # NoTip => \E s \in V : s.height = req.meta.height /\ s.hash = req.meta.hash
  BY <1>1 DEF ReqInv, SnapshotOfTip, SnapshotRoutes
<1>7. SnapshotRead(req', E)
  <2> HIDE DEF p, rest, V, E
  <2> QED
    BY <1>1, <1>2, <1>3, <1>5, <1>6
       DEF SnapshotRead, TotalsRead, RowsRead, PointsRead, OwnersRead
<1> QED
  BY <1>2, <1>7, StatementOnSnapshot

\* The statements of the other routes, and of a search.
LEMMA OtherStatement ==
    ASSUME TableInv, ReqInv, AnswerInv, UNCHANGED tables,
           \/ latest \/ find_block \/ keyed \/ auxpow \/ observations \/ find_tx \/ instance
           \/ search \/ page \/ next_page
    PROVE  AnswerInv'
<1>1. DOMAIN req = Fields
  BY DEF ReqInv
<1>2. req.kind = "search" \/ req.kind \notin SnapshotRoutes
  BY DEF ReqInv, StatementOfRoute, latest, find_block, keyed, auxpow, observations, find_tx,
         instance, search, page, next_page, Statement, SnapshotRoutes, BlockRoutes, Listings
<1>3. /\ req'.kind = req.kind /\ req'.view = req.view
      /\ req'.meta \in {req.meta, state.indexed}
  <2>1. CASE latest \/ keyed \/ observations \/ next_page \/ auxpow
    BY <1>1, <2>1 DEF latest, keyed, observations, auxpow, next_page, Fields
  <2>2. CASE search
    <3>1. \E c : req' = [req EXCEPT !.pc = c]
      BY <2>2 DEF search
    <3> QED
      BY <1>1, <3>1 DEF Fields
  <2>3. CASE find_block
    BY <1>1, <2>3 DEF find_block, Fields
  <2>4. CASE find_tx
    <3>1. \/ req' = [req EXCEPT !.pc = "not_found"]
          \/ \E l, d : req' = [req EXCEPT !.pc = "instance", !.list = l, !.row = d]
      BY <2>4 DEF find_tx
    <3> QED
      BY <1>1, <3>1 DEF Fields
  <2>5. CASE instance
    BY <1>1, <2>5 DEF instance, Fields
  <2>6. CASE page
    <3>1. \E a, b, c, d :
             req' = [req EXCEPT !.cursor = a, !.walk = b, !.moved = c, !.pc = d]
      BY <2>6 DEF page
    <3> QED
      BY <1>1, <3>1 DEF Fields
  <2> QED
    BY <2>1, <2>2, <2>3, <2>4, <2>5, <2>6
<1>4. Kept
  BY DEF tables, dbVars, txVars, Kept
<1>5. OneChain(req.view)'
  BY <1>3, <1>4, SnapshotKept DEF AnswerInv
<1>6. req'.meta \in Tip
  BY <1>3 DEF AnswerInv, TableInv, ChainInv, DbTypeOK
<1>7. SnapshotRead(req', TxsOf(req.view)')
  BY <1>2, <1>3 DEF SnapshotRead, TotalsRead, RowsRead, PointsRead, OwnersRead, SnapshotRoutes
<1> QED
  BY <1>5, <1>6, <1>7 DEF AnswerInv, Tip

AInv == IInv /\ ToldInv /\ AnswerInv

LEMMA AnswersInit ==
    ASSUME Init
    PROVE  AInv
<1>1. req.view = {} /\ req.meta = NoTip /\ req.pc = "idle"
  BY DEF Init, Idle
<1>2. OneChain(req.view) /\ SnapshotRead(req, TxsOf(req.view))
  BY <1>1, EmptyChain, OtherRoute
<1>3. ToldInv
  BY DEF Init, TxInit, ToldInv
<1> QED
  BY <1>1, <1>2, <1>3, ReadersInit, TreeAssumption DEF AInv, AnswerInv, Tip, NoTip

LEMMA AnswersNext ==
    ASSUME AInv, [Next]_vars
    PROVE  AInv'
<1>1. TableInv /\ ReqInv /\ ToldInv /\ AnswerInv
  BY DEF AInv, IInv
<1>2. IInv' /\ ToldInv' /\ Kept
  BY <1>1, ReadersNext, ToldStays, TablesStay DEF AInv
<1>3. CASE Publish \/ Refresh \/ UNCHANGED vars
  <2>1. SameRead /\ req'.pc = req.pc
    BY <1>1, <1>3 DEF ReqInv, Publish, Refresh, vars, SameRead, Fields
  <2> QED
    BY <1>1, <1>2, <2>1, AnswersUndisturbed DEF AInv
<1>4. CASE Next /\ ~(Publish \/ Refresh)
  <2>1. UNCHANGED tables
    BY <1>4, ReaderReads
  <2>2. AnswerInv'
    BY <1>1, <1>4, <2>1, AnswersStart, BalanceRead, ActivityRead, HistoryRead, StatsRead,
       RichListRead, PoolRead, OtherStatement DEF Next
  <2> QED
    BY <1>2, <2>2 DEF AInv
<1> QED
  BY <1>3, <1>4

\* The totals of an address are those of replaying the transactions the node
\* told for the chain in the snapshot, whatever is published meanwhile, which
\* branches were stored before, and however they share their transactions.
THEOREM BalanceIsReplayHolds == Spec => []BalanceIsReplay
<1>1. AInv => BalanceIsReplay
  <2> SUFFICES ASSUME AInv, Answer("address") PROVE BalanceIsReplay
    BY DEF BalanceIsReplay
  <2> DEFINE V == req.view
             E == TxsOf(V)
             coins == {c \in Coins(Entries(V)) : c.address = req.id}
             height == req.meta.height
             locked == {c \in coins : c.coinbase /\ height + 1 - c.height < Maturity}
             aged == {c \in coins \ locked : c.coinbase}
             b == req.sums
  <2>1. GoodLedger(E)
    BY GoodLedgerOfChain DEF AInv, IInv, AnswerInv
  <2>2. Coins(Entries(V)) = Unspent(E)
    BY <2>1, CoinsAreUnspent
  <2>3. coins = UnspentBy(E, req.id)
    BY <2>2 DEF UnspentBy
  <2>4. BalanceFacts(b, E, req.id, height)
    BY DEF AInv, AnswerInv, SnapshotRead, TotalsRead, RowsRead, PointsRead, OwnersRead, Answer
  <2>5. /\ b.balance = SumValues(coins) /\ b.utxo_count = Cardinality(coins)
        /\ b.immature_coinbase = SumValues(locked)
        /\ b.mature_coinbase = SumValues(aged)
        /\ b.mature_coinbase + b.immature_coinbase + b.non_coinbase = b.balance
        /\ b.total_received - b.total_spent = b.balance
        /\ b.anomalies = 0
    <3> HIDE DEF E, b, height
    <3> QED
      BY <2>3, <2>4 DEF BalanceFacts
  <2> QED
    BY <2>5 DEF BalanceIsReplay
<1> QED
  BY <1>1, AnswersInit, AnswersNext, PTL DEF Spec

\* A point of a history has the value it has in the whole chain, also when the
\* blocks it depends on are outside the page.
THEOREM HistoryExactHolds == Spec => []HistoryExact
<1>1. AInv => HistoryExact
  <2> SUFFICES ASSUME AInv PROVE HistoryExact
    OBVIOUS
  <2>1. ASSUME Answer("network_history")
        PROVE  \A p \in req.list :
                  p.lag = IF Parent[p.hash] = NoBlock THEN {} ELSE {Parent[p.hash]}
    BY <2>1 DEF AInv, AnswerInv, SnapshotRead, PointsRead, Answer, HistoryFacts
  <2>2. ASSUME Answer("address_stats"), NEW p \in req.list
        PROVE  p.total_seen =
                 Cardinality({o.address : o \in Addressed({s \in req.view : s.height <= p.height})})
    <3> DEFINE V == req.view
               E == TxsOf(V)
               h == p.height
               W == {s \in V : s.height <= h}
    <3>1. TableInv /\ ToldInv /\ OneChain(V) /\ h \in Int
      BY <2>2 DEF AInv, IInv, AnswerInv, SnapshotRead, PointsRead, Answer, StatFacts
    <3>2. p.total_seen = Cardinality(Payees(E, h))
      BY <2>2 DEF AInv, AnswerInv, SnapshotRead, PointsRead, Answer, StatFacts
    <3>3. Addressed(W) = {o \in Paid(E) : o.height <= h}
      BY <3>1, ChainBelow, AddressedOutputs, PaidBelow
    <3> HIDE DEF W, E
    <3> QED
      BY <3>2, <3>3 DEF Payees, W
  <2> QED
    BY <2>1, <2>2 DEF HistoryExact
<1> QED
  BY <1>1, AnswersInit, AnswersNext, PTL DEF Spec

\* An answer made of several statements is about one chain: its envelope has
\* that chain's tip, and the newest row of an address's activity ends with the
\* balance of its totals.
THEOREM SnapshotExactHolds == Spec => []SnapshotExact
<1>1. AInv => SnapshotExact
  <2> SUFFICES ASSUME AInv PROVE SnapshotExact
    OBVIOUS
  <2>1. SnapshotOfTip
    BY DEF AInv, IInv, ReqInv
  <2>2. ASSUME Answer("address")
        PROVE  \E r \in req.list :
                  /\ \A q \in req.list : ~Before(r.place, q.place)
                  /\ r.balance_after = req.sums.balance
                  /\ req.sums.last_seen = {r.place[1]}
    <3> DEFINE E == TxsOf(req.view)
               a == req.id
               K == PlacesOf(Touching(E, a))
               list == req.list
               b == req.sums
    <3>1. GoodLedger(E)
      BY GoodLedgerOfChain DEF AInv, IInv, AnswerInv
    <3>2. /\ b.balance = SumValues(UnspentBy(E, a)) /\ b.last_seen = NewestHeight(K)
          /\ OwnedBy(E, a) # {} /\ ActivityFacts(list, E, a)
      BY <2>2 DEF AInv, AnswerInv, SnapshotRead, TotalsRead, RowsRead, Answer,
                  BalanceFacts, EventFacts
    <3> HIDE DEF E, a, list, b
    <3>3. PICK p \in NewestPlaces(K) :
             /\ \A q \in K : ~Before(p, q)
             /\ NewestHeight(K) = {p[1]}
             /\ UnspentBy(Upto(E, p), a) = UnspentBy(E, a)
      BY <3>1, <3>2, LastTransaction
    <3> HIDE DEF K
    <3>4. /\ {r.place : r \in list} = NewestPlaces(K)
          /\ \A r \in list : r.balance_after = SumValues(UnspentBy(Upto(E, r.place), a))
      BY <3>2 DEF ActivityFacts, K
    <3>5. PICK r \in list : r.place = p
      BY <3>4
    <3>6. \A q \in list : q.place \in K
      BY <3>4 DEF NewestPlaces
    <3> QED
      BY <3>2, <3>3, <3>4, <3>5, <3>6 DEF list, b
  <2> QED
    BY <2>1, <2>2 DEF SnapshotExact
<1> QED
  BY <1>1, AnswersInit, AnswersNext, PTL DEF Spec

\* Each row of an address's activity ends with the sum of the coins the address
\* has in a replay after that transaction, and the rows are the newest
\* transactions that changed those coins, however many were left out.
THEOREM ActivityIsReplayHolds == Spec => []ActivityIsReplay
<1>1. AInv => ActivityIsReplay
  <2> SUFFICES ASSUME AInv, Answer("address") PROVE ActivityIsReplay
    BY DEF ActivityIsReplay
  <2> DEFINE E == TxsOf(req.view)
             a == req.id
             K == PlacesOf(Touching(E, a))
             list == req.list
             N == Cardinality(E)
             es == Entries(req.view)
             replay == Replay(es)
             held(n) == {c \in replay[n] : c.address = a}
             place(n) == <<es[n].height, es[n].pos>>
             touched == {n \in 1..Len(es) : held(n) # held(n - 1)}
             newest == {n \in touched : Cardinality({k \in touched : k > n}) < ActivityLimit}
  <2>1. GoodLedger(E)
    BY GoodLedgerOfChain DEF AInv, IInv, AnswerInv
  <2>2. Lists(es, E)
    BY <2>1, EntriesList
  <2>3. req.sums.transaction_count = Cardinality(K) /\ ActivityFacts(list, E, a)
    BY DEF AInv, AnswerInv, SnapshotRead, TotalsRead, RowsRead, Answer, EventFacts
  <2> HIDE DEF E, a, list, es
  <2>4. N \in Nat /\ Len(es) = N
    BY <2>2 DEF Lists
  <2>5. \A n \in 0..N : held(n) = Held(es, a, n)
    <3> TAKE n \in 0..N
    <3>1. replay[n] = Unspent(First(es, n))
      BY <2>1, <2>2, ReplayIsUnspent
    <3> HIDE DEF replay
    <3> QED
      BY <3>1 DEF Held, UnspentBy
  <2> HIDE DEF replay, N
  <2>6. \A n \in 1..N : n \in 0..N /\ n - 1 \in 0..N
    BY <2>4
  <2>7. \A n \in 1..N : held(n) # held(n - 1) <=> es[n] \in Touching(E, a)
    <3> HIDE DEF held
    <3> QED
      BY <2>1, <2>2, <2>5, <2>6, HeldAtTouching DEF N
  <2>8. touched = {n \in 1..N : es[n] \in Touching(E, a)}
    BY <2>4, <2>7
  <2>9. \A n : place(n) = Place(es[n])
    BY DEF Place
  <2> HIDE DEF held, touched, K, place
  <2>10. PositionsOf(touched, es, K)
    <3>1. touched = Touched(es, E, a)
      BY <2>8 DEF Touched, N
    <3> QED
      BY <2>1, <2>2, <3>1, TouchedCounts DEF K
  <2>11. {r.place : r \in list} = {place(n) : n \in newest}
    <3>1. {r.place : r \in list} = NewestPlaces(K)
      BY <2>3 DEF ActivityFacts, K
    <3>2. \A p : p \in NewestPlaces(K) <=> \E n \in newest : p = place(n)
      <4> DEFINE before(p) == Cardinality({q \in K : Before(p, q)})
                 later(n) == Cardinality({k \in touched : k > n})
      <4>1. /\ \A p : p \in NewestPlaces(K) <=> p \in K /\ before(p) < ActivityLimit
            /\ \A n : n \in newest <=> n \in touched /\ later(n) < ActivityLimit
        BY DEF NewestPlaces
      <4>2. /\ \A p : p \in K <=> \E n \in touched : p = place(n)
            /\ \A n \in touched : later(n) = before(place(n))
        BY <2>9, <2>10 DEF PositionsOf
      <4> HIDE DEF before, later, newest
      <4> QED
        BY <4>1, <4>2
    <3> HIDE DEF newest
    <3> QED
      BY <3>1, <3>2
  <2>12. ASSUME NEW r \in list, NEW n \in touched, r.place = place(n)
         PROVE  /\ r.balance_after = SumValues(held(n))
                /\ r.received - r.spent = SumValues(held(n)) - SumValues(held(n - 1))
    <3>1. n \in 1..N /\ r.place = Place(es[n])
      BY <2>8, <2>9, <2>12
    <3>2. /\ r.balance_after = SumValues(UnspentBy(Upto(E, Place(es[n])), a))
          /\ r.received - r.spent = Net(E, a, Place(es[n]))
      BY <2>3, <3>1 DEF ActivityFacts
    <3>3. UnspentBy(Upto(E, Place(es[n])), a) = held(n)
      BY <2>2, <2>5, <2>6, <3>1, HeldIsUpto DEF N, Held
    <3>4. Net(E, a, Place(es[n])) = SumValues(held(n)) - SumValues(held(n - 1))
      BY <2>1, <2>2, <2>5, <2>6, <3>1, HeldAtTouching DEF N
    <3> QED
      BY <3>2, <3>3, <3>4
  <2>13. req.sums.transaction_count = Cardinality(touched)
    BY <2>3, <2>10 DEF PositionsOf
  <2> QED
    BY <2>11, <2>12, <2>13
       DEF ActivityIsReplay, list, touched, place, held, replay, es, a
<1> QED
  BY <1>1, AnswersInit, AnswersNext, PTL DEF Spec

\* The rich list and the address statistics are always answered; what the
\* addresses own and what no address owns is the node's pool, and every ranked
\* address has the coins a replay of the selected chain gives it, whoever has
\* more is ranked too, and no share is over the whole.
THEOREM RichListBalancedHolds == Spec => []RichListBalanced
<1>1. AInv => RichListBalanced
  <2> SUFFICES ASSUME AInv PROVE RichListBalanced
    OBVIOUS
  <2> DEFINE V == req.view
             E == TxsOf(V)
             coins == Coins(Entries(V))
             of(a) == SumValues({c \in coins : c.address = a})
             funded == {a \in Address : of(a) > 0}
             owned == {c \in coins : c.address \in Address}
             sums == req.sums
  <2>1. GoodLedger(E) /\ SnapshotRead(req, E)
    BY GoodLedgerOfChain DEF AInv, IInv, AnswerInv
  <2>2. coins = Unspent(E)
    BY <2>1, CoinsAreUnspent
  <2>3. (\A a : of(a) = Wealth(E, a)) /\ owned = OwnedCoins(E)
    <3> HIDE DEF coins, E
    <3> QED
      BY <2>2 DEF Wealth, UnspentBy, OwnedCoins
  <2>4. ASSUME Answer("rich_list"), req.meta # NoTip
        PROVE  /\ sums.addressed_balance = SumValues(owned)
               /\ req.pool = <<SumValues(coins), of(NoAddress)>>
               /\ sums.funded_address_count = Cardinality(funded)
               /\ \A r \in sums.rows :
                     /\ r.balance = of(r.address)
                     /\ r.balance = r.total_received - r.total_sent
                     /\ exact_percent(r.balance, req.pool[1]) <= PercentScale
               /\ \A a \in Address, r \in sums.rows :
                     of(a) > r.balance => \E q \in sums.rows : q.address = a
    <3> HIDE DEF coins, of, owned, E, sums
    <3>1. /\ req.pool = <<SumValues(coins), of(NoAddress)>>
          /\ RichFacts(sums, E)
      BY <2>1, <2>2, <2>3, <2>4 DEF SnapshotRead, OwnersRead, Answer, sums
    <3>2. funded = Funded(E)
      BY <2>3 DEF Funded
    <3> HIDE DEF funded
    <3>3. ASSUME NEW r \in sums.rows
          PROVE  /\ r.balance = of(r.address) /\ r.balance = r.total_received - r.total_sent
                 /\ exact_percent(r.balance, req.pool[1]) <= PercentScale
      <4>1. r.balance = Wealth(E, r.address) /\ r.balance = r.total_received - r.total_sent
        BY <3>1, <3>3 DEF RichFacts
      <4>2. req.pool[1] = SumValues(Unspent(E))
        BY <2>2, <3>1
      <4>3. Wealth(E, r.address) \in Nat /\ SumValues(Unspent(E)) \in Nat
            /\ Wealth(E, r.address) <= SumValues(Unspent(E))
        BY <2>1, WealthIsNat, WealthIsPart
      <4> QED
        BY <2>3, <4>1, <4>2, <4>3, ShareAtMostWhole
    <3>4. ASSUME NEW a \in Address, NEW r \in sums.rows, of(a) > r.balance
          PROVE  \E q \in sums.rows : q.address = a
      <4>1. r.balance \in Nat /\ Wealth(E, a) \in Nat /\ Wealth(E, a) > r.balance
        BY <2>1, <2>3, <3>1, <3>4, WealthIsNat DEF RichFacts
      <4>2. Wealth(E, a) > 0
        BY <4>1
      <4> QED
        BY <3>1, <4>1, <4>2 DEF RichFacts, Funded
    <3> QED
      BY <2>3, <3>1, <3>2, <3>3, <3>4 DEF RichFacts
  <2>5. req.kind \in {"rich_list", "address_stats"} => req.pc # "failed"
    BY <2>1 DEF SnapshotRead, OwnersRead
  <2> QED
    BY <2>4, <2>5 DEF RichListBalanced
<1> QED
  BY <1>1, AnswersInit, AnswersNext, PTL DEF Spec
==============================================================================
