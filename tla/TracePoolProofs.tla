-------------------------- MODULE TracePoolProofs --------------------------
(***************************************************************************)
(* Proof that PoolInv is an invariant of the pools of the dispatch, for    *)
(* every set of block sequences, every set of tests and any number of      *)
(* arrivals, and of the properties that rest on it.                        *)
(***************************************************************************)
EXTENDS TracePool, TLAPS

-----------------------------------------------------------------------------
(* Paths: nonempty sequences of blocks, and their beginnings.              *)

LEMMA Beginning ==
  ASSUME NEW S, NEW s \in Seq(S), NEW n \in 0 .. Len(s)
  PROVE  /\ SubSeq(s, 1, n) \in Seq(S) /\ Len(SubSeq(s, 1, n)) = n
         /\ \A i \in 1 .. n : SubSeq(s, 1, n)[i] = s[i]
OBVIOUS

LEMMA SameSeq ==
  ASSUME NEW S, NEW s \in Seq(S), NEW t \in Seq(S), Len(s) = Len(t),
         \A i \in 1 .. Len(s) : s[i] = t[i]
  PROVE  s = t
OBVIOUS

LEMMA PrefixIsBeginning ==
  ASSUME NEW p \in Seq(Nat), NEW s \in Seq(Nat)
  PROVE  IsPrefix(p, s) <=> Len(p) <= Len(s) /\ p = SubSeq(s, 1, Len(p))
<1>1. Len(p) \in Nat /\ Len(s) \in Nat
  OBVIOUS
<1>2. ASSUME Len(p) <= Len(s), p = SubSeq(s, 1, Len(p)) PROVE IsPrefix(p, s)
  <2>1. Len(p) \in 0 .. Len(s)
    BY <1>1, <1>2
  <2>2. \A i \in 1 .. Len(p) : SubSeq(s, 1, Len(p))[i] = s[i]
    BY Zenon, <2>1, Beginning
  <2> QED BY Zenon, <1>2, <2>2 DEF IsPrefix
<1>3. ASSUME IsPrefix(p, s) PROVE Len(p) <= Len(s) /\ p = SubSeq(s, 1, Len(p))
  <2>1. Len(p) <= Len(s) /\ \A i \in 1 .. Len(p) : p[i] = s[i]
    BY Zenon, <1>3 DEF IsPrefix
  <2>2. Len(p) \in 0 .. Len(s)
    BY <1>1, <2>1
  <2>3. /\ SubSeq(s, 1, Len(p)) \in Seq(Nat) /\ Len(SubSeq(s, 1, Len(p))) = Len(p)
        /\ \A i \in 1 .. Len(p) : SubSeq(s, 1, Len(p))[i] = s[i]
    BY Zenon, <2>2, Beginning
  <2>4. \A i \in 1 .. Len(p) : p[i] = SubSeq(s, 1, Len(p))[i]
    BY Zenon, <2>1, <2>3
  <2> HIDE DEF IsPrefix
  <2>5. p = SubSeq(s, 1, Len(p))
    BY Zenon, <2>3, <2>4, SameSeq
  <2> QED BY Zenon, <2>1, <2>5
<1> QED BY Zenon, <1>2, <1>3

LEMMA BeginningIsPrefix ==
  ASSUME NEW s \in Seq(Nat), NEW n \in 0 .. Len(s)
  PROVE  IsPrefix(SubSeq(s, 1, n), s)
<1>1. n <= Len(s)
  OBVIOUS
<1> QED BY Zenon, <1>1, Beginning DEF IsPrefix

\* A beginning of a beginning.
LEMMA BeginningTwice ==
  ASSUME NEW s \in Seq(Nat), NEW n \in 0 .. Len(s), NEW m \in 0 .. n
  PROVE  SubSeq(SubSeq(s, 1, n), 1, m) = SubSeq(s, 1, m)
<1> DEFINE t == SubSeq(s, 1, n)
<1>1. t \in Seq(Nat) /\ Len(t) = n /\ \A i \in 1 .. n : t[i] = s[i]
  BY Zenon, Beginning
<1> HIDE DEF t
<1>2. m \in 0 .. Len(t) /\ m \in 0 .. Len(s) /\ \A i \in 1 .. m : i \in 1 .. n
  BY <1>1
<1>3. /\ SubSeq(t, 1, m) \in Seq(Nat) /\ Len(SubSeq(t, 1, m)) = m
      /\ \A i \in 1 .. m : SubSeq(t, 1, m)[i] = t[i]
  BY Zenon, <1>1, <1>2, Beginning
<1>4. /\ SubSeq(s, 1, m) \in Seq(Nat) /\ Len(SubSeq(s, 1, m)) = m
      /\ \A i \in 1 .. m : SubSeq(s, 1, m)[i] = s[i]
  BY Zenon, <1>2, Beginning
<1>5. \A i \in 1 .. m : SubSeq(t, 1, m)[i] = SubSeq(s, 1, m)[i]
  BY Zenon, <1>1, <1>2, <1>3, <1>4
<1>6. SubSeq(t, 1, m) = SubSeq(s, 1, m)
  BY Zenon, <1>3, <1>4, <1>5, SameSeq
<1> QED BY Zenon, <1>6 DEF t

LEMMA PrefixTransitive ==
  ASSUME NEW p \in Seq(Nat), NEW q \in Seq(Nat), NEW r \in Seq(Nat), IsPrefix(p, q), IsPrefix(q, r)
  PROVE  IsPrefix(p, r)
<1>1. Len(p) \in Nat /\ Len(q) \in Nat /\ Len(r) \in Nat
  OBVIOUS
<1>2. Len(p) <= Len(q) /\ Len(q) <= Len(r)
  BY Zenon DEF IsPrefix
<1>3. Len(p) <= Len(r) /\ \A i \in 1 .. Len(p) : i \in 1 .. Len(q)
  BY <1>1, <1>2
<1> QED BY Zenon, <1>3 DEF IsPrefix

LEMMA PrefixReflexive == ASSUME NEW p \in Seq(Nat) PROVE IsPrefix(p, p)
<1>1. Len(p) <= Len(p)
  OBVIOUS
<1> QED BY Zenon, <1>1 DEF IsPrefix

\* A beginning that is as long as the whole.
LEMMA Whole == ASSUME NEW s \in Seq(Nat) PROVE SubSeq(s, 1, Len(s)) = s
  BY Zenon, PrefixReflexive, PrefixIsBeginning

\* Two beginnings of one sequence: the shorter one begins the longer one.
LEMMA PrefixesNested ==
  ASSUME NEW p \in Seq(Nat), NEW q \in Seq(Nat), NEW s \in Seq(Nat),
         IsPrefix(p, s), IsPrefix(q, s), Len(p) <= Len(q)
  PROVE  IsPrefix(p, q)
<1>1. Len(p) \in Nat /\ Len(q) \in Nat
  OBVIOUS
<1>2. \A i \in 1 .. Len(p) : i \in 1 .. Len(q)
  BY <1>1
<1> QED BY Zenon, <1>2 DEF IsPrefix

-----------------------------------------------------------------------------
(* The graph.                                                              *)

LEMMA BlockFacts ==
  ASSUME NEW s \in BlockSeqs
  PROVE  /\ s \in Seq(Nat) /\ Len(s) \in Nat /\ Len(s) >= 1
         /\ \A c \in BlockSeqs : c[1] = s[1]
<1>1. s \in Seq(Nat) /\ s # <<>> /\ \A c \in BlockSeqs : c[1] = s[1]
  BY Zenon, BlockSeqsAssumption
<1>2. Len(s) \in Nat /\ Len(s) >= 1
  BY <1>1
<1> QED BY Zenon, <1>1, <1>2

LEMMA GraphFacts ==
  ASSUME Types
  PROVE  /\ Len(graph) \in Nat /\ DOMAIN graph = 1 .. Len(graph)
         /\ \A k \in DOMAIN graph :
              /\ graph[k].path \in Seq(Nat) /\ graph[k].id \in Nat
              /\ Len(graph[k].path) \in Nat /\ Len(graph[k].path) >= 1
              /\ graph[k] \in Vertices /\ graph[k].path \in Paths
              /\ graph[k] = [path |-> graph[k].path, id |-> graph[k].id]
         /\ \A v : v \in Vertices <=> \E k \in DOMAIN graph : v = graph[k]
         /\ \A p : p \in Paths <=> \E k \in DOMAIN graph : p = graph[k].path
<1> DEFINE V == [path : Seq(Nat) \ {<<>>}, id : Nat]
<1>1. graph \in Seq(V)
  BY Zenon DEF Types
<1> HIDE DEF V
<1>2. Len(graph) \in Nat /\ DOMAIN graph = 1 .. Len(graph) /\ \A k \in DOMAIN graph : graph[k] \in V
  BY <1>1
<1>3. ASSUME NEW v \in V
      PROVE  /\ v.path \in Seq(Nat) /\ v.id \in Nat
             /\ Len(v.path) \in Nat /\ Len(v.path) >= 1
             /\ v = [path |-> v.path, id |-> v.id]
  <2>1. v.path \in Seq(Nat) /\ v.path # <<>> /\ v.id \in Nat /\ v = [path |-> v.path, id |-> v.id]
    BY <1>3 DEF V
  <2>2. Len(v.path) \in Nat /\ Len(v.path) >= 1
    BY <2>1
  <2> QED BY Zenon, <2>1, <2>2
<1>4. \A v : v \in Vertices <=> \E k \in DOMAIN graph : v = graph[k]
  BY Zenon DEF Vertices, Range
<1>5. \A p : p \in Paths <=> \E k \in DOMAIN graph : p = graph[k].path
  <2>1. \A p : p \in Paths <=> \E v \in Vertices : p = v.path
    BY Zenon DEF Paths
  <2> QED BY <1>4, <2>1
<1>6. \A k \in DOMAIN graph : graph[k] \in Vertices /\ graph[k].path \in Paths
  BY Zenon, <1>4, <1>5
<1> QED BY Zenon, <1>2, <1>3, <1>4, <1>5, <1>6

LEMMA TraceFacts ==
  ASSUME Types
  PROVE  /\ Len(blocks) \in Nat /\ DOMAIN blocks = 1 .. Len(blocks)
         /\ \A t \in DOMAIN blocks : blocks[t] \in BlockSeqs
<1>1. blocks \in Seq(BlockSeqs)
  BY Zenon DEF Types
<1> QED BY <1>1

\* Of a vertex at a place of the graph there is one only.
LEMMA IdAtVertex ==
  ASSUME PoolInv, NEW k \in DOMAIN graph
  PROVE  IdAt(graph[k].path) = graph[k].id
<1> DEFINE v == CHOOSE u \in Vertices : u.path = graph[k].path
<1>1. v \in Vertices /\ v.path = graph[k].path
  <2>1. graph[k] \in Vertices
    BY Zenon, GraphFacts DEF PoolInv
  <2> QED BY Zenon, <2>1
<1>2. PICK j \in DOMAIN graph : v = graph[j]
  BY Zenon, <1>1, GraphFacts DEF PoolInv
<1>3. j = k
  BY Zenon, <1>1, <1>2 DEF PoolInv, GraphHoldsTraces
<1> QED BY Zenon, <1>2, <1>3 DEF IdAt

\* The vertices of a path that is in the graph.
LEMMA BeginningsThere ==
  ASSUME PoolInv, NEW s \in Seq(Nat), NEW n \in 0 .. Len(s), SubSeq(s, 1, n) \in Paths,
         NEW m \in 1 .. n
  PROVE  SubSeq(s, 1, m) \in Paths
<1>1. Len(SubSeq(s, 1, n)) = n
  BY Zenon, Beginning
<1>2. SubSeq(SubSeq(s, 1, n), 1, m) \in Paths
  BY Zenon, <1>1 DEF PoolInv, GraphHoldsTraces
<1>3. m \in 0 .. n
  OBVIOUS
<1> QED BY Zenon, <1>2, <1>3, BeginningTwice

\* All traces begin with the first vertex of the graph.
LEMMA RootThere ==
  ASSUME PoolInv, graph # <<>>, NEW s \in BlockSeqs
  PROVE  SubSeq(s, 1, 1) \in Paths
<1>a. Types
  BY Zenon DEF PoolInv
<1>1. 1 \in DOMAIN graph
  <2>1. graph \in Seq([path : Seq(Nat) \ {<<>>}, id : Nat])
    BY Zenon, <1>a DEF Types
  <2> QED BY <2>1
<1> DEFINE p == graph[1].path  c == blocks[graph[1].id]
<1>2. p \in Paths /\ p \in Seq(Nat) /\ Len(p) \in Nat /\ Len(p) >= 1 /\ graph[1] \in Vertices
  BY Zenon, <1>a, <1>1, GraphFacts
<1>3. IsPrefix(p, c) /\ graph[1].id \in DOMAIN blocks
  BY Zenon, <1>2 DEF PoolInv, GraphHoldsTraces, Types
<1>4. c \in BlockSeqs
  BY Zenon, <1>a, <1>3, TraceFacts
<1> HIDE DEF p, c
<1>5. c[1] = s[1]
  BY Zenon, <1>4, BlockFacts
<1>6. 1 \in 1 .. Len(p) /\ 1 \in 0 .. Len(p)
  BY <1>2
<1>7. p[1] = s[1]
  BY Zenon, <1>3, <1>5, <1>6 DEF IsPrefix
<1>8. s \in Seq(Nat) /\ 1 \in 0 .. Len(s)
  <2>1. s \in Seq(Nat) /\ Len(s) \in Nat /\ Len(s) >= 1
    BY Zenon, BlockFacts
  <2> QED BY <2>1
<1>9. SubSeq(p, 1, 1) \in Paths
  BY Zenon, <1>2, <1>6 DEF PoolInv, GraphHoldsTraces
<1>10. \A i \in 1 .. 1 : i = 1
  OBVIOUS
<1>11. SubSeq(p, 1, 1) = SubSeq(s, 1, 1)
  <2>1. /\ SubSeq(p, 1, 1) \in Seq(Nat) /\ Len(SubSeq(p, 1, 1)) = 1
        /\ \A i \in 1 .. 1 : SubSeq(p, 1, 1)[i] = p[i]
    BY Zenon, <1>2, <1>6, Beginning
  <2>2. /\ SubSeq(s, 1, 1) \in Seq(Nat) /\ Len(SubSeq(s, 1, 1)) = 1
        /\ \A i \in 1 .. 1 : SubSeq(s, 1, 1)[i] = s[i]
    BY Zenon, <1>8, Beginning
  <2>3. \A i \in 1 .. 1 : SubSeq(p, 1, 1)[i] = SubSeq(s, 1, 1)[i]
    BY Zenon, <1>7, <1>10, <2>1, <2>2
  <2> QED BY Zenon, <2>1, <2>2, <2>3, SameSeq
<1> QED BY Zenon, <1>9, <1>11

-----------------------------------------------------------------------------
(* A trace that is accepted.                                               *)

\* The trace s leaves the graph after its first n blocks: its beginnings up to there are in
\* the graph, and no longer one.
DivergesAt(s, n) ==
  /\ n \in 0 .. Len(s)
  /\ \A m \in 1 .. Len(s) : SubSeq(s, 1, m) \in Paths <=> m <= n
  /\ graph # <<>> => n > 0

\* The vertices of the graph keep their places and their paths, and those of the traces in
\* old get the id of the new trace, as do the new vertices: one for each beginning of s
\* that is longer than n.
Grown(s, n, id, old) ==
  /\ DOMAIN graph \subseteq DOMAIN graph'
  /\ \A k \in DOMAIN graph :
       graph'[k] = [path |-> graph[k].path, id |-> IF graph[k].id \in old THEN id ELSE graph[k].id]
  /\ \A k \in DOMAIN graph' \ DOMAIN graph :
       \E m \in n + 1 .. Len(s) : graph'[k] = [path |-> SubSeq(s, 1, m), id |-> id]
  /\ \A m \in n + 1 .. Len(s) :
       \E k \in DOMAIN graph' \ DOMAIN graph : graph'[k] = [path |-> SubSeq(s, 1, m), id |-> id]
  /\ \A j, k \in DOMAIN graph' \ DOMAIN graph : graph'[j].path = graph'[k].path => j = k

\* What the three cases of Insert that accept a trace have in common.
Grows(s, n, id, old) ==
  /\ PoolInv /\ s \in BlockSeqs
  /\ DivergesAt(s, n) /\ n < Len(s) /\ id = Len(blocks) + 1
  /\ old = IF graph # <<>> /\ IsLeaf(SubSeq(s, 1, n)) THEN {IdAt(SubSeq(s, 1, n))} ELSE {}
  /\ blocks' = Append(blocks, s)
  /\ DOMAIN executed' = (DOMAIN executed \ old) \cup {id}
  /\ Grown(s, n, id, old)

LEMMA AppendFacts ==
  ASSUME NEW S, NEW q \in Seq(S), NEW x \in S
  PROVE  /\ Append(q, x) \in Seq(S) /\ Len(q) \in Nat
         /\ Len(q) + 1 \notin DOMAIN q /\ Append(q, x)[Len(q) + 1] = x
         /\ DOMAIN Append(q, x) = DOMAIN q \cup {Len(q) + 1}
         /\ \A i \in DOMAIN q : Append(q, x)[i] = q[i]
OBVIOUS

LEMMA GrowFacts ==
  ASSUME NEW s, NEW n, NEW id, NEW old, Grows(s, n, id, old)
  PROVE  /\ Types /\ s \in Seq(Nat) /\ Len(s) \in Nat /\ n \in Nat /\ n < Len(s)
         /\ \A m \in 1 .. Len(s) : SubSeq(s, 1, m) \in Paths <=> m <= n
         /\ \A m \in 0 .. Len(s) : SubSeq(s, 1, m) \in Seq(Nat) /\ Len(SubSeq(s, 1, m)) = m
         /\ graph # <<>> => n > 0
         /\ id \in Nat /\ id \notin DOMAIN blocks /\ blocks'[id] = s
         /\ DOMAIN blocks' = DOMAIN blocks \cup {id}
         /\ \A t \in DOMAIN blocks : blocks'[t] = blocks[t]
         /\ DOMAIN executed \subseteq DOMAIN blocks
<1>1. /\ PoolInv /\ s \in BlockSeqs /\ DivergesAt(s, n) /\ n < Len(s)
      /\ id = Len(blocks) + 1 /\ blocks' = Append(blocks, s)
  BY Zenon DEF Grows
<1>2. Types /\ s \in Seq(Nat) /\ Len(s) \in Nat
  BY Zenon, <1>1, BlockFacts DEF PoolInv
<1>3. /\ n \in 0 .. Len(s) /\ (graph # <<>> => n > 0)
      /\ \A m \in 1 .. Len(s) : SubSeq(s, 1, m) \in Paths <=> m <= n
  BY Zenon, <1>1 DEF DivergesAt
<1>4. n \in Nat
  BY <1>2, <1>3
<1>5. blocks \in Seq(BlockSeqs) /\ DOMAIN executed \subseteq DOMAIN blocks
  BY Zenon, <1>2 DEF Types
<1>6. /\ id \notin DOMAIN blocks /\ blocks'[id] = s /\ Len(blocks) \in Nat
      /\ DOMAIN blocks' = DOMAIN blocks \cup {id}
      /\ \A t \in DOMAIN blocks : blocks'[t] = blocks[t]
  <2>1. /\ Len(blocks) \in Nat
        /\ Len(blocks) + 1 \notin DOMAIN blocks /\ Append(blocks, s)[Len(blocks) + 1] = s
        /\ DOMAIN Append(blocks, s) = DOMAIN blocks \cup {Len(blocks) + 1}
        /\ \A t \in DOMAIN blocks : Append(blocks, s)[t] = blocks[t]
    <3>1. s \in BlockSeqs
      BY Zenon, <1>1
    <3> QED BY <1>5, <3>1
  <2> QED BY Zenon, <1>1, <2>1
<1>7. id \in Nat
  BY <1>1, <1>6
<1>8. \A m \in 0 .. Len(s) : SubSeq(s, 1, m) \in Seq(Nat) /\ Len(SubSeq(s, 1, m)) = m
  BY Zenon, <1>2, Beginning
<1> QED BY Zenon, <1>1, <1>2, <1>3, <1>4, <1>5, <1>6, <1>7, <1>8

\* The paths there are afterwards.
LEMMA GrowPaths ==
  ASSUME NEW s, NEW n, NEW id, NEW old, Grows(s, n, id, old)
  PROVE  /\ \A v : v \in Vertices' <=> \E k \in DOMAIN graph' : v = graph'[k]
         /\ \A p : p \in Paths' <=> p \in Paths \/ \E m \in n + 1 .. Len(s) : p = SubSeq(s, 1, m)
         /\ \A m \in n + 1 .. Len(s) : SubSeq(s, 1, m) \notin Paths
<1>1. \A v : v \in Vertices' <=> \E k \in DOMAIN graph' : v = graph'[k]
  BY Zenon DEF Vertices, Range
<1>2. \A p : p \in Paths' <=> \E v \in Vertices' : p = v.path
  BY Zenon DEF Paths
<1>3. \A p : p \in Paths' <=> \E k \in DOMAIN graph' : p = graph'[k].path
  BY <1>1, <1>2
<1>4. \A p : p \in Paths <=> \E k \in DOMAIN graph : p = graph[k].path
  BY Zenon, GrowFacts, GraphFacts
<1>5. \A k \in DOMAIN graph : k \in DOMAIN graph' /\ graph'[k].path = graph[k].path
  <2>1. ASSUME NEW k \in DOMAIN graph PROVE k \in DOMAIN graph' /\ graph'[k].path = graph[k].path
    <3>1. /\ k \in DOMAIN graph'
          /\ graph'[k] = [path |-> graph[k].path, id |-> IF graph[k].id \in old THEN id ELSE graph[k].id]
      BY Zenon, <2>1 DEF Grows, Grown
    <3> QED BY <3>1
  <2> QED BY Zenon, <2>1
<1>6. \A k \in DOMAIN graph' \ DOMAIN graph : \E m \in n + 1 .. Len(s) : graph'[k].path = SubSeq(s, 1, m)
  <2>1. ASSUME NEW k \in DOMAIN graph' \ DOMAIN graph
        PROVE  \E m \in n + 1 .. Len(s) : graph'[k].path = SubSeq(s, 1, m)
    <3>1. PICK m \in n + 1 .. Len(s) : graph'[k] = [path |-> SubSeq(s, 1, m), id |-> id]
      BY Zenon, <2>1 DEF Grows, Grown
    <3>2. graph'[k].path = SubSeq(s, 1, m)
      BY <3>1
    <3> QED BY Zenon, <3>2
  <2> QED BY Zenon, <2>1
<1>7. \A m \in n + 1 .. Len(s) : \E k \in DOMAIN graph' : SubSeq(s, 1, m) = graph'[k].path
  <2>1. ASSUME NEW m \in n + 1 .. Len(s) PROVE \E k \in DOMAIN graph' : SubSeq(s, 1, m) = graph'[k].path
    <3>1. PICK k \in DOMAIN graph' \ DOMAIN graph : graph'[k] = [path |-> SubSeq(s, 1, m), id |-> id]
      BY Zenon, <2>1 DEF Grows, Grown
    <3>2. graph'[k].path = SubSeq(s, 1, m)
      BY <3>1
    <3> QED BY Zenon, <3>2
  <2> QED BY Zenon, <2>1
<1>8. \A p : p \in Paths' <=> p \in Paths \/ \E m \in n + 1 .. Len(s) : p = SubSeq(s, 1, m)
  <2>1. ASSUME NEW p, p \in Paths' PROVE p \in Paths \/ \E m \in n + 1 .. Len(s) : p = SubSeq(s, 1, m)
    <3>1. PICK k \in DOMAIN graph' : p = graph'[k].path
      BY Zenon, <1>3, <2>1
    <3>2. CASE k \in DOMAIN graph
      BY Zenon, <1>4, <1>5, <3>1, <3>2
    <3>3. CASE k \notin DOMAIN graph
      BY Zenon, <1>6, <3>1, <3>3
    <3> QED BY Zenon, <3>2, <3>3
  <2>2. \A p : p \in Paths => p \in Paths'
    BY Zenon, <1>3, <1>4, <1>5
  <2>3. \A m \in n + 1 .. Len(s) : SubSeq(s, 1, m) \in Paths'
    BY Zenon, <1>3, <1>7
  <2> QED BY Zenon, <2>1, <2>2, <2>3
<1>9. ASSUME NEW m \in n + 1 .. Len(s) PROVE SubSeq(s, 1, m) \notin Paths
  <2>1. n \in Nat /\ Len(s) \in Nat
    BY Zenon, GrowFacts
  <2>2. m \in 1 .. Len(s) /\ ~(m <= n)
    BY <2>1
  <2> QED BY Zenon, <2>2, GrowFacts
<1> QED BY Zenon, <1>1, <1>8, <1>9

LEMMA GrowTree ==
  ASSUME NEW s, NEW n, NEW id, NEW old, Grows(s, n, id, old)
  PROVE  /\ \A j, k \in DOMAIN graph' : graph'[j].path = graph'[k].path => j = k
         /\ Range(blocks') \subseteq Paths'
         /\ \A p \in Paths' : \A i \in 1 .. Len(p) : SubSeq(p, 1, i) \in Paths'
<1>1. /\ s \in Seq(Nat) /\ Len(s) \in Nat /\ n \in Nat /\ n < Len(s)
      /\ \A m \in 1 .. Len(s) : SubSeq(s, 1, m) \in Paths <=> m <= n
      /\ \A m \in 0 .. Len(s) : SubSeq(s, 1, m) \in Seq(Nat) /\ Len(SubSeq(s, 1, m)) = m
  BY Zenon, GrowFacts
<1>2. /\ \A p : p \in Paths' <=> p \in Paths \/ \E m \in n + 1 .. Len(s) : p = SubSeq(s, 1, m)
      /\ \A m \in n + 1 .. Len(s) : SubSeq(s, 1, m) \notin Paths
  BY Zenon, GrowPaths
<1>3. \A k \in DOMAIN graph : graph'[k].path = graph[k].path /\ graph[k].path \in Paths
  <2>1. ASSUME NEW k \in DOMAIN graph PROVE graph'[k].path = graph[k].path
    <3>1. graph'[k] = [path |-> graph[k].path, id |-> IF graph[k].id \in old THEN id ELSE graph[k].id]
      BY Zenon, <2>1 DEF Grows, Grown
    <3> QED BY <3>1
  <2> QED BY Zenon, <2>1, GrowFacts, GraphFacts
<1>4. \A k \in DOMAIN graph' \ DOMAIN graph : graph'[k].path \notin Paths
  <2>1. ASSUME NEW k \in DOMAIN graph' \ DOMAIN graph PROVE graph'[k].path \notin Paths
    <3>1. PICK m \in n + 1 .. Len(s) : graph'[k] = [path |-> SubSeq(s, 1, m), id |-> id]
      BY Zenon, <2>1 DEF Grows, Grown
    <3>2. graph'[k].path = SubSeq(s, 1, m)
      BY <3>1
    <3> QED BY Zenon, <1>2, <3>2
  <2> QED BY Zenon, <2>1
<1>5. ASSUME NEW j \in DOMAIN graph', NEW k \in DOMAIN graph', graph'[j].path = graph'[k].path PROVE j = k
  <2>1. CASE j \in DOMAIN graph /\ k \in DOMAIN graph
    BY Zenon, <1>3, <1>5, <2>1 DEF Grows, PoolInv, GraphHoldsTraces
  <2>2. CASE j \notin DOMAIN graph /\ k \notin DOMAIN graph
    BY Zenon, <1>5, <2>2 DEF Grows, Grown
  <2> QED BY Zenon, <1>3, <1>4, <1>5, <2>1, <2>2
<1>6. Range(blocks') \subseteq Paths'
  <2>1. Len(s) \in n + 1 .. Len(s)
    BY <1>1
  <2>2. s \in Paths'
    BY Zenon, <1>1, <1>2, <2>1, Whole
  <2>3. \A t \in DOMAIN blocks : blocks[t] \in Paths
    BY Zenon DEF Grows, PoolInv, GraphHoldsTraces, Range
  <2>4. /\ blocks'[id] = s /\ DOMAIN blocks' = DOMAIN blocks \cup {id}
        /\ \A t \in DOMAIN blocks : blocks'[t] = blocks[t]
    BY Zenon, GrowFacts
  <2>5. \A t \in DOMAIN blocks : blocks'[t] \in Paths'
    BY Zenon, <1>2, <2>3, <2>4
  <2>6. \A t \in DOMAIN blocks' : blocks'[t] \in Paths'
    BY Zenon, <2>2, <2>4, <2>5
  <2> QED BY Zenon, <2>6 DEF Range
<1>7. ASSUME NEW p \in Paths', NEW i \in 1 .. Len(p) PROVE SubSeq(p, 1, i) \in Paths'
  <2>1. CASE p \in Paths
    BY Zenon, <1>2, <1>7, <2>1 DEF Grows, PoolInv, GraphHoldsTraces
  <2>2. ASSUME NEW m \in n + 1 .. Len(s), p = SubSeq(s, 1, m) PROVE SubSeq(p, 1, i) \in Paths'
    <3>1. m \in 0 .. Len(s)
      BY <1>1, <2>2
    <3>2. Len(p) = m
      BY Zenon, <1>1, <2>2, <3>1
    <3>3. i \in 0 .. m /\ i \in 1 .. Len(s) /\ (i <= n \/ i \in n + 1 .. Len(s))
      BY <1>1, <1>7, <3>1, <3>2
    <3>4. SubSeq(p, 1, i) = SubSeq(s, 1, i)
      BY Zenon, <1>1, <2>2, <3>1, <3>3, BeginningTwice
    <3>5. CASE i <= n
      BY Zenon, <1>1, <1>2, <3>3, <3>4, <3>5
    <3>6. CASE i \in n + 1 .. Len(s)
      BY Zenon, <1>2, <3>4, <3>6
    <3> QED BY Zenon, <3>3, <3>5, <3>6
  <2> QED BY Zenon, <1>2, <1>7, <2>1, <2>2
<1> QED BY Zenon, <1>5, <1>6, <1>7

\* Whether the vertex at p is a leaf of the tree with the paths P.
LeafOf(P, p) == \A q \in P : ~(Len(q) = Len(p) + 1 /\ IsPrefix(p, q))

LEMMA LeafPaths == ASSUME NEW p PROVE IsLeaf(p) <=> LeafOf(Paths, p)
<1>1. \A q : q \in Paths <=> \E k \in DOMAIN graph : q = graph[k].path
  <2>1. \A q : q \in Paths <=> \E v \in Vertices : q = v.path
    BY Zenon DEF Paths
  <2>2. \A v : v \in Vertices <=> \E k \in DOMAIN graph : v = graph[k]
    BY Zenon DEF Vertices, Range
  <2> QED BY <2>1, <2>2
<1>2. IsLeaf(p) <=> \A k \in DOMAIN graph : ~(Len(graph[k].path) = Len(p) + 1 /\ IsPrefix(p, graph[k].path))
  BY Zenon DEF IsLeaf, Children
<1>3. ASSUME IsLeaf(p), NEW q \in Paths PROVE ~(Len(q) = Len(p) + 1 /\ IsPrefix(p, q))
  <2>1. PICK k \in DOMAIN graph : q = graph[k].path
    BY Zenon, <1>1, <1>3
  <2> QED BY Zenon, <1>2, <1>3, <2>1
<1>4. \A k \in DOMAIN graph : graph[k].path \in Paths
  BY Zenon, <1>1
<1> QED BY Zenon, <1>2, <1>3, <1>4 DEF LeafOf

LEMMA LeafPathsAfter == ASSUME NEW p PROVE IsLeaf(p)' <=> LeafOf(Paths', p)
<1>1. \A q : q \in Paths' <=> \E k \in DOMAIN graph' : q = graph'[k].path
  <2>1. \A q : q \in Paths' <=> \E v \in Vertices' : q = v.path
    BY Zenon DEF Paths
  <2>2. \A v : v \in Vertices' <=> \E k \in DOMAIN graph' : v = graph'[k]
    BY Zenon DEF Vertices, Range
  <2> QED BY <2>1, <2>2
<1>2. IsLeaf(p)' <=> \A k \in DOMAIN graph' : ~(Len(graph'[k].path) = Len(p) + 1 /\ IsPrefix(p, graph'[k].path))
  BY Zenon DEF IsLeaf, Children
<1>3. ASSUME IsLeaf(p)', NEW q \in Paths' PROVE ~(Len(q) = Len(p) + 1 /\ IsPrefix(p, q))
  <2>1. PICK k \in DOMAIN graph' : q = graph'[k].path
    BY Zenon, <1>1, <1>3
  <2> QED BY Zenon, <1>2, <1>3, <2>1
<1>4. \A k \in DOMAIN graph' : graph'[k].path \in Paths'
  BY Zenon, <1>1
<1> QED BY Zenon, <1>2, <1>3, <1>4 DEF LeafOf

LEMMA PathFacts ==
  ASSUME Types, NEW p \in Paths
  PROVE  p \in Seq(Nat) /\ Len(p) \in Nat /\ Len(p) >= 1
<1>1. PICK k \in DOMAIN graph : p = graph[k].path
  BY Zenon, GraphFacts
<1> QED BY Zenon, <1>1, GraphFacts

LEMMA GrowVertices ==
  ASSUME NEW s, NEW n, NEW id, NEW old, Grows(s, n, id, old)
  PROVE  /\ \A k \in DOMAIN graph :
              /\ k \in DOMAIN graph' /\ graph'[k].path = graph[k].path
              /\ graph[k].id \in old => graph'[k].id = id
              /\ graph[k].id \notin old => graph'[k].id = graph[k].id /\ graph'[k] = graph[k]
         /\ \A k \in DOMAIN graph' \ DOMAIN graph :
              \E m \in n + 1 .. Len(s) : graph'[k].path = SubSeq(s, 1, m) /\ graph'[k].id = id
<1>1. ASSUME NEW k \in DOMAIN graph
      PROVE  /\ k \in DOMAIN graph' /\ graph'[k].path = graph[k].path
             /\ graph[k].id \in old => graph'[k].id = id
             /\ graph[k].id \notin old => graph'[k].id = graph[k].id /\ graph'[k] = graph[k]
  <2>1. /\ k \in DOMAIN graph'
        /\ graph'[k] = [path |-> graph[k].path, id |-> IF graph[k].id \in old THEN id ELSE graph[k].id]
    BY Zenon, <1>1 DEF Grows, Grown
  <2>2. graph[k] = [path |-> graph[k].path, id |-> graph[k].id]
    BY Zenon, <1>1, GrowFacts, GraphFacts
  <2>3. graph'[k].path = graph[k].path /\ graph'[k].id = IF graph[k].id \in old THEN id ELSE graph[k].id
    BY <2>1
  <2>4. CASE graph[k].id \in old
    BY Zenon, <2>1, <2>3, <2>4
  <2>5. CASE graph[k].id \notin old
    <3>1. graph'[k] = graph[k]
      BY <2>1, <2>2, <2>5
    <3> QED BY Zenon, <2>1, <2>3, <2>5, <3>1
  <2> QED BY Zenon, <2>4, <2>5
<1>2. ASSUME NEW k \in DOMAIN graph' \ DOMAIN graph
      PROVE  \E m \in n + 1 .. Len(s) : graph'[k].path = SubSeq(s, 1, m) /\ graph'[k].id = id
  <2>1. PICK m \in n + 1 .. Len(s) : graph'[k] = [path |-> SubSeq(s, 1, m), id |-> id]
    BY Zenon, <1>2 DEF Grows, Grown
  <2>2. graph'[k].path = SubSeq(s, 1, m) /\ graph'[k].id = id
    BY <2>1
  <2> QED BY Zenon, <2>2
<1> QED BY Zenon, <1>1, <1>2

\* Which vertices are leaves afterwards.
LEMMA GrowLeaves ==
  ASSUME NEW s, NEW n, NEW id, NEW old, Grows(s, n, id, old)
  PROVE  /\ \A p \in Paths : LeafOf(Paths', p) <=> IsLeaf(p) /\ p # SubSeq(s, 1, n)
         /\ \A m \in n + 1 .. Len(s) : LeafOf(Paths', SubSeq(s, 1, m)) <=> m = Len(s)
<1>1. /\ Types /\ s \in Seq(Nat) /\ Len(s) \in Nat /\ n \in Nat /\ n < Len(s)
      /\ \A m \in 1 .. Len(s) : SubSeq(s, 1, m) \in Paths <=> m <= n
      /\ \A m \in 0 .. Len(s) : SubSeq(s, 1, m) \in Seq(Nat) /\ Len(SubSeq(s, 1, m)) = m
  BY Zenon, GrowFacts
<1>2. /\ \A p : p \in Paths' <=> p \in Paths \/ \E m \in n + 1 .. Len(s) : p = SubSeq(s, 1, m)
      /\ \A m \in n + 1 .. Len(s) : SubSeq(s, 1, m) \notin Paths
  BY Zenon, GrowPaths
<1>3. \A m \in 0 .. Len(s), i \in 0 .. Len(s) : i <= m => IsPrefix(SubSeq(s, 1, i), SubSeq(s, 1, m))
  <2>1. ASSUME NEW m \in 0 .. Len(s), NEW i \in 0 .. Len(s), i <= m
        PROVE  IsPrefix(SubSeq(s, 1, i), SubSeq(s, 1, m))
    <3>1. Len(SubSeq(s, 1, i)) <= Len(SubSeq(s, 1, m))
      BY Zenon, <1>1, <2>1
    <3>2. IsPrefix(SubSeq(s, 1, i), s) /\ IsPrefix(SubSeq(s, 1, m), s)
      BY Zenon, <1>1, BeginningIsPrefix
    <3>3. SubSeq(s, 1, i) \in Seq(Nat) /\ SubSeq(s, 1, m) \in Seq(Nat)
      BY Zenon, <1>1
    <3> QED BY Zenon, <1>1, <3>1, <3>2, <3>3, PrefixesNested
  <2> QED BY Zenon, <2>1
<1>4. \A m \in n .. Len(s) : m \in 0 .. Len(s)
  BY <1>1
<1>5. n \in n .. Len(s) /\ \A m \in n + 1 .. Len(s) : m \in n .. Len(s)
  BY <1>1
<1>6. ASSUME NEW m \in n .. Len(s), m < Len(s) PROVE ~LeafOf(Paths', SubSeq(s, 1, m))
  <2>1. m + 1 \in n + 1 .. Len(s) /\ m <= m + 1 /\ m + 1 \in 0 .. Len(s) /\ m \in 0 .. Len(s)
    BY <1>1, <1>6
  <2>2. Len(SubSeq(s, 1, m + 1)) = Len(SubSeq(s, 1, m)) + 1
    BY Zenon, <1>1, <2>1
  <2>3. IsPrefix(SubSeq(s, 1, m), SubSeq(s, 1, m + 1))
    BY Zenon, <1>3, <2>1
  <2>4. SubSeq(s, 1, m + 1) \in Paths'
    BY Zenon, <1>2, <2>1
  <2> QED BY Zenon, <2>2, <2>3, <2>4 DEF LeafOf
<1>7. ASSUME NEW p \in Paths, IsLeaf(p), p # SubSeq(s, 1, n), ~LeafOf(Paths', p) PROVE FALSE
  <2>1. PICK q \in Paths' : Len(q) = Len(p) + 1 /\ IsPrefix(p, q)
    BY Zenon, <1>7 DEF LeafOf
  <2>2. q \notin Paths
    BY Zenon, <1>7, <2>1, LeafPaths DEF LeafOf
  <2>3. PICK m \in n + 1 .. Len(s) : q = SubSeq(s, 1, m)
    BY Zenon, <1>2, <2>1, <2>2
  <2>4. p \in Seq(Nat) /\ Len(p) \in Nat /\ Len(p) >= 1
    BY Zenon, <1>1, <1>7, PathFacts
  <2>5. m \in 0 .. Len(s) /\ Len(q) = m
    BY Zenon, <1>1, <1>4, <1>5, <2>3
  <2>6. m - 1 \in 1 .. Len(s) /\ Len(p) = m - 1 /\ m - 1 \in 0 .. m /\ n <= m - 1
    BY <1>1, <2>1, <2>3, <2>4, <2>5
  <2>7. q \in Seq(Nat)
    BY Zenon, <1>1, <2>3, <2>5
  <2>8. p = SubSeq(q, 1, m - 1)
    BY Zenon, <2>1, <2>4, <2>6, <2>7, PrefixIsBeginning
  <2>9. p = SubSeq(s, 1, m - 1)
    BY Zenon, <1>1, <2>3, <2>5, <2>6, <2>8, BeginningTwice
  <2>10. m - 1 <= n
    BY Zenon, <1>1, <1>7, <2>6, <2>9
  <2>11. m - 1 = n
    BY <1>1, <2>5, <2>6, <2>10
  <2> QED BY Zenon, <1>7, <2>9, <2>11
<1>8. ASSUME NEW p \in Paths, LeafOf(Paths', p) PROVE IsLeaf(p) /\ p # SubSeq(s, 1, n)
  <2>1. IsLeaf(p)
    BY Zenon, <1>2, <1>8, LeafPaths DEF LeafOf
  <2>2. p # SubSeq(s, 1, n)
    BY Zenon, <1>1, <1>5, <1>6, <1>8
  <2> QED BY Zenon, <2>1, <2>2
<1>9. ASSUME NEW q \in Paths', Len(q) = Len(s) + 1, IsPrefix(s, q) PROVE FALSE
  <2>1. CASE q \in Paths
    <3>1. q \in Seq(Nat) /\ Len(s) \in 1 .. Len(q) /\ Len(s) \in 1 .. Len(s) /\ ~(Len(s) <= n)
      <4>1. q \in Seq(Nat)
        BY Zenon, <1>1, <2>1, PathFacts
      <4> QED BY <1>1, <1>9, <4>1
    <3>2. SubSeq(q, 1, Len(s)) \in Paths
      BY Zenon, <2>1, <3>1 DEF Grows, PoolInv, GraphHoldsTraces
    <3>3. SubSeq(q, 1, Len(s)) = s /\ SubSeq(s, 1, Len(s)) = s
      BY Zenon, <1>1, <1>9, <3>1, PrefixIsBeginning, Whole
    <3> QED BY Zenon, <1>1, <3>1, <3>2, <3>3
  <2>2. ASSUME NEW m \in n + 1 .. Len(s), q = SubSeq(s, 1, m) PROVE FALSE
    <3>1. Len(q) = m
      BY Zenon, <1>1, <1>4, <1>5, <2>2
    <3> QED BY <1>1, <1>9, <2>2, <3>1
  <2> QED BY Zenon, <1>2, <1>9, <2>1, <2>2
<1>10. ASSUME NEW m \in n + 1 .. Len(s) PROVE LeafOf(Paths', SubSeq(s, 1, m)) <=> m = Len(s)
  <2>1. m < Len(s) \/ m = Len(s)
    BY <1>1
  <2>2. CASE m < Len(s)
    <3>1. m # Len(s)
      BY <1>1, <2>2
    <3> QED BY Zenon, <1>5, <1>6, <2>2, <3>1
  <2>3. CASE m = Len(s)
    BY Zenon, <1>1, <1>9, <2>3, Whole DEF LeafOf
  <2> QED BY Zenon, <2>1, <2>2, <2>3
<1> QED BY Zenon, <1>7, <1>8, <1>10

\* The leaves are the ends of the traces that the graph knows.
LEMMA LeafIsEnd ==
  ASSUME PoolInv, NEW k \in DOMAIN graph, IsLeaf(graph[k].path)
  PROVE  graph[k].id \in DOMAIN executed /\ graph[k].path = blocks[graph[k].id]
<1>1. graph[k] \in Vertices
  BY Zenon, GraphFacts DEF PoolInv
<1>2. graph[k] \in {v \in Vertices : IsLeaf(v.path)}
  BY Zenon, <1>1
<1>3. graph[k] \in {[path |-> blocks[t], id |-> t] : t \in DOMAIN executed}
  BY Zenon, <1>2 DEF PoolInv, GraphHoldsTraces
<1>4. PICK t \in DOMAIN executed : graph[k] = [path |-> blocks[t], id |-> t]
  BY Zenon, <1>3
<1>5. graph[k].id = t /\ graph[k].path = blocks[t]
  BY <1>4
<1> QED BY Zenon, <1>5

LEMMA EndIsLeaf ==
  ASSUME PoolInv, NEW t \in DOMAIN executed
  PROVE  /\ IsLeaf(blocks[t])
         /\ \E k \in DOMAIN graph : graph[k].path = blocks[t] /\ graph[k].id = t
<1> DEFINE v == [path |-> blocks[t], id |-> t]
<1>1. v \in {u \in Vertices : IsLeaf(u.path)}
  <2>1. v \in {[path |-> blocks[x], id |-> x] : x \in DOMAIN executed}
    BY Zenon
  <2> QED BY Zenon, <2>1 DEF PoolInv, GraphHoldsTraces
<1>2. v.path = blocks[t] /\ v.id = t
  BY DEF v
<1> HIDE DEF v
<1>3. v \in Vertices /\ IsLeaf(v.path)
  BY Zenon, <1>1
<1>4. PICK k \in DOMAIN graph : v = graph[k]
  BY Zenon, <1>3, GraphFacts DEF PoolInv
<1> QED BY Zenon, <1>2, <1>3, <1>4 DEF LeafOf

\* The trace that is superseded ends where the new one leaves the graph.
LEMMA OldEnds ==
  ASSUME NEW s, NEW n, NEW id, NEW old, Grows(s, n, id, old)
  PROVE  /\ \A t \in old : t \in DOMAIN executed /\ blocks[t] = SubSeq(s, 1, n)
         /\ \A t \in DOMAIN executed : blocks[t] = SubSeq(s, 1, n) => t \in old
<1>1. PoolInv /\ old = IF graph # <<>> /\ IsLeaf(SubSeq(s, 1, n)) THEN {IdAt(SubSeq(s, 1, n))} ELSE {}
  BY Zenon DEF Grows
<1>2. ASSUME NEW t \in old PROVE t \in DOMAIN executed /\ blocks[t] = SubSeq(s, 1, n)
  <2>1. graph # <<>> /\ IsLeaf(SubSeq(s, 1, n)) /\ t = IdAt(SubSeq(s, 1, n))
    BY Zenon, <1>1, <1>2
  <2>2. n \in 1 .. Len(s) /\ n <= n
    <3>1. n \in Nat /\ n < Len(s) /\ n > 0 /\ Len(s) \in Nat
      BY Zenon, <2>1, GrowFacts
    <3> QED BY <3>1
  <2>3. SubSeq(s, 1, n) \in Paths
    BY Zenon, <2>2, GrowFacts
  <2>4. PICK k \in DOMAIN graph : SubSeq(s, 1, n) = graph[k].path
    BY Zenon, <2>3, GrowFacts, GraphFacts
  <2>5. t = graph[k].id
    BY Zenon, <1>1, <2>1, <2>4, IdAtVertex
  <2> QED BY Zenon, <1>1, <2>1, <2>4, <2>5, LeafIsEnd
<1>3. ASSUME NEW t \in DOMAIN executed, blocks[t] = SubSeq(s, 1, n) PROVE t \in old
  <2>1. PICK k \in DOMAIN graph : graph[k].path = SubSeq(s, 1, n) /\ graph[k].id = t
    BY Zenon, <1>1, <1>3, EndIsLeaf
  <2>2. IsLeaf(SubSeq(s, 1, n))
    BY Zenon, <1>1, <1>3, EndIsLeaf
  <2>3. graph # <<>>
    BY <2>1
  <2>4. t = IdAt(SubSeq(s, 1, n))
    BY Zenon, <1>1, <2>1, IdAtVertex
  <2> QED BY Zenon, <1>1, <2>2, <2>3, <2>4
<1> QED BY Zenon, <1>2, <1>3

LEMMA GrowEnds ==
  ASSUME NEW s, NEW n, NEW id, NEW old, Grows(s, n, id, old), Types'
  PROVE  {v \in Vertices : IsLeaf(v.path)}' = {[path |-> blocks[t], id |-> t] : t \in DOMAIN executed}'
<1> DEFINE E == {[path |-> blocks'[t], id |-> t] : t \in DOMAIN executed'}
<1>1. PoolInv /\ DOMAIN executed' = (DOMAIN executed \ old) \cup {id}
  BY Zenon DEF Grows
<1>2. /\ Types /\ s \in Seq(Nat) /\ n \in Nat /\ Len(s) \in Nat /\ n < Len(s)
      /\ id \notin DOMAIN blocks /\ blocks'[id] = s
      /\ \A t \in DOMAIN blocks : blocks'[t] = blocks[t]
      /\ DOMAIN executed \subseteq DOMAIN blocks
  BY Zenon, GrowFacts
<1>3. ASSUME NEW k \in DOMAIN graph' PROVE graph'[k] = [path |-> graph'[k].path, id |-> graph'[k].id]
  <2> DEFINE V == [path : Seq(Nat) \ {<<>>}, id : Nat]
  <2>1. graph' \in Seq(V)
    BY Zenon DEF Types
  <2> HIDE DEF V
  <2>2. graph'[k] \in V
    BY <2>1
  <2> QED BY <2>2 DEF V
<1>4. \A v : v \in Vertices' <=> \E k \in DOMAIN graph' : v = graph'[k]
  BY Zenon, GrowPaths
<1>5. /\ \A t \in old : t \in DOMAIN executed /\ blocks[t] = SubSeq(s, 1, n)
      /\ \A t \in DOMAIN executed : blocks[t] = SubSeq(s, 1, n) => t \in old
  BY Zenon, OldEnds
<1>6. /\ \A p \in Paths : LeafOf(Paths', p) <=> IsLeaf(p) /\ p # SubSeq(s, 1, n)
      /\ \A m \in n + 1 .. Len(s) : LeafOf(Paths', SubSeq(s, 1, m)) <=> m = Len(s)
  BY Zenon, GrowLeaves
<1>7. \A k \in DOMAIN graph : graph[k].path \in Paths
  BY Zenon, <1>2, GraphFacts
<1>a. /\ \A k \in DOMAIN graph :
           /\ k \in DOMAIN graph' /\ graph'[k].path = graph[k].path
           /\ graph[k].id \in old => graph'[k].id = id
           /\ graph[k].id \notin old => graph'[k].id = graph[k].id /\ graph'[k] = graph[k]
      /\ \A k \in DOMAIN graph' \ DOMAIN graph :
           \E m \in n + 1 .. Len(s) : graph'[k].path = SubSeq(s, 1, m) /\ graph'[k].id = id
  BY GrowVertices
<1>8. ASSUME NEW k \in DOMAIN graph', LeafOf(Paths', graph'[k].path) PROVE graph'[k] \in E
  <2>1. CASE k \in DOMAIN graph
    <3>1. /\ graph'[k].path = graph[k].path
          /\ graph[k].id \notin old => graph'[k].id = graph[k].id
      BY Zenon, <2>1, <1>a
    <3>2. IsLeaf(graph[k].path) /\ graph[k].path # SubSeq(s, 1, n)
      BY Zenon, <1>6, <1>7, <1>8, <2>1, <3>1
    <3>3. graph[k].id \in DOMAIN executed /\ graph[k].path = blocks[graph[k].id]
      BY Zenon, <1>1, <2>1, <3>2, LeafIsEnd
    <3>4. graph[k].id \notin old
      BY Zenon, <1>5, <3>2, <3>3
    <3>5. graph'[k].id = graph[k].id
      BY Zenon, <3>1, <3>4
    <3>6. graph[k].id \in DOMAIN executed' /\ graph[k].path = blocks'[graph[k].id]
      BY Zenon, <1>1, <1>2, <3>3, <3>4
    <3>7. graph'[k] = [path |-> blocks'[graph[k].id], id |-> graph[k].id]
      BY Zenon, <1>3, <3>1, <3>5, <3>6
    <3> QED BY Zenon, <3>6, <3>7
  <2>2. CASE k \notin DOMAIN graph
    <3>1. PICK m \in n + 1 .. Len(s) : graph'[k].path = SubSeq(s, 1, m) /\ graph'[k].id = id
      BY Zenon, <2>2, <1>8, <1>a
    <3>2. m = Len(s)
      BY Zenon, <1>6, <1>8, <3>1
    <3>3. graph'[k].path = s
      BY Zenon, <1>2, <3>1, <3>2, Whole
    <3>4. graph'[k] = [path |-> blocks'[id], id |-> id] /\ id \in DOMAIN executed'
      BY Zenon, <1>1, <1>2, <1>3, <3>1, <3>3
    <3> QED BY Zenon, <3>4
  <2> QED BY Zenon, <2>1, <2>2
<1>9. ASSUME NEW t \in DOMAIN executed'
      PROVE  \E k \in DOMAIN graph' :
               graph'[k].path = blocks'[t] /\ graph'[k].id = t /\ LeafOf(Paths', graph'[k].path)
  <2>1. CASE t = id
    <3>1. Len(s) \in n + 1 .. Len(s)
      BY <1>2
    <3>2. SubSeq(s, 1, Len(s)) = s
      BY Zenon, <1>2, Whole
    <3>3. PICK k \in DOMAIN graph' \ DOMAIN graph : graph'[k] = [path |-> SubSeq(s, 1, Len(s)), id |-> id]
      BY Zenon, <3>1 DEF Grows, Grown
    <3>4. graph'[k].path = SubSeq(s, 1, Len(s)) /\ graph'[k].id = id
      BY <3>3
    <3>5. LeafOf(Paths', SubSeq(s, 1, Len(s)))
      BY Zenon, <1>6, <3>1
    <3>6. LeafOf(Paths', graph'[k].path) /\ graph'[k].path = blocks'[t] /\ graph'[k].id = t
      BY Zenon, <1>2, <2>1, <3>2, <3>4, <3>5
    <3> QED BY Zenon, <3>6
  <2>2. CASE t # id
    <3>1. t \in DOMAIN executed /\ t \notin old /\ blocks'[t] = blocks[t]
      BY Zenon, <1>1, <1>2, <1>9, <2>2
    <3>2. IsLeaf(blocks[t]) /\ \E k \in DOMAIN graph : graph[k].path = blocks[t] /\ graph[k].id = t
      BY Zenon, <1>1, <3>1, EndIsLeaf
    <3>3. PICK k \in DOMAIN graph : graph[k].path = blocks[t] /\ graph[k].id = t
      BY Zenon, <3>2
    <3>4. blocks[t] # SubSeq(s, 1, n) /\ blocks[t] \in Paths
      BY Zenon, <1>5, <1>7, <3>1, <3>3
    <3>5. LeafOf(Paths', blocks[t])
      BY Zenon, <1>6, <3>2, <3>4
    <3>6. /\ k \in DOMAIN graph' /\ graph'[k].path = graph[k].path
          /\ graph[k].id \notin old => graph'[k].id = graph[k].id
      BY Zenon, <3>3, <1>a
    <3>7. graph'[k].path = blocks'[t] /\ graph'[k].id = t /\ LeafOf(Paths', graph'[k].path)
      BY Zenon, <3>1, <3>3, <3>5, <3>6
    <3> QED BY Zenon, <3>6, <3>7
  <2> QED BY Zenon, <2>1, <2>2
<1>10. ASSUME NEW v \in E PROVE v \in Vertices' /\ LeafOf(Paths', v.path)
  <2>1. PICK t \in DOMAIN executed' : v = [path |-> blocks'[t], id |-> t]
    BY Zenon, <1>10
  <2>2. PICK k \in DOMAIN graph' :
          graph'[k].path = blocks'[t] /\ graph'[k].id = t /\ LeafOf(Paths', graph'[k].path)
    BY Zenon, <1>9
  <2>3. v = graph'[k]
    BY Zenon, <1>3, <2>1, <2>2
  <2> QED BY Zenon, <1>4, <2>2, <2>3
<1>11. ASSUME NEW v \in Vertices', LeafOf(Paths', v.path) PROVE v \in E
  <2>1. PICK k \in DOMAIN graph' : v = graph'[k]
    BY Zenon, <1>4, <1>11
  <2> QED BY Zenon, <1>8, <1>11, <2>1
<1> HIDE DEF E
<1>12. {v \in Vertices' : IsLeaf(v.path)'} = E
  <2>1. \A v : IsLeaf(v.path)' <=> LeafOf(Paths', v.path)
    BY Zenon, LeafPathsAfter
  <2> QED BY Zenon, <1>10, <1>11, <2>1
<1> QED BY Zenon, <1>12 DEF E

\* The id of a vertex is that of a trace that goes through it.
LEMMA IdFacts ==
  ASSUME PoolInv, NEW k \in DOMAIN graph
  PROVE  /\ graph[k].id \in DOMAIN executed /\ graph[k].id \in DOMAIN blocks
         /\ IsPrefix(graph[k].path, blocks[graph[k].id])
         /\ blocks[graph[k].id] \in Seq(Nat) /\ blocks[graph[k].id] \in Paths
<1>1. Types /\ graph[k] \in Vertices
  BY Zenon, GraphFacts DEF PoolInv
<1>2. graph[k].id \in DOMAIN executed /\ IsPrefix(graph[k].path, blocks[graph[k].id])
  BY Zenon, <1>1 DEF PoolInv, GraphHoldsTraces
<1>3. graph[k].id \in DOMAIN blocks
  BY Zenon, <1>1, <1>2 DEF Types
<1>4. blocks[graph[k].id] \in Seq(Nat)
  BY Zenon, <1>1, <1>3, TraceFacts, BlockFacts
<1>5. blocks[graph[k].id] \in Paths
  BY Zenon, <1>3 DEF PoolInv, GraphHoldsTraces, Range
<1> QED BY Zenon, <1>2, <1>3, <1>4, <1>5

LEMMA GrowIds ==
  ASSUME NEW s, NEW n, NEW id, NEW old, Grows(s, n, id, old), NEW k \in DOMAIN graph'
  PROVE  graph'[k].id \in DOMAIN executed' /\ IsPrefix(graph'[k].path, blocks'[graph'[k].id])
<1>1. PoolInv /\ DOMAIN executed' = (DOMAIN executed \ old) \cup {id}
  BY Zenon DEF Grows
<1>2. /\ Types /\ s \in Seq(Nat) /\ n \in Nat /\ Len(s) \in Nat /\ n < Len(s)
      /\ blocks'[id] = s /\ \A t \in DOMAIN blocks : blocks'[t] = blocks[t]
  BY Zenon, GrowFacts
<1>3. CASE k \in DOMAIN graph
  <2>1. /\ graph'[k].path = graph[k].path
        /\ graph[k].id \in old => graph'[k].id = id
        /\ graph[k].id \notin old => graph'[k].id = graph[k].id
    BY <1>3, GrowVertices
  <2>2. /\ graph[k].id \in DOMAIN executed /\ graph[k].id \in DOMAIN blocks
        /\ IsPrefix(graph[k].path, blocks[graph[k].id])
    BY Zenon, <1>1, <1>3, IdFacts
  <2>3. CASE graph[k].id \in old
    <3>1. blocks[graph[k].id] = SubSeq(s, 1, n)
      BY Zenon, <2>3, OldEnds
    <3>2. n \in 0 .. Len(s)
      BY <1>2
    <3>3. IsPrefix(SubSeq(s, 1, n), s) /\ SubSeq(s, 1, n) \in Seq(Nat)
      BY Zenon, <1>2, <3>2, BeginningIsPrefix, Beginning
    <3>4. graph[k].path \in Seq(Nat)
      BY Zenon, <1>2, <1>3, GraphFacts
    <3>5. IsPrefix(graph[k].path, s)
      BY Zenon, <1>2, <2>2, <3>1, <3>3, <3>4, PrefixTransitive
    <3> QED BY Zenon, <1>1, <1>2, <2>1, <2>3, <3>5
  <2>4. CASE graph[k].id \notin old
    <3>1. graph'[k].id = graph[k].id /\ graph[k].id \in DOMAIN executed'
      BY Zenon, <1>1, <2>1, <2>2, <2>4
    <3>2. blocks'[graph[k].id] = blocks[graph[k].id]
      BY Zenon, <1>2, <2>2
    <3> QED BY Zenon, <2>1, <2>2, <3>1, <3>2
  <2> QED BY Zenon, <2>3, <2>4
<1>4. CASE k \notin DOMAIN graph
  <2>1. PICK m \in n + 1 .. Len(s) : graph'[k].path = SubSeq(s, 1, m) /\ graph'[k].id = id
    BY <1>4, GrowVertices
  <2>2. m \in 0 .. Len(s)
    BY <1>2
  <2>3. IsPrefix(SubSeq(s, 1, m), s)
    BY Zenon, <1>2, <2>2, BeginningIsPrefix
  <2> QED BY Zenon, <1>1, <1>2, <2>1, <2>3
<1> QED BY Zenon, <1>3, <1>4

\* A vertex afterwards: where its path is in the graph it was there before.
LEMMA GrowOld ==
  ASSUME NEW s, NEW n, NEW id, NEW old, Grows(s, n, id, old), NEW k \in DOMAIN graph'
  PROVE  /\ graph'[k].path \in Seq(Nat)
         /\ graph'[k].path \in Paths => k \in DOMAIN graph
         /\ graph'[k].path \notin Paths => graph'[k].id = id
<1>1. CASE k \in DOMAIN graph
  <2>1. graph'[k].path = graph[k].path
    BY <1>1, GrowVertices
  <2>2. graph[k].path \in Paths /\ graph[k].path \in Seq(Nat)
    BY Zenon, <1>1, GrowFacts, GraphFacts
  <2> QED BY Zenon, <1>1, <2>1, <2>2
<1>2. CASE k \notin DOMAIN graph
  <2>1. PICK m \in n + 1 .. Len(s) : graph'[k].path = SubSeq(s, 1, m) /\ graph'[k].id = id
    BY <1>2, GrowVertices
  <2>2. m \in 0 .. Len(s)
    <3>1. n \in Nat /\ Len(s) \in Nat
      BY Zenon, GrowFacts
    <3> QED BY <3>1
  <2>3. SubSeq(s, 1, m) \in Seq(Nat)
    BY Zenon, <2>2, GrowFacts
  <2>4. SubSeq(s, 1, m) \notin Paths
    BY Zenon, GrowPaths
  <2> QED BY Zenon, <2>1, <2>3, <2>4
<1> QED BY Zenon, <1>1, <1>2

LEMMA LastPartAt ==
  ASSUME PoolInv, NEW j \in DOMAIN graph, NEW k \in DOMAIN graph,
         IsPrefix(graph[j].path, graph[k].path), IsPrefix(graph[k].path, blocks[graph[j].id])
  PROVE  graph[k].id = graph[j].id
<1>1. graph[j] \in Vertices /\ graph[k] \in Vertices
  BY Zenon, GraphFacts DEF PoolInv
<1> QED BY Zenon, <1>1 DEF PoolInv, LastPart

LEMMA GrowLastPart ==
  ASSUME NEW s, NEW n, NEW id, NEW old, Grows(s, n, id, old),
         NEW j \in DOMAIN graph', NEW k \in DOMAIN graph',
         IsPrefix(graph'[j].path, graph'[k].path), IsPrefix(graph'[k].path, blocks'[graph'[j].id])
  PROVE  graph'[k].id = graph'[j].id
<1>1. PoolInv
  BY Zenon DEF Grows
<1>2. /\ Types /\ s \in Seq(Nat) /\ n \in Nat /\ Len(s) \in Nat /\ n < Len(s)
      /\ blocks'[id] = s /\ \A t \in DOMAIN blocks : blocks'[t] = blocks[t]
      /\ \A m \in 1 .. Len(s) : SubSeq(s, 1, m) \in Paths <=> m <= n
  BY Zenon, GrowFacts
<1>3. \A i \in DOMAIN graph :
        /\ i \in DOMAIN graph' /\ graph'[i].path = graph[i].path
        /\ graph[i].id \in old => graph'[i].id = id
        /\ graph[i].id \notin old => graph'[i].id = graph[i].id
  BY GrowVertices
<1> DEFINE p == graph'[j].path  q == graph'[k].path
<1>4. p \in Seq(Nat) /\ q \in Seq(Nat) /\ IsPrefix(p, q) /\ IsPrefix(q, blocks'[graph'[j].id])
  BY Zenon, GrowOld
<1>5. /\ p \in Paths => j \in DOMAIN graph
      /\ q \in Paths => k \in DOMAIN graph
      /\ p \notin Paths => graph'[j].id = id
      /\ q \notin Paths => graph'[k].id = id
  BY Zenon, GrowOld
<1>6. ASSUME q \in Paths PROVE p \in Paths
  <2>1. Len(p) \in Nat /\ Len(p) >= 1 /\ Len(q) \in Nat
    <3>1. Len(p) >= 1
      <4>1. CASE j \in DOMAIN graph
        BY Zenon, <1>2, <1>3, <4>1, GraphFacts
      <4>2. CASE j \notin DOMAIN graph
        <5>1. PICK m \in n + 1 .. Len(s) : p = SubSeq(s, 1, m)
          BY <4>2, GrowVertices
        <5>2. m \in 0 .. Len(s) /\ m >= 1
          BY <1>2
        <5>3. Len(p) = m
          <6>1. Len(SubSeq(s, 1, m)) = m
            BY Zenon, <5>2, GrowFacts
          <6> QED BY Zenon, <5>1, <6>1
        <5> QED BY Zenon, <5>2, <5>3
      <4> QED BY Zenon, <4>1, <4>2
    <3> HIDE DEF p, q
    <3> QED BY <1>4, <3>1
  <2>2. Len(p) <= Len(q) /\ p = SubSeq(q, 1, Len(p))
    BY Zenon, <1>4, PrefixIsBeginning
  <2>3. Len(p) \in 1 .. Len(q)
    BY <2>1, <2>2
  <2>4. SubSeq(q, 1, Len(p)) \in Paths
    BY Zenon, <1>1, <1>6, <2>3 DEF PoolInv, GraphHoldsTraces
  <2> QED BY Zenon, <2>2, <2>4
<1>7. CASE j \in DOMAIN graph /\ graph[j].id \notin old
  <2>1. /\ graph'[j].id = graph[j].id /\ p = graph[j].path /\ graph[j].id \in DOMAIN blocks
        /\ blocks[graph[j].id] \in Seq(Nat) /\ blocks[graph[j].id] \in Paths
    BY Zenon, <1>1, <1>3, <1>7, IdFacts
  <2>2. IsPrefix(q, blocks[graph[j].id])
    BY Zenon, <1>2, <1>4, <2>1
  <2>3. q \in Paths
    <3>1. Len(q) <= Len(blocks[graph[j].id]) /\ q = SubSeq(blocks[graph[j].id], 1, Len(q))
      BY Zenon, <1>4, <2>1, <2>2, PrefixIsBeginning
    <3>2. Len(p) \in Nat /\ Len(p) >= 1 /\ Len(p) <= Len(q)
      BY Zenon, <1>2, <1>4, <1>7, <2>1, GraphFacts DEF IsPrefix
    <3>3. Len(q) \in Nat /\ Len(blocks[graph[j].id]) \in Nat
      <4> HIDE DEF q
      <4> QED BY <1>4, <2>1
    <3>4. Len(q) \in 1 .. Len(blocks[graph[j].id])
      BY <3>1, <3>2, <3>3
    <3>5. SubSeq(blocks[graph[j].id], 1, Len(q)) \in Paths
      BY Zenon, <1>1, <2>1, <3>4 DEF PoolInv, GraphHoldsTraces
    <3> QED BY Zenon, <3>1, <3>5
  <2>4. k \in DOMAIN graph /\ q = graph[k].path
    BY Zenon, <1>3, <1>5, <2>3
  <2>5. graph[k].id = graph[j].id
    BY Zenon, <1>1, <1>4, <1>7, <2>1, <2>2, <2>4, LastPartAt
  <2>6. graph'[k].id = graph[k].id
    BY Zenon, <1>3, <1>7, <2>4, <2>5
  <2> QED BY Zenon, <2>1, <2>5, <2>6
<1>8. CASE j \in DOMAIN graph /\ graph[j].id \in old
  <2>1. graph'[j].id = id /\ p = graph[j].path
    BY Zenon, <1>3, <1>8
  <2>2. IsPrefix(q, s)
    BY Zenon, <1>2, <1>4, <2>1
  <2>3. CASE q \notin Paths
    BY Zenon, <1>5, <2>1, <2>3
  <2>4. CASE q \in Paths
    <3>1. k \in DOMAIN graph /\ q = graph[k].path
      BY Zenon, <1>3, <1>5, <2>4
    <3>2. blocks[graph[j].id] = SubSeq(s, 1, n)
      <4>1. \A t \in old : blocks[t] = SubSeq(s, 1, n)
        BY Zenon, OldEnds
      <4> QED BY Zenon, <1>8, <4>1
    <3>3. Len(q) <= Len(s) /\ q = SubSeq(s, 1, Len(q))
      BY Zenon, <1>2, <1>4, <2>2, PrefixIsBeginning
    <3>4. Len(q) \in Nat /\ Len(q) >= 1
      BY Zenon, <1>2, <2>4, PathFacts
    <3>5. Len(q) \in 1 .. Len(s) /\ n \in 0 .. Len(s)
      BY <1>2, <3>3, <3>4
    <3>6. Len(q) <= n
      BY Zenon, <1>2, <2>4, <3>3, <3>5
    <3>7. SubSeq(s, 1, n) \in Seq(Nat) /\ Len(SubSeq(s, 1, n)) = n /\ IsPrefix(SubSeq(s, 1, n), s)
      <4>1. IsPrefix(SubSeq(s, 1, n), s)
        BY Zenon, <1>2, <3>5, BeginningIsPrefix
      <4>2. SubSeq(s, 1, n) \in Seq(Nat) /\ Len(SubSeq(s, 1, n)) = n
        BY Zenon, <3>5, GrowFacts
      <4> QED BY Zenon, <4>1, <4>2
    <3>8. IsPrefix(q, blocks[graph[j].id])
      BY Zenon, <1>2, <1>4, <2>2, <3>2, <3>6, <3>7, PrefixesNested
    <3>9. graph[k].id = graph[j].id
      BY Zenon, <1>1, <1>4, <1>8, <2>1, <3>1, <3>8, LastPartAt
    <3>10. graph'[k].id = id
      BY Zenon, <1>3, <1>8, <3>1, <3>9
    <3> QED BY Zenon, <2>1, <3>10
  <2> QED BY Zenon, <2>3, <2>4
<1>9. CASE j \notin DOMAIN graph
  BY Zenon, <1>5, <1>6, <1>9
<1> QED BY Zenon, <1>7, <1>8, <1>9

LEMMA GraphGrows ==
  ASSUME NEW s, NEW n, NEW id, NEW old, Grows(s, n, id, old), Types'
  PROVE  GraphHoldsTraces' /\ LastPart'
<1>1. \A v : v \in Vertices' <=> \E k \in DOMAIN graph' : v = graph'[k]
  BY Zenon, GrowPaths
<1>2. /\ \A j, k \in DOMAIN graph' : graph'[j].path = graph'[k].path => j = k
      /\ Range(blocks') \subseteq Paths'
      /\ \A p \in Paths' : \A i \in 1 .. Len(p) : SubSeq(p, 1, i) \in Paths'
  BY Zenon, GrowTree
<1>3. {v \in Vertices : IsLeaf(v.path)}' = {[path |-> blocks[t], id |-> t] : t \in DOMAIN executed}'
  BY Zenon, GrowEnds
<1>4. ASSUME NEW v \in Vertices' PROVE v.id \in DOMAIN executed' /\ IsPrefix(v.path, blocks'[v.id])
  <2>1. PICK k \in DOMAIN graph' : v = graph'[k]
    BY Zenon, <1>1, <1>4
  <2>2. graph'[k].id \in DOMAIN executed' /\ IsPrefix(graph'[k].path, blocks'[graph'[k].id])
    BY Zenon, GrowIds
  <2> QED BY Zenon, <2>1, <2>2
<1>5. ASSUME NEW u \in Vertices', NEW v \in Vertices',
             IsPrefix(u.path, v.path), IsPrefix(v.path, blocks'[u.id])
      PROVE  v.id = u.id
  <2>1. PICK j \in DOMAIN graph' : u = graph'[j]
    BY Zenon, <1>1, <1>5
  <2>2. PICK k \in DOMAIN graph' : v = graph'[k]
    BY Zenon, <1>1, <1>5
  <2>3. IsPrefix(graph'[j].path, graph'[k].path) /\ IsPrefix(graph'[k].path, blocks'[graph'[j].id])
    BY Zenon, <1>5, <2>1, <2>2
  <2>4. graph'[k].id = graph'[j].id
    BY Zenon, <2>3, GrowLastPart
  <2> QED BY Zenon, <2>1, <2>2, <2>4
<1>6. GraphHoldsTraces'
  BY Zenon, <1>2, <1>3, <1>4 DEF GraphHoldsTraces
<1>7. LastPart'
  BY Zenon, <1>5 DEF LastPart
<1> QED BY Zenon, <1>6, <1>7

Vertex == [path : Seq(Nat) \ {<<>>}, id : Nat]

LEMMA ConcatFacts ==
  ASSUME NEW S, NEW p \in Seq(S), NEW q \in Seq(S)
  PROVE  /\ p \o q \in Seq(S) /\ Len(p) \in Nat /\ Len(q) \in Nat
         /\ DOMAIN p = 1 .. Len(p) /\ DOMAIN q = 1 .. Len(q)
         /\ DOMAIN (p \o q) = 1 .. Len(p) + Len(q)
         /\ \A i \in 1 .. Len(p) : (p \o q)[i] = p[i]
         /\ \A i \in 1 .. Len(q) : (p \o q)[Len(p) + i] = q[i]
OBVIOUS

LEMMA NewVerticesFacts ==
  ASSUME NEW s \in Seq(Nat), NEW n \in Nat, n < Len(s), NEW id \in Nat
  PROVE  /\ NewVertices(id, s, n) \in Seq(Vertex) /\ Len(NewVertices(id, s, n)) = Len(s) - n
         /\ Len(s) - n \in Nat
         /\ \A k \in 1 .. Len(s) - n :
              NewVertices(id, s, n)[k] = [path |-> SubSeq(s, 1, n + k), id |-> id]
<1> DEFINE v(k) == [path |-> SubSeq(s, 1, n + k), id |-> id]
<1>1. Len(s) \in Nat /\ Len(s) - n \in Nat
  OBVIOUS
<1>2. ASSUME NEW k \in 1 .. Len(s) - n PROVE v(k) \in Vertex
  <2>1. n + k \in 0 .. Len(s) /\ n + k # 0
    BY <1>1
  <2>2. SubSeq(s, 1, n + k) \in Seq(Nat) /\ Len(SubSeq(s, 1, n + k)) = n + k
    BY Zenon, <2>1, Beginning
  <2>3. SubSeq(s, 1, n + k) # <<>>
    BY <2>1, <2>2
  <2> QED BY <2>2, <2>3 DEF Vertex
<1> HIDE DEF v
<1>3. [k \in 1 .. Len(s) - n |-> v(k)] \in Seq(Vertex)
  BY <1>1, <1>2
<1>4. Len([k \in 1 .. Len(s) - n |-> v(k)]) = Len(s) - n
  BY <1>1
<1>5. NewVertices(id, s, n) = [k \in 1 .. Len(s) - n |-> v(k)]
  BY Zenon DEF NewVertices, v
<1>6. \A k \in 1 .. Len(s) - n : NewVertices(id, s, n)[k] = v(k)
  BY Zenon, <1>5
<1> QED BY Zenon, <1>1, <1>3, <1>4, <1>5, <1>6 DEF v

LEMMA PlaceOf ==
  ASSUME NEW N \in Nat, NEW L \in Nat, NEW n \in Nat, n < L, NEW k \in (1 .. N + (L - n)) \ (1 .. N)
  PROVE  /\ k - N \in 1 .. L - n /\ N + (k - N) = k /\ k \in Int
         /\ n + (k - N) \in n + 1 .. L /\ n + (k - N) \in 0 .. L
OBVIOUS

LEMMA PlaceFor ==
  ASSUME NEW N \in Nat, NEW L \in Nat, NEW n \in Nat, n < L, NEW m \in n + 1 .. L
  PROVE  /\ m - n \in 1 .. L - n /\ n + (m - n) = m
         /\ N + (m - n) \in 1 .. N + (L - n) /\ N + (m - n) \notin 1 .. N
OBVIOUS

\* What becomes of the vertices that are there.
Renamed(g, id, old) ==
  /\ g \in Seq(Vertex) /\ Len(g) = Len(graph)
  /\ \A k \in DOMAIN graph :
       g[k] = [path |-> graph[k].path, id |-> IF graph[k].id \in old THEN id ELSE graph[k].id]

\* The new vertices go behind what has become of the others.
LEMMA GrownByConcat ==
  ASSUME Types, NEW s \in Seq(Nat), NEW n \in Nat, n < Len(s), NEW id \in Nat, NEW old,
         NEW g, Renamed(g, id, old), graph' = g \o NewVertices(id, s, n)
  PROVE  graph' \in Seq(Vertex) /\ Grown(s, n, id, old)
<1> DEFINE h == NewVertices(id, s, n)  N == Len(graph)  L == Len(s)
<1>1. /\ h \in Seq(Vertex) /\ Len(h) = L - n /\ L - n \in Nat
      /\ \A k \in 1 .. L - n : h[k] = [path |-> SubSeq(s, 1, n + k), id |-> id]
  BY Zenon, NewVerticesFacts
<1>2. N \in Nat /\ DOMAIN graph = 1 .. N /\ L \in Nat /\ n < L
  BY GraphFacts
<1> HIDE DEF h, N, L
<1>3. graph' = g \o h /\ Len(g) = N /\ g \in Seq(Vertex)
  BY Zenon DEF h, N, Renamed
<1>4. /\ graph' \in Seq(Vertex) /\ DOMAIN graph' = 1 .. N + (L - n)
      /\ \A i \in 1 .. N : graph'[i] = g[i]
      /\ \A i \in 1 .. L - n : graph'[N + i] = h[i]
  <2>1. /\ g \o h \in Seq(Vertex) /\ DOMAIN (g \o h) = 1 .. Len(g) + Len(h)
        /\ \A i \in 1 .. Len(g) : (g \o h)[i] = g[i]
        /\ \A i \in 1 .. Len(h) : (g \o h)[Len(g) + i] = h[i]
    <3>1. h \in Seq(Vertex) /\ g \in Seq(Vertex)
      BY Zenon, <1>1, <1>3
    <3> QED BY <3>1, ConcatFacts
  <2> QED BY Zenon, <1>1, <1>3, <2>1
<1>5. DOMAIN graph \subseteq DOMAIN graph'
  BY <1>1, <1>2, <1>4
<1>6. \A k \in DOMAIN graph :
        graph'[k] = [path |-> graph[k].path, id |-> IF graph[k].id \in old THEN id ELSE graph[k].id]
  BY Zenon, <1>2, <1>4 DEF Renamed
<1>7. ASSUME NEW k \in DOMAIN graph' \ DOMAIN graph
      PROVE  /\ n + (k - N) \in n + 1 .. L
             /\ graph'[k] = [path |-> SubSeq(s, 1, n + (k - N)), id |-> id]
  <2>1. k - N \in 1 .. L - n /\ N + (k - N) = k /\ n + (k - N) \in n + 1 .. L
    <3>1. k \in (1 .. N + (L - n)) \ (1 .. N)
      BY Zenon, <1>2, <1>4
    <3>2. N \in Nat /\ L \in Nat /\ n < L
      BY Zenon, <1>2
    <3>3. k - N \in 1 .. L - n /\ n + (k - N) \in n + 1 .. L /\ k \in Int
      BY Zenon, <3>1, <3>2, PlaceOf
    <3>4. N + (k - N) = k
      BY <3>2, <3>3
    <3> QED BY Zenon, <3>3, <3>4
  <2>2. graph'[k] = h[k - N]
    BY Zenon, <1>4, <2>1
  <2> QED BY Zenon, <1>1, <2>1, <2>2
<1>8. ASSUME NEW m \in n + 1 .. L
      PROVE  /\ N + (m - n) \in DOMAIN graph' \ DOMAIN graph
             /\ graph'[N + (m - n)] = [path |-> SubSeq(s, 1, m), id |-> id]
  <2>1. m - n \in 1 .. L - n /\ n + (m - n) = m /\ N + (m - n) \in 1 .. N + (L - n) /\ N + (m - n) \notin 1 .. N
    <3>1. N \in Nat /\ L \in Nat /\ n < L
      BY Zenon, <1>2
    <3>2. m - n \in 1 .. L - n /\ N + (m - n) \in 1 .. N + (L - n) /\ N + (m - n) \notin 1 .. N
      BY Zenon, <3>1, PlaceFor
    <3>3. n + (m - n) = m
      BY <3>1
    <3> QED BY Zenon, <3>2, <3>3
  <2>2. graph'[N + (m - n)] = h[m - n]
    BY Zenon, <1>4, <2>1
  <2>3. h[m - n] = [path |-> SubSeq(s, 1, n + (m - n)), id |-> id]
    BY Zenon, <1>1, <2>1
  <2> QED BY Zenon, <1>2, <1>4, <2>1, <2>2, <2>3
<1>9. ASSUME NEW j \in DOMAIN graph' \ DOMAIN graph, NEW k \in DOMAIN graph' \ DOMAIN graph,
             graph'[j].path = graph'[k].path
      PROVE  j = k
  <2>1. /\ graph'[j] = [path |-> SubSeq(s, 1, n + (j - N)), id |-> id] /\ n + (j - N) \in n + 1 .. L
        /\ graph'[k] = [path |-> SubSeq(s, 1, n + (k - N)), id |-> id] /\ n + (k - N) \in n + 1 .. L
    BY Zenon, <1>7
  <2>2. SubSeq(s, 1, n + (j - N)) = SubSeq(s, 1, n + (k - N))
    BY <1>9, <2>1
  <2>3. n + (j - N) \in 0 .. L /\ n + (k - N) \in 0 .. L
    BY Zenon, <1>2, <1>4, PlaceOf
  <2>4. \A m \in 0 .. L : Len(SubSeq(s, 1, m)) = m
    BY Zenon, Beginning DEF L
  <2>5. n + (j - N) = n + (k - N)
    BY Zenon, <2>2, <2>3, <2>4
  <2>6. j \in Int /\ k \in Int
    BY Zenon, <1>2, <1>4, PlaceOf
  <2> QED BY <1>2, <2>5, <2>6
<1>10. Grown(s, n, id, old)
  BY Zenon, <1>5, <1>6, <1>7, <1>8, <1>9 DEF Grown, L
<1> QED BY Zenon, <1>4, <1>10

\* back_insert gives the new id to all vertices of the superseded trace, and to no other.
LEMMA BackInserts ==
  ASSUME PoolInv, NEW s \in BlockSeqs, NEW n, DivergesAt(s, n), graph # <<>>, n < Len(s),
         NEW prev, prev = IdAt(SubSeq(s, 1, n)), IsLeaf(SubSeq(s, 1, n)), NEW id \in Nat
  PROVE  Renamed(back_insert(id, prev, s, n), id, {prev})
<1> DEFINE at == SubSeq(s, 1, n)
           C(k) == /\ Len(graph[k].path) <= n /\ IsPrefix(graph[k].path, s)
                   /\ \A m \in Len(graph[k].path) .. n : IdAt(SubSeq(s, 1, m)) = prev
           v(k) == IF C(k) THEN [graph[k] EXCEPT !.id = id] ELSE graph[k]
           w(k) == [path |-> graph[k].path, id |-> IF graph[k].id \in {prev} THEN id ELSE graph[k].id]
<1>1. /\ Types /\ s \in Seq(Nat) /\ Len(s) \in Nat /\ n \in 0 .. Len(s) /\ n > 0
      /\ \A m \in 1 .. Len(s) : SubSeq(s, 1, m) \in Paths <=> m <= n
  BY Zenon, BlockFacts DEF PoolInv, DivergesAt
<1>2. /\ \A k \in DOMAIN graph :
           /\ graph[k].path \in Seq(Nat) /\ graph[k].id \in Nat
           /\ Len(graph[k].path) \in Nat /\ Len(graph[k].path) >= 1
           /\ graph[k].path \in Paths
           /\ graph[k] = [path |-> graph[k].path, id |-> graph[k].id]
      /\ \A p : p \in Paths <=> \E k \in DOMAIN graph : p = graph[k].path
  BY Zenon, <1>1, GraphFacts
<1>3. n \in 1 .. Len(s) /\ n <= n /\ n \in Nat
  BY <1>1
<1>4. at \in Paths /\ at \in Seq(Nat) /\ Len(at) = n /\ IsPrefix(at, s)
  BY Zenon, <1>1, <1>3, Beginning, BeginningIsPrefix
<1>5. PICK a \in DOMAIN graph : at = graph[a].path
  BY Zenon, <1>2, <1>4
<1>6. prev = graph[a].id /\ blocks[prev] = at
  BY Zenon, <1>5, IdAtVertex, LeafIsEnd
<1>7. ASSUME NEW k \in DOMAIN graph, C(k) PROVE graph[k].id = prev
  <2>1. graph[k].path = SubSeq(s, 1, Len(graph[k].path))
    BY Zenon, <1>1, <1>2, <1>7, PrefixIsBeginning
  <2>2. Len(graph[k].path) \in Len(graph[k].path) .. n
    BY <1>2, <1>3, <1>7
  <2>3. IdAt(SubSeq(s, 1, Len(graph[k].path))) = prev
    BY Zenon, <1>7, <2>2
  <2> QED BY Zenon, <1>7, <2>1, <2>3, IdAtVertex
<1>8. ASSUME NEW k \in DOMAIN graph, graph[k].id = prev PROVE C(k)
  <2> DEFINE p == graph[k].path
  <2>1. IsPrefix(p, at)
    BY Zenon, <1>6, <1>8, IdFacts
  <2>2. Len(p) <= n
    BY Zenon, <1>4, <2>1 DEF IsPrefix
  <2>3. IsPrefix(p, s)
    BY Zenon, <1>1, <1>2, <1>4, <2>1, PrefixTransitive
  <2>4. ASSUME NEW m \in Len(p) .. n PROVE IdAt(SubSeq(s, 1, m)) = prev
    <3>1. Len(p) \in Nat /\ Len(p) >= 1
      BY Zenon, <1>2
    <3>2. m \in 1 .. Len(s) /\ m \in 0 .. Len(s) /\ m <= n /\ Len(p) <= m
      <4> HIDE DEF p
      <4> QED BY <1>1, <2>4, <3>1
    <3>3. PICK j \in DOMAIN graph : SubSeq(s, 1, m) = graph[j].path
      BY Zenon, <1>1, <1>2, <3>2
    <3>4. graph[j].path \in Seq(Nat) /\ Len(graph[j].path) = m /\ IsPrefix(graph[j].path, s)
      <4>1. SubSeq(s, 1, m) \in Seq(Nat) /\ Len(SubSeq(s, 1, m)) = m
        BY Zenon, <1>1, <3>2, Beginning
      <4>2. IsPrefix(SubSeq(s, 1, m), s)
        BY Zenon, <1>1, <3>2, BeginningIsPrefix
      <4> QED BY Zenon, <3>3, <4>1, <4>2
    <3>5. IsPrefix(p, graph[j].path)
      BY Zenon, <1>1, <1>2, <2>3, <3>2, <3>4, PrefixesNested
    <3>6. IsPrefix(graph[j].path, blocks[graph[k].id])
      BY Zenon, <1>1, <1>4, <1>6, <1>8, <3>2, <3>4, PrefixesNested
    <3>7. graph[j].id = prev
      BY Zenon, <1>8, <3>5, <3>6, LastPartAt
    <3> QED BY Zenon, <3>3, <3>7, IdAtVertex
  <2> QED BY Zenon, <2>2, <2>3, <2>4
<1>9. ASSUME NEW k \in DOMAIN graph PROVE v(k) = w(k) /\ v(k) \in Vertex
  <2>1. graph[k] = [path |-> graph[k].path, id |-> graph[k].id]
    BY Zenon, <1>2
  <2>2. graph[k].path \in Seq(Nat) \ {<<>>} /\ graph[k].id \in Nat
    <3>1. graph[k].path \in Seq(Nat) /\ Len(graph[k].path) >= 1 /\ graph[k].id \in Nat
      BY Zenon, <1>2
    <3> QED BY <3>1
  <2>3. C(k) <=> graph[k].id = prev
    BY Zenon, <1>7, <1>8
  <2> HIDE DEF C
  <2>4. CASE graph[k].id = prev
    <3>1. v(k) = [path |-> graph[k].path, id |-> id]
      <4>1. v(k) = [graph[k] EXCEPT !.id = id]
        BY Zenon, <2>3, <2>4
      <4> QED BY <2>1, <4>1
    <3>2. w(k) = [path |-> graph[k].path, id |-> id]
      BY Zenon, <2>4
    <3>3. [path |-> graph[k].path, id |-> id] \in Vertex
      BY <2>2 DEF Vertex
    <3> QED BY Zenon, <3>1, <3>2, <3>3
  <2>5. CASE graph[k].id # prev
    <3>1. v(k) = graph[k]
      BY Zenon, <2>3, <2>5
    <3>2. w(k) = [path |-> graph[k].path, id |-> graph[k].id]
      BY Zenon, <2>5
    <3>3. [path |-> graph[k].path, id |-> graph[k].id] \in Vertex
      BY <2>2 DEF Vertex
    <3> QED BY Zenon, <2>1, <3>1, <3>2, <3>3
  <2> QED BY Zenon, <2>4, <2>5
<1>10. back_insert(id, prev, s, n) = [k \in 1 .. Len(graph) |-> v(k)]
  BY Zenon DEF back_insert
<1>11. Len(graph) \in Nat /\ DOMAIN graph = 1 .. Len(graph)
  BY Zenon, <1>1, GraphFacts
<1> HIDE DEF v, w
<1>12. [k \in 1 .. Len(graph) |-> v(k)] \in Seq(Vertex) /\ Len([k \in 1 .. Len(graph) |-> v(k)]) = Len(graph)
  BY <1>9, <1>11
<1>13. \A k \in DOMAIN graph : [i \in 1 .. Len(graph) |-> v(i)][k] = w(k)
  BY Zenon, <1>9, <1>11
<1> QED BY Zenon, <1>10, <1>12, <1>13 DEF Renamed, w

LEMMA KeepsAll == ASSUME Types, NEW id PROVE Renamed(graph, id, {})
<1>1. graph \in Seq(Vertex)
  BY Zenon DEF Types, Vertex
<1>2. \A k \in DOMAIN graph : graph[k] = [path |-> graph[k].path, id |-> graph[k].id]
  BY Zenon, GraphFacts
<1>3. \A k \in DOMAIN graph :
        graph[k] = [path |-> graph[k].path, id |-> IF graph[k].id \in {} THEN id ELSE graph[k].id]
  BY Zenon, <1>2
<1> QED BY Zenon, <1>1, <1>3 DEF Renamed

LEMMA WithFacts ==
  ASSUME NEW f, NEW x, NEW y
  PROVE  /\ DOMAIN With(f, x, y) = DOMAIN f \cup {x} /\ With(f, x, y)[x] = y
         /\ \A z \in DOMAIN f \ {x} : With(f, x, y)[z] = f[z]
  BY Zenon DEF With

LEMMA WithoutFacts ==
  ASSUME NEW f, NEW x
  PROVE  /\ DOMAIN Without(f, x) = DOMAIN f \ {x}
         /\ \A z \in DOMAIN f \ {x} : Without(f, x)[z] = f[z]
  BY Zenon DEF Without

LEMMA EmptyConcat == ASSUME NEW S, NEW q \in Seq(S) PROVE <<>> \o q = q
OBVIOUS

\* A trace id that is accepted, and the traces in old that it supersedes: what is executed
\* remains so, and the new one is not.
Accepts(s, id, old) ==
  /\ executed' \in [DOMAIN executed' -> BOOLEAN] /\ ~executed'[id]
  /\ \A t \in DOMAIN executed \ old : executed'[t] = executed[t]
  /\ superseded' = superseded \cup old
  /\ Accept(id, s)

LEMMA AddsExecuted ==
  ASSUME NEW f, f \in [DOMAIN f -> BOOLEAN], NEW id, id \notin DOMAIN f, executed' = With(f, id, FALSE)
  PROVE  /\ executed' \in [DOMAIN executed' -> BOOLEAN] /\ ~executed'[id]
         /\ DOMAIN executed' = DOMAIN f \cup {id}
         /\ \A t \in DOMAIN f : executed'[t] = f[t]
<1>1. /\ DOMAIN executed' = DOMAIN f \cup {id} /\ executed'[id] = FALSE
      /\ \A t \in DOMAIN f : executed'[t] = f[t]
  <2>1. /\ DOMAIN With(f, id, FALSE) = DOMAIN f \cup {id} /\ With(f, id, FALSE)[id] = FALSE
        /\ \A t \in DOMAIN f \ {id} : With(f, id, FALSE)[t] = f[t]
    BY DEF With
  <2>2. \A t \in DOMAIN f : t \in DOMAIN f \ {id}
    BY Zenon
  <2> QED BY Zenon, <2>1, <2>2
<1>2. \A t \in DOMAIN f : f[t] \in BOOLEAN
  BY Zenon
<1>3. \A t \in DOMAIN executed' : executed'[t] \in BOOLEAN
  BY Zenon, <1>1, <1>2
<1>4. executed' = [t \in DOMAIN executed' |-> executed'[t]]
  <2>1. With(f, id, FALSE) = [z \in DOMAIN With(f, id, FALSE) |-> With(f, id, FALSE)[z]]
    BY Zenon DEF With
  <2> QED BY Zenon, <2>1
<1>5. executed' \in [DOMAIN executed' -> BOOLEAN]
  BY Zenon, <1>3, <1>4
<1> QED BY Zenon, <1>1, <1>5

LEMMA InsertCases ==
  ASSUME PoolInv, NEW s \in BlockSeqs, Insert(s), DivergesAt(s, find_trace_divergence(s))
  PROVE  \/ Reject /\ find_trace_divergence(s) = Len(s)
         \/ \E old : /\ Grows(s, find_trace_divergence(s), Len(blocks) + 1, old)
                     /\ graph' \in Seq(Vertex) /\ Accepts(s, Len(blocks) + 1, old)
<1> DEFINE n == find_trace_divergence(s)  id == Len(blocks) + 1
           at == SubSeq(s, 1, n)  prev == IdAt(at)
<1>1. /\ Types /\ s \in Seq(Nat) /\ Len(s) \in Nat /\ Len(s) >= 1 /\ n \in 0 .. Len(s)
      /\ \A m \in 1 .. Len(s) : SubSeq(s, 1, m) \in Paths <=> m <= n
  BY Zenon, BlockFacts DEF PoolInv, DivergesAt
<1>2. /\ blocks \in Seq(BlockSeqs) /\ executed \in [DOMAIN executed -> BOOLEAN]
      /\ DOMAIN executed \subseteq DOMAIN blocks
  BY Zenon, <1>1 DEF Types
<1>3. id \in Nat /\ id \notin DOMAIN blocks /\ blocks' = Append(blocks, s) /\ n \in Nat
  <2>1. blocks' = Append(blocks, s)
    BY Zenon DEF Insert
  <2>2. id \in Nat /\ id \notin DOMAIN blocks
    BY <1>2
  <2> HIDE DEF n
  <2> QED BY <1>1, <2>1, <2>2
<1>4. id \notin DOMAIN executed
  BY Zenon, <1>2, <1>3
<1>5. ASSUME graph = <<>>, graph' = NewVertices(id, s, 0), executed' = With(executed, id, FALSE),
             Accept(id, s), superseded' = superseded
      PROVE  Grows(s, n, id, {}) /\ graph' \in Seq(Vertex) /\ Accepts(s, id, {})
  <2>1. n = 0
    <3>1. Paths = {}
      <4>1. DOMAIN graph = {}
        BY <1>5
      <4> QED BY Zenon, <1>1, <4>1, GraphFacts
    <3>2. 1 \in 1 .. Len(s)
      BY <1>1
    <3>3. ~(1 <= n)
      BY Zenon, <1>1, <3>1, <3>2
    <3> HIDE DEF n
    <3> QED BY <1>1, <3>3
  <2>2. n < Len(s) /\ 0 \in Nat /\ 0 < Len(s)
    BY <1>1, <2>1
  <2>3. NewVertices(id, s, 0) \in Seq(Vertex)
    BY Zenon, <1>1, <1>3, <2>2, NewVerticesFacts
  <2>4. graph' = graph \o NewVertices(id, s, n)
    BY Zenon, <1>5, <2>1, <2>3, EmptyConcat
  <2>5. graph' \in Seq(Vertex) /\ Grown(s, n, id, {})
    BY Zenon, <1>1, <1>3, <2>2, <2>4, KeepsAll, GrownByConcat
  <2>6. /\ executed' \in [DOMAIN executed' -> BOOLEAN] /\ ~executed'[id]
        /\ DOMAIN executed' = DOMAIN executed \cup {id}
        /\ \A t \in DOMAIN executed : executed'[t] = executed[t]
    BY Zenon, <1>2, <1>4, <1>5, AddsExecuted
  <2>7. {} = IF graph # <<>> /\ IsLeaf(at) THEN {IdAt(at)} ELSE {}
    BY Zenon, <1>5
  <2>8. Accepts(s, id, {})
    BY Zenon, <1>5, <2>6 DEF Accepts
  <2>9. DOMAIN executed' = (DOMAIN executed \ {}) \cup {id}
    BY Zenon, <2>6
  <2> QED BY Zenon, <1>3, <2>2, <2>5, <2>7, <2>8, <2>9 DEF Grows
<1>6. ASSUME graph # <<>>, n < Len(s), ~IsLeaf(at), graph' = graph \o NewVertices(id, s, n),
             executed' = With(executed, id, FALSE), Accept(id, s), superseded' = superseded
      PROVE  Grows(s, n, id, {}) /\ graph' \in Seq(Vertex) /\ Accepts(s, id, {})
  <2>5. graph' \in Seq(Vertex) /\ Grown(s, n, id, {})
    BY Zenon, <1>1, <1>3, <1>6, KeepsAll, GrownByConcat
  <2>6. /\ executed' \in [DOMAIN executed' -> BOOLEAN] /\ ~executed'[id]
        /\ DOMAIN executed' = DOMAIN executed \cup {id}
        /\ \A t \in DOMAIN executed : executed'[t] = executed[t]
    BY Zenon, <1>2, <1>4, <1>6, AddsExecuted
  <2>7. {} = IF graph # <<>> /\ IsLeaf(at) THEN {IdAt(at)} ELSE {}
    BY Zenon, <1>6
  <2>8. Accepts(s, id, {})
    BY Zenon, <1>6, <2>6 DEF Accepts
  <2>9. DOMAIN executed' = (DOMAIN executed \ {}) \cup {id}
    BY Zenon, <2>6
  <2> QED BY Zenon, <1>3, <1>6, <2>5, <2>7, <2>8, <2>9 DEF Grows
<1>7. ASSUME graph # <<>>, n < Len(s), IsLeaf(at),
             graph' = back_insert(id, prev, s, n) \o NewVertices(id, s, n),
             executed' = With(Without(executed, prev), id, FALSE), Accept(id, s),
             superseded' = superseded \cup {prev}
      PROVE  Grows(s, n, id, {prev}) /\ graph' \in Seq(Vertex) /\ Accepts(s, id, {prev})
  <2>4. Renamed(back_insert(id, prev, s, n), id, {prev})
    BY Zenon, <1>3, <1>7, BackInserts
  <2>5. graph' \in Seq(Vertex) /\ Grown(s, n, id, {prev})
    BY Zenon, <1>1, <1>3, <1>7, <2>4, GrownByConcat
  <2> DEFINE f == Without(executed, prev)
  <2>a. DOMAIN f = DOMAIN executed \ {prev} /\ \A t \in DOMAIN executed \ {prev} : f[t] = executed[t]
    BY Zenon, WithoutFacts
  <2>b. f \in [DOMAIN f -> BOOLEAN]
    <3>1. f = [z \in DOMAIN f |-> f[z]]
      BY Zenon DEF Without
    <3>2. \A z \in DOMAIN f : f[z] \in BOOLEAN
      BY Zenon, <1>2, <2>a
    <3> HIDE DEF f
    <3> QED BY Zenon, <3>1, <3>2
  <2>c. id \notin DOMAIN f
    BY Zenon, <1>4, <2>a
  <2> HIDE DEF f
  <2>6. /\ executed' \in [DOMAIN executed' -> BOOLEAN] /\ ~executed'[id]
        /\ DOMAIN executed' = DOMAIN f \cup {id}
        /\ \A t \in DOMAIN f : executed'[t] = f[t]
    BY Zenon, <1>7, <2>b, <2>c, AddsExecuted DEF f
  <2>7. {prev} = IF graph # <<>> /\ IsLeaf(at) THEN {IdAt(at)} ELSE {}
    BY Zenon, <1>7
  <2>8. Accepts(s, id, {prev})
    BY Zenon, <1>7, <2>6, <2>a DEF Accepts
  <2>9. DOMAIN executed' = (DOMAIN executed \ {prev}) \cup {id}
    BY Zenon, <2>6, <2>a
  <2> QED BY Zenon, <1>3, <1>7, <2>5, <2>7, <2>8, <2>9 DEF Grows
<1>8. CASE graph = <<>> /\ graph' = NewVertices(id, s, 0) /\ executed' = With(executed, id, FALSE)
           /\ Accept(id, s) /\ UNCHANGED superseded
  BY Zenon, <1>5, <1>8
<1>9. CASE graph # <<>> /\ n = Len(s) /\ Reject
  BY Zenon, <1>9
<1>10. CASE graph # <<>> /\ n < Len(s) /\ ~IsLeaf(at) /\ graph' = graph \o NewVertices(id, s, n)
            /\ executed' = With(executed, id, FALSE) /\ Accept(id, s) /\ UNCHANGED superseded
  BY Zenon, <1>6, <1>10
<1>11. CASE graph # <<>> /\ n < Len(s) /\ IsLeaf(at)
            /\ graph' = back_insert(id, prev, s, n) \o NewVertices(id, s, n)
            /\ executed' = With(Without(executed, prev), id, FALSE)
            /\ superseded' = superseded \cup {prev} /\ Accept(id, s)
  BY Zenon, <1>7, <1>11
<1> QED BY Zenon, <1>8, <1>9, <1>10, <1>11 DEF Insert

LEMMA TestsKept ==
  ASSUME PoolInv, UNCHANGED testvars
  PROVE  (test_all = Range(arrived))' /\ TestsFIFO'
<1>1. test_all' = test_all /\ test_next' = test_next /\ arrived' = arrived /\ handed' = handed
  BY Zenon DEF testvars
<1>2. Order' = Order
  BY Zenon, <1>1 DEF Order
<1>3. test_all = Range(arrived) /\ TestsFIFO
  BY Zenon DEF PoolInv
<1>4. TestsFIFO'
  <2>1. /\ Range(Order) = Range(arrived)
        /\ \A i, j \in DOMAIN Order : i < j =>
             \E k \in DOMAIN arrived : arrived[k] = Order[i] /\ \A l \in 1 .. k : arrived[l] # Order[j]
    BY Zenon, <1>3 DEF TestsFIFO
  <2>2. /\ Range(Order') = Range(arrived')
        /\ \A i, j \in DOMAIN Order' : i < j =>
             \E k \in DOMAIN arrived' : arrived'[k] = Order'[i] /\ \A l \in 1 .. k : arrived'[l] # Order'[j]
    BY <1>1, <1>2, <2>1
  <2> QED BY Zenon, <2>2 DEF TestsFIFO
<1> QED BY Zenon, <1>1, <1>3, <1>4

\* The traces that have been accepted are among those that have arrived.
LEMMA UniqueArrived ==
  ASSUME PoolInv
  PROVE  /\ all_unique \subseteq DOMAIN blocks /\ next \subseteq all_unique
         /\ Range(chosen) \subseteq all_unique /\ thrown \subseteq all_unique
<1>1. all_unique \subseteq DOMAIN blocks
  BY Zenon DEF PoolInv, Accepted, Types
<1>2. next \subseteq all_unique /\ Range(chosen) \subseteq all_unique /\ thrown \subseteq all_unique
  BY Zenon DEF PoolInv, EveryTraceOnce
<1> QED BY Zenon, <1>1, <1>2

LEMMA RejectHolds ==
  ASSUME PoolInv, NEW s \in BlockSeqs, Insert(s), Reject, DivergesAt(s, Len(s))
  PROVE  PoolInv'
<1>1. /\ graph' = graph /\ executed' = executed /\ scores' = scores /\ all_unique' = all_unique
      /\ next' = next /\ superseded' = superseded
  BY Zenon DEF Reject
<1>2. /\ strategy' = strategy /\ chosen' = chosen /\ thrown' = thrown /\ crashed' = crashed
      /\ blocks' = Append(blocks, s) /\ UNCHANGED testvars
  BY Zenon DEF Insert
<1>3. test_next' = test_next /\ arrived' = arrived /\ handed' = handed
  BY Zenon, <1>2 DEF testvars
<1>4. /\ Types /\ blocks \in Seq(BlockSeqs) /\ DOMAIN executed \subseteq DOMAIN blocks
      /\ superseded \subseteq DOMAIN blocks
  BY Zenon DEF PoolInv, Types, Accepted
<1>5. /\ blocks' \in Seq(BlockSeqs) /\ DOMAIN blocks' = DOMAIN blocks \cup {Len(blocks) + 1}
      /\ blocks'[Len(blocks) + 1] = s /\ \A t \in DOMAIN blocks : blocks'[t] = blocks[t]
  BY <1>2, <1>4, AppendFacts
<1>6. DOMAIN executed' \subseteq DOMAIN blocks' /\ superseded' \subseteq DOMAIN blocks'
  BY Zenon, <1>1, <1>4, <1>5
<1>7. Types'
  <2>1. /\ strategy \in Strategies /\ crashed \in BOOLEAN
        /\ graph \in Seq([path : Seq(Nat) \ {<<>>}, id : Nat])
        /\ executed \in [DOMAIN executed -> BOOLEAN] /\ chosen \in Seq(Nat)
        /\ test_next \in Seq(Tests) /\ arrived \in Seq(Tests) /\ handed \in Seq(Tests)
    BY Zenon, <1>4 DEF Types
  <2> QED BY Zenon, <1>1, <1>2, <1>3, <1>5, <1>6, <2>1 DEF Types
<1>8. Vertices' = Vertices /\ Paths' = Paths /\ \A p : IsLeaf(p)' <=> IsLeaf(p)
  BY Zenon, <1>1 DEF Vertices, Paths, IsLeaf, Children
<1>9. Range(blocks') \subseteq Paths
  <2>1. \A t \in DOMAIN blocks : blocks[t] \in Paths
    BY Zenon DEF PoolInv, GraphHoldsTraces, Range
  <2>2. s \in Paths
    <3>1. Len(s) \in 1 .. Len(s) /\ Len(s) <= Len(s) /\ s \in Seq(Nat)
      <4>1. s \in Seq(Nat) /\ Len(s) \in Nat /\ Len(s) >= 1
        BY Zenon, BlockFacts
      <4> QED BY <4>1
    <3>2. SubSeq(s, 1, Len(s)) \in Paths
      BY Zenon, <3>1 DEF DivergesAt
    <3> QED BY Zenon, <3>1, <3>2, Whole
  <2>3. \A t \in DOMAIN blocks' : blocks'[t] \in Paths
    BY Zenon, <1>5, <2>1, <2>2
  <2> QED BY Zenon, <2>3 DEF Range
<1>10. \A t \in DOMAIN executed : blocks'[t] = blocks[t]
  BY Zenon, <1>4, <1>5
<1>11. \A v \in Vertices : v.id \in DOMAIN executed /\ blocks'[v.id] = blocks[v.id]
  BY Zenon, <1>10 DEF PoolInv, GraphHoldsTraces
<1>12. GraphHoldsTraces'
  <2>1. \A j, k \in DOMAIN graph' : graph'[j].path = graph'[k].path => j = k
    BY Zenon, <1>1 DEF PoolInv, GraphHoldsTraces
  <2>2. \A p \in Paths' : \A n \in 1 .. Len(p) : SubSeq(p, 1, n) \in Paths'
    BY Zenon, <1>8 DEF PoolInv, GraphHoldsTraces
  <2>3. {v \in Vertices' : IsLeaf(v.path)'} = {v \in Vertices : IsLeaf(v.path)}
    BY Zenon, <1>8
  <2>4. {[path |-> blocks'[t], id |-> t] : t \in DOMAIN executed'}
          = {[path |-> blocks[t], id |-> t] : t \in DOMAIN executed}
    BY <1>1, <1>10
  <2>5. {v \in Vertices : IsLeaf(v.path)} = {[path |-> blocks[t], id |-> t] : t \in DOMAIN executed}
    BY Zenon DEF PoolInv, GraphHoldsTraces
  <2>6. \A v \in Vertices : v.id \in DOMAIN executed /\ IsPrefix(v.path, blocks[v.id])
    BY Zenon DEF PoolInv, GraphHoldsTraces
  <2>7. \A v \in Vertices' : v.id \in DOMAIN executed' /\ IsPrefix(v.path, blocks'[v.id])
    BY Zenon, <1>1, <1>8, <1>11, <2>6
  <2>8. {v \in Vertices' : IsLeaf(v.path)'} = {[path |-> blocks'[t], id |-> t] : t \in DOMAIN executed'}
    BY Zenon, <2>3, <2>4, <2>5
  <2> QED BY Zenon, <1>8, <1>9, <2>1, <2>2, <2>7, <2>8 DEF GraphHoldsTraces
<1>13. LastPart'
  <2>1. LastPart
    BY Zenon DEF PoolInv
  <2>2. ASSUME NEW u \in Vertices, NEW v \in Vertices, IsPrefix(u.path, v.path),
               IsPrefix(v.path, blocks'[u.id])
        PROVE  v.id = u.id
    <3>1. IsPrefix(v.path, blocks[u.id])
      BY Zenon, <1>11, <2>2
    <3> QED BY Zenon, <2>1, <2>2, <3>1 DEF LastPart
  <2> QED BY Zenon, <1>8, <2>2 DEF LastPart
<1>14. Accepted' /\ EveryTraceOnce'
  <2>1. Accepted /\ EveryTraceOnce
    BY Zenon DEF PoolInv
  <2>2. Accepted'
    BY Zenon, <1>1, <1>2, <1>6, <2>1 DEF Accepted
  <2>3. EveryTraceOnce'
    BY Zenon, <1>1, <1>2, <2>1 DEF EveryTraceOnce
  <2> QED BY Zenon, <2>2, <2>3
<1>15. RootFirst'
  BY Zenon, <1>1 DEF PoolInv, RootFirst
<1> QED BY Zenon, <1>2, <1>7, <1>12, <1>13, <1>14, <1>15, TestsKept DEF PoolInv

\* The first vertex remains the first one, or it is the first of a new graph.
LEMMA GrowRoot ==
  ASSUME NEW s \in BlockSeqs, Insert(s), NEW old,
         Grows(s, find_trace_divergence(s), Len(blocks) + 1, old)
  PROVE  Len(graph'[1].path) = 1
<1> DEFINE n == find_trace_divergence(s)  id == Len(blocks) + 1
<1>1. Types /\ PoolInv /\ s \in Seq(Nat) /\ Len(s) \in Nat /\ id \in Nat /\ n \in Nat /\ n < Len(s)
  BY Zenon, GrowFacts DEF Grows
<1>2. CASE graph # <<>>
  <2>1. 1 \in DOMAIN graph
    <3>1. graph \in Seq([path : Seq(Nat) \ {<<>>}, id : Nat])
      BY Zenon, <1>1 DEF Types
    <3> QED BY <1>2, <3>1
  <2>2. graph'[1].path = graph[1].path
    BY <2>1, GrowVertices
  <2> QED BY Zenon, <1>1, <1>2, <2>2 DEF PoolInv, RootFirst
<1>3. CASE graph = <<>>
  <2>1. graph' = NewVertices(id, s, 0)
    <3>1. ~(n = Len(s))
      <4> HIDE DEF n
      <4> QED BY <1>1
    <3> QED BY Zenon, <1>3, <3>1 DEF Insert
  <2>2. 0 \in Nat /\ 0 < Len(s) /\ 1 \in 1 .. Len(s) - 0 /\ 1 \in 0 .. Len(s) /\ 0 + 1 = 1
    <3> HIDE DEF n
    <3> QED BY <1>1
  <2>3. graph'[1] = [path |-> SubSeq(s, 1, 0 + 1), id |-> id]
    <3> HIDE DEF id, n
    <3>1. \A k \in 1 .. Len(s) - 0 : NewVertices(id, s, 0)[k] = [path |-> SubSeq(s, 1, 0 + k), id |-> id]
      BY Zenon, <1>1, <2>2, NewVerticesFacts
    <3> QED BY Zenon, <2>1, <2>2, <3>1
  <2>4. Len(SubSeq(s, 1, 1)) = 1
    BY Zenon, <1>1, <2>2, Beginning
  <2>5. graph'[1].path = SubSeq(s, 1, 1)
    <3> HIDE DEF id, n
    <3>1. graph'[1].path = SubSeq(s, 1, 0 + 1)
      BY <2>3
    <3> QED BY Zenon, <2>2, <3>1
  <2> QED BY Zenon, <2>4, <2>5
<1> QED BY Zenon, <1>2, <1>3

LEMMA AcceptHolds ==
  ASSUME PoolInv, NEW s \in BlockSeqs, Insert(s), NEW id, id = Len(blocks) + 1, NEW old,
         Grows(s, find_trace_divergence(s), id, old), graph' \in Seq(Vertex), Accepts(s, id, old)
  PROVE  PoolInv'
<1>1. /\ strategy' = strategy /\ chosen' = chosen /\ thrown' = thrown /\ crashed' = crashed
      /\ blocks' = Append(blocks, s) /\ UNCHANGED testvars
  BY Zenon DEF Insert
<1>2. test_next' = test_next /\ arrived' = arrived /\ handed' = handed
  BY Zenon, <1>1 DEF testvars
<1>3. /\ executed' \in [DOMAIN executed' -> BOOLEAN] /\ ~executed'[id]
      /\ \A t \in DOMAIN executed \ old : executed'[t] = executed[t]
      /\ superseded' = superseded \cup old /\ Accept(id, s)
  BY Zenon DEF Accepts
<1>4. all_unique' = all_unique \cup {id} /\ next' = next \cup {id}
  BY Zenon, <1>3 DEF Accept
<1>5. DOMAIN executed' = (DOMAIN executed \ old) \cup {id}
  BY Zenon DEF Grows
<1>6. old \subseteq DOMAIN executed
  BY Zenon, OldEnds
<1>7. /\ id \notin DOMAIN blocks /\ DOMAIN blocks' = DOMAIN blocks \cup {id}
      /\ DOMAIN executed \subseteq DOMAIN blocks
  BY Zenon, GrowFacts
<1>8. Types'
  <2>1. /\ strategy \in Strategies /\ crashed \in BOOLEAN /\ blocks \in Seq(BlockSeqs)
        /\ chosen \in Seq(Nat)
        /\ test_next \in Seq(Tests) /\ arrived \in Seq(Tests) /\ handed \in Seq(Tests)
    BY Zenon DEF PoolInv, Types
  <2>2. blocks' \in Seq(BlockSeqs)
    BY <1>1, <2>1
  <2>3. DOMAIN executed' \subseteq DOMAIN blocks'
    BY Zenon, <1>5, <1>7
  <2> QED BY Zenon, <1>1, <1>2, <1>3, <2>1, <2>2, <2>3 DEF Types, Vertex
<1>9. GraphHoldsTraces' /\ LastPart'
  BY Zenon, <1>8, GraphGrows
<1>10. /\ Accepted /\ EveryTraceOnce /\ all_unique \subseteq DOMAIN blocks
       /\ next \subseteq all_unique /\ Range(chosen) \subseteq all_unique /\ thrown \subseteq all_unique
  BY Zenon, UniqueArrived DEF PoolInv
<1>11. id \notin next /\ id \notin Range(chosen) /\ id \notin thrown
  BY Zenon, <1>7, <1>10
<1>12. /\ all_unique = DOMAIN executed \cup superseded /\ DOMAIN executed \cap superseded = {}
       /\ superseded \subseteq DOMAIN blocks /\ (strategy \in ScoreStrategies => DOMAIN scores = next)
  BY Zenon, <1>10 DEF Accepted
<1>13. /\ all_unique' = DOMAIN executed' \cup superseded' /\ DOMAIN executed' \cap superseded' = {}
       /\ superseded' \subseteq DOMAIN blocks'
  <2>1. id \notin superseded
    BY Zenon, <1>7, <1>12
  <2>2. id \notin old
    BY Zenon, <1>6, <1>7
  <2>3. all_unique' = DOMAIN executed' \cup superseded'
    BY <1>3, <1>4, <1>5, <1>6, <1>12
  <2>4. DOMAIN executed' \cap superseded' = {}
    BY <1>3, <1>5, <1>12, <2>1, <2>2
  <2>5. superseded' \subseteq DOMAIN blocks'
    BY <1>3, <1>6, <1>7, <1>12
  <2> QED BY Zenon, <2>3, <2>4, <2>5
<1>14. strategy' \in ScoreStrategies => DOMAIN scores' = next'
  <2> SUFFICES ASSUME strategy \in ScoreStrategies PROVE DOMAIN scores' = next'
    BY Zenon, <1>1
  <2>1. PICK score : scores' = With(scores, id, score)
    BY Zenon, <1>3 DEF Accept
  <2>2. DOMAIN scores' = DOMAIN scores \cup {id}
    BY Zenon, <2>1, WithFacts
  <2> QED BY Zenon, <1>4, <1>12, <2>2
<1>15. Accepted'
  BY Zenon, <1>13, <1>14 DEF Accepted
<1>16. EveryTraceOnce'
  <2>1. /\ IsInjective(chosen) /\ all_unique = next \cup Range(chosen) \cup thrown
        /\ next \cap (Range(chosen) \cup thrown) = {} /\ Range(chosen) \cap thrown = {}
        /\ thrown \subseteq superseded
        /\ \A t \in DOMAIN executed : executed[t] <=> t \in Range(chosen)
    BY Zenon, <1>10 DEF EveryTraceOnce
  <2>2. all_unique' = next' \cup Range(chosen) \cup thrown
    BY <1>4, <2>1
  <2>3. next' \cap (Range(chosen) \cup thrown) = {}
    BY <1>4, <1>11, <2>1
  <2>4. thrown \subseteq superseded'
    BY Zenon, <1>3, <2>1
  <2>5. ASSUME NEW t \in DOMAIN executed' PROVE executed'[t] <=> t \in Range(chosen)
    <3>1. CASE t = id
      BY Zenon, <1>3, <1>11, <3>1
    <3>2. CASE t \in DOMAIN executed \ old
      BY Zenon, <1>3, <2>1, <3>2
    <3> QED BY Zenon, <1>5, <2>5, <3>1, <3>2
  <2> QED BY Zenon, <1>1, <2>1, <2>2, <2>3, <2>4, <2>5 DEF EveryTraceOnce
<1>17. RootFirst'
  BY Zenon, GrowRoot DEF RootFirst
<1> QED BY Zenon, <1>1, <1>8, <1>9, <1>15, <1>16, <1>17, TestsKept DEF PoolInv

-----------------------------------------------------------------------------
(* A trace that is selected.                                               *)

LEMMA RangeOfAppend ==
  ASSUME NEW S, NEW q \in Seq(S), NEW x \in S
  PROVE  /\ Range(Append(q, x)) = Range(q) \cup {x}
         /\ IsInjective(q) /\ x \notin Range(q) => IsInjective(Append(q, x))
<1> DEFINE r == Append(q, x)  n == Len(q) + 1
<1>1. /\ DOMAIN r = DOMAIN q \cup {n} /\ n \notin DOMAIN q /\ r[n] = x
      /\ \A i \in DOMAIN q : r[i] = q[i]
  OBVIOUS
<1> HIDE DEF r, n
<1>2. Range(r) = Range(q) \cup {x}
  BY <1>1 DEF Range
<1>3. ASSUME IsInjective(q), x \notin Range(q) PROVE IsInjective(r)
  BY <1>1, <1>3 DEF IsInjective, Range
<1> QED BY Zenon, <1>2, <1>3 DEF r

\* Take keeps the invariant, when t is a trace that waits, not executed if it is known.
LEMMA TakeHolds ==
  ASSUME PoolInv, NEW t \in next, NEW rest, Take(t, rest),
         strategy \in ScoreStrategies => DOMAIN rest = next \ {t}
  PROVE  PoolInv'
<1>1. /\ strategy' = strategy /\ blocks' = blocks /\ graph' = graph /\ all_unique' = all_unique
      /\ superseded' = superseded /\ crashed' = crashed /\ UNCHANGED testvars
      /\ scores' = rest /\ next' = next \ {t}
  BY Zenon DEF Take
<1>2. test_next' = test_next /\ arrived' = arrived /\ handed' = handed
  BY Zenon, <1>1 DEF testvars
<1>3. /\ IsInjective(chosen) /\ all_unique = next \cup Range(chosen) \cup thrown
      /\ next \cap (Range(chosen) \cup thrown) = {} /\ Range(chosen) \cap thrown = {}
      /\ thrown \subseteq superseded
      /\ \A u \in DOMAIN executed : executed[u] <=> u \in Range(chosen)
  BY Zenon DEF PoolInv, EveryTraceOnce
<1>4. Types /\ chosen \in Seq(Nat) /\ executed \in [DOMAIN executed -> BOOLEAN] /\ t \in Nat
  <2>1. Types
    BY Zenon DEF PoolInv
  <2>2. t \in DOMAIN blocks /\ DOMAIN blocks = 1 .. Len(blocks) /\ Len(blocks) \in Nat
    BY Zenon, <2>1, UniqueArrived, TraceFacts
  <2>3. t \in Nat
    BY <2>2
  <2> QED BY Zenon, <2>1, <2>3 DEF Types
<1>5. t \notin Range(chosen) /\ t \notin thrown
  BY Zenon, <1>3
<1> DEFINE G == /\ EveryTraceOnce' /\ chosen' \in Seq(Nat)
                /\ executed' \in [DOMAIN executed' -> BOOLEAN] /\ DOMAIN executed' = DOMAIN executed
<1>6. ASSUME t \in DOMAIN executed PROVE G
  <2>1. executed' = [executed EXCEPT ![t] = TRUE] /\ chosen' = Append(chosen, t) /\ thrown' = thrown
    BY Zenon, <1>6 DEF Take
  <2>2. /\ executed' \in [DOMAIN executed -> BOOLEAN] /\ DOMAIN executed' = DOMAIN executed
        /\ \A u \in DOMAIN executed : executed'[u] <=> (u = t \/ executed[u])
    BY Zenon, <1>4, <2>1
  <2>3. chosen' \in Seq(Nat) /\ Range(chosen') = Range(chosen) \cup {t} /\ IsInjective(chosen')
    <3>1. Append(chosen, t) \in Seq(Nat)
      BY <1>4
    <3>2. Range(Append(chosen, t)) = Range(chosen) \cup {t} /\ IsInjective(Append(chosen, t))
      BY <1>3, <1>4, <1>5, RangeOfAppend
    <3> QED BY Zenon, <2>1, <3>1, <3>2
  <2>4. EveryTraceOnce'
    <3>1. all_unique' = next' \cup Range(chosen') \cup thrown'
      BY <1>1, <1>3, <2>1, <2>3
    <3>2. next' \cap (Range(chosen') \cup thrown') = {}
      BY <1>1, <1>3, <2>1, <2>3
    <3>3. Range(chosen') \cap thrown' = {}
      BY <1>3, <1>5, <2>1, <2>3
    <3>4. \A u \in DOMAIN executed' : executed'[u] <=> u \in Range(chosen')
      BY Zenon, <1>3, <2>2, <2>3
    <3> QED BY Zenon, <1>1, <1>3, <2>1, <2>3, <3>1, <3>2, <3>3, <3>4 DEF EveryTraceOnce
  <2> QED BY Zenon, <2>2, <2>3, <2>4
<1>7. ASSUME t \notin DOMAIN executed PROVE G
  <2>1. executed' = executed /\ chosen' = chosen /\ thrown' = thrown \cup {t}
    BY Zenon, <1>7 DEF Take
  <2>2. t \in superseded
    BY Zenon, <1>3, <1>7 DEF PoolInv, Accepted
  <2>3. EveryTraceOnce'
    <3>1. all_unique' = next' \cup Range(chosen') \cup thrown'
      BY <1>1, <1>3, <2>1
    <3>2. next' \cap (Range(chosen') \cup thrown') = {}
      BY <1>1, <1>3, <2>1
    <3>3. Range(chosen') \cap thrown' = {}
      BY <1>3, <1>5, <2>1
    <3>4. thrown' \subseteq superseded'
      BY <1>1, <1>3, <2>1, <2>2
    <3> QED BY Zenon, <1>3, <2>1, <3>1, <3>2, <3>3, <3>4 DEF EveryTraceOnce
  <2> QED BY Zenon, <1>4, <2>1, <2>3
<1>8. G
  BY Zenon, <1>6, <1>7
<1>9. Types'
  <2>1. /\ strategy \in Strategies /\ crashed \in BOOLEAN /\ blocks \in Seq(BlockSeqs)
        /\ graph \in Seq([path : Seq(Nat) \ {<<>>}, id : Nat]) /\ DOMAIN executed \subseteq DOMAIN blocks
        /\ test_next \in Seq(Tests) /\ arrived \in Seq(Tests) /\ handed \in Seq(Tests)
    BY Zenon, <1>4 DEF Types
  <2> QED BY Zenon, <1>1, <1>2, <1>8, <2>1 DEF Types
<1>10. Vertices' = Vertices /\ Paths' = Paths /\ \A p : IsLeaf(p)' <=> IsLeaf(p)
  BY Zenon, <1>1 DEF Vertices, Paths, IsLeaf, Children
<1>11. GraphHoldsTraces' /\ LastPart'
  <2>1. GraphHoldsTraces /\ LastPart
    BY Zenon DEF PoolInv
  <2>2. {v \in Vertices' : IsLeaf(v.path)'} = {v \in Vertices : IsLeaf(v.path)}
    BY Zenon, <1>10
  <2>3. GraphHoldsTraces'
    BY Zenon, <1>1, <1>8, <1>10, <2>1, <2>2 DEF GraphHoldsTraces
  <2>4. LastPart'
    BY Zenon, <1>1, <1>10, <2>1 DEF LastPart
  <2> QED BY Zenon, <2>3, <2>4
<1>12. Accepted'
  <2>1. Accepted
    BY Zenon DEF PoolInv
  <2> QED BY Zenon, <1>1, <1>8, <2>1 DEF Accepted
<1>13. RootFirst'
  BY Zenon, <1>1 DEF PoolInv, RootFirst
<1> QED BY Zenon, <1>1, <1>8, <1>9, <1>11, <1>12, <1>13, TestsKept DEF PoolInv

\* A trace that the graph knows and that is not executed waits.
LEMMA OpenWaits ==
  ASSUME PoolInv, NEW t \in DOMAIN executed, ~executed[t]
  PROVE  t \in next
<1>1. t \in all_unique /\ t \notin superseded
  BY Zenon DEF PoolInv, Accepted
<1>2. t \notin Range(chosen) /\ t \notin thrown
  BY Zenon, <1>1 DEF PoolInv, EveryTraceOnce
<1> QED BY Zenon, <1>1, <1>2 DEF PoolInv, EveryTraceOnce

LEMMA IndexOfVertex ==
  ASSUME PoolInv, NEW k \in DOMAIN graph
  PROVE  IndexOf(graph[k].path) = k
<1>1. DOMAIN graph = 1 .. Len(graph)
  BY Zenon, GraphFacts DEF PoolInv
<1> DEFINE j == CHOOSE i \in 1 .. Len(graph) : graph[i].path = graph[k].path
<1>2. j \in 1 .. Len(graph) /\ graph[j].path = graph[k].path
  BY Zenon, <1>1
<1>3. j = k
  BY Zenon, <1>1, <1>2 DEF PoolInv, GraphHoldsTraces
<1> QED BY Zenon, <1>3 DEF IndexOf

LEMMA IndexFacts ==
  ASSUME PoolInv, NEW p \in Paths
  PROVE  IndexOf(p) \in Nat /\ IndexOf(p) \in DOMAIN graph /\ graph[IndexOf(p)].path = p
<1>1. Types /\ DOMAIN graph = 1 .. Len(graph) /\ Len(graph) \in Nat
  BY Zenon, GraphFacts DEF PoolInv
<1>2. PICK k \in DOMAIN graph : p = graph[k].path
  BY Zenon, <1>1, GraphFacts
<1>3. IndexOf(p) = k
  BY Zenon, <1>2, IndexOfVertex
<1>4. k \in Nat
  BY <1>1
<1> QED BY Zenon, <1>2, <1>3, <1>4

\* Where two paths of one length part, and that this is the order of a search.
Parts(p, q, m) ==
  /\ SubSeq(p, 1, m - 1) = SubSeq(q, 1, m - 1) /\ p[m] # q[m]
  /\ IndexOf(SubSeq(p, 1, m)) < IndexOf(SubSeq(q, 1, m))

LEMMA BeforeParts ==
  ASSUME NEW p, NEW q
  PROVE  Before(p, q) <=> \/ Len(p) < Len(q)
                          \/ Len(p) = Len(q) /\ \E m \in 1 .. Len(p) : Parts(p, q, m)
  BY Zenon DEF Before, Parts

\* Paths that agree before m also agree up to each earlier place.
LEMMA AgreeUpTo ==
  ASSUME NEW p \in Seq(Nat), NEW q \in Seq(Nat), Len(p) = Len(q), NEW m \in 1 .. Len(p),
         SubSeq(p, 1, m - 1) = SubSeq(q, 1, m - 1), NEW l \in 1 .. m - 1
  PROVE  SubSeq(p, 1, l) = SubSeq(q, 1, l) /\ p[l] = q[l]
<1>1. Len(p) \in Nat
  OBVIOUS
<1>2. m - 1 \in 0 .. Len(p) /\ l \in 0 .. m - 1 /\ m - 1 \in 0 .. Len(q)
  BY <1>1
<1>3. SubSeq(SubSeq(p, 1, m - 1), 1, l) = SubSeq(p, 1, l)
  BY Zenon, <1>2, BeginningTwice
<1>4. SubSeq(SubSeq(q, 1, m - 1), 1, l) = SubSeq(q, 1, l)
  BY Zenon, <1>2, BeginningTwice
<1>5. SubSeq(p, 1, m - 1)[l] = p[l]
  BY Zenon, <1>2, Beginning
<1>6. SubSeq(q, 1, m - 1)[l] = q[l]
  BY Zenon, <1>2, Beginning
<1> QED BY Zenon, <1>3, <1>4, <1>5, <1>6

LEMMA ThreePlaces ==
  ASSUME NEW N \in Nat, NEW m \in 1 .. N, NEW l \in 1 .. N
  PROVE  m \in 1 .. l - 1 \/ l \in 1 .. m - 1 \/ l = m
OBVIOUS

\* A longer agreement.
LEMMA AgreeOneMore ==
  ASSUME NEW p \in Seq(Nat), NEW q \in Seq(Nat), Len(p) = Len(q), NEW m \in 1 .. Len(p),
         SubSeq(p, 1, m - 1) = SubSeq(q, 1, m - 1)
  PROVE  p[m] = q[m] <=> SubSeq(p, 1, m) = SubSeq(q, 1, m)
<1>1. Len(p) \in Nat
  OBVIOUS
<1>2. /\ m \in 0 .. Len(p) /\ m \in 0 .. Len(q) /\ m \in 1 .. m
      /\ \A i \in 1 .. m : i \in 1 .. m - 1 \/ i = m
  BY <1>1
<1>3. /\ SubSeq(p, 1, m) \in Seq(Nat) /\ Len(SubSeq(p, 1, m)) = m
      /\ \A i \in 1 .. m : SubSeq(p, 1, m)[i] = p[i]
  BY Zenon, <1>2, Beginning
<1>4. /\ SubSeq(q, 1, m) \in Seq(Nat) /\ Len(SubSeq(q, 1, m)) = m
      /\ \A i \in 1 .. m : SubSeq(q, 1, m)[i] = q[i]
  BY Zenon, <1>2, Beginning
<1>5. ASSUME p[m] = q[m] PROVE SubSeq(p, 1, m) = SubSeq(q, 1, m)
  <2>1. \A i \in 1 .. m : p[i] = q[i]
    BY Zenon, <1>2, <1>5, AgreeUpTo
  <2>2. \A i \in 1 .. m : SubSeq(p, 1, m)[i] = SubSeq(q, 1, m)[i]
    BY Zenon, <1>3, <1>4, <2>1
  <2> QED BY Zenon, <1>3, <1>4, <2>2, SameSeq
<1>6. ASSUME SubSeq(p, 1, m) = SubSeq(q, 1, m) PROVE p[m] = q[m]
  BY Zenon, <1>2, <1>3, <1>4, <1>6
<1> QED BY Zenon, <1>5, <1>6

LEMMA BeforeIrreflexive == ASSUME PoolInv, NEW p \in Paths PROVE ~Before(p, p)
<1>1. Len(p) \in Nat
  BY Zenon, PathFacts DEF PoolInv
<1>2. ~(Len(p) < Len(p))
  BY <1>1
<1> QED BY Zenon, <1>2, BeforeParts DEF Parts

LEMMA BeforeTransitive ==
  ASSUME PoolInv, NEW p \in Paths, NEW q \in Paths, NEW r \in Paths, Before(p, q), Before(q, r)
  PROVE  Before(p, r)
<1>1. /\ p \in Seq(Nat) /\ Len(p) \in Nat /\ q \in Seq(Nat) /\ Len(q) \in Nat
      /\ r \in Seq(Nat) /\ Len(r) \in Nat
  BY Zenon, PathFacts DEF PoolInv
<1>2. Len(p) <= Len(q) /\ Len(q) <= Len(r)
  <2>1. (Len(p) < Len(q) \/ Len(p) = Len(q)) /\ (Len(q) < Len(r) \/ Len(q) = Len(r))
    BY Zenon, BeforeParts
  <2> QED BY <1>1, <2>1
<1>3. CASE Len(p) < Len(q) \/ Len(q) < Len(r)
  <2>1. Len(p) < Len(r)
    BY <1>1, <1>2, <1>3
  <2> QED BY Zenon, <2>1, BeforeParts
<1>4. CASE ~(Len(p) < Len(q)) /\ ~(Len(q) < Len(r))
  <2>1. PICK m \in 1 .. Len(p) : Len(p) = Len(q) /\ Parts(p, q, m)
    BY Zenon, <1>4, BeforeParts
  <2>2. PICK l \in 1 .. Len(q) : Len(q) = Len(r) /\ Parts(q, r, l)
    BY Zenon, <1>4, BeforeParts
  <2>3. l \in 1 .. Len(p) /\ m \in 1 .. Len(q) /\ Len(p) = Len(r)
    BY Zenon, <2>1, <2>2
  <2>4. /\ SubSeq(p, 1, m - 1) = SubSeq(q, 1, m - 1) /\ p[m] # q[m]
        /\ IndexOf(SubSeq(p, 1, m)) < IndexOf(SubSeq(q, 1, m))
        /\ SubSeq(q, 1, l - 1) = SubSeq(r, 1, l - 1) /\ q[l] # r[l]
        /\ IndexOf(SubSeq(q, 1, l)) < IndexOf(SubSeq(r, 1, l))
    BY Zenon, <2>1, <2>2 DEF Parts
  <2>5. CASE m \in 1 .. l - 1
    <3>1. SubSeq(q, 1, m) = SubSeq(r, 1, m) /\ q[m] = r[m]
      BY Zenon, <1>1, <2>2, <2>4, <2>5, AgreeUpTo
    <3>2. SubSeq(q, 1, m - 1) = SubSeq(r, 1, m - 1)
      <4>1. m - 1 \in 0 .. m /\ m \in 0 .. Len(q) /\ m \in 0 .. Len(r)
        BY <1>1, <2>2, <2>3
      <4>2. SubSeq(SubSeq(q, 1, m), 1, m - 1) = SubSeq(q, 1, m - 1)
        BY Zenon, <1>1, <4>1, BeginningTwice
      <4>3. SubSeq(SubSeq(r, 1, m), 1, m - 1) = SubSeq(r, 1, m - 1)
        BY Zenon, <1>1, <4>1, BeginningTwice
      <4> QED BY Zenon, <3>1, <4>2, <4>3
    <3>3. Parts(p, r, m)
      BY Zenon, <2>4, <3>1, <3>2 DEF Parts
    <3> QED BY Zenon, <2>3, <3>3, BeforeParts
  <2>6. CASE l \in 1 .. m - 1
    <3>1. SubSeq(p, 1, l) = SubSeq(q, 1, l) /\ p[l] = q[l]
      BY Zenon, <1>1, <2>1, <2>4, <2>6, AgreeUpTo
    <3>2. SubSeq(p, 1, l - 1) = SubSeq(q, 1, l - 1)
      <4>1. l - 1 \in 0 .. l /\ l \in 0 .. Len(p) /\ l \in 0 .. Len(q)
        BY <1>1, <2>3
      <4>2. SubSeq(SubSeq(p, 1, l), 1, l - 1) = SubSeq(p, 1, l - 1)
        BY Zenon, <1>1, <4>1, BeginningTwice
      <4>3. SubSeq(SubSeq(q, 1, l), 1, l - 1) = SubSeq(q, 1, l - 1)
        BY Zenon, <1>1, <4>1, BeginningTwice
      <4> QED BY Zenon, <3>1, <4>2, <4>3
    <3>3. Parts(p, r, l)
      BY Zenon, <2>4, <3>1, <3>2 DEF Parts
    <3> QED BY Zenon, <2>3, <3>3, BeforeParts
  <2>7. CASE l = m
    <3>1. m \in 1 .. Len(r) /\ m \in 0 .. Len(p) /\ m \in 1 .. m
      BY <1>1, <2>2, <2>3, <2>7
    <3>2. SubSeq(p, 1, m) \in Paths /\ SubSeq(q, 1, m) \in Paths /\ SubSeq(r, 1, m) \in Paths
      BY Zenon, <2>3, <3>1 DEF PoolInv, GraphHoldsTraces
    <3>3. /\ IndexOf(SubSeq(p, 1, m)) \in Nat /\ IndexOf(SubSeq(q, 1, m)) \in Nat
          /\ IndexOf(SubSeq(r, 1, m)) \in Nat
      BY Zenon, <3>2, IndexFacts
    <3>4. IndexOf(SubSeq(q, 1, m)) < IndexOf(SubSeq(r, 1, m))
      BY Zenon, <2>4, <2>7
    <3>5. IndexOf(SubSeq(p, 1, m)) < IndexOf(SubSeq(q, 1, m))
      BY Zenon, <2>4
    <3>6. IndexOf(SubSeq(p, 1, m)) < IndexOf(SubSeq(r, 1, m)) /\ IndexOf(SubSeq(p, 1, m)) # IndexOf(SubSeq(r, 1, m))
      BY <3>3, <3>4, <3>5
    <3>7. SubSeq(p, 1, m - 1) = SubSeq(r, 1, m - 1)
      BY Zenon, <2>4, <2>7
    <3>8. SubSeq(p, 1, m) # SubSeq(r, 1, m)
      BY Zenon, <3>6
    <3>9. p[m] # r[m]
      BY Zenon, <1>1, <2>3, <3>7, <3>8, AgreeOneMore
    <3>10. Parts(p, r, m)
      BY Zenon, <3>6, <3>7, <3>9 DEF Parts
    <3> QED BY Zenon, <2>3, <3>10, BeforeParts
  <2>8. m \in 1 .. l - 1 \/ l \in 1 .. m - 1 \/ l = m
    BY Zenon, <1>1, <2>3, ThreePlaces
  <2> QED BY Zenon, <2>5, <2>6, <2>7, <2>8
<1> QED BY Zenon, <1>3, <1>4

-----------------------------------------------------------------------------
(* The recursive descent.                                                  *)

LEMMA TimesPositive ==
  ASSUME NEW a \in Int, NEW b \in Int, NEW c \in Int, c > 0
  PROVE  a < b <=> a * c < b * c
OBVIOUS

\* Fractions with positive denominators are ordered.
LEMMA FractionsOrdered ==
  ASSUME NEW a \in Nat, NEW x \in Nat, x > 0, NEW b \in Nat, NEW y \in Nat, y > 0,
         NEW c \in Nat, NEW z \in Nat, z > 0, a * y < b * x, b * z < c * y
  PROVE  a * z < c * x
<1>1. (a * y) * z < (b * x) * z /\ (b * z) * x < (c * y) * x
  BY TimesPositive
<1>2. /\ (a * y) * z = (a * z) * y /\ (b * x) * z = (b * z) * x /\ (c * y) * x = (c * x) * y
      /\ a * z \in Int /\ c * x \in Int
  OBVIOUS
<1>3. (a * z) * y < (c * x) * y
  BY <1>1, <1>2
<1> QED BY <1>2, <1>3, TimesPositive

\* What select_by_recursive_score computes for each vertex.
Pick == CHOOSE f : f = [p \in Paths |-> SelectAt(f, p)]

LEMMA SelectIsPick == select_by_recursive_score = Pick[graph[1].path]
  BY Zenon DEF select_by_recursive_score, Pick

Found(f, p) == {i \in Branches(Children(p)) : f[graph[i].path] # None}

LowestOf(F) == CHOOSE i \in F : \A j \in F : ~Less(Score(j), Score(i))

LEMMA SelectCases ==
  ASSUME NEW f, NEW p
  PROVE  SelectAt(f, p) =
           IF IsLeaf(p)
             THEN IF executed[IdAt(p)] THEN None ELSE IdAt(p)
             ELSE IF Found(f, p) = {} THEN None ELSE f[graph[LowestOf(Found(f, p))].path]
  BY Zenon DEF SelectAt, Found, LowestOf

LEMMA ChildFacts ==
  ASSUME PoolInv, NEW p, NEW i \in Children(p)
  PROVE  /\ i \in DOMAIN graph /\ graph[i].path \in Paths
         /\ Len(graph[i].path) = Len(p) + 1 /\ IsPrefix(p, graph[i].path)
<1>1. i \in DOMAIN graph /\ Len(graph[i].path) = Len(p) + 1 /\ IsPrefix(p, graph[i].path)
  BY Zenon DEF Children
<1> QED BY Zenon, <1>1, GraphFacts DEF PoolInv

-----------------------------------------------------------------------------
(* The pool of tests.                                                      *)

\* The traces are left alone.
LEMMA TracesKept ==
  ASSUME PoolInv, crashed' \in BOOLEAN,
         UNCHANGED <<strategy, blocks, graph, executed, scores, all_unique, next, chosen, thrown,
                     superseded>>,
         test_next' \in Seq(Tests), arrived' \in Seq(Tests), handed' \in Seq(Tests),
         test_all' = Range(arrived'), TestsFIFO'
  PROVE  PoolInv'
<1>1. /\ strategy' = strategy /\ blocks' = blocks /\ graph' = graph /\ executed' = executed
      /\ scores' = scores /\ all_unique' = all_unique /\ next' = next /\ chosen' = chosen
      /\ thrown' = thrown /\ superseded' = superseded
  BY Zenon
<1>2. Types'
  <2>1. /\ strategy \in Strategies /\ blocks \in Seq(BlockSeqs)
        /\ graph \in Seq([path : Seq(Nat) \ {<<>>}, id : Nat])
        /\ executed \in [DOMAIN executed -> BOOLEAN] /\ DOMAIN executed \subseteq DOMAIN blocks
        /\ chosen \in Seq(Nat)
    BY Zenon DEF PoolInv, Types
  <2> QED BY Zenon, <1>1, <2>1 DEF Types
<1>3. Vertices' = Vertices /\ Paths' = Paths /\ \A p : IsLeaf(p)' <=> IsLeaf(p)
  BY Zenon, <1>1 DEF Vertices, Paths, IsLeaf, Children
<1>4. GraphHoldsTraces' /\ LastPart' /\ RootFirst'
  <2>1. GraphHoldsTraces /\ LastPart /\ RootFirst
    BY Zenon DEF PoolInv
  <2>2. {v \in Vertices' : IsLeaf(v.path)'} = {v \in Vertices : IsLeaf(v.path)}
    BY Zenon, <1>3
  <2>3. GraphHoldsTraces'
    BY Zenon, <1>1, <1>3, <2>1, <2>2 DEF GraphHoldsTraces
  <2>4. LastPart' /\ RootFirst'
    BY Zenon, <1>1, <1>3, <2>1 DEF LastPart, RootFirst
  <2> QED BY Zenon, <2>3, <2>4
<1>5. Accepted' /\ EveryTraceOnce'
  <2>1. Accepted /\ EveryTraceOnce
    BY Zenon DEF PoolInv
  <2> QED BY Zenon, <1>1, <2>1 DEF Accepted, EveryTraceOnce
<1> QED BY Zenon, <1>2, <1>4, <1>5 DEF PoolInv

LEMMA OrderFacts ==
  ASSUME Types
  PROVE  /\ Len(handed) \in Nat /\ Len(test_next) \in Nat
         /\ DOMAIN Order = 1 .. Len(handed) + Len(test_next)
         /\ \A i \in 1 .. Len(handed) : Order[i] = handed[i]
         /\ \A i \in Len(handed) + 1 .. Len(handed) + Len(test_next) :
              Order[i] = test_next[Len(handed) + Len(test_next) + 1 - i]
<1> DEFINE h == Len(handed)  n == h + Len(test_next)
<1>1. h \in Nat /\ Len(test_next) \in Nat
  <2>1. test_next \in Seq(Tests) /\ handed \in Seq(Tests)
    BY Zenon DEF Types
  <2> QED BY <2>1
<1> HIDE DEF h, n
<1>2. Order = [i \in 1 .. n |-> IF i <= h THEN handed[i] ELSE test_next[n + 1 - i]]
  BY Zenon DEF Order, h, n
<1>3. /\ \A i \in 1 .. h : i \in 1 .. n /\ i <= h
      /\ \A i \in h + 1 .. n : i \in 1 .. n /\ ~(i <= h)
  BY <1>1 DEF n
<1>4. \A i \in 1 .. h : Order[i] = handed[i]
  BY Zenon, <1>2, <1>3
<1>5. \A i \in h + 1 .. n : Order[i] = test_next[n + 1 - i]
  BY Zenon, <1>2, <1>3
<1>6. DOMAIN Order = 1 .. n
  BY Zenon, <1>2
<1> QED BY Zenon, <1>1, <1>4, <1>5, <1>6 DEF h, n

\* A test that leaves keeps its place in the order.
LEMMA NextTestHolds == ASSUME PoolInv, NextTest PROVE PoolInv'
<1>1. /\ Types /\ test_next \in Seq(Tests) /\ handed \in Seq(Tests) /\ arrived \in Seq(Tests)
      /\ test_next # <<>>
      /\ handed' = Append(handed, test_next[Len(test_next)])
      /\ test_next' = SubSeq(test_next, 1, Len(test_next) - 1)
      /\ UNCHANGED tracevars /\ test_all' = test_all /\ arrived' = arrived
  BY Zenon DEF PoolInv, Types, NextTest
<1> DEFINE h == Len(handed)  w == Len(test_next)
<1>2. h \in Nat /\ w \in Nat /\ w >= 1
  BY <1>1
<1>3. /\ handed' \in Seq(Tests) /\ Len(handed') = h + 1 /\ handed'[h + 1] = test_next[w]
      /\ \A i \in 1 .. h : handed'[i] = handed[i]
  <2>1. test_next[w] \in Tests
    BY <1>1, <1>2
  <2> QED BY <1>1, <2>1
<1>4. /\ test_next' \in Seq(Tests) /\ Len(test_next') = w - 1
      /\ \A i \in 1 .. w - 1 : test_next'[i] = test_next[i]
  <2>1. w - 1 \in 0 .. w
    BY <1>2
  <2> QED BY Zenon, <1>1, <2>1, Beginning
<1>5. /\ DOMAIN Order = 1 .. h + w /\ \A i \in 1 .. h : Order[i] = handed[i]
      /\ \A i \in h + 1 .. h + w : Order[i] = test_next[h + w + 1 - i]
  BY Zenon, <1>1, OrderFacts
<1> HIDE DEF h, w
<1>6. Order' = [i \in 1 .. (h + 1) + (w - 1) |->
                  IF i <= h + 1 THEN handed'[i] ELSE test_next'[(h + 1) + (w - 1) + 1 - i]]
  BY Zenon, <1>3, <1>4 DEF Order
<1>7. (h + 1) + (w - 1) = h + w
  BY <1>2
<1>8. ASSUME NEW i \in 1 .. h + w
      PROVE  (IF i <= h + 1 THEN handed'[i] ELSE test_next'[h + w + 1 - i]) = Order[i]
  <2>1. CASE i <= h
    <3>1. i \in 1 .. h /\ i <= h + 1
      BY <1>2, <2>1
    <3> QED BY Zenon, <1>3, <1>5, <3>1
  <2>2. CASE i = h + 1
    <3>1. i \in h + 1 .. h + w /\ h + w + 1 - i = w /\ i <= h + 1
      BY <1>2, <2>2
    <3> QED BY Zenon, <1>3, <1>5, <2>2, <3>1
  <2>3. CASE i > h + 1
    <3>1. i \in h + 1 .. h + w /\ h + w + 1 - i \in 1 .. w - 1 /\ ~(i <= h + 1)
      BY <1>2, <2>3
    <3> QED BY Zenon, <1>4, <1>5, <3>1
  <2>4. i <= h \/ i = h + 1 \/ i > h + 1
    BY <1>2
  <2> QED BY Zenon, <2>1, <2>2, <2>3, <2>4
<1>9. Order' = Order
  <2>1. Order' = [i \in 1 .. h + w |-> IF i <= h + 1 THEN handed'[i] ELSE test_next'[h + w + 1 - i]]
    BY Zenon, <1>6, <1>7
  <2>2. Order' = [i \in 1 .. h + w |-> Order[i]]
    BY Zenon, <1>8, <2>1
  <2>3. Order = [i \in DOMAIN Order |-> Order[i]]
    BY Zenon DEF Order
  <2> QED BY Zenon, <1>5, <2>2, <2>3
<1>10. test_all = Range(arrived) /\ TestsFIFO
  BY Zenon DEF PoolInv
<1>11. TestsFIFO'
  <2>1. /\ Range(Order) = Range(arrived)
        /\ \A i, j \in DOMAIN Order : i < j =>
             \E k \in DOMAIN arrived : arrived[k] = Order[i] /\ \A l \in 1 .. k : arrived[l] # Order[j]
    BY Zenon, <1>10 DEF TestsFIFO
  <2>2. /\ Range(Order') = Range(arrived')
        /\ \A i, j \in DOMAIN Order' : i < j =>
             \E k \in DOMAIN arrived' : arrived'[k] = Order'[i] /\ \A l \in 1 .. k : arrived'[l] # Order'[j]
    BY <1>1, <1>9, <2>1
  <2> QED BY Zenon, <2>2 DEF TestsFIFO
<1>12. crashed' \in BOOLEAN /\ UNCHANGED <<strategy, blocks, graph, executed, scores, all_unique, next,
                                           chosen, thrown, superseded>>
  BY Zenon, <1>1 DEF PoolInv, Types, tracevars
<1> QED BY Zenon, <1>1, <1>3, <1>4, <1>10, <1>11, <1>12, TracesKept

LEMMA InFront ==
  ASSUME NEW S, NEW x \in S, NEW q \in Seq(S)
  PROVE  /\ <<x>> \o q \in Seq(S) /\ Len(<<x>> \o q) = Len(q) + 1 /\ (<<x>> \o q)[1] = x
         /\ \A i \in 1 .. Len(q) : (<<x>> \o q)[i + 1] = q[i]
OBVIOUS

\* A test that was not seen before becomes the last one of the order; another one changes
\* nothing.
LEMMA InsertTestHolds == ASSUME PoolInv, NEW t \in Tests, InsertTest(t) PROVE PoolInv'
<1>1. /\ Types /\ test_next \in Seq(Tests) /\ handed \in Seq(Tests) /\ arrived \in Seq(Tests)
      /\ test_all' = test_all \cup {t} /\ arrived' = Append(arrived, t)
      /\ test_next' = IF t \in test_all THEN test_next ELSE <<t>> \o test_next
      /\ UNCHANGED tracevars /\ handed' = handed
      /\ test_all = Range(arrived) /\ TestsFIFO
  BY Zenon DEF PoolInv, Types, InsertTest, test_pool_insert
<1> DEFINE h == Len(handed)  w == Len(test_next)  a == Len(arrived)
<1>2. h \in Nat /\ w \in Nat /\ a \in Nat /\ DOMAIN arrived = 1 .. a
  BY <1>1
<1>3. /\ arrived' \in Seq(Tests) /\ Len(arrived') = a + 1 /\ arrived'[a + 1] = t
      /\ DOMAIN arrived' = 1 .. a + 1 /\ \A i \in 1 .. a : arrived'[i] = arrived[i]
  BY <1>1
<1>4. Range(arrived') = Range(arrived) \cup {t}
  BY <1>1, RangeOfAppend
<1>5. /\ DOMAIN Order = 1 .. h + w /\ \A i \in 1 .. h : Order[i] = handed[i]
      /\ \A i \in h + 1 .. h + w : Order[i] = test_next[h + w + 1 - i]
  BY Zenon, <1>1, OrderFacts
<1>6. /\ Range(Order) = Range(arrived)
      /\ \A i, j \in DOMAIN Order : i < j =>
           \E k \in DOMAIN arrived : arrived[k] = Order[i] /\ \A l \in 1 .. k : arrived[l] # Order[j]
  BY Zenon, <1>1 DEF TestsFIFO
<1> HIDE DEF h, w, a
<1>7. ASSUME NEW i \in DOMAIN Order, NEW j \in DOMAIN Order, i < j
      PROVE  \E k \in DOMAIN arrived' :
               arrived'[k] = Order[i] /\ \A l \in 1 .. k : arrived'[l] # Order[j]
  <2>1. PICK k \in DOMAIN arrived : arrived[k] = Order[i] /\ \A l \in 1 .. k : arrived[l] # Order[j]
    BY Zenon, <1>6, <1>7
  <2>2. k \in 1 .. a /\ k \in 1 .. a + 1 /\ \A l \in 1 .. k : l \in 1 .. a
    BY <1>2, <2>1
  <2>3. arrived'[k] = Order[i] /\ \A l \in 1 .. k : arrived'[l] # Order[j]
    BY Zenon, <1>3, <2>1, <2>2
  <2> QED BY Zenon, <1>3, <2>2, <2>3
<1>8. test_next' \in Seq(Tests) /\ TestsFIFO'
  <2>1. CASE t \in test_all
    <3>1. test_next' = test_next
      BY Zenon, <1>1, <2>1
    <3>2. Order' = Order
      BY Zenon, <1>1, <3>1 DEF Order
    <3>3. Range(arrived') = Range(arrived)
      BY Zenon, <1>1, <1>4, <2>1
    <3>4. Range(Order') = Range(arrived')
      BY <1>6, <3>2, <3>3
    <3>5. \A i, j \in DOMAIN Order' : i < j =>
             \E k \in DOMAIN arrived' :
               arrived'[k] = Order'[i] /\ \A l \in 1 .. k : arrived'[l] # Order'[j]
      <4> SUFFICES ASSUME NEW i \in DOMAIN Order', NEW j \in DOMAIN Order', i < j
                   PROVE  \E k \in DOMAIN arrived' :
                            arrived'[k] = Order'[i] /\ \A l \in 1 .. k : arrived'[l] # Order'[j]
        BY Zenon
      <4>1. i \in DOMAIN Order /\ j \in DOMAIN Order /\ Order'[i] = Order[i] /\ Order'[j] = Order[j]
        BY Zenon, <3>2
      <4>2. PICK k \in DOMAIN arrived' :
              arrived'[k] = Order[i] /\ \A l \in 1 .. k : arrived'[l] # Order[j]
        BY Zenon, <1>7, <4>1
      <4>3. arrived'[k] = Order'[i] /\ \A l \in 1 .. k : arrived'[l] # Order'[j]
        BY Zenon, <4>1, <4>2
      <4> QED BY Zenon, <4>3
    <3> QED BY Zenon, <1>1, <3>1, <3>4, <3>5 DEF TestsFIFO
  <2>2. CASE t \notin test_all
    <3>1. test_next' = <<t>> \o test_next
      BY Zenon, <1>1, <2>2
    <3>2. /\ test_next' \in Seq(Tests) /\ Len(test_next') = w + 1 /\ test_next'[1] = t
          /\ \A i \in 1 .. w : test_next'[i + 1] = test_next[i]
      BY <1>1, <3>1, InFront DEF w
    <3>3. Order' = [i \in 1 .. h + (w + 1) |->
                      IF i <= h THEN handed[i] ELSE test_next'[h + (w + 1) + 1 - i]]
      BY Zenon, <1>1, <3>2 DEF Order, h
    <3>4. DOMAIN Order' = 1 .. h + (w + 1)
      BY Zenon, <3>3
    <3>5. ASSUME NEW i \in DOMAIN Order
          PROVE  i \in DOMAIN Order' /\ Order'[i] = Order[i]
      <4>1. i \in 1 .. h + w /\ i \in 1 .. h + (w + 1)
        BY <1>2, <1>5
      <4>2. CASE i <= h
        <5>1. i \in 1 .. h
          BY <1>2, <4>1, <4>2
        <5> QED BY Zenon, <1>5, <3>3, <3>4, <4>1, <4>2, <5>1
      <4>3. CASE ~(i <= h)
        <5>1. /\ i \in h + 1 .. h + w /\ h + w + 1 - i \in 1 .. w
              /\ h + (w + 1) + 1 - i = (h + w + 1 - i) + 1
          BY <1>2, <4>1, <4>3
        <5>2. Order'[i] = test_next'[(h + w + 1 - i) + 1]
          BY Zenon, <3>3, <4>1, <4>3, <5>1
        <5> QED BY Zenon, <1>5, <3>2, <3>4, <4>1, <5>1, <5>2
      <4> QED BY Zenon, <4>2, <4>3
    <3>6. h + (w + 1) \in DOMAIN Order' /\ Order'[h + (w + 1)] = t
      <4>1. /\ h + (w + 1) \in 1 .. h + (w + 1) /\ ~(h + (w + 1) <= h)
            /\ h + (w + 1) + 1 - (h + (w + 1)) = 1
        BY <1>2
      <4> QED BY Zenon, <3>2, <3>3, <3>4, <4>1
    <3>7. \A i \in DOMAIN Order' : i \in DOMAIN Order \/ i = h + (w + 1)
      BY <1>2, <1>5, <3>4
    <3>8. Range(Order') = Range(arrived')
      <4>1. Range(Order') = Range(Order) \cup {t}
        BY Zenon, <3>5, <3>6, <3>7 DEF Range
      <4> QED BY Zenon, <1>4, <1>6, <4>1
    <3>9. ASSUME NEW i \in DOMAIN Order', NEW j \in DOMAIN Order', i < j
          PROVE  \E k \in DOMAIN arrived' :
                   arrived'[k] = Order'[i] /\ \A l \in 1 .. k : arrived'[l] # Order'[j]
      <4>1. i \in DOMAIN Order
        BY <1>2, <1>5, <3>4, <3>9
      <4>2. CASE j \in DOMAIN Order
        <5>1. PICK k \in DOMAIN arrived' :
                arrived'[k] = Order[i] /\ \A l \in 1 .. k : arrived'[l] # Order[j]
          BY Zenon, <1>7, <3>9, <4>1, <4>2
        <5>2. arrived'[k] = Order'[i] /\ \A l \in 1 .. k : arrived'[l] # Order'[j]
          BY Zenon, <3>5, <4>1, <4>2, <5>1
        <5> QED BY Zenon, <5>2
      <4>3. CASE j = h + (w + 1)
        <5>1. Order[i] \in Range(arrived)
          BY Zenon, <1>6, <4>1 DEF Range
        <5>2. PICK k \in DOMAIN arrived : arrived[k] = Order[i]
          BY Zenon, <5>1 DEF Range
        <5>3. k \in 1 .. a /\ k \in 1 .. a + 1 /\ \A l \in 1 .. k : l \in 1 .. a
          BY <1>2, <5>2
        <5>4. \A l \in 1 .. a : arrived[l] # t
          BY Zenon, <1>1, <1>2, <2>2 DEF Range
        <5>5. arrived'[k] = Order'[i] /\ \A l \in 1 .. k : arrived'[l] # Order'[j]
          BY Zenon, <1>3, <3>5, <3>6, <4>1, <4>3, <5>2, <5>3, <5>4
        <5> QED BY Zenon, <1>3, <5>3, <5>5
      <4> QED BY Zenon, <3>7, <4>2, <4>3
    <3> QED BY Zenon, <3>2, <3>8, <3>9 DEF TestsFIFO
  <2> QED BY Zenon, <2>1, <2>2
<1>9. handed' \in Seq(Tests) /\ test_all' = Range(arrived')
  BY Zenon, <1>1, <1>4
<1>10. crashed' \in BOOLEAN /\ UNCHANGED <<strategy, blocks, graph, executed, scores, all_unique, next,
                                           chosen, thrown, superseded>>
  BY Zenon, <1>1 DEF PoolInv, Types, tracevars
<1> QED BY Zenon, <1>1, <1>3, <1>8, <1>9, <1>10, TracesKept

-----------------------------------------------------------------------------
(* The empty pools, and the steps of Next.                                 *)

NothingYet ==
  /\ blocks = <<>> /\ graph = <<>> /\ executed = <<>> /\ scores = <<>>
  /\ all_unique = {} /\ next = {}
  /\ chosen = <<>> /\ thrown = {} /\ superseded = {}
  /\ test_all = {} /\ test_next = <<>> /\ arrived = <<>> /\ handed = <<>>

LEMMA EmptyHolds == NothingYet /\ strategy \in Strategies /\ crashed \in BOOLEAN => PoolInv
<1> SUFFICES ASSUME NothingYet, strategy \in Strategies, crashed \in BOOLEAN PROVE PoolInv
  OBVIOUS
<1>1. /\ blocks = <<>> /\ graph = <<>> /\ executed = <<>> /\ scores = <<>>
      /\ all_unique = {} /\ next = {} /\ chosen = <<>> /\ thrown = {} /\ superseded = {}
      /\ test_all = {} /\ test_next = <<>> /\ arrived = <<>> /\ handed = <<>>
  BY Zenon DEF NothingYet
<1>2. /\ DOMAIN <<>> = {} /\ \A S : <<>> \in Seq(S)
      /\ \A S : <<>> \in [{} -> S]
  OBVIOUS
<1>3. /\ DOMAIN blocks = {} /\ DOMAIN graph = {} /\ DOMAIN executed = {} /\ DOMAIN scores = {}
      /\ DOMAIN chosen = {} /\ DOMAIN arrived = {}
  BY Zenon, <1>1, <1>2
<1>4. Range(blocks) = {} /\ Range(graph) = {} /\ Range(chosen) = {} /\ Range(arrived) = {}
  BY Zenon, <1>3 DEF Range
<1>5. Types
  <2>1. executed \in [DOMAIN executed -> BOOLEAN] /\ DOMAIN executed \subseteq DOMAIN blocks
    BY Zenon, <1>1, <1>2, <1>3
  <2> QED BY Zenon, <1>1, <1>2, <2>1 DEF Types
<1>6. Vertices = {} /\ Paths = {}
  BY Zenon, <1>4 DEF Vertices, Paths
<1>7. GraphHoldsTraces
  BY Zenon, <1>3, <1>4, <1>6 DEF GraphHoldsTraces
<1>8. LastPart /\ RootFirst
  BY Zenon, <1>1, <1>6 DEF LastPart, RootFirst
<1>9. Accepted
  BY Zenon, <1>1, <1>3 DEF Accepted
<1>10. EveryTraceOnce
  BY Zenon, <1>1, <1>3, <1>4 DEF EveryTraceOnce, IsInjective
<1>11. DOMAIN Order = {}
  <2>1. Len(handed) = 0 /\ Len(test_next) = 0
    BY <1>1
  <2>2. 1 .. 0 + 0 = {}
    OBVIOUS
  <2>3. DOMAIN Order = 1 .. Len(handed) + Len(test_next)
    BY Zenon DEF Order
  <2> QED BY Zenon, <2>1, <2>2, <2>3
<1>12. TestsFIFO /\ test_all = Range(arrived)
  <2>1. Range(Order) = {}
    BY Zenon, <1>11 DEF Range
  <2> QED BY Zenon, <1>1, <1>4, <1>11, <2>1 DEF TestsFIFO
<1> QED BY Zenon, <1>5, <1>7, <1>8, <1>9, <1>10, <1>12 DEF PoolInv

LEMMA InitHolds == Init => PoolInv
<1> SUFFICES ASSUME Init PROVE PoolInv
  OBVIOUS
<1>1. NothingYet /\ strategy \in Strategies /\ crashed \in BOOLEAN
  BY Zenon DEF Init, EmptyPools, NothingYet
<1> QED BY Zenon, <1>1, EmptyHolds

LEMMA ResetHolds == ASSUME PoolInv, Reset PROVE PoolInv'
<1>1. strategy \in Strategies /\ crashed \in BOOLEAN
  BY Zenon DEF PoolInv, Types
<1>2. NothingYet' /\ (strategy \in Strategies)' /\ (crashed \in BOOLEAN)'
  BY Zenon, <1>1 DEF Reset, NothingYet
<1>3. (NothingYet /\ strategy \in Strategies /\ crashed \in BOOLEAN)' => PoolInv'
  BY EmptyHolds, PTL
<1> QED BY Zenon, <1>2, <1>3

LEMMA NextByScoreHolds == ASSUME PoolInv, NextByScore PROVE PoolInv'
<1>1. PICK t \in DOMAIN scores : Take(t, Without(scores, t))
  BY Zenon DEF NextByScore
<1>2. DOMAIN scores = next
  BY Zenon DEF NextByScore, PoolInv, Accepted
<1>3. t \in next /\ DOMAIN Without(scores, t) = next \ {t}
  BY Zenon, <1>1, <1>2, WithoutFacts
<1> QED BY Zenon, <1>1, <1>3, TakeHolds

\* A step that leaves everything but crashed as it is.
LEMMA StandingHolds ==
  ASSUME PoolInv, crashed' \in BOOLEAN,
         UNCHANGED <<strategy, blocks, graph, executed, scores, all_unique, next, chosen, thrown,
                     superseded, testvars>>
  PROVE  PoolInv'
<1>1. test_next' \in Seq(Tests) /\ arrived' \in Seq(Tests) /\ handed' \in Seq(Tests)
  BY Zenon DEF PoolInv, Types, testvars
<1>2. test_all' = Range(arrived') /\ TestsFIFO'
  BY Zenon, TestsKept
<1> QED BY Zenon, <1>1, <1>2, TracesKept

\* The first vertex is that of the first block of every trace.
LEMMA FirstVertex ==
  ASSUME PoolInv, NEW t \in DOMAIN executed
  PROVE  graph # <<>> /\ 1 \in 1 .. Len(blocks[t]) /\ graph[1].path = SubSeq(blocks[t], 1, 1)
<1> DEFINE b == blocks[t]
<1>1. Types /\ t \in DOMAIN blocks /\ RootFirst
  BY Zenon DEF PoolInv, Types
<1>2. b \in BlockSeqs
  BY Zenon, <1>1, TraceFacts
<1>3. b \in Seq(Nat) /\ Len(b) \in Nat /\ Len(b) >= 1
  BY Zenon, <1>2, BlockFacts
<1>4. b \in Paths
  BY Zenon, <1>1 DEF PoolInv, GraphHoldsTraces, Range
<1>5. PICK k \in DOMAIN graph : b = graph[k].path
  BY Zenon, <1>1, <1>4, GraphFacts
<1> HIDE DEF b
<1>6. Len(graph) \in Nat /\ DOMAIN graph = 1 .. Len(graph)
  BY Zenon, <1>1, GraphFacts
<1>7. graph # <<>> /\ 1 \in DOMAIN graph
  <2>1. 1 \in DOMAIN graph
    BY <1>5, <1>6
  <2>2. DOMAIN <<>> = {}
    OBVIOUS
  <2> QED BY Zenon, <2>1, <2>2
<1> DEFINE p == graph[1].path  c == blocks[graph[1].id]
<1>8. p \in Seq(Nat) /\ graph[1] \in Vertices /\ Len(p) = 1
  BY Zenon, <1>1, <1>7, GraphFacts DEF RootFirst
<1>9. IsPrefix(p, c) /\ graph[1].id \in DOMAIN blocks
  BY Zenon, <1>8 DEF PoolInv, GraphHoldsTraces, Types
<1>10. c \in BlockSeqs
  BY Zenon, <1>1, <1>9, TraceFacts
<1>11. c[1] = b[1]
  BY Zenon, <1>2, <1>10, BlockFacts
<1> HIDE DEF p, c
<1>12. 1 \in 1 .. Len(b) /\ 1 \in 0 .. Len(b) /\ 1 \in 1 .. 1 /\ \A i \in 1 .. 1 : i = 1
  BY <1>3
<1>13. p[1] = b[1]
  BY Zenon, <1>8, <1>9, <1>11, <1>12 DEF IsPrefix
<1>14. /\ SubSeq(b, 1, 1) \in Seq(Nat) /\ Len(SubSeq(b, 1, 1)) = 1
       /\ \A i \in 1 .. 1 : SubSeq(b, 1, 1)[i] = b[i]
  BY Zenon, <1>3, <1>12, Beginning
<1>15. \A i \in 1 .. 1 : p[i] = SubSeq(b, 1, 1)[i]
  BY Zenon, <1>12, <1>13, <1>14
<1>16. p = SubSeq(b, 1, 1)
  BY Zenon, <1>8, <1>14, <1>15, SameSeq
<1> QED BY Zenon, <1>7, <1>12, <1>16 DEF b, p

-----------------------------------------------------------------------------
(* Least and minimal elements.                                             *)

INSTANCE FiniteSetTheorems

\* A nonempty set of natural numbers has a least element.
LEMMA Least ==
  ASSUME NEW T \in SUBSET Nat, T # {}
  PROVE  \E x \in T : \A y \in T : x <= y
<1>1. PICK x \in T : \A y \in T : ~ (<<y, x>> \in OpToRel(<, Nat))
  BY Zenon, NatLessThanWellFounded, WFMin
<1>2. \A y \in T : ~ (y < x)
  BY Zenon, <1>1 DEF OpToRel
<1> QED BY <1>2

\* A finite nonempty set has a minimal element in every strict order.
LEMMA Minimal ==
  ASSUME NEW S, IsFiniteSet(S), S # {}, NEW R,
         \A x \in S : <<x, x>> \notin R,
         \A x, y, z \in S : <<x, y>> \in R /\ <<y, z>> \in R => <<x, z>> \in R
  PROVE  \E x \in S : \A y \in S : <<y, x>> \notin R
<1> DEFINE Below(x) == {y \in S : <<y, x>> \in R}  F == {Below(x) : x \in S}
<1>1. F \in SUBSET FiniteSubsetsOf(S) /\ F # {}
  <2>1. \A x \in S : Below(x) \in SUBSET S /\ IsFiniteSet(Below(x))
    BY Zenon, FS_Subset
  <2> HIDE DEF Below
  <2>2. \A x \in S : Below(x) \in FiniteSubsetsOf(S)
    BY Zenon, <2>1 DEF FiniteSubsetsOf
  <2> QED BY <2>2
<1>2. PICK b \in F : \A c \in F : ~ (<<c, b>> \in StrictSubsetOrdering(S))
  BY Zenon, <1>1, FS_StrictSubsetOrderingWellFounded, WFMin
<1>3. PICK x \in S : b = Below(x)
  BY <1>2
<1>4. ASSUME NEW y \in S, <<y, x>> \in R PROVE FALSE
  <2>1. /\ Below(y) \subseteq Below(x) /\ y \in Below(x) /\ y \notin Below(y)
        /\ Below(y) \in SUBSET S /\ Below(x) \in SUBSET S
    BY Zenon, <1>4
  <2> HIDE DEF Below
  <2>2. <<Below(y), b>> \in StrictSubsetOrdering(S)
    BY <1>3, <2>1 DEF StrictSubsetOrdering
  <2>3. Below(y) \in F
    OBVIOUS
  <2> QED BY Zenon, <1>2, <2>2, <2>3
<1> QED BY Zenon, <1>4

-----------------------------------------------------------------------------
(* Where a trace leaves the graph, and what follows.                       *)

\* find_trace_divergence returns where a trace leaves the graph.
LEMMA Divergence ==
  ASSUME PoolInv, NEW s \in BlockSeqs
  PROVE  DivergesAt(s, find_trace_divergence(s))
<1> DEFINE Ends(n) == n < Len(s) => SubSeq(s, 1, n + 1) \notin Paths
           Is(n) == (n > 0 => SubSeq(s, 1, n) \in Paths) /\ Ends(n)
           T == {n \in 0 .. Len(s) : Ends(n)}
           d == find_trace_divergence(s)
<1>1. s \in Seq(Nat) /\ Len(s) \in Nat /\ Len(s) >= 1
  BY Zenon, BlockFacts
<1>2. T \in SUBSET Nat /\ Len(s) \in T
  BY <1>1
<1>3. PICK n \in T : \A y \in T : n <= y
  BY Zenon, <1>2, Least
<1>4. n \in 0 .. Len(s) /\ Ends(n)
  BY Zenon, <1>3
<1>5. n > 0 => SubSeq(s, 1, n) \in Paths
  <2> SUFFICES ASSUME n > 0, SubSeq(s, 1, n) \notin Paths PROVE FALSE
    OBVIOUS
  <2>1. n - 1 \in 0 .. Len(s) /\ (n - 1) + 1 = n /\ ~(n <= n - 1)
    BY <1>1, <1>4
  <2>2. n - 1 \in T
    BY Zenon, <2>1
  <2> QED BY Zenon, <1>3, <2>1, <2>2
<1>6. d \in 0 .. Len(s) /\ Is(d)
  <2>1. \E x \in 0 .. Len(s) : Is(x)
    BY Zenon, <1>4, <1>5
  <2> HIDE DEF Ends
  <2>2. d = CHOOSE x \in 0 .. Len(s) : Is(x)
    BY Zenon DEF find_trace_divergence, Ends
  <2> HIDE DEF Is, d
  <2> QED BY Zenon, <2>1, <2>2
<1> HIDE DEF d
<1>7. ASSUME NEW m \in 1 .. Len(s), m <= d PROVE SubSeq(s, 1, m) \in Paths
  <2>1. d > 0 /\ m \in 1 .. d
    BY <1>1, <1>6, <1>7
  <2> QED BY Zenon, <1>1, <1>6, <2>1, BeginningsThere
<1>8. ASSUME NEW m \in 1 .. Len(s), SubSeq(s, 1, m) \in Paths, ~(m <= d) PROVE FALSE
  <2>1. d < Len(s) /\ d + 1 \in 1 .. m /\ m \in 0 .. Len(s)
    BY <1>1, <1>6, <1>8
  <2>2. SubSeq(s, 1, d + 1) \in Paths
    BY Zenon, <1>1, <1>8, <2>1, BeginningsThere
  <2> QED BY Zenon, <1>6, <2>1, <2>2
<1>9. ASSUME graph # <<>> PROVE d > 0
  <2>1. 1 \in 1 .. Len(s)
    BY <1>1
  <2>2. 1 <= d
    BY Zenon, <1>8, <1>9, <2>1, RootThere
  <2> QED BY <1>6, <2>2
<1> QED BY Zenon, <1>6, <1>7, <1>8, <1>9 DEF d, DivergesAt

LEMMA InsertHolds ==
  ASSUME PoolInv, NEW s \in BlockSeqs, Insert(s)
  PROVE  PoolInv'
<1>1. CASE Reject /\ find_trace_divergence(s) = Len(s)
  BY Zenon, <1>1, Divergence, RejectHolds
<1>2. ASSUME NEW old, Grows(s, find_trace_divergence(s), Len(blocks) + 1, old),
             graph' \in Seq(Vertex), Accepts(s, Len(blocks) + 1, old)
      PROVE  PoolInv'
  BY Zenon, <1>2, AcceptHolds
<1> QED BY Zenon, <1>1, <1>2, Divergence, InsertCases

-----------------------------------------------------------------------------
(* What the breadth-first search selects.                                  *)

LEMMA BeforeTotal ==
  ASSUME PoolInv, NEW p \in Paths, NEW q \in Paths, p # q
  PROVE  Before(p, q) \/ Before(q, p)
<1>1. p \in Seq(Nat) /\ Len(p) \in Nat /\ q \in Seq(Nat) /\ Len(q) \in Nat
  BY Zenon, PathFacts DEF PoolInv
<1>2. CASE Len(p) # Len(q)
  <2>1. Len(p) < Len(q) \/ Len(q) < Len(p)
    BY <1>1, <1>2
  <2> QED BY Zenon, <2>1, BeforeParts
<1>3. CASE Len(p) = Len(q)
  <2> DEFINE T == {i \in 1 .. Len(p) : p[i] # q[i]}
  <2>1. T \in SUBSET Nat /\ T # {}
    <3>1. T # {}
      BY Zenon, <1>1, <1>3, SameSeq
    <3>2. T \in SUBSET Nat
      BY <1>1
    <3> QED BY Zenon, <3>1, <3>2
  <2>2. PICK m \in T : \A i \in T : m <= i
    BY Zenon, <2>1, Least
  <2>3. m \in 1 .. Len(p) /\ p[m] # q[m] /\ m \in 1 .. Len(q)
    BY Zenon, <1>3, <2>2
  <2>4. \A i \in 1 .. m - 1 : i \in 1 .. Len(p) /\ ~(m <= i)
    BY <1>1, <2>3
  <2>5. \A i \in 1 .. m - 1 : p[i] = q[i]
    BY Zenon, <2>2, <2>4
  <2>6. SubSeq(p, 1, m - 1) = SubSeq(q, 1, m - 1)
    <3>1. m - 1 \in 0 .. Len(p) /\ m - 1 \in 0 .. Len(q)
      BY <1>1, <1>3, <2>3
    <3>2. /\ SubSeq(p, 1, m - 1) \in Seq(Nat) /\ Len(SubSeq(p, 1, m - 1)) = m - 1
          /\ \A i \in 1 .. m - 1 : SubSeq(p, 1, m - 1)[i] = p[i]
      BY Zenon, <1>1, <3>1, Beginning
    <3>3. /\ SubSeq(q, 1, m - 1) \in Seq(Nat) /\ Len(SubSeq(q, 1, m - 1)) = m - 1
          /\ \A i \in 1 .. m - 1 : SubSeq(q, 1, m - 1)[i] = q[i]
      BY Zenon, <1>1, <3>1, Beginning
    <3>4. \A i \in 1 .. m - 1 : SubSeq(p, 1, m - 1)[i] = SubSeq(q, 1, m - 1)[i]
      BY Zenon, <2>5, <3>2, <3>3
    <3> QED BY Zenon, <3>2, <3>3, <3>4, SameSeq
  <2>7. SubSeq(p, 1, m) # SubSeq(q, 1, m)
    BY Zenon, <1>1, <1>3, <2>3, <2>6, AgreeOneMore
  <2>8. SubSeq(p, 1, m) \in Paths /\ SubSeq(q, 1, m) \in Paths
    BY Zenon, <2>3 DEF PoolInv, GraphHoldsTraces
  <2> DEFINE a == IndexOf(SubSeq(p, 1, m))  b == IndexOf(SubSeq(q, 1, m))
  <2>9. a \in Nat /\ b \in Nat /\ a # b
    BY Zenon, <2>7, <2>8, IndexFacts
  <2> HIDE DEF a, b
  <2>10. a < b \/ b < a
    BY <2>9
  <2>11. Parts(p, q, m) \/ Parts(q, p, m)
    BY Zenon, <2>3, <2>6, <2>10 DEF Parts, a, b
  <2> QED BY Zenon, <1>3, <2>3, <2>11, BeforeParts
<1> QED BY Zenon, <1>2, <1>3

\* The breadth-first search finds a trace that is not executed, if there is one.
LEMMA BfsFinds ==
  ASSUME PoolInv
  PROVE  \/ next_bfs = None /\ \A t \in DOMAIN executed : executed[t]
         \/ next_bfs \in DOMAIN executed /\ ~executed[next_bfs]
<1> DEFINE open == {v \in Vertices : ~executed[v.id]}
           S == {k \in DOMAIN graph : ~executed[graph[k].id]}
           R == {jk \in S \X S : Before(graph[jk[1]].path, graph[jk[2]].path)}
           First(v) == v \in open /\ \A u \in open \ {v} : Before(v.path, u.path)
<1>1. /\ Types /\ Len(graph) \in Nat /\ DOMAIN graph = 1 .. Len(graph)
      /\ \A k \in DOMAIN graph : graph[k] \in Vertices /\ graph[k].path \in Paths
      /\ \A v : v \in Vertices <=> \E k \in DOMAIN graph : v = graph[k]
  BY Zenon, GraphFacts DEF PoolInv
<1>2. \A v \in Vertices : v.id \in DOMAIN executed
  BY Zenon DEF PoolInv, GraphHoldsTraces
<1>3. CASE open = {}
  <2>1. next_bfs = None
    BY Zenon, <1>3 DEF next_bfs
  <2>2. ASSUME NEW t \in DOMAIN executed PROVE executed[t]
    <3>1. PICK k \in DOMAIN graph : graph[k].id = t
      BY Zenon, EndIsLeaf
    <3> QED BY Zenon, <1>1, <1>3, <3>1
  <2> QED BY Zenon, <2>1, <2>2
<1>4. CASE open # {}
  <2>1. IsFiniteSet(S) /\ S # {}
    <3>1. IsFiniteSet(DOMAIN graph)
      <4>1. IsFiniteSet(1 .. Len(graph))
        BY <1>1, FS_Interval
      <4> QED BY Zenon, <1>1, <4>1
    <3>2. IsFiniteSet(S)
      BY Zenon, <3>1, FS_Subset
    <3>3. S # {}
      BY Zenon, <1>1, <1>4
    <3> QED BY Zenon, <3>2, <3>3
  <2>2. \A j, k : <<j, k>> \in R <=> j \in S /\ k \in S /\ Before(graph[j].path, graph[k].path)
    OBVIOUS
  <2>3. \A x \in S : <<x, x>> \notin R
    BY Zenon, <1>1, <2>2, BeforeIrreflexive
  <2>4. \A x, y, z \in S : <<x, y>> \in R /\ <<y, z>> \in R => <<x, z>> \in R
    BY Zenon, <1>1, <2>2, BeforeTransitive
  <2> HIDE DEF R
  <2>5. PICK k \in S : \A j \in S : <<j, k>> \notin R
    <3> HIDE DEF S
    <3> QED BY Zenon, <2>1, <2>3, <2>4, Minimal
  <2>6. ASSUME NEW j \in S, j # k PROVE Before(graph[k].path, graph[j].path)
    <3>1. graph[j].path # graph[k].path
      BY Zenon, <2>6 DEF PoolInv, GraphHoldsTraces
    <3>2. ~Before(graph[j].path, graph[k].path)
      BY Zenon, <2>2, <2>5
    <3> QED BY Zenon, <1>1, <3>1, <3>2, BeforeTotal
  <2>7. First(graph[k])
    <3>1. ASSUME NEW u \in open, u # graph[k] PROVE Before(graph[k].path, u.path)
      <4>1. PICK j \in DOMAIN graph : u = graph[j]
        BY Zenon, <1>1, <3>1
      <4>2. j \in S /\ j # k
        BY Zenon, <3>1, <4>1
      <4> QED BY Zenon, <2>6, <4>1, <4>2
    <3>2. graph[k] \in open
      BY Zenon, <1>1
    <3> QED BY Zenon, <3>1, <3>2
  <2> DEFINE v == CHOOSE u \in open : \A w \in open \ {u} : Before(u.path, w.path)
  <2>8. v \in open
    BY Zenon, <2>7
  <2>9. next_bfs = v.id
    BY Zenon, <1>4 DEF next_bfs
  <2> QED BY Zenon, <1>2, <2>8, <2>9
<1> QED BY Zenon, <1>3, <1>4

-----------------------------------------------------------------------------
(* What the recursive descent selects.                                     *)

\* The score of a vertex is a fraction with a positive denominator.
LEMMA ScoreFacts ==
  ASSUME PoolInv, NEW k \in DOMAIN graph
  PROVE  Score(k)[1] \in Nat /\ Score(k)[2] \in Nat /\ Score(k)[2] > 0
<1> DEFINE b == collect_descendant_blocks(graph[k].path)
           D == {i \in DOMAIN graph : IsPrefix(graph[k].path, graph[i].path)}
           P == {ij \in (DOMAIN b) \X (DOMAIN b) : b[ij[1]] = b[ij[2]]}
<1>1. Types /\ Len(graph) \in Nat /\ DOMAIN graph = 1 .. Len(graph) /\ graph[k].path \in Seq(Nat)
  BY Zenon, GraphFacts DEF PoolInv
<1>2. DOMAIN b = D
  BY Zenon DEF collect_descendant_blocks
<1>3. IsFiniteSet(D) /\ k \in D
  <2>1. IsFiniteSet(1 .. Len(graph))
    BY <1>1, FS_Interval
  <2>2. IsFiniteSet(D)
    BY Zenon, <1>1, <2>1, FS_Subset
  <2>3. k \in D
    BY Zenon, <1>1, PrefixReflexive
  <2> QED BY Zenon, <2>2, <2>3
<1> HIDE DEF D
<1>4. IsFiniteSet(DOMAIN b) /\ k \in DOMAIN b
  BY Zenon, <1>2, <1>3
<1>5. Score(k) = <<Cardinality(P), Cardinality(DOMAIN b)>>
  BY Zenon DEF Score, calculate_least_treaded_score
<1> HIDE DEF b
<1>6. IsFiniteSet(P)
  <2>1. IsFiniteSet((DOMAIN b) \X (DOMAIN b))
    BY Zenon, <1>4, FS_Product
  <2> QED BY Zenon, <2>1, FS_Subset
<1> HIDE DEF P
<1>7. Cardinality(P) \in Nat /\ Cardinality(DOMAIN b) \in Nat
  BY Zenon, <1>4, <1>6, FS_CardinalityType
<1>8. Cardinality(DOMAIN b) # 0
  BY Zenon, <1>4, FS_EmptySet
<1> QED BY <1>5, <1>7, <1>8

\* Of some vertices there is one with the lowest score, and one that is deepest.
LEMMA LowestThere ==
  ASSUME PoolInv, NEW F \in SUBSET (DOMAIN graph), F # {}
  PROVE  \E i \in F : \A j \in F : ~Less(Score(j), Score(i))
<1> DEFINE R == {ij \in F \X F : Less(Score(ij[1]), Score(ij[2]))}
<1>1. IsFiniteSet(F)
  <2>1. Len(graph) \in Nat /\ DOMAIN graph = 1 .. Len(graph)
    BY Zenon, GraphFacts DEF PoolInv
  <2>2. IsFiniteSet(1 .. Len(graph))
    BY <2>1, FS_Interval
  <2> QED BY Zenon, <2>1, <2>2, FS_Subset
<1>2. \A i, j : <<i, j>> \in R <=> i \in F /\ j \in F /\ Less(Score(i), Score(j))
  OBVIOUS
<1> HIDE DEF R
<1>3. \A i \in F : Score(i)[1] \in Nat /\ Score(i)[2] \in Nat /\ Score(i)[2] > 0
  BY Zenon, ScoreFacts
<1>4. ASSUME NEW i \in F PROVE ~Less(Score(i), Score(i))
  <2>1. Score(i)[1] \in Nat /\ Score(i)[2] \in Nat
    BY Zenon, <1>3
  <2>2. ~(Score(i)[1] * Score(i)[2] < Score(i)[1] * Score(i)[2])
    BY <2>1
  <2> QED BY Zenon, <2>2 DEF Less
<1>5. ASSUME NEW x \in F, NEW y \in F, NEW z \in F, Less(Score(x), Score(y)), Less(Score(y), Score(z))
      PROVE  Less(Score(x), Score(z))
  <2>1. /\ Score(x)[1] * Score(y)[2] < Score(y)[1] * Score(x)[2]
        /\ Score(y)[1] * Score(z)[2] < Score(z)[1] * Score(y)[2]
    BY Zenon, <1>5 DEF Less
  <2>2. Score(x)[1] * Score(z)[2] < Score(z)[1] * Score(x)[2]
    <3> DEFINE a == Score(x)[1]  k == Score(x)[2]  b == Score(y)[1]  l == Score(y)[2]
               c == Score(z)[1]  m == Score(z)[2]
    <3>1. /\ a \in Nat /\ k \in Nat /\ k > 0 /\ b \in Nat /\ l \in Nat /\ l > 0
          /\ c \in Nat /\ m \in Nat /\ m > 0
      BY Zenon, <1>3
    <3>2. a * l < b * k /\ b * m < c * l
      BY Zenon, <2>1
    <3> HIDE DEF a, b, c, k, l, m
    <3>3. a * m < c * k
      BY Zenon, <3>1, <3>2, FractionsOrdered
    <3> QED BY Zenon, <3>3 DEF a, c, k, m
  <2> QED BY Zenon, <2>2 DEF Less
<1>6. PICK i \in F : \A j \in F : <<j, i>> \notin R
  <2>1. \A x \in F : <<x, x>> \notin R
    BY Zenon, <1>2, <1>4
  <2>2. \A x, y, z \in F : <<x, y>> \in R /\ <<y, z>> \in R => <<x, z>> \in R
    BY Zenon, <1>2, <1>5
  <2> QED BY Zenon, <1>1, <2>1, <2>2, Minimal
<1> QED BY Zenon, <1>2, <1>6

LEMMA DeepestThere ==
  ASSUME PoolInv, NEW F \in SUBSET (DOMAIN graph), F # {}
  PROVE  \E i \in F : \A j \in F : Len(graph[j].path) <= Len(graph[i].path)
<1> DEFINE R == {ij \in F \X F : Len(graph[ij[1]].path) > Len(graph[ij[2]].path)}
<1>1. IsFiniteSet(F)
  <2>1. Len(graph) \in Nat /\ DOMAIN graph = 1 .. Len(graph)
    BY Zenon, GraphFacts DEF PoolInv
  <2>2. IsFiniteSet(1 .. Len(graph))
    BY <2>1, FS_Interval
  <2> QED BY Zenon, <2>1, <2>2, FS_Subset
<1>2. \A i, j : <<i, j>> \in R <=> i \in F /\ j \in F /\ Len(graph[i].path) > Len(graph[j].path)
  OBVIOUS
<1> HIDE DEF R
<1> DEFINE d(i) == Len(graph[i].path)
<1>3. \A i \in F : d(i) \in Nat
  BY Zenon, GraphFacts DEF PoolInv
<1> HIDE DEF d
<1>4. \A x \in F : ~(d(x) > d(x))
  BY <1>3
<1>5. \A x, y, z \in F : d(x) > d(y) /\ d(y) > d(z) => d(x) > d(z)
  BY <1>3
<1>6. PICK i \in F : \A j \in F : <<j, i>> \notin R
  <2>1. \A x \in F : <<x, x>> \notin R
    BY Zenon, <1>2, <1>4 DEF d
  <2>2. \A x, y, z \in F : <<x, y>> \in R /\ <<y, z>> \in R => <<x, z>> \in R
    BY Zenon, <1>2, <1>5 DEF d
  <2> QED BY Zenon, <1>1, <2>1, <2>2, Minimal
<1>7. \A j \in F : ~(d(j) > d(i))
  BY Zenon, <1>2, <1>6 DEF d
<1>8. \A j \in F : d(j) <= d(i)
  BY <1>3, <1>7
<1> QED BY Zenon, <1>8 DEF d

LEMMA FoundFacts ==
  ASSUME PoolInv, NEW f, NEW p
  PROVE  /\ Found(f, p) \subseteq Children(p) /\ Children(p) \subseteq DOMAIN graph
         /\ Found(f, p) # {} => LowestOf(Found(f, p)) \in Found(f, p)
<1>1. Found(f, p) \subseteq Children(p) /\ Children(p) \subseteq DOMAIN graph
  BY Zenon DEF Found, Branches, Children
<1>2. ASSUME Found(f, p) # {} PROVE LowestOf(Found(f, p)) \in Found(f, p)
  <2> DEFINE F == Found(f, p)
  <2>1. F \in SUBSET (DOMAIN graph) /\ F # {}
    BY Zenon, <1>1, <1>2
  <2> HIDE DEF F
  <2>2. \E i \in F : \A j \in F : ~Less(Score(j), Score(i))
    BY Zenon, <2>1, LowestThere
  <2>3. LowestOf(F) \in F
    BY Zenon, <2>2 DEF LowestOf
  <2> QED BY Zenon, <2>3 DEF F
<1> QED BY Zenon, <1>1, <1>2

\* What is selected depends on what is selected at the children only.
LEMMA SelectAgrees ==
  ASSUME PoolInv, NEW f, NEW g, NEW p, \A i \in Children(p) : f[graph[i].path] = g[graph[i].path]
  PROVE  SelectAt(f, p) = SelectAt(g, p)
<1>1. Found(f, p) = Found(g, p)
  <2>1. Branches(Children(p)) \subseteq Children(p)
    BY Zenon DEF Branches
  <2>2. \A i \in Branches(Children(p)) : f[graph[i].path] = g[graph[i].path]
    BY Zenon, <2>1
  <2>3. \A i : i \in Found(f, p) <=> i \in Found(g, p)
    BY Zenon, <2>2 DEF Found
  <2> QED BY Zenon, <2>3
<1>2. CASE IsLeaf(p) \/ Found(f, p) = {}
  BY Zenon, <1>1, <1>2, SelectCases
<1>3. CASE ~IsLeaf(p) /\ Found(f, p) # {}
  <2>1. LowestOf(Found(f, p)) \in Children(p)
    BY Zenon, <1>3, FoundFacts
  <2>2. SelectAt(f, p) = f[graph[LowestOf(Found(f, p))].path]
    BY Zenon, <1>3, SelectCases
  <2>3. SelectAt(g, p) = g[graph[LowestOf(Found(f, p))].path]
    BY Zenon, <1>1, <1>3, SelectCases
  <2> QED BY Zenon, <2>1, <2>2, <2>3
<1> QED BY Zenon, <1>2, <1>3

\* The recursion is well-founded: there is such a function, by induction on the number of
\* the deepest levels of the graph for which it is one.
LEMMA PickThere ==
  ASSUME PoolInv
  PROVE  \E f : f = [p \in Paths |-> SelectAt(f, p)]
<1>1. PICK D \in Nat : \A p \in Paths : Len(p) \in Nat /\ Len(p) >= 1 /\ Len(p) <= D
  <2>1. CASE graph = <<>>
    <3>1. DOMAIN graph = {}
      BY <2>1
    <3>2. Paths = {}
      BY Zenon, <3>1, GraphFacts DEF PoolInv
    <3>3. 0 \in Nat
      OBVIOUS
    <3> QED BY Zenon, <3>2, <3>3
  <2>2. CASE graph # <<>>
    <3>1. DOMAIN graph # {}
      <4>1. graph \in Seq([path : Seq(Nat) \ {<<>>}, id : Nat])
        BY Zenon DEF PoolInv, Types
      <4>2. 1 \in DOMAIN graph
        BY <2>2, <4>1
      <4> QED BY Zenon, <4>2
    <3>2. PICK i \in DOMAIN graph : \A j \in DOMAIN graph : Len(graph[j].path) <= Len(graph[i].path)
      BY Zenon, <3>1, DeepestThere
    <3>3. Len(graph[i].path) \in Nat
      BY Zenon, GraphFacts DEF PoolInv
    <3>4. ASSUME NEW p \in Paths PROVE Len(p) <= Len(graph[i].path)
      <4>1. PICK j \in DOMAIN graph : p = graph[j].path
        BY Zenon, GraphFacts DEF PoolInv
      <4> QED BY Zenon, <3>2, <4>1
    <3>5. \A p \in Paths : Len(p) \in Nat /\ Len(p) >= 1
      BY Zenon, PathFacts DEF PoolInv
    <3> QED BY Zenon, <3>3, <3>4, <3>5
  <2> QED BY Zenon, <2>1, <2>2
<1> DEFINE Deep(p, d) == Len(p) + d > D
           Solves(f, d) == f = [p \in Paths |-> f[p]] /\ \A p \in Paths : Deep(p, d) => f[p] = SelectAt(f, p)
           Bad == {d \in Nat : ~\E f : Solves(f, d)}
<1>2. \A p \in Paths : ~Deep(p, 0) /\ Deep(p, D)
  BY <1>1
<1>3. \A p \in Paths, q \in Paths, d \in Nat : Len(q) = Len(p) + 1 /\ Deep(p, d + 1) => Deep(q, d)
  BY <1>1
<1> HIDE DEF Deep
<1>4. \E f : Solves(f, 0)
  <2> DEFINE f == [p \in Paths |-> None]
  <2>1. Solves(f, 0)
    BY Zenon, <1>2
  <2> QED BY Zenon, <2>1
<1>5. ASSUME NEW d \in Nat, NEW f, Solves(f, d) PROVE \E g : Solves(g, d + 1)
  <2> DEFINE g == [p \in Paths |-> SelectAt(f, p)]
  <2>1. ASSUME NEW p \in Paths, Deep(p, d + 1) PROVE g[p] = SelectAt(g, p)
    <3>1. ASSUME NEW i \in Children(p) PROVE f[graph[i].path] = g[graph[i].path]
      <4>1. graph[i].path \in Paths /\ Len(graph[i].path) = Len(p) + 1
        BY Zenon, <3>1, ChildFacts
      <4>2. Deep(graph[i].path, d)
        BY Zenon, <1>3, <2>1, <4>1
      <4>3. f[graph[i].path] = SelectAt(f, graph[i].path)
        BY Zenon, <1>5, <4>1, <4>2
      <4> QED BY Zenon, <4>1, <4>3
    <3>2. g[p] = SelectAt(f, p)
      BY Zenon, <2>1
    <3> HIDE DEF g
    <3>3. SelectAt(f, p) = SelectAt(g, p)
      BY Zenon, <3>1, SelectAgrees
    <3> QED BY Zenon, <3>2, <3>3
  <2>2. g = [p \in Paths |-> g[p]]
    BY Zenon
  <2> HIDE DEF g
  <2> QED BY Zenon, <2>1, <2>2
<1> HIDE DEF Solves
<1>6. Bad = {}
  <2> SUFFICES ASSUME Bad # {} PROVE FALSE
    BY Zenon
  <2>1. Bad \in SUBSET Nat
    BY Zenon
  <2>2. PICK d \in Bad : \A e \in Bad : d <= e
    BY Zenon, <2>1, Least
  <2>3. d \in Nat /\ d # 0
    BY Zenon, <1>4, <2>2
  <2>4. d - 1 \in Nat /\ (d - 1) + 1 = d /\ ~(d <= d - 1)
    BY <2>3
  <2>5. d - 1 \notin Bad
    BY Zenon, <2>2, <2>4
  <2>6. PICK f : Solves(f, d - 1)
    BY Zenon, <2>4, <2>5
  <2>7. \E g : Solves(g, d)
    BY Zenon, <1>5, <2>4, <2>6
  <2> QED BY Zenon, <2>2, <2>7
<1>7. PICK f : Solves(f, D)
  BY Zenon, <1>6
<1>8. f = [p \in Paths |-> f[p]] /\ \A p \in Paths : f[p] = SelectAt(f, p)
  BY Zenon, <1>2, <1>7 DEF Solves
<1>9. f = [p \in Paths |-> SelectAt(f, p)]
  BY Zenon, <1>8
<1> QED BY Zenon, <1>9

LEMMA PickFacts ==
  ASSUME PoolInv, NEW p \in Paths
  PROVE  Pick[p] = SelectAt(Pick, p)
<1>1. Pick = [q \in Paths |-> SelectAt(Pick, q)]
  BY Zenon, PickThere DEF Pick
<1> QED BY Zenon, <1>1

\* What the descent finds is a trace that the graph knows and that is not executed.
LEMMA PickOpen ==
  ASSUME PoolInv, NEW p \in Paths
  PROVE  Pick[p] = None \/ (Pick[p] \in DOMAIN executed /\ ~executed[Pick[p]])
<1> DEFINE Open(q) == Pick[q] = None \/ (Pick[q] \in DOMAIN executed /\ ~executed[Pick[q]])
           F == {k \in DOMAIN graph : ~Open(graph[k].path)}
<1>1. F = {}
  <2> SUFFICES ASSUME F # {} PROVE FALSE
    BY Zenon
  <2>1. F \in SUBSET (DOMAIN graph)
    BY Zenon
  <2> HIDE DEF Open
  <2>2. PICK k \in F : \A j \in F : Len(graph[j].path) <= Len(graph[k].path)
    <3> HIDE DEF F
    <3> QED BY Zenon, <2>1, DeepestThere
  <2>3. k \in DOMAIN graph /\ ~Open(graph[k].path)
    BY Zenon, <2>2
  <2> DEFINE q == graph[k].path
  <2>4. q \in Paths /\ Len(q) \in Nat
    BY Zenon, <2>3, GraphFacts DEF PoolInv
  <2>5. Pick[q] = SelectAt(Pick, q)
    BY Zenon, <2>4, PickFacts
  <2>6. CASE IsLeaf(q)
    <3>1. IdAt(q) \in DOMAIN executed
      BY Zenon, <2>3, <2>6, IdAtVertex, LeafIsEnd
    <3>2. Pick[q] = IF executed[IdAt(q)] THEN None ELSE IdAt(q)
      BY Zenon, <2>5, <2>6, SelectCases
    <3>3. Open(q)
      BY Zenon, <3>1, <3>2 DEF Open
    <3> QED BY Zenon, <2>3, <3>3
  <2>7. CASE ~IsLeaf(q) /\ Found(Pick, q) = {}
    <3>1. Pick[q] = None
      BY Zenon, <2>5, <2>7, SelectCases
    <3> QED BY Zenon, <2>3, <3>1 DEF Open
  <2>8. CASE ~IsLeaf(q) /\ Found(Pick, q) # {}
    <3> DEFINE i == LowestOf(Found(Pick, q))
    <3>1. Pick[q] = Pick[graph[i].path]
      BY Zenon, <2>5, <2>8, SelectCases
    <3>2. i \in Children(q)
      BY Zenon, <2>8, FoundFacts
    <3>3. i \in DOMAIN graph /\ Len(graph[i].path) = Len(q) + 1
      BY Zenon, <3>2, ChildFacts
    <3>4. ~(Len(graph[i].path) <= Len(q))
      <4> HIDE DEF i, q
      <4> QED BY <2>4, <3>3
    <3>5. Open(graph[i].path)
      BY Zenon, <2>2, <3>3, <3>4
    <3>6. Open(q)
      BY Zenon, <3>1, <3>5 DEF Open
    <3> QED BY Zenon, <2>3, <3>6
  <2> QED BY Zenon, <2>6, <2>7, <2>8
<1>2. PICK k \in DOMAIN graph : p = graph[k].path
  BY Zenon, GraphFacts DEF PoolInv
<1>3. Open(p)
  BY Zenon, <1>1, <1>2
<1> QED BY Zenon, <1>3

\* It finds one from every vertex on the way to a trace that is not executed and that is
\* not behind a branch with the score of an earlier one.
LEMMA PickFinds ==
  ASSUME PoolInv, NEW t \in DOMAIN executed, ~executed[t], ~BehindTie(t),
         NEW n \in 1 .. Len(blocks[t])
  PROVE  Pick[SubSeq(blocks[t], 1, n)] # None
<1> DEFINE b == blocks[t]  L == Len(b)  c(m) == SubSeq(b, 1, m)
           Bad == {d \in Nat : d < L /\ Pick[c(L - d)] = None}
<1>1. Types /\ t \in DOMAIN blocks /\ b \in Seq(Nat) /\ L \in Nat /\ t \in Nat /\ b \in Paths
  <2>1. Types /\ t \in DOMAIN blocks
    BY Zenon DEF PoolInv, Types
  <2>2. b \in BlockSeqs /\ DOMAIN blocks = 1 .. Len(blocks) /\ Len(blocks) \in Nat
    BY Zenon, <2>1, TraceFacts
  <2>3. b \in Seq(Nat) /\ L \in Nat
    BY Zenon, <2>2, BlockFacts
  <2>4. t \in Nat
    BY <2>1, <2>2
  <2>5. b \in Paths
    BY Zenon, <2>1 DEF PoolInv, GraphHoldsTraces, Range
  <2> QED BY Zenon, <2>1, <2>3, <2>4, <2>5
<1>2. \A m \in 1 .. L : c(m) \in Paths
  BY Zenon, <1>1 DEF PoolInv, GraphHoldsTraces
<1>3. \A m \in 0 .. L : c(m) \in Seq(Nat) /\ Len(c(m)) = m /\ IsPrefix(c(m), b)
  BY Zenon, <1>1, Beginning, BeginningIsPrefix
<1>4. Pick[b] # None
  <2>1. PICK k \in DOMAIN graph : graph[k].path = b /\ graph[k].id = t
    BY Zenon, EndIsLeaf
  <2>2. IsLeaf(b) /\ IdAt(b) = t
    BY Zenon, <2>1, EndIsLeaf, IdAtVertex
  <2>3. Pick[b] = t
    BY Zenon, <1>1, <2>2, PickFacts, SelectCases
  <2> QED BY Zenon, <1>1, <2>3, NoneAssumption
<1>5. ASSUME NEW m \in 1 .. L, m < L, Pick[c(m + 1)] # None PROVE Pick[c(m)] # None
  <2>1. m + 1 \in 1 .. L /\ m + 1 \in 0 .. L /\ m \in 0 .. L /\ m <= m + 1
    BY <1>1, <1>5
  <2>2. PICK i \in DOMAIN graph : c(m + 1) = graph[i].path
    BY Zenon, <1>1, <1>2, <2>1, GraphFacts
  <2>3. Len(graph[i].path) = Len(c(m)) + 1 /\ IsPrefix(graph[i].path, b)
    BY Zenon, <1>3, <2>1, <2>2
  <2>4. IsPrefix(c(m), graph[i].path)
    <3>1. Len(c(m)) <= Len(c(m + 1))
      BY Zenon, <1>3, <2>1
    <3>2. IsPrefix(c(m), c(m + 1))
      BY Zenon, <1>1, <1>3, <2>1, <3>1, PrefixesNested
    <3> QED BY Zenon, <2>2, <3>2
  <2>5. i \in Children(c(m))
    BY Zenon, <2>2, <2>3, <2>4 DEF Children
  <2>6. i \in Branches(Children(c(m)))
    <3>1. \A j \in Children(c(m)) : j < i => ~Same(Score(i), Score(j))
      BY Zenon, <1>5, <2>3, <2>5 DEF BehindTie
    <3> QED BY Zenon, <2>5, <3>1 DEF Branches
  <2>7. i \in Found(Pick, c(m))
    BY Zenon, <1>5, <2>2, <2>6 DEF Found
  <2>8. ~IsLeaf(c(m)) /\ Found(Pick, c(m)) # {}
    BY Zenon, <2>5, <2>7 DEF IsLeaf
  <2>9. Pick[c(m)] = Pick[graph[LowestOf(Found(Pick, c(m)))].path]
    BY Zenon, <1>2, <2>8, PickFacts, SelectCases
  <2>10. LowestOf(Found(Pick, c(m))) \in Found(Pick, c(m))
    BY Zenon, <2>8, FoundFacts
  <2> QED BY Zenon, <2>9, <2>10 DEF Found
<1> HIDE DEF L, c
<1>6. Bad = {}
  <2> SUFFICES ASSUME Bad # {} PROVE FALSE
    BY Zenon
  <2>1. Bad \in SUBSET Nat
    BY Zenon
  <2>2. PICK d \in Bad : \A e \in Bad : d <= e
    <3> HIDE DEF Bad
    <3> QED BY Zenon, <2>1, Least
  <2>3. d \in Nat /\ d < L /\ Pick[c(L - d)] = None
    BY Zenon, <2>2
  <2>4. CASE d = 0
    <3>1. L - d = L
      BY <1>1, <2>4
    <3>2. c(L) = b
      BY Zenon, <1>1, Whole DEF c, L
    <3> QED BY Zenon, <1>4, <2>3, <3>1, <3>2
  <2>5. CASE d # 0
    <3>1. /\ d - 1 \in Nat /\ d - 1 < L /\ ~(d <= d - 1) /\ L - d \in 1 .. L /\ L - d < L
          /\ L - (d - 1) = (L - d) + 1
      BY <1>1, <2>3, <2>5
    <3>2. d - 1 \notin Bad
      BY Zenon, <2>2, <3>1
    <3>3. Pick[c((L - d) + 1)] # None
      BY Zenon, <3>1, <3>2
    <3> QED BY Zenon, <1>5, <2>3, <3>1, <3>3
  <2> QED BY Zenon, <2>4, <2>5
<1>7. n \in 1 .. L
  BY Zenon DEF L
<1>8. L - n \in Nat /\ L - n < L /\ L - (L - n) = n
  BY <1>1, <1>7
<1>9. Pick[c(n)] # None
  BY Zenon, <1>6, <1>8
<1> QED BY Zenon, <1>9 DEF c

LEMMA SelectsOpen ==
  ASSUME PoolInv, graph # <<>>, select_by_recursive_score # None
  PROVE  /\ select_by_recursive_score \in DOMAIN executed
         /\ ~executed[select_by_recursive_score]
<1>1. 1 \in DOMAIN graph
  <2>1. graph \in Seq([path : Seq(Nat) \ {<<>>}, id : Nat])
    BY Zenon DEF PoolInv, Types
  <2> QED BY <2>1
<1>2. graph[1].path \in Paths
  BY Zenon, <1>1, GraphFacts DEF PoolInv
<1> QED BY Zenon, <1>2, SelectIsPick, PickOpen

-----------------------------------------------------------------------------
(* The steps of Next.                                                      *)

LEMMA NextBFSHolds == ASSUME PoolInv, NextBFS PROVE PoolInv'
<1>1. strategy = "bfs" /\ next_bfs # None /\ Take(next_bfs, scores)
  BY Zenon DEF NextBFS
<1>2. strategy \notin ScoreStrategies
  BY <1>1 DEF ScoreStrategies
<1>3. next_bfs \in next
  BY Zenon, <1>1, BfsFinds, OpenWaits
<1> QED BY Zenon, <1>1, <1>2, <1>3, TakeHolds

LEMMA NextRecursiveHolds == ASSUME PoolInv, NextRecursive PROVE PoolInv'
<1>1. /\ strategy = "exp-2" /\ graph # <<>> /\ select_by_recursive_score # None
      /\ Take(select_by_recursive_score, scores)
  BY Zenon DEF NextRecursive
<1>2. strategy \notin ScoreStrategies
  BY <1>1 DEF ScoreStrategies
<1>3. select_by_recursive_score \in next
  BY Zenon, <1>1, SelectsOpen, OpenWaits
<1> QED BY Zenon, <1>1, <1>2, <1>3, TakeHolds

LEMMA NextHolds == PoolInv /\ [Next]_vars => PoolInv'
<1> SUFFICES ASSUME PoolInv, [Next]_vars PROVE PoolInv'
  OBVIOUS
<1>1. ASSUME NEW s \in BlockSeqs, Insert(s) PROVE PoolInv'
  BY Zenon, <1>1, InsertHolds
<1>2. CASE NextByScore
  BY Zenon, <1>2, NextByScoreHolds
<1>3. CASE NextBFS
  BY Zenon, <1>3, NextBFSHolds
<1>4. CASE NextRecursive
  BY Zenon, <1>4, NextRecursiveHolds
<1>5. CASE NextRecursiveEmpty
  <2>1. crashed' \in BOOLEAN
    BY Zenon, <1>5 DEF NextRecursiveEmpty
  <2> QED BY Zenon, <1>5, <2>1, StandingHolds DEF NextRecursiveEmpty
<1>6. ASSUME NEW t \in Tests, InsertTest(t) PROVE PoolInv'
  BY Zenon, <1>6, InsertTestHolds
<1>7. CASE NextTest
  BY Zenon, <1>7, NextTestHolds
<1>8. CASE Reset
  BY Zenon, <1>8, ResetHolds
<1>9. CASE UNCHANGED vars
  <2>1. /\ crashed' = crashed
        /\ UNCHANGED <<strategy, blocks, graph, executed, scores, all_unique, next, chosen, thrown,
                       superseded, testvars>>
    BY Zenon, <1>9 DEF vars, tracevars
  <2>2. crashed' \in BOOLEAN
    BY Zenon, <2>1 DEF PoolInv, Types
  <2> QED BY Zenon, <2>1, <2>2, StandingHolds
<1> QED BY Zenon, <1>1, <1>2, <1>3, <1>4, <1>5, <1>6, <1>7, <1>8, <1>9 DEF Next

LEMMA NoneAfterAll == PoolInv => NoneMeansDone
<1> SUFFICES ASSUME PoolInv, ~crashed, NoTrace, NEW t \in DOMAIN executed, ~executed[t]
             PROVE  strategy = "exp-2" /\ BehindTie(t)
  BY Zenon DEF NoneMeansDone
<1>1. t \in next
  BY Zenon, OpenWaits
<1>2. strategy \in {"bfs", "exp-2"} \cup ScoreStrategies
  BY Zenon, StrategiesAssumption DEF PoolInv, Types
<1>3. CASE strategy \in ScoreStrategies
  <2>1. DOMAIN scores = next
    BY Zenon, <1>3 DEF PoolInv, Accepted
  <2>2. strategy # "bfs" /\ strategy # "exp-2"
    BY <1>3 DEF ScoreStrategies
  <2>3. DOMAIN scores = {}
    BY Zenon, <1>3, <2>2 DEF NoTrace
  <2> QED BY Zenon, <1>1, <2>1, <2>3
<1>4. CASE strategy = "bfs"
  <2>1. strategy \notin ScoreStrategies /\ strategy # "exp-2"
    BY <1>4 DEF ScoreStrategies
  <2>2. next_bfs = None
    BY Zenon, <1>4, <2>1 DEF NoTrace
  <2>3. \A u \in DOMAIN executed : u \in Nat
    <3>1. Types /\ DOMAIN executed \subseteq DOMAIN blocks
      BY Zenon DEF PoolInv, Types
    <3>2. DOMAIN blocks = 1 .. Len(blocks) /\ Len(blocks) \in Nat
      BY Zenon, <3>1, TraceFacts
    <3> QED BY <3>1, <3>2
  <2>4. next_bfs \notin DOMAIN executed
    BY Zenon, <2>2, <2>3, NoneAssumption
  <2> QED BY Zenon, <2>4, BfsFinds
<1>5. CASE strategy = "exp-2"
  <2>1. strategy \notin ScoreStrategies /\ strategy # "bfs"
    BY <1>5 DEF ScoreStrategies
  <2>2. select_by_recursive_score = None
    BY Zenon, <1>5, <2>1 DEF NoTrace
  <2>3. Pick[SubSeq(blocks[t], 1, 1)] = None /\ 1 \in 1 .. Len(blocks[t])
    BY Zenon, <2>2, FirstVertex, SelectIsPick
  <2>4. BehindTie(t)
    BY Zenon, <2>3, PickFinds
  <2> QED BY Zenon, <1>5, <2>4
<1> QED BY Zenon, <1>2, <1>3, <1>4, <1>5

-----------------------------------------------------------------------------
(* The theorems.                                                           *)

\* TracePool::insert and next, TraceGraph::insert and executed, the selectors, and
\* TestPool::insert and next: whatever the traces, the tests and the order in which they
\* come, every step of the pools keeps the inductive invariant.
THEOREM PoolInvariant == Spec => []PoolInv
<1>1. Init => PoolInv
  BY InitHolds
<1>2. PoolInv /\ [Next]_vars => PoolInv'
  BY NextHolds
<1> QED BY <1>1, <1>2, PTL DEF Spec

\* TraceGraph::insert, merge_trace and back_insert: the graph is a tree that has every trace
\* that has arrived, its leaves are the traces of executed_traces_, and every vertex has the
\* id of one of them that goes through it.
THEOREM GraphAlwaysHoldsTraces == Spec => []GraphHoldsTraces
<1>1. PoolInv => GraphHoldsTraces
  BY Zenon DEF PoolInv
<1> QED BY <1>1, PoolInvariant, PTL

\* TracePool::insert and next: a trace that was accepted is returned at most once, and it is
\* not lost: until then it waits in next_, unless its selection has thrown because another
\* trace has superseded it.
THEOREM TracesReturnedOnce == Spec => []EveryTraceOnce
<1>1. PoolInv => EveryTraceOnce
  BY Zenon DEF PoolInv
<1> QED BY <1>1, PoolInvariant, PTL

\* Selector::next, next_bfs and select_by_recursive_score: when no trace is selected all are
\* executed, but for those that exp-2 has lost behind a branch with the score of another one.
THEOREM NoneAlwaysMeansDone == Spec => []NoneMeansDone
<1>1. PoolInv => NoneMeansDone
  BY NoneAfterAll
<1> QED BY <1>1, PoolInvariant, PTL

\* TestPool::insert and next: tests leave in the order in which they first arrived, each once.
THEOREM TestsLeaveInOrder == Spec => []TestsFIFO
<1>1. PoolInv => TestsFIFO
  BY Zenon DEF PoolInv
<1> QED BY <1>1, PoolInvariant, PTL

=============================================================================
