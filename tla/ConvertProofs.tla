---------------------------- MODULE ConvertProofs ----------------------------
(***************************************************************************)
(* Proofs about Convert, for any model and any topologies.  Each byte of a *)
(* page has one owner among the ranks of a supported topology, so that the *)
(* nodes of a publication fill its page; and as long as topologies with    *)
(* equal TP and PP have equal stages, artifacts and views are right.       *)
(***************************************************************************)
EXTENDS Convert, SumsProofs, FunctionTheorems, FiniteSetTheorems

\* Dividing natural numbers.
LEMMA DivMod ==
    ASSUME NEW g \in Nat, NEW d \in Nat \ {0}
    PROVE  /\ g \div d \in Nat
           /\ g % d \in 0..d - 1
           /\ g = d * (g \div d) + (g % d)
OBVIOUS

\* Multiples of a number are at least that number apart.
LEMMA Multiples ==
    ASSUME NEW d \in Nat, NEW a \in Nat, NEW b \in Nat, a < b
    PROVE  d * a + d <= d * b
OBVIOUS

\* Quotient and rest are unique.
LEMMA DivUnique ==
    ASSUME NEW d \in Nat \ {0}, NEW q \in Nat, NEW r \in 0..d - 1
    PROVE  (d * q + r) \div d = q /\ (d * q + r) % d = r
<1> DEFINE g == d * q + r
           p == g \div d
<1>1. g \in Nat
  OBVIOUS
<1>2. p \in Nat /\ g = d * p + (g % d) /\ g % d \in 0..d - 1
  BY <1>1, DivMod
<1>3. ~(p < q) /\ ~(q < p)
  BY <1>2, Multiples
<1>4. p = q
  BY <1>2, <1>3
<1> QED
  BY <1>2, <1>4

\* A quotient is below what the dividend is below a multiple of.
LEMMA QuotientBelow ==
    ASSUME NEW g \in Nat, NEW d \in Nat \ {0}, NEW e \in Nat, g < d * e
    PROVE  g \div d < e
<1> DEFINE q == g \div d
<1>1. q \in Nat /\ g % d \in 0..d - 1 /\ g = d * q + (g % d)
  BY DivMod
<1> HIDE DEF q
<1>2. CASE e <= q
  <2>1. d * e <= d * q
    BY <1>1, <1>2, Multiples
  <2>2. d * e \in Nat /\ d * q \in Nat
    BY <1>1
  <2> QED
    BY <1>1, <2>1, <2>2
<1>3. CASE q < e
  BY <1>3 DEF q
<1> QED
  BY <1>1, <1>2, <1>3

-----------------------------------------------------------------------------
\* The ranks of a topology, the parts of a page each has, and where they start.
Ranks(t) == (0..(t.tp - 1)) \X (0..(t.pp - 1))
PerNode(t) == (t.tp * t.pp) \div t.nodes
HeadSize(t) == NumHeads \div t.tp
FirstLayer(t, r) == PartialSums(t.partition)[r[2]]
FirstHead(t, r) == r[1] * HeadSize(t)
StageSize(t, r) == t.partition[r[2] + 1]
Shape(t, r) == (0..(StageSize(t, r) - 1)) \X (0..(HeadSize(t) - 1))

\* The numbers of a topology that the code supports.
LEMMA TopologyFacts ==
    ASSUME NEW t \in Topologies, Supported(t)
    PROVE  /\ t.tp \in Nat \ {0} /\ t.pp \in Nat \ {0} /\ t.nodes \in Nat \ {0}
           /\ t.partition \in Seq(Nat) /\ Len(t.partition) = t.pp
           /\ PerNode(t) \in Nat \ {0} /\ t.tp * t.pp = t.nodes * PerNode(t)
           /\ HeadSize(t) \in Nat \ {0} /\ NumHeads = t.tp * HeadSize(t)
<1>1. /\ t.tp \in Nat \ {0} /\ t.pp \in Nat \ {0} /\ t.nodes \in Nat \ {0}
      /\ t.partition \in Seq(Nat)
  BY TopologyType
<1>2. /\ Len(t.partition) = t.pp
      /\ (t.tp * t.pp) % t.nodes = 0
      /\ NumHeads % t.tp = 0
  BY DEF Supported
<1>3. t.tp * t.pp \in Nat \ {0} /\ NumHeads \in Nat \ {0}
  BY <1>1, ModelSize
<1>4. PerNode(t) \in Nat /\ t.tp * t.pp = t.nodes * PerNode(t)
  <2>1. /\ (t.tp * t.pp) \div t.nodes \in Nat
        /\ t.tp * t.pp = t.nodes * ((t.tp * t.pp) \div t.nodes)
                             + ((t.tp * t.pp) % t.nodes)
    BY <1>1, <1>3, DivMod
  <2> QED
    BY <1>1, <1>2, <2>1 DEF PerNode
<1>5. HeadSize(t) \in Nat /\ NumHeads = t.tp * HeadSize(t)
  <2>1. /\ NumHeads \div t.tp \in Nat
        /\ NumHeads = t.tp * (NumHeads \div t.tp) + (NumHeads % t.tp)
    BY <1>1, <1>3, DivMod
  <2> QED
    BY <1>1, <1>2, <2>1 DEF HeadSize
<1>6. PerNode(t) # 0 /\ HeadSize(t) # 0
  BY <1>1, <1>3, <1>4, <1>5
<1> QED
  BY <1>1, <1>2, <1>4, <1>5, <1>6

\* A rank's numbers.
LEMMA RankFacts ==
    ASSUME NEW t \in Topologies, Supported(t), NEW r \in Ranks(t)
    PROVE  /\ r = <<r[1], r[2]>>
           /\ r[1] \in Nat /\ r[1] < t.tp
           /\ r[2] \in Nat /\ r[2] \in 0..t.pp /\ r[2] + 1 \in 1..t.pp
           /\ r[2] + 1 \in 0..t.pp /\ r[2] + 1 - 1 = r[2]
<1>1. t.tp \in Nat \ {0} /\ t.pp \in Nat \ {0}
  BY TopologyFacts
<1>2. PICK i \in 0..(t.tp - 1), j \in 0..(t.pp - 1) : r = <<i, j>>
  BY DEF Ranks
<1>3. r[1] = i /\ r[2] = j
  BY <1>2
<1> QED
  BY <1>1, <1>2, <1>3

\* The layers of a stage.
LEMMA StageFacts ==
    ASSUME NEW t \in Topologies, Supported(t), NEW r \in Ranks(t)
    PROVE  /\ StageSize(t, r) \in Nat /\ FirstLayer(t, r) \in Nat
           /\ FirstLayer(t, r) + StageSize(t, r) <= NumLayers
           /\ FirstLayer(t, r) + StageSize(t, r)
                  = PartialSums(t.partition)[r[2] + 1]
           /\ r[1] \in Nat /\ FirstHead(t, r) \in Nat
           /\ FirstHead(t, r) + HeadSize(t) <= NumHeads
<1> DEFINE P == PartialSums(t.partition)
<1>1. /\ r[1] \in 0..(t.tp - 1) /\ r[2] \in 0..(t.pp - 1)
      /\ t.pp \in Nat \ {0} /\ t.tp \in Nat \ {0}
      /\ t.partition \in Seq(Nat) /\ Len(t.partition) = t.pp
      /\ HeadSize(t) \in Nat \ {0} /\ NumHeads = t.tp * HeadSize(t)
  BY TopologyFacts DEF Ranks
<1>2. /\ r[1] \in Nat /\ r[2] \in 0..t.pp /\ r[2] + 1 \in 1..t.pp
      /\ r[2] + 1 \in 0..t.pp /\ r[2] + 1 - 1 = r[2]
  BY RankFacts
<1>3. /\ P \in [0..t.pp -> Nat] /\ P[r[2] + 1] = P[r[2]] + t.partition[r[2] + 1]
      /\ P[t.pp] = NumLayers
  <2>1. /\ PartialSums(t.partition) \in [0..t.pp -> Nat]
        /\ \A i \in 1..t.pp :
               PartialSums(t.partition)[i]
                   = PartialSums(t.partition)[i - 1] + t.partition[i]
    BY <1>1, PartialSumsDef
  <2>2. PartialSums(t.partition)[t.pp] = NumLayers
    BY <1>1 DEF Supported, SumOf
  <2> QED
    BY <1>2, <2>1, <2>2
<1>4. P[r[2] + 1] <= P[t.pp]
  <2>1. ASSUME NEW i \in 0..t.pp PROVE P[i] <= P[t.pp]
    <3>1. t.pp \in i..t.pp
      BY <1>1
    <3> QED
      BY <1>1, <3>1, PartialSumsGrow
  <2> QED
    BY <1>2, <2>1
<1>5. t.partition[r[2] + 1] \in Nat
  <2>1. t.partition \in Seq(Nat)
    BY <1>1
  <2>2. \A i \in 1..Len(t.partition) : t.partition[i] \in Nat
    BY <2>1
  <2> QED
    BY <1>1, <1>2, <2>2
<1>6. /\ FirstHead(t, r) \in Nat
      /\ FirstHead(t, r) + HeadSize(t) <= NumHeads
  <2>1. r[1] \in Nat /\ r[1] < t.tp /\ t.tp \in Nat
    BY <1>1
  <2>2. HeadSize(t) * r[1] + HeadSize(t) <= HeadSize(t) * t.tp
    BY <1>1, <2>1, Multiples
  <2>3. /\ HeadSize(t) * r[1] = r[1] * HeadSize(t)
        /\ HeadSize(t) * t.tp = t.tp * HeadSize(t)
        /\ r[1] * HeadSize(t) \in Nat
    BY <1>1, <2>1
  <2> QED
    BY <1>1, <2>2, <2>3 DEF FirstHead
<1>7. /\ StageSize(t, r) \in Nat /\ FirstLayer(t, r) \in Nat
      /\ FirstLayer(t, r) + StageSize(t, r) = P[r[2] + 1]
  BY <1>2, <1>3, <1>5 DEF FirstLayer, StageSize
<1>8. P[r[2] + 1] <= NumLayers
  BY <1>3, <1>4
<1> QED
  BY <1>2, <1>6, <1>7, <1>8

\* A node has the ranks that the engine starts on it.
LEMMA RanksAreTheEngines ==
    ASSUME NEW t \in Topologies, Supported(t), NEW node \in 0..(t.nodes - 1)
    PROVE  RankCoordinates(t, node) = EngineRanks(t, node)
<1> DEFINE k == PerNode(t)
<1>1. /\ t.tp \in Nat \ {0} /\ t.pp \in Nat \ {0} /\ t.nodes \in Nat \ {0}
      /\ k \in Nat \ {0} /\ t.tp * t.pp = t.nodes * k
      /\ node \in Nat /\ node < t.nodes
  BY TopologyFacts
<1>2. /\ RankCoordinates(t, node)
             = {<<g % t.tp, g \div t.tp>> : g \in node * k..node * k + k - 1}
      /\ EngineRanks(t, node)
             = {r \in Ranks(t) : (r[2] * t.tp + r[1]) \div k = node}
  BY DEF RankCoordinates, EngineRanks, PerNode, Ranks
<1> HIDE DEF k
<1>3. ASSUME NEW g \in node * k..node * k + k - 1
      PROVE  <<g % t.tp, g \div t.tp>> \in EngineRanks(t, node)
  <2> DEFINE i == g % t.tp
             j == g \div t.tp
  <2>1. node * k \in Nat /\ g \in Nat
    BY <1>1
  <2>2. i \in 0..(t.tp - 1) /\ j \in Nat /\ g = t.tp * j + i
    BY <1>1, <2>1, DivMod
  <2>3. g < t.tp * t.pp
    <3>1. k * node + k <= k * t.nodes
      BY <1>1, Multiples
    <3>2. k * node = node * k /\ k * t.nodes = t.nodes * k
      BY <1>1
    <3> QED
      BY <1>1, <2>1, <3>1, <3>2
  <2>4. j < t.pp
    BY <1>1, <2>1, <2>3, QuotientBelow
  <2>5. j * t.tp + i = g
    BY <1>1, <2>2
  <2>6. g \div k = node
    <3> DEFINE rest == g - node * k
    <3>1. rest \in 0..k - 1 /\ g = k * node + rest
      BY <1>1, <2>1
    <3> HIDE DEF rest
    <3>2. (k * node + rest) \div k = node
      BY <1>1, <3>1, DivUnique
    <3> QED
      BY <3>1, <3>2
  <2> HIDE DEF i, j
  <2>7. j \in 0..(t.pp - 1)
    BY <1>1, <2>2, <2>4
  <2>8. <<i, j>> \in Ranks(t)
    BY <2>2, <2>7 DEF Ranks
  <2>9. <<i, j>> \in EngineRanks(t, node)
    BY <1>2, <2>5, <2>6, <2>8
  <2> QED
    BY <2>9 DEF i, j
<1>4. ASSUME NEW r \in EngineRanks(t, node)
      PROVE  \E g \in node * k..node * k + k - 1 :
                 r = <<g % t.tp, g \div t.tp>>
  <2> DEFINE g == r[2] * t.tp + r[1]
  <2>1. /\ r = <<r[1], r[2]>> /\ r[1] \in 0..(t.tp - 1)
        /\ r[2] \in 0..(t.pp - 1) /\ g \div k = node
    BY <1>2 DEF Ranks
  <2>2. g \in Nat /\ g = t.tp * r[2] + r[1] /\ r[2] \in Nat
    BY <1>1, <2>1
  <2>3. g % t.tp = r[1] /\ g \div t.tp = r[2]
    BY <1>1, <2>1, <2>2, DivUnique
  <2>4. g = k * node + (g % k) /\ g % k \in 0..k - 1
    BY <1>1, <2>1, <2>2, DivMod
  <2>5. g \in node * k..node * k + k - 1
    BY <1>1, <2>2, <2>4
  <2> HIDE DEF g
  <2> QED
    BY <2>1, <2>3, <2>5
<1> QED
  BY <1>2, <1>3, <1>4

\* Every rank has its node, and just one.
LEMMA RanksHaveNodes ==
    ASSUME NEW t \in Topologies, Supported(t), NEW r \in Ranks(t)
    PROVE  \E n \in 0..(t.nodes - 1) : r \in RankCoordinates(t, n)
<1> DEFINE k == PerNode(t)
           g == r[2] * t.tp + r[1]
           n == g \div k
<1>1. /\ t.tp \in Nat \ {0} /\ t.pp \in Nat \ {0} /\ t.nodes \in Nat \ {0}
      /\ k \in Nat \ {0} /\ t.tp * t.pp = t.nodes * k
      /\ r[1] \in 0..(t.tp - 1) /\ r[2] \in 0..(t.pp - 1)
  BY TopologyFacts DEF Ranks
<1>2. g \in Nat /\ g < t.tp * t.pp
  <2>1. t.tp * r[2] + t.tp <= t.tp * t.pp
    <3>1. r[2] \in Nat /\ r[2] < t.pp /\ t.pp \in Nat /\ t.tp \in Nat
      BY <1>1
    <3> QED
      BY <3>1, Multiples
  <2>2. t.tp * r[2] = r[2] * t.tp /\ r[2] * t.tp \in Nat
    BY <1>1
  <2> QED
    BY <1>1, <2>1, <2>2
<1> HIDE DEF g, k
<1>3. n \in Nat /\ g % k \in 0..k - 1 /\ g = k * n + (g % k)
  BY <1>1, <1>2, DivMod
<1>4. n < t.nodes
  <2>1. g < k * t.nodes
    BY <1>1, <1>2
  <2> QED
    BY <1>1, <1>2, <2>1, QuotientBelow
<1>5. n \in 0..(t.nodes - 1)
  BY <1>1, <1>3, <1>4
<1>6. r \in EngineRanks(t, n)
  BY DEF EngineRanks, Ranks, PerNode, g, k
<1> QED
  BY <1>5, <1>6, RanksAreTheEngines

\* A node's ranks are ranks of the topology, and no other node has them.
LEMMA NodesAreApart ==
    ASSUME NEW t \in Topologies, Supported(t), NEW n \in 0..(t.nodes - 1)
    PROVE  /\ RankCoordinates(t, n) \subseteq Ranks(t)
           /\ \A m \in 0..(t.nodes - 1) : m # n =>
                  RankCoordinates(t, m) \cap RankCoordinates(t, n) = {}
BY RanksAreTheEngines DEF EngineRanks, Ranks

\* What a rank has of a page.
LEMMA RegionFacts ==
    ASSUME NEW t \in Topologies, Supported(t), NEW r \in Ranks(t)
    PROVE  /\ LayerRange(t, r[2])
                  = FirstLayer(t, r)..(FirstLayer(t, r) + StageSize(t, r) - 1)
           /\ HeadRange(t, r[1])
                  = FirstHead(t, r)..(FirstHead(t, r) + HeadSize(t) - 1)
           /\ Region(t, r) \subseteq Bytes
<1>1. /\ LayerRange(t, r[2])
             = FirstLayer(t, r)..(FirstLayer(t, r) + StageSize(t, r) - 1)
      /\ HeadRange(t, r[1])
             = FirstHead(t, r)..(FirstHead(t, r) + HeadSize(t) - 1)
  BY DEF LayerRange, HeadRange, FirstLayer, FirstHead, StageSize, HeadSize
<1>2. /\ FirstLayer(t, r) \in Nat /\ StageSize(t, r) \in Nat
      /\ FirstHead(t, r) \in Nat /\ HeadSize(t) \in Nat
      /\ FirstLayer(t, r) + StageSize(t, r) <= NumLayers
      /\ FirstHead(t, r) + HeadSize(t) <= NumHeads
      /\ NumLayers \in Nat /\ NumHeads \in Nat
  BY StageFacts, TopologyFacts, ModelSize
<1>3. LayerRange(t, r[2]) \subseteq Layers /\ HeadRange(t, r[1]) \subseteq Heads
  BY <1>1, <1>2 DEF Layers, Heads
<1> QED
  BY <1>1, <1>3 DEF Region, Bytes

\* Each byte of the page is of one rank.
LEMMA RegionsCover ==
    ASSUME NEW t \in Topologies, Supported(t), NEW b \in Bytes
    PROVE  \E r \in Ranks(t) : b \in Region(t, r)
<1>1. b[1] \in Layers /\ b[2] \in Heads /\ b = <<b[1], b[2]>>
  BY DEF Bytes
<1>2. /\ t.partition \in Seq(Nat) /\ Len(t.partition) = t.pp
      /\ t.pp \in Nat \ {0} /\ t.tp \in Nat \ {0}
      /\ HeadSize(t) \in Nat \ {0} /\ NumHeads = t.tp * HeadSize(t)
  BY TopologyFacts
<1>3. /\ b[1] \in Nat /\ b[1] < NumLayers
      /\ b[2] \in Nat /\ b[2] < NumHeads
  BY <1>1, ModelSize DEF Layers, Heads
<1>4. PICK i \in 1..t.pp : /\ PartialSums(t.partition)[i - 1] <= b[1]
                           /\ b[1] < PartialSums(t.partition)[i]
  <2>1. b[1] < SumOf(t.partition)
    BY <1>3 DEF Supported
  <2> QED
    BY <1>2, <1>3, <2>1, BlockExists
<1> DEFINE k == b[2] \div HeadSize(t)
           r == <<k, i - 1>>
<1>5. /\ k \in Nat /\ b[2] % HeadSize(t) \in 0..(HeadSize(t) - 1)
      /\ b[2] = HeadSize(t) * k + (b[2] % HeadSize(t))
  BY <1>2, <1>3, DivMod
<1>6. k < t.tp
  <2>1. b[2] < HeadSize(t) * t.tp
    BY <1>2, <1>3
  <2> QED
    BY <1>2, <1>3, <2>1, QuotientBelow
<1> HIDE DEF k
<1>7. r \in Ranks(t) /\ r[1] = k /\ r[2] = i - 1
  <2>1. k \in 0..(t.tp - 1) /\ i - 1 \in 0..(t.pp - 1)
    <3>1. t.pp \in Nat /\ t.tp \in Nat /\ k \in Nat
      BY <1>2, <1>5
    <3>2. i \in 1..t.pp
      OBVIOUS
    <3> HIDE DEF r
    <3> QED
      BY <3>1, <3>2, <1>6
  <2> QED
    BY <2>1 DEF Ranks
<1> HIDE DEF r
<1>8. b[1] \in LayerRange(t, r[2])
  <2>1. /\ FirstLayer(t, r) <= b[1]
        /\ b[1] < FirstLayer(t, r) + StageSize(t, r)
    <3>1. r[2] + 1 = i
      BY <1>4, <1>7
    <3>2. FirstLayer(t, r) + StageSize(t, r) = PartialSums(t.partition)[i]
      BY <1>7, <3>1, StageFacts
    <3> QED
      BY <1>4, <1>7, <3>2 DEF FirstLayer
  <2>2. FirstLayer(t, r) \in Nat /\ StageSize(t, r) \in Nat
    BY <1>7, StageFacts
  <2>3. b[1] \in FirstLayer(t, r)..(FirstLayer(t, r) + StageSize(t, r) - 1)
    BY <1>3, <2>1, <2>2
  <2> QED
    BY <1>7, <2>3, RegionFacts
<1>9. b[2] \in HeadRange(t, r[1])
  <2>1. FirstHead(t, r) = HeadSize(t) * k /\ FirstHead(t, r) \in Nat
    BY <1>2, <1>5, <1>7 DEF FirstHead
  <2> DEFINE first == FirstHead(t, r)
             rest == b[2] % HeadSize(t)
             size == HeadSize(t)
  <2>2. /\ first \in Nat /\ rest \in 0..size - 1 /\ b[2] = first + rest
        /\ size \in Nat
    BY <1>2, <1>5, <2>1
  <2> HIDE DEF first, rest, size
  <2>3. b[2] \in first..(first + size - 1)
    BY <2>2
  <2> QED
    BY <1>7, <2>3, RegionFacts DEF first, size
<1> QED
  BY <1>1, <1>7, <1>8, <1>9 DEF Region

\* And of no other.
LEMMA RegionsAreApart ==
    ASSUME NEW t \in Topologies, Supported(t), NEW q \in Ranks(t),
           NEW r \in Ranks(t), NEW b, b \in Region(t, q), b \in Region(t, r)
    PROVE  q = r
<1>1. /\ b[1] \in LayerRange(t, q[2]) /\ b[2] \in HeadRange(t, q[1])
      /\ b[1] \in LayerRange(t, r[2]) /\ b[2] \in HeadRange(t, r[1])
  BY DEF Region
<1>2. /\ t.partition \in Seq(Nat) /\ Len(t.partition) = t.pp
      /\ t.pp \in Nat \ {0} /\ HeadSize(t) \in Nat \ {0}
  BY TopologyFacts
<1>3. /\ q = <<q[1], q[2]>> /\ r = <<r[1], r[2]>>
      /\ q[1] \in Nat /\ r[1] \in Nat /\ q[2] \in Nat /\ r[2] \in Nat
      /\ q[2] + 1 \in 1..t.pp /\ r[2] + 1 \in 1..t.pp
      /\ q[2] + 1 - 1 = q[2] /\ r[2] + 1 - 1 = r[2]
  BY RankFacts
<1>4. ASSUME NEW s \in {q, r}
      PROVE  /\ b[1] \in Nat /\ PartialSums(t.partition)[s[2]] <= b[1]
             /\ b[1] < PartialSums(t.partition)[s[2] + 1]
             /\ b[2] \in Nat /\ b[2] \div HeadSize(t) = s[1]
  <2>1. /\ s \in Ranks(t) /\ s[1] \in Nat
        /\ b[1] \in FirstLayer(t, s)..(FirstLayer(t, s) + StageSize(t, s) - 1)
        /\ b[2] \in FirstHead(t, s)..(FirstHead(t, s) + HeadSize(t) - 1)
    BY <1>1, <1>3, RegionFacts
  <2>2. /\ FirstLayer(t, s) \in Nat /\ StageSize(t, s) \in Nat
        /\ FirstHead(t, s) \in Nat
        /\ FirstLayer(t, s) + StageSize(t, s)
               = PartialSums(t.partition)[s[2] + 1]
    BY <2>1, StageFacts
  <2>3. /\ b[1] \in Nat /\ FirstLayer(t, s) <= b[1]
        /\ b[1] < FirstLayer(t, s) + StageSize(t, s) /\ b[2] \in Nat
    BY <1>2, <2>1, <2>2
  <2> DEFINE rest == b[2] - FirstHead(t, s)
  <2>4. /\ rest \in 0..(HeadSize(t) - 1)
        /\ b[2] = HeadSize(t) * s[1] + rest
    <3>1. rest \in 0..(HeadSize(t) - 1) /\ b[2] = FirstHead(t, s) + rest
      BY <1>2, <2>1, <2>2, <2>3
    <3>2. FirstHead(t, s) = HeadSize(t) * s[1]
      BY <1>2, <2>1 DEF FirstHead
    <3> QED
      BY <3>1, <3>2
  <2> HIDE DEF rest
  <2>5. (HeadSize(t) * s[1] + rest) \div HeadSize(t) = s[1]
    BY <1>2, <2>1, <2>4, DivUnique
  <2> QED
    BY <2>2, <2>3, <2>4, <2>5 DEF FirstLayer
<1>5. q[1] = r[1]
  BY <1>4
<1>6. q[2] + 1 = r[2] + 1
  <2> DEFINE i == q[2] + 1
             j == r[2] + 1
  <2>1. /\ i \in 1..Len(t.partition) /\ j \in 1..Len(t.partition)
        /\ b[1] \in Nat
        /\ PartialSums(t.partition)[i - 1] <= b[1]
        /\ b[1] < PartialSums(t.partition)[i]
        /\ PartialSums(t.partition)[j - 1] <= b[1]
        /\ b[1] < PartialSums(t.partition)[j]
    <3>1. i - 1 = q[2] /\ j - 1 = r[2]
      BY <1>3
    <3> QED
      BY <1>2, <1>3, <1>4, <3>1
  <2> HIDE DEF i, j
  <2>2. i = j
    BY <1>2, <2>1, BlocksAreApart
  <2> QED
    BY <2>2 DEF i, j
<1>7. q[2] = r[2]
  BY <1>3, <1>6
<1> QED
  BY <1>3, <1>5, <1>7

\* Each byte of a page has one owner: a node of the topology, and one of its
\* ranks.  No piece overlaps another, and none is missing (layer_partition,
\* _rank_coordinates, _layer_range, local_file_size).
THEOREM PagePartition ==
    \A t \in Topologies : Supported(t) =>
        \A b \in Bytes :
            \E n \in 0..(t.nodes - 1) : \E r \in RankCoordinates(t, n) :
                /\ b \in Region(t, r)
                /\ \A m \in 0..(t.nodes - 1) : \A q \in RankCoordinates(t, m) :
                       b \in Region(t, q) => m = n /\ q = r
<1> SUFFICES ASSUME NEW t \in Topologies, Supported(t), NEW b \in Bytes
             PROVE  \E n \in 0..(t.nodes - 1) : \E r \in RankCoordinates(t, n) :
                        /\ b \in Region(t, r)
                        /\ \A m \in 0..(t.nodes - 1) :
                               \A q \in RankCoordinates(t, m) :
                                   b \in Region(t, q) => m = n /\ q = r
  OBVIOUS
<1>1. PICK r \in Ranks(t) : b \in Region(t, r)
  BY RegionsCover
<1>2. PICK n \in 0..(t.nodes - 1) : r \in RankCoordinates(t, n)
  BY RanksHaveNodes
<1>3. ASSUME NEW m \in 0..(t.nodes - 1), NEW q \in RankCoordinates(t, m),
             b \in Region(t, q)
      PROVE  m = n /\ q = r
  <2>1. q \in Ranks(t)
    BY NodesAreApart
  <2>2. q = r
    BY <1>1, <1>3, <2>1, RegionsAreApart
  <2> QED
    BY <1>2, <2>2, NodesAreApart
<1> QED
  BY <1>1, <1>2, <1>3

\* What the targets of a publication scatter: a node of each instance, the
\* pieces of its ranks in every page the instance serves.
PiecesOf(instance, n) ==
    instance.pages
        \X UNION {Region(instance.topology, r) :
                     r \in RankCoordinates(instance.topology, n)}
TargetsOf(instances) ==
    UNION {{PiecesOf(i, n) : n \in 0..(i.topology.nodes - 1)} :
              i \in instances}

\* The assumption WholeOrNone of Publish, with bytes as the slices of a page:
\* whatever instances a configuration has and in whatever order their nodes are
\* scattered, a page is covered by all its bytes or left out
\* (planned_materializations, scatter_node_to_canonical).
THEOREM LayoutsAreWholeOrNone ==
    ASSUME NEW Pubs, NEW Pages,
           NEW Instances \in
               [Pubs -> SUBSET [topology : {t \in Topologies : Supported(t)},
                                pages : SUBSET Pages]],
           NEW Scatter \in [Pubs -> Seq(SUBSET (Pages \X Bytes))],
           \A c \in Pubs :
               {Scatter[c][i] : i \in DOMAIN Scatter[c]}
                   = TargetsOf(Instances[c])
    PROVE  \A c \in Pubs, p \in Pages :
               LET covered == UNION {Scatter[c][i] : i \in DOMAIN Scatter[c]}
               IN  \/ {p} \X Bytes \subseteq covered
                   \/ ({p} \X Bytes) \cap covered = {}
<1> SUFFICES ASSUME NEW c \in Pubs, NEW p \in Pages
             PROVE  LET covered == UNION TargetsOf(Instances[c])
                    IN  \/ {p} \X Bytes \subseteq covered
                        \/ ({p} \X Bytes) \cap covered = {}
  OBVIOUS
<1> DEFINE covered == UNION TargetsOf(Instances[c])
<1>1. ASSUME NEW i \in Instances[c], p \in i.pages, NEW b \in Bytes
      PROVE  <<p, b>> \in covered
  <2>1. i.topology \in Topologies /\ Supported(i.topology)
    OBVIOUS
  <2>2. PICK n \in 0..(i.topology.nodes - 1) :
            \E r \in RankCoordinates(i.topology, n) :
                b \in Region(i.topology, r)
    BY <2>1, PagePartition
  <2>3. <<p, b>> \in PiecesOf(i, n)
    BY <1>1, <2>2 DEF PiecesOf
  <2> QED
    BY <2>3 DEF TargetsOf
<1>2. ASSUME NEW b, <<p, b>> \in covered
      PROVE  \E i \in Instances[c] : p \in i.pages
  BY <1>2 DEF TargetsOf, PiecesOf
<1>3. CASE \E i \in Instances[c] : p \in i.pages
  BY <1>1, <1>3
<1>4. CASE ~ \E i \in Instances[c] : p \in i.pages
  BY <1>2, <1>4
<1> QED
  BY <1>3, <1>4

\* The byte of the page that a place in a rank's file is for.
Global(t, r, l) == <<FirstLayer(t, r) + l[1], FirstHead(t, r) + l[2]>>

\* A range begins with its least number.
LEMMA LeastOfRange ==
    ASSUME NEW a \in Nat, NEW n \in Nat, NEW x \in a..(a + n - 1)
    PROVE  LeastOf(a..(a + n - 1)) = a
<1>1. a \in a..(a + n - 1) /\ \A y \in a..(a + n - 1) : a <= y
  OBVIOUS
<1> DEFINE c == LeastOf(a..(a + n - 1))
<1>2. c \in a..(a + n - 1) /\ \A y \in a..(a + n - 1) : c <= y
  BY <1>1 DEF LeastOf
<1> HIDE DEF c
<1>3. c = a
  BY <1>1, <1>2
<1> QED
  BY <1>3 DEF c

\* Where a byte is in the file of its rank.
LEMMA LocalFacts ==
    ASSUME NEW t \in Topologies, Supported(t), NEW r \in Ranks(t),
           NEW b \in Region(t, r)
    PROVE  /\ Local(t, r, b)
                  = <<b[1] - FirstLayer(t, r), b[2] - FirstHead(t, r)>>
           /\ Local(t, r, b) \in Shape(t, r)
           /\ Global(t, r, Local(t, r, b)) = b
<1> DEFINE fl == FirstLayer(t, r)
           fh == FirstHead(t, r)
           n == StageSize(t, r)
           h == HeadSize(t)
<1>1. fl \in Nat /\ fh \in Nat /\ n \in Nat /\ h \in Nat
  BY StageFacts, TopologyFacts
<1>2. /\ LayerRange(t, r[2]) = fl..(fl + n - 1)
      /\ HeadRange(t, r[1]) = fh..(fh + h - 1)
  BY RegionFacts
<1>3. /\ b = <<b[1], b[2]>>
      /\ b[1] \in fl..(fl + n - 1) /\ b[2] \in fh..(fh + h - 1)
  BY <1>2 DEF Region
<1>4. LeastOf(LayerRange(t, r[2])) = fl /\ LeastOf(HeadRange(t, r[1])) = fh
  <2> HIDE DEF fl, fh, n, h
  <2> QED
    BY <1>1, <1>2, <1>3, LeastOfRange
<1>5. Local(t, r, b) = <<b[1] - fl, b[2] - fh>>
  BY <1>4 DEF Local
<1>6. b[1] - fl \in 0..(n - 1) /\ b[2] - fh \in 0..(h - 1)
  <2> HIDE DEF fl, fh, n, h
  <2> QED
    BY <1>1, <1>3
<1>7. fl + (b[1] - fl) = b[1] /\ fh + (b[2] - fh) = b[2]
  <2> HIDE DEF fl, fh, n, h
  <2> QED
    BY <1>1, <1>3
<1>8. Global(t, r, <<b[1] - fl, b[2] - fh>>) = b
  BY <1>3, <1>7 DEF Global
<1> QED
  BY <1>5, <1>6, <1>8 DEF Shape

\* Which byte of a page a place in the file of a rank is for.
LEMMA GlobalFacts ==
    ASSUME NEW t \in Topologies, Supported(t), NEW r \in Ranks(t),
           NEW l \in Shape(t, r)
    PROVE  /\ Global(t, r, l) \in Region(t, r)
           /\ Local(t, r, Global(t, r, l)) = l
<1> DEFINE fl == FirstLayer(t, r)
           fh == FirstHead(t, r)
           n == StageSize(t, r)
           h == HeadSize(t)
<1>1. fl \in Nat /\ fh \in Nat /\ n \in Nat /\ h \in Nat
  BY StageFacts, TopologyFacts
<1>2. l = <<l[1], l[2]>> /\ l[1] \in 0..(n - 1) /\ l[2] \in 0..(h - 1)
  BY DEF Shape
<1>3. /\ fl + l[1] \in fl..(fl + n - 1) /\ fh + l[2] \in fh..(fh + h - 1)
      /\ fl + l[1] - fl = l[1] /\ fh + l[2] - fh = l[2]
  <2> HIDE DEF fl, fh, n, h
  <2> QED
    BY <1>1, <1>2
<1>4. Global(t, r, l) \in Region(t, r)
  BY <1>3, RegionFacts DEF Region, Global
<1>5. Local(t, r, Global(t, r, l)) = <<l[1], l[2]>>
  <2> DEFINE g == Global(t, r, l)
  <2>1. g[1] = fl + l[1] /\ g[2] = fh + l[2]
    BY DEF Global
  <2> HIDE DEF g
  <2>2. Local(t, r, g) = <<g[1] - fl, g[2] - fh>>
    BY <1>4, LocalFacts DEF g
  <2>3. g[1] - fl = l[1] /\ g[2] - fh = l[2]
    <3> HIDE DEF fl, fh, n, h
    <3> QED
      BY <1>1, <1>2, <2>1
  <2>4. Local(t, r, g) = <<l[1], l[2]>>
    BY <2>2, <2>3
  <2> QED
    BY <2>4 DEF g
<1> QED
  BY <1>2, <1>4, <1>5

\* The size of a file is the number of its bytes.
LEMMA SizeFacts ==
    ASSUME NEW t \in Topologies, Supported(t), NEW r \in Ranks(t)
    PROVE  /\ Cardinality(Shape(t, r)) = FileSize(t, r)
           /\ Cardinality(Region(t, r)) = FileSize(t, r)
<1> DEFINE n == StageSize(t, r)
           h == HeadSize(t)
           fl == FirstLayer(t, r)
           fh == FirstHead(t, r)
<1>1. n \in Nat /\ h \in Nat \ {0} /\ fl \in Nat /\ fh \in Nat
  BY StageFacts, TopologyFacts
<1>2. FileSize(t, r) = n * h
  BY DEF FileSize, StageSize, HeadSize
<1>3. ASSUME NEW a \in Nat, NEW k \in Nat
      PROVE  /\ IsFiniteSet(a..(a + k - 1))
             /\ Cardinality(a..(a + k - 1)) = k
  <2>1. a + k - 1 \in Int
    OBVIOUS
  <2>2. /\ IsFiniteSet(a..(a + k - 1))
        /\ Cardinality(a..(a + k - 1))
               = IF a > a + k - 1 THEN 0 ELSE (a + k - 1) - a + 1
    BY <2>1, FS_Interval
  <2> QED
    BY <2>2
<1>4. /\ IsFiniteSet(0..(n - 1)) /\ Cardinality(0..(n - 1)) = n
      /\ IsFiniteSet(0..(h - 1)) /\ Cardinality(0..(h - 1)) = h
  <2> HIDE DEF n, h
  <2>1. 0 + n - 1 = n - 1 /\ 0 + h - 1 = h - 1
    BY <1>1
  <2> QED
    BY <1>1, <1>3, <2>1
<1>5. Cardinality(Shape(t, r)) = n * h
  BY <1>4, FS_Product DEF Shape
<1>6. Cardinality(Region(t, r)) = n * h
  <2>1. /\ IsFiniteSet(fl..(fl + n - 1)) /\ Cardinality(fl..(fl + n - 1)) = n
        /\ IsFiniteSet(fh..(fh + h - 1)) /\ Cardinality(fh..(fh + h - 1)) = h
    BY <1>1, <1>3
  <2>2. Region(t, r) = (fl..(fl + n - 1)) \X (fh..(fh + h - 1))
    BY RegionFacts DEF Region
  <2> QED
    BY <2>1, <2>2, FS_Product
<1> QED
  BY <1>2, <1>5, <1>6

\* A file name says the sizes of TP and PP and the rank.
LEMMA NamesAreApart ==
    ASSUME NEW t \in Topologies, Supported(t), NEW q \in Ranks(t),
           NEW u \in Topologies, Supported(u), NEW r \in Ranks(u),
           FileName(t, q) = FileName(u, r)
    PROVE  q = r /\ t.tp = u.tp /\ t.pp = u.pp
<1>1. /\ t.pp \in Nat \ {0} /\ u.pp \in Nat \ {0}
      /\ q \in (0..(t.tp - 1)) \X (0..(t.pp - 1))
      /\ r \in (0..(u.tp - 1)) \X (0..(u.pp - 1))
  BY TopologyFacts DEF Ranks
<1>2. q = <<q[1], q[2]>> /\ r = <<r[1], r[2]>>
  BY <1>1
<1>3. CASE t.pp > 1 /\ u.pp > 1
  BY <1>2, <1>3 DEF FileName
<1>4. CASE ~(t.pp > 1) /\ ~(u.pp > 1)
  <2>1. t.pp = 1 /\ u.pp = 1 /\ q[2] = 0 /\ r[2] = 0
    BY <1>1, <1>4
  <2> QED
    BY <1>2, <1>4, <2>1 DEF FileName
<1>5. CASE (t.pp > 1) # (u.pp > 1)
  BY <1>5 DEF FileName
<1> QED
  BY <1>3, <1>4, <1>5

-----------------------------------------------------------------------------
\* The files of a directory are a page each, in pieces that are complete.
NodeRanks(s) == RankCoordinates(s[1], s[2])
Shaped(s, files) ==
    \A r \in NodeRanks(s) :
        /\ FileName(s[1], r) \in DOMAIN files
        /\ files[FileName(s[1], r)] \in [Shape(s[1], r) -> Bytes]

\* A slot is a node of a topology.
LEMMA SlotFacts ==
    ASSUME NEW s \in Slots
    PROVE  /\ s = <<s[1], s[2]>> /\ s[1] \in Topologies /\ Supported(s[1])
           /\ s[2] \in 0..(s[1].nodes - 1)
           /\ NodeRanks(s) = EngineRanks(s[1], s[2])
           /\ NodeRanks(s) \subseteq Ranks(s[1])
<1>1. /\ s = <<s[1], s[2]>> /\ s[1] \in Topologies /\ Supported(s[1])
      /\ s[2] \in 0..(s[1].nodes - 1)
  BY DEF Slots
<1> QED
  BY <1>1, RanksAreTheEngines, NodesAreApart DEF NodeRanks

\* The nodes of a supported topology are slots.
LEMMA NodesAreSlots ==
    ASSUME NEW t \in Topologies, Supported(t), NEW n \in 0..(t.nodes - 1)
    PROVE  <<t, n>> \in Slots
BY DEF Slots

\* A rank is found by its file's name.
LEMMA RankOfName ==
    ASSUME NEW s \in Slots, NEW R, R = NodeRanks(s), NEW r \in R
    PROVE  (CHOOSE q \in R : FileName(s[1], q) = FileName(s[1], r)) = r
<1> DEFINE c == CHOOSE q \in R : FileName(s[1], q) = FileName(s[1], r)
<1>1. c \in R /\ FileName(s[1], c) = FileName(s[1], r)
  OBVIOUS
<1> HIDE DEF c
<1>2. /\ c \in Ranks(s[1]) /\ r \in Ranks(s[1])
      /\ s[1] \in Topologies /\ Supported(s[1])
  BY <1>1, SlotFacts
<1>3. c = r
  BY <1>1, <1>2, NamesAreApart
<1> QED
  BY <1>3 DEF c

\* What the engine stores.
LEMMA EngineStores ==
    ASSUME NEW s \in Slots
    PROVE  /\ EngineFiles(s)
                  = [name \in {FileName(s[1], r) : r \in NodeRanks(s)} |->
                         EngineFiles(s)[name]]
           /\ \A r \in NodeRanks(s) :
                  EngineFiles(s)[FileName(s[1], r)]
                      = [l \in Shape(s[1], r) |-> Global(s[1], r, l)]
<1> DEFINE t == s[1]
           E == EngineRanks(t, s[2])
           names == {FileName(t, r) : r \in E}
           rankOf(name) == CHOOSE r \in E : FileName(t, r) = name
<1>1. EngineFiles(s) = [name \in names |-> EngineFile(t, rankOf(name))]
  BY DEF EngineFiles
<1>2. E = NodeRanks(s)
  BY SlotFacts
<1>3. ASSUME NEW r \in E
      PROVE  EngineFiles(s)[FileName(t, r)]
                 = [l \in Shape(t, r) |-> Global(t, r, l)]
  <2>1. rankOf(FileName(t, r)) = r
    <3> HIDE DEF E
    <3> QED
      BY <1>2, RankOfName
  <2>2. EngineFile(t, r) = [l \in Shape(t, r) |-> Global(t, r, l)]
    BY DEF EngineFile, Shape, Global, FirstLayer, FirstHead, StageSize,
           HeadSize
  <2>3. FileName(t, r) \in names
    OBVIOUS
  <2> HIDE DEF rankOf, E, names
  <2> QED
    BY <1>1, <2>1, <2>2, <2>3
<1> HIDE DEF rankOf, E
<1> QED
  BY <1>1, <1>2, <1>3

\* What is sliced from a page.
LEMMA SlicesOfAPage ==
    ASSUME NEW s \in Slots, canonical \in [Bytes -> Bytes]
    PROVE  /\ Sliced(s)
                  = [name \in {FileName(s[1], r) : r \in NodeRanks(s)} |->
                         Sliced(s)[name]]
           /\ \A r \in NodeRanks(s) :
                  Sliced(s)[FileName(s[1], r)]
                      = [l \in Shape(s[1], r) |->
                             canonical[Global(s[1], r, l)]]
<1> DEFINE t == s[1]
           names == {FileName(t, r) : r \in NodeRanks(s)}
           rankOf(name) == CHOOSE r \in NodeRanks(s) : FileName(t, r) = name
           slice(r) == Region(t, r) \cap Bytes
           byte(r, local) == CHOOSE b \in slice(r) : Local(t, r, b) = local
           file(r) == [local \in {Local(t, r, b) : b \in slice(r)} |->
                          canonical[byte(r, local)]]
<1>1. Sliced(s) = [name \in names |-> file(rankOf(name))]
  BY DEF Sliced, NodeRanks
<1>2. ASSUME NEW r \in NodeRanks(s)
      PROVE  file(r) = [l \in Shape(t, r) |-> canonical[Global(t, r, l)]]
  <2>1. t \in Topologies /\ Supported(t) /\ r \in Ranks(t)
    BY SlotFacts
  <2>2. slice(r) = Region(t, r)
    BY <2>1, RegionFacts
  <2>3. {Local(t, r, b) : b \in slice(r)} = Shape(t, r)
    <3> HIDE DEF t
    <3> QED
      BY <2>1, <2>2, LocalFacts, GlobalFacts
  <2>4. ASSUME NEW l \in Shape(t, r)
        PROVE  byte(r, l) = Global(t, r, l)
    <3> DEFINE c == byte(r, l)
    <3> HIDE DEF t
    <3>1. \E b \in slice(r) : Local(t, r, b) = l
      BY <2>1, <2>2, GlobalFacts
    <3>2. c \in slice(r) /\ Local(t, r, c) = l
      BY <3>1
    <3> HIDE DEF c
    <3>3. Global(t, r, l) = c
      BY <2>1, <2>2, <3>2, LocalFacts
    <3> QED
      BY <3>3 DEF c
  <2> HIDE DEF slice, byte
  <2> QED
    BY <2>3, <2>4
<1>3. ASSUME NEW r \in NodeRanks(s)
      PROVE  Sliced(s)[FileName(t, r)]
                 = [l \in Shape(t, r) |-> canonical[Global(t, r, l)]]
  <2>1. rankOf(FileName(t, r)) = r
    BY RankOfName
  <2>2. FileName(t, r) \in names
    OBVIOUS
  <2> HIDE DEF rankOf, file
  <2> QED
    BY <1>1, <1>2, <2>1, <2>2
<1> HIDE DEF rankOf, file
<1> QED
  BY <1>1, <1>3

(***************************************************************************)
(* The shapes of files and pages: a directory that is there has, for each  *)
(* rank of its node, a file of the right size without a hole, and of the   *)
(* page exactly the bytes of the nodes scattered so far are written.       *)
(***************************************************************************)

Gathered(b) ==
    \E n \in 0..(scattered - 1) : \E r \in RankCoordinates(source, n) :
        b \in Region(source, r)

ViewsAreShaped ==
    /\ DOMAIN view = Slots
    /\ \A s \in Slots : view[s] # Nothing => Shaped(s, view[s])
PublicationType ==
    /\ source \in Topologies \cup {Nothing}
    /\ source # Nothing => Supported(source)
    /\ scattered \in IF source = Nothing THEN {0} ELSE 0..source.nodes
    /\ source = Nothing <=> incoming = Nothing
GatheredIsWritten ==
    source # Nothing =>
        /\ incoming \in [Bytes -> Bytes \cup {Nothing}]
        /\ \A b \in Bytes : incoming[b] # Nothing <=> Gathered(b)
CanonicalIsWhole == canonical # Nothing => canonical \in [Bytes -> Bytes]

ShapeInv ==
    /\ ViewsAreShaped
    /\ PublicationType
    /\ GatheredIsWritten
    /\ CanonicalIsWhole

\* A publication's next node.
LEMMA NextNode ==
    ASSUME PublicationType, source # Nothing, scattered < source.nodes
    PROVE  /\ source \in Topologies /\ Supported(source)
           /\ scattered \in 0..(source.nodes - 1)
           /\ scattered + 1 \in 0..source.nodes
           /\ <<source, scattered>> \in Slots
           /\ NodeRanks(<<source, scattered>>)
                  = RankCoordinates(source, scattered)
<1>1. /\ source \in Topologies /\ Supported(source)
      /\ scattered \in 0..source.nodes
  BY DEF PublicationType
<1>2. source.nodes \in Nat
  BY <1>1, TopologyFacts
<1>3. scattered \in 0..(source.nodes - 1) /\ scattered + 1 \in 0..source.nodes
  BY <1>1, <1>2
<1> QED
  BY <1>1, <1>3, NodesAreSlots DEF NodeRanks

\* What the scatter of a node does to the bytes of the page.
LEMMA ScatterFacts ==
    ASSUME PublicationType, ScatterNode
    PROVE  LET slot == <<source, scattered>>
               ranks == NodeRanks(slot)
           IN  /\ view[slot] # Nothing
               /\ incoming' = [b \in Bytes |-> incoming'[b]]
               /\ \A b \in Bytes :
                      \/ \E r \in ranks :
                             /\ b \in Region(source, r)
                             /\ incoming'[b]
                                    = view[slot][FileName(source, r)]
                                          [Local(source, r, b)]
                      \/ /\ \A r \in ranks : b \notin Region(source, r)
                         /\ incoming'[b] = incoming[b]
<1> DEFINE slot == <<source, scattered>>
           ranks == RankCoordinates(source, scattered)
           owners(b) == {r \in ranks : b \in Region(source, r)}
           owner(b) == CHOOSE r \in owners(b) : TRUE
           piece(b, r) == view[slot][FileName(source, r)][Local(source, r, b)]
<1>1. NodeRanks(slot) = ranks
  BY DEF NodeRanks
<1>2. /\ view[slot] # Nothing
      /\ incoming' = [b \in Bytes |-> IF owners(b) = {} THEN incoming[b]
                                      ELSE piece(b, owner(b))]
  BY DEF ScatterNode, Valid
<1>3. ASSUME NEW b \in Bytes, owners(b) # {}
      PROVE  /\ owner(b) \in ranks /\ b \in Region(source, owner(b))
             /\ incoming'[b] = piece(b, owner(b))
  <2>1. owner(b) \in owners(b)
    BY <1>3
  <2> HIDE DEF owner, piece
  <2> QED
    BY <1>2, <1>3, <2>1
<1>4. ASSUME NEW b \in Bytes, owners(b) = {}
      PROVE  /\ \A r \in ranks : b \notin Region(source, r)
             /\ incoming'[b] = incoming[b]
  <2> HIDE DEF owner, piece
  <2> QED
    BY <1>2, <1>4
<1>5. incoming' = [b \in Bytes |-> incoming'[b]]
  <2> HIDE DEF owner, piece, owners
  <2> QED
    BY <1>2
<1> HIDE DEF owner
<1> QED
  BY <1>1, <1>2, <1>3, <1>4, <1>5

\* A piece that is scattered has no hole.
LEMMA ScatterPiece ==
    ASSUME ShapeInv, ScatterNode, NEW b \in Bytes,
           NEW q \in NodeRanks(<<source, scattered>>), b \in Region(source, q)
    PROVE  incoming'[b] \in Bytes
<1> DEFINE slot == <<source, scattered>>
<1>1. PublicationType /\ source # Nothing /\ scattered < source.nodes
  BY DEF ShapeInv, ScatterNode
<1>2. /\ slot \in Slots /\ source \in Topologies /\ Supported(source)
      /\ slot[1] = source
  BY <1>1, NextNode
<1>3. Shaped(slot, view[slot])
  BY <1>1, <1>2, ScatterFacts DEF ShapeInv, ViewsAreShaped
<1>4. PICK r \in NodeRanks(slot) :
          /\ b \in Region(source, r)
          /\ incoming'[b]
                 = view[slot][FileName(source, r)][Local(source, r, b)]
  BY <1>1, ScatterFacts
<1> HIDE DEF slot
<1>5. Local(source, r, b) \in Shape(source, r)
  BY <1>2, <1>4, SlotFacts, LocalFacts
<1>6. view[slot][FileName(source, r)] \in [Shape(source, r) -> Bytes]
  BY <1>2, <1>3 DEF Shaped
<1> QED
  BY <1>4, <1>5, <1>6

\* A page keeps its shape.
LEMMA ScatterType ==
    ASSUME ShapeInv, ScatterNode
    PROVE  incoming' \in [Bytes -> Bytes \cup {Nothing}]
<1>1. /\ PublicationType /\ source # Nothing
      /\ incoming \in [Bytes -> Bytes \cup {Nothing}]
  BY DEF ShapeInv, ScatterNode, GatheredIsWritten
<1>2. ASSUME NEW b \in Bytes PROVE incoming'[b] \in Bytes \cup {Nothing}
  BY <1>1, ScatterFacts, ScatterPiece
<1> QED
  BY <1>1, <1>2, ScatterFacts

\* One more node is gathered.
LEMMA GatherOneMore ==
    ASSUME PublicationType, source # Nothing, scattered < source.nodes,
           UNCHANGED source, scattered' = scattered + 1, NEW b \in Bytes
    PROVE  Gathered(b)' <=>
               \/ Gathered(b)
               \/ \E r \in NodeRanks(<<source, scattered>>) :
                      b \in Region(source, r)
<1>1. /\ scattered \in Nat
      /\ NodeRanks(<<source, scattered>>) = RankCoordinates(source, scattered)
  BY NextNode, TopologyFacts
<1>2. \A n : n \in 0..(scattered' - 1) <=>
                 n \in 0..(scattered - 1) \/ n = scattered
  BY <1>1
<1> QED
  BY <1>1, <1>2 DEF Gathered

\* What fits the names and sizes expected at a slot has the shapes of it.
LEMMA CopyIsShaped ==
    ASSUME NEW s \in Slots, NEW u \in Slots, Expected(s) = Expected(u),
           NEW files, Shaped(s, files)
    PROVE  Shaped(u, files)
<1> SUFFICES ASSUME NEW r \in NodeRanks(u)
             PROVE  /\ FileName(u[1], r) \in DOMAIN files
                    /\ files[FileName(u[1], r)] \in [Shape(u[1], r) -> Bytes]
  BY DEF Shaped
<1>1. <<FileName(u[1], r), FileSize(u[1], r)>> \in Expected(s)
  BY DEF Expected, NodeRanks
<1>2. PICK q \in NodeRanks(s) : /\ FileName(s[1], q) = FileName(u[1], r)
                                /\ FileSize(s[1], q) = FileSize(u[1], r)
  BY <1>1 DEF Expected, NodeRanks
<1>3. /\ s[1] \in Topologies /\ Supported(s[1]) /\ q \in Ranks(s[1])
      /\ u[1] \in Topologies /\ Supported(u[1]) /\ r \in Ranks(u[1])
  BY SlotFacts
<1>4. q = r /\ s[1].tp = u[1].tp
  BY <1>2, <1>3, NamesAreApart
<1>5. StageSize(s[1], q) = StageSize(u[1], r)
  <2> DEFINE a == StageSize(s[1], q)
             b == StageSize(u[1], r)
             h == HeadSize(u[1])
  <2>1. a \in Nat /\ b \in Nat /\ h \in Nat \ {0}
    BY <1>3, StageFacts, TopologyFacts
  <2>2. a * h = b * h
    BY <1>2, <1>4 DEF FileSize, StageSize, HeadSize
  <2> HIDE DEF a, b, h
  <2>3. a = b
    BY <2>1, <2>2
  <2> QED
    BY <2>3 DEF a, b
<1>6. Shape(s[1], q) = Shape(u[1], r)
  BY <1>4, <1>5 DEF Shape, HeadSize
<1> QED
  BY <1>2, <1>6 DEF Shaped

\* Directories keep the shapes of their pages.
LEMMA StepViewsAreShaped == ShapeInv /\ [Next]_vars => ViewsAreShaped'
<1> SUFFICES ASSUME ShapeInv, [Next]_vars PROVE ViewsAreShaped'
  OBVIOUS
<1>1. ViewsAreShaped
  BY DEF ShapeInv
<1>2. ASSUME NEW s \in Slots, Prefill(s) PROVE ViewsAreShaped'
  <2>1. Shaped(s, EngineFiles(s))
    <3>1. ASSUME NEW r \in NodeRanks(s)
          PROVE  /\ FileName(s[1], r) \in DOMAIN EngineFiles(s)
                 /\ EngineFiles(s)[FileName(s[1], r)]
                        \in [Shape(s[1], r) -> Bytes]
      <4>1. \A l \in Shape(s[1], r) : Global(s[1], r, l) \in Bytes
        BY SlotFacts, GlobalFacts, RegionFacts
      <4> QED
        BY <4>1, EngineStores
    <3> QED
      BY <3>1 DEF Shaped
  <2> QED
    BY <1>1, <1>2, <2>1 DEF Prefill, ViewsAreShaped
<1>3. ASSUME NEW s \in Slots, Drop(s) PROVE ViewsAreShaped'
  BY <1>1, <1>3 DEF Drop, ViewsAreShaped
<1>4. ASSUME NEW s \in Slots, Materialize(s) PROVE ViewsAreShaped'
  <2>1. canonical \in [Bytes -> Bytes]
    BY <1>4 DEF Materialize, ShapeInv, CanonicalIsWhole
  <2>2. Shaped(s, Sliced(s))
    <3>1. ASSUME NEW r \in NodeRanks(s)
          PROVE  /\ FileName(s[1], r) \in DOMAIN Sliced(s)
                 /\ Sliced(s)[FileName(s[1], r)] \in [Shape(s[1], r) -> Bytes]
      <4>1. \A l \in Shape(s[1], r) : Global(s[1], r, l) \in Bytes
        BY SlotFacts, GlobalFacts, RegionFacts
      <4>2. \A l \in Shape(s[1], r) : canonical[Global(s[1], r, l)] \in Bytes
        BY <2>1, <4>1
      <4>3. Sliced(s)[FileName(s[1], r)]
                = [l \in Shape(s[1], r) |-> canonical[Global(s[1], r, l)]]
        BY <2>1, SlicesOfAPage
      <4>4. DOMAIN Sliced(s) = {FileName(s[1], q) : q \in NodeRanks(s)}
        BY DEF Sliced, NodeRanks
      <4> QED
        BY <4>2, <4>3, <4>4
    <3> QED
      BY <3>1 DEF Shaped
  <2> QED
    BY <1>1, <1>4, <2>2 DEF Materialize, ViewsAreShaped
<1>5. ASSUME NEW from \in Slots, NEW to \in Slots, PeerCopy(from, to)
      PROVE  ViewsAreShaped'
  <2>1. Shaped(to, view[from])
    <3>1. view[from] # Nothing /\ Expected(from) = Expected(to)
      BY <1>5 DEF PeerCopy, Valid
    <3>2. Shaped(from, view[from])
      BY <1>1, <3>1 DEF ViewsAreShaped
    <3> QED
      BY <3>1, <3>2, CopyIsShaped
  <2> QED
    BY <1>1, <1>5, <2>1 DEF PeerCopy, ViewsAreShaped
<1>6. CASE UNCHANGED view
  BY <1>1, <1>6 DEF ViewsAreShaped
<1> QED
  BY <1>2, <1>3, <1>4, <1>5, <1>6
     DEF Next, vars, StartPublish, ScatterNode, AbandonPublish,
         InstallArtifact, RemoveArtifact

\* A publication is of a supported topology and has its page, or there is none.
LEMMA StepPublicationType == ShapeInv /\ [Next]_vars => PublicationType'
<1> SUFFICES ASSUME ShapeInv, [Next]_vars PROVE PublicationType'
  OBVIOUS
<1>1. PublicationType
  BY DEF ShapeInv
<1>2. ASSUME NEW t \in Topologies, StartPublish(t) PROVE PublicationType'
  <2>1. t # Nothing /\ EmptyPage # Nothing
    BY NothingAssumption DEF EmptyPage
  <2>2. 0 \in 0..t.nodes
    BY TopologyType
  <2> QED
    BY <1>2, <2>1, <2>2 DEF StartPublish, PublicationType
<1>3. CASE ScatterNode
  <2>1. source # Nothing /\ scattered < source.nodes
    BY <1>3 DEF ScatterNode
  <2>2. incoming' # Nothing
    <3>1. incoming' \in [Bytes -> Bytes \cup {Nothing}]
      BY <1>3, <2>1, ScatterType
    <3> QED
      BY <3>1, NothingAssumption
  <2>3. scattered' \in 0..source.nodes
    BY <1>1, <1>3, <2>1, NextNode DEF ScatterNode
  <2> QED
    BY <1>1, <1>3, <2>1, <2>2, <2>3 DEF ScatterNode, PublicationType
<1>4. CASE AbandonPublish \/ InstallArtifact
  BY <1>4 DEF AbandonPublish, InstallArtifact, PublicationType
<1>5. CASE UNCHANGED <<source, scattered, incoming>>
  BY <1>1, <1>5 DEF PublicationType
<1> QED
  BY <1>2, <1>3, <1>4, <1>5
     DEF Next, vars, Prefill, Drop, Materialize, PeerCopy, RemoveArtifact

\* Exactly the bytes of the scattered nodes are written.
LEMMA StepGathered == ShapeInv /\ [Next]_vars => GatheredIsWritten'
<1> SUFFICES ASSUME ShapeInv, [Next]_vars PROVE GatheredIsWritten'
  OBVIOUS
<1>1. PublicationType /\ GatheredIsWritten
  BY DEF ShapeInv
<1>2. ASSUME NEW t \in Topologies, StartPublish(t) PROVE GatheredIsWritten'
  <2>1. incoming' = [b \in Bytes |-> Nothing] /\ scattered' = 0
    BY <1>2 DEF StartPublish, EmptyPage
  <2> QED
    BY <2>1 DEF GatheredIsWritten, Gathered
<1>3. CASE ScatterNode
  <2>1. /\ source # Nothing /\ scattered < source.nodes
        /\ source' = source /\ scattered' = scattered + 1
    BY <1>3 DEF ScatterNode
  <2>2. \A b \in Bytes : incoming'[b] # Nothing <=> Gathered(b)'
    <3> SUFFICES ASSUME NEW b \in Bytes
                 PROVE  incoming'[b] # Nothing <=> Gathered(b)'
      OBVIOUS
    <3>1. CASE \E r \in NodeRanks(<<source, scattered>>) :
                   b \in Region(source, r)
      <4>1. incoming'[b] \in Bytes
        BY <1>3, <3>1, ScatterPiece
      <4> QED
        BY <1>1, <2>1, <3>1, <4>1, GatherOneMore, NothingAssumption
    <3>2. CASE \A r \in NodeRanks(<<source, scattered>>) :
                   b \notin Region(source, r)
      <4>1. incoming'[b] = incoming[b]
        BY <1>1, <1>3, <3>2, ScatterFacts
      <4> QED
        BY <1>1, <2>1, <3>2, <4>1, GatherOneMore DEF GatheredIsWritten
    <3> QED
      BY <3>1, <3>2
  <2>3. incoming' \in [Bytes -> Bytes \cup {Nothing}]
    BY <1>3, ScatterType
  <2> QED
    BY <2>2, <2>3 DEF GatheredIsWritten
<1>4. CASE AbandonPublish \/ InstallArtifact
  BY <1>4 DEF AbandonPublish, InstallArtifact, GatheredIsWritten
<1>5. CASE UNCHANGED <<source, scattered, incoming>>
  BY <1>1, <1>5 DEF GatheredIsWritten, Gathered
<1> QED
  BY <1>2, <1>3, <1>4, <1>5
     DEF Next, vars, Prefill, Drop, Materialize, PeerCopy, RemoveArtifact

\* When all nodes are scattered the whole page is written.
LEMMA AllIsGathered ==
    ASSUME ShapeInv, source # Nothing, scattered = source.nodes
    PROVE  incoming \in [Bytes -> Bytes]
<1>1. /\ source \in Topologies /\ Supported(source)
      /\ incoming \in [Bytes -> Bytes \cup {Nothing}]
      /\ \A b \in Bytes : incoming[b] # Nothing <=> Gathered(b)
  BY DEF ShapeInv, PublicationType, GatheredIsWritten
<1>2. \A b \in Bytes : Gathered(b)
  BY <1>1, PagePartition DEF Gathered
<1> QED
  BY <1>1, <1>2

\* An artifact is whole.
LEMMA StepCanonical == ShapeInv /\ [Next]_vars => CanonicalIsWhole'
<1> SUFFICES ASSUME ShapeInv, [Next]_vars PROVE CanonicalIsWhole'
  OBVIOUS
<1>1. CanonicalIsWhole
  BY DEF ShapeInv
<1>2. CASE InstallArtifact
  BY <1>2, AllIsGathered DEF InstallArtifact, CanonicalIsWhole
<1>3. CASE RemoveArtifact
  BY <1>3 DEF RemoveArtifact, CanonicalIsWhole
<1>4. CASE UNCHANGED canonical
  BY <1>1, <1>4 DEF CanonicalIsWhole
<1> QED
  BY <1>2, <1>3, <1>4
     DEF Next, vars, Prefill, Drop, Materialize, PeerCopy, StartPublish,
         ScatterNode, AbandonPublish

\* The shapes hold at the start and in every step.
LEMMA ShapesHold == Spec => []ShapeInv
<1>1. Init => ShapeInv
  BY DEF Init, ShapeInv, ViewsAreShaped, PublicationType, GatheredIsWritten,
         CanonicalIsWhole
<1>2. ShapeInv /\ [Next]_vars => ShapeInv'
  BY StepViewsAreShaped, StepPublicationType, StepGathered, StepCanonical
     DEF ShapeInv
<1> QED
  BY <1>1, <1>2, PTL DEF Spec

\* The shapes of the variables; an incoming page exists exactly while a
\* publication runs.
THEOREM TypeCorrect == Spec => []TypeOK
<1>1. ShapeInv => TypeOK
  BY DEF ShapeInv, ViewsAreShaped, PublicationType, GatheredIsWritten,
         CanonicalIsWhole, TypeOK
<1> QED
  BY <1>1, ShapesHold, PTL

\* A node's files have names of their own.
LEMMA PiecesAreCounted ==
    ASSUME NEW s \in Slots
    PROVE  Cardinality(NodeRanks(s)) = Cardinality(Expected(s))
<1> DEFINE row(r) == <<FileName(s[1], r), FileSize(s[1], r)>>
           f == [r \in NodeRanks(s) |-> row(r)]
<1>1. IsFiniteSet(NodeRanks(s))
  <2>1. /\ s[1].tp - 1 \in Int /\ s[1].pp - 1 \in Int
        /\ NodeRanks(s) \subseteq Ranks(s[1])
    BY SlotFacts, TopologyFacts
  <2>2. IsFiniteSet(0..(s[1].tp - 1)) /\ IsFiniteSet(0..(s[1].pp - 1))
    BY <2>1, FS_Interval
  <2>3. IsFiniteSet(Ranks(s[1]))
    BY <2>2, FS_Product DEF Ranks
  <2> QED
    BY <2>1, <2>3, FS_Subset
<1>2. Expected(s) = {row(r) : r \in NodeRanks(s)}
  BY DEF Expected, NodeRanks
<1>3. \A q, r \in NodeRanks(s) : row(q) = row(r) => q = r
  BY SlotFacts, NamesAreApart
<1>4. f \in Bijection(NodeRanks(s), Expected(s))
  <2> HIDE DEF row
  <2>1. f \in [NodeRanks(s) -> Expected(s)]
    BY <1>2
  <2>2. \A q, r \in NodeRanks(s) : f[q] = f[r] => q = r
    BY <1>3
  <2>3. \A e \in Expected(s) : \E r \in NodeRanks(s) : f[r] = e
    BY <1>2
  <2> HIDE DEF f
  <2> QED
    BY <2>1, <2>2, <2>3, Fun_IsBij
<1> QED
  BY <1>1, <1>4, Fun_ExistsBij, FS_Bijection

\* Counting a publication's pieces is enough: they are disjoint, as large as
\* was computed, and cover what is written.
THEOREM PiecesFillThePage == Spec => []PiecesAddUp
<1>1. ShapeInv => PiecesAddUp
  <2> SUFFICES ASSUME ShapeInv, source # Nothing
               PROVE  PiecesAddUp
    BY DEF PiecesAddUp
  <2> DEFINE nodes == 0..(scattered - 1)
             ranks == UNION {RankCoordinates(source, n) : n \in nodes}
  <2>1. /\ source \in Topologies /\ Supported(source)
        /\ nodes \subseteq 0..(source.nodes - 1)
    <3>1. /\ source \in Topologies /\ Supported(source)
          /\ scattered \in 0..source.nodes
      BY DEF ShapeInv, PublicationType
    <3>2. source.nodes \in Nat
      BY <3>1, TopologyFacts
    <3> QED
      BY <3>1, <3>2
  <2> HIDE DEF nodes
  <2>2. ranks \subseteq Ranks(source)
    BY <2>1, NodesAreApart
  <2>3. \A r \in ranks : Cardinality(Region(source, r)) = FileSize(source, r)
    BY <2>1, <2>2, SizeFacts
  <2>4. ASSUME NEW q \in ranks, NEW r \in ranks, q # r
        PROVE  Region(source, q) \cap Region(source, r) = {}
    BY <2>1, <2>2, <2>4, RegionsAreApart
  <2>5. {b \in Bytes : incoming[b] # Nothing}
            = UNION {Region(source, r) : r \in ranks}
    <3>1. \A b \in Bytes : incoming[b] # Nothing <=> Gathered(b)
      BY DEF ShapeInv, GatheredIsWritten
    <3>2. \A r \in ranks : Region(source, r) \subseteq Bytes
      BY <2>1, <2>2, RegionFacts
    <3>3. \A b : Gathered(b) <=> \E r \in ranks : b \in Region(source, r)
      BY DEF Gathered, nodes
    <3> HIDE DEF ranks
    <3> QED
      BY <3>1, <3>2, <3>3
  <2>6. ASSUME NEW n \in nodes
        PROVE  Cardinality(RankCoordinates(source, n))
                   = Cardinality(Expected(<<source, n>>))
    <3>1. <<source, n>> \in Slots
      BY <2>1, NodesAreSlots
    <3>2. NodeRanks(<<source, n>>) = RankCoordinates(source, n)
      BY DEF NodeRanks
    <3> QED
      BY <3>1, <3>2, PiecesAreCounted
  <2> QED
    BY <2>3, <2>4, <2>5, <2>6 DEF PiecesAddUp, nodes
<1> QED
  BY <1>1, ShapesHold, PTL

(***************************************************************************)
(* The contents, as long as topologies with equal TP and PP have equal     *)
(* stages: directories hold what an engine stores there, and pages what    *)
(* belongs to their places.                                                *)
(***************************************************************************)

ViewsAreTheEngines ==
    \A s \in Slots : view[s] # Nothing => view[s] = EngineFiles(s)
IncomingIsRight ==
    source # Nothing => \A b \in Bytes : incoming[b] \in {b, Nothing}

ContentsInv ==
    /\ StagesAgree
    /\ ShapeInv
    /\ ViewsAreTheEngines
    /\ IncomingIsRight
    /\ CanonicalIsRight

\* Equal inventories are of equal ranks.
LEMMA EqualInventories ==
    ASSUME NEW s \in Slots, NEW u \in Slots, Expected(s) = Expected(u)
    PROVE  /\ NodeRanks(s) = NodeRanks(u)
           /\ s[1].tp = u[1].tp /\ s[1].pp = u[1].pp
<1>1. ASSUME NEW a \in Slots, NEW c \in Slots, Expected(a) = Expected(c),
             NEW r \in NodeRanks(a)
      PROVE  r \in NodeRanks(c) /\ a[1].tp = c[1].tp /\ a[1].pp = c[1].pp
  <2>1. <<FileName(a[1], r), FileSize(a[1], r)>> \in Expected(c)
    BY <1>1 DEF Expected, NodeRanks
  <2>2. PICK q \in NodeRanks(c) : FileName(c[1], q) = FileName(a[1], r)
    BY <2>1 DEF Expected, NodeRanks
  <2> QED
    BY <2>2, SlotFacts, NamesAreApart
<1>2. NodeRanks(s) # {}
  <2> DEFINE t == s[1]
             k == PerNode(t)
             g == s[2] * k
  <2>1. k \in Nat \ {0} /\ s[2] \in Nat
    BY SlotFacts, TopologyFacts
  <2>2. g \in g..(g + k - 1)
    <3> HIDE DEF k
    <3>1. g \in Nat
      BY <2>1
    <3> QED
      BY <2>1, <3>1
  <2>3. <<g % t.tp, g \div t.tp>> \in NodeRanks(s)
    BY <2>2 DEF NodeRanks, RankCoordinates, PerNode
  <2> QED
    BY <2>3
<1> QED
  BY <1>1, <1>2

\* Then engines store the same, since the stages agree.
LEMMA PeersAgree ==
    ASSUME StagesAgree,
           NEW s \in Slots, NEW u \in Slots, Expected(s) = Expected(u)
    PROVE  EngineFiles(s) = EngineFiles(u)
<1>1. /\ NodeRanks(s) = NodeRanks(u)
      /\ s[1].tp = u[1].tp /\ s[1].pp = u[1].pp
      /\ s[1].partition = u[1].partition
  BY EqualInventories, SlotFacts DEF StagesAgree
<1>2. ASSUME NEW r \in NodeRanks(s)
      PROVE  /\ FileName(s[1], r) = FileName(u[1], r)
             /\ Shape(s[1], r) = Shape(u[1], r)
             /\ \A l : Global(s[1], r, l) = Global(u[1], r, l)
  BY <1>1 DEF FileName, Shape, Global, StageSize, HeadSize, FirstLayer,
              FirstHead
<1> DEFINE names == {FileName(s[1], r) : r \in NodeRanks(s)}
<1>3. /\ EngineFiles(s) = [name \in names |-> EngineFiles(s)[name]]
      /\ EngineFiles(u) = [name \in names |-> EngineFiles(u)[name]]
  <2>1. names = {FileName(u[1], r) : r \in NodeRanks(u)}
    BY <1>1, <1>2
  <2> QED
    BY <2>1, EngineStores
<1>4. ASSUME NEW r \in NodeRanks(s)
      PROVE  EngineFiles(s)[FileName(s[1], r)]
                 = EngineFiles(u)[FileName(s[1], r)]
  <2>1. /\ EngineFiles(s)[FileName(s[1], r)]
               = [l \in Shape(s[1], r) |-> Global(s[1], r, l)]
        /\ EngineFiles(u)[FileName(u[1], r)]
               = [l \in Shape(u[1], r) |-> Global(u[1], r, l)]
    BY <1>1, EngineStores
  <2> QED
    BY <1>2, <2>1
<1>5. \A name \in names : EngineFiles(s)[name] = EngineFiles(u)[name]
  BY <1>4
<1> HIDE DEF names
<1> QED
  BY <1>3, <1>5

\* What is sliced from a right page is what an engine stores.
LEMMA SlicesAreTheEngines ==
    ASSUME NEW s \in Slots, canonical \in [Bytes -> Bytes],
           \A b \in Bytes : canonical[b] = b
    PROVE  Sliced(s) = EngineFiles(s)
<1> DEFINE names == {FileName(s[1], r) : r \in NodeRanks(s)}
<1>1. /\ Sliced(s) = [name \in names |-> Sliced(s)[name]]
      /\ EngineFiles(s) = [name \in names |-> EngineFiles(s)[name]]
  BY SlicesOfAPage, EngineStores
<1>2. ASSUME NEW r \in NodeRanks(s)
      PROVE  Sliced(s)[FileName(s[1], r)] = EngineFiles(s)[FileName(s[1], r)]
  <2>1. \A l \in Shape(s[1], r) :
            canonical[Global(s[1], r, l)] = Global(s[1], r, l)
    BY SlotFacts, GlobalFacts, RegionFacts
  <2>2. /\ Sliced(s)[FileName(s[1], r)]
               = [l \in Shape(s[1], r) |-> canonical[Global(s[1], r, l)]]
        /\ EngineFiles(s)[FileName(s[1], r)]
               = [l \in Shape(s[1], r) |-> Global(s[1], r, l)]
    BY SlicesOfAPage, EngineStores
  <2> QED
    BY <2>1, <2>2
<1>3. \A name \in names : Sliced(s)[name] = EngineFiles(s)[name]
  BY <1>2
<1> HIDE DEF names
<1> QED
  BY <1>1, <1>3

\* Directories hold what engines store.
LEMMA StepViewsAreTheEngines ==
    ContentsInv /\ [Next]_vars => ViewsAreTheEngines'
<1> SUFFICES ASSUME ContentsInv, [Next]_vars PROVE ViewsAreTheEngines'
  OBVIOUS
<1>1. ViewsAreTheEngines /\ DOMAIN view = Slots
  BY DEF ContentsInv, ShapeInv, ViewsAreShaped
<1>e. \A s : EngineFiles(s)' = EngineFiles(s)
  OBVIOUS
<1>2. ASSUME NEW s \in Slots, Prefill(s) PROVE ViewsAreTheEngines'
  BY <1>1, <1>2 DEF Prefill, ViewsAreTheEngines
<1>3. ASSUME NEW s \in Slots, Drop(s) PROVE ViewsAreTheEngines'
  BY <1>1, <1>3 DEF Drop, ViewsAreTheEngines
<1>4. ASSUME NEW s \in Slots, Materialize(s) PROVE ViewsAreTheEngines'
  <2>1. Sliced(s) = EngineFiles(s)
    <3>1. canonical \in [Bytes -> Bytes] /\ \A b \in Bytes : canonical[b] = b
      BY <1>4 DEF Materialize, ContentsInv, ShapeInv, CanonicalIsWhole,
                  CanonicalIsRight
    <3> QED
      BY <3>1, SlicesAreTheEngines
  <2> QED
    BY <1>1, <1>4, <2>1 DEF Materialize, ViewsAreTheEngines
<1>5. ASSUME NEW from \in Slots, NEW to \in Slots, PeerCopy(from, to)
      PROVE  ViewsAreTheEngines'
  <2>1. view[from] = EngineFiles(to)
    <3>1. view[from] = EngineFiles(from) /\ Expected(from) = Expected(to)
      BY <1>1, <1>5 DEF PeerCopy, Valid, ViewsAreTheEngines
    <3>2. EngineFiles(from) = EngineFiles(to)
      BY <3>1, PeersAgree DEF ContentsInv
    <3> QED
      BY <3>1, <3>2
  <2> QED
    BY <1>1, <1>5, <2>1 DEF PeerCopy, ViewsAreTheEngines
<1>6. CASE UNCHANGED view
  BY <1>1, <1>6 DEF ViewsAreTheEngines
<1> QED
  BY <1>2, <1>3, <1>4, <1>5, <1>6
     DEF Next, vars, StartPublish, ScatterNode, AbandonPublish,
         InstallArtifact, RemoveArtifact

\* A publication writes each byte in its place.
LEMMA StepIncomingIsRight == ContentsInv /\ [Next]_vars => IncomingIsRight'
<1> SUFFICES ASSUME ContentsInv, [Next]_vars PROVE IncomingIsRight'
  OBVIOUS
<1>1. IncomingIsRight /\ ViewsAreTheEngines /\ PublicationType
  BY DEF ContentsInv, ShapeInv
<1>2. ASSUME NEW t \in Topologies, StartPublish(t) PROVE IncomingIsRight'
  BY <1>2 DEF StartPublish, EmptyPage, IncomingIsRight
<1>3. CASE ScatterNode
  <2> DEFINE slot == <<source, scattered>>
  <2>1. source # Nothing /\ scattered < source.nodes
    BY <1>3 DEF ScatterNode
  <2>2. /\ slot \in Slots /\ slot[1] = source
        /\ source \in Topologies /\ Supported(source)
    BY <1>1, <2>1, NextNode
  <2>3. view[slot] = EngineFiles(slot)
    BY <1>1, <1>3, <2>2, ScatterFacts DEF ViewsAreTheEngines
  <2>4. ASSUME NEW b \in Bytes PROVE incoming'[b] \in {b, Nothing}
    <3>1. CASE \E r \in NodeRanks(slot) :
                   /\ b \in Region(source, r)
                   /\ incoming'[b] = view[slot][FileName(source, r)]
                                               [Local(source, r, b)]
      <4>1. PICK r \in NodeRanks(slot) :
                /\ b \in Region(source, r)
                /\ incoming'[b] = view[slot][FileName(source, r)]
                                            [Local(source, r, b)]
        BY <3>1
      <4> HIDE DEF slot
      <4>2. /\ Local(source, r, b) \in Shape(source, r)
            /\ Global(source, r, Local(source, r, b)) = b
        BY <2>2, <4>1, SlotFacts, LocalFacts
      <4>3. EngineFiles(slot)[FileName(source, r)]
                = [l \in Shape(source, r) |-> Global(source, r, l)]
        BY <2>2, EngineStores
      <4> QED
        BY <2>3, <4>1, <4>2, <4>3
    <3>2. CASE incoming'[b] = incoming[b]
      BY <1>1, <2>1, <3>2 DEF IncomingIsRight
    <3> QED
      BY <1>1, <1>3, <3>1, <3>2, ScatterFacts
  <2> QED
    BY <2>4 DEF IncomingIsRight
<1>4. CASE AbandonPublish \/ InstallArtifact
  BY <1>4 DEF AbandonPublish, InstallArtifact, IncomingIsRight
<1>5. CASE UNCHANGED <<source, incoming>>
  BY <1>1, <1>5 DEF IncomingIsRight
<1> QED
  BY <1>2, <1>3, <1>4, <1>5
     DEF Next, vars, Prefill, Drop, Materialize, PeerCopy, RemoveArtifact

\* An artifact has each byte in its place.
LEMMA StepCanonicalIsRight == ContentsInv /\ [Next]_vars => CanonicalIsRight'
<1> SUFFICES ASSUME ContentsInv, [Next]_vars PROVE CanonicalIsRight'
  OBVIOUS
<1>1. CanonicalIsRight /\ IncomingIsRight /\ ShapeInv
  BY DEF ContentsInv
<1>2. CASE InstallArtifact
  <2>1. /\ source # Nothing /\ scattered = source.nodes
        /\ canonical' = incoming
    BY <1>2 DEF InstallArtifact
  <2>2. \A b \in Bytes : incoming[b] \in Bytes /\ incoming[b] \in {b, Nothing}
    BY <1>1, <2>1, AllIsGathered DEF IncomingIsRight
  <2> QED
    BY <2>1, <2>2, NothingAssumption DEF CanonicalIsRight
<1>3. CASE RemoveArtifact
  BY <1>3 DEF RemoveArtifact, CanonicalIsRight
<1>4. CASE UNCHANGED canonical
  BY <1>1, <1>4 DEF CanonicalIsRight
<1> QED
  BY <1>2, <1>3, <1>4
     DEF Next, vars, Prefill, Drop, Materialize, PeerCopy, StartPublish,
         ScatterNode, AbandonPublish

\* All of it, if the stages agree.
LEMMA ContentsHold == StagesAgree => (Spec => []ContentsInv)
<1>1. StagesAgree /\ Init => ContentsInv
  BY DEF Init, ContentsInv, ViewsAreTheEngines, IncomingIsRight,
         CanonicalIsRight, ShapeInv, ViewsAreShaped, PublicationType,
         GatheredIsWritten, CanonicalIsWhole
<1>2. ContentsInv /\ [Next]_vars => ContentsInv'
  <2>1. ContentsInv /\ [Next]_vars => ShapeInv'
    BY StepViewsAreShaped, StepPublicationType, StepGathered, StepCanonical
       DEF ContentsInv, ShapeInv
  <2>2. StagesAgree' <=> StagesAgree
    OBVIOUS
  <2> QED
    BY <2>1, <2>2, StepViewsAreTheEngines, StepIncomingIsRight,
       StepCanonicalIsRight DEF ContentsInv
<1> QED
  BY <1>1, <1>2, PTL DEF Spec

\* Whatever topology published it, each byte of an artifact is in its place.
THEOREM ArtifactsAreRight == StagesAgree => (Spec => []CanonicalIsRight)
<1>1. ContentsInv => CanonicalIsRight
  BY DEF ContentsInv
<1> QED
  BY <1>1, ContentsHold, PTL

\* Views, made by prefill, from the artifact or from a peer, are what an engine
\* of their topology would have stored.
THEOREM CachesAreInterchangeable == StagesAgree => (Spec => []ViewsAreRight)
<1>1. ContentsInv => ViewsAreRight
  BY DEF ContentsInv, ViewsAreTheEngines, ViewsAreRight, Valid
<1> QED
  BY <1>1, ContentsHold, PTL
=============================================================================
