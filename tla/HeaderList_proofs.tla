-------------------------- MODULE HeaderList_proofs ---------------------------
(***************************************************************************)
(* Facts about trees of blocks and about the header list, whatever the     *)
(* tree: the chain of a block is determined by its predecessors, the map   *)
(* of heights finds exactly the headers of the list, and the headers a     *)
(* list lacks are given their heights and spliced in as the chain of the   *)
(* last one.                                                               *)
(***************************************************************************)
EXTENDS HeaderList, FiniteSetTheorems, SequenceTheorems, WellFoundedInduction, TLAPS

(* A set of numbers with 0 and the successors of its elements has all.     *)
LEMMA Counting ==
  ASSUME NEW S, 0 \in S, \A n \in Nat : n \in S => n + 1 \in S
  PROVE  Nat \subseteq S
<1> DEFINE T == Nat \ S
           R == OpToRel(<, Nat)
<1> SUFFICES ASSUME T # {} PROVE FALSE
  OBVIOUS
<1>1. PICK x \in T : \A y \in T : ~ (<<y, x>> \in R)
  <2> HIDE DEF T, R
  <2>1. T \subseteq Nat
    BY DEF T
  <2>2. IsWellFoundedOn(R, Nat)
    BY NatLessThanWellFounded DEF R
  <2> QED BY <2>1, <2>2, WFMin
<1>2. x \in Nat /\ x # 0
  OBVIOUS
<1>3. x - 1 \in T
  BY <1>2
<1>4. <<x - 1, x>> \in R
  BY <1>2 DEF OpToRel
<1> QED BY <1>1, <1>3, <1>4

(* A set of numbers has a least element.                                   *)
LEMMA Least ==
  ASSUME NEW T \in SUBSET Nat, T # {}
  PROVE  \E x \in T : \A y \in T : x <= y
<1> DEFINE R == OpToRel(<, Nat)
<1>1. PICK x \in T : \A y \in T : ~ (<<y, x>> \in R)
  <2> HIDE DEF R
  <2>1. IsWellFoundedOn(R, Nat)
    BY NatLessThanWellFounded DEF R
  <2> QED BY <2>1, WFMin
<1>2. \A y \in T : ~ (y < x)
  BY <1>1 DEF OpToRel
<1> QED BY <1>2

(* A bounded one has a greatest.                                           *)
LEMMA Greatest ==
  ASSUME NEW n \in Nat, NEW T \in SUBSET (0 .. n), T # {}
  PROVE  \E x \in T : \A y \in T : y <= x
<1> DEFINE U == {n - x : x \in T}
<1>1. U \in SUBSET Nat /\ U # {}
  <2>1. \A x \in T : x \in 0 .. n
    OBVIOUS
  <2>2. \A x \in T : n - x \in Nat
    BY <2>1
  <2> QED BY <2>2
<1>2. PICK u \in U : \A y \in U : u <= y
  <2> HIDE DEF U
  <2> QED BY <1>1, Least
<1>3. PICK x \in T : u = n - x
  BY <1>2
<1>4. \A y \in T : n - x <= n - y
  BY <1>2, <1>3
<1> QED BY <1>4

------------------------------------------------------------------------------
(* The tree.                                                               *)

(* The chain of a block ends with it.                                      *)
LEMMA ChainEnds ==
  ASSUME NEW b \in Blocks
  PROVE  /\ Chain[b] \in Seq(Blocks) /\ Chain[b] # <<>>
         /\ Len(Chain[b]) \in Nat \ {0} /\ Chain[b][Len(Chain[b])] = b
         /\ DOMAIN Chain[b] = 1 .. Len(Chain[b])
         /\ \A i \in 1 .. Len(Chain[b]) : Chain[b][i] \in Blocks
<1>1. Chain[b] \in Seq(Blocks)
  BY ChainAssumption
<1>2. CASE Prev[b] = Null
  <2>1. Chain[b] = <<b>>
    BY <1>2, ChainAssumption
  <2> QED BY <2>1
<1>3. CASE Prev[b] # Null
  <2>1. Prev[b] \in Blocks /\ Chain[Prev[b]] \in Seq(Blocks) /\ Chain[b] = Append(Chain[Prev[b]], b)
    BY <1>3, ChainAssumption, TreeAssumption
  <2>2. /\ Chain[b] # <<>> /\ Len(Chain[b]) = Len(Chain[Prev[b]]) + 1
        /\ Chain[b][Len(Chain[Prev[b]]) + 1] = b
    BY <2>1, AppendProperties
  <2>3. Len(Chain[Prev[b]]) \in Nat
    BY <2>1, LenProperties
  <2> QED BY <1>1, <2>2, <2>3, LenProperties, ElementOfSeq
<1> QED BY <1>2, <1>3

(* Every part of a linked sequence that begins at the root is the chain of *)
(* its last block.                                                         *)
LEMMA LinkedIsChain ==
  ASSUME NEW s \in Seq(Blocks),
         \A i \in 1 .. Len(s) : Prev[s[i]] = IF i = 1 THEN Null ELSE s[i - 1],
         NEW i \in 1 .. Len(s)
  PROVE  Chain[s[i]] = SubSeq(s, 1, i)
<1>1. Len(s) \in Nat /\ \A k \in 1 .. Len(s) : s[k] \in Blocks
  BY LenProperties, ElementOfSeq
<1> DEFINE S == {n \in Nat : n \in 1 .. Len(s) => Chain[s[n]] = SubSeq(s, 1, n)}
<1>2. 0 \in S
  OBVIOUS
<1>3. ASSUME NEW n \in Nat, n \in S PROVE n + 1 \in S
  <2> SUFFICES ASSUME n + 1 \in 1 .. Len(s) PROVE Chain[s[n + 1]] = SubSeq(s, 1, n + 1)
    OBVIOUS
  <2>1. SubSeq(s, 1, n + 1) = SubSeq(s, 1, n) \o <<s[n + 1]>>
    BY <1>1, SubSeqRecursiveSecond
  <2>2. s[n + 1] \in Blocks
    BY <1>1
  <2>3. CASE n = 0
    <3>1. Chain[s[n + 1]] = <<s[n + 1]>>
      BY <2>2, <2>3, ChainAssumption
    <3>2. SubSeq(s, 1, n) = <<>>
      BY <2>3, SubSeqEmpty
    <3>3. <<>> \o <<s[n + 1]>> = <<s[n + 1]>>
      BY <2>2, ConcatEmptySeq
    <3> QED BY <2>1, <3>1, <3>2, <3>3
  <2>4. CASE n # 0
    <3>1. n \in 1 .. Len(s) /\ Prev[s[n + 1]] = s[n] /\ s[n] \in Blocks /\ s[n] # Null
      BY <1>1, <2>4, TreeAssumption
    <3>2. Chain[s[n + 1]] = Append(Chain[s[n]], s[n + 1]) /\ Chain[s[n]] = SubSeq(s, 1, n)
      BY <1>3, <2>2, <3>1, ChainAssumption
    <3>3. Chain[s[n]] \in Seq(Blocks)
      BY <3>1, ChainEnds
    <3> QED BY <2>1, <2>2, <3>2, <3>3, AppendIsConcat
  <2> QED BY <2>3, <2>4
<1> HIDE DEF S
<1>4. i \in S
  BY <1>1, <1>2, <1>3, Counting
<1> QED BY <1>4 DEF S

(* A linked sequence from the root to b is the chain of b.                 *)
LEMMA ChainUnique ==
  ASSUME NEW s \in Seq(Blocks), s # <<>>,
         \A i \in 1 .. Len(s) : Prev[s[i]] = IF i = 1 THEN Null ELSE s[i - 1]
  PROVE  s = Chain[s[Len(s)]]
<1>1. Len(s) \in 1 .. Len(s)
  BY EmptySeq
<1> QED BY <1>1, LinkedIsChain, SubSeqFull

(* The chain of a block on a chain is the part up to it.                   *)
LEMMA ChainPrefix ==
  ASSUME NEW b \in Blocks, NEW i \in 1 .. Len(Chain[b])
  PROVE  /\ Chain[b][i] \in Blocks
         /\ Chain[Chain[b][i]] = SubSeq(Chain[b], 1, i)
         /\ Len(Chain[Chain[b][i]]) = i
         /\ Prev[Chain[b][i]] = IF i = 1 THEN Null ELSE Chain[b][i - 1]
<1>1. Chain[b] \in Seq(Blocks) /\ Chain[b][i] \in Blocks /\ Len(Chain[b]) \in Nat
  BY ChainEnds
<1>2. \A k \in 1 .. Len(Chain[b]) : Prev[Chain[b][k]] = IF k = 1 THEN Null ELSE Chain[b][k - 1]
  BY ChainAssumption
<1>3. Chain[Chain[b][i]] = SubSeq(Chain[b], 1, i)
  BY <1>1, <1>2, LinkedIsChain
<1>4. Len(SubSeq(Chain[b], 1, i)) = i
  BY <1>1
<1> QED BY <1>1, <1>2, <1>3, <1>4

(* A block is on a chain once.                                             *)
LEMMA ChainOnce ==
  ASSUME NEW b \in Blocks, NEW i \in 1 .. Len(Chain[b]), NEW k \in 1 .. Len(Chain[b]),
         Chain[b][i] = Chain[b][k]
  PROVE  i = k
  BY ChainPrefix

(* The blocks below a block on a chain are on that chain.                  *)
LEMMA OnChain ==
  ASSUME NEW b \in Blocks
  PROVE  /\ b \in On(b) /\ On(b) \subseteq Blocks
         /\ \A x \in On(b) : /\ On(x) \subseteq On(b)
                             /\ Len(Chain[x]) \in 1 .. Len(Chain[b])
                             /\ x = Chain[b][Len(Chain[x])]
<1>1. b \in On(b) /\ On(b) \subseteq Blocks
  BY ChainEnds DEF On
<1>2. ASSUME NEW x \in On(b)
      PROVE  /\ On(x) \subseteq On(b)
             /\ Len(Chain[x]) \in 1 .. Len(Chain[b])
             /\ x = Chain[b][Len(Chain[x])]
  <2>1. PICK i \in 1 .. Len(Chain[b]) : x = Chain[b][i]
    BY DEF On
  <2>2. Chain[x] = SubSeq(Chain[b], 1, i) /\ Len(Chain[x]) = i
    BY <2>1, ChainPrefix
  <2>3. Chain[b] \in Seq(Blocks) /\ Len(Chain[b]) \in Nat
    BY ChainEnds
  <2>4. \A k \in 1 .. i : Chain[x][k] = Chain[b][k]
    BY <2>2, <2>3
  <2> QED BY <2>1, <2>2, <2>3, <2>4 DEF On
<1> QED BY <1>1, <1>2

------------------------------------------------------------------------------
(* The list.                                                               *)

(* The list is a chain, the map gives a hash no other height than that of  *)
(* its block, and it has the hashes of the list.                           *)
GoodList(l) ==
    /\ l \in [headers : Seq(Blocks), heights : [Blocks -> Nat \cup {Absent}]]
    /\ l.headers # <<>> => l.headers = Chain[Tip(l)]
    /\ \A b \in Blocks : l.heights[b] \in {Absent, Len(Chain[b]) - 1}
    /\ \A i \in 1 .. Len(l.headers) : l.heights[l.headers[i]] = i - 1

(* The headers of the chain of b that come after the first m, with their   *)
(* heights.                                                                *)
Part(b, m) ==
    [i \in 1 .. Len(Chain[b]) - m |-> [hash |-> Chain[b][m + i], height |-> m + i - 1]]

(* The empty list is a good one, and it has no tip.                        *)
LEMMA GoodEmpty == GoodList(Empty) /\ Tip(Empty) = Null
<1>1. Len(<<>>) = 0 /\ <<>> \in Seq(Blocks)
  BY EmptySeq
<1> QED BY <1>1 DEF GoodList, Empty, Tip, Absent

(* A lookup by hash finds exactly the headers of the list, each at the     *)
(* height of its block.                                                    *)
LEMMA KnownInList ==
  ASSUME NEW l, GoodList(l), NEW b \in Blocks
  PROVE  /\ Known(l, b) <=> b \in {l.headers[i] : i \in 1 .. Len(l.headers)}
         /\ Known(l, b) => l.heights[b] = Len(Chain[b]) - 1
<1>1. Len(l.headers) \in Nat /\ Len(Chain[b]) \in Nat \ {0} /\ l.heights[b] \in Nat \cup {Absent}
  BY LenProperties, ChainEnds DEF GoodList
<1>2. ASSUME Known(l, b) PROVE b \in {l.headers[i] : i \in 1 .. Len(l.headers)}
  <2>1. l.heights[b] + 1 \in 1 .. Len(l.headers) /\ l.headers[l.heights[b] + 1] = b
    BY <1>1, <1>2 DEF Known
  <2> QED BY <2>1
<1>3. ASSUME NEW i \in 1 .. Len(l.headers), b = l.headers[i] PROVE Known(l, b)
  <2>1. l.heights[b] = i - 1
    BY <1>3 DEF GoodList
  <2> QED BY <1>1, <1>3, <2>1 DEF Known, Absent
<1>4. Known(l, b) => l.heights[b] = Len(Chain[b]) - 1
  BY DEF Known, GoodList
<1> QED BY <1>2, <1>3, <1>4

(* A list that is not empty is the chain of its tip.                       *)
LEMMA ListOnTip ==
  ASSUME NEW l, GoodList(l)
  PROVE  /\ Tip(l) \in Blocks \cup {Null}
         /\ l.headers = <<>> <=> Tip(l) = Null
         /\ Tip(l) # Null => {l.headers[i] : i \in 1 .. Len(l.headers)} = On(Tip(l))
<1>1. CASE l.headers = <<>>
  BY <1>1 DEF Tip
<1>2. CASE l.headers # <<>>
  <2>1. Len(l.headers) \in 1 .. Len(l.headers)
    BY <1>2, EmptySeq, LenProperties DEF GoodList
  <2>2. Tip(l) \in Blocks
    BY <1>2, <2>1, ElementOfSeq DEF Tip, GoodList
  <2> QED BY <1>2, <2>2, TreeAssumption DEF GoodList, On
<1> QED BY <1>1, <1>2

(* What the list lacks of a chain is the part after the last header it     *)
(* knows, and order gives it the heights of its blocks.                    *)
LEMMA NewIsPart ==
  ASSUME NEW l, GoodList(l), NEW b \in Blocks
  PROVE  \E k \in 0 .. Len(Chain[b]) :
            /\ k > 0 => Known(l, Chain[b][k])
            /\ IF NewHeaders(l, b) = <<>> THEN <<>> = Part(b, k)
               ELSE Ordered(l, NewHeaders(l, b)) = Part(b, k)
<1> DEFINE c == Chain[b]
           n == Len(c)
           K == KnownUpTo(l, b)
<1>1. /\ c \in Seq(Blocks) /\ n \in Nat \ {0} /\ \A i \in 1 .. n : c[i] \in Blocks
      /\ \A i \in 1 .. n : Len(Chain[c[i]]) = i /\ Prev[c[i]] = IF i = 1 THEN Null ELSE c[i - 1]
  BY ChainEnds, ChainPrefix
<1>2. \E k \in 0 .. n : (k > 0 => Known(l, c[k])) /\ NewHeaders(l, b) = SubSeq(c, k + 1, n)
  <2>1. CASE K = {}
    <3>1. NewHeaders(l, b) = SubSeq(c, 1, n)
      BY <1>1, <2>1, SubSeqFull DEF NewHeaders
    <3> QED BY <1>1, <3>1
  <2>2. CASE K # {}
    <3>1. K \in SUBSET (0 .. n)
      BY <1>1 DEF KnownUpTo
    <3>2. \E x \in K : \A y \in K : y <= x
      <4> HIDE DEF K, n
      <4>1. n \in Nat
        BY <1>1
      <4> QED BY <2>2, <3>1, <4>1, Greatest
    <3> DEFINE k == CHOOSE i \in K : \A j \in K : j <= i
    <3>3. k \in K
      BY <3>2
    <3>4. k \in 1 .. n /\ Known(l, c[k])
      BY <3>3 DEF KnownUpTo
    <3>5. NewHeaders(l, b) = SubSeq(c, k + 1, n)
      BY <2>2 DEF NewHeaders
    <3> HIDE DEF k
    <3> QED BY <1>1, <3>4, <3>5
  <2> QED BY <2>1, <2>2
<1>3. PICK k \in 0 .. n : (k > 0 => Known(l, c[k])) /\ NewHeaders(l, b) = SubSeq(c, k + 1, n)
  BY <1>2
<1> DEFINE new == SubSeq(c, k + 1, n)
<1>4. /\ Len(new) = n - k /\ \A i \in 1 .. n - k : new[i] = c[k + i]
      /\ new \in Seq(Blocks) /\ (new = <<>> <=> n = k)
  <2>1. k + 1 \in Int /\ n \in Int /\ \A i \in k + 1 .. n : c[i] \in Blocks
    BY <1>1
  <2> HIDE DEF c, n
  <2>2. /\ new \in Seq(Blocks) /\ Len(new) = IF k + 1 <= n THEN n - (k + 1) + 1 ELSE 0
        /\ \A i \in 1 .. n - (k + 1) + 1 : new[i] = c[(k + 1) + i - 1]
    BY <2>1, SubSeqProperties
  <2>3. Len(new) = n - k /\ \A i \in 1 .. n - k : new[i] = c[k + i]
    <3>1. n \in Nat /\ k \in Nat /\ k <= n
      BY <1>1
    <3>2. Len(new) = n - k
      BY <2>2, <3>1
    <3>3. ASSUME NEW i \in 1 .. n - k PROVE new[i] = c[k + i]
      <4>1. i \in 1 .. n - (k + 1) + 1 /\ (k + 1) + i - 1 = k + i
        BY <3>1
      <4> QED BY <2>2, <4>1
    <3> QED BY <3>2, <3>3
  <2>4. new = <<>> <=> Len(new) = 0
    <3> HIDE DEF new
    <3> QED BY <2>2, EmptySeq
  <2>5. n - k = 0 <=> n = k
    BY <1>1
  <2> QED BY <2>2, <2>3, <2>4, <2>5
<1>5. CASE n = k
  <2>1. Part(b, k) = <<>>
    BY <1>1, <1>5 DEF Part
  <2> QED BY <1>3, <1>4, <1>5, <2>1
<1>6. CASE n # k
  <2> DEFINE base == IF Prev[new[1]] = Null THEN 0 ELSE l.heights[Prev[new[1]]] + 1
  <2>1. base = k
    <3>1. new[1] = c[k + 1] /\ k + 1 \in 1 .. n
      BY <1>1, <1>3, <1>4, <1>6
    <3>2. CASE k = 0
      BY <1>1, <3>1, <3>2
    <3>3. CASE k # 0
      <4>1. Prev[new[1]] = c[k] /\ c[k] \in Blocks /\ k \in 1 .. n
        BY <1>1, <1>3, <3>1, <3>3
      <4>2. Known(l, c[k]) /\ Len(Chain[c[k]]) = k
        BY <1>1, <1>3, <3>3, <4>1
      <4>3. l.heights[c[k]] = k - 1
        <5> HIDE DEF c
        <5> QED BY <4>1, <4>2, KnownInList
      <4> QED BY <4>1, <4>3, TreeAssumption
    <3> QED BY <3>2, <3>3
  <2>2. Ordered(l, new) = [i \in 1 .. Len(new) |-> [hash |-> new[i], height |-> base + i - 1]]
    BY DEF Ordered
  <2>3. Ordered(l, new) = [i \in 1 .. n - k |-> [hash |-> c[k + i], height |-> k + i - 1]]
    BY <1>4, <2>1, <2>2
  <2>4. Ordered(l, new) = Part(b, k)
    BY <2>3 DEF Part
  <2> QED BY <1>3, <1>4, <1>6, <2>4
<1> QED BY <1>5, <1>6

(* A part of a chain is a linked batch.                                    *)
LEMMA PartFacts ==
  ASSUME NEW b \in Blocks, NEW m \in 0 .. Len(Chain[b])
  PROVE  /\ Part(b, m) \in Seq([hash : Blocks, height : Nat])
         /\ Len(Part(b, m)) = Len(Chain[b]) - m /\ Len(Part(b, m)) \in Nat
         /\ \A i \in 1 .. Len(Part(b, m)) :
               /\ m + i \in 1 .. Len(Chain[b])
               /\ Part(b, m)[i].hash = Chain[b][m + i] /\ Part(b, m)[i].hash \in Blocks
               /\ Part(b, m)[i].height = m + i - 1
         /\ Part(b, m) = <<>> <=> m = Len(Chain[b])
         /\ Linked(Part(b, m))
<1> DEFINE n == Len(Chain[b]) - m
           p == Part(b, m)
<1>1. n \in Nat /\ m \in Nat /\ Len(Chain[b]) \in Nat /\ \A i \in 1 .. n : m + i \in 1 .. Len(Chain[b])
  BY ChainEnds
<1>2. \A i \in 1 .. n : Chain[b][m + i] \in Blocks
  BY <1>1, ChainEnds
<1>3. p = [i \in 1 .. n |-> [hash |-> Chain[b][m + i], height |-> m + i - 1]]
  BY DEF Part
<1>4. \A i \in 1 .. n : [hash |-> Chain[b][m + i], height |-> m + i - 1] \in [hash : Blocks, height : Nat]
  <2> SUFFICES ASSUME NEW i \in 1 .. n PROVE Chain[b][m + i] \in Blocks /\ m + i - 1 \in Nat
    OBVIOUS
  <2> QED BY <1>1, <1>2
<1>5. p \in Seq([hash : Blocks, height : Nat]) /\ Len(p) = n
  <2> HIDE DEF n, p
  <2> QED BY <1>1, <1>3, <1>4
<1>6. \A i \in 1 .. n : p[i].hash = Chain[b][m + i] /\ p[i].height = m + i - 1
  BY <1>3
<1>7. p = <<>> <=> m = Len(Chain[b])
  <2>1. p = <<>> <=> Len(p) = 0
    <3> HIDE DEF p
    <3> QED BY <1>5, EmptySeq
  <2> QED BY <1>1, <1>5, <2>1
<1>8. Linked(p)
  <2> SUFFICES ASSUME NEW i \in 2 .. n
               PROVE  p[i - 1].height + 1 = p[i].height /\ p[i - 1].hash = Prev[p[i].hash]
    BY <1>5 DEF Linked
  <2>1. i \in 1 .. n /\ i - 1 \in 1 .. n /\ m + (i - 1) = m + i - 1 /\ m + i # 1 /\ m + i \in 1 .. Len(Chain[b])
    BY <1>1
  <2>2. Prev[Chain[b][m + i]] = Chain[b][m + i - 1]
    BY <2>1, ChainPrefix
  <2>3. /\ p[i].hash = Chain[b][m + i] /\ p[i].height = m + i - 1
        /\ p[i - 1].hash = Chain[b][m + i - 1] /\ p[i - 1].height = m + (i - 1) - 1
    BY <1>6, <2>1
  <2>4. (m + (i - 1) - 1) + 1 = m + i - 1
    BY <1>1
  <2> QED BY <2>2, <2>3, <2>4
<1> QED BY <1>1, <1>2, <1>5, <1>6, <1>7, <1>8

(* A batch that attaches makes the list the chain of its last header; one  *)
(* that does not leaves it as it was.                                      *)
LEMMA AppliedIsChain ==
  ASSUME NEW l, GoodList(l), NEW b \in Blocks, NEW m \in 0 .. Len(Chain[b]), InBounds(l, Part(b, m))
  PROVE  /\ GoodList(Applied(l, Part(b, m)))
         /\ IF Attaches(l, Part(b, m)) THEN Tip(Applied(l, Part(b, m))) = b
            ELSE Applied(l, Part(b, m)) = l
<1> DEFINE c == Chain[b]
           n == Len(c)
           es == Part(b, m)
           new == Applied(l, es)
<1>1. /\ c \in Seq(Blocks) /\ n \in Nat \ {0} /\ c # <<>> /\ c[n] = b
      /\ \A i \in 1 .. n : c[i] \in Blocks /\ Len(Chain[c[i]]) = i
      /\ \A i \in 1 .. n : Prev[c[i]] = IF i = 1 THEN Null ELSE c[i - 1]
  BY ChainEnds, ChainPrefix
<1>2. /\ Len(es) = n - m /\ (es = <<>> <=> m = n)
      /\ \A i \in 1 .. n - m : es[i].hash = c[m + i] /\ es[i].height = m + i - 1
  BY PartFacts
<1>3. CASE ~Attaches(l, es)
  BY <1>3 DEF Applied
<1>4. CASE Attaches(l, es)
  <2> HIDE DEF es
  <2>1. m < n /\ 1 \in 1 .. n - m /\ es[1].hash = c[m + 1] /\ es[1].height = m /\ m <= Len(l.headers)
    <3>1. es # <<>> /\ es[1].height <= Len(l.headers)
      BY <1>4 DEF Attaches, InBounds, es
    <3>2. m < n /\ 1 \in 1 .. n - m
      BY <1>1, <1>2, <3>1
    <3>3. es[1].hash = c[m + 1] /\ es[1].height = m + 1 - 1
      BY <1>2, <3>2
    <3> QED BY <3>1, <3>2, <3>3
  <2>2. Len(l.headers) \in Nat /\ l.headers \in Seq(Blocks)
    BY LenProperties DEF GoodList
  <2>3. \A i \in 1 .. m : l.headers[i] = c[i]
    <3>1. CASE m = 0
      BY <3>1
    <3>2. CASE m # 0
      <4>1. l.headers[m] = c[m] /\ m \in 1 .. Len(l.headers)
        BY <1>1, <1>4, <2>1, <2>2, <3>2 DEF Attaches
      <4>2. l.headers # <<>> /\ Tip(l) \in Blocks /\ l.headers = Chain[Tip(l)]
        <5>1. l.headers # <<>>
          BY <2>2, <4>1, EmptySeq
        <5> QED BY <5>1, ListOnTip DEF GoodList
      <4>3. Chain[l.headers[m]] = SubSeq(l.headers, 1, m)
        BY <4>1, <4>2, ChainPrefix
      <4>4. Chain[c[m]] = SubSeq(c, 1, m)
        <5>1. m \in 1 .. n
          BY <1>1, <2>1, <3>2
        <5> QED BY <5>1, ChainPrefix
      <4>5. \A i \in 1 .. m : SubSeq(l.headers, 1, m)[i] = l.headers[i] /\ SubSeq(c, 1, m)[i] = c[i]
        BY <1>1, <2>1, <2>2, SubSeqProperties
      <4> QED BY <4>1, <4>3, <4>4, <4>5
    <3> QED BY <3>1, <3>2
  <2> DEFINE head == SubSeq(l.headers, 1, m)
             tail == [k \in 1 .. n - m |-> es[k].hash]
  <2>4. new.headers = head \o tail
    BY <1>2, <1>4, <2>1 DEF Applied
  <2>5. head \in Seq(Blocks) /\ Len(head) = m /\ \A i \in 1 .. m : head[i] = c[i]
    <3>1. \A i \in 1 .. m : l.headers[i] \in Blocks
      BY <1>1, <2>1, <2>3
    <3> QED BY <2>1, <2>3, <3>1, SubSeqProperties
  <2>6. tail \in Seq(Blocks) /\ Len(tail) = n - m /\ \A i \in 1 .. n - m : tail[i] = c[m + i]
    <3>1. n - m \in Nat /\ \A i \in 1 .. n - m : m + i \in 1 .. n
      BY <1>1, <2>1
    <3>2. tail = [k \in 1 .. n - m |-> c[m + k]]
      BY <1>2
    <3>3. \A k \in 1 .. n - m : c[m + k] \in Blocks
      BY <1>1, <3>1
    <3> HIDE DEF tail, n
    <3> QED BY <3>1, <3>2, <3>3
  <2> HIDE DEF head, tail
  <2>7. new.headers = c
    <3>1. /\ head \o tail \in Seq(Blocks) /\ Len(head \o tail) = n
          /\ \A i \in 1 .. n : (head \o tail)[i] = IF i <= m THEN head[i] ELSE tail[i - m]
      BY <1>1, <2>5, <2>6, ConcatProperties
    <3>2. \A i \in 1 .. n : (head \o tail)[i] = c[i]
      <4> SUFFICES ASSUME NEW i \in 1 .. n PROVE (head \o tail)[i] = c[i]
        OBVIOUS
      <4>1. CASE i <= m
        BY <2>1, <2>5, <3>1, <4>1
      <4>2. CASE ~(i <= m)
        <5>1. i - m \in 1 .. n - m /\ m + (i - m) = i
          BY <1>1, <2>1, <4>2
        <5> QED BY <2>6, <3>1, <4>2, <5>1
      <4> QED BY <4>1, <4>2
    <3>3. head \o tail = c
      <4> HIDE DEF c
      <4>1. c \in Seq(Blocks) /\ n = Len(c)
        BY <1>1
      <4> QED BY <3>1, <3>2, <4>1, SeqEqual
    <3> QED BY <2>4, <3>3
  <2>8. /\ new.heights \in [Blocks -> Nat \cup {Absent}]
        /\ \A x \in Blocks : new.heights[x] = IF \E k \in m + 1 .. n : x = c[k] THEN Len(Chain[x]) - 1 ELSE l.heights[x]
    <3>1. new.heights = [x \in Blocks |-> IF \E k \in 1 .. n - m : es[k].hash = x
                                          THEN es[CHOOSE k \in 1 .. n - m : es[k].hash = x].height
                                          ELSE l.heights[x]]
      BY <1>2, <1>4 DEF Applied
    <3>2. ASSUME NEW x \in Blocks
          PROVE  new.heights[x] = IF \E k \in m + 1 .. n : x = c[k] THEN Len(Chain[x]) - 1 ELSE l.heights[x]
      <4>1. CASE \E k \in 1 .. n - m : es[k].hash = x
        <5> DEFINE k == CHOOSE j \in 1 .. n - m : es[j].hash = x
        <5>1. k \in 1 .. n - m /\ es[k].hash = x
          BY <4>1
        <5>2. new.heights[x] = es[k].height
          BY <3>1, <4>1
        <5> HIDE DEF k
        <5>3. m + k \in m + 1 .. n /\ m + k \in 1 .. n /\ x = c[m + k] /\ es[k].height = m + k - 1
          <6>1. m + k \in m + 1 .. n /\ m + k \in 1 .. n
            BY <1>1, <2>1, <5>1
          <6>2. es[k].hash = c[m + k] /\ es[k].height = m + k - 1
            BY <1>2, <5>1
          <6> QED BY <5>1, <6>1, <6>2
        <5>4. Len(Chain[x]) = m + k
          BY <1>1, <5>3
        <5>5. \E j \in m + 1 .. n : x = c[j]
          BY <5>3
        <5>6. new.heights[x] = Len(Chain[x]) - 1
          BY <1>1, <5>1, <5>2, <5>3, <5>4
        <5> HIDE DEF new
        <5> QED BY <5>5, <5>6
      <4>2. CASE ~ \E k \in 1 .. n - m : es[k].hash = x
        <5>1. ASSUME NEW k \in m + 1 .. n, x = c[k] PROVE FALSE
          <6>1. k - m \in 1 .. n - m /\ m + (k - m) = k
            BY <1>1, <2>1
          <6> QED BY <1>2, <4>2, <5>1, <6>1
        <5> QED BY <3>1, <4>2, <5>1
      <4> QED BY <4>1, <4>2
    <3>3. \A x \in Blocks : Len(Chain[x]) - 1 \in Nat /\ l.heights[x] \in Nat \cup {Absent}
      BY ChainEnds DEF GoodList
    <3>4. new.heights = [x \in Blocks |-> new.heights[x]]
      BY <3>1
    <3> QED BY <3>2, <3>3, <3>4
  <2>9. new = [headers |-> new.headers, heights |-> new.heights]
    BY <1>4 DEF Applied
  <2> HIDE DEF new
  <2>10. Tip(new) = b
    BY <1>1, <2>7 DEF Tip
  <2>11. \A i \in 1 .. n : new.heights[c[i]] = i - 1
    <3> SUFFICES ASSUME NEW i \in 1 .. n PROVE new.heights[c[i]] = i - 1
      OBVIOUS
    <3>1. c[i] \in Blocks /\ Len(Chain[c[i]]) = i
      BY <1>1
    <3>2. CASE i > m
      <4>1. i \in m + 1 .. n
        BY <1>1, <2>1, <3>2
      <4> QED BY <2>8, <3>1, <4>1
    <3>3. CASE i <= m
      <4>1. i \in 1 .. Len(l.headers) /\ l.headers[i] = c[i]
        BY <1>1, <2>1, <2>2, <2>3, <3>3
      <4>2. l.heights[c[i]] = i - 1
        BY <4>1 DEF GoodList
      <4> QED BY <2>8, <3>1, <4>2
    <3> QED BY <1>1, <2>1, <3>2, <3>3
  <2>12. \A x \in Blocks : new.heights[x] \in {Absent, Len(Chain[x]) - 1}
    BY <2>8 DEF GoodList
  <2>13. GoodList(new)
    BY <1>1, <2>7, <2>8, <2>9, <2>10, <2>11, <2>12 DEF GoodList
  <2> QED BY <1>4, <2>10, <2>13 DEF new, es
<1> QED BY <1>3, <1>4

(* What Store::open and reload_store build from a chain on disk is the     *)
(* chain.                                                                  *)
LEMMA LoadedIsChain ==
  ASSUME NEW tip \in Blocks \cup {Null}
  PROVE  GoodList(Loaded(tip)) /\ Tip(Loaded(tip)) = tip
<1>1. CASE tip = Null
  BY <1>1, GoodEmpty DEF Loaded
<1>2. CASE tip # Null
  <2>1. /\ tip \in Blocks /\ Len(Chain[tip]) \in Nat \ {0} /\ Chain[tip] # <<>>
        /\ Prev[Chain[tip][1]] = Null
    BY <1>2, ChainEnds, ChainPrefix
  <2>2. Ordered(Empty, Chain[tip]) = [k \in 1 .. Len(Chain[tip]) |-> [hash |-> Chain[tip][k], height |-> 0 + k - 1]]
    BY <2>1 DEF Ordered
  <2>3. Part(tip, 0) = [k \in 1 .. Len(Chain[tip]) |-> [hash |-> Chain[tip][k], height |-> 0 + k - 1]]
    BY <2>1 DEF Part
  <2>4. Loaded(tip) = Applied(Empty, Part(tip, 0)) /\ 0 \in 0 .. Len(Chain[tip])
    BY <1>2, <2>1, <2>2, <2>3 DEF Loaded
  <2>5. /\ Part(tip, 0) # <<>> /\ Part(tip, 0)[1].hash = Chain[tip][1] /\ Part(tip, 0)[1].height = 0
    BY <2>1, <2>4, PartFacts
  <2>6. Len(Empty.headers) = 0
    BY EmptySeq DEF Empty
  <2>7. InBounds(Empty, Part(tip, 0)) /\ Attaches(Empty, Part(tip, 0))
    BY <2>1, <2>5, <2>6 DEF InBounds, Attaches
  <2> QED BY <2>1, <2>4, <2>7, GoodEmpty, AppliedIsChain
<1> QED BY <1>1, <1>2
===============================================================================
