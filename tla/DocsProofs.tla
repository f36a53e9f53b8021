----------------------------- MODULE DocsProofs -----------------------------
(***************************************************************************)
(* Theorems about the documents, of every size and with every name.  The   *)
(* current path of a document of lists stays on the nodes that its names   *)
(* lead to, and the document keeps the shape that the server demands; the  *)
(* rules of a document of rules stay well-formed and in the order of the   *)
(* schema; the elements of a tree of nodes keep their only owner; and      *)
(* messages fit the room reserved for them and are read as written.        *)
(***************************************************************************)
EXTENDS Docs, FiniteSetTheorems, SequenceTheorems, WellFoundedInduction, TLAPS

-----------------------------------------------------------------------------
(* Numbers, and functions that are defined by what they are one step       *)
(* before.                                                                 *)

LEMMA LeastOf ==
  ASSUME NEW S \in SUBSET Nat, S # {}
  PROVE  \E m \in S : \A n \in S : m <= n
<1>1. PICK m \in S : \A n \in S : <<n, m>> \notin OpToRel(<, Nat)
  BY WFMin, NatLessThanWellFounded
<1>2. \A n \in S : ~(n < m)
  BY <1>1 DEF OpToRel
<1>3. QED
  BY <1>2

Iterates(f, T, a, N, G) ==
  /\ f \in [0..N -> T] /\ f[0] = a
  /\ \A i \in 1..N : f[i] = G[<<i, f[i - 1]>>]

LEMMA Iterated ==
  ASSUME NEW T, NEW a \in T, NEW N \in Nat, NEW G \in [(1..N) \X T -> T]
  PROVE  \E f : Iterates(f, T, a, N, G)
<1> DEFINE E(f, k) == /\ f \in [0..k -> T]
                      /\ f = [i \in 0..k |-> IF i = 0 THEN a ELSE G[<<i, f[i - 1]>>]]
           Bad == {k \in 0..N : ~\E f : E(f, k)}
<1>1. Bad = {}
  <2>1. SUFFICES ASSUME Bad # {} PROVE FALSE
    OBVIOUS
  <2>0. Bad \in SUBSET Nat
    OBVIOUS
  <2>2. PICK k \in Bad : \A n \in Bad : k <= n
    <3> HIDE DEF Bad
    <3>1. QED
      BY <2>0, <2>1, LeastOf
  <2>3. k # 0
    <3>1. E([i \in 0..0 |-> a], 0)
      OBVIOUS
    <3>2. QED
      BY <2>2, <3>1
  <2>4. k \in 1..N /\ k - 1 \in 0..N
    BY <2>2, <2>3
  <2>5. k - 1 \notin Bad
    <3>1. ~(k <= k - 1)
      BY <2>4
    <3> HIDE DEF Bad
    <3>2. QED
      BY <2>2, <3>1
  <2>6. PICK f : E(f, k - 1)
    BY <2>4, <2>5
  <2> DEFINE g == [i \in 0..k |-> IF i = k THEN G[<<k, f[k - 1]>>] ELSE f[i]]
  <2>7. G[<<k, f[k - 1]>>] \in T
    BY <2>4, <2>6
  <2>8. g \in [0..k -> T]
    <3>1. \A i \in 0..k : i # k => i \in 0..(k - 1)
      BY <2>4
    <3>2. QED
      BY <2>6, <2>7, <3>1
  <2>9. ASSUME NEW i \in 0..k
        PROVE  g[i] = IF i = 0 THEN a ELSE G[<<i, g[i - 1]>>]
    <3>1. CASE i = k
      <4>1. k - 1 \in 0..k /\ k - 1 # k /\ k # 0
        BY <2>4
      <4>2. g[k - 1] = f[k - 1]
        BY <4>1
      <4>3. QED
        BY <3>1, <4>1, <4>2
    <3>2. CASE i # k
      <4>1. i \in 0..(k - 1) /\ g[i] = f[i]
        BY <2>4, <3>2
      <4>2. f[i] = IF i = 0 THEN a ELSE G[<<i, f[i - 1]>>]
        BY <2>6, <4>1
      <4>3. i # 0 => i - 1 \in 0..k /\ i - 1 # k
        BY <2>4, <4>1
      <4>4. i # 0 => g[i - 1] = f[i - 1]
        BY <4>3
      <4>5. QED
        BY <4>1, <4>2, <4>4
    <3>3. QED
      BY <3>1, <3>2
  <2>10. g = [i \in 0..k |-> IF i = 0 THEN a ELSE G[<<i, g[i - 1]>>]]
    <3>1. g = [i \in 0..k |-> g[i]]
      OBVIOUS
    <3> HIDE DEF g
    <3>2. QED
      BY <2>9, <3>1
  <2>11. E(g, k)
    BY <2>8, <2>10
  <2> HIDE DEF g
  <2>12. QED
    BY <2>2, <2>11
<1>2. N \notin Bad /\ N \in 0..N
  BY <1>1
<1>3. PICK f : E(f, N)
  BY <1>2
<1>4. f[0] = a /\ \A i \in 1..N : f[i] = G[<<i, f[i - 1]>>]
  <2>1. 0 \in 0..N /\ \A i \in 1..N : i \in 0..N /\ i # 0
    OBVIOUS
  <2>2. QED
    BY <1>3, <2>1
<1>5. QED
  BY <1>3, <1>4 DEF Iterates

-----------------------------------------------------------------------------
(* A sequence without the elements of a set. *)
Rests(f, s, T, S) ==
  /\ f \in [0..Len(s) -> Seq(S)] /\ f[0] = <<>>
  /\ \A i \in 1..Len(s) :
       f[i] = IF s[i] \in T THEN f[i - 1] ELSE Append(f[i - 1], s[i])

LEMMA WithoutUnfolds ==
  ASSUME NEW S, NEW s \in Seq(S), NEW T
  PROVE  \E f : Rests(f, s, T, S) /\ Without(s, T) = f[Len(s)]
<1> DEFINE Rec(f) == f = [i \in 0..Len(s) |->
                      IF i = 0 THEN <<>>
                      ELSE IF s[i] \in T THEN f[i - 1] ELSE Append(f[i - 1], s[i])]
           G == [p \in (1..Len(s)) \X Seq(S) |->
                      IF s[p[1]] \in T THEN p[2] ELSE Append(p[2], s[p[1]])]
           h == CHOOSE f : Rec(f)
<1>1. G \in [(1..Len(s)) \X Seq(S) -> Seq(S)]
  <2>1. ASSUME NEW p \in (1..Len(s)) \X Seq(S)
        PROVE  (IF s[p[1]] \in T THEN p[2] ELSE Append(p[2], s[p[1]])) \in Seq(S)
    <3>1. s[p[1]] \in S /\ p[2] \in Seq(S)
      BY ElementOfSeq
    <3>2. QED
      BY <3>1, AppendProperties
  <2>2. QED
    BY <2>1
<1>2. <<>> \in Seq(S) /\ Len(s) \in Nat
  BY EmptySeq, LenProperties
<1> HIDE DEF G
<1>3. PICK f : Iterates(f, Seq(S), <<>>, Len(s), G)
  BY <1>1, <1>2, Iterated
<1>30. /\ f \in [0..Len(s) -> Seq(S)] /\ f[0] = <<>>
       /\ \A i \in 1..Len(s) : f[i] = G[<<i, f[i - 1]>>]
  BY <1>3 DEF Iterates
<1>4. ASSUME NEW g, Rec(g) PROVE g = f
  <2> DEFINE Off == {i \in 0..Len(s) : g[i] # f[i]}
  <2>1. Off = {}
    <3>1. SUFFICES ASSUME Off # {} PROVE FALSE
      OBVIOUS
    <3>0. Off \in SUBSET Nat
      BY <1>2
    <3>2. PICK k \in Off : \A n \in Off : k <= n
      <4> HIDE DEF Off
      <4>1. QED
        BY <3>0, <3>1, LeastOf
    <3>3. k # 0
      BY <1>2, <1>30, <1>4, <3>2
    <3>4. k \in 1..Len(s) /\ k - 1 \in 0..Len(s) /\ k - 1 \notin Off
      BY <1>2, <3>2, <3>3
    <3>5. g[k - 1] = f[k - 1] /\ f[k - 1] \in Seq(S)
      BY <1>30, <3>4
    <3>6. f[k] = G[<<k, f[k - 1]>>]
      BY <1>30, <3>3, <3>4
    <3>7. G[<<k, f[k - 1]>>] = IF s[k] \in T THEN f[k - 1] ELSE Append(f[k - 1], s[k])
      BY <3>4, <3>5 DEF G
    <3>8. g[k] = IF s[k] \in T THEN g[k - 1] ELSE Append(g[k - 1], s[k])
      BY <1>4, <3>3, <3>4
    <3>9. QED
      BY <3>2, <3>5, <3>6, <3>7, <3>8
  <2>2. g = [i \in 0..Len(s) |-> g[i]] /\ f = [i \in 0..Len(s) |-> f[i]]
    BY <1>30, <1>4
  <2>3. \A i \in 0..Len(s) : g[i] = f[i]
    BY <2>1
  <2>4. QED
    BY <2>2, <2>3
<1>5. Rec(f)
  <2>1. ASSUME NEW i \in 0..Len(s), i # 0
        PROVE  G[<<i, f[i - 1]>>] = IF s[i] \in T THEN f[i - 1] ELSE Append(f[i - 1], s[i])
    <3>1. i \in 1..Len(s) /\ i - 1 \in 0..Len(s)
      BY <1>2, <2>1
    <3>2. f[i - 1] \in Seq(S)
      BY <1>30, <3>1
    <3>3. QED
      BY <3>1, <3>2 DEF G
  <2>2. QED
    <3>1. f = [i \in 0..Len(s) |-> f[i]]
      BY <1>30
    <3>2. \A i \in 0..Len(s) : i # 0 => i \in 1..Len(s)
      BY <1>2
    <3>3. \A i \in 0..Len(s) : f[i] =
             IF i = 0 THEN <<>>
             ELSE IF s[i] \in T THEN f[i - 1] ELSE Append(f[i - 1], s[i])
      BY <1>30, <2>1, <3>2
    <3>4. QED
      BY <3>1, <3>3
<1>6. Rec(h)
  BY <1>5
<1>7. Without(s, T) = h[Len(s)]
  BY DEF Without
<1> HIDE DEF h
<1>8. h = f
  BY <1>4, <1>6
<1>9. \A i \in 1..Len(s) : i \in 0..Len(s) /\ i # 0
  BY <1>2
<1>10. f[0] = <<>>
  BY <1>2, <1>30
<1>11. \A i \in 1..Len(s) :
         f[i] = IF s[i] \in T THEN f[i - 1] ELSE Append(f[i - 1], s[i])
  <2>1. \A i \in 0..Len(s) : i # 0 =>
         f[i] = IF s[i] \in T THEN f[i - 1] ELSE Append(f[i - 1], s[i])
    BY <1>5
  <2>2. QED
    BY <1>9, <2>1
<1>12. QED
  BY <1>30, <1>7, <1>8, <1>10, <1>11 DEF Rests

LEMMA RangeOfAppend ==
  ASSUME NEW S, NEW q \in Seq(S), NEW e \in S
  PROVE  Range(Append(q, e)) = Range(q) \cup {e}
<1>1. /\ Append(q, e) \in Seq(S) /\ Len(Append(q, e)) = Len(q) + 1 /\ Len(q) \in Nat
      /\ \A i \in 1..Len(q) : Append(q, e)[i] = q[i]
      /\ Append(q, e)[Len(q) + 1] = e
  BY AppendProperties, LenProperties
<1>2. DOMAIN q = 1..Len(q) /\ DOMAIN Append(q, e) = 1..(Len(q) + 1)
  BY <1>1, LenProperties
<1>3. 1..(Len(q) + 1) = (1..Len(q)) \cup {Len(q) + 1}
  BY <1>1
<1> DEFINE a == Append(q, e)
<1> HIDE DEF a
<1>4. Range(a) = {a[i] : i \in 1..Len(q)} \cup {a[Len(q) + 1]}
  BY <1>2, <1>3 DEF Range, a
<1>5. {a[i] : i \in 1..Len(q)} = Range(q)
  BY <1>1, <1>2 DEF Range, a
<1>6. QED
  BY <1>1, <1>4, <1>5 DEF a

(* What is left of a sequence: its elements, its first and its last one.   *)
Left(r, s, T, k) ==
  /\ Range(r) = {s[i] : i \in 1..k} \ T
  /\ k >= 1 /\ s[1] \notin T => r # <<>> /\ r[1] = s[1]
  /\ Len(r) <= k

LEMMA WithoutFacts ==
  ASSUME NEW S, NEW s \in Seq(S), NEW T
  PROVE  /\ Without(s, T) \in Seq(S)
         /\ Range(Without(s, T)) = Range(s) \ T
         /\ s # <<>> /\ s[1] \notin T =>
              Without(s, T) # <<>> /\ Without(s, T)[1] = s[1]
         /\ s # <<>> /\ s[Len(s)] \notin T =>
              /\ Without(s, T) # <<>>
              /\ Without(s, T)[Len(Without(s, T))] = s[Len(s)]
         /\ Len(Without(s, T)) <= Len(s)
<1>0. PICK f : Rests(f, s, T, S) /\ Without(s, T) = f[Len(s)]
  BY WithoutUnfolds
<1>1. /\ f \in [0..Len(s) -> Seq(S)] /\ f[0] = <<>> /\ Without(s, T) = f[Len(s)]
      /\ \A i \in 1..Len(s) :
            f[i] = IF s[i] \in T THEN f[i - 1] ELSE Append(f[i - 1], s[i])
  BY <1>0 DEF Rests
<1>2. Len(s) \in Nat /\ DOMAIN s = 1..Len(s) /\ \A i \in 1..Len(s) : s[i] \in S
  BY LenProperties, ElementOfSeq
<1> DEFINE Off == {k \in 0..Len(s) : ~Left(f[k], s, T, k)}
<1>3. Off = {}
  <2>1. SUFFICES ASSUME Off # {} PROVE FALSE
    OBVIOUS
  <2>2. Off \in SUBSET Nat
    BY <1>2
  <2>3. PICK k \in Off : \A n \in Off : k <= n
    <3> HIDE DEF Off
    <3>1. QED
      BY <2>1, <2>2, LeastOf
  <2>4. k # 0
    <3>1. Left(<<>>, s, T, 0)
      <4>1. 1..0 = {} /\ Range(<<>>) = {}
        BY DEF Range
      <4>2. {s[i] : i \in 1..0} = {}
        BY <4>1
      <4>3. QED
        BY <4>1, <4>2 DEF Left
    <3>2. QED
      BY <1>1, <2>3, <3>1
  <2>5. k \in 1..Len(s) /\ k - 1 \in 0..Len(s) /\ k - 1 \notin Off
    BY <1>2, <2>3, <2>4
  <2> DEFINE r == f[k - 1]
  <2>6. r \in Seq(S) /\ Left(r, s, T, k - 1)
    BY <1>1, <2>5
  <2>7. f[k] = IF s[k] \in T THEN r ELSE Append(r, s[k])
    BY <1>1, <2>5
  <2>8. s[k] \in S
    BY <1>2, <2>5
  <2> HIDE DEF r
  <2>9. {s[i] : i \in 1..k} = {s[i] : i \in 1..(k - 1)} \cup {s[k]}
    <3>1. 1..k = (1..(k - 1)) \cup {k}
      BY <2>5
    <3>2. QED
      BY <3>1
  <2>10. Len(r) \in Nat /\ (r = <<>> <=> Len(r) = 0)
    BY <2>6, LenProperties, EmptySeq
  <2>11. CASE s[k] \in T
    <3>1. Range(f[k]) = {s[i] : i \in 1..k} \ T
      BY <2>6, <2>7, <2>9, <2>11 DEF Left
    <3>2. k >= 1 /\ s[1] \notin T => k - 1 >= 1
      BY <2>5, <2>11
    <3>3. Left(f[k], s, T, k)
      BY <2>5, <2>6, <2>7, <2>10, <2>11, <3>1, <3>2 DEF Left
    <3>4. QED
      BY <2>3, <3>3
  <2>12. CASE s[k] \notin T
    <3> DEFINE a == Append(r, s[k])
    <3>1. /\ a \in Seq(S) /\ Len(a) = Len(r) + 1
          /\ \A i \in 1..Len(r) : a[i] = r[i]
          /\ a[Len(r) + 1] = s[k]
      BY <2>6, <2>8, AppendProperties
    <3>2. Range(a) = Range(r) \cup {s[k]}
      BY <2>6, <2>8, RangeOfAppend
    <3> HIDE DEF a
    <3>3. Range(a) = {s[i] : i \in 1..k} \ T
      BY <2>6, <2>9, <2>12, <3>2 DEF Left
    <3>4. a # <<>>
      BY <2>10, <3>1
    <3>5. ASSUME s[1] \notin T PROVE a[1] = s[1]
      <4>1. CASE k = 1
        <5>1. Len(r) = 0
          BY <2>6, <2>10, <4>1 DEF Left
        <5>2. QED
          BY <3>1, <4>1, <5>1
      <4>2. CASE k # 1
        <5>1. k - 1 >= 1
          BY <2>5, <4>2
        <5>2. r # <<>> /\ r[1] = s[1]
          BY <2>6, <3>5, <5>1 DEF Left
        <5>3. 1 \in 1..Len(r)
          BY <2>10, <5>2
        <5>4. QED
          BY <3>1, <5>2, <5>3
      <4>3. QED
        BY <4>1, <4>2
    <3>6. Len(a) <= k
      BY <2>5, <2>6, <2>10, <3>1 DEF Left
    <3>7. Left(a, s, T, k)
      BY <3>3, <3>4, <3>5, <3>6 DEF Left
    <3>8. QED
      BY <2>3, <2>7, <2>12, <3>7 DEF a
  <2>13. QED
    BY <2>11, <2>12
<1>4. Left(Without(s, T), s, T, Len(s))
  BY <1>1, <1>2, <1>3
<1>5. Without(s, T) \in Seq(S)
  BY <1>1, <1>2
<1>6. Range(Without(s, T)) = Range(s) \ T /\ Len(Without(s, T)) <= Len(s)
  BY <1>2, <1>4 DEF Left, Range
<1>7. s # <<>> => Len(s) >= 1
  BY <1>2, EmptySeq
<1>8. ASSUME s # <<>>, s[Len(s)] \notin T
      PROVE  /\ Without(s, T) # <<>>
             /\ Without(s, T)[Len(Without(s, T))] = s[Len(s)]
  <2> DEFINE r == f[Len(s) - 1]
  <2>1. Len(s) \in 1..Len(s) /\ Len(s) - 1 \in 0..Len(s)
    BY <1>2, <1>7, <1>8
  <2>2. r \in Seq(S) /\ s[Len(s)] \in S /\ Without(s, T) = Append(r, s[Len(s)])
    BY <1>1, <1>2, <1>8, <2>1
  <2> HIDE DEF r
  <2>3. /\ Len(Append(r, s[Len(s)])) = Len(r) + 1
        /\ Append(r, s[Len(s)])[Len(r) + 1] = s[Len(s)]
        /\ Len(r) \in Nat
    BY <2>2, AppendProperties, LenProperties
  <2>4. QED
    BY <2>2, <2>3
<1>9. QED
  BY <1>4, <1>5, <1>6, <1>7, <1>8 DEF Left

-----------------------------------------------------------------------------
(* The nodes of a document.  A node has one parent, what is gone is below  *)
(* nothing and has nothing below it.                                       *)

All0 == Nodes \cup {Root}

Tree(d) ==
  /\ d \in [All0 -> Node]
  /\ d[Root].kind = "root" /\ \A n \in Nodes : d[n].kind # "root"
  /\ \A n \in All0 : \A m \in Kids(d, n) : d[m].kind # "gone"
  /\ \A n, p \in All0 : \A m \in Nodes : m \in Kids(d, n) /\ m \in Kids(d, p) => n = p
  /\ \A n \in All0 : d[n].kind = "gone" => d[n].kids = <<>>

LEMMA NodesAre ==
  /\ Nodes \subseteq Nat /\ Root \notin Nodes /\ All0 \subseteq Nat
  /\ 1 \in Nodes /\ 2 \in Nodes /\ 3 \in Nodes /\ MaxNodes \in Nat
BY MaxNodesAssumption DEF Nodes, Root, All0

LEMMA KidsAre ==
  ASSUME NEW d \in [All0 -> Node], NEW n \in All0
  PROVE  /\ d[n].kids \in Seq(Nodes) /\ Kids(d, n) \subseteq Nodes
         /\ Kids(d, n) = Range(d[n].kids)
<1>1. d[n].kids \in Seq(Nodes)
  BY DEF Node
<1>2. QED
  BY <1>1, RangeOfSeq DEF Kids

(* Whatever is below a node has its parent there, too.                     *)
Climbs(d, n, S) ==
  /\ S \subseteq Nodes
  /\ \A m \in S : \E p \in S \cup {n} : m \in Kids(d, p)

LEMMA UnderClimbs ==
  ASSUME NEW d \in [All0 -> Node], NEW n \in All0
  PROVE  Climbs(d, n, Under(d, n))
<1> DEFINE Rec(f) == f = [i \in 0..MaxNodes |->
                      IF i = 0 THEN Kids(d, n)
                      ELSE f[i - 1] \cup UNION {Kids(d, m) : m \in f[i - 1]}]
           More(X) == X \cup UNION {Kids(d, m) : m \in X}
           G == [p \in (1..MaxNodes) \X SUBSET Nodes |-> More(p[2])]
           h == CHOOSE f : Rec(f)
<1>1. \A m \in All0 : Kids(d, m) \subseteq Nodes
  BY KidsAre
<1>2. \A X \in SUBSET Nodes : More(X) \in SUBSET Nodes
  BY <1>1 DEF All0
<1>3. G \in [(1..MaxNodes) \X SUBSET Nodes -> SUBSET Nodes]
  BY <1>2
<1>4. Kids(d, n) \in SUBSET Nodes /\ MaxNodes \in Nat
  BY <1>1, MaxNodesAssumption
<1> HIDE DEF G, More
<1>5. PICK f : Iterates(f, SUBSET Nodes, Kids(d, n), MaxNodes, G)
  BY <1>3, <1>4, Iterated
<1>6. /\ f \in [0..MaxNodes -> SUBSET Nodes] /\ f[0] = Kids(d, n)
      /\ \A i \in 1..MaxNodes : f[i] = G[<<i, f[i - 1]>>]
  BY <1>5 DEF Iterates
<1>7. ASSUME NEW i \in 1..MaxNodes
      PROVE  f[i] = More(f[i - 1])
  <2>1. i - 1 \in 0..MaxNodes
    BY <1>4
  <2>2. <<i, f[i - 1]>> \in (1..MaxNodes) \X SUBSET Nodes
    BY <1>6, <2>1
  <2>3. QED
    BY <1>6, <2>2 DEF G
<1>8. Rec(f)
  <2>1. f = [i \in 0..MaxNodes |-> f[i]]
    BY <1>6
  <2>2. \A i \in 0..MaxNodes : i # 0 => i \in 1..MaxNodes
    BY <1>4
  <2>3. \A i \in 0..MaxNodes : f[i] = IF i = 0 THEN Kids(d, n)
           ELSE f[i - 1] \cup UNION {Kids(d, m) : m \in f[i - 1]}
    BY <1>6, <1>7, <2>2 DEF More
  <2>4. QED
    BY <2>1, <2>3
<1>9. Rec(h)
  BY <1>8
<1>10. Under(d, n) = h[MaxNodes]
  BY DEF Under
<1> HIDE DEF h
<1>11. /\ h[0] = Kids(d, n)
       /\ \A i \in 1..MaxNodes : h[i] = More(h[i - 1])
  <2>1. \A i \in 1..MaxNodes : i \in 0..MaxNodes /\ i # 0
    BY <1>4
  <2>2. 0 \in 0..MaxNodes
    BY <1>4
  <2>3. QED
    BY <1>9, <2>1, <2>2 DEF More
<1> DEFINE Off == {k \in 0..MaxNodes : ~Climbs(d, n, h[k])}
<1>12. Off = {}
  <2>1. SUFFICES ASSUME Off # {} PROVE FALSE
    OBVIOUS
  <2>2. Off \in SUBSET Nat
    BY <1>4
  <2>3. PICK k \in Off : \A i \in Off : k <= i
    <3> HIDE DEF Off
    <3>1. QED
      BY <2>1, <2>2, LeastOf
  <2>4. k # 0
    <3>1. Climbs(d, n, Kids(d, n))
      BY <1>4 DEF Climbs
    <3>2. QED
      BY <1>11, <2>3, <3>1
  <2>5. k \in 1..MaxNodes /\ k - 1 \in 0..MaxNodes /\ k - 1 \notin Off
    BY <1>4, <2>3, <2>4
  <2>6. h[k] = More(h[k - 1]) /\ Climbs(d, n, h[k - 1])
    BY <1>11, <2>5
  <2> DEFINE X == h[k - 1]
  <2> HIDE DEF X
  <2>7. Climbs(d, n, More(X))
    <3>1. Climbs(d, n, X)
      BY <2>6 DEF X
    <3>2. X \subseteq More(X) /\ More(X) \subseteq Nodes
      BY <1>2, <3>1 DEF Climbs, More
    <3>3. ASSUME NEW m \in More(X) PROVE \E p \in More(X) \cup {n} : m \in Kids(d, p)
      BY <3>1, <3>2, <3>3 DEF Climbs, More
    <3>4. QED
      BY <3>2, <3>3 DEF Climbs
  <2>8. QED
    BY <2>3, <2>6, <2>7 DEF X
<1>13. MaxNodes \in 0..MaxNodes
  BY <1>4
<1>14. QED
  BY <1>10, <1>12, <1>13

(* What a removal of nodes takes away with them.                           *)
Lost(d, ns) == ns \cup UNION {Under(d, n) : n \in ns}

LEMMA LostClimbs ==
  ASSUME NEW d \in [All0 -> Node], NEW ns \in SUBSET Nodes
  PROVE  /\ Lost(d, ns) \subseteq Nodes /\ ns \subseteq Lost(d, ns)
         /\ \A m \in Lost(d, ns) \ ns : \E p \in Lost(d, ns) : m \in Kids(d, p)
<1>1. \A n \in ns : Climbs(d, n, Under(d, n))
  BY UnderClimbs DEF All0
<1>2. Lost(d, ns) \subseteq Nodes /\ ns \subseteq Lost(d, ns)
  BY <1>1 DEF Lost, Climbs
<1>3. ASSUME NEW m \in Lost(d, ns) \ ns PROVE \E p \in Lost(d, ns) : m \in Kids(d, p)
  <2>1. PICK n \in ns : m \in Under(d, n)
    BY <1>3 DEF Lost
  <2>2. PICK p \in Under(d, n) \cup {n} : m \in Kids(d, p)
    BY <1>1, <2>1 DEF Climbs
  <2>3. p \in Lost(d, ns)
    BY <2>2 DEF Lost
  <2>4. QED
    BY <2>2, <2>3
<1>4. QED
  BY <1>2, <1>3

-----------------------------------------------------------------------------
(* Removing nodes. *)

Pruned(d, ns, e) ==
  /\ Tree(e)
  /\ \A m \in Lost(d, ns) : e[m] = Gone
  /\ \A m \in All0 \ Lost(d, ns) :
       /\ e[m].kind = d[m].kind /\ e[m].key = d[m].key
       /\ e[m].kids = Without(d[m].kids, ns)
       /\ Kids(e, m) = Kids(d, m) \ ns
       /\ Kids(e, m) \cap Lost(d, ns) = {}

LEMMA GoneIs ==
  /\ Gone \in Node /\ Gone.kind = "gone" /\ Gone.kids = <<>> /\ Gone.key = ""
  /\ \A d : \A m : d[m] = Gone => Kids(d, m) = {}
<1>1. <<>> \in Seq(Nodes)
  BY EmptySeq
<1>2. Gone \in Node
  BY <1>1 DEF Gone, Node, Keys
<1>3. Range(<<>>) = {}
  BY DEF Range
<1>4. Gone.kind = "gone" /\ Gone.kids = <<>> /\ Gone.key = ""
  BY DEF Gone
<1>5. ASSUME NEW d, NEW m, d[m] = Gone PROVE Kids(d, m) = {}
  <2>1. d[m].kids = <<>>
    BY <1>4, <1>5
  <2>2. QED
    BY <1>3, <2>1 DEF Kids
<1>6. QED
  BY <1>2, <1>4, <1>5

LEMMA NodeKids ==
  ASSUME NEW r \in Node, NEW q \in Seq(Nodes), NEW x, x = [r EXCEPT !.kids = q]
  PROVE  x \in Node /\ x.kind = r.kind /\ x.key = r.key /\ x.kids = q
BY DEF Node

LEMMA NodeKey ==
  ASSUME NEW r \in Node, NEW k \in Keys, NEW x, x = [r EXCEPT !.key = k]
  PROVE  x \in Node /\ x.kind = r.kind /\ x.key = k /\ x.kids = r.kids
BY DEF Node

LEMMA PruneFacts ==
  ASSUME NEW d, Tree(d), NEW ns \in SUBSET Nodes
  PROVE  Pruned(d, ns, Prune(d, ns)) /\ Root \notin Lost(d, ns)
<1> DEFINE lost == Lost(d, ns)
           e == Prune(d, ns)
<1>1. d \in [All0 -> Node]
  BY DEF Tree
<1>2. /\ lost \subseteq Nodes /\ ns \subseteq lost /\ Root \notin lost
      /\ \A m \in lost \ ns : \E p \in lost : m \in Kids(d, p)
  BY <1>1, LostClimbs, NodesAre
<1>3. e = [m \in All0 |-> IF m \in lost THEN Gone ELSE [d[m] EXCEPT !.kids = Without(@, ns)]]
  BY <1>1 DEF Prune, Lost
<1> HIDE DEF lost, e
<1>4. ASSUME NEW m \in All0
      PROVE  /\ Without(d[m].kids, ns) \in Seq(Nodes)
             /\ Range(Without(d[m].kids, ns)) = Kids(d, m) \ ns
             /\ d[m] \in Node
  <2>1. d[m].kids \in Seq(Nodes) /\ Kids(d, m) = Range(d[m].kids)
    BY <1>1, KidsAre
  <2>2. QED
    BY <1>1, <2>1, WithoutFacts
<1>5. ASSUME NEW m \in lost PROVE m \in All0 /\ e[m] = Gone /\ Kids(e, m) = {}
  BY <1>2, <1>3, GoneIs DEF All0
<1>6. ASSUME NEW m \in All0 \ lost
      PROVE  /\ e[m] \in Node
             /\ e[m].kind = d[m].kind /\ e[m].key = d[m].key
             /\ e[m].kids = Without(d[m].kids, ns)
             /\ Kids(e, m) = Kids(d, m) \ ns
  <2> DEFINE q == Without(d[m].kids, ns)
  <2>1. q \in Seq(Nodes) /\ d[m] \in Node /\ Range(q) = Kids(d, m) \ ns
    BY <1>4
  <2>2. e[m] = [d[m] EXCEPT !.kids = q]
    BY <1>3
  <2> HIDE DEF q
  <2>3. e[m] \in Node /\ e[m].kind = d[m].kind /\ e[m].key = d[m].key /\ e[m].kids = q
    BY <2>1, <2>2, NodeKids
  <2>4. QED
    BY <2>1, <2>3 DEF Kids, q
<1>7. ASSUME NEW m \in All0 \ lost, NEW k \in Kids(e, m)
      PROVE  k \notin lost /\ k \in Nodes
  <2>1. k \in Kids(d, m) \ ns /\ k \in Nodes
    BY <1>1, <1>6, <1>7, KidsAre
  <2>2. SUFFICES ASSUME k \in lost PROVE FALSE
    BY <2>1
  <2>3. PICK p \in lost : k \in Kids(d, p)
    BY <1>2, <2>1, <2>2
  <2>4. p \in All0
    BY <1>2, <2>3 DEF All0
  <2>5. p = m
    BY <2>1, <2>3, <2>4 DEF Tree
  <2>6. QED
    BY <2>3, <2>5
<1>8. e \in [All0 -> Node]
  BY <1>3, <1>5, <1>6, GoneIs
<1>9. Tree(e)
  <2>1. e[Root].kind = "root" /\ \A n \in Nodes : e[n].kind # "root"
    <3>1. Root \in All0 \ lost
      BY <1>2 DEF All0
    <3>2. ASSUME NEW n \in Nodes PROVE e[n].kind # "root"
      BY <1>5, <1>6, GoneIs DEF Tree, All0
    <3>3. QED
      BY <1>6, <3>1, <3>2 DEF Tree
  <2>2. ASSUME NEW n \in All0, NEW m \in Kids(e, n) PROVE e[m].kind # "gone"
    <3>1. n \notin lost
      BY <1>5, <2>2
    <3>2. m \in All0 \ lost /\ m \in Kids(d, n)
      BY <1>6, <1>7, <2>2, <3>1 DEF All0
    <3>3. QED
      BY <1>6, <3>2 DEF Tree
  <2>3. ASSUME NEW n \in All0, NEW p \in All0, NEW m \in Nodes,
               m \in Kids(e, n), m \in Kids(e, p)
        PROVE  n = p
    <3>1. n \notin lost /\ p \notin lost
      BY <1>5, <2>3
    <3>2. m \in Kids(d, n) /\ m \in Kids(d, p)
      BY <1>6, <2>3, <3>1
    <3>3. QED
      BY <3>2 DEF Tree
  <2>4. ASSUME NEW n \in All0, e[n].kind = "gone" PROVE e[n].kids = <<>>
    <3>1. CASE n \in lost
      BY <1>5, <3>1, GoneIs
    <3>2. CASE n \notin lost
      <4>1. d[n].kids = <<>>
        BY <1>6, <2>4, <3>2 DEF Tree
      <4>2. Kids(e, n) = {}
        <5>1. Range(<<>>) = {}
          BY DEF Range
        <5>2. Kids(d, n) = {}
          BY <4>1, <5>1 DEF Kids
        <5>3. QED
          BY <1>6, <3>2, <5>2
      <4>3. e[n].kids \in Seq(Nodes) /\ Range(e[n].kids) = {}
        BY <1>8, <4>2, KidsAre
      <4>4. QED
        <5>1. ASSUME e[n].kids # <<>> PROVE FALSE
          <6>1. Len(e[n].kids) \in Nat \ {0}
            BY <4>3, <5>1, EmptySeq
          <6>2. 1 \in DOMAIN e[n].kids
            BY <4>3, <6>1, LenProperties
          <6>3. QED
            BY <4>3, <6>2 DEF Range
        <5>2. QED
          BY <5>1
    <3>3. QED
      BY <3>1, <3>2
  <2>5. QED
    BY <1>8, <2>1, <2>2, <2>3, <2>4 DEF Tree
<1>10. QED
  BY <1>2, <1>5, <1>6, <1>7, <1>9 DEF Pruned, lost, e

-----------------------------------------------------------------------------
(* Adding a node, in the first place that is free. *)

Grown(d, n, k, v, m, e) ==
  /\ m \in Nodes /\ d[m].kind = "gone" /\ m # n
  /\ \A j \in FindAll(d, "gone") : m <= j
  /\ \A p \in All0 : m \notin Kids(d, p)
  /\ Tree(e)
  /\ e[m].kind = k /\ e[m].key = v /\ e[m].kids = <<>> /\ Kids(e, m) = {}
  /\ e[n].kind = d[n].kind /\ e[n].key = d[n].key
  /\ e[n].kids = Append(d[n].kids, m) /\ Kids(e, n) = Kids(d, n) \cup {m}
  /\ \A p \in All0 \ {m, n} : e[p] = d[p] /\ Kids(e, p) = Kids(d, p)

LEMMA GrowFacts ==
  ASSUME NEW d, Tree(d), FindAll(d, "gone") # {}, NEW n \in All0,
         d[n].kind # "gone", NEW k \in Kinds, NEW v \in Keys
  PROVE  \E m : Grown(d, n, k, v, m, Grow(d, n, k, v))
<1> DEFINE free == FindAll(d, "gone")
           m == CHOOSE i \in free : \A j \in free : i <= j
           e == Grow(d, n, k, v)
           new == [kind |-> k, key |-> v, kids |-> <<>>]
<1>1. free \in SUBSET Nat /\ free \subseteq Nodes
  BY NodesAre DEF FindAll
<1>2. \E i \in free : \A j \in free : i <= j
  <2> HIDE DEF free
  <2>1. QED
    BY <1>1, LeastOf DEF free
<1>3. m \in free /\ \A j \in free : m <= j
  BY <1>2
<1>4. e = [d EXCEPT ![m] = new, ![n].kids = Append(@, m)]
  BY DEF Grow
<1> HIDE DEF m, e
<1>5. m \in Nodes /\ d[m].kind = "gone" /\ m # n /\ m \in All0
  BY <1>1, <1>3 DEF FindAll, All0
<1>6. d \in [All0 -> Node] /\ d[n] \in Node
  BY DEF Tree
<1> HIDE DEF free, new
<1>7. /\ e[m] = new /\ e[n] = [d[n] EXCEPT !.kids = Append(d[n].kids, m)]
      /\ \A p \in All0 \ {m, n} : e[p] = d[p]
      /\ DOMAIN e = All0
  BY <1>4, <1>5, <1>6
<1>8. new \in Node /\ new.kind = k /\ new.key = v /\ new.kids = <<>>
  <2>1. <<>> \in Seq(Nodes)
    BY EmptySeq
  <2>2. QED
    BY <2>1 DEF new, Node
<1>9. /\ d[n].kids \in Seq(Nodes) /\ Append(d[n].kids, m) \in Seq(Nodes)
      /\ Range(Append(d[n].kids, m)) = Kids(d, n) \cup {m}
  BY <1>5, <1>6, KidsAre, AppendProperties, RangeOfAppend
<1>10. /\ e[n] \in Node /\ e[n].kind = d[n].kind /\ e[n].key = d[n].key
       /\ e[n].kids = Append(d[n].kids, m) /\ Kids(e, n) = Kids(d, n) \cup {m}
  <2>1. /\ e[n] \in Node /\ e[n].kind = d[n].kind /\ e[n].key = d[n].key
        /\ e[n].kids = Append(d[n].kids, m)
    <3> DEFINE q == Append(d[n].kids, m)
    <3>1. d[n] \in Node /\ q \in Seq(Nodes) /\ e[n] = [d[n] EXCEPT !.kids = q]
      BY <1>6, <1>7, <1>9
    <3> HIDE DEF q
    <3>2. e[n] \in Node /\ e[n].kind = d[n].kind /\ e[n].key = d[n].key /\ e[n].kids = q
      BY <3>1, NodeKids
    <3>3. QED
      BY <3>2 DEF q
  <2>2. QED
    BY <1>9, <2>1 DEF Kids
<1>11. Kids(e, m) = {}
  <2>1. Range(<<>>) = {}
    BY DEF Range
  <2>2. QED
    BY <1>7, <1>8, <2>1 DEF Kids
<1>12. \A p \in All0 \ {m, n} : Kids(e, p) = Kids(d, p)
  BY <1>7 DEF Kids
<1>13. \A p \in All0 : m \notin Kids(d, p)
  BY <1>5 DEF Tree
<1>14. e \in [All0 -> Node]
  <2>1. \A p \in All0 : e[p] \in Node
    BY <1>6, <1>7, <1>8, <1>10
  <2>2. e = [p \in All0 |-> e[p]]
    BY <1>4, <1>6
  <2>3. QED
    BY <2>1, <2>2
<1>15. Tree(e)
  <2>1. e[Root].kind = "root" /\ \A p \in Nodes : e[p].kind # "root"
    <3>1. Root # m /\ Root \in All0
      BY <1>5, NodesAre DEF All0
    <3>2. e[Root].kind = "root"
      BY <1>7, <1>10, <3>1 DEF Tree
    <3>3. k # "root"
      BY DEF Kinds
    <3>4. ASSUME NEW p \in Nodes PROVE e[p].kind # "root"
      BY <1>7, <1>8, <1>10, <3>3 DEF Tree, All0
    <3>5. QED
      BY <3>2, <3>4
  <2>2. ASSUME NEW p \in All0, NEW c \in Kids(e, p) PROVE e[c].kind # "gone"
    <3>1. c \in Nodes /\ c \in All0
      BY <1>14, <2>2, KidsAre DEF All0
    <3>2. CASE c = m
      BY <1>7, <1>8, <3>2 DEF Kinds
    <3>3. CASE c # m
      <4>1. c \in Kids(d, p)
        BY <1>10, <1>11, <1>12, <2>2, <3>3
      <4>2. d[c].kind # "gone"
        BY <4>1 DEF Tree
      <4>3. QED
        BY <1>7, <1>10, <3>1, <3>3, <4>2
    <3>4. QED
      BY <3>2, <3>3
  <2>3. ASSUME NEW p \in All0, NEW q \in All0, NEW c \in Nodes,
               c \in Kids(e, p), c \in Kids(e, q)
        PROVE  p = q
    <3>1. CASE c = m
      BY <1>10, <1>11, <1>12, <1>13, <2>3, <3>1
    <3>2. CASE c # m
      <4>1. c \in Kids(d, p) /\ c \in Kids(d, q)
        BY <1>10, <1>11, <1>12, <2>3, <3>2
      <4>2. QED
        BY <4>1 DEF Tree
    <3>3. QED
      BY <3>1, <3>2
  <2>4. ASSUME NEW p \in All0, e[p].kind = "gone" PROVE e[p].kids = <<>>
    <3>1. p # n
      BY <1>10, <2>4
    <3>2. QED
      BY <1>7, <1>8, <2>4, <3>1 DEF Tree
  <2>5. QED
    BY <1>14, <2>1, <2>2, <2>3, <2>4 DEF Tree
<1>16. Grown(d, n, k, v, m, e)
  BY <1>3, <1>5, <1>7, <1>8, <1>10, <1>11, <1>12, <1>13, <1>15 DEF Grown, free
<1>17. QED
  BY <1>16 DEF e

-----------------------------------------------------------------------------
(* A path from the root: each node is a child of the one before.           *)

Over(q, i)  == IF i = 1 THEN Root ELSE q[i - 1]
KindAt(i)   == IF i = 1 THEN "service" ELSE "list"
Chain(d, q) == q \in Seq(Nodes) /\ \A i \in 1..Len(q) : q[i] \in Kids(d, Over(q, i))

(* It leads where the names say. *)
Leads(d, p, q) ==
  /\ p \in Seq(Keys) /\ Len(p) = Len(q) /\ Chain(d, q)
  /\ \A i \in 1..Len(q) : d[q[i]].kind = KindAt(i) /\ d[q[i]].key = p[i]

LEMMA ChainAt ==
  ASSUME NEW d, NEW q, Chain(d, q), NEW i \in 1..Len(q)
  PROVE  /\ i \in Nat /\ i >= 1 /\ Len(q) \in Nat
         /\ q[i] \in Nodes /\ Over(q, i) \in All0 /\ q[i] \in Kids(d, Over(q, i))
         /\ i # 1 => i - 1 \in 1..Len(q) /\ Over(q, i) = q[i - 1]
         /\ i = 1 => Over(q, i) = Root
<1>1. q \in Seq(Nodes) /\ Len(q) \in Nat /\ i \in Nat /\ i >= 1
  BY LenProperties DEF Chain
<1>2. q[i] \in Nodes /\ q[i] \in Kids(d, Over(q, i))
  BY <1>1, ElementOfSeq DEF Chain
<1>3. ASSUME i # 1 PROVE i - 1 \in 1..Len(q) /\ Over(q, i) = q[i - 1] /\ q[i - 1] \in Nodes
  <2>1. i - 1 \in 1..Len(q)
    BY <1>1, <1>3
  <2>2. q[i - 1] \in Nodes
    BY <1>1, <2>1, ElementOfSeq
  <2>3. QED
    BY <1>3, <2>1, <2>2 DEF Over
<1>4. i = 1 => Over(q, i) = Root
  BY DEF Over
<1>5. QED
  BY <1>1, <1>2, <1>3, <1>4 DEF All0

(* No node is passed twice. *)
LEMMA ChainDistinct ==
  ASSUME NEW d, Tree(d), NEW q, Chain(d, q),
         NEW i \in 1..Len(q), NEW j \in 1..Len(q), i < j
  PROVE  q[i] # q[j]
<1> DEFINE Off == {a \in 1..Len(q) : \E b \in 1..Len(q) : a < b /\ q[a] = q[b]}
<1>1. SUFFICES ASSUME Off # {} PROVE FALSE
  OBVIOUS
<1>2. Off \in SUBSET Nat
  OBVIOUS
<1>3. PICK a \in Off : \A b \in Off : a <= b
  <2> HIDE DEF Off
  <2>1. QED
    BY <1>1, <1>2, LeastOf
<1>4. PICK b \in 1..Len(q) : a < b /\ q[a] = q[b]
  BY <1>3
<1>5. a \in 1..Len(q)
  BY <1>3
<1>6. /\ q[a] \in Nodes /\ q[a] \in Kids(d, Over(q, a)) /\ q[b] \in Kids(d, Over(q, b))
      /\ Over(q, a) \in All0 /\ Over(q, b) \in All0
  BY <1>4, <1>5, ChainAt
<1>7. Over(q, a) = Over(q, b)
  BY <1>4, <1>6 DEF Tree
<1>8. b # 1 /\ b - 1 \in 1..Len(q) /\ Over(q, b) = q[b - 1]
  BY <1>4, <1>5, ChainAt
<1>9. CASE a = 1
  <2>1. q[b - 1] \in Nodes /\ q[b - 1] = Root
    BY <1>4, <1>5, <1>7, <1>8, <1>9, ChainAt
  <2>2. QED
    BY <2>1, NodesAre
<1>10. CASE a # 1
  <2>1. a - 1 \in 1..Len(q) /\ Over(q, a) = q[a - 1]
    BY <1>5, <1>10, ChainAt
  <2>2. a - 1 < b - 1 /\ q[a - 1] = q[b - 1] /\ ~(a <= a - 1)
    BY <1>4, <1>5, <1>7, <1>8, <2>1
  <2>3. a - 1 \in Off
    BY <1>8, <2>1, <2>2
  <2> HIDE DEF Off
  <2>4. QED
    BY <1>3, <2>2, <2>3
<1>11. QED
  BY <1>9, <1>10

LEMMA ChainGoesOn ==
  ASSUME NEW d, NEW q, Chain(d, q), NEW n \in Nodes,
         IF q = <<>> THEN n \in Kids(d, Root) ELSE n \in Kids(d, Last(q))
  PROVE  /\ Chain(d, Append(q, n)) /\ Len(Append(q, n)) = Len(q) + 1
         /\ \A i \in 1..Len(q) : Append(q, n)[i] = q[i]
         /\ Append(q, n)[Len(q) + 1] = n
<1> DEFINE s == Append(q, n)
<1>1. q \in Seq(Nodes) /\ Len(q) \in Nat /\ (q = <<>> => Len(q) = 0)
  BY LenProperties, EmptySeq DEF Chain
<1>2. /\ s \in Seq(Nodes) /\ Len(s) = Len(q) + 1 /\ s[Len(q) + 1] = n
      /\ \A i \in 1..Len(q) : s[i] = q[i]
  BY <1>1, AppendProperties
<1> HIDE DEF s
<1>3. ASSUME NEW i \in 1..Len(s) PROVE s[i] \in Kids(d, Over(s, i))
  <2>1. CASE i \in 1..Len(q)
    <3>1. Over(s, i) = Over(q, i)
      BY <1>1, <1>2, <2>1, ChainAt DEF Over
    <3>2. QED
      BY <1>2, <2>1, <3>1, ChainAt
  <2>2. CASE i \notin 1..Len(q)
    <3>1. i = Len(q) + 1
      BY <1>1, <1>2, <2>2
    <3>2. CASE q = <<>>
      BY <1>1, <1>2, <3>1, <3>2 DEF Over
    <3>3. CASE q # <<>>
      <4>1. Len(q) \in 1..Len(q) /\ i # 1 /\ i - 1 = Len(q)
        BY <1>1, <3>1, <3>3, EmptySeq
      <4>2. Over(s, i) = Last(q)
        BY <1>2, <4>1 DEF Over, Last
      <4>3. QED
        BY <1>2, <3>1, <3>3, <4>2
    <3>4. QED
      BY <3>2, <3>3
  <2>3. QED
    BY <2>1, <2>2
<1>4. QED
  BY <1>2, <1>3 DEF Chain, s

(* A child of the last node is not on the path. *)
LEMMA ChildIsOff ==
  ASSUME NEW d, Tree(d), NEW q, Chain(d, q), q # <<>>,
         NEW n \in Kids(d, Last(q)), NEW i \in 1..Len(q)
  PROVE  q[i] # n /\ n \in Nodes
<1>1. q \in Seq(Nodes) /\ Len(q) \in Nat \ {0} /\ Len(q) \in 1..Len(q)
  BY LenProperties, EmptySeq DEF Chain
<1>2. Last(q) \in All0
  BY <1>1, ElementOfSeq DEF Last, All0
<1>3. n \in Nodes
  BY <1>2, KidsAre DEF Tree
<1> DEFINE s == Append(q, n)
<1>4. /\ Chain(d, s) /\ Len(s) = Len(q) + 1 /\ s[Len(q) + 1] = n
      /\ \A k \in 1..Len(q) : s[k] = q[k]
  BY <1>3, ChainGoesOn
<1> HIDE DEF s
<1>5. i \in 1..Len(s) /\ Len(q) + 1 \in 1..Len(s) /\ i < Len(q) + 1
  BY <1>1, <1>4
<1>6. s[i] # s[Len(q) + 1]
  BY <1>4, <1>5, ChainDistinct
<1>7. QED
  BY <1>3, <1>4, <1>6

(* What is removed takes nothing of a path with it, if no node of the path *)
(* is removed itself.                                                      *)
LEMMA ChainNotLost ==
  ASSUME NEW d, Tree(d), NEW q, Chain(d, q), NEW ns \in SUBSET Nodes,
         \A i \in 1..Len(q) : q[i] \notin ns, NEW i \in 1..Len(q)
  PROVE  q[i] \notin Lost(d, ns)
<1> DEFINE Off == {a \in 1..Len(q) : q[a] \in Lost(d, ns)}
<1>1. SUFFICES ASSUME Off # {} PROVE FALSE
  OBVIOUS
<1>2. Off \in SUBSET Nat
  OBVIOUS
<1>3. PICK a \in Off : \A b \in Off : a <= b
  <2> HIDE DEF Off
  <2>1. QED
    BY <1>1, <1>2, LeastOf
<1>4. a \in 1..Len(q) /\ q[a] \in Lost(d, ns)
  BY <1>3
<1>5. q[a] \in Nodes /\ q[a] \in Kids(d, Over(q, a)) /\ Over(q, a) \in All0 /\ q[a] \notin ns
  BY <1>4, ChainAt
<1>6. d \in [All0 -> Node]
  BY DEF Tree
<1>7. Lost(d, ns) \subseteq Nodes
  BY <1>6, LostClimbs
<1>8. PICK p \in Lost(d, ns) : q[a] \in Kids(d, p)
  BY <1>4, <1>5, <1>6, LostClimbs
<1>9. p = Over(q, a)
  BY <1>5, <1>7, <1>8 DEF Tree, All0
<1>10. a # 1
  BY <1>4, <1>7, <1>8, <1>9, ChainAt, NodesAre
<1>11. a - 1 \in 1..Len(q) /\ Over(q, a) = q[a - 1] /\ a \in Nat
  BY <1>4, <1>10, ChainAt
<1>12. a - 1 \in Off /\ ~(a <= a - 1)
  BY <1>8, <1>9, <1>11
<1> HIDE DEF Off
<1>13. QED
  BY <1>3, <1>12

LEMMA LeadsPruned ==
  ASSUME NEW d, Tree(d), NEW p, NEW q, Leads(d, p, q), NEW ns \in SUBSET Nodes,
         \A i \in 1..Len(q) : q[i] \notin ns, NEW e, Pruned(d, ns, e)
  PROVE  Leads(e, p, q)
<1>1. Chain(d, q)
  BY DEF Leads
<1>2. Root \notin Lost(d, ns)
  BY PruneFacts
<1>3. ASSUME NEW i \in 1..Len(q)
      PROVE  /\ q[i] \in Kids(e, Over(q, i))
             /\ e[q[i]].kind = d[q[i]].kind /\ e[q[i]].key = d[q[i]].key
  <2>1. /\ q[i] \in Nodes /\ q[i] \in All0 /\ q[i] \in Kids(d, Over(q, i))
        /\ Over(q, i) \in All0
    BY <1>1, ChainAt DEF All0
  <2>2. q[i] \notin Lost(d, ns)
    BY <1>1, ChainNotLost
  <2>3. Over(q, i) \notin Lost(d, ns)
    <3>1. CASE i = 1
      BY <1>1, <1>2, <3>1, ChainAt
    <3>2. CASE i # 1
      BY <1>1, <3>2, ChainAt, ChainNotLost
    <3>3. QED
      BY <3>1, <3>2
  <2>4. Kids(e, Over(q, i)) = Kids(d, Over(q, i)) \ ns
    BY <2>1, <2>3 DEF Pruned
  <2>5. e[q[i]].kind = d[q[i]].kind /\ e[q[i]].key = d[q[i]].key
    BY <2>1, <2>2 DEF Pruned
  <2>6. QED
    BY <2>1, <2>4, <2>5
<1>4. Chain(e, q)
  BY <1>1, <1>3 DEF Chain
<1>5. QED
  BY <1>3, <1>4 DEF Leads

LEMMA LeadsGrown ==
  ASSUME NEW d, Tree(d), NEW p, NEW q, Leads(d, p, q), NEW n, NEW k, NEW v, NEW m, NEW e,
         Grown(d, n, k, v, m, e)
  PROVE  Leads(e, p, q)
<1>1. Chain(d, q)
  BY DEF Leads
<1>2. ASSUME NEW i \in 1..Len(q)
      PROVE  /\ q[i] \in Kids(e, Over(q, i))
             /\ e[q[i]].kind = d[q[i]].kind /\ e[q[i]].key = d[q[i]].key
  <2>1. /\ q[i] \in All0 /\ q[i] \in Kids(d, Over(q, i)) /\ Over(q, i) \in All0
    BY <1>1, ChainAt DEF All0
  <2>2. q[i] # m
    BY <2>1 DEF Grown
  <2>3. Over(q, i) # m
    <3>1. CASE i = 1
      BY <1>1, <3>1, ChainAt, NodesAre DEF Grown
    <3>2. CASE i # 1
      <4>1. i - 1 \in 1..Len(q) /\ Over(q, i) = q[i - 1]
        BY <1>1, <3>2, ChainAt
      <4>2. q[i - 1] \in Kids(d, Over(q, i - 1)) /\ Over(q, i - 1) \in All0
        BY <1>1, <4>1, ChainAt
      <4>3. QED
        BY <4>1, <4>2 DEF Grown
    <3>3. QED
      BY <3>1, <3>2
  <2>4. q[i] \in Kids(e, Over(q, i))
    BY <2>1, <2>3 DEF Grown
  <2>5. e[q[i]].kind = d[q[i]].kind /\ e[q[i]].key = d[q[i]].key
    BY <2>1, <2>2 DEF Grown
  <2>6. QED
    BY <2>4, <2>5
<1>3. Chain(e, q)
  BY <1>1, <1>2 DEF Chain
<1>4. QED
  BY <1>2, <1>3 DEF Leads

(* Leaving a list, and going into one. *)
LEMMA LeadsOut ==
  ASSUME NEW d, NEW p, NEW q, Leads(d, p, q), p # <<>>
  PROVE  Leads(d, Front(p), Front(q))
<1>1. /\ p \in Seq(Keys) /\ q \in Seq(Nodes) /\ Len(q) = Len(p)
      /\ Len(p) \in Nat \ {0}
  BY EmptySeq DEF Leads, Chain
<1> DEFINE N == Len(p) - 1
<1>2. N \in Nat /\ N \in 0..Len(p)
  BY <1>1
<1>3. /\ Front(p) \in Seq(Keys) /\ Len(Front(p)) = N
      /\ \A i \in 1..N : Front(p)[i] = p[i]
  BY <1>1 DEF Front
<1>4. /\ Front(q) \in Seq(Nodes) /\ Len(Front(q)) = N
      /\ \A i \in 1..N : Front(q)[i] = q[i]
  BY <1>1 DEF Front
<1> HIDE DEF N
<1>5. ASSUME NEW i \in 1..Len(Front(q))
      PROVE  /\ Front(q)[i] \in Kids(d, Over(Front(q), i))
             /\ d[Front(q)[i]].kind = KindAt(i) /\ d[Front(q)[i]].key = Front(p)[i]
  <2>1. i \in 1..N /\ i \in 1..Len(q)
    BY <1>1, <1>2, <1>4 DEF N
  <2>2. Over(Front(q), i) = Over(q, i)
    <3>1. i # 1 => i - 1 \in 1..N
      BY <1>2, <2>1
    <3>2. QED
      BY <1>4, <3>1 DEF Over
  <2>3. QED
    BY <1>3, <1>4, <2>1, <2>2 DEF Leads, Chain
<1>6. Chain(d, Front(q))
  BY <1>4, <1>5 DEF Chain
<1>7. QED
  BY <1>3, <1>4, <1>5, <1>6 DEF Leads

LEMMA LeadsIn ==
  ASSUME NEW d, Tree(d), NEW p, NEW q, Leads(d, p, q), q # <<>>, NEW a \in Keys,
         NEW n \in Child(d, Last(q), "list", a)
  PROVE  Leads(d, Append(p, a), Append(q, n))
<1>1. n \in Kids(d, Last(q)) /\ d[n].kind = "list" /\ d[n].key = a
  BY DEF Child, Find
<1>2. Chain(d, q) /\ Len(q) \in Nat \ {0} /\ Len(p) = Len(q) /\ p \in Seq(Keys)
  BY EmptySeq DEF Leads, Chain
<1>3. 1 \in 1..Len(q)
  BY <1>2
<1>4. n \in Nodes
  BY <1>1, <1>2, <1>3, ChildIsOff
<1>5. /\ Chain(d, Append(q, n)) /\ Len(Append(q, n)) = Len(q) + 1
      /\ \A i \in 1..Len(q) : Append(q, n)[i] = q[i]
      /\ Append(q, n)[Len(q) + 1] = n
  BY <1>1, <1>2, <1>4, ChainGoesOn
<1>6. /\ Append(p, a) \in Seq(Keys) /\ Len(Append(p, a)) = Len(p) + 1
      /\ \A i \in 1..Len(p) : Append(p, a)[i] = p[i]
      /\ Append(p, a)[Len(p) + 1] = a
  BY <1>2, AppendProperties
<1> DEFINE s == Append(q, n)
           t == Append(p, a)
<1> HIDE DEF s, t
<1>7. ASSUME NEW i \in 1..Len(s) PROVE d[s[i]].kind = KindAt(i) /\ d[s[i]].key = t[i]
  <2>1. CASE i \in 1..Len(q)
    BY <1>2, <1>5, <1>6, <2>1 DEF Leads, s, t
  <2>2. CASE i \notin 1..Len(q)
    <3>1. i = Len(q) + 1 /\ i # 1
      BY <1>2, <1>5, <2>2 DEF s
    <3>2. QED
      BY <1>1, <1>2, <1>5, <1>6, <3>1 DEF KindAt, s, t
  <2>3. QED
    BY <2>1, <2>2
<1>8. QED
  BY <1>2, <1>5, <1>6, <1>7 DEF Leads, s, t

-----------------------------------------------------------------------------
(* The shape of a document: the elements of a kind in one place have       *)
(* different names, packages and display names have none, a display name   *)
(* comes first, and the packages of a service, unless it is being changed, *)
(* come last.                                                              *)

OneOfAName(d) ==
  \A n \in All0 : \A i, j \in Kids(d, n) :
     d[i].kind = d[j].kind /\ d[i].key = d[j].key => i = j
Plain(d) == \A n \in Nodes : d[n].kind \in {"packages", "display"} => d[n].key = ""
Headed(d) ==
  \A n \in Nodes : \A m \in Kids(d, n) :
     d[m].kind = "display" => d[d[n].kids[1]].kind = "display"
Packed(d, X) ==
  \A n \in FindAll(d, "service") \ X :
     d[n].kids # <<>> /\ d[d[n].kids[Len(d[n].kids)]].kind = "packages"
Shape(d, X) == OneOfAName(d) /\ Plain(d) /\ Headed(d) /\ Packed(d, X)

LEMMA AppendEnds ==
  ASSUME NEW S, NEW s \in Seq(S), NEW m \in S
  PROVE  /\ Append(s, m) # <<>> /\ Append(s, m)[Len(Append(s, m))] = m
         /\ Append(s, m)[1] = IF s = <<>> THEN m ELSE s[1]
<1> DEFINE r == Append(s, m)
<1>1. /\ r \in Seq(S) /\ Len(r) = Len(s) + 1 /\ r[Len(s) + 1] = m
      /\ \A i \in 1..Len(s) : r[i] = s[i]
  BY AppendProperties
<1> HIDE DEF r
<1>2. Len(s) \in Nat /\ (s = <<>> <=> Len(s) = 0) /\ (r = <<>> <=> Len(r) = 0)
  BY <1>1, EmptySeq
<1>3. r # <<>> /\ r[Len(r)] = m /\ r[1] = IF s = <<>> THEN m ELSE s[1]
  <2>1. CASE s = <<>>
    BY <1>1, <1>2, <2>1
  <2>2. CASE s # <<>>
    <3>1. 1 \in 1..Len(s)
      BY <1>2, <2>2
    <3>2. QED
      BY <1>1, <1>2, <2>2, <3>1
  <2>3. QED
    BY <2>1, <2>2
<1>4. QED
  BY <1>3 DEF r

(* The first and the last child of a node. *)
LEMMA EndsAreKids ==
  ASSUME NEW d \in [All0 -> Node], NEW n \in All0, d[n].kids # <<>>
  PROVE  /\ d[n].kids[1] \in Kids(d, n) /\ d[n].kids[Len(d[n].kids)] \in Kids(d, n)
         /\ Len(d[n].kids) \in Nat \ {0}
<1> DEFINE s == d[n].kids
<1>1. s \in Seq(Nodes) /\ Kids(d, n) = Range(s)
  BY KidsAre
<1>2. s # <<>>
  OBVIOUS
<1> HIDE DEF s
<1>3. Len(s) \in Nat \ {0} /\ DOMAIN s = 1..Len(s)
  BY <1>1, <1>2, EmptySeq
<1>4. s[1] \in Range(s) /\ s[Len(s)] \in Range(s)
  BY <1>3 DEF Range
<1>5. QED
  BY <1>1, <1>3, <1>4 DEF s

LEMMA NoKids ==
  ASSUME NEW d \in [All0 -> Node], NEW n \in All0
  PROVE  Kids(d, n) = {} <=> d[n].kids = <<>>
<1>1. d[n].kids # <<>> => Kids(d, n) # {}
  BY EndsAreKids
<1>2. d[n].kids = <<>> => Kids(d, n) = {}
  BY DEF Kids, Range
<1>3. QED
  BY <1>1, <1>2

LEMMA PruneShape ==
  ASSUME NEW d, Tree(d), NEW X, Shape(d, X), NEW ns \in SUBSET Nodes, NEW e,
         Pruned(d, ns, e), NEW Y,
         \A n \in FindAll(d, "service") \ Y :
            n \notin X /\ d[n].kids[Len(d[n].kids)] \notin ns
  PROVE  Shape(e, Y)
<1>1. d \in [All0 -> Node] /\ e \in [All0 -> Node]
  BY DEF Tree, Pruned
<1>2. ASSUME NEW n \in All0, NEW m \in Kids(e, n)
      PROVE  /\ n \notin Lost(d, ns) /\ m \in Kids(d, n) /\ m \in Nodes /\ m \notin ns
             /\ e[m].kind = d[m].kind /\ e[m].key = d[m].key
  <2>1. n \notin Lost(d, ns)
    BY GoneIs DEF Pruned
  <2>2. m \in Kids(d, n) \ ns /\ m \notin Lost(d, ns)
    BY <2>1 DEF Pruned
  <2>3. m \in Nodes /\ m \in All0
    BY <1>1, KidsAre DEF All0
  <2>4. QED
    BY <2>1, <2>2, <2>3 DEF Pruned
<1>3. OneOfAName(e)
  BY <1>2 DEF OneOfAName, Shape
<1>4. Plain(e)
  <2> SUFFICES ASSUME NEW n \in Nodes, e[n].kind \in {"packages", "display"}
               PROVE  e[n].key = ""
    BY DEF Plain
  <2>1. n \in All0 /\ n \notin Lost(d, ns)
    BY GoneIs DEF All0, Pruned
  <2>2. QED
    BY <2>1 DEF Pruned, Shape, Plain
<1>5. Headed(e)
  <2> SUFFICES ASSUME NEW n \in Nodes, NEW m \in Kids(e, n), e[m].kind = "display"
               PROVE  e[e[n].kids[1]].kind = "display"
    BY DEF Headed
  <2> DEFINE s == d[n].kids
  <2>1. n \in All0
    BY DEF All0
  <2>2. /\ n \notin Lost(d, ns) /\ m \in Kids(d, n) /\ m \in Nodes /\ m \notin ns
        /\ d[m].kind = "display"
    BY <1>2, <2>1
  <2>3. d[s[1]].kind = "display" /\ s # <<>>
    BY <1>1, <2>1, <2>2, NoKids DEF Shape, Headed
  <2>4. s[1] \in Kids(d, n) /\ s[1] \in Nodes
    BY <1>1, <2>1, <2>3, EndsAreKids, KidsAre
  <2>5. d[s[1]].key = "" /\ d[m].key = ""
    BY <2>2, <2>3, <2>4 DEF Shape, Plain
  <2>6. s[1] = m
    BY <2>1, <2>2, <2>3, <2>4, <2>5 DEF Shape, OneOfAName
  <2>7. e[n].kids = Without(s, ns) /\ s \in Seq(Nodes)
    BY <1>1, <2>1, <2>2, KidsAre DEF Pruned
  <2> HIDE DEF s
  <2>8. Without(s, ns)[1] = s[1]
    BY <2>2, <2>3, <2>6, <2>7, WithoutFacts
  <2>9. QED
    BY <2>6, <2>7, <2>8
<1>6. Packed(e, Y)
  <2> SUFFICES ASSUME NEW n \in FindAll(e, "service") \ Y
               PROVE  /\ e[n].kids # <<>>
                      /\ e[e[n].kids[Len(e[n].kids)]].kind = "packages"
    BY DEF Packed
  <2> DEFINE s == d[n].kids
             r == e[n].kids
  <2>1. n \in Nodes /\ n \in All0 /\ e[n].kind = "service"
    BY DEF FindAll, All0
  <2>2. n \notin Lost(d, ns)
    BY <2>1, GoneIs DEF Pruned
  <2>3. d[n].kind = "service" /\ r = Without(s, ns) /\ s \in Seq(Nodes)
    BY <1>1, <2>1, <2>2, KidsAre DEF Pruned
  <2>4. n \in FindAll(d, "service") \ Y
    BY <2>1, <2>3 DEF FindAll
  <2>5. n \in FindAll(d, "service") \ X /\ s[Len(s)] \notin ns
    BY <2>4
  <2>6. s # <<>> /\ d[s[Len(s)]].kind = "packages"
    BY <2>5 DEF Shape, Packed
  <2> HIDE DEF s, r
  <2> DEFINE w == Without(s, ns)
  <2>7. r # <<>> /\ r[Len(r)] = s[Len(s)]
    <3>1. w # <<>> /\ w[Len(w)] = s[Len(s)]
      BY <2>3, <2>5, <2>6, WithoutFacts
    <3> HIDE DEF w
    <3>2. r = w
      BY <2>3 DEF w
    <3>3. QED
      BY <3>1, <3>2
  <2>8. r[Len(r)] \in Kids(e, n)
    BY <1>1, <2>1, <2>7, EndsAreKids DEF r
  <2>9. e[r[Len(r)]].kind = "packages"
    BY <1>2, <2>1, <2>6, <2>7, <2>8
  <2>10. QED
    BY <2>7, <2>9 DEF r
<1>7. QED
  BY <1>3, <1>4, <1>5, <1>6 DEF Shape

(* The services that may be without packages at their end, once a node m   *)
(* of kind k is added to n where those in X already were.                  *)
Covers(Y, X, d, n, k, m) ==
  /\ k = "service" => m \in Y
  /\ d[n].kind = "service" /\ k # "packages" => n \in Y
  /\ \A x \in X : x \in Y \/ (x = n /\ k = "packages")

LEMMA GrowShape ==
  ASSUME NEW d, Tree(d), NEW X, Shape(d, X), NEW n \in All0, NEW k \in Kinds,
         NEW v \in Keys, NEW m, NEW e, Grown(d, n, k, v, m, e), Child(d, n, k, v) = {},
         k \in {"packages", "display"} => v = "",
         k = "display" => Kids(d, n) = {}, NEW Y, Covers(Y, X, d, n, k, m)
  PROVE  Shape(e, Y)
<1>1. d \in [All0 -> Node] /\ e \in [All0 -> Node] /\ m \in Nodes /\ m \in All0
  BY DEF Tree, Grown, All0
<1>2. ASSUME NEW p \in All0, NEW x \in Kids(d, p)
      PROVE  /\ x # m /\ x \in Nodes /\ x \in All0
             /\ e[x].kind = d[x].kind /\ e[x].key = d[x].key
  <2>1. x \in Nodes /\ x \in All0
    BY <1>1, KidsAre DEF All0
  <2>2. x # m
    BY DEF Grown
  <2>3. CASE x = n
    BY <2>1, <2>2, <2>3 DEF Grown
  <2>4. CASE x # n
    BY <2>1, <2>2, <2>4 DEF Grown
  <2>5. QED
    BY <2>1, <2>2, <2>3, <2>4
<1>3. OneOfAName(e)
  <2> SUFFICES ASSUME NEW p \in All0, NEW i \in Kids(e, p), NEW j \in Kids(e, p),
                      e[i].kind = e[j].kind, e[i].key = e[j].key
               PROVE  i = j
    BY DEF OneOfAName
  <2>1. CASE p = m
    BY <2>1 DEF Grown
  <2>2. CASE p # m /\ p # n
    <3>1. i \in Kids(d, p) /\ j \in Kids(d, p)
      BY <2>2 DEF Grown
    <3>2. QED
      BY <1>2, <3>1 DEF Shape, OneOfAName
  <2>3. CASE p = n
    <3>1. Kids(e, p) = Kids(d, p) \cup {m} /\ e[m].kind = k /\ e[m].key = v
      BY <2>3 DEF Grown
    <3>2. \A x \in Kids(d, p) : ~(d[x].kind = k /\ d[x].key = v)
      BY <2>3 DEF Child, Find
    <3>3. \A x \in Kids(d, p) : ~(e[x].kind = k /\ e[x].key = v)
      BY <1>2, <3>2
    <3>4. CASE i \in Kids(d, p) /\ j \in Kids(d, p)
      BY <1>2, <3>4 DEF Shape, OneOfAName
    <3>5. QED
      BY <3>1, <3>3, <3>4
  <2>4. QED
    BY <2>1, <2>2, <2>3
<1>4. Plain(e)
  <2> SUFFICES ASSUME NEW x \in Nodes, e[x].kind \in {"packages", "display"}
               PROVE  e[x].key = ""
    BY DEF Plain
  <2>1. CASE x = m
    BY <2>1 DEF Grown
  <2>2. CASE x # m
    <3>1. e[x].kind = d[x].kind /\ e[x].key = d[x].key
      BY <2>2 DEF Grown, All0
    <3>2. QED
      BY <3>1 DEF Shape, Plain
  <2>3. QED
    BY <2>1, <2>2
<1>5. Headed(e)
  <2> SUFFICES ASSUME NEW p \in Nodes, NEW x \in Kids(e, p), e[x].kind = "display"
               PROVE  e[e[p].kids[1]].kind = "display"
    BY DEF Headed
  <2>1. p \in All0
    BY DEF All0
  <2>2. p # m
    BY DEF Grown
  <2>3. CASE p # n
    <3>1. e[p] = d[p] /\ x \in Kids(d, p)
      BY <2>1, <2>2, <2>3 DEF Grown
    <3>2. d[x].kind = "display"
      BY <1>2, <2>1, <3>1
    <3>3. d[d[p].kids[1]].kind = "display" /\ d[p].kids # <<>>
      BY <1>1, <2>1, <3>1, <3>2, NoKids DEF Shape, Headed
    <3>4. d[p].kids[1] \in Kids(d, p)
      BY <1>1, <2>1, <3>3, EndsAreKids
    <3>5. e[d[p].kids[1]].kind = "display"
      BY <1>2, <2>1, <3>3, <3>4
    <3>6. QED
      BY <3>1, <3>5
  <2>4. CASE p = n
    <3> DEFINE s == d[n].kids
    <3>1. /\ e[p].kids = Append(s, m) /\ s \in Seq(Nodes) /\ x \in Kids(d, n) \cup {m}
          /\ e[m].kind = k
      BY <1>1, <2>4, KidsAre DEF Grown
    <3>2. CASE s = <<>>
      <4>1. x = m
        BY <1>1, <3>1, <3>2, NoKids
      <4> HIDE DEF s
      <4>3. s \in Seq(Nodes) /\ m \in Nodes
        BY <1>1, <3>1
      <4>4. Append(s, m)[1] = IF s = <<>> THEN m ELSE s[1]
        BY <4>3, AppendEnds
      <4>2. Append(s, m)[1] = m
        BY <3>2, <4>4
      <4>5. QED
        BY <3>1, <4>1, <4>2
    <3>3. CASE s # <<>>
      <4>1. Kids(d, n) # {}
        BY <1>1, <3>3, NoKids
      <4>2. x \in Kids(d, n)
        BY <3>1, <4>1
      <4>3. d[x].kind = "display"
        BY <1>2, <4>2
      <4>4. d[s[1]].kind = "display"
        BY <2>4, <4>2, <4>3 DEF Shape, Headed
      <4>5. s[1] \in Kids(d, n) /\ Len(s) \in Nat \ {0}
        BY <1>1, <3>3, EndsAreKids
      <4>6. e[s[1]].kind = "display"
        BY <1>2, <4>4, <4>5
      <4> HIDE DEF s
      <4>7. Append(s, m)[1] = s[1]
        BY <1>1, <3>1, <3>3, AppendEnds
      <4>8. QED
        BY <3>1, <4>6, <4>7
    <3>4. QED
      BY <3>2, <3>3
  <2>5. QED
    BY <2>3, <2>4
<1>6. Packed(e, Y)
  <2> SUFFICES ASSUME NEW p \in FindAll(e, "service") \ Y
               PROVE  /\ e[p].kids # <<>>
                      /\ e[e[p].kids[Len(e[p].kids)]].kind = "packages"
    BY DEF Packed
  <2>1. p \in Nodes /\ p \in All0 /\ e[p].kind = "service" /\ p \notin Y
    BY DEF FindAll, All0
  <2>2. p # m
    BY <2>1 DEF Grown, Covers
  <2>3. d[p].kind = "service"
    BY <2>1, <2>2 DEF Grown
  <2>4. CASE p = n
    <3>1. k = "packages" /\ e[m].kind = k
      BY <2>1, <2>3, <2>4 DEF Grown, Covers
    <3> DEFINE s == d[n].kids
               r == Append(s, m)
    <3>2. e[p].kids = r /\ s \in Seq(Nodes)
      BY <1>1, <2>4, KidsAre DEF Grown
    <3> HIDE DEF s
    <3>3. s \in Seq(Nodes) /\ m \in Nodes
      BY <1>1, <3>2
    <3>4. r # <<>> /\ r[Len(r)] = m
      BY <3>3, AppendEnds
    <3> HIDE DEF r
    <3>5. QED
      BY <3>1, <3>2, <3>4
  <2>5. CASE p # n
    <3>1. e[p] = d[p] /\ p \in FindAll(d, "service") \ X
      <4>1. e[p] = d[p]
        BY <2>1, <2>2, <2>5 DEF Grown
      <4>2. p \in FindAll(d, "service") /\ p \notin Y
        BY <2>1, <2>3 DEF FindAll
      <4>3. p \notin X
        BY <2>5, <4>2 DEF Covers
      <4>4. QED
        BY <4>1, <4>2, <4>3
    <3>2. d[p].kids # <<>> /\ d[d[p].kids[Len(d[p].kids)]].kind = "packages"
      BY <3>1 DEF Shape, Packed
    <3>3. d[p].kids[Len(d[p].kids)] \in Kids(d, p)
      BY <1>1, <2>1, <3>2, EndsAreKids
    <3>4. e[d[p].kids[Len(d[p].kids)]].kind = "packages"
      BY <1>2, <2>1, <3>2, <3>3
    <3>5. QED
      BY <3>1, <3>2, <3>4
  <2>6. QED
    BY <2>4, <2>5
<1>7. QED
  BY <1>3, <1>4, <1>5, <1>6 DEF Shape

(* What the server demands of a document is its shape. *)
LEMMA ShapeIs ==
  ASSUME Tree(doc), Shape(doc, {})
  PROVE  PackagesLast /\ UniqueElements /\ DisplayIsName
<1>1. doc \in [All0 -> Node] /\ DOMAIN doc = All0
  BY DEF Tree
<1>2. PackagesLast
  <2> SUFFICES ASSUME NEW n \in FindAll(doc, "service")
               PROVE  /\ doc[n].kids # <<>> /\ doc[Last(doc[n].kids)].kind = "packages"
                      /\ Cardinality(Find(doc, n, "packages")) = 1
    BY DEF PackagesLast
  <2> DEFINE l == doc[n].kids[Len(doc[n].kids)]
  <2>1. n \in All0 /\ n \in FindAll(doc, "service") \ {}
    BY DEF FindAll, All0
  <2>2. doc[n].kids # <<>> /\ doc[l].kind = "packages"
    BY <2>1 DEF Shape, Packed
  <2>3. Last(doc[n].kids) = l
    BY DEF Last
  <2>4. l \in Kids(doc, n) /\ Kids(doc, n) \subseteq Nodes
    BY <1>1, <2>1, <2>2, EndsAreKids, KidsAre
  <2> HIDE DEF l
  <2>5. ASSUME NEW m \in Find(doc, n, "packages") PROVE m = l
    <3>1. m \in Kids(doc, n) /\ doc[m].kind = "packages" /\ m \in Nodes /\ l \in Nodes
      BY <2>4 DEF Find
    <3>2. doc[m].key = "" /\ doc[l].key = ""
      BY <2>2, <3>1 DEF Shape, Plain
    <3>3. QED
      BY <2>1, <2>2, <2>4, <3>1, <3>2 DEF Shape, OneOfAName
  <2>6. l \in Find(doc, n, "packages")
    BY <2>2, <2>4 DEF Find
  <2>7. Find(doc, n, "packages") = {l}
    BY <2>5, <2>6
  <2>8. Cardinality({l}) = 1
    BY FS_Singleton
  <2>9. QED
    BY <2>2, <2>3, <2>7, <2>8
<1>3. UniqueElements
  BY <1>1 DEF UniqueElements, Shape, OneOfAName
<1>4. DisplayIsName
  <2> SUFFICES ASSUME NEW n \in Nodes, NEW m \in Displayed(n)
               PROVE  doc[m].kind = "display"
    BY DEF DisplayIsName
  <2>1. Cardinality(Find(doc, n, "display")) = 1 /\ m = Head(doc[n].kids)
    BY DEF Displayed
  <2>2. Find(doc, n, "display") # {}
    BY <2>1, FS_EmptySet
  <2>3. PICK x \in Kids(doc, n) : doc[x].kind = "display"
    BY <2>2 DEF Find
  <2>4. doc[n].kids \in Seq(Nodes) /\ n \in All0
    BY <1>1, KidsAre DEF All0
  <2>5. doc[doc[n].kids[1]].kind = "display"
    BY <2>3 DEF Shape, Headed
  <2>6. Head(doc[n].kids) = doc[n].kids[1]
    BY <2>4
  <2>7. QED
    BY <2>1, <2>5, <2>6
<1>5. QED
  BY <1>2, <1>3, <1>4

-----------------------------------------------------------------------------
(* Room for more nodes. *)

LEMMA RoomForTwo ==
  ASSUME NEW d, Room(d, 2)
  PROVE  \E a, b \in FindAll(d, "gone") : a # b
<1> DEFINE G == FindAll(d, "gone")
<1>1. Cardinality(G) >= 2
  BY DEF Room
<1> HIDE DEF G
<1>2. G # {}
  BY <1>1, FS_EmptySet
<1>3. PICK a \in G : TRUE
  BY <1>2
<1>4. Cardinality({a}) = 1
  BY FS_Singleton
<1>5. G # {a}
  BY <1>1, <1>4
<1>6. QED
  BY <1>3, <1>5 DEF G

LEMMA RoomForOne ==
  ASSUME NEW d, Room(d, 1)
  PROVE  FindAll(d, "gone") # {}
<1> DEFINE G == FindAll(d, "gone")
<1>1. Cardinality(G) >= 1
  BY DEF Room
<1> HIDE DEF G
<1>2. G # {}
  BY <1>1, FS_EmptySet
<1>3. QED
  BY <1>2 DEF G

(* The other free places stay free, and the new node is found. *)
LEMMA StillFree ==
  ASSUME NEW d, NEW n, NEW k, NEW v, NEW m, NEW e, Grown(d, n, k, v, m, e),
         d[n].kind # "gone", NEW j \in FindAll(d, "gone"), j # m
  PROVE  j \in FindAll(e, "gone")
<1>1. j \in Nodes /\ d[j].kind = "gone" /\ j # n /\ j \in All0
  BY DEF FindAll, All0
<1>2. e[j] = d[j]
  BY <1>1 DEF Grown
<1>3. QED
  BY <1>1, <1>2 DEF FindAll

LEMMA ChildGrown ==
  ASSUME NEW d, Tree(d), NEW n \in All0, NEW k, NEW v, NEW m, NEW e,
         Grown(d, n, k, v, m, e), Child(d, n, k, v) = {}
  PROVE  Child(e, n, k, v) = {m} /\ (CHOOSE x \in Child(e, n, k, v) : TRUE) = m
<1>1. d \in [All0 -> Node] /\ Kids(d, n) \subseteq Nodes /\ Nodes \subseteq All0
  BY KidsAre DEF Tree, All0
<1>2. m \in Child(e, n, k, v)
  BY DEF Grown, Child, Find
<1>3. ASSUME NEW x \in Child(e, n, k, v), x # m PROVE FALSE
  <2>1. x \in Kids(d, n) /\ e[x].kind = k /\ e[x].key = v /\ x \in All0
    BY <1>1, <1>3 DEF Child, Find, Grown
  <2>2. d[x].kind = e[x].kind /\ d[x].key = e[x].key
    BY <1>3, <2>1 DEF Grown
  <2>3. QED
    BY <2>1, <2>2 DEF Child, Find
<1>4. Child(e, n, k, v) = {m}
  BY <1>2, <1>3
<1>5. QED
  BY <1>4

-----------------------------------------------------------------------------
(* The documents that are whole. *)

Whole(d) == Tree(d) /\ Shape(d, {})

LEMMA EmptyWhole ==
  /\ Whole(Empty) /\ FindAll(Empty, "gone") = Nodes
  /\ Empty[Root].kind = "root" /\ \A n \in All0 : Kids(Empty, n) = {}
<1>1. Gone \in Node /\ Top \in Node
  BY EmptySeq DEF Gone, Top, Node, Keys
<1>2. Empty \in [All0 -> Node]
  BY <1>1 DEF Empty, All0
<1>3. Empty[Root] = Top /\ \A n \in Nodes : Empty[n] = Gone
  BY NodesAre DEF Empty
<1>4. /\ Top.kind = "root" /\ Top.kids = <<>> /\ Gone.kind = "gone" /\ Gone.kids = <<>>
      /\ Gone.key = ""
  BY DEF Top, Gone
<1>5. \A n \in All0 : Empty[n].kids = <<>>
  BY <1>3, <1>4 DEF All0
<1>6. \A n \in All0 : Kids(Empty, n) = {}
  BY <1>2, <1>5, NoKids
<1>7. Tree(Empty)
  BY <1>2, <1>3, <1>4, <1>5, <1>6 DEF Tree
<1>8. Shape(Empty, {})
  <2>1. OneOfAName(Empty)
    BY <1>6 DEF OneOfAName
  <2>2. Plain(Empty)
    BY <1>3, <1>4 DEF Plain
  <2>3. Headed(Empty)
    BY <1>6 DEF Headed, All0
  <2>4. FindAll(Empty, "service") = {}
    BY <1>3, <1>4 DEF FindAll
  <2>5. QED
    BY <2>1, <2>2, <2>3, <2>4 DEF Shape, Packed
<1>9. FindAll(Empty, "gone") = Nodes
  BY <1>3, <1>4 DEF FindAll
<1>10. QED
  BY <1>3, <1>4, <1>6, <1>7, <1>8, <1>9 DEF Whole

(* A node that is added in a whole document, and leaves it whole but for   *)
(* the services in Y.                                                      *)
LEMMA GrowWhole ==
  ASSUME NEW d, Tree(d), NEW X, Shape(d, X), FindAll(d, "gone") # {}, NEW n \in All0,
         d[n].kind # "gone", NEW k \in Kinds, NEW v \in Keys, Child(d, n, k, v) = {},
         k \in {"packages", "display"} => v = "",
         k = "display" => Kids(d, n) = {}
  PROVE  \E m \in Nodes :
            /\ Grown(d, n, k, v, m, Grow(d, n, k, v))
            /\ \A Y : Covers(Y, X, d, n, k, m) => Shape(Grow(d, n, k, v), Y)
<1>1. PICK m : Grown(d, n, k, v, m, Grow(d, n, k, v))
  BY GrowFacts
<1>2. m \in Nodes
  BY <1>1 DEF Grown
<1> DEFINE e == Grow(d, n, k, v)
<1> HIDE DEF e
<1>3. Grown(d, n, k, v, m, e)
  BY <1>1 DEF e
<1>4. ASSUME NEW Y, Covers(Y, X, d, n, k, m) PROVE Shape(e, Y)
  BY <1>3, <1>4, GrowShape
<1>5. QED
  BY <1>2, <1>3, <1>4 DEF e

(* The paths of one document lead the same way in another. *)
Keeps(d, e) == \A p, q : Leads(d, p, q) => Leads(e, p, q)

LEMMA GrownKeeps ==
  ASSUME NEW d, Tree(d), NEW n, NEW k, NEW v, NEW m, NEW e, Grown(d, n, k, v, m, e)
  PROVE  Keeps(d, e)
BY LeadsGrown DEF Keeps

(* What is not a child stays so when something else is added. *)
LEMMA NoChildStays ==
  ASSUME NEW d, Tree(d), NEW n \in All0, NEW k, NEW v, NEW m, NEW e,
         Grown(d, n, k, v, m, e), NEW h \in All0, h # m, NEW g, NEW w,
         Child(d, h, g, w) = {}, h # n \/ k # g \/ v # w
  PROVE  Child(e, h, g, w) = {}
<1>1. d \in [All0 -> Node] /\ Kids(d, h) \subseteq Nodes /\ Nodes \subseteq All0
  BY KidsAre DEF Tree, All0
<1>2. ASSUME NEW x \in Child(e, h, g, w) PROVE FALSE
  <2>1. x \in Kids(e, h) /\ e[x].kind = g /\ e[x].key = w
    BY DEF Child, Find
  <2>2. CASE x = m
    <3>1. h = n
      BY <2>1, <2>2 DEF Grown
    <3>2. e[m].kind = k /\ e[m].key = v
      BY DEF Grown
    <3>3. QED
      BY <2>1, <2>2, <3>1, <3>2
  <2>3. CASE x # m
    <3>1. x \in Kids(d, h)
      BY <2>1, <2>3 DEF Grown
    <3>2. d[x].kind = e[x].kind /\ d[x].key = e[x].key
      BY <1>1, <2>3, <3>1 DEF Grown
    <3>3. QED
      BY <2>1, <3>1, <3>2 DEF Child, Find
  <2>4. QED
    BY <2>2, <2>3
<1>3. QED
  BY <1>2

(* A service with its packages is added. *)
ServiceIn(d, u) ==
  LET with == Grow(d, Root, "service", u)
      new  == CHOOSE n \in Child(with, Root, "service", u) : TRUE
  IN Grow(with, new, "packages", "")

LEMMA ServiceInWhole ==
  ASSUME NEW d, Whole(d), NEW u \in Uris, Child(d, Root, "service", u) = {},
         NEW a \in FindAll(d, "gone"), NEW b \in FindAll(d, "gone"), a # b
  PROVE  Whole(ServiceIn(d, u)) /\ Keeps(d, ServiceIn(d, u))
<1> DEFINE with == Grow(d, Root, "service", u)
           new  == CHOOSE n \in Child(with, Root, "service", u) : TRUE
           e    == Grow(with, new, "packages", "")
<1>1. /\ Tree(d) /\ Shape(d, {}) /\ d[Root].kind = "root" /\ Root \in All0
      /\ "service" \in Kinds /\ "packages" \in Kinds /\ u \in Keys /\ "" \in Keys
  BY DEF Whole, Tree, All0, Kinds, Keys
<1>2. PICK m \in Nodes :
         /\ Grown(d, Root, "service", u, m, with)
         /\ \A Y : Covers(Y, {}, d, Root, "service", m) => Shape(with, Y)
  BY <1>1, GrowWhole
<1> HIDE DEF with
<1>3. Tree(with) /\ with[m].kind = "service" /\ Kids(with, m) = {} /\ m \in All0
  BY <1>2 DEF Grown, All0
<1>4. Shape(with, {m})
  BY <1>1, <1>2 DEF Covers
<1>5. new = m
  <2>1. Child(with, Root, "service", u) = {m}
    BY <1>1, <1>2, ChildGrown
  <2>2. QED
    BY <2>1
<1>6. FindAll(with, "gone") # {}
  BY <1>1, <1>2, StillFree
<1>7. Child(with, m, "packages", "") = {}
  BY <1>3 DEF Child, Find
<1> HIDE DEF new
<1>8. e = Grow(with, m, "packages", "")
  BY <1>5
<1> HIDE DEF e
<1>9. PICK k \in Nodes :
         /\ Grown(with, m, "packages", "", k, e)
         /\ \A Y : Covers(Y, {m}, with, m, "packages", k) => Shape(e, Y)
  BY <1>1, <1>3, <1>4, <1>6, <1>7, <1>8, GrowWhole
<1>10. Covers({}, {m}, with, m, "packages", k)
  BY DEF Covers
<1>11. Whole(e)
  BY <1>9, <1>10 DEF Whole, Grown
<1>12. Keeps(d, with) /\ Keeps(with, e)
  BY <1>1, <1>2, <1>3, <1>9, GrownKeeps
<1>13. e = ServiceIn(d, u)
  BY DEF ServiceIn, e, new, with
<1>14. QED
  BY <1>11, <1>12, <1>13 DEF Keeps

(* An element is added, with its display name if it has one. *)
ElementIn(d, h, k, v, shown) ==
  LET with == Grow(d, h, k, v)
      new  == CHOOSE n \in Child(with, h, k, v) : TRUE
  IN IF shown THEN Grow(with, new, "display", "") ELSE with

ElementAdded(d, X, h, e) ==
  /\ Tree(e) /\ Shape(e, X) /\ Keeps(d, e) /\ e[h].kind = d[h].kind
  /\ Child(d, h, "packages", "") = {} => Child(e, h, "packages", "") = {}
  /\ \A a, b, c \in FindAll(d, "gone") :
        a # b /\ b # c /\ a # c => FindAll(e, "gone") # {}

LEMMA ElementInAdded ==
  ASSUME NEW d, Tree(d), NEW X, Shape(d, X), NEW h \in Nodes, d[h].kind # "gone",
         d[h].kind = "service" => h \in X, NEW k \in {"list", "entry", "link"},
         NEW v \in Keys, NEW shown \in BOOLEAN, Child(d, h, k, v) = {},
         NEW a \in FindAll(d, "gone"), NEW b \in FindAll(d, "gone"), a # b
  PROVE  ElementAdded(d, X, h, ElementIn(d, h, k, v, shown))
<1> DEFINE with == Grow(d, h, k, v)
           new  == CHOOSE n \in Child(with, h, k, v) : TRUE
           e    == Grow(with, new, "display", "")
<1>1. h \in All0 /\ k \in Kinds /\ "display" \in Kinds /\ "" \in Keys
  BY DEF All0, Kinds, Keys
<1>2. PICK m \in Nodes :
         /\ Grown(d, h, k, v, m, with)
         /\ \A Y : Covers(Y, X, d, h, k, m) => Shape(with, Y)
  BY <1>1, GrowWhole
<1>3. Covers(X, X, d, h, k, m)
  BY DEF Covers
<1> HIDE DEF with
<1>4. /\ Tree(with) /\ with[m].kind = k /\ Kids(with, m) = {} /\ m \in All0 /\ m # h
      /\ with[h].kind = d[h].kind
  BY <1>2 DEF Grown, All0
<1>5. Shape(with, X) /\ Keeps(d, with)
  BY <1>2, <1>3, GrownKeeps
<1>6. Child(d, h, "packages", "") = {} => Child(with, h, "packages", "") = {}
  <2>1. Grown(d, h, k, v, m, with) /\ h # m /\ k # "packages"
    BY <1>2, <1>4
  <2>2. ASSUME Child(d, h, "packages", "") = {}
        PROVE  Child(with, h, "packages", "") = {}
    <3>1. Tree(d) /\ h \in All0 /\ Grown(d, h, k, v, m, with) /\ h # m
      BY <1>1, <2>1
    <3>2. \A g, w : g # k /\ Child(d, h, g, w) = {} => Child(with, h, g, w) = {}
      BY <3>1, NoChildStays
    <3>3. QED
      BY <2>1, <2>2, <3>2
  <2>3. QED
    BY <2>2
<1>7. \A x \in FindAll(d, "gone") : x # m => x \in FindAll(with, "gone")
  BY <1>2, StillFree
<1>8. ElementAdded(d, X, h, with)
  BY <1>4, <1>5, <1>6, <1>7 DEF ElementAdded
<1>9. ElementAdded(d, X, h, e)
  <2>1. new = m
    <3>1. Child(with, h, k, v) = {m}
      BY <1>1, <1>2, ChildGrown
    <3>2. QED
      BY <3>1
  <2>2. FindAll(with, "gone") # {}
    BY <1>7
  <2>3. Child(with, m, "display", "") = {}
    BY <1>4 DEF Child, Find
  <2> HIDE DEF new
  <2>4. e = Grow(with, m, "display", "")
    BY <2>1
  <2> HIDE DEF e
  <2>5. PICK j \in Nodes :
           /\ Grown(with, m, "display", "", j, e)
           /\ \A Y : Covers(Y, X, with, m, "display", j) => Shape(e, Y)
    BY <1>1, <1>4, <1>5, <2>2, <2>3, <2>4, GrowWhole
  <2>6. Covers(X, X, with, m, "display", j)
    BY <1>4 DEF Covers
  <2>7. Shape(e, X) /\ Tree(e) /\ Keeps(with, e)
    <3>1. Shape(e, X) /\ Tree(e)
      BY <2>5, <2>6 DEF Grown
    <3>2. Keeps(with, e)
      BY <1>4, <2>5, GrownKeeps
    <3>3. QED
      BY <3>1, <3>2
  <2>8. Keeps(d, e)
    BY <1>5, <2>7 DEF Keeps
  <2>9. h # j
    <3>1. with[j].kind = "gone"
      BY <2>5 DEF Grown
    <3>2. QED
      BY <1>4, <3>1
  <2>10. e[h].kind = d[h].kind
    BY <1>1, <1>4, <2>5, <2>9 DEF Grown
  <2>11. Child(d, h, "packages", "") = {} => Child(e, h, "packages", "") = {}
    <3>1. Grown(with, m, "display", "", j, e) /\ Tree(with)
      BY <1>4, <2>5
    <3>2. ASSUME Child(with, h, "packages", "") = {}
          PROVE  Child(e, h, "packages", "") = {}
      <4>1. Tree(with) /\ m \in All0 /\ h \in All0 /\ h # m /\ h # j
        BY <1>1, <1>4, <2>9, <3>1
      <4>2. PICK k2, v2 : Grown(with, m, k2, v2, j, e)
        BY <3>1
      <4>3. \A g, w : Child(with, h, g, w) = {} => Child(e, h, g, w) = {}
        BY <4>1, <4>2, NoChildStays
      <4>4. QED
        BY <3>2, <4>3
    <3>3. QED
      BY <1>6, <3>2
  <2>12. \A x \in FindAll(with, "gone") : x # j => x \in FindAll(e, "gone")
    BY <1>4, <2>5, StillFree
  <2>13. ASSUME NEW x \in FindAll(d, "gone"), NEW y \in FindAll(d, "gone"),
                NEW z \in FindAll(d, "gone"), x # y /\ y # z /\ x # z
         PROVE  FindAll(e, "gone") # {}
    <3>1. PICK w \in {x, y, z} : w # m /\ w # j
      BY <2>13
    <3>2. w \in FindAll(e, "gone")
      BY <1>7, <2>12, <3>1
    <3>3. QED
      BY <3>2
  <2>14. QED
    BY <2>7, <2>8, <2>10, <2>11, <2>13 DEF ElementAdded
<1>10. ElementIn(d, h, k, v, shown) = IF shown THEN e ELSE with
  BY DEF ElementIn, e, new, with
<1> HIDE DEF e
<1>11. QED
  BY <1>8, <1>9, <1>10

(* The packages of a service are taken away. *)
PackageTaken(d, h, p, e) ==
  /\ Tree(e) /\ Shape(e, {h}) /\ e[h].kind = "service"
  /\ Child(e, h, "packages", "") = {}
  /\ \A k, v : Child(d, h, k, v) = {} => Child(e, h, k, v) = {}
  /\ p \in FindAll(e, "gone") /\ FindAll(d, "gone") \subseteq FindAll(e, "gone")

LEMMA PackageTakes ==
  ASSUME NEW d, Whole(d), NEW h \in Nodes, d[h].kind = "service",
         NEW p \in Find(d, h, "packages"), h \notin Lost(d, {p})
  PROVE  PackageTaken(d, h, p, Prune(d, {p}))
<1> DEFINE e == Prune(d, {p})
<1>1. /\ Tree(d) /\ Shape(d, {}) /\ d \in [All0 -> Node] /\ h \in All0
      /\ Nodes \subseteq All0
  BY DEF Whole, Tree, All0
<1>2. p \in Kids(d, h) /\ d[p].kind = "packages" /\ p \in Nodes /\ {p} \in SUBSET Nodes
  BY <1>1, KidsAre DEF Find
<1>3. Pruned(d, {p}, e)
  BY <1>1, <1>2, PruneFacts
<1> HIDE DEF e
<1>4. Tree(e) /\ e[h].kind = "service" /\ Kids(e, h) = Kids(d, h) \ {p}
  BY <1>1, <1>3 DEF Pruned
<1>5. Shape(e, {h})
  <2>1. ASSUME NEW n \in FindAll(d, "service") \ {h}
        PROVE  n \notin {} /\ d[n].kids[Len(d[n].kids)] \notin {p}
    <3>1. n \in FindAll(d, "service") \ {} /\ n \in All0 /\ n # h
      BY DEF FindAll, All0
    <3>2. d[n].kids # <<>>
      BY <1>1, <3>1 DEF Shape, Packed
    <3>3. d[n].kids[Len(d[n].kids)] \in Kids(d, n)
      BY <1>1, <3>1, <3>2, EndsAreKids
    <3>4. p \notin Kids(d, n)
      BY <1>1, <1>2, <3>1 DEF Tree
    <3>5. QED
      BY <3>3, <3>4
  <2>2. QED
    BY <1>1, <1>2, <1>3, <2>1, PruneShape
<1>6. ASSUME NEW x \in Kids(e, h)
      PROVE  x \in Kids(d, h) /\ x # p /\ e[x].kind = d[x].kind /\ e[x].key = d[x].key
  <2>1. x \in Kids(d, h) /\ x # p /\ x \in All0
    BY <1>1, <1>4, KidsAre
  <2>2. x \notin Lost(d, {p})
    BY <1>1, <1>3 DEF Pruned
  <2>3. QED
    BY <1>3, <2>1, <2>2 DEF Pruned
<1>7. ASSUME NEW k, NEW v, Child(d, h, k, v) = {} PROVE Child(e, h, k, v) = {}
  BY <1>6, <1>7 DEF Child, Find
<1>8. Child(e, h, "packages", "") = {}
  <2>1. ASSUME NEW x \in Kids(e, h), e[x].kind = "packages" PROVE FALSE
    <3>1. x \in Kids(d, h) /\ x # p /\ d[x].kind = "packages" /\ x \in Nodes
      BY <1>1, <1>6, <2>1, KidsAre
    <3>2. d[x].key = "" /\ d[p].key = ""
      BY <1>1, <1>2, <3>1 DEF Shape, Plain
    <3>3. QED
      BY <1>1, <1>2, <3>1, <3>2 DEF Shape, OneOfAName
  <2>2. QED
    BY <2>1 DEF Child, Find
<1>9. p \in Lost(d, {p})
  BY <1>2, LostClimbs, <1>1
<1>10. p \in FindAll(e, "gone")
  BY <1>2, <1>3, <1>9, GoneIs DEF Pruned, FindAll
<1>11. ASSUME NEW x \in FindAll(d, "gone") PROVE x \in FindAll(e, "gone")
  <2>1. x \in Nodes /\ x \in All0 /\ d[x].kind = "gone"
    BY DEF FindAll, All0
  <2>2. CASE x \in Lost(d, {p})
    BY <1>3, <2>1, <2>2, GoneIs DEF Pruned, FindAll
  <2>3. CASE x \notin Lost(d, {p})
    BY <1>3, <2>1, <2>3 DEF Pruned, FindAll
  <2>4. QED
    BY <2>2, <2>3
<1>12. PackageTaken(d, h, p, e)
  BY <1>4, <1>5, <1>7, <1>8, <1>10, <1>11 DEF PackageTaken
<1>13. QED
  BY <1>12 DEF e

-----------------------------------------------------------------------------
(* The methods of the document, one by one. *)

(* What holds of the document and its path between two methods: as far as  *)
(* the pointers do not dangle, the path leads where its names say; behind  *)
(* the first pointer that dangles all do.                                  *)
Held(d, p, q, s, t) ==
  /\ Leads(d, s, t) /\ Len(s) <= Len(p)
  /\ \A i \in 1..Len(s) : p[i] = s[i] /\ q[i] = t[i]
  /\ \A i \in 1..Len(p) : i > Len(s) => q[i] = Dangling

Led(d, p, q) == \E s, t : Held(d, p, q, s, t)
Pointers == Nodes \cup {Dangling}

Placed ==
  /\ Whole(doc) /\ path \in Seq(Keys) /\ pointers \in Seq(Pointers)
  /\ Len(path) = Len(pointers)
  /\ Led(doc, path, pointers)

LEMMA DanglingIs == Dangling \notin Nodes /\ Nodes \subseteq Pointers
BY NodesAre DEF Dangling, Nodes, Pointers

(* A path that leads somewhere is led there, and is one of pointers.       *)
LEMMA LeadsLed ==
  ASSUME NEW d, NEW p, NEW q, Leads(d, p, q)
  PROVE  /\ Led(d, p, q) /\ p \in Seq(Keys) /\ q \in Seq(Pointers)
         /\ Len(p) = Len(q)
<1>1. p \in Seq(Keys) /\ q \in Seq(Nodes) /\ Len(p) = Len(q) /\ Len(p) \in Nat
  BY DEF Leads, Chain
<1>2. q \in Seq(Pointers)
  BY <1>1, DanglingIs
<1>3. Len(p) <= Len(p) /\ \A i \in 1..Len(p) : ~(i > Len(p))
  BY <1>1
<1>4. Held(d, p, q, p, q)
  BY <1>3 DEF Held
<1>5. QED
  BY <1>1, <1>2, <1>4 DEF Led

(* What keeps every path keeps this one, as far as it leads.               *)
LEMMA LedKept ==
  ASSUME NEW d, NEW p, NEW q, Led(d, p, q), NEW e, Keeps(d, e)
  PROVE  Led(e, p, q)
<1>1. PICK s, t : Held(d, p, q, s, t)
  BY DEF Led
<1>2. Held(e, p, q, s, t)
  BY <1>1 DEF Held, Keeps
<1>3. QED
  BY <1>2 DEF Led

LEMMA LedPruned ==
  ASSUME NEW d, Tree(d), NEW p, NEW q, Led(d, p, q), Len(p) = Len(q), Len(p) \in Nat,
         NEW ns \in SUBSET Nodes, \A i \in 1..Len(q) : q[i] \notin ns,
         NEW e, Pruned(d, ns, e)
  PROVE  Led(e, p, q)
<1>1. PICK s, t : Held(d, p, q, s, t)
  BY DEF Led
<1>2. Leads(d, s, t) /\ Len(s) = Len(t) /\ Len(s) \in Nat /\ Len(s) <= Len(p)
  BY <1>1 DEF Held, Leads
<1>3. \A i \in 1..Len(t) : t[i] = q[i] /\ i \in 1..Len(q)
  BY <1>1, <1>2 DEF Held
<1>4. \A i \in 1..Len(t) : t[i] \notin ns
  BY <1>3
<1>5. Leads(e, s, t)
  BY <1>2, <1>4, LeadsPruned
<1>6. Held(e, p, q, s, t)
  BY <1>1, <1>5 DEF Held
<1>7. QED
  BY <1>6 DEF Led

(* Where the last pointer does not dangle none does.                       *)
LEMMA LastLeads ==
  ASSUME NEW d, NEW p \in Seq(Keys), NEW q \in Seq(Pointers), Len(p) = Len(q),
         Led(d, p, q), q # <<>>, q[Len(q)] # Dangling
  PROVE  Leads(d, p, q)
<1>1. PICK s, t : Held(d, p, q, s, t)
  BY DEF Led
<1>2. /\ Leads(d, s, t) /\ s \in Seq(Keys) /\ t \in Seq(Pointers)
      /\ Len(s) = Len(t)
  BY <1>1, LeadsLed DEF Held
<1>3. Len(q) \in Nat \ {0} /\ Len(p) \in 1..Len(p) /\ Len(s) \in Nat
  BY <1>2, EmptySeq
<1>4. Len(s) = Len(p)
  <2>1. Len(s) <= Len(p) /\ ~(Len(p) > Len(s))
    BY <1>1, <1>3 DEF Held
  <2>2. QED
    BY <1>3, <2>1
<1>5. \A i \in 1..Len(s) : p[i] = s[i] /\ q[i] = t[i]
  BY <1>1 DEF Held
<1>6. s = p
  BY <1>2, <1>4, <1>5, SeqEqual
<1>7. t = q
  <2>1. Len(t) = Len(q) /\ \A i \in 1..Len(t) : t[i] = q[i]
    BY <1>2, <1>4, <1>5
  <2>2. QED
    BY <1>2, <2>1, SeqEqual
<1>8. QED
  BY <1>2, <1>6, <1>7

LEMMA HereIs ==
  ASSUME Placed, OnPath
  PROVE  /\ Leads(doc, path, pointers) /\ Chain(doc, pointers)
         /\ pointers # <<>> /\ Here \in Nodes /\ Here = pointers[Len(pointers)]
         /\ Len(pointers) \in Nat \ {0} /\ Len(pointers) \in 1..Len(pointers)
         /\ doc[Here].kind = KindAt(Len(pointers)) /\ doc[Here].kind # "gone"
<1>1. pointers # <<>> /\ Here # Dangling
  BY DEF OnPath
<1>2. Len(pointers) \in Nat \ {0}
  BY <1>1, EmptySeq DEF Placed
<1>3. Here = pointers[Len(pointers)] /\ Len(pointers) \in 1..Len(pointers)
  BY <1>2 DEF Here, Last
<1>4. Leads(doc, path, pointers) /\ Chain(doc, pointers)
  BY <1>1, <1>3, LastLeads DEF Placed, Leads
<1>5. Here \in Nodes
  BY <1>3, <1>4, ChainAt
<1>6. doc[Here].kind = KindAt(Len(pointers))
  BY <1>3, <1>4 DEF Leads
<1>7. doc[Here].kind # "gone"
  BY <1>6 DEF KindAt
<1>8. QED
  BY <1>1, <1>2, <1>3, <1>4, <1>5, <1>6, <1>7

LEMMA AddElementWhole ==
  ASSUME Placed, NEW k \in {"list", "entry", "link"}, NEW v \in Keys,
         NEW shown \in BOOLEAN, AddElementL(k, v, shown)
  PROVE  Whole(doc') /\ Keeps(doc, doc')
<1> DEFINE d1   == RemovePackageL(doc)
           full == ElementIn(d1, Here, k, v, shown)
           gone(d) == FindAll(d, "gone")
<1>1. /\ OnPath /\ Room(doc, 2) /\ Child(doc, Here, k, v) = {}
      /\ doc' = AddPackageL(full)
  BY DEF AddElementL, GetNonLeafChild, ElementIn
<1>2. /\ Leads(doc, path, pointers) /\ Chain(doc, pointers)
      /\ pointers # <<>> /\ Here \in Nodes /\ Here = pointers[Len(pointers)]
      /\ Len(pointers) \in Nat \ {0} /\ Len(pointers) \in 1..Len(pointers)
      /\ doc[Here].kind = KindAt(Len(pointers)) /\ doc[Here].kind # "gone"
  BY <1>1, HereIs
<1>3. PICK a \in gone(doc), b \in gone(doc) : a # b
  BY <1>1, RoomForTwo
<1>4. Whole(doc) /\ Tree(doc) /\ Shape(doc, {}) /\ Here \in All0
  BY <1>2 DEF Placed, Whole, All0
<1>5. CASE ~AtService
  <2>1. d1 = doc /\ doc' = full
    BY <1>1, <1>5 DEF RemovePackageL, AddPackageL
  <2>2. doc[Here].kind # "service"
    BY <1>2, <1>5 DEF AtService, KindAt
  <2> HIDE DEF d1
  <2>3. ElementAdded(doc, {}, Here, full)
    BY <1>1, <1>2, <1>3, <1>4, <2>1, <2>2, ElementInAdded
  <2> HIDE DEF full
  <2>4. QED
    BY <2>1, <2>3 DEF ElementAdded, Whole
<1>6. CASE AtService
  <2>1. Here = pointers[1] /\ Len(pointers) = 1 /\ doc[Here].kind = "service"
    BY <1>2, <1>6 DEF AtService, KindAt
  <2>2. Find(doc, Here, "packages") # {}
    <3>1. Here \in FindAll(doc, "service") \ {} /\ doc \in [All0 -> Node]
      BY <1>2, <1>4, <2>1 DEF FindAll, Tree
    <3>2. /\ doc[Here].kids # <<>>
          /\ doc[doc[Here].kids[Len(doc[Here].kids)]].kind = "packages"
      BY <1>4, <3>1 DEF Shape, Packed
    <3>3. QED
      BY <1>4, <3>1, <3>2, EndsAreKids DEF Find
  <2> DEFINE p == CHOOSE n \in Find(doc, Here, "packages") : TRUE
  <2>3. p \in Find(doc, Here, "packages")
    BY <2>2
  <2>4. d1 = Prune(doc, {p}) /\ doc' = Grow(full, Here, "packages", "")
    BY <1>1, <1>6, <2>1, <2>2 DEF RemovePackageL, AddPackageL
  <2> HIDE DEF p
  <2>5. doc[p].kind = "packages" /\ p \in Nodes /\ {p} \in SUBSET Nodes
    BY <1>4, <2>3, KidsAre DEF Find, Tree
  <2>6. \A i \in 1..Len(pointers) : pointers[i] \notin {p}
    BY <2>1, <2>5
  <2>7. Here \notin Lost(doc, {p})
    BY <1>2, <1>4, <2>5, <2>6, ChainNotLost
  <2> HIDE DEF d1
  <2>8. PackageTaken(doc, Here, p, d1)
    BY <1>2, <1>4, <2>1, <2>3, <2>4, <2>7, PackageTakes
  <2>9. /\ Tree(d1) /\ Shape(d1, {Here}) /\ d1[Here].kind = "service"
        /\ Child(d1, Here, "packages", "") = {} /\ Child(d1, Here, k, v) = {}
        /\ p \in gone(d1) /\ a \in gone(d1) /\ b \in gone(d1)
    BY <1>1, <1>3, <2>8 DEF PackageTaken
  <2>10. ElementAdded(d1, {Here}, Here, full)
    BY <1>2, <1>3, <2>9, ElementInAdded
  <2> HIDE DEF full
  <2>11. p # a /\ p # b
    BY <1>3, <2>5 DEF FindAll
  <2>12. /\ Tree(full) /\ Shape(full, {Here}) /\ Keeps(d1, full)
         /\ full[Here].kind = "service" /\ Child(full, Here, "packages", "") = {}
         /\ gone(full) # {}
    BY <1>3, <2>9, <2>10, <2>11 DEF ElementAdded
  <2>13. "packages" \in Kinds /\ "" \in Keys
    BY DEF Kinds, Keys
  <2> DEFINE e == Grow(full, Here, "packages", "")
  <2>14. PICK m \in Nodes :
            /\ Grown(full, Here, "packages", "", m, e)
            /\ \A Y : Covers(Y, {Here}, full, Here, "packages", m) => Shape(e, Y)
    BY <1>4, <2>12, <2>13, GrowWhole
  <2> HIDE DEF e
  <2>15. Covers({}, {Here}, full, Here, "packages", m)
    BY DEF Covers
  <2>16. Whole(e)
    BY <2>14, <2>15 DEF Whole, Grown
  <2>17. Keeps(full, e)
    BY <2>12, <2>14, GrownKeeps
  <2>18. Keeps(doc, d1)
    <3> SUFFICES ASSUME NEW s, NEW q, Leads(doc, s, q) PROVE Leads(d1, s, q)
      BY DEF Keeps
    <3>1. \A i \in 1..Len(q) : q[i] \notin {p}
      BY <2>5 DEF Leads, KindAt
    <3>2. Pruned(doc, {p}, d1)
      BY <1>4, <2>4, <2>5, PruneFacts
    <3>3. QED
      BY <1>4, <2>5, <3>1, <3>2, LeadsPruned
  <2>19. QED
    BY <2>4, <2>12, <2>16, <2>17, <2>18 DEF Keeps, e
<1>7. QED
  BY <1>5, <1>6

(* The document is changed, and the path is kept. *)
LEMMA PathKept ==
  ASSUME Placed, Whole(doc'), KeepPath, Led(doc', path, pointers)
  PROVE  Placed'
BY DEF Placed, KeepPath

(* The path is set anew. *)
LEMMA PathSet ==
  ASSUME Whole(doc'), Leads(doc', path', pointers')
  PROVE  Placed'
BY LeadsLed DEF Placed

(* The document is kept whole, and the path is given up. *)
LEMMA NowhereLeads ==
  ASSUME NEW d
  PROVE  Leads(d, <<>>, <<>>)
<1>1. <<>> \in Seq(Keys) /\ <<>> \in Seq(Nodes) /\ Len(<<>>) = 0 /\ 1..0 = {}
  BY EmptySeq
<1>2. QED
  BY <1>1 DEF Leads, Chain

LEMMA PathReset ==
  ASSUME Whole(doc'), ResetPath
  PROVE  Placed'
<1>1. Leads(doc', path', pointers')
  BY NowhereLeads DEF ResetPath
<1>2. QED
  BY <1>1, PathSet

LEMMA AddServicePlaced ==
  ASSUME Placed, NEW u \in Uris, AddServiceURIL(u)
  PROVE  Placed'
<1>1. /\ rooted /\ ~IsServiceUriExist(u) /\ Room(doc, 2) /\ KeepPath
      /\ doc' = ServiceIn(doc, u)
  BY DEF AddServiceURIL, ServiceIn
<1>2. Child(doc, Root, "service", u) = {}
  BY <1>1 DEF IsServiceUriExist
<1>3. PICK a \in FindAll(doc, "gone"), b \in FindAll(doc, "gone") : a # b
  BY <1>1, RoomForTwo
<1>4. Whole(doc') /\ Keeps(doc, doc')
  BY <1>1, <1>2, <1>3, ServiceInWhole DEF Placed
<1>5. Led(doc', path, pointers)
  BY <1>4, LedKept DEF Placed
<1>6. QED
  BY <1>1, <1>4, <1>5, PathKept

LEMMA AddElementPlaced ==
  ASSUME Placed, NEW k \in {"list", "entry", "link"}, NEW v \in Keys,
         NEW shown \in BOOLEAN, AddElementL(k, v, shown)
  PROVE  Placed'
<1>1. Whole(doc') /\ Keeps(doc, doc') /\ KeepPath
  BY AddElementWhole DEF AddElementL
<1>2. Led(doc', path, pointers)
  BY <1>1, LedKept DEF Placed
<1>3. QED
  BY <1>1, <1>2, PathKept

(* Nodes are removed that are not the packages of a service that stays. *)
LEMMA PruneWhole ==
  ASSUME NEW d, Whole(d), NEW ns \in SUBSET Nodes,
         \A n \in FindAll(d, "service") : \A x \in Kids(d, n) :
            d[x].kind = "packages" => x \notin ns
  PROVE  Whole(Prune(d, ns)) /\ Pruned(d, ns, Prune(d, ns))
<1>1. Tree(d) /\ Shape(d, {}) /\ d \in [All0 -> Node]
  BY DEF Whole, Tree
<1>2. Pruned(d, ns, Prune(d, ns))
  BY <1>1, PruneFacts
<1>3. ASSUME NEW n \in FindAll(d, "service") \ {}
      PROVE  n \notin {} /\ d[n].kids[Len(d[n].kids)] \notin ns
  <2>1. d[n].kids # <<>> /\ d[d[n].kids[Len(d[n].kids)]].kind = "packages"
    BY <1>1 DEF Shape, Packed
  <2>2. n \in All0
    BY DEF FindAll, All0
  <2>3. d[n].kids[Len(d[n].kids)] \in Kids(d, n)
    BY <1>1, <2>1, <2>2, EndsAreKids
  <2>4. QED
    BY <2>1, <2>3
<1>4. Shape(Prune(d, ns), {})
  BY <1>1, <1>2, <1>3, PruneShape
<1>5. QED
  BY <1>2, <1>4 DEF Whole, Pruned

LEMMA RemoveServicePlaced ==
  ASSUME Placed, NEW u \in Uris, RemoveServiceURIL(u)
  PROVE  Placed'
<1> DEFINE n == ServiceNode(u)
<1>1. /\ Child(doc, Root, "service", u) # {} /\ doc' = Prune(doc, {n})
      /\ IF path # <<>> /\ path[1] = u THEN ResetPath ELSE UNCHANGED <<path, pointers>>
  BY DEF RemoveServiceURIL, IsServiceUriExist
<1>2. n \in Child(doc, Root, "service", u)
  BY <1>1 DEF ServiceNode
<1> HIDE DEF n
<1>3. Whole(doc) /\ Tree(doc) /\ doc \in [All0 -> Node]
  BY DEF Placed, Whole, Tree
<1>4. /\ n \in Nodes /\ {n} \in SUBSET Nodes /\ doc[n].kind = "service"
      /\ doc[n].key = u
  BY <1>2, <1>3, KidsAre DEF Child, Find, All0
<1>5. Whole(doc') /\ Pruned(doc, {n}, doc')
  BY <1>1, <1>3, <1>4, PruneWhole
<1>6. CASE path # <<>> /\ path[1] = u
  BY <1>1, <1>5, <1>6, PathReset
<1>7. CASE ~(path # <<>> /\ path[1] = u)
  <2>1. PICK s, t : Held(doc, path, pointers, s, t)
    BY DEF Placed, Led
  <2>2. /\ Leads(doc, s, t) /\ s \in Seq(Keys) /\ Len(s) = Len(t) /\ Len(s) \in Nat
        /\ Len(s) <= Len(path) /\ path \in Seq(Keys)
    BY <2>1 DEF Held, Leads, Placed
  <2>3. ASSUME NEW i \in 1..Len(t) PROVE t[i] \notin {n}
    <3>1. doc[t[i]].kind = KindAt(i) /\ doc[t[i]].key = s[i]
      BY <2>2 DEF Leads
    <3>2. CASE i = 1
      <4>1. path # <<>> /\ path[1] = s[1]
        BY <2>1, <2>2, <2>3, <3>2, EmptySeq DEF Held
      <4>2. QED
        BY <1>4, <1>7, <3>1, <3>2, <4>1
    <3>3. CASE i # 1
      BY <1>4, <3>1, <3>3 DEF KindAt
    <3>4. QED
      BY <3>2, <3>3
  <2>4. Leads(doc', s, t)
    BY <1>3, <1>4, <1>5, <2>2, <2>3, LeadsPruned
  <2>5. Led(doc', path, pointers)
    BY <2>1, <2>4 DEF Held, Led
  <2>6. QED
    BY <1>1, <1>5, <1>7, <2>5, PathKept DEF KeepPath
<1>8. QED
  BY <1>6, <1>7

LEMMA DeleteAllPlaced ==
  ASSUME Placed, DeleteAll
  PROVE  Placed'
<1>1. Whole(doc')
  BY EmptyWhole DEF DeleteAll, Placed
<1>2. QED
  BY <1>1, PathReset DEF DeleteAll

LEMMA DeleteEmptyServicesPlaced ==
  ASSUME Placed, DeleteAllEmptyServiceUrisL
  PROVE  Placed'
<1> DEFINE ns == {n \in FindAll(doc, "service") : Len(doc[n].kids) <= 1}
<1>1. ns \in SUBSET Nodes /\ \A x \in ns : doc[x].kind = "service"
  BY DEF FindAll
<1>2. doc' = Prune(doc, ns)
  BY DEF DeleteAllEmptyServiceUrisL
<1> HIDE DEF ns
<1>3. Whole(doc')
  BY <1>1, <1>2, PruneWhole DEF Placed
<1>4. QED
  BY <1>3, PathReset DEF DeleteAllEmptyServiceUrisL

(* A child of the last node, and what it is called there. *)
LEMMA ChildHere ==
  ASSUME Placed, OnPath, NEW k, NEW v, NEW n \in GetNonLeafChild(k, v)
  PROVE  /\ n \in Nodes /\ n \in Kids(doc, Here) /\ doc[n].kind = k /\ doc[n].key = v
         /\ \A i \in 1..Len(pointers) : pointers[i] # n
         /\ Chain(doc, Append(pointers, n))
         /\ Last(Append(pointers, n)) = n /\ Append(pointers, n) # <<>>
<1>1. n \in Kids(doc, Here) /\ doc[n].kind = k /\ doc[n].key = v
  BY DEF GetNonLeafChild, Child, Find
<1>2. /\ Chain(doc, pointers) /\ pointers # <<>> /\ Here \in Nodes
      /\ pointers \in Seq(Nodes)
  BY HereIs DEF Chain
<1>3. Tree(doc) /\ doc \in [All0 -> Node]
  BY DEF Placed, Whole, Tree
<1>4. n \in Nodes
  BY <1>1, <1>2, <1>3, KidsAre DEF All0
<1>5. \A i \in 1..Len(pointers) : pointers[i] # n
  BY <1>1, <1>2, <1>3, ChildIsOff DEF Here
<1>6. Chain(doc, Append(pointers, n))
  BY <1>1, <1>2, <1>4, ChainGoesOn DEF Here
<1>7. Last(Append(pointers, n)) = n /\ Append(pointers, n) # <<>>
  BY <1>2, <1>4, AppendEnds DEF Last
<1>8. QED
  BY <1>1, <1>4, <1>5, <1>6, <1>7

LEMMA RemoveElementPlaced ==
  ASSUME Placed, NEW k \in {"list", "entry", "link"}, NEW v,
         RemoveElementL(k, v)
  PROVE  Placed'
<1>1. OnPath /\ KeepPath
  BY DEF RemoveElementL
<1>2. PICK n \in GetNonLeafChild(k, v) : doc' = Prune(doc, {n})
  BY DEF RemoveElementL
<1>3. /\ n \in Nodes /\ {n} \in SUBSET Nodes /\ doc[n].kind = k
      /\ \A i \in 1..Len(pointers) : pointers[i] \notin {n}
  BY <1>1, <1>2, ChildHere
<1>4. Whole(doc) /\ Tree(doc)
  BY DEF Placed, Whole
<1>5. Whole(doc') /\ Pruned(doc, {n}, doc')
  BY <1>2, <1>3, <1>4, PruneWhole
<1>6. Led(doc', path, pointers)
  BY <1>3, <1>4, <1>5, LedPruned DEF Placed
<1>7. QED
  BY <1>1, <1>5, <1>6, PathKept

(* What is gone stays gone when nodes are removed. *)
LEMMA GoneStays ==
  ASSUME NEW d, NEW ns, NEW e, Pruned(d, ns, e), NEW x \in FindAll(d, "gone")
  PROVE  x \in FindAll(e, "gone")
<1>1. x \in Nodes /\ x \in All0 /\ d[x].kind = "gone"
  BY DEF FindAll, All0
<1>2. CASE x \in Lost(d, ns)
  BY <1>1, <1>2, GoneIs DEF Pruned, FindAll
<1>3. CASE x \notin Lost(d, ns)
  BY <1>1, <1>3 DEF Pruned, FindAll
<1>4. QED
  BY <1>2, <1>3

(* A node that is cleared has lost its children, and nothing else.         *)
LEMMA ClearIs ==
  ASSUME NEW d, Tree(d), NEW n \in All0, n \notin Lost(d, Kids(d, n)), NEW e,
         Pruned(d, Kids(d, n), e)
  PROVE  [e EXCEPT ![n].kids = <<>>] = e /\ Kids(e, n) = {}
<1>1. e \in [All0 -> Node] /\ Kids(e, n) = {}
  BY DEF Pruned, Tree
<1>2. e[n].kids = <<>>
  BY <1>1, NoKids
<1>3. e[n] \in Node
  BY <1>1
<1> DEFINE x == e[n]
<1>4. [x EXCEPT !.kids = <<>>] = x
  <2>1. x \in Node /\ x.kids = <<>>
    BY <1>2, <1>3
  <2> HIDE DEF x
  <2>2. QED
    BY <2>1 DEF Node
<1>5. QED
  BY <1>1, <1>4

LEMMA UpdateDisplayNamePlaced ==
  ASSUME Placed, NEW k \in {"list", "entry"}, NEW v,
         UpdateDisplayNameL(k, v)
  PROVE  Placed'
<1>1. OnPath /\ KeepPath /\ Room(doc, 1)
  BY DEF UpdateDisplayNameL
<1>2. PICK n \in GetNonLeafChild(k, v) : doc' = Grow(Clear(doc, n), n, "display", "")
  BY DEF UpdateDisplayNameL
<1> DEFINE ns == Kids(doc, n)
           q  == Append(pointers, n)
           e  == Prune(doc, ns)
<1>3. /\ n \in Nodes /\ n \in All0 /\ doc[n].kind = k
      /\ \A i \in 1..Len(pointers) : pointers[i] # n
      /\ Chain(doc, q) /\ Last(q) = n /\ q # <<>>
  <2>1. /\ n \in Nodes /\ doc[n].kind = k
        /\ \A i \in 1..Len(pointers) : pointers[i] # n
        /\ Chain(doc, Append(pointers, n))
        /\ Last(Append(pointers, n)) = n /\ Append(pointers, n) # <<>>
    <3>1. OnPath /\ n \in GetNonLeafChild(k, v)
      BY <1>1, <1>2
    <3>2. /\ n \in Nodes /\ doc[n].kind = k
          /\ \A i \in 1..Len(pointers) : pointers[i] # n
      BY <3>1, ChildHere
    <3>3. Chain(doc, Append(pointers, n)) /\ Append(pointers, n) # <<>>
      BY <3>1, ChildHere
    <3>4. Last(Append(pointers, n)) = n
      BY <3>1, ChildHere
    <3>5. QED
      BY <3>2, <3>3, <3>4
  <2>2. QED
    BY <2>1 DEF All0
<1>4. Whole(doc) /\ Tree(doc) /\ doc \in [All0 -> Node]
  BY DEF Placed, Whole, Tree
<1>5. ns \in SUBSET Nodes
  BY <1>3, <1>4, KidsAre
<1>6. /\ Len(q) = Len(pointers) + 1 /\ q[Len(pointers) + 1] = n
      /\ \A i \in 1..Len(pointers) : q[i] = pointers[i]
      /\ Len(pointers) \in Nat
  BY <1>3, AppendProperties DEF Placed
<1>7. \A x \in ns : \A i \in 1..Len(q) : q[i] # x
  BY <1>3, <1>4, ChildIsOff
<1> HIDE DEF q
<1>8. n \notin Lost(doc, ns)
  <2>1. Len(q) \in 1..Len(q)
    BY <1>6
  <2>2. \A i \in 1..Len(q) : q[i] \notin ns
    BY <1>7
  <2>3. q[Len(q)] \notin Lost(doc, ns)
    BY <1>3, <1>4, <1>5, <2>1, <2>2, ChainNotLost
  <2>4. QED
    BY <1>6, <2>3
<1>9. \A i \in 1..Len(pointers) : pointers[i] \notin ns
  BY <1>6, <1>7
<1>10. Whole(e) /\ Pruned(doc, ns, e)
  <2>1. ASSUME NEW s \in FindAll(doc, "service"), NEW x \in Kids(doc, s),
               doc[x].kind = "packages"
        PROVE  x \notin ns
    <3>1. s \in Nodes /\ s \in All0 /\ doc[s].kind = "service"
      BY DEF FindAll, All0
    <3>2. s # n
      BY <1>3, <3>1
    <3>3. x \in Nodes
      BY <1>4, <3>1, KidsAre
    <3>4. QED
      BY <1>3, <1>4, <3>1, <3>2, <3>3 DEF Tree
  <2> HIDE DEF ns
  <2>2. QED
    BY <1>4, <1>5, <2>1, PruneWhole
<1>11. Clear(doc, n) = e /\ Kids(e, n) = {}
  BY <1>3, <1>4, <1>8, <1>10, ClearIs DEF Clear
<1>12. /\ Tree(e) /\ Shape(e, {}) /\ e[n].kind = k
  BY <1>3, <1>8, <1>10 DEF Whole, Pruned
<1>13. FindAll(e, "gone") # {}
  <2>1. FindAll(doc, "gone") # {}
    BY <1>1, RoomForOne
  <2>2. QED
    BY <1>10, <2>1, GoneStays
<1>14. Led(e, path, pointers)
  BY <1>4, <1>5, <1>9, <1>10, LedPruned DEF Placed
<1> HIDE DEF e, ns
<1>15. Child(e, n, "display", "") = {}
  BY <1>11 DEF Child, Find
<1>16. "display" \in Kinds /\ "" \in Keys
  BY DEF Kinds, Keys
<1>17. doc' = Grow(e, n, "display", "")
  BY <1>2, <1>11
<1>18. PICK m \in Nodes :
          /\ Grown(e, n, "display", "", m, doc')
          /\ \A Y : Covers(Y, {}, e, n, "display", m) => Shape(doc', Y)
  BY <1>3, <1>11, <1>12, <1>13, <1>15, <1>16, <1>17, GrowWhole
<1>19. Covers({}, {}, e, n, "display", m)
  BY <1>12 DEF Covers
<1>20. Whole(doc')
  BY <1>18, <1>19 DEF Whole, Grown
<1>21. Keeps(e, doc')
  BY <1>12, <1>18, GrownKeeps
<1>22. Led(doc', path, pointers)
  BY <1>14, <1>21, LedKept
<1>23. QED
  BY <1>1, <1>20, <1>22, PathKept

LEMMA RenameListPlaced ==
  ASSUME Placed, NEW a, NEW b \in Names, RenameListL(a, b)
  PROVE  Placed'
<1>1. OnPath /\ KeepPath /\ Child(doc, Here, "list", b) = {}
  BY DEF RenameListL, GetNonLeafChild
<1>2. PICK n \in GetNonLeafChild("list", a) : doc' = [doc EXCEPT ![n].key = b]
  BY DEF RenameListL
<1>3. /\ n \in Nodes /\ n \in All0 /\ doc[n].kind = "list" /\ n \in Kids(doc, Here)
      /\ \A i \in 1..Len(pointers) : pointers[i] # n
  BY <1>1, <1>2, ChildHere DEF All0
<1>4. Here \in All0
  BY <1>1, HereIs DEF All0
<1>5. Whole(doc) /\ Tree(doc) /\ Shape(doc, {}) /\ doc \in [All0 -> Node] /\ b \in Keys
  BY DEF Placed, Whole, Tree, Keys
<1> DEFINE e == doc'
<1>6. /\ e \in [All0 -> Node] /\ e[n].key = b
      /\ \A x \in All0 : /\ e[x].kind = doc[x].kind /\ e[x].kids = doc[x].kids
                         /\ Kids(e, x) = Kids(doc, x)
                         /\ x # n => e[x].key = doc[x].key
  <2> DEFINE r == [doc[n] EXCEPT !.key = b]
  <2>1. doc[n] \in Node
    BY <1>3, <1>5
  <2>2. r \in Node /\ r.kind = doc[n].kind /\ r.key = b /\ r.kids = doc[n].kids
    BY <1>5, <2>1, NodeKey
  <2> HIDE DEF r
  <2>3. e = [doc EXCEPT ![n] = r]
    BY <1>2 DEF r
  <2>4. /\ e \in [All0 -> Node] /\ e[n] = r
        /\ \A x \in All0 : x # n => e[x] = doc[x]
    BY <1>3, <1>5, <2>2, <2>3
  <2> HIDE DEF e
  <2>5. \A x \in All0 : e[x].kind = doc[x].kind /\ e[x].kids = doc[x].kids
    BY <2>2, <2>4
  <2>6. QED
    BY <2>2, <2>4, <2>5 DEF Kids
<1> HIDE DEF e
<1>7. Tree(e)
  <2>1. Root \in All0 /\ \A x \in Nodes : x \in All0
    BY DEF All0
  <2>2. \A x \in All0 : \A m \in Kids(doc, x) : m \in All0
    BY <1>5, KidsAre DEF All0
  <2>3. QED
    BY <1>5, <1>6, <2>1, <2>2 DEF Tree
<1>8. \A p \in All0 : \A x \in Kids(doc, p) : x \in All0 /\ x \in Nodes
  BY <1>5, KidsAre DEF All0
<1>9. OneOfAName(e)
  <2> SUFFICES ASSUME NEW p \in All0, NEW i \in Kids(doc, p), NEW j \in Kids(doc, p),
                      e[i].kind = e[j].kind, e[i].key = e[j].key
               PROVE  i = j
    BY <1>6 DEF OneOfAName
  <2>1. i \in All0 /\ j \in All0 /\ i \in Nodes /\ j \in Nodes
    BY <1>8
  <2>2. doc[i].kind = doc[j].kind
    BY <1>6, <2>1
  <2>3. CASE i # n /\ j # n
    BY <1>5, <1>6, <2>1, <2>2, <2>3 DEF Shape, OneOfAName
  <2>4. ASSUME NEW y \in Kids(doc, p), n \in Kids(doc, p), y # n, doc[y].kind = "list",
               e[y].key = b
        PROVE  FALSE
    <3>1. p = Here
      BY <1>3, <1>4, <1>5, <2>4 DEF Tree
    <3>2. doc[y].key = b
      BY <1>6, <1>8, <2>4
    <3>3. QED
      BY <1>1, <2>4, <3>1, <3>2 DEF Child, Find
  <2>5. QED
    BY <1>3, <1>6, <2>2, <2>3, <2>4
<1>10. Plain(e)
  BY <1>3, <1>5, <1>6 DEF Plain, Shape, All0
<1>11. Headed(e)
  <2> SUFFICES ASSUME NEW x \in Nodes, NEW m \in Kids(e, x), e[m].kind = "display"
               PROVE  e[e[x].kids[1]].kind = "display"
    BY DEF Headed
  <2>1. x \in All0 /\ m \in Kids(doc, x) /\ e[x].kids = doc[x].kids
    BY <1>6 DEF All0
  <2>2. doc[m].kind = "display"
    BY <1>6, <1>8, <2>1
  <2>3. doc[doc[x].kids[1]].kind = "display" /\ doc[x].kids # <<>>
    BY <1>5, <2>1, <2>2, NoKids DEF Shape, Headed
  <2>4. doc[x].kids[1] \in All0
    BY <1>5, <1>8, <2>1, <2>3, EndsAreKids
  <2>5. QED
    BY <1>6, <2>1, <2>3, <2>4
<1>12. Packed(e, {})
  <2> SUFFICES ASSUME NEW x \in FindAll(e, "service") \ {}
               PROVE  /\ e[x].kids # <<>>
                      /\ e[e[x].kids[Len(e[x].kids)]].kind = "packages"
    BY DEF Packed
  <2>1. x \in All0 /\ x \in FindAll(doc, "service") \ {} /\ e[x].kids = doc[x].kids
    BY <1>6 DEF FindAll, All0
  <2>2. /\ doc[x].kids # <<>>
        /\ doc[doc[x].kids[Len(doc[x].kids)]].kind = "packages"
    BY <1>5, <2>1 DEF Shape, Packed
  <2>3. doc[x].kids[Len(doc[x].kids)] \in All0
    BY <1>5, <1>8, <2>1, <2>2, EndsAreKids
  <2>4. QED
    BY <1>6, <2>1, <2>2, <2>3
<1>13. Whole(e)
  BY <1>7, <1>9, <1>10, <1>11, <1>12 DEF Whole, Shape
<1>14. Leads(e, path, pointers)
  <2>1. Leads(doc, path, pointers) /\ Chain(doc, pointers)
    BY <1>1, HereIs
  <2>2. ASSUME NEW i \in 1..Len(pointers)
        PROVE  /\ pointers[i] \in Kids(e, Over(pointers, i))
               /\ e[pointers[i]].kind = KindAt(i) /\ e[pointers[i]].key = path[i]
    <3>1. /\ pointers[i] \in All0 /\ Over(pointers, i) \in All0
          /\ pointers[i] \in Kids(doc, Over(pointers, i)) /\ pointers[i] # n
      BY <1>3, <2>1, ChainAt DEF All0
    <3>2. doc[pointers[i]].kind = KindAt(i) /\ doc[pointers[i]].key = path[i]
      BY <2>1 DEF Leads
    <3>3. QED
      BY <1>6, <3>1, <3>2
  <2>3. QED
    BY <2>1, <2>2 DEF Leads, Chain
<1>15. Led(e, path, pointers)
  BY <1>14, LeadsLed
<1>16. QED
  BY <1>1, <1>13, <1>15, PathKept DEF e

-----------------------------------------------------------------------------
(* The current path is set. *)

LEMMA SwitchToServicePlaced ==
  ASSUME Placed, NEW u \in Uris, SwitchToServiceURIL(u)
  PROVE  Placed'
<1> DEFINE n == ServiceNode(u)
<1>1. /\ Child(doc, Root, "service", u) # {} /\ path' = <<u>> /\ pointers' = <<n>>
      /\ doc' = doc
  BY DEF SwitchToServiceURIL, IsServiceUriExist
<1>2. n \in Child(doc, Root, "service", u)
  BY <1>1 DEF ServiceNode
<1> HIDE DEF n
<1>3. doc \in [All0 -> Node] /\ Root \in All0
  BY DEF Placed, Whole, Tree, All0
<1>4. n \in Kids(doc, Root) /\ doc[n].kind = "service" /\ doc[n].key = u /\ n \in Nodes
  BY <1>2, <1>3, KidsAre DEF Child, Find
<1>5. /\ <<u>> \in Seq(Keys) /\ <<n>> \in Seq(Nodes) /\ Len(<<u>>) = 1
      /\ Len(<<n>>) = 1 /\ <<u>>[1] = u /\ <<n>>[1] = n
  <2>1. u \in Keys
    BY DEF Keys
  <2>2. QED
    BY <1>4, <2>1
<1>6. \A i \in 1..1 : i = 1
  OBVIOUS
<1>7. Chain(doc, <<n>>)
  BY <1>4, <1>5, <1>6 DEF Chain, Over
<1>8. Leads(doc, <<u>>, <<n>>)
  BY <1>4, <1>5, <1>6, <1>7 DEF Leads, KindAt
<1>9. Whole(doc') /\ Leads(doc', path', pointers')
  BY <1>1, <1>8 DEF Placed
<1>10. QED
  BY <1>9, PathSet

LEMMA SwitchToListPlaced ==
  ASSUME Placed, NEW a \in Names, SwitchToListL(a)
  PROVE  Placed'
<1>1. OnPath /\ doc' = doc
  BY DEF SwitchToListL
<1>2. PICK n \in Child(doc, Here, "list", a) :
         path' = Append(path, a) /\ pointers' = Append(pointers, n)
  BY DEF SwitchToListL, GetNonLeafChild
<1>3. Leads(doc, path, pointers) /\ pointers # <<>> /\ Tree(doc) /\ a \in Keys
  BY <1>1, HereIs DEF Placed, Whole, Keys
<1>4. Leads(doc, Append(path, a), Append(pointers, n))
  BY <1>2, <1>3, LeadsIn DEF Here
<1>5. Whole(doc') /\ Leads(doc', path', pointers')
  BY <1>1, <1>2, <1>4 DEF Placed
<1>6. QED
  BY <1>5, PathSet

(* The last name and the last pointer are taken away.                      *)
LEMMA FrontIs ==
  ASSUME NEW S, NEW p \in Seq(S), p # <<>>
  PROVE  /\ Front(p) \in Seq(S) /\ Len(Front(p)) = Len(p) - 1 /\ Len(p) \in Nat \ {0}
         /\ \A i \in 1..Len(p) - 1 : Front(p)[i] = p[i]
<1>1. Len(p) \in Nat \ {0}
  BY EmptySeq
<1>2. QED
  BY <1>1 DEF Front

LEMMA LedOut ==
  ASSUME NEW d, NEW p \in Seq(Keys), NEW q \in Seq(Pointers), Len(p) = Len(q),
         Led(d, p, q), p # <<>>
  PROVE  Led(d, Front(p), Front(q))
<1>1. PICK s, t : Held(d, p, q, s, t)
  BY DEF Led
<1>2. /\ Leads(d, s, t) /\ s \in Seq(Keys) /\ t \in Seq(Pointers)
      /\ Len(s) = Len(t) /\ Len(s) \in Nat /\ Len(s) <= Len(p)
  BY <1>1, LeadsLed DEF Held
<1>3. /\ Front(p) \in Seq(Keys) /\ Len(Front(p)) = Len(p) - 1 /\ Len(p) \in Nat \ {0}
      /\ \A i \in 1..Len(p) - 1 : Front(p)[i] = p[i]
  BY FrontIs
<1>4. q # <<>>
  BY <1>3
<1>5. \A i \in 1..Len(p) - 1 : Front(q)[i] = q[i]
  BY <1>4, FrontIs
<1>6. CASE Len(s) <= Len(p) - 1
  <2>1. \A i \in 1..Len(s) : i \in 1..Len(p) - 1
    BY <1>2, <1>3, <1>6
  <2>2. \A i \in 1..Len(Front(p)) : i \in 1..Len(p) - 1 /\ i \in 1..Len(p)
    BY <1>3
  <2>3. Held(d, Front(p), Front(q), s, t)
    BY <1>1, <1>3, <1>5, <1>6, <2>1, <2>2 DEF Held
  <2>4. QED
    BY <2>3 DEF Led
<1>7. CASE ~(Len(s) <= Len(p) - 1)
  <2>1. Len(s) = Len(p) /\ s # <<>> /\ t # <<>>
    BY <1>2, <1>3, <1>7, EmptySeq
  <2>2. Leads(d, Front(s), Front(t))
    BY <1>2, <2>1, LeadsOut
  <2>3. Len(Front(s)) = Len(s) - 1 /\ \A i \in 1..Len(s) - 1 : Front(s)[i] = s[i]
    BY <1>2, <2>1, FrontIs
  <2>4. \A i \in 1..Len(t) - 1 : Front(t)[i] = t[i]
    BY <1>2, <2>1, FrontIs
  <2>5. /\ Len(Front(s)) <= Len(Front(p))
        /\ \A i \in 1..Len(Front(p)) : ~(i > Len(Front(s)))
        /\ \A i \in 1..Len(Front(s)) : i \in 1..Len(p) - 1 /\ i \in 1..Len(s)
    BY <1>3, <2>1, <2>3
  <2>6. ASSUME NEW i \in 1..Len(Front(s))
        PROVE  Front(p)[i] = Front(s)[i] /\ Front(q)[i] = Front(t)[i]
    BY <1>1, <1>2, <1>3, <1>5, <2>1, <2>3, <2>4, <2>5 DEF Held
  <2>7. Held(d, Front(p), Front(q), Front(s), Front(t))
    BY <2>2, <2>5, <2>6 DEF Held
  <2>8. QED
    BY <2>7 DEF Led
<1>8. QED
  BY <1>6, <1>7

LEMMA SwitchOutPlaced ==
  ASSUME Placed, SwitchOutFromList
  PROVE  Placed'
<1>1. /\ path # <<>> /\ path' = Front(path) /\ pointers' = Front(pointers)
      /\ doc' = doc
  BY DEF SwitchOutFromList
<1>2. /\ path \in Seq(Keys) /\ pointers \in Seq(Pointers) /\ Len(path) = Len(pointers)
      /\ Led(doc, path, pointers) /\ Whole(doc)
  BY DEF Placed
<1>3. Led(doc, Front(path), Front(pointers))
  BY <1>1, <1>2, LedOut
<1>4. Front(path) \in Seq(Keys) /\ Len(Front(path)) = Len(path) - 1 /\ Len(path) # 0
  BY <1>1, <1>2, FrontIs
<1>5. pointers # <<>>
  BY <1>2, <1>4
<1>6. Front(pointers) \in Seq(Pointers) /\ Len(Front(pointers)) = Len(pointers) - 1
  BY <1>2, <1>5, FrontIs
<1>7. QED
  BY <1>1, <1>2, <1>3, <1>4, <1>6 DEF Placed

(* The nodes that the names of a path lead to, one name after another.     *)
Reaches(at, p) ==
  /\ at \in [0..Len(p) -> SUBSET All0] /\ at[0] = {Root}
  /\ \A i \in 1..Len(p) : at[i] = UNION {Child(doc, n, KindAt(i), p[i]) : n \in at[i - 1]}

LEMMA ReachedUnfolds ==
  ASSUME doc \in [All0 -> Node], NEW p \in Seq(Keys)
  PROVE  \E at : Reaches(at, p) /\ Reached(p) = [i \in 1..Len(p) |-> at[i]]
<1> DEFINE N == Len(p)
           Step(i, X) == UNION {Child(doc, n, IF i = 1 THEN "service" ELSE "list", p[i]) :
                                  n \in X}
           Rec(f) == f = [i \in 0..N |-> IF i = 0 THEN {Root} ELSE Step(i, f[i - 1])]
           G == [x \in (1..N) \X SUBSET All0 |-> Step(x[1], x[2])]
           h == CHOOSE f : Rec(f)
<1>1. N \in Nat /\ {Root} \in SUBSET All0
  BY DEF All0
<1>2. \A i \in 1..N : \A X \in SUBSET All0 : Step(i, X) \in SUBSET All0
  BY KidsAre DEF Child, Find, All0
<1>3. G \in [(1..N) \X SUBSET All0 -> SUBSET All0]
  BY <1>2
<1>4. Reached(p) = [i \in 1..N |-> h[i]]
  BY DEF Reached
<1> HIDE DEF G, Step
<1>5. PICK f : Iterates(f, SUBSET All0, {Root}, N, G)
  <2> HIDE DEF N
  <2>1. QED
    BY <1>1, <1>3, Iterated
<1>6. /\ f \in [0..N -> SUBSET All0] /\ f[0] = {Root}
      /\ \A i \in 1..N : f[i] = G[<<i, f[i - 1]>>]
  BY <1>5 DEF Iterates
<1> HIDE DEF N
<1>7. ASSUME NEW i \in 1..N PROVE f[i] = Step(i, f[i - 1])
  <2>1. i - 1 \in 0..N
    BY <1>1
  <2>2. <<i, f[i - 1]>> \in (1..N) \X SUBSET All0
    BY <1>6, <2>1
  <2>3. QED
    BY <1>6, <2>2 DEF G
<1>8. Rec(f)
  <2>1. f = [i \in 0..N |-> f[i]]
    BY <1>6
  <2>2. \A i \in 0..N : i # 0 => i \in 1..N
    BY <1>1
  <2>3. \A i \in 0..N : f[i] = IF i = 0 THEN {Root} ELSE Step(i, f[i - 1])
    BY <1>6, <1>7, <2>2
  <2>4. QED
    BY <2>1, <2>3
<1>9. Rec(h)
  BY <1>8
<1> HIDE DEF h
<1>10. /\ h \in [0..N -> SUBSET All0] /\ h[0] = {Root}
       /\ \A i \in 1..N : h[i] = Step(i, h[i - 1])
  <2>1. \A i \in 1..N : i \in 0..N /\ i # 0
    BY <1>1
  <2>2. 0 \in 0..N /\ DOMAIN h = 0..N /\ h = [i \in 0..N |-> h[i]]
    BY <1>1, <1>9
  <2>3. h[0] = {Root} /\ \A i \in 1..N : h[i] = Step(i, h[i - 1])
    BY <1>9, <2>1, <2>2
  <2> DEFINE Off == {k \in 0..N : h[k] \notin SUBSET All0}
  <2>4. Off = {}
    <3>1. SUFFICES ASSUME Off # {} PROVE FALSE
      OBVIOUS
    <3>2. Off \in SUBSET Nat
      BY <1>1
    <3>3. PICK k \in Off : \A i \in Off : k <= i
      <4> HIDE DEF Off
      <4>1. QED
        BY <3>1, <3>2, LeastOf
    <3>4. k # 0
      BY <1>1, <2>3, <3>3
    <3>5. k \in 1..N /\ k - 1 \in 0..N /\ k - 1 \notin Off
      BY <1>1, <3>3, <3>4
    <3>6. h[k - 1] \in SUBSET All0
      BY <3>5
    <3>7. Step(k, h[k - 1]) \in SUBSET All0
      BY <1>2, <3>5, <3>6
    <3>8. QED
      BY <2>3, <3>3, <3>5, <3>7
  <2>5. \A k \in 0..N : h[k] \in SUBSET All0
    BY <2>4
  <2>6. QED
    BY <2>2, <2>3, <2>5
<1>11. Reaches(h, p)
  BY <1>10 DEF Reaches, Step, KindAt, N
<1>12. QED
  BY <1>4, <1>11 DEF N

(* Where every name is found, the nodes that are found are a path: names   *)
(* are unique, and there is only one way to each.                          *)
LEMMA FoundLeads ==
  ASSUME Whole(doc), NEW p \in Seq(Keys), NEW q,
         \A i \in 1..Len(p) : Reached(p)[i] # {},
         q = [i \in 1..Len(p) |-> CHOOSE n \in Reached(p)[i] : TRUE]
  PROVE  Leads(doc, p, q)
<1>1. Tree(doc) /\ doc \in [All0 -> Node] /\ Shape(doc, {}) /\ Len(p) \in Nat
  BY DEF Whole, Tree
<1>2. PICK at : Reaches(at, p) /\ Reached(p) = [i \in 1..Len(p) |-> at[i]]
  BY <1>1, ReachedUnfolds
<1>3. /\ at \in [0..Len(p) -> SUBSET All0] /\ at[0] = {Root}
      /\ \A i \in 1..Len(p) :
            at[i] = UNION {Child(doc, n, KindAt(i), p[i]) : n \in at[i - 1]}
  BY <1>2 DEF Reaches
<1>4. \A i \in 1..Len(p) : q[i] \in at[i]
  BY <1>2
<1>5. ASSUME NEW i \in 1..Len(p), NEW x \in at[i]
      PROVE  \E n \in at[i - 1] : x \in Kids(doc, n) /\ n \in All0 /\ x \in Nodes
                                  /\ doc[x].kind = KindAt(i) /\ doc[x].key = p[i]
  <2>1. PICK n \in at[i - 1] : x \in Child(doc, n, KindAt(i), p[i])
    BY <1>3
  <2>2. i - 1 \in 0..Len(p)
    BY <1>1
  <2>3. n \in All0
    BY <1>3, <2>1, <2>2
  <2>4. x \in Kids(doc, n) /\ doc[x].kind = KindAt(i) /\ doc[x].key = p[i]
    BY <2>1 DEF Child, Find
  <2>5. x \in Nodes
    BY <1>1, <2>3, <2>4, KidsAre
  <2>6. QED
    BY <2>1, <2>3, <2>4, <2>5
<1> DEFINE Off == {i \in 0..Len(p) : \E x, y \in at[i] : x # y}
<1>6. Off = {}
  <2>1. SUFFICES ASSUME Off # {} PROVE FALSE
    OBVIOUS
  <2>2. Off \in SUBSET Nat
    BY <1>1
  <2>3. PICK a \in Off : \A i \in Off : a <= i
    <3> HIDE DEF Off
    <3>1. QED
      BY <2>1, <2>2, LeastOf
  <2>4. PICK x \in at[a], y \in at[a] : x # y
    BY <2>3
  <2>5. a # 0
    BY <1>3, <2>4
  <2>6. a \in 1..Len(p) /\ a - 1 \in 0..Len(p) /\ a - 1 \notin Off
    BY <1>1, <2>3, <2>5
  <2>7. PICK n \in at[a - 1] :
           /\ x \in Kids(doc, n) /\ n \in All0
           /\ doc[x].kind = KindAt(a) /\ doc[x].key = p[a]
    BY <1>5, <2>6
  <2>8. PICK m \in at[a - 1] :
           /\ y \in Kids(doc, m) /\ m \in All0
           /\ doc[y].kind = KindAt(a) /\ doc[y].key = p[a]
    BY <1>5, <2>6
  <2>9. n = m
    BY <2>6
  <2>10. QED
    BY <1>1, <2>4, <2>7, <2>8, <2>9 DEF Shape, OneOfAName
<1>7. ASSUME NEW i \in 1..Len(p)
      PROVE  /\ q[i] \in Kids(doc, Over(q, i)) /\ q[i] \in Nodes
             /\ doc[q[i]].kind = KindAt(i) /\ doc[q[i]].key = p[i]
  <2>1. PICK n \in at[i - 1] :
           /\ q[i] \in Kids(doc, n) /\ n \in All0 /\ q[i] \in Nodes
           /\ doc[q[i]].kind = KindAt(i) /\ doc[q[i]].key = p[i]
    BY <1>4, <1>5
  <2>2. n = Over(q, i)
    <3>1. CASE i = 1
      BY <1>3, <2>1, <3>1 DEF Over
    <3>2. CASE i # 1
      <4>1. i - 1 \in 1..Len(p) /\ i - 1 \in 0..Len(p) /\ Over(q, i) = q[i - 1]
        BY <1>1, <3>2 DEF Over
      <4>2. Over(q, i) \in at[i - 1]
        BY <1>4, <4>1
      <4>3. QED
        BY <1>6, <2>1, <4>1, <4>2
    <3>3. QED
      BY <3>1, <3>2
  <2>3. QED
    BY <2>1, <2>2
<1>8. q \in [1..Len(p) -> Nodes]
  BY <1>7
<1>9. q \in Seq(Nodes) /\ Len(q) = Len(p)
  BY <1>1, <1>8
<1>10. QED
  BY <1>7, <1>9 DEF Leads, Chain

(* The other way round: what a path leads to is what is found, however     *)
(* many names come after it.                                               *)
LEMMA LeadsFound ==
  ASSUME Whole(doc), NEW p, NEW q, Leads(doc, p, q), NEW i \in 1..Len(p),
         NEW r \in Seq(Keys), Len(p) <= Len(r), \A j \in 1..Len(p) : r[j] = p[j]
  PROVE  q[i] \in Reached(r)[i]
<1>1. /\ doc \in [All0 -> Node] /\ p \in Seq(Keys) /\ Len(p) \in Nat /\ Len(q) = Len(p)
      /\ Len(r) \in Nat /\ \A j \in 1..Len(p) : j \in 1..Len(r)
  BY DEF Whole, Tree, Leads
<1>2. PICK at : Reaches(at, r) /\ Reached(r) = [j \in 1..Len(r) |-> at[j]]
  BY <1>1, ReachedUnfolds
<1>3. /\ at[0] = {Root}
      /\ \A j \in 1..Len(p) :
            at[j] = UNION {Child(doc, n, KindAt(j), p[j]) : n \in at[j - 1]}
  BY <1>1, <1>2 DEF Reaches
<1>4. \A j \in 1..Len(p) : q[j] \in Child(doc, Over(q, j), KindAt(j), p[j])
  BY <1>1 DEF Leads, Chain, Child, Find
<1> DEFINE Off == {j \in 1..Len(p) : q[j] \notin at[j]}
<1>5. Off = {}
  <2>1. SUFFICES ASSUME Off # {} PROVE FALSE
    OBVIOUS
  <2>2. Off \in SUBSET Nat
    BY <1>1
  <2>3. PICK a \in Off : \A j \in Off : a <= j
    <3> HIDE DEF Off
    <3>1. QED
      BY <2>1, <2>2, LeastOf
  <2>4. Over(q, a) \in at[a - 1]
    <3>1. CASE a = 1
      BY <1>3, <3>1 DEF Over
    <3>2. CASE a # 1
      <4>1. a - 1 \in 1..Len(p) /\ a - 1 \notin Off
        BY <1>1, <2>3, <3>2
      <4>2. QED
        BY <3>2, <4>1 DEF Over
    <3>3. QED
      BY <3>1, <3>2
  <2>5. QED
    BY <1>3, <1>4, <2>3, <2>4
<1>6. QED
  BY <1>1, <1>2, <1>5

LEMMA PathsAre ==
  ASSUME NEW p \in Paths
  PROVE  p \in Seq(Keys)
<1>1. CASE p = <<>>
  BY <1>1, EmptySeq
<1>2. CASE p # <<>>
  <2>1. PICK u \in Uris : p \in {<<u>> \o r : r \in BoundedSeq(Names, 2)}
    BY <1>2 DEF Paths
  <2>2. PICK r \in BoundedSeq(Names, 2) : p = <<u>> \o r
    BY <2>1
  <2>3. PICK m \in 0..2 : r \in [1..m -> Names]
    BY <2>2 DEF BoundedSeq, SeqOf
  <2>4. r \in Seq(Keys) /\ <<u>> \in Seq(Keys)
    <3>1. u \in Keys /\ Names \subseteq Keys
      BY DEF Keys
    <3>2. r \in [1..m -> Keys]
      BY <2>3, <3>1
    <3>3. QED
      BY <3>1, <3>2
  <2>5. QED
    BY <2>2, <2>4, ConcatProperties
<1>3. QED
  BY <1>1, <1>2

LEMMA SetCurrentpathPlaced ==
  ASSUME Placed, NEW p \in Paths, SetCurrentpathL(p)
  PROVE  Placed'
<1>1. /\ path' = p /\ doc' = doc
      /\ pointers' = [i \in 1..Len(p) |-> CHOOSE n \in Reached(p)[i] : TRUE]
      /\ \A i \in 1..Len(p) : Reached(p)[i] # {}
  BY DEF SetCurrentpathL
<1>2. p \in Seq(Keys) /\ Whole(doc)
  BY PathsAre DEF Placed
<1>3. Leads(doc, p, pointers')
  BY <1>1, <1>2, FoundLeads
<1>4. Whole(doc') /\ Leads(doc', path', pointers')
  BY <1>1, <1>2, <1>3
<1>5. QED
  BY <1>4, PathSet

-----------------------------------------------------------------------------
(* What a server holds is whole. *)

LEMMA ServiceStarted ==
  ASSUME NEW u \in Uris, NEW d, d = Grow(Empty, Root, "service", u)
  PROVE  /\ Tree(d) /\ Shape(d, {1}) /\ d[1].kind = "service" /\ Kids(d, 1) = {}
         /\ 2 \in FindAll(d, "gone") /\ 3 \in FindAll(d, "gone")
<1>1. /\ Tree(Empty) /\ Shape(Empty, {}) /\ FindAll(Empty, "gone") = Nodes
      /\ Empty[Root].kind = "root" /\ Kids(Empty, Root) = {} /\ Root \in All0
  BY EmptyWhole DEF Whole, All0
<1>2. "service" \in Kinds /\ u \in Keys /\ FindAll(Empty, "gone") # {}
  BY <1>1, NodesAre DEF Kinds, Keys
<1>3. Child(Empty, Root, "service", u) = {}
  BY <1>1 DEF Child, Find
<1>4. PICK m \in Nodes :
         /\ Grown(Empty, Root, "service", u, m, d)
         /\ \A Y : Covers(Y, {}, Empty, Root, "service", m) => Shape(d, Y)
  BY <1>1, <1>2, <1>3, GrowWhole
<1>5. m = 1
  <2>1. \A j \in Nodes : m <= j
    BY <1>1, <1>4 DEF Grown
  <2>2. m <= 1 /\ m \in Nodes
    BY <2>1, NodesAre
  <2>3. QED
    BY <2>2, NodesAre DEF Nodes
<1>6. Covers({1}, {}, Empty, Root, "service", m)
  BY <1>1, <1>5 DEF Covers
<1>7. Shape(d, {1})
  BY <1>4, <1>6
<1>8. /\ Tree(d) /\ d[1].kind = "service" /\ Kids(d, 1) = {}
  BY <1>4, <1>5 DEF Grown
<1>9. 2 \in FindAll(d, "gone") /\ 3 \in FindAll(d, "gone")
  BY <1>1, <1>4, <1>5, NodesAre, StillFree
<1>10. QED
  BY <1>7, <1>8, <1>9

LEMMA PackagesGiven ==
  ASSUME NEW d, Tree(d), Shape(d, {1}), d[1].kind = "service",
         Child(d, 1, "packages", "") = {}, FindAll(d, "gone") # {}
  PROVE  Whole(Grow(d, 1, "packages", ""))
<1> DEFINE e == Grow(d, 1, "packages", "")
<1>1. 1 \in All0 /\ "packages" \in Kinds /\ "" \in Keys
  BY NodesAre DEF All0, Kinds, Keys
<1>2. PICK m \in Nodes :
         /\ Grown(d, 1, "packages", "", m, e)
         /\ \A Y : Covers(Y, {1}, d, 1, "packages", m) => Shape(e, Y)
  BY <1>1, GrowWhole
<1> HIDE DEF e
<1>3. Covers({}, {1}, d, 1, "packages", m)
  BY DEF Covers
<1>4. Shape(e, {}) /\ Tree(e)
  BY <1>2, <1>3 DEF Grown
<1>5. QED
  BY <1>4 DEF Whole, e

LEMMA ServerDocsWhole ==
  ASSUME NEW d \in ServerDocs
  PROVE  Whole(d)
<1>1. CASE d = Empty
  BY <1>1, EmptyWhole
<1>2. ASSUME NEW u \in Uris, d = Service(Empty, u) PROVE Whole(d)
  <2> DEFINE d1 == Grow(Empty, Root, "service", u)
  <2>1. d = Grow(d1, 1, "packages", "")
    BY <1>2 DEF Service
  <2>2. /\ Tree(d1) /\ Shape(d1, {1}) /\ d1[1].kind = "service" /\ Kids(d1, 1) = {}
        /\ FindAll(d1, "gone") # {}
    BY ServiceStarted
  <2> HIDE DEF d1
  <2>3. Child(d1, 1, "packages", "") = {}
    BY <2>2 DEF Child, Find
  <2>4. QED
    BY <2>1, <2>2, <2>3, PackagesGiven
<1>3. ASSUME NEW u \in Uris, NEW a \in Names, d = ServiceWithList(u, a) PROVE Whole(d)
  <2> DEFINE d1 == Grow(Empty, Root, "service", u)
             d2 == Grow(d1, 1, "list", a)
  <2>1. d = Grow(d2, 1, "packages", "")
    BY <1>3 DEF ServiceWithList
  <2>2. /\ Tree(d1) /\ Shape(d1, {1}) /\ d1[1].kind = "service" /\ Kids(d1, 1) = {}
        /\ 2 \in FindAll(d1, "gone") /\ 3 \in FindAll(d1, "gone")
    BY ServiceStarted
  <2> HIDE DEF d1
  <2>3. Child(d1, 1, "list", a) = {} /\ FindAll(d1, "gone") # {}
    BY <2>2 DEF Child, Find
  <2>4. 1 \in All0 /\ "list" \in Kinds /\ a \in Keys
    BY NodesAre DEF All0, Kinds, Keys
  <2>5. PICK m \in Nodes :
           /\ Grown(d1, 1, "list", a, m, d2)
           /\ \A Y : Covers(Y, {1}, d1, 1, "list", m) => Shape(d2, Y)
    BY <2>2, <2>3, <2>4, GrowWhole
  <2> HIDE DEF d2
  <2>6. Covers({1}, {1}, d1, 1, "list", m)
    BY DEF Covers
  <2>7. Shape(d2, {1}) /\ Tree(d2) /\ d2[1].kind = "service"
    BY <2>2, <2>5, <2>6 DEF Grown
  <2>8. Child(d2, 1, "packages", "") = {}
    BY <2>2, <2>5 DEF Grown, Child, Find
  <2>9. FindAll(d2, "gone") # {}
    <3>1. PICK j \in {2, 3} : j # m
      OBVIOUS
    <3>2. j \in FindAll(d2, "gone")
      BY <2>2, <2>5, <3>1, StillFree
    <3>3. QED
      BY <3>2
  <2>10. QED
    BY <2>1, <2>7, <2>8, <2>9, PackagesGiven
<1>4. QED
  <2>1. CASE d \in {Service(Empty, u) : u \in Uris}
    BY <1>2, <2>1
  <2>2. CASE d \in UNION {{ServiceWithList(u, a) : a \in Names} : u \in Uris}
    BY <1>3, <2>2
  <2>3. d \in {Empty} \/ d \in {Service(Empty, u) : u \in Uris}
          \/ d \in UNION {{ServiceWithList(u, a) : a \in Names} : u \in Uris}
    BY DEF ServerDocs
  <2>4. QED
    BY <1>1, <2>1, <2>2, <2>3

-----------------------------------------------------------------------------
(* The requests.  While a fetch is under way there is no root, and every   *)
(* pointer of the path, if there is one, dangles.                          *)

Void(q) == \A i \in 1..Len(q) : q[i] = Dangling

Waiting ==
  /\ DocTypeOK /\ (broken \/ owed = IsActive) /\ (req = "none" <=> status = "idle")
  /\ "lists" \in scope /\ req = "fromServer" /\ status = "pending" =>
       ~rooted /\ Void(pointers)

DocsInv == Placed /\ Waiting

LEMMA DocsInit ==
  ASSUME Init
  PROVE  DocsInv
<1>1. /\ doc = Empty /\ path = <<>> /\ pointers = <<>>
      /\ req = "none" /\ status = "idle" /\ rooted = TRUE /\ owed = FALSE /\ broken = FALSE
  BY DEF Init, DocInit, ListInit
<1>2. Placed
  BY <1>1, EmptyWhole, NowhereLeads, LeadsLed DEF Placed
<1>3. Waiting
  BY <1>1 DEF Waiting, DocTypeOK, Requests, Answers, IsActive
<1>4. QED
  BY <1>2, <1>3 DEF DocsInv

(* The steps of the application that ask for nothing: a path that is void  *)
(* stays so as long as there is no root.                                   *)
LEMMA StepWaits ==
  ASSUME Waiting, UNCHANGED <<docVars, scope>>,
         rooted \/ ~Void(pointers) \/ Void(pointers')
  PROVE  Waiting'
<1>1. /\ req' = req /\ status' = status /\ rooted' = rooted /\ owed' = owed
      /\ broken' = broken /\ scope' = scope
  BY DEF docVars
<1>2. DocTypeOK' /\ (broken' \/ owed' = IsActive') /\ (req' = "none" <=> status' = "idle")
  BY <1>1 DEF Waiting, DocTypeOK, IsActive
<1>3. "lists" \in scope' /\ req' = "fromServer" /\ status' = "pending" =>
        ~rooted' /\ Void(pointers')
  BY <1>1 DEF Waiting
<1>4. QED
  BY <1>2, <1>3 DEF Waiting

(* A path that is void leads nowhere, in whatever document.                *)
LEMMA VoidLed ==
  ASSUME NEW d, NEW p \in Seq(Keys), NEW q, Len(p) = Len(q), Void(q)
  PROVE  Led(d, p, q)
<1> DEFINE s == <<>>
<1>1. Leads(d, s, s) /\ Len(s) = 0 /\ Len(p) \in Nat
  BY NowhereLeads
<1> HIDE DEF s
<1>2. Held(d, p, q, s, s)
  BY <1>1 DEF Held, Void
<1>3. QED
  BY <1>2 DEF Led

LEMMA NoneIsVoid == Void(<<>>)
<1>1. Len(<<>>) = 0 /\ 1..0 = {}
  BY EmptySeq
<1>2. QED
  BY <1>1 DEF Void

LEMMA EditsKeep ==
  ASSUME DocsInv, Edits, UNCHANGED scope
  PROVE  DocsInv'
<1>1. Placed /\ Waiting
  BY DEF DocsInv
<1>2. ASSUME Placed', UNCHANGED docVars, KeepPath PROVE DocsInv'
  <2>1. pointers' = pointers
    BY <1>2 DEF KeepPath
  <2>2. Waiting'
    BY <1>1, <1>2, <2>1, StepWaits
  <2>3. QED
    BY <1>2, <2>2 DEF DocsInv
<1>18. ASSUME Placed', UNCHANGED docVars, ResetPath
       PROVE  DocsInv'
  <2>1. Void(pointers')
    BY <1>18, NoneIsVoid DEF ResetPath
  <2>2. QED
    BY <1>1, <1>18, <2>1, StepWaits DEF DocsInv
<1>3. ASSUME NEW u \in Uris, AddServiceURIL(u) PROVE DocsInv'
  <2>1. UNCHANGED docVars /\ KeepPath
    BY <1>3 DEF AddServiceURIL
  <2>2. Placed'
    BY <1>1, <1>3, AddServicePlaced
  <2>3. QED
    BY <1>2, <2>1, <2>2
<1>4. ASSUME NEW u \in Uris, RemoveServiceURIL(u) PROVE DocsInv'
  <2>1. UNCHANGED docVars
    BY <1>4 DEF RemoveServiceURIL
  <2>2. Placed'
    BY <1>1, <1>4, RemoveServicePlaced
  <2>3. ResetPath \/ KeepPath
    BY <1>4 DEF RemoveServiceURIL, KeepPath
  <2>4. QED
    BY <1>2, <1>18, <2>1, <2>2, <2>3
<1>5. CASE DeleteAll
  <2>1. UNCHANGED docVars /\ ResetPath
    BY <1>5 DEF DeleteAll
  <2>2. QED
    BY <1>1, <1>18, <1>5, <2>1, DeleteAllPlaced
<1>6. CASE DeleteAllEmptyServiceUrisL
  <2>1. UNCHANGED docVars /\ ResetPath
    BY <1>6 DEF DeleteAllEmptyServiceUrisL
  <2>2. QED
    BY <1>1, <1>18, <1>6, <2>1, DeleteEmptyServicesPlaced
<1>7. ASSUME NEW a \in Names, NEW b \in Names, RenameListL(a, b) PROVE DocsInv'
  <2>1. UNCHANGED docVars /\ KeepPath
    BY <1>7 DEF RenameListL
  <2>2. Placed'
    BY <1>1, <1>7, RenameListPlaced
  <2>3. QED
    BY <1>2, <2>1, <2>2
<1>8. ASSUME NEW k \in {"list", "entry", "link"}, NEW v \in Keys, NEW shown \in BOOLEAN,
             AddElementL(k, v, shown)
      PROVE  DocsInv'
  <2>1. UNCHANGED docVars /\ KeepPath
    BY <1>8 DEF AddElementL
  <2>2. Placed'
    BY <1>1, <1>8, AddElementPlaced
  <2>3. QED
    BY <1>2, <2>1, <2>2
<1>9. ASSUME NEW k \in {"list", "entry", "link"}, NEW v \in Keys, RemoveElementL(k, v)
      PROVE  DocsInv'
  <2>1. UNCHANGED docVars /\ KeepPath
    BY <1>9 DEF RemoveElementL
  <2>2. Placed'
    BY <1>1, <1>9, RemoveElementPlaced
  <2>3. QED
    BY <1>2, <2>1, <2>2
<1>10. ASSUME NEW k \in {"list", "entry"}, NEW v \in Keys, UpdateDisplayNameL(k, v)
       PROVE  DocsInv'
  <2>1. UNCHANGED docVars /\ KeepPath
    BY <1>10 DEF UpdateDisplayNameL
  <2>2. Placed'
    BY <1>1, <1>10, UpdateDisplayNamePlaced
  <2>3. QED
    BY <1>2, <2>1, <2>2
<1>11. Names \subseteq Keys /\ Links \subseteq Keys
  BY DEF Keys
<1>12. CASE \E u \in Uris : AddServiceURIL(u) \/ RemoveServiceURIL(u)
  BY <1>3, <1>4, <1>12
<1>13. CASE \E a, b \in Names : RenameListL(a, b)
  BY <1>7, <1>13
<1>14. ASSUME NEW a \in Names, NEW shown \in BOOLEAN, AddElementL("list", a, shown)
       PROVE  DocsInv'
  BY <1>8, <1>11, <1>14
<1>15. ASSUME NEW v \in Links, NEW shown \in BOOLEAN, AddElementL("entry", v, shown)
       PROVE  DocsInv'
  BY <1>8, <1>11, <1>15
<1>16. ASSUME NEW v \in Links, AddElementL("link", v, FALSE) PROVE DocsInv'
  BY <1>8, <1>11, <1>16
<1>17. QED
  BY <1>5, <1>6, <1>9, <1>10, <1>12, <1>13, <1>14, <1>15, <1>16 DEF Edits

(* The path is set anew where there is a root, or on a node of it.         *)
LEMMA NavigatesKeep ==
  ASSUME DocsInv, Navigates, UNCHANGED scope
  PROVE  DocsInv'
<1>1. Placed /\ Waiting
  BY DEF DocsInv
<1>2. ASSUME Placed', UNCHANGED docVars, rooted \/ ~Void(pointers) \/ Void(pointers')
      PROVE  DocsInv'
  BY <1>1, <1>2, StepWaits DEF DocsInv
<1>3. ASSUME NEW u \in Uris, SwitchToServiceURIL(u) PROVE DocsInv'
  <2>1. UNCHANGED docVars /\ rooted
    BY <1>3 DEF SwitchToServiceURIL, IsServiceUriExist
  <2>2. Placed'
    BY <1>1, <1>3, SwitchToServicePlaced
  <2>3. QED
    BY <1>2, <2>1, <2>2
<1>4. ASSUME NEW a \in Names, SwitchToListL(a) PROVE DocsInv'
  <2>1. UNCHANGED docVars /\ OnPath
    BY <1>4 DEF SwitchToListL
  <2>2. ~Void(pointers)
    <3>1. /\ Here \in Nodes /\ Here = pointers[Len(pointers)]
          /\ Len(pointers) \in 1..Len(pointers)
      BY <1>1, <2>1, HereIs
    <3>2. QED
      BY <3>1, DanglingIs DEF Void
  <2>3. Placed'
    BY <1>1, <1>4, SwitchToListPlaced
  <2>4. QED
    BY <1>2, <2>1, <2>2, <2>3
<1>5. CASE SwitchOutFromList
  <2>1. UNCHANGED docVars /\ path # <<>> /\ pointers' = Front(pointers)
    BY <1>5 DEF SwitchOutFromList
  <2>2. Void(pointers) => Void(pointers')
    <3>1. /\ path \in Seq(Keys) /\ Len(path) = Len(pointers)
          /\ pointers \in Seq(Pointers)
      BY <1>1 DEF Placed
    <3>2. pointers # <<>>
      BY <2>1, <3>1, EmptySeq
    <3>3. /\ Len(pointers') = Len(pointers) - 1 /\ Len(pointers) \in Nat \ {0}
          /\ \A i \in 1..Len(pointers) - 1 : pointers'[i] = pointers[i]
      BY <2>1, <3>1, <3>2, FrontIs
    <3>4. QED
      BY <3>3 DEF Void
  <2>3. Placed'
    BY <1>1, <1>5, SwitchOutPlaced
  <2>4. QED
    BY <1>2, <2>1, <2>2, <2>3
<1>6. CASE Stray
  <2>1. /\ UNCHANGED listVars /\ broken' = TRUE
        /\ req' = req /\ status' = status /\ rooted' = rooted /\ owed' = owed
    BY <1>6 DEF Stray
  <2>2. Placed'
    BY <1>1, <2>1 DEF Placed, listVars
  <2>3. pointers' = pointers /\ scope' = scope
    BY <2>1 DEF listVars
  <2>4. DocTypeOK' /\ (req' = "none" <=> status' = "idle")
    BY <1>1, <2>1 DEF Waiting, DocTypeOK
  <2>5. Waiting'
    BY <1>1, <2>1, <2>3, <2>4 DEF Waiting
  <2>6. QED
    BY <2>2, <2>5 DEF DocsInv
<1>7. ASSUME NEW p \in Paths, SetCurrentpathL(p) PROVE DocsInv'
  <2>1. UNCHANGED docVars /\ rooted
    BY <1>7 DEF SetCurrentpathL
  <2>2. Placed'
    BY <1>1, <1>7, SetCurrentpathPlaced
  <2>3. QED
    BY <1>2, <2>1, <2>2
<1>8. QED
  BY <1>3, <1>4, <1>5, <1>6, <1>7 DEF Navigates

LEMMA ListsUnchanged ==
  ASSUME Placed, UNCHANGED listVars
  PROVE  Placed'
BY DEF Placed, listVars

(* The contents are reset: every pointer dangles from then on.             *)
LEMMA AllVoid ==
  ASSUME NEW q, NEW S, q \in Seq(S)
  PROVE  /\ [i \in DOMAIN q |-> Dangling] \in Seq(Pointers)
         /\ Len([i \in DOMAIN q |-> Dangling]) = Len(q)
         /\ Void([i \in DOMAIN q |-> Dangling])
<1> DEFINE v == [i \in DOMAIN q |-> Dangling]
<1>1. DOMAIN q = 1..Len(q) /\ Len(q) \in Nat /\ Dangling \in Pointers
  BY DEF Pointers
<1>2. v \in [1..Len(q) -> Pointers]
  BY <1>1
<1>3. v \in Seq(Pointers) /\ Len(v) = Len(q)
  BY <1>1, <1>2
<1>4. Void(v)
  BY <1>1, <1>3 DEF Void
<1>5. QED
  BY <1>3, <1>4

(* What the document does of itself, whoever owns it. *)
LEMMA RequestWaits ==
  ASSUME Waiting, UNCHANGED <<listVars, scope>>,
         \/ UpdateToServer \/ CancelUpdate \/ UpdateRunL \/ RunLeaves
         \/ "lists" \notin scope /\ (UpdateFromServer \/ UpdateFromServerLeaves)
         \/ \E s \in Answers : EngineCompletes(s) /\ (s # "ok" \/ req # "fromServer")
         \/ "lists" \notin scope /\ \E s \in Answers : EngineCompletes(s)
  PROVE  Waiting'
<1>1. pointers' = pointers /\ scope' = scope
  BY DEF listVars
<1>2. /\ DocTypeOK /\ (broken \/ owed = IsActive) /\ (req = "none" <=> status = "idle")
  BY DEF Waiting
<1>3. DocTypeOK'
  BY <1>2 DEF DocTypeOK, Requests, Answers, UpdateToServer, CancelUpdate, UpdateRunL,
              RunLeaves, UpdateFromServer, UpdateFromServerLeaves, EngineCompletes, Ask
<1>4. (broken' \/ owed' = IsActive') /\ (req' = "none" <=> status' = "idle")
  BY <1>2 DEF DocTypeOK, Requests, Answers, UpdateToServer, CancelUpdate, UpdateRunL,
              RunLeaves, UpdateFromServer, UpdateFromServerLeaves, EngineCompletes, Ask,
              IsActive
<1>5. "lists" \in scope => ~(req' = "fromServer" /\ status' = "pending")
  BY <1>2 DEF DocTypeOK, Answers, UpdateToServer, CancelUpdate, UpdateRunL,
              RunLeaves, EngineCompletes, Ask
<1>6. QED
  BY <1>1, <1>3, <1>4, <1>5 DEF Waiting

LEMMA RequestingKeeps ==
  ASSUME DocsInv, Requesting, UNCHANGED scope
  PROVE  DocsInv'
<1>1. Placed /\ Waiting
  BY DEF DocsInv
<1>2. /\ DocTypeOK /\ (broken \/ owed = IsActive) /\ (req = "none" <=> status = "idle")
  BY <1>1 DEF Waiting
<1>3. CASE UpdateToServerL \/ CancelUpdateL
  <2>1. UNCHANGED listVars /\ (UpdateToServer \/ CancelUpdate)
    BY <1>3 DEF UpdateToServerL, CancelUpdateL
  <2>2. QED
    BY <1>1, <2>1, ListsUnchanged, RequestWaits DEF DocsInv
<1>4. CASE UpdateAllFromServerL
  <2>1. /\ doc' = Empty /\ path' = path
        /\ pointers' = [i \in DOMAIN pointers |-> Dangling]
        /\ UpdateFromServer \/ UpdateFromServerLeaves
    BY <1>4 DEF UpdateAllFromServerL
  <2>2. /\ pointers' \in Seq(Pointers) /\ Len(pointers') = Len(pointers)
        /\ Void(pointers')
    BY <1>1, <2>1, AllVoid DEF Placed
  <2>3. Placed'
    <3>1. Whole(doc') /\ path' \in Seq(Keys) /\ Len(path') = Len(pointers')
      BY <1>1, <2>1, <2>2, EmptyWhole DEF Placed
    <3>2. Led(doc', path', pointers')
      BY <2>2, <3>1, VoidLed
    <3>3. QED
      BY <2>2, <3>1, <3>2 DEF Placed
  <2>4. rooted' = FALSE
    BY <2>1 DEF UpdateFromServer, UpdateFromServerLeaves
  <2>5. /\ DocTypeOK' /\ (broken' \/ owed' = IsActive')
        /\ (req' = "none" <=> status' = "idle")
    BY <1>2, <2>1 DEF DocTypeOK, Requests, UpdateFromServer, UpdateFromServerLeaves, Ask,
                      IsActive
  <2>6. Waiting'
    BY <2>2, <2>4, <2>5 DEF Waiting
  <2>7. QED
    BY <2>3, <2>6 DEF DocsInv
<1>5. CASE DeleteAllEmptyLists
  <2>1. /\ doc' = doc /\ ResetPath
        /\ req' = "deleting" /\ status' = "ok" /\ owed' = TRUE /\ rooted' = rooted
        /\ broken' = FALSE
    BY <1>5 DEF DeleteAllEmptyLists, Ask
  <2>2. Placed'
    <3>1. Whole(doc')
      BY <1>1, <2>1 DEF Placed
    <3>2. QED
      BY <2>1, <3>1, PathReset
  <2>3. Waiting'
    BY <1>2, <2>1 DEF Waiting, DocTypeOK, Requests, Answers, IsActive
  <2>4. QED
    BY <2>2, <2>3 DEF DocsInv
<1>6. QED
  BY <1>3, <1>4, <1>5 DEF Requesting

(* An empty list has no list in it, so that only the last pointer can be   *)
(* to it: the path leads up to there when it is deleted.                   *)
LEMMA BareLed ==
  ASSUME Placed, NEW n \in EmptyLists, NEW e, Pruned(doc, {n}, e), NEW q,
         q = [i \in DOMAIN pointers |-> IF pointers[i] = n THEN Dangling ELSE pointers[i]]
  PROVE  q \in Seq(Pointers) /\ Len(q) = Len(pointers) /\ Led(e, path, q)
<1>1. /\ path \in Seq(Keys) /\ pointers \in Seq(Pointers) /\ Len(path) = Len(pointers)
      /\ Tree(doc) /\ Len(path) \in Nat
  BY DEF Placed, Whole
<1>2. n \in Nodes /\ {n} \in SUBSET Nodes /\ \A m \in Kids(doc, n) : doc[m].kind = "display"
  BY DEF EmptyLists, FindAll, Bare
<1>3. /\ DOMAIN pointers = 1..Len(pointers)
      /\ \A i \in 1..Len(pointers) : pointers[i] \in Pointers
  BY <1>1
<1>4. q \in [1..Len(pointers) -> Pointers]
  BY <1>3 DEF Pointers
<1>5. q \in Seq(Pointers) /\ Len(q) = Len(pointers)
  BY <1>1, <1>4
<1>6. \A i \in 1..Len(pointers) :
         q[i] = IF pointers[i] = n THEN Dangling ELSE pointers[i]
  BY <1>3
<1>7. PICK s, t : Held(doc, path, pointers, s, t)
  BY DEF Placed, Led
<1>8. /\ Leads(doc, s, t) /\ s \in Seq(Keys) /\ t \in Seq(Pointers) /\ Chain(doc, t)
      /\ Len(s) = Len(t) /\ Len(s) \in Nat /\ Len(s) <= Len(path)
  <2>1. Leads(doc, s, t) /\ Len(s) <= Len(path)
    BY <1>7 DEF Held
  <2>2. s \in Seq(Keys) /\ t \in Seq(Pointers) /\ Len(s) = Len(t)
    BY <2>1, LeadsLed
  <2>3. Chain(doc, t)
    BY <2>1 DEF Leads
  <2>4. QED
    BY <2>1, <2>2, <2>3
<1>9. ASSUME NEW i \in 1..Len(t), i # Len(t) PROVE t[i] # n
  <2>1. i + 1 \in 1..Len(t) /\ i + 1 # 1 /\ (i + 1) - 1 = i
    BY <1>8, <1>9
  <2>2. t[i + 1] \in Kids(doc, t[i])
    BY <1>8, <2>1 DEF Chain, Over
  <2>3. doc[t[i + 1]].kind = "list"
    BY <1>8, <2>1 DEF Leads, KindAt
  <2>4. QED
    BY <1>2, <2>2, <2>3
<1>10. \A i \in 1..Len(s) : i \in 1..Len(path) /\ path[i] = s[i] /\ pointers[i] = t[i]
  BY <1>1, <1>7, <1>8 DEF Held
<1>11. \A i \in 1..Len(path) : i > Len(s) => q[i] = Dangling
  BY <1>1, <1>6, <1>7 DEF Held
<1>12. CASE \A i \in 1..Len(t) : t[i] # n
  <2>1. Leads(e, s, t)
    BY <1>1, <1>2, <1>8, <1>12, LeadsPruned
  <2>2. \A i \in 1..Len(s) : q[i] = t[i]
    BY <1>1, <1>6, <1>8, <1>10, <1>12
  <2>3. Held(e, path, q, s, t)
    BY <1>8, <1>10, <1>11, <2>1, <2>2 DEF Held
  <2>4. QED
    BY <1>5, <2>3 DEF Led
<1>13. CASE ~(\A i \in 1..Len(t) : t[i] # n)
  <2>1. t[Len(t)] = n /\ Len(t) \in Nat \ {0}
    BY <1>8, <1>9, <1>13
  <2>2. s # <<>> /\ t # <<>>
    BY <1>8, <2>1, EmptySeq
  <2>3. Leads(doc, Front(s), Front(t))
    BY <1>8, <2>2, LeadsOut
  <2>4. Len(Front(s)) = Len(s) - 1 /\ \A i \in 1..Len(s) - 1 : Front(s)[i] = s[i]
    BY <1>8, <2>2, FrontIs
  <2>5. Len(Front(t)) = Len(t) - 1 /\ \A i \in 1..Len(t) - 1 : Front(t)[i] = t[i]
    BY <1>8, <2>2, FrontIs
  <2>6. ASSUME NEW i \in 1..Len(t) - 1 PROVE Front(t)[i] \notin {n}
    BY <1>8, <1>9, <2>1, <2>5, <2>6
  <2>7. Leads(e, Front(s), Front(t))
    BY <1>1, <1>2, <2>3, <2>5, <2>6, LeadsPruned
  <2>8. ASSUME NEW i \in 1..Len(Front(s))
        PROVE  path[i] = Front(s)[i] /\ q[i] = Front(t)[i]
    <3>1. i \in 1..Len(s) /\ i \in 1..Len(t) - 1 /\ i \in 1..Len(s) - 1
          /\ i \in 1..Len(t) /\ i # Len(t) /\ i \in 1..Len(pointers)
      BY <1>1, <1>8, <2>1, <2>4
    <3>2. QED
      BY <1>6, <1>9, <1>10, <2>4, <2>5, <3>1
  <2>9. ASSUME NEW i \in 1..Len(path), i > Len(Front(s)) PROVE q[i] = Dangling
    <3>1. CASE i > Len(s)
      BY <1>11, <3>1
    <3>2. CASE ~(i > Len(s))
      <4>1. i = Len(s) /\ i \in 1..Len(s)
        BY <1>1, <1>8, <2>1, <2>4, <2>9, <3>2
      <4>2. QED
        BY <1>1, <1>6, <1>8, <1>10, <2>1, <4>1
    <3>3. QED
      BY <3>1, <3>2
  <2>10. Len(Front(s)) <= Len(path)
    BY <1>1, <1>8, <2>4
  <2>11. Held(e, path, q, Front(s), Front(t))
    BY <2>7, <2>8, <2>9, <2>10 DEF Held
  <2>12. QED
    BY <1>5, <2>11 DEF Led
<1>14. QED
  BY <1>12, <1>13

LEMMA RunKeeps ==
  ASSUME DocsInv, RunL, UNCHANGED scope
  PROVE  DocsInv'
<1>1. Placed /\ Waiting
  BY DEF DocsInv
<1>2. /\ DocTypeOK /\ (broken \/ owed = IsActive) /\ (req = "none" <=> status = "idle")
  BY <1>1 DEF Waiting
<1>3. CASE (UpdateRunL \/ RunLeaves) /\ UNCHANGED listVars
  BY <1>1, <1>3, ListsUnchanged, RequestWaits DEF DocsInv
<1>4. CASE DeleteEmptyListsL
  <2>1. /\ req = "deleting" /\ status = "ok" /\ status' = status /\ rooted' = rooted
        /\ owed' = owed /\ broken' = broken /\ path' = path
    BY <1>4 DEF DeleteEmptyListsL
  <2>2. req' \in {"deleting", "deleted"}
    BY <1>4, <2>1 DEF DeleteEmptyListsL
  <2>3. Waiting'
    BY <1>2, <2>1, <2>2 DEF Waiting, DocTypeOK, Requests, IsActive
  <2>4. Placed'
    <3>1. ASSUME NEW n \in EmptyLists, doc' = Prune(doc, {n}),
                 pointers' = [i \in DOMAIN pointers |->
                                IF pointers[i] = n THEN Dangling ELSE pointers[i]]
          PROVE  Placed'
      <4>1. {n} \in SUBSET Nodes /\ doc[n].kind = "list"
        BY DEF EmptyLists, FindAll
      <4>2. Whole(doc') /\ Pruned(doc, {n}, doc')
        BY <1>1, <3>1, <4>1, PruneWhole DEF Placed
      <4>3. /\ pointers' \in Seq(Pointers) /\ Len(pointers') = Len(pointers)
            /\ Led(doc', path, pointers')
        BY <1>1, <3>1, <4>2, BareLed
      <4>4. QED
        BY <1>1, <2>1, <4>2, <4>3 DEF Placed
    <3>2. CASE UNCHANGED <<doc, pointers>>
      BY <1>1, <2>1, <3>2 DEF Placed
    <3>3. QED
      BY <1>4, <3>1, <3>2 DEF DeleteEmptyListsL
  <2>5. QED
    BY <2>3, <2>4 DEF DocsInv
<1>5. CASE /\ req = "deleted" /\ status = "ok"
           /\ req' = "none" /\ status' = "idle" /\ owed' = FALSE
           /\ UNCHANGED <<rooted, broken, listVars>>
  <2>1. Placed'
    BY <1>1, <1>5, ListsUnchanged
  <2>2. rooted' = rooted /\ broken' = broken
    BY <1>5
  <2>3. Waiting'
    BY <1>2, <1>5, <2>2
       DEF Waiting, DocTypeOK, Requests, Answers, IsActive
  <2>4. QED
    BY <2>1, <2>3 DEF DocsInv
<1>6. QED
  BY <1>3, <1>4, <1>5 DEF RunL

LEMMA EngineKeeps ==
  ASSUME DocsInv, Engine, "lists" \in scope, UNCHANGED scope
  PROVE  DocsInv'
<1>1. Placed /\ Waiting
  BY DEF DocsInv
<1>2. /\ DocTypeOK /\ (broken \/ owed = IsActive) /\ (req = "none" <=> status = "idle")
  BY <1>1 DEF Waiting
<1>3. PICK s \in Answers :
         /\ EngineCompletes(s)
         /\ IF s = "ok" /\ req = "fromServer" THEN doc' \in ServerDocs ELSE UNCHANGED doc
         /\ UNCHANGED <<path, pointers>>
  BY DEF Engine
<1>4. CASE s = "ok" /\ req = "fromServer"
  <2>1. /\ status = "pending" /\ status' = s /\ req' = req /\ owed' = owed
        /\ rooted' = (rooted \/ s = "ok") /\ broken' = broken /\ doc' \in ServerDocs
        /\ path' = path /\ pointers' = pointers
    BY <1>3, <1>4 DEF EngineCompletes
  <2>2. Whole(doc')
    BY <2>1, ServerDocsWhole
  <2>3. Void(pointers) /\ path \in Seq(Keys) /\ Len(path) = Len(pointers)
    BY <1>1, <1>4, <2>1 DEF Waiting, Placed
  <2>4. Led(doc', path, pointers)
    BY <2>3, VoidLed
  <2>5. Placed'
    BY <1>1, <2>1, <2>2, <2>4 DEF Placed
  <2>6. Waiting'
    BY <1>2, <1>4, <2>1
       DEF Waiting, DocTypeOK, Requests, Answers, IsActive
  <2>7. QED
    BY <2>5, <2>6 DEF DocsInv
<1>5. CASE ~(s = "ok" /\ req = "fromServer")
  <2>1. UNCHANGED listVars
    BY <1>3, <1>5 DEF listVars
  <2>2. \E a \in Answers : EngineCompletes(a) /\ (a # "ok" \/ req # "fromServer")
    BY <1>3, <1>5
  <2>3. QED
    BY <1>1, <2>1, <2>2, ListsUnchanged, RequestWaits DEF DocsInv
<1>6. QED
  BY <1>4, <1>5

-----------------------------------------------------------------------------
(* The documents of rules, which share the requests and nothing else.      *)

Quiet ==
  /\ req' = req /\ status' = status /\ owed' = owed /\ scope' = scope
  /\ broken' = broken /\ (rooted' = rooted \/ rooted' = TRUE)

LEMMA ChangeQuiet ==
  ASSUME NEW r, NEW new, Change(r, new)
  PROVE  Quiet
BY DEF Change, Quiet, docVars

LEMMA CreateQuiet ==
  ASSUME NEW r, NEW p, NEW new, Create(r, p, new)
  PROVE  Quiet
BY ChangeQuiet DEF Create

LEMMA EditQuiet ==
  ASSUME NEW r, NEW p, NEW new, Edit(r, p, new)
  PROVE  Quiet
BY ChangeQuiet DEF Edit

LEMMA RemovePartQuiet ==
  ASSUME NEW r, NEW p, RemovePart(r, p)
  PROVE  Quiet
BY ChangeQuiet DEF RemovePart

LEMMA RuleEditsQuiet ==
  ASSUME RuleEdits
  PROVE  Quiet
<1>1. ASSUME NEW r, OneEdits(r) PROVE Quiet
  BY <1>1, CreateQuiet, EditQuiet
     DEF OneEdits, AddIdentitiesL, DeleteIdentitiesL, DeleteAllIdentitiesL, AddIdentityL,
         DeleteIdentityL, Add, Drop
<1>2. ASSUME NEW r, ManyEdits(r) PROVE Quiet
  BY <1>2, CreateQuiet, EditQuiet
     DEF ManyEdits, AddManyIdentityL, RemoveManyIdentityL,
         DeleteAllIdentitiesFromManyExceptL, AddIdentityInManyExceptL,
         RemoveIdentityFromManyExceptL, AddIdentitiesInManyExceptL, SetExcepts
<1>3. ASSUME NEW r, MiscEdits(r) PROVE Quiet
  BY <1>3, CreateQuiet, RemovePartQuiet
     DEF MiscEdits, AddOtherIdentityL, RemoveOtherIdentityL, AddAnonymousRequestL,
         RemoveAnonymousRequestL
<1>4. ASSUME NEW r, ExternEdits(r) PROVE Quiet
  BY <1>4, CreateQuiet, EditQuiet
     DEF ExternEdits, AddExternListL, DeleteExternalListL, DeleteExternalListsL,
         DeleteAllExternalListsL, Add, Drop
<1>5. ASSUME NEW r, SphereEdits(r) PROVE Quiet
  BY <1>5, CreateQuiet, RemovePartQuiet
     DEF SphereEdits, AddOrReplaceSphereL, DeleteSphereL
<1>6. ASSUME NEW r, ValidityEdits(r) PROVE Quiet
  BY <1>6, CreateQuiet, RemovePartQuiet
     DEF ValidityEdits, AddValidityL, DeleteAllValidityL
<1>7. ASSUME NEW r, ActionEdits(r) PROVE Quiet
  BY <1>7, CreateQuiet, RemovePartQuiet
     DEF ActionEdits, RemoveActionL, AddOrReplaceActionL
<1>8. ASSUME NEW r, TransformEdits(r) PROVE Quiet
  BY <1>8, CreateQuiet, RemovePartQuiet, ChangeQuiet
     DEF TransformEdits, AddOrRepProvideAllTransComplexL, AddTransComplexL,
         AddOrRepTransBoolL, RemoveTransformL, RemoveAllTransforms
<1>9. ASSUME NEW r, DeleteRuleL(r) \/ CreateNewRuleL(r) PROVE Quiet
  BY <1>9, ChangeQuiet DEF DeleteRuleL, CreateNewRuleL, Quiet
<1>10. ASSUME DeleteAllRules \/ DeleteEmptyRulesL \/ Travel PROVE Quiet
  BY <1>10 DEF DeleteAllRules, DeleteEmptyRulesL, Travel, Quiet, docVars
<1>11. QED
  BY <1>1, <1>2, <1>3, <1>4, <1>5, <1>6, <1>7, <1>8, <1>9, <1>10 DEF RuleEdits

LEMMA QuietWaits ==
  ASSUME Waiting, Quiet, "lists" \notin scope
  PROVE  Waiting'
<1>1. req' = req /\ status' = status /\ owed' = owed /\ scope' = scope /\ broken' = broken
  BY DEF Quiet
<1>2. rooted \in BOOLEAN /\ rooted' \in BOOLEAN
  BY DEF Quiet, Waiting, DocTypeOK
<1>3. DocTypeOK' /\ (broken' \/ owed' = IsActive') /\ (req' = "none" <=> status' = "idle")
  BY <1>1, <1>2 DEF Waiting, DocTypeOK, IsActive
<1>4. QED
  BY <1>1, <1>3 DEF Waiting

LEMMA RulesKeep ==
  ASSUME DocsInv, "lists" \notin scope, UNCHANGED listVars,
         RuleEdits \/ RuleAsks \/ RuleRunL \/ RuleEngine
  PROVE  DocsInv'
<1>1. Placed /\ Waiting
  BY DEF DocsInv
<1>2. Placed'
  BY <1>1, ListsUnchanged
<1>3. CASE RuleEdits
  <2>1. Waiting'
    BY <1>1, <1>3, RuleEditsQuiet, QuietWaits
  <2>2. QED
    BY <1>2, <2>1 DEF DocsInv
<1>4. CASE ~RuleEdits
  <2>1. scope' = scope
    BY <1>4 DEF RuleAsks, RuleUpdateAllFromServerL, RuleRequests, RuleRunL, RuleEngine,
                ruleVars
  <2>2. \/ UpdateToServer \/ CancelUpdate \/ UpdateRunL \/ RunLeaves
        \/ UpdateFromServer \/ UpdateFromServerLeaves
        \/ \E s \in Answers : EngineCompletes(s)
    BY <1>4 DEF RuleAsks, RuleUpdateAllFromServerL, RuleRequests, RuleRunL, RuleEngine
  <2>3. Waiting'
    BY <1>1, <2>1, <2>2, RequestWaits
  <2>4. QED
    BY <1>2, <2>3 DEF DocsInv
<1>5. QED
  BY <1>3, <1>4

(* The other documents share nothing with the lists. *)
LEMMA OthersKeep ==
  ASSUME DocsInv, UNCHANGED <<docVars, listVars, ruleVars>>
  PROVE  DocsInv'
<1>1. Placed /\ Waiting
  BY DEF DocsInv
<1>2. Placed'
  BY <1>1, ListsUnchanged
<1>3. /\ pointers' = pointers /\ scope' = scope /\ broken' = broken
      /\ req' = req /\ status' = status /\ rooted' = rooted /\ owed' = owed
  BY DEF listVars, ruleVars, docVars
<1>4. DocTypeOK' /\ (broken' \/ owed' = IsActive') /\ (req' = "none" <=> status' = "idle")
  BY <1>1, <1>3 DEF Waiting, DocTypeOK, IsActive
<1>5. Waiting'
  BY <1>1, <1>3, <1>4 DEF Waiting
<1>6. QED
  BY <1>2, <1>5 DEF DocsInv

-----------------------------------------------------------------------------
(* The inductive invariant. *)
LEMMA NextKeeps ==
  ASSUME DocsInv, [Next]_vars
  PROVE  DocsInv'
<1>1. CASE UNCHANGED vars
  <2>1. UNCHANGED <<docVars, listVars, ruleVars>>
    BY <1>1 DEF vars
  <2>2. QED
    BY <2>1, OthersKeep
<1>2. CASE ListSteps(Navigates) \/ ListSteps(Edits) \/ ListSteps(Requesting)
           \/ ListSteps(RunL) \/ ListSteps(Engine)
  <2>1. "lists" \in scope /\ scope' = scope
    BY <1>2 DEF ListSteps, ruleVars
  <2>2. Navigates \/ Edits \/ Requesting \/ RunL \/ Engine
    BY <1>2 DEF ListSteps
  <2>3. QED
    BY <2>1, <2>2, NavigatesKeep, EditsKeep, RequestingKeeps, RunKeeps, EngineKeeps
<1>3. CASE RuleSteps(RuleEdits) \/ RuleSteps(RuleAsks) \/ RuleSteps(RuleRunL)
           \/ RuleSteps(RuleEngine)
  <2>1. "lists" \notin scope /\ UNCHANGED listVars
    BY <1>3 DEF RuleSteps
  <2>2. RuleEdits \/ RuleAsks \/ RuleRunL \/ RuleEngine
    BY <1>3 DEF RuleSteps
  <2>3. QED
    BY <2>1, <2>2, RulesKeep
<1>4. CASE MimeSteps(Writes) \/ MimeSteps(Reads) \/ TreeSteps(Handles)
  <2>1. UNCHANGED <<docVars, listVars, ruleVars>>
    BY <1>4 DEF MimeSteps, TreeSteps
  <2>2. QED
    BY <2>1, OthersKeep
<1>5. QED
  BY <1>1, <1>2, <1>3, <1>4 DEF Next, Runs, Engines

(* Between two methods the document is whole, and the path leads where its *)
(* names say up to the first pointer that dangles.                         *)
THEOREM Invariance == Spec => []DocsInv
<1>1. Init => DocsInv
  BY DocsInit
<1>2. DocsInv /\ [Next]_vars => DocsInv'
  BY NextKeeps
<1>3. QED
  BY <1>1, <1>2, PTL DEF Spec

(* The pointers of the current path (iListPointerPath) are always nodes    *)
(* that its names (iListPath) lead to, or dangle since a fetch or a pass   *)
(* of the deletion of empty lists: whatever the application edits, also    *)
(* between these passes and while a fetch is under way, no other method of *)
(* CRLSXDM leaves the path behind on a node that it removes or renames.    *)
THEOREM PathAlwaysAgrees == Spec => []PathAgrees
<1>1. DocsInv => PathAgrees
  <2> SUFFICES ASSUME DocsInv, NEW i \in 1..Len(path), pointers[i] # Dangling
               PROVE  pointers[i] \in Reached(path)[i]
    BY DEF PathAgrees
  <2>1. Whole(doc) /\ path \in Seq(Keys)
    BY DEF DocsInv, Placed
  <2>2. PICK s, t : Held(doc, path, pointers, s, t)
    BY DEF DocsInv, Placed, Led
  <2>3. Leads(doc, s, t) /\ Len(s) \in Nat /\ Len(s) <= Len(path) /\ Len(path) \in Nat
    BY <2>1, <2>2 DEF Held, Leads
  <2>4. i \in 1..Len(s)
    BY <2>2, <2>3 DEF Held
  <2>5. pointers[i] = t[i] /\ \A j \in 1..Len(s) : path[j] = s[j]
    BY <2>2, <2>4 DEF Held
  <2>6. t[i] \in Reached(path)[i]
    BY <2>1, <2>3, <2>4, <2>5, LeadsFound
  <2>7. QED
    BY <2>5, <2>6
<1>2. QED
  BY <1>1, Invariance, PTL

(* The lists always have the shape that the server demands, whatever is    *)
(* edited between the passes that delete the empty ones: packages at the   *)
(* end of each service, different names in each place, a display name at   *)
(* the front; and the application waits for its handler exactly while      *)
(* CRLSXDM is active, unless RunL has left.                                *)
THEOREM ListsAlwaysSound == Spec => []ListsSound
<1>1. DocsInv => ListsSound
  <2> SUFFICES ASSUME DocsInv PROVE ListsSound
    OBVIOUS
  <2>1. Placed /\ Waiting
    BY DEF DocsInv
  <2>2. Tree(doc) /\ Shape(doc, {})
    BY <2>1 DEF Placed, Whole
  <2>3. PackagesLast /\ UniqueElements /\ DisplayIsName
    BY <2>2, ShapeIs
  <2>4. DocTypeOK /\ OwedWhileActive
    BY <2>1 DEF Waiting, OwedWhileActive
  <2>5. ListTypeOK
    <3>1. doc \in [Nodes \cup {Root} -> Node]
      BY <2>2 DEF Tree, All0
    <3>2. pointers \in Seq(Pointers) /\ Len(path) = Len(pointers)
      BY <2>1 DEF Placed
    <3>3. Range(pointers) \subseteq Nodes \cup {Dangling}
      BY <3>2 DEF Range, Pointers
    <3>4. QED
      BY <3>1, <3>2, <3>3 DEF ListTypeOK
  <2>6. QED
    BY <2>3, <2>4, <2>5 DEF ListsSound
<1>2. QED
  BY <1>1, Invariance, PTL

-----------------------------------------------------------------------------
(* Sequences that are picked from others in their order. *)
Picks(f, w, s, k) ==
  /\ f \in [1..Len(w) -> 1..k] /\ \A j \in 1..Len(w) : w[j] = s[f[j]]
  /\ \A i, j \in 1..Len(w) : i < j => f[i] < f[j]
Picked(w, s) == \E f : Picks(f, w, s, Len(s))

LEMMA WithoutPicks ==
  ASSUME NEW S, NEW s \in Seq(S), NEW T
  PROVE  Picked(Without(s, T), s)
<1>0. PICK f : Rests(f, s, T, S) /\ Without(s, T) = f[Len(s)]
  BY WithoutUnfolds
<1>1. /\ f \in [0..Len(s) -> Seq(S)] /\ f[0] = <<>> /\ Without(s, T) = f[Len(s)]
      /\ \A i \in 1..Len(s) :
            f[i] = IF s[i] \in T THEN f[i - 1] ELSE Append(f[i - 1], s[i])
  BY <1>0 DEF Rests
<1>2. Len(s) \in Nat /\ \A i \in 1..Len(s) : s[i] \in S
  BY LenProperties, ElementOfSeq
<1> DEFINE Off == {k \in 0..Len(s) : ~\E g : Picks(g, f[k], s, k)}
<1>3. SUFFICES ASSUME Off # {} PROVE FALSE
  <2>1. Len(s) \in 0..Len(s)
    BY <1>2
  <2>2. QED
    BY <1>1, <2>1 DEF Picked
<1>4. Off \in SUBSET Nat
  BY <1>2
<1>5. PICK k \in Off : \A n \in Off : k <= n
  <2> HIDE DEF Off
  <2>1. QED
    BY <1>3, <1>4, LeastOf
<1>6. k # 0
  <2>1. Len(<<>>) = 0 /\ 1..0 = {}
    BY EmptySeq
  <2>2. Picks([j \in 1..0 |-> 0], <<>>, s, 0)
    BY <2>1 DEF Picks
  <2>3. QED
    BY <1>1, <1>5, <2>2
<1>7. k \in 1..Len(s) /\ k - 1 \in 0..Len(s) /\ ~(k <= k - 1) /\ k \in Nat
  BY <1>2, <1>5, <1>6
<1>8. k - 1 \notin Off
  <2> HIDE DEF Off
  <2>1. QED
    BY <1>5, <1>7
<1>9. PICK g : Picks(g, f[k - 1], s, k - 1)
  BY <1>7, <1>8
<1> DEFINE r == f[k - 1]
<1>10. r \in Seq(S) /\ s[k] \in S /\ f[k] = IF s[k] \in T THEN r ELSE Append(r, s[k])
  BY <1>1, <1>2, <1>7
<1> HIDE DEF r
<1>11. /\ g \in [1..Len(r) -> 1..(k - 1)] /\ \A j \in 1..Len(r) : r[j] = s[g[j]]
       /\ \A i, j \in 1..Len(r) : i < j => g[i] < g[j]
  BY <1>9 DEF Picks, r
<1>12. CASE s[k] \in T
  <2>1. \A j \in 1..(k - 1) : j \in 1..k
    BY <1>7
  <2>2. g \in [1..Len(r) -> 1..k]
    BY <1>11, <2>1
  <2>3. Picks(g, r, s, k)
    BY <1>11, <2>2 DEF Picks
  <2>4. QED
    BY <1>5, <1>10, <1>12, <2>3
<1>13. CASE s[k] \notin T
  <2> DEFINE a == Append(r, s[k])
             h == [j \in 1..Len(a) |-> IF j = Len(a) THEN k ELSE g[j]]
  <2>1. /\ Len(a) = Len(r) + 1 /\ \A i \in 1..Len(r) : a[i] = r[i]
        /\ a[Len(r) + 1] = s[k] /\ Len(r) \in Nat
    BY <1>10, AppendProperties, LenProperties
  <2> HIDE DEF a
  <2>2. \A j \in 1..Len(a) : j # Len(a) => j \in 1..Len(r)
    BY <2>1
  <2>3. \A j \in 1..Len(r) : g[j] \in 1..k /\ g[j] < k
    BY <1>7, <1>11
  <2>4. h \in [1..Len(a) -> 1..k]
    BY <1>7, <2>2, <2>3
  <2>5. \A j \in 1..Len(a) : a[j] = s[h[j]]
    BY <1>11, <2>1, <2>2
  <2>6. ASSUME NEW i \in 1..Len(a), NEW j \in 1..Len(a), i < j PROVE h[i] < h[j]
    <3>1. i # Len(a) /\ i \in 1..Len(r) /\ h[i] = g[i]
      BY <2>1, <2>2, <2>6
    <3>2. CASE j = Len(a)
      BY <2>3, <3>1, <3>2
    <3>3. CASE j # Len(a)
      BY <1>11, <2>2, <2>6, <3>1, <3>3
    <3>4. QED
      BY <3>2, <3>3
  <2>7. Picks(h, a, s, k)
    <3> HIDE DEF h
    <3>1. QED
      BY <2>4, <2>5, <2>6 DEF Picks
  <2>8. QED
    BY <1>5, <1>10, <1>13, <2>7 DEF a
<1>14. QED
  BY <1>12, <1>13

LEMMA RemovePicks ==
  ASSUME NEW S, NEW s \in Seq(S), NEW n \in 1..Len(s)
  PROVE  /\ RemoveAt(s, n) \in Seq(S) /\ Len(RemoveAt(s, n)) = Len(s) - 1
         /\ Picked(RemoveAt(s, n), s)
<1> DEFINE a == SubSeq(s, 1, n - 1)
           b == SubSeq(s, n + 1, Len(s))
           w == RemoveAt(s, n)
           f == [j \in 1..Len(w) |-> IF j < n THEN j ELSE j + 1]
<1>1. Len(s) \in Nat /\ n \in Nat /\ \A i \in 1..Len(s) : s[i] \in S
  BY LenProperties, ElementOfSeq
<1>2. a \in Seq(S) /\ Len(a) = n - 1 /\ \A i \in 1..(n - 1) : a[i] = s[i]
  <2>1. \A i \in 1..(n - 1) : s[i] \in S
    BY <1>1
  <2>2. /\ a \in Seq(S) /\ Len(a) = IF 1 <= n - 1 THEN (n - 1) - 1 + 1 ELSE 0
        /\ \A i \in 1..(n - 1) - 1 + 1 : a[i] = s[1 + i - 1]
    <3>1. 1 \in Int /\ n - 1 \in Int
      BY <1>1
    <3>2. QED
      BY <2>1, <3>1, SubSeqProperties
  <2>3. \A i \in 1..(n - 1) : i \in 1..(n - 1) - 1 + 1 /\ 1 + i - 1 = i
    BY <1>1
  <2> HIDE DEF a
  <2>4. \A i \in 1..(n - 1) : a[i] = s[i]
    BY <2>2, <2>3
  <2>5. QED
    BY <1>1, <2>2, <2>4
<1>3. /\ b \in Seq(S) /\ Len(b) = Len(s) - n
      /\ \A i \in 1..(Len(s) - n) : b[i] = s[n + i]
  <2>1. \A i \in (n + 1)..Len(s) : s[i] \in S
    BY <1>1
  <2>2. /\ b \in Seq(S)
        /\ Len(b) = IF n + 1 <= Len(s) THEN Len(s) - (n + 1) + 1 ELSE 0
        /\ \A i \in 1..Len(s) - (n + 1) + 1 : b[i] = s[(n + 1) + i - 1]
    <3>1. n + 1 \in Int /\ Len(s) \in Int
      BY <1>1
    <3>2. QED
      BY <2>1, <3>1, SubSeqProperties
  <2>3. \A i \in 1..(Len(s) - n) : i \in 1..Len(s) - (n + 1) + 1 /\ (n + 1) + i - 1 = n + i
    BY <1>1
  <2> HIDE DEF b
  <2>4. \A i \in 1..(Len(s) - n) : b[i] = s[n + i]
    BY <2>2, <2>3
  <2>5. QED
    BY <1>1, <2>2, <2>4
<1>4. w = a \o b
  BY DEF RemoveAt
<1> HIDE DEF a, b, w
<1>5. /\ w \in Seq(S) /\ Len(w) = Len(s) - 1
      /\ \A i \in 1..(Len(s) - 1) : w[i] = IF i <= n - 1 THEN a[i] ELSE b[i - (n - 1)]
  <2>1. Len(a) + Len(b) = Len(s) - 1
    BY <1>1, <1>2, <1>3
  <2>2. /\ a \o b \in Seq(S) /\ Len(a \o b) = Len(a) + Len(b)
        /\ \A i \in 1..Len(a) + Len(b) :
             (a \o b)[i] = IF i <= Len(a) THEN a[i] ELSE b[i - Len(a)]
    BY <1>2, <1>3, ConcatProperties
  <2>3. QED
    BY <1>2, <1>4, <2>1, <2>2
<1>6. ASSUME NEW j \in 1..Len(w) PROVE f[j] \in 1..Len(s) /\ w[j] = s[f[j]]
  <2>1. CASE j < n
    <3>1. j \in 1..(n - 1) /\ j \in 1..Len(s) /\ j \in 1..(Len(s) - 1) /\ j <= n - 1
      BY <1>1, <1>5, <2>1
    <3>2. QED
      BY <1>2, <1>5, <2>1, <3>1
  <2>2. CASE ~(j < n)
    <3>1. /\ j - (n - 1) \in 1..(Len(s) - n) /\ n + (j - (n - 1)) = j + 1 /\ ~(j <= n - 1)
          /\ j + 1 \in 1..Len(s) /\ j \in 1..(Len(s) - 1)
      BY <1>1, <1>5, <2>2
    <3>2. b[j - (n - 1)] = s[n + (j - (n - 1))]
      BY <1>3, <3>1
    <3>3. QED
      BY <1>5, <2>2, <3>1, <3>2
  <2>3. QED
    BY <2>1, <2>2
<1>7. \A i, j \in 1..Len(w) : i < j => f[i] < f[j]
  BY <1>1, <1>5
<1>8. Picks(f, w, s, Len(s))
  <2>1. f \in [1..Len(w) -> 1..Len(s)]
    BY <1>6
  <2> HIDE DEF f
  <2>2. QED
    BY <1>6, <1>7, <2>1 DEF Picks
<1>9. QED
  BY <1>5, <1>8 DEF Picked, w

LEMMA RemoveFirstPicks ==
  ASSUME NEW S, NEW s \in Seq(S), NEW e \in Range(s)
  PROVE  /\ RemoveFirst(s, e) \in Seq(S) /\ Len(RemoveFirst(s, e)) = Len(s) - 1
         /\ Picked(RemoveFirst(s, e), s)
<1> DEFINE I == {i \in 1..Len(s) : s[i] = e}
<1>1. Len(s) \in Nat /\ DOMAIN s = 1..Len(s)
  BY LenProperties
<1>2. \E i \in 1..Len(s) : s[i] = e
  BY <1>1 DEF Range
<1>3. I \in SUBSET Nat /\ I # {}
  BY <1>1, <1>2
<1>4. Min(I) \in I
  <2> HIDE DEF I
  <2>1. \E m \in I : \A n \in I : m <= n
    BY <1>3, LeastOf
  <2>2. QED
    BY <2>1 DEF Min
<1>5. RemoveFirst(s, e) = RemoveAt(s, Min(I))
  BY <1>2, <1>3 DEF RemoveFirst, SelectInSeq
<1>6. Min(I) \in 1..Len(s)
  BY <1>4
<1> HIDE DEF I
<1>7. QED
  BY <1>5, <1>6, RemovePicks

LEMMA ConcatIs ==
  ASSUME NEW S, NEW a \in Seq(S), NEW b \in Seq(S)
  PROVE  /\ a \o b \in Seq(S) /\ Len(a \o b) = Len(a) + Len(b)
         /\ \A i \in 1..Len(a \o b) :
              \/ i \in 1..Len(a) /\ (a \o b)[i] = a[i]
              \/ i - Len(a) \in 1..Len(b) /\ (a \o b)[i] = b[i - Len(a)]
<1>1. /\ a \o b \in Seq(S) /\ Len(a \o b) = Len(a) + Len(b)
      /\ \A i \in 1..Len(a) + Len(b) :
           (a \o b)[i] = IF i <= Len(a) THEN a[i] ELSE b[i - Len(a)]
  BY ConcatProperties
<1>2. Len(a) \in Nat /\ Len(b) \in Nat
  BY LenProperties
<1>3. QED
  BY <1>1, <1>2

LEMMA InsertIs ==
  ASSUME NEW S, NEW s \in Seq(S), NEW e \in S, NEW n \in 1..(Len(s) + 1)
  PROVE  LET w == InsertAt(s, n, e)
         IN  /\ w \in Seq(S) /\ Len(w) = Len(s) + 1 /\ w[n] = e
             /\ \A i \in 1..(n - 1) : w[i] = s[i]
             /\ \A i \in (n + 1)..Len(w) : w[i] = s[i - 1] /\ i - 1 \in 1..Len(s)
<1> DEFINE a == SubSeq(s, 1, n - 1)
           b == SubSeq(s, n, Len(s))
           c == a \o <<e>>
           w == InsertAt(s, n, e)
<1>1. Len(s) \in Nat /\ n \in Nat /\ \A i \in 1..Len(s) : s[i] \in S
  BY LenProperties, ElementOfSeq
<1>2. a \in Seq(S) /\ Len(a) = n - 1 /\ \A i \in 1..(n - 1) : a[i] = s[i]
  <2>1. \A i \in 1..(n - 1) : s[i] \in S
    BY <1>1
  <2>2. /\ a \in Seq(S) /\ Len(a) = IF 1 <= n - 1 THEN (n - 1) - 1 + 1 ELSE 0
        /\ \A i \in 1..(n - 1) - 1 + 1 : a[i] = s[1 + i - 1]
    <3>1. 1 \in Int /\ n - 1 \in Int
      BY <1>1
    <3>2. QED
      BY <2>1, <3>1, SubSeqProperties
  <2>3. \A i \in 1..(n - 1) : i \in 1..(n - 1) - 1 + 1 /\ 1 + i - 1 = i
    BY <1>1
  <2> HIDE DEF a
  <2>4. \A i \in 1..(n - 1) : a[i] = s[i]
    BY <2>2, <2>3
  <2>5. QED
    BY <1>1, <2>2, <2>4
<1>3. /\ b \in Seq(S) /\ Len(b) = Len(s) - n + 1
      /\ \A i \in 1..(Len(s) - n + 1) : b[i] = s[n + i - 1]
  <2>1. \A i \in n..Len(s) : s[i] \in S
    BY <1>1
  <2>2. /\ b \in Seq(S) /\ Len(b) = IF n <= Len(s) THEN Len(s) - n + 1 ELSE 0
        /\ \A i \in 1..Len(s) - n + 1 : b[i] = s[n + i - 1]
    <3>1. n \in Int /\ Len(s) \in Int
      BY <1>1
    <3>2. QED
      BY <2>1, <3>1, SubSeqProperties
  <2> HIDE DEF b
  <2>3. Len(b) = Len(s) - n + 1
    BY <1>1, <2>2
  <2>4. \A i \in 1..(Len(s) - n + 1) : b[i] = s[n + i - 1]
    BY <2>2
  <2>5. QED
    BY <2>2, <2>3, <2>4
<1>4. w = c \o b
  BY DEF InsertAt
<1>5. <<e>> \in Seq(S) /\ Len(<<e>>) = 1 /\ <<e>>[1] = e
  <2>1. <<e>> = Append(<<>>, e) /\ <<>> \in Seq(S) /\ Len(<<>>) = 0
    BY EmptySeq
  <2>2. QED
    BY <2>1, AppendProperties
<1> HIDE DEF a, b, w
<1>6. /\ c \in Seq(S) /\ Len(c) = n /\ c[n] = e /\ \A i \in 1..(n - 1) : c[i] = s[i]
  <2>1. /\ a \o <<e>> \in Seq(S) /\ Len(a \o <<e>>) = Len(a) + Len(<<e>>)
        /\ \A i \in 1..Len(a) + Len(<<e>>) :
             (a \o <<e>>)[i] = IF i <= Len(a) THEN a[i] ELSE <<e>>[i - Len(a)]
    BY <1>2, <1>5, ConcatProperties
  <2>2. Len(c) = n /\ \A i \in 1..n : c[i] = IF i <= n - 1 THEN a[i] ELSE <<e>>[i - (n - 1)]
    BY <1>1, <1>2, <1>5, <2>1
  <2>3. n \in 1..n /\ ~(n <= n - 1) /\ n - (n - 1) = 1
    BY <1>1
  <2>4. c[n] = e
    BY <1>5, <2>2, <2>3
  <2>5. \A i \in 1..(n - 1) : i \in 1..n /\ i <= n - 1
    BY <1>1
  <2> HIDE DEF c
  <2>6. \A i \in 1..(n - 1) : c[i] = s[i]
    BY <1>2, <2>2, <2>5
  <2>7. QED
    BY <2>1, <2>2, <2>4, <2>6 DEF c
<1> HIDE DEF c
<1>7. /\ w \in Seq(S) /\ Len(w) = n + (Len(s) - n + 1)
      /\ \A i \in 1..n + (Len(s) - n + 1) : w[i] = IF i <= n THEN c[i] ELSE b[i - n]
  <2>1. /\ c \o b \in Seq(S) /\ Len(c \o b) = Len(c) + Len(b)
        /\ \A i \in 1..Len(c) + Len(b) :
             (c \o b)[i] = IF i <= Len(c) THEN c[i] ELSE b[i - Len(c)]
    BY <1>3, <1>6, ConcatProperties
  <2>2. Len(c) = n /\ Len(b) = Len(s) - n + 1
    BY <1>3, <1>6
  <2>3. QED
    BY <1>4, <2>1, <2>2
<1>8. Len(w) = Len(s) + 1
  BY <1>1, <1>7
<1>9. ASSUME NEW i \in (n + 1)..Len(w)
      PROVE  w[i] = s[i - 1] /\ i - 1 \in 1..Len(s)
  <2>1. /\ i \in 1..n + (Len(s) - n + 1) /\ ~(i <= n) /\ i - n \in 1..(Len(s) - n + 1)
        /\ n + (i - n) - 1 = i - 1 /\ i - 1 \in 1..Len(s)
    BY <1>1, <1>8
  <2>2. w[i] = b[i - n] /\ b[i - n] = s[n + (i - n) - 1]
    BY <1>3, <1>7, <2>1
  <2>3. QED
    BY <2>1, <2>2
<1>10. n \in 1..n + (Len(s) - n + 1) /\ n <= n
  BY <1>1
<1>11. \A i \in 1..(n - 1) : i \in 1..n + (Len(s) - n + 1) /\ i <= n
  BY <1>1
<1>12. QED
  BY <1>6, <1>7, <1>8, <1>9, <1>10, <1>11 DEF w

-----------------------------------------------------------------------------
(* The children of a rule in the order of the schema. *)
ChildNames == {"conditions", "actions", "transformations"}
Ordered(s) ==
  /\ s \in Seq(ChildNames)
  /\ \A i, j \in 1..Len(s) : i < j => <<s[i], s[j]>> \in Before

LEMMA ChildNamesAre ==
  Range(Children) = ChildNames
<1>1. /\ DOMAIN Children = 1..3 /\ Children[1] = "conditions" /\ Children[2] = "actions"
      /\ Children[3] = "transformations"
  BY DEF Children
<1>2. QED
  BY <1>1 DEF Range, ChildNames

LEMMA OrderedPick ==
  ASSUME NEW s, Ordered(s), NEW w \in Seq(ChildNames), Picked(w, s)
  PROVE  Ordered(w)
<1>1. PICK f : Picks(f, w, s, Len(s))
  BY DEF Picked
<1>2. /\ \A j \in 1..Len(w) : f[j] \in 1..Len(s) /\ w[j] = s[f[j]]
      /\ \A i, j \in 1..Len(w) : i < j => f[i] < f[j]
  BY <1>1 DEF Picks
<1>3. QED
  BY <1>2 DEF Ordered

LEMMA RangeAt ==
  ASSUME NEW S, NEW s \in Seq(S), NEW e
  PROVE  e \in Range(s) <=> \E i \in 1..Len(s) : s[i] = e
BY LenProperties DEF Range

(* A child that was missing is in its place then, and no other is lost.    *)
LEMMA ChildIsMade ==
  ASSUME NEW rule, DOMAIN rule = {"there", "kids", "has", "parts"}, Ordered(rule.kids),
         NEW c \in ChildNames
  PROVE  LET new == GetRuleChildNodeL(rule, c)
         IN  /\ DOMAIN new = {"there", "kids", "has", "parts"} /\ Ordered(new.kids)
             /\ new.has = rule.has /\ new.parts = rule.parts
             /\ c \in Range(new.kids) /\ Range(rule.kids) \subseteq Range(new.kids)
<1> DEFINE new == GetRuleChildNodeL(rule, c)
           s == rule.kids
<1>1. CASE c \in Range(s)
  BY <1>1 DEF GetRuleChildNodeL
<1>2. ASSUME c \notin Range(s), NEW w, new = [rule EXCEPT !.kids = w], Ordered(w),
             c \in Range(w), Range(s) \subseteq Range(w)
      PROVE  /\ DOMAIN new = {"there", "kids", "has", "parts"} /\ Ordered(new.kids)
             /\ new.has = rule.has /\ new.parts = rule.parts
             /\ c \in Range(new.kids) /\ Range(rule.kids) \subseteq Range(new.kids)
  <2>1. /\ DOMAIN new = DOMAIN rule /\ new.kids = w /\ new.has = rule.has
        /\ new.parts = rule.parts
    BY <1>2
  <2>2. QED
    BY <1>2, <2>1
<1>3. /\ s \in Seq(ChildNames) /\ Len(s) \in Nat
      /\ \A i, j \in 1..Len(s) : i < j => <<s[i], s[j]>> \in Before
      /\ \A i \in 1..Len(s) : s[i] \in ChildNames
  BY LenProperties, ElementOfSeq DEF Ordered
<1>4. ASSUME c \notin Range(s), NEW n \in 1..(Len(s) + 1),
             \A i \in 1..Len(s) : IF i < n THEN <<s[i], c>> \in Before ELSE <<c, s[i]>> \in Before,
             NEW w, w = InsertAt(s, n, c)
      PROVE  Ordered(w) /\ c \in Range(w) /\ Range(s) \subseteq Range(w)
  <2>1. /\ w \in Seq(ChildNames) /\ Len(w) = Len(s) + 1 /\ w[n] = c
        /\ \A i \in 1..(n - 1) : w[i] = s[i]
        /\ \A i \in (n + 1)..Len(w) : w[i] = s[i - 1] /\ i - 1 \in 1..Len(s)
    BY <1>3, <1>4, InsertIs
  <2>2. ASSUME NEW i \in 1..Len(w), NEW j \in 1..Len(w), i < j
        PROVE  <<w[i], w[j]>> \in Before
    <3>1. CASE j < n
      <4>1. i \in 1..(n - 1) /\ j \in 1..(n - 1) /\ i \in 1..Len(s) /\ j \in 1..Len(s)
        BY <1>3, <1>4, <2>2, <3>1
      <4>2. QED
        BY <1>3, <2>1, <2>2, <4>1
    <3>2. CASE j = n
      <4>1. i \in 1..(n - 1) /\ i \in 1..Len(s) /\ i < n
        BY <1>3, <1>4, <2>2, <3>2
      <4>2. QED
        BY <1>4, <2>1, <3>2, <4>1
    <3>3. CASE j > n
      <4>1. j \in (n + 1)..Len(w) /\ j - 1 \in 1..Len(s) /\ w[j] = s[j - 1] /\ ~(j - 1 < n)
        BY <1>3, <1>4, <2>1, <2>2, <3>3
      <4>2. CASE i < n
        <5>1. i \in 1..(n - 1) /\ i \in 1..Len(s) /\ i < j - 1
          BY <1>3, <1>4, <4>1, <4>2
        <5>2. QED
          BY <1>3, <2>1, <4>1, <5>1
      <4>3. CASE i = n
        BY <1>4, <2>1, <4>1, <4>3
      <4>4. CASE i > n
        <5>1. i \in (n + 1)..Len(w) /\ i - 1 \in 1..Len(s) /\ w[i] = s[i - 1] /\ i - 1 < j - 1
          BY <1>3, <1>4, <2>1, <2>2, <4>4
        <5>2. QED
          BY <1>3, <4>1, <5>1
      <4>5. QED
        BY <1>4, <2>2, <4>2, <4>3, <4>4
    <3>4. QED
      BY <1>4, <2>2, <3>1, <3>2, <3>3
  <2>3. n \in 1..Len(w)
    BY <1>3, <2>1
  <2>4. ASSUME NEW i \in 1..Len(s) PROVE s[i] \in Range(w)
    <3>1. CASE i < n
      <4>1. i \in 1..(n - 1) /\ i \in 1..Len(w)
        BY <1>3, <2>1, <3>1
      <4>2. QED
        BY <2>1, <4>1, RangeAt
    <3>2. CASE ~(i < n)
      <4>1. i + 1 \in (n + 1)..Len(w) /\ i + 1 \in 1..Len(w) /\ (i + 1) - 1 = i
        BY <1>3, <1>4, <2>1, <3>2
      <4>2. w[i + 1] = s[i]
        BY <2>1, <4>1
      <4>3. QED
        BY <2>1, <4>1, <4>2, RangeAt
    <3>3. QED
      BY <3>1, <3>2
  <2>5. c \in Range(w)
    BY <2>1, <2>3, RangeAt
  <2>6. Range(s) \subseteq Range(w)
    <3>1. \A e \in Range(s) : \E i \in 1..Len(s) : s[i] = e
      BY <1>3, RangeAt
    <3>2. QED
      BY <2>4, <3>1
  <2>7. QED
    BY <2>1, <2>2, <2>5, <2>6 DEF Ordered
<1> HIDE DEF new, s
<1>5. CASE c \notin Range(s) /\ c = "conditions"
  <2>1. new = [rule EXCEPT !.kids = InsertAt(s, 1, c)]
    BY <1>5 DEF new, s, GetRuleChildNodeL
  <2>2. \A i \in 1..Len(s) : s[i] # c /\ s[i] \in ChildNames /\ ~(i < 1)
    BY <1>3, <1>5, RangeAt
  <2>3. \A i \in 1..Len(s) : <<c, s[i]>> \in Before
    BY <1>5, <2>2 DEF Before, ChildNames
  <2>4. 1 \in 1..(Len(s) + 1)
    BY <1>3
  <2>5. PICK w : w = InsertAt(s, 1, c)
    OBVIOUS
  <2>6. Ordered(w) /\ c \in Range(w) /\ Range(s) \subseteq Range(w)
    BY <1>4, <1>5, <2>2, <2>3, <2>4, <2>5
  <2>7. QED
    BY <1>2, <1>5, <2>1, <2>5, <2>6 DEF new, s
<1>6. CASE c \notin Range(s) /\ c = "actions" /\ "conditions" \in Range(s)
  <2>1. new = [rule EXCEPT !.kids = InsertAt(s, 2, c)]
    BY <1>6 DEF new, s, GetRuleChildNodeL
  <2>2. PICK k \in 1..Len(s) : s[k] = "conditions"
    BY <1>3, <1>6, RangeAt
  <2>3. k = 1
    <3>1. SUFFICES ASSUME 1 < k PROVE FALSE
      BY <1>3
    <3>2. 1 \in 1..Len(s)
      BY <1>3
    <3>3. <<s[1], "conditions">> \in Before
      BY <1>3, <2>2, <3>1, <3>2
    <3>4. QED
      BY <3>3 DEF Before
  <2>4. ASSUME NEW i \in 1..Len(s), ~(i < 2) PROVE <<c, s[i]>> \in Before
    <3>1. <<s[1], s[i]>> \in Before /\ s[i] # c
      BY <1>3, <1>6, <2>2, <2>3, <2>4, RangeAt
    <3>2. QED
      BY <1>6, <2>2, <2>3, <3>1 DEF Before
  <2>5. \A i \in 1..Len(s) : i < 2 => i = 1
    BY <1>3
  <2>6. <<s[1], c>> \in Before
    BY <1>6, <2>2, <2>3 DEF Before
  <2>7. 2 \in 1..(Len(s) + 1)
    BY <1>3, <2>2, <2>3
  <2>8. PICK w : w = InsertAt(s, 2, c)
    OBVIOUS
  <2>9. Ordered(w) /\ c \in Range(w) /\ Range(s) \subseteq Range(w)
    BY <1>4, <1>6, <2>4, <2>5, <2>6, <2>7, <2>8
  <2>10. QED
    BY <1>2, <1>6, <2>1, <2>8, <2>9 DEF new, s
<1>7. CASE c \notin Range(s) /\ c = "actions" /\ "conditions" \notin Range(s)
  <2>1. new = [rule EXCEPT !.kids = InsertAt(s, 1, c)]
    BY <1>7 DEF new, s, GetRuleChildNodeL
  <2>2. \A i \in 1..Len(s) : s[i] # c /\ s[i] # "conditions" /\ s[i] \in ChildNames /\ ~(i < 1)
    BY <1>3, <1>7, RangeAt
  <2>3. \A i \in 1..Len(s) : <<c, s[i]>> \in Before
    BY <1>7, <2>2 DEF Before, ChildNames
  <2>4. 1 \in 1..(Len(s) + 1)
    BY <1>3
  <2>5. PICK w : w = InsertAt(s, 1, c)
    OBVIOUS
  <2>6. Ordered(w) /\ c \in Range(w) /\ Range(s) \subseteq Range(w)
    BY <1>4, <1>7, <2>2, <2>3, <2>4, <2>5
  <2>7. QED
    BY <1>2, <1>7, <2>1, <2>5, <2>6 DEF new, s
<1>8. CASE c \notin Range(s) /\ c = "transformations"
  <2>1. new = [rule EXCEPT !.kids = Append(s, c)]
    BY <1>8 DEF new, s, GetRuleChildNodeL
  <2> DEFINE w == Append(s, c)
  <2>2. /\ w \in Seq(ChildNames) /\ Len(w) = Len(s) + 1 /\ w[Len(s) + 1] = c
        /\ \A i \in 1..Len(s) : w[i] = s[i]
    BY <1>3, AppendProperties
  <2> HIDE DEF w
  <2>3. \A i \in 1..Len(s) : s[i] # c /\ s[i] \in ChildNames
    BY <1>3, <1>8, RangeAt
  <2>4. \A i \in 1..Len(s) : <<s[i], c>> \in Before
    BY <1>8, <2>3 DEF Before, ChildNames
  <2>5. ASSUME NEW i \in 1..Len(w), NEW j \in 1..Len(w), i < j
        PROVE  <<w[i], w[j]>> \in Before
    <3>1. i \in 1..Len(s)
      BY <1>3, <2>2, <2>5
    <3>2. j \in 1..Len(s) \/ j = Len(s) + 1
      BY <1>3, <2>2
    <3>3. QED
      BY <1>3, <2>2, <2>4, <2>5, <3>1, <3>2
  <2>6. Ordered(w)
    BY <2>2, <2>5 DEF Ordered
  <2>7. Range(w) = Range(s) \cup {c}
    BY <1>3, RangeOfAppend DEF w
  <2>8. QED
    BY <1>2, <1>8, <2>1, <2>6, <2>7 DEF new, s, w
<1>9. QED
  BY <1>1, <1>5, <1>6, <1>7, <1>8 DEF ChildNames, new, s

-----------------------------------------------------------------------------
(* What the entries of a part are, and that nobody is named twice.         *)
Identity == {One(i) : i \in Ids} \cup UNION {{Many(d, x) : x \in Seq(Ids)} : d \in Domains}
Moments  == {x \in [local : Int, sign : {"+", "-"}, hours : Int, minutes : Int, utc : Int] :
                ParseFromXMLTimeString(x) = x.utc}
Spans    == [from : Moments, until : Moments]
Provided == {All} \cup {<<"class", v>> : v \in Ids}
EntryOf(p) ==
  IF p = "identity" THEN Identity
  ELSE IF p = "validity" THEN Spans
  ELSE IF p = "external-list" THEN Ids
  ELSE IF p \in Complex THEN Provided ELSE {"value", "allow"}

SameName(e, f) == e[1] = f[1] /\ e[2] = f[2]
Once(s) ==
  /\ \A n, m \in 1..Len(s) : SameName(s[n], s[m]) => n = m
  /\ \A n \in 1..Len(s) : s[n][1] = "many" => IsInjective(s[n][3])
Fits(p, s) ==
  /\ s \in Seq(EntryOf(p))
  /\ p = "identity" => Once(s)
  /\ p \in Complex /\ All \in Range(s) => Len(s) = 1

RuleGood(x) ==
  /\ DOMAIN x = {"there", "kids", "has", "parts"} /\ Ordered(x.kids)
  /\ x.has \subseteq Parts /\ DOMAIN x.parts = Parts
  /\ \A p \in Parts : Fits(p, x.parts[p]) /\ Len(x.parts[p]) <= MaxEntries
  /\ \A p \in x.has : ChildOf(p) \in Range(x.kids)
  /\ \A p \in Parts : p \notin x.has => x.parts[p] = <<>>

RulesInv ==
  /\ scope \in Scopes /\ offset \in Zones
  /\ DOMAIN rules = Rules /\ \A r \in Rules : RuleGood(rules[r])

LEMMA NothingFits ==
  ASSUME NEW p
  PROVE  Fits(p, <<>>) /\ Len(<<>>) = 0
<1>1. <<>> \in Seq(EntryOf(p)) /\ Len(<<>>) = 0 /\ 1..0 = {}
  BY EmptySeq
<1>2. Range(<<>>) = {}
  BY DEF Range
<1>3. QED
  BY <1>1, <1>2 DEF Fits, Once

LEMMA NewRuleGood ==
  RuleGood(NewRule) /\ RuleGood(NoRule)
<1>1. <<>> \in Seq(ChildNames) /\ Len(<<>>) = 0 /\ 1..0 = {}
  BY EmptySeq
<1>2. Ordered(<<>>)
  BY <1>1 DEF Ordered
<1>3. MaxEntries \in Nat /\ 0 <= MaxEntries
  BY EntriesAssumption
<1>4. ASSUME NEW x, DOMAIN x = {"there", "kids", "has", "parts"}, x.kids = <<>>,
             x.has = {}, x.parts = [p \in Parts |-> <<>>]
      PROVE  RuleGood(x)
  <2>1. \A p \in Parts : x.parts[p] = <<>>
    BY <1>4
  <2>2. \A p \in Parts : Fits(p, x.parts[p]) /\ Len(x.parts[p]) <= MaxEntries
    BY <1>3, <2>1, NothingFits
  <2>3. QED
    BY <1>2, <1>4, <2>1, <2>2 DEF RuleGood
<1>5. RuleGood(NewRule)
  <2>1. /\ DOMAIN NewRule = {"there", "kids", "has", "parts"} /\ NewRule.kids = <<>>
        /\ NewRule.has = {} /\ NewRule.parts = [p \in Parts |-> <<>>]
    BY DEF NewRule
  <2>2. QED
    BY <1>4, <2>1
<1>6. RuleGood(NoRule)
  <2>1. /\ DOMAIN NoRule = {"there", "kids", "has", "parts"} /\ NoRule.kids = <<>>
        /\ NoRule.has = {} /\ NoRule.parts = [p \in Parts |-> <<>>]
    BY DEF NewRule, NoRule
  <2>2. QED
    BY <1>4, <2>1
<1>7. QED
  BY <1>5, <1>6

LEMMA ChangeIsGood ==
  ASSUME RulesInv, NEW r \in Rules, NEW x, RuleGood(x), Change(r, x)
  PROVE  RulesInv'
<1>1. rules' = [rules EXCEPT ![r] = x] /\ scope' = scope /\ offset' = offset
  BY DEF Change
<1>2. DOMAIN rules' = Rules /\ \A q \in Rules : rules'[q] = IF q = r THEN x ELSE rules[q]
  BY <1>1 DEF RulesInv
<1>3. \A q \in Rules : RuleGood(rules'[q])
  BY <1>2 DEF RulesInv
<1>4. QED
  BY <1>1, <1>2, <1>3 DEF RulesInv

LEMMA PartIs ==
  ASSUME NEW p \in Parts
  PROVE  ChildOf(p) \in ChildNames
BY DEF ChildOf, ChildNames

(* A part has other entries. *)
LEMMA PutIsGood ==
  ASSUME NEW x, RuleGood(x), NEW p \in Parts, NEW s, Fits(p, s), Len(s) <= MaxEntries,
         NEW h, h \subseteq Parts, p \notin h => s = <<>>,
         \A q \in h : ChildOf(q) \in Range(x.kids),
         \A q \in Parts : q # p /\ q \notin h => q \notin x.has,
         NEW y, DOMAIN y = DOMAIN x, y.kids = x.kids, y.has = h,
         y.parts = [x.parts EXCEPT ![p] = s]
  PROVE  RuleGood(y)
<1>1. /\ DOMAIN y.parts = Parts /\ \A q \in Parts : y.parts[q] = IF q = p THEN s ELSE x.parts[q]
  BY DEF RuleGood
<1>2. \A q \in Parts : Fits(q, y.parts[q]) /\ Len(y.parts[q]) <= MaxEntries
  BY <1>1 DEF RuleGood
<1>3. \A q \in Parts : q \notin y.has => y.parts[q] = <<>>
  BY <1>1 DEF RuleGood
<1>4. QED
  BY <1>1, <1>2, <1>3 DEF RuleGood

LEMMA CreateIsGood ==
  ASSUME RulesInv, NEW r \in Rules, NEW p \in Parts, NEW s, Fits(p, s), Create(r, p, s)
  PROVE  RulesInv'
<1> DEFINE x == rules[r]
           c == GetRuleChildNodeL(x, ChildOf(p))
           g == GetConditionChildNodeL(x, p)
           y == [g EXCEPT !.parts[p] = s]
<1>1. Len(s) <= MaxEntries /\ Change(r, y) /\ RuleGood(x)
  BY DEF Create, RulesInv
<1>2. /\ DOMAIN c = DOMAIN x /\ Ordered(c.kids) /\ c.has = x.has /\ c.parts = x.parts
      /\ ChildOf(p) \in Range(c.kids) /\ Range(x.kids) \subseteq Range(c.kids)
  <2>1. DOMAIN x = {"there", "kids", "has", "parts"} /\ Ordered(x.kids)
    BY <1>1 DEF RuleGood
  <2> HIDE DEF x
  <2>2. QED
    BY <2>1, PartIs, ChildIsMade
<1>3. g = [c EXCEPT !.has = @ \cup {p}]
  BY DEF GetConditionChildNodeL
<1>4. DOMAIN x = {"there", "kids", "has", "parts"}
  BY <1>1 DEF RuleGood
<1> HIDE DEF c, g, x
<1>5. /\ DOMAIN g = DOMAIN x /\ g.kids = c.kids /\ g.has = x.has \cup {p} /\ g.parts = x.parts
  BY <1>2, <1>3, <1>4
<1>6. /\ DOMAIN y = DOMAIN c /\ y.kids = c.kids /\ y.has = x.has \cup {p}
      /\ y.parts = [c.parts EXCEPT ![p] = s]
  BY <1>2, <1>4, <1>5
<1>7. RuleGood(c)
  BY <1>1, <1>2 DEF RuleGood
<1>8. /\ x.has \cup {p} \subseteq Parts
      /\ \A q \in x.has \cup {p} : ChildOf(q) \in Range(c.kids)
      /\ \A q \in Parts : q # p /\ q \notin x.has \cup {p} => q \notin c.has
  BY <1>1, <1>2 DEF RuleGood
<1> HIDE DEF y
<1>9. RuleGood(y)
  BY <1>1, <1>6, <1>7, <1>8, PutIsGood
<1>10. QED
  BY <1>1, <1>9, ChangeIsGood

LEMMA EditIsGood ==
  ASSUME RulesInv, NEW r \in Rules, NEW p \in Parts, NEW s, Fits(p, s),
         Len(s) <= Len(In(r, p)), Edit(r, p, s)
  PROVE  RulesInv'
<1> DEFINE x == rules[r]
           y == [x EXCEPT !.parts[p] = s]
<1>1. Change(r, y) /\ RuleGood(x) /\ p \in x.has
  BY DEF Edit, RulesInv
<1>2. Len(s) <= MaxEntries
  <2>1. /\ In(r, p) \in Seq(EntryOf(p)) /\ Len(In(r, p)) <= MaxEntries
        /\ s \in Seq(EntryOf(p))
    BY <1>1 DEF RuleGood, In, Fits
  <2>2. Len(In(r, p)) \in Nat /\ Len(s) \in Nat /\ MaxEntries \in Nat
    BY <2>1, LenProperties, EntriesAssumption
  <2>3. QED
    BY <2>1, <2>2
<1>3. DOMAIN x = {"there", "kids", "has", "parts"}
  BY <1>1 DEF RuleGood
<1> HIDE DEF x
<1>4. /\ DOMAIN y = DOMAIN x /\ y.kids = x.kids /\ y.has = x.has
      /\ y.parts = [x.parts EXCEPT ![p] = s]
  BY <1>3
<1>5. /\ x.has \subseteq Parts /\ \A q \in x.has : ChildOf(q) \in Range(x.kids)
      /\ \A q \in Parts : q # p /\ q \notin x.has => q \notin x.has
  BY <1>1 DEF RuleGood
<1> HIDE DEF y
<1>6. RuleGood(y)
  BY <1>1, <1>2, <1>4, <1>5, PutIsGood
<1>7. QED
  BY <1>1, <1>6, ChangeIsGood

LEMMA RemovePartIsGood ==
  ASSUME RulesInv, NEW r \in Rules, NEW p \in Parts, RemovePart(r, p)
  PROVE  RulesInv'
<1> DEFINE x == rules[r]
           y == [x EXCEPT !.has = @ \ {p}, !.parts[p] = <<>>]
<1>1. Change(r, y) /\ RuleGood(x)
  BY DEF RemovePart, RulesInv
<1>2. Fits(p, <<>>) /\ Len(<<>>) <= MaxEntries
  BY NothingFits, EntriesAssumption
<1>3. DOMAIN x = {"there", "kids", "has", "parts"}
  BY <1>1 DEF RuleGood
<1> HIDE DEF x
<1>4. /\ DOMAIN y = DOMAIN x /\ y.kids = x.kids /\ y.has = x.has \ {p}
      /\ y.parts = [x.parts EXCEPT ![p] = <<>>]
  BY <1>3
<1>5. /\ x.has \ {p} \subseteq Parts /\ \A q \in x.has \ {p} : ChildOf(q) \in Range(x.kids)
      /\ \A q \in Parts : q # p /\ q \notin x.has \ {p} => q \notin x.has
  BY <1>1 DEF RuleGood
<1> HIDE DEF y
<1>6. RuleGood(y)
  BY <1>1, <1>2, <1>4, <1>5, PutIsGood
<1>7. QED
  BY <1>1, <1>6, ChangeIsGood

(* What a rule has of a part. *)
LEMMA InIs ==
  ASSUME RulesInv, NEW r \in Rules, NEW p \in Parts
  PROVE  /\ Fits(p, In(r, p)) /\ In(r, p) \in Seq(EntryOf(p)) /\ Len(In(r, p)) \in Nat
         /\ DOMAIN In(r, p) = 1..Len(In(r, p))
<1>1. Fits(p, In(r, p))
  BY DEF RulesInv, RuleGood, In
<1>2. In(r, p) \in Seq(EntryOf(p))
  BY <1>1 DEF Fits
<1>3. QED
  BY <1>1, <1>2, LenProperties

LEMMA PartNames ==
  /\ "identity" \in Parts /\ EntryOf("identity") = Identity /\ "identity" \notin Complex
  /\ "external-list" \in Parts /\ EntryOf("external-list") = Ids
  /\ "external-list" \notin Complex
  /\ "validity" \in Parts /\ EntryOf("validity") = Spans /\ "validity" \notin Complex
BY DEF Parts, Conditions, Transforms, Complex, Booleans, EntryOf

LEMMA IdentityIs ==
  ASSUME NEW e \in Identity
  PROVE  \/ e[1] = "one" /\ e[2] \in Ids /\ e = One(e[2])
         \/ /\ e[1] = "many" /\ e[2] \in Domains /\ e[3] \in Seq(Ids)
            /\ e = Many(e[2], e[3])
<1>1. CASE \E i \in Ids : e = One(i)
  BY <1>1 DEF One
<1>2. CASE \E d \in Domains : \E x \in Seq(Ids) : e = Many(d, x)
  BY <1>2 DEF Many
<1>3. QED
  BY <1>1, <1>2 DEF Identity

LEMMA OneIs ==
  ASSUME NEW i \in Ids
  PROVE  One(i) \in Identity /\ One(i)[1] = "one" /\ One(i)[2] = i
BY DEF One, Identity

LEMMA ManyIs ==
  ASSUME NEW d \in Domains, NEW x \in Seq(Ids)
  PROVE  /\ Many(d, x) \in Identity /\ Many(d, x)[1] = "many" /\ Many(d, x)[2] = d
         /\ Many(d, x)[3] = x
BY DEF Many, Identity

LEMMA IdentityFits ==
  ASSUME NEW s \in Seq(Identity), Once(s)
  PROVE  Fits("identity", s)
BY PartNames DEF Fits

LEMMA PickOnce ==
  ASSUME NEW s, Once(s), NEW w, Picked(w, s)
  PROVE  Once(w)
<1>1. PICK f : Picks(f, w, s, Len(s))
  BY DEF Picked
<1>2. /\ \A j \in 1..Len(w) : f[j] \in 1..Len(s) /\ w[j] = s[f[j]]
      /\ \A i, j \in 1..Len(w) : i < j => f[i] < f[j]
  BY <1>1 DEF Picks
<1>3. ASSUME NEW n \in 1..Len(w), NEW m \in 1..Len(w), SameName(w[n], w[m])
      PROVE  n = m
  <2>1. f[n] = f[m]
    BY <1>2, <1>3 DEF Once
  <2>2. ~(n < m) /\ ~(m < n)
    BY <1>2, <2>1
  <2>3. QED
    BY <2>2
<1>4. QED
  BY <1>2, <1>3 DEF Once

LEMMA ConcatOnce ==
  ASSUME NEW S, NEW a \in Seq(S), NEW b \in Seq(S), Once(a), Once(b),
         \A i \in 1..Len(a) : \A j \in 1..Len(b) : ~SameName(a[i], b[j])
  PROVE  Once(a \o b)
<1> DEFINE w == a \o b
<1>1. \A i \in 1..Len(w) :
         \/ i \in 1..Len(a) /\ w[i] = a[i]
         \/ i - Len(a) \in 1..Len(b) /\ w[i] = b[i - Len(a)]
  BY ConcatIs
<1>2. Len(a) \in Nat /\ Len(b) \in Nat /\ Len(w) = Len(a) + Len(b)
  BY LenProperties, ConcatIs
<1> HIDE DEF w
<1>3. ASSUME NEW n \in 1..Len(w), NEW m \in 1..Len(w), SameName(w[n], w[m])
      PROVE  n = m
  <2>1. \A e, f : SameName(e, f) => SameName(f, e)
    BY DEF SameName
  <2>2. CASE n \in 1..Len(a) /\ w[n] = a[n] /\ m \in 1..Len(a) /\ w[m] = a[m]
    BY <1>3, <2>2 DEF Once
  <2>3. CASE /\ n - Len(a) \in 1..Len(b) /\ w[n] = b[n - Len(a)]
             /\ m - Len(a) \in 1..Len(b) /\ w[m] = b[m - Len(a)]
    <3>1. n - Len(a) = m - Len(a)
      BY <1>3, <2>3 DEF Once
    <3>2. QED
      BY <1>2, <3>1
  <2>4. QED
    BY <1>1, <1>3, <2>1, <2>2, <2>3
<1>4. ASSUME NEW n \in 1..Len(w), w[n][1] = "many" PROVE IsInjective(w[n][3])
  BY <1>1, <1>4 DEF Once
<1>5. QED
  BY <1>3, <1>4 DEF Once, w

LEMMA SingleOnce ==
  ASSUME NEW e \in Identity, e[1] = "many" => IsInjective(e[3])
  PROVE  <<e>> \in Seq(Identity) /\ Len(<<e>>) = 1 /\ <<e>>[1] = e /\ Once(<<e>>)
<1>1. <<e>> \in Seq(Identity) /\ Len(<<e>>) = 1 /\ <<e>>[1] = e
  <2>1. <<e>> = Append(<<>>, e) /\ <<>> \in Seq(Identity) /\ Len(<<>>) = 0
    BY EmptySeq
  <2>2. QED
    BY <2>1, AppendProperties
<1>2. \A n \in 1..1 : n = 1
  OBVIOUS
<1>3. QED
  BY <1>1, <1>2 DEF Once

LEMMA AppendOnce ==
  ASSUME NEW s \in Seq(Identity), Once(s), NEW e \in Identity,
         e[1] = "many" => IsInjective(e[3]), \A n \in 1..Len(s) : ~SameName(s[n], e)
  PROVE  Append(s, e) \in Seq(Identity) /\ Once(Append(s, e))
<1>1. <<e>> \in Seq(Identity) /\ Len(<<e>>) = 1 /\ <<e>>[1] = e /\ Once(<<e>>)
  BY SingleOnce
<1>2. \A i \in 1..Len(s) : \A j \in 1..Len(<<e>>) : ~SameName(s[i], <<e>>[j])
  <2>1. \A j \in 1..Len(<<e>>) : <<e>>[j] = e
    BY <1>1
  <2>2. QED
    BY <2>1
<1>3. Once(s \o <<e>>)
  BY <1>1, <1>2, ConcatOnce
<1>4. Append(s, e) = s \o <<e>> /\ Append(s, e) \in Seq(Identity)
  BY AppendIsConcat, AppendProperties
<1>5. QED
  BY <1>3, <1>4

(* An identity that is not among the entries is not named by any of them.  *)
LEMMA OneIsNew ==
  ASSUME NEW s \in Seq(Identity), NEW i \in Ids, One(i) \notin Range(s), NEW n \in 1..Len(s)
  PROVE  ~SameName(s[n], One(i))
<1>1. s[n] \in Identity /\ s[n] # One(i)
  BY ElementOfSeq, RangeAt
<1>2. SUFFICES ASSUME SameName(s[n], One(i)) PROVE FALSE
  OBVIOUS
<1>3. s[n][1] = "one" /\ s[n][2] = i
  BY <1>2, OneIs DEF SameName
<1>4. QED
  BY <1>1, <1>3, IdentityIs

-----------------------------------------------------------------------------
(* One lemma for the methods of each class. *)
LEMMA AddIdentitiesGood ==
  ASSUME RulesInv, NEW r \in Rules, NEW ids \in Arrays, AddIdentitiesL(r, ids)
  PROVE  RulesInv'
<1> DEFINE s   == In(r, "identity")
           new == [n \in DOMAIN ids |-> One(ids[n])]
           add == Without(new, Range(s))
<1>1. s \in Seq(Identity) /\ Once(s)
  BY PartNames, InIs DEF Fits
<1>2. new \in Seq(Identity) /\ Once(new)
  <2>1. CASE \E i \in Ids : ids = <<i>>
    <3>1. PICK i \in Ids : ids = <<i>>
      BY <2>1
    <3>2. DOMAIN ids = 1..1 /\ ids[1] = i
      BY <3>1
    <3>3. new = <<One(i)>>
      BY <3>2
    <3>4. QED
      BY <3>3, OneIs, SingleOnce
  <2>2. CASE ids \in Ids \X Ids /\ ids[1] # ids[2]
    <3>1. PICK i \in Ids, j \in Ids : ids = <<i, j>> /\ i # j
      BY <2>2
    <3>2. DOMAIN ids = 1..2 /\ ids[1] = i /\ ids[2] = j
      BY <3>1
    <3>3. new = <<One(i), One(j)>>
      BY <3>2
    <3>4. <<One(i), One(j)>> = Append(<<One(i)>>, One(j))
      OBVIOUS
    <3>5. /\ <<One(i)>> \in Seq(Identity) /\ Len(<<One(i)>>) = 1 /\ <<One(i)>>[1] = One(i)
          /\ Once(<<One(i)>>) /\ One(j) \in Identity
      BY OneIs, SingleOnce
    <3>6. \A n \in 1..1 : ~SameName(<<One(i)>>[n], One(j))
      BY <3>1, <3>5, OneIs DEF SameName
    <3>7. One(j)[1] # "many"
      BY OneIs
    <3> DEFINE a == <<One(i)>>
    <3> HIDE DEF a
    <3>8. Append(a, One(j)) \in Seq(Identity) /\ Once(Append(a, One(j)))
      BY <3>5, <3>6, <3>7, AppendOnce DEF a
    <3>9. QED
      BY <3>3, <3>4, <3>8 DEF a
  <2>3. QED
    BY <2>1, <2>2 DEF Arrays
<1> HIDE DEF new
<1>3. add \in Seq(Identity) /\ Range(add) = Range(new) \ Range(s) /\ Once(add)
  BY <1>2, WithoutFacts, WithoutPicks, PickOnce
<1>4. ASSUME NEW i \in 1..Len(s), NEW j \in 1..Len(add) PROVE ~SameName(s[i], add[j])
  <2>1. add[j] \in Range(new) /\ add[j] \notin Range(s)
    BY <1>3, RangeAt
  <2>2. \E k \in Ids : add[j] = One(k)
    <3>1. \A n \in DOMAIN ids : ids[n] \in Ids
      BY DEF Arrays
    <3>2. QED
      BY <2>1, <3>1 DEF new, Range
  <2>3. QED
    BY <1>1, <2>1, <2>2, OneIsNew
<1> HIDE DEF add, s
<1>5. s \o add \in Seq(Identity) /\ Once(s \o add)
  BY <1>1, <1>3, <1>4, ConcatOnce, ConcatIs
<1>6. Fits("identity", s \o add)
  BY <1>5, IdentityFits
<1>7. PICK p, e : p = "identity" /\ e = s \o add /\ Create(r, p, e)
  BY DEF AddIdentitiesL, s, add, new
<1>8. p \in Parts /\ Fits(p, e)
  BY <1>6, <1>7, PartNames
<1>9. QED
  BY <1>7, <1>8, CreateIsGood

LEMMA OneEditsGood ==
  ASSUME RulesInv, NEW r \in Rules, OneEdits(r)
  PROVE  RulesInv'
<1> DEFINE s == In(r, "identity")
<1>1. s \in Seq(Identity) /\ Once(s)
  BY PartNames, InIs DEF Fits
<1>2. ASSUME NEW T, DeleteIdentitiesL(r, T) PROVE RulesInv'
  <2> DEFINE w == Without(s, {One(i) : i \in T})
  <2>1. w \in Seq(Identity) /\ Once(w) /\ Len(w) <= Len(s)
    BY <1>1, WithoutFacts, WithoutPicks, PickOnce
  <2>2. Fits("identity", w)
    BY <2>1, IdentityFits
  <2>3. PICK p, e : p = "identity" /\ e = w /\ Edit(r, p, e)
    BY <1>2 DEF DeleteIdentitiesL
  <2> HIDE DEF w
  <2>4. p \in Parts /\ Fits(p, e) /\ Len(e) <= Len(In(r, p))
    BY <2>1, <2>2, <2>3, PartNames
  <2>5. QED
    BY <2>3, <2>4, EditIsGood
<1>3. ASSUME NEW i \in Ids, AddIdentityL(r, i) PROVE RulesInv'
  <2>1. PICK p, e : /\ p = "identity" /\ e = Append(s, One(i)) /\ Create(r, p, e)
                    /\ One(i) \notin Range(s)
    BY <1>3 DEF AddIdentityL, Add
  <2>2. \A n \in 1..Len(s) : ~SameName(s[n], One(i))
    BY <1>1, <2>1, OneIsNew
  <2> HIDE DEF s
  <2>3. e \in Seq(Identity) /\ Once(e)
    <3>1. One(i) \in Identity /\ One(i)[1] # "many"
      BY OneIs
    <3>2. QED
      BY <1>1, <2>1, <2>2, <3>1, AppendOnce
  <2>4. p \in Parts /\ Fits(p, e)
    BY <2>1, <2>3, PartNames, IdentityFits
  <2>5. QED
    BY <2>1, <2>4, CreateIsGood
<1>4. ASSUME NEW i \in Ids, DeleteIdentityL(r, i) PROVE RulesInv'
  <2>1. PICK p, e : /\ p = "identity" /\ e = RemoveFirst(s, One(i)) /\ Edit(r, p, e)
                    /\ One(i) \in Range(s)
    BY <1>4 DEF DeleteIdentityL, Drop
  <2>2. e \in Seq(Identity) /\ Once(e) /\ Len(e) = Len(s) - 1 /\ Len(s) \in Nat
    BY <1>1, <2>1, RemoveFirstPicks, PickOnce, LenProperties
  <2>3. Fits("identity", e)
    BY <2>2, IdentityFits
  <2>4. p \in Parts /\ Fits(p, e) /\ Len(e) <= Len(In(r, p))
    BY <2>1, <2>2, <2>3, PartNames
  <2>5. QED
    BY <2>1, <2>4, EditIsGood
<1>5. CASE DeleteAllIdentitiesL(r)
  BY <1>2, <1>5 DEF DeleteAllIdentitiesL
<1>6. QED
  BY <1>2, <1>3, <1>4, <1>5, AddIdentitiesGood DEF OneEdits

(* The exceptions of one entry are others, and named once. *)
LEMMA SetExceptsGood ==
  ASSUME RulesInv, NEW r \in Rules, NEW d, NEW n \in GetManyNodeL(r, d),
         NEW x \in Seq(Ids), IsInjective(x), SetExcepts(r, n, x)
  PROVE  RulesInv'
<1> DEFINE s == In(r, "identity")
           w == [s EXCEPT ![n] = Many(@[2], x)]
<1>1. s \in Seq(Identity) /\ Once(s) /\ DOMAIN s = 1..Len(s) /\ Len(s) \in Nat
  BY PartNames, InIs DEF Fits
<1>2. n \in 1..Len(s) /\ s[n][1] = "many"
  BY <1>1 DEF GetManyNodeL
<1>3. s[n] \in Identity /\ s[n][2] \in Domains
  <2>1. s[n] \in Identity
    BY <1>1, <1>2, ElementOfSeq
  <2>2. QED
    BY <1>2, <2>1, IdentityIs
<1> DEFINE m == Many(s[n][2], x)
<1>4. /\ m \in Identity /\ m[1] = s[n][1] /\ m[2] = s[n][2] /\ m[3] = x
  BY <1>2, <1>3, ManyIs
<1>5. PICK p, e : p = "identity" /\ e = [s EXCEPT ![n] = m] /\ Edit(r, p, e)
  BY DEF SetExcepts
<1> HIDE DEF m, s
<1>6. /\ e \in Seq(Identity) /\ Len(e) = Len(s)
      /\ \A j \in 1..Len(s) : e[j] = IF j = n THEN m ELSE s[j]
  BY <1>1, <1>2, <1>4, <1>5, ExceptSeq
<1>7. Once(e)
  <2>1. \A j \in 1..Len(s) : e[j][1] = s[j][1] /\ e[j][2] = s[j][2]
    BY <1>4, <1>6
  <2>2. \A j \in 1..Len(s) : e[j][1] = "many" => IsInjective(e[j][3])
    BY <1>1, <1>4, <1>6 DEF Once
  <2>3. \A i, j \in 1..Len(s) : SameName(e[i], e[j]) => SameName(s[i], s[j])
    BY <2>1 DEF SameName
  <2>4. QED
    BY <1>1, <1>6, <2>2, <2>3 DEF Once
<1>8. Fits("identity", e)
  BY <1>6, <1>7, IdentityFits
<1>9. p \in Parts /\ Fits(p, e) /\ Len(e) <= Len(In(r, p))
  BY <1>1, <1>5, <1>6, <1>8, PartNames DEF s
<1>10. QED
  BY <1>5, <1>9, EditIsGood

LEMMA IncludingIs ==
  ASSUME NEW x \in Seq(Ids), IsInjective(x), NEW i \in Ids
  PROVE  Including(x, i) \in Seq(Ids) /\ IsInjective(Including(x, i))
<1>1. CASE i \in Range(x)
  BY <1>1 DEF Including
<1>2. CASE i \notin Range(x)
  <2> DEFINE w == Append(x, i)
  <2>1. /\ w \in Seq(Ids) /\ Len(w) = Len(x) + 1 /\ Len(x) \in Nat /\ w[Len(x) + 1] = i
        /\ \A j \in 1..Len(x) : w[j] = x[j]
    BY AppendProperties, LenProperties
  <2>2. DOMAIN w = 1..Len(w) /\ DOMAIN x = 1..Len(x)
    BY <2>1, LenProperties
  <2> HIDE DEF w
  <2>3. \A j \in 1..Len(x) : x[j] # i
    BY <1>2, RangeAt
  <2>4. \A j \in 1..Len(w) : j \in 1..Len(x) \/ j = Len(x) + 1
    BY <2>1
  <2>5. ASSUME NEW j \in 1..Len(w), NEW k \in 1..Len(w), w[j] = w[k] PROVE j = k
    BY <2>1, <2>2, <2>3, <2>4, <2>5 DEF IsInjective
  <2>6. IsInjective(w)
    BY <2>2, <2>5 DEF IsInjective
  <2>7. QED
    BY <1>2, <2>1, <2>6 DEF Including, w
<1>3. QED
  BY <1>1, <1>2

LEMMA PickInjective ==
  ASSUME NEW S, NEW s \in Seq(S), IsInjective(s), NEW w \in Seq(S), Picked(w, s)
  PROVE  IsInjective(w)
<1>1. PICK f : Picks(f, w, s, Len(s))
  BY DEF Picked
<1>2. /\ \A j \in 1..Len(w) : f[j] \in 1..Len(s) /\ w[j] = s[f[j]]
      /\ \A i, j \in 1..Len(w) : i < j => f[i] < f[j]
  BY <1>1 DEF Picks
<1>3. DOMAIN w = 1..Len(w) /\ DOMAIN s = 1..Len(s) /\ Len(w) \in Nat /\ Len(s) \in Nat
  BY LenProperties
<1>4. ASSUME NEW n \in 1..Len(w), NEW m \in 1..Len(w), w[n] = w[m] PROVE n = m
  <2>1. f[n] = f[m]
    BY <1>2, <1>3, <1>4 DEF IsInjective
  <2>2. ~(n < m) /\ ~(m < n)
    BY <1>2, <2>1
  <2>3. QED
    BY <2>2
<1>5. QED
  BY <1>3, <1>4 DEF IsInjective

LEMMA ManyEditsGood ==
  ASSUME RulesInv, NEW r \in Rules, ManyEdits(r)
  PROVE  RulesInv'
<1> DEFINE s == In(r, "identity")
<1>1. s \in Seq(Identity) /\ Once(s) /\ DOMAIN s = 1..Len(s) /\ Len(s) \in Nat
  BY PartNames, InIs DEF Fits
<1>2. ASSUME NEW d \in Domains, AddManyIdentityL(r, d) PROVE RulesInv'
  <2> DEFINE m == Many(d, <<>>)
  <2>1. PICK p, e : /\ p = "identity" /\ e = Append(s, m) /\ Create(r, p, e)
                    /\ GetManyNodeL(r, d) = {}
    BY <1>2 DEF AddManyIdentityL
  <2>2. m \in Identity /\ m[1] = "many" /\ m[2] = d /\ m[3] = <<>> /\ IsInjective(<<>>)
    <3>1. <<>> \in Seq(Ids)
      BY EmptySeq
    <3>2. IsInjective(<<>>)
      BY DEF IsInjective
    <3>3. QED
      BY <3>1, <3>2, ManyIs
  <2>3. \A n \in 1..Len(s) : ~SameName(s[n], m)
    BY <1>1, <2>1, <2>2 DEF SameName, GetManyNodeL
  <2> HIDE DEF s, m
  <2>4. e \in Seq(Identity) /\ Once(e)
    BY <1>1, <2>1, <2>2, <2>3, AppendOnce
  <2>5. p \in Parts /\ Fits(p, e)
    BY <2>1, <2>4, PartNames, IdentityFits
  <2>6. QED
    BY <2>1, <2>5, CreateIsGood
<1>3. ASSUME NEW d \in Domains, RemoveManyIdentityL(r, d) PROVE RulesInv'
  <2>1. PICK n \in GetManyNodeL(r, d) : Edit(r, "identity", RemoveAt(s, n))
    BY <1>3 DEF RemoveManyIdentityL
  <2>2. n \in 1..Len(s)
    BY <1>1 DEF GetManyNodeL
  <2>3. PICK p, e : p = "identity" /\ e = RemoveAt(s, n) /\ Edit(r, p, e)
    BY <2>1
  <2>4. e \in Seq(Identity) /\ Once(e) /\ Len(e) = Len(s) - 1
    BY <1>1, <2>2, <2>3, RemovePicks, PickOnce
  <2>5. Fits("identity", e)
    BY <2>4, IdentityFits
  <2>6. p \in Parts /\ Fits(p, e) /\ Len(e) <= Len(In(r, p))
    BY <1>1, <2>3, <2>4, <2>5, PartNames
  <2>7. QED
    BY <2>3, <2>6, EditIsGood
<1>4. ASSUME NEW d \in Domains, NEW n \in GetManyNodeL(r, d)
      PROVE  Excepts(r, n) \in Seq(Ids) /\ IsInjective(Excepts(r, n))
  <2>1. n \in 1..Len(s) /\ s[n][1] = "many" /\ s[n] \in Identity
    BY <1>1, ElementOfSeq DEF GetManyNodeL
  <2>2. s[n][3] \in Seq(Ids)
    BY <2>1, IdentityIs
  <2>3. QED
    BY <1>1, <2>1, <2>2 DEF Excepts, Once
<1>5. ASSUME NEW d \in Domains, NEW i \in Ids, AddIdentityInManyExceptL(r, i, d)
      PROVE  RulesInv'
  BY <1>4, <1>5, IncludingIs, SetExceptsGood DEF AddIdentityInManyExceptL
<1>6. ASSUME NEW d \in Domains, NEW ids \in Ids \X Ids, AddIdentitiesInManyExceptL(r, ids, d)
      PROVE  RulesInv'
  <2>1. ids[1] \in Ids /\ ids[2] \in Ids
    OBVIOUS
  <2>2. PICK n \in GetManyNodeL(r, d) :
          SetExcepts(r, n, Including(Including(Excepts(r, n), ids[1]), ids[2]))
    BY <1>6 DEF AddIdentitiesInManyExceptL
  <2> DEFINE x == Including(Excepts(r, n), ids[1])
             y == Including(x, ids[2])
  <2>3. x \in Seq(Ids) /\ IsInjective(x)
    BY <1>4, <2>1, IncludingIs
  <2> HIDE DEF x
  <2>4. y \in Seq(Ids) /\ IsInjective(y)
    BY <2>1, <2>3, IncludingIs
  <2> HIDE DEF y
  <2>5. SetExcepts(r, n, y)
    BY <2>2 DEF x, y
  <2>6. QED
    BY <2>4, <2>5, SetExceptsGood
<1>7. ASSUME NEW d \in Domains, NEW i \in Ids, RemoveIdentityFromManyExceptL(r, i, d)
      PROVE  RulesInv'
  <2>1. PICK n \in GetManyNodeL(r, d) :
          SetExcepts(r, n, IF i \in Range(Excepts(r, n)) THEN RemoveFirst(Excepts(r, n), i)
                           ELSE Excepts(r, n))
    BY <1>7 DEF RemoveIdentityFromManyExceptL
  <2> DEFINE x == Excepts(r, n)
             y == IF i \in Range(x) THEN RemoveFirst(x, i) ELSE x
  <2>2. x \in Seq(Ids) /\ IsInjective(x)
    BY <1>4
  <2> HIDE DEF x
  <2>3. y \in Seq(Ids) /\ IsInjective(y)
    BY <2>2, RemoveFirstPicks, PickInjective
  <2> HIDE DEF y
  <2>4. SetExcepts(r, n, y)
    BY <2>1 DEF x, y
  <2>5. QED
    BY <2>3, <2>4, SetExceptsGood
<1>8. ASSUME NEW d \in Domains, DeleteAllIdentitiesFromManyExceptL(r, d)
      PROVE  RulesInv'
  <2>1. <<>> \in Seq(Ids) /\ IsInjective(<<>>)
    BY EmptySeq DEF IsInjective
  <2>2. PICK n, x : n \in GetManyNodeL(r, d) /\ x = <<>> /\ SetExcepts(r, n, x)
    BY <1>8 DEF DeleteAllIdentitiesFromManyExceptL
  <2>3. QED
    BY <2>1, <2>2, SetExceptsGood
<1>9. QED
  BY <1>2, <1>3, <1>5, <1>6, <1>7, <1>8 DEF ManyEdits

(* Parts that have no entries, or one of which nothing is asked. *)
LEMMA PlainFits ==
  ASSUME NEW p, p \notin {"identity", "validity", "external-list"} \cup Complex
  PROVE  Fits(p, <<"value">>) /\ Fits(p, <<"allow">>)
<1>1. EntryOf(p) = {"value", "allow"} /\ p # "identity" /\ p \notin Complex
  BY DEF EntryOf
<1>2. ASSUME NEW v \in {"value", "allow"} PROVE <<v>> \in Seq({"value", "allow"})
  OBVIOUS
<1>3. QED
  BY <1>1, <1>2 DEF Fits

LEMMA MiscEditsGood ==
  ASSUME RulesInv, NEW r \in Rules, MiscEdits(r) \/ SphereEdits(r)
  PROVE  RulesInv'
<1>1. ASSUME NEW p \in {"other-identity", "anonymous"}, NEW e, e = <<>>, Create(r, p, e)
      PROVE  RulesInv'
  <2>1. p \in Parts
    BY <1>1 DEF Parts, Conditions
  <2>2. QED
    BY <1>1, <2>1, NothingFits, CreateIsGood
<1>2. ASSUME NEW p \in {"other-identity", "anonymous", "sphere"}, RemovePart(r, p)
      PROVE  RulesInv'
  <2>1. p \in Parts
    BY <1>2 DEF Parts, Conditions
  <2>2. QED
    BY <1>2, <2>1, RemovePartIsGood
<1>3. CASE AddOrReplaceSphereL(r)
  <2>1. PICK p, e : p = "sphere" /\ e = <<"value">> /\ Create(r, p, e)
    BY <1>3 DEF AddOrReplaceSphereL
  <2>2. p \in Parts /\ p \notin {"identity", "validity", "external-list"} \cup Complex
    BY <2>1 DEF Parts, Conditions, Complex
  <2>3. QED
    BY <2>1, <2>2, PlainFits, CreateIsGood
<1>4. CASE AddOtherIdentityL(r) \/ AddAnonymousRequestL(r)
  <2>1. PICK p, e : p \in {"other-identity", "anonymous"} /\ e = <<>> /\ Create(r, p, e)
    BY <1>4 DEF AddOtherIdentityL, AddAnonymousRequestL
  <2>2. QED
    BY <1>1, <2>1
<1>5. CASE RemoveOtherIdentityL(r) \/ RemoveAnonymousRequestL(r) \/ DeleteSphereL(r)
  <2>1. PICK p : p \in {"other-identity", "anonymous", "sphere"} /\ RemovePart(r, p)
    BY <1>5 DEF RemoveOtherIdentityL, RemoveAnonymousRequestL, DeleteSphereL
  <2>2. QED
    BY <1>2, <2>1
<1>6. QED
  BY <1>3, <1>4, <1>5 DEF MiscEdits, SphereEdits

LEMMA ExternEditsGood ==
  ASSUME RulesInv, NEW r \in Rules, ExternEdits(r)
  PROVE  RulesInv'
<1> DEFINE s == In(r, "external-list")
<1>1. s \in Seq(Ids) /\ Len(s) \in Nat
  BY PartNames, InIs
<1>2. ASSUME NEW e \in Seq(Ids) PROVE Fits("external-list", e)
  BY PartNames DEF Fits
<1>3. ASSUME NEW p, p = "external-list", NEW e \in Seq(Ids), Create(r, p, e)
      PROVE  RulesInv'
  <2>1. p \in Parts /\ Fits(p, e)
    BY <1>2, <1>3, PartNames
  <2>2. QED
    BY <1>3, <2>1, CreateIsGood
<1>4. ASSUME NEW p, p = "external-list", NEW e \in Seq(Ids), Len(e) <= Len(s), Edit(r, p, e)
      PROVE  RulesInv'
  <2>1. p \in Parts /\ Fits(p, e) /\ Len(e) <= Len(In(r, p))
    BY <1>2, <1>4, PartNames
  <2>2. QED
    BY <1>4, <2>1, EditIsGood
<1>5. ASSUME NEW u \in Ids, AddExternListL(r, u) PROVE RulesInv'
  <2>1. PICK p, e : p = "external-list" /\ e = Append(s, u) /\ Create(r, p, e)
    BY <1>5 DEF AddExternListL, Add
  <2>2. e \in Seq(Ids)
    BY <1>1, <2>1, AppendProperties
  <2>3. QED
    BY <1>3, <2>1, <2>2
<1>6. ASSUME NEW u \in Ids, DeleteExternalListL(r, u) PROVE RulesInv'
  <2>1. PICK p, e : /\ p = "external-list" /\ e = RemoveFirst(s, u) /\ Edit(r, p, e)
                    /\ u \in Range(s)
    BY <1>6 DEF DeleteExternalListL, Drop
  <2>2. e \in Seq(Ids) /\ Len(e) = Len(s) - 1
    BY <1>1, <2>1, RemoveFirstPicks
  <2>3. QED
    BY <1>1, <1>4, <2>1, <2>2
<1>7. ASSUME NEW us, DeleteExternalListsL(r, us) PROVE RulesInv'
  <2>1. PICK p, e : p = "external-list" /\ e = Without(s, us) /\ Edit(r, p, e)
    BY <1>7 DEF DeleteExternalListsL
  <2>2. e \in Seq(Ids) /\ Len(e) <= Len(s)
    BY <1>1, <2>1, WithoutFacts
  <2>3. QED
    BY <1>4, <2>1, <2>2
<1>8. CASE DeleteAllExternalListsL(r)
  <2>1. PICK p, e : p = "external-list" /\ e = <<>> /\ Edit(r, p, e)
    BY <1>8 DEF DeleteAllExternalListsL
  <2>2. e \in Seq(Ids) /\ Len(e) <= Len(s)
    BY <1>1, <2>1, EmptySeq
  <2>3. QED
    BY <1>4, <2>1, <2>2
<1>9. QED
  BY <1>5, <1>6, <1>7, <1>8 DEF ExternEdits

LEMMA HoursAndMinutes ==
  ASSUME NEW a \in Nat
  PROVE  \E q, m \in Int : q = a \div 60 /\ m = a % 60 /\ q * 60 + m = a
<1>1. PICK q, m : q = a \div 60 /\ m = a % 60
  OBVIOUS
<1>2. q \in Int /\ m \in Int
  BY <1>1, SMT
<1>3. a = 60 * q + m
  BY <1>1, Z3
<1>4. q * 60 + m = a
  BY <1>2, <1>3
<1>5. QED
  BY <1>1, <1>2, <1>4

(* The sign, hours and minutes that are written for a distance to          *)
(* universal time are read as that distance.                               *)
LEMMA WrittenIsRead ==
  ASSUME offset \in Int, NEW u \in Int
  PROVE  FormatToXMLTimeStringL(u) \in Moments
<1> DEFINE abs == IF offset < 0 THEN -offset ELSE offset
           x == FormatToXMLTimeStringL(u)
<1>0. abs \in Nat
  OBVIOUS
<1>1. PICK q, m \in Int : q = abs \div 60 /\ m = abs % 60 /\ q * 60 + m = abs
  <2> HIDE DEF abs
  <2>1. QED
    BY <1>0, HoursAndMinutes
<1>2. x = [local |-> u + offset, sign |-> IF offset < 0 THEN "-" ELSE "+",
           hours |-> q, minutes |-> m, utc |-> u]
  BY <1>1 DEF FormatToXMLTimeStringL
<1>3. /\ x.local = u + offset /\ x.sign = IF offset < 0 THEN "-" ELSE "+"
      /\ x.hours = q /\ x.minutes = m /\ x.utc = u
  BY <1>2
<1>4. x \in [local : Int, sign : {"+", "-"}, hours : Int, minutes : Int, utc : Int]
  BY <1>1, <1>2
<1> HIDE DEF x
<1>5. ParseFromXMLTimeString(x) = u
  <2>1. x.hours * 60 + x.minutes = abs /\ x.hours \in Int /\ x.minutes \in Int
    BY <1>1, <1>3
  <2>2. CASE offset < 0
    <3>1. x.sign # "+" /\ abs = -offset
      BY <1>3, <2>2
    <3>2. ParseFromXMLTimeString(x) = x.local + x.hours * 60 + x.minutes
      BY <3>1 DEF ParseFromXMLTimeString
    <3>3. QED
      BY <1>3, <2>1, <3>1, <3>2
  <2>3. CASE ~(offset < 0)
    <3>1. x.sign = "+" /\ abs = offset
      BY <1>3, <2>3
    <3>2. ParseFromXMLTimeString(x) = x.local - x.hours * 60 - x.minutes
      BY <3>1 DEF ParseFromXMLTimeString
    <3>3. QED
      BY <1>3, <2>1, <3>1, <3>2
  <2>4. QED
    BY <2>2, <2>3
<1>6. QED
  BY <1>3, <1>4, <1>5 DEF Moments, x

LEMMA OffsetIs ==
  ASSUME RulesInv
  PROVE  offset \in Int
BY TimeAssumption DEF RulesInv, Zones

LEMMA ValidityEditsGood ==
  ASSUME RulesInv, NEW r \in Rules, ValidityEdits(r)
  PROVE  RulesInv'
<1> DEFINE s == In(r, "validity")
           at(t) == FormatToXMLTimeStringL(ConvertToUniversal(t))
<1>1. s \in Seq(Spans)
  BY PartNames, InIs
<1>2. ASSUME NEW from \in Clock, NEW until \in Clock, AddValidityL(r, from, until)
      PROVE  RulesInv'
  <2>1. at(from) \in Moments /\ at(until) \in Moments
    BY OffsetIs, WrittenIsRead, TimeAssumption DEF ConvertToUniversal
  <2>2. PICK p, e : /\ p = "validity" /\ Create(r, p, e)
                    /\ e = Append(s, [from |-> at(from), until |-> at(until)])
    BY <1>2 DEF AddValidityL
  <2> HIDE DEF s
  <2>3. [from |-> at(from), until |-> at(until)] \in Spans
    BY <2>1 DEF Spans
  <2>4. e \in Seq(Spans)
    BY <1>1, <2>2, <2>3, AppendProperties
  <2>5. p \in Parts /\ Fits(p, e)
    BY <2>2, <2>4, PartNames DEF Fits
  <2>6. QED
    BY <2>2, <2>5, CreateIsGood
<1>3. CASE DeleteAllValidityL(r)
  <2>1. PICK p : p = "validity" /\ RemovePart(r, p)
    BY <1>3 DEF DeleteAllValidityL
  <2>2. QED
    BY <2>1, PartNames, RemovePartIsGood
<1>4. QED
  BY <1>2, <1>3 DEF ValidityEdits

LEMMA ActionEditsGood ==
  ASSUME RulesInv, NEW r \in Rules, ActionEdits(r)
  PROVE  RulesInv'
<1>1. /\ "sub-handling" \in Parts
      /\ "sub-handling" \notin {"identity", "validity", "external-list"} \cup Complex
  BY DEF Parts, Complex
<1>2. Fits("sub-handling", <<"allow">>)
  BY <1>1, PlainFits
<1>3. Fits("sub-handling", In(r, "sub-handling"))
  BY <1>1, InIs
<1>4. ASSUME NEW valid \in BOOLEAN, AddOrReplaceActionL(r, valid) PROVE RulesInv'
  <2>1. PICK p, e : /\ p = "sub-handling" /\ Create(r, p, e)
                    /\ e = IF valid THEN <<"allow">> ELSE In(r, "sub-handling")
    BY <1>4 DEF AddOrReplaceActionL
  <2>2. p \in Parts /\ Fits(p, e)
    BY <1>1, <1>2, <1>3, <2>1
  <2>3. QED
    BY <2>1, <2>2, CreateIsGood
<1>5. CASE RemoveActionL(r)
  <2>1. PICK p : p = "sub-handling" /\ RemovePart(r, p)
    BY <1>5 DEF RemoveActionL
  <2>2. QED
    BY <1>1, <2>1, RemovePartIsGood
<1>6. QED
  BY <1>4, <1>5 DEF ActionEdits

LEMMA TransformParts ==
  ASSUME NEW p \in Transforms
  PROVE  /\ p \in Parts /\ p # "identity"
         /\ ChildOf(p) = "transformations"
BY DEF Parts, Transforms, Complex, Booleans, Conditions, ChildOf

LEMMA OthersElsewhere ==
  ASSUME NEW p \in Parts, p \notin Transforms
  PROVE  ChildOf(p) # "transformations"
BY DEF Parts, ChildOf

LEMMA RemoveAllTransformsGood ==
  ASSUME RulesInv, NEW r \in Rules, RemoveAllTransforms(r)
  PROVE  RulesInv'
<1> DEFINE x == rules[r]
           k == Without(x.kids, {"transformations"})
           y == [x EXCEPT !.kids = Without(@, {"transformations"}), !.has = @ \ Transforms,
                          !.parts = [p \in Parts |-> IF p \in Transforms THEN <<>> ELSE @[p]]]
<1>1. Change(r, y) /\ RuleGood(x)
  BY DEF RemoveAllTransforms, RulesInv
<1>2. /\ DOMAIN x = {"there", "kids", "has", "parts"} /\ Ordered(x.kids)
      /\ x.kids \in Seq(ChildNames)
  BY <1>1 DEF RuleGood, Ordered
<1>3. /\ DOMAIN y = DOMAIN x /\ y.kids = k /\ y.has = x.has \ Transforms
      /\ y.parts = [p \in Parts |-> IF p \in Transforms THEN <<>> ELSE x.parts[p]]
  <2> HIDE DEF x
  <2>1. QED
    BY <1>2
<1>4. Ordered(k) /\ Range(k) = Range(x.kids) \ {"transformations"}
  BY <1>2, WithoutFacts, WithoutPicks, OrderedPick
<1> HIDE DEF x, k, y
<1>5. ASSUME NEW p \in Parts
      PROVE  Fits(p, y.parts[p]) /\ Len(y.parts[p]) <= MaxEntries
  <2>1. 0 <= MaxEntries
    BY EntriesAssumption
  <2>2. QED
    BY <1>1, <1>3, <2>1, NothingFits DEF RuleGood
<1>6. ASSUME NEW p \in y.has PROVE ChildOf(p) \in Range(y.kids)
  <2>1. p \in x.has /\ p \notin Transforms /\ p \in Parts
    BY <1>1, <1>3 DEF RuleGood
  <2>2. ChildOf(p) \in Range(x.kids) /\ ChildOf(p) # "transformations"
    BY <1>1, <2>1, OthersElsewhere DEF RuleGood
  <2>3. QED
    BY <1>3, <1>4, <2>2
<1>7. \A p \in Parts : p \notin y.has => y.parts[p] = <<>>
  BY <1>1, <1>3 DEF RuleGood
<1>8. y.has \subseteq Parts /\ DOMAIN y.parts = Parts
  BY <1>1, <1>3 DEF RuleGood
<1>9. RuleGood(y)
  BY <1>2, <1>3, <1>4, <1>5, <1>6, <1>7, <1>8 DEF RuleGood
<1>10. QED
  BY <1>1, <1>9, ChangeIsGood

LEMMA TransformEditsGood ==
  ASSUME RulesInv, NEW r \in Rules, TransformEdits(r)
  PROVE  RulesInv'
<1>1. ASSUME NEW c \in Complex
      PROVE  c \in Parts /\ c # "identity" /\ EntryOf(c) = Provided /\ c \in Transforms
  BY DEF Parts, Transforms, Complex, EntryOf
<1>2. ASSUME NEW c \in Complex, AddOrRepProvideAllTransComplexL(r, c) PROVE RulesInv'
  <2>1. <<All>> \in Seq(Provided) /\ Len(<<All>>) = 1
    <3>1. <<All>> = Append(<<>>, All) /\ <<>> \in Seq(Provided) /\ All \in Provided
      BY EmptySeq DEF Provided
    <3>2. QED
      BY <3>1, AppendProperties, EmptySeq
  <2>2. Fits(c, <<All>>)
    BY <1>1, <2>1 DEF Fits
  <2>3. PICK e : e = <<All>> /\ Create(r, c, e)
    BY <1>2 DEF AddOrRepProvideAllTransComplexL
  <2>4. QED
    BY <1>1, <2>2, <2>3, CreateIsGood
<1>3. ASSUME NEW c \in Complex, NEW v \in Ids, AddTransComplexL(r, c, <<<<"class", v>>>>)
      PROVE  RulesInv'
  <2> DEFINE s == In(r, c)
             g == <<<<"class", v>>>>
             a == IF IsProvideAllExistL(r, c) THEN <<>> ELSE s
  <2>1. g \in Seq(Provided) /\ All \notin Range(g)
    <3> DEFINE x == <<"class", v>>
    <3>1. x \in Provided /\ x # All
      BY DEF Provided, All
    <3> HIDE DEF x
    <3>2. <<x>> = Append(<<>>, x) /\ <<>> \in Seq(Provided) /\ Range(<<>>) = {}
      BY EmptySeq DEF Range
    <3>3. <<x>> \in Seq(Provided) /\ Range(<<x>>) = {x}
      <4>1. <<x>> \in Seq(Provided)
        BY <3>1, <3>2, AppendProperties
      <4>2. Range(<<x>>) = Range(<<>>) \cup {x}
        BY <3>1, <3>2, RangeOfAppend
      <4>3. QED
        BY <3>2, <4>1, <4>2
    <3>4. QED
      BY <3>1, <3>3 DEF x
  <2>2. s \in Seq(Provided) /\ (All \in Range(s) => Len(s) = 1)
    BY <1>1, InIs DEF Fits
  <2>3. a \in Seq(Provided) /\ All \notin Range(a)
    <3>1. CASE IsProvideAllExistL(r, c)
      BY <3>1, EmptySeq DEF Range
    <3>2. CASE ~IsProvideAllExistL(r, c)
      <4>1. SUFFICES ASSUME All \in Range(s) PROVE FALSE
        BY <2>2, <3>2
      <4>2. PICK j \in 1..Len(s) : s[j] = All
        BY <2>2, <4>1, RangeAt
      <4>3. Len(s) = 1
        BY <2>2, <4>1
      <4>4. j = 1
        BY <4>2, <4>3
      <4>5. QED
        BY <3>2, <4>2, <4>3, <4>4 DEF IsProvideAllExistL
    <3>3. QED
      BY <3>1, <3>2
  <2>4. PICK e : e = a \o g /\ Create(r, c, e)
    BY <1>3 DEF AddTransComplexL
  <2> HIDE DEF a, g, s
  <2>5. e \in Seq(Provided) /\ All \notin Range(e)
    <3>1. \A i \in 1..Len(e) : (\E j \in 1..Len(a) : e[i] = a[j]) \/ \E j \in 1..Len(g) : e[i] = g[j]
      BY <2>1, <2>3, <2>4, ConcatIs
    <3>2. e \in Seq(Provided)
      BY <2>1, <2>3, <2>4, ConcatIs
    <3>3. QED
      BY <2>1, <2>3, <3>1, <3>2, RangeAt
  <2>6. Fits(c, e)
    BY <1>1, <2>5 DEF Fits
  <2>7. QED
    BY <1>1, <2>4, <2>6, CreateIsGood
<1>4. ASSUME NEW b \in Booleans, AddOrRepTransBoolL(r, b) PROVE RulesInv'
  <2>1. b \in Parts /\ b \notin {"identity", "validity", "external-list"} \cup Complex
    BY DEF Parts, Transforms, Booleans, Complex
  <2>2. PICK e : e = <<"value">> /\ Create(r, b, e)
    BY <1>4 DEF AddOrRepTransBoolL
  <2>3. Fits(b, e)
    BY <2>1, <2>2, PlainFits
  <2>4. QED
    BY <2>1, <2>2, <2>3, CreateIsGood
<1>5. ASSUME NEW p \in Transforms, RemoveTransformL(r, p) PROVE RulesInv'
  BY <1>5, TransformParts, RemovePartIsGood DEF RemoveTransformL
<1>6. QED
  BY <1>2, <1>3, <1>4, <1>5, RemoveAllTransformsGood DEF TransformEdits

LEMMA RuleEditsGood ==
  ASSUME RulesInv, RuleEdits
  PROVE  RulesInv'
<1>1. ASSUME NEW r \in Rules, DeleteRuleL(r) PROVE RulesInv'
  BY <1>1, NewRuleGood, ChangeIsGood DEF DeleteRuleL
<1>2. ASSUME NEW r \in Rules, CreateNewRuleL(r) PROVE RulesInv'
  <2>1. rules' = [rules EXCEPT ![r] = NewRule] /\ scope' = scope /\ offset' = offset
    BY <1>2 DEF CreateNewRuleL
  <2>2. DOMAIN rules' = Rules /\ \A q \in Rules : rules'[q] = IF q = r THEN NewRule ELSE rules[q]
    BY <2>1 DEF RulesInv
  <2>3. \A q \in Rules : RuleGood(rules'[q])
    BY <2>2, NewRuleGood DEF RulesInv
  <2>4. QED
    BY <2>1, <2>2, <2>3 DEF RulesInv
<1>3. CASE DeleteAllRules
  BY <1>3, NewRuleGood DEF DeleteAllRules, RulesInv
<1>4. CASE DeleteEmptyRulesL
  BY <1>4, NewRuleGood DEF DeleteEmptyRulesL, RulesInv
<1>5. CASE Travel
  BY <1>5 DEF Travel, RulesInv
<1>6. QED
  BY <1>1, <1>2, <1>3, <1>4, <1>5, OneEditsGood, ManyEditsGood, MiscEditsGood,
     ExternEditsGood, ValidityEditsGood, ActionEditsGood, TransformEditsGood DEF RuleEdits

(* What a server sends is good, too. *)
LEMMA ServerRulesGood ==
  ASSUME NEW f \in ServerRules
  PROVE  DOMAIN f = Rules /\ \A r \in Rules : RuleGood(f[r])
<1>1. CASE f = [r \in Rules |-> NoRule]
  BY <1>1, NewRuleGood
<1>2. ASSUME NEW i \in Ids,
             f = [r \in Rules |->
                    [NewRule EXCEPT !.kids = Children, !.has = {"identity", "sub-handling"},
                                    !.parts = [@ EXCEPT !["identity"] = <<One(i)>>,
                                                        !["sub-handling"] = <<"allow">>]]]
      PROVE  DOMAIN f = Rules /\ \A r \in Rules : RuleGood(f[r])
  <2> DEFINE x == [NewRule EXCEPT !.kids = Children, !.has = {"identity", "sub-handling"},
                                  !.parts = [@ EXCEPT !["identity"] = <<One(i)>>,
                                                      !["sub-handling"] = <<"allow">>]]
  <2>1. /\ DOMAIN x = {"there", "kids", "has", "parts"} /\ x.kids = Children
        /\ x.has = {"identity", "sub-handling"}
        /\ x.parts = [[p \in Parts |-> <<>>] EXCEPT !["identity"] = <<One(i)>>,
                                                    !["sub-handling"] = <<"allow">>]
    BY DEF NewRule
  <2>2. /\ "identity" \in Parts /\ "sub-handling" \in Parts
        /\ ChildOf("identity") = "conditions" /\ ChildOf("sub-handling") = "actions"
        /\ "sub-handling" \notin {"identity", "validity", "external-list"} \cup Complex
    BY DEF Parts, Conditions, Complex, ChildOf, Transforms, Booleans
  <2>3. /\ DOMAIN x.parts = Parts /\ x.parts["identity"] = <<One(i)>>
        /\ x.parts["sub-handling"] = <<"allow">>
        /\ \A p \in Parts : p \notin x.has => x.parts[p] = <<>>
    BY <2>1, <2>2
  <2> HIDE DEF x
  <2>4. Fits("identity", <<One(i)>>) /\ Len(<<One(i)>>) = 1
    <3>1. One(i) \in Identity /\ One(i)[1] # "many"
      BY OneIs
    <3>2. QED
      BY <3>1, SingleOnce, IdentityFits
  <2>5. Fits("sub-handling", <<"allow">>) /\ Len(<<"allow">>) = 1
    BY <2>2, PlainFits
  <2>6. 0 <= MaxEntries /\ 1 <= MaxEntries
    BY EntriesAssumption
  <2>7. ASSUME NEW p \in Parts PROVE Fits(p, x.parts[p]) /\ Len(x.parts[p]) <= MaxEntries
    <3>1. CASE p = "identity"
      BY <2>3, <2>4, <2>6, <3>1
    <3>2. CASE p = "sub-handling"
      BY <2>3, <2>5, <2>6, <3>2
    <3>3. CASE p # "identity" /\ p # "sub-handling"
      BY <2>1, <2>3, <2>6, <3>3, NothingFits
    <3>4. QED
      BY <3>1, <3>2, <3>3
  <2>8. Ordered(Children)
    <3>1. /\ Len(Children) = 3 /\ Children[1] = "conditions" /\ Children[2] = "actions"
          /\ Children[3] = "transformations"
      BY DEF Children
    <3>2. Children \in Seq(ChildNames)
      BY DEF Children, ChildNames
    <3>3. \A j \in 1..3 : j = 1 \/ j = 2 \/ j = 3
      OBVIOUS
    <3>4. QED
      BY <3>1, <3>2, <3>3 DEF Ordered, Before
  <2>9. \A p \in x.has : ChildOf(p) \in Range(x.kids)
    BY <2>1, <2>2, ChildNamesAre DEF ChildNames
  <2>10. RuleGood(x)
    BY <2>1, <2>2, <2>3, <2>7, <2>8, <2>9 DEF RuleGood
  <2>11. QED
    BY <1>2, <2>10 DEF x
<1>3. QED
  BY <1>1, <1>2 DEF ServerRules

LEMMA RulesKept ==
  ASSUME RulesInv, [Next]_vars
  PROVE  RulesInv'
<1>1. CASE UNCHANGED ruleVars
  BY <1>1 DEF ruleVars, RulesInv
<1>2. CASE RuleUpdateAllFromServerL
  BY <1>2, NewRuleGood DEF RuleUpdateAllFromServerL, RulesInv
<1>3. CASE RuleEngine
  <2>1. rules' \in ServerRules \/ rules' = rules
    BY <1>3 DEF RuleEngine
  <2>2. scope' = scope /\ offset' = offset
    BY <1>3 DEF RuleEngine
  <2>3. QED
    BY <2>1, <2>2, ServerRulesGood DEF RulesInv
<1>4. QED
  BY <1>1, <1>2, <1>3, RuleEditsGood
     DEF Next, Runs, Engines, ListSteps, RuleSteps, MimeSteps, TreeSteps, vars, RuleAsks,
         RuleRequests, RuleRunL

LEMMA RulesAreSound ==
  ASSUME RulesInv
  PROVE  RulesSound
<1>1. RuleTypeOK
  BY ChildNamesAre DEF RulesInv, RuleGood, RuleTypeOK, Ordered
<1>2. RuleInSchemaOrder
  <2>1. \A r \in Rules : DOMAIN rules[r].kids = 1..Len(rules[r].kids)
    BY LenProperties DEF RulesInv, RuleGood, Ordered
  <2>2. QED
    BY <2>1 DEF RulesInv, RuleGood, RuleInSchemaOrder, Ordered, In
<1>3. NamedOnce
  <2>1. \A r \in Rules : /\ DOMAIN In(r, "identity") = 1..Len(In(r, "identity"))
                         /\ Once(In(r, "identity"))
    BY PartNames, InIs DEF Fits
  <2>2. QED
    BY <2>1 DEF NamedOnce, Once, SameName
<1>4. AllStandsAlone
  <2>1. \A c \in Complex : c \in Parts
    BY DEF Parts, Transforms
  <2>2. QED
    BY <2>1, InIs DEF AllStandsAlone, Fits
<1>5. TimeKept
  <2>1. SUFFICES ASSUME NEW r \in Rules, NEW p \in Range(In(r, "validity")),
                        NEW x \in {p.from, p.until}
                 PROVE  ParseFromXMLTimeString(x) = x.utc
    BY DEF TimeKept
  <2>2. In(r, "validity") \in Seq(Spans)
    BY PartNames, InIs
  <2>3. p \in Spans
    <3>1. PICK j \in 1..Len(In(r, "validity")) : In(r, "validity")[j] = p
      BY <2>2, RangeAt
    <3>2. QED
      BY <2>2, <3>1, ElementOfSeq
  <2>4. x \in Moments
    BY <2>3 DEF Spans
  <2>5. QED
    BY <2>4 DEF Moments
<1>6. QED
  BY <1>1, <1>2, <1>3, <1>4, <1>5 DEF RulesSound

(* Whichever methods of CPresenceXDM and of the classes of conditions,     *)
(* actions and transformations are called, in any order: the parts of a    *)
(* rule are in the order of its schema, nobody is named twice, what        *)
(* provides all stands alone, and a time that was written is read as the   *)
(* moment that was meant, wherever the phone is.                           *)
THEOREM RulesAlwaysSound == Spec => []RulesSound
<1>1. Init => RulesInv
  BY NewRuleGood, TimeAssumption DEF Init, RuleInit, RulesInv, Zones
<1>2. RulesInv /\ [Next]_vars => RulesInv'
  BY RulesKept
<1>3. RulesInv => RulesSound
  BY RulesAreSound
<1>4. QED
  BY <1>1, <1>2, <1>3, PTL DEF Spec

-----------------------------------------------------------------------------
(* What hangs below an element, or was listed below a wrapper. *)
Subtree(f, x, B) ==
  /\ B \subseteq DOMAIN f /\ x \in B
  /\ \A y \in DOMAIN f : f[y] \in B => y \in B
  /\ \A y \in B : y # x => f[y] \in B

LEMMA AboveUnfolds ==
  ASSUME NEW f, NEW y \in DOMAIN f
  PROVE  Above(f, y) = {y} \cup IF f[y] \in DOMAIN f THEN Above(f, f[y]) ELSE {}
<1> DEFINE D == DOMAIN f
           Rec(up) == up = [z \in D |-> {z} \cup IF f[z] \in D THEN up[f[z]] ELSE {}]
           Closed(S) == \A z \in S : f[z] \in D => f[z] \in S
           h == [z \in D |-> {u \in D : \A S \in SUBSET D : z \in S /\ Closed(S) => u \in S}]
           g == CHOOSE up : Rec(up)
<1>1. ASSUME NEW z \in D
      PROVE  h[z] = {z} \cup IF f[z] \in D THEN h[f[z]] ELSE {}
  <2> DEFINE T == {z} \cup IF f[z] \in D THEN h[f[z]] ELSE {}
  <2>1. ASSUME NEW u \in T PROVE u \in h[z]
    <3>1. u \in D
      OBVIOUS
    <3>2. ASSUME NEW S \in SUBSET D, z \in S, Closed(S)
          PROVE  u \in S
      <4>1. f[z] \in D => f[z] \in S
        BY <3>2
      <4>2. QED
        BY <3>2, <4>1
    <3>3. QED
      BY <3>1, <3>2
  <2>2. T \in SUBSET D /\ z \in T
    OBVIOUS
  <2>3. Closed(T)
    <3>1. SUFFICES ASSUME NEW u \in T, f[u] \in D PROVE f[u] \in T
      OBVIOUS
    <3>2. CASE u = z
      <4>1. f[z] \in h[f[z]]
        BY <3>1, <3>2
      <4>2. QED
        BY <3>1, <3>2, <4>1
    <3>3. CASE u # z
      <4>1. f[z] \in D /\ u \in h[f[z]] /\ u \in D
        BY <3>3
      <4>2. f[u] \in h[f[z]]
        BY <3>1, <4>1
      <4>3. QED
        BY <4>1, <4>2
    <3>4. QED
      BY <3>2, <3>3
  <2>4. h[z] \subseteq T
    <3> HIDE DEF T
    <3>1. QED
      BY <2>2, <2>3
  <2>5. QED
    BY <2>1, <2>4
<1>2. Rec(h)
  <2>1. h = [z \in D |-> h[z]]
    OBVIOUS
  <2> HIDE DEF h
  <2>2. QED
    BY <1>1, <2>1
<1> HIDE DEF h
<1>3. Rec(g)
  BY <1>2
<1>4. \A x : Above(f, x) = g[x]
  BY DEF Above
<1> HIDE DEF g
<1>5. g[y] = {y} \cup IF f[y] \in D THEN g[f[y]] ELSE {}
  BY <1>3
<1>6. QED
  BY <1>4, <1>5

LEMMA BelowIs ==
  ASSUME NEW f, NEW x \in DOMAIN f
  PROVE  Subtree(f, x, Below(f, x))
<1>1. \A y \in DOMAIN f : x \in Above(f, y) <=> y \in Below(f, x)
  BY DEF Below
<1>2. x \in Above(f, x)
  BY AboveUnfolds
<1>3. ASSUME NEW y \in DOMAIN f, f[y] \in Below(f, x)
      PROVE  y \in Below(f, x)
  <2>1. f[y] \in DOMAIN f /\ x \in Above(f, f[y])
    BY <1>3 DEF Below
  <2>2. x \in Above(f, y)
    BY <2>1, AboveUnfolds
  <2>3. QED
    BY <1>1, <2>2
<1>4. ASSUME NEW y \in Below(f, x), y # x
      PROVE  f[y] \in Below(f, x)
  <2>1. y \in DOMAIN f /\ x \in Above(f, y)
    BY DEF Below
  <2>2. f[y] \in DOMAIN f /\ x \in Above(f, f[y])
    BY <1>4, <2>1, AboveUnfolds
  <2>3. QED
    BY <2>2 DEF Below
<1>5. Below(f, x) \subseteq DOMAIN f
  BY DEF Below
<1>6. QED
  BY <1>1, <1>2, <1>3, <1>4, <1>5 DEF Subtree

(* If everything hangs below something of a lower rank, the top of a       *)
(* subtree is of the lowest rank in it.                                    *)
Ranked(f, r) ==
  \A y \in DOMAIN f : r[y] \in Nat /\ (f[y] \in DOMAIN f => r[f[y]] < r[y])

LEMMA TopIsLeast ==
  ASSUME NEW f, NEW r, Ranked(f, r), NEW x, NEW B, Subtree(f, x, B), NEW y \in B
  PROVE  r[x] <= r[y]
<1> DEFINE Low == {r[z] : z \in {u \in B : ~(r[x] <= r[u])}}
<1>1. B \subseteq DOMAIN f /\ x \in DOMAIN f /\ r[x] \in Nat
  BY DEF Subtree, Ranked
<1>2. Low \in SUBSET Nat
  BY <1>1 DEF Ranked
<1>3. SUFFICES ASSUME Low # {} PROVE FALSE
  OBVIOUS
<1>4. PICK m \in Low : \A n \in Low : m <= n
  <2> HIDE DEF Low
  <2>1. QED
    BY <1>2, <1>3, LeastOf
<1>5. PICK z \in B : ~(r[x] <= r[z]) /\ m = r[z]
  BY <1>4
<1>6. z # x /\ f[z] \in B
  BY <1>1, <1>5 DEF Subtree
<1>7. r[f[z]] \in Nat /\ r[f[z]] < r[z] /\ r[z] \in Nat
  BY <1>1, <1>6 DEF Ranked
<1>8. r[f[z]] \in Low
  BY <1>1, <1>5, <1>6, <1>7
<1>9. m <= r[f[z]]
  <2> HIDE DEF Low
  <2>1. QED
    BY <1>4, <1>8
<1>10. QED
  BY <1>5, <1>7, <1>9

-----------------------------------------------------------------------------
(* Every element hangs below an older one, or is the root or detached; the *)
(* document owns the root, and but for the parents that were asked for no  *)
(* wrapper owns anything.                                                  *)
Elem == [name : Tags \cup {"root"}, up : Nat]
Wrap == [of : Nat, owns : BOOLEAN,
         holder : {"document", "application", "asker", "lister"}, lister : Nat]

Hangs(f, n) ==
  \/ f[n].up = NoParent /\ (n = 1 \/ n \in detached)
  \/ f[n].up \in DOMAIN f /\ f[n].up < n /\ n \notin detached
NodesSound ==
  /\ made \in 1..MaxElements /\ node \in [DOMAIN node -> Elem]
  /\ DOMAIN node \subseteq 1..made /\ detached \subseteq 1..made /\ 1 \notin detached
  /\ \A n \in DOMAIN node : Hangs(node, n)

Belongs(g, w) ==
  /\ g[w].of \in 1..made
  /\ g[w].holder = "lister" =>
       g[w].lister \in DOMAIN g /\ g[g[w].lister].of < g[w].of
  /\ g[w].holder # "lister" => g[w].lister = 0
  /\ g[w].owns => g[w].holder \in {"document", "asker"}
  /\ g[w].holder = "document" =>
       w = Doc /\ g[w].of = 1 /\ g[w].owns /\ (misused \/ 1 \in DOMAIN node)
WrapsSound ==
  /\ wrap \in [DOMAIN wrap -> Wrap] /\ DOMAIN wrap \subseteq 1..MaxWraps
  /\ \A w \in DOMAIN wrap : Belongs(wrap, w)
  /\ 1 \in DOMAIN node => Doc \in DOMAIN wrap /\ wrap[Doc].holder = "document"

TreeInv == NodesSound /\ WrapsSound /\ DeletedOnce /\ misused \in BOOLEAN

LEMMA ParentsAre ==
  ASSUME TreeInv
  PROVE  /\ DOMAIN Parents = DOMAIN node
         /\ \A n \in DOMAIN node : Parents[n] = node[n].up
         /\ DOMAIN node \subseteq Nat \ {0} /\ NoParent \notin DOMAIN node
<1>1. made \in Nat
  BY DEF TreeInv, NodesSound
<1>2. QED
  BY <1>1 DEF TreeInv, NodesSound, Parents, NoParent

LEMMA ListersAre ==
  ASSUME TreeInv
  PROVE  /\ DOMAIN Listers = DOMAIN wrap
         /\ \A w \in DOMAIN wrap : Listers[w] = wrap[w].lister
         /\ 0 \notin DOMAIN wrap
         /\ Ranked(Listers, [w \in DOMAIN wrap |-> wrap[w].of])
<1>1. 0 \notin DOMAIN wrap
  BY ElementsAssumption DEF TreeInv, WrapsSound
<1>2. \A w \in DOMAIN wrap : wrap[w].of \in Nat
  BY DEF TreeInv, WrapsSound, Wrap
<1>3. \A w \in DOMAIN wrap : wrap[w].lister \in DOMAIN wrap =>
        wrap[wrap[w].lister].of < wrap[w].of
  BY <1>1 DEF TreeInv, WrapsSound, Belongs
<1>4. QED
  BY <1>1, <1>2, <1>3 DEF Listers, Ranked

LEMMA InjectionOf ==
  ASSUME NEW S, NEW T, IsFiniteSet(S), IsFiniteSet(T), Cardinality(S) <= Cardinality(T)
  PROVE  \E f : f \in Injection(S, T)
<1>1. /\ Cardinality(S) \in Nat /\ Cardinality(T) \in Nat
      /\ \E b : b \in Bijection(1..Cardinality(S), S)
      /\ \E c : c \in Bijection(1..Cardinality(T), T)
  BY FS_CardinalityType DEF ExistsBijection
<1>2. PICK b : b \in Bijection(1..Cardinality(S), S)
  BY <1>1
<1>3. PICK c : c \in Bijection(1..Cardinality(T), T)
  BY <1>1
<1> DEFINE at(s) == CHOOSE i \in 1..Cardinality(S) : b[i] = s
           f == [s \in S |-> c[at(s)]]
<1>4. ASSUME NEW s \in S
      PROVE  at(s) \in 1..Cardinality(S) /\ b[at(s)] = s
  BY <1>2 DEF Bijection, Surjection
<1>5. \A i \in 1..Cardinality(S) : i \in 1..Cardinality(T)
  BY <1>1
<1>6. f \in [S -> T]
  BY <1>3, <1>4, <1>5 DEF Bijection, Injection
<1>7. ASSUME NEW s \in S, NEW t \in S, f[s] = f[t]
      PROVE  s = t
  <2>1. c[at(s)] = c[at(t)]
    BY <1>7
  <2>2. at(s) = at(t)
    BY <1>3, <1>4, <1>5, <2>1 DEF Bijection, Injection, IsInjective
  <2>3. QED
    BY <1>4, <2>2
<1>8. QED
  BY <1>6, <1>7 DEF Injection, IsInjective

LEMMA RoomIs ==
  ASSUME TreeInv, NEW k \in Nat, RoomFor(k)
  PROVE  /\ IsFiniteSet((1..MaxWraps) \ DOMAIN wrap)
         /\ k <= Cardinality((1..MaxWraps) \ DOMAIN wrap)
<1>1. /\ MaxWraps \in Nat /\ DOMAIN wrap \subseteq 1..MaxWraps
      /\ IsFiniteSet(1..MaxWraps) /\ Cardinality(1..MaxWraps) = MaxWraps
  <2>1. MaxWraps \in Nat /\ ~(1 > MaxWraps) /\ MaxWraps - 1 + 1 = MaxWraps
    BY ElementsAssumption
  <2>2. /\ IsFiniteSet(1..MaxWraps)
        /\ Cardinality(1..MaxWraps) = IF 1 > MaxWraps THEN 0 ELSE MaxWraps - 1 + 1
    BY <2>1, FS_Interval
  <2>3. QED
    BY <2>1, <2>2 DEF TreeInv, WrapsSound
<1>2. IsFiniteSet(DOMAIN wrap) /\ (1..MaxWraps) \cap DOMAIN wrap = DOMAIN wrap
  BY <1>1, FS_Subset
<1>3. /\ IsFiniteSet((1..MaxWraps) \ DOMAIN wrap)
      /\ Cardinality((1..MaxWraps) \ DOMAIN wrap) = MaxWraps - Cardinality(DOMAIN wrap)
  <2> DEFINE all == 1..MaxWraps
  <2>1. IsFiniteSet(all) /\ Cardinality(all) = MaxWraps /\ all \cap DOMAIN wrap = DOMAIN wrap
    BY <1>1, <1>2
  <2> HIDE DEF all
  <2>2. /\ IsFiniteSet(all \ DOMAIN wrap)
        /\ Cardinality(all \ DOMAIN wrap) = Cardinality(all) - Cardinality(all \cap DOMAIN wrap)
    BY <2>1, FS_Difference
  <2>3. QED
    BY <2>1, <2>2 DEF all
<1>4. Cardinality(DOMAIN wrap) \in Nat
  BY <1>2, FS_CardinalityType
<1>5. QED
  BY <1>1, <1>3, <1>4 DEF RoomFor

Added(old, new, e) ==
  /\ DOMAIN old \subseteq DOMAIN e /\ DOMAIN e \subseteq 1..MaxWraps
  /\ e = [w \in DOMAIN e |-> e[w]]
  /\ \A w \in DOMAIN old : e[w] = old[w]
  /\ \A w \in DOMAIN e : w \notin DOMAIN old => w \notin DOMAIN wrap /\ e[w] \in new

LEMMA WrappedAdds ==
  ASSUME TreeInv, NEW old, DOMAIN old \subseteq DOMAIN wrap, NEW new, IsFiniteSet(new),
         RoomFor(Cardinality(new))
  PROVE  Added(old, new, Wrapped(old, new))
<1> DEFINE free == (1..MaxWraps) \ DOMAIN wrap
           at == CHOOSE f \in Injection(new, free) : TRUE
<1>1. Cardinality(new) \in Nat
  BY FS_CardinalityType
<1>2. at \in Injection(new, free)
  <2>1. IsFiniteSet(free) /\ Cardinality(new) <= Cardinality(free)
    BY <1>1, RoomIs
  <2> HIDE DEF free
  <2>2. QED
    BY <2>1, InjectionOf
<1>3. at \in [new -> free] /\ \A x \in new : at[x] \in Range(at)
  <2> HIDE DEF at, free
  <2>1. QED
    BY <1>2 DEF Injection, Range
<1>4. Range(at) \subseteq free /\ \A w \in Range(at) : \E x \in new : at[x] = w
  <2> HIDE DEF at, free
  <2>1. QED
    BY <1>3 DEF Range
<1>5. Wrapped(old, new) = [w \in DOMAIN old \cup Range(at) |->
        IF w \in Range(at) THEN CHOOSE x \in new : at[x] = w ELSE old[w]]
  BY DEF Wrapped
<1>6. DOMAIN old \subseteq 1..MaxWraps
  BY DEF TreeInv, WrapsSound
<1> HIDE DEF at
<1>7. QED
  BY <1>4, <1>5, <1>6 DEF Added

(* New wrappers that refer to elements, and belong to the application, to  *)
(* who asked, or to one that stays and refers to something older.          *)
Fitting(old, x, m) ==
  /\ x \in Wrap /\ x.of \in 1..m /\ x.holder # "document"
  /\ x.holder = "lister" => x.lister \in DOMAIN old /\ old[x.lister].of < x.of
  /\ x.holder # "lister" => x.lister = 0
  /\ x.owns => x.holder = "asker"

LEMMA MoreWraps ==
  ASSUME TreeInv, NEW old, old \in [DOMAIN old -> Wrap], DOMAIN old \subseteq DOMAIN wrap,
         \A w \in DOMAIN old : Belongs(old, w), 
         1 \in DOMAIN node => Doc \in DOMAIN old /\ old[Doc].holder = "document",
         made' \in Nat, made <= made', 1 \in DOMAIN node' <=> 1 \in DOMAIN node,
         misused' = misused, NEW new, IsFiniteSet(new), RoomFor(Cardinality(new)),
         \A x \in new : Fitting(old, x, made'), wrap' = Wrapped(old, new)
  PROVE  WrapsSound'
<1>1. Added(old, new, wrap')
  BY WrappedAdds
<1>2. \A w \in DOMAIN wrap' : wrap'[w] \in Wrap
  BY <1>1 DEF Added, Fitting
<1>3. made \in Nat
  BY DEF TreeInv, NodesSound
<1>4. ASSUME NEW w \in DOMAIN wrap'
      PROVE  Belongs(wrap, w)'
  <2>1. CASE w \in DOMAIN old
    <3>1. wrap'[w] = old[w] /\ Belongs(old, w)
      BY <1>1, <2>1 DEF Added
    <3>2. wrap'[w].of \in 1..made'
      BY <1>3, <3>1 DEF Belongs
    <3>3. old[w].lister \in DOMAIN old =>
            /\ old[w].lister \in DOMAIN wrap'
            /\ wrap'[old[w].lister] = old[old[w].lister]
      BY <1>1 DEF Added
    <3>4. QED
      BY <3>1, <3>2, <3>3 DEF Belongs
  <2>2. CASE w \notin DOMAIN old
    <3>1. Fitting(old, wrap'[w], made')
      BY <1>1, <2>2 DEF Added
    <3>2. wrap'[w].lister \in DOMAIN old =>
            /\ wrap'[w].lister \in DOMAIN wrap'
            /\ wrap'[wrap'[w].lister] = old[wrap'[w].lister]
      BY <1>1 DEF Added
    <3>3. QED
      BY <3>1, <3>2 DEF Belongs, Fitting
  <2>3. QED
    BY <2>1, <2>2
<1>5. wrap' \in [DOMAIN wrap' -> Wrap] /\ DOMAIN wrap' \subseteq 1..MaxWraps
  BY <1>1, <1>2 DEF Added
<1>6. 1 \in DOMAIN node' => Doc \in DOMAIN wrap' /\ wrap'[Doc].holder = "document"
  BY <1>1 DEF Added
<1>7. QED
  BY <1>4, <1>5, <1>6 DEF WrapsSound

LEMMA GivenFits ==
  ASSUME NEW m \in Nat, NEW n \in 1..m
  PROVE  /\ Fitting(wrap, Given(n, FALSE, "application"), m)
         /\ Fitting(wrap, Given(n, TRUE, "asker"), m)
BY DEF Given, Wrap, Fitting

(* One wrapper more, while nothing is taken away. *)
LEMMA OneMore ==
  ASSUME TreeInv, made' \in Nat, made <= made', 1 \in DOMAIN node' <=> 1 \in DOMAIN node,
         misused' = misused, NEW x, RoomFor(1), Fitting(wrap, x, made'), wrap' = Wrapped(wrap, {x})
  PROVE  WrapsSound'
<1>1. IsFiniteSet({x}) /\ Cardinality({x}) = 1
  BY FS_Singleton
<1>2. /\ wrap \in [DOMAIN wrap -> Wrap] /\ \A w \in DOMAIN wrap : Belongs(wrap, w)
      /\ 1 \in DOMAIN node => Doc \in DOMAIN wrap /\ wrap[Doc].holder = "document"
  BY DEF TreeInv, WrapsSound
<1>3. \A y \in {x} : Fitting(wrap, y, made')
  OBVIOUS
<1>4. RoomFor(Cardinality({x}))
  BY <1>1
<1>5. QED
  BY <1>1, <1>2, <1>3, <1>4, MoreWraps

LEMMA AddIsSound ==
  ASSUME TreeInv, NEW w, NEW name \in Tags, AddSimpleElementL(w, name)
  PROVE  TreeInv'
<1>1. /\ Usable(w) /\ made < MaxElements /\ RoomFor(1) /\ made' = made + 1
      /\ node' = [n \in DOMAIN node \cup {made'} |->
                    IF n = made' THEN [name |-> name, up |-> wrap[w].of] ELSE node[n]]
      /\ wrap' = Wrapped(wrap, {Given(made', FALSE, "application")})
      /\ detached' = detached /\ deletedTwice' = deletedTwice /\ misused' = misused
  BY DEF AddSimpleElementL
<1>2. /\ made \in Nat \ {0} /\ made' \in 1..MaxElements /\ MaxElements \in Nat
      /\ DOMAIN node \subseteq 1..made /\ detached \subseteq 1..made
  BY <1>1, ElementsAssumption DEF TreeInv, NodesSound
<1>3. made' \notin DOMAIN node /\ DOMAIN node' = DOMAIN node \cup {made'}
  BY <1>1, <1>2
<1>4. wrap[w].of \in DOMAIN node /\ wrap[w].of < made' /\ wrap[w].of \in Nat
  BY <1>1, <1>2 DEF Usable
<1>5. NodesSound'
  <2>1. node' \in [DOMAIN node' -> Elem]
    <3>1. [name |-> name, up |-> wrap[w].of] \in Elem
      BY <1>4 DEF Elem
    <3>2. \A n \in DOMAIN node : node[n] \in Elem
      BY DEF TreeInv, NodesSound
    <3>3. QED
      BY <1>1, <1>3, <3>1, <3>2
  <2>2. DOMAIN node' \subseteq 1..made' /\ detached' \subseteq 1..made'
    BY <1>1, <1>2, <1>3
  <2>3. ASSUME NEW n \in DOMAIN node' PROVE Hangs(node, n)'
    <3>1. CASE n = made'
      <4>1. node'[n].up = wrap[w].of
        BY <1>1, <3>1
      <4>2. QED
        BY <1>1, <1>2, <1>3, <1>4, <3>1, <4>1 DEF Hangs
    <3>2. CASE n # made'
      <4>1. n \in DOMAIN node /\ node'[n] = node[n]
        BY <1>1, <1>3, <3>2
      <4>2. Hangs(node, n)
        BY <4>1 DEF TreeInv, NodesSound
      <4>3. QED
        BY <1>1, <1>3, <4>1, <4>2 DEF Hangs
    <3>3. QED
      BY <3>1, <3>2
  <2>4. 1 \notin detached'
    BY <1>1 DEF TreeInv, NodesSound
  <2>5. QED
    BY <1>2, <2>1, <2>2, <2>3, <2>4 DEF NodesSound
<1>6. WrapsSound'
  <2>1. Fitting(wrap, Given(made', FALSE, "application"), made')
    <3>1. made' \in Nat /\ made' \in 1..made'
      BY <1>2
    <3>2. QED
      BY <3>1, GivenFits
  <2>2. 1 \in DOMAIN node' <=> 1 \in DOMAIN node
    BY <1>1, <1>2, <1>3
  <2>3. made' \in Nat /\ made <= made'
    BY <1>1, <1>2
  <2>4. QED
    BY <1>1, <2>1, <2>2, <2>3, OneMore
<1>7. QED
  BY <1>1, <1>5, <1>6 DEF TreeInv, DeletedOnce

LEMMA ParentIsSound ==
  ASSUME TreeInv, NEW w, SimpleParentL(w)
  PROVE  TreeInv'
<1>1. /\ Usable(w) /\ node[wrap[w].of].up # NoParent /\ RoomFor(1)
      /\ wrap' = Wrapped(wrap, {Given(node[wrap[w].of].up, TRUE, "asker")})
      /\ node' = node /\ made' = made /\ detached' = detached
      /\ deletedTwice' = deletedTwice /\ misused' = misused
  BY DEF SimpleParentL
<1>2. node[wrap[w].of].up \in DOMAIN node
  BY <1>1 DEF TreeInv, NodesSound, Hangs, Usable
<1>3. made \in Nat /\ node[wrap[w].of].up \in 1..made
  BY <1>2 DEF TreeInv, NodesSound
<1>4. Fitting(wrap, Given(node[wrap[w].of].up, TRUE, "asker"), made')
  BY <1>1, <1>3, GivenFits
<1>5. WrapsSound'
  <2>1. made' \in Nat /\ made <= made'
    BY <1>1, <1>3
  <2>2. 1 \in DOMAIN node' <=> 1 \in DOMAIN node
    BY <1>1
  <2>3. QED
    BY <1>1, <1>4, <2>1, <2>2, OneMore
<1>6. NodesSound'
  BY <1>1 DEF TreeInv, NodesSound, Hangs
<1>7. QED
  BY <1>1, <1>5, <1>6 DEF TreeInv, DeletedOnce

(* What is closed, or listed anew, takes along what was listed below it. *)
LEMMA LessWraps ==
  ASSUME TreeInv, NEW B, B \subseteq DOMAIN wrap,
         \A v \in DOMAIN wrap : v \notin B => wrap[v].lister \notin B
  PROVE  LET old == Restrict(wrap, DOMAIN wrap \ B)
         IN  /\ old \in [DOMAIN old -> Wrap] /\ DOMAIN old = DOMAIN wrap \ B
             /\ \A v \in DOMAIN old : Belongs(old, v) /\ old[v] = wrap[v]
<1> DEFINE old == Restrict(wrap, DOMAIN wrap \ B)
<1>1. /\ DOMAIN old = DOMAIN wrap \ B /\ \A v \in DOMAIN old : old[v] = wrap[v]
      /\ old = [v \in DOMAIN old |-> old[v]]
  BY DEF Restrict
<1>2. \A v \in DOMAIN wrap : wrap[v] \in Wrap /\ Belongs(wrap, v)
  BY DEF TreeInv, WrapsSound
<1> HIDE DEF old
<1>3. ASSUME NEW v \in DOMAIN old PROVE Belongs(old, v)
  <2>1. v \in DOMAIN wrap /\ v \notin B /\ old[v] = wrap[v] /\ Belongs(wrap, v)
    BY <1>1, <1>2
  <2>2. wrap[v].lister \in DOMAIN wrap =>
          wrap[v].lister \in DOMAIN old /\ old[wrap[v].lister] = wrap[wrap[v].lister]
    BY <1>1, <2>1
  <2>3. QED
    BY <2>1, <2>2 DEF Belongs
<1>4. QED
  BY <1>1, <1>2, <1>3 DEF old

LEMMA ListIsSound ==
  ASSUME TreeInv, NEW w, SimpleElementsL(w)
  PROVE  TreeInv'
<1> DEFINE old  == Below(Listers, w) \ {w}
           kept == Restrict(wrap, DOMAIN wrap \ old)
           kids == ChildrenOf(wrap[w].of)
           new  == {Listed(c, w) : c \in kids}
<1>1. /\ Usable(w) /\ RoomFor(Cardinality(kids)) /\ wrap' = Wrapped(kept, new)
      /\ node' = node /\ made' = made /\ detached' = detached
      /\ deletedTwice' = deletedTwice /\ misused' = misused
  BY DEF SimpleElementsL
<1>2. w \in DOMAIN wrap /\ wrap[w].of \in DOMAIN node
  BY <1>1 DEF Usable
<1>3. /\ DOMAIN Listers = DOMAIN wrap /\ Subtree(Listers, w, Below(Listers, w))
      /\ \A v \in DOMAIN wrap : Listers[v] = wrap[v].lister
      /\ Ranked(Listers, [v \in DOMAIN wrap |-> wrap[v].of])
  BY <1>2, ListersAre, BelowIs
<1>4. old \subseteq DOMAIN wrap /\ w \notin old
  BY <1>3 DEF Subtree
<1>5. ASSUME NEW v \in DOMAIN wrap, v \notin old
      PROVE  wrap[v].lister \notin old
  <2>1. SUFFICES ASSUME wrap[v].lister \in old PROVE FALSE
    OBVIOUS
  <2>2. v \in Below(Listers, w)
    BY <1>3, <2>1 DEF Subtree
  <2>3. v = w
    BY <1>5, <2>2
  <2> DEFINE r == [u \in DOMAIN wrap |-> wrap[u].of]
  <2>4. Listers[w] \in DOMAIN wrap /\ Listers[w] \in Below(Listers, w)
    BY <1>3, <1>4, <2>1, <2>3
  <2>5. r[Listers[w]] < r[w] /\ r[Listers[w]] \in Nat /\ r[w] \in Nat
    BY <1>2, <1>3, <2>4 DEF Ranked
  <2>6. r[w] <= r[Listers[w]]
    <3> HIDE DEF r
    <3>1. Ranked(Listers, r)
      BY <1>3 DEF r
    <3>2. QED
      BY <1>3, <2>4, <3>1, TopIsLeast
  <2>7. QED
    BY <2>5, <2>6
<1>6. /\ kept \in [DOMAIN kept -> Wrap] /\ DOMAIN kept = DOMAIN wrap \ old
      /\ \A v \in DOMAIN kept : Belongs(kept, v) /\ kept[v] = wrap[v]
  <2> HIDE DEF old
  <2>1. QED
    BY <1>4, <1>5, LessWraps
<1>7. w \in DOMAIN kept /\ kept[w] = wrap[w]
  BY <1>2, <1>4, <1>6
<1>8. 1 \in DOMAIN node => Doc \in DOMAIN kept /\ kept[Doc].holder = "document"
  <2>1. SUFFICES ASSUME 1 \in DOMAIN node PROVE Doc \notin old
    BY <1>6 DEF TreeInv, WrapsSound
  <2>2. Doc \in DOMAIN wrap /\ wrap[Doc].lister = 0
    BY <2>1 DEF TreeInv, WrapsSound, Belongs
  <2>3. 0 \notin DOMAIN wrap
    BY ListersAre
  <2>4. QED
    BY <1>3, <2>2, <2>3 DEF Subtree
<1>9. made \in Nat /\ kids \subseteq 1..made /\ wrap[w].of \in Nat
  BY <1>2 DEF TreeInv, NodesSound, ChildrenOf
<1>10. IsFiniteSet(kids)
  <2>1. made \in Int /\ 1 \in Int
    BY <1>9
  <2> HIDE DEF kids, kept, new, old
  <2>2. IsFiniteSet(1..made)
    BY <2>1, FS_Interval
  <2>3. QED
    BY <1>9, <2>2, FS_Subset
<1>11. ASSUME NEW c \in kids
       PROVE  Fitting(kept, Listed(c, w), made)
  <2>1. c \in DOMAIN node /\ node[c].up = wrap[w].of /\ c \in 1..made /\ c \in Nat
    BY <1>9 DEF ChildrenOf
  <2>2. wrap[w].of < c
    <3>1. wrap[w].of # NoParent
      BY <1>2, ParentsAre
    <3>2. Hangs(node, c)
      BY <2>1 DEF TreeInv, NodesSound
    <3>3. QED
      BY <2>1, <3>1, <3>2 DEF Hangs
  <2>3. w \in Nat
    BY <1>2, ElementsAssumption DEF TreeInv, WrapsSound
  <2> HIDE DEF kids, kept, new, old
  <2>4. QED
    BY <1>7, <2>1, <2>2, <2>3 DEF Fitting, Listed, Wrap
<1>12. IsFiniteSet(new) /\ Cardinality(new) = Cardinality(kids)
  <2> DEFINE f == [c \in kids |-> Listed(c, w)]
  <2>1. f \in [kids -> new] /\ (\A t \in new : \E c \in kids : f[c] = t)
    OBVIOUS
  <2>2. \A c, d \in kids : f[c] = f[d] => c = d
    BY DEF Listed
  <2> HIDE DEF f, new, kids
  <2>3. f \in Bijection(kids, new)
    BY <2>1, <2>2 DEF Bijection, Injection, Surjection, IsInjective
  <2>4. QED
    BY <1>10, <2>3, FS_Bijection DEF ExistsBijection
<1>13. \A x \in new : Fitting(kept, x, made')
  BY <1>1, <1>11
<1>14. made' \in Nat /\ made <= made' /\ (1 \in DOMAIN node' <=> 1 \in DOMAIN node)
  BY <1>1, <1>9
<1>15. WrapsSound'
  <2> HIDE DEF kids, kept, new, old
  <2>1. RoomFor(Cardinality(new)) /\ DOMAIN kept \subseteq DOMAIN wrap
    BY <1>1, <1>6, <1>12
  <2>2. QED
    BY <1>1, <1>6, <1>8, <1>12, <1>13, <1>14, <2>1, MoreWraps
<1>16. NodesSound'
  BY <1>1 DEF TreeInv, NodesSound, Hangs
<1>17. QED
  BY <1>1, <1>15, <1>16 DEF TreeInv, DeletedOnce

LEMMA DetachIsSound ==
  ASSUME TreeInv, NEW w, DetachSimpleL(w)
  PROVE  TreeInv'
<1> DEFINE n == wrap[w].of
<1>1. /\ n \in DOMAIN node /\ node[n].up # NoParent
      /\ node' = [node EXCEPT ![n].up = NoParent]
      /\ detached' = detached \cup {n}
      /\ made' = made /\ wrap' = wrap /\ deletedTwice' = deletedTwice
      /\ misused' = misused
  BY DEF DetachSimpleL, Usable
<1> HIDE DEF n
<1>2. /\ node \in [DOMAIN node -> Elem] /\ DOMAIN node' = DOMAIN node
      /\ \A m \in DOMAIN node : node[m] \in Elem
  BY <1>1 DEF TreeInv, NodesSound
<1>3. node'[n] \in Elem /\ node'[n].up = NoParent
  BY <1>1, <1>2 DEF Elem, NoParent
<1>4. \A m \in DOMAIN node : m # n => node'[m] = node[m]
  BY <1>1
<1>5. NodesSound'
  <2>1. node' \in [DOMAIN node' -> Elem]
    BY <1>1, <1>2, <1>3, <1>4
  <2>2. ASSUME NEW m \in DOMAIN node' PROVE Hangs(node, m)'
    BY <1>1, <1>2, <1>3, <1>4 DEF TreeInv, NodesSound, Hangs
  <2>3. n # 1
    <3>1. Hangs(node, n) /\ n \in Nat \ {0} /\ DOMAIN node \subseteq Nat \ {0}
      BY <1>1, ParentsAre DEF TreeInv, NodesSound
    <3>2. QED
      BY <1>1, <3>1 DEF Hangs
  <2>4. QED
    BY <1>1, <1>2, <2>1, <2>2, <2>3 DEF TreeInv, NodesSound
<1>6. WrapsSound'
  BY <1>1, <1>2 DEF TreeInv, WrapsSound, Belongs
<1>7. QED
  BY <1>1, <1>5, <1>6 DEF TreeInv, DeletedOnce

(* A subtree is removed. *)
LEMMA LessNodes ==
  ASSUME TreeInv, NEW B, \A m \in DOMAIN node : node[m].up \in B => m \in B,
         node' = Restrict(node, DOMAIN node \ B), made' = made, detached' = detached
  PROVE  NodesSound' /\ DOMAIN node' = DOMAIN node \ B
<1>1. /\ DOMAIN node' = DOMAIN node \ B /\ \A m \in DOMAIN node' : node'[m] = node[m]
      /\ node' = [m \in DOMAIN node' |-> node'[m]]
  BY DEF Restrict
<1>2. \A m \in DOMAIN node : node[m] \in Elem /\ Hangs(node, m)
  BY DEF TreeInv, NodesSound
<1>3. node' \in [DOMAIN node' -> Elem]
  BY <1>1, <1>2
<1>4. ASSUME NEW m \in DOMAIN node' PROVE Hangs(node, m)'
  BY <1>1, <1>2 DEF Hangs
<1>5. QED
  BY <1>1, <1>3, <1>4 DEF TreeInv, NodesSound

LEMMA RemoveIsSound ==
  ASSUME TreeInv, NEW w, NEW name, RemoveSimpleElement(w, name)
  PROVE  TreeInv'
<1> DEFINE n == wrap[w].of
           c == CHOOSE c \in Named(n, name) : \A d \in Named(n, name) : c <= d
<1>1. /\ n \in DOMAIN node /\ Named(n, name) # {}
      /\ node' = Restrict(node, DOMAIN node \ Below(Parents, c))
      /\ made' = made /\ wrap' = wrap /\ detached' = detached
      /\ deletedTwice' = deletedTwice /\ misused' = misused
  BY DEF RemoveSimpleElement, Usable
<1>2. c \in DOMAIN node /\ node[c].up = n
  <2>1. Named(n, name) \in SUBSET Nat
    BY ParentsAre DEF Named, ChildrenOf
  <2>2. c \in Named(n, name)
    <3> DEFINE S == Named(n, name)
    <3>1. S \in SUBSET Nat /\ S # {}
      BY <1>1, <2>1
    <3> HIDE DEF S
    <3>2. \E m \in S : \A d \in S : m <= d
      BY <3>1, LeastOf
    <3>3. QED
      BY <3>2 DEF S
  <2>3. QED
    BY <2>2 DEF Named, ChildrenOf
<1> HIDE DEF c, n
<1>3. /\ Subtree(Parents, c, Below(Parents, c)) /\ DOMAIN Parents = DOMAIN node
      /\ \A m \in DOMAIN node : Parents[m] = node[m].up
  BY <1>2, ParentsAre, BelowIs
<1>4. NodesSound' /\ DOMAIN node' = DOMAIN node \ Below(Parents, c)
  <2>1. \A m \in DOMAIN node : node[m].up \in Below(Parents, c) => m \in Below(Parents, c)
    BY <1>3 DEF Subtree
  <2>2. QED
    BY <1>1, <2>1, LessNodes
<1>5. 1 \in DOMAIN node => 1 \notin Below(Parents, c)
  <2>1. SUFFICES ASSUME 1 \in DOMAIN node PROVE 1 \notin Below(Parents, c)
    OBVIOUS
  <2>2. \A m \in DOMAIN node : m \in Nat \ {0}
    BY ParentsAre
  <2>3. node[1].up \notin DOMAIN node
    <3>1. Hangs(node, 1)
      BY <2>1 DEF TreeInv, NodesSound
    <3>2. QED
      BY <2>2, <3>1, ParentsAre DEF Hangs
  <2>4. c # 1
    BY <1>1, <1>2, <2>3
  <2>5. QED
    BY <1>3, <2>1, <2>3, <2>4 DEF Subtree
<1>6. WrapsSound'
  BY <1>1, <1>4, <1>5 DEF TreeInv, WrapsSound, Belongs
<1>7. QED
  BY <1>1, <1>4, <1>6 DEF TreeInv, DeletedOnce

(* What is below something takes along what is below it. *)
LEMMA BelowCloses ==
  ASSUME NEW n
  PROVE  \A m \in DOMAIN node : node[m].up \in Below(Parents, n) => m \in Below(Parents, n)
<1> SUFFICES ASSUME NEW m \in DOMAIN node, node[m].up \in Below(Parents, n)
             PROVE  m \in Below(Parents, n)
  OBVIOUS
<1>1. DOMAIN Parents = DOMAIN node /\ Parents[m] = node[m].up
  BY DEF Parents
<1>2. Parents[m] \in DOMAIN Parents /\ n \in Above(Parents, Parents[m])
  BY <1>1 DEF Below
<1>3. n \in Above(Parents, m)
  BY <1>1, <1>2, AboveUnfolds
<1>4. QED
  BY <1>1, <1>3 DEF Below

(* Nothing is above the root, or above what was detached; so the root is   *)
(* below itself only.                                                      *)
LEMMA RootsAre ==
  ASSUME TreeInv, NEW n \in DOMAIN node, n = 1 \/ n \in detached
  PROVE  /\ node[n].up \notin DOMAIN node
         /\ n \in Below(Parents, n)
         /\ 1 \in DOMAIN node /\ n # 1 => 1 \notin Below(Parents, n)
<1>1. \A m \in DOMAIN node : m \in Nat \ {0} /\ Hangs(node, m)
  BY ParentsAre DEF TreeInv, NodesSound
<1>2. ASSUME NEW m \in DOMAIN node, m = 1 \/ m \in detached PROVE node[m].up \notin DOMAIN node
  BY <1>1, <1>2, ParentsAre DEF Hangs
<1>3. /\ Subtree(Parents, n, Below(Parents, n)) /\ DOMAIN Parents = DOMAIN node
      /\ \A m \in DOMAIN node : Parents[m] = node[m].up
  BY ParentsAre, BelowIs
<1>4. 1 \in DOMAIN node /\ n # 1 => 1 \notin Below(Parents, n)
  BY <1>2, <1>3 DEF Subtree
<1>5. QED
  BY <1>2, <1>3, <1>4 DEF Subtree

LEMMA CloseIsSound ==
  ASSUME TreeInv, NEW w, Close(w)
  PROVE  TreeInv'
<1> DEFINE ws == Below(Listers, w)
           n  == wrap[w].of
<1>1. /\ w \in DOMAIN wrap /\ wrap[w].holder \in {"document", "application", "asker"}
      /\ wrap' = Restrict(wrap, DOMAIN wrap \ ws)
      /\ node' = Restrict(node, DOMAIN node \ FreedWith(ws))
      /\ deletedTwice' = (\/ deletedTwice
                          \/ \E v \in Owning(ws) :
                                \/ wrap[v].of \notin DOMAIN node
                                \/ node[wrap[v].of].up \in DOMAIN node
                                \/ \E u \in Owning(ws) \ {v} :
                                     wrap[u].of \in Below(Parents, wrap[v].of))
      /\ misused' = (misused \/ (wrap[w].holder = "asker" /\ ~Orphan(n)))
      /\ made' = made /\ detached' = detached
  BY DEF Close, Destroy
<1>2. /\ DOMAIN Listers = DOMAIN wrap /\ Subtree(Listers, w, ws)
      /\ \A v \in DOMAIN wrap : Listers[v] = wrap[v].lister
      /\ 0 \notin DOMAIN wrap
  BY <1>1, ListersAre, BelowIs
<1> HIDE DEF ws, n
<1>3. ws \subseteq DOMAIN wrap /\ w \in ws
  BY <1>2 DEF Subtree
<1>4. ASSUME NEW v \in ws, wrap[v].holder # "lister" PROVE v = w
  <2>1. wrap[v].lister = 0
    BY <1>3, <1>4 DEF TreeInv, WrapsSound, Belongs
  <2>2. QED
    BY <1>2, <1>3, <2>1 DEF Subtree
<1>5. ASSUME NEW v \in Owning(ws)
      PROVE  v = w /\ wrap[w].holder \in {"document", "asker"} /\ wrap[v].of = n
  <2>1. v \in ws /\ v \in DOMAIN wrap /\ Belongs(wrap, v) /\ wrap[v].owns
    BY <1>3 DEF Owning, TreeInv, WrapsSound
  <2>2. wrap[v].holder \in {"document", "asker"}
    BY <2>1 DEF Belongs
  <2>3. v = w
    BY <1>4, <2>1, <2>2
  <2>4. QED
    BY <2>2, <2>3 DEF n
<1>6. FreedWith(ws) = IF Owning(ws) = {} THEN {} ELSE Below(Parents, n)
  BY <1>5 DEF FreedWith
<1>7. NodesSound' /\ DOMAIN node' = DOMAIN node \ FreedWith(ws)
  <2>1. \A m \in DOMAIN node : node[m].up \in FreedWith(ws) => m \in FreedWith(ws)
    BY <1>6, BelowCloses
  <2>2. QED
    BY <1>1, <2>1, LessNodes
<1>8. /\ wrap' \in [DOMAIN wrap' -> Wrap] /\ DOMAIN wrap' = DOMAIN wrap \ ws
      /\ \A v \in DOMAIN wrap' : Belongs(wrap', v) /\ wrap'[v] = wrap[v]
  <2>1. \A v \in DOMAIN wrap : v \notin ws => wrap[v].lister \notin ws
    BY <1>2 DEF Subtree
  <2>2. QED
    BY <1>1, <1>3, <2>1, LessWraps
<1>9. wrap[w].holder = "document" =>
        w = Doc /\ n = 1 /\ wrap[w].owns /\ (misused \/ 1 \in DOMAIN node)
  BY <1>1 DEF TreeInv, WrapsSound, Belongs, n
<1>10. DeletedOnce'
  <2> SUFFICES ASSUME ~misused' PROVE ~deletedTwice'
    BY DEF DeletedOnce
  <2>1. ~misused /\ ~deletedTwice /\ (wrap[w].holder = "asker" => Orphan(n))
    BY <1>1 DEF TreeInv, DeletedOnce
  <2>2. ASSUME NEW v \in Owning(ws)
        PROVE  /\ wrap[v].of \in DOMAIN node /\ node[wrap[v].of].up \notin DOMAIN node
               /\ Owning(ws) \ {v} = {}
    <3>1. v = w /\ wrap[v].of = n /\ wrap[w].holder \in {"document", "asker"}
      BY <1>5
    <3>2. n \in DOMAIN node /\ (n = 1 \/ n \in detached)
      BY <1>9, <2>1, <3>1 DEF Orphan
    <3>3. node[n].up \notin DOMAIN node
      BY <3>2, RootsAre
    <3>4. QED
      BY <1>5, <3>1, <3>2, <3>3
  <2>3. QED
    BY <1>1, <2>1, <2>2
<1>11. ASSUME 1 \in DOMAIN node', Doc \in ws PROVE FALSE
  <2>1. 1 \in DOMAIN node /\ 1 \notin FreedWith(ws)
    BY <1>7, <1>11
  <2>2. wrap[Doc].holder = "document" /\ Doc \in DOMAIN wrap
    BY <2>1 DEF TreeInv, WrapsSound
  <2>3. Doc = w /\ n = 1 /\ wrap[w].owns
    BY <1>4, <1>9, <1>11, <2>2
  <2>4. Owning(ws) # {}
    BY <1>3, <2>3 DEF Owning
  <2>5. QED
    BY <1>6, <2>1, <2>3, <2>4, RootsAre
<1>12. ASSUME NEW v \in DOMAIN wrap' PROVE Belongs(wrap, v)'
  <2>1. Belongs(wrap', v) /\ wrap'[v] = wrap[v] /\ v \in DOMAIN wrap /\ v \notin ws
    BY <1>8
  <2>2. ASSUME wrap'[v].holder = "document", ~misused' PROVE 1 \in DOMAIN node'
    <3>1. v = Doc /\ ~misused /\ 1 \in DOMAIN node /\ v # w
      BY <1>1, <1>3, <2>1, <2>2 DEF Belongs
    <3>2. ASSUME Owning(ws) # {} PROVE 1 \notin Below(Parents, n)
      <4>1. wrap[w].holder = "asker"
        BY <1>5, <1>9, <3>1, <3>2
      <4>2. n \in DOMAIN node /\ n \in detached
        BY <1>1, <2>2, <4>1 DEF Orphan
      <4>3. n # 1
        BY <4>2 DEF TreeInv, NodesSound
      <4>4. QED
        BY <3>1, <4>2, <4>3, RootsAre
    <3>3. 1 \notin FreedWith(ws)
      BY <1>6, <3>2
    <3>4. QED
      BY <1>7, <3>1, <3>3
  <2>3. QED
    BY <1>1, <2>1, <2>2 DEF Belongs
<1>13. 1 \in DOMAIN node' => Doc \in DOMAIN wrap' /\ wrap'[Doc].holder = "document"
  <2> SUFFICES ASSUME 1 \in DOMAIN node'
               PROVE  Doc \in DOMAIN wrap' /\ wrap'[Doc].holder = "document"
    OBVIOUS
  <2>1. Doc \notin ws
    BY <1>11
  <2>2. Doc \in DOMAIN wrap /\ wrap[Doc].holder = "document"
    BY <1>7 DEF TreeInv, WrapsSound
  <2>3. QED
    BY <1>8, <2>1, <2>2
<1>14. WrapsSound'
  <2>1. DOMAIN wrap' \subseteq 1..MaxWraps
    BY <1>8 DEF TreeInv, WrapsSound
  <2>2. QED
    BY <1>8, <1>12, <1>13, <2>1 DEF WrapsSound
<1>15. misused' \in BOOLEAN
  BY <1>1 DEF TreeInv
<1>16. QED
  BY <1>7, <1>10, <1>14, <1>15 DEF TreeInv

LEMMA HandlesSound ==
  ASSUME TreeInv, Handles
  PROVE  TreeInv'
BY AddIsSound, RemoveIsSound, ListIsSound, ParentIsSound, DetachIsSound, CloseIsSound
   DEF Handles

LEMMA TreeStart ==
  ASSUME TreeInit
  PROVE  TreeInv
<1>1. /\ node = [n \in {1} |-> [name |-> "root", up |-> NoParent]] /\ made = 1
      /\ wrap = [w \in {Doc} |-> Given(1, TRUE, "document")]
      /\ detached = {} /\ deletedTwice = FALSE /\ misused = FALSE
  BY DEF TreeInit
<1>2. NodesSound
  BY <1>1, ElementsAssumption DEF NodesSound, Elem, Hangs, NoParent
<1>3. WrapsSound
  BY <1>1, ElementsAssumption DEF WrapsSound, Wrap, Belongs, Given, Doc
<1>4. QED
  BY <1>1, <1>2, <1>3 DEF TreeInv, DeletedOnce

LEMMA TreeKept ==
  ASSUME TreeInv, [Next]_vars
  PROVE  TreeInv'
<1>1. CASE Handles
  BY <1>1, HandlesSound
<1>2. CASE UNCHANGED treeVars
  BY <1>2 DEF treeVars, TreeInv, NodesSound, WrapsSound, Hangs, Belongs, DeletedOnce
<1>3. QED
  BY <1>1, <1>2 DEF Next, Runs, Engines, ListSteps, RuleSteps, MimeSteps, TreeSteps, vars

(* Above every element there is one with nothing above it. *)
LEMMA TopAbove ==
  ASSUME TreeInv, NEW n \in DOMAIN node
  PROVE  \E t \in Above(Parents, n) : t \in DOMAIN node /\ node[t].up = NoParent
<1> DEFINE Topped(m) == \E t \in Above(Parents, m) : t \in DOMAIN node /\ node[t].up = NoParent
           Bad == {m \in DOMAIN node : ~Topped(m)}
<1>1. /\ DOMAIN Parents = DOMAIN node /\ \A m \in DOMAIN node : Parents[m] = node[m].up
      /\ DOMAIN node \subseteq Nat \ {0}
  BY ParentsAre
<1>2. ASSUME NEW m \in DOMAIN node
      PROVE  Above(Parents, m) = {m} \cup IF node[m].up \in DOMAIN node
                                          THEN Above(Parents, node[m].up) ELSE {}
  <2>1. Above(Parents, m) = {m} \cup IF Parents[m] \in DOMAIN Parents
                                     THEN Above(Parents, Parents[m]) ELSE {}
    BY <1>1, AboveUnfolds
  <2>2. QED
    BY <1>1, <2>1
<1>3. SUFFICES ASSUME Bad # {} PROVE FALSE
  OBVIOUS
<1>4. Bad \in SUBSET Nat
  BY <1>1
<1>5. PICK m \in Bad : \A k \in Bad : m <= k
  <2> HIDE DEF Bad
  <2>1. QED
    BY <1>3, <1>4, LeastOf
<1>6. m \in DOMAIN node /\ ~Topped(m) /\ m \in Nat
  BY <1>1, <1>5
<1>7. node[m].up \in DOMAIN node /\ node[m].up < m /\ node[m].up \in Nat
  <2>1. node[m].up # NoParent
    BY <1>2, <1>6
  <2>2. Hangs(node, m)
    BY <1>6 DEF TreeInv, NodesSound
  <2>3. QED
    BY <1>1, <2>1, <2>2 DEF Hangs
<1>8. Topped(node[m].up)
  <2>1. ~(m <= node[m].up)
    BY <1>6, <1>7
  <2>2. node[m].up \notin Bad
    <3> HIDE DEF Bad
    <3>1. QED
      BY <1>5, <2>1
  <2>3. QED
    BY <1>7, <2>2
<1>9. QED
  BY <1>2, <1>6, <1>7, <1>8

LEMMA TreeIsOwned ==
  ASSUME TreeInv
  PROVE  ElementsOwned
<1>1. TreeTypeOK
  <2>1. /\ made \in 1..MaxElements /\ DOMAIN node \subseteq 1..made
        /\ DOMAIN wrap \subseteq 1..MaxWraps /\ detached \subseteq 1..made
    BY DEF TreeInv, NodesSound, WrapsSound
  <2>2. \A n \in DOMAIN node : node[n].up = NoParent \/ node[n].up \in DOMAIN node
    BY DEF TreeInv, NodesSound, Hangs
  <2>3. 0 \notin DOMAIN wrap
    BY ListersAre
  <2>4. ASSUME NEW w \in DOMAIN wrap
        PROVE  /\ wrap[w].of \in 1..made /\ wrap[w].owns \in BOOLEAN
               /\ wrap[w].holder \in {"document", "application", "asker", "lister"}
               /\ wrap[w].holder = "lister" <=> wrap[w].lister \in DOMAIN wrap
    <3>1. wrap[w] \in Wrap /\ Belongs(wrap, w)
      BY DEF TreeInv, WrapsSound
    <3>2. QED
      BY <2>3, <3>1 DEF Wrap, Belongs
  <2>5. QED
    BY <2>1, <2>2, <2>4 DEF TreeTypeOK, TreeInv
<1>2. OnlyDetachedLeak
  <2>1. SUFFICES ASSUME NEW n \in DOMAIN node
                 PROVE  \/ Above(Parents, n) \cap detached # {}
                        \/ Doc \in DOMAIN wrap /\ wrap[Doc].of \in Above(Parents, n)
    BY DEF OnlyDetachedLeak
  <2>2. PICK t \in Above(Parents, n) : t \in DOMAIN node /\ node[t].up = NoParent
    BY TopAbove
  <2>3. t = 1 \/ t \in detached
    <3>1. Hangs(node, t)
      BY <2>2 DEF TreeInv, NodesSound
    <3>2. QED
      BY <2>2, <3>1, ParentsAre DEF Hangs
  <2>4. t = 1 => Doc \in DOMAIN wrap /\ wrap[Doc].of = 1
    BY <2>2 DEF TreeInv, WrapsSound, Belongs
  <2>5. QED
    BY <2>2, <2>3, <2>4
<1>3. QED
  BY <1>1, <1>2 DEF ElementsOwned, TreeInv

(* However the wrappers of a document (CSimpleElement) are made, listed    *)
(* again and closed, in any order, every node has an owner unless it was   *)
(* detached, and is deleted once: by the document, which owns the root, or *)
(* by the wrapper of a parent that was detached.  A node is deleted twice  *)
(* only after the application has closed the wrapper of a parent           *)
(* (SimpleParentL) that is still in the tree, or gone.                     *)
THEOREM ElementsAlwaysOwned == Spec => []ElementsOwned
<1>1. Init => TreeInv
  BY TreeStart DEF Init
<1>2. TreeInv /\ [Next]_vars => TreeInv'
  BY TreeKept
<1>3. TreeInv => ElementsOwned
  BY TreeIsOwned
<1>4. QED
  BY <1>1, <1>2, <1>3, PTL DEF Spec

-----------------------------------------------------------------------------
(* Messages: what a number of lengths adds up to, and what comes first and *)
(* last among places.                                                      *)
LEMMA TabledSeq ==
  ASSUME NEW S, NEW n \in Nat, NEW f \in [1..n -> S]
  PROVE  f \in Seq(S) /\ Len(f) = n /\ DOMAIN f = 1..n
<1>1. f \in Seq(S)
  BY SeqDef
<1>2. DOMAIN f = 1..Len(f) /\ Len(f) \in Nat /\ DOMAIN f = 1..n
  BY <1>1, LenProperties
<1>3. Len(f) = n
  <2>1. CASE n = 0
    BY <1>2, <2>1
  <2>2. CASE n # 0
    <3>1. n \in 1..Len(f) /\ (Len(f) # 0 => Len(f) \in 1..n)
      BY <1>2, <2>2
    <3>2. QED
      BY <1>2, <3>1
  <2>3. QED
    BY <2>1, <2>2
<1>4. QED
  BY <1>1, <1>2, <1>3

LEMMA TotalIsInt ==
  ASSUME NEW s \in Seq(Int)
  PROVE  Total(s) \in Int
<1> DEFINE N == Len(s)
           Rec(f) == f = [i \in 0..N |-> IF i = 0 THEN 0 ELSE f[i - 1] + s[i]]
           G == [p \in (1..N) \X Int |-> p[2] + s[p[1]]]
           h == CHOOSE f : Rec(f)
           Bad == {i \in 0..N : h[i] \notin Int}
<1>1. N \in Nat /\ \A i \in 1..N : s[i] \in Int
  BY LenProperties, ElementOfSeq
<1>2. G \in [(1..N) \X Int -> Int]
  BY <1>1
<1>3. PICK f : /\ f \in [0..N -> Int] /\ f[0] = 0
               /\ \A i \in 1..N : f[i] = G[<<i, f[i - 1]>>]
  <2>1. PICK T, a : T = Int /\ a = 0
    OBVIOUS
  <2> HIDE DEF G, N
  <2>2. a \in T /\ G \in [(1..N) \X T -> T]
    BY <1>2, <2>1
  <2>3. PICK f : Iterates(f, T, a, N, G)
    BY <1>1, <2>2, Iterated
  <2>4. QED
    BY <2>1, <2>3 DEF Iterates
<1>4. \A i \in 1..N : i \in 0..N /\ i # 0 /\ i - 1 \in 0..N
  BY <1>1
<1>5. \A i \in 0..N : i # 0 => i \in 1..N
  BY <1>1
<1> HIDE DEF N
<1>6. ASSUME NEW i \in 0..N
      PROVE  f[i] = IF i = 0 THEN 0 ELSE f[i - 1] + s[i]
  <2>1. CASE i = 0
    BY <1>3, <2>1
  <2>2. CASE i # 0
    <3>1. i \in 1..N /\ f[i - 1] \in Int
      BY <1>3, <1>4, <1>5, <2>2
    <3>2. QED
      BY <1>3, <2>2, <3>1
  <2>3. QED
    BY <2>1, <2>2
<1>7. Rec(f)
  <2>1. f = [i \in 0..N |-> f[i]]
    BY <1>3
  <2>2. QED
    BY <1>6, <2>1
<1>8. Rec(h)
  BY <1>7
<1>9. Total(s) = h[N]
  BY DEF Total, N
<1> HIDE DEF h
<1>10. /\ 0 \in 0..N => h[0] = 0
       /\ \A i \in 1..N : h[i] = h[i - 1] + s[i]
  <2>1. \A i \in 0..N : h[i] = IF i = 0 THEN 0 ELSE h[i - 1] + s[i]
    BY <1>8
  <2>2. QED
    BY <1>4, <2>1
<1>11. Bad = {}
  <2>1. SUFFICES ASSUME Bad # {} PROVE FALSE
    OBVIOUS
  <2>2. PICK k \in Bad : \A n \in Bad : k <= n
    <3>1. Bad \in SUBSET Nat
      BY <1>1
    <3> HIDE DEF Bad
    <3>2. QED
      BY <2>1, <3>1, LeastOf
  <2>3. k # 0
    BY <1>10, <2>2
  <2>4. k \in 1..N /\ k - 1 \in 0..N /\ k \in Nat
    BY <1>1, <1>4, <1>5, <2>2, <2>3
  <2>5. k - 1 \notin Bad
    <3>1. ~(k <= k - 1)
      BY <2>4
    <3> HIDE DEF Bad
    <3>2. QED
      BY <2>2, <3>1
  <2>6. h[k - 1] \in Int /\ s[k] \in Int
    BY <1>1, <2>4, <2>5
  <2>7. h[k] = h[k - 1] + s[k]
    BY <1>10, <2>4
  <2>8. h[k] \in Int
    BY <2>6, <2>7
  <2>9. QED
    BY <2>2, <2>8
<1>12. N \in 0..N
  BY <1>1
<1>13. QED
  BY <1>9, <1>11, <1>12

LEMMA FirstAndLast ==
  ASSUME NEW n \in Nat, NEW S \in SUBSET (1..n), S # {}
  PROVE  /\ Min(S) \in S /\ \A y \in S : Min(S) <= y
         /\ Max(S) \in S /\ \A y \in S : Max(S) >= y
<1> DEFINE D == {n - x : x \in S}
<1>1. \A x \in S : x \in Nat /\ n - x \in Nat /\ x \in Int
  OBVIOUS
<1>2. S \in SUBSET Nat /\ D \in SUBSET Nat /\ D # {}
  BY <1>1
<1>3. \E x \in S : \A y \in S : x <= y
  BY <1>2, LeastOf
<1>4. PICK d \in D : \A e \in D : d <= e
  <2> HIDE DEF D
  <2>1. QED
    BY <1>2, LeastOf
<1>5. PICK x \in S : d = n - x
  BY <1>4
<1>6. ASSUME NEW y \in S PROVE x >= y
  <2>1. n - y \in D
    OBVIOUS
  <2>2. n - x <= n - y
    BY <1>4, <1>5, <2>1
  <2>3. x \in Int /\ y \in Int
    BY <1>1
  <2>4. QED
    BY <2>2, <2>3
<1>7. Min(S) \in S /\ \A y \in S : Min(S) <= y
  BY <1>3 DEF Min
<1>8. Max(S) \in S /\ \A y \in S : Max(S) >= y
  BY <1>6 DEF Max
<1>9. QED
  BY <1>7, <1>8

(* The text in base64 of a body of any length has the room of half as much *)
(* again, in whole cells.                                                  *)
LEMMA Base64Fits ==
  ASSUME NEW n \in Nat
  PROVE  Encoded(n) <= Base64(n) /\ Encoded(n) \in Int
<1>1. PICK p : p = (n + 2) \div 3
  OBVIOUS
<1>2. PICK q : q = (3 * n) \div 2
  OBVIOUS
<1>3. PICK r : r = (q + 7) \div 4
  OBVIOUS
<1>4. p \in Int /\ 3 * p <= n + 2 /\ n + 2 < 3 * p + 3
  BY <1>1, Z3
<1>5. q \in Int /\ 2 * q <= 3 * n /\ 3 * n < 2 * q + 2
  BY <1>2, Z3
<1>6. r \in Int /\ 4 * r <= q + 7 /\ q + 7 < 4 * r + 4
  BY <1>3, <1>5, Z3
<1>7. p <= r - 1
  <2>1. CASE n >= 19
    BY <1>4, <1>5, <1>6, <2>1
  <2>2. CASE n < 19
    BY <1>4, <1>5, <1>6, <2>2
  <2>3. QED
    BY <2>1, <2>2
<1>8. Encoded(n) = 4 * p /\ Base64(n) = 4 * r - 4
  BY <1>1, <1>2, <1>3 DEF Encoded, Base64, Cell
<1>9. QED
  BY <1>4, <1>6, <1>7, <1>8

(* What a document has, how a message of its own is laid out, and what has *)
(* been read from a message.                                               *)
Conts == {c \in [type : {"pidf", "other"}, cid : Cids \cup {"none"}, body : Nat] :
            c.type = "pidf" => c.cid # "none"}
Mails == {p \in Part : p.type = "pidf" => p.cid # "none"}

AsWritten(m, cs) ==
  /\ Len(m) = Len(cs) + 1 /\ m[1] = RootPart
  /\ \A k \in 1..Len(cs) : m[k + 1] = AsPart(cs[k])
GotIs ==
  \/ got = Nothing \/ got = [kind |-> "left"] \/ got.kind = "list"
  \/ \E s \in Starts : got = Document(wire, s)
MimeInv ==
  /\ cont \in Conts /\ contents \in Seq(Conts) /\ sent \in Seq(Conts)
  /\ wire \in Seq(Mails) /\ GotIs
  /\ Own => AsWritten(wire, sent) /\ got # [kind |-> "left"]

LEMMA RootIsMail == RootPart \in Mails
BY DEF RootPart, Mails, Part, Types, Xml

LEMMA ContentIsMail ==
  ASSUME NEW c \in Conts
  PROVE  /\ AsPart(c) \in Mails
         /\ AsPart(c).type = c.type /\ AsPart(c).cid = c.cid /\ AsPart(c).body = c.body
         /\ AsPart(c).type = "pidf" => AsPart(c).xml = "presence"
         /\ AsPart(c).type # "rlmi"
BY DEF AsPart, Conts, Mails, Part, Types, Xml

LEMMA RemoteIsMail ==
  ASSUME NEW p \in RemoteParts
  PROVE  p \in Mails /\ p # RootPart
<1>1. p.body = 1 /\ RootPart.body = 300
  BY DEF RemoteParts, RootPart
<1>2. p \in Part
  BY DEF RemoteParts, Part, Types, Xml
<1>3. p.type = "pidf" => p.cid # "none"
  BY CidsAssumption DEF RemoteParts
<1>4. QED
  BY <1>1, <1>2, <1>3 DEF Mails

LEMMA ReceivedIs ==
  ASSUME NEW m \in SeqOf(RemoteParts, MaxParts)
  PROVE  m \in Seq(Mails) /\ \A i \in DOMAIN m : m[i] # RootPart
<1>1. PICK n \in 0..MaxParts : m \in [1..n -> RemoteParts]
  BY DEF SeqOf
<1>2. n \in Nat
  BY LengthsAssumption
<1>3. DOMAIN m = 1..n /\ \A i \in 1..n : m[i] \in Mails /\ m[i] # RootPart
  BY <1>1, RemoteIsMail
<1>4. m \in [1..n -> Mails]
  BY <1>1, <1>3
<1>5. QED
  BY <1>2, <1>3, <1>4, TabledSeq

LEMMA WrittenIs ==
  ASSUME NEW cs, cs = contents, cs \in Seq(Conts), NEW m,
         m = IF cs = <<>> THEN <<RootPart>> ELSE DoExternalizeMultiPartL
  PROVE  m \in Seq(Mails) /\ AsWritten(m, cs)
<1> DEFINE b == [i \in DOMAIN cs |-> AsPart(cs[i])]
<1>0. PICK a : a = <<RootPart>>
  OBVIOUS
<1>1. a \in Seq(Mails) /\ Len(a) = 1 /\ a[1] = RootPart
  <2>1. a = Append(<<>>, RootPart) /\ <<>> \in Seq(Mails) /\ Len(<<>>) = 0
    BY <1>0, EmptySeq
  <2>2. QED
    BY <2>1, RootIsMail, AppendProperties
<1>2. Len(cs) \in Nat /\ DOMAIN cs = 1..Len(cs) /\ \A k \in 1..Len(cs) : cs[k] \in Conts
  BY LenProperties, ElementOfSeq
<1>3. b \in [1..Len(cs) -> Mails]
  BY <1>2, ContentIsMail
<1>4. \A k \in 1..Len(cs) : b[k] = AsPart(cs[k])
  BY <1>2
<1>5. CASE cs = <<>>
  <2>1. Len(cs) = 0 /\ m = a
    BY <1>0, <1>5
  <2>2. QED
    BY <1>1, <2>1 DEF AsWritten
<1>6. CASE cs # <<>>
  <2>1. m = a \o b
    BY <1>0, <1>6 DEF DoExternalizeMultiPartL
  <2> HIDE DEF b
  <2>2. b \in Seq(Mails) /\ Len(b) = Len(cs)
    BY <1>2, <1>3, TabledSeq
  <2>3. /\ m \in Seq(Mails) /\ Len(m) = Len(cs) + 1
        /\ \A i \in 1..(Len(cs) + 1) :
             \/ i \in 1..1 /\ m[i] = a[i]
             \/ i - 1 \in 1..Len(cs) /\ m[i] = b[i - 1]
    <3>1. a \in Seq(Mails) /\ b \in Seq(Mails)
      BY <1>1, <2>2
    <3>2. /\ a \o b \in Seq(Mails) /\ Len(a \o b) = Len(a) + Len(b)
          /\ \A i \in 1..Len(a \o b) :
               \/ i \in 1..Len(a) /\ (a \o b)[i] = a[i]
               \/ i - Len(a) \in 1..Len(b) /\ (a \o b)[i] = b[i - Len(a)]
      BY <3>1, ConcatIs
    <3>3. Len(a) = 1 /\ Len(b) = Len(cs) /\ Len(m) = Len(cs) + 1
      BY <1>1, <1>2, <2>1, <2>2, <3>2
    <3>4. ASSUME NEW i \in 1..(Len(cs) + 1)
          PROVE  \/ i \in 1..1 /\ m[i] = a[i]
                 \/ i - 1 \in 1..Len(cs) /\ m[i] = b[i - 1]
      <4>1. i \in 1..Len(a \o b)
        BY <2>1, <3>3
      <4>2. \/ i \in 1..Len(a) /\ (a \o b)[i] = a[i]
            \/ i - Len(a) \in 1..Len(b) /\ (a \o b)[i] = b[i - Len(a)]
        BY <3>2, <4>1
      <4>3. QED
        BY <2>1, <3>3, <4>2
    <3>5. m \in Seq(Mails)
      BY <2>1, <3>2
    <3>6. QED
      BY <3>3, <3>4, <3>5
  <2>4. m[1] = RootPart
    <3>1. 1 \in 1..(Len(cs) + 1) /\ 1 - 1 \notin 1..Len(cs)
      BY <1>2
    <3>2. QED
      BY <1>1, <2>3, <3>1
  <2>5. ASSUME NEW k \in 1..Len(cs) PROVE m[k + 1] = AsPart(cs[k])
    <3>1. k + 1 \in 1..(Len(cs) + 1) /\ k + 1 \notin 1..1 /\ (k + 1) - 1 = k
      BY <1>2
    <3>2. m[k + 1] = b[(k + 1) - 1]
      BY <2>3, <3>1
    <3>3. QED
      BY <1>4, <3>1, <3>2
  <2>6. QED
    BY <2>3, <2>4, <2>5 DEF AsWritten
<1>7. QED
  BY <1>5, <1>6

(* What a message of its own has where.                                    *)
LEMMA OwnParts ==
  ASSUME NEW m \in Seq(Mails), NEW cs \in Seq(Conts), AsWritten(m, cs)
  PROVE  /\ Len(cs) \in Nat /\ DOMAIN m = 1..(Len(cs) + 1)
         /\ \A i \in DOMAIN m :
              \/ i = 1 /\ m[i] = RootPart
              \/ i # 1 /\ i - 1 \in 1..Len(cs) /\ cs[i - 1] \in Conts /\ m[i] = AsPart(cs[i - 1])
         /\ \A i \in DOMAIN m : /\ m[i].type = "pidf" => m[i].xml = "presence"
                                /\ m[i].type # "rlmi"
<1>1. Len(cs) \in Nat /\ DOMAIN m = 1..(Len(cs) + 1)
  BY LenProperties DEF AsWritten
<1>2. ASSUME NEW i \in DOMAIN m, i # 1
      PROVE  i - 1 \in 1..Len(cs) /\ cs[i - 1] \in Conts /\ m[i] = AsPart(cs[i - 1])
  <2>1. i - 1 \in 1..Len(cs) /\ (i - 1) + 1 = i
    BY <1>1, <1>2
  <2>2. m[(i - 1) + 1] = AsPart(cs[i - 1])
    BY <2>1 DEF AsWritten
  <2>3. QED
    BY <2>1, <2>2, ElementOfSeq
<1>3. m[1] = RootPart /\ RootPart.type = "pidf" /\ RootPart.xml = "presence"
  BY DEF AsWritten, RootPart
<1>4. QED
  BY <1>1, <1>2, <1>3, ContentIsMail

LEMMA OwnStays ==
  ASSUME MimeInv, NEW g,
         \/ g = Nothing
         \/ g = [kind |-> "left"] /\ ~Own
         \/ g.kind = "list"
         \/ \E s \in Starts : g = Document(wire, s),
         got' = g, UNCHANGED <<cont, contents, wire, sent>>
  PROVE  MimeInv'
<1>1. Own' = Own
  BY DEF Own
<1>2. GotIs'
  BY DEF GotIs, Document
<1>3. Own => got' # [kind |-> "left"]
  <2>1. Nothing.kind = "nothing" /\ \A s \in Starts : Document(wire, s).kind = "document"
    BY DEF Document, Nothing
  <2>2. [kind |-> "left"].kind = "left"
    OBVIOUS
  <2>3. Own => g.kind \in {"nothing", "list", "document"}
    BY <2>1
  <2>4. QED
    BY <2>2, <2>3
<1>4. QED
  BY <1>1, <1>2, <1>3 DEF MimeInv

LEMMA WritesKept ==
  ASSUME MimeInv, Writes
  PROVE  MimeInv'
<1>1. ASSUME cont' \in Conts, contents' \in Seq(Conts), UNCHANGED <<wire, sent, got>>
      PROVE  MimeInv'
  <2>1. Own' = Own /\ (GotIs' <=> GotIs)
    BY <1>1 DEF Own, GotIs
  <2>2. QED
    BY <1>1, <2>1 DEF MimeInv
<1>2. ASSUME NEW c \in Cids, NEW t \in {"pidf", "other"}, NEW n \in Lengths,
             NewContentL(c, t, n)
      PROVE  MimeInv'
  <2>1. c # "none" /\ n \in Nat
    BY CidsAssumption, LengthsAssumption
  <2>2. Content(t, c, n) \in Conts
    BY <2>1 DEF Content, Conts
  <2>3. QED
    BY <1>1, <1>2, <2>2 DEF NewContentL, MimeInv
<1>3. ASSUME NEW copy \in BOOLEAN, AddDirectContentL(copy) PROVE MimeInv'
  <2>1. cont \in Conts /\ contents \in Seq(Conts)
    BY DEF MimeInv
  <2>2. contents' \in Seq(Conts)
    BY <1>3, <2>1, AppendProperties DEF AddDirectContentL
  <2>3. cont' \in Conts
    BY <1>3, <2>1 DEF AddDirectContentL, Conts, NoBody
  <2>4. QED
    BY <1>1, <1>3, <2>2, <2>3 DEF AddDirectContentL
<1>4. CASE ExternalizeL
  <2>1. PICK cs : cs = contents /\ cs \in Seq(Conts)
    BY DEF MimeInv
  <2>2. /\ wire' = IF cs = <<>> THEN <<RootPart>> ELSE DoExternalizeMultiPartL
        /\ sent' = cs /\ got' = Nothing /\ UNCHANGED <<cont, contents>>
    BY <1>4, <2>1 DEF ExternalizeL
  <2>3. wire' \in Seq(Mails) /\ AsWritten(wire', cs)
    BY <2>1, <2>2, WrittenIs
  <2>4. GotIs' /\ got' # [kind |-> "left"]
    BY <2>2 DEF GotIs, Nothing
  <2>5. QED
    BY <2>1, <2>2, <2>3, <2>4 DEF MimeInv
<1>5. QED
  BY <1>2, <1>3, <1>4 DEF Writes

LEMMA ReadsKept ==
  ASSUME MimeInv, Reads
  PROVE  MimeInv'
<1>1. ASSUME NEW m \in SeqOf(RemoteParts, MaxParts), Receive(m) PROVE MimeInv'
  <2>1. /\ wire' = m /\ sent' = <<>> /\ got' = Nothing /\ UNCHANGED <<cont, contents>>
    BY <1>1 DEF Receive
  <2>2. m \in Seq(Mails) /\ ~Own'
    BY <2>1, ReceivedIs DEF Own
  <2>3. GotIs' /\ sent' \in Seq(Conts)
    BY <2>1, EmptySeq DEF GotIs
  <2>4. QED
    BY <2>1, <2>2, <2>3 DEF MimeInv
<1>2. ASSUME Own
      PROVE  \A i \in DOMAIN wire : /\ wire[i].type = "pidf" => wire[i].xml = "presence"
                                    /\ wire[i].type # "rlmi"
  BY <1>2, OwnParts DEF MimeInv
<1>3. ASSUME NEW s \in Starts, NewInMultiPartL(s) PROVE MimeInv'
  <2>1. PICK g : /\ g = IF \A i \in Taken(wire, s) : ValidateXmlL("document", wire[i].xml)
                        THEN Document(wire, s) ELSE [kind |-> "left"]
                 /\ got' = g /\ UNCHANGED <<cont, contents, wire, sent>>
    BY <1>3 DEF NewInMultiPartL
  <2>2. ASSUME Own, NEW i \in Taken(wire, s) PROVE ValidateXmlL("document", wire[i].xml)
    <3>1. i \in DOMAIN wire /\ wire[i].type = "pidf"
      BY DEF Taken
    <3>2. QED
      BY <1>2, <2>2, <3>1 DEF ValidateXmlL, RootName
  <2>3. QED
    BY <2>1, <2>2, OwnStays
<1>4. ASSUME NEW s \in Starts, NewPresenceListL(s) PROVE MimeInv'
  <2> DEFINE good == /\ \A i \in DOMAIN wire :
                          wire[i].type = "pidf" => ValidateXmlL("document", wire[i].xml)
                     /\ \A i \in MetaOf(wire, s) : ValidateXmlL("meta", wire[i].xml)
  <2>1. /\ \/ got'.kind = "list"
           \/ got' = [kind |-> "left"] /\ ~good
        /\ UNCHANGED <<cont, contents, wire, sent>>
    BY <1>4 DEF NewPresenceListL
  <2>2. Own => good
    BY <1>2 DEF MetaOf, ValidateXmlL, RootName
  <2>3. QED
    BY <2>1, <2>2, OwnStays
<1>5. QED
  BY <1>1, <1>3, <1>4 DEF Reads

LEMMA MimeKept ==
  ASSUME MimeInv, [Next]_vars
  PROVE  MimeInv'
<1>1. CASE UNCHANGED mimeVars
  <2>1. Own' = Own /\ (GotIs' <=> GotIs)
    BY <1>1 DEF mimeVars, Own, GotIs
  <2>2. QED
    BY <1>1, <2>1 DEF mimeVars, MimeInv
<1>2. QED
  BY <1>1, WritesKept, ReadsKept
     DEF Next, Runs, Engines, ListSteps, RuleSteps, MimeSteps, TreeSteps, vars

(* The pieces that are counted are those that are written.                 *)
LEMMA RoomIsThere ==
  ASSUME MimeInv
  PROVE  RoomSuffices
<1>1. SUFFICES ASSUME Own
               PROVE  /\ Written(wire) <= Reserved(wire)
                      /\ \A i \in 2..Len(wire) : Encoded(wire[i].body) <= Base64(wire[i].body)
  BY DEF RoomSuffices
<1>2. wire \in Seq(Mails) /\ sent \in Seq(Conts) /\ AsWritten(wire, sent)
  BY <1>1 DEF MimeInv
<1>3. Len(wire) \in Nat /\ DOMAIN wire = 1..Len(wire)
  BY <1>2, LenProperties
<1>4. \A i \in 1..Len(wire) : wire[i].body \in Nat
  <2>1. \A i \in 1..Len(wire) : wire[i] \in Mails
    BY <1>2, ElementOfSeq
  <2>2. QED
    BY <2>1 DEF Mails, Part
<1>5. ASSUME NEW i \in 1..Len(wire)
      PROVE  BodyOf(wire, i) \in Int /\ EndOf(wire, i) \in Int /\ Headers(i) \in Int
  <2>1. BodyOf(wire, i) \in Int
    BY <1>4, Base64Fits DEF BodyOf
  <2>2. QED
    BY <2>1 DEF EndOf, Headers, RootHeaders, IdLength
<1> DEFINE counted == [i \in DOMAIN wire |->
                         Boundary + 2 + Headers(i) - 2 + 2 + BodyOf(wire, i) + EndOf(wire, i)]
           put == [i \in DOMAIN wire |->
                         Boundary + Headers(i) - 2 + 4 + BodyOf(wire, i) + EndOf(wire, i)]
<1>6. put = counted /\ put \in [1..Len(wire) -> Int]
  <2>1. Boundary \in Int
    BY DEF Boundary
  <2>2. ASSUME NEW i \in DOMAIN wire
        PROVE  put[i] = counted[i] /\ put[i] \in Int
    BY <1>3, <1>5, <2>1
  <2>3. QED
    BY <1>3, <2>2
<1>7. Written(wire) = Boundary + Total(put) /\ Reserved(wire) = Boundary + 2 + Total(counted)
  BY DEF Written, Reserved
<1> HIDE DEF put, counted
<1>8. Total(put) \in Int /\ Total(counted) = Total(put)
  <2>1. put \in Seq(Int)
    BY <1>3, <1>6, TabledSeq
  <2>2. QED
    BY <1>6, <2>1, TotalIsInt
<1>9. Written(wire) <= Reserved(wire)
  BY <1>7, <1>8 DEF Boundary
<1>10. ASSUME NEW i \in 2..Len(wire)
       PROVE  Encoded(wire[i].body) <= Base64(wire[i].body)
  <2>1. i \in 1..Len(wire)
    BY <1>3
  <2>2. QED
    BY <1>4, <2>1, Base64Fits
<1>11. QED
  BY <1>9, <1>10

LEMMA NthIs ==
  ASSUME NEW n \in Nat, NEW k \in 1..n
  PROVE  Nth(2..(n + 1), k) = k + 1
<1> DEFINE S == 2..(n + 1)
           Upto(i) == {j \in S : j <= i}
<1>1. ASSUME NEW i \in S PROVE Cardinality(Upto(i)) = i - 1
  <2>1. Upto(i) = 2..i /\ i \in Int /\ i >= 2
    OBVIOUS
  <2> HIDE DEF Upto
  <2>2. Cardinality(Upto(i)) = i - 2 + 1
    BY <2>1, FS_Interval
  <2>3. QED
    BY <2>1, <2>2
<1>2. k + 1 \in S /\ Cardinality(Upto(k + 1)) = k
  <2>1. k + 1 \in S /\ (k + 1) - 1 = k
    OBVIOUS
  <2>2. QED
    BY <1>1, <2>1
<1>3. Nth(S, k) = CHOOSE i \in S : Cardinality(Upto(i)) = k
  BY DEF Nth
<1> HIDE DEF Upto, S
<1>4. Nth(S, k) \in S /\ Cardinality(Upto(Nth(S, k))) = k
  BY <1>2, <1>3
<1>5. Nth(S, k) - 1 = k
  BY <1>1, <1>4
<1>6. Nth(S, k) \in Int /\ k \in Int
  BY <1>4 DEF S
<1>7. QED
  BY <1>5, <1>6 DEF S

(* A message that was written is read as what it was written from.         *)
LEMMA ReadBack ==
  ASSUME NEW m \in Seq(Mails), NEW cs \in Seq(Conts), AsWritten(m, cs), "root" \notin Cids,
         NEW s \in {"none", "root"}
  PROVE  /\ m[Document(m, s).root] = RootPart
         /\ Document(m, s).contents = cs
<1> DEFINE n == Len(cs)
           pidf == {i \in DOMAIN m : m[i].type = "pidf"}
           taken == Taken(m, s)
           rest == {i \in DOMAIN m : i \notin taken}
<1>1. /\ n \in Nat /\ DOMAIN m = 1..(n + 1)
      /\ \A i \in DOMAIN m :
           \/ i = 1 /\ m[i] = RootPart
           \/ i # 1 /\ i - 1 \in 1..n /\ cs[i - 1] \in Conts /\ m[i] = AsPart(cs[i - 1])
  BY OwnParts
<1>2. m[1] = RootPart /\ RootPart.type = "pidf"
  BY DEF AsWritten, RootPart
<1>3. 1 \in pidf /\ pidf \in SUBSET (1..(n + 1))
  BY <1>1, <1>2
<1>4. Min(pidf) = 1
  <2>1. n + 1 \in Nat /\ pidf # {}
    BY <1>1, <1>3
  <2> HIDE DEF pidf, n
  <2>2. Min(pidf) \in pidf /\ Min(pidf) <= 1
    BY <1>3, <2>1, FirstAndLast
  <2>3. Min(pidf) \in 1..(n + 1)
    BY <1>3, <2>2
  <2>4. QED
    BY <2>1, <2>2, <2>3
<1>5. taken = {1}
  <2>1. taken = {i \in pidf : (s # "none" /\ m[i].cid = s) \/ i = 1}
    BY <1>4 DEF Taken
  <2>2. ASSUME NEW i \in pidf, s # "none", m[i].cid = s PROVE i = 1
    <3>1. SUFFICES ASSUME i # 1 PROVE FALSE
      OBVIOUS
    <3>2. i \in DOMAIN m /\ cs[i - 1] \in Conts /\ m[i] = AsPart(cs[i - 1])
      BY <1>1, <3>1
    <3>3. m[i].cid = cs[i - 1].cid
      BY <3>2, ContentIsMail
    <3>4. cs[i - 1].cid \in Cids \cup {"none"}
      BY <3>2 DEF Conts
    <3>5. QED
      BY <2>2, <3>3, <3>4
  <2>3. QED
    BY <1>3, <2>1, <2>2
<1>6. Max(taken) = 1 /\ taken # {}
  <2>1. {1} \in SUBSET (1..1) /\ 1 \in Nat /\ {1} # {}
    OBVIOUS
  <2>2. Max({1}) \in {1}
    BY <2>1, FirstAndLast
  <2>3. QED
    BY <1>5, <2>2
<1>7. rest = 2..(n + 1)
  BY <1>1, <1>5
<1>8. Cardinality(rest) = n
  <2>1. Cardinality(2..(n + 1)) = n
    <3>1. 2 \in Int /\ n + 1 \in Int
      BY <1>1
    <3>2. Cardinality(2..(n + 1)) = IF 2 > n + 1 THEN 0 ELSE (n + 1) - 2 + 1
      BY <3>1, FS_Interval
    <3>3. QED
      BY <1>1, <3>2
  <2>2. QED
    BY <1>7, <2>1
<1>9. Document(m, s).root = 1
  BY <1>6 DEF Document
<1>10. Document(m, s).contents = [k \in 1..n |->
          Content(m[Nth(rest, k)].type, m[Nth(rest, k)].cid, m[Nth(rest, k)].body)]
  BY <1>8 DEF Document
<1>11. ASSUME NEW k \in 1..n
       PROVE  Content(m[Nth(rest, k)].type, m[Nth(rest, k)].cid, m[Nth(rest, k)].body) = cs[k]
  <2>1. Nth(rest, k) = k + 1
    BY <1>1, <1>7, NthIs
  <2>2. m[k + 1] = AsPart(cs[k]) /\ cs[k] \in Conts
    BY ElementOfSeq DEF AsWritten
  <2>3. Content(cs[k].type, cs[k].cid, cs[k].body) = cs[k]
    BY <2>2 DEF Content, Conts
  <2>4. QED
    BY <2>1, <2>2, <2>3, ContentIsMail
<1>12. cs = [k \in 1..n |-> cs[k]]
  BY LenProperties
<1>13. QED
  BY <1>2, <1>9, <1>10, <1>11, <1>12

LEMMA MessagesAreSound ==
  ASSUME MimeInv, "root" \notin Cids
  PROVE  MessagesSound
<1>1. MimeTypeOK
  <2>1. Conts \subseteq [type : Types, cid : Cids \cup {"none"}, body : Nat]
    BY DEF Conts, Types
  <2>2. contents \in Seq([type : Types, cid : Cids \cup {"none"}, body : Nat])
    BY <2>1, SeqMonotonic DEF MimeInv
  <2>3. wire \in Seq(Part)
    <3>1. Mails \subseteq Part /\ wire \in Seq(Mails)
      BY DEF Mails, MimeInv
    <3>2. QED
      BY <3>1, SeqMonotonic
  <2>4. \A s \in Starts : Document(wire, s).kind = "document"
    BY DEF Document
  <2>5. got.kind \in {"nothing", "left", "document", "list"}
    BY <2>4 DEF MimeInv, GotIs, Nothing
  <2>6. QED
    BY <2>1, <2>2, <2>3, <2>5 DEF MimeTypeOK, MimeInv
<1>2. RoundTrip
  <2>1. SUFFICES ASSUME Own, got # Nothing, got.kind # "list",
                        got.kind = "document" => got.start \in {"none", "root"}
                 PROVE  /\ got.kind = "document" /\ wire[got.root] = RootPart
                        /\ got.contents = sent
    BY DEF RoundTrip
  <2>2. PICK s \in Starts : got = Document(wire, s)
    BY <2>1 DEF MimeInv, GotIs
  <2>3. got.kind = "document" /\ got.start = s
    BY <2>2 DEF Document
  <2>4. wire \in Seq(Mails) /\ sent \in Seq(Conts) /\ AsWritten(wire, sent)
    BY <2>1 DEF MimeInv
  <2>5. QED
    BY <2>1, <2>2, <2>3, <2>4, ReadBack
<1>3. StartNamesRoot
  <2>1. SUFFICES ASSUME got.kind = "document",
                        NEW i \in DOMAIN wire, wire[i].type = "pidf", wire[i].cid = got.start
                 PROVE  wire[got.root].cid = got.start
    BY DEF StartNamesRoot
  <2>2. got # Nothing /\ got # [kind |-> "left"] /\ got.kind # "list"
    BY <2>1 DEF Nothing
  <2>3. PICK s \in Starts : got = Document(wire, s)
    BY <2>2 DEF MimeInv, GotIs
  <2> DEFINE taken == Taken(wire, s)
             pidf == {j \in DOMAIN wire : wire[j].type = "pidf"}
  <2>4. got.start = s /\ got.root = IF taken = {} THEN 0 ELSE Max(taken)
    BY <2>3 DEF Document
  <2>5. wire \in Seq(Mails) /\ Len(wire) \in Nat /\ DOMAIN wire = 1..Len(wire)
    BY LenProperties DEF MimeInv
  <2>6. wire[i].cid # "none"
    <3>1. wire[i] \in Mails
      BY <2>5, ElementOfSeq
    <3>2. QED
      BY <2>1, <3>1 DEF Mails
  <2>7. taken = {j \in pidf : (s # "none" /\ wire[j].cid = s) \/ j = Min(pidf)}
    BY DEF Taken
  <2>8. i \in taken /\ i \in pidf
    BY <2>1, <2>4, <2>6, <2>7
  <2>9. pidf \in SUBSET (1..Len(wire)) /\ taken \in SUBSET (1..Len(wire))
    BY <2>5, <2>7
  <2> HIDE DEF pidf, taken
  <2>10. Min(pidf) <= i /\ Max(taken) \in taken /\ Max(taken) >= i
    BY <2>5, <2>8, <2>9, FirstAndLast
  <2>11. got.root = Max(taken)
    BY <2>4, <2>8
  <2>12. CASE wire[Max(taken)].cid = s
    BY <2>4, <2>11, <2>12
  <2>13. CASE Max(taken) = Min(pidf)
    <3>1. Max(taken) = i
      BY <2>8, <2>9, <2>10, <2>13
    <3>2. QED
      BY <2>1, <2>11, <3>1
  <2>14. QED
    BY <2>7, <2>10, <2>12, <2>13
<1>4. QED
  BY <1>1, <1>2, <1>3, RoomIsThere DEF MessagesSound

(* Unless an application gives a content the id that CSimpleDocument gives *)
(* the root: the room reserved suffices for contents of any number, length *)
(* and type, and a message that was written is read as what it was written *)
(* from; and whatever a message is, the part that is named is the root.    *)
THEOREM MessagesAlwaysSound ==
  ASSUME "root" \notin Cids
  PROVE  Spec => []MessagesSound
<1>1. Init => MimeInv
  <2>1. SUFFICES ASSUME MimeInit PROVE MimeInv
    BY DEF Init
  <2>2. cont \in Conts
    BY <2>1 DEF MimeInit, Content, NoBody, Conts
  <2>3. ~Own /\ GotIs
    BY <2>1 DEF MimeInit, Own, GotIs, NoWire
  <2>4. QED
    BY <2>1, <2>2, <2>3, EmptySeq DEF MimeInit, MimeInv, NoWire
<1>2. MimeInv /\ [Next]_vars => MimeInv'
  BY MimeKept
<1>3. MimeInv => MessagesSound
  BY MessagesAreSound
<1>4. QED
  BY <1>1, <1>2, <1>3, PTL DEF Spec
=============================================================================
