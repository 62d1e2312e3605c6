-------------------------- MODULE SchemaTreeProofs --------------------------
(***************************************************************************)
(* Proofs about SchemaTree: for all modules and all schemas of any size.   *)
(***************************************************************************)
EXTENDS SchemaTree, SequenceTheorems, FiniteSetTheorems, WellFoundedInduction, TLAPS

(* Induction: a set of natural numbers with an element has a least one. *)
LEMMA LeastNatural ==
    ASSUME NEW S \in SUBSET Nat, S # {}
    PROVE  \E m \in S : \A k \in S : m <= k
<1>1. PICK m \in S : \A k \in S : ~ (<<k, m>> \in OpToRel(<, Nat))
    BY NatLessThanWellFounded, WFMin
<1>2. \A k \in S : ~ (k < m)
    BY <1>1 DEF OpToRel
<1>. QED  BY <1>2

-----------------------------------------------------------------------------
(* Recursive functions.  What a function is at x may depend on what it is  *)
(* where size is less; F[x, g] is the value at x if g is the function.     *)

IsRecursion(S, V, size, H, F) ==
    /\ V # {} /\ size \in [S -> Nat] /\ H \in Nat /\ \A x \in S : size[x] <= H
    /\ F \in [S \X [S -> V] -> V]
    /\ \A x \in S : \A g, h \in [S -> V] :
          (\A y \in S : size[y] < size[x] => g[y] = h[y]) => F[<<x, g>>] = F[<<x, h>>]

(* There is a function that is what the recursion says. *)
LEMMA Recursion ==
    ASSUME NEW S, NEW V, NEW size, NEW H, NEW F, IsRecursion(S, V, size, H, F)
    PROVE  \E g \in [S -> V] : \A x \in S : g[x] = F[<<x, g>>]
<1>. USE DEF IsRecursion
<1>. PICK v0 \in V : TRUE
    OBVIOUS
<1>. DEFINE Good(k) == \E g \in [S -> V] : \A x \in S : size[x] < k => g[x] = F[<<x, g>>]
            Bad == {k \in Nat : ~ Good(k)}
<1>1. Good(0)
  <2>1. [x \in S |-> v0] \in [S -> V]
      OBVIOUS
  <2>2. \A x \in S : ~ (size[x] < 0)
      OBVIOUS
  <2>. QED  BY <2>1, <2>2
<1>2. ASSUME NEW k \in Nat, Good(k)
      PROVE  Good(k + 1)
  <2>1. PICK g \in [S -> V] : \A x \in S : size[x] < k => g[x] = F[<<x, g>>]
      BY <1>2
  <2>. DEFINE h == [x \in S |-> IF size[x] < k THEN g[x] ELSE F[<<x, g>>]]
  <2>2. h \in [S -> V]
      OBVIOUS
  <2>3. \A x \in S : h[x] = F[<<x, g>>]
      BY <2>1
  <2>4. \A y \in S : size[y] < k => g[y] = h[y]
      OBVIOUS
  <2>. HIDE DEF h
  <2>5. ASSUME NEW x \in S, size[x] < k + 1
        PROVE  h[x] = F[<<x, h>>]
    <3>1. \A y \in S : size[y] < size[x] => g[y] = h[y]
        BY <2>4, <2>5
    <3>. QED  BY <3>1, <2>2, <2>3
  <2>. QED  BY <2>2, <2>5
<1>3. Bad = {}
  <2>1. SUFFICES ASSUME Bad # {} PROVE FALSE
      OBVIOUS
  <2>2. PICK k \in Bad : \A j \in Bad : k <= j
      BY <2>1, LeastNatural, Bad \in SUBSET Nat
  <2>. HIDE DEF Good, IsRecursion
  <2>3. k # 0
      BY <1>1, <2>2
  <2>4. k - 1 \in Nat /\ Good(k - 1)
      BY <2>2, <2>3
  <2>. QED  BY <2>4, <1>2
<1>4. H + 1 \in Nat /\ \A x \in S : size[x] < H + 1
    OBVIOUS
<1>5. Good(H + 1)
  <2>. HIDE DEF Good
  <2>. QED  BY <1>3, <1>4
<1>. QED  BY <1>4, <1>5

(* And only one: two functions that are the same at x if they are where    *)
(* size is less are the same everywhere.                                   *)
Alike(S, size, f, g) ==
    /\ size \in [S -> Nat]
    /\ \A x \in S : (\A y \in S : size[y] < size[x] => f[y] = g[y]) => f[x] = g[x]

(* Functions alike where they recur are the same function. *)
LEMMA SameByRecursion ==
    ASSUME NEW S, NEW size, NEW f, NEW g, Alike(S, size, f, g)
    PROVE  \A x \in S : f[x] = g[x]
<1>. USE DEF Alike
<1>. DEFINE Bad == {k \in Nat : \E x \in S : size[x] = k /\ f[x] # g[x]}
<1>1. SUFFICES ASSUME Bad # {} PROVE FALSE
    OBVIOUS
<1>2. PICK k \in Bad : \A j \in Bad : k <= j
    BY <1>1, LeastNatural, Bad \in SUBSET Nat
<1>3. PICK x \in S : size[x] = k /\ f[x] # g[x]
    BY <1>2
<1>4. \A y \in S : size[y] < size[x] => f[y] = g[y]
  <2>1. \A y \in S : f[y] # g[y] => size[y] \in Bad
      OBVIOUS
  <2>. HIDE DEF Bad
  <2>. QED  BY <1>2, <1>3, <2>1
<1>. QED  BY <1>3, <1>4

-----------------------------------------------------------------------------
(* Sequences and the tree *)

(* A sequence that is not empty is its front and its last element. *)
LEMMA FrontLast ==
    ASSUME NEW S, NEW n \in Seq(S), n # <<>>
    PROVE  /\ Len(n) \in Nat /\ Len(n) >= 1
           /\ Front(n) \in Seq(S) /\ Len(Front(n)) = Len(n) - 1
           /\ Last(n) \in S
           /\ n = Append(Front(n), Last(n))
           /\ \A k \in 0..Len(n) - 1 : SubSeq(Front(n), 1, k) = SubSeq(n, 1, k)
<1>1. Len(n) \in Nat /\ Len(n) >= 1
    BY EmptySeq
<1>2. Front(n) \in Seq(S) /\ Len(Front(n)) = Len(n) - 1 /\ \A i \in 1..Len(n) - 1 : Front(n)[i] = n[i]
  <2>1. \A i \in 1..Len(n) - 1 : n[i] \in S
      BY <1>1, ElementOfSeq
  <2>2. Front(n) \in Seq(S)
      BY <1>1, <2>1, SubSeqProperties DEF Front
  <2>3. Len(SubSeq(n, 1, Len(n) - 1)) = Len(n) - 1 /\ \A i \in 1..Len(n) - 1 : SubSeq(n, 1, Len(n) - 1)[i] = n[i]
      BY <1>1
  <2>. QED  BY <2>2, <2>3 DEF Front
<1>3. Last(n) \in S
    BY <1>1, ElementOfSeq DEF Last
<1>4. n = Append(Front(n), Last(n))
    BY <1>1, <1>2, <1>3 DEF Last
<1>5. ASSUME NEW k \in 0..Len(n) - 1
      PROVE  SubSeq(Front(n), 1, k) = SubSeq(n, 1, k)
    BY <1>1, <1>2
<1>. QED  BY <1>1, <1>2, <1>3, <1>4, <1>5

(* The front and the last of what is appended to. *)
LEMMA FrontLastOfAppend ==
    ASSUME NEW S, NEW s \in Seq(S), NEW e \in S
    PROVE  Front(Append(s, e)) = s /\ Last(Append(s, e)) = e
BY DEF Front, Last

(* What the schemas are assumed to be, of the one at hand. *)
LEMMA TreeFacts ==
    ASSUME tree \in Trees
    PROVE  /\ \A m \in Modules : <<m>> \in Nodes /\ ~ Transparent(<<m>>)
           /\ ~ Transparent(<<>>) /\ <<>> \notin Nodes
           /\ \A n \in Nodes :
                 /\ n \in Seq(Idents) /\ n # <<>> /\ Len(n) \in 1..MaxDepth
                 /\ ~ (Len(n) > 1) => n[1] \in Modules /\ n = <<n[1]>> /\ ~ Transparent(n)
                 /\ Len(n) > 1 => Parent(n) \in Nodes /\ ~ (Kind(Parent(n)) \in {"leaf", "leaflist"})
                 /\ Kind(n) = "case" <=> Len(n) > 1 /\ Kind(Parent(n)) = "choice"
                 /\ Parent(n) \in Nodes \union {<<>>}
<1>1. IsSchema(tree)
    BY SchemaAssumption
<1>2. \A n \in Nodes :
         /\ n \in Seq(Idents) /\ Len(n) \in 1..MaxDepth
         /\ ~ (Len(n) > 1) => n[1] \in Modules /\ Kind(n) = "module"
         /\ Len(n) > 1 => Parent(n) \in Nodes /\ Kind(Parent(n)) \notin {"leaf", "leaflist"}
         /\ Kind(n) = "case" <=> Len(n) > 1 /\ Kind(Parent(n)) = "choice"
    BY <1>1 DEF IsSchema, Nodes, Kind, Parent
<1>3. \A m \in Modules : <<m>> \in Nodes
    BY <1>1 DEF IsSchema, Nodes
<1>4. <<>> \notin Nodes /\ ~ Transparent(<<>>)
    BY <1>2, SchemaAssumption DEF Transparent
<1>5. ASSUME NEW n \in Nodes
      PROVE  /\ n # <<>>
             /\ ~ (Len(n) > 1) => n = <<n[1]>> /\ ~ Transparent(n)
             /\ Parent(n) \in Nodes \union {<<>>}
  <2>1. n \in Seq(Idents) /\ n # <<>>
      BY <1>2, <1>4
  <2>3. ~ (Len(n) > 1) => ~ Transparent(n)
      BY <1>2 DEF Transparent
  <2>4. ~ (Len(n) > 1) => Parent(n) = <<>>
    <3>1. Front(n) \in Seq(Idents) /\ Len(Front(n)) = Len(n) - 1 /\ Len(n) \in Nat /\ Len(n) >= 1
        BY <2>1, FrontLast
    <3>. QED  BY <3>1, EmptySeq DEF Parent
  <2>2. ~ (Len(n) > 1) => n = <<n[1]>>
    <3>1. n = Append(Front(n), Last(n))
        BY <2>1, FrontLast
    <3>. QED  BY <2>4, <3>1 DEF Parent
  <2>. QED  BY <1>2, <2>1, <2>2, <2>3, <2>4
<1>6. \A m \in Modules : ~ Transparent(<<m>>)
  <2>1. \A m \in Modules : ~ (Len(<<m>>) > 1)
      OBVIOUS
  <2>. QED  BY <1>3, <1>5, <2>1
<1>. QED  BY <1>2, <1>3, <1>4, <1>5, <1>6

(* A node at the place of another node of the data tree is that node. *)
LEMMA OneNodePerPlace ==
    ASSUME tree \in Trees, NEW a \in DataNodes, NEW b \in DataNodes, NEW k \in Nat, k >= 1,
           k < Len(a), k < Len(b), SubSeq(a, 1, k) = SubSeq(b, 1, k), Name(a) = Name(b),
           \A i \in k + 1 .. Len(a) - 1 : Transparent(SubSeq(a, 1, i)),
           \A i \in k + 1 .. Len(b) - 1 : Transparent(SubSeq(b, 1, i))
    PROVE  a = b
<1>1. IsSchema(tree)
    BY SchemaAssumption
<1>2. a \in Nodes /\ b \in Nodes /\ k \in 1..Len(a)
    BY TreeFacts, SchemaAssumption DEF DataNodes
<1>. QED  BY <1>1, <1>2 DEF IsSchema, DataNodes, Transparent, Kind, Nodes, Name


-----------------------------------------------------------------------------
(* The functions that go up the tree *)

(* Going up makes a node shorter. *)
LEMMA ParentShorter ==
    ASSUME tree \in Trees, NEW n \in Nodes
    PROVE  /\ Len(n) \in Nat /\ Len(Parent(n)) \in Nat /\ Len(Parent(n)) < Len(n)
           /\ Parent(n) \in Seq(Idents) /\ Name(n) \in Idents
           /\ n = Append(Parent(n), Name(n)) /\ Len(n) = Len(Parent(n)) + 1
<1>1. n \in Seq(Idents) /\ n # <<>>
    BY TreeFacts
<1>2. /\ Len(n) \in Nat /\ Len(n) >= 1 /\ Front(n) \in Seq(Idents) /\ Len(Front(n)) = Len(n) - 1
      /\ Last(n) \in Idents /\ n = Append(Front(n), Last(n))
    BY <1>1, FrontLast
<1>3. Len(Front(n)) \in Nat /\ Len(Front(n)) < Len(n) /\ Len(n) = Len(Front(n)) + 1
    BY <1>1, <1>2
<1>. QED  BY <1>2, <1>3 DEF Parent, Name

(* DataNames is what its recursion says, and gives sequences of names. *)
LEMMA DataNamesDef ==
    ASSUME tree \in Trees
    PROVE  /\ DataNames \in [Nodes \union {<<>>} -> Seq(Idents)]
           /\ DataNames[<<>>] = <<>>
           /\ \A n \in Nodes :
                 DataNames[n] = IF Transparent(n) THEN DataNames[Parent(n)]
                                ELSE Append(DataNames[Parent(n)], Name(n))
<1>. DEFINE S == Nodes \union {<<>>}
            V == Seq(Idents)
            size == [x \in S |-> Len(x)]
            F == [w \in S \X [S -> V] |->
                     IF w[1] = <<>> THEN <<>>
                     ELSE IF Transparent(w[1]) THEN w[2][Parent(w[1])]
                     ELSE Append(w[2][Parent(w[1])], Name(w[1]))]
<1>1. size \in [S -> Nat] /\ MaxDepth \in Nat /\ \A x \in S : size[x] <= MaxDepth
  <2>1. \A x \in Nodes : Len(x) \in Nat /\ Len(x) <= MaxDepth
      BY TreeFacts, SchemaAssumption
  <2>2. Len(<<>>) = 0
      OBVIOUS
  <2>. QED  BY <2>1, <2>2, SchemaAssumption
<1>2. \A x \in S : x # <<>> => x \in Nodes /\ Parent(x) \in S /\ Name(x) \in Idents /\ size[Parent(x)] < size[x]
    BY TreeFacts, ParentShorter
<1>3. <<>> \in V
    BY EmptySeq
<1>4. F \in [S \X [S -> V] -> V]
  <2>1. ASSUME NEW x \in S, NEW g \in [S -> V], x # <<>>
        PROVE  g[Parent(x)] \in V /\ Append(g[Parent(x)], Name(x)) \in V
      BY <1>2, <2>1, AppendProperties
  <2>. QED  BY <1>3, <2>1
<1>5. \A x \in S : \A g, h \in [S -> V] :
         (\A y \in S : size[y] < size[x] => g[y] = h[y]) => F[<<x, g>>] = F[<<x, h>>]
    BY <1>2
<1>9. IsRecursion(S, V, size, MaxDepth, F)
  <2>. HIDE DEF size, F, S, V
  <2>. QED  BY <1>1, <1>3, <1>4, <1>5 DEF IsRecursion
<1>. HIDE DEF size, F, S, V
<1>6. PICK g \in [S -> V] : \A x \in S : g[x] = F[<<x, g>>]
    BY <1>9, Recursion
<1>7. \A n \in S : g[n] = IF n = <<>> THEN <<>>
                              ELSE IF Transparent(n) THEN g[Parent(n)]
                              ELSE Append(g[Parent(n)], Name(n))
    BY <1>6 DEF F
<1>8. g = [n \in S |-> IF n = <<>> THEN <<>>
                        ELSE IF Transparent(n) THEN g[Parent(n)]
                        ELSE Append(g[Parent(n)], Name(n))]
    BY <1>6, <1>7
<1>10. DataNames = [n \in S |-> IF n = <<>> THEN <<>>
                                 ELSE IF Transparent(n) THEN DataNames[Parent(n)]
                                 ELSE Append(DataNames[Parent(n)], Name(n))]
    BY <1>8 DEF DataNames, S
<1>11. \A x \in S : DataNames[x] = g[x]
  <2>1. \A x \in S : (\A y \in S : size[y] < size[x] => DataNames[y] = g[y]) => DataNames[x] = g[x]
      BY <1>2, <1>7, <1>10
  <2>2. Alike(S, size, DataNames, g)
      BY <1>1, <2>1 DEF Alike
  <2>. QED  BY <2>2, SameByRecursion
<1>12. DataNames \in [S -> V]
  <2>1. \A x \in S : DataNames[x] \in V
      BY <1>6, <1>11
  <2>. QED  BY <1>10, <2>1
<1>13. <<>> \in S /\ \A n \in Nodes : n \in S /\ n # <<>>
    BY TreeFacts DEF S
<1>14. DataNames[<<>>] = <<>>
    BY <1>10, <1>13
<1>15. \A n \in Nodes :
         DataNames[n] = IF Transparent(n) THEN DataNames[Parent(n)]
                        ELSE Append(DataNames[Parent(n)], Name(n))
    BY <1>10, <1>13
<1>. QED  BY <1>12, <1>14, <1>15 DEF S, V

(* DataParent is what its recursion says, and gives a node or nothing. *)
LEMMA DataParentDef ==
    ASSUME tree \in Trees
    PROVE  /\ DataParent \in [Nodes -> Nodes \union {<<>>}]
           /\ \A n \in Nodes :
                 DataParent[n] = IF Transparent(Parent(n)) THEN DataParent[Parent(n)] ELSE Parent(n)
<1>. DEFINE V == Nodes \union {<<>>}
            size == [x \in Nodes |-> Len(x)]
            F == [w \in Nodes \X [Nodes -> V] |->
                     IF Transparent(Parent(w[1])) THEN w[2][Parent(w[1])] ELSE Parent(w[1])]
<1>1. size \in [Nodes -> Nat] /\ MaxDepth \in Nat /\ \A x \in Nodes : size[x] <= MaxDepth
    BY TreeFacts, SchemaAssumption
<1>2. \A x \in Nodes :
         /\ Parent(x) \in V
         /\ Transparent(Parent(x)) => Parent(x) \in Nodes /\ size[Parent(x)] < size[x]
    BY TreeFacts, ParentShorter DEF Transparent
<1>3. V # {}
    OBVIOUS
<1>4. F \in [Nodes \X [Nodes -> V] -> V]
  <2>1. ASSUME NEW x \in Nodes, NEW g \in [Nodes -> V]
        PROVE  Parent(x) \in V /\ (Transparent(Parent(x)) => g[Parent(x)] \in V)
      BY <1>2
  <2>. QED  BY <2>1
<1>5. \A x \in Nodes : \A g, h \in [Nodes -> V] :
         (\A y \in Nodes : size[y] < size[x] => g[y] = h[y]) => F[<<x, g>>] = F[<<x, h>>]
    BY <1>2
<1>6. IsRecursion(Nodes, V, size, MaxDepth, F)
  <2>. HIDE DEF size, F, V
  <2>. QED  BY <1>1, <1>3, <1>4, <1>5 DEF IsRecursion
<1>. HIDE DEF size, F, V
<1>7. PICK g \in [Nodes -> V] : \A x \in Nodes : g[x] = F[<<x, g>>]
    BY <1>6, Recursion
<1>8. \A n \in Nodes : g[n] = IF Transparent(Parent(n)) THEN g[Parent(n)] ELSE Parent(n)
    BY <1>7 DEF F
<1>9. g = [n \in Nodes |-> IF Transparent(Parent(n)) THEN g[Parent(n)] ELSE Parent(n)]
    BY <1>7, <1>8
<1>10. DataParent = [n \in Nodes |-> IF Transparent(Parent(n)) THEN DataParent[Parent(n)] ELSE Parent(n)]
    BY <1>9 DEF DataParent
<1>11. \A x \in Nodes : DataParent[x] = g[x]
  <2>1. \A x \in Nodes : (\A y \in Nodes : size[y] < size[x] => DataParent[y] = g[y]) => DataParent[x] = g[x]
      BY <1>2, <1>8, <1>10
  <2>2. Alike(Nodes, size, DataParent, g)
      BY <1>1, <2>1 DEF Alike
  <2>. QED  BY <2>2, SameByRecursion
<1>12. DataParent \in [Nodes -> V]
  <2>1. \A x \in Nodes : DataParent[x] \in V
      BY <1>7, <1>11
  <2>. QED  BY <1>10, <2>1
<1>13. \A n \in Nodes :
          DataParent[n] = IF Transparent(Parent(n)) THEN DataParent[Parent(n)] ELSE Parent(n)
    BY <1>10
<1>. QED  BY <1>12, <1>13 DEF V

(* OutOfChoice is what its recursion says. *)
LEMMA OutOfChoiceDef ==
    ASSUME tree \in Trees
    PROVE  \A n \in Nodes \union {<<>>} :
              /\ OutOfChoice[n] \in Nodes \union {<<>>}
              /\ OutOfChoice[n] = IF Transparent(n) THEN OutOfChoice[Parent(Parent(n))] ELSE n
<1>. DEFINE S == Nodes \union {<<>>}
            size == [x \in S |-> Len(x)]
            F == [w \in S \X [S -> S] |->
                     IF Transparent(w[1]) THEN w[2][Parent(Parent(w[1]))] ELSE w[1]]
<1>1. size \in [S -> Nat] /\ MaxDepth \in Nat /\ \A x \in S : size[x] <= MaxDepth
  <2>1. \A x \in Nodes : Len(x) \in Nat /\ Len(x) <= MaxDepth
      BY TreeFacts, SchemaAssumption
  <2>2. Len(<<>>) = 0
      OBVIOUS
  <2>. QED  BY <2>1, <2>2, SchemaAssumption
<1>2. ASSUME NEW x \in S, Transparent(x)
      PROVE  Parent(Parent(x)) \in S /\ size[Parent(Parent(x))] < size[x]
  <2>1. x \in Nodes /\ Parent(x) \in Nodes
      BY <1>2, TreeFacts DEF Transparent
  <2>2. Parent(Parent(x)) \in S
      BY <2>1, TreeFacts
  <2>3. /\ Len(x) \in Nat /\ Len(Parent(x)) \in Nat /\ Len(Parent(x)) < Len(x)
        /\ Len(Parent(Parent(x))) \in Nat /\ Len(Parent(Parent(x))) < Len(Parent(x))
      BY <2>1, ParentShorter
  <2>4. Len(Parent(Parent(x))) < Len(x)
      BY <2>3
  <2>. QED  BY <2>2, <2>4
<1>3. S # {}
    OBVIOUS
<1>4. F \in [S \X [S -> S] -> S]
  <2>1. ASSUME NEW x \in S, NEW g \in [S -> S], Transparent(x)
        PROVE  g[Parent(Parent(x))] \in S
      BY <1>2, <2>1
  <2>. QED  BY <2>1
<1>5. \A x \in S : \A g, h \in [S -> S] :
         (\A y \in S : size[y] < size[x] => g[y] = h[y]) => F[<<x, g>>] = F[<<x, h>>]
    BY <1>2
<1>6. IsRecursion(S, S, size, MaxDepth, F)
  <2>. HIDE DEF size, F, S
  <2>. QED  BY <1>1, <1>3, <1>4, <1>5 DEF IsRecursion
<1>. HIDE DEF size, F, S
<1>7. PICK g \in [S -> S] : \A x \in S : g[x] = F[<<x, g>>]
    BY <1>6, Recursion
<1>8. \A n \in S : g[n] = IF Transparent(n) THEN g[Parent(Parent(n))] ELSE n
    BY <1>7 DEF F
<1>9. g = [n \in S |-> IF Transparent(n) THEN g[Parent(Parent(n))] ELSE n]
    BY <1>7, <1>8
<1>10. OutOfChoice = [n \in S |-> IF Transparent(n) THEN OutOfChoice[Parent(Parent(n))] ELSE n]
    BY <1>9 DEF OutOfChoice, S
<1>11. \A x \in S : OutOfChoice[x] = g[x]
  <2>1. \A x \in S : (\A y \in S : size[y] < size[x] => OutOfChoice[y] = g[y]) => OutOfChoice[x] = g[x]
      BY <1>2, <1>8, <1>10
  <2>2. Alike(S, size, OutOfChoice, g)
      BY <1>1, <2>1 DEF Alike
  <2>. QED  BY <2>2, SameByRecursion
<1>. QED  BY <1>7, <1>10, <1>11 DEF S


-----------------------------------------------------------------------------
(* Where a node is in the data tree *)

(* Induction: no node is an exception if a shorter one is for every one    *)
(* that is.                                                                *)
LEMMA NodeInduction ==
    ASSUME tree \in Trees, NEW B \in SUBSET Nodes, \A n \in B : \E a \in B : Len(a) < Len(n)
    PROVE  B = {}
<1>. DEFINE L == {Len(n) : n \in B}
<1>1. SUFFICES ASSUME B # {} PROVE FALSE
    OBVIOUS
<1>2. L \in SUBSET Nat /\ L # {}
    BY <1>1, ParentShorter
<1>3. PICK k \in L : \A j \in L : k <= j
    BY <1>2, LeastNatural
<1>4. PICK n \in B : Len(n) = k
    OBVIOUS
<1>5. PICK a \in B : Len(a) < Len(n)
    OBVIOUS
<1>6. Len(a) \in L /\ Len(n) \in Nat /\ Len(a) \in Nat
    BY ParentShorter
<1>7. k <= Len(a)
    BY <1>3, <1>6
<1>. HIDE DEF L
<1>. QED  BY <1>4, <1>5, <1>6, <1>7

(* The beginning of a node is that of its parent. *)
LEMMA BeginOfParent ==
    ASSUME tree \in Trees, NEW n \in Nodes, NEW k \in Nat, k < Len(n)
    PROVE  SubSeq(Parent(n), 1, k) = SubSeq(n, 1, k)
<1>1. n \in Seq(Idents) /\ n # <<>> /\ Len(n) \in Nat
    BY TreeFacts, ParentShorter
<1>2. k \in 0..Len(n) - 1
    BY <1>1
<1>. QED  BY <1>1, <1>2, FrontLast DEF Parent

(* The parent in the data tree is the nearest node above that is no choice *)
(* or case, and the way to it has the same names.                          *)
AboveInData(n) ==
    LET d == DataParent[n]
    IN  /\ ~ Transparent(d) /\ (Len(n) > 1 => d \in DataNodes)
        /\ Len(d) \in Nat /\ Len(d) < Len(n) /\ d = SubSeq(n, 1, Len(d))
        /\ \A i \in Len(d) + 1 .. Len(n) - 1 : Transparent(SubSeq(n, 1, i))
        /\ DataNames[Parent(n)] = DataNames[d]

(* Every node has such a parent in the data tree. *)
LEMMA DataParentAbove ==
    ASSUME tree \in Trees
    PROVE  \A n \in Nodes : AboveInData(n)
<1>. DEFINE B == {n \in Nodes : ~ AboveInData(n)}
<1>1. SUFFICES ASSUME NEW n \in Nodes, Parent(n) \in Nodes => AboveInData(Parent(n))
               PROVE  AboveInData(n)
  <2>1. \A n \in B : Parent(n) \in B /\ Len(Parent(n)) < Len(n)
      BY <1>1, ParentShorter
  <2>2. B = {}
      BY <2>1, NodeInduction
  <2>. QED  BY <2>2
<1>2. /\ Len(n) \in Nat /\ Len(Parent(n)) \in Nat /\ Len(Parent(n)) < Len(n)
      /\ Len(n) = Len(Parent(n)) + 1 /\ Parent(n) \in Seq(Idents) /\ n \in Seq(Idents)
    BY ParentShorter, TreeFacts
<1>3. CASE ~ Transparent(Parent(n))
  <2>1. DataParent[n] = Parent(n)
      BY <1>3, DataParentDef
  <2>2. Len(n) > 1 => Parent(n) \in DataNodes
      BY <1>3, TreeFacts DEF DataNodes
  <2>3. Parent(n) = SubSeq(n, 1, Len(Parent(n)))
    <3>1. SubSeq(Parent(n), 1, Len(Parent(n))) = SubSeq(n, 1, Len(Parent(n)))
        BY <1>2, BeginOfParent
    <3>2. SubSeq(Parent(n), 1, Len(Parent(n))) = Parent(n)
        BY <1>2
    <3>. QED  BY <3>1, <3>2
  <2>4. \A i \in Len(Parent(n)) + 1 .. Len(n) - 1 : FALSE
      BY <1>2
  <2>. QED  BY <1>2, <1>3, <2>1, <2>2, <2>3, <2>4 DEF AboveInData
<1>4. CASE Transparent(Parent(n))
  <2>. DEFINE d == DataParent[Parent(n)]
  <2>1. Parent(n) \in Nodes /\ DataParent[n] = d
      BY <1>4, DataParentDef DEF Transparent
  <2>2. AboveInData(Parent(n))
      BY <1>1, <2>1
  <2>3. Len(Parent(n)) > 1
      BY <1>4, <2>1, TreeFacts
  <2>4. ~ Transparent(d) /\ d \in DataNodes /\ Len(d) \in Nat /\ Len(d) < Len(n)
      BY <1>2, <2>2, <2>3 DEF AboveInData
  <2>5. d = SubSeq(n, 1, Len(d))
    <3>1. d = SubSeq(Parent(n), 1, Len(d))
        BY <2>2 DEF AboveInData
    <3>. QED  BY <2>4, <3>1, BeginOfParent
  <2>6. ASSUME NEW i \in Len(d) + 1 .. Len(n) - 1
        PROVE  Transparent(SubSeq(n, 1, i))
    <3>1. i \in Nat /\ i < Len(n) /\ (i = Len(Parent(n)) \/ i \in Len(d) + 1 .. Len(Parent(n)) - 1)
        BY <1>2, <2>4
    <3>2. SubSeq(Parent(n), 1, i) = SubSeq(n, 1, i)
        BY <3>1, BeginOfParent
    <3>3. i = Len(Parent(n)) => SubSeq(Parent(n), 1, i) = Parent(n)
        BY <1>2
    <3>4. i \in Len(d) + 1 .. Len(Parent(n)) - 1 => Transparent(SubSeq(Parent(n), 1, i))
        BY <2>2 DEF AboveInData
    <3>. QED  BY <1>4, <3>1, <3>2, <3>3, <3>4
  <2>7. DataNames[Parent(n)] = DataNames[d]
    <3>1. DataNames[Parent(n)] = DataNames[Parent(Parent(n))]
        BY <1>4, <2>1, DataNamesDef
    <3>. QED  BY <2>2, <3>1 DEF AboveInData
  <2>. HIDE DEF d
  <2>. QED  BY <2>1, <2>4, <2>5, <2>6, <2>7 DEF AboveInData
<1>. QED  BY <1>3, <1>4


(* The names of a node begin with its module, and the names of a data node *)
(* are those of its parent in the data tree and its own.                   *)
LEMMA DataNamesOf ==
    ASSUME tree \in Trees
    PROVE  /\ \A n \in Nodes : /\ DataNames[n] \in Seq(Idents) /\ Len(DataNames[n]) >= 1
                               /\ DataNames[n][1] = n[1] /\ n[1] \in Modules
           /\ \A n \in DataNodes :
                 IF Len(n) > 1
                 THEN /\ DataParent[n] \in DataNodes
                      /\ DataNames[n] = Append(DataNames[DataParent[n]], Name(n))
                 ELSE DataNames[n] = n /\ n = <<n[1]>>
<1>. DEFINE P(n) == /\ DataNames[n] \in Seq(Idents) /\ Len(DataNames[n]) >= 1
                    /\ DataNames[n][1] = n[1] /\ n[1] \in Modules
            B == {n \in Nodes : ~ P(n)}
<1>1. ASSUME NEW n \in Nodes, ~ (Len(n) > 1)
      PROVE  DataNames[n] = n /\ n = <<n[1]>> /\ n[1] \in Modules
  <2>1. n = <<n[1]>> /\ ~ Transparent(n) /\ n[1] \in Modules
      BY <1>1, TreeFacts
  <2>2. Parent(n) = <<>> /\ n = Append(Parent(n), Name(n))
    <3>1. Parent(n) \in Seq(Idents) /\ Len(Parent(n)) \in Nat /\ Len(Parent(n)) < Len(n) /\ Len(n) \in Nat
        BY ParentShorter
    <3>2. Len(Parent(n)) = 0
        BY <1>1, <3>1
    <3>. QED  BY <3>1, <3>2, EmptySeq, ParentShorter
  <2>. QED  BY <2>1, <2>2, DataNamesDef
<1>2. ASSUME NEW n \in Nodes, Parent(n) \in Nodes => P(Parent(n))
      PROVE  P(n)
  <2>1. CASE ~ (Len(n) > 1)
    <3>1. PICK m \in Modules : n = <<m>>
        BY <1>1, <2>1
    <3>2. DataNames[n] = <<m>> /\ m \in Idents
        BY <1>1, <2>1, <3>1, ModulesAssumption
    <3>. QED  BY <3>1, <3>2
  <2>2. CASE Len(n) > 1
    <3>1. Parent(n) \in Nodes /\ P(Parent(n))
        BY <1>2, <2>2, TreeFacts
    <3>2. DataNames[n] = DataNames[Parent(n)] \/ DataNames[n] = Append(DataNames[Parent(n)], Name(n))
        BY DataNamesDef
    <3>3. Name(n) \in Idents /\ n = Append(Parent(n), Name(n)) /\ Parent(n) \in Seq(Idents) /\ Len(Parent(n)) >= 1
        BY <3>1, ParentShorter, TreeFacts
    <3>4. n[1] = Parent(n)[1]
        BY <3>3
    <3>5. /\ Append(DataNames[Parent(n)], Name(n)) \in Seq(Idents)
          /\ Len(Append(DataNames[Parent(n)], Name(n))) >= 1
          /\ Append(DataNames[Parent(n)], Name(n))[1] = DataNames[Parent(n)][1]
        BY <3>1, <3>3
    <3>. QED  BY <3>1, <3>2, <3>4, <3>5
  <2>. QED  BY <2>1, <2>2
<1>3. B = {}
  <2>1. \A n \in B : Parent(n) \in B /\ Len(Parent(n)) < Len(n)
      BY <1>2, ParentShorter
  <2>. QED  BY <2>1, NodeInduction
<1>4. ASSUME NEW n \in DataNodes, Len(n) > 1
      PROVE  DataParent[n] \in DataNodes /\ DataNames[n] = Append(DataNames[DataParent[n]], Name(n))
  <2>1. n \in Nodes /\ ~ Transparent(n)
      BY DEF DataNodes
  <2>. QED  BY <1>4, <2>1, DataNamesDef, DataParentAbove DEF AboveInData
<1>5. \A n \in DataNodes : n \in Nodes
    BY DEF DataNodes
<1>. QED  BY <1>1, <1>3, <1>4, <1>5

(* No two data nodes are at the same place. *)
LEMMA DataNamesInjective ==
    ASSUME tree \in Trees
    PROVE  \A a, b \in DataNodes : DataNames[a] = DataNames[b] => a = b
<1>. DEFINE B == {a \in DataNodes : \E b \in DataNodes : DataNames[a] = DataNames[b] /\ a # b}
<1>1. ASSUME NEW a \in DataNodes, NEW b \in DataNodes, DataNames[a] = DataNames[b], a # b
      PROVE  DataParent[a] \in B /\ Len(DataParent[a]) < Len(a)
  <2>1. a \in Nodes /\ b \in Nodes
      BY DEF DataNodes
  <2>2. ASSUME NEW x \in DataNodes, Len(x) > 1
        PROVE  Len(DataNames[x]) > 1
    <3>1. DataParent[x] \in Nodes /\ DataNames[x] = Append(DataNames[DataParent[x]], Name(x))
        BY <2>2, DataNamesOf DEF DataNodes
    <3>2. DataNames[DataParent[x]] \in Seq(Idents) /\ Len(DataNames[DataParent[x]]) >= 1
        BY <3>1, DataNamesOf
    <3>3. Name(x) \in Idents
        BY ParentShorter DEF DataNodes
    <3>. QED  BY <3>1, <3>2, <3>3
  <2>3. ASSUME NEW x \in DataNodes, ~ (Len(x) > 1)
        PROVE  DataNames[x] = x
      BY <2>3, DataNamesOf
  <2>4. Len(a) > 1 /\ Len(b) > 1
      BY <1>1, <2>2, <2>3
  <2>5. /\ DataParent[a] \in DataNodes /\ DataParent[b] \in DataNodes
        /\ DataNames[DataParent[a]] \in Seq(Idents) /\ DataNames[DataParent[b]] \in Seq(Idents)
        /\ DataNames[a] = Append(DataNames[DataParent[a]], Name(a))
        /\ DataNames[b] = Append(DataNames[DataParent[b]], Name(b))
        /\ Name(a) \in Idents /\ Name(b) \in Idents
      BY <2>1, <2>4, DataNamesOf, ParentShorter DEF DataNodes
  <2>6. DataNames[DataParent[a]] = DataNames[DataParent[b]] /\ Name(a) = Name(b)
    <3>1. Front(DataNames[a]) = DataNames[DataParent[a]] /\ Last(DataNames[a]) = Name(a)
        BY <2>5, FrontLastOfAppend
    <3>2. Front(DataNames[b]) = DataNames[DataParent[b]] /\ Last(DataNames[b]) = Name(b)
        BY <2>5, FrontLastOfAppend
    <3>. QED  BY <1>1, <3>1, <3>2
  <2>7. AboveInData(a) /\ AboveInData(b)
      BY <2>1, DataParentAbove
  <2>8. DataParent[a] # DataParent[b]
    <3>1. SUFFICES ASSUME DataParent[a] = DataParent[b] PROVE FALSE
        OBVIOUS
    <3>2. Len(DataParent[a]) \in Nat /\ Len(DataParent[a]) >= 1
        BY <2>5, ParentShorter, TreeFacts DEF DataNodes
    <3>. QED  BY <1>1, <2>6, <2>7, <3>1, <3>2, OneNodePerPlace DEF AboveInData
  <2>. QED  BY <2>5, <2>6, <2>7, <2>8 DEF AboveInData
<1>2. B \in SUBSET Nodes
    BY DEF DataNodes
<1>3. B = {}
    BY <1>1, <1>2, NodeInduction
<1>. QED  BY <1>3


-----------------------------------------------------------------------------
(* The persistent store: entries under their path *)

(* GetEntryPath is what its recursion says. *)
LEMMA GetEntryPathDef ==
    ASSUME tree \in Trees
    PROVE  \A n \in Nodes :
              GetEntryPath[n] = IF Len(n) > 1 THEN Append(GetEntryPath[DataParent[n]], Name(n)) ELSE n
<1>. DEFINE V == Seq(Idents)
            size == [x \in Nodes |-> Len(x)]
            F == [w \in Nodes \X [Nodes -> V] |->
                     IF Len(w[1]) > 1 THEN Append(w[2][DataParent[w[1]]], Name(w[1])) ELSE w[1]]
<1>1. size \in [Nodes -> Nat] /\ MaxDepth \in Nat /\ \A x \in Nodes : size[x] <= MaxDepth
    BY TreeFacts, SchemaAssumption
<1>2. \A x \in Nodes :
         /\ x \in V /\ Name(x) \in Idents
         /\ Len(x) > 1 => DataParent[x] \in Nodes /\ size[DataParent[x]] < size[x]
    BY TreeFacts, ParentShorter, DataParentAbove DEF AboveInData, DataNodes
<1>3. V # {}
    BY EmptySeq
<1>4. F \in [Nodes \X [Nodes -> V] -> V]
  <2>1. ASSUME NEW x \in Nodes, NEW g \in [Nodes -> V], Len(x) > 1
        PROVE  Append(g[DataParent[x]], Name(x)) \in V
      BY <1>2, <2>1, AppendProperties
  <2>. QED  BY <1>2, <2>1
<1>5. \A x \in Nodes : \A g, h \in [Nodes -> V] :
         (\A y \in Nodes : size[y] < size[x] => g[y] = h[y]) => F[<<x, g>>] = F[<<x, h>>]
    BY <1>2
<1>6. IsRecursion(Nodes, V, size, MaxDepth, F)
  <2>. HIDE DEF size, F, V
  <2>. QED  BY <1>1, <1>3, <1>4, <1>5 DEF IsRecursion
<1>. HIDE DEF size, F, V
<1>7. PICK g \in [Nodes -> V] : \A x \in Nodes : g[x] = F[<<x, g>>]
    BY <1>6, Recursion
<1>8. \A n \in Nodes : g[n] = IF Len(n) > 1 THEN Append(g[DataParent[n]], Name(n)) ELSE n
    BY <1>7 DEF F
<1>9. g = [n \in Nodes |-> IF Len(n) > 1 THEN Append(g[DataParent[n]], Name(n)) ELSE n]
    BY <1>7, <1>8
<1>10. GetEntryPath =
         [n \in Nodes |-> IF Len(n) > 1 THEN Append(GetEntryPath[DataParent[n]], Name(n)) ELSE n]
    BY <1>9 DEF GetEntryPath
<1>. QED  BY <1>10

(* An entry is stored under the names of its node in the data tree. *)
LEMMA EntryPathIsDataNames ==
    ASSUME tree \in Trees
    PROVE  \A n \in DataNodes : GetEntryPath[n] = DataNames[n]
<1>. DEFINE size == [x \in DataNodes |-> Len(x)]
<1>1. size \in [DataNodes -> Nat]
    BY TreeFacts, SchemaAssumption DEF DataNodes
<1>2. ASSUME NEW x \in DataNodes,
             \A y \in DataNodes : size[y] < size[x] => GetEntryPath[y] = DataNames[y]
      PROVE  GetEntryPath[x] = DataNames[x]
  <2>1. x \in Nodes
      BY DEF DataNodes
  <2>2. CASE Len(x) > 1
    <3>1. /\ DataParent[x] \in DataNodes /\ Len(DataParent[x]) < Len(x)
          /\ DataNames[x] = Append(DataNames[DataParent[x]], Name(x))
        BY <2>1, <2>2, DataNamesOf, DataParentAbove DEF AboveInData
    <3>. QED  BY <1>2, <2>1, <2>2, <3>1, GetEntryPathDef
  <2>3. CASE ~ (Len(x) > 1)
      BY <2>1, <2>3, DataNamesOf, GetEntryPathDef
  <2>. QED  BY <2>2, <2>3
<1>. HIDE DEF size
<1>3. Alike(DataNodes, size, GetEntryPath, DataNames)
    BY <1>1, <1>2 DEF Alike
<1>. QED  BY <1>3, SameByRecursion

-----------------------------------------------------------------------------
(* The in-memory store: down the tree *)

Named(x, s) == {c \in GetChildren(x) : Name(c) = s}
Step(x, s) == IF Named(x, s) = {} THEN None ELSE CHOOSE c \in Named(x, s) : TRUE

(* A descent is a step for every name. *)
LEMMA DescendDef ==
    ASSUME tree \in Trees, NEW n \in Nodes, NEW names \in Seq(Idents)
    PROVE  \E at \in [0..Len(names) -> Nodes \union {None}] :
              /\ at[0] = n /\ Descend(n, names) = at[Len(names)]
              /\ \A i \in 1..Len(names) : at[i] = Step(at[i - 1], names[i])
<1>. DEFINE S == 0..Len(names)
            V == Nodes \union {None}
            size == [i \in S |-> i]
            F == [w \in S \X [S -> V] |-> IF w[1] = 0 THEN n ELSE Step(w[2][w[1] - 1], names[w[1]])]
<1>1. Len(names) \in Nat /\ size \in [S -> Nat] /\ \A x \in S : size[x] <= Len(names)
    OBVIOUS
<1>2. \A x \in S : x # 0 => x - 1 \in S /\ size[x - 1] < size[x]
    BY <1>1
<1>3. \A x, s : Step(x, s) \in V
  <2>1. \A x, s : Named(x, s) \subseteq Nodes
      BY DEF Named, GetChildren, DataNodes
  <2>2. ASSUME NEW x, NEW s, Named(x, s) # {}
        PROVE  (CHOOSE c \in Named(x, s) : TRUE) \in Named(x, s)
      BY <2>2
  <2>. QED  BY <2>1, <2>2 DEF Step
<1>4. F \in [S \X [S -> V] -> V]
    BY <1>3
<1>5. \A x \in S : \A g, h \in [S -> V] :
         (\A y \in S : size[y] < size[x] => g[y] = h[y]) => F[<<x, g>>] = F[<<x, h>>]
    BY <1>2
<1>6. IsRecursion(S, V, size, Len(names), F)
  <2>1. V # {}
      OBVIOUS
  <2>. HIDE DEF size, F, S, V
  <2>. QED  BY <1>1, <1>4, <1>5, <2>1 DEF IsRecursion
<1>. HIDE DEF size, F, V
<1>7. PICK g \in [S -> V] : \A x \in S : g[x] = F[<<x, g>>]
    BY <1>6, Recursion
<1>8. \A i \in S : g[i] = IF i = 0 THEN n ELSE Step(g[i - 1], names[i])
    BY <1>7 DEF F
<1>9. g = [i \in S |-> IF i = 0 THEN n ELSE Step(g[i - 1], names[i])]
    BY <1>7, <1>8
<1>. DEFINE A == CHOOSE f : f = [i \in S |-> IF i = 0 THEN n ELSE Step(f[i - 1], names[i])]
<1>10. A = [i \in S |-> IF i = 0 THEN n ELSE Step(A[i - 1], names[i])]
    BY <1>9
<1>11. Descend(n, names) = A[Len(names)]
    BY DEF Descend, Step, Named
<1>. HIDE DEF A
<1>12. \A x \in S : A[x] = g[x]
  <2>1. \A x \in S : (\A y \in S : size[y] < size[x] => A[y] = g[y]) => A[x] = g[x]
      BY <1>2, <1>8, <1>10
  <2>. HIDE DEF S
  <2>2. Alike(S, size, A, g)
      BY <1>1, <2>1 DEF Alike
  <2>. QED  BY <2>2, SameByRecursion
<1>13. 0 \in S /\ Len(names) \in S /\ \A i \in 1..Len(names) : i \in S /\ i # 0
    BY <1>1
<1>14. g[0] = n /\ Descend(n, names) = g[Len(names)]
    BY <1>8, <1>11, <1>12, <1>13
<1>15. \A i \in 1..Len(names) : g[i] = Step(g[i - 1], names[i])
    BY <1>8, <1>13
<1>. QED  BY <1>7, <1>14, <1>15 DEF V


(* A node is in view if its parent in the data tree is, and does not hide  *)
(* what is in it.                                                          *)
LEMMA ViewStep ==
    ASSUME tree \in Trees, NEW c \in DataNodes, Len(c) > 1
    PROVE  InView(c) <=> InView(DataParent[c]) /\ ~ Opaque(DataParent[c])
<1>. DEFINE d == DataParent[c]
<1>1. c \in Nodes /\ c \in Seq(Idents) /\ Len(c) \in Nat
    BY TreeFacts DEF DataNodes
<1>2. /\ d \in DataNodes /\ Len(d) \in Nat /\ Len(d) < Len(c) /\ d = SubSeq(c, 1, Len(d))
      /\ \A i \in Len(d) + 1 .. Len(c) - 1 : Transparent(SubSeq(c, 1, i))
    BY <1>1, DataParentAbove DEF AboveInData
<1>. HIDE DEF d
<1>3. Len(d) >= 1 /\ d \in Seq(Idents)
    BY <1>2, TreeFacts DEF DataNodes
<1>4. \A i \in 1 .. Len(d) - 1 : SubSeq(d, 1, i) = SubSeq(c, 1, i)
  <2>1. \A i \in 1 .. Len(d) - 1 : SubSeq(SubSeq(c, 1, Len(d)), 1, i) = SubSeq(c, 1, i)
      BY <1>1, <1>2
  <2>. QED  BY <1>2, <2>1
<1>5. \A i \in Len(d) + 1 .. Len(c) - 1 : ~ Opaque(SubSeq(c, 1, i))
    BY <1>2 DEF Opaque, Transparent
<1>6. ASSUME InView(c)
      PROVE  InView(d) /\ ~ Opaque(d)
  <2>1. \A i \in 1 .. Len(c) - 1 : ~ Opaque(SubSeq(c, 1, i))
      BY <1>6 DEF InView
  <2>2. Len(d) \in 1 .. Len(c) - 1 /\ \A i \in 1 .. Len(d) - 1 : i \in 1 .. Len(c) - 1
      BY <1>1, <1>2, <1>3
  <2>3. ~ Opaque(SubSeq(c, 1, Len(d)))
      BY <2>1, <2>2
  <2>4. \A i \in 1 .. Len(d) - 1 : ~ Opaque(SubSeq(d, 1, i))
      BY <1>4, <2>1, <2>2
  <2>. QED  BY <1>2, <2>3, <2>4 DEF InView
<1>7. ASSUME InView(d), ~ Opaque(d)
      PROVE  InView(c)
  <2>1. ASSUME NEW i \in 1 .. Len(c) - 1
        PROVE  ~ Opaque(SubSeq(c, 1, i))
    <3>1. i \in 1 .. Len(d) - 1 \/ i = Len(d) \/ i \in Len(d) + 1 .. Len(c) - 1
      <4>1. \A k, l \in Nat : \A j \in 1 .. l - 1 : j \in 1 .. k - 1 \/ j = k \/ j \in k + 1 .. l - 1
          OBVIOUS
      <4>. QED  BY <1>1, <1>2, <4>1, Zenon
    <3>2. i \in 1 .. Len(d) - 1 => ~ Opaque(SubSeq(c, 1, i))
        BY <1>4, <1>7 DEF InView
    <3>3. i = Len(d) => ~ Opaque(SubSeq(c, 1, i))
        BY <1>2, <1>7
    <3>. QED  BY <1>5, <3>1, <3>2, <3>3
  <2>. QED  BY <2>1 DEF InView
<1>. QED  BY <1>6, <1>7 DEF d

(* A module is in view. *)
LEMMA ModuleInView ==
    ASSUME tree \in Trees, NEW n \in DataNodes, ~ (Len(n) > 1)
    PROVE  InView(n) /\ ~ Opaque(n)
<1>1. Len(n) \in Nat
    BY TreeFacts DEF DataNodes
<1>2. \A i \in 1 .. Len(n) - 1 : FALSE
    BY <1>1
<1>. QED  BY <1>2 DEF InView, Opaque

(* A step leads to the data node of that name below x, if there is one and *)
(* it is in view.                                                          *)
LEMMA StepFinds ==
    ASSUME tree \in Trees, NEW x \in DataNodes, InView(x), NEW s \in Idents
    PROVE  /\ \A c \in DataNodes : DataNames[c] = Append(DataNames[x], s) /\ InView(c) => Step(x, s) = c
           /\ \/ Step(x, s) = None
              \/ /\ Step(x, s) \in DataNodes /\ DataNames[Step(x, s)] = Append(DataNames[x], s)
                 /\ InView(Step(x, s))
<1>1. x \in Nodes /\ x # <<>> /\ DataNames[x] \in Seq(Idents) /\ Len(DataNames[x]) >= 1
    BY TreeFacts, DataNamesOf DEF DataNodes
<1>2. ASSUME NEW c \in Named(x, s)
      PROVE  c \in DataNodes /\ DataNames[c] = Append(DataNames[x], s) /\ InView(c)
  <2>1. c \in DataNodes /\ c \in Nodes /\ DataParent[c] = x /\ Name(c) = s /\ ~ Opaque(x)
      BY DEF Named, GetChildren, DataNodes
  <2>2. Len(c) > 1
    <3>1. SUFFICES ASSUME ~ (Len(c) > 1) PROVE FALSE
        OBVIOUS
    <3>2. /\ Len(DataParent[c]) \in Nat /\ Len(DataParent[c]) < Len(c) /\ Len(c) \in Nat
          /\ x \in Seq(Idents) /\ Len(x) \in 1..MaxDepth
        BY <1>1, <2>1, DataParentAbove, TreeFacts, ParentShorter DEF AboveInData
    <3>3. Len(x) >= 1
        BY <3>2, SchemaAssumption
    <3>. QED  BY <2>1, <3>1, <3>2, <3>3
  <2>. QED  BY <2>1, <2>2, DataNamesOf, ViewStep
<1>3. ASSUME NEW c \in DataNodes, DataNames[c] = Append(DataNames[x], s), InView(c)
      PROVE  c \in Named(x, s)
  <2>1. Len(DataNames[c]) > 1
      BY <1>1, <1>3
  <2>2. c \in Nodes /\ Len(c) > 1
      BY <2>1, DataNamesOf DEF DataNodes
  <2>3. /\ DataParent[c] \in DataNodes /\ DataNames[c] = Append(DataNames[DataParent[c]], Name(c))
        /\ DataNames[DataParent[c]] \in Seq(Idents) /\ Name(c) \in Idents
      BY <2>2, DataNamesOf, ParentShorter DEF DataNodes
  <2>4. Front(DataNames[c]) = DataNames[DataParent[c]] /\ Last(DataNames[c]) = Name(c)
      BY <2>3, FrontLastOfAppend
  <2>5. Front(DataNames[c]) = DataNames[x] /\ Last(DataNames[c]) = s
      BY <1>1, <1>3, FrontLastOfAppend
  <2>6. DataParent[c] = x
      BY <2>3, <2>4, <2>5, DataNamesInjective
  <2>7. ~ Opaque(x)
      BY <1>3, <2>2, <2>6, ViewStep
  <2>. QED  BY <2>4, <2>5, <2>6, <2>7 DEF Named, GetChildren
<1>4. Named(x, s) # {} => Step(x, s) \in Named(x, s)
    BY DEF Step
<1>5. Named(x, s) = {} => Step(x, s) = None
    BY DEF Step
<1>. QED  BY <1>2, <1>3, <1>4, <1>5, DataNamesInjective

(* The beginnings of a path, one name longer each. *)
LEMMA NextPlace ==
    ASSUME NEW m \in Idents, NEW names \in Seq(Idents), NEW i \in 1..Len(names)
    PROVE  /\ <<m>> \o SubSeq(names, 1, i - 1) \in Seq(Idents)
           /\ <<m>> \o SubSeq(names, 1, i) = Append(<<m>> \o SubSeq(names, 1, i - 1), names[i])
           /\ names[i] \in Idents
<1>1. SubSeq(names, 1, i - 1) \in Seq(Idents) /\ SubSeq(names, 1, i) = Append(SubSeq(names, 1, i - 1), names[i])
    OBVIOUS
<1>2. names[i] \in Idents
    BY ElementOfSeq
<1>3. <<m>> \in Seq(Idents)
    OBVIOUS
<1>. DEFINE s == SubSeq(names, 1, i - 1)
<1>4. <<m>> \o s \in Seq(Idents)
    BY <1>1, <1>3, ConcatProperties
<1>5. ASSUME NEW t \in Seq(Idents), NEW e \in Idents
      PROVE  <<m>> \o Append(t, e) = Append(<<m>> \o t, e)
    OBVIOUS
<1>. QED  BY <1>1, <1>2, <1>4, <1>5

(* Lookup in the tree finds what is at the place it is asked for, if it is *)
(* in view.                                                                *)
LEMMA DescendFinds ==
    ASSUME tree \in Trees, NEW m \in Modules, NEW names \in Seq(Idents)
    PROVE  /\ \A c \in DataNodes : DataNames[c] = <<m>> \o names /\ InView(c) => Descend(<<m>>, names) = c
           /\ \/ Descend(<<m>>, names) = None
              \/ /\ Descend(<<m>>, names) \in DataNodes /\ InView(Descend(<<m>>, names))
                 /\ DataNames[Descend(<<m>>, names)] = <<m>> \o names
<1>1. <<m>> \in Nodes /\ <<m>> \in DataNodes /\ m \in Idents
    BY TreeFacts, ModulesAssumption DEF DataNodes
<1>2. PICK at \in [0..Len(names) -> Nodes \union {None}] :
         /\ at[0] = <<m>> /\ Descend(<<m>>, names) = at[Len(names)]
         /\ \A i \in 1..Len(names) : at[i] = Step(at[i - 1], names[i])
    BY <1>1, DescendDef
<1>. DEFINE Place(i) == <<m>> \o SubSeq(names, 1, i)
            Right(i) == /\ \A c \in DataNodes : DataNames[c] = Place(i) /\ InView(c) => at[i] = c
                        /\ at[i] = None \/ (at[i] \in DataNodes /\ DataNames[at[i]] = Place(i) /\ InView(at[i]))
            Bad == {i \in 0..Len(names) : ~ Right(i)}
<1>3. Right(0)
  <2>1. Place(0) = <<m>>
      OBVIOUS
  <2>2. DataNames[<<m>>] = <<m>>
    <3>1. ~ (Len(<<m>>) > 1)
        OBVIOUS
    <3>. QED  BY <1>1, <3>1, DataNamesOf
  <2>3. InView(<<m>>)
    <3>1. ~ (Len(<<m>>) > 1)
        OBVIOUS
    <3>. QED  BY <1>1, <3>1, ModuleInView
  <2>. QED  BY <1>1, <1>2, <2>1, <2>2, <2>3, DataNamesInjective
<1>4. ASSUME NEW i \in 1..Len(names), Right(i - 1)
      PROVE  Right(i)
  <2>. DEFINE x == at[i - 1]
  <2>1. at[i] = Step(x, names[i])
      BY <1>2
  <2>2. Place(i - 1) \in Seq(Idents) /\ Place(i) = Append(Place(i - 1), names[i]) /\ names[i] \in Idents
      BY <1>1, NextPlace
  <2>3. CASE x # None
    <3>1. x \in DataNodes /\ DataNames[x] = Place(i - 1) /\ InView(x)
        BY <1>4, <2>3
    <3>. HIDE DEF Place, x
    <3>2. /\ \A c \in DataNodes :
                DataNames[c] = Append(DataNames[x], names[i]) /\ InView(c) => Step(x, names[i]) = c
          /\ \/ Step(x, names[i]) = None
             \/ /\ Step(x, names[i]) \in DataNodes /\ InView(Step(x, names[i]))
                /\ DataNames[Step(x, names[i])] = Append(DataNames[x], names[i])
        BY <2>2, <3>1, StepFinds
    <3>3. Append(DataNames[x], names[i]) = Place(i)
        BY <2>2, <3>1
    <3>. QED  BY <2>1, <3>2, <3>3, Zenon
  <2>4. CASE x = None
    <3>1. \A c \in DataNodes : InView(c) => DataNames[c] # Place(i - 1)
      <4>1. None \notin DataNodes
          BY TreeFacts, ValuesAssumption DEF DataNodes
      <4>. QED  BY <1>4, <2>4, <4>1
    <3>2. Named(x, names[i]) = {}
      <4>1. ASSUME NEW c \in DataNodes
            PROVE  DataParent[c] # None
        <5>1. DataParent[c] \in Nodes \union {<<>>}
            BY DataParentDef DEF DataNodes
        <5>2. None \notin Nodes
            BY TreeFacts, ValuesAssumption
        <5>3. <<>> \in Seq(Idents)
            OBVIOUS
        <5>4. None # <<>>
            BY <5>3, ValuesAssumption
        <5>. QED  BY <5>1, <5>2, <5>4
      <4>. QED  BY <2>4, <4>1 DEF Named, GetChildren
    <3>3. at[i] = None
        BY <2>1, <3>2 DEF Step
    <3>4. ASSUME NEW c \in DataNodes, DataNames[c] = Place(i), InView(c)
          PROVE  FALSE
      <4>. HIDE DEF Place
      <4>1. DataNames[c] = Append(Place(i - 1), names[i])
          BY <2>2, <3>4
      <4>2. Len(Place(i - 1)) >= 1
          BY <1>1 DEF Place
      <4>3. Len(DataNames[c]) > 1
          BY <2>2, <4>1, <4>2
      <4>4. Len(c) > 1
          BY <4>3, DataNamesOf
      <4>5. /\ DataParent[c] \in DataNodes /\ DataNames[c] = Append(DataNames[DataParent[c]], Name(c))
            /\ DataNames[DataParent[c]] \in Seq(Idents) /\ Name(c) \in Idents
          BY <4>4, DataNamesOf, ParentShorter DEF DataNodes
      <4>6. Front(DataNames[c]) = DataNames[DataParent[c]]
          BY <4>5, FrontLastOfAppend
      <4>7. Front(DataNames[c]) = Place(i - 1)
          BY <2>2, <4>1, FrontLastOfAppend
      <4>8. InView(DataParent[c])
          BY <3>4, <4>4, ViewStep
      <4>. QED  BY <3>1, <4>5, <4>6, <4>7, <4>8
    <3>. QED  BY <3>3, <3>4
  <2>. QED  BY <2>3, <2>4
<1>5. Bad = {}
  <2>1. SUFFICES ASSUME Bad # {} PROVE FALSE
      OBVIOUS
  <2>2. Bad \in SUBSET Nat
      OBVIOUS
  <2>3. PICK k \in Bad : \A j \in Bad : k <= j
      BY <2>1, <2>2, LeastNatural
  <2>. HIDE DEF Right
  <2>4. k \in 0..Len(names) /\ k # 0
      BY <1>3
  <2>5. k \in 1..Len(names) /\ k - 1 \in 0..Len(names) /\ ~ (k <= k - 1)
      BY <2>4
  <2>6. Right(k - 1)
      BY <2>3, <2>5
  <2>. QED  BY <1>4, <2>5, <2>6
<1>6. Right(Len(names)) /\ Place(Len(names)) = <<m>> \o names
  <2>1. SubSeq(names, 1, Len(names)) = names /\ Len(names) \in 0..Len(names)
      OBVIOUS
  <2>. HIDE DEF Right
  <2>. QED  BY <1>5, <2>1
<1>. HIDE DEF Place
<1>. QED  BY <1>2, <1>6


-----------------------------------------------------------------------------
(* Lookups *)

(* The first module of a set is in it, and none is before it. *)
LEMMA FirstModule ==
    ASSUME NEW M \in SUBSET Modules, M # {}
    PROVE  First(M) \in M /\ \A x \in M : Rank[First(M)] <= Rank[x]
<1>. DEFINE R == {Rank[m] : m \in M}
<1>1. R \in SUBSET Nat /\ R # {}
    BY ModulesAssumption
<1>2. PICK r \in R : \A k \in R : r <= k
    BY <1>1, LeastNatural
<1>3. \E m \in M : \A x \in M : Rank[m] <= Rank[x]
    BY <1>2
<1>. QED  BY <1>3 DEF First

(* The modules the persistent store searches. *)
Searched(p) == IF p.mod = NoModule THEN Modules ELSE {p.mod}

(* The persistent store answers with the entry at the place asked for, in  *)
(* the first of the modules searched that has one.                         *)
LEMMA GetSchemaFinds ==
    ASSUME tree \in Trees, NEW p, p.names \in Seq(Idents), p.names # <<>>, p.mod \in Modules \union {NoModule}
    PROVE  \/ /\ GetSchema(p) = None
              /\ \A x \in Searched(p), c \in DataNodes : DataNames[c] # EntryKey(x, p.names)
           \/ \E m \in Searched(p) :
                 /\ GetSchema(p) \in DataNodes /\ DataNames[GetSchema(p)] = EntryKey(m, p.names)
                 /\ \A x \in Searched(p), c \in DataNodes :
                       DataNames[c] = EntryKey(x, p.names) => Rank[m] <= Rank[x]
<1>. DEFINE At(m) == {n \in DataNodes : EntryPath(n) = EntryKey(m, p.names)}
            M == {m \in Searched(p) : At(m) # {}}
<1>1. GetSchema(p) = IF M = {} THEN None ELSE CHOOSE n \in At(First(M)) : TRUE
    BY DEF GetSchema, Searched
<1>2. \A m, c : c \in At(m) <=> c \in DataNodes /\ DataNames[c] = EntryKey(m, p.names)
    BY EntryPathIsDataNames DEF EntryPath
<1>3. M \in SUBSET Modules
    BY DEF Searched
<1>4. CASE M = {}
  <2>1. GetSchema(p) = None
      BY <1>1, <1>4
  <2>2. \A x \in Searched(p), c \in DataNodes : DataNames[c] # EntryKey(x, p.names)
      BY <1>2, <1>4
  <2>. QED  BY <2>1, <2>2
<1>5. CASE M # {}
  <2>1. First(M) \in M /\ \A x \in M : Rank[First(M)] <= Rank[x]
      BY <1>3, <1>5, FirstModule
  <2>2. First(M) \in Searched(p) /\ At(First(M)) # {}
      BY <2>1
  <2>. HIDE DEF At
  <2>3. GetSchema(p) \in At(First(M))
      BY <1>1, <1>5, <2>2
  <2>4. ASSUME NEW x \in Searched(p), NEW c \in DataNodes, DataNames[c] = EntryKey(x, p.names)
        PROVE  Rank[First(M)] <= Rank[x]
    <3>1. c \in At(x)
        BY <1>2, <2>4
    <3>2. x \in M
        BY <3>1
    <3>. QED  BY <2>1, <3>2
  <2>. HIDE DEF M
  <2>. QED  BY <1>2, <2>2, <2>3, <2>4
<1>. QED  BY <1>4, <1>5

(* The in-memory store answers with the node at the place asked for, in    *)
(* the first of the possible modules that has one; or with a module.       *)
LEMMA GetEntryFinds ==
    ASSUME tree \in Trees, NEW p, p.names \in Seq(Idents), p.names # <<>>
    PROVE  \/ \E m \in PossibleModules(p) :
                 /\ GetEntry(p) \in DataNodes /\ DataNames[GetEntry(p)] = <<m>> \o p.names /\ InView(GetEntry(p))
                 /\ \A x \in PossibleModules(p), c \in DataNodes :
                       DataNames[c] = <<x>> \o p.names /\ InView(c) => Rank[m] <= Rank[x]
           \/ /\ \A x \in PossibleModules(p), c \in DataNodes : InView(c) => DataNames[c] # <<x>> \o p.names
              /\ GetEntry(p) = IF p.mod = NoModule /\ PossibleModules(p) = {Head(p.names)} /\ Len(p.names) = 1
                               THEN p.names ELSE None
<1>. DEFINE M == PossibleModules(p)
            F == {m \in M : Descend(<<m>>, p.names) # None}
<1>1. GetEntry(p) = IF F # {} THEN Descend(<<First(F)>>, p.names)
                    ELSE IF p.mod = NoModule /\ M = {Head(p.names)} /\ Len(p.names) = 1 THEN p.names
                    ELSE None
    BY DEF GetEntry
<1>2. M \in SUBSET Modules
    BY DEF PossibleModules
<1>3. \A m \in M : /\ \A c \in DataNodes :
                         DataNames[c] = <<m>> \o p.names /\ InView(c) => Descend(<<m>>, p.names) = c
                   /\ m \in F => /\ Descend(<<m>>, p.names) \in DataNodes /\ InView(Descend(<<m>>, p.names))
                                 /\ DataNames[Descend(<<m>>, p.names)] = <<m>> \o p.names
    BY <1>2, DescendFinds
<1>4. \A m \in M, c \in DataNodes : DataNames[c] = <<m>> \o p.names /\ InView(c) => m \in F
  <2>1. None \notin DataNodes
      BY TreeFacts, ValuesAssumption DEF DataNodes
  <2>. QED  BY <1>3, <2>1
<1>. HIDE DEF M
<1>5. CASE F # {}
  <2>1. First(F) \in F /\ \A x \in F : Rank[First(F)] <= Rank[x]
      BY <1>2, <1>5, FirstModule
  <2>2. GetEntry(p) = Descend(<<First(F)>>, p.names) /\ First(F) \in M
      BY <1>1, <1>5, <2>1
  <2>. HIDE DEF F
  <2>. QED  BY <1>3, <1>4, <2>1, <2>2 DEF M
<1>6. CASE F = {}
  <2>1. \A x \in M, c \in DataNodes : InView(c) => DataNames[c] # <<x>> \o p.names
      BY <1>4, <1>6
  <2>. HIDE DEF F
  <2>. QED  BY <1>1, <1>6, <2>1 DEF M
<1>. QED  BY <1>5, <1>6

(* The names of a node, after that of the module. *)
LEMMA NamesOfNode ==
    ASSUME tree \in Trees, NEW n \in DataNodes
    PROVE  /\ n[1] \in Modules /\ DataNames[n] = <<n[1]>> \o Names(n) /\ Names(n) \in Seq(Idents)
           /\ Len(n) > 1 => Names(n) # <<>> /\ Len(Names(n)) >= 1 /\ Head(Names(n)) = Names(n)[1]
           /\ DataNames[n] # Names(n)
<1>1. /\ n \in Nodes /\ DataNames[n] \in Seq(Idents) /\ Len(DataNames[n]) >= 1
      /\ DataNames[n][1] = n[1] /\ n[1] \in Modules
    BY DataNamesOf DEF DataNodes
<1>2. /\ DataNames[n] = <<n[1]>> \o Names(n) /\ Names(n) \in Seq(Idents)
      /\ Len(Names(n)) = Len(DataNames[n]) - 1
    BY <1>1 DEF Names
<1>3. ASSUME Len(n) > 1
      PROVE  Len(DataNames[n]) > 1
  <2>1. DataNames[n] = Append(DataNames[DataParent[n]], Name(n)) /\ DataParent[n] \in Nodes /\ Name(n) \in Idents
      BY <1>1, <1>3, DataNamesOf, ParentShorter DEF DataNodes
  <2>2. DataNames[DataParent[n]] \in Seq(Idents) /\ Len(DataNames[DataParent[n]]) >= 1
      BY <2>1, DataNamesOf
  <2>. QED  BY <2>1, <2>2
<1>4. Len(n) > 1 => Names(n) # <<>> /\ Len(Names(n)) >= 1 /\ Head(Names(n)) = Names(n)[1]
    BY <1>1, <1>2, <1>3
<1>5. DataNames[n] # Names(n)
    BY <1>1, <1>2
<1>. QED  BY <1>1, <1>2, <1>4, <1>5


(* No answer is a node that is not there. *)
LEMMA NoneIsNoNode ==
    ASSUME tree \in Trees
    PROVE  None \notin DataNodes
BY TreeFacts, ValuesAssumption DEF DataNodes

(* Where a node is found by its names, with the name or the prefix of its  *)
(* module in front.                                                        *)
LEMMA FoundByName ==
    ASSUME tree \in Trees, NEW n \in DataNodes, Len(n) > 1
    PROVE  GetSchema([mod |-> n[1], names |-> Names(n)]) = n <=> Names(n)[1] # n[1]
<1>. DEFINE p == [mod |-> n[1], names |-> Names(n)]
<1>1. /\ n[1] \in Modules /\ DataNames[n] = <<n[1]>> \o Names(n) /\ Names(n) \in Seq(Idents)
      /\ Names(n) # <<>> /\ Head(Names(n)) = Names(n)[1] /\ DataNames[n] # Names(n)
    BY NamesOfNode
<1>2. p.names = Names(n) /\ p.mod = n[1] /\ p.mod \in Modules \union {NoModule} /\ Searched(p) = {n[1]}
    BY <1>1, ValuesAssumption DEF Searched
<1>. HIDE DEF p
<1>3. \/ /\ GetSchema(p) = None
         /\ \A c \in DataNodes : DataNames[c] # EntryKey(n[1], Names(n))
      \/ GetSchema(p) \in DataNodes /\ DataNames[GetSchema(p)] = EntryKey(n[1], Names(n))
    BY <1>1, <1>2, GetSchemaFinds
<1>4. EntryKey(n[1], Names(n)) = IF Names(n)[1] = n[1] THEN Names(n) ELSE DataNames[n]
    BY <1>1 DEF EntryKey
<1>. QED  BY <1>1, <1>3, <1>4, DataNamesInjective, NoneIsNoNode DEF p

(* The tree is searched under the prefix, from the top of the module. *)
LEMMA FoundByPrefix ==
    ASSUME tree \in Trees, NEW n \in DataNodes, Len(n) > 1, OwnPrefix(n[1])
    PROVE  GetEntry([mod |-> Prefix[n[1]], names |-> Names(n)]) = n
              <=> (AtTop(n) \/ Names(n)[1] = n[1]) /\ InView(n)
<1>. DEFINE p == [mod |-> Prefix[n[1]], names |-> Names(n)]
            s == Names(n)[1]
<1>1. /\ n[1] \in Modules /\ DataNames[n] = <<n[1]>> \o Names(n) /\ Names(n) \in Seq(Idents)
      /\ Names(n) # <<>> /\ Head(Names(n)) = s /\ DataNames[n] # Names(n)
    BY NamesOfNode
<1>2. p.names = Names(n) /\ p.mod # NoModule /\ \A m \in Modules : Prefix[m] = p.mod <=> m = n[1]
    BY <1>1, ModulesAssumption DEF OwnPrefix
<1>3. PossibleModules(p) = IF AtTop(n) \/ s = n[1] THEN {n[1]} ELSE {}
  <2>. HIDE DEF p
  <2>1. PossibleModules(p) = IF s \in Modules /\ s = n[1] THEN {s}
                             ELSE {m \in Modules : HasChild(<<m>>, s) /\ m = n[1]}
    <3>1. PossibleModules(p) = IF s \in Modules /\ Prefix[s] = p.mod THEN {s}
                               ELSE {m \in Modules : HasChild(<<m>>, s) /\ Prefix[m] = p.mod}
        BY <1>1, <1>2 DEF PossibleModules
    <3>. QED  BY <1>2, <3>1
  <2>. QED  BY <1>1, <2>1 DEF AtTop
<1>. HIDE DEF p
<1>4. \/ \E m \in PossibleModules(p) :
            GetEntry(p) \in DataNodes /\ DataNames[GetEntry(p)] = <<m>> \o Names(n) /\ InView(GetEntry(p))
      \/ /\ GetEntry(p) = None
         /\ \A x \in PossibleModules(p), c \in DataNodes : InView(c) => DataNames[c] # <<x>> \o Names(n)
    BY <1>1, <1>2, GetEntryFinds
<1>. HIDE DEF s
<1>5. CASE AtTop(n) \/ s = n[1]
    BY <1>1, <1>3, <1>4, <1>5, DataNamesInjective, NoneIsNoNode DEF p, s
<1>6. CASE ~ (AtTop(n) \/ s = n[1])
    BY <1>3, <1>4, <1>6, NoneIsNoNode DEF p, s
<1>. QED  BY <1>5, <1>6

-----------------------------------------------------------------------------
(* What holds in every state *)

(* A schema stays what it is while it is loaded and asked about. *)
THEOREM TreeStays == Spec => [](tree \in Trees)
<1>1. Init => tree \in Trees
    BY DEF Init
<1>2. tree \in Trees /\ [Next]_vars => (tree \in Trees)'
    BY DEF Next, Load, AskSchema, AskExpand, AskToPath, vars
<1>. QED  BY <1>1, <1>2, PTL DEF Spec

(* NodesFound: every node of every schema is found under the path it has   *)
(* in the data, by both stores, with the exceptions that NodesFound names. *)
THEOREM NodesFoundHolds == Spec => []NodesFound
<1>1. tree \in Trees => NodesFound
    BY FoundByName, FoundByPrefix DEF NodesFound
<1>. QED  BY <1>1, TreeStays, PTL

-----------------------------------------------------------------------------
(* Lookups agree *)

(* SamePath, of any path. *)
AsOne(p) ==
    /\ p.names \in Seq(Idents) /\ p.names # <<>> /\ Head(p.names) \notin Modules
    /\ \/ p.mod = NoModule
       \/ p.mod \in Modules /\ Prefix[p.mod] = p.mod /\ OwnPrefix(p.mod)

(* A path that means the same to both stores is searched in the same       *)
(* modules by both, but for those the tree has no such node in, and at the *)
(* same place in them.                                                     *)
LEMMA SearchedAlike ==
    ASSUME NEW p, AsOne(p)
    PROVE  /\ p.mod \in Modules \union {NoModule} /\ Searched(p) \subseteq Modules
           /\ PossibleModules(p) = {m \in Searched(p) : HasChild(<<m>>, Head(p.names))}
           /\ \A m \in Searched(p) : EntryKey(m, p.names) = <<m>> \o p.names
           /\ PossibleModules(p) # {Head(p.names)}
<1>1. p.mod \in Modules \union {NoModule} /\ Searched(p) \subseteq Modules
    BY DEF AsOne, Searched
<1>2. PossibleModules(p) = {m \in Modules : HasChild(<<m>>, Head(p.names)) /\ (p.mod = NoModule \/ Prefix[m] = p.mod)}
    BY DEF AsOne, PossibleModules
<1>3. \A m \in Modules : p.mod = NoModule \/ Prefix[m] = p.mod <=> m \in Searched(p)
    BY ValuesAssumption DEF AsOne, Searched, OwnPrefix
<1>4. \A m \in Searched(p) : EntryKey(m, p.names) = <<m>> \o p.names
    BY <1>1 DEF AsOne, EntryKey
<1>5. Head(p.names) \notin PossibleModules(p)
    BY <1>2 DEF AsOne
<1>. QED  BY <1>1, <1>2, <1>3, <1>4, <1>5

(* Both stores find the same, or nothing. *)
LEMMA SameAnswer ==
    ASSUME tree \in Trees, NEW p, AsOne(p),
           GetSchema(p) = None \/ (AtTop(GetSchema(p)) /\ InView(GetSchema(p)))
    PROVE  GetEntry(p) = GetSchema(p)
<1>. DEFINE names == p.names
            e == GetEntry(p)
            g == GetSchema(p)
            P == PossibleModules(p)
<1>1. /\ p.mod \in Modules \union {NoModule} /\ Searched(p) \subseteq Modules
      /\ P = {m \in Searched(p) : HasChild(<<m>>, Head(names))}
      /\ \A m \in Searched(p) : EntryKey(m, names) = <<m>> \o names
      /\ P # {Head(names)}
    BY SearchedAlike
<1>2. names \in Seq(Idents) /\ names # <<>>
    BY DEF AsOne
<1>3. \/ \E m \in P :
            /\ e \in DataNodes /\ DataNames[e] = <<m>> \o names
            /\ \A x \in P, c \in DataNodes : DataNames[c] = <<x>> \o names /\ InView(c) => Rank[m] <= Rank[x]
      \/ e = None /\ \A x \in P, c \in DataNodes : InView(c) => DataNames[c] # <<x>> \o names
    BY <1>1, <1>2, GetEntryFinds
<1>4. \/ g = None /\ \A x \in Searched(p), c \in DataNodes : DataNames[c] # EntryKey(x, names)
      \/ \E m \in Searched(p) :
            /\ g \in DataNodes /\ DataNames[g] = EntryKey(m, names)
            /\ \A x \in Searched(p), c \in DataNodes : DataNames[c] = EntryKey(x, names) => Rank[m] <= Rank[x]
    BY <1>1, <1>2, GetSchemaFinds
<1>. HIDE DEF e, g, P, names
<1>5. CASE g = None
  <2>1. \A x \in P, c \in DataNodes : DataNames[c] # <<x>> \o names
      BY <1>1, <1>4, <1>5, NoneIsNoNode
  <2>. QED  BY <1>3, <1>5, <2>1 DEF e, g
<1>6. CASE g # None
  <2>1. PICK m \in Searched(p) :
            /\ g \in DataNodes /\ DataNames[g] = <<m>> \o names
            /\ \A x \in Searched(p), c \in DataNodes : DataNames[c] = <<x>> \o names => Rank[m] <= Rank[x]
      BY <1>1, <1>4, <1>6
  <2>2. g[1] = m /\ Names(g) = names
    <3>1. DataNames[g] = <<g[1]>> \o Names(g) /\ Names(g) \in Seq(Idents)
        BY <2>1, NamesOfNode
    <3>2. (<<g[1]>> \o Names(g))[1] = g[1] /\ Tail(<<g[1]>> \o Names(g)) = Names(g)
        BY <3>1
    <3>3. (<<m>> \o names)[1] = m /\ Tail(<<m>> \o names) = names
        BY <1>2
    <3>. QED  BY <2>1, <3>1, <3>2, <3>3
  <2>3. m \in P
    <3>1. HasChild(<<m>>, Head(names))
      <4>1. AtTop(g)
          BY <1>6 DEF g
      <4>. QED  BY <1>2, <2>2, <4>1 DEF AtTop
    <3>. QED  BY <1>1, <3>1
  <2>4. PICK x \in P : /\ e \in DataNodes /\ DataNames[e] = <<x>> \o names
                       /\ \A y \in P, c \in DataNodes :
                             DataNames[c] = <<y>> \o names /\ InView(c) => Rank[x] <= Rank[y]
    <3>1. InView(g)
        BY <1>6 DEF g
    <3>. QED  BY <1>3, <2>1, <2>3, <3>1
  <2>5. Rank[x] <= Rank[m] /\ Rank[m] <= Rank[x] /\ x \in Modules /\ m \in Modules
    <3>1. InView(g)
        BY <1>6 DEF g
    <3>. QED  BY <1>1, <2>1, <2>3, <2>4, <3>1
  <2>6. x = m
      BY <2>5, ModulesAssumption
  <2>. QED  BY <2>1, <2>4, <2>6, DataNamesInjective DEF e, g
<1>. QED  BY <1>5, <1>6

(* The paths asked about consist of names. *)
LEMMA PathsOfNames ==
    ASSUME tree \in Trees, NEW p \in Paths
    PROVE  p.names \in Seq(Idents) /\ p.mod \in Modules \union {NoModule}
<1>1. \A n \in DataNodes : Names(n) \in Seq(Idents) /\ DataNames[n] \in Seq(Idents)
    BY NamesOfNode, DataNamesOf DEF DataNodes
<1>. DEFINE P == {Names(n) : n \in DataNodes} \union {DataNames[n] : n \in DataNodes}
<1>2. P \subseteq Seq(Idents)
    BY <1>1
<1>3. {Append(s, Bogus) : s \in P} \subseteq Seq(Idents)
  <2>. HIDE DEF P
  <2>. QED  BY <1>2, ValuesAssumption
<1>4. p \in [mod : Modules \union {NoModule}, names : P \union {Append(s, Bogus) : s \in P}]
    BY DEF Paths
<1>. HIDE DEF P
<1>. QED  BY <1>2, <1>3, <1>4

(* LookupsAgree: both stores answer every lookup alike, whatever the       *)
(* schema and the path, as long as it means the same to both, but for what *)
(* a notification or a choice at the top hides from a search of the tree.  *)
THEOREM LookupsAgreeHolds == Spec => []LookupsAgree
<1>1. Init => LookupsAgree
    BY DEF Init, LookupsAgree
<1>2. ASSUME tree \in Trees, LookupsAgree, [Next]_vars
      PROVE  LookupsAgree'
  <2>1. CASE AskSchema
    <3>1. PICK p \in Paths : q' = p /\ mem' = GetEntry(p) /\ db' = GetSchema(p)
        BY <2>1 DEF AskSchema
    <3>2. tree' = tree
        BY <2>1 DEF AskSchema
    <3>3. p.names \in Seq(Idents) /\ p.mod \in Modules \union {NoModule}
        BY <1>2, PathsOfNames
    <3>4. SamePath' => AsOne(p)
        BY <3>1, <3>3, ValuesAssumption DEF SamePath, AsOne, OwnPrefix
    <3>5. (db = None \/ (AtTop(db) /\ InView(db)))'
             => GetSchema(p) = None \/ (AtTop(GetSchema(p)) /\ InView(GetSchema(p)))
      <4>1. AtTop(db)' <=> AtTop(db')
          BY <3>2 DEF AtTop, HasChild, Child, Nodes, Names, DataNames, Transparent, Kind, Parent, Name
      <4>2. InView(db)' <=> InView(db')
          BY <3>2 DEF InView, Opaque, Nodes, Kind
      <4>. QED  BY <3>1, <4>1, <4>2
    <3>. QED  BY <1>2, <3>1, <3>4, <3>5, SameAnswer DEF LookupsAgree
  <2>2. CASE Load \/ AskExpand \/ AskToPath
    <3>1. op' # "get"
        BY <2>2 DEF Load, AskExpand, AskToPath
    <3>. QED  BY <3>1 DEF LookupsAgree
  <2>3. CASE UNCHANGED vars
    <3>1. /\ op' = op /\ tree' = tree /\ q' = q /\ mem' = mem /\ db' = db
        BY <2>3 DEF vars
    <3>. QED  BY <1>2, <3>1 DEF LookupsAgree, SamePath, OwnPrefix, AtTop, HasChild, Child, Nodes, Names,
                                  DataNames, Transparent, Kind, Parent, Name, InView, Opaque
  <2>. QED  BY <1>2, <2>1, <2>2, <2>3 DEF Next
<1>. QED  BY <1>1, <1>2, TreeStays, PTL DEF Spec

-----------------------------------------------------------------------------
(* Leafrefs *)

(* A leafref is a node of the data tree. *)
LEMMA LeafrefFacts ==
    ASSUME tree \in Trees, NEW n \in Leafrefs
    PROVE  n \in DataNodes /\ tree[n].ref.up \in Nat /\ tree[n].ref.down \in Seq(Idents)
<1>1. n \in Nodes /\ tree[n].ref # None
    BY DEF Leafrefs
<1>2. IsSchema(tree)
    BY SchemaAssumption
<1>3. tree[n].kind \in {"leaf", "leaflist"} /\ tree[n].ref.up \in Nat /\ tree[n].ref.down \in Seq(Idents)
    BY <1>1, <1>2 DEF IsSchema, Nodes
<1>. QED  BY <1>1, <1>3 DEF DataNodes, Transparent, Kind

(* What is above the parent of a choice or case is out of it. *)
OutIsAbove(x) == OutOfChoice[x] = IF Transparent(x) THEN DataParent[x] ELSE x

(* Every step up out of a case, or none, ends in the data tree. *)
LEMMA OutOfChoiceIsAbove ==
    ASSUME tree \in Trees
    PROVE  \A x \in Nodes : Kind(x) # "choice" => OutIsAbove(x)
<1>. DEFINE B == {x \in Nodes : Kind(x) # "choice" /\ ~ OutIsAbove(x)}
<1>1. ASSUME NEW x \in B
      PROVE  \E y \in B : Len(y) < Len(x)
  <2>1. x \in Nodes /\ Kind(x) # "choice" /\ ~ OutIsAbove(x)
      OBVIOUS
  <2>2. Transparent(x)
      BY <2>1, OutOfChoiceDef DEF OutIsAbove
  <2>3. Kind(x) = "case"
      BY <2>1, <2>2 DEF Transparent
  <2>. DEFINE c == Parent(x)
              y == Parent(c)
  <2>4. c \in Nodes /\ Kind(c) = "choice" /\ Transparent(c)
      BY <2>1, <2>3, TreeFacts DEF Transparent
  <2>5. Len(c) > 1
      BY <2>4, TreeFacts
  <2>6. y \in Nodes /\ Kind(y) # "choice"
      BY <2>4, <2>5, TreeFacts
  <2>7. Len(y) < Len(x)
    <3>1. /\ Len(x) \in Nat /\ Len(c) \in Nat /\ Len(c) < Len(x)
          /\ Len(y) \in Nat /\ Len(y) < Len(c)
        BY <2>1, <2>4, ParentShorter
    <3>. QED  BY <3>1
  <2>8. OutOfChoice[x] = OutOfChoice[y]
      BY <2>1, <2>2, OutOfChoiceDef
  <2>9. DataParent[x] = DataParent[c] /\ DataParent[c] = IF Transparent(y) THEN DataParent[y] ELSE y
      BY <2>1, <2>4, DataParentDef
  <2>10. ~ OutIsAbove(y)
      BY <2>1, <2>2, <2>8, <2>9 DEF OutIsAbove
  <2>. QED  BY <2>6, <2>7, <2>10
<1>2. B = {}
  <2>1. B \in SUBSET Nodes
      OBVIOUS
  <2>. HIDE DEF B
  <2>. QED  BY <1>1, <2>1, NodeInduction
<1>. QED  BY <1>2

(* One step up from a node of the data tree leads to the one above it. *)
LEMMA StepUpOnce ==
    ASSUME tree \in Trees, NEW n \in DataNodes, Len(n) > 1
    PROVE  OutOfChoice[Parent(n)] = DataParent[n]
<1>1. n \in Nodes /\ ~ Transparent(n)
    BY DEF DataNodes
<1>2. Parent(n) \in Nodes /\ Kind(Parent(n)) # "choice"
    BY <1>1, TreeFacts DEF Transparent
<1>3. OutIsAbove(Parent(n))
    BY <1>2, OutOfChoiceIsAbove
<1>. QED  BY <1>1, <1>3, DataParentDef DEF OutIsAbove

(* As many steps up as there are "..". *)
LEMMA StepUpDef ==
    ASSUME tree \in Trees, NEW n \in Nodes, NEW k \in Nat
    PROVE  \E up \in [0..k -> Nodes \union {<<>>}] :
              /\ up[0] = n /\ StepUp(n, k) = up[k]
              /\ \A i \in 1..k : up[i] = OutOfChoice[Parent(up[i - 1])]
<1>. DEFINE S == 0..k
            V == Nodes \union {<<>>}
            size == [i \in S |-> i]
            F == [w \in S \X [S -> V] |-> IF w[1] = 0 THEN n ELSE OutOfChoice[Parent(w[2][w[1] - 1])]]
<1>1. size \in [S -> Nat] /\ \A x \in S : size[x] <= k
    OBVIOUS
<1>2. \A x \in S : x # 0 => x - 1 \in S /\ size[x - 1] < size[x]
    OBVIOUS
<1>3. \A x \in V : OutOfChoice[Parent(x)] \in V
  <2>1. \A x \in Nodes : Parent(x) \in V
      BY TreeFacts
  <2>2. Parent(<<>>) = <<>>
      BY DEF Parent, Front
  <2>. QED  BY <2>1, <2>2, OutOfChoiceDef
<1>4. F \in [S \X [S -> V] -> V]
  <2>. HIDE DEF V
  <2>1. ASSUME NEW x \in S, NEW g \in [S -> V], x # 0
        PROVE  OutOfChoice[Parent(g[x - 1])] \in V
      BY <1>2, <1>3, <2>1
  <2>2. n \in V
      BY DEF V
  <2>. QED  BY <2>1, <2>2
<1>5. \A x \in S : \A g, h \in [S -> V] :
         (\A y \in S : size[y] < size[x] => g[y] = h[y]) => F[<<x, g>>] = F[<<x, h>>]
    BY <1>2
<1>6. IsRecursion(S, V, size, k, F)
  <2>1. V # {}
      OBVIOUS
  <2>. HIDE DEF size, F, S, V
  <2>. QED  BY <1>1, <1>4, <1>5, <2>1 DEF IsRecursion
<1>. HIDE DEF size, F, V
<1>7. PICK g \in [S -> V] : \A x \in S : g[x] = F[<<x, g>>]
  <2>. HIDE DEF S
  <2>. QED  BY <1>6, Recursion
<1>8. \A i \in S : g[i] = IF i = 0 THEN n ELSE OutOfChoice[Parent(g[i - 1])]
    BY <1>7 DEF F
<1>9. g = [i \in S |-> IF i = 0 THEN n ELSE OutOfChoice[Parent(g[i - 1])]]
    BY <1>7, <1>8
<1>. DEFINE A == CHOOSE f : f = [i \in S |-> IF i = 0 THEN n ELSE OutOfChoice[Parent(f[i - 1])]]
<1>10. A = [i \in S |-> IF i = 0 THEN n ELSE OutOfChoice[Parent(A[i - 1])]]
    BY <1>9
<1>11. StepUp(n, k) = A[k]
    BY DEF StepUp
<1>. HIDE DEF A
<1>12. \A x \in S : A[x] = g[x]
  <2>1. \A x \in S : (\A y \in S : size[y] < size[x] => A[y] = g[y]) => A[x] = g[x]
      BY <1>2, <1>8, <1>10
  <2>. HIDE DEF S
  <2>2. Alike(S, size, A, g)
      BY <1>1, <2>1 DEF Alike
  <2>. QED  BY <2>2, SameByRecursion
<1>13. 0 \in S /\ k \in S /\ \A i \in 1..k : i \in S /\ i # 0
    OBVIOUS
<1>14. g[0] = n /\ StepUp(n, k) = g[k]
    BY <1>8, <1>11, <1>12, <1>13
<1>15. \A i \in 1..k : g[i] = OutOfChoice[Parent(g[i - 1])]
    BY <1>8, <1>13
<1>. QED  BY <1>7, <1>14, <1>15 DEF V

(* Going up drops names at the end of the path. *)
LEMMA StepUpNames ==
    ASSUME tree \in Trees, NEW n \in DataNodes, NEW k \in Nat, k < Len(DataNames[n])
    PROVE  /\ StepUp(n, k) \in DataNodes
           /\ DataNames[StepUp(n, k)] = SubSeq(DataNames[n], 1, Len(DataNames[n]) - k)
<1>. DEFINE D == DataNames[n]
<1>1. n \in Nodes /\ D \in Seq(Idents)
    BY DataNamesOf DEF DataNodes
<1>2. PICK up \in [0..k -> Nodes \union {<<>>}] :
         /\ up[0] = n /\ StepUp(n, k) = up[k]
         /\ \A i \in 1..k : up[i] = OutOfChoice[Parent(up[i - 1])]
    BY <1>1, StepUpDef
<1>. DEFINE Right(i) == up[i] \in DataNodes /\ DataNames[up[i]] = SubSeq(D, 1, Len(D) - i)
            Bad == {i \in 0..k : ~ Right(i)}
<1>3. Right(0)
    BY <1>1, <1>2
<1>4. ASSUME NEW i \in 1..k, Right(i - 1)
      PROVE  Right(i)
  <2>. DEFINE x == up[i - 1]
  <2>1. x \in DataNodes /\ DataNames[x] = SubSeq(D, 1, Len(D) - (i - 1))
      BY <1>4
  <2>. HIDE DEF x, D
  <2>2. Len(D) - (i - 1) \in Nat /\ Len(D) - (i - 1) > 1
      BY <1>1 DEF D
  <2>3. Len(DataNames[x]) > 1
      BY <1>1, <2>1, <2>2
  <2>4. Len(x) > 1
    <3>1. ~ (Len(x) > 1) => DataNames[x] = <<x[1]>>
        BY <2>1, DataNamesOf
    <3>2. ~ (Len(<<x[1]>>) > 1)
        OBVIOUS
    <3>. QED  BY <2>3, <3>1, <3>2
  <2>5. /\ DataParent[x] \in DataNodes /\ DataNames[x] = Append(DataNames[DataParent[x]], Name(x))
        /\ DataNames[DataParent[x]] \in Seq(Idents) /\ Name(x) \in Idents
      BY <2>1, <2>4, DataNamesOf, ParentShorter DEF DataNodes
  <2>6. up[i] = DataParent[x]
      BY <1>2, <2>1, <2>4, StepUpOnce DEF x
  <2>7. DataNames[DataParent[x]] = Front(DataNames[x])
      BY <2>5, FrontLastOfAppend
  <2>8. Front(DataNames[x]) = SubSeq(D, 1, Len(D) - i)
      BY <1>1, <2>1, <2>2 DEF Front
  <2>. QED  BY <2>5, <2>6, <2>7, <2>8
<1>5. Bad = {}
  <2>1. SUFFICES ASSUME Bad # {} PROVE FALSE
      OBVIOUS
  <2>2. Bad \in SUBSET Nat
      OBVIOUS
  <2>3. PICK j \in Bad : \A l \in Bad : j <= l
      BY <2>1, <2>2, LeastNatural
  <2>. HIDE DEF Right
  <2>4. j \in 0..k /\ j # 0
      BY <1>3
  <2>5. j \in 1..k /\ j - 1 \in 0..k /\ ~ (j <= j - 1)
      BY <2>4
  <2>6. Right(j - 1)
      BY <2>3, <2>5
  <2>. QED  BY <1>4, <2>5, <2>6
<1>6. Right(k)
  <2>. HIDE DEF Right
  <2>. QED  BY <1>5
<1>. QED  BY <1>2, <1>6

(* A leafref is looked for by the names of what it means. *)
LEMMA MeansNames ==
    ASSUME tree \in Trees, NEW n \in Leafrefs, NEW t \in DataNodes, Means(n, t)
    PROVE  NormalizePath(n) = Names(t) /\ Names(t) # <<>> /\ Len(t) > 1
<1>. DEFINE r == tree[n].ref
            D == DataNames[n]
            U == SubSeq(D, 1, Len(D) - r.up)
<1>1. n \in DataNodes /\ r.up \in Nat /\ r.down \in Seq(Idents)
    BY LeafrefFacts
<1>2. D \in Seq(Idents)
    BY <1>1, DataNamesOf DEF DataNodes
<1>3. r.up < Len(D) /\ r.down # <<>> /\ DataNames[t] = U \o r.down
    BY DEF Means
<1>4. DataNames[StepUp(n, r.up)] = U /\ StepUp(n, r.up) # <<>>
  <2>1. StepUp(n, r.up) \in DataNodes /\ DataNames[StepUp(n, r.up)] = U
      BY <1>1, <1>3, StepUpNames
  <2>. QED  BY <2>1, TreeFacts DEF DataNodes
<1>5. U \in Seq(Idents) /\ U # <<>>
  <2>. DEFINE l == Len(D) - r.up
  <2>1. l \in 1..Len(D) /\ l \in Nat
      BY <1>1, <1>2, <1>3
  <2>. HIDE DEF l, D
  <2>2. SubSeq(D, 1, l) \in Seq(Idents) /\ Len(SubSeq(D, 1, l)) = l
      BY <1>2, <2>1
  <2>3. SubSeq(D, 1, l) # <<>>
      BY <2>1, <2>2
  <2>. QED  BY <2>2, <2>3 DEF l
<1>6. NormalizePath(n) = Tail(U) \o r.down
    BY <1>4 DEF NormalizePath
<1>. HIDE DEF U, D, r
<1>7. Tail(U) \o r.down = Tail(U \o r.down) /\ Tail(U) \o r.down # <<>>
    BY <1>1, <1>3, <1>5
<1>8. NormalizePath(n) = Names(t) /\ Names(t) # <<>>
    BY <1>3, <1>6, <1>7 DEF Names
<1>9. Len(t) > 1
  <2>1. ~ (Len(t) > 1) => DataNames[t] = <<t[1]>>
      BY DataNamesOf
  <2>2. Tail(<<t[1]>>) = <<>>
      OBVIOUS
  <2>. QED  BY <1>8, <2>1, <2>2 DEF Names
<1>. QED  BY <1>8, <1>9

(* A node at the top of its module is in view. *)
LEMMA TopInView ==
    ASSUME tree \in Trees, NEW t \in DataNodes, Len(t) > 1, Len(Names(t)) = 1
    PROVE  InView(t)
<1>. DEFINE d == DataParent[t]
<1>1. DataNames[t] = <<t[1]>> \o Names(t) /\ Names(t) \in Seq(Idents)
    BY NamesOfNode
<1>2. d \in DataNodes /\ DataNames[t] = Append(DataNames[d], Name(t)) /\ DataNames[d] \in Seq(Idents) /\ Name(t) \in Idents
    BY DataNamesOf, ParentShorter DEF DataNodes
<1>. HIDE DEF d
<1>3. Len(DataNames[d]) + 1 = 2
  <2>1. Len(<<t[1]>> \o Names(t)) = 2
    <3>1. t[1] \in Idents
        BY NamesOfNode, ModulesAssumption
    <3>2. PICK s \in Seq(Idents) : s = Names(t) /\ Len(s) = 1
        BY <1>1
    <3>3. PICK b \in Seq(Idents) : b = <<t[1]>> /\ Len(b) = 1
      <4>1. <<t[1]>> \in Seq(Idents) /\ Len(<<t[1]>>) = 1
          BY <3>1
      <4>. QED  BY <4>1
    <3>4. Len(b \o s) = Len(b) + Len(s)
        OBVIOUS
    <3>5. Len(b \o s) = 2
      <4>1. 1 + 1 = 2
          OBVIOUS
      <4>. QED  BY <3>2, <3>3, <3>4, <4>1, Zenon
    <3>. QED  BY <3>2, <3>3, <3>5, Zenon
  <2>2. Len(Append(DataNames[d], Name(t))) = Len(DataNames[d]) + 1
      BY <1>2
  <2>. QED  BY <1>1, <1>2, <2>1, <2>2
<1>4. ~ (Len(d) > 1)
  <2>1. SUFFICES ASSUME Len(d) > 1 PROVE FALSE
      OBVIOUS
  <2>2. Names(d) # <<>> /\ Names(d) \in Seq(Idents) /\ DataNames[d] = <<d[1]>> \o Names(d) /\ Len(Names(d)) >= 1
      BY <1>2, <2>1, NamesOfNode
  <2>3. Len(<<d[1]>> \o Names(d)) >= 2
      BY <2>2
  <2>. QED  BY <1>2, <1>3, <2>2, <2>3
<1>. QED  BY <1>2, <1>4, ModuleInView, ViewStep DEF d

(* What is found under the names of a node, without a prefix: a node of    *)
(* those names, or the module of that name.                                *)
LEMMA FoundWithoutPrefix ==
    ASSUME tree \in Trees, NEW t \in DataNodes, Len(t) > 1, NEW e,
           e = GetEntry([mod |-> NoModule, names |-> Names(t)])
    PROVE  LET s == Names(t)[1]
           IN  \/ /\ e \in DataNodes /\ Names(e) = Names(t) /\ e[1] \in Modules
                  /\ \/ e = t
                     \/ /\ e[1] # t[1]
                        /\ e[1] = s \/ Rank[e[1]] < Rank[t[1]] \/ ~ AtTop(t) \/ ~ InView(t)
               \/ s \in Modules /\ s # t[1] /\ e = Names(t) /\ e[1] = s
               \/ e = None /\ (~ AtTop(t) \/ ~ InView(t) \/ (s \in Modules /\ s # t[1]))
<1>. DEFINE p == [mod |-> NoModule, names |-> Names(t)]
            s == Names(t)[1]
            P == PossibleModules(p)
<1>1. /\ t[1] \in Modules /\ DataNames[t] = <<t[1]>> \o Names(t) /\ Names(t) \in Seq(Idents)
      /\ Names(t) # <<>> /\ Head(Names(t)) = s
    BY NamesOfNode
<1>2. p.names = Names(t) /\ p.mod = NoModule
    OBVIOUS
<1>3. P = IF s \in Modules THEN {s} ELSE {m \in Modules : HasChild(<<m>>, s)}
    BY <1>1 DEF PossibleModules
<1>4. P \subseteq Modules
    BY <1>3
<1>. HIDE DEF p, s, P
<1>5. t[1] \in P <=> (s \in Modules /\ s = t[1]) \/ (s \notin Modules /\ AtTop(t))
    BY <1>1, <1>3 DEF AtTop, s
<1>6. \/ \E m \in P :
            /\ e \in DataNodes /\ DataNames[e] = <<m>> \o Names(t)
            /\ \A x \in P, c \in DataNodes : DataNames[c] = <<x>> \o Names(t) /\ InView(c) => Rank[m] <= Rank[x]
      \/ /\ \A x \in P, c \in DataNodes : InView(c) => DataNames[c] # <<x>> \o Names(t)
         /\ e = IF P = {s} /\ Len(Names(t)) = 1 THEN Names(t) ELSE None
    BY <1>1, <1>2, GetEntryFinds DEF p, P
<1>7. CASE \E m \in P :
            /\ e \in DataNodes /\ DataNames[e] = <<m>> \o Names(t)
            /\ \A x \in P, c \in DataNodes : DataNames[c] = <<x>> \o Names(t) /\ InView(c) => Rank[m] <= Rank[x]
  <2>1. PICK m \in P :
            /\ e \in DataNodes /\ DataNames[e] = <<m>> \o Names(t)
            /\ \A x \in P, c \in DataNodes : DataNames[c] = <<x>> \o Names(t) /\ InView(c) => Rank[m] <= Rank[x]
      BY <1>7
  <2>2. m = e[1] /\ Names(e) = Names(t)
    <3>1. DataNames[e] = <<e[1]>> \o Names(e) /\ Names(e) \in Seq(Idents)
        BY <2>1, NamesOfNode
    <3>2. (<<e[1]>> \o Names(e))[1] = e[1] /\ Tail(<<e[1]>> \o Names(e)) = Names(e)
        BY <3>1
    <3>3. (<<m>> \o Names(t))[1] = m /\ Tail(<<m>> \o Names(t)) = Names(t)
        BY <1>1
    <3>. QED  BY <2>1, <3>1, <3>2, <3>3
  <2>3. m = t[1] => e = t
      BY <1>1, <2>1, DataNamesInjective
  <2>4. ASSUME m # t[1], m # s, AtTop(t), InView(t)
        PROVE  Rank[m] < Rank[t[1]]
    <3>1. s \notin Modules
        BY <1>3, <2>1, <2>4
    <3>2. t[1] \in P
        BY <1>5, <2>4, <3>1
    <3>3. Rank[m] <= Rank[t[1]]
        BY <1>1, <2>1, <2>4, <3>2
    <3>4. Rank[m] \in Nat /\ Rank[t[1]] \in Nat /\ Rank[m] # Rank[t[1]]
        BY <1>1, <1>4, <2>4, ModulesAssumption
    <3>. QED  BY <3>3, <3>4
  <2>. QED  BY <1>4, <2>1, <2>2, <2>3, <2>4 DEF s
<1>8. CASE /\ \A x \in P, c \in DataNodes : InView(c) => DataNames[c] # <<x>> \o Names(t)
           /\ e = IF P = {s} /\ Len(Names(t)) = 1 THEN Names(t) ELSE None
  <2>1. InView(t) => t[1] \notin P
      BY <1>1, <1>8
  <2>2. CASE P = {s} /\ Len(Names(t)) = 1
    <3>0. InView(t)
        BY <2>2, TopInView
    <3>1. e = Names(t) /\ e[1] = s /\ s \in Modules /\ s # t[1]
        BY <1>4, <1>8, <2>1, <2>2, <3>0 DEF s
    <3>. QED  BY <3>1 DEF s
  <2>3. CASE ~ (P = {s} /\ Len(Names(t)) = 1)
      BY <1>5, <1>8, <2>1, <2>3 DEF s
  <2>. QED  BY <2>2, <2>3
<1>. QED  BY <1>6, <1>7, <1>8

(* A schema that is loaded has an entry for every leafref, and one that is *)
(* refused has none for some leafref.                                      *)
Resolved ==
    /\ op = "loaded" => \A n \in Leafrefs : RefEntry(n) # None
    /\ op = "failed" => \E n \in Leafrefs : ~ AboveRoot(n) /\ RefEntry(n) = None

(* Every leafref of a schema that was loaded has been resolved. *)
LEMMA ResolvedHolds == Spec => []Resolved
<1>1. Init => Resolved
    BY DEF Init, Resolved
<1>2. ASSUME Resolved, [Next]_vars
      PROVE  Resolved'
  <2>1. ASSUME tree' = tree
        PROVE  Leafrefs' = Leafrefs /\ \A n : RefEntry(n)' = RefEntry(n) /\ AboveRoot(n)' = AboveRoot(n)
    <3>1. Leafrefs' = Leafrefs /\ \A n : AboveRoot(n)' = AboveRoot(n)
        BY <2>1 DEF Leafrefs, AboveRoot, IsState, DataNames, Nodes, Transparent, Kind, Parent, Name
    <3>2. \A n : NormalizePath(n)' = NormalizePath(n)
        BY <2>1 DEF NormalizePath, StepUp, OutOfChoice, DataNames, Nodes, Transparent, Kind, Parent, Name
    <3>3. \A p : GetEntry(p)' = GetEntry(p)
        BY <2>1 DEF GetEntry, PossibleModules, Descend, GetChildren, Opaque, DataParent, DataNodes, HasChild, Child,
                    Nodes, Transparent, Kind, Parent, Name
    <3>. QED  BY <3>1, <3>2, <3>3 DEF RefEntry
  <2>2. CASE Load
      BY <2>1, <2>2 DEF Load, Resolved
  <2>3. CASE AskSchema \/ AskExpand \/ AskToPath
      BY <2>3 DEF AskSchema, AskExpand, AskToPath, Resolved
  <2>4. CASE UNCHANGED vars
      BY <1>2, <2>1, <2>4 DEF vars, Resolved
  <2>. QED  BY <1>2, <2>2, <2>3, <2>4 DEF Next
<1>. QED  BY <1>1, <1>2, PTL DEF Spec

(* RefsHitTarget: a leafref is resolved to the node it means, or to what   *)
(* hides it, and loading fails for no other reason.                        *)
THEOREM RefsHitTargetHolds == Spec => []RefsHitTarget
<1>1. ASSUME tree \in Trees, Resolved
      PROVE  RefsHitTarget
  <2>1. ASSUME NEW n \in Leafrefs, NEW t \in DataNodes, Means(n, t)
        PROVE  RefEntry(n) = GetEntry([mod |-> NoModule, names |-> Names(t)]) /\ Len(t) > 1
      BY <1>1, <2>1, MeansNames DEF RefEntry
  <2>2. CASE op = "loaded"
    <3>1. ASSUME NEW n \in Leafrefs, NEW t \in DataNodes, Means(n, t), NEW e, e = RefEntry(n)
          PROVE  \/ e = t
                 \/ /\ e[1] # t[1] /\ Names(e) = Names(t)
                    /\ e[1] = Names(t)[1] \/ Rank[e[1]] < Rank[t[1]] \/ ~ AtTop(t) \/ ~ InView(t)
                 \/ e[1] # t[1] /\ e[1] = Names(t)[1] /\ e = Names(t)
      <4>1. e # None
          BY <1>1, <2>2, <3>1 DEF Resolved
      <4>. QED  BY <1>1, <2>1, <3>1, <4>1, FoundWithoutPrefix
    <3>. QED  BY <2>2, <3>1 DEF RefsHitTarget
  <2>3. CASE op = "failed"
    <3>1. PICK n \in Leafrefs : RefEntry(n) = None
        BY <1>1, <2>3 DEF Resolved
    <3>2. ASSUME NEW t \in DataNodes, Means(n, t)
          PROVE  ~ AtTop(t) \/ ~ InView(t) \/ (Names(t)[1] \in Modules /\ Names(t)[1] # t[1])
      <4>1. GetEntry([mod |-> NoModule, names |-> Names(t)]) = None /\ Len(t) > 1
          BY <2>1, <3>1, <3>2
      <4>2. Names(t) # None
          BY <1>1, NamesOfNode, ValuesAssumption
      <4>. QED  BY <1>1, <4>1, <4>2, FoundWithoutPrefix, NoneIsNoNode
    <3>. QED  BY <2>3, <3>2 DEF RefsHitTarget
  <2>4. CASE op \notin {"loaded", "failed"}
      BY <2>4 DEF RefsHitTarget
  <2>. QED  BY <2>2, <2>3, <2>4
<1>. QED  BY <1>1, TreeStays, ResolvedHolds, PTL

(* RefsLeadBack: the path by which a leaf names a leafref leads back to    *)
(* it, or to a node that hides it in the persistent store.                 *)
THEOREM RefsLeadBackHolds == Spec => []RefsLeadBack
<1>1. ASSUME tree \in Trees, NEW n \in Leafrefs, NEW e, e = GetSchema([mod |-> NoModule, names |-> BuildPathUp(n)])
      PROVE  e = n \/ (e # None /\ Rank[e[1]] < Rank[n[1]] /\ Names(e) = DataNames[n])
  <2>. DEFINE D == DataNames[n]
              p == [mod |-> NoModule, names |-> D]
  <2>1. n \in DataNodes
      BY <1>1, LeafrefFacts
  <2>2. e = GetSchema(p)
      BY <1>1, <2>1, EntryPathIsDataNames DEF BuildPathUp
  <2>3. D \in Seq(Idents) /\ D # <<>> /\ Head(D) = n[1] /\ n[1] \in Modules
      BY <1>1, <2>1, DataNamesOf DEF DataNodes
  <2>4. p.names = D /\ p.mod \in Modules \union {NoModule} /\ Searched(p) = Modules
      BY DEF Searched
  <2>5. EntryKey(n[1], D) = D /\ \A m \in Modules : m # n[1] => EntryKey(m, D) = <<m>> \o D
      BY <2>3 DEF EntryKey
  <2>. HIDE DEF p, D
  <2>6. PICK m \in Modules :
           /\ e \in DataNodes /\ DataNames[e] = EntryKey(m, D)
           /\ \A x \in Modules, c \in DataNodes : DataNames[c] = EntryKey(x, D) => Rank[m] <= Rank[x]
      BY <1>1, <2>1, <2>2, <2>3, <2>4, <2>5, GetSchemaFinds DEF D
  <2>7. CASE m = n[1]
      BY <1>1, <2>1, <2>5, <2>6, <2>7, DataNamesInjective DEF D
  <2>8. CASE m # n[1]
    <3>1. DataNames[e] = <<m>> \o D
        BY <2>5, <2>6, <2>8
    <3>2. DataNames[e] = <<e[1]>> \o Names(e) /\ Names(e) \in Seq(Idents)
        BY <1>1, <2>6, NamesOfNode
    <3>3. e[1] = m /\ Names(e) = D
      <4>1. (<<e[1]>> \o Names(e))[1] = e[1] /\ Tail(<<e[1]>> \o Names(e)) = Names(e)
          BY <3>2
      <4>2. (<<m>> \o D)[1] = m /\ Tail(<<m>> \o D) = D
          BY <2>3
      <4>. QED  BY <3>1, <3>2, <4>1, <4>2
    <3>4. Rank[m] <= Rank[n[1]]
        BY <2>1, <2>3, <2>5, <2>6 DEF D
    <3>5. Rank[m] \in Nat /\ Rank[n[1]] \in Nat /\ Rank[m] # Rank[n[1]]
        BY <2>3, <2>6, <2>8, ModulesAssumption
    <3>6. Rank[m] < Rank[n[1]]
        BY <3>4, <3>5
    <3>. QED  BY <1>1, <2>6, <3>3, <3>6, NoneIsNoNode DEF D
  <2>. QED  BY <2>7, <2>8
<1>2. tree \in Trees => RefsLeadBack
    BY <1>1 DEF RefsLeadBack
<1>. QED  BY <1>2, TreeStays, PTL

-----------------------------------------------------------------------------
(* The keys on the way to an element *)

(* What a node begins with are the nodes above it. *)
LEMMA BeginsAreNodes ==
    ASSUME tree \in Trees
    PROVE  \A n \in Nodes : \A j \in 1..Len(n) : SubSeq(n, 1, j) \in Nodes
<1>. DEFINE B == {n \in Nodes : \E j \in 1..Len(n) : SubSeq(n, 1, j) \notin Nodes}
<1>1. ASSUME NEW n \in B
      PROVE  \E a \in B : Len(a) < Len(n)
  <2>1. n \in Nodes
      OBVIOUS
  <2>2. PICK j \in 1..Len(n) : SubSeq(n, 1, j) \notin Nodes
      OBVIOUS
  <2>3. n \in Seq(Idents) /\ Len(n) \in Nat
      BY <2>1, TreeFacts
  <2>4. j < Len(n) /\ j \in Nat
    <3>1. SubSeq(n, 1, Len(n)) = n
        BY <2>3
    <3>2. j # Len(n)
        BY <2>1, <2>2, <3>1
    <3>. QED  BY <2>3, <3>2
  <2>5. Parent(n) \in Nodes
      BY <2>1, <2>3, <2>4, TreeFacts
  <2>6. Len(Parent(n)) \in Nat /\ Len(Parent(n)) < Len(n) /\ Len(n) = Len(Parent(n)) + 1
      BY <2>1, ParentShorter
  <2>7. SubSeq(Parent(n), 1, j) \notin Nodes /\ j \in 1..Len(Parent(n))
    <3>1. SubSeq(Parent(n), 1, j) = SubSeq(n, 1, j)
        BY <2>1, <2>4, BeginOfParent
    <3>2. j \in 1..Len(Parent(n))
      <4>. HIDE DEF B
      <4>1. \A a \in Nat : j < a + 1 => j <= a
          BY <2>4
      <4>. QED  BY <2>4, <2>6, <4>1
    <3>. QED  BY <2>2, <3>1, <3>2
  <2>. QED  BY <2>5, <2>6, <2>7
<1>2. B = {}
  <2>1. B \in SUBSET Nodes
      OBVIOUS
  <2>. HIDE DEF B
  <2>. QED  BY <1>1, <2>1, NodeInduction
<1>. QED  BY <1>2

(* A node with as many names in the data tree as in the schema has no      *)
(* choice above it.                                                        *)
NoChoiceIfLong(n) == Len(DataNames[n]) <= Len(n) /\ (Len(DataNames[n]) = Len(n) => DataNames[n] = n)

(* A path is as long as the node only if no choice is on the way. *)
LEMMA DataNamesNoLonger ==
    ASSUME tree \in Trees
    PROVE  \A n \in Nodes : NoChoiceIfLong(n)
<1>. DEFINE B == {n \in Nodes : ~ NoChoiceIfLong(n)}
<1>1. ASSUME NEW n \in B
      PROVE  \E a \in B : Len(a) < Len(n)
  <2>1. n \in Nodes /\ ~ NoChoiceIfLong(n)
      OBVIOUS
  <2>2. Len(n) > 1
    <3>1. ~ (Len(n) > 1) => DataNames[n] = n
        BY <2>1, TreeFacts, DataNamesOf DEF DataNodes
    <3>2. Len(n) \in Nat
        BY <2>1, ParentShorter
    <3>. QED  BY <2>1, <3>1, <3>2 DEF NoChoiceIfLong
  <2>. DEFINE y == Parent(n)
              D == DataNames[y]
  <2>3. y \in Nodes /\ D \in Seq(Idents) /\ y \in Seq(Idents)
      BY <2>1, <2>2, TreeFacts, DataNamesOf
  <2>4. /\ Len(n) \in Nat /\ Len(y) \in Nat /\ Len(y) < Len(n)
        /\ n = Append(y, Name(n)) /\ Len(n) = Len(y) + 1 /\ Name(n) \in Idents
      BY <2>1, ParentShorter
  <2>5. DataNames[n] = D \/ DataNames[n] = Append(D, Name(n))
      BY <2>1, DataNamesDef
  <2>. HIDE DEF y, D
  <2>6. Len(Append(D, Name(n))) = Len(D) + 1 /\ Len(D) \in Nat
      BY <2>3, <2>4
  <2>7. ~ NoChoiceIfLong(y)
    <3>1. SUFFICES ASSUME Len(D) <= Len(y), Len(D) = Len(y) => D = y
                   PROVE  NoChoiceIfLong(n)
        BY <2>1 DEF NoChoiceIfLong, D
    <3>2. CASE DataNames[n] = D
        BY <2>4, <2>6, <3>1, <3>2 DEF NoChoiceIfLong
    <3>3. CASE DataNames[n] = Append(D, Name(n))
      <4>1. Len(DataNames[n]) = Len(D) + 1
          BY <2>6, <3>3
      <4>2. Len(DataNames[n]) <= Len(n) /\ (Len(DataNames[n]) = Len(n) => Len(D) = Len(y))
          BY <2>4, <2>6, <3>1, <4>1
      <4>3. Len(D) = Len(y) => DataNames[n] = n
          BY <2>4, <3>1, <3>3, Zenon
      <4>. QED  BY <4>2, <4>3 DEF NoChoiceIfLong
    <3>. QED  BY <2>5, <3>2, <3>3
  <2>. QED  BY <2>3, <2>4, <2>7
<1>2. B = {}
  <2>1. B \in SUBSET Nodes
      OBVIOUS
  <2>. HIDE DEF B
  <2>. QED  BY <1>1, <2>1, NodeInduction
<1>. QED  BY <1>2

(* With no choice on the way, the i-th name belongs to the i-th node below *)
(* the module.                                                             *)
LEMMA KeysOfPath ==
    ASSUME tree \in Trees, NEW p, p.names \in Seq(Idents), p.names # <<>>,
           NEW n, n = GetEntry(p), n # None, Len(n) = Len(p.names) + 1
    PROVE  \A i \in 1..Len(p.names) : PopulatePathKeys(n, p.names)[i] = StarElem(SubSeq(n, 1, i + 1))
<1>. DEFINE names == p.names
<1>0. n # names
  <2>1. Len(names) \in Nat /\ Len(n) = Len(names) + 1
      OBVIOUS
  <2>. QED  BY <2>1
<1>1. PICK m \in PossibleModules(p) : n \in DataNodes /\ DataNames[n] = <<m>> \o names
  <2>1. \/ \E m \in PossibleModules(p) : GetEntry(p) \in DataNodes /\ DataNames[GetEntry(p)] = <<m>> \o p.names
        \/ GetEntry(p) \in {p.names, None}
      BY GetEntryFinds
  <2>. QED  BY <1>0, <2>1
<1>2. n \in Nodes /\ n \in Seq(Idents) /\ names \in Seq(Idents) /\ Len(names) \in Nat
    BY <1>1, TreeFacts DEF DataNodes
<1>3. n = <<m>> \o names
  <2>1. Len(<<m>> \o names) = Len(n)
      BY <1>2
  <2>2. NoChoiceIfLong(n)
      BY <1>2, DataNamesNoLonger
  <2>. QED  BY <1>1, <2>1, <2>2 DEF NoChoiceIfLong
<1>. HIDE DEF names
<1>4. ASSUME NEW i \in 1..Len(names)
      PROVE  PopulatePathKeys(n, names)[i] = StarElem(SubSeq(n, 1, i + 1))
  <2>. DEFINE a == SubSeq(n, 1, i + 1)
  <2>1. Len(n) = Len(names) + 1
      BY DEF names
  <2>2. i + 1 \in 1..Len(n) /\ Len(n) - (Len(names) - i) = i + 1
    <3>1. \A k \in Nat : \A j \in 1..k : j + 1 \in 1..k + 1 /\ (k + 1) - (k - j) = j + 1
        OBVIOUS
    <3>. QED  BY <1>2, <2>1, <3>1, Zenon
  <2>3. a \in Nodes
      BY <1>2, <2>2, BeginsAreNodes
  <2>4. Name(a) = names[i]
    <3>1. Name(a) = n[i + 1]
        BY <1>2, <2>2 DEF Name, Last
    <3>2. (<<m>> \o names)[i + 1] = names[i]
        BY <1>2
    <3>. QED  BY <1>3, <3>1, <3>2
  <2>. HIDE DEF a
  <2>5. PopulatePathKeys(n, names)[i] = Elem(names[i], IF a \in Nodes /\ Kind(a) = "list" THEN Star(a) ELSE {})
      BY <2>2 DEF PopulatePathKeys, a
  <2>6. PopulatePathKeys(n, names)[i] = StarElem(a)
      BY <2>3, <2>4, <2>5 DEF StarElem
  <2>. QED  BY <2>6 DEF a
<1>. QED  BY <1>4 DEF names

(* The elements that are expanded have paths of names. *)
LEMMA PathOfNames ==
    ASSUME tree \in Trees, NEW n \in DataNodes \union {<<>>}, NEW m \in {FALSE, TRUE}
    PROVE  LET p == PathOf(n, m)
           IN  /\ p.names \in Seq(Idents) /\ p.mod \in Modules \union {NoModule}
               /\ p = [mod |-> p.mod, names |-> p.names]
<1>1. CASE n = <<>>
  <2>1. <<>> \in Seq(Idents) /\ ~ (Len(<<>>) > 1)
      BY EmptySeq
  <2>. QED  BY <1>1, <2>1 DEF PathOf
<1>2. CASE n \in DataNodes
  <2>1. n \in Seq(Idents) /\ n[1] \in Modules /\ Names(n) \in Seq(Idents)
      BY <1>2, TreeFacts, NamesOfNode DEF DataNodes
  <2>. QED  BY <2>1 DEF PathOf
<1>. QED  BY <1>1, <1>2

(* KeysFilledIn: the in-memory store adds the keys of every list on the    *)
(* way, as long as no choice is on it.                                     *)
THEOREM KeysFilledInHolds == Spec => []KeysFilledIn
<1>. DEFINE Filled(p, base) ==
        LET n == GetEntry(p)
        IN  Len(n) = Len(p.names) + 1
            => \A i \in 1..Len(p.names) : base[i] = StarElem(SubSeq(n, 1, i + 1))
<1>1. Init => KeysFilledIn
    BY DEF Init, KeysFilledIn
<1>2. ASSUME tree \in Trees, KeysFilledIn, [Next]_vars
      PROVE  KeysFilledIn'
  <2>1. ASSUME tree' = tree
        PROVE  \A p, n : GetEntry(p)' = GetEntry(p) /\ StarElem(n)' = StarElem(n)
      BY <2>1 DEF GetEntry, PossibleModules, Descend, GetChildren, Opaque, DataParent, DataNodes, HasChild, Child,
                  Nodes, Transparent, Kind, Parent, Name, StarElem, Star, KeysOf, Elem
  <2>2. CASE AskExpand
    <3>1. PICK n \in DataNodes \union {<<>>}, m \in {FALSE, TRUE}, dt \in {"ALL", "CONFIG", "STATE"} :
             LET p == PathOf(n, m)
             IN  /\ q' = [mod |-> p.mod, names |-> p.names, dt |-> dt]
                 /\ mem' = IF GetEntry(p) = None THEN [base |-> Error, below |-> {Error}]
                           ELSE [base |-> PopulatePathKeys(GetEntry(p), p.names),
                                 below |-> MemExpand(GetEntry(p), dt)]
        BY <2>2, Zenon DEF AskExpand
    <3>. DEFINE p == PathOf(n, m)
    <3>2. p.names \in Seq(Idents)
        BY <1>2, PathOfNames
    <3>. HIDE DEF p
    <3>3. /\ q' = [mod |-> p.mod, names |-> p.names, dt |-> dt]
          /\ mem'.base = IF GetEntry(p) = None THEN Error ELSE PopulatePathKeys(GetEntry(p), p.names)
        BY <3>1 DEF p
    <3>4. q'.names = p.names /\ q'.mod = p.mod
        BY <3>3
    <3>5. GetEntry(q') = GetEntry(p)
        BY <3>4 DEF GetEntry, PossibleModules
    <3>6. tree' = tree /\ op' = "expand"
        BY <2>2 DEF AskExpand
    <3>7. ASSUME mem'.base # Error, p.names # <<>>
          PROVE  Filled(q', mem'.base)
        BY <1>2, <3>2, <3>3, <3>4, <3>5, <3>7, KeysOfPath
    <3>. QED  BY <2>1, <3>4, <3>6, <3>7 DEF KeysFilledIn
  <2>3. CASE Load \/ AskSchema \/ AskToPath
    <3>1. op' # "expand"
        BY <2>3 DEF Load, AskSchema, AskToPath
    <3>. QED  BY <3>1 DEF KeysFilledIn
  <2>4. CASE UNCHANGED vars
    <3>1. /\ op' = op /\ tree' = tree /\ q' = q /\ mem' = mem
        BY <2>4 DEF vars
    <3>. QED  BY <1>2, <2>1, <3>1 DEF KeysFilledIn
  <2>. QED  BY <1>2, <2>2, <2>3, <2>4 DEF Next
<1>. QED  BY <1>1, <1>2, TreeStays, PTL DEF Spec

-----------------------------------------------------------------------------
(* The elements on the way to a node *)

(* The keys of a list are leaves right below it. *)
LEMMA KeyFacts ==
    ASSUME tree \in Trees, NEW n \in Nodes, NEW k \in Range(KeysOf(n))
    PROVE  /\ Kind(n) = "list" /\ k \in Idents
           /\ Child(n, k) = Append(n, k) /\ Child(n, k) \in Nodes /\ Kind(Child(n, k)) = "leaf"
<1>1. IsSchema(tree)
    BY SchemaAssumption
<1>2. n # <<>> /\ n \in Seq(Idents)
    BY TreeFacts
<1>3. k \in Range(tree[n].keys)
    BY <1>2 DEF KeysOf
<1>4. Kind(n) = "list" /\ Child(n, k) \in Nodes /\ Kind(Child(n, k)) = "leaf"
    BY <1>1, <1>3 DEF IsSchema, Nodes, Kind, Child
<1>5. Child(n, k) \in Seq(Idents)
    BY <1>4, TreeFacts
<1>6. n \o <<k>> = Append(n, k) /\ Len(n \o <<k>>) = Len(n) + 1 /\ (n \o <<k>>)[Len(n) + 1] = k /\ Len(n) \in Nat
    BY <1>2
<1>7. k \in Idents
    BY <1>5, <1>6, ElementOfSeq DEF Child
<1>. QED  BY <1>4, <1>6, <1>7 DEF Child

(* An element with stars is an element. *)
LEMMA ElemOfNode ==
    ASSUME tree \in Trees, NEW n \in Nodes
    PROVE  StarElem(n) \in Elements
<1>1. Name(n) \in Idents
    BY ParentShorter
<1>2. Star(n) \in SUBSET (Words \X (Words \union {"*"}))
    BY KeyFacts DEF Star, Words
<1>. QED  BY <1>1, <1>2 DEF StarElem, Elem, Elements, Words

(* The elements are as many as the names. *)
LEMMA StarsDef ==
    ASSUME tree \in Trees
    PROVE  /\ Stars \in [Nodes \union {<<>>} -> Seq(Elements)]
           /\ Stars[<<>>] = <<>>
           /\ \A n \in Nodes :
                 Stars[n] = IF Transparent(n) THEN Stars[Parent(n)]
                            ELSE Append(Stars[Parent(n)], StarElem(n))
<1>. DEFINE S == Nodes \union {<<>>}
            V == Seq(Elements)
            size == [x \in S |-> Len(x)]
            F == [w \in S \X [S -> V] |->
                     IF w[1] = <<>> THEN <<>>
                     ELSE IF Transparent(w[1]) THEN w[2][Parent(w[1])]
                     ELSE Append(w[2][Parent(w[1])], StarElem(w[1]))]
<1>1. size \in [S -> Nat] /\ MaxDepth \in Nat /\ \A x \in S : size[x] <= MaxDepth
  <2>1. \A x \in Nodes : Len(x) \in Nat /\ Len(x) <= MaxDepth
      BY TreeFacts, SchemaAssumption
  <2>2. Len(<<>>) = 0
      OBVIOUS
  <2>. QED  BY <2>1, <2>2, SchemaAssumption
<1>2. \A x \in S : x # <<>> =>
         x \in Nodes /\ Parent(x) \in S /\ StarElem(x) \in Elements /\ size[Parent(x)] < size[x]
    BY TreeFacts, ParentShorter, ElemOfNode
<1>3. <<>> \in V
    BY EmptySeq
<1>4. F \in [S \X [S -> V] -> V]
  <2>1. ASSUME NEW x \in S, NEW g \in [S -> V], x # <<>>
        PROVE  g[Parent(x)] \in V /\ Append(g[Parent(x)], StarElem(x)) \in V
      BY <1>2, <2>1, AppendProperties
  <2>. QED  BY <1>3, <2>1
<1>5. \A x \in S : \A g, h \in [S -> V] :
         (\A y \in S : size[y] < size[x] => g[y] = h[y]) => F[<<x, g>>] = F[<<x, h>>]
    BY <1>2
<1>9. IsRecursion(S, V, size, MaxDepth, F)
  <2>. HIDE DEF size, F, S, V
  <2>. QED  BY <1>1, <1>3, <1>4, <1>5 DEF IsRecursion
<1>. HIDE DEF size, F, S, V
<1>6. PICK g \in [S -> V] : \A x \in S : g[x] = F[<<x, g>>]
    BY <1>9, Recursion
<1>7. \A n \in S : g[n] = IF n = <<>> THEN <<>>
                          ELSE IF Transparent(n) THEN g[Parent(n)]
                          ELSE Append(g[Parent(n)], StarElem(n))
    BY <1>6 DEF F
<1>8. g = [n \in S |-> IF n = <<>> THEN <<>>
                       ELSE IF Transparent(n) THEN g[Parent(n)]
                       ELSE Append(g[Parent(n)], StarElem(n))]
    BY <1>6, <1>7
<1>10. Stars = [n \in S |-> IF n = <<>> THEN <<>>
                            ELSE IF Transparent(n) THEN Stars[Parent(n)]
                            ELSE Append(Stars[Parent(n)], StarElem(n))]
    BY <1>8 DEF Stars, S
<1>11. \A x \in S : Stars[x] = g[x]
  <2>1. \A x \in S : (\A y \in S : size[y] < size[x] => Stars[y] = g[y]) => Stars[x] = g[x]
    <3>1. ASSUME NEW x \in S, \A y \in S : size[y] < size[x] => Stars[y] = g[y]
          PROVE  Stars[x] = g[x]
      <4>1. Stars[x] = IF x = <<>> THEN <<>>
                       ELSE IF Transparent(x) THEN Stars[Parent(x)]
                       ELSE Append(Stars[Parent(x)], StarElem(x))
          BY <1>10
      <4>2. x # <<>> => Stars[Parent(x)] = g[Parent(x)]
          BY <1>2, <3>1
      <4>3. g[x] = IF x = <<>> THEN <<>>
                   ELSE IF Transparent(x) THEN g[Parent(x)]
                   ELSE Append(g[Parent(x)], StarElem(x))
          BY <1>7
      <4>. QED  BY <4>1, <4>2, <4>3
    <3>. QED  BY <3>1
  <2>2. Alike(S, size, Stars, g)
      BY <1>1, <2>1 DEF Alike
  <2>. QED  BY <2>2, SameByRecursion
<1>12. Stars \in [S -> V]
  <2>1. \A x \in S : Stars[x] \in V
      BY <1>6, <1>11
  <2>. QED  BY <1>10, <2>1
<1>13. <<>> \in S /\ \A n \in Nodes : n \in S /\ n # <<>>
    BY TreeFacts DEF S
<1>14. Stars[<<>>] = <<>>
    BY <1>10, <1>13
<1>15. \A n \in Nodes :
         Stars[n] = IF Transparent(n) THEN Stars[Parent(n)]
                    ELSE Append(Stars[Parent(n)], StarElem(n))
    BY <1>10, <1>13
<1>. QED  BY <1>12, <1>14, <1>15 DEF S, V

(* The part of the path that follows the i-th element. *)
LEMMA AfterSplit ==
    ASSUME NEW E, NEW s \in Seq(E), NEW a \in Seq(E), NEW e \in E,
           Len(a) + 1 <= Len(s), SubSeq(s, 1, Len(a) + 1) = Append(a, e)
    PROVE  After(s, Len(a)) = <<e>> \o After(s, Len(a) + 1)
<1>. DEFINE k == Len(a)
<1>1. k \in Nat /\ Len(s) \in Nat /\ k + 1 \in 1..Len(s)
    OBVIOUS
<1>2. s[k + 1] = e
  <2>1. SubSeq(s, 1, k + 1)[k + 1] = s[k + 1]
      BY <1>1
  <2>2. Append(a, e)[k + 1] = e
      OBVIOUS
  <2>. QED  BY <2>1, <2>2
<1>. HIDE DEF k
<1>3. SubSeq(s, k + 1, Len(s)) = <<s[k + 1]>> \o SubSeq(s, k + 1 + 1, Len(s))
    BY <1>1
<1>. QED  BY <1>2, <1>3 DEF After, k

(* The elements on the way to a node above x begin those on the way to x. *)
StarsBegin(x, c) ==
    /\ Len(Stars[c]) <= Len(Stars[x])
    /\ SubSeq(Stars[x], 1, Len(Stars[c])) = Stars[c]

(* The elements on the way to a node begin with those of any above. *)
LEMMA StarsAbove ==
    ASSUME tree \in Trees
    PROVE  \A x \in Nodes : \A j \in 1..Len(x) : StarsBegin(x, SubSeq(x, 1, j))
<1>. DEFINE B == {x \in Nodes : \E j \in 1..Len(x) : ~ StarsBegin(x, SubSeq(x, 1, j))}
<1>1. ASSUME NEW x \in B
      PROVE  \E a \in B : Len(a) < Len(x)
  <2>1. x \in Nodes
      OBVIOUS
  <2>2. PICK j \in 1..Len(x) : ~ StarsBegin(x, SubSeq(x, 1, j))
      OBVIOUS
  <2>. HIDE DEF B
  <2>3. x \in Seq(Idents) /\ Len(x) \in Nat /\ Stars[x] \in Seq(Elements)
      BY <2>1, TreeFacts, StarsDef
  <2>4. j < Len(x) /\ j \in Nat
    <3>1. SubSeq(x, 1, Len(x)) = x
        BY <2>3
    <3>2. StarsBegin(x, x)
        BY <2>3 DEF StarsBegin
    <3>3. j # Len(x)
        BY <2>2, <3>1, <3>2
    <3>. QED  BY <2>3, <3>3
  <2>. DEFINE y == Parent(x)
              c == SubSeq(x, 1, j)
  <2>5. y \in Nodes
      BY <2>1, <2>3, <2>4, TreeFacts
  <2>6. Len(y) \in Nat /\ Len(y) < Len(x) /\ Len(x) = Len(y) + 1
      BY <2>1, ParentShorter
  <2>7. c = SubSeq(y, 1, j) /\ j \in 1..Len(y)
    <3>1. SubSeq(y, 1, j) = c
        BY <2>1, <2>4, BeginOfParent
    <3>2. \A a \in Nat : j < a + 1 => j <= a
        BY <2>4
    <3>. QED  BY <2>4, <2>6, <3>1, <3>2
  <2>8. Stars[c] \in Seq(Elements)
    <3>1. c \in Nodes
        BY <2>1, BeginsAreNodes
    <3>. QED  BY <3>1, StarsDef
  <2>9. Stars[y] \in Seq(Elements) /\ StarElem(x) \in Elements /\ Stars[x] \in {Stars[y], Append(Stars[y], StarElem(x))}
      BY <2>1, <2>5, StarsDef, ElemOfNode
  <2>. HIDE DEF y, c
  <2>10. ~ StarsBegin(y, c)
    <3>1. ASSUME NEW s \in Seq(Elements), NEW e \in Elements, NEW b \in Seq(Elements),
                 Len(b) <= Len(s), SubSeq(s, 1, Len(b)) = b
          PROVE  Len(b) <= Len(Append(s, e)) /\ SubSeq(Append(s, e), 1, Len(b)) = b
      <4>1. Len(b) \in Nat /\ Len(s) \in Nat /\ Len(Append(s, e)) = Len(s) + 1
          OBVIOUS
      <4>2. SubSeq(Append(s, e), 1, Len(b)) = SubSeq(s, 1, Len(b))
          BY <3>1, <4>1
      <4>. QED  BY <3>1, <4>1, <4>2
    <3>2. SUFFICES ASSUME StarsBegin(y, c) PROVE FALSE
        OBVIOUS
    <3>3. StarsBegin(x, c)
      <4>1. CASE Stars[x] = Stars[y]
          BY <3>2, <4>1 DEF StarsBegin
      <4>2. CASE Stars[x] = Append(Stars[y], StarElem(x))
        <5>1. Stars[c] \in Seq(Elements) /\ Len(Stars[c]) <= Len(Stars[y]) /\ SubSeq(Stars[y], 1, Len(Stars[c])) = Stars[c]
            BY <2>8, <3>2 DEF StarsBegin
        <5>. QED  BY <2>9, <3>1, <4>2, <5>1 DEF StarsBegin
      <4>. QED  BY <2>9, <4>1, <4>2
    <3>. QED  BY <2>2, <3>3 DEF c
  <2>11. y \in B
      BY <2>5, <2>7, <2>10 DEF B
  <2>. QED  BY <2>6, <2>11
<1>2. B = {}
  <2>1. B \in SUBSET Nodes
      OBVIOUS
  <2>. HIDE DEF B
  <2>. QED  BY <1>1, <2>1, NodeInduction
<1>. QED  BY <1>2

(* There is an element for every name of the data tree. *)
LEMMA AsManyStars ==
    ASSUME tree \in Trees
    PROVE  \A x \in Nodes \union {<<>>} : Len(Stars[x]) = Len(DataNames[x])
<1>. DEFINE B == {x \in Nodes : Len(Stars[x]) # Len(DataNames[x])}
<1>1. Len(Stars[<<>>]) = Len(DataNames[<<>>])
    BY StarsDef, DataNamesDef
<1>2. ASSUME NEW x \in B
      PROVE  \E a \in B : Len(a) < Len(x)
  <2>1. x \in Nodes /\ Len(Stars[x]) # Len(DataNames[x])
      OBVIOUS
  <2>. DEFINE y == Parent(x)
  <2>2. y \in Nodes \union {<<>>} /\ Len(y) < Len(x) /\ StarElem(x) \in Elements /\ Name(x) \in Idents
      BY <2>1, TreeFacts, ParentShorter, ElemOfNode
  <2>3. Stars[y] \in Seq(Elements) /\ DataNames[y] \in Seq(Idents)
      BY <2>2, StarsDef, DataNamesDef
  <2>4. /\ Stars[x] = IF Transparent(x) THEN Stars[y] ELSE Append(Stars[y], StarElem(x))
        /\ DataNames[x] = IF Transparent(x) THEN DataNames[y] ELSE Append(DataNames[y], Name(x))
      BY <2>1, StarsDef, DataNamesDef
  <2>. HIDE DEF y
  <2>5. Len(Stars[y]) # Len(DataNames[y])
    <3>1. Len(Append(Stars[y], StarElem(x))) = Len(Stars[y]) + 1
        BY <2>2, <2>3
    <3>2. Len(Append(DataNames[y], Name(x))) = Len(DataNames[y]) + 1
        BY <2>2, <2>3
    <3>. QED  BY <2>1, <2>4, <3>1, <3>2
  <2>. QED  BY <1>1, <2>2, <2>5
<1>3. B = {}
  <2>1. B \in SUBSET Nodes
      OBVIOUS
  <2>. HIDE DEF B
  <2>. QED  BY <1>2, <2>1, NodeInduction
<1>. QED  BY <1>1, <1>3

-----------------------------------------------------------------------------
(* The leaves below a node *)

(* x is n or below it. *)
Under(n, x) == Len(n) <= Len(x) /\ SubSeq(x, 1, Len(n)) = n

(* What is below n is n itself, or below one of its children. *)
LEMMA UnderFacts ==
    ASSUME tree \in Trees, NEW n \in Nodes, NEW x \in Nodes
    PROVE  /\ Under(n, n)
           /\ IsStrictPrefix(n, x) <=> Under(n, x) /\ n # x
           /\ Under(n, x) => n = x \/ Len(n) < Len(x)
           /\ \A d \in Dir(n) : Under(d, x) => Under(n, x) /\ n # x
           /\ Under(n, x) /\ n # x => \E d \in Dir(n) : Under(d, x)
<1>1. n \in Seq(Idents) /\ x \in Seq(Idents) /\ Len(n) \in Nat /\ Len(x) \in Nat /\ Len(n) >= 1
    BY TreeFacts
<1>2. SubSeq(n, 1, Len(n)) = n /\ SubSeq(x, 1, Len(x)) = x
    BY <1>1
<1>3. Under(n, n) /\ (IsStrictPrefix(n, x) <=> Under(n, x) /\ n # x)
    BY <1>1, <1>2 DEF Under, IsStrictPrefix, IsPrefix
<1>4. Under(n, x) => n = x \/ Len(n) < Len(x)
    BY <1>1, <1>2 DEF Under
<1>5. ASSUME NEW d \in Dir(n), Under(d, x)
      PROVE  Under(n, x) /\ n # x
  <2>1. d \in Nodes /\ Parent(d) = n
      BY DEF Dir
  <2>2. Len(d) = Len(n) + 1 /\ Len(d) \in Nat
      BY <2>1, ParentShorter
  <2>3. SubSeq(d, 1, Len(n)) = n
      BY <1>1, <1>2, <2>1, <2>2, BeginOfParent
  <2>4. SubSeq(SubSeq(x, 1, Len(d)), 1, Len(n)) = SubSeq(x, 1, Len(n))
      BY <1>1, <1>5, <2>2 DEF Under
  <2>5. Len(d) <= Len(x) /\ SubSeq(x, 1, Len(d)) = d
      BY <1>5 DEF Under
  <2>6. Len(n) <= Len(x) /\ Len(n) # Len(x)
      BY <1>1, <2>2, <2>5
  <2>. QED  BY <2>3, <2>4, <2>5, <2>6 DEF Under
<1>6. ASSUME Under(n, x), n # x
      PROVE  \E d \in Dir(n) : Under(d, x)
  <2>. DEFINE d == SubSeq(x, 1, Len(n) + 1)
  <2>1. Len(n) < Len(x)
      BY <1>4, <1>6
  <2>2. Len(n) + 1 \in 1..Len(x)
      BY <1>1, <2>1
  <2>3. d \in Nodes /\ Len(d) = Len(n) + 1
      BY <1>1, <2>2, BeginsAreNodes
  <2>4. Front(d) = SubSeq(x, 1, Len(n))
      BY <1>1, <2>2 DEF Front
  <2>5. Parent(d) = n
      BY <1>6, <2>4 DEF Parent, Under
  <2>. HIDE DEF d
  <2>6. Under(d, x)
      BY <2>2, <2>3 DEF Under, d
  <2>. QED  BY <2>3, <2>5, <2>6 DEF Dir
<1>. QED  BY <1>3, <1>4, <1>5, <1>6

(* Nothing is below a leaf. *)
LEMMA LeafEnds ==
    ASSUME tree \in Trees, NEW n \in Nodes, NEW x \in Nodes, ~ IsDir(n), Under(n, x)
    PROVE  n = x
<1>1. SUFFICES ASSUME n # x PROVE FALSE
    OBVIOUS
<1>2. PICK d \in Dir(n) : Under(d, x)
    BY <1>1, UnderFacts
<1>3. d \in Nodes /\ Parent(d) = n
    BY DEF Dir
<1>4. Len(d) > 1
  <2>1. Len(n) \in Nat /\ Len(n) >= 1 /\ Len(d) = Len(n) + 1
      BY <1>3, ParentShorter, TreeFacts
  <2>. QED  BY <2>1
<1>. QED  BY <1>3, <1>4, TreeFacts DEF IsDir

(* Nothing on the way from n to y hides y: below n, and from n on. *)
ShownIn(n, y) == \A j \in Len(n) + 1 .. Len(y) - 1 : ~ Opaque(SubSeq(y, 1, j))
ShownFrom(n, y) == \A j \in Len(n) .. Len(y) - 1 : ~ Opaque(SubSeq(y, 1, j))

(* n hides what is below it, or what it is shown from does not matter. *)
LEMMA ShownBelow ==
    ASSUME tree \in Trees, NEW n \in Nodes, NEW y \in Nodes, Under(n, y), n # y
    PROVE  ShownFrom(n, y) <=> ~ Opaque(n) /\ ShownIn(n, y)
<1>1. Len(n) \in Nat /\ Len(y) \in Nat /\ Len(n) < Len(y) /\ SubSeq(y, 1, Len(n)) = n
    BY TreeFacts, UnderFacts DEF Under
<1>2. \A j : j \in Len(n) .. Len(y) - 1 <=> j = Len(n) \/ j \in Len(n) + 1 .. Len(y) - 1
    BY <1>1
<1>. QED  BY <1>1, <1>2 DEF ShownIn, ShownFrom

(* The leaves that ExpandPath should list below n, and those that it       *)
(* should list for n itself.                                               *)
Inner(n, dt) ==
    {y \in DataNodes : /\ IsStrictPrefix(n, y) /\ ~ IsDir(y) /\ ~ IsKey(Parent(y), y) /\ Wanted(y, dt)
                       /\ ShownIn(n, y)}
Outer(n, dt) ==
    {y \in DataNodes : /\ Under(n, y) /\ ~ IsDir(y) /\ (y = n \/ ~ IsKey(Parent(y), y)) /\ Wanted(y, dt)
                       /\ ShownFrom(n, y)}

Listed(n, dt) == {After(Stars[x], Len(DataNames[Parent(n)])) : x \in Outer(n, dt)}

(* A key of a list is a leaf. *)
LEMMA KeyIsLeaf ==
    ASSUME tree \in Trees, NEW n \in Nodes, NEW d \in Dir(n), IsKey(n, d)
    PROVE  ~ IsDir(d)
<1>1. d \in Nodes /\ Parent(d) = n /\ d = Append(n, Name(d))
    BY ParentShorter DEF Dir
<1>2. Name(d) \in Range(KeysOf(n))
    BY DEF IsKey
<1>3. Child(n, Name(d)) = Append(n, Name(d)) /\ Kind(Child(n, Name(d))) = "leaf"
    BY <1>2, KeyFacts
<1>4. Kind(d) = "leaf" /\ d # <<>>
    BY <1>1, <1>3, TreeFacts
<1>. QED  BY <1>4 DEF IsDir

(* The leaves below n are those of its children, but for the keys. *)
LEMMA InnerByChild ==
    ASSUME tree \in Trees, NEW n \in Nodes, NEW dt
    PROVE  Inner(n, dt) = UNION {Outer(c, dt) : c \in {d \in Dir(n) : ~ IsKey(n, d)}}
<1>1. ASSUME NEW y \in Inner(n, dt)
      PROVE  \E c \in Dir(n) : ~ IsKey(n, c) /\ y \in Outer(c, dt)
  <2>1. /\ y \in DataNodes /\ IsStrictPrefix(n, y) /\ ~ IsDir(y) /\ ~ IsKey(Parent(y), y) /\ Wanted(y, dt)
        /\ ShownIn(n, y)
      BY DEF Inner
  <2>2. y \in Nodes
      BY <2>1 DEF DataNodes
  <2>3. PICK c \in Dir(n) : Under(c, y)
      BY <2>1, <2>2, UnderFacts
  <2>4. c \in Nodes /\ Parent(c) = n
      BY DEF Dir
  <2>5. ~ IsKey(n, c)
    <3>1. SUFFICES ASSUME IsKey(n, c) PROVE FALSE
        OBVIOUS
    <3>2. c = y
        BY <2>2, <2>3, <2>4, <3>1, KeyIsLeaf, LeafEnds
    <3>. QED  BY <2>1, <2>4, <3>1, <3>2
  <2>6. ShownFrom(c, y)
    <3>1. Len(c) = Len(n) + 1
        BY <2>4, ParentShorter
    <3>. QED  BY <2>1, <3>1 DEF ShownIn, ShownFrom
  <2>. QED  BY <2>1, <2>3, <2>5, <2>6 DEF Outer
<1>2. ASSUME NEW c \in Dir(n), ~ IsKey(n, c), NEW y \in Outer(c, dt)
      PROVE  y \in Inner(n, dt)
  <2>1. /\ y \in DataNodes /\ Under(c, y) /\ ~ IsDir(y) /\ (y = c \/ ~ IsKey(Parent(y), y)) /\ Wanted(y, dt)
        /\ ShownFrom(c, y)
      BY DEF Outer
  <2>2. y \in Nodes /\ c \in Nodes /\ Parent(c) = n
      BY <2>1 DEF DataNodes, Dir
  <2>3. IsStrictPrefix(n, y)
      BY <2>1, <2>2, UnderFacts
  <2>4. ~ IsKey(Parent(y), y)
      BY <1>2, <2>1, <2>2
  <2>5. ShownIn(n, y)
    <3>1. Len(c) = Len(n) + 1
        BY <2>2, ParentShorter
    <3>. QED  BY <2>1, <3>1 DEF ShownIn, ShownFrom
  <2>. QED  BY <2>1, <2>3, <2>4, <2>5 DEF Inner
<1>. QED  BY <1>1, <1>2

(* The leaves to list for a directory are those below it, if it does not   *)
(* hide them.                                                              *)
LEMMA OuterOfDir ==
    ASSUME tree \in Trees, NEW n \in Nodes, NEW dt
    PROVE  /\ IsDir(n) => Outer(n, dt) = IF Opaque(n) THEN {} ELSE Inner(n, dt)
           /\ ~ IsDir(n) => Outer(n, dt) = IF Wanted(n, dt) THEN {n} ELSE {}
<1>1. ASSUME IsDir(n)
      PROVE  Outer(n, dt) = IF Opaque(n) THEN {} ELSE Inner(n, dt)
  <2>1. \A y \in Outer(n, dt) : y \in DataNodes /\ y \in Nodes /\ y # n /\ Under(n, y)
      BY <1>1 DEF Outer, DataNodes
  <2>2. \A y \in Inner(n, dt) : y \in DataNodes /\ y \in Nodes /\ IsStrictPrefix(n, y)
      BY DEF Inner, DataNodes
  <2>3. \A y \in Outer(n, dt) : ~ Opaque(n) /\ y \in Inner(n, dt)
    <3>1. \A y \in Outer(n, dt) : ~ Opaque(n) /\ ShownIn(n, y)
        BY <2>1, ShownBelow DEF Outer
    <3>. QED  BY <2>1, <3>1, UnderFacts DEF Outer, Inner
  <2>4. ~ Opaque(n) => \A y \in Inner(n, dt) : y \in Outer(n, dt)
    <3>1. ~ Opaque(n) => \A y \in Inner(n, dt) : ShownFrom(n, y)
        BY <2>2, UnderFacts, ShownBelow DEF Inner
    <3>. QED  BY <2>2, <3>1, UnderFacts DEF Outer, Inner
  <2>. QED  BY <2>3, <2>4
<1>2. ASSUME ~ IsDir(n)
      PROVE  Outer(n, dt) = IF Wanted(n, dt) THEN {n} ELSE {}
  <2>1. n \in DataNodes
      BY <1>2 DEF IsDir, DataNodes, Transparent
  <2>2. \A y \in Outer(n, dt) : y = n /\ Wanted(n, dt)
    <3>1. \A y \in Outer(n, dt) : y \in Nodes /\ Under(n, y) /\ Wanted(y, dt)
        BY DEF Outer, DataNodes
    <3>. QED  BY <1>2, <3>1, LeafEnds
  <2>3. Wanted(n, dt) => n \in Outer(n, dt)
    <3>1. ShownFrom(n, n)
        BY TreeFacts DEF ShownFrom
    <3>. QED  BY <1>2, <2>1, <3>1, UnderFacts DEF Outer
  <2>. QED  BY <2>2, <2>3
<1>. QED  BY <1>1, <1>2

(* What comes after n on the way to x is n, if it is in the data tree, and *)
(* what comes after it.                                                    *)
LEMMA AfterNode ==
    ASSUME tree \in Trees, NEW n \in Nodes, NEW x \in Nodes, Under(n, x)
    PROVE  /\ After(Stars[x], Len(DataNames[n])) \in Seq(Elements)
           /\ After(Stars[x], Len(DataNames[Parent(n)])) =
                 IF Transparent(n) THEN After(Stars[x], Len(DataNames[n]))
                 ELSE <<StarElem(n)>> \o After(Stars[x], Len(DataNames[n]))
<1>. DEFINE y == Parent(n)
<1>1. y \in Nodes \union {<<>>} /\ StarElem(n) \in Elements
    BY TreeFacts, ElemOfNode
<1>2. Stars[x] \in Seq(Elements) /\ Stars[y] \in Seq(Elements) /\ Stars[n] \in Seq(Elements)
    BY <1>1, StarsDef
<1>3. Len(DataNames[n]) = Len(Stars[n]) /\ Len(DataNames[y]) = Len(Stars[y])
    BY <1>1, AsManyStars
<1>4. StarsBegin(x, n)
  <2>1. Len(n) \in 1..Len(x) /\ n = SubSeq(x, 1, Len(n))
      BY TreeFacts DEF Under
  <2>. QED  BY <2>1, StarsAbove
<1>5. Stars[n] = IF Transparent(n) THEN Stars[y] ELSE Append(Stars[y], StarElem(n))
    BY StarsDef
<1>. HIDE DEF y
<1>6. After(Stars[x], Len(Stars[n])) \in Seq(Elements)
    BY <1>2, <1>4 DEF After, StarsBegin
<1>7. CASE Transparent(n)
    BY <1>3, <1>5, <1>6, <1>7 DEF y
<1>8. CASE ~ Transparent(n)
  <2>1. Stars[n] = Append(Stars[y], StarElem(n)) /\ Len(Stars[n]) = Len(Stars[y]) + 1
      BY <1>1, <1>2, <1>5, <1>8
  <2>2. Len(Stars[y]) + 1 <= Len(Stars[x]) /\ SubSeq(Stars[x], 1, Len(Stars[y]) + 1) = Append(Stars[y], StarElem(n))
      BY <1>4, <2>1 DEF StarsBegin
  <2>3. After(Stars[x], Len(Stars[y])) = <<StarElem(n)>> \o After(Stars[x], Len(Stars[y]) + 1)
      BY <1>1, <1>2, <2>2, AfterSplit
  <2>. QED  BY <1>3, <1>6, <1>8, <2>1, <2>3 DEF y
<1>. QED  BY <1>7, <1>8

(* What is listed for a choice or case is what is listed below it; a leaf  *)
(* is listed itself, a directory in front of what is below it, and nothing *)
(* for a node that hides what is in it.                                    *)
LEMMA ListedOf ==
    ASSUME tree \in Trees, NEW n \in Nodes, NEW dt
    PROVE  /\ LeavesBelow(n, dt) = UNION {Listed(c, dt) : c \in {d \in Dir(n) : ~ IsKey(n, d)}}
           /\ LeavesBelow(n, dt) \subseteq Seq(Elements)
           /\ Opaque(n) => Listed(n, dt) = {}
           /\ ~ Opaque(n) =>
                 Listed(n, dt) = CASE Transparent(n) -> LeavesBelow(n, dt)
                                [] ~ IsDir(n) -> IF Wanted(n, dt) THEN {<<StarElem(n)>>} ELSE {}
                                [] OTHER -> {<<StarElem(n)>> \o s : s \in LeavesBelow(n, dt)}
<1>. DEFINE k == Len(DataNames[n])
<1>1. LeavesBelow(n, dt) = {After(Stars[x], k) : x \in Inner(n, dt)}
    BY DEF LeavesBelow, Inner, ShownIn
<1>2. \A c \in Dir(n) : Listed(c, dt) = {After(Stars[x], k) : x \in Outer(c, dt)}
    BY DEF Listed, Dir
<1>3. LeavesBelow(n, dt) = UNION {Listed(c, dt) : c \in {d \in Dir(n) : ~ IsKey(n, d)}}
  <2>. HIDE DEF k
  <2>1. Inner(n, dt) = UNION {Outer(c, dt) : c \in {d \in Dir(n) : ~ IsKey(n, d)}}
      BY InnerByChild
  <2>. QED  BY <1>1, <1>2, <2>1
<1>4. \A x \in Outer(n, dt) : x \in Nodes /\ Under(n, x)
    BY DEF Outer, DataNodes
<1>5. \A x \in Inner(n, dt) : x \in Nodes /\ Under(n, x)
    BY UnderFacts DEF Inner, DataNodes
<1>6. LeavesBelow(n, dt) \subseteq Seq(Elements)
  <2>1. \A x \in Inner(n, dt) : After(Stars[x], k) \in Seq(Elements)
      BY <1>5, AfterNode
  <2>. HIDE DEF k
  <2>. QED  BY <1>1, <2>1
<1>. DEFINE h == Len(DataNames[Parent(n)])
<1>7. \A x \in Outer(n, dt) : After(Stars[x], h) = IF Transparent(n) THEN After(Stars[x], k)
                                                   ELSE <<StarElem(n)>> \o After(Stars[x], k)
    BY <1>4, AfterNode
<1>8. Listed(n, dt) = {After(Stars[x], h) : x \in Outer(n, dt)}
    BY DEF Listed
<1>12. Opaque(n) => IsDir(n) /\ ~ Transparent(n)
    BY DEF Opaque, IsDir, Transparent
<1>13. CASE Opaque(n)
  <2>1. Outer(n, dt) = {}
      BY <1>12, <1>13, OuterOfDir
  <2>2. Listed(n, dt) = {}
      BY <1>8, <2>1
  <2>. QED  BY <1>3, <1>6, <1>13, <2>2
<1>9. CASE Transparent(n)
  <2>1. IsDir(n) /\ ~ Opaque(n)
      BY <1>9, <1>12, TreeFacts DEF Transparent, IsDir
  <2>2. Outer(n, dt) = Inner(n, dt)
      BY <2>1, OuterOfDir
  <2>. HIDE DEF h, k
  <2>3. Listed(n, dt) = LeavesBelow(n, dt)
      BY <1>1, <1>7, <1>8, <1>9, <2>2
  <2>. QED  BY <1>3, <1>6, <1>9, <2>1, <2>3
<1>10. CASE ~ Transparent(n) /\ ~ IsDir(n)
  <2>1. Outer(n, dt) = IF Wanted(n, dt) THEN {n} ELSE {}
      BY <1>10, OuterOfDir
  <2>2. After(Stars[n], k) = <<>>
    <3>1. Stars[n] \in Seq(Elements) /\ k = Len(Stars[n])
        BY StarsDef, AsManyStars
    <3>. HIDE DEF k
    <3>2. SubSeq(Stars[n], Len(Stars[n]) + 1, Len(Stars[n])) = <<>>
        BY <3>1
    <3>. QED  BY <3>1, <3>2 DEF After
  <2>3. <<StarElem(n)>> \o <<>> = <<StarElem(n)>>
      OBVIOUS
  <2>. HIDE DEF h, k
  <2>4. Listed(n, dt) = IF Wanted(n, dt) THEN {<<StarElem(n)>>} ELSE {}
    <3>1. \A x \in Outer(n, dt) : x = n /\ After(Stars[x], h) = <<StarElem(n)>>
        BY <1>7, <1>10, <2>1, <2>2, <2>3
    <3>. QED  BY <1>8, <2>1, <3>1
  <2>. QED  BY <1>3, <1>6, <1>10, <1>12, <2>4
<1>11. CASE ~ Transparent(n) /\ IsDir(n) /\ ~ Opaque(n)
  <2>1. Outer(n, dt) = Inner(n, dt)
      BY <1>11, OuterOfDir
  <2>. HIDE DEF h, k
  <2>2. Listed(n, dt) = {<<StarElem(n)>> \o s : s \in LeavesBelow(n, dt)}
    <3>1. \A x \in Inner(n, dt) : After(Stars[x], h) = <<StarElem(n)>> \o After(Stars[x], k)
        BY <1>7, <1>11, <2>1
    <3>2. Listed(n, dt) = {<<StarElem(n)>> \o After(Stars[x], k) : x \in Inner(n, dt)}
        BY <1>8, <2>1, <3>1
    <3>. QED  BY <1>1, <3>2, Zenon
  <2>. QED  BY <1>3, <1>6, <1>11, <2>2
<1>. QED  BY <1>9, <1>10, <1>11, <1>13

-----------------------------------------------------------------------------
(* ExpandPath of the in-memory store *)

(* Induction down the tree. *)
LEMMA DownInduction ==
    ASSUME tree \in Trees, NEW B \in SUBSET Nodes, \A n \in B : \E a \in B : Len(n) < Len(a)
    PROVE  B = {}
<1>. DEFINE L == {MaxDepth - Len(n) : n \in B}
<1>1. SUFFICES ASSUME B # {} PROVE FALSE
    OBVIOUS
<1>2. \A n \in B : Len(n) \in Nat /\ Len(n) <= MaxDepth
    BY TreeFacts, SchemaAssumption
<1>3. L \in SUBSET Nat /\ L # {}
  <2>1. \A n \in B : MaxDepth - Len(n) \in Nat
      BY <1>2, SchemaAssumption
  <2>. QED  BY <1>1, <2>1
<1>4. PICK k \in L : \A j \in L : k <= j
    BY <1>3, LeastNatural
<1>5. PICK n \in B : MaxDepth - Len(n) = k
    OBVIOUS
<1>6. PICK a \in B : Len(n) < Len(a)
    OBVIOUS
<1>7. k <= MaxDepth - Len(a)
    BY <1>4
<1>. HIDE DEF L
<1>. QED  BY <1>2, <1>5, <1>6, <1>7, SchemaAssumption

(* What getPathElems makes of n if f is what it makes of its children. *)
ElemsOf(f, n, dt) ==
    LET Below(C) == UNION {f[c] : c \in C}
    IN  CASE Opaque(n) -> {}
          [] Transparent(n) -> Below(Dir(n))
          [] ~ IsDir(n) -> IF Wanted(n, dt) THEN {<<StarElem(n)>>} ELSE {}
          [] OTHER -> {<<StarElem(n)>> \o s : s \in Below({c \in Dir(n) : ~ IsKey(n, c)})}

(* getPathElems lists the leaves of an element. *)
LEMMA GetPathElemsLists ==
    ASSUME tree \in Trees, NEW dt
    PROVE  \A n \in Nodes : GetPathElems(n, dt) = Listed(n, dt)
<1>. DEFINE G == [n \in Nodes |-> Listed(n, dt)]
            A == CHOOSE f : f = [n \in Nodes |-> ElemsOf(f, n, dt)]
<1>1. ASSUME NEW n \in Nodes
      PROVE  Listed(n, dt) = ElemsOf(G, n, dt)
  <2>1. \A c \in Dir(n) : G[c] = Listed(c, dt)
      BY DEF Dir
  <2>2. LeavesBelow(n, dt) = UNION {G[c] : c \in {d \in Dir(n) : ~ IsKey(n, d)}}
    <3>1. LeavesBelow(n, dt) = UNION {Listed(c, dt) : c \in {d \in Dir(n) : ~ IsKey(n, d)}}
        BY ListedOf
    <3>. HIDE DEF G
    <3>. QED  BY <2>1, <3>1
  <2>. HIDE DEF G
  <2>3. Transparent(n) => {d \in Dir(n) : ~ IsKey(n, d)} = Dir(n)
    <3>1. Transparent(n) => Range(KeysOf(n)) = {}
        BY KeyFacts DEF Transparent
    <3>. QED  BY <3>1 DEF IsKey
  <2>4. /\ Transparent(n) => IsDir(n) /\ ~ Opaque(n)
        /\ ~ IsDir(n) => ~ Opaque(n)
      BY TreeFacts DEF Transparent, IsDir, Opaque
  <2>8. CASE Opaque(n)
    <3>1. Listed(n, dt) = {}
        BY <2>8, ListedOf
    <3>2. ElemsOf(G, n, dt) = {}
        BY <2>4, <2>8 DEF ElemsOf
    <3>. QED  BY <3>1, <3>2
  <2>5. CASE Transparent(n)
    <3>1. Listed(n, dt) = LeavesBelow(n, dt)
        BY <2>4, <2>5, ListedOf
    <3>2. ElemsOf(G, n, dt) = UNION {G[c] : c \in Dir(n)}
        BY <2>4, <2>5 DEF ElemsOf
    <3>. QED  BY <2>2, <2>3, <2>5, <3>1, <3>2
  <2>6. CASE ~ Transparent(n) /\ ~ IsDir(n)
      BY <2>4, <2>6, ListedOf DEF ElemsOf
  <2>7. CASE ~ Transparent(n) /\ IsDir(n) /\ ~ Opaque(n)
    <3>1. Listed(n, dt) = {<<StarElem(n)>> \o s : s \in LeavesBelow(n, dt)}
        BY <2>7, ListedOf
    <3>2. ElemsOf(G, n, dt) = {<<StarElem(n)>> \o s : s \in UNION {G[c] : c \in {d \in Dir(n) : ~ IsKey(n, d)}}}
        BY <2>7 DEF ElemsOf
    <3>. QED  BY <2>2, <3>1, <3>2
  <2>. QED  BY <2>5, <2>6, <2>7, <2>8
<1>2. G = [n \in Nodes |-> ElemsOf(G, n, dt)]
    BY <1>1
<1>. HIDE DEF G
<1>3. A = [n \in Nodes |-> ElemsOf(A, n, dt)]
    BY <1>2
<1>4. \A n \in Nodes : GetPathElems(n, dt) = A[n]
    BY DEF GetPathElems, ElemsOf
<1>. HIDE DEF A
<1>. DEFINE B == {n \in Nodes : A[n] # G[n]}
<1>5. ASSUME NEW n \in B
      PROVE  \E c \in B : Len(n) < Len(c)
  <2>1. n \in Nodes /\ A[n] # G[n]
      OBVIOUS
  <2>2. A[n] = ElemsOf(A, n, dt) /\ G[n] = ElemsOf(G, n, dt)
      BY <1>2, <1>3, <2>1
  <2>3. PICK c \in Dir(n) : A[c] # G[c]
    <3>1. SUFFICES ASSUME \A c \in Dir(n) : A[c] = G[c] PROVE FALSE
        OBVIOUS
    <3>2. ElemsOf(A, n, dt) = ElemsOf(G, n, dt)
      <4>1. UNION {A[c] : c \in Dir(n)} = UNION {G[c] : c \in Dir(n)}
          BY <3>1
      <4>2. UNION {A[c] : c \in {d \in Dir(n) : ~ IsKey(n, d)}} = UNION {G[c] : c \in {d \in Dir(n) : ~ IsKey(n, d)}}
          BY <3>1
      <4>. QED  BY <4>1, <4>2, Zenon DEF ElemsOf
    <3>. QED  BY <2>1, <2>2, <3>2
  <2>4. c \in Nodes /\ Len(n) < Len(c)
      BY ParentShorter DEF Dir
  <2>. QED  BY <2>3, <2>4
<1>6. B = {}
  <2>1. B \in SUBSET Nodes
      OBVIOUS
  <2>. HIDE DEF B
  <2>. QED  BY <1>5, <2>1, DownInduction
<1>. QED  BY <1>4, <1>6 DEF G

(* The in-memory store lists the leaves below an element. *)
LEMMA MemExpandLists ==
    ASSUME tree \in Trees, NEW n \in Nodes, IsDir(n), NEW dt
    PROVE  MemExpand(n, dt) = LeavesBelow(n, dt)
<1>1. MemExpand(n, dt) = UNION {GetPathElems(c, dt) : c \in {x \in Dir(n) : ~ IsKey(n, x)}}
    BY TreeFacts DEF MemExpand, IsDir
<1>2. \A c \in Dir(n) : GetPathElems(c, dt) = Listed(c, dt)
    BY GetPathElemsLists DEF Dir
<1>3. LeavesBelow(n, dt) = UNION {Listed(c, dt) : c \in {d \in Dir(n) : ~ IsKey(n, d)}}
    BY ListedOf
<1>. QED  BY <1>1, <1>2, <1>3

-----------------------------------------------------------------------------
(* ExpandPath of the persistent store *)

(* On the way from y to a node below it is a child of y in the data tree. *)
LEMMA ChildOnTheWay ==
    ASSUME tree \in Trees, NEW y \in DataNodes, ~ Opaque(y)
    PROVE  \A x \in DataNodes : Under(y, x) /\ x # y => \E c \in GetChildren(y) : Under(c, x)
<1>. DEFINE B == {x \in DataNodes : Under(y, x) /\ x # y /\ ~ \E c \in GetChildren(y) : Under(c, x)}
<1>1. ASSUME NEW x \in B
      PROVE  \E a \in B : Len(a) < Len(x)
  <2>1. x \in DataNodes /\ x \in Nodes /\ Under(y, x) /\ x # y /\ ~ \E c \in GetChildren(y) : Under(c, x)
      BY DEF DataNodes
  <2>. HIDE DEF B
  <2>. DEFINE d == DataParent[x]
  <2>2. y \in Nodes /\ ~ Transparent(y)
      BY DEF DataNodes
  <2>3. /\ x \in Seq(Idents) /\ Len(x) \in Nat
        /\ y \in Seq(Idents) /\ Len(y) \in Nat /\ Len(y) >= 1
      BY <2>1, <2>2, TreeFacts
  <2>4. Len(y) < Len(x) /\ SubSeq(x, 1, Len(y)) = y
      BY <2>1, <2>2, UnderFacts DEF Under
  <2>5. /\ d \in DataNodes /\ Len(d) \in Nat /\ Len(d) < Len(x) /\ d = SubSeq(x, 1, Len(d))
        /\ \A i \in Len(d) + 1 .. Len(x) - 1 : Transparent(SubSeq(x, 1, i))
    <3>1. AboveInData(x)
        BY <2>1, DataParentAbove
    <3>2. Len(x) > 1
        BY <2>3, <2>4
    <3>. QED  BY <3>1, <3>2 DEF AboveInData
  <2>. HIDE DEF d
  <2>6. Len(y) <= Len(d)
    <3>1. ~ (Len(y) \in Len(d) + 1 .. Len(x) - 1)
        BY <2>2, <2>4, <2>5
    <3>. QED  BY <2>3, <2>4, <2>5, <3>1
  <2>7. d \in Nodes /\ d \in Seq(Idents)
      BY <2>5, TreeFacts DEF DataNodes
  <2>8. \A c \in Nodes : Under(c, d) => Under(c, x)
    <3>1. ASSUME NEW c \in Nodes, Under(c, d)
          PROVE  Under(c, x)
      <4>1. Len(c) <= Len(d) /\ SubSeq(d, 1, Len(c)) = c /\ Len(c) \in Nat
          BY <3>1, TreeFacts DEF Under
      <4>2. SubSeq(SubSeq(x, 1, Len(d)), 1, Len(c)) = SubSeq(x, 1, Len(c))
          BY <2>3, <2>5, <4>1
      <4>3. SubSeq(x, 1, Len(c)) = c
          BY <2>5, <4>1, <4>2
      <4>4. Len(c) <= Len(x)
          BY <2>3, <2>5, <4>1
      <4>. QED  BY <4>3, <4>4 DEF Under
    <3>. QED  BY <3>1
  <2>9. Under(y, d)
    <3>1. SubSeq(SubSeq(x, 1, Len(d)), 1, Len(y)) = SubSeq(x, 1, Len(y))
        BY <2>3, <2>5, <2>6
    <3>2. SubSeq(d, 1, Len(y)) = y
        BY <2>4, <2>5, <3>1
    <3>. QED  BY <2>6, <3>2 DEF Under
  <2>10. d # y
    <3>1. SUFFICES ASSUME d = y PROVE FALSE
        OBVIOUS
    <3>2. x \in GetChildren(y)
        BY <2>1, <3>1 DEF GetChildren, d
    <3>. QED  BY <2>1, <3>2, UnderFacts
  <2>11. ~ \E c \in GetChildren(y) : Under(c, d)
      BY <2>1, <2>8 DEF GetChildren, DataNodes
  <2>12. d \in B
      BY <2>5, <2>9, <2>10, <2>11 DEF B
  <2>. QED  BY <2>5, <2>12
<1>2. B = {}
  <2>1. B \in SUBSET Nodes
      BY DEF DataNodes
  <2>. HIDE DEF B
  <2>. QED  BY <1>1, <2>1, NodeInduction
<1>. QED  BY <1>2

(* A child in the data tree is below the node, and has one more name. *)
LEMMA DataChild ==
    ASSUME tree \in Trees, NEW y \in DataNodes, NEW c \in GetChildren(y)
    PROVE  /\ c \in DataNodes /\ c \in Nodes /\ DataParent[c] = y
           /\ Len(c) > 1 /\ Len(y) < Len(c) /\ c[1] = y[1] /\ y \in Nodes
           /\ DataNames[Parent(c)] = DataNames[y]
           /\ DataNames[c] = Append(DataNames[y], Name(c)) /\ Name(c) \in Idents
           /\ \A x \in Nodes : Under(c, x) => /\ Under(y, x) /\ x # y
                                              /\ (ShownIn(y, x) <=> ShownFrom(c, x))
<1>1. c \in DataNodes /\ c \in Nodes /\ DataParent[c] = y /\ y \in Nodes
    BY DEF GetChildren, DataNodes
<1>2. /\ Len(y) \in Nat /\ Len(y) < Len(c) /\ y = SubSeq(c, 1, Len(y)) /\ DataNames[Parent(c)] = DataNames[y]
      /\ \A i \in Len(y) + 1 .. Len(c) - 1 : Transparent(SubSeq(c, 1, i))
    BY <1>1, DataParentAbove DEF AboveInData
<1>3. Len(c) \in Nat /\ Len(y) >= 1 /\ c \in Seq(Idents) /\ y \in Seq(Idents)
    BY <1>1, TreeFacts
<1>4. Len(c) > 1
    BY <1>2, <1>3
<1>5. DataNames[c] = Append(DataNames[y], Name(c)) /\ Name(c) \in Idents
    BY <1>1, <1>4, DataNamesOf, ParentShorter
<1>6. c[1] = y[1]
    BY <1>2, <1>3
<1>7. ASSUME NEW x \in Nodes, Under(c, x)
      PROVE  Under(y, x) /\ x # y /\ (ShownIn(y, x) <=> ShownFrom(c, x))
  <2>1. x \in Seq(Idents) /\ Len(x) \in Nat /\ Len(c) <= Len(x) /\ SubSeq(x, 1, Len(c)) = c
      BY <1>7, TreeFacts DEF Under
  <2>2. SubSeq(SubSeq(x, 1, Len(c)), 1, Len(y)) = SubSeq(x, 1, Len(y))
      BY <1>2, <1>3, <2>1
  <2>3. SubSeq(x, 1, Len(y)) = y
      BY <1>2, <2>1, <2>2
  <2>4. Len(y) < Len(x)
      BY <1>2, <1>3, <2>1
  <2>5. \A i \in Len(y) + 1 .. Len(c) - 1 : ~ Opaque(SubSeq(x, 1, i))
    <3>1. \A i \in Len(y) + 1 .. Len(c) - 1 : SubSeq(SubSeq(x, 1, Len(c)), 1, i) = SubSeq(x, 1, i)
        BY <1>2, <1>3, <2>1
    <3>2. \A i \in Len(y) + 1 .. Len(c) - 1 : Transparent(SubSeq(x, 1, i))
        BY <1>2, <2>1, <3>1
    <3>. QED  BY <3>2 DEF Opaque, Transparent
  <2>6. ShownIn(y, x) <=> ShownFrom(c, x)
    <3>1. /\ \A j \in Len(c) .. Len(x) - 1 : j \in Len(y) + 1 .. Len(x) - 1
          /\ \A j \in Len(y) + 1 .. Len(x) - 1 : j \in Len(c) .. Len(x) - 1 \/ j \in Len(y) + 1 .. Len(c) - 1
        BY <1>2, <1>3, <2>1
    <3>. QED  BY <2>5, <3>1 DEF ShownIn, ShownFrom
  <2>. QED  BY <1>2, <2>1, <2>3, <2>4, <2>6 DEF Under
<1>. QED  BY <1>1, <1>2, <1>4, <1>5, <1>6, <1>7

(* The leaves below y are those of its children in the data tree, but for  *)
(* the keys.                                                               *)
LEMMA LeavesByDataChild ==
    ASSUME tree \in Trees, NEW y \in DataNodes, ~ Opaque(y), NEW dt
    PROVE  LeavesBelow(y, dt) = UNION {Listed(c, dt) : c \in {d \in GetChildren(y) : ~ IsKey(y, d)}}
<1>. DEFINE k == Len(DataNames[y])
            C == {d \in GetChildren(y) : ~ IsKey(y, d)}
<1>1. LeavesBelow(y, dt) = {After(Stars[x], k) : x \in Inner(y, dt)}
    BY DEF LeavesBelow, Inner, ShownIn
<1>2. \A c \in C : Listed(c, dt) = {After(Stars[x], k) : x \in Outer(c, dt)}
    BY DataChild DEF Listed
<1>3. ASSUME NEW x \in Inner(y, dt)
      PROVE  \E c \in C : x \in Outer(c, dt)
  <2>1. /\ x \in DataNodes /\ x \in Nodes /\ y \in Nodes /\ IsStrictPrefix(y, x)
        /\ ~ IsDir(x) /\ ~ IsKey(Parent(x), x) /\ Wanted(x, dt) /\ ShownIn(y, x)
      BY DEF Inner, DataNodes
  <2>2. PICK c \in GetChildren(y) : Under(c, x)
      BY <2>1, UnderFacts, ChildOnTheWay
  <2>3. /\ c \in DataNodes /\ c \in Nodes /\ DataNames[c] = Append(DataNames[y], Name(c))
        /\ DataParent[c] = y
      BY DataChild
  <2>4. ~ IsKey(y, c)
    <3>1. SUFFICES ASSUME IsKey(y, c) PROVE FALSE
        OBVIOUS
    <3>. DEFINE d == Child(y, Name(c))
    <3>2. d \in Nodes /\ Kind(d) = "leaf" /\ d = Append(y, Name(c)) /\ Name(c) \in Idents
        BY <2>1, <3>1, KeyFacts DEF IsKey
    <3>. HIDE DEF d
    <3>3. d \in DataNodes /\ ~ IsDir(d)
        BY <3>2, TreeFacts DEF DataNodes, Transparent, IsDir
    <3>4. Parent(d) = y /\ Name(d) = Name(c)
        BY <2>1, <3>2, TreeFacts, FrontLastOfAppend DEF Parent, Name
    <3>5. DataNames[d] = Append(DataNames[y], Name(c))
        BY <3>2, <3>3, <3>4, DataNamesDef DEF DataNodes
    <3>6. d = c
        BY <2>3, <3>3, <3>5, DataNamesInjective
    <3>7. c = x
        BY <2>1, <2>2, <2>3, <3>3, <3>6, LeafEnds
    <3>. QED  BY <2>1, <3>1, <3>4, <3>6, <3>7
  <2>5. x \in Outer(c, dt)
    <3>1. x \in Nodes /\ Under(c, x) /\ ShownIn(y, x)
        BY <2>1, <2>2
    <3>2. ShownFrom(c, x)
        BY <3>1, DataChild
    <3>. QED  BY <2>1, <2>2, <3>2 DEF Outer
  <2>. QED  BY <2>4, <2>5
<1>4. ASSUME NEW c \in C, NEW x \in Outer(c, dt)
      PROVE  x \in Inner(y, dt)
  <2>1. c \in GetChildren(y) /\ ~ IsKey(y, c)
      OBVIOUS
  <2>2. /\ x \in DataNodes /\ x \in Nodes /\ Under(c, x) /\ ~ IsDir(x)
        /\ (x = c \/ ~ IsKey(Parent(x), x)) /\ Wanted(x, dt) /\ ShownFrom(c, x)
      BY DEF Outer, DataNodes
  <2>3. Under(y, x) /\ x # y /\ y \in Nodes /\ c \in Nodes /\ DataParent[c] = y /\ ShownIn(y, x)
      BY <2>1, <2>2, DataChild
  <2>4. ~ IsKey(Parent(x), x)
    <3>1. SUFFICES ASSUME x = c, IsKey(Parent(c), c) PROVE FALSE
        BY <2>2
    <3>2. Parent(c) \in Nodes
        BY <2>1, <2>3, DataChild, TreeFacts
    <3>3. Kind(Parent(c)) = "list"
        BY <3>1, <3>2, KeyFacts DEF IsKey
    <3>4. Parent(c) = y
        BY <2>3, <3>3, DataParentDef DEF Transparent
    <3>. QED  BY <2>1, <3>1, <3>4
  <2>5. IsStrictPrefix(y, x)
      BY <2>2, <2>3, UnderFacts
  <2>. QED  BY <2>2, <2>3, <2>4, <2>5 DEF Inner
<1>. HIDE DEF k, C
<1>5. Inner(y, dt) = UNION {Outer(c, dt) : c \in C}
    BY <1>3, <1>4
<1>6. LeavesBelow(y, dt) = UNION {Listed(c, dt) : c \in C}
    BY <1>1, <1>2, <1>5
<1>. QED  BY <1>6 DEF C

(* Lookup of the names, with the module of p. *)
Lookup(p, names) == GetSchema([p EXCEPT !.names = names])

(* What is below the node found under the names, if b is what is below     *)
(* those that are longer.                                                  *)
DbBelow(b, p, names, dt) ==
    LET n == Lookup(p, names)
        C == {c \in GetChildren(n) : ~ IsKey(n, c)}
        Leaves == {c \in C : ~ IsDir(c) /\ Wanted(c, dt)}
    IN  IF n = None THEN {Error}
        ELSE IF ~ IsDir(n) THEN (IF Wanted(n, dt) THEN {<<>>} ELSE {})
        ELSE {<<StarElem(c)>> : c \in Leaves}
               \union UNION {{InFront(StarElem(c), s) : s \in b[Append(names, Name(c))]} :
                                c \in {x \in C : IsDir(x)}}

IsDbBelow(b, p, dt) == \A names \in Seq(Idents) : b[names] = DbBelow(b, p, names, dt)

(* Nothing is found under more names than there can be. *)
LEMMA FoundNotTooLong ==
    ASSUME tree \in Trees, NEW p, p \in [mod : Modules \union {NoModule}, names : Seq(Idents)],
           NEW names \in Seq(Idents), Lookup(p, names) # None
    PROVE  Len(names) <= MaxDepth
<1>. DEFINE r == [p EXCEPT !.names = names]
            g == GetSchema(r)
<1>1. r.names = names /\ r.mod = p.mod /\ r.mod \in Modules \union {NoModule} /\ g # None
    BY DEF Lookup
<1>2. MaxDepth \in Nat /\ Len(names) \in Nat
    BY SchemaAssumption
<1>3. CASE names = <<>>
    BY <1>2, <1>3
<1>4. CASE names # <<>>
  <2>. HIDE DEF r
  <2>1. PICK m \in Searched(r) : g \in DataNodes /\ DataNames[g] = EntryKey(m, names)
      BY <1>1, <1>4, GetSchemaFinds
  <2>2. g \in Nodes /\ Len(g) \in Nat /\ Len(g) <= MaxDepth
      BY <1>2, <2>1, TreeFacts DEF DataNodes
  <2>3. Len(EntryKey(m, names)) >= Len(names) /\ Len(EntryKey(m, names)) \in Nat
    <3>1. Len(<<m>> \o names) = Len(names) + 1
        OBVIOUS
    <3>. QED  BY <1>2, <3>1 DEF EntryKey
  <2>4. Len(DataNames[g]) <= Len(g)
      BY <2>2, DataNamesNoLonger DEF NoChoiceIfLong
  <2>. HIDE DEF g
  <2>. QED  BY <1>2, <2>1, <2>2, <2>3, <2>4
<1>. QED  BY <1>3, <1>4

(* ExpandPath of the persistent store is what the recursion says. *)
LEMMA DbExpandDef ==
    ASSUME tree \in Trees, NEW dt, NEW p, p \in [mod : Modules \union {NoModule}, names : Seq(Idents)]
    PROVE  \E b : DbExpand(p, dt) = b[p.names] /\ IsDbBelow(b, p, dt)
<1>. DEFINE S == Seq(Idents)
            W == Seq(Elements) \union {Error, Panic}
            V == SUBSET W
            size == [s \in S |-> IF Len(s) <= MaxDepth THEN MaxDepth + 1 - Len(s) ELSE 0]
            F == [w \in S \X [S -> V] |-> DbBelow(w[2], p, w[1], dt)]
<1>1. /\ size \in [S -> Nat] /\ MaxDepth + 1 \in Nat
      /\ \A x \in S : size[x] <= MaxDepth + 1
  <2>1. \A s \in S : Len(s) \in Nat
      OBVIOUS
  <2>. HIDE DEF S
  <2>. QED  BY <2>1, SchemaAssumption
<1>2. ASSUME NEW x \in S, Lookup(p, x) # None, NEW c \in GetChildren(Lookup(p, x))
      PROVE  /\ Append(x, Name(c)) \in S /\ size[Append(x, Name(c))] < size[x]
             /\ StarElem(c) \in Elements
  <2>1. c \in Nodes
      BY DEF GetChildren, DataNodes
  <2>2. Name(c) \in Idents /\ StarElem(c) \in Elements
      BY <2>1, ParentShorter, ElemOfNode
  <2>3. Len(x) <= MaxDepth /\ Len(x) \in Nat
      BY <1>2, FoundNotTooLong
  <2>4. Append(x, Name(c)) \in S /\ Len(Append(x, Name(c))) = Len(x) + 1
      BY <2>2
  <2>. HIDE DEF S
  <2>5. size[Append(x, Name(c))] < size[x]
      BY <2>3, <2>4, SchemaAssumption
  <2>. QED  BY <2>2, <2>4, <2>5
<1>3. V # {}
    OBVIOUS
<1>4. ASSUME NEW x \in S, NEW g \in [S -> V]
      PROVE  DbBelow(g, p, x, dt) \in V
  <2>. DEFINE n == Lookup(p, x)
              C == {c \in GetChildren(n) : ~ IsKey(n, c)}
  <2>1. CASE n = None
      BY <2>1 DEF DbBelow
  <2>2. CASE n # None /\ ~ IsDir(n)
    <3>1. <<>> \in W
        BY EmptySeq
    <3>. QED  BY <2>2, <3>1 DEF DbBelow
  <2>3. CASE n # None /\ IsDir(n)
    <3>1. ASSUME NEW c \in C
          PROVE  /\ <<StarElem(c)>> \in W
                 /\ \A s \in g[Append(x, Name(c))] : InFront(StarElem(c), s) \in W
      <4>1. Append(x, Name(c)) \in S /\ StarElem(c) \in Elements
          BY <1>2, <2>3
      <4>2. g[Append(x, Name(c))] \subseteq W
          BY <4>1
      <4>3. ASSUME NEW s \in W
            PROVE  InFront(StarElem(c), s) \in W
        <5>1. s \in Seq(Elements) => <<StarElem(c)>> \o s \in Seq(Elements)
            BY <4>1
        <5>. QED  BY <5>1 DEF InFront
      <4>. QED  BY <4>1, <4>2, <4>3
    <3>. HIDE DEF C, n, W
    <3>2. DbBelow(g, p, x, dt) =
             {<<StarElem(c)>> : c \in {c \in C : ~ IsDir(c) /\ Wanted(c, dt)}}
               \union UNION {{InFront(StarElem(c), s) : s \in g[Append(x, Name(c))]} : c \in {y \in C : IsDir(y)}}
        BY <2>3 DEF DbBelow, n, C
    <3>3. {<<StarElem(c)>> : c \in {c \in C : ~ IsDir(c) /\ Wanted(c, dt)}} \subseteq W
        BY <3>1
    <3>4. UNION {{InFront(StarElem(c), s) : s \in g[Append(x, Name(c))]} : c \in {y \in C : IsDir(y)}} \subseteq W
      <4>1. \A c \in C : {InFront(StarElem(c), s) : s \in g[Append(x, Name(c))]} \subseteq W
          BY <3>1
      <4>. QED  BY <4>1
    <3>. QED  BY <3>2, <3>3, <3>4
  <2>. QED  BY <2>1, <2>2, <2>3
<1>5. F \in [S \X [S -> V] -> V]
  <2>. HIDE DEF V, S
  <2>. QED  BY <1>4
<1>6. ASSUME NEW x \in S, NEW g, NEW h, \A y \in S : size[y] < size[x] => g[y] = h[y]
      PROVE  DbBelow(g, p, x, dt) = DbBelow(h, p, x, dt)
  <2>. DEFINE n == Lookup(p, x)
              C == {c \in GetChildren(n) : ~ IsKey(n, c)}
  <2>1. CASE n = None
      BY <2>1 DEF DbBelow
  <2>2. CASE n # None
    <3>1. \A c \in C : g[Append(x, Name(c))] = h[Append(x, Name(c))]
        BY <1>2, <1>6, <2>2
    <3>. DEFINE Beneath(f) == UNION {{InFront(StarElem(c), s) : s \in f[Append(x, Name(c))]} : c \in {y \in C : IsDir(y)}}
    <3>2. Beneath(g) = Beneath(h)
      <4>. HIDE DEF C
      <4>. QED  BY <3>1
    <3>. HIDE DEF Beneath
    <3>3. \A f : DbBelow(f, p, x, dt) =
             IF n = None THEN {Error}
             ELSE IF ~ IsDir(n) THEN (IF Wanted(n, dt) THEN {<<>>} ELSE {})
             ELSE {<<StarElem(c)>> : c \in {c \in C : ~ IsDir(c) /\ Wanted(c, dt)}} \union Beneath(f)
        BY DEF DbBelow, Beneath
    <3>. HIDE DEF n, C
    <3>. QED  BY <3>2, <3>3
  <2>. QED  BY <2>1, <2>2
<1>7. IsRecursion(S, V, size, MaxDepth + 1, F)
  <2>. HIDE DEF size, S, V
  <2>1. \A x \in S : \A g, h \in [S -> V] :
           (\A y \in S : size[y] < size[x] => g[y] = h[y]) => F[<<x, g>>] = F[<<x, h>>]
      BY <1>6
  <2>. HIDE DEF F
  <2>. QED  BY <1>1, <1>3, <1>5, <2>1 DEF IsRecursion
<1>. HIDE DEF size, F, S, V
<1>8. PICK g \in [S -> V] : \A x \in S : g[x] = F[<<x, g>>]
    BY <1>7, Recursion
<1>9. \A x \in S : g[x] = DbBelow(g, p, x, dt)
    BY <1>8 DEF F
<1>10. g = [x \in S |-> DbBelow(g, p, x, dt)]
    BY <1>8, <1>9
<1>. DEFINE A == CHOOSE f : f = [x \in S |-> DbBelow(f, p, x, dt)]
<1>11. A = [x \in S |-> DbBelow(A, p, x, dt)]
    BY <1>10
<1>12. DbExpand(p, dt) = A[p.names]
    BY DEF DbExpand, DbBelow, Lookup, S
<1>. HIDE DEF A
<1>. QED  BY <1>11, <1>12 DEF S, IsDbBelow

(* If the names of y lead to it, so do those of its children: a module     *)
(* that is tried first would have hidden y too.                            *)
LEMMA ChildrenFound ==
    ASSUME tree \in Trees, NEW p, p \in [mod : Modules \union {NoModule}, names : Seq(Idents)],
           NEW y \in DataNodes, Len(y) > 1, Names(y)[1] \notin Modules, Lookup(p, Names(y)) = y,
           NEW c \in GetChildren(y)
    PROVE  /\ Names(c) = Append(Names(y), Name(c)) /\ Names(c)[1] \notin Modules
           /\ Lookup(p, Names(c)) = c
<1>1. /\ c \in DataNodes /\ Len(c) > 1 /\ c[1] = y[1] /\ Name(c) \in Idents
      /\ DataNames[c] = Append(DataNames[y], Name(c))
    BY DataChild
<1>2. /\ y[1] \in Modules /\ DataNames[y] = <<y[1]>> \o Names(y) /\ Names(y) \in Seq(Idents) /\ Names(y) # <<>>
      /\ DataNames[c] = <<c[1]>> \o Names(c) /\ Names(c) \in Seq(Idents) /\ Names(c) # <<>>
      /\ Head(Names(y)) = Names(y)[1] /\ Head(Names(c)) = Names(c)[1]
    BY <1>1, NamesOfNode
<1>. DEFINE ny == Names(y)
            nc == Names(c)
<1>3. nc = Append(ny, Name(c)) /\ nc[1] = ny[1]
  <2>. HIDE DEF ny, nc
  <2>1. ASSUME NEW a \in Idents, NEW s \in Seq(Idents), NEW t \in Seq(Idents), NEW d \in Idents,
               Append(<<a>> \o s, d) = <<a>> \o t
        PROVE  t = Append(s, d)
    <3>1. Append(<<a>> \o s, d) = <<a>> \o Append(s, d) /\ Append(s, d) \in Seq(Idents)
      <4>0. <<a>> \in Seq(Idents)
          OBVIOUS
      <4>1. PICK b \in Seq(Idents) : b = <<a>>
          BY <4>0
      <4>2. Append(b \o s, d) = b \o Append(s, d)
        <5>1. \A u \in Seq(Idents) : Append(u, d) = u \o <<d>>
            OBVIOUS
        <5>2. <<d>> \in Seq(Idents) /\ b \o s \in Seq(Idents)
            BY ConcatProperties
        <5>3. (b \o s) \o <<d>> = b \o (s \o <<d>>)
            BY <5>2, ConcatAssociative
        <5>4. Append(b \o s, d) = (b \o s) \o <<d>>
            BY <5>1, <5>2, Zenon
        <5>5. Append(s, d) = s \o <<d>>
            BY <5>1, Zenon
        <5>. QED  BY <5>3, <5>4, <5>5, Zenon
      <4>3. Append(s, d) \in Seq(Idents)
          OBVIOUS
      <4>. QED  BY <4>1, <4>2, <4>3, Zenon
    <3>2. Tail(<<a>> \o Append(s, d)) = Append(s, d) /\ Tail(<<a>> \o t) = t
        BY <3>1
    <3>. QED  BY <2>1, <3>1, <3>2
  <2>2. nc = Append(ny, Name(c))
    <3>1. Append(<<y[1]>> \o ny, Name(c)) = <<y[1]>> \o nc /\ y[1] \in Idents
        BY <1>1, <1>2, ModulesAssumption DEF ny, nc
    <3>2. ny \in Seq(Idents) /\ nc \in Seq(Idents) /\ Name(c) \in Idents
        BY <1>1, <1>2 DEF ny, nc
    <3>. QED  BY <2>1, <3>1, <3>2
  <2>3. Append(ny, Name(c))[1] = ny[1]
      BY <1>1, <1>2 DEF ny
  <2>. QED  BY <2>2, <2>3
<1>4. \A m \in Modules : EntryKey(m, ny) = <<m>> \o ny /\ EntryKey(m, nc) = <<m>> \o nc
    BY <1>2, <1>3 DEF EntryKey
<1>. DEFINE ry == [p EXCEPT !.names = ny]
            rc == [p EXCEPT !.names = nc]
            M == Searched(ry)
<1>5. /\ ry.names = ny /\ ry.mod \in Modules \union {NoModule} /\ rc.names = nc
      /\ rc.mod \in Modules \union {NoModule} /\ Searched(rc) = M /\ M \subseteq Modules
      /\ ny \in Seq(Idents) /\ ny # <<>> /\ nc \in Seq(Idents) /\ nc # <<>>
  <2>1. /\ ny \in Seq(Idents) /\ ny # <<>> /\ nc \in Seq(Idents) /\ nc # <<>>
      BY <1>2
  <2>. HIDE DEF ny, nc
  <2>. QED  BY <2>1 DEF Searched
<1>6. GetSchema(ry) = y
    BY DEF Lookup
<1>. HIDE DEF ry, rc, ny, nc, M
<1>7. \A m : (<<m>> \o ny)[1] = m
    BY <1>5
<1>8. PICK m \in M : /\ DataNames[y] = EntryKey(m, ny)
                     /\ \A x \in M, d \in DataNodes : DataNames[d] = EntryKey(x, ny) => Rank[m] <= Rank[x]
  <2>1. \/ GetSchema(ry) = None
        \/ \E m \in Searched(ry) :
              /\ DataNames[GetSchema(ry)] = EntryKey(m, ny)
              /\ \A x \in Searched(ry), d \in DataNodes : DataNames[d] = EntryKey(x, ny) => Rank[m] <= Rank[x]
      BY <1>5, GetSchemaFinds
  <2>. QED  BY <1>6, <2>1, NoneIsNoNode DEF M
<1>9. m = y[1]
  <2>1. DataNames[y] = <<m>> \o ny
      BY <1>4, <1>5, <1>8
  <2>2. DataNames[y] = <<y[1]>> \o ny
      BY <1>2 DEF ny
  <2>3. (<<m>> \o ny)[1] = m /\ (<<y[1]>> \o ny)[1] = y[1]
      BY <1>7
  <2>. QED  BY <2>1, <2>2, <2>3
<1>. DEFINE e == GetSchema(rc)
<1>10. DataNames[c] = EntryKey(m, nc)
    BY <1>1, <1>2, <1>4, <1>9 DEF nc
<1>11. PICK x \in M : /\ e \in DataNodes /\ DataNames[e] = EntryKey(x, nc)
                      /\ \A z \in M, d \in DataNodes : DataNames[d] = EntryKey(z, nc) => Rank[x] <= Rank[z]
  <2>1. \/ \A x \in Searched(rc), d \in DataNodes : DataNames[d] # EntryKey(x, nc)
        \/ \E x \in Searched(rc) :
              /\ e \in DataNodes /\ DataNames[e] = EntryKey(x, nc)
              /\ \A z \in Searched(rc), d \in DataNodes : DataNames[d] = EntryKey(z, nc) => Rank[x] <= Rank[z]
      BY <1>5, GetSchemaFinds
  <2>. HIDE DEF e
  <2>. QED  BY <1>1, <1>5, <1>10, <2>1
<1>. HIDE DEF e
<1>12. Rank[x] <= Rank[m]
    BY <1>1, <1>8, <1>10, <1>11
<1>13. Rank[m] <= Rank[x]
  <2>1. DataNames[e] = <<x>> \o nc /\ x \in Modules /\ x \in Idents
      BY <1>4, <1>5, <1>11, ModulesAssumption
  <2>2. DataNames[e] = Append(<<x>> \o ny, Name(c)) /\ <<x>> \o ny \in Seq(Idents) /\ Len(<<x>> \o ny) >= 1
    <3>1. ny \in Seq(Idents) /\ Name(c) \in Idents /\ nc = Append(ny, Name(c))
        BY <1>1, <1>2, <1>3 DEF ny
    <3>. HIDE DEF ny, nc
    <3>2. PICK b \in Seq(Idents) : b = <<x>> /\ Len(b) >= 1
      <4>1. <<x>> \in Seq(Idents) /\ Len(<<x>>) >= 1
          BY <2>1
      <4>. QED  BY <4>1
    <3>3. b \o Append(ny, Name(c)) = Append(b \o ny, Name(c)) /\ b \o ny \in Seq(Idents) /\ Len(b \o ny) >= 1
        BY <3>1, <3>2
    <3>. QED  BY <2>1, <3>1, <3>2, <3>3, Zenon
  <2>3. Len(DataNames[e]) > 1
      BY <1>1, <2>2
  <2>4. Len(e) > 1
    <3>1. ~ (Len(e) > 1) => DataNames[e] = <<e[1]>>
        BY <1>11, DataNamesOf
    <3>2. ~ (Len(<<e[1]>>) > 1)
        OBVIOUS
    <3>. QED  BY <2>3, <3>1, <3>2
  <2>5. /\ DataParent[e] \in DataNodes /\ DataNames[e] = Append(DataNames[DataParent[e]], Name(e))
        /\ DataNames[DataParent[e]] \in Seq(Idents) /\ Name(e) \in Idents
      BY <1>11, <2>4, DataNamesOf, ParentShorter DEF DataNodes
  <2>6. DataNames[DataParent[e]] = <<x>> \o ny
    <3>1. Front(DataNames[e]) = DataNames[DataParent[e]]
        BY <2>5, FrontLastOfAppend
    <3>2. Front(DataNames[e]) = <<x>> \o ny
        BY <1>1, <2>2, FrontLastOfAppend
    <3>. QED  BY <3>1, <3>2
  <2>. QED  BY <1>4, <1>8, <2>1, <2>5, <2>6
<1>14. x = m
  <2>1. x \in Modules /\ m \in Modules
      BY <1>5
  <2>. QED  BY <1>12, <1>13, <2>1, ModulesAssumption
<1>15. e = c
    BY <1>1, <1>10, <1>11, <1>14, DataNamesInjective
<1>. QED  BY <1>3, <1>15 DEF Lookup, e, rc, nc, ny

(* What containerFromYEntry and the lookups below it list for y. *)
DbLists(y, dt) == IF Opaque(y) THEN {} ELSE LeavesBelow(y, dt)

(* The persistent store lists the leaves below an element that its names   *)
(* lead to.                                                                *)
LEMMA DbExpandLists ==
    ASSUME tree \in Trees, NEW dt, NEW p, p \in [mod : Modules \union {NoModule}, names : Seq(Idents)],
           NEW b, IsDbBelow(b, p, dt)
    PROVE  \A y \in DataNodes :
              Len(y) > 1 /\ Names(y)[1] \notin Modules /\ Lookup(p, Names(y)) = y /\ IsDir(y)
              => b[Names(y)] = DbLists(y, dt)
<1>. DEFINE Found(y) == Len(y) > 1 /\ Names(y)[1] \notin Modules /\ Lookup(p, Names(y)) = y /\ IsDir(y)
            B == {y \in DataNodes : Found(y) /\ b[Names(y)] # DbLists(y, dt)}
<1>1. ASSUME NEW y \in DataNodes, Found(y),
             \A c \in GetChildren(y) : Found(c) => b[Names(c)] = DbLists(c, dt)
      PROVE  b[Names(y)] = DbLists(y, dt)
  <2>1. Names(y) \in Seq(Idents) /\ y # None
      BY NamesOfNode, NoneIsNoNode
  <2>. DEFINE C == {c \in GetChildren(y) : ~ IsKey(y, c)}
  <2>2. b[Names(y)] = {<<StarElem(c)>> : c \in {c \in C : ~ IsDir(c) /\ Wanted(c, dt)}}
                        \union UNION {{InFront(StarElem(c), s) : s \in b[Append(Names(y), Name(c))]} :
                                         c \in {x \in C : IsDir(x)}}
    <3>1. b[Names(y)] = DbBelow(b, p, Names(y), dt)
        BY <2>1 DEF IsDbBelow
    <3>. QED  BY <1>1, <2>1, <3>1 DEF DbBelow
  <2>10. CASE Opaque(y)
    <3>1. C = {}
        BY <2>10 DEF GetChildren
    <3>. HIDE DEF C
    <3>. QED  BY <2>2, <2>10, <3>1 DEF DbLists
  <2>11. SUFFICES ASSUME ~ Opaque(y) PROVE b[Names(y)] = LeavesBelow(y, dt)
      BY <2>10 DEF DbLists
  <2>3. LeavesBelow(y, dt) = UNION {Listed(c, dt) : c \in C}
      BY <2>11, LeavesByDataChild
  <2>4. \A c \in C : c \in Nodes /\ ~ Transparent(c)
      BY DataChild DEF DataNodes
  <2>5. \A c \in C : ~ IsDir(c) => Listed(c, dt) = IF Wanted(c, dt) THEN {<<StarElem(c)>>} ELSE {}
    <3>1. \A c \in C : ~ IsDir(c) => ~ Opaque(c)
        BY DEF IsDir, Opaque
    <3>. QED  BY <2>4, <3>1, ListedOf
  <2>6. ASSUME NEW c \in C, IsDir(c)
        PROVE  Listed(c, dt) = {InFront(StarElem(c), s) : s \in b[Append(Names(y), Name(c))]}
    <3>1. Listed(c, dt) = {<<StarElem(c)>> \o s : s \in DbLists(c, dt)} /\ DbLists(c, dt) \subseteq Seq(Elements)
      <4>1. LeavesBelow(c, dt) \subseteq Seq(Elements)
          BY <2>4, ListedOf
      <4>2. CASE Opaque(c)
          BY <2>4, <4>2, ListedOf DEF DbLists
      <4>3. CASE ~ Opaque(c)
          BY <2>4, <2>6, <4>1, <4>3, ListedOf DEF DbLists
      <4>. QED  BY <4>2, <4>3
    <3>2. Names(c) = Append(Names(y), Name(c)) /\ Found(c)
      <4>1. Len(c) > 1
          BY DataChild
      <4>. QED  BY <1>1, <2>6, <4>1, ChildrenFound
    <3>3. b[Append(Names(y), Name(c))] = DbLists(c, dt)
        BY <1>1, <3>2
    <3>4. \A s \in DbLists(c, dt) : InFront(StarElem(c), s) = <<StarElem(c)>> \o s
      <4>1. {Error, Panic} \intersect Seq(Elements) = {}
          BY ValuesAssumption
      <4>. QED  BY <3>1, <4>1 DEF InFront
    <3>. HIDE DEF C
    <3>. QED  BY <3>1, <3>3, <3>4
  <2>. HIDE DEF C
  <2>7. \A s : s \in LeavesBelow(y, dt) => s \in b[Names(y)]
    <3>1. ASSUME NEW c \in C, NEW s \in Listed(c, dt)
          PROVE  s \in b[Names(y)]
      <4>1. CASE IsDir(c)
          BY <2>2, <2>6, <3>1, <4>1
      <4>2. CASE ~ IsDir(c)
          BY <2>2, <2>5, <3>1, <4>2
      <4>. QED  BY <4>1, <4>2
    <3>. QED  BY <2>3, <3>1
  <2>8. \A s : s \in b[Names(y)] => s \in LeavesBelow(y, dt)
    <3>1. ASSUME NEW c \in C, ~ IsDir(c), Wanted(c, dt)
          PROVE  <<StarElem(c)>> \in LeavesBelow(y, dt)
        BY <2>3, <2>5, <3>1
    <3>2. ASSUME NEW c \in C, IsDir(c), NEW s \in b[Append(Names(y), Name(c))]
          PROVE  InFront(StarElem(c), s) \in LeavesBelow(y, dt)
        BY <2>3, <2>6, <3>2
    <3>. QED  BY <2>2, <3>1, <3>2
  <2>9. \E S1, S2 : b[Names(y)] = S1 \union S2
      BY <2>2
  <2>. QED  BY <2>3, <2>7, <2>8, <2>9
<1>2. ASSUME NEW y \in B
      PROVE  \E c \in B : Len(y) < Len(c)
  <2>1. PICK c \in GetChildren(y) : Found(c) /\ b[Names(c)] # DbLists(c, dt)
      BY <1>1
  <2>2. c \in DataNodes /\ Len(y) < Len(c)
      BY DataChild
  <2>. QED  BY <2>1, <2>2
<1>3. B = {}
  <2>1. B \in SUBSET Nodes
      BY DEF DataNodes
  <2>. HIDE DEF B
  <2>. QED  BY <1>2, <2>1, DownInduction
<1>. QED  BY <1>3

(* Both stores list the leaves below an element. *)
LEMMA BothExpand ==
    ASSUME tree \in Trees, NEW dt, NEW p, p \in [mod : Modules \union {NoModule}, names : Seq(Idents)], AsOne(p),
           NEW n, n = GetSchema(p), n # None, IsDir(n), AtTop(n), InView(n)
    PROVE  /\ GetEntry(p) = n
           /\ MemExpand(n, dt) = LeavesBelow(n, dt)
           /\ DbExpand(p, dt) = DbLists(n, dt)
<1>1. GetEntry(p) = n
    BY SameAnswer
<1>2. p.names \in Seq(Idents) /\ p.names # <<>> /\ Head(p.names) \notin Modules
    BY DEF AsOne
<1>3. PICK m \in Modules : n \in DataNodes /\ DataNames[n] = <<m>> \o p.names
  <2>1. PICK m \in Searched(p) : n \in DataNodes /\ DataNames[n] = EntryKey(m, p.names)
      BY <1>2, GetSchemaFinds
  <2>. QED  BY <2>1, SearchedAlike
<1>4. Names(n) = p.names
    BY <1>2, <1>3 DEF Names
<1>5. n \in Nodes /\ Len(n) > 1
  <2>1. ~ (Len(n) > 1) => DataNames[n] = <<n[1]>>
      BY <1>3, DataNamesOf
  <2>2. Tail(<<n[1]>>) = <<>>
      OBVIOUS
  <2>. QED  BY <1>2, <1>3, <1>4, <2>1, <2>2 DEF Names, DataNodes
<1>6. MemExpand(n, dt) = LeavesBelow(n, dt)
    BY <1>5, MemExpandLists
<1>7. PICK b : DbExpand(p, dt) = b[p.names] /\ IsDbBelow(b, p, dt)
    BY DbExpandDef
<1>8. Lookup(p, Names(n)) = n
  <2>1. [p EXCEPT !.names = p.names] = p
      OBVIOUS
  <2>. QED  BY <1>4, <2>1 DEF Lookup
<1>9. Names(n)[1] \notin Modules
    BY <1>2, <1>4
<1>10. b[Names(n)] = DbLists(n, dt)
    BY <1>3, <1>5, <1>7, <1>8, <1>9, DbExpandLists
<1>. QED  BY <1>1, <1>4, <1>6, <1>7, <1>10

(* ExpandsAgree: both stores list exactly the leaves below an element, but *)
(* those in a notification in it, whatever the schema, as long as its path *)
(* means the same to both; asked about a notification itself the           *)
(* persistent store lists nothing.                                         *)
THEOREM ExpandsAgreeHolds == Spec => []ExpandsAgree
<1>1. Init => ExpandsAgree
    BY DEF Init, ExpandsAgree
<1>2. ASSUME tree \in Trees, ExpandsAgree, [Next]_vars
      PROVE  ExpandsAgree'
  <2>1. ASSUME tree' = tree
        PROVE  \A p, n, dt : /\ GetSchema(p)' = GetSchema(p) /\ LeavesBelow(n, dt)' = LeavesBelow(n, dt)
                             /\ IsDir(n)' = IsDir(n) /\ AtTop(n)' = AtTop(n)
                             /\ InView(n)' = InView(n) /\ Opaque(n)' = Opaque(n)
    <3>1. \A n : IsDir(n)' = IsDir(n) /\ AtTop(n)' = AtTop(n) /\ InView(n)' = InView(n) /\ Opaque(n)' = Opaque(n)
        BY <2>1 DEF IsDir, AtTop, InView, Opaque, HasChild, Child, Nodes, Transparent, Kind, Parent, Name, Names, DataNames
    <3>2. \A p : GetSchema(p)' = GetSchema(p)
        BY <2>1 DEF GetSchema, EntryPath, GetEntryPath, DataParent, DataNodes, Nodes, Transparent, Kind, Parent, Name
    <3>3. \A n, dt : LeavesBelow(n, dt)' = LeavesBelow(n, dt)
        BY <2>1 DEF LeavesBelow, IsDir, Opaque, DataNodes, Nodes, Transparent, Kind, Parent, Name, DataNames, Stars,
                    StarElem, Star, KeysOf, Elem, IsKey, Wanted, IsState
    <3>. QED  BY <3>1, <3>2, <3>3
  <2>2. CASE AskExpand
    <3>1. PICK x \in DataNodes \union {<<>>}, m \in {FALSE, TRUE}, dt \in {"ALL", "CONFIG", "STATE"} :
             LET p == PathOf(x, m)
             IN  /\ q' = [mod |-> p.mod, names |-> p.names, dt |-> dt]
                 /\ mem' = IF GetEntry(p) = None THEN [base |-> Error, below |-> {Error}]
                           ELSE [base |-> PopulatePathKeys(GetEntry(p), p.names),
                                 below |-> MemExpand(GetEntry(p), dt)]
                 /\ db' = DbExpand(p, dt)
        BY <2>2, Zenon DEF AskExpand
    <3>. DEFINE p == PathOf(x, m)
                n == GetSchema(p)
    <3>2. p \in [mod : Modules \union {NoModule}, names : Seq(Idents)]
      <4>1. /\ p.names \in Seq(Idents) /\ p.mod \in Modules \union {NoModule}
            /\ p = [mod |-> p.mod, names |-> p.names]
          BY <1>2, PathOfNames
      <4>. HIDE DEF p
      <4>. QED  BY <4>1
    <3>. HIDE DEF p
    <3>3. /\ q' = [mod |-> p.mod, names |-> p.names, dt |-> dt]
          /\ GetEntry(p) # None => mem'.below = MemExpand(GetEntry(p), dt)
          /\ db' = DbExpand(p, dt)
        BY <3>1 DEF p
    <3>4. q'.names = p.names /\ q'.mod = p.mod /\ q'.dt = dt
        BY <3>3
    <3>5. GetSchema(q') = n
        BY <3>4 DEF GetSchema
    <3>6. tree' = tree
        BY <2>2 DEF AskExpand
    <3>7. SamePath' => AsOne(p)
        BY <3>2, <3>4, ValuesAssumption DEF SamePath, AsOne, OwnPrefix
    <3>8. ASSUME SamePath', n # None, IsDir(n), AtTop(n), InView(n)
          PROVE  mem'.below = LeavesBelow(n, dt) /\ db' = IF Opaque(n) THEN {} ELSE LeavesBelow(n, dt)
      <4>1. /\ GetEntry(p) = n /\ MemExpand(n, dt) = LeavesBelow(n, dt)
            /\ DbExpand(p, dt) = IF Opaque(n) THEN {} ELSE LeavesBelow(n, dt)
          BY <1>2, <3>2, <3>7, <3>8, BothExpand DEF DbLists
      <4>. QED  BY <3>3, <3>8, <4>1
    <3>9. GetSchema(q)' = n
        BY <2>1, <3>5, <3>6
    <3>. HIDE DEF n
    <3>. QED  BY <2>1, <3>4, <3>6, <3>8, <3>9 DEF ExpandsAgree
  <2>3. CASE Load \/ AskSchema \/ AskToPath
    <3>1. op' # "expand"
        BY <2>3 DEF Load, AskSchema, AskToPath
    <3>. QED  BY <3>1 DEF ExpandsAgree
  <2>4. CASE UNCHANGED vars
    <3>1. /\ op' = op /\ tree' = tree /\ q' = q /\ mem' = mem /\ db' = db
        BY <2>4 DEF vars
    <3>. QED  BY <1>2, <2>1, <3>1 DEF ExpandsAgree, SamePath, OwnPrefix
  <2>. QED  BY <1>2, <2>2, <2>3, <2>4 DEF Next
<1>. QED  BY <1>1, <1>2, TreeStays, PTL DEF Spec

-----------------------------------------------------------------------------
(* Keys in the order of their names *)

(* The keys are a sequence of different names with values. *)
LEMMA KeysOfNode ==
    ASSUME tree \in Trees, NEW a \in Nodes
    PROVE  /\ KeysOf(a) \in Seq(Idents) /\ IsInjective(KeysOf(a)) /\ KeysOf(a) = tree[a].keys
           /\ Range(KeysOf(a)) \subseteq DOMAIN Value /\ Range(KeysOf(a)) \subseteq Idents
           /\ ~ IsDir(a) => Len(KeysOf(a)) = 0
<1>1. a # <<>>
    BY TreeFacts
<1>2. KeysOf(a) = tree[a].keys
    BY <1>1 DEF KeysOf
<1>3. IsSchema(tree)
    BY SchemaAssumption
<1>4. tree[a].keys \in Seq(Idents) /\ IsInjective(tree[a].keys)
    BY <1>3 DEF IsSchema, Nodes
<1>5. Range(tree[a].keys) \subseteq DOMAIN Value
    BY KeysAssumption DEF Nodes
<1>6. Range(KeysOf(a)) \subseteq Idents
    BY KeyFacts
<1>7. ASSUME ~ IsDir(a)
      PROVE  Len(KeysOf(a)) = 0
  <2>1. Range(KeysOf(a)) = {}
      BY <1>7, KeyFacts DEF IsDir
  <2>2. KeysOf(a) \in Seq(Idents) /\ Len(KeysOf(a)) \in Nat
      BY <1>2, <1>4
  <2>3. \A i \in 1..Len(KeysOf(a)) : KeysOf(a)[i] \in Range(KeysOf(a))
      BY <2>2 DEF Range
  <2>4. ~ (Len(KeysOf(a)) >= 1)
      BY <2>1, <2>2, <2>3
  <2>. QED  BY <2>2, <2>4
<1>. QED  BY <1>2, <1>4, <1>5, <1>6, <1>7

(* In the order of their names there are as many, and no others. *)
LEMMA SortedKeysOf ==
    ASSUME tree \in Trees, NEW a \in Nodes
    PROVE  /\ SortedKeys(a) \in Seq(Range(KeysOf(a)))
           /\ Len(SortedKeys(a)) = Len(KeysOf(a))
           /\ \A j \in 1..Len(KeysOf(a)) : SortedKeys(a)[j] \in Range(KeysOf(a))
           /\ \A k \in Range(KeysOf(a)) : \E j \in 1..Len(KeysOf(a)) : SortedKeys(a)[j] = k
<1>. DEFINE K == Range(KeysOf(a))
            N == Len(KeysOf(a))
            Before(k) == {l \in K : Rank[l] < Rank[k]}
<1>1. KeysOf(a) \in Seq(Idents) /\ IsInjective(KeysOf(a)) /\ K \subseteq DOMAIN Value
    BY KeysOfNode
<1>2. N \in Nat /\ DOMAIN KeysOf(a) = 1..N
    BY <1>1
<1>3. ExistsBijection(1..N, K)
  <2>1. KeysOf(a) \in [1..N -> K]
    <3>1. KeysOf(a) = [i \in 1..N |-> KeysOf(a)[i]]
        BY <1>1, <1>2
    <3>2. \A i \in 1..N : KeysOf(a)[i] \in K
        BY <1>2 DEF Range
    <3>. HIDE DEF K, N
    <3>. QED  BY <3>1, <3>2
  <2>2. \A k \in K : \E i \in 1..N : KeysOf(a)[i] = k
      BY <1>2 DEF Range
  <2>3. KeysOf(a) \in Bijection(1..N, K)
    <3>. HIDE DEF K, N
    <3>. QED  BY <1>1, <2>1, <2>2 DEF Bijection, Injection, Surjection
  <2>. QED  BY <2>3 DEF ExistsBijection
<1>. HIDE DEF K, N
<1>4. IsFiniteSet(K) /\ Cardinality(K) = N
    BY <1>2, <1>3, FS_NatBijection, FS_CountingElements
<1>5. \A k, l \in K : Rank[k] \in Nat /\ (Rank[k] = Rank[l] => k = l)
    BY <1>1, KeysAssumption
<1>6. \A k \in K : IsFiniteSet(Before(k)) /\ Cardinality(Before(k)) \in Nat
  <2>1. \A k : Before(k) \in SUBSET K
      OBVIOUS
  <2>. HIDE DEF Before
  <2>. QED  BY <1>4, <2>1, FS_Subset, FS_CardinalityType
<1>7. \A k, l \in K : Rank[k] < Rank[l] => Cardinality(Before(k)) < Cardinality(Before(l))
  <2>1. ASSUME NEW k \in K, NEW l \in K, Rank[k] < Rank[l]
        PROVE  Cardinality(Before(k)) < Cardinality(Before(l))
    <3>1. Before(k) \in SUBSET Before(l)
        BY <1>5, <2>1
    <3>2. k \in Before(l) /\ k \notin Before(k)
        BY <1>5, <2>1
    <3>3. IsFiniteSet(Before(l)) /\ Cardinality(Before(k)) \in Nat /\ Cardinality(Before(l)) \in Nat
        BY <1>6
    <3>. HIDE DEF Before
    <3>4. Cardinality(Before(k)) <= Cardinality(Before(l)) /\ Cardinality(Before(l)) # Cardinality(Before(k))
        BY <3>1, <3>2, <3>3, FS_Subset
    <3>. QED  BY <3>3, <3>4
  <2>. QED  BY <2>1
<1>8. \A k \in K : Cardinality(Before(k)) < N
  <2>1. ASSUME NEW k \in K
        PROVE  Cardinality(Before(k)) < N
    <3>1. Before(k) \in SUBSET K /\ k \notin Before(k)
        BY <1>5
    <3>. HIDE DEF Before
    <3>2. Cardinality(Before(k)) <= Cardinality(K) /\ Cardinality(K) # Cardinality(Before(k))
        BY <1>4, <3>1, FS_Subset
    <3>. QED  BY <1>2, <1>4, <1>6, <3>2
  <2>. QED  BY <2>1
<1>. DEFINE pos == [k \in K |-> Cardinality(Before(k)) + 1]
<1>9. pos \in Injection(K, 1..N)
  <2>1. \A k \in K : Cardinality(Before(k)) + 1 \in 1..N
    <3>. HIDE DEF Before
    <3>. QED  BY <1>2, <1>6, <1>8
  <2>2. \A k, l \in K : Cardinality(Before(k)) = Cardinality(Before(l)) => k = l
    <3>. HIDE DEF Before
    <3>1. ASSUME NEW k \in K, NEW l \in K, k # l, Cardinality(Before(k)) = Cardinality(Before(l))
          PROVE  FALSE
      <4>1. Rank[k] < Rank[l] \/ Rank[l] < Rank[k]
          BY <1>5, <3>1
      <4>. QED  BY <1>6, <1>7, <3>1, <4>1
    <3>. QED  BY <3>1
  <2>. HIDE DEF Before
  <2>3. pos \in [K -> 1..N]
      BY <2>1
  <2>4. IsInjective(pos)
      BY <1>6, <2>2 DEF IsInjective
  <2>. QED  BY <2>3, <2>4 DEF Injection
<1>10. \A i \in 1..N : \E k \in K : Cardinality(Before(k)) = i - 1
  <2>1. IsFiniteSet(1..N) /\ Cardinality(1..N) = N
    <3>1. IsFiniteSet(1..N) /\ Cardinality(1..N) = IF 1 > N THEN 0 ELSE N - 1 + 1
        BY <1>2, FS_Interval
    <3>. QED  BY <1>2, <3>1
  <2>. HIDE DEF Before
  <2>2. pos \in Surjection(K, 1..N)
    <3>. HIDE DEF pos
    <3>. QED  BY <1>4, <1>9, <2>1, FS_Injection
  <2>3. \A i \in 1..N : \E k \in K : pos[k] = i
    <3>. HIDE DEF pos
    <3>. QED  BY <2>2 DEF Surjection
  <2>4. \A k \in K : pos[k] = Cardinality(Before(k)) + 1
      OBVIOUS
  <2>. HIDE DEF pos
  <2>5. ASSUME NEW i \in 1..N
        PROVE  \E k \in K : Cardinality(Before(k)) = i - 1
    <3>1. PICK k \in K : pos[k] = i
        BY <2>3
    <3>2. Cardinality(Before(k)) + 1 = i /\ Cardinality(Before(k)) \in Nat /\ i \in Int
        BY <1>2, <1>6, <2>4, <3>1
    <3>3. Cardinality(Before(k)) = i - 1
        BY <3>2
    <3>. QED  BY <3>3
  <2>. QED  BY <2>5
<1>11. SortedKeys(a) = [i \in 1..N |-> CHOOSE k \in K : Cardinality(Before(k)) = i - 1]
    BY <1>4 DEF SortedKeys, K
<1>. HIDE DEF Before
<1>12. \A i \in 1..N : SortedKeys(a)[i] \in K
    BY <1>10, <1>11
<1>13. SortedKeys(a) \in Seq(K) /\ Len(SortedKeys(a)) = N
  <2>1. SortedKeys(a) = [i \in 1..N |-> SortedKeys(a)[i]]
      BY <1>11
  <2>. QED  BY <1>2, <1>12, <2>1
<1>14. ASSUME NEW k \in K
       PROVE  \E j \in 1..N : SortedKeys(a)[j] = k
  <2>. DEFINE j == Cardinality(Before(k)) + 1
  <2>1. j = pos[k] /\ Cardinality(Before(k)) \in Nat
      BY <1>6
  <2>2. j \in 1..N /\ j - 1 = Cardinality(Before(k))
    <3>. HIDE DEF pos
    <3>. QED  BY <1>9, <2>1 DEF Injection
  <2>. HIDE DEF j
  <2>3. SortedKeys(a)[j] = CHOOSE l \in K : Cardinality(Before(l)) = j - 1
      BY <1>11, <2>2
  <2>4. PICK l : l = SortedKeys(a)[j] /\ l \in K /\ Cardinality(Before(l)) = j - 1
      BY <2>2, <2>3
  <2>5. pos[l] = pos[k]
      BY <2>1, <2>2, <2>4
  <2>6. l = k
    <3>. HIDE DEF pos
    <3>. QED  BY <1>9, <2>4, <2>5 DEF Injection, IsInjective
  <2>. QED  BY <2>2, <2>4, <2>6
<1>. QED  BY <1>12, <1>13, <1>14 DEF K, N


-----------------------------------------------------------------------------
(* The way to a node, in a row *)

(* There is one node at every place on the way to n, with the names that   *)
(* far, and all but n itself have children.                                *)
LEMMA Ancestors ==
    ASSUME tree \in Trees, NEW n \in DataNodes, NEW i \in 1..Len(Names(n))
    PROVE  /\ DataAncestor(n, i) \in DataNodes
           /\ DataNames[DataAncestor(n, i)] = SubSeq(DataNames[n], 1, i + 1)
           /\ DataAncestor(n, i)[1] = n[1]
           /\ Names(DataAncestor(n, i)) = SubSeq(Names(n), 1, i)
           /\ Len(Names(DataAncestor(n, i))) = i
<1>. DEFINE D == DataNames[n]
            k == Len(D) - (i + 1)
            a == StepUp(n, k)
            Here == {x \in DataNodes : DataNames[x] = SubSeq(D, 1, i + 1) /\ x[1] = n[1]}
<1>1. D \in Seq(Idents) /\ D[1] = n[1] /\ Names(n) \in Seq(Idents) /\ D = <<n[1]>> \o Names(n)
    BY NamesOfNode, DataNamesOf DEF DataNodes
<1>2. Len(D) \in Nat /\ Len(Names(n)) = Len(D) - 1 /\ i \in Nat /\ i >= 1 /\ i + 1 <= Len(D)
  <2>1. Len(<<n[1]>> \o Names(n)) = Len(Names(n)) + 1 /\ Len(Names(n)) \in Nat
      BY <1>1
  <2>. HIDE DEF D
  <2>. QED  BY <1>1, <2>1
<1>. HIDE DEF D
<1>3. k \in Nat /\ k < Len(D) /\ Len(D) - k = i + 1
    BY <1>2
<1>. HIDE DEF k
<1>4. a \in DataNodes /\ DataNames[a] = SubSeq(D, 1, i + 1)
    BY <1>3, StepUpNames DEF D
<1>5. \A x \in DataNodes : DataNames[x] = SubSeq(D, 1, i + 1) => x[1] = n[1]
  <2>1. SubSeq(D, 1, i + 1)[1] = n[1]
      BY <1>1, <1>2
  <2>. QED  BY <2>1, DataNamesOf DEF DataNodes
<1>. HIDE DEF a
<1>6. Here # {}
    BY <1>4, <1>5
<1>. DEFINE b == DataAncestor(n, i)
<1>7. b \in Here
    BY <1>6 DEF DataAncestor, D
<1>. HIDE DEF b
<1>8. b \in DataNodes /\ DataNames[b] = SubSeq(D, 1, i + 1) /\ b[1] = n[1]
    BY <1>7
<1>9. Names(b) = SubSeq(Names(n), 1, i) /\ Len(Names(b)) = i
  <2>1. Names(n) = Tail(D)
      BY DEF Names, D
  <2>2. Tail(SubSeq(D, 1, i + 1)) = SubSeq(Tail(D), 1, i) /\ Len(SubSeq(Tail(D), 1, i)) = i
      BY <1>1, <1>2
  <2>. QED  BY <1>8, <2>1, <2>2 DEF Names
<1>. QED  BY <1>8, <1>9 DEF b, D

(* The way to a node on the way is the beginning of the way. *)
LEMMA AncestorsOfAncestor ==
    ASSUME tree \in Trees, NEW n \in DataNodes, NEW i \in 1..Len(Names(n))
    PROVE  /\ \A j \in 1..i : DataAncestor(DataAncestor(n, i), j) = DataAncestor(n, j)
           /\ i < Len(Names(n)) => IsDir(DataAncestor(n, i))
<1>. DEFINE a == DataAncestor(n, i)
<1>1. DataNames[n] \in Seq(Idents) /\ Len(DataNames[n]) = Len(Names(n)) + 1 /\ Len(Names(n)) \in Nat
  <2>1. Names(n) \in Seq(Idents) /\ DataNames[n] = <<n[1]>> \o Names(n) /\ DataNames[n] \in Seq(Idents)
      BY NamesOfNode, DataNamesOf DEF DataNodes
  <2>2. Len(<<n[1]>> \o Names(n)) = Len(Names(n)) + 1 /\ Len(Names(n)) \in Nat
      BY <2>1
  <2>. QED  BY <2>1, <2>2
<1>2. /\ a \in DataNodes /\ DataNames[a] = SubSeq(DataNames[n], 1, i + 1) /\ Len(Names(a)) = i
    BY Ancestors
<1>. HIDE DEF a
<1>3. ASSUME NEW j \in 1..i
      PROVE  DataAncestor(a, j) = DataAncestor(n, j)
  <2>1. j \in 1..Len(Names(a)) /\ j \in 1..Len(Names(n))
      BY <1>1, <1>2
  <2>2. /\ DataAncestor(a, j) \in DataNodes /\ DataNames[DataAncestor(a, j)] = SubSeq(DataNames[a], 1, j + 1)
        /\ DataAncestor(n, j) \in DataNodes /\ DataNames[DataAncestor(n, j)] = SubSeq(DataNames[n], 1, j + 1)
      BY <1>2, <2>1, Ancestors
  <2>3. SubSeq(SubSeq(DataNames[n], 1, i + 1), 1, j + 1) = SubSeq(DataNames[n], 1, j + 1)
      BY <1>1
  <2>. QED  BY <1>2, <2>2, <2>3, DataNamesInjective
<1>4. ASSUME i < Len(Names(n))
      PROVE  IsDir(a)
  <2>. DEFINE c == DataAncestor(n, i + 1)
  <2>1. i + 1 \in 1..Len(Names(n))
      BY <1>1, <1>4
  <2>2. c \in DataNodes /\ DataNames[c] = SubSeq(DataNames[n], 1, i + 1 + 1)
      BY <2>1, Ancestors
  <2>. HIDE DEF c
  <2>3. c \in Nodes /\ Len(DataNames[c]) > 1
      BY <1>1, <1>4, <2>2 DEF DataNodes
  <2>4. Len(c) > 1
    <3>1. ~ (Len(c) > 1) => DataNames[c] = <<c[1]>>
        BY <2>2, DataNamesOf
    <3>2. ~ (Len(<<c[1]>>) > 1)
        OBVIOUS
    <3>. QED  BY <2>3, <3>1, <3>2
  <2>5. /\ DataParent[c] \in DataNodes /\ DataNames[c] = Append(DataNames[DataParent[c]], Name(c))
        /\ DataNames[DataParent[c]] \in Seq(Idents) /\ Name(c) \in Idents
      BY <2>2, <2>4, DataNamesOf, ParentShorter DEF DataNodes
  <2>6. DataNames[DataParent[c]] = DataNames[a]
    <3>1. DataNames[DataParent[c]] = Front(DataNames[c])
        BY <2>5, FrontLastOfAppend
    <3>2. Front(SubSeq(DataNames[n], 1, i + 1 + 1)) = SubSeq(DataNames[n], 1, i + 1)
        BY <1>1, <1>4 DEF Front
    <3>. QED  BY <1>2, <2>2, <3>1, <3>2
  <2>7. DataParent[c] = a
      BY <1>2, <2>5, <2>6, DataNamesInjective
  <2>8. Len(a) \in Nat /\ Len(a) < Len(c) /\ a = SubSeq(c, 1, Len(a))
      BY <2>3, <2>7, DataParentAbove DEF AboveInData
  <2>9. Len(c) \in Nat /\ a # c
      BY <2>3, <2>8, ParentShorter
  <2>10. Under(a, c)
      BY <2>8, <2>9 DEF Under
  <2>. QED  BY <1>2, <2>3, <2>9, <2>10, LeafEnds DEF DataNodes
<1>. QED  BY <1>3, <1>4 DEF a


(* Rows one after the other: f[i] is the first i of them. *)
IsFlat(f, W, rows) ==
    /\ f \in [0..Len(rows) -> Seq(W)] /\ f[0] = <<>>
    /\ \A i \in 1..Len(rows) : f[i] = f[i - 1] \o rows[i]

(* FlattenSeq puts them all there. *)
LEMMA FlattenDef ==
    ASSUME NEW W, NEW rows \in Seq(Seq(W))
    PROVE  \E f : IsFlat(f, W, rows) /\ FlattenSeq(rows) = f[Len(rows)]
<1>. DEFINE N == Len(rows)
            S == 0..N
            V == Seq(W)
            size == [i \in S |-> i]
            F == [w \in S \X [S -> V] |-> IF w[1] = 0 THEN <<>> ELSE w[2][w[1] - 1] \o rows[w[1]]]
<1>1. N \in Nat /\ \A i \in 1..N : rows[i] \in V
    BY ElementOfSeq
<1>. HIDE DEF N
<1>2. size \in [S -> Nat] /\ \A x \in S : size[x] <= N
    BY <1>1
<1>3. \A x \in S : x # 0 => x \in 1..N /\ x - 1 \in S /\ size[x - 1] < size[x]
    BY <1>1
<1>4. F \in [S \X [S -> V] -> V]
  <2>1. \A s, t \in V : s \o t \in V
      OBVIOUS
  <2>2. <<>> \in V
      OBVIOUS
  <2>. HIDE DEF V
  <2>3. ASSUME NEW x \in S, NEW g \in [S -> V], x # 0
        PROVE  g[x - 1] \o rows[x] \in V
      BY <1>1, <1>3, <2>1, <2>3
  <2>. HIDE DEF S
  <2>. QED  BY <2>2, <2>3
<1>5. \A x \in S : \A g, h \in [S -> V] :
         (\A y \in S : size[y] < size[x] => g[y] = h[y]) => F[<<x, g>>] = F[<<x, h>>]
    BY <1>3
<1>6. IsRecursion(S, V, size, N, F)
  <2>1. V # {}
      OBVIOUS
  <2>. HIDE DEF size, F, S, V
  <2>. QED  BY <1>1, <1>2, <1>4, <1>5, <2>1 DEF IsRecursion
<1>. HIDE DEF size, F
<1>7. PICK g \in [S -> V] : \A x \in S : g[x] = F[<<x, g>>]
  <2>. HIDE DEF S, V
  <2>. QED  BY <1>6, Recursion
<1>8. \A i \in S : g[i] = IF i = 0 THEN <<>> ELSE g[i - 1] \o rows[i]
    BY <1>7 DEF F
<1>9. 0 \in S /\ N \in S /\ \A i \in 1..N : i \in S /\ i # 0
    BY <1>1
<1>10. IsFlat(g, W, rows)
  <2>1. g[0] = <<>> /\ \A i \in 1..N : g[i] = g[i - 1] \o rows[i]
      BY <1>8, <1>9
  <2>. QED  BY <1>7, <2>1 DEF IsFlat, N
<1>11. FlattenSeq(rows) = g[N]
  <2>1. CASE N = 0
    <3>1. rows = <<>>
        BY <2>1, EmptySeq DEF N
    <3>. QED  BY <1>8, <1>9, <2>1, <3>1 DEF FlattenSeq, N
  <2>2. CASE N # 0
    <3>. DEFINE T == 1..N
                h == [i \in T |-> g[i]]
                A == CHOOSE f : f = [i \in T |-> IF i = 1 THEN rows[i] ELSE f[i - 1] \o rows[i]]
    <3>1. 1 \in T /\ N \in T /\ \A i \in T : i # 1 => i - 1 \in T /\ i - 1 < i
        BY <1>1, <2>2
    <3>2. g[1] = rows[1]
      <4>1. 1 - 1 = 0 /\ rows[1] \in V
          BY <1>1, <3>1
      <4>2. g[1] = g[0] \o rows[1] /\ g[0] = <<>>
          BY <1>8, <1>9, <3>1, <4>1
      <4>3. <<>> \o rows[1] = rows[1]
          BY <4>1, ConcatEmptySeq
      <4>. QED  BY <4>2, <4>3
    <3>3. \A i \in T : g[i] = IF i = 1 THEN rows[i] ELSE g[i - 1] \o rows[i]
        BY <1>8, <1>9, <3>2
    <3>4. h = [i \in T |-> IF i = 1 THEN rows[i] ELSE h[i - 1] \o rows[i]]
        BY <3>1, <3>3
    <3>5. A = [i \in T |-> IF i = 1 THEN rows[i] ELSE A[i - 1] \o rows[i]]
        BY <3>4
    <3>6. FlattenSeq(rows) = A[N]
        BY <2>2 DEF FlattenSeq, N
    <3>. HIDE DEF A, h
    <3>7. \A i \in T : A[i] = g[i]
      <4>. DEFINE sz == [i \in T |-> i]
      <4>1. sz \in [T -> Nat]
          BY <1>1
      <4>2. \A x \in T : A[x] = IF x = 1 THEN rows[x] ELSE A[x - 1] \o rows[x]
          BY <3>5
      <4>3. \A x \in T : x # 1 => x - 1 \in T /\ sz[x - 1] < sz[x]
          BY <3>1
      <4>. HIDE DEF T, sz, S, V
      <4>4. \A x \in T : (\A y \in T : sz[y] < sz[x] => A[y] = g[y]) => A[x] = g[x]
          BY <3>3, <4>2, <4>3
      <4>5. Alike(T, sz, A, g)
          BY <4>1, <4>4 DEF Alike
      <4>6. \A x \in T : A[x] = g[x]
          BY <4>5, SameByRecursion
      <4>. QED  BY <4>6
    <3>. QED  BY <3>1, <3>6, <3>7
  <2>. QED  BY <2>1, <2>2
<1>. QED  BY <1>10, <1>11 DEF N

(* t begins with s. *)
Begins(s, t) == Len(s) <= Len(t) /\ \A x \in 1..Len(s) : t[x] = s[x]

(* What the first i rows are stays where it is when others follow. *)
LEMMA FlatBegins ==
    ASSUME NEW W, NEW rows \in Seq(Seq(W)), NEW f, IsFlat(f, W, rows), NEW i \in 0..Len(rows)
    PROVE  \A k \in i..Len(rows) : Begins(f[i], f[k])
<1>. DEFINE N == Len(rows)
            Kept(k) == Len(f[i]) <= Len(f[k]) /\ \A x \in 1..Len(f[i]) : f[k][x] = f[i][x]
            Bad == {k \in i..N : ~ Kept(k)}
<1>1. N \in Nat /\ i \in Nat /\ \A k \in 1..N : rows[k] \in Seq(W)
    BY ElementOfSeq
<1>2. \A k \in 0..N : f[k] \in Seq(W) /\ Len(f[k]) \in Nat
    BY DEF IsFlat
<1>3. \A k \in 1..N : f[k] = f[k - 1] \o rows[k]
    BY DEF IsFlat
<1>. HIDE DEF N
<1>4. Kept(i)
  <2>1. Len(f[i]) \in Nat
      BY <1>2 DEF N
  <2>. QED  BY <2>1
<1>5. ASSUME NEW k \in i..N, k # i, Kept(k - 1)
      PROVE  Kept(k)
  <2>1. k \in 1..N /\ k - 1 \in 0..N /\ k \in 0..N /\ i \in 0..N
      BY <1>1, <1>5
  <2>2. /\ f[k] = f[k - 1] \o rows[k] /\ f[k - 1] \in Seq(W) /\ rows[k] \in Seq(W)
      BY <1>1, <1>2, <1>3, <2>1
  <2>3. Len(f[i]) \in Nat /\ Len(f[k - 1]) \in Nat /\ Len(f[k]) \in Nat
      BY <1>2, <2>1
  <2>4. Len(f[k]) >= Len(f[k - 1]) /\ \A x \in 1..Len(f[k - 1]) : f[k][x] = f[k - 1][x]
    <3>1. ASSUME NEW s \in Seq(W), NEW t \in Seq(W)
          PROVE  Len(s \o t) >= Len(s) /\ \A x \in 1..Len(s) : (s \o t)[x] = s[x]
        OBVIOUS
    <3>. QED  BY <2>2, <3>1
  <2>5. Len(f[i]) <= Len(f[k - 1]) /\ \A x \in 1..Len(f[i]) : f[k - 1][x] = f[i][x]
      BY <1>5
  <2>6. Len(f[i]) <= Len(f[k])
      BY <2>4, <2>5, <2>3
  <2>7. ASSUME NEW x \in 1..Len(f[i])
        PROVE  f[k][x] = f[i][x]
    <3>1. x \in 1..Len(f[k - 1])
        BY <2>5, <2>3
    <3>. QED  BY <2>4, <2>5, <3>1
  <2>. QED  BY <2>6, <2>7
<1>6. Bad = {}
  <2>1. SUFFICES ASSUME Bad # {} PROVE FALSE
      OBVIOUS
  <2>2. Bad \in SUBSET Nat
      BY <1>1
  <2>3. PICK j \in Bad : \A l \in Bad : j <= l
      BY <2>1, <2>2, LeastNatural
  <2>. HIDE DEF Kept
  <2>4. j \in i..N /\ j # i
      BY <1>4
  <2>5. j - 1 \in i..N /\ ~ (j <= j - 1)
      BY <1>1, <2>4
  <2>6. Kept(j - 1)
      BY <2>3, <2>5
  <2>. QED  BY <1>5, <2>3, <2>4, <2>6
<1>7. \A k \in i..N : Kept(k)
  <2>. HIDE DEF Kept
  <2>. QED  BY <1>6
<1>. QED  BY <1>7 DEF N, Begins

(* Fewer rows are the beginning of all of them. *)
LEMMA FlattenFirst ==
    ASSUME NEW W, NEW rows \in Seq(Seq(W)), NEW f, IsFlat(f, W, rows), NEW i \in 0..Len(rows)
    PROVE  FlattenSeq(SubSeq(rows, 1, i)) = f[i]
<1>. DEFINE r == SubSeq(rows, 1, i)
            S == 0..i
            size == [k \in S |-> k]
<1>1. r \in Seq(Seq(W)) /\ Len(r) = i /\ i \in Nat /\ i <= Len(rows) /\ \A k \in 1..i : r[k] = rows[k]
    OBVIOUS
<1>. HIDE DEF r
<1>2. PICK g : IsFlat(g, W, r) /\ FlattenSeq(r) = g[i]
    BY <1>1, FlattenDef
<1>3. g[0] = <<>> /\ f[0] = <<>>
    BY <1>2 DEF IsFlat
<1>4. \A k \in 1..i : g[k] = g[k - 1] \o rows[k] /\ f[k] = f[k - 1] \o rows[k]
  <2>1. \A k \in 1..i : g[k] = g[k - 1] \o r[k]
      BY <1>1, <1>2 DEF IsFlat
  <2>2. \A k \in 1..i : k \in 1..Len(rows)
      BY <1>1
  <2>. QED  BY <1>1, <2>1, <2>2 DEF IsFlat
<1>5. \A x \in S : (\A y \in S : size[y] < size[x] => g[y] = f[y]) => g[x] = f[x]
  <2>1. \A x \in S : x = 0 \/ (x \in 1..i /\ x - 1 \in S /\ size[x - 1] < size[x])
      BY <1>1
  <2>. HIDE DEF S, size
  <2>. QED  BY <1>3, <1>4, <2>1
<1>6. size \in [S -> Nat] /\ i \in S
    BY <1>1
<1>. HIDE DEF S, size
<1>7. Alike(S, size, g, f)
    BY <1>5, <1>6 DEF Alike
<1>. QED  BY <1>2, <1>6, <1>7, SameByRecursion DEF r


(* Where the i-th name of n and the values of its keys end in the row that *)
(* a client writes.                                                        *)
IsEnds(e, n) ==
    /\ e \in [0..Len(Names(n)) -> Nat] /\ e[0] = 0
    /\ ToStrings(n) \in Seq(Words) /\ Len(ToStrings(n)) = e[Len(Names(n))]
    /\ \A i \in 1..Len(Names(n)) :
          LET a == DataAncestor(n, i)
          IN  /\ e[i] = e[i - 1] + 1 + Len(KeysOf(a)) /\ Len(ToStrings(a)) = e[i]
              /\ ToStrings(n)[e[i - 1] + 1] = Names(n)[i]
              /\ \A j \in 1..Len(KeysOf(a)) : ToStrings(n)[e[i - 1] + 1 + j] = Value[SortedKeys(a)[j]]

(* What is written for the i-th name of n. *)
RowOf(n, i) ==
    LET k == SortedKeys(DataAncestor(n, i))
    IN  <<Names(n)[i]>> \o [j \in 1..Len(k) |-> Value[k[j]]]

(* It is the name and a value for every key, for n and on the way to n. *)
LEMMA RowOfName ==
    ASSUME tree \in Trees, NEW n \in DataNodes, NEW i \in 1..Len(Names(n))
    PROVE  /\ RowOf(n, i) \in Seq(Words)
           /\ Len(KeysOf(DataAncestor(n, i))) \in Nat
           /\ Len(RowOf(n, i)) = 1 + Len(KeysOf(DataAncestor(n, i)))
           /\ RowOf(n, i)[1] = Names(n)[i]
           /\ \A j \in 1..Len(KeysOf(DataAncestor(n, i))) :
                 RowOf(n, i)[1 + j] = Value[SortedKeys(DataAncestor(n, i))[j]]
           /\ \A j \in 1..i : RowOf(DataAncestor(n, i), j) = RowOf(n, j)
<1>. DEFINE a == DataAncestor(n, i)
            k == SortedKeys(a)
            N == Len(KeysOf(a))
            v == [j \in 1..N |-> Value[k[j]]]
<1>1. a \in Nodes
    BY Ancestors DEF DataNodes
<1>2. KeysOf(a) \in Seq(Idents) /\ Range(KeysOf(a)) \subseteq DOMAIN Value
    BY <1>1, KeysOfNode
<1>3. Len(k) = N /\ \A j \in 1..N : k[j] \in Range(KeysOf(a))
    BY <1>1, SortedKeysOf
<1>. HIDE DEF a
<1>4. N \in Nat
    BY <1>2
<1>5. \A j \in 1..N : Value[k[j]] \in Words
  <2>1. \A x \in DOMAIN Value : Value[x] \in Range(Value)
      BY DEF Range
  <2>. HIDE DEF N, k
  <2>. QED  BY <1>2, <1>3, <2>1 DEF Words
<1>. HIDE DEF N, k
<1>6. v \in Seq(Words) /\ Len(v) = N /\ \A j \in 1..N : v[j] = Value[k[j]]
    BY <1>4, <1>5
<1>. HIDE DEF v
<1>7. Names(n)[i] \in Words
  <2>1. Names(n) \in Seq(Idents)
      BY NamesOfNode
  <2>. QED  BY <2>1, ElementOfSeq DEF Words
<1>8. RowOf(n, i) = <<Names(n)[i]>> \o v
    BY <1>3 DEF RowOf, v, k, a
<1>9. ASSUME NEW x \in Words
      PROVE  /\ <<x>> \o v \in Seq(Words) /\ Len(<<x>> \o v) = 1 + N /\ (<<x>> \o v)[1] = x
             /\ \A j \in 1..N : (<<x>> \o v)[1 + j] = v[j]
    BY <1>4, <1>6
<1>10. ASSUME NEW j \in 1..i
       PROVE  RowOf(a, j) = RowOf(n, j)
  <2>1. Names(a) = SubSeq(Names(n), 1, i) /\ Names(n) \in Seq(Idents)
      BY Ancestors, NamesOfNode DEF a
  <2>2. Names(a)[j] = Names(n)[j]
      BY <2>1
  <2>3. DataAncestor(a, j) = DataAncestor(n, j)
      BY AncestorsOfAncestor DEF a
  <2>. QED  BY <2>2, <2>3 DEF RowOf
<1>. QED  BY <1>4, <1>6, <1>7, <1>8, <1>9, <1>10 DEF N, a, k

(* The names and values of a row are where they are expected. *)
LEMMA RowOfNode ==
    ASSUME tree \in Trees, NEW n \in DataNodes
    PROVE  \E e : IsEnds(e, n)
<1>. DEFINE N == Len(Names(n))
            rows == [i \in 1..N |-> RowOf(n, i)]
<1>1. N \in Nat
    BY NamesOfNode
<1>2. rows \in Seq(Seq(Words)) /\ Len(rows) = N /\ \A i \in 1..N : rows[i] = RowOf(n, i)
  <2>1. \A i \in 1..N : RowOf(n, i) \in Seq(Words)
      BY RowOfName
  <2>. HIDE DEF N
  <2>. QED  BY <1>1, <2>1
<1>3. ToStrings(n) = FlattenSeq(rows)
    BY DEF ToStrings, RowOf
<1>. HIDE DEF rows
<1>4. PICK f : IsFlat(f, Words, rows) /\ FlattenSeq(rows) = f[N]
    BY <1>2, FlattenDef
<1>. DEFINE e == [i \in 0..N |-> Len(f[i])]
<1>5. \A i \in 0..N : f[i] \in Seq(Words) /\ Len(f[i]) \in Nat
    BY <1>2, <1>4 DEF IsFlat
<1>6. e \in [0..N -> Nat] /\ \A i \in 0..N : e[i] = Len(f[i])
    BY <1>5
<1>. HIDE DEF e
<1>7. 0 \in 0..N /\ N \in 0..N /\ e[0] = 0
  <2>1. 0 \in 0..N /\ N \in 0..N
      BY <1>1
  <2>2. f[0] = <<>> /\ Len(<<>>) = 0
      BY <1>4 DEF IsFlat
  <2>. QED  BY <1>6, <2>1, <2>2
<1>8. ASSUME NEW i \in 1..N
      PROVE  LET a == DataAncestor(n, i)
             IN  /\ e[i] = e[i - 1] + 1 + Len(KeysOf(a)) /\ Len(ToStrings(a)) = e[i]
                 /\ ToStrings(n)[e[i - 1] + 1] = Names(n)[i]
                 /\ \A j \in 1..Len(KeysOf(a)) : ToStrings(n)[e[i - 1] + 1 + j] = Value[SortedKeys(a)[j]]
  <2>. DEFINE a == DataAncestor(n, i)
              K == Len(KeysOf(a))
              s == f[i - 1]
              t == RowOf(n, i)
  <2>1. i \in 0..N /\ i - 1 \in 0..N /\ N \in i..N
      BY <1>1
  <2>2. /\ t \in Seq(Words) /\ K \in Nat /\ Len(t) = 1 + K /\ t[1] = Names(n)[i]
        /\ \A j \in 1..K : t[1 + j] = Value[SortedKeys(a)[j]]
      BY RowOfName
  <2>3. a \in DataNodes /\ Len(Names(a)) = i
      BY Ancestors
  <2>. HIDE DEF a, K
  <2>4. f[i] = s \o t /\ s \in Seq(Words) /\ Len(s) = e[i - 1] /\ Len(f[i]) = e[i] /\ e[i - 1] \in Nat
      BY <1>2, <1>4, <1>5, <1>6, <2>1 DEF IsFlat
  <2>. HIDE DEF s, t
  <2>5. e[i] = e[i - 1] + 1 + K
    <3>1. Len(s \o t) = Len(s) + Len(t)
        BY <2>2, <2>4, ConcatProperties, Zenon
    <3>. QED  BY <2>2, <2>4, <3>1
  <2>6. ASSUME NEW j \in 0..K
        PROVE  ToStrings(n)[e[i - 1] + 1 + j] = t[1 + j]
    <3>1. (s \o t)[Len(s) + 1 + j] = t[1 + j]
      <4>1. t \in Seq(Words) /\ s \in Seq(Words) /\ j \in 0..Len(t) - 1
          BY <2>2, <2>4
      <4>. QED  BY <4>1
    <3>2. e[i - 1] + 1 + j \in 1..Len(f[i])
        BY <2>2, <2>4, <2>5
    <3>3. \A x \in 1..Len(f[i]) : f[N][x] = f[i][x]
      <4>1. i \in 0..Len(rows) /\ N \in i..Len(rows)
          BY <1>2, <2>1
      <4>2. IsFlat(f, Words, rows) /\ rows \in Seq(Seq(Words))
          BY <1>2, <1>4
      <4>3. Begins(f[i], f[N])
          BY <4>1, <4>2, FlatBegins
      <4>. QED  BY <4>3 DEF Begins
    <3>. QED  BY <1>3, <1>4, <2>4, <3>1, <3>2, <3>3
  <2>7. ToStrings(n)[e[i - 1] + 1] = Names(n)[i]
    <3>1. 0 \in 0..K /\ e[i - 1] + 1 + 0 = e[i - 1] + 1 /\ 1 + 0 = 1
        BY <2>2, <2>4
    <3>. QED  BY <2>2, <2>6, <3>1
  <2>8. Len(ToStrings(a)) = e[i]
    <3>1. ToStrings(a) = FlattenSeq([j \in 1..i |-> RowOf(a, j)])
        BY <2>3 DEF ToStrings, RowOf
    <3>2. [j \in 1..i |-> RowOf(a, j)] = SubSeq(rows, 1, i)
      <4>1. \A j \in 1..i : RowOf(a, j) = RowOf(n, j) /\ j \in 1..N
          BY <1>1, RowOfName DEF a
      <4>2. SubSeq(rows, 1, i) = [j \in 1..i |-> rows[j]]
          BY <1>1, <1>2
      <4>3. \A j \in 1..i : RowOf(a, j) = rows[j]
          BY <1>2, <4>1
      <4>. QED  BY <4>2, <4>3
    <3>3. FlattenSeq(SubSeq(rows, 1, i)) = f[i]
        BY <1>2, <1>4, <2>1, FlattenFirst
    <3>. QED  BY <2>4, <3>1, <3>2, <3>3
  <2>9. \A j \in 1..K : ToStrings(n)[e[i - 1] + 1 + j] = Value[SortedKeys(a)[j]]
    <3>1. \A j \in 1..K : j \in 0..K
        BY <2>2
    <3>. QED  BY <2>2, <2>6, <3>1
  <2>. QED  BY <2>5, <2>7, <2>8, <2>9 DEF K, a
<1>9. ToStrings(n) \in Seq(Words) /\ Len(ToStrings(n)) = e[N]
    BY <1>3, <1>4, <1>5, <1>6, <1>7
<1>10. IsEnds(e, n)
    BY <1>6, <1>7, <1>8, <1>9 DEF IsEnds
<1>. QED  BY <1>10


-----------------------------------------------------------------------------
(* ToPath of the persistent store *)

(* What it makes of the i-th name and those after it, if r is what it      *)
(* makes of those farther on.                                              *)
RestOf(r, p, i, before) ==
    LET s == p.names
        here == IF i <= Len(s) THEN Append(before, s[i]) ELSE before
        n == Lookup(p, here)
        keys == KeysOf(n)
        On(k, e) == InFront(e, r[i + 1 + k][here])
    IN  IF n = None THEN Error
        ELSE IF i > Len(s) THEN <<>>
        ELSE IF i = Len(s) THEN <<Elem(s[i], {})>>
        ELSE IF IsDir(n) THEN
             (IF i + Len(keys) > Len(s) THEN Panic
              ELSE On(Len(keys), Elem(s[i], {<<keys[j], s[i + j]>> : j \in 1..Len(keys)})))
        ELSE IF Kind(n) = "leaf" THEN On(0, Elem(s[i], {}))
        ELSE On(1, Elem(s[i], {<<s[i], s[i + 1]>>}))

Answers == Seq(Elements) \union {Error, Panic}

IsRest(r, p) ==
    \A i \in 1..Len(p.names) + 1, before \in Seq(Words) :
       r[i][before] = RestOf(r, p, i, before) /\ r[i][before] \in Answers

(* The persistent store finds an entry, the root or nothing. *)
LEMMA GetSchemaType ==
    ASSUME tree \in Trees, NEW p, p.mod \in Modules \union {NoModule}
    PROVE  GetSchema(p) \in DataNodes \union {<<>>, None}
<1>. DEFINE At(m) == {n \in DataNodes : EntryPath(n) = EntryKey(m, p.names)}
            M == {m \in Searched(p) : At(m) # {}}
<1>1. CASE p.names = <<>>
    BY <1>1 DEF GetSchema
<1>2. CASE p.names # <<>>
  <2>1. GetSchema(p) = IF M = {} THEN None ELSE CHOOSE n \in At(First(M)) : TRUE
      BY <1>2 DEF GetSchema, Searched
  <2>2. M \in SUBSET Modules
      BY DEF Searched
  <2>3. CASE M # {}
    <3>1. First(M) \in M
        BY <2>2, <2>3, FirstModule
    <3>2. At(First(M)) # {}
        BY <3>1
    <3>3. At(First(M)) \subseteq DataNodes
        OBVIOUS
    <3>. HIDE DEF M, At
    <3>. QED  BY <2>1, <2>3, <3>2, <3>3
  <2>. HIDE DEF M
  <2>. QED  BY <2>1, <2>3
<1>. QED  BY <1>1, <1>2

(* An element in front of an answer makes an answer. *)
LEMMA InFrontAnswer ==
    ASSUME NEW e \in Elements, NEW s \in Answers
    PROVE  InFront(e, s) \in Answers
<1>1. s \in Seq(Elements) => <<e>> \o s \in Seq(Elements)
    OBVIOUS
<1>. QED  BY <1>1 DEF InFront, Answers

(* What the recursion says, of answers, is an answer, and it uses only     *)
(* what is farther on.                                                     *)
LEMMA RestOfAnswers ==
    ASSUME tree \in Trees, NEW p \in [mod : Modules \union {NoModule}, names : Seq(Words)],
           NEW i \in 1..Len(p.names) + 1, NEW before \in Seq(Words),
           NEW g, NEW h,
           \A k \in 1..Len(p.names) + 1, b \in Seq(Words) :
              k > i => g[k][b] = h[k][b] /\ g[k][b] \in Answers
    PROVE  RestOf(g, p, i, before) \in Answers /\ RestOf(g, p, i, before) = RestOf(h, p, i, before)
<1>. DEFINE s == p.names
            L == Len(s)
            here == IF i <= L THEN Append(before, s[i]) ELSE before
            n == Lookup(p, here)
            K == Len(KeysOf(n))
            e == Elem(s[i], {<<KeysOf(n)[j], s[i + j]>> : j \in 1..K})
<1>1. s \in Seq(Words) /\ L \in Nat /\ i \in Nat /\ i >= 1 /\ i <= L + 1
    OBVIOUS
<1>2. \A j \in 1..L : s[j] \in Words
    BY ElementOfSeq
<1>3. n = None \/ n = <<>> \/ n \in Nodes
  <2>1. [p EXCEPT !.names = here].mod \in Modules \union {NoModule}
      OBVIOUS
  <2>. HIDE DEF here
  <2>. QED  BY <2>1, GetSchemaType DEF Lookup, DataNodes
<1>. HIDE DEF s, L
<1>4. here \in Seq(Words)
    BY <1>1, <1>2
<1>. HIDE DEF here, n
<1>5. n # None => KeysOf(n) \in Seq(Words)
  <2>1. n = <<>> => KeysOf(n) \in Seq(Words)
      BY DEF KeysOf
  <2>2. n \in Nodes => KeysOf(n) \in Seq(Idents)
      BY KeysOfNode
  <2>3. Idents \subseteq Words
      BY DEF Words
  <2>. QED  BY <1>3, <2>1, <2>2, <2>3, SeqMonotonic
<1>6. n # None => K \in Nat /\ \A j \in 1..K : KeysOf(n)[j] \in Words
    BY <1>5, ElementOfSeq
<1>. HIDE DEF K
<1>7. i < L + 1 => \A k \in SUBSET (Words \X Words) : Elem(s[i], k) \in Elements
  <2>1. i < L + 1 => s[i] \in Words
      BY <1>1, <1>2
  <2>. QED  BY <2>1 DEF Elem, Elements
<1>8. n # None /\ i + K <= L => e \in Elements
  <2>1. ASSUME n # None, i + K <= L, NEW j \in 1..K
        PROVE  KeysOf(n)[j] \in Words /\ s[i + j] \in Words
    <3>1. i + j \in 1..L
        BY <1>1, <1>6, <2>1
    <3>. QED  BY <1>2, <1>6, <2>1, <3>1
  <2>2. n # None /\ i + K <= L => i < L + 1
      BY <1>1, <1>6
  <2>. QED  BY <1>7, <2>1, <2>2
<1>9. i < L => Elem(s[i], {<<s[i], s[i + 1]>>}) \in Elements
  <2>1. i < L => s[i] \in Words /\ s[i + 1] \in Words
      BY <1>1, <1>2
  <2>. QED  BY <1>1, <1>7, <2>1
<1>10. i <= L => Elem(s[i], {}) \in Elements
    BY <1>1, <1>7
<1>. HIDE DEF e
<1>11. ASSUME NEW x \in Elements, NEW k \in Nat, i + 1 + k <= L + 1
       PROVE  InFront(x, g[i + 1 + k][here]) = InFront(x, h[i + 1 + k][here]) /\ InFront(x, g[i + 1 + k][here]) \in Answers
  <2>1. i + 1 + k \in 1..L + 1 /\ i + 1 + k > i
      BY <1>1, <1>11
  <2>2. g[i + 1 + k][here] = h[i + 1 + k][here] /\ g[i + 1 + k][here] \in Answers
      BY <1>4, <2>1 DEF L, s
  <2>. QED  BY <2>2, InFrontAnswer
<1>12. \A f : RestOf(f, p, i, before) =
         IF n = None THEN Error
         ELSE IF i > L THEN <<>>
         ELSE IF i = L THEN <<Elem(s[i], {})>>
         ELSE IF IsDir(n) THEN (IF i + K > L THEN Panic ELSE InFront(e, f[i + 1 + K][here]))
         ELSE IF Kind(n) = "leaf" THEN InFront(Elem(s[i], {}), f[i + 1 + 0][here])
         ELSE InFront(Elem(s[i], {<<s[i], s[i + 1]>>}), f[i + 1 + 1][here])
    BY DEF RestOf, n, here, L, s, K, e
<1>13. Error \in Answers /\ Panic \in Answers /\ <<>> \in Answers
    BY DEF Answers
<1>14. CASE n = None \/ i > L \/ i = L
  <2>1. i = L => <<Elem(s[i], {})>> \in Answers
      BY <1>1, <1>10 DEF Answers
  <2>. QED  BY <1>12, <1>13, <1>14, <2>1
<1>15. CASE n # None /\ i < L /\ IsDir(n)
  <2>1. CASE i + K > L
      BY <1>1, <1>12, <1>13, <1>15, <2>1
  <2>2. CASE ~ (i + K > L)
    <3>1. e \in Elements /\ K \in Nat /\ i + 1 + K <= L + 1 /\ ~ (i > L) /\ ~ (i = L)
        BY <1>1, <1>6, <1>8, <1>15, <2>2
    <3>. QED  BY <1>11, <1>12, <1>15, <2>2, <3>1
  <2>. QED  BY <2>1, <2>2
<1>16. CASE n # None /\ i < L /\ ~ IsDir(n)
  <2>1. i + 1 + 0 <= L + 1 /\ i + 1 + 1 <= L + 1 /\ ~ (i > L) /\ ~ (i = L) /\ i <= L
      BY <1>1, <1>16
  <2>2. CASE Kind(n) = "leaf"
    <3>1. \A f : RestOf(f, p, i, before) = InFront(Elem(s[i], {}), f[i + 1 + 0][here])
        BY <1>12, <1>16, <2>1, <2>2
    <3>2. Elem(s[i], {}) \in Elements /\ 0 \in Nat
        BY <1>10, <2>1
    <3>. QED  BY <1>11, <2>1, <3>1, <3>2
  <2>3. CASE Kind(n) # "leaf"
    <3>1. \A f : RestOf(f, p, i, before) = InFront(Elem(s[i], {<<s[i], s[i + 1]>>}), f[i + 1 + 1][here])
        BY <1>12, <1>16, <2>1, <2>3
    <3>2. Elem(s[i], {<<s[i], s[i + 1]>>}) \in Elements /\ 1 \in Nat
        BY <1>9, <1>16
    <3>. QED  BY <1>11, <2>1, <3>1, <3>2
  <2>. QED  BY <2>2, <2>3
<1>. QED  BY <1>1, <1>14, <1>15, <1>16


(* ToPath is what the recursion says. *)
LEMMA ToPathDef ==
    ASSUME tree \in Trees, NEW p \in [mod : Modules \union {NoModule}, names : Seq(Words)]
    PROVE  \E r : ToPathFrom(p) = r[1][<<>>] /\ IsRest(r, p)
<1>. DEFINE L == Len(p.names)
            S == 1..L + 1
            B == Seq(Words)
            V == [B -> Answers]
            size == [i \in S |-> L + 1 - i]
            F == [w \in S \X [S -> V] |-> [b \in B |-> RestOf(w[2], p, w[1], b)]]
<1>1. L \in Nat
    OBVIOUS
<1>. HIDE DEF L
<1>2. size \in [S -> Nat] /\ L + 1 \in Nat /\ \A i \in S : size[i] <= L + 1
    BY <1>1
<1>3. \A i, k \in S : k > i <=> size[k] < size[i]
    BY <1>1
<1>4. ASSUME NEW i \in S, NEW b \in B, NEW g, NEW h,
             \A k \in S, c \in B : k > i => g[k][c] = h[k][c] /\ g[k][c] \in Answers
      PROVE  RestOf(g, p, i, b) \in Answers /\ RestOf(g, p, i, b) = RestOf(h, p, i, b)
    BY <1>4, RestOfAnswers DEF L
<1>5. \A g \in [S -> V] : \A k \in S : g[k] \in V
    OBVIOUS
<1>6. \A v \in V : \A c \in B : v[c] \in Answers
    OBVIOUS
<1>7. F \in [S \X [S -> V] -> V]
  <2>1. ASSUME NEW i \in S, NEW g \in [S -> V]
        PROVE  [b \in B |-> RestOf(g, p, i, b)] \in V
    <3>1. \A b \in B : RestOf(g, p, i, b) \in Answers
      <4>1. \A k \in S, c \in B : k > i => g[k][c] = g[k][c] /\ g[k][c] \in Answers
          BY <1>5, <1>6
      <4>. HIDE DEF S, B, V
      <4>. QED  BY <1>4, <4>1
    <3>. HIDE DEF S, B
    <3>. QED  BY <3>1
  <2>. HIDE DEF V, S, B
  <2>. QED  BY <2>1
<1>8. ASSUME NEW i \in S, NEW g \in [S -> V], NEW h, \A k \in S : size[k] < size[i] => g[k] = h[k]
      PROVE  [b \in B |-> RestOf(g, p, i, b)] = [b \in B |-> RestOf(h, p, i, b)]
  <2>1. \A k \in S, c \in B : k > i => g[k][c] = h[k][c] /\ g[k][c] \in Answers
    <3>. HIDE DEF V, S, B, size
    <3>. QED  BY <1>3, <1>5, <1>6, <1>8
  <2>. HIDE DEF S, B, V
  <2>2. \A b \in B : RestOf(g, p, i, b) = RestOf(h, p, i, b)
      BY <1>4, <2>1
  <2>. QED  BY <2>2
<1>9. IsRecursion(S, V, size, L + 1, F)
  <2>1. V # {}
    <3>1. Error \in Answers
        BY DEF Answers
    <3>2. [b \in B |-> Error] \in V
        BY <3>1
    <3>. QED  BY <3>2
  <2>. HIDE DEF size, S, V, B
  <2>2. \A x \in S : \A g \in [S -> V] : F[<<x, g>>] = [b \in B |-> RestOf(g, p, x, b)]
      OBVIOUS
  <2>. HIDE DEF F
  <2>3. ASSUME NEW x \in S, NEW g \in [S -> V], NEW h \in [S -> V], \A y \in S : size[y] < size[x] => g[y] = h[y]
        PROVE  F[<<x, g>>] = F[<<x, h>>]
    <3>1. [b \in B |-> RestOf(g, p, x, b)] = [b \in B |-> RestOf(h, p, x, b)]
        BY <1>8, <2>3
    <3>. QED  BY <2>2, <3>1
  <2>. QED  BY <1>2, <1>7, <2>1, <2>3 DEF IsRecursion
<1>. HIDE DEF size, F, S, V
<1>10. PICK g \in [S -> V] : \A x \in S : g[x] = F[<<x, g>>]
    BY <1>9, Recursion
<1>11. \A i \in S : g[i] = [b \in B |-> RestOf(g, p, i, b)]
  <2>. HIDE DEF B
  <2>. QED  BY <1>10 DEF F
<1>12. g = [i \in S |-> [b \in B |-> RestOf(g, p, i, b)]]
  <2>. HIDE DEF B
  <2>. QED  BY <1>10, <1>11
<1>. DEFINE A == CHOOSE f : f = [i \in S |-> [b \in B |-> RestOf(f, p, i, b)]]
<1>13. A = [i \in S |-> [b \in B |-> RestOf(A, p, i, b)]]
  <2>. HIDE DEF B
  <2>. QED  BY <1>12
<1>14. ToPathFrom(p) = A[1][<<>>]
    BY DEF ToPathFrom, RestOf, Lookup, S, L, B
<1>. HIDE DEF A
<1>15. \A x \in S : A[x] = g[x]
  <2>1. \A x \in S : (\A y \in S : size[y] < size[x] => A[y] = g[y]) => A[x] = g[x]
    <3>1. ASSUME NEW x \in S, \A y \in S : size[y] < size[x] => A[y] = g[y]
          PROVE  A[x] = g[x]
      <4>. HIDE DEF B
      <4>1. A[x] = [b \in B |-> RestOf(A, p, x, b)]
          BY <1>13
      <4>2. \A y \in S : size[y] < size[x] => g[y] = A[y]
          BY <3>1
      <4>3. [b \in B |-> RestOf(g, p, x, b)] = [b \in B |-> RestOf(A, p, x, b)]
          BY <1>8, <4>2
      <4>. QED  BY <1>11, <4>1, <4>3
    <3>. QED  BY <3>1
  <2>2. Alike(S, size, A, g)
      BY <1>2, <2>1 DEF Alike
  <2>. QED  BY <2>2, SameByRecursion
<1>16. IsRest(g, p)
  <2>1. \A i \in S, b \in B : g[i][b] = RestOf(g, p, i, b) /\ g[i][b] \in Answers
    <3>. HIDE DEF B
    <3>. QED  BY <1>5, <1>6, <1>11
  <2>. QED  BY <2>1 DEF IsRest, S, B, L
<1>17. 1 \in S
    BY <1>1 DEF S
<1>. QED  BY <1>14, <1>15, <1>16, <1>17


(* Later names end later. *)
LEMMA EndsGrow ==
    ASSUME tree \in Trees, NEW n \in DataNodes, NEW e, IsEnds(e, n), NEW i \in 0..Len(Names(n))
    PROVE  \A k \in i..Len(Names(n)) : e[i] <= e[k]
<1>. DEFINE N == Len(Names(n))
            Bad == {k \in i..N : ~ (e[i] <= e[k])}
<1>1. N \in Nat /\ i \in Nat
    BY NamesOfNode
<1>2. \A k \in 0..N : e[k] \in Nat
    BY DEF IsEnds
<1>3. \A k \in 1..N : e[k - 1] <= e[k]
  <2>1. ASSUME NEW k \in 1..N
        PROVE  e[k - 1] <= e[k]
    <3>1. e[k] = e[k - 1] + 1 + Len(KeysOf(DataAncestor(n, k)))
        BY DEF IsEnds
    <3>2. Len(KeysOf(DataAncestor(n, k))) \in Nat
        BY RowOfName
    <3>3. e[k - 1] \in Nat
        BY <1>1, <1>2
    <3>. QED  BY <3>1, <3>2, <3>3
  <2>. QED  BY <2>1
<1>4. SUFFICES ASSUME Bad # {} PROVE FALSE
    OBVIOUS
<1>. HIDE DEF N
<1>5. PICK k \in Bad : \A l \in Bad : k <= l
    BY <1>1, <1>4, LeastNatural, Bad \in SUBSET Nat
<1>6. k \in i..N /\ ~ (e[i] <= e[k]) /\ e[i] \in Nat /\ e[k] \in Nat
    BY <1>1, <1>2 DEF N
<1>7. k # i
    BY <1>6
<1>8. k - 1 \in i..N /\ k \in 1..N /\ k - 1 \in 0..N
    BY <1>1, <1>6, <1>7
<1>9. e[i] <= e[k - 1]
    BY <1>1, <1>5, <1>8
<1>. QED  BY <1>2, <1>3, <1>6, <1>8, <1>9

(* ToPath reads the row of n, or the beginning of it, and each lookup on   *)
(* the way ends at the node it should.                                     *)
Reading(p, n, e, r) ==
    /\ p \in [mod : Modules \union {NoModule}, names : Seq(Words)]
    /\ IsEnds(e, n) /\ IsRest(r, p)
    /\ Len(p.names) >= 1 /\ Len(p.names) <= Len(ToStrings(n))
    /\ \A x \in 1..Len(p.names) : p.names[x] = ToStrings(n)[x]
    /\ \A i \in 1..Len(Names(n)) : Lookup(p, SubSeq(Names(n), 1, i)) = DataAncestor(n, i)

(* What it makes of what follows the first i names and their keys. *)
Following(r, n, e, i) == r[e[i] + 1][SubSeq(Names(n), 1, i)]

(* The element for the i-th name: values are taken in the order in which   *)
(* the keys are declared.                                                  *)
ElemRead(n, i) ==
    LET a == DataAncestor(n, i)
    IN  Elem(Names(n)[i], {<<KeysOf(a)[j], Value[SortedKeys(a)[j]]>> : j \in 1..Len(KeysOf(a))})

(* That is an element. *)
LEMMA ElemReadType ==
    ASSUME tree \in Trees, NEW n \in DataNodes, NEW i \in 1..Len(Names(n))
    PROVE  ElemRead(n, i) \in Elements
<1>. DEFINE a == DataAncestor(n, i)
            K == Len(KeysOf(a))
<1>1. a \in Nodes
    BY Ancestors DEF DataNodes
<1>2. /\ KeysOf(a) \in Seq(Idents) /\ Range(KeysOf(a)) \subseteq DOMAIN Value
      /\ \A j \in 1..K : SortedKeys(a)[j] \in Range(KeysOf(a))
    BY <1>1, KeysOfNode, SortedKeysOf
<1>3. \A j \in 1..K : KeysOf(a)[j] \in Idents
    BY <1>2, ElementOfSeq
<1>. HIDE DEF a, K
<1>4. \A j \in 1..K : Value[SortedKeys(a)[j]] \in Words /\ KeysOf(a)[j] \in Words
  <2>1. \A x \in DOMAIN Value : Value[x] \in Range(Value)
      BY DEF Range
  <2>. QED  BY <1>2, <1>3, <2>1 DEF Words
<1>5. Names(n)[i] \in Words
  <2>1. Names(n) \in Seq(Idents)
      BY NamesOfNode
  <2>. QED  BY <2>1, ElementOfSeq DEF Words
<1>6. ElemRead(n, i) = [name |-> Names(n)[i], keys |-> {<<KeysOf(a)[j], Value[SortedKeys(a)[j]]>> : j \in 1..K}]
    BY DEF ElemRead, Elem, a, K
<1>7. {<<KeysOf(a)[j], Value[SortedKeys(a)[j]]>> : j \in 1..K} \in SUBSET (Words \X (Words \union {"*"}))
    BY <1>4
<1>. QED  BY <1>5, <1>6, <1>7 DEF Elements


(* One element is read after the other: the i-th name is looked up, and    *)
(* unless it is the last word its keys take as many words as they are.     *)
LEMMA ReadStep ==
    ASSUME tree \in Trees, NEW n \in DataNodes, NEW p, NEW e, NEW r, Reading(p, n, e, r),
           NEW i \in 1..Len(Names(n)), e[i - 1] < Len(p.names)
    PROVE  /\ Len(p.names) = e[i - 1] + 1 => Following(r, n, e, i - 1) = <<Elem(Names(n)[i], {})>>
           /\ e[i - 1] + 1 < Len(p.names) /\ Len(p.names) < e[i] => Following(r, n, e, i - 1) = Panic
           /\ e[i - 1] + 1 < Len(p.names) /\ e[i] <= Len(p.names) =>
                 Following(r, n, e, i - 1) = InFront(ElemRead(n, i), Following(r, n, e, i))
<1>. DEFINE N == Len(Names(n))
            s == p.names
            L == Len(s)
            b == e[i - 1] + 1
            before == SubSeq(Names(n), 1, i - 1)
            here == SubSeq(Names(n), 1, i)
            a == DataAncestor(n, i)
            K == Len(KeysOf(a))
<1>1. N \in Nat /\ Names(n) \in Seq(Idents) /\ i - 1 \in 0..N /\ i \in 0..N
  <2>1. Names(n) \in Seq(Idents)
      BY NamesOfNode
  <2>. QED  BY <2>1
<1>2. s \in Seq(Words) /\ L \in Nat /\ IsEnds(e, n) /\ IsRest(r, p)
    BY DEF Reading
<1>3. e[i - 1] \in Nat /\ e[i] \in Nat /\ e[i] = b + K
    BY <1>1, <1>2 DEF IsEnds
<1>4. b \in 1..L /\ b \in 1..L + 1
    BY <1>2, <1>3
<1>5. before \in Seq(Words) /\ here = Append(before, Names(n)[i]) /\ here \in Seq(Words)
  <2>1. before \in Seq(Idents) /\ here \in Seq(Idents) /\ here = Append(before, Names(n)[i])
      BY <1>1
  <2>2. Idents \subseteq Words
      BY DEF Words
  <2>. HIDE DEF before, here
  <2>. QED  BY <2>1, <2>2, SeqMonotonic
<1>6. \A x \in 1..L : s[x] = ToStrings(n)[x]
    BY DEF Reading
<1>7. s[b] = Names(n)[i]
    BY <1>2, <1>4, <1>6 DEF IsEnds
<1>8. Lookup(p, here) = a /\ a # None
  <2>1. Lookup(p, here) = a
      BY DEF Reading
  <2>2. a \in DataNodes
      BY Ancestors
  <2>. QED  BY <2>1, <2>2, NoneIsNoNode
<1>9. K \in Nat
    BY RowOfName
<1>10. b < L => IsDir(a)
  <2>1. CASE i < N
      BY <2>1, AncestorsOfAncestor
  <2>2. CASE ~ (i < N)
    <3>1. i = N
        BY <1>1, <2>2
    <3>2. L <= e[N]
        BY <1>2 DEF Reading, IsEnds
    <3>3. b < L => K # 0
        BY <1>2, <1>3, <1>9, <3>1, <3>2
    <3>4. a \in Nodes
        BY Ancestors DEF DataNodes
    <3>. QED  BY <3>3, <3>4, KeysOfNode
  <2>. QED  BY <2>1, <2>2
<1>11. Following(r, n, e, i - 1) = r[b][before] /\ Following(r, n, e, i) = r[e[i] + 1][here]
    BY DEF Following
<1>. HIDE DEF before, here, b, s, L, a, K
<1>12. r[b][before] = RestOf(r, p, b, before)
    BY <1>2, <1>4, <1>5 DEF IsRest, L, s
<1>13. RestOf(r, p, b, before) =
          IF b = L THEN <<Elem(s[b], {})>>
          ELSE IF IsDir(a) THEN
               (IF b + K > L THEN Panic
                ELSE InFront(Elem(s[b], {<<KeysOf(a)[j], s[b + j]>> : j \in 1..K}), r[b + 1 + K][here]))
          ELSE IF Kind(a) = "leaf" THEN InFront(Elem(s[b], {}), r[b + 1 + 0][here])
          ELSE InFront(Elem(s[b], {<<s[b], s[b + 1]>>}), r[b + 1 + 1][here])
  <2>1. b <= L /\ ~ (b > L)
      BY <1>2, <1>4
  <2>2. Append(before, s[b]) = here
      BY <1>5, <1>7
  <2>. QED  BY <1>8, <2>1, <2>2 DEF RestOf, s, L, K
<1>14. CASE L = b
    BY <1>7, <1>11, <1>12, <1>13, <1>14 DEF b, L, s
<1>15. CASE b < L /\ L < e[i]
  <2>1. b # L /\ b + K > L
      BY <1>2, <1>3, <1>4, <1>15
  <2>2. r[b][before] = Panic
      BY <1>10, <1>12, <1>13, <1>15, <2>1
  <2>. QED  BY <1>2, <1>3, <1>11, <1>15, <2>1, <2>2 DEF b, L, s
<1>16. CASE b < L /\ e[i] <= L
  <2>1. b # L /\ ~ (b + K > L) /\ b + 1 + K = e[i] + 1
      BY <1>2, <1>3, <1>4, <1>9, <1>16
  <2>2. ASSUME NEW j \in 1..K
        PROVE  s[b + j] = Value[SortedKeys(a)[j]]
    <3>1. b + j \in 1..L
        BY <1>2, <1>3, <1>4, <1>9, <1>16
    <3>2. ToStrings(n)[b + j] = Value[SortedKeys(a)[j]]
        BY <1>2 DEF IsEnds, b, K, a
    <3>. QED  BY <1>6, <3>1, <3>2
  <2>3. {<<KeysOf(a)[j], s[b + j]>> : j \in 1..K} = {<<KeysOf(a)[j], Value[SortedKeys(a)[j]]>> : j \in 1..K}
      BY <2>2
  <2>4. Elem(s[b], {<<KeysOf(a)[j], s[b + j]>> : j \in 1..K}) = ElemRead(n, i)
      BY <1>7, <2>3 DEF ElemRead, a, K
  <2>5. r[b][before] = InFront(ElemRead(n, i), r[e[i] + 1][here])
      BY <1>10, <1>12, <1>13, <1>16, <2>1, <2>4
  <2>. QED  BY <1>2, <1>3, <1>11, <1>16, <2>1, <2>5 DEF b, L, s
<1>17. L = b \/ (b < L /\ L < e[i]) \/ (b < L /\ e[i] <= L)
    BY <1>2, <1>3, <1>4
<1>. QED  BY <1>14, <1>15, <1>16, <1>17

(* Nothing is left behind the last word; and what is left is an answer. *)
LEMMA ReadEnd ==
    ASSUME tree \in Trees, NEW n \in DataNodes, NEW p, NEW e, NEW r, Reading(p, n, e, r),
           NEW i \in 0..Len(Names(n)), e[i] <= Len(p.names)
    PROVE  /\ Following(r, n, e, i) \in Answers
           /\ e[i] = Len(p.names) => Following(r, n, e, i) = <<>> /\ i # 0
<1>. DEFINE N == Len(Names(n))
            L == Len(p.names)
            here == SubSeq(Names(n), 1, i)
<1>1. N \in Nat /\ Names(n) \in Seq(Idents) /\ i \in Nat
  <2>1. Names(n) \in Seq(Idents)
      BY NamesOfNode
  <2>. QED  BY <2>1
<1>2. L \in Nat /\ L >= 1 /\ IsEnds(e, n) /\ IsRest(r, p)
    BY DEF Reading
<1>3. e[i] \in Nat /\ e[0] = 0
    BY <1>2 DEF IsEnds
<1>4. here \in Seq(Words)
  <2>1. here \in Seq(Idents) /\ Idents \subseteq Words
      BY <1>1 DEF Words
  <2>. HIDE DEF here
  <2>. QED  BY <2>1, SeqMonotonic
<1>5. e[i] + 1 \in 1..L + 1
    BY <1>2, <1>3
<1>6. /\ Following(r, n, e, i) = RestOf(r, p, e[i] + 1, here)
      /\ Following(r, n, e, i) \in Answers
    BY <1>2, <1>4, <1>5 DEF Following, IsRest
<1>7. ASSUME e[i] = L
      PROVE  Following(r, n, e, i) = <<>> /\ i # 0
  <2>1. i # 0 /\ i \in 1..N
      BY <1>1, <1>2, <1>3, <1>7
  <2>2. Lookup(p, here) = DataAncestor(n, i) /\ DataAncestor(n, i) # None
    <3>1. DataAncestor(n, i) \in DataNodes
        BY <2>1, Ancestors
    <3>. QED  BY <2>1, <3>1, NoneIsNoNode DEF Reading
  <2>3. e[i] + 1 > L /\ ~ (e[i] + 1 <= L)
      BY <1>2, <1>7
  <2>. HIDE DEF here
  <2>4. RestOf(r, p, e[i] + 1, here) = <<>>
      BY <2>2, <2>3 DEF RestOf
  <2>. QED  BY <1>6, <2>1, <2>4
<1>. QED  BY <1>6, <1>7


(* Induction from the end. *)
LEMMA FromTheEnd ==
    ASSUME NEW N \in Nat, NEW S, N \in S, \A i \in 0..N : i < N /\ i + 1 \in S => i \in S
    PROVE  0 \in S
<1>. DEFINE Bad == {k \in 0..N : N - k \notin S}
<1>1. SUFFICES ASSUME 0 \notin S PROVE FALSE
    OBVIOUS
<1>2. N \in Bad /\ Bad \in SUBSET Nat
    BY <1>1
<1>3. PICK k \in Bad : \A l \in Bad : k <= l
    BY <1>2, LeastNatural
<1>4. k # 0 /\ k \in 0..N /\ N - k \notin S
    BY <1>3
<1>5. k - 1 \in 0..N /\ ~ (k <= k - 1) /\ N - (k - 1) = N - k + 1 /\ N - k \in 0..N /\ N - k < N
    BY <1>4
<1>6. N - (k - 1) \in S
    BY <1>3, <1>5
<1>. QED  BY <1>4, <1>5, <1>6

(* Something in front of an answer is a panic exactly if the answer is. *)
LEMMA InFrontPanics ==
    ASSUME NEW x \in Elements, NEW s \in Answers
    PROVE  InFront(x, s) = Panic <=> s = Panic
<1>1. CASE s \in {Error, Panic}
    BY <1>1, ValuesAssumption DEF InFront
<1>2. CASE s \notin {Error, Panic}
  <2>1. s \in Seq(Elements)
      BY <1>2 DEF Answers
  <2>2. <<x>> \o s \in Seq(Elements)
      BY <2>1
  <2>3. <<x>> \o s # Panic
      BY <2>2, ValuesAssumption
  <2>. QED  BY <1>2, <2>3 DEF InFront
<1>. QED  BY <1>1, <1>2

(* Where a row of len words ends between the keys of the j-th name. *)
InKeys(e, j, len) == e[j - 1] + 1 < len /\ len < e[j]

(* ToPath panics exactly if the row ends between the keys of a name. *)
LEMMA ReadPanics ==
    ASSUME tree \in Trees, NEW n \in DataNodes, NEW p, NEW e, NEW r, Reading(p, n, e, r)
    PROVE  Following(r, n, e, 0) = Panic <=> \E j \in 1..Len(Names(n)) : InKeys(e, j, Len(p.names))
<1>. DEFINE N == Len(Names(n))
            L == Len(p.names)
            R(i) == Following(r, n, e, i)
            Right(i) == e[i] <= L => (R(i) = Panic <=> \E j \in i + 1 .. N : InKeys(e, j, L))
            S == {i \in 0..N : Right(i)}
<1>1. N \in Nat
    BY NamesOfNode
<1>2. L \in Nat /\ L >= 1 /\ IsEnds(e, n) /\ L <= e[N]
    BY DEF Reading, IsEnds
<1>3. e[0] = 0 /\ \A i \in 0..N : e[i] \in Nat
    BY <1>2 DEF IsEnds
<1>4. \A i \in 0..N : \A k \in i..N : e[i] <= e[k]
    BY <1>2, EndsGrow
<1>5. <<>> # Panic /\ \A x : <<Elem(x, {})>> \in Seq(Elements) => <<Elem(x, {})>> # Panic
  <2>1. <<>> \in Seq(Elements)
      OBVIOUS
  <2>. QED  BY <2>1, ValuesAssumption
<1>6. ASSUME NEW i \in 0..N, e[i] = L
      PROVE  Right(i)
  <2>1. R(i) = <<>>
      BY <1>6, <1>2, <1>3, ReadEnd
  <2>2. ASSUME NEW j \in i + 1 .. N
        PROVE  ~ InKeys(e, j, L)
    <3>1. j - 1 \in i..N /\ j - 1 \in 0..N
        BY <1>1
    <3>2. e[i] <= e[j - 1] /\ e[j - 1] \in Nat
        BY <1>3, <1>4, <3>1
    <3>. QED  BY <1>2, <1>6, <3>2 DEF InKeys
  <2>. QED  BY <1>5, <2>1, <2>2
<1>7. ASSUME NEW i \in 0..N, i < N, Right(i + 1), e[i] < L
      PROVE  Right(i)
  <2>. DEFINE k == i + 1
  <2>1. k \in 1..N /\ k \in 0..N /\ k - 1 = i
      BY <1>1, <1>7
  <2>. HIDE DEF k, R, Right
  <2>2. /\ L = e[i] + 1 => R(i) = <<Elem(Names(n)[k], {})>>
        /\ e[i] + 1 < L /\ L < e[k] => R(i) = Panic
        /\ e[i] + 1 < L /\ e[k] <= L => R(i) = InFront(ElemRead(n, k), R(k))
      BY <1>7, <2>1, ReadStep DEF R
  <2>3. e[i] \in Nat /\ e[k] \in Nat /\ R(i) \in Answers
    <3>1. e[i] <= L
        BY <1>2, <1>3, <1>7
    <3>. QED  BY <1>3, <2>1, <3>1, ReadEnd DEF R
  <2>4. e[i] + 1 <= e[k]
    <3>1. e[k] = e[k - 1] + 1 + Len(KeysOf(DataAncestor(n, k))) /\ Len(KeysOf(DataAncestor(n, k))) \in Nat
        BY <1>2, <2>1, RowOfName DEF IsEnds
    <3>. QED  BY <2>1, <2>3, <3>1
  <2>5. \A j \in i + 1 .. N : j = k \/ j \in k + 1 .. N
      BY <1>1, <2>1
  <2>6. \A j \in k + 1 .. N : e[k] <= e[j - 1] /\ e[j - 1] \in Nat /\ j \in i + 1 .. N
    <3>1. \A j \in k + 1 .. N : j - 1 \in k..N /\ j - 1 \in 0..N /\ j \in i + 1 .. N
        BY <1>1, <2>1
    <3>. QED  BY <1>3, <1>4, <2>1, <3>1
  <2>7. k \in i + 1 .. N
      BY <1>1, <2>1
  <2>8. CASE L = e[i] + 1
    <3>1. R(i) = <<Elem(Names(n)[k], {})>>
        BY <2>2, <2>8
    <3>2. R(i) # Panic
      <4>1. Names(n)[k] \in Words
        <5>1. Names(n) \in Seq(Idents)
            BY NamesOfNode
        <5>. QED  BY <2>1, <5>1, ElementOfSeq DEF Words
      <4>2. Elem(Names(n)[k], {}) \in Elements
          BY <4>1 DEF Elem, Elements
      <4>3. <<Elem(Names(n)[k], {})>> \in Seq(Elements)
          BY <4>2
      <4>. QED  BY <1>5, <3>1, <4>3
    <3>3. ~ InKeys(e, k, L)
        BY <1>2, <2>1, <2>3, <2>8 DEF InKeys
    <3>4. \A j \in k + 1 .. N : ~ InKeys(e, j, L)
        BY <1>2, <2>3, <2>4, <2>6, <2>8 DEF InKeys
    <3>. QED  BY <2>5, <3>2, <3>3, <3>4 DEF Right
  <2>9. CASE e[i] + 1 < L /\ L < e[k]
    <3>1. InKeys(e, k, L)
        BY <2>1, <2>9 DEF InKeys
    <3>. QED  BY <2>2, <2>7, <2>9, <3>1 DEF Right
  <2>10. CASE e[i] + 1 < L /\ e[k] <= L
    <3>1. R(i) = InFront(ElemRead(n, k), R(k))
        BY <2>2, <2>10
    <3>2. R(k) \in Answers /\ ElemRead(n, k) \in Elements
        BY <2>1, <2>10, ReadEnd, ElemReadType DEF R
    <3>3. R(i) = Panic <=> R(k) = Panic
        BY <3>1, <3>2, InFrontPanics
    <3>4. R(k) = Panic <=> \E j \in k + 1 .. N : InKeys(e, j, L)
        BY <1>7, <2>10 DEF Right, k
    <3>5. ~ InKeys(e, k, L)
        BY <1>2, <2>3, <2>10 DEF InKeys
    <3>. QED  BY <2>5, <2>6, <3>3, <3>4, <3>5 DEF Right
  <2>11. L = e[i] + 1 \/ (e[i] + 1 < L /\ L < e[k]) \/ (e[i] + 1 < L /\ e[k] <= L)
      BY <1>2, <1>7, <2>3
  <2>. QED  BY <2>8, <2>9, <2>10, <2>11
<1>. HIDE DEF R, Right
<1>8. \A i \in 0..N : ~ (e[i] <= L) => Right(i)
    BY DEF Right
<1>9. N \in S
  <2>1. N \in 0..N /\ e[N] \in Nat
      BY <1>1, <1>3
  <2>2. e[N] = L \/ ~ (e[N] <= L)
      BY <1>2, <2>1
  <2>. QED  BY <1>6, <1>8, <2>1, <2>2
<1>10. \A i \in 0..N : i < N /\ i + 1 \in S => i \in S
  <2>1. ASSUME NEW i \in 0..N, i < N, i + 1 \in S
        PROVE  Right(i)
    <3>1. e[i] < L \/ e[i] = L \/ ~ (e[i] <= L)
        BY <1>2, <1>3
    <3>. QED  BY <1>6, <1>7, <1>8, <2>1, <3>1
  <2>. QED  BY <2>1
<1>. HIDE DEF S, N
<1>11. 0 \in S
    BY <1>1, <1>9, <1>10, FromTheEnd
<1>12. Right(0) /\ e[0] <= L /\ 0 + 1 = 1
    BY <1>2, <1>3, <1>11 DEF S
<1>. QED  BY <1>12 DEF Right, R, N


(* A whole row is read as one element for each name. *)
LEMMA ReadAll ==
    ASSUME tree \in Trees, NEW n \in DataNodes, NEW p, NEW e, NEW r, Reading(p, n, e, r),
           Len(p.names) = Len(ToStrings(n))
    PROVE  Following(r, n, e, 0) = [i \in 1..Len(Names(n)) |-> ElemRead(n, i)]
<1>. DEFINE N == Len(Names(n))
            L == Len(p.names)
            R(i) == Following(r, n, e, i)
            Elems(i) == [j \in 1..N - i |-> ElemRead(n, i + j)]
            S == {i \in 0..N : R(i) = Elems(i)}
<1>1. N \in Nat
    BY NamesOfNode
<1>2. L \in Nat /\ L >= 1 /\ IsEnds(e, n) /\ L = e[N]
    BY DEF Reading, IsEnds
<1>3. \A i \in 0..N : e[i] \in Nat /\ e[i] <= L
  <2>1. \A i \in 0..N : e[i] \in Nat
      BY <1>2 DEF IsEnds
  <2>2. ASSUME NEW i \in 0..N
        PROVE  e[i] <= e[N]
    <3>1. N \in i..N
        BY <1>1
    <3>. QED  BY <1>2, <3>1, EndsGrow
  <2>. QED  BY <1>2, <2>1, <2>2
<1>4. ASSUME NEW k \in 1..N
      PROVE  e[k] = e[k - 1] + 1 + Len(KeysOf(DataAncestor(n, k))) /\ Len(KeysOf(DataAncestor(n, k))) \in Nat
    BY <1>2, RowOfName DEF IsEnds
<1>5. \A k \in 1..N : ElemRead(n, k) \in Elements
    BY ElemReadType
<1>. HIDE DEF N, L, R
<1>6. N \in 0..N /\ R(N) = <<>> /\ Elems(N) = <<>>
  <2>1. N \in 0..N
      BY <1>1
  <2>2. R(N) = <<>>
      BY <1>2, <1>3, <2>1, ReadEnd DEF R, L, N
  <2>3. Elems(N) = <<>>
    <3>1. N - N = 0
        BY <1>1
    <3>2. \A f : [j \in 1..0 |-> f[j]] = <<>>
        OBVIOUS
    <3>3. Elems(N) = [j \in 1..0 |-> Elems(N)[j]]
        BY <3>1
    <3>. HIDE DEF Elems
    <3>. QED  BY <3>2, <3>3
  <2>. QED  BY <2>1, <2>2, <2>3
<1>7. ASSUME NEW i \in 0..N, i < N, R(i + 1) = Elems(i + 1)
      PROVE  R(i) = Elems(i)
  <2>. DEFINE k == i + 1
              K == Len(KeysOf(DataAncestor(n, k)))
              x == ElemRead(n, k)
  <2>1. k \in 1..N /\ k \in 0..N /\ k - 1 = i /\ i \in Nat
      BY <1>1, <1>7
  <2>2. e[k] = e[i] + 1 + K /\ K \in Nat /\ e[i] \in Nat /\ e[k] \in Nat /\ e[k] <= L
      BY <1>3, <1>4, <2>1
  <2>3. x \in Elements
      BY <1>5, <2>1
  <2>4. Elems(k) \in Seq(Elements) /\ <<x>> \o Elems(k) = Elems(i)
    <3>1. N - k \in Nat /\ N - i = N - k + 1 /\ k + 1 = i + 2
        BY <1>1, <2>1
    <3>2. \A j \in 1..N - k : ElemRead(n, k + j) \in Elements
      <4>1. \A j \in 1..N - k : k + j \in 1..N
          BY <1>1, <2>1
      <4>. QED  BY <1>5, <4>1
    <3>. HIDE DEF k, x
    <3>3. Elems(k) \in Seq(Elements) /\ Len(Elems(k)) = N - k
        BY <3>1, <3>2
    <3>4. \A j \in 1..N - k : Elems(k)[j] = ElemRead(n, k + j)
        OBVIOUS
    <3>5. <<x>> \o Elems(k) = [j \in 1..N - i |-> IF j = 1 THEN x ELSE Elems(k)[j - 1]]
      <4>. DEFINE s == Elems(k)
      <4>1. s \in Seq(Elements) /\ Len(s) = N - k
          BY <3>3
      <4>. HIDE DEF s, Elems
      <4>2. <<x>> \o s = [j \in 1..Len(s) + 1 |-> IF j = 1 THEN x ELSE s[j - 1]]
          BY <2>3, <4>1
      <4>. QED  BY <3>1, <4>1, <4>2 DEF s
    <3>6. ASSUME NEW j \in 1..N - i
          PROVE  (IF j = 1 THEN x ELSE Elems(k)[j - 1]) = ElemRead(n, i + j)
      <4>1. CASE j = 1
          BY <4>1, <2>1 DEF x, k
      <4>2. CASE j # 1
        <5>1. j - 1 \in 1..N - k /\ k + (j - 1) = i + j
            BY <1>1, <2>1, <3>1, <4>2 DEF k
        <5>. HIDE DEF Elems
        <5>. QED  BY <3>4, <4>2, <5>1
      <4>. QED  BY <4>1, <4>2
    <3>. QED  BY <3>3, <3>5, <3>6
  <2>. HIDE DEF k, K, x, Elems
  <2>5. /\ L = e[i] + 1 => R(i) = <<Elem(Names(n)[k], {})>>
        /\ e[i] + 1 < L /\ e[k] <= L => R(i) = InFront(x, R(k))
    <3>1. e[i] < L
        BY <1>2, <2>2
    <3>2. e[k - 1] < L
        BY <2>1, <3>1
    <3>. QED  BY <2>1, <3>2, ReadStep DEF R, x, L, N
  <2>6. CASE L = e[i] + 1
    <3>1. K = 0 /\ e[k] = L
        BY <1>2, <2>2, <2>6
    <3>2. k = N
      <4>1. SUFFICES ASSUME k # N PROVE FALSE
          OBVIOUS
      <4>2. k + 1 \in 1..N /\ k + 1 \in 0..N /\ k + 1 - 1 = k
          BY <1>1, <2>1, <4>1
      <4>. DEFINE l == k + 1
      <4>3. l \in 0..N /\ l - 1 = k
          BY <1>1, <2>1, <4>2
      <4>. HIDE DEF l
      <4>4. e[l] = e[l - 1] + 1 + Len(KeysOf(DataAncestor(n, l))) /\ Len(KeysOf(DataAncestor(n, l))) \in Nat
          BY <1>4, <4>2 DEF l
      <4>5. e[l] <= L
          BY <1>3, <4>3
      <4>. QED  BY <1>2, <3>1, <4>3, <4>4, <4>5
    <3>3. x = Elem(Names(n)[k], {})
      <4>1. {<<KeysOf(DataAncestor(n, k))[j], Value[SortedKeys(DataAncestor(n, k))[j]]>> : j \in 1..K} = {}
          BY <3>1
      <4>. QED  BY <4>1 DEF x, ElemRead, K
    <3>4. <<x>> \o Elems(k) = <<x>>
      <4>1. Elems(k) = <<>>
          BY <1>6, <3>2
      <4>. QED  BY <2>3, <4>1
    <3>. QED  BY <2>4, <2>5, <2>6, <3>3, <3>4
  <2>7. CASE e[i] + 1 < L
    <3>1. R(i) = InFront(x, Elems(k))
        BY <1>7, <2>2, <2>5, <2>7 DEF k
    <3>2. Elems(k) \notin {Error, Panic}
        BY <2>4, ValuesAssumption
    <3>. QED  BY <2>4, <3>1, <3>2 DEF InFront
  <2>. QED  BY <1>2, <2>2, <2>6, <2>7
<1>8. N \in S /\ \A i \in 0..N : i < N /\ i + 1 \in S => i \in S
  <2>. HIDE DEF Elems
  <2>. QED  BY <1>6, <1>7
<1>9. 0 \in S
  <2>. HIDE DEF S
  <2>. QED  BY <1>1, <1>8, FromTheEnd
<1>10. R(0) = Elems(0) /\ N - 0 = N /\ \A j \in 1..N : 0 + j = j
  <2>1. R(0) = Elems(0)
    <3>. HIDE DEF Elems
    <3>. QED  BY <1>9
  <2>2. N - 0 = N /\ \A j \in 1..N : 0 + j = j
      BY <1>1
  <2>. QED  BY <2>1, <2>2
<1>11. Elems(0) = [j \in 1..N |-> ElemRead(n, j)]
    BY <1>10
<1>. HIDE DEF Elems
<1>. QED  BY <1>10, <1>11 DEF R, N

(* The element that is read is that of the path exactly if the values are  *)
(* the same in both orders of the keys.                                    *)
LEMMA SameElem ==
    ASSUME tree \in Trees, NEW n \in DataNodes, NEW i \in 1..Len(Names(n))
    PROVE  LET a == DataAncestor(n, i)
           IN  ElemRead(n, i) = Elem(Names(n)[i], {<<k, Value[k]>> : k \in Range(KeysOf(a))})
                  <=> \A j \in 1..Len(KeysOf(a)) : Value[KeysOf(a)[j]] = Value[SortedKeys(a)[j]]
<1>. DEFINE a == DataAncestor(n, i)
            keys == KeysOf(a)
            N == Len(keys)
            v == SortedKeys(a)
            A == {<<keys[j], Value[v[j]]>> : j \in 1..N}
            B == {<<k, Value[k]>> : k \in Range(keys)}
<1>1. a \in Nodes
    BY Ancestors DEF DataNodes
<1>2. keys \in Seq(Idents) /\ IsInjective(keys) /\ DOMAIN keys = 1..N /\ N \in Nat
  <2>1. keys \in Seq(Idents) /\ IsInjective(keys)
      BY <1>1, KeysOfNode
  <2>. HIDE DEF keys
  <2>. QED  BY <2>1
<1>. HIDE DEF a, keys, N, v
<1>3. ElemRead(n, i) = Elem(Names(n)[i], A)
    BY DEF ElemRead, keys, N, v, a
<1>4. \A j \in 1..N : keys[j] \in Range(keys)
    BY <1>2 DEF Range
<1>5. \A k \in Range(keys) : \E j \in 1..N : keys[j] = k
    BY <1>2 DEF Range
<1>6. \A j, l \in 1..N : keys[j] = keys[l] => j = l
    BY <1>2 DEF IsInjective
<1>7. A = B <=> \A j \in 1..N : Value[keys[j]] = Value[v[j]]
  <2>1. ASSUME A = B, NEW j \in 1..N
        PROVE  Value[keys[j]] = Value[v[j]]
    <3>1. <<keys[j], Value[v[j]]>> \in A
        OBVIOUS
    <3>2. PICK k \in Range(keys) : <<keys[j], Value[v[j]]>> = <<k, Value[k]>>
        BY <2>1, <3>1
    <3>. QED  BY <3>2
  <2>2. ASSUME \A j \in 1..N : Value[keys[j]] = Value[v[j]]
        PROVE  A = B
    <3>1. A \subseteq B
        BY <1>4, <2>2
    <3>2. B \subseteq A
        BY <1>5, <2>2
    <3>. QED  BY <3>1, <3>2
  <2>. QED  BY <2>1, <2>2
<1>8. Elem(Names(n)[i], A) = Elem(Names(n)[i], B) <=> A = B
  <2>. HIDE DEF A, B
  <2>. QED  BY DEF Elem
<1>. QED  BY <1>3, <1>7, <1>8 DEF a, keys, N, v

(* All of the path is read back exactly if that is so for all its names. *)
LEMMA SameAsFullPath ==
    ASSUME tree \in Trees, NEW n \in DataNodes
    PROVE  [i \in 1..Len(Names(n)) |-> ElemRead(n, i)] = FullPath(n)
              <=> \A i \in 1..Len(Names(n)) :
                     LET a == DataAncestor(n, i)
                     IN  \A j \in 1..Len(KeysOf(a)) : Value[KeysOf(a)[j]] = Value[SortedKeys(a)[j]]
<1>. DEFINE I == 1..Len(Names(n))
            Full(i) == Elem(Names(n)[i], {<<k, Value[k]>> : k \in Range(KeysOf(DataAncestor(n, i)))})
            Same(i) == \A j \in 1..Len(KeysOf(DataAncestor(n, i))) :
                          Value[KeysOf(DataAncestor(n, i))[j]] = Value[SortedKeys(DataAncestor(n, i))[j]]
<1>1. \A i \in I : ElemRead(n, i) = Full(i) <=> Same(i)
    BY SameElem
<1>2. FullPath(n) = [i \in I |-> Full(i)]
    BY DEF FullPath
<1>. HIDE DEF I, Full, Same
<1>3. [i \in I |-> ElemRead(n, i)] = [i \in I |-> Full(i)] <=> \A i \in I : ElemRead(n, i) = Full(i)
    OBVIOUS
<1>4. [i \in I |-> ElemRead(n, i)] = FullPath(n) <=> \A i \in I : Same(i)
    BY <1>1, <1>2, <1>3
<1>. QED  BY <1>4 DEF I, Same


(* Each lookup on the way to n, in the module given, ends where it should. *)
Clear(mod, n) ==
    \A i \in 1..Len(Names(n)) : GetSchema([mod |-> mod, names |-> SubSeq(Names(n), 1, i)]) = DataAncestor(n, i)

(* What a row that is written for n, or the beginning of it, is read as. *)
LEMMA ToPathReads ==
    ASSUME tree \in Trees, NEW n \in DataNodes, NEW mod \in Modules \union {NoModule},
           NEW len \in 0..Len(ToStrings(n)), SubSeq(ToStrings(n), 1, len) # <<>>, Clear(mod, n)
    PROVE  LET s == SubSeq(ToStrings(n), 1, len)
               p == [mod |-> mod, names |-> s]
           IN  /\ DbToPath(p) = Panic <=> EndsInKeys(n, Len(s))
               /\ s = ToStrings(n) =>
                     (DbToPath(p) = FullPath(n)
                         <=> \A i \in 1..Len(Names(n)) :
                                LET a == DataAncestor(n, i)
                                IN  \A j \in 1..Len(KeysOf(a)) : Value[KeysOf(a)[j]] = Value[SortedKeys(a)[j]])
<1>. DEFINE t == ToStrings(n)
            s == SubSeq(t, 1, len)
            p == [mod |-> mod, names |-> s]
            N == Len(Names(n))
<1>1. PICK e : IsEnds(e, n)
    BY RowOfNode
<1>2. t \in Seq(Words) /\ Len(t) \in Nat
    BY <1>1 DEF IsEnds
<1>. HIDE DEF t
<1>3. /\ s \in Seq(Words) /\ Len(s) = len /\ len \in Nat /\ len <= Len(t)
      /\ \A x \in 1..len : s[x] = t[x]
    BY <1>2 DEF t
<1>4. len >= 1
  <2>1. s # <<>>
      BY DEF t
  <2>. HIDE DEF s
  <2>. QED  BY <1>3, <2>1, EmptySeq
<1>. HIDE DEF s
<1>5. p \in [mod : Modules \union {NoModule}, names : Seq(Words)] /\ p.names = s /\ p.mod = mod
    BY <1>3
<1>6. \A names : [p EXCEPT !.names = names] = [mod |-> mod, names |-> names]
    OBVIOUS
<1>. HIDE DEF p
<1>7. PICK r : ToPathFrom(p) = r[1][<<>>] /\ IsRest(r, p)
    BY <1>5, ToPathDef
<1>8. Reading(p, n, e, r)
  <2>1. \A i \in 1..N : Lookup(p, SubSeq(Names(n), 1, i)) = DataAncestor(n, i)
      BY <1>6 DEF Lookup, Clear
  <2>. QED  BY <1>1, <1>3, <1>4, <1>5, <1>7, <2>1 DEF Reading, t
<1>9. DbToPath(p) = Following(r, n, e, 0)
  <2>1. e[0] = 0 /\ 0 + 1 = 1
      BY <1>1 DEF IsEnds
  <2>2. SubSeq(Names(n), 1, 0) = <<>>
    <3>1. Names(n) \in Seq(Idents)
        BY NamesOfNode
    <3>. QED  BY <3>1
  <2>. QED  BY <1>7, <2>1, <2>2 DEF Following, DbToPath
<1>10. EndsInKeys(n, len) <=> \E i \in 1..N : InKeys(e, i, len)
  <2>1. ASSUME NEW i \in 1..N
        PROVE  LET a == DataAncestor(n, i)
                   end == Len(ToStrings(a))
               IN  len \in end - Len(KeysOf(a)) + 1 .. end - 1 <=> InKeys(e, i, len)
    <3>. DEFINE a == DataAncestor(n, i)
                K == Len(KeysOf(a))
    <3>1. N \in Nat
        BY NamesOfNode
    <3>2. i - 1 \in 0..N
        BY <3>1
    <3>3. e[i] = e[i - 1] + 1 + K /\ Len(ToStrings(a)) = e[i] /\ e[i - 1] \in Nat
      <4>1. e[i] = e[i - 1] + 1 + K /\ Len(ToStrings(a)) = e[i]
          BY <1>1, Zenon DEF IsEnds
      <4>2. e \in [0..N -> Nat]
          BY <1>1, Zenon DEF IsEnds
      <4>3. e[i - 1] \in Nat
          BY <3>2, <4>2
      <4>. QED  BY <4>1, <4>3
    <3>4. K \in Nat
        BY RowOfName
    <3>. HIDE DEF a, K
    <3>5. len \in e[i] - K + 1 .. e[i] - 1 <=> InKeys(e, i, len)
        BY <1>3, <3>3, <3>4 DEF InKeys
    <3>. QED  BY <3>3, <3>5 DEF a, K
  <2>. QED  BY <2>1 DEF EndsInKeys
<1>11. DbToPath(p) = Panic <=> EndsInKeys(n, Len(s))
    BY <1>3, <1>5, <1>8, <1>9, <1>10, ReadPanics
<1>12. ASSUME s = t
       PROVE  DbToPath(p) = FullPath(n)
                 <=> \A i \in 1..Len(Names(n)) :
                        LET a == DataAncestor(n, i)
                        IN  \A j \in 1..Len(KeysOf(a)) : Value[KeysOf(a)[j]] = Value[SortedKeys(a)[j]]
  <2>1. Following(r, n, e, 0) = [i \in 1..Len(Names(n)) |-> ElemRead(n, i)]
      BY <1>5, <1>8, <1>12, ReadAll DEF t
  <2>. QED  BY <1>9, <2>1, SameAsFullPath
<1>. QED  BY <1>11, <1>12 DEF p, s, t

(* What the step that asks ToPath does, with the tree as it is. *)
LEMMA ToPathStep ==
    ASSUME tree \in Trees, AskToPath
    PROVE  \E n \in DataNodes, mod \in Modules \union {NoModule} : \E len \in 0..Len(ToStrings(n)) :
              /\ SubSeq(ToStrings(n), 1, len) # <<>> /\ mod \in {n[1], NoModule}
              /\ q'.node = n /\ q'.mod = mod /\ q'.names = SubSeq(ToStrings(n), 1, len)
              /\ mem' = MemToPath([mod |-> mod, names |-> SubSeq(ToStrings(n), 1, len)])
              /\ db' = DbToPath([mod |-> mod, names |-> SubSeq(ToStrings(n), 1, len)])
<1>1. PICK n \in DataNodes, m \in {FALSE, TRUE} :
         \E len \in 0..Len(ToStrings(n)) :
            LET s == SubSeq(ToStrings(n), 1, len)
                p == [mod |-> IF m THEN n[1] ELSE NoModule, names |-> s]
            IN  /\ s # <<>>
                /\ q' = [mod |-> p.mod, names |-> s, node |-> n]
                /\ mem' = MemToPath(p)
                /\ db' = DbToPath(p)
    BY Zenon DEF AskToPath
<1>2. PICK len \in 0..Len(ToStrings(n)) :
         LET s == SubSeq(ToStrings(n), 1, len)
             p == [mod |-> IF m THEN n[1] ELSE NoModule, names |-> s]
         IN  /\ s # <<>>
             /\ q' = [mod |-> p.mod, names |-> s, node |-> n]
             /\ mem' = MemToPath(p)
             /\ db' = DbToPath(p)
    BY <1>1
<1>. DEFINE mod == IF m THEN n[1] ELSE NoModule
            s == SubSeq(ToStrings(n), 1, len)
<1>3. mod \in Modules \union {NoModule} /\ mod \in {n[1], NoModule}
    BY NamesOfNode
<1>4. /\ s # <<>> /\ q' = [mod |-> mod, names |-> s, node |-> n]
      /\ mem' = MemToPath([mod |-> mod, names |-> s]) /\ db' = DbToPath([mod |-> mod, names |-> s])
    BY <1>2
<1>. HIDE DEF mod, s
<1>5. q'.node = n /\ q'.mod = mod /\ q'.names = s
    BY <1>4
<1>. QED  BY <1>3, <1>4, <1>5 DEF s


(* What the properties of ToPath speak of depends on the tree only. *)
LEMMA RowsStay ==
    ASSUME tree' = tree
    PROVE  /\ \A n, i : Names(n)' = Names(n) /\ DataAncestor(n, i)' = DataAncestor(n, i)
           /\ \A n : KeysOf(n)' = KeysOf(n) /\ SortedKeys(n)' = SortedKeys(n)
           /\ \A n : ToStrings(n)' = ToStrings(n) /\ FullPath(n)' = FullPath(n)
           /\ \A n, len : EndsInKeys(n, len)' = EndsInKeys(n, len)
           /\ \A mod, n : Clear(mod, n)' = Clear(mod, n)
<1>1. \A n, i : Names(n)' = Names(n) /\ DataAncestor(n, i)' = DataAncestor(n, i)
    BY DEF Names, DataAncestor, DataNames, DataNodes, Nodes, Transparent, Kind, Parent, Name
<1>2. \A n : KeysOf(n)' = KeysOf(n) /\ SortedKeys(n)' = SortedKeys(n)
    BY DEF KeysOf, SortedKeys
<1>3. \A n : ToStrings(n)' = ToStrings(n)
    BY DEF ToStrings, SortedKeys, KeysOf, Names, DataAncestor, DataNames, DataNodes, Nodes, Transparent, Kind, Parent, Name
<1>4. \A n : FullPath(n)' = FullPath(n)
    BY DEF FullPath, KeysOf, Names, DataAncestor, DataNames, DataNodes, Nodes, Transparent, Kind, Parent, Name, Elem
<1>5. \A n, len : EndsInKeys(n, len)' = EndsInKeys(n, len)
    BY DEF EndsInKeys, ToStrings, SortedKeys, KeysOf, Names, DataAncestor, DataNames, DataNodes, Nodes,
           Transparent, Kind, Parent, Name
<1>6. \A mod, n : Clear(mod, n)' = Clear(mod, n)
    BY DEF Clear, GetSchema, EntryPath, GetEntryPath, DataParent, DataAncestor, Names, DataNames, DataNodes, Nodes,
           Transparent, Kind, Parent, Name
<1>. QED  BY <1>1, <1>2, <1>3, <1>4, <1>5, <1>6

(* PanicsInKeysOnly: whatever the schema, ToPath of the persistent store   *)
(* panics on a path of names and key values, or the beginning of one,      *)
(* exactly if it ends between the keys of a list.                          *)
THEOREM PanicsInKeysOnlyHolds == Spec => []PanicsInKeysOnly
<1>1. Init => PanicsInKeysOnly
    BY DEF Init, PanicsInKeysOnly
<1>2. ASSUME tree \in Trees, PanicsInKeysOnly, [Next]_vars
      PROVE  PanicsInKeysOnly'
  <2>1. CASE AskToPath
    <3>1. PICK n \in DataNodes, mod \in Modules \union {NoModule} : \E len \in 0..Len(ToStrings(n)) :
             /\ SubSeq(ToStrings(n), 1, len) # <<>>
             /\ q'.node = n /\ q'.mod = mod /\ q'.names = SubSeq(ToStrings(n), 1, len)
             /\ db' = DbToPath([mod |-> mod, names |-> SubSeq(ToStrings(n), 1, len)])
        BY <1>2, <2>1, ToPathStep
    <3>2. PICK len \in 0..Len(ToStrings(n)) :
             /\ SubSeq(ToStrings(n), 1, len) # <<>>
             /\ q'.node = n /\ q'.mod = mod /\ q'.names = SubSeq(ToStrings(n), 1, len)
             /\ db' = DbToPath([mod |-> mod, names |-> SubSeq(ToStrings(n), 1, len)])
        BY <3>1
    <3>3. tree' = tree
        BY <2>1 DEF AskToPath
    <3>4. Unshadowed(q.node)' => Clear(mod, n)
      <4>1. Unshadowed(q.node)' => Clear(mod, n)'
          BY <3>2 DEF Unshadowed, Clear
      <4>. QED  BY <3>3, <4>1, RowsStay
    <3>5. Clear(mod, n) => (db' = Panic <=> EndsInKeys(n, Len(q'.names)))
        BY <1>2, <3>2, ToPathReads
    <3>6. EndsInKeys(q.node, Len(q.names))' = EndsInKeys(n, Len(q'.names))
      <4>1. PICK l : l = Len(q'.names)
          OBVIOUS
      <4>2. EndsInKeys(q.node, Len(q.names))' = EndsInKeys(n, l)'
          BY <3>2, <4>1 DEF EndsInKeys
      <4>. QED  BY <3>3, <4>1, <4>2, RowsStay
    <3>. QED  BY <3>4, <3>5, <3>6 DEF PanicsInKeysOnly
  <2>2. CASE Load \/ AskSchema \/ AskExpand
    <3>1. op' # "toPath"
        BY <2>2 DEF Load, AskSchema, AskExpand
    <3>. QED  BY <3>1 DEF PanicsInKeysOnly
  <2>3. CASE UNCHANGED vars
    <3>1. op' = op /\ tree' = tree /\ q' = q /\ db' = db
        BY <2>3 DEF vars
    <3>2. Unshadowed(q.node)' = Unshadowed(q.node)
        BY <3>1 DEF Unshadowed, GetSchema, EntryPath, GetEntryPath, DataParent, DataAncestor, Names, DataNames, DataNodes,
                    Nodes, Transparent, Kind, Parent, Name
    <3>3. EndsInKeys(q.node, Len(q.names))' = EndsInKeys(q.node, Len(q.names))
        BY <3>1 DEF EndsInKeys, ToStrings, SortedKeys, KeysOf, Names, DataAncestor, DataNames, DataNodes, Nodes,
                    Transparent, Kind, Parent, Name
    <3>. QED  BY <1>2, <3>1, <3>2, <3>3 DEF PanicsInKeysOnly
  <2>. QED  BY <1>2, <2>1, <2>2, <2>3 DEF Next
<1>. QED  BY <1>1, <1>2, TreeStays, PTL DEF Spec


(* The values of the keys are the same in both orders, for all names of n. *)
SameValues(n) ==
    \A i \in 1..Len(Names(n)) :
       LET a == DataAncestor(n, i)
       IN  \A j \in 1..Len(KeysOf(a)) : Value[KeysOf(a)[j]] = Value[SortedKeys(a)[j]]

(* DbRoundTrip: whatever the schema, the persistent store reads a path     *)
(* that was written as a row of names and key values back as the same path *)
(* exactly if the values are the same in the order in which the keys are   *)
(* declared and in the order of their names, in which they are written.    *)
THEOREM DbRoundTripHolds == Spec => []DbRoundTrip
<1>1. Init => DbRoundTrip
    BY DEF Init, DbRoundTrip
<1>2. ASSUME tree \in Trees, DbRoundTrip, [Next]_vars
      PROVE  DbRoundTrip'
  <2>. USE DEF SameValues
  <2>1. CASE AskToPath
    <3>1. PICK n \in DataNodes, mod \in Modules \union {NoModule} : \E len \in 0..Len(ToStrings(n)) :
             /\ SubSeq(ToStrings(n), 1, len) # <<>>
             /\ q'.node = n /\ q'.mod = mod /\ q'.names = SubSeq(ToStrings(n), 1, len)
             /\ db' = DbToPath([mod |-> mod, names |-> SubSeq(ToStrings(n), 1, len)])
        BY <1>2, <2>1, ToPathStep
    <3>2. PICK len \in 0..Len(ToStrings(n)) :
             /\ SubSeq(ToStrings(n), 1, len) # <<>>
             /\ q'.node = n /\ q'.mod = mod /\ q'.names = SubSeq(ToStrings(n), 1, len)
             /\ db' = DbToPath([mod |-> mod, names |-> SubSeq(ToStrings(n), 1, len)])
        BY <3>1
    <3>3. tree' = tree
        BY <2>1 DEF AskToPath
    <3>4. Unshadowed(q.node)' => Clear(mod, n)
      <4>1. Unshadowed(q.node)' => Clear(mod, n)'
          BY <3>2 DEF Unshadowed, Clear
      <4>. QED  BY <3>3, <4>1, RowsStay
    <3>5. Clear(mod, n) /\ q'.names = ToStrings(n) => (db' = FullPath(n) <=> SameValues(n))
      <4>1. ASSUME Clear(mod, n), q'.names = ToStrings(n)
            PROVE  db' = FullPath(n) <=> SameValues(n)
        <5>1. SubSeq(ToStrings(n), 1, len) = ToStrings(n)
            BY <3>2, <4>1
        <5>2. DbToPath([mod |-> mod, names |-> SubSeq(ToStrings(n), 1, len)]) = FullPath(n) <=> SameValues(n)
            BY <1>2, <3>2, <4>1, <5>1, ToPathReads
        <5>. QED  BY <3>2, <5>2
      <4>. QED  BY <4>1
    <3>6. ToStrings(q.node)' = ToStrings(n) /\ FullPath(q.node)' = FullPath(n)
      <4>1. ToStrings(q.node)' = ToStrings(n)' /\ FullPath(q.node)' = FullPath(n)'
          BY <3>2 DEF ToStrings, FullPath
      <4>. QED  BY <3>3, <4>1, RowsStay
    <3>7. SameValues(q.node)' = SameValues(n)
      <4>1. SameValues(q.node)' = SameValues(n)'
          BY <3>2
      <4>2. SameValues(n)' = SameValues(n)
          BY <3>3 DEF SortedKeys, KeysOf, Names, DataAncestor, DataNames, DataNodes, Nodes, Transparent, Kind, Parent, Name
      <4>. QED  BY <4>1, <4>2
    <3>. QED  BY <3>4, <3>5, <3>6, <3>7 DEF DbRoundTrip
  <2>2. CASE Load \/ AskSchema \/ AskExpand
    <3>1. op' # "toPath"
        BY <2>2 DEF Load, AskSchema, AskExpand
    <3>. QED  BY <3>1 DEF DbRoundTrip
  <2>3. CASE UNCHANGED vars
    <3>1. op' = op /\ tree' = tree /\ q' = q /\ db' = db
        BY <2>3 DEF vars
    <3>2. Unshadowed(q.node)' = Unshadowed(q.node)
        BY <3>1 DEF Unshadowed, GetSchema, EntryPath, GetEntryPath, DataParent, DataAncestor, Names, DataNames, DataNodes,
                    Nodes, Transparent, Kind, Parent, Name
    <3>3. ToStrings(q.node)' = ToStrings(q.node) /\ FullPath(q.node)' = FullPath(q.node)
        BY <3>1 DEF ToStrings, FullPath, SortedKeys, KeysOf, Names, DataAncestor, DataNames, DataNodes, Nodes,
                    Transparent, Kind, Parent, Name, Elem
    <3>4. SameValues(q.node)' = SameValues(q.node)
        BY <3>1 DEF SortedKeys, KeysOf, Names, DataAncestor, DataNames, DataNodes, Nodes, Transparent, Kind, Parent, Name
    <3>. QED  BY <1>2, <3>1, <3>2, <3>3, <3>4 DEF DbRoundTrip
  <2>. QED  BY <1>2, <2>1, <2>2, <2>3 DEF Next
<1>. QED  BY <1>1, <1>2, TreeStays, PTL DEF Spec


-----------------------------------------------------------------------------
(* ToPath of the in-memory store *)

(* The node that the name x leads to from n. *)
Toward(n, x) == IF HasChild(n, x) THEN Child(n, x) ELSE FindChoiceCase(n, x)
InCaseOf(n, x) == {c \in Nodes : Len(c) = Len(n) + 2 /\ SubSeq(c, 1, Len(n)) = n /\ Name(c) = x}

(* As many of the keys of n as there are values after its name. *)
Given(n, pe) == IF Len(SortedKeys(n)) < Len(pe) THEN Len(SortedKeys(n)) ELSE Len(pe) - 1
ElemGiven(n, pe) == Elem(Name(n), {<<SortedKeys(n)[i], pe[i + 1]>> : i \in 1..Given(n, pe)})

(* What buildPath makes of pe at n, if b is what it makes of it below n. *)
Onward(b, c, rest) == IF c = None THEN Error ELSE b[c][rest]
BuildList(b, n, pe) ==
    IF Len(pe) = Given(n, pe) + 1 THEN <<ElemGiven(n, pe)>>
    ELSE InFront(ElemGiven(n, pe), Onward(b, Toward(n, pe[Given(n, pe) + 2]), After(pe, Given(n, pe) + 1)))
BuildChoice(b, n, pe) ==
    IF InCaseOf(n, pe[1]) = {} THEN Error
    ELSE InFront(Elem(Name(n), {}), b[CHOOSE c \in InCaseOf(n, pe[1]) : TRUE][Tail(pe)])
BuildCase(b, n, pe) ==
    IF HasChild(n, pe[1]) THEN b[Child(n, pe[1])][Tail(pe)]
    ELSE IF HasChild(n, Name(n)) THEN b[Child(n, Name(n))][pe]
    ELSE Error
BuildContainer(b, n, pe) ==
    IF HasChild(n, pe[1])
    THEN IF Kind(Child(n, pe[1])) = "choice" THEN b[Child(n, pe[1])][Tail(pe)]
         ELSE InFront(Elem(Name(n), {}), b[Child(n, pe[1])][pe])
    ELSE IF Len(pe) = 1 THEN <<Elem(Name(n), {})>>
    ELSE InFront(Elem(Name(n), {}), Onward(b, Toward(n, pe[2]), Tail(pe)))
BuildLeaf(n, pe) == IF Len(pe) = 1 THEN <<Elem(Name(n), {})>> ELSE Error
BuildLeafList(n, pe) ==
    IF Len(pe) = 1 THEN <<Elem(Name(n), {})>>
    ELSE IF Len(pe) = 2 THEN <<Elem(Name(n), {<<Name(n), pe[2]>>})>>
    ELSE Error
BuildOf(b, n, pe) ==
    IF pe = <<>> THEN <<Elem(Name(n), {})>>
    ELSE CASE Kind(n) = "list" -> BuildList(b, n, pe)
           [] Kind(n) = "choice" -> BuildChoice(b, n, pe)
           [] Kind(n) = "case" -> BuildCase(b, n, pe)
           [] Kind(n) = "container" -> BuildContainer(b, n, pe)
           [] Kind(n) = "leaf" -> BuildLeaf(n, pe)
           [] Kind(n) = "leaflist" -> BuildLeafList(n, pe)
           [] OTHER -> <<>>

(* Each way leads down. *)
LEMMA WaysDown ==
    ASSUME tree \in Trees, NEW n \in Nodes, NEW x
    PROVE  /\ HasChild(n, x) => Child(n, x) \in Nodes /\ Len(n) < Len(Child(n, x))
           /\ Toward(n, x) # None => Toward(n, x) \in Nodes /\ Len(n) < Len(Toward(n, x))
           /\ \A c \in InCaseOf(n, x) : c \in Nodes /\ Len(n) < Len(c)
<1>1. n \in Seq(Idents) /\ Len(n) \in Nat
    BY TreeFacts
<1>2. HasChild(n, x) => Child(n, x) \in Nodes /\ Len(n) < Len(Child(n, x))
  <2>1. Len(n \o <<x>>) = Len(n) + 1
      BY <1>1
  <2>. QED  BY <1>1, <2>1 DEF HasChild, Child
<1>3. FindChoiceCase(n, x) # None => FindChoiceCase(n, x) \in Nodes /\ Len(n) < Len(FindChoiceCase(n, x))
  <2>. DEFINE C == {c \in Nodes : /\ Len(c) = Len(n) + 3 /\ SubSeq(c, 1, Len(n)) = n
                                  /\ Kind(Parent(Parent(c))) = "choice" /\ Name(c) = x}
  <2>1. \A c \in C : c \in Nodes /\ Len(n) < Len(c)
      BY <1>1
  <2>2. FindChoiceCase(n, x) = IF C = {} THEN None ELSE CHOOSE c \in C : TRUE
      BY DEF FindChoiceCase
  <2>. HIDE DEF C
  <2>3. C # {} => FindChoiceCase(n, x) \in C
      BY <2>2
  <2>. QED  BY <2>1, <2>2, <2>3
<1>4. \A c \in InCaseOf(n, x) : c \in Nodes /\ Len(n) < Len(c)
    BY <1>1 DEF InCaseOf
<1>. QED  BY <1>2, <1>3, <1>4 DEF Toward

(* What is given is no more than there is. *)
LEMMA GivenKeys ==
    ASSUME tree \in Trees, NEW n \in Nodes, NEW pe \in Seq(Words), pe # <<>>
    PROVE  /\ Given(n, pe) \in Nat /\ Given(n, pe) + 1 <= Len(pe) /\ ElemGiven(n, pe) \in Elements
           /\ \A k \in SUBSET (Words \X Words) : Elem(Name(n), k) \in Elements
<1>. DEFINE keys == SortedKeys(n)
            g == Given(n, pe)
<1>1. Len(pe) \in Nat /\ Len(pe) >= 1
    BY EmptySeq
<1>2. Len(keys) = Len(KeysOf(n)) /\ \A j \in 1..Len(KeysOf(n)) : keys[j] \in Range(KeysOf(n))
    BY SortedKeysOf
<1>3. KeysOf(n) \in Seq(Idents) /\ Range(KeysOf(n)) \subseteq Idents
    BY KeysOfNode
<1>4. Len(keys) \in Nat /\ \A j \in 1..Len(keys) : keys[j] \in Words
  <2>1. Len(KeysOf(n)) \in Nat
      BY <1>3
  <2>. QED  BY <1>2, <1>3, <2>1 DEF Words
<1>. HIDE DEF keys
<1>5. g \in Nat /\ g + 1 <= Len(pe) /\ g <= Len(keys)
    BY <1>1, <1>4 DEF Given, keys
<1>6. ASSUME NEW k \in SUBSET (Words \X Words)
      PROVE  Elem(Name(n), k) \in Elements
  <2>1. Name(n) \in Words
      BY ParentShorter DEF Words
  <2>. QED  BY <2>1 DEF Elem, Elements
<1>. HIDE DEF g
<1>7. {<<keys[i], pe[i + 1]>> : i \in 1..g} \in SUBSET (Words \X Words)
  <2>1. ASSUME NEW i \in 1..g
        PROVE  keys[i] \in Words /\ pe[i + 1] \in Words
    <3>1. i \in 1..Len(keys) /\ i + 1 \in 1..Len(pe)
        BY <1>1, <1>4, <1>5
    <3>. QED  BY <1>4, <3>1, ElementOfSeq
  <2>. QED  BY <2>1
<1>8. ElemGiven(n, pe) \in Elements
    BY <1>6, <1>7 DEF ElemGiven, keys, g
<1>. QED  BY <1>5, <1>6, <1>8 DEF g


(* g and h are the same below n, and what they give are answers. *)
SameBelow(g, h, n) ==
    \A c \in Nodes : Len(n) < Len(c) => \A b \in Seq(Words) : g[c][b] = h[c][b] /\ g[c][b] \in Answers

(* What buildPath makes of an element depends only on what is below it. *)
LEMMA BuildOfAnswers ==
    ASSUME tree \in Trees, NEW n \in Nodes, NEW pe \in Seq(Words), NEW g, NEW h, SameBelow(g, h, n)
    PROVE  BuildOf(g, n, pe) \in Answers /\ BuildOf(g, n, pe) = BuildOf(h, n, pe)
<1>. DEFINE me == Elem(Name(n), {})
            L == Len(pe)
<1>1. Error \in Answers /\ <<>> \in Answers /\ \A x \in Elements : <<x>> \in Answers
    BY DEF Answers
<1>2. me \in Elements
  <2>1. Name(n) \in Words
      BY ParentShorter DEF Words
  <2>. QED  BY <2>1 DEF Elem, Elements
<1>. HIDE DEF me
<1>3. CASE pe = <<>>
    BY <1>1, <1>2, <1>3 DEF BuildOf, me
<1>4. CASE pe # <<>>
  <2>1. L \in Nat /\ L >= 1 /\ Tail(pe) \in Seq(Words) /\ pe[1] \in Words
    <3>1. L \in Nat /\ L >= 1
        BY <1>4, EmptySeq
    <3>2. Tail(pe) \in Seq(Words)
        BY <1>4, HeadTailProperties
    <3>3. pe[1] \in Words
        BY <3>1, ElementOfSeq
    <3>. QED  BY <3>1, <3>2, <3>3
  <2>2. ASSUME NEW c \in Nodes, Len(n) < Len(c), NEW b \in Seq(Words)
        PROVE  g[c][b] = h[c][b] /\ g[c][b] \in Answers
      BY <2>2 DEF SameBelow
  <2>3. ASSUME NEW x, NEW b \in Seq(Words)
        PROVE  Onward(g, Toward(n, x), b) = Onward(h, Toward(n, x), b) /\ Onward(g, Toward(n, x), b) \in Answers
    <3>1. CASE Toward(n, x) = None
        BY <1>1, <3>1 DEF Onward
    <3>2. CASE Toward(n, x) # None
      <4>1. Toward(n, x) \in Nodes /\ Len(n) < Len(Toward(n, x))
          BY <3>2, WaysDown
      <4>. QED  BY <2>2, <3>2, <4>1 DEF Onward
    <3>. QED  BY <3>1, <3>2
  <2>4. ASSUME NEW x, HasChild(n, x), NEW b \in Seq(Words)
        PROVE  g[Child(n, x)][b] = h[Child(n, x)][b] /\ g[Child(n, x)][b] \in Answers
    <3>1. Child(n, x) \in Nodes /\ Len(n) < Len(Child(n, x))
        BY <2>4, WaysDown
    <3>. QED  BY <2>2, <3>1
  <2>5. BuildList(g, n, pe) = BuildList(h, n, pe) /\ BuildList(g, n, pe) \in Answers
    <3>. DEFINE k == Given(n, pe)
                e == ElemGiven(n, pe)
    <3>1. k \in Nat /\ k + 1 <= L /\ e \in Elements
        BY <1>4, GivenKeys
    <3>2. After(pe, k + 1) \in Seq(Words)
        BY <2>1, <3>1 DEF After
    <3>. DEFINE x == pe[k + 2]
                b == After(pe, k + 1)
    <3>. HIDE DEF x, b, k, e
    <3>3. Onward(g, Toward(n, x), b) = Onward(h, Toward(n, x), b) /\ Onward(g, Toward(n, x), b) \in Answers
        BY <2>3, <3>2 DEF b
    <3>4. InFront(e, Onward(g, Toward(n, x), b)) \in Answers
        BY <3>1, <3>3, InFrontAnswer
    <3>. QED  BY <1>1, <3>1, <3>3, <3>4 DEF BuildList, x, b, k, e
  <2>6. BuildChoice(g, n, pe) = BuildChoice(h, n, pe) /\ BuildChoice(g, n, pe) \in Answers
    <3>. DEFINE C == InCaseOf(n, pe[1])
                c == CHOOSE y \in C : TRUE
    <3>1. CASE C = {}
        BY <1>1, <3>1 DEF BuildChoice
    <3>2. CASE C # {}
      <4>1. c \in C
          BY <3>2
      <4>2. c \in Nodes /\ Len(n) < Len(c)
          BY <4>1, WaysDown
      <4>3. BuildChoice(g, n, pe) = InFront(me, g[c][Tail(pe)]) /\ BuildChoice(h, n, pe) = InFront(me, h[c][Tail(pe)])
          BY <3>2 DEF BuildChoice, me
      <4>. HIDE DEF c, C
      <4>4. g[c][Tail(pe)] = h[c][Tail(pe)] /\ g[c][Tail(pe)] \in Answers
          BY <2>1, <2>2, <4>2
      <4>. QED  BY <1>2, <4>3, <4>4, InFrontAnswer
    <3>. QED  BY <3>1, <3>2
  <2>7. BuildCase(g, n, pe) = BuildCase(h, n, pe) /\ BuildCase(g, n, pe) \in Answers
      BY <1>1, <2>1, <2>4 DEF BuildCase
  <2>8. BuildContainer(g, n, pe) = BuildContainer(h, n, pe) /\ BuildContainer(g, n, pe) \in Answers
    <3>1. CASE HasChild(n, pe[1])
      <4>1. \A b \in Seq(Words) : g[Child(n, pe[1])][b] = h[Child(n, pe[1])][b] /\ g[Child(n, pe[1])][b] \in Answers
          BY <2>4, <3>1
      <4>2. InFront(me, g[Child(n, pe[1])][pe]) \in Answers
          BY <1>2, <4>1, InFrontAnswer
      <4>. QED  BY <2>1, <3>1, <4>1, <4>2 DEF BuildContainer, me
    <3>2. CASE ~ HasChild(n, pe[1])
      <4>1. /\ Onward(g, Toward(n, pe[2]), Tail(pe)) = Onward(h, Toward(n, pe[2]), Tail(pe))
            /\ Onward(g, Toward(n, pe[2]), Tail(pe)) \in Answers
          BY <2>1, <2>3
      <4>2. InFront(me, Onward(g, Toward(n, pe[2]), Tail(pe))) \in Answers
          BY <1>2, <4>1, InFrontAnswer
      <4>. QED  BY <1>1, <1>2, <3>2, <4>1, <4>2 DEF BuildContainer, me
    <3>. QED  BY <3>1, <3>2
  <2>9. BuildLeaf(n, pe) \in Answers
      BY <1>1, <1>2 DEF BuildLeaf, me
  <2>10. BuildLeafList(n, pe) \in Answers
    <3>1. L = 2 => Elem(Name(n), {<<Name(n), pe[2]>>}) \in Elements
      <4>1. L = 2 => pe[2] \in Words
          BY ElementOfSeq
      <4>2. Name(n) \in Words
          BY ParentShorter DEF Words
      <4>. QED  BY <1>4, <4>1, <4>2, GivenKeys
    <3>. QED  BY <1>1, <1>2, <3>1 DEF BuildLeafList, me
  <2>. QED  BY <1>1, <1>4, <2>5, <2>6, <2>7, <2>8, <2>9, <2>10 DEF BuildOf
<1>. QED  BY <1>3, <1>4


(* buildPath is what the recursion says. *)
LEMMA BuildPathDef ==
    ASSUME tree \in Trees
    PROVE  \A n \in Nodes, pe \in Seq(Words) :
              BuildPath[n][pe] = BuildOf(BuildPath, n, pe) /\ BuildPath[n][pe] \in Answers
<1>. DEFINE B == Seq(Words)
            V == [B -> Answers]
            size == [n \in Nodes |-> MaxDepth - Len(n)]
            F == [w \in Nodes \X [Nodes -> V] |-> [b \in B |-> BuildOf(w[2], w[1], b)]]
<1>1. \A n \in Nodes : Len(n) \in Nat /\ Len(n) <= MaxDepth
    BY TreeFacts, SchemaAssumption
<1>2. size \in [Nodes -> Nat] /\ MaxDepth \in Nat /\ \A n \in Nodes : size[n] <= MaxDepth
    BY <1>1, SchemaAssumption
<1>3. \A n, c \in Nodes : Len(n) < Len(c) <=> size[c] < size[n]
    BY <1>1, SchemaAssumption
<1>4. \A g \in [Nodes -> V] : \A c \in Nodes : g[c] \in V
    OBVIOUS
<1>5. \A v \in V : \A b \in B : v[b] \in Answers
    OBVIOUS
<1>6. F \in [Nodes \X [Nodes -> V] -> V]
  <2>1. ASSUME NEW n \in Nodes, NEW g \in [Nodes -> V]
        PROVE  [b \in B |-> BuildOf(g, n, b)] \in V
    <3>1. SameBelow(g, g, n)
        BY <1>4, <1>5 DEF SameBelow
    <3>2. \A b \in B : BuildOf(g, n, b) \in Answers
        BY <3>1, BuildOfAnswers
    <3>. HIDE DEF B
    <3>. QED  BY <3>2
  <2>. HIDE DEF V, B
  <2>. QED  BY <2>1
<1>7. ASSUME NEW n \in Nodes, NEW g \in [Nodes -> V], NEW h, \A c \in Nodes : size[c] < size[n] => g[c] = h[c]
      PROVE  [b \in B |-> BuildOf(g, n, b)] = [b \in B |-> BuildOf(h, n, b)]
  <2>1. SameBelow(g, h, n)
    <3>. HIDE DEF V, size
    <3>. QED  BY <1>3, <1>4, <1>5, <1>7 DEF SameBelow
  <2>2. \A b \in B : BuildOf(g, n, b) = BuildOf(h, n, b)
      BY <2>1, BuildOfAnswers
  <2>. HIDE DEF B
  <2>. QED  BY <2>2
<1>8. IsRecursion(Nodes, V, size, MaxDepth, F)
  <2>1. V # {}
    <3>1. Error \in Answers
        BY DEF Answers
    <3>2. [b \in B |-> Error] \in V
        BY <3>1
    <3>. QED  BY <3>2
  <2>. HIDE DEF size, V, B
  <2>2. \A x \in Nodes : \A g \in [Nodes -> V] : F[<<x, g>>] = [b \in B |-> BuildOf(g, x, b)]
      OBVIOUS
  <2>. HIDE DEF F
  <2>3. ASSUME NEW x \in Nodes, NEW g \in [Nodes -> V], NEW h \in [Nodes -> V],
               \A y \in Nodes : size[y] < size[x] => g[y] = h[y]
        PROVE  F[<<x, g>>] = F[<<x, h>>]
    <3>1. [b \in B |-> BuildOf(g, x, b)] = [b \in B |-> BuildOf(h, x, b)]
        BY <1>7, <2>3
    <3>. QED  BY <2>2, <3>1
  <2>. QED  BY <1>2, <1>6, <2>1, <2>3 DEF IsRecursion
<1>. HIDE DEF size, F, V
<1>9. PICK g \in [Nodes -> V] : \A x \in Nodes : g[x] = F[<<x, g>>]
    BY <1>8, Recursion
<1>10. \A n \in Nodes : g[n] = [b \in B |-> BuildOf(g, n, b)]
  <2>. HIDE DEF B
  <2>. QED  BY <1>9 DEF F
<1>11. g = [n \in Nodes |-> [b \in B |-> BuildOf(g, n, b)]]
  <2>. HIDE DEF B
  <2>. QED  BY <1>9, <1>10
<1>. DEFINE A == CHOOSE f : f = [n \in Nodes |-> [b \in B |-> BuildOf(f, n, b)]]
<1>12. A = [n \in Nodes |-> [b \in B |-> BuildOf(A, n, b)]]
  <2>. HIDE DEF B
  <2>. QED  BY <1>11
<1>13. BuildPath = A
    BY DEF BuildPath, BuildOf, BuildList, BuildChoice, BuildCase, BuildContainer, BuildLeaf, BuildLeafList,
           Onward, Toward, Given, ElemGiven, InCaseOf, B
<1>. HIDE DEF A
<1>14. \A x \in Nodes : A[x] = g[x]
  <2>1. \A x \in Nodes : (\A y \in Nodes : size[y] < size[x] => A[y] = g[y]) => A[x] = g[x]
    <3>1. ASSUME NEW x \in Nodes, \A y \in Nodes : size[y] < size[x] => A[y] = g[y]
          PROVE  A[x] = g[x]
      <4>. HIDE DEF B
      <4>1. A[x] = [b \in B |-> BuildOf(A, x, b)]
          BY <1>12
      <4>2. \A y \in Nodes : size[y] < size[x] => g[y] = A[y]
          BY <3>1
      <4>3. [b \in B |-> BuildOf(g, x, b)] = [b \in B |-> BuildOf(A, x, b)]
          BY <1>7, <4>2
      <4>. QED  BY <1>10, <4>1, <4>3
    <3>. QED  BY <3>1
  <2>2. Alike(Nodes, size, A, g)
      BY <1>2, <2>1 DEF Alike
  <2>. QED  BY <2>2, SameByRecursion
<1>15. ASSUME NEW n \in Nodes, NEW b \in B
       PROVE  A[n][b] = BuildOf(A, n, b) /\ A[n][b] \in Answers
  <2>. HIDE DEF B
  <2>1. A[n][b] = BuildOf(A, n, b)
      BY <1>12
  <2>2. A[n][b] \in Answers
      BY <1>4, <1>5, <1>14
  <2>. QED  BY <2>1, <2>2
<1>. QED  BY <1>13, <1>15 DEF B


(* The nodes on the way to n, one below the other. *)
LEMMA OnTheWay ==
    ASSUME tree \in Trees, NEW n \in DataNodes, NEW i \in 1..Len(Names(n))
    PROVE  /\ DataAncestor(n, i) \in DataNodes /\ DataAncestor(n, i) \in Nodes /\ Len(DataAncestor(n, i)) > 1
           /\ Name(DataAncestor(n, i)) = Names(n)[i]
           /\ i = Len(Names(n)) <=> DataAncestor(n, i) = n
           /\ i < Len(Names(n)) => DataParent[DataAncestor(n, i + 1)] = DataAncestor(n, i)
           /\ i = 1 => DataParent[DataAncestor(n, i)] = <<n[1]>>
<1>. DEFINE N == Len(Names(n))
            D == DataNames[n]
            a == DataAncestor(n, i)
<1>1. D \in Seq(Idents) /\ Len(D) = N + 1 /\ N \in Nat /\ \A j \in 1..N : Names(n)[j] = D[j + 1]
  <2>1. Names(n) \in Seq(Idents) /\ D = <<n[1]>> \o Names(n) /\ D \in Seq(Idents) /\ n[1] \in Idents
      BY NamesOfNode, DataNamesOf, ModulesAssumption DEF DataNodes
  <2>2. /\ Len(<<n[1]>> \o Names(n)) = Len(Names(n)) + 1 /\ Len(Names(n)) \in Nat
        /\ \A j \in 1..Len(Names(n)) : Names(n)[j] = (<<n[1]>> \o Names(n))[j + 1]
      BY <2>1
  <2>. QED  BY <2>1, <2>2
<1>2. a \in DataNodes /\ DataNames[a] = SubSeq(D, 1, i + 1) /\ a[1] = n[1]
    BY Ancestors
<1>. HIDE DEF a, D, N
<1>3. i \in 1..N /\ i \in Nat
    BY <1>1 DEF N
<1>4. Len(DataNames[a]) = i + 1 /\ DataNames[a] \in Seq(Idents) /\ a \in Nodes
    BY <1>1, <1>2, <1>3 DEF DataNodes
<1>5. Len(a) > 1
  <2>1. ~ (Len(a) > 1) => DataNames[a] = <<a[1]>>
      BY <1>2, DataNamesOf
  <2>2. ~ (Len(<<a[1]>>) > 1)
      OBVIOUS
  <2>3. Len(DataNames[a]) > 1
      BY <1>3, <1>4
  <2>. QED  BY <2>1, <2>2, <2>3
<1>6. /\ DataParent[a] \in DataNodes /\ DataNames[a] = Append(DataNames[DataParent[a]], Name(a))
      /\ DataNames[DataParent[a]] \in Seq(Idents) /\ Name(a) \in Idents
    BY <1>2, <1>5, DataNamesOf, ParentShorter DEF DataNodes
<1>7. DataNames[DataParent[a]] = Front(DataNames[a]) /\ Name(a) = Last(DataNames[a])
    BY <1>6, FrontLastOfAppend
<1>8. Front(SubSeq(D, 1, i + 1)) = SubSeq(D, 1, i) /\ Last(SubSeq(D, 1, i + 1)) = D[i + 1]
    BY <1>1, <1>3 DEF Front, Last
<1>9. Name(a) = Names(n)[i]
    BY <1>1, <1>2, <1>3, <1>7, <1>8
<1>10. i = N <=> a = n
  <2>1. ASSUME i = N PROVE a = n
    <3>1. SubSeq(D, 1, N + 1) = D
        BY <1>1
    <3>. QED  BY <1>2, <2>1, <3>1, DataNamesInjective DEF D
  <2>2. ASSUME a = n PROVE i = N
      BY <1>1, <1>3, <1>4, <2>2 DEF D
  <2>. QED  BY <2>1, <2>2
<1>11. ASSUME i < N
       PROVE  DataParent[DataAncestor(n, i + 1)] = a
  <2>. DEFINE c == DataAncestor(n, i + 1)
              k == i + 1
  <2>1. k \in 1..N /\ k \in Nat /\ k > 1
      BY <1>1, <1>3, <1>11
  <2>2. c \in DataNodes /\ DataNames[c] = SubSeq(D, 1, k + 1)
      BY <2>1, Ancestors DEF N, D
  <2>. HIDE DEF c, k
  <2>3. Len(DataNames[c]) = k + 1 /\ c \in Nodes
      BY <1>1, <2>1, <2>2 DEF DataNodes
  <2>4. Len(c) > 1
    <3>1. ~ (Len(c) > 1) => DataNames[c] = <<c[1]>>
        BY <2>2, DataNamesOf
    <3>2. ~ (Len(<<c[1]>>) > 1)
        OBVIOUS
    <3>3. Len(DataNames[c]) > 1
        BY <2>1, <2>3
    <3>. QED  BY <3>1, <3>2, <3>3
  <2>5. /\ DataParent[c] \in DataNodes /\ DataNames[c] = Append(DataNames[DataParent[c]], Name(c))
        /\ DataNames[DataParent[c]] \in Seq(Idents) /\ Name(c) \in Idents
      BY <2>2, <2>4, DataNamesOf, ParentShorter DEF DataNodes
  <2>6. DataNames[DataParent[c]] = Front(DataNames[c])
      BY <2>5, FrontLastOfAppend
  <2>7. Front(SubSeq(D, 1, k + 1)) = SubSeq(D, 1, k)
      BY <1>1, <2>1 DEF Front
  <2>8. DataNames[DataParent[c]] = DataNames[a]
      BY <1>2, <2>2, <2>6, <2>7 DEF k
  <2>. QED  BY <1>2, <2>5, <2>8, DataNamesInjective DEF c
<1>12. ASSUME i = 1
       PROVE  DataParent[a] = <<n[1]>>
  <2>1. DataNames[DataParent[a]] = SubSeq(D, 1, 1)
      BY <1>2, <1>7, <1>8, <1>12
  <2>. DEFINE b == DataParent[a]
  <2>2. b \in DataNodes /\ b \in Nodes
      BY <1>6 DEF DataNodes
  <2>. HIDE DEF b
  <2>3. Len(SubSeq(D, 1, 1)) = 1 /\ SubSeq(D, 1, 1)[1] = D[1]
      BY <1>1
  <2>4. D[1] = n[1] /\ DataNames[b][1] = b[1]
      BY <2>2, DataNamesOf DEF D, DataNodes
  <2>5. ~ (Len(b) > 1)
    <3>1. SUFFICES ASSUME Len(b) > 1 PROVE FALSE
        OBVIOUS
    <3>2. /\ DataParent[b] \in Nodes /\ DataNames[b] = Append(DataNames[DataParent[b]], Name(b))
          /\ DataNames[DataParent[b]] \in Seq(Idents) /\ Len(DataNames[DataParent[b]]) >= 1
        BY <2>2, <3>1, DataNamesOf DEF DataNodes
    <3>3. Len(DataNames[b]) = Len(DataNames[DataParent[b]]) + 1
        BY <3>2
    <3>. QED  BY <2>1, <2>3, <3>2, <3>3 DEF b
  <2>6. b = <<b[1]>>
      BY <2>2, <2>5, TreeFacts
  <2>. QED  BY <2>1, <2>3, <2>4, <2>6 DEF b
<1>. QED  BY <1>2, <1>4, <1>5, <1>9, <1>10, <1>11, <1>12 DEF a, N

(* They are beginnings of n. *)
LEMMA AboveNode ==
    ASSUME tree \in Trees, NEW n \in DataNodes
    PROVE  \A i \in 1..Len(Names(n)) : Under(DataAncestor(n, i), n)
<1>. DEFINE N == Len(Names(n))
            S == {i \in 0..N : \A j \in i + 1 .. N : Under(DataAncestor(n, j), n)}
<1>1. N \in Nat /\ n \in Nodes
    BY NamesOfNode DEF DataNodes
<1>2. N \in S
    BY <1>1
<1>3. ASSUME NEW i \in 0..N, i < N, i + 1 \in S
      PROVE  i \in S
  <2>. DEFINE k == i + 1
  <2>1. k \in 1..N /\ k \in Nat
      BY <1>1, <1>3
  <2>2. \A j \in k + 1 .. N : Under(DataAncestor(n, j), n)
      BY <1>3
  <2>3. \A j \in i + 1 .. N : j = k \/ j \in k + 1 .. N
      BY <1>1
  <2>. HIDE DEF k
  <2>4. Under(DataAncestor(n, k), n)
    <3>1. CASE k = N
        BY <1>1, <2>1, <3>1, OnTheWay, UnderFacts
    <3>2. CASE k < N
      <4>. DEFINE c == DataAncestor(n, k + 1)
                  a == DataAncestor(n, k)
      <4>1. k + 1 \in 1..N /\ k + 1 \in k + 1 .. N
          BY <1>1, <2>1, <3>2
      <4>2. Under(c, n) /\ c \in Nodes /\ DataParent[c] = a
          BY <2>1, <2>2, <3>2, <4>1, OnTheWay
      <4>. HIDE DEF c, a
      <4>3. Len(a) \in Nat /\ Len(a) < Len(c) /\ a = SubSeq(c, 1, Len(a))
          BY <4>2, DataParentAbove DEF AboveInData
      <4>4. n \in Seq(Idents) /\ Len(n) \in Nat /\ Len(c) \in Nat /\ Len(c) <= Len(n) /\ c = SubSeq(n, 1, Len(c))
          BY <1>1, <4>2, TreeFacts, ParentShorter DEF Under
      <4>5. SubSeq(SubSeq(n, 1, Len(c)), 1, Len(a)) = SubSeq(n, 1, Len(a))
        <5>1. \A x, y \in Nat : y <= x /\ x <= Len(n) => SubSeq(SubSeq(n, 1, x), 1, y) = SubSeq(n, 1, y)
            BY <4>4
        <5>. QED  BY <4>3, <4>4, <5>1
      <4>. QED  BY <4>3, <4>4, <4>5 DEF Under, a
    <3>. QED  BY <1>1, <2>1, <3>1, <3>2
  <2>. QED  BY <2>2, <2>3, <2>4
<1>4. 0 \in S
  <2>. HIDE DEF S, N
  <2>. QED  BY <1>1, <1>2, <1>3, FromTheEnd
<1>. QED  BY <1>4



(* The choice that y is in, if it is in one, is not in a case itself. *)
InPlainChoice(y) ==
    LET c == Parent(Parent(y)) IN Transparent(Parent(y)) /\ Kind(c) = "choice" => Kind(Parent(c)) # "case"

(* Then y is right below its parent in the data tree, or in a case of a    *)
(* choice that is.                                                         *)
LEMMA WayFromParent ==
    ASSUME tree \in Trees, NEW y \in DataNodes, Len(y) > 1, InPlainChoice(y)
    PROVE  LET x == DataParent[y]
               c == Parent(Parent(y))
           IN  /\ x \in DataNodes /\ x \in Nodes /\ Len(x) \in Nat /\ SubSeq(y, 1, Len(x)) = x
               /\ \/ Parent(y) = x /\ Len(y) = Len(x) + 1
                  \/ /\ Transparent(Parent(y)) /\ Len(y) = Len(x) + 3
                     /\ c \in Nodes /\ Kind(c) = "choice" /\ Parent(c) = x
<1>. DEFINE x == DataParent[y]
            p == Parent(y)
            c == Parent(p)
<1>1. y \in Nodes /\ ~ Transparent(y) /\ p \in Nodes
    BY TreeFacts DEF DataNodes
<1>2. x \in DataNodes /\ x \in Nodes /\ Len(x) \in Nat /\ SubSeq(y, 1, Len(x)) = x
    BY <1>1, DataParentAbove DEF AboveInData, DataNodes
<1>3. x = IF Transparent(p) THEN DataParent[p] ELSE p
    BY <1>1, DataParentDef
<1>4. Len(y) = Len(p) + 1 /\ Len(p) \in Nat /\ Len(y) \in Nat
    BY <1>1, ParentShorter
<1>. HIDE DEF x
<1>5. CASE ~ Transparent(p)
    BY <1>2, <1>3, <1>4, <1>5 DEF x
<1>6. CASE Transparent(p)
  <2>1. Kind(p) # "choice"
      BY <1>1, TreeFacts DEF Transparent
  <2>2. Kind(p) = "case"
      BY <1>6, <2>1 DEF Transparent
  <2>3. Len(p) > 1 /\ Kind(c) = "choice" /\ c \in Nodes
      BY <1>1, <2>2, TreeFacts
  <2>. HIDE DEF p
  <2>4. Transparent(c) /\ Len(p) = Len(c) + 1 /\ Len(c) \in Nat
      BY <1>1, <2>3, ParentShorter DEF Transparent
  <2>5. Len(c) > 1 /\ Parent(c) \in Nodes /\ Len(c) = Len(Parent(c)) + 1 /\ Len(Parent(c)) \in Nat
      BY <2>3, <2>4, TreeFacts, ParentShorter
  <2>6. ~ Transparent(Parent(c))
    <3>1. Kind(Parent(c)) # "case"
        BY <1>6, <2>3 DEF InPlainChoice, p
    <3>2. Kind(Parent(c)) # "choice"
        BY <2>3, <2>5, TreeFacts
    <3>. QED  BY <3>1, <3>2 DEF Transparent
  <2>7. DataParent[p] = Parent(c)
    <3>1. DataParent[p] = DataParent[c]
        BY <1>1, <2>4, DataParentDef
    <3>2. DataParent[c] = Parent(c)
        BY <2>3, <2>6, DataParentDef
    <3>. QED  BY <3>1, <3>2
  <2>8. x = Parent(c)
      BY <1>3, <1>6, <2>7
  <2>. QED  BY <1>2, <1>4, <1>6, <2>3, <2>4, <2>5, <2>8 DEF x, p
<1>. QED  BY <1>5, <1>6

(* A choice of that name in the way of what is looked for below a. *)
Clashes(a, s) ==
    \E c \in Nodes : /\ Kind(c) = "choice" /\ Name(c) = s
                     /\ Len(c) \in {Len(a) + 1, Len(a) + 3} /\ SubSeq(c, 1, Len(a)) = a

(* What is in a case of a choice of x and named like y, which is too, is   *)
(* y, if no choice is in the way.                                          *)
LEMMA OneInCases ==
    ASSUME tree \in Trees, NEW x \in DataNodes, NEW y \in DataNodes, DataParent[y] = x, Len(y) > 1,
           ~ Clashes(x, Name(y)),
           NEW z \in Nodes, Len(z) = Len(x) + 3, SubSeq(z, 1, Len(x)) = x,
           Kind(Parent(Parent(z))) = "choice", Name(z) = Name(y)
    PROVE  z = y
<1>. DEFINE p == Parent(z)
            c == Parent(p)
<1>1. x \in Nodes /\ y \in Nodes /\ Len(x) \in Nat /\ x \in Seq(Idents) /\ Len(x) >= 1
    BY TreeFacts, ParentShorter DEF DataNodes
<1>2. Len(z) = Len(p) + 1 /\ Len(p) \in Nat /\ z \in Seq(Idents) /\ Len(z) > 1 /\ p \in Nodes
  <2>1. Len(z) = Len(p) + 1 /\ Len(p) \in Nat /\ z \in Seq(Idents) /\ Len(z) > 1
      BY <1>1, ParentShorter, TreeFacts
  <2>. QED  BY <2>1, TreeFacts
<1>. HIDE DEF p
<1>3. Len(p) = Len(c) + 1 /\ Len(c) \in Nat /\ Len(p) > 1 /\ c \in Nodes /\ Kind(p) = "case"
  <2>1. Len(p) = Len(c) + 1 /\ Len(c) \in Nat /\ Len(p) > 1
      BY <1>1, <1>2, ParentShorter
  <2>2. c \in Nodes
      BY <1>2, <2>1, TreeFacts
  <2>3. Kind(c) = "choice"
      BY DEF p
  <2>. HIDE DEF c
  <2>4. Kind(p) = "case"
      BY <1>2, <2>1, <2>3, TreeFacts DEF c
  <2>. QED  BY <2>1, <2>2, <2>4
<1>4. Kind(c) = "choice"
    BY DEF p
<1>. HIDE DEF c
<1>5. Kind(z) # "case"
    BY <1>2, <1>3, TreeFacts DEF p
<1>6. Kind(z) # "choice"
    BY DEF Clashes
<1>7. z \in DataNodes
    BY <1>5, <1>6 DEF DataNodes, Transparent
<1>8. \A i \in Len(x) + 1 .. Len(z) - 1 : Transparent(SubSeq(z, 1, i))
  <2>1. \A i \in Len(x) + 1 .. Len(z) - 1 : i = Len(c) \/ i = Len(p)
      BY <1>1, <1>2, <1>3
  <2>2. SubSeq(z, 1, Len(p)) = p
    <3>1. SubSeq(p, 1, Len(p)) = SubSeq(z, 1, Len(p))
        BY <1>2, BeginOfParent DEF p
    <3>2. p \in Seq(Idents)
        BY <1>2, TreeFacts
    <3>3. SubSeq(p, 1, Len(p)) = p
        BY <1>2, <3>2
    <3>. QED  BY <3>1, <3>3
  <2>3. SubSeq(z, 1, Len(c)) = c
    <3>1. SubSeq(c, 1, Len(c)) = SubSeq(p, 1, Len(c))
        BY <1>2, <1>3, BeginOfParent DEF c
    <3>2. SubSeq(p, 1, Len(c)) = SubSeq(z, 1, Len(c))
        BY <1>2, <1>3, BeginOfParent DEF p
    <3>3. c \in Seq(Idents)
        BY <1>3, TreeFacts
    <3>4. SubSeq(c, 1, Len(c)) = c
        BY <1>3, <3>3
    <3>. QED  BY <3>1, <3>2, <3>4
  <2>4. Transparent(p) /\ Transparent(c)
      BY <1>2, <1>3, <1>4 DEF Transparent
  <2>. QED  BY <2>1, <2>2, <2>3, <2>4
<1>9. /\ Len(x) < Len(y) /\ SubSeq(y, 1, Len(x)) = x
      /\ \A i \in Len(x) + 1 .. Len(y) - 1 : Transparent(SubSeq(y, 1, i))
    BY <1>1, DataParentAbove DEF AboveInData
<1>10. Len(x) < Len(z)
    BY <1>1
<1>. QED  BY <1>1, <1>7, <1>8, <1>9, <1>10, OneNodePerPlace

(* The name of y leads to it from its parent in the data tree. *)
LEMMA TowardFinds ==
    ASSUME tree \in Trees, NEW y \in DataNodes, Len(y) > 1, InPlainChoice(y),
           Transparent(Parent(y)) => ~ Clashes(DataParent[y], Name(y))
    PROVE  Toward(DataParent[y], Name(y)) = y
<1>. DEFINE x == DataParent[y]
            s == Name(y)
<1>1. y \in Nodes /\ y = Append(Parent(y), s) /\ Parent(y) \in Seq(Idents) /\ s \in Idents /\ y # None
    BY ParentShorter, NoneIsNoNode DEF DataNodes
<1>2. /\ x \in DataNodes /\ x \in Nodes /\ Len(x) \in Nat /\ SubSeq(y, 1, Len(x)) = x
      /\ \/ Parent(y) = x /\ Len(y) = Len(x) + 1
         \/ /\ Transparent(Parent(y)) /\ Len(y) = Len(x) + 3
            /\ Kind(Parent(Parent(y))) = "choice"
    BY WayFromParent
<1>3. x \in Seq(Idents) /\ ~ Transparent(x) /\ Len(x) >= 1
    BY <1>2, TreeFacts DEF DataNodes
<1>. HIDE DEF x, s
<1>4. Child(x, s) = Append(x, s) /\ Child(x, s) \in Seq(Idents)
    BY <1>1, <1>3 DEF Child
<1>5. CASE Parent(y) = x
  <2>1. Child(x, s) = y
      BY <1>1, <1>4, <1>5
  <2>. QED  BY <1>1, <2>1 DEF Toward, HasChild, x, s
<1>6. CASE Transparent(Parent(y))
  <2>1. Len(y) = Len(x) + 3 /\ Kind(Parent(Parent(y))) = "choice"
      BY <1>2, <1>3, <1>6
  <2>2. ~ Clashes(x, s)
      BY <1>6 DEF x, s
  <2>3. ~ HasChild(x, s)
    <3>. DEFINE z == Child(x, s)
    <3>1. SUFFICES ASSUME z \in Nodes PROVE FALSE
        BY DEF HasChild
    <3>2. Len(z) = Len(x) + 1 /\ SubSeq(z, 1, Len(x)) = x /\ Parent(z) = x /\ Name(z) = s
      <4>1. Front(Append(x, s)) = x /\ Last(Append(x, s)) = s
          BY <1>1, <1>3, FrontLastOfAppend
      <4>2. Len(Append(x, s)) = Len(x) + 1 /\ SubSeq(Append(x, s), 1, Len(x)) = x
          BY <1>1, <1>2, <1>3
      <4>. QED  BY <1>4, <4>1, <4>2 DEF Parent, Name
    <3>. HIDE DEF z
    <3>3. Kind(z) # "choice"
        BY <2>2, <3>1, <3>2 DEF Clashes
    <3>4. Kind(z) # "case"
        BY <1>2, <1>3, <3>1, <3>2, TreeFacts DEF Transparent
    <3>5. z \in DataNodes
        BY <3>1, <3>3, <3>4 DEF DataNodes, Transparent
    <3>6. \A i \in Len(x) + 1 .. Len(z) - 1 : FALSE
        BY <1>2, <3>2
    <3>7. /\ Len(x) < Len(y) /\ \A i \in Len(x) + 1 .. Len(y) - 1 : Transparent(SubSeq(y, 1, i))
        BY <1>1, DataParentAbove DEF AboveInData, x
    <3>8. /\ Len(x) < Len(z) /\ SubSeq(z, 1, Len(x)) = SubSeq(y, 1, Len(x)) /\ Name(z) = Name(y)
          /\ \A i \in Len(x) + 1 .. Len(z) - 1 : Transparent(SubSeq(z, 1, i))
        BY <1>2, <3>2, <3>6 DEF s
    <3>9. z = y
        BY <1>2, <1>3, <3>5, <3>7, <3>8, OneNodePerPlace
    <3>. QED  BY <1>2, <2>1, <3>2, <3>9
  <2>. DEFINE C == {c \in Nodes : /\ Len(c) = Len(x) + 3 /\ SubSeq(c, 1, Len(x)) = x
                                  /\ Kind(Parent(Parent(c))) = "choice" /\ Name(c) = s}
  <2>4. y \in C
      BY <1>1, <1>2, <2>1 DEF s
  <2>5. \A z \in C : z = y
      BY <1>2, <2>2, OneInCases DEF x, s
  <2>6. FindChoiceCase(x, s) = IF C = {} THEN None ELSE CHOOSE c \in C : TRUE
      BY DEF FindChoiceCase
  <2>. HIDE DEF C
  <2>7. FindChoiceCase(x, s) = y
      BY <2>4, <2>5, <2>6
  <2>. QED  BY <2>3, <2>7 DEF Toward, x, s
<1>. QED  BY <1>2, <1>5, <1>6



(* Two names, one after the other. *)
LEMMA TwoInRow ==
    ASSUME NEW S, NEW x \in S, NEW y \in S
    PROVE  <<x>> \o <<y>> = <<x, y>> /\ Append(<<x>>, y) = <<x, y>>
<1>1. PICK a \in Seq(S), b \in Seq(S), c \in Seq(S) : a = <<x>> /\ b = <<y>> /\ c = <<x, y>>
  <2>1. <<x>> \in Seq(S) /\ <<y>> \in Seq(S) /\ <<x, y>> \in Seq(S)
      OBVIOUS
  <2>. QED  BY <2>1, Zenon
<1>2. Len(a) = 1 /\ Len(b) = 1 /\ Len(c) = 2 /\ a[1] = c[1] /\ b[1] = c[2]
    BY <1>1
<1>3. PICK k : k = Len(a) /\ k = Len(b) /\ k = 1
    BY <1>2
<1>4. /\ a \o b \in Seq(S) /\ Len(a \o b) = Len(a) + Len(b)
      /\ \A i \in 1 .. Len(a) + Len(b) : (a \o b)[i] = IF i <= Len(a) THEN a[i] ELSE b[i - Len(a)]
    BY ConcatProperties
<1>5. Len(a \o b) = k + k /\ \A i \in 1 .. k + k : (a \o b)[i] = IF i <= k THEN a[i] ELSE b[i - k]
    BY <1>3, <1>4, Zenon
<1>6. k + k = 2 /\ 1 \in 1 .. k + k /\ 2 \in 1 .. k + k /\ 1 <= k /\ ~ (2 <= k) /\ 2 - k = 1
    BY <1>3
<1>7. (a \o b)[1] = c[1] /\ (a \o b)[2] = c[2] /\ Len(a \o b) = Len(c)
    BY <1>2, <1>5, <1>6, Zenon
<1>8. \A i \in 1 .. Len(c) : i = 1 \/ i = 2
  <2>1. \A i \in 1..2 : i = 1 \/ i = 2
      OBVIOUS
  <2>. QED  BY <1>2, <2>1, Zenon
<1>9. a \o b = c
  <2>1. \A i \in 1 .. Len(a \o b) : (a \o b)[i] = c[i]
      BY <1>7, <1>8, Zenon
  <2>. QED  BY <1>4, <1>7, <2>1, SeqEqual, Zenon
<1>10. Append(a, y) = a \o <<y>>
    OBVIOUS
<1>. QED  BY <1>1, <1>9, <1>10, Zenon

(* What is above the beginning of a node is too. *)
LEMMA ParentOnTheWay ==
    ASSUME tree \in Trees, NEW n \in Nodes, NEW a \in Nodes, Under(a, n), Len(a) > 1
    PROVE  /\ Parent(a) \in Nodes /\ Under(Parent(a), n) /\ Len(a) \in 2..Len(n)
           /\ SubSeq(n, 1, Len(a) - 1) = Parent(a) /\ SubSeq(n, 1, Len(a)) = a /\ n[Len(a)] = Name(a)
<1>. DEFINE l == Len(a)
<1>1. n \in Seq(Idents) /\ Len(n) \in Nat /\ l \in Nat /\ l <= Len(n) /\ SubSeq(n, 1, l) = a
    BY TreeFacts, ParentShorter DEF Under
<1>2. Parent(a) \in Nodes /\ Len(Parent(a)) = l - 1 /\ Len(Parent(a)) \in Nat
    BY TreeFacts, ParentShorter
<1>. HIDE DEF l
<1>3. l > 1
    BY DEF l
<1>4. /\ Len(SubSeq(n, 1, l)) = l /\ SubSeq(n, 1, l)[l] = n[l]
      /\ SubSeq(SubSeq(n, 1, l), 1, l - 1) = SubSeq(n, 1, l - 1)
    BY <1>1, <1>3
<1>5. Front(a) = SubSeq(a, 1, l - 1) /\ Last(a) = a[l]
    BY DEF Front, Last, l
<1>6. Parent(a) = SubSeq(n, 1, l - 1) /\ Name(a) = n[l]
    BY <1>1, <1>4, <1>5 DEF Parent, Name
<1>7. Under(Parent(a), n)
    BY <1>1, <1>2, <1>3, <1>6 DEF Under
<1>8. l \in 2..Len(n)
    BY <1>1, <1>3
<1>. QED  BY <1>1, <1>2, <1>6, <1>7, <1>8 DEF l

(* What can be followed, at a node on the way to n. *)
FollowedAt(n, a) ==
    /\ InPlainChoice(a) /\ (Transparent(Parent(a)) => ~ Clashes(DataParent[a], Name(a)))
    /\ Kind(a) \in {"container", "list", "leaf", "leaflist"}
    /\ Kind(a) = "container" /\ HasChild(a, Name(a)) =>
          /\ Kind(Child(a, Name(a))) = "choice"
          /\ a = n \/ (n[Len(a) + 1] = Name(a) /\ Len(n) = Len(a) + 3 /\ KeysOf(n) = <<>>)

(* What buildPath can follow it can follow at every node on the way. *)
LEMMA FollowedThere ==
    ASSUME tree \in Trees, NEW n \in DataNodes, Followed(n), NEW a \in DataNodes, Len(a) > 1, Under(a, n)
    PROVE  FollowedAt(n, a)
<1>. DEFINE l == Len(a)
            Up(i) == SubSeq(n, 1, i)
<1>1. n \in Nodes /\ a \in Nodes
    BY DEF DataNodes
<1>2. /\ Parent(a) \in Nodes /\ Under(Parent(a), n) /\ l \in 2..Len(n)
      /\ Up(l - 1) = Parent(a) /\ Up(l) = a /\ n[l] = Name(a)
    BY <1>1, ParentOnTheWay
<1>. HIDE DEF l, Up
<1>3. ASSUME NEW i \in 2..Len(n)
      PROVE  /\ Kind(Up(i)) \in {"container", "list", "leaf", "leaflist", "choice", "case"}
             /\ Kind(Up(i)) = "choice" => Kind(Up(i - 1)) # "case"
             /\ ~ Transparent(Up(i)) /\ Transparent(Up(i - 1)) => ~ Clashes(DataParent[Up(i)], n[i])
             /\ Kind(Up(i)) = "container" /\ HasChild(Up(i), n[i]) =>
                   /\ Kind(Child(Up(i), n[i])) = "choice"
                   /\ i = Len(n) \/ (n[i + 1] = n[i] /\ Len(n) = i + 3 /\ KeysOf(n) = <<>>)
    BY DEF Followed, Clashes, Up
<1>4. Kind(a) \in {"container", "list", "leaf", "leaflist"}
    BY <1>2, <1>3 DEF DataNodes, Transparent
<1>5. Transparent(Parent(a)) => ~ Clashes(DataParent[a], Name(a))
    BY <1>2, <1>3 DEF DataNodes
<1>6. ASSUME Kind(a) = "container", HasChild(a, Name(a))
      PROVE  /\ Kind(Child(a, Name(a))) = "choice"
             /\ a = n \/ (n[l + 1] = Name(a) /\ Len(n) = l + 3 /\ KeysOf(n) = <<>>)
  <2>1. l = Len(n) => a = n
    <3>1. n \in Seq(Idents) /\ Len(n) \in Nat
        BY <1>1, TreeFacts
    <3>2. SubSeq(n, 1, Len(n)) = n
        BY <3>1
    <3>. QED  BY <1>2, <3>2 DEF Up
  <2>. QED  BY <1>2, <1>3, <1>6, <2>1
<1>7. InPlainChoice(a)
  <2>. DEFINE p == Parent(a)
              c == Parent(p)
  <2>1. SUFFICES ASSUME Transparent(p), Kind(c) = "choice" PROVE Kind(Parent(c)) # "case"
      BY DEF InPlainChoice
  <2>2. p \in Nodes /\ Under(p, n)
      BY <1>2
  <2>. HIDE DEF p
  <2>3. Len(p) > 1
      BY <2>1, <2>2, TreeFacts
  <2>4. c \in Nodes /\ Under(c, n)
      BY <1>1, <2>2, <2>3, ParentOnTheWay
  <2>5. Kind(c) = "choice"
      BY <2>1 
  <2>. HIDE DEF c
  <2>6. Len(c) > 1
      BY <2>4, <2>5, TreeFacts DEF Transparent
  <2>7. Len(c) \in 2..Len(n) /\ SubSeq(n, 1, Len(c) - 1) = Parent(c) /\ SubSeq(n, 1, Len(c)) = c
      BY <1>1, <2>4, <2>6, ParentOnTheWay
  <2>. QED  BY <1>3, <2>5, <2>7 DEF Up
<1>. QED  BY <1>4, <1>5, <1>6, <1>7 DEF FollowedAt, l

(* The first of them is at the top of its module. *)
LEMMA FirstAtTop ==
    ASSUME tree \in Trees, NEW n \in DataNodes, Followed(n), Len(Names(n)) >= 1
    PROVE  DataAncestor(n, 1) = <<n[1], Names(n)[1]>> /\ AtTop(n)
<1>. DEFINE a == DataAncestor(n, 1)
            p == Parent(a)
            c == Parent(p)
<1>1. 1 \in 1..Len(Names(n)) /\ n \in Nodes
    BY NamesOfNode DEF DataNodes
<1>2. /\ a \in DataNodes /\ a \in Nodes /\ Len(a) > 1 /\ Name(a) = Names(n)[1] /\ DataParent[a] = <<n[1]>>
      /\ Under(a, n)
    BY <1>1, OnTheWay, AboveNode
<1>. HIDE DEF a
<1>3. InPlainChoice(a)
    BY <1>2, FollowedThere DEF FollowedAt
<1>4. Len(<<n[1]>>) = 1
    OBVIOUS
<1>5. \/ Parent(a) = <<n[1]>>
      \/ Len(a) = 1 + 3 /\ Kind(c) = "choice" /\ c \in Nodes
    BY <1>2, <1>3, <1>4, WayFromParent
<1>6. ~ (Len(a) = 1 + 3 /\ Kind(c) = "choice" /\ c \in Nodes)
  <2>1. SUFFICES ASSUME Len(a) = 4, Kind(c) = "choice", c \in Nodes PROVE FALSE
      OBVIOUS
  <2>2. p \in Nodes /\ Under(p, n) /\ Len(p) = 3
    <3>1. p \in Nodes /\ Under(p, n)
        BY <1>1, <1>2, ParentOnTheWay
    <3>2. Len(a) = Len(p) + 1 /\ Len(p) \in Nat
        BY <1>2, ParentShorter
    <3>3. PICK k : k = Len(p)
        OBVIOUS
    <3>4. k \in Nat /\ 4 = k + 1
        BY <2>1, <3>2, <3>3, Zenon
    <3>5. k = 3
        BY <3>4
    <3>. QED  BY <3>1, <3>3, <3>5, Zenon
  <2>. HIDE DEF p
  <2>3. Len(p) > 1
      BY <2>2
  <2>4. SubSeq(n, 1, Len(p) - 1) = c
      BY <1>1, <2>2, <2>3, ParentOnTheWay
  <2>5. Len(p) - 1 = 2
      BY <2>2
  <2>6. SubSeq(n, 1, 2) = c
      BY <2>4, <2>5
  <2>. QED  BY <2>1, <2>6 DEF Followed
<1>7. a = Append(<<n[1]>>, Names(n)[1])
    BY <1>2, <1>5, <1>6, ParentShorter
<1>8. n[1] \in Idents /\ Names(n)[1] \in Idents
    BY <1>2, NamesOfNode, ModulesAssumption, ParentShorter
<1>9. a = <<n[1], Names(n)[1]>> /\ <<n[1]>> \o <<Names(n)[1]>> = a
    BY <1>7, <1>8, TwoInRow
<1>. QED  BY <1>2, <1>9 DEF a, AtTop, HasChild, Child


(* What is left of the row from the i-th name on, and what it stands for. *)
RowFrom(n, e, i) == After(ToStrings(n), e[i - 1])
FullElem(n, i) == Elem(Names(n)[i], {<<k, Value[k]>> : k \in Range(KeysOf(DataAncestor(n, i)))})

(* It begins with that name and the values of the keys, and what follows   *)
(* begins with the next name.                                              *)
LEMMA RowFromName ==
    ASSUME tree \in Trees, NEW n \in DataNodes, NEW e, IsEnds(e, n), NEW i \in 1..Len(Names(n))
    PROVE  LET r == RowFrom(n, e, i)
               a == DataAncestor(n, i)
               K == Len(KeysOf(a))
           IN  /\ r \in Seq(Words) /\ K \in Nat /\ Len(r) \in Nat /\ Len(r) >= K + 1 /\ r[1] = Names(n)[i]
               /\ \A j \in 1..K : r[j + 1] = Value[SortedKeys(a)[j]]
               /\ i = Len(Names(n)) => Len(r) = K + 1
               /\ i < Len(Names(n)) => /\ Len(r) > K + 1 /\ r[K + 2] = Names(n)[i + 1]
                                       /\ After(r, K + 1) = RowFrom(n, e, i + 1)
<1>. DEFINE N == Len(Names(n))
            t == ToStrings(n)
            L == Len(t)
            a == DataAncestor(n, i)
            K == Len(KeysOf(a))
            d == e[i - 1]
            r == RowFrom(n, e, i)
<1>1. N \in Nat /\ K \in Nat
    BY NamesOfNode, RowOfName
<1>2. t \in Seq(Words) /\ L \in Nat /\ L = e[N] /\ \A k \in 0..N : e[k] \in Nat
    BY DEF IsEnds
<1>3. /\ e[i] = d + 1 + K /\ t[d + 1] = Names(n)[i]
      /\ \A j \in 1..K : t[d + 1 + j] = Value[SortedKeys(a)[j]]
    BY DEF IsEnds
<1>4. i \in 1..N /\ i \in Nat /\ i - 1 \in 0..N /\ i \in 0..N /\ N \in i..N
    BY <1>1
<1>5. e[i] <= e[N]
    BY <1>4, EndsGrow
<1>6. d \in Nat /\ d + 1 + K <= L
    BY <1>2, <1>3, <1>4, <1>5
<1>7. r = After(t, d)
    BY DEF RowFrom
<1>. HIDE DEF t, a, K, d, r
<1>8. After(t, d) \in Seq(Words) /\ Len(After(t, d)) = L - d /\ \A j \in 1..L - d : After(t, d)[j] = t[d + j]
  <2>. HIDE DEF N
  <2>. QED  BY <1>1, <1>2, <1>6 DEF After
<1>. HIDE DEF L
<1>9. Len(r) = L - d /\ Len(r) \in Nat /\ Len(r) >= K + 1 /\ r \in Seq(Words)
    BY <1>1, <1>2, <1>6, <1>7, <1>8
<1>10. r[1] = Names(n)[i]
  <2>1. 1 \in 1..L - d
      BY <1>1, <1>2, <1>6
  <2>. QED  BY <1>3, <1>7, <1>8, <2>1
<1>11. ASSUME NEW j \in 1..K
       PROVE  r[j + 1] = Value[SortedKeys(a)[j]]
  <2>1. j + 1 \in 1..L - d /\ d + (j + 1) = d + 1 + j
      BY <1>1, <1>2, <1>6
  <2>2. r[j + 1] = t[d + (j + 1)]
      BY <1>7, <1>8, <2>1
  <2>. QED  BY <1>3, <2>1, <2>2
<1>12. i = N => Len(r) = K + 1
    BY <1>1, <1>2, <1>3, <1>6, <1>9
<1>13. ASSUME i < N
       PROVE  Len(r) > K + 1 /\ r[K + 2] = Names(n)[i + 1] /\ After(r, K + 1) = RowFrom(n, e, i + 1)
  <2>. DEFINE l == i + 1
  <2>1. l \in 1..N /\ l - 1 = i /\ l \in 0..N /\ N \in l..N
      BY <1>1, <1>4, <1>13
  <2>. HIDE DEF l
  <2>2. e[l] = e[l - 1] + 1 + Len(KeysOf(DataAncestor(n, l))) /\ t[e[l - 1] + 1] = Names(n)[l]
      BY <2>1 DEF IsEnds, N, t
  <2>3. Len(KeysOf(DataAncestor(n, l))) \in Nat
      BY <2>1, RowOfName DEF N
  <2>4. e[l] <= e[N] /\ e[i] \in Nat
      BY <1>2, <1>4, <2>1, EndsGrow DEF N
  <2>5. e[i] + 1 <= L /\ t[e[i] + 1] = Names(n)[l]
      BY <1>2, <2>1, <2>2, <2>3, <2>4
  <2>6. d + 1 + K + 1 <= L
      BY <1>3, <2>5
  <2>7. Len(r) > K + 1 /\ K + 2 \in 1..L - d /\ d + (K + 2) = d + 1 + K + 1
      BY <1>1, <1>2, <1>6, <1>9, <2>6
  <2>8. r[K + 2] = Names(n)[l]
    <3>1. r[K + 2] = t[d + (K + 2)]
        BY <1>7, <1>8, <2>7
    <3>. QED  BY <1>3, <2>5, <2>7, <3>1
  <2>9. After(r, K + 1) = After(t, e[i])
    <3>1. After(After(t, d), K + 1) = After(t, d + 1 + K)
      <4>1. L = Len(t)
          BY DEF L
      <4>2. \A x, y \in Nat : x + y <= Len(t) => SubSeq(SubSeq(t, x + 1, Len(t)), y + 1, Len(t) - x) = SubSeq(t, x + y + 1, Len(t))
          BY <1>2, <4>1
      <4>3. K + 1 \in Nat /\ d + (K + 1) <= Len(t) /\ d + (K + 1) + 1 = d + 1 + K + 1
          BY <1>1, <1>6, <4>1
      <4>4. SubSeq(SubSeq(t, d + 1, Len(t)), K + 1 + 1, Len(t) - d) = SubSeq(t, d + 1 + K + 1, Len(t))
          BY <1>6, <4>2, <4>3
      <4>5. Len(After(t, d)) = Len(t) - d
          BY <1>8, <4>1
      <4>. QED  BY <4>4, <4>5 DEF After
    <3>. QED  BY <1>3, <1>7, <3>1
  <2>. QED  BY <2>1, <2>7, <2>8, <2>9 DEF RowFrom, t, l
<1>. QED  BY <1>1, <1>9, <1>10, <1>11, <1>12, <1>13 DEF N, a, K, r

(* The values that a list is given are those of its keys. *)
LEMMA GivenAll ==
    ASSUME tree \in Trees, NEW n \in DataNodes, NEW e, IsEnds(e, n), NEW i \in 1..Len(Names(n))
    PROVE  LET r == RowFrom(n, e, i)
               a == DataAncestor(n, i)
           IN  Given(a, r) = Len(KeysOf(a)) /\ ElemGiven(a, r) = FullElem(n, i)
<1>. DEFINE r == RowFrom(n, e, i)
            a == DataAncestor(n, i)
            K == Len(KeysOf(a))
            s == SortedKeys(a)
            A == {<<s[j], r[j + 1]>> : j \in 1..K}
            B == {<<k, Value[k]>> : k \in Range(KeysOf(a))}
<1>1. /\ r \in Seq(Words) /\ K \in Nat /\ Len(r) \in Nat /\ Len(r) >= K + 1
      /\ \A j \in 1..K : r[j + 1] = Value[s[j]]
    BY RowFromName
<1>2. a \in Nodes /\ Name(a) = Names(n)[i]
    BY OnTheWay
<1>3. /\ Len(s) = K /\ \A j \in 1..K : s[j] \in Range(KeysOf(a))
      /\ \A k \in Range(KeysOf(a)) : \E j \in 1..K : s[j] = k
    BY <1>2, SortedKeysOf
<1>. HIDE DEF K, s, r, a
<1>4. Given(a, r) = K
    BY <1>1, <1>3 DEF Given, s
<1>5. A = B
  <2>1. A \subseteq B
      BY <1>1, <1>3
  <2>2. ASSUME NEW k \in Range(KeysOf(a))
        PROVE  <<k, Value[k]>> \in A
    <3>1. PICK j \in 1..K : s[j] = k
        BY <1>3
    <3>2. <<s[j], r[j + 1]>> = <<k, Value[k]>>
        BY <1>1, <3>1
    <3>. QED  BY <3>2
  <2>. QED  BY <2>1, <2>2
<1>6. ElemGiven(a, r) = Elem(Name(a), A)
    BY <1>4 DEF ElemGiven, s
<1>7. FullElem(n, i) = Elem(Names(n)[i], B)
    BY DEF FullElem, a
<1>. HIDE DEF A, B
<1>8. ElemGiven(a, r) = FullElem(n, i)
    BY <1>2, <1>5, <1>6, <1>7
<1>. QED  BY <1>4, <1>8 DEF a, r, K


(* Only lists have keys. *)
LEMMA NoKeys ==
    ASSUME tree \in Trees, NEW n \in DataNodes, NEW i \in 1..Len(Names(n)),
           Kind(DataAncestor(n, i)) # "list" \/ KeysOf(DataAncestor(n, i)) = <<>>
    PROVE  Len(KeysOf(DataAncestor(n, i))) = 0 /\ FullElem(n, i) = Elem(Name(DataAncestor(n, i)), {})
<1>. DEFINE a == DataAncestor(n, i)
            keys == KeysOf(a)
<1>1. a \in Nodes /\ Name(a) = Names(n)[i]
    BY OnTheWay
<1>2. keys \in Seq(Idents) /\ Len(keys) \in Nat
    BY <1>1, KeysOfNode
<1>3. \A j \in 1..Len(keys) : keys[j] \in Range(keys)
    BY <1>2 DEF Range
<1>4. Len(keys) = 0
  <2>1. CASE Kind(a) # "list"
    <3>1. Range(keys) = {}
        BY <1>1, <2>1, KeyFacts
    <3>. HIDE DEF keys
    <3>2. ~ (Len(keys) >= 1)
        BY <1>2, <1>3, <3>1
    <3>. QED  BY <1>2, <3>2
  <2>2. CASE keys = <<>>
      BY <2>2
  <2>. QED  BY <2>1, <2>2
<1>. HIDE DEF keys
<1>5. Range(keys) = {}
    BY <1>2, <1>4 DEF Range
<1>6. {<<k, Value[k]>> : k \in Range(keys)} = {}
    BY <1>5
<1>. QED  BY <1>1, <1>4, <1>6 DEF FullElem, a, keys

(* A row of one name. *)
LEMMA TailOfRow ==
    ASSUME NEW r \in Seq(Words), Len(r) >= 1
    PROVE  r # <<>> /\ Tail(r) \in Seq(Words) /\ Tail(r) = After(r, 1) /\ (Len(r) = 1 => Tail(r) = <<>>)
<1>1. r # <<>> /\ Len(r) \in Nat
    OBVIOUS
<1>2. Tail(r) \in Seq(Words) /\ Len(Tail(r)) = Len(r) - 1
    BY <1>1, HeadTailProperties
<1>3. Tail(r) = SubSeq(r, 2, Len(r))
    BY <1>1
<1>4. ASSUME Len(r) = 1
      PROVE  Tail(r) = <<>>
  <2>1. Len(Tail(r)) = 0
      BY <1>2, <1>4
  <2>. QED  BY <1>2, <2>1, EmptySeq
<1>. QED  BY <1>1, <1>2, <1>3, <1>4 DEF After

(* buildPath at the end of the row. *)
LEMMA BuildEnd ==
    ASSUME tree \in Trees, NEW n \in DataNodes, Followed(n), NEW e, IsEnds(e, n),
           NEW i \in 1..Len(Names(n)), i = Len(Names(n))
    PROVE  /\ BuildPath[n][RowFrom(n, e, i)] = <<FullElem(n, i)>>
           /\ KeysOf(n) = <<>> => BuildPath[n][<<>>] = <<FullElem(n, i)>>
<1>. DEFINE r == RowFrom(n, e, i)
            K == Len(KeysOf(n))
            me == Elem(Name(n), {})
<1>1. DataAncestor(n, i) = n /\ n \in Nodes /\ Name(n) = Names(n)[i] /\ Len(n) > 1
    BY OnTheWay
<1>2. /\ r \in Seq(Words) /\ K \in Nat /\ Len(r) \in Nat /\ Len(r) = K + 1 /\ r[1] = Name(n)
      /\ Given(n, r) = K /\ ElemGiven(n, r) = FullElem(n, i)
  <2>1. /\ r \in Seq(Words) /\ K \in Nat /\ Len(r) \in Nat /\ Len(r) = K + 1 /\ r[1] = Names(n)[i]
      BY <1>1, RowFromName
  <2>2. Given(n, r) = K /\ ElemGiven(n, r) = FullElem(n, i)
      BY <1>1, GivenAll
  <2>. QED  BY <1>1, <2>1, <2>2
<1>. HIDE DEF r, K
<1>3. FollowedAt(n, n)
    BY <1>1, FollowedThere, UnderFacts
<1>4. Len(r) >= 1
    BY <1>2
<1>5. r # <<>> /\ Tail(r) \in Seq(Words) /\ (Len(r) = 1 => Tail(r) = <<>>) /\ <<>> \in Seq(Words)
    BY <1>2, <1>4, TailOfRow
<1>6. Kind(n) # "list" => Len(r) = 1 /\ FullElem(n, i) = me
    BY <1>1, <1>2, NoKeys DEF K
<1>7. BuildPath[n][r] = BuildOf(BuildPath, n, r)
    BY <1>1, <1>2, BuildPathDef
<1>8. \A c \in Nodes : BuildPath[c][<<>>] = <<Elem(Name(c), {})>>
    BY <1>5, BuildPathDef DEF BuildOf
<1>9. ASSUME Kind(n) = "list"
      PROVE  BuildPath[n][r] = <<FullElem(n, i)>>
  <2>1. BuildPath[n][r] = BuildList(BuildPath, n, r)
      BY <1>5, <1>7, <1>9 DEF BuildOf
  <2>2. BuildList(BuildPath, n, r) = <<FullElem(n, i)>>
      BY <1>2 DEF BuildList
  <2>. QED  BY <2>1, <2>2
<1>10. ASSUME Kind(n) = "container"
       PROVE  BuildPath[n][r] = <<FullElem(n, i)>>
  <2>1. BuildPath[n][r] = BuildContainer(BuildPath, n, r)
      BY <1>5, <1>7, <1>10 DEF BuildOf
  <2>2. Len(r) = 1 /\ FullElem(n, i) = me /\ Tail(r) = <<>>
      BY <1>5, <1>6, <1>10
  <2>3. CASE HasChild(n, Name(n))
    <3>. DEFINE c == Child(n, Name(n))
    <3>1. Kind(c) = "choice" /\ c \in Nodes
        BY <1>3, <1>10, <2>3 DEF FollowedAt, HasChild
    <3>2. Name(c) = Name(n)
      <4>1. n \in Seq(Idents) /\ Name(n) \in Idents
          BY <1>1, TreeFacts, ParentShorter
      <4>2. c = Append(n, Name(n))
          BY <4>1 DEF Child
      <4>. QED  BY <4>1, <4>2, FrontLastOfAppend DEF Name
    <3>3. BuildContainer(BuildPath, n, r) = BuildPath[c][<<>>]
        BY <1>2, <2>2, <2>3, <3>1 DEF BuildContainer
    <3>. QED  BY <1>8, <2>1, <2>2, <3>1, <3>2, <3>3
  <2>4. CASE ~ HasChild(n, Name(n))
    <3>1. BuildContainer(BuildPath, n, r) = <<me>>
        BY <1>2, <2>2, <2>4 DEF BuildContainer
    <3>. QED  BY <2>1, <2>2, <3>1
  <2>. QED  BY <2>3, <2>4
<1>11. ASSUME Kind(n) \in {"leaf", "leaflist"}
       PROVE  BuildPath[n][r] = <<FullElem(n, i)>>
  <2>1. BuildPath[n][r] = <<me>>
      BY <1>5, <1>6, <1>7, <1>11 DEF BuildOf, BuildLeaf, BuildLeafList
  <2>. QED  BY <1>6, <1>11, <2>1
<1>12. BuildPath[n][r] = <<FullElem(n, i)>>
    BY <1>3, <1>9, <1>10, <1>11 DEF FollowedAt
<1>13. KeysOf(n) = <<>> => FullElem(n, i) = me
    BY <1>1, NoKeys
<1>. QED  BY <1>1, <1>8, <1>12, <1>13 DEF r


(* A container with a choice of its own name on the way to n: what follows *)
(* is n, in that choice, and nothing else there has its name.              *)
LEMMA OwnChoice ==
    ASSUME tree \in Trees, NEW n \in DataNodes, Followed(n), NEW i \in 1..Len(Names(n)), i < Len(Names(n)),
           Kind(DataAncestor(n, i)) = "container", HasChild(DataAncestor(n, i), Name(DataAncestor(n, i)))
    PROVE  LET a == DataAncestor(n, i)
               c == Child(a, Name(a))
           IN  /\ i + 1 = Len(Names(n)) /\ KeysOf(n) = <<>>
               /\ c \in Nodes /\ Kind(c) = "choice" /\ Name(c) = Name(a)
               /\ InCaseOf(c, Name(n)) = {n}
<1>. DEFINE a == DataAncestor(n, i)
            b == DataAncestor(n, i + 1)
            c == Child(a, Name(a))
            l == Len(a)
<1>0. i + 1 \in 1..Len(Names(n)) /\ n \in Nodes
    BY NamesOfNode DEF DataNodes
<1>1. /\ a \in DataNodes /\ a \in Nodes /\ Len(a) > 1 /\ Under(a, n) /\ a # n
      /\ b \in DataNodes /\ b \in Nodes /\ Len(b) > 1 /\ Under(b, n) /\ DataParent[b] = a
      /\ b = n => i + 1 = Len(Names(n))
    BY <1>0, OnTheWay, AboveNode
<1>2. FollowedAt(n, a) /\ FollowedAt(n, b)
    BY <1>1, FollowedThere
<1>3. /\ Kind(c) = "choice" /\ c \in Nodes /\ n[l + 1] = Name(a) /\ Len(n) = l + 3 /\ KeysOf(n) = <<>>
    BY <1>1, <1>2 DEF FollowedAt, HasChild
<1>. HIDE DEF a, b
<1>4. a \in Seq(Idents) /\ Name(a) \in Idents /\ l \in Nat
    BY <1>1, TreeFacts, ParentShorter
<1>5. c = Append(a, Name(a)) /\ Name(c) = Name(a) /\ Parent(c) = a /\ Len(c) = l + 1
  <2>1. c = Append(a, Name(a))
      BY <1>4 DEF Child
  <2>2. Front(Append(a, Name(a))) = a /\ Last(Append(a, Name(a))) = Name(a)
      BY <1>4, FrontLastOfAppend
  <2>3. Len(Append(a, Name(a))) = l + 1
      BY <1>4
  <2>. QED  BY <2>1, <2>2, <2>3 DEF Parent, Name
<1>. HIDE DEF c, l
<1>6. ASSUME NEW x \in Nodes, Under(x, n), Parent(x) = a
      PROVE  x = c
  <2>1. x = Append(a, Name(x)) /\ Len(x) = l + 1
      BY <1>6, ParentShorter DEF l
  <2>2. Len(x) > 1
      BY <1>1, <1>4, <2>1 DEF l
  <2>3. n[Len(x)] = Name(x)
      BY <1>0, <1>6, <2>2, ParentOnTheWay
  <2>4. Name(x) = Name(a)
      BY <1>3, <2>1, <2>3
  <2>. QED  BY <1>5, <2>1, <2>4
<1>7. InPlainChoice(b)
    BY <1>2 DEF FollowedAt
<1>8. \/ Parent(b) = a
      \/ /\ Transparent(Parent(b)) /\ Len(b) = l + 3
         /\ Parent(Parent(b)) \in Nodes /\ Parent(Parent(Parent(b))) = a
    BY <1>1, <1>7, WayFromParent DEF l
<1>9. Parent(b) # a
  <2>1. SUFFICES ASSUME Parent(b) = a PROVE FALSE
      OBVIOUS
  <2>2. b = c
      BY <1>1, <1>6, <2>1
  <2>. QED  BY <1>1, <1>3, <2>2 DEF DataNodes, Transparent
<1>10. b = n
  <2>1. Len(b) = Len(n)
      BY <1>3, <1>8, <1>9
  <2>2. b = n \/ Len(b) < Len(n)
      BY <1>0, <1>1, UnderFacts
  <2>3. Len(b) \in Nat
      BY <1>1, ParentShorter
  <2>. QED  BY <2>1, <2>2, <2>3
<1>11. Parent(Parent(n)) = c
  <2>. DEFINE p == Parent(n)
  <2>1. Parent(p) \in Nodes /\ Parent(Parent(p)) = a /\ Transparent(p)
      BY <1>8, <1>9, <1>10
  <2>2. Under(n, n) /\ Len(n) > 1
      BY <1>0, <1>1, <1>10, UnderFacts
  <2>3. p \in Nodes /\ Under(p, n)
      BY <1>0, <2>2, ParentOnTheWay
  <2>. HIDE DEF p
  <2>4. Len(p) > 1
      BY <2>1, <2>3, TreeFacts
  <2>5. Under(Parent(p), n)
      BY <1>0, <2>3, <2>4, ParentOnTheWay
  <2>6. Parent(p) = c
      BY <1>6, <2>1, <2>5
  <2>. QED  BY <2>6 DEF p
<1>12. ~ Clashes(a, Name(n))
    BY <1>1, <1>2, <1>8, <1>9, <1>10 DEF FollowedAt
<1>13. ASSUME NEW z \in Nodes, Len(z) = l + 3
       PROVE  SubSeq(z, 1, l + 1) = Parent(Parent(z)) /\ SubSeq(Parent(Parent(z)), 1, l) = SubSeq(z, 1, l)
  <2>. DEFINE p == Parent(z)
              g == Parent(p)
  <2>1. Len(z) > 1 /\ Len(z) = Len(p) + 1 /\ Len(p) \in Nat
      BY <1>4, <1>13, ParentShorter
  <2>2. p \in Nodes /\ Len(p) = l + 2 /\ Len(p) > 1
      BY <1>4, <1>13, <2>1, TreeFacts
  <2>. HIDE DEF p
  <2>3. g \in Nodes /\ Len(g) = l + 1 /\ g \in Seq(Idents)
      BY <1>4, <2>2, TreeFacts, ParentShorter
  <2>4. \A k \in 0..l + 1 : k \in Nat /\ k < Len(z) /\ k < Len(p)
      BY <1>4, <1>13, <2>2
  <2>5. \A k \in 0..l + 1 : SubSeq(p, 1, k) = SubSeq(z, 1, k) /\ SubSeq(g, 1, k) = SubSeq(p, 1, k)
      BY <2>2, <2>4, BeginOfParent DEF p
  <2>. HIDE DEF g
  <2>6. SubSeq(g, 1, l + 1) = g
      BY <1>4, <2>3
  <2>7. l + 1 \in 0..l + 1 /\ l \in 0..l + 1
      BY <1>4
  <2>. QED  BY <2>5, <2>6, <2>7 DEF g, p
<1>14. l + 1 + 2 = l + 3
    BY <1>4
<1>15. SubSeq(c, 1, l) = a
  <2>1. SubSeq(Append(a, Name(a)), 1, Len(a)) = a
      BY <1>4 DEF l
  <2>. QED  BY <1>5, <2>1 DEF l
<1>16. n \in InCaseOf(c, Name(n))
    BY <1>0, <1>3, <1>5, <1>11, <1>13, <1>14 DEF InCaseOf
<1>17. ASSUME NEW z \in InCaseOf(c, Name(n))
       PROVE  z = n
  <2>1. z \in Nodes /\ Len(z) = l + 3 /\ SubSeq(z, 1, l + 1) = c /\ Name(z) = Name(n)
      BY <1>5, <1>14 DEF InCaseOf
  <2>2. Parent(Parent(z)) = c /\ SubSeq(z, 1, l) = a
      BY <1>13, <1>15, <2>1
  <2>3. DataParent[n] = a /\ Len(n) > 1
      BY <1>1, <1>10
  <2>. QED  BY <1>1, <1>3, <1>12, <2>1, <2>2, <2>3, OneInCases DEF l
<1>. QED  BY <1>1, <1>3, <1>5, <1>10, <1>16, <1>17 DEF a, c

(* buildPath on the way: the element, and in front of what follows. *)
LEMMA BuildStep ==
    ASSUME tree \in Trees, NEW n \in DataNodes, Followed(n), NEW e, IsEnds(e, n),
           NEW i \in 1..Len(Names(n)), i < Len(Names(n))
    PROVE  BuildPath[DataAncestor(n, i)][RowFrom(n, e, i)] =
              InFront(FullElem(n, i), BuildPath[DataAncestor(n, i + 1)][RowFrom(n, e, i + 1)])
<1>. DEFINE a == DataAncestor(n, i)
            b == DataAncestor(n, i + 1)
            r == RowFrom(n, e, i)
            s == RowFrom(n, e, i + 1)
            K == Len(KeysOf(a))
<1>0. i + 1 \in 1..Len(Names(n)) /\ n \in Nodes
    BY NamesOfNode DEF DataNodes
<1>1. /\ a \in DataNodes /\ a \in Nodes /\ Len(a) > 1 /\ Under(a, n) /\ Name(a) = Names(n)[i]
      /\ b \in DataNodes /\ b \in Nodes /\ Len(b) > 1 /\ Under(b, n) /\ DataParent[b] = a
      /\ Name(b) = Names(n)[i + 1]
    BY <1>0, OnTheWay, AboveNode
<1>2. FollowedAt(n, a) /\ FollowedAt(n, b)
    BY <1>1, FollowedThere
<1>3. /\ r \in Seq(Words) /\ K \in Nat /\ Len(r) \in Nat /\ Len(r) > K + 1 /\ r[1] = Name(a)
      /\ r[K + 2] = Name(b) /\ After(r, K + 1) = s
    BY <1>1, RowFromName
<1>4. Given(a, r) = K /\ ElemGiven(a, r) = FullElem(n, i)
    BY GivenAll
<1>5. IsDir(a)
    BY AncestorsOfAncestor
<1>6. Toward(a, Name(b)) = b /\ b # None
    BY <1>1, <1>2, TowardFinds, NoneIsNoNode DEF FollowedAt
<1>7. s \in Seq(Words) /\ s[1] = Name(b)
    BY <1>0, <1>1, RowFromName
<1>8. Kind(a) # "list" => K = 0 /\ FullElem(n, i) = Elem(Name(a), {})
    BY NoKeys
<1>. HIDE DEF a, b, r, s, K
<1>9. r # <<>> /\ Tail(r) = After(r, 1)
    BY <1>3, TailOfRow
<1>10. BuildPath[a][r] = BuildOf(BuildPath, a, r)
    BY <1>1, <1>3, BuildPathDef
<1>11. CASE Kind(a) = "list"
  <2>1. BuildPath[a][r] = BuildList(BuildPath, a, r)
      BY <1>9, <1>10, <1>11 DEF BuildOf
  <2>2. Len(r) # K + 1
      BY <1>3
  <2>3. BuildList(BuildPath, a, r) = InFront(FullElem(n, i), Onward(BuildPath, Toward(a, r[K + 2]), After(r, K + 1)))
      BY <1>4, <2>2 DEF BuildList
  <2>4. Onward(BuildPath, Toward(a, r[K + 2]), After(r, K + 1)) = BuildPath[b][s]
      BY <1>3, <1>6 DEF Onward
  <2>. QED  BY <2>1, <2>3, <2>4 DEF a, b, r, s
<1>12. CASE Kind(a) = "container"
  <2>1. BuildPath[a][r] = BuildContainer(BuildPath, a, r)
      BY <1>9, <1>10, <1>12 DEF BuildOf
  <2>2. K = 0 /\ FullElem(n, i) = Elem(Name(a), {})
      BY <1>8, <1>12
  <2>3. Tail(r) = s /\ r[2] = Name(b) /\ Len(r) > 1
    <3>1. K + 1 = 1 /\ K + 2 = 2
        BY <2>2
    <3>. QED  BY <1>3, <1>9, <3>1
  <2>4. CASE ~ HasChild(a, Name(a))
    <3>1. BuildContainer(BuildPath, a, r) = InFront(Elem(Name(a), {}), Onward(BuildPath, Toward(a, r[2]), Tail(r)))
        BY <1>3, <2>3, <2>4 DEF BuildContainer
    <3>2. Onward(BuildPath, Toward(a, r[2]), Tail(r)) = BuildPath[b][s]
        BY <1>6, <2>3 DEF Onward
    <3>. QED  BY <2>1, <2>2, <3>1, <3>2 DEF a, b, r, s
  <2>5. CASE HasChild(a, Name(a))
    <3>. DEFINE c == Child(a, Name(a))
    <3>1. /\ i + 1 = Len(Names(n)) /\ KeysOf(n) = <<>>
          /\ c \in Nodes /\ Kind(c) = "choice" /\ Name(c) = Name(a)
          /\ InCaseOf(c, Name(n)) = {n}
        BY <1>12, <2>5, OwnChoice DEF a
    <3>2. BuildContainer(BuildPath, a, r) = BuildPath[c][s]
        BY <1>3, <2>3, <2>5, <3>1 DEF BuildContainer
    <3>. HIDE DEF c
    <3>3. b = n
        BY <1>0, <3>1, OnTheWay DEF b
    <3>4. BuildPath[n][s] = <<FullElem(n, i + 1)>> /\ BuildPath[n][<<>>] = <<FullElem(n, i + 1)>>
        BY <1>0, <3>1, BuildEnd DEF s
    <3>5. Len(s) = 1
      <4>1. Len(s) = Len(KeysOf(b)) + 1
          BY <1>0, <3>1, RowFromName DEF s, b
      <4>2. Len(KeysOf(n)) = 0
          BY <3>1
      <4>. QED  BY <3>3, <4>1, <4>2
    <3>6. s # <<>> /\ Tail(s) = <<>>
        BY <1>7, <3>5, TailOfRow
    <3>7. BuildPath[c][s] = BuildChoice(BuildPath, c, s)
        BY <1>7, <3>1, <3>6, BuildPathDef DEF BuildOf
    <3>8. BuildChoice(BuildPath, c, s) = InFront(Elem(Name(c), {}), BuildPath[n][Tail(s)])
      <4>1. InCaseOf(c, s[1]) = {n}
          BY <1>7, <3>1, <3>3
      <4>2. InCaseOf(c, s[1]) # {} /\ (CHOOSE x \in InCaseOf(c, s[1]) : TRUE) = n
          BY <4>1
      <4>. QED  BY <4>2 DEF BuildChoice
    <3>. QED  BY <2>1, <2>2, <3>1, <3>2, <3>3, <3>4, <3>6, <3>7, <3>8 DEF a, b, r, s
  <2>. QED  BY <2>4, <2>5
<1>13. Kind(a) \in {"list", "container"}
  <2>1. a # <<>>
      BY <1>1, TreeFacts
  <2>. QED  BY <1>2, <1>5, <2>1 DEF FollowedAt, IsDir
<1>. QED  BY <1>11, <1>12, <1>13


(* The row is read back as the path it was written from. *)
LEMMA BuildAll ==
    ASSUME tree \in Trees, NEW n \in DataNodes, Followed(n), NEW e, IsEnds(e, n), Len(Names(n)) >= 1
    PROVE  BuildPath[DataAncestor(n, 1)][RowFrom(n, e, 1)] = FullPath(n)
<1>. DEFINE N == Len(Names(n))
            B(i) == BuildPath[DataAncestor(n, i)][RowFrom(n, e, i)]
            E(i) == FullElem(n, i)
            Elems(i) == [j \in 1 .. N - i |-> E(i + j)]
            S == {i \in 0 .. N - 1 : B(i + 1) = Elems(i)}
<1>1. N \in Nat /\ N >= 1
    BY NamesOfNode
<1>2. \A i \in 1..N : E(i) \in Elements
  <2>1. ASSUME NEW i \in 1..N
        PROVE  E(i) \in Elements
    <3>. DEFINE a == DataAncestor(n, i)
                r == RowFrom(n, e, i)
    <3>1. a \in Nodes /\ r \in Seq(Words) /\ Len(r) >= Len(KeysOf(a)) + 1 /\ Len(KeysOf(a)) \in Nat
        BY OnTheWay, RowFromName
    <3>2. E(i) = ElemGiven(a, r)
        BY GivenAll
    <3>. HIDE DEF a, r, E
    <3>3. Len(r) >= 1
        BY <3>1
    <3>4. r # <<>>
        BY <3>1, <3>3, TailOfRow
    <3>. QED  BY <3>1, <3>2, <3>4, GivenKeys
  <2>. QED  BY <2>1
<1>. HIDE DEF E
<1>3. N - 1 \in S
  <2>1. N \in 1..N /\ N - 1 \in 0 .. N - 1 /\ N - 1 + 1 = N /\ N - (N - 1) = 1
      BY <1>1
  <2>2. DataAncestor(n, N) = n
      BY <2>1, OnTheWay
  <2>3. B(N) = <<E(N)>>
      BY <2>1, <2>2, BuildEnd DEF E
  <2>4. Elems(N - 1) = <<E(N)>>
    <3>1. Elems(N - 1) = [j \in 1..1 |-> E(N - 1 + j)]
        BY <2>1
    <3>2. \A j \in 1..1 : N - 1 + j = N
        BY <1>1
    <3>3. [j \in 1..1 |-> E(N - 1 + j)] = [j \in 1..1 |-> E(N)]
        BY <3>2
    <3>4. PICK x \in Elements : x = E(N)
        BY <1>2, <2>1
    <3>5. [j \in 1..1 |-> x] = <<x>>
        OBVIOUS
    <3>. QED  BY <3>1, <3>3, <3>4, <3>5
  <2>. HIDE DEF B, Elems
  <2>. QED  BY <2>1, <2>3, <2>4
<1>4. ASSUME NEW i \in 0 .. N - 1, i < N - 1, i + 1 \in S
      PROVE  i \in S
  <2>. DEFINE k == i + 1
  <2>1. k \in 1..N /\ k < N /\ k \in 0 .. N - 1 /\ N - i = N - k + 1 /\ k \in Nat /\ i \in Nat
      BY <1>1, <1>4
  <2>2. B(k + 1) = Elems(k)
    <3>. HIDE DEF B, Elems
    <3>. QED  BY <1>4
  <2>3. B(k) = InFront(E(k), B(k + 1))
      BY <2>1, BuildStep DEF E
  <2>. HIDE DEF B
  <2>4. Elems(k) \in Seq(Elements) /\ Len(Elems(k)) = N - k
    <3>1. \A j \in 1 .. N - k : E(k + j) \in Elements
      <4>1. \A j \in 1 .. N - k : k + j \in 1..N
          BY <1>1, <2>1
      <4>. QED  BY <1>2, <4>1
    <3>2. N - k \in Nat
        BY <1>1, <2>1
    <3>. HIDE DEF k
    <3>. QED  BY <3>1, <3>2
  <2>5. InFront(E(k), Elems(k)) = <<E(k)>> \o Elems(k)
    <3>1. Elems(k) # Error /\ Elems(k) # Panic
        BY <2>4, ValuesAssumption
    <3>. HIDE DEF Elems
    <3>. QED  BY <3>1 DEF InFront
  <2>6. <<E(k)>> \o Elems(k) = Elems(i)
    <3>. DEFINE M == N - k
    <3>1. M \in Nat /\ N - i = M + 1 /\ E(k) \in Elements
        BY <1>1, <1>2, <2>1
    <3>2. PICK s \in Seq(Elements) : s = Elems(k)
        BY <2>4
    <3>3. Len(s) = M /\ \A j \in 1..M : s[j] = E(k + j)
        BY <2>4, <3>2
    <3>. HIDE DEF M
    <3>4. PICK x \in Elements : x = E(k)
        BY <3>1
    <3>5. <<x>> \o s = [j \in 1 .. M + 1 |-> IF j = 1 THEN x ELSE s[j - 1]]
        BY <3>1, <3>3
    <3>6. ASSUME NEW j \in 1 .. M + 1
          PROVE  (IF j = 1 THEN x ELSE s[j - 1]) = E(i + j)
      <4>1. CASE j = 1
          BY <3>4, <4>1
      <4>2. CASE j # 1
        <5>1. j - 1 \in 1..M /\ k + (j - 1) = i + j
            BY <2>1, <3>1, <4>2
        <5>. QED  BY <3>3, <4>2, <5>1
      <4>. QED  BY <4>1, <4>2
    <3>7. Elems(i) = [j \in 1 .. M + 1 |-> E(i + j)]
        BY <3>1
    <3>. HIDE DEF k
    <3>8. [j \in 1 .. M + 1 |-> IF j = 1 THEN x ELSE s[j - 1]] = [j \in 1 .. M + 1 |-> E(i + j)]
        BY <3>6
    <3>. QED  BY <3>2, <3>4, <3>5, <3>7, <3>8
  <2>. HIDE DEF Elems
  <2>7. B(i + 1) = Elems(i)
      BY <2>2, <2>3, <2>5, <2>6
  <2>. QED  BY <2>7
<1>5. 0 \in S
  <2>1. N - 1 \in Nat
      BY <1>1
  <2>. HIDE DEF S, N
  <2>. QED  BY <1>3, <1>4, <2>1, FromTheEnd
<1>6. B(1) = Elems(0)
  <2>. HIDE DEF B, Elems
  <2>. QED  BY <1>5
<1>7. N - 0 = N /\ \A j \in 1..N : 0 + j = j
    BY <1>1
<1>8. Elems(0) = [j \in 1..N |-> E(j)]
    BY <1>7
<1>9. FullPath(n) = [j \in 1..N |-> E(j)]
    BY DEF FullPath, FullElem, E
<1>. HIDE DEF Elems
<1>. QED  BY <1>6, <1>8, <1>9

(* The whole of it, in the module the row names or the only one that has   *)
(* such a node.                                                            *)
LEMMA MemReadsBack ==
    ASSUME tree \in Trees, NEW n \in DataNodes, Followed(n), ToStrings(n) # <<>>,
           NEW mod \in {n[1], NoModule}, mod # NoModule \/ Owners(Names(n)[1]) = {n[1]}
    PROVE  MemToPath([mod |-> mod, names |-> ToStrings(n)]) = {FullPath(n)}
<1>. DEFINE t == ToStrings(n)
            s == Names(n)[1]
            N == Len(Names(n))
            p == [mod |-> mod, names |-> t]
            first == IF mod = NoModule THEN s ELSE mod
            M == IF first \in Modules THEN {first} ELSE Modules
            H == {m \in M : HasChild(<<m>>, s)}
<1>1. PICK e : IsEnds(e, n)
    BY RowOfNode
<1>2. N \in Nat /\ t \in Seq(Words) /\ Len(t) = e[N] /\ e[0] = 0
    BY <1>1, NamesOfNode DEF IsEnds
<1>3. N >= 1
  <2>1. N = 0 => Len(t) = 0
      BY <1>2
  <2>2. Len(t) = 0 => t = <<>>
      BY <1>2, EmptySeq
  <2>. QED  BY <1>2, <2>1, <2>2
<1>4. 1 \in 1..N
    BY <1>2, <1>3
<1>5. RowFrom(n, e, 1) = t /\ t[1] = s
  <2>1. 1 - 1 = 0
      OBVIOUS
  <2>2. SubSeq(t, 0 + 1, Len(t)) = t
      BY <1>2
  <2>3. RowFrom(n, e, 1) = t
      BY <1>2, <2>1, <2>2 DEF RowFrom, After
  <2>4. RowFrom(n, e, 1)[1] = s
      BY <1>1, <1>4, RowFromName
  <2>. QED  BY <2>3, <2>4
<1>6. Head(t) = s
    BY <1>2, <1>5
<1>7. BuildPath[<<n[1], s>>][t] = FullPath(n) /\ HasChild(<<n[1]>>, s)
    BY <1>1, <1>3, <1>5, BuildAll, FirstAtTop DEF AtTop
<1>8. n[1] \in Modules /\ n[1] # NoModule
    BY NamesOfNode, ValuesAssumption
<1>. HIDE DEF t, s
<1>9. H = {n[1]}
  <2>1. CASE mod # NoModule
      BY <1>7, <1>8, <2>1
  <2>2. CASE mod = NoModule
    <3>1. Owners(s) = {n[1]}
        BY <2>2 DEF s
    <3>. QED  BY <1>7, <1>8, <2>2, <3>1 DEF Owners
  <2>. QED  BY <2>1, <2>2
<1>10. MemToPath(p) = IF t = <<>> THEN {<<>>} ELSE IF H = {} THEN {Error} ELSE {BuildPath[<<m, s>>][t] : m \in H}
    BY <1>6 DEF MemToPath
<1>11. t # <<>>
    BY DEF t
<1>. HIDE DEF H
<1>12. MemToPath(p) = {BuildPath[<<m, s>>][t] : m \in {n[1]}}
    BY <1>9, <1>10, <1>11
<1>13. {BuildPath[<<m, s>>][t] : m \in {n[1]}} = {BuildPath[<<n[1], s>>][t]}
    OBVIOUS
<1>. QED  BY <1>7, <1>12, <1>13 DEF t

(* MemRoundTrip: whatever the schema, a path that was written as a row of  *)
(* names and key values is read back as the same path by buildPath of the  *)
(* in-memory store, if it can follow the choices on the way and there is   *)
(* no doubt about the module.                                              *)
THEOREM MemRoundTripHolds == Spec => []MemRoundTrip
<1>1. Init => MemRoundTrip
    BY DEF Init, MemRoundTrip
<1>2. ASSUME tree \in Trees, MemRoundTrip, [Next]_vars
      PROVE  MemRoundTrip'
  <2>1. CASE AskToPath
    <3>1. PICK n \in DataNodes, mod \in Modules \union {NoModule} : \E len \in 0..Len(ToStrings(n)) :
             /\ SubSeq(ToStrings(n), 1, len) # <<>> /\ mod \in {n[1], NoModule}
             /\ q'.node = n /\ q'.mod = mod /\ q'.names = SubSeq(ToStrings(n), 1, len)
             /\ mem' = MemToPath([mod |-> mod, names |-> SubSeq(ToStrings(n), 1, len)])
        BY <1>2, <2>1, ToPathStep
    <3>2. /\ q'.names # <<>> /\ mod \in {n[1], NoModule}
          /\ q'.node = n /\ q'.mod = mod /\ mem' = MemToPath([mod |-> mod, names |-> q'.names])
        BY <3>1
    <3>3. tree' = tree
        BY <2>1 DEF AskToPath
    <3>4. ToStrings(q.node)' = ToStrings(n) /\ FullPath(q.node)' = FullPath(n)
      <4>1. ToStrings(q.node)' = ToStrings(n)' /\ FullPath(q.node)' = FullPath(n)'
          BY <3>2 DEF ToStrings, FullPath
      <4>. QED  BY <3>3, <4>1, RowsStay
    <3>5. Followed(q.node)' => Followed(n)
      <4>1. Followed(q.node)' => Followed(n)'
          BY <3>2
      <4>2. Followed(n)' = Followed(n)
          BY <3>3 DEF Followed, DataParent, KeysOf, HasChild, Child, Nodes, Transparent, Kind, Parent, Name
      <4>. QED  BY <4>1, <4>2
    <3>6. Owners(Names(q.node)[1])' = Owners(Names(n)[1]) /\ q'.node[1] = n[1]
      <4>1. Names(q.node)' = Names(n)
        <5>1. Names(q.node)' = Names(n)'
            BY <3>2
        <5>. QED  BY <3>3, <5>1, RowsStay
      <4>2. PICK s : s = Names(n)[1]
          OBVIOUS
      <4>3. Owners(Names(q.node)[1])' = Owners(s)'
          BY <4>1, <4>2 DEF Owners
      <4>4. Owners(s)' = Owners(s)
          BY <3>3 DEF Owners, HasChild, Child, Nodes
      <4>. QED  BY <3>2, <4>2, <4>3, <4>4
    <3>7. q'.names = ToStrings(n) /\ Followed(n) /\ (mod # NoModule \/ Owners(Names(n)[1]) = {n[1]})
             => mem' = {FullPath(n)}
        BY <1>2, <3>2, MemReadsBack
    <3>. QED  BY <3>2, <3>4, <3>5, <3>6, <3>7 DEF MemRoundTrip
  <2>2. CASE Load \/ AskSchema \/ AskExpand
    <3>1. op' # "toPath"
        BY <2>2 DEF Load, AskSchema, AskExpand
    <3>. QED  BY <3>1 DEF MemRoundTrip
  <2>3. CASE UNCHANGED vars
    <3>1. op' = op /\ tree' = tree /\ q' = q /\ mem' = mem
        BY <2>3 DEF vars
    <3>2. Followed(q.node)' = Followed(q.node)
        BY <3>1 DEF Followed, DataParent, KeysOf, HasChild, Child, Nodes, Transparent, Kind, Parent, Name
    <3>3. ToStrings(q.node)' = ToStrings(q.node) /\ FullPath(q.node)' = FullPath(q.node)
        BY <3>1 DEF ToStrings, FullPath, SortedKeys, KeysOf, Names, DataAncestor, DataNames, DataNodes, Nodes,
                    Transparent, Kind, Parent, Name, Elem
    <3>4. Owners(Names(q.node)[1])' = Owners(Names(q.node)[1])
        BY <3>1 DEF Owners, HasChild, Child, Names, DataNames, Nodes, Transparent, Kind, Parent, Name
    <3>. QED  BY <1>2, <3>1, <3>2, <3>3, <3>4 DEF MemRoundTrip
  <2>. QED  BY <1>2, <2>1, <2>2, <2>3 DEF Next
<1>. QED  BY <1>1, <1>2, TreeStays, PTL DEF Spec


=============================================================================
