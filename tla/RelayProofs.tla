---------------------------- MODULE RelayProofs -----------------------------
(***************************************************************************)
(* Payments between any number of groups.  Two things carry the proofs.    *)
(* A Merkle path that leads to the root begins at one of the leaves: every *)
(* hash in a tree is that of a piece of data or of two hashes in the tree, *)
(* so a walk can be followed backwards from the root.  Hence what          *)
(* RelayVerify lets through is confirmed.  And UpdateTxn, which takes      *)
(* outputs by their owners, takes only what the inputs name, since owners  *)
(* have one output of a transaction each; where an entry is missing        *)
(* FindUTXO builds the set from the chain alone.                           *)
(***************************************************************************)
EXTENDS Relay, FiniteSetTheorems, SequenceTheorems, NaturalsInduction,
        WellFoundedInduction, TLAPS

-----------------------------------------------------------------------------
(* Induction and recursion *)

LEMMA SetInduction ==
    ASSUME NEW S, 0 \in S, \A n \in Nat : n \in S => n + 1 \in S
    PROVE  Nat \subseteq S
<1> DEFINE R == {ss \in Nat \X Nat : ss[1] < ss[2]}
           T == Nat \ S
<1> SUFFICES ASSUME T # {} PROVE FALSE
  OBVIOUS
<1>1. IsWellFoundedOn(R, Nat)
  BY NatLessThanWellFounded DEF OpToRel
<1>2. \A y, z \in Nat : y < z => <<y, z>> \in R
  OBVIOUS
<1> HIDE DEF R
<1>3. PICK x \in T : \A y \in T : ~(<<y, x>> \in R)
  <2>1. T \subseteq Nat
    OBVIOUS
  <2> HIDE DEF T
  <2> QED BY <1>1, <2>1, WFMin, Zenon
<1>4. x \in Nat /\ x \notin S /\ x # 0
  BY <1>3
<1>5. x - 1 \in Nat /\ (x - 1) + 1 = x /\ x - 1 < x
  BY <1>4
<1>6. x - 1 \in T
  <2>1. x - 1 \notin S
    BY <1>4, <1>5
  <2> QED BY <1>5, <2>1
<1> QED BY <1>2, <1>3, <1>4, <1>5, <1>6, Zenon

\* N steps in the set S, from a on; F[n] is what the n-th step does.
HasRun(S, a, N, F) ==
    \E f \in [0..N -> S] : f[0] = a /\ \A n \in 1..N : f[n] = F[n][f[n - 1]]

LEMMA Recursion ==
    ASSUME NEW S, NEW a \in S, NEW N \in Nat, NEW F \in [1..N -> [S -> S]]
    PROVE  HasRun(S, a, N, F)
<1> DEFINE Good(m) == \E f \in [0..m -> S] :
                          f[0] = a /\ \A n \in 1..m : f[n] = F[n][f[n - 1]]
           M == {m \in Nat : m <= N => Good(m)}
<1>1. 0 \in M
  <2> DEFINE f == [n \in 0..0 |-> a]
  <2>1. f \in [0..0 -> S] /\ f[0] = a /\ \A n \in 1..0 : f[n] = F[n][f[n - 1]]
    OBVIOUS
  <2>2. Good(0)
    BY <2>1
  <2> QED BY <2>2
<1>2. ASSUME NEW m \in Nat, m \in M PROVE m + 1 \in M
  <2> SUFFICES ASSUME m + 1 <= N PROVE Good(m + 1)
    OBVIOUS
  <2>1. PICK f \in [0..m -> S] : f[0] = a /\ \A n \in 1..m : f[n] = F[n][f[n - 1]]
    BY <1>2
  <2> DEFINE g == [n \in 0..m + 1 |-> IF n <= m THEN f[n] ELSE F[m + 1][f[m]]]
  <2>2. F[m + 1][f[m]] \in S
    OBVIOUS
  <2>3. g \in [0..m + 1 -> S]
    BY <2>2
  <2>4. g[0] = a
    BY <2>1
  <2>5. ASSUME NEW n \in 1..m + 1 PROVE g[n] = F[n][g[n - 1]]
    <3>1. g[n - 1] = f[n - 1]
      OBVIOUS
    <3>2. CASE n <= m
      BY <2>1, <3>1, <3>2
    <3>3. CASE n = m + 1
      BY <3>1, <3>3
    <3> QED BY <3>2, <3>3
  <2> HIDE DEF g
  <2> QED BY <2>3, <2>4, <2>5
<1> HIDE DEF Good
<1>3. Nat \subseteq M
  BY <1>1, <1>2, SetInduction, Zenon
<1>4. Good(N)
  BY <1>3
<1> QED BY <1>4 DEF Good, HasRun

-----------------------------------------------------------------------------
(* Sequences whose elements belong to no set of their own *)

IsSeq(L) == L \in Seq({L[i] : i \in DOMAIN L})

LEMMA SeqOfAny ==
    ASSUME NEW S, NEW L \in Seq(S)
    PROVE  IsSeq(L)
BY DEF IsSeq

LEMMA SeqFacts ==
    ASSUME NEW L, IsSeq(L)
    PROVE  Len(L) \in Nat /\ DOMAIN L = 1..Len(L)
<1> DEFINE S == {L[i] : i \in DOMAIN L}
<1>1. L \in Seq(S)
  BY DEF IsSeq
<1> HIDE DEF S
<1> QED BY <1>1

LEMMA AppendFacts ==
    ASSUME NEW L, NEW x, IsSeq(L)
    PROVE  /\ IsSeq(Append(L, x)) /\ Len(Append(L, x)) = Len(L) + 1
           /\ DOMAIN Append(L, x) = 1..Len(L) + 1
           /\ \A i \in DOMAIN L : Append(L, x)[i] = L[i]
           /\ Append(L, x)[Len(L) + 1] = x
<1> DEFINE S == {L[i] : i \in DOMAIN L} \cup {x}
           A == Append(L, x)
<1>1. L \in Seq(S) /\ x \in S
  BY DEF IsSeq
<1> HIDE DEF S
<1>2. /\ A \in Seq(S) /\ Len(A) = Len(L) + 1 /\ Len(L) \in Nat /\ DOMAIN A = 1..Len(L) + 1
      /\ DOMAIN L = 1..Len(L)
  BY <1>1
<1>3. (\A i \in DOMAIN L : A[i] = L[i]) /\ A[Len(L) + 1] = x
  BY <1>1, <1>2
<1> HIDE DEF A
<1> QED BY <1>2, <1>3, SeqOfAny DEF A

LEMMA FunctionSeq ==
    ASSUME NEW n \in Nat, NEW f, f = [i \in 1..n |-> f[i]]
    PROVE  IsSeq(f) /\ Len(f) = n /\ DOMAIN f = 1..n
<1> DEFINE S == {f[i] : i \in 1..n}
<1>1. DOMAIN f = 1..n /\ f \in [1..n -> S]
  OBVIOUS
<1> HIDE DEF S
<1>2. f \in Seq(S) /\ Len(f) = n
  BY <1>1
<1> QED BY <1>1, <1>2, SeqOfAny

-----------------------------------------------------------------------------
(* Merkle trees *)

LEMMA HashFacts ==
    \A x, y, a, b :
        /\ Hash(x) = Hash(y) => x = y
        /\ Hash(x) # Pair(a, b)
        /\ Pair(x, y) = Pair(a, b) => x = a /\ y = b
<1> SUFFICES ASSUME NEW x, NEW y, NEW a, NEW b
             PROVE  /\ Hash(x) = Hash(y) => x = y
                    /\ Hash(x) # Pair(a, b)
                    /\ Pair(x, y) = Pair(a, b) => x = a /\ y = b
  BY Zenon
<1>1. Len(<<x>>) = 1 /\ Len(<<a, b>>) = 2
  OBVIOUS
<1>2. <<x>>[1] = x /\ <<y>>[1] = y /\ <<x, y>>[1] = x /\ <<x, y>>[2] = y /\ <<a, b>>[1] = a /\ <<a, b>>[2] = b
  OBVIOUS
<1>3. <<x>> # <<a, b>>
  BY <1>1
<1> QED BY <1>2, <1>3, Zenon DEF Hash, Pair

\* What the recursive function of Walk computes.
LEMMA WalkFacts ==
    ASSUME NEW hash, NEW path, IsSeq(path)
    PROVE  \E h : /\ h[0] = hash
                  /\ \A n \in 1..Len(path) : h[n] = Step(h[n - 1], path[n])
                  /\ Walk(hash, path) = h[Len(path)]
<1> DEFINE Fix(m, f) == [n \in 0..m |-> IF n = 0 THEN hash ELSE Step(f[n - 1], path[n])]
           M == {m \in Nat : \E f : f = Fix(m, f)}
<1>1. 0 \in M
  <2> DEFINE f == [n \in 0..0 |-> hash]
  <2>1. f = Fix(0, f)
    OBVIOUS
  <2> QED BY <2>1
<1>2. ASSUME NEW m \in Nat, m \in M PROVE m + 1 \in M
  <2>1. PICK f : f = Fix(m, f)
    BY <1>2
  <2> DEFINE g == [n \in 0..m + 1 |-> IF n <= m THEN f[n] ELSE Step(f[m], path[m + 1])]
  <2>2. \A n \in 0..m : f[n] = IF n = 0 THEN hash ELSE Step(f[n - 1], path[n])
    BY <2>1
  <2>3. ASSUME NEW n \in 0..m + 1
        PROVE  g[n] = IF n = 0 THEN hash ELSE Step(g[n - 1], path[n])
    <3>1. n # 0 => g[n - 1] = f[n - 1]
      OBVIOUS
    <3>2. CASE n <= m
      <4>1. g[n] = f[n]
        BY <3>2
      <4> HIDE DEF g
      <4> QED BY <2>2, <3>1, <3>2, <4>1
    <3>3. CASE n = m + 1
      <4>1. g[n] = Step(f[m], path[m + 1])
        BY <3>3
      <4> HIDE DEF g
      <4> QED BY <3>1, <3>3, <4>1
    <3> QED BY <3>2, <3>3
  <2>4. g = Fix(m + 1, g)
    BY <2>3, Zenon
  <2>5. m + 1 \in Nat
    OBVIOUS
  <2> HIDE DEF g, Fix
  <2> QED BY <2>4, <2>5, Zenon
<1>3. Nat \subseteq M
  <2> HIDE DEF M
  <2> QED BY <1>1, <1>2, SetInduction, Zenon
<1>4. Len(path) \in Nat
  BY SeqFacts
<1>5. \E f : f = Fix(Len(path), f)
  <2> HIDE DEF Fix
  <2> QED BY <1>3, <1>4
<1> DEFINE h == CHOOSE f : f = Fix(Len(path), f)
<1>6. Walk(hash, path) = h[Len(path)]
  BY Zenon DEF Walk
<1>7. h = Fix(Len(path), h)
  <2> HIDE DEF Fix
  <2> QED BY <1>5, Zenon
<1> HIDE DEF h
<1>8. h[0] = hash /\ \A n \in 1..Len(path) : h[n] = Step(h[n - 1], path[n])
  BY <1>4, <1>7
<1> QED BY <1>6, <1>8

\* What the recursive function of NewMerkleTree computes.
LEMMA TreeFacts ==
    ASSUME NEW d, IsSeq(d)
    PROVE  \E tree : /\ tree[0] = <<Even(Leaves(d))>>
                     /\ \A n \in 1..Len(d) : tree[n] = Higher(tree[n - 1])
                     /\ NewMerkleTree(d) = tree[Len(d)]
<1> DEFINE a == <<Even(Leaves(d))>>
           Fix(m, f) == [n \in 0..m |-> IF n = 0 THEN a ELSE Higher(f[n - 1])]
           M == {m \in Nat : \E f : f = Fix(m, f)}
<1> HIDE DEF a
<1>1. 0 \in M
  <2> DEFINE f == [n \in 0..0 |-> a]
  <2>1. f = Fix(0, f)
    OBVIOUS
  <2> QED BY <2>1
<1>2. ASSUME NEW m \in Nat, m \in M PROVE m + 1 \in M
  <2>1. PICK f : f = Fix(m, f)
    BY <1>2
  <2> DEFINE g == [n \in 0..m + 1 |-> IF n <= m THEN f[n] ELSE Higher(f[m])]
  <2>2. \A n \in 0..m : f[n] = IF n = 0 THEN a ELSE Higher(f[n - 1])
    BY <2>1
  <2>3. ASSUME NEW n \in 0..m + 1
        PROVE  g[n] = IF n = 0 THEN a ELSE Higher(g[n - 1])
    <3>1. n # 0 => g[n - 1] = f[n - 1]
      OBVIOUS
    <3>2. CASE n <= m
      <4>1. g[n] = f[n]
        BY <3>2
      <4> HIDE DEF g
      <4> QED BY <2>2, <3>1, <3>2, <4>1
    <3>3. CASE n = m + 1
      <4>1. g[n] = Higher(f[m])
        BY <3>3
      <4> HIDE DEF g
      <4> QED BY <3>1, <3>3, <4>1
    <3> QED BY <3>2, <3>3
  <2>4. g = Fix(m + 1, g)
    BY <2>3, Zenon
  <2>5. m + 1 \in Nat
    OBVIOUS
  <2> HIDE DEF g, Fix
  <2> QED BY <2>4, <2>5, Zenon
<1>3. Nat \subseteq M
  <2> HIDE DEF M
  <2> QED BY <1>1, <1>2, SetInduction, Zenon
<1>4. Len(d) \in Nat
  BY SeqFacts
<1>5. \E f : f = Fix(Len(d), f)
  <2> HIDE DEF Fix
  <2> QED BY <1>3, <1>4
<1> DEFINE t == CHOOSE f : f = Fix(Len(d), f)
<1>6. NewMerkleTree(d) = t[Len(d)]
  BY Zenon DEF NewMerkleTree, a
<1>7. t = Fix(Len(d), t)
  <2> HIDE DEF Fix
  <2> QED BY <1>5, Zenon
<1> HIDE DEF t
<1>8. t[0] = a /\ \A n \in 1..Len(d) : t[n] = Higher(t[n - 1])
  BY <1>4, <1>7
<1> QED BY <1>6, <1>8 DEF a

\* Data of some node of the tree.
InTree(tree, x) == \E k \in DOMAIN tree : \E i \in DOMAIN tree[k] : x = tree[k][i].data

\* Every node has the hash of a piece of data, or the hash of two nodes.
TreeOK(tree, d) ==
    /\ IsSeq(tree) /\ Len(tree) >= 1
    /\ \A k \in DOMAIN tree : IsSeq(tree[k]) /\ Len(tree[k]) >= 1
    /\ \A x : InTree(tree, x) =>
          \/ \E j \in DOMAIN d : x = Hash(d[j])
          \/ \E a, b : InTree(tree, a) /\ InTree(tree, b) /\ x = Pair(a, b)

\* A level keeps its nodes and gets no others when it is made even.
LEMMA EvenFacts ==
    ASSUME NEW nodes, IsSeq(nodes), Len(nodes) >= 1
    PROVE  /\ IsSeq(Even(nodes)) /\ Len(Even(nodes)) >= 1
           /\ \A i \in DOMAIN Even(nodes) : \E j \in DOMAIN nodes : Even(nodes)[i] = nodes[j]
<1>1. Len(nodes) \in Nat /\ DOMAIN nodes = 1..Len(nodes)
  BY SeqFacts
<1>2. CASE Even(nodes) = nodes
  BY <1>1, <1>2
<1>3. CASE Even(nodes) = Append(nodes, Last(nodes))
  <2> DEFINE A == Append(nodes, Last(nodes))
  <2>1. Last(nodes) = nodes[Len(nodes)]
    BY DEF Last
  <2>2. /\ IsSeq(A) /\ Len(A) = Len(nodes) + 1 /\ DOMAIN A = 1..Len(nodes) + 1
        /\ \A i \in DOMAIN nodes : A[i] = nodes[i]
        /\ A[Len(nodes) + 1] = nodes[Len(nodes)]
    BY <2>1, AppendFacts
  <2>3. Even(nodes) = A
    BY <1>3
  <2> HIDE DEF A
  <2>4. \A i \in DOMAIN A : \E j \in DOMAIN nodes : A[i] = nodes[j]
    <3> SUFFICES ASSUME NEW i \in DOMAIN A PROVE \E j \in DOMAIN nodes : A[i] = nodes[j]
      OBVIOUS
    <3>1. i \in DOMAIN nodes \/ i = Len(nodes) + 1
      BY <1>1, <2>2
    <3>2. Len(nodes) \in DOMAIN nodes
      BY <1>1
    <3> QED BY <2>2, <3>1, <3>2, Zenon
  <2> QED BY <1>1, <2>2, <2>3, <2>4
<1> QED BY <1>2, <1>3, Zenon DEF Even

LEMMA LeavesOK ==
    ASSUME NEW d, IsSeq(d), Len(d) >= 1
    PROVE  TreeOK(<<Even(Leaves(d))>>, d)
<1> DEFINE L == Leaves(d)
           E == Even(L)
           T == <<E>>
<1>1. Len(d) \in Nat /\ DOMAIN d = 1..Len(d)
  BY SeqFacts
<1>2. IsSeq(L) /\ Len(L) >= 1 /\ DOMAIN L = 1..Len(d) /\ \A i \in DOMAIN L : L[i].data = Hash(d[i])
  <2>1. L = [i \in 1..Len(d) |-> [l |-> i - 1, r |-> i - 1, data |-> Hash(d[i])]]
    BY <1>1 DEF Leaves
  <2> HIDE DEF L
  <2>2. L = [i \in 1..Len(d) |-> L[i]]
    BY <2>1
  <2>3. IsSeq(L) /\ Len(L) = Len(d) /\ DOMAIN L = 1..Len(d)
    BY <1>1, <2>2, FunctionSeq
  <2>4. \A i \in DOMAIN L : L[i].data = Hash(d[i])
    BY <2>1, <2>3
  <2> QED BY <2>3, <2>4
<1> HIDE DEF L
<1>3. /\ IsSeq(E) /\ Len(E) >= 1
      /\ \A i \in DOMAIN E : \E j \in DOMAIN L : E[i] = L[j]
  BY <1>2, EvenFacts
<1> HIDE DEF E
<1>4. IsSeq(T) /\ Len(T) = 1 /\ DOMAIN T = {1} /\ T[1] = E
  BY DEF IsSeq
<1> HIDE DEF T
<1>5. ASSUME NEW x, InTree(T, x) PROVE \E j \in DOMAIN d : x = Hash(d[j])
  <2>1. PICK i \in DOMAIN E : x = E[i].data
    BY <1>4, <1>5 DEF InTree
  <2>2. PICK j \in DOMAIN L : E[i] = L[j]
    BY <1>3
  <2> QED BY <1>1, <1>2, <2>1, <2>2
<1>6. TreeOK(T, d)
  <2>1. \A k \in DOMAIN T : IsSeq(T[k]) /\ Len(T[k]) >= 1
    BY <1>3, <1>4
  <2> QED BY <1>4, <1>5, <2>1 DEF TreeOK
<1> QED BY <1>6 DEF T, E, L

\* A node of a new level has the hash of two nodes of the level below.
LEMMA NewLevelFacts ==
    ASSUME NEW nodes, IsSeq(nodes), Len(nodes) >= 1, Len(nodes) # 1
    PROVE  /\ IsSeq(NewLevel(nodes)) /\ Len(NewLevel(nodes)) >= 1
           /\ \A j \in DOMAIN NewLevel(nodes) :
                 \E x, y \in DOMAIN nodes : NewLevel(nodes)[j].data = Pair(nodes[x].data, nodes[y].data)
<1> DEFINE n == Len(nodes) \div 2
           L == NewLevel(nodes)
<1>1. Len(nodes) \in Nat /\ DOMAIN nodes = 1..Len(nodes)
  BY SeqFacts
<1>2. n \in Nat /\ n >= 1 /\ 2 * n <= Len(nodes)
  BY <1>1
<1> HIDE DEF n
<1>3. L = [j \in 1..n |-> [l |-> nodes[2 * j - 1].l, r |-> nodes[2 * j].r,
                           data |-> Pair(nodes[2 * j - 1].data, nodes[2 * j].data)]]
  BY DEF NewLevel, n
<1> HIDE DEF L
<1>4. L = [j \in 1..n |-> L[j]]
  BY <1>3
<1>5. IsSeq(L) /\ Len(L) = n /\ DOMAIN L = 1..n
  BY <1>2, <1>4, FunctionSeq
<1>6. \A j \in DOMAIN L : \E x, y \in DOMAIN nodes : L[j].data = Pair(nodes[x].data, nodes[y].data)
  <2> SUFFICES ASSUME NEW j \in DOMAIN L
               PROVE  \E x, y \in DOMAIN nodes : L[j].data = Pair(nodes[x].data, nodes[y].data)
    OBVIOUS
  <2>1. j \in 1..n
    BY <1>5
  <2>2. 2 * j - 1 \in DOMAIN nodes /\ 2 * j \in DOMAIN nodes
    BY <1>1, <1>2, <2>1
  <2>3. L[j].data = Pair(nodes[2 * j - 1].data, nodes[2 * j].data)
    BY <1>3, <2>1
  <2> QED BY <2>2, <2>3
<1> QED BY <1>2, <1>5, <1>6 DEF L

LEMMA HigherOK ==
    ASSUME NEW tree, NEW d, TreeOK(tree, d)
    PROVE  TreeOK(Higher(tree), d)
<1> DEFINE top == Last(tree)
           E == Even(NewLevel(top))
           A == Append(tree, E)
           N == Len(tree)
<1>1. N \in Nat /\ N >= 1 /\ DOMAIN tree = 1..N /\ IsSeq(tree)
  BY SeqFacts DEF TreeOK
<1>2. top = tree[N] /\ IsSeq(top) /\ Len(top) >= 1
  <2>1. N \in DOMAIN tree
    BY <1>1
  <2> QED BY <2>1 DEF TreeOK, Last
<1>3. CASE Len(top) = 1
  BY <1>3 DEF Higher
<1>4. CASE Len(top) # 1
  <2>1. Higher(tree) = A
    BY <1>4 DEF Higher
  <2> HIDE DEF top
  <2>2. /\ IsSeq(NewLevel(top)) /\ Len(NewLevel(top)) >= 1
        /\ \A j \in DOMAIN NewLevel(top) :
              \E x, y \in DOMAIN top : NewLevel(top)[j].data = Pair(top[x].data, top[y].data)
    BY <1>2, <1>4, NewLevelFacts
  <2>3. /\ IsSeq(E) /\ Len(E) >= 1
        /\ \A i \in DOMAIN E : \E j \in DOMAIN NewLevel(top) : E[i] = NewLevel(top)[j]
    BY <2>2, EvenFacts
  <2> HIDE DEF E
  <2>4. /\ IsSeq(A) /\ Len(A) = N + 1 /\ DOMAIN A = 1..N + 1
        /\ \A k \in DOMAIN tree : A[k] = tree[k]
        /\ A[N + 1] = E
    BY <1>1, AppendFacts
  <2> HIDE DEF A
  <2>5. \A k \in DOMAIN A : k \in DOMAIN tree \/ k = N + 1
    BY <1>1, <2>4
  <2>6. \A k \in DOMAIN A : IsSeq(A[k]) /\ Len(A[k]) >= 1
    BY <2>3, <2>4, <2>5 DEF TreeOK
  <2>7. \A k \in DOMAIN tree : k \in DOMAIN A
    BY <1>1, <2>4
  <2>8. \A x : InTree(tree, x) => InTree(A, x)
    BY <2>4, <2>7 DEF InTree
  <2>9. ASSUME NEW x, InTree(A, x), ~InTree(tree, x)
        PROVE  \E a, b : InTree(A, a) /\ InTree(A, b) /\ x = Pair(a, b)
    <3>1. PICK i \in DOMAIN E : x = E[i].data
      BY <2>4, <2>5, <2>9 DEF InTree
    <3>2. PICK u, v \in DOMAIN top : x = Pair(top[u].data, top[v].data)
      BY <2>2, <2>3, <3>1
    <3>3. InTree(tree, top[u].data) /\ InTree(tree, top[v].data)
      <4>1. N \in DOMAIN tree
        BY <1>1
      <4> QED BY <1>2, <3>2, <4>1 DEF InTree
    <3> QED BY <2>8, <3>2, <3>3
  <2>10. ASSUME NEW x, InTree(A, x)
         PROVE  \/ \E j \in DOMAIN d : x = Hash(d[j])
                \/ \E a, b : InTree(A, a) /\ InTree(A, b) /\ x = Pair(a, b)
    <3>1. CASE InTree(tree, x)
      BY <2>8, <3>1, Zenon DEF TreeOK
    <3>2. CASE ~InTree(tree, x)
      BY <2>9, <2>10, <3>2, Zenon
    <3> QED BY <3>1, <3>2, Zenon
  <2>11. Len(A) >= 1
    BY <1>1, <2>4
  <2>12. TreeOK(A, d)
    BY <2>4, <2>6, <2>10, <2>11, Zenon DEF TreeOK
  <2> QED BY <2>1, <2>12, Zenon
<1> QED BY <1>3, <1>4, Zenon

LEMMA MerkleTreeOK ==
    ASSUME NEW d, IsSeq(d), Len(d) >= 1
    PROVE  TreeOK(NewMerkleTree(d), d)
<1>1. PICK tree : /\ tree[0] = <<Even(Leaves(d))>>
                  /\ \A n \in 1..Len(d) : tree[n] = Higher(tree[n - 1])
                  /\ NewMerkleTree(d) = tree[Len(d)]
  BY TreeFacts
<1> DEFINE M == {n \in Nat : n <= Len(d) => TreeOK(tree[n], d)}
<1>2. Len(d) \in Nat
  BY SeqFacts
<1>3. 0 \in M
  BY <1>1, LeavesOK
<1>4. ASSUME NEW n \in Nat, n \in M PROVE n + 1 \in M
  <2> SUFFICES ASSUME n + 1 <= Len(d) PROVE TreeOK(tree[n + 1], d)
    OBVIOUS
  <2>1. TreeOK(tree[n], d)
    BY <1>2, <1>4
  <2>2. n + 1 \in 1..Len(d) /\ (n + 1) - 1 = n
    BY <1>2
  <2>3. tree[n + 1] = Higher(tree[n])
    BY <1>1, <2>2
  <2> QED BY <2>1, <2>3, HigherOK
<1>5. Nat \subseteq M
  <2> HIDE DEF M
  <2> QED BY <1>3, <1>4, SetInduction, Zenon
<1>6. TreeOK(tree[Len(d)], d)
  BY <1>2, <1>5
<1> QED BY <1>1, <1>6

\* What RelayVerify and Block.Hash rely on: a path that leads from the hash of x to the
\* root of the tree which NewMerkleTree makes of d begins at a leaf, so x is among the
\* data, whatever the path.
THEOREM MerkleSound ==
    ASSUME NEW d, IsSeq(d), Len(d) >= 1, NEW x, NEW path, IsSeq(path),
           Walk(Hash(x), path) = Root(NewMerkleTree(d))
    PROVE  x \in ToSet(d)
<1> DEFINE T == NewMerkleTree(d)
           P == Len(path)
<1>1. TreeOK(T, d)
  BY MerkleTreeOK
<1> HIDE DEF T
<1>2. P \in Nat
  BY SeqFacts
<1>3. PICK h : /\ h[0] = Hash(x)
               /\ \A n \in 1..P : h[n] = Step(h[n - 1], path[n])
               /\ Walk(Hash(x), path) = h[P]
  BY WalkFacts
<1>4. InTree(T, h[P])
  <2>1. h[P] = T[Len(T)][1].data
    BY <1>3 DEF Root, Last, T
  <2>2. Len(T) \in DOMAIN T /\ 1 \in DOMAIN T[Len(T)]
    <3>1. Len(T) \in Nat /\ Len(T) >= 1 /\ DOMAIN T = 1..Len(T)
      BY <1>1, SeqFacts DEF TreeOK
    <3>2. Len(T) \in DOMAIN T
      BY <3>1
    <3>3. IsSeq(T[Len(T)]) /\ Len(T[Len(T)]) >= 1
      BY <1>1, <3>2 DEF TreeOK
    <3>4. Len(T[Len(T)]) \in Nat /\ DOMAIN T[Len(T)] = 1..Len(T[Len(T)])
      BY <3>3, SeqFacts
    <3> QED BY <3>2, <3>3, <3>4
  <2> QED BY <2>1, <2>2 DEF InTree
<1> HIDE DEF P
<1> DEFINE M == {n \in Nat : n <= P => InTree(T, h[P - n])}
<1>5. 0 \in M
  BY <1>2, <1>4
<1>6. ASSUME NEW n \in Nat, n \in M PROVE n + 1 \in M
  <2> SUFFICES ASSUME n + 1 <= P PROVE InTree(T, h[P - (n + 1)])
    OBVIOUS
  <2> DEFINE k == P - n
  <2>1. k \in 1..P /\ P - (n + 1) = k - 1
    BY <1>2
  <2>2. InTree(T, h[k])
    BY <1>2, <1>6
  <2> HIDE DEF k
  <2>3. h[k] = Step(h[k - 1], path[k])
    BY <1>3, <2>1
  <2>4. \E a, b : h[k] = Pair(a, b) /\ h[k - 1] \in {a, b}
    BY <2>3 DEF Step
  <2>5. PICK a, b : InTree(T, a) /\ InTree(T, b) /\ h[k] = Pair(a, b)
    <3>1. \A u, a, b : Hash(u) # Pair(a, b)
      BY HashFacts, Zenon
    <3>2. \A j \in DOMAIN d : h[k] # Hash(d[j])
      BY <2>4, <3>1, Zenon
    <3> QED BY <1>1, <2>2, <3>2, Zenon DEF TreeOK
  <2>6. h[k - 1] = a \/ h[k - 1] = b
    <3>1. PICK u, v : h[k] = Pair(u, v) /\ h[k - 1] \in {u, v}
      BY <2>4, Zenon
    <3>2. Pair(u, v) = Pair(a, b) => u = a /\ v = b
      BY HashFacts
    <3> QED BY <2>5, <3>1, <3>2
  <2> QED BY <2>1, <2>5, <2>6, Zenon
<1>7. Nat \subseteq M
  <2> HIDE DEF M
  <2> QED BY <1>5, <1>6, SetInduction, Zenon
<1>8. InTree(T, Hash(x))
  <2>1. P \in M
    <3> HIDE DEF M
    <3> QED BY <1>2, <1>7
  <2>2. InTree(T, h[P - P])
    BY <1>2, <2>1
  <2>3. P - P = 0
    BY <1>2
  <2> QED BY <1>3, <2>2, <2>3
<1>9. PICK j \in DOMAIN d : x = d[j]
  <2>1. \E j \in DOMAIN d : Hash(x) = Hash(d[j])
    <3>1. \A a, b : Hash(x) # Pair(a, b)
      BY HashFacts, Zenon
    <3> QED BY <1>1, <1>8, <3>1, Zenon DEF TreeOK
  <2>2. \A y : Hash(x) = Hash(y) => x = y
    BY HashFacts, Zenon
  <2> QED BY <2>1, <2>2, Zenon
<1> QED BY <1>9 DEF ToSet

LEMMA ConcatIsSeq ==
    ASSUME NEW L, NEW K, IsSeq(L), IsSeq(K)
    PROVE  IsSeq(L \o K)
<1> DEFINE S == {L[i] : i \in DOMAIN L} \cup {K[i] : i \in DOMAIN K}
           C == L \o K
<1>1. L \in Seq(S) /\ K \in Seq(S)
  BY DEF IsSeq
<1> HIDE DEF S
<1>2. C \in Seq(S)
  BY <1>1, ConcatProperties, Zenon
<1> QED BY <1>2, SeqOfAny

LEMMA FlattenIsSeq ==
    ASSUME NEW s, IsSeq(s), \A i \in DOMAIN s : IsSeq(s[i])
    PROVE  IsSeq(FlattenSeq(s))
<1> DEFINE N == Len(s)
           S == UNION {{s[i][j] : j \in DOMAIN s[i]} : i \in DOMAIN s}
           Fix(f) == [i \in 1..N |-> IF i = 1 THEN s[i] ELSE f[i - 1] \o s[i]]
           flatten == CHOOSE f : f = Fix(f)
<1>1. N \in Nat /\ DOMAIN s = 1..N
  BY SeqFacts
<1>2. \A i \in 1..N : s[i] \in Seq(S)
  <2> SUFFICES ASSUME NEW i \in 1..N PROVE s[i] \in Seq(S)
    OBVIOUS
  <2> DEFINE R == {s[i][j] : j \in DOMAIN s[i]}
  <2>1. s[i] \in Seq(R)
    BY <1>1 DEF IsSeq
  <2>2. R \subseteq S
    BY <1>1
  <2> HIDE DEF R, S
  <2> QED BY <2>1, <2>2
<1> HIDE DEF S
<1>3. CASE N = 0
  BY <1>3 DEF FlattenSeq
<1>4. CASE N # 0
  <2>1. FlattenSeq(s) = flatten[N]
    BY <1>4, Zenon DEF FlattenSeq
  <2>2. \E f : f = Fix(f)
    <3> DEFINE F == [n \in 1..N |-> [x \in Seq(S) |-> x \o s[n]]]
    <3>1. <<>> \in Seq(S)
      OBVIOUS
    <3>2. \A n \in 1..N : \A x \in Seq(S) : x \o s[n] \in Seq(S)
      BY <1>2, ConcatProperties, Zenon
    <3>3. F \in [1..N -> [Seq(S) -> Seq(S)]]
      BY <3>2, Zenon
    <3>4. PICK e \in [0..N -> Seq(S)] : e[0] = <<>> /\ \A n \in 1..N : e[n] = F[n][e[n - 1]]
      <4> HIDE DEF F, N
      <4>1. HasRun(Seq(S), <<>>, N, F)
        BY <1>1, <3>1, <3>3, Recursion, Zenon
      <4> QED BY <4>1 DEF HasRun
    <3>5. \A n \in 1..N : e[n - 1] \in Seq(S)
      BY <1>1
    <3>6. \A n \in 1..N : e[n] = e[n - 1] \o s[n]
      BY <3>4, <3>5, Zenon
    <3> DEFINE f == [n \in 1..N |-> e[n]]
    <3>7. f[1] = s[1]
      <4>1. 1 \in 1..N /\ 1 - 1 = 0
        BY <1>1, <1>4
      <4>2. e[1] = <<>> \o s[1]
        BY <3>4, <3>6, <4>1
      <4>3. s[1] \in Seq(S)
        BY <1>2, <4>1
      <4> QED BY <4>1, <4>2, <4>3
    <3>8. ASSUME NEW n \in 1..N, n # 1 PROVE f[n] = f[n - 1] \o s[n]
      <4>1. n - 1 \in 1..N
        BY <1>1, <3>8
      <4> QED BY <3>6, <4>1, Zenon
    <3>9. \A n \in 1..N : f[n] = IF n = 1 THEN s[n] ELSE f[n - 1] \o s[n]
      <4> HIDE DEF f
      <4> QED BY <3>7, <3>8, Zenon
    <3>10. f = Fix(f)
      BY <3>9, Zenon
    <3> HIDE DEF f, Fix
    <3> QED BY <3>10, Zenon
  <2>3. flatten = Fix(flatten)
    <3> HIDE DEF Fix
    <3> QED BY <2>2, Zenon
  <2> HIDE DEF flatten
  <2>4. \A n \in 1..N : flatten[n] = IF n = 1 THEN s[n] ELSE flatten[n - 1] \o s[n]
    BY <2>3, Zenon
  <2> DEFINE M == {n \in Nat : n + 1 <= N => flatten[n + 1] \in Seq(S)}
  <2>5. 0 \in M
    <3>1. 1 \in 1..N /\ 0 + 1 = 1
      BY <1>1, <1>4
    <3> QED BY <1>2, <2>4, <3>1
  <2>6. ASSUME NEW n \in Nat, n \in M PROVE n + 1 \in M
    <3> SUFFICES ASSUME (n + 1) + 1 <= N PROVE flatten[(n + 1) + 1] \in Seq(S)
      OBVIOUS
    <3>1. (n + 1) + 1 \in 1..N /\ (n + 1) + 1 # 1 /\ ((n + 1) + 1) - 1 = n + 1 /\ n + 1 <= N
      BY <1>1
    <3>2. flatten[n + 1] \in Seq(S)
      BY <2>6, <3>1
    <3>3. flatten[(n + 1) + 1] = flatten[n + 1] \o s[(n + 1) + 1]
      BY <2>4, <3>1
    <3> QED BY <1>2, <3>1, <3>2, <3>3, ConcatProperties, Zenon
  <2>7. Nat \subseteq M
    <3> HIDE DEF M
    <3> QED BY <2>5, <2>6, SetInduction, Zenon
  <2>8. flatten[N] \in Seq(S)
    <3>1. N - 1 \in Nat /\ (N - 1) + 1 = N
      BY <1>1, <1>4
    <3>2. N - 1 \in M
      <4> HIDE DEF M
      <4> QED BY <2>7, <3>1
    <3> QED BY <3>1, <3>2
  <2> QED BY <2>1, <2>8, SeqOfAny
<1> QED BY <1>3, <1>4, Zenon

LEMMA VisitIsSeq ==
    ASSUME NEW tree, IsSeq(tree), NEW index
    PROVE  Visit(tree, index) \in Seq(Int)
<1> DEFINE N == Len(tree)
           S == Seq(Int) \ {<<>>}
           Fix(f) == [n \in 0..N |-> IF n = 0 THEN <<1>> ELSE Deeper(tree, index, f[n - 1])]
           way == CHOOSE f : f = Fix(f)
<1>1. N \in Nat
  BY SeqFacts
<1>2. ASSUME NEW w \in S PROVE Deeper(tree, index, w) \in S
  <2>1. Last(w) \in Int
    BY DEF Last
  <2>2. \A k : Left(tree, k, Last(w)) \in Int /\ Right(tree, k, Last(w)) \in Int
    BY <2>1 DEF Left, Right
  <2>3. \A i \in Int : Append(w, i) \in S
    OBVIOUS
  <2>4. \E i \in Int : Deeper(tree, index, w) \in {w, Append(w, i)}
    <3> HIDE DEF S
    <3> QED BY <2>2 DEF Deeper
  <2> QED BY <2>3, <2>4
<1>3. <<1>> \in S
  OBVIOUS
<1> HIDE DEF S
<1>4. \E f : f = Fix(f)
  <2> DEFINE F == [n \in 1..N |-> [w \in S |-> Deeper(tree, index, w)]]
  <2>1. F \in [1..N -> [S -> S]]
    BY <1>2
  <2>2. PICK e \in [0..N -> S] : e[0] = <<1>> /\ \A n \in 1..N : e[n] = F[n][e[n - 1]]
    <3> HIDE DEF F, N
    <3>1. HasRun(S, <<1>>, N, F)
      BY <1>1, <1>3, <2>1, Recursion, Zenon
    <3> QED BY <3>1 DEF HasRun
  <2>3. \A n \in 1..N : e[n - 1] \in S
    BY <1>1
  <2>4. \A n \in 1..N : e[n] = Deeper(tree, index, e[n - 1])
    BY <2>2, <2>3, Zenon
  <2>5. \A n \in 0..N : e[n] = IF n = 0 THEN <<1>> ELSE Deeper(tree, index, e[n - 1])
    <3>1. \A n \in 0..N : n # 0 => n \in 1..N
      BY <1>1
    <3> QED BY <2>2, <2>4, <3>1, Zenon
  <2>6. e = [n \in 0..N |-> e[n]]
    BY <2>2
  <2>7. e = Fix(e)
    BY <2>5, <2>6, Zenon
  <2> HIDE DEF Fix
  <2> QED BY <2>7, Zenon
<1>5. Visit(tree, index) = way[N]
  BY Zenon DEF Visit
<1>6. way = Fix(way)
  <2> HIDE DEF Fix
  <2> QED BY <1>4, Zenon
<1> HIDE DEF way
<1>7. \A n \in 0..N : way[n] = IF n = 0 THEN <<1>> ELSE Deeper(tree, index, way[n - 1])
  BY <1>6, Zenon
<1> DEFINE M == {n \in Nat : n <= N => way[n] \in S}
<1>8. 0 \in M
  BY <1>1, <1>3, <1>7
<1>9. ASSUME NEW n \in Nat, n \in M PROVE n + 1 \in M
  <2> SUFFICES ASSUME n + 1 <= N PROVE way[n + 1] \in S
    OBVIOUS
  <2>1. n <= N /\ n + 1 \in 0..N /\ n + 1 # 0 /\ (n + 1) - 1 = n
    BY <1>1
  <2>2. way[n + 1] = Deeper(tree, index, way[n])
    BY <1>7, <2>1
  <2>3. way[n] \in S
    BY <1>9, <2>1
  <2> QED BY <1>2, <2>2, <2>3
<1>10. Nat \subseteq M
  <2> HIDE DEF M
  <2> QED BY <1>8, <1>9, SetInduction, Zenon
<1>11. way[N] \in S
  BY <1>1, <1>10
<1> QED BY <1>5, <1>11 DEF S

LEMMA PathIsSeq ==
    ASSUME NEW tree, IsSeq(tree), NEW index
    PROVE  IsSeq(FindPath(tree, index))
<1> DEFINE way == Visit(tree, index)
           k(n) == Len(tree) - n + 1
           l(n) == tree[k(n) - 1][Left(tree, k(n), way[n])]
           r(n) == tree[k(n) - 1][Right(tree, k(n), way[n])]
           beside(n) ==
               (IF index > l(n).r THEN <<[hash |-> l(n).data, left |-> TRUE]>> ELSE <<>>)
               \o (IF index < r(n).l THEN <<[hash |-> r(n).data, left |-> FALSE]>> ELSE <<>>)
           N == Len(way) - 1
           s == [n \in 1..N |-> beside(n)]
<1>1. FindPath(tree, index) = FlattenSeq(Reverse(s))
  BY DEF FindPath
<1>2. \A n : IsSeq(beside(n))
  <2>1. \A x : IsSeq(<<x>>)
    BY DEF IsSeq
  <2>2. IsSeq(<<>>)
    BY DEF IsSeq
  <2> HIDE DEF k, l, r
  <2> QED BY <2>1, <2>2, ConcatIsSeq, Zenon
<1>3. way \in Seq(Int)
  BY VisitIsSeq
<1> HIDE DEF way, beside
<1>4. N \in Int /\ N >= -1
  BY <1>3
<1>5. PICK K \in Nat : 1..N = 1..K
  <2>1. CASE N = -1
    BY <2>1
  <2>2. CASE N >= 0
    BY <1>4, <2>2
  <2> QED BY <1>4, <2>1, <2>2
<1> HIDE DEF N
<1>6. s = [n \in 1..K |-> s[n]] /\ \A n \in 1..K : s[n] = beside(n)
  BY <1>5
<1> HIDE DEF s
<1>7. IsSeq(s) /\ Len(s) = K
  BY <1>6, FunctionSeq
<1> DEFINE R == Reverse(s)
<1>8. R = [i \in 1..K |-> s[K - i + 1]]
  BY <1>7 DEF Reverse
<1> HIDE DEF R
<1>9. R = [i \in 1..K |-> R[i]]
  BY <1>8
<1>10. IsSeq(R) /\ DOMAIN R = 1..K
  BY <1>9, FunctionSeq
<1>11. \A i \in DOMAIN R : IsSeq(R[i])
  <2> SUFFICES ASSUME NEW i \in 1..K PROVE IsSeq(R[i])
    BY <1>10
  <2>1. K - i + 1 \in 1..K
    OBVIOUS
  <2>2. R[i] = beside(K - i + 1)
    BY <1>6, <1>8, <2>1
  <2> QED BY <1>2, <2>2
<1>12. IsSeq(FlattenSeq(R))
  BY <1>10, <1>11, FlattenIsSeq
<1> QED BY <1>1, <1>12 DEF R

-----------------------------------------------------------------------------
(* Blocks, chains and pools *)

LEMMA ConstFacts ==
    /\ Coinbase \subseteq Txn
    /\ \A t \in Txn : /\ Vout[t] \in Seq(DOMAIN GroupOf)
                      /\ \A i \in Outputs(t) : GroupOf[Vout[t][i]] \in Group
                      /\ Outputs(t) \subseteq Nat
    /\ \A c \in Coinbase : Base(c) \in Group /\ Outputs(c) = {1}
    /\ \A t \in Txn \ Coinbase : Source(t) \in Group
    /\ \A g \in Group : Genesis[g] \in Coinbase
    /\ MaxLost \in Nat
<1>1. Coinbase \subseteq Txn /\ MaxLost \in Nat
  BY RelayAssumption DEF Coinbase
<1>2. \A o \in DOMAIN GroupOf : GroupOf[o] \in Group
  BY RelayAssumption
<1>3. \A t \in Txn : Vout[t] \in Seq(DOMAIN GroupOf)
  BY RelayAssumption
<1>4. ASSUME NEW t \in Txn
      PROVE  /\ Outputs(t) = 1..Len(Vout[t]) /\ Len(Vout[t]) \in Nat
             /\ \A i \in Outputs(t) : Vout[t][i] \in DOMAIN GroupOf
  BY <1>3 DEF Outputs
<1>5. \A t \in Txn : Outputs(t) \subseteq Nat /\ \A i \in Outputs(t) : GroupOf[Vout[t][i]] \in Group
  BY <1>2, <1>4
<1>6. ASSUME NEW c \in Coinbase PROVE Base(c) \in Group /\ Outputs(c) = {1}
  <2>1. Len(Vout[c]) = 1 /\ c \in Txn
    BY RelayAssumption DEF Coinbase
  <2>2. Outputs(c) = {1}
    BY <1>4, <2>1
  <2> QED BY <1>5, <2>1, <2>2 DEF Base
<1>7. ASSUME NEW t \in Txn \ Coinbase PROVE Source(t) \in Group
  <2>1. Vin[t] # {}
    BY DEF Coinbase
  <2>2. PICK v \in Vin[t] : v = CHOOSE w \in Vin[t] : TRUE
    BY <2>1, Zenon
  <2>3. v.hash \in Txn /\ v.index \in Outputs(v.hash)
    BY RelayAssumption DEF Outputs
  <2>4. Source(t) = GroupOf[Vout[v.hash][v.index]]
    BY <2>2, Zenon DEF Source, OwnerOf
  <2> QED BY <1>5, <2>3, <2>4
<1>8. \A g \in Group : Genesis[g] \in Coinbase
  BY RelayAssumption DEF Coinbase
<1> QED BY <1>1, <1>3, <1>5, <1>6, <1>7, <1>8

\* What a pool may hold in what order.
LEMMA SequencesFacts ==
    ASSUME NEW P \in SUBSET Txn, IsFiniteSet(P), NEW ts \in Sequences(P)
    PROVE  ts \in Seq(Txn)
<1>1. PICK T \in SUBSET P : ts \in SetToSeqs(T)
  BY DEF Sequences
<1>2. Cardinality(T) \in Nat
  BY FS_Subset, FS_CardinalityType
<1>3. ts \in [1..Cardinality(T) -> T]
  BY <1>1 DEF SetToSeqs
<1> QED BY <1>2, <1>3

LEMMA BlockFacts ==
    ASSUME NEW c \in Txn, NEW ts \in Seq(Txn)
    PROVE  LET b == <<c>> \o ts
           IN  /\ b \in Seq(Txn) /\ Len(b) >= 1 /\ b[1] = c
               /\ ToSet(b) = {c} \cup ToSet(ts)
<1> DEFINE b == <<c>> \o ts
           n == Len(ts)
<1>1. <<c>> \in Seq(Txn) /\ Len(<<c>>) = 1 /\ <<c>>[1] = c /\ DOMAIN ts = 1..n /\ n \in Nat
  OBVIOUS
<1>2. /\ b \in Seq(Txn) /\ Len(b) = 1 + n
      /\ \A i \in 1..1 + n : b[i] = IF i <= 1 THEN <<c>>[i] ELSE ts[i - 1]
  BY <1>1, ConcatProperties
<1> HIDE DEF b, n
<1>3. DOMAIN b = 1..1 + n
  BY <1>1, <1>2
<1>4. b[1] = c /\ 1 \in DOMAIN b
  BY <1>1, <1>2, <1>3
<1>5. \A i \in DOMAIN ts : i + 1 \in DOMAIN b /\ b[i + 1] = ts[i]
  BY <1>1, <1>2, <1>3
<1>6. \A i \in DOMAIN b : i = 1 \/ (i - 1 \in DOMAIN ts /\ b[i] = ts[i - 1])
  BY <1>1, <1>2, <1>3
<1>7. ToSet(b) = {c} \cup ToSet(ts)
  <2>1. ASSUME NEW t \in ToSet(b) PROVE t \in {c} \cup ToSet(ts)
    BY <1>4, <1>6, <2>1 DEF ToSet
  <2>2. ASSUME NEW t \in ToSet(ts) PROVE t \in ToSet(b)
    BY <1>5, <2>2, Zenon DEF ToSet
  <2>3. c \in ToSet(b)
    BY <1>4, Zenon DEF ToSet
  <2> QED BY <2>1, <2>2, <2>3
<1> QED BY <1>1, <1>2, <1>4, <1>7 DEF b

LEMMA ConfirmedAppend ==
    ASSUME NEW c \in Seq(Seq(Txn)), NEW b \in Seq(Txn)
    PROVE  /\ Append(c, b) \in Seq(Seq(Txn)) /\ Len(Append(c, b)) = Len(c) + 1
           /\ DOMAIN Append(c, b) = 1..Len(c) + 1
           /\ \A i \in DOMAIN c : Append(c, b)[i] = c[i]
           /\ Append(c, b)[Len(c) + 1] = b
           /\ Confirmed(Append(c, b)) = Confirmed(c) \cup ToSet(b)
<1> DEFINE d == Append(c, b)
           n == Len(c)
<1>1. /\ n \in Nat /\ d \in Seq(Seq(Txn)) /\ Len(d) = n + 1 /\ DOMAIN c = 1..n
      /\ DOMAIN d = 1..n + 1 /\ d[n + 1] = b /\ \A i \in 1..n : d[i] = c[i]
  OBVIOUS
<1> HIDE DEF d, n
<1>2. \A i \in DOMAIN d : (i \in DOMAIN c /\ d[i] = c[i]) \/ (i = n + 1 /\ d[i] = b)
  BY <1>1
<1>3. n + 1 \in DOMAIN d /\ \A i \in DOMAIN c : i \in DOMAIN d /\ d[i] = c[i]
  BY <1>1
<1>4. Confirmed(d) = Confirmed(c) \cup ToSet(b)
  <2>1. ASSUME NEW t \in Confirmed(d) PROVE t \in Confirmed(c) \cup ToSet(b)
    BY <1>2, <2>1, Zenon DEF Confirmed
  <2>2. ASSUME NEW t \in Confirmed(c) PROVE t \in Confirmed(d)
    BY <1>3, <2>2, Zenon DEF Confirmed
  <2>3. ASSUME NEW t \in ToSet(b) PROVE t \in Confirmed(d)
    BY <1>1, <1>3, <2>3, Zenon DEF Confirmed
  <2> QED BY <2>1, <2>2, <2>3
<1> QED BY <1>1, <1>4 DEF d, n

LEMMA ConfirmedFacts ==
    ASSUME NEW c \in Seq(Seq(Txn))
    PROVE  /\ Confirmed(c) \subseteq Txn
           /\ \A i \in DOMAIN c : c[i] \in Seq(Txn) /\ ToSet(c[i]) \subseteq Confirmed(c)
<1>1. \A i \in DOMAIN c : c[i] \in Seq(Txn)
  OBVIOUS
<1>2. \A i \in DOMAIN c : ToSet(c[i]) \subseteq Txn
  BY <1>1 DEF ToSet
<1> QED BY <1>1, <1>2, Zenon DEF Confirmed

\* AddBlock leaves in the pool what was in it and nothing of the block.
LEMMA AfterBlockFacts ==
    ASSUME NEW P, IsFiniteSet(P), NEW confirmed, NEW b
    PROVE  AfterBlock(P, confirmed, b) \subseteq P
<1> DEFINE left == P \ ToSet(b)
           N == Cardinality(left)
           known(X) == confirmed \cup X
           Fix(f) == [n \in 0..N |-> IF n = 0 THEN {}
                                     ELSE LET k == confirmed \cup f[n - 1]
                                          IN  {t \in left : Parents(t) \subseteq k}]
           verify == CHOOSE f : f = Fix(f)
<1>1. N \in Nat
  <2>1. left \in SUBSET P
    OBVIOUS
  <2> HIDE DEF left
  <2> QED BY <2>1, FS_Subset, FS_CardinalityType
<1>2. AfterBlock(P, confirmed, b) = verify[N]
  BY Zenon DEF AfterBlock
<1>3. left \subseteq P
  OBVIOUS
<1> HIDE DEF left, N
<1>4. \E f : f = Fix(f)
  <2> DEFINE S == SUBSET left
             F == [n \in 1..N |-> [X \in S |-> {t \in left : Parents(t) \subseteq confirmed \cup X}]]
  <2>1. F \in [1..N -> [S -> S]]
    <3>1. \A X : {t \in left : Parents(t) \subseteq confirmed \cup X} \in S
      BY Zenon
    <3> HIDE DEF S
    <3> QED BY <3>1, Zenon
  <2>2. {} \in S
    OBVIOUS
  <2>3. HasRun(S, {}, N, F)
    <3> HIDE DEF F, S
    <3> QED BY <1>1, <2>1, <2>2, Recursion, Zenon
  <2>4. PICK e \in [0..N -> S] : e[0] = {} /\ \A n \in 1..N : e[n] = F[n][e[n - 1]]
    <3> HIDE DEF F, S
    <3> QED BY <2>3, Zenon DEF HasRun
  <2>5. \A n \in 1..N : n - 1 \in 0..N
    BY <1>1
  <2>6. \A n \in 1..N : e[n - 1] \in S
    <3> HIDE DEF S
    <3> QED BY <2>4, <2>5, Zenon
  <2>7. \A n \in 1..N : e[n] = {t \in left : Parents(t) \subseteq confirmed \cup e[n - 1]}
    <3> HIDE DEF S
    <3> QED BY <2>4, <2>6, Zenon
  <2>8. \A n \in 0..N : n # 0 => n \in 1..N
    BY <1>1
  <2>9. e = [n \in 0..N |-> e[n]]
    <3> HIDE DEF S
    <3> QED BY <2>4
  <2>10. e = Fix(e)
    <3>1. \A n \in 0..N : e[n] = IF n = 0 THEN {}
                                 ELSE {t \in left : Parents(t) \subseteq confirmed \cup e[n - 1]}
      BY <2>4, <2>7, <2>8, Zenon
    <3> QED BY <2>9, <3>1, Zenon
  <2> HIDE DEF Fix
  <2> QED BY <2>10, Zenon
<1>5. verify = Fix(verify)
  <2> HIDE DEF Fix
  <2> QED BY <1>4, Zenon
<1> HIDE DEF verify
<1>6. verify[N] = IF N = 0 THEN {}
                  ELSE {t \in left : Parents(t) \subseteq confirmed \cup verify[N - 1]}
  <2>1. N \in 0..N
    BY <1>1
  <2> QED BY <1>5, <2>1, Zenon
<1>7. verify[N] \subseteq left
  BY <1>6
<1> QED BY <1>2, <1>3, <1>7

-----------------------------------------------------------------------------
(* The UTXO set *)

UtxoSets == {u \in [Txn -> SUBSET Nat] : \A t \in Txn : u[t] \subseteq Outputs(t)}

LEMMA UpdateTxnType ==
    ASSUME NEW u \in UtxoSets, NEW t \in Txn
    PROVE  UpdateTxn(u, t) \in UtxoSets
<1> DEFINE w == UpdateTxn(u, t)
<1>1. \A p \in Txn : u[p] \subseteq Outputs(p) /\ Outputs(p) \subseteq Nat
  BY ConstFacts DEF UtxoSets
<1>2. \A p \in Txn : w[p] \subseteq Outputs(p) \cup u[p]
  BY DEF UpdateTxn
<1>3. w = [p \in Txn |-> w[p]]
  BY Zenon DEF UpdateTxn
<1> HIDE DEF w
<1>4. \A p \in Txn : w[p] \subseteq Outputs(p) /\ w[p] \in SUBSET Nat
  BY <1>1, <1>2
<1>5. w \in [Txn -> SUBSET Nat]
  BY <1>3, <1>4, Zenon
<1>6. w \in UtxoSets
  BY <1>4, <1>5, Zenon DEF UtxoSets
<1> QED BY <1>6 DEF w

\* What the recursive function of Updates computes.
LEMMA UpdatesFacts ==
    ASSUME NEW u \in UtxoSets, NEW b \in Seq(Txn)
    PROVE  /\ Updates(u, b)[0] = u
           /\ \A n \in 1..Len(b) : Updates(u, b)[n] = UpdateTxn(Updates(u, b)[n - 1], b[n])
           /\ \A n \in 0..Len(b) : Updates(u, b)[n] \in UtxoSets
<1> DEFINE N == Len(b)
           S == UtxoSets
           Fix(f) == [n \in 0..N |-> IF n = 0 THEN u ELSE UpdateTxn(f[n - 1], b[n])]
           after == CHOOSE f : f = Fix(f)
<1>1. N \in Nat /\ \A n \in 1..N : b[n] \in Txn
  OBVIOUS
<1>2. Updates(u, b) = after
  BY Zenon DEF Updates
<1> HIDE DEF N
<1>3. \E f : f = Fix(f)
  <2> DEFINE F == [n \in 1..N |-> [w \in S |-> UpdateTxn(w, b[n])]]
  <2>1. F \in [1..N -> [S -> S]]
    BY <1>1, UpdateTxnType, Zenon
  <2>2. HasRun(S, u, N, F)
    <3> HIDE DEF F
    <3> QED BY <1>1, <2>1, Recursion, Zenon
  <2>3. PICK e \in [0..N -> S] : e[0] = u /\ \A n \in 1..N : e[n] = F[n][e[n - 1]]
    <3> HIDE DEF F
    <3> QED BY <2>2, Zenon DEF HasRun
  <2>4. \A n \in 1..N : n - 1 \in 0..N
    BY <1>1
  <2>5. \A n \in 1..N : e[n] = UpdateTxn(e[n - 1], b[n])
    BY <2>3, <2>4, Zenon
  <2>6. \A n \in 0..N : n # 0 => n \in 1..N
    BY <1>1
  <2>7. e = [n \in 0..N |-> e[n]]
    BY <2>3
  <2>8. e = Fix(e)
    <3>1. \A n \in 0..N : e[n] = IF n = 0 THEN u ELSE UpdateTxn(e[n - 1], b[n])
      BY <2>3, <2>5, <2>6, Zenon
    <3> QED BY <2>7, <3>1, Zenon
  <2> HIDE DEF Fix
  <2> QED BY <2>8, Zenon
<1>4. after = Fix(after)
  <2> HIDE DEF Fix
  <2> QED BY <1>3, Zenon
<1> HIDE DEF after
<1>5. \A n \in 0..N : after[n] = IF n = 0 THEN u ELSE UpdateTxn(after[n - 1], b[n])
  BY <1>4, Zenon
<1>6. after[0] = u
  BY <1>1, <1>5
<1>7. \A n \in 1..N : after[n] = UpdateTxn(after[n - 1], b[n])
  <2>1. \A n \in 1..N : n \in 0..N /\ n # 0
    BY <1>1
  <2> QED BY <1>5, <2>1, Zenon
<1> DEFINE M == {n \in Nat : n <= N => after[n] \in S}
<1>8. 0 \in M
  BY <1>6
<1>9. ASSUME NEW n \in Nat, n \in M PROVE n + 1 \in M
  <2> SUFFICES ASSUME n + 1 <= N PROVE after[n + 1] \in S
    OBVIOUS
  <2>1. n <= N /\ n + 1 \in 1..N /\ (n + 1) - 1 = n
    BY <1>1
  <2>2. after[n + 1] = UpdateTxn(after[n], b[n + 1])
    BY <1>7, <2>1
  <2>3. after[n] \in S
    BY <1>9, <2>1
  <2> QED BY <1>1, <2>1, <2>2, <2>3, UpdateTxnType, Zenon
<1>10. Nat \subseteq M
  <2> HIDE DEF M
  <2> QED BY <1>8, <1>9, SetInduction, Zenon
<1>11. \A n \in 0..N : after[n] \in S
  BY <1>1, <1>10
<1> QED BY <1>2, <1>6, <1>7, <1>11 DEF N

LEMMA FindUTXOType == \A c : FindUTXO(c) \in UtxoSets
<1> SUFFICES ASSUME NEW c PROVE FindUTXO(c) \in UtxoSets
  BY Zenon
<1> DEFINE w == FindUTXO(c)
<1>1. \A t \in Txn : w[t] \subseteq Outputs(t)
  BY DEF FindUTXO
<1>2. w = [t \in Txn |-> w[t]]
  BY Zenon DEF FindUTXO
<1>3. \A t \in Txn : Outputs(t) \subseteq Nat
  BY ConstFacts
<1> HIDE DEF w
<1>4. \A t \in Txn : w[t] \in SUBSET Nat
  BY <1>1, <1>3
<1>5. w \in UtxoSets
  BY <1>1, <1>2, <1>4, Zenon DEF UtxoSets
<1> QED BY <1>5 DEF w

LEMMA UpdateType ==
    ASSUME NEW u \in UtxoSets, NEW b \in Seq(Txn), NEW g, NEW c
    PROVE  Update(g, u, b, c) \in UtxoSets
<1>1. Len(b) \in 0..Len(b)
  OBVIOUS
<1>2. Updates(u, b)[Len(b)] \in UtxoSets
  BY <1>1, UpdatesFacts
<1> QED BY <1>2, FindUTXOType, Zenon DEF Update

Spent(C, t, i) == \E s \in C : \E v \in Vin[s] : v.hash = t /\ v.index = i

\* The coins that the transactions C have given owners of group g are spent by them or
\* in u.
Kept(g, C, spenders, u) ==
    \A t \in C : \A i \in Outputs(t) :
        GroupOf[Vout[t][i]] = g => Spent(spenders, t, i) \/ i \in u[t]

\* A rebuilt set has every coin that nothing in the chain spends.
LEMMA FindUTXOKept ==
    ASSUME NEW c \in Seq(Seq(Txn)), NEW g
    PROVE  Kept(g, Confirmed(c), Confirmed(c), FindUTXO(c))
<1> SUFFICES ASSUME NEW t \in Confirmed(c), NEW i \in Outputs(t), ~Spent(Confirmed(c), t, i)
             PROVE  i \in FindUTXO(c)[t]
  BY Zenon DEF Kept
<1>1. t \in Txn
  BY ConfirmedFacts
<1>2. PICK k \in DOMAIN c : \E j \in DOMAIN c[k] : t = c[k][j]
  BY Zenon DEF Confirmed, ToSet
<1>3. PICK j \in DOMAIN c[k] : t = c[k][j]
  BY <1>2
<1>4. \A m \in DOMAIN c : \A n \in DOMAIN c[m] : c[m][n] \in Confirmed(c)
  <2>1. \A m \in DOMAIN c : ToSet(c[m]) \subseteq Confirmed(c)
    BY ConfirmedFacts
  <2>2. \A m : \A n \in DOMAIN c[m] : c[m][n] \in ToSet(c[m])
    BY Zenon DEF ToSet
  <2> QED BY <2>1, <2>2
<1>5. ~SeenBefore(c, k, j, t, i)
  BY <1>4, Zenon DEF SeenBefore, Spent
<1> QED BY <1>1, <1>3, <1>5, Zenon DEF FindUTXO

\* One transaction takes only the coins that it names: their owners have one output
\* of a transaction each.
LEMMA UpdateTxnKept ==
    ASSUME NEW u \in UtxoSets, NEW t \in Txn, NEW C \in SUBSET Txn, NEW spenders, t \in spenders,
           NEW g, Kept(g, C, spenders, u)
    PROVE  Kept(g, C \cup {t}, spenders, UpdateTxn(u, t))
<1> SUFFICES ASSUME NEW p \in C \cup {t}, NEW i \in Outputs(p), GroupOf[Vout[p][i]] = g,
                    ~Spent(spenders, p, i)
             PROVE  i \in UpdateTxn(u, t)[p]
  BY Zenon DEF Kept
<1>1. CASE p = t
  BY <1>1 DEF UpdateTxn
<1>2. CASE p # t
  <2>1. p \in Txn /\ p \in C
    BY <1>2
  <2>2. i \in u[p]
    BY <2>1, Zenon DEF Kept
  <2>3. ASSUME NEW v \in Vin[t], v.hash = p, Vout[p][i] = OwnerOf(v) PROVE FALSE
    <3>1. v.index \in DOMAIN Vout[p] /\ Vout[p][i] = Vout[p][v.index]
      BY <2>3, RelayAssumption DEF OwnerOf
    <3>2. i = v.index
      BY <2>1, <3>1, RelayAssumption, Zenon DEF Outputs
    <3> QED BY <2>3, <3>2, Zenon DEF Spent
  <2>4. UpdateTxn(u, t)[p] =
            {k \in u[p] : ~\E v \in Vin[t] : v.hash = p /\ Vout[p][k] = OwnerOf(v)}
    BY <1>2, <2>1, Zenon DEF UpdateTxn
  <2> QED BY <2>2, <2>3, <2>4, Zenon
<1> QED BY <1>1, <1>2

LEMMA UpdateKept ==
    ASSUME NEW g, NEW u \in UtxoSets, NEW b \in Seq(Txn), NEW c \in Seq(Seq(Txn)),
           NEW old \in SUBSET Txn, Confirmed(c) = old \cup ToSet(b), Kept(g, old, old, u)
    PROVE  Kept(g, Confirmed(c), Confirmed(c), Update(g, u, b, c))
<1> DEFINE after == Updates(u, b)
           N == Len(b)
           C == Confirmed(c)
           Done(n) == old \cup {b[j] : j \in 1..n}
<1>1. /\ after[0] = u
      /\ \A n \in 1..N : after[n] = UpdateTxn(after[n - 1], b[n])
      /\ \A n \in 0..N : after[n] \in UtxoSets
  BY UpdatesFacts
<1>2. N \in Nat /\ DOMAIN b = 1..N /\ \A n \in 1..N : b[n] \in Txn
  OBVIOUS
<1>3. Update(g, u, b, c) = FindUTXO(c) \/ Update(g, u, b, c) = after[N]
  BY Zenon DEF Update
<1> HIDE DEF after, N
<1>4. C = Done(N) /\ C \subseteq Txn /\ \A n \in 1..N : b[n] \in C
  <2>1. ToSet(b) = {b[j] : j \in 1..N}
    BY <1>2 DEF ToSet
  <2>2. C = Done(N)
    BY <2>1
  <2>3. C \subseteq Txn
    BY ConfirmedFacts
  <2>4. \A n \in 1..N : b[n] \in Done(N)
    BY <1>2
  <2> QED BY <2>2, <2>3, <2>4
<1> HIDE DEF C
<1> DEFINE M == {n \in Nat : n <= N => Kept(g, Done(n), C, after[n])}
<1>5. 0 \in M
  <2>1. Done(0) = old
    OBVIOUS
  <2>2. Kept(g, old, C, u)
    <3>1. old \subseteq C
      BY DEF C
    <3>2. \A t, i : Spent(old, t, i) => Spent(C, t, i)
      BY <3>1, Zenon DEF Spent
    <3> QED BY <3>2, Zenon DEF Kept
  <2> HIDE DEF Done
  <2> QED BY <1>1, <2>1, <2>2
<1>6. ASSUME NEW n \in Nat, n \in M PROVE n + 1 \in M
  <2> SUFFICES ASSUME n + 1 <= N PROVE Kept(g, Done(n + 1), C, after[n + 1])
    OBVIOUS
  <2>1. n <= N /\ n \in 0..N /\ n + 1 \in 1..N /\ (n + 1) - 1 = n
    BY <1>2
  <2>2. Kept(g, Done(n), C, after[n])
    BY <1>6, <2>1
  <2>3. after[n + 1] = UpdateTxn(after[n], b[n + 1])
    BY <1>1, <2>1
  <2>4. after[n] \in UtxoSets /\ b[n + 1] \in Txn /\ b[n + 1] \in C
    BY <1>1, <1>2, <1>4, <2>1
  <2>5. Done(n + 1) = Done(n) \cup {b[n + 1]}
    BY <1>2, <2>1
  <2>6. Done(n) \in SUBSET Txn
    BY <1>2, <2>1
  <2> HIDE DEF Done
  <2> QED BY <2>2, <2>3, <2>4, <2>5, <2>6, UpdateTxnKept
<1>7. Nat \subseteq M
  <2> HIDE DEF M
  <2> QED BY <1>5, <1>6, SetInduction, Zenon
<1>8. Kept(g, C, C, after[N])
  <2>1. N \in M
    <3> HIDE DEF M
    <3> QED BY <1>2, <1>7
  <2>2. Kept(g, Done(N), C, after[N])
    BY <1>2, <2>1
  <2> HIDE DEF Done
  <2> QED BY <1>4, <2>2
<1>9. Kept(g, C, C, FindUTXO(c))
  BY FindUTXOKept DEF C
<1> QED BY <1>3, <1>8, <1>9 DEF C

-----------------------------------------------------------------------------
(* The inductive invariant *)

\* A message is about a payment, and has a path; that it tells the truth is not
\* assumed.
MessagesInv ==
    \A m \in messages : m.fromGroup \in Group /\ m.txn \notin Coinbase /\ IsSeq(m.path)

\* No block is empty and no pool infinite.
SizesInv ==
    \A g \in Group : /\ IsFiniteSet(pool[g])
                     /\ \A i \in DOMAIN chain[g] : Len(chain[g][i]) >= 1

IInv == TypeOK /\ MessagesInv /\ SizesInv /\ RelayedIsConfirmed /\ CoinsArrive

LEMMA RelayTxnsFacts ==
    ASSUME NEW c \in Coinbase, NEW ts \in Seq(Txn), ToSet(ts) \subseteq Txn \ Coinbase, NEW height
    PROVE  \A m \in RelayTxns(<<c>> \o ts, height) :
               /\ m.toGroup \in Group /\ m.fromGroup \in Group /\ m.fromGroup # m.toGroup
               /\ m.txn \in Txn \ Coinbase
               /\ IsSeq(m.path)
<1> DEFINE b == <<c>> \o ts
           base == Base(c)
           message(i, to) == [fromGroup |-> base, toGroup |-> to, height |-> height,
                              path |-> FindPath(NewMerkleTree(b), i - 1), txn |-> b[i]]
<1>1. c \in Txn
  BY ConstFacts
<1>2. b \in Seq(Txn) /\ Len(b) >= 1 /\ b[1] = c /\ ToSet(b) = {c} \cup ToSet(ts)
  BY <1>1, BlockFacts
<1> HIDE DEF b
<1>3. IsSeq(b)
  BY <1>2, SeqOfAny
<1>4. IsSeq(NewMerkleTree(b))
  BY <1>2, <1>3, MerkleTreeOK DEF TreeOK
<1>5. \A i : IsSeq(FindPath(NewMerkleTree(b), i - 1))
  BY <1>4, PathIsSeq
<1> SUFFICES ASSUME NEW m \in RelayTxns(b, height)
             PROVE  /\ m.toGroup \in Group /\ m.fromGroup \in Group /\ m.fromGroup # m.toGroup
                    /\ m.txn \in Txn \ Coinbase
                    /\ IsSeq(m.path)
  BY DEF b
<1>6. PICK i \in DOMAIN b : \E to \in RelayGroups(b[i], base) : m = message(i, to)
  BY <1>2 DEF RelayTxns
<1>7. PICK to \in RelayGroups(b[i], base) : m = message(i, to)
  BY <1>6
<1>8. b[i] \in {c} \cup ToSet(ts)
  BY <1>2 DEF ToSet
<1>9. base \in Group
  BY ConstFacts
<1>10. to \in Targets(b[i]) /\ to # base
  BY <1>7 DEF RelayGroups
<1>11. b[i] # c
  <2>1. Targets(c) = {base}
    BY ConstFacts DEF Targets, Base, Outputs
  <2> QED BY <1>10, <2>1
<1>12. b[i] \in Txn \ Coinbase
  BY <1>8, <1>11
<1>13. to \in Group
  BY <1>10, <1>12, ConstFacts DEF Targets, Outputs
<1>14. /\ m.toGroup = to /\ m.fromGroup = base /\ m.txn = b[i]
       /\ m.path = FindPath(NewMerkleTree(b), i - 1)
  BY <1>7
<1> QED BY <1>5, <1>9, <1>10, <1>12, <1>13, <1>14

LEMMA TypeFacts ==
    ASSUME TypeOK
    PROVE  /\ chain \in [Group -> Seq(Seq(Txn))]
           /\ utxo \in [Group -> UtxoSets]
           /\ pool \in [Group -> SUBSET (Txn \ Coinbase)]
           /\ \A g \in Group : chain[g] \in Seq(Seq(Txn)) /\ Confirmed(chain[g]) \subseteq Txn
<1>1. \A g \in Group : utxo[g] \in [Txn -> SUBSET Nat]
  BY Zenon DEF TypeOK
<1>2. \A g \in Group : utxo[g] \in UtxoSets
  BY <1>1, Zenon DEF TypeOK, UtxoSets
<1>3. utxo = [g \in Group |-> utxo[g]]
  BY Zenon DEF TypeOK
<1>4. utxo \in [Group -> UtxoSets]
  BY <1>2, <1>3, Zenon
<1>5. \A g \in Group : chain[g] \in Seq(Seq(Txn))
  BY Zenon DEF TypeOK
<1>6. \A g \in Group : Confirmed(chain[g]) \subseteq Txn
  BY <1>5, ConfirmedFacts
<1> QED BY <1>4, <1>5, <1>6 DEF TypeOK

LEMMA InitIInv == Init => IInv
<1> SUFFICES ASSUME Init PROVE IInv
  OBVIOUS
<1>1. \A g \in Group : Genesis[g] \in Coinbase /\ Genesis[g] \in Txn
  BY ConstFacts
<1> DEFINE u(g) == [t \in Txn |-> IF t = Genesis[g] THEN Outputs(t) ELSE {}]
<1>2. \A g \in Group :
         /\ chain[g] = <<<<Genesis[g]>>>> /\ chain[g] \in Seq(Seq(Txn))
         /\ DOMAIN chain[g] = {1} /\ chain[g][1] = <<Genesis[g]>>
         /\ Len(chain[g][1]) = 1
         /\ Confirmed(chain[g]) = {Genesis[g]}
  <2> SUFFICES ASSUME NEW g \in Group
               PROVE  /\ chain[g] = <<<<Genesis[g]>>>> /\ chain[g] \in Seq(Seq(Txn))
                      /\ DOMAIN chain[g] = {1} /\ chain[g][1] = <<Genesis[g]>>
                      /\ Len(chain[g][1]) = 1
                      /\ Confirmed(chain[g]) = {Genesis[g]}
    OBVIOUS
  <2>1. chain[g] = <<<<Genesis[g]>>>>
    BY DEF Init
  <2>2. <<Genesis[g]>> \in Seq(Txn) /\ Len(<<Genesis[g]>>) = 1
    BY <1>1
  <2>3. ToSet(<<Genesis[g]>>) = {Genesis[g]}
    BY DEF ToSet
  <2> DEFINE b == <<Genesis[g]>>
  <2> HIDE DEF b
  <2>4. DOMAIN <<b>> = {1} /\ <<b>>[1] = b
    OBVIOUS
  <2>5. b \in Seq(Txn) => <<b>> \in Seq(Seq(Txn))
    OBVIOUS
  <2>6. Confirmed(<<b>>) = ToSet(b)
    BY <2>4 DEF Confirmed
  <2> QED BY <2>1, <2>2, <2>3, <2>4, <2>5, <2>6 DEF b
<1>3. utxo = [g \in Group |-> u(g)] /\ pool = [g \in Group |-> {}] /\ messages = {}
      /\ mined = {Genesis[g] : g \in Group} /\ lost = 0
  BY DEF Init
<1>4. chain \in [Group -> Seq(Seq(Txn))]
  <2>1. chain = [g \in Group |-> chain[g]]
    BY DEF Init
  <2> QED BY <1>2, <2>1, Zenon
<1>5. \A g \in Group : u(g) \in [Txn -> SUBSET Nat]
  <2>1. \A g, t : t \in Txn => (IF t = Genesis[g] THEN Outputs(t) ELSE {}) \in SUBSET Nat
    BY ConstFacts
  <2> QED BY <2>1, Zenon
<1>6. utxo \in [Group -> [Txn -> SUBSET Nat]]
  <2> HIDE DEF u
  <2> QED BY <1>3, <1>5, Zenon
<1>7. \A g \in Group : \A t \in Txn : utxo[g][t] = IF t = Genesis[g] THEN Outputs(t) ELSE {}
  BY <1>3, Zenon
<1>8. \A g \in Group : \A t \in Txn : utxo[g][t] \subseteq Outputs(t)
  BY <1>7
<1>9. mined \subseteq Coinbase /\ lost \in 0..MaxLost
  BY <1>1, <1>3, ConstFacts
<1>10. TypeOK
  BY <1>3, <1>4, <1>6, <1>8, <1>9 DEF TypeOK
<1>11. SizesInv
  BY <1>2, <1>3, FS_EmptySet DEF SizesInv
<1>12. RelayedIsConfirmed
  BY <1>1, <1>2, <1>3 DEF RelayedIsConfirmed
<1>13. CoinsArrive
  <2> SUFFICES ASSUME NEW g \in Group, NEW t \in Confirmed(chain[g]), NEW i \in Outputs(t)
               PROVE  i \in utxo[g][t]
    BY Zenon DEF CoinsArrive
  <2>1. t = Genesis[g] /\ t \in Txn
    BY <1>1, <1>2
  <2> QED BY <1>7, <2>1
<1> QED BY <1>3, <1>10, <1>11, <1>12, <1>13 DEF IInv, MessagesInv

-----------------------------------------------------------------------------
(* The steps *)

LEMMA GossipTxnStep ==
    ASSUME IInv, NEW t \in Txn \ Coinbase, GossipTxn(t)
    PROVE  IInv'
<1> DEFINE g == Source(t)
<1>1. g \in Group
  BY ConstFacts
<1>2. pool \in [Group -> SUBSET (Txn \ Coinbase)]
  BY TypeFacts DEF IInv
<1>3. pool' = [pool EXCEPT ![g] = @ \cup {t}] /\ UNCHANGED <<chain, utxo, messages, mined, lost>>
  BY DEF GossipTxn
<1> HIDE DEF g
<1>4. /\ pool' \in [Group -> SUBSET (Txn \ Coinbase)]
      /\ \A h \in Group : pool'[h] = IF h = g THEN pool[h] \cup {t} ELSE pool[h]
  BY <1>1, <1>2, <1>3
<1>5. TypeOK' /\ MessagesInv'
  BY <1>3, <1>4, Zenon DEF IInv, TypeOK, MessagesInv
<1>6. SizesInv'
  BY <1>3, <1>4, FS_AddElement DEF IInv, SizesInv
<1>7. RelayedIsConfirmed'
  <2> SUFFICES ASSUME NEW h \in Group,
                      NEW s \in (pool'[h] \cup Confirmed(chain'[h])) \ Coinbase
               PROVE  Source(s) = h \/ s \in Confirmed(chain'[Source(s)])
    BY DEF RelayedIsConfirmed
  <2>1. CASE s \in pool[h] \cup Confirmed(chain[h])
    BY <1>3, <2>1, Zenon DEF IInv, RelayedIsConfirmed
  <2>2. CASE s = t /\ h = g
    BY <2>2 DEF g
  <2> QED BY <1>3, <1>4, <2>1, <2>2, Zenon
<1>8. CoinsArrive'
  BY <1>3, Zenon DEF IInv, CoinsArrive, SpentIn
<1> QED BY <1>5, <1>6, <1>7, <1>8 DEF IInv

\* The head that a proof refers to is one of the main chain, so that the payment is in
\* a block of the group named, and what holds there carries over.
LEMMA GossipRelayTxnStep ==
    ASSUME IInv, NEW m \in messages, GossipRelayTxn(m)
    PROVE  IInv'
<1> DEFINE g == m.toGroup
           t == m.txn
           from == m.fromGroup
<1>1. g \in Group /\ from \in Group /\ t \in Txn \ Coinbase /\ IsSeq(m.path)
  BY DEF IInv, TypeOK, MessagesInv
<1>2. pool \in [Group -> SUBSET (Txn \ Coinbase)] /\ chain[from] \in Seq(Seq(Txn))
  BY <1>1, TypeFacts DEF IInv
<1>3. pool' = [pool EXCEPT ![g] = @ \cup {t}] /\ UNCHANGED <<chain, utxo, messages, mined, lost>>
  BY DEF GossipRelayTxn
<1>4. PICK k \in DOMAIN chain[from] :
          Walk(Hash(t), m.path) = Root(NewMerkleTree(chain[from][k]))
  BY DEF GossipRelayTxn, Proved, RelayVerify, MerkleRoot
<1> HIDE DEF g, t, from
<1>5. t \in Confirmed(chain[from])
  <2>1. chain[from][k] \in Seq(Txn) /\ ToSet(chain[from][k]) \subseteq Confirmed(chain[from])
    BY <1>2, ConfirmedFacts
  <2>2. IsSeq(chain[from][k])
    BY <2>1, SeqOfAny
  <2>3. Len(chain[from][k]) >= 1
    BY <1>1 DEF IInv, SizesInv
  <2>4. t \in ToSet(chain[from][k])
    BY <1>1, <1>4, <2>2, <2>3, MerkleSound
  <2> QED BY <2>1, <2>4
<1>6. Source(t) = from \/ t \in Confirmed(chain[Source(t)])
  BY <1>1, <1>5 DEF IInv, RelayedIsConfirmed
<1>7. t \in Confirmed(chain[Source(t)])
  BY <1>5, <1>6
<1>8. /\ pool' \in [Group -> SUBSET (Txn \ Coinbase)]
      /\ \A h \in Group : pool'[h] = IF h = g THEN pool[h] \cup {t} ELSE pool[h]
  BY <1>1, <1>2, <1>3
<1>9. TypeOK' /\ MessagesInv'
  BY <1>3, <1>8, Zenon DEF IInv, TypeOK, MessagesInv
<1>10. SizesInv'
  BY <1>3, <1>8, FS_AddElement DEF IInv, SizesInv
<1>11. RelayedIsConfirmed'
  <2> SUFFICES ASSUME NEW h \in Group,
                      NEW s \in (pool'[h] \cup Confirmed(chain'[h])) \ Coinbase
               PROVE  Source(s) = h \/ s \in Confirmed(chain'[Source(s)])
    BY DEF RelayedIsConfirmed
  <2>1. CASE s \in pool[h] \cup Confirmed(chain[h])
    BY <1>3, <2>1, Zenon DEF IInv, RelayedIsConfirmed
  <2>2. CASE s = t
    BY <1>3, <1>7, <2>2, Zenon
  <2> QED BY <1>3, <1>8, <2>1, <2>2, Zenon
<1>12. CoinsArrive'
  BY <1>3, Zenon DEF IInv, CoinsArrive, SpentIn
<1> QED BY <1>9, <1>10, <1>11, <1>12 DEF IInv

LEMMA MinedFacts ==
    ASSUME IInv, NEW g \in Group, NEW c \in Coinbase, NEW ts \in Sequences(pool[g]), Packable(g, ts)
    PROVE  /\ c \in Txn /\ ts \in Seq(Txn) /\ ToSet(ts) \subseteq pool[g]
           /\ ToSet(ts) \subseteq Txn \ Coinbase
<1>1. pool[g] \in SUBSET (Txn \ Coinbase)
  BY TypeFacts DEF IInv
<1>2. IsFiniteSet(pool[g])
  BY DEF IInv, SizesInv
<1>3. pool[g] \in SUBSET Txn
  BY <1>1
<1>4. ts \in Seq(Txn)
  BY <1>2, <1>3, SequencesFacts
<1>5. ToSet(ts) \subseteq pool[g]
  BY DEF Packable
<1> QED BY <1>1, <1>4, <1>5, ConstFacts

LEMMA MineInVainStep ==
    ASSUME IInv, NEW g \in Group, NEW c \in Coinbase, NEW ts \in Sequences(pool[g]),
           MineInVain(g, c, ts)
    PROVE  IInv'
<1> DEFINE new == RelayTxns(<<c>> \o ts, Len(chain[g]))
<1>1. /\ messages' = messages \cup new /\ mined' = mined \cup {c} /\ lost' = lost + 1
      /\ lost < MaxLost /\ UNCHANGED <<chain, utxo, pool>> /\ Packable(g, ts)
  BY DEF MineInVain
<1>2. \A m \in new : /\ m.toGroup \in Group /\ m.fromGroup \in Group /\ m.fromGroup # m.toGroup
                     /\ m.txn \in Txn \ Coinbase /\ IsSeq(m.path)
  BY <1>1, MinedFacts, RelayTxnsFacts
<1> HIDE DEF new
<1>3. \A m \in messages' : m \in messages \/ m \in new
  BY <1>1
<1>4. lost' \in 0..MaxLost /\ mined' \subseteq Coinbase
  BY <1>1, ConstFacts DEF IInv, TypeOK
<1>5. \A m \in messages' : m.toGroup \in Group /\ m.txn \in Txn /\ m.fromGroup # m.toGroup
  BY <1>2, <1>3 DEF IInv, TypeOK
<1>6. TypeOK'
  BY <1>1, <1>4, <1>5, Zenon DEF IInv, TypeOK
<1>7. MessagesInv'
  <2>1. \A m \in messages : m.fromGroup \in Group /\ m.txn \notin Coinbase /\ IsSeq(m.path)
    BY DEF IInv, MessagesInv
  <2>2. \A m \in messages' : m.fromGroup \in Group /\ m.txn \notin Coinbase /\ IsSeq(m.path)
    BY <1>2, <1>3, <2>1
  <2> QED BY <2>2 DEF MessagesInv
<1>8. SizesInv' /\ RelayedIsConfirmed' /\ CoinsArrive'
  BY <1>1, Zenon DEF IInv, SizesInv, RelayedIsConfirmed, CoinsArrive, SpentIn
<1> QED BY <1>6, <1>7, <1>8 DEF IInv

LEMMA MineBlockStep ==
    ASSUME IInv, NEW g \in Group, NEW c \in Coinbase, NEW ts \in Sequences(pool[g]),
           MineBlock(g, c, ts)
    PROVE  IInv'
<1> DEFINE b == <<c>> \o ts
           d == Append(chain[g], b)
           new == RelayTxns(b, Len(d) - 1)
           u == Update(g, utxo[g], b, d)
           p == AfterBlock(pool[g], Confirmed(d), b)
<1>1. /\ Packable(g, ts)
      /\ chain' = [chain EXCEPT ![g] = d] /\ utxo' = [utxo EXCEPT ![g] = u]
      /\ pool' = [pool EXCEPT ![g] = p]
      /\ messages' = messages \cup new /\ mined' = mined \cup {c} /\ UNCHANGED lost
  BY DEF MineBlock
<1>2. c \in Txn /\ ts \in Seq(Txn) /\ ToSet(ts) \subseteq pool[g] /\ ToSet(ts) \subseteq Txn \ Coinbase
  BY <1>1, MinedFacts
<1>3. \A m \in new : /\ m.toGroup \in Group /\ m.fromGroup \in Group /\ m.fromGroup # m.toGroup
                     /\ m.txn \in Txn \ Coinbase /\ IsSeq(m.path)
  BY <1>2, RelayTxnsFacts
<1> HIDE DEF new
<1>4. b \in Seq(Txn) /\ Len(b) >= 1 /\ ToSet(b) = {c} \cup ToSet(ts)
  BY <1>2, BlockFacts
<1> HIDE DEF b
<1>5. /\ chain \in [Group -> Seq(Seq(Txn))] /\ utxo \in [Group -> UtxoSets]
      /\ pool \in [Group -> SUBSET (Txn \ Coinbase)]
      /\ chain[g] \in Seq(Seq(Txn)) /\ utxo[g] \in UtxoSets /\ Confirmed(chain[g]) \subseteq Txn
  <2>1. /\ chain \in [Group -> Seq(Seq(Txn))] /\ utxo \in [Group -> UtxoSets]
        /\ pool \in [Group -> SUBSET (Txn \ Coinbase)]
        /\ chain[g] \in Seq(Seq(Txn)) /\ Confirmed(chain[g]) \subseteq Txn
    BY TypeFacts DEF IInv
  <2> QED BY <2>1, Zenon
<1>6. /\ d \in Seq(Seq(Txn)) /\ DOMAIN d = 1..Len(chain[g]) + 1
      /\ \A i \in DOMAIN chain[g] : d[i] = chain[g][i]
      /\ d[Len(chain[g]) + 1] = b
      /\ Confirmed(d) = Confirmed(chain[g]) \cup ToSet(b)
  BY <1>4, <1>5, ConfirmedAppend
<1>7. DOMAIN chain[g] = 1..Len(chain[g]) /\ Len(chain[g]) \in Nat
  BY <1>5
<1>8. p \subseteq pool[g]
  BY AfterBlockFacts DEF IInv, SizesInv
<1>9. u \in UtxoSets
  BY <1>4, <1>5, UpdateType
<1> HIDE DEF d, u, p
<1>10. /\ \A h \in Group : chain'[h] = IF h = g THEN d ELSE chain[h]
       /\ \A h \in Group : utxo'[h] = IF h = g THEN u ELSE utxo[h]
       /\ \A h \in Group : pool'[h] = IF h = g THEN p ELSE pool[h]
  BY <1>1, <1>5
<1>11. chain' \in [Group -> Seq(Seq(Txn))] /\ utxo' \in [Group -> UtxoSets]
  BY <1>1, <1>5, <1>6, <1>9, Zenon
<1>12. TypeOK'
  <2>1. utxo' \in [Group -> [Txn -> SUBSET Nat]]
    <3>1. UtxoSets \subseteq [Txn -> SUBSET Nat]
      BY DEF UtxoSets
    <3> QED BY <1>11, <3>1, Zenon
  <2>2. \A h \in Group, t \in Txn : utxo'[h][t] \subseteq Outputs(t)
    BY <1>11, Zenon DEF UtxoSets
  <2>3. pool' \in [Group -> SUBSET (Txn \ Coinbase)]
    <3>1. p \in SUBSET (Txn \ Coinbase)
      BY <1>5, <1>8
    <3> QED BY <1>1, <1>5, <3>1, Zenon
  <2>4. \A m \in messages' : m.toGroup \in Group /\ m.txn \in Txn /\ m.fromGroup # m.toGroup
    BY <1>1, <1>3 DEF IInv, TypeOK
  <2>5. mined' \subseteq Coinbase /\ lost' \in 0..MaxLost
    BY <1>1 DEF IInv, TypeOK
  <2> QED BY <1>11, <2>1, <2>2, <2>3, <2>4, <2>5, Zenon DEF TypeOK
<1>13. MessagesInv'
  <2>1. \A m \in messages : m.fromGroup \in Group /\ m.txn \notin Coinbase /\ IsSeq(m.path)
    BY DEF IInv, MessagesInv
  <2>2. \A m \in messages' : m.fromGroup \in Group /\ m.txn \notin Coinbase /\ IsSeq(m.path)
    BY <1>1, <1>3, <2>1
  <2> QED BY <2>2 DEF MessagesInv
<1>14. SizesInv'
  <2>1. IsFiniteSet(p)
    BY <1>8, FS_Subset DEF IInv, SizesInv
  <2>2. \A i \in DOMAIN d : Len(d[i]) >= 1
    <3>1. \A i \in DOMAIN d : i \in DOMAIN chain[g] \/ i = Len(chain[g]) + 1
      BY <1>6, <1>7
    <3>2. \A i \in DOMAIN chain[g] : Len(chain[g][i]) >= 1
      BY DEF IInv, SizesInv
    <3> QED BY <1>4, <1>6, <3>1, <3>2
  <2>3. \A h \in Group : IsFiniteSet(pool'[h])
    BY <1>10, <2>1 DEF IInv, SizesInv
  <2>4. \A h \in Group : \A i \in DOMAIN chain'[h] : Len(chain'[h][i]) >= 1
    BY <1>10, <2>2 DEF IInv, SizesInv
  <2> QED BY <2>3, <2>4 DEF SizesInv
<1>15. RelayedIsConfirmed'
  <2> SUFFICES ASSUME NEW h \in Group,
                      NEW s \in (pool'[h] \cup Confirmed(chain'[h])) \ Coinbase
               PROVE  Source(s) = h \/ s \in Confirmed(chain'[Source(s)])
    BY DEF RelayedIsConfirmed
  <2>1. s \in pool[h] \cup Confirmed(chain[h])
    <3>1. CASE h = g
      <4>1. s \in p \cup Confirmed(d)
        BY <1>10, <3>1
      <4> QED BY <1>2, <1>4, <1>6, <1>8, <3>1, <4>1
    <3>2. CASE h # g
      BY <1>10, <3>2
    <3> QED BY <3>1, <3>2
  <2>2. Source(s) = h \/ s \in Confirmed(chain[Source(s)])
    BY <2>1 DEF IInv, RelayedIsConfirmed
  <2>3. s \in Txn \ Coinbase
    <3>1. pool[h] \subseteq Txn /\ Confirmed(chain[h]) \subseteq Txn
      BY TypeFacts DEF IInv
    <3> QED BY <2>1, <3>1
  <2>4. Source(s) \in Group
    BY <2>3, ConstFacts
  <2>5. Confirmed(chain[Source(s)]) \subseteq Confirmed(chain'[Source(s)])
    BY <1>6, <1>10, <2>4
  <2> QED BY <2>2, <2>5
<1>16. CoinsArrive'
  <2>1. \A h \in Group : Kept(h, Confirmed(chain[h]), Confirmed(chain[h]), utxo[h])
    BY Zenon DEF IInv, CoinsArrive, SpentIn, Kept, Spent
  <2>2. Kept(g, Confirmed(d), Confirmed(d), u)
    <3>1. Confirmed(chain[g]) \in SUBSET Txn
      BY <1>5
    <3>2. Kept(g, Confirmed(chain[g]), Confirmed(chain[g]), utxo[g])
      BY <2>1
    <3> QED BY <1>4, <1>5, <1>6, <3>1, <3>2, UpdateKept DEF u
  <2>3. \A h \in Group : Kept(h, Confirmed(chain'[h]), Confirmed(chain'[h]), utxo'[h])
    BY <1>10, <2>1, <2>2
  <2> QED BY <2>3, Zenon DEF CoinsArrive, SpentIn, Kept, Spent
<1> QED BY <1>12, <1>13, <1>14, <1>15, <1>16 DEF IInv

LEMMA RestartStep == ASSUME IInv, Restart PROVE IInv'
<1>1. pool' = [g \in Group |-> {}] /\ UNCHANGED <<chain, utxo, messages, mined, lost>>
  BY DEF Restart
<1>2. \A g \in Group : pool'[g] = {}
  BY <1>1
<1>3. pool' \in [Group -> SUBSET (Txn \ Coinbase)]
  BY <1>1
<1>4. TypeOK' /\ MessagesInv'
  BY <1>1, <1>3, Zenon DEF IInv, TypeOK, MessagesInv
<1>5. SizesInv'
  BY <1>1, <1>2, FS_EmptySet DEF IInv, SizesInv
<1>6. RelayedIsConfirmed'
  BY <1>1, <1>2 DEF IInv, RelayedIsConfirmed
<1>7. CoinsArrive'
  BY <1>1, Zenon DEF IInv, CoinsArrive, SpentIn
<1> QED BY <1>4, <1>5, <1>6, <1>7 DEF IInv

LEMMA NextIInv == IInv /\ [Next]_vars => IInv'
<1> SUFFICES ASSUME IInv, [Next]_vars PROVE IInv'
  OBVIOUS
<1>1. CASE UNCHANGED vars
  BY <1>1, Zenon DEF vars, IInv, TypeOK, MessagesInv, SizesInv, RelayedIsConfirmed, CoinsArrive, SpentIn
<1>2. CASE Next
  <2>1. CASE \E t \in Txn \ Coinbase : GossipTxn(t)
    BY <2>1, GossipTxnStep
  <2>2. CASE \E g \in Group, c \in Coinbase : \E ts \in Sequences(pool[g]) :
                 MineBlock(g, c, ts) \/ MineInVain(g, c, ts)
    BY <2>2, MineBlockStep, MineInVainStep
  <2>3. CASE \E m \in messages : GossipRelayTxn(m)
    BY <2>3, GossipRelayTxnStep
  <2>4. CASE Restart
    BY <2>4, RestartStep
  <2> QED BY <1>2, <2>1, <2>2, <2>3, <2>4 DEF Next
<1> QED BY <1>1, <1>2

-----------------------------------------------------------------------------
(* The theorems *)

\* The invariant holds at every moment, for any groups, transactions and messages.
THEOREM Invariance == Spec => []IInv
BY InitIInv, NextIInv, PTL DEF Spec

\* Every variable keeps its type; no message goes to the group it names.
THEOREM TypeCorrect == Spec => []TypeOK
<1>1. IInv => TypeOK
  BY DEF IInv
<1> QED BY <1>1, Invariance, PTL

\* Whatever a group has in its pool or its chain is confirmed in the group whose coins
\* it spends (RelayVerify in GossipRelayTxn).
THEOREM AlwaysRelayedIsConfirmed == Spec => []RelayedIsConfirmed
<1>1. IInv => RelayedIsConfirmed
  BY DEF IInv
<1> QED BY <1>1, Invariance, PTL

\* What the chain of a group has given its owners and not taken again is in its UTXO
\* set (UTXOSet.Update and Reindex).
THEOREM AlwaysCoinsArrive == Spec => []CoinsArrive
<1>1. IInv => CoinsArrive
  BY DEF IInv
<1> QED BY <1>1, Invariance, PTL

=============================================================================
