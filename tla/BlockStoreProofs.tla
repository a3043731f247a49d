-------------------------- MODULE BlockStoreProofs --------------------------
(***************************************************************************)
(* For chains of any height, any number of crashes and reorganisations,    *)
(* and keys of any radix: every key and value in the database has its      *)
(* type, so that what is read is what the reader takes it for; the cached  *)
(* height is the height of the stored lastest block; the heads do not      *)
(* reach above their cached height; and up to lastest the chain is in the  *)
(* file, with its indexes.                                                 *)
(*                                                                         *)
(* The keys cannot be mistaken for each other: a height has fewer bytes    *)
(* than the word "lastest", a hash has more, and two heights that have     *)
(* bytes have different ones.  The rest of the argument is about the list  *)
(* of what is still to be written.  IInv: every write of lastest is        *)
(* followed at once by that of the cache.  HeadsInv: of the steps of       *)
(* AddBlockhead, a list holds none or an end of one AddBlockhead.          *)
(* DiskInv: a list either stores all that is missing of one block above a  *)
(* chain that stands, or moves lastest along a chain that stands, or       *)
(* deletes only what is above lastest.                                     *)
(***************************************************************************)
EXTENDS BlockStore, WellFoundedInduction, NaturalsInduction, SequenceTheorems, TLAPS

\* Blocks of heights up to n, and hashes.
BlockSet(n) == [height : 0..n, fork : Int, prev : Int]
HashSet == {k \in Seq(Int) : Len(k) = HashLength}

\* What may be stored where.
EntryOK(bucket, key, value, n) ==
    /\ bucket \in Bucket /\ key \in Seq(Int)
    /\ bucket = "Blocks" /\ Len(key) <= Width => value \in HashSet
    /\ bucket = "Blocks" /\ Len(key) > Width => value \in BlockSet(n)
    /\ bucket = "Blockheads" => value \in BlockSet(n)

FileOK(f, n) ==
    \A x \in DOMAIN f :
        /\ x \in Bucket \X (Seq(Int) \ {<<>>})
        /\ EntryOK(x[1], x[2], f[x], n)

-----------------------------------------------------------------------------
(* Keys *)

LEMMA ConstFacts ==
    /\ Width \in Nat /\ Width < 7 /\ Radix \in Nat \ {0}
    /\ Absent \notin Int /\ Absent \notin Seq(Int)
    /\ \A n : Absent \notin BlockSet(n)
    /\ MaxNew \in Nat /\ MaxForks \in Nat /\ MaxDepth \in Nat /\ MaxCrashes \in Nat
<1>1. \A n : BlockSet(n) \subseteq [height : Int, fork : Int, prev : Int]
  BY DEF BlockSet
<1> QED BY <1>1, DatabaseAssumption, BlockStoreAssumption

\* The least element of a set of natural numbers.
LEMMA MinFacts ==
    ASSUME NEW S \in SUBSET Nat, S # {}
    PROVE  Min(S) \in S
<1> DEFINE R == {ss \in Nat \X Nat : ss[1] < ss[2]}
<1>1. IsWellFoundedOn(R, Nat)
  BY NatLessThanWellFounded DEF OpToRel
<1> HIDE DEF R
<1>2. PICK x \in S : \A y \in S : ~(<<y, x>> \in R)
  <2>1. S \subseteq Nat
    OBVIOUS
  <2> QED BY <1>1, <2>1, WFMin, Zenon
<1>3. \A y \in S : x <= y
  <2>1. \A y, z \in Nat : y < z => <<y, z>> \in R
    BY DEF R
  <2> SUFFICES ASSUME NEW y \in S PROVE x <= y
    OBVIOUS
  <2>2. x \in Nat /\ y \in Nat /\ ~(<<y, x>> \in R)
    BY <1>2
  <2>3. ~(y < x)
    BY <2>1, <2>2, Zenon
  <2> QED BY <2>2, <2>3
<1> QED BY <1>3, Zenon DEF Min

\* Division with remainder.
LEMMA DivMod ==
    \A x \in Nat, d \in Nat \ {0} :
        x = d * (x \div d) + (x % d) /\ x % d \in 0..d - 1 /\ x \div d \in Nat
<1> SUFFICES ASSUME NEW x \in Nat, NEW d \in Nat \ {0}
             PROVE  x = d * (x \div d) + (x % d) /\ x % d \in 0..d - 1 /\ x \div d \in Nat
  OBVIOUS
<1>1. x \in Int /\ d \in Int /\ d > 0
  OBVIOUS
<1>2. x = d * (x \div d) + (x % d)
  BY <1>1
<1>3. x % d \in 0..d - 1
  BY <1>1
<1>4. x \div d \in Nat
  OBVIOUS
<1> QED BY <1>2, <1>3, <1>4, Zenon

LEMMA DivUnique ==
    ASSUME NEW x \in Nat, NEW d \in Nat \ {0}, NEW q \in Nat, NEW r \in 0..d - 1, x = d * q + r
    PROVE  x \div d = q
OBVIOUS

LEMMA Product == \A a, b \in Nat \ {0} : a * b \in Nat \ {0}
OBVIOUS

\* Powers of the radix.
LEMMA PowerFacts ==
    /\ power[0] = 1
    /\ \A i \in 0..Width - 1 : power[i + 1] = Radix * power[i]
    /\ \A i \in 0..Width : power[i] \in Nat \ {0}
<1>0. Width \in 1..6 /\ Radix \in Nat \ {0}
  BY DatabaseAssumption
<1> DEFINE Fix(p) == [i \in 0..Width |-> IF i = 0 THEN 1 ELSE Radix * p[i - 1]]
<1>1. \E p : p = Fix(p)
  <2> DEFINE a == Radix * 1
             b == Radix * a
             c == Radix * b
             d == Radix * c
             e == Radix * d
             g == Radix * e
             w(i) == IF i = 0 THEN 1 ELSE IF i = 1 THEN a ELSE IF i = 2 THEN b
                     ELSE IF i = 3 THEN c ELSE IF i = 4 THEN d ELSE IF i = 5 THEN e ELSE g
             p == [i \in 0..Width |-> w(i)]
  <2>1. w(0) = 1 /\ \A i \in 1..6 : w(i) = Radix * w(i - 1)
    <3>1. a = Radix * 1 /\ b = Radix * a /\ c = Radix * b /\ d = Radix * c /\ e = Radix * d
          /\ g = Radix * e
      OBVIOUS
    <3> HIDE DEF a, b, c, d, e, g
    <3> QED BY <3>1
  <2> HIDE DEF w
  <2>2. \A i \in 0..Width : i = 0 \/ (i \in 1..6 /\ i # 0 /\ i - 1 \in 0..Width)
    BY <1>0
  <2>3. p = Fix(p)
    BY <2>1, <2>2
  <2> QED BY <2>3, Zenon
<1>2. power = Fix(power)
  <2>1. power = CHOOSE p : p = Fix(p)
    BY Zenon DEF power
  <2> HIDE DEF Fix
  <2> QED BY <1>1, <2>1, Zenon
<1>3. power[0] = 1 /\ \A i \in 0..Width - 1 : power[i + 1] = Radix * power[i]
  <2>1. \A i \in 0..Width - 1 : i + 1 \in 0..Width /\ i + 1 # 0 /\ (i + 1) - 1 = i
    BY <1>0
  <2>2. 0 \in 0..Width
    BY <1>0
  <2>3. \A i \in 0..Width : power[i] = IF i = 0 THEN 1 ELSE Radix * power[i - 1]
    BY <1>2, Zenon
  <2>4. power[0] = 1
    BY <2>2, <2>3, Zenon
  <2> QED BY <2>1, <2>3, <2>4
<1>4. \A i \in 0..Width : power[i] \in Nat \ {0}
  <2> DEFINE T(i) == power[i] \in Nat \ {0}
  <2>1. T(0)
    BY <1>3
  <2>2. \A i \in 0..Width - 1 : T(i) => T(i + 1)
    BY <1>0, <1>3, Product
  <2> HIDE DEF T
  <2>3. \A i \in 0..6 : i <= Width => T(i)
    <3>1. \A i \in 0..5 : i + 1 <= Width => i \in 0..Width - 1 /\ i <= Width
      BY <1>0
    <3> QED BY <1>0, <2>1, <2>2, <3>1
  <2>4. \A i \in 0..Width : i \in 0..6 /\ i <= Width
    BY <1>0
  <2> QED BY <2>3, <2>4 DEF T
<1> QED BY <1>3, <1>4

\* What wraps around gets no greater.
LEMMA LimitFacts ==
    ASSUME NEW i \in 0..Width - 1
    PROVE  Limit(i) \in Int /\ Limit(i) <= power[i + 1]
<1> DEFINE v == power[i + 1]
           M == power[Width]
           h == M \div 2
<1>1. v \in Nat /\ M \in Nat \ {0} /\ h \in Nat
  <2>1. Width \in Nat /\ Width \in 0..Width /\ i + 1 \in 0..Width
    BY DatabaseAssumption
  <2>2. v \in Nat /\ M \in Nat \ {0}
    BY <2>1, PowerFacts
  <2> HIDE DEF v, M
  <2> QED BY <2>2
<1>2. Limit(i) = ((v + h) % M) - h
  BY DEF Limit, Wrap, Modulus
<1> HIDE DEF v, M, h
<1>3. (v + h) % M <= v + h /\ (v + h) % M \in Nat
  <2> DEFINE x == v + h
             q == x \div M
             r == x % M
  <2>1. x \in Nat
    BY <1>1
  <2> HIDE DEF x
  <2>2. x = M * q + r /\ r \in 0..M - 1 /\ q \in Nat
    BY <1>1, <2>1, DivMod
  <2> HIDE DEF q, r
  <2>3. M * q \in Nat
    BY <1>1, <2>2
  <2>4. r <= x /\ r \in Nat
    BY <1>1, <2>1, <2>2, <2>3
  <2> QED BY <2>4 DEF x, r
<1> QED BY <1>1, <1>2, <1>3 DEF v

\* One digit more.
LEMMA Digit ==
    ASSUME NEW v \in Nat, NEW i \in 0..Width - 1
    PROVE  v \div power[i] = Radix * (v \div power[i + 1]) + Byte(v, i)
<1> DEFINE P == power[i]
           a == v \div P
           s == v % P
           b == a \div Radix
           d == a % Radix
<1>1. P \in Nat \ {0} /\ Radix \in Nat \ {0} /\ power[i + 1] = Radix * P
  <2>1. i \in 0..Width
    BY DatabaseAssumption
  <2> QED BY <2>1, PowerFacts, DatabaseAssumption
<1>2. Byte(v, i) = d
  BY DEF Byte
<1> HIDE DEF P
<1>3. v = P * a + s /\ s \in 0..P - 1 /\ a \in Nat
  BY <1>1, DivMod
<1> HIDE DEF a, s
<1>4. a = Radix * b + d /\ d \in 0..Radix - 1 /\ b \in Nat
  BY <1>1, <1>3, DivMod
<1> HIDE DEF b, d
<1> DEFINE Q == Radix * P
           r == P * d + s
<1>5. Q \in Nat \ {0}
  BY <1>1, Product
<1>6. v = Q * b + r
  <2>1. P * a = P * (Radix * b) + P * d
    BY <1>1, <1>3, <1>4
  <2>2. P * (Radix * b) = (Radix * P) * b
    BY <1>1, <1>4
  <2> QED BY <1>1, <1>3, <1>4, <2>1, <2>2
<1>7. r \in 0..Q - 1
  <2>1. P * d <= P * (Radix - 1)
    BY <1>1, <1>4
  <2>2. P * (Radix - 1) = Radix * P - P
    BY <1>1
  <2>3. P * d \in Nat
    BY <1>1, <1>4
  <2> QED BY <1>1, <1>3, <2>1, <2>2, <2>3
<1> HIDE DEF Q, r
<1>8. v \div Q = b
  BY <1>4, <1>5, <1>6, <1>7, DivUnique
<1> QED BY <1>1, <1>2, <1>4, <1>8 DEF Q, P, a, d

\* What 0 has and each successor has, every natural number has.
LEMMA SetInduction ==
    ASSUME NEW S, 0 \in S, \A n \in Nat : n \in S => n + 1 \in S
    PROVE  Nat \subseteq S
<1> DEFINE R == {ss \in Nat \X Nat : ss[1] < ss[2]}
           T == Nat \ S
<1> SUFFICES ASSUME T # {} PROVE FALSE
  OBVIOUS
<1>1. IsWellFoundedOn(R, Nat)
  BY NatLessThanWellFounded DEF OpToRel
<1>2. \A y, z \in Nat : y < z => <<y, z>> \in R
  OBVIOUS
<1> HIDE DEF R
<1>3. PICK x \in T : \A y \in T : ~(<<y, x>> \in R)
  <2>1. T \subseteq Nat
    OBVIOUS
  <2> HIDE DEF T
  <2> QED BY <1>1, <2>1, WFMin, Zenon
<1>4. x \in Nat /\ x \notin S /\ x # 0
  BY <1>3
<1>5. x - 1 \in Nat /\ (x - 1) + 1 = x /\ x - 1 < x
  BY <1>4
<1>6. x - 1 \in T
  <2>1. x - 1 \notin S
    BY <1>4, <1>5
  <2> QED BY <1>5, <2>1
<1> QED BY <1>2, <1>3, <1>4, <1>5, <1>6, Zenon

LEMMA HeightKey ==
    ASSUME NEW v \in Int
    PROVE  HeightToBytes(v) \in Seq(Int) /\ Len(HeightToBytes(v)) <= Width
<1> DEFINE ends == {i \in 0..Width - 1 : v < Limit(i)}
           m == Min(ends)
<1>1. CASE ends = {}
  BY <1>1, ConstFacts DEF HeightToBytes
<1>2. CASE ends # {}
  <2>1. m \in ends
    BY <1>2, MinFacts, ConstFacts
  <2>2. HeightToBytes(v) = [j \in 1..m + 1 |-> Byte(v, j - 1)]
    BY <1>2 DEF HeightToBytes
  <2>3. \A i \in 0..Width : Byte(v, i) \in Int
    <3>1. \A i \in 0..Width : power[i] \in Int
      BY PowerFacts
    <3>2. \A x, y \in Int : (x \div y) % Radix \in Int
      BY ConstFacts
    <3> QED BY <3>1, <3>2 DEF Byte
  <2>4. m + 1 \in Nat /\ m + 1 <= Width /\ \A j \in 1..m + 1 : Byte(v, j - 1) \in Int
    <3>1. m \in Nat /\ m + 1 <= Width
      BY <2>1, ConstFacts
    <3> HIDE DEF m
    <3>2. \A j \in 1..m + 1 : j - 1 \in 0..Width
      BY <3>1, ConstFacts
    <3>3. \A j \in 1..m + 1 : Byte(v, j - 1) \in Int
      BY <2>3, <3>2
    <3> QED BY <3>1, <3>3
  <2> HIDE DEF m
  <2> QED BY <2>2, <2>4
<1> QED BY <1>1, <1>2

\* Two heights do not have the same bytes.
LEMMA HeightsDiffer ==
    ASSUME NEW u \in Nat, NEW v \in Nat, HeightToBytes(u) = HeightToBytes(v),
           HeightToBytes(u) # <<>>
    PROVE  u = v
<1> DEFINE ends(w) == {i \in 0..Width - 1 : w < Limit(i)}
           m(w) == Min(ends(w))
<1>0. Width \in Nat
  BY DatabaseAssumption
<1>1. ASSUME NEW w \in Nat, HeightToBytes(w) # <<>>
      PROVE  /\ m(w) \in 0..Width - 1 /\ w < Limit(m(w))
             /\ HeightToBytes(w) = [j \in 1..m(w) + 1 |-> Byte(w, j - 1)]
  <2>1. ends(w) # {} /\ HeightToBytes(w) = [j \in 1..m(w) + 1 |-> Byte(w, j - 1)]
    BY <1>1 DEF HeightToBytes
  <2>2. m(w) \in ends(w)
    <3>1. ends(w) \in SUBSET Nat
      BY <1>0
    <3> HIDE DEF ends
    <3> QED BY <2>1, <3>1, MinFacts
  <2> QED BY <2>1, <2>2
<1> DEFINE n == m(u) + 1
<1>2. /\ m(u) \in 0..Width - 1 /\ u < Limit(m(u))
      /\ HeightToBytes(u) = [j \in 1..n |-> Byte(u, j - 1)]
  BY <1>1
<1>3. /\ m(v) \in 0..Width - 1 /\ v < Limit(m(v))
      /\ HeightToBytes(u) = [j \in 1..m(v) + 1 |-> Byte(v, j - 1)]
  BY <1>1
<1> HIDE DEF m
<1>4. m(v) = m(u)
  <2>1. DOMAIN HeightToBytes(u) = 1..n /\ DOMAIN HeightToBytes(u) = 1..m(v) + 1
    BY <1>2, <1>3
  <2> QED BY <1>0, <1>2, <1>3, <2>1
<1>5. n \in 1..Width /\ u < power[n] /\ v < power[n] /\ power[n] \in Nat \ {0}
  <2>1. n \in 1..Width /\ n \in 0..Width
    BY <1>0, <1>2
  <2>2. power[n] \in Nat \ {0}
    BY <2>1, PowerFacts
  <2>3. Limit(m(u)) \in Int /\ Limit(m(u)) <= power[n]
    BY <1>2, LimitFacts
  <2> HIDE DEF n
  <2> QED BY <1>2, <1>3, <1>4, <2>1, <2>2, <2>3
<1>6. \A i \in 0..n - 1 : Byte(u, i) = Byte(v, i)
  <2> SUFFICES ASSUME NEW i \in 0..n - 1 PROVE Byte(u, i) = Byte(v, i)
    OBVIOUS
  <2> DEFINE j == i + 1
  <2>1. j \in 1..n /\ j - 1 = i
    BY <1>5
  <2> HIDE DEF j
  <2>2. HeightToBytes(u)[j] = Byte(u, j - 1) /\ HeightToBytes(u)[j] = Byte(v, j - 1)
    BY <1>2, <1>3, <1>4, <2>1
  <2> QED BY <2>1, <2>2
<1> HIDE DEF n
<1> DEFINE Same(k) == u \div power[n - k] = v \div power[n - k]
           S == {k \in Nat : k <= n => Same(k)}
<1>7. 0 \in S
  <2>1. n - 0 = n
    BY <1>5
  <2>2. u = power[n] * 0 + u /\ v = power[n] * 0 + v /\ u \in 0..power[n] - 1 /\ v \in 0..power[n] - 1
    BY <1>5
  <2>3. u \div power[n] = 0 /\ v \div power[n] = 0
    BY <1>5, <2>2, DivUnique
  <2> QED BY <2>1, <2>3
<1>8. ASSUME NEW k \in Nat, k \in S PROVE k + 1 \in S
  <2> SUFFICES ASSUME k + 1 <= n PROVE Same(k + 1)
    OBVIOUS
  <2> DEFINE i == n - (k + 1)
  <2>1. i \in 0..n - 1 /\ i + 1 = n - k /\ i \in 0..Width - 1 /\ k <= n
    BY <1>0, <1>5
  <2>2. u \div power[i + 1] = v \div power[i + 1]
    BY <1>8, <2>1
  <2> HIDE DEF i
  <2>3. /\ u \div power[i] = Radix * (u \div power[i + 1]) + Byte(u, i)
        /\ v \div power[i] = Radix * (v \div power[i + 1]) + Byte(v, i)
    BY <2>1, Digit
  <2>4. Byte(u, i) = Byte(v, i)
    BY <1>6, <2>1
  <2>5. u \div power[i] = v \div power[i]
    BY <2>2, <2>3, <2>4, Zenon
  <2> QED BY <2>5 DEF i
<1> HIDE DEF Same
<1>9. n \in S
  <2>1. Nat \subseteq S
    BY <1>7, <1>8, SetInduction
  <2> QED BY <1>5, <2>1
<1>10. u \div power[0] = v \div power[0]
  <2>1. Same(n) /\ n - n = 0
    BY <1>5, <1>9
  <2> QED BY <2>1 DEF Same
<1>11. u \div 1 = u /\ v \div 1 = v
  OBVIOUS
<1> QED BY <1>10, <1>11, PowerFacts

LEMMA HashKey ==
    ASSUME NEW n, NEW b \in BlockSet(n)
    PROVE  Hash(b) \in HashSet
<1>1. b.height \in Int /\ b.fork \in Int /\ b.prev \in Int
  BY DEF BlockSet
<1> DEFINE e(i) == CASE i = 1 -> b.height [] i = 2 -> b.fork [] i = 3 -> b.prev [] OTHER -> 0
<1>2. \A i \in 1..8 : e(i) \in Int
  BY <1>1
<1>3. Hash(b) = [i \in 1..8 |-> e(i)]
  BY DEF Hash, HashLength
<1> HIDE DEF e
<1>4. Hash(b) \in Seq(Int) /\ Len(Hash(b)) = 8
  BY <1>2, <1>3
<1> QED BY <1>4 DEF HashSet, HashLength

LEMMA LastestKey == Lastest \in Seq(Int) /\ Len(Lastest) = 7
BY DEF Lastest

\* Neither a height nor a hash is the word, nor is it empty.
LEMMA KeysDiffer ==
    /\ \A v \in Int : HeightToBytes(v) # Lastest
    /\ \A k \in HashSet : k # Lastest /\ k # <<>> /\ k \in Seq(Int) /\ Len(k) > Width
    /\ Lastest # <<>> /\ Len(Lastest) > Width
<1>0. Width \in Nat /\ Width < 7
  BY ConstFacts
<1>1. \A k \in HashSet : k \in Seq(Int) /\ Len(k) = 8
  BY DEF HashSet, HashLength
<1>2. Len(<<>>) = 0 /\ 0 # 8 /\ 7 # 8 /\ 7 # 0 /\ 7 > Width /\ 8 > Width
  BY <1>0
<1>3. ASSUME NEW v \in Int PROVE HeightToBytes(v) # Lastest
  <2>1. Len(HeightToBytes(v)) <= Width /\ HeightToBytes(v) \in Seq(Int)
    BY HeightKey
  <2> DEFINE len == Len(HeightToBytes(v))
  <2>2. len \in Nat /\ len <= Width
    BY <2>1, LenProperties
  <2> HIDE DEF len
  <2>3. len # 7
    BY <1>0, <2>2
  <2> QED BY <2>3, LastestKey, Zenon DEF len
<1>4. ASSUME NEW k \in HashSet PROVE k # Lastest /\ k # <<>> /\ k \in Seq(Int) /\ Len(k) > Width
  <2>1. k # Lastest /\ k # <<>>
    BY <1>1, <1>2, LastestKey, Zenon
  <2>2. Len(k) = 8 /\ k \in Seq(Int)
    BY <1>1
  <2> QED BY <1>2, <2>1, <2>2, Zenon
<1>5. Lastest # <<>> /\ Len(Lastest) > Width
  <2>1. Lastest # <<>>
    BY <1>2, LastestKey, Zenon
  <2> QED BY <1>2, <2>1, LastestKey, Zenon
<1> QED BY <1>3, <1>4, <1>5

-----------------------------------------------------------------------------
(* Reading *)

LEMMA ReadBlockByHash ==
    ASSUME NEW f, NEW n, FileOK(f, n), NEW k \in HashSet \cup {Absent}
    PROVE  GetBlockByHash(f, k) \in BlockSet(n) \cup {Absent}
<1>1. CASE <<"Blocks", k>> \in DOMAIN f
  <2>1. k \in HashSet /\ EntryOK("Blocks", k, f[<<"Blocks", k>>], n)
    BY <1>1, ConstFacts DEF FileOK
  <2> QED BY <1>1, <2>1, KeysDiffer DEF EntryOK, GetBlockByHash, Get
<1>2. CASE <<"Blocks", k>> \notin DOMAIN f
  BY <1>2 DEF GetBlockByHash, Get
<1> QED BY <1>1, <1>2

LEMMA ReadBlockByHeight ==
    ASSUME NEW f, NEW n, FileOK(f, n), NEW h \in Int
    PROVE  GetBlockByHeight(f, h) \in BlockSet(n) \cup {Absent}
<1> DEFINE x == <<"Blocks", HeightToBytes(h)>>
<1>1. Get(f, "Blocks", HeightToBytes(h)) \in HashSet \cup {Absent}
  <2>1. CASE x \in DOMAIN f
    <3>1. EntryOK("Blocks", HeightToBytes(h), f[x], n)
      BY <2>1 DEF FileOK
    <3> QED BY <2>1, <3>1, HeightKey DEF EntryOK, Get
  <2>2. CASE x \notin DOMAIN f
    BY <2>2 DEF Get
  <2> QED BY <2>1, <2>2
<1> QED BY <1>1, ReadBlockByHash DEF GetBlockByHeight

LEMMA ReadLastest ==
    ASSUME NEW f, NEW n \in Int, n >= -1, FileOK(f, n)
    PROVE  /\ GetLastest(f) \in BlockSet(n) \cup {Absent}
           /\ Get(f, "Blockheads", Lastest) \in BlockSet(n) \cup {Absent}
           /\ LastestHeight(f) \in -1..n
<1>1. GetLastest(f) \in BlockSet(n) \cup {Absent}
  BY KeysDiffer DEF FileOK, EntryOK, GetLastest, Get
<1>2. Get(f, "Blockheads", Lastest) \in BlockSet(n) \cup {Absent}
  BY DEF FileOK, EntryOK, Get
<1>3. LastestHeight(f) \in -1..n
  BY <1>1 DEF LastestHeight, BlockSet
<1> QED BY <1>1, <1>2, <1>3

-----------------------------------------------------------------------------
(* Lists of steps *)

IsSeq(L) == L \in Seq({L[i] : i \in DOMAIN L})

\* One step has what it needs; n is the greatest height, f the number of
\* reorganisations so far.
ItemOK(s, n, f) ==
    \/ s.do = "set" /\ EntryOK(s.bucket, s.key, s.value, n)
    \/ s.do = "delete" /\ (s.bucket = "Blocks" => s.key # Lastest)
    \/ s.do = "clear"
    \/ s.do \in {"cache", "headCache"} /\ s.value \in 0..n
    \/ s.do = "check" /\ s.value \in BlockSet(n)
    \/ /\ s.do = "fetch"
       /\ s.from \in 0..n /\ s.to \in 0..s.from /\ s.origin \in HashSet
       /\ s.to < s.from => f < MaxForks
    \/ s.do = "revert" /\ s.from \in 0..n /\ s.to \in 0..n
    \/ s.do = "exit"

SetsLastest(s) == s.do = "set" /\ s.bucket = "Blocks" /\ s.key = Lastest
ClearsBlocks(s) == s.do = "clear" /\ s.bucket = "Blocks"
EndsSetLastest(s) == s.do \in {"cache", "exit"}

\* The second step of SetLastest after the first.
Completes(s, t) ==
    t.do = "exit" \/ (t.do = "cache" /\ t.value = s.value.height)

\* The two steps of SetLastest are always one after the other, and the bucket is
\* cleared before anything else.
Orderly(L, n, f) ==
    \A i \in DOMAIN L :
        /\ ItemOK(L[i], n, f)
        /\ SetsLastest(L[i]) => i + 1 \in DOMAIN L /\ Completes(L[i], L[i + 1])
        /\ EndsSetLastest(L[i]) => i = 1 \/ (i - 1 \in DOMAIN L /\ SetsLastest(L[i - 1]))
        /\ ClearsBlocks(L[i]) => i = 1

\* A step that has nothing to do with lastest.
Quiet(s, n, f) ==
    ItemOK(s, n, f) /\ ~SetsLastest(s) /\ ~EndsSetLastest(s) /\ ~ClearsBlocks(s)

QuietList(L, n, f) == IsSeq(L) /\ \A i \in DOMAIN L : Quiet(L[i], n, f)

LEMMA SeqOfAny ==
    ASSUME NEW S, NEW L \in Seq(S)
    PROVE  IsSeq(L)
BY DEF IsSeq

LEMMA SeqFacts ==
    ASSUME NEW L, IsSeq(L)
    PROVE  /\ Len(L) \in Nat /\ DOMAIN L = 1..Len(L)
           /\ L # <<>> => /\ Head(L) = L[1] /\ 1 \in DOMAIN L
                          /\ IsSeq(Tail(L)) /\ Len(Tail(L)) = Len(L) - 1
                          /\ DOMAIN Tail(L) = 1..Len(L) - 1
                          /\ \A i \in DOMAIN Tail(L) : i + 1 \in DOMAIN L /\ Tail(L)[i] = L[i + 1]
<1> DEFINE S == {L[i] : i \in DOMAIN L}
<1>1. L \in Seq(S)
  BY DEF IsSeq
<1> HIDE DEF S
<1>2. Len(L) \in Nat /\ DOMAIN L = 1..Len(L)
  BY <1>1
<1>3. ASSUME L # <<>>
      PROVE  /\ Head(L) = L[1] /\ 1 \in DOMAIN L /\ Len(Tail(L)) = Len(L) - 1
             /\ Tail(L) \in Seq(S) /\ DOMAIN Tail(L) = 1..Len(L) - 1
             /\ \A i \in DOMAIN Tail(L) : i + 1 \in DOMAIN L /\ Tail(L)[i] = L[i + 1]
  BY <1>1, <1>2, <1>3
<1> QED BY <1>2, <1>3, SeqOfAny

LEMMA ConcatFacts ==
    ASSUME NEW L, NEW M, IsSeq(L), IsSeq(M)
    PROVE  /\ IsSeq(L \o M) /\ DOMAIN (L \o M) = 1..Len(L) + Len(M)
           /\ \A i \in DOMAIN L : i \in DOMAIN (L \o M) /\ (L \o M)[i] = L[i]
           /\ \A i \in DOMAIN (L \o M) :
                 i \in DOMAIN L \/ (i - Len(L) \in DOMAIN M /\ (L \o M)[i] = M[i - Len(L)])
<1> DEFINE S == {L[i] : i \in DOMAIN L} \cup {M[i] : i \in DOMAIN M}
           C == L \o M
<1>1. L \in Seq(S) /\ M \in Seq(S)
  BY DEF IsSeq
<1> HIDE DEF S
<1>2. /\ Len(L) \in Nat /\ Len(M) \in Nat /\ DOMAIN L = 1..Len(L) /\ DOMAIN M = 1..Len(M)
      /\ C \in Seq(S) /\ DOMAIN C = 1..Len(L) + Len(M)
      /\ \A i \in 1..Len(L) + Len(M) : C[i] = IF i <= Len(L) THEN L[i] ELSE M[i - Len(L)]
  <2>1. Len(L) \in Nat /\ Len(M) \in Nat /\ DOMAIN L = 1..Len(L) /\ DOMAIN M = 1..Len(M)
    BY <1>1
  <2>2. /\ C \in Seq(S) /\ Len(C) = Len(L) + Len(M)
        /\ \A i \in 1..Len(L) + Len(M) : C[i] = IF i <= Len(L) THEN L[i] ELSE M[i - Len(L)]
    BY <1>1, ConcatProperties, Zenon
  <2> HIDE DEF C
  <2> QED BY <2>1, <2>2
<1> HIDE DEF C
<1>3. IsSeq(C)
  BY <1>2, SeqOfAny
<1>4. \A i \in DOMAIN L : i \in DOMAIN C /\ C[i] = L[i]
  BY <1>2
<1>5. \A i \in DOMAIN C : i \in DOMAIN L \/ (i - Len(L) \in DOMAIN M /\ C[i] = M[i - Len(L)])
  BY <1>2
<1> QED BY <1>2, <1>3, <1>4, <1>5 DEF C

\* Lists of one to four steps.
LEMMA Singleton ==
    ASSUME NEW a
    PROVE  IsSeq(<<a>>) /\ DOMAIN <<a>> = 1..1 /\ <<a>>[1] = a /\ Len(<<a>>) = 1
BY DEF IsSeq

LEMMA QuietOne ==
    ASSUME NEW n, NEW f, NEW a, Quiet(a, n, f)
    PROVE  QuietList(<<a>>, n, f)
BY Singleton DEF QuietList

LEMMA QuietTwo ==
    ASSUME NEW n, NEW f, NEW a, NEW b, Quiet(a, n, f), Quiet(b, n, f)
    PROVE  QuietList(<<a, b>>, n, f)
<1>1. IsSeq(<<a, b>>) /\ DOMAIN <<a, b>> = 1..2 /\ <<a, b>>[1] = a /\ <<a, b>>[2] = b
  BY DEF IsSeq
<1> QED BY <1>1 DEF QuietList

LEMMA QuietThree ==
    ASSUME NEW n, NEW f, NEW a, NEW b, NEW c, Quiet(a, n, f), Quiet(b, n, f), Quiet(c, n, f)
    PROVE  QuietList(<<a, b, c>>, n, f)
<1>1. /\ IsSeq(<<a, b, c>>) /\ DOMAIN <<a, b, c>> = 1..3
      /\ <<a, b, c>>[1] = a /\ <<a, b, c>>[2] = b /\ <<a, b, c>>[3] = c
  BY DEF IsSeq
<1> QED BY <1>1 DEF QuietList

LEMMA QuietFour ==
    ASSUME NEW n, NEW f, NEW a, NEW b, NEW c, NEW d,
           Quiet(a, n, f), Quiet(b, n, f), Quiet(c, n, f), Quiet(d, n, f)
    PROVE  QuietList(<<a, b, c, d>>, n, f)
<1>1. /\ IsSeq(<<a, b, c, d>>) /\ DOMAIN <<a, b, c, d>> = 1..4
      /\ <<a, b, c, d>>[1] = a /\ <<a, b, c, d>>[2] = b
      /\ <<a, b, c, d>>[3] = c /\ <<a, b, c, d>>[4] = d
  BY DEF IsSeq
<1> QED BY <1>1 DEF QuietList

LEMMA QuietConcat ==
    ASSUME NEW n, NEW f, NEW L, NEW M, QuietList(L, n, f), QuietList(M, n, f)
    PROVE  QuietList(L \o M, n, f)
<1> DEFINE C == L \o M
<1>1. /\ IsSeq(C)
      /\ \A i \in DOMAIN L : i \in DOMAIN C /\ C[i] = L[i]
      /\ \A i \in DOMAIN C :
            i \in DOMAIN L \/ (i - Len(L) \in DOMAIN M /\ C[i] = M[i - Len(L)])
  BY ConcatFacts DEF QuietList
<1> HIDE DEF C
<1>2. ASSUME NEW i \in DOMAIN C PROVE Quiet(C[i], n, f)
  BY <1>1, Zenon DEF QuietList
<1>3. QuietList(C, n, f)
  BY <1>1, <1>2, Zenon DEF QuietList
<1> QED BY <1>3 DEF C

LEMMA QuietIsOrderly ==
    ASSUME NEW n, NEW f, NEW L, QuietList(L, n, f)
    PROVE  IsSeq(L) /\ Orderly(L, n, f)
BY DEF QuietList, Quiet, Orderly

\* Quiet steps after an orderly list.
LEMMA OrderlyConcat ==
    ASSUME NEW n, NEW f, NEW L, NEW M, IsSeq(L), Orderly(L, n, f), QuietList(M, n, f)
    PROVE  IsSeq(L \o M) /\ Orderly(L \o M, n, f)
<1> DEFINE C == L \o M
<1>1. /\ IsSeq(C)
      /\ \A i \in DOMAIN L : i \in DOMAIN C /\ C[i] = L[i]
      /\ \A i \in DOMAIN C :
            i \in DOMAIN L \/ (i - Len(L) \in DOMAIN M /\ C[i] = M[i - Len(L)])
  BY ConcatFacts DEF QuietList
<1> HIDE DEF C
<1>2. ASSUME NEW i \in DOMAIN C
      PROVE  /\ ItemOK(C[i], n, f)
             /\ SetsLastest(C[i]) => i + 1 \in DOMAIN C /\ Completes(C[i], C[i + 1])
             /\ EndsSetLastest(C[i]) => i = 1 \/ (i - 1 \in DOMAIN C /\ SetsLastest(C[i - 1]))
             /\ ClearsBlocks(C[i]) => i = 1
  <2>1. CASE i \in DOMAIN L
    BY <1>1, <2>1, Zenon DEF Orderly
  <2>2. CASE i - Len(L) \in DOMAIN M /\ C[i] = M[i - Len(L)]
    BY <2>2, Zenon DEF QuietList, Quiet
  <2> QED BY <1>1, <2>1, <2>2
<1>3. Orderly(C, n, f)
  BY <1>2, Zenon DEF Orderly
<1> QED BY <1>1, <1>3 DEF C

\* An orderly list that begins with something else, after the clearing.
LEMMA OrderlyAfterClear ==
    ASSUME NEW n, NEW f, NEW L, IsSeq(L), Orderly(L, n, f), L # <<>>,
           ~EndsSetLastest(L[1]), ~ClearsBlocks(L[1])
    PROVE  /\ IsSeq(<<Empty("Blocks")>> \o L) /\ Orderly(<<Empty("Blocks")>> \o L, n, f)
           /\ <<Empty("Blocks")>> \o L # <<>> /\ Head(<<Empty("Blocks")>> \o L) = Empty("Blocks")
<1> DEFINE a == Empty("Blocks")
           C == <<a>> \o L
<1>1. /\ ItemOK(a, n, f) /\ ~SetsLastest(a) /\ ~EndsSetLastest(a)
  BY DEF Empty, ItemOK, SetsLastest, EndsSetLastest
<1> HIDE DEF a
<1>2. /\ IsSeq(C) /\ DOMAIN C = 1..1 + Len(L) /\ C[1] = a /\ 1 \in DOMAIN C
      /\ \A i \in DOMAIN C : i = 1 \/ (i - 1 \in DOMAIN L /\ C[i] = L[i - 1])
  <2>1. /\ IsSeq(C) /\ DOMAIN C = 1..1 + Len(L)
        /\ \A i \in 1..1 : i \in DOMAIN C /\ C[i] = <<a>>[i]
        /\ \A i \in DOMAIN C : i \in 1..1 \/ (i - 1 \in DOMAIN L /\ C[i] = L[i - 1])
    BY Singleton, ConcatFacts
  <2> HIDE DEF C
  <2> QED BY <2>1, Singleton
<1>3. Len(L) \in Nat /\ DOMAIN L = 1..Len(L) /\ 1 \in DOMAIN L
  BY SeqFacts
<1> HIDE DEF C
<1>4. \A j \in DOMAIN L : j + 1 \in DOMAIN C /\ j + 1 # 1 /\ C[j + 1] = L[j]
  BY <1>2, <1>3
<1>5. ASSUME NEW i \in DOMAIN C
      PROVE  /\ ItemOK(C[i], n, f)
             /\ SetsLastest(C[i]) => i + 1 \in DOMAIN C /\ Completes(C[i], C[i + 1])
             /\ EndsSetLastest(C[i]) => i = 1 \/ (i - 1 \in DOMAIN C /\ SetsLastest(C[i - 1]))
             /\ ClearsBlocks(C[i]) => i = 1
  <2>1. CASE i = 1
    BY <1>1, <1>2, <2>1
  <2>2. CASE i # 1
    <3> DEFINE j == i - 1
    <3>1. j \in DOMAIN L /\ C[i] = L[j] /\ i = j + 1 /\ j \in Nat
      BY <1>2, <1>3, <2>2
    <3> HIDE DEF j
    <3>2. /\ ItemOK(L[j], n, f)
          /\ SetsLastest(L[j]) => j + 1 \in DOMAIN L /\ Completes(L[j], L[j + 1])
          /\ EndsSetLastest(L[j]) => j = 1 \/ (j - 1 \in DOMAIN L /\ SetsLastest(L[j - 1]))
          /\ ClearsBlocks(L[j]) => j = 1
      BY <3>1 DEF Orderly
    <3>3. SetsLastest(C[i]) => i + 1 \in DOMAIN C /\ Completes(C[i], C[i + 1])
      BY <1>4, <3>1, <3>2
    <3>4. EndsSetLastest(C[i]) => i - 1 \in DOMAIN C /\ SetsLastest(C[i - 1])
      <4>1. SUFFICES ASSUME EndsSetLastest(C[i]) PROVE i - 1 \in DOMAIN C /\ SetsLastest(C[i - 1])
        OBVIOUS
      <4>2. j - 1 \in DOMAIN L /\ SetsLastest(L[j - 1])
        BY <3>1, <3>2, <4>1
      <4>3. (j - 1) + 1 = i - 1
        BY <3>1
      <4> QED BY <1>4, <4>2, <4>3
    <3>5. ~ClearsBlocks(C[i])
      BY <3>1, <3>2
    <3> QED BY <3>1, <3>2, <3>3, <3>4, <3>5
  <2> QED BY <2>1, <2>2
<1>6. Orderly(C, n, f)
  BY <1>5, Zenon DEF Orderly
<1>7. C # <<>> /\ Head(C) = a
  <2>1. C # <<>>
    BY <1>2
  <2> QED BY <1>2, <2>1, SeqFacts
<1> QED BY <1>2, <1>6, <1>7 DEF C, a

\* An orderly list that begins with something else, after quiet steps.
LEMMA OrderlyAfterQuiet ==
    ASSUME NEW n, NEW f, NEW L, NEW M, QuietList(L, n, f), IsSeq(M), Orderly(M, n, f),
           M # <<>> => ~EndsSetLastest(Head(M)) /\ ~ClearsBlocks(Head(M))
    PROVE  IsSeq(L \o M) /\ Orderly(L \o M, n, f)
<1> DEFINE C == L \o M
<1>1. /\ IsSeq(C) /\ DOMAIN C = 1..Len(L) + Len(M)
      /\ \A i \in DOMAIN L : i \in DOMAIN C /\ C[i] = L[i]
      /\ \A i \in DOMAIN C :
            i \in DOMAIN L \/ (i - Len(L) \in DOMAIN M /\ C[i] = M[i - Len(L)])
  BY ConcatFacts DEF QuietList
<1>2. /\ Len(L) \in Nat /\ DOMAIN L = 1..Len(L) /\ Len(M) \in Nat /\ DOMAIN M = 1..Len(M)
      /\ M # <<>> => Head(M) = M[1]
  BY SeqFacts DEF QuietList
<1> HIDE DEF C
<1>3. \A j \in DOMAIN M : j + Len(L) \in DOMAIN C /\ C[j + Len(L)] = M[j]
  <2> TAKE j \in DOMAIN M
  <2>1. j + Len(L) \in DOMAIN C /\ j + Len(L) \notin DOMAIN L /\ (j + Len(L)) - Len(L) = j
    BY <1>1, <1>2
  <2> QED BY <1>1, <2>1
<1>4. ASSUME NEW i \in DOMAIN C
      PROVE  /\ ItemOK(C[i], n, f)
             /\ SetsLastest(C[i]) => i + 1 \in DOMAIN C /\ Completes(C[i], C[i + 1])
             /\ EndsSetLastest(C[i]) => i = 1 \/ (i - 1 \in DOMAIN C /\ SetsLastest(C[i - 1]))
             /\ ClearsBlocks(C[i]) => i = 1
  <2>1. CASE i \in DOMAIN L
    BY <1>1, <2>1, Zenon DEF QuietList, Quiet
  <2>2. CASE i - Len(L) \in DOMAIN M /\ C[i] = M[i - Len(L)]
    <3> DEFINE j == i - Len(L)
    <3>1. /\ j \in DOMAIN M /\ C[i] = M[j] /\ j \in Nat
          /\ (j + 1) + Len(L) = i + 1 /\ (j - 1) + Len(L) = i - 1
      BY <1>1, <1>2, <2>2
    <3> HIDE DEF j
    <3>2. /\ ItemOK(M[j], n, f)
          /\ SetsLastest(M[j]) => j + 1 \in DOMAIN M /\ Completes(M[j], M[j + 1])
          /\ EndsSetLastest(M[j]) => j = 1 \/ (j - 1 \in DOMAIN M /\ SetsLastest(M[j - 1]))
          /\ ClearsBlocks(M[j]) => j = 1
      BY <3>1 DEF Orderly
    <3>3. ~EndsSetLastest(M[1]) /\ ~ClearsBlocks(M[1])
      <4>1. M # <<>>
        BY <3>1
      <4> QED BY <1>2, <4>1
    <3>4. SetsLastest(C[i]) => i + 1 \in DOMAIN C /\ Completes(C[i], C[i + 1])
      <4>1. \A k \in DOMAIN M : k + Len(L) = i + 1 => i + 1 \in DOMAIN C /\ C[i + 1] = M[k]
        BY <1>3
      <4> QED BY <3>1, <3>2, <4>1
    <3>5. EndsSetLastest(C[i]) => i - 1 \in DOMAIN C /\ SetsLastest(C[i - 1])
      <4>1. \A k \in DOMAIN M : k + Len(L) = i - 1 => i - 1 \in DOMAIN C /\ C[i - 1] = M[k]
        BY <1>3
      <4> QED BY <3>1, <3>2, <3>3, <4>1
    <3>6. ~ClearsBlocks(C[i])
      BY <3>1, <3>2, <3>3
    <3> QED BY <3>1, <3>2, <3>4, <3>5, <3>6
  <2> QED BY <1>1, <2>1, <2>2
<1>5. Orderly(C, n, f)
  BY <1>4, Zenon DEF Orderly
<1> QED BY <1>1, <1>5 DEF C

\* What is left after the first step.
LEMMA OrderlyTail ==
    ASSUME NEW n, NEW f, NEW L, IsSeq(L), Orderly(L, n, f), L # <<>>
    PROVE  /\ IsSeq(Tail(L)) /\ Orderly(Tail(L), n, f)
           /\ Tail(L) # <<>> =>
                 /\ ~ClearsBlocks(Head(Tail(L)))
                 /\ EndsSetLastest(Head(Tail(L))) => SetsLastest(Head(L))
           /\ SetsLastest(Head(L)) => Tail(L) # <<>> /\ Completes(Head(L), Head(Tail(L)))
<1> DEFINE M == Tail(L)
<1>1. /\ Len(L) \in Nat /\ DOMAIN L = 1..Len(L) /\ Head(L) = L[1] /\ 1 \in DOMAIN L
      /\ IsSeq(M) /\ DOMAIN M = 1..Len(L) - 1 /\ Len(M) = Len(L) - 1
      /\ \A i \in DOMAIN M : i + 1 \in DOMAIN L /\ M[i] = L[i + 1]
  BY SeqFacts
<1>2. M # <<>> => Head(M) = M[1] /\ 1 \in DOMAIN M
  BY <1>1, SeqFacts
<1> HIDE DEF M
<1>3. ASSUME NEW i \in DOMAIN M
      PROVE  /\ ItemOK(M[i], n, f)
             /\ SetsLastest(M[i]) => i + 1 \in DOMAIN M /\ Completes(M[i], M[i + 1])
             /\ EndsSetLastest(M[i]) =>
                   \/ i = 1 /\ SetsLastest(L[1])
                   \/ i - 1 \in DOMAIN M /\ SetsLastest(M[i - 1])
             /\ ~ClearsBlocks(M[i])
  <2> DEFINE j == i + 1
  <2>1. j \in DOMAIN L /\ M[i] = L[j] /\ j # 1 /\ i \in Nat /\ j \in Nat /\ i = j - 1 /\ j = i + 1
    BY <1>1
  <2> HIDE DEF j
  <2>2. /\ ItemOK(L[j], n, f)
        /\ SetsLastest(L[j]) => j + 1 \in DOMAIN L /\ Completes(L[j], L[j + 1])
        /\ EndsSetLastest(L[j]) => j = 1 \/ (j - 1 \in DOMAIN L /\ SetsLastest(L[j - 1]))
        /\ ClearsBlocks(L[j]) => j = 1
    BY <2>1 DEF Orderly
  <2>3. SetsLastest(M[i]) => i + 1 \in DOMAIN M /\ Completes(M[i], M[i + 1])
    <3>1. SUFFICES ASSUME SetsLastest(M[i]) PROVE i + 1 \in DOMAIN M /\ Completes(M[i], M[i + 1])
      OBVIOUS
    <3>2. j + 1 \in DOMAIN L /\ Completes(L[j], L[j + 1])
      BY <2>1, <2>2, <3>1
    <3>3. i + 1 \in DOMAIN M
      BY <1>1, <2>1, <3>2
    <3>4. M[i + 1] = L[j + 1]
      BY <1>1, <2>1, <3>3
    <3> QED BY <2>1, <3>2, <3>3, <3>4
  <2>4. EndsSetLastest(M[i]) => \/ i = 1 /\ SetsLastest(L[1])
                                \/ i - 1 \in DOMAIN M /\ SetsLastest(M[i - 1])
    <3>1. SUFFICES ASSUME EndsSetLastest(M[i])
                   PROVE  \/ i = 1 /\ SetsLastest(L[1])
                          \/ i - 1 \in DOMAIN M /\ SetsLastest(M[i - 1])
      OBVIOUS
    <3>2. SetsLastest(L[i])
      BY <2>1, <2>2, <3>1
    <3>3. CASE i = 1
      BY <3>2, <3>3
    <3>4. CASE i # 1
      <4>1. i - 1 \in DOMAIN M /\ (i - 1) + 1 = i
        BY <1>1, <2>1, <3>4
      <4> QED BY <1>1, <3>2, <4>1
    <3> QED BY <3>3, <3>4
  <2> QED BY <2>1, <2>2, <2>3, <2>4
<1>4. Orderly(M, n, f)
  BY <1>3, Zenon DEF Orderly
<1>5. M # <<>> => ~ClearsBlocks(Head(M)) /\ (EndsSetLastest(Head(M)) => SetsLastest(Head(L)))
  <2>1. 1 - 1 \notin DOMAIN M
    BY <1>1
  <2> QED BY <1>1, <1>2, <1>3, <2>1
<1>6. ASSUME SetsLastest(Head(L)) PROVE M # <<>> /\ Completes(Head(L), Head(M))
  <2>1. 1 + 1 \in DOMAIN L /\ Completes(L[1], L[1 + 1])
    BY <1>1, <1>6 DEF Orderly
  <2>2. 1 \in DOMAIN M /\ M # <<>>
    BY <1>1, <2>1
  <2> QED BY <1>1, <1>2, <2>1, <2>2
<1> QED BY <1>1, <1>4, <1>5, <1>6 DEF M

-----------------------------------------------------------------------------
(* The lists that the operations make *)

LEMMA SetLastestOrderly ==
    ASSUME NEW n \in Nat, NEW f, NEW b \in BlockSet(n) \cup {Absent}
    PROVE  /\ IsSeq(SetLastest(b)) /\ Orderly(SetLastest(b), n, f) /\ SetLastest(b) # <<>>
           /\ ~EndsSetLastest(SetLastest(b)[1]) /\ ~ClearsBlocks(SetLastest(b)[1])
<1>1. ASSUME NEW v \in BlockSet(n), NEW c, ItemOK(c, n, f), EndsSetLastest(c),
             Completes(Write("Blocks", Lastest, v), c)
      PROVE  LET L == <<Write("Blocks", Lastest, v), c>>
             IN  /\ IsSeq(L) /\ Orderly(L, n, f) /\ L # <<>>
                 /\ ~EndsSetLastest(L[1]) /\ ~ClearsBlocks(L[1])
  <2> DEFINE a == Write("Blocks", Lastest, v)
             L == <<a, c>>
  <2>1. ItemOK(a, n, f) /\ SetsLastest(a) /\ ~EndsSetLastest(a) /\ ~ClearsBlocks(a)
    <3>1. EntryOK("Blocks", Lastest, v, n)
      BY LastestKey, KeysDiffer, ConstFacts DEF EntryOK, Bucket
    <3> QED BY <3>1 DEF Write, ItemOK, SetsLastest, EndsSetLastest, ClearsBlocks
  <2>2. ~SetsLastest(c) /\ ~ClearsBlocks(c)
    BY <1>1 DEF EndsSetLastest, SetsLastest, ClearsBlocks
  <2>3. Completes(a, c)
    BY <1>1
  <2> HIDE DEF a
  <2>4. IsSeq(L) /\ DOMAIN L = 1..2 /\ L[1] = a /\ L[2] = c /\ L # <<>>
    BY DEF IsSeq
  <2> HIDE DEF L
  <2>5. ASSUME NEW i \in DOMAIN L
        PROVE  /\ ItemOK(L[i], n, f)
               /\ SetsLastest(L[i]) => i + 1 \in DOMAIN L /\ Completes(L[i], L[i + 1])
               /\ EndsSetLastest(L[i]) => i = 1 \/ (i - 1 \in DOMAIN L /\ SetsLastest(L[i - 1]))
               /\ ClearsBlocks(L[i]) => i = 1
    <3>1. CASE i = 1
      BY <2>1, <2>3, <2>4, <3>1
    <3>2. CASE i = 2
      BY <1>1, <2>1, <2>2, <2>4, <3>2
    <3> QED BY <2>4, <3>1, <3>2
  <2>6. Orderly(L, n, f)
    BY <2>5, Zenon DEF Orderly
  <2> QED BY <2>1, <2>4, <2>6 DEF L, a
<1>2. CASE b = Absent
  <2> DEFINE c == [do |-> "exit"]
  <2>1. NullBlock \in BlockSet(n)
    BY DEF NullBlock, NewBlock, BlockSet
  <2>2. ItemOK(c, n, f) /\ EndsSetLastest(c) /\ \A s : Completes(s, c)
    BY DEF ItemOK, EndsSetLastest, Completes
  <2>3. SetLastest(b) = <<Write("Blocks", Lastest, NullBlock), c>>
    BY <1>2 DEF SetLastest
  <2> HIDE DEF c
  <2> QED BY <1>1, <2>1, <2>2, <2>3
<1>3. CASE b \in BlockSet(n) /\ b # Absent
  <2> DEFINE c == [do |-> "cache", value |-> b.height]
  <2>1. b.height \in 0..n
    BY <1>3 DEF BlockSet
  <2>2. ItemOK(c, n, f) /\ EndsSetLastest(c) /\ Completes(Write("Blocks", Lastest, b), c)
    BY <2>1 DEF ItemOK, EndsSetLastest, Completes, Write
  <2>3. SetLastest(b) = <<Write("Blocks", Lastest, b), c>>
    BY <1>3 DEF SetLastest
  <2> HIDE DEF c
  <2> QED BY <1>1, <1>3, <2>2, <2>3
<1> QED BY <1>2, <1>3

\* Writes of other keys than lastest.
LEMMA QuietWrite ==
    ASSUME NEW n, NEW f, NEW bucket, NEW key, NEW value, EntryOK(bucket, key, value, n),
           bucket # "Blocks" \/ key # Lastest
    PROVE  Quiet(Write(bucket, key, value), n, f)
BY DEF Write, Quiet, ItemOK, SetsLastest, EndsSetLastest, ClearsBlocks

LEMMA QuietErase ==
    ASSUME NEW n, NEW f, NEW bucket, NEW key, bucket # "Blocks" \/ key # Lastest
    PROVE  Quiet(Erase(bucket, key), n, f)
BY DEF Erase, Quiet, ItemOK, SetsLastest, EndsSetLastest, ClearsBlocks

LEMMA QuietEmpty ==
    ASSUME NEW n, NEW f, NEW bucket, bucket # "Blocks"
    PROVE  Quiet(Empty(bucket), n, f)
BY DEF Empty, Quiet, ItemOK, SetsLastest, EndsSetLastest, ClearsBlocks

\* The writes of a block.
LEMMA BlockEntries ==
    ASSUME NEW n, NEW b \in BlockSet(n)
    PROVE  /\ EntryOK("Blocks", Hash(b), b, n)
           /\ EntryOK("Blocks", HeightToBytes(b.height), Hash(b), n)
           /\ EntryOK("Blockheads", HeightToBytes(b.height), b, n)
           /\ EntryOK("Blockheads", Lastest, b, n)
           /\ EntryOK("Blocks", Lastest, b, n)
           /\ EntryOK("Txns", Hash(b), b, n)
           /\ EntryOK("UTXOSet", Hash(b), b, n)
           /\ Hash(b) # Lastest /\ HeightToBytes(b.height) # Lastest /\ Hash(b) # <<>>
<1>1. b.height \in Int
  BY DEF BlockSet
<1>2. Hash(b) \in HashSet /\ Hash(b) \in Seq(Int) /\ Len(Hash(b)) > Width /\ Len(Hash(b)) \in Int
      /\ Hash(b) # Lastest /\ Hash(b) # <<>>
  BY HashKey, KeysDiffer DEF HashSet
<1>3. /\ HeightToBytes(b.height) \in Seq(Int) /\ Len(HeightToBytes(b.height)) <= Width
      /\ Len(HeightToBytes(b.height)) \in Int /\ HeightToBytes(b.height) # Lastest
  <2>1. HeightToBytes(b.height) \in Seq(Int) /\ Len(HeightToBytes(b.height)) <= Width
    BY <1>1, HeightKey
  <2>2. HeightToBytes(b.height) # Lastest
    BY <1>1, KeysDiffer
  <2>3. Len(HeightToBytes(b.height)) \in Int
    BY <2>1, LenProperties
  <2> QED BY <2>1, <2>2, <2>3
<1>4. Lastest \in Seq(Int) /\ Len(Lastest) > Width /\ Len(Lastest) \in Int
  BY LastestKey, KeysDiffer
<1>5. Width \in Int
  BY ConstFacts
<1> DEFINE k == HeightToBytes(b.height)
           g == Hash(b)
<1> HIDE DEF k, g
<1> QED BY <1>2, <1>3, <1>4, <1>5 DEF EntryOK, Bucket, k, g

LEMMA StoreBlockOrderly ==
    ASSUME NEW n \in Nat, NEW f, NEW b \in BlockSet(n)
    PROVE  /\ IsSeq(StoreBlock(b)) /\ Orderly(StoreBlock(b), n, f) /\ StoreBlock(b) # <<>>
           /\ ~EndsSetLastest(StoreBlock(b)[1]) /\ ~ClearsBlocks(StoreBlock(b)[1])
<1> DEFINE A == SetLastest(b)
           B == <<Write("Blocks", Hash(b), b), Write("Blocks", HeightToBytes(b.height), Hash(b))>>
           C == AddBlockhead(b)
           D == <<Write("Txns", Hash(b), b)>>
<1>1. /\ IsSeq(A) /\ Orderly(A, n, f) /\ A # <<>>
      /\ ~EndsSetLastest(A[1]) /\ ~ClearsBlocks(A[1])
  BY SetLastestOrderly
<1>2. QuietList(B, n, f)
  BY QuietTwo, QuietWrite, BlockEntries
<1>3. QuietList(C, n, f)
  <2>1. Quiet([do |-> "check", value |-> b], n, f)
    BY DEF Quiet, ItemOK, SetsLastest, EndsSetLastest, ClearsBlocks
  <2> QED BY <2>1, QuietOne DEF AddBlockhead
<1>4. QuietList(D, n, f)
  BY QuietOne, QuietWrite, BlockEntries
<1>5. StoreBlock(b) = ((A \o B) \o C) \o D
  BY DEF StoreBlock
<1> HIDE DEF A, B, C, D
<1>6. ASSUME NEW L, IsSeq(L), Orderly(L, n, f), L # <<>>, NEW M, QuietList(M, n, f)
      PROVE  /\ IsSeq(L \o M) /\ Orderly(L \o M, n, f) /\ L \o M # <<>>
             /\ (L \o M)[1] = L[1]
  <2>1. IsSeq(L \o M) /\ Orderly(L \o M, n, f)
    BY <1>6, OrderlyConcat
  <2>2. 1 \in DOMAIN L
    BY <1>6, SeqFacts
  <2>3. 1 \in DOMAIN (L \o M) /\ (L \o M)[1] = L[1]
    BY <1>6, <2>2, ConcatFacts DEF QuietList
  <2>4. L \o M # <<>>
    BY <2>3
  <2> QED BY <2>1, <2>3, <2>4
<1> DEFINE AB == A \o B
           ABC == AB \o C
<1>7. IsSeq(AB) /\ Orderly(AB, n, f) /\ AB # <<>> /\ AB[1] = A[1]
  BY <1>1, <1>2, <1>6
<1> HIDE DEF AB
<1>8. IsSeq(ABC) /\ Orderly(ABC, n, f) /\ ABC # <<>> /\ ABC[1] = A[1]
  BY <1>3, <1>6, <1>7
<1> HIDE DEF ABC
<1>9. IsSeq(ABC \o D) /\ Orderly(ABC \o D, n, f) /\ ABC \o D # <<>> /\ (ABC \o D)[1] = A[1]
  BY <1>4, <1>6, <1>8
<1>10. StoreBlock(b) = ABC \o D
  BY <1>5 DEF AB, ABC
<1> QED BY <1>1, <1>9, <1>10

LEMMA AddBlockOrderly ==
    ASSUME NEW n \in Nat, NEW f, NEW b \in BlockSet(n)
    PROVE  /\ IsSeq(StoreBlock(b) \o Update(b)) /\ Orderly(StoreBlock(b) \o Update(b), n, f)
           /\ Head(StoreBlock(b) \o Update(b)).do \notin {"cache", "exit"}
           /\ ~ClearsBlocks(Head(StoreBlock(b) \o Update(b)))
<1> DEFINE A == StoreBlock(b)
           B == Update(b)
           C == A \o B
<1>1. IsSeq(A) /\ Orderly(A, n, f) /\ A # <<>> /\ ~EndsSetLastest(A[1]) /\ ~ClearsBlocks(A[1])
  BY StoreBlockOrderly
<1>2. QuietList(B, n, f)
  BY QuietOne, QuietWrite, BlockEntries DEF Update
<1> HIDE DEF A, B
<1>3. IsSeq(C) /\ Orderly(C, n, f)
  BY <1>1, <1>2, OrderlyConcat
<1>4. 1 \in DOMAIN A
  BY <1>1, SeqFacts
<1>5. 1 \in DOMAIN C /\ C[1] = A[1]
  BY <1>1, <1>2, <1>4, ConcatFacts DEF QuietList
<1> HIDE DEF C
<1>6. C # <<>>
  BY <1>5
<1>7. Head(C) = A[1]
  BY <1>3, <1>5, <1>6, SeqFacts
<1>8. Head(C).do \notin {"cache", "exit"} /\ ~ClearsBlocks(Head(C))
  BY <1>1, <1>7 DEF EndsSetLastest
<1> QED BY <1>3, <1>8 DEF C, A, B

LEMMA AddGenesisOrderly ==
    ASSUME NEW n \in Nat, NEW f, NEW b \in BlockSet(n)
    PROVE  LET L == <<Empty("Blocks")>> \o StoreBlock(b) \o <<Empty("UTXOSet")>> \o Update(b)
                      \o <<Empty("Txns"), Write("Txns", Hash(b), b)>>
           IN  IsSeq(L) /\ Orderly(L, n, f) /\ L # <<>> /\ Head(L) = Empty("Blocks")
<1> DEFINE A == <<Empty("Blocks")>> \o StoreBlock(b)
           B == <<Empty("UTXOSet")>>
           C == Update(b)
           D == <<Empty("Txns"), Write("Txns", Hash(b), b)>>
           a == Empty("Blocks")
<1>1. IsSeq(A) /\ Orderly(A, n, f) /\ A # <<>> /\ Head(A) = a
  BY StoreBlockOrderly, OrderlyAfterClear
<1>2. QuietList(B, n, f)
  BY QuietOne, QuietEmpty
<1>3. QuietList(C, n, f)
  BY QuietOne, QuietWrite, BlockEntries DEF Update
<1>4. QuietList(D, n, f)
  BY QuietTwo, QuietEmpty, QuietWrite, BlockEntries
<1> HIDE DEF A, B, C, D, a
<1>5. ASSUME NEW L, IsSeq(L), Orderly(L, n, f), L # <<>>, Head(L) = a, NEW M, QuietList(M, n, f)
      PROVE  IsSeq(L \o M) /\ Orderly(L \o M, n, f) /\ L \o M # <<>> /\ Head(L \o M) = a
  <2> DEFINE N == L \o M
  <2>1. IsSeq(N) /\ Orderly(N, n, f)
    BY <1>5, OrderlyConcat
  <2>2. 1 \in DOMAIN L /\ Head(L) = L[1]
    BY <1>5, SeqFacts
  <2>3. 1 \in DOMAIN N /\ N[1] = L[1]
    BY <1>5, <2>2, ConcatFacts DEF QuietList
  <2> HIDE DEF N
  <2>4. N # <<>>
    BY <2>3
  <2>5. Head(N) = a
    BY <1>5, <2>1, <2>2, <2>3, <2>4, SeqFacts
  <2> QED BY <2>1, <2>4, <2>5 DEF N
<1> DEFINE AB == A \o B
           ABC == AB \o C
           ABCD == ABC \o D
<1>6. IsSeq(AB) /\ Orderly(AB, n, f) /\ AB # <<>> /\ Head(AB) = a
  BY <1>1, <1>2, <1>5
<1> HIDE DEF AB
<1>7. IsSeq(ABC) /\ Orderly(ABC, n, f) /\ ABC # <<>> /\ Head(ABC) = a
  BY <1>3, <1>5, <1>6
<1> HIDE DEF ABC
<1>8. IsSeq(ABCD) /\ Orderly(ABCD, n, f) /\ ABCD # <<>> /\ Head(ABCD) = a
  BY <1>4, <1>5, <1>7
<1> QED BY <1>8 DEF ABCD, ABC, AB, A, B, C, D, a

LEMMA SyncBlocksOrderly ==
    ASSUME NEW n \in Nat, NEW f, NEW b \in BlockSet(n) \cup {Absent}, NEW s,
           s.do = "fetch", ItemOK(s, n, f)
    PROVE  /\ IsSeq(SetLastest(b) \o <<s>>) /\ Orderly(SetLastest(b) \o <<s>>, n, f)
           /\ Head(SetLastest(b) \o <<s>>).do \notin {"cache", "exit"}
           /\ ~ClearsBlocks(Head(SetLastest(b) \o <<s>>))
<1> DEFINE A == SetLastest(b)
           B == <<s>>
           C == A \o B
<1>1. IsSeq(A) /\ Orderly(A, n, f) /\ A # <<>> /\ ~EndsSetLastest(A[1]) /\ ~ClearsBlocks(A[1])
  BY SetLastestOrderly
<1>2. QuietList(B, n, f)
  <2>1. Quiet(s, n, f)
    BY DEF Quiet, SetsLastest, EndsSetLastest, ClearsBlocks
  <2> QED BY <2>1, QuietOne
<1> HIDE DEF A, B
<1>3. IsSeq(C) /\ Orderly(C, n, f)
  BY <1>1, <1>2, OrderlyConcat
<1>4. 1 \in DOMAIN A
  BY <1>1, SeqFacts
<1>5. 1 \in DOMAIN C /\ C[1] = A[1]
  BY <1>1, <1>2, <1>4, ConcatFacts DEF QuietList
<1> HIDE DEF C
<1>6. C # <<>>
  BY <1>5
<1>7. Head(C) = A[1]
  BY <1>3, <1>5, <1>6, SeqFacts
<1>8. Head(C).do \notin {"cache", "exit"} /\ ~ClearsBlocks(Head(C))
  BY <1>1, <1>7 DEF EndsSetLastest
<1> QED BY <1>3, <1>8 DEF C, A, B

LEMMA EmptyQuiet ==
    ASSUME NEW n, NEW f
    PROVE  QuietList(<<>>, n, f)
BY DEF QuietList, IsSeq

LEMMA DeleteDownToQuiet ==
    ASSUME NEW n \in Nat, NEW f, NEW h \in -1..n, NEW r \in 0..n
    PROVE  QuietList(DeleteDownTo(h, r), n, f)
<1>1. CASE h > r
  <2>1. Quiet([do |-> "revert", from |-> h, to |-> r], n, f)
    BY <1>1 DEF Quiet, ItemOK, SetsLastest, EndsSetLastest, ClearsBlocks
  <2> QED BY <1>1, <2>1, QuietOne DEF DeleteDownTo
<1>2. CASE ~(h > r)
  BY <1>2, EmptyQuiet DEF DeleteDownTo
<1> QED BY <1>1, <1>2

LEMMA DeleteBlockQuiet ==
    ASSUME NEW n, NEW f, NEW b \in BlockSet(n)
    PROVE  QuietList(DeleteBlock(b), n, f)
BY QuietFour, QuietErase, BlockEntries DEF DeleteBlock

\* What AddBlockhead writes: no key of the bucket of the blocks.
HeadsItem(s, n) ==
    \/ s.do = "headCache" /\ s.value \in 0..n
    \/ s.do = "set" /\ s.bucket = "Blockheads" /\ EntryOK(s.bucket, s.key, s.value, n)

HeadsList(L, n) == IsSeq(L) /\ \A i \in DOMAIN L : HeadsItem(L[i], n)

LEMMA WriteHeadFacts ==
    ASSUME NEW n, NEW f, NEW b \in BlockSet(n)
    PROVE  HeadsList(WriteHead(b), n) /\ QuietList(WriteHead(b), n, f)
<1> DEFINE x == [do |-> "headCache", value |-> b.height]
           y == Write("Blockheads", HeightToBytes(b.height), b)
           z == Write("Blockheads", Lastest, b)
<1>1. Quiet(x, n, f) /\ HeadsItem(x, n)
  <2>1. b.height \in 0..n
    BY DEF BlockSet
  <2> QED BY <2>1 DEF Quiet, ItemOK, SetsLastest, EndsSetLastest, ClearsBlocks, HeadsItem
<1>2. Quiet(y, n, f) /\ Quiet(z, n, f)
  BY QuietWrite, BlockEntries
<1>3. HeadsItem(y, n) /\ HeadsItem(z, n)
  BY BlockEntries DEF HeadsItem, Write
<1>4. WriteHead(b) = <<x, y, z>>
  BY DEF WriteHead
<1> HIDE DEF x, y, z
<1>5. QuietList(<<x, y, z>>, n, f)
  BY <1>1, <1>2, QuietThree
<1>6. HeadsList(<<x, y, z>>, n)
  <2>1. /\ IsSeq(<<x, y, z>>) /\ DOMAIN <<x, y, z>> = 1..3
        /\ <<x, y, z>>[1] = x /\ <<x, y, z>>[2] = y /\ <<x, y, z>>[3] = z
    BY DEF IsSeq
  <2> QED BY <1>1, <1>3, <2>1 DEF HeadsList
<1> QED BY <1>4, <1>5, <1>6

LEMMA HeadsTail ==
    ASSUME NEW n, NEW L, HeadsList(L, n), L # <<>>
    PROVE  HeadsList(Tail(L), n) /\ HeadsItem(Head(L), n)
BY SeqFacts DEF HeadsList

-----------------------------------------------------------------------------
(* Writing *)

LEMMA SetKeeps ==
    ASSUME NEW f, NEW n, FileOK(f, n), NEW bucket, NEW key, NEW value,
           EntryOK(bucket, key, value, n), key # <<>>
    PROVE  /\ FileOK(Set(f, bucket, key, value), n)
           /\ LastestHeight(Set(f, bucket, key, value)) =
                 IF bucket = "Blocks" /\ key = Lastest THEN value.height ELSE LastestHeight(f)
<1> DEFINE g == Set(f, bucket, key, value)
           y == <<bucket, key>>
<1>1. /\ DOMAIN g = DOMAIN f \cup {y}
      /\ \A x \in DOMAIN g : g[x] = IF x = y THEN value ELSE f[x]
  BY DEF Set
<1> HIDE DEF g
<1>2. FileOK(g, n)
  <2> SUFFICES ASSUME NEW x \in DOMAIN g
               PROVE  x \in Bucket \X (Seq(Int) \ {<<>>}) /\ EntryOK(x[1], x[2], g[x], n)
    BY Zenon DEF FileOK
  <2>1. CASE x = y
    <3>1. g[x] = value /\ x[1] = bucket /\ x[2] = key
      BY <1>1, <2>1
    <3>2. bucket \in Bucket /\ key \in Seq(Int) \ {<<>>}
      BY DEF EntryOK
    <3> QED BY <2>1, <3>1, <3>2
  <2>2. CASE x # y
    BY <1>1, <2>2 DEF FileOK
  <2> QED BY <2>1, <2>2
<1>3. CASE bucket = "Blocks" /\ key = Lastest
  <2>1. value \in BlockSet(n) /\ value # Absent
    BY <1>3, KeysDiffer, ConstFacts DEF EntryOK
  <2>2. GetLastest(g) = value
    BY <1>1, <1>3 DEF GetLastest, Get
  <2> QED BY <1>2, <1>3, <2>1, <2>2 DEF LastestHeight, g
<1>4. CASE ~(bucket = "Blocks" /\ key = Lastest)
  <2>1. <<"Blocks", Lastest>> # y
    BY <1>4
  <2>2. GetLastest(g) = GetLastest(f)
    BY <1>1, <2>1 DEF GetLastest, Get
  <2> QED BY <1>2, <1>4, <2>2 DEF LastestHeight, g
<1> QED BY <1>3, <1>4

LEMMA DeleteKeeps ==
    ASSUME NEW f, NEW n, FileOK(f, n), NEW bucket, NEW key
    PROVE  /\ FileOK(Delete(f, bucket, key), n)
           /\ bucket # "Blocks" \/ key # Lastest
                 => LastestHeight(Delete(f, bucket, key)) = LastestHeight(f)
<1> DEFINE g == Delete(f, bucket, key)
           y == <<bucket, key>>
<1>1. DOMAIN g = DOMAIN f \ {y} /\ \A x \in DOMAIN g : g[x] = f[x]
  BY DEF Delete
<1> HIDE DEF g
<1>2. FileOK(g, n)
  BY <1>1 DEF FileOK
<1>3. ASSUME bucket # "Blocks" \/ key # Lastest PROVE LastestHeight(g) = LastestHeight(f)
  <2>1. <<"Blocks", Lastest>> # y
    BY <1>3
  <2>2. GetLastest(g) = GetLastest(f)
    BY <1>1, <2>1 DEF GetLastest, Get
  <2> QED BY <2>2 DEF LastestHeight
<1> QED BY <1>2, <1>3 DEF g

LEMMA ClearKeeps ==
    ASSUME NEW f, NEW n, FileOK(f, n), NEW bucket
    PROVE  /\ FileOK(Clear(f, bucket), n)
           /\ LastestHeight(Clear(f, bucket)) = IF bucket = "Blocks" THEN -1 ELSE LastestHeight(f)
<1> DEFINE g == Clear(f, bucket)
<1>1. DOMAIN g = {y \in DOMAIN f : y[1] # bucket} /\ \A x \in DOMAIN g : g[x] = f[x]
  BY DEF Clear
<1> HIDE DEF g
<1>2. FileOK(g, n)
  BY <1>1 DEF FileOK
<1> DEFINE y == <<"Blocks", Lastest>>
<1>3. y[1] = "Blocks"
  OBVIOUS
<1>4. CASE bucket = "Blocks"
  <2>1. y \notin DOMAIN g
    BY <1>1, <1>3, <1>4
  <2> QED BY <1>2, <1>4, <2>1 DEF GetLastest, Get, LastestHeight, g
<1>5. CASE bucket # "Blocks"
  <2>1. GetLastest(g) = GetLastest(f)
    BY <1>1, <1>3, <1>5 DEF GetLastest, Get
  <2> QED BY <1>2, <1>5, <2>1 DEF LastestHeight, g
<1> QED BY <1>4, <1>5

-----------------------------------------------------------------------------
(* The inductive invariant *)

Counts ==
    /\ top \in Int /\ top >= -1
    /\ forks \in 0..MaxForks /\ crashes \in 0..MaxCrashes /\ headsCut \in BOOLEAN

Heights ==
    /\ cache \in {Absent} \cup (-1..top)
    /\ loading \in {Absent} \cup (-1..top)
    /\ headCache \in {Absent} \cup (-1..top)

Unfinished == torn \subseteq 0..top /\ adding \in {Absent} \cup BlockSet(top)

Lists ==
    /\ DOMAIN todo = Activity
    /\ IsSeq(todo["chain"]) /\ Orderly(todo["chain"], top, forks)
    /\ HeadsList(todo["heads"], top)

\* While the chain is written, the once has run; a once that runs has read what is
\* stored; and at the step that differs, the cache is about to follow.
Fresh ==
    /\ todo["chain"] # <<>> => cache # Absent
    /\ loading # Absent => cache = Absent /\ loading = LastestHeight(file)
    /\ Has("chain", "cache") => LastestHeight(file) = Head(todo["chain"]).value
    /\ todo["chain"] # <<>> /\ ClearsBlocks(Head(todo["chain"])) => cache = -1
    /\ CacheFresh

IInv == Counts /\ Heights /\ Unfinished /\ FileOK(file, top) /\ Lists /\ Fresh

\* The next step of the chain, or of the heads, has what it needs.
LEMMA ChainHead ==
    ASSUME Lists, todo["chain"] # <<>>
    PROVE  ItemOK(Head(todo["chain"]), top, forks)
BY SeqFacts DEF Lists, Orderly

LEMMA HeadsHead ==
    ASSUME Lists, todo["heads"] # <<>>
    PROVE  HeadsItem(Head(todo["heads"]), top)
BY HeadsTail DEF Lists

LEMMA GoOnFacts ==
    ASSUME Lists, Unfinished, NEW p \in Activity, NEW rest, GoOn(p, rest), top' = top
    PROVE  /\ Unfinished' /\ DOMAIN todo' = Activity
           /\ todo'[p] = rest /\ \A q \in Activity : q # p => todo'[q] = todo[q]
<1>1. /\ DOMAIN todo' = Activity /\ todo'[p] = rest
      /\ \A q \in Activity : q # p => todo'[q] = todo[q]
  BY DEF Lists, GoOn
<1>2. CASE p = "chain" /\ rest = <<>> /\ adding # Absent
  BY <1>1, <1>2 DEF GoOn, Unfinished
<1>3. CASE ~(p = "chain" /\ rest = <<>> /\ adding # Absent)
  <2>1. adding' = adding /\ torn' = torn
    BY <1>3 DEF GoOn
  <2> QED BY <1>1, <2>1 DEF Unfinished
<1> QED BY <1>2, <1>3

\* A step of the heads.
LEMMA HeadsGoOn ==
    ASSUME Lists, Unfinished, todo["heads"] # <<>>, GoOn("heads", Tail(todo["heads"])),
           UNCHANGED <<top, forks>>
    PROVE  Lists' /\ Unfinished' /\ todo'["chain"] = todo["chain"]
<1>1. /\ Unfinished' /\ DOMAIN todo' = Activity
      /\ todo'["heads"] = Tail(todo["heads"]) /\ todo'["chain"] = todo["chain"]
  BY GoOnFacts DEF Activity
<1>2. HeadsList(Tail(todo["heads"]), top)
  BY HeadsTail DEF Lists
<1> QED BY <1>1, <1>2 DEF Lists

\* A step of the chain after which an orderly list is left.
LEMMA ChainGoOn ==
    ASSUME Lists, Unfinished, NEW M, GoOn("chain", M), top' = top,
           IsSeq(M), Orderly(M, top, forks')
    PROVE  Lists' /\ Unfinished' /\ todo'["chain"] = M
<1>1. /\ Unfinished' /\ DOMAIN todo' = Activity
      /\ todo'["chain"] = M /\ todo'["heads"] = todo["heads"]
  BY GoOnFacts DEF Activity
<1> QED BY <1>1 DEF Lists

\* What the rest of the list may begin with.
LEMMA ChainRest ==
    ASSUME Lists, todo["chain"] # <<>>
    PROVE  LET s == Head(todo["chain"])
               M == Tail(todo["chain"])
           IN  /\ IsSeq(M) /\ Orderly(M, top, forks)
               /\ M # <<>> => ~ClearsBlocks(Head(M)) /\ (EndsSetLastest(Head(M)) => SetsLastest(s))
               /\ SetsLastest(s) => M # <<>> /\ Completes(s, Head(M))
BY OrderlyTail DEF Lists

\* The invariant of the cache when the chain is not touched.
LEMMA FreshSame ==
    ASSUME Fresh, todo'["chain"] = todo["chain"], UNCHANGED <<cache, loading>>,
           LastestHeight(file') = LastestHeight(file)
    PROVE  Fresh'
<1>1. LastestHeight(file)' = LastestHeight(file)
  OBVIOUS
<1> QED BY <1>1 DEF Fresh, CacheFresh, Has

\* And after a step of the chain that leaves M.
LEMMA FreshNext ==
    ASSUME NEW M, todo'["chain"] = M, loading' = Absent, cache' # Absent,
           M # <<>> => ~ClearsBlocks(Head(M)),
           M # <<>> /\ Head(M).do = "cache" => LastestHeight(file') = Head(M).value,
           M = <<>> \/ ~EndsSetLastest(Head(M)) => cache' = LastestHeight(file')
    PROVE  Fresh'
<1>1. LastestHeight(file)' = LastestHeight(file')
  OBVIOUS
<1>2. CacheFresh'
  BY <1>1 DEF CacheFresh, Has, EndsSetLastest
<1> QED BY <1>1, <1>2 DEF Fresh, Has

\* A step that has nothing to do with lastest.
LEMMA FreshQuiet ==
    ASSUME Fresh, todo["chain"] # <<>>, ~EndsSetLastest(Head(todo["chain"])),
           NEW M, todo'["chain"] = M, UNCHANGED <<cache, loading>>,
           LastestHeight(file') = LastestHeight(file),
           M # <<>> => ~ClearsBlocks(Head(M)) /\ ~EndsSetLastest(Head(M))
    PROVE  Fresh'
<1>1. cache # Absent /\ loading = Absent /\ cache = LastestHeight(file)
  BY DEF Fresh, CacheFresh, Has, EndsSetLastest
<1>2. M # <<>> => Head(M).do # "cache"
  BY DEF EndsSetLastest
<1> QED BY <1>1, <1>2, FreshNext

-----------------------------------------------------------------------------
(* The actions *)

LEMMA StoredChainOK ==
    ASSUME NEW s \in Starts, NEW n \in Int, s <= n
    PROVE  FileOK(StoredChain(s), n)
<1> DEFINE Entries(b) ==
               {<<<<"Blocks", Hash(b)>>, b>>,
                <<<<"Blocks", HeightToBytes(b.height)>>, Hash(b)>>,
                <<<<"Blockheads", HeightToBytes(b.height)>>, b>>,
                <<<<"Txns", Hash(b)>>, b>>,
                <<<<"UTXOSet", Hash(b)>>, b>>}
               \cup (IF b.height < s THEN {}
                     ELSE {<<<<"Blocks", Lastest>>, b>>, <<<<"Blockheads", Lastest>>, b>>})
           all == UNION {Entries(NewBlock(h, 0, 0)) : h \in 0..s}
           f == StoredChain(s)
           Good(e) == \E bucket, key, value :
                         /\ e = <<<<bucket, key>>, value>> /\ key # <<>>
                         /\ EntryOK(bucket, key, value, n)
<1>1. ASSUME NEW e \in all PROVE Good(e)
  <2>1. PICK h \in 0..s : e \in Entries(NewBlock(h, 0, 0))
    BY <1>1
  <2> DEFINE b == NewBlock(h, 0, 0)
  <2>2. s \in Int
    BY BlockStoreAssumption
  <2>3. b \in BlockSet(n) /\ b.height = h
    BY <2>2 DEF NewBlock, BlockSet
  <2>4. HeightToBytes(b.height) # <<>>
    BY <2>3, BlockStoreAssumption DEF CanSet
  <2> HIDE DEF b
  <2>5. Lastest # <<>>
    BY KeysDiffer
  <2>6. \/ e = <<<<"Blocks", Hash(b)>>, b>>
        \/ e = <<<<"Blocks", HeightToBytes(b.height)>>, Hash(b)>>
        \/ e = <<<<"Blockheads", HeightToBytes(b.height)>>, b>>
        \/ e = <<<<"Txns", Hash(b)>>, b>>
        \/ e = <<<<"UTXOSet", Hash(b)>>, b>>
        \/ e = <<<<"Blocks", Lastest>>, b>>
        \/ e = <<<<"Blockheads", Lastest>>, b>>
    <3>1. e \in Entries(b)
      BY <2>1 DEF b
    <3> QED BY <3>1
  <2> QED BY <2>3, <2>4, <2>5, <2>6, BlockEntries, Zenon
<1> HIDE DEF Entries
<1>2. f = [x \in {e[1] : e \in all} |-> (CHOOSE e \in all : e[1] = x)[2]]
  BY DEF StoredChain, Entries
<1> HIDE DEF all, f
<1>3. ASSUME NEW x \in DOMAIN f
      PROVE  x \in Bucket \X (Seq(Int) \ {<<>>}) /\ EntryOK(x[1], x[2], f[x], n)
  <2> DEFINE e == CHOOSE c \in all : c[1] = x
  <2>1. \E c \in all : c[1] = x
    BY <1>2
  <2>2. e \in all /\ e[1] = x
    BY <2>1, Zenon
  <2>3. f[x] = e[2]
    BY <1>2
  <2> HIDE DEF e
  <2>4. PICK bucket, key, value : /\ e = <<<<bucket, key>>, value>> /\ key # <<>>
                                  /\ EntryOK(bucket, key, value, n)
    BY <1>1, <2>2
  <2>5. x = <<bucket, key>> /\ f[x] = value
    BY <2>2, <2>3, <2>4
  <2>6. bucket \in Bucket /\ key \in Seq(Int) \ {<<>>}
    BY <2>4 DEF EntryOK
  <2> QED BY <2>4, <2>5, <2>6
<1>4. FileOK(f, n)
  BY <1>3, Zenon DEF FileOK
<1> QED BY <1>4 DEF f

LEMMA EmptyLists ==
    ASSUME NEW n, NEW f
    PROVE  IsSeq(<<>>) /\ Orderly(<<>>, n, f) /\ HeadsList(<<>>, n)
<1>1. IsSeq(<<>>)
  BY DEF IsSeq
<1> QED BY <1>1 DEF Orderly, HeadsList

LEMMA InitIInv == Init => IInv
<1> SUFFICES ASSUME Init PROVE IInv
  OBVIOUS
<1>1. PICK s \in Starts : top = s + MaxNew /\ file = StoredChain(s)
  BY DEF Init
<1>2. s \in Int /\ s >= -1 /\ MaxNew \in Nat
  BY BlockStoreAssumption
<1>3. Counts
  <2>1. headsCut \in BOOLEAN
    BY Zenon DEF Init
  <2>2. top \in Int /\ top >= -1 /\ forks \in 0..MaxForks /\ crashes \in 0..MaxCrashes
    BY <1>1, <1>2, ConstFacts DEF Init
  <2> QED BY <2>1, <2>2 DEF Counts
<1>4. FileOK(file, top)
  <2>1. top \in Int /\ s <= top
    BY <1>1, <1>2
  <2> QED BY <1>1, <2>1, StoredChainOK
<1>5. Heights /\ Unfinished
  BY DEF Init, Heights, Unfinished
<1>6. Lists
  <2>1. DOMAIN todo = Activity /\ todo["chain"] = <<>> /\ todo["heads"] = <<>>
    BY DEF Init, Activity
  <2> QED BY <2>1, EmptyLists DEF Lists
<1>7. Fresh
  BY DEF Init, Fresh, CacheFresh, Has, Activity
<1> QED BY <1>3, <1>4, <1>5, <1>6, <1>7 DEF IInv

\* The first GetHeight.
LEMMA LoadHeightKeeps ==
    ASSUME IInv, LoadHeight
    PROVE  IInv'
<1>1. /\ UNCHANGED <<file, cache, headCache, todo, top, forks, crashes, adding, torn, headsCut>>
      /\ cache = Absent /\ loading' = LastestHeight(file)
  BY DEF LoadHeight, history
<1>2. LastestHeight(file) \in -1..top
  BY ReadLastest DEF IInv, Counts
<1>3. Fresh'
  BY <1>1 DEF IInv, Fresh, CacheFresh, Has
<1> QED BY <1>1, <1>2, <1>3 DEF IInv, Counts, Heights, Unfinished, Lists

LEMMA HeightLoadedKeeps ==
    ASSUME IInv, HeightLoaded
    PROVE  IInv'
<1>1. /\ UNCHANGED <<file, headCache, todo, top, forks, crashes, adding, torn, headsCut>>
      /\ cache' = loading /\ loading' = Absent /\ loading # Absent
  BY DEF HeightLoaded, history
<1>2. todo["chain"] = <<>> /\ cache' = LastestHeight(file)
  BY <1>1 DEF IInv, Fresh
<1>3. Fresh'
  BY <1>1, <1>2 DEF Fresh, CacheFresh, Has
<1> QED BY <1>1, <1>3 DEF IInv, Counts, Heights, Unfinished, Lists

\* Starting to write the chain: HeightIs says that the once has run.
LEMMA ChainStart ==
    ASSUME IInv, NEW M, todo' = [todo EXCEPT !["chain"] = M], Idle("chain"),
           NEW h \in Int, HeightIs(h), UNCHANGED <<file, cache, loading, top, forks>>,
           IsSeq(M), Orderly(M, top, forks), M # <<>> => ~EndsSetLastest(Head(M)),
           M # <<>> /\ ClearsBlocks(Head(M)) => h = -1
    PROVE  Lists' /\ Fresh' /\ LastestHeight(file) = h
<1>1. todo'["chain"] = M /\ todo'["heads"] = todo["heads"] /\ DOMAIN todo' = Activity
  BY DEF IInv, Lists, Activity
<1>2. cache = h /\ loading = Absent /\ cache # Absent
  BY ConstFacts DEF HeightIs
<1>3. cache = LastestHeight(file)
  BY <1>2 DEF IInv, Fresh, CacheFresh, Has, Idle
<1>4. Lists'
  BY <1>1 DEF IInv, Lists
<1>5. LastestHeight(file)' = LastestHeight(file)
  OBVIOUS
<1>6. CacheFresh'
  BY <1>2, <1>3, <1>5 DEF CacheFresh
<1>7. M # <<>> => Head(M).do # "cache"
  BY DEF EndsSetLastest
<1>8. Fresh'
  BY <1>1, <1>2, <1>6, <1>7 DEF Fresh, Has
<1> QED BY <1>2, <1>3, <1>4, <1>8

LEMMA AddGenesisKeeps ==
    ASSUME IInv, AddGenesis
    PROVE  IInv'
<1> DEFINE b == NewBlock(0, 0, 0)
           M == <<Empty("Blocks")>> \o StoreBlock(b) \o <<Empty("UTXOSet")>> \o Update(b)
                  \o <<Empty("Txns"), Write("Txns", Hash(b), b)>>
<1>1. /\ UNCHANGED <<file, cache, loading, headCache, top, forks, crashes, torn, headsCut>>
      /\ adding' = b /\ todo' = [todo EXCEPT !["chain"] = M]
      /\ Idle("chain") /\ HeightIs(-1) /\ top >= 0
  BY DEF AddGenesis, memory
<1>2. top \in Nat /\ b \in BlockSet(top)
  BY <1>1 DEF IInv, Counts, NewBlock, BlockSet
<1>3. IsSeq(M) /\ Orderly(M, top, forks) /\ M # <<>> /\ Head(M) = Empty("Blocks")
  BY <1>2, AddGenesisOrderly
<1> HIDE DEF M, b
<1>4. ~EndsSetLastest(Head(M))
  BY <1>3 DEF EndsSetLastest, Empty
<1>5. Lists' /\ Fresh'
  <2>1. -1 \in Int
    OBVIOUS
  <2> QED BY <1>1, <1>3, <1>4, <2>1, ChainStart
<1> QED BY <1>1, <1>2, <1>5 DEF IInv, Counts, Heights, Unfinished

LEMMA AddBlockKeeps ==
    ASSUME IInv, AddBlock
    PROVE  IInv'
<1>1. PICK h \in 0..top - 1 :
         LET b == NewBlock(h + 1, forks, GetLastest(file).fork)
         IN  /\ HeightIs(h) /\ adding' = b
             /\ todo' = [todo EXCEPT !["chain"] = StoreBlock(b) \o Update(b)]
  BY DEF AddBlock
<1>2. /\ UNCHANGED <<file, cache, loading, headCache, top, forks, crashes, torn, headsCut>>
      /\ Idle("chain") /\ GetLastest(file) # Absent
  BY DEF AddBlock, memory
<1> DEFINE b == NewBlock(h + 1, forks, GetLastest(file).fork)
           M == StoreBlock(b) \o Update(b)
<1>3. top \in Nat /\ h \in Int /\ h >= 0 /\ h + 1 \in 0..top /\ forks \in Int
  BY <1>1 DEF IInv, Counts
<1>4. GetLastest(file).fork \in Int
  <2>1. GetLastest(file) \in BlockSet(top)
    BY <1>2, ReadLastest DEF IInv, Counts
  <2> QED BY <2>1 DEF BlockSet
<1>5. b \in BlockSet(top)
  BY <1>3, <1>4 DEF NewBlock, BlockSet
<1>6. adding' = b /\ todo' = [todo EXCEPT !["chain"] = M]
  BY <1>1
<1> HIDE DEF b
<1>7. IsSeq(M) /\ Orderly(M, top, forks) /\ ~EndsSetLastest(Head(M)) /\ ~ClearsBlocks(Head(M))
  BY <1>3, <1>5, AddBlockOrderly DEF EndsSetLastest
<1> HIDE DEF M
<1>8. Lists' /\ Fresh'
  BY <1>1, <1>2, <1>3, <1>6, <1>7, ChainStart
<1> QED BY <1>2, <1>5, <1>6, <1>8 DEF IInv, Counts, Heights, Unfinished

LEMMA SyncBlocksKeeps ==
    ASSUME IInv, NEW r \in 0..top, SyncBlocks(r)
    PROVE  IInv'
<1>1. PICK h \in r..top - 1 :
         /\ HeightIs(h)
         /\ r = h \/ (forks < MaxForks /\ h - r <= MaxDepth)
         /\ todo' = [todo EXCEPT !["chain"] =
                         SetLastest(GetBlockByHeight(file, r))
                           \o <<[do |-> "fetch", from |-> h, to |-> r,
                                 origin |-> Hash(GetLastest(file))]>>]
  BY DEF SyncBlocks
<1>2. /\ UNCHANGED <<file, cache, loading, headCache, top, forks, crashes, adding, torn, headsCut>>
      /\ Idle("chain")
  BY DEF SyncBlocks, memory, history
<1>3. top \in Nat /\ h \in Int /\ h >= 0 /\ h \in 0..top /\ r \in 0..h /\ r \in Int
  BY <1>1 DEF IInv, Counts
<1> DEFINE s == [do |-> "fetch", from |-> h, to |-> r, origin |-> Hash(GetLastest(file))]
           b == GetBlockByHeight(file, r)
           M == SetLastest(b) \o <<s>>
<1>4. b \in BlockSet(top) \cup {Absent}
  BY <1>3, ReadBlockByHeight DEF IInv
<1>5. Hash(GetLastest(file)) \in HashSet
  <2>1. cache = h /\ cache # Absent
    BY <1>1, <1>3, ConstFacts DEF HeightIs
  <2>2. LastestHeight(file) = h
    BY <1>2, <2>1 DEF IInv, Fresh, CacheFresh, Has, Idle
  <2>3. GetLastest(file) # Absent
    BY <1>3, <2>2 DEF LastestHeight
  <2>4. GetLastest(file) \in BlockSet(top)
    BY <2>3, ReadLastest DEF IInv, Counts
  <2> QED BY <2>4, HashKey
<1>6. s.do = "fetch" /\ ItemOK(s, top, forks)
  BY <1>1, <1>3, <1>5 DEF ItemOK
<1>7. todo' = [todo EXCEPT !["chain"] = M]
  BY <1>1
<1> HIDE DEF s, b
<1>8. IsSeq(M) /\ Orderly(M, top, forks) /\ ~EndsSetLastest(Head(M)) /\ ~ClearsBlocks(Head(M))
  BY <1>3, <1>4, <1>6, SyncBlocksOrderly DEF EndsSetLastest
<1> HIDE DEF M
<1>9. Lists' /\ Fresh'
  BY <1>1, <1>2, <1>3, <1>7, <1>8, ChainStart
<1> QED BY <1>2, <1>9 DEF IInv, Counts, Heights, Unfinished

LEMMA HeadHeightFacts ==
    ASSUME IInv
    PROVE  HeadHeight \in -1..top
<1>1. Get(file, "Blockheads", Lastest) \in BlockSet(top) \cup {Absent}
  BY ReadLastest DEF IInv, Counts
<1> QED BY <1>1 DEF IInv, Counts, Heights, HeadHeight, BlockSet

LEMMA GossipBlockHeadKeeps ==
    ASSUME IInv, GossipBlockHead
    PROVE  IInv'
<1> DEFINE b == NewBlock(HeadHeight + 1, forks, forks)
<1>1. /\ UNCHANGED <<file, cache, loading, top, forks, crashes, adding, torn>>
      /\ b.height <= top /\ todo' = [todo EXCEPT !["heads"] = WriteHead(b)]
      /\ headsCut' = (headsCut \/ InAddBlockhead("chain")) /\ headCache' = HeadHeight
  BY DEF GossipBlockHead
<1>2. HeadHeight \in -1..top /\ top \in Int /\ forks \in Int
  BY HeadHeightFacts DEF IInv, Counts
<1>3. b \in BlockSet(top)
  BY <1>1, <1>2 DEF NewBlock, BlockSet
<1> HIDE DEF b
<1>4. /\ DOMAIN todo' = Activity /\ todo'["heads"] = WriteHead(b)
      /\ todo'["chain"] = todo["chain"]
  BY <1>1 DEF IInv, Lists, Activity
<1>5. Lists'
  BY <1>1, <1>3, <1>4, WriteHeadFacts DEF IInv, Lists
<1>6. Fresh'
  BY <1>1, <1>4, FreshSame DEF IInv
<1>7. headsCut' \in BOOLEAN
  BY <1>1, Zenon
<1> QED BY <1>1, <1>2, <1>5, <1>6, <1>7 DEF IInv, Counts, Heights, Unfinished

\* Storing one key.
LEMMA DoSetKeeps ==
    ASSUME IInv, NEW p \in Activity, DoSet(p)
    PROVE  IInv'
<1> DEFINE s == Head(todo[p])
           M == Tail(todo[p])
<1>1. /\ UNCHANGED <<cache, loading, headCache, top, forks, crashes, headsCut>>
      /\ todo[p] # <<>> /\ s.do = "set" /\ s.key # <<>>
      /\ file' = Set(file, s.bucket, s.key, s.value) /\ GoOn(p, M)
  BY DEF DoSet, Has, CanSet, memory
<1>2. EntryOK(s.bucket, s.key, s.value, top)
  <2>1. CASE p = "chain"
    BY <1>1, <2>1, ChainHead DEF ItemOK, IInv
  <2>2. CASE p = "heads"
    BY <1>1, <2>2, HeadsHead DEF HeadsItem, IInv
  <2> QED BY <2>1, <2>2 DEF Activity
<1>3. /\ FileOK(file', top)
      /\ LastestHeight(file') =
            IF s.bucket = "Blocks" /\ s.key = Lastest THEN s.value.height ELSE LastestHeight(file)
  BY <1>1, <1>2, SetKeeps DEF IInv
<1>4. CASE p = "heads"
  <2>1. Lists' /\ Unfinished' /\ todo'["chain"] = todo["chain"]
    BY <1>1, <1>4, HeadsGoOn DEF IInv
  <2>2. s.bucket = "Blockheads"
    BY <1>1, <1>4, HeadsHead DEF HeadsItem, IInv
  <2>3. Fresh'
    BY <1>1, <1>3, <2>1, <2>2, FreshSame DEF IInv
  <2> QED BY <1>1, <1>3, <2>1, <2>3 DEF IInv, Counts, Heights
<1>5. CASE p = "chain"
  <2>1. /\ IsSeq(M) /\ Orderly(M, top, forks)
        /\ M # <<>> => ~ClearsBlocks(Head(M)) /\ (EndsSetLastest(Head(M)) => SetsLastest(s))
        /\ SetsLastest(s) => M # <<>> /\ Completes(s, Head(M))
    BY <1>1, <1>5, ChainRest DEF IInv
  <2>2. ~EndsSetLastest(s) /\ (SetsLastest(s) <=> s.bucket = "Blocks" /\ s.key = Lastest)
    BY <1>1 DEF EndsSetLastest, SetsLastest
  <2> HIDE DEF M
  <2>3. Lists' /\ Unfinished' /\ todo'["chain"] = M
    BY <1>1, <1>5, <2>1, ChainGoOn DEF IInv
  <2>4. CASE SetsLastest(s)
    <3>1. LastestHeight(file') = s.value.height
      BY <1>3, <2>2, <2>4
    <3>2. M # <<>> /\ EndsSetLastest(Head(M)) /\ ~ClearsBlocks(Head(M))
          /\ (Head(M).do = "cache" => Head(M).value = s.value.height)
      BY <2>1, <2>4 DEF Completes, EndsSetLastest
    <3>3. cache' # Absent /\ loading' = Absent
      BY <1>1, <1>5 DEF IInv, Fresh
    <3>4. Fresh'
      BY <2>3, <3>1, <3>2, <3>3, FreshNext
    <3> QED BY <1>1, <1>3, <2>3, <3>4 DEF IInv, Counts, Heights
  <2>5. CASE ~SetsLastest(s)
    <3>1. LastestHeight(file') = LastestHeight(file)
      BY <1>3, <2>2, <2>5
    <3>2. ~EndsSetLastest(Head(todo["chain"])) /\ todo["chain"] # <<>>
      BY <1>1, <1>5, <2>2
    <3>3. M # <<>> => ~ClearsBlocks(Head(M)) /\ ~EndsSetLastest(Head(M))
      BY <2>1, <2>5
    <3> HIDE DEF s
    <3>4. Fresh'
      BY <1>1, <2>3, <3>1, <3>2, <3>3, FreshQuiet DEF IInv
    <3> QED BY <1>1, <1>3, <2>3, <3>4 DEF IInv, Counts, Heights
  <2> QED BY <2>4, <2>5
<1> QED BY <1>4, <1>5 DEF Activity

\* Only the chain has other steps than those of AddBlockhead.
LEMMA NotHeads ==
    ASSUME IInv, NEW p \in Activity, NEW do, Has(p, do), do \notin {"set", "headCache"}
    PROVE  p = "chain" /\ Has("chain", do)
<1>1. p # "heads"
  BY HeadsHead DEF IInv, HeadsItem, Has
<1> QED BY <1>1 DEF Activity

\* A step that has nothing to do with lastest, on the way through the list.
LEMMA QuietGoOn ==
    ASSUME IInv, todo["chain"] # <<>>, GoOn("chain", Tail(todo["chain"])),
           ~EndsSetLastest(Head(todo["chain"])), ~SetsLastest(Head(todo["chain"])),
           LastestHeight(file') = LastestHeight(file),
           UNCHANGED <<cache, loading, top, forks>>
    PROVE  Lists' /\ Unfinished' /\ Fresh'
<1> DEFINE M == Tail(todo["chain"])
<1>1. /\ IsSeq(M) /\ Orderly(M, top, forks)
      /\ M # <<>> => ~ClearsBlocks(Head(M)) /\ ~EndsSetLastest(Head(M))
  BY ChainRest DEF IInv
<1> HIDE DEF M
<1>2. Lists' /\ Unfinished' /\ todo'["chain"] = M
  BY <1>1, ChainGoOn DEF IInv, M
<1>3. Fresh'
  BY <1>1, <1>2, FreshQuiet DEF IInv
<1> QED BY <1>2, <1>3

LEMMA DoDeleteKeeps ==
    ASSUME IInv, NEW p \in Activity, DoDelete(p)
    PROVE  IInv'
<1>1. p = "chain" /\ Has("chain", "delete")
  BY NotHeads DEF DoDelete
<1> DEFINE s == Head(todo["chain"])
<1>2. /\ UNCHANGED <<cache, loading, headCache, top, forks, crashes, headsCut>>
      /\ todo["chain"] # <<>> /\ s.do = "delete"
      /\ file' = Delete(file, s.bucket, s.key) /\ GoOn("chain", Tail(todo["chain"]))
  BY <1>1 DEF DoDelete, Has, memory
<1>3. s.bucket = "Blocks" => s.key # Lastest
  BY <1>2, ChainHead DEF ItemOK, IInv
<1>4. FileOK(file', top) /\ LastestHeight(file') = LastestHeight(file)
  BY <1>2, <1>3, DeleteKeeps DEF IInv
<1>5. ~EndsSetLastest(s) /\ ~SetsLastest(s)
  BY <1>2 DEF EndsSetLastest, SetsLastest
<1>6. Lists' /\ Unfinished' /\ Fresh'
  BY <1>2, <1>4, <1>5, QuietGoOn
<1> QED BY <1>2, <1>4, <1>6 DEF IInv, Counts, Heights

LEMMA DoClearKeeps ==
    ASSUME IInv, NEW p \in Activity, DoClear(p)
    PROVE  IInv'
<1>1. p = "chain" /\ Has("chain", "clear")
  BY NotHeads DEF DoClear
<1> DEFINE s == Head(todo["chain"])
           M == Tail(todo["chain"])
<1>2. /\ UNCHANGED <<cache, loading, headCache, top, forks, crashes, headsCut>>
      /\ todo["chain"] # <<>> /\ s.do = "clear"
      /\ file' = Clear(file, s.bucket) /\ GoOn("chain", M)
  BY <1>1 DEF DoClear, Has, memory
<1>3. /\ FileOK(file', top)
      /\ LastestHeight(file') = IF s.bucket = "Blocks" THEN -1 ELSE LastestHeight(file)
  BY <1>2, ClearKeeps DEF IInv
<1>4. ~EndsSetLastest(s) /\ ~SetsLastest(s)
  BY <1>2 DEF EndsSetLastest, SetsLastest
<1>5. CASE s.bucket # "Blocks"
  <2>1. LastestHeight(file') = LastestHeight(file)
    BY <1>3, <1>5
  <2>2. Lists' /\ Unfinished' /\ Fresh'
    BY <1>2, <1>4, <2>1, QuietGoOn
  <2> QED BY <1>2, <1>3, <2>2 DEF IInv, Counts, Heights
<1>6. CASE s.bucket = "Blocks"
  <2>1. cache = -1 /\ cache # Absent /\ loading = Absent
    BY <1>2, <1>6 DEF IInv, Fresh, ClearsBlocks
  <2>2. /\ IsSeq(M) /\ Orderly(M, top, forks)
        /\ M # <<>> => ~ClearsBlocks(Head(M)) /\ ~EndsSetLastest(Head(M))
    BY <1>2, <1>4, ChainRest DEF IInv
  <2>3. cache' = LastestHeight(file')
    BY <1>2, <1>3, <1>6, <2>1
  <2> HIDE DEF M
  <2>4. Lists' /\ Unfinished' /\ todo'["chain"] = M
    BY <1>2, <2>2, ChainGoOn DEF IInv
  <2>5. M # <<>> => Head(M).do # "cache"
    BY <2>2 DEF EndsSetLastest
  <2>6. Fresh'
    BY <1>2, <2>1, <2>2, <2>3, <2>4, <2>5, FreshNext
  <2> QED BY <1>2, <1>3, <2>4, <2>6 DEF IInv, Counts, Heights
<1> QED BY <1>5, <1>6

\* The second step of SetLastest.
LEMMA DoCacheKeeps ==
    ASSUME IInv, NEW p \in Activity, DoCache(p)
    PROVE  IInv'
<1>1. p = "chain" /\ Has("chain", "cache")
  BY NotHeads DEF DoCache
<1> DEFINE s == Head(todo["chain"])
           M == Tail(todo["chain"])
<1>2. /\ UNCHANGED <<file, loading, headCache, top, forks, crashes, headsCut>>
      /\ todo["chain"] # <<>> /\ s.do = "cache" /\ cache' = s.value /\ GoOn("chain", M)
  BY <1>1 DEF DoCache, Has
<1>3. s.value \in 0..top
  BY <1>2, ChainHead DEF ItemOK, IInv
<1>4. loading = Absent /\ cache' = LastestHeight(file') /\ cache' # Absent
  BY <1>1, <1>2, <1>3, ConstFacts DEF IInv, Fresh
<1>5. ~SetsLastest(s)
  BY <1>2 DEF SetsLastest
<1>6. /\ IsSeq(M) /\ Orderly(M, top, forks)
      /\ M # <<>> => ~ClearsBlocks(Head(M)) /\ ~EndsSetLastest(Head(M))
  BY <1>2, <1>5, ChainRest DEF IInv
<1> HIDE DEF M
<1>7. Lists' /\ Unfinished' /\ todo'["chain"] = M
  BY <1>2, <1>6, ChainGoOn DEF IInv
<1>8. M # <<>> => Head(M).do # "cache"
  BY <1>6 DEF EndsSetLastest
<1>9. Fresh'
  BY <1>2, <1>4, <1>6, <1>7, <1>8, FreshNext
<1>10. cache' \in {Absent} \cup (-1..top)
  BY <1>2, <1>3 DEF IInv, Counts
<1> QED BY <1>2, <1>7, <1>9, <1>10 DEF IInv, Counts, Heights

LEMMA DoCheckKeeps ==
    ASSUME IInv, NEW p \in Activity, DoCheck(p)
    PROVE  IInv'
<1>1. p = "chain" /\ Has("chain", "check")
  BY NotHeads DEF DoCheck
<1> DEFINE b == Head(todo["chain"]).value
           M == Tail(todo["chain"])
<1>2. /\ UNCHANGED <<file, cache, loading, top, forks, crashes>>
      /\ todo["chain"] # <<>> /\ Head(todo["chain"]).do = "check" /\ headCache' = HeadHeight
      /\ \/ /\ GoOn("chain", WriteHead(b) \o M)
            /\ headsCut' = (headsCut \/ InAddBlockhead("heads"))
         \/ GoOn("chain", M) /\ headsCut' = headsCut
  BY <1>1 DEF DoCheck, Has
<1>3. b \in BlockSet(top)
  BY <1>2, ChainHead DEF ItemOK, IInv
<1>4. headCache' \in -1..top
  BY <1>2, HeadHeightFacts
<1>5. ~EndsSetLastest(Head(todo["chain"])) /\ ~SetsLastest(Head(todo["chain"]))
  BY <1>2 DEF EndsSetLastest, SetsLastest
<1>6. LastestHeight(file') = LastestHeight(file)
  BY <1>2
<1>7. headsCut' \in BOOLEAN
  <2>1. headsCut \in BOOLEAN
    BY DEF IInv, Counts
  <2> QED BY <1>2, <2>1, Zenon
<1>8. CASE GoOn("chain", M)
  <2>1. Lists' /\ Unfinished' /\ Fresh'
    BY <1>2, <1>5, <1>6, <1>8, QuietGoOn
  <2> QED BY <1>2, <1>4, <1>7, <2>1 DEF IInv, Counts, Heights
<1>9. CASE GoOn("chain", WriteHead(b) \o M)
  <2> DEFINE C == WriteHead(b) \o M
  <2>1. /\ IsSeq(M) /\ Orderly(M, top, forks)
        /\ M # <<>> => ~ClearsBlocks(Head(M)) /\ ~EndsSetLastest(Head(M))
    BY <1>2, <1>5, ChainRest DEF IInv
  <2>2. QuietList(WriteHead(b), top, forks)
    BY <1>3, WriteHeadFacts
  <2>3. WriteHead(b) # <<>>
    BY DEF WriteHead
  <2> HIDE DEF M
  <2>4. IsSeq(C) /\ Orderly(C, top, forks)
    BY <2>1, <2>2, OrderlyAfterQuiet
  <2>5. Quiet(C[1], top, forks) /\ 1 \in DOMAIN C
    <3>1. 1 \in DOMAIN WriteHead(b)
      BY <2>2, <2>3, SeqFacts DEF QuietList
    <3>2. 1 \in DOMAIN C /\ C[1] = WriteHead(b)[1]
      BY <2>1, <2>2, <3>1, ConcatFacts DEF QuietList
    <3> QED BY <2>2, <3>1, <3>2 DEF QuietList
  <2> HIDE DEF C
  <2>6. C # <<>> => ~ClearsBlocks(Head(C)) /\ ~EndsSetLastest(Head(C))
    BY <2>4, <2>5, SeqFacts DEF Quiet
  <2>7. Lists' /\ Unfinished' /\ todo'["chain"] = C
    BY <1>2, <1>9, <2>4, ChainGoOn DEF IInv, C
  <2>8. Fresh'
    BY <1>2, <1>5, <1>6, <2>6, <2>7, FreshQuiet DEF IInv
  <2> QED BY <1>2, <1>4, <1>7, <2>7, <2>8 DEF IInv, Counts, Heights
<1> QED BY <1>2, <1>8, <1>9

LEMMA DoHeadCacheKeeps ==
    ASSUME IInv, NEW p \in Activity, DoHeadCache(p)
    PROVE  IInv'
<1>1. /\ UNCHANGED <<file, cache, loading, top, forks, crashes, headsCut>>
      /\ todo[p] # <<>> /\ Head(todo[p]).do = "headCache" /\ headCache' = Head(todo[p]).value
      /\ GoOn(p, Tail(todo[p]))
  BY DEF DoHeadCache, Has
<1>2. LastestHeight(file') = LastestHeight(file)
  BY <1>1
<1>3. CASE p = "heads"
  <2>1. headCache' \in 0..top
    BY <1>1, <1>3, HeadsHead DEF HeadsItem, IInv
  <2>2. Lists' /\ Unfinished' /\ todo'["chain"] = todo["chain"]
    BY <1>1, <1>3, HeadsGoOn DEF IInv
  <2>3. Fresh'
    BY <1>1, <1>2, <2>2, FreshSame DEF IInv
  <2> QED BY <1>1, <2>1, <2>2, <2>3 DEF IInv, Counts, Heights
<1>4. CASE p = "chain"
  <2>1. headCache' \in 0..top
    BY <1>1, <1>4, ChainHead DEF ItemOK, IInv
  <2>2. ~EndsSetLastest(Head(todo["chain"])) /\ ~SetsLastest(Head(todo["chain"]))
    BY <1>1, <1>4 DEF EndsSetLastest, SetsLastest
  <2>3. Lists' /\ Unfinished' /\ Fresh'
    BY <1>1, <1>2, <1>4, <2>2, QuietGoOn
  <2> QED BY <1>1, <2>1, <2>3 DEF IInv, Counts, Heights
<1> QED BY <1>3, <1>4 DEF Activity

\* A step after which only quiet steps, or those of SetLastest, are left.
LEMMA NewListKeeps ==
    ASSUME IInv, todo["chain"] # <<>>, ~EndsSetLastest(Head(todo["chain"])), NEW M,
           GoOn("chain", M), UNCHANGED <<file, cache, loading, headCache, top, crashes, headsCut>>,
           IsSeq(M), Orderly(M, top, forks'), forks' \in 0..MaxForks,
           M # <<>> => ~ClearsBlocks(Head(M)) /\ ~EndsSetLastest(Head(M))
    PROVE  IInv'
<1>1. Lists' /\ Unfinished' /\ todo'["chain"] = M
  BY ChainGoOn DEF IInv
<1>2. Fresh'
  <2>1. LastestHeight(file') = LastestHeight(file)
    OBVIOUS
  <2> QED BY <1>1, <2>1, FreshQuiet DEF IInv
<1> QED BY <1>1, <1>2 DEF IInv, Counts, Heights

LEMMA QuietBegins ==
    ASSUME NEW n, NEW f, NEW L, QuietList(L, n, f), L # <<>>
    PROVE  ~ClearsBlocks(Head(L)) /\ ~EndsSetLastest(Head(L))
BY SeqFacts DEF QuietList, Quiet

LEMMA FetchedKeeps ==
    ASSUME IInv, Fetched
    PROVE  IInv'
<1> DEFINE s == Head(todo["chain"])
           M == DeleteDownTo(s.from, s.to)
<1>1. /\ UNCHANGED <<file, cache, loading, headCache, top, crashes, headsCut>>
      /\ todo["chain"] # <<>> /\ s.do = "fetch" /\ GoOn("chain", M)
      /\ forks' = IF s.to < s.from THEN forks + 1 ELSE forks
  BY DEF Fetched, Has, memory
<1>2. s.from \in 0..top /\ s.to \in 0..s.from /\ (s.to < s.from => forks < MaxForks)
  BY <1>1, ChainHead DEF ItemOK, IInv
<1>3. forks' \in 0..MaxForks
  BY <1>1, <1>2, ConstFacts DEF IInv, Counts
<1>4. top \in Nat /\ s.from \in -1..top /\ s.to \in 0..top
  BY <1>2 DEF IInv, Counts
<1>5. ~EndsSetLastest(s)
  BY <1>1 DEF EndsSetLastest
<1>6. QuietList(M, top, forks')
  BY <1>4, DeleteDownToQuiet
<1> HIDE DEF M
<1>7. IsSeq(M) /\ Orderly(M, top, forks')
  BY <1>6, QuietIsOrderly
<1>8. M # <<>> => ~ClearsBlocks(Head(M)) /\ ~EndsSetLastest(Head(M))
  BY <1>6, QuietBegins
<1> QED BY <1>1, <1>3, <1>5, <1>7, <1>8, NewListKeeps

LEMMA DoRevertKeeps ==
    ASSUME IInv, DoRevert
    PROVE  IInv'
<1> DEFINE s == Head(todo["chain"])
           b == GetBlockByHeight(file, s.from)
           A == IF b = Absent THEN <<>> ELSE DeleteBlock(b)
           B == DeleteDownTo(s.from - 1, s.to)
           M == A \o B
<1>1. /\ UNCHANGED <<file, cache, loading, headCache, top, forks, crashes, headsCut>>
      /\ todo["chain"] # <<>> /\ s.do = "revert" /\ GoOn("chain", M)
  BY DEF DoRevert, Has, memory
<1>2. s.from \in 0..top /\ s.to \in 0..top
  BY <1>1, ChainHead DEF ItemOK, IInv
<1>3. top \in Nat /\ s.from - 1 \in -1..top /\ forks \in 0..MaxForks /\ s.from \in Int
  BY <1>2 DEF IInv, Counts
<1>4. b \in BlockSet(top) \cup {Absent}
  BY <1>3, ReadBlockByHeight DEF IInv
<1>5. QuietList(A, top, forks)
  BY <1>4, DeleteBlockQuiet, EmptyQuiet
<1>6. QuietList(B, top, forks)
  BY <1>2, <1>3, DeleteDownToQuiet
<1>7. ~EndsSetLastest(s)
  BY <1>1 DEF EndsSetLastest
<1> HIDE DEF A, B
<1>8. QuietList(M, top, forks)
  BY <1>5, <1>6, QuietConcat
<1> HIDE DEF M
<1>9. IsSeq(M) /\ Orderly(M, top, forks')
  BY <1>1, <1>8, QuietIsOrderly
<1>10. M # <<>> => ~ClearsBlocks(Head(M)) /\ ~EndsSetLastest(Head(M))
  BY <1>8, QuietBegins
<1>11. forks' \in 0..MaxForks
  BY <1>1, <1>3
<1> QED BY <1>1, <1>7, <1>9, <1>10, <1>11, NewListKeeps

LEMMA FetchFailsKeeps ==
    ASSUME IInv, FetchFails
    PROVE  IInv'
<1> DEFINE s == Head(todo["chain"])
           b == GetBlockByHash(file, s.origin)
           M == SetLastest(b)
<1>1. /\ UNCHANGED <<file, cache, loading, headCache, top, forks, crashes, headsCut>>
      /\ todo["chain"] # <<>> /\ s.do = "fetch" /\ GoOn("chain", M)
  BY DEF FetchFails, Has, memory
<1>2. s.from \in 0..top /\ s.origin \in HashSet
  BY <1>1, ChainHead DEF ItemOK, IInv
<1>3. top \in Nat /\ forks \in 0..MaxForks
  BY <1>2 DEF IInv, Counts
<1>4. b \in BlockSet(top) \cup {Absent}
  BY <1>2, ReadBlockByHash DEF IInv
<1>5. ~EndsSetLastest(s)
  BY <1>1 DEF EndsSetLastest
<1>6. /\ IsSeq(M) /\ Orderly(M, top, forks) /\ M # <<>>
      /\ ~EndsSetLastest(M[1]) /\ ~ClearsBlocks(M[1])
  BY <1>3, <1>4, SetLastestOrderly
<1> HIDE DEF M
<1>7. ~ClearsBlocks(Head(M)) /\ ~EndsSetLastest(Head(M))
  BY <1>6, SeqFacts
<1>8. Orderly(M, top, forks') /\ forks' \in 0..MaxForks
  BY <1>1, <1>3, <1>6
<1> QED BY <1>1, <1>5, <1>6, <1>7, <1>8, NewListKeeps

LEMMA RestartKeeps ==
    ASSUME IInv, Restart, crashes' \in 0..MaxCrashes
    PROVE  IInv'
<1>1. /\ UNCHANGED <<file, top, forks>>
      /\ cache' = Absent /\ loading' = Absent /\ headCache' = Absent /\ adding' = Absent
      /\ todo' = [p \in Activity |-> <<>>]
      /\ torn' = IF adding = Absent THEN torn ELSE torn \cup {adding.height}
  BY DEF Restart
<1>2. DOMAIN todo' = Activity /\ todo'["chain"] = <<>> /\ todo'["heads"] = <<>>
  BY <1>1 DEF Activity
<1>3. Lists'
  BY <1>1, <1>2, EmptyLists DEF Lists
<1>4. Fresh'
  BY <1>1, <1>2 DEF Fresh, CacheFresh, Has
<1>5. Unfinished'
  <2>1. adding # Absent => adding.height \in 0..top
    BY DEF IInv, Unfinished, BlockSet
  <2> QED BY <1>1, <2>1 DEF IInv, Unfinished
<1>6. headsCut' \in BOOLEAN
  BY Zenon DEF Restart
<1> QED BY <1>1, <1>3, <1>4, <1>5, <1>6 DEF IInv, Counts, Heights

LEMMA NextIInv == IInv /\ [Next]_vars => IInv'
<1> SUFFICES ASSUME IInv, [Next]_vars PROVE IInv'
  OBVIOUS
<1>1. CASE LoadHeight
  BY <1>1, LoadHeightKeeps
<1>2. CASE HeightLoaded
  BY <1>2, HeightLoadedKeeps
<1>3. CASE AddGenesis
  BY <1>3, AddGenesisKeeps
<1>4. CASE AddBlock
  BY <1>4, AddBlockKeeps
<1>5. CASE GossipBlockHead
  BY <1>5, GossipBlockHeadKeeps
<1>6. CASE \E r \in 0..top : SyncBlocks(r)
  BY <1>6, SyncBlocksKeeps
<1>7. CASE Fetched
  BY <1>7, FetchedKeeps
<1>8. CASE FetchFails
  BY <1>8, FetchFailsKeeps
<1>9. CASE DoRevert
  BY <1>9, DoRevertKeeps
<1>10. CASE Crash
  <2>1. Restart /\ crashes' \in 0..MaxCrashes
    BY <1>10, ConstFacts DEF Crash, IInv, Counts
  <2> QED BY <2>1, RestartKeeps
<1>11. ASSUME NEW p \in Activity, Exit(p) PROVE IInv'
  <2>1. Restart /\ crashes' \in 0..MaxCrashes
    BY <1>11 DEF Exit, IInv, Counts
  <2> QED BY <2>1, RestartKeeps
<1>12. ASSUME NEW p \in Activity,
              DoSet(p) \/ DoDelete(p) \/ DoClear(p) \/ DoCache(p) \/ DoCheck(p) \/ DoHeadCache(p)
       PROVE  IInv'
  BY <1>12, DoSetKeeps, DoDeleteKeeps, DoClearKeeps, DoCacheKeeps, DoCheckKeeps, DoHeadCacheKeeps
<1>13. CASE UNCHANGED vars
  <2>1. UNCHANGED <<file, cache, loading, headCache, todo, top, forks, crashes, adding, torn, headsCut>>
    BY <1>13 DEF vars
  <2>2. LastestHeight(file') = LastestHeight(file)
    BY <2>1
  <2>3. Fresh'
    BY <2>1, <2>2, FreshSame DEF IInv
  <2> QED BY <2>1, <2>3 DEF IInv, Counts, Heights, Unfinished, Lists
<1> QED BY <1>1, <1>2, <1>3, <1>4, <1>5, <1>6, <1>7, <1>8, <1>9, <1>10, <1>11, <1>12, <1>13
        DEF Next

-----------------------------------------------------------------------------
(* What is read after a write *)

LEMMA GetSet ==
    ASSUME NEW f, NEW bucket, NEW key, NEW value, NEW c, NEW k
    PROVE  Get(Set(f, bucket, key, value), c, k) =
              IF c = bucket /\ k = key THEN value ELSE Get(f, c, k)
<1> DEFINE g == Set(f, bucket, key, value)
           y == <<bucket, key>>
<1>1. DOMAIN g = DOMAIN f \cup {y} /\ \A x \in DOMAIN g : g[x] = IF x = y THEN value ELSE f[x]
  BY DEF Set
<1>2. <<c, k>> = y <=> c = bucket /\ k = key
  OBVIOUS
<1> HIDE DEF g, y
<1>3. Get(g, c, k) = IF c = bucket /\ k = key THEN value ELSE Get(f, c, k)
  BY <1>1, <1>2 DEF Get
<1> QED BY <1>3 DEF g

LEMMA GetDelete ==
    ASSUME NEW f, NEW bucket, NEW key, NEW c, NEW k
    PROVE  Get(Delete(f, bucket, key), c, k) =
              IF c = bucket /\ k = key THEN Absent ELSE Get(f, c, k)
<1> DEFINE g == Delete(f, bucket, key)
           y == <<bucket, key>>
<1>1. DOMAIN g = DOMAIN f \ {y} /\ \A x \in DOMAIN g : g[x] = f[x]
  BY DEF Delete
<1>2. <<c, k>> = y <=> c = bucket /\ k = key
  OBVIOUS
<1> HIDE DEF g, y
<1>3. Get(g, c, k) = IF c = bucket /\ k = key THEN Absent ELSE Get(f, c, k)
  BY <1>1, <1>2 DEF Get
<1> QED BY <1>3 DEF g

LEMMA GetClear ==
    ASSUME NEW f, NEW bucket, NEW c, NEW k
    PROVE  Get(Clear(f, bucket), c, k) = IF c = bucket THEN Absent ELSE Get(f, c, k)
<1> DEFINE g == Clear(f, bucket)
           x == <<c, k>>
<1>1. DOMAIN g = {y \in DOMAIN f : y[1] # bucket} /\ \A y \in DOMAIN g : g[y] = f[y]
  BY DEF Clear
<1>2. x[1] = c
  OBVIOUS
<1>3. Get(g, c, k) = (IF x \in DOMAIN g THEN g[x] ELSE Absent)
      /\ Get(f, c, k) = (IF x \in DOMAIN f THEN f[x] ELSE Absent)
  BY DEF Get
<1> HIDE DEF g, x
<1>4. Get(g, c, k) = IF c = bucket THEN Absent ELSE Get(f, c, k)
  BY <1>1, <1>2, <1>3
<1> QED BY <1>4 DEF g

-----------------------------------------------------------------------------
(* A chain that is stored at the beginning *)

\* v is stored under x for the block b of a chain of height s.
EntryOf(x, v, b, s) ==
    \/ x = <<"Blocks", Hash(b)>> /\ v = b
    \/ x = <<"Blocks", HeightToBytes(b.height)>> /\ v = Hash(b)
    \/ x = <<"Blockheads", HeightToBytes(b.height)>> /\ v = b
    \/ x = <<"Txns", Hash(b)>> /\ v = b
    \/ x = <<"UTXOSet", Hash(b)>> /\ v = b
    \/ b.height >= s /\ v = b /\ (x = <<"Blocks", Lastest>> \/ x = <<"Blockheads", Lastest>>)

LEMMA StoredChainIs ==
    ASSUME NEW s \in Starts
    PROVE  LET f == StoredChain(s)
           IN  /\ \A x \in DOMAIN f : \E h \in 0..s : EntryOf(x, f[x], NewBlock(h, 0, 0), s)
               /\ \A h \in 0..s : \A x, v : EntryOf(x, v, NewBlock(h, 0, 0), s) => x \in DOMAIN f
<1> DEFINE Entries(b) ==
               {<<<<"Blocks", Hash(b)>>, b>>,
                <<<<"Blocks", HeightToBytes(b.height)>>, Hash(b)>>,
                <<<<"Blockheads", HeightToBytes(b.height)>>, b>>,
                <<<<"Txns", Hash(b)>>, b>>,
                <<<<"UTXOSet", Hash(b)>>, b>>}
               \cup (IF b.height < s THEN {}
                     ELSE {<<<<"Blocks", Lastest>>, b>>, <<<<"Blockheads", Lastest>>, b>>})
           all == UNION {Entries(NewBlock(h, 0, 0)) : h \in 0..s}
           f == StoredChain(s)
<1>1. f = [x \in {e[1] : e \in all} |-> (CHOOSE e \in all : e[1] = x)[2]]
  BY DEF StoredChain
<1>2. ASSUME NEW b, b.height \in Int, NEW e
      PROVE  e \in Entries(b) <=> \E x, v : e = <<x, v>> /\ EntryOf(x, v, b, s)
  <2>1. b.height < s <=> ~(b.height >= s)
    BY <1>2, BlockStoreAssumption
  <2>2. ASSUME e \in Entries(b) PROVE \E x, v : e = <<x, v>> /\ EntryOf(x, v, b, s)
    BY <2>1, <2>2, Zenon DEF EntryOf
  <2>3. ASSUME NEW x, NEW v, e = <<x, v>>, EntryOf(x, v, b, s) PROVE e \in Entries(b)
    <3> HIDE DEF Entries
    <3>1. \/ e = <<<<"Blocks", Hash(b)>>, b>>
          \/ e = <<<<"Blocks", HeightToBytes(b.height)>>, Hash(b)>>
          \/ e = <<<<"Blockheads", HeightToBytes(b.height)>>, b>>
          \/ e = <<<<"Txns", Hash(b)>>, b>>
          \/ e = <<<<"UTXOSet", Hash(b)>>, b>>
          \/ ~(b.height < s) /\ e \in {<<<<"Blocks", Lastest>>, b>>, <<<<"Blockheads", Lastest>>, b>>}
      BY <2>1, <2>3 DEF EntryOf
    <3> QED BY <3>1 DEF Entries
  <2> QED BY <2>2, <2>3
<1> HIDE DEF Entries, f
<1>3. \A h \in 0..s : NewBlock(h, 0, 0).height \in Int
  BY DEF NewBlock
<1>4. ASSUME NEW x \in DOMAIN f PROVE \E h \in 0..s : EntryOf(x, f[x], NewBlock(h, 0, 0), s)
  <2> DEFINE e == CHOOSE c \in all : c[1] = x
  <2>1. \E c \in all : c[1] = x
    BY <1>1
  <2>2. e \in all /\ e[1] = x
    BY <2>1, Zenon
  <2>3. f[x] = e[2]
    BY <1>1
  <2> HIDE DEF e
  <2>4. PICK h \in 0..s : e \in Entries(NewBlock(h, 0, 0))
    BY <2>2
  <2>5. PICK y, v : e = <<y, v>> /\ EntryOf(y, v, NewBlock(h, 0, 0), s)
    BY <1>2, <1>3, <2>4
  <2>6. y = x /\ v = f[x]
    BY <2>2, <2>3, <2>5
  <2> QED BY <2>5, <2>6
<1>5. ASSUME NEW h \in 0..s, NEW x, NEW v, EntryOf(x, v, NewBlock(h, 0, 0), s)
      PROVE  x \in DOMAIN f
  <2> DEFINE e == <<x, v>>
  <2>1. e \in Entries(NewBlock(h, 0, 0))
    BY <1>2, <1>3, <1>5
  <2>2. e \in all /\ e[1] = x
    BY <2>1
  <2> HIDE DEF all, e
  <2> QED BY <1>1, <2>2
<1> QED BY <1>4, <1>5 DEF f

-----------------------------------------------------------------------------
(* The heads and the height to which they reach *)

\* A step of AddBlockhead after its check.
HeadItem(s) == s.do = "headCache" \/ (s.do = "set" /\ s.bucket = "Blockheads")

\* Any other step leaves the height of the heads, and adds no head.
Plain(s) ==
    /\ ~HeadItem(s)
    /\ s.do = "delete" /\ s.bucket = "Blockheads" => s.key # Lastest
    /\ ~(s.do = "clear" /\ s.bucket = "Blockheads")

\* What is left of AddBlockhead of b: nothing, one, two or three steps.
Past(L) == IsSeq(L) /\ \A i \in DOMAIN L : Plain(L[i])
AtLastest(L, b) ==
    IsSeq(L) /\ L # <<>> /\ Head(L) = Write("Blockheads", Lastest, b) /\ Past(Tail(L))
AtHeight(L, b) ==
    /\ IsSeq(L) /\ L # <<>> /\ Head(L) = Write("Blockheads", HeightToBytes(b.height), b)
    /\ AtLastest(Tail(L), b)
AtCache(L, b) ==
    /\ IsSeq(L) /\ L # <<>> /\ Head(L) = [do |-> "headCache", value |-> b.height]
    /\ AtHeight(Tail(L), b)

\* AddBlockhead is under way while v is the cached height of the heads.
Mid(L, v, n) ==
    \E b \in BlockSet(n) :
        \/ AtCache(L, b) /\ v = b.height - 1
        \/ (AtHeight(L, b) \/ AtLastest(L, b)) /\ v = b.height

StoredHead(f) ==
    IF Get(f, "Blockheads", Lastest) = Absent THEN -1 ELSE Get(f, "Blockheads", Lastest).height

\* No head is above v.
Below(f, v, n) == \A h \in 0..n : GetBlockheadByHeight(f, h) # Absent => h <= v

Settled ==
    /\ \A p \in Activity : Past(todo[p])
    /\ headCache \in {Absent, StoredHead(file)}
    /\ Below(file, StoredHead(file), top)

Underway ==
    /\ Below(file, headCache, top)
    /\ \E p, q \in Activity : p # q /\ Past(todo[p]) /\ Mid(todo[q], headCache, top)

HeadsInv ==
    /\ \A p \in Activity : Past(todo[p]) \/ \E v : Mid(todo[p], v, top)
    /\ headsCut \/ Settled \/ Underway

LEMMA PastHead ==
    ASSUME NEW L, Past(L), L # <<>>
    PROVE  Plain(Head(L)) /\ Past(Tail(L))
BY SeqFacts DEF Past

LEMMA MidHead ==
    ASSUME NEW L, NEW v, NEW n, Mid(L, v, n)
    PROVE  L # <<>> /\ HeadItem(Head(L))
BY DEF Mid, AtCache, AtHeight, AtLastest, HeadItem, Write

LEMMA InHead ==
    ASSUME NEW p \in Activity
    PROVE  /\ InAddBlockhead(p) <=> todo[p] # <<>> /\ HeadItem(Head(todo[p]))
           /\ Past(todo[p]) => ~InAddBlockhead(p)
           /\ \A v : Mid(todo[p], v, top) => InAddBlockhead(p)
<1>1. InAddBlockhead(p) <=> todo[p] # <<>> /\ HeadItem(Head(todo[p]))
  BY DEF InAddBlockhead, Has, HeadItem
<1>2. Past(todo[p]) => ~InAddBlockhead(p)
  BY <1>1, PastHead DEF Plain
<1>3. \A v : Mid(todo[p], v, top) => InAddBlockhead(p)
  BY <1>1, MidHead
<1> QED BY <1>1, <1>2, <1>3

LEMMA PastConcat ==
    ASSUME NEW L, NEW M, Past(L), Past(M)
    PROVE  Past(L \o M)
<1> DEFINE C == L \o M
<1>1. /\ IsSeq(C)
      /\ \A i \in DOMAIN L : i \in DOMAIN C /\ C[i] = L[i]
      /\ \A i \in DOMAIN C :
            i \in DOMAIN L \/ (i - Len(L) \in DOMAIN M /\ C[i] = M[i - Len(L)])
  BY ConcatFacts DEF Past
<1> HIDE DEF C
<1>2. ASSUME NEW i \in DOMAIN C PROVE Plain(C[i])
  BY <1>1, Zenon DEF Past
<1>3. Past(C)
  BY <1>1, <1>2, Zenon DEF Past
<1> QED BY <1>3 DEF C

LEMMA PastEmpty == Past(<<>>)
BY DEF Past, IsSeq

LEMMA PastOne ==
    ASSUME NEW a, Plain(a)
    PROVE  Past(<<a>>)
BY Singleton DEF Past

LEMMA PastTwo ==
    ASSUME NEW a, NEW b, Plain(a), Plain(b)
    PROVE  Past(<<a, b>>)
<1>1. IsSeq(<<a, b>>) /\ DOMAIN <<a, b>> = 1..2 /\ <<a, b>>[1] = a /\ <<a, b>>[2] = b
  BY DEF IsSeq
<1> QED BY <1>1 DEF Past

LEMMA PastFour ==
    ASSUME NEW a, NEW b, NEW c, NEW d, Plain(a), Plain(b), Plain(c), Plain(d)
    PROVE  Past(<<a, b, c, d>>)
<1>1. /\ IsSeq(<<a, b, c, d>>) /\ DOMAIN <<a, b, c, d>> = 1..4
      /\ <<a, b, c, d>>[1] = a /\ <<a, b, c, d>>[2] = b
      /\ <<a, b, c, d>>[3] = c /\ <<a, b, c, d>>[4] = d
  BY DEF IsSeq
<1> QED BY <1>1 DEF Past

LEMMA PlainSteps ==
    /\ \A bucket, key, value : bucket # "Blockheads" => Plain(Write(bucket, key, value))
    /\ \A bucket, key : bucket # "Blockheads" \/ key # Lastest => Plain(Erase(bucket, key))
    /\ \A bucket : bucket # "Blockheads" => Plain(Empty(bucket))
    /\ \A s : s.do \in {"cache", "exit", "check", "fetch", "revert"} => Plain(s)
<1>1. \A bucket, key, value : bucket # "Blockheads" => Plain(Write(bucket, key, value))
  BY DEF Plain, HeadItem, Write
<1>2. \A bucket, key : bucket # "Blockheads" \/ key # Lastest => Plain(Erase(bucket, key))
  BY DEF Plain, HeadItem, Erase
<1>3. \A bucket : bucket # "Blockheads" => Plain(Empty(bucket))
  BY DEF Plain, HeadItem, Empty
<1>4. \A s : s.do \in {"cache", "exit", "check", "fetch", "revert"} => Plain(s)
  BY DEF Plain, HeadItem
<1> QED BY <1>1, <1>2, <1>3, <1>4

\* The lists of the other operations.
LEMMA PastLists ==
    /\ \A b : Past(SetLastest(b)) /\ Past(StoreBlock(b)) /\ Past(Update(b))
    /\ \A b, n : b \in BlockSet(n) => Past(DeleteBlock(b))
    /\ \A h, r : Past(DeleteDownTo(h, r))
<1>1. ASSUME NEW b PROVE Past(SetLastest(b))
  <2>1. \A v : Plain(Write("Blocks", Lastest, v))
    BY PlainSteps
  <2>2. Plain([do |-> "exit"]) /\ Plain([do |-> "cache", value |-> b.height])
    BY PlainSteps
  <2> QED BY <2>1, <2>2, PastTwo DEF SetLastest
<1>2. ASSUME NEW b PROVE Past(Update(b))
  BY PlainSteps, PastOne DEF Update
<1>3. ASSUME NEW b PROVE Past(StoreBlock(b))
  <2> DEFINE A == SetLastest(b)
             B == <<Write("Blocks", Hash(b), b), Write("Blocks", HeightToBytes(b.height), Hash(b))>>
             C == <<[do |-> "check", value |-> b]>>
             D == <<Write("Txns", Hash(b), b)>>
  <2>1. Past(A)
    BY <1>1
  <2>2. Past(B)
    BY PlainSteps, PastTwo
  <2>3. Past(C)
    <3>1. Plain([do |-> "check", value |-> b])
      BY PlainSteps
    <3> QED BY <3>1, PastOne
  <2>4. Past(D)
    BY PlainSteps, PastOne
  <2>5. StoreBlock(b) = ((A \o B) \o C) \o D
    BY DEF StoreBlock, AddBlockhead
  <2> HIDE DEF A, B, C, D
  <2> QED BY <2>1, <2>2, <2>3, <2>4, <2>5, PastConcat
<1>4. ASSUME NEW n, NEW b \in BlockSet(n) PROVE Past(DeleteBlock(b))
  <2>1. HeightToBytes(b.height) # Lastest
    BY BlockEntries
  <2>2. /\ Plain(Erase("Blocks", Hash(b))) /\ Plain(Erase("Blocks", HeightToBytes(b.height)))
        /\ Plain(Erase("Blockheads", HeightToBytes(b.height))) /\ Plain(Erase("Txns", Hash(b)))
    BY <2>1, PlainSteps
  <2> QED BY <2>2, PastFour DEF DeleteBlock
<1>5. ASSUME NEW h, NEW r PROVE Past(DeleteDownTo(h, r))
  <2>1. Plain([do |-> "revert", from |-> h, to |-> r])
    BY PlainSteps
  <2> QED BY <2>1, PastOne, PastEmpty DEF DeleteDownTo
<1> QED BY <1>1, <1>2, <1>3, <1>4, <1>5

\* WriteHead before other steps.
LEMMA WriteHeadAt ==
    ASSUME NEW b, NEW M, Past(M)
    PROVE  AtCache(WriteHead(b) \o M, b)
<1> DEFINE x == [do |-> "headCache", value |-> b.height]
           y == Write("Blockheads", HeightToBytes(b.height), b)
           z == Write("Blockheads", Lastest, b)
           C == <<x, y, z>> \o M
<1>1. WriteHead(b) = <<x, y, z>>
  BY DEF WriteHead
<1> HIDE DEF x, y, z
<1> DEFINE S == {M[i] : i \in DOMAIN M} \cup {x, y, z}
<1>2. M \in Seq(S) /\ <<x, y, z>> \in Seq(S) /\ <<y, z>> \in Seq(S) /\ <<z>> \in Seq(S)
  <2>1. M \in Seq({M[i] : i \in DOMAIN M})
    BY DEF Past, IsSeq
  <2> QED BY <2>1
<1> HIDE DEF S
<1>3. /\ C # <<>> /\ Head(C) = x /\ Tail(C) = <<y, z>> \o M
      /\ <<y, z>> \o M # <<>> /\ Head(<<y, z>> \o M) = y /\ Tail(<<y, z>> \o M) = <<z>> \o M
      /\ <<z>> \o M # <<>> /\ Head(<<z>> \o M) = z /\ Tail(<<z>> \o M) = M
  BY <1>2
<1>4. IsSeq(C) /\ IsSeq(<<y, z>> \o M) /\ IsSeq(<<z>> \o M)
  <2>1. C \in Seq(S) /\ <<y, z>> \o M \in Seq(S) /\ <<z>> \o M \in Seq(S)
    BY <1>2
  <2> QED BY <2>1, SeqOfAny
<1> HIDE DEF C
<1>5. AtLastest(<<z>> \o M, b)
  BY <1>3, <1>4 DEF AtLastest, z
<1>6. AtHeight(<<y, z>> \o M, b)
  BY <1>3, <1>4, <1>5 DEF AtHeight, y
<1>7. AtCache(C, b)
  BY <1>3, <1>4, <1>6 DEF AtCache, x
<1> QED BY <1>1, <1>7 DEF C

\* A step of no AddBlockhead, after which no head is there that was not there.
LEMMA PastStep ==
    ASSUME IInv, HeadsInv, UNCHANGED <<top, headCache, headsCut>>,
           \A p \in Activity : todo'[p] = todo[p] \/ (Past(todo[p]) /\ Past(todo'[p])),
           \A k : Get(file', "Blockheads", k) \in {Absent, Get(file, "Blockheads", k)},
           Get(file', "Blockheads", Lastest) = Get(file, "Blockheads", Lastest)
    PROVE  HeadsInv'
<1>1. StoredHead(file') = StoredHead(file)
  BY DEF StoredHead
<1>2. \A v : Below(file, v, top) => Below(file', v, top)
  BY DEF Below, GetBlockheadByHeight
<1>3. \A p \in Activity : Past(todo'[p]) \/ \E v : Mid(todo'[p], v, top)
  BY DEF HeadsInv
<1>4. \A p \in Activity : Past(todo[p]) => Past(todo'[p])
  OBVIOUS
<1>5. \A p \in Activity : \A v : Mid(todo[p], v, top) => Mid(todo'[p], v, top)
  <2>1. \A p \in Activity : \A v : Mid(todo[p], v, top) => ~Past(todo[p])
    BY InHead
  <2> QED BY <2>1
<1>6. Settled => Settled'
  BY <1>1, <1>2, <1>4 DEF Settled
<1>7. Underway => Underway'
  BY <1>2, <1>4, <1>5 DEF Underway
<1> QED BY <1>3, <1>6, <1>7 DEF HeadsInv

LEMMA HeadsSame ==
    ASSUME IInv, HeadsInv, UNCHANGED <<file, todo, top, headCache, headsCut>>
    PROVE  HeadsInv'
BY DEF HeadsInv, Settled, Underway

\* A new list of the chain.
LEMMA HeadsNewList ==
    ASSUME IInv, HeadsInv, UNCHANGED <<file, top, headCache, headsCut>>, NEW M, Past(M),
           Past(todo["chain"]), todo'["chain"] = M, todo'["heads"] = todo["heads"]
    PROVE  HeadsInv'
<1>1. \A p \in Activity : todo'[p] = todo[p] \/ (Past(todo[p]) /\ Past(todo'[p]))
  BY DEF Activity
<1>2. \A k : Get(file', "Blockheads", k) \in {Absent, Get(file, "Blockheads", k)}
  BY Zenon
<1>3. Get(file', "Blockheads", Lastest) = Get(file, "Blockheads", Lastest)
  BY Zenon
<1> QED BY <1>1, <1>2, <1>3, PastStep

\* The next step of p is none of AddBlockhead.
LEMMA PlainIsPast ==
    ASSUME HeadsInv, NEW p \in Activity, todo[p] # <<>>, ~HeadItem(Head(todo[p]))
    PROVE  Past(todo[p]) /\ Plain(Head(todo[p])) /\ Past(Tail(todo[p]))
BY MidHead, PastHead DEF HeadsInv

LEMMA GoOnTodo ==
    ASSUME IInv, NEW p \in Activity, NEW rest, GoOn(p, rest)
    PROVE  todo'[p] = rest /\ \A q \in Activity : q # p => todo'[q] = todo[q]
BY DEF IInv, Lists, GoOn

LEMMA InitHeads == Init => HeadsInv
<1> SUFFICES ASSUME Init PROVE HeadsInv
  OBVIOUS
<1>1. PICK s \in Starts : top = s + MaxNew /\ file = StoredChain(s)
  BY DEF Init
<1>2. s \in Int /\ s >= -1 /\ top \in Int /\ s <= top
  BY <1>1, BlockStoreAssumption
<1>3. /\ \A x \in DOMAIN file : \E h \in 0..s : EntryOf(x, file[x], NewBlock(h, 0, 0), s)
      /\ \A h \in 0..s : \A x, v : EntryOf(x, v, NewBlock(h, 0, 0), s) => x \in DOMAIN file
  BY <1>1, StoredChainIs
<1>4. \A h \in 0..s : NewBlock(h, 0, 0) \in BlockSet(s) /\ NewBlock(h, 0, 0).height = h
  BY <1>2 DEF NewBlock, BlockSet
<1>5. StoredHead(file) = s
  <2> DEFINE x == <<"Blockheads", Lastest>>
  <2>1. ASSUME x \in DOMAIN file PROVE file[x].height = s /\ file[x] # Absent /\ s >= 0
    <3>1. PICK h \in 0..s : EntryOf(x, file[x], NewBlock(h, 0, 0), s)
      BY <1>3, <2>1
    <3> DEFINE b == NewBlock(h, 0, 0)
    <3>2. b \in BlockSet(s) /\ b.height = h
      BY <1>4
    <3>3. b # Absent /\ HeightToBytes(b.height) # Lastest
      BY <3>2, ConstFacts, BlockEntries
    <3> HIDE DEF b
    <3>4. b.height >= s /\ file[x] = b
      BY <3>1, <3>3 DEF EntryOf, b
    <3> QED BY <1>2, <3>2, <3>3, <3>4
  <2>2. CASE s = -1
    <3>1. x \notin DOMAIN file
      BY <1>2, <2>1, <2>2
    <3> QED BY <2>2, <3>1 DEF StoredHead, Get
  <2>3. CASE s # -1
    <3>1. s \in 0..s /\ NewBlock(s, 0, 0).height >= s
      BY <1>2, <1>4, <2>3
    <3>2. x \in DOMAIN file
      BY <1>3, <3>1 DEF EntryOf
    <3> QED BY <2>1, <3>2 DEF StoredHead, Get
  <2> QED BY <2>2, <2>3
<1>6. Below(file, s, top)
  <2> SUFFICES ASSUME NEW n \in 0..top, GetBlockheadByHeight(file, n) # Absent PROVE n <= s
    BY DEF Below
  <2> DEFINE x == <<"Blockheads", HeightToBytes(n)>>
  <2>1. x \in DOMAIN file
    BY DEF GetBlockheadByHeight, Get
  <2>2. PICK h \in 0..s : EntryOf(x, file[x], NewBlock(h, 0, 0), s)
    BY <1>3, <2>1
  <2> DEFINE b == NewBlock(h, 0, 0)
  <2>3. b.height = h /\ n \in Int
    BY <1>2, <1>4
  <2>4. HeightToBytes(n) # Lastest
    BY <2>3, KeysDiffer
  <2> HIDE DEF b
  <2>5. HeightToBytes(n) = HeightToBytes(h)
    BY <2>2, <2>3, <2>4 DEF EntryOf, b
  <2>6. HeightToBytes(h) # <<>>
    BY BlockStoreAssumption DEF CanSet
  <2>7. n = h
    BY <1>2, <2>5, <2>6, HeightsDiffer
  <2> QED BY <1>2, <2>7
<1>7. \A p \in Activity : todo[p] = <<>>
  BY DEF Init
<1>8. Settled
  BY <1>5, <1>6, <1>7, PastEmpty DEF Settled, Init
<1> QED BY <1>7, <1>8, PastEmpty DEF HeadsInv

LEMMA RestartHeads ==
    ASSUME IInv, HeadsInv, Restart
    PROVE  HeadsInv'
<1>1. /\ UNCHANGED <<file, top>> /\ headCache' = Absent /\ todo' = [p \in Activity |-> <<>>]
      /\ headsCut' = (headsCut \/ \E p \in Activity : InAddBlockhead(p))
  BY DEF Restart
<1>2. \A p \in Activity : Past(todo'[p])
  BY <1>1, PastEmpty
<1>3. Underway => headsCut'
  <2>1. Underway => \E p \in Activity : InAddBlockhead(p)
    BY InHead DEF Underway
  <2> QED BY <1>1, <2>1, Zenon
<1>4. headsCut => headsCut'
  BY <1>1, Zenon
<1>5. Settled => Settled'
  BY <1>1, <1>2 DEF Settled
<1> QED BY <1>2, <1>3, <1>4, <1>5 DEF HeadsInv

\* A head is about to be added.
LEMMA HeadsBegin ==
    ASSUME IInv, HeadsInv, NEW p \in Activity, Past(todo[p]), NEW M, Past(M),
           NEW b \in BlockSet(top), HeadHeight + 1 = b.height,
           todo'[p] = WriteHead(b) \o M, \A q \in Activity : q # p => todo'[q] = todo[q],
           UNCHANGED <<file, top>>, headCache' = HeadHeight,
           headsCut' = (headsCut \/ \E q \in Activity \ {p} : InAddBlockhead(q))
    PROVE  HeadsInv'
<1>1. HeadHeight \in Int
  BY HeadHeightFacts DEF IInv, Counts
<1>2. Mid(todo'[p], headCache', top)
  <2>1. AtCache(WriteHead(b) \o M, b)
    BY WriteHeadAt
  <2>2. b.height - 1 = headCache'
    BY <1>1
  <2> QED BY <2>1, <2>2 DEF Mid
<1>3. \A q \in Activity : Past(todo'[q]) \/ \E v : Mid(todo'[q], v, top)
  BY <1>2 DEF HeadsInv
<1>4. Underway => headsCut'
  <2>1. ASSUME Underway PROVE \E q \in Activity \ {p} : InAddBlockhead(q)
    <3>1. PICK q \in Activity : Mid(todo[q], headCache, top)
      BY <2>1 DEF Underway
    <3>2. InAddBlockhead(q) /\ q # p
      BY <3>1, InHead
    <3> QED BY <3>2
  <2> QED BY <2>1, Zenon
<1>5. headsCut => headsCut'
  BY Zenon
<1>6. ASSUME Settled PROVE Underway'
  <2>1. headCache' = StoredHead(file)
    BY <1>6 DEF Settled, HeadHeight, StoredHead
  <2>2. Below(file', headCache', top)
    BY <1>6, <2>1 DEF Settled
  <2>3. PICK q \in Activity : q # p
    BY DEF Activity
  <2>4. Past(todo'[q])
    BY <1>6, <2>3 DEF Settled
  <2> QED BY <1>2, <2>2, <2>3, <2>4 DEF Underway
<1> QED BY <1>3, <1>4, <1>5, <1>6 DEF HeadsInv

LEMMA GossipBlockHeadHeads ==
    ASSUME IInv, HeadsInv, GossipBlockHead
    PROVE  HeadsInv'
<1> DEFINE b == NewBlock(HeadHeight + 1, forks, forks)
<1>1. /\ UNCHANGED <<file, top>> /\ Idle("heads")
      /\ b.height <= top /\ todo' = [todo EXCEPT !["heads"] = WriteHead(b)]
      /\ headsCut' = (headsCut \/ InAddBlockhead("chain")) /\ headCache' = HeadHeight
  BY DEF GossipBlockHead
<1>2. HeadHeight \in -1..top /\ top \in Int /\ forks \in Int
  BY HeadHeightFacts DEF IInv, Counts
<1>3. b \in BlockSet(top) /\ HeadHeight + 1 = b.height
  BY <1>1, <1>2 DEF NewBlock, BlockSet
<1> HIDE DEF b
<1>4. /\ todo'["heads"] = WriteHead(b) \o <<>>
      /\ \A q \in Activity : q # "heads" => todo'[q] = todo[q]
  <2>1. WriteHead(b) \o <<>> = WriteHead(b)
    BY DEF WriteHead
  <2> QED BY <1>1, <2>1 DEF IInv, Lists, Activity
<1>5. headsCut' = (headsCut \/ \E q \in Activity \ {"heads"} : InAddBlockhead(q))
  <2>1. (\E q \in Activity \ {"heads"} : InAddBlockhead(q)) <=> InAddBlockhead("chain")
    BY DEF Activity
  <2> QED BY <1>1, <2>1, Zenon
<1>6. "heads" \in Activity /\ Past(todo["heads"])
  BY <1>1, PastEmpty DEF Activity, Idle
<1> QED BY <1>1, <1>3, <1>4, <1>5, <1>6, PastEmpty, HeadsBegin

LEMMA DoCheckHeads ==
    ASSUME IInv, HeadsInv, NEW p \in Activity, DoCheck(p)
    PROVE  HeadsInv'
<1>1. p = "chain" /\ Has("chain", "check")
  BY NotHeads DEF DoCheck
<1> DEFINE b == Head(todo["chain"]).value
           M == Tail(todo["chain"])
<1>2. /\ UNCHANGED <<file, top>> /\ todo["chain"] # <<>>
      /\ Head(todo["chain"]).do = "check" /\ headCache' = HeadHeight
      /\ \/ /\ IsNextHead(b) /\ GoOn("chain", WriteHead(b) \o M)
            /\ headsCut' = (headsCut \/ InAddBlockhead("heads"))
         \/ GoOn("chain", M) /\ headsCut' = headsCut
  BY <1>1 DEF DoCheck, Has
<1>3. b \in BlockSet(top)
  BY <1>2, ChainHead DEF ItemOK, IInv
<1>4. "chain" \in Activity /\ Activity \ {"chain"} = {"heads"}
  BY DEF Activity
<1>5. Past(todo["chain"]) /\ Past(M)
  <2>1. ~HeadItem(Head(todo["chain"]))
    BY <1>2 DEF HeadItem
  <2> QED BY <1>2, <1>4, <2>1, PlainIsPast
<1> HIDE DEF b, M
<1>6. CASE /\ IsNextHead(b) /\ GoOn("chain", WriteHead(b) \o M)
           /\ headsCut' = (headsCut \/ InAddBlockhead("heads"))
  <2>1. /\ todo'["chain"] = WriteHead(b) \o M
        /\ \A q \in Activity : q # "chain" => todo'[q] = todo[q]
    BY <1>4, <1>6, GoOnTodo
  <2>2. headsCut' = (headsCut \/ \E q \in Activity \ {"chain"} : InAddBlockhead(q))
    <3>1. (\E q \in Activity \ {"chain"} : InAddBlockhead(q)) <=> InAddBlockhead("heads")
      BY <1>4
    <3> QED BY <1>6, <3>1, Zenon
  <2>3. HeadHeight + 1 = b.height
    BY <1>6 DEF IsNextHead
  <2> QED BY <1>2, <1>3, <1>4, <1>5, <2>1, <2>2, <2>3, HeadsBegin
<1>7. CASE GoOn("chain", M) /\ headsCut' = headsCut
  <2>1. todo'["chain"] = M /\ \A q \in Activity : q # "chain" => todo'[q] = todo[q]
    BY <1>4, <1>7, GoOnTodo
  <2>2. \A q \in Activity : todo'[q] = todo[q] \/ (Past(todo[q]) /\ Past(todo'[q]))
    BY <1>5, <2>1
  <2>3. \A q \in Activity : Past(todo'[q]) \/ \E v : Mid(todo'[q], v, top)
    BY <2>2 DEF HeadsInv
  <2>4. Settled => Settled'
    <3>1. Settled => headCache' = StoredHead(file)
      BY <1>2 DEF Settled, HeadHeight, StoredHead
    <3> QED BY <1>2, <2>2, <3>1 DEF Settled
  <2>5. Underway => Underway'
    <3>1. Underway => headCache # Absent
      <4>1. \A L, v : Mid(L, v, top) => v \in Int
        BY DEF Mid, BlockSet
      <4> QED BY <4>1, ConstFacts DEF Underway
    <3>2. Underway => headCache' = headCache
      BY <1>2, <3>1 DEF HeadHeight
    <3>3. \A q \in Activity : Past(todo[q]) => Past(todo'[q])
      BY <2>2
    <3>4. \A q \in Activity : \A v : Mid(todo[q], v, top) => Mid(todo'[q], v, top)
      <4>1. \A q \in Activity : \A v : Mid(todo[q], v, top) => ~Past(todo[q])
        BY InHead
      <4> QED BY <2>2, <4>1
    <3> QED BY <1>2, <3>2, <3>3, <3>4 DEF Underway
  <2> QED BY <1>2, <1>7, <2>3, <2>4, <2>5 DEF HeadsInv
<1> QED BY <1>2, <1>6, <1>7

\* A step of AddBlockhead on the way: which step it is, and whose.
LEMMA MidStep ==
    ASSUME IInv, HeadsInv, NEW p \in Activity, todo[p] # <<>>, HeadItem(Head(todo[p])),
           UNCHANGED <<top, headsCut>>,
           todo'[p] = Tail(todo[p]), \A q \in Activity : q # p => todo'[q] = todo[q],
           \A v : Mid(todo[p], v, top) => Past(todo'[p]) \/ \E w : Mid(todo'[p], w, top),
           Mid(todo[p], headCache, top) /\ Below(file, headCache, top) =>
               \/ Mid(todo'[p], headCache', top) /\ Below(file', headCache', top)
               \/ /\ Past(todo'[p]) /\ headCache' = StoredHead(file')
                  /\ Below(file', headCache', top)
    PROVE  HeadsInv'
<1>1. ~Past(todo[p])
  BY PastHead DEF Plain
<1>2. \A q \in Activity : Past(todo'[q]) \/ \E v : Mid(todo'[q], v, top)
  BY <1>1 DEF HeadsInv
<1>3. ~Settled
  BY <1>1 DEF Settled
<1>4. ASSUME Underway PROVE Settled' \/ Underway'
  <2>1. PICK q, r \in Activity : q # r /\ Past(todo[q]) /\ Mid(todo[r], headCache, top)
    BY <1>4 DEF Underway
  <2>2. r = p /\ q # p
    BY <1>1, <2>1 DEF Activity
  <2>3. Past(todo'[q]) /\ \A a \in Activity : a = p \/ a = q
    BY <2>1, <2>2 DEF Activity
  <2>4. Below(file, headCache, top)
    BY <1>4 DEF Underway
  <2>5. CASE Mid(todo'[p], headCache', top) /\ Below(file', headCache', top)
    BY <2>2, <2>3, <2>5 DEF Underway
  <2>6. CASE /\ Past(todo'[p]) /\ headCache' = StoredHead(file')
             /\ Below(file', headCache', top)
    <3>1. \A a \in Activity : Past(todo'[a])
      BY <2>3, <2>6
    <3> QED BY <2>6, <3>1 DEF Settled
  <2> QED BY <2>1, <2>2, <2>4, <2>5, <2>6
<1> QED BY <1>2, <1>3, <1>4 DEF HeadsInv

LEMMA DoHeadCacheHeads ==
    ASSUME IInv, HeadsInv, NEW p \in Activity, DoHeadCache(p)
    PROVE  HeadsInv'
<1> DEFINE L == todo[p]
<1>1. /\ UNCHANGED <<file, top, headsCut>>
      /\ L # <<>> /\ Head(L).do = "headCache" /\ headCache' = Head(L).value
      /\ GoOn(p, Tail(L))
  BY DEF DoHeadCache, Has
<1>2. todo'[p] = Tail(L) /\ \A q \in Activity : q # p => todo'[q] = todo[q]
  BY <1>1, GoOnTodo
<1>3. ASSUME NEW v, Mid(L, v, top)
      PROVE  /\ Mid(todo'[p], headCache', top)
             /\ Below(file, v, top) => Below(file, headCache', top)
  <2>1. PICK b \in BlockSet(top) : \/ AtCache(L, b) /\ v = b.height - 1
                                   \/ (AtHeight(L, b) \/ AtLastest(L, b)) /\ v = b.height
    BY <1>3 DEF Mid
  <2>2. AtCache(L, b) /\ v = b.height - 1
    BY <1>1, <2>1 DEF AtHeight, AtLastest, Write
  <2>3. AtHeight(todo'[p], b) /\ headCache' = b.height
    BY <1>1, <1>2, <2>2 DEF AtCache
  <2>4. b.height \in Int /\ v \in Int /\ v < b.height /\ top \in Int
    BY <2>2 DEF BlockSet, IInv, Counts
  <2>5. Below(file, v, top) => Below(file, headCache', top)
    BY <2>3, <2>4 DEF Below
  <2> QED BY <2>3, <2>5 DEF Mid
<1>4. HeadItem(Head(L))
  BY <1>1 DEF HeadItem
<1>5. file' = file
  BY <1>1
<1> HIDE DEF L
<1> QED BY <1>1, <1>2, <1>3, <1>4, <1>5, MidStep DEF L

LEMMA DoSetHeads ==
    ASSUME IInv, HeadsInv, NEW p \in Activity, DoSet(p)
    PROVE  HeadsInv'
<1> DEFINE L == todo[p]
           s == Head(L)
<1>1. /\ UNCHANGED <<headCache, top, headsCut>>
      /\ L # <<>> /\ s.do = "set" /\ s.key # <<>>
      /\ file' = Set(file, s.bucket, s.key, s.value) /\ GoOn(p, Tail(L))
  BY DEF DoSet, Has, CanSet, memory
<1>2. todo'[p] = Tail(L) /\ \A q \in Activity : q # p => todo'[q] = todo[q]
  BY <1>1, GoOnTodo
<1>3. \A k : Get(file', "Blockheads", k) =
                IF s.bucket = "Blockheads" /\ k = s.key THEN s.value ELSE Get(file, "Blockheads", k)
  BY <1>1, GetSet
<1>4. CASE s.bucket # "Blockheads"
  <2>1. ~HeadItem(s)
    BY <1>1, <1>4 DEF HeadItem
  <2>2. Past(L) /\ Past(Tail(L))
    BY <1>1, <2>1, PlainIsPast
  <2>3. \A q \in Activity : todo'[q] = todo[q] \/ (Past(todo[q]) /\ Past(todo'[q]))
    BY <1>2, <2>2
  <2>4. \A k : Get(file', "Blockheads", k) = Get(file, "Blockheads", k)
    BY <1>3, <1>4
  <2>5. \A k : Get(file', "Blockheads", k) \in {Absent, Get(file, "Blockheads", k)}
    BY <2>4
  <2> QED BY <1>1, <2>3, <2>4, <2>5, PastStep
<1>5. CASE s.bucket = "Blockheads"
  <2>1. HeadItem(s)
    BY <1>1, <1>5 DEF HeadItem
  <2>2. ASSUME NEW v, Mid(L, v, top)
        PROVE  \/ Mid(todo'[p], v, top) /\ (Below(file, v, top) => Below(file', v, top))
               \/ /\ Past(todo'[p]) /\ v = StoredHead(file')
                  /\ Below(file, v, top) => Below(file', v, top)
    <3>1. PICK b \in BlockSet(top) : \/ AtCache(L, b) /\ v = b.height - 1
                                     \/ (AtHeight(L, b) \/ AtLastest(L, b)) /\ v = b.height
      BY <2>2 DEF Mid
    <3>2. b.height \in 0..top /\ b.height \in Nat /\ top \in Int /\ b # Absent
      BY ConstFacts DEF BlockSet, IInv, Counts
    <3>3. ~AtCache(L, b)
      BY <1>1 DEF AtCache
    <3>4. CASE AtHeight(L, b)
      <4>1. AtLastest(todo'[p], b) /\ v = b.height
        BY <1>2, <3>1, <3>3, <3>4 DEF AtHeight
      <4>2. s.key = HeightToBytes(b.height)
        BY <3>4 DEF AtHeight, Write
      <4>3. ASSUME Below(file, v, top) PROVE Below(file', v, top)
        <5> SUFFICES ASSUME NEW h \in 0..top, GetBlockheadByHeight(file', h) # Absent PROVE h <= v
          BY DEF Below
        <5>1. CASE HeightToBytes(h) = s.key
          <6>1. h \in Nat /\ h = b.height
            BY <1>1, <3>2, <4>2, <5>1, HeightsDiffer
          <6> QED BY <4>1, <6>1
        <5>2. CASE HeightToBytes(h) # s.key
          <6>1. GetBlockheadByHeight(file, h) # Absent
            BY <1>3, <5>2 DEF GetBlockheadByHeight
          <6> QED BY <4>3, <6>1 DEF Below
        <5> QED BY <5>1, <5>2
      <4> QED BY <4>1, <4>3 DEF Mid
    <3>5. CASE AtLastest(L, b)
      <4>1. Past(todo'[p]) /\ v = b.height /\ s.key = Lastest /\ s.value = b
        BY <1>2, <3>1, <3>3, <3>5 DEF AtLastest, Write
      <4>2. StoredHead(file') = b.height
        BY <1>3, <1>5, <3>2, <4>1 DEF StoredHead
      <4>3. ASSUME Below(file, v, top) PROVE Below(file', v, top)
        <5>1. \A h \in 0..top : HeightToBytes(h) # Lastest
          BY <3>2, KeysDiffer
        <5> QED BY <1>3, <4>1, <4>3, <5>1 DEF Below, GetBlockheadByHeight
      <4> QED BY <4>1, <4>2, <4>3
    <3> QED BY <3>1, <3>3, <3>4, <3>5
  <2> HIDE DEF L, s
  <2> QED BY <1>1, <1>2, <2>1, <2>2, MidStep DEF L, s
<1> QED BY <1>4, <1>5

LEMMA DoDeleteHeads ==
    ASSUME IInv, HeadsInv, NEW p \in Activity, DoDelete(p) \/ DoClear(p) \/ DoCache(p)
    PROVE  HeadsInv'
<1> DEFINE L == todo[p]
           s == Head(L)
<1>1. /\ UNCHANGED <<headCache, top, headsCut>>
      /\ L # <<>> /\ s.do \in {"delete", "clear", "cache"} /\ GoOn(p, Tail(L))
      /\ s.do = "delete" => file' = Delete(file, s.bucket, s.key)
      /\ s.do = "clear" => file' = Clear(file, s.bucket)
      /\ s.do = "cache" => file' = file
  BY DEF DoDelete, DoClear, DoCache, Has, memory
<1>2. todo'[p] = Tail(L) /\ \A q \in Activity : q # p => todo'[q] = todo[q]
  BY <1>1, GoOnTodo
<1>3. Past(L) /\ Plain(s) /\ Past(Tail(L))
  <2>1. ~HeadItem(s)
    BY <1>1 DEF HeadItem
  <2> QED BY <1>1, <2>1, PlainIsPast
<1>4. \A q \in Activity : todo'[q] = todo[q] \/ (Past(todo[q]) /\ Past(todo'[q]))
  BY <1>2, <1>3
<1>5. CASE s.do = "delete"
  <2>1. \A k : Get(file', "Blockheads", k) =
                  IF s.bucket = "Blockheads" /\ k = s.key THEN Absent ELSE Get(file, "Blockheads", k)
    BY <1>1, <1>5, GetDelete
  <2>2. s.bucket = "Blockheads" => s.key # Lastest
    BY <1>3, <1>5 DEF Plain
  <2>3. Get(file', "Blockheads", Lastest) = Get(file, "Blockheads", Lastest)
    BY <2>1, <2>2
  <2>4. \A k : Get(file', "Blockheads", k) \in {Absent, Get(file, "Blockheads", k)}
    BY <2>1
  <2> QED BY <1>1, <1>4, <2>3, <2>4, PastStep
<1>6. CASE s.do = "clear"
  <2>1. \A k : Get(file', "Blockheads", k) = Get(file, "Blockheads", k)
    <3>1. s.bucket # "Blockheads"
      BY <1>3, <1>6 DEF Plain
    <3> QED BY <1>1, <1>6, <3>1, GetClear
  <2>2. \A k : Get(file', "Blockheads", k) \in {Absent, Get(file, "Blockheads", k)}
    BY <2>1
  <2> QED BY <1>1, <1>4, <2>1, <2>2, PastStep
<1>7. CASE s.do = "cache"
  <2>1. \A k : Get(file', "Blockheads", k) = Get(file, "Blockheads", k)
    BY <1>1, <1>7, Zenon
  <2>2. \A k : Get(file', "Blockheads", k) \in {Absent, Get(file, "Blockheads", k)}
    BY <2>1
  <2> QED BY <1>1, <1>4, <2>1, <2>2, PastStep
<1> QED BY <1>1, <1>5, <1>6, <1>7

\* The operations of the chain and what follows a fetch make new lists.
LEMMA ChainListHeads ==
    ASSUME IInv, HeadsInv,
           AddGenesis \/ AddBlock \/ (\E r \in 0..top : SyncBlocks(r)) \/ Fetched \/ FetchFails \/ DoRevert
    PROVE  HeadsInv'
<1>0. "chain" \in Activity /\ \A q \in Activity : q = "chain" \/ q = "heads"
  BY DEF Activity
<1> DEFINE New(M) == /\ UNCHANGED <<file, top, headCache, headsCut>> /\ Past(M)
                     /\ todo'["chain"] = M /\ todo'["heads"] = todo["heads"]
                     /\ Past(todo["chain"])
<1>1. ASSUME NEW M, todo' = [todo EXCEPT !["chain"] = M]
      PROVE  todo'["chain"] = M /\ todo'["heads"] = todo["heads"]
  BY <1>1 DEF IInv, Lists, Activity
<1>2. ASSUME NEW M, GoOn("chain", M)
      PROVE  todo'["chain"] = M /\ todo'["heads"] = todo["heads"]
  BY <1>2 DEF IInv, Lists, Activity, GoOn
<1>3. \E M : New(M)
  <2>1. CASE AddGenesis
    <3> DEFINE b == NewBlock(0, 0, 0)
               M == <<Empty("Blocks")>> \o StoreBlock(b) \o <<Empty("UTXOSet")>> \o Update(b)
                      \o <<Empty("Txns"), Write("Txns", Hash(b), b)>>
    <3>1. /\ UNCHANGED <<file, top, headCache, headsCut>> /\ Idle("chain")
          /\ todo' = [todo EXCEPT !["chain"] = M]
      BY <2>1 DEF AddGenesis, memory
    <3>2. Past(M)
      <4>1. Past(<<Empty("Blocks")>>) /\ Past(<<Empty("UTXOSet")>>)
            /\ Past(<<Empty("Txns"), Write("Txns", Hash(b), b)>>)
        BY PlainSteps, PastOne, PastTwo
      <4>2. Past(StoreBlock(b)) /\ Past(Update(b))
        BY PastLists
      <4> HIDE DEF b
      <4> QED BY <4>1, <4>2, PastConcat
    <3> HIDE DEF M
    <3> QED BY <1>1, <3>1, <3>2, PastEmpty DEF Idle
  <2>2. CASE AddBlock
    <3>1. PICK b : todo' = [todo EXCEPT !["chain"] = StoreBlock(b) \o Update(b)]
      BY <2>2 DEF AddBlock
    <3>2. UNCHANGED <<file, top, headCache, headsCut>> /\ Idle("chain")
      BY <2>2 DEF AddBlock, memory
    <3>3. Past(StoreBlock(b) \o Update(b))
      BY PastLists, PastConcat
    <3> QED BY <1>1, <3>1, <3>2, <3>3, PastEmpty DEF Idle
  <2>3. CASE \E r \in 0..top : SyncBlocks(r)
    <3>1. PICK r \in 0..top : SyncBlocks(r)
      BY <2>3
    <3>2. PICK h : todo' = [todo EXCEPT !["chain"] =
                                SetLastest(GetBlockByHeight(file, r))
                                  \o <<[do |-> "fetch", from |-> h, to |-> r,
                                        origin |-> Hash(GetLastest(file))]>>]
      BY <3>1 DEF SyncBlocks
    <3>3. UNCHANGED <<file, top, headCache, headsCut>> /\ Idle("chain")
      BY <3>1 DEF SyncBlocks, memory, history
    <3> DEFINE s == [do |-> "fetch", from |-> h, to |-> r, origin |-> Hash(GetLastest(file))]
    <3>4. Past(<<s>>)
      <4>1. Plain(s)
        BY PlainSteps
      <4> QED BY <4>1, PastOne
    <3>5. Past(SetLastest(GetBlockByHeight(file, r)) \o <<s>>)
      <4> HIDE DEF s
      <4> QED BY <3>4, PastLists, PastConcat
    <3> QED BY <1>1, <3>2, <3>3, <3>5, PastEmpty DEF Idle
  <2>4. CASE Fetched \/ FetchFails \/ DoRevert
    <3>1. UNCHANGED <<file, top, headCache, headsCut>> /\ todo["chain"] # <<>>
          /\ Head(todo["chain"]).do \in {"fetch", "revert"}
      BY <2>4 DEF Fetched, FetchFails, DoRevert, memory, Has
    <3>2. Past(todo["chain"])
      <4>1. ~HeadItem(Head(todo["chain"]))
        BY <3>1 DEF HeadItem
      <4> QED BY <1>0, <3>1, <4>1, PlainIsPast
    <3>3. \E M : GoOn("chain", M) /\ Past(M)
      <4>1. CASE Fetched
        BY <4>1, PastLists DEF Fetched
      <4>2. CASE FetchFails
        BY <4>2, PastLists DEF FetchFails
      <4>3. CASE DoRevert
        <5> DEFINE s == Head(todo["chain"])
                   b == GetBlockByHeight(file, s.from)
                   A == IF b = Absent THEN <<>> ELSE DeleteBlock(b)
                   B == DeleteDownTo(s.from - 1, s.to)
        <5>1. GoOn("chain", A \o B)
          BY <4>3 DEF DoRevert
        <5>2. s.from \in Int
          <6>1. Head(todo["chain"]).do = "revert"
            BY <4>3 DEF DoRevert, Has
          <6> QED BY <3>1, <6>1, ChainHead DEF ItemOK, IInv
        <5>3. b \in BlockSet(top) \cup {Absent}
          BY <5>2, ReadBlockByHeight DEF IInv
        <5>4. Past(A)
          BY <5>3, PastLists, PastEmpty
        <5>5. Past(B)
          BY PastLists
        <5> HIDE DEF A, B
        <5> QED BY <5>1, <5>4, <5>5, PastConcat
      <4> QED BY <2>4, <4>1, <4>2, <4>3
    <3> QED BY <1>2, <3>1, <3>2, <3>3
  <2> QED BY <2>1, <2>2, <2>3, <2>4
<1> QED BY <1>3, HeadsNewList

LEMMA NextHeads == IInv /\ HeadsInv /\ [Next]_vars => HeadsInv'
<1> SUFFICES ASSUME IInv, HeadsInv, [Next]_vars PROVE HeadsInv'
  OBVIOUS
<1>1. CASE LoadHeight \/ HeightLoaded \/ UNCHANGED vars
  <2>1. UNCHANGED <<file, todo, top, headCache, headsCut>>
    BY <1>1 DEF LoadHeight, HeightLoaded, vars, history
  <2> QED BY <2>1, HeadsSame
<1>2. CASE AddGenesis \/ AddBlock \/ (\E r \in 0..top : SyncBlocks(r)) \/ Fetched \/ FetchFails \/ DoRevert
  BY <1>2, ChainListHeads
<1>3. CASE GossipBlockHead
  BY <1>3, GossipBlockHeadHeads
<1>4. CASE Crash
  BY <1>4, RestartHeads DEF Crash
<1>5. ASSUME NEW p \in Activity, Exit(p) PROVE HeadsInv'
  BY <1>5, RestartHeads DEF Exit
<1>6. ASSUME NEW p \in Activity,
             DoSet(p) \/ DoDelete(p) \/ DoClear(p) \/ DoCache(p) \/ DoCheck(p) \/ DoHeadCache(p)
      PROVE  HeadsInv'
  BY <1>6, DoSetHeads, DoDeleteHeads, DoCheckHeads, DoHeadCacheHeads
<1> QED BY <1>1, <1>2, <1>3, <1>4, <1>5, <1>6 DEF Next

-----------------------------------------------------------------------------
(* What is stored for the heights *)

HeightHash(f, h) == Get(f, "Blocks", HeightToBytes(h))

\* A block is stored under its own hash, and a height leads to the hash of a block
\* of that height.
Keyed(f) ==
    /\ \A k \in HashSet : GetBlockByHash(f, k) # Absent =>
          Hash(GetBlockByHash(f, k)) = k /\ GetBlockByHash(f, k).fork \in Nat
    /\ \A h \in Nat : HeightHash(f, h) # Absent => HeightHash(f, h)[1] = h

Complete(f, h) ==
    /\ GetBlockByHeight(f, h) # Absent
    /\ Get(f, "Txns", HeightHash(f, h)) # Absent
    /\ Get(f, "UTXOSet", HeightHash(f, h)) # Absent

Linked(f, h) == GetBlockByHeight(f, h).prev = GetBlockByHeight(f, h - 1).fork

\* The chain up to height n, without the heights of T.
Stands(f, n, T) ==
    \A h \in 0..n : h \notin T =>
        Complete(f, h) /\ (h - 1 \in 0..n /\ h - 1 \notin T => Linked(f, h))

\* lastest is the block of its height.
TopIs(f, T) ==
    GetLastest(f) \notin {Absent, NullBlock} /\ LastestHeight(f) \notin T
        => GetBlockByHeight(f, LastestHeight(f)) = GetLastest(f)

Rests(f, T) == Stands(f, LastestHeight(f), T) /\ TopIs(f, T)

LEMMA HashParts ==
    ASSUME NEW n, NEW b \in BlockSet(n)
    PROVE  /\ Hash(b)[1] = b.height /\ Hash(b)[2] = b.fork /\ Hash(b)[3] = b.prev
           /\ Hash(b) \in HashSet
<1>1. 1 \in 1..8 /\ 2 \in 1..8 /\ 3 \in 1..8
  OBVIOUS
<1>2. Hash(b)[1] = b.height /\ Hash(b)[2] = b.fork /\ Hash(b)[3] = b.prev
  BY <1>1 DEF Hash, HashLength
<1> QED BY <1>2, HashKey

LEMMA HashDiffers ==
    ASSUME NEW n, NEW b \in BlockSet(n), NEW m, NEW c \in BlockSet(m), Hash(b) = Hash(c)
    PROVE  b = c
<1>1. b.height = c.height /\ b.fork = c.fork /\ b.prev = c.prev
  BY HashParts
<1>2. b = [height |-> b.height, fork |-> b.fork, prev |-> b.prev]
  BY DEF BlockSet
<1>3. c = [height |-> c.height, fork |-> c.fork, prev |-> c.prev]
  BY DEF BlockSet
<1> QED BY <1>1, <1>2, <1>3, Zenon

\* What a height leads to.
LEMMA AtHeightIs ==
    ASSUME NEW f, NEW n, FileOK(f, n), Keyed(f), NEW h \in Nat, HeightHash(f, h) # Absent
    PROVE  /\ HeightHash(f, h) \in HashSet /\ HeightHash(f, h)[1] = h /\ HeightToBytes(h) # <<>>
           /\ GetBlockByHeight(f, h) = GetBlockByHash(f, HeightHash(f, h))
<1> DEFINE x == <<"Blocks", HeightToBytes(h)>>
<1>1. x \in DOMAIN f /\ HeightHash(f, h) = f[x]
  BY DEF HeightHash, Get
<1>2. HeightToBytes(h) # <<>> /\ EntryOK("Blocks", HeightToBytes(h), f[x], n)
  BY <1>1 DEF FileOK
<1>3. f[x] \in HashSet
  BY <1>2, HeightKey DEF EntryOK
<1> QED BY <1>1, <1>2, <1>3 DEF Keyed, GetBlockByHeight, HeightHash

LEMMA BlockAtHeight ==
    ASSUME NEW f, NEW n, FileOK(f, n), Keyed(f), NEW h \in Nat, GetBlockByHeight(f, h) # Absent
    PROVE  LET b == GetBlockByHeight(f, h)
           IN  /\ HeightHash(f, h) # Absent /\ b \in BlockSet(n) /\ Hash(b) = HeightHash(f, h)
               /\ b.height = h /\ b.fork \in Nat
<1> DEFINE b == GetBlockByHeight(f, h)
           k == HeightHash(f, h)
<1>1. k # Absent
  <2>1. <<"Blocks", Absent>> \notin DOMAIN f
    BY ConstFacts DEF FileOK
  <2>2. Get(f, "Blocks", Absent) = Absent
    BY <2>1 DEF Get
  <2> QED BY <2>2 DEF GetBlockByHeight, GetBlockByHash, HeightHash
<1>2. k \in HashSet /\ k[1] = h /\ b = GetBlockByHash(f, k)
  BY <1>1, AtHeightIs
<1>3. Hash(b) = k /\ b.fork \in Nat
  BY <1>2 DEF Keyed
<1>4. b \in BlockSet(n)
  BY <1>2, ReadBlockByHash
<1>5. b.height = h
  BY <1>2, <1>3, <1>4, HashParts
<1> QED BY <1>1, <1>3, <1>4, <1>5

-----------------------------------------------------------------------------
(* What leaves it as it is *)

SameAt(f, g, h) ==
    /\ HeightHash(g, h) = HeightHash(f, h)
    /\ \A c \in {"Blocks", "Txns", "UTXOSet"} : Get(g, c, HeightHash(f, h)) = Get(f, c, HeightHash(f, h))

LEMMA SameAtIs ==
    ASSUME NEW f, NEW g, NEW h, SameAt(f, g, h)
    PROVE  GetBlockByHeight(g, h) = GetBlockByHeight(f, h) /\ (Complete(g, h) <=> Complete(f, h))
BY DEF SameAt, Complete, GetBlockByHeight, GetBlockByHash, HeightHash

LEMMA StandsKept ==
    ASSUME NEW f, NEW g, NEW n \in Int, NEW T, Stands(f, n, T),
           \A h \in 0..n : h \notin T /\ Complete(f, h) => SameAt(f, g, h)
    PROVE  /\ Stands(g, n, T)
           /\ \A h \in 0..n : h \notin T => GetBlockByHeight(g, h) = GetBlockByHeight(f, h)
<1>1. \A h \in 0..n : h \notin T => Complete(f, h) /\ SameAt(f, g, h)
  BY DEF Stands
<1>2. \A h \in 0..n : h \notin T =>
         Complete(g, h) /\ GetBlockByHeight(g, h) = GetBlockByHeight(f, h)
  BY <1>1, SameAtIs
<1>3. \A h \in 0..n : h \notin T /\ h - 1 \in 0..n /\ h - 1 \notin T => Linked(g, h)
  BY <1>2 DEF Stands, Linked
<1> QED BY <1>2, <1>3 DEF Stands

LEMMA StandsLower ==
    ASSUME NEW f, NEW T, NEW n \in Int, NEW m \in Int, m <= n, Stands(f, n, T)
    PROVE  Stands(f, m, T)
<1>1. \A h \in 0..m : h \in 0..n
  OBVIOUS
<1>2. \A h \in 0..m : h - 1 \in 0..m => h - 1 \in 0..n
  OBVIOUS
<1> QED BY <1>1, <1>2 DEF Stands

LEMMA TopKept ==
    ASSUME NEW f, NEW g, NEW n, NEW T, TopIs(f, T), Stands(f, LastestHeight(f), T), FileOK(f, n),
           NEW m \in Int, m >= -1, n = m,
           GetLastest(g) = GetLastest(f),
           \A h \in 0..LastestHeight(f) : h \notin T => GetBlockByHeight(g, h) = GetBlockByHeight(f, h)
    PROVE  TopIs(g, T) /\ LastestHeight(g) = LastestHeight(f)
<1>1. LastestHeight(g) = LastestHeight(f)
  BY DEF LastestHeight
<1>2. GetLastest(f) # Absent => LastestHeight(f) \in 0..LastestHeight(f)
  <2>1. GetLastest(f) \in BlockSet(n) \cup {Absent}
    BY ReadLastest
  <2> QED BY <2>1 DEF LastestHeight, BlockSet
<1> QED BY <1>1, <1>2 DEF TopIs

\* A key that has nothing to do with height h.
Apart(bucket, key, h) ==
    /\ bucket = "Blocks" => key # HeightToBytes(h)
    /\ bucket \in {"Blocks", "Txns", "UTXOSet"} /\ key \in HashSet => key[1] # h

LEMMA ApartSame ==
    ASSUME NEW f, NEW n, FileOK(f, n), Keyed(f), NEW h \in Nat, Complete(f, h),
           NEW bucket, NEW key, Apart(bucket, key, h), NEW g,
           \A c, k : ~(c = bucket /\ k = key) => Get(g, c, k) = Get(f, c, k)
    PROVE  SameAt(f, g, h)
<1> DEFINE k == HeightHash(f, h)
<1>1. k # Absent
  BY BlockAtHeight DEF Complete
<1>2. k \in HashSet /\ k[1] = h
  BY <1>1, AtHeightIs
<1>3. HeightHash(g, h) = k
  BY DEF Apart, HeightHash
<1> HIDE DEF k
<1>4. ASSUME NEW c \in {"Blocks", "Txns", "UTXOSet"} PROVE Get(g, c, k) = Get(f, c, k)
  <2>1. ~(c = bucket /\ k = key)
    BY <1>2 DEF Apart
  <2> QED BY <2>1
<1> QED BY <1>3, <1>4 DEF SameAt, k

\* A file that differs in the bucket of the heads only.
Outside(f, g) == \A c, k : c # "Blockheads" => Get(g, c, k) = Get(f, c, k)

LEMMA OutsideSame ==
    ASSUME NEW f, NEW g, Outside(f, g)
    PROVE  /\ GetLastest(g) = GetLastest(f) /\ LastestHeight(g) = LastestHeight(f)
           /\ \A h : HeightHash(g, h) = HeightHash(f, h)
           /\ \A k : GetBlockByHash(g, k) = GetBlockByHash(f, k)
           /\ \A h : GetBlockByHeight(g, h) = GetBlockByHeight(f, h)
           /\ \A h : Complete(g, h) <=> Complete(f, h)
           /\ \A m, T : Stands(g, m, T) <=> Stands(f, m, T)
           /\ \A T : TopIs(g, T) <=> TopIs(f, T)
           /\ Keyed(g) <=> Keyed(f)
<1>1. GetLastest(g) = GetLastest(f) /\ LastestHeight(g) = LastestHeight(f)
  BY DEF Outside, GetLastest, LastestHeight
<1>2. /\ \A h : HeightHash(g, h) = HeightHash(f, h)
      /\ \A k : GetBlockByHash(g, k) = GetBlockByHash(f, k)
  BY DEF Outside, HeightHash, GetBlockByHash
<1>3. \A h : GetBlockByHeight(g, h) = GetBlockByHeight(f, h)
  BY <1>2 DEF GetBlockByHeight, HeightHash
<1>4. \A h : Complete(g, h) <=> Complete(f, h)
  BY <1>2, <1>3 DEF Complete, Outside
<1>5. \A m, T : Stands(g, m, T) <=> Stands(f, m, T)
  BY <1>3, <1>4 DEF Stands, Linked
<1>6. \A T : TopIs(g, T) <=> TopIs(f, T)
  BY <1>1, <1>3 DEF TopIs
<1>7. Keyed(g) <=> Keyed(f)
  BY <1>2 DEF Keyed
<1> QED BY <1>1, <1>2, <1>3, <1>4, <1>5, <1>6, <1>7

\* A write of lastest.
LEMMA LastestWritten ==
    ASSUME NEW f, NEW n, FileOK(f, n), NEW v \in BlockSet(n), NEW g,
           \A c, k : Get(g, c, k) = IF c = "Blocks" /\ k = Lastest THEN v ELSE Get(f, c, k)
    PROVE  /\ GetLastest(g) = v /\ LastestHeight(g) = v.height
           /\ \A h \in Int : HeightHash(g, h) = HeightHash(f, h)
           /\ \A h \in Int : GetBlockByHeight(g, h) = GetBlockByHeight(f, h)
           /\ \A k \in HashSet : GetBlockByHash(g, k) = GetBlockByHash(f, k)
           /\ \A m, T : Stands(f, m, T) => Stands(g, m, T)
           /\ Keyed(f) => Keyed(g)
<1>1. GetLastest(g) = v /\ LastestHeight(g) = v.height
  BY ConstFacts DEF GetLastest, LastestHeight
<1>2. \A k : k # Lastest => Get(g, "Blocks", k) = Get(f, "Blocks", k)
  OBVIOUS
<1>3. \A h \in Int : HeightHash(g, h) = HeightHash(f, h)
  BY <1>2, KeysDiffer DEF HeightHash
<1>4. \A k \in HashSet : GetBlockByHash(g, k) = GetBlockByHash(f, k)
  BY <1>2, KeysDiffer DEF GetBlockByHash
<1>5. ASSUME NEW h \in Int PROVE GetBlockByHeight(g, h) = GetBlockByHeight(f, h)
  <2> DEFINE k == HeightHash(f, h)
             x == <<"Blocks", HeightToBytes(h)>>
  <2>1. k \in HashSet \cup {Absent}
    <3>1. CASE x \in DOMAIN f
      <4>1. EntryOK("Blocks", HeightToBytes(h), f[x], n)
        BY <3>1 DEF FileOK
      <4> QED BY <3>1, <4>1, HeightKey DEF EntryOK, Get, HeightHash
    <3>2. CASE x \notin DOMAIN f
      BY <3>2 DEF Get, HeightHash
    <3> QED BY <3>1, <3>2
  <2>2. k # Lastest
    BY <2>1, KeysDiffer, LastestKey, ConstFacts
  <2>3. GetBlockByHeight(g, h) = Get(g, "Blocks", k) /\ GetBlockByHeight(f, h) = Get(f, "Blocks", k)
    BY <1>3 DEF GetBlockByHeight, GetBlockByHash, HeightHash
  <2> QED BY <1>2, <2>2, <2>3
<1>6. \A h \in Int : Complete(f, h) => Complete(g, h)
  BY <1>3, <1>5 DEF Complete
<1>7. ASSUME NEW m, NEW T, Stands(f, m, T) PROVE Stands(g, m, T)
  <2>1. \A h \in 0..m : h \in Int /\ h - 1 \in Int
    OBVIOUS
  <2> QED BY <1>5, <1>6, <1>7, <2>1 DEF Stands, Linked
<1>8. Keyed(f) => Keyed(g)
  BY <1>3, <1>4 DEF Keyed
<1> QED BY <1>1, <1>3, <1>4, <1>5, <1>7, <1>8

LEMMA KeyedLess ==
    ASSUME NEW f, Keyed(f), NEW g, \A c, k : Get(g, c, k) \in {Absent, Get(f, c, k)}
    PROVE  Keyed(g)
BY DEF Keyed, HeightHash, GetBlockByHash

-----------------------------------------------------------------------------
(* A block on its way to the database *)

\* What has to be stored of a block.
Need(bucket, key, value, b) ==
    \/ bucket = "Blocks" /\ key = Lastest /\ value = b
    \/ bucket = "Blocks" /\ key = Hash(b) /\ value = b
    \/ bucket = "Blocks" /\ key = HeightToBytes(b.height) /\ value = Hash(b)
    \/ bucket = "Txns" /\ key = Hash(b) /\ value = b
    \/ bucket = "UTXOSet" /\ key = Hash(b) /\ value = b

Clears(s, bucket) == s.do = "clear" /\ s.bucket = bucket
NoClear(L, bucket) == \A j \in DOMAIN L : ~Clears(L[j], bucket)

\* It will be written and not cleared again; or it is there and stays.
Will(L, bucket, key, value) ==
    \E i \in DOMAIN L : /\ L[i] = Write(bucket, key, value)
                        /\ \A j \in DOMAIN L : j > i => ~Clears(L[j], bucket)
Due(L, f, bucket, key, value) ==
    Will(L, bucket, key, value) \/ (Get(f, bucket, key) = value /\ NoClear(L, bucket))

\* The steps of adding a block.
AddItem(s, b) ==
    \/ s.do = "set" /\ (s.bucket = "Blockheads" \/ Need(s.bucket, s.key, s.value, b))
    \/ s.do \in {"cache", "check", "headCache"}
    \/ s.do = "clear" /\ b.height = 0
AddList(L, b) == IsSeq(L) /\ \A i \in DOMAIN L : AddItem(L[i], b)

LEMMA AddListConcat ==
    ASSUME NEW b, NEW L, NEW M, AddList(L, b), AddList(M, b)
    PROVE  AddList(L \o M, b)
<1> DEFINE C == L \o M
<1>1. /\ IsSeq(C)
      /\ \A i \in DOMAIN L : i \in DOMAIN C /\ C[i] = L[i]
      /\ \A i \in DOMAIN C :
            i \in DOMAIN L \/ (i - Len(L) \in DOMAIN M /\ C[i] = M[i - Len(L)])
  BY ConcatFacts DEF AddList
<1> HIDE DEF C
<1>2. ASSUME NEW i \in DOMAIN C PROVE AddItem(C[i], b)
  BY <1>1, Zenon DEF AddList
<1>3. AddList(C, b)
  BY <1>1, <1>2, Zenon DEF AddList
<1> QED BY <1>3 DEF C

LEMMA NoClearConcat ==
    ASSUME NEW c, NEW L, NEW M, IsSeq(L), IsSeq(M), NoClear(L, c), NoClear(M, c)
    PROVE  NoClear(L \o M, c)
<1> DEFINE C == L \o M
<1>1. \A i \in DOMAIN C : i \in DOMAIN L \/ (i - Len(L) \in DOMAIN M /\ C[i] = M[i - Len(L)])
  BY ConcatFacts
<1>2. \A i \in DOMAIN L : C[i] = L[i]
  BY ConcatFacts
<1> HIDE DEF C
<1>3. NoClear(C, c)
  BY <1>1, <1>2, Zenon DEF NoClear
<1> QED BY <1>3 DEF C

LEMMA WillLeft ==
    ASSUME NEW bucket, NEW key, NEW value, NEW L, NEW M, IsSeq(L), IsSeq(M),
           Will(L, bucket, key, value), NoClear(M, bucket)
    PROVE  Will(L \o M, bucket, key, value)
<1> DEFINE C == L \o M
<1>1. /\ \A i \in DOMAIN L : i \in DOMAIN C /\ C[i] = L[i]
      /\ \A i \in DOMAIN C : i \in DOMAIN L \/ (i - Len(L) \in DOMAIN M /\ C[i] = M[i - Len(L)])
  BY ConcatFacts
<1> HIDE DEF C
<1>2. PICK i \in DOMAIN L : /\ L[i] = Write(bucket, key, value)
                            /\ \A j \in DOMAIN L : j > i => ~Clears(L[j], bucket)
  BY DEF Will
<1>3. \A j \in DOMAIN C : j > i => ~Clears(C[j], bucket)
  BY <1>1, <1>2, Zenon DEF NoClear
<1>4. i \in DOMAIN C /\ C[i] = Write(bucket, key, value)
  BY <1>1, <1>2
<1>5. Will(C, bucket, key, value)
  BY <1>3, <1>4, Zenon DEF Will
<1> QED BY <1>5 DEF C

LEMMA WillRight ==
    ASSUME NEW bucket, NEW key, NEW value, NEW L, NEW M, IsSeq(L), IsSeq(M),
           Will(M, bucket, key, value)
    PROVE  Will(L \o M, bucket, key, value)
<1> DEFINE C == L \o M
<1>1. /\ DOMAIN C = 1..Len(L) + Len(M)
      /\ \A i \in DOMAIN C : i \in DOMAIN L \/ (i - Len(L) \in DOMAIN M /\ C[i] = M[i - Len(L)])
  BY ConcatFacts
<1>2. Len(L) \in Nat /\ DOMAIN L = 1..Len(L) /\ Len(M) \in Nat /\ DOMAIN M = 1..Len(M)
  BY SeqFacts
<1> HIDE DEF C
<1>3. PICK i \in DOMAIN M : /\ M[i] = Write(bucket, key, value)
                            /\ \A j \in DOMAIN M : j > i => ~Clears(M[j], bucket)
  BY DEF Will
<1> DEFINE m == i + Len(L)
<1>4. m \in DOMAIN C /\ m \notin DOMAIN L /\ m - Len(L) = i
  BY <1>1, <1>2
<1>5. C[m] = Write(bucket, key, value)
  BY <1>1, <1>3, <1>4
<1>6. ASSUME NEW j \in DOMAIN C, j > m PROVE ~Clears(C[j], bucket)
  <2>1. j \notin DOMAIN L /\ j - Len(L) > i
    BY <1>1, <1>2, <1>6
  <2> QED BY <1>1, <1>3, <2>1
<1> HIDE DEF m
<1>7. Will(C, bucket, key, value)
  BY <1>4, <1>5, <1>6, Zenon DEF Will
<1> QED BY <1>7 DEF C

LEMMA DueRight ==
    ASSUME NEW f, NEW bucket, NEW key, NEW value, NEW L, NEW M, IsSeq(L), IsSeq(M),
           Due(M, f, bucket, key, value), NoClear(L, bucket)
    PROVE  Due(L \o M, f, bucket, key, value)
BY WillRight, NoClearConcat DEF Due

\* After the first step.
LEMMA DueTail ==
    ASSUME NEW L, IsSeq(L), L # <<>>, NEW f, NEW g, NEW bucket, NEW key, NEW value,
           Due(L, f, bucket, key, value),
           Head(L) = Write(bucket, key, value) => Get(g, bucket, key) = value,
           Head(L) # Write(bucket, key, value) /\ ~Clears(Head(L), bucket)
               => Get(g, bucket, key) = value \/ Get(g, bucket, key) = Get(f, bucket, key)
    PROVE  Due(Tail(L), g, bucket, key, value)
<1> DEFINE M == Tail(L)
<1>1. /\ Len(L) \in Nat /\ DOMAIN L = 1..Len(L) /\ Head(L) = L[1] /\ 1 \in DOMAIN L
      /\ DOMAIN M = 1..Len(L) - 1
      /\ \A i \in DOMAIN M : i + 1 \in DOMAIN L /\ M[i] = L[i + 1]
  BY SeqFacts
<1> HIDE DEF M
<1>2. ASSUME NEW i \in DOMAIN L, L[i] = Write(bucket, key, value),
             \A j \in DOMAIN L : j > i => ~Clears(L[j], bucket)
      PROVE  Due(M, g, bucket, key, value)
  <2>1. CASE i = 1
    <3>1. \A j \in DOMAIN M : j + 1 \in DOMAIN L /\ j + 1 > 1
      BY <1>1
    <3>2. NoClear(M, bucket)
      BY <1>1, <1>2, <2>1, <3>1 DEF NoClear
    <3>3. Get(g, bucket, key) = value
      BY <1>1, <1>2, <2>1
    <3> QED BY <3>2, <3>3 DEF Due
  <2>2. CASE i # 1
    <3> DEFINE m == i - 1
    <3>1. m \in DOMAIN M /\ m + 1 = i
      BY <1>1, <2>2
    <3>2. M[m] = Write(bucket, key, value)
      BY <1>1, <1>2, <3>1
    <3>3. \A j \in DOMAIN M : j > m => ~Clears(M[j], bucket)
      <4> HIDE DEF m
      <4>1. \A j \in DOMAIN M : j > m => j + 1 > i
        BY <1>1, <3>1
      <4> QED BY <1>1, <1>2, <4>1
    <3> HIDE DEF m
    <3>4. Will(M, bucket, key, value)
      BY <3>1, <3>2, <3>3, Zenon DEF Will
    <3> QED BY <3>4 DEF Due
  <2> QED BY <2>1, <2>2
<1>3. ASSUME Get(f, bucket, key) = value, NoClear(L, bucket)
      PROVE  Due(M, g, bucket, key, value)
  <2>1. NoClear(M, bucket) /\ ~Clears(Head(L), bucket)
    BY <1>1, <1>3 DEF NoClear
  <2>2. Get(g, bucket, key) = value
    BY <1>3, <2>1
  <2> QED BY <2>1, <2>2 DEF Due
<1> QED BY <1>2, <1>3 DEF Due, Will, M

\* The keys of a block are different ones.
LEMMA NeedOne ==
    ASSUME NEW n, NEW b \in BlockSet(n), NEW bucket, NEW key, NEW v, NEW w,
           Need(bucket, key, v, b), Need(bucket, key, w, b)
    PROVE  v = w
<1>1. Hash(b) # Lastest /\ HeightToBytes(b.height) # Lastest
  BY BlockEntries
<1>2. Hash(b) # HeightToBytes(b.height)
  <2>1. Hash(b) \in Seq(Int) /\ Len(Hash(b)) > Width
    BY HashKey, KeysDiffer
  <2>2. HeightToBytes(b.height) \in Seq(Int) /\ Len(HeightToBytes(b.height)) <= Width
    BY HeightKey DEF BlockSet
  <2>3. Width \in Int /\ Len(Hash(b)) \in Int /\ Len(HeightToBytes(b.height)) \in Int
    BY <2>1, <2>2, ConstFacts, LenProperties
  <2> QED BY <2>1, <2>2, <2>3
<1> QED BY <1>1, <1>2 DEF Need

LEMMA WillOne ==
    ASSUME NEW bucket, NEW key, NEW value
    PROVE  Will(<<Write(bucket, key, value)>>, bucket, key, value)
<1> DEFINE a == Write(bucket, key, value)
           L == <<a>>
<1> HIDE DEF a
<1>1. DOMAIN L = 1..1 /\ L[1] = a
  BY Singleton
<1> HIDE DEF L
<1>2. 1 \in DOMAIN L /\ \A j \in DOMAIN L : ~(j > 1)
  BY <1>1
<1>3. \E i \in DOMAIN L : L[i] = a /\ \A j \in DOMAIN L : j > i => ~Clears(L[j], bucket)
  BY <1>1, <1>2
<1> QED BY <1>3, Zenon DEF Will, L, a

LEMMA NoClearTwo ==
    ASSUME NEW c, NEW x, NEW y, ~Clears(x, c), ~Clears(y, c)
    PROVE  NoClear(<<x>>, c) /\ NoClear(<<x, y>>, c)
<1>1. DOMAIN <<x, y>> = 1..2 /\ <<x, y>>[1] = x /\ <<x, y>>[2] = y
  OBVIOUS
<1>2. DOMAIN <<x>> = 1..1 /\ <<x>>[1] = x
  OBVIOUS
<1> QED BY <1>1, <1>2 DEF NoClear

LEMMA AddListTwo ==
    ASSUME NEW b, NEW x, NEW y, AddItem(x, b), AddItem(y, b)
    PROVE  AddList(<<x>>, b) /\ AddList(<<x, y>>, b)
<1>1. IsSeq(<<x, y>>) /\ DOMAIN <<x, y>> = 1..2 /\ <<x, y>>[1] = x /\ <<x, y>>[2] = y
  BY DEF IsSeq
<1>2. IsSeq(<<x>>) /\ DOMAIN <<x>> = 1..1 /\ <<x>>[1] = x
  BY DEF IsSeq
<1> QED BY <1>1, <1>2 DEF AddList

\* The list stores the block.
Carries(L, f, b) ==
    /\ AddList(L, b)
    /\ \A bucket, key, value : Need(bucket, key, value, b) => Due(L, f, bucket, key, value)

LEMMA WriteAdds ==
    ASSUME NEW b, NEW bucket, NEW key, NEW value, Need(bucket, key, value, b)
    PROVE  /\ AddItem(Write(bucket, key, value), b)
           /\ \A c : ~Clears(Write(bucket, key, value), c)
BY DEF AddItem, Write, Clears

LEMMA TwoIs ==
    ASSUME NEW x, NEW y
    PROVE  <<x>> \o <<y>> = <<x, y>>
<1>1. x \in {x, y} /\ y \in {x, y}
  OBVIOUS
<1>2. <<x>> \in Seq({x, y}) /\ <<y>> \in Seq({x, y}) /\ <<x, y>> \in Seq({x, y})
  OBVIOUS
<1> DEFINE C == <<x>> \o <<y>>
           D == <<x, y>>
<1>3. C \in Seq({x, y}) /\ Len(C) = 2 /\ C[1] = x /\ C[2] = y
  BY <1>2
<1>4. D \in Seq({x, y}) /\ Len(D) = 2 /\ D[1] = x /\ D[2] = y
  BY <1>2
<1> HIDE DEF C, D
<1>5. Len(C) = Len(D) /\ \A i \in 1..Len(C) : C[i] = D[i]
  BY <1>3, <1>4
<1>6. C = D
  BY <1>3, <1>4, <1>5, SeqEqual
<1> QED BY <1>6 DEF C, D

LEMMA StoreBlockAdds ==
    ASSUME NEW n, NEW b \in BlockSet(n)
    PROVE  LET L == StoreBlock(b)
           IN  /\ AddList(L, b) /\ \A c : NoClear(L, c)
               /\ Will(L, "Blocks", Lastest, b) /\ Will(L, "Blocks", Hash(b), b)
               /\ Will(L, "Blocks", HeightToBytes(b.height), Hash(b))
               /\ Will(L, "Txns", Hash(b), b)
<1> DEFINE w == Write("Blocks", Lastest, b)
           e == [do |-> "cache", value |-> b.height]
           x == Write("Blocks", Hash(b), b)
           y == Write("Blocks", HeightToBytes(b.height), Hash(b))
           z == [do |-> "check", value |-> b]
           t == Write("Txns", Hash(b), b)
           A == <<w>> \o <<e>>
           B == <<x>> \o <<y>>
           AB == A \o B
           ABC == AB \o <<z>>
           ABCD == ABC \o <<t>>
<1>1. StoreBlock(b) = ABCD
  <2>1. b # Absent
    BY ConstFacts
  <2>2. SetLastest(b) = <<w, e>>
    BY <2>1 DEF SetLastest
  <2> HIDE DEF w, e, x, y, z, t
  <2>3. A = <<w, e>> /\ B = <<x, y>>
    BY TwoIs
  <2>4. StoreBlock(b) = ((<<w, e>> \o <<x, y>>) \o <<z>>) \o <<t>>
    BY <2>2 DEF StoreBlock, AddBlockhead, x, y, z, t
  <2> QED BY <2>3, <2>4
<1>2. /\ AddItem(w, b) /\ AddItem(e, b) /\ AddItem(x, b) /\ AddItem(y, b) /\ AddItem(z, b)
      /\ AddItem(t, b)
      /\ \A c : ~Clears(w, c) /\ ~Clears(e, c) /\ ~Clears(x, c) /\ ~Clears(y, c)
                /\ ~Clears(z, c) /\ ~Clears(t, c)
  <2>1. /\ Need("Blocks", Lastest, b, b) /\ Need("Blocks", Hash(b), b, b)
        /\ Need("Blocks", HeightToBytes(b.height), Hash(b), b) /\ Need("Txns", Hash(b), b, b)
    BY DEF Need
  <2>2. AddItem(e, b) /\ AddItem(z, b) /\ \A c : ~Clears(e, c) /\ ~Clears(z, c)
    BY DEF AddItem, Clears
  <2>3. /\ AddItem(w, b) /\ AddItem(x, b) /\ AddItem(y, b) /\ AddItem(t, b)
        /\ \A c : ~Clears(w, c) /\ ~Clears(x, c) /\ ~Clears(y, c) /\ ~Clears(t, c)
    BY <2>1, WriteAdds
  <2> QED BY <2>2, <2>3
<1>3. /\ Will(<<w>>, "Blocks", Lastest, b) /\ Will(<<x>>, "Blocks", Hash(b), b)
      /\ Will(<<y>>, "Blocks", HeightToBytes(b.height), Hash(b)) /\ Will(<<t>>, "Txns", Hash(b), b)
  BY WillOne
<1> HIDE DEF w, e, x, y, z, t
<1>4. /\ AddList(<<w>>, b) /\ AddList(<<e>>, b) /\ AddList(<<x>>, b) /\ AddList(<<y>>, b)
      /\ AddList(<<z>>, b) /\ AddList(<<t>>, b)
  BY <1>2, AddListTwo
<1>5. \A c : /\ NoClear(<<w>>, c) /\ NoClear(<<e>>, c) /\ NoClear(<<x>>, c) /\ NoClear(<<y>>, c)
             /\ NoClear(<<z>>, c) /\ NoClear(<<t>>, c)
  BY <1>2, NoClearTwo
<1>6. \A L : AddList(L, b) => IsSeq(L)
  BY DEF AddList
<1>7. /\ AddList(A, b) /\ AddList(B, b) /\ \A c : NoClear(A, c) /\ NoClear(B, c)
      /\ Will(A, "Blocks", Lastest, b) /\ Will(B, "Blocks", Hash(b), b)
      /\ Will(B, "Blocks", HeightToBytes(b.height), Hash(b))
  BY <1>3, <1>4, <1>5, <1>6, AddListConcat, NoClearConcat, WillLeft, WillRight
<1> HIDE DEF A, B
<1>8. /\ AddList(AB, b) /\ \A c : NoClear(AB, c)
      /\ Will(AB, "Blocks", Lastest, b) /\ Will(AB, "Blocks", Hash(b), b)
      /\ Will(AB, "Blocks", HeightToBytes(b.height), Hash(b))
  BY <1>6, <1>7, AddListConcat, NoClearConcat, WillLeft, WillRight
<1> HIDE DEF AB
<1>9. /\ AddList(ABC, b) /\ \A c : NoClear(ABC, c)
      /\ Will(ABC, "Blocks", Lastest, b) /\ Will(ABC, "Blocks", Hash(b), b)
      /\ Will(ABC, "Blocks", HeightToBytes(b.height), Hash(b))
  BY <1>4, <1>5, <1>6, <1>8, AddListConcat, NoClearConcat, WillLeft
<1> HIDE DEF ABC
<1>10. /\ AddList(ABCD, b) /\ \A c : NoClear(ABCD, c)
       /\ Will(ABCD, "Blocks", Lastest, b) /\ Will(ABCD, "Blocks", Hash(b), b)
       /\ Will(ABCD, "Blocks", HeightToBytes(b.height), Hash(b))
       /\ Will(ABCD, "Txns", Hash(b), b)
  BY <1>3, <1>4, <1>5, <1>6, <1>9, AddListConcat, NoClearConcat, WillLeft, WillRight
<1> HIDE DEF ABCD
<1> QED BY <1>1, <1>10

LEMMA UpdateAdds ==
    ASSUME NEW n, NEW b \in BlockSet(n)
    PROVE  /\ AddList(Update(b), b) /\ \A c : NoClear(Update(b), c)
           /\ Will(Update(b), "UTXOSet", Hash(b), b)
<1> DEFINE w == Write("UTXOSet", Hash(b), b)
<1>1. AddItem(w, b) /\ \A c : ~Clears(w, c)
  <2>1. Need("UTXOSet", Hash(b), b, b)
    BY DEF Need
  <2> QED BY <2>1, WriteAdds
<1>2. Will(<<w>>, "UTXOSet", Hash(b), b)
  BY WillOne
<1> HIDE DEF w
<1>3. AddList(<<w>>, b) /\ \A c : NoClear(<<w>>, c)
  BY <1>1, AddListTwo, NoClearTwo
<1> QED BY <1>2, <1>3 DEF Update, w

LEMMA AddBlockCarries ==
    ASSUME NEW n, NEW b \in BlockSet(n), NEW f
    PROVE  Carries(StoreBlock(b) \o Update(b), f, b)
<1> DEFINE A == StoreBlock(b)
           B == Update(b)
           L == A \o B
<1>1. /\ AddList(A, b) /\ \A c : NoClear(A, c)
      /\ Will(A, "Blocks", Lastest, b) /\ Will(A, "Blocks", Hash(b), b)
      /\ Will(A, "Blocks", HeightToBytes(b.height), Hash(b))
      /\ Will(A, "Txns", Hash(b), b)
  BY StoreBlockAdds
<1>2. AddList(B, b) /\ (\A c : NoClear(B, c)) /\ Will(B, "UTXOSet", Hash(b), b)
  BY UpdateAdds
<1> HIDE DEF A, B
<1>3. IsSeq(A) /\ IsSeq(B)
  BY <1>1, <1>2 DEF AddList
<1>4. AddList(L, b)
  BY <1>1, <1>2, AddListConcat
<1>5. /\ Will(L, "Blocks", Lastest, b) /\ Will(L, "Blocks", Hash(b), b)
      /\ Will(L, "Blocks", HeightToBytes(b.height), Hash(b))
      /\ Will(L, "Txns", Hash(b), b) /\ Will(L, "UTXOSet", Hash(b), b)
  BY <1>1, <1>2, <1>3, WillLeft, WillRight
<1> HIDE DEF L
<1>6. Carries(L, f, b)
  BY <1>4, <1>5 DEF Carries, Due, Need
<1> QED BY <1>6 DEF L, A, B

LEMMA AddGenesisCarries ==
    ASSUME NEW n, NEW b \in BlockSet(n), b.height = 0, NEW f
    PROVE  Carries(<<Empty("Blocks")>> \o StoreBlock(b) \o <<Empty("UTXOSet")>> \o Update(b)
                     \o <<Empty("Txns"), Write("Txns", Hash(b), b)>>, f, b)
<1> DEFINE E == <<Empty("Blocks")>>
           A == StoreBlock(b)
           U == <<Empty("UTXOSet")>>
           B == Update(b)
           t == Empty("Txns")
           w == Write("Txns", Hash(b), b)
           T == <<t>> \o <<w>>
           EA == E \o A
           EAU == EA \o U
           EAUB == EAU \o B
           L == EAUB \o T
<1>1. \A bucket : AddItem(Empty(bucket), b) /\ \A c : c # bucket => ~Clears(Empty(bucket), c)
  BY DEF AddItem, Empty, Clears
<1>2. /\ AddList(E, b) /\ AddList(U, b) /\ AddList(<<t>>, b)
      /\ NoClear(E, "UTXOSet") /\ NoClear(E, "Txns") /\ NoClear(U, "Blocks") /\ NoClear(U, "Txns")
      /\ NoClear(<<t>>, "Blocks") /\ NoClear(<<t>>, "UTXOSet")
  BY <1>1, AddListTwo, NoClearTwo
<1>3. AddList(<<w>>, b) /\ (\A c : NoClear(<<w>>, c)) /\ Will(<<w>>, "Txns", Hash(b), b)
  <2>1. Need("Txns", Hash(b), b, b)
    BY DEF Need
  <2>2. AddItem(w, b) /\ \A c : ~Clears(w, c)
    BY <2>1, WriteAdds
  <2>3. Will(<<w>>, "Txns", Hash(b), b)
    BY WillOne
  <2> HIDE DEF w
  <2> QED BY <2>2, <2>3, AddListTwo, NoClearTwo
<1>4. <<t, w>> = T
  BY TwoIs
<1>5. /\ AddList(A, b) /\ \A c : NoClear(A, c)
      /\ Will(A, "Blocks", Lastest, b) /\ Will(A, "Blocks", Hash(b), b)
      /\ Will(A, "Blocks", HeightToBytes(b.height), Hash(b))
  BY StoreBlockAdds
<1>6. AddList(B, b) /\ (\A c : NoClear(B, c)) /\ Will(B, "UTXOSet", Hash(b), b)
  BY UpdateAdds
<1> HIDE DEF E, A, U, B, t, w
<1>7. \A M : AddList(M, b) => IsSeq(M)
  BY DEF AddList
<1>8. /\ AddList(T, b) /\ NoClear(T, "Blocks") /\ NoClear(T, "UTXOSet")
      /\ Will(T, "Txns", Hash(b), b)
  BY <1>2, <1>3, <1>7, AddListConcat, NoClearConcat, WillRight
<1> HIDE DEF T
<1>9. /\ AddList(EA, b) /\ Will(EA, "Blocks", Lastest, b) /\ Will(EA, "Blocks", Hash(b), b)
      /\ Will(EA, "Blocks", HeightToBytes(b.height), Hash(b))
  BY <1>2, <1>5, <1>7, AddListConcat, WillRight
<1> HIDE DEF EA
<1>10. /\ AddList(EAU, b) /\ Will(EAU, "Blocks", Lastest, b) /\ Will(EAU, "Blocks", Hash(b), b)
       /\ Will(EAU, "Blocks", HeightToBytes(b.height), Hash(b))
  BY <1>2, <1>7, <1>9, AddListConcat, WillLeft
<1> HIDE DEF EAU
<1>11. /\ AddList(EAUB, b) /\ Will(EAUB, "Blocks", Lastest, b) /\ Will(EAUB, "Blocks", Hash(b), b)
       /\ Will(EAUB, "Blocks", HeightToBytes(b.height), Hash(b))
       /\ Will(EAUB, "UTXOSet", Hash(b), b)
  BY <1>6, <1>7, <1>10, AddListConcat, WillLeft, WillRight
<1> HIDE DEF EAUB
<1>12. /\ AddList(L, b) /\ Will(L, "Blocks", Lastest, b) /\ Will(L, "Blocks", Hash(b), b)
       /\ Will(L, "Blocks", HeightToBytes(b.height), Hash(b))
       /\ Will(L, "UTXOSet", Hash(b), b) /\ Will(L, "Txns", Hash(b), b)
  BY <1>7, <1>8, <1>11, AddListConcat, WillLeft, WillRight
<1> HIDE DEF L
<1>13. Carries(L, f, b)
  BY <1>12 DEF Carries, Due, Need
<1>14. L = (((E \o A) \o U) \o B) \o <<t, w>>
  BY <1>4 DEF L, EAUB, EAU, EA
<1> QED BY <1>13, <1>14, Zenon DEF E, A, U, B, t, w

-----------------------------------------------------------------------------
(* What the chain's list may be about *)

\* The writes of b are under way; below it the chain stands.
Adds(L, f, T, b) ==
    /\ b.fork \in Nat /\ Carries(L, f, b)
    /\ LastestHeight(f) \in {b.height - 1, b.height}
    /\ LastestHeight(f) = b.height - 1 => TopIs(f, T)
    /\ Stands(f, b.height - 1, T)
    /\ b.height > 0 /\ b.height - 1 \notin T => b.prev = GetBlockByHeight(f, b.height - 1).fork

\* Only what is above height n is deleted.
RevertItem(s, n) ==
    \/ s.do \in {"cache", "exit"}
    \/ s.do = "revert" /\ s.to >= n /\ s.from > s.to
    \/ s.do = "delete" /\ s.bucket = "Blockheads"
    \/ s.do = "delete" /\ s.bucket \in {"Blocks", "Txns"} /\ s.key \in HashSet /\ s.key[1] > n
    \/ s.do = "delete" /\ s.bucket = "Blocks" /\ \E h \in Nat : h > n /\ s.key = HeightToBytes(h)
RevertList(L, n) == IsSeq(L) /\ \A i \in DOMAIN L : RevertItem(L[i], n)

\* The chain still reaches to where lastest was, and origin is the hash it had there.
SyncOf(s, f, T) ==
    /\ s.do = "fetch" /\ s.from \in Nat /\ s.to \in 0..s.from
    /\ GetBlockByHeight(f, s.to) # Absent /\ Stands(f, s.from, T)
    /\ s.origin \in HashSet /\ s.origin[1] = s.from
    /\ s.from \notin T /\ GetBlockByHash(f, s.origin) # Absent
          => HeightHash(f, s.from) = s.origin

\* lastest goes to the common block or is there.
Syncs(L, f, T) ==
    \E s, e :
        LET c == GetBlockByHeight(f, s.to)
        IN  /\ SyncOf(s, f, T) /\ e.do = "cache"
            /\ \/ L = <<Write("Blocks", Lastest, c), e, s>>
               \/ (L = <<e, s>> \/ L = <<s>>) /\ GetLastest(f) = c

\* lastest goes back to v.
Falls(L, f, T, n) ==
    \E v \in BlockSet(n) : \E e :
        /\ L = <<Write("Blocks", Lastest, v), e>> /\ e.do \in {"cache", "exit"}
        /\ Stands(f, v.height, T)
        /\ v # NullBlock /\ v.height \notin T => GetBlockByHeight(f, v.height) = v

ChainInv(L, f, T, a, n) ==
    /\ Keyed(f)
    /\ a # Absent => L # <<>> /\ Adds(L, f, T, a)
    /\ a = Absent => Rests(f, T) /\ (RevertList(L, LastestHeight(f)) \/ Syncs(L, f, T) \/ Falls(L, f, T, n))

DiskInv == ChainInv(todo["chain"], file, torn, adding, top)

\* The chain on the disk, in these words.
LEMMA DiskShows == IInv /\ DiskInv => ChainOnDisk /\ IndexesFollow
<1> SUFFICES ASSUME IInv, DiskInv, NEW h \in Whole
             PROVE  LET b == GetBlockByHeight(file, h)
                        hash == Get(file, "Blocks", HeightToBytes(h))
                    IN  /\ b # Absent
                        /\ b.height = h
                        /\ h - 1 \in Whole => b.prev = GetBlockByHeight(file, h - 1).fork
                        /\ h = LastestHeight(file) /\ GetLastest(file) # NullBlock
                               => b = GetLastest(file)
                        /\ Get(file, "Txns", hash) # Absent
                        /\ Get(file, "UTXOSet", hash) # Absent
  BY DEF ChainOnDisk, IndexesFollow
<1> DEFINE l == LastestHeight(file)
<1>1. l \in Int /\ top \in Int
  BY ReadLastest DEF IInv, Counts
<1>2. /\ Whole = {i \in 0..l : i \notin torn /\ (adding = Absent \/ i # adding.height)}
      /\ adding # Absent => adding.height \in Int
  BY DEF Whole, IInv, Unfinished, BlockSet
<1>3. \E n \in Int : /\ Stands(file, n, torn) /\ Whole \subseteq 0..n
                     /\ h = l => TopIs(file, torn)
  <2>1. CASE adding = Absent
    <3>1. Stands(file, l, torn) /\ TopIs(file, torn)
      BY <2>1 DEF DiskInv, ChainInv, Rests
    <3> QED BY <1>1, <1>2, <3>1
  <2>2. CASE adding # Absent
    <3> DEFINE m == adding.height
    <3>1. /\ Stands(file, m - 1, torn) /\ l \in {m - 1, m} /\ (l = m - 1 => TopIs(file, torn))
      BY <2>2 DEF DiskInv, ChainInv, Adds
    <3>2. m \in Int /\ m - 1 \in Int
      BY <1>2, <2>2
    <3>3. h # m /\ \A i \in Whole : i \in 0..l /\ i # m
      BY <1>2, <2>2
    <3> HIDE DEF m, l
    <3>4. Whole \subseteq 0..m - 1
      BY <3>1, <3>2, <3>3
    <3>5. h = l => TopIs(file, torn)
      BY <3>1, <3>3
    <3> QED BY <3>1, <3>2, <3>4, <3>5
  <2> QED BY <2>1, <2>2
<1>4. PICK n \in Int : /\ Stands(file, n, torn) /\ Whole \subseteq 0..n
                       /\ h = l => TopIs(file, torn)
  BY <1>3
<1>5. h \in Nat /\ h \notin torn /\ \A i \in Whole : i \notin torn
  BY <1>1, <1>2
<1>6. Complete(file, h) /\ (h - 1 \in Whole => Linked(file, h))
  BY <1>4, <1>5 DEF Stands
<1>7. GetBlockByHeight(file, h) # Absent /\ GetBlockByHeight(file, h).height = h
  BY <1>5, <1>6, BlockAtHeight DEF Complete, IInv, DiskInv, ChainInv
<1>8. l = h => GetLastest(file) # Absent
  BY <1>5 DEF LastestHeight
<1>9. h = l /\ GetLastest(file) # NullBlock => GetBlockByHeight(file, h) = GetLastest(file)
  BY <1>4, <1>5, <1>8 DEF TopIs
<1> QED BY <1>6, <1>7, <1>9 DEF Complete, Linked, HeightHash

\* A step outside the chain.
LEMMA DiskOutside ==
    ASSUME DiskInv, Outside(file, file'), todo'["chain"] = todo["chain"],
           UNCHANGED <<torn, adding, top>>
    PROVE  DiskInv'
<1> DEFINE L == todo["chain"]
           f == file
           g == file'
<1>1. /\ GetLastest(g) = GetLastest(f) /\ LastestHeight(g) = LastestHeight(f)
      /\ \A h : HeightHash(g, h) = HeightHash(f, h)
      /\ \A k : GetBlockByHash(g, k) = GetBlockByHash(f, k)
      /\ \A h : GetBlockByHeight(g, h) = GetBlockByHeight(f, h)
      /\ \A m, T : Stands(g, m, T) <=> Stands(f, m, T)
      /\ \A T : TopIs(g, T) <=> TopIs(f, T)
      /\ Keyed(g) <=> Keyed(f)
  BY OutsideSame
<1> HIDE DEF L, f, g
<1>2. ASSUME NEW b, Carries(L, f, b) PROVE Carries(L, g, b)
  <2>1. \A bucket, key, value : Need(bucket, key, value, b) => Get(g, bucket, key) = Get(f, bucket, key)
    BY DEF Need, Outside, f, g
  <2> QED BY <1>2, <2>1 DEF Carries, Due
<1>3. \A b : Adds(L, f, torn, b) => Adds(L, g, torn, b)
  BY <1>1, <1>2 DEF Adds
<1>4. Rests(f, torn) => Rests(g, torn)
  BY <1>1 DEF Rests
<1>5. Syncs(L, f, torn) => Syncs(L, g, torn)
  BY <1>1 DEF Syncs, SyncOf
<1>6. Falls(L, f, torn, top) => Falls(L, g, torn, top)
  BY <1>1 DEF Falls
<1>7. ChainInv(L, f, torn, adding, top)
  BY DEF DiskInv, L, f
<1>8. ChainInv(L, g, torn, adding, top)
  BY <1>1, <1>3, <1>4, <1>5, <1>6, <1>7 DEF ChainInv
<1> QED BY <1>8 DEF DiskInv, L, g

\* The writes of a block are complete.
LEMMA AddsDone ==
    ASSUME NEW f, NEW n, FileOK(f, n), NEW T, NEW b \in BlockSet(n), Adds(<<>>, f, T, b)
    PROVE  Rests(f, T \ {b.height})
<1> DEFINE m == b.height
           S == T \ {m}
<1>1. m \in Nat /\ b # Absent
  BY ConstFacts DEF BlockSet
<1>2. \A bucket, key, value : Need(bucket, key, value, b) => Get(f, bucket, key) = value
  BY DEF Adds, Carries, Due, Will
<1>3. /\ Get(f, "Blocks", Lastest) = b /\ Get(f, "Blocks", Hash(b)) = b
      /\ Get(f, "Blocks", HeightToBytes(b.height)) = Hash(b)
      /\ Get(f, "Txns", Hash(b)) = b /\ Get(f, "UTXOSet", Hash(b)) = b
  BY <1>2 DEF Need
<1>4. GetLastest(f) = b /\ LastestHeight(f) = m
  BY <1>1, <1>3 DEF GetLastest, LastestHeight
<1>5. GetBlockByHeight(f, m) = b /\ Complete(f, m)
  BY <1>1, <1>3 DEF Complete, HeightHash, GetBlockByHeight, GetBlockByHash
<1>6. TopIs(f, S)
  BY <1>4, <1>5 DEF TopIs
<1>7. Stands(f, m - 1, T) /\ (m > 0 /\ m - 1 \notin T => b.prev = GetBlockByHeight(f, m - 1).fork)
  BY DEF Adds
<1> HIDE DEF m
<1>8. ASSUME NEW h \in 0..m, h \notin S
      PROVE  Complete(f, h) /\ (h - 1 \in 0..m /\ h - 1 \notin S => Linked(f, h))
  <2>1. CASE h = m
    <3>1. ASSUME h - 1 \in 0..m, h - 1 \notin S PROVE Linked(f, h)
      <4>1. m > 0 /\ m - 1 \notin T
        BY <1>1, <2>1, <3>1
      <4> QED BY <1>5, <1>7, <2>1, <4>1 DEF Linked
    <3> QED BY <1>5, <2>1, <3>1
  <2>2. CASE h # m
    <3>1. h \in 0..m - 1 /\ h \notin T /\ (h - 1 \in 0..m => h - 1 \in 0..m - 1)
      BY <1>1, <1>8, <2>2
    <3>2. h - 1 \in 0..m /\ h - 1 \notin S => h - 1 \notin T
      BY <1>1, <3>1
    <3> QED BY <1>7, <3>1, <3>2 DEF Stands
  <2> QED BY <2>1, <2>2
<1>9. Stands(f, m, S)
  BY <1>8 DEF Stands
<1> QED BY <1>4, <1>6, <1>9 DEF Rests, m

\* A step on the way through the writes of a block.
LEMMA AddsGoOn ==
    ASSUME IInv, IInv', DiskInv, adding # Absent, NEW M, GoOn("chain", M), top' = top,
           Keyed(file'), Adds(M, file', torn, adding)
    PROVE  DiskInv'
<1>1. todo'["chain"] = M
  BY GoOnTodo DEF Activity
<1>2. CASE M = <<>>
  <2>1. adding' = Absent /\ torn' = torn \ {adding.height}
    BY <1>2 DEF GoOn
  <2>2. adding \in BlockSet(top) /\ FileOK(file', top)
    BY DEF IInv, Unfinished
  <2>3. Rests(file', torn')
    BY <1>2, <2>1, <2>2, AddsDone
  <2>4. RevertList(<<>>, LastestHeight(file'))
    BY EmptyLists DEF RevertList
  <2> QED BY <1>1, <1>2, <2>1, <2>3, <2>4 DEF DiskInv, ChainInv
<1>3. CASE M # <<>>
  <2>1. adding' = adding /\ torn' = torn
    BY <1>3 DEF GoOn
  <2> QED BY <1>1, <1>3, <2>1 DEF DiskInv, ChainInv
<1> QED BY <1>2, <1>3

\* And a step while no block is written.
LEMMA RestsGoOn ==
    ASSUME IInv, DiskInv, adding = Absent, NEW M, GoOn("chain", M), top' = top,
           Keyed(file'), Rests(file', torn),
           RevertList(M, LastestHeight(file')) \/ Syncs(M, file', torn) \/ Falls(M, file', torn, top)
    PROVE  DiskInv'
<1>1. todo'["chain"] = M
  BY GoOnTodo DEF Activity
<1>2. adding' = adding /\ torn' = torn
  BY DEF GoOn
<1> QED BY <1>1, <1>2 DEF DiskInv, ChainInv

LEMMA AddingFacts ==
    ASSUME IInv, DiskInv, adding # Absent
    PROVE  /\ adding \in BlockSet(top) /\ adding.height \in Nat /\ adding.height \in 0..top
           /\ adding.fork \in Nat
           /\ Keyed(file) /\ FileOK(file, top) /\ todo["chain"] # <<>> /\ IsSeq(todo["chain"])
           /\ Adds(todo["chain"], file, torn, adding)
           /\ AddItem(Head(todo["chain"]), adding)
           /\ AddList(Tail(todo["chain"]), adding)
<1> DEFINE L == todo["chain"]
<1>1. /\ adding \in BlockSet(top) /\ adding.height \in Nat /\ adding.height \in 0..top
      /\ FileOK(file, top)
  BY DEF IInv, Unfinished, BlockSet
<1>2. Keyed(file) /\ L # <<>> /\ Adds(L, file, torn, adding)
  BY DEF DiskInv, ChainInv
<1> HIDE DEF L
<1>3. AddList(L, adding) /\ adding.fork \in Nat
  BY <1>2 DEF Adds, Carries
<1>4. /\ IsSeq(L) /\ Head(L) = L[1] /\ 1 \in DOMAIN L /\ IsSeq(Tail(L))
      /\ \A i \in DOMAIN Tail(L) : i + 1 \in DOMAIN L /\ Tail(L)[i] = L[i + 1]
  BY <1>2, <1>3, SeqFacts DEF AddList
<1>5. AddItem(Head(L), adding) /\ AddList(Tail(L), adding)
  BY <1>3, <1>4 DEF AddList
<1> QED BY <1>1, <1>2, <1>3, <1>4, <1>5 DEF L

LEMMA AddsTail ==
    ASSUME IInv, IInv', DiskInv, adding # Absent, GoOn("chain", Tail(todo["chain"])), top' = top,
           Keyed(file'),
           \A bucket, key, value : Need(bucket, key, value, adding) =>
              /\ Head(todo["chain"]) = Write(bucket, key, value) => Get(file', bucket, key) = value
              /\ Head(todo["chain"]) # Write(bucket, key, value) /\ ~Clears(Head(todo["chain"]), bucket)
                    => \/ Get(file', bucket, key) = value
                       \/ Get(file', bucket, key) = Get(file, bucket, key),
           LastestHeight(file') \in {adding.height - 1, adding.height},
           LastestHeight(file') = adding.height - 1 => TopIs(file', torn),
           Stands(file', adding.height - 1, torn),
           adding.height > 0 /\ adding.height - 1 \notin torn =>
              GetBlockByHeight(file', adding.height - 1) = GetBlockByHeight(file, adding.height - 1)
    PROVE  DiskInv'
<1> DEFINE L == todo["chain"]
           M == Tail(L)
           g == file'
<1>1. L # <<>> /\ IsSeq(L) /\ Adds(L, file, torn, adding) /\ AddList(M, adding)
  BY AddingFacts
<1>2. ASSUME NEW bucket, NEW key, NEW value, Need(bucket, key, value, adding)
      PROVE  Due(M, g, bucket, key, value)
  <2>1. Due(L, file, bucket, key, value)
    BY <1>1, <1>2 DEF Adds, Carries
  <2>2. /\ Head(L) = Write(bucket, key, value) => Get(g, bucket, key) = value
        /\ Head(L) # Write(bucket, key, value) /\ ~Clears(Head(L), bucket)
              => Get(g, bucket, key) = value \/ Get(g, bucket, key) = Get(file, bucket, key)
    BY <1>2
  <2> HIDE DEF L, g
  <2> QED BY <1>1, <2>1, <2>2, DueTail
<1>3. Carries(M, g, adding)
  <2> HIDE DEF M, g
  <2> QED BY <1>1, <1>2 DEF Carries
<1>4. Adds(M, g, torn, adding)
  <2> HIDE DEF M
  <2> QED BY <1>1, <1>3 DEF Adds
<1> HIDE DEF M
<1> QED BY <1>4, AddsGoOn DEF M, L

\* A step that does not write.
LEMMA AddsSilent ==
    ASSUME IInv, IInv', DiskInv, adding # Absent, GoOn("chain", Tail(todo["chain"])), top' = top,
           file' = file, Head(todo["chain"]).do \notin {"set", "clear"}
    PROVE  DiskInv'
<1>1. Adds(todo["chain"], file, torn, adding) /\ Keyed(file)
  BY AddingFacts
<1>2. \A bucket, key, value : Head(todo["chain"]) # Write(bucket, key, value)
  BY DEF Write
<1>3. Keyed(file')
  BY <1>1
<1>4. LastestHeight(file') = LastestHeight(file) /\ (TopIs(file', torn) <=> TopIs(file, torn))
      /\ (Stands(file', adding.height - 1, torn) <=> Stands(file, adding.height - 1, torn))
  OBVIOUS
<1> QED BY <1>1, <1>2, <1>3, <1>4, AddsTail DEF Adds

LEMMA HeightNoHash ==
    \A h \in Nat : HeightToBytes(h) # Lastest /\ HeightToBytes(h) \notin HashSet
<1> TAKE h \in Nat
<1>1. HeightToBytes(h) \in Seq(Int) /\ Len(HeightToBytes(h)) <= Width
  BY HeightKey
<1> DEFINE l == Len(HeightToBytes(h))
<1>2. Width \in Int /\ l \in Int /\ l <= Width
  BY <1>1, ConstFacts, LenProperties
<1> HIDE DEF l
<1>3. ~(l > Width)
  BY <1>2
<1>4. HeightToBytes(h) # Lastest
  BY KeysDiffer
<1>5. \A k \in HashSet : Len(k) > Width
  BY KeysDiffer
<1> QED BY <1>3, <1>4, <1>5, Zenon DEF l

\* What is stored of a block has its key.
LEMMA SetKeyed ==
    ASSUME NEW f, Keyed(f), NEW n, NEW b \in BlockSet(n), b.fork \in Nat,
           NEW bucket, NEW key, NEW value, Need(bucket, key, value, b), key # <<>>, NEW g,
           \A c, k : Get(g, c, k) = IF c = bucket /\ k = key THEN value ELSE Get(f, c, k)
    PROVE  Keyed(g)
<1>1. b.height \in Nat
  BY DEF BlockSet
<1>2. Hash(b) \in HashSet /\ Hash(b)[1] = b.height /\ Lastest \notin HashSet
  BY HashParts, KeysDiffer
<1>3. \A h \in Nat : HeightToBytes(h) # Lastest /\ HeightToBytes(h) \notin HashSet
  BY HeightNoHash
<1>4. ASSUME NEW k \in HashSet, GetBlockByHash(g, k) # Absent
      PROVE  Hash(GetBlockByHash(g, k)) = k /\ GetBlockByHash(g, k).fork \in Nat
  <2>1. CASE bucket = "Blocks" /\ k = key
    <3>1. GetBlockByHash(g, k) = value
      BY <2>1 DEF GetBlockByHash
    <3>2. value = b /\ key = Hash(b)
      BY <1>1, <1>2, <1>3, <2>1 DEF Need
    <3> QED BY <2>1, <3>1, <3>2
  <2>2. CASE ~(bucket = "Blocks" /\ k = key)
    <3>1. GetBlockByHash(g, k) = GetBlockByHash(f, k)
      BY <2>2 DEF GetBlockByHash
    <3> QED BY <1>4, <3>1 DEF Keyed
  <2> QED BY <2>1, <2>2
<1>5. ASSUME NEW h \in Nat, HeightHash(g, h) # Absent PROVE HeightHash(g, h)[1] = h
  <2>1. CASE bucket = "Blocks" /\ HeightToBytes(h) = key
    <3>1. HeightHash(g, h) = value
      BY <2>1 DEF HeightHash
    <3>2. value = Hash(b) /\ key = HeightToBytes(b.height)
      BY <1>1, <1>2, <1>3, <2>1 DEF Need
    <3>3. h = b.height
      BY <1>1, <2>1, <3>2, HeightsDiffer
    <3> QED BY <1>2, <3>1, <3>2, <3>3
  <2>2. CASE ~(bucket = "Blocks" /\ HeightToBytes(h) = key)
    <3>1. HeightHash(g, h) = HeightHash(f, h)
      BY <2>2 DEF HeightHash
    <3> QED BY <1>5, <3>1 DEF Keyed
  <2> QED BY <2>1, <2>2
<1> QED BY <1>4, <1>5 DEF Keyed

\* The keys of a block have nothing to do with other heights.
LEMMA NeedApart ==
    ASSUME NEW n, NEW b \in BlockSet(n), NEW bucket, NEW key, NEW value,
           Need(bucket, key, value, b), key # <<>>, NEW h \in Nat, h # b.height
    PROVE  Apart(bucket, key, h)
<1>1. b.height \in Nat
  BY DEF BlockSet
<1>2. Hash(b) \in HashSet /\ Hash(b)[1] = b.height /\ Lastest \notin HashSet
  BY HashParts, KeysDiffer
<1>3. \A i \in Nat : HeightToBytes(i) # Lastest /\ HeightToBytes(i) \notin HashSet
  BY HeightNoHash
<1>4. HeightToBytes(b.height) # <<>> => HeightToBytes(h) # HeightToBytes(b.height)
  BY <1>1, HeightsDiffer
<1>5. bucket = "Blocks" => key # HeightToBytes(h)
  BY <1>1, <1>2, <1>3, <1>4 DEF Need
<1>6. key \in HashSet => key[1] # h
  BY <1>1, <1>2, <1>3 DEF Need
<1> QED BY <1>5, <1>6 DEF Apart

\* A write for the block that is added.
LEMMA AddsWrite ==
    ASSUME IInv, IInv', DiskInv, adding # Absent, DoSet("chain")
    PROVE  DiskInv'
<1> DEFINE L == todo["chain"]
           s == Head(L)
           b == adding
           m == b.height - 1
           f == file
           g == file'
<1>1. /\ top' = top /\ s.do = "set" /\ s.key # <<>>
      /\ g = Set(f, s.bucket, s.key, s.value) /\ GoOn("chain", Tail(L))
  BY DEF DoSet, Has, CanSet, memory
<1>2. \A c, k : Get(g, c, k) = IF c = s.bucket /\ k = s.key THEN s.value ELSE Get(f, c, k)
  BY <1>1, GetSet
<1>3. /\ b \in BlockSet(top) /\ b.height \in Nat /\ b.fork \in Nat /\ Keyed(f) /\ FileOK(f, top)
      /\ Adds(L, f, torn, b) /\ AddItem(s, b) /\ L # <<>>
  BY AddingFacts
<1>4. m \in Int /\ m < b.height /\ top \in Int /\ top >= -1
  BY <1>3 DEF IInv, Counts
<1>5. s.bucket = "Blockheads" \/ Need(s.bucket, s.key, s.value, b)
  BY <1>1, <1>3 DEF AddItem
<1>6. \A bucket, key, value : Need(bucket, key, value, b) =>
         /\ bucket # "Blockheads"
         /\ s = Write(bucket, key, value) => bucket = s.bucket /\ key = s.key /\ value = s.value
  BY DEF Need, Write
<1>7. CASE s.bucket = "Blockheads"
  <2>1. Outside(f, g)
    BY <1>2, <1>7 DEF Outside
  <2>2. /\ LastestHeight(g) = LastestHeight(f) /\ (TopIs(g, torn) <=> TopIs(f, torn))
        /\ (Stands(g, m, torn) <=> Stands(f, m, torn)) /\ (Keyed(g) <=> Keyed(f))
        /\ GetBlockByHeight(g, m) = GetBlockByHeight(f, m)
    BY <2>1, OutsideSame
  <2>3. \A bucket, key, value : Need(bucket, key, value, b) =>
           /\ s # Write(bucket, key, value) /\ Get(g, bucket, key) = Get(f, bucket, key)
    BY <1>6, <1>7, <2>1 DEF Outside
  <2>4. LastestHeight(f) \in {m, b.height} /\ (LastestHeight(f) = m => TopIs(f, torn))
        /\ Stands(f, m, torn)
    BY <1>3 DEF Adds
  <2> HIDE DEF s, g
  <2> QED BY <1>1, <1>3, <2>2, <2>3, <2>4, AddsTail DEF g, s, L
<1>8. CASE Need(s.bucket, s.key, s.value, b)
  <2>1. Keyed(g)
    BY <1>1, <1>2, <1>3, <1>8, SetKeyed
  <2>2. \A bucket, key, value : Need(bucket, key, value, b) =>
           /\ s = Write(bucket, key, value) => Get(g, bucket, key) = value
           /\ Get(g, bucket, key) = value \/ Get(g, bucket, key) = Get(f, bucket, key)
    <3> SUFFICES ASSUME NEW bucket, NEW key, NEW value, Need(bucket, key, value, b)
                 PROVE  /\ s = Write(bucket, key, value) => Get(g, bucket, key) = value
                        /\ Get(g, bucket, key) = value \/ Get(g, bucket, key) = Get(f, bucket, key)
      OBVIOUS
    <3>1. bucket = s.bucket /\ key = s.key => value = s.value
      BY <1>3, <1>8, NeedOne
    <3>2. Get(g, bucket, key) = IF bucket = s.bucket /\ key = s.key THEN s.value ELSE Get(f, bucket, key)
      BY <1>2
    <3> HIDE DEF g, s
    <3> QED BY <1>6, <3>1, <3>2
  <2>3. \A h \in 0..m : Complete(f, h) => SameAt(f, g, h)
    <3> SUFFICES ASSUME NEW h \in 0..m, Complete(f, h) PROVE SameAt(f, g, h)
      OBVIOUS
    <3>1. h \in Nat /\ h # b.height
      BY <1>4
    <3>2. Apart(s.bucket, s.key, h)
      BY <1>1, <1>3, <1>8, <3>1, NeedApart
    <3>3. \A c, k : ~(c = s.bucket /\ k = s.key) => Get(g, c, k) = Get(f, c, k)
      BY <1>2
    <3> HIDE DEF g, s, f
    <3> QED BY <1>3, <3>1, <3>2, <3>3, ApartSame
  <2>4. LastestHeight(f) \in {m, b.height} /\ (LastestHeight(f) = m => TopIs(f, torn))
        /\ Stands(f, m, torn)
    BY <1>3 DEF Adds
  <2>5. /\ Stands(g, m, torn)
        /\ \A h \in 0..m : h \notin torn => GetBlockByHeight(g, h) = GetBlockByHeight(f, h)
    <3> HIDE DEF g, f, m
    <3> QED BY <1>4, <2>3, <2>4, StandsKept
  <2>6. b.height > 0 /\ m \notin torn => GetBlockByHeight(g, m) = GetBlockByHeight(f, m)
    <3>1. b.height > 0 => m \in 0..m
      BY <1>3
    <3> QED BY <2>5, <3>1
  <2>7. CASE s.bucket = "Blocks" /\ s.key = Lastest
    <3>1. s.value = b
      BY <1>3, <1>8, <2>7, NeedOne DEF Need
    <3>2. LastestHeight(g) = b.height
      <4>1. GetLastest(g) = b /\ b # Absent
        BY <1>2, <1>3, <2>7, <3>1, ConstFacts DEF GetLastest
      <4> QED BY <4>1 DEF LastestHeight
    <3>3. LastestHeight(g) # m
      BY <1>3, <1>4, <3>2
    <3> HIDE DEF s, g
    <3> QED BY <1>1, <2>1, <2>2, <2>5, <2>6, <3>2, <3>3, AddsTail DEF g, s, L
  <2>8. CASE ~(s.bucket = "Blocks" /\ s.key = Lastest)
    <3>1. GetLastest(g) = GetLastest(f) /\ LastestHeight(g) = LastestHeight(f)
      BY <1>2, <2>8 DEF GetLastest, LastestHeight
    <3>2. ASSUME LastestHeight(g) = m PROVE TopIs(g, torn)
      <4>1. LastestHeight(f) = m /\ TopIs(f, torn) /\ Stands(f, LastestHeight(f), torn)
        BY <2>4, <3>1, <3>2
      <4> HIDE DEF g, f, m
      <4>2. \A h \in 0..LastestHeight(f) : h \notin torn => GetBlockByHeight(g, h) = GetBlockByHeight(f, h)
        BY <2>5, <4>1
      <4> QED BY <1>3, <1>4, <3>1, <4>1, <4>2, TopKept
    <3> HIDE DEF s, g
    <3> QED BY <1>1, <2>1, <2>2, <2>4, <2>5, <2>6, <3>1, <3>2, AddsTail DEF g, s, L
  <2> QED BY <2>7, <2>8
<1> QED BY <1>5, <1>7, <1>8

LEMMA DoClearDisk ==
    ASSUME IInv, IInv', DiskInv, adding # Absent, DoClear("chain")
    PROVE  DiskInv'
<1> DEFINE L == todo["chain"]
           s == Head(L)
           b == adding
           f == file
           g == file'
<1>1. /\ top' = top /\ s.do = "clear" /\ g = Clear(f, s.bucket) /\ GoOn("chain", Tail(L))
  BY DEF DoClear, Has, memory
<1>2. \A c, k : Get(g, c, k) = IF c = s.bucket THEN Absent ELSE Get(f, c, k)
  BY <1>1, GetClear
<1>3. /\ b \in BlockSet(top) /\ Keyed(f) /\ Adds(L, f, torn, b) /\ AddItem(s, b)
  BY AddingFacts
<1>4. b.height = 0
  BY <1>1, <1>3 DEF AddItem
<1>5. Keyed(g)
  <2>1. \A c, k : Get(g, c, k) \in {Absent, Get(f, c, k)}
    BY <1>2
  <2> HIDE DEF f, g
  <2> QED BY <1>3, <2>1, KeyedLess
<1>6. Stands(g, b.height - 1, torn)
  BY <1>4 DEF Stands
<1>7. CASE s.bucket = "Blocks"
  <2>1. GetLastest(g) = Absent /\ LastestHeight(g) = -1
    BY <1>2, <1>7 DEF GetLastest, LastestHeight
  <2>2. TopIs(g, torn) /\ LastestHeight(g) \in {b.height - 1, b.height}
    BY <1>4, <2>1 DEF TopIs
  <2>3. \A bucket, key, value : s # Write(bucket, key, value)
    BY <1>1 DEF Write
  <2>4. \A bucket, key : ~Clears(s, bucket) => Get(g, bucket, key) = Get(f, bucket, key)
    BY <1>1, <1>2 DEF Clears
  <2> HIDE DEF s, g
  <2> QED BY <1>1, <1>4, <1>5, <1>6, <2>2, <2>3, <2>4, AddsTail DEF g, s, L
<1>8. CASE s.bucket # "Blocks"
  <2>1. \A k : Get(g, "Blocks", k) = Get(f, "Blocks", k)
    BY <1>2, <1>8
  <2>2. GetLastest(g) = GetLastest(f) /\ LastestHeight(g) = LastestHeight(f)
    BY <2>1 DEF GetLastest, LastestHeight
  <2>3. \A h : GetBlockByHeight(g, h) = GetBlockByHeight(f, h)
    BY <2>1 DEF GetBlockByHeight, GetBlockByHash
  <2>4. TopIs(g, torn) <=> TopIs(f, torn)
    BY <2>2, <2>3 DEF TopIs
  <2>5. LastestHeight(f) \in {b.height - 1, b.height} /\ (LastestHeight(f) = b.height - 1 => TopIs(f, torn))
    BY <1>3 DEF Adds
  <2>6. \A bucket, key, value : s # Write(bucket, key, value)
    BY <1>1 DEF Write
  <2>7. \A bucket, key : ~Clears(s, bucket) => Get(g, bucket, key) = Get(f, bucket, key)
    BY <1>1, <1>2 DEF Clears
  <2> HIDE DEF s, g
  <2> QED BY <1>1, <1>4, <1>5, <1>6, <2>2, <2>4, <2>5, <2>6, <2>7, AddsTail DEF g, s, L
<1> QED BY <1>7, <1>8

\* AddBlockhead begins, or is passed over.
LEMMA DoCheckDisk ==
    ASSUME IInv, IInv', DiskInv, adding # Absent, DoCheck("chain")
    PROVE  DiskInv'
<1> DEFINE L == todo["chain"]
           c == Head(L).value
           M == Tail(L)
           W == WriteHead(c)
<1>1. /\ top' = top /\ file' = file /\ Head(L).do = "check"
      /\ GoOn("chain", M) \/ GoOn("chain", W \o M)
  BY DEF DoCheck, Has
<1>2. CASE GoOn("chain", M)
  BY <1>1, <1>2, AddsSilent
<1>3. CASE GoOn("chain", W \o M)
  <2> DEFINE b == adding
  <2>1. /\ b \in BlockSet(top) /\ Keyed(file) /\ Adds(L, file, torn, b) /\ IsSeq(L) /\ L # <<>>
        /\ AddList(M, b)
    BY AddingFacts
  <2>2. AddList(W, b) /\ \A bucket : NoClear(W, bucket)
    <3> DEFINE x == [do |-> "headCache", value |-> c.height]
               y == Write("Blockheads", HeightToBytes(c.height), c)
               z == Write("Blockheads", Lastest, c)
    <3>1. AddItem(x, b) /\ AddItem(y, b) /\ AddItem(z, b)
          /\ \A bucket : ~Clears(x, bucket) /\ ~Clears(y, bucket) /\ ~Clears(z, bucket)
      BY DEF AddItem, Write, Clears
    <3>2. W = <<x, y, z>>
      BY DEF WriteHead
    <3> HIDE DEF x, y, z, W
    <3>3. IsSeq(W) /\ DOMAIN W = 1..3 /\ W[1] = x /\ W[2] = y /\ W[3] = z
      BY <3>2 DEF IsSeq
    <3> QED BY <3>1, <3>3 DEF AddList, NoClear
  <2>3. IsSeq(W) /\ IsSeq(M)
    BY <2>1, <2>2 DEF AddList
  <2>4. ASSUME NEW bucket, NEW key, NEW value, Need(bucket, key, value, b)
        PROVE  Due(W \o M, file, bucket, key, value)
    <3>1. Due(L, file, bucket, key, value)
      BY <2>1, <2>4 DEF Adds, Carries
    <3>2. Head(L) # Write(bucket, key, value)
      BY <1>1 DEF Write
    <3>3. Due(M, file, bucket, key, value)
      BY <2>1, <3>1, <3>2, DueTail
    <3> HIDE DEF W, M
    <3> QED BY <2>2, <2>3, <3>3, DueRight
  <2> HIDE DEF W, M
  <2>5. Carries(W \o M, file, b)
    BY <2>1, <2>2, <2>4, AddListConcat DEF Carries
  <2>6. Adds(W \o M, file', torn, b)
    BY <1>1, <2>1, <2>5 DEF Adds
  <2>7. Keyed(file')
    BY <1>1, <2>1
  <2> QED BY <1>1, <1>3, <2>6, <2>7, AddsGoOn
<1> QED BY <1>1, <1>2, <1>3

-----------------------------------------------------------------------------
(* Steps while no block is added *)

LEMMA RevertHead ==
    ASSUME NEW L, NEW n, RevertList(L, n), L # <<>>
    PROVE  RevertItem(Head(L), n) /\ RevertList(Tail(L), n)
BY SeqFacts DEF RevertList

LEMMA RevertConcat ==
    ASSUME NEW n, NEW L, NEW M, RevertList(L, n), RevertList(M, n)
    PROVE  RevertList(L \o M, n)
<1> DEFINE C == L \o M
<1>1. /\ IsSeq(C)
      /\ \A i \in DOMAIN L : i \in DOMAIN C /\ C[i] = L[i]
      /\ \A i \in DOMAIN C :
            i \in DOMAIN L \/ (i - Len(L) \in DOMAIN M /\ C[i] = M[i - Len(L)])
  BY ConcatFacts DEF RevertList
<1> HIDE DEF C
<1>2. ASSUME NEW i \in DOMAIN C PROVE RevertItem(C[i], n)
  BY <1>1, Zenon DEF RevertList
<1>3. RevertList(C, n)
  BY <1>1, <1>2, Zenon DEF RevertList
<1> QED BY <1>3 DEF C

LEMMA RevertEmpty == \A n : RevertList(<<>>, n)
BY DEF RevertList, IsSeq

LEMMA RevertOne ==
    ASSUME NEW n, NEW a, RevertItem(a, n)
    PROVE  RevertList(<<a>>, n)
BY Singleton DEF RevertList

LEMMA RevertFour ==
    ASSUME NEW n, NEW a, NEW b, NEW c, NEW d,
           RevertItem(a, n), RevertItem(b, n), RevertItem(c, n), RevertItem(d, n)
    PROVE  RevertList(<<a, b, c, d>>, n)
<1>1. /\ IsSeq(<<a, b, c, d>>) /\ DOMAIN <<a, b, c, d>> = 1..4
      /\ <<a, b, c, d>>[1] = a /\ <<a, b, c, d>>[2] = b
      /\ <<a, b, c, d>>[3] = c /\ <<a, b, c, d>>[4] = d
  BY DEF IsSeq
<1> QED BY <1>1 DEF RevertList

LEMMA DownToReverts ==
    ASSUME NEW n \in Int, NEW h \in Int, NEW r \in Int, r >= n
    PROVE  RevertList(DeleteDownTo(h, r), n)
<1> DEFINE a == [do |-> "revert", from |-> h, to |-> r]
<1>1. CASE h > r
  <2>1. RevertItem(a, n)
    BY <1>1 DEF RevertItem
  <2>2. DeleteDownTo(h, r) = <<a>>
    BY <1>1 DEF DeleteDownTo
  <2> HIDE DEF a
  <2> QED BY <2>1, <2>2, RevertOne
<1>2. CASE ~(h > r)
  BY <1>2, RevertEmpty DEF DeleteDownTo
<1> QED BY <1>1, <1>2

LEMMA DeleteReverts ==
    ASSUME NEW n \in Int, NEW m, NEW b \in BlockSet(m), b.height > n
    PROVE  RevertList(DeleteBlock(b), n)
<1> DEFINE w == Erase("Blocks", Hash(b))
           x == Erase("Blocks", HeightToBytes(b.height))
           y == Erase("Blockheads", HeightToBytes(b.height))
           z == Erase("Txns", Hash(b))
<1>1. Hash(b) \in HashSet /\ Hash(b)[1] > n /\ b.height \in Nat
  BY HashParts DEF BlockSet
<1>2. RevertItem(w, n) /\ RevertItem(z, n)
  BY <1>1 DEF RevertItem, Erase
<1>3. RevertItem(x, n) /\ RevertItem(y, n)
  BY <1>1 DEF RevertItem, Erase
<1>4. DeleteBlock(b) = <<w, x, y, z>>
  BY DEF DeleteBlock
<1> HIDE DEF w, x, y, z
<1> QED BY <1>2, <1>3, <1>4, RevertFour

\* What the first step can be.
LEMMA RestHead ==
    ASSUME IInv, DiskInv, adding = Absent, todo["chain"] # <<>>
    PROVE  LET L == todo["chain"]
               l == LastestHeight(file)
           IN  /\ Keyed(file) /\ Rests(file, torn) /\ FileOK(file, top)
               /\ \/ RevertItem(Head(L), l) /\ RevertList(Tail(L), l)
                  \/ Syncs(L, file, torn) /\ Head(L).do \in {"set", "cache", "fetch"}
                  \/ Falls(L, file, torn, top) /\ Head(L).do = "set"
<1> DEFINE L == todo["chain"]
           l == LastestHeight(file)
<1>1. Keyed(file) /\ Rests(file, torn) /\ FileOK(file, top)
      /\ (RevertList(L, l) \/ Syncs(L, file, torn) \/ Falls(L, file, torn, top))
  BY DEF DiskInv, ChainInv, IInv
<1> HIDE DEF L, l
<1>2. Syncs(L, file, torn) => Head(L).do \in {"set", "cache", "fetch"}
  BY DEF Syncs, SyncOf, Write
<1>3. Falls(L, file, torn, top) => Head(L).do = "set"
  BY DEF Falls, Write
<1>4. L # <<>>
  BY DEF L
<1> QED BY <1>1, <1>2, <1>3, <1>4, RevertHead DEF L, l

\* Steps that are there only when a block is added, and steps that are not there then.
LEMMA ClearAdds ==
    ASSUME IInv, DiskInv, todo["chain"] # <<>>,
           Head(todo["chain"]).do \in {"clear", "check", "headCache"}
    PROVE  adding # Absent
BY RestHead DEF RevertItem

LEMMA DeleteRests ==
    ASSUME IInv, DiskInv, todo["chain"] # <<>>,
           Head(todo["chain"]).do \in {"delete", "revert", "fetch", "exit"}
    PROVE  adding = Absent
BY AddingFacts DEF AddItem

\* A write of lastest: to the common block, or back.
LEMMA RestsWrite ==
    ASSUME IInv, DiskInv, adding = Absent, DoSet("chain")
    PROVE  DiskInv'
<1> DEFINE L == todo["chain"]
           w == Head(L)
           f == file
           g == file'
<1>1. /\ top' = top /\ L # <<>> /\ w.do = "set" /\ w.key # <<>>
      /\ g = Set(f, w.bucket, w.key, w.value) /\ GoOn("chain", Tail(L))
  BY DEF DoSet, Has, CanSet, memory
<1>2. \A c, k : Get(g, c, k) = IF c = w.bucket /\ k = w.key THEN w.value ELSE Get(f, c, k)
  BY <1>1, GetSet
<1>3. /\ Keyed(f) /\ FileOK(f, top)
      /\ Syncs(L, f, torn) \/ Falls(L, f, torn, top)
  BY <1>1, RestHead DEF RevertItem
<1>4. CASE Syncs(L, f, torn)
  <2>1. PICK s, e : /\ SyncOf(s, f, torn) /\ e.do = "cache"
                    /\ \/ L = <<Write("Blocks", Lastest, GetBlockByHeight(f, s.to)), e, s>>
                       \/ L = <<e, s>> \/ L = <<s>>
    BY <1>4 DEF Syncs
  <2> DEFINE v == GetBlockByHeight(f, s.to)
  <2>2. L = <<Write("Blocks", Lastest, v), e, s>>
    BY <1>1, <2>1 DEF SyncOf
  <2>3. /\ w = Write("Blocks", Lastest, v) /\ Tail(L) = <<e, s>>
        /\ w.bucket = "Blocks" /\ w.key = Lastest /\ w.value = v
    BY <2>2 DEF Write
  <2>4. s.from \in Nat /\ s.to \in 0..s.from /\ s.to \in Nat /\ v # Absent
    BY <2>1 DEF SyncOf
  <2>5. v \in BlockSet(top) /\ v.height = s.to
    BY <1>3, <2>4, BlockAtHeight
  <2>6. \A c, k : Get(g, c, k) = IF c = "Blocks" /\ k = Lastest THEN v ELSE Get(f, c, k)
    BY <1>2, <2>3
  <2> HIDE DEF v, w, g
  <2>7. /\ GetLastest(g) = v /\ LastestHeight(g) = v.height
        /\ \A h \in Int : HeightHash(g, h) = HeightHash(f, h)
        /\ \A h \in Int : GetBlockByHeight(g, h) = GetBlockByHeight(f, h)
        /\ \A k \in HashSet : GetBlockByHash(g, k) = GetBlockByHash(f, k)
        /\ \A m, T : Stands(f, m, T) => Stands(g, m, T)
        /\ Keyed(g)
    BY <1>3, <2>5, <2>6, LastestWritten
  <2>8. SyncOf(s, g, torn)
    BY <2>1, <2>4, <2>7 DEF SyncOf
  <2>9. GetBlockByHeight(g, s.to) = v
    BY <2>4, <2>7 DEF v
  <2>10. Rests(g, torn)
    <3>1. Stands(g, s.from, torn)
      BY <2>8 DEF SyncOf
    <3>2. Stands(g, s.to, torn)
      BY <2>4, <3>1, StandsLower
    <3> QED BY <2>5, <2>7, <2>9, <3>2 DEF Rests, TopIs
  <2>11. Syncs(<<e, s>>, g, torn)
    BY <2>1, <2>7, <2>8, <2>9 DEF Syncs
  <2> QED BY <1>1, <2>3, <2>7, <2>10, <2>11, RestsGoOn DEF g
<1>5. CASE Falls(L, f, torn, top)
  <2> DEFINE Back(v, e) ==
           /\ L = <<Write("Blocks", Lastest, v), e>> /\ e.do \in {"cache", "exit"}
           /\ Stands(f, v.height, torn)
           /\ v # NullBlock /\ v.height \notin torn => GetBlockByHeight(f, v.height) = v
  <2>0. PICK v \in BlockSet(top) : \E e : Back(v, e)
    BY <1>5 DEF Falls
  <2>1. PICK e : Back(v, e)
    BY <2>0
  <2>2. /\ Tail(L) = <<e>> /\ w.bucket = "Blocks" /\ w.key = Lastest /\ w.value = v
    BY <2>1 DEF Write
  <2>3. \A c, k : Get(g, c, k) = IF c = "Blocks" /\ k = Lastest THEN v ELSE Get(f, c, k)
    BY <1>2, <2>2
  <2> HIDE DEF w, g
  <2>4. /\ GetLastest(g) = v /\ LastestHeight(g) = v.height
        /\ \A h \in Int : GetBlockByHeight(g, h) = GetBlockByHeight(f, h)
        /\ \A m, T : Stands(f, m, T) => Stands(g, m, T)
        /\ Keyed(g)
    BY <1>3, <2>3, LastestWritten
  <2>5. Rests(g, torn)
    <3>1. v.height \in Int
      BY DEF BlockSet
    <3> QED BY <2>1, <2>4, <3>1 DEF Rests, TopIs
  <2>6. RevertList(<<e>>, LastestHeight(g))
    BY <2>1, RevertOne DEF RevertItem
  <2> QED BY <1>1, <2>2, <2>4, <2>5, <2>6, RestsGoOn DEF g
<1> QED BY <1>3, <1>4, <1>5

LEMMA DoCacheDisk ==
    ASSUME IInv, IInv', DiskInv, DoCache("chain")
    PROVE  DiskInv'
<1> DEFINE L == todo["chain"]
<1>1. top' = top /\ file' = file /\ L # <<>> /\ Head(L).do = "cache" /\ GoOn("chain", Tail(L))
  BY DEF DoCache, Has
<1>2. CASE adding # Absent
  BY <1>1, <1>2, AddsSilent
<1>3. CASE adding = Absent
  <2>1. /\ Keyed(file) /\ Rests(file, torn)
        /\ RevertList(Tail(L), LastestHeight(file)) \/ Syncs(L, file, torn)
    BY <1>1, <1>3, RestHead
  <2>2. Keyed(file') /\ Rests(file', torn)
    BY <1>1, <2>1
  <2>3. CASE RevertList(Tail(L), LastestHeight(file))
    <3>1. RevertList(Tail(L), LastestHeight(file'))
      BY <1>1, <2>3
    <3> QED BY <1>1, <1>3, <2>2, <3>1, RestsGoOn
  <2>4. CASE Syncs(L, file, torn)
    <3>1. PICK s, e : /\ SyncOf(s, file, torn) /\ e.do = "cache"
                      /\ \/ L = <<Write("Blocks", Lastest, GetBlockByHeight(file, s.to)), e, s>>
                         \/ (L = <<e, s>> \/ L = <<s>>) /\ GetLastest(file) = GetBlockByHeight(file, s.to)
      BY <2>4 DEF Syncs
    <3>2. L = <<e, s>> /\ GetLastest(file) = GetBlockByHeight(file, s.to)
      BY <1>1, <3>1 DEF SyncOf, Write
    <3>3. Tail(L) = <<s>>
      BY <3>2
    <3>4. Syncs(<<s>>, file', torn)
      BY <1>1, <3>1, <3>2 DEF Syncs
    <3> QED BY <1>1, <1>3, <2>2, <3>3, <3>4, RestsGoOn
  <2> QED BY <2>1, <2>3, <2>4
<1> QED BY <1>2, <1>3

\* What is deleted is above lastest.
LEMMA DoDeleteDisk ==
    ASSUME IInv, DiskInv, DoDelete("chain")
    PROVE  DiskInv'
<1> DEFINE L == todo["chain"]
           s == Head(L)
           f == file
           g == file'
           l == LastestHeight(f)
<1>1. /\ top' = top /\ L # <<>> /\ s.do = "delete"
      /\ g = Delete(f, s.bucket, s.key) /\ GoOn("chain", Tail(L))
  BY DEF DoDelete, Has, memory
<1>2. \A c, k : Get(g, c, k) = IF c = s.bucket /\ k = s.key THEN Absent ELSE Get(f, c, k)
  BY <1>1, GetDelete
<1>3. adding = Absent
  BY <1>1, DeleteRests
<1>4. /\ Keyed(f) /\ FileOK(f, top) /\ Stands(f, l, torn) /\ TopIs(f, torn)
      /\ RevertItem(s, l) /\ RevertList(Tail(L), l)
  BY <1>1, <1>3, RestHead DEF Rests
<1>5. s.bucket = "Blocks" => s.key # Lastest
  BY <1>1, ChainHead DEF ItemOK, IInv
<1>6. top \in Int /\ top >= -1 /\ l \in Int
  BY ReadLastest DEF IInv, Counts
<1> HIDE DEF f, g, l, s
<1>7. GetLastest(g) = GetLastest(f)
  BY <1>2, <1>5 DEF GetLastest
<1>8. Keyed(g)
  <2>1. \A c, k : Get(g, c, k) \in {Absent, Get(f, c, k)}
    BY <1>2
  <2> QED BY <1>4, <2>1, KeyedLess
<1>9. ASSUME NEW h \in 0..l, Complete(f, h) PROVE SameAt(f, g, h)
  <2>1. h \in Nat
    OBVIOUS
  <2>2. HeightToBytes(h) # <<>>
    <3>1. HeightHash(f, h) # Absent
      BY <1>4, <1>9, <2>1, BlockAtHeight DEF Complete
    <3> QED BY <1>4, <2>1, <3>1, AtHeightIs
  <2>3. Apart(s.bucket, s.key, h)
    <3>1. CASE s.bucket = "Blockheads"
      BY <3>1 DEF Apart
    <3>2. CASE s.key \in HashSet /\ s.key[1] > l
      <4>1. s.key # HeightToBytes(h)
        BY <2>1, <3>2, HeightNoHash
      <4>2. s.key[1] # h
        <5> DEFINE k == s.key[1]
        <5>1. k > l
          BY <3>2
        <5> HIDE DEF k
        <5>2. k # h
          BY <1>6, <5>1
        <5> QED BY <5>2 DEF k
      <4> QED BY <4>1, <4>2 DEF Apart
    <3>3. CASE \E i \in Nat : i > l /\ s.key = HeightToBytes(i)
      <4>1. PICK i \in Nat : i > l /\ s.key = HeightToBytes(i)
        BY <3>3
      <4>2. i # h
        BY <1>6, <4>1
      <4>3. s.key # HeightToBytes(h)
        BY <2>1, <2>2, <4>1, <4>2, HeightsDiffer
      <4>4. s.key \notin HashSet
        BY <4>1, HeightNoHash
      <4> QED BY <4>3, <4>4 DEF Apart
    <3> QED BY <1>1, <1>4, <3>1, <3>2, <3>3 DEF RevertItem
  <2>4. \A c, k : ~(c = s.bucket /\ k = s.key) => Get(g, c, k) = Get(f, c, k)
    BY <1>2
  <2> QED BY <1>4, <1>9, <2>1, <2>3, <2>4, ApartSame
<1>10. /\ Stands(g, l, torn)
       /\ \A h \in 0..l : h \notin torn => GetBlockByHeight(g, h) = GetBlockByHeight(f, h)
  BY <1>4, <1>6, <1>9, StandsKept
<1>11. TopIs(g, torn) /\ LastestHeight(g) = l
  BY <1>4, <1>6, <1>7, <1>10, TopKept DEF l
<1>12. Rests(g, torn) /\ RevertList(Tail(L), LastestHeight(g))
  BY <1>4, <1>10, <1>11 DEF Rests
<1> QED BY <1>1, <1>3, <1>8, <1>12, RestsGoOn DEF g

\* The state of a fetch.
LEMMA FetchFacts ==
    ASSUME IInv, DiskInv, Has("chain", "fetch")
    PROVE  LET s == Head(todo["chain"])
           IN  /\ adding = Absent /\ Keyed(file) /\ Rests(file, torn) /\ FileOK(file, top)
               /\ SyncOf(s, file, torn) /\ LastestHeight(file) = s.to
               /\ s.from \in 0..top /\ s.to \in 0..s.from
<1> DEFINE L == todo["chain"]
           s == Head(L)
<1>1. L # <<>> /\ s.do = "fetch"
  BY DEF Has
<1>2. adding = Absent
  BY <1>1, DeleteRests
<1>3. Keyed(file) /\ Rests(file, torn) /\ FileOK(file, top) /\ Syncs(L, file, torn)
  BY <1>1, <1>2, RestHead DEF RevertItem
<1>4. PICK t, e : /\ SyncOf(t, file, torn) /\ e.do = "cache"
                  /\ \/ L = <<Write("Blocks", Lastest, GetBlockByHeight(file, t.to)), e, t>>
                     \/ (L = <<e, t>> \/ L = <<t>>) /\ GetLastest(file) = GetBlockByHeight(file, t.to)
  BY <1>3 DEF Syncs
<1>5. L = <<t>> /\ GetLastest(file) = GetBlockByHeight(file, t.to)
  BY <1>1, <1>4 DEF Write
<1>6. s = t
  BY <1>5
<1>7. s.from \in 0..top /\ s.to \in 0..s.from
  BY <1>1, ChainHead DEF ItemOK, IInv
<1>8. GetLastest(file) # Absent /\ GetLastest(file).height = s.to
  <2>1. s.to \in Nat /\ GetBlockByHeight(file, s.to) # Absent
    BY <1>4, <1>6 DEF SyncOf
  <2>2. GetBlockByHeight(file, s.to).height = s.to
    BY <1>3, <2>1, BlockAtHeight
  <2> QED BY <1>5, <1>6, <2>1, <2>2
<1>9. LastestHeight(file) = s.to
  BY <1>8 DEF LastestHeight
<1> HIDE DEF L, s
<1> QED BY <1>2, <1>3, <1>4, <1>6, <1>7, <1>9 DEF L, s

LEMMA FetchedDisk ==
    ASSUME IInv, DiskInv, Fetched
    PROVE  DiskInv'
<1> DEFINE s == Head(todo["chain"])
           M == DeleteDownTo(s.from, s.to)
<1>1. top' = top /\ file' = file /\ Has("chain", "fetch") /\ GoOn("chain", M)
  BY DEF Fetched, memory
<1>2. /\ adding = Absent /\ Keyed(file) /\ Rests(file, torn) /\ LastestHeight(file) = s.to
      /\ s.from \in 0..top /\ s.to \in 0..s.from
  BY <1>1, FetchFacts
<1>3. RevertList(M, LastestHeight(file))
  BY <1>2, DownToReverts
<1> HIDE DEF M
<1>4. Keyed(file') /\ Rests(file', torn) /\ RevertList(M, LastestHeight(file'))
  BY <1>1, <1>2, <1>3
<1> QED BY <1>1, <1>2, <1>4, RestsGoOn

LEMMA FetchFailsDisk ==
    ASSUME IInv, DiskInv, FetchFails
    PROVE  DiskInv'
<1> DEFINE s == Head(todo["chain"])
           b == GetBlockByHash(file, s.origin)
           M == SetLastest(b)
<1>1. top' = top /\ file' = file /\ Has("chain", "fetch") /\ GoOn("chain", M)
  BY DEF FetchFails, memory
<1>2. /\ adding = Absent /\ Keyed(file) /\ Rests(file, torn) /\ FileOK(file, top)
      /\ SyncOf(s, file, torn) /\ s.from \in 0..top
  BY <1>1, FetchFacts
<1>3. /\ s.from \in Nat /\ s.origin \in HashSet /\ s.origin[1] = s.from /\ Stands(file, s.from, torn)
      /\ s.from \notin torn /\ b # Absent => HeightHash(file, s.from) = s.origin
  BY <1>2 DEF SyncOf
<1>4. Falls(M, file, torn, top)
  <2>1. CASE b = Absent
    <3> DEFINE e == [do |-> "exit"]
    <3>1. M = <<Write("Blocks", Lastest, NullBlock), e>> /\ e.do \in {"cache", "exit"}
      BY <2>1 DEF SetLastest
    <3>2. NullBlock \in BlockSet(top) /\ NullBlock.height = 0
      <4>1. top \in Int /\ 0 \in 0..top
        BY <1>2 DEF IInv, Counts
      <4> QED BY <4>1 DEF NullBlock, NewBlock, BlockSet
    <3>3. Stands(file, NullBlock.height, torn)
      BY <1>3, <3>2, StandsLower
    <3> HIDE DEF M, e
    <3> QED BY <3>1, <3>2, <3>3, Zenon DEF Falls
  <2>2. CASE b # Absent
    <3> DEFINE e == [do |-> "cache", value |-> b.height]
    <3>1. M = <<Write("Blocks", Lastest, b), e>> /\ e.do \in {"cache", "exit"}
      BY <2>2 DEF SetLastest
    <3>2. b \in BlockSet(top)
      BY <1>2, <1>3, <2>2, ReadBlockByHash
    <3>3. Hash(b) = s.origin
      BY <1>2, <1>3, <2>2 DEF Keyed
    <3>4. b.height = s.from
      BY <1>3, <3>2, <3>3, HashParts
    <3>5. b.height \notin torn => GetBlockByHeight(file, b.height) = b
      BY <1>3, <2>2, <3>4 DEF GetBlockByHeight, HeightHash
    <3>6. Stands(file, b.height, torn)
      BY <1>3, <3>4
    <3> HIDE DEF M, e, b
    <3> QED BY <3>1, <3>2, <3>5, <3>6, Zenon DEF Falls
  <2> QED BY <2>1, <2>2
<1> HIDE DEF M
<1>5. Keyed(file') /\ Rests(file', torn) /\ Falls(M, file', torn, top)
  BY <1>1, <1>2, <1>4
<1> QED BY <1>1, <1>2, <1>5, RestsGoOn

LEMMA DoRevertDisk ==
    ASSUME IInv, DiskInv, DoRevert
    PROVE  DiskInv'
<1> DEFINE s == Head(todo["chain"])
           b == GetBlockByHeight(file, s.from)
           A == IF b = Absent THEN <<>> ELSE DeleteBlock(b)
           B == DeleteDownTo(s.from - 1, s.to)
           M == A \o B
           l == LastestHeight(file)
<1>1. /\ top' = top /\ file' = file /\ todo["chain"] # <<>> /\ s.do = "revert" /\ GoOn("chain", M)
  BY DEF DoRevert, Has, memory
<1>2. adding = Absent
  BY <1>1, DeleteRests
<1>3. /\ Keyed(file) /\ Rests(file, torn) /\ FileOK(file, top) /\ s.to >= l /\ s.from > s.to
  BY <1>1, <1>2, RestHead DEF RevertItem
<1>4. s.from \in 0..top /\ s.to \in 0..top /\ s.from \in Nat /\ s.to \in Nat
  BY <1>1, ChainHead DEF ItemOK, IInv
<1>5. l \in Int
  BY ReadLastest DEF IInv, Counts
<1>6. RevertList(A, l)
  <2>1. CASE b = Absent
    BY <2>1, RevertEmpty
  <2>2. CASE b # Absent
    <3>1. b \in BlockSet(top) /\ b.height = s.from
      BY <1>3, <1>4, <2>2, BlockAtHeight
    <3>2. b.height > l
      <4> HIDE DEF b, l
      <4> QED BY <1>3, <1>4, <1>5, <3>1
    <3> QED BY <1>5, <2>2, <3>1, <3>2, DeleteReverts
  <2> QED BY <2>1, <2>2
<1>7. RevertList(B, l)
  <2>1. s.from - 1 \in Int /\ s.to \in Int
    BY <1>4
  <2> QED BY <1>3, <1>5, <2>1, DownToReverts
<1> HIDE DEF A, B
<1>8. RevertList(M, l)
  BY <1>6, <1>7, RevertConcat
<1> HIDE DEF M
<1>9. Keyed(file') /\ Rests(file', torn) /\ RevertList(M, LastestHeight(file'))
  BY <1>1, <1>3, <1>8
<1> QED BY <1>1, <1>2, <1>9, RestsGoOn

\* A crash leaves the height of an unfinished block, if any, without a promise.
LEMMA RestartDisk ==
    ASSUME IInv, DiskInv, Restart
    PROVE  DiskInv'
<1>1. /\ UNCHANGED <<file, top>> /\ adding' = Absent /\ todo' = [p \in Activity |-> <<>>]
      /\ torn' = IF adding = Absent THEN torn ELSE torn \cup {adding.height}
  BY DEF Restart
<1>2. todo'["chain"] = <<>>
  BY <1>1 DEF Activity
<1>3. RevertList(<<>>, LastestHeight(file'))
  BY RevertEmpty
<1>4. Keyed(file')
  BY <1>1 DEF DiskInv, ChainInv
<1>5. Rests(file, torn')
  <2>1. CASE adding = Absent
    BY <1>1, <2>1 DEF DiskInv, ChainInv
  <2>2. CASE adding # Absent
    <3> DEFINE m == adding.height
               l == LastestHeight(file)
    <3>1. Adds(todo["chain"], file, torn, adding) /\ m \in Nat
      BY <2>2, AddingFacts
    <3>2. l \in {m - 1, m} /\ (l = m - 1 => TopIs(file, torn)) /\ Stands(file, m - 1, torn)
      BY <3>1 DEF Adds
    <3>3. torn' = torn \cup {m}
      BY <1>1, <2>2
    <3> HIDE DEF m
    <3>4. Stands(file, l, torn')
      <4> HIDE DEF l
      <4>1. \A h \in 0..l : h \notin torn' => h \in 0..m - 1 /\ h \notin torn
        BY <3>1, <3>2, <3>3
      <4>2. \A h \in 0..l : h - 1 \in 0..l /\ h - 1 \notin torn' => h - 1 \in 0..m - 1 /\ h - 1 \notin torn
        BY <3>1, <3>2, <3>3
      <4> QED BY <3>2, <4>1, <4>2 DEF Stands
    <3>5. TopIs(file, torn')
      BY <3>2, <3>3 DEF TopIs
    <3> QED BY <3>4, <3>5 DEF Rests
  <2> QED BY <2>1, <2>2
<1>6. Rests(file', torn')
  BY <1>1, <1>5
<1> QED BY <1>1, <1>2, <1>3, <1>4, <1>6 DEF DiskInv, ChainInv

\* Nothing is under way.
LEMMA IdleFacts ==
    ASSUME IInv, DiskInv, Idle("chain"), NEW h \in Int, HeightIs(h)
    PROVE  /\ LastestHeight(file) = h /\ adding = Absent /\ Keyed(file) /\ FileOK(file, top)
           /\ Stands(file, h, torn) /\ TopIs(file, torn)
<1>1. cache = h /\ cache # Absent
  BY ConstFacts DEF HeightIs
<1>2. LastestHeight(file) = h
  BY <1>1 DEF IInv, Fresh, CacheFresh, Has, Idle
<1>3. adding = Absent
  BY DEF DiskInv, ChainInv, Idle
<1> QED BY <1>2, <1>3 DEF DiskInv, ChainInv, IInv, Rests

LEMMA AddGenesisDisk ==
    ASSUME IInv, DiskInv, AddGenesis
    PROVE  DiskInv'
<1> DEFINE b == NewBlock(0, 0, 0)
           M == <<Empty("Blocks")>> \o StoreBlock(b) \o <<Empty("UTXOSet")>> \o Update(b)
                  \o <<Empty("Txns"), Write("Txns", Hash(b), b)>>
<1>1. /\ UNCHANGED <<file, top, torn>> /\ adding' = b /\ todo' = [todo EXCEPT !["chain"] = M]
      /\ Idle("chain") /\ HeightIs(-1) /\ top >= 0
  BY DEF AddGenesis, memory
<1>2. top \in Nat /\ b \in BlockSet(top) /\ b.height = 0 /\ b.fork = 0
  BY <1>1 DEF IInv, Counts, NewBlock, BlockSet
<1>3. LastestHeight(file) = -1 /\ Keyed(file) /\ Stands(file, -1, torn) /\ TopIs(file, torn)
  <2>1. -1 \in Int
    OBVIOUS
  <2> QED BY <1>1, <2>1, IdleFacts
<1>4. Carries(M, file, b)
  BY <1>2, AddGenesisCarries
<1>5. M # <<>>
  BY <1>2, AddGenesisOrderly
<1> HIDE DEF M, b
<1>6. Adds(M, file, torn, b)
  BY <1>2, <1>3, <1>4 DEF Adds
<1>7. todo'["chain"] = M
  BY <1>1 DEF IInv, Lists, Activity
<1>8. b # Absent
  BY <1>2, ConstFacts
<1>9. ChainInv(M, file, torn, b, top)
  BY <1>3, <1>5, <1>6, <1>8 DEF ChainInv
<1> QED BY <1>1, <1>7, <1>9 DEF DiskInv

LEMMA AddBlockDisk ==
    ASSUME IInv, DiskInv, AddBlock
    PROVE  DiskInv'
<1>1. PICK h \in 0..top - 1 :
         LET b == NewBlock(h + 1, forks, GetLastest(file).fork)
         IN  /\ HeightIs(h) /\ adding' = b
             /\ todo' = [todo EXCEPT !["chain"] = StoreBlock(b) \o Update(b)]
  BY DEF AddBlock
<1>2. /\ UNCHANGED <<file, top, torn>>
      /\ Idle("chain") /\ GetLastest(file) \notin {Absent, NullBlock}
  BY DEF AddBlock, memory
<1> DEFINE b == NewBlock(h + 1, forks, GetLastest(file).fork)
           M == StoreBlock(b) \o Update(b)
<1>3. top \in Nat /\ h \in Int /\ h >= 0 /\ h + 1 \in 0..top /\ forks \in Nat
  BY <1>1 DEF IInv, Counts
<1>4. /\ LastestHeight(file) = h /\ Keyed(file) /\ FileOK(file, top)
      /\ Stands(file, h, torn) /\ TopIs(file, torn)
  BY <1>1, <1>2, <1>3, IdleFacts
<1>5. GetLastest(file).fork \in Int
  <2>1. GetLastest(file) \in BlockSet(top)
    BY <1>2, <1>3, <1>4, ReadLastest
  <2> QED BY <2>1 DEF BlockSet
<1>6. /\ b \in BlockSet(top) /\ b.height = h + 1 /\ b.fork = forks
      /\ b.prev = GetLastest(file).fork
  BY <1>3, <1>5 DEF NewBlock, BlockSet
<1>7. adding' = b /\ todo' = [todo EXCEPT !["chain"] = M]
  BY <1>1
<1> HIDE DEF b
<1>8. Carries(M, file, b)
  BY <1>6, AddBlockCarries
<1>9. M # <<>>
  <2>1. IsSeq(StoreBlock(b)) /\ IsSeq(Update(b)) /\ Will(Update(b), "UTXOSet", Hash(b), b)
    BY <1>6, StoreBlockAdds, UpdateAdds DEF AddList
  <2>2. Will(M, "UTXOSet", Hash(b), b)
    BY <2>1, WillRight
  <2> HIDE DEF M
  <2> QED BY <2>2 DEF Will
<1> HIDE DEF M
<1>10. h \notin torn => b.prev = GetBlockByHeight(file, h).fork
  BY <1>2, <1>4, <1>6 DEF TopIs
<1>11. b.height - 1 = h
  BY <1>3, <1>6
<1>12. Adds(M, file, torn, b)
  BY <1>3, <1>4, <1>6, <1>8, <1>10, <1>11 DEF Adds
<1>13. todo'["chain"] = M
  BY <1>7 DEF IInv, Lists, Activity
<1>14. b # Absent
  BY <1>6, ConstFacts
<1>15. ChainInv(M, file, torn, b, top)
  BY <1>4, <1>9, <1>12, <1>14 DEF ChainInv
<1> QED BY <1>2, <1>7, <1>13, <1>15 DEF DiskInv

LEMMA SyncBlocksDisk ==
    ASSUME IInv, DiskInv, NEW r \in 0..top, SyncBlocks(r)
    PROVE  DiskInv'
<1>1. PICK h \in r..top - 1 :
         /\ HeightIs(h)
         /\ todo' = [todo EXCEPT !["chain"] =
                         SetLastest(GetBlockByHeight(file, r))
                           \o <<[do |-> "fetch", from |-> h, to |-> r,
                                 origin |-> Hash(GetLastest(file))]>>]
  BY DEF SyncBlocks
<1>2. /\ UNCHANGED <<file, top, adding, torn>>
      /\ Idle("chain") /\ GetBlockByHeight(file, r) # Absent
  BY DEF SyncBlocks, memory, history
<1>3. top \in Nat /\ h \in Int /\ h \in Nat /\ r \in 0..h /\ r \in Nat
  BY <1>1 DEF IInv, Counts
<1> DEFINE b == GetLastest(file)
           s == [do |-> "fetch", from |-> h, to |-> r, origin |-> Hash(b)]
           c == GetBlockByHeight(file, r)
           w == Write("Blocks", Lastest, c)
           e == [do |-> "cache", value |-> c.height]
           M == SetLastest(c) \o <<s>>
<1>4. todo'["chain"] = M
  BY <1>1 DEF IInv, Lists, Activity
<1>5. /\ LastestHeight(file) = h /\ adding = Absent /\ Keyed(file) /\ FileOK(file, top)
      /\ Stands(file, h, torn) /\ TopIs(file, torn)
  BY <1>1, <1>2, <1>3, IdleFacts
<1>6. b # Absent /\ b.height = h /\ b \in BlockSet(top)
  <2>1. b # Absent /\ b.height = h
    BY <1>3, <1>5 DEF LastestHeight
  <2> QED BY <1>3, <1>5, <2>1, ReadLastest
<1>7. Hash(b) \in HashSet /\ Hash(b)[1] = h /\ Hash(b)[2] = b.fork
  BY <1>6, HashParts
<1>8. ASSUME h \notin torn, GetBlockByHash(file, Hash(b)) # Absent PROVE HeightHash(file, h) = Hash(b)
  <2> DEFINE d == GetBlockByHash(file, Hash(b))
  <2>1. Hash(d) = Hash(b) /\ d.fork \in Nat /\ d \in BlockSet(top)
    BY <1>5, <1>7, <1>8, ReadBlockByHash DEF Keyed
  <2>2. Hash(d)[2] = d.fork
    BY <2>1, HashParts
  <2>3. b.fork \in Nat
    BY <1>7, <2>1, <2>2
  <2>4. b # NullBlock
    BY <2>3 DEF NullBlock, NewBlock
  <2>5. GetBlockByHeight(file, h) = b
    BY <1>5, <1>6, <1>8, <2>4 DEF TopIs
  <2> QED BY <1>3, <1>5, <1>6, <2>5, BlockAtHeight
<1>9. SyncOf(s, file, torn)
  <2>1. s.do = "fetch" /\ s.from = h /\ s.to = r /\ s.origin = Hash(b)
    OBVIOUS
  <2> HIDE DEF s, b
  <2> QED BY <1>2, <1>3, <1>5, <1>7, <1>8, <2>1 DEF SyncOf
<1>10. M = <<w, e, s>>
  <2>1. SetLastest(c) = <<w, e>>
    BY <1>2 DEF SetLastest
  <2> HIDE DEF s, w, e
  <2>2. <<w, e>> \o <<s>> = <<w, e, s>>
    <3> DEFINE C == <<w, e>> \o <<s>>
               D == <<w, e, s>>
    <3>1. <<w, e>> \in Seq({w, e, s}) /\ <<s>> \in Seq({w, e, s})
      OBVIOUS
    <3>2. C \in Seq({w, e, s}) /\ Len(C) = 3 /\ C[1] = w /\ C[2] = e /\ C[3] = s
      BY <3>1
    <3>3. D \in Seq({w, e, s}) /\ Len(D) = 3 /\ D[1] = w /\ D[2] = e /\ D[3] = s
      OBVIOUS
    <3> HIDE DEF C, D
    <3>4. Len(C) = Len(D) /\ \A i \in 1..Len(C) : C[i] = D[i]
      BY <3>2, <3>3
    <3>5. C = D
      BY <3>2, <3>3, <3>4, SeqEqual
    <3> QED BY <3>5 DEF C, D
  <2> QED BY <2>1, <2>2
<1>11. s.to = r /\ e.do = "cache"
  OBVIOUS
<1> HIDE DEF M, s, e
<1>12. Syncs(M, file, torn)
  BY <1>9, <1>10, <1>11 DEF Syncs
<1>13. ChainInv(M, file, torn, adding, top)
  BY <1>5, <1>12 DEF ChainInv, Rests
<1> QED BY <1>2, <1>4, <1>13 DEF DiskInv

LEMMA InitDisk == Init => DiskInv
<1> SUFFICES ASSUME Init PROVE DiskInv
  OBVIOUS
<1>1. PICK s \in Starts : top = s + MaxNew /\ file = StoredChain(s)
  BY DEF Init
<1>2. s \in Int /\ s >= -1
  BY <1>1, BlockStoreAssumption
<1>3. /\ \A x \in DOMAIN file : \E h \in 0..s : EntryOf(x, file[x], NewBlock(h, 0, 0), s)
      /\ \A h \in 0..s : \A x, v : EntryOf(x, v, NewBlock(h, 0, 0), s) => x \in DOMAIN file
  BY <1>1, StoredChainIs
<1> DEFINE B(h) == NewBlock(h, 0, 0)
<1>4. ASSUME NEW h \in 0..s
      PROVE  /\ B(h) \in BlockSet(s) /\ B(h).height = h /\ B(h).fork = 0 /\ B(h).prev = 0
             /\ h \in Nat /\ B(h) # Absent
             /\ Hash(B(h)) \in HashSet /\ Hash(B(h))[1] = h
             /\ HeightToBytes(h) # Lastest /\ HeightToBytes(h) \notin HashSet
             /\ HeightToBytes(h) # <<>> /\ Hash(B(h)) # Lastest
  <2>1. B(h) \in BlockSet(s) /\ B(h).height = h /\ B(h).fork = 0 /\ B(h).prev = 0 /\ h \in Nat
    BY <1>2 DEF NewBlock, BlockSet
  <2> HIDE DEF B
  <2>2. B(h) # Absent /\ Hash(B(h)) \in HashSet /\ Hash(B(h))[1] = h
    BY <2>1, ConstFacts, HashParts
  <2>3. HeightToBytes(h) # <<>>
    BY BlockStoreAssumption DEF CanSet
  <2> QED BY <2>1, <2>2, <2>3, HeightNoHash, KeysDiffer
<1>5. Lastest \notin HashSet /\ Absent \notin HashSet
  BY KeysDiffer, ConstFacts DEF HashSet
<1>6. \A x, v, h : EntryOf(x, v, B(h), s) =>
         \/ x = <<"Blocks", Hash(B(h))>> /\ v = B(h)
         \/ x = <<"Blocks", HeightToBytes(B(h).height)>> /\ v = Hash(B(h))
         \/ x[1] = "Blockheads"
         \/ x = <<"Txns", Hash(B(h))>> /\ v = B(h)
         \/ x = <<"UTXOSet", Hash(B(h))>> /\ v = B(h)
         \/ x = <<"Blocks", Lastest>> /\ B(h).height >= s /\ v = B(h)
  <2> HIDE DEF B
  <2> QED BY DEF EntryOf
<1>7. \A x \in DOMAIN file : \E h \in 0..s : EntryOf(x, file[x], B(h), s)
  BY <1>3
<1>8. ASSUME NEW h \in 0..s
      PROVE  /\ <<"Blocks", Hash(B(h))>> \in DOMAIN file
             /\ <<"Blocks", HeightToBytes(h)>> \in DOMAIN file
             /\ <<"Txns", Hash(B(h))>> \in DOMAIN file
             /\ <<"UTXOSet", Hash(B(h))>> \in DOMAIN file
             /\ h = s => <<"Blocks", Lastest>> \in DOMAIN file
  <2>1. B(h).height = h /\ (h = s => h >= s)
    BY <1>2, <1>4
  <2>2. /\ EntryOf(<<"Blocks", Hash(B(h))>>, B(h), B(h), s)
        /\ EntryOf(<<"Blocks", HeightToBytes(h)>>, Hash(B(h)), B(h), s)
        /\ EntryOf(<<"Txns", Hash(B(h))>>, B(h), B(h), s)
        /\ EntryOf(<<"UTXOSet", Hash(B(h))>>, B(h), B(h), s)
        /\ h = s => EntryOf(<<"Blocks", Lastest>>, B(h), B(h), s)
    <3> HIDE DEF B
    <3> QED BY <2>1 DEF EntryOf
  <2> QED BY <1>3, <2>2
<1> HIDE DEF B
<1>9. ASSUME NEW k \in HashSet, GetBlockByHash(file, k) # Absent
      PROVE  \E h \in 0..s : GetBlockByHash(file, k) = B(h) /\ Hash(B(h)) = k
  <2> DEFINE x == <<"Blocks", k>>
  <2>1. x \in DOMAIN file /\ GetBlockByHash(file, k) = file[x]
    BY <1>9 DEF GetBlockByHash, Get
  <2>2. PICK h \in 0..s : EntryOf(x, file[x], B(h), s)
    BY <1>7, <2>1
  <2>3. x[1] = "Blocks" /\ HeightToBytes(B(h).height) \notin HashSet
    BY <1>4
  <2>4. k = Hash(B(h)) /\ file[x] = B(h)
    BY <1>5, <1>6, <2>2, <2>3
  <2> QED BY <2>1, <2>4
<1>10. ASSUME NEW n \in Nat, HeightHash(file, n) # Absent
       PROVE  n \in 0..s /\ HeightHash(file, n) = Hash(B(n))
  <2> DEFINE x == <<"Blocks", HeightToBytes(n)>>
  <2>1. x \in DOMAIN file /\ HeightHash(file, n) = file[x]
    BY <1>10 DEF HeightHash, Get
  <2>2. PICK h \in 0..s : EntryOf(x, file[x], B(h), s)
    BY <1>7, <2>1
  <2>3. HeightToBytes(n) \notin HashSet /\ HeightToBytes(n) # Lastest /\ Hash(B(h)) \in HashSet
        /\ B(h).height = h /\ h \in Nat /\ HeightToBytes(h) # <<>>
    BY <1>4, HeightNoHash
  <2>4. HeightToBytes(n) = HeightToBytes(h) /\ file[x] = Hash(B(h))
    BY <1>6, <2>2, <2>3
  <2>5. n = h
    BY <2>3, <2>4, HeightsDiffer
  <2> QED BY <2>1, <2>4, <2>5
<1>11. Keyed(file)
  <2>1. ASSUME NEW k \in HashSet, GetBlockByHash(file, k) # Absent
        PROVE  Hash(GetBlockByHash(file, k)) = k /\ GetBlockByHash(file, k).fork \in Nat
    <3>1. PICK h \in 0..s : GetBlockByHash(file, k) = B(h) /\ Hash(B(h)) = k
      BY <1>9, <2>1
    <3>2. B(h).fork \in Nat
      BY <1>4
    <3> QED BY <3>1, <3>2
  <2>2. ASSUME NEW n \in Nat, HeightHash(file, n) # Absent PROVE HeightHash(file, n)[1] = n
    BY <1>4, <1>10, <2>2
  <2> QED BY <2>1, <2>2 DEF Keyed
<1>12. ASSUME NEW x \in DOMAIN file, x[1] # "Blockheads" PROVE file[x] # Absent
  <2>1. PICK h \in 0..s : EntryOf(x, file[x], B(h), s)
    BY <1>7
  <2>2. file[x] = B(h) \/ file[x] = Hash(B(h))
    BY <1>6, <1>12, <2>1
  <2> QED BY <1>4, <1>5, <2>2
<1>13. ASSUME NEW h \in 0..s
       PROVE  Complete(file, h) /\ GetBlockByHeight(file, h) = B(h)
  <2> DEFINE k == Hash(B(h))
  <2>1. /\ Get(file, "Blocks", k) # Absent /\ Get(file, "Txns", k) # Absent
        /\ Get(file, "UTXOSet", k) # Absent /\ HeightHash(file, h) # Absent
    <3>1. ASSUME NEW c \in {"Blocks", "Txns", "UTXOSet"}, NEW y, <<c, y>> \in DOMAIN file
          PROVE  Get(file, c, y) # Absent
      <4>1. <<c, y>>[1] # "Blockheads"
        BY <3>1
      <4> QED BY <1>12, <3>1, <4>1 DEF Get
    <3> QED BY <1>8, <3>1 DEF HeightHash
  <2>2. HeightHash(file, h) = k /\ k \in HashSet
    BY <1>4, <1>10, <2>1
  <2>3. GetBlockByHash(file, k) # Absent
    BY <2>1 DEF GetBlockByHash
  <2>4. PICK i \in 0..s : GetBlockByHash(file, k) = B(i) /\ Hash(B(i)) = k
    BY <1>9, <2>2, <2>3
  <2>5. i = h
    <3>1. Hash(B(i))[1] = i /\ Hash(B(h))[1] = h
      BY <1>4
    <3> QED BY <2>4, <3>1
  <2>6. GetBlockByHeight(file, h) = GetBlockByHash(file, k)
    BY <2>2 DEF GetBlockByHeight, HeightHash
  <2> QED BY <2>1, <2>2, <2>3, <2>4, <2>5, <2>6 DEF Complete
<1>14. Stands(file, s, {})
  <2>1. ASSUME NEW h \in 0..s, h - 1 \in 0..s PROVE Linked(file, h)
    <3>1. GetBlockByHeight(file, h) = B(h) /\ GetBlockByHeight(file, h - 1) = B(h - 1)
      BY <1>13, <2>1
    <3>2. B(h).prev = 0 /\ B(h - 1).fork = 0
      BY <1>4, <2>1
    <3> QED BY <3>1, <3>2 DEF Linked
  <2> QED BY <1>13, <2>1 DEF Stands
<1>15. /\ GetLastest(file) # Absent => s \in 0..s /\ GetLastest(file) = B(s)
       /\ s \in 0..s => GetLastest(file) # Absent
  <2> DEFINE x == <<"Blocks", Lastest>>
  <2>1. ASSUME x \in DOMAIN file PROVE s \in 0..s /\ file[x] = B(s) /\ file[x] # Absent
    <3>1. PICK h \in 0..s : EntryOf(x, file[x], B(h), s)
      BY <1>7, <2>1
    <3>2. HeightToBytes(B(h).height) # Lastest /\ Hash(B(h)) # Lastest /\ B(h).height = h
      BY <1>4
    <3>3. file[x] = B(h) /\ B(h).height >= s
      BY <1>6, <3>1, <3>2
    <3>4. h = s
      BY <1>2, <3>2, <3>3
    <3> QED BY <1>4, <3>3, <3>4
  <2>2. s \in 0..s => x \in DOMAIN file
    BY <1>8
  <2>3. GetLastest(file) = IF x \in DOMAIN file THEN file[x] ELSE Absent
    BY DEF GetLastest, Get
  <2> HIDE DEF x
  <2> QED BY <2>1, <2>2, <2>3
<1>16. LastestHeight(file) = s /\ TopIs(file, {})
  <2>1. CASE GetLastest(file) = Absent
    <3>1. s = -1
      BY <1>2, <1>15, <2>1
    <3> QED BY <2>1, <3>1 DEF LastestHeight, TopIs
  <2>2. CASE GetLastest(file) # Absent
    <3>1. s \in 0..s /\ GetLastest(file) = B(s)
      BY <1>15, <2>2
    <3>2. B(s).height = s /\ GetBlockByHeight(file, s) = B(s)
      BY <1>4, <1>13, <3>1
    <3>3. LastestHeight(file) = s
      BY <2>2, <3>1, <3>2 DEF LastestHeight
    <3> QED BY <3>1, <3>2, <3>3 DEF TopIs
  <2> QED BY <2>1, <2>2
<1>17. adding = Absent /\ torn = {} /\ todo["chain"] = <<>>
  BY DEF Init, Activity
<1> QED BY <1>11, <1>14, <1>16, <1>17, RevertEmpty DEF DiskInv, ChainInv, Rests

LEMMA NextDisk == IInv /\ IInv' /\ DiskInv /\ [Next]_vars => DiskInv'
<1> SUFFICES ASSUME IInv, IInv', DiskInv, [Next]_vars PROVE DiskInv'
  OBVIOUS
<1>0. \A p \in Activity : p = "chain" \/ p = "heads"
  BY DEF Activity
<1>1. CASE LoadHeight \/ HeightLoaded \/ UNCHANGED vars
  <2>1. UNCHANGED <<file, todo, top, torn, adding>>
    BY <1>1 DEF LoadHeight, HeightLoaded, vars, history
  <2>2. Outside(file, file') /\ todo'["chain"] = todo["chain"]
    BY <2>1 DEF Outside
  <2> QED BY <2>1, <2>2, DiskOutside
<1>2. CASE GossipBlockHead
  <2>1. UNCHANGED <<file, top, torn, adding>> /\ \E M : todo' = [todo EXCEPT !["heads"] = M]
    BY <1>2 DEF GossipBlockHead
  <2>2. Outside(file, file') /\ todo'["chain"] = todo["chain"]
    BY <2>1 DEF Outside, IInv, Lists, Activity
  <2> QED BY <2>1, <2>2, DiskOutside
<1>3. ASSUME NEW p \in Activity, DoSet(p) PROVE DiskInv'
  <2>1. CASE p = "chain"
    BY <1>3, <2>1, AddsWrite, RestsWrite
  <2>2. CASE p = "heads"
    <3> DEFINE s == Head(todo["heads"])
    <3>1. /\ top' = top /\ todo["heads"] # <<>> /\ s.do = "set"
          /\ file' = Set(file, s.bucket, s.key, s.value) /\ GoOn("heads", Tail(todo["heads"]))
      BY <1>3, <2>2 DEF DoSet, Has
    <3>2. s.bucket = "Blockheads"
      BY <3>1, HeadsHead DEF HeadsItem, IInv
    <3>3. Outside(file, file')
      BY <3>1, <3>2, GetSet DEF Outside
    <3>4. UNCHANGED <<torn, adding>> /\ todo'["chain"] = todo["chain"]
      BY <3>1 DEF GoOn, IInv, Lists, Activity
    <3> QED BY <3>1, <3>3, <3>4, DiskOutside
  <2> QED BY <1>0, <2>1, <2>2
<1>4. ASSUME NEW p \in Activity, DoHeadCache(p) PROVE DiskInv'
  <2>1. CASE p = "chain"
    <3>1. /\ top' = top /\ file' = file /\ todo["chain"] # <<>> /\ Head(todo["chain"]).do = "headCache"
          /\ GoOn("chain", Tail(todo["chain"]))
      BY <1>4, <2>1 DEF DoHeadCache, Has
    <3>2. adding # Absent
      BY <3>1, ClearAdds
    <3> QED BY <3>1, <3>2, AddsSilent
  <2>2. CASE p = "heads"
    <3>1. top' = top /\ file' = file /\ GoOn("heads", Tail(todo["heads"]))
      BY <1>4, <2>2 DEF DoHeadCache
    <3>2. Outside(file, file')
      BY <3>1 DEF Outside
    <3>3. UNCHANGED <<torn, adding>> /\ todo'["chain"] = todo["chain"]
      BY <3>1 DEF GoOn, IInv, Lists, Activity
    <3> QED BY <3>1, <3>2, <3>3, DiskOutside
  <2> QED BY <1>0, <2>1, <2>2
<1>5. ASSUME NEW p \in Activity, DoDelete(p) \/ DoClear(p) \/ DoCache(p) \/ DoCheck(p)
      PROVE  DiskInv'
  <2>1. p = "chain"
    BY <1>5, NotHeads DEF DoDelete, DoClear, DoCache, DoCheck
  <2>2. CASE DoDelete("chain")
    BY <2>2, DoDeleteDisk
  <2>3. CASE DoClear("chain")
    <3>1. adding # Absent
      BY <2>3, ClearAdds DEF DoClear, Has
    <3> QED BY <2>3, <3>1, DoClearDisk
  <2>4. CASE DoCache("chain")
    BY <2>4, DoCacheDisk
  <2>5. CASE DoCheck("chain")
    <3>1. adding # Absent
      BY <2>5, ClearAdds DEF DoCheck, Has
    <3> QED BY <2>5, <3>1, DoCheckDisk
  <2> QED BY <1>5, <2>1, <2>2, <2>3, <2>4, <2>5
<1>6. CASE AddGenesis
  BY <1>6, AddGenesisDisk
<1>7. CASE AddBlock
  BY <1>7, AddBlockDisk
<1>8. CASE \E r \in 0..top : SyncBlocks(r)
  BY <1>8, SyncBlocksDisk
<1>9. CASE Fetched
  BY <1>9, FetchedDisk
<1>10. CASE FetchFails
  BY <1>10, FetchFailsDisk
<1>11. CASE DoRevert
  BY <1>11, DoRevertDisk
<1>12. CASE Crash
  BY <1>12, RestartDisk DEF Crash
<1>13. ASSUME NEW p \in Activity, Exit(p) PROVE DiskInv'
  BY <1>13, RestartDisk DEF Exit
<1> QED BY <1>1, <1>2, <1>3, <1>4, <1>5, <1>6, <1>7, <1>8, <1>9, <1>10, <1>11, <1>12, <1>13
        DEF Next

-----------------------------------------------------------------------------
(* The theorems *)

\* Whatever the order of reads, writes, crashes and restarts: every key and value
\* in the database has its type, the two SetLastest steps stay together, and the
\* cached height is accounted for.
THEOREM Invariance == Spec => []IInv
BY InitIInv, NextIInv, PTL DEF Spec

\* No empty key is ever stored, no height leaves its range, and the list of what an
\* activity has still to do consists of steps it knows.
THEOREM TypeCorrect == Spec => []TypeOK
<1>1. IInv => TypeOK
  <2> SUFFICES ASSUME IInv PROVE TypeOK
    OBVIOUS
  <2>1. \A x \in DOMAIN file : x[1] \in Bucket /\ x[2] # <<>>
    BY DEF IInv, FileOK
  <2>2. {cache, loading, headCache} \subseteq {Absent} \cup (-1..top)
    BY DEF IInv, Heights
  <2>3. ASSUME NEW p \in Activity, NEW i \in DOMAIN todo[p]
        PROVE  todo[p][i].do \in {"set", "delete", "clear", "cache", "check",
                                  "headCache", "fetch", "revert", "exit"}
    <3>1. CASE p = "chain"
      <4>1. ItemOK(todo[p][i], top, forks)
        BY <3>1 DEF IInv, Lists, Orderly
      <4> QED BY <4>1 DEF ItemOK
    <3>2. CASE p = "heads"
      <4>1. HeadsItem(todo[p][i], top)
        BY <3>2 DEF IInv, Lists, HeadsList
      <4> QED BY <4>1 DEF HeadsItem
    <3> QED BY <3>1, <3>2 DEF Activity
  <2> QED BY <2>1, <2>2, <2>3 DEF TypeOK, IInv, Counts, Unfinished
<1> QED BY <1>1, Invariance, PTL

\* GetHeight returns the height of the stored lastest block whenever the two steps
\* of SetLastest are not under way: neither the once of another goroutine nor a
\* crash leaves an old height in the cache.
THEOREM AlwaysCacheFresh == Spec => []CacheFresh
<1>1. IInv => CacheFresh
  BY DEF IInv, Fresh
<1> QED BY <1>1, Invariance, PTL

\* Unless one AddBlockhead has met another or a crash, no head is stored above the
\* height to which the heads are thought to reach, where AddBlockhead would refuse
\* every later head.
THEOREM AlwaysHeadsReachable == Spec => []HeadsReachable
<1>1. Init => IInv /\ HeadsInv
  BY InitIInv, InitHeads
<1>2. IInv /\ HeadsInv /\ [Next]_vars => (IInv /\ HeadsInv)'
  BY NextIInv, NextHeads
<1>3. IInv /\ HeadsInv => HeadsReachable
  <2> SUFFICES ASSUME HeadsInv, ~headsCut, headCache # Absent, \A p \in Activity : ~InAddBlockhead(p)
               PROVE  \A h \in 0..top : GetBlockheadByHeight(file, h) # Absent => h <= headCache
    BY DEF HeadsReachable
  <2>1. ~Underway
    BY InHead DEF Underway
  <2> QED BY <2>1 DEF HeadsInv, Settled, Below
<1> QED BY <1>1, <1>2, <1>3, PTL DEF Spec

\* Whatever heights become which bytes, and wherever the process was killed: up to
\* lastest every height leads to a block of that height that follows the one below,
\* except for the blocks whose own writes are under way or were cut off.
THEOREM AlwaysChainOnDisk == Spec => []ChainOnDisk
<1>1. Init => IInv /\ DiskInv
  BY InitIInv, InitDisk
<1>2. IInv /\ DiskInv /\ [Next]_vars => (IInv /\ DiskInv)'
  BY NextIInv, NextDisk
<1>3. IInv /\ DiskInv => ChainOnDisk
  BY DiskShows
<1> QED BY <1>1, <1>2, <1>3, PTL DEF Spec

\* For the same heights the transaction index and the UTXO set have been written too.
THEOREM AlwaysIndexesFollow == Spec => []IndexesFollow
<1>1. Init => IInv /\ DiskInv
  BY InitIInv, InitDisk
<1>2. IInv /\ DiskInv /\ [Next]_vars => (IInv /\ DiskInv)'
  BY NextIInv, NextDisk
<1>3. IInv /\ DiskInv => IndexesFollow
  BY DiskShows
<1> QED BY <1>1, <1>2, <1>3, PTL DEF Spec

=============================================================================
