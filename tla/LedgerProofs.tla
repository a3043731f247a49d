---------------------------- MODULE LedgerProofs ----------------------------
(***************************************************************************)
(* For any owners, amounts, limit of the pool and number of transactions   *)
(* and reorganisations:                                                    *)
(*                                                                         *)
(*  - as long as no block comes or goes while a handler of transactions is *)
(*    at work, and the pool is small enough to clean up, the transaction   *)
(*    index is that of the main chain, and every transaction in the pool   *)
(*    can be packed;                                                       *)
(*  - every variable has its type, whatever has happened;                  *)
(*  - if nobody pays himself, no unspent output of the main chain is ever  *)
(*    missing in the UTXO set, unless a reorganisation meets a stale index *)
(*    or a race.                                                           *)
(*                                                                         *)
(* DeleteBlock takes the transactions of a block out of the index whether  *)
(* or not another block has them too.  The index thus hangs on no block    *)
(* ever getting a transaction that is already confirmed, and this on the   *)
(* pool holding none, and on the one that a handler is about to add.       *)
(*                                                                         *)
(* The UTXO set is computed by folds over blocks and inputs.  An operator  *)
(* cannot be a parameter of a lemma here, so every fold has a lemma of its *)
(* own that gives the values it takes on the way (UpdateInputRun and the   *)
(* like); what holds of them is then shown by induction over a set of      *)
(* numbers (SetInduction).                                                 *)
(***************************************************************************)
EXTENDS Ledger, FiniteSetTheorems, SequenceTheorems, NaturalsInduction,
        WellFoundedInduction, TLAPS

-----------------------------------------------------------------------------
(* Induction, recursion and folds *)

\* Induction, with a set in place of a predicate.
LEMMA SetInduction ==
    ASSUME NEW S, 0 \in S, \A n \in Nat : n \in S => n + 1 \in S
    PROVE  Nat \subseteq S
<1> DEFINE R == {ss \in Nat \X Nat : ss[1] < ss[2]}
           T == Nat \ S
<1> SUFFICES ASSUME T # {} PROVE FALSE
  OBVIOUS
<1>1. IsWellFoundedOn(R, Nat)
  BY NatLessThanWellFounded DEF OpToRel
<1>2. \A y, z \in Nat : y < z => <<y, z>> \in R
  OBVIOUS
<1> HIDE DEF R
<1>3. PICK x \in T : \A y \in T : ~(<<y, x>> \in R)
  <2>1. T \subseteq Nat
    OBVIOUS
  <2> HIDE DEF T
  <2> QED BY <1>1, <2>1, WFMin, Zenon
<1>4. x \in Nat /\ x \notin S /\ x # 0
  BY <1>3
<1>5. x - 1 \in Nat /\ (x - 1) + 1 = x /\ x - 1 < x
  BY <1>4
<1>6. x - 1 \in T
  <2>1. x - 1 \notin S
    BY <1>4, <1>5
  <2> QED BY <1>5, <2>1
<1> QED BY <1>2, <1>3, <1>4, <1>5, <1>6, Zenon

\* N steps in the set S, from a on; F[n] is what the n-th step does.
HasRun(S, a, N, F) ==
    \E f \in [0..N -> S] : f[0] = a /\ \A n \in 1..N : f[n] = F[n][f[n - 1]]

\* N steps can be taken.
LEMMA Recursion ==
    ASSUME NEW S, NEW a \in S, NEW N \in Nat, NEW F \in [1..N -> [S -> S]]
    PROVE  HasRun(S, a, N, F)
<1> DEFINE Good(m) == \E f \in [0..m -> S] :
                          f[0] = a /\ \A n \in 1..m : f[n] = F[n][f[n - 1]]
           M == {m \in Nat : m <= N => Good(m)}
<1>1. 0 \in M
  <2> DEFINE f == [n \in 0..0 |-> a]
  <2>1. f \in [0..0 -> S] /\ f[0] = a /\ \A n \in 1..0 : f[n] = F[n][f[n - 1]]
    OBVIOUS
  <2>2. Good(0)
    BY <2>1
  <2> QED BY <2>2
<1>2. ASSUME NEW m \in Nat, m \in M PROVE m + 1 \in M
  <2> SUFFICES ASSUME m + 1 <= N PROVE Good(m + 1)
    OBVIOUS
  <2>1. PICK f \in [0..m -> S] : f[0] = a /\ \A n \in 1..m : f[n] = F[n][f[n - 1]]
    BY <1>2
  <2> DEFINE g == [n \in 0..m + 1 |-> IF n <= m THEN f[n] ELSE F[m + 1][f[m]]]
  <2>2. F[m + 1][f[m]] \in S
    OBVIOUS
  <2>3. g \in [0..m + 1 -> S]
    BY <2>2
  <2>4. g[0] = a
    BY <2>1
  <2>5. ASSUME NEW n \in 1..m + 1 PROVE g[n] = F[n][g[n - 1]]
    <3>1. g[n - 1] = f[n - 1]
      OBVIOUS
    <3>2. CASE n <= m
      BY <2>1, <3>1, <3>2
    <3>3. CASE n = m + 1
      BY <3>1, <3>3
    <3> QED BY <3>2, <3>3
  <2> HIDE DEF g
  <2> QED BY <2>3, <2>4, <2>5
<1> HIDE DEF Good
<1>3. Nat \subseteq M
  BY <1>1, <1>2, SetInduction, Zenon
<1>4. Good(N)
  BY <1>3
<1> QED BY <1>4 DEF Good, HasRun

\* A set of numbers up to n has a greatest one.
LEMMA MaxOf ==
    ASSUME NEW n \in Nat, NEW s \in SUBSET (1..n), s # {}
    PROVE  Max(s) \in s /\ \A y \in s : y <= Max(s)
<1> DEFINE M == {k \in Nat : \A r \in SUBSET (1..k) : r # {} => \E x \in r : \A y \in r : x >= y}
<1>1. 0 \in M
  <2>1. 1..0 = {}
    OBVIOUS
  <2> QED BY <2>1
<1>2. ASSUME NEW k \in Nat, k \in M PROVE k + 1 \in M
  <2> SUFFICES ASSUME NEW r \in SUBSET (1..k + 1), r # {}
               PROVE  \E x \in r : \A y \in r : x >= y
    OBVIOUS
  <2>1. CASE k + 1 \in r
    BY <2>1
  <2>2. CASE k + 1 \notin r
    <3>1. r \in SUBSET (1..k)
      BY <2>2
    <3> QED BY <1>2, <3>1
  <2> QED BY <2>1, <2>2
<1> HIDE DEF M
<1>3. Nat \subseteq M
  BY <1>1, <1>2, SetInduction, Zenon
<1>4. \E x \in s : \A y \in s : x >= y
  BY <1>3 DEF M
<1>5. Max(s) \in s /\ \A y \in s : Max(s) >= y
  BY <1>4, Zenon DEF Max
<1> QED BY <1>5

\* The greatest of the numbers up to n, and the others.
LEMMA MaxOfAll ==
    ASSUME NEW N \in Nat, NEW n \in 1..N
    PROVE  /\ Max(1..n) = n /\ (1..n) \ {Max(1..n)} = 1..n - 1
           /\ 1..n # {} /\ 1..n \in SUBSET (1..N)
<1>1. n \in 1..n /\ n \in Nat
  OBVIOUS
<1>2. 1..n # {}
  BY <1>1
<1>3. 1..n \in SUBSET (1..n) /\ 1..n \in SUBSET (1..N)
  OBVIOUS
<1>4. Max(1..n) \in 1..n /\ \A y \in 1..n : y <= Max(1..n)
  BY <1>1, <1>2, <1>3, MaxOf
<1>5. Max(1..n) = n
  BY <1>1, <1>4
<1> QED BY <1>2, <1>3, <1>5

\* What a fold computes exists: F[i] is what the i-th element does to a value of S.
FoldOf(g, a, N, F) ==
    \A s \in SUBSET (1..N) : g[s] = IF s = {} THEN a ELSE F[Max(s)][g[s \ {Max(s)}]]

\* The function by which a fold is defined exists.
LEMMA FoldExists ==
    ASSUME NEW S, NEW a \in S, NEW N \in Nat, NEW F \in [1..N -> [S -> S]]
    PROVE  \E g \in [SUBSET (1..N) -> S] : FoldOf(g, a, N, F)
<1> DEFINE G(s) == [n \in 1..N |-> [x \in S |-> IF n \in s THEN F[n][x] ELSE x]]
           Good(s, f) == f[0] = a /\ \A n \in 1..N : f[n] = IF n \in s THEN F[n][f[n - 1]] ELSE f[n - 1]
           run == [s \in SUBSET (1..N) |-> CHOOSE f : f \in [0..N -> S] /\ Good(s, f)]
           g == [s \in SUBSET (1..N) |-> run[s][N]]
<1>1. ASSUME NEW s \in SUBSET (1..N) PROVE run[s] \in [0..N -> S] /\ Good(s, run[s])
  <2>1. \A n \in 1..N : \A x \in S : F[n][x] \in S
    OBVIOUS
  <2>2. G(s) \in [1..N -> [S -> S]]
    BY <2>1, Zenon
  <2>3. PICK f \in [0..N -> S] : f[0] = a /\ \A n \in 1..N : f[n] = G(s)[n][f[n - 1]]
    <3> HIDE DEF G
    <3>1. HasRun(S, a, N, G(s))
      BY <2>2, Recursion, Zenon
    <3> QED BY <3>1 DEF HasRun
  <2>4. \A n \in 1..N : f[n - 1] \in S
    OBVIOUS
  <2>5. Good(s, f)
    BY <2>3, <2>4, Zenon
  <2> HIDE DEF Good
  <2> QED BY <2>5, Zenon
<1>2. ASSUME NEW s \in SUBSET (1..N), NEW m \in 0..N, \A n \in s : n <= m
      PROVE  run[s][N] = run[s][m]
  <2> DEFINE M == {k \in Nat : m + k <= N => run[s][m + k] = run[s][m]}
  <2>1. 0 \in M
    OBVIOUS
  <2>2. ASSUME NEW k \in Nat, k \in M PROVE k + 1 \in M
    <3> SUFFICES ASSUME m + (k + 1) <= N PROVE run[s][m + (k + 1)] = run[s][m]
      OBVIOUS
    <3> DEFINE n == m + (k + 1)
    <3>1. n \in 1..N /\ n \notin s /\ n - 1 = m + k /\ m + k <= N
      BY <1>2
    <3> HIDE DEF n, run
    <3>2. run[s][n] = run[s][n - 1]
      BY <1>1, <3>1
    <3> QED BY <2>2, <3>1, <3>2 DEF n
  <2> HIDE DEF M
  <2>3. Nat \subseteq M
    BY <2>1, <2>2, SetInduction, Zenon
  <2>4. N - m \in Nat /\ m + (N - m) = N
    OBVIOUS
  <2>5. N - m \in M
    BY <2>3, <2>4
  <2> HIDE DEF run
  <2>6. m + (N - m) <= N => run[s][m + (N - m)] = run[s][m]
    BY <2>5 DEF M
  <2> QED BY <2>4, <2>6
<1>3. ASSUME NEW s \in SUBSET (1..N), NEW r \in SUBSET (1..N), NEW m \in 0..N,
             \A n \in 1..m : n \in s <=> n \in r
      PROVE  run[s][m] = run[r][m]
  <2> HIDE DEF run
  <2> DEFINE M == {k \in Nat : k <= m => run[s][k] = run[r][k]}
  <2>1. 0 \in M
    BY <1>1
  <2>2. ASSUME NEW k \in Nat, k \in M PROVE k + 1 \in M
    <3> SUFFICES ASSUME k + 1 <= m PROVE run[s][k + 1] = run[r][k + 1]
      OBVIOUS
    <3> DEFINE n == k + 1
    <3>1. n \in 1..N /\ n \in 1..m /\ n - 1 = k /\ k <= m
      OBVIOUS
    <3> HIDE DEF n
    <3>2. (n \in s <=> n \in r) /\ run[s][n - 1] = run[r][n - 1]
      BY <1>3, <2>2, <3>1
    <3>3. /\ run[s][n] = IF n \in s THEN F[n][run[s][n - 1]] ELSE run[s][n - 1]
          /\ run[r][n] = IF n \in r THEN F[n][run[r][n - 1]] ELSE run[r][n - 1]
      BY <1>1, <3>1, Zenon
    <3>4. run[s][n] = run[r][n]
      BY <3>2, <3>3
    <3> QED BY <3>4 DEF n
  <2> HIDE DEF M
  <2>3. Nat \subseteq M
    BY <2>1, <2>2, SetInduction, Zenon
  <2> QED BY <2>3 DEF M
<1> HIDE DEF run
<1>4. \A s \in SUBSET (1..N) : g[s] = run[s][N] /\ run[s][N] \in S
  <2>1. N \in 0..N
    OBVIOUS
  <2>2. \A s \in SUBSET (1..N) : run[s] \in [0..N -> S]
    BY <1>1
  <2> QED BY <2>1, <2>2, Zenon
<1>5. g \in [SUBSET (1..N) -> S]
  BY <1>4, Zenon
<1>6. ASSUME NEW s \in SUBSET (1..N)
      PROVE  g[s] = IF s = {} THEN a ELSE F[Max(s)][g[s \ {Max(s)}]]
  <2> HIDE DEF g
  <2>1. CASE s = {}
    <3>1. run[s][N] = run[s][0]
      BY <1>2, <2>1
    <3> QED BY <1>1, <1>4, <2>1, <3>1
  <2>2. CASE s # {}
    <3> DEFINE x == Max(s)
               r == s \ {x}
    <3>1. x \in s /\ \A y \in s : y <= x
      BY <2>2, MaxOf
    <3> HIDE DEF x
    <3>2. x \in 1..N /\ x \in 0..N /\ x - 1 \in 0..N /\ r \in SUBSET (1..N)
      BY <3>1
    <3>3. run[s][N] = run[s][x]
      BY <1>2, <3>1, <3>2
    <3>4. \A n \in r : n <= x - 1
      BY <3>1, <3>2
    <3>5. run[r][N] = run[r][x - 1]
      BY <1>2, <3>2, <3>4
    <3>6. \A n \in 1..x - 1 : n \in s <=> n \in r
      BY <3>2
    <3>7. run[s][x - 1] = run[r][x - 1]
      BY <1>3, <3>2, <3>6
    <3>8. run[s][x] = F[x][run[s][x - 1]]
      BY <1>1, <3>1, <3>2, Zenon
    <3>9. g[s] = F[x][g[r]]
      BY <1>4, <3>2, <3>3, <3>5, <3>7, <3>8, Zenon
    <3> QED BY <2>2, <3>9 DEF x
  <2> QED BY <2>1, <2>2
<1> HIDE DEF g
<1> QED BY <1>5, <1>6, Zenon DEF FoldOf

\* The values a fold takes on the way.
Stepwise(it, S, a, N, F) ==
    it[{}] = a /\ \A n \in 1..N : it[1..n - 1] \in S => it[1..n] = F[n][it[1..n - 1]]

RunTo(x, S, a, N, F) ==
    \E r \in [0..N -> S] :
        r[0] = a /\ (\A n \in 1..N : r[n] = F[n][r[n - 1]]) /\ r[N] = x

\* A fold in the order of the sequence.
LEMMA PrefixRun ==
    ASSUME NEW S, NEW a \in S, NEW N \in Nat, NEW F \in [1..N -> [S -> S]], NEW it,
           Stepwise(it, S, a, N, F)
    PROVE  RunTo(it[1..N], S, a, N, F)
<1> USE DEF Stepwise
<1> DEFINE r == [n \in 0..N |-> it[1..n]]
           M == {n \in Nat : n <= N => it[1..n] \in S}
<1>1. 0 \in M /\ it[1..0] = a
  <2>1. 1..0 = {}
    OBVIOUS
  <2> QED BY <2>1
<1>2. ASSUME NEW n \in Nat, n \in M PROVE n + 1 \in M
  <2> SUFFICES ASSUME n + 1 <= N PROVE it[1..n + 1] \in S
    OBVIOUS
  <2> DEFINE m == n + 1
  <2>1. m \in 1..N /\ m - 1 = n /\ n <= N
    OBVIOUS
  <2> HIDE DEF m
  <2>2. it[1..m - 1] \in S
    BY <1>2, <2>1
  <2>3. it[1..m] = F[m][it[1..m - 1]]
    BY <2>1, <2>2
  <2>4. F[m][it[1..m - 1]] \in S
    BY <2>1, <2>2
  <2> QED BY <2>3, <2>4 DEF m
<1> HIDE DEF M
<1>3. Nat \subseteq M
  BY <1>1, <1>2, SetInduction, Zenon
<1>4. \A n \in 0..N : it[1..n] \in S
  BY <1>3 DEF M
<1>5. r \in [0..N -> S]
  BY <1>4, Zenon
<1>6. \A n \in 1..N : n \in 0..N /\ n - 1 \in 0..N
  OBVIOUS
<1>7. \A n \in 1..N : r[n] = F[n][r[n - 1]]
  BY <1>4, <1>6, Zenon
<1>8. 0 \in 0..N /\ N \in 0..N
  OBVIOUS
<1>9. r[0] = a /\ r[N] = it[1..N]
  BY <1>1, <1>8, Zenon
<1> QED BY <1>5, <1>7, <1>9, Zenon DEF RunTo

UpdateInputRuns(S, a, seq) ==
    \E r \in [0..Len(seq) -> S] :
        /\ r[0] = a /\ \A n \in 1..Len(seq) : r[n] = UpdateInput(r[n - 1], seq[n])
        /\ FoldLeft(UpdateInput, a, seq) = r[Len(seq)]

\* The inputs of a transaction, in Update.
LEMMA UpdateInputRun ==
    ASSUME NEW S, NEW E, NEW a \in S, NEW seq \in Seq(E),
           \A x \in S : \A e \in E : UpdateInput(x, e) \in S
    PROVE  UpdateInputRuns(S, a, seq)
<1> DEFINE N == Len(seq)
           Fix(g) == [s \in SUBSET (1..N) |->
                         IF s = {} THEN a ELSE UpdateInput(g[s \ {Max(s)}], seq[Max(s)])]
           it == CHOOSE g : g = Fix(g)
           F == [n \in 1..N |-> [x \in S |-> UpdateInput(x, seq[n])]]
<1>1. N \in Nat /\ DOMAIN seq = 1..N /\ \A n \in 1..N : seq[n] \in E
  OBVIOUS
<1>2. FoldLeft(UpdateInput, a, seq) = it[1..N]
  <2>1. FoldLeft(UpdateInput, a, seq) =
          LET iter[s \in SUBSET DOMAIN seq] ==
                IF s = {} THEN a ELSE UpdateInput(iter[s \ {Max(s)}], seq[Max(s)])
          IN  iter[DOMAIN seq]
    BY Zenon DEF FoldLeft, MapThenFoldSet
  <2> HIDE DEF N
  <2> QED BY <1>1, <2>1, Zenon
<1> HIDE DEF N
<1>3. F \in [1..N -> [S -> S]] /\ \A n \in 1..N : \A x \in S : F[n][x] = UpdateInput(x, seq[n])
  BY <1>1, Zenon
<1>4. \E g : g = Fix(g)
  <2> HIDE DEF F
  <2>1. PICK g \in [SUBSET (1..N) -> S] : FoldOf(g, a, N, F)
    BY <1>1, <1>3, FoldExists
  <2>2. ASSUME NEW s \in SUBSET (1..N), s # {}
        PROVE  g[s] = UpdateInput(g[s \ {Max(s)}], seq[Max(s)])
    <3>1. Max(s) \in 1..N /\ s \ {Max(s)} \in SUBSET (1..N)
      BY <1>1, <2>2, MaxOf
    <3>2. g[s \ {Max(s)}] \in S
      BY <3>1
    <3>3. g[s] = F[Max(s)][g[s \ {Max(s)}]]
      BY <2>1, <2>2 DEF FoldOf
    <3> QED BY <1>3, <3>1, <3>2, <3>3, Zenon
  <2>3. g[{}] = a
    BY <2>1 DEF FoldOf
  <2>4. g = Fix(g)
    BY <2>2, <2>3, Zenon
  <2> HIDE DEF Fix
  <2> QED BY <2>4, Zenon
<1>5. it = Fix(it)
  <2> HIDE DEF Fix
  <2> QED BY <1>4, Zenon
<1> HIDE DEF it
<1>6. it[{}] = a
  BY <1>5, Zenon
<1>7. ASSUME NEW n \in 1..N PROVE it[1..n] = UpdateInput(it[1..n - 1], seq[n])
  <2>1. /\ Max(1..n) = n /\ (1..n) \ {Max(1..n)} = 1..n - 1
        /\ 1..n # {} /\ 1..n \in SUBSET (1..N)
    BY <1>1, MaxOfAll, Zenon
  <2> QED BY <1>5, <2>1, Zenon
<1>8. Stepwise(it, S, a, N, F)
  BY <1>3, <1>6, <1>7, Zenon DEF Stepwise
<1> HIDE DEF F
<1>9. PICK r \in [0..N -> S] :
         r[0] = a /\ (\A n \in 1..N : r[n] = F[n][r[n - 1]]) /\ r[N] = it[1..N]
  <2>1. RunTo(it[1..N], S, a, N, F)
    BY <1>1, <1>3, <1>8, PrefixRun, Zenon
  <2> QED BY <2>1 DEF RunTo
<1>10. \A n \in 1..N : r[n - 1] \in S
  BY <1>1
<1>11. \A n \in 1..N : r[n] = UpdateInput(r[n - 1], seq[n])
  BY <1>3, <1>9, <1>10, Zenon
<1> QED BY <1>2, <1>9, <1>11, Zenon DEF N, UpdateInputRuns

UpdateTxnRuns(S, a, seq) ==
    \E r \in [0..Len(seq) -> S] :
        /\ r[0] = a /\ \A n \in 1..Len(seq) : r[n] = UpdateTxn(r[n - 1], seq[n])
        /\ FoldLeft(UpdateTxn, a, seq) = r[Len(seq)]

\* The transactions of a block, in Update.
LEMMA UpdateTxnRun ==
    ASSUME NEW S, NEW E, NEW a \in S, NEW seq \in Seq(E),
           \A x \in S : \A e \in E : UpdateTxn(x, e) \in S
    PROVE  UpdateTxnRuns(S, a, seq)
<1> DEFINE N == Len(seq)
           Fix(g) == [s \in SUBSET (1..N) |->
                         IF s = {} THEN a ELSE UpdateTxn(g[s \ {Max(s)}], seq[Max(s)])]
           it == CHOOSE g : g = Fix(g)
           F == [n \in 1..N |-> [x \in S |-> UpdateTxn(x, seq[n])]]
<1>1. N \in Nat /\ DOMAIN seq = 1..N /\ \A n \in 1..N : seq[n] \in E
  OBVIOUS
<1>2. FoldLeft(UpdateTxn, a, seq) = it[1..N]
  <2>1. FoldLeft(UpdateTxn, a, seq) =
          LET iter[s \in SUBSET DOMAIN seq] ==
                IF s = {} THEN a ELSE UpdateTxn(iter[s \ {Max(s)}], seq[Max(s)])
          IN  iter[DOMAIN seq]
    BY Zenon DEF FoldLeft, MapThenFoldSet
  <2> HIDE DEF N
  <2> QED BY <1>1, <2>1, Zenon
<1> HIDE DEF N
<1>3. F \in [1..N -> [S -> S]] /\ \A n \in 1..N : \A x \in S : F[n][x] = UpdateTxn(x, seq[n])
  BY <1>1, Zenon
<1>4. \E g : g = Fix(g)
  <2> HIDE DEF F
  <2>1. PICK g \in [SUBSET (1..N) -> S] : FoldOf(g, a, N, F)
    BY <1>1, <1>3, FoldExists
  <2>2. ASSUME NEW s \in SUBSET (1..N), s # {}
        PROVE  g[s] = UpdateTxn(g[s \ {Max(s)}], seq[Max(s)])
    <3>1. Max(s) \in 1..N /\ s \ {Max(s)} \in SUBSET (1..N)
      BY <1>1, <2>2, MaxOf
    <3>2. g[s \ {Max(s)}] \in S
      BY <3>1
    <3>3. g[s] = F[Max(s)][g[s \ {Max(s)}]]
      BY <2>1, <2>2 DEF FoldOf
    <3> QED BY <1>3, <3>1, <3>2, <3>3, Zenon
  <2>3. g[{}] = a
    BY <2>1 DEF FoldOf
  <2>4. g = Fix(g)
    BY <2>2, <2>3, Zenon
  <2> HIDE DEF Fix
  <2> QED BY <2>4, Zenon
<1>5. it = Fix(it)
  <2> HIDE DEF Fix
  <2> QED BY <1>4, Zenon
<1> HIDE DEF it
<1>6. it[{}] = a
  BY <1>5, Zenon
<1>7. ASSUME NEW n \in 1..N PROVE it[1..n] = UpdateTxn(it[1..n - 1], seq[n])
  <2>1. /\ Max(1..n) = n /\ (1..n) \ {Max(1..n)} = 1..n - 1
        /\ 1..n # {} /\ 1..n \in SUBSET (1..N)
    BY <1>1, MaxOfAll, Zenon
  <2> QED BY <1>5, <2>1, Zenon
<1>8. Stepwise(it, S, a, N, F)
  BY <1>3, <1>6, <1>7, Zenon DEF Stepwise
<1> HIDE DEF F
<1>9. PICK r \in [0..N -> S] :
         r[0] = a /\ (\A n \in 1..N : r[n] = F[n][r[n - 1]]) /\ r[N] = it[1..N]
  <2>1. RunTo(it[1..N], S, a, N, F)
    BY <1>1, <1>3, <1>8, PrefixRun, Zenon
  <2> QED BY <2>1 DEF RunTo
<1>10. \A n \in 1..N : r[n - 1] \in S
  BY <1>1
<1>11. \A n \in 1..N : r[n] = UpdateTxn(r[n - 1], seq[n])
  BY <1>3, <1>9, <1>10, Zenon
<1> QED BY <1>2, <1>9, <1>11, Zenon DEF N, UpdateTxnRuns

FindTxnOutputsRuns(S, a, seq) ==
    \E r \in [0..Len(seq) -> S] :
        /\ r[0] = a /\ \A n \in 1..Len(seq) : r[n] = FindTxnOutputs(r[n - 1], seq[n])
        /\ FoldLeft(FindTxnOutputs, a, seq) = r[Len(seq)]

\* The transactions of a chain, in FindUTXO.
LEMMA FindTxnOutputsRun ==
    ASSUME NEW S, NEW E, NEW a \in S, NEW seq \in Seq(E),
           \A x \in S : \A e \in E : FindTxnOutputs(x, e) \in S
    PROVE  FindTxnOutputsRuns(S, a, seq)
<1> DEFINE N == Len(seq)
           Fix(g) == [s \in SUBSET (1..N) |->
                         IF s = {} THEN a ELSE FindTxnOutputs(g[s \ {Max(s)}], seq[Max(s)])]
           it == CHOOSE g : g = Fix(g)
           F == [n \in 1..N |-> [x \in S |-> FindTxnOutputs(x, seq[n])]]
<1>1. N \in Nat /\ DOMAIN seq = 1..N /\ \A n \in 1..N : seq[n] \in E
  OBVIOUS
<1>2. FoldLeft(FindTxnOutputs, a, seq) = it[1..N]
  <2>1. FoldLeft(FindTxnOutputs, a, seq) =
          LET iter[s \in SUBSET DOMAIN seq] ==
                IF s = {} THEN a ELSE FindTxnOutputs(iter[s \ {Max(s)}], seq[Max(s)])
          IN  iter[DOMAIN seq]
    BY Zenon DEF FoldLeft, MapThenFoldSet
  <2> HIDE DEF N
  <2> QED BY <1>1, <2>1, Zenon
<1> HIDE DEF N
<1>3. F \in [1..N -> [S -> S]] /\ \A n \in 1..N : \A x \in S : F[n][x] = FindTxnOutputs(x, seq[n])
  BY <1>1, Zenon
<1>4. \E g : g = Fix(g)
  <2> HIDE DEF F
  <2>1. PICK g \in [SUBSET (1..N) -> S] : FoldOf(g, a, N, F)
    BY <1>1, <1>3, FoldExists
  <2>2. ASSUME NEW s \in SUBSET (1..N), s # {}
        PROVE  g[s] = FindTxnOutputs(g[s \ {Max(s)}], seq[Max(s)])
    <3>1. Max(s) \in 1..N /\ s \ {Max(s)} \in SUBSET (1..N)
      BY <1>1, <2>2, MaxOf
    <3>2. g[s \ {Max(s)}] \in S
      BY <3>1
    <3>3. g[s] = F[Max(s)][g[s \ {Max(s)}]]
      BY <2>1, <2>2 DEF FoldOf
    <3> QED BY <1>3, <3>1, <3>2, <3>3, Zenon
  <2>3. g[{}] = a
    BY <2>1 DEF FoldOf
  <2>4. g = Fix(g)
    BY <2>2, <2>3, Zenon
  <2> HIDE DEF Fix
  <2> QED BY <2>4, Zenon
<1>5. it = Fix(it)
  <2> HIDE DEF Fix
  <2> QED BY <1>4, Zenon
<1> HIDE DEF it
<1>6. it[{}] = a
  BY <1>5, Zenon
<1>7. ASSUME NEW n \in 1..N PROVE it[1..n] = FindTxnOutputs(it[1..n - 1], seq[n])
  <2>1. /\ Max(1..n) = n /\ (1..n) \ {Max(1..n)} = 1..n - 1
        /\ 1..n # {} /\ 1..n \in SUBSET (1..N)
    BY <1>1, MaxOfAll, Zenon
  <2> QED BY <1>5, <2>1, Zenon
<1>8. Stepwise(it, S, a, N, F)
  BY <1>3, <1>6, <1>7, Zenon DEF Stepwise
<1> HIDE DEF F
<1>9. PICK r \in [0..N -> S] :
         r[0] = a /\ (\A n \in 1..N : r[n] = F[n][r[n - 1]]) /\ r[N] = it[1..N]
  <2>1. RunTo(it[1..N], S, a, N, F)
    BY <1>1, <1>3, <1>8, PrefixRun, Zenon
  <2> QED BY <2>1 DEF RunTo
<1>10. \A n \in 1..N : r[n - 1] \in S
  BY <1>1
<1>11. \A n \in 1..N : r[n] = FindTxnOutputs(r[n - 1], seq[n])
  BY <1>3, <1>9, <1>10, Zenon
<1> QED BY <1>2, <1>9, <1>11, Zenon DEF N, FindTxnOutputsRuns

ReverseInputRuns(S, a, seq) ==
    \E r \in [0..Len(seq) -> S] :
        /\ r[0] = a /\ \A n \in 1..Len(seq) : r[n] = ReverseInput(r[n - 1], seq[n])
        /\ FoldLeft(ReverseInput, a, seq) = r[Len(seq)]

\* The inputs of a transaction, in ReverseTxn.
LEMMA ReverseInputRun ==
    ASSUME NEW S, NEW E, NEW a \in S, NEW seq \in Seq(E),
           \A x \in S : \A e \in E : ReverseInput(x, e) \in S
    PROVE  ReverseInputRuns(S, a, seq)
<1> DEFINE N == Len(seq)
           Fix(g) == [s \in SUBSET (1..N) |->
                         IF s = {} THEN a ELSE ReverseInput(g[s \ {Max(s)}], seq[Max(s)])]
           it == CHOOSE g : g = Fix(g)
           F == [n \in 1..N |-> [x \in S |-> ReverseInput(x, seq[n])]]
<1>1. N \in Nat /\ DOMAIN seq = 1..N /\ \A n \in 1..N : seq[n] \in E
  OBVIOUS
<1>2. FoldLeft(ReverseInput, a, seq) = it[1..N]
  <2>1. FoldLeft(ReverseInput, a, seq) =
          LET iter[s \in SUBSET DOMAIN seq] ==
                IF s = {} THEN a ELSE ReverseInput(iter[s \ {Max(s)}], seq[Max(s)])
          IN  iter[DOMAIN seq]
    BY Zenon DEF FoldLeft, MapThenFoldSet
  <2> HIDE DEF N
  <2> QED BY <1>1, <2>1, Zenon
<1> HIDE DEF N
<1>3. F \in [1..N -> [S -> S]] /\ \A n \in 1..N : \A x \in S : F[n][x] = ReverseInput(x, seq[n])
  BY <1>1, Zenon
<1>4. \E g : g = Fix(g)
  <2> HIDE DEF F
  <2>1. PICK g \in [SUBSET (1..N) -> S] : FoldOf(g, a, N, F)
    BY <1>1, <1>3, FoldExists
  <2>2. ASSUME NEW s \in SUBSET (1..N), s # {}
        PROVE  g[s] = ReverseInput(g[s \ {Max(s)}], seq[Max(s)])
    <3>1. Max(s) \in 1..N /\ s \ {Max(s)} \in SUBSET (1..N)
      BY <1>1, <2>2, MaxOf
    <3>2. g[s \ {Max(s)}] \in S
      BY <3>1
    <3>3. g[s] = F[Max(s)][g[s \ {Max(s)}]]
      BY <2>1, <2>2 DEF FoldOf
    <3> QED BY <1>3, <3>1, <3>2, <3>3, Zenon
  <2>3. g[{}] = a
    BY <2>1 DEF FoldOf
  <2>4. g = Fix(g)
    BY <2>2, <2>3, Zenon
  <2> HIDE DEF Fix
  <2> QED BY <2>4, Zenon
<1>5. it = Fix(it)
  <2> HIDE DEF Fix
  <2> QED BY <1>4, Zenon
<1> HIDE DEF it
<1>6. it[{}] = a
  BY <1>5, Zenon
<1>7. ASSUME NEW n \in 1..N PROVE it[1..n] = ReverseInput(it[1..n - 1], seq[n])
  <2>1. /\ Max(1..n) = n /\ (1..n) \ {Max(1..n)} = 1..n - 1
        /\ 1..n # {} /\ 1..n \in SUBSET (1..N)
    BY <1>1, MaxOfAll, Zenon
  <2> QED BY <1>5, <2>1, Zenon
<1>8. Stepwise(it, S, a, N, F)
  BY <1>3, <1>6, <1>7, Zenon DEF Stepwise
<1> HIDE DEF F
<1>9. PICK r \in [0..N -> S] :
         r[0] = a /\ (\A n \in 1..N : r[n] = F[n][r[n - 1]]) /\ r[N] = it[1..N]
  <2>1. RunTo(it[1..N], S, a, N, F)
    BY <1>1, <1>3, <1>8, PrefixRun, Zenon
  <2> QED BY <2>1 DEF RunTo
<1>10. \A n \in 1..N : r[n - 1] \in S
  BY <1>1
<1>11. \A n \in 1..N : r[n] = ReverseInput(r[n - 1], seq[n])
  BY <1>3, <1>9, <1>10, Zenon
<1> QED BY <1>2, <1>9, <1>11, Zenon DEF N, ReverseInputRuns

ReverseTxnRuns(S, a, seq) ==
    \E r \in [0..Len(seq) -> S] :
        /\ r[0] = a /\ \A n \in 1..Len(seq) : r[n] = ReverseTxn(r[n - 1], seq[n])
        /\ FoldLeft(ReverseTxn, a, seq) = r[Len(seq)]

\* The transactions of the blocks that a reorganisation takes back.
LEMMA ReverseTxnRun ==
    ASSUME NEW S, NEW E, NEW a \in S, NEW seq \in Seq(E),
           \A x \in S : \A e \in E : ReverseTxn(x, e) \in S
    PROVE  ReverseTxnRuns(S, a, seq)
<1> DEFINE N == Len(seq)
           Fix(g) == [s \in SUBSET (1..N) |->
                         IF s = {} THEN a ELSE ReverseTxn(g[s \ {Max(s)}], seq[Max(s)])]
           it == CHOOSE g : g = Fix(g)
           F == [n \in 1..N |-> [x \in S |-> ReverseTxn(x, seq[n])]]
<1>1. N \in Nat /\ DOMAIN seq = 1..N /\ \A n \in 1..N : seq[n] \in E
  OBVIOUS
<1>2. FoldLeft(ReverseTxn, a, seq) = it[1..N]
  <2>1. FoldLeft(ReverseTxn, a, seq) =
          LET iter[s \in SUBSET DOMAIN seq] ==
                IF s = {} THEN a ELSE ReverseTxn(iter[s \ {Max(s)}], seq[Max(s)])
          IN  iter[DOMAIN seq]
    BY Zenon DEF FoldLeft, MapThenFoldSet
  <2> HIDE DEF N
  <2> QED BY <1>1, <2>1, Zenon
<1> HIDE DEF N
<1>3. F \in [1..N -> [S -> S]] /\ \A n \in 1..N : \A x \in S : F[n][x] = ReverseTxn(x, seq[n])
  BY <1>1, Zenon
<1>4. \E g : g = Fix(g)
  <2> HIDE DEF F
  <2>1. PICK g \in [SUBSET (1..N) -> S] : FoldOf(g, a, N, F)
    BY <1>1, <1>3, FoldExists
  <2>2. ASSUME NEW s \in SUBSET (1..N), s # {}
        PROVE  g[s] = ReverseTxn(g[s \ {Max(s)}], seq[Max(s)])
    <3>1. Max(s) \in 1..N /\ s \ {Max(s)} \in SUBSET (1..N)
      BY <1>1, <2>2, MaxOf
    <3>2. g[s \ {Max(s)}] \in S
      BY <3>1
    <3>3. g[s] = F[Max(s)][g[s \ {Max(s)}]]
      BY <2>1, <2>2 DEF FoldOf
    <3> QED BY <1>3, <3>1, <3>2, <3>3, Zenon
  <2>3. g[{}] = a
    BY <2>1 DEF FoldOf
  <2>4. g = Fix(g)
    BY <2>2, <2>3, Zenon
  <2> HIDE DEF Fix
  <2> QED BY <2>4, Zenon
<1>5. it = Fix(it)
  <2> HIDE DEF Fix
  <2> QED BY <1>4, Zenon
<1> HIDE DEF it
<1>6. it[{}] = a
  BY <1>5, Zenon
<1>7. ASSUME NEW n \in 1..N PROVE it[1..n] = ReverseTxn(it[1..n - 1], seq[n])
  <2>1. /\ Max(1..n) = n /\ (1..n) \ {Max(1..n)} = 1..n - 1
        /\ 1..n # {} /\ 1..n \in SUBSET (1..N)
    BY <1>1, MaxOfAll, Zenon
  <2> QED BY <1>5, <2>1, Zenon
<1>8. Stepwise(it, S, a, N, F)
  BY <1>3, <1>6, <1>7, Zenon DEF Stepwise
<1> HIDE DEF F
<1>9. PICK r \in [0..N -> S] :
         r[0] = a /\ (\A n \in 1..N : r[n] = F[n][r[n - 1]]) /\ r[N] = it[1..N]
  <2>1. RunTo(it[1..N], S, a, N, F)
    BY <1>1, <1>3, <1>8, PrefixRun, Zenon
  <2> QED BY <2>1 DEF RunTo
<1>10. \A n \in 1..N : r[n - 1] \in S
  BY <1>1
<1>11. \A n \in 1..N : r[n] = ReverseTxn(r[n - 1], seq[n])
  BY <1>3, <1>9, <1>10, Zenon
<1> QED BY <1>2, <1>9, <1>11, Zenon DEF N, ReverseTxnRuns

AddValueRuns(S, a, seq) ==
    \E r \in [0..Len(seq) -> S] :
        /\ r[0] = a /\ \A n \in 1..Len(seq) : r[n] = AddValue(r[n - 1], seq[n])
        /\ FoldLeft(AddValue, a, seq) = r[Len(seq)]

\* The coins of a sum.
LEMMA AddValueRun ==
    ASSUME NEW S, NEW E, NEW a \in S, NEW seq \in Seq(E),
           \A x \in S : \A e \in E : AddValue(x, e) \in S
    PROVE  AddValueRuns(S, a, seq)
<1> DEFINE N == Len(seq)
           Fix(g) == [s \in SUBSET (1..N) |->
                         IF s = {} THEN a ELSE AddValue(g[s \ {Max(s)}], seq[Max(s)])]
           it == CHOOSE g : g = Fix(g)
           F == [n \in 1..N |-> [x \in S |-> AddValue(x, seq[n])]]
<1>1. N \in Nat /\ DOMAIN seq = 1..N /\ \A n \in 1..N : seq[n] \in E
  OBVIOUS
<1>2. FoldLeft(AddValue, a, seq) = it[1..N]
  <2>1. FoldLeft(AddValue, a, seq) =
          LET iter[s \in SUBSET DOMAIN seq] ==
                IF s = {} THEN a ELSE AddValue(iter[s \ {Max(s)}], seq[Max(s)])
          IN  iter[DOMAIN seq]
    BY Zenon DEF FoldLeft, MapThenFoldSet
  <2> HIDE DEF N
  <2> QED BY <1>1, <2>1, Zenon
<1> HIDE DEF N
<1>3. F \in [1..N -> [S -> S]] /\ \A n \in 1..N : \A x \in S : F[n][x] = AddValue(x, seq[n])
  BY <1>1, Zenon
<1>4. \E g : g = Fix(g)
  <2> HIDE DEF F
  <2>1. PICK g \in [SUBSET (1..N) -> S] : FoldOf(g, a, N, F)
    BY <1>1, <1>3, FoldExists
  <2>2. ASSUME NEW s \in SUBSET (1..N), s # {}
        PROVE  g[s] = AddValue(g[s \ {Max(s)}], seq[Max(s)])
    <3>1. Max(s) \in 1..N /\ s \ {Max(s)} \in SUBSET (1..N)
      BY <1>1, <2>2, MaxOf
    <3>2. g[s \ {Max(s)}] \in S
      BY <3>1
    <3>3. g[s] = F[Max(s)][g[s \ {Max(s)}]]
      BY <2>1, <2>2 DEF FoldOf
    <3> QED BY <1>3, <3>1, <3>2, <3>3, Zenon
  <2>3. g[{}] = a
    BY <2>1 DEF FoldOf
  <2>4. g = Fix(g)
    BY <2>2, <2>3, Zenon
  <2> HIDE DEF Fix
  <2> QED BY <2>4, Zenon
<1>5. it = Fix(it)
  <2> HIDE DEF Fix
  <2> QED BY <1>4, Zenon
<1> HIDE DEF it
<1>6. it[{}] = a
  BY <1>5, Zenon
<1>7. ASSUME NEW n \in 1..N PROVE it[1..n] = AddValue(it[1..n - 1], seq[n])
  <2>1. /\ Max(1..n) = n /\ (1..n) \ {Max(1..n)} = 1..n - 1
        /\ 1..n # {} /\ 1..n \in SUBSET (1..N)
    BY <1>1, MaxOfAll, Zenon
  <2> QED BY <1>5, <2>1, Zenon
<1>8. Stepwise(it, S, a, N, F)
  BY <1>3, <1>6, <1>7, Zenon DEF Stepwise
<1> HIDE DEF F
<1>9. PICK r \in [0..N -> S] :
         r[0] = a /\ (\A n \in 1..N : r[n] = F[n][r[n - 1]]) /\ r[N] = it[1..N]
  <2>1. RunTo(it[1..N], S, a, N, F)
    BY <1>1, <1>3, <1>8, PrefixRun, Zenon
  <2> QED BY <2>1 DEF RunTo
<1>10. \A n \in 1..N : r[n - 1] \in S
  BY <1>1
<1>11. \A n \in 1..N : r[n] = AddValue(r[n - 1], seq[n])
  BY <1>3, <1>9, <1>10, Zenon
<1> QED BY <1>2, <1>9, <1>11, Zenon DEF N, AddValueRuns

-----------------------------------------------------------------------------
(* Sequences of sequences *)

\* The parts that FlattenSeq has put together after n rounds.
FlatRun(s, S, f) ==
    /\ f \in [0..Len(s) -> Seq(S)] /\ f[0] = <<>>
    /\ \A n \in 1..Len(s) : f[n] = f[n - 1] \o s[n]

\* FlattenSeq joins one sequence after the other.
LEMMA FlattenRun ==
    ASSUME NEW S, NEW s \in Seq(Seq(S))
    PROVE  \E f : FlatRun(s, S, f) /\ FlattenSeq(s) = f[Len(s)]
<1> DEFINE N == Len(s)
           Fix(f) == [i \in 1..N |-> IF i = 1 THEN s[i] ELSE f[i - 1] \o s[i]]
           flatten == CHOOSE f : f = Fix(f)
           F == [n \in 1..N |-> [x \in Seq(S) |-> x \o s[n]]]
<1>1. N \in Nat /\ DOMAIN s = 1..N /\ \A n \in 1..N : s[n] \in Seq(S)
  OBVIOUS
<1>2. <<>> \in Seq(S) /\ \A n \in 1..N : \A x \in Seq(S) : x \o s[n] \in Seq(S)
  <2>1. <<>> \in Seq(S)
    OBVIOUS
  <2> QED BY <1>1, <2>1, ConcatProperties, Zenon
<1>3. F \in [1..N -> [Seq(S) -> Seq(S)]]
  BY <1>2, Zenon
<1> HIDE DEF N
<1>4. PICK e \in [0..N -> Seq(S)] : e[0] = <<>> /\ \A n \in 1..N : e[n] = F[n][e[n - 1]]
  <2> HIDE DEF F
  <2>1. HasRun(Seq(S), <<>>, N, F)
    BY <1>1, <1>2, <1>3, Recursion, Zenon
  <2> QED BY <2>1 DEF HasRun
<1>5. \A n \in 1..N : e[n - 1] \in Seq(S)
  BY <1>1
<1>6. \A n \in 1..N : e[n] = e[n - 1] \o s[n]
  BY <1>4, <1>5, Zenon
<1>7. FlatRun(s, S, e)
  BY <1>4, <1>6 DEF FlatRun, N
<1>8. CASE N = 0
  <2>1. s = <<>>
    BY <1>8 DEF N
  <2>2. FlattenSeq(s) = s
    BY <1>8 DEF FlattenSeq, N
  <2>3. e[N] = <<>>
    BY <1>4, <1>8
  <2> QED BY <1>7, <2>1, <2>2, <2>3 DEF N
<1>9. CASE N # 0
  <2>1. FlattenSeq(s) = flatten[N]
    BY <1>9, Zenon DEF FlattenSeq, N
  <2> DEFINE f == [n \in 1..N |-> e[n]]
  <2>2. 1 \in 1..N /\ 1 - 1 = 0
    BY <1>1, <1>9
  <2>3. f[1] = s[1]
    <3>1. e[1] = <<>> \o s[1]
      BY <1>4, <1>6, <2>2
    <3> QED BY <1>1, <2>2, <3>1
  <2>4. ASSUME NEW n \in 1..N, n # 1 PROVE f[n] = f[n - 1] \o s[n]
    <3>1. n - 1 \in 1..N
      BY <1>1, <2>4
    <3> QED BY <1>6, <3>1, Zenon
  <2>5. \A n \in 1..N : f[n] = IF n = 1 THEN s[n] ELSE f[n - 1] \o s[n]
    <3> HIDE DEF f
    <3> QED BY <2>3, <2>4, Zenon
  <2>6. f = Fix(f)
    BY <2>5, Zenon
  <2>7. flatten = Fix(flatten)
    <3> HIDE DEF f, Fix
    <3> QED BY <2>6, Zenon
  <2> HIDE DEF f, flatten
  <2>8. \A n \in 1..N : flatten[n] = IF n = 1 THEN s[n] ELSE flatten[n - 1] \o s[n]
    BY <2>7, Zenon
  <2> DEFINE M == {n \in Nat : n + 1 <= N => flatten[n + 1] = e[n + 1]}
  <2>9. 0 \in M
    <3>1. e[1] = s[1] /\ flatten[1] = s[1]
      BY <2>2, <2>3, <2>8 DEF f
    <3> QED BY <3>1
  <2>10. ASSUME NEW n \in Nat, n \in M PROVE n + 1 \in M
    <3> SUFFICES ASSUME (n + 1) + 1 <= N PROVE flatten[(n + 1) + 1] = e[(n + 1) + 1]
      OBVIOUS
    <3> DEFINE m == (n + 1) + 1
    <3>1. m \in 1..N /\ m # 1 /\ m - 1 = n + 1 /\ n + 1 <= N
      BY <1>1
    <3> HIDE DEF m
    <3>2. flatten[m - 1] = e[m - 1]
      BY <2>10, <3>1
    <3>3. flatten[m] = flatten[m - 1] \o s[m] /\ e[m] = e[m - 1] \o s[m]
      BY <1>6, <2>8, <3>1, Zenon
    <3>4. flatten[m] = e[m]
      BY <3>2, <3>3, Zenon
    <3> QED BY <3>4 DEF m
  <2> HIDE DEF M
  <2>11. Nat \subseteq M
    BY <2>9, <2>10, SetInduction, Zenon
  <2>12. flatten[N] = e[N]
    <3>1. N - 1 \in Nat /\ (N - 1) + 1 = N
      BY <1>1, <1>9
    <3>2. N - 1 \in M
      BY <2>11, <3>1
    <3>3. (N - 1) + 1 <= N => flatten[(N - 1) + 1] = e[(N - 1) + 1]
      BY <3>2 DEF M
    <3> QED BY <1>1, <3>1, <3>3
  <2> QED BY <1>7, <2>1, <2>12 DEF N
<1> QED BY <1>8, <1>9

\* The elements of two sequences joined.
LEMMA ConcatSet ==
    ASSUME NEW S, NEW p \in Seq(S), NEW q \in Seq(S)
    PROVE  p \o q \in Seq(S) /\ ToSet(p \o q) = ToSet(p) \cup ToSet(q)
<1> DEFINE c == p \o q
<1>1. /\ c \in Seq(S) /\ Len(p) \in Nat /\ Len(q) \in Nat /\ DOMAIN p = 1..Len(p)
      /\ DOMAIN q = 1..Len(q) /\ DOMAIN c = 1..Len(p) + Len(q)
      /\ \A i \in 1..Len(p) : c[i] = p[i]
      /\ \A i \in 1..Len(q) : c[Len(p) + i] = q[i]
  OBVIOUS
<1> HIDE DEF c
<1>2. \A i \in DOMAIN c : (i \in DOMAIN p /\ c[i] = p[i])
                           \/ (i - Len(p) \in DOMAIN q /\ c[i] = q[i - Len(p)])
  <2> SUFFICES ASSUME NEW i \in DOMAIN c, i \notin DOMAIN p
               PROVE  i - Len(p) \in DOMAIN q /\ c[i] = q[i - Len(p)]
    BY <1>1
  <2>1. i - Len(p) \in 1..Len(q) /\ Len(p) + (i - Len(p)) = i
    BY <1>1
  <2> QED BY <1>1, <2>1
<1>3. \A i \in DOMAIN p : i \in DOMAIN c /\ c[i] = p[i]
  BY <1>1
<1>4. \A i \in DOMAIN q : Len(p) + i \in DOMAIN c /\ c[Len(p) + i] = q[i]
  BY <1>1
<1>5. ASSUME NEW x \in ToSet(c) PROVE x \in ToSet(p) \cup ToSet(q)
  BY <1>2, <1>5 DEF ToSet
<1>6. ASSUME NEW x \in ToSet(p) \cup ToSet(q) PROVE x \in ToSet(c)
  BY <1>3, <1>4, <1>6 DEF ToSet
<1> QED BY <1>1, <1>5, <1>6 DEF c

\* The elements of a sequence of sequences.
LEMMA FlattenFacts ==
    ASSUME NEW S, NEW s \in Seq(Seq(S))
    PROVE  /\ FlattenSeq(s) \in Seq(S)
           /\ ToSet(FlattenSeq(s)) = UNION {ToSet(s[i]) : i \in DOMAIN s}
<1> DEFINE N == Len(s)
<1>1. N \in Nat /\ DOMAIN s = 1..N /\ \A n \in 1..N : s[n] \in Seq(S)
  OBVIOUS
<1>2. PICK f : FlatRun(s, S, f) /\ FlattenSeq(s) = f[N]
  BY FlattenRun
<1>3. f[0] = <<>> /\ (\A n \in 0..N : f[n] \in Seq(S)) /\ \A n \in 1..N : f[n] = f[n - 1] \o s[n]
  BY <1>2 DEF FlatRun
<1> DEFINE Of(n) == UNION {ToSet(s[i]) : i \in 1..n}
           M == {n \in Nat : n <= N => ToSet(f[n]) = Of(n)}
<1> HIDE DEF N
<1>4. 0 \in M
  <2>1. 1..0 = {} /\ DOMAIN <<>> = {}
    OBVIOUS
  <2>2. ToSet(<<>>) = {} /\ Of(0) = {}
    BY <2>1 DEF ToSet
  <2> QED BY <1>3, <2>2
<1>5. ASSUME NEW n \in Nat, n \in M PROVE n + 1 \in M
  <2> SUFFICES ASSUME n + 1 <= N PROVE ToSet(f[n + 1]) = Of(n + 1)
    OBVIOUS
  <2>1. n + 1 \in 1..N /\ (n + 1) - 1 = n /\ n <= N /\ n \in 0..N
    BY <1>1
  <2>2. f[n + 1] = f[n] \o s[n + 1]
    BY <1>3, <2>1
  <2>3. f[n] \in Seq(S) /\ s[n + 1] \in Seq(S) /\ ToSet(f[n]) = Of(n)
    BY <1>1, <1>3, <1>5, <2>1
  <2>4. ToSet(f[n + 1]) = Of(n) \cup ToSet(s[n + 1])
    BY <2>2, <2>3, ConcatSet
  <2>5. 1..n + 1 = (1..n) \cup {n + 1}
    OBVIOUS
  <2>6. Of(n + 1) = Of(n) \cup ToSet(s[n + 1])
    BY <2>5, Zenon
  <2> QED BY <2>4, <2>6
<1> HIDE DEF M
<1>6. Nat \subseteq M
  BY <1>4, <1>5, SetInduction, Zenon
<1>7. ToSet(f[N]) = Of(N) /\ N \in 0..N
  <2>1. N \in M /\ N <= N /\ N \in 0..N
    BY <1>1, <1>6
  <2> QED BY <2>1, Zenon DEF M
<1> QED BY <1>1, <1>2, <1>3, <1>7

\* One part and two parts.
LEMMA FlattenFew ==
    ASSUME NEW S, NEW s \in Seq(Seq(S))
    PROVE  /\ Len(s) = 1 => FlattenSeq(s) = s[1]
           /\ Len(s) = 2 => FlattenSeq(s) = s[1] \o s[2]
<1>1. PICK f : FlatRun(s, S, f) /\ FlattenSeq(s) = f[Len(s)]
  BY FlattenRun
<1>2. Len(s) # 0 => s[1] \in Seq(S)
  OBVIOUS
<1>3. Len(s) \in {1, 2} => f[1] = s[1]
  <2> SUFFICES ASSUME Len(s) \in {1, 2} PROVE f[1] = s[1]
    OBVIOUS
  <2>1. 1 \in 1..Len(s) /\ 1 - 1 = 0
    OBVIOUS
  <2>2. f[1] = <<>> \o s[1]
    BY <1>1, <2>1 DEF FlatRun
  <2> QED BY <1>2, <2>2
<1>4. Len(s) = 2 => f[2] = f[1] \o s[2]
  <2> SUFFICES ASSUME Len(s) = 2 PROVE f[2] = f[1] \o s[2]
    OBVIOUS
  <2>1. 2 \in 1..Len(s) /\ 2 - 1 = 1
    OBVIOUS
  <2> QED BY <1>1, <2>1 DEF FlatRun
<1> QED BY <1>1, <1>3, <1>4

\* A sequence read backwards has the same elements.
LEMMA ReverseSet ==
    ASSUME NEW S, NEW s \in Seq(S)
    PROVE  Reverse(s) \in Seq(S) /\ Len(Reverse(s)) = Len(s) /\ ToSet(Reverse(s)) = ToSet(s)
<1> DEFINE r == Reverse(s)
           n == Len(s)
<1>1. n \in Nat /\ DOMAIN s = 1..n /\ \A i \in 1..n : s[i] \in S
  OBVIOUS
<1>2. r = [i \in 1..n |-> s[(n - i) + 1]]
  BY DEF Reverse
<1> HIDE DEF r, n
<1>3. \A i \in 1..n : (n - i) + 1 \in 1..n /\ (n - ((n - i) + 1)) + 1 = i
  BY <1>1
<1>4. r \in Seq(S) /\ Len(r) = n /\ DOMAIN r = 1..n
  <2>1. r \in [1..n -> S]
    BY <1>1, <1>2, <1>3, Zenon
  <2> QED BY <1>1, <2>1
<1>5. ASSUME NEW x \in ToSet(r) PROVE x \in ToSet(s)
  BY <1>1, <1>2, <1>3, <1>4, <1>5, Zenon DEF ToSet
<1>6. ASSUME NEW x \in ToSet(s) PROVE x \in ToSet(r)
  <2>1. PICK i \in 1..n : x = s[i]
    BY <1>1, <1>6 DEF ToSet
  <2>2. r[(n - i) + 1] = s[i]
    BY <1>2, <1>3, <2>1
  <2> QED BY <1>3, <1>4, <2>1, <2>2, Zenon DEF ToSet
<1> QED BY <1>4, <1>5, <1>6 DEF r, n

-----------------------------------------------------------------------------
(* Chains and blocks *)

\* No transaction is in two blocks.
Disjoint(c) == \A i, j \in DOMAIN c : i # j => ToSet(c[i]) \cap ToSet(c[j]) = {}

\* The constants are numbers.
LEMMA ConstFacts ==
    /\ Len(Miners) \in Nat \ {0} /\ MaxSent \in Nat
    /\ PackLimit \in Nat \ {0} /\ MaxReorg \in Nat
BY LedgerAssumption

\* Sequences over a larger set, and an initial part of a sequence.
LEMMA SeqMonotone ==
    ASSUME NEW S, NEW T, S \subseteq T, NEW s \in Seq(S)
    PROVE  s \in Seq(T)
OBVIOUS

\* An initial part of a sequence.
LEMMA Initial ==
    ASSUME NEW S, NEW s \in Seq(S), NEW m \in Nat, m <= Len(s)
    PROVE  /\ SubSeq(s, 1, m) \in Seq(S) /\ DOMAIN SubSeq(s, 1, m) = 1..m
           /\ \A i \in 1..m : SubSeq(s, 1, m)[i] = s[i]
OBVIOUS

\* A block after the others.
LEMMA ConfirmedAppend ==
    ASSUME NEW c \in Seq(Seq(Id)), NEW b \in Seq(Id)
    PROVE  /\ Append(c, b) \in Seq(Seq(Id))
           /\ Confirmed(Append(c, b)) = Confirmed(c) \cup ToSet(b)
           /\ Disjoint(c) /\ ToSet(b) \cap Confirmed(c) = {} => Disjoint(Append(c, b))
<1> DEFINE d == Append(c, b)
           n == Len(c)
<1>1. /\ n \in Nat /\ d \in Seq(Seq(Id)) /\ DOMAIN c = 1..n /\ DOMAIN d = 1..n + 1
      /\ d[n + 1] = b /\ \A i \in 1..n : d[i] = c[i]
  OBVIOUS
<1> HIDE DEF d, n
<1>2. \A i \in DOMAIN d : (i \in DOMAIN c /\ d[i] = c[i]) \/ (i = n + 1 /\ d[i] = b)
  BY <1>1
<1>3. n + 1 \in DOMAIN d /\ \A i \in DOMAIN c : i \in DOMAIN d /\ d[i] = c[i]
  BY <1>1
<1>4. Confirmed(d) = Confirmed(c) \cup ToSet(b)
  <2>1. ASSUME NEW t \in Confirmed(d) PROVE t \in Confirmed(c) \cup ToSet(b)
    BY <1>2, <2>1, Zenon DEF Confirmed
  <2>2. ASSUME NEW t \in Confirmed(c) PROVE t \in Confirmed(d)
    BY <1>3, <2>2, Zenon DEF Confirmed
  <2>3. ASSUME NEW t \in ToSet(b) PROVE t \in Confirmed(d)
    BY <1>1, <1>3, <2>3, Zenon DEF Confirmed
  <2> QED BY <2>1, <2>2, <2>3
<1>5. ASSUME Disjoint(c), ToSet(b) \cap Confirmed(c) = {} PROVE Disjoint(d)
  <2>1. \A i \in DOMAIN c : ToSet(c[i]) \cap ToSet(b) = {}
    BY <1>5 DEF Confirmed
  <2> QED BY <1>2, <1>5, <2>1, Zenon DEF Disjoint
<1> QED BY <1>1, <1>4, <1>5 DEF d

\* A chain in two parts.
LEMMA ConfirmedSplit ==
    ASSUME NEW c \in Seq(Seq(Id)), NEW m \in Nat, m <= Len(c), Disjoint(c)
    PROVE  /\ SubSeq(c, 1, m) \in Seq(Seq(Id))
           /\ Disjoint(SubSeq(c, 1, m))
           /\ Confirmed(SubSeq(c, 1, m)) = Confirmed(c) \ Confirmed(SubSeq(c, m + 1, Len(c)))
<1> DEFINE n == Len(c)
           d == SubSeq(c, 1, m)
           e == SubSeq(c, m + 1, Len(c))
<1>1. n \in Nat /\ m <= n /\ DOMAIN c = 1..n /\ \A i \in 1..n : c[i] \in Seq(Id)
  OBVIOUS
<1>2. d \in Seq(Seq(Id)) /\ DOMAIN d = 1..m /\ \A i \in 1..m : d[i] = c[i]
  OBVIOUS
<1>3. DOMAIN e = 1..n - m /\ \A i \in 1..n - m : e[i] = c[m + i]
  OBVIOUS
<1> HIDE DEF n, d, e
<1>4. \A i \in DOMAIN d : i \in DOMAIN c /\ d[i] = c[i]
  BY <1>1, <1>2
<1>5. \A i \in DOMAIN e : m + i \in DOMAIN c /\ m + i \notin DOMAIN d /\ e[i] = c[m + i]
  BY <1>1, <1>2, <1>3
<1>6. \A i \in DOMAIN c : i \in DOMAIN d \/ (i - m \in DOMAIN e /\ e[i - m] = c[i])
  BY <1>1, <1>2, <1>3
<1>7. Disjoint(d)
  BY <1>4, Zenon DEF Disjoint
<1>8. ASSUME NEW t \in Confirmed(d) PROVE t \in Confirmed(c) /\ t \notin Confirmed(e)
  <2>1. PICK i \in DOMAIN d : t \in ToSet(c[i]) /\ i \in DOMAIN c
    BY <1>4, <1>8, Zenon DEF Confirmed
  <2>2. t \in Confirmed(c)
    BY <2>1, Zenon DEF Confirmed
  <2>3. ASSUME NEW j \in DOMAIN e, t \in ToSet(e[j]) PROVE FALSE
    BY <1>5, <2>1, <2>3 DEF Disjoint
  <2> QED BY <2>2, <2>3, Zenon DEF Confirmed
<1>9. ASSUME NEW t \in Confirmed(c), t \notin Confirmed(e) PROVE t \in Confirmed(d)
  <2>1. PICK i \in DOMAIN c : t \in ToSet(c[i])
    BY <1>9, Zenon DEF Confirmed
  <2>2. i \in DOMAIN d
    BY <1>6, <1>9, <2>1, Zenon DEF Confirmed
  <2> QED BY <1>4, <2>1, <2>2, Zenon DEF Confirmed
<1> QED BY <1>2, <1>7, <1>8, <1>9 DEF d, e, n

\* A block is a coinbase and transactions.
LEMMA BlockOf ==
    ASSUME NEW c \in Id, NEW ts \in Seq(Id)
    PROVE  <<c>> \o ts \in Seq(Id) /\ ToSet(<<c>> \o ts) = {c} \cup ToSet(ts)
<1> DEFINE b == <<c>> \o ts
           n == Len(ts)
<1>1. n \in Nat /\ DOMAIN ts = 1..n /\ b \in Seq(Id) /\ DOMAIN b = 1..n + 1
      /\ b[1] = c /\ \A i \in 1..n : b[i + 1] = ts[i]
  OBVIOUS
<1> HIDE DEF b, n
<1>2. 1 \in DOMAIN b /\ \A i \in DOMAIN ts : i + 1 \in DOMAIN b /\ b[i + 1] = ts[i]
  BY <1>1
<1>3. \A i \in DOMAIN b : i = 1 \/ (i - 1 \in DOMAIN ts /\ b[i] = ts[i - 1])
  BY <1>1
<1>4. ToSet(b) = {c} \cup ToSet(ts)
  <2>1. ASSUME NEW x \in ToSet(b) PROVE x \in {c} \cup ToSet(ts)
    BY <1>1, <1>3, <2>1 DEF ToSet
  <2>2. ASSUME NEW x \in {c} \cup ToSet(ts) PROVE x \in ToSet(b)
    BY <1>1, <1>2, <2>2 DEF ToSet
  <2> QED BY <2>1, <2>2
<1> QED BY <1>1, <1>4 DEF b

\* GetTxns returns transactions of the pool, all of them if they are not too many.
LEMMA GetTxnsFacts ==
    ASSUME NEW p \in SUBSET Id, NEW order \in GetTxns(p)
    PROVE  /\ order \in Seq(Id) /\ ToSet(order) \subseteq p
           /\ IsFiniteSet(p) /\ Cardinality(p) \in Nat
           /\ Cardinality(p) <= PackLimit => ToSet(order) = p
<1>1. PICK s \in SetToSeqs(p) : order = SubSeq(s, 1, Min({PackLimit, Len(s)}))
  BY DEF GetTxns
<1> DEFINE n == Cardinality(p)
           m == Min({PackLimit, Len(s)})
<1>2. IsFiniteSet(p) /\ n \in Nat
  <2>1. 1 \in Int /\ Len(Miners) + MaxSent \in Int
    BY ConstFacts
  <2>2. IsFiniteSet(Id)
    BY <2>1, FS_Interval, Zenon DEF Id
  <2> QED BY <2>2, FS_Subset, FS_CardinalityType
<1>3. s \in [1..n -> p] /\ \A i, j \in 1..n : i # j => s[i] # s[j]
  BY <1>1 DEF SetToSeqs
<1> HIDE DEF n
<1>4. s \in Seq(p) /\ Len(s) = n /\ DOMAIN s = 1..n
  BY <1>2, <1>3
<1>5. m \in Nat /\ m <= n /\ (n <= PackLimit => m = n)
  <2> DEFINE S == {PackLimit, Len(s)}
  <2>1. \E x \in S : \A y \in S : x <= y
    BY <1>2, <1>4, ConstFacts
  <2>2. m \in S /\ \A y \in S : m <= y
    BY <2>1, Zenon DEF Min
  <2> HIDE DEF m
  <2> QED BY <1>2, <1>4, <2>2, ConstFacts
<1>6. order \in Seq(p) /\ DOMAIN order = 1..m /\ \A i \in 1..m : order[i] = s[i]
  <2>1. order = SubSeq(s, 1, m)
    BY <1>1
  <2> HIDE DEF m
  <2> QED BY <1>4, <1>5, <2>1, Initial
<1> HIDE DEF m
<1>7. order \in Seq(Id) /\ ToSet(order) \subseteq p
  <2>1. \A i \in DOMAIN order : order[i] \in p
    <3>1. \A i \in 1..m : s[i] \in p
      BY <1>2, <1>3, <1>5
    <3> QED BY <1>6, <3>1
  <2>2. order \in Seq(Id)
    <3>1. p \subseteq Id /\ order \in Seq(p)
      BY <1>6
    <3> QED BY <3>1, SeqMonotone, Zenon
  <2> QED BY <2>1, <2>2 DEF ToSet
<1>8. ASSUME n <= PackLimit, NEW t \in p PROVE t \in ToSet(order)
  <2>1. s \in Injection(1..n, p)
    BY <1>3 DEF Injection, IsInjective
  <2>2. 1 \in Int /\ n \in Int /\ (n = 0 \/ n - 1 + 1 = n)
    BY <1>2
  <2>3. Cardinality(1..n) = n
    <3>1. Cardinality(1..n) = IF 1 > n THEN 0 ELSE n - 1 + 1
      BY <2>2, FS_Interval, Zenon
    <3> QED BY <1>2, <3>1
  <2>4. s \in Surjection(1..n, p)
    BY <1>2, <2>1, <2>3, FS_Injection DEF n
  <2>5. PICK i \in 1..n : s[i] = t
    BY <1>8, <2>4 DEF Surjection
  <2>6. i \in DOMAIN order /\ order[i] = t
    BY <1>5, <1>6, <1>8, <2>5
  <2> QED BY <2>6 DEF ToSet
<1> QED BY <1>2, <1>7, <1>8 DEF n

-----------------------------------------------------------------------------
(* The pool *)

\* What CleanUp computes exists: the greatest set of transactions whose parents
\* are known or in the set.
LEMMA VerifyExists ==
    ASSUME NEW p \in SUBSET Id, NEW idx
    PROVE  \E f : f = [t \in Id |-> \A q \in Parents(t) : q \in idx \/ (q \in p /\ f[q])]
<1> DEFINE Closed(X) == \A t \in X : \A q \in Parents(t) : q \in idx \/ (q \in p /\ q \in X)
           G == UNION {X \in SUBSET Id : Closed(X)}
           g == [t \in Id |-> t \in G]
<1>1. \A t \in G : \A q \in Parents(t) : q \in idx \/ (q \in p /\ q \in G)
  OBVIOUS
<1>2. G \subseteq Id
  OBVIOUS
<1>3. ASSUME NEW t \in Id, \A q \in Parents(t) : q \in idx \/ (q \in p /\ q \in G)
      PROVE  t \in G
  <2>1. G \cup {t} \in SUBSET Id /\ Closed(G \cup {t})
    <3> HIDE DEF G
    <3> QED BY <1>1, <1>2, <1>3
  <2> QED BY <2>1, Zenon
<1>4. \A t \in Id : g[t] = (t \in G)
  BY Zenon
<1> HIDE DEF G
<1>5. \A t \in Id : (t \in G) <=> \A q \in Parents(t) : q \in idx \/ (q \in p /\ q \in G)
  BY <1>1, <1>3, Zenon
<1>6. \A q \in p : g[q] = (q \in G)
  BY <1>4
<1>7. \A t \in Id : (\A q \in Parents(t) : q \in idx \/ (q \in p /\ q \in G))
                    <=> (\A q \in Parents(t) : q \in idx \/ (q \in p /\ g[q]))
  BY <1>6, Zenon
<1>8. \A t \in Id : (t \in G) = (\A q \in Parents(t) : q \in idx \/ (q \in p /\ g[q]))
  <2> SUFFICES ASSUME NEW t \in Id
               PROVE  (t \in G) = (\A q \in Parents(t) : q \in idx \/ (q \in p /\ g[q]))
    OBVIOUS
  <2> DEFINE A == t \in G
             B == \A q \in Parents(t) : q \in idx \/ (q \in p /\ g[q])
  <2>1. A <=> B
    BY <1>5, <1>7, Zenon
  <2>2. A \in BOOLEAN
    OBVIOUS
  <2>3. B \in BOOLEAN
    <3> HIDE DEF g
    <3> QED OBVIOUS
  <2> HIDE DEF A, B
  <2>4. A = B
    BY <2>1, <2>2, <2>3
  <2> QED BY <2>4 DEF A, B
<1>9. g = [t \in Id |-> \A q \in Parents(t) : q \in idx \/ (q \in p /\ g[q])]
  BY <1>8, Zenon
<1> QED BY <1>9, Zenon

\* What CleanUp leaves of a pool that GetTxns has returned whole.
LEMMA CleanUpClosed ==
    ASSUME NEW p \in SUBSET Id, NEW order, NEW idx
    PROVE  /\ CleanUp(p, order, idx) \subseteq p
           /\ ToSet(order) = p =>
                 \A t \in CleanUp(p, order, idx) :
                     Parents(t) \subseteq idx \cup CleanUp(p, order, idx)
<1> DEFINE verify == CHOOSE f : f = [t \in Id |->
                         \A q \in Parents(t) : q \in idx \/ (q \in p /\ f[q])]
           kept == CleanUp(p, order, idx)
<1>1. kept = p \ {t \in ToSet(order) : ~verify[t]}
  BY Zenon DEF CleanUp
<1>2. verify = [t \in Id |-> \A q \in Parents(t) : q \in idx \/ (q \in p /\ verify[q])]
  <2> DEFINE Fix(f) == [t \in Id |-> \A q \in Parents(t) : q \in idx \/ (q \in p /\ f[q])]
  <2>1. \E f : f = Fix(f)
    BY VerifyExists
  <2>2. verify = CHOOSE f : f = Fix(f)
    BY Zenon
  <2> HIDE DEF Fix, verify
  <2>3. verify = Fix(verify)
    BY <2>1, <2>2, Zenon
  <2> QED BY <2>3, Zenon DEF Fix
<1> HIDE DEF verify, kept
<1>3. ASSUME ToSet(order) = p, NEW t \in kept PROVE Parents(t) \subseteq idx \cup kept
  <2>1. t \in Id /\ verify[t]
    BY <1>1, <1>3, Zenon
  <2>2. \A q \in Parents(t) : q \in idx \/ (q \in p /\ verify[q])
    BY <1>2, <2>1, Zenon
  <2> QED BY <1>1, <2>2, Zenon
<1> QED BY <1>1, <1>3 DEF kept

-----------------------------------------------------------------------------
(* The inductive invariant *)

Types ==
    /\ \E S : txn \in Seq(S)
    /\ Len(Miners) <= Len(txn) /\ Len(txn) <= Len(Miners) + MaxSent
    /\ chain \in Seq(Seq(Id))
    /\ pool \subseteq Made
    /\ pc \in {"idle", "verify", "add"}
    /\ pc # "idle" => arg \in Made
    /\ owed \in Nat
    /\ raced \in BOOLEAN

\* The chain confirms nothing twice, and the index is its own; nothing of it is in
\* the pool or on the way there.
IndexInv ==
    /\ index = Confirmed(chain)
    /\ Disjoint(chain)
    /\ pool \cap index = {}
    /\ pc # "idle" => arg \notin index

\* What is on the way to the pool has parents there or in the index, and so has
\* what is in the pool, except while a reorganisation is under way.
PoolInv ==
    /\ pc # "idle" => Parents(arg) \subseteq index \cup pool
    /\ owed = 0 => \A t \in pool : Parents(t) \subseteq index \cup pool

IInv == Types /\ (~raced => IndexInv /\ PoolInv)

\* Transactions that are made are among the possible ones.
LEMMA TypeFacts ==
    ASSUME Types
    PROVE  /\ Len(txn) \in Nat /\ Made \subseteq Id /\ pool \in SUBSET Id
           /\ Coinbase \subseteq Id
<1>1. Len(txn) \in Nat
  BY DEF Types
<1> QED BY <1>1, ConstFacts DEF Types, Made, Id, Coinbase

\* The parents of a transaction stay.
LEMMA ParentsSame == ASSUME txn' = txn PROVE \A t : Parents(t)' = Parents(t)
BY DEF Parents

\* The first state.
LEMMA InitIInv == Init => IInv
<1> SUFFICES ASSUME Init PROVE IInv
  OBVIOUS
<1>1. chain = <<<<1>>>> /\ index = {1} /\ pool = {} /\ pc = "idle" /\ owed = 0 /\ raced = FALSE
  BY DEF Init
<1> DEFINE e(i) == [vin |-> <<>>, vout |-> <<[owner |-> Miners[i], value |-> Subsidy]>>]
<1>2. txn = [i \in 1..Len(Miners) |-> e(i)]
  BY DEF Init, Coinbase
<1>3. txn \in Seq({e(i) : i \in 1..Len(Miners)}) /\ Len(txn) = Len(Miners)
  <2> HIDE DEF e
  <2> QED BY <1>2, ConstFacts
<1>4. 1 \in Id
  BY ConstFacts DEF Id
<1>5. chain \in Seq(Seq(Id)) /\ DOMAIN chain = {1} /\ chain[1] = <<1>> /\ ToSet(<<1>>) = {1}
  BY <1>1, <1>4 DEF ToSet
<1>6. Confirmed(chain) = {1} /\ Disjoint(chain)
  <2> HIDE DEF Init
  <2> QED BY <1>5, Zenon DEF Confirmed, Disjoint
<1>7. Types
  <2>1. \E S : txn \in Seq(S)
    BY <1>3, Zenon
  <2>2. Len(Miners) <= Len(txn) /\ Len(txn) <= Len(Miners) + MaxSent
    BY <1>3, ConstFacts
  <2> QED BY <1>1, <1>5, <2>1, <2>2 DEF Types
<1> QED BY <1>1, <1>6, <1>7 DEF IInv, IndexInv, PoolInv

-----------------------------------------------------------------------------
(* Steps *)

\* AddBlock and Update for a block of transactions that are not confirmed.
LEMMA AddBlockStep ==
    ASSUME IInv, NEW b \in Seq(Id), AddBlock(b),
           ~raced => ToSet(b) \cap Confirmed(chain) = {},
           txn' = txn, pc' = pc, arg' = arg, owed' \in Nat
    PROVE  IInv'
<1> DEFINE idx == index \cup ToSet(b)
           left == pool \ ToSet(b)
<1>1. PICK order \in GetTxns(left) : pool' = CleanUp(left, order, idx)
  BY Zenon DEF AddBlock
<1>2. /\ chain' = Append(chain, b)
      /\ raced' = (raced \/ pc # "idle" \/ Cardinality(left) > PackLimit)
      /\ Update(b, chain')
  BY Zenon DEF AddBlock
<1>3. index' = Confirmed(chain') \/ index' = idx
  BY <1>2 DEF Update
<1>4. Types /\ pool \in SUBSET Id /\ left \in SUBSET Id
  BY TypeFacts DEF IInv
<1>5. /\ ToSet(order) \subseteq left /\ Cardinality(left) \in Nat
      /\ Cardinality(left) <= PackLimit => ToSet(order) = left
  BY <1>1, <1>4, GetTxnsFacts
<1>6. /\ pool' \subseteq left
      /\ ToSet(order) = left => \A t \in pool' : Parents(t) \subseteq idx \cup pool'
  BY <1>1, <1>4, CleanUpClosed
<1>7. /\ chain' \in Seq(Seq(Id)) /\ Confirmed(chain') = Confirmed(chain) \cup ToSet(b)
      /\ Disjoint(chain) /\ ToSet(b) \cap Confirmed(chain) = {} => Disjoint(chain')
  BY <1>2, <1>4, ConfirmedAppend DEF Types
<1>8. Types'
  BY <1>2, <1>4, <1>6, <1>7 DEF Types, Made
<1>9. ASSUME ~raced' PROVE IndexInv' /\ PoolInv'
  <2>1. ~raced /\ pc = "idle" /\ Cardinality(left) <= PackLimit
    <3>1. ~raced /\ pc = "idle" /\ ~(Cardinality(left) > PackLimit)
      BY <1>2, <1>9, Zenon
    <3> QED BY <1>5, <3>1, ConstFacts
  <2>2. IndexInv /\ ToSet(b) \cap Confirmed(chain) = {}
    BY <2>1 DEF IInv
  <2>3. index' = Confirmed(chain') /\ index' = idx /\ Disjoint(chain')
    BY <1>3, <1>7, <2>2 DEF IndexInv
  <2>4. pool' \cap index' = {}
    BY <1>6, <2>2, <2>3 DEF IndexInv
  <2>5. IndexInv'
    BY <2>1, <2>3, <2>4 DEF IndexInv
  <2>6. \A t \in pool' : Parents(t)' \subseteq index' \cup pool'
    BY <1>5, <1>6, <2>1, <2>3, ParentsSame
  <2> QED BY <2>1, <2>5, <2>6 DEF PoolInv
<1> QED BY <1>8, <1>9 DEF IInv

\* A block of this node.
LEMMA MineBlockStep ==
    ASSUME IInv, NEW c \in Coinbase, NEW order \in GetTxns(pool), MineBlock(c, order)
    PROVE  IInv'
<1>1. /\ AddBlock(<<c>> \o order) /\ c \notin Confirmed(chain)
      /\ txn' = txn /\ pc' = pc /\ arg' = arg /\ owed' = owed
  BY Zenon DEF MineBlock
<1>2. Types /\ pool \in SUBSET Id /\ c \in Id
  BY TypeFacts DEF IInv
<1>3. order \in Seq(Id) /\ ToSet(order) \subseteq pool
  BY <1>2, GetTxnsFacts
<1>4. <<c>> \o order \in Seq(Id) /\ ToSet(<<c>> \o order) = {c} \cup ToSet(order)
  BY <1>2, <1>3, BlockOf
<1>5. ~raced => ToSet(<<c>> \o order) \cap Confirmed(chain) = {}
  BY <1>1, <1>3, <1>4 DEF IInv, IndexInv
<1>6. owed' \in Nat
  BY <1>1, <1>2 DEF Types
<1> QED BY <1>1, <1>4, <1>5, <1>6, AddBlockStep

\* A block of another node.
LEMMA ReceiveBlockStep ==
    ASSUME IInv, NEW c \in Coinbase, NEW S \in SUBSET (Sent \ Confirmed(chain)),
           NEW ts \in SetToSeqs(S), ReceiveBlock(c, ts)
    PROVE  IInv'
<1>1. /\ AddBlock(<<c>> \o ts) /\ c \notin Confirmed(chain)
      /\ txn' = txn /\ pc' = pc /\ arg' = arg
      /\ owed' = IF owed > 0 THEN owed - 1 ELSE 0
  BY Zenon DEF ReceiveBlock
<1>2. Types /\ c \in Id /\ S \subseteq Id /\ S \cap Confirmed(chain) = {} /\ Len(txn) \in Nat
  BY TypeFacts DEF IInv, Sent
<1>3. ts \in Seq(Id) /\ ToSet(ts) \subseteq S
  <2>1. ts \in [1..Cardinality(S) -> S]
    BY DEF SetToSeqs
  <2>2. Cardinality(S) \in Nat
    <3>1. 1 \in Int /\ Len(txn) \in Int
      BY <1>2
    <3>2. IsFiniteSet(1..Len(txn)) /\ S \subseteq 1..Len(txn)
      BY <3>1, FS_Interval, Zenon DEF Sent, Made
    <3> QED BY <3>2, FS_Subset, FS_CardinalityType
  <2>3. ts \in Seq(S) /\ \A i \in DOMAIN ts : ts[i] \in S
    BY <2>1, <2>2
  <2>4. ts \in Seq(Id)
    BY <1>2, <2>3, SeqMonotone, Zenon
  <2> QED BY <2>3, <2>4 DEF ToSet
<1>4. <<c>> \o ts \in Seq(Id) /\ ToSet(<<c>> \o ts) = {c} \cup ToSet(ts)
  BY <1>2, <1>3, BlockOf
<1>5. ToSet(<<c>> \o ts) \cap Confirmed(chain) = {}
  BY <1>1, <1>2, <1>3, <1>4
<1>6. owed' \in Nat
  BY <1>1, <1>2 DEF Types
<1> QED BY <1>1, <1>4, <1>5, <1>6, AddBlockStep

\* A reorganisation takes blocks back.
LEMMA RevertStep ==
    ASSUME IInv, NEW n \in 1..Len(chain) - 1, Revert(n)
    PROVE  IInv'
<1> DEFINE stay == Len(chain) - n
           gone == SubSeq(chain, stay + 1, Len(chain))
<1>1. /\ chain' = SubSeq(chain, 1, stay) /\ index' = index \ Confirmed(gone)
      /\ owed' = n + 1 /\ raced' = (raced \/ pc # "idle")
      /\ txn' = txn /\ pool' = pool /\ pc' = pc /\ arg' = arg
  BY Zenon DEF Revert, DeleteTxns
<1>2. Types /\ Len(chain) \in Nat /\ stay \in Nat /\ stay <= Len(chain) /\ owed' \in Nat /\ owed' # 0
  BY <1>1 DEF IInv, Types
<1>3. chain' \in Seq(Seq(Id))
  BY <1>1, <1>2, Initial DEF Types
<1>4. Types'
  BY <1>1, <1>2, <1>3 DEF Types, Made
<1>5. ASSUME ~raced' PROVE IndexInv' /\ PoolInv'
  <2>1. ~raced /\ pc = "idle" /\ IndexInv
    BY <1>1, <1>5 DEF IInv
  <2>2. Disjoint(chain') /\ Confirmed(chain') = Confirmed(chain) \ Confirmed(gone)
    <3> HIDE DEF stay
    <3> QED BY <1>1, <1>2, <2>1, ConfirmedSplit DEF Types, IndexInv
  <2> HIDE DEF gone
  <2>3. IndexInv'
    BY <1>1, <2>1, <2>2 DEF IndexInv
  <2> QED BY <1>1, <1>2, <2>1, <2>3 DEF PoolInv
<1> QED BY <1>4, <1>5 DEF IInv

\* A new transaction comes after the others and is nobody's parent yet.
LEMMA SendStep ==
    ASSUME IInv, NEW from, NEW to, NEW amount, NEW order, SendCMD(from, to, amount, order)
    PROVE  IInv'
<1>1. /\ UNCHANGED <<chain, index, pool, pc, arg, owed, raced>> /\ Types
      /\ txn' = txn \/ \E e : txn' = Append(txn, e) /\ Len(txn) < Len(Miners) + MaxSent
  BY Zenon DEF SendCMD, IInv
<1>2. PICK S : txn \in Seq(S)
  BY <1>1 DEF Types
<1>3. /\ \E T : txn' \in Seq(T)
      /\ Len(txn) \in Nat /\ Len(txn') \in Nat /\ Len(txn) <= Len(txn')
      /\ Len(txn') <= Len(Miners) + MaxSent
      /\ \A t \in Made : txn'[t] = txn[t]
  <2>1. CASE txn' = txn
    BY <1>1, <1>2, <2>1 DEF Types
  <2>2. ASSUME NEW e, txn' = Append(txn, e), Len(txn) < Len(Miners) + MaxSent
        PROVE  <1>3!:
    <3>1. /\ txn \in Seq(S \cup {e}) /\ e \in S \cup {e}
      BY <1>2
    <3>2. /\ txn' \in Seq(S \cup {e}) /\ Len(txn') = Len(txn) + 1 /\ Len(txn) \in Nat
          /\ \A i \in 1..Len(txn) : txn'[i] = txn[i]
      BY <2>2, <3>1, AppendProperties
    <3> QED BY <2>2, <3>2, ConstFacts DEF Made
  <2> QED BY <1>1, <2>1, <2>2
<1>4. \A t \in Made : Parents(t)' = Parents(t)
  BY <1>3 DEF Parents
<1>5. Made \subseteq Made'
  BY <1>3 DEF Made
<1>6. Types'
  BY <1>1, <1>3, <1>5, ConstFacts DEF Types
<1>7. ASSUME ~raced' PROVE IndexInv' /\ PoolInv'
  <2>1. IndexInv /\ PoolInv /\ pool \subseteq Made /\ (pc # "idle" => arg \in Made)
    BY <1>1, <1>7 DEF IInv, Types
  <2>2. IndexInv'
    BY <1>1, <2>1 DEF IndexInv
  <2>3. PoolInv'
    BY <1>1, <1>4, <2>1 DEF PoolInv
  <2> QED BY <2>2, <2>3
<1> QED BY <1>6, <1>7 DEF IInv

\* The steps of the handler of transactions, and the start after an exit.
LEMMA HandlerStep ==
    ASSUME IInv,
           \/ \E t \in Sent : GossipTxn(t)
           \/ \E order \in GetTxns(pool) : UTXOMemVerifyTransaction(order)
           \/ AddTxn
           \/ Restart
    PROVE  IInv'
<1>1. CASE \E t \in Sent : GossipTxn(t)
  <2>1. PICK t \in Sent : GossipTxn(t)
    BY <1>1
  <2>2. /\ t \in Made /\ t \notin index /\ Parents(t) \subseteq index \cup pool
        /\ pc' = "verify" /\ arg' = t
        /\ UNCHANGED <<txn, chain, index, pool, owed, raced>>
    BY <2>1 DEF GossipTxn, IsNew, Sent
  <2>3. Types'
    BY <2>2 DEF IInv, Types, Made
  <2>4. ~raced => IndexInv' /\ PoolInv'
    BY <2>2, ParentsSame DEF IInv, IndexInv, PoolInv
  <2> QED BY <2>2, <2>3, <2>4 DEF IInv
<1>2. CASE \E order \in GetTxns(pool) : UTXOMemVerifyTransaction(order)
  <2>1. /\ UNCHANGED <<txn, chain, index, pool, owed, raced>> /\ pc = "verify"
        /\ (pc' = "add" /\ arg' = arg) \/ pc' = "idle"
    BY <1>2, Zenon DEF UTXOMemVerifyTransaction
  <2>2. Types'
    BY <2>1 DEF IInv, Types, Made
  <2>3. ~raced => IndexInv' /\ PoolInv'
    BY <2>1, ParentsSame DEF IInv, IndexInv, PoolInv
  <2> QED BY <2>1, <2>2, <2>3 DEF IInv
<1>3. CASE AddTxn
  <2>1. /\ UNCHANGED <<txn, chain, index, owed, raced>> /\ pc = "add" /\ pc' = "idle"
        /\ pool' = pool \cup {arg}
    BY <1>3 DEF AddTxn
  <2>2. Types'
    BY <2>1 DEF IInv, Types, Made
  <2>3. ~raced => IndexInv' /\ PoolInv'
    BY <2>1, ParentsSame DEF IInv, IndexInv, PoolInv
  <2> QED BY <2>1, <2>2, <2>3 DEF IInv
<1>4. CASE Restart
  <2>1. UNCHANGED <<txn, chain, index, owed, raced>> /\ pc' = "idle" /\ pool' = {}
    BY <1>4 DEF Restart
  <2>2. Types'
    BY <2>1 DEF IInv, Types, Made
  <2>3. ~raced => IndexInv' /\ PoolInv'
    BY <2>1 DEF IInv, IndexInv, PoolInv
  <2> QED BY <2>1, <2>2, <2>3 DEF IInv
<1> QED BY <1>1, <1>2, <1>3, <1>4

\* Every step keeps the invariant.
LEMMA NextIInv == IInv /\ [Next]_vars => IInv'
<1> SUFFICES ASSUME IInv, [Next]_vars PROVE IInv'
  OBVIOUS
<1>1. CASE \E from, to \in Owner, amount \in Amount :
              \E order \in Orders(from) : SendCMD(from, to, amount, order)
  BY <1>1, SendStep, Zenon
<1>2. CASE \/ \E t \in Sent : GossipTxn(t)
           \/ \E order \in GetTxns(pool) : UTXOMemVerifyTransaction(order)
           \/ AddTxn
           \/ Restart
  BY <1>2, HandlerStep, Zenon
<1>3. CASE \E c \in Coinbase, order \in GetTxns(pool) : MineBlock(c, order)
  BY <1>3, MineBlockStep, Zenon
<1>4. CASE \E c \in Coinbase : \E S \in SUBSET (Sent \ Confirmed(chain)) :
              Cardinality(S) <= PackLimit /\ \E ts \in SetToSeqs(S) : ReceiveBlock(c, ts)
  BY <1>4, ReceiveBlockStep, Zenon
<1>5. CASE \E n \in 1..Len(chain) - 1 : Revert(n)
  BY <1>5, RevertStep, Zenon
<1>6. CASE UNCHANGED vars
  <2>1. UNCHANGED <<txn, chain, index, pool, pc, arg, owed, raced>>
    BY <1>6 DEF vars
  <2>2. Types'
    BY <2>1 DEF IInv, Types, Made
  <2>3. ~raced => IndexInv' /\ PoolInv'
    BY <2>1, ParentsSame DEF IInv, IndexInv, PoolInv
  <2> QED BY <2>1, <2>2, <2>3 DEF IInv
<1> QED BY <1>1, <1>2, <1>3, <1>4, <1>5, <1>6, Zenon DEF Next

-----------------------------------------------------------------------------
(* The UTXO set *)

InputSet == [hash : Id, index : Nat \ {0}, owner : Owner, value : 1..Subsidy]
TxnSet == [vin : Seq(InputSet), vout : Seq(Output)]
Entries == [Id -> Seq(Output)]
Updated == [u : Entries, miss : BOOLEAN]

\* The output an input spends.
Spent(v) == [owner |-> v.owner, value |-> v.value]

\* A transaction has one output or two, of different owners, and its inputs spend
\* outputs that are there.
TxnOK(t) ==
    /\ Len(txn[t].vout) \in {1, 2}
    /\ t \in Coinbase => txn[t].vin = <<>>
    /\ ~SelfPayment /\ Len(txn[t].vout) = 2 => txn[t].vout[1].owner # txn[t].vout[2].owner
    /\ \A v \in ToSet(txn[t].vin) :
          /\ v.hash \in Made /\ v.index \in DOMAIN txn[v.hash].vout
          /\ Spent(v) \in ToSet(txn[v.hash].vout)

TxnsOK ==
    /\ txn \in Seq(TxnSet)
    /\ Len(Miners) <= Len(txn) /\ Len(txn) <= Len(Miners) + MaxSent
    /\ \A t \in Made : TxnOK(t)

\* An entry holds outputs of its transaction.
Fits(u) ==
    /\ u \in Entries
    /\ \A t \in Made : ToSet(u[t]) \subseteq ToSet(txn[t].vout)
    /\ \A t \in Id \ Made : u[t] = <<>>

\* A function on the numbers up to n is a sequence.
LEMMA FunSeq ==
    ASSUME NEW S, NEW n \in Nat, NEW f \in [1..n -> S]
    PROVE  f \in Seq(S) /\ Len(f) = n /\ DOMAIN f = 1..n
OBVIOUS

\* The elements of a sequence.
LEMMA SetOfSeq ==
    ASSUME NEW S, NEW s \in Seq(S)
    PROVE  ToSet(s) \subseteq S /\ Len(s) \in Nat /\ DOMAIN s = 1..Len(s)
BY DEF ToSet

\* What transactions consist of.
LEMMA MadeFacts ==
    ASSUME TxnsOK
    PROVE  /\ Len(txn) \in Nat /\ Made \subseteq Id /\ Coinbase \subseteq Made
           /\ \A t \in Made : /\ txn[t] \in TxnSet /\ txn[t].vin \in Seq(InputSet)
                              /\ txn[t].vout \in Seq(Output)
                              /\ ToSet(txn[t].vin) \subseteq InputSet
                              /\ ToSet(txn[t].vout) \subseteq Output
                              /\ DOMAIN txn[t].vout = 1..Len(txn[t].vout)
<1>1. Len(txn) \in Nat /\ \A t \in Made : txn[t] \in TxnSet
  BY DEF TxnsOK, Made
<1>2. Len(Miners) \in Nat /\ MaxSent \in Nat
  BY LedgerAssumption
<1>3. Made \subseteq Id /\ Coinbase \subseteq Made
  BY <1>1, <1>2 DEF Made, Id, Coinbase, TxnsOK
<1>4. \A t \in Made : txn[t].vin \in Seq(InputSet) /\ txn[t].vout \in Seq(Output)
  BY <1>1 DEF TxnSet
<1> QED BY <1>1, <1>3, <1>4, SetOfSeq

\* What is left when an owner has spent.
LEMMA OthersFacts ==
    ASSUME NEW outs \in Seq(Output), NEW w
    PROVE  /\ Others(outs, w) \in Seq(Output)
           /\ ToSet(Others(outs, w)) = {o \in ToSet(outs) : o.owner # w}
<1> DEFINE e(i) == IF outs[i].owner = w THEN <<>> ELSE <<outs[i]>>
           s == [i \in DOMAIN outs |-> e(i)]
<1>1. Len(outs) \in Nat /\ DOMAIN outs = 1..Len(outs) /\ \A i \in DOMAIN outs : outs[i] \in Output
  OBVIOUS
<1>2. \A i \in DOMAIN outs : e(i) \in Seq(Output)
  <2>1. <<>> \in Seq(Output) /\ \A o \in Output : <<o>> \in Seq(Output)
    OBVIOUS
  <2> QED BY <1>1, <2>1, Zenon
<1>3. \A i \in DOMAIN outs : ToSet(e(i)) = IF outs[i].owner = w THEN {} ELSE {outs[i]}
  <2>1. ToSet(<<>>) = {} /\ \A o : ToSet(<<o>>) = {o}
    BY DEF ToSet
  <2> QED BY <2>1, Zenon
<1>4. Others(outs, w) = FlattenSeq(s)
  BY DEF Others
<1> HIDE DEF e
<1>5. s \in [1..Len(outs) -> Seq(Output)]
  BY <1>1, <1>2, Zenon
<1>6. s \in Seq(Seq(Output)) /\ DOMAIN s = DOMAIN outs /\ \A i \in DOMAIN outs : s[i] = e(i)
  BY <1>1, <1>5, FunSeq, Zenon
<1> HIDE DEF s
<1>7. /\ FlattenSeq(s) \in Seq(Output)
      /\ ToSet(FlattenSeq(s)) = UNION {ToSet(s[i]) : i \in DOMAIN s}
  BY <1>6, FlattenFacts, Zenon
<1>8. UNION {ToSet(s[i]) : i \in DOMAIN s} = {o \in ToSet(outs) : o.owner # w}
  <2>1. ASSUME NEW i \in DOMAIN s, NEW o \in ToSet(s[i])
        PROVE  o \in ToSet(outs) /\ o.owner # w
    <3>1. i \in DOMAIN outs /\ outs[i].owner # w /\ o = outs[i]
      BY <1>3, <1>6, <2>1, Zenon
    <3> QED BY <3>1 DEF ToSet
  <2>2. ASSUME NEW o \in ToSet(outs), o.owner # w
        PROVE  \E i \in DOMAIN s : o \in ToSet(s[i])
    <3>1. PICK i \in DOMAIN outs : o = outs[i]
      BY DEF ToSet
    <3> QED BY <1>3, <1>6, <2>2, <3>1
  <2> QED BY <2>1, <2>2, Zenon
<1> QED BY <1>4, <1>7, <1>8

\* What one input leaves of the entries.
LEMMA SpendFacts ==
    ASSUME NEW u \in Entries, NEW v \in InputSet
    PROVE  /\ Spend(u, v) \in Entries
           /\ \A q \in Id : q # v.hash => Spend(u, v)[q] = u[q]
           /\ ToSet(Spend(u, v)[v.hash]) = {o \in ToSet(u[v.hash]) : o.owner # v.owner}
<1>1. v.hash \in Id /\ u[v.hash] \in Seq(Output)
  BY DEF InputSet, Entries
<1>2. /\ Others(u[v.hash], v.owner) \in Seq(Output)
      /\ ToSet(Others(u[v.hash], v.owner)) = {o \in ToSet(u[v.hash]) : o.owner # v.owner}
  BY <1>1, OthersFacts
<1>3. Spend(u, v) = [u EXCEPT ![v.hash] = Others(u[v.hash], v.owner)]
  BY DEF Spend
<1> QED BY <1>1, <1>2, <1>3 DEF Entries

\* What n inputs leave of the entries u0.
Leaves(u0, u, vin, n) ==
    \A q \in Id :
        /\ ToSet(u[q]) = {o \in ToSet(u0[q]) : \A i \in 1..n : vin[i].hash = q => vin[i].owner # o.owner}
        /\ (\A i \in 1..n : vin[i].hash # q) => u[q] = u0[q]

\* One input, if it has an entry.
LEMMA UpdateInputFacts ==
    ASSUME NEW x \in Updated, NEW v \in InputSet
    PROVE  /\ UpdateInput(x, v) \in Updated
           /\ ~UpdateInput(x, v).miss => ~x.miss /\ UpdateInput(x, v).u = Spend(x.u, v)
<1>1. x.u \in Entries /\ x.miss \in BOOLEAN
  BY DEF Updated
<1>2. Spend(x.u, v) \in Entries
  BY <1>1, SpendFacts
<1>3. CASE x.miss \/ x.u[v.hash] = <<>>
  <2>1. UpdateInput(x, v) = [x EXCEPT !.miss = TRUE]
    BY <1>3 DEF UpdateInput
  <2> QED BY <1>1, <2>1 DEF Updated
<1>4. CASE ~(x.miss \/ x.u[v.hash] = <<>>)
  <2>1. UpdateInput(x, v) = [x EXCEPT !.u = Spend(x.u, v)]
    BY <1>4 DEF UpdateInput
  <2> QED BY <1>1, <1>2, <1>4, <2>1 DEF Updated
<1> QED BY <1>3, <1>4

\* The inputs of a transaction take away the outputs of their owners and
\* nothing else.
LEMMA InputsFacts ==
    ASSUME NEW x \in Updated, NEW vin \in Seq(InputSet)
    PROVE  LET y == FoldLeft(UpdateInput, x, vin)
           IN  y \in Updated /\ (~y.miss => ~x.miss /\ Leaves(x.u, y.u, vin, Len(vin)))
<1> DEFINE N == Len(vin)
<1>1. PICK r \in [0..N -> Updated] :
         /\ r[0] = x /\ \A n \in 1..N : r[n] = UpdateInput(r[n - 1], vin[n])
         /\ FoldLeft(UpdateInput, x, vin) = r[N]
  <2>1. \A z \in Updated : \A v \in InputSet : UpdateInput(z, v) \in Updated
    BY UpdateInputFacts
  <2>2. UpdateInputRuns(Updated, x, vin)
    BY <2>1, UpdateInputRun, Zenon
  <2> QED BY <2>2, Zenon DEF UpdateInputRuns
<1>2. N \in Nat /\ DOMAIN vin = 1..N /\ \A n \in 1..N : vin[n] \in InputSet
  OBVIOUS
<1> HIDE DEF N
<1> DEFINE Good(n) == ~r[n].miss => ~x.miss /\ Leaves(x.u, r[n].u, vin, n)
           M == {n \in Nat : n <= N => Good(n)}
<1>3. 0 \in M
  <2>1. 1..0 = {}
    OBVIOUS
  <2>2. Leaves(x.u, x.u, vin, 0)
    BY <2>1 DEF Leaves
  <2> QED BY <1>1, <2>2
<1>4. ASSUME NEW n \in Nat, n \in M PROVE n + 1 \in M
  <2> SUFFICES ASSUME n + 1 <= N, ~r[n + 1].miss
               PROVE  ~x.miss /\ Leaves(x.u, r[n + 1].u, vin, n + 1)
    OBVIOUS
  <2> DEFINE v == vin[n + 1]
             w == r[n].u
             z == r[n + 1].u
  <2>1. n + 1 \in 1..N /\ (n + 1) - 1 = n /\ n <= N /\ n \in 0..N /\ v \in InputSet
    BY <1>2
  <2>2. r[n] \in Updated /\ r[n + 1] = UpdateInput(r[n], v)
    BY <1>1, <2>1
  <2>3. ~r[n].miss /\ z = Spend(w, v) /\ w \in Entries
    BY <2>1, <2>2, UpdateInputFacts DEF Updated
  <2>4. ~x.miss /\ Leaves(x.u, w, vin, n)
    BY <1>4, <2>1, <2>3
  <2>5. /\ \A q \in Id : q # v.hash => z[q] = w[q]
        /\ ToSet(z[v.hash]) = {o \in ToSet(w[v.hash]) : o.owner # v.owner}
    <3> HIDE DEF v, w, z
    <3> QED BY <2>1, <2>3, SpendFacts
  <2>6. \A i : i \in 1..n + 1 <=> i \in 1..n \/ i = n + 1
    OBVIOUS
  <2>7. vin[n + 1] = v
    OBVIOUS
  <2> HIDE DEF v, w, z
  <2>8. ASSUME NEW q \in Id
        PROVE  /\ ToSet(z[q]) = {o \in ToSet(x.u[q]) :
                     \A i \in 1..n + 1 : vin[i].hash = q => vin[i].owner # o.owner}
               /\ (\A i \in 1..n + 1 : vin[i].hash # q) => z[q] = x.u[q]
    <3>1. /\ ToSet(w[q]) = {o \in ToSet(x.u[q]) :
                \A i \in 1..n : vin[i].hash = q => vin[i].owner # o.owner}
          /\ (\A i \in 1..n : vin[i].hash # q) => w[q] = x.u[q]
      BY <2>4, Zenon DEF Leaves
    <3>2. CASE q # v.hash
      <4>1. z[q] = w[q]
        BY <2>5, <3>2
      <4> QED BY <2>6, <2>7, <3>1, <3>2, <4>1, Zenon
    <3>3. CASE q = v.hash
      <4>1. ToSet(z[q]) = {o \in ToSet(w[q]) : o.owner # v.owner}
        BY <2>5, <3>3
      <4>2. \A o : (\A i \in 1..n + 1 : vin[i].hash = q => vin[i].owner # o.owner)
                   <=> (\A i \in 1..n : vin[i].hash = q => vin[i].owner # o.owner) /\ o.owner # v.owner
        BY <2>6, <2>7, <3>3, Zenon
      <4>3. ~(\A i \in 1..n + 1 : vin[i].hash # q)
        BY <2>6, <2>7, <3>3, Zenon
      <4> QED BY <3>1, <4>1, <4>2, <4>3, Zenon
    <3> QED BY <3>2, <3>3
  <2> QED BY <2>4, <2>8, Zenon DEF Leaves, z
<1> HIDE DEF M
<1>5. Nat \subseteq M
  BY <1>3, <1>4, SetInduction, Zenon
<1>6. N \in M /\ N <= N /\ N \in 0..N
  BY <1>2, <1>5
<1>7. Good(N)
  BY <1>6 DEF M
<1> QED BY <1>1, <1>6, <1>7 DEF N

\* Transaction t takes output o out of the entry of q.
Takes(t, q, o) == \E v \in ToSet(txn[t].vin) : v.hash = q /\ v.owner = o.owner

\* One transaction brings its outputs and takes those it spends.
LEMMA UpdateTxnFacts ==
    ASSUME TxnsOK, NEW t \in Made, NEW x \in Updated
    PROVE  LET y == UpdateTxn(x, t)
           IN  /\ y \in Updated
               /\ ~y.miss =>
                     /\ ~x.miss /\ y.u[t] = txn[t].vout
                     /\ \A q \in Id \ {t} :
                           /\ ToSet(y.u[q]) = {o \in ToSet(x.u[q]) : ~Takes(t, q, o)}
                           /\ (\A v \in ToSet(txn[t].vin) : v.hash # q) => y.u[q] = x.u[q]
<1> DEFINE vin == txn[t].vin
           z == FoldLeft(UpdateInput, x, vin)
           y == UpdateTxn(x, t)
<1>1. vin \in Seq(InputSet) /\ txn[t].vout \in Seq(Output) /\ t \in Id
  BY MadeFacts
<1>2. z \in Updated /\ (~z.miss => ~x.miss /\ Leaves(x.u, z.u, vin, Len(vin)))
  BY <1>1, InputsFacts, Zenon
<1>3. y = IF z.miss THEN z ELSE [z EXCEPT !.u[t] = txn[t].vout]
  BY Zenon DEF UpdateTxn
<1>4. ToSet(vin) = {vin[i] : i \in 1..Len(vin)}
  BY <1>1, SetOfSeq, Zenon DEF ToSet
<1> HIDE DEF z, y, vin
<1>5. z.u \in Entries /\ z.miss \in BOOLEAN
  BY <1>2 DEF Updated
<1>6. CASE z.miss
  BY <1>2, <1>3, <1>6 DEF y
<1>7. CASE ~z.miss
  <2>1. y = [z EXCEPT !.u = [z.u EXCEPT ![t] = txn[t].vout]]
    BY <1>3, <1>7
  <2>2. [z.u EXCEPT ![t] = txn[t].vout] \in Entries
    BY <1>1, <1>5 DEF Entries
  <2>3. y \in Updated /\ y.u = [z.u EXCEPT ![t] = txn[t].vout]
    BY <1>2, <2>1, <2>2 DEF Updated
  <2>4. y.u[t] = txn[t].vout /\ \A q \in Id \ {t} : y.u[q] = z.u[q]
    BY <1>1, <1>5, <2>3 DEF Entries
  <2>5. ASSUME NEW q \in Id \ {t}
        PROVE  /\ ToSet(y.u[q]) = {o \in ToSet(x.u[q]) : ~Takes(t, q, o)}
               /\ (\A v \in ToSet(vin) : v.hash # q) => y.u[q] = x.u[q]
    <3>1. /\ ToSet(z.u[q]) = {o \in ToSet(x.u[q]) :
                \A i \in 1..Len(vin) : vin[i].hash = q => vin[i].owner # o.owner}
          /\ (\A i \in 1..Len(vin) : vin[i].hash # q) => z.u[q] = x.u[q]
      BY <1>2, <1>7, Zenon DEF Leaves
    <3>2. \A o : (\A i \in 1..Len(vin) : vin[i].hash = q => vin[i].owner # o.owner)
                 <=> ~Takes(t, q, o)
      BY <1>4, Zenon DEF Takes, vin
    <3>3. (\A v \in ToSet(vin) : v.hash # q) => \A i \in 1..Len(vin) : vin[i].hash # q
      BY <1>4, Zenon
    <3> QED BY <2>4, <3>1, <3>2, <3>3, Zenon
  <2> QED BY <1>2, <1>7, <2>3, <2>4, <2>5 DEF y, vin
<1> QED BY <1>6, <1>7

\* Where the outputs of a transaction stand in its entry: at their places, unless
\* one of them is in Z (the spent ones) and gone.
Placed(e, vout, Z) ==
    \/ e = <<>>
    \/ \A i \in DOMAIN vout : i \in DOMAIN e /\ e[i] = vout[i]
    \/ \E o \in ToSet(vout) \cap Z : \A p \in ToSet(e) : p.owner # o.owner

AllPlaced(u, Z) == \A q \in Made : Placed(u[q], txn[q].vout, Z[q])

\* The first n transactions of block b bring outputs into the entries u0 and keep
\* there what they do not take.
Keeps(u0, u, b, n) ==
    \A q \in Made : \A o \in ToSet(txn[q].vout) :
        /\ o \in ToSet(u0[q]) \/ \E i \in 1..n : b[i] = q
        /\ \A i \in 1..n : ~Takes(b[i], q, o)
        => o \in ToSet(u[q])

\* A block, if each of its inputs has an entry.
LEMMA BlockFacts ==
    ASSUME TxnsOK, NEW u0, Fits(u0), NEW b \in Seq(Made), NEW Z,
           \A t \in ToSet(b) : \A v \in ToSet(txn[t].vin) : Spent(v) \in Z[v.hash]
    PROVE  LET y == FoldLeft(UpdateTxn, [u |-> u0, miss |-> FALSE], b)
           IN  /\ y \in Updated
               /\ ~y.miss => /\ Fits(y.u) /\ Keeps(u0, y.u, b, Len(b))
                             /\ AllPlaced(u0, Z) => AllPlaced(y.u, Z)
<1> DEFINE N == Len(b)
           x == [u |-> u0, miss |-> FALSE]
<1>1. x \in Updated /\ x.u = u0
  BY DEF Updated, Fits
<1> HIDE DEF x
<1>2. PICK r \in [0..N -> Updated] :
         /\ r[0] = x /\ \A n \in 1..N : r[n] = UpdateTxn(r[n - 1], b[n])
         /\ FoldLeft(UpdateTxn, x, b) = r[N]
  <2>1. \A z \in Updated : \A t \in Made : UpdateTxn(z, t) \in Updated
    BY UpdateTxnFacts, Zenon
  <2>2. UpdateTxnRuns(Updated, x, b)
    BY <1>1, <2>1, UpdateTxnRun, Zenon
  <2> QED BY <2>2, Zenon DEF UpdateTxnRuns
<1>3. N \in Nat /\ DOMAIN b = 1..N /\ \A n \in 1..N : b[n] \in Made
  OBVIOUS
<1> HIDE DEF N
<1> DEFINE Good(n) == ~r[n].miss => /\ Fits(r[n].u) /\ Keeps(u0, r[n].u, b, n)
                                    /\ AllPlaced(u0, Z) => AllPlaced(r[n].u, Z)
           M == {n \in Nat : n <= N => Good(n)}
<1>4. 0 \in M
  <2>1. 1..0 = {}
    OBVIOUS
  <2>2. Keeps(u0, u0, b, 0)
    BY <2>1, Zenon DEF Keeps
  <2>3. r[0].u = u0
    BY <1>1, <1>2
  <2> QED BY <2>2, <2>3
<1>5. ASSUME NEW n \in Nat, n \in M PROVE n + 1 \in M
  <2> SUFFICES ASSUME n + 1 <= N, ~r[n + 1].miss
               PROVE  /\ Fits(r[n + 1].u) /\ Keeps(u0, r[n + 1].u, b, n + 1)
                      /\ AllPlaced(u0, Z) => AllPlaced(r[n + 1].u, Z)
    OBVIOUS
  <2> DEFINE t == b[n + 1]
             w == r[n].u
             z == r[n + 1].u
  <2>1. n + 1 \in 1..N /\ (n + 1) - 1 = n /\ n <= N /\ n \in 0..N /\ t \in Made
    BY <1>3
  <2>2. r[n] \in Updated /\ r[n + 1] = UpdateTxn(r[n], t)
    BY <1>2, <2>1
  <2>3. /\ r[n + 1] \in Updated /\ ~r[n].miss /\ z[t] = txn[t].vout
        /\ \A q \in Id \ {t} :
              /\ ToSet(z[q]) = {o \in ToSet(w[q]) : ~Takes(t, q, o)}
              /\ (\A v \in ToSet(txn[t].vin) : v.hash # q) => z[q] = w[q]
    <3> DEFINE y == UpdateTxn(r[n], t)
    <3> HIDE DEF t
    <3>1. /\ y \in Updated
          /\ ~y.miss =>
                /\ ~r[n].miss /\ y.u[t] = txn[t].vout
                /\ \A q \in Id \ {t} :
                      /\ ToSet(y.u[q]) = {o \in ToSet(w[q]) : ~Takes(t, q, o)}
                      /\ (\A v \in ToSet(txn[t].vin) : v.hash # q) => y.u[q] = w[q]
      BY <2>1, <2>2, UpdateTxnFacts, Zenon
    <3>2. y = r[n + 1]
      BY <2>2
    <3> HIDE DEF y, w
    <3> QED BY <3>1, <3>2
  <2>4. /\ Fits(w) /\ Keeps(u0, w, b, n)
        /\ AllPlaced(u0, Z) => AllPlaced(w, Z)
    BY <1>5, <2>1, <2>3
  <2>5. z \in Entries
    BY <2>3 DEF Updated
  <2>6. \A i : i \in 1..n + 1 <=> i \in 1..n \/ i = n + 1
    OBVIOUS
  <2>7. b[n + 1] = t /\ t \in ToSet(b)
    BY <1>3, <2>1 DEF ToSet
  <2>8. /\ Made \subseteq Id
        /\ \A v \in ToSet(txn[t].vin) : /\ v.hash \in Made /\ Spent(v) \in ToSet(txn[v.hash].vout)
                                        /\ Spent(v) \in Z[v.hash]
    BY <2>1, <2>7, MadeFacts DEF TxnsOK, TxnOK
  <2> HIDE DEF t, w, z
  <2>9. Fits(z)
    <3>1. ASSUME NEW q \in Made PROVE ToSet(z[q]) \subseteq ToSet(txn[q].vout)
      BY <2>3, <2>4, <2>8 DEF Fits
    <3>2. ASSUME NEW q \in Id \ Made PROVE z[q] = <<>>
      BY <2>1, <2>3, <2>4, <2>8 DEF Fits
    <3> QED BY <2>5, <3>1, <3>2 DEF Fits
  <2>10. Keeps(u0, z, b, n + 1)
    <3> SUFFICES ASSUME NEW q \in Made, NEW o \in ToSet(txn[q].vout),
                        o \in ToSet(u0[q]) \/ \E i \in 1..n + 1 : b[i] = q,
                        \A i \in 1..n + 1 : ~Takes(b[i], q, o)
                 PROVE  o \in ToSet(z[q])
      BY DEF Keeps
    <3>1. CASE q = t
      BY <2>3, <3>1
    <3>2. CASE q # t
      <4>1. o \in ToSet(u0[q]) \/ \E i \in 1..n : b[i] = q
        BY <2>6, <2>7, <3>2, Zenon
      <4>2. (\A i \in 1..n : ~Takes(b[i], q, o)) /\ ~Takes(t, q, o)
        BY <2>6, <2>7, Zenon
      <4>3. o \in ToSet(w[q])
        BY <2>4, <4>1, <4>2, Zenon DEF Keeps
      <4> QED BY <2>3, <2>8, <3>2, <4>2, <4>3
    <3> QED BY <3>1, <3>2
  <2>11. ASSUME AllPlaced(u0, Z) PROVE AllPlaced(z, Z)
    <3> SUFFICES ASSUME NEW q \in Made PROVE Placed(z[q], txn[q].vout, Z[q])
      BY DEF AllPlaced
    <3>1. CASE q = t
      BY <2>3, <3>1, Zenon DEF Placed
    <3>2. CASE q # t /\ \A v \in ToSet(txn[t].vin) : v.hash # q
      <4>1. z[q] = w[q]
        BY <2>3, <2>8, <3>2
      <4>2. Placed(w[q], txn[q].vout, Z[q])
        BY <2>4, <2>11 DEF AllPlaced
      <4> QED BY <4>1, <4>2
    <3>3. ASSUME q # t, NEW v \in ToSet(txn[t].vin), v.hash = q
          PROVE  Placed(z[q], txn[q].vout, Z[q])
      <4>1. Spent(v) \in ToSet(txn[q].vout) \cap Z[q] /\ Spent(v).owner = v.owner
        BY <2>8, <3>3 DEF Spent
      <4>2. ASSUME NEW p \in ToSet(z[q]) PROVE p.owner # Spent(v).owner
        <5>1. ~Takes(t, q, p)
          BY <2>3, <2>8, <3>3, <4>2
        <5> QED BY <3>3, <4>1, <5>1 DEF Takes
      <4> QED BY <4>1, <4>2, Zenon DEF Placed
    <3> QED BY <3>1, <3>2, <3>3
  <2> QED BY <2>9, <2>10, <2>11 DEF z
<1> HIDE DEF M
<1>6. Nat \subseteq M
  BY <1>4, <1>5, SetInduction, Zenon
<1>7. N \in M /\ N <= N /\ N \in 0..N
  BY <1>3, <1>6
<1>8. Good(N)
  BY <1>7 DEF M
<1> QED BY <1>2, <1>7, <1>8 DEF N, x

-----------------------------------------------------------------------------
(* The set built from the chain *)

Finding == [u : Entries, stxos : SUBSET (Id \X Nat)]

LeftOf(t, st) ==
    FlattenSeq([i \in DOMAIN txn[t].vout |->
        IF <<t, i>> \in st THEN <<>> ELSE <<txn[t].vout[i]>>])

\* A sequence of two.
LEMMA PairOfTwo ==
    ASSUME NEW S, NEW s \in Seq(S), Len(s) = 2
    PROVE  <<s[1]>> \o <<s[2]>> = s
<1> DEFINE c == <<s[1]>> \o <<s[2]>>
<1>1. s[1] \in S /\ s[2] \in S /\ <<s[1]>> \in Seq(S) /\ <<s[2]>> \in Seq(S)
  OBVIOUS
<1>2. c \in Seq(S) /\ Len(c) = 2 /\ c[1] = s[1] /\ c[2] = s[2]
  BY <1>1
<1> HIDE DEF c
<1>3. \A i \in 1..2 : c[i] = s[i]
  <2>1. \A i \in 1..2 : i = 1 \/ i = 2
    OBVIOUS
  <2> QED BY <1>2, <2>1
<1>4. c = s
  BY <1>2, <1>3, SeqEqual
<1> QED BY <1>4 DEF c

\* The outputs of t that FindUTXO has not seen spent.
LEMMA LeftFacts ==
    ASSUME TxnsOK, NEW t \in Made, NEW st
    PROVE  LET vout == txn[t].vout
           IN  /\ LeftOf(t, st) \in Seq(Output)
               /\ \A o \in ToSet(LeftOf(t, st)) :
                     \E i \in DOMAIN vout : <<t, i>> \notin st /\ o = vout[i]
               /\ \A i \in DOMAIN vout : <<t, i>> \notin st => vout[i] \in ToSet(LeftOf(t, st))
               /\ (\A i \in DOMAIN vout : <<t, i>> \notin st) => LeftOf(t, st) = vout
<1> DEFINE vout == txn[t].vout
           e(i) == IF <<t, i>> \in st THEN <<>> ELSE <<vout[i]>>
           s == [i \in DOMAIN vout |-> e(i)]
<1>1. /\ vout \in Seq(Output) /\ Len(vout) \in {1, 2} /\ DOMAIN vout = 1..Len(vout)
      /\ \A i \in DOMAIN vout : vout[i] \in Output
  <2>1. vout \in Seq(Output) /\ Len(vout) \in {1, 2}
    BY MadeFacts DEF TxnsOK, TxnOK
  <2> HIDE DEF vout
  <2> QED BY <2>1
<1>2. LeftOf(t, st) = FlattenSeq(s)
  BY DEF LeftOf
<1> HIDE DEF vout
<1>3. \A i \in DOMAIN vout : e(i) \in Seq(Output)
  <2>1. <<>> \in Seq(Output) /\ \A o \in Output : <<o>> \in Seq(Output)
    OBVIOUS
  <2> QED BY <1>1, <2>1, Zenon
<1>4. \A i \in DOMAIN vout : ToSet(e(i)) = IF <<t, i>> \in st THEN {} ELSE {vout[i]}
  <2>1. ToSet(<<>>) = {} /\ \A o : ToSet(<<o>>) = {o}
    BY DEF ToSet
  <2> QED BY <2>1, Zenon
<1>5. \A i : <<t, i>> \notin st => e(i) = <<vout[i]>>
  OBVIOUS
<1> HIDE DEF e
<1>6. s \in Seq(Seq(Output)) /\ Len(s) = Len(vout) /\ DOMAIN s = DOMAIN vout
      /\ \A i \in DOMAIN vout : s[i] = e(i)
  <2>1. s \in [1..Len(vout) -> Seq(Output)]
    BY <1>1, <1>3, Zenon
  <2>2. Len(vout) \in Nat
    BY <1>1
  <2> QED BY <1>1, <2>1, <2>2, FunSeq, Zenon
<1> HIDE DEF s
<1>7. /\ FlattenSeq(s) \in Seq(Output)
      /\ ToSet(FlattenSeq(s)) = UNION {ToSet(s[i]) : i \in DOMAIN s}
  BY <1>6, FlattenFacts, Zenon
<1>8. ASSUME NEW o \in ToSet(FlattenSeq(s))
      PROVE  \E i \in DOMAIN vout : <<t, i>> \notin st /\ o = vout[i]
  <2>1. PICK i \in DOMAIN s : o \in ToSet(s[i])
    BY <1>7, <1>8, Zenon
  <2>2. i \in DOMAIN vout /\ <<t, i>> \notin st /\ o = vout[i]
    BY <1>4, <1>6, <2>1, Zenon
  <2> QED BY <2>2
<1>9. ASSUME NEW i \in DOMAIN vout, <<t, i>> \notin st PROVE vout[i] \in ToSet(FlattenSeq(s))
  <2>1. i \in DOMAIN s /\ vout[i] \in ToSet(s[i])
    BY <1>4, <1>6, <1>9, Zenon
  <2> QED BY <1>7, <2>1, Zenon
<1>10. ASSUME \A i \in DOMAIN vout : <<t, i>> \notin st PROVE FlattenSeq(s) = vout
  <2>1. \A i \in DOMAIN vout : s[i] = <<vout[i]>>
    BY <1>5, <1>6, <1>10
  <2>2. CASE Len(vout) = 1
    <3>1. FlattenSeq(s) = s[1] /\ 1 \in DOMAIN vout
      <4>1. Len(s) = 1 /\ 1 \in DOMAIN vout
        BY <1>1, <1>6, <2>2
      <4> QED BY <1>6, <4>1, FlattenFew, Zenon
    <3>2. <<vout[1]>> = vout
      BY <1>1, <2>2
    <3> QED BY <2>1, <3>1, <3>2
  <2>3. CASE Len(vout) = 2
    <3>1. FlattenSeq(s) = s[1] \o s[2] /\ 1 \in DOMAIN vout /\ 2 \in DOMAIN vout
      <4>1. Len(s) = 2 /\ 1 \in DOMAIN vout /\ 2 \in DOMAIN vout
        BY <1>1, <1>6, <2>3
      <4> QED BY <1>6, <4>1, FlattenFew, Zenon
    <3>2. <<vout[1]>> \o <<vout[2]>> = vout
      BY <1>1, <2>3, PairOfTwo
    <3> QED BY <2>1, <3>1, <3>2
  <2> QED BY <1>1, <2>2, <2>3
<1> QED BY <1>2, <1>7, <1>8, <1>9, <1>10 DEF vout

\* FindUTXO goes on by one transaction.
LEMMA FindTxnFacts ==
    ASSUME TxnsOK, NEW t \in Made, NEW x \in Finding
    PROVE  LET y == FindTxnOutputs(x, t)
           IN  /\ y \in Finding
               /\ y.u[t] = x.u[t] \o LeftOf(t, x.stxos)
               /\ \A q \in Id \ {t} : y.u[q] = x.u[q]
               /\ y.stxos = x.stxos \cup {<<v.hash, v.index>> : v \in ToSet(txn[t].vin)}
<1> DEFINE left == LeftOf(t, x.stxos)
           more == {<<v.hash, v.index>> : v \in ToSet(txn[t].vin)}
           y == FindTxnOutputs(x, t)
<1>1. y = [u |-> [x.u EXCEPT ![t] = x.u[t] \o left], stxos |-> x.stxos \cup more]
  BY DEF FindTxnOutputs, LeftOf
<1>2. left \in Seq(Output) /\ t \in Id
  BY LeftFacts, MadeFacts
<1>3. more \in SUBSET (Id \X Nat)
  <2>1. \A v \in ToSet(txn[t].vin) : v.hash \in Id /\ v.index \in Nat
    BY MadeFacts DEF InputSet
  <2> QED BY <2>1
<1> HIDE DEF left, more, y
<1>4. x.u \in Entries /\ x.stxos \in SUBSET (Id \X Nat)
  BY DEF Finding
<1>5. x.u[t] \o left \in Seq(Output)
  <2>1. x.u[t] \in Seq(Output)
    BY <1>2, <1>4 DEF Entries
  <2> QED BY <1>2, <2>1, ConcatSet
<1>6. [x.u EXCEPT ![t] = x.u[t] \o left] \in Entries
  BY <1>2, <1>4, <1>5 DEF Entries
<1>7. y \in Finding
  BY <1>1, <1>3, <1>4, <1>6 DEF Finding
<1>8. y.u[t] = x.u[t] \o left /\ \A q \in Id \ {t} : y.u[q] = x.u[q]
  BY <1>1, <1>2, <1>4 DEF Entries
<1>9. y.stxos = x.stxos \cup more
  BY <1>1
<1> QED BY <1>7, <1>8, <1>9 DEF y, left, more

\* The i-th output of q is named by an input of one of the first n transactions.
Names(b, n, q, i) == \E k \in 1..n : \E v \in ToSet(txn[b[k]].vin) : v.hash = q /\ v.index = i

\* Where the outputs of q stand while the set is being built.
Found(e, q, st) ==
    \/ e = <<>>
    \/ \A i \in DOMAIN txn[q].vout : i \in DOMAIN e /\ e[i] = txn[q].vout[i]
    \/ \E i \in DOMAIN txn[q].vout :
          <<q, i>> \in st /\ \A p \in ToSet(e) : p.owner # txn[q].vout[i].owner

\* An entry gets another part.
LEMMA FoundStep ==
    ASSUME TxnsOK, ~SelfPayment, NEW t \in Made, NEW e \in Seq(Output), NEW st, Found(e, t, st)
    PROVE  Found(e \o LeftOf(t, st), t, st)
<1> DEFINE vout == txn[t].vout
           left == LeftOf(t, st)
<1>1. /\ vout \in Seq(Output) /\ Len(vout) \in {1, 2} /\ DOMAIN vout = 1..Len(vout)
      /\ Len(vout) = 2 => vout[1].owner # vout[2].owner
  BY MadeFacts DEF TxnsOK, TxnOK
<1>2. /\ left \in Seq(Output)
      /\ \A o \in ToSet(left) : \E i \in DOMAIN vout : <<t, i>> \notin st /\ o = vout[i]
      /\ (\A i \in DOMAIN vout : <<t, i>> \notin st) => left = vout
  BY LeftFacts
<1>3. e \o left \in Seq(Output) /\ ToSet(e \o left) = ToSet(e) \cup ToSet(left)
  BY <1>2, ConcatSet
<1>4. \A i, j \in DOMAIN vout : i # j => vout[i].owner # vout[j].owner
  <2> HIDE DEF vout
  <2>1. \A i \in DOMAIN vout : i = 1 \/ (i = 2 /\ Len(vout) = 2)
    BY <1>1
  <2> QED BY <1>1, <2>1
<1> SUFFICES Found(e \o left, t, st)
  BY Zenon DEF left
<1> HIDE DEF vout, left
<1>5. ASSUME NEW i \in DOMAIN vout, <<t, i>> \in st, \A p \in ToSet(e) : p.owner # vout[i].owner
      PROVE  Found(e \o left, t, st)
  <2>1. \A p \in ToSet(left) : p.owner # vout[i].owner
    BY <1>2, <1>4, <1>5
  <2> QED BY <1>3, <1>5, <2>1, Zenon DEF Found, vout
<1>6. CASE e = <<>>
  <2>1. e \o left = left /\ ToSet(e) = {}
    BY <1>2, <1>6 DEF ToSet
  <2>2. CASE \A i \in DOMAIN vout : <<t, i>> \notin st
    BY <1>2, <2>1, <2>2, Zenon DEF Found, vout
  <2>3. CASE \E i \in DOMAIN vout : <<t, i>> \in st
    BY <1>5, <2>1, <2>3, Zenon
  <2> QED BY <2>2, <2>3, Zenon
<1>7. CASE \A i \in DOMAIN vout : i \in DOMAIN e /\ e[i] = vout[i]
  <2>1. \A i \in DOMAIN e : i \in DOMAIN (e \o left) /\ (e \o left)[i] = e[i]
    BY <1>2
  <2> QED BY <1>7, <2>1, Zenon DEF Found, vout
<1>8. \/ e = <<>>
      \/ \A i \in DOMAIN vout : i \in DOMAIN e /\ e[i] = vout[i]
      \/ \E i \in DOMAIN vout : <<t, i>> \in st /\ \A p \in ToSet(e) : p.owner # vout[i].owner
  BY Zenon DEF Found, vout
<1> QED BY <1>5, <1>6, <1>7, <1>8, Zenon

\* What FindUTXO has after all transactions: every output, unless an input
\* names it by the index.
LEMMA FindFacts ==
    ASSUME TxnsOK, NEW b \in Seq(Made)
    PROVE  LET y == FoldLeft(FindTxnOutputs, [u |-> [t \in Id |-> <<>>], stxos |-> {}], b)
           IN  /\ Fits(y.u)
               /\ \A k \in 1..Len(b) : \A i \in DOMAIN txn[b[k]].vout :
                     Names(b, Len(b), b[k], i) \/ txn[b[k]].vout[i] \in ToSet(y.u[b[k]])
               /\ \A q \in Made, i \in Nat : <<q, i>> \in y.stxos => Names(b, Len(b), q, i)
               /\ ~SelfPayment => \A q \in Made : Found(y.u[q], q, y.stxos)
<1> DEFINE N == Len(b)
           x == [u |-> [t \in Id |-> <<>>], stxos |-> {}]
<1>1. x \in Finding /\ (\A t \in Id : x.u[t] = <<>>) /\ x.stxos = {}
  <2>1. <<>> \in Seq(Output)
    OBVIOUS
  <2>2. [t \in Id |-> <<>>] \in Entries
    BY <2>1 DEF Entries
  <2> QED BY <2>2 DEF Finding
<1> HIDE DEF x
<1>2. PICK r \in [0..N -> Finding] :
         /\ r[0] = x /\ \A n \in 1..N : r[n] = FindTxnOutputs(r[n - 1], b[n])
         /\ FoldLeft(FindTxnOutputs, x, b) = r[N]
  <2>1. \A z \in Finding : \A t \in Made : FindTxnOutputs(z, t) \in Finding
    BY FindTxnFacts, Zenon
  <2>2. FindTxnOutputsRuns(Finding, x, b)
    BY <1>1, <2>1, FindTxnOutputsRun, Zenon
  <2> QED BY <2>2, Zenon DEF FindTxnOutputsRuns
<1>3. N \in Nat /\ DOMAIN b = 1..N /\ \A n \in 1..N : b[n] \in Made
  OBVIOUS
<1> HIDE DEF N
<1> DEFINE Good(n) ==
               /\ Fits(r[n].u)
               /\ \A k \in 1..n : \A i \in DOMAIN txn[b[k]].vout :
                     Names(b, n, b[k], i) \/ txn[b[k]].vout[i] \in ToSet(r[n].u[b[k]])
               /\ \A q \in Made, i \in Nat : <<q, i>> \in r[n].stxos => Names(b, n, q, i)
               /\ ~SelfPayment => \A q \in Made : Found(r[n].u[q], q, r[n].stxos)
           M == {n \in Nat : n <= N => Good(n)}
<1>4. 0 \in M
  <2>1. 1..0 = {} /\ ToSet(<<>>) = {}
    BY DEF ToSet
  <2>2. Fits(x.u)
    BY <1>1, <2>1, MadeFacts DEF Fits, Finding
  <2>3. \A q \in Made : Found(x.u[q], q, x.stxos)
    BY <1>1, MadeFacts DEF Found
  <2> QED BY <1>1, <1>2, <2>1, <2>2, <2>3
<1>5. ASSUME NEW n \in Nat, n \in M PROVE n + 1 \in M
  <2> SUFFICES ASSUME n + 1 <= N PROVE Good(n + 1)
    OBVIOUS
  <2> DEFINE t == b[n + 1]
             w == r[n]
             z == r[n + 1]
  <2>1. n + 1 \in 1..N /\ (n + 1) - 1 = n /\ n <= N /\ n \in 0..N /\ t \in Made
    BY <1>3
  <2>2. w \in Finding /\ z = FindTxnOutputs(w, t) /\ Good(n)
    BY <1>2, <1>5, <2>1
  <2>3. \A i : i \in 1..n + 1 <=> i \in 1..n \/ i = n + 1
    OBVIOUS
  <2>4. b[n + 1] = t /\ Made \subseteq Id
    BY MadeFacts
  <2>5. /\ Fits(w.u)
        /\ \A k \in 1..n : \A i \in DOMAIN txn[b[k]].vout :
              Names(b, n, b[k], i) \/ txn[b[k]].vout[i] \in ToSet(w.u[b[k]])
        /\ \A q \in Made, i \in Nat : <<q, i>> \in w.stxos => Names(b, n, q, i)
        /\ ~SelfPayment => \A q \in Made : Found(w.u[q], q, w.stxos)
    BY <2>2
  <2>6. \A k \in 1..n : b[k] \in Made
    BY <1>3, <2>1
  <2> HIDE DEF t, w, z
  <2> SUFFICES /\ Fits(z.u)
               /\ \A k \in 1..n + 1 : \A i \in DOMAIN txn[b[k]].vout :
                     Names(b, n + 1, b[k], i) \/ txn[b[k]].vout[i] \in ToSet(z.u[b[k]])
               /\ \A q \in Made, i \in Nat : <<q, i>> \in z.stxos => Names(b, n + 1, q, i)
               /\ ~SelfPayment => \A q \in Made : Found(z.u[q], q, z.stxos)
    BY DEF z
  <2> DEFINE left == LeftOf(t, w.stxos)
  <2>7. /\ z \in Finding /\ z.u[t] = w.u[t] \o left
        /\ \A q \in Id \ {t} : z.u[q] = w.u[q]
        /\ z.stxos = w.stxos \cup {<<v.hash, v.index>> : v \in ToSet(txn[t].vin)}
    BY <2>1, <2>2, FindTxnFacts, Zenon
  <2>8. /\ left \in Seq(Output)
        /\ \A o \in ToSet(left) : o \in ToSet(txn[t].vout)
        /\ \A i \in DOMAIN txn[t].vout : <<t, i>> \notin w.stxos => txn[t].vout[i] \in ToSet(left)
    <3> DEFINE st == w.stxos
    <3> HIDE DEF st, Good, M, left
    <3>a. t \in Made
      BY <2>1
    <3>0. /\ LeftOf(t, st) \in Seq(Output)
          /\ \A o \in ToSet(LeftOf(t, st)) : \E i \in DOMAIN txn[t].vout : <<t, i>> \notin st /\ o = txn[t].vout[i]
          /\ \A i \in DOMAIN txn[t].vout : <<t, i>> \notin st => txn[t].vout[i] \in ToSet(LeftOf(t, st))
      BY <3>a, LeftFacts
    <3>1. /\ left \in Seq(Output)
          /\ \A o \in ToSet(left) : \E i \in DOMAIN txn[t].vout : <<t, i>> \notin w.stxos /\ o = txn[t].vout[i]
          /\ \A i \in DOMAIN txn[t].vout : <<t, i>> \notin w.stxos => txn[t].vout[i] \in ToSet(left)
      BY <3>0, Zenon DEF st, left
    <3> HIDE DEF left
    <3> QED BY <3>1, Zenon DEF ToSet
  <2> HIDE DEF left
  <2>9. w.u[t] \in Seq(Output) /\ ToSet(z.u[t]) = ToSet(w.u[t]) \cup ToSet(left)
    <3>1. w.u[t] \in Seq(Output)
      BY <2>1, <2>4, <2>5 DEF Fits, Entries
    <3> QED BY <2>7, <2>8, <3>1, ConcatSet
  <2>10. Fits(z.u)
    <3>1. z.u \in Entries
      BY <2>7 DEF Finding
    <3>2. ASSUME NEW q \in Made PROVE ToSet(z.u[q]) \subseteq ToSet(txn[q].vout)
      <4>1. CASE q = t
        BY <2>5, <2>8, <2>9, <3>2, <4>1 DEF Fits
      <4>2. CASE q # t
        BY <2>4, <2>5, <2>7, <3>2, <4>2 DEF Fits
      <4> QED BY <4>1, <4>2
    <3>3. ASSUME NEW q \in Id \ Made PROVE z.u[q] = <<>>
      BY <2>1, <2>5, <2>7, <3>3 DEF Fits
    <3> QED BY <3>1, <3>2, <3>3 DEF Fits
  <2>11. \A q, i : Names(b, n, q, i) => Names(b, n + 1, q, i)
    BY <2>3, Zenon DEF Names
  <2>12. \A q : ToSet(w.u[q]) \subseteq ToSet(z.u[q]) \/ q \notin Made
    BY <2>4, <2>7, <2>9
  <2>13. ASSUME NEW k \in 1..n + 1, NEW i \in DOMAIN txn[b[k]].vout
         PROVE  Names(b, n + 1, b[k], i) \/ txn[b[k]].vout[i] \in ToSet(z.u[b[k]])
    <3>1. CASE k \in 1..n
      BY <2>5, <2>6, <2>11, <2>12, <2>13, <3>1, Zenon
    <3>2. CASE k = n + 1
      <4>1. b[k] = t /\ i \in DOMAIN txn[t].vout /\ i \in Nat
        <5>1. b[k] = t /\ i \in DOMAIN txn[t].vout
          BY <2>4, <2>13, <3>2
        <5>2. \A j \in DOMAIN txn[t].vout : j \in Nat
          BY <2>1, MadeFacts
        <5> QED BY <5>1, <5>2
      <4>2. CASE <<t, i>> \in w.stxos
        BY <2>1, <2>5, <2>11, <4>1, <4>2, Zenon
      <4>3. CASE <<t, i>> \notin w.stxos
        BY <2>8, <2>9, <4>1, <4>3
      <4> QED BY <4>2, <4>3
    <3> QED BY <2>3, <3>1, <3>2, Zenon
  <2>14. ASSUME NEW q \in Made, NEW i \in Nat, <<q, i>> \in z.stxos PROVE Names(b, n + 1, q, i)
    <3>1. CASE <<q, i>> \in w.stxos
      BY <2>5, <2>11, <3>1, Zenon
    <3>2. CASE <<q, i>> \notin w.stxos
      <4>1. PICK v \in ToSet(txn[t].vin) : <<q, i>> = <<v.hash, v.index>>
        BY <2>7, <2>14, <3>2, Zenon
      <4>2. v.hash = q /\ v.index = i
        BY <4>1
      <4>3. n + 1 \in 1..n + 1
        BY <2>3
      <4> QED BY <2>4, <4>2, <4>3, Zenon DEF Names
    <3> QED BY <3>1, <3>2
  <2>15. ASSUME ~SelfPayment, NEW q \in Made PROVE Found(z.u[q], q, z.stxos)
    <3>1. Found(w.u[q], q, w.stxos)
      BY <2>5, <2>15
    <3>2. Found(z.u[q], q, w.stxos)
      <4>1. CASE q = t
        <5> DEFINE st == w.stxos
                   e == w.u[t]
        <5>1. e \in Seq(Output) /\ Found(e, t, st)
          BY <2>9, <3>1, <4>1
        <5>2. z.u[t] = e \o LeftOf(t, st)
          BY <2>7, Zenon DEF left
        <5> HIDE DEF st, e
        <5>3. Found(e \o LeftOf(t, st), t, st)
          BY <2>1, <2>15, <5>1, FoundStep
        <5> QED BY <4>1, <5>2, <5>3, Zenon DEF st
      <4>2. CASE q # t
        BY <2>4, <2>7, <3>1, <4>2
      <4> QED BY <4>1, <4>2
    <3> QED BY <2>7, <3>2, Zenon DEF Found
  <2> QED BY <2>10, <2>13, <2>14, <2>15, Zenon
<1> HIDE DEF M
<1>6. Nat \subseteq M
  BY <1>4, <1>5, SetInduction, Zenon
<1>7. N \in M /\ N <= N /\ N \in 0..N
  BY <1>3, <1>6
<1>8. Good(N)
  BY <1>7 DEF M
<1> QED BY <1>2, <1>8 DEF N, x

\* The i-th output of q is named by an input that the chain c confirms.
NamedIn(c, q, i) ==
    \E s \in Confirmed(c) : \E v \in ToSet(txn[s].vin) : v.hash = q /\ v.index = i

\* The sets of the parts of a sequence.
LEMMA SetsOf ==
    ASSUME NEW s
    PROVE  {ToSet(s[i]) : i \in DOMAIN s} = {ToSet(x) : x \in ToSet(s)}
BY DEF ToSet

\* The transactions of a chain, forwards and backwards.
LEMMA FlatChain ==
    ASSUME NEW S, NEW c \in Seq(Seq(S))
    PROVE  /\ FlattenSeq(c) \in Seq(S) /\ ToSet(FlattenSeq(c)) = Confirmed(c)
           /\ FlattenSeq(Reverse(c)) \in Seq(S) /\ ToSet(FlattenSeq(Reverse(c))) = Confirmed(c)
<1> DEFINE r == Reverse(c)
<1>1. r \in Seq(Seq(S)) /\ ToSet(r) = ToSet(c)
  BY ReverseSet
<1> HIDE DEF r
<1>2. /\ FlattenSeq(c) \in Seq(S) /\ ToSet(FlattenSeq(c)) = UNION {ToSet(c[i]) : i \in DOMAIN c}
      /\ FlattenSeq(r) \in Seq(S) /\ ToSet(FlattenSeq(r)) = UNION {ToSet(r[i]) : i \in DOMAIN r}
  BY <1>1, FlattenFacts, Zenon
<1>3. {ToSet(c[i]) : i \in DOMAIN c} = {ToSet(x) : x \in ToSet(c)}
  BY SetsOf
<1>4. {ToSet(r[i]) : i \in DOMAIN r} = {ToSet(x) : x \in ToSet(r)}
  BY SetsOf
<1> QED BY <1>1, <1>2, <1>3, <1>4, Zenon DEF Confirmed, r

\* The set that is rebuilt from a chain.
LEMMA FindUTXOFacts ==
    ASSUME TxnsOK, NEW c \in Seq(Seq(Made))
    PROVE  LET y == FindUTXO(c)
           IN  /\ Fits(y)
               /\ \A q \in Confirmed(c) : \A i \in DOMAIN txn[q].vout :
                     NamedIn(c, q, i) \/ txn[q].vout[i] \in ToSet(y[q])
               /\ ~SelfPayment => \A q \in Made :
                     \/ y[q] = <<>>
                     \/ \A i \in DOMAIN txn[q].vout : i \in DOMAIN y[q] /\ y[q][i] = txn[q].vout[i]
                     \/ \E i \in DOMAIN txn[q].vout :
                           NamedIn(c, q, i) /\ \A p \in ToSet(y[q]) : p.owner # txn[q].vout[i].owner
<1> DEFINE b == FlattenSeq(Reverse(c))
           z == FoldLeft(FindTxnOutputs, [u |-> [t \in Id |-> <<>>], stxos |-> {}], b)
           y == z.u
<1>1. b \in Seq(Made) /\ ToSet(b) = Confirmed(c)
  BY FlatChain
<1>2. FindUTXO(c) = y
  BY Zenon DEF FindUTXO
<1> HIDE DEF b
<1>3. /\ Fits(z.u)
      /\ \A k \in 1..Len(b) : \A i \in DOMAIN txn[b[k]].vout :
            Names(b, Len(b), b[k], i) \/ txn[b[k]].vout[i] \in ToSet(z.u[b[k]])
      /\ \A q \in Made, i \in Nat : <<q, i>> \in z.stxos => Names(b, Len(b), q, i)
      /\ ~SelfPayment => \A q \in Made : Found(z.u[q], q, z.stxos)
  BY <1>1, FindFacts, Zenon
<1> HIDE DEF z
<1>4. ToSet(b) = {b[k] : k \in 1..Len(b)}
  BY <1>1, SetOfSeq, Zenon DEF ToSet
<1>5. \A q, i : Names(b, Len(b), q, i) => NamedIn(c, q, i)
  BY <1>1, <1>4, Zenon DEF Names, NamedIn
<1>6. ASSUME NEW q \in Confirmed(c), NEW i \in DOMAIN txn[q].vout
      PROVE  NamedIn(c, q, i) \/ txn[q].vout[i] \in ToSet(z.u[q])
  <2>1. PICK k \in 1..Len(b) : b[k] = q
    BY <1>1, <1>4, <1>6, Zenon
  <2> QED BY <1>3, <1>5, <1>6, <2>1, Zenon
<1>7. ASSUME ~SelfPayment, NEW q \in Made
      PROVE  \/ z.u[q] = <<>>
             \/ \A i \in DOMAIN txn[q].vout : i \in DOMAIN z.u[q] /\ z.u[q][i] = txn[q].vout[i]
             \/ \E i \in DOMAIN txn[q].vout :
                   NamedIn(c, q, i) /\ \A p \in ToSet(z.u[q]) : p.owner # txn[q].vout[i].owner
  <2>1. \A i \in DOMAIN txn[q].vout : i \in Nat
    BY MadeFacts
  <2>2. \A i \in DOMAIN txn[q].vout : <<q, i>> \in z.stxos => NamedIn(c, q, i)
    BY <1>3, <1>5, <2>1, Zenon
  <2>3. Found(z.u[q], q, z.stxos)
    BY <1>3, <1>7
  <2> QED BY <2>2, <2>3, Zenon DEF Found
<1> QED BY <1>2, <1>3, <1>6, <1>7

-----------------------------------------------------------------------------
(* A reorganisation *)

\* The elements of a sequence and one more.
LEMMA AppendSet ==
    ASSUME NEW S, NEW s \in Seq(S), NEW e \in S
    PROVE  Append(s, e) \in Seq(S) /\ ToSet(Append(s, e)) = ToSet(s) \cup {e}
<1> DEFINE a == Append(s, e)
           n == Len(s)
<1>1. /\ n \in Nat /\ a \in Seq(S) /\ DOMAIN s = 1..n /\ DOMAIN a = 1..n + 1
      /\ a[n + 1] = e /\ \A i \in 1..n : a[i] = s[i]
  OBVIOUS
<1> HIDE DEF a, n
<1>2. \A i : i \in 1..n + 1 <=> i \in 1..n \/ i = n + 1
  BY <1>1
<1>3. ToSet(a) = ToSet(s) \cup {e}
  BY <1>1, <1>2 DEF ToSet
<1> QED BY <1>1, <1>3 DEF a

\* An input gives back its output.
LEMMA ReverseInputFacts ==
    ASSUME TxnsOK, NEW t \in Made, NEW v \in ToSet(txn[t].vin), NEW u, Fits(u)
    PROVE  LET y == ReverseInput(u, v)
           IN  /\ Fits(y) /\ v.hash \in Made /\ Spent(v) \in ToSet(y[v.hash])
               /\ \A q \in Id : ToSet(u[q]) \subseteq ToSet(y[q])
<1> DEFINE y == ReverseInput(u, v)
           e == Append(u[v.hash], Spent(v))
<1>1. /\ v.hash \in Made /\ v.hash \in Id /\ Spent(v) \in ToSet(txn[v.hash].vout)
      /\ Spent(v) \in Output
  BY MadeFacts DEF TxnsOK, TxnOK
<1>2. y = [u EXCEPT ![v.hash] = e]
  BY DEF ReverseInput, Spent
<1>3. u \in Entries /\ u[v.hash] \in Seq(Output)
  BY <1>1 DEF Fits, Entries
<1>4. e \in Seq(Output) /\ ToSet(e) = ToSet(u[v.hash]) \cup {Spent(v)}
  BY <1>1, <1>3, AppendSet
<1> HIDE DEF y, e
<1>5. y \in Entries /\ y[v.hash] = e /\ \A q \in Id \ {v.hash} : y[q] = u[q]
  BY <1>1, <1>2, <1>3, <1>4 DEF Entries
<1>6. Made \subseteq Id
  BY MadeFacts
<1>7. Fits(y)
  <2>1. ASSUME NEW q \in Made PROVE ToSet(y[q]) \subseteq ToSet(txn[q].vout)
    BY <1>1, <1>4, <1>5, <1>6 DEF Fits
  <2>2. ASSUME NEW q \in Id \ Made PROVE y[q] = <<>>
    BY <1>1, <1>5 DEF Fits
  <2> QED BY <1>5, <2>1, <2>2 DEF Fits
<1>8. \A q \in Id : ToSet(u[q]) \subseteq ToSet(y[q])
  BY <1>4, <1>5
<1> QED BY <1>1, <1>4, <1>5, <1>7, <1>8 DEF y

\* A transaction gives back what it has spent.
LEMMA ReverseTxnFacts ==
    ASSUME TxnsOK, NEW t \in Made, NEW u, Fits(u)
    PROVE  LET y == ReverseTxn(u, t)
           IN  /\ Fits(y)
               /\ \A q \in Id \ {t} : ToSet(u[q]) \subseteq ToSet(y[q])
               /\ \A v \in ToSet(txn[t].vin) : Spent(v) \in ToSet(y[v.hash])
<1> DEFINE vin == txn[t].vin
           N == Len(vin)
           x == [u EXCEPT ![t] = <<>>]
           FitSet == {z \in Entries : Fits(z)}
           y == FoldLeft(ReverseInput, x, vin)
<1>1. /\ vin \in Seq(InputSet) /\ Made \subseteq Id /\ t \in Id
      /\ ToSet(vin) = {vin[i] : i \in 1..N} /\ N \in Nat
      /\ \A i \in 1..N : vin[i] \in ToSet(vin)
  <2>1. vin \in Seq(InputSet) /\ Made \subseteq Id /\ t \in Id
    BY MadeFacts
  <2> HIDE DEF vin
  <2>2. N \in Nat /\ ToSet(vin) = {vin[i] : i \in 1..N}
    BY <2>1, SetOfSeq, Zenon DEF ToSet
  <2> QED BY <2>1, <2>2
<1>2. CASE IsCoinbase(t)
  <2>1. vin = <<>> /\ ReverseTxn(u, t) = u
    BY <1>2 DEF TxnsOK, TxnOK, IsCoinbase, ReverseTxn
  <2> QED BY <2>1 DEF ToSet
<1>3. CASE ~IsCoinbase(t)
  <2>1. ReverseTxn(u, t) = y
    BY <1>3 DEF ReverseTxn
  <2>2. /\ Fits(x) /\ x \in FitSet
        /\ \A q \in Id \ {t} : x[q] = u[q]
    <3>1. u \in Entries /\ <<>> \in Seq(Output) /\ ToSet(<<>>) = {}
      BY DEF Fits, ToSet
    <3>2. x \in Entries /\ x[t] = <<>> /\ \A q \in Id \ {t} : x[q] = u[q]
      BY <1>1, <3>1 DEF Entries
    <3> HIDE DEF x
    <3> QED BY <1>1, <3>1, <3>2 DEF Fits
  <2> HIDE DEF vin, x
  <2>3. \A z \in FitSet : \A v \in ToSet(vin) : ReverseInput(z, v) \in FitSet
    <3> SUFFICES ASSUME NEW z \in FitSet, NEW v \in ToSet(vin) PROVE ReverseInput(z, v) \in FitSet
      OBVIOUS
    <3>1. Fits(ReverseInput(z, v))
      <4>1. Fits(z) /\ v \in ToSet(txn[t].vin)
        BY DEF vin
      <4> QED BY <4>1, ReverseInputFacts, Zenon
    <3> QED BY <3>1 DEF Fits
  <2>4. vin \in Seq(ToSet(vin))
    BY <1>1
  <2> HIDE DEF FitSet
  <2>5. PICK r \in [0..N -> FitSet] :
           /\ r[0] = x /\ \A n \in 1..N : r[n] = ReverseInput(r[n - 1], vin[n])
           /\ FoldLeft(ReverseInput, x, vin) = r[N]
    <3>1. ReverseInputRuns(FitSet, x, vin)
      BY <2>2, <2>3, <2>4, ReverseInputRun, Zenon
    <3> QED BY <3>1, Zenon DEF ReverseInputRuns
  <2> HIDE DEF N
  <2> DEFINE Good(n) == /\ \A q \in Id : ToSet(x[q]) \subseteq ToSet(r[n][q])
                        /\ \A k \in 1..n : Spent(vin[k]) \in ToSet(r[n][vin[k].hash])
             M == {n \in Nat : n <= N => Good(n)}
  <2>6. 0 \in M
    <3>1. 1..0 = {}
      OBVIOUS
    <3> QED BY <2>5, <3>1
  <2>7. ASSUME NEW n \in Nat, n \in M PROVE n + 1 \in M
    <3> SUFFICES ASSUME n + 1 <= N PROVE Good(n + 1)
      OBVIOUS
    <3> DEFINE v == vin[n + 1]
               w == r[n]
               z == r[n + 1]
    <3>1. n + 1 \in 1..N /\ (n + 1) - 1 = n /\ n <= N /\ n \in 0..N
      BY <1>1
    <3>2. w \in FitSet /\ z = ReverseInput(w, v) /\ Good(n) /\ v \in ToSet(vin)
      BY <1>1, <2>5, <2>7, <3>1
    <3>3. \A i : i \in 1..n + 1 <=> i \in 1..n \/ i = n + 1
      OBVIOUS
    <3>4. Fits(w) /\ v \in ToSet(txn[t].vin)
      BY <3>2 DEF FitSet, vin
    <3>5. vin[n + 1] = v
      OBVIOUS
    <3>6. /\ \A q \in Id : ToSet(x[q]) \subseteq ToSet(w[q])
          /\ \A k \in 1..n : Spent(vin[k]) \in ToSet(w[vin[k].hash])
      BY <3>2
    <3>7. \A k \in 1..n : vin[k].hash \in Id
      <4>1. \A k \in 1..n : k \in 1..N
        BY <1>1, <3>1
      <4>2. \A k \in 1..N : vin[k] \in InputSet
        BY <1>1 DEF N
      <4>3. \A e \in InputSet : e.hash \in Id
        BY DEF InputSet
      <4> QED BY <4>1, <4>2, <4>3, Zenon
    <3> HIDE DEF v, w, z
    <3> SUFFICES /\ \A q \in Id : ToSet(x[q]) \subseteq ToSet(z[q])
                 /\ \A k \in 1..n + 1 : Spent(vin[k]) \in ToSet(z[vin[k].hash])
      BY DEF z
    <3>8. Spent(v) \in ToSet(z[v.hash]) /\ \A q \in Id : ToSet(w[q]) \subseteq ToSet(z[q])
      BY <3>2, <3>4, ReverseInputFacts, Zenon
    <3> QED BY <3>3, <3>5, <3>6, <3>7, <3>8, Zenon
  <2> HIDE DEF M
  <2>8. Nat \subseteq M
    BY <2>6, <2>7, SetInduction, Zenon
  <2>9. N \in M /\ N <= N /\ N \in 0..N
    BY <1>1, <2>8
  <2>10. Good(N) /\ y = r[N] /\ r[N] \in FitSet
    BY <2>5, <2>9 DEF M
  <2>11. Fits(r[N])
    BY <2>10 DEF FitSet
  <2> HIDE DEF y
  <2>12. \A v \in ToSet(vin) : Spent(v) \in ToSet(y[v.hash])
    BY <1>1, <2>10, Zenon
  <2>13. \A q \in Id \ {t} : ToSet(u[q]) \subseteq ToSet(y[q])
    BY <2>2, <2>10
  <2>14. Fits(y)
    BY <2>10, <2>11
  <2> QED BY <2>1, <2>12, <2>13, <2>14, Zenon DEF vin
<1> QED BY <1>2, <1>3

\* Blocks that are taken back give back what they have spent of other blocks.
LEMMA ReverseBlocksFacts ==
    ASSUME TxnsOK, NEW c \in Seq(Seq(Made)), NEW u, Fits(u)
    PROVE  LET y == ReverseBlocks(u, c)
           IN  /\ Fits(y)
               /\ \A q \in Id \ Confirmed(c) : ToSet(u[q]) \subseteq ToSet(y[q])
               /\ \A s \in Confirmed(c) : \A v \in ToSet(txn[s].vin) :
                     v.hash \notin Confirmed(c) => Spent(v) \in ToSet(y[v.hash])
<1> DEFINE b == Reverse(FlattenSeq(c))
           N == Len(b)
           FitSet == {z \in Entries : Fits(z)}
           y == ReverseBlocks(u, c)
<1>1. b \in Seq(Made) /\ ToSet(b) = Confirmed(c)
  <2>1. FlattenSeq(c) \in Seq(Made) /\ ToSet(FlattenSeq(c)) = Confirmed(c)
    BY FlatChain
  <2> QED BY <2>1, ReverseSet
<1>2. y = FoldLeft(ReverseTxn, u, b)
  BY DEF ReverseBlocks
<1> HIDE DEF b, y
<1>3. N \in Nat /\ ToSet(b) = {b[i] : i \in 1..N} /\ \A i \in 1..N : b[i] \in Made
  <2>1. N \in Nat /\ ToSet(b) = {b[i] : i \in 1..N}
    BY <1>1, SetOfSeq, Zenon DEF ToSet
  <2> QED BY <1>1, <2>1
<1>4. u \in FitSet /\ \A z \in FitSet : \A t \in Made : ReverseTxn(z, t) \in FitSet
  <2>1. ASSUME NEW z \in FitSet, NEW t \in Made PROVE ReverseTxn(z, t) \in FitSet
    <3>1. Fits(ReverseTxn(z, t))
      BY ReverseTxnFacts, Zenon
    <3> QED BY <3>1 DEF Fits
  <2> QED BY <2>1 DEF Fits
<1>5. \A z : z \in FitSet => Fits(z)
  OBVIOUS
<1> HIDE DEF FitSet
<1>6. PICK r \in [0..N -> FitSet] :
         /\ r[0] = u /\ \A n \in 1..N : r[n] = ReverseTxn(r[n - 1], b[n])
         /\ FoldLeft(ReverseTxn, u, b) = r[N]
  <2>1. ReverseTxnRuns(FitSet, u, b)
    BY <1>1, <1>4, ReverseTxnRun, Zenon
  <2> QED BY <2>1, Zenon DEF ReverseTxnRuns
<1> HIDE DEF N
<1> DEFINE Out == Id \ Confirmed(c)
           Good(n) == /\ \A q \in Out : ToSet(u[q]) \subseteq ToSet(r[n][q])
                      /\ \A k \in 1..n : \A v \in ToSet(txn[b[k]].vin) :
                            v.hash \in Out => Spent(v) \in ToSet(r[n][v.hash])
           M == {n \in Nat : n <= N => Good(n)}
<1>7. 0 \in M
  <2>1. 1..0 = {}
    OBVIOUS
  <2> QED BY <1>6, <2>1
<1>8. ASSUME NEW n \in Nat, n \in M PROVE n + 1 \in M
  <2> SUFFICES ASSUME n + 1 <= N PROVE Good(n + 1)
    <3> HIDE DEF Good
    <3> QED OBVIOUS
  <2> DEFINE t == b[n + 1]
             w == r[n]
             z == r[n + 1]
  <2>1. n + 1 \in 1..N /\ (n + 1) - 1 = n /\ n <= N /\ n \in 0..N
    BY <1>3
  <2>2. w \in FitSet /\ z = ReverseTxn(w, t) /\ Good(n) /\ t \in Made /\ t \notin Out
    BY <1>1, <1>3, <1>6, <1>8, <2>1
  <2>3. \A i : i \in 1..n + 1 <=> i \in 1..n \/ i = n + 1
    OBVIOUS
  <2>4. b[n + 1] = t
    OBVIOUS
  <2>5. /\ \A q \in Out : ToSet(u[q]) \subseteq ToSet(w[q])
        /\ \A k \in 1..n : \A v \in ToSet(txn[b[k]].vin) :
              v.hash \in Out => Spent(v) \in ToSet(w[v.hash])
    BY <2>2
  <2> HIDE DEF t, w, z
  <2> SUFFICES /\ \A q \in Out : ToSet(u[q]) \subseteq ToSet(z[q])
               /\ \A k \in 1..n + 1 : \A v \in ToSet(txn[b[k]].vin) :
                     v.hash \in Out => Spent(v) \in ToSet(z[v.hash])
    BY DEF z
  <2>6. /\ \A q \in Id \ {t} : ToSet(w[q]) \subseteq ToSet(z[q])
        /\ \A v \in ToSet(txn[t].vin) : Spent(v) \in ToSet(z[v.hash])
    <3>1. Fits(w)
      BY <1>5, <2>2
    <3> QED BY <2>2, <3>1, ReverseTxnFacts, Zenon
  <2>7. \A q \in Out : ToSet(w[q]) \subseteq ToSet(z[q])
    BY <2>2, <2>6
  <2> QED BY <2>3, <2>4, <2>5, <2>6, <2>7, Zenon
<1> HIDE DEF M
<1>9. Nat \subseteq M
  BY <1>7, <1>8, SetInduction, Zenon
<1>10. N \in M /\ N <= N /\ N \in 0..N
  BY <1>3, <1>9
<1>11. Good(N) /\ y = r[N] /\ Fits(y)
  BY <1>2, <1>5, <1>6, <1>10 DEF M
<1>12. ASSUME NEW s \in Confirmed(c), NEW v \in ToSet(txn[s].vin), v.hash \notin Confirmed(c)
       PROVE  Spent(v) \in ToSet(y[v.hash])
  <2>1. PICK k \in 1..N : b[k] = s
    BY <1>1, <1>3, <1>12, Zenon
  <2>2. s \in Made /\ v.hash \in Id
    <3>1. s \in Made
      BY <1>3, <2>1
    <3> QED BY <1>12, <3>1, MadeFacts DEF InputSet
  <2>3. v.hash \in Out
    BY <1>12, <2>2
  <2> QED BY <1>11, <1>12, <2>1, <2>3, Zenon
<1> QED BY <1>11, <1>12, Zenon DEF y

-----------------------------------------------------------------------------
(* The coins of a new transaction *)

\* A set of numbers has a least one.
LEMMA LeastOf ==
    ASSUME NEW S \in SUBSET Nat, S # {}
    PROVE  Min(S) \in S /\ \A y \in S : Min(S) <= y
<1> DEFINE R == {ss \in Nat \X Nat : ss[1] < ss[2]}
<1>1. IsWellFoundedOn(R, Nat)
  BY NatLessThanWellFounded DEF OpToRel
<1>2. \A y, z \in Nat : <<y, z>> \in R <=> y < z
  OBVIOUS
<1> HIDE DEF R
<1>3. PICK x \in S : \A y \in S : ~(<<y, x>> \in R)
  BY <1>1, WFMin, Zenon
<1>4. ASSUME NEW y \in S PROVE x <= y
  <2>1. x \in Nat /\ y \in Nat
    OBVIOUS
  <2>2. ~(y < x)
    BY <1>2, <1>3, <2>1, Zenon
  <2> QED BY <2>1, <2>2
<1>5. \E z \in S : \A y \in S : z <= y
  BY <1>4
<1> QED BY <1>5, Zenon DEF Min

\* The sums of the first values of a sequence of coins.
Sums(r, all) ==
    /\ r \in [0..Len(all) -> Nat] /\ r[0] = 0
    /\ \A n \in 1..Len(all) : r[n] = r[n - 1] + all[n].value

\* The sums that Total goes through.
LEMMA SumsExist ==
    ASSUME NEW all \in Seq(InputSet)
    PROVE  \E r : Sums(r, all) /\ Total(all) = r[Len(all)]
<1>1. \A x \in Nat : \A e \in InputSet : AddValue(x, e) \in Nat
  <2>1. \A e \in InputSet : e.value \in Nat
    BY LedgerAssumption DEF InputSet
  <2> QED BY <2>1 DEF AddValue
<1>2. AddValueRuns(Nat, 0, all)
  <2>1. 0 \in Nat
    OBVIOUS
  <2> QED BY <1>1, <2>1, AddValueRun, Zenon
<1>3. PICK r \in [0..Len(all) -> Nat] :
         /\ r[0] = 0 /\ \A n \in 1..Len(all) : r[n] = AddValue(r[n - 1], all[n])
         /\ FoldLeft(AddValue, 0, all) = r[Len(all)]
  BY <1>2, Zenon DEF AddValueRuns
<1>4. Sums(r, all) /\ Total(all) = r[Len(all)]
  BY <1>3, Zenon DEF Sums, Total, AddValue
<1> QED BY <1>4

\* They are those of the initial parts.
LEMMA SumsOfPart ==
    ASSUME NEW all \in Seq(InputSet), NEW r, Sums(r, all), NEW m \in 0..Len(all)
    PROVE  SubSeq(all, 1, m) \in Seq(InputSet) /\ Total(SubSeq(all, 1, m)) = r[m]
<1> DEFINE p == SubSeq(all, 1, m)
           L == Len(all)
<1>1. p \in Seq(InputSet) /\ Len(p) = m /\ (\A i \in 1..m : p[i] = all[i]) /\ m \in Nat /\ m <= L /\ L \in Nat
  OBVIOUS
<1> HIDE DEF p, L
<1>2. PICK f : Sums(f, p) /\ Total(p) = f[m]
  BY <1>1, SumsExist
<1>3. /\ f[0] = 0 /\ \A n \in 1..m : f[n] = f[n - 1] + all[n].value
      /\ r[0] = 0 /\ \A n \in 1..m : r[n] = r[n - 1] + all[n].value
  <2>1. \A n \in 1..m : n \in 1..L
    BY <1>1
  <2>2. f[0] = 0 /\ \A n \in 1..m : f[n] = f[n - 1] + p[n].value
    BY <1>1, <1>2, Zenon DEF Sums
  <2>3. r[0] = 0 /\ \A n \in 1..L : r[n] = r[n - 1] + all[n].value
    BY Zenon DEF Sums, L
  <2> QED BY <1>1, <2>1, <2>2, <2>3, Zenon
<1> DEFINE M == {n \in Nat : n <= m => f[n] = r[n]}
<1>4. 0 \in M
  BY <1>3
<1>5. ASSUME NEW n \in Nat, n \in M PROVE n + 1 \in M
  <2> SUFFICES ASSUME n + 1 <= m PROVE f[n + 1] = r[n + 1]
    OBVIOUS
  <2>1. n + 1 \in 1..m /\ (n + 1) - 1 = n /\ n <= m
    BY <1>1
  <2>2. f[n] = r[n]
    BY <1>5, <2>1
  <2>3. f[n + 1] = f[(n + 1) - 1] + all[n + 1].value /\ r[n + 1] = r[(n + 1) - 1] + all[n + 1].value
    BY <1>3, <2>1, Zenon
  <2> QED BY <2>1, <2>2, <2>3
<1> HIDE DEF M
<1>6. Nat \subseteq M
  BY <1>4, <1>5, SetInduction, Zenon
<1>7. f[m] = r[m]
  BY <1>1, <1>6 DEF M
<1> QED BY <1>1, <1>2, <1>7 DEF p

\* CreateTransaction takes no more coins than it needs, so the change is less than
\* the last one.
LEMMA FindUTXOsFacts ==
    ASSUME NEW C \in SUBSET InputSet, NEW from, NEW order, Coins(from, order) \in Seq(C),
           NEW amount \in 1..Subsidy, Total(FindUTXOs(from, amount, order)) - amount >= 0
    PROVE  /\ FindUTXOs(from, amount, order) \in Seq(C)
           /\ Total(FindUTXOs(from, amount, order)) - amount \in 0..Subsidy
<1> DEFINE all == Coins(from, order)
           L == Len(all)
           enough == {n \in DOMAIN all : Total(SubSeq(all, 1, n)) >= amount}
           ins == FindUTXOs(from, amount, order)
<1>1. ins = IF enough = {} THEN all ELSE SubSeq(all, 1, Min(enough))
  BY Zenon DEF FindUTXOs
<1>2. Subsidy \in Nat /\ amount \in Nat /\ 1 <= amount
  BY LedgerAssumption
<1> HIDE DEF all, ins
<1>3. all \in Seq(C) /\ all \in Seq(InputSet) /\ L \in Nat /\ DOMAIN all = 1..L
  <2>1. all \in Seq(C)
    BY DEF all
  <2> QED BY <2>1
<1>4. PICK r : Sums(r, all) /\ Total(all) = r[L]
  BY <1>3, SumsExist
<1>5. \A m \in 0..L : Total(SubSeq(all, 1, m)) = r[m]
  BY <1>3, <1>4, SumsOfPart
<1>6. /\ \A n \in 0..L : r[n] \in Nat /\ (n # 0 => r[n] = r[n - 1] + all[n].value)
      /\ r[0] = 0
  <2>1. \A n \in 0..L : n # 0 => n \in 1..L
    BY <1>3
  <2> QED BY <1>4, <2>1 DEF Sums
<1>7. \A n \in 1..L : all[n].value \in 1..Subsidy
  BY <1>3 DEF InputSet
<1>8. enough = {n \in 1..L : r[n] >= amount}
  <2>1. \A n \in 1..L : n \in 0..L
    BY <1>3
  <2> QED BY <1>3, <1>5, <2>1
<1> HIDE DEF L, enough
<1>9. CASE enough = {}
  <2>1. ins = all /\ r[L] - amount >= 0
    BY <1>1, <1>4, <1>9 DEF ins
  <2>2. L = 0 \/ L \in 1..L
    BY <1>3
  <2>3. L = 0 => r[L] = 0
    BY <1>6
  <2>4. L \in 1..L => ~(r[L] >= amount)
    BY <1>8, <1>9
  <2>5. r[L] \in Nat
    BY <1>3, <1>6
  <2> QED BY <1>2, <2>1, <2>2, <2>3, <2>4, <2>5
<1>10. CASE enough # {}
  <2> DEFINE m == Min(enough)
  <2>1. m \in enough /\ \A y \in enough : m <= y
    <3>1. enough \in SUBSET Nat
      BY <1>8
    <3> QED BY <1>10, <3>1, LeastOf
  <2> HIDE DEF m
  <2>2. m \in 1..L /\ m \in 0..L /\ m # 0 /\ r[m] >= amount /\ m - 1 \in 0..L /\ ~(m <= m - 1)
    BY <1>3, <1>8, <2>1
  <2>3. m - 1 \notin enough
    BY <2>1, <2>2
  <2>4. r[m - 1] < amount
    <3>1. CASE m = 1
      BY <1>2, <1>6, <3>1
    <3>2. CASE m # 1
      <4>1. m - 1 \in 1..L /\ r[m - 1] \in Nat
        BY <1>3, <1>6, <2>2, <3>2
      <4> QED BY <1>2, <1>8, <2>3, <4>1
    <3> QED BY <3>1, <3>2
  <2>5. r[m] = r[m - 1] + all[m].value /\ r[m] \in Nat /\ r[m - 1] \in Nat /\ all[m].value \in 1..Subsidy
    BY <1>6, <1>7, <2>2
  <2>6. r[m] - amount \in 0..Subsidy
    BY <1>2, <2>2, <2>4, <2>5
  <2>7. ins = SubSeq(all, 1, m)
    BY <1>1, <1>10 DEF m
  <2>8. ins \in Seq(C)
    BY <1>3, <2>2, <2>7 DEF L
  <2>9. Total(ins) = r[m]
    BY <1>5, <2>2, <2>7
  <2> QED BY <2>6, <2>8, <2>9 DEF ins
<1> QED BY <1>9, <1>10

\* A coin that CreateTransaction may take: it names an output that is there, by its
\* place in the entry of the UTXO set or by its index.
CoinSet ==
    {c \in InputSet :
        /\ c.hash \in Made /\ Spent(c) \in ToSet(txn[c.hash].vout)
        /\ \/ c.index \in DOMAIN utxo[c.hash] /\ utxo[c.hash][c.index] = Spent(c)
           \/ c.index \in DOMAIN txn[c.hash].vout /\ txn[c.hash].vout[c.index] = Spent(c)}

\* FlattenSeq of sequences over a set.
LEMMA FlatType ==
    ASSUME NEW S, NEW N \in Nat, NEW f \in [1..N -> Seq(S)]
    PROVE  FlattenSeq(f) \in Seq(S)
<1>1. f \in Seq(Seq(S))
  BY FunSeq
<1> QED BY <1>1, FlattenFacts

\* Sequences of at most one element.
LEMMA OneOrNone ==
    ASSUME NEW S
    PROVE  <<>> \in Seq(S) /\ \A e \in S : <<e>> \in Seq(S)
OBVIOUS

\* Following the spendings of an owner within the pool leads to coins.
LEMMA ExpandFacts ==
    ASSUME TxnsOK, NEW order \in Seq(Made), NEW coin \in CoinSet
    PROVE  ExpandTxnOutput(coin, order) \in Seq(CoinSet)
<1> DEFINE N == Len(order)
           own(t, i, o) == [hash |-> t, index |-> i, owner |-> o, value |-> txn[t].vout[i].value]
           kept(t, o) == FlattenSeq([i \in DOMAIN txn[t].vout |->
                             IF txn[t].vout[i].owner = o THEN <<own(t, i, o)>> ELSE <<>>])
           spends(v, c) == v.hash = c.hash /\ v.owner = c.owner /\ v.value = c.value
           childrenOf(c, k) == FlattenSeq([i \in DOMAIN txn[order[k]].vin |->
                     IF order[k] \in pool /\ spends(txn[order[k]].vin[i], c)
                       THEN kept(order[k], c.owner) ELSE <<>>])
           children(c) == FlattenSeq([k \in DOMAIN order |-> childrenOf(c, k)])
           after(g) == FlattenSeq([i \in DOMAIN g |-> children(g[i])])
           step(g) == IF after(g) = <<>> THEN g ELSE after(g)
           Fix(f) == [n \in 0..N |-> IF n = 0 THEN <<coin>> ELSE step(f[n - 1])]
           generation == CHOOSE f : f = Fix(f)
<1>1. ExpandTxnOutput(coin, order) = generation[N]
  BY Zenon DEF ExpandTxnOutput
<1>2. N \in Nat /\ DOMAIN order = 1..N /\ \A k \in 1..N : order[k] \in Made
  OBVIOUS
<1> HIDE DEF N
<1>3. ASSUME NEW t \in Made, NEW i \in DOMAIN txn[t].vout, NEW o, txn[t].vout[i].owner = o
      PROVE  own(t, i, o) \in CoinSet
  <2> DEFINE out == txn[t].vout[i]
             c == own(t, i, o)
  <2>1. t \in Id /\ i \in Nat \ {0} /\ out \in Output /\ out \in ToSet(txn[t].vout)
    <3>1. t \in Id /\ DOMAIN txn[t].vout = 1..Len(txn[t].vout) /\ txn[t].vout \in Seq(Output)
      BY MadeFacts
    <3> QED BY <3>1 DEF ToSet
  <2>2. out.owner = o
    BY <1>3
  <2>3. c \in InputSet /\ c.hash = t /\ c.index = i /\ Spent(c) = out
    <3> HIDE DEF out
    <3>1. out = [owner |-> o, value |-> out.value] /\ o \in Owner /\ out.value \in 1..Subsidy
      BY <2>1, <2>2 DEF Output
    <3>2. c = [hash |-> t, index |-> i, owner |-> o, value |-> out.value]
      BY Zenon DEF out
    <3> HIDE DEF c
    <3> QED BY <2>1, <3>1, <3>2 DEF InputSet, Spent
  <2> HIDE DEF c
  <2>4. c \in CoinSet
    BY <2>1, <2>3, Zenon DEF CoinSet
  <2> QED BY <2>4 DEF c
<1> HIDE DEF own
<1>4. ASSUME NEW t \in Made, NEW o PROVE kept(t, o) \in Seq(CoinSet)
  <2> DEFINE e(i) == IF txn[t].vout[i].owner = o THEN <<own(t, i, o)>> ELSE <<>>
             f == [i \in DOMAIN txn[t].vout |-> e(i)]
  <2>1. DOMAIN txn[t].vout = 1..Len(txn[t].vout) /\ Len(txn[t].vout) \in Nat
    BY MadeFacts
  <2>2. \A i \in DOMAIN txn[t].vout : e(i) \in Seq(CoinSet)
    BY <1>3, OneOrNone, Zenon
  <2>3. kept(t, o) = FlattenSeq(f)
    OBVIOUS
  <2> HIDE DEF e, kept
  <2>4. f \in [1..Len(txn[t].vout) -> Seq(CoinSet)]
    BY <2>1, <2>2, Zenon
  <2> HIDE DEF f
  <2> QED BY <2>1, <2>3, <2>4, FlatType, Zenon
<1> HIDE DEF kept, spends
<1>5. ASSUME NEW c, NEW k \in 1..N PROVE childrenOf(c, k) \in Seq(CoinSet)
  <2> DEFINE vin == txn[order[k]].vin
             e(i) == IF order[k] \in pool /\ spends(vin[i], c) THEN kept(order[k], c.owner) ELSE <<>>
             f == [i \in DOMAIN vin |-> e(i)]
  <2>1. DOMAIN vin = 1..Len(vin) /\ Len(vin) \in Nat
    <3>1. vin \in Seq(InputSet)
      BY <1>2, MadeFacts
    <3> HIDE DEF vin
    <3> QED BY <3>1
  <2>2. \A i \in DOMAIN vin : e(i) \in Seq(CoinSet)
    BY <1>2, <1>4, OneOrNone, Zenon
  <2>3. childrenOf(c, k) = FlattenSeq(f)
    OBVIOUS
  <2> HIDE DEF e, childrenOf, vin
  <2>4. f \in [1..Len(vin) -> Seq(CoinSet)]
    BY <2>1, <2>2, Zenon
  <2> HIDE DEF f
  <2> QED BY <2>1, <2>3, <2>4, FlatType, Zenon
<1> HIDE DEF childrenOf
<1>6. ASSUME NEW c PROVE children(c) \in Seq(CoinSet)
  <2> DEFINE f == [k \in DOMAIN order |-> childrenOf(c, k)]
  <2>1. f \in [1..N -> Seq(CoinSet)]
    BY <1>2, <1>5, Zenon
  <2>2. children(c) = FlattenSeq(f)
    OBVIOUS
  <2> HIDE DEF f, children
  <2> QED BY <1>2, <2>1, <2>2, FlatType, Zenon
<1> HIDE DEF children
<1>7. ASSUME NEW g \in Seq(CoinSet) PROVE step(g) \in Seq(CoinSet)
  <2> DEFINE f == [i \in DOMAIN g |-> children(g[i])]
  <2>1. DOMAIN g = 1..Len(g) /\ Len(g) \in Nat
    OBVIOUS
  <2>2. f \in [1..Len(g) -> Seq(CoinSet)]
    BY <1>6, <2>1, Zenon
  <2>3. after(g) = FlattenSeq(f)
    OBVIOUS
  <2> HIDE DEF f, after
  <2>4. after(g) \in Seq(CoinSet)
    BY <2>1, <2>2, <2>3, FlatType, Zenon
  <2> QED BY <2>4, Zenon
<1> HIDE DEF step
<1> DEFINE F == [n \in 1..N |-> [x \in Seq(CoinSet) |-> step(x)]]
<1>8. F \in [1..N -> [Seq(CoinSet) -> Seq(CoinSet)]]
      /\ \A n \in 1..N : \A x \in Seq(CoinSet) : F[n][x] = step(x)
  BY <1>7, Zenon
<1>9. \E f : f = Fix(f)
  <2> HIDE DEF F
  <2>1. <<coin>> \in Seq(CoinSet)
    BY OneOrNone
  <2>2. HasRun(Seq(CoinSet), <<coin>>, N, F)
    BY <1>2, <1>8, <2>1, Recursion, Zenon
  <2>3. PICK f \in [0..N -> Seq(CoinSet)] : f[0] = <<coin>> /\ \A n \in 1..N : f[n] = F[n][f[n - 1]]
    BY <2>2, Zenon DEF HasRun
  <2>4. \A n \in 0..N : n # 0 => n \in 1..N /\ n - 1 \in 0..N
    BY <1>2
  <2>5. \A n \in 0..N : f[n] = IF n = 0 THEN <<coin>> ELSE step(f[n - 1])
    <3> SUFFICES ASSUME NEW n \in 0..N PROVE f[n] = IF n = 0 THEN <<coin>> ELSE step(f[n - 1])
      OBVIOUS
    <3>1. CASE n = 0
      BY <2>3, <3>1
    <3>2. CASE n # 0
      <4>1. n \in 1..N /\ n - 1 \in 0..N
        BY <2>4, <3>2
      <4>2. f[n - 1] \in Seq(CoinSet)
        BY <4>1
      <4>3. f[n] = F[n][f[n - 1]] /\ F[n][f[n - 1]] = step(f[n - 1])
        BY <1>8, <2>3, <4>1, <4>2, Zenon
      <4> QED BY <3>2, <4>3
    <3> QED BY <3>1, <3>2
  <2>6. f = Fix(f)
    BY <2>5, Zenon
  <2> QED BY <2>6, Zenon
<1>10. generation = Fix(generation)
  <2> HIDE DEF Fix
  <2> QED BY <1>9, Zenon
<1> HIDE DEF generation
<1>11. \A n \in 0..N : generation[n] = IF n = 0 THEN <<coin>> ELSE step(generation[n - 1])
  BY <1>10, Zenon
<1> DEFINE M == {n \in Nat : n <= N => generation[n] \in Seq(CoinSet)}
<1>12. 0 \in M
  <2>1. <<coin>> \in Seq(CoinSet)
    BY OneOrNone
  <2>2. 0 \in 0..N
    BY <1>2
  <2>3. generation[0] = <<coin>>
    BY <1>11, <2>2, Zenon
  <2> QED BY <2>1, <2>3
<1>13. ASSUME NEW n \in Nat, n \in M PROVE n + 1 \in M
  <2> SUFFICES ASSUME n + 1 <= N PROVE generation[n + 1] \in Seq(CoinSet)
    OBVIOUS
  <2>1. n + 1 \in 0..N /\ (n + 1) - 1 = n /\ n <= N /\ n + 1 # 0
    BY <1>2
  <2>2. generation[n] \in Seq(CoinSet)
    BY <1>13, <2>1
  <2>3. generation[n + 1] = step(generation[(n + 1) - 1])
    BY <1>11, <2>1, Zenon
  <2>4. generation[n + 1] = step(generation[n])
    BY <2>1, <2>3
  <2> QED BY <1>7, <2>2, <2>4, Zenon
<1> HIDE DEF M
<1>14. Nat \subseteq M
  BY <1>12, <1>13, SetInduction, Zenon
<1>15. generation[N] \in Seq(CoinSet)
  BY <1>2, <1>14 DEF M
<1> QED BY <1>1, <1>15

\* The coins that FindUTXOs chooses from.
LEMMA CoinsFacts ==
    ASSUME TxnsOK, Fits(utxo), NEW order \in Seq(Made), NEW from
    PROVE  Coins(from, order) \in Seq(CoinSet)
<1> DEFINE N == Len(order)
           coin(t, i) == [hash |-> t, index |-> i, owner |-> from, value |-> utxo[t][i].value]
           e(t, i) == IF utxo[t][i].owner = from THEN ExpandTxnOutput(coin(t, i), order) ELSE <<>>
           of(t) == FlattenSeq([i \in DOMAIN utxo[t] |-> e(t, i)])
           f == [k \in DOMAIN order |-> of(order[k])]
<1>1. Coins(from, order) = FlattenSeq(f)
  BY Zenon DEF Coins
<1>2. N \in Nat /\ DOMAIN order = 1..N /\ \A k \in 1..N : order[k] \in Made
  OBVIOUS
<1>3. ASSUME NEW t \in Made
      PROVE  /\ t \in Id /\ utxo[t] \in Seq(Output) /\ DOMAIN utxo[t] = 1..Len(utxo[t])
             /\ Len(utxo[t]) \in Nat /\ ToSet(utxo[t]) \subseteq ToSet(txn[t].vout)
  <2>1. t \in Id /\ utxo[t] \in Seq(Output) /\ ToSet(utxo[t]) \subseteq ToSet(txn[t].vout)
    BY MadeFacts DEF Fits, Entries
  <2> QED BY <2>1
<1> HIDE DEF N
<1>4. ASSUME NEW t \in Made, NEW i \in DOMAIN utxo[t], utxo[t][i].owner = from
      PROVE  coin(t, i) \in CoinSet
  <2> DEFINE out == utxo[t][i]
             c == coin(t, i)
  <2>1. t \in Id /\ i \in Nat \ {0} /\ out \in Output /\ out \in ToSet(txn[t].vout)
    <3>1. t \in Id /\ i \in Nat \ {0} /\ out \in Output
      BY <1>3
    <3>2. out \in ToSet(utxo[t])
      BY DEF ToSet
    <3> QED BY <1>3, <3>1, <3>2
  <2>2. out.owner = from
    BY <1>4
  <2>3. c \in InputSet /\ c.hash = t /\ c.index = i /\ Spent(c) = out
    <3> HIDE DEF out
    <3>1. out = [owner |-> from, value |-> out.value] /\ from \in Owner /\ out.value \in 1..Subsidy
      BY <2>1, <2>2 DEF Output
    <3>2. c = [hash |-> t, index |-> i, owner |-> from, value |-> out.value]
      BY Zenon DEF out
    <3> HIDE DEF c
    <3> QED BY <2>1, <3>1, <3>2 DEF InputSet, Spent
  <2> HIDE DEF c
  <2>4. c \in CoinSet
    BY <2>1, <2>3, Zenon DEF CoinSet
  <2> QED BY <2>4 DEF c
<1> HIDE DEF coin
<1>5. ASSUME NEW t \in Made, NEW i \in DOMAIN utxo[t] PROVE e(t, i) \in Seq(CoinSet)
  BY <1>4, ExpandFacts, OneOrNone, Zenon
<1> HIDE DEF e
<1>6. ASSUME NEW t \in Made PROVE of(t) \in Seq(CoinSet)
  <2> DEFINE g == [i \in DOMAIN utxo[t] |-> e(t, i)]
  <2>1. DOMAIN utxo[t] = 1..Len(utxo[t]) /\ Len(utxo[t]) \in Nat
    BY <1>3
  <2>2. g \in [1..Len(utxo[t]) -> Seq(CoinSet)]
    BY <1>5, <2>1, Zenon
  <2>3. of(t) = FlattenSeq(g)
    OBVIOUS
  <2> HIDE DEF g, of
  <2> QED BY <2>1, <2>2, <2>3, FlatType, Zenon
<1> HIDE DEF of
<1>7. f \in [1..N -> Seq(CoinSet)]
  BY <1>2, <1>6, Zenon
<1> HIDE DEF f
<1> QED BY <1>1, <1>2, <1>7, FlatType, Zenon

-----------------------------------------------------------------------------
(* What the set keeps *)

\* What the inputs that the chain c confirms spend of each transaction.
ChainSpent(c) ==
    [q \in Made |-> {o \in Output : \E s \in Confirmed(c) : \E v \in ToSet(txn[s].vin) :
                                        v.hash = q /\ Spent(v) = o}]

\* The entries u hold what nobody has spent on the chain c.
Kept(c, u) ==
    \A t \in Confirmed(c) : \A out \in ToSet(txn[t].vout) :
        out \notin ChainSpent(c)[t] => out \in ToSet(u[t])

\* An input that does not name its output by the index names one that is spent.
NamedOn(c) ==
    \A t \in Made : \A v \in ToSet(txn[t].vin) :
        \/ txn[v.hash].vout[v.index] = Spent(v)
        \/ txn[v.hash].vout[v.index] \in ChainSpent(c)[v.hash]

\* Transactions of a chain.
LEMMA ConfirmedMade ==
    ASSUME NEW S, NEW c \in Seq(Seq(S))
    PROVE  Confirmed(c) \subseteq S
<1>1. \A i \in DOMAIN c : c[i] \in Seq(S)
  OBVIOUS
<1>2. \A i \in DOMAIN c : ToSet(c[i]) \subseteq S
  BY <1>1, SetOfSeq
<1> QED BY <1>2, Zenon DEF Confirmed

\* A chain of transactions that are made.
LEMMA ChainIds ==
    ASSUME TxnsOK, NEW c \in Seq(Seq(Made))
    PROVE  c \in Seq(Seq(Id)) /\ Confirmed(c) \subseteq Made
<1>1. \A s \in Seq(Made) : s \in Seq(Id)
  BY MadeFacts, SeqMonotone
<1>2. Seq(Made) \subseteq Seq(Id)
  BY <1>1
<1> QED BY <1>2, SeqMonotone, ConfirmedMade, Zenon

\* What a chain spends.
LEMMA ChainSpentFacts ==
    ASSUME TxnsOK, NEW c, NEW q \in Made
    PROVE  /\ \A s \in Confirmed(c) \cap Made : \A v \in ToSet(txn[s].vin) :
                 v.hash = q => Spent(v) \in ChainSpent(c)[q]
           /\ \A o \in ChainSpent(c)[q] : \E s \in Confirmed(c) : \E v \in ToSet(txn[s].vin) :
                 v.hash = q /\ Spent(v) = o
           /\ \A d : Confirmed(c) \subseteq Confirmed(d) => ChainSpent(c)[q] \subseteq ChainSpent(d)[q]
<1>1. \A d : ChainSpent(d)[q] = {o \in Output : \E s \in Confirmed(d) : \E v \in ToSet(txn[s].vin) :
                                    v.hash = q /\ Spent(v) = o}
  BY DEF ChainSpent
<1>2. \A s \in Made : \A v \in ToSet(txn[s].vin) : Spent(v) \in Output
  BY MadeFacts DEF TxnsOK, TxnOK
<1> QED BY <1>1, <1>2, Zenon

\* Two outputs of a transaction have different owners.
LEMMA OwnersDiffer ==
    ASSUME TxnsOK, ~SelfPayment, NEW t \in Made
    PROVE  /\ \A i, j \in DOMAIN txn[t].vout : i # j => txn[t].vout[i].owner # txn[t].vout[j].owner
           /\ \A o, p \in ToSet(txn[t].vout) : o.owner = p.owner => o = p
           /\ \A o, p \in ToSet(txn[t].vout) : \A i \in DOMAIN txn[t].vout :
                 o # p => txn[t].vout[i] \in {o, p}
<1> DEFINE vout == txn[t].vout
<1>1. /\ vout \in Seq(Output) /\ Len(vout) \in {1, 2} /\ DOMAIN vout = 1..Len(vout)
      /\ Len(vout) = 2 => vout[1].owner # vout[2].owner
  BY MadeFacts DEF TxnsOK, TxnOK
<1> HIDE DEF vout
<1>2. \A i \in DOMAIN vout : i = 1 \/ (i = 2 /\ Len(vout) = 2)
  BY <1>1
<1>3. \A i, j \in DOMAIN vout : i # j => vout[i].owner # vout[j].owner
  BY <1>1, <1>2
<1>4. \A o \in ToSet(vout) : \E i \in DOMAIN vout : vout[i] = o
  BY DEF ToSet
<1>5. \A o, p \in ToSet(vout) : o.owner = p.owner => o = p
  <2> SUFFICES ASSUME NEW o \in ToSet(vout), NEW p \in ToSet(vout), o.owner = p.owner PROVE o = p
    OBVIOUS
  <2>1. PICK i \in DOMAIN vout : vout[i] = o
    BY <1>4
  <2>2. PICK j \in DOMAIN vout : vout[j] = p
    BY <1>4
  <2> QED BY <1>3, <2>1, <2>2
<1>6. \A o, p \in ToSet(vout) : \A i \in DOMAIN vout : o # p => vout[i] \in {o, p}
  BY <1>2, <1>4
<1> QED BY <1>3, <1>5, <1>6 DEF vout

\* Update, by either way, loses nothing that is unspent after the block.
LEMMA UpdateFacts ==
    ASSUME TxnsOK, NEW u, Fits(u), NEW c \in Seq(Seq(Made)), NEW b \in Seq(Made), NEW x, NEW y,
           x = FoldLeft(UpdateTxn, [u |-> u, miss |-> FALSE], b),
           y = IF x.miss THEN FindUTXO(Append(c, b)) ELSE x.u
    PROVE  /\ Fits(y)
           /\ ~SelfPayment /\ NamedOn(Append(c, b)) /\ AllPlaced(u, ChainSpent(c))
                 => AllPlaced(y, ChainSpent(Append(c, b)))
           /\ ~SelfPayment /\ NamedOn(Append(c, b)) /\ Kept(c, u) => Kept(Append(c, b), y)
<1> DEFINE d == Append(c, b)
           Z == ChainSpent(d)
<1>1. d \in Seq(Seq(Made)) /\ Confirmed(d) = Confirmed(c) \cup ToSet(b)
  <2>1. c \in Seq(Seq(Id)) /\ b \in Seq(Id)
    BY ChainIds, MadeFacts, SeqMonotone
  <2> QED BY <2>1, ConfirmedAppend
<1>2. Confirmed(d) \subseteq Made /\ ToSet(b) \subseteq Confirmed(d) /\ Confirmed(c) \subseteq Confirmed(d)
  <2> HIDE DEF d
  <2> QED BY <1>1, ChainIds
<1> HIDE DEF d
<1>3. \A t \in Confirmed(d) : \A v \in ToSet(txn[t].vin) :
         /\ v.hash \in Made /\ Spent(v) \in Z[v.hash] /\ v.index \in DOMAIN txn[v.hash].vout
         /\ Spent(v) \in ToSet(txn[v.hash].vout)
  <2> SUFFICES ASSUME NEW t \in Confirmed(d), NEW v \in ToSet(txn[t].vin)
               PROVE  /\ v.hash \in Made /\ Spent(v) \in Z[v.hash] /\ v.index \in DOMAIN txn[v.hash].vout
                      /\ Spent(v) \in ToSet(txn[v.hash].vout)
    BY Zenon
  <2>1. t \in Made /\ v.hash \in Made /\ v.index \in DOMAIN txn[v.hash].vout
        /\ Spent(v) \in ToSet(txn[v.hash].vout)
    BY <1>2, Zenon DEF TxnsOK, TxnOK
  <2>2. Spent(v) \in Z[v.hash]
    BY <2>1, ChainSpentFacts, Zenon
  <2> QED BY <2>1, <2>2
<1>4. \A q \in Made : ChainSpent(c)[q] \subseteq Z[q]
  BY <1>2, ChainSpentFacts, Zenon
<1> HIDE DEF Z
<1>5. /\ x \in Updated
      /\ ~x.miss => Fits(x.u) /\ Keeps(u, x.u, b, Len(b)) /\ (AllPlaced(u, Z) => AllPlaced(x.u, Z))
  <2>1. \A t \in ToSet(b) : \A v \in ToSet(txn[t].vin) : Spent(v) \in Z[v.hash]
    BY <1>2, <1>3, Zenon
  <2> QED BY <2>1, BlockFacts, Zenon
<1> DEFINE f == FindUTXO(d)
<1>6. /\ Fits(f)
      /\ \A q \in Confirmed(d) : \A i \in DOMAIN txn[q].vout :
            NamedIn(d, q, i) \/ txn[q].vout[i] \in ToSet(f[q])
      /\ ~SelfPayment => \A q \in Made :
            \/ f[q] = <<>>
            \/ \A i \in DOMAIN txn[q].vout : i \in DOMAIN f[q] /\ f[q][i] = txn[q].vout[i]
            \/ \E i \in DOMAIN txn[q].vout :
                  NamedIn(d, q, i) /\ \A p \in ToSet(f[q]) : p.owner # txn[q].vout[i].owner
  BY <1>1, FindUTXOFacts, Zenon
<1>7. y = IF x.miss THEN f ELSE x.u
  BY Zenon DEF d
<1> HIDE DEF f
<1>8. Fits(y)
  BY <1>5, <1>6, <1>7, Zenon
<1>9. ASSUME NamedOn(d), NEW q \in Made, NEW i \in DOMAIN txn[q].vout, NamedIn(d, q, i)
      PROVE  txn[q].vout[i] \in Z[q]
  <2>0. PICK s \in Confirmed(d) : \E v \in ToSet(txn[s].vin) : v.hash = q /\ v.index = i
    BY <1>9, Zenon DEF NamedIn
  <2>1. PICK v \in ToSet(txn[s].vin) : v.hash = q /\ v.index = i
    BY <2>0
  <2>2. Spent(v) \in Z[q] /\ s \in Made
    BY <1>2, <1>3, <2>1, Zenon
  <2>3. txn[q].vout[i] = Spent(v) \/ txn[q].vout[i] \in Z[q]
    BY <1>9, <2>1, <2>2, Zenon DEF NamedOn, Z
  <2> QED BY <2>2, <2>3
<1>10. ASSUME ~SelfPayment, NamedOn(d), AllPlaced(u, ChainSpent(c)) PROVE AllPlaced(y, Z)
  <2>1. AllPlaced(u, Z)
    BY <1>4, <1>10, Zenon DEF AllPlaced, Placed
  <2>2. CASE ~x.miss
    BY <1>5, <1>7, <2>1, <2>2, Zenon
  <2>3. CASE x.miss
    <3>1. y = f
      BY <1>7, <2>3
    <3>2. ASSUME NEW q \in Made PROVE Placed(f[q], txn[q].vout, Z[q])
      <4>1. ASSUME NEW i \in DOMAIN txn[q].vout, NamedIn(d, q, i),
                   \A p \in ToSet(f[q]) : p.owner # txn[q].vout[i].owner
            PROVE  Placed(f[q], txn[q].vout, Z[q])
        <5>1. txn[q].vout[i] \in Z[q]
          BY <1>9, <1>10, <4>1
        <5>2. txn[q].vout[i] \in ToSet(txn[q].vout)
          BY DEF ToSet
        <5> QED BY <4>1, <5>1, <5>2, Zenon DEF Placed
      <4> QED BY <1>6, <1>10, <4>1, Zenon DEF Placed
    <3> QED BY <3>1, <3>2, Zenon DEF AllPlaced
  <2> QED BY <2>2, <2>3
<1>11. ASSUME ~SelfPayment, NamedOn(d), Kept(c, u) PROVE Kept(d, y)
  <2> SUFFICES ASSUME NEW q \in Confirmed(d), NEW o \in ToSet(txn[q].vout), o \notin Z[q]
               PROVE  o \in ToSet(y[q])
    BY Zenon DEF Kept, Z
  <2>1. q \in Made
    BY <1>2
  <2>2. CASE x.miss
    <3>1. PICK i \in DOMAIN txn[q].vout : txn[q].vout[i] = o
      BY DEF ToSet
    <3>2. ~NamedIn(d, q, i)
      BY <1>9, <1>11, <2>1, <3>1
    <3> QED BY <1>6, <1>7, <2>2, <3>1, <3>2, Zenon
  <2>3. CASE ~x.miss
    <3>1. o \in ToSet(u[q]) \/ \E i \in 1..Len(b) : b[i] = q
      <4>1. CASE q \in ToSet(b)
        <5>1. ToSet(b) = {b[i] : i \in 1..Len(b)}
          BY SetOfSeq, Zenon DEF ToSet
        <5> QED BY <4>1, <5>1, Zenon
      <4>2. CASE q \notin ToSet(b)
        <5>1. q \in Confirmed(c) /\ o \notin ChainSpent(c)[q]
          BY <1>1, <1>4, <2>1, <4>2
        <5> QED BY <1>11, <5>1, Zenon DEF Kept
      <4> QED BY <4>1, <4>2
    <3>2. ASSUME NEW i \in 1..Len(b), Takes(b[i], q, o) PROVE FALSE
      <4>1. b[i] \in Confirmed(d)
        <5>1. b[i] \in ToSet(b)
          BY DEF ToSet
        <5> QED BY <1>2, <5>1
      <4>2. PICK v \in ToSet(txn[b[i]].vin) : v.hash = q /\ v.owner = o.owner
        BY <3>2, Zenon DEF Takes
      <4>3. Spent(v) \in Z[q] /\ Spent(v) \in ToSet(txn[q].vout)
        BY <1>3, <4>1, <4>2, Zenon
      <4>4. Spent(v).owner = o.owner
        BY <4>2 DEF Spent
      <4>5. Spent(v) = o
        BY <1>11, <2>1, <4>3, <4>4, OwnersDiffer, Zenon
      <4> QED BY <4>3, <4>5
    <3>3. o \in ToSet(x.u[q])
      BY <1>5, <2>1, <2>3, <3>1, <3>2, Zenon DEF Keeps
    <3> QED BY <1>7, <2>3, <3>3
  <2> QED BY <2>2, <2>3
<1> QED BY <1>8, <1>10, <1>11 DEF d, Z

\* A reorganisation loses nothing that is unspent without the blocks it takes
\* back.
LEMMA RevertFacts ==
    ASSUME TxnsOK, NEW u, Fits(u), NEW c \in Seq(Seq(Made)), NEW m \in Nat, m <= Len(c)
    PROVE  LET gone == SubSeq(c, m + 1, Len(c))
               y == ReverseBlocks(u, gone)
           IN  /\ gone \in Seq(Seq(Made)) /\ Fits(y)
               /\ Disjoint(c) /\ Kept(c, u) => Kept(SubSeq(c, 1, m), y)
<1> DEFINE gone == SubSeq(c, m + 1, Len(c))
           stay == SubSeq(c, 1, m)
           y == ReverseBlocks(u, gone)
<1>1. gone \in Seq(Seq(Made))
  OBVIOUS
<1>2. stay \in Seq(Seq(Made))
  BY Initial
<1>3. c \in Seq(Seq(Id)) /\ Confirmed(c) \subseteq Made
  BY ChainIds
<1>4. Disjoint(c) => Confirmed(stay) = Confirmed(c) \ Confirmed(gone)
  BY <1>3, ConfirmedSplit
<1> HIDE DEF gone, stay
<1>5. /\ Fits(y)
      /\ \A q \in Id \ Confirmed(gone) : ToSet(u[q]) \subseteq ToSet(y[q])
      /\ \A s \in Confirmed(gone) : \A v \in ToSet(txn[s].vin) :
            v.hash \notin Confirmed(gone) => Spent(v) \in ToSet(y[v.hash])
  BY <1>1, ReverseBlocksFacts, Zenon
<1> HIDE DEF y
<1>6. ASSUME Disjoint(c), Kept(c, u) PROVE Kept(stay, y)
  <2> SUFFICES ASSUME NEW q \in Confirmed(stay), NEW o \in ToSet(txn[q].vout),
                      o \notin ChainSpent(stay)[q]
               PROVE  o \in ToSet(y[q])
    BY Zenon DEF Kept
  <2>1. q \in Confirmed(c) /\ q \notin Confirmed(gone) /\ q \in Made /\ q \in Id
    BY <1>3, <1>4, <1>6, MadeFacts
  <2>2. CASE o \notin ChainSpent(c)[q]
    <3>1. o \in ToSet(u[q])
      BY <1>6, <2>1, <2>2, Zenon DEF Kept
    <3> QED BY <1>5, <2>1, <3>1
  <2>3. CASE o \in ChainSpent(c)[q]
    <3>0. PICK s \in Confirmed(c) : \E v \in ToSet(txn[s].vin) : v.hash = q /\ Spent(v) = o
      BY <2>1, <2>3, ChainSpentFacts, Zenon
    <3>1. PICK v \in ToSet(txn[s].vin) : v.hash = q /\ Spent(v) = o
      BY <3>0
    <3>2. s \notin Confirmed(stay)
      BY <1>3, <2>1, <3>1, ChainSpentFacts
    <3>3. s \in Confirmed(gone)
      BY <1>4, <1>6, <3>1, <3>2
    <3> QED BY <1>5, <2>1, <3>1, <3>3, Zenon
  <2> QED BY <2>2, <2>3
<1> QED BY <1>1, <1>5, <1>6 DEF gone, stay, y

-----------------------------------------------------------------------------
(* The inductive invariant of the coins *)

\* Every block has a coinbase of its own in front.
Headed(c) ==
    /\ \A i \in DOMAIN c : c[i] # <<>> /\ c[i][1] \in Coinbase
    /\ \A i, j \in DOMAIN c : i # j => c[i][1] # c[j][1]

AllTypes ==
    /\ TxnsOK
    /\ Fits(utxo)
    /\ chain \in Seq(Seq(Made)) /\ Headed(chain)
    /\ index \subseteq Made
    /\ pool \subseteq Made
    /\ pc \in {"idle", "verify", "add"}
    /\ arg \in Made \cup {0}
    /\ pc # "idle" => arg \in Made
    /\ owed \in 0..Len(Miners)
    /\ reorgs \in 0..MaxReorg
    /\ exited \in {"no", "sign", "memory"}

\* As long as blocks only come, an entry has its outputs at their places or has
\* lost one that is spent, so that an index read off its place does no harm.
Placing == reorgs = 0 => NamedOn(chain) /\ AllPlaced(utxo, ChainSpent(chain))

Keeping == reorgs = 0 \/ (~raced /\ IndexesTrue) => Kept(chain, utxo)

CoinInv == AllTypes /\ (~SelfPayment => Placing /\ Keeping)

\* A block more.
LEMMA HeadedAppend ==
    ASSUME NEW S, NEW c \in Seq(Seq(S)), Headed(c), NEW k \in Coinbase, k \in S,
           k \notin Confirmed(c), NEW ts \in Seq(S)
    PROVE  LET b == <<k>> \o ts
           IN  b \in Seq(S) /\ Append(c, b) \in Seq(Seq(S)) /\ Headed(Append(c, b))
<1> DEFINE b == <<k>> \o ts
           d == Append(c, b)
           n == Len(c)
<1>1. b \in Seq(S) /\ b # <<>> /\ b[1] = k
  OBVIOUS
<1> HIDE DEF b
<1>2. /\ n \in Nat /\ d \in Seq(Seq(S)) /\ DOMAIN c = 1..n /\ DOMAIN d = 1..n + 1
      /\ d[n + 1] = b /\ \A i \in 1..n : d[i] = c[i]
  BY <1>1
<1> HIDE DEF d, n
<1>3. \A i \in DOMAIN d : (i \in DOMAIN c /\ d[i] = c[i]) \/ (i = n + 1 /\ d[i] = b)
  BY <1>2
<1>4. ASSUME NEW i \in DOMAIN c PROVE c[i][1] # k
  <2>1. c[i] \in Seq(S) /\ c[i] # <<>>
    BY DEF Headed
  <2>2. 1 \in DOMAIN c[i]
    BY <2>1
  <2>3. c[i][1] \in ToSet(c[i])
    BY <2>2 DEF ToSet
  <2>4. c[i][1] \in Confirmed(c)
    BY <2>3, Zenon DEF Confirmed
  <2> QED BY <2>4
<1>5. Headed(d)
  <2>1. \A i \in DOMAIN d : d[i] # <<>> /\ d[i][1] \in Coinbase
    BY <1>1, <1>3, Zenon DEF Headed
  <2>2. \A i, j \in DOMAIN d : i # j => d[i][1] # d[j][1]
    BY <1>1, <1>3, <1>4, Zenon DEF Headed
  <2> QED BY <2>1, <2>2, Zenon DEF Headed
<1> QED BY <1>1, <1>2, <1>5 DEF b, d

\* Some blocks less.
LEMMA HeadedInitial ==
    ASSUME NEW S, NEW c \in Seq(Seq(S)), Headed(c), NEW m \in Nat, m <= Len(c)
    PROVE  SubSeq(c, 1, m) \in Seq(Seq(S)) /\ Headed(SubSeq(c, 1, m))
<1> DEFINE d == SubSeq(c, 1, m)
<1>1. d \in Seq(Seq(S)) /\ DOMAIN d = 1..m /\ \A i \in 1..m : d[i] = c[i]
  BY Initial
<1>2. \A i \in 1..m : i \in DOMAIN c
  OBVIOUS
<1> HIDE DEF d
<1>3. Headed(d)
  BY <1>1, <1>2, Zenon DEF Headed
<1> QED BY <1>1, <1>3 DEF d

\* There are no more blocks than coinbases.
LEMMA HeadedLen ==
    ASSUME NEW S, NEW c \in Seq(Seq(S)), Headed(c)
    PROVE  Len(c) <= Len(Miners)
<1> DEFINE f == [i \in 1..Len(c) |-> c[i][1]]
<1>1. DOMAIN c = 1..Len(c) /\ Len(c) \in Nat
  OBVIOUS
<1>2. f \in Injection(1..Len(c), Coinbase)
  <2>1. \A i \in 1..Len(c) : c[i][1] \in Coinbase
    BY <1>1, Zenon DEF Headed
  <2>2. f \in [1..Len(c) -> Coinbase]
    BY <2>1, Zenon
  <2>3. \A i, j \in 1..Len(c) : f[i] = f[j] => i = j
    BY <1>1, Zenon DEF Headed
  <2> HIDE DEF f
  <2> QED BY <2>2, <2>3, Zenon DEF Injection, IsInjective
<1>3. \A n \in Nat : IsFiniteSet(1..n) /\ Cardinality(1..n) = n
  <2> SUFFICES ASSUME NEW n \in Nat PROVE IsFiniteSet(1..n) /\ Cardinality(1..n) = n
    OBVIOUS
  <2>1. 1 \in Int /\ n \in Int
    OBVIOUS
  <2>2. IsFiniteSet(1..n) /\ Cardinality(1..n) = IF 1 > n THEN 0 ELSE n - 1 + 1
    BY <2>1, FS_Interval, Zenon
  <2> QED BY <2>2
<1>4. Len(Miners) \in Nat
  BY ConstFacts
<1> HIDE DEF f
<1>5. Cardinality(1..Len(c)) <= Cardinality(Coinbase)
  <2>1. IsFiniteSet(Coinbase)
    BY <1>3, <1>4 DEF Coinbase
  <2> QED BY <1>2, <2>1, FS_Injection, Zenon
<1> QED BY <1>1, <1>3, <1>4, <1>5 DEF Coinbase

\* The invariant after a step that makes no transaction.
LEMMA SameTxns ==
    ASSUME txn' = txn
    PROVE  /\ Made' = Made /\ TxnsOK' = TxnsOK
           /\ Fits(utxo)' = Fits(utxo')
           /\ NamedOn(chain)' = NamedOn(chain')
           /\ AllPlaced(utxo, ChainSpent(chain))' = AllPlaced(utxo', ChainSpent(chain'))
           /\ Kept(chain, utxo)' = Kept(chain', utxo')
           /\ IndexesTrue' = IndexesTrue
<1>1. Made' = Made
  BY DEF Made
<1>2. TxnsOK' = TxnsOK
  BY <1>1 DEF TxnsOK, TxnOK
<1>3. ChainSpent(chain)' = ChainSpent(chain')
  BY <1>1 DEF ChainSpent
<1>4. Fits(utxo)' = Fits(utxo')
  BY <1>1 DEF Fits
<1>5. NamedOn(chain)' = NamedOn(chain')
  BY <1>1, <1>3 DEF NamedOn
<1>6. AllPlaced(utxo, ChainSpent(chain))' = AllPlaced(utxo', ChainSpent(chain'))
  BY <1>1, <1>3 DEF AllPlaced
<1>7. Kept(chain, utxo)' = Kept(chain', utxo')
  BY <1>1, <1>3 DEF Kept
<1>8. IndexesTrue' = IndexesTrue
  BY <1>1 DEF IndexesTrue
<1> QED BY <1>1, <1>2, <1>4, <1>5, <1>6, <1>7, <1>8

\* AddBlock and Update.
LEMMA AddBlockCoins ==
    ASSUME CoinInv, NEW k \in Coinbase, NEW ts \in Seq(Made), k \notin Confirmed(chain),
           AddBlock(<<k>> \o ts),
           txn' = txn, pc' = pc, arg' = arg, owed' \in 0..Len(Miners), reorgs' = reorgs,
           exited' = exited
    PROVE  CoinInv'
<1> DEFINE b == <<k>> \o ts
           left == pool \ ToSet(b)
           x == FoldLeft(UpdateTxn, [u |-> utxo, miss |-> FALSE], b)
<1>1. PICK order \in GetTxns(left) : pool' = CleanUp(left, order, index \cup ToSet(b))
  BY Zenon DEF AddBlock
<1>2. /\ chain' = Append(chain, b)
      /\ raced' = (raced \/ pc # "idle" \/ Cardinality(left) > PackLimit)
      /\ utxo' = IF x.miss THEN FindUTXO(chain') ELSE x.u
      /\ index' = IF x.miss THEN Confirmed(chain') ELSE index \cup ToSet(b)
  BY Zenon DEF AddBlock, Update
<1>3. AllTypes /\ TxnsOK /\ Fits(utxo) /\ chain \in Seq(Seq(Made)) /\ Headed(chain)
  BY DEF CoinInv, AllTypes
<1>4. Made \subseteq Id /\ k \in Made
  BY <1>3, MadeFacts
<1>5. b \in Seq(Made) /\ chain' \in Seq(Seq(Made)) /\ Headed(chain')
  BY <1>2, <1>3, <1>4, HeadedAppend, Zenon
<1> HIDE DEF b, x
<1>6. Confirmed(chain') \subseteq Made /\ ToSet(b) \subseteq Made
  BY <1>3, <1>5, ConfirmedMade, SetOfSeq
<1>7. pool' \subseteq Made
  <2>1. left \in SUBSET Id /\ left \subseteq Made
    BY <1>3, <1>4 DEF AllTypes
  <2>2. pool' \subseteq left
    BY <1>1, <2>1, CleanUpClosed
  <2> QED BY <2>1, <2>2
<1>8. index' \subseteq Made
  BY <1>2, <1>3, <1>6 DEF AllTypes
<1>9. /\ Fits(utxo')
      /\ ~SelfPayment /\ NamedOn(chain') /\ AllPlaced(utxo, ChainSpent(chain))
            => AllPlaced(utxo', ChainSpent(chain'))
      /\ ~SelfPayment /\ NamedOn(chain') /\ Kept(chain, utxo) => Kept(chain', utxo')
  <2> DEFINE d == Append(chain, b)
             y == IF x.miss THEN FindUTXO(d) ELSE x.u
  <2>1. d = chain' /\ y = utxo'
    BY <1>2
  <2>2. /\ Fits(y)
        /\ ~SelfPayment /\ NamedOn(d) /\ AllPlaced(utxo, ChainSpent(chain))
              => AllPlaced(y, ChainSpent(d))
        /\ ~SelfPayment /\ NamedOn(d) /\ Kept(chain, utxo) => Kept(d, y)
    <3>1. x = FoldLeft(UpdateTxn, [u |-> utxo, miss |-> FALSE], b)
      BY DEF x
    <3>2. y = IF x.miss THEN FindUTXO(Append(chain, b)) ELSE x.u
      OBVIOUS
    <3> HIDE DEF y
    <3>3. TxnsOK /\ Fits(utxo) /\ chain \in Seq(Seq(Made)) /\ b \in Seq(Made)
      BY <1>3, <1>5
    <3> QED BY <3>1, <3>2, <3>3, UpdateFacts, Zenon
  <2> HIDE DEF d, y
  <2> QED BY <2>1, <2>2, Zenon
<1>10. NamedOn(chain) => NamedOn(chain')
  <2>1. Confirmed(chain) \subseteq Confirmed(chain')
    <3>1. chain \in Seq(Seq(Id)) /\ b \in Seq(Id)
      BY <1>3, <1>4, <1>5, ChainIds, SeqMonotone
    <3> QED BY <1>2, <3>1, ConfirmedAppend
  <2>2. \A q \in Made : ChainSpent(chain)[q] \subseteq ChainSpent(chain')[q]
    BY <1>3, <2>1, ChainSpentFacts
  <2>3. \A t \in Made : \A v \in ToSet(txn[t].vin) : v.hash \in Made
    BY <1>3 DEF TxnsOK, TxnOK
  <2> QED BY <2>2, <2>3, Zenon DEF NamedOn
<1>11. IndexesTrue => NamedOn(chain')
  BY Zenon DEF IndexesTrue, NamedOn, Spent
<1>12. AllTypes'
  BY <1>3, <1>5, <1>7, <1>8, <1>9, SameTxns DEF AllTypes
<1>13. ASSUME ~SelfPayment PROVE Placing' /\ Keeping'
  <2>1. Placing /\ Keeping
    BY <1>13 DEF CoinInv
  <2>2. Placing'
    BY <1>9, <1>10, <1>13, <2>1, SameTxns DEF Placing
  <2>3. ASSUME reorgs' = 0 \/ (~raced' /\ IndexesTrue') PROVE Kept(chain', utxo')
    <3>1. reorgs = 0 \/ (~raced /\ IndexesTrue)
      BY <1>2, <2>3, SameTxns
    <3>2. Kept(chain, utxo) /\ NamedOn(chain')
      BY <1>10, <1>11, <2>1, <3>1 DEF Placing, Keeping
    <3> QED BY <1>9, <1>13, <3>2
  <2>4. Keeping'
    BY <2>3, SameTxns DEF Keeping
  <2> QED BY <2>2, <2>4
<1> QED BY <1>12, <1>13 DEF CoinInv

\* A reorganisation takes blocks back.
LEMMA RevertCoins ==
    ASSUME CoinInv, IInv, NEW n \in 1..Len(chain) - 1, Revert(n)
    PROVE  CoinInv'
<1> DEFINE stay == Len(chain) - n
           gone == SubSeq(chain, stay + 1, Len(chain))
<1>1. /\ chain' = SubSeq(chain, 1, stay) /\ index' = index \ Confirmed(gone)
      /\ utxo' = ReverseBlocks(utxo, gone) /\ reorgs < MaxReorg /\ reorgs' = reorgs + 1
      /\ owed' = n + 1 /\ raced' = (raced \/ pc # "idle")
      /\ txn' = txn /\ pool' = pool /\ pc' = pc /\ arg' = arg /\ exited' = exited
  BY Zenon DEF Revert, DeleteTxns
<1>2. AllTypes /\ TxnsOK /\ Fits(utxo) /\ chain \in Seq(Seq(Made)) /\ Headed(chain)
  BY DEF CoinInv, AllTypes
<1>3. Len(chain) \in Nat /\ stay \in Nat /\ stay <= Len(chain)
  BY <1>2
<1>4. Len(chain) <= Len(Miners)
  BY <1>2, HeadedLen
<1>5. owed' \in 0..Len(Miners) /\ reorgs' \in 0..MaxReorg /\ reorgs' # 0
  BY <1>1, <1>2, <1>3, <1>4, ConstFacts DEF AllTypes
<1> HIDE DEF stay
<1>6. chain' \in Seq(Seq(Made)) /\ Headed(chain')
  BY <1>1, <1>2, <1>3, HeadedInitial
<1>7. /\ Fits(utxo')
      /\ Disjoint(chain) /\ Kept(chain, utxo) => Kept(chain', utxo')
  BY <1>1, <1>2, <1>3, RevertFacts
<1> HIDE DEF gone
<1>8. AllTypes'
  BY <1>1, <1>2, <1>5, <1>6, <1>7, SameTxns DEF AllTypes
<1>9. ASSUME ~SelfPayment PROVE Placing' /\ Keeping'
  <2>1. Placing /\ Keeping
    BY <1>9 DEF CoinInv
  <2>2. Placing'
    BY <1>5 DEF Placing
  <2>3. ASSUME ~raced', IndexesTrue' PROVE Kept(chain', utxo')
    <3>1. ~raced /\ IndexesTrue
      BY <1>1, <2>3, SameTxns
    <3>2. Kept(chain, utxo) /\ Disjoint(chain)
      BY <2>1, <3>1 DEF Keeping, IInv, IndexInv
    <3> QED BY <1>7, <3>2
  <2>4. Keeping'
    BY <1>1, <1>5, <2>3, SameTxns DEF Keeping
  <2> QED BY <2>2, <2>4
<1> QED BY <1>8, <1>9 DEF CoinInv

\* A sequence of the transactions of a set.
LEMMA OrderOf ==
    ASSUME NEW n \in Nat, NEW S \in SUBSET (1..n), NEW s \in SetToSeqs(S)
    PROVE  s \in Seq(S)
<1>1. s \in [1..Cardinality(S) -> S]
  BY DEF SetToSeqs
<1>2. Cardinality(S) \in Nat
  <2>1. 1 \in Int /\ n \in Int
    OBVIOUS
  <2>2. IsFiniteSet(1..n)
    BY <2>1, FS_Interval, Zenon
  <2> QED BY <2>2, FS_Subset, FS_CardinalityType
<1> QED BY <1>1, <1>2, FunSeq

\* A block of this node.
LEMMA MineBlockCoins ==
    ASSUME CoinInv, NEW c \in Coinbase, NEW order \in GetTxns(pool), MineBlock(c, order)
    PROVE  CoinInv'
<1>1. /\ AddBlock(<<c>> \o order) /\ c \notin Confirmed(chain)
      /\ txn' = txn /\ pc' = pc /\ arg' = arg /\ owed' = owed /\ reorgs' = reorgs /\ exited' = exited
  BY Zenon DEF MineBlock
<1>2. TxnsOK /\ pool \subseteq Made /\ owed' \in 0..Len(Miners)
  BY <1>1 DEF CoinInv, AllTypes
<1>3. order \in Seq(Made)
  <2>1. pool \in SUBSET Id
    BY <1>2, MadeFacts
  <2>2. order \in Seq(Id) /\ ToSet(order) \subseteq Made
    BY <1>2, <2>1, GetTxnsFacts
  <2> QED BY <2>2 DEF ToSet
<1> QED BY <1>1, <1>2, <1>3, AddBlockCoins

\* A block of another node.
LEMMA ReceiveBlockCoins ==
    ASSUME CoinInv, NEW c \in Coinbase, NEW S \in SUBSET (Sent \ Confirmed(chain)),
           NEW ts \in SetToSeqs(S), ReceiveBlock(c, ts)
    PROVE  CoinInv'
<1>1. /\ AddBlock(<<c>> \o ts) /\ c \notin Confirmed(chain)
      /\ txn' = txn /\ pc' = pc /\ arg' = arg /\ reorgs' = reorgs /\ exited' = exited
      /\ owed' = IF owed > 0 THEN owed - 1 ELSE 0
  BY Zenon DEF ReceiveBlock
<1>2. TxnsOK /\ owed \in 0..Len(Miners) /\ Len(Miners) \in Nat
  BY ConstFacts DEF CoinInv, AllTypes
<1>3. owed' \in 0..Len(Miners)
  BY <1>1, <1>2
<1>4. ts \in Seq(Made)
  <2>1. Len(txn) \in Nat
    BY <1>2, MadeFacts
  <2>2. S \in SUBSET (1..Len(txn)) /\ S \subseteq Made
    BY DEF Sent, Made
  <2>3. ts \in Seq(S)
    BY <2>1, <2>2, OrderOf
  <2> QED BY <2>2, <2>3, SeqMonotone, Zenon
<1> QED BY <1>1, <1>3, <1>4, AddBlockCoins

\* A sequence of two, made of its elements.
LEMMA PairMade ==
    ASSUME NEW S, NEW p \in S, NEW q \in S
    PROVE  /\ Append(<<p>>, q) \in Seq(S) /\ Len(Append(<<p>>, q)) = 2
           /\ Append(<<p>>, q)[1] = <<p>>[1] /\ Append(<<p>>, q)[2] = q
OBVIOUS

\* The transaction that SendCMD makes.
NewTxn(e) ==
    /\ e \in TxnSet /\ Len(e.vout) \in {1, 2}
    /\ ~SelfPayment /\ Len(e.vout) = 2 => e.vout[1].owner # e.vout[2].owner
    /\ \A v \in ToSet(e.vin) : v \in CoinSet /\ v.index \in DOMAIN txn[v.hash].vout

\* What SendCMD makes is such a transaction.
LEMMA SendMakes ==
    ASSUME AllTypes, NEW from \in Owner, NEW to \in Owner, NEW amount \in Amount,
           NEW order \in Orders(from), SendCMD(from, to, amount, order)
    PROVE  txn' = txn \/ \E e : /\ txn' = Append(txn, e) /\ NewTxn(e)
                                /\ Len(txn) < Len(Miners) + MaxSent
<1> DEFINE ins == FindUTXOs(from, amount, order)
           change == Total(ins) - amount
           pay == <<[owner |-> to, value |-> amount]>>
           vout == IF change = 0 THEN pay ELSE Append(pay, [owner |-> from, value |-> change])
           e == [vin |-> ins, vout |-> vout]
<1>1. /\ SelfPayment \/ from # to
      /\ Len(txn) < Len(Miners) + MaxSent /\ change >= 0
      /\ \/ (\A v \in ToSet(ins) : v.index <= Len(txn[v.hash].vout)) /\ txn' = Append(txn, e)
         \/ txn' = txn
  BY Zenon DEF SendCMD
<1>2. TxnsOK /\ Fits(utxo) /\ pool \subseteq Made /\ Len(txn) \in Nat /\ Made \subseteq Id
  BY MadeFacts DEF AllTypes
<1>3. order \in Seq(Made)
  <2> DEFINE S == pool \cup {t \in Made : \E out \in ToSet(utxo[t]) : out.owner = from}
  <2>1. order \in SetToSeqs(S)
    BY DEF Orders
  <2>2. S \in SUBSET (1..Len(txn)) /\ S \subseteq Made
    BY <1>2 DEF Made
  <2> HIDE DEF S
  <2>3. order \in Seq(S)
    BY <1>2, <2>1, <2>2, OrderOf
  <2> QED BY <2>2, <2>3, SeqMonotone, Zenon
<1>4. Coins(from, order) \in Seq(CoinSet) /\ CoinSet \in SUBSET InputSet
  <2>1. CoinSet \in SUBSET InputSet
    BY DEF CoinSet
  <2> QED BY <1>2, <1>3, <2>1, CoinsFacts
<1>5. amount \in 1..Subsidy /\ Subsidy \in Nat
  BY LedgerAssumption
<1>6. ins \in Seq(CoinSet) /\ change \in 0..Subsidy
  <2>1. Total(FindUTXOs(from, amount, order)) - amount >= 0
    BY <1>1
  <2> QED BY <1>4, <1>5, <2>1, FindUTXOsFacts
<1> HIDE DEF ins, change
<1>7. /\ pay \in Seq(Output) /\ Len(pay) = 1 /\ pay[1].owner = to
      /\ [owner |-> to, value |-> amount] \in Output
  BY <1>5 DEF Output
<1> HIDE DEF pay
<1>8. /\ vout \in Seq(Output) /\ Len(vout) \in {1, 2}
      /\ ~SelfPayment /\ Len(vout) = 2 => vout[1].owner # vout[2].owner
  <2>1. CASE change = 0
    BY <1>7, <2>1
  <2>2. CASE change # 0
    <3> DEFINE first == [owner |-> to, value |-> amount]
               rest == [owner |-> from, value |-> change]
    <3>1. rest \in Output /\ rest.owner = from
      BY <1>5, <1>6, <2>2 DEF Output
    <3>2. vout = Append(pay, rest)
      BY <2>2
    <3> HIDE DEF rest, vout
    <3>3. vout \in Seq(Output) /\ Len(vout) = 2 /\ vout[1] = pay[1] /\ vout[2] = rest
      <4>1. pay = <<first>> /\ first \in Output
        BY <1>7 DEF pay
      <4> HIDE DEF first
      <4>0. first \in Output /\ rest \in Output
        BY <3>1, <4>1
      <4>2. /\ Append(<<first>>, rest) \in Seq(Output) /\ Len(Append(<<first>>, rest)) = 2
            /\ Append(<<first>>, rest)[1] = <<first>>[1] /\ Append(<<first>>, rest)[2] = rest
        BY <4>0, PairMade
      <4>3. vout = Append(<<first>>, rest)
        BY <3>2, <4>1
      <4>4. pay[1] = <<first>>[1]
        BY <4>1
      <4> QED BY <4>2, <4>3, <4>4, Zenon
    <3> QED BY <1>1, <1>7, <3>1, <3>3
  <2> QED BY <2>1, <2>2
<1> HIDE DEF vout
<1>9. ins \in Seq(InputSet)
  BY <1>4, <1>6, SeqMonotone
<1>10. e \in TxnSet /\ e.vin = ins /\ e.vout = vout
  BY <1>8, <1>9 DEF TxnSet
<1>11. ASSUME \A v \in ToSet(ins) : v.index <= Len(txn[v.hash].vout)
       PROVE  \A v \in ToSet(ins) : v \in CoinSet /\ v.index \in DOMAIN txn[v.hash].vout
  <2> SUFFICES ASSUME NEW v \in ToSet(ins)
               PROVE  v \in CoinSet /\ v.index \in DOMAIN txn[v.hash].vout
    OBVIOUS
  <2>1. v \in CoinSet
    BY <1>6, SetOfSeq
  <2>2. v.index \in Nat \ {0} /\ v.hash \in Made
    BY <2>1 DEF CoinSet, InputSet
  <2>3. txn[v.hash].vout \in Seq(Output) /\ v.index <= Len(txn[v.hash].vout)
    BY <1>2, <1>11, <2>2, MadeFacts
  <2>4. DOMAIN txn[v.hash].vout = 1..Len(txn[v.hash].vout) /\ Len(txn[v.hash].vout) \in Nat
    BY <2>3
  <2> QED BY <2>1, <2>2, <2>3, <2>4
<1> HIDE DEF e
<1> QED BY <1>1, <1>8, <1>10, <1>11, Zenon DEF NewTxn

\* A new transaction: its inputs name their outputs by the index, or name spent
\* ones.
LEMMA SendCoins ==
    ASSUME CoinInv, NEW from \in Owner, NEW to \in Owner, NEW amount \in Amount,
           NEW order \in Orders(from), SendCMD(from, to, amount, order)
    PROVE  CoinInv'
<1>1. /\ UNCHANGED <<chain, index, utxo, pool, pc, arg, owed, reorgs, raced>>
      /\ exited' \in {"no", "sign", "memory"} /\ AllTypes
  <2>1. /\ UNCHANGED <<chain, index, utxo, pool, pc, arg, owed, reorgs, raced>>
        /\ exited' = exited \/ exited' = "sign"
    BY Zenon DEF SendCMD
  <2> QED BY <2>1 DEF CoinInv, AllTypes
<1>2. CASE txn' = txn
  <2>1. AllTypes'
    BY <1>1, <1>2, SameTxns DEF AllTypes
  <2>2. ~SelfPayment => Placing' /\ Keeping'
    BY <1>1, <1>2, SameTxns DEF CoinInv, Placing, Keeping
  <2> QED BY <2>1, <2>2 DEF CoinInv
<1>3. ASSUME NEW e, txn' = Append(txn, e), NewTxn(e), Len(txn) < Len(Miners) + MaxSent
      PROVE  CoinInv'
  <2>0. PICK n : n = Len(txn) + 1
    OBVIOUS
  <2>1. TxnsOK /\ Fits(utxo) /\ chain \in Seq(Seq(Made)) /\ Len(txn) \in Nat /\ e \in TxnSet
        /\ Made \subseteq Id /\ Coinbase \subseteq Made
    BY <1>1, <1>3, MadeFacts DEF AllTypes, NewTxn
  <2>2. /\ txn' \in Seq(TxnSet) /\ Len(txn') = n /\ txn'[n] = e
        /\ \A i \in 1..Len(txn) : txn'[i] = txn[i]
    <3>1. txn \in Seq(TxnSet)
      BY <2>1 DEF TxnsOK
    <3> QED BY <1>3, <2>0, <2>1, <3>1, AppendProperties
  <2>3. /\ Made' = Made \cup {n} /\ n \notin Made /\ n \in Id
        /\ \A t \in Made : txn'[t] = txn[t]
    BY <1>3, <2>0, <2>1, <2>2, ConstFacts DEF Made, Id
  <2>4. Len(Miners) <= Len(txn') /\ Len(txn') <= Len(Miners) + MaxSent
    BY <1>3, <2>0, <2>1, <2>2, ConstFacts DEF TxnsOK
  <2>5. \A v \in ToSet(e.vin) :
           /\ v.hash \in Made /\ v.index \in DOMAIN txn[v.hash].vout
           /\ Spent(v) \in ToSet(txn[v.hash].vout)
    BY <1>3 DEF NewTxn, CoinSet
  <2>6. TxnsOK'
    <3>1. ASSUME NEW t \in Made PROVE TxnOK(t)'
      <4>1. TxnOK(t) /\ txn'[t] = txn[t]
        BY <2>1, <2>3 DEF TxnsOK
      <4>2. \A v \in ToSet(txn[t].vin) : v.hash \in Made /\ v.hash \in Made' /\ txn'[v.hash] = txn[v.hash]
        BY <2>3, <4>1 DEF TxnOK
      <4> QED BY <4>1, <4>2 DEF TxnOK
    <3>2. TxnOK(n)'
      <4>1. \A v \in ToSet(e.vin) : v.hash \in Made' /\ txn'[v.hash] = txn[v.hash]
        BY <2>3, <2>5
      <4>2. n \notin Coinbase
        BY <2>1, <2>3
      <4>3. /\ Len(e.vout) \in {1, 2}
            /\ ~SelfPayment /\ Len(e.vout) = 2 => e.vout[1].owner # e.vout[2].owner
        BY <1>3 DEF NewTxn
      <4> QED BY <2>2, <2>5, <4>1, <4>2, <4>3 DEF TxnOK
    <3>3. \A t \in Made' : TxnOK(t)'
      BY <2>3, <3>1, <3>2
    <3> QED BY <2>2, <2>4, <3>3 DEF TxnsOK
  <2>7. utxo[n] = <<>>
    BY <2>1, <2>3 DEF Fits
  <2>8. Fits(utxo)'
    <3>1. utxo' = utxo /\ ToSet(<<>>) = {}
      BY <1>1 DEF ToSet
    <3>2. \A t \in Made' : ToSet(utxo'[t]) \subseteq ToSet(txn'[t].vout)
      BY <2>1, <2>3, <2>7, <3>1 DEF Fits
    <3>3. \A t \in Id \ Made' : utxo'[t] = <<>>
      BY <2>1, <2>3, <3>1 DEF Fits
    <3>4. utxo' \in Entries
      BY <2>1, <3>1 DEF Fits
    <3> QED BY <3>2, <3>3, <3>4 DEF Fits
  <2>9. chain' \in Seq(Seq(Made')) /\ Made \subseteq Made'
    <3>1. Made \subseteq Made'
      BY <2>3
    <3>2. \A s \in Seq(Made) : s \in Seq(Made')
      BY <3>1, SeqMonotone
    <3>3. Seq(Made) \subseteq Seq(Made')
      BY <3>2
    <3>4. chain \in Seq(Seq(Made'))
      BY <2>1, <3>3, SeqMonotone, Zenon
    <3> QED BY <1>1, <3>1, <3>4
  <2>10. AllTypes'
    BY <1>1, <2>6, <2>8, <2>9 DEF AllTypes
  <2>11. Confirmed(chain) \subseteq Made
    BY <2>1, ChainIds
  <2>12. \A q \in Made : ChainSpent(chain)'[q] = ChainSpent(chain)[q]
    <3>1. \A s \in Confirmed(chain) : txn'[s] = txn[s]
      BY <2>3, <2>11
    <3> QED BY <1>1, <2>9, <3>1 DEF ChainSpent
  <2>13. ASSUME ~SelfPayment PROVE Placing' /\ Keeping'
    <3>1. Placing /\ Keeping
      BY <2>13 DEF CoinInv
    <3>2. ASSUME reorgs = 0, NEW v \in ToSet(e.vin), txn[v.hash].vout[v.index] # Spent(v)
          PROVE  txn[v.hash].vout[v.index] \in ChainSpent(chain)[v.hash]
      <4> DEFINE q == v.hash
                 vout == txn[q].vout
                 out == vout[v.index]
                 Z == ChainSpent(chain)[q]
      <4>1. /\ q \in Made /\ v.index \in DOMAIN vout /\ Spent(v) \in ToSet(vout)
            /\ v.index \in DOMAIN utxo[q] /\ utxo[q][v.index] = Spent(v)
        BY <1>3, <3>2 DEF NewTxn, CoinSet
      <4>2. Placed(utxo[q], vout, Z)
        BY <3>1, <3>2, <4>1, Zenon DEF Placing, AllPlaced
      <4>3. Spent(v) \in ToSet(utxo[q]) /\ utxo[q] # <<>>
        BY <4>1 DEF ToSet
      <4> HIDE DEF Z
      <4>4. PICK o \in ToSet(vout) \cap Z : \A p \in ToSet(utxo[q]) : p.owner # o.owner
        BY <3>2, <4>1, <4>2, <4>3, Zenon DEF Placed
      <4>5. o # Spent(v)
        BY <4>3, <4>4
      <4>6. out \in {o, Spent(v)}
        BY <2>1, <2>13, <4>1, <4>4, <4>5, OwnersDiffer, Zenon
      <4> QED BY <3>2, <4>4, <4>6 DEF Z
    <3>3. ASSUME reorgs = 0 PROVE NamedOn(chain)'
      <4> SUFFICES ASSUME NEW t \in Made', NEW v \in ToSet(txn'[t].vin)
                   PROVE  \/ txn'[v.hash].vout[v.index] = Spent(v)
                          \/ txn'[v.hash].vout[v.index] \in ChainSpent(chain)'[v.hash]
        BY DEF NamedOn, Spent
      <4>1. CASE t \in Made
        <5>1. v \in ToSet(txn[t].vin) /\ v.hash \in Made
          BY <2>1, <2>3, <4>1 DEF TxnsOK, TxnOK
        <5>2. \/ txn[v.hash].vout[v.index] = Spent(v)
              \/ txn[v.hash].vout[v.index] \in ChainSpent(chain)[v.hash]
          BY <3>1, <3>3, <4>1, <5>1 DEF Placing, NamedOn
        <5> QED BY <2>3, <2>12, <5>1, <5>2
      <4>2. CASE t = n
        <5>1. v \in ToSet(e.vin) /\ v.hash \in Made
          BY <2>2, <2>5, <4>2
        <5> QED BY <2>3, <2>12, <3>2, <3>3, <5>1
      <4> QED BY <2>3, <4>1, <4>2
    <3>4. ASSUME reorgs = 0 PROVE AllPlaced(utxo, ChainSpent(chain))'
      <4> SUFFICES ASSUME NEW q \in Made'
                   PROVE  Placed(utxo[q], txn'[q].vout, ChainSpent(chain)'[q])
        BY <1>1 DEF AllPlaced
      <4>1. CASE q \in Made
        <5>1. Placed(utxo[q], txn[q].vout, ChainSpent(chain)[q])
          BY <3>1, <3>4, <4>1 DEF Placing, AllPlaced
        <5> QED BY <2>3, <2>12, <4>1, <5>1
      <4>2. CASE q = n
        BY <2>7, <4>2 DEF Placed
      <4> QED BY <2>3, <4>1, <4>2
    <3>5. IndexesTrue' => IndexesTrue
      <4> SUFFICES ASSUME IndexesTrue', NEW t \in Made, NEW v \in ToSet(txn[t].vin)
                   PROVE  txn[v.hash].vout[v.index] = [owner |-> v.owner, value |-> v.value]
        BY DEF IndexesTrue
      <4>1. t \in Made' /\ txn'[t] = txn[t] /\ v.hash \in Made
        BY <2>1, <2>3 DEF TxnsOK, TxnOK
      <4>2. txn'[v.hash] = txn[v.hash]
        BY <2>3, <4>1
      <4> QED BY <4>1, <4>2 DEF IndexesTrue
    <3>6. Kept(chain, utxo) => Kept(chain, utxo)'
      <4>1. \A t \in Confirmed(chain) : txn'[t] = txn[t] /\ ChainSpent(chain)'[t] = ChainSpent(chain)[t]
        BY <2>3, <2>11, <2>12
      <4> QED BY <1>1, <4>1 DEF Kept
    <3>7. Placing'
      BY <1>1, <3>3, <3>4 DEF Placing
    <3>8. Keeping'
      BY <1>1, <3>1, <3>5, <3>6 DEF Keeping
    <3> QED BY <3>7, <3>8
  <2> QED BY <2>10, <2>13 DEF CoinInv
<1> QED BY <1>1, <1>2, <1>3, SendMakes, Zenon

\* Steps that leave the transactions, the chain and the UTXO set alone.
LEMMA QuietCoins ==
    ASSUME CoinInv, UNCHANGED <<txn, chain, index, utxo, owed, reorgs, raced>>,
           pool' \subseteq Made, pc' \in {"idle", "verify", "add"}, arg' \in Made \cup {0},
           pc' # "idle" => arg' \in Made, exited' \in {"no", "sign", "memory"}
    PROVE  CoinInv'
<1>1. AllTypes'
  BY SameTxns DEF CoinInv, AllTypes
<1>2. ~SelfPayment => Placing' /\ Keeping'
  BY SameTxns DEF CoinInv, Placing, Keeping
<1> QED BY <1>1, <1>2 DEF CoinInv

\* The steps of the handler of transactions, the start after an exit, and no
\* step.
LEMMA HandlerCoins ==
    ASSUME CoinInv,
           \/ \E t \in Sent : GossipTxn(t)
           \/ \E order \in GetTxns(pool) : UTXOMemVerifyTransaction(order)
           \/ AddTxn
           \/ Restart
           \/ UNCHANGED vars
    PROVE  CoinInv'
<1>1. /\ pool \subseteq Made /\ pc \in {"idle", "verify", "add"} /\ arg \in Made \cup {0}
      /\ pc # "idle" => arg \in Made /\ exited \in {"no", "sign", "memory"}
      /\ exited \in {"no", "sign", "memory"}
  BY DEF CoinInv, AllTypes
<1>2. CASE \E t \in Sent : GossipTxn(t)
  BY <1>1, <1>2, QuietCoins DEF GossipTxn, Sent
<1>3. CASE \E order \in GetTxns(pool) : UTXOMemVerifyTransaction(order)
  <2>1. /\ UNCHANGED <<txn, chain, index, utxo, pool, owed, reorgs, raced>> /\ pc = "verify"
        /\ (pc' = "add" /\ arg' = arg) \/ (pc' = "idle" /\ arg' = 0)
        /\ exited' = "memory" \/ exited' = "no"
    BY <1>3, Zenon DEF UTXOMemVerifyTransaction
  <2> QED BY <1>1, <2>1, QuietCoins
<1>4. CASE AddTxn
  BY <1>1, <1>4, QuietCoins DEF AddTxn
<1>5. CASE Restart
  BY <1>1, <1>5, QuietCoins DEF Restart
<1>6. CASE UNCHANGED vars
  BY <1>1, <1>6, QuietCoins DEF vars
<1> QED BY <1>2, <1>3, <1>4, <1>5, <1>6

\* The first state.
LEMMA InitCoins == Init => CoinInv
<1> SUFFICES ASSUME Init PROVE CoinInv
  OBVIOUS
<1> DEFINE out(i) == [owner |-> Miners[i], value |-> Subsidy]
           e(i) == [vin |-> <<>>, vout |-> <<out(i)>>]
<1>1. /\ chain = <<<<1>>>> /\ index = {1} /\ pool = {} /\ pc = "idle" /\ arg = 0 /\ owed = 0
      /\ reorgs = 0 /\ exited = "no"
      /\ txn = [i \in 1..Len(Miners) |-> e(i)]
      /\ utxo = [t \in Id |-> IF t = 1 THEN txn[1].vout ELSE <<>>]
  BY DEF Init, Coinbase
<1>2. /\ Len(Miners) \in Nat \ {0} /\ MaxSent \in Nat /\ MaxReorg \in Nat
      /\ \A i \in 1..Len(Miners) : out(i) \in Output
  <2>1. Subsidy \in 1..Subsidy /\ \A i \in 1..Len(Miners) : Miners[i] \in Owner
    BY LedgerAssumption
  <2> QED BY <2>1, ConstFacts DEF Output
<1> HIDE DEF out
<1>3. \A i \in 1..Len(Miners) : /\ e(i) \in TxnSet /\ e(i).vin = <<>> /\ e(i).vout = <<out(i)>>
  BY <1>2 DEF TxnSet
<1> HIDE DEF e
<1>4. /\ txn \in Seq(TxnSet) /\ Len(txn) = Len(Miners) /\ Made = 1..Len(Miners)
      /\ \A i \in Made : txn[i] = e(i)
  <2>1. txn \in [1..Len(Miners) -> TxnSet]
    BY <1>1, <1>3, Zenon
  <2>2. txn \in Seq(TxnSet) /\ Len(txn) = Len(Miners)
    BY <1>2, <2>1, FunSeq
  <2> QED BY <1>1, <2>2, Zenon DEF Made
<1>5. \A i \in Made : /\ txn[i].vin = <<>> /\ txn[i].vout = <<out(i)>> /\ out(i) \in Output
  BY <1>2, <1>3, <1>4
<1>6. ToSet(<<>>) = {} /\ \A o : ToSet(<<o>>) = {o} /\ Len(<<o>>) = 1 /\ DOMAIN <<o>> = {1}
  BY DEF ToSet
<1>7. TxnsOK
  <2>1. \A t \in Made : TxnOK(t)
    <3> SUFFICES ASSUME NEW t \in Made PROVE TxnOK(t)
      OBVIOUS
    <3>1. txn[t].vin = <<>> /\ ToSet(txn[t].vin) = {} /\ Len(txn[t].vout) = 1
      BY <1>5, <1>6
    <3> QED BY <3>1 DEF TxnOK
  <2> QED BY <1>2, <1>4, <2>1 DEF TxnsOK
<1>8. 1 \in Made /\ 1 \in Coinbase /\ Made \subseteq Id
  BY <1>2, <1>4, <1>7, MadeFacts DEF Coinbase
<1>9. utxo[1] = <<out(1)>> /\ txn[1].vout = <<out(1)>> /\ \A t \in Id \ {1} : utxo[t] = <<>>
  BY <1>1, <1>5, <1>8
<1>10. Fits(utxo)
  <2>1. utxo \in Entries
    <3>1. \A t \in Id : (IF t = 1 THEN txn[1].vout ELSE <<>>) \in Seq(Output)
      <4>1. txn[1].vout \in Seq(Output)
        BY <1>5, <1>8, OneOrNone
      <4> QED BY <4>1, OneOrNone
    <3> QED BY <1>1, <3>1, Zenon DEF Entries
  <2>2. \A t \in Made : ToSet(utxo[t]) \subseteq ToSet(txn[t].vout)
    BY <1>6, <1>8, <1>9
  <2>3. \A t \in Id \ Made : utxo[t] = <<>>
    BY <1>8, <1>9
  <2> QED BY <2>1, <2>2, <2>3 DEF Fits
<1>11. chain \in Seq(Seq(Made)) /\ DOMAIN chain = {1} /\ chain[1] = <<1>>
  BY <1>1, <1>8
<1>12. Headed(chain) /\ Confirmed(chain) = {1}
  <2>1. <<1>> # <<>> /\ <<1>>[1] = 1
    OBVIOUS
  <2>2. Headed(chain)
    BY <1>8, <1>11, <2>1, Zenon DEF Headed
  <2>3. ToSet(chain[1]) = {1}
    BY <1>6, <1>11
  <2> QED BY <1>11, <2>2, <2>3, Zenon DEF Confirmed
<1>13. AllTypes
  BY <1>1, <1>2, <1>7, <1>8, <1>10, <1>11, <1>12 DEF AllTypes
<1>14. Placing
  <2>1. NamedOn(chain)
    BY <1>5, <1>6 DEF NamedOn
  <2>2. AllPlaced(utxo, ChainSpent(chain))
    <3> SUFFICES ASSUME NEW q \in Made PROVE Placed(utxo[q], txn[q].vout, ChainSpent(chain)[q])
      BY DEF AllPlaced
    <3>1. CASE q = 1
      BY <1>9, <3>1 DEF Placed
    <3>2. CASE q # 1
      BY <1>8, <1>9, <3>2 DEF Placed
    <3> QED BY <3>1, <3>2
  <2> QED BY <2>1, <2>2 DEF Placing
<1>15. Keeping
  BY <1>9, <1>12 DEF Keeping, Kept
<1> QED BY <1>13, <1>14, <1>15 DEF CoinInv

\* Every step keeps the invariant.
LEMMA NextCoins == CoinInv /\ IInv /\ [Next]_vars => CoinInv'
<1> SUFFICES ASSUME CoinInv, IInv, [Next]_vars PROVE CoinInv'
  OBVIOUS
<1>1. CASE \E from, to \in Owner, amount \in Amount :
              \E order \in Orders(from) : SendCMD(from, to, amount, order)
  BY <1>1, SendCoins, Zenon
<1>2. CASE \/ \E t \in Sent : GossipTxn(t)
           \/ \E order \in GetTxns(pool) : UTXOMemVerifyTransaction(order)
           \/ AddTxn
           \/ Restart
           \/ UNCHANGED vars
  BY <1>2, HandlerCoins, Zenon
<1>3. CASE \E c \in Coinbase, order \in GetTxns(pool) : MineBlock(c, order)
  BY <1>3, MineBlockCoins, Zenon
<1>4. CASE \E c \in Coinbase : \E S \in SUBSET (Sent \ Confirmed(chain)) :
              Cardinality(S) <= PackLimit /\ \E ts \in SetToSeqs(S) : ReceiveBlock(c, ts)
  BY <1>4, ReceiveBlockCoins, Zenon
<1>5. CASE \E n \in 1..Len(chain) - 1 : Revert(n)
  BY <1>5, RevertCoins, Zenon
<1> QED BY <1>1, <1>2, <1>3, <1>4, <1>5, Zenon DEF Next

\* What the set keeps, in the words of the property.
LEMMA KeepingIsCoinsKept == AllTypes /\ Keeping => CoinsKept
<1> SUFFICES ASSUME AllTypes, Keeping, reorgs = 0 \/ (~raced /\ IndexesTrue),
                    NEW t \in Confirmed(chain), NEW out \in ToSet(txn[t].vout),
                    ~SpentOnChain(t, out)
             PROVE  out \in ToSet(utxo[t])
  BY Zenon DEF CoinsKept
<1>1. TxnsOK /\ t \in Made /\ Kept(chain, utxo)
  <2>1. TxnsOK /\ chain \in Seq(Seq(Made)) /\ Kept(chain, utxo)
    BY DEF AllTypes, Keeping
  <2> QED BY <2>1, ChainIds
<1>2. ASSUME out \in ChainSpent(chain)[t] PROVE FALSE
  <2>1. \E s \in Confirmed(chain) : \E v \in ToSet(txn[s].vin) : v.hash = t /\ Spent(v) = out
    BY <1>1, <1>2, ChainSpentFacts
  <2>2. \A v : Spent(v).owner = v.owner /\ Spent(v).value = v.value
    BY DEF Spent
  <2> QED BY <2>1, <2>2, Zenon DEF SpentOnChain
<1> QED BY <1>1, <1>2, Zenon DEF Kept

-----------------------------------------------------------------------------
(* Theorems *)

\* Index, chain and pool fit together as long as nothing has raced a handler.
THEOREM Invariance == Spec => []IInv
<1>1. Init => IInv
  BY InitIInv
<1>2. IInv /\ [Next]_vars => IInv'
  BY NextIInv
<1> QED BY <1>1, <1>2, PTL DEF Spec

\* The transaction index holds what the main chain has confirmed: DeleteBlock and
\* TxnReindex lose nothing and leave nothing behind.
THEOREM AlwaysIndexIsChain == Spec => []IndexIsChain
<1>1. IInv => IndexIsChain
  BY DEF IInv, IndexInv, IndexIsChain
<1> QED BY <1>1, Invariance, PTL

\* AddBlock leaves a pool of which every transaction can be packed.
THEOREM AlwaysPoolClosed == Spec => []PoolClosed
<1>1. IInv => PoolClosed
  BY DEF IInv, PoolInv, PoolClosed
<1> QED BY <1>1, Invariance, PTL

\* Entries of the UTXO set hold outputs of their transactions, inputs spend
\* outputs that are there, and what nobody has spent is kept.
THEOREM CoinInvariance == Spec => []CoinInv
<1>1. Init => CoinInv
  BY InitCoins
<1>2. CoinInv /\ IInv /\ [Next]_vars => CoinInv'
  BY NextCoins
<1> QED BY <1>1, <1>2, Invariance, PTL DEF Spec

\* Transactions named by chain, index and pool have been made; the UTXO set
\* holds outputs of owners, each worth between one unit and the subsidy; a
\* reorganisation owes no more blocks than there are coinbases.
THEOREM TypeCorrect == Spec => []TypeOK
<1>1. CoinInv => TypeOK
  <2> SUFFICES ASSUME CoinInv PROVE TypeOK
    OBVIOUS
  <2>1. AllTypes /\ TxnsOK /\ Len(txn) \in Nat
    BY MadeFacts DEF CoinInv, AllTypes
  <2>2. Len(txn) \in Id
    BY <2>1, ConstFacts DEF TxnsOK, Id
  <2> QED BY <2>1, <2>2 DEF TypeOK, AllTypes, Fits, Entries
<1> QED BY <1>1, CoinInvariance, PTL

\* If nobody pays himself (an input takes every output of its owner, so that
\* such a payment loses one), Update, FindUTXO and the reversal of blocks
\* between them never lose an unspent output of the main chain.
THEOREM AlwaysCoinsKept == ASSUME ~SelfPayment PROVE Spec => []CoinsKept
<1>1. CoinInv => CoinsKept
  BY KeepingIsCoinsKept DEF CoinInv
<1> QED BY <1>1, CoinInvariance, PTL

=============================================================================
