-------------------------- MODULE ReactTimesProofs --------------------------
(***************************************************************************)
(* The ring buffer of types/queue.go is a window, for every size and every *)
(* set of times.  What Get returns is described once by its length and its *)
(* elements; a step of UpdateNode is then a shift of these by one place.   *)
(***************************************************************************)
EXTENDS ReactTimes, SequenceTheorems, TLAPS

Elem == Time \cup {Nothing}

\* One place further in the ring.
Succ(i) == IF i + 1 = capability THEN 0 ELSE i + 1

\* Get for any contents of the three fields.
GetOf(a, f, b) ==
    IF b >= f
    THEN [i \in 1..b - f |-> a[f + i - 1]]
    ELSE [i \in 1..capability - f |-> a[f + i - 1]] \o [i \in 1..b |-> a[i - 1]]

\* The number of elements in use, and the place of the i-th one.
Count(f, b) == IF b >= f THEN b - f ELSE capability - f + b
Place(f, i) == IF f + i - 1 < capability THEN f + i - 1 ELSE f + i - 1 - capability

-----------------------------------------------------------------------------

LEMMA Sizes == Size \in Nat \ {0} /\ capability \in Nat /\ capability = Size + 1 /\ QueueLen # Size
BY ReactTimesAssumption DEF capability, QueueLen

\* Counting around the end of the array.
LEMMA ModSucc == \A i \in Index : (i + 1) % capability = Succ(i) /\ Succ(i) \in Index
<1> SUFFICES ASSUME NEW i \in 0..capability - 1
             PROVE  (i + 1) % capability = Succ(i) /\ Succ(i) \in 0..capability - 1
  BY DEF Index
<1>1. capability \in Nat \ {0}
  BY Sizes
<1> HIDE DEF capability
<1>2. CASE i + 1 = capability
  BY <1>1, <1>2 DEF Succ
<1>3. CASE i + 1 < capability
  BY <1>1, <1>3 DEF Succ
<1> QED BY <1>1, <1>2, <1>3

\* What Get returns: as many elements as are in use, from front on.
LEMMA GetFacts ==
    ASSUME NEW a \in [Index -> Elem], NEW f \in Index, NEW b \in Index
    PROVE  /\ GetOf(a, f, b) \in Seq(Elem)
           /\ Len(GetOf(a, f, b)) = Count(f, b)
           /\ Count(f, b) \in 0..Size
           /\ \A i \in 1..Count(f, b) :
                 Place(f, i) \in Index /\ GetOf(a, f, b)[i] = a[Place(f, i)]
<1>0. capability \in Nat /\ capability = Size + 1 /\ Size \in Nat \ {0} /\ Index = 0..capability - 1
  BY Sizes DEF Index
<1> HIDE DEF capability, Index
<1>1. Count(f, b) \in 0..Size
  BY <1>0 DEF Count
<1>2. \A i \in 1..Count(f, b) : Place(f, i) \in Index
  BY <1>0 DEF Count, Place
<1>3. CASE b >= f
  <2> DEFINE s == [i \in 1..b - f |-> a[f + i - 1]]
  <2>1. GetOf(a, f, b) = s /\ b - f \in Nat /\ Count(f, b) = b - f
    BY <1>0, <1>3 DEF GetOf, Count
  <2>2. \A i \in 1..b - f : f + i - 1 \in Index /\ Place(f, i) = f + i - 1
    BY <1>0, <1>3 DEF Place
  <2>3. s \in Seq(Elem) /\ Len(s) = b - f
    BY <2>1, <2>2
  <2> QED BY <1>1, <1>2, <2>1, <2>2, <2>3
<1>4. CASE b < f
  <2> DEFINE s1 == [i \in 1..capability - f |-> a[f + i - 1]]
             s2 == [i \in 1..b |-> a[i - 1]]
  <2>0. ~(b >= f)
    BY <1>0, <1>4
  <2>1. capability - f \in Nat /\ b \in Nat
    BY <1>0
  <2>c. GetOf(a, f, b) = s1 \o s2 /\ Count(f, b) = capability - f + b
    BY <2>0, Zenon DEF GetOf, Count
  <2>2. \A i \in 1..capability - f : f + i - 1 \in Index /\ Place(f, i) = f + i - 1
    BY <1>0 DEF Place
  <2>3. \A i \in 1..b : i - 1 \in Index
    BY <1>0
  <2>4. s1 \in Seq(Elem) /\ Len(s1) = capability - f
    BY <2>1, <2>2
  <2>5. s2 \in Seq(Elem) /\ Len(s2) = b
    BY <2>1, <2>3
  <2> HIDE DEF s1, s2
  <2>6. s1 \o s2 \in Seq(Elem) /\ Len(s1 \o s2) = capability - f + b
        /\ \A i \in 1..capability - f + b :
              (s1 \o s2)[i] = IF i <= capability - f THEN s1[i] ELSE s2[i - (capability - f)]
    <3>1. s1 \o s2 \in Seq(Elem) /\ Len(s1 \o s2) = Len(s1) + Len(s2)
          /\ \A i \in 1..Len(s1) + Len(s2) :
                (s1 \o s2)[i] = IF i <= Len(s1) THEN s1[i] ELSE s2[i - Len(s1)]
      BY <2>4, <2>5, ConcatProperties, Zenon
    <3> QED BY <2>4, <2>5, <3>1, Zenon
  <2>7. ASSUME NEW i \in 1..capability - f + b
        PROVE  (s1 \o s2)[i] = a[Place(f, i)]
    <3>1. CASE i <= capability - f
      BY <2>1, <2>2, <2>6, <3>1 DEF s1
    <3>2. CASE i > capability - f
      <4>1. i - (capability - f) \in 1..b
        BY <1>0, <2>1, <3>2
      <4>2. Place(f, i) = i - (capability - f) - 1
        BY <1>0, <3>2 DEF Place
      <4>3. (s1 \o s2)[i] = s2[i - (capability - f)]
        BY <1>0, <2>6, <3>2
      <4> QED BY <4>1, <4>2, <4>3 DEF s2
    <3> QED BY <1>0, <3>1, <3>2
  <2> QED BY <1>1, <1>2, <2>c, <2>6, <2>7
<1> QED BY <1>0, <1>3, <1>4

\* UpdateNode never pops on its own account; Push makes room when the ring is full.
LEMMA UpdateNodeFacts ==
    ASSUME TypeOK, NEW t \in Time, UpdateNode(t)
    PROVE  /\ front' = IF Succ(back) = front THEN Succ(front) ELSE front
           /\ back' = Succ(back)
           /\ array' = [array EXCEPT ![back] = t]
BY Sizes, ModSucc DEF TypeOK, UpdateNode, Popped

\* The array, front and back keep their types.
THEOREM TypeCorrect == Spec => []TypeOK
<1>1. Init => TypeOK
  BY Sizes DEF Init, NewQueue, TypeOK, Index
<1>2. TypeOK /\ [Next]_vars => TypeOK'
  <2>1. ASSUME TypeOK, NEW t \in Time, UpdateNode(t)
        PROVE  TypeOK'
    BY <2>1, UpdateNodeFacts, ModSucc DEF TypeOK
  <2>2. ASSUME TypeOK, UNCHANGED vars
        PROVE  TypeOK'
    BY <2>2 DEF TypeOK, vars
  <2> QED BY <2>1, <2>2 DEF Next
<1> QED BY <1>1, <1>2, PTL DEF Spec

-----------------------------------------------------------------------------
(* Refinement *)

\* A step with room left: Get has one more element, the new one.
LEMMA StepWithRoom ==
    ASSUME NEW a \in [Index -> Elem], NEW f \in Index, NEW b \in Index, NEW t \in Time,
           Succ(b) # f
    PROVE  GetOf([a EXCEPT ![b] = t], f, Succ(b)) = Append(GetOf(a, f, b), t)
<1> DEFINE a2 == [a EXCEPT ![b] = t]
           g == GetOf(a, f, b)
           g2 == GetOf(a2, f, Succ(b))
           n == Count(f, b)
<1>0. capability \in Nat /\ capability = Size + 1 /\ Size \in Nat \ {0} /\ Index = 0..capability - 1
  BY Sizes DEF Index
<1>1. a2 \in [Index -> Elem] /\ Succ(b) \in Index /\ t \in Elem
  BY ModSucc DEF Elem
<1>2. /\ g \in Seq(Elem) /\ Len(g) = n /\ n \in 0..Size
      /\ \A i \in 1..n : Place(f, i) \in Index /\ g[i] = a[Place(f, i)]
  BY GetFacts
<1>3. /\ g2 \in Seq(Elem) /\ Len(g2) = Count(f, Succ(b))
      /\ \A i \in 1..Count(f, Succ(b)) : g2[i] = a2[Place(f, i)]
  <2> HIDE DEF a2
  <2> QED BY <1>1, GetFacts
<1>4. Count(f, Succ(b)) = n + 1
  BY <1>0 DEF Count, Succ
<1>5. Place(f, n + 1) = b
  BY <1>0 DEF Count, Place, Succ
<1>6. \A i \in 1..n : Place(f, i) # b
  BY <1>0 DEF Count, Place, Succ
<1> HIDE DEF n, g, g2
<1>7. Append(g, t) \in Seq(Elem) /\ Len(Append(g, t)) = n + 1
      /\ Append(g, t)[n + 1] = t /\ \A i \in 1..n : Append(g, t)[i] = g[i]
  BY <1>1, <1>2, AppendProperties
<1>8. \A i \in 1..n + 1 : g2[i] = Append(g, t)[i]
  <2> TAKE i \in 1..n + 1
  <2>1. CASE i = n + 1
    BY <1>1, <1>3, <1>4, <1>5, <1>7, <2>1
  <2>2. CASE i \in 1..n
    BY <1>2, <1>3, <1>4, <1>6, <1>7, <2>2
  <2> QED BY <1>2, <2>1, <2>2
<1>9. g2 = Append(g, t)
  BY <1>3, <1>4, <1>7, <1>8, SeqEqual
<1> QED BY <1>9 DEF g, g2

\* A step of the full ring: the oldest element goes, the new one comes.
LEMMA StepWhenFull ==
    ASSUME NEW a \in [Index -> Elem], NEW f \in Index, NEW b \in Index, NEW t \in Time,
           Succ(b) = f
    PROVE  /\ Len(GetOf(a, f, b)) = Size
           /\ GetOf([a EXCEPT ![b] = t], Succ(f), Succ(b))
                 = SubSeq(Append(GetOf(a, f, b), t), 2, Size + 1)
<1> DEFINE a2 == [a EXCEPT ![b] = t]
           g == GetOf(a, f, b)
           g2 == GetOf(a2, Succ(f), Succ(b))
           n == Count(f, b)
<1>0. capability \in Nat /\ capability = Size + 1 /\ Size \in Nat \ {0} /\ Index = 0..capability - 1
  BY Sizes DEF Index
<1>1. a2 \in [Index -> Elem] /\ Succ(b) \in Index /\ Succ(f) \in Index /\ t \in Elem
  BY ModSucc DEF Elem
<1>2. /\ g \in Seq(Elem) /\ Len(g) = n
      /\ \A i \in 1..n : Place(f, i) \in Index /\ g[i] = a[Place(f, i)]
  BY GetFacts
<1>3. /\ g2 \in Seq(Elem) /\ Len(g2) = Count(Succ(f), Succ(b))
      /\ \A i \in 1..Count(Succ(f), Succ(b)) : g2[i] = a2[Place(Succ(f), i)]
  <2> HIDE DEF a2
  <2> QED BY <1>1, GetFacts
<1>4. n = Size /\ Count(Succ(f), Succ(b)) = Size
  BY <1>0 DEF Count, Succ
<1>5. Place(Succ(f), Size) = b
  BY <1>0 DEF Place, Succ
<1>6. \A i \in 1..Size - 1 : Place(Succ(f), i) = Place(f, i + 1) /\ Place(f, i + 1) # b
  BY <1>0 DEF Place, Succ
<1> HIDE DEF n, g, g2
<1>7. Append(g, t) \in Seq(Elem) /\ Len(Append(g, t)) = Size + 1
      /\ Append(g, t)[Size + 1] = t /\ \A i \in 1..Size : Append(g, t)[i] = g[i]
  BY <1>0, <1>1, <1>2, <1>4
<1> DEFINE s == SubSeq(Append(g, t), 2, Size + 1)
<1>8. s \in Seq(Elem) /\ Len(s) = Size /\ \A i \in 1..Size : s[i] = Append(g, t)[i + 1]
  BY <1>0, <1>7
<1> HIDE DEF s
<1>9. \A i \in 1..Size : g2[i] = s[i]
  <2> TAKE i \in 1..Size
  <2>1. CASE i = Size
    BY <1>0, <1>1, <1>3, <1>4, <1>5, <1>7, <1>8, <2>1
  <2>2. CASE i \in 1..Size - 1
    <3>1. i + 1 \in 1..Size /\ i \in 1..Size
      BY <1>0, <2>2
    <3>2. g2[i] = a2[Place(f, i + 1)] /\ Place(f, i + 1) # b
      BY <1>3, <1>4, <1>6, <2>2, <3>1
    <3>3. s[i] = a[Place(f, i + 1)] /\ Place(f, i + 1) \in Index
      BY <1>2, <1>4, <1>7, <1>8, <3>1
    <3> QED BY <3>2, <3>3
  <2> QED BY <1>0, <2>1, <2>2
<1>10. g2 = s
  BY <1>3, <1>4, <1>8, <1>9, SeqEqual
<1> QED BY <1>2, <1>4, <1>10 DEF g, g2, s

\* Every measurement is a step of the window.
LEMMA UpdateNodeIsMeasure ==
    ASSUME TypeOK, NEW t \in Time, UpdateNode(t)
    PROVE  W!Measure(t)
<1> DEFINE g == GetOf(array, front, back)
<1>0. Size \in Nat \ {0} /\ t \in Elem
  BY Sizes DEF Elem
<1>1. Get = g /\ Get' = GetOf(array', front', back')
  BY DEF Get, GetOf
<1>2. array \in [Index -> Elem] /\ front \in Index /\ back \in Index
  BY DEF TypeOK, Elem
<1>3. g \in Seq(Elem) /\ Len(g) = Count(front, back) /\ Count(front, back) \in 0..Size
  BY <1>2, GetFacts
<1>4. W!Measure(t) <=> Get' = W!LastOf(Append(Get, t), Size)
  BY DEF W!Measure
<1>5. CASE Succ(back) # front
  <2>1. Get' = Append(g, t)
    BY <1>1, <1>2, <1>5, UpdateNodeFacts, StepWithRoom
  <2>2. Len(g) < Size
    BY <1>2, <1>3, <1>5, Sizes DEF Count, Succ, Index
  <2>3. Append(g, t) \in Seq(Elem) /\ Len(Append(g, t)) <= Size /\ Len(Append(g, t)) \in Nat
    BY <1>0, <1>3, <2>2
  <2>4. W!LastOf(Append(g, t), Size) = SubSeq(Append(g, t), 1, Len(Append(g, t)))
    <3>1. ~(Len(Append(g, t)) > Size)
      BY <1>0, <2>3
    <3> QED BY <3>1, Zenon DEF W!LastOf
  <2>5. SubSeq(Append(g, t), 1, Len(Append(g, t))) = Append(g, t)
    BY <2>3, SubSeqFull
  <2> QED BY <1>1, <1>4, <2>1, <2>4, <2>5
<1>6. CASE Succ(back) = front
  <2>1. Get' = SubSeq(Append(g, t), 2, Size + 1) /\ Len(g) = Size
    BY <1>1, <1>2, <1>6, UpdateNodeFacts, StepWhenFull
  <2>2. Len(Append(g, t)) = Size + 1
    BY <1>0, <1>3, <2>1
  <2>3. W!LastOf(Append(g, t), Size) = SubSeq(Append(g, t), 2, Size + 1)
    BY <1>0, <2>2 DEF W!LastOf
  <2> QED BY <1>1, <1>4, <2>1, <2>3
<1> QED BY <1>5, <1>6

\* The ring of types/queue.go implements the window, however large it is and
\* whatever times are measured: Get yields the last Size of them in order.
THEOREM Refinement == Spec => ImplementsWindow
<1>1. Init => W!Init
  <2> SUFFICES ASSUME Init PROVE Get = <<>>
    BY DEF W!Init
  <2>1. front = 0 /\ back = 0
    BY DEF Init, NewQueue
  <2>2. back >= front /\ back - front = 0
    BY <2>1
  <2>3. Get = [i \in 1..0 |-> array[front + i - 1]]
    BY <2>2, Zenon DEF Get
  <2> QED BY <2>3
<1>2. TypeOK /\ [Next]_vars => [W!Next]_Get
  <2> SUFFICES ASSUME TypeOK, [Next]_vars PROVE W!Next \/ Get' = Get
    OBVIOUS
  <2>1. CASE Next
    BY <2>1, UpdateNodeIsMeasure DEF Next, W!Next
  <2>2. CASE UNCHANGED vars
    BY <2>2 DEF vars, Get
  <2> QED BY <2>1, <2>2
<1> QED BY <1>1, <1>2, TypeCorrect, PTL DEF Spec, ImplementsWindow, W!Spec

=============================================================================
