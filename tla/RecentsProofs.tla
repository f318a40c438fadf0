--------------------------- MODULE RecentsProofs ---------------------------
(* What holds of Recents for any directories, any cap and any number of       *)
(* requests: the list that Add makes up, and the lock, the file and the       *)
(* history that it must agree with.                                           *)
EXTENDS Recents, SequenceTheorems, FiniteSetTheorems, TLAPS

-----------------------------------------------------------------------------
(* Numbers.  An induction is the choice of a least counterexample.            *)

\* A set of numbers that is not empty has a least element.
LEMMA LeastElement ==
  ASSUME NEW T \in SUBSET Nat, T # {}
  PROVE  \E m \in T : \A k \in T : m <= k
<1> DEFINE R == StrictSubsetOrdering(Nat)
           F == FiniteSubsetsOf(Nat)
           U == {1..n : n \in T}
<1>1. IsWellFoundedOn(R, F)
  BY FS_StrictSubsetOrderingWellFounded
<1>2. U \subseteq F
  <2> SUFFICES ASSUME NEW n \in T PROVE 1..n \in F
    OBVIOUS
  <2>1. IsFiniteSet(1..n)
    BY FS_Interval
  <2> QED
    BY <2>1 DEF FiniteSubsetsOf
<1>3. U # {}
  OBVIOUS
<1>4. \A k, n \in T : k < n => <<1..k, 1..n>> \in R
  BY DEF StrictSubsetOrdering
<1> HIDE DEF R, F
<1>5. PICK x \in U : \A y \in U : <<y, x>> \notin R
  <2> HIDE DEF U
  <2> QED
    BY <1>1, <1>2, <1>3, WFMin
<1>6. PICK m \in T : x = 1..m
  OBVIOUS
<1>7. ASSUME NEW k \in T PROVE ~(k < m)
  BY <1>4, <1>5, <1>6
<1> QED
  BY <1>7

\* Max of a set of numbers with a bound is its greatest element.
LEMMA GreatestElement ==
  ASSUME NEW n \in Nat, NEW T \in SUBSET (0..n), T # {}
  PROVE  Max(T) \in T /\ \A k \in T : k <= Max(T)
<1> DEFINE U == {n - k : k \in T}
<1>1. PICK u \in U : \A k \in U : u <= k
  <2>1. \A k \in T : k \in Int /\ n - k \in Nat
    OBVIOUS
  <2>2. U \in SUBSET Nat /\ U # {}
    BY <2>1
  <2> HIDE DEF U
  <2> QED
    BY <2>2, LeastElement
<1>2. PICK m \in T : u = n - m
  OBVIOUS
<1>3. \A k \in T : m >= k
  <2> SUFFICES ASSUME NEW k \in T PROVE m >= k
    OBVIOUS
  <2>1. n - k \in U
    OBVIOUS
  <2>2. m \in Int /\ k \in Int /\ n \in Int
    OBVIOUS
  <2> HIDE DEF U
  <2>3. n - m <= n - k
    BY <1>1, <1>2, <2>1
  <2> QED
    BY <2>2, <2>3
<1>4. \E x \in T : \A y \in T : x >= y
  BY <1>3
<1>5. Max(T) \in T /\ \A y \in T : Max(T) >= y
  BY <1>4 DEF Max
<1> QED
  BY <1>5

\* Min of two numbers.
LEMMA MinOfTwo ==
  ASSUME NEW a \in Nat, NEW b \in Nat
  PROVE  Min({a, b}) = IF a <= b THEN a ELSE b
<1> DEFINE m == IF a <= b THEN a ELSE b
           both == {a, b}
<1>1. m \in both /\ \A y \in both : m <= y
  OBVIOUS
<1>2. \A x \in both : (\A y \in both : x <= y) => x = m
  OBVIOUS
<1> HIDE DEF m, both
<1>3. Min(both) = m
  BY <1>1, <1>2 DEF Min
<1> QED
  BY <1>3 DEF m, both

-----------------------------------------------------------------------------
(* The list that Add makes up.                                                *)

\* upTo of Collected, as a function: `next` after each entry of the list.
Loop(f, d, list) ==
  /\ f \in [0..Len(list) -> Seq(Dirs)]
  /\ f[0] = <<d>>
  /\ \A i \in 1..Len(list) :
       f[i] = IF list[i] = d THEN f[i - 1] ELSE Append(f[i - 1], list[i])

\* There is a function that runs like the loop, for any list.
LEMMA LoopRuns ==
  ASSUME NEW d \in Dirs, NEW list \in Seq(Dirs)
  PROVE  \E f : Loop(f, d, list)
<1> DEFINE N == Len(list)
           Runs(f, n) == /\ f[0] = <<d>>
                         /\ \A i \in 1..n :
                              f[i] = IF list[i] = d THEN f[i - 1]
                                     ELSE Append(f[i - 1], list[i])
           Stuck == {n \in 0..N : ~\E f \in [0..n -> Seq(Dirs)] : Runs(f, n)}
<1>1. N \in Nat /\ \A i \in 1..N : list[i] \in Dirs
  BY LenProperties, ElementOfSeq
<1>2. 0 \notin Stuck
  <2> DEFINE f == [i \in 0..0 |-> <<d>>]
  <2>1. f \in [0..0 -> Seq(Dirs)] /\ f[0] = <<d>>
    OBVIOUS
  <2>2. Runs(f, 0)
    BY <2>1
  <2> HIDE DEF f, Runs
  <2> QED
    BY <2>1, <2>2
<1>3. ASSUME NEW n \in 1..N, n - 1 \notin Stuck PROVE n \notin Stuck
  <2>1. PICK f \in [0..(n - 1) -> Seq(Dirs)] : Runs(f, n - 1)
    <3>1. n - 1 \in 0..N
      BY <1>1
    <3> HIDE DEF Runs
    <3> QED
      BY <1>3, <3>1
  <2> DEFINE x == IF list[n] = d THEN f[n - 1] ELSE Append(f[n - 1], list[n])
             g == [i \in 0..n |-> IF i = n THEN x ELSE f[i]]
  <2>2. f[n - 1] \in Seq(Dirs)
    BY <1>1
  <2>3. x \in Seq(Dirs)
    BY <1>1, <2>2, AppendProperties
  <2>4. g \in [0..n -> Seq(Dirs)]
    <3> HIDE DEF x
    <3> QED
      BY <1>1, <2>3
  <2>5. Runs(g, n)
    <3>1. g[0] = <<d>>
      BY <1>1, <2>1
    <3>2. ASSUME NEW i \in 1..n
          PROVE  g[i] = IF list[i] = d THEN g[i - 1] ELSE Append(g[i - 1], list[i])
      <4>1. g[i - 1] = f[i - 1]
        BY <1>1
      <4>2. CASE i = n
        BY <1>1, <4>1, <4>2
      <4>3. CASE i # n
        <5>1. i \in 1..(n - 1) /\ g[i] = f[i]
          BY <1>1, <4>3
        <5> QED
          BY <2>1, <4>1, <5>1
      <4> QED
        BY <4>2, <4>3
    <3> QED
      BY <3>1, <3>2
  <2> HIDE DEF g, Runs
  <2> QED
    BY <2>4, <2>5
<1>4. Stuck = {}
  <2> SUFFICES ASSUME Stuck # {} PROVE FALSE
    OBVIOUS
  <2>1. Stuck \in SUBSET Nat /\ Stuck \subseteq 0..N
    BY <1>1
  <2> HIDE DEF Stuck
  <2>2. PICK m \in Stuck : \A k \in Stuck : m <= k
    BY <2>1, LeastElement
  <2>3. m \in 1..N
    BY <1>1, <1>2, <2>1
  <2>4. m - 1 \notin Stuck
    BY <2>2, <2>3
  <2> QED
    BY <1>3, <2>3, <2>4
<1>5. \E f \in [0..N -> Seq(Dirs)] : Runs(f, N)
  <2>1. N \in 0..N
    BY <1>1
  <2> HIDE DEF Runs
  <2> QED
    BY <1>4, <2>1
<1> QED
  BY <1>5 DEF Loop

\* Collected is what such a function ends with.
LEMMA CollectedRuns ==
  ASSUME NEW d \in Dirs, NEW list \in Seq(Dirs)
  PROVE  \E f : Loop(f, d, list) /\ Collected(d, list) = f[Len(list)]
<1> DEFINE N == Len(list)
           Step(f, i) == IF i = 0 THEN <<d>>
                         ELSE IF list[i] = d THEN f[i - 1]
                         ELSE Append(f[i - 1], list[i])
           upTo == CHOOSE f : f = [i \in 0..N |-> Step(f, i)]
<1>1. N \in Nat /\ \A i \in 1..N : list[i] \in Dirs
  BY LenProperties, ElementOfSeq
<1>2. \E f : f = [i \in 0..N |-> Step(f, i)]
  <2>1. PICK f : Loop(f, d, list)
    BY LoopRuns
  <2>2. \A i \in 0..N : f[i] = Step(f, i)
    <3>1. f[0] = Step(f, 0)
      BY <2>1 DEF Loop
    <3>2. \A i \in 1..N : f[i] = Step(f, i)
      BY <1>1, <2>1 DEF Loop
    <3> HIDE DEF Step
    <3> QED
      BY <1>1, <3>1, <3>2
  <2>3. f \in [0..N -> Seq(Dirs)]
    BY <2>1 DEF Loop
  <2> HIDE DEF Step
  <2>4. f = [i \in 0..N |-> Step(f, i)]
    BY <2>2, <2>3
  <2> QED
    BY <2>4
<1>3. upTo = [i \in 0..N |-> Step(upTo, i)]
  <2> HIDE DEF Step
  <2> QED
    BY <1>2
<1>4. Collected(d, list) = upTo[N]
  BY DEF Collected
<1> HIDE DEF upTo
<1>5. /\ upTo[0] = <<d>>
      /\ \A i \in 1..N : upTo[i] = IF list[i] = d THEN upTo[i - 1]
                                   ELSE Append(upTo[i - 1], list[i])
  <2>1. \A i \in 0..N : upTo[i] = Step(upTo, i)
    <3> HIDE DEF Step
    <3> QED
      BY <1>3
  <2> QED
    BY <1>1, <2>1
<1>6. \A i \in 0..N : upTo[i] \in Seq(Dirs)
  <2> DEFINE Stuck == {i \in 0..N : upTo[i] \notin Seq(Dirs)}
  <2> SUFFICES ASSUME Stuck # {} PROVE FALSE
    OBVIOUS
  <2>1. Stuck \in SUBSET Nat /\ Stuck \subseteq 0..N
    BY <1>1
  <2>2. PICK m \in Stuck : \A k \in Stuck : m <= k
    <3> HIDE DEF Stuck
    <3> QED
      BY <2>1, LeastElement
  <2>3. m # 0
    <3>1. <<d>> \in Seq(Dirs)
      OBVIOUS
    <3> QED
      BY <1>5, <3>1
  <2>4. m \in 1..N /\ m - 1 \in 0..N /\ m - 1 \notin Stuck
    BY <1>1, <2>1, <2>2, <2>3
  <2>5. upTo[m - 1] \in Seq(Dirs)
    BY <2>4
  <2>6. upTo[m] \in Seq(Dirs)
    <3>1. Append(upTo[m - 1], list[m]) \in Seq(Dirs)
      BY <1>1, <2>4, <2>5, AppendProperties
    <3> QED
      BY <1>5, <2>4, <2>5, <3>1
  <2> QED
    BY <2>6
<1>7. upTo \in [0..N -> Seq(Dirs)]
  <2> HIDE DEF Step
  <2> QED
    BY <1>3, <1>6
<1> QED
  BY <1>4, <1>5, <1>7 DEF Loop

-----------------------------------------------------------------------------
(* What is in the list, and in what order.                                    *)

\* The elements of s come in descending order of r.
Decreasing(s, r) == \A i, j \in 1..Len(s) : i < j => r[s[i]] > r[s[j]]

\* One element more.
LEMMA ElementsOfAppend ==
  ASSUME NEW S, NEW s \in Seq(S), NEW x \in S
  PROVE  ToSet(Append(s, x)) = ToSet(s) \cup {x}
<1> DEFINE t == Append(s, x)
<1>1. /\ t \in Seq(S) /\ Len(s) \in Nat /\ Len(t) = Len(s) + 1
      /\ DOMAIN s = 1..Len(s) /\ DOMAIN t = 1..Len(t)
      /\ \A i \in 1..Len(s) : t[i] = s[i]
      /\ t[Len(s) + 1] = x
  BY AppendProperties, LenProperties
<1> HIDE DEF t
<1>2. ToSet(t) = ToSet(s) \cup {x}
  <2>1. \A i \in 1..Len(t) : t[i] \in ToSet(s) \cup {x}
    <3> SUFFICES ASSUME NEW i \in 1..Len(t) PROVE t[i] \in ToSet(s) \cup {x}
      OBVIOUS
    <3>1. CASE i = Len(s) + 1
      BY <1>1, <3>1
    <3>2. CASE i # Len(s) + 1
      <4>1. i \in 1..Len(s) /\ t[i] = s[i]
        BY <1>1, <3>2
      <4> QED
        BY <1>1, <4>1 DEF ToSet
    <3> QED
      BY <3>1, <3>2
  <2>2. \A i \in 1..Len(s) : s[i] \in ToSet(t)
    <3> SUFFICES ASSUME NEW i \in 1..Len(s) PROVE s[i] \in ToSet(t)
      OBVIOUS
    <3>1. i \in 1..Len(t) /\ t[i] = s[i]
      BY <1>1
    <3> QED
      BY <1>1, <3>1 DEF ToSet
  <2>3. x \in ToSet(t)
    <3>1. Len(s) + 1 \in 1..Len(t)
      BY <1>1
    <3> QED
      BY <1>1, <3>1 DEF ToSet
  <2> QED
    BY <1>1, <2>1, <2>2, <2>3 DEF ToSet
<1> QED
  BY <1>2 DEF t

\* Add's loop puts d first, keeps the other entries and their order, and lists
\* nothing twice.
LEMMA CollectedIs ==
  ASSUME NEW d \in Dirs, NEW list \in Seq(Dirs), NEW r,
         \A x \in {d} \cup ToSet(list) : r[x] \in Nat,
         \A i, j \in 1..Len(list) :
           i < j /\ list[i] # d /\ list[j] # d => r[list[i]] > r[list[j]],
         \A i \in 1..Len(list) : list[i] # d => r[d] > r[list[i]]
  PROVE  /\ Collected(d, list) \in Seq(Dirs)
         /\ Len(Collected(d, list)) # 0 /\ Collected(d, list)[1] = d
         /\ ToSet(Collected(d, list)) = {d} \cup ToSet(list)
         /\ Decreasing(Collected(d, list), r)
<1> DEFINE N == Len(list)
<1>1. /\ N \in Nat /\ DOMAIN list = 1..N
      /\ \A i \in 1..N : list[i] \in Dirs /\ list[i] \in ToSet(list)
  BY LenProperties, ElementOfSeq DEF ToSet
<1>2. PICK f : Loop(f, d, list) /\ Collected(d, list) = f[N]
  BY CollectedRuns
<1>3. /\ \A i \in 0..N : f[i] \in Seq(Dirs)
      /\ f[0] = <<d>>
      /\ \A i \in 1..N : f[i] = IF list[i] = d THEN f[i - 1]
                                ELSE Append(f[i - 1], list[i])
  BY <1>2 DEF Loop
<1> DEFINE Good(s, i) == /\ Len(s) # 0 /\ s[1] = d
                         /\ ToSet(s) = {d} \cup {list[j] : j \in 1..i}
                         /\ Decreasing(s, r)
           Bad == {i \in 0..N : ~Good(f[i], i)}
<1>4. Good(f[0], 0)
  <2>1. f[0] = <<d>> /\ Len(<<d>>) = 1 /\ <<d>>[1] = d /\ ToSet(<<d>>) = {d}
    BY <1>3 DEF ToSet
  <2> QED
    BY <2>1 DEF Decreasing
<1>5. ASSUME NEW i \in 1..N, Good(f[i - 1], i - 1) PROVE Good(f[i], i)
  <2> DEFINE s == f[i - 1]
             x == list[i]
  <2>1. i - 1 \in 0..N /\ i \in 0..N /\ 1..i = 1..(i - 1) \cup {i}
    BY <1>1
  <2>2. s \in Seq(Dirs) /\ x \in Dirs /\ Len(s) \in Nat /\ DOMAIN s = 1..Len(s)
    BY <1>1, <1>3, <2>1, LenProperties
  <2>3. {list[j] : j \in 1..i} = {list[j] : j \in 1..(i - 1)} \cup {x}
    BY <2>1
  <2>4. CASE x = d
    <3>1. f[i] = s
      BY <1>3, <2>4
    <3>2. {d} \cup {list[j] : j \in 1..i} = {d} \cup {list[j] : j \in 1..(i - 1)}
      BY <2>3, <2>4
    <3> QED
      BY <1>5, <3>1, <3>2
  <2>5. CASE x # d
    <3> DEFINE t == Append(s, x)
    <3>1. f[i] = t
      BY <1>3, <2>5
    <3>2. /\ Len(t) = Len(s) + 1 /\ t[Len(s) + 1] = x
          /\ \A j \in 1..Len(s) : t[j] = s[j]
      BY <2>2, AppendProperties
    <3>3. ToSet(t) = {d} \cup {list[j] : j \in 1..i}
      BY <1>5, <2>2, <2>3, ElementsOfAppend
    <3>4. \A p \in 1..Len(s) : r[s[p]] > r[x]
      <4> SUFFICES ASSUME NEW p \in 1..Len(s) PROVE r[s[p]] > r[x]
        OBVIOUS
      <4>1. s[p] \in {d} \cup {list[j] : j \in 1..(i - 1)}
        BY <1>5, <2>2 DEF ToSet
      <4>2. CASE s[p] = d
        BY <2>5, <4>2
      <4>3. CASE s[p] # d
        <5>1. PICK j \in 1..(i - 1) : s[p] = list[j]
          BY <4>1, <4>3
        <5>2. j \in 1..N /\ j < i
          BY <1>1
        <5> QED
          BY <2>5, <4>3, <5>1, <5>2
      <4> QED
        BY <4>2, <4>3
    <3> HIDE DEF s, x, t
    <3>5. Decreasing(t, r)
      <4> SUFFICES ASSUME NEW p \in 1..Len(t), NEW q \in 1..Len(t), p < q
                   PROVE  r[t[p]] > r[t[q]]
        BY DEF Decreasing
      <4>1. p \in 1..Len(s) /\ t[p] = s[p]
        BY <2>2, <3>2
      <4>2. CASE q = Len(s) + 1
        BY <3>2, <3>4, <4>1, <4>2
      <4>3. CASE q # Len(s) + 1
        <5>1. q \in 1..Len(s) /\ t[q] = s[q]
          BY <2>2, <3>2, <4>3
        <5>2. Decreasing(s, r)
          BY <1>5 DEF s
        <5> QED
          BY <4>1, <5>1, <5>2 DEF Decreasing
      <4> QED
        BY <4>2, <4>3
    <3>6. Len(t) # 0 /\ t[1] = d
      <4>1. Len(s) # 0 /\ s[1] = d
        BY <1>5 DEF s
      <4>2. 1 \in 1..Len(s)
        BY <2>2, <4>1
      <4> QED
        BY <2>2, <3>2, <4>1, <4>2
    <3> QED
      BY <3>1, <3>3, <3>5, <3>6
  <2> QED
    BY <2>4, <2>5
<1>6. Good(f[N], N)
  <2> SUFFICES ASSUME Bad # {} PROVE FALSE
    <3>1. N \in 0..N
      BY <1>1
    <3> HIDE DEF Good
    <3> QED
      BY <3>1
  <2> HIDE DEF Good
  <2>1. Bad \in SUBSET Nat /\ Bad \subseteq 0..N
    BY <1>1
  <2>2. PICK m \in Bad : \A k \in Bad : m <= k
    <3> HIDE DEF Bad
    <3> QED
      BY <2>1, LeastElement
  <2>3. m # 0
    BY <1>4
  <2>4. m \in 1..N /\ m - 1 \in 0..N /\ m - 1 \notin Bad
    BY <1>1, <2>1, <2>2, <2>3
  <2> QED
    BY <1>5, <2>4
<1>7. ToSet(list) = {list[j] : j \in 1..N}
  BY <1>1 DEF ToSet
<1>8. N \in 0..N
  BY <1>1
<1> QED
  BY <1>2, <1>3, <1>6, <1>7, <1>8

\* A cut keeps the beginning.
LEMMA CutKeeps ==
  ASSUME NEW S, NEW s \in Seq(S), NEW n \in Nat
  PROVE  /\ FirstOf(s, n) \in Seq(S)
         /\ Len(FirstOf(s, n)) = IF n <= Len(s) THEN n ELSE Len(s)
         /\ \A i \in 1..Len(FirstOf(s, n)) : FirstOf(s, n)[i] = s[i]
<1> DEFINE m == IF n <= Len(s) THEN n ELSE Len(s)
<1>1. Len(s) \in Nat /\ m \in 0..Len(s)
  BY LenProperties
<1>2. FirstOf(s, n) = SubSeq(s, 1, m)
  BY <1>1, MinOfTwo DEF FirstOf
<1>3. \A i \in 1..m : s[i] \in S
  BY <1>1, ElementOfSeq
<1> HIDE DEF m
<1>4. /\ SubSeq(s, 1, m) \in Seq(S)
      /\ Len(SubSeq(s, 1, m)) = IF 1 <= m THEN m - 1 + 1 ELSE 0
      /\ \A i \in 1..(m - 1 + 1) : SubSeq(s, 1, m)[i] = s[1 + i - 1]
  BY <1>1, <1>3, SubSeqProperties
<1>5. Len(SubSeq(s, 1, m)) = m
  BY <1>1, <1>4
<1>6. \A i \in 1..m : SubSeq(s, 1, m)[i] = s[i]
  BY <1>1, <1>4
<1> QED
  BY <1>2, <1>4, <1>5, <1>6 DEF m

\* A list in descending order has as many entries as elements.
LEMMA NoDuplicates ==
  ASSUME NEW S, NEW s \in Seq(S), NEW r, \A x \in ToSet(s) : r[x] \in Nat, Decreasing(s, r)
  PROVE  /\ \A i, j \in 1..Len(s) : s[i] = s[j] => i = j
         /\ IsFiniteSet(ToSet(s)) /\ Cardinality(ToSet(s)) = Len(s)
<1>1. /\ Len(s) \in Nat /\ DOMAIN s = 1..Len(s)
      /\ \A i \in 1..Len(s) : s[i] \in ToSet(s)
  BY LenProperties DEF ToSet
<1>2. ASSUME NEW i \in 1..Len(s), NEW j \in 1..Len(s), s[i] = s[j] PROVE i = j
  <2>1. ~(i < j)
    BY <1>1, <1>2 DEF Decreasing
  <2>2. ~(j < i)
    BY <1>1, <1>2 DEF Decreasing
  <2> QED
    BY <2>1, <2>2
<1>3. s \in Bijection(1..Len(s), ToSet(s))
  <2>1. s \in [1..Len(s) -> ToSet(s)]
    BY <1>1, LenProperties
  <2>2. \A x \in ToSet(s) : \E i \in 1..Len(s) : s[i] = x
    BY <1>1 DEF ToSet
  <2>3. s \in Surjection(1..Len(s), ToSet(s))
    BY <2>1, <2>2 DEF Surjection
  <2>4. s \in Injection(1..Len(s), ToSet(s))
    BY <1>1, <1>2, <2>1 DEF Injection, IsInjective
  <2> QED
    BY <2>3, <2>4 DEF Bijection
<1>4. IsFiniteSet(1..Len(s)) /\ Cardinality(1..Len(s)) = Len(s)
  BY <1>1, FS_Interval
<1>5. ExistsBijection(1..Len(s), ToSet(s))
  BY <1>3 DEF ExistsBijection
<1>6. IsFiniteSet(ToSet(s)) /\ Cardinality(ToSet(s)) = Len(s)
  BY <1>4, <1>5, FS_Bijection
<1> QED
  BY <1>2, <1>6

\* What a list holds is finite.
LEMMA ElementsAreFinite ==
  ASSUME NEW S, NEW s \in Seq(S)
  PROVE  IsFiniteSet(ToSet(s))
<1>1. Len(s) \in Nat /\ DOMAIN s = 1..Len(s) /\ s \in [1..Len(s) -> S]
  BY LenProperties
<1>2. s \in Surjection(1..Len(s), ToSet(s))
  BY <1>1 DEF ToSet, Surjection
<1>3. IsFiniteSet(1..Len(s))
  BY <1>1, FS_Interval
<1> QED
  BY <1>2, <1>3, FS_Surjection

\* When something was used last.
LEMMA LastUseIs ==
  ASSUME NEW used \in Seq(Dirs), NEW x \in ToSet(used)
  PROVE  /\ LastUse(x, used) \in 1..Len(used) /\ used[LastUse(x, used)] = x
         /\ \A i \in 1..Len(used) : used[i] = x => i <= LastUse(x, used)
<1> DEFINE T == {i \in DOMAIN used : used[i] = x}
<1>1. Len(used) \in Nat /\ DOMAIN used = 1..Len(used)
  BY LenProperties
<1>2. T \in SUBSET (0..Len(used)) /\ T # {}
  BY <1>1 DEF ToSet
<1>3. LastUse(x, used) = Max(T)
  BY DEF LastUse
<1>4. Max(T) \in T /\ \A k \in T : k <= Max(T)
  <2> HIDE DEF T
  <2> QED
    BY <1>1, <1>2, GreatestElement
<1> QED
  BY <1>1, <1>3, <1>4

\* One use more is the last of its directory, and of no other.
LEMMA LastUseMoves ==
  ASSUME NEW used \in Seq(Dirs), NEW d \in Dirs
  PROVE  /\ LastUse(d, Append(used, d)) = Len(used) + 1
         /\ \A x \in ToSet(used) \ {d} : LastUse(x, Append(used, d)) = LastUse(x, used)
<1> DEFINE more == Append(used, d)
<1>1. /\ more \in Seq(Dirs) /\ Len(used) \in Nat /\ Len(more) = Len(used) + 1
      /\ \A i \in 1..Len(used) : more[i] = used[i]
      /\ more[Len(used) + 1] = d
      /\ ToSet(more) = ToSet(used) \cup {d}
  BY AppendProperties, LenProperties, ElementsOfAppend
<1> HIDE DEF more
<1>2. LastUse(d, more) = Len(used) + 1
  <2>1. d \in ToSet(more) /\ Len(used) + 1 \in 1..Len(more)
    BY <1>1
  <2>2. LastUse(d, more) \in 1..Len(more) /\ Len(used) + 1 <= LastUse(d, more)
    BY <1>1, <2>1, LastUseIs
  <2> QED
    BY <1>1, <2>2
<1>3. ASSUME NEW x \in ToSet(used) \ {d} PROVE LastUse(x, more) = LastUse(x, used)
  <2>1. /\ LastUse(x, used) \in 1..Len(used) /\ used[LastUse(x, used)] = x
        /\ \A i \in 1..Len(used) : used[i] = x => i <= LastUse(x, used)
    BY <1>3, LastUseIs
  <2>2. /\ LastUse(x, more) \in 1..Len(more) /\ more[LastUse(x, more)] = x
        /\ \A i \in 1..Len(more) : more[i] = x => i <= LastUse(x, more)
    BY <1>1, <1>3, LastUseIs
  <2>3. LastUse(x, more) \in 1..Len(used) /\ used[LastUse(x, more)] = x
    BY <1>1, <1>3, <2>2
  <2>4. LastUse(x, more) <= LastUse(x, used)
    BY <2>1, <2>3
  <2>5. LastUse(x, used) <= LastUse(x, more)
    BY <1>1, <2>1, <2>2
  <2> QED
    BY <1>1, <2>1, <2>3, <2>4, <2>5
<1> QED
  BY <1>2, <1>3 DEF more

\* How many entries there are before the cut, in terms of the cap.
LEMMA Counting ==
  ASSUME NEW U, IsFiniteSet(U), NEW K \in SUBSET U, NEW d, NEW c \in Nat \ {0},
         Cardinality(K) = IF c <= Cardinality(U) THEN c ELSE Cardinality(U)
  PROVE  LET k == Cardinality(K \cup {d})
             u == Cardinality(U \cup {d})
         IN  (IF c <= k THEN c ELSE k) = (IF c <= u THEN c ELSE u)
<1>1. /\ IsFiniteSet(K) /\ Cardinality(K) \in Nat /\ Cardinality(U) \in Nat
      /\ Cardinality(U) = Cardinality(K) => U = K
  BY FS_Subset, FS_CardinalityType
<1>2. /\ Cardinality(K \cup {d}) = IF d \in K THEN Cardinality(K) ELSE Cardinality(K) + 1
      /\ Cardinality(U \cup {d}) = IF d \in U THEN Cardinality(U) ELSE Cardinality(U) + 1
  BY <1>1, FS_AddElement
<1>3. CASE d \in K
  BY <1>1, <1>2, <1>3
<1>4. CASE d \in U /\ d \notin K
  BY <1>1, <1>2, <1>4
<1>5. CASE d \notin U
  BY <1>1, <1>2, <1>5
<1> QED
  BY <1>3, <1>4, <1>5

LEMMA CapIsPositive == Cap \in Nat \ {0}
BY RecentsAssumption

\* No launch, no history.
LEMMA NothingUsed ==
  /\ <<>> \in Seq(Dirs) /\ IsHistory(<<>>, <<>>)
  /\ \A used \in Seq(Dirs) : IsHistory(<<>>, used) => used = <<>>
<1>1. <<>> \in Seq(Dirs) /\ Len(<<>>) = 0 /\ DOMAIN <<>> = {} /\ ToSet(<<>>) = {}
  BY EmptySeq DEF ToSet
<1>2. Cardinality({}) = 0
  BY FS_EmptySet
<1>3. IsHistory(<<>>, <<>>)
  <2>1. Min({Cap, Cardinality(ToSet(<<>>))}) = 0
    <3> DEFINE n == Cardinality(ToSet(<<>>))
    <3>1. n = 0
      BY <1>1, <1>2
    <3> HIDE DEF n
    <3>2. Min({Cap, n}) = IF Cap <= n THEN Cap ELSE n
      BY <3>1, CapIsPositive, MinOfTwo
    <3>3. Min({Cap, n}) = 0
      BY <3>1, <3>2, CapIsPositive
    <3> QED
      BY <3>3 DEF n
  <2> QED
    BY <1>1, <2>1 DEF IsHistory
<1>4. ASSUME NEW used \in Seq(Dirs), IsHistory(<<>>, used) PROVE used = <<>>
  <2>1. IsFiniteSet(ToSet(used)) /\ Cardinality(ToSet(used)) \in Nat
    BY ElementsAreFinite, FS_CardinalityType
  <2>2. Min({Cap, Cardinality(ToSet(used))}) = 0
    BY <1>1, <1>4 DEF IsHistory
  <2>3. Cardinality(ToSet(used)) = 0
    BY <2>1, <2>2, CapIsPositive, MinOfTwo
  <2>4. ToSet(used) = {}
    BY <2>1, <2>3, FS_EmptySet
  <2>5. Len(used) \in Nat /\ \A i \in 1..Len(used) : used[i] \in ToSet(used)
    BY LenProperties DEF ToSet
  <2>6. Len(used) = 0
    BY <2>4, <2>5
  <2> QED
    BY <2>6, EmptySeq
<1> QED
  BY <1>1, <1>3, <1>4

\* For any cap and any directories: Add makes the history of one launch more out
\* of the history.
THEOREM HistoryGrows ==
  ASSUME NEW list \in Seq(Dirs), NEW used \in Seq(Dirs), IsHistory(list, used), NEW d \in Dirs
  PROVE  ToFront(d, list) \in Seq(Dirs) /\ IsHistory(ToFront(d, list), Append(used, d))
<1> DEFINE more == Append(used, d)
           U == ToSet(used)
           K == ToSet(list)
           r == [x \in U \cup {d} |-> LastUse(x, more)]
           whole == Collected(d, list)
           h == ToFront(d, list)
<1>1. /\ Len(used) \in Nat /\ Len(list) \in Nat /\ DOMAIN list = 1..Len(list)
      /\ more \in Seq(Dirs) /\ Len(more) = Len(used) + 1 /\ ToSet(more) = U \cup {d}
      /\ \A i \in 1..Len(list) : list[i] \in K
  BY AppendProperties, LenProperties, ElementsOfAppend DEF ToSet
<1>2. /\ K \subseteq U
      /\ \A i, j \in 1..Len(list) :
           i < j => LastUse(list[i], used) > LastUse(list[j], used)
      /\ \A x \in U \ K, e \in K : LastUse(e, used) > LastUse(x, used)
      /\ Len(list) = Min({Cap, Cardinality(U)})
  BY <1>1 DEF IsHistory
<1>3. /\ \A x \in U : LastUse(x, used) \in 1..Len(used)
      /\ LastUse(d, more) = Len(used) + 1
      /\ \A x \in U \ {d} : LastUse(x, more) = LastUse(x, used)
  BY LastUseIs, LastUseMoves
<1>4. /\ \A x \in U \cup {d} : r[x] = LastUse(x, more) /\ r[x] \in Nat
      /\ \A x \in U \ {d} : r[d] > r[x] /\ r[x] = LastUse(x, used)
  BY <1>1, <1>3
<1> HIDE DEF r, more
<1>5. /\ whole \in Seq(Dirs) /\ Len(whole) # 0 /\ whole[1] = d
      /\ ToSet(whole) = {d} \cup K
      /\ Decreasing(whole, r)
  <2>1. \A x \in {d} \cup K : r[x] \in Nat
    BY <1>2, <1>4
  <2>2. \A i, j \in 1..Len(list) :
          i < j /\ list[i] # d /\ list[j] # d => r[list[i]] > r[list[j]]
    BY <1>1, <1>2, <1>4
  <2>3. \A i \in 1..Len(list) : list[i] # d => r[d] > r[list[i]]
    BY <1>1, <1>2, <1>4
  <2> QED
    BY <2>1, <2>2, <2>3, CollectedIs
<1>6. /\ h \in Seq(Dirs)
      /\ Len(h) = IF Cap <= Len(whole) THEN Cap ELSE Len(whole)
      /\ \A i \in 1..Len(h) : h[i] = whole[i]
  BY <1>5, CapIsPositive, CutKeeps DEF ToFront
<1> HIDE DEF whole, h
<1>7. /\ Len(whole) \in Nat \ {0} /\ DOMAIN whole = 1..Len(whole)
      /\ Len(h) \in 1..Len(whole) /\ DOMAIN h = 1..Len(h)
  BY <1>5, <1>6, CapIsPositive, LenProperties
<1>8. Decreasing(h, r)
  BY <1>5, <1>6, <1>7 DEF Decreasing
<1>9. ToSet(h) \subseteq {d} \cup K /\ d \in ToSet(h)
  <2>1. \A i \in 1..Len(h) : h[i] \in ToSet(whole)
    BY <1>6, <1>7 DEF ToSet
  <2>2. 1 \in 1..Len(h) /\ h[1] = d
    BY <1>5, <1>6, <1>7
  <2> QED
    BY <1>5, <1>7, <2>1, <2>2 DEF ToSet
<1>10. Len(h) = Min({Cap, Cardinality(ToSet(more))})
  <2>1. IsFiniteSet(U) /\ Cardinality(U) \in Nat /\ IsFiniteSet(U \cup {d})
        /\ Cardinality(U \cup {d}) \in Nat
    BY ElementsAreFinite, FS_AddElement, FS_CardinalityType
  <2>2. Cardinality(K) = Len(list)
    <3>1. \A x \in K : [y \in U |-> LastUse(y, used)][x] \in Nat
      BY <1>2, <1>3
    <3>2. Decreasing(list, [y \in U |-> LastUse(y, used)])
      BY <1>1, <1>2 DEF Decreasing
    <3> QED
      BY <3>1, <3>2, NoDuplicates
  <2>3. Cardinality(K) = IF Cap <= Cardinality(U) THEN Cap ELSE Cardinality(U)
    BY <1>2, <2>1, <2>2, CapIsPositive, MinOfTwo
  <2>4. Cardinality(K \cup {d}) = Len(whole)
    <3>1. \A x \in ToSet(whole) : r[x] \in Nat
      BY <1>2, <1>4, <1>5
    <3>2. Cardinality(ToSet(whole)) = Len(whole)
      BY <1>5, <3>1, NoDuplicates
    <3>3. ToSet(whole) = K \cup {d}
      BY <1>5
    <3> QED
      BY <3>2, <3>3
  <2>5. LET k == Cardinality(K \cup {d})
            u == Cardinality(U \cup {d})
        IN  (IF Cap <= k THEN Cap ELSE k) = (IF Cap <= u THEN Cap ELSE u)
    <3> HIDE DEF K, U
    <3> QED
      BY <1>2, <2>1, <2>3, CapIsPositive, Counting
  <2>6. Min({Cap, Cardinality(U \cup {d})}) =
          IF Cap <= Cardinality(U \cup {d}) THEN Cap ELSE Cardinality(U \cup {d})
    BY <2>1, CapIsPositive, MinOfTwo
  <2> QED
    BY <1>1, <1>6, <2>4, <2>5, <2>6
<1>11. \A i, j \in DOMAIN h : i < j => LastUse(h[i], more) > LastUse(h[j], more)
  <2>1. \A i \in 1..Len(h) : h[i] \in U \cup {d}
    BY <1>2, <1>7, <1>9 DEF ToSet
  <2> QED
    BY <1>4, <1>7, <1>8, <2>1 DEF Decreasing
<1>12. ASSUME NEW x \in ToSet(more) \ ToSet(h), NEW e \in ToSet(h)
       PROVE  LastUse(e, more) > LastUse(x, more)
  <2>1. x # d /\ x \in U /\ e \in U \cup {d}
    BY <1>1, <1>2, <1>9, <1>12
  <2>2. r[e] > r[x]
    <3>1. CASE e = d
      BY <1>4, <2>1, <3>1
    <3>2. CASE e # d /\ x \notin K
      <4>1. e \in K
        BY <1>9, <1>12, <3>2
      <4> QED
        BY <1>2, <1>4, <2>1, <3>2, <4>1
    <3>3. CASE x \in K
      <4>1. PICK q \in 1..Len(whole) : whole[q] = x
        <5>1. x \in ToSet(whole)
          BY <1>5, <3>3
        <5> QED
          BY <1>7, <5>1 DEF ToSet
      <4>2. PICK p \in 1..Len(h) : h[p] = e
        BY <1>7, <1>12 DEF ToSet
      <4>3. q \notin 1..Len(h)
        BY <1>6, <1>7, <1>12, <4>1 DEF ToSet
      <4>4. p \in 1..Len(whole) /\ p < q /\ whole[p] = e
        BY <1>6, <1>7, <4>1, <4>2, <4>3
      <4> QED
        BY <1>5, <4>1, <4>4 DEF Decreasing
    <3> QED
      BY <3>1, <3>2, <3>3
  <2> QED
    BY <1>4, <2>1, <2>2
<1>13. ToSet(h) \subseteq ToSet(more)
  BY <1>1, <1>2, <1>9
<1> QED
  BY <1>6, <1>10, <1>11, <1>12, <1>13 DEF IsHistory, more, h

-----------------------------------------------------------------------------
(* The lock, the file and the history.                                        *)

\* Unless a write has emptied it, the file holds the history; the list that an
\* Add is about to write is the history with its launch.
RecentsInv ==
  /\ RecentsTypeOK
  /\ \A t \in Threads :
       /\ adding[t] = "torn" => file = Torn
       /\ adding[t] # "no" => IsHistory(next[t], basis)
  /\ (\A t \in Threads : adding[t] # "torn") => IsHistory(Readable, adds)

\* The operations of the store, by whichever request, and the end of the process.
RecentsStep == \/ \E t \in Threads : \/ \E d \in Dirs : AddReads(t, d)
                                     \/ AddStep(t)
               \/ RecentsRestart
               \/ UNCHANGED recentsVars

\* A torn file is no history.
LEMMA WhatIsRead ==
  ASSUME RecentsTypeOK
  PROVE  Readable \in Seq(Dirs) /\ \A s \in Seq(Dirs) : s # Torn
BY NothingUsed, RecentsAssumption DEF RecentsTypeOK, Readable

\* The store starts without a history.
LEMMA RecentsStart == RecentsInit => RecentsInv
<1> SUFFICES ASSUME RecentsInit PROVE RecentsInv
  OBVIOUS
<1>1. RecentsTypeOK
  BY NothingUsed, RecentsAssumption DEF RecentsInit, RecentsTypeOK
<1>2. Readable = <<>> /\ adds = <<>>
  BY DEF RecentsInit, Readable
<1> QED
  BY <1>1, <1>2, NothingUsed DEF RecentsInit, RecentsInv

\* A call of Add ends, and leaves the lock to the next.
LEMMA AddEnds ==
  ASSUME RecentsInv, NEW t \in Threads, adding[t] # "no", AddReturns(t),
         file' = Torn \/ file' \in Seq(Dirs), adds' \in Seq(Dirs)
  PROVE  RecentsTypeOK' /\ \A u \in Threads : adding'[u] = "no"
<1> USE DEF RecentsInv, RecentsTypeOK
<1>1. mu = t /\ \A u \in Threads \ {t} : adding[u] = "no"
  OBVIOUS
<1>2. /\ adding' = [adding EXCEPT ![t] = "no"] /\ next' = [next EXCEPT ![t] = <<>>]
      /\ mu' = Nobody /\ basis' = <<>>
  BY DEF AddReturns
<1>3. \A u \in Threads : adding'[u] = "no"
  BY <1>1, <1>2
<1>4. adding' \in [Threads -> {"no", "read", "torn"}] /\ next' \in [Threads -> Seq(Dirs)]
  BY <1>2, NothingUsed
<1> QED
  BY <1>2, <1>3, <1>4, NothingUsed, RecentsAssumption

\* Every operation keeps the invariant.
LEMMA RecentsKept ==
  ASSUME RecentsInv, RecentsStep
  PROVE  RecentsInv'
<1>1. /\ RecentsTypeOK /\ Readable \in Seq(Dirs)
      /\ \A s \in Seq(Dirs) : s # Torn
  BY WhatIsRead DEF RecentsInv
<1>2. ASSUME NEW t \in Threads, NEW d \in Dirs, AddReads(t, d) PROVE RecentsInv'
  <2>1. \A u \in Threads : adding[u] = "no"
    BY <1>1, <1>2, RecentsAssumption DEF AddReads, Unheld, RecentsTypeOK
  <2>2. IsHistory(Readable, adds) /\ adds \in Seq(Dirs)
    BY <2>1 DEF RecentsInv, RecentsTypeOK
  <2>3. PICK failed \in BOOLEAN :
          /\ next' = [next EXCEPT ![t] = ToFront(d, IF failed THEN <<>> ELSE Readable)]
          /\ basis' = IF failed THEN <<d>> ELSE Append(adds, d)
    BY <1>2 DEF AddReads
  <2> DEFINE front == ToFront(d, IF failed THEN <<>> ELSE Readable)
  <2>4. front \in Seq(Dirs) /\ basis' \in Seq(Dirs) /\ IsHistory(front, basis')
    <3>1. CASE failed
      <4>1. basis' = Append(<<>>, d) /\ front = ToFront(d, <<>>)
        BY <2>3, <3>1
      <4>2. Append(<<>>, d) \in Seq(Dirs)
        BY NothingUsed, AppendProperties
      <4> HIDE DEF front
      <4> QED
        BY <4>1, <4>2, NothingUsed, HistoryGrows
    <3>2. CASE ~failed
      <4>1. basis' = Append(adds, d) /\ front = ToFront(d, Readable)
        BY <2>3, <3>2
      <4>2. Append(adds, d) \in Seq(Dirs)
        BY <2>2, AppendProperties
      <4> HIDE DEF front
      <4> QED
        BY <1>1, <2>2, <4>1, <4>2, HistoryGrows
    <3> QED
      BY <3>1, <3>2
  <2>5. /\ next' = [next EXCEPT ![t] = front]
        /\ adding' = [adding EXCEPT ![t] = "read"] /\ mu' = t
        /\ UNCHANGED <<file, adds>>
    BY <1>2, <2>3 DEF AddReads
  <2> HIDE DEF front
  <2>6. RecentsTypeOK'
    BY <1>1, <2>1, <2>4, <2>5 DEF RecentsTypeOK
  <2>7. \A u \in Threads : /\ adding'[u] # "torn"
                           /\ adding'[u] # "no" => IsHistory(next'[u], basis')
    BY <1>1, <2>1, <2>4, <2>5 DEF RecentsTypeOK
  <2>8. IsHistory(Readable', adds')
    BY <2>2, <2>5 DEF Readable
  <2> QED
    BY <2>6, <2>7, <2>8 DEF RecentsInv
<1>3. ASSUME NEW t \in Threads, AddGivesUp(t) PROVE RecentsInv'
  <2>1. adding[t] = "read" /\ AddReturns(t) /\ UNCHANGED <<file, adds>>
    BY <1>3 DEF AddGivesUp
  <2>2. RecentsTypeOK' /\ \A u \in Threads : adding'[u] = "no"
    BY <1>1, <2>1, AddEnds DEF RecentsTypeOK
  <2>3. \A u \in Threads : adding[u] # "torn"
    BY <1>1, <2>1 DEF RecentsTypeOK
  <2>4. IsHistory(Readable', adds')
    BY <2>1, <2>3 DEF RecentsInv, Readable
  <2> QED
    BY <2>2, <2>4 DEF RecentsInv
<1>4. ASSUME NEW t \in Threads, Truncates(t) PROVE RecentsInv'
  <2>1. /\ adding[t] = "read" /\ file' = Torn /\ adding' = [adding EXCEPT ![t] = "torn"]
        /\ UNCHANGED <<mu, next, adds, basis>>
    BY <1>4 DEF Truncates
  <2>2. adding'[t] = "torn" /\ \A u \in Threads \ {t} : adding'[u] = adding[u]
    BY <1>1, <2>1 DEF RecentsTypeOK
  <2>3. RecentsTypeOK'
    BY <1>1, <2>1, <2>2 DEF RecentsTypeOK
  <2>4. \A u \in Threads : adding'[u] # "no" => IsHistory(next'[u], basis')
    BY <2>1, <2>2 DEF RecentsInv
  <2> QED
    BY <2>1, <2>2, <2>3, <2>4 DEF RecentsInv
<1>5. ASSUME NEW t \in Threads, Writes(t) PROVE RecentsInv'
  <2>1. /\ adding[t] = "torn" /\ AddReturns(t) /\ file' = next[t] /\ adds' = basis
    BY <1>5 DEF Writes
  <2>2. next[t] \in Seq(Dirs) /\ basis \in Seq(Dirs) /\ IsHistory(next[t], basis)
    BY <1>1, <2>1 DEF RecentsInv, RecentsTypeOK
  <2>3. RecentsTypeOK' /\ \A u \in Threads : adding'[u] = "no"
    BY <2>1, <2>2, AddEnds
  <2>4. Readable' = next[t]
    BY <1>1, <2>1, <2>2 DEF Readable
  <2> QED
    BY <2>1, <2>2, <2>3, <2>4 DEF RecentsInv
<1>6. ASSUME NEW t \in Threads, WriteFails(t) PROVE RecentsInv'
  <2>1. /\ adding[t] = "torn" /\ AddReturns(t) /\ file' = file /\ adds' = <<>>
    BY <1>6 DEF WriteFails
  <2>2. file = Torn
    BY <2>1 DEF RecentsInv
  <2>3. RecentsTypeOK' /\ \A u \in Threads : adding'[u] = "no"
    BY <2>1, <2>2, NothingUsed, AddEnds
  <2>4. Readable' = <<>>
    BY <2>1, <2>2 DEF Readable
  <2> QED
    BY <2>1, <2>3, <2>4, NothingUsed DEF RecentsInv
<1>7. CASE RecentsRestart
  <2>1. /\ adds' = IF file = Torn THEN <<>> ELSE adds
        /\ mu' = Nobody /\ basis' = <<>> /\ file' = file
        /\ adding' = [t \in Threads |-> "no"] /\ next' = [t \in Threads |-> <<>>]
    BY <1>7 DEF RecentsRestart
  <2>2. RecentsTypeOK'
    BY <1>1, <2>1, NothingUsed, RecentsAssumption DEF RecentsTypeOK
  <2>3. IsHistory(Readable', adds')
    <3>1. CASE file = Torn
      BY <2>1, <3>1, NothingUsed DEF Readable
    <3>2. CASE file # Torn
      BY <2>1, <3>2 DEF Readable, RecentsInv
    <3> QED
      BY <3>1, <3>2
  <2> QED
    BY <2>1, <2>2, <2>3 DEF RecentsInv
<1>8. CASE UNCHANGED recentsVars
  <2>1. UNCHANGED <<file, mu, adding, next, adds, basis>>
    BY <1>8 DEF recentsVars
  <2> QED
    BY <2>1 DEF RecentsInv, RecentsTypeOK, Readable
<1> QED
  BY <1>2, <1>3, <1>4, <1>5, <1>6, <1>7, <1>8 DEF RecentsStep, AddStep

\* The store by itself, whoever uses it.
RecentsSpec == RecentsInit /\ [][RecentsStep]_recentsVars

\* The invariant holds for any directories, any cap and any callers.
THEOREM RecentsInvariance == RecentsSpec => []RecentsInv
<1>1. RecentsInv /\ [RecentsStep]_recentsVars => RecentsInv'
  BY RecentsKept DEF RecentsStep
<1> QED
  BY <1>1, RecentsStart, PTL DEF RecentsSpec

\* Whoever finds the lock free reads the history.
LEMMA HistoryIsRead == RecentsInv => HistoryKept
<1> SUFFICES ASSUME RecentsInv, Unheld PROVE IsHistory(Readable, adds)
  BY DEF HistoryKept
<1>1. \A t \in Threads : adding[t] = "no"
  BY RecentsAssumption DEF RecentsInv, RecentsTypeOK, Unheld
<1> QED
  BY <1>1 DEF RecentsInv

=============================================================================
