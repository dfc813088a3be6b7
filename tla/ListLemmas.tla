------------------------------ MODULE ListLemmas ------------------------------
(***************************************************************************)
(* Facts about lists: cutting one into pieces of a given size, which are   *)
(* the partitions of a table into files (list_to_sublists) and the rows of *)
(* a report into requests (insert_rows_from_dataframe), and taking the     *)
(* elements one after another (the validations of a file, in run_config,   *)
(* and the loops over lists that are folds in the model).                  *)
(***************************************************************************)
EXTENDS Integers, SequencesExt, Lists, FiniteSetTheorems, WellFoundedInduction, TLAPS

\* Division with a rest (the places in the list and in its sublists).
LEMMA Quotient ==
  ASSUME NEW m \in Nat \ {0}, NEW q \in Nat, NEW r \in 0..(m - 1)
  PROVE  (q * m + r) \div m = q
OBVIOUS

\* What the operators of division give for numbers of elements.
LEMMA Division ==
  ASSUME NEW m \in Nat \ {0}, NEW n \in Nat
  PROVE  /\ n \div m \in Nat
         /\ (n \div m) * m <= n /\ n < (n \div m) * m + m
         /\ n - (n \div m) * m \in 0..(m - 1)
OBVIOUS

\* How many sublists there are: enough for the last element, and none of them empty.
LEMMA NumberOfSublists ==
  ASSUME NEW m \in Nat \ {0}, NEW len \in Nat
  PROVE  /\ (len + m - 1) \div m \in Nat
         /\ \A i \in 1..((len + m - 1) \div m) : (i - 1) * m + 1 <= len
         /\ \A n \in 1..len : (n - 1) \div m + 1 \in 1..((len + m - 1) \div m)
<1> DEFINE k == (len + m - 1) \div m
<1>1. k \in Nat /\ k * m <= len + m - 1 /\ len + m - 1 < k * m + m
  <2>1. len + m - 1 \in Nat
    OBVIOUS
  <2> HIDE DEF k
  <2>2. \A n \in Nat : n \div m \in Nat /\ (n \div m) * m <= n /\ n < (n \div m) * m + m
    BY Division
  <2>3. k = (len + m - 1) \div m
    BY DEF k
  <2> QED BY <2>1, <2>2, <2>3
<1>2. ASSUME NEW i \in 1..k PROVE (i - 1) * m + 1 <= len
  <2>1. i * m <= k * m
    BY <1>1, <1>2
  <2> QED BY <1>1, <2>1
<1>3. ASSUME NEW n \in 1..len PROVE (n - 1) \div m + 1 \in 1..k
  <2> DEFINE q == (n - 1) \div m
  <2>1. q \in Nat /\ q * m <= n - 1
    <3>1. n - 1 \in Nat
      OBVIOUS
    <3>2. \A x \in Nat : x \div m \in Nat /\ (x \div m) * m <= x
      BY Division
    <3> QED BY <3>1, <3>2
  <2>2. q * m + m < k * m + m
    BY <1>1, <2>1
  <2>3. q < k
    BY <1>1, <2>1, <2>2
  <2> QED BY <1>1, <2>1, <2>3
<1> QED BY <1>1, <1>2, <1>3

\* An empty list has no elements.
LEMMA EmptyList == ToSet(<<>>) = {}
<1>1. DOMAIN <<>> = {}
  OBVIOUS
<1> QED BY <1>1 DEF ToSet

\* The first of a sequence and the rest of it are all its elements (RunValidation).
LEMMA HeadAndTail ==
  ASSUME NEW S, NEW s \in Seq(S), s # <<>>
  PROVE  Head(s) \in S /\ Tail(s) \in Seq(S) /\ ToSet(s) = {Head(s)} \cup ToSet(Tail(s))
<1>1. Len(s) \in Nat \ {0} /\ DOMAIN s = 1..Len(s)
  OBVIOUS
<1>2. DOMAIN Tail(s) = 1..(Len(s) - 1) /\ \A i \in 1..(Len(s) - 1) : Tail(s)[i] = s[i + 1]
  BY <1>1
<1>3. ASSUME NEW i \in 1..Len(s), i # 1 PROVE i - 1 \in DOMAIN Tail(s) /\ s[i] = Tail(s)[i - 1]
  BY <1>1, <1>2, <1>3
<1>4. Head(s) = s[1] /\ 1 \in DOMAIN s
  BY <1>1
<1>5. ToSet(s) \subseteq {Head(s)} \cup ToSet(Tail(s))
  <2>1. ASSUME NEW i \in DOMAIN s PROVE s[i] \in {Head(s)} \cup ToSet(Tail(s))
    <3>1. CASE i = 1
      BY <3>1, <1>4
    <3>2. CASE i # 1
      BY <3>2, <1>1, <1>3 DEF ToSet
    <3> QED BY <3>1, <3>2
  <2> QED BY <2>1 DEF ToSet
<1>6. ToSet(Tail(s)) \subseteq ToSet(s)
  <2>1. \A i \in DOMAIN Tail(s) : i + 1 \in DOMAIN s /\ Tail(s)[i] = s[i + 1]
    BY <1>1, <1>2
  <2> QED BY <2>1 DEF ToSet
<1>7. Head(s) \in ToSet(s)
  BY <1>4 DEF ToSet
<1> QED BY <1>5, <1>6, <1>7

-----------------------------------------------------------------------------
(* Loops over lists: FoldLeft recurs on the set of places, last one first. *)

\* A non-empty set of numbers has a least one.
LEMMA LeastNumber ==
  ASSUME NEW S \in SUBSET Nat, S # {}
  PROVE  \E i \in S : \A j \in S : i <= j
<1> DEFINE R == {ss \in Nat \X Nat : ss[1] < ss[2]}
<1>1. IsWellFoundedOn(R, Nat)
  BY NatLessThanWellFounded DEF OpToRel
<1>2. PICK x \in S : \A y \in S : ~ (<<y, x>> \in R)
  BY <1>1, WFMin
<1>3. ASSUME NEW y \in S PROVE x <= y
  <2>1. y < x => <<y, x>> \in R
    OBVIOUS
  <2> QED BY <1>2, <2>1
<1> QED BY <1>3

\* What holds of zero, and of each number if it holds of the one before it, holds of all.
LEMMA UpTo ==
  ASSUME NEW n \in Nat, NEW Good, 0 \in Good, \A i \in 1..n : i - 1 \in Good => i \in Good
  PROVE  \A i \in 0..n : i \in Good
<1> DEFINE Bad == {i \in 0..n : i \notin Good}
<1> SUFFICES ASSUME Bad # {} PROVE FALSE
  OBVIOUS
<1>1. PICK i \in Bad : \A k \in Bad : i <= k
  <2>1. Bad \in SUBSET Nat
    OBVIOUS
  <2> HIDE DEF Bad
  <2> QED BY <2>1, LeastNumber
<1>2. i \in 1..n /\ i \notin Good /\ i - 1 \in 0..n
  BY <1>1
<1>3. i - 1 \notin Bad
  BY <1>1, <1>2
<1> QED BY <1>2, <1>3

\* The numbers of a set up to a given one have a last one, which Max chooses (FoldLeft).
LEMMA LastOf ==
  ASSUME NEW m \in Nat, NEW s \in SUBSET (1..(m + 1)), m + 1 \in s
  PROVE  Max(s) = m + 1 /\ s \ {m + 1} \in SUBSET (1..m)
<1>1. \A x \in s : (\A y \in s : x >= y) => x = m + 1
  <2>1. ASSUME NEW x \in s, \A y \in s : x >= y PROVE x = m + 1
    <3>1. x \in 1..(m + 1) /\ x >= m + 1
      BY <2>1
    <3> QED BY <3>1
  <2> QED BY <2>1
<1>2. \A y \in s : m + 1 >= y
  <2>1. \A y \in 1..(m + 1) : m + 1 >= y
    OBVIOUS
  <2> QED BY <2>1
<1>3. Max(s) \in s /\ \A y \in s : Max(s) >= y
  <2>1. \E x \in s : \A y \in s : x >= y
    BY <1>2
  <2> QED BY <2>1 DEF Max
<1>4. Max(s) = m + 1
  BY <1>1, <1>3
<1>5. \A x \in 1..(m + 1) : x # m + 1 => x \in 1..m
  OBVIOUS
<1> QED BY <1>4, <1>5

\* A set of numbers up to n has a last one, which is the one Max chooses.
LEMMA LargestNumber ==
  ASSUME NEW n \in Nat, NEW s \in SUBSET (0..n), s # {}
  PROVE  Max(s) \in s /\ \A y \in s : y <= Max(s)
<1> DEFINE Up == {n - x : x \in s}
<1>1. PICK u \in Up : \A y \in Up : u <= y
  <2>1. \A x \in 0..n : n - x \in Nat
    OBVIOUS
  <2>2. Up \in SUBSET Nat /\ Up # {}
    BY <2>1
  <2> HIDE DEF Up
  <2> QED BY <2>2, LeastNumber
<1>2. PICK x \in s : u = n - x
  BY <1>1
<1>3. \A y \in s : x >= y
  <2>1. ASSUME NEW y \in s PROVE x >= y
    <3>1. n - y \in Up /\ x \in 0..n /\ y \in 0..n
      OBVIOUS
    <3>2. n - x <= n - y
      BY <1>1, <1>2, <3>1
    <3> QED BY <3>1, <3>2
  <2> QED BY <2>1
<1>4. Max(s) \in s /\ \A y \in s : Max(s) >= y
  BY <1>3 DEF Max
<1>5. \A y \in s : y \in Int
  OBVIOUS
<1> QED BY <1>4, <1>5

\* So does a set of places.
LEMMA LastNumber ==
  ASSUME NEW n \in Nat, NEW s \in SUBSET (1..n), s # {}
  PROVE  Max(s) \in s /\ \A y \in s : y <= Max(s)
<1>1. s \in SUBSET (0..n)
  <2>1. \A x \in 1..n : x \in 0..n
    OBVIOUS
  <2> QED BY <2>1
<1> QED BY <1>1, LargestNumber

\* The values of a fold over a list of n elements, whatever it does with each.
FoldOf(h, n, base, step) ==
  \A s \in SUBSET (1..n) : h[s] = IF s = {} THEN base ELSE step[<<h[s \ {Max(s)}], Max(s)>>]

\* There is such a function, so that the choice that FoldLeft makes has what it asks for.
LEMMA FoldExists ==
  ASSUME NEW T, NEW base \in T, NEW n \in Nat, NEW step \in [T \X (1..n) -> T]
  PROVE  \E h \in [SUBSET (1..n) -> T] : FoldOf(h, n, base, step)
<1> DEFINE P(m) == \E h \in [SUBSET (1..m) -> T] : FoldOf(h, m, base, step)
<1>1. P(0)
  <2> DEFINE h == [s \in SUBSET (1..0) |-> base]
  <2>1. \A s \in SUBSET (1..0) : s = {}
    OBVIOUS
  <2>2. h \in [SUBSET (1..0) -> T] /\ FoldOf(h, 0, base, step)
    BY <2>1 DEF FoldOf
  <2> QED BY <2>2
<1>2. ASSUME NEW m \in 0..(n - 1), P(m) PROVE P(m + 1)
  <2>1. PICK h \in [SUBSET (1..m) -> T] : FoldOf(h, m, base, step)
    BY <1>2
  <2> DEFINE g == [s \in SUBSET (1..(m + 1)) |->
                     IF m + 1 \in s THEN step[<<h[s \ {m + 1}], m + 1>>] ELSE h[s]]
  <2>2. \A s \in SUBSET (1..(m + 1)) : m + 1 \notin s => s \in SUBSET (1..m)
    OBVIOUS
  <2>3. \A s \in SUBSET (1..(m + 1)) :
          m + 1 \in s => Max(s) = m + 1 /\ s \ {m + 1} \in SUBSET (1..m)
    BY LastOf
  <2>4. g \in [SUBSET (1..(m + 1)) -> T]
    <3>1. ASSUME NEW s \in SUBSET (1..(m + 1)) PROVE g[s] \in T
      <4>1. CASE m + 1 \in s
        <5>1. h[s \ {m + 1}] \in T /\ m + 1 \in 1..n
          BY <2>3, <4>1
        <5> QED BY <4>1, <5>1
      <4>2. CASE m + 1 \notin s
        BY <2>2, <4>2
      <4> QED BY <4>1, <4>2
    <3> QED BY <3>1
  <2>5. ASSUME NEW s \in SUBSET (1..(m + 1))
        PROVE  g[s] = IF s = {} THEN base ELSE step[<<g[s \ {Max(s)}], Max(s)>>]
    <3>1. CASE m + 1 \in s
      <4>1. Max(s) = m + 1 /\ s \ {m + 1} \in SUBSET (1..m) /\ m + 1 \notin s \ {m + 1}
        BY <2>3, <3>1
      <4>2. s \ {m + 1} \in SUBSET (1..(m + 1))
        OBVIOUS
      <4>3. g[s \ {m + 1}] = h[s \ {m + 1}]
        BY <4>1, <4>2
      <4>4. g[s] = step[<<h[s \ {m + 1}], m + 1>>]
        BY <3>1
      <4> QED BY <3>1, <4>1, <4>3, <4>4
    <3>2. CASE m + 1 \notin s
      <4>1. s \in SUBSET (1..m) /\ g[s] = h[s]
        BY <2>2, <3>2
      <4>2. h[s] = IF s = {} THEN base ELSE step[<<h[s \ {Max(s)}], Max(s)>>]
        BY <2>1, <4>1 DEF FoldOf
      <4>3. g[s \ {Max(s)}] = h[s \ {Max(s)}]
        <5>1. s \ {Max(s)} \in SUBSET (1..(m + 1)) /\ m + 1 \notin s \ {Max(s)}
          BY <3>2
        <5> QED BY <5>1
      <4> QED BY <4>1, <4>2, <4>3
    <3> QED BY <3>1, <3>2
  <2> HIDE DEF g
  <2>6. FoldOf(g, m + 1, base, step)
    BY <2>5 DEF FoldOf
  <2> QED BY <2>4, <2>6
<1> HIDE DEF P
<1> DEFINE Good == {m \in 0..n : P(m)}
<1>3. 0 \in Good
  BY <1>1
<1>4. \A m \in 1..n : m - 1 \in Good => m \in Good
  <2>1. ASSUME NEW m \in 1..n, P(m - 1) PROVE P(m)
    <3>1. m - 1 \in 0..(n - 1) /\ (m - 1) + 1 = m
      OBVIOUS
    <3>2. P((m - 1) + 1)
      BY <1>2, <2>1, <3>1
    <3> QED BY <3>1, <3>2
  <2> QED BY <2>1
<1> HIDE DEF Good
<1>5. n \in Good
  BY <1>3, <1>4, UpTo
<1> QED BY <1>5 DEF Good, P

\* The places up to one in a list, and those before it.
LEMMA PlacesUpTo ==
  ASSUME NEW i \in Nat \ {0}
  PROVE  1..i # {} /\ Max(1..i) = i /\ (1..i) \ {i} = 1..(i - 1)
<1>1. i - 1 \in Nat /\ (i - 1) + 1 = i
  OBVIOUS
<1>2. i \in 1..i /\ 1..i \in SUBSET (1..i)
  OBVIOUS
<1>3. \A m \in Nat : \A s \in SUBSET (1..(m + 1)) : m + 1 \in s => Max(s) = m + 1
  BY LastOf
<1>4. Max(1..i) = i
  <2>1. 1..i \in SUBSET (1..((i - 1) + 1)) /\ (i - 1) + 1 \in 1..i
    BY <1>1, <1>2
  <2>2. Max(1..i) = (i - 1) + 1
    BY <1>1, <1>3, <2>1
  <2> QED BY <1>1, <2>2
<1>5. \A x : x \in (1..i) \ {i} <=> x \in 1..(i - 1)
  OBVIOUS
<1> QED BY <1>2, <1>4, <1>5

\* f does with the places what the step does, as far as its values are in T.
GoesBy(f, T, n, base, step) ==
  /\ f[{}] = base
  /\ \A s \in SUBSET (1..n) :
       s # {} /\ f[s \ {Max(s)}] \in T => f[s] = step[<<f[s \ {Max(s)}], Max(s)>>]

\* v has the values on the way from the base to x.
StepsTo(v, x, T, n, base, step) ==
  /\ v \in [0..n -> T] /\ v[0] = base /\ v[n] = x
  /\ \A i \in 1..n : v[i] = step[<<v[i - 1], i>>]

\* A recursion over the places of a list that does what a step does goes through the same
\* values, from the base to its result.
LEMMA FoldThrough ==
  ASSUME NEW T, NEW base \in T, NEW n \in Nat, NEW step \in [T \X (1..n) -> T],
         NEW f, GoesBy(f, T, n, base, step)
  PROVE  \E v : StepsTo(v, f[1..n], T, n, base, step)
<1> DEFINE Good == {i \in 0..n : f[1..i] \in T}
<1>1. 0 \in Good
  <2>1. 1..0 = {}
    OBVIOUS
  <2> QED BY <2>1 DEF GoesBy
<1>2. ASSUME NEW i \in 1..n, i - 1 \in Good
      PROVE  i \in Good /\ f[1..i] = step[<<f[1..(i - 1)], i>>]
  <2>1. 1..i # {} /\ Max(1..i) = i /\ (1..i) \ {i} = 1..(i - 1)
    <3>1. i \in Nat \ {0}
      OBVIOUS
    <3> QED BY <3>1, PlacesUpTo
  <2>2. 1..i \in SUBSET (1..n) /\ i \in 0..n
    OBVIOUS
  <2>3. f[1..(i - 1)] \in T
    BY <1>2
  <2>4. f[1..i] = step[<<f[1..(i - 1)], i>>]
    BY <2>1, <2>2, <2>3 DEF GoesBy
  <2>5. f[1..i] \in T
    BY <2>3, <2>4
  <2> QED BY <2>2, <2>4, <2>5
<1> HIDE DEF Good
<1>3. \A i \in 0..n : i \in Good
  BY <1>1, <1>2, UpTo
<1> DEFINE v == [i \in 0..n |-> f[1..i]]
<1>4. v \in [0..n -> T]
  BY <1>3 DEF Good
<1>5. v[0] = base /\ v[n] = f[1..n]
  <2>1. 1..0 = {} /\ 0 \in 0..n /\ n \in 0..n
    OBVIOUS
  <2> QED BY <2>1 DEF GoesBy
<1>6. ASSUME NEW i \in 1..n PROVE v[i] = step[<<v[i - 1], i>>]
  <2>1. i \in 0..n /\ i - 1 \in 0..n
    OBVIOUS
  <2>2. i - 1 \in Good
    BY <1>3, <2>1
  <2>3. f[1..i] = step[<<f[1..(i - 1)], i>>]
    BY <1>2, <2>2
  <2> QED BY <2>1, <2>3
<1> HIDE DEF v
<1> QED BY <1>4, <1>5, <1>6 DEF StepsTo

\* The elements of a list with one more at its end.
LEMMA AppendElements ==
  ASSUME NEW S, NEW s \in Seq(S), NEW x \in S
  PROVE  /\ Append(s, x) \in Seq(S) /\ ToSet(Append(s, x)) = ToSet(s) \cup {x}
         /\ IsInjective(s) /\ x \notin ToSet(s) => IsInjective(Append(s, x))
<1>1. Len(s) \in Nat /\ DOMAIN s = 1..Len(s) /\ Append(s, x) \in Seq(S)
  OBVIOUS
<1>2. DOMAIN Append(s, x) = 1..(Len(s) + 1)
  OBVIOUS
<1>3. Append(s, x)[Len(s) + 1] = x /\ \A i \in 1..Len(s) : Append(s, x)[i] = s[i]
  OBVIOUS
<1>4. \A i \in 1..(Len(s) + 1) : i \in 1..Len(s) \/ i = Len(s) + 1
  BY <1>1
<1>5. Len(s) + 1 \in 1..(Len(s) + 1) /\ \A i \in 1..Len(s) : i \in 1..(Len(s) + 1)
  BY <1>1
<1> DEFINE t == Append(s, x)
           l == Len(s)
<1> HIDE DEF t, l
<1>6. ToSet(t) = ToSet(s) \cup {x}
  BY <1>1, <1>2, <1>3, <1>4, <1>5 DEF ToSet, t
<1>7. ASSUME IsInjective(s), x \notin ToSet(s) PROVE IsInjective(t)
  <2>1. \A i \in 1..Len(s) : s[i] # x
    BY <1>1, <1>7 DEF ToSet
  <2> QED BY <1>1, <1>2, <1>3, <1>4, <1>7, <2>1 DEF IsInjective, t
<1> QED BY <1>1, <1>6, <1>7 DEF t

\* v has what is kept of the first elements of the list s, for each number of them.
KeepSteps(v, K, s, S) ==
  /\ v \in [0..Len(s) -> Seq(K)]
  /\ v[0] = <<>>
  /\ \A i \in 1..Len(s) : v[i] = IF s[i] \in S THEN Append(v[i - 1], s[i]) ELSE v[i - 1]
  /\ Keep(s, S) = v[Len(s)]

\* Keep goes through the list.
LEMMA KeepOf ==
  ASSUME NEW K, NEW s \in Seq(K), NEW S
  PROVE  \E v : KeepSteps(v, K, s, S)
<1> DEFINE n == Len(s)
           T == Seq(K)
           base == <<>>
           B(x, i) == IF s[i] \in S THEN Append(x, s[i]) ELSE x
           step == [p \in T \X (1..n) |-> B(p[1], p[2])]
           Goes(f) == f = [u \in SUBSET (1..n) |->
                            IF u = {} THEN base ELSE B(f[u \ {Max(u)}], Max(u))]
           f == CHOOSE f : Goes(f)
<1>1. n \in Nat /\ DOMAIN s = 1..n /\ \A i \in 1..n : s[i] \in K
  OBVIOUS
<1>2. base \in T
  OBVIOUS
<1>3. \A x \in T, i \in 1..n : B(x, i) \in T
  BY <1>1
<1>4. Keep(s, S) = f[1..n]
  <2>1. Keep(s, S) =
          (CHOOSE h : h = [u \in SUBSET (DOMAIN s) |->
             IF u = {} THEN base ELSE B(h[u \ {Max(u)}], Max(u))])[DOMAIN s]
    BY DEF Keep, FoldLeft, MapThenFoldSet, B, base
  <2> QED BY <1>1, <2>1
<1> HIDE DEF n, T, base, B
<1>5. step \in [T \X (1..n) -> T] /\ \A x \in T, i \in 1..n : step[<<x, i>>] = B(x, i)
  BY <1>3
<1> HIDE DEF step
<1>6. \A u \in SUBSET (1..n) : u # {} => u \ {Max(u)} \in SUBSET (1..n) /\ Max(u) \in 1..n
  BY <1>1, LastNumber
<1>7. \E h : Goes(h)
  <2>1. PICK h \in [SUBSET (1..n) -> T] : FoldOf(h, n, base, step)
    BY <1>1, <1>2, <1>5, FoldExists
  <2>2. ASSUME NEW u \in SUBSET (1..n)
        PROVE  h[u] = IF u = {} THEN base ELSE B(h[u \ {Max(u)}], Max(u))
    <3>1. h[u] = IF u = {} THEN base ELSE step[<<h[u \ {Max(u)}], Max(u)>>]
      BY <2>1 DEF FoldOf
    <3>2. u # {} => h[u \ {Max(u)}] \in T /\ Max(u) \in 1..n
      BY <2>1, <1>6
    <3> QED BY <1>5, <3>1, <3>2
  <2>3. h = [u \in SUBSET (1..n) |-> h[u]]
    BY <2>1
  <2> QED BY <2>2, <2>3
<1>8. Goes(f)
  BY <1>7
<1> HIDE DEF f
<1>9. f[{}] = base
  BY <1>8
<1>10. \A u \in SUBSET (1..n) :
         u # {} /\ f[u \ {Max(u)}] \in T => f[u] = step[<<f[u \ {Max(u)}], Max(u)>>]
  BY <1>5, <1>6, <1>8
<1> HIDE DEF Goes
<1>11. GoesBy(f, T, n, base, step)
  BY <1>9, <1>10 DEF GoesBy
<1>12. PICK v : StepsTo(v, f[1..n], T, n, base, step)
  BY <1>1, <1>2, <1>5, <1>11, FoldThrough
<1>13. ASSUME NEW i \in 1..n PROVE v[i] = B(v[i - 1], i)
  <2>1. v[i - 1] \in T
    BY <1>1, <1>12 DEF StepsTo
  <2> QED BY <1>5, <1>12, <2>1 DEF StepsTo
<1>14. KeepSteps(v, K, s, S)
  BY <1>1, <1>4, <1>12, <1>13 DEF n, T, base, B, StepsTo, KeepSteps
<1> QED BY <1>14

\* What is kept of a list are its elements that are in the set, in any case once each if
\* the list has each once.
LEMMA KeepIs ==
  ASSUME NEW K, NEW s \in Seq(K), NEW S
  PROVE  /\ Keep(s, S) \in Seq(K) /\ ToSet(Keep(s, S)) = ToSet(s) \cap S
         /\ IsInjective(s) => IsInjective(Keep(s, S))
<1> DEFINE n == Len(s)
           Before(i) == {s[j] : j \in 1..i}
<1>1. n \in Nat /\ DOMAIN s = 1..n /\ \A i \in 1..n : s[i] \in K
  OBVIOUS
<1>8. PICK v : KeepSteps(v, K, s, S)
  BY KeepOf
<1>2. /\ v \in [0..n -> Seq(K)] /\ v[0] = <<>>
      /\ \A i \in 1..n : v[i] = IF s[i] \in S THEN Append(v[i - 1], s[i]) ELSE v[i - 1]
      /\ Keep(s, S) = v[n]
  BY <1>8 DEF KeepSteps
<1> DEFINE Good == {i \in 0..n : /\ ToSet(v[i]) = Before(i) \cap S
                                 /\ IsInjective(s) => IsInjective(v[i])}
<1>3. 0 \in Good
  <2>1. v[0] = <<>> /\ DOMAIN <<>> = {} /\ 1..0 = {}
    BY <1>2
  <2> QED BY <1>1, <2>1 DEF ToSet, IsInjective
<1> HIDE DEF n
<1>4. ASSUME NEW i \in 1..n, i - 1 \in Good PROVE i \in Good
  <2> DEFINE w == v[i - 1]
             x == s[i]
  <2>1. i \in 0..n /\ w \in Seq(K) /\ x \in K
    BY <1>1, <1>2
  <2>2. ToSet(w) = Before(i - 1) \cap S /\ (IsInjective(s) => IsInjective(w))
    BY <1>4
  <2>3. v[i] = IF x \in S THEN Append(w, x) ELSE w
    BY <1>2
  <2>4. Before(i) = Before(i - 1) \cup {x}
    <3>1. 1..i = 1..(i - 1) \cup {i}
      BY <1>1
    <3> QED BY <3>1
  <2>5. IsInjective(s) => x \notin Before(i - 1)
    <3>1. \A j \in 1..(i - 1) : j \in 1..n /\ j # i
      BY <1>1
    <3> QED BY <1>1, <3>1 DEF IsInjective
  <2> HIDE DEF w, x, Before
  <2>6. CASE x \in S
    <3>1. ToSet(Append(w, x)) = ToSet(w) \cup {x}
      BY <2>1, AppendElements
    <3>2. IsInjective(w) /\ x \notin ToSet(w) => IsInjective(Append(w, x))
      BY <2>1, AppendElements
    <3>3. v[i] = Append(w, x)
      BY <2>3, <2>6
    <3>4. ToSet(v[i]) = Before(i) \cap S
      BY <2>2, <2>4, <2>6, <3>1, <3>3
    <3>5. IsInjective(s) => IsInjective(v[i])
      BY <2>2, <2>5, <3>2, <3>3
    <3> QED BY <2>1, <3>4, <3>5
  <2>7. CASE x \notin S
    <3>1. v[i] = w /\ ToSet(w) = Before(i) \cap S
      BY <2>2, <2>3, <2>4, <2>7
    <3> QED BY <2>1, <2>2, <3>1
  <2> QED BY <2>6, <2>7
<1>5. n \in Good
  <2> HIDE DEF Good
  <2>1. n \in Nat /\ n \in 0..n
    BY <1>1
  <2>2. \A i \in 1..n : i - 1 \in Good => i \in Good
    BY <1>4
  <2>3. \A i \in 0..n : i \in Good
    BY <1>3, <2>1, <2>2, UpTo
  <2> QED BY <2>1, <2>3
<1>6. Before(n) = ToSet(s)
  BY <1>1 DEF ToSet
<1> HIDE DEF Before
<1>7. v[n] \in Seq(K)
  BY <1>1, <1>2
<1> QED BY <1>2, <1>5, <1>6, <1>7

\* The elements of a are elements of s, and those of b are elements of t at the same places.
SamePlaces(a, s, b, t) ==
  \A p \in 1..Len(a) : \E j \in 1..Len(s) : a[p] = s[j] /\ b[p] = t[j]

\* Two lists of the same length, of which the elements at the same places are kept, keep
\* elements of the same places.
LEMMA KeepAlike ==
  ASSUME NEW K, NEW s \in Seq(K), NEW S, NEW t \in Seq(K), NEW T, Len(s) = Len(t),
         \A i \in 1..Len(s) : s[i] \in S <=> t[i] \in T
  PROVE  /\ Len(Keep(s, S)) = Len(Keep(t, T)) /\ Len(Keep(s, S)) \in 0..Len(s)
         /\ SamePlaces(Keep(s, S), s, Keep(t, T), t)
<1> DEFINE n == Len(s)
<1>1. n \in Nat /\ DOMAIN s = 1..n /\ DOMAIN t = 1..n
      /\ (\A i \in 1..n : s[i] \in K) /\ (\A i \in 1..n : t[i] \in K)
  OBVIOUS
<1>2. PICK v : KeepSteps(v, K, s, S)
  BY KeepOf
<1>3. PICK w : KeepSteps(w, K, t, T)
  BY KeepOf
<1>4. /\ v \in [0..n -> Seq(K)] /\ v[0] = <<>> /\ Keep(s, S) = v[n]
      /\ \A i \in 1..n : v[i] = IF s[i] \in S THEN Append(v[i - 1], s[i]) ELSE v[i - 1]
  BY <1>2 DEF KeepSteps
<1>5. /\ w \in [0..n -> Seq(K)] /\ w[0] = <<>> /\ Keep(t, T) = w[n]
      /\ \A i \in 1..n : w[i] = IF s[i] \in S THEN Append(w[i - 1], t[i]) ELSE w[i - 1]
  BY <1>3 DEF KeepSteps
<1> HIDE DEF n
<1> DEFINE Pairs(a, b, i) == /\ Len(a) = Len(b) /\ Len(a) \in 0..i
                             /\ \A p \in 1..Len(a) : \E j \in 1..i : a[p] = s[j] /\ b[p] = t[j]
           Good == {i \in 0..n : Pairs(v[i], w[i], i)}
<1>6. 0 \in Good
  <2>1. Pairs(<<>>, <<>>, 0)
    OBVIOUS
  <2> QED BY <1>1, <1>4, <1>5, <2>1
<1>7. ASSUME NEW i \in 1..n, i - 1 \in Good PROVE i \in Good
  <2> DEFINE a == v[i - 1]
             b == w[i - 1]
  <2>1. /\ a \in Seq(K) /\ b \in Seq(K) /\ s[i] \in K /\ t[i] \in K
        /\ i \in 0..n /\ i \in 1..i /\ 1..(i - 1) \subseteq 1..i /\ i - 1 \in Nat /\ i \in Nat
    <3>1. /\ i \in 0..n /\ i \in 1..i /\ 1..(i - 1) \subseteq 1..i /\ i - 1 \in Nat /\ i \in Nat
          /\ i - 1 \in 0..n
      BY <1>1
    <3>2. a \in Seq(K) /\ b \in Seq(K)
      BY <1>4, <1>5, <3>1
    <3> QED BY <1>1, <3>1, <3>2
  <2>2. Pairs(a, b, i - 1)
    BY <1>7
  <2>3. v[i] = IF s[i] \in S THEN Append(a, s[i]) ELSE a
    BY <1>4
  <2>4. w[i] = IF s[i] \in S THEN Append(b, t[i]) ELSE b
    BY <1>5
  <2> HIDE DEF a, b
  <2>5. Len(a) = Len(b) /\ Len(a) \in 0..i
    BY <2>1, <2>2
  <2>6. \A p \in 1..Len(a) : \E j \in 1..i : a[p] = s[j] /\ b[p] = t[j]
    BY <2>1, <2>2
  <2>7. CASE s[i] \in S
    <3> DEFINE x == s[i]
               y == t[i]
    <3>1. /\ Len(Append(a, x)) = Len(a) + 1 /\ Len(Append(b, y)) = Len(a) + 1
          /\ Append(a, x)[Len(a) + 1] = x /\ Append(b, y)[Len(a) + 1] = y
          /\ \A p \in 1..Len(a) : Append(a, x)[p] = a[p] /\ Append(b, y)[p] = b[p]
      <4> HIDE DEF x, y
      <4>1. x \in K /\ y \in K
        BY <2>1 DEF x, y
      <4> QED BY <2>1, <2>5, <4>1
    <3>2. Len(a) + 1 \in 0..i
      BY <2>1, <2>2
    <3>3. ASSUME NEW p \in 1..(Len(a) + 1)
          PROVE  \E j \in 1..i : Append(a, x)[p] = s[j] /\ Append(b, y)[p] = t[j]
      <4>1. CASE p = Len(a) + 1
        BY <2>1, <3>1, <4>1
      <4>2. CASE p # Len(a) + 1
        <5>1. p \in 1..Len(a)
          BY <2>5, <4>2
        <5> QED BY <2>6, <3>1, <5>1
      <4> QED BY <4>1, <4>2
    <3>4. v[i] = Append(a, x) /\ w[i] = Append(b, y)
      BY <2>3, <2>4, <2>7
    <3> HIDE DEF x, y
    <3> DEFINE c == Append(a, x)
               d == Append(b, y)
    <3>5. Len(c) = Len(d) /\ Len(c) \in 0..i
      BY <3>1, <3>2
    <3>6. \A p \in 1..Len(c) : \E j \in 1..i : c[p] = s[j] /\ d[p] = t[j]
      BY <3>1, <3>3
    <3>7. v[i] = c /\ w[i] = d
      BY <3>4
    <3> HIDE DEF c, d
    <3> QED BY <2>1, <3>5, <3>6, <3>7
  <2>8. CASE s[i] \notin S
    BY <2>1, <2>3, <2>4, <2>5, <2>6, <2>8
  <2> QED BY <2>7, <2>8
<1>8. n \in Good
  <2> HIDE DEF Good
  <2>1. n \in 0..n /\ \A i \in 1..n : i - 1 \in Good => i \in Good
    BY <1>1, <1>7
  <2> QED BY <1>1, <1>6, <2>1, UpTo
<1>9. Pairs(v[n], w[n], n)
  BY <1>8
<1> QED BY <1>4, <1>5, <1>9 DEF n, SamePlaces
=============================================================================
