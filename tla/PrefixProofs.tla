---------------------------- MODULE PrefixProofs ----------------------------
(***************************************************************************)
(* Induction over the natural numbers, stated for sets rather than            *)
(* predicates, recursion along an interval, what they say of Prefixes, and    *)
(* that what has different keys can be sorted by them.                       *)
(***************************************************************************)
EXTENDS Prefixes, FiniteSetTheorems, FunctionTheorems, SequenceTheorems, TLAPS

\* A set of numbers that has 0 and with a number the next one has them all:  were
\* n missing, the successor would map the finite set of its members up to n
\* injectively into that set without 0.
LEMMA NatSetInduction ==
  ASSUME NEW T \in SUBSET Nat, 0 \in T, \A n \in T : n + 1 \in T
  PROVE  T = Nat
<1> SUFFICES ASSUME NEW n \in Nat, n \notin T PROVE FALSE
  OBVIOUS
<1> DEFINE B == T \cap (0 .. n)
           f == [i \in B |-> i + 1]
<1>1. IsFiniteSet(B)
  <2>1. IsFiniteSet(0 .. n)
    BY FS_Interval
  <2> QED
    BY <2>1, FS_Subset
<1>2. f \in [B -> B \ {0}] /\ 0 \in B
  OBVIOUS
<1>3. \E x, y \in B : x # y /\ f[x] = f[y]
  <2> HIDE DEF f, B
  <2>1. IsFiniteSet(B \ {0}) /\ Cardinality(B \ {0}) = Cardinality(B) - 1
    BY <1>1, <1>2, FS_RemoveElement
  <2>2. Cardinality(B \ {0}) < Cardinality(B)
    BY <1>1, <2>1, FS_CardinalityType
  <2> QED
    BY <1>1, <1>2, <2>1, <2>2, FS_PigeonHole
<1> QED
  BY <1>3

\* A set of numbers that has a number when it has all below it.
LEMMA NatSetStrongInduction ==
  ASSUME NEW T \in SUBSET Nat, \A n \in Nat : (\A i \in 0 .. n - 1 : i \in T) => n \in T
  PROVE  T = Nat
<1> DEFINE U == {n \in Nat : \A i \in 0 .. n : i \in T}
<1>1. 0 \in U
  OBVIOUS
<1>2. ASSUME NEW n \in U PROVE n + 1 \in U
  <2>1. n + 1 \in Nat /\ \A i \in 0 .. (n + 1) - 1 : i \in T
    OBVIOUS
  <2>2. n + 1 \in T
    BY <2>1
  <2>3. \A i \in 0 .. n + 1 : i \in 0 .. n \/ i = n + 1
    OBVIOUS
  <2> QED
    BY <2>2, <2>3
<1>3. U = Nat
  <2>1. U \in SUBSET Nat
    OBVIOUS
  <2> HIDE DEF U
  <2> QED
    BY <1>1, <1>2, <2>1, NatSetInduction
<1>4. \A n \in Nat : n \in U /\ n \in 0 .. n
  BY <1>3
<1> QED
  BY <1>4

\* The members of an interval, one after the other.
LEMMA IntervalInduction ==
  ASSUME NEW n \in Nat, NEW T, 0 \in T, \A k \in 0 .. n - 1 : k \in T => k + 1 \in T
  PROVE  0 .. n \subseteq T
<1> DEFINE U == {k \in Nat : k <= n => k \in T}
<1>1. 0 \in U
  OBVIOUS
<1>2. \A k \in U : k + 1 \in U
  OBVIOUS
<1>3. U = Nat
  <2> HIDE DEF U
  <2>1. U \in SUBSET Nat
    BY DEF U
  <2> QED
    BY <1>1, <1>2, <2>1, NatSetInduction
<1> QED
  BY <1>3

\* A function along an interval stays in a set that it starts in and never leaves.
LEMMA StaysIn ==
  ASSUME NEW n \in Nat, NEW A, NEW f, f = [i \in 0 .. n |-> f[i]], f[0] \in A,
         \A i \in 1 .. n : f[i - 1] \in A => f[i] \in A
  PROVE  f \in [0 .. n -> A]
<1> DEFINE T == {i \in 0 .. n : f[i] \in A}
<1>1. 0 \in T
  OBVIOUS
<1>2. \A k \in 0 .. n - 1 : k \in T => k + 1 \in T
  <2> SUFFICES ASSUME NEW k \in 0 .. n - 1, f[k] \in A PROVE f[k + 1] \in A
    OBVIOUS
  <2>1. k + 1 \in 1 .. n /\ (k + 1) - 1 = k
    OBVIOUS
  <2> QED
    BY <2>1
<1>3. 0 .. n \subseteq T
  <2> HIDE DEF T
  <2> QED
    BY <1>1, <1>2, IntervalInduction
<1> QED
  BY <1>3

\* What a recursive function along an interval is to satisfy.
Follows(g, base, step, n) ==
  g[0] = base /\ \A i \in 1 .. n : g[i] = step[<<g[i - 1], i>>]

\* A function defined by recursion along 0 .. N exists and does what its definition says.
LEMMA RecursionAlong ==
  ASSUME NEW n \in Nat, NEW A, NEW base \in A, NEW step \in [A \X (1 .. n) -> A]
  PROVE  \E g \in [0 .. n -> A] : Follows(g, base, step, n)
<1> DEFINE T == {k \in 0 .. n : \E g \in [0 .. k -> A] : Follows(g, base, step, k)}
<1>1. 0 \in T
  <2> DEFINE g == [i \in 0 .. 0 |-> base]
  <2>1. g \in [0 .. 0 -> A] /\ Follows(g, base, step, 0)
    BY DEF Follows
  <2> QED
    BY <2>1
<1>2. ASSUME NEW k \in 0 .. n - 1, k \in T PROVE k + 1 \in T
  <2>1. PICK g \in [0 .. k -> A] : Follows(g, base, step, k)
    BY <1>2
  <2>2. k \in Nat /\ k + 1 \in 1 .. n
    OBVIOUS
  <2> DEFINE last == step[<<g[k], k + 1>>]
             h == [i \in 0 .. k + 1 |-> IF i <= k THEN g[i] ELSE last]
  <2>3. last \in A
    BY <2>2
  <2>4. h \in [0 .. k + 1 -> A]
    BY <2>2, <2>3
  <2>5. h[0] = base
    BY <2>1, <2>2 DEF Follows
  <2>6. ASSUME NEW i \in 1 .. k + 1 PROVE h[i] = step[<<h[i - 1], i>>]
    <3>1. h[i - 1] = g[i - 1]
      BY <2>2
    <3>2. CASE i <= k
      BY <2>1, <2>2, <3>1, <3>2 DEF Follows
    <3>3. CASE i = k + 1
      BY <2>2, <3>1, <3>3
    <3> QED
      BY <2>2, <3>2, <3>3
  <2>7. Follows(h, base, step, k + 1)
    BY <2>5, <2>6 DEF Follows
  <2> HIDE DEF h
  <2> QED
    BY <2>2, <2>4, <2>7
<1>3. 0 .. n \subseteq T
  <2> HIDE DEF T
  <2> QED
    BY <1>1, <1>2, IntervalInduction
<1> QED
  BY <1>3

\* The sums along a sequence of numbers.
LEMMA SumsAlong ==
  ASSUME NEW s \in Seq(Nat)
  PROVE  /\ Sums(s) \in [0 .. Len(s) -> Nat] /\ Sums(s)[0] = 0
         /\ \A i \in 1 .. Len(s) : Sums(s)[i] = Sums(s)[i - 1] + s[i]
<1> DEFINE n == Len(s)
           step == [x \in Nat \X (1 .. n) |-> x[1] + s[x[2]]]
           Body(g) == [i \in 0 .. n |-> IF i = 0 THEN 0 ELSE g[i - 1] + s[i]]
<1>1. n \in Nat /\ \A i \in 1 .. n : s[i] \in Nat
  OBVIOUS
<1>2. step \in [Nat \X (1 .. n) -> Nat]
  OBVIOUS
<1>3. PICK g \in [0 .. n -> Nat] : Follows(g, 0, step, n)
  <2> HIDE DEF n, step
  <2> QED
    BY <1>1, <1>2, RecursionAlong
<1>4. ASSUME NEW i \in 1 .. n PROVE g[i] = g[i - 1] + s[i]
  <2>0. i - 1 \in 0 .. n
    BY <1>1
  <2>1. g[i - 1] \in Nat
    BY <2>0
  <2>2. step[<<g[i - 1], i>>] = g[i - 1] + s[i]
    BY <2>1
  <2> HIDE DEF step
  <2> QED
    BY <1>3, <2>2 DEF Follows
<1>5. g = Body(g)
  BY <1>1, <1>3, <1>4 DEF Follows
<1>6. Sums(s) = CHOOSE h : h = Body(h)
  BY DEF Sums
<1>7. Sums(s) = Body(Sums(s))
  <2> HIDE DEF Body
  <2> QED
    BY <1>5, <1>6
<1>8. PICK f : f = Sums(s) /\ f = Body(f)
  <2> HIDE DEF Body
  <2> QED
    BY <1>7
<1> HIDE DEF n, step
<1>9. f[0] = 0 /\ f = [i \in 0 .. n |-> f[i]]
  BY <1>1, <1>8
<1>10. ASSUME NEW i \in 1 .. n PROVE f[i] = f[i - 1] + s[i]
  BY <1>1, <1>8
<1>11. f \in [0 .. n -> Nat]
  <2>1. ASSUME NEW i \in 1 .. n, f[i - 1] \in Nat PROVE f[i] \in Nat
    <3>1. s[i] \in Nat /\ f[i] = f[i - 1] + s[i]
      BY <1>1, <1>10
    <3> QED
      BY <2>1, <3>1
  <2>2. \A i \in 1 .. n : f[i - 1] \in Nat => f[i] \in Nat
    BY <2>1
  <2>3. n \in Nat /\ 0 \in Nat
    BY <1>1
  <2> HIDE DEF Body
  <2> QED
    BY <1>9, <2>2, <2>3, StaysIn
<1> QED
  BY <1>8, <1>9, <1>10, <1>11 DEF n

\* The elements of a set picked along a sequence.
LEMMA PickedAlong ==
  ASSUME NEW s, Len(s) \in Nat, NEW E
  PROVE  /\ Picked(s, E) \in [0 .. Len(s) -> Seq(E)] /\ Picked(s, E)[0] = <<>>
         /\ \A i \in 1 .. Len(s) :
              Picked(s, E)[i] = IF s[i] \in E THEN Append(Picked(s, E)[i - 1], s[i])
                                              ELSE Picked(s, E)[i - 1]
<1> DEFINE n == Len(s)
           Pick(q, e) == IF e \in E THEN Append(q, e) ELSE q
           step == [x \in Seq(E) \X (1 .. n) |-> Pick(x[1], s[x[2]])]
           Body(g) == [i \in 0 .. n |-> IF i = 0 THEN <<>> ELSE Pick(g[i - 1], s[i])]
<1>1. n \in Nat
  OBVIOUS
<1>2. \A q \in Seq(E) : \A e : Pick(q, e) \in Seq(E)
  OBVIOUS
<1>3. <<>> \in Seq(E)
  OBVIOUS
<1>4. Picked(s, E) = CHOOSE h : h = Body(h)
  BY DEF Picked
<1> HIDE DEF Pick, n
<1>5. step \in [Seq(E) \X (1 .. n) -> Seq(E)]
  BY <1>2
<1>6. PICK g \in [0 .. n -> Seq(E)] : Follows(g, <<>>, step, n)
  <2> HIDE DEF step
  <2> QED
    BY <1>1, <1>3, <1>5, RecursionAlong
<1>7. ASSUME NEW i \in 1 .. n PROVE g[i] = Pick(g[i - 1], s[i])
  <2>1. i - 1 \in 0 .. n /\ g[i - 1] \in Seq(E)
    BY <1>1
  <2>2. step[<<g[i - 1], i>>] = Pick(g[i - 1], s[i])
    BY <2>1
  <2> HIDE DEF step
  <2> QED
    BY <1>6, <2>2 DEF Follows
<1>8. g = Body(g)
  BY <1>1, <1>6, <1>7 DEF Follows
<1>9. PICK f : f = Picked(s, E) /\ f = Body(f)
  <2> HIDE DEF Body
  <2> QED
    BY <1>4, <1>8
<1> HIDE DEF step
<1>10. f[0] = <<>> /\ f = [i \in 0 .. n |-> f[i]]
  BY <1>1, <1>9
<1>11. ASSUME NEW i \in 1 .. n PROVE f[i] = Pick(f[i - 1], s[i])
  BY <1>1, <1>9
<1>12. f \in [0 .. n -> Seq(E)]
  <2>1. \A i \in 1 .. n : f[i - 1] \in Seq(E) => f[i] \in Seq(E)
    BY <1>2, <1>11
  <2> QED
    BY <1>1, <1>3, <1>10, <2>1, StaysIn
<1>13. \A i \in 1 .. n : f[i] = IF s[i] \in E THEN Append(f[i - 1], s[i]) ELSE f[i - 1]
  BY <1>11 DEF Pick
<1> HIDE DEF Body
<1> QED
  BY <1>9, <1>10, <1>12, <1>13 DEF n

\* The sums of numbers rise.
LEMMA SumsRise ==
  ASSUME NEW s \in Seq(Nat), NEW i \in 0 .. Len(s), NEW j \in i .. Len(s)
  PROVE  Sums(s)[i] <= Sums(s)[j]
<1>1. PICK S \in [0 .. Len(s) -> Nat] :
        S = Sums(s) /\ \A k \in 1 .. Len(s) : S[k] = S[k - 1] + s[k]
  BY SumsAlong
<1>2. Len(s) \in Nat /\ \A k \in 1 .. Len(s) : s[k] \in Nat
  OBVIOUS
<1> DEFINE T == {k \in Nat : i + k <= Len(s) => S[i] <= S[i + k]}
<1>3. 0 \in T
  <2>1. i + 0 = i /\ S[i] \in Nat
    BY <1>1, <1>2
  <2> QED
    BY <2>1
<1>4. ASSUME NEW k \in T PROVE k + 1 \in T
  <2>1. CASE i + k + 1 <= Len(s)
    <3>1. i + k + 1 \in 1 .. Len(s) /\ (i + k + 1) - 1 = i + k /\ i + k \in 0 .. Len(s)
      BY <1>2, <2>1
    <3>2. S[i + k + 1] = S[i + k] + s[i + k + 1] /\ s[i + k + 1] \in Nat
      BY <1>1, <1>2, <3>1
    <3>3. S[i] <= S[i + k]
      <4>1. i + k <= Len(s)
        BY <1>2, <3>1
      <4> QED
        BY <1>4, <4>1
    <3>5. S[i] \in Nat /\ S[i + k] \in Nat
      BY <1>1, <3>1
    <3>4. S[i] <= S[i + k + 1]
      BY <3>2, <3>3, <3>5
    <3> QED
      BY <3>4
  <2>2. CASE ~(i + k + 1 <= Len(s))
    BY <2>2
  <2> QED
    BY <2>1, <2>2
<1>5. T = Nat
  <2> HIDE DEF T
  <2>1. T \in SUBSET Nat
    BY DEF T
  <2> QED
    BY <1>3, <1>4, <2>1, NatSetInduction
<1>6. j - i \in Nat /\ i + (j - i) = j /\ j <= Len(s)
  BY <1>2
<1>7. j - i \in T
  BY <1>5, <1>6
<1>8. S[i] <= S[i + (j - i)]
  BY <1>6, <1>7
<1> QED
  BY <1>1, <1>6, <1>8

\* Sequences that agree on their first n elements have the same sums up to there.
LEMMA SumsAgree ==
  ASSUME NEW s \in Seq(Nat), NEW t \in Seq(Nat), NEW n \in 0 .. Len(s), n <= Len(t),
         \A i \in 1 .. n : s[i] = t[i]
  PROVE  \A i \in 0 .. n : Sums(s)[i] = Sums(t)[i]
<1>1. PICK S : S = Sums(s) /\ S[0] = 0 /\ \A k \in 1 .. Len(s) : S[k] = S[k - 1] + s[k]
  BY SumsAlong
<1>2. PICK R : R = Sums(t) /\ R[0] = 0 /\ \A k \in 1 .. Len(t) : R[k] = R[k - 1] + t[k]
  BY SumsAlong
<1>3. n \in Nat /\ n <= Len(s) /\ Len(t) \in Nat
  OBVIOUS
<1> DEFINE T == {k \in 0 .. n : S[k] = R[k]}
<1>4. 0 \in T
  BY <1>1, <1>2, <1>3
<1>5. ASSUME NEW k \in 0 .. n - 1, k \in T PROVE k + 1 \in T
  <2>1. /\ k + 1 \in 1 .. n /\ k + 1 \in 1 .. Len(s) /\ k + 1 \in 1 .. Len(t)
        /\ (k + 1) - 1 = k
    BY <1>3
  <2>2. S[k + 1] = S[k] + s[k + 1] /\ R[k + 1] = R[k] + t[k + 1] /\ S[k] = R[k]
    BY <1>1, <1>2, <1>5, <2>1
  <2> QED
    BY <2>1, <2>2
<1>6. 0 .. n \subseteq T
  <2> HIDE DEF T
  <2> QED
    BY <1>3, <1>4, <1>5, IntervalInduction
<1> QED
  BY <1>1, <1>2, <1>6

\* And the same elements picked.
LEMMA PickedAgree ==
  ASSUME NEW s, Len(s) \in Nat, NEW t, Len(t) \in Nat, NEW E,
         NEW n \in 0 .. Len(s), n <= Len(t), \A i \in 1 .. n : s[i] = t[i]
  PROVE  \A i \in 0 .. n : Picked(s, E)[i] = Picked(t, E)[i]
<1>1. PICK P : /\ P = Picked(s, E) /\ P[0] = <<>>
               /\ \A k \in 1 .. Len(s) :
                    P[k] = IF s[k] \in E THEN Append(P[k - 1], s[k]) ELSE P[k - 1]
  BY PickedAlong
<1>2. PICK R : /\ R = Picked(t, E) /\ R[0] = <<>>
               /\ \A k \in 1 .. Len(t) :
                    R[k] = IF t[k] \in E THEN Append(R[k - 1], t[k]) ELSE R[k - 1]
  BY PickedAlong
<1>3. n \in Nat /\ n <= Len(s)
  OBVIOUS
<1> DEFINE T == {k \in 0 .. n : P[k] = R[k]}
<1>4. 0 \in T
  BY <1>1, <1>2, <1>3
<1>5. ASSUME NEW k \in 0 .. n - 1, k \in T PROVE k + 1 \in T
  <2>1. /\ k + 1 \in 1 .. n /\ k + 1 \in 1 .. Len(s) /\ k + 1 \in 1 .. Len(t)
        /\ (k + 1) - 1 = k
    BY <1>3
  <2>2. P[k] = R[k] /\ s[k + 1] = t[k + 1]
    BY <1>5, <2>1
  <2>3. P[k + 1] = R[k + 1]
    BY <1>1, <1>2, <2>1, <2>2
  <2> QED
    BY <2>1, <2>3
<1>6. 0 .. n \subseteq T
  <2> HIDE DEF T
  <2> QED
    BY <1>3, <1>4, <1>5, IntervalInduction
<1> QED
  BY <1>1, <1>2, <1>6

\* One more element is picked or not.
LEMMA PickedAppend ==
  ASSUME NEW A, NEW s \in Seq(A), NEW e \in A, NEW E
  PROVE  /\ Picked(s, E)[0] = <<>> /\ Picked(s, E)[Len(s)] \in Seq(E)
         /\ Picked(Append(s, e), E)[Len(s) + 1] =
              IF e \in E THEN Append(Picked(s, E)[Len(s)], e) ELSE Picked(s, E)[Len(s)]
<1>1. PICK t \in Seq(A) : t = Append(s, e)
  BY AppendProperties
<1>2. /\ Len(t) = Len(s) + 1 /\ Len(s) \in Nat /\ t[Len(s) + 1] = e
      /\ \A i \in 1 .. Len(s) : s[i] = t[i]
  BY <1>1, AppendProperties
<1>3. \A i \in 0 .. Len(s) : Picked(s, E)[i] = Picked(t, E)[i]
  <2>1. Len(t) \in Nat /\ Len(s) \in 0 .. Len(s) /\ Len(s) <= Len(t)
    BY <1>2
  <2> QED
    BY <1>2, <2>1, PickedAgree
<1>4. Len(s) + 1 \in 1 .. Len(t) /\ (Len(s) + 1) - 1 = Len(s) /\ Len(s) \in 0 .. Len(s)
  BY <1>2
<1>5. Picked(t, E)[Len(s) + 1] =
        IF e \in E THEN Append(Picked(t, E)[Len(s)], e) ELSE Picked(t, E)[Len(s)]
  BY <1>2, <1>4, PickedAlong
<1>6. Picked(s, E)[0] = <<>> /\ Picked(s, E) \in [0 .. Len(s) -> Seq(E)]
  BY <1>2, PickedAlong
<1> QED
  BY <1>1, <1>3, <1>4, <1>5, <1>6

\* q begins with p.
Extends(q, p) == Len(p) <= Len(q) /\ \A k \in 1 .. Len(p) : q[k] = p[k]

\* What is picked so far stays the beginning of what is picked later.
LEMMA PickedGrows ==
  ASSUME NEW s, Len(s) \in Nat, NEW E, NEW i \in 0 .. Len(s), NEW j \in i .. Len(s)
  PROVE  Extends(Picked(s, E)[j], Picked(s, E)[i])
<1>1. PICK P \in [0 .. Len(s) -> Seq(E)] :
         /\ P = Picked(s, E)
         /\ \A k \in 1 .. Len(s) :
              P[k] = IF s[k] \in E THEN Append(P[k - 1], s[k]) ELSE P[k - 1]
  BY PickedAlong
<1>2. i \in Nat /\ P[i] \in Seq(E)
  BY <1>1
<1> DEFINE T == {k \in Nat : i + k <= Len(s) => Extends(P[i + k], P[i])}
<1>3. 0 \in T
  <2>1. i + 0 = i /\ Len(P[i]) \in Nat
    BY <1>2
  <2> QED
    BY <2>1 DEF Extends
<1>4. ASSUME NEW k \in T PROVE k + 1 \in T
  <2>1. CASE i + k + 1 <= Len(s)
    <3>1. i + k + 1 \in 1 .. Len(s) /\ (i + k + 1) - 1 = i + k /\ i + k \in 0 .. Len(s)
      BY <1>2, <2>1
    <3>2. PICK q, r : q = P[i + k] /\ r = P[i + k + 1] /\ q \in Seq(E)
      BY <1>1, <3>1
    <3>3. r = IF s[i + k + 1] \in E THEN Append(q, s[i + k + 1]) ELSE q
      BY <1>1, <3>1, <3>2
    <3>4. Extends(q, P[i])
      <4>1. i + k <= Len(s)
        BY <3>1
      <4> QED
        BY <1>4, <3>2, <4>1
    <3>5. Len(q) \in Nat /\ Len(P[i]) \in Nat
      BY <1>2, <3>2
    <3>6. CASE s[i + k + 1] \in E
      <4>1. Len(r) = Len(q) + 1 /\ \A h \in 1 .. Len(q) : r[h] = q[h]
        BY <3>2, <3>3, <3>6, AppendProperties
      <4>2. Extends(r, P[i])
        BY <3>4, <3>5, <4>1 DEF Extends
      <4> QED
        BY <3>2, <4>2
    <3>7. CASE s[i + k + 1] \notin E
      <4>1. Extends(r, P[i])
        BY <3>3, <3>4, <3>7
      <4> QED
        BY <3>2, <4>1
    <3> QED
      BY <3>6, <3>7
  <2>2. CASE ~(i + k + 1 <= Len(s))
    BY <2>2
  <2> QED
    BY <2>1, <2>2
<1>5. T = Nat
  <2> HIDE DEF T
  <2>1. T \in SUBSET Nat
    BY DEF T
  <2> QED
    BY <1>3, <1>4, <2>1, NatSetInduction
<1>6. j - i \in Nat /\ i + (j - i) = j /\ j <= Len(s)
  OBVIOUS
<1>7. j - i \in T
  BY <1>5, <1>6
<1>8. Extends(P[i + (j - i)], P[i])
  BY <1>6, <1>7
<1> QED
  BY <1>1, <1>6, <1>8

\* Of a first element that is not picked, and then elements that all are, all but
\* the first are picked.
LEMMA PickedRun ==
  ASSUME NEW s, Len(s) \in Nat, NEW E, NEW n \in 1 .. Len(s),
         s[1] \notin E, \A i \in 2 .. n : s[i] \in E
  PROVE  /\ Len(Picked(s, E)[n]) = n - 1
         /\ \A i \in 1 .. n - 1 : Picked(s, E)[n][i] = s[i + 1]
<1>1. PICK P \in [0 .. Len(s) -> Seq(E)] :
         /\ P = Picked(s, E) /\ P[0] = <<>>
         /\ \A k \in 1 .. Len(s) :
              P[k] = IF s[k] \in E THEN Append(P[k - 1], s[k]) ELSE P[k - 1]
  BY PickedAlong
<1>2. n \in Nat /\ n - 1 \in Nat /\ n <= Len(s) /\ 1 \in 1 .. Len(s)
  OBVIOUS
<1> DEFINE Rest(k) == Len(P[k + 1]) = k /\ \A i \in 1 .. k : P[k + 1][i] = s[i + 1]
           T == {k \in 0 .. n - 1 : Rest(k)}
<1>3. 0 \in T
  <2>1. P[1] = <<>>
    BY <1>1, <1>2
  <2> QED
    BY <1>2, <2>1
<1>4. ASSUME NEW k \in 0 .. (n - 1) - 1, k \in T PROVE k + 1 \in T
  <2>1. /\ k + 2 \in 2 .. n /\ k + 2 \in 1 .. Len(s) /\ (k + 2) - 1 = k + 1
        /\ k + 1 \in 0 .. Len(s) /\ k + 1 \in 0 .. n - 1 /\ (k + 1) + 1 = k + 2
    BY <1>2
  <2>2. PICK q, r : q = P[k + 1] /\ r = P[k + 2] /\ q \in Seq(E)
    BY <1>1, <2>1
  <2>3. s[k + 2] \in E /\ r = Append(q, s[k + 2])
    BY <1>1, <2>1, <2>2
  <2>4. Len(q) = k /\ \A i \in 1 .. k : q[i] = s[i + 1]
    BY <1>4, <2>2
  <2>5. Len(r) = k + 1 /\ r[k + 1] = s[k + 2] /\ \A i \in 1 .. k : r[i] = q[i]
    BY <2>2, <2>3, <2>4, AppendProperties
  <2>6. ASSUME NEW i \in 1 .. k + 1 PROVE r[i] = s[i + 1]
    <3>1. CASE i = k + 1
      BY <2>1, <2>5, <3>1
    <3>2. CASE i \in 1 .. k
      BY <2>4, <2>5, <3>2
    <3> QED
      BY <3>1, <3>2
  <2>7. Rest(k + 1)
    BY <2>1, <2>2, <2>5, <2>6
  <2> HIDE DEF Rest
  <2> QED
    BY <2>1, <2>7
<1>5. 0 .. n - 1 \subseteq T
  <2> HIDE DEF T
  <2> QED
    BY <1>2, <1>3, <1>4, IntervalInduction
<1>6. n - 1 \in 0 .. n - 1 /\ (n - 1) + 1 = n
  BY <1>2
<1>7. Rest(n - 1)
  <2>1. n - 1 \in T
    <3> HIDE DEF T
    <3> QED
      BY <1>5, <1>6
  <2> QED
    BY <2>1
<1> QED
  BY <1>1, <1>6, <1>7

-----------------------------------------------------------------------------
\* Positions with different keys can be put in the order of their keys:  below
\* each bound one after the other, for at most one position has a key.
LEMMA SortingExists ==
  ASSUME NEW N \in Nat, NEW B \in Nat, NEW K \in [1 .. N -> Nat],
         \A i \in 1 .. N : K[i] < B,
         \A i, j \in 1 .. N : K[i] = K[j] => i = j
  PROVE  \E p \in [1 .. N -> 1 .. N] :
           \A i, j \in 1 .. N : i < j => K[p[i]] < K[p[j]]
<1> DEFINE Below(b) == {i \in 1 .. N : K[i] < b}
           Rises(p, n) == \A i, j \in 1 .. n : i < j => K[p[i]] < K[p[j]]
           Covers(p, n, S) == \A x \in S : \E i \in 1 .. n : p[i] = x
           T == {b \in Nat : \E n \in Nat : \E p \in [1 .. n -> Below(b)] :
                               Rises(p, n) /\ Covers(p, n, Below(b))}
<1>1. 0 \in T
  <2>1. Below(0) = {}
    OBVIOUS
  <2>2. PICK p : p = [i \in 1 .. 0 |-> 0]
    OBVIOUS
  <2>3. p \in [1 .. 0 -> {}] /\ Rises(p, 0) /\ Covers(p, 0, {})
    BY <2>2
  <2> QED
    BY <2>1, <2>3
<1>2. ASSUME NEW b \in T PROVE b + 1 \in T
  <2>0. PICK n \in Nat : \E p \in [1 .. n -> Below(b)] : Rises(p, n) /\ Covers(p, n, Below(b))
    BY <1>2
  <2>1. PICK p \in [1 .. n -> Below(b)] : Rises(p, n) /\ Covers(p, n, Below(b))
    BY <2>0
  <2>2. b \in Nat /\ Below(b) \subseteq 1 .. N /\ Below(b) \subseteq Below(b + 1)
    BY <1>2
  <2>3. CASE \E m \in 1 .. N : K[m] = b
    <3>1. PICK m \in 1 .. N : K[m] = b
      BY <2>3
    <3>2. Below(b + 1) = Below(b) \cup {m}
      BY <2>2, <3>1
    <3>3. PICK q : q = [i \in 1 .. n + 1 |-> IF i <= n THEN p[i] ELSE m]
      OBVIOUS
    <3>4. \A i \in 1 .. n : i \in 1 .. n + 1 /\ q[i] = p[i] /\ p[i] \in Below(b)
      <4> HIDE DEF Below
      <4> QED
        BY <3>3
    <3>5. n + 1 \in 1 .. n + 1 /\ q[n + 1] = m
      BY <3>3
    <3>6. q \in [1 .. n + 1 -> Below(b + 1)]
      <4> HIDE DEF Below
      <4> QED
        BY <3>2, <3>3
    <3>7. Rises(q, n + 1)
      <4> SUFFICES ASSUME NEW i \in 1 .. n + 1, NEW j \in 1 .. n + 1, i < j
                   PROVE  K[q[i]] < K[q[j]]
        OBVIOUS
      <4>0. i \in 1 .. n
        OBVIOUS
      <4>1. q[i] = p[i] /\ K[p[i]] < b
        BY <3>4, <4>0
      <4>2. CASE j \in 1 .. n
        <5>1. q[j] = p[j] /\ K[p[i]] < K[p[j]]
          BY <2>1, <3>4, <4>0, <4>2
        <5> QED
          BY <4>1, <5>1
      <4>3. CASE j = n + 1
        <5>1. K[q[i]] < b /\ q[j] = m
          BY <3>5, <4>1, <4>3
        <5> QED
          BY <3>1, <5>1
      <4> QED
        BY <4>2, <4>3
    <3>8. Covers(q, n + 1, Below(b + 1))
      <4> SUFFICES ASSUME NEW x \in Below(b) \cup {m} PROVE \E i \in 1 .. n + 1 : q[i] = x
        BY <3>2
      <4>1. CASE x = m
        BY <3>5, <4>1
      <4>2. CASE x \in Below(b)
        <5>1. PICK i \in 1 .. n : p[i] = x
          BY <2>1, <4>2
        <5>2. i \in 1 .. n + 1 /\ q[i] = x
          BY <3>4, <5>1
        <5> QED
          BY <5>2
      <4> QED
        BY <4>1, <4>2
    <3>9. n + 1 \in Nat /\ b + 1 \in Nat
      BY <2>2
    <3> HIDE DEF Below, Rises, Covers
    <3> QED
      BY <3>6, <3>7, <3>8, <3>9
  <2>4. CASE ~\E m \in 1 .. N : K[m] = b
    <3>1. Below(b + 1) = Below(b)
      BY <2>2, <2>4
    <3>2. b + 1 \in Nat
      BY <2>2
    <3> HIDE DEF Below, Rises, Covers
    <3> QED
      BY <2>1, <3>1, <3>2
  <2> QED
    BY <2>3, <2>4
<1>3. B \in T
  <2> HIDE DEF T
  <2>1. T \in SUBSET Nat
    BY DEF T
  <2> QED
    BY <1>1, <1>2, <2>1, NatSetInduction
<1>4. Below(B) = 1 .. N
  OBVIOUS
<1>5. PICK n \in Nat : \E p \in [1 .. n -> 1 .. N] : Rises(p, n) /\ Covers(p, n, 1 .. N)
  <2> HIDE DEF Below, Rises, Covers
  <2> QED
    BY <1>3, <1>4
<1>6. PICK p \in [1 .. n -> 1 .. N] : Rises(p, n) /\ Covers(p, n, 1 .. N)
  BY <1>5
<1>7. n = N
  <2>1. \A i, j \in 1 .. n : p[i] = p[j] => i = j
    <3> SUFFICES ASSUME NEW i \in 1 .. n, NEW j \in 1 .. n, p[i] = p[j], i < j
                 PROVE  FALSE
      OBVIOUS
    <3>1. K[p[i]] < K[p[j]] /\ K[p[i]] \in Nat
      BY <1>6
    <3> QED
      BY <3>1
  <2>2. p \in Bijection(1 .. n, 1 .. N)
    <3>1. PICK S, R : S = 1 .. n /\ R = 1 .. N
      OBVIOUS
    <3>2. p \in [S -> R] /\ \A i, j \in S : p[i] = p[j] => i = j
      BY <2>1, <3>1
    <3>3. \A x \in R : \E i \in S : p[i] = x
      BY <1>6, <3>1
    <3>4. p \in Bijection(S, R)
      BY <3>2, <3>3, Fun_IsBij
    <3> QED
      BY <3>1, <3>4
  <2>3. Cardinality(1 .. N) = n
    BY <2>2, FS_CountingElements DEF ExistsBijection
  <2>4. Cardinality(1 .. N) = N
    BY FS_Interval
  <2> QED
    BY <2>3, <2>4
<1> QED
  BY <1>6, <1>7

\* Of as many positions, all different, none is left out.
LEMMA PermutationCovers ==
  ASSUME NEW N \in Nat, NEW p \in [1 .. N -> 1 .. N],
         \A i, j \in 1 .. N : i < j => p[i] # p[j]
  PROVE  \A x \in 1 .. N : \E i \in 1 .. N : p[i] = x
<1> SUFFICES ASSUME NEW x \in 1 .. N, \A i \in 1 .. N : p[i] # x PROVE FALSE
  OBVIOUS
<1>1. PICK S : S = 1 .. N
  OBVIOUS
<1>2. IsFiniteSet(S) /\ x \in S
  BY <1>1, FS_Interval
<1>3. /\ IsFiniteSet(S \ {x}) /\ Cardinality(S \ {x}) = Cardinality(S) - 1
      /\ Cardinality(S) \in Nat
  BY <1>2, FS_RemoveElement, FS_CardinalityType
<1>4. Cardinality(S \ {x}) < Cardinality(S)
  BY <1>3
<1>5. PICK R : R = S \ {x}
  OBVIOUS
<1>6. p \in [S -> R]
  BY <1>1, <1>5
<1>7. IsFiniteSet(R) /\ Cardinality(R) < Cardinality(S)
  BY <1>3, <1>4, <1>5
<1>8. \E i, j \in S : i # j /\ p[i] = p[j]
  BY <1>2, <1>6, <1>7, FS_PigeonHole
<1> QED
  BY <1>1, <1>8

=============================================================================
