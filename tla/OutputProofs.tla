---------------------------- MODULE OutputProofs ----------------------------
(***************************************************************************)
(* What Output promises of every tree and every pointer: a pointer leads to  *)
(* the node it spells, up to the sign of an index, and to every node that is *)
(* not inside a typed value; and the documents of Documents are trees.       *)
(***************************************************************************)
EXTENDS Documents, PrefixProofs

-----------------------------------------------------------------------------
(* Letters.                                                                *)

\* What a sequence of any elements is.
LEMMA SequenceOf ==
  ASSUME NEW s
  PROVE  IsSequence(s) <=> \E n \in Nat : s = [i \in 1 .. n |-> s[i]]
BY DEF IsSequence

\* A sequence is the function of its elements.
LEMMA SequenceFacts ==
  ASSUME NEW s, IsSequence(s)
  PROVE  Len(s) \in Nat /\ DOMAIN s = 1 .. Len(s) /\ s = [i \in 1 .. Len(s) |-> s[i]]
BY DEF IsSequence

\* The first elements of a sequence.
LEMMA FirstOnes ==
  ASSUME NEW s, IsSequence(s), NEW k \in 0 .. Len(s)
  PROVE  /\ IsSequence(SubSeq(s, 1, k)) /\ Len(SubSeq(s, 1, k)) = k
         /\ \A i \in 1 .. k : SubSeq(s, 1, k)[i] = s[i]
         /\ \A i \in 0 .. k : SubSeq(SubSeq(s, 1, k), 1, i) = SubSeq(s, 1, i)
         /\ SubSeq(s, 1, 0) = <<>> /\ SubSeq(s, 1, Len(s)) = s
         /\ k < Len(s) => SubSeq(s, 1, k + 1) = Append(SubSeq(s, 1, k), s[k + 1])
<1>1. PICK S : s \in Seq(S)
  BY DEF IsSequence
<1>2. PICK first : first = SubSeq(s, 1, k)
  OBVIOUS
<1>3. first \in Seq(S) /\ Len(first) = k /\ \A i \in 1 .. k : first[i] = s[i]
  BY <1>1, <1>2
<1>4. IsSequence(first)
  BY <1>3 DEF IsSequence
<1>5. ASSUME NEW i \in 0 .. k PROVE SubSeq(first, 1, i) = SubSeq(s, 1, i)
  <2>1. PICK a, b : a = SubSeq(first, 1, i) /\ b = SubSeq(s, 1, i)
    OBVIOUS
  <2>2. a \in Seq(S) /\ Len(a) = i /\ \A j \in 1 .. i : a[j] = first[j]
    BY <1>3, <2>1
  <2>3. b \in Seq(S) /\ Len(b) = i /\ \A j \in 1 .. i : b[j] = s[j]
    BY <1>1, <2>1
  <2> QED
    BY <1>3, <2>1, <2>2, <2>3
<1>6. SubSeq(s, 1, 0) = <<>> /\ SubSeq(s, 1, Len(s)) = s
  BY <1>1
<1>7. k < Len(s) => SubSeq(s, 1, k + 1) = Append(SubSeq(s, 1, k), s[k + 1])
  BY <1>1
<1> QED
  BY <1>2, <1>3, <1>4, <1>5, <1>6, <1>7

\* One element more of a sequence.
LEMMA OneMore ==
  ASSUME NEW s, IsSequence(s), NEW k \in 0 .. Len(s), k < Len(s)
  PROVE  SubSeq(s, 1, k + 1) = Append(SubSeq(s, 1, k), s[k + 1])
BY FirstOnes

\* A name, and the names below it.
LEMMA Behind ==
  ASSUME NEW n, NEW q, IsSequence(q)
  PROVE  /\ IsSequence(<<n>> \o q) /\ Len(<<n>> \o q) = Len(q) + 1
         /\ <<n>> \o q # <<>> /\ Head(<<n>> \o q) = n /\ Tail(<<n>> \o q) = q
         /\ (<<n>> \o q)[1] = n /\ \A i \in 1 .. Len(q) : (<<n>> \o q)[i + 1] = q[i]
         /\ SubSeq(<<n>> \o q, 1, 0) = <<>>
         /\ \A i \in 0 .. Len(q) : SubSeq(<<n>> \o q, 1, i + 1) = <<n>> \o SubSeq(q, 1, i)
<1>1. PICK S : S = {q[i] : i \in DOMAIN q} \cup {n}
  OBVIOUS
<1>2. q \in Seq(S) /\ n \in S
  BY <1>1 DEF IsSequence
<1>3. PICK s : s = <<n>> \o q
  OBVIOUS
<1>4. /\ s \in Seq(S) /\ Len(s) = Len(q) + 1 /\ s[1] = n
      /\ \A i \in 1 .. Len(q) : s[i + 1] = q[i]
  BY <1>2, <1>3
<1>5. IsSequence(s) /\ s # <<>> /\ SubSeq(s, 1, 0) = <<>>
  BY <1>4, SequenceOf
<1>6. Head(s) = n /\ Tail(s) = q
  <2>1. Tail(s) \in Seq(S) /\ Len(Tail(s)) = Len(q) /\ \A i \in 1 .. Len(q) : Tail(s)[i] = q[i]
    BY <1>2, <1>4, <1>5, HeadTailProperties
  <2> QED
    BY <1>2, <1>4, <2>1
<1>7. ASSUME NEW i \in 0 .. Len(q) PROVE SubSeq(s, 1, i + 1) = <<n>> \o SubSeq(q, 1, i)
  <2>1. PICK a, b, c : a = SubSeq(s, 1, i + 1) /\ b = SubSeq(q, 1, i) /\ c = <<n>> \o b
    OBVIOUS
  <2>2. a \in Seq(S) /\ Len(a) = i + 1 /\ \A j \in 1 .. i + 1 : a[j] = s[j]
    BY <1>4, <2>1
  <2>3. b \in Seq(S) /\ Len(b) = i /\ \A j \in 1 .. i : b[j] = q[j]
    BY <1>2, <2>1
  <2>4. c \in Seq(S) /\ Len(c) = i + 1 /\ c[1] = n /\ \A j \in 1 .. i : c[j + 1] = b[j]
    BY <1>2, <2>1, <2>3
  <2>5. \A j \in 1 .. i + 1 : a[j] = c[j]
    <3> SUFFICES ASSUME NEW j \in 1 .. i + 1 PROVE a[j] = c[j]
      OBVIOUS
    <3>1. CASE j = 1
      BY <1>4, <2>2, <2>4, <3>1
    <3>2. CASE j # 1
      <4>1. j - 1 \in 1 .. i /\ j - 1 \in 1 .. Len(q) /\ (j - 1) + 1 = j
        BY <1>2, <3>2
      <4>2. a[j] = q[j - 1] /\ c[j] = b[j - 1] /\ b[j - 1] = q[j - 1]
        BY <1>4, <2>2, <2>3, <2>4, <4>1
      <4> QED
        BY <4>2
    <3> QED
      BY <3>1, <3>2
  <2> QED
    BY <2>1, <2>2, <2>4, <2>5
<1> QED
  BY <1>3, <1>4, <1>5, <1>6, <1>7

\* Decoding a token and spelling the name again gives the token.
LEMMA SpelledDecoded ==
  ASSUME NEW token \in Token, Decodes(token)
  PROVE  /\ DOMAIN DecodeToken(token) = 1 .. Len(token)
         /\ Len(DecodeToken(token)) = Len(token) /\ Len(token) \in Nat
         /\ Spelled(DecodeToken(token)) = token
<1>1. /\ Len(token) \in Nat /\ DOMAIN token = 1 .. Len(token)
      /\ \A i \in 1 .. Len(token) : token[i] # "/" /\ token[i] # "~"
  BY DEF Token, Decodes
<1>2. PICK name : name = DecodeToken(token)
  OBVIOUS
<1>3. /\ name = [i \in 1 .. Len(token) |-> name[i]]
      /\ \A i \in 1 .. Len(token) :
           name[i] = IF token[i] = "~0" THEN "~"
                     ELSE IF token[i] = "~1" THEN "/" ELSE token[i]
  BY <1>1, <1>2 DEF DecodeToken
<1>4. DOMAIN name = 1 .. Len(token) /\ Len(name) = Len(token)
  BY <1>1, <1>3
<1>5. ASSUME NEW i \in 1 .. Len(token)
      PROVE  token[i] = IF name[i] = "~" THEN "~0"
                        ELSE IF name[i] = "/" THEN "~1" ELSE name[i]
  BY <1>1, <1>3
<1>6. Spelled(name) = [i \in 1 .. Len(token) |-> token[i]]
  BY <1>4, <1>5 DEF Spelled
<1>7. token = [i \in 1 .. Len(token) |-> token[i]]
  BY <1>1 DEF Token
<1> QED
  BY <1>1, <1>2, <1>4, <1>6, <1>7

\* Spelling a name gives a token that decodes to the name.
LEMMA DecodedSpelled ==
  ASSUME NEW name, IsName(name)
  PROVE  Decodes(Spelled(name)) /\ DecodeToken(Spelled(name)) = name
<1>1. /\ Len(name) \in Nat /\ DOMAIN name = 1 .. Len(name)
      /\ name = [i \in 1 .. Len(name) |-> name[i]]
      /\ \A i \in 1 .. Len(name) : name[i] # "~0" /\ name[i] # "~1"
  BY SequenceFacts DEF IsName
<1>2. PICK token : token = Spelled(name)
  OBVIOUS
<1>3. /\ DOMAIN token = 1 .. Len(name)
      /\ \A i \in 1 .. Len(name) :
           token[i] = IF name[i] = "~" THEN "~0"
                      ELSE IF name[i] = "/" THEN "~1" ELSE name[i]
  BY <1>1, <1>2 DEF Spelled
<1>4. \A i \in 1 .. Len(name) :
        /\ token[i] # "~"
        /\ name[i] = IF token[i] = "~0" THEN "~"
                     ELSE IF token[i] = "~1" THEN "/" ELSE token[i]
  BY <1>1, <1>3
<1>5. Decodes(token)
  BY <1>3, <1>4 DEF Decodes
<1>6. DecodeToken(token) = [i \in 1 .. Len(name) |-> name[i]]
  BY <1>3, <1>4 DEF DecodeToken
<1> QED
  BY <1>1, <1>2, <1>5, <1>6

-----------------------------------------------------------------------------
(* Numbers.                                                                *)

Digit == {Digits[d] : d \in 1 .. 10}

\* The ten digits differ, and are neither signs nor tildes nor slashes.
LEMMA DigitsDiffer ==
  /\ \A d \in 1 .. 10 : Digits[d] \notin {"~", "/", "~0", "~1", "+", "-"}
  /\ \A d, e \in 1 .. 10 : Digits[d] = Digits[e] => d = e
  /\ \A d \in 1 .. 10 : Digits[d] = "0" => d = 1
  /\ DOMAIN Digits = 1 .. 10
<1>1. \A d \in 1 .. 10 : \/ d = 1 /\ Digits[d] = "0"
                         \/ d = 2 /\ Digits[d] = "1"
                         \/ d = 3 /\ Digits[d] = "2"
                         \/ d = 4 /\ Digits[d] = "3"
                         \/ d = 5 /\ Digits[d] = "4"
                         \/ d = 6 /\ Digits[d] = "5"
                         \/ d = 7 /\ Digits[d] = "6"
                         \/ d = 8 /\ Digits[d] = "7"
                         \/ d = 9 /\ Digits[d] = "8"
                         \/ d = 10 /\ Digits[d] = "9"
  BY DEF Digits
<1>2. DOMAIN Digits = 1 .. 10
  BY DEF Digits
<1>3. \A d, e \in 1 .. 10 : Digits[d] = Digits[e] => d = e
  BY <1>1
<1>4. \A d \in 1 .. 10 : Digits[d] \notin {"~", "/", "~0", "~1", "+", "-"}
  BY <1>1
<1>5. \A d \in 1 .. 10 : Digits[d] = "0" => d = 1
  BY <1>1
<1> QED
  BY <1>2, <1>3, <1>4, <1>5

\* The digit at a place of a number is the one that is spelled there.
LEMMA DigitIsSpelled ==
  ASSUME NEW name, NEW i \in DOMAIN name, IsNumber(name)
  PROVE  DigitAt(name, i) \in 0 .. 9 /\ Digits[DigitAt(name, i) + 1] = name[i]
<1>1. PICK d \in 1 .. 10 : Digits[d] = name[i]
  BY DigitsDiffer DEF IsNumber
<1>2. PICK c : c = CHOOSE x \in DOMAIN Digits : Digits[x] = name[i]
  OBVIOUS
<1>3. c \in 1 .. 10 /\ Digits[c] = name[i]
  BY <1>1, <1>2, DigitsDiffer
<1>4. DigitAt(name, i) = c - 1
  BY <1>2 DEF DigitAt
<1>5. c - 1 \in 0 .. 9 /\ (c - 1) + 1 = c
  BY <1>3
<1> QED
  BY <1>3, <1>4, <1>5

\* The number that the first digits spell, digit by digit.
LEMMA LeadingAlong ==
  ASSUME NEW name, IsSequence(name), IsNumber(name)
  PROVE  /\ Leading(name) \in [0 .. Len(name) -> Nat] /\ Leading(name)[0] = 0
         /\ \A i \in 1 .. Len(name) :
              Leading(name)[i] = 10 * Leading(name)[i - 1] + DigitAt(name, i)
<1> DEFINE n == Len(name)
           step == [x \in Nat \X (1 .. n) |-> 10 * x[1] + DigitAt(name, x[2])]
           Body(g) == [i \in 0 .. n |-> IF i = 0 THEN 0 ELSE 10 * g[i - 1] + DigitAt(name, i)]
<1>1. n \in Nat /\ \A i \in 1 .. n : DigitAt(name, i) \in 0 .. 9
  BY DigitIsSpelled, SequenceFacts
<1>2. step \in [Nat \X (1 .. n) -> Nat]
  <2> HIDE DEF n
  <2> QED
    BY <1>1
<1>3. PICK g \in [0 .. n -> Nat] : Follows(g, 0, step, n)
  <2> HIDE DEF n, step
  <2> QED
    BY <1>1, <1>2, RecursionAlong
<1>4. ASSUME NEW i \in 1 .. n PROVE g[i] = 10 * g[i - 1] + DigitAt(name, i)
  <2>0. i - 1 \in 0 .. n
    BY <1>1
  <2>1. g[i - 1] \in Nat
    BY <2>0
  <2>2. step[<<g[i - 1], i>>] = 10 * g[i - 1] + DigitAt(name, i)
    BY <2>1
  <2> HIDE DEF step
  <2> QED
    BY <1>3, <2>2 DEF Follows
<1>5. g = Body(g)
  BY <1>1, <1>3, <1>4 DEF Follows
<1>6. Leading(name) = CHOOSE h : h = Body(h)
  BY DEF Leading
<1>7. PICK f : f = Leading(name) /\ f = Body(f)
  <2> HIDE DEF Body
  <2> QED
    BY <1>5, <1>6
<1> HIDE DEF n, step
<1>8. f[0] = 0 /\ f = [i \in 0 .. n |-> f[i]]
  BY <1>1, <1>7
<1>9. ASSUME NEW i \in 1 .. n PROVE f[i] = 10 * f[i - 1] + DigitAt(name, i)
  BY <1>1, <1>7
<1> HIDE DEF Body
<1>10. f \in [0 .. n -> Nat]
  <2>1. ASSUME NEW i \in 1 .. n, f[i - 1] \in Nat PROVE f[i] \in Nat
    <3>1. DigitAt(name, i) \in Nat
      BY <1>1
    <3>2. f[i] = 10 * f[i - 1] + DigitAt(name, i)
      BY <1>9
    <3> QED
      BY <2>1, <3>1, <3>2
  <2>2. \A i \in 1 .. n : f[i - 1] \in Nat => f[i] \in Nat
    BY <2>1
  <2>3. n \in Nat /\ 0 \in Nat
    BY <1>1
  <2> QED
    BY <1>8, <2>2, <2>3, StaysIn
<1> QED
  BY <1>7, <1>8, <1>9, <1>10 DEF n

\* Numerals are defined digit by digit: there is such a function, for any two that
\* start as it does agree as far as they go.
NextNumeral(g, n) ==
  IF n < 10 THEN <<Digits[n + 1]>> ELSE Append(g[n \div 10], Digits[(n % 10) + 1])

\* There is one function that spells the numerals as ElementName asks, and it is that.
LEMMA ElementNameIsDefined ==
  /\ ElementName \in [Nat -> Seq(Digit)]
  /\ \A n \in Nat : ElementName[n] = NextNumeral(ElementName, n)
<1> DEFINE Fits(g, n) == /\ g \in [0 .. n -> Seq(Digit)]
                         /\ \A i \in 0 .. n : g[i] = NextNumeral(g, i)
           Body(g) == [n \in Nat |-> NextNumeral(g, n)]
<1>1. ASSUME NEW n \in Nat
      PROVE  n \div 10 \in Nat /\ n % 10 \in 0 .. 9 /\ (n >= 10 => n \div 10 < n)
  OBVIOUS
<1>2. \A d \in 0 .. 9 : Digits[d + 1] \in Digit
  BY DEF Digit
<1>3. ASSUME NEW n \in Nat, NEW m \in Nat, NEW g, NEW h, Fits(g, n), Fits(h, m)
      PROVE  \A i \in 0 .. n : i <= m => g[i] = h[i]
  <2> DEFINE T == {i \in Nat : i <= n /\ i <= m => g[i] = h[i]}
  <2>1. ASSUME NEW k \in Nat, \A i \in 0 .. k - 1 : i \in T PROVE k \in T
    <3> SUFFICES ASSUME k <= n, k <= m PROVE g[k] = h[k]
      OBVIOUS
    <3>1. g[k] = NextNumeral(g, k) /\ h[k] = NextNumeral(h, k)
      BY <1>3
    <3>2. CASE k < 10
      BY <3>1, <3>2 DEF NextNumeral
    <3>3. CASE ~(k < 10)
      <4>1. k \div 10 \in 0 .. k - 1 /\ k \div 10 <= n /\ k \div 10 <= m
        BY <1>1, <3>3
      <4>2. g[k \div 10] = h[k \div 10]
        BY <2>1, <4>1
      <4> QED
        BY <3>1, <3>3, <4>2 DEF NextNumeral
    <3> QED
      BY <3>2, <3>3
  <2>2. T = Nat
    <3>1. T \in SUBSET Nat
      OBVIOUS
    <3> HIDE DEF T
    <3> QED
      BY <2>1, <3>1, NatSetStrongInduction
  <2> QED
    BY <2>2
<1>4. ASSUME NEW n \in Nat PROVE \E g : Fits(g, n)
  <2> DEFINE T == {k \in Nat : \E g : Fits(g, k)}
  <2>1. 0 \in T
    <3> DEFINE g == [i \in 0 .. 0 |-> <<Digits[1]>>]
    <3>1. <<Digits[1]>> \in Seq(Digit)
      BY <1>2
    <3>2. Fits(g, 0)
      BY <3>1 DEF NextNumeral
    <3> QED
      BY <3>2
  <2>2. ASSUME NEW k \in T PROVE k + 1 \in T
    <3>1. PICK g : Fits(g, k)
      OBVIOUS
    <3> DEFINE last == NextNumeral(g, k + 1)
               h == [i \in 0 .. k + 1 |-> IF i <= k THEN g[i] ELSE last]
    <3>2. last \in Seq(Digit)
      <4>1. CASE k + 1 < 10
        <5>1. k + 1 \in 0 .. 9
          BY <4>1
        <5>2. Digits[(k + 1) + 1] \in Digit
          BY <1>2, <5>1
        <5> QED
          BY <4>1, <5>2 DEF NextNumeral
      <4>2. CASE k + 1 >= 10
        <5>1. k + 1 \in Nat /\ (k + 1) \div 10 \in 0 .. k /\ (k + 1) % 10 \in 0 .. 9
          BY <1>1, <4>2
        <5>2. g[(k + 1) \div 10] \in Seq(Digit)
          BY <3>1, <5>1
        <5>3. Digits[((k + 1) % 10) + 1] \in Digit
          BY <1>2, <5>1
        <5> QED
          BY <4>2, <5>1, <5>2, <5>3 DEF NextNumeral
      <4> QED
        BY <4>1, <4>2
    <3>3. h \in [0 .. k + 1 -> Seq(Digit)]
      BY <3>1, <3>2
    <3>4. ASSUME NEW i \in 0 .. k + 1 PROVE h[i] = NextNumeral(h, i)
      <4>1. h[i] = NextNumeral(g, i)
        BY <3>1
      <4>2. i >= 10 => h[i \div 10] = g[i \div 10]
        <5>1. i >= 10 => i \div 10 \in 0 .. k
          BY <1>1
        <5> QED
          BY <5>1
      <4> HIDE DEF h
      <4> QED
        BY <4>1, <4>2 DEF NextNumeral
    <3>5. Fits(h, k + 1)
      BY <3>3, <3>4
    <3> HIDE DEF h, Fits
    <3> QED
      BY <3>5
  <2>3. T = Nat
    <3>1. T \in SUBSET Nat
      OBVIOUS
    <3> HIDE DEF T
    <3> QED
      BY <2>1, <2>2, <3>1, NatSetInduction
  <2> QED
    BY <2>3
<1> DEFINE to == [n \in Nat |-> CHOOSE g : Fits(g, n)]
           f == [n \in Nat |-> to[n][n]]
<1>5. \A n \in Nat : Fits(to[n], n)
  <2> HIDE DEF Fits
  <2> QED
    BY <1>4
<1> HIDE DEF to
<1>6. f \in [Nat -> Seq(Digit)]
  <2>1. \A n \in Nat : to[n] \in [0 .. n -> Seq(Digit)]
    BY <1>5
  <2> QED
    BY <2>1
<1>7. ASSUME NEW n \in Nat PROVE f[n] = NextNumeral(f, n)
  <2>1. f[n] = NextNumeral(to[n], n)
    <3>1. n \in 0 .. n
      OBVIOUS
    <3> QED
      BY <1>5, <3>1
  <2>2. n >= 10 => f[n \div 10] = to[n][n \div 10]
    <3> SUFFICES ASSUME n >= 10 PROVE f[n \div 10] = to[n][n \div 10]
      OBVIOUS
    <3>1. PICK m \in Nat : m = n \div 10 /\ m \in 0 .. n
      BY <1>1
    <3>2. to[m][m] = to[n][m]
      <4>1. Fits(to[m], m) /\ Fits(to[n], n) /\ m \in 0 .. m /\ m <= n
        BY <1>5, <3>1
      <4> HIDE DEF Fits
      <4> QED
        BY <1>3, <4>1
    <3> QED
      BY <3>1, <3>2
  <2> HIDE DEF f
  <2> QED
    BY <2>1, <2>2 DEF NextNumeral
<1>8. f = Body(f)
  <2>1. f = [n \in Nat |-> f[n]]
    OBVIOUS
  <2> HIDE DEF f
  <2> QED
    BY <1>7, <2>1
<1>9. ElementName = CHOOSE g : g = Body(g)
  BY DEF ElementName, NextNumeral
<1>10. ElementName = Body(ElementName)
  <2> HIDE DEF Body, f
  <2> QED
    BY <1>8, <1>9
<1>11. \A n \in Nat : ElementName[n] = NextNumeral(ElementName, n)
  <2>1. PICK e : e = ElementName /\ e = Body(e)
    BY <1>10
  <2>2. \A n \in Nat : e[n] = NextNumeral(e, n)
    BY <2>1
  <2> QED
    BY <2>1, <2>2
<1>12. ElementName \in [Nat -> Seq(Digit)]
  <2> DEFINE T == {n \in Nat : ElementName[n] \in Seq(Digit)}
  <2>1. ASSUME NEW n \in Nat, \A i \in 0 .. n - 1 : i \in T PROVE n \in T
    <3>1. ElementName[n] = NextNumeral(ElementName, n)
      BY <1>11
    <3>2. CASE n < 10
      <4>1. n \in 0 .. 9
        BY <3>2
      <4>2. Digits[n + 1] \in Digit
        BY <1>2, <4>1
      <4>3. ElementName[n] = <<Digits[n + 1]>>
        BY <3>1, <3>2 DEF NextNumeral
      <4>4. <<Digits[n + 1]>> \in Seq(Digit)
        BY <4>2
      <4> QED
        BY <4>3, <4>4
    <3>3. CASE ~(n < 10)
      <4>1. n \div 10 \in 0 .. n - 1 /\ n % 10 \in 0 .. 9
        BY <1>1, <3>3
      <4>2. ElementName[n \div 10] \in Seq(Digit) /\ Digits[(n % 10) + 1] \in Digit
        BY <1>2, <2>1, <4>1
      <4>3. ElementName[n] = Append(ElementName[n \div 10], Digits[(n % 10) + 1])
        BY <3>1, <3>3 DEF NextNumeral
      <4>4. Append(ElementName[n \div 10], Digits[(n % 10) + 1]) \in Seq(Digit)
        BY <4>2
      <4> QED
        BY <4>3, <4>4
    <3> QED
      BY <3>2, <3>3
  <2>2. T = Nat
    <3>1. T \in SUBSET Nat
      OBVIOUS
    <3> HIDE DEF T
    <3> QED
      BY <2>1, <3>1, NatSetStrongInduction
  <2>3. ElementName = [n \in Nat |-> ElementName[n]]
    <3>1. PICK e : e = ElementName /\ e = Body(e)
      BY <1>10
    <3> QED
      BY <3>1
  <2> QED
    BY <2>2, <2>3
<1> QED
  BY <1>11, <1>12

\* What it comes to: a digit, or the name of the tenth part and a digit.
LEMMA ElementNames ==
  ASSUME NEW k \in Nat
  PROVE  /\ ElementName[k] \in Seq(Digit) /\ ElementName[k] # <<>>
         /\ k < 10 => ElementName[k] = <<Digits[k + 1]>>
         /\ ~(k < 10) => \E m \in 1 .. k - 1, d \in 0 .. 9 :
                           /\ k = 10 * m + d
                           /\ ElementName[k] = Append(ElementName[m], Digits[d + 1])
<1>1. ElementName[k] \in Seq(Digit) /\ ElementName[k] = NextNumeral(ElementName, k)
  BY ElementNameIsDefined
<1>2. CASE k < 10
  BY <1>1, <1>2 DEF NextNumeral
<1>3. CASE ~(k < 10)
  <2>1. PICK m, d : m = k \div 10 /\ d = k % 10
    OBVIOUS
  <2>2. m \in Nat /\ d \in 0 .. 9
    BY <2>1
  <2>3. k = 10 * m + d
    BY <2>1, <2>2
  <2>4. m \in 1 .. k - 1
    BY <1>3, <2>2, <2>3
  <2>5. ElementName[k] = Append(ElementName[m], Digits[d + 1])
    BY <1>1, <1>3, <2>1 DEF NextNumeral
  <2>6. ElementName[m] \in Seq(Digit)
    BY <2>2, ElementNameIsDefined
  <2>7. ElementName[k] # <<>>
    BY <2>5, <2>6
  <2> QED
    BY <1>1, <1>3, <2>2, <2>3, <2>4, <2>5, <2>7
<1> QED
  BY <1>2, <1>3

\* A name of digits, and one digit more.
LEMMA NumberAppend ==
  ASSUME NEW name, IsSequence(name), IsNumber(name), NEW d \in 0 .. 9
  PROVE  /\ IsSequence(Append(name, Digits[d + 1])) /\ IsNumber(Append(name, Digits[d + 1]))
         /\ Number(name) \in Nat
         /\ Number(Append(name, Digits[d + 1])) = 10 * Number(name) + d
<1>1. PICK n : n = Len(name)
  OBVIOUS
<1>2. n \in Nat /\ DOMAIN name = 1 .. n /\ name = [i \in 1 .. n |-> name[i]]
  BY <1>1, SequenceFacts
<1>3. PICK next : next = Append(name, Digits[d + 1])
  OBVIOUS
<1>4. /\ Len(next) = n + 1 /\ DOMAIN next = 1 .. n + 1 /\ IsSequence(next)
      /\ next[n + 1] = Digits[d + 1] /\ \A i \in 1 .. n : next[i] = name[i]
  <2>1. PICK S, x : S = {name[i] : i \in 1 .. n} \cup {Digits[d + 1]} /\ x = Digits[d + 1]
    OBVIOUS
  <2>2. name \in Seq(S) /\ x \in S
    BY <1>2, <2>1
  <2>3. next = Append(name, x) /\ next \in Seq(S)
    BY <1>3, <2>1, <2>2
  <2>4. Len(next) = n + 1 /\ next[n + 1] = x /\ \A i \in 1 .. n : next[i] = name[i]
    BY <1>1, <1>2, <2>2, <2>3
  <2>5. next = [i \in 1 .. n + 1 |-> next[i]] /\ n + 1 \in Nat /\ DOMAIN next = 1 .. n + 1
    BY <1>2, <2>3, <2>4
  <2> QED
    BY <2>1, <2>4, <2>5, SequenceOf
<1>5. IsNumber(next)
  <2>1. next # <<>> /\ d + 1 \in DOMAIN Digits
    BY <1>2, <1>4, DigitsDiffer
  <2>2. \A i \in DOMAIN next : \E e \in DOMAIN Digits : next[i] = Digits[e]
    BY <1>2, <1>4, <2>1 DEF IsNumber
  <2> QED
    BY <2>1, <2>2 DEF IsNumber
<1>6. PICK f : f = Leading(name) /\ f \in [0 .. n -> Nat] /\ f[0] = 0
               /\ \A i \in 1 .. n : f[i] = 10 * f[i - 1] + DigitAt(name, i)
  BY <1>1, LeadingAlong
<1>7. PICK g : g = Leading(next) /\ g \in [0 .. n + 1 -> Nat] /\ g[0] = 0
               /\ \A i \in 1 .. n + 1 : g[i] = 10 * g[i - 1] + DigitAt(next, i)
  BY <1>4, <1>5, LeadingAlong
<1>8. \A i \in 1 .. n : DigitAt(next, i) = DigitAt(name, i)
  BY <1>4 DEF DigitAt
<1> DEFINE T == {i \in 0 .. n : f[i] = g[i]}
<1>9. 0 \in T
  BY <1>2, <1>6, <1>7
<1>10. \A k \in 0 .. n - 1 : k \in T => k + 1 \in T
  <2> SUFFICES ASSUME NEW k \in 0 .. n - 1, f[k] = g[k] PROVE f[k + 1] = g[k + 1]
    BY <1>2
  <2>1. k + 1 \in 1 .. n /\ k + 1 \in 1 .. n + 1 /\ (k + 1) - 1 = k
    BY <1>2
  <2>2. f[k + 1] = 10 * f[k] + DigitAt(name, k + 1)
    BY <1>6, <2>1
  <2>3. g[k + 1] = 10 * g[k] + DigitAt(next, k + 1)
    BY <1>7, <2>1
  <2> QED
    BY <1>8, <2>1, <2>2, <2>3
<1>11. n \in T
  <2> HIDE DEF T
  <2> QED
    BY <1>2, <1>9, <1>10, IntervalInduction
<1>12. DigitAt(next, n + 1) = d
  <2>1. DigitAt(next, n + 1) \in 0 .. 9 /\ Digits[DigitAt(next, n + 1) + 1] = Digits[d + 1]
    BY <1>2, <1>4, <1>5, DigitIsSpelled
  <2>2. DigitAt(next, n + 1) + 1 \in 1 .. 10 /\ d + 1 \in 1 .. 10
    BY <2>1
  <2> QED
    BY <2>1, <2>2, DigitsDiffer
<1>13. g[n + 1] = 10 * f[n] + d
  <2>1. n + 1 \in 1 .. n + 1 /\ (n + 1) - 1 = n
    BY <1>2
  <2>2. g[n + 1] = 10 * g[n] + DigitAt(next, n + 1)
    BY <1>7, <2>1
  <2> QED
    BY <1>11, <1>12, <2>2
<1>14. Number(name) = f[n] /\ Number(next) = g[n + 1] /\ f[n] \in Nat
  BY <1>1, <1>2, <1>4, <1>6, <1>7 DEF Number
<1> QED
  BY <1>3, <1>4, <1>5, <1>13, <1>14

\* The name of an element is an index, and its number is that of the element.
LEMMA ElementNameIsIndex ==
  ASSUME NEW n \in Nat
  PROVE  IsName(ElementName[n]) /\ IsIndex(ElementName[n]) /\ Number(ElementName[n]) = n
<1>1. \A k \in Nat : /\ ElementName[k] \in Seq(Digit) /\ ElementName[k] # <<>>
                     /\ k < 10 => ElementName[k] = <<Digits[k + 1]>>
  BY ElementNames
<1>4. ASSUME NEW k \in Nat PROVE IsName(ElementName[k]) /\ IsNumber(ElementName[k])
  <2>1. PICK e \in Seq(Digit) : e = ElementName[k] /\ e # <<>>
    BY <1>1
  <2>2. \A i \in DOMAIN e : \E c \in 1 .. 10 : e[i] = Digits[c]
    BY DEF Digit
  <2>3. \A i \in DOMAIN e : e[i] \notin {"~0", "~1"}
    BY <2>2, DigitsDiffer
  <2>4. IsSequence(e)
    BY SequenceOf
  <2> QED
    BY <2>1, <2>2, <2>3, <2>4, DigitsDiffer DEF IsName, IsNumber
<1> DEFINE T == {k \in Nat : k >= 1 => ElementName[k][1] # "0"}
           U == {k \in Nat : Number(ElementName[k]) = k}
<1>5. ASSUME NEW k \in Nat, \A i \in 0 .. k - 1 : i \in T PROVE k \in T
  <2> SUFFICES ASSUME k >= 1 PROVE ElementName[k][1] # "0"
    OBVIOUS
  <2>1. CASE k < 10
    <3>1. ElementName[k] = <<Digits[k + 1]>> /\ k + 1 \in 1 .. 10 /\ k + 1 # 1
      BY <1>1, <2>1
    <3>2. ElementName[k][1] = Digits[k + 1]
      BY <3>1
    <3> QED
      BY <3>1, <3>2, DigitsDiffer
  <2>2. CASE ~(k < 10)
    <3>1. PICK m \in 1 .. k - 1, d \in 0 .. 9 :
            ElementName[k] = Append(ElementName[m], Digits[d + 1])
      BY <2>2, ElementNames
    <3>2. ElementName[m][1] # "0" /\ ElementName[m] \in Seq(Digit) /\ ElementName[m] # <<>>
      BY <1>1, <1>5
    <3>3. Append(ElementName[m], Digits[d + 1])[1] = ElementName[m][1]
      BY <3>2
    <3> QED
      BY <3>1, <3>2, <3>3
  <2> QED
    BY <2>1, <2>2
<1>6. T = Nat
  <2>1. T \in SUBSET Nat
    OBVIOUS
  <2> HIDE DEF T
  <2> QED
    BY <1>5, <2>1, NatSetStrongInduction
<1>7. ASSUME NEW k \in Nat, \A i \in 0 .. k - 1 : i \in U PROVE k \in U
  <2>1. CASE k < 10
    <3>1. PICK name : name = ElementName[k]
      OBVIOUS
    <3>2. Len(name) = 1 /\ 1 \in DOMAIN name /\ name[1] = Digits[k + 1]
      <4>1. name = <<Digits[k + 1]>>
        BY <1>1, <2>1, <3>1
      <4> QED
        BY <4>1
    <3>3. IsNumber(name) /\ IsSequence(name)
      BY <1>4, <3>1 DEF IsName
    <3>4. DigitAt(name, 1) \in 0 .. 9 /\ Digits[DigitAt(name, 1) + 1] = Digits[k + 1]
      BY <3>2, <3>3, DigitIsSpelled
    <3>5. DigitAt(name, 1) + 1 \in 1 .. 10 /\ k + 1 \in 1 .. 10
      BY <2>1, <3>4
    <3>6. DigitAt(name, 1) = k
      BY <3>4, <3>5, DigitsDiffer
    <3>7. Leading(name)[0] = 0 /\ Leading(name)[1] = 10 * Leading(name)[1 - 1] + DigitAt(name, 1)
      BY <3>2, <3>3, LeadingAlong
    <3>8. Number(name) = k
      BY <3>2, <3>6, <3>7 DEF Number
    <3> QED
      BY <3>1, <3>8
  <2>2. CASE ~(k < 10)
    <3>1. PICK m \in 1 .. k - 1, d \in 0 .. 9 :
            k = 10 * m + d /\ ElementName[k] = Append(ElementName[m], Digits[d + 1])
      BY <2>2, ElementNames
    <3>2. Number(ElementName[m]) = m
      BY <1>7
    <3>3. IsSequence(ElementName[m]) /\ IsNumber(ElementName[m])
      BY <1>4 DEF IsName
    <3>4. Number(ElementName[k]) = k
      BY <3>1, <3>2, <3>3, NumberAppend
    <3> QED
      BY <3>4
  <2> QED
    BY <2>1, <2>2
<1>8. U = Nat
  <2>1. U \in SUBSET Nat
    OBVIOUS
  <2> HIDE DEF U
  <2> QED
    BY <1>7, <2>1, NatSetStrongInduction
<1>9. Len(ElementName[n]) > 1 => ElementName[n][1] # "0"
  <2>1. CASE n = 0
    <3>1. ElementName[n] = <<Digits[n + 1]>>
      BY <1>1, <2>1
    <3> QED
      BY <3>1
  <2>2. CASE n >= 1
    BY <1>6, <2>2
  <2> QED
    BY <2>1, <2>2
<1> QED
  BY <1>4, <1>8, <1>9 DEF IsIndex

\* An index is the name of the element that it numbers, so that no two indexes
\* number the same one.
LEMMA IndexIsElementName ==
  ASSUME NEW name, IsSequence(name), IsIndex(name)
  PROVE  Number(name) \in Nat /\ ElementName[Number(name)] = name
<1>1. PICK n : n = Len(name)
  OBVIOUS
<1>2. /\ n \in Nat /\ DOMAIN name = 1 .. n /\ name = [i \in 1 .. n |-> name[i]]
      /\ IsNumber(name) /\ n >= 1 /\ (n > 1 => name[1] # "0")
  BY <1>1, SequenceFacts DEF IsIndex, IsNumber
<1>3. PICK f : f = Leading(name) /\ f \in [0 .. n -> Nat] /\ f[0] = 0
               /\ \A i \in 1 .. n : f[i] = 10 * f[i - 1] + DigitAt(name, i)
  BY <1>1, <1>2, LeadingAlong
<1>4. PICK dig : dig = [i \in 1 .. n |-> DigitAt(name, i)]
  OBVIOUS
<1>5. \A i \in 1 .. n : dig[i] \in 0 .. 9 /\ Digits[dig[i] + 1] = name[i]
                        /\ f[i] = 10 * f[i - 1] + dig[i]
  BY <1>2, <1>3, <1>4, DigitIsSpelled
<1> DEFINE T == {k \in 0 .. n : k >= 1 => /\ ElementName[f[k]] = SubSeq(name, 1, k)
                                          /\ n > 1 => f[k] >= 1}
<1>7. 0 \in T
  BY <1>2
<1>8. ASSUME NEW k \in 0 .. n - 1, k \in T PROVE k + 1 \in T
  <2>1. /\ k \in Nat /\ k + 1 \in 1 .. n /\ (k + 1) - 1 = k /\ f[k] \in Nat
        /\ dig[k + 1] \in 0 .. 9
        /\ f[k + 1] = 10 * f[k] + dig[k + 1] /\ Digits[dig[k + 1] + 1] = name[k + 1]
    BY <1>2, <1>3, <1>5
  <2>2. CASE k = 0
    <3>1. f[1] = dig[1] /\ dig[1] \in 0 .. 9 /\ Digits[dig[1] + 1] = name[1]
      BY <1>3, <2>1, <2>2
    <3>2. ElementName[f[1]] = <<name[1]>>
      <4>1. PICK v : v = f[1]
        OBVIOUS
      <4>2. v \in Nat /\ v < 10 /\ v = dig[1]
        BY <3>1, <4>1
      <4>3. ElementName[v] = <<Digits[v + 1]>>
        BY <4>2, ElementNames
      <4> QED
        BY <3>1, <4>1, <4>2, <4>3
    <3>3. SubSeq(name, 1, 1) = <<name[1]>>
      <4>1. PICK z \in 0 .. Len(name) : z = 0
        BY <1>1, <1>2
      <4>2. SubSeq(name, 1, z + 1) = Append(SubSeq(name, 1, z), name[z + 1])
        BY <1>1, <1>2, <4>1, FirstOnes
      <4>3. SubSeq(name, 1, 0) = <<>>
        BY <4>1, FirstOnes
      <4>4. z + 1 = 1
        BY <4>1
      <4>5. SubSeq(name, 1, 1) = Append(<<>>, name[1])
        BY <4>1, <4>2, <4>3, <4>4
      <4> QED
        BY <4>5
    <3>4. n > 1 => f[1] >= 1
      <4>1. Digits[0 + 1] = "0"
        BY DEF Digits
      <4> QED
        BY <1>2, <3>1, <4>1
    <3> QED
      BY <1>2, <2>1, <2>2, <3>2, <3>3, <3>4
  <2>3. CASE k >= 1
    <3>1. n > 1 /\ f[k] >= 1 /\ ElementName[f[k]] = SubSeq(name, 1, k)
      <4>1. n > 1
        BY <1>2, <2>1, <2>3
      <4> QED
        BY <1>8, <2>3, <4>1
    <3>2. PICK v, d, w : v = f[k] /\ d = dig[k + 1] /\ w = f[k + 1]
      OBVIOUS
    <3>3. v \in Nat /\ v >= 1 /\ d \in 0 .. 9 /\ w = 10 * v + d
      BY <2>1, <3>1, <3>2
    <3>4. w \in Nat /\ ~(w < 10)
      BY <3>3
    <3>5. ElementName[w] = Append(SubSeq(name, 1, k), name[k + 1])
      <4>1. PICK m \in 1 .. w - 1, c \in 0 .. 9 :
              w = 10 * m + c /\ ElementName[w] = Append(ElementName[m], Digits[c + 1])
        BY <3>4, ElementNames
      <4>2. m = v /\ c = d
        BY <3>3, <4>1
      <4> QED
        BY <2>1, <3>1, <3>2, <4>1, <4>2
    <3>6. Append(SubSeq(name, 1, k), name[k + 1]) = SubSeq(name, 1, k + 1)
      <4>1. k \in 0 .. Len(name) /\ k < Len(name) /\ IsSequence(name)
        BY <1>1, <1>2, <2>1
      <4> QED
        BY <4>1, OneMore
    <3>7. ElementName[f[k + 1]] = SubSeq(name, 1, k + 1) /\ f[k + 1] >= 1
      <4>1. w >= 1
        BY <3>3
      <4>2. ElementName[w] = SubSeq(name, 1, k + 1)
        BY <3>5, <3>6
      <4> QED
        BY <3>2, <4>1, <4>2
    <3> QED
      BY <2>1, <3>7
  <2> QED
    BY <2>1, <2>2, <2>3
<1>9. n \in T
  <2> HIDE DEF T
  <2> QED
    BY <1>2, <1>7, <1>8, IntervalInduction
<1>10. SubSeq(name, 1, n) = name
  <2>1. n \in 0 .. Len(name)
    BY <1>1, <1>2
  <2> QED
    BY <1>1, <2>1, FirstOnes
<1> QED
  BY <1>1, <1>2, <1>3, <1>9, <1>10 DEF Number

-----------------------------------------------------------------------------
(* Pointers.                                                               *)

\* Where the tokens lead, one after the other.
LEMMA ReachedAlong ==
  ASSUME NEW tree, <<>> \in DOMAIN tree, NEW tokens, Len(tokens) \in Nat
  PROVE  /\ Reached(tree, tokens) \in [0 .. Len(tokens) -> SUBSET DOMAIN tree]
         /\ Reached(tree, tokens)[0] = {<<>>}
         /\ \A i \in 1 .. Len(tokens) :
              Reached(tree, tokens)[i] =
                UNION {Enter(tree, p, tokens[i]) : p \in Reached(tree, tokens)[i - 1]}
<1> DEFINE n == Len(tokens)
           root == {<<>>}
           A == SUBSET DOMAIN tree
           From(P, i) == UNION {Enter(tree, p, tokens[i]) : p \in P}
           step == [x \in A \X (1 .. n) |-> From(x[1], x[2])]
           Body(g) == [i \in 0 .. n |-> IF i = 0 THEN root ELSE From(g[i - 1], i)]
<1>1. \A p, token : Enter(tree, p, token) \subseteq DOMAIN tree
  BY DEF Enter, Parts, Below
<1>2. \A P, i : From(P, i) \in A
  BY <1>1
<1>3. n \in Nat /\ root \in A
  OBVIOUS
<1>4. Reached(tree, tokens) = CHOOSE h : h = Body(h)
  BY DEF Reached
<1> HIDE DEF From, A, n, root
<1>5. step \in [A \X (1 .. n) -> A]
  BY <1>2
<1>6. PICK g \in [0 .. n -> A] : Follows(g, root, step, n)
  <2> HIDE DEF step
  <2> QED
    BY <1>3, <1>5, RecursionAlong
<1>7. ASSUME NEW i \in 1 .. n PROVE g[i] = From(g[i - 1], i)
  <2>1. i - 1 \in 0 .. n /\ g[i - 1] \in A
    BY <1>3
  <2>2. step[<<g[i - 1], i>>] = From(g[i - 1], i)
    BY <2>1
  <2> HIDE DEF step
  <2> QED
    BY <1>6, <2>2 DEF Follows
<1>8. g = Body(g)
  BY <1>3, <1>6, <1>7 DEF Follows
<1>9. PICK f : f = Reached(tree, tokens) /\ f = Body(f)
  <2> HIDE DEF Body
  <2> QED
    BY <1>4, <1>8
<1> HIDE DEF step
<1>10. f[0] = root /\ f = [i \in 0 .. n |-> f[i]]
  BY <1>3, <1>9
<1>11. ASSUME NEW i \in 1 .. n PROVE f[i] = From(f[i - 1], i)
  BY <1>3, <1>9
<1> HIDE DEF Body
<1>12. f \in [0 .. n -> A]
  <2>1. \A i \in 1 .. n : f[i - 1] \in A => f[i] \in A
    BY <1>2, <1>11
  <2> QED
    BY <1>3, <1>10, <2>1, StaysIn
<1> QED
  BY <1>9, <1>10, <1>11, <1>12 DEF n, A, From, root

\* A token leads from a node to a part of it, and spells its name.
LEMMA EnterIsByName ==
  ASSUME NEW tree, IsTree(tree), NEW p \in DOMAIN tree, NEW token \in Token,
         NEW q \in Enter(tree, p, token)
  PROVE  /\ q \in DOMAIN tree /\ Len(q) = Len(p) + 1 /\ SubSeq(q, 1, Len(p)) = p
         /\ tree[p] # "typed" /\ SpeltAt(tree, q, Len(q), token)
<1>1. PICK name : name = DecodeToken(token)
  OBVIOUS
<1>2. /\ Decodes(token) /\ q \in DOMAIN tree
      /\ \/ tree[p] = "object" /\ q = Append(p, name)
         \/ /\ tree[p] = "array" /\ ArrayIndex(name)
            /\ q \in Parts(tree, p) /\ Number(q[Len(q)]) = Atoi(name)
  BY <1>1 DEF Enter, Parts, Below
<1>3. IsSequence(p) /\ IsSequence(q)
  BY <1>2 DEF IsTree
<1>4. Len(q) = Len(p) + 1 /\ SubSeq(q, 1, Len(p)) = p /\ Len(p) \in Nat
  <2>1. CASE q = Append(p, name)
    <3>1. PICK S : S = {p[i] : i \in DOMAIN p} \cup {name}
      OBVIOUS
    <3>2. p \in Seq(S) /\ name \in S
      BY <1>3, <3>1 DEF IsSequence
    <3> QED
      BY <2>1, <3>2
  <2>2. CASE q \in Parts(tree, p)
    BY <1>3, <2>2, SequenceFacts DEF Parts, Below
  <2> QED
    BY <1>2, <2>1, <2>2
<1>5. Len(q) \in 1 .. Len(q) /\ Len(q) - 1 = Len(p)
  BY <1>4
<1>6. Rfc6901(q).tokens[Len(q)] = Spelled(q[Len(q)])
  <2>1. Len(q) \in DOMAIN q
    BY <1>3, <1>5, SequenceFacts
  <2> QED
    BY <2>1 DEF Rfc6901
<1>7. /\ DOMAIN name = 1 .. Len(token) /\ Len(name) = Len(token) /\ Len(token) \in Nat
      /\ Spelled(name) = token
  BY <1>1, <1>2, SpelledDecoded
<1>8. CASE tree[p] = "object"
  <2>1. q = Append(p, name)
    BY <1>2, <1>8
  <2>2. q[Len(q)] = name
    <3>1. PICK S : S = {p[i] : i \in DOMAIN p} \cup {name}
      OBVIOUS
    <3>2. p \in Seq(S) /\ name \in S
      BY <1>3, <3>1 DEF IsSequence
    <3> QED
      BY <2>1, <3>2
  <2> QED
    BY <1>2, <1>4, <1>6, <1>7, <1>8, <2>2 DEF SpeltAt
<1>9. CASE tree[p] = "array"
  <2>1. PICK e : e = q[Len(q)]
    OBVIOUS
  <2>2. IsName(e) /\ IsIndex(e)
    BY <1>2, <1>4, <1>5, <1>9, <2>1 DEF IsTree
  <2>3. Number(e) = Atoi(name) /\ ArrayIndex(name)
    BY <1>2, <1>9, <2>1
  <2>4. CASE IsNumber(name)
    <3>1. ~Signed(name)
      <4>1. name[1] \in Signs => \A d \in DOMAIN Digits : name[1] # Digits[d]
        BY DigitsDiffer DEF Signs
      <4>2. Len(name) > 1 => 1 \in DOMAIN name
        BY <1>7
      <4> QED
        BY <2>4, <4>1, <4>2 DEF Signed, IsNumber
    <3>2. Number(e) = Number(name)
      BY <2>3, <3>1 DEF Atoi
    <3>3. IsIndex(name)
      BY <2>3, <2>4 DEF ArrayIndex, IsIndex
    <3>4. IsSequence(name)
      <4>1. name = [i \in 1 .. Len(token) |-> name[i]]
        BY <1>1, <1>7 DEF DecodeToken
      <4> QED
        BY <1>7, <4>1, SequenceOf
    <3>5. e = name
      BY <2>2, <3>2, <3>3, <3>4, IndexIsElementName DEF IsName
    <3> QED
      BY <1>2, <1>4, <1>6, <1>7, <1>9, <2>1, <3>5 DEF SpeltAt
  <2>5. CASE Signed(name)
    <3>1. Len(name) > 1 /\ name[1] \in Signs /\ IsNumber(Tail(name))
      BY <2>5 DEF Signed
    <3>2. \A i \in 1 .. Len(token) :
            token[i] # "~0" /\ token[i] # "~1" => token[i] = name[i]
      BY <1>1, <1>7 DEF DecodeToken, Token
    <3>3. \A i \in 1 .. Len(token) : token[i] \in {"~0", "~1"} => name[i] \in {"~", "/"}
      BY <1>1, <1>7 DEF DecodeToken, Token
    <3>4. \A i \in 1 .. Len(name) : name[i] \notin {"~", "/"}
      <4> SUFFICES ASSUME NEW i \in 1 .. Len(name) PROVE name[i] \notin {"~", "/"}
        OBVIOUS
      <4>1. CASE i = 1
        BY <3>1, <4>1 DEF Signs
      <4>2. CASE i > 1
        <5>1. PICK S : name \in Seq(S)
          <6>1. name = [j \in 1 .. Len(token) |-> name[j]]
            BY <1>1, <1>7 DEF DecodeToken
          <6> QED
            BY <1>7, <6>1, SequenceOf DEF IsSequence
        <5>2. i - 1 \in DOMAIN Tail(name) /\ Tail(name)[i - 1] = name[i]
          BY <3>1, <4>2, <5>1
        <5>3. PICK d \in 1 .. 10 : name[i] = Digits[d]
          BY <3>1, <5>2, DigitsDiffer DEF IsNumber
        <5> QED
          BY <5>3, DigitsDiffer
      <4> QED
        BY <4>1, <4>2
    <3>5. token = name
      <4>1. \A i \in 1 .. Len(token) : token[i] = name[i]
        BY <1>7, <3>2, <3>3, <3>4
      <4>2. token = [i \in 1 .. Len(token) |-> token[i]]
        BY DEF Token
      <4>3. name = [i \in 1 .. Len(token) |-> name[i]]
        BY <1>1, <1>7 DEF DecodeToken
      <4> QED
        BY <4>1, <4>2, <4>3
    <3> QED
      BY <1>2, <1>4, <1>5, <1>9, <2>1, <2>3, <3>1, <3>5 DEF SpeltAt
  <2> QED
    BY <2>3, <2>4, <2>5 DEF ArrayIndex
<1> QED
  BY <1>2, <1>8, <1>9

\* Everything that the first tokens lead to is open and spelled by them.
LEMMA ReachedIsByName ==
  ASSUME NEW tree, IsTree(tree), NEW tokens \in Seq(Token), NEW p,
         p \in Reached(tree, tokens)[Len(tokens)]
  PROVE  p \in DOMAIN tree /\ Open(tree, p)
         /\ SpeltUpToSign(tree, p, [rooted |-> TRUE, tokens |-> tokens])
<1>1. PICK n, R : n = Len(tokens) /\ R = Reached(tree, tokens)
  OBVIOUS
<1>2. n \in Nat /\ \A i \in 1 .. n : tokens[i] \in Token
  BY <1>1
<1>3. /\ R \in [0 .. n -> SUBSET DOMAIN tree] /\ R[0] = {<<>>}
      /\ \A i \in 1 .. n : R[i] = UNION {Enter(tree, q, tokens[i]) : q \in R[i - 1]}
  BY <1>1, ReachedAlong DEF IsTree
<1> DEFINE Named(q, k) == /\ q \in DOMAIN tree /\ Len(q) = k
                          /\ \A j \in 1 .. k : /\ tree[SubSeq(q, 1, j - 1)] # "typed"
                                               /\ SpeltAt(tree, q, j, tokens[j])
           T == {k \in 0 .. n : \A q \in R[k] : Named(q, k)}
<1>4. 0 \in T
  BY <1>2, <1>3 DEF IsTree
<1>5. ASSUME NEW k \in 0 .. n - 1, k \in T PROVE k + 1 \in T
  <2>1. k + 1 \in 1 .. n /\ k + 1 \in 0 .. n /\ (k + 1) - 1 = k /\ k \in 0 .. n /\ k \in Nat
    BY <1>2
  <2> SUFFICES ASSUME NEW r \in R[k + 1] PROVE Named(r, k + 1)
    BY <2>1
  <2>2. PICK q \in R[k] : r \in Enter(tree, q, tokens[k + 1])
    BY <1>3, <2>1
  <2>3. Named(q, k)
    BY <1>5
  <2>4. /\ r \in DOMAIN tree /\ Len(r) = k + 1 /\ SubSeq(r, 1, k) = q
        /\ tree[q] # "typed" /\ SpeltAt(tree, r, k + 1, tokens[k + 1])
    <3>1. PICK token \in Token : token = tokens[k + 1]
      BY <1>2, <2>1
    <3> HIDE DEF Named
    <3>2. q \in DOMAIN tree /\ Len(q) = k /\ r \in Enter(tree, q, token)
      BY <2>2, <2>3, <3>1 DEF Named
    <3> QED
      BY <3>1, <3>2, EnterIsByName
  <2>5. ASSUME NEW j \in 1 .. k + 1
        PROVE  tree[SubSeq(r, 1, j - 1)] # "typed" /\ SpeltAt(tree, r, j, tokens[j])
    <3>1. CASE j = k + 1
      BY <2>1, <2>4, <3>1
    <3>2. CASE j # k + 1
      <4>1. j \in 1 .. k /\ j - 1 \in 0 .. k /\ k \in 0 .. Len(r)
        BY <2>1, <2>4, <3>2
      <4>2. IsSequence(r) /\ IsSequence(q)
        BY <2>3, <2>4 DEF IsTree
      <4>3. SubSeq(q, 1, j - 1) = SubSeq(r, 1, j - 1) /\ q[j] = r[j]
        BY <2>4, <4>1, <4>2, FirstOnes
      <4>4. j \in DOMAIN q /\ j \in DOMAIN r
        BY <2>3, <2>4, <4>1, <4>2, SequenceFacts
      <4>5. Rfc6901(r).tokens[j] = Rfc6901(q).tokens[j]
        BY <4>3, <4>4 DEF Rfc6901
      <4> QED
        BY <2>3, <4>1, <4>3, <4>5 DEF SpeltAt
    <3> QED
      BY <3>1, <3>2
  <2> QED
    BY <2>4, <2>5
<1>6. n \in T
  <2>1. n \in Nat /\ n \in 0 .. n
    BY <1>2
  <2> HIDE DEF T
  <2> QED
    BY <1>4, <1>5, <2>1, IntervalInduction
<1>7. Named(p, n)
  BY <1>1, <1>6
<1>8. DOMAIN p = 1 .. n
  BY <1>7, SequenceFacts DEF IsTree
<1> QED
  BY <1>1, <1>7, <1>8 DEF Open, SpeltUpToSign

\* Every node that is not inside a typed value is where its own name leads.
LEMMA OwnNameReaches ==
  ASSUME NEW tree, IsTree(tree), NEW p \in DOMAIN tree, Open(tree, p),
         NEW tokens \in Seq(Token), tokens = Rfc6901(p).tokens
  PROVE  p \in Reached(tree, tokens)[Len(tokens)]
<1>1. PICK n, R : n = Len(tokens) /\ R = Reached(tree, tokens)
  OBVIOUS
<1>2. IsSequence(p)
  BY DEF IsTree
<1>3. n \in Nat /\ DOMAIN p = 1 .. n /\ Len(p) = n /\ \A k \in 1 .. n : tokens[k] = Spelled(p[k])
  BY <1>1, <1>2, SequenceFacts DEF Rfc6901
<1>4. /\ R[0] = {<<>>}
      /\ \A i \in 1 .. n : R[i] = UNION {Enter(tree, q, tokens[i]) : q \in R[i - 1]}
  BY <1>1, <1>3, ReachedAlong DEF IsTree
<1> DEFINE T == {k \in 0 .. n : SubSeq(p, 1, k) \in R[k]}
<1>5. 0 \in T
  <2>1. 0 \in 0 .. Len(p)
    BY <1>3
  <2>2. SubSeq(p, 1, 0) = <<>>
    BY <1>2, <2>1, FirstOnes
  <2>3. <<>> \in R[0]
    BY <1>4
  <2>4. SubSeq(p, 1, 0) \in R[0]
    BY <2>2, <2>3
  <2> QED
    BY <1>3, <2>4
<1>6. ASSUME NEW k \in 0 .. n - 1, k \in T PROVE k + 1 \in T
  <2>1. k + 1 \in 1 .. n /\ k + 1 \in 0 .. n /\ (k + 1) - 1 = k /\ k \in 0 .. n /\ k < n
    BY <1>3
  <2>2. PICK q, r, name : q = SubSeq(p, 1, k) /\ r = SubSeq(p, 1, k + 1) /\ name = p[k + 1]
    OBVIOUS
  <2>3. /\ q \in DOMAIN tree /\ tree[q] \in {"object", "array"} /\ IsName(name)
        /\ tree[q] = "array" => IsIndex(name)
    BY <1>3, <2>1, <2>2 DEF IsTree, Open
  <2>4. r \in DOMAIN tree
    <3>1. CASE k + 1 = n
      BY <1>2, <1>3, <2>1, <2>2, <3>1, FirstOnes
    <3>2. CASE k + 1 < n
      <4>1. (k + 1) + 1 \in 1 .. Len(p) /\ ((k + 1) + 1) - 1 = k + 1
        BY <1>3, <2>1, <3>2
      <4> QED
        BY <2>2, <4>1 DEF IsTree
    <3> QED
      BY <1>3, <2>1, <3>1, <3>2
  <2>5. /\ r = Append(q, name) /\ Len(q) = k /\ Len(r) = k + 1
        /\ SubSeq(r, 1, k) = q /\ r[k + 1] = name
    <3>1. r = Append(q, name) /\ Len(q) = k
      BY <1>2, <1>3, <2>1, <2>2, FirstOnes
    <3>2. PICK x \in 0 .. Len(p) : x = k + 1 /\ r = SubSeq(p, 1, x)
      BY <1>3, <2>1, <2>2
    <3>3. Len(r) = x /\ (\A i \in 1 .. x : r[i] = p[i])
          /\ \A i \in 0 .. x : SubSeq(r, 1, i) = SubSeq(p, 1, i)
      BY <1>2, <3>2, FirstOnes
    <3> QED
      BY <2>1, <2>2, <3>1, <3>2, <3>3
  <2>6. Decodes(Spelled(name)) /\ DecodeToken(Spelled(name)) = name
    BY <2>3, DecodedSpelled
  <2>7. r \in Enter(tree, q, Spelled(name))
    <3>1. CASE tree[q] = "object"
      BY <2>4, <2>5, <2>6, <3>1 DEF Enter
    <3>2. CASE tree[q] = "array"
      <4>1. IsNumber(name) /\ ArrayIndex(name)
        BY <2>3, <3>2 DEF IsIndex, ArrayIndex
      <4>2. ~Signed(name)
        <5>1. name[1] \in Signs => \A d \in DOMAIN Digits : name[1] # Digits[d]
          BY DigitsDiffer DEF Signs
        <5>2. Len(name) > 1 => 1 \in DOMAIN name
          BY <2>3, SequenceFacts DEF IsName
        <5> QED
          BY <4>1, <5>1, <5>2 DEF Signed, IsNumber
      <4>3. Number(r[Len(r)]) = Atoi(name)
        BY <2>5, <4>2 DEF Atoi
      <4>4. r \in Parts(tree, q)
        <5>1. Len(r) >= Len(q) /\ SubSeq(r, 1, Len(q)) = q /\ Len(r) = Len(q) + 1
          BY <2>1, <2>5
        <5> QED
          BY <2>4, <5>1 DEF Parts, Below
      <4> QED
        BY <2>6, <3>2, <4>1, <4>3, <4>4 DEF Enter
    <3> QED
      BY <2>3, <3>1, <3>2
  <2>8. Spelled(name) = tokens[k + 1] /\ q \in R[k]
    BY <1>3, <1>6, <2>1, <2>2
  <2>9. r \in R[k + 1]
    BY <1>4, <2>1, <2>7, <2>8
  <2> QED
    BY <2>1, <2>2, <2>9
<1>7. n \in T
  <2> HIDE DEF T
  <2> QED
    BY <1>3, <1>5, <1>6, IntervalInduction
<1>8. SubSeq(p, 1, n) = p
  <2>1. n \in 0 .. Len(p)
    BY <1>3
  <2> QED
    BY <1>2, <1>3, <2>1, FirstOnes
<1> QED
  BY <1>1, <1>7, <1>8

\* --select is by name: in every tree a pointer leads to a node that it spells, up
\* to the sign of an index, and that no typed value hides; and the pointer that
\* RFC 6901 gives a node that none hides leads to it.
THEOREM PointersAreNames ==
  ASSUME NEW tree, IsTree(tree), NEW pointer \in Pointer
  PROVE  /\ \A p \in Resolve(tree, pointer) :
              p \in DOMAIN tree /\ Open(tree, p) /\ SpeltUpToSign(tree, p, pointer)
         /\ \A p \in DOMAIN tree :
              Rfc6901(p) = pointer /\ Open(tree, p) => p \in Resolve(tree, pointer)
<1>1. PICK tokens \in Seq(Token) : tokens = pointer.tokens
  BY DEF Pointer
<1>2. ASSUME NEW p \in Resolve(tree, pointer)
      PROVE  p \in DOMAIN tree /\ Open(tree, p) /\ SpeltUpToSign(tree, p, pointer)
  <2>1. p \in Reached(tree, tokens)[Len(tokens)]
    BY <1>1 DEF Resolve
  <2>2. /\ p \in DOMAIN tree /\ Open(tree, p)
        /\ SpeltUpToSign(tree, p, [rooted |-> TRUE, tokens |-> tokens])
    BY <2>1, ReachedIsByName
  <2> QED
    BY <1>1, <2>2 DEF SpeltUpToSign
<1>3. ASSUME NEW p \in DOMAIN tree, Rfc6901(p) = pointer, Open(tree, p)
      PROVE  p \in Resolve(tree, pointer)
  <2>1. pointer.rooted /\ tokens = Rfc6901(p).tokens
    BY <1>1, <1>3 DEF Rfc6901
  <2>2. p \in Reached(tree, tokens)[Len(tokens)]
    BY <1>3, <2>1, OwnNameReaches
  <2> QED
    BY <1>1, <2>1, <2>2 DEF Resolve
<1> QED
  BY <1>2, <1>3

-----------------------------------------------------------------------------
(* Trees.                                                                  *)

\* The empty path.
LEMMA EmptySequence == IsSequence(<<>>) /\ Len(<<>>) = 0
<1>1. \A S : <<>> \in Seq(S)
  OBVIOUS
<1>2. <<>> \in Seq({(<<>>)[i] : i \in DOMAIN <<>>})
  BY <1>1
<1> QED
  BY <1>2 DEF IsSequence

\* A tree with nothing below its root.
LEMMA LeafIsTree ==
  ASSUME NEW kind
  PROVE  IsTree(Leaf(kind))
<1>1. PICK root : root = <<>> /\ Len(root) = 0 /\ IsSequence(root)
  BY EmptySequence
<1>2. DOMAIN Leaf(kind) = {root}
  BY <1>1 DEF Leaf
<1> QED
  BY <1>1, <1>2 DEF IsTree

\* The nodes of a tree: its root and the nodes of its parts.
Comprises(tree, parts) ==
  \A p : p \in DOMAIN tree <=>
    p = <<>> \/ \E n \in DOMAIN parts : \E q \in DOMAIN parts[n] : p = <<n>> \o q

Enumerates(tree, items) ==
  \A p : p \in DOMAIN tree <=>
    p = <<>> \/ \E i \in DOMAIN items : \E q \in DOMAIN items[i] : p = <<ElementName[i - 1]>> \o q

\* A node over trees is a tree, and has what it is made of below it.
LEMMA NodeIsTree ==
  ASSUME NEW kind \in {"object", "array", "typed"}, NEW parts,
         \A n \in DOMAIN parts : /\ IsName(n) /\ IsTree(parts[n])
                                 /\ kind = "array" => IsIndex(n)
  PROVE  /\ IsTree(Node(kind, parts))
         /\ Comprises(Node(kind, parts), parts)
<1>1. PICK tree, root : tree = Node(kind, parts) /\ root = <<>>
  OBVIOUS
<1>2. /\ DOMAIN tree = {root} \cup UNION {{<<n>> \o q : q \in DOMAIN parts[n]} : n \in DOMAIN parts}
      /\ \A p \in DOMAIN tree : tree[p] = IF p = <<>> THEN kind ELSE parts[Head(p)][Tail(p)]
  BY <1>1 DEF Node
<1>3. root \in DOMAIN tree /\ tree[root] = kind
  BY <1>1, <1>2
<1>4. ASSUME NEW n \in DOMAIN parts, NEW q \in DOMAIN parts[n]
      PROVE  <<n>> \o q \in DOMAIN tree /\ tree[<<n>> \o q] = parts[n][q] /\ IsSequence(q)
  <2>1. <<n>> \o q \in DOMAIN tree
    BY <1>2
  <2>2. IsSequence(q)
    BY DEF IsTree
  <2>3. PICK p \in DOMAIN tree : p = <<n>> \o q
    BY <2>1
  <2>4. p # <<>> /\ Head(p) = n /\ Tail(p) = q
    BY <2>2, <2>3, Behind
  <2>5. tree[p] = parts[n][q]
    BY <1>2, <2>4
  <2> QED
    BY <2>2, <2>3, <2>5
<1>5. \A p \in DOMAIN tree :
        p = root \/ \E n \in DOMAIN parts : \E q \in DOMAIN parts[n] : p = <<n>> \o q
  BY <1>2
<1>6. IsSequence(root) /\ Len(root) = 0
  BY <1>1, EmptySequence
<1>7. \A p \in DOMAIN tree : IsSequence(p)
  <2> SUFFICES ASSUME NEW p \in DOMAIN tree, p # root PROVE IsSequence(p)
    BY <1>6
  <2>1. PICK n \in DOMAIN parts : \E q \in DOMAIN parts[n] : p = <<n>> \o q
    BY <1>5
  <2>2. PICK q \in DOMAIN parts[n] : p = <<n>> \o q
    BY <2>1
  <2>3. IsSequence(q)
    BY <1>4
  <2> QED
    BY <2>2, <2>3, Behind
<1>8. ASSUME NEW p \in DOMAIN tree, NEW k \in 1 .. Len(p)
      PROVE  /\ SubSeq(p, 1, k - 1) \in DOMAIN tree
             /\ tree[SubSeq(p, 1, k - 1)] \in {"object", "array", "typed"}
             /\ IsName(p[k])
             /\ tree[SubSeq(p, 1, k - 1)] = "array" => IsIndex(p[k])
  <2>1. PICK n \in DOMAIN parts : \E q \in DOMAIN parts[n] : p = <<n>> \o q
    <3>1. p # root
      BY <1>6
    <3> QED
      BY <1>5, <3>1
  <2>2. PICK q \in DOMAIN parts[n] : p = <<n>> \o q
    BY <2>1
  <2>3. IsSequence(q) /\ Len(q) \in Nat
    BY <1>4, SequenceFacts
  <2>4. Len(p) = Len(q) + 1
    BY <2>2, <2>3, Behind
  <2>5. CASE k = 1
    <3>1. SubSeq(p, 1, 0) = <<>> /\ p[1] = n
      BY <2>2, <2>3, Behind
    <3>2. SubSeq(p, 1, k - 1) = root /\ p[k] = n
      BY <1>1, <2>5, <3>1
    <3> QED
      BY <1>3, <3>2
  <2>6. CASE k # 1
    <3>1. PICK j \in 1 .. Len(q) : j = k - 1 /\ j - 1 \in 0 .. Len(q) /\ j + 1 = k
                                  /\ (j - 1) + 1 = k - 1
      BY <2>3, <2>4, <2>6
    <3>2. PICK i \in 0 .. Len(q) : i = j - 1
      BY <3>1
    <3>3. PICK above : above = SubSeq(q, 1, i)
      OBVIOUS
    <3>4. SubSeq(p, 1, k - 1) = <<n>> \o above /\ p[k] = q[j]
      <4>0. \A x \in 0 .. Len(q) : SubSeq(<<n>> \o q, 1, x + 1) = <<n>> \o SubSeq(q, 1, x)
        BY <2>3, Behind
      <4>1. SubSeq(p, 1, i + 1) = <<n>> \o SubSeq(q, 1, i)
        BY <2>2, <4>0
      <4>2. p[j + 1] = q[j]
        BY <2>2, <2>3, Behind
      <4>3. i + 1 = k - 1 /\ j + 1 = k
        BY <3>1, <3>2
      <4> QED
        BY <3>3, <4>1, <4>2, <4>3
    <3>5. /\ above \in DOMAIN parts[n] /\ parts[n][above] \in {"object", "array", "typed"}
          /\ IsName(q[j]) /\ (parts[n][above] = "array" => IsIndex(q[j]))
      BY <3>1, <3>2, <3>3 DEF IsTree
    <3> QED
      BY <1>4, <3>4, <3>5
  <2> QED
    BY <2>5, <2>6
<1>9. Comprises(tree, parts)
  BY <1>1, <1>3, <1>4, <1>5 DEF Comprises
<1>10. IsTree(tree)
  BY <1>1, <1>3, <1>7, <1>8 DEF IsTree
<1> QED
  BY <1>1, <1>9, <1>10

\* An object, or a struct, over trees.
LEMMA FieldsAreTree ==
  ASSUME NEW kind \in {"object", "typed"}, NEW part,
         \A f \in DOMAIN part : f \notin {"~0", "~1"} /\ IsTree(part[f])
  PROVE  IsTree(Fields(kind, part))
<1>1. PICK parts : parts = [n \in {<<f>> : f \in DOMAIN part} |-> part[n[1]]]
  OBVIOUS
<1>2. ASSUME NEW n \in DOMAIN parts PROVE IsName(n) /\ IsTree(parts[n])
  <2>1. PICK f \in DOMAIN part : n = <<f>>
    BY <1>1
  <2>2. IsName(n)
    BY <2>1 DEF IsName, IsSequence
  <2>3. parts[n] = part[f]
    BY <1>1, <2>1
  <2> QED
    BY <2>2, <2>3
<1>3. IsTree(Node(kind, parts))
  BY <1>2, NodeIsTree
<1> QED
  BY <1>1, <1>3 DEF Fields

\* A list of trees.
LEMMA ArrayIsTree ==
  ASSUME NEW kind \in {"array", "typed"}, NEW N \in Nat, NEW items,
         DOMAIN items = 1 .. N, \A i \in 1 .. N : IsTree(items[i])
  PROVE  /\ IsTree(Array(kind, items))
         /\ Enumerates(Array(kind, items), items)
<1>1. PICK parts : parts = [n \in {ElementName[i - 1] : i \in DOMAIN items} |->
                              items[Number(n) + 1]]
  OBVIOUS
<1>2. ASSUME NEW i \in 1 .. N
      PROVE  /\ IsName(ElementName[i - 1]) /\ IsIndex(ElementName[i - 1])
             /\ ElementName[i - 1] \in DOMAIN parts /\ parts[ElementName[i - 1]] = items[i]
  <2>1. PICK j \in Nat : j = i - 1 /\ j + 1 = i
    OBVIOUS
  <2>2. IsName(ElementName[j]) /\ IsIndex(ElementName[j]) /\ Number(ElementName[j]) = j
    BY ElementNameIsIndex
  <2> QED
    BY <1>1, <2>1, <2>2
<1>3. \A n \in DOMAIN parts : \E i \in 1 .. N : n = ElementName[i - 1]
  BY <1>1
<1>4. ASSUME NEW n \in DOMAIN parts PROVE IsName(n) /\ IsTree(parts[n]) /\ IsIndex(n)
  <2>1. PICK i \in 1 .. N : n = ElementName[i - 1]
    BY <1>3
  <2> QED
    BY <1>2, <2>1
<1>5. PICK tree : tree = Array(kind, items) /\ IsTree(tree) /\ Comprises(tree, parts)
  <2>1. Array(kind, items) = Node(kind, parts)
    BY <1>1 DEF Array
  <2> QED
    BY <1>4, <2>1, NodeIsTree
<1>6. ASSUME NEW p, NEW n \in DOMAIN parts, NEW q \in DOMAIN parts[n], p = <<n>> \o q
      PROVE  \E i \in 1 .. N : \E r \in DOMAIN items[i] : p = <<ElementName[i - 1]>> \o r
  BY <1>2, <1>3, <1>6
<1>7. ASSUME NEW p, NEW i \in 1 .. N, NEW q \in DOMAIN items[i], p = <<ElementName[i - 1]>> \o q
      PROVE  \E n \in DOMAIN parts : \E r \in DOMAIN parts[n] : p = <<n>> \o r
  BY <1>2, <1>7
<1>8. Enumerates(tree, items)
  <2> SUFFICES ASSUME NEW p
               PROVE  p \in DOMAIN tree <=>
                        \/ p = <<>>
                        \/ \E i \in DOMAIN items : \E q \in DOMAIN items[i] :
                             p = <<ElementName[i - 1]>> \o q
    BY DEF Enumerates
  <2>1. p \in DOMAIN tree <=>
          p = <<>> \/ \E n \in DOMAIN parts : \E q \in DOMAIN parts[n] : p = <<n>> \o q
    BY <1>5 DEF Comprises
  <2>2. (\E n \in DOMAIN parts : \E q \in DOMAIN parts[n] : p = <<n>> \o q)
          <=> \E i \in 1 .. N : \E q \in DOMAIN items[i] : p = <<ElementName[i - 1]>> \o q
    BY <1>6, <1>7
  <2> QED
    BY <2>1, <2>2
<1> QED
  BY <1>5, <1>8

\* What is below a part of the root is a tree.
LEMMA SubTreeIsTree ==
  ASSUME NEW tree, IsTree(tree), NEW e, <<e>> \in DOMAIN tree
  PROVE  IsTree(SubTree(tree, <<e>>))
<1>1. PICK sub : sub = SubTree(tree, <<e>>)
  OBVIOUS
<1>2. Len(<<e>>) = 1 /\ IsSequence(<<>>) /\ <<e>> \o <<>> = <<e>>
  BY DEF IsSequence
<1>3. ASSUME NEW r
      PROVE  r \in DOMAIN sub <=> IsSequence(r) /\ <<e>> \o r \in DOMAIN tree
  <2>1. ASSUME IsSequence(r), <<e>> \o r \in DOMAIN tree PROVE r \in DOMAIN sub
    <3>1. PICK q \in DOMAIN tree : q = <<e>> \o r
      BY <2>1
    <3>2. /\ IsSequence(q) /\ Len(q) = Len(r) + 1 /\ Len(r) \in Nat
          /\ q # <<>> /\ Tail(q) = r
          /\ q[1] = e
      BY <2>1, <3>1, Behind, SequenceFacts
    <3>3. SubSeq(q, 1, 1) = <<e>>
      <4>1. PICK S : q \in Seq(S)
        BY <3>2 DEF IsSequence
      <4>2. PICK a : a = SubSeq(q, 1, 1)
        OBVIOUS
      <4>3. a \in Seq(S) /\ Len(a) = 1 /\ a[1] = q[1]
        BY <3>2, <4>1, <4>2
      <4>4. PICK b : b = <<e>>
        OBVIOUS
      <4>5. e \in S
        BY <3>2, <4>1
      <4>6. b \in Seq(S) /\ Len(b) = 1 /\ b[1] = e
        BY <4>4, <4>5
      <4>7. a = b
        BY <3>2, <4>3, <4>6, SeqEqual
      <4> QED
        BY <4>2, <4>4, <4>7
    <3>4. SubSeq(q, 2, Len(q)) = r
      <4>1. PICK S : q \in Seq(S)
        BY <3>2 DEF IsSequence
      <4> QED
        BY <3>2, <4>1, TailIsSubSeq
    <3>5. q \in Below(tree, <<e>>)
      BY <1>2, <3>2, <3>3 DEF Below
    <3> QED
      BY <1>1, <1>2, <3>4, <3>5 DEF SubTree
  <2>2. ASSUME r \in DOMAIN sub PROVE IsSequence(r) /\ <<e>> \o r \in DOMAIN tree
    <3>1. PICK q \in Below(tree, <<e>>) : r = SubSeq(q, 2, Len(q))
      BY <1>1, <1>2, <2>2 DEF SubTree
    <3>2. q \in DOMAIN tree /\ Len(q) >= 1 /\ SubSeq(q, 1, 1) = <<e>> /\ IsSequence(q)
      BY <1>2, <3>1 DEF Below, IsTree
    <3>3. PICK S : q \in Seq(S)
      BY <3>2 DEF IsSequence
    <3>4. q # <<>> /\ r = Tail(q) /\ q[1] = e
      <4>1. PICK a : a = SubSeq(q, 1, 1)
        OBVIOUS
      <4>2. a[1] = q[1] /\ q # <<>>
        BY <3>2, <3>3, <4>1
      <4>3. r = Tail(q)
        BY <3>1, <3>3, <4>2, TailIsSubSeq
      <4>4. a[1] = e
        <5>1. a = <<e>>
          BY <3>2, <4>1
        <5> QED
          BY <5>1
      <4> QED
        BY <4>2, <4>3, <4>4
    <3>5. /\ r \in Seq(S) /\ Len(r) = Len(q) - 1
          /\ \A i \in 1 .. Len(r) : r[i] = q[i + 1]
      BY <3>3, <3>4, HeadTailProperties
    <3>6. IsSequence(r)
      BY <3>5 DEF IsSequence
    <3>7. <<e>> \o r = q
      <4>1. PICK s : s = <<e>> \o r
        OBVIOUS
      <4>0. /\ IsSequence(s) /\ Len(s) = Len(r) + 1 /\ s[1] = e
            /\ \A i \in 1 .. Len(r) : s[i + 1] = r[i]
        BY <3>6, <4>1, Behind
      <4>2. /\ IsSequence(s) /\ Len(s) = Len(q) /\ s[1] = q[1]
            /\ \A i \in 1 .. Len(r) : s[i + 1] = q[i + 1]
        BY <3>3, <3>4, <3>5, <4>0
      <4>3. \A i \in 1 .. Len(q) : s[i] = q[i]
        <5> SUFFICES ASSUME NEW i \in 1 .. Len(q) PROVE s[i] = q[i]
          OBVIOUS
        <5>1. CASE i = 1
          BY <4>2, <5>1
        <5>2. CASE i # 1
          <6>1. i - 1 \in 1 .. Len(r) /\ (i - 1) + 1 = i
            BY <3>3, <3>5, <5>2
          <6> QED
            BY <4>2, <6>1
        <5> QED
          BY <5>1, <5>2
      <4>4. s = q
        BY <3>2, <4>2, <4>3, SequenceFacts
      <4> QED
        BY <4>1, <4>4
    <3> QED
      BY <3>2, <3>6, <3>7
  <2> QED
    BY <2>1, <2>2
<1>4. \A r \in DOMAIN sub : sub[r] = tree[<<e>> \o r]
  BY <1>1 DEF SubTree
<1>5. <<>> \in DOMAIN sub
  BY <1>2, <1>3
<1>6. ASSUME NEW r \in DOMAIN sub, NEW k \in 1 .. Len(r)
      PROVE  /\ SubSeq(r, 1, k - 1) \in DOMAIN sub
             /\ sub[SubSeq(r, 1, k - 1)] \in {"object", "array", "typed"}
             /\ IsName(r[k])
             /\ sub[SubSeq(r, 1, k - 1)] = "array" => IsIndex(r[k])
  <2>1. PICK q \in DOMAIN tree : q = <<e>> \o r /\ IsSequence(r) /\ Len(r) \in Nat
    BY <1>3, SequenceFacts
  <2>2. PICK i \in 0 .. Len(r) : i = k - 1 /\ i + 1 = k
    BY <2>1
  <2>3. PICK above : above = SubSeq(r, 1, i)
    OBVIOUS
  <2>4. /\ SubSeq(q, 1, k) = <<e>> \o above /\ Len(q) = Len(r) + 1
        /\ q[k + 1] = r[k] /\ IsSequence(above)
    <3>1. SubSeq(q, 1, i + 1) = <<e>> \o SubSeq(r, 1, i)
      <4>1. IsSequence(r)
        BY <2>1
      <4>2. \A x \in 0 .. Len(r) : SubSeq(<<e>> \o r, 1, x + 1) = <<e>> \o SubSeq(r, 1, x)
        BY <4>1, Behind
      <4> QED
        BY <2>1, <4>2
    <3>2. q[k + 1] = r[k] /\ Len(q) = Len(r) + 1
      <4>1. PICK x \in 1 .. Len(r) : x = k
        OBVIOUS
      <4>2. q[x + 1] = r[x] /\ Len(q) = Len(r) + 1
        BY <2>1, Behind
      <4> QED
        BY <4>1, <4>2
    <3>3. IsSequence(above)
      BY <2>1, <2>3, FirstOnes
    <3> QED
      BY <2>2, <2>3, <3>1, <3>2, <3>3
  <2>5. PICK j \in 1 .. Len(q) : j = k + 1 /\ j - 1 = k
    BY <2>1, <2>4
  <2>6. /\ SubSeq(q, 1, k) \in DOMAIN tree
        /\ tree[SubSeq(q, 1, k)] \in {"object", "array", "typed"}
        /\ IsName(r[k])
        /\ tree[SubSeq(q, 1, k)] = "array" => IsIndex(r[k])
    BY <2>4, <2>5 DEF IsTree
  <2>7. above \in DOMAIN sub
    BY <1>3, <2>4, <2>6
  <2>8. sub[above] = tree[SubSeq(q, 1, k)]
    BY <1>4, <2>4, <2>7
  <2> QED
    BY <2>2, <2>3, <2>6, <2>7, <2>8
<1>7. \A r \in DOMAIN sub : IsSequence(r)
  BY <1>3
<1> QED
  BY <1>1, <1>5, <1>6, <1>7 DEF IsTree

-----------------------------------------------------------------------------
(* The documents.                                                          *)

AreTrees(items) ==
  \E N \in Nat : DOMAIN items = 1 .. N /\ \A i \in 1 .. N : IsTree(items[i])

\* A document, which has a list for a tree if it has records.
IsDocument(document) ==
  /\ IsTree(document.tree)
  /\ document.records => \E items : AreTrees(items) /\ document.tree = List(items)

\* Lists of trees, decoded or made by the program, are trees.
LEMMA ListIsTree ==
  ASSUME NEW items, AreTrees(items)
  PROVE  IsTree(List(items)) /\ IsTree(Array("typed", items))
BY ArrayIsTree DEF AreTrees, List

\* Objects and structs of trees are trees, whatever their fields.
LEMMA ObjectIsTree ==
  ASSUME NEW part, \A f \in DOMAIN part : f \notin {"~0", "~1"} /\ IsTree(part[f])
  PROVE  IsTree(Object(part)) /\ IsTree(Fields("typed", part))
BY FieldsAreTree DEF Object

\* The smallest trees of the documents.
LEMMA ScalarIsTree == IsTree(Scalar) /\ IsTree(Leaf("object"))
BY LeafIsTree DEF Scalar

\* Lists of up to two.
LEMMA ShortLists ==
  /\ AreTrees(<<>>)
  /\ \A a : IsTree(a) => AreTrees(<<a>>)
  /\ \A a, b : IsTree(a) /\ IsTree(b) => AreTrees(<<a, b>>)
<1>1. AreTrees(<<>>)
  <2>1. DOMAIN <<>> = 1 .. 0 /\ 0 \in Nat
    OBVIOUS
  <2> QED
    BY <2>1 DEF AreTrees
<1>2. ASSUME NEW a, IsTree(a) PROVE AreTrees(<<a>>)
  <2>1. DOMAIN <<a>> = 1 .. 1 /\ 1 \in Nat /\ \A i \in 1 .. 1 : (<<a>>)[i] = a
    OBVIOUS
  <2> QED
    BY <1>2, <2>1 DEF AreTrees
<1>3. ASSUME NEW a, NEW b, IsTree(a), IsTree(b) PROVE AreTrees(<<a, b>>)
  <2>1. DOMAIN <<a, b>> = 1 .. 2 /\ 2 \in Nat /\ \A i \in 1 .. 2 : (<<a, b>>)[i] \in {a, b}
    OBVIOUS
  <2> QED
    BY <1>3, <2>1 DEF AreTrees
<1> QED
  BY <1>1, <1>2, <1>3

\* What the commands of the network print: of an answer, if that is a tree.
LEMMA PlainDocuments ==
  /\ IsTree(Health) /\ IsTree(Chain) /\ IsTree(Ping) /\ IsTree(Sent) /\ IsTree(Failed)
  /\ \A a : IsTree(a) => IsTree(Result(a)) /\ IsTree(OpenAPI(a))
<1>0. IsTree(Scalar)
  BY ScalarIsTree
<1>1. IsTree(Health)
  <2>1. PICK part : part = [ready |-> Scalar, message |-> Scalar, latency_ms |-> Scalar]
    OBVIOUS
  <2>2. \A f \in DOMAIN part : f \notin {"~0", "~1"} /\ IsTree(part[f])
    BY <1>0, <2>1
  <2> QED
    BY <2>1, <2>2, ObjectIsTree DEF Health
<1>2. IsTree(Chain)
  <2>1. PICK part : part = [chain_id |-> Scalar, name |-> Scalar]
    OBVIOUS
  <2>2. \A f \in DOMAIN part : f \notin {"~0", "~1"} /\ IsTree(part[f])
    BY <1>0, <2>1
  <2> QED
    BY <2>1, <2>2, ObjectIsTree DEF Chain
<1>3. IsTree(Ping)
  <2>1. PICK routes : routes = Array("typed", <<Scalar, Scalar>>) /\ IsTree(routes)
    BY <1>0, ShortLists, ListIsTree
  <2>2. PICK part : part = [chain_id |-> Scalar, block_number |-> Scalar,
                            block_number_hex |-> Scalar, latency_ms |-> Scalar,
                            routes |-> routes]
    OBVIOUS
  <2>3. \A f \in DOMAIN part : f \notin {"~0", "~1"} /\ IsTree(part[f])
    BY <1>0, <2>1, <2>2
  <2> QED
    BY <2>1, <2>2, <2>3, ObjectIsTree DEF Ping
<1>4. IsTree(Sent)
  <2>1. PICK params : params = List(<<>>) /\ IsTree(params)
    BY ShortLists, ListIsTree
  <2>2. PICK part : part = [id |-> Scalar, jsonrpc |-> Scalar, method |-> Scalar,
                            params |-> params]
    OBVIOUS
  <2>3. \A f \in DOMAIN part : f \notin {"~0", "~1"} /\ IsTree(part[f])
    BY <1>0, <2>1, <2>2
  <2> QED
    BY <2>1, <2>2, <2>3, ObjectIsTree DEF Sent
<1>5. IsTree(Failed)
  <2>1. PICK part : part = [code |-> Scalar, message |-> Scalar]
    OBVIOUS
  <2>2. \A f \in DOMAIN part : f \notin {"~0", "~1"} /\ IsTree(part[f])
    BY <1>0, <2>1
  <2>3. PICK error : error = Object(part) /\ IsTree(error)
    BY <2>2, ObjectIsTree
  <2>4. PICK whole : whole = [jsonrpc |-> Scalar, id |-> Scalar, error |-> error]
    OBVIOUS
  <2>5. \A f \in DOMAIN whole : f \notin {"~0", "~1"} /\ IsTree(whole[f])
    BY <1>0, <2>3, <2>4
  <2> QED
    BY <2>1, <2>3, <2>4, <2>5, ObjectIsTree DEF Failed
<1>6. ASSUME NEW a, IsTree(a) PROVE IsTree(Result(a)) /\ IsTree(OpenAPI(a))
  <2>1. PICK part : part = [jsonrpc |-> Scalar, id |-> Scalar, result |-> a]
    OBVIOUS
  <2>2. \A f \in DOMAIN part : f \notin {"~0", "~1"} /\ IsTree(part[f])
    BY <1>0, <1>6, <2>1
  <2>3. PICK paths : paths = [openapi |-> Scalar, paths |-> a]
    OBVIOUS
  <2>4. \A f \in DOMAIN paths : f \notin {"~0", "~1"} /\ IsTree(paths[f])
    BY <1>0, <1>6, <2>3
  <2> QED
    BY <2>1, <2>2, <2>3, <2>4, ObjectIsTree DEF Result, OpenAPI
<1> QED
  BY <1>1, <1>2, <1>3, <1>4, <1>5, <1>6

\* The catalog's own documents.
LEMMA CatalogIsTree ==
  IsTree(Index) /\ \A path : IsTree(Detail(path))
<1>0. IsTree(Scalar) /\ IsTree(Leaf("object"))
  BY ScalarIsTree
<1>1. IsTree(Index)
  <2>1. PICK entry : entry = [name |-> Scalar, schema_command |-> Scalar]
    OBVIOUS
  <2>2. \A f \in DOMAIN entry : f \notin {"~0", "~1"} /\ IsTree(entry[f])
    BY <1>0, <2>1
  <2>3. PICK commands : /\ commands = Array("typed", <<Fields("typed", entry)>>)
                        /\ IsTree(commands)
    BY <2>2, ObjectIsTree, ShortLists, ListIsTree
  <2>4. PICK part : part = [schema_draft |-> Scalar, commands |-> commands]
    OBVIOUS
  <2>5. \A f \in DOMAIN part : f \notin {"~0", "~1"} /\ IsTree(part[f])
    BY <1>0, <2>3, <2>4
  <2> QED
    BY <2>1, <2>3, <2>4, <2>5, ObjectIsTree DEF Index
<1>2. ASSUME NEW field PROVE IsTree(Definition(field))
  <2>1. PICK required : required = Array("typed", <<Scalar, Scalar>>) /\ IsTree(required)
    BY <1>0, ShortLists, ListIsTree
  <2>2. PICK part : part = [type |-> Scalar, properties |-> Leaf("object"), required |-> required]
    OBVIOUS
  <2>3. \A f \in DOMAIN part : f \notin {"~0", "~1"} /\ IsTree(part[f])
    BY <1>0, <2>1, <2>2
  <2>4. IsTree(Object(part))
    BY <2>3, ObjectIsTree
  <2> QED
    BY <1>0, <2>1, <2>2, <2>4 DEF Definition
<1>3. ASSUME NEW path PROVE IsTree(Detail(path))
  <2>1. PICK ref : ref = [ref |-> Scalar]
    OBVIOUS
  <2>2. \A f \in DOMAIN ref : f \notin {"~0", "~1"} /\ IsTree(ref[f])
    BY <1>0, <2>1
  <2>3. PICK anyOf : anyOf = List(<<Object(ref), Object(ref)>>) /\ IsTree(anyOf)
    BY <2>2, ObjectIsTree, ShortLists, ListIsTree
  <2>4. PICK names : names = DefinitionNames(path)
    OBVIOUS
  <2>5. \A f \in names : f \notin {"~0", "~1"}
    BY <2>4 DEF DefinitionNames
  <2>6. PICK fields : fields = [field \in names |-> Definition(field)]
    OBVIOUS
  <2>7. \A f \in DOMAIN fields : f \notin {"~0", "~1"} /\ IsTree(fields[f])
    BY <1>2, <2>5, <2>6
  <2>8. PICK defs : defs = Object(fields) /\ IsTree(defs)
    BY <2>7, ObjectIsTree
  <2>9. PICK modes, formats :
          /\ modes = Array("typed", <<Scalar>>) /\ IsTree(modes)
          /\ formats = Array("typed", <<Scalar, Scalar>>) /\ IsTree(formats)
    BY <1>0, ShortLists, ListIsTree
  <2>10. PICK part : part = [title |-> Scalar, anyOf |-> anyOf, defs |-> defs,
                             input_modes |-> modes, output_formats |-> formats]
    OBVIOUS
  <2>11. \A f \in DOMAIN part : f \notin {"~0", "~1"} /\ IsTree(part[f])
    BY <1>0, <2>3, <2>8, <2>9, <2>10
  <2>12. IsTree(Object(part))
    BY <2>11, ObjectIsTree
  <2> QED
    BY <2>1, <2>3, <2>4, <2>6, <2>8, <2>9, <2>10, <2>12 DEF Detail
<1> QED
  BY <1>1, <1>3

\* What a dry run plans.
LEMMA PlanIsTree ==
  ASSUME NEW requests, IsSequence(requests), NEW batch
  PROVE  IsTree(Plan(requests, batch))
<1>0. IsTree(Scalar) /\ IsTree(Sent)
  BY ScalarIsTree, PlainDocuments
<1>1. PICK value : value = Value(requests, batch) /\ IsTree(value)
  <2>1. PICK items : items = [i \in DOMAIN requests |-> Sent]
    OBVIOUS
  <2>2. AreTrees(items)
    <3>1. DOMAIN items = 1 .. Len(requests) /\ Len(requests) \in Nat
      BY <2>1, SequenceFacts
    <3>2. \A i \in DOMAIN items : IsTree(items[i])
      BY <1>0, <2>1
    <3> QED
      BY <3>1, <3>2 DEF AreTrees
  <2>3. IsTree(List(items))
    BY <2>2, ListIsTree
  <2> QED
    BY <1>0, <2>1, <2>3 DEF Value
<1>2. PICK attempts : attempts = [eligible |-> Scalar, max_attempts |-> Scalar]
  OBVIOUS
<1>3. \A f \in DOMAIN attempts : f \notin {"~0", "~1"} /\ IsTree(attempts[f])
  BY <1>0, <1>2
<1>4. PICK retry : retry = Object(attempts) /\ IsTree(retry)
  BY <1>3, ObjectIsTree
<1>5. PICK part : part = [dry_run |-> Scalar, chain_id |-> Scalar, destination |-> Scalar,
                          side_effect |-> Scalar, request |-> value, retry |-> retry]
  OBVIOUS
<1>6. \A f \in DOMAIN part : f \notin {"~0", "~1"} /\ IsTree(part[f])
  BY <1>0, <1>1, <1>4, <1>5
<1> QED
  BY <1>1, <1>2, <1>4, <1>5, <1>6, ObjectIsTree DEF Plan

-----------------------------------------------------------------------------
(* Records.                                                                *)

\* The records of a document are trees: there are no more of them than its list
\* has elements, and each is below the element whose name it has.
LEMMA RecordsAreTrees ==
  ASSUME NEW config, NEW document, IsDocument(document)
  PROVE  \A i \in DOMAIN Records(config, document) : IsTree(Records(config, document)[i])
<1>1. CASE config.format = "json" \/ ~document.records
  <2>1. Records(config, document) = <<document.tree>>
    BY <1>1 DEF Records
  <2> QED
    BY <2>1 DEF IsDocument
<1>2. CASE ~(config.format = "json" \/ ~document.records)
  <2>1. PICK items : AreTrees(items) /\ document.tree = List(items)
    BY <1>2 DEF IsDocument
  <2>2. PICK N \in Nat : DOMAIN items = 1 .. N /\ \A i \in 1 .. N : IsTree(items[i])
    BY <2>1 DEF AreTrees
  <2>3. PICK tree : tree = document.tree /\ IsTree(tree) /\ Enumerates(tree, items)
    <3>1. PICK kind \in {"array", "typed"} : kind = "array"
      OBVIOUS
    <3>2. IsTree(Array(kind, items)) /\ Enumerates(Array(kind, items), items)
      BY <2>2, ArrayIsTree
    <3>3. Array(kind, items) = document.tree
      BY <2>1, <3>1 DEF List
    <3> QED
      BY <3>2, <3>3
  <2>4. PICK name : name = [i \in 1 .. N |-> <<ElementName[i - 1]>>]
    OBVIOUS
  <2>5. ASSUME NEW i \in 1 .. N PROVE name[i] \in DOMAIN tree
    <3>1. <<>> \in DOMAIN items[i] /\ <<ElementName[i - 1]>> \o <<>> = <<ElementName[i - 1]>>
      BY <2>2 DEF IsTree
    <3> QED
      BY <2>2, <2>3, <2>4, <3>1 DEF Enumerates
  <2>6. ASSUME NEW q \in Parts(tree, <<>>) PROVE \E i \in 1 .. N : q = name[i]
    <3>1. q \in DOMAIN tree /\ Len(q) = 1
      BY EmptySequence DEF Parts, Below
    <3>2. q # <<>>
      <4>1. PICK e : e = <<>> /\ Len(e) = 0
        BY EmptySequence
      <4> QED
        BY <3>1, <4>1
    <3>3. PICK i \in 1 .. N : \E r \in DOMAIN items[i] : q = <<ElementName[i - 1]>> \o r
      <4>1. q = <<>> \/ \E i \in DOMAIN items :
                          \E r \in DOMAIN items[i] : q = <<ElementName[i - 1]>> \o r
        BY <2>3, <3>1 DEF Enumerates
      <4> QED
        BY <2>2, <3>2, <4>1
    <3>4. PICK r \in DOMAIN items[i] : q = <<ElementName[i - 1]>> \o r
      BY <3>3
    <3>5. IsSequence(r) /\ Len(r) \in Nat
      BY <2>2, SequenceFacts DEF IsTree
    <3>6. Len(q) = Len(r) + 1
      BY <3>4, <3>5, Behind
    <3>7. r = <<>>
      BY <3>1, <3>5, <3>6, SequenceFacts
    <3> QED
      BY <2>4, <3>4, <3>7
  <2>7. Cardinality(Parts(tree, <<>>)) \in Nat /\ Cardinality(Parts(tree, <<>>)) <= N
    <3>1. PICK P : P = Parts(tree, <<>>)
      OBVIOUS
    <3>2. PICK I : I = {i \in 1 .. N : name[i] \in P}
      OBVIOUS
    <3>3. [i \in I |-> name[i]] \in Surjection(I, P)
      BY <2>6, <3>1, <3>2 DEF Surjection
    <3>4. IsFiniteSet(1 .. N) /\ Cardinality(1 .. N) = N
      BY FS_Interval
    <3>5. IsFiniteSet(I) /\ Cardinality(I) <= N
      BY <3>2, <3>4, FS_Subset
    <3>6. IsFiniteSet(P) /\ Cardinality(P) <= Cardinality(I)
      BY <3>3, <3>5, FS_Surjection
    <3> QED
      BY <3>1, <3>5, <3>6, FS_CardinalityType
  <2>8. PICK n \in Nat : n = Cardinality(Parts(tree, <<>>)) /\ n <= N
    BY <2>7
  <2>9. Records(config, document) = [i \in 1 .. n |-> SubTree(tree, <<ElementName[i - 1]>>)]
    BY <1>2, <2>3, <2>8 DEF Records
  <2>10. ASSUME NEW i \in 1 .. n PROVE IsTree(SubTree(tree, <<ElementName[i - 1]>>))
    <3>1. i \in 1 .. N
      BY <2>8
    <3>2. <<ElementName[i - 1]>> \in DOMAIN tree
      BY <2>4, <2>5, <3>1
    <3> QED
      BY <2>3, <3>2, SubTreeIsTree
  <2> QED
    BY <2>9, <2>10
<1> QED
  BY <1>1, <1>2

=============================================================================
