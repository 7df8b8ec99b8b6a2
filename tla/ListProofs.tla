------------------------------ MODULE ListProofs ------------------------------
(***************************************************************************)
(* What the operations of Lists do, for any sequence.                      *)
(***************************************************************************)
EXTENDS Lists, WellFoundedInduction, TLAPS

\* push_back adds the element at the end and keeps the rest.
LEMMA AppendFacts ==
  ASSUME NEW A, NEW s \in Seq(A), NEW x \in A
  PROVE  /\ Append(s, x) \in Seq(A)
         /\ Len(Append(s, x)) = Len(s) + 1
         /\ Elements(Append(s, x)) = Elements(s) \cup {x}
         /\ Distinct(s) /\ x \notin Elements(s) => Distinct(Append(s, x))
<1>1. /\ Len(s) \in Nat
      /\ Append(s, x) \in Seq(A)
      /\ Len(Append(s, x)) = Len(s) + 1
      /\ \A i \in 1..Len(s) : Append(s, x)[i] = s[i]
      /\ Append(s, x)[Len(s) + 1] = x
  OBVIOUS
<1>2. \A i \in 1..Len(s) + 1 : i \in 1..Len(s) \/ i = Len(s) + 1
  BY <1>1
<1>3. Elements(Append(s, x)) = Elements(s) \cup {x}
  BY <1>1, <1>2 DEF Elements
<1>4. ASSUME Distinct(s), x \notin Elements(s)
      PROVE  Distinct(Append(s, x))
  BY <1>1, <1>2, <1>4 DEF Distinct, Elements
<1> QED  BY <1>1, <1>3, <1>4

\* pop_front removes the first element and keeps the rest.
LEMMA TailFacts ==
  ASSUME NEW A, NEW s \in Seq(A), s # << >>
  PROVE  /\ Head(s) \in A
         /\ Tail(s) \in Seq(A)
         /\ Len(Tail(s)) = Len(s) - 1
         /\ Elements(s) = {Head(s)} \cup Elements(Tail(s))
         /\ Distinct(s) => Distinct(Tail(s)) /\ Head(s) \notin Elements(Tail(s))
         /\ Head(s) = s[1] /\ \A i \in 1..Len(s) - 1 : Tail(s)[i] = s[i + 1]
<1>1. /\ Len(s) \in Nat /\ Len(s) >= 1
      /\ Head(s) = s[1] /\ Head(s) \in A
      /\ Tail(s) \in Seq(A)
      /\ Len(Tail(s)) = Len(s) - 1
      /\ \A i \in 1..Len(s) - 1 : Tail(s)[i] = s[i + 1]
  OBVIOUS
<1>2. Elements(s) \subseteq {Head(s)} \cup Elements(Tail(s))
  <2> SUFFICES ASSUME NEW i \in 1..Len(s), i # 1
               PROVE  s[i] \in Elements(Tail(s))
    BY <1>1 DEF Elements
  <2>1. i - 1 \in 1..Len(s) - 1 /\ Tail(s)[i - 1] = s[i]
    BY <1>1
  <2> QED  BY <1>1, <2>1 DEF Elements
<1>3. {Head(s)} \cup Elements(Tail(s)) \subseteq Elements(s)
  BY <1>1 DEF Elements
<1>4. ASSUME Distinct(s)
      PROVE  Distinct(Tail(s)) /\ Head(s) \notin Elements(Tail(s))
  BY <1>1, <1>4 DEF Distinct, Elements
<1> QED  BY <1>1, <1>2, <1>3, <1>4

\* A list without elements, and one with.
LEMMA EmptyFacts ==
  /\ Elements(<< >>) = {} /\ Distinct(<< >>) /\ Len(<< >>) = 0
  /\ \A A : \A s \in Seq(A) : Elements(s) = {} => s = << >>
  /\ \A A : \A s \in Seq(A) : Elements(s) \subseteq A
<1>1. Elements(<< >>) = {} /\ Distinct(<< >>) /\ Len(<< >>) = 0
  BY DEF Elements, Distinct
<1>2. ASSUME NEW A, NEW s \in Seq(A)
      PROVE  /\ Elements(s) = {} => s = << >>
             /\ Elements(s) \subseteq A
  <2>1. Len(s) \in Nat /\ \A i \in 1..Len(s) : s[i] \in A
    OBVIOUS
  <2>2. s # << >> => 1 \in 1..Len(s)
    BY <2>1
  <2> QED  BY <2>1, <2>2 DEF Elements
<1> QED  BY <1>1, <1>2

\* A set of natural numbers that is not empty has a least element.
LEMMA LeastNatural ==
  ASSUME NEW T \in SUBSET Nat, T # {}
  PROVE  \E x \in T : \A y \in T : ~ (y < x)
<1> DEFINE R == OpToRel(<, Nat)
<1>1. IsWellFoundedOn(R, Nat)
  BY NatLessThanWellFounded
<1>2. \A x, y \in Nat : y < x => <<y, x>> \in R
  BY DEF OpToRel
<1> HIDE DEF R
<1>3. PICK x \in T : \A y \in T : ~ (<<y, x>> \in R)
  BY <1>1, WFMin
<1> QED  BY <1>2, <1>3

\* Induction: a set that contains 0 and with every number its successor.
LEMMA InductionOnNat ==
  ASSUME NEW S, 0 \in S, \A n \in Nat : n \in S => n + 1 \in S
  PROVE  Nat \subseteq S
<1> DEFINE T == Nat \ S
<1> SUFFICES ASSUME T # {} PROVE FALSE
  OBVIOUS
<1>1. PICK x \in T : \A y \in T : ~ (y < x)
  BY LeastNatural
<1>2. x \in Nat /\ x # 0
  BY <1>1
<1>3. x - 1 \in Nat /\ x - 1 \in S
  BY <1>1, <1>2
<1>4. x - 1 + 1 \in S
  BY <1>3
<1> QED  BY <1>1, <1>2, <1>4

\* f is what KeptOfFirst computes, on the first m elements of s.
Computes(f, s, S, m) ==
  f = [n \in 0..m |-> IF n = 0 THEN << >>
                      ELSE IF s[n] \in S THEN Append(f[n - 1], s[n]) ELSE f[n - 1]]

\* The recursive definition of KeptOfFirst defines a function.
LEMMA KeptExists ==
  ASSUME NEW s, NEW S, NEW m \in Nat
  PROVE  \E f : Computes(f, s, S, m)
<1> DEFINE Next(f, n) ==
             IF n = 0 THEN << >>
             ELSE IF s[n] \in S THEN Append(f[n - 1], s[n]) ELSE f[n - 1]
           Good == {k \in Nat : \E f : Computes(f, s, S, k)}
<1>1. 0 \in Good
  <2>1. [n \in 0..0 |-> << >>] = [n \in 0..0 |-> Next([i \in 0..0 |-> << >>], n)]
    OBVIOUS
  <2>2. Computes([n \in 0..0 |-> << >>], s, S, 0)
    BY <2>1 DEF Computes
  <2> QED  BY <2>2
<1>2. ASSUME NEW k \in Nat, k \in Good
      PROVE  k + 1 \in Good
  <2>1. PICK f : Computes(f, s, S, k)
    BY <1>2
  <2> DEFINE g == [n \in 0..k + 1 |-> IF n = k + 1 THEN Next(f, n) ELSE f[n]]
  <2>2. \A n \in 0..k : g[n] = f[n]
    OBVIOUS
  <2>3. ASSUME NEW n \in 0..k + 1
        PROVE  g[n] = Next(g, n)
    <3>1. CASE n = k + 1
      <4>1. n # 0 /\ n - 1 \in 0..k
        BY <3>1
      <4>2. g[n] = Next(f, n) /\ g[n - 1] = f[n - 1]
        BY <2>2, <3>1, <4>1
      <4> HIDE DEF g
      <4> QED  BY <4>1, <4>2
    <3>2. CASE n # k + 1
      <4>1. n \in 0..k
        BY <3>2
      <4>2. g[n] = f[n] /\ f[n] = Next(f, n)
        BY <2>1, <2>2, <4>1 DEF Computes
      <4>3. n # 0 => g[n - 1] = f[n - 1]
        BY <2>2, <4>1
      <4> HIDE DEF g
      <4> QED  BY <4>2, <4>3
    <3> QED  BY <3>1, <3>2
  <2>4. g = [n \in 0..k + 1 |-> Next(g, n)]
    <3>1. g = [n \in 0..k + 1 |-> g[n]]
      OBVIOUS
    <3> HIDE DEF g, Next
    <3> QED  BY <2>3, <3>1
  <2>5. Computes(g, s, S, k + 1)
    BY <2>4 DEF Computes
  <2> HIDE DEF g
  <2> QED  BY <2>5
<1> HIDE DEF Good
<1>3. m \in Good
  BY <1>1, <1>2, InductionOnNat
<1> USE DEF Good
<1> QED  BY <1>3

\* The equation that KeptOfFirst satisfies.
LEMMA KeptEquation ==
  ASSUME NEW s, NEW S, Len(s) \in Nat
  PROVE  \A n \in 0..Len(s) :
           KeptOfFirst(s, S)[n] =
             IF n = 0 THEN << >>
             ELSE IF s[n] \in S THEN Append(KeptOfFirst(s, S)[n - 1], s[n])
             ELSE KeptOfFirst(s, S)[n - 1]
<1>1. \E f : Computes(f, s, S, Len(s))
  BY KeptExists
<1>2. KeptOfFirst(s, S) = CHOOSE f : Computes(f, s, S, Len(s))
  BY DEF KeptOfFirst, Computes
<1>3. Computes(KeptOfFirst(s, S), s, S, Len(s))
  BY <1>1, <1>2
<1> QED  BY <1>3 DEF Computes

\* An element of s that is in S occurs in s once.
OnceIn(s, S) == \A i, j \in 1..Len(s) : s[i] = s[j] /\ s[i] \in S => i = j

\* What KeptOfFirst has collected from the first m elements.
LEMMA KeptFacts ==
  ASSUME NEW A, NEW s \in Seq(A), NEW S, NEW m \in 0..Len(s)
  PROVE  /\ KeptOfFirst(s, S)[m] \in Seq(A)
         /\ Len(KeptOfFirst(s, S)[m]) <= m
         /\ \A e : e \in Elements(KeptOfFirst(s, S)[m]) <=>
                     e \in S /\ \E k \in 1..m : s[k] = e
         /\ OnceIn(s, S) => Distinct(KeptOfFirst(s, S)[m])
<1> DEFINE f == KeptOfFirst(s, S)
           Fine(n) == /\ f[n] \in Seq(A)
                      /\ Len(f[n]) <= n
                      /\ \A e : e \in Elements(f[n]) <=> e \in S /\ \E k \in 1..n : s[k] = e
                      /\ OnceIn(s, S) => Distinct(f[n])
           Good == {n \in Nat : n <= Len(s) => Fine(n)}
<1>1. Len(s) \in Nat /\ \A n \in 1..Len(s) : s[n] \in A
  OBVIOUS
<1>2. \A n \in 0..Len(s) :
        f[n] = IF n = 0 THEN << >>
               ELSE IF s[n] \in S THEN Append(f[n - 1], s[n]) ELSE f[n - 1]
  BY <1>1, KeptEquation
<1> HIDE DEF f
<1>3. Fine(0)
  <2>1. f[0] = << >>
    BY <1>1, <1>2
  <2> QED  BY <2>1, EmptyFacts
<1>4. ASSUME NEW n \in 1..Len(s), Fine(n - 1)
      PROVE  Fine(n)
  <2>1. \A e : (\E k \in 1..n : s[k] = e) <=> (\E k \in 1..n - 1 : s[k] = e) \/ s[n] = e
    BY <1>1
  <2>2. CASE s[n] \in S
    <3>1. f[n] = Append(f[n - 1], s[n]) /\ s[n] \in A
      <4>1. n \in 0..Len(s) /\ n # 0
        BY <1>1
      <4> QED  BY <1>1, <1>2, <2>2, <4>1
    <3>2. /\ f[n] \in Seq(A) /\ Len(f[n]) = Len(f[n - 1]) + 1
          /\ Elements(f[n]) = Elements(f[n - 1]) \cup {s[n]}
          /\ Distinct(f[n - 1]) /\ s[n] \notin Elements(f[n - 1]) => Distinct(f[n])
      BY <1>4, <3>1, AppendFacts
    <3>3. Len(f[n - 1]) \in Nat /\ Len(f[n]) <= n
      BY <1>1, <1>4, <3>2
    <3>4. OnceIn(s, S) => s[n] \notin Elements(f[n - 1])
      <4>1. \A k \in 1..n - 1 : k \in 1..Len(s) /\ k # n
        BY <1>1
      <4> QED  BY <1>4, <2>2, <4>1 DEF OnceIn
    <3> QED  BY <1>4, <2>1, <2>2, <3>2, <3>3, <3>4
  <2>3. CASE s[n] \notin S
    <3>1. f[n] = f[n - 1] /\ Len(f[n - 1]) \in Nat
      BY <1>1, <1>2, <1>4, <2>3
    <3>2. Len(f[n]) <= n
      BY <1>1, <1>4, <3>1
    <3> QED  BY <1>4, <2>1, <2>3, <3>1, <3>2
  <2> QED  BY <2>2, <2>3
<1> HIDE DEF Fine
<1>5. 0 \in Good
  BY <1>3
<1>6. ASSUME NEW n \in Nat, n \in Good
      PROVE  n + 1 \in Good
  <2> SUFFICES ASSUME n + 1 <= Len(s)
               PROVE  Fine(n + 1)
    OBVIOUS
  <2>1. PICK k \in 1..Len(s) : k = n + 1 /\ k - 1 = n
    BY <1>1
  <2>2. Fine(k - 1)
    BY <1>1, <1>6, <2>1
  <2> QED  BY <1>4, <2>1, <2>2
<1> HIDE DEF Good
<1>7. m \in Nat /\ m <= Len(s) /\ m \in Good
  BY <1>1, <1>5, <1>6, InductionOnNat
<1>8. Fine(m)
  BY <1>7 DEF Good
<1> QED  BY <1>8 DEF Fine, f

\* list::remove_if leaves the elements that are in S, and no others.
LEMMA KeepFacts ==
  ASSUME NEW A, NEW s \in Seq(A), NEW S
  PROVE  /\ Keep(s, S) \in Seq(A)
         /\ Len(Keep(s, S)) <= Len(s)
         /\ Elements(Keep(s, S)) = Elements(s) \cap S
         /\ Distinct(s) => Distinct(Keep(s, S))
<1>1. PICK m \in 0..Len(s) : m = Len(s)
  OBVIOUS
<1>2. /\ KeptOfFirst(s, S)[m] \in Seq(A)
      /\ Len(KeptOfFirst(s, S)[m]) <= m
      /\ \A e : e \in Elements(KeptOfFirst(s, S)[m]) <=> e \in S /\ \E k \in 1..m : s[k] = e
      /\ OnceIn(s, S) => Distinct(KeptOfFirst(s, S)[m])
  BY KeptFacts
<1>3. \A e : e \in Elements(s) <=> \E k \in 1..m : s[k] = e
  BY <1>1 DEF Elements
<1>4. Distinct(s) => OnceIn(s, S)
  BY DEF Distinct, OnceIn
<1> QED  BY <1>1, <1>2, <1>3, <1>4 DEF Keep

\* What occurs once in a list and is kept is kept once.
LEMMA KeepOnce ==
  ASSUME NEW A, NEW s \in Seq(A), NEW S, OnceIn(s, S)
  PROVE  Distinct(Keep(s, S))
<1>1. PICK m \in 0..Len(s) : m = Len(s)
  OBVIOUS
<1>2. OnceIn(s, S) => Distinct(KeptOfFirst(s, S)[m])
  BY KeptFacts
<1> QED  BY <1>1, <1>2 DEF Keep

\* A list of members of B.
LEMMA ListOf ==
  ASSUME NEW A, NEW B, NEW s \in Seq(A), Elements(s) \subseteq B
  PROVE  s \in Seq(B)
<1>1. Len(s) \in Nat /\ s = [i \in 1..Len(s) |-> s[i]]
  OBVIOUS
<1>2. \A i \in 1..Len(s) : s[i] \in B
  BY DEF Elements
<1> QED  BY <1>1, <1>2

\* One list behind another.
LEMMA ConcatFacts ==
  ASSUME NEW A, NEW p \in Seq(A), NEW q \in Seq(A)
  PROVE  /\ p \o q \in Seq(A)
         /\ Len(p \o q) = Len(p) + Len(q)
         /\ \A i \in 1..Len(p) : (p \o q)[i] = p[i]
         /\ \A i \in 1..Len(q) : (p \o q)[Len(p) + i] = q[i]
         /\ Elements(p \o q) = Elements(p) \cup Elements(q)
<1>1. /\ p \o q \in Seq(A) /\ Len(p) \in Nat /\ Len(q) \in Nat
      /\ Len(p \o q) = Len(p) + Len(q)
      /\ \A i \in 1..Len(p) : (p \o q)[i] = p[i]
      /\ \A i \in 1..Len(q) : (p \o q)[Len(p) + i] = q[i]
  OBVIOUS
<1>2. ASSUME NEW i \in 1..Len(p) + Len(q)
      PROVE  (p \o q)[i] \in Elements(p) \cup Elements(q)
  <2>1. CASE i <= Len(p)
    BY <1>1, <2>1 DEF Elements
  <2>2. CASE i > Len(p)
    <3>1. i - Len(p) \in 1..Len(q) /\ Len(p) + (i - Len(p)) = i
      BY <1>1, <2>2
    <3> QED  BY <1>1, <3>1 DEF Elements
  <2> QED  BY <1>1, <2>1, <2>2
<1>3. \A i \in 1..Len(p) : i \in 1..Len(p) + Len(q)
  BY <1>1
<1>4. \A i \in 1..Len(q) : Len(p) + i \in 1..Len(p) + Len(q)
  BY <1>1
<1>5. Elements(p) \subseteq Elements(p \o q)
  BY <1>1, <1>3 DEF Elements
<1>6. Elements(q) \subseteq Elements(p \o q)
  BY <1>1, <1>4 DEF Elements
<1> QED  BY <1>1, <1>2, <1>5, <1>6 DEF Elements

\* Short lists.
LEMMA ShortFacts ==
  ASSUME NEW A, NEW x \in A
  PROVE  /\ << >> \in Seq(A) /\ Elements(<< >>) = {}
         /\ <<x>> \in Seq(A) /\ Elements(<<x>>) = {x}
BY DEF Elements

\* An element is put behind two lists.
LEMMA AppendConcat ==
  ASSUME NEW A, NEW p \in Seq(A), NEW q \in Seq(A), NEW x \in A
  PROVE  \E y \in Seq(A) : y = Append(p \o q, x) /\ y = p \o Append(q, x)
<1>1. Append(p \o q, x) = p \o Append(q, x)
  OBVIOUS
<1>2. Append(p \o q, x) \in Seq(A)
  OBVIOUS
<1> QED  BY <1>1, <1>2

\* find_if goes through one list and then through the other.
LEMMA KeepConcat ==
  ASSUME NEW A, NEW p \in Seq(A), NEW q \in Seq(A), NEW S
  PROVE  \E y : y = Keep(p \o q, S) /\ y = Keep(p, S) \o Keep(q, S)
<1> DEFINE s == p \o q
           f == KeptOfFirst(s, S)
           g == KeptOfFirst(p, S)
           h == KeptOfFirst(q, S)
           First == {n \in Nat : n <= Len(p) => f[n] = g[n]}
<1>1. /\ s \in Seq(A) /\ Len(p) \in Nat /\ Len(q) \in Nat /\ Len(s) = Len(p) + Len(q)
      /\ \A i \in 1..Len(p) : s[i] = p[i]
      /\ \A i \in 1..Len(q) : s[Len(p) + i] = q[i] /\ q[i] \in A
  BY ConcatFacts
<1> HIDE DEF s
<1>2. \A n \in 0..Len(s) :
        f[n] = IF n = 0 THEN << >>
               ELSE IF s[n] \in S THEN Append(f[n - 1], s[n]) ELSE f[n - 1]
  BY <1>1, KeptEquation, SMTT(30)
<1>3. \A n \in 0..Len(p) :
        g[n] = IF n = 0 THEN << >>
               ELSE IF p[n] \in S THEN Append(g[n - 1], p[n]) ELSE g[n - 1]
  BY <1>1, KeptEquation
<1>4. \A n \in 0..Len(q) :
        h[n] = IF n = 0 THEN << >>
               ELSE IF q[n] \in S THEN Append(h[n - 1], q[n]) ELSE h[n - 1]
  BY <1>1, KeptEquation
<1>5. \A n \in 0..Len(q) : h[n] \in Seq(A)
  BY KeptFacts
<1>6. PICK k \in Seq(A) : k = g[Len(p)]
  <2>1. Len(p) \in 0..Len(p)
    BY <1>1
  <2>2. KeptOfFirst(p, S)[Len(p)] \in Seq(A)
    BY <2>1, KeptFacts
  <2> QED  BY <2>2
<1> HIDE DEF f, g, h
<1>7. 0 \in First
  BY <1>1, <1>2, <1>3
<1>8. ASSUME NEW n \in Nat, n \in First
      PROVE  n + 1 \in First
  <2> SUFFICES ASSUME n + 1 <= Len(p)
               PROVE  f[n + 1] = g[n + 1]
    OBVIOUS
  <2>1. f[n] = g[n]
    BY <1>1, <1>8
  <2>2. PICK i \in 1..Len(p) : i = n + 1 /\ i - 1 = n
    BY <1>1
  <2>3. i \in 0..Len(p) /\ i \in 0..Len(s) /\ i # 0 /\ s[i] = p[i]
    BY <1>1
  <2>4. f[i] = IF p[i] \in S THEN Append(f[i - 1], p[i]) ELSE f[i - 1]
    BY <1>2, <2>3
  <2>5. g[i] = IF p[i] \in S THEN Append(g[i - 1], p[i]) ELSE g[i - 1]
    BY <1>3, <2>3
  <2> QED  BY <2>1, <2>2, <2>4, <2>5
<1> HIDE DEF First
<1>9. Len(p) \in First
  BY <1>1, <1>7, <1>8, InductionOnNat
<1>10. f[Len(p)] = k
  BY <1>1, <1>6, <1>9 DEF First
<1> DEFINE Fine(n) == f[Len(p) + n] = k \o h[n]
           Second == {n \in Nat : n <= Len(q) => Fine(n)}
<1>11. Fine(0)
  <2>1. h[0] = << >>
    BY <1>1, <1>4
  <2>2. Len(p) + 0 = Len(p)
    BY <1>1
  <2>3. k \o << >> = k
    OBVIOUS
  <2> QED  BY <1>10, <2>1, <2>2, <2>3
<1> HIDE DEF Fine
<1>12. ASSUME NEW i \in 1..Len(q), Fine(i - 1)
       PROVE  Fine(i)
  <2>1. PICK n \in 0..Len(q) : n = i - 1
    BY <1>1
  <2>2. /\ Len(p) + i \in 0..Len(s) /\ Len(p) + i # 0 /\ (Len(p) + i) - 1 = Len(p) + n
        /\ i \in 0..Len(q) /\ i # 0
    BY <1>1, <2>1
  <2>3. s[Len(p) + i] = q[i] /\ q[i] \in A
    BY <1>1
  <2>4. f[Len(p) + i] = IF q[i] \in S THEN Append(f[Len(p) + n], q[i]) ELSE f[Len(p) + n]
    BY <1>2, <2>2, <2>3
  <2>5. h[i] = IF q[i] \in S THEN Append(h[n], q[i]) ELSE h[n]
    BY <1>4, <2>1, <2>2
  <2>6. PICK t \in Seq(A), x \in A : t = h[n] /\ x = q[i]
    BY <1>5, <2>3
  <2>7. PICK y \in Seq(A) : y = Append(k \o t, x) /\ y = k \o Append(t, x)
    BY AppendConcat
  <2>8. f[Len(p) + n] = k \o t
    BY <1>12, <2>1, <2>6 DEF Fine
  <2> QED  BY <2>4, <2>5, <2>6, <2>7, <2>8 DEF Fine
<1>13. 0 \in Second
  BY <1>11
<1>14. ASSUME NEW n \in Nat, n \in Second
       PROVE  n + 1 \in Second
  <2> SUFFICES ASSUME n + 1 <= Len(q)
               PROVE  Fine(n + 1)
    OBVIOUS
  <2>1. PICK i \in 1..Len(q) : i = n + 1 /\ i - 1 = n
    BY <1>1
  <2>2. Fine(i - 1)
    BY <1>1, <1>14, <2>1
  <2> QED  BY <1>12, <2>1, <2>2
<1> HIDE DEF Second
<1>15. Len(q) \in Second
  BY <1>1, <1>13, <1>14, InductionOnNat
<1>16. Fine(Len(q))
  BY <1>1, <1>15 DEF Second
<1>17. f[Len(s)] = g[Len(p)] \o h[Len(q)]
  BY <1>1, <1>6, <1>16 DEF Fine
<1> QED  BY <1>17 DEF Keep, f, g, h, s

\* find_if where there is nothing to find, and in a list of one element.
LEMMA KeepShort ==
  ASSUME NEW A, NEW S
  PROVE  /\ \A s \in Seq(A) : Elements(s) \cap S = {} => Keep(s, S) = << >>
         /\ \A x \in A : x \in S => Keep(<<x>>, S) = <<x>>
<1>1. ASSUME NEW s \in Seq(A), Elements(s) \cap S = {}
      PROVE  Keep(s, S) = << >>
  <2>1. Keep(s, S) \in Seq(A) /\ Elements(Keep(s, S)) = Elements(s) \cap S
    BY KeepFacts
  <2> QED  BY <1>1, <2>1, EmptyFacts
<1>2. ASSUME NEW x \in A, x \in S
      PROVE  Keep(<<x>>, S) = <<x>>
  <2>1. <<x>> \in Seq(A) /\ Len(<<x>>) = 1 /\ <<x>>[1] = x
    OBVIOUS
  <2>2. PICK s \in Seq(A) : s = <<x>> /\ Len(s) = 1 /\ s[1] = x /\ Len(s) \in Nat
    BY <2>1
  <2>3. \A n \in 0..Len(s) :
          KeptOfFirst(s, S)[n] =
            IF n = 0 THEN << >>
            ELSE IF s[n] \in S THEN Append(KeptOfFirst(s, S)[n - 1], s[n])
            ELSE KeptOfFirst(s, S)[n - 1]
    <3>1. Len(s) \in Nat
      BY <2>2
    <3> QED  BY <3>1, KeptEquation
  <2>4. 1 \in 0..Len(s) /\ 0 \in 0..Len(s) /\ 1 - 1 = 0
    BY <2>2
  <2>5. KeptOfFirst(s, S)[0] = << >>
    BY <2>3, <2>4
  <2>6. KeptOfFirst(s, S)[1] = Append(KeptOfFirst(s, S)[0], x)
    <3>1. KeptOfFirst(s, S)[1] =
            IF s[1] \in S THEN Append(KeptOfFirst(s, S)[1 - 1], s[1])
            ELSE KeptOfFirst(s, S)[1 - 1]
      BY <2>3, <2>4
    <3> QED  BY <1>2, <2>2, <2>4, <3>1
  <2>7. Append(<< >>, x) = <<x>>
    OBVIOUS
  <2>8. Keep(s, S) = <<x>>
    BY <2>2, <2>5, <2>6, <2>7 DEF Keep
  <2> QED  BY <2>2, <2>8
<1> QED  BY <1>1, <1>2

\* erase takes out one element; the rest stays, and stays distinct.
LEMMA EraseFacts ==
  ASSUME NEW A, NEW s \in Seq(A), NEW k \in 1..Len(s)
  PROVE  /\ EraseAt(s, k) \in Seq(A)
         /\ Len(EraseAt(s, k)) = Len(s) - 1
         /\ Elements(s) = Elements(EraseAt(s, k)) \cup {s[k]}
         /\ Distinct(s) => Distinct(EraseAt(s, k)) /\ s[k] \notin Elements(EraseAt(s, k))
         /\ \A i \in 1..Len(s) - 1 : EraseAt(s, k)[i] = IF i < k THEN s[i] ELSE s[i + 1]
<1>1. /\ Len(s) \in Nat
      /\ EraseAt(s, k) \in Seq(A)
      /\ Len(EraseAt(s, k)) = Len(s) - 1
      /\ \A i \in 1..Len(s) - 1 : EraseAt(s, k)[i] = IF i < k THEN s[i] ELSE s[i + 1]
  <2> DEFINE p == SubSeq(s, 1, k - 1)
             q == SubSeq(s, k + 1, Len(s))
  <2>1. Len(s) \in Nat /\ k \in Nat
    OBVIOUS
  <2>2. /\ p \in Seq(A) /\ Len(p) = k - 1
        /\ \A i \in 1..k - 1 : p[i] = s[i]
    BY <2>1
  <2>3. /\ q \in Seq(A) /\ Len(q) = Len(s) - k
        /\ \A i \in 1..Len(s) - k : q[i] = s[k + i]
    BY <2>1
  <2>4. EraseAt(s, k) = p \o q
    BY DEF EraseAt
  <2> HIDE DEF p, q
  <2>5. /\ p \o q \in Seq(A) /\ Len(p \o q) = Len(s) - 1
        /\ \A i \in 1..k - 1 : (p \o q)[i] = p[i]
        /\ \A i \in 1..Len(s) - k : (p \o q)[k - 1 + i] = q[i]
    <3>1. /\ p \o q \in Seq(A) /\ Len(p \o q) = Len(p) + Len(q)
          /\ \A i \in 1..Len(p) : (p \o q)[i] = p[i]
          /\ \A i \in 1..Len(q) : (p \o q)[Len(p) + i] = q[i]
      <4>1. p \in Seq(A) /\ q \in Seq(A)
        BY <2>2, <2>3
      <4> QED  BY ONLY <4>1, ConcatFacts
    <3>2. k - 1 + (Len(s) - k) = Len(s) - 1
      BY <2>1
    <3> QED  BY <2>2, <2>3, <3>1, <3>2
  <2>6. ASSUME NEW i \in 1..Len(s) - 1, ~ (i < k)
        PROVE  (p \o q)[i] = s[i + 1]
    <3>1. PICK j \in 1..Len(s) - k : k - 1 + j = i /\ k + j = i + 1
      <4>1. /\ i - (k - 1) \in 1..Len(s) - k
            /\ k - 1 + (i - (k - 1)) = i /\ k + (i - (k - 1)) = i + 1
        BY <2>1, <2>6
      <4> QED  BY <4>1
    <3> QED  BY <2>3, <2>5, <3>1
  <2>7. \A i \in 1..Len(s) - 1 : i < k => i \in 1..k - 1
    BY <2>1
  <2> QED  BY <2>1, <2>2, <2>4, <2>5, <2>6, <2>7
<1>2. ASSUME NEW j \in 1..Len(s), j # k
      PROVE  s[j] \in Elements(EraseAt(s, k))
  <2>1. CASE j < k
    BY <1>1, <2>1 DEF Elements
  <2>2. CASE j > k
    <3>1. j - 1 \in 1..Len(s) - 1 /\ EraseAt(s, k)[j - 1] = s[j]
      BY <1>1, <2>2
    <3> QED  BY <1>1, <3>1 DEF Elements
  <2> QED  BY <1>1, <1>2, <2>1, <2>2
<1>3. Elements(EraseAt(s, k)) \cup {s[k]} \subseteq Elements(s)
  BY <1>1 DEF Elements
<1>4. Elements(s) \subseteq Elements(EraseAt(s, k)) \cup {s[k]}
  BY <1>1, <1>2 DEF Elements
<1>5. ASSUME Distinct(s)
      PROVE  Distinct(EraseAt(s, k)) /\ s[k] \notin Elements(EraseAt(s, k))
  BY <1>1, <1>5 DEF Distinct, Elements
<1> QED  BY <1>1, <1>3, <1>4, <1>5

\* emplace puts one element in; the rest stays.
LEMMA InsertFacts ==
  ASSUME NEW A, NEW s \in Seq(A), NEW k \in 0..Len(s), NEW x \in A
  PROVE  /\ InsertAfter(s, k, x) \in Seq(A)
         /\ Len(InsertAfter(s, k, x)) = Len(s) + 1
         /\ Elements(InsertAfter(s, k, x)) = Elements(s) \cup {x}
         /\ Distinct(s) /\ x \notin Elements(s) => Distinct(InsertAfter(s, k, x))
         /\ \A i \in 1..k : InsertAfter(s, k, x)[i] = s[i]
<1> DEFINE t == InsertAfter(s, k, x)
           p == SubSeq(s, 1, k)
           q == SubSeq(s, k + 1, Len(s))
<1>1. Len(s) \in Nat /\ k \in Nat
  OBVIOUS
<1>2. p \in Seq(A) /\ Len(p) = k /\ \A i \in 1..k : p[i] = s[i]
  BY <1>1
<1>3. q \in Seq(A) /\ Len(q) = Len(s) - k /\ \A i \in 1..Len(s) - k : q[i] = s[k + i]
  BY <1>1
<1>4. t = Append(p, x) \o q
  BY DEF InsertAfter
<1>5. /\ Append(p, x) \in Seq(A) /\ Len(Append(p, x)) = k + 1
      /\ Append(p, x)[k + 1] = x
      /\ \A i \in 1..k : Append(p, x)[i] = s[i]
  BY <1>1, <1>2
<1> HIDE DEF t, p, q
<1>6. /\ t \in Seq(A) /\ Len(t) = Len(s) + 1
      /\ \A i \in 1..k + 1 : t[i] = Append(p, x)[i]
      /\ \A i \in 1..Len(s) - k : t[k + 1 + i] = q[i]
  BY <1>1, <1>3, <1>4, <1>5
<1>7. t[k + 1] = x /\ \A i \in 1..k : t[i] = s[i]
  BY <1>1, <1>5, <1>6
<1>8. \A j \in k + 1..Len(s) : t[j + 1] = s[j]
  <2> SUFFICES ASSUME NEW j \in k + 1..Len(s)
               PROVE  t[j + 1] = s[j]
    OBVIOUS
  <2>1. PICK i \in 1..Len(s) - k : k + i = j /\ k + 1 + i = j + 1
    <3>1. j - k \in 1..Len(s) - k /\ k + (j - k) = j /\ k + 1 + (j - k) = j + 1
      BY <1>1
    <3> QED  BY <3>1
  <2> QED  BY <1>3, <1>6, <2>1
<1>9. \A i \in 1..Len(s) + 1 : \/ i \in 1..k /\ t[i] = s[i]
                               \/ i = k + 1 /\ t[i] = x
                               \/ i - 1 \in k + 1..Len(s) /\ t[i] = s[i - 1]
  <2> SUFFICES ASSUME NEW i \in 1..Len(s) + 1, i > k + 1
               PROVE  i - 1 \in k + 1..Len(s) /\ t[i] = s[i - 1]
    BY <1>1, <1>7
  <2>1. i - 1 \in k + 1..Len(s) /\ i - 1 + 1 = i
    BY <1>1
  <2> QED  BY <1>8, <2>1
<1>10. Elements(t) \subseteq Elements(s) \cup {x}
  BY <1>1, <1>6, <1>9, SMTT(30) DEF Elements
<1>11. Elements(s) \cup {x} \subseteq Elements(t)
  <2>1. x \in Elements(t)
    <3>1. k + 1 \in 1..Len(t)
      BY <1>1, <1>6
    <3> QED  BY <1>7, <3>1 DEF Elements
  <2>2. ASSUME NEW j \in 1..Len(s)
        PROVE  s[j] \in Elements(t)
    <3>1. CASE j <= k
      <4>1. j \in 1..k /\ j \in 1..Len(t)
        BY <1>1, <1>6, <3>1
      <4> QED  BY <1>7, <4>1 DEF Elements
    <3>2. CASE j > k
      <4>1. j \in k + 1..Len(s) /\ j + 1 \in 1..Len(t)
        BY <1>1, <1>6, <3>2
      <4> QED  BY <1>8, <4>1 DEF Elements
    <3> QED  BY <1>1, <3>1, <3>2
  <2> QED  BY <2>1, <2>2 DEF Elements
<1>12. ASSUME Distinct(s), x \notin Elements(s)
       PROVE  Distinct(t)
  <2>1. /\ \A m \in 1..Len(s) : s[m] # x
        /\ \A m, n \in 1..Len(s) : s[m] = s[n] => m = n
    BY <1>12 DEF Elements, Distinct
  <2>2. ASSUME NEW i \in 1..Len(s) + 1, NEW j \in 1..Len(s) + 1, t[i] = t[j]
        PROVE  i = j
    <3>1. /\ i \in 1..k => i \in 1..Len(s) /\ t[i] = s[i]
          /\ i = k + 1 => t[i] = x
          /\ i > k + 1 => i - 1 \in 1..Len(s) /\ t[i] = s[i - 1]
      BY <1>1, <1>9
    <3>2. /\ j \in 1..k => j \in 1..Len(s) /\ t[j] = s[j]
          /\ j = k + 1 => t[j] = x
          /\ j > k + 1 => j - 1 \in 1..Len(s) /\ t[j] = s[j - 1]
      BY <1>1, <1>9
    <3>3. CASE i \in 1..k
      BY <1>1, <2>1, <2>2, <3>1, <3>2, <3>3
    <3>4. CASE i = k + 1
      BY <1>1, <2>1, <2>2, <3>1, <3>2, <3>4
    <3>5. CASE i > k + 1
      BY <1>1, <2>1, <2>2, <3>1, <3>2, <3>5
    <3> QED  BY <1>1, <3>3, <3>4, <3>5
  <2> QED  BY <1>6, <2>2 DEF Distinct
<1> QED  BY <1>6, <1>7, <1>10, <1>11, <1>12 DEF t
===============================================================================
