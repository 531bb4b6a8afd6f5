---------------------------- MODULE Tables_proofs ----------------------------
(***************************************************************************)
(* Theorems about what becomes of sheets and rows on their way to a table: *)
(* Mapping, Validation and Batches.  They are about what functions compute *)
(* of sequences of any length, so the module starts with an induction over *)
(* Nat that is stated of sets, not of predicates.                          *)
(***************************************************************************)
EXTENDS Mapping, Validation, Batches, FiniteSetTheorems, WellFoundedInduction, TLAPS

-----------------------------------------------------------------------------
(* Induction and recursion.                                                *)

\* A set of naturals that is not empty has a least element.
LEMMA LeastElement ==
    ASSUME NEW U, U \subseteq Nat, U # {}
    PROVE  \E n \in U : \A m \in U : n <= m
<1> DEFINE R == OpToRel(<, Nat)
<1>1. IsWellFoundedOn(R, Nat)
  BY NatLessThanWellFounded
<1>2. \A x, y \in Nat : <<x, y>> \in R <=> x < y
  BY DEF OpToRel
<1> HIDE DEF R
<1>3. PICK n \in U : \A m \in U : ~ (<<m, n>> \in R)
  BY <1>1, WFMin
<1>4. ASSUME NEW m \in U PROVE n <= m
  <2>1. m \in Nat /\ n \in Nat
    OBVIOUS
  <2>2. ~ (m < n)
    BY <1>2, <1>3, <2>1
  <2> QED
    BY <2>1, <2>2
<1> QED
  BY <1>4

\* Induction up to a bound.
LEMMA BoundedInduction ==
    ASSUME NEW N \in Nat, NEW U, 0 \in U,
           \A n \in 1 .. N : n - 1 \in U => n \in U
    PROVE  \A n \in 0 .. N : n \in U
<1> SUFFICES ASSUME NEW k \in 0 .. N, k \notin U PROVE FALSE
  OBVIOUS
<1> DEFINE B == {n \in 0 .. N : n \notin U}
<1>1. PICK n \in B : \A m \in B : n <= m
  <2>1. B \subseteq Nat /\ B # {}
    OBVIOUS
  <2> HIDE DEF B
  <2> QED
    BY <2>1, LeastElement
<1>2. n \in 1 .. N /\ n - 1 \in 0 .. N
  BY <1>1
<1>3. n - 1 \in U
  BY <1>1, <1>2
<1> QED
  BY <1>1, <1>2, <1>3

\* Course-of-values induction.
LEMMA StrongInduction ==
    ASSUME NEW U, \A n \in Nat : (\A m \in 0 .. n - 1 : m \in U) => n \in U
    PROVE  \A n \in Nat : n \in U
<1> SUFFICES ASSUME NEW k \in Nat, k \notin U PROVE FALSE
  OBVIOUS
<1> DEFINE B == {n \in Nat : n \notin U}
<1>1. PICK n \in B : \A m \in B : n <= m
  <2>1. B \subseteq Nat /\ B # {}
    OBVIOUS
  <2> HIDE DEF B
  <2> QED
    BY <2>1, LeastElement
<1>2. \A m \in 0 .. n - 1 : m \in U
  BY <1>1
<1> QED
  BY <1>1, <1>2

\* A function on 0 .. N whose value at n is a step from that at a smaller place,
\* and is a where there is none.
Recursive(f, N, a, prev, step) ==
    f = [n \in 0 .. N |-> IF n = 0 THEN a ELSE step[n][f[prev[n]]]]

LEMMA RecursiveExists ==
    ASSUME NEW A, NEW a \in A, NEW N \in Nat, NEW prev, NEW step,
           \A n \in 1 .. N : prev[n] \in 0 .. n - 1,
           \A n \in 1 .. N : \A x \in A : step[n][x] \in A
    PROVE  \E f \in [0 .. N -> A] : Recursive(f, N, a, prev, step)
<1> DEFINE Part(g, n) == \A i \in 0 .. n : g[i] = IF i = 0 THEN a ELSE step[i][g[prev[i]]]
           U == {k \in 0 .. N : \E f \in [0 .. N -> A] : Part(f, k)}
<1>1. 0 \in U
  <2>1. [i \in 0 .. N |-> a] \in [0 .. N -> A]
    OBVIOUS
  <2>2. Part([i \in 0 .. N |-> a], 0)
    OBVIOUS
  <2>3. \E g \in [0 .. N -> A] : Part(g, 0)
    BY <2>1, <2>2
  <2> HIDE DEF Part
  <2> QED
    BY <2>3
<1>2. ASSUME NEW n \in 1 .. N, n - 1 \in U PROVE n \in U
  <2>1. PICK g \in [0 .. N -> A] : Part(g, n - 1)
    BY <1>2
  <2> DEFINE y == step[n][g[prev[n]]]
             h == [g EXCEPT ![n] = y]
  <2>2. prev[n] \in 0 .. n - 1 /\ y \in A
    <3>1. g[prev[n]] \in A
      BY <2>1
    <3> QED
      BY <3>1
  <2>3. h \in [0 .. N -> A] /\ h[n] = y /\ \A i \in 0 .. n - 1 : h[i] = g[i]
    BY <2>1, <2>2
  <2> HIDE DEF h
  <2>4. ASSUME NEW i \in 0 .. n
        PROVE  h[i] = IF i = 0 THEN a ELSE step[i][h[prev[i]]]
    <3>1. CASE i = n
      BY <2>2, <2>3, <3>1
    <3>2. CASE i \in 1 .. n - 1
      <4>1. prev[i] \in 0 .. i - 1
        BY <3>2
      <4> QED
        BY <2>1, <2>3, <3>2, <4>1
    <3>3. CASE i = 0
      BY <2>1, <2>3, <3>3
    <3> QED
      BY <3>1, <3>2, <3>3
  <2>5. Part(h, n)
    BY <2>4
  <2> HIDE DEF Part
  <2>6. \E f \in [0 .. N -> A] : Part(f, n)
    BY <2>3, <2>5
  <2> QED
    BY <2>6
<1>3. N \in U
  <2> HIDE DEF U
  <2> QED
    BY <1>1, <1>2, BoundedInduction
<1>4. PICK g \in [0 .. N -> A] : Part(g, N)
  BY <1>3
<1>5. g = [n \in 0 .. N |-> IF n = 0 THEN a ELSE step[n][g[prev[n]]]]
  <2>1. \A n \in 0 .. N : g[n] = IF n = 0 THEN a ELSE step[n][g[prev[n]]]
    BY <1>4
  <2>2. g = [n \in 0 .. N |-> g[n]]
    BY <1>4
  <2> QED
    BY <2>1, <2>2
<1> QED
  BY <1>4, <1>5 DEF Recursive

\* What an element adds to those gathered so far.
Gathered(x, e, S) == IF e \in S THEN Append(x, e) ELSE x

\* How the elements of a sequence that are in S are gathered.
LEMMA ThoseSteps ==
    ASSUME NEW T, NEW s \in Seq(T), NEW S
    PROVE  \E f \in [0 .. Len(s) -> Seq(T)] :
              /\ f[0] = <<>>
              /\ \A n \in 1 .. Len(s) : f[n] = Gathered(f[n - 1], s[n], S)
              /\ Those(s, S) = f[Len(s)]
<1> DEFINE N == Len(s)
           F(g) == [n \in 0 .. N |-> IF n = 0 THEN <<>> ELSE Gathered(g[n - 1], s[n], S)]
           W == CHOOSE g : g = F(g)
           prev == [n \in 1 .. N |-> n - 1]
           step == [n \in 1 .. N |-> [x \in Seq(T) |-> Gathered(x, s[n], S)]]
<1>1. N \in Nat /\ \A n \in 1 .. N : s[n] \in T
  OBVIOUS
<1>2. Those(s, S) = W[N]
  BY DEF Those, Gathered
<1> HIDE DEF N
<1>3. PICK f \in [0 .. N -> Seq(T)] : Recursive(f, N, <<>>, prev, step)
  <2>1. \A n \in 1 .. N : prev[n] \in 0 .. n - 1
    BY <1>1
  <2>2. \A n \in 1 .. N : \A x \in Seq(T) : step[n][x] \in Seq(T)
    BY <1>1 DEF Gathered
  <2>3. <<>> \in Seq(T)
    OBVIOUS
  <2> HIDE DEF prev, step
  <2> QED
    BY <1>1, <2>1, <2>2, <2>3, RecursiveExists
<1>4. \A n \in 0 .. N : f[n] = IF n = 0 THEN <<>> ELSE Gathered(f[n - 1], s[n], S)
  <2>1. \A n \in 0 .. N : f[n] = IF n = 0 THEN <<>> ELSE step[n][f[prev[n]]]
    BY <1>3 DEF Recursive
  <2>2. \A n \in 1 .. N, x \in Seq(T) : step[n][x] = Gathered(x, s[n], S)
    OBVIOUS
  <2>3. \A n \in 1 .. N : prev[n] = n - 1 /\ f[n - 1] \in Seq(T)
    BY <1>1
  <2> HIDE DEF step, prev
  <2>4. ASSUME NEW n \in 1 .. N PROVE f[n] = Gathered(f[n - 1], s[n], S)
    <3>1. f[n] = step[n][f[prev[n]]]
      BY <1>1, <2>1
    <3> QED
      BY <2>2, <2>3, <3>1
  <2> QED
    BY <1>1, <2>1, <2>4
<1>5. f = F(f)
  BY <1>4
<1>6. W = F(W)
  <2> HIDE DEF F
  <2> QED
    BY <1>5
<1> HIDE DEF W
<1>7. \A n \in 0 .. N : W[n] = IF n = 0 THEN <<>> ELSE Gathered(W[n - 1], s[n], S)
  BY <1>6
<1>8. \A n \in 0 .. N : W[n] = f[n]
  <2> DEFINE U == {n \in 0 .. N : W[n] = f[n]}
  <2>1. 0 \in U
    BY <1>1, <1>4, <1>7
  <2>2. \A n \in 1 .. N : n - 1 \in U => n \in U
    BY <1>1, <1>4, <1>7
  <2> HIDE DEF U
  <2>3. \A n \in 0 .. N : n \in U
    BY <1>1, <2>1, <2>2, BoundedInduction
  <2> QED
    BY <2>3 DEF U
<1>9. f[0] = <<>> /\ \A n \in 1 .. N : f[n] = Gathered(f[n - 1], s[n], S)
  BY <1>1, <1>4
<1>10. Those(s, S) = f[N]
  BY <1>1, <1>2, <1>8
<1> QED
  BY <1>9, <1>10 DEF N

LEMMA ThoseType ==
    ASSUME NEW T, NEW s \in Seq(T), NEW S
    PROVE  /\ Those(s, S) \in Seq(T)
           /\ \A i \in DOMAIN Those(s, S) : Those(s, S)[i] \in S
<1> DEFINE N == Len(s)
<1>1. PICK f \in [0 .. N -> Seq(T)] :
              /\ f[0] = <<>>
              /\ \A n \in 1 .. N : f[n] = Gathered(f[n - 1], s[n], S)
              /\ Those(s, S) = f[N]
  BY ThoseSteps
<1>2. N \in Nat /\ \A n \in 1 .. N : s[n] \in T
  OBVIOUS
<1> HIDE DEF N
<1> DEFINE U == {n \in 0 .. N : \A i \in 1 .. Len(f[n]) : f[n][i] \in S}
<1>3. 0 \in U
  BY <1>1, <1>2
<1>4. ASSUME NEW n \in 1 .. N, n - 1 \in U PROVE n \in U
  <2> DEFINE x == f[n - 1]
  <2>1. /\ x \in Seq(T) /\ s[n] \in T /\ n \in 0 .. N
        /\ f[n] = Gathered(x, s[n], S) /\ \A i \in 1 .. Len(x) : x[i] \in S
    BY <1>1, <1>2, <1>4
  <2> HIDE DEF x
  <2>2. \A i \in 1 .. Len(f[n]) : f[n][i] \in S
    BY <2>1 DEF Gathered
  <2> QED
    BY <2>1, <2>2
<1>5. N \in U
  <2> HIDE DEF U
  <2>1. \A n \in 0 .. N : n \in U
    BY <1>2, <1>3, <1>4, BoundedInduction
  <2> QED
    BY <1>2, <2>1
<1> QED
  BY <1>1, <1>2, <1>5

\* A set that the first elements are in, and none of the others, selects those.
LEMMA ThosePrefix ==
    ASSUME NEW T, NEW s \in Seq(T), NEW S,
           \A m, n \in 1 .. Len(s) : m < n /\ s[n] \in S => s[m] \in S
    PROVE  /\ Len(Those(s, S)) <= Len(s)
           /\ \A i \in 1 .. Len(Those(s, S)) : Those(s, S)[i] = s[i]
           /\ Len(s) # 0 /\ s[Len(s)] \in S => Len(Those(s, S)) = Len(s)
<1> DEFINE N == Len(s)
<1>1. PICK f \in [0 .. N -> Seq(T)] :
              /\ f[0] = <<>>
              /\ \A n \in 1 .. N : f[n] = Gathered(f[n - 1], s[n], S)
              /\ Those(s, S) = f[N]
  BY ThoseSteps
<1>2. /\ N \in Nat /\ \A n \in 1 .. N : s[n] \in T
      /\ \A m, n \in 1 .. N : m < n /\ s[n] \in S => s[m] \in S
  OBVIOUS
<1> HIDE DEF N
<1> DEFINE P(n) == /\ Len(f[n]) <= n
                   /\ \A i \in 1 .. Len(f[n]) : f[n][i] = s[i]
                   /\ n # 0 /\ Len(f[n]) < n => s[n] \notin S
           U == {n \in 0 .. N : P(n)}
<1>3. 0 \in U
  BY <1>1, <1>2
<1>4. ASSUME NEW n \in 1 .. N, n - 1 \in U PROVE n \in U
  <2> DEFINE x == f[n - 1]
  <2>1. /\ x \in Seq(T) /\ s[n] \in T /\ n \in 0 .. N
        /\ f[n] = Gathered(x, s[n], S)
        /\ Len(x) <= n - 1
        /\ \A i \in 1 .. Len(x) : x[i] = s[i]
        /\ n - 1 # 0 /\ Len(x) < n - 1 => s[n - 1] \notin S
    BY <1>1, <1>2, <1>4
  <2> HIDE DEF x
  <2>2. CASE s[n] \in S
    <3>1. Len(x) = n - 1
      BY <1>2, <2>1, <2>2
    <3>2. f[n] = Append(x, s[n])
      BY <2>1, <2>2 DEF Gathered
    <3>3. P(n)
      BY <2>1, <3>1, <3>2
    <3> QED
      BY <2>1, <3>3
  <2>3. CASE s[n] \notin S
    <3>1. f[n] = x
      BY <2>1, <2>3 DEF Gathered
    <3>2. P(n)
      BY <2>1, <2>3, <3>1
    <3> QED
      BY <2>1, <3>2
  <2> QED
    BY <2>2, <2>3
<1>5. N \in U
  <2> HIDE DEF U
  <2>1. \A n \in 0 .. N : n \in U
    BY <1>2, <1>3, <1>4, BoundedInduction
  <2> QED
    BY <1>2, <2>1
<1>6. P(N) /\ Len(f[N]) \in Nat
  BY <1>1, <1>2, <1>5
<1> QED
  BY <1>1, <1>2, <1>6 DEF N

\* A set that all elements are in.
LEMMA ThoseAll ==
    ASSUME NEW T, NEW s \in Seq(T), NEW S, \A n \in 1 .. Len(s) : s[n] \in S
    PROVE  Those(s, S) = s
<1> DEFINE r == Those(s, S)
<1>1. r \in Seq(T)
  BY ThoseType
<1>2. /\ Len(r) <= Len(s)
      /\ \A i \in 1 .. Len(r) : r[i] = s[i]
      /\ Len(s) # 0 => Len(r) = Len(s)
  BY ThosePrefix
<1> HIDE DEF r
<1>3. r = s
  BY <1>1, <1>2
<1> QED
  BY <1>3 DEF r

\* A set that the last elements are in, and none of the others, selects those.
LEMMA ThoseSuffix ==
    ASSUME NEW T, NEW s \in Seq(T), NEW S,
           \A m, n \in 1 .. Len(s) : m < n /\ s[m] \in S => s[n] \in S
    PROVE  /\ Len(Those(s, S)) <= Len(s)
           /\ \A i \in 1 .. Len(Those(s, S)) :
                 Those(s, S)[i] = s[Len(s) - Len(Those(s, S)) + i]
<1> DEFINE N == Len(s)
<1>1. PICK f \in [0 .. N -> Seq(T)] :
              /\ f[0] = <<>>
              /\ \A n \in 1 .. N : f[n] = Gathered(f[n - 1], s[n], S)
              /\ Those(s, S) = f[N]
  BY ThoseSteps
<1>2. /\ N \in Nat /\ \A n \in 1 .. N : s[n] \in T
      /\ \A m, n \in 1 .. N : m < n /\ s[m] \in S => s[n] \in S
  OBVIOUS
<1> HIDE DEF N
<1> DEFINE P(n) == /\ Len(f[n]) <= n
                   /\ \A i \in 1 .. Len(f[n]) : f[n][i] = s[n - Len(f[n]) + i]
                   /\ Len(f[n]) # 0 => s[n] \in S
           U == {n \in 0 .. N : P(n)}
<1>3. 0 \in U
  BY <1>1, <1>2
<1>4. ASSUME NEW n \in 1 .. N, n - 1 \in U PROVE n \in U
  <2> DEFINE x == f[n - 1]
  <2>1. /\ x \in Seq(T) /\ s[n] \in T /\ n \in 0 .. N
        /\ f[n] = Gathered(x, s[n], S)
        /\ Len(x) <= n - 1
        /\ \A i \in 1 .. Len(x) : x[i] = s[n - 1 - Len(x) + i]
        /\ Len(x) # 0 => s[n - 1] \in S
    BY <1>1, <1>2, <1>4
  <2> HIDE DEF x
  <2>2. CASE s[n] \in S
    <3>1. f[n] = Append(x, s[n])
      BY <2>1, <2>2 DEF Gathered
    <3>2. /\ f[n] \in Seq(T) /\ Len(f[n]) = Len(x) + 1 /\ f[n][Len(x) + 1] = s[n]
          /\ \A i \in 1 .. Len(x) : f[n][i] = x[i]
      BY <2>1, <3>1
    <3>3. \A i \in 1 .. Len(f[n]) : f[n][i] = s[n - Len(f[n]) + i]
      <4>1. ASSUME NEW i \in 1 .. Len(x) PROVE f[n][i] = s[n - Len(f[n]) + i]
        <5>1. n - 1 - Len(x) + i = n - Len(f[n]) + i
          BY <2>1, <3>2
        <5> QED
          BY <2>1, <3>2, <5>1
      <4>2. n - Len(f[n]) + (Len(x) + 1) = n
        BY <2>1, <3>2
      <4> QED
        BY <2>1, <3>2, <4>1, <4>2
    <3>4. P(n)
      BY <2>1, <2>2, <3>2, <3>3
    <3> QED
      BY <2>1, <3>4
  <2>3. CASE s[n] \notin S
    <3>1. f[n] = x
      BY <2>1, <2>3 DEF Gathered
    <3>2. Len(x) = 0
      BY <1>2, <2>1, <2>3
    <3>3. P(n)
      BY <2>1, <3>1, <3>2
    <3> QED
      BY <2>1, <3>3
  <2> QED
    BY <2>2, <2>3
<1>5. N \in U
  <2> HIDE DEF U
  <2>1. \A n \in 0 .. N : n \in U
    BY <1>2, <1>3, <1>4, BoundedInduction
  <2> QED
    BY <1>2, <2>1
<1>6. P(N)
  BY <1>1, <1>2, <1>5
<1> QED
  BY <1>1, <1>2, <1>6 DEF N

-----------------------------------------------------------------------------
(* Column letters.                                                         *)

\* The letters of column n, counted from 1, are those of column Higher(n) and one more.
Higher(n) == (n - 1) \div 26
Lowest(n) == (n - 1) % 26

LEMMA Digits ==
    ASSUME NEW n \in Nat, n # 0
    PROVE  /\ Higher(n) \in 0 .. n - 1 /\ Lowest(n) \in Letter
           /\ Higher(n) * 26 + Lowest(n) + 1 = n
<1> DEFINE m == n - 1
<1>1. m \in Nat
  OBVIOUS
<1> HIDE DEF m
<1>2. PICK q \in Nat : q = m \div 26 /\ q <= m
  BY <1>1
<1>3. PICK r \in 0 .. 25 : r = m % 26
  BY <1>1
<1>4. q * 26 + r = m
  BY <1>1, <1>2, <1>3
<1> QED
  BY <1>1, <1>2, <1>3, <1>4 DEF m, Higher, Lowest, Letter

LEMMA LetterSteps ==
    ASSUME NEW index \in Nat
    PROVE  \E f \in [0 .. index + 1 -> Seq(Letter)] :
              /\ f[0] = <<>>
              /\ \A n \in 1 .. index + 1 :
                    f[n] = Append(f[Higher(n)], Lowest(n))
              /\ ColumnLetter(index) = f[index + 1]
<1> DEFINE N == index + 1
           F(g) == [n \in 0 .. N |->
                      IF n = 0 THEN <<>> ELSE Append(g[Higher(n)], Lowest(n))]
           W == CHOOSE g : g = F(g)
           prev == [n \in 1 .. N |-> Higher(n)]
           step == [n \in 1 .. N |-> [x \in Seq(Letter) |-> Append(x, Lowest(n))]]
<1>1. N \in Nat
  OBVIOUS
<1>2. ColumnLetter(index) = W[N]
  BY DEF ColumnLetter, Higher, Lowest
<1> HIDE DEF N
<1>3. \A n \in 1 .. N : Higher(n) \in 0 .. n - 1 /\ Lowest(n) \in Letter
  BY <1>1, Digits
<1>4. PICK f \in [0 .. N -> Seq(Letter)] : Recursive(f, N, <<>>, prev, step)
  <2>1. \A n \in 1 .. N : prev[n] \in 0 .. n - 1
    BY <1>1, <1>3
  <2>2. \A n \in 1 .. N : \A x \in Seq(Letter) : step[n][x] \in Seq(Letter)
    BY <1>1, <1>3
  <2>3. <<>> \in Seq(Letter)
    OBVIOUS
  <2> HIDE DEF prev, step
  <2> QED
    BY <1>1, <2>1, <2>2, <2>3, RecursiveExists
<1>5. \A n \in 0 .. N : f[n] = IF n = 0 THEN <<>> ELSE Append(f[Higher(n)], Lowest(n))
  <2>1. \A n \in 0 .. N : f[n] = IF n = 0 THEN <<>> ELSE step[n][f[prev[n]]]
    BY <1>4 DEF Recursive
  <2>2. \A n \in 1 .. N, x \in Seq(Letter) : step[n][x] = Append(x, Lowest(n))
    OBVIOUS
  <2>3. \A n \in 1 .. N : prev[n] = Higher(n) /\ f[Higher(n)] \in Seq(Letter)
    BY <1>1, <1>3
  <2> HIDE DEF step, prev
  <2>4. ASSUME NEW n \in 1 .. N
        PROVE  f[n] = Append(f[Higher(n)], Lowest(n))
    <3>1. f[n] = step[n][f[prev[n]]]
      BY <1>1, <2>1
    <3> QED
      BY <2>2, <2>3, <3>1
  <2> QED
    BY <1>1, <2>1, <2>4
<1>6. f = F(f)
  BY <1>5
<1>7. W = F(W)
  <2> HIDE DEF F
  <2> QED
    BY <1>6
<1> HIDE DEF W
<1>8. \A n \in 0 .. N : W[n] = IF n = 0 THEN <<>> ELSE Append(W[Higher(n)], Lowest(n))
  BY <1>7
<1>9. \A n \in 0 .. N : W[n] = f[n]
  <2> DEFINE U == {n \in Nat : n <= N => W[n] = f[n]}
  <2>1. ASSUME NEW n \in Nat, \A m \in 0 .. n - 1 : m \in U PROVE n \in U
    <3>1. CASE n = 0
      BY <1>1, <1>5, <1>8, <3>1
    <3>2. CASE n \in 1 .. N
      <4>1. W[Higher(n)] = f[Higher(n)]
        BY <1>1, <1>3, <2>1, <3>2
      <4>2. W[n] = Append(W[Higher(n)], Lowest(n))
        <5>1. n \in 0 .. N /\ n # 0
          BY <1>1, <3>2
        <5> QED
          BY <1>8, <5>1, Zenon
      <4>3. f[n] = Append(f[Higher(n)], Lowest(n))
        <5>1. n \in 0 .. N /\ n # 0
          BY <1>1, <3>2
        <5> QED
          BY <1>5, <5>1, Zenon
      <4> QED
        BY <4>1, <4>2, <4>3
    <3> QED
      BY <1>1, <3>1, <3>2
  <2> HIDE DEF U
  <2>2. \A n \in Nat : n \in U
    BY <2>1, StrongInduction
  <2> QED
    BY <1>1, <2>2 DEF U
<1>10. f[0] = <<>> /\ \A n \in 1 .. N : f[n] = Append(f[Higher(n)], Lowest(n))
  <2>1. \A n \in 1 .. N : n \in 0 .. N /\ n # 0
    BY <1>1
  <2>2. 0 \in 0 .. N
    BY <1>1
  <2>3. f[0] = <<>>
    BY <1>5, <2>2, Zenon
  <2>4. \A n \in 1 .. N : f[n] = Append(f[Higher(n)], Lowest(n))
    BY <1>5, <2>1, Zenon
  <2> QED
    BY <2>3, <2>4
<1>11. ColumnLetter(index) = f[N]
  BY <1>1, <1>2, <1>9
<1> QED
  BY <1>10, <1>11 DEF N

LEMMA NumberSteps ==
    ASSUME NEW s \in Seq(Letter)
    PROVE  \E f \in [0 .. Len(s) -> Nat] :
              /\ f[0] = 0
              /\ \A n \in 1 .. Len(s) : f[n] = f[n - 1] * 26 + s[n] + 1
              /\ ColumnNumber(s) = f[Len(s)]
<1> DEFINE N == Len(s)
<1>1. N \in Nat /\ \A n \in 1 .. N : s[n] \in Nat
  <2>1. \A n \in 1 .. N : s[n] \in Letter
    OBVIOUS
  <2>2. Letter \subseteq Nat
    BY DEF Letter
  <2>3. N \in Nat
    OBVIOUS
  <2> HIDE DEF N
  <2> QED
    BY <2>1, <2>2, <2>3
<1> DEFINE F(g) == [n \in 0 .. N |-> IF n = 0 THEN 0 ELSE g[n - 1] * 26 + s[n] + 1]
           W == CHOOSE g : g = F(g)
           prev == [n \in 1 .. N |-> n - 1]
           step == [n \in 1 .. N |-> [x \in Nat |-> x * 26 + s[n] + 1]]
<1>2. ColumnNumber(s) = W[N]
  BY DEF ColumnNumber
<1> HIDE DEF N
<1>3. PICK f \in [0 .. N -> Nat] : Recursive(f, N, 0, prev, step)
  <2>1. \A n \in 1 .. N : prev[n] \in 0 .. n - 1
    BY <1>1
  <2>2. \A n \in 1 .. N : \A x \in Nat : step[n][x] \in Nat
    BY <1>1
  <2> HIDE DEF prev, step
  <2> QED
    BY <1>1, <2>1, <2>2, RecursiveExists
<1>4. \A n \in 0 .. N : f[n] = IF n = 0 THEN 0 ELSE f[n - 1] * 26 + s[n] + 1
  <2>1. \A n \in 0 .. N : f[n] = IF n = 0 THEN 0 ELSE step[n][f[prev[n]]]
    BY <1>3 DEF Recursive
  <2>2. \A n \in 1 .. N, x \in Nat : step[n][x] = x * 26 + s[n] + 1
    OBVIOUS
  <2>3. \A n \in 1 .. N : prev[n] = n - 1 /\ f[n - 1] \in Nat
    BY <1>1
  <2> HIDE DEF step, prev
  <2>4. ASSUME NEW n \in 1 .. N PROVE f[n] = f[n - 1] * 26 + s[n] + 1
    <3>1. f[n] = step[n][f[prev[n]]]
      BY <1>1, <2>1
    <3> QED
      BY <2>2, <2>3, <3>1
  <2> QED
    BY <1>1, <2>1, <2>4
<1>5. f = F(f)
  BY <1>4
<1>6. W = F(W)
  <2> HIDE DEF F
  <2> QED
    BY <1>5
<1> HIDE DEF W
<1>7. \A n \in 0 .. N : W[n] = IF n = 0 THEN 0 ELSE W[n - 1] * 26 + s[n] + 1
  BY <1>6
<1>8. \A n \in 0 .. N : W[n] = f[n]
  <2> DEFINE U == {n \in 0 .. N : W[n] = f[n]}
  <2>1. 0 \in U
    BY <1>1, <1>4, <1>7
  <2>2. \A n \in 1 .. N : n - 1 \in U => n \in U
    BY <1>1, <1>4, <1>7
  <2> HIDE DEF U
  <2>3. \A n \in 0 .. N : n \in U
    BY <1>1, <2>1, <2>2, BoundedInduction
  <2> QED
    BY <2>3 DEF U
<1>9. f[0] = 0 /\ \A n \in 1 .. N : f[n] = f[n - 1] * 26 + s[n] + 1
  BY <1>1, <1>4
<1> QED
  BY <1>1, <1>2, <1>8, <1>9 DEF N

\* A letter more is a digit more.
LEMMA NumberAppend ==
    ASSUME NEW s \in Seq(Letter), NEW d \in Letter
    PROVE  ColumnNumber(Append(s, d)) = ColumnNumber(s) * 26 + d + 1
<1> DEFINE N == Len(s)
           r == Append(s, d)
<1>1. /\ r \in Seq(Letter) /\ Len(r) = N + 1 /\ N \in Nat
      /\ r[N + 1] = d /\ \A i \in 1 .. N : r[i] = s[i]
  OBVIOUS
<1>t. \A i \in 1 .. N : s[i] \in Nat
  <2>1. \A i \in 1 .. Len(s) : s[i] \in Letter
    OBVIOUS
  <2>2. Letter \subseteq Nat
    BY DEF Letter
  <2> QED
    BY <2>1, <2>2
<1> HIDE DEF r, N
<1>2. PICK f \in [0 .. N -> Nat] :
              /\ f[0] = 0
              /\ \A n \in 1 .. N : f[n] = f[n - 1] * 26 + s[n] + 1
              /\ ColumnNumber(s) = f[N]
  BY NumberSteps DEF N
<1>3. PICK g \in [0 .. N + 1 -> Nat] :
              /\ g[0] = 0
              /\ \A n \in 1 .. N + 1 : g[n] = g[n - 1] * 26 + r[n] + 1
              /\ ColumnNumber(r) = g[N + 1]
  BY <1>1, NumberSteps
<1> DEFINE U == {n \in 0 .. N : f[n] = g[n]}
<1>4. 0 \in U
  BY <1>1, <1>2, <1>3
<1>5. \A n \in 1 .. N : n - 1 \in U => n \in U
  BY <1>1, <1>t, <1>2, <1>3
<1>6. f[N] = g[N]
  <2> HIDE DEF U
  <2>1. \A n \in 0 .. N : n \in U
    BY <1>1, <1>4, <1>5, BoundedInduction
  <2> QED
    BY <1>1, <2>1 DEF U
<1>7. g[N + 1] = g[N] * 26 + d + 1
  BY <1>1, <1>3
<1> QED
  BY <1>2, <1>3, <1>6, <1>7 DEF r

\* The letters of a column are those of its number: get_column_index undoes
\* get_column_letter, for every column.
THEOREM LetterNumber ==
    ASSUME NEW index \in Nat
    PROVE  ColumnLetter(index) \in Seq(Letter) /\ ColumnNumber(ColumnLetter(index)) = index + 1
<1> DEFINE N == index + 1
<1>1. PICK f \in [0 .. N -> Seq(Letter)] :
              /\ f[0] = <<>>
              /\ \A n \in 1 .. N : f[n] = Append(f[Higher(n)], Lowest(n))
              /\ ColumnLetter(index) = f[N]
  BY LetterSteps
<1>2. ColumnNumber(<<>>) = 0
  <2>1. <<>> \in Seq(Letter) /\ Len(<<>>) = 0
    OBVIOUS
  <2> QED
    BY <2>1, NumberSteps
<1>n. N \in Nat
  OBVIOUS
<1> HIDE DEF N
<1> DEFINE U == {n \in Nat : n <= N => ColumnNumber(f[n]) = n}
<1>3. ASSUME NEW n \in Nat, \A m \in 0 .. n - 1 : m \in U PROVE n \in U
  <2>1. CASE n = 0
    BY <1>1, <1>2, <1>n, <2>1
  <2>2. CASE n \in 1 .. N
    <3> DEFINE m == Higher(n)
               d == Lowest(n)
    <3>1. m \in 0 .. n - 1 /\ d \in Letter /\ m * 26 + d + 1 = n
      <4>1. n # 0
        BY <2>2
      <4> QED
        BY <4>1, Digits
    <3>2. f[n] = Append(f[m], d)
      BY <1>1, <2>2
    <3> HIDE DEF m, d
    <3>3. ColumnNumber(f[m]) = m
      BY <1>n, <1>3, <2>2, <3>1
    <3>4. f[m] \in Seq(Letter)
      BY <1>1, <1>n, <2>2, <3>1
    <3>5. ColumnNumber(f[n]) = n
      BY <3>1, <3>2, <3>3, <3>4, NumberAppend
    <3> QED
      BY <3>5
  <2> QED
    BY <1>n, <2>1, <2>2
<1>4. N \in U
  <2> HIDE DEF U
  <2>1. \A n \in Nat : n \in U
    BY <1>3, StrongInduction
  <2> QED
    BY <1>n, <2>1
<1>5. ColumnNumber(f[N]) = N /\ f[N] \in Seq(Letter)
  BY <1>1, <1>n, <1>4
<1> QED
  BY <1>1, <1>5 DEF N

-----------------------------------------------------------------------------
(* The columns of a mapping.                                               *)

LEMMA PlacedType ==
    ASSUME NEW map \in Seq(Definition), NEW d \in Definition
    PROVE  Placed(map, d) \in Seq(Definition)
<1>1. CASE \E n \in DOMAIN map : map[n].sheet = d.sheet
  <2>1. Placed(map, d) = [n \in DOMAIN map |-> IF map[n].sheet = d.sheet THEN d ELSE map[n]]
    BY <1>1 DEF Placed
  <2>2. ASSUME NEW n \in 1 .. Len(map)
        PROVE  (IF map[n].sheet = d.sheet THEN d ELSE map[n]) \in Definition
    OBVIOUS
  <2> QED
    BY <2>1, <2>2
<1>2. CASE ~ \E n \in DOMAIN map : map[n].sheet = d.sheet
  BY <1>2 DEF Placed
<1> QED
  BY <1>1, <1>2

LEMMA CompleteType ==
    ASSUME NEW cols \in Seq(Definition)
    PROVE  /\ Complete(cols) \in Seq(Definition)
           /\ \A n \in DOMAIN Complete(cols) :
                 Complete(cols)[n].sheet # <<>> /\ Complete(cols)[n].db \in Fields
<1> DEFINE S == {d \in {cols[n] : n \in DOMAIN cols} : d.sheet # <<>> /\ d.db # NoField}
           all == Those(cols, S)
<1>1. Complete(cols) = all
  BY DEF Complete
<1> HIDE DEF S
<1>2. all \in Seq(Definition) /\ \A n \in DOMAIN all : all[n] \in S
  BY ThoseType
<1> HIDE DEF all
<1>3. ASSUME NEW n \in DOMAIN all PROVE all[n].sheet # <<>> /\ all[n].db \in Fields
  <2>1. all[n].sheet # <<>> /\ all[n].db # NoField
    BY <1>2 DEF S
  <2>2. all[n] \in Definition
    BY <1>2
  <2> QED
    BY <2>1, <2>2 DEF Definition
<1> QED
  BY <1>1, <1>2, <1>3

LEMMA ColumnMapSteps ==
    ASSUME NEW cols \in Seq(Definition)
    PROVE  \E f \in [0 .. Len(Complete(cols)) -> Seq(Definition)] :
              /\ f[0] = <<>>
              /\ \A n \in 1 .. Len(Complete(cols)) :
                    f[n] = Placed(f[n - 1], Complete(cols)[n])
              /\ ColumnMap(cols) = f[Len(Complete(cols))]
<1> DEFINE all == Complete(cols)
           N == Len(all)
           F(g) == [n \in 0 .. N |-> IF n = 0 THEN <<>> ELSE Placed(g[n - 1], all[n])]
           W == CHOOSE g : g = F(g)
           prev == [n \in 1 .. N |-> n - 1]
           step == [n \in 1 .. N |-> [x \in Seq(Definition) |-> Placed(x, all[n])]]
<1>0. all \in Seq(Definition)
  BY CompleteType
<1>2. ColumnMap(cols) = W[N]
  BY DEF ColumnMap
<1> HIDE DEF all
<1>1. N \in Nat /\ \A n \in 1 .. N : all[n] \in Definition
  BY <1>0
<1> HIDE DEF N
<1>3. PICK f \in [0 .. N -> Seq(Definition)] : Recursive(f, N, <<>>, prev, step)
  <2>1. \A n \in 1 .. N : prev[n] \in 0 .. n - 1
    BY <1>1
  <2>2. \A n \in 1 .. N : \A x \in Seq(Definition) : step[n][x] \in Seq(Definition)
    BY <1>1, PlacedType
  <2>3. <<>> \in Seq(Definition)
    OBVIOUS
  <2> HIDE DEF prev, step
  <2> QED
    BY <1>1, <2>1, <2>2, <2>3, RecursiveExists
<1>4. \A n \in 0 .. N : f[n] = IF n = 0 THEN <<>> ELSE Placed(f[n - 1], all[n])
  <2>1. \A n \in 0 .. N : f[n] = IF n = 0 THEN <<>> ELSE step[n][f[prev[n]]]
    BY <1>3 DEF Recursive
  <2>2. \A n \in 1 .. N, x \in Seq(Definition) : step[n][x] = Placed(x, all[n])
    OBVIOUS
  <2>3. \A n \in 1 .. N : prev[n] = n - 1 /\ f[n - 1] \in Seq(Definition)
    BY <1>1
  <2> HIDE DEF step, prev
  <2>4. ASSUME NEW n \in 1 .. N PROVE f[n] = Placed(f[n - 1], all[n])
    <3>1. f[n] = step[n][f[prev[n]]]
      BY <1>1, <2>1
    <3> QED
      BY <2>2, <2>3, <3>1
  <2> QED
    BY <1>1, <2>1, <2>4
<1>5. f = F(f)
  BY <1>4
<1>6. W = F(W)
  <2> HIDE DEF F
  <2> QED
    BY <1>5
<1> HIDE DEF W
<1>7. \A n \in 0 .. N : W[n] = IF n = 0 THEN <<>> ELSE Placed(W[n - 1], all[n])
  BY <1>6
<1>8. \A n \in 0 .. N : W[n] = f[n]
  <2> DEFINE U == {n \in 0 .. N : W[n] = f[n]}
  <2>1. 0 \in U
    BY <1>1, <1>4, <1>7
  <2>2. \A n \in 1 .. N : n - 1 \in U => n \in U
    BY <1>1, <1>4, <1>7
  <2> HIDE DEF U
  <2>3. \A n \in 0 .. N : n \in U
    BY <1>1, <2>1, <2>2, BoundedInduction
  <2> QED
    BY <2>3 DEF U
<1>9. f[0] = <<>> /\ \A n \in 1 .. N : f[n] = Placed(f[n - 1], all[n])
  BY <1>1, <1>4
<1>10. ColumnMap(cols) = f[N]
  BY <1>1, <1>2, <1>8
<1> QED
  BY <1>9, <1>10 DEF N, all

LEMMA ColumnMapType ==
    ASSUME NEW cols \in Seq(Definition)
    PROVE  ColumnMap(cols) \in Seq(Definition)
<1>1. Len(Complete(cols)) \in Nat
  BY CompleteType
<1> QED
  BY <1>1, ColumnMapSteps

\* Of complete definitions with letters of their own _init_column_map drops none.
LEMMA ColumnMapWhole ==
    ASSUME NEW cols \in Seq(Definition),
           \A n \in DOMAIN cols : cols[n].sheet # <<>> /\ cols[n].db # NoField,
           \A m, n \in DOMAIN cols : cols[m].sheet = cols[n].sheet => m = n
    PROVE  Complete(cols) = cols /\ ColumnMap(cols) = cols
<1>1. Complete(cols) = cols
  <2> DEFINE S == {d \in {cols[n] : n \in DOMAIN cols} : d.sheet # <<>> /\ d.db # NoField}
  <2>1. \A n \in 1 .. Len(cols) : cols[n] \in S
    OBVIOUS
  <2>2. Complete(cols) = Those(cols, S)
    BY DEF Complete
  <2> HIDE DEF S
  <2> QED
    BY <2>1, <2>2, ThoseAll
<1> DEFINE N == Len(cols)
<1>2. /\ N \in Nat /\ \A n \in 1 .. N : cols[n] \in Definition
      /\ \A m, n \in 1 .. N : cols[m].sheet = cols[n].sheet => m = n
  OBVIOUS
<1>3. PICK f \in [0 .. N -> Seq(Definition)] :
              /\ f[0] = <<>>
              /\ \A n \in 1 .. N : f[n] = Placed(f[n - 1], cols[n])
              /\ ColumnMap(cols) = f[N]
  BY <1>1, ColumnMapSteps
<1> HIDE DEF N
<1> DEFINE P(n) == Len(f[n]) = n /\ \A i \in 1 .. n : f[n][i] = cols[i]
           U == {n \in 0 .. N : P(n)}
<1>4. 0 \in U
  BY <1>2, <1>3
<1>5. ASSUME NEW n \in 1 .. N, n - 1 \in U PROVE n \in U
  <2> DEFINE x == f[n - 1]
  <2>1. /\ x \in Seq(Definition) /\ n \in 0 .. N /\ Len(x) = n - 1
        /\ \A i \in 1 .. n - 1 : x[i] = cols[i]
        /\ f[n] = Placed(x, cols[n])
    BY <1>2, <1>3, <1>5
  <2> HIDE DEF x
  <2>2. ~ \E i \in DOMAIN x : x[i].sheet = cols[n].sheet
    <3> SUFFICES ASSUME NEW i \in 1 .. n - 1, x[i].sheet = cols[n].sheet PROVE FALSE
      BY <2>1
    <3>1. i \in 1 .. N /\ i # n
      BY <1>2
    <3>2. cols[i].sheet = cols[n].sheet
      BY <2>1
    <3> QED
      BY <1>2, <3>1, <3>2
  <2>3. f[n] = Append(x, cols[n])
    BY <2>1, <2>2 DEF Placed
  <2>4. P(n)
    BY <2>1, <2>3
  <2> QED
    BY <2>1, <2>4
<1>6. N \in U
  <2> HIDE DEF U
  <2>1. \A n \in 0 .. N : n \in U
    BY <1>2, <1>4, <1>5, BoundedInduction
  <2> QED
    BY <1>2, <2>1
<1>7. f[N] = cols
  <2>1. f[N] \in Seq(Definition) /\ Len(f[N]) = N /\ \A i \in 1 .. N : f[N][i] = cols[i]
    BY <1>2, <1>3, <1>6
  <2> QED
    BY <2>1 DEF N
<1> QED
  BY <1>1, <1>3, <1>7

-----------------------------------------------------------------------------
(* Rows.                                                                   *)

LEMMA SheetRowType ==
    ASSUME NEW cols \in Seq(Definition), NEW width \in Nat
    PROVE  SheetRowToDbRow(cols, width) \in [Fields -> Nat]
<1> DEFINE map == ColumnMap(cols)
           For(f) == {n \in DOMAIN map : map[n].db = f /\ ToTable(map[n])
                                         /\ Zipped(map, n) <= width}
           Value(f) == IF For(f) = {} THEN 0
                       ELSE Zipped(map, CHOOSE n \in For(f) : \A m \in For(f) : m <= n)
<1>1. SheetRowToDbRow(cols, width) = [f \in Fields |-> Value(f)]
  BY DEF SheetRowToDbRow
<1>2. map \in Seq(Definition)
  BY ColumnMapType
<1> HIDE DEF map
<1>3. ASSUME NEW f \in Fields PROVE Value(f) \in Nat
  <2> DEFINE D == {width - n : n \in For(f)}
  <2>1. For(f) \subseteq Nat /\ \A n \in For(f) : n <= width
    BY <1>2 DEF Zipped
  <2> HIDE DEF For
  <2>2. CASE For(f) = {}
    BY <2>2
  <2>3. CASE For(f) # {}
    <3>1. D \subseteq Nat /\ D # {}
      BY <2>1, <2>3
    <3> HIDE DEF D
    <3>2. PICK d \in D : \A e \in D : d <= e
      BY <3>1, LeastElement
    <3>3. \E n \in For(f) : \A m \in For(f) : m <= n
      <4>1. PICK n \in For(f) : d = width - n
        BY <3>2 DEF D
      <4>2. \A m \in For(f) : width - m \in D
        BY DEF D
      <4> QED
        BY <2>1, <3>2, <4>1, <4>2
    <3>4. (CHOOSE n \in For(f) : \A m \in For(f) : m <= n) \in For(f)
      BY <3>3
    <3> QED
      BY <2>1, <2>3, <3>4 DEF Zipped
  <2> QED
    BY <2>2, <2>3
<1> QED
  BY <1>1, <1>3

\* Of columns that each have a table column of their own, the n-th gets the n-th
\* cell or none.
LEMMA CellOfColumn ==
    ASSUME NEW cols \in Seq(Definition), NEW width \in Nat,
           ColumnMap(cols) = cols,
           Distinct(cols, LAMBDA d : d.db),
           NEW n \in DOMAIN cols, cols[n].db \in Fields
    PROVE  SheetRowToDbRow(cols, width)[cols[n].db] \in {0, n}
<1> DEFINE For(f) == {i \in DOMAIN cols : cols[i].db = f /\ ToTable(cols[i])
                                          /\ Zipped(cols, i) <= width}
           f == cols[n].db
<1>1. SheetRowToDbRow(cols, width) =
         [g \in Fields |->
            IF For(g) = {} THEN 0
            ELSE Zipped(cols, CHOOSE i \in For(g) : \A m \in For(g) : m <= i)]
  BY DEF SheetRowToDbRow
<1>2. For(f) \subseteq {n}
  BY DEF Distinct
<1>3. n \in Nat
  OBVIOUS
<1>4. SheetRowToDbRow(cols, width)[f] =
         IF For(f) = {} THEN 0
         ELSE Zipped(cols, CHOOSE i \in For(f) : \A m \in For(f) : m <= i)
  BY <1>1
<1> HIDE DEF For, f
<1>5. For(f) = {} \/ For(f) = {n}
  BY <1>2
<1>6. CASE For(f) = {n}
  <2>1. (CHOOSE i \in For(f) : \A m \in For(f) : m <= i) = n
    BY <1>3, <1>6
  <2> QED
    BY <1>4, <1>6, <2>1 DEF Zipped, f
<1> QED
  BY <1>4, <1>5, <1>6 DEF f

LEMMA DbRowType ==
    ASSUME NEW cols, NEW row \in [Fields -> Nat], NEW names \in Seq(Fields)
    PROVE  DbRowToSheetRow(cols, row, names) \in Seq(Nat)
<1> DEFINE S == {f \in Fields : \E d \in SheetColumnOf(cols, f) : Returns(d)}
           back == Those(names, S)
<1>1. DbRowToSheetRow(cols, row, names) = [n \in DOMAIN back |-> row[back[n]]]
  BY DEF DbRowToSheetRow
<1> HIDE DEF S
<1>2. back \in Seq(Fields)
  BY ThoseType
<1> HIDE DEF back
<1> QED
  BY <1>1, <1>2

\* What the zip does with the letters the write undoes.
LEMMA RowGoesBack ==
    ASSUME NEW cols \in Seq(Definition), NEW width \in Nat,
           Complete(cols) = cols, ColumnMap(cols) = cols,
           Distinct(cols, LAMBDA d : d.db),
           \A n \in DOMAIN cols : cols[n].db \in Fields,
           \A m, n \in DOMAIN cols : m < n /\ Returns(cols[n]) => Returns(cols[m])
    PROVE  LET out1 == DbRowToSheetRow(cols, SheetRowToDbRow(cols, width), TableOf(cols))
           IN  \A n \in DOMAIN out1 : out1[n] \in {0, n}
<1> DEFINE S == {f \in Fields : \E d \in SheetColumnOf(cols, f) : Returns(d)}
           names == TableOf(cols)
           row == SheetRowToDbRow(cols, width)
           back == Those(names, S)
<1>1. /\ names \in Seq(Fields) /\ Len(names) = Len(cols)
      /\ \A n \in 1 .. Len(cols) : names[n] = cols[n].db
  BY DEF TableOf
<1>2. ASSUME NEW n \in 1 .. Len(cols) PROVE names[n] \in S <=> Returns(cols[n])
  <2> DEFINE at == {i \in DOMAIN cols : cols[i].db = names[n]}
  <2>1. at = {n}
    BY <1>1 DEF Distinct
  <2>2. SheetColumnOf(cols, names[n]) = {cols[i] : i \in {m \in at : \A k \in at : m <= k}}
    BY DEF SheetColumnOf
  <2> HIDE DEF at
  <2>3. n \in Nat
    OBVIOUS
  <2>4. {m \in at : \A k \in at : m <= k} = {n}
    BY <2>1, <2>3
  <2>5. SheetColumnOf(cols, names[n]) = {cols[n]}
    BY <2>2, <2>4
  <2>6. names[n] \in Fields
    BY <1>1
  <2> QED
    BY <2>5, <2>6
<1>3. DbRowToSheetRow(cols, row, names) = [n \in DOMAIN back |-> row[back[n]]]
  BY DEF DbRowToSheetRow
<1> HIDE DEF S, names
<1>4. \A m, n \in 1 .. Len(names) : m < n /\ names[n] \in S => names[m] \in S
  BY <1>1, <1>2
<1>5. /\ Len(back) <= Len(names)
      /\ \A i \in 1 .. Len(back) : back[i] = names[i]
  BY <1>1, <1>4, ThosePrefix
<1>6. back \in Seq(Fields)
  BY <1>1, ThoseType
<1> HIDE DEF back, row
<1>7. ASSUME NEW n \in DOMAIN back PROVE row[back[n]] \in {0, n}
  <2>1. n \in DOMAIN cols /\ back[n] = cols[n].db
    BY <1>1, <1>5, <1>6
  <2>2. row[cols[n].db] \in {0, n}
    BY <2>1, CellOfColumn DEF row
  <2> QED
    BY <2>1, <2>2
<1> QED
  BY <1>3, <1>7 DEF names, row

-----------------------------------------------------------------------------
(* The proposed mapping.                                                   *)

\* What is known of the columns proposed for a sheet and of the columns of the
\* headers they were proposed for.
IsProposal(cols, from) ==
    /\ Len(cols) = Len(from)
    /\ \A n \in 1 .. Len(cols) : cols[n].db \in Fields /\ cols[n].direction = "bidirectional"
    /\ Distinct(cols, LAMBDA d : d.db)
    /\ \A n \in 1 .. Len(cols) : ColumnNumber(cols[n].sheet) = from[n] + 1
    /\ \A m, n \in 1 .. Len(from) : m < n => from[m] < from[n]

\* What is known of what is held after some headers, the last in column place.
IsProgress(r, text, place) ==
    /\ r \in [used : SUBSET Texts, cols : Seq(Definition), from : Seq(Nat)]
    /\ IsProposal(r.cols, r.from)
    /\ \A n \in 1 .. Len(r.cols) : text[r.cols[n].db] \in r.used
    /\ \A n \in 1 .. Len(r.from) : r.from[n] <= place

LEMMA FoundUnused ==
    ASSUME NEW header, NEW names, NEW used
    PROVE  \A i \in Found(header, names, used) :
              i \in DOMAIN names /\ names[i].text \notin used
BY DEF Found, Matches, Unused

LEMMA SuggestedProgress ==
    ASSUME NEW text \in [Fields -> Texts], NEW place \in Nat, NEW f \in Fields,
           NEW b \in BOOLEAN, NEW r, place > 0,
           IsProgress(r, text, place - 1), text[f] \notin r.used
    PROVE  IsProgress(Suggested(r, place, [name |-> f, text |-> text[f], key |-> b]), text, place)
<1> DEFINE d == [sheet |-> ColumnLetter(place), db |-> f,
                 direction |-> "bidirectional", key |-> b]
           t == text[f]
           cols == Append(r.cols, d)
           from == Append(r.from, place)
           used == r.used \cup {t}
           N == Len(r.cols)
<1>1. Suggested(r, place, [name |-> f, text |-> t, key |-> b]) =
         [used |-> used, cols |-> cols, from |-> from]
  BY DEF Suggested
<1>2. /\ d \in Definition /\ d.db = f /\ d.sheet = ColumnLetter(place)
      /\ d.direction = "bidirectional"
      /\ ColumnNumber(d.sheet) = place + 1
  BY LetterNumber DEF Definition, Directions
<1>3. /\ r.used \subseteq Texts /\ r.cols \in Seq(Definition) /\ r.from \in Seq(Nat)
      /\ IsProposal(r.cols, r.from)
      /\ \A n \in 1 .. Len(r.cols) : text[r.cols[n].db] \in r.used
      /\ \A n \in 1 .. Len(r.from) : r.from[n] <= place - 1
  BY DEF IsProgress
<1>4. /\ N \in Nat /\ Len(r.from) = N
      /\ \A n \in 1 .. N : r.cols[n].db \in Fields /\ r.cols[n].direction = "bidirectional"
      /\ \A m, n \in 1 .. N : r.cols[m].db = r.cols[n].db => m = n
      /\ \A n \in 1 .. N : ColumnNumber(r.cols[n].sheet) = r.from[n] + 1
      /\ \A m, n \in 1 .. N : m < n => r.from[m] < r.from[n]
  <2>1. DOMAIN r.cols = 1 .. N /\ N \in Nat
    BY <1>3
  <2>2. \A m, n \in 1 .. N : r.cols[m].db = r.cols[n].db => m = n
    BY <1>3, <2>1 DEF IsProposal, Distinct
  <2> HIDE DEF N
  <2> QED
    BY <1>3, <2>1, <2>2 DEF IsProposal, N
<1>5. t \in Texts /\ t \notin r.used
  OBVIOUS
<1> HIDE DEF d
<1>6. /\ cols \in Seq(Definition) /\ Len(cols) = N + 1 /\ cols[N + 1] = d
      /\ \A n \in 1 .. N : cols[n] = r.cols[n]
  BY <1>2, <1>3
<1>7. /\ from \in Seq(Nat) /\ Len(from) = N + 1 /\ from[N + 1] = place
      /\ \A n \in 1 .. N : from[n] = r.from[n] /\ from[n] \in Nat
  BY <1>3, <1>4
<1>8. used \subseteq Texts /\ r.used \subseteq used /\ t \in used
  BY <1>3, <1>5
<1>9. \A n \in 1 .. N : text[r.cols[n].db] \in r.used
  BY <1>3
<1>10. \A n \in 1 .. N : r.cols[n].db # f
  BY <1>5, <1>9
<1>11. \A n \in 1 .. N : from[n] < place
  BY <1>3, <1>4, <1>7
<1> HIDE DEF cols, from, used, N
<1>12. \A n \in 1 .. N + 1 : n \in 1 .. N \/ n = N + 1
  BY <1>4
<1>13. IsProposal(cols, from)
  <2>1. \A n \in 1 .. Len(cols) :
           cols[n].db \in Fields /\ cols[n].direction = "bidirectional"
    BY <1>2, <1>4, <1>6, <1>12
  <2>2. Distinct(cols, LAMBDA e : e.db)
    <3>1. ASSUME NEW m \in 1 .. N + 1, NEW n \in 1 .. N + 1, cols[m].db = cols[n].db
          PROVE  m = n
      <4>1. CASE m \in 1 .. N /\ n \in 1 .. N
        BY <1>4, <1>6, <3>1, <4>1
      <4>2. CASE m = N + 1 /\ n \in 1 .. N
        BY <1>2, <1>6, <1>10, <3>1, <4>2
      <4>3. CASE n = N + 1 /\ m \in 1 .. N
        BY <1>2, <1>6, <1>10, <3>1, <4>3
      <4> QED
        BY <1>12, <4>1, <4>2, <4>3
    <3>2. DOMAIN cols = 1 .. N + 1
      BY <1>6
    <3> QED
      BY <3>1, <3>2 DEF Distinct
  <2>3. \A n \in 1 .. Len(cols) : ColumnNumber(cols[n].sheet) = from[n] + 1
    <3>1. ASSUME NEW n \in 1 .. N + 1 PROVE ColumnNumber(cols[n].sheet) = from[n] + 1
      <4>1. CASE n \in 1 .. N
        BY <1>4, <1>6, <1>7, <4>1
      <4>2. CASE n = N + 1
        BY <1>2, <1>6, <1>7, <4>2
      <4> QED
        BY <1>12, <4>1, <4>2
    <3> QED
      BY <1>6, <3>1
  <2>4. \A m, n \in 1 .. Len(from) : m < n => from[m] < from[n]
    <3>1. ASSUME NEW m \in 1 .. N + 1, NEW n \in 1 .. N + 1, m < n PROVE from[m] < from[n]
      <4>1. m \in 1 .. N
        BY <1>4, <3>1
      <4>2. CASE n \in 1 .. N
        BY <1>4, <1>7, <3>1, <4>1, <4>2
      <4>3. CASE n = N + 1
        BY <1>7, <1>11, <4>1, <4>3
      <4> QED
        BY <1>12, <4>2, <4>3
    <3> QED
      BY <1>7, <3>1
  <2> QED
    BY <1>6, <1>7, <2>1, <2>2, <2>3, <2>4 DEF IsProposal
<1>14. \A n \in 1 .. Len(cols) : text[cols[n].db] \in used
  BY <1>2, <1>6, <1>8, <1>9, <1>12
<1>15. \A n \in 1 .. Len(from) : from[n] <= place
  BY <1>7, <1>11, <1>12
<1> DEFINE q == [used |-> used, cols |-> cols, from |-> from]
<1>16. /\ q \in [used : SUBSET Texts, cols : Seq(Definition), from : Seq(Nat)]
       /\ q.used = used /\ q.cols = cols /\ q.from = from
  BY <1>6, <1>7, <1>8
<1> HIDE DEF q
<1>17. IsProgress(q, text, place)
  BY <1>13, <1>14, <1>15, <1>16 DEF IsProgress
<1> QED
  BY <1>1, <1>17 DEF q

\* How the columns for the headers are proposed, one after the other.
LEMMA ProposalStep ==
    ASSUME NEW text \in [Fields -> Texts], NEW names,
           \A i \in DOMAIN names :
              \E f \in Fields, b \in BOOLEAN :
                 names[i] = [name |-> f, text |-> text[f], key |-> b],
           NEW place \in Nat, place > 0, NEW header, NEW r,
           IsProgress(r, text, place - 1)
    PROVE  IsProgress(Extended(r, header, place, names), text, place)
<1> DEFINE found == Found(header, names, r.used)
           i == CHOOSE j \in found : TRUE
<1>1. CASE found = {}
  <2>1. Extended(r, header, place, names) = r
    BY <1>1 DEF Extended
  <2>2. r.from \in Seq(Nat)
    BY DEF IsProgress
  <2>3. \A n \in 1 .. Len(r.from) : r.from[n] <= place
    <3> SUFFICES ASSUME NEW n \in 1 .. Len(r.from) PROVE r.from[n] <= place
      OBVIOUS
    <3>1. r.from[n] \in Nat /\ r.from[n] <= place - 1
      BY <2>2 DEF IsProgress
    <3> QED
      BY <3>1
  <2> QED
    BY <2>1, <2>3 DEF IsProgress
<1>2. CASE found # {}
  <2>1. i \in found
    BY <1>2
  <2>2. Extended(r, header, place, names) = Suggested(r, place, names[i])
    BY <1>2 DEF Extended
  <2>3. \A j \in found : j \in DOMAIN names /\ names[j].text \notin r.used
    BY FoundUnused
  <2> HIDE DEF i, found
  <2>4. i \in DOMAIN names /\ names[i].text \notin r.used
    BY <2>1, <2>3
  <2>5. PICK f \in Fields, b \in BOOLEAN :
           names[i] = [name |-> f, text |-> text[f], key |-> b]
    BY <2>4
  <2>6. text[f] \notin r.used
    BY <2>4, <2>5
  <2> QED
    BY <2>2, <2>5, <2>6, SuggestedProgress
<1> QED
  BY <1>1, <1>2

LEMMA ExtendedType ==
    ASSUME NEW text \in [Fields -> Texts], NEW names,
           \A i \in DOMAIN names :
              \E f \in Fields, b \in BOOLEAN :
                 names[i] = [name |-> f, text |-> text[f], key |-> b],
           NEW place \in Nat, NEW header,
           NEW r \in [used : SUBSET Texts, cols : Seq(Definition), from : Seq(Nat)]
    PROVE  Extended(r, header, place, names)
              \in [used : SUBSET Texts, cols : Seq(Definition), from : Seq(Nat)]
<1> DEFINE found == Found(header, names, r.used)
           i == CHOOSE j \in found : TRUE
<1>1. CASE found = {}
  BY <1>1 DEF Extended
<1>2. CASE found # {}
  <2>1. i \in found
    BY <1>2
  <2>2. Extended(r, header, place, names) = Suggested(r, place, names[i])
    BY <1>2 DEF Extended
  <2>3. \A j \in found : j \in DOMAIN names
    BY FoundUnused
  <2> HIDE DEF i, found
  <2>4. PICK f \in Fields, b \in BOOLEAN :
           names[i] = [name |-> f, text |-> text[f], key |-> b]
    BY <2>1, <2>3
  <2> DEFINE d == [sheet |-> ColumnLetter(place), db |-> f,
                   direction |-> "bidirectional", key |-> b]
  <2>5. d \in Definition
    BY LetterNumber DEF Definition, Directions
  <2>6. Suggested(r, place, names[i]) =
           [used |-> r.used \cup {text[f]}, cols |-> Append(r.cols, d),
            from |-> Append(r.from, place)]
    BY <2>4 DEF Suggested
  <2> HIDE DEF d
  <2>7. /\ r.used \cup {text[f]} \in SUBSET Texts /\ Append(r.cols, d) \in Seq(Definition)
        /\ Append(r.from, place) \in Seq(Nat)
    BY <2>5
  <2> QED
    BY <2>2, <2>6, <2>7
<1> QED
  BY <1>1, <1>2

\* A proposal for any headers, table and names.
LEMMA ProposedProgress ==
    ASSUME NEW text \in [Fields -> Texts], NEW names,
           \A i \in DOMAIN names :
              \E f \in Fields, b \in BOOLEAN :
                 names[i] = [name |-> f, text |-> text[f], key |-> b],
           NEW offset \in Nat, NEW T, NEW headers \in Seq(T)
    PROVE  IsProgress(Proposed(headers, offset, names), text, offset + Len(headers))
<1> DEFINE N == Len(headers)
           A == [used : SUBSET Texts, cols : Seq(Definition), from : Seq(Nat)]
           Start == [used |-> {}, cols |-> <<>>, from |-> <<>>]
           Body(x, n) == Extended(x, headers[n], offset + n, names)
<1>1. N \in Nat
  OBVIOUS
<1>s. Start \in A /\ Start.cols = <<>> /\ Start.from = <<>>
  OBVIOUS
<1>t. ASSUME NEW n \in 1 .. N, NEW x \in A PROVE Body(x, n) \in A
  <2>1. offset + n \in Nat
    BY <1>1
  <2>2. Extended(x, headers[n], offset + n, names) \in A
    <3> HIDE DEF Body, Start
    <3> QED
      BY <2>1, ExtendedType
  <2> QED
    BY <2>2
<1>u. ASSUME NEW n \in 1 .. N, NEW x, IsProgress(x, text, offset + (n - 1))
      PROVE  IsProgress(Body(x, n), text, offset + n)
  <2> DEFINE place == offset + n
             header == headers[n]
  <2>1. place \in Nat /\ place > 0 /\ place - 1 = offset + (n - 1)
    BY <1>1
  <2>2. IsProgress(x, text, place - 1)
    BY <1>u, <2>1
  <2>3. IsProgress(Extended(x, header, place, names), text, place)
    <3> HIDE DEF Body, Start, place, header, N, A
    <3> QED
      BY <2>1, <2>2, ProposalStep
  <2> QED
    BY <2>3
<1>v. IsProgress(Start, text, offset)
  <2>1. \A n : n \notin 1 .. Len(<<>>)
    OBVIOUS
  <2> QED
    BY <1>s, <2>1 DEF IsProgress, IsProposal, Distinct
<1> DEFINE F(g) == [n \in 0 .. N |-> IF n = 0 THEN Start ELSE Body(g[n - 1], n)]
           W == CHOOSE g : g = F(g)
           prev == [n \in 1 .. N |-> n - 1]
           step == [n \in 1 .. N |-> [x \in A |-> Body(x, n)]]
<1>2. Proposed(headers, offset, names) = W[N]
  BY DEF Proposed
<1> HIDE DEF N, Start, Body, A
<1>3. PICK f \in [0 .. N -> A] : Recursive(f, N, Start, prev, step)
  <2>1. \A n \in 1 .. N : prev[n] \in 0 .. n - 1
    BY <1>1
  <2>2. \A n \in 1 .. N : \A x \in A : step[n][x] \in A
    BY <1>1, <1>t
  <2> HIDE DEF prev, step
  <2> QED
    BY <1>1, <1>s, <2>1, <2>2, RecursiveExists
<1>4. \A n \in 0 .. N : f[n] = IF n = 0 THEN Start ELSE Body(f[n - 1], n)
  <2>1. \A n \in 0 .. N : f[n] = IF n = 0 THEN Start ELSE step[n][f[prev[n]]]
    BY <1>3 DEF Recursive
  <2>2. \A n \in 1 .. N, x \in A : step[n][x] = Body(x, n)
    OBVIOUS
  <2>3. \A n \in 1 .. N : prev[n] = n - 1 /\ f[n - 1] \in A
    BY <1>1
  <2> HIDE DEF step, prev
  <2>4. ASSUME NEW n \in 1 .. N PROVE f[n] = Body(f[n - 1], n)
    <3>1. f[n] = step[n][f[prev[n]]]
      BY <1>1, <2>1
    <3> QED
      BY <2>2, <2>3, <3>1
  <2> QED
    BY <1>1, <2>1, <2>4
<1>5. f = F(f)
  BY <1>4
<1>6. W = F(W)
  <2> HIDE DEF F
  <2> QED
    BY <1>5
<1> HIDE DEF W
<1>7. \A n \in 0 .. N : W[n] = IF n = 0 THEN Start ELSE Body(W[n - 1], n)
  BY <1>6
<1> DEFINE U == {n \in 0 .. N : IsProgress(W[n], text, offset + n)}
<1>8. 0 \in U
  BY <1>1, <1>7, <1>v
<1>9. ASSUME NEW n \in 1 .. N, n - 1 \in U PROVE n \in U
  <2>1. n \in 0 .. N /\ n # 0 /\ IsProgress(W[n - 1], text, offset + (n - 1))
    BY <1>1, <1>9
  <2>2. W[n] = Body(W[n - 1], n)
    BY <1>7, <2>1
  <2>3. IsProgress(Body(W[n - 1], n), text, offset + n)
    BY <1>u, <2>1
  <2> QED
    BY <2>1, <2>2, <2>3
<1>10. \A n \in 0 .. N : n \in U
  <2> HIDE DEF U
  <2> QED
    BY <1>1, <1>8, <1>9, BoundedInduction
<1> QED
  BY <1>1, <1>2, <1>10 DEF N

-----------------------------------------------------------------------------
(* The mapping, inductively.                                               *)

\* Only a proposal has an origin, and what the row and its field are is what the
\* mapping makes of a row of some width and of that field.
MappingInv ==
    /\ MappingTypeOK
    /\ stage = "new" => origin = <<>>
    /\ stage = "proposed" \/ origin # <<>> => IsProposal(columns, origin)
    /\ stage \in {"read", "written"} =>
          \E width \in Nat : field = SheetRowToDbRow(columns, width)
    /\ stage = "written" => out = DbRowToSheetRow(columns, field, order)

LEMMA SeqsUpToType ==
    ASSUME NEW S, NEW n \in Nat, NEW s \in SeqsUpTo(S, n)
    PROVE  s \in Seq(S)
BY DEF SeqsUpTo

LEMMA TableOrdersType == \A names \in TableOrders : names \in Seq(Fields)
<1>1. Cardinality(Fields) \in Nat
  BY FS_CardinalityType, ColumnsAssumption
<1> QED
  BY <1>1 DEF TableOrders

LEMMA TableOfType ==
    ASSUME NEW cols \in Seq(Definition)
    PROVE  TableOf(cols) \in Seq(Fields)
BY CompleteType DEF TableOf

LEMMA MappingStart == MappingInit => MappingInv
<1> SUFFICES ASSUME MappingInit PROVE MappingInv
  OBVIOUS
<1>1. /\ columns = <<>> /\ origin = <<>> /\ order = <<>> /\ out = <<>>
      /\ stage = "new" /\ field \in [Fields -> Nat]
  BY DEF MappingInit, NoRow
<1> QED
  BY <1>1 DEF MappingInv, MappingTypeOK

LEMMA StoreMappingStep == MappingInv /\ StoreMapping => MappingInv'
<1> SUFFICES ASSUME MappingInv, StoreMapping PROVE MappingInv'
  OBVIOUS
<1> DEFINE S == [sheet : {<<>>} \cup {ColumnLetter(c - 1) : c \in 1 .. MaxWidth},
                 db : Fields \cup {NoField}, key : BOOLEAN,
                 direction : {"to_mysql", "from_mysql_only", "bidirectional", "sideways"}]
<1>1. S \subseteq Definition
  <2>1. ASSUME NEW d \in S PROVE d \in Definition
    <3>1. d.sheet \in Seq(Letter)
      <4>1. CASE d.sheet = <<>>
        BY <4>1
      <4>2. CASE d.sheet # <<>>
        <5>1. PICK c \in 1 .. MaxWidth : d.sheet = ColumnLetter(c - 1)
          BY <4>2
        <5>2. c - 1 \in Nat
          BY MappingAssumption
        <5> QED
          BY <5>1, <5>2, LetterNumber
      <4> QED
        BY <4>1, <4>2
    <3> QED
      BY <3>1 DEF Definition, Directions
  <2> QED
    BY <2>1
<1>2. columns' \in Seq(S)
  BY SeqsUpToType, MappingAssumption DEF StoreMapping
<1> HIDE DEF S
<1>3. columns' \in Seq(Definition)
  BY <1>1, <1>2
<1>4. /\ stage = "new" /\ stage' = "stored" /\ origin' = origin
      /\ field' = field /\ order' = order /\ out' = out
  BY DEF StoreMapping
<1> QED
  BY <1>3, <1>4 DEF MappingInv, MappingTypeOK

LEMMA ProposeMappingStep == MappingInv /\ ProposeMapping => MappingInv'
<1> SUFFICES ASSUME MappingInv, ProposeMapping PROVE MappingInv'
  OBVIOUS
<1>1. PICK headers \in SeqsUpTo(Texts \cup {"blank"}, MaxWidth), offset \in Offsets,
           text \in [Fields -> Texts], key \in Fields, names \in TableOrders :
          LET cols == [i \in DOMAIN names |->
                          [name |-> names[i], text |-> text[names[i]],
                           key |-> names[i] = key]]
              answer == Proposed(headers, offset, cols)
          IN  columns' = answer.cols /\ origin' = answer.from
  BY DEF ProposeMapping
<1> DEFINE cols == [i \in DOMAIN names |->
                       [name |-> names[i], text |-> text[names[i]],
                        key |-> names[i] = key]]
           answer == Proposed(headers, offset, cols)
<1>2. columns' = answer.cols /\ origin' = answer.from
  BY <1>1
<1>3. \A i \in DOMAIN cols :
         \E f \in Fields, b \in BOOLEAN :
            cols[i] = [name |-> f, text |-> text[f], key |-> b]
  <2> SUFFICES ASSUME NEW i \in DOMAIN cols
               PROVE  \E f \in Fields, b \in BOOLEAN :
                         cols[i] = [name |-> f, text |-> text[f], key |-> b]
    OBVIOUS
  <2>1. names[i] \in Fields
    BY TableOrdersType
  <2> DEFINE b == names[i] = key
  <2>2. b \in BOOLEAN /\ cols[i] = [name |-> names[i], text |-> text[names[i]], key |-> b]
    OBVIOUS
  <2> HIDE DEF cols, b
  <2> QED
    BY <2>1, <2>2
<1>4. headers \in Seq(Texts \cup {"blank"}) /\ offset \in Nat
  BY SeqsUpToType, MappingAssumption
<1> HIDE DEF cols
<1>5. IsProgress(answer, text, offset + Len(headers))
  BY <1>3, <1>4, ProposedProgress
<1> HIDE DEF answer
<1>6. /\ columns' \in Seq(Definition) /\ origin' \in Seq(Nat)
      /\ IsProposal(columns', origin')
  BY <1>2, <1>5 DEF IsProgress
<1>7. /\ stage' = "proposed" /\ field' = field /\ order' = order /\ out' = out
  BY DEF ProposeMapping
<1> QED
  BY <1>6, <1>7 DEF MappingInv, MappingTypeOK

LEMMA ReadRowStep == MappingInv /\ ReadRow => MappingInv'
<1> SUFFICES ASSUME MappingInv, ReadRow PROVE MappingInv'
  OBVIOUS
<1>1. PICK width \in 0 .. MaxWidth : field' = SheetRowToDbRow(columns, width)
  BY DEF ReadRow
<1>2. width \in Nat
  BY MappingAssumption
<1>3. columns \in Seq(Definition)
  BY DEF MappingInv, MappingTypeOK
<1>4. field' \in [Fields -> Nat]
  BY <1>1, <1>2, <1>3, SheetRowType
<1>5. /\ stage' = "read" /\ columns' = columns /\ origin' = origin
      /\ order' = order /\ out' = out
  BY DEF ReadRow
<1>6. \E w \in Nat : field' = SheetRowToDbRow(columns', w)
  BY <1>1, <1>2, <1>5
<1> QED
  BY <1>4, <1>5, <1>6 DEF MappingInv, MappingTypeOK

LEMMA WriteRowStep == MappingInv /\ WriteRow => MappingInv'
<1> SUFFICES ASSUME MappingInv, WriteRow PROVE MappingInv'
  OBVIOUS
<1>1. columns \in Seq(Definition) /\ field \in [Fields -> Nat]
  BY DEF MappingInv, MappingTypeOK
<1>2. order' \in Seq(Fields)
  BY <1>1, TableOrdersType, TableOfType DEF WriteRow
<1>3. /\ stage = "read" /\ stage' = "written" /\ columns' = columns
      /\ origin' = origin /\ field' = field
      /\ out' = DbRowToSheetRow(columns, field, order')
  BY DEF WriteRow
<1>4. out' \in Seq(Nat)
  BY <1>1, <1>2, <1>3, DbRowType
<1>5. \E w \in Nat : field' = SheetRowToDbRow(columns', w)
  BY <1>3 DEF MappingInv
<1>6. out' = DbRowToSheetRow(columns', field', order')
  BY <1>3
<1> QED
  BY <1>2, <1>3, <1>4, <1>5, <1>6 DEF MappingInv, MappingTypeOK

LEMMA MappingInductive == MappingInv /\ [MappingNext]_mappingVars => MappingInv'
<1>1. CASE UNCHANGED mappingVars
  BY <1>1 DEF MappingInv, MappingTypeOK, mappingVars
<1> QED
  BY <1>1, StoreMappingStep, ProposeMappingStep, ReadRowStep, WriteRowStep DEF MappingNext

\* Every step of a mapping's life keeps the invariant.
THEOREM MappingInvariant == MappingSpec => []MappingInv
BY MappingStart, MappingInductive, PTL DEF MappingSpec

\* The variables have their types: a row becomes fields of the table, and fields
\* cells, for every mapping, row width and order of the table's columns.
THEOREM MappingTypeCorrect == MappingSpec => []MappingTypeOK
<1>1. MappingInv => MappingTypeOK
  BY DEF MappingInv
<1> QED
  BY <1>1, MappingInvariant, PTL

-----------------------------------------------------------------------------
(* What holds of mappings.                                                 *)

\* Of a mapping that is accepted no definition is dropped.
LEMMA AcceptedWhole ==
    ASSUME MappingInv, Accepted(columns)
    PROVE  /\ Complete(columns) = columns /\ ColumnMap(columns) = columns
           /\ Distinct(columns, LAMBDA d : d.db)
           /\ \A n \in DOMAIN columns : columns[n].db \in Fields
<1>1. columns \in Seq(Definition)
  BY DEF MappingInv, MappingTypeOK
<1>2. /\ \A n \in DOMAIN columns : columns[n].sheet # <<>> /\ columns[n].db # NoField
      /\ \A m, n \in DOMAIN columns : columns[m].sheet = columns[n].sheet => m = n
      /\ Distinct(columns, LAMBDA d : d.db)
  BY DEF Accepted, ValidColumns, Distinct
<1>3. \A n \in DOMAIN columns : columns[n].db \in Fields
  <2> SUFFICES ASSUME NEW n \in DOMAIN columns PROVE columns[n].db \in Fields
    OBVIOUS
  <2>1. columns[n] \in Definition
    BY <1>1
  <2> QED
    BY <1>2, <2>1 DEF Definition
<1> QED
  BY <1>1, <1>2, <1>3, ColumnMapWhole

\* The engine accepts a proposal that has a key.
LEMMA ProposalAccepted ==
    ASSUME NEW cols \in Seq(Definition), NEW from \in Seq(Nat), IsProposal(cols, from),
           \E n \in DOMAIN cols : cols[n].key
    PROVE  Accepted(cols)
<1>1. /\ DOMAIN cols = 1 .. Len(cols) /\ Len(cols) = Len(from) /\ Len(cols) \in Nat
      /\ \A n \in 1 .. Len(cols) : from[n] \in Nat
  BY DEF IsProposal
<1>2. /\ \A n \in 1 .. Len(cols) : cols[n].db \in Fields /\ cols[n].direction = "bidirectional"
      /\ Distinct(cols, LAMBDA d : d.db)
      /\ \A n \in 1 .. Len(cols) : ColumnNumber(cols[n].sheet) = from[n] + 1
      /\ \A m, n \in 1 .. Len(cols) : m < n => from[m] < from[n]
  BY <1>1 DEF IsProposal
<1>3. ColumnNumber(<<>>) = 0
  <2>1. <<>> \in Seq(Letter) /\ Len(<<>>) = 0
    OBVIOUS
  <2> QED
    BY <2>1, NumberSteps
<1>4. \A n \in DOMAIN cols : cols[n].sheet # <<>> /\ cols[n].db # NoField
  BY <1>1, <1>2, <1>3, ColumnsAssumption
<1>5. ASSUME NEW m \in 1 .. Len(cols), NEW n \in 1 .. Len(cols), cols[m].sheet = cols[n].sheet
      PROVE  m = n
  <2>1. from[m] = from[n]
    BY <1>1, <1>2, <1>5
  <2>2. ~ (m < n) /\ ~ (n < m)
    BY <1>1, <1>2, <2>1
  <2> QED
    BY <2>2
<1>6. Distinct(cols, LAMBDA d : d.sheet)
  BY <1>1, <1>5 DEF Distinct
<1>7. cols # <<>>
  OBVIOUS
<1>8. ValidColumns(cols)
  BY <1>2, <1>4, <1>6, <1>7 DEF ValidColumns
<1> QED
  BY <1>1, <1>2, <1>8 DEF Accepted, Directions

\* For every accepted mapping, whatever its letters and the width of the row, the
\* cells written back are those that were read, each in its place.
THEOREM RoundTripsInPlace == MappingSpec => []RoundTripInPlace
<1>1. ASSUME MappingInv PROVE RoundTripInPlace
  <2> SUFFICES ASSUME stage = "written", Accepted(columns), order = TableOf(columns),
                      \A m, n \in DOMAIN columns :
                         m < n /\ Returns(columns[n]) => Returns(columns[m])
               PROVE  \A n \in DOMAIN out : out[n] \in {0, n}
    BY DEF RoundTripInPlace
  <2>1. columns \in Seq(Definition)
    BY <1>1 DEF MappingInv, MappingTypeOK
  <2>2. PICK width \in Nat : field = SheetRowToDbRow(columns, width)
    BY <1>1 DEF MappingInv
  <2>3. out = DbRowToSheetRow(columns, SheetRowToDbRow(columns, width), TableOf(columns))
    BY <1>1, <2>2 DEF MappingInv
  <2>4. /\ Complete(columns) = columns /\ ColumnMap(columns) = columns
        /\ Distinct(columns, LAMBDA d : d.db)
        /\ \A n \in DOMAIN columns : columns[n].db \in Fields
    BY <1>1, AcceptedWhole
  <2> QED
    BY <2>1, <2>3, <2>4, RowGoesBack
<1> QED
  BY <1>1, MappingInvariant, PTL

\* For any headers, as far right in the sheet as they may be, the mapping proposed for
\* them is accepted if it has a key, and its letters are as far apart as they are.
THEOREM ProposalsUsable == MappingSpec => []ProposalUsable
<1>1. ASSUME MappingInv PROVE ProposalUsable
  <2> SUFFICES ASSUME stage = "proposed"
               PROVE  /\ (\E n \in DOMAIN columns : columns[n].key) => Accepted(columns)
                      /\ \A m, n \in DOMAIN columns :
                            ColumnNumber(columns[m].sheet) + origin[n]
                                = ColumnNumber(columns[n].sheet) + origin[m]
    BY DEF ProposalUsable
  <2>1. columns \in Seq(Definition) /\ origin \in Seq(Nat) /\ IsProposal(columns, origin)
    BY <1>1 DEF MappingInv, MappingTypeOK
  <2>2. \A n \in DOMAIN columns :
           origin[n] \in Nat /\ ColumnNumber(columns[n].sheet) = origin[n] + 1
    BY <2>1 DEF IsProposal
  <2>3. \A m, n \in DOMAIN columns :
           ColumnNumber(columns[m].sheet) + origin[n] = ColumnNumber(columns[n].sheet) + origin[m]
    BY <2>2
  <2> QED
    BY <2>1, <2>3, ProposalAccepted
<1> QED
  BY <1>1, MappingInvariant, PTL

-----------------------------------------------------------------------------
(* Validation, inductively.                                                *)

\* What create_data_table and its server make of a configuration.
TableOutcome(b, f) ==
    IF ~ServiceTakes(b, f.table, f.columns) THEN "refused"
    ELSE IF ServerTakes(b, f.columns) THEN "made" ELSE "failed"

\* The verdict and the tables are those of the configuration there is.
ValidationInv ==
    /\ form \in Forms
    /\ verdict \in {Unasked, Findings(form)}
    /\ table \in [Databases -> {"none", "made", "refused", "failed"}]
    /\ \A b \in Databases : table[b] \in {"none", TableOutcome(b, form)}

LEMMA ValidationInductive ==
    /\ ValidationInit => ValidationInv
    /\ ValidationInv /\ [ValidationNext]_validationVars => ValidationInv'
<1>1. ValidationInit => ValidationInv
  BY DEF ValidationInit, ValidationInv
<1>2. ASSUME ValidationInv, ValidateConfig PROVE ValidationInv'
  BY <1>2 DEF ValidationInv, ValidateConfig
<1>3. ASSUME ValidationInv, NEW b \in Databases, EnsureTable(b) PROVE ValidationInv'
  <2>1. table' = [table EXCEPT ![b] = TableOutcome(b, form)]
    BY <1>3 DEF EnsureTable, TableOutcome
  <2>2. form' = form /\ verdict' = verdict
    BY <1>3 DEF EnsureTable
  <2>3. TableOutcome(b, form) \in {"made", "refused", "failed"}
    BY DEF TableOutcome
  <2>4. table' \in [Databases -> {"none", "made", "refused", "failed"}]
    BY <1>3, <2>1, <2>3 DEF ValidationInv
  <2>5. ASSUME NEW c \in Databases PROVE table'[c] \in {"none", TableOutcome(c, form)}
    BY <1>3, <2>1, <2>5 DEF ValidationInv
  <2>6. ASSUME NEW c \in Databases PROVE (table[c] \in {"none", TableOutcome(c, form)})'
    BY <2>2, <2>5
  <2> QED
    BY <1>3, <2>2, <2>4, <2>6 DEF ValidationInv
<1>4. ASSUME ValidationInv, UNCHANGED validationVars PROVE ValidationInv'
  BY <1>4 DEF ValidationInv, validationVars
<1> QED
  BY <1>1, <1>2, <1>3, <1>4 DEF ValidationNext

\* It holds whenever the validator is asked and the tables are made.
THEOREM ValidationInvariant == ValidationSpec => []ValidationInv
BY ValidationInductive, PTL DEF ValidationSpec

LEMMA NotEmpty == ASSUME NEW s, \E n \in DOMAIN s : TRUE PROVE s # <<>>
OBVIOUS

\* A code reported or not.
LEMMA IfReported == ASSUME NEW c, NEW code PROVE If(c, code) = {} \/ If(c, code) = {code}
BY DEF If

LEMMA IfHolds == ASSUME NEW c, NEW code, c PROVE code \in If(c, code)
BY DEF If

LEMMA CodesKnown == ASSUME NEW f PROVE Findings(f) \subseteq ErrorCodes \cup Warnings
<1> DEFINE C == ErrorCodes \cup Warnings
<1>0. ASSUME NEW c, NEW code \in C PROVE If(c, code) \subseteq C
  BY IfReported
<1>1. /\ "EMPTY_FIELD" \in C /\ "INVALID_TABLE_NAME" \in C /\ "SQL_RESERVED_WORD" \in C
      /\ "TABLE_NAME_TOO_LONG" \in C /\ "INVALID_DATABASE_NAME" \in C
      /\ "DUPLICATE_SHEET_COL" \in C /\ "DUPLICATE_DB_COLUMN" \in C
      /\ "EMPTY_SHEET_COL" \in C /\ "EMPTY_DB_COLUMN" \in C /\ "INVALID_DB_COLUMN" \in C
      /\ "INVALID_DIRECTION" \in C /\ "NO_PRIMARY_KEY" \in C /\ "INVALID_HEADER_ROW" \in C
      /\ "INVALID_DATA_START_ROW" \in C /\ "INVALID_ROW_CONFIGURATION" \in C
      /\ "EMPTY_MAPPING" \in C /\ "INVALID_JSON" \in C /\ "INVALID_MAPPING_TYPE" \in C
      /\ "MISSING_COLUMNS" \in C /\ "INVALID_SYNC_DIRECTION" \in C
  BY DEF ErrorCodes
<1>2. /\ "warn SHORT_ID" \in C /\ "warn LONG_TABLE_NAME" \in C /\ "warn NO_DATABASE" \in C
      /\ "warn SQL_RESERVED_WORD" \in C /\ "warn NO_DB_TYPE" \in C
      /\ "warn UNCOMMON_DB_TYPE" \in C /\ "warn UNKNOWN_TRANSFORM" \in C
      /\ "warn NO_SYNC_DIRECTION" \in C /\ "warn SHORT_POLL_INTERVAL" \in C
      /\ "warn LONG_POLL_INTERVAL" \in C
  BY DEF Warnings
<1> HIDE DEF C
<1>3. ASSUME NEW name PROVE NameFindings(name) \subseteq C
  BY <1>0, <1>1, <1>2 DEF NameFindings
<1>4. ASSUME NEW cols, NEW n PROVE ColumnFindings(cols, n) \subseteq C
  <2>1. DuplicateFindings(cols, n) \subseteq C
    BY <1>0, <1>1, Zenon DEF DuplicateFindings
  <2>2. TypeFindings(cols[n]) \subseteq C
    BY <1>0, <1>2, Zenon DEF TypeFindings
  <2> DEFINE X1 == If(cols[n].sheet = <<>>, "EMPTY_SHEET_COL")
             X2 == If(cols[n].db = NoField, "EMPTY_DB_COLUMN")
             X3 == If(cols[n].db # NoField /\ cols[n].db \notin Matching, "INVALID_DB_COLUMN")
             X4 == If(cols[n].db \in Reserved, "warn SQL_RESERVED_WORD")
             X5 == If(cols[n].direction \notin Directions, "INVALID_DIRECTION")
             X6 == If(cols[n].transform = "unknown", "warn UNKNOWN_TRANSFORM")
  <2>3. ColumnFindings(cols, n) =
           DuplicateFindings(cols, n) \cup TypeFindings(cols[n])
             \cup X1 \cup X2 \cup X3 \cup X4 \cup X5 \cup X6
    BY DEF ColumnFindings
  <2>4. X1 \subseteq C /\ X2 \subseteq C /\ X3 \subseteq C
    BY <1>0, <1>1
  <2>5. X4 \subseteq C /\ X5 \subseteq C /\ X6 \subseteq C
    BY <1>0, <1>1, <1>2
  <2> HIDE DEF X1, X2, X3, X4, X5, X6
  <2> QED
    BY <2>1, <2>2, <2>3, <2>4, <2>5
<1>5. MappingFindings(f) \subseteq C
  <2>1. RowFindings(f) \subseteq C
    BY <1>0, <1>1, Zenon DEF RowFindings
  <2>2. UNION {ColumnFindings(f.columns, n) : n \in DOMAIN f.columns} \subseteq C
    BY <1>4
  <2> QED
    BY <1>1, <2>1, <2>2 DEF MappingFindings
<1>6. DatabaseFindings(f.database) \subseteq C
  BY <1>0, <1>1, <1>2, Zenon DEF DatabaseFindings
<1>7. DirectionFindings(f.direction) \subseteq C /\ IntervalFindings(f.interval) \subseteq C
  <2>1. DirectionFindings(f.direction) \subseteq C
    BY <1>0, <1>1, <1>2, Zenon DEF DirectionFindings
  <2> DEFINE c1 == f.interval < 5
             c2 == f.interval > 3600
  <2>2. IntervalFindings(f.interval) =
           If(c1, "warn SHORT_POLL_INTERVAL") \cup If(c2, "warn LONG_POLL_INTERVAL")
    BY DEF IntervalFindings
  <2> HIDE DEF c1, c2
  <2>3. /\ If(c1, "warn SHORT_POLL_INTERVAL") \subseteq C
        /\ If(c2, "warn LONG_POLL_INTERVAL") \subseteq C
    BY <1>0, <1>2
  <2> QED
    BY <2>1, <2>2, <2>3
<1>8. SourceFindings(f) \subseteq C
  BY <1>0, <1>1, <1>2, Zenon DEF SourceFindings
<1> QED
  BY <1>3, <1>5, <1>6, <1>7, <1>8 DEF Findings, C

\* The variables have their types: every code reported is one.
THEOREM ValidationTypeCorrect == ValidationSpec => []ValidationTypeOK
<1>1. ValidationInv => ValidationTypeOK
  <2> SUFFICES ASSUME ValidationInv PROVE ValidationTypeOK
    OBVIOUS
  <2>1. form.columns \in Seq(FormColumn)
    BY ValidationAssumption DEF ValidationInv
  <2>2. ASSUME NEW n \in DOMAIN form.columns PROVE form.columns[n].type \in Type
    <3>1. form.columns[n] \in FormColumn
      BY <2>1
    <3> QED
      BY <3>1 DEF FormColumn
  <2>3. verdict \subseteq ErrorCodes \cup Warnings \cup Unasked
    BY CodesKnown DEF ValidationInv
  <2> QED
    BY <2>2, <2>3 DEF ValidationInv, ValidationTypeOK
<1> QED
  BY <1>1, ValidationInvariant, PTL

-----------------------------------------------------------------------------
(* What holds of a validated configuration.                                *)

LEMMA FoundInMapping ==
    ASSUME NEW f
    PROVE  MappingFindings(f) \subseteq Findings(f) /\ NameFindings(f.table) \subseteq Findings(f)
BY DEF Findings

\* A configuration without an error has a mapping, and none of its parts has one.
LEMMA NoErrorParts ==
    ASSUME NEW f, Findings(f) \ Warnings = {}
    PROVE  /\ RowFindings(f) \subseteq Warnings
           /\ \A n \in DOMAIN f.columns : ColumnFindings(f.columns, n) \subseteq Findings(f)
           /\ \A n \in DOMAIN f.columns : ColumnFindings(f.columns, n) \subseteq Warnings
           /\ NameFindings(f.table) \subseteq Warnings
<1>1. /\ MappingFindings(f) \subseteq Findings(f) /\ NameFindings(f.table) \subseteq Findings(f)
      /\ Findings(f) \subseteq Warnings
  BY FoundInMapping
<1>2. /\ "EMPTY_MAPPING" \notin Warnings /\ "INVALID_JSON" \notin Warnings
      /\ "INVALID_MAPPING_TYPE" \notin Warnings /\ "MISSING_COLUMNS" \notin Warnings
  BY DEF Warnings
<1>3. MappingFindings(f) = RowFindings(f)
         \cup UNION {ColumnFindings(f.columns, n) : n \in DOMAIN f.columns}
  <2>1. /\ f.mapping # "absent" /\ f.mapping # "broken" /\ f.mapping # "list"
        /\ ~ (f.mapping = "object" /\ f.columns = <<>>)
    BY <1>1, <1>2 DEF MappingFindings
  <2> QED
    BY <2>1 DEF MappingFindings
<1> QED
  BY <1>1, <1>3

LEMMA NotAWarning ==
    /\ "NO_PRIMARY_KEY" \notin Warnings /\ "EMPTY_SHEET_COL" \notin Warnings
    /\ "EMPTY_DB_COLUMN" \notin Warnings /\ "DUPLICATE_SHEET_COL" \notin Warnings
    /\ "DUPLICATE_DB_COLUMN" \notin Warnings /\ "INVALID_DB_COLUMN" \notin Warnings
    /\ "EMPTY_FIELD" \notin Warnings /\ "INVALID_TABLE_NAME" \notin Warnings
    /\ "SQL_RESERVED_WORD" \notin Warnings /\ "TABLE_NAME_TOO_LONG" \notin Warnings
BY DEF Warnings

\* What a column without an error is.
LEMMA NoErrorColumn ==
    ASSUME NEW cols, NEW n, ColumnFindings(cols, n) \subseteq Warnings
    PROVE  /\ cols[n].sheet # <<>> /\ cols[n].db # NoField /\ cols[n].db \in Matching
           /\ \A m \in 1 .. n - 1 : cols[m].sheet # cols[n].sheet /\ cols[m].db # cols[n].db
<1>1. cols[n].sheet # <<>>
  <2>1. If(cols[n].sheet = <<>>, "EMPTY_SHEET_COL") \subseteq Warnings
    BY DEF ColumnFindings
  <2> QED
    BY <2>1, NotAWarning, IfHolds
<1>2. cols[n].db # NoField
  <2>1. If(cols[n].db = NoField, "EMPTY_DB_COLUMN") \subseteq Warnings
    BY DEF ColumnFindings
  <2> QED
    BY <2>1, NotAWarning, IfHolds
<1>3. cols[n].db \in Matching
  <2>1. If(cols[n].db # NoField /\ cols[n].db \notin Matching, "INVALID_DB_COLUMN")
           \subseteq Warnings
    BY DEF ColumnFindings
  <2> QED
    BY <1>2, <2>1, NotAWarning, IfHolds
<1>4. DuplicateFindings(cols, n) \subseteq Warnings
  BY DEF ColumnFindings
<1>5. ~ \E m \in 1 .. n - 1 : cols[m].sheet = cols[n].sheet
  BY <1>1, <1>4, NotAWarning, IfHolds DEF DuplicateFindings
<1>6. ~ \E m \in 1 .. n - 1 : cols[m].db = cols[n].db
  BY <1>2, <1>4, NotAWarning, IfHolds DEF DuplicateFindings
<1> QED
  BY <1>1, <1>2, <1>3, <1>5, <1>6

\* The mapping engine has nothing to say against what ConfigValidator accepts.
THEOREM AcceptedAreUsable == ValidationSpec => []AcceptedIsUsable
<1>1. ASSUME ValidationInv PROVE AcceptedIsUsable
  <2> SUFFICES ASSUME verdict # Unasked, Errors = {} PROVE ValidColumns(form.columns)
    BY DEF AcceptedIsUsable
  <2> DEFINE cols == form.columns
  <2>1. cols \in Seq(FormColumn)
    BY <1>1, ValidationAssumption DEF ValidationInv
  <2>2. Findings(form) \ Warnings = {}
    BY <1>1 DEF ValidationInv, Errors
  <2>3. \E n \in DOMAIN cols : cols[n].key
    <3>1. "NO_PRIMARY_KEY" \notin RowFindings(form)
      BY <2>2, NoErrorParts, NotAWarning
    <3>2. ~ \A n \in DOMAIN cols : ~cols[n].key
      BY <3>1, IfHolds DEF RowFindings
    <3> QED
      BY <3>2
  <2>4. \A n \in DOMAIN cols : ColumnFindings(cols, n) \subseteq Warnings
    BY <2>2, NoErrorParts
  <2> HIDE DEF cols
  <2>5. \A n \in DOMAIN cols : cols[n].sheet # <<>> /\ cols[n].db # NoField
    BY <2>4, NoErrorColumn
  <2>6. ASSUME NEW m \in 1 .. Len(cols), NEW n \in 1 .. Len(cols), m # n
        PROVE  cols[m].sheet # cols[n].sheet /\ cols[m].db # cols[n].db
    <3>1. \A j \in 1 .. Len(cols) : \A i \in 1 .. j - 1 :
             cols[i].sheet # cols[j].sheet /\ cols[i].db # cols[j].db
      BY <2>1, <2>4, NoErrorColumn
    <3>2. m \in 1 .. n - 1 \/ n \in 1 .. m - 1
      BY <2>1, <2>6
    <3> QED
      BY <3>1, <3>2
  <2>7. cols # <<>>
    BY <2>3
  <2>8. DOMAIN cols = 1 .. Len(cols)
    BY <2>1
  <2>9. Distinct(cols, LAMBDA d : d.sheet)
    BY <2>6, <2>8 DEF Distinct
  <2>10. Distinct(cols, LAMBDA d : d.db)
    BY <2>6, <2>8 DEF Distinct
  <2> QED
    BY <2>3, <2>5, <2>7, <2>9, <2>10 DEF ValidColumns, cols
<1> QED
  BY <1>1, ValidationInvariant, PTL

\* A type that MySQL's service takes has a name PostgreSQL knows; what follows it comes
\* through after three names.
LEMMA TypeTranslated ==
    ASSUME NEW type, type.base \in MySQLTypes, type.rest \in Rests, type.rest # "sign"
    PROVE  /\ TypeAllowed("postgresql", type)
           /\ PgType(type).rest = "size" => PgType(type).base \in {"VARCHAR", "CHAR", "NUMERIC"}
           /\ PgType(type).rest \notin {"none", "size"}
                 => type.rest = "attribute" /\ type.base \in {"VARCHAR", "CHAR", "DECIMAL"}
<1>1. PgName(type.base) \in PgTypes
  BY DEF MySQLTypes, UsualTypes, PgName, PgTypes
<1>2. PgName(type.base) \in {"VARCHAR", "CHAR", "NUMERIC"}
         => type.base \in {"VARCHAR", "CHAR", "DECIMAL"}
  BY DEF MySQLTypes, UsualTypes, PgName
<1>3. CASE PgName(type.base) \in {"VARCHAR", "CHAR", "NUMERIC"}
  <2>1. PgType(type) = [base |-> PgName(type.base), rest |-> type.rest]
    BY <1>3 DEF PgType, PgTypeWhole
  <2> QED
    BY <1>1, <1>2, <1>3, <2>1 DEF TypeAllowed, Rests
<1>4. CASE PgName(type.base) \notin {"VARCHAR", "CHAR", "NUMERIC"}
  <2>1. PgType(type) = [base |-> PgName(type.base), rest |-> "none"]
    BY <1>4 DEF PgType
  <2> QED
    BY <1>1, <2>1 DEF TypeAllowed
<1> QED
  BY <1>3, <1>4

\* The type of a column is one.
LEMMA TypeOfColumn ==
    ASSUME NEW cols \in Seq(FormColumn), NEW n \in DOMAIN cols
    PROVE  TypeOf(cols[n]).rest \in Rests
<1>1. cols[n].type \in Type
  <2>1. cols[n] \in FormColumn
    OBVIOUS
  <2> QED
    BY <2>1 DEF FormColumn
<1>2. cols[n].type.rest \in Rests
  BY <1>1 DEF Type
<1> QED
  BY <1>2 DEF TypeOf, Rests

\* For every configuration, a table that MySQL has passes PostgreSQL's service, and the
\* server refuses it only for a column of its own or an attribute of MySQL's.
THEOREM TablesPortable == ValidationSpec => []PortableTable
<1>1. ASSUME ValidationInv PROVE PortableTable
  <2> DEFINE cols == form.columns
             Foreign(col) == \/ col.db \in SystemColumns
                             \/ /\ col.type.rest = "attribute"
                                /\ col.type.base \in {"VARCHAR", "CHAR", "DECIMAL"}
  <2> SUFFICES ASSUME table["mysql"] = "made", table["postgresql"] \in {"refused", "failed"}
               PROVE  /\ table["postgresql"] = "failed"
                      /\ \E n \in DOMAIN cols : Foreign(cols[n])
    BY DEF PortableTable
  <2>1. TableOutcome("mysql", form) = "made"
    BY <1>1 DEF ValidationInv, Databases
  <2>2. table["postgresql"] = TableOutcome("postgresql", form)
    BY <1>1 DEF ValidationInv, Databases
  <2>3. ServiceTakes("mysql", form.table, cols) /\ ServerTakes("mysql", cols)
    BY <2>1 DEF TableOutcome
  <2>4. cols \in Seq(FormColumn)
    BY <1>1, ValidationAssumption DEF ValidationInv
  <2>5. \A n \in DOMAIN cols : TypeAllowed("mysql", TypeOf(cols[n]))
    BY <2>3 DEF ServiceTakes
  <2> HIDE DEF cols
  <2>6. ASSUME NEW n \in DOMAIN cols
        PROVE  /\ TypeAllowed("postgresql", TypeOf(cols[n]))
               /\ PostgreSQLTakes(cols[n]) \/ Foreign(cols[n])
    <3> DEFINE type == TypeOf(cols[n])
    <3>1. type.base \in MySQLTypes /\ type.rest \in Rests /\ type.rest # "sign"
      BY <2>4, <2>5, TypeOfColumn DEF TypeAllowed
    <3>2. type.rest = "attribute" => type = cols[n].type
      BY DEF TypeOf
    <3> HIDE DEF type
    <3>3. /\ TypeAllowed("postgresql", type)
          /\ PgType(type).rest = "size" => PgType(type).base \in {"VARCHAR", "CHAR", "NUMERIC"}
          /\ PgType(type).rest \notin {"none", "size"}
                => type.rest = "attribute" /\ type.base \in {"VARCHAR", "CHAR", "DECIMAL"}
      BY <3>1, TypeTranslated
    <3>4. PostgreSQLTakes(cols[n]) <=>
             /\ cols[n].db \notin SystemColumns
             /\ PgType(type).rest \in {"none", "size"}
             /\ PgType(type).rest = "size" => PgType(type).base \in
                   {"VARCHAR", "CHAR", "NUMERIC", "DECIMAL", "TIME", "TIMESTAMP",
                    "TIMESTAMPTZ", "INTERVAL"}
      BY Zenon DEF PostgreSQLTakes, type
    <3>5. PostgreSQLTakes(cols[n]) \/ Foreign(cols[n])
      BY <3>2, <3>3, <3>4
    <3> QED
      BY <3>3, <3>5 DEF type
  <2>7. ServiceTakes("postgresql", form.table, cols)
    BY <2>3, <2>6 DEF ServiceTakes
  <2>8. table["postgresql"] = "failed" /\ ~ServerTakes("postgresql", cols)
    BY <2>2, <2>7 DEF TableOutcome, cols
  <2>9. Distinct(cols, LAMBDA d : d.db)
    BY <2>3 DEF ServerTakes
  <2>10. \E n \in DOMAIN cols : ~PostgreSQLTakes(cols[n])
    BY <2>8, <2>9 DEF ServerTakes
  <2> QED
    BY <2>6, <2>8, <2>10
<1> QED
  BY <1>1, ValidationInvariant, PTL

\* For every configuration that passes, the reasons for which MySQL's service can
\* refuse the table are those five.
THEOREM AcceptedAreMade == ValidationSpec => []AcceptedIsMade
<1>1. ASSUME ValidationInv PROVE AcceptedIsMade
  <2> DEFINE cols == form.columns
             Long == {"chars64", "chars65"}
             Rare == {"", "NUMERIC", "REAL", "ENUM", "SET", "BIT"}
  <2> SUFFICES ASSUME verdict # Unasked, Errors = {},
                      "warn UNCOMMON_DB_TYPE" \notin verdict,
                      table["mysql"] = "refused",
                      form.table # "chars64",
                      \A n \in DOMAIN cols : cols[n].db \notin Long
                                             /\ cols[n].type.base \notin Rare
                                             /\ cols[n].type.rest # "sign"
               PROVE  FALSE
    BY DEF AcceptedIsMade
  <2>1. verdict = Findings(form) /\ Findings(form) \ Warnings = {}
    BY <1>1 DEF ValidationInv, Errors
  <2>2. /\ \A n \in DOMAIN cols : ColumnFindings(cols, n) \subseteq Findings(form)
        /\ \A n \in DOMAIN cols : ColumnFindings(cols, n) \subseteq Warnings
        /\ NameFindings(form.table) \subseteq Warnings
    BY <2>1, NoErrorParts
  <2>3. form.table \in Identifiers
    <3>1. form.table \in Matching /\ form.table \notin Reserved
      BY <2>2, NotAWarning DEF NameFindings
    <3>2. form.table # "chars65"
      BY <2>2, <3>1, NotAWarning, IfHolds DEF NameFindings, Matching, Plain63, Reserved
    <3> QED
      BY <3>1, <3>2 DEF Matching, Identifiers
  <2>4. cols # <<>>
    <3>1. "NO_PRIMARY_KEY" \notin RowFindings(form)
      BY <2>1, NoErrorParts, NotAWarning
    <3>2. \E n \in DOMAIN cols : cols[n].key
      BY <3>1, IfHolds DEF RowFindings
    <3> QED
      BY <3>2, NotEmpty
  <2>5. ASSUME NEW n \in DOMAIN cols
        PROVE  cols[n].db \in Identifiers /\ TypeAllowed("mysql", TypeOf(cols[n]))
    <3>1. cols[n].db \in Matching
      BY <2>2, <2>5, NoErrorColumn
    <3>2. cols[n].db \in Identifiers
      BY <2>5, <3>1 DEF Matching, Identifiers
    <3>3. "warn UNCOMMON_DB_TYPE" \notin TypeFindings(cols[n])
      BY <2>1, <2>2, <2>5 DEF ColumnFindings
    <3>4. ~ (~Untyped(cols[n]) /\ cols[n].type.base \notin UsualTypes)
      <4> DEFINE odd == ~Untyped(cols[n]) /\ cols[n].type.base \notin UsualTypes
      <4>1. If(odd, "warn UNCOMMON_DB_TYPE") \subseteq TypeFindings(cols[n])
        BY DEF TypeFindings
      <4> HIDE DEF odd
      <4>2. ~odd
        BY <3>3, <4>1, IfHolds
      <4> QED
        BY <4>2 DEF odd
    <3>5. cols[n].type.base \in UsualTypes \cup {"absent"}
      BY <2>5, <3>4 DEF Untyped
    <3>6. TypeOf(cols[n]).base \in MySQLTypes /\ TypeOf(cols[n]).rest # "sign"
      BY <2>5, <3>5 DEF TypeOf, MySQLTypes, UsualTypes
    <3> QED
      BY <3>2, <3>6 DEF TypeAllowed
  <2>6. ServiceTakes("mysql", form.table, cols)
    BY <2>3, <2>4, <2>5 DEF ServiceTakes
  <2>7. TableOutcome("mysql", form) # "refused"
    BY <2>6 DEF TableOutcome
  <2> QED
    BY <1>1, <2>7 DEF ValidationInv, Databases
<1> QED
  BY <1>1, ValidationInvariant, PTL

-----------------------------------------------------------------------------
(* Arithmetic of batches.                                                  *)

LEMMA Division ==
    ASSUME NEW l \in Nat, NEW s \in Nat, s # 0
    PROVE  \E q \in Nat, r \in Nat : q = l \div s /\ l = q * s + r /\ r < s
OBVIOUS

LEMMA Products ==
    /\ \A a, b, s \in Nat : a <= b => a * s <= b * s
    /\ \A a, s \in Nat : (a + 1) * s = a * s + s /\ a * s \in Nat
    /\ \A a, s \in Nat : s # 0 => a <= a * s
OBVIOUS

\* So many batches are as many as it takes.
LEMMA CountBounds ==
    ASSUME NEW l \in Nat, NEW s \in Nat, s # 0, NEW c, c = (l + s - 1) \div s
    PROVE  /\ c \in Nat /\ c <= l /\ l <= c * s
           /\ \A n \in Nat : n < c => n * s < l
<1>1. l + s - 1 \in Nat
  OBVIOUS
<1>2. PICK q \in Nat, r \in Nat : q = c /\ l + s - 1 = q * s + r /\ r < s
  BY <1>1, Division
<1>3. c \in Nat /\ c * s \in Nat /\ l + s - 1 = c * s + r /\ r < s
  BY <1>2, Products
<1>4. l <= c * s
  BY <1>3
<1>5. c <= l
  <2> SUFFICES ASSUME l + 1 <= c PROVE FALSE
    BY <1>3
  <2>1. (l + 1) * s <= c * s
    BY <1>3, Products
  <2>2. (l + 1) * s = l * s + s /\ l * s \in Nat /\ l <= l * s
    BY Products
  <2> QED
    BY <1>3, <2>1, <2>2
<1>6. ASSUME NEW n \in Nat, n < c PROVE n * s < l
  <2>1. (n + 1) * s <= c * s
    BY <1>3, <1>6, Products
  <2>2. (n + 1) * s = n * s + s /\ n * s \in Nat
    BY Products
  <2> QED
    BY <1>3, <2>1, <2>2
<1> QED
  BY <1>3, <1>4, <1>5, <1>6

-----------------------------------------------------------------------------
(* Statements.                                                             *)

BatchRow == [BatchColumns -> Cleaned]
BatchTable == [Keys -> BatchRow \cup {NoRowHeld}]

LEMMA UpsertType ==
    ASSUME NEW t \in BatchTable, NEW row \in BatchRow, NEW cols
    PROVE  Upsert(t, row, cols) \in BatchTable
<1> DEFINE k == Key(row)
           y == [f \in BatchColumns |-> IF f \in cols THEN row[f]
                                        ELSE IF t[k] = NoRowHeld THEN "None" ELSE t[k][f]]
<1>1. k \in Keys
  BY DEF Key, Keys, BatchRow, BatchColumns
<1>2. Upsert(t, row, cols) = [t EXCEPT ![k] = y]
  BY DEF Upsert
<1> HIDE DEF k
<1>3. t[k] \in BatchRow \/ t[k] = NoRowHeld
  BY <1>1 DEF BatchTable
<1>4. y \in BatchRow
  <2> SUFFICES ASSUME NEW f \in BatchColumns
               PROVE  (IF f \in cols THEN row[f]
                       ELSE IF t[k] = NoRowHeld THEN "None" ELSE t[k][f]) \in Cleaned
    BY DEF BatchRow
  <2>1. row[f] \in Cleaned
    BY DEF BatchRow
  <2>2. t[k] # NoRowHeld => t[k][f] \in Cleaned
    BY <1>3 DEF BatchRow
  <2>3. "None" \in Cleaned
    BY DEF Cleaned
  <2> QED
    BY <2>1, <2>2, <2>3
<1> HIDE DEF y
<1> QED
  BY <1>2, <1>4 DEF BatchTable

\* How the tuples of a statement follow each other.
FollowsTable(f, batch, cols) ==
    \A n \in 1 .. Len(batch) : f[n] = Upsert(f[n - 1], batch[n], cols)

LEMMA UpsertAllIs ==
    ASSUME NEW f, NEW batch, Len(batch) \in Nat, NEW cols, FollowsTable(f, batch, cols)
    PROVE  UpsertAll(f[0], batch, cols) = f[Len(batch)]
<1> DEFINE N == Len(batch)
           t == f[0]
           F(g) == [n \in 0 .. N |-> IF n = 0 THEN t ELSE Upsert(g[n - 1], batch[n], cols)]
           W == CHOOSE g : g = F(g)
           h == [n \in 0 .. N |-> f[n]]
<1>1. N \in Nat /\ \A n \in 1 .. N : f[n] = Upsert(f[n - 1], batch[n], cols)
  BY DEF FollowsTable
<1>2. UpsertAll(t, batch, cols) = W[N]
  BY DEF UpsertAll
<1> HIDE DEF N
<1>3. h = F(h)
  <2>1. ASSUME NEW n \in 0 .. N
        PROVE  h[n] = IF n = 0 THEN t ELSE Upsert(h[n - 1], batch[n], cols)
    <3>1. CASE n = 0
      BY <1>1, <3>1
    <3>2. CASE n \in 1 .. N
      <4>1. h[n] = f[n] /\ h[n - 1] = f[n - 1]
        BY <1>1, <3>2
      <4> QED
        BY <1>1, <3>2, <4>1
    <3> QED
      BY <1>1, <3>1, <3>2
  <2>2. h = [n \in 0 .. N |-> h[n]]
    OBVIOUS
  <2> HIDE DEF h
  <2> QED
    BY <2>1, <2>2
<1>4. W = F(W)
  <2> HIDE DEF F
  <2> QED
    BY <1>3
<1> HIDE DEF W
<1>5. \A n \in 0 .. N : W[n] = IF n = 0 THEN t ELSE Upsert(W[n - 1], batch[n], cols)
  BY <1>4
<1> DEFINE U == {n \in 0 .. N : W[n] = f[n]}
<1>6. 0 \in U
  BY <1>1, <1>5
<1>7. ASSUME NEW n \in 1 .. N, n - 1 \in U PROVE n \in U
  <2>1. n \in 0 .. N /\ n # 0 /\ W[n - 1] = f[n - 1]
    BY <1>1, <1>7
  <2>2. W[n] = Upsert(W[n - 1], batch[n], cols)
    BY <1>5, <2>1
  <2> QED
    BY <1>1, <2>1, <2>2
<1>8. \A n \in 0 .. N : n \in U
  <2> HIDE DEF U
  <2> QED
    BY <1>1, <1>6, <1>7, BoundedInduction
<1> QED
  BY <1>1, <1>2, <1>8 DEF N, t

LEMMA UpsertSteps ==
    ASSUME NEW t \in BatchTable, NEW batch \in Seq(BatchRow), NEW cols
    PROVE  \E f \in [0 .. Len(batch) -> BatchTable] : f[0] = t /\ FollowsTable(f, batch, cols)
<1> DEFINE N == Len(batch)
           prev == [n \in 1 .. N |-> n - 1]
           step == [n \in 1 .. N |-> [x \in BatchTable |-> Upsert(x, batch[n], cols)]]
<1>1. N \in Nat /\ \A n \in 1 .. N : batch[n] \in BatchRow
  OBVIOUS
<1>2. PICK f \in [0 .. N -> BatchTable] : Recursive(f, N, t, prev, step)
  <2> HIDE DEF N
  <2>1. \A n \in 1 .. N : prev[n] \in 0 .. n - 1
    BY <1>1
  <2>2. \A n \in 1 .. N : \A x \in BatchTable : step[n][x] \in BatchTable
    BY <1>1, UpsertType
  <2> HIDE DEF prev, step
  <2> QED
    BY <1>1, <2>1, <2>2, RecursiveExists
<1> HIDE DEF N
<1>3. \A n \in 0 .. N : f[n] = IF n = 0 THEN t ELSE step[n][f[prev[n]]]
  BY <1>2 DEF Recursive
<1>4. \A n \in 1 .. N, x \in BatchTable : step[n][x] = Upsert(x, batch[n], cols)
  OBVIOUS
<1>5. \A n \in 1 .. N : prev[n] = n - 1 /\ f[n - 1] \in BatchTable
  BY <1>1
<1> HIDE DEF step, prev
<1>6. ASSUME NEW n \in 1 .. N PROVE f[n] = Upsert(f[n - 1], batch[n], cols)
  <2>1. f[n] = step[n][f[prev[n]]]
    BY <1>1, <1>3
  <2> QED
    BY <1>4, <1>5, <2>1
<1>7. f[0] = t
  BY <1>1, <1>3
<1> QED
  BY <1>6, <1>7 DEF FollowsTable, N

LEMMA UpsertAllType ==
    ASSUME NEW t \in BatchTable, NEW batch \in Seq(BatchRow), NEW cols
    PROVE  UpsertAll(t, batch, cols) \in BatchTable
<1>1. PICK f \in [0 .. Len(batch) -> BatchTable] : f[0] = t /\ FollowsTable(f, batch, cols)
  BY UpsertSteps
<1>2. Len(batch) \in Nat
  OBVIOUS
<1>3. UpsertAll(t, batch, cols) = f[Len(batch)]
  BY <1>1, <1>2, UpsertAllIs
<1> QED
  BY <1>1, <1>2, <1>3

\* Two statements, one with the rows that follow those of the other, do what one
\* with all of the rows does.
LEMMA UpsertTwo ==
    ASSUME NEW t \in BatchTable, NEW rows \in Seq(BatchRow), NEW cols,
           NEW a \in 0 .. Len(rows), NEW b \in a .. Len(rows)
    PROVE  UpsertAll(UpsertAll(t, SubSeq(rows, 1, a), cols), SubSeq(rows, a + 1, b), cols)
              = UpsertAll(t, SubSeq(rows, 1, b), cols)
<1>0. Len(rows) \in Nat /\ a \in Nat /\ b \in Nat /\ a <= b /\ b <= Len(rows)
  OBVIOUS
<1>1. PICK f \in [0 .. Len(rows) -> BatchTable] : f[0] = t /\ FollowsTable(f, rows, cols)
  BY UpsertSteps
<1>2. \A n \in 1 .. Len(rows) : f[n] = Upsert(f[n - 1], rows[n], cols)
  BY <1>1 DEF FollowsTable
<1>3. ASSUME NEW m \in 0 .. Len(rows)
      PROVE  UpsertAll(t, SubSeq(rows, 1, m), cols) = f[m]
  <2> DEFINE part == SubSeq(rows, 1, m)
  <2>1. Len(part) = m /\ m \in Nat /\ \A n \in 1 .. m : part[n] = rows[n]
    OBVIOUS
  <2> HIDE DEF part
  <2>2. FollowsTable(f, part, cols)
    BY <1>0, <1>2, <2>1 DEF FollowsTable
  <2>3. UpsertAll(f[0], part, cols) = f[Len(part)]
    BY <2>1, <2>2, UpsertAllIs
  <2> QED
    BY <1>1, <2>1, <2>3 DEF part
<1>4. UpsertAll(f[a], SubSeq(rows, a + 1, b), cols) = f[b]
  <2> DEFINE part == SubSeq(rows, a + 1, b)
             g == [n \in 0 .. b - a |-> f[a + n]]
  <2>1. Len(part) = b - a /\ b - a \in Nat /\ \A n \in 1 .. b - a : part[n] = rows[a + n]
    BY <1>0
  <2>2. g[0] = f[a] /\ g[b - a] = f[b]
    BY <1>0
  <2>3. \A n \in 1 .. b - a : g[n] = f[a + n] /\ g[n - 1] = f[(a + n) - 1]
    BY <1>0
  <2> HIDE DEF part, g
  <2>4. ASSUME NEW n \in 1 .. b - a PROVE g[n] = Upsert(g[n - 1], part[n], cols)
    <3>1. a + n \in 1 .. Len(rows)
      BY <1>0
    <3>2. f[a + n] = Upsert(f[(a + n) - 1], rows[a + n], cols)
      BY <1>2, <3>1
    <3> QED
      BY <2>1, <2>3, <3>2
  <2>5. FollowsTable(g, part, cols)
    BY <2>1, <2>4 DEF FollowsTable
  <2>6. UpsertAll(g[0], part, cols) = g[Len(part)]
    BY <2>1, <2>5, UpsertAllIs
  <2> QED
    BY <2>1, <2>2, <2>6 DEF part
<1> QED
  BY <1>0, <1>3, <1>4

\* A statement without a row.
LEMMA UpsertNone == ASSUME NEW t, NEW cols PROVE UpsertAll(t, <<>>, cols) = t
<1> DEFINE f == [n \in {0} |-> t]
<1>1. f[0] = t /\ Len(<<>>) = 0 /\ Len(<<>>) \in Nat
  OBVIOUS
<1> HIDE DEF f
<1>2. FollowsTable(f, <<>>, cols)
  BY <1>1 DEF FollowsTable
<1> QED
  BY <1>1, <1>2, UpsertAllIs

-----------------------------------------------------------------------------
(* Batches, inductively.                                                   *)

NoRows == [k \in Keys |-> NoRowHeld]

\* The rows of the first n batches are those up to here.
UpTo(n) == IF n * size > Len(accepted) THEN Len(accepted) ELSE n * size

\* The premise of BatchedIsRowByRow.
EachWhole ==
    /\ IsStatement(BatchColumns)
    /\ \A n \in 1 .. Count :
          ColumnsOf(SubSeq(accepted, (n - 1) * size + 1, Len(accepted))) = BatchColumns

\* At any time the table holds what the rows of the batches sent make of it.
SentRowByRow ==
    EachWhole => held = UpsertAll(NoRows, SubSeq(accepted, 1, UpTo(sent)), BatchColumns)

BatchInv ==
    /\ BatchTypeOK
    /\ Len(accepted) <= seen
    /\ sent <= Count
    /\ sent = 0 => held = NoRows
    /\ ValidRowsHaveKeys
    /\ SentRowByRow

\* What the types say, in the words of the lemmas.
LEMMA BatchTypes ==
    ASSUME BatchTypeOK
    PROVE  /\ accepted \in Seq(BatchRow) /\ held \in BatchTable
           /\ size \in Nat /\ size # 0 /\ sent \in Nat /\ seen \in Nat
           /\ Len(accepted) \in Nat
BY BatchesAssumption DEF BatchTypeOK, BatchRow, BatchTable

LEMMA CountIs ==
    ASSUME BatchTypeOK
    PROVE  /\ Count \in Nat /\ Count <= Len(accepted) /\ Len(accepted) <= Count * size
           /\ \A n \in Nat : n < Count => n * size < Len(accepted)
<1>1. Len(accepted) \in Nat /\ size \in Nat /\ size # 0
  BY BatchTypes
<1> QED
  BY <1>1, CountBounds DEF Count

LEMMA NoRowsType == NoRows \in BatchTable
BY DEF NoRows, BatchTable

\* Before the first batch.
LEMMA NoneSent ==
    ASSUME BatchTypeOK, sent = 0, held = NoRows
    PROVE  sent <= Count /\ SentRowByRow
<1>1. 0 * size = 0 /\ Len(accepted) \in Nat /\ Count \in Nat
  BY BatchTypes, CountIs
<1>2. UpTo(sent) = 0
  BY <1>1 DEF UpTo
<1>3. SubSeq(accepted, 1, 0) = <<>>
  BY BatchTypes
<1>4. UpsertAll(NoRows, <<>>, BatchColumns) = NoRows
  BY UpsertNone
<1>5. held = UpsertAll(NoRows, SubSeq(accepted, 1, UpTo(sent)), BatchColumns)
  BY <1>2, <1>3, <1>4
<1>6. sent <= Count
  BY <1>1
<1> QED
  BY <1>5, <1>6 DEF SentRowByRow

LEMMA BatchStart == BatchInit => BatchInv
<1> SUFFICES ASSUME BatchInit PROVE BatchInv
  OBVIOUS
<1>1. held = NoRows /\ sent = 0 /\ accepted = <<>> /\ seen = 0
  BY DEF BatchInit, NoRows
<1>2. BatchTypeOK
  <2>1. held \in [Keys -> [BatchColumns -> Cleaned] \cup {NoRowHeld}]
    BY <1>1 DEF NoRows
  <2>2. accepted \in Seq([BatchColumns -> Cleaned])
    BY <1>1
  <2>3. 0 \in 0 .. MaxRows
    BY BatchesAssumption
  <2>4. types \in [BatchColumns -> ColumnTypes] /\ size \in BatchSizes /\ erring \in BOOLEAN
    BY DEF BatchInit
  <2> QED
    BY <1>1, <2>1, <2>2, <2>3, <2>4, Zenon DEF BatchTypeOK
<1>3. sent <= Count /\ SentRowByRow
  BY <1>1, <1>2, NoneSent
<1>4. ValidRowsHaveKeys
  BY <1>1 DEF ValidRowsHaveKeys
<1> QED
  BY <1>1, <1>2, <1>3, <1>4 DEF BatchInv

\* A cell is cleaned to what a cleaned row may hold; without an error no key is lost.
LEMMA CleanedCell ==
    ASSUME NEW cell \in Cells, NEW type
    PROVE  /\ CleanedValue(cell, type) \in Cleaned
           /\ ~IsError(cell, type, TRUE) => CleanedValue(cell, type) # "None"
BY DEF Cells, Cleaned, CleanedValue, IsError

LEMMA CleanedRowType ==
    ASSUME NEW row \in [BatchColumns -> Cells]
    PROVE  /\ CleanedRow(row) \in BatchRow
           /\ ~HasError(row) => \A k \in KeyColumns : CleanedRow(row)[k] # "None"
<1>1. ASSUME NEW f \in BatchColumns
      PROVE  (IF IsError(row[f], types[f], f \in KeyColumns) THEN "None"
              ELSE CleanedValue(row[f], types[f])) \in Cleaned
  <2>1. "None" \in Cleaned /\ row[f] \in Cells
    BY DEF Cleaned
  <2> QED
    BY <2>1, CleanedCell
<1>2. CleanedRow(row) \in BatchRow
  BY <1>1 DEF CleanedRow, BatchRow
<1>3. ASSUME ~HasError(row), NEW k \in KeyColumns PROVE CleanedRow(row)[k] # "None"
  <2>1. k \in BatchColumns /\ row[k] \in Cells
    BY DEF BatchColumns
  <2>2. ~IsError(row[k], types[k], k \in KeyColumns)
    BY <1>3, <2>1 DEF HasError
  <2>3. CleanedRow(row)[k] = CleanedValue(row[k], types[k])
    BY <2>1, <2>2 DEF CleanedRow
  <2>4. ~IsError(row[k], types[k], TRUE)
    BY <2>2 DEF IsError
  <2> QED
    BY <2>1, <2>3, <2>4, CleanedCell
<1> QED
  BY <1>2, <1>3

LEMMA ValidateRowStep ==
    ASSUME BatchInv, NEW row \in [BatchColumns -> Cells], ValidateRow(row)
    PROVE  BatchInv'
<1>1. /\ accepted \in Seq(BatchRow) /\ Len(accepted) \in Nat /\ Len(accepted) <= seen
      /\ seen \in 0 .. MaxRows /\ MaxRows \in Nat /\ sent = 0 /\ held = NoRows
      /\ seen < MaxRows
  BY BatchTypes, BatchesAssumption DEF BatchInv, BatchTypeOK, ValidateRow
<1>2. /\ types' = types /\ size' = size /\ sent' = 0 /\ held' = NoRows /\ seen' = seen + 1
  BY <1>1 DEF ValidateRow
<1>3. \/ accepted' = accepted
      \/ accepted' = Append(accepted, CleanedRow(row)) /\ ~HasError(row)
  BY DEF ValidateRow
<1>4. CleanedRow(row) \in BatchRow
  BY CleanedRowType
<1>5. accepted' \in Seq(BatchRow) /\ Len(accepted') <= seen'
  BY <1>1, <1>2, <1>3, <1>4
<1>6. BatchTypeOK'
  <2>1. erring' \in BOOLEAN
    BY DEF ValidateRow, BatchInv, BatchTypeOK
  <2>2. seen' \in 0 .. MaxRows
    BY <1>1, <1>2
  <2>3. held' = held /\ sent' = sent
    BY DEF ValidateRow
  <2> QED
    BY <1>2, <1>5, <2>1, <2>2, <2>3 DEF BatchInv, BatchTypeOK, BatchRow
<1>7. ValidRowsHaveKeys'
  <2>1. CASE accepted' = accepted
    BY <2>1 DEF BatchInv, ValidRowsHaveKeys
  <2>2. CASE accepted' = Append(accepted, CleanedRow(row)) /\ ~HasError(row)
    <3>1. \A k \in KeyColumns : CleanedRow(row)[k] # "None"
      BY <2>2, CleanedRowType
    <3>2. ASSUME NEW n \in DOMAIN accepted' PROVE \A k \in KeyColumns : accepted'[n][k] # "None"
      <4> DEFINE r == CleanedRow(row)
      <4>1. n \in 1 .. Len(accepted) + 1
        BY <1>1, <1>4, <2>2
      <4>2. CASE n = Len(accepted) + 1
        <5>1. accepted'[n] = r
          BY <1>1, <1>4, <2>2, <4>2
        <5> QED
          BY <3>1, <5>1
      <4>3. CASE n \in 1 .. Len(accepted)
        <5>1. accepted'[n] = accepted[n] /\ n \in DOMAIN accepted
          BY <1>1, <1>4, <2>2, <4>3
        <5> QED
          BY <5>1 DEF BatchInv, ValidRowsHaveKeys
      <4> QED
        BY <1>1, <4>1, <4>2, <4>3
    <3> QED
      BY <3>2 DEF ValidRowsHaveKeys
  <2> QED
    BY <1>3, <2>1, <2>2
<1>8. NoRows' = NoRows
  BY DEF NoRows
<1>9. (sent <= Count)' /\ SentRowByRow'
  <2>1. (BatchTypeOK /\ sent = 0 /\ held = NoRows)'
    BY <1>2, <1>6, <1>8
  <2> QED
    BY <2>1, NoneSent, PTL
<1> QED
  BY <1>2, <1>5, <1>6, <1>7, <1>8, <1>9 DEF BatchInv

LEMMA ClearValidatorStep == BatchInv /\ ClearValidator => BatchInv'
<1> SUFFICES ASSUME BatchInv, ClearValidator PROVE BatchInv'
  OBVIOUS
<1>1. /\ types' = types /\ size' = size /\ seen' = seen /\ accepted' = accepted
      /\ sent' = sent /\ held' = held /\ erring' \in BOOLEAN
  BY DEF ClearValidator
<1>2. Count' = Count /\ UpTo(sent)' = UpTo(sent) /\ NoRows' = NoRows
  BY <1>1 DEF Count, UpTo, NoRows
<1>3. EachWhole' = EachWhole
  BY <1>1, <1>2 DEF EachWhole, ColumnsOf
<1>4. SentRowByRow' = SentRowByRow
  BY <1>1, <1>2, <1>3 DEF SentRowByRow
<1> QED
  BY <1>1, <1>2, <1>4 DEF BatchInv, BatchTypeOK, ValidRowsHaveKeys

\* The first row of a batch is that of the rows from there on.
LEMMA BatchIs ==
    ASSUME BatchTypeOK, NEW n \in 1 .. Count
    PROVE  /\ Batch(accepted, n) = SubSeq(accepted, UpTo(n - 1) + 1, UpTo(n))
           /\ UpTo(n - 1) \in 0 .. Len(accepted)
           /\ UpTo(n) \in UpTo(n - 1) .. Len(accepted)
           /\ Batch(accepted, n) # <<>>
           /\ Batch(accepted, n) \in Seq(BatchRow)
           /\ ColumnsOf(Batch(accepted, n))
                 = ColumnsOf(SubSeq(accepted, (n - 1) * size + 1, Len(accepted)))
<1> DEFINE a == (n - 1) * size
           b == UpTo(n)
           l == Len(accepted)
<1>1. accepted \in Seq(BatchRow) /\ l \in Nat /\ size \in Nat /\ size # 0
  BY BatchTypes
<1>2. n - 1 \in Nat /\ n \in Nat /\ n - 1 < Count
  BY CountIs
<1>3. a \in Nat /\ a < l
  BY <1>1, <1>2, CountIs, Products
<1>4. n * size = a + size /\ n * size \in Nat
  <2>1. (n - 1) + 1 = n
    BY <1>2
  <2> QED
    BY <1>1, <1>2, <2>1, Products
<1>5. Batch(accepted, n) = SubSeq(accepted, a + 1, b)
  BY DEF Batch, UpTo
<1>6. UpTo(n - 1) = a
  BY <1>1, <1>3 DEF UpTo
<1>7. b \in Nat /\ a < b /\ b <= l
  BY <1>1, <1>3, <1>4 DEF UpTo
<1> HIDE DEF a, b, l
<1> DEFINE part == SubSeq(accepted, a + 1, b)
           rest == SubSeq(accepted, a + 1, l)
<1>8. part \in Seq(BatchRow) /\ Len(part) = b - a /\ part[1] = accepted[a + 1]
  BY <1>1, <1>3, <1>7 DEF l
<1>9. rest[1] = accepted[a + 1]
  BY <1>1, <1>3, <1>7 DEF l
<1> HIDE DEF part, rest
<1>10. part # <<>>
  BY <1>3, <1>7, <1>8
<1>11. ColumnsOf(part) = ColumnsOf(rest)
  BY <1>8, <1>9 DEF ColumnsOf
<1>12. a \in 0 .. l /\ b \in a .. l
  BY <1>1, <1>3, <1>7
<1>13. Batch(accepted, n) = part
  BY <1>5 DEF part
<1> QED
  BY <1>6, <1>8, <1>10, <1>11, <1>12, <1>13 DEF part, rest, a, b, l

LEMMA SendBatchStep == BatchInv /\ SendBatch => BatchInv'
<1> SUFFICES ASSUME BatchInv, SendBatch PROVE BatchInv'
  OBVIOUS
<1> DEFINE batch == Batch(accepted, sent + 1)
           cols == ColumnsOf(batch)
<1>1. /\ types' = types /\ size' = size /\ seen' = seen /\ accepted' = accepted
      /\ erring' = erring /\ sent' = sent + 1 /\ sent < Count
      /\ held' = IF batch # <<>> /\ IsStatement(cols) THEN UpsertAll(held, batch, cols) ELSE held
  BY DEF SendBatch
<1>2. /\ accepted \in Seq(BatchRow) /\ held \in BatchTable /\ sent \in Nat /\ seen \in Nat
      /\ Len(accepted) \in Nat /\ Count \in Nat /\ Count <= Len(accepted)
      /\ Len(accepted) <= seen /\ seen <= MaxRows /\ BatchTypeOK /\ MaxRows \in Nat
  BY BatchTypes, CountIs, BatchesAssumption DEF BatchInv, BatchTypeOK
<1>3. sent + 1 \in 1 .. Count
  BY <1>1, <1>2
<1>4. /\ batch = SubSeq(accepted, UpTo(sent) + 1, UpTo(sent + 1))
      /\ UpTo(sent) \in 0 .. Len(accepted)
      /\ UpTo(sent + 1) \in UpTo(sent) .. Len(accepted)
      /\ batch # <<>> /\ batch \in Seq(BatchRow)
      /\ cols = ColumnsOf(SubSeq(accepted, sent * size + 1, Len(accepted)))
  <2>1. (sent + 1) - 1 = sent
    BY <1>2
  <2> QED
    BY <1>2, <1>3, <2>1, BatchIs
<1> HIDE DEF batch, cols
<1>5. held' \in BatchTable
  BY <1>1, <1>2, <1>4, UpsertAllType
<1>6. sent' \in 0 .. MaxRows /\ sent' # 0
  BY <1>1, <1>2
<1>7. Count' = Count /\ UpTo(sent)' = UpTo(sent + 1) /\ NoRows' = NoRows
  BY <1>1 DEF Count, UpTo, NoRows
<1>8. EachWhole' = EachWhole
  BY <1>1, <1>7 DEF EachWhole, ColumnsOf
<1>9. ASSUME EachWhole
      PROVE  held' = UpsertAll(NoRows, SubSeq(accepted, 1, UpTo(sent + 1)), BatchColumns)
  <2>1. cols = BatchColumns
    <3>1. (sent + 1) - 1 = sent
      BY <1>2
    <3> QED
      BY <1>3, <1>4, <1>9, <3>1 DEF EachWhole
  <2>2. held' = UpsertAll(held, batch, BatchColumns)
    BY <1>1, <1>4, <1>9, <2>1 DEF EachWhole
  <2>3. held = UpsertAll(NoRows, SubSeq(accepted, 1, UpTo(sent)), BatchColumns)
    BY <1>9 DEF BatchInv, SentRowByRow
  <2> QED
    BY <1>2, <1>4, <2>2, <2>3, NoRowsType, UpsertTwo
<1>10. SentRowByRow'
  BY <1>1, <1>7, <1>8, <1>9 DEF SentRowByRow
<1>11. BatchTypeOK'
  BY <1>1, <1>5, <1>6 DEF BatchInv, BatchTypeOK, BatchTable, BatchRow
<1>12. ValidRowsHaveKeys'
  BY <1>1 DEF BatchInv, ValidRowsHaveKeys
<1> QED
  BY <1>1, <1>2, <1>6, <1>7, <1>10, <1>11, <1>12 DEF BatchInv

LEMMA BatchInductive == BatchInv /\ [BatchNext]_batchVars => BatchInv'
<1>1. ASSUME BatchInv, UNCHANGED batchVars PROVE BatchInv'
  <2>1. /\ types' = types /\ size' = size /\ seen' = seen /\ accepted' = accepted
        /\ sent' = sent /\ held' = held /\ erring' = erring
    BY <1>1 DEF batchVars
  <2>2. Count' = Count /\ UpTo(sent)' = UpTo(sent) /\ NoRows' = NoRows
    BY <2>1 DEF Count, UpTo, NoRows
  <2>3. EachWhole' = EachWhole
    BY <2>1, <2>2 DEF EachWhole, ColumnsOf
  <2>4. SentRowByRow' = SentRowByRow
    BY <2>1, <2>2, <2>3 DEF SentRowByRow
  <2> QED
    BY <1>1, <2>1, <2>2, <2>4 DEF BatchInv, BatchTypeOK, ValidRowsHaveKeys
<1> QED
  BY <1>1, ValidateRowStep, ClearValidatorStep, SendBatchStep DEF BatchNext

\* Rows, errors and batches keep to the invariant.
THEOREM BatchInvariant == BatchSpec => []BatchInv
BY BatchStart, BatchInductive, PTL DEF BatchSpec

\* The variables have their types; in particular there are no more batches than rows.
THEOREM BatchTypeCorrect == BatchSpec => []BatchTypeOK
<1>1. BatchInv => BatchTypeOK
  BY DEF BatchInv
<1> QED
  BY <1>1, BatchInvariant, PTL

\* For all rows, batch sizes and types, no row reported valid lacks a key.
THEOREM AcceptedRowsHaveKeys == BatchSpec => []ValidRowsHaveKeys
<1>1. BatchInv => ValidRowsHaveKeys
  BY DEF BatchInv
<1> QED
  BY <1>1, BatchInvariant, PTL

\* For all rows and batch sizes, batches that have all the columns make the table that
\* the rows make one at a time.
THEOREM BatchesAreRowByRow == BatchSpec => []BatchedIsRowByRow
<1>1. ASSUME BatchInv PROVE BatchedIsRowByRow
  <2> SUFFICES ASSUME sent = Count, EachWhole
               PROVE  held = UpsertAll(NoRows, accepted, BatchColumns)
    BY DEF BatchedIsRowByRow, EachWhole, NoRows
  <2>1. accepted \in Seq(BatchRow) /\ Len(accepted) \in Nat /\ size \in Nat
    BY <1>1, BatchTypes DEF BatchInv
  <2>2. Len(accepted) <= Count * size /\ Count * size \in Nat
    BY <1>1, <2>1, CountIs, Products DEF BatchInv
  <2>3. UpTo(sent) = Len(accepted)
    BY <2>1, <2>2 DEF UpTo
  <2>4. SubSeq(accepted, 1, Len(accepted)) = accepted
    BY <2>1
  <2> QED
    BY <1>1, <2>3, <2>4 DEF BatchInv, SentRowByRow
<1> QED
  BY <1>1, BatchInvariant, PTL
=============================================================================
