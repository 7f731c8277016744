---------------------------- MODULE FilterProofs ----------------------------
(***************************************************************************)
(* Induction over the natural numbers, functions defined by recursion, and *)
(* what the loop of Filter returns.  The induction principle is stated for *)
(* a set instead of a predicate; it rests on the finite subsets of Nat     *)
(* being well founded under inclusion.                                     *)
(***************************************************************************)
EXTENDS Filter, FiniteSets, FiniteSetTheorems, WellFoundedInduction, TLAPS

(* A set of numbers that is not empty has a least one.                     *)
LEMMA LeastNat ==
  ASSUME NEW T \in SUBSET Nat, T # {}
  PROVE  \E m \in T : \A k \in T : m <= k
<1> DEFINE U == {1..n : n \in T}
<1>1. IsWellFoundedOn(StrictSubsetOrdering(Nat), FiniteSubsetsOf(Nat))
  BY FS_StrictSubsetOrderingWellFounded
<1>2. U \subseteq FiniteSubsetsOf(Nat)
  BY FS_Interval DEF FiniteSubsetsOf
<1>3. U # {}
  OBVIOUS
<1>4. \E x \in U : \A y \in U : ~(<<y, x>> \in StrictSubsetOrdering(Nat))
  <2> HIDE DEF U
  <2> QED BY <1>1, <1>2, <1>3, WFMin
<1>5. PICK m \in T : \A y \in U : ~(<<y, 1..m>> \in StrictSubsetOrdering(Nat))
  BY <1>4
<1>6. ASSUME NEW k \in T, ~(m <= k) PROVE FALSE
  <2>1. k \in Nat /\ m \in Nat /\ k < m
    BY <1>6
  <2>2. m \in 1..m /\ m \notin 1..k
    BY <2>1
  <2>3. 1..k \subseteq 1..m /\ 1..k # 1..m
    BY <2>1, <2>2
  <2>4. <<1..k, 1..m>> \in StrictSubsetOrdering(Nat)
    BY <2>3 DEF StrictSubsetOrdering
  <2> QED BY <1>5, <2>4
<1> QED BY <1>5, <1>6

(* Induction up to N.                                                      *)
LEMMA UpTo ==
  ASSUME NEW N \in Nat, NEW S, 0 \in S, \A n \in 1..N : n - 1 \in S => n \in S
  PROVE  0..N \subseteq S
<1> SUFFICES ASSUME (0..N) \ S # {} PROVE FALSE
  OBVIOUS
<1>1. PICK m \in (0..N) \ S : \A k \in (0..N) \ S : m <= k
  <2>1. (0..N) \ S \in SUBSET Nat
    OBVIOUS
  <2> QED BY <2>1, LeastNat
<1>2. m \in 1..N /\ m - 1 \in 0..N /\ ~(m <= m - 1)
  BY <1>1
<1> QED BY <1>1, <1>2

(* The values of a loop that starts with a and takes N steps.              *)
IsRun(f, N, V, a, step) ==
  f \in [0..N -> V] /\ f[0] = a /\ \A n \in 1..N : f[n] = step[n][f[n - 1]]

(* A sequence of steps, each a function, can be run.                       *)
LEMMA Recursion ==
  ASSUME NEW N \in Nat, NEW V, NEW a \in V, NEW step \in [1..N -> [V -> V]]
  PROVE  \E f : IsRun(f, N, V, a, step)
<1> DEFINE Runs(n, f) == f[0] = a /\ \A k \in 1..n : f[k] = step[k][f[k - 1]]
           S == {n \in 0..N : \E f \in [0..n -> V] : Runs(n, f)}
<1>1. 0 \in S
  <2> DEFINE f == [k \in 0..0 |-> a]
  <2>1. f \in [0..0 -> V] /\ Runs(0, f)
    OBVIOUS
  <2>2. 0 \in 0..N
    OBVIOUS
  <2> HIDE DEF f, Runs
  <2> QED BY <2>1, <2>2
<1>2. ASSUME NEW n \in 1..N, n - 1 \in S PROVE n \in S
  <2>1. PICK f \in [0..n - 1 -> V] : Runs(n - 1, f)
    BY <1>2
  <2> DEFINE g == [k \in 0..n |-> IF k = n THEN step[n][f[n - 1]] ELSE f[k]]
  <2>2. g \in [0..n -> V]
    <3>1. n - 1 \in 0..n - 1 /\ step[n] \in [V -> V]
      OBVIOUS
    <3>2. \A k \in 0..n : k # n => k \in 0..n - 1
      OBVIOUS
    <3> QED BY <3>1, <3>2
  <2>3. Runs(n, g)
    <3>1. g[0] = a
      BY <2>1
    <3>2. ASSUME NEW k \in 1..n PROVE g[k] = step[k][g[k - 1]]
      <4>1. k - 1 \in 0..n /\ k - 1 # n /\ k \in 0..n
        OBVIOUS
      <4>2. g[k - 1] = f[k - 1]
        BY <4>1
      <4>3. CASE k = n
        BY <4>2, <4>3
      <4>4. CASE k # n
        <5>1. k \in 1..n - 1
          BY <4>4
        <5> QED BY <2>1, <4>1, <4>2, <4>4, <5>1
      <4> QED BY <4>3, <4>4
    <3> QED BY <3>1, <3>2
  <2>4. n \in 0..N
    OBVIOUS
  <2> HIDE DEF g, Runs
  <2> QED BY <2>2, <2>3, <2>4
<1>3. N \in S
  <2>1. N \in 0..N
    OBVIOUS
  <2> HIDE DEF S
  <2>2. \A n \in 1..N : n - 1 \in S => n \in S
    BY <1>2
  <2>3. 0..N \subseteq S
    BY <1>1, <2>2, UpTo
  <2> QED BY <2>1, <2>3
<1> QED BY <1>3 DEF IsRun

-----------------------------------------------------------------------------
(* Sequences                                                               *)

(* The positions of a concatenation.                                       *)
LEMMA Joined ==
  ASSUME NEW S, NEW a \in Seq(S), NEW b \in Seq(S)
  PROVE  /\ a \o b \in Seq(S) /\ Len(a \o b) = Len(a) + Len(b)
         /\ \A i \in 1..Len(a) : (a \o b)[i] = a[i]
         /\ \A i \in 1..Len(b) : (a \o b)[Len(a) + i] = b[i]
  OBVIOUS

(* One more element of b appended to a.                                    *)
LEMMA OneMore ==
  ASSUME NEW S, NEW a \in Seq(S), NEW b \in Seq(S), NEW n \in Nat, n < Len(b)
  PROVE  Append(a \o SubSeq(b, 1, n), b[n + 1]) = a \o SubSeq(b, 1, n + 1)
<1> DEFINE l == SubSeq(b, 1, n)
           r == SubSeq(b, 1, n + 1)
           x == a \o l
           y == a \o r
           z == Append(x, b[n + 1])
           m == Len(a)
<1>1. m \in Nat /\ Len(b) \in Nat /\ b[n + 1] \in S
  OBVIOUS
<1>2. l \in Seq(S) /\ Len(l) = n /\ \A i \in 1..n : l[i] = b[i]
  BY <1>1
<1>3. r \in Seq(S) /\ Len(r) = n + 1 /\ \A i \in 1..(n + 1) : r[i] = b[i]
  BY <1>1
<1> HIDE DEF l, r
<1>4. /\ x \in Seq(S) /\ Len(x) = m + Len(l)
      /\ \A i \in 1..m : x[i] = a[i]
      /\ \A i \in 1..Len(l) : x[m + i] = l[i]
  <2>1. l \in Seq(S)
    BY <1>2
  <2> QED BY <2>1, Joined
<1>5. /\ y \in Seq(S) /\ Len(y) = m + Len(r)
      /\ \A i \in 1..m : y[i] = a[i]
      /\ \A i \in 1..Len(r) : y[m + i] = r[i]
  <2>1. r \in Seq(S)
    BY <1>3
  <2> QED BY <2>1, Joined
<1> HIDE DEF x, y, m
<1>6. z \in Seq(S) /\ Len(z) = Len(x) + 1 /\ z[Len(x) + 1] = b[n + 1] /\ \A i \in 1..Len(x) : z[i] = x[i]
  BY <1>1, <1>4
<1> HIDE DEF z
<1>7. Len(x) = m + n /\ Len(y) = m + n + 1 /\ Len(z) = m + n + 1
  <2>1. Len(x) = m + n
    BY <1>2, <1>4
  <2>2. Len(y) = m + n + 1
    BY <1>1, <1>3, <1>5
  <2>3. Len(z) = m + n + 1
    BY <1>1, <1>6, <2>1
  <2> QED BY <2>1, <2>2, <2>3
<1>8. ASSUME NEW i \in 1..(m + n + 1) PROVE z[i] = y[i]
  <2>1. CASE i <= m
    BY <1>1, <1>4, <1>5, <1>6, <1>7, <2>1
  <2>2. CASE m < i /\ i <= m + n
    <3>1. PICK j \in 1..n : i = m + j
      BY <1>1, <2>2
    <3>2. j \in 1..(n + 1) /\ i \in 1..Len(x)
      BY <1>1, <1>7, <2>2
    <3>3. z[i] = l[j] /\ y[i] = r[j]
      BY <1>2, <1>3, <1>4, <1>5, <1>6, <3>1, <3>2
    <3> QED BY <1>2, <1>3, <3>2, <3>3
  <2>3. CASE i = m + (n + 1)
    <3>1. n + 1 \in 1..(n + 1) /\ i = Len(x) + 1
      BY <1>1, <1>7, <2>3
    <3> QED BY <1>3, <1>5, <1>6, <2>3, <3>1
  <2>4. i <= m \/ (m < i /\ i <= m + n) \/ i = m + (n + 1)
    BY <1>1
  <2> QED BY <2>1, <2>2, <2>3, <2>4
<1>9. z = y
  BY <1>5, <1>6, <1>7, <1>8
<1> QED BY <1>9 DEF z, x, y, l, r

-----------------------------------------------------------------------------
(* The loop of Filter, element by element.                                 *)
LEMMA KeptRuns ==
  ASSUME NEW S, NEW s \in Seq(S), NEW I
  PROVE  \E u \in [0..Len(s) -> Seq(S)] :
           /\ u[0] = <<>> /\ Kept(s, I) = u[Len(s)]
           /\ \A n \in 1..Len(s) :
                u[n] = IF n \in I THEN Append(u[n - 1], s[n]) ELSE u[n - 1]
<1> DEFINE N == Len(s)
           V == Seq(S)
           step == [n \in 1..N |-> [v \in V |-> IF n \in I THEN Append(v, s[n]) ELSE v]]
           Body(f) == [n \in 0..N |-> IF n = 0 THEN <<>>
                         ELSE IF n \in I THEN Append(f[n - 1], s[n]) ELSE f[n - 1]]
<1>1. N \in Nat /\ <<>> \in V /\ N \in 0..N /\ \A n \in 1..N : s[n] \in S
  OBVIOUS
<1>2. step \in [1..N -> [V -> V]]
  BY <1>1
<1>3. PICK f \in [0..N -> V] : f[0] = <<>> /\ \A n \in 1..N : f[n] = step[n][f[n - 1]]
  <2> DEFINE a == <<>>
  <2>1. N \in Nat /\ a \in V
    BY <1>1
  <2> HIDE DEF N, V, step, a
  <2>2. \E f : IsRun(f, N, V, a, step)
    BY <1>2, <2>1, Recursion
  <2> QED BY <2>2 DEF a, IsRun
<1>4. \A n \in 1..N : f[n] = IF n \in I THEN Append(f[n - 1], s[n]) ELSE f[n - 1]
  <2>1. \A n \in 1..N : n - 1 \in 0..N
    BY <1>1
  <2>2. \A n \in 1..N : f[n - 1] \in V
    BY <2>1
  <2> HIDE DEF V, N
  <2> QED BY <1>3, <2>2
<1>5. f = Body(f)
  <2>1. \A n \in 0..N : n # 0 => n \in 1..N
    BY <1>1
  <2>2. \A n \in 0..N : f[n] = Body(f)[n]
    BY <1>3, <1>4, <2>1
  <2>3. DOMAIN f = 0..N /\ DOMAIN Body(f) = 0..N /\ f = [n \in 0..N |-> f[n]]
    BY <1>3
  <2> QED BY <2>2, <2>3
<1> DEFINE up == CHOOSE g : g = Body(g)
<1>6. up = Body(up)
  BY <1>5
<1>7. Kept(s, I) = up[N]
  BY DEF Kept
<1> HIDE DEF up
<1>8. \A n \in 0..N : up[n] = f[n]
  <2> DEFINE T == {n \in 0..N : up[n] = f[n]}
  <2>1. 0 \in T
    <3>1. 0 \in 0..N
      BY <1>1
    <3>2. up[0] = <<>>
      BY <1>6, <3>1
    <3> QED BY <1>3, <3>1, <3>2
  <2>2. ASSUME NEW n \in 1..N, n - 1 \in T PROVE n \in T
    <3>1. n \in 0..N /\ n # 0
      BY <1>1
    <3>2. up[n] = IF n \in I THEN Append(up[n - 1], s[n]) ELSE up[n - 1]
      BY <1>6, <3>1
    <3>3. up[n - 1] = f[n - 1]
      BY <2>2
    <3> QED BY <1>4, <3>1, <3>2, <3>3
  <2> HIDE DEF T
  <2>3. 0..N \subseteq T
    BY <1>1, <2>1, <2>2, UpTo
  <2> QED BY <2>3 DEF T
<1> QED BY <1>1, <1>3, <1>4, <1>7, <1>8

(* The loop keeps the elements at the positions I, each once and in order. *)
LEMMA KeptPositions ==
  ASSUME NEW S, NEW s \in Seq(S), NEW I \in SUBSET (1..Len(s))
  PROVE  /\ Kept(s, I) \in Seq(S)
         /\ \E pos \in [1..Len(Kept(s, I)) -> I] :
              /\ \A j \in 1..Len(Kept(s, I)) : Kept(s, I)[j] = s[pos[j]]
              /\ \A j, k \in 1..Len(Kept(s, I)) : j < k => pos[j] < pos[k]
              /\ \A i \in I : \E j \in 1..Len(Kept(s, I)) : pos[j] = i
<1>1. PICK u \in [0..Len(s) -> Seq(S)] :
        /\ u[0] = <<>> /\ Kept(s, I) = u[Len(s)]
        /\ \A n \in 1..Len(s) :
             u[n] = IF n \in I THEN Append(u[n - 1], s[n]) ELSE u[n - 1]
  BY KeptRuns
<1> DEFINE Before(n) == {i \in I : i <= n}
           Places(n, pos) ==
             /\ pos \in [1..Len(u[n]) -> Before(n)]
             /\ \A j \in 1..Len(u[n]) : u[n][j] = s[pos[j]]
             /\ \A j, k \in 1..Len(u[n]) : j < k => pos[j] < pos[k]
             /\ \A i \in Before(n) : \E j \in 1..Len(u[n]) : pos[j] = i
           T == {n \in 0..Len(s) : \E pos : Places(n, pos)}
<1>2. Len(s) \in Nat /\ 0 \in 0..Len(s) /\ Len(s) \in 0..Len(s)
  OBVIOUS
<1>3. 0 \in T
  <2>1. Before(0) = {}
    OBVIOUS
  <2>2. Places(0, <<>>)
    BY <1>1, <2>1
  <2> HIDE DEF Places
  <2> QED BY <1>2, <2>2
<1>4. ASSUME NEW n \in 1..Len(s), n - 1 \in T PROVE n \in T
  <2>1. PICK pos : Places(n - 1, pos)
    BY <1>4
  <2> DEFINE r == u[n - 1]
             m == Len(r)
  <2>2. r \in Seq(S) /\ m \in Nat /\ n \in 0..Len(s) /\ n \in Nat /\ s[n] \in S
    BY <1>1
  <2>3. CASE n \notin I
    <3>1. Before(n) = Before(n - 1)
      <4>1. \A i \in I : i <= n <=> i <= n - 1
        BY <2>2, <2>3
      <4> QED BY <4>1
    <3>2. u[n] = u[n - 1]
      BY <1>1, <2>3
    <3>3. Places(n, pos)
      BY <2>1, <3>1, <3>2
    <3> HIDE DEF Places
    <3> QED BY <2>2, <3>3
  <2>4. CASE n \in I
    <3> DEFINE q == [j \in 1..m + 1 |-> IF j = m + 1 THEN n ELSE pos[j]]
    <3>1. u[n] = Append(r, s[n])
      BY <1>1, <2>4
    <3>2. /\ Len(u[n]) = m + 1 /\ u[n][m + 1] = s[n]
          /\ \A j \in 1..m : u[n][j] = r[j]
      BY <2>2, <3>1
    <3> HIDE DEF r, m
    <3>3. \A j \in 1..m + 1 : j # m + 1 => j \in 1..m
      BY <2>2
    <3>4. \A i \in Before(n) : i = n \/ i \in Before(n - 1)
      BY <2>2
    <3>5. \A i \in Before(n - 1) : i \in Before(n) /\ i < n
      BY <2>2
    <3>6. n \in Before(n)
      BY <2>2, <2>4
    <3>7. /\ pos \in [1..m -> Before(n - 1)]
          /\ \A j \in 1..m : r[j] = s[pos[j]]
          /\ \A j, k \in 1..m : j < k => pos[j] < pos[k]
          /\ \A i \in Before(n - 1) : \E j \in 1..m : pos[j] = i
      BY <2>1 DEF r, m
    <3> HIDE DEF Before
    <3>8. q \in [1..m + 1 -> Before(n)]
      BY <3>3, <3>5, <3>6, <3>7
    <3>9. \A j \in 1..m + 1 : u[n][j] = s[q[j]]
      BY <3>2, <3>3, <3>7
    <3>10. \A j, k \in 1..m + 1 : j < k => q[j] < q[k]
      <4> SUFFICES ASSUME NEW j \in 1..m + 1, NEW k \in 1..m + 1, j < k
                   PROVE  q[j] < q[k]
        OBVIOUS
      <4>1. j \in 1..m /\ j # m + 1
        BY <2>2
      <4>2. CASE k = m + 1
        BY <3>5, <3>7, <4>1, <4>2
      <4>3. CASE k # m + 1
        BY <3>3, <3>7, <4>1, <4>3
      <4> QED BY <4>2, <4>3
    <3>11. \A i \in Before(n) : \E j \in 1..m + 1 : q[j] = i
      <4> TAKE i \in Before(n)
      <4>1. CASE i = n
        BY <2>2, <4>1
      <4>2. CASE i \in Before(n - 1)
        <5>1. PICK j \in 1..m : pos[j] = i
          BY <3>7, <4>2
        <5>2. j \in 1..m + 1 /\ j # m + 1
          BY <2>2
        <5> QED BY <5>1, <5>2
      <4> QED BY <3>4, <4>1, <4>2
    <3> HIDE DEF q
    <3>12. Places(n, q)
      BY <3>2, <3>8, <3>9, <3>10, <3>11
    <3> HIDE DEF Places
    <3> QED BY <2>2, <3>12
  <2> QED BY <2>3, <2>4
<1>5. Len(s) \in T
  <2> HIDE DEF T
  <2>1. \A n \in 1..Len(s) : n - 1 \in T => n \in T
    BY <1>4
  <2>2. 0..Len(s) \subseteq T
    BY <1>2, <1>3, <2>1, UpTo
  <2> QED BY <1>2, <2>2
<1>6. PICK pos : Places(Len(s), pos)
  BY <1>5
<1>7. Before(Len(s)) = I
  BY <1>2
<1>8. Kept(s, I) \in Seq(S)
  BY <1>1, <1>2
<1>9. /\ pos \in [1..Len(Kept(s, I)) -> I]
      /\ \A j \in 1..Len(Kept(s, I)) : Kept(s, I)[j] = s[pos[j]]
      /\ \A j, k \in 1..Len(Kept(s, I)) : j < k => pos[j] < pos[k]
      /\ \A i \in I : \E j \in 1..Len(Kept(s, I)) : pos[j] = i
  <2>1. Kept(s, I) = u[Len(s)]
    BY <1>1
  <2> HIDE DEF Before
  <2> QED BY <1>6, <1>7, <2>1
<1> QED BY <1>8, <1>9

(* These elements and no others.                                           *)
LEMMA KeptElements ==
  ASSUME NEW S, NEW s \in Seq(S), NEW I \in SUBSET (1..Len(s))
  PROVE  /\ Kept(s, I) \in Seq(S)
         /\ \A j \in 1..Len(Kept(s, I)) : \E i \in I : Kept(s, I)[j] = s[i]
         /\ \A i \in I : \E j \in 1..Len(Kept(s, I)) : Kept(s, I)[j] = s[i]
<1>1. PICK pos \in [1..Len(Kept(s, I)) -> I] :
              /\ \A j \in 1..Len(Kept(s, I)) : Kept(s, I)[j] = s[pos[j]]
              /\ \A j, k \in 1..Len(Kept(s, I)) : j < k => pos[j] < pos[k]
              /\ \A i \in I : \E j \in 1..Len(Kept(s, I)) : pos[j] = i
  BY KeptPositions
<1>2. Kept(s, I) \in Seq(S)
  BY KeptPositions
<1>3. \A j \in 1..Len(Kept(s, I)) : pos[j] \in I
  BY <1>1
<1>4. \A j \in 1..Len(Kept(s, I)) : \E i \in I : Kept(s, I)[j] = s[i]
  BY <1>1, <1>3
<1>5. \A i \in I : \E j \in 1..Len(Kept(s, I)) : Kept(s, I)[j] = s[i]
  BY <1>1
<1> QED BY <1>2, <1>4, <1>5

(* The positions of I at which s has an element of W.                      *)
Hits(s, I, W) == {i \in I : s[i] \in W}

(* It keeps as many elements of W as there are at these positions.         *)
LEMMA KeptCount ==
  ASSUME NEW S, NEW s \in Seq(S), NEW I \in SUBSET (1..Len(s)), NEW W
  PROVE  Cardinality(Hits(Kept(s, I), 1..Len(Kept(s, I)), W)) = Cardinality(Hits(s, I, W))
<1> DEFINE K == Kept(s, I)
           A == {j \in 1..Len(K) : K[j] \in W}
           B == {i \in I : s[i] \in W}
<1>1. K \in Seq(S)
  BY KeptPositions
<1>2. PICK pos \in [1..Len(K) -> I] :
         /\ \A j \in 1..Len(K) : K[j] = s[pos[j]]
         /\ \A j, k \in 1..Len(K) : j < k => pos[j] < pos[k]
         /\ \A i \in I : \E j \in 1..Len(K) : pos[j] = i
  BY KeptPositions
<1> HIDE DEF K
<1> DEFINE f == [j \in A |-> pos[j]]
<1>3. f \in Surjection(A, B)
  <2>1. f \in [A -> B]
    BY <1>2
  <2>2. \A i \in B : \E j \in A : f[j] = i
    BY <1>2
  <2> HIDE DEF A, B, f
  <2> QED BY <2>1, <2>2 DEF Surjection
<1>4. f \in Injection(A, B)
  <2>1. ASSUME NEW j \in A, NEW k \in A, f[j] = f[k] PROVE j = k
    <3>1. j \in 1..Len(K) /\ k \in 1..Len(K) /\ pos[j] = pos[k]
      BY <2>1
    <3>2. Len(K) \in Nat /\ pos[j] \in 1..Len(s) /\ Len(s) \in Nat
      <4>1. pos[j] \in I
        BY <3>1
      <4>2. Len(K) \in Nat
        BY <1>1
      <4>3. pos[j] \in 1..Len(s)
        BY <4>1
      <4>4. Len(s) \in Nat
        OBVIOUS
      <4> QED BY <4>2, <4>3, <4>4
    <3>3. j \in Nat /\ k \in Nat /\ ~(pos[j] < pos[k]) /\ ~(pos[k] < pos[j])
      BY <3>1, <3>2
    <3>4. ~(j < k) /\ ~(k < j)
      BY <1>2, <3>1, <3>3
    <3> QED BY <3>3, <3>4
  <2>2. f \in [A -> B]
    BY <1>3 DEF Surjection
  <2> HIDE DEF A, B, f
  <2> QED BY <2>1, <2>2 DEF Injection, IsInjective
<1>5. IsFiniteSet(A)
  <2>1. Len(K) \in Nat
    BY <1>1
  <2>2. IsFiniteSet(1..Len(K))
    BY <2>1, FS_Interval
  <2>3. A \in SUBSET (1..Len(K))
    OBVIOUS
  <2> QED BY <2>2, <2>3, FS_Subset
<1>6. Cardinality(B) = Cardinality(A)
  <2> HIDE DEF A, B, f
  <2> QED BY <1>3, <1>4, <1>5, FS_Surjection
<1> QED BY <1>6 DEF K, Hits

(* It is as long as there are positions, and shorter when one is left out. *)
LEMMA KeptLength ==
  ASSUME NEW S, NEW s \in Seq(S), NEW I \in SUBSET (1..Len(s))
  PROVE  /\ Len(Kept(s, I)) <= Len(s)
         /\ I # 1..Len(s) => Len(Kept(s, I)) < Len(s)
<1> DEFINE K == Kept(s, I)
<1>1. K \in Seq(S)
  BY KeptPositions
<1>2. Hits(K, 1..Len(K), S) = 1..Len(K)
  <2> HIDE DEF K
  <2>1. \A j \in 1..Len(K) : K[j] \in S
    BY <1>1
  <2> QED BY <2>1 DEF Hits
<1>3. Hits(s, I, S) = I
  <2>1. \A i \in I : s[i] \in S
    OBVIOUS
  <2> QED BY <2>1 DEF Hits
<1>4. Cardinality(1..Len(K)) = Cardinality(I)
  BY <1>2, <1>3, KeptCount
<1> HIDE DEF K
<1>5. Len(s) \in Nat /\ Len(K) \in Nat
  BY <1>1
<1>6. ASSUME NEW n \in Nat PROVE IsFiniteSet(1..n) /\ Cardinality(1..n) = n
  <2>1. /\ 1 \in Int /\ n \in Int
        /\ n - 1 + 1 = n /\ (1 > n => n = 0)
    OBVIOUS
  <2>2. IsFiniteSet(1..n) /\ Cardinality(1..n) = IF 1 > n THEN 0 ELSE n - 1 + 1
    BY <2>1, FS_Interval
  <2> QED BY <2>1, <2>2
<1>7. /\ Cardinality(I) <= Cardinality(1..Len(s))
      /\ Cardinality(1..Len(s)) = Cardinality(I) => 1..Len(s) = I
  BY <1>5, <1>6, FS_Subset
<1>8. Len(K) <= Len(s) /\ (Len(s) = Len(K) => I = 1..Len(s))
  <2>1. Cardinality(1..Len(s)) = Len(s) /\ Cardinality(1..Len(K)) = Len(K)
    BY <1>5, <1>6
  <2> QED BY <1>4, <1>7, <2>1
<1> QED BY <1>5, <1>8 DEF K

-----------------------------------------------------------------------------
(* How often x occurs in s.                                                *)
Count(s, x) == Cardinality({i \in 1..Len(s) : s[i] = x})

(* A sequence that grows by one element.                                   *)
LEMMA AppendCount ==
  ASSUME NEW S, NEW s \in Seq(S), NEW e \in S, NEW x
  PROVE  /\ Count(s, x) \in Nat
         /\ Count(Append(s, e), x) = IF x = e THEN Count(s, x) + 1 ELSE Count(s, x)
<1> DEFINE A == {i \in 1..Len(s) : s[i] = x}
           n == Len(s) + 1
           t == Append(s, e)
           B == {i \in 1..Len(t) : t[i] = x}
<1>1. /\ Len(s) \in Nat /\ Len(t) = n /\ t[n] = e /\ \A i \in 1..Len(s) : t[i] = s[i]
  OBVIOUS
<1>2. IsFiniteSet(A)
  <2>1. IsFiniteSet(1..Len(s))
    BY <1>1, FS_Interval
  <2>2. A \in SUBSET (1..Len(s))
    OBVIOUS
  <2> QED BY <2>1, <2>2, FS_Subset
<1>3. n \notin A
  BY <1>1
<1>4. B = IF x = e THEN A \union {n} ELSE A
  <2>1. \A i : i \in 1..Len(t) <=> i \in 1..Len(s) \/ i = n
    BY <1>1
  <2> HIDE DEF n, t
  <2>2. ASSUME NEW i PROVE i \in B <=> i \in A \/ (i = n /\ x = e)
    BY <1>1, <2>1
  <2> HIDE DEF A, B
  <2> QED BY <2>2
<1>5. Cardinality(A) \in Nat
  BY <1>2, FS_CardinalityType
<1> HIDE DEF A, n
<1>6. Cardinality(B) = IF x = e THEN Cardinality(A) + 1 ELSE Cardinality(A)
  <2> HIDE DEF B
  <2> QED BY <1>2, <1>3, <1>4, FS_AddElement
<1> QED BY <1>5, <1>6 DEF Count, A
====
