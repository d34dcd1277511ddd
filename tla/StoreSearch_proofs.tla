------------------------- MODULE StoreSearch_proofs -------------------------
(* The search finds the best of all carts (FindsTheBestAlways).  The order  *)
(* of the carts is that of their sort keys (KeyIs), in which carts with the *)
(* same subtotals differ by their products alone (MixedIsNoWorse) and no    *)
(* two carts are level (KeysDiffer).  What the bound cuts off is no better  *)
(* (BoundHolds, HopelessIs).  The invariant SearchInv says that each cart   *)
(* is no better than the best so far or still ahead, and that an entry of   *)
(* the cache is of a call under way or has nothing better behind it; one    *)
(* lemma shows it for each action.                                          *)
EXTENDS CartBuilding_proofs, StoreSearch

\* Of two sequences of numbers that differ, one is less.
LEMMA LessIsTotal ==
  ASSUME NEW s \in Seq(Int), NEW t \in Seq(Int), s # t
  PROVE  Less(s, t) \/ Less(t, s)
<1> DEFINE m == Len(s)
           n == Len(t)
           apart == {i \in 1..m : i <= n /\ s[i] # t[i]}
<1>1. m \in Nat /\ n \in Nat /\ DOMAIN s = 1..m /\ DOMAIN t = 1..n
  OBVIOUS
<1>2. \A i \in 1..m : s[i] \in Int
  OBVIOUS
<1>3. \A i \in 1..n : t[i] \in Int
  OBVIOUS
<1>4. m # n \/ \E i \in 1..m : s[i] # t[i]
  OBVIOUS
<1> HIDE DEF m, n
<1>5. CASE apart # {}
  <2>1. apart \in SUBSET Nat
    BY <1>1
  <2>2. PICK i \in apart : \A j \in apart : i <= j
    <3> HIDE DEF apart
    <3> QED
      BY <1>5, <2>1, LeastNumber
  <2>3. i \in 1..m /\ i \in 1..n /\ s[i] # t[i]
    BY <1>1
  <2>4. \A j \in 1..(i - 1) : j <= m /\ j <= n /\ s[j] = t[j] /\ t[j] = s[j]
    <3> SUFFICES ASSUME NEW j \in 1..(i - 1)
                 PROVE  j <= m /\ j <= n /\ s[j] = t[j]
      OBVIOUS
    <3>1. j \in 1..m /\ j <= n /\ ~(i <= j)
      BY <1>1, <2>3
    <3>2. j \notin apart
      <4> HIDE DEF apart
      <4> QED
        BY <2>2, <3>1
    <3> QED
      BY <3>1, <3>2
  <2>5. s[i] < t[i] \/ t[i] < s[i]
    BY <1>2, <1>3, <2>3
  <2>6. i \in DOMAIN s /\ i \in DOMAIN t
    BY <1>1, <2>3
  <2> QED
    BY <2>4, <2>5, <2>6 DEF Less, m, n
<1>6. CASE apart = {}
  <2>1. \A i \in 1..m : i <= n => s[i] = t[i] /\ t[i] = s[i]
    BY <1>6
  <2>2. CASE m < n
    <3> DEFINE i == m + 1
    <3>1. i \in DOMAIN t /\ i > m
      BY <1>1, <2>2
    <3>2. \A j \in 1..(i - 1) : j <= m /\ s[j] = t[j]
      BY <1>1, <2>1, <2>2
    <3> HIDE DEF i
    <3> QED
      BY <3>1, <3>2 DEF Less, m
  <2>3. CASE n < m
    <3> DEFINE i == n + 1
    <3>1. i \in DOMAIN s /\ i > n
      BY <1>1, <2>3
    <3>2. \A j \in 1..(i - 1) : j <= n /\ t[j] = s[j]
      BY <1>1, <2>1, <2>3
    <3> HIDE DEF i
    <3> QED
      BY <3>1, <3>2 DEF Less, n
  <2>4. CASE m = n
    BY <1>1, <1>4, <2>1, <2>4
  <2> QED
    BY <1>1, <2>2, <2>3, <2>4
<1> QED
  BY <1>5, <1>6

\* What is no less than something that is no less than a third is no less than
\* the third.
LEMMA NoLessThrough ==
  ASSUME NEW s \in Seq(Int), NEW t \in Seq(Int), NEW u \in Seq(Int), ~Less(s, t), ~Less(t, u)
  PROVE  ~Less(s, u)
<1> SUFFICES ASSUME Less(s, u) PROVE FALSE
  OBVIOUS
<1>1. s # t
  OBVIOUS
<1>2. Less(t, s)
  BY <1>1, LessIsTotal
<1>3. Less(t, u)
  BY <1>2, LessIsTransitive
<1> QED
  BY <1>3

\* The first number decides, when it differs.
LEMMA LessFirst ==
  ASSUME NEW s \in Seq(Int), NEW t \in Seq(Int), s # <<>>, t # <<>>, s[1] < t[1]
  PROVE  Less(s, t)
<1>1. 1 \in DOMAIN t
  OBVIOUS
<1>2. \A j \in 1..(1 - 1) : FALSE
  OBVIOUS
<1> QED
  BY <1>1, <1>2 DEF Less

\* What two sequences begin with does not decide.
LEMMA LessBehind ==
  ASSUME NEW w \in Seq(Int), NEW s \in Seq(Int), NEW t \in Seq(Int), Less(w \o s, w \o t)
  PROVE  Less(s, t)
<1> DEFINE l == Len(w)
           x == w \o s
           y == w \o t
<1>1. /\ x \in Seq(Int) /\ Len(x) = l + Len(s) /\ l \in Nat /\ Len(s) \in Nat
      /\ \A k \in 1..l : x[k] = w[k]
      /\ \A k \in (l + 1)..(l + Len(s)) : x[k] = s[k - l]
  BY JoinedIs
<1>2. /\ y \in Seq(Int) /\ Len(y) = l + Len(t) /\ Len(t) \in Nat
      /\ \A k \in 1..l : y[k] = w[k]
      /\ \A k \in (l + 1)..(l + Len(t)) : y[k] = t[k - l]
  <2>1. /\ w \o t \in Seq(Int) /\ Len(w \o t) = Len(w) + Len(t)
        /\ \A k \in 1..Len(w) : (w \o t)[k] = w[k]
        /\ \A k \in (Len(w) + 1)..(Len(w) + Len(t)) : (w \o t)[k] = t[k - Len(w)]
    BY JoinedIs
  <2> QED
    BY <2>1
<1>3. DOMAIN y = 1..(l + Len(t))
  <2>1. y \in Seq(Int) /\ Len(y) = l + Len(t)
    BY <1>2
  <2> HIDE DEF x, y, l
  <2> QED
    BY <2>1
<1>4. \A k \in 1..l : w[k] \in Int
  OBVIOUS
<1>5. DOMAIN t = 1..Len(t)
  OBVIOUS
<1>6. Less(x, y)
  OBVIOUS
<1> HIDE DEF x, y, l
<1>7. PICK i \in 1..(l + Len(t)) : /\ \A j \in 1..(i - 1) : j <= Len(x) /\ x[j] = y[j]
                                   /\ i > Len(x) \/ x[i] < y[i]
  BY <1>6, <1>3 DEF Less
<1>8. i > l
  <2> SUFFICES ASSUME i <= l PROVE FALSE
    BY <1>1
  <2>1. i \in 1..l
    BY <1>1
  <2>2. x[i] = w[i] /\ y[i] = w[i] /\ w[i] \in Int /\ i <= Len(x)
    BY <1>1, <1>2, <1>4, <2>1
  <2> QED
    BY <1>1, <1>7, <2>2
<1>9. i - l \in DOMAIN t /\ i - l \in 1..Len(t) /\ i \in (l + 1)..(l + Len(t))
  BY <1>1, <1>2, <1>5, <1>8
<1>10. ASSUME NEW j \in 1..(i - l - 1) PROVE j <= Len(s) /\ s[j] = t[j]
  <2>1. j + l \in 1..(i - 1)
    BY <1>1
  <2>2. j + l <= Len(x) /\ x[j + l] = y[j + l]
    BY <1>7, <2>1
  <2>3. j + l \in (l + 1)..(l + Len(s)) /\ (j + l) - l = j
    BY <1>1, <2>2
  <2>4. j + l \in (l + 1)..(l + Len(t))
    BY <1>1, <1>2, <1>9
  <2>5. j \in Int /\ l \in Int
    BY <1>1
  <2>6. x[j + l] = s[j]
    BY <1>1, <2>3
  <2>7. y[j + l] = t[j]
    BY <1>2, <2>3, <2>4
  <2>8. j <= Len(s)
    BY <1>1, <2>3, <2>5
  <2> QED
    BY <2>2, <2>6, <2>7, <2>8
<1>11. i - l > Len(s) \/ s[i - l] < t[i - l]
  <2>1. CASE i > Len(x)
    BY <1>1, <2>1
  <2>2. CASE x[i] < y[i] /\ ~ i > Len(x)
    <3>1. i \in (l + 1)..(l + Len(s))
      BY <1>1, <1>9, <2>2
    <3>2. x[i] = s[i - l] /\ y[i] = t[i - l]
      BY <1>1, <1>2, <1>9, <3>1
    <3> QED
      BY <2>2, <3>2
  <2> QED
    BY <1>7, <2>1, <2>2
<1> DEFINE k == i - l
<1>12. /\ k \in DOMAIN t /\ (k > Len(s) \/ s[k] < t[k])
       /\ \A j \in 1..(k - 1) : j <= Len(s) /\ s[j] = t[j]
  BY <1>9, <1>10, <1>11
<1> HIDE DEF k
<1> QED
  BY <1>12 DEF Less

\* A sequence that begins with another one, and then x.
Begins(s, w, x) ==
  /\ s \in Seq(Int) /\ Len(w) < Len(s) /\ s[Len(w) + 1] = x
  /\ \A j \in 1..Len(w) : s[j] = w[j]

\* It still does with more behind it.
LEMMA BeginsBefore ==
  ASSUME NEW w \in Seq(Int), NEW x \in Int, NEW s, Begins(s, w, x), NEW t \in Seq(Int)
  PROVE  Begins(s \o t, w, x)
<1>1. s \in Seq(Int)
  BY DEF Begins
<1>2. /\ s \o t \in Seq(Int) /\ Len(s \o t) = Len(s) + Len(t)
      /\ \A k \in 1..Len(s) : (s \o t)[k] = s[k]
  BY <1>1, JoinedIs
<1> DEFINE y == s \o t
<1>3. /\ y \in Seq(Int) /\ Len(y) = Len(s) + Len(t) /\ \A k \in 1..Len(s) : y[k] = s[k]
  BY <1>2
<1>4. Len(s) \in Nat /\ Len(t) \in Nat /\ Len(w) \in Nat
  BY <1>1
<1> HIDE DEF y
<1>5. Len(w) < Len(s) /\ s[Len(w) + 1] = x /\ \A j \in 1..Len(w) : s[j] = w[j]
  BY DEF Begins
<1> DEFINE k == Len(w) + 1
<1>6. k \in 1..Len(s) /\ s[k] = x
  BY <1>4, <1>5
<1>7. Len(w) < Len(y)
  BY <1>3, <1>4, <1>5
<1>8. Len(w) < Len(y) /\ y[Len(w) + 1] = x
  <2>1. y[k] = x
    <3> HIDE DEF k
    <3> QED
      BY <1>3, <1>6
  <2> QED
    BY <1>7, <2>1
<1>9. \A j \in 1..Len(w) : y[j] = w[j]
  BY <1>3, <1>4, <1>5
<1>10. Begins(y, w, x)
  BY <1>3, <1>8, <1>9 DEF Begins
<1> QED
  BY <1>10 DEF y

\* What comes behind a sequence is what comes after it.
LEMMA BeginsBehind ==
  ASSUME NEW w \in Seq(Int), NEW t \in Seq(Int), t # <<>>
  PROVE  Begins(w \o t, w, t[1]) /\ Begins(t, <<>>, t[1])
<1>1. /\ w \o t \in Seq(Int) /\ Len(w \o t) = Len(w) + Len(t)
      /\ \A k \in 1..Len(w) : (w \o t)[k] = w[k]
      /\ \A k \in (Len(w) + 1)..(Len(w) + Len(t)) : (w \o t)[k] = t[k - Len(w)]
  BY JoinedIs
<1> DEFINE y == w \o t
           l == Len(w)
<1>2. Len(t) \in Nat \ {0} /\ l \in Nat /\ t[1] \in Int
  OBVIOUS
<1>3. /\ y \in Seq(Int) /\ Len(y) = l + Len(t)
      /\ \A k \in 1..l : y[k] = w[k]
      /\ \A k \in (l + 1)..(l + Len(t)) : y[k] = t[k - l]
  BY <1>1
<1>4. Begins(t, <<>>, t[1])
  BY <1>2 DEF Begins
<1> HIDE DEF y, l
<1> DEFINE k == l + 1
<1>5. k \in (l + 1)..(l + Len(t)) /\ k - l = 1
  BY <1>2
<1>6. y[l + 1] = t[1] /\ l < Len(y)
  <2>1. y[k] = t[1]
    <3> HIDE DEF k
    <3> QED
      BY <1>3, <1>5
  <2>2. l < Len(y)
    BY <1>2, <1>3
  <2> QED
    BY <2>1, <2>2
<1>7. Begins(y, w, t[1])
  BY <1>3, <1>6 DEF Begins, l
<1> QED
  BY <1>4, <1>7 DEF y

\* Of two sequences that begin alike, what comes then decides.
LEMMA LessBegins ==
  ASSUME NEW w \in Seq(Int), NEW x \in Int, NEW y \in Int, x < y,
         NEW s, Begins(s, w, x), NEW t, Begins(t, w, y)
  PROVE  Less(s, t)
<1> DEFINE i == Len(w) + 1
<1>1. Len(w) \in Nat /\ Len(s) \in Nat /\ Len(t) \in Nat /\ DOMAIN t = 1..Len(t)
  BY DEF Begins
<1>2. i \in DOMAIN t /\ s[i] < t[i]
  BY <1>1 DEF Begins
<1>3. \A j \in 1..(i - 1) : j <= Len(s) /\ s[j] = t[j]
  BY <1>1 DEF Begins
<1> HIDE DEF i
<1> QED
  BY <1>2, <1>3 DEF Less

\* What a row of sequences begins with, they begin with when joined.
LEMMA JoinedBegins ==
  ASSUME NEW n \in Nat \ {0}, NEW q \in Sequences(n, Int), NEW f, JoinedUpTo(f, n, q),
         NEW k \in 1..n, NEW w \in Seq(Int), NEW x \in Int, Begins(f[k], w, x)
  PROVE  Begins(f[n], w, x)
<1> DEFINE H == {i \in 0..n : i < k \/ Begins(f[i], w, x)}
<1>1. 0 \in H
  OBVIOUS
<1>2. ASSUME NEW i \in 1..n, i - 1 \in H PROVE i \in H
  <2>1. CASE i < k
    BY <2>1
  <2>2. CASE i = k
    BY <2>2
  <2>3. CASE i > k
    <3>1. Begins(f[i - 1], w, x) /\ i # 1
      BY <1>2, <2>3
    <3>2. f[i] = f[i - 1] \o q[i]
      BY <3>1 DEF JoinedUpTo
    <3>3. q[i] \in Seq(Int)
      BY DEF Sequences
    <3>4. Begins(f[i - 1] \o q[i], w, x)
      <4> DEFINE s == f[i - 1]
                 t == q[i]
      <4>1. Begins(s, w, x) /\ t \in Seq(Int)
        BY <3>1, <3>3
      <4> HIDE DEF s, t
      <4>2. Begins(s \o t, w, x)
        BY <4>1, BeginsBefore
      <4> QED
        BY <4>2 DEF s, t
    <3>5. Begins(f[i], w, x)
      BY <3>2, <3>4
    <3> QED
      BY <3>5
  <2> QED
    BY <2>1, <2>2, <2>3
<1> HIDE DEF H
<1>3. \A i \in 0..n : i \in H
  BY <1>1, <1>2, StepByStep
<1>4. n \in H
  BY <1>3
<1> QED
  BY <1>4 DEF H

\* Rows that are alike before k are alike when joined, up to there.
LEMMA JoinedAlike ==
  ASSUME NEW n \in Nat \ {0}, NEW q \in Sequences(n, Int), NEW f, JoinedUpTo(f, n, q),
         NEW r \in Sequences(n, Int), NEW g, JoinedUpTo(g, n, r),
         NEW k \in 1..n, \A i \in 1..(k - 1) : q[i] = r[i]
  PROVE  \A i \in 1..(k - 1) : f[i] = g[i] /\ f[i] \in Seq(Int)
<1> DEFINE H == {i \in 0..(k - 1) : i = 0 \/ (f[i] = g[i] /\ f[i] \in Seq(Int))}
<1>1. 0 \in H
  OBVIOUS
<1>2. ASSUME NEW i \in 1..(k - 1), i - 1 \in H PROVE i \in H
  <2>0. i \in 1..n
    OBVIOUS
  <2>1. q[i] = r[i] /\ q[i] \in Seq(Int)
    BY <2>0 DEF Sequences
  <2>2. CASE i = 1
    <3>1. f[i] = q[i] /\ g[i] = r[i]
      BY <2>0, <2>2 DEF JoinedUpTo
    <3> QED
      BY <2>1, <3>1
  <2>3. CASE i # 1
    <3>1. f[i] = f[i - 1] \o q[i] /\ g[i] = g[i - 1] \o r[i]
      BY <2>0, <2>3 DEF JoinedUpTo
    <3>2. f[i - 1] = g[i - 1] /\ f[i - 1] \in Seq(Int)
      BY <1>2, <2>3
    <3>3. f[i - 1] \o q[i] \in Seq(Int)
      BY <2>1, <3>2
    <3>4. f[i] = g[i]
      BY <2>1, <3>1, <3>2
    <3>5. f[i] \in Seq(Int)
      BY <3>1, <3>3
    <3> QED
      BY <3>4, <3>5
  <2> QED
    BY <2>2, <2>3
<1> HIDE DEF H
<1>3. \A i \in 0..(k - 1) : i \in H
  BY <1>1, <1>2, StepByStep
<1> QED
  BY <1>3 DEF H

\* Of two rows, the first difference decides when they are joined.
LEMMA FlattenDiffer ==
  ASSUME NEW n \in Nat \ {0}, NEW q \in Sequences(n, Int), NEW r \in Sequences(n, Int),
         NEW k \in 1..n, \A i \in 1..(k - 1) : q[i] = r[i],
         q[k] # <<>>, r[k] # <<>>, q[k][1] < r[k][1]
  PROVE  Less(FlattenSeq(q), FlattenSeq(r))
<1>1. q \in [1..n -> Seq(Int)] /\ r \in [1..n -> Seq(Int)]
  BY DEF Sequences
<1>2. PICK f : JoinedUpTo(f, n, q) /\ FlattenSeq(q) = f[n]
  BY <1>1, FlattenIs
<1>3. PICK g : JoinedUpTo(g, n, r) /\ FlattenSeq(r) = g[n]
  BY <1>1, FlattenIs
<1>4. q[k] \in Seq(Int) /\ r[k] \in Seq(Int) /\ q[k][1] \in Int /\ r[k][1] \in Int
  <2>1. q[k] \in Seq(Int) /\ r[k] \in Seq(Int)
    BY <1>1
  <2> DEFINE s == q[k]
             t == r[k]
  <2>2. s \in Seq(Int) /\ s # <<>> /\ t \in Seq(Int) /\ t # <<>>
    BY <2>1
  <2> HIDE DEF s, t
  <2>3. s[1] \in Int /\ t[1] \in Int
    BY <2>2
  <2> QED
    BY <2>1, <2>3 DEF s, t
<1>5. \E w \in Seq(Int) : Begins(f[k], w, q[k][1]) /\ Begins(g[k], w, r[k][1])
  <2> DEFINE s == q[k]
             t == r[k]
  <2>0. s \in Seq(Int) /\ s # <<>> /\ t \in Seq(Int) /\ t # <<>>
    BY <1>4
  <2>1. CASE k = 1
    <3>1. f[k] = s /\ g[k] = t
      BY <1>2, <1>3, <2>1 DEF JoinedUpTo
    <3> HIDE DEF s, t
    <3>2. <<>> \in Seq(Int)
      OBVIOUS
    <3>3. Begins(s, <<>>, s[1]) /\ Begins(t, <<>>, t[1])
      BY <2>0, <3>2, BeginsBehind
    <3>4. Begins(f[k], <<>>, s[1]) /\ Begins(g[k], <<>>, t[1])
      BY <3>1, <3>3
    <3> QED
      BY <3>2, <3>4 DEF s, t
  <2>2. CASE k # 1
    <3> DEFINE w == f[k - 1]
    <3>1. f[k] = w \o s /\ g[k] = g[k - 1] \o t
      BY <1>2, <1>3, <2>2 DEF JoinedUpTo
    <3>2. \A i \in 1..(k - 1) : f[i] = g[i] /\ f[i] \in Seq(Int)
      <4>1. JoinedUpTo(f, n, q)
        BY <1>2
      <4>2. JoinedUpTo(g, n, r)
        BY <1>3
      <4> HIDE DEF s, t, w
      <4>3. \A i \in 1..(k - 1) : q[i] = r[i]
        OBVIOUS
      <4> QED
        BY <4>1, <4>2, <4>3, JoinedAlike, SMTT(60)
    <3>3. g[k - 1] = w /\ w \in Seq(Int)
      BY <2>2, <3>2
    <3> HIDE DEF s, t, w
    <3>4. Begins(w \o s, w, s[1]) /\ Begins(w \o t, w, t[1])
      BY <2>0, <3>3, BeginsBehind
    <3>5. Begins(f[k], w, s[1]) /\ Begins(g[k], w, t[1])
      BY <3>1, <3>3, <3>4
    <3> QED
      BY <3>3, <3>5 DEF s, t
  <2> QED
    BY <2>1, <2>2
<1>6. PICK w \in Seq(Int) : Begins(f[k], w, q[k][1]) /\ Begins(g[k], w, r[k][1])
  BY <1>5
<1>7. Begins(f[n], w, q[k][1])
  BY <1>2, <1>4, <1>6, JoinedBegins
<1>8. Begins(g[n], w, r[k][1])
  BY <1>3, <1>4, <1>6, JoinedBegins
<1>9. Less(f[n], g[n])
  BY <1>4, <1>7, <1>8, LessBegins
<1> QED
  BY <1>2, <1>3, <1>9

\* The products of some lines.
SkusOn(s) == [j \in DOMAIN s |-> s[j].sku]

\* Those of two pieces, one after the other.
LEMMA SkusTogether ==
  ASSUME NEW X, \A l \in X : l.sku \in Int, NEW s \in Seq(X), NEW t \in Seq(X)
  PROVE  SkusOn(s) \in Seq(Int) /\ SkusOn(s \o t) = SkusOn(s) \o SkusOn(t)
<1>1. ASSUME NEW u \in Seq(X)
      PROVE  /\ SkusOn(u) \in Seq(Int) /\ Len(SkusOn(u)) = Len(u)
             /\ \A j \in 1..Len(u) : SkusOn(u)[j] = u[j].sku
  <2>1. DOMAIN u = 1..Len(u) /\ Len(u) \in Nat /\ \A j \in 1..Len(u) : u[j].sku \in Int
    OBVIOUS
  <2> DEFINE v == SkusOn(u)
  <2>2. v = [j \in 1..Len(u) |-> u[j].sku]
    BY <2>1 DEF SkusOn
  <2> HIDE DEF v
  <2>3. v \in Seq(Int) /\ Len(v) = Len(u) /\ \A j \in 1..Len(u) : v[j] = u[j].sku
    BY <2>1, <2>2
  <2> QED
    BY <2>3 DEF v
<1>2. /\ s \o t \in Seq(X) /\ Len(s \o t) = Len(s) + Len(t)
      /\ \A k \in 1..Len(s) : (s \o t)[k] = s[k]
      /\ \A k \in (Len(s) + 1)..(Len(s) + Len(t)) : (s \o t)[k] = t[k - Len(s)]
  BY JoinedIs
<1> DEFINE x == s \o t
           a == SkusOn(s)
           b == SkusOn(t)
           c == SkusOn(x)
           y == a \o b
<1>3. /\ a \in Seq(Int) /\ Len(a) = Len(s) /\ \A j \in 1..Len(s) : a[j] = s[j].sku
  BY <1>1
<1>4. /\ b \in Seq(Int) /\ Len(b) = Len(t) /\ \A j \in 1..Len(t) : b[j] = t[j].sku
  BY <1>1
<1>5. /\ c \in Seq(Int) /\ Len(c) = Len(x) /\ \A j \in 1..Len(x) : c[j] = x[j].sku
  BY <1>1, <1>2
<1>6. /\ Len(x) = Len(s) + Len(t) /\ Len(s) \in Nat /\ Len(t) \in Nat
      /\ \A k \in 1..Len(s) : x[k] = s[k]
      /\ \A k \in (Len(s) + 1)..(Len(s) + Len(t)) : x[k] = t[k - Len(s)]
  BY <1>2
<1> HIDE DEF a, b, c, x, y
<1>7. /\ a \o b \in Seq(Int) /\ Len(a \o b) = Len(a) + Len(b)
      /\ \A k \in 1..Len(a) : (a \o b)[k] = a[k]
      /\ \A k \in (Len(a) + 1)..(Len(a) + Len(b)) : (a \o b)[k] = b[k - Len(a)]
  <2>1. a \in Seq(Int) /\ b \in Seq(Int)
    BY <1>3, <1>4
  <2> QED
    BY <2>1, JoinedIs
<1>8. /\ y \in Seq(Int) /\ Len(y) = Len(a) + Len(b)
      /\ \A k \in 1..Len(a) : y[k] = a[k]
      /\ \A k \in (Len(a) + 1)..(Len(a) + Len(b)) : y[k] = b[k - Len(a)]
  BY <1>7 DEF y
<1>9. \A k \in 1..Len(x) : c[k] = y[k]
  <2> SUFFICES ASSUME NEW k \in 1..Len(x) PROVE c[k] = y[k]
    OBVIOUS
  <2>1. CASE k \in 1..Len(s)
    BY <1>3, <1>5, <1>6, <1>8, <2>1
  <2>2. CASE k \notin 1..Len(s)
    <3>1. k \in (Len(s) + 1)..(Len(s) + Len(t)) /\ k - Len(s) \in 1..Len(t)
      BY <1>6, <2>2
    <3>2. c[k] = t[k - Len(s)].sku
      BY <1>5, <1>6, <3>1
    <3>3. y[k] = b[k - Len(s)]
      BY <1>3, <1>4, <1>8, <3>1
    <3> QED
      BY <1>4, <3>1, <3>2, <3>3
  <2> QED
    BY <2>1, <2>2
<1>10. Len(c) = Len(x) /\ Len(y) = Len(x)
  BY <1>3, <1>4, <1>5, <1>6, <1>8
<1>11. c = y
  BY <1>5, <1>8, <1>9, <1>10, SMTT(30)
<1> QED
  BY <1>3, <1>11 DEF a, b, c, x, y

\* The products of joined lines are those of the parts, joined.
LEMMA SkusOfAll ==
  ASSUME NEW n \in Nat, NEW X, \A l \in X : l.sku \in Int, NEW q \in Sequences(n, X),
         NEW r, r = [i \in 1..n |-> SkusOn(q[i])]
  PROVE  /\ r \in Sequences(n, Int)
         /\ SkusOn(FlattenSeq(q)) = FlattenSeq(r) /\ FlattenSeq(r) \in Seq(Int)
<1>1. q \in [1..n -> Seq(X)]
  BY DEF Sequences
<1>2. \A s \in Seq(X) : SkusOn(s) \in Seq(Int)
  BY SkusTogether
<1>3. r \in [1..n -> Seq(Int)]
  BY <1>1, <1>2
<1>4. CASE n = 0
  <2>1. q = <<>> /\ r = <<>>
    BY <1>1, <1>3, <1>4
  <2>2. SkusOn(<<>>) = <<>>
    BY DEF SkusOn
  <2>3. FlattenSeq(q) = <<>> /\ FlattenSeq(r) = <<>>
    BY <2>1, FlattenOfNothing
  <2> QED
    BY <1>3, <2>2, <2>3 DEF Sequences
<1>5. CASE n # 0
  <2>1. PICK f : JoinedUpTo(f, n, q) /\ FlattenSeq(q) = f[n]
    BY <1>1, <1>5, FlattenIs
  <2>2. PICK g : JoinedUpTo(g, n, r) /\ FlattenSeq(r) = g[n]
    BY <1>3, <1>5, FlattenIs
  <2> DEFINE H == {i \in 0..n : i = 0 \/ (f[i] \in Seq(X) /\ SkusOn(f[i]) = g[i])}
  <2>3. ASSUME NEW i \in 1..n, i - 1 \in H PROVE i \in H
    <3> DEFINE t == q[i]
    <3>1. t \in Seq(X) /\ r[i] = SkusOn(t)
      BY <1>1
    <3>2. CASE i = 1
      <4>1. f[i] = q[i] /\ g[i] = r[i]
        BY <2>1, <2>2, <3>2 DEF JoinedUpTo
      <4> QED
        BY <3>1, <4>1
    <3>3. CASE i # 1
      <4> DEFINE s == f[i - 1]
      <4>1. f[i] = s \o t /\ g[i] = g[i - 1] \o r[i]
        BY <2>1, <2>2, <3>3 DEF JoinedUpTo
      <4>2. s \in Seq(X) /\ SkusOn(s) = g[i - 1]
        BY <2>3, <3>3
      <4> HIDE DEF s, t
      <4>3. SkusOn(s \o t) = SkusOn(s) \o SkusOn(t)
        BY <3>1, <4>2, SkusTogether
      <4>4. s \o t \in Seq(X)
        BY <3>1, <4>2
      <4>5. f[i] \in Seq(X) /\ SkusOn(f[i]) = g[i]
        BY <3>1, <4>1, <4>2, <4>3, <4>4
      <4> QED
        BY <4>5
    <3> QED
      BY <3>2, <3>3
  <2>4. 0 \in H
    OBVIOUS
  <2> HIDE DEF H
  <2>5. \A i \in 0..n : i \in H
    BY <2>3, <2>4, StepByStep
  <2>6. n \in H
    BY <2>5
  <2>7. f[n] \in Seq(X) /\ SkusOn(f[n]) = g[n]
    BY <1>5, <2>6 DEF H
  <2> QED
    BY <1>2, <1>3, <2>1, <2>2, <2>7 DEF Sequences
<1> QED
  BY <1>4, <1>5

\* The tax and the fee of each order are those of its store and its items.
LEMMA OrdersCharge ==
  ASSUME NEW n \in Nat, NEW bought, NEW stores, NEW config,
         IsAssignments(bought, n, stores, config), IsStores(stores)
  PROVE  LET orders == StoreOrders(CartLines(bought), stores, config)
         IN  \A k \in DOMAIN orders :
               /\ orders[k].tax = TaxOn(stores[orders[k].store], orders[k].items, config)
               /\ orders[k].fee
                    = ChooseFulfillment(stores[orders[k].store], orders[k].items, config).fee
<1> DEFINE lines == CartLines(bought)
           U == UsedBy(bought)
           V == {lines[i].store : i \in DOMAIN lines}
           used == InOrderOf(V)
           orders == StoreOrders(lines, stores, config)
           part(k) == At(lines, LAMBDA i : lines[i].store = used[k])
<1>1. PICK X : /\ lines \in Seq(X)
               /\ \A l \in X : l.store \in U
  BY LinesAre
<1>2. U \in SUBSET DOMAIN stores /\ U \in SUBSET Int /\ IsFiniteSet(U)
  BY AssignmentsAre
<1>3. orders = [k \in DOMAIN used |-> BuildOrder(stores[used[k]], part(k), config)]
  BY DEF StoreOrders, OrdersAt, InOrderOf
<1> HIDE DEF lines, U
<1>4. V \in SUBSET U
  BY <1>1
<1>5. V \in SUBSET Int /\ IsFiniteSet(V)
  BY <1>2, <1>4, FS_Subset
<1> HIDE DEF V
<1>6. ListsOnce(used, V) /\ DOMAIN used = 1..Cardinality(V)
  BY <1>5, SortedNumbers
<1> HIDE DEF used
<1>7. \A k \in DOMAIN used : used[k] \in DOMAIN stores
  BY <1>2, <1>4, <1>6 DEF ListsOnce
<1> HIDE DEF part, orders
<1> SUFFICES ASSUME NEW k \in DOMAIN orders
             PROVE  /\ orders[k].tax = TaxOn(stores[orders[k].store], orders[k].items, config)
                    /\ orders[k].fee
                         = ChooseFulfillment(stores[orders[k].store], orders[k].items, config).fee
  BY DEF orders, lines
<1> DEFINE st == stores[used[k]]
           p == part(k)
           items == SumFunction([i \in DOMAIN p |-> p[i].cost])
           tax == TaxOn(st, items, config)
           way == ChooseFulfillment(st, items, config)
           o == orders[k]
<1>8. o = BuildOrder(st, p, config) /\ k \in DOMAIN used
  BY <1>3
<1>9. st.id = used[k]
  BY <1>7, <1>8 DEF IsStores
<1> HIDE DEF st, p, o
<1>10. o = Order(st, p, items, tax, way)
  BY <1>8 DEF BuildOrder, OrderOf
<1> HIDE DEF items
<1>11. o = Order(st, p, items, tax, way)
  BY <1>10
<1> HIDE DEF tax, way
<1>12. o.store = st.id /\ o.items = items /\ o.tax = tax /\ o.fee = way.fee
  BY <1>11 DEF Order
<1>13. stores[o.store] = st
  BY <1>9, <1>12 DEF st
<1> QED
  BY <1>12, <1>13 DEF tax, way, o

\* The products of a cart are those of its assignments, one after the other.
SkusBought(b) == FlattenSeq([i \in DOMAIN b |-> SkusOn(b[i].sel.lines)])

\* The products of a cart, in the order of its lines, are those of what was bought.
LEMMA SkusOfCart ==
  ASSUME NEW n \in Nat, NEW b, NEW stores, NEW config, IsAssignments(b, n, stores, config)
  PROVE  SkusOn(CartLines(b)) = SkusBought(b) /\ SkusBought(b) \in Seq(Int)
<1> DEFINE IsPart(q) == \A i \in 1..n :
                          /\ DOMAIN q[i] = DOMAIN b[i].sel.lines
                          /\ \A j \in DOMAIN q[i] : q[i][j].sku = b[i].sel.lines[j].sku
<1>1. PICK X : \E q \in Sequences(n, X) : /\ CartLines(b) = FlattenSeq(q)
                                          /\ \A l \in X : l.sku \in Int
                                          /\ IsPart(q)
  BY LinesParts
<1>2. PICK q \in Sequences(n, X) : /\ CartLines(b) = FlattenSeq(q)
                                   /\ \A l \in X : l.sku \in Int
                                   /\ IsPart(q)
  BY <1>1
<1>3. DOMAIN b = 1..n
  BY DEF IsAssignments
<1> DEFINE r == [i \in 1..n |-> SkusOn(q[i])]
           t == [i \in DOMAIN b |-> SkusOn(b[i].sel.lines)]
<1>4. \A i \in 1..n : SkusOn(q[i]) = SkusOn(b[i].sel.lines)
  BY <1>2 DEF SkusOn
<1>5. r = t
  BY <1>3, <1>4
<1>6. \A l \in X : l.sku \in Int
  BY <1>2
<1> HIDE DEF r, IsPart
<1>7. r = [i \in 1..n |-> SkusOn(q[i])]
  BY DEF r
<1>8. SkusOn(FlattenSeq(q)) = FlattenSeq(r) /\ FlattenSeq(r) \in Seq(Int)
  BY <1>6, <1>7, SkusOfAll
<1>9. SkusBought(b) = FlattenSeq(r)
  BY <1>5 DEF SkusBought
<1> QED
  BY <1>2, <1>8, <1>9

\* The subtotals of the stores.
SubtotalsOf(b) == [s \in UsedBy(b) |-> CostOfStore(b, s)]

\* What is spent at a store and at all stores, and the first part of the key.
SpentAt(p, sums, s) ==
  sums[s] + TaxAt(p, sums, s) + ChooseFulfillment(p.stores[s], sums[s], p.config).fee

SpentOn(p, sums) == SumFunction([s \in DOMAIN sums |-> SpentAt(p, sums, s)])

CostsKey(p, sums) ==
  <<FinalComparisonCost(p, sums), SpentOn(p, sums), Cardinality(DOMAIN sums)>>
    \o InOrderOf(DOMAIN sums)

\* A penalty is for each store after the first.
LEMMA PenaltyIs ==
  ASSUME NEW n \in Nat
  PROVE  /\ Penalty(n) \in Nat /\ (n = 0 => Penalty(n) = 0)
         /\ n > 0 => Penalty(n) = (n - 1) * ADDITIONAL_STORE_PENALTY_CENTS
         /\ \A m \in 0..n : Penalty(m) <= Penalty(n)
<1>1. ASSUME NEW m \in Nat
      PROVE  Penalty(m) = (IF m = 0 THEN 0 ELSE m - 1) * ADDITIONAL_STORE_PENALTY_CENTS
  <2> DEFINE S == {m - 1, 0}
             x == IF m = 0 THEN 0 ELSE m - 1
  <2>1. x \in S /\ \A y \in S : y <= x
    OBVIOUS
  <2>2. Max(S) = CHOOSE y \in S : \A z \in S : y >= z
    BY DEF Max
  <2>3. S \in SUBSET Int /\ x \in Int
    OBVIOUS
  <2> HIDE DEF S, x
  <2>4. \A y \in S : (\A z \in S : y >= z) <=> y = x
    BY <2>1, <2>3
  <2>5. Max(S) = x
    BY <2>1, <2>2, <2>4
  <2> QED
    BY <2>5 DEF Penalty, S, x
<1> QED
  BY <1>1 DEF ADDITIONAL_STORE_PENALTY_CENTS

\* The comparison cost is what is spent, and the penalty.
LEMMA FinalIs ==
  ASSUME NEW p, NEW sums
  PROVE  FinalComparisonCost(p, sums) = SpentOn(p, sums) + Penalty(Cardinality(DOMAIN sums))
BY DEF FinalComparisonCost, SpentOn, SpentAt

\* What is bought of a problem.
Buys(p, b, n) ==
  n \in Nat /\ IsStores(p.stores) /\ Wants(p.config) /\ IsAssignments(b, n, p.stores, p.config)

\* What is spent at each store is an amount.
LEMMA SubtotalsAre ==
  ASSUME NEW n, NEW p, NEW b, Buys(p, b, n)
  PROVE  LET sums == SubtotalsOf(b)
         IN  /\ DOMAIN sums = UsedBy(b) /\ IsFiniteSet(UsedBy(b)) /\ UsedBy(b) \in SUBSET Int
             /\ sums = [s \in UsedBy(b) |-> sums[s]]
             /\ Cardinality(UsedBy(b)) \in Nat
             /\ \A s \in UsedBy(b) :
                  /\ sums[s] = CostOfStore(b, s) /\ sums[s] \in Nat \ {0}
                  /\ TaxAt(p, sums, s) \in Nat
                  /\ ChooseFulfillment(p.stores[s], sums[s], p.config).fee \in Nat
                  /\ SpentAt(p, sums, s) \in Nat
<1> DEFINE sums == SubtotalsOf(b)
           U == UsedBy(b)
<1>1. /\ n \in Nat /\ IsStores(p.stores) /\ Wants(p.config)
      /\ IsAssignments(b, n, p.stores, p.config)
  BY DEF Buys
<1>2. /\ U \in SUBSET DOMAIN p.stores /\ U \in SUBSET Int
      /\ IsFiniteSet(U) /\ Cardinality(U) \in Nat
      /\ \A s : CostOfStore(b, s) \in Nat
      /\ \A s \in U : CostOfStore(b, s) # 0 /\ StoreSupportsFulfillment(p.stores[s], p.config)
  BY <1>1, AssignmentsAre
<1>3. DOMAIN sums = U /\ (\A s \in U : sums[s] = CostOfStore(b, s)) /\ sums = [s \in U |-> sums[s]]
  BY DEF SubtotalsOf
<1> HIDE DEF U, sums
<1>4. ASSUME NEW s \in U
      PROVE  /\ sums[s] \in Nat \ {0}
             /\ TaxAt(p, sums, s) \in Nat
             /\ ChooseFulfillment(p.stores[s], sums[s], p.config).fee \in Nat
             /\ SpentAt(p, sums, s) \in Nat
  <2> DEFINE x == sums[s]
             st == p.stores[s]
             config == p.config
             tax == TaxOn(st, x, config)
             fee == ChooseFulfillment(st, x, config).fee
  <2>1. x \in Nat \ {0} /\ x \in Nat
    BY <1>2, <1>3
  <2>2. st.pickupFee \in Nat /\ st.deliveryFee \in Nat
    BY <1>1, <1>2 DEF IsStores
  <2>3. StoreSupportsFulfillment(st, config) /\ Wants(config)
    BY <1>1, <1>2
  <2> HIDE DEF x, st, config
  <2>4. tax \in Nat
    BY <2>1, <2>3, TaxIs
  <2>5. fee \in Nat
    BY <2>2, <2>3, FulfillmentIs
  <2>6. TaxAt(p, sums, s) = tax
    BY DEF TaxAt, x, st, config
  <2> HIDE DEF tax
  <2>7. SpentAt(p, sums, s) = x + tax + fee
    BY <2>6 DEF SpentAt, x, st, config
  <2> HIDE DEF fee
  <2>8. SpentAt(p, sums, s) \in Nat
    BY <2>1, <2>4, <2>5, <2>7
  <2> QED
    BY <2>1, <2>4, <2>5, <2>6, <2>8 DEF x, st, config, fee
<1> QED
  BY <1>2, <1>3, <1>4 DEF sums, U

\* What is spent in all is an amount.
LEMMA SpentIs ==
  ASSUME NEW n, NEW p, NEW b, Buys(p, b, n)
  PROVE  LET sums == SubtotalsOf(b)
         IN  /\ SpentOn(p, sums) \in Nat /\ FinalComparisonCost(p, sums) \in Nat
             /\ SpentOn(p, sums)
                  = SumFunctionOnSet([s \in UsedBy(b) |-> SpentAt(p, sums, s)], UsedBy(b))
             /\ CostsKey(p, sums) \in Seq(Int)
<1> DEFINE sums == SubtotalsOf(b)
           U == UsedBy(b)
           c == Cardinality(U)
           g == [s \in U |-> SpentAt(p, sums, s)]
           final == FinalComparisonCost(p, sums)
           spent == SpentOn(p, sums)
           q == InOrderOf(U)
<1>1. /\ DOMAIN sums = U /\ IsFiniteSet(U) /\ U \in SUBSET Int /\ c \in Nat
      /\ \A s \in U : SpentAt(p, sums, s) \in Nat
  BY SubtotalsAre
<1>2. \A s \in U : g[s] \in Nat
  BY <1>1
<1>3. spent = SumFunctionOnSet(g, U)
  BY <1>1 DEF SpentOn, SumFunction
<1> HIDE DEF U, sums, g
<1>4. SumFunctionOnSet(g, U) \in Nat
  BY <1>1, <1>2, SumNat
<1>5. Penalty(c) \in Nat
  BY <1>1, PenaltyIs
<1>6. final = spent + Penalty(c)
  BY <1>1, FinalIs
<1> HIDE DEF spent, final
<1>7. spent \in Nat /\ final \in Nat
  BY <1>3, <1>4, <1>5, <1>6
<1>8. q \in Seq(Int)
  <2>1. ListsOnce(q, U)
    BY <1>1, SortedNumbers
  <2>2. q \in [1..c -> U]
    BY <2>1 DEF ListsOnce
  <2>3. c \in Nat /\ U \in SUBSET Int
    BY <1>1
  <2> HIDE DEF q, c
  <2>4. q \in [1..c -> Int]
    BY <2>2, <2>3
  <2> QED
    BY <2>3, <2>4
<1>9. CostsKey(p, sums) = <<final, spent, c>> \o q
  BY <1>1 DEF CostsKey, final, spent
<1>10. <<final, spent, c>> \in Seq(Int)
  BY <1>1, <1>7
<1> HIDE DEF q, c
<1>11. CostsKey(p, sums) \in Seq(Int)
  BY <1>8, <1>9, <1>10
<1> QED
  BY <1>3, <1>7, <1>11 DEF sums, U, g, spent, final

\* The items, the tax and the fees of all orders are what is spent.
LEMMA LandedIs ==
  ASSUME NEW n, NEW p, NEW b, Buys(p, b, n), n > 0
  PROVE  LET orders == StoreOrders(CartLines(b), p.stores, p.config)
         IN  Total(orders, "items") + Total(orders, "tax") + Total(orders, "fee")
               = SpentOn(p, SubtotalsOf(b))
<1> DEFINE lines == CartLines(b)
           orders == StoreOrders(lines, p.stores, p.config)
           sums == SubtotalsOf(b)
           U == UsedBy(b)
           q == InOrderOf(U)
           g == [s \in U |-> SpentAt(p, sums, s)]
           f == [k \in DOMAIN orders |-> orders[k].landed]
<1>1. /\ n \in Nat /\ IsStores(p.stores) /\ Wants(p.config)
      /\ IsAssignments(b, n, p.stores, p.config)
  BY DEF Buys
<1>2. IsOrders(orders, b)
  BY <1>1, OrdersAre
<1>3. \A k \in DOMAIN orders :
        /\ orders[k].tax = TaxOn(p.stores[orders[k].store], orders[k].items, p.config)
        /\ orders[k].fee
             = ChooseFulfillment(p.stores[orders[k].store], orders[k].items, p.config).fee
  BY <1>1, OrdersCharge
<1> HIDE DEF orders
<1>4. SumFunction(f) = Total(orders, "items") + Total(orders, "tax") + Total(orders, "fee")
  BY <1>1, <1>2, TotalsAre
<1>5. /\ DOMAIN sums = U /\ IsFiniteSet(U)
      /\ \A s \in U : sums[s] = CostOfStore(b, s) /\ SpentAt(p, sums, s) \in Nat
  BY SubtotalsAre
<1>6. ListsOnce(q, U)
  BY <1>1, AssignmentsAre
<1>7. DOMAIN q = DOMAIN orders /\ \A k \in DOMAIN q : q[k] \in U
  BY <1>2, <1>6 DEF IsOrders, ListsOnce
<1>8. ASSUME NEW k \in DOMAIN q PROVE f[k] = g[q[k]]
  <2> DEFINE o == orders[k]
  <2>1. k \in DOMAIN orders /\ q[k] \in U
    BY <1>7
  <2>2. /\ o.store = q[k] /\ o.items = CostOfStore(b, o.store)
        /\ o.landed = o.items + o.tax + o.fee
    BY <1>2, <2>1 DEF IsOrders
  <2>3. /\ o.tax = TaxOn(p.stores[o.store], o.items, p.config)
        /\ o.fee = ChooseFulfillment(p.stores[o.store], o.items, p.config).fee
    BY <1>3, <2>1
  <2>4. o.items = sums[o.store] /\ o.store \in U
    BY <1>5, <2>1, <2>2
  <2>5. f[k] = o.landed
    BY <2>1
  <2> HIDE DEF o, sums, U, q, f
  <2>6. o.landed = SpentAt(p, sums, o.store)
    BY <2>2, <2>3, <2>4 DEF SpentAt, TaxAt
  <2> QED
    BY <2>2, <2>4, <2>5, <2>6
<1>9. \A s \in U : g[s] \in Nat
  BY <1>5
<1>10. SpentOn(p, sums) = SumFunctionOnSet(g, U)
  BY SpentIs
<1>11. SumFunction(f) = SumFunctionOnSet(f, DOMAIN q)
  BY <1>7 DEF SumFunction
<1> HIDE DEF f, g, q, U
<1>12. SumFunctionOnSet(f, DOMAIN q) = SumFunctionOnSet(g, U)
  BY <1>5, <1>6, <1>8, <1>9, SumListed
<1> QED
  BY <1>4, <1>10, <1>11, <1>12 DEF orders, lines, sums

\* The key of a cart is that of its costs, and its products.
LEMMA KeyIs ==
  ASSUME NEW n, NEW p, NEW b, Buys(p, b, n)
  PROVE  LET plan == BuildPlan(b, p.stores, p.config)
             sums == SubtotalsOf(b)
         IN  /\ PlanSortKey(plan) = CostsKey(p, sums) \o SkusBought(b)
             /\ plan.comparison = FinalComparisonCost(p, sums)
<1> DEFINE plan == BuildPlan(b, p.stores, p.config)
           sums == SubtotalsOf(b)
           U == UsedBy(b)
           c == Cardinality(U)
<1>1. /\ n \in Nat /\ IsStores(p.stores) /\ Wants(p.config)
      /\ IsAssignments(b, n, p.stores, p.config)
  BY DEF Buys
<1>2. b = [i \in 1..n |-> b[i]]
  BY <1>1 DEF IsAssignments
<1>3. DOMAIN b = 1..n
  BY <1>1 DEF IsAssignments
<1>4. DOMAIN sums = U /\ c \in Nat
  BY SubtotalsAre
<1>5. CASE n = 0
  <2>1. b = <<>>
    BY <1>2, <1>5
  <2>2. plan = EmptyPlan
    BY <2>1 DEF BuildPlan
  <2>3. U = {} /\ c = 0
    <3>1. U = {}
      BY <2>1 DEF UsedBy
    <3> QED
      BY <3>1, FS_EmptySet
  <2>4. SpentOn(p, sums) = 0
    <3>1. SpentOn(p, sums) = SumFunctionOnSet([s \in U |-> SpentAt(p, sums, s)], U)
      BY SpentIs
    <3> HIDE DEF U, sums
    <3> QED
      BY <2>3, <3>1, SumOfNone
  <2>5. FinalComparisonCost(p, sums) = 0
    <3>1. Penalty(c) = 0
      BY <1>4, <2>3, PenaltyIs
    <3> HIDE DEF U, sums, c
    <3> QED
      BY <1>4, <2>4, <3>1, FinalIs DEF c
  <2>6. InOrderOf(U) = <<>>
    <3>1. InOrderOf(U) = [k \in 1..c |-> CHOOSE x \in U : Cardinality({y \in U : y < x}) = k - 1]
      BY InOrderIs
    <3>2. 1..c = {}
      BY <2>3
    <3> QED
      BY <3>1, <3>2
  <2>7. SkusBought(b) = <<>>
    <3>1. [i \in DOMAIN b |-> SkusOn(b[i].sel.lines)] = <<>>
      BY <2>1
    <3> QED
      BY <3>1, FlattenOfNothing DEF SkusBought
  <2>8. CostsKey(p, sums) = <<0, 0, 0>> \o <<>>
    <3> HIDE DEF U, sums
    <3> QED
      BY <1>4, <2>3, <2>4, <2>5, <2>6 DEF CostsKey, c
  <2>9. PlanSortKey(EmptyPlan) = <<0, 0, 0>> \o <<>> \o <<>> /\ EmptyPlan.comparison = 0
    <3> DEFINE e == EmptyPlan
    <3>1. /\ e.comparison = 0 /\ e.landed = 0 /\ e.orders = <<>> /\ e.lines = <<>>
      BY DEF EmptyPlan
    <3> HIDE DEF e
    <3>2. Len(e.orders) = 0
      BY <3>1
    <3>3. [k \in DOMAIN e.orders |-> e.orders[k].store] = <<>>
      BY <3>1
    <3>4. [i \in DOMAIN e.lines |-> e.lines[i].sku] = <<>>
      BY <3>1
    <3>5. PlanSortKey(e) = <<0, 0, 0>> \o <<>> \o <<>>
      BY <3>1, <3>2, <3>3, <3>4 DEF PlanSortKey
    <3> QED
      BY <3>1, <3>5 DEF e
  <2> HIDE DEF plan, sums
  <2>10. PlanSortKey(plan) = CostsKey(p, sums) \o SkusBought(b)
    BY <2>2, <2>7, <2>8, <2>9
  <2>11. plan.comparison = FinalComparisonCost(p, sums)
    BY <2>2, <2>5, <2>9
  <2> QED
    BY <2>10, <2>11 DEF plan, sums
<1>6. CASE n > 0
  <2> DEFINE lines == CartLines(b)
             orders == StoreOrders(lines, p.stores, p.config)
             shares == ItemShares(b)
             items == Total(orders, "items")
             tax == Total(orders, "tax")
             fee == Total(orders, "fee")
             spent == SpentOn(p, sums)
             final == FinalComparisonCost(p, sums)
  <2>1. plan = PlanOfOrders(b, lines, orders, shares)
    <3>1. 1 \in DOMAIN b /\ 1 \notin DOMAIN <<>>
      BY <1>1, <1>6, <1>3
    <3>2. b # <<>>
      BY <3>1
    <3> QED
      BY <3>2 DEF BuildPlan, PlanOfLines
  <2>2. IsOrders(orders, b)
    BY <1>1, OrdersAre
  <2>3. items + tax + fee = spent
    BY <1>6, LandedIs
  <2>4. SkusOn(lines) = SkusBought(b)
    BY <1>1, SkusOfCart
  <2> HIDE DEF orders, shares, lines
  <2>5. /\ plan.lines = lines /\ plan.orders = orders /\ plan.landed = items + tax + fee
        /\ plan.comparison = plan.landed + (Len(orders) - 1) * ADDITIONAL_STORE_PENALTY_CENTS
    <3> HIDE DEF items, tax, fee, plan
    <3> QED
      BY <2>1 DEF PlanOfOrders, items, tax, fee
  <2>6. /\ DOMAIN orders = 1..c /\ orders = [k \in DOMAIN orders |-> orders[k]]
        /\ \A k \in DOMAIN orders : orders[k].store = InOrderOf(U)[k]
    BY <2>2 DEF IsOrders
  <2>7. InOrderOf(U) = [k \in 1..c |-> InOrderOf(U)[k]]
    <3> DEFINE e(k) == CHOOSE x \in U : Cardinality({y \in U : y < x}) = k - 1
               q == InOrderOf(U)
    <3>1. q = [k \in 1..c |-> e(k)]
      BY InOrderIs
    <3> HIDE DEF q, e, c
    <3>2. q = [k \in 1..c |-> q[k]]
      BY <3>1
    <3> QED
      BY <3>2 DEF q
  <2>8. [k \in DOMAIN orders |-> orders[k].store] = InOrderOf(U)
    <3> DEFINE q == InOrderOf(U)
    <3>1. q = [k \in 1..c |-> q[k]]
      BY <2>7
    <3> HIDE DEF q, c
    <3> QED
      BY <2>6, <3>1 DEF q
  <2> HIDE DEF U, items, tax, fee, plan
  <2>9. Len(orders) = c
    <3> HIDE DEF c
    <3> DEFINE t(k) == orders[k]
    <3>1. orders = [k \in 1..c |-> t(k)]
      BY <2>6
    <3> HIDE DEF t
    <3> QED
      BY <1>4, <2>6, <3>1
  <2>10. c > 0
    <3>1. b[1].sel.store \in U
      BY <1>1, <1>6, <1>3 DEF UsedBy, U
    <3>2. IsFiniteSet(U)
      BY SubtotalsAre DEF U
    <3>3. c # 0
      BY <3>1, <3>2, FS_EmptySet
    <3> QED
      BY <1>4, <3>3
  <2>11. final = spent + Penalty(c)
    BY <1>4, FinalIs DEF sums, U
  <2>12. Penalty(c) = (c - 1) * ADDITIONAL_STORE_PENALTY_CENTS
    BY <1>4, <2>10, PenaltyIs
  <2> HIDE DEF c, sums, spent, final
  <2>13. plan.landed = spent /\ plan.comparison = final
    BY <2>3, <2>5, <2>9, <2>11, <2>12
  <2>14. [i \in DOMAIN lines |-> lines[i].sku] = SkusBought(b)
    BY <2>4 DEF SkusOn
  <2>15. PlanSortKey(plan) = <<final, spent, c>> \o InOrderOf(U) \o SkusBought(b)
    BY <2>5, <2>8, <2>9, <2>13, <2>14 DEF PlanSortKey
  <2>16. CostsKey(p, sums) = <<final, spent, c>> \o InOrderOf(U)
    BY <1>4 DEF CostsKey, final, spent, c
  <2>17. PlanSortKey(plan) = CostsKey(p, sums) \o SkusBought(b)
    BY <2>15, <2>16
  <2> QED
    BY <2>13, <2>17 DEF plan, sums, final
<1> QED
  BY <1>1, <1>5, <1>6

\* What an assignment buys for the first d needs.
Begun(p, a, d) == BoughtBy(p, [i \in 1..d |-> a[i]])

\* A store that serves each of the first d needs.
Serves(p, a, d) ==
  d \in 0..Len(p.ordered) /\ \A i \in 1..d : a[i] \in DOMAIN p.ordered[i].candidates

\* What a problem says of its needs and of what serves them.
LEMMA ProblemIs ==
  ASSUME NEW p, IsProblem(p)
  PROVE  /\ IsStores(p.stores) /\ Wants(p.config) /\ Len(p.ordered) \in Nat
         /\ IsSearch(p, Len(p.ordered), p.stores, p.config)
         /\ DOMAIN p.ordered = 1..Len(p.ordered)
         /\ \A k \in 1..Len(p.ordered) :
              /\ IsNeed(p.ordered[k].need)
              /\ DOMAIN p.ordered[k].candidates # {}
              /\ DOMAIN p.ordered[k].candidates \in SUBSET DOMAIN p.stores
              /\ IsServed(p.ordered[k].candidates, p.stores, p.config)
<1>1. /\ IsStores(p.stores) /\ Wants(p.config) /\ Len(p.ordered) \in Nat
      /\ IsSearch(p, Len(p.ordered), p.stores, p.config)
      /\ \A k \in DOMAIN p.ordered : DOMAIN p.ordered[k].candidates # {}
  BY DEF IsProblem
<1>2. DOMAIN p.ordered = 1..Len(p.ordered)
  BY <1>1 DEF IsSearch
<1>3. \A k \in 1..Len(p.ordered) : /\ IsNeed(p.ordered[k].need)
                                   /\ IsServed(p.ordered[k].candidates, p.stores, p.config)
  BY <1>1 DEF IsSearch
<1>4. \A k \in 1..Len(p.ordered) : DOMAIN p.ordered[k].candidates \in SUBSET DOMAIN p.stores
  BY <1>3 DEF IsServed
<1> QED
  BY <1>1, <1>2, <1>3, <1>4

\* What was bought is as it was selected.
LEMMA BegunIs ==
  ASSUME NEW p, IsProblem(p), NEW a, NEW d, Serves(p, a, d)
  PROVE  LET b == Begun(p, a, d)
         IN  /\ Buys(p, b, d) /\ DOMAIN b = 1..d /\ b = [i \in 1..d |-> b[i]]
             /\ \A i \in 1..d : /\ b[i] = [need |-> p.ordered[i].need,
                                           sel |-> p.ordered[i].candidates[a[i]]]
                                /\ b[i].sel = p.ordered[i].candidates[a[i]]
                                /\ b[i].sel.store = a[i] /\ b[i].sel.cost \in Nat \ {0}
                                /\ IsSelection(b[i].sel)
<1> DEFINE b == Begun(p, a, d)
           x(i) == [need |-> p.ordered[i].need, sel |-> p.ordered[i].candidates[a[i]]]
<1>1. /\ IsStores(p.stores) /\ Wants(p.config) /\ Len(p.ordered) \in Nat
      /\ \A k \in 1..Len(p.ordered) :
           /\ IsNeed(p.ordered[k].need)
           /\ IsServed(p.ordered[k].candidates, p.stores, p.config)
  BY ProblemIs
<1>2. d \in Nat /\ \A i \in 1..d : i \in 1..Len(p.ordered)
  BY <1>1 DEF Serves
<1>3. b = [i \in 1..d |-> x(i)]
  BY DEF Begun, BoughtBy
<1> HIDE DEF b
<1>4. DOMAIN b = 1..d /\ \A i \in 1..d : b[i] = x(i)
  <2> HIDE DEF x
  <2> QED
    BY <1>3
<1>5. b = [i \in 1..d |-> b[i]]
  <2> HIDE DEF x
  <2> QED
    BY <1>3
<1>6. ASSUME NEW i \in 1..d
      PROVE  /\ b[i].sel = p.ordered[i].candidates[a[i]] /\ b[i].need = p.ordered[i].need
             /\ b[i].sel.store = a[i] /\ b[i].sel.cost \in Nat \ {0}
             /\ IsSelection(b[i].sel)
             /\ a[i] \in DOMAIN p.stores
             /\ StoreSupportsFulfillment(p.stores[a[i]], p.config)
             /\ Weights(b[i].need.allocatedTo) /\ SumFunction(b[i].need.allocatedTo) # 0
  <2>1. b[i].sel = p.ordered[i].candidates[a[i]] /\ b[i].need = p.ordered[i].need
    BY <1>4
  <2>2. a[i] \in DOMAIN p.ordered[i].candidates
    BY DEF Serves
  <2>3. IsServed(p.ordered[i].candidates, p.stores, p.config) /\ IsNeed(p.ordered[i].need)
    BY <1>1, <1>2
  <2>4. /\ IsSelection(b[i].sel) /\ b[i].sel.store = a[i] /\ a[i] \in DOMAIN p.stores
        /\ StoreSupportsFulfillment(p.stores[a[i]], p.config)
    BY <2>1, <2>2, <2>3 DEF IsServed
  <2>5. b[i].sel.cost \in Nat \ {0}
    BY <2>4 DEF IsSelection
  <2>6. /\ Weights(b[i].need.allocatedTo)
        /\ SumFunction(b[i].need.allocatedTo) = b[i].need.quantity
        /\ b[i].need.quantity \in Nat \ {0}
    BY <2>1, <2>3 DEF IsNeed
  <2> QED
    BY <2>1, <2>4, <2>5, <2>6
<1>7. IsAssignments(b, d, p.stores, p.config)
  BY <1>5, <1>6 DEF IsAssignments
<1>8. Buys(p, b, d)
  BY <1>1, <1>2, <1>7 DEF Buys
<1> QED
  BY <1>4, <1>5, <1>6, <1>8 DEF b

\* What was bought, one selection at a time.
LEMMA BegunSelections ==
  ASSUME NEW p, IsProblem(p), NEW a, NEW d, Serves(p, a, d)
  PROVE  /\ Buys(p, Begun(p, a, d), d)
         /\ DOMAIN Begun(p, a, d) = 1..d
         /\ Begun(p, a, d) = [i \in 1..d |-> Begun(p, a, d)[i]]
         /\ \A i \in 1..d : /\ Begun(p, a, d)[i].sel = p.ordered[i].candidates[a[i]]
                            /\ Begun(p, a, d)[i].sel.store = a[i]
                            /\ Begun(p, a, d)[i].sel.cost \in Nat \ {0}
                            /\ IsSelection(Begun(p, a, d)[i].sel)
<1> DEFINE b == Begun(p, a, d)
           x(i) == [need |-> p.ordered[i].need, sel |-> p.ordered[i].candidates[a[i]]]
<1>1. /\ Buys(p, b, d) /\ DOMAIN b = 1..d /\ b = [i \in 1..d |-> b[i]]
      /\ \A i \in 1..d : /\ b[i] = x(i)
                         /\ b[i].sel = p.ordered[i].candidates[a[i]]
                         /\ b[i].sel.store = a[i] /\ b[i].sel.cost \in Nat \ {0}
                         /\ IsSelection(b[i].sel)
  BY BegunIs
<1> HIDE DEF b, x
<1> QED
  BY <1>1 DEF b

\* An assignment buys for all needs.
LEMMA AssignedIs ==
  ASSUME NEW p, IsProblem(p), NEW a \in Assignments(p)
  PROVE  LET n == Len(p.ordered)
         IN  /\ DOMAIN a = 1..n /\ a = [i \in 1..n |-> a[i]]
             /\ \A d \in 0..n : Serves(p, a, d)
             /\ PlanOf(p, a) = BuildPlan(Begun(p, a, n), p.stores, p.config)
             /\ IsPlan(PlanOf(p, a))
<1> DEFINE n == Len(p.ordered)
<1>1. /\ IsStores(p.stores) /\ Wants(p.config) /\ n \in Nat
      /\ IsSearch(p, n, p.stores, p.config) /\ DOMAIN p.ordered = 1..n
  BY ProblemIs
<1>2. a \in [1..n -> DOMAIN p.stores] /\ \A i \in 1..n : a[i] \in DOMAIN p.ordered[i].candidates
  BY <1>1 DEF Assignments
<1>3. DOMAIN a = 1..n /\ a = [i \in 1..n |-> a[i]]
  <2> HIDE DEF n
  <2> QED
    BY <1>2
<1>4. \A d \in 0..n : Serves(p, a, d)
  BY <1>1, <1>2 DEF Serves
<1> HIDE DEF n
<1>5. PlanOf(p, a) = BuildPlan(BoughtBy(p, a), p.stores, p.config) /\ IsPlan(PlanOf(p, a))
  BY <1>1, BoughtByIs
<1>6. Begun(p, a, n) = BoughtBy(p, a)
  BY <1>3 DEF Begun
<1> QED
  BY <1>3, <1>4, <1>5, <1>6 DEF n

\* What one more purchase adds.
IsNext(b, c, d) ==
  DOMAIN c = 1..d /\ DOMAIN b = 1..(d + 1) /\ \A i \in 1..d : b[i] = c[i]

\* One more purchase adds its cost at its store, and at no other.
LEMMA CostMore ==
  ASSUME NEW p, NEW d, NEW c, Buys(p, c, d), NEW b, Buys(p, b, d + 1), IsNext(b, c, d)
  PROVE  LET x == b[d + 1].sel
         IN  /\ UsedBy(b) = UsedBy(c) \cup {x.store}
             /\ x.cost \in Nat \ {0}
             /\ \A t : /\ CostOfStore(c, t) \in Nat
                       /\ CostOfStore(c, t) = 0 <=> t \notin UsedBy(c)
                       /\ CostOfStore(b, t)
                            = (IF t = x.store THEN x.cost ELSE 0) + CostOfStore(c, t)
<1> DEFINE x == b[d + 1].sel
<1>1. /\ d \in Nat /\ d + 1 \in Nat /\ IsStores(p.stores)
      /\ IsAssignments(c, d, p.stores, p.config)
      /\ IsAssignments(b, d + 1, p.stores, p.config)
  BY DEF Buys
<1>2. /\ DOMAIN c = 1..d /\ DOMAIN b = 1..(d + 1) /\ \A i \in 1..d : b[i] = c[i]
  BY DEF IsNext
<1>3. d + 1 \in 1..(d + 1) /\ 1..(d + 1) = (1..d) \cup {d + 1} /\ d + 1 \notin 1..d
  BY <1>1
<1>4. UsedBy(b) = UsedBy(c) \cup {x.store}
  BY <1>2, <1>3 DEF UsedBy
<1>5. /\ \A s : CostOfStore(c, s) \in Nat
      /\ \A s \in UsedBy(c) : CostOfStore(c, s) # 0
  BY <1>1, AssignmentsAre
<1>6. /\ IsFiniteSet(DOMAIN b) /\ \A i \in DOMAIN b : CostOf(b)[i] \in Nat \ {0}
      /\ \A s : ServedBy(b, s) \in SUBSET DOMAIN b /\ IsFiniteSet(ServedBy(b, s))
  BY <1>1, AssignmentsAre
<1>7. \A s : ServedBy(c, s) \in SUBSET DOMAIN c /\ IsFiniteSet(ServedBy(c, s))
  BY <1>1, AssignmentsAre
<1>8. CostOf(b)[d + 1] = x.cost /\ \A i \in 1..d : CostOf(b)[i] = CostOf(c)[i]
  BY <1>2, <1>3 DEF CostOf
<1>9. x.cost \in Nat \ {0}
  BY <1>2, <1>3, <1>6, <1>8
<1>10. ASSUME NEW t, t \notin UsedBy(c) PROVE CostOfStore(c, t) = 0
  <2>1. ServedBy(c, t) = {}
    BY <1>10 DEF ServedBy, UsedBy
  <2> QED
    BY <2>1, SumOfNone DEF CostOfStore
<1>11. ASSUME NEW t
       PROVE  CostOfStore(b, t) = (IF t = x.store THEN x.cost ELSE 0) + CostOfStore(c, t)
  <2> DEFINE f == CostOf(b)
             g == CostOf(c)
             S == ServedBy(c, t)
             T == ServedBy(b, t)
  <2>1. S \in SUBSET (1..d) /\ IsFiniteSet(S)
    BY <1>2, <1>7
  <2>2. \A i \in S : f[i] = g[i]
    BY <1>8, <2>1
  <2>3. SumFunctionOnSet(f, S) = SumFunctionOnSet(g, S)
    <3> HIDE DEF f, g, S
    <3> QED
      BY <2>1, <2>2, SumSame
  <2>4. CostOfStore(c, t) = SumFunctionOnSet(g, S) /\ CostOfStore(b, t) = SumFunctionOnSet(f, T)
    BY DEF CostOfStore
  <2>5. CostOfStore(c, t) \in Nat
    BY <1>5
  <2>6. CASE t = x.store
    <3>1. T = S \cup {d + 1}
      BY <1>2, <1>3, <2>6 DEF ServedBy
    <3>2. d + 1 \in DOMAIN b \ S /\ S \in SUBSET DOMAIN b
      BY <1>2, <1>3, <2>1
    <3>3. IsFiniteSet(DOMAIN b) /\ \A i \in DOMAIN b : f[i] \in Int
      BY <1>6
    <3>4. f[d + 1] = x.cost
      BY <1>8
    <3> DEFINE D == DOMAIN b
               e == d + 1
    <3> HIDE DEF f, g, S, T, D, e
    <3>5. SumFunctionOnSet(f, S \cup {e}) = f[e] + SumFunctionOnSet(f, S)
      <4>1. IsFiniteSet(D) /\ (\A i \in D : f[i] \in Int) /\ S \in SUBSET D /\ e \in D \ S
        BY <3>2, <3>3 DEF D, e
      <4>2. \A k \in D \ S : SumFunctionOnSet(f, S \cup {k}) = f[k] + SumFunctionOnSet(f, S)
        BY <4>1, SumAdding
      <4> QED
        BY <4>1, <4>2
    <3>6. SumFunctionOnSet(f, T) = x.cost + SumFunctionOnSet(f, S)
      BY <3>1, <3>4, <3>5 DEF e
    <3> QED
      BY <2>3, <2>4, <2>6, <3>6
  <2>7. CASE t # x.store
    <3>1. T = S
      BY <1>2, <1>3, <2>7 DEF ServedBy
    <3> HIDE DEF f, g, S, T
    <3> QED
      BY <2>3, <2>4, <2>5, <2>7, <3>1
  <2> QED
    BY <2>6, <2>7
<1> QED
  BY <1>4, <1>5, <1>9, <1>10, <1>11

\* Adding to the subtotals in place, and taking back, is right.
LEMMA SubtotalsMore ==
  ASSUME NEW p, NEW d, NEW c, Buys(p, c, d), NEW b, Buys(p, b, d + 1), IsNext(b, c, d)
  PROVE  LET x == b[d + 1].sel
         IN  /\ SubtotalsOf(b) = Add(SubtotalsOf(c), x.store, x.cost)
             /\ TakeBack(SubtotalsOf(b), x.store, x.cost) = SubtotalsOf(c)
<1> DEFINE x == b[d + 1].sel
           s == x.store
           cost == x.cost
           U == UsedBy(c)
           V == UsedBy(b)
           f == SubtotalsOf(c)
           g == SubtotalsOf(b)
<1>1. /\ V = U \cup {s} /\ cost \in Nat \ {0}
      /\ \A t : /\ CostOfStore(c, t) \in Nat
                /\ CostOfStore(c, t) = 0 <=> t \notin U
                /\ CostOfStore(b, t) = (IF t = s THEN cost ELSE 0) + CostOfStore(c, t)
  BY CostMore
<1>2. f = [t \in U |-> CostOfStore(c, t)] /\ g = [t \in V |-> CostOfStore(b, t)]
  BY DEF SubtotalsOf
<1> HIDE DEF x, s, cost, U, V, f, g
<1>3. DOMAIN f = U /\ DOMAIN g = V
  BY <1>2
<1>4. g = Add(f, s, cost)
  <2> DEFINE h == Add(f, s, cost)
             v(t) == (IF t = s THEN cost ELSE 0) + (IF t \in U THEN f[t] ELSE 0)
  <2>1. h = [t \in V |-> v(t)]
    BY <1>1, <1>3 DEF Add
  <2>2. \A t \in V : v(t) = CostOfStore(b, t)
    <3> SUFFICES ASSUME NEW t \in V PROVE v(t) = CostOfStore(b, t)
      OBVIOUS
    <3>1. (IF t \in U THEN f[t] ELSE 0) = CostOfStore(c, t)
      BY <1>1, <1>2
    <3>2. CostOfStore(b, t) = (IF t = s THEN cost ELSE 0) + CostOfStore(c, t)
      BY <1>1
    <3> QED
      BY <3>1, <3>2
  <2> HIDE DEF v, h
  <2>3. h = g
    BY <1>2, <2>1, <2>2
  <2> QED
    BY <2>3 DEF h
<1>5. g[s] = cost + CostOfStore(c, s) /\ s \in V
  BY <1>1, <1>2
<1>6. TakeBack(g, s, cost) = f
  <2>1. CASE s \in U
    <3>1. g[s] # cost /\ g[s] - cost = CostOfStore(c, s) /\ V = U
      BY <1>1, <1>5, <2>1
    <3>2. TakeBack(g, s, cost) = [g EXCEPT ![s] = g[s] - cost]
      BY <3>1 DEF TakeBack
    <3> DEFINE h == [g EXCEPT ![s] = g[s] - cost]
    <3>3. h = [t \in V |-> IF t = s THEN g[s] - cost ELSE g[t]]
      BY <1>2, <1>3
    <3>4. \A t \in V : (IF t = s THEN g[s] - cost ELSE g[t]) = CostOfStore(c, t)
      <4> SUFFICES ASSUME NEW t \in V
                   PROVE  (IF t = s THEN g[s] - cost ELSE g[t]) = CostOfStore(c, t)
        OBVIOUS
      <4>1. t # s => g[t] = CostOfStore(c, t)
        BY <1>1, <1>2
      <4> QED
        BY <3>1, <4>1
    <3> HIDE DEF h
    <3>5. h = f
      BY <1>2, <3>1, <3>3, <3>4
    <3> QED
      BY <3>2, <3>5 DEF h
  <2>2. CASE s \notin U
    <3>1. g[s] = cost /\ V \ {s} = U
      BY <1>1, <1>5, <2>2
    <3>2. TakeBack(g, s, cost) = [t \in U |-> g[t]]
      BY <1>3, <3>1 DEF TakeBack, Restrict
    <3>3. \A t \in U : g[t] = CostOfStore(c, t)
      <4> SUFFICES ASSUME NEW t \in U PROVE g[t] = CostOfStore(c, t)
        OBVIOUS
      <4>1. t # s /\ t \in V
        BY <1>1, <2>2
      <4> QED
        BY <1>1, <1>2, <4>1
    <3> QED
      BY <1>2, <3>2, <3>3
  <2> QED
    BY <2>1, <2>2
<1> QED
  BY <1>4, <1>6 DEF x, s, cost, f, g

\* One more need of an assignment.
LEMMA BegunNext ==
  ASSUME NEW p, IsProblem(p), NEW a, NEW d \in Nat, Serves(p, a, d + 1)
  PROVE  /\ Serves(p, a, d) /\ IsNext(Begun(p, a, d + 1), Begun(p, a, d), d)
         /\ Buys(p, Begun(p, a, d), d) /\ Buys(p, Begun(p, a, d + 1), d + 1)
<1>1. Serves(p, a, d)
  <2>1. Len(p.ordered) \in Nat
    BY ProblemIs
  <2> QED
    BY <2>1 DEF Serves
<1> DEFINE b == Begun(p, a, d + 1)
           c == Begun(p, a, d)
           x == [i \in 1..(d + 1) |-> [need |-> p.ordered[i].need,
                                       sel |-> p.ordered[i].candidates[a[i]]]]
<1>2. /\ Buys(p, c, d) /\ DOMAIN c = 1..d
      /\ \A i \in 1..d : c[i] = [need |-> p.ordered[i].need,
                                 sel |-> p.ordered[i].candidates[a[i]]]
  BY <1>1, BegunIs
<1>3. /\ Buys(p, b, d + 1) /\ DOMAIN b = 1..(d + 1)
      /\ \A i \in 1..(d + 1) : b[i] = [need |-> p.ordered[i].need,
                                       sel |-> p.ordered[i].candidates[a[i]]]
  BY BegunIs
<1>4. \A i \in 1..d : i \in 1..(d + 1)
  OBVIOUS
<1> HIDE DEF b, c
<1>5. \A i \in 1..d : b[i] = c[i]
  BY <1>2, <1>3, <1>4
<1>6. IsNext(b, c, d)
  BY <1>2, <1>3, <1>5 DEF IsNext
<1> QED
  BY <1>1, <1>2, <1>3, <1>6 DEF b, c

\* Equal subtotals stay equal when the same is bought.
LEMMA SubtotalsOnwards ==
  ASSUME NEW p, IsProblem(p), NEW n, n = Len(p.ordered), NEW a, Serves(p, a, n),
         NEW m, Serves(p, m, n), NEW d \in 0..n, \A i \in (d + 1)..n : a[i] = m[i],
         SubtotalsOf(Begun(p, a, d)) = SubtotalsOf(Begun(p, m, d))
  PROVE  SubtotalsOf(Begun(p, a, n)) = SubtotalsOf(Begun(p, m, n))
<1>1. n \in Nat
  BY ProblemIs
<1> DEFINE sums(c, i) == SubtotalsOf(Begun(p, c, i))
           H == {j \in 0..(n - d) : sums(a, d + j) = sums(m, d + j)}
<1>2. 0 \in H
  <2>1. d + 0 = d /\ 0 \in 0..(n - d)
    BY <1>1
  <2> QED
    BY <2>1
<1>3. ASSUME NEW j \in 1..(n - d), j - 1 \in H PROVE j \in H
  <2> DEFINE i == d + (j - 1)
  <2>1. i \in Nat /\ i + 1 \in (d + 1)..n /\ d + j = i + 1
    BY <1>1
  <2>2. sums(a, i) = sums(m, i)
    BY <1>3
  <2>3. a[i + 1] = m[i + 1]
    BY <2>1
  <2>4. Serves(p, a, i + 1) /\ Serves(p, m, i + 1)
    BY <1>1, <2>1 DEF Serves
  <2> HIDE DEF H, i
  <2> DEFINE x == Begun(p, a, i + 1)[i + 1].sel
             y == Begun(p, m, i + 1)[i + 1].sel
  <2>5. sums(a, i + 1) = Add(sums(a, i), x.store, x.cost)
    <3>1. /\ IsNext(Begun(p, a, i + 1), Begun(p, a, i), i)
          /\ Buys(p, Begun(p, a, i), i) /\ Buys(p, Begun(p, a, i + 1), i + 1)
      BY <2>1, <2>4, BegunNext
    <3> QED
      BY <3>1, SubtotalsMore
  <2>6. sums(m, i + 1) = Add(sums(m, i), y.store, y.cost)
    <3>1. /\ IsNext(Begun(p, m, i + 1), Begun(p, m, i), i)
          /\ Buys(p, Begun(p, m, i), i) /\ Buys(p, Begun(p, m, i + 1), i + 1)
      BY <2>1, <2>4, BegunNext
    <3> QED
      BY <3>1, SubtotalsMore
  <2>7. x = y
    <3>1. i + 1 \in 1..(i + 1)
      BY <2>1
    <3>2. x = p.ordered[i + 1].candidates[a[i + 1]]
      <4>1. \A k \in 1..(i + 1) : Begun(p, a, i + 1)[k].sel = p.ordered[k].candidates[a[k]]
        BY <2>4, BegunSelections
      <4> QED
        BY <3>1, <4>1
    <3>3. y = p.ordered[i + 1].candidates[m[i + 1]]
      <4>1. \A k \in 1..(i + 1) : Begun(p, m, i + 1)[k].sel = p.ordered[k].candidates[m[k]]
        BY <2>4, BegunSelections
      <4> QED
        BY <3>1, <4>1
    <3> QED
      BY <2>3, <3>2, <3>3
  <2> HIDE DEF x, y, sums
  <2>8. sums(a, i + 1) = sums(m, i + 1)
    BY <2>2, <2>5, <2>6, <2>7
  <2> QED
    BY <2>1, <2>8 DEF H
<1>4. n - d \in Nat
  BY <1>1
<1> HIDE DEF H
<1>5. \A j \in 0..(n - d) : j \in H
  BY <1>2, <1>3, <1>4, StepByStep
<1>6. n - d \in H
  BY <1>4, <1>5
<1>7. d + (n - d) = n
  BY <1>1
<1> QED
  BY <1>6, <1>7 DEF H

\* What all stores are paid is what all needs cost.
LEMMA SubtotalsAddUp ==
  ASSUME NEW n, NEW p, NEW b, Buys(p, b, n)
  PROVE  SumFunction(SubtotalsOf(b)) = SumFunctionOnSet(CostOf(b), 1..n)
<1> DEFINE sums == SubtotalsOf(b)
           U == UsedBy(b)
<1>1. n \in Nat /\ IsStores(p.stores) /\ IsAssignments(b, n, p.stores, p.config)
  BY DEF Buys
<1>2. DOMAIN sums = U /\ \A s \in U : sums[s] = CostOfStore(b, s)
  BY SubtotalsAre
<1>3. SumFunction(sums) = SumFunctionOnSet(sums, U)
  BY <1>2 DEF SumFunction
<1> HIDE DEF sums
<1>4. SumFunctionOnSet(sums, UsedBy(b)) = SumFunctionOnSet(CostOf(b), 1..n)
  BY <1>1, <1>2, AllStores
<1> QED
  BY <1>3, <1>4 DEF sums

\* More items, more tax.
LEMMA TaxGrows ==
  ASSUME NEW store, NEW config, Wants(config), NEW x \in Nat, NEW y \in Nat, x <= y
  PROVE  TaxOn(store, x, config) <= TaxOn(store, y, config)
<1> DEFINE t == config.tax
           u == BASIS_POINTS_DENOMINATOR
           o == TAX_ROUNDING_OFFSET
           a == x * t
           b == y * t
<1>1. t \in Nat /\ u \in Nat \ {0} /\ o \in Nat
  BY DEF Wants, BASIS_POINTS_DENOMINATOR, TAX_ROUNDING_OFFSET
<1> HIDE DEF t, u, o
<1>2. a \in Nat /\ b \in Nat /\ a <= b
  <2>1. y - x \in Nat
    OBVIOUS
  <2>2. (y - x) * t \in Nat
    BY <1>1, <2>1
  <2>3. b = a + (y - x) * t
    BY <1>1
  <2>4. a \in Nat
    BY <1>1
  <2> DEFINE e == (y - x) * t
  <2> HIDE DEF a, b, e
  <2> QED
    BY <2>2, <2>3, <2>4 DEF e
<1> HIDE DEF a, b
<1> DEFINE c == a + o
           d == b + o
<1>3. c \in Nat /\ d \in Nat /\ c <= d
  BY <1>1, <1>2
<1> HIDE DEF c, d
<1> DEFINE k == c \div u
<1>4. k \in Nat /\ u * k <= c
  BY <1>1, <1>3, Divided
<1> HIDE DEF k
<1>5. k * u <= d /\ k \in Nat
  BY <1>1, <1>3, <1>4
<1>6. k <= d \div u
  BY <1>1, <1>3, <1>5, AsManyAsFit
<1>7. CalculateTax(x, config.tax) = c \div u /\ CalculateTax(y, config.tax) = d \div u
  BY DEF CalculateTax, a, b, c, d, t, u, o
<1>8. CalculateTax(x, config.tax) <= CalculateTax(y, config.tax)
  BY <1>6, <1>7 DEF k
<1> QED
  BY <1>8 DEF TaxOn

\* What all the assignments of a prefix cost at least in the end, by their
\* subtotals.
BoundOf(p, sums, d) ==
  SumFunction(sums) + MinimumRemainingCost(p, d)
    + SumFunction([s \in DOMAIN sums |-> TaxAt(p, sums, s)])
    + Penalty(Cardinality(DOMAIN sums))

\* The needs that are left cost at least their minimum.
LEMMA RemainingIs ==
  ASSUME NEW p, IsProblem(p), NEW n, n = Len(p.ordered), NEW a, Serves(p, a, n), NEW d \in 0..n
  PROVE  /\ MinimumRemainingCost(p, d) \in Nat
         /\ MinimumRemainingCost(p, d) <= SumFunctionOnSet(CostOf(Begun(p, a, n)), (d + 1)..n)
<1> DEFINE S == (d + 1)..n
           c(i) == p.ordered[i].candidates
           costs(i) == {c(i)[s].cost : s \in DOMAIN c(i)}
           g == [i \in S |-> Min(costs(i))]
           f == CostOf(Begun(p, a, n))
           id == [i \in S |-> i]
<1>1. n \in Nat /\ IsFiniteSet(S) /\ \A i \in S : i \in 1..n
  <2>1. n \in Nat
    BY ProblemIs
  <2>2. d + 1 \in Int /\ n \in Int
    BY <2>1
  <2>3. IsFiniteSet(S)
    BY <2>2, FS_Interval
  <2>4. \A i \in S : i \in 1..n
    BY <2>1
  <2> QED
    BY <2>1, <2>3, <2>4
<1>2. MinimumRemainingCost(p, d) = SumFunctionOnSet(g, S)
  BY DEF MinimumRemainingCost, SumFunction
<1>3. ASSUME NEW i \in S
      PROVE  g[i] \in Nat /\ f[i] \in Nat /\ g[i] <= f[i]
  <2>1. i \in 1..n
    BY <1>1
  <2>2. IsServed(c(i), p.stores, p.config) /\ DOMAIN c(i) # {}
    BY <2>1, ProblemIs
  <2>3. \A s \in DOMAIN c(i) : c(i)[s].cost \in Nat
    BY <2>2 DEF IsServed, IsSelection
  <2>4. costs(i) \in SUBSET Nat /\ costs(i) # {}
    BY <2>2, <2>3
  <2>5. Min(costs(i)) \in costs(i) /\ \A x \in costs(i) : Min(costs(i)) <= x
    <3> DEFINE C == costs(i)
    <3>1. C \in SUBSET Nat /\ C # {}
      BY <2>4
    <3> HIDE DEF C
    <3>2. Min(C) \in C /\ \A x \in C : Min(C) <= x
      BY <3>1, LeastIs
    <3> QED
      BY <3>2 DEF C
  <2>6. g[i] = Min(costs(i))
    OBVIOUS
  <2>7. a[i] \in DOMAIN c(i)
    BY <2>1 DEF Serves
  <2>8. f[i] = c(i)[a[i]].cost
    <3>1. /\ DOMAIN Begun(p, a, n) = 1..n
          /\ \A k \in 1..n : Begun(p, a, n)[k].sel = p.ordered[k].candidates[a[k]]
      BY BegunSelections
    <3> QED
      BY <2>1, <3>1 DEF CostOf
  <2>9. f[i] \in costs(i)
    BY <2>7, <2>8
  <2> HIDE DEF g, f, costs
  <2> QED
    BY <2>4, <2>5, <2>6, <2>9
<1> HIDE DEF g, f, S
<1>4. \A i \in S : g[i] \in Nat
  BY <1>3
<1>5. SumFunctionOnSet(g, S) \in Nat
  BY <1>1, <1>4, SumNat
<1>6. id \in [S -> S] /\ (\A x, y \in S : id[x] = id[y] => x = y)
  OBVIOUS
<1>7. \A x \in S : g[x] <= f[id[x]]
  BY <1>3
<1>8. \A x \in S : f[x] \in Nat
  BY <1>3
<1> HIDE DEF id
<1>9. SumFunctionOnSet(g, S) <= SumFunctionOnSet(f, S)
  BY <1>1, <1>4, <1>6, <1>7, <1>8, SumNoLess
<1> QED
  BY <1>2, <1>5, <1>9 DEF f, S

\* A store is paid no less when all is bought.
LEMMA SubtotalsGrow ==
  ASSUME NEW p, IsProblem(p), NEW n, n = Len(p.ordered), NEW a, Serves(p, a, n), NEW d \in 0..n
  PROVE  LET b == Begun(p, a, d)
             full == Begun(p, a, n)
         IN  /\ UsedBy(b) \in SUBSET UsedBy(full)
             /\ \A s \in UsedBy(b) : SubtotalsOf(b)[s] <= SubtotalsOf(full)[s]
             /\ SumFunctionOnSet(CostOf(full), 1..d) = SumFunctionOnSet(CostOf(b), 1..d)
<1> DEFINE b == Begun(p, a, d)
           full == Begun(p, a, n)
           f == CostOf(b)
           g == CostOf(full)
<1>1. n \in Nat /\ d \in Nat /\ (\A i \in 1..d : i \in 1..n)
  BY ProblemIs
<1>2. Serves(p, a, d)
  BY <1>1 DEF Serves
<1>3. /\ Buys(p, b, d) /\ DOMAIN b = 1..d
      /\ \A i \in 1..d : b[i].sel = p.ordered[i].candidates[a[i]]
  BY <1>2, BegunSelections
<1>4. /\ Buys(p, full, n) /\ DOMAIN full = 1..n
      /\ \A i \in 1..n : full[i].sel = p.ordered[i].candidates[a[i]] /\ full[i].sel.cost \in Nat \ {0}
  BY BegunSelections
<1> HIDE DEF b, full
<1>5. \A i \in 1..d : b[i].sel = full[i].sel
  BY <1>1, <1>3, <1>4
<1>6. UsedBy(b) \in SUBSET UsedBy(full)
  BY <1>1, <1>3, <1>4, <1>5 DEF UsedBy
<1>7. \A i \in 1..d : g[i] = f[i]
  BY <1>1, <1>3, <1>4, <1>5 DEF CostOf
<1>8. \A i \in 1..n : g[i] \in Nat
  BY <1>4 DEF CostOf
<1>9. IsFiniteSet(1..d)
  BY <1>1, FS_Interval
<1>10. SumFunctionOnSet(g, 1..d) = SumFunctionOnSet(f, 1..d)
  <2> DEFINE D == 1..d
  <2>1. IsFiniteSet(D) /\ \A i \in D : g[i] = f[i]
    BY <1>7, <1>9
  <2> HIDE DEF D, f, g
  <2>2. SumFunctionOnSet(g, D) = SumFunctionOnSet(f, D)
    BY <2>1, SumSame
  <2> QED
    BY <2>2 DEF D
<1>11. ASSUME NEW s \in UsedBy(b)
       PROVE  SubtotalsOf(b)[s] <= SubtotalsOf(full)[s]
  <2> DEFINE S == ServedBy(b, s)
             T == ServedBy(full, s)
  <2>1. S \in SUBSET T /\ S \in SUBSET (1..d) /\ T \in SUBSET (1..n)
    BY <1>1, <1>3, <1>4, <1>5 DEF ServedBy
  <2>2. IsFiniteSet(T) /\ IsFiniteSet(S)
    <3>1. IsFiniteSet(1..n) /\ IsFiniteSet(1..d)
      BY <1>1, FS_Interval
    <3> HIDE DEF S, T
    <3> QED
      BY <2>1, <3>1, FS_Subset
  <2>3. /\ SubtotalsOf(b)[s] = SumFunctionOnSet(f, S)
        /\ SubtotalsOf(full)[s] = SumFunctionOnSet(g, T)
    BY <1>6 DEF SubtotalsOf, CostOfStore
  <2>4. \A i \in S : g[i] = f[i]
    BY <1>7, <2>1
  <2>5. \A i \in T : g[i] \in Nat
    BY <1>8, <2>1
  <2> HIDE DEF S, T, f, g
  <2>6. SumFunctionOnSet(g, S) <= SumFunctionOnSet(g, T)
    BY <2>1, <2>2, <2>5, SumOfPart
  <2>7. SumFunctionOnSet(g, S) = SumFunctionOnSet(f, S)
    BY <2>2, <2>4, SumSame
  <2> QED
    BY <2>3, <2>6, <2>7
<1> QED
  BY <1>6, <1>10, <1>11 DEF b, full, f, g

\* The bound of a prefix is no more than the comparison cost in the end.
LEMMA BoundHolds ==
  ASSUME NEW p, IsProblem(p), NEW n, n = Len(p.ordered), NEW a, Serves(p, a, n), NEW d \in 0..n
  PROVE  /\ BoundOf(p, SubtotalsOf(Begun(p, a, d)), d) \in Nat
         /\ BoundOf(p, SubtotalsOf(Begun(p, a, d)), d)
              <= FinalComparisonCost(p, SubtotalsOf(Begun(p, a, n)))
<1> DEFINE b == Begun(p, a, d)
           full == Begun(p, a, n)
           sums == SubtotalsOf(b)
           all == SubtotalsOf(full)
           U == UsedBy(b)
           V == UsedBy(full)
           paid == [s \in V |-> all[s]]
           tax == [s \in V |-> TaxAt(p, all, s)]
           fee == [s \in V |-> ChooseFulfillment(p.stores[s], all[s], p.config).fee]
           charged == [s \in V |-> tax[s] + fee[s]]
           spent == [s \in V |-> SpentAt(p, all, s)]
           begun == [s \in U |-> TaxAt(p, sums, s)]
           cost == CostOf(full)
           left == SumFunctionOnSet(cost, (d + 1)..n)
           done == SumFunctionOnSet(cost, 1..d)
<1>1. n \in Nat /\ d \in Nat /\ Serves(p, a, d) /\ Wants(p.config)
  <2>1. n \in Nat /\ Wants(p.config)
    BY ProblemIs
  <2> QED
    BY <2>1 DEF Serves
<1>2. Buys(p, b, d) /\ Buys(p, full, n)
  BY <1>1, BegunSelections
<1>3. /\ U \in SUBSET V /\ (\A s \in U : sums[s] <= all[s])
      /\ done = SumFunctionOnSet(CostOf(b), 1..d)
  BY SubtotalsGrow
<1>4. /\ DOMAIN sums = U /\ IsFiniteSet(U) /\ Cardinality(U) \in Nat
      /\ \A s \in U : sums[s] \in Nat /\ TaxAt(p, sums, s) \in Nat
  BY <1>2, SubtotalsAre
<1>5. /\ DOMAIN all = V /\ IsFiniteSet(V) /\ Cardinality(V) \in Nat
      /\ all = [s \in V |-> all[s]]
      /\ \A s \in V : /\ all[s] \in Nat /\ TaxAt(p, all, s) \in Nat
                      /\ ChooseFulfillment(p.stores[s], all[s], p.config).fee \in Nat
  BY <1>2, SubtotalsAre
<1>6. SpentOn(p, all) = SumFunctionOnSet(spent, V)
  BY <1>2, SpentIs
<1>7. SumFunction(sums) = done
  BY <1>2, <1>3, SubtotalsAddUp
<1>8. SumFunction(all) = SumFunctionOnSet(cost, 1..n)
  BY <1>2, SubtotalsAddUp
<1>9. MinimumRemainingCost(p, d) \in Nat /\ MinimumRemainingCost(p, d) <= left
  BY RemainingIs
<1>10. SumFunctionOnSet(cost, 1..n) = done + left
  <2> DEFINE S == 1..n
             P == 1..d
  <2>1. IsFiniteSet(S) /\ P \in SUBSET S /\ S \ P = (d + 1)..n
    <3>1. IsFiniteSet(S)
      BY <1>1, FS_Interval
    <3>2. P \in SUBSET S
      BY <1>1
    <3>3. S \ P = (d + 1)..n
      BY <1>1
    <3> QED
      BY <3>1, <3>2, <3>3
  <2>2. \A i \in S : cost[i] \in Int
    <3>1. DOMAIN full = 1..n /\ \A i \in 1..n : full[i].sel.cost \in Nat \ {0}
      BY BegunSelections
    <3> QED
      BY <3>1 DEF CostOf
  <2> DEFINE D == (d + 1)..n
  <2> HIDE DEF S, P, cost, D
  <2>3. SumFunctionOnSet(cost, S) = SumFunctionOnSet(cost, P) + SumFunctionOnSet(cost, S \ P)
    BY <2>1, <2>2, SumOfBoth
  <2>4. SumFunctionOnSet(cost, S) = SumFunctionOnSet(cost, P) + SumFunctionOnSet(cost, D)
    BY <2>1, <2>3 DEF D
  <2> QED
    BY <2>4 DEF S, P, D
<1>11. SumFunction(all) = SumFunctionOnSet(paid, V)
  BY <1>5 DEF SumFunction
<1>12. \A s \in V : paid[s] \in Nat /\ tax[s] \in Nat /\ fee[s] \in Nat
  BY <1>5
<1>13. \A s \in V : charged[s] = tax[s] + fee[s]
  OBVIOUS
<1>14. \A s \in V : spent[s] = paid[s] + charged[s]
  <2> SUFFICES ASSUME NEW s \in V PROVE spent[s] = paid[s] + charged[s]
    OBVIOUS
  <2> DEFINE x == all[s]
             y == TaxAt(p, all, s)
             z == ChooseFulfillment(p.stores[s], all[s], p.config).fee
  <2>1. spent[s] = x + y + z
    BY DEF SpentAt
  <2>2. paid[s] = x /\ charged[s] = y + z
    OBVIOUS
  <2>3. x \in Nat /\ y \in Nat /\ z \in Nat
    BY <1>5
  <2> HIDE DEF x, y, z, spent, paid, charged
  <2> QED
    BY <2>1, <2>2, <2>3
<1>15. begun = [s \in DOMAIN sums |-> TaxAt(p, sums, s)]
  BY <1>4
<1>16. \A s \in U : begun[s] \in Nat /\ tax[s] \in Nat /\ begun[s] <= tax[s]
  <2> SUFFICES ASSUME NEW s \in U PROVE begun[s] \in Nat /\ tax[s] \in Nat /\ begun[s] <= tax[s]
    OBVIOUS
  <2> DEFINE x == sums[s]
             y == all[s]
             st == p.stores[s]
             config == p.config
  <2>1. x \in Nat /\ y \in Nat /\ x <= y /\ Wants(config)
    BY <1>1, <1>3, <1>4, <1>5
  <2>2. begun[s] = TaxOn(st, x, config) /\ tax[s] = TaxOn(st, y, config)
    BY <1>3 DEF TaxAt
  <2>3. begun[s] \in Nat /\ tax[s] \in Nat
    BY <1>3, <1>4, <1>12
  <2> HIDE DEF x, y, st, config, begun, tax
  <2>4. TaxOn(st, x, config) <= TaxOn(st, y, config)
    BY <2>1, TaxGrows
  <2> QED
    BY <2>2, <2>3, <2>4
<1> DEFINE id == [s \in U |-> s]
<1>17. id \in [U -> V] /\ (\A x, y \in U : id[x] = id[y] => x = y) /\ \A x \in U : begun[x] <= tax[id[x]]
  BY <1>3, <1>16
<1>18. SumFunction([s \in DOMAIN sums |-> TaxAt(p, sums, s)]) = SumFunctionOnSet(begun, U)
  BY <1>4 DEF SumFunction
<1>19. Penalty(Cardinality(U)) <= Penalty(Cardinality(V)) /\ Penalty(Cardinality(U)) \in Nat
       /\ Penalty(Cardinality(V)) \in Nat
  <2> DEFINE x == Cardinality(U)
             y == Cardinality(V)
  <2>1. x \in Nat /\ y \in Nat
    BY <1>4, <1>5
  <2>2. x <= y
    <3> HIDE DEF U, V
    <3> QED
      BY <1>3, <1>5, FS_Subset
  <2> HIDE DEF x, y
  <2>3. x \in 0..y
    BY <2>1, <2>2
  <2>4. Penalty(x) \in Nat /\ Penalty(y) \in Nat
    BY <2>1, PenaltyIs
  <2>5. \A m \in 0..y : Penalty(m) <= Penalty(y)
    BY <2>1, PenaltyIs
  <2>6. Penalty(x) <= Penalty(y)
    BY <2>3, <2>5
  <2> QED
    BY <2>4, <2>6 DEF x, y
<1>20. FinalComparisonCost(p, all) = SumFunctionOnSet(spent, V) + Penalty(Cardinality(V))
  BY <1>5, <1>6, FinalIs
<1>21. BoundOf(p, sums, d) = done + MinimumRemainingCost(p, d) + SumFunctionOnSet(begun, U)
                               + Penalty(Cardinality(U))
  BY <1>4, <1>7, <1>18 DEF BoundOf
<1> HIDE DEF b, full, sums, all, U, V, paid, tax, fee, charged, spent, begun, cost, left, done, id
<1>22. SumFunctionOnSet(charged, V) = SumFunctionOnSet(tax, V) + SumFunctionOnSet(fee, V)
  <2>1. \A s \in V : tax[s] \in Int /\ fee[s] \in Int /\ charged[s] = tax[s] + fee[s]
    BY <1>12, <1>13
  <2> QED
    BY <1>5, <2>1, SumPlus
<1>23. SumFunctionOnSet(spent, V) = SumFunctionOnSet(paid, V) + SumFunctionOnSet(charged, V)
  <2>1. \A s \in V : paid[s] \in Int /\ charged[s] \in Int /\ spent[s] = paid[s] + charged[s]
    BY <1>12, <1>13, <1>14
  <2> QED
    BY <1>5, <2>1, SumPlus
<1>24. SumFunctionOnSet(begun, U) <= SumFunctionOnSet(tax, V)
  <2>1. (\A s \in U : begun[s] \in Nat) /\ \A s \in V : tax[s] \in Nat
    BY <1>12, <1>16
  <2> QED
    BY <1>4, <1>5, <1>17, <2>1, SumNoLess, ZenonT(30)
<1>25. SumFunctionOnSet(fee, V) \in Nat
  BY <1>5, <1>12, SumNat
<1>26. SumFunctionOnSet(tax, V) \in Nat
  BY <1>5, <1>12, SumNat
<1>27. SumFunctionOnSet(paid, V) \in Nat
  BY <1>5, <1>12, SumNat
<1>28. SumFunctionOnSet(begun, U) \in Nat
  BY <1>4, <1>16, SumNat
<1>29. done \in Nat /\ left \in Nat
  <2>1. \A i \in 1..n : cost[i] \in Nat
    <3>1. DOMAIN full = 1..n /\ \A i \in 1..n : full[i].sel.cost \in Nat \ {0}
      BY BegunSelections DEF full
    <3> QED
      BY <3>1 DEF CostOf, cost
  <2>2. IsFiniteSet(1..d) /\ IsFiniteSet((d + 1)..n)
    BY <1>1, FS_Interval
  <2>3. (\A i \in 1..d : cost[i] \in Nat) /\ \A i \in (d + 1)..n : cost[i] \in Nat
    BY <1>1, <2>1
  <2>4. SumFunctionOnSet(cost, 1..d) \in Nat
    BY <2>2, <2>3, SumNat
  <2>5. SumFunctionOnSet(cost, (d + 1)..n) \in Nat
    BY <2>2, <2>3, SumNat
  <2> QED
    BY <2>4, <2>5 DEF done, left
<1>30. SumFunctionOnSet(paid, V) = done + left
  BY <1>8, <1>10, <1>11
<1> DEFINE r == MinimumRemainingCost(p, d)
           u == SumFunctionOnSet(paid, V)
           v == SumFunctionOnSet(tax, V)
           w == SumFunctionOnSet(fee, V)
           x == SumFunctionOnSet(begun, U)
           y == Penalty(Cardinality(U))
           z == Penalty(Cardinality(V))
<1>31. /\ r \in Nat /\ u \in Nat /\ v \in Nat /\ w \in Nat /\ x \in Nat /\ y \in Nat /\ z \in Nat
       /\ r <= left /\ x <= v /\ y <= z /\ u = done + left
  BY <1>9, <1>19, <1>24, <1>25, <1>26, <1>27, <1>28, <1>30
<1>32. FinalComparisonCost(p, all) = u + (v + w) + z
  BY <1>20, <1>22, <1>23
<1>33. BoundOf(p, sums, d) = done + r + x + y
  BY <1>21
<1> HIDE DEF r, u, v, w, x, y, z
<1>34. BoundOf(p, sums, d) <= FinalComparisonCost(p, all) /\ BoundOf(p, sums, d) \in Nat
  BY <1>29, <1>31, <1>32, <1>33
<1> QED
  BY <1>34 DEF sums, all, b, full

\* The product of the first line bought for a need at a store.
FirstSku(p, i, s) == p.ordered[i].candidates[s].lines[1].sku

\* The first product tells the stores of a need apart.
LEMMA FirstSkuIs ==
  ASSUME NEW p, IsProblem(p), NEW i \in 1..Len(p.ordered)
  PROVE  LET c == p.ordered[i].candidates
         IN  /\ \A s \in DOMAIN c : /\ SkusOn(c[s].lines) \in Seq(Int) /\ SkusOn(c[s].lines) # <<>>
                                    /\ SkusOn(c[s].lines)[1] = FirstSku(p, i, s)
                                    /\ FirstSku(p, i, s) \in Int
             /\ \A s, t \in DOMAIN c : FirstSku(p, i, s) = FirstSku(p, i, t) => s = t
<1> DEFINE c == p.ordered[i].candidates
<1>1. i \in DOMAIN p.ordered /\ IsServed(c, p.stores, p.config)
  BY ProblemIs
<1>2. ASSUME NEW s \in DOMAIN c
      PROVE  c[s].lines \in Seq(SelectedPacks) /\ c[s].lines # <<>> /\ 1 \in DOMAIN c[s].lines
  <2>1. IsSelection(c[s])
    BY <1>1 DEF IsServed
  <2> DEFINE l == c[s].lines
             f == [j \in DOMAIN l |-> l[j].cost]
  <2>2. l \in Seq(SelectedPacks) /\ SumFunctionOnSet(f, DOMAIN l) = c[s].cost /\ c[s].cost # 0
    BY <2>1 DEF IsSelection
  <2>3. l # <<>>
    <3> SUFFICES ASSUME l = <<>> PROVE FALSE
      OBVIOUS
    <3>1. DOMAIN l = {}
      OBVIOUS
    <3> HIDE DEF f, l
    <3>2. SumFunctionOnSet(f, {}) = 0
      BY SumOfNone
    <3> QED
      BY <2>2, <3>1, <3>2
  <2>4. 1 \in DOMAIN l
    <3> HIDE DEF l
    <3> QED
      BY <2>2, <2>3
  <2> QED
    BY <2>2, <2>3, <2>4
<1>3. ASSUME NEW s \in DOMAIN c
      PROVE  /\ SkusOn(c[s].lines) \in Seq(Int) /\ SkusOn(c[s].lines) # <<>>
             /\ SkusOn(c[s].lines)[1] = FirstSku(p, i, s)
             /\ FirstSku(p, i, s) \in Int
  <2> DEFINE l == c[s].lines
  <2>1. l \in Seq(SelectedPacks) /\ l # <<>> /\ 1 \in DOMAIN l
    BY <1>2
  <2>2. FirstSku(p, i, s) = l[1].sku
    BY DEF FirstSku
  <2> HIDE DEF l
  <2>3. \A j \in DOMAIN l : l[j].sku \in Int
    <3>1. \A j \in DOMAIN l : l[j] \in SelectedPacks
      BY <2>1
    <3>2. \A x \in SelectedPacks : x.sku \in Int
      BY DEF SelectedPacks
    <3> QED
      BY <3>1, <3>2
  <2>4. Len(l) \in Nat /\ DOMAIN l = 1..Len(l) /\ Len(l) # 0
    BY <2>1
  <2>5. SkusOn(l) = [j \in 1..Len(l) |-> l[j].sku]
    BY <2>4 DEF SkusOn
  <2>6. SkusOn(l) \in Seq(Int) /\ Len(SkusOn(l)) = Len(l)
    BY <2>3, <2>4, <2>5
  <2>7. SkusOn(l)[1] = l[1].sku
    BY <2>1, <2>4, <2>5
  <2> QED
    BY <2>1, <2>2, <2>3, <2>4, <2>6, <2>7 DEF l
<1>4. ASSUME NEW s \in DOMAIN c, NEW t \in DOMAIN c, FirstSku(p, i, s) = FirstSku(p, i, t)
      PROVE  s = t
  <2>1. /\ c[s].lines \in Seq(SelectedPacks) /\ 1 \in DOMAIN c[s].lines
        /\ c[t].lines \in Seq(SelectedPacks) /\ 1 \in DOMAIN c[t].lines
    BY <1>2
  <2>2. c[s].lines[1] \in ToSet(c[s].lines) /\ c[t].lines[1] \in ToSet(c[t].lines)
    BY <2>1 DEF ToSet
  <2>3. \A x, y \in DOMAIN c : \A l \in ToSet(c[x].lines), m \in ToSet(c[y].lines) :
          l.sku = m.sku => x = y
    BY <1>1 DEF IsProblem
  <2>4. c[s].lines[1].sku = c[t].lines[1].sku
    BY <1>4 DEF FirstSku
  <2> QED
    BY <2>2, <2>3, <2>4
<1> QED
  BY <1>3, <1>4

\* The first need for which two assignments differ.
DiffersAt(a, c, k) == a[k] # c[k] /\ \A i \in 1..(k - 1) : a[i] = c[i]

\* Where two assignments differ, one need is the first.
LEMMA FirstDifference ==
  ASSUME NEW n \in Nat, NEW a, NEW c, \E i \in 1..n : a[i] # c[i]
  PROVE  \E k \in 1..n : DiffersAt(a, c, k)
<1> DEFINE S == {i \in 1..n : a[i] # c[i]}
<1>1. S # {} /\ S \in SUBSET Nat
  OBVIOUS
<1> HIDE DEF S
<1>2. PICK k \in S : \A i \in S : k <= i
  BY <1>1, LeastNumber
<1>3. k \in 1..n /\ a[k] # c[k]
  BY DEF S
<1>4. ASSUME NEW i \in 1..(k - 1) PROVE a[i] = c[i]
  <2>1. i \in 1..n /\ ~(k <= i)
    BY <1>3
  <2> QED
    BY <1>2, <2>1 DEF S
<1> QED
  BY <1>3, <1>4 DEF DiffersAt

\* It decides between what they buy, however much that is.
LEMMA FirstDecides ==
  ASSUME NEW p, IsProblem(p), NEW d, NEW a, Serves(p, a, d), NEW c, Serves(p, c, d),
         NEW k \in 1..d, DiffersAt(a, c, k), FirstSku(p, k, a[k]) < FirstSku(p, k, c[k])
  PROVE  Less(SkusBought(Begun(p, a, d)), SkusBought(Begun(p, c, d)))
<1> DEFINE q == [i \in DOMAIN Begun(p, a, d) |-> SkusOn(Begun(p, a, d)[i].sel.lines)]
           r == [i \in DOMAIN Begun(p, c, d) |-> SkusOn(Begun(p, c, d)[i].sel.lines)]
           skus(x, i) == SkusOn(p.ordered[i].candidates[x[i]].lines)
<1>1. d \in Nat \ {0} /\ \A i \in 1..d : i \in 1..Len(p.ordered)
  <2>1. Len(p.ordered) \in Nat /\ d \in 0..Len(p.ordered)
    BY ProblemIs DEF Serves
  <2> QED
    BY <2>1
<1>2. /\ DOMAIN Begun(p, a, d) = 1..d
      /\ \A i \in 1..d : Begun(p, a, d)[i].sel = p.ordered[i].candidates[a[i]]
  BY BegunSelections
<1>3. /\ DOMAIN Begun(p, c, d) = 1..d
      /\ \A i \in 1..d : Begun(p, c, d)[i].sel = p.ordered[i].candidates[c[i]]
  BY BegunSelections
<1>4. SkusBought(Begun(p, a, d)) = FlattenSeq(q) /\ SkusBought(Begun(p, c, d)) = FlattenSeq(r)
  BY DEF SkusBought
<1>5. q = [i \in 1..d |-> skus(a, i)]
  BY <1>2
<1>6. r = [i \in 1..d |-> skus(c, i)]
  BY <1>3
<1>7. \A i \in 1..d : /\ skus(a, i) \in Seq(Int) /\ skus(a, i) # <<>>
                      /\ skus(a, i)[1] = FirstSku(p, i, a[i])
                      /\ skus(c, i) \in Seq(Int) /\ skus(c, i) # <<>>
                      /\ skus(c, i)[1] = FirstSku(p, i, c[i])
  <2> SUFFICES ASSUME NEW i \in 1..d
               PROVE  /\ skus(a, i) \in Seq(Int) /\ skus(a, i) # <<>>
                      /\ skus(a, i)[1] = FirstSku(p, i, a[i])
                      /\ skus(c, i) \in Seq(Int) /\ skus(c, i) # <<>>
                      /\ skus(c, i)[1] = FirstSku(p, i, c[i])
    OBVIOUS
  <2>1. i \in 1..Len(p.ordered)
    BY <1>1
  <2>2. a[i] \in DOMAIN p.ordered[i].candidates /\ c[i] \in DOMAIN p.ordered[i].candidates
    BY DEF Serves
  <2> DEFINE x == p.ordered[i].candidates
  <2>3. \A s \in DOMAIN x : /\ SkusOn(x[s].lines) \in Seq(Int) /\ SkusOn(x[s].lines) # <<>>
                            /\ SkusOn(x[s].lines)[1] = FirstSku(p, i, s)
    BY <2>1, FirstSkuIs
  <2> HIDE DEF x
  <2>4. /\ SkusOn(x[a[i]].lines) \in Seq(Int) /\ SkusOn(x[a[i]].lines) # <<>>
        /\ SkusOn(x[a[i]].lines)[1] = FirstSku(p, i, a[i])
    BY <2>2, <2>3 DEF x
  <2>5. /\ SkusOn(x[c[i]].lines) \in Seq(Int) /\ SkusOn(x[c[i]].lines) # <<>>
        /\ SkusOn(x[c[i]].lines)[1] = FirstSku(p, i, c[i])
    BY <2>2, <2>3 DEF x
  <2>6. /\ skus(a, i) = SkusOn(x[a[i]].lines)
        /\ skus(c, i) = SkusOn(x[c[i]].lines)
    BY DEF x
  <2> HIDE DEF skus
  <2> QED
    BY <2>4, <2>5, <2>6
<1>8. \A i \in 1..(k - 1) : skus(a, i) = skus(c, i)
  BY DEF DiffersAt
<1> HIDE DEF q, r, skus
<1>9. q \in Sequences(d, Int) /\ r \in Sequences(d, Int)
  BY <1>5, <1>6, <1>7 DEF Sequences
<1>10. \A i \in 1..d : q[i] = skus(a, i) /\ r[i] = skus(c, i)
  BY <1>5, <1>6
<1>11. \A i \in 1..(k - 1) : q[i] = r[i]
  <2>1. \A i \in 1..(k - 1) : i \in 1..d
    BY <1>1
  <2> QED
    BY <1>8, <1>10, <2>1
<1>12. q[k] # <<>> /\ r[k] # <<>> /\ q[k][1] < r[k][1]
  BY <1>7, <1>10
<1>13. Less(FlattenSeq(q), FlattenSeq(r))
  BY <1>1, <1>9, <1>11, <1>12, FlattenDiffer
<1> QED
  BY <1>4, <1>13

\* What an assignment buys is a sequence of numbers.
LEMMA SkusAre ==
  ASSUME NEW p, IsProblem(p), NEW d, NEW a, Serves(p, a, d)
  PROVE  SkusBought(Begun(p, a, d)) \in Seq(Int)
<1>1. Buys(p, Begun(p, a, d), d)
  BY BegunSelections
<1> DEFINE b == Begun(p, a, d)
<1>2. d \in Nat /\ IsAssignments(b, d, p.stores, p.config)
  BY <1>1 DEF Buys
<1> HIDE DEF b
<1>3. SkusBought(b) \in Seq(Int)
  BY <1>2, SkusOfCart
<1> QED
  BY <1>3 DEF b

\* Which of two assignments buys first is decided when they first differ.
LEMMA DecidedSoon ==
  ASSUME NEW p, IsProblem(p), NEW n, n = Len(p.ordered), NEW a, Serves(p, a, n),
         NEW c, Serves(p, c, n), NEW d \in 0..n, \E i \in 1..d : a[i] # c[i],
         Less(SkusBought(Begun(p, a, n)), SkusBought(Begun(p, c, n)))
  PROVE  Less(SkusBought(Begun(p, a, d)), SkusBought(Begun(p, c, d)))
<1>1. n \in Nat /\ d \in Nat /\ Serves(p, a, d) /\ Serves(p, c, d) /\ \A i \in 1..d : i \in 1..n
  <2>1. n \in Nat
    BY ProblemIs
  <2> QED
    BY <2>1 DEF Serves
<1>2. PICK k \in 1..d : DiffersAt(a, c, k)
  BY <1>1, FirstDifference
<1> DEFINE x == FirstSku(p, k, a[k])
           y == FirstSku(p, k, c[k])
<1>3. x \in Int /\ y \in Int /\ x # y
  <2>1. k \in 1..Len(p.ordered) /\ a[k] # c[k]
    BY <1>1, <1>2 DEF DiffersAt
  <2>2. a[k] \in DOMAIN p.ordered[k].candidates /\ c[k] \in DOMAIN p.ordered[k].candidates
    BY <1>1 DEF Serves
  <2> QED
    BY <2>1, <2>2, FirstSkuIs
<1>4. CASE x < y
  BY <1>1, <1>2, <1>4, FirstDecides
<1>5. CASE y < x
  <2>1. DiffersAt(c, a, k) /\ k \in 1..n
    BY <1>1, <1>2 DEF DiffersAt
  <2> DEFINE s == SkusBought(Begun(p, a, n))
             t == SkusBought(Begun(p, c, n))
  <2>2. Less(t, s)
    BY <1>5, <2>1, FirstDecides
  <2>3. s \in Seq(Int) /\ t \in Seq(Int) /\ Less(s, t)
    BY SkusAre
  <2> HIDE DEF s, t
  <2>4. Less(s, s)
    BY <2>2, <2>3, LessIsTransitive
  <2> QED
    BY <2>3, <2>4, LessIsStrict
<1> QED
  BY <1>3, <1>4, <1>5

\* The key of the cart of an assignment.
KeyOf(p, a) == PlanSortKey(PlanOf(p, a))

\* A list of numbers is a sequence of them.
LEMMA ListedNumbers ==
  ASSUME NEW U \in SUBSET Int, NEW q, ListsOnce(q, U)
  PROVE  q \in Seq(Int) /\ Len(q) = Cardinality(U) /\ Len(q) \in Nat
<1> DEFINE m == Cardinality(U)
<1>1. m \in Nat /\ q \in [1..m -> U]
  BY DEF ListsOnce
<1> HIDE DEF m
<1>2. q \in [1..m -> Int]
  BY <1>1
<1>3. q \in Seq(Int) /\ Len(q) = m
  BY <1>1, <1>2
<1> QED
  BY <1>1, <1>3 DEF m

\* The sort key of a cart is that of its subtotals, then its products.
LEMMA AssignedKey ==
  ASSUME NEW p, IsProblem(p), NEW n, n = Len(p.ordered), NEW a \in Assignments(p)
  PROVE  /\ Serves(p, a, n)
         /\ CostsKey(p, SubtotalsOf(Begun(p, a, n))) \in Seq(Int)
         /\ SkusBought(Begun(p, a, n)) \in Seq(Int)
         /\ KeyOf(p, a) = CostsKey(p, SubtotalsOf(Begun(p, a, n))) \o SkusBought(Begun(p, a, n))
         /\ KeyOf(p, a) \in Seq(Int) /\ KeyOf(p, a) # <<>>
         /\ KeyOf(p, a)[1] = FinalComparisonCost(p, SubtotalsOf(Begun(p, a, n)))
         /\ PlanOf(p, a).comparison = FinalComparisonCost(p, SubtotalsOf(Begun(p, a, n)))
         /\ PlanOf(p, a).comparison \in Nat
<1>1. n \in Nat /\ Serves(p, a, n)
  <2>1. n \in Nat
    BY ProblemIs
  <2>2. \A d \in 0..n : Serves(p, a, d)
    BY AssignedIs
  <2> QED
    BY <2>1, <2>2
<1> DEFINE b == Begun(p, a, n)
           k == CostsKey(p, SubtotalsOf(b))
           s == SkusBought(b)
           v == FinalComparisonCost(p, SubtotalsOf(b))
<1>2. Buys(p, b, n)
  BY <1>1, BegunSelections
<1>3. PlanOf(p, a) = BuildPlan(b, p.stores, p.config)
  BY AssignedIs
<1>4. s \in Seq(Int)
  BY <1>1, SkusAre
<1> HIDE DEF b
<1>5. k \in Seq(Int) /\ v \in Nat
  BY <1>2, SpentIs
<1>6. PlanSortKey(BuildPlan(b, p.stores, p.config)) = k \o s
  BY <1>2, KeyIs
<1>7. BuildPlan(b, p.stores, p.config).comparison = v
  BY <1>2, KeyIs
<1>8. KeyOf(p, a) = k \o s /\ PlanOf(p, a).comparison = v
  BY <1>3, <1>6, <1>7 DEF KeyOf
<1>9. Len(k) > 0 /\ k[1] = v
  <2> DEFINE x == <<v, SpentOn(p, SubtotalsOf(b)), Cardinality(DOMAIN SubtotalsOf(b))>>
             y == InOrderOf(DOMAIN SubtotalsOf(b))
  <2>1. k = x \o y
    BY DEF CostsKey
  <2>2. SubtotalsOf(b) = SubtotalsOf(b) /\ DOMAIN SubtotalsOf(b) = UsedBy(b) /\ IsFiniteSet(UsedBy(b))
        /\ UsedBy(b) \in SUBSET Int /\ Cardinality(UsedBy(b)) \in Nat
    BY <1>2, SubtotalsAre
  <2>3. y \in Seq(Int)
    <3> DEFINE U == UsedBy(b)
    <3>1. U \in SUBSET Int /\ IsFiniteSet(U)
      BY <2>2
    <3>2. y = InOrderOf(U)
      BY <2>2
    <3> HIDE DEF U, y
    <3>3. ListsOnce(InOrderOf(U), U)
      BY <3>1, SortedNumbers
    <3>4. InOrderOf(U) \in Seq(Int)
      BY <3>1, <3>3, ListedNumbers
    <3> QED
      BY <3>2, <3>4
  <2>4. x \in Seq(Int) /\ Len(x) = 3 /\ x[1] = v
    <3>1. SpentOn(p, SubtotalsOf(b)) \in Nat
      BY <1>2, SpentIs
    <3> QED
      BY <1>5, <2>2, <3>1
  <2> HIDE DEF x, y
  <2>5. Len(x \o y) = Len(x) + Len(y) /\ \A i \in 1..Len(x) : (x \o y)[i] = x[i]
    BY <2>3, <2>4, JoinedIs
  <2>6. Len(y) \in Nat
    BY <2>3
  <2>7. Len(x \o y) > 0 /\ (x \o y)[1] = v
    BY <2>4, <2>5, <2>6
  <2> HIDE DEF k
  <2> QED
    BY <2>1, <2>7
<1> HIDE DEF k, s, v
<1>10. /\ k \o s \in Seq(Int) /\ Len(k \o s) = Len(k) + Len(s)
       /\ \A i \in 1..Len(k) : (k \o s)[i] = k[i]
  BY <1>4, <1>5, JoinedIs
<1>11. k \o s # <<>> /\ (k \o s)[1] = v
  <2>1. Len(k) \in Nat /\ Len(s) \in Nat
    BY <1>4, <1>5
  <2>2. Len(k \o s) > 0 /\ (k \o s)[1] = v
    BY <1>9, <1>10, <2>1
  <2> QED
    BY <1>10, <2>2
<1> QED
  BY <1>1, <1>4, <1>5, <1>8, <1>10, <1>11 DEF b, k, s, v

\* What two equal keys of this form are made of.
LEMMA KeysApart ==
  ASSUME NEW k \in Seq(Int), NEW l \in Seq(Int), NEW s \in Seq(Int), NEW t \in Seq(Int),
         k \o s = l \o t, Len(k) = Len(l)
  PROVE  s = t
<1>1. /\ Len(k \o s) = Len(k) + Len(s)
      /\ \A i \in (Len(k) + 1)..(Len(k) + Len(s)) : (k \o s)[i] = s[i - Len(k)]
  BY JoinedIs
<1>2. /\ Len(l \o t) = Len(l) + Len(t)
      /\ \A i \in (Len(l) + 1)..(Len(l) + Len(t)) : (l \o t)[i] = t[i - Len(l)]
  BY JoinedIs
<1> DEFINE u == k \o s
           m == Len(k)
           n == Len(s)
<1>3. m \in Nat /\ n \in Nat /\ Len(t) \in Nat
  OBVIOUS
<1>4. n = Len(t)
  BY <1>1, <1>2, <1>3
<1>5. /\ \A i \in (m + 1)..(m + n) : u[i] = s[i - m]
      /\ \A i \in (m + 1)..(m + n) : u[i] = t[i - m]
  BY <1>1, <1>2, <1>4
<1> HIDE DEF u, m
<1>6. \A i \in 1..n : s[i] = t[i]
  <2> SUFFICES ASSUME NEW i \in 1..n PROVE s[i] = t[i]
    OBVIOUS
  <2>1. m + i \in (m + 1)..(m + n) /\ (m + i) - m = i
    BY <1>3
  <2> DEFINE j == m + i
  <2>2. j \in (m + 1)..(m + n) /\ j - m = i
    BY <2>1
  <2> HIDE DEF j
  <2>3. u[j] = s[i] /\ u[j] = t[i]
    BY <1>5, <2>2
  <2> QED
    BY <2>3
<1> HIDE DEF n
<1>7. s = [i \in 1..n |-> s[i]]
  BY DEF n
<1>8. t = [i \in 1..n |-> t[i]]
  BY <1>4
<1> QED
  BY <1>6, <1>7, <1>8

\* How many elements the first part of the key has.
LEMMA CostsKeyLength ==
  ASSUME NEW n, NEW p, NEW b, Buys(p, b, n)
  PROVE  LET k == CostsKey(p, SubtotalsOf(b))
         IN  /\ Len(k) = 3 + k[3] /\ Len(k) \in Nat /\ Len(k) >= 3 /\ k \in Seq(Int)
<1> DEFINE U == UsedBy(b)
           m == Cardinality(U)
           x == <<FinalComparisonCost(p, SubtotalsOf(b)), SpentOn(p, SubtotalsOf(b)), m>>
           y == InOrderOf(U)
           k == CostsKey(p, SubtotalsOf(b))
<1>1. /\ DOMAIN SubtotalsOf(b) = U /\ IsFiniteSet(U) /\ U \in SUBSET Int /\ m \in Nat
  BY SubtotalsAre
<1>2. k = x \o y
  BY <1>1 DEF CostsKey
<1>3. x \in Seq(Int) /\ Len(x) = 3 /\ x[3] = m /\ k \in Seq(Int)
  <2> DEFINE v == FinalComparisonCost(p, SubtotalsOf(b))
             w == SpentOn(p, SubtotalsOf(b))
  <2>1. v \in Nat
    BY SpentIs
  <2>2. w \in Nat
    BY SpentIs
  <2>3. k \in Seq(Int)
    BY SpentIs
  <2>4. x = <<v, w, m>>
    OBVIOUS
  <2> HIDE DEF v, w, m, x
  <2> QED
    BY <1>1, <2>1, <2>2, <2>3, <2>4
<1>4. y \in Seq(Int) /\ Len(y) = m
  <2> HIDE DEF U, y
  <2>1. ListsOnce(InOrderOf(U), U)
    BY <1>1, SortedNumbers
  <2>2. InOrderOf(U) \in Seq(Int) /\ Len(InOrderOf(U)) = Cardinality(U)
    BY <1>1, <2>1, ListedNumbers
  <2> QED
    BY <2>2 DEF y
<1> HIDE DEF x, y, k, m
<1>5. Len(x \o y) = Len(x) + Len(y) /\ \A i \in 1..Len(x) : (x \o y)[i] = x[i]
  BY <1>3, <1>4, JoinedIs
<1>6. Len(k) = 3 + m /\ k[3] = m
  BY <1>2, <1>3, <1>4, <1>5
<1>7. Len(k) = 3 + k[3] /\ Len(k) \in Nat /\ Len(k) >= 3 /\ k \in Seq(Int)
  BY <1>1, <1>3, <1>6 DEF m
<1> QED
  BY <1>7 DEF k

\* No two assignments have the same key.
LEMMA KeysDiffer ==
  ASSUME NEW p, IsProblem(p), NEW a \in Assignments(p), NEW c \in Assignments(p),
         KeyOf(p, a) = KeyOf(p, c)
  PROVE  a = c
<1> DEFINE n == Len(p.ordered)
           k == CostsKey(p, SubtotalsOf(Begun(p, a, n)))
           l == CostsKey(p, SubtotalsOf(Begun(p, c, n)))
           s == SkusBought(Begun(p, a, n))
           t == SkusBought(Begun(p, c, n))
<1>1. Serves(p, a, n) /\ k \in Seq(Int) /\ s \in Seq(Int) /\ KeyOf(p, a) = k \o s
  BY AssignedKey
<1>2. Serves(p, c, n) /\ l \in Seq(Int) /\ t \in Seq(Int) /\ KeyOf(p, c) = l \o t
  BY AssignedKey
<1>3. Len(k) = 3 + k[3] /\ Len(k) \in Nat /\ Len(k) >= 3
  <2>1. Buys(p, Begun(p, a, n), n)
    BY <1>1, BegunSelections
  <2> QED
    BY <2>1, CostsKeyLength
<1>4. Len(l) = 3 + l[3] /\ Len(l) \in Nat /\ Len(l) >= 3
  <2>1. Buys(p, Begun(p, c, n), n)
    BY <1>2, BegunSelections
  <2> QED
    BY <2>1, CostsKeyLength
<1>5. n \in Nat /\ DOMAIN a = 1..n /\ a = [i \in 1..n |-> a[i]] /\ DOMAIN c = 1..n
      /\ c = [i \in 1..n |-> c[i]]
  BY ProblemIs, AssignedIs
<1> HIDE DEF k, l
<1>6. k[3] = l[3]
  <2>1. /\ \A i \in 1..Len(k) : (k \o s)[i] = k[i]
        /\ \A i \in 1..Len(l) : (l \o t)[i] = l[i]
    <3> HIDE DEF s, t
    <3>1. \A i \in 1..Len(k) : (k \o s)[i] = k[i]
      BY <1>1, JoinedIs
    <3>2. \A i \in 1..Len(l) : (l \o t)[i] = l[i]
      BY <1>2, JoinedIs
    <3> QED
      BY <3>1, <3>2
  <2>2. 3 \in 1..Len(k) /\ 3 \in 1..Len(l)
    BY <1>3, <1>4
  <2>3. (k \o s)[3] = k[3] /\ (l \o t)[3] = l[3]
    <3> HIDE DEF s, t
    <3> QED
      BY <2>1, <2>2
  <2>4. k \o s = l \o t
    BY <1>1, <1>2
  <2> HIDE DEF s, t
  <2> QED
    BY <2>3, <2>4
<1>7. s = t
  <2>1. Len(k) = Len(l) /\ k \o s = l \o t
    BY <1>1, <1>2, <1>3, <1>4, <1>6
  <2> HIDE DEF s, t
  <2> QED
    BY <1>1, <1>2, <2>1, KeysApart
<1> SUFFICES ASSUME a # c PROVE FALSE
  OBVIOUS
<1>8. \E i \in 1..n : a[i] # c[i]
  <2> HIDE DEF n
  <2> QED
    BY <1>5
<1>9. PICK i \in 1..n : DiffersAt(a, c, i)
  BY <1>5, <1>8, FirstDifference
<1> DEFINE x == FirstSku(p, i, a[i])
           y == FirstSku(p, i, c[i])
<1>10. x \in Int /\ y \in Int /\ x # y
  <2>1. i \in 1..Len(p.ordered) /\ a[i] # c[i]
    BY <1>9 DEF DiffersAt
  <2>2. a[i] \in DOMAIN p.ordered[i].candidates /\ c[i] \in DOMAIN p.ordered[i].candidates
    BY <1>1, <1>2 DEF Serves
  <2> QED
    BY <2>1, <2>2, FirstSkuIs
<1>11. CASE x < y
  <2>1. Less(s, t)
    BY <1>1, <1>2, <1>9, <1>11, FirstDecides
  <2> QED
    BY <1>1, <1>7, <2>1, LessIsStrict
<1>12. CASE y < x
  <2>1. DiffersAt(c, a, i)
    BY <1>9 DEF DiffersAt
  <2>2. Less(t, s)
    BY <1>1, <1>2, <1>12, <2>1, FirstDecides
  <2> QED
    BY <1>1, <1>7, <2>2, LessIsStrict
<1> QED
  BY <1>10, <1>11, <1>12

\* The first d stores of one assignment, then those of another.
Mixed(c, a, d) == [i \in DOMAIN a |-> IF i <= d THEN c[i] ELSE a[i]]

\* Alike for the first d needs, alike in what was bought for them.
LEMMA BegunAlike ==
  ASSUME NEW p, NEW d, NEW a, NEW c, \A i \in 1..d : a[i] = c[i]
  PROVE  Begun(p, a, d) = Begun(p, c, d)
<1> DEFINE f == [i \in 1..d |-> a[i]]
           g == [i \in 1..d |-> c[i]]
<1>1. f = g
  OBVIOUS
<1> HIDE DEF f, g
<1>2. BoughtBy(p, f) = BoughtBy(p, g)
  BY <1>1
<1> QED
  BY <1>2 DEF Begun, f, g

\* The stores of what was bought.
LEMMA BegunUses ==
  ASSUME NEW p, IsProblem(p), NEW a, NEW d, Serves(p, a, d)
  PROVE  UsedBy(Begun(p, a, d)) = {a[i] : i \in 1..d}
<1> DEFINE b == Begun(p, a, d)
<1>1. DOMAIN b = 1..d /\ \A i \in 1..d : b[i].sel.store = a[i]
  BY BegunSelections
<1> HIDE DEF b
<1>2. UsedBy(b) = {a[i] : i \in 1..d}
  BY <1>1 DEF UsedBy
<1> QED
  BY <1>2 DEF b

\* Where the subtotals are the same, one may be exchanged for the other.
LEMMA MixedIs ==
  ASSUME NEW p, IsProblem(p), NEW n, n = Len(p.ordered), NEW a \in Assignments(p),
         NEW d \in 0..n, NEW c, Serves(p, c, d),
         SubtotalsOf(Begun(p, a, d)) = SubtotalsOf(Begun(p, c, d))
  PROVE  /\ Mixed(c, a, d) \in Assignments(p)
         /\ \A i \in 1..d : Mixed(c, a, d)[i] = c[i]
         /\ \A i \in (d + 1)..n : Mixed(c, a, d)[i] = a[i]
<1> DEFINE m == Mixed(c, a, d)
<1>1. /\ n \in Nat /\ IsStores(p.stores) /\ DOMAIN p.ordered = 1..n
      /\ \A k \in 1..n : DOMAIN p.ordered[k].candidates \in SUBSET DOMAIN p.stores
  BY ProblemIs
<1>2. DOMAIN a = 1..n /\ (\A i \in 1..n : a[i] \in DOMAIN p.ordered[i].candidates)
      /\ (p.limit # None => Cardinality(Range(a)) <= p.limit)
  BY <1>1, AssignedIs DEF Assignments
<1>3. m = [i \in 1..n |-> IF i <= d THEN c[i] ELSE a[i]]
  BY <1>2 DEF Mixed
<1> HIDE DEF m
<1>4. \A i \in 1..d : i \in 1..n /\ c[i] \in DOMAIN p.ordered[i].candidates
  BY <1>1 DEF Serves
<1>5. (\A i \in 1..d : m[i] = c[i]) /\ \A i \in (d + 1)..n : m[i] = a[i]
  BY <1>1, <1>3
<1>6. \A i \in 1..n : m[i] \in DOMAIN p.ordered[i].candidates
  BY <1>2, <1>3, <1>4
<1>7. Serves(p, a, d)
  BY <1>1, <1>2, <1>4 DEF Serves
<1>8. {c[i] : i \in 1..d} = {a[i] : i \in 1..d}
  <2>1. UsedBy(Begun(p, a, d)) = DOMAIN SubtotalsOf(Begun(p, a, d))
    BY DEF SubtotalsOf
  <2>2. UsedBy(Begun(p, c, d)) = DOMAIN SubtotalsOf(Begun(p, c, d))
    BY DEF SubtotalsOf
  <2>3. UsedBy(Begun(p, a, d)) = UsedBy(Begun(p, c, d))
    BY <2>1, <2>2
  <2>4. UsedBy(Begun(p, a, d)) = {a[i] : i \in 1..d}
    BY <1>7, BegunUses
  <2>5. UsedBy(Begun(p, c, d)) = {c[i] : i \in 1..d}
    BY BegunUses
  <2> QED
    BY <2>3, <2>4, <2>5
<1>9. Range(m) \in SUBSET Range(a)
  <2> SUFFICES ASSUME NEW i \in 1..n PROVE m[i] \in Range(a)
    BY <1>3 DEF Range
  <2>1. CASE i <= d
    <3>1. i \in 1..d /\ m[i] = c[i]
      BY <1>1, <1>5, <2>1
    <3>2. m[i] \in {a[j] : j \in 1..d}
      BY <1>8, <3>1
    <3>3. PICK j \in 1..d : m[i] = a[j]
      BY <3>2
    <3> QED
      BY <1>2, <1>4, <3>3 DEF Range
  <2>2. CASE ~(i <= d)
    <3>1. m[i] = a[i]
      BY <1>3, <2>2
    <3> QED
      BY <1>2, <3>1 DEF Range
  <2> QED
    BY <2>1, <2>2
<1>10. Range(a) \in SUBSET DOMAIN p.stores /\ IsFiniteSet(DOMAIN p.stores)
  <2>1. \A i \in 1..n : a[i] \in DOMAIN p.stores
    BY <1>1, <1>2
  <2> QED
    BY <1>1, <1>2, <2>1 DEF IsStores, Range
<1>11. IsFiniteSet(Range(a)) /\ Cardinality(Range(a)) \in Nat
       /\ Cardinality(Range(m)) <= Cardinality(Range(a)) /\ Cardinality(Range(m)) \in Nat
  <2>1. IsFiniteSet(Range(a))
    BY <1>10, FS_Subset
  <2>2. IsFiniteSet(Range(m)) /\ Cardinality(Range(m)) <= Cardinality(Range(a))
    BY <1>9, <2>1, FS_Subset
  <2> QED
    BY <2>1, <2>2, FS_CardinalityType
<1>12. p.limit # None => Cardinality(Range(m)) <= p.limit
  <2>1. p.limit # None => p.limit \in Nat
    BY DEF IsProblem
  <2> DEFINE x == Cardinality(Range(a))
             y == Cardinality(Range(m))
             l == p.limit
  <2>2. x \in Nat /\ y \in Nat /\ y <= x /\ (l # None => x <= l) /\ (l # None => l \in Nat)
    BY <1>2, <1>11, <2>1
  <2> HIDE DEF x, y, l
  <2>3. l # None => y <= l
    BY <2>2
  <2> QED
    BY <2>3 DEF y, l
<1>13. m \in [DOMAIN p.ordered -> DOMAIN p.stores] /\ DOMAIN m = 1..n
  <2>1. \A i \in 1..n : m[i] \in DOMAIN p.stores
    BY <1>1, <1>6
  <2> QED
    BY <1>1, <1>3, <2>1
<1>14. m \in Assignments(p)
  BY <1>6, <1>12, <1>13 DEF Assignments
<1> QED
  BY <1>5, <1>14 DEF m

\* What is no better at its beginning is no better in the end.
LEMMA MixedIsNoWorse ==
  ASSUME NEW p, IsProblem(p), NEW n, n = Len(p.ordered), NEW a \in Assignments(p),
         NEW d \in 0..n, NEW m \in Assignments(p), \A i \in (d + 1)..n : a[i] = m[i],
         SubtotalsOf(Begun(p, a, d)) = SubtotalsOf(Begun(p, m, d)),
         ~Less(SkusBought(Begun(p, a, d)), SkusBought(Begun(p, m, d)))
  PROVE  ~Less(KeyOf(p, a), KeyOf(p, m))
<1> DEFINE k == CostsKey(p, SubtotalsOf(Begun(p, a, n)))
           l == CostsKey(p, SubtotalsOf(Begun(p, m, n)))
           s == SkusBought(Begun(p, a, n))
           t == SkusBought(Begun(p, m, n))
<1>1. Serves(p, a, n) /\ k \in Seq(Int) /\ s \in Seq(Int) /\ KeyOf(p, a) = k \o s
  BY AssignedKey
<1>2. Serves(p, m, n) /\ l \in Seq(Int) /\ t \in Seq(Int) /\ KeyOf(p, m) = l \o t
  BY AssignedKey
<1>3. k = l
  <2>1. SubtotalsOf(Begun(p, a, n)) = SubtotalsOf(Begun(p, m, n))
    BY <1>1, <1>2, SubtotalsOnwards
  <2> QED
    BY <2>1
<1>4. ~Less(s, t)
  <2>1. CASE \E i \in 1..d : a[i] # m[i]
    BY <1>1, <1>2, <2>1, DecidedSoon
  <2>2. CASE \A i \in 1..d : a[i] = m[i]
    <3>1. \A i \in 1..n : a[i] = m[i]
      <4>1. n \in Nat
        BY ProblemIs
      <4> QED
        BY <2>2, <4>1
    <3>2. s = t
      BY <3>1, BegunAlike
    <3> HIDE DEF s, t
    <3> QED
      BY <1>1, <3>2, LessIsStrict
  <2> QED
    BY <2>1, <2>2
<1> HIDE DEF k, l, s, t
<1>5. ~Less(k \o s, k \o t)
  BY <1>1, <1>2, <1>4, LessBehind
<1> QED
  BY <1>1, <1>2, <1>3, <1>5

\* A sequence without one of its elements is still one.
LEMMA WithoutIs ==
  ASSUME NEW X, memo \in Seq(X), NEW i \in DOMAIN memo
  PROVE  Without(i) \in Seq(X)
<1> DEFINE n == Len(memo)
           s == SubSeq(memo, 1, i - 1)
           t == SubSeq(memo, i + 1, n)
<1>1. n \in Nat /\ i \in 1..n /\ \A k \in 1..n : memo[k] \in X
  OBVIOUS
<1>2. s = [k \in 1..(i - 1) |-> memo[k]]
  OBVIOUS
<1>3. t = [k \in 1..(n - i) |-> memo[i + k]]
  OBVIOUS
<1>4. s \in Seq(X)
  BY <1>1, <1>2
<1>5. t \in Seq(X)
  BY <1>1, <1>3
<1> HIDE DEF s, t
<1>6. s \o t \in Seq(X)
  BY <1>4, <1>5, JoinedIs
<1> QED
  BY <1>6 DEF Without, s, t, n

\* What is remembered is what was, and one more entry.
LEMMA RememberIs ==
  ASSUME NEW X, memo \in Seq(X), NEW e
  PROVE  Remember(e) \in Seq(X \cup {e})
<1> DEFINE i == CHOOSE i \in Remembered : TRUE
           rest == IF Remembered = {} THEN memo ELSE Without(i)
           all == Append(rest, e)
           Y == X \cup {e}
<1>1. rest \in Seq(X)
  <2>1. CASE Remembered = {}
    BY <2>1
  <2>2. CASE Remembered # {}
    <3>1. i \in Remembered
      BY <2>2
    <3>2. i \in DOMAIN memo
      BY <3>1 DEF Remembered
    <3> HIDE DEF i
    <3>3. Without(i) \in Seq(X)
      BY <3>2, WithoutIs
    <3> QED
      BY <2>2, <3>3
  <2> QED
    BY <2>1, <2>2
<1>2. Remember(e) = IF Len(all) > MaxEntries THEN Tail(all) ELSE all
  BY DEF Remember
<1> HIDE DEF rest
<1>3. rest \in Seq(Y)
  <2>1. Len(rest) \in Nat /\ \A k \in 1..Len(rest) : rest[k] \in Y
    BY <1>1
  <2>2. rest = [k \in 1..Len(rest) |-> rest[k]]
    BY <1>1
  <2> HIDE DEF Y
  <2> QED
    BY <2>1, <2>2
<1>4. all \in Seq(Y) /\ all # <<>>
  <2>1. e \in Y
    OBVIOUS
  <2> HIDE DEF Y
  <2> QED
    BY <1>3, <2>1
<1> HIDE DEF all, Y
<1>5. Tail(all) \in Seq(Y)
  BY <1>4
<1> QED
  BY <1>2, <1>4, <1>5 DEF Y

----------------------------------------------------------------------------
\* The invariant of the search.
StoresOf(b) == [i \in DOMAIN b |-> b[i].sel.store]

\* What is chosen serves the first needs, each at one of its stores, and the
\* subtotals are those of the stores chosen.
PathInv ==
  /\ problem \in Problems
  /\ Serves(problem, StoresOf(chosen), Len(chosen))
  /\ chosen = Begun(problem, StoresOf(chosen), Len(chosen))
  /\ subtotals = SubtotalsOf(chosen)
  /\ problem.limit # None => Cardinality(UsedStores) <= problem.limit

\* The stores that are left at a call: candidates of its need, each once,
\* and not the one that is chosen.
LeftInv(d) ==
  /\ \A k \in DOMAIN frames[d] : frames[d][k] \in DOMAIN problem.ordered[d].candidates
  /\ \A k, l \in DOMAIN frames[d] : frames[d][k] = frames[d][l] => k = l
  /\ d <= Len(chosen) => \A k \in DOMAIN frames[d] : frames[d][k] # chosen[d].sel.store

\* Each call in its loop has its stores left, and the phases agree with them.
LoopsInv ==
  /\ phase \in {"enter", "loop", "return", "done"}
  /\ frames \in Seq(Seq(Int)) /\ Len(frames) <= Len(problem.ordered)
  /\ phase \in {"enter", "return"} => Len(frames) = Len(chosen)
  /\ phase = "loop" => Len(frames) = Len(chosen) + 1
  /\ phase = "done" => frames = <<>>
  /\ \A d \in DOMAIN frames : LeftInv(d)

\* The best so far is a cart that was asked for.
BestInv == bestPlan # None => \E a \in Assignments(problem) : bestPlan = PlanOf(problem, a)

\* An assignment that is no better than the best so far, and one that the
\* calls under way will still come to.
NoBetter(a) == bestPlan # None /\ ~Less(KeyOf(problem, a), PlanSortKey(bestPlan))
Follows(a, d) == \A i \in 1..d : a[i] = chosen[i].sel.store
Ahead(a) ==
  \E d \in DOMAIN frames : /\ Follows(a, d - 1)
                           /\ \E k \in DOMAIN frames[d] : a[d] = frames[d][k]
Pending(a) == (phase = "enter" /\ Follows(a, Len(chosen))) \/ Ahead(a)

\* No cart is given up that is better.
CoverInv == \A a \in Assignments(problem) : NoBetter(a) \/ Pending(a)

\* An entry of the cache is of a call that is under way, or whatever has the
\* same subtotals and no better a beginning is no better.
Reaches(a, m) ==
  LET b == Begun(problem, a, m.key[1])
  IN  SubtotalsOf(b) = m.key[2] /\ ~Less(SkusBought(b), m.prefix)
IsDone(m) == \A a \in Assignments(problem) : Reaches(a, m) => NoBetter(a)
IsOnPath(m) ==
  LET b == Begun(problem, StoresOf(chosen), m.key[1])
  IN  m.key[1] < Len(frames) /\ m.key[2] = SubtotalsOf(b) /\ m.prefix = SkusBought(b)
IsEntry(m) == m.key[1] \in 0..Len(problem.ordered) /\ (IsDone(m) \/ IsOnPath(m))
MemoInv == \E X : memo \in Seq(X) /\ \A m \in X : IsEntry(m)

\* What holds at every step of the search.
SearchInv == PathInv /\ LoopsInv /\ BestInv /\ CoverInv /\ MemoInv

----------------------------------------------------------------------------
\* What the choices on the way to the current call are.
LEMMA PathIs ==
  ASSUME PathInv
  PROVE  /\ IsProblem(problem) /\ Len(problem.ordered) \in Nat
         /\ Len(chosen) \in 0..Len(problem.ordered) /\ DOMAIN chosen = 1..Len(chosen)
         /\ chosen = [i \in 1..Len(chosen) |-> chosen[i]]
         /\ Buys(problem, chosen, Len(chosen))
         /\ UsedStores = UsedBy(chosen)
         /\ \A i \in 1..Len(chosen) :
              /\ chosen[i].sel.store = StoresOf(chosen)[i]
              /\ chosen[i].sel = problem.ordered[i].candidates[StoresOf(chosen)[i]]
         /\ PrefixKey = SkusBought(chosen) /\ PrefixKey \in Seq(Int)
<1> DEFINE d == Len(chosen)
           c == StoresOf(chosen)
<1>1. IsProblem(problem) /\ Len(problem.ordered) \in Nat
  <2>1. IsProblem(problem)
    BY ProblemsAssumption DEF PathInv
  <2> QED
    BY <2>1, ProblemIs
<1>2. Serves(problem, c, d) /\ chosen = Begun(problem, c, d)
  BY DEF PathInv
<1>3. d \in 0..Len(problem.ordered)
  BY <1>2 DEF Serves
<1> HIDE DEF c, d
<1>4. /\ Buys(problem, chosen, d) /\ DOMAIN chosen = 1..d
      /\ chosen = [i \in 1..d |-> chosen[i]]
      /\ \A i \in 1..d : /\ chosen[i].sel = problem.ordered[i].candidates[c[i]]
                         /\ chosen[i].sel.store = c[i]
  BY <1>1, <1>2, BegunSelections
<1>5. UsedStores = UsedBy(chosen)
  BY DEF UsedStores, UsedBy
<1>6. PrefixKey = SkusBought(chosen)
  BY DEF PrefixKey, SkusBought, SkusOn
<1>7. PrefixKey \in Seq(Int)
  BY <1>1, <1>2, <1>6, SkusAre
<1> QED
  BY <1>1, <1>3, <1>4, <1>5, <1>6, <1>7 DEF c, d

\* What search() gives up by is the bound of what is chosen.
LEMMA LowerBoundIs ==
  ASSUME PathInv
  PROVE  LowerBound = BoundOf(problem, SubtotalsOf(chosen), Len(chosen))
<1> DEFINE sums == SubtotalsOf(chosen)
           d == Len(chosen)
<1>1. Buys(problem, chosen, d) /\ UsedStores = UsedBy(chosen) /\ DOMAIN chosen = 1..d
  BY PathIs
<1>2. subtotals = sums
  BY DEF PathInv
<1>3. DOMAIN sums = UsedBy(chosen)
  BY DEF SubtotalsOf
<1>4. ItemCost(chosen) = SumFunction(sums)
  <2>1. SumFunction(sums) = SumFunctionOnSet(CostOf(chosen), 1..d)
    BY <1>1, SubtotalsAddUp
  <2>2. ItemCost(chosen) = SumFunction(CostOf(chosen))
    BY DEF ItemCost, CostOf
  <2>3. SumFunction(CostOf(chosen)) = SumFunctionOnSet(CostOf(chosen), DOMAIN CostOf(chosen))
    BY DEF SumFunction
  <2>4. DOMAIN CostOf(chosen) = 1..d
    BY <1>1 DEF CostOf
  <2> QED
    BY <2>1, <2>2, <2>3, <2>4
<1> HIDE DEF sums, d
<1>5. LowerBound = ItemCost(chosen) + MinimumRemainingCost(problem, d)
                     + SumFunction([s \in DOMAIN sums |-> TaxAt(problem, sums, s)])
                     + Penalty(Cardinality(DOMAIN sums))
  BY <1>1, <1>2, <1>3 DEF LowerBound, Index, d
<1> QED
  BY <1>4, <1>5 DEF BoundOf, sums, d

\* What has the subtotals of a hopeless choice is no better.
LEMMA HopelessIs ==
  ASSUME PathInv, BestInv, IsHopeless, NEW a \in Assignments(problem),
         SubtotalsOf(Begun(problem, a, Len(chosen))) = subtotals
  PROVE  NoBetter(a)
<1> DEFINE p == problem
           n == Len(p.ordered)
           d == Len(chosen)
           x == LowerBound
           y == FinalComparisonCost(p, SubtotalsOf(Begun(p, a, n)))
           z == bestPlan.comparison
<1>1. IsProblem(p) /\ d \in 0..n /\ subtotals = SubtotalsOf(chosen)
  BY PathIs DEF PathInv
<1>2. Serves(p, a, n) /\ KeyOf(p, a) \in Seq(Int) /\ KeyOf(p, a) # <<>> /\ KeyOf(p, a)[1] = y
      /\ y \in Nat
  BY <1>1, AssignedKey
<1>3. bestPlan # None /\ x > z
  BY DEF IsHopeless
<1>4. PICK b \in Assignments(p) : bestPlan = PlanOf(p, b)
  BY <1>3 DEF BestInv
<1> DEFINE k == PlanSortKey(bestPlan)
           l == KeyOf(p, a)
<1>5. k \in Seq(Int) /\ k # <<>> /\ k[1] = z /\ z \in Nat
  <2>1. /\ KeyOf(p, b) \in Seq(Int) /\ KeyOf(p, b) # <<>>
        /\ KeyOf(p, b)[1] = PlanOf(p, b).comparison /\ PlanOf(p, b).comparison \in Nat
    BY <1>1, AssignedKey
  <2>2. k = KeyOf(p, b) /\ z = PlanOf(p, b).comparison
    BY <1>4 DEF KeyOf
  <2> QED
    BY <2>1, <2>2
<1>6. x \in Nat /\ x <= y
  <2>1. LowerBound = BoundOf(p, SubtotalsOf(Begun(p, a, d)), d)
    BY <1>1, LowerBoundIs
  <2>2. /\ BoundOf(p, SubtotalsOf(Begun(p, a, d)), d) \in Nat
        /\ BoundOf(p, SubtotalsOf(Begun(p, a, d)), d) <= y
    BY <1>1, <1>2, BoundHolds
  <2> QED
    BY <2>1, <2>2
<1> HIDE DEF x, y, z, k, l
<1>7. k[1] < l[1]
  BY <1>2, <1>3, <1>5, <1>6 DEF l
<1>8. Less(k, l)
  BY <1>2, <1>5, <1>7, LessFirst DEF l
<1>9. ~Less(l, k)
  <2> SUFFICES ASSUME Less(l, k) PROVE FALSE
    OBVIOUS
  <2>1. k \in Seq(Int) /\ l \in Seq(Int)
    BY <1>2, <1>5 DEF l
  <2>2. Less(k, k)
    BY <1>8, <2>1, LessIsTransitive
  <2> QED
    BY <2>1, <2>2, LessIsStrict
<1> QED
  BY <1>3, <1>9 DEF NoBetter, k, l

\* The stores of a need, each once.
LEMMA OptionsAre ==
  ASSUME PathInv, Index < Len(problem.ordered)
  PROVE  LET c == problem.ordered[Index + 1].candidates
         IN  Options \in Seq(Int) /\ ListsOnce(Options, DOMAIN c)
<1> DEFINE c == problem.ordered[Index + 1].candidates
           D == DOMAIN c
           rank(s) == <<c[s].cost, s>>
           before == {p \in D \X D : Less(rank(p[1]), rank(p[2]))}
           M(k) == CHOOSE x \in D : Cardinality({y \in D : Less(rank(y), rank(x))}) = k - 1
           q == [k \in 1..Cardinality(D) |-> M(k)]
<1>1. Options = q
  BY DEF Options, Sorted
<1>2. IsFiniteSet(D) /\ D \in SUBSET Int /\ Cardinality(D) \in Nat
  <2>1. IsProblem(problem) /\ Index + 1 \in 1..Len(problem.ordered)
    BY PathIs DEF Index
  <2>2. D \in SUBSET DOMAIN problem.stores /\ IsStores(problem.stores)
    BY <2>1, ProblemIs
  <2>3. IsFiniteSet(D) /\ D \in SUBSET Int
    BY <2>2, FS_Subset DEF IsStores
  <2> QED
    BY <2>3, FS_CardinalityType
<1>3. \A s \in D : c[s].cost \in Int /\ s \in Int
  <2>1. IsProblem(problem) /\ Index + 1 \in 1..Len(problem.ordered)
    BY PathIs DEF Index
  <2>2. IsServed(c, problem.stores, problem.config)
    BY <2>1, ProblemIs
  <2>3. \A s \in D : IsSelection(c[s])
    BY <2>2 DEF IsServed
  <2>4. \A s \in D : c[s].cost \in Nat
    BY <2>3 DEF IsSelection
  <2> HIDE DEF D, c
  <2> QED
    BY <1>2, <2>4
<1>4. \A s \in D : rank(s) \in Seq(Int)
  BY <1>3
<1>5. \A s, t \in D : s # t => Less(rank(s), rank(t)) \/ Less(rank(t), rank(s))
  BY <1>3, LessPairs
<1> HIDE DEF rank, D
<1>6. Orders(before, D)
  <2>1. \A s \in D : ~Less(rank(s), rank(s))
    BY <1>4, LessIsStrict
  <2>2. \A i, j, k \in D : Less(rank(i), rank(j)) /\ Less(rank(j), rank(k))
                             => Less(rank(i), rank(k))
    BY <1>4, LessIsTransitive
  <2> QED
    BY <1>5, <2>1, <2>2 DEF Orders
<1>7. \A x \in D : {y \in D : <<y, x>> \in before} = {y \in D : Less(rank(y), rank(x))}
  OBVIOUS
<1>8. \A x \in D : Rank(x, D, before) = Cardinality({y \in D : Less(rank(y), rank(x))})
  BY <1>7 DEF Rank
<1>9. InRanks(q, D, before)
  <2>1. DOMAIN q = 1..Cardinality(D) /\ \A k \in DOMAIN q : q[k] = M(k)
    <3> HIDE DEF M
    <3> QED
      OBVIOUS
  <2> SUFFICES ASSUME NEW k \in DOMAIN q, \E x \in D : Rank(x, D, before) = k - 1
               PROVE  q[k] \in D /\ Rank(q[k], D, before) = k - 1
    BY <2>1 DEF InRanks
  <2>2. \E x \in D : Cardinality({y \in D : Less(rank(y), rank(x))}) = k - 1
    BY <1>8
  <2>3. M(k) \in D /\ Cardinality({y \in D : Less(rank(y), rank(M(k)))}) = k - 1
    BY <2>2
  <2> HIDE DEF M, q
  <2> QED
    BY <1>8, <2>1, <2>3
<1>10. q = [k \in DOMAIN q |-> q[k]]
  <2> HIDE DEF M
  <2> QED
    OBVIOUS
<1> HIDE DEF before, q, M
<1>11. ListsOnce(q, D)
  BY <1>2, <1>6, <1>9, <1>10, RankedLists
<1>12. q \in Seq(Int)
  BY <1>2, <1>11, ListedNumbers
<1> QED
  BY <1>1, <1>11, <1>12 DEF D

\* What follows what is chosen buys what is chosen.
LEMMA FollowersBuy ==
  ASSUME PathInv, NEW a, NEW d \in 0..Len(chosen), Follows(a, d)
  PROVE  Begun(problem, a, d) = Begun(problem, StoresOf(chosen), d)
<1>1. \A i \in 1..d : a[i] = StoresOf(chosen)[i]
  <2>1. /\ Len(chosen) \in Nat
        /\ \A i \in 1..Len(chosen) : chosen[i].sel.store = StoresOf(chosen)[i]
    BY PathIs
  <2>2. \A i \in 1..d : i \in 1..Len(chosen)
    BY <2>1
  <2> QED
    BY <2>1, <2>2 DEF Follows
<1> QED
  BY <1>1, BegunAlike

\* When every need has a store, what is chosen is an assignment.
LEMMA ChosenIsAssigned ==
  ASSUME PathInv, Len(chosen) = Len(problem.ordered)
  PROVE  /\ StoresOf(chosen) \in Assignments(problem)
         /\ PlanOf(problem, StoresOf(chosen))
              = BuildPlan(chosen, problem.stores, problem.config)
<1> DEFINE p == problem
           n == Len(p.ordered)
           c == StoresOf(chosen)
<1>1. /\ IsProblem(p) /\ DOMAIN chosen = 1..n /\ UsedStores = UsedBy(chosen)
  BY PathIs
<1>2. Serves(p, c, n) /\ chosen = Begun(p, c, n)
  BY DEF PathInv
<1>3. DOMAIN c = 1..n /\ c = [i \in 1..n |-> c[i]]
  BY <1>1 DEF StoresOf
<1>4. DOMAIN p.ordered = 1..n /\ \A k \in 1..n : DOMAIN p.ordered[k].candidates \in SUBSET DOMAIN p.stores
  BY <1>1, ProblemIs
<1>5. \A i \in 1..n : c[i] \in DOMAIN p.ordered[i].candidates
  BY <1>2 DEF Serves
<1>6. Range(c) = UsedBy(chosen)
  BY <1>1 DEF UsedBy, StoresOf, Range
<1>7. p.limit # None => Cardinality(Range(c)) <= p.limit
  BY <1>1, <1>6 DEF PathInv
<1> HIDE DEF c, n
<1>8. c \in [DOMAIN p.ordered -> DOMAIN p.stores]
  BY <1>3, <1>4, <1>5
<1>9. c \in Assignments(p)
  BY <1>3, <1>5, <1>7, <1>8 DEF Assignments
<1>10. PlanOf(p, c) = BuildPlan(Begun(p, c, n), p.stores, p.config)
  BY <1>1, <1>9, AssignedIs DEF n
<1> QED
  BY <1>2, <1>9, <1>10 DEF c, n

\* A cart that is kept when it is better.
LEMMA BetterOfIs ==
  ASSUME NoneIsNoPlan, PathInv, BestInv, Len(chosen) = Len(problem.ordered),
         NEW new, new = BetterOf(BuildPlan(chosen, problem.stores, problem.config))
  PROVE  LET c == StoresOf(chosen)
             k == PlanSortKey(new)
         IN  /\ new # None /\ \E a \in Assignments(problem) : new = PlanOf(problem, a)
             /\ k \in Seq(Int) /\ ~Less(KeyOf(problem, c), k)
             /\ \A a \in Assignments(problem) : NoBetter(a) => ~Less(KeyOf(problem, a), k)
<1> DEFINE p == problem
           c == StoresOf(chosen)
           plan == PlanOf(p, c)
           x == KeyOf(p, c)
           y == PlanSortKey(bestPlan)
           k == PlanSortKey(new)
<1>1. IsProblem(p) /\ c \in Assignments(p) /\ plan = BuildPlan(chosen, p.stores, p.config)
      /\ plan # None
  BY PathIs, ChosenIsAssigned DEF NoneIsNoPlan
<1>2. x \in Seq(Int) /\ x # <<>> /\ x[1] = FinalComparisonCost(p, subtotals) /\ x[1] \in Nat
  <2>1. chosen = Begun(p, c, Len(p.ordered)) /\ subtotals = SubtotalsOf(chosen)
    BY DEF PathInv
  <2>2. /\ x \in Seq(Int) /\ x # <<>>
        /\ x[1] = FinalComparisonCost(p, SubtotalsOf(Begun(p, c, Len(p.ordered))))
        /\ plan.comparison = FinalComparisonCost(p, SubtotalsOf(Begun(p, c, Len(p.ordered))))
        /\ plan.comparison \in Nat
    BY <1>1, AssignedKey
  <2> QED
    BY <2>1, <2>2
<1>3. x = PlanSortKey(plan)
  BY DEF KeyOf
<1>4. ASSUME bestPlan # None
      PROVE  y \in Seq(Int) /\ y # <<>> /\ y[1] = bestPlan.comparison /\ y[1] \in Nat
  <2>1. PICK b \in Assignments(p) : bestPlan = PlanOf(p, b)
    BY <1>4 DEF BestInv
  <2>2. /\ KeyOf(p, b) \in Seq(Int) /\ KeyOf(p, b) # <<>>
        /\ KeyOf(p, b)[1] = PlanOf(p, b).comparison /\ PlanOf(p, b).comparison \in Nat
    BY <1>1, AssignedKey
  <2> QED
    BY <2>1, <2>2 DEF KeyOf
<1>5. \A a \in Assignments(p) : KeyOf(p, a) \in Seq(Int)
  BY <1>1, AssignedKey
<1> DEFINE better == \/ bestPlan = None
                     \/ FinalComparisonCost(p, subtotals) <= bestPlan.comparison /\ Less(x, y)
<1>6. new = IF better THEN plan ELSE bestPlan
  BY <1>1, <1>3 DEF BetterOf
<1>7. CASE better
  <2>1. new = plan /\ k = x
    BY <1>3, <1>6, <1>7
  <2>2. ~Less(x, x)
    BY <1>2, LessIsStrict
  <2>3. ASSUME NEW a \in Assignments(p), NoBetter(a) PROVE ~Less(KeyOf(p, a), x)
    <3> DEFINE l == KeyOf(p, a)
    <3>1. bestPlan # None /\ ~Less(l, y)
      BY <2>3 DEF NoBetter
    <3>2. l \in Seq(Int) /\ y \in Seq(Int) /\ Less(x, y)
      BY <1>4, <1>5, <1>7, <3>1
    <3> HIDE DEF l, x, y
    <3>3. Less(l, x) => Less(l, y)
      BY <1>2, <3>2, LessIsTransitive
    <3> QED
      BY <3>1, <3>3 DEF l
  <2> QED
    BY <1>1, <1>2, <2>1, <2>2, <2>3
<1>8. CASE ~better
  <2>1. new = bestPlan /\ bestPlan # None /\ k = y
    BY <1>6, <1>8
  <2>2. y \in Seq(Int) /\ y # <<>> /\ y[1] = bestPlan.comparison /\ y[1] \in Nat
    BY <1>4, <2>1
  <2>3. ~Less(x, y)
    <3>1. CASE FinalComparisonCost(p, subtotals) <= bestPlan.comparison
      BY <1>8, <2>1, <3>1
    <3>2. CASE ~(FinalComparisonCost(p, subtotals) <= bestPlan.comparison)
      <4>1. y[1] < x[1]
        BY <1>2, <2>2, <3>2
      <4> HIDE DEF x, y
      <4>2. Less(y, x)
        BY <1>2, <2>2, <4>1, LessFirst
      <4>3. Less(x, y) => Less(x, x)
        BY <1>2, <2>2, <4>2, LessIsTransitive
      <4> QED
        BY <1>2, <4>3, LessIsStrict
    <3> QED
      BY <3>1, <3>2
  <2>4. \E a \in Assignments(p) : bestPlan = PlanOf(p, a)
    BY <2>1 DEF BestInv
  <2> QED
    BY <2>1, <2>2, <2>3, <2>4 DEF NoBetter
<1> QED
  BY <1>7, <1>8

\* Nothing is chosen at first.
LEMMA SearchStarts ==
  ASSUME SearchInit
  PROVE  SearchInv
<1>1. IsProblem(problem) /\ Len(problem.ordered) \in Nat
  <2>1. IsProblem(problem)
    BY ProblemsAssumption DEF SearchInit
  <2> QED
    BY <2>1, ProblemIs
<1>2. /\ problem \in Problems /\ phase = "enter" /\ frames = <<>> /\ chosen = <<>>
      /\ subtotals = <<>> /\ memo = <<>> /\ bestPlan = None
  BY DEF SearchInit
<1>3. Len(chosen) = 0 /\ DOMAIN chosen = {} /\ Len(frames) = 0 /\ DOMAIN frames = {}
  BY <1>2
<1>4. Serves(problem, StoresOf(chosen), 0)
  BY <1>1 DEF Serves
<1>5. chosen = Begun(problem, StoresOf(chosen), 0)
  <2>1. /\ DOMAIN Begun(problem, StoresOf(chosen), 0) = 1..0
        /\ Begun(problem, StoresOf(chosen), 0)
             = [i \in 1..0 |-> Begun(problem, StoresOf(chosen), 0)[i]]
    BY <1>1, <1>4, BegunSelections
  <2> DEFINE b == Begun(problem, StoresOf(chosen), 0)
  <2> HIDE DEF b
  <2>2. b = <<>>
    BY <2>1 DEF b
  <2> QED
    BY <1>2, <2>2 DEF b
<1>6. UsedBy(chosen) = {} /\ UsedStores = {}
  BY <1>3 DEF UsedBy, UsedStores
<1>7. subtotals = SubtotalsOf(chosen)
  BY <1>2, <1>6 DEF SubtotalsOf
<1>8. problem.limit # None => Cardinality(UsedStores) <= problem.limit
  <2>1. problem.limit # None => problem.limit \in Nat
    BY <1>1 DEF IsProblem
  <2>2. Cardinality(UsedStores) = 0
    BY <1>6, FS_EmptySet
  <2> QED
    BY <2>1, <2>2
<1>9. PathInv
  BY <1>2, <1>3, <1>4, <1>5, <1>7, <1>8 DEF PathInv
<1>10. LoopsInv
  BY <1>1, <1>2, <1>3 DEF LoopsInv
<1>11. BestInv
  BY <1>2 DEF BestInv
<1>12. CoverInv
  BY <1>2, <1>3 DEF CoverInv, Pending, Follows
<1>13. MemoInv
  <2>1. memo \in Seq({}) /\ \A m \in {} : IsEntry(m)
    BY <1>2
  <2> QED
    BY <2>1 DEF MemoInv
<1> QED
  BY <1>9, <1>10, <1>11, <1>12, <1>13 DEF SearchInv

\* What an entry of the cache says stays, as long as its call is under way.
LEMMA EntryStays ==
  ASSUME problem' = problem, NEW m, IsEntry(m),
         \A a \in Assignments(problem) : NoBetter(a) => NoBetter(a)',
         m.key[1] < Len(frames) =>
           /\ m.key[1] < Len(frames')
           /\ \A i \in 1..m.key[1] : StoresOf(chosen)[i] = StoresOf(chosen')[i]
  PROVE  IsEntry(m)'
<1>1. CASE IsDone(m)
  <2>1. IsDone(m)'
    BY <1>1 DEF IsDone, Reaches
  <2> QED
    BY <2>1 DEF IsEntry
<1>2. CASE IsOnPath(m)
  <2> DEFINE d == m.key[1]
             b == Begun(problem, StoresOf(chosen), d)
             c == Begun(problem, StoresOf(chosen'), d)
  <2>1. d < Len(frames) /\ m.key[2] = SubtotalsOf(b) /\ m.prefix = SkusBought(b)
    BY <1>2 DEF IsOnPath
  <2>2. d < Len(frames') /\ \A i \in 1..d : StoresOf(chosen)[i] = StoresOf(chosen')[i]
    BY <2>1
  <2>3. b = c
    BY <2>2, BegunAlike
  <2> HIDE DEF b, c
  <2>4. m.key[1] < Len(frames') /\ m.key[2] = SubtotalsOf(c) /\ m.prefix = SkusBought(c)
    BY <2>1, <2>2, <2>3
  <2>5. IsOnPath(m)'
    BY <2>4 DEF IsOnPath, c
  <2> QED
    BY <2>5 DEF IsEntry
<1> QED
  BY <1>1, <1>2 DEF IsEntry

\* A call that was here before returns.
LEMMA MemoizedKeeps ==
  ASSUME SearchInv, Memoized
  PROVE  SearchInv'
<1>1. PathInv /\ LoopsInv /\ BestInv /\ CoverInv /\ MemoInv
  BY DEF SearchInv
<1>2. /\ phase = "enter" /\ phase' = "return" /\ problem' = problem /\ frames' = frames
      /\ chosen' = chosen /\ subtotals' = subtotals /\ bestPlan' = bestPlan
  BY DEF Memoized
<1>3. PathInv'
  BY <1>1, <1>2 DEF PathInv, UsedStores
<1>4. LoopsInv'
  BY <1>1, <1>2 DEF LoopsInv, LeftInv
<1>5. BestInv'
  BY <1>1, <1>2 DEF BestInv
<1>6. \A a : NoBetter(a)' <=> NoBetter(a)
  BY <1>2 DEF NoBetter
<1>7. PICK X : memo \in Seq(X) /\ \A m \in X : IsEntry(m)
  BY <1>1 DEF MemoInv
<1>8. MemoInv'
  <2> DEFINE i == CHOOSE i \in Remembered : TRUE
             e == memo[i]
  <2>1. memo' = Remember(e) /\ Remembered # {}
    BY DEF Memoized, IsReachedAsWell
  <2>2. i \in DOMAIN memo
    BY <2>1 DEF Remembered
  <2> HIDE DEF i
  <2>3. e \in X
    BY <1>7, <2>2
  <2> HIDE DEF e
  <2>4. memo' \in Seq(X)
    <3>1. X \cup {e} = X
      BY <2>3
    <3>2. memo' \in Seq(X \cup {e})
      BY <1>7, <2>1, RememberIs
    <3> QED
      BY <3>1, <3>2
  <2>5. \A m \in X : IsEntry(m)'
    BY <1>2, <1>6, <1>7, EntryStays
  <2> QED
    BY <2>4, <2>5 DEF MemoInv
<1>9. CoverInv'
  <2> SUFFICES ASSUME NEW a \in Assignments(problem) PROVE NoBetter(a)' \/ Pending(a)'
    BY <1>2 DEF CoverInv
  <2>1. NoBetter(a) \/ Follows(a, Len(chosen)) \/ Ahead(a)
    BY <1>1 DEF CoverInv, Pending
  <2>2. CASE Ahead(a)
    <3>1. Ahead(a)'
      BY <1>2, <2>2 DEF Ahead, Follows
    <3> QED
      BY <3>1 DEF Pending
  <2>3. CASE Follows(a, Len(chosen))
    <3>1. PICK i \in Remembered : ~Less(PrefixKey, memo[i].prefix)
      BY DEF Memoized, IsReachedAsWell
    <3> DEFINE m == memo[i]
               d == Len(chosen)
    <3>2. m \in X /\ m.key = <<d, subtotals>>
      BY <1>7 DEF Remembered, SearchKey, Index
    <3>3. m.key[1] = d /\ m.key[2] = subtotals
      BY <3>2
    <3> HIDE DEF m
    <3>4. IsEntry(m)
      BY <1>7, <3>2
    <3>5. d \in Nat /\ Len(frames) = d
      BY <1>1, <1>2, PathIs DEF LoopsInv
    <3>6. IsDone(m)
      BY <3>3, <3>4, <3>5 DEF IsEntry, IsOnPath
    <3>7. Begun(problem, a, d) = chosen
      <4>1. d \in 0..Len(chosen)
        BY <3>5
      <4>2. Begun(problem, a, d) = Begun(problem, StoresOf(chosen), d)
        BY <1>1, <2>3, <4>1, FollowersBuy
      <4> QED
        BY <1>1, <4>2 DEF PathInv
    <3>8. Reaches(a, m)
      <4>1. SubtotalsOf(chosen) = m.key[2]
        BY <1>1, <3>3 DEF PathInv
      <4>2. ~Less(SkusBought(chosen), m.prefix)
        BY <1>1, <3>1, PathIs DEF m
      <4> QED
        BY <3>3, <3>7, <4>1, <4>2 DEF Reaches
    <3>9. NoBetter(a)
      BY <3>6, <3>8 DEF IsDone
    <3> QED
      BY <1>6, <3>9
  <2> QED
    BY <1>6, <2>1, <2>2, <2>3
<1> QED
  BY <1>3, <1>4, <1>5, <1>8, <1>9 DEF SearchInv

\* What a call remembers of itself.
IsOfThis(e) ==
  e.key[1] = Len(chosen) /\ e.key[2] = subtotals /\ e.prefix = SkusBought(chosen)

\* A call that goes on adds itself to the cache, and chooses nothing yet.
LEMMA VisitIs ==
  ASSUME SearchInv, Visit
  PROVE  /\ PathInv /\ LoopsInv /\ BestInv /\ CoverInv
         /\ phase = "enter" /\ problem' = problem /\ chosen' = chosen /\ subtotals' = subtotals
         /\ Len(frames) = Len(chosen) /\ Len(chosen) \in 0..Len(problem.ordered)
         /\ \E e, X : /\ IsOfThis(e)
                      /\ memo' \in Seq(X \cup {e}) /\ \A m \in X : IsEntry(m)
         /\ PathInv'
<1> DEFINE this == [key |-> SearchKey, prefix |-> PrefixKey]
<1>1. PathInv /\ LoopsInv /\ BestInv /\ CoverInv /\ MemoInv
  BY DEF SearchInv
<1>2. /\ phase = "enter" /\ problem' = problem /\ chosen' = chosen /\ subtotals' = subtotals
      /\ memo' = Remember(this)
  BY DEF Visit
<1>3. Len(frames) = Len(chosen) /\ Len(chosen) \in 0..Len(problem.ordered)
      /\ PrefixKey = SkusBought(chosen)
  BY <1>1, <1>2, PathIs DEF LoopsInv
<1>4. IsOfThis(this)
  BY <1>3 DEF IsOfThis, SearchKey, Index
<1>5. \E e, X : IsOfThis(e) /\ memo' \in Seq(X \cup {e}) /\ \A m \in X : IsEntry(m)
  <2>1. PICK X : memo \in Seq(X) /\ \A m \in X : IsEntry(m)
    BY <1>1 DEF MemoInv
  <2> HIDE DEF this
  <2>2. memo' \in Seq(X \cup {this})
    BY <1>2, <2>1, RememberIs
  <2> QED
    BY <1>4, <2>1, <2>2
<1>6. PathInv'
  BY <1>1, <1>2 DEF PathInv, UsedStores
<1> QED
  BY <1>1, <1>2, <1>3, <1>5, <1>6

\* A hopeless call returns.
LEMMA PruneKeeps ==
  ASSUME SearchInv, Prune
  PROVE  SearchInv'
<1> DEFINE d == Len(chosen)
<1>1. /\ Visit /\ IsHopeless /\ phase' = "return" /\ frames' = frames /\ bestPlan' = bestPlan
  BY DEF Prune
<1>2. /\ PathInv /\ LoopsInv /\ BestInv /\ CoverInv
      /\ phase = "enter" /\ problem' = problem /\ chosen' = chosen /\ subtotals' = subtotals
      /\ Len(frames) = Len(chosen) /\ Len(chosen) \in 0..Len(problem.ordered)
      /\ PathInv'
  BY <1>1, VisitIs
<1>3. PICK e, X : IsOfThis(e) /\ memo' \in Seq(X \cup {e}) /\ \A m \in X : IsEntry(m)
  BY <1>1, VisitIs
<1>4. LoopsInv'
  BY <1>1, <1>2 DEF LoopsInv, LeftInv
<1>5. BestInv'
  BY <1>1, <1>2 DEF BestInv
<1>6. \A a : NoBetter(a)' <=> NoBetter(a)
  BY <1>1, <1>2 DEF NoBetter
<1>7. \A a \in Assignments(problem) : SubtotalsOf(Begun(problem, a, d)) = subtotals => NoBetter(a)
  BY <1>1, <1>2, HopelessIs
<1>8. MemoInv'
  <2>1. IsDone(e)'
    BY <1>2, <1>3, <1>6, <1>7 DEF IsDone, Reaches, IsOfThis
  <2>2. IsEntry(e)'
    BY <1>2, <1>3, <2>1 DEF IsEntry, IsOfThis
  <2>3. \A m \in X : IsEntry(m)'
    BY <1>1, <1>2, <1>3, <1>6, EntryStays
  <2> QED
    BY <1>3, <2>2, <2>3 DEF MemoInv
<1>9. CoverInv'
  <2> SUFFICES ASSUME NEW a \in Assignments(problem) PROVE NoBetter(a)' \/ Pending(a)'
    BY <1>2 DEF CoverInv
  <2>1. NoBetter(a) \/ Follows(a, d) \/ Ahead(a)
    BY <1>2 DEF CoverInv, Pending
  <2>2. CASE Ahead(a)
    <3>1. Ahead(a)'
      BY <1>1, <1>2, <2>2 DEF Ahead, Follows
    <3> QED
      BY <3>1 DEF Pending
  <2>3. CASE Follows(a, d)
    <3>1. Begun(problem, a, d) = chosen
      <4>1. d \in 0..Len(chosen)
        BY <1>2
      <4>2. Begun(problem, a, d) = Begun(problem, StoresOf(chosen), d)
        BY <1>2, <2>3, <4>1, FollowersBuy
      <4> QED
        BY <1>2, <4>2 DEF PathInv
    <3>2. SubtotalsOf(Begun(problem, a, d)) = subtotals
      BY <1>2, <3>1 DEF PathInv
    <3> QED
      BY <1>6, <1>7, <3>2
  <2> QED
    BY <1>6, <2>1, <2>2, <2>3
<1> QED
  BY <1>2, <1>4, <1>5, <1>8, <1>9 DEF SearchInv

\* What buys as much as is chosen at every store, and no better, is no better.
LEMMA AlikeIsNoWorse ==
  ASSUME PathInv, Len(chosen) = Len(problem.ordered), NEW a \in Assignments(problem),
         LET b == Begun(problem, a, Len(chosen))
         IN  SubtotalsOf(b) = subtotals /\ ~Less(SkusBought(b), SkusBought(chosen))
  PROVE  ~Less(KeyOf(problem, a), KeyOf(problem, StoresOf(chosen)))
<1> DEFINE n == Len(problem.ordered)
           c == StoresOf(chosen)
<1>1. IsProblem(problem) /\ c \in Assignments(problem) /\ n \in 0..n
  BY PathIs, ChosenIsAssigned
<1>2. \A i \in (n + 1)..n : a[i] = c[i]
  BY <1>1
<1>3. Begun(problem, c, n) = chosen /\ SubtotalsOf(chosen) = subtotals
  BY DEF PathInv
<1>4. /\ SubtotalsOf(Begun(problem, a, n)) = SubtotalsOf(Begun(problem, c, n))
      /\ ~Less(SkusBought(Begun(problem, a, n)), SkusBought(Begun(problem, c, n)))
  BY <1>3
<1> HIDE DEF c
<1>5. ~Less(KeyOf(problem, a), KeyOf(problem, c))
  BY <1>1, <1>2, <1>4, MixedIsNoWorse
<1> QED
  BY <1>5 DEF c

\* A call that finds every need served returns with the better cart.
LEMMA CompleteKeeps ==
  ASSUME NoneIsNoPlan, SearchInv, Complete
  PROVE  SearchInv'
<1> DEFINE d == Len(chosen)
           c == StoresOf(chosen)
           k == PlanSortKey(bestPlan')
<1>1. /\ Visit /\ Index = Len(problem.ordered) /\ phase' = "return" /\ frames' = frames
      /\ bestPlan' = BetterOf(BuildPlan(chosen, problem.stores, problem.config))
  BY DEF Complete
<1>2. /\ PathInv /\ LoopsInv /\ BestInv /\ CoverInv
      /\ phase = "enter" /\ problem' = problem /\ chosen' = chosen /\ subtotals' = subtotals
      /\ Len(frames) = Len(chosen) /\ Len(chosen) \in 0..Len(problem.ordered)
      /\ PathInv'
  BY <1>1, VisitIs
<1>3. PICK e, X : IsOfThis(e) /\ memo' \in Seq(X \cup {e}) /\ \A m \in X : IsEntry(m)
  BY <1>1, VisitIs
<1>4. d = Len(problem.ordered) /\ IsProblem(problem) /\ c \in Assignments(problem)
  BY <1>1, <1>2, PathIs, ChosenIsAssigned DEF Index
<1>5. /\ bestPlan' # None /\ \E a \in Assignments(problem) : bestPlan' = PlanOf(problem, a)
      /\ k \in Seq(Int) /\ ~Less(KeyOf(problem, c), k)
      /\ \A a \in Assignments(problem) : NoBetter(a) => ~Less(KeyOf(problem, a), k)
  BY <1>1, <1>2, <1>4, BetterOfIs
<1>6. \A a \in Assignments(problem) : KeyOf(problem, a) \in Seq(Int)
  BY <1>4, AssignedKey
<1>7. \A a : ~Less(KeyOf(problem, a), k) => NoBetter(a)'
  BY <1>2, <1>5 DEF NoBetter
<1> HIDE DEF k
<1>8. LoopsInv'
  BY <1>1, <1>2 DEF LoopsInv, LeftInv
<1>9. BestInv'
  BY <1>2, <1>5 DEF BestInv
<1>10. ASSUME NEW a \in Assignments(problem), SubtotalsOf(Begun(problem, a, d)) = subtotals,
              ~Less(SkusBought(Begun(problem, a, d)), SkusBought(chosen))
       PROVE  NoBetter(a)'
  <2>1. ~Less(KeyOf(problem, a), KeyOf(problem, c))
    BY <1>2, <1>4, <1>10, AlikeIsNoWorse
  <2> DEFINE s == KeyOf(problem, a)
             t == KeyOf(problem, c)
  <2>2. s \in Seq(Int) /\ t \in Seq(Int) /\ ~Less(s, t) /\ ~Less(t, k)
    BY <1>4, <1>5, <1>6, <2>1
  <2> HIDE DEF s, t
  <2>3. ~Less(s, k)
    BY <1>5, <2>2, NoLessThrough
  <2> QED
    BY <1>7, <2>3 DEF s
<1>11. MemoInv'
  <2>1. IsDone(e)'
    BY <1>2, <1>3, <1>10 DEF IsDone, Reaches, IsOfThis
  <2>2. IsEntry(e)'
    BY <1>2, <1>3, <2>1 DEF IsEntry, IsOfThis
  <2>3. \A m \in X : IsEntry(m)'
    BY <1>1, <1>2, <1>3, <1>5, <1>7, EntryStays
  <2> QED
    BY <1>3, <2>2, <2>3 DEF MemoInv
<1>12. CoverInv'
  <2> SUFFICES ASSUME NEW a \in Assignments(problem) PROVE NoBetter(a)' \/ Pending(a)'
    BY <1>2 DEF CoverInv
  <2>1. NoBetter(a) \/ Follows(a, d) \/ Ahead(a)
    BY <1>2 DEF CoverInv, Pending
  <2>2. CASE Ahead(a)
    <3>1. Ahead(a)'
      BY <1>1, <1>2, <2>2 DEF Ahead, Follows
    <3> QED
      BY <3>1 DEF Pending
  <2>3. CASE Follows(a, d)
    <3>1. Begun(problem, a, d) = chosen
      <4>1. d \in 0..Len(chosen)
        BY <1>2
      <4>2. Begun(problem, a, d) = Begun(problem, StoresOf(chosen), d)
        BY <1>2, <2>3, <4>1, FollowersBuy
      <4> QED
        BY <1>2, <4>2 DEF PathInv
    <3>2. SubtotalsOf(Begun(problem, a, d)) = subtotals
      BY <1>2, <3>1 DEF PathInv
    <3>3. ~Less(SkusBought(chosen), SkusBought(chosen))
      <4>1. SkusBought(chosen) \in Seq(Int)
        BY <1>2, PathIs
      <4> QED
        BY <4>1, LessIsStrict
    <3> QED
      BY <1>10, <3>1, <3>2, <3>3
  <2>4. CASE NoBetter(a)
    BY <1>5, <1>7, <2>4
  <2> QED
    BY <2>1, <2>2, <2>3, <2>4
<1> QED
  BY <1>2, <1>8, <1>9, <1>11, <1>12 DEF SearchInv

\* A call begins its loop.
LEMMA BranchKeeps ==
  ASSUME SearchInv, Branch
  PROVE  SearchInv'
<1> DEFINE d == Len(chosen)
           c == problem.ordered[d + 1].candidates
           n == Len(frames')
<1>1. /\ Visit /\ Index < Len(problem.ordered) /\ phase' = "loop"
      /\ frames' = Append(frames, Options) /\ bestPlan' = bestPlan
  BY DEF Branch
<1>2. /\ PathInv /\ LoopsInv /\ BestInv /\ CoverInv
      /\ phase = "enter" /\ problem' = problem /\ chosen' = chosen /\ subtotals' = subtotals
      /\ Len(frames) = Len(chosen) /\ Len(chosen) \in 0..Len(problem.ordered)
      /\ PathInv'
  BY <1>1, VisitIs
<1>3. PICK e, X : IsOfThis(e) /\ memo' \in Seq(X \cup {e}) /\ \A m \in X : IsEntry(m)
  BY <1>1, VisitIs
<1>4. Options \in Seq(Int) /\ ListsOnce(Options, DOMAIN c)
  BY <1>1, <1>2, OptionsAre DEF Index
<1>5. Len(problem.ordered) \in Nat /\ d \in Nat /\ d < Len(problem.ordered)
  BY <1>1, <1>2, PathIs DEF Index
<1>6. /\ frames \in Seq(Seq(Int)) /\ frames' \in Seq(Seq(Int)) /\ n = d + 1
      /\ \A i \in 1..d : frames'[i] = frames[i]
      /\ frames'[d + 1] = Options /\ DOMAIN frames = 1..d /\ DOMAIN frames' = 1..(d + 1)
  <2>1. frames \in Seq(Seq(Int))
    BY <1>2 DEF LoopsInv
  <2> HIDE DEF d
  <2>2. Len(frames) = d
    BY <1>2 DEF d
  <2> QED
    BY <1>1, <1>4, <1>5, <2>1, <2>2
<1> HIDE DEF n, c
<1>7. LoopsInv'
  <2>1. ASSUME NEW i \in DOMAIN frames' PROVE LeftInv(i)'
    <3>1. CASE i \in 1..d
      <4>1. LeftInv(i)
        BY <1>2, <1>6, <3>1 DEF LoopsInv
      <4>2. frames'[i] = frames[i]
        BY <1>6, <3>1
      <4> QED
        BY <1>2, <4>1, <4>2 DEF LeftInv
    <3>2. CASE i = d + 1
      <4>1. frames'[i] = Options /\ ~(i <= Len(chosen'))
        BY <1>2, <1>5, <1>6, <3>2
      <4>2. /\ \A k \in DOMAIN Options : Options[k] \in DOMAIN c
            /\ \A k, l \in DOMAIN Options : Options[k] = Options[l] => k = l
        BY <1>4 DEF ListsOnce
      <4> QED
        BY <1>2, <3>2, <4>1, <4>2 DEF LeftInv, c
    <3> QED
      BY <1>5, <1>6, <2>1, <3>1, <3>2
  <2>2. Len(frames') <= Len(problem'.ordered) /\ Len(frames') = Len(chosen') + 1
    BY <1>2, <1>5, <1>6 DEF n
  <2> QED
    BY <1>1, <1>6, <2>1, <2>2 DEF LoopsInv
<1>8. BestInv'
  BY <1>1, <1>2 DEF BestInv
<1>9. \A a : NoBetter(a)' <=> NoBetter(a)
  BY <1>1, <1>2 DEF NoBetter
<1>10. MemoInv'
  <2>1. IsOnPath(e)'
    <3>1. e.key[1] < Len(frames')
      BY <1>2, <1>3, <1>5, <1>6 DEF n, IsOfThis
    <3>2. Begun(problem', StoresOf(chosen'), e.key[1]) = chosen
      BY <1>2, <1>3 DEF PathInv, IsOfThis
    <3>3. subtotals = SubtotalsOf(chosen)
      BY <1>2 DEF PathInv
    <3> QED
      BY <1>2, <1>3, <3>1, <3>2, <3>3 DEF IsOnPath, IsOfThis
  <2>2. IsEntry(e)'
    BY <1>2, <1>3, <2>1 DEF IsEntry, IsOfThis
  <2>3. \A m \in X : IsEntry(m)'
    <3> SUFFICES ASSUME NEW m \in X PROVE IsEntry(m)'
      OBVIOUS
    <3>1. IsEntry(m) /\ m.key[1] \in 0..Len(problem.ordered)
      BY <1>3 DEF IsEntry
    <3>2. m.key[1] < Len(frames) => m.key[1] < Len(frames')
      BY <1>2, <1>5, <1>6, <3>1 DEF n
    <3> QED
      BY <1>2, <1>9, <3>1, <3>2, EntryStays
  <2> QED
    BY <1>3, <2>2, <2>3 DEF MemoInv
<1>11. CoverInv'
  <2> SUFFICES ASSUME NEW a \in Assignments(problem) PROVE NoBetter(a)' \/ Pending(a)'
    BY <1>2 DEF CoverInv
  <2>1. NoBetter(a) \/ Follows(a, d) \/ Ahead(a)
    BY <1>2 DEF CoverInv, Pending
  <2>2. CASE Ahead(a)
    <3>1. PICK i \in DOMAIN frames : /\ Follows(a, i - 1)
                                     /\ \E k \in DOMAIN frames[i] : a[i] = frames[i][k]
      BY <2>2 DEF Ahead
    <3>2. i \in DOMAIN frames' /\ frames'[i] = frames[i]
      BY <1>5, <1>6
    <3>3. Follows(a, i - 1)'
      BY <1>2, <3>1 DEF Follows
    <3>4. Ahead(a)'
      BY <3>1, <3>2, <3>3 DEF Ahead
    <3> QED
      BY <3>4 DEF Pending
  <2>3. CASE Follows(a, d)
    <3>1. a[d + 1] \in DOMAIN c
      <4>1. IsProblem(problem)
        BY <1>2, PathIs
      <4>2. Serves(problem, a, Len(problem.ordered))
        BY <4>1, AssignedKey
      <4>3. d + 1 \in 1..Len(problem.ordered)
        BY <1>5
      <4> QED
        BY <4>2, <4>3 DEF Serves, c
    <3>2. PICK k \in DOMAIN Options : Options[k] = a[d + 1]
      BY <1>4, <3>1 DEF ListsOnce
    <3>3. d + 1 \in DOMAIN frames' /\ frames'[d + 1] = Options
      BY <1>5, <1>6
    <3>4. PICK i \in DOMAIN frames' : i = d + 1
      BY <3>3
    <3>5. i - 1 = d
      BY <1>5, <3>4
    <3>6. /\ Follows(a, i - 1)'
          /\ a[i] = frames'[i][k] /\ k \in DOMAIN frames'[i]
      <4>1. Follows(a, i - 1)'
        BY <1>2, <2>3, <3>5 DEF Follows
      <4>2. a[i] = frames'[i][k] /\ k \in DOMAIN frames'[i]
        BY <3>2, <3>3, <3>4
      <4> QED
        BY <4>1, <4>2
    <3>7. Ahead(a)'
      BY <3>4, <3>6 DEF Ahead
    <3> QED
      BY <3>7 DEF Pending
  <2> QED
    BY <1>9, <2>1, <2>2, <2>3
<1> QED
  BY <1>2, <1>7, <1>8, <1>10, <1>11 DEF SearchInv

\* The last of some sequences loses its first element.
Shortened(f) == [f EXCEPT ![Len(f)] = Tail(@)]

IsShortened(f, g, l) ==
  /\ l \in Nat \ {0} /\ g \in Seq(Seq(Int)) /\ Len(g) = l
  /\ DOMAIN f = 1..l /\ DOMAIN g = 1..l
  /\ Last(f) = f[l] /\ Head(Last(f)) = f[l][1] /\ 1 \in DOMAIN f[l]
  /\ \A i \in 1..l : i # l => g[i] = f[i]
  /\ \A k \in DOMAIN g[l] : /\ k + 1 \in DOMAIN f[l] /\ k # 0 /\ k \in Nat
                            /\ g[l][k] = f[l][k + 1]
  /\ \A k \in DOMAIN f[l] : k = 1 \/ \E j \in DOMAIN g[l] : g[l][j] = f[l][k]

\* What taking a store off the last loop leaves, and what it takes.
LEMMA LastShortened ==
  ASSUME NEW f \in Seq(Seq(Int)), f # <<>>, Last(f) # <<>>,
         NEW g, g = Shortened(f)
  PROVE  IsShortened(f, g, Len(f))
<1> DEFINE l == Len(f)
           s == f[l]
           t == Tail(s)
           h == [i \in 1..l |-> IF i = l THEN t ELSE f[i]]
<1>1. l \in Nat \ {0} /\ DOMAIN f = 1..l /\ Last(f) = s /\ s \in Seq(Int) /\ s # <<>>
  BY DEF Last
<1>2. g = h
  BY <1>1 DEF Shortened
<1> HIDE DEF l, s
<1>3. /\ Len(s) \in Nat \ {0} /\ DOMAIN s = 1..Len(s) /\ t \in Seq(Int)
      /\ DOMAIN t = 1..(Len(s) - 1) /\ \A k \in 1..(Len(s) - 1) : t[k] = s[k + 1]
  BY <1>1
<1> HIDE DEF t
<1>4. \A i \in 1..l : f[i] \in Seq(Int)
  BY <1>1 DEF l
<1>5. g \in Seq(Seq(Int)) /\ Len(g) = l /\ DOMAIN g = 1..l
  <2> DEFINE Y == Seq(Int)
  <2>1. \A i \in 1..l : h[i] \in Y
    BY <1>3, <1>4
  <2>2. h \in [1..l -> Y]
    BY <2>1
  <2> HIDE DEF Y, h
  <2>3. h \in Seq(Y) /\ Len(h) = l /\ DOMAIN h = 1..l
    BY <1>1, <2>2
  <2> QED
    BY <1>2, <2>3 DEF Y
<1>6. g[l] = t /\ \A i \in 1..l : i # l => g[i] = f[i]
  BY <1>1, <1>2
<1>7. Head(Last(f)) = s[1] /\ 1 \in DOMAIN s
  BY <1>1, <1>3
<1> HIDE DEF h
<1> DEFINE m == Len(s)
<1> HIDE DEF m
<1>8. /\ m \in Nat \ {0} /\ DOMAIN s = 1..m /\ DOMAIN t = 1..(m - 1)
       /\ \A k \in 1..(m - 1) : t[k] = s[k + 1]
  BY <1>3 DEF m
<1>9. \A k \in DOMAIN g[l] : k + 1 \in DOMAIN s /\ k # 0 /\ k \in Nat /\ g[l][k] = s[k + 1]
  <2> SUFFICES ASSUME NEW k \in DOMAIN t
               PROVE  k + 1 \in DOMAIN s /\ k # 0 /\ k \in Nat /\ t[k] = s[k + 1]
    BY <1>6
  <2>1. k \in Nat /\ 1 <= k /\ k <= m - 1
    BY <1>8
  <2>2. k + 1 \in 1..m
    BY <1>8, <2>1
  <2> QED
    BY <1>8, <2>1, <2>2
<1>10. \A k \in DOMAIN s : k = 1 \/ \E j \in DOMAIN g[l] : g[l][j] = s[k]
  <2> SUFFICES ASSUME NEW k \in DOMAIN s, k # 1 PROVE \E j \in DOMAIN g[l] : g[l][j] = s[k]
    OBVIOUS
  <2>1. k \in Nat /\ 1 <= k /\ k <= m
    BY <1>8
  <2>2. k - 1 \in 1..(m - 1) /\ (k - 1) + 1 = k
    BY <1>8, <2>1
  <2>3. k - 1 \in DOMAIN t /\ t[k - 1] = s[k]
    BY <1>8, <2>2
  <2> QED
    BY <1>6, <2>3
<1> QED
  BY <1>1, <1>5, <1>6, <1>7, <1>9, <1>10 DEF l, s, IsShortened

\* The state of a loop that has a store to try.
LEMMA LoopIs ==
  ASSUME LoopsInv, PathInv, phase = "loop"
  PROVE  /\ Len(frames) = Len(chosen) + 1 /\ frames \in Seq(Seq(Int)) /\ frames # <<>>
         /\ Len(chosen) \in Nat /\ Len(chosen) + 1 \in 1..Len(problem.ordered)
         /\ DOMAIN frames = 1..(Len(chosen) + 1) /\ Last(frames) = frames[Len(chosen) + 1]
         /\ \A i \in 1..(Len(chosen) + 1) : LeftInv(i)
<1>1. /\ Len(frames) = Len(chosen) + 1 /\ frames \in Seq(Seq(Int))
      /\ Len(frames) <= Len(problem.ordered) /\ \A i \in DOMAIN frames : LeftInv(i)
  BY DEF LoopsInv
<1>2. Len(chosen) \in Nat /\ Len(problem.ordered) \in Nat
  BY PathIs
<1>3. DOMAIN frames = 1..Len(frames)
  BY <1>1
<1>4. Last(frames) = frames[Len(chosen) + 1]
  BY <1>1 DEF Last
<1>5. frames # <<>>
  BY <1>1, <1>2
<1>6. Len(chosen) + 1 \in 1..Len(problem.ordered) /\ DOMAIN frames = 1..(Len(chosen) + 1)
  BY <1>1, <1>2, <1>3
<1>7. \A i \in 1..(Len(chosen) + 1) : LeftInv(i)
  BY <1>1, <1>6
<1> QED
  BY <1>1, <1>2, <1>4, <1>5, <1>6, <1>7

\* What comes after the first store of the last loop, and in the others, stays ahead.
LEMMA StillAhead ==
  ASSUME LoopsInv, PathInv, phase = "loop", Last(frames) # <<>>,
         frames' = Shortened(frames),
         \A i \in 1..Len(chosen) : chosen'[i].sel.store = chosen[i].sel.store,
         NEW a, Ahead(a)
  PROVE  \/ Ahead(a)'
         \/ Follows(a, Len(chosen)) /\ a[Len(chosen) + 1] = Head(Last(frames))
<1>1. PICK d \in Nat : d = Len(chosen)
  BY PathIs
<1>2. PICK l \in Nat : l = d + 1
  BY <1>1
<1>3. /\ frames \in Seq(Seq(Int)) /\ frames # <<>> /\ Len(frames) = l /\ DOMAIN frames = 1..l
  BY <1>1, <1>2, LoopIs
<1>4. /\ DOMAIN frames' = 1..l /\ Head(Last(frames)) = frames[l][1]
      /\ \A i \in 1..l : i # l => frames'[i] = frames[i]
      /\ \A k \in DOMAIN frames[l] : \/ k = 1
                                     \/ \E j \in DOMAIN frames'[l] : frames'[l][j] = frames[l][k]
  <2>1. IsShortened(frames, frames', Len(frames))
    BY <1>3, LastShortened
  <2>2. IsShortened(frames, frames', l)
    BY <1>3, <2>1
  <2> QED
    BY <2>2 DEF IsShortened
<1>5. PICK i \in 1..l : Follows(a, i - 1) /\ \E k \in DOMAIN frames[i] : a[i] = frames[i][k]
  BY <1>3 DEF Ahead
<1>6. Follows(a, i - 1)'
  <2>1. \A j \in 1..(i - 1) : j \in 1..Len(chosen) /\ a[j] = chosen[j].sel.store
    BY <1>1, <1>2, <1>5 DEF Follows
  <2>2. \A j \in 1..(i - 1) : a[j] = chosen'[j].sel.store
    BY <2>1
  <2> QED
    BY <2>2 DEF Follows
<1>7. CASE i # l
  <2>1. \E k \in DOMAIN frames'[i] : a[i] = frames'[i][k]
    BY <1>4, <1>5, <1>7
  <2>2. i \in DOMAIN frames'
    BY <1>4
  <2> QED
    BY <1>6, <2>1, <2>2 DEF Ahead
<1>8. CASE i = l
  <2>1. PICK k \in DOMAIN frames[l] : a[l] = frames[l][k]
    BY <1>5, <1>8
  <2>2. CASE k = 1
    <3>1. i - 1 = d
      BY <1>2, <1>8
    <3> QED
      BY <1>1, <1>2, <1>4, <1>5, <2>1, <2>2, <3>1
  <2>3. CASE k # 1
    <3>1. \E j \in DOMAIN frames'[i] : a[i] = frames'[i][j]
      BY <1>4, <1>8, <2>1, <2>3
    <3>2. i \in DOMAIN frames'
      BY <1>4
    <3> QED
      BY <1>6, <3>1, <3>2 DEF Ahead
  <2> QED
    BY <2>2, <2>3
<1> QED
  BY <1>7, <1>8

\* What is left stays in order when a store is taken off.
LEMMA StillLeft ==
  ASSUME LoopsInv, PathInv, phase = "loop", Last(frames) # <<>>, problem' = problem,
         frames' = Shortened(frames),
         Len(chosen') \in {Len(chosen), Len(chosen) + 1},
         \A i \in 1..Len(chosen) : chosen'[i].sel.store = chosen[i].sel.store,
         Len(chosen') = Len(chosen) + 1
           => chosen'[Len(chosen) + 1].sel.store = Head(Last(frames))
  PROVE  /\ frames' \in Seq(Seq(Int)) /\ Len(frames') = Len(chosen) + 1
         /\ \A i \in DOMAIN frames' : LeftInv(i)'
<1>1. PICK d \in Nat : d = Len(chosen)
  BY PathIs
<1>2. PICK l \in Nat : l = d + 1
  BY <1>1
<1>3. /\ frames \in Seq(Seq(Int)) /\ frames # <<>> /\ Len(frames) = l /\ DOMAIN frames = 1..l
      /\ \A i \in 1..l : LeftInv(i)
  BY <1>1, <1>2, LoopIs
<1>4. /\ frames' \in Seq(Seq(Int)) /\ Len(frames') = l
      /\ DOMAIN frames' = 1..l /\ Head(Last(frames)) = frames[l][1] /\ 1 \in DOMAIN frames[l]
      /\ \A i \in 1..l : i # l => frames'[i] = frames[i]
      /\ \A k \in DOMAIN frames'[l] : /\ k + 1 \in DOMAIN frames[l] /\ k # 0 /\ k \in Nat
                                      /\ frames'[l][k] = frames[l][k + 1]
  <2>1. IsShortened(frames, frames', Len(frames))
    BY <1>3, LastShortened
  <2>2. IsShortened(frames, frames', l)
    BY <1>3, <2>1
  <2> QED
    BY <2>2 DEF IsShortened
<1>5. ASSUME NEW i \in 1..l, i # l PROVE LeftInv(i)'
  <2>1. LeftInv(i) /\ frames'[i] = frames[i] /\ i \in 1..d
    BY <1>2, <1>3, <1>4, <1>5
  <2>2. i <= Len(chosen) /\ chosen'[i].sel.store = chosen[i].sel.store
    BY <1>1, <2>1
  <2>3. /\ \A k \in DOMAIN frames'[i] : frames'[i][k] \in DOMAIN problem'.ordered[i].candidates
        /\ \A k, j \in DOMAIN frames'[i] : frames'[i][k] = frames'[i][j] => k = j
        /\ \A k \in DOMAIN frames'[i] : frames'[i][k] # chosen'[i].sel.store
    <3>1. /\ \A k \in DOMAIN frames[i] : frames[i][k] \in DOMAIN problem.ordered[i].candidates
          /\ \A k, j \in DOMAIN frames[i] : frames[i][k] = frames[i][j] => k = j
          /\ \A k \in DOMAIN frames[i] : frames[i][k] # chosen[i].sel.store
      BY <2>1, <2>2 DEF LeftInv
    <3>2. \A k \in DOMAIN frames'[i] : frames'[i][k] \in DOMAIN problem'.ordered[i].candidates
      BY <2>1, <3>1
    <3>3. \A k, j \in DOMAIN frames'[i] : frames'[i][k] = frames'[i][j] => k = j
      BY <2>1, <3>1
    <3>4. \A k \in DOMAIN frames'[i] : frames'[i][k] # chosen'[i].sel.store
      BY <2>1, <2>2, <3>1
    <3> QED
      BY <3>2, <3>3, <3>4
  <2> QED
    BY <2>3 DEF LeftInv
<1>6. LeftInv(l)'
  <2>1. LeftInv(l) /\ l \in 1..l
    BY <1>2, <1>3
  <2>2. \A k \in DOMAIN frames'[l] : frames'[l][k] \in DOMAIN problem.ordered[l].candidates
    BY <1>4, <2>1 DEF LeftInv
  <2>3. \A j, k \in DOMAIN frames'[l] : frames'[l][j] = frames'[l][k] => j = k
    <3> SUFFICES ASSUME NEW j \in DOMAIN frames'[l], NEW k \in DOMAIN frames'[l],
                        frames'[l][j] = frames'[l][k]
                 PROVE  j = k
      OBVIOUS
    <3>1. /\ j + 1 \in DOMAIN frames[l] /\ k + 1 \in DOMAIN frames[l] /\ j \in Nat /\ k \in Nat
          /\ frames[l][j + 1] = frames[l][k + 1]
      BY <1>4
    <3>2. j + 1 = k + 1
      BY <2>1, <3>1 DEF LeftInv
    <3> QED
      BY <3>1, <3>2
  <2>4. ASSUME l <= Len(chosen'), NEW k \in DOMAIN frames'[l]
        PROVE  frames'[l][k] # chosen'[l].sel.store
    <3>1. Len(chosen') = Len(chosen) + 1
      BY <1>1, <1>2, <2>4
    <3>2. chosen'[l].sel.store = frames[l][1]
      BY <1>1, <1>2, <1>4, <3>1
    <3>3. /\ k + 1 \in DOMAIN frames[l] /\ k # 0 /\ k \in Nat
          /\ frames'[l][k] = frames[l][k + 1]
      BY <1>4
    <3>4. k + 1 # 1
      BY <3>3
    <3>5. frames[l][k + 1] # frames[l][1]
      BY <1>4, <2>1, <3>3, <3>4 DEF LeftInv
    <3> QED
      BY <3>2, <3>3, <3>5
  <2> QED
    BY <2>2, <2>3, <2>4 DEF LeftInv
<1> QED
  BY <1>1, <1>2, <1>4, <1>5, <1>6

\* What follows the choice uses its stores.
LEMMA FollowersUse ==
  ASSUME PathInv, NEW a \in Assignments(problem), Follows(a, Len(chosen))
  PROVE  UsedStores \in SUBSET Range(a)
<1>1. /\ IsProblem(problem) /\ DOMAIN chosen = 1..Len(chosen)
      /\ Len(chosen) \in 0..Len(problem.ordered) /\ Len(problem.ordered) \in Nat
  BY PathIs
<1>2. DOMAIN a = 1..Len(problem.ordered)
  BY <1>1, AssignedIs
<1> SUFFICES ASSUME NEW i \in 1..Len(chosen) PROVE chosen[i].sel.store \in Range(a)
  BY <1>1 DEF UsedStores
<1>3. i \in DOMAIN a /\ a[i] = chosen[i].sel.store
  BY <1>1, <1>2 DEF Follows
<1> QED
  BY <1>3 DEF Range

\* One store is passed over.
LEMMA SkipKeeps ==
  ASSUME SearchInv, Skip
  PROVE  SearchInv'
<1>1. PathInv /\ LoopsInv /\ BestInv /\ CoverInv /\ MemoInv
  BY DEF SearchInv
<1>2. /\ phase = "loop" /\ Last(frames) # <<>> /\ problem.limit # None
      /\ Cardinality(UsedStores \cup {Head(Last(frames))}) > problem.limit
      /\ frames' = Shortened(frames)
      /\ problem' = problem /\ phase' = phase /\ chosen' = chosen /\ subtotals' = subtotals
      /\ memo' = memo /\ bestPlan' = bestPlan
  BY DEF Skip, Shortened
<1>3. PathInv'
  BY <1>1, <1>2 DEF PathInv, UsedStores
<1>4. /\ Len(frames) = Len(chosen) + 1 /\ Len(chosen) \in Nat
      /\ Len(chosen) + 1 \in 1..Len(problem.ordered)
  BY <1>1, <1>2, LoopIs
<1>5. /\ frames' \in Seq(Seq(Int)) /\ Len(frames') = Len(chosen) + 1
      /\ \A i \in DOMAIN frames' : LeftInv(i)'
  <2>1. /\ Len(chosen') \in {Len(chosen), Len(chosen) + 1}
        /\ \A i \in 1..Len(chosen) : chosen'[i].sel.store = chosen[i].sel.store
        /\ Len(chosen') # Len(chosen) + 1
    BY <1>2, <1>4
  <2> QED
    BY <1>1, <1>2, <2>1, StillLeft
<1>6. LoopsInv'
  <2>1. Len(frames') <= Len(problem'.ordered) /\ Len(frames') = Len(chosen') + 1
    BY <1>2, <1>4, <1>5
  <2> QED
    BY <1>2, <1>5, <2>1 DEF LoopsInv
<1>7. BestInv'
  BY <1>1, <1>2 DEF BestInv
<1>8. \A a : NoBetter(a)' <=> NoBetter(a)
  BY <1>2 DEF NoBetter
<1>9. MemoInv'
  <2>1. PICK X : memo \in Seq(X) /\ \A m \in X : IsEntry(m)
    BY <1>1 DEF MemoInv
  <2>2. Len(frames') = Len(frames) /\ StoresOf(chosen') = StoresOf(chosen)
    BY <1>2, <1>4, <1>5
  <2>3. \A m \in X : IsEntry(m)'
    BY <1>2, <1>8, <2>1, <2>2, EntryStays
  <2> QED
    BY <1>2, <2>1, <2>3 DEF MemoInv
<1>10. CoverInv'
  <2> SUFFICES ASSUME NEW a \in Assignments(problem) PROVE NoBetter(a)' \/ Pending(a)'
    BY <1>2 DEF CoverInv
  <2>1. NoBetter(a) \/ Ahead(a)
    BY <1>1, <1>2 DEF CoverInv, Pending
  <2>2. CASE Ahead(a)
    <3>1. \A i \in 1..Len(chosen) : chosen'[i].sel.store = chosen[i].sel.store
      BY <1>2
    <3>2. \/ Ahead(a)'
          \/ Follows(a, Len(chosen)) /\ a[Len(chosen) + 1] = Head(Last(frames))
      BY <1>1, <1>2, <2>2, <3>1, StillAhead
    <3>3. CASE Follows(a, Len(chosen)) /\ a[Len(chosen) + 1] = Head(Last(frames))
      <4> DEFINE V == UsedStores \cup {Head(Last(frames))}
                 W == Range(a)
                 l == problem.limit
      <4>1. IsProblem(problem) /\ DOMAIN a = 1..Len(problem.ordered)
        BY <1>1, PathIs, AssignedIs
      <4>2. V \in SUBSET W
        <5>1. Head(Last(frames)) \in W
          BY <1>4, <3>3, <4>1 DEF Range
        <5>2. UsedStores \in SUBSET W
          BY <1>1, <3>3, FollowersUse
        <5> QED
          BY <5>1, <5>2
      <4>3. l \in Nat /\ Cardinality(W) <= l
        <5>1. l \in Nat
          BY <1>2, <4>1 DEF IsProblem
        <5> QED
          BY <1>2, <5>1 DEF Assignments
      <4>4. IsFiniteSet(W)
        <5>1. DOMAIN problem.ordered = 1..Len(problem.ordered) /\ IsStores(problem.stores)
          BY <4>1, ProblemIs
        <5>2. W \in SUBSET DOMAIN problem.stores
          BY <4>1 DEF Assignments, Range
        <5>3. IsFiniteSet(DOMAIN problem.stores)
          BY <5>1 DEF IsStores
        <5> HIDE DEF W
        <5> QED
          BY <5>2, <5>3, FS_Subset
      <4>5. Cardinality(V) > l
        BY <1>2
      <4> HIDE DEF V, W, l
      <4>6. IsFiniteSet(V) /\ Cardinality(V) <= Cardinality(W)
        BY <4>2, <4>4, FS_Subset
      <4>7. Cardinality(V) \in Nat /\ Cardinality(W) \in Nat
        BY <4>4, <4>6, FS_CardinalityType
      <4> QED
        BY <4>3, <4>5, <4>6, <4>7
    <3> QED
      BY <3>2, <3>3 DEF Pending
  <2> QED
    BY <1>8, <2>1, <2>2
<1> QED
  BY <1>3, <1>6, <1>7, <1>9, <1>10 DEF SearchInv

\* One more store after those chosen.
IsOneMore(b, s) ==
  /\ Len(b) = Len(chosen) + 1
  /\ Serves(problem, StoresOf(b), Len(b)) /\ b = Begun(problem, StoresOf(b), Len(b))
  /\ SubtotalsOf(b) = Add(subtotals, s, problem.ordered[Len(chosen) + 1].candidates[s].cost)
  /\ UsedBy(b) = UsedStores \cup {s}
  /\ b[Len(chosen) + 1].sel.store = s
  /\ \A i \in 1..Len(chosen) : b[i] = chosen[i]

\* A store appended to the choices is one more choice, with its subtotals.
LEMMA ChosenNext ==
  ASSUME PathInv, Len(chosen) < Len(problem.ordered),
         NEW s \in DOMAIN problem.ordered[Len(chosen) + 1].candidates,
         NEW b, b = Append(chosen, [need |-> problem.ordered[Len(chosen) + 1].need,
                                    sel |-> problem.ordered[Len(chosen) + 1].candidates[s]])
  PROVE  IsOneMore(b, s)
<1> DEFINE p == problem
           d == Len(chosen)
           n == d + 1
           x(c, i) == [need |-> p.ordered[i].need, sel |-> p.ordered[i].candidates[c[i]]]
           new == [need |-> p.ordered[n].need, sel |-> p.ordered[n].candidates[s]]
           old == StoresOf(chosen)
           c == [i \in 1..n |-> IF i = n THEN s ELSE old[i]]
           e == Begun(p, c, n)
<1>1. /\ IsProblem(p) /\ Len(p.ordered) \in Nat /\ d \in Nat /\ n \in 1..Len(p.ordered)
      /\ n = d + 1 /\ DOMAIN chosen = 1..d /\ chosen = [i \in 1..d |-> chosen[i]]
      /\ UsedStores = UsedBy(chosen)
  BY PathIs
<1>2. Serves(p, old, d) /\ chosen = Begun(p, old, d) /\ subtotals = SubtotalsOf(chosen)
  BY DEF PathInv
<1>3. c[n] = s /\ \A i \in 1..d : c[i] = old[i]
  BY <1>1
<1>4. s \in DOMAIN p.ordered[n].candidates
  OBVIOUS
<1> HIDE DEF c, old, d, n, p
<1>5. Serves(p, c, n) /\ Serves(p, c, d)
  <2>1. \A i \in 1..d : c[i] \in DOMAIN p.ordered[i].candidates
    <3>1. \A i \in 1..d : old[i] \in DOMAIN p.ordered[i].candidates
      BY <1>2 DEF Serves
    <3> SUFFICES ASSUME NEW i \in 1..d PROVE c[i] \in DOMAIN p.ordered[i].candidates
      OBVIOUS
    <3>2. c[i] = old[i]
      BY <1>3
    <3> QED
      BY <3>1, <3>2
  <2>2. \A i \in 1..n : c[i] \in DOMAIN p.ordered[i].candidates
    <3> SUFFICES ASSUME NEW i \in 1..n PROVE c[i] \in DOMAIN p.ordered[i].candidates
      OBVIOUS
    <3>1. i \in 1..d \/ i = n
      BY <1>1
    <3>2. CASE i = n
      BY <1>3, <1>4, <3>2
    <3> QED
      BY <2>1, <3>1, <3>2
  <2> QED
    BY <1>1, <2>1, <2>2 DEF Serves
<1>6. Begun(p, c, d) = chosen
  <2>1. Begun(p, c, d) = Begun(p, old, d)
    BY <1>3, BegunAlike
  <2> QED
    BY <1>2, <2>1
<1>7. IsNext(e, chosen, d) /\ Buys(p, chosen, d) /\ Buys(p, e, d + 1)
  BY <1>1, <1>5, <1>6, BegunNext
<1>8. /\ DOMAIN e = 1..n /\ e = [i \in 1..n |-> e[i]]
      /\ e[n].sel = p.ordered[n].candidates[s] /\ e[n].sel.store = s
      /\ \A i \in 1..n : e[i].sel.store = c[i]
  <2>1. n \in 1..n
    BY <1>1
  <2> HIDE DEF e
  <2>2. e = Begun(p, c, n)
    BY DEF e
  <2>3. /\ DOMAIN e = 1..n /\ e = [i \in 1..n |-> e[i]]
        /\ \A i \in 1..n : /\ e[i].sel = p.ordered[i].candidates[c[i]]
                           /\ e[i].sel.store = c[i]
    <3>1. IsProblem(p) /\ Serves(p, c, n)
      BY <1>1, <1>5
    <3>2. /\ DOMAIN Begun(p, c, n) = 1..n
          /\ Begun(p, c, n) = [i \in 1..n |-> Begun(p, c, n)[i]]
          /\ \A i \in 1..n : /\ Begun(p, c, n)[i].sel = p.ordered[i].candidates[c[i]]
                             /\ Begun(p, c, n)[i].sel.store = c[i]
      BY <3>1, BegunSelections
    <3> QED
      BY <2>2, <3>2
  <2> QED
    BY <1>3, <2>1, <2>3
<1>9. e[n] = new
  <2>1. n \in 1..n
    BY <1>1
  <2>2. \A i \in 1..n : e[i] = x(c, i)
    BY <1>1, <1>5, BegunIs
  <2> HIDE DEF e
  <2>3. e[n] = x(c, n)
    BY <2>1, <2>2
  <2> QED
    BY <1>3, <2>3
<1>10. \A i \in 1..d : e[i] = chosen[i]
  BY <1>7 DEF IsNext
<1>11. b = [i \in 1..n |-> IF i = n THEN new ELSE chosen[i]] /\ Len(b) = n
  <2> HIDE DEF new
  <2>1. b = Append(chosen, new)
    BY DEF new, n, d, p
  <2> DEFINE X == {chosen[i] : i \in 1..d} \cup {new}
  <2>2. \A i \in 1..d : chosen[i] \in X
    OBVIOUS
  <2>3. new \in X
    OBVIOUS
  <2> HIDE DEF X
  <2>4. chosen \in Seq(X)
    BY <1>1, <2>2
  <2> QED
    BY <1>1, <2>1, <2>3, <2>4
<1> HIDE DEF e, new
<1>12. b = e
  <2>1. \A i \in 1..n : e[i] = IF i = n THEN new ELSE chosen[i]
    BY <1>1, <1>9, <1>10
  <2> QED
    BY <1>8, <1>11, <2>1
<1>13. \A i \in 1..n : StoresOf(b)[i] = c[i]
  BY <1>8, <1>12 DEF StoresOf
<1>14. Serves(p, StoresOf(b), n)
  BY <1>5, <1>13 DEF Serves
<1>15. b = Begun(p, StoresOf(b), n)
  <2>1. Begun(p, StoresOf(b), n) = Begun(p, c, n)
    BY <1>13, BegunAlike
  <2> QED
    BY <1>12, <2>1 DEF e
<1>16. SubtotalsOf(b) = Add(subtotals, s, p.ordered[n].candidates[s].cost)
  <2>1. SubtotalsOf(e) = Add(SubtotalsOf(chosen), e[d + 1].sel.store, e[d + 1].sel.cost)
    BY <1>7, SubtotalsMore
  <2>2. SubtotalsOf(e) = Add(SubtotalsOf(chosen), e[n].sel.store, e[n].sel.cost)
    BY <1>1, <2>1
  <2>3. e[n].sel.store = s /\ e[n].sel.cost = p.ordered[n].candidates[s].cost
    BY <1>8
  <2> QED
    BY <1>2, <1>12, <2>2, <2>3
<1>17. UsedBy(b) = UsedStores \cup {s}
  <2>1. UsedBy(e) = UsedBy(chosen) \cup {e[d + 1].sel.store}
    BY <1>7, CostMore
  <2>2. UsedBy(e) = UsedBy(chosen) \cup {e[n].sel.store}
    BY <1>1, <2>1
  <2> QED
    BY <1>1, <1>8, <1>12, <2>2
<1>18. \A i \in 1..d : b[i] = chosen[i]
  BY <1>10, <1>12
<1>19. b[n].sel.store = s
  BY <1>8, <1>12
<1> QED
  BY <1>11, <1>14, <1>15, <1>16, <1>17, <1>18, <1>19 DEF IsOneMore, d, n, p

\* A store is chosen.
LEMMA DescendKeeps ==
  ASSUME SearchInv, Descend
  PROVE  SearchInv'
<1> DEFINE s == Head(Last(frames))
           d == Len(chosen)
           o == problem.ordered[d + 1]
<1>1. PathInv /\ LoopsInv /\ BestInv /\ CoverInv /\ MemoInv
  BY DEF SearchInv
<1>2. /\ phase = "loop" /\ Last(frames) # <<>>
      /\ problem.limit # None => Cardinality(UsedStores \cup {s}) <= problem.limit
      /\ chosen' = Append(chosen, [need |-> o.need, sel |-> o.candidates[s]])
      /\ subtotals' = Add(subtotals, s, o.candidates[s].cost)
      /\ frames' = Shortened(frames)
      /\ problem' = problem /\ phase' = "enter" /\ memo' = memo /\ bestPlan' = bestPlan
  BY DEF Descend, Index, Shortened
<1>3. /\ Len(frames) = d + 1 /\ d \in Nat /\ d + 1 \in 1..Len(problem.ordered)
      /\ Last(frames) = frames[d + 1] /\ LeftInv(d + 1) /\ frames \in Seq(Seq(Int))
      /\ frames # <<>>
  <2>1. d \in Nat => d + 1 \in 1..(d + 1)
    OBVIOUS
  <2> QED
    BY <1>1, <1>2, <2>1, LoopIs
<1>4. s \in DOMAIN o.candidates /\ d < Len(problem.ordered)
  <2>1. IsShortened(frames, frames', Len(frames))
    BY <1>2, <1>3, LastShortened
  <2>2. s = frames[d + 1][1] /\ 1 \in DOMAIN frames[d + 1]
    BY <1>3, <2>1 DEF IsShortened
  <2>3. Len(problem.ordered) \in Nat
    BY <1>1, PathIs
  <2> QED
    BY <1>3, <2>2, <2>3 DEF LeftInv
<1>5. /\ Len(chosen') = d + 1
      /\ Serves(problem, StoresOf(chosen'), Len(chosen'))
      /\ chosen' = Begun(problem, StoresOf(chosen'), Len(chosen'))
      /\ SubtotalsOf(chosen') = subtotals'
      /\ UsedBy(chosen') = UsedStores \cup {s}
      /\ chosen'[d + 1].sel.store = s
      /\ \A i \in 1..d : chosen'[i] = chosen[i]
  <2>1. IsOneMore(chosen', s)
    BY <1>1, <1>2, <1>4, ChosenNext
  <2> QED
    BY <1>2, <2>1 DEF IsOneMore
<1> HIDE DEF s, o
<1>6. PathInv'
  <2>1. UsedStores' = UsedBy(chosen')
    BY DEF UsedStores, UsedBy
  <2>2. problem' \in Problems
    BY <1>1, <1>2 DEF PathInv
  <2> QED
    BY <1>2, <1>5, <2>1, <2>2 DEF PathInv
<1>7. \A i \in 1..Len(chosen) : chosen'[i].sel.store = chosen[i].sel.store
  BY <1>5
<1>8. /\ frames' \in Seq(Seq(Int)) /\ Len(frames') = Len(chosen) + 1
      /\ \A i \in DOMAIN frames' : LeftInv(i)'
  BY <1>1, <1>2, <1>5, <1>7, StillLeft DEF s
<1>9. LoopsInv'
  <2>1. Len(frames') <= Len(problem'.ordered) /\ Len(frames') = Len(chosen')
    BY <1>2, <1>3, <1>5, <1>8
  <2> QED
    BY <1>2, <1>8, <2>1 DEF LoopsInv
<1>10. BestInv'
  BY <1>1, <1>2 DEF BestInv
<1>11. \A a : NoBetter(a)' <=> NoBetter(a)
  BY <1>2 DEF NoBetter
<1>12. MemoInv'
  <2>1. PICK X : memo \in Seq(X) /\ \A m \in X : IsEntry(m)
    BY <1>1 DEF MemoInv
  <2>2. \A m \in X : IsEntry(m)'
    <3> SUFFICES ASSUME NEW m \in X PROVE IsEntry(m)'
      OBVIOUS
    <3>1. IsEntry(m) /\ m.key[1] \in Nat
      BY <1>1, <2>1, PathIs DEF IsEntry
    <3>2. ASSUME m.key[1] < Len(frames)
          PROVE  /\ m.key[1] < Len(frames')
                 /\ \A i \in 1..m.key[1] : StoresOf(chosen)[i] = StoresOf(chosen')[i]
      <4>1. m.key[1] < Len(frames') /\ m.key[1] <= d
        BY <1>3, <1>8, <3>1, <3>2
      <4>2. \A i \in 1..m.key[1] : i \in 1..d /\ i \in 1..(d + 1)
        BY <1>3, <3>1, <4>1
      <4>3. DOMAIN chosen = 1..d /\ DOMAIN chosen' = 1..(d + 1)
        <5>1. DOMAIN chosen = 1..d
          BY <1>1, PathIs
        <5>2. IsProblem(problem)
          BY <1>1, PathIs
        <5>3. DOMAIN chosen' = 1..Len(chosen')
          BY <1>5, <5>2, BegunSelections
        <5> QED
          BY <1>5, <5>1, <5>3
      <4>4. \A i \in 1..m.key[1] : StoresOf(chosen)[i] = StoresOf(chosen')[i]
        BY <1>5, <4>2, <4>3 DEF StoresOf
      <4> QED
        BY <4>1, <4>4
    <3> QED
      BY <1>2, <1>11, <3>1, <3>2, EntryStays
  <2> QED
    BY <1>2, <2>1, <2>2 DEF MemoInv
<1>13. CoverInv'
  <2> SUFFICES ASSUME NEW a \in Assignments(problem) PROVE NoBetter(a)' \/ Pending(a)'
    BY <1>2 DEF CoverInv
  <2>1. NoBetter(a) \/ Ahead(a)
    BY <1>1, <1>2 DEF CoverInv, Pending
  <2>2. CASE Ahead(a)
    <3>1. \/ Ahead(a)'
          \/ Follows(a, d) /\ a[d + 1] = s
      <4>1. \/ Ahead(a)'
            \/ Follows(a, Len(chosen)) /\ a[Len(chosen) + 1] = Head(Last(frames))
        BY <1>1, <1>2, <1>7, <2>2, StillAhead
      <4> QED
        BY <4>1 DEF s
    <3>2. CASE Follows(a, d) /\ a[d + 1] = s
      <4>1. \A i \in 1..(d + 1) : a[i] = chosen'[i].sel.store
        <5> SUFFICES ASSUME NEW i \in 1..(d + 1) PROVE a[i] = chosen'[i].sel.store
          OBVIOUS
        <5>1. i \in 1..d \/ i = d + 1
          BY <1>3
        <5>2. i \in 1..d => a[i] = chosen[i].sel.store
          BY <3>2 DEF Follows
        <5> QED
          BY <1>5, <3>2, <5>1, <5>2
      <4>2. Follows(a, Len(chosen))'
        BY <1>5, <4>1 DEF Follows
      <4> QED
        BY <1>2, <4>2 DEF Pending
    <3> QED
      BY <3>1, <3>2 DEF Pending
  <2> QED
    BY <1>11, <2>1, <2>2
<1> QED
  BY <1>6, <1>9, <1>10, <1>12, <1>13 DEF SearchInv

\* A sequence without its last element.
LEMMA FrontIs ==
  ASSUME NEW X, NEW s \in Seq(X), s # <<>>
  PROVE  /\ Front(s) \in Seq(X) /\ Len(Front(s)) = Len(s) - 1
         /\ DOMAIN Front(s) = 1..(Len(s) - 1)
         /\ \A i \in 1..(Len(s) - 1) : Front(s)[i] = s[i]
<1> DEFINE t == SubSeq(s, 1, Len(s) - 1)
<1>1. Len(s) \in Nat \ {0} /\ Front(s) = t
  BY DEF Front
<1>2. t = [i \in 1..(Len(s) - 1) |-> s[i]]
  BY <1>1
<1> HIDE DEF t
<1>3. t \in Seq(X) /\ Len(t) = Len(s) - 1
  BY <1>1, <1>2
<1> QED
  BY <1>1, <1>2, <1>3

\* A loop that tried every store has come to whatever has its subtotals.
LEMMA LoopDone ==
  ASSUME PathInv, LoopsInv, BestInv, CoverInv, phase = "loop", Last(frames) = <<>>,
         NEW a \in Assignments(problem),
         SubtotalsOf(Begun(problem, a, Len(chosen))) = SubtotalsOf(chosen),
         ~Less(SkusBought(Begun(problem, a, Len(chosen))), SkusBought(chosen))
  PROVE  NoBetter(a)
<1> DEFINE d == Len(chosen)
           n == Len(problem.ordered)
           c == StoresOf(chosen)
           m == Mixed(c, a, d)
<1>1. /\ IsProblem(problem) /\ n \in Nat /\ d \in 0..n /\ Serves(problem, c, d)
      /\ chosen = Begun(problem, c, d)
      /\ \A i \in 1..d : chosen[i].sel.store = c[i]
  BY PathIs DEF PathInv
<1>2. /\ DOMAIN frames = 1..(d + 1) /\ frames[d + 1] = <<>> /\ \A i \in 1..(d + 1) : LeftInv(i)
  BY LoopIs
<1>3. /\ SubtotalsOf(Begun(problem, a, d)) = SubtotalsOf(chosen)
      /\ ~Less(SkusBought(Begun(problem, a, d)), SkusBought(chosen))
  OBVIOUS
<1> HIDE DEF c, m
<1>4. SubtotalsOf(Begun(problem, a, d)) = SubtotalsOf(Begun(problem, c, d))
  BY <1>1, <1>3
<1>5. /\ m \in Assignments(problem) /\ (\A i \in 1..d : m[i] = c[i])
      /\ \A i \in (d + 1)..n : m[i] = a[i]
  BY <1>1, <1>4, MixedIs DEF m
<1>6. ~Ahead(m)
  <2> SUFFICES ASSUME NEW i \in 1..(d + 1), NEW k \in DOMAIN frames[i], m[i] = frames[i][k]
               PROVE  FALSE
    BY <1>2 DEF Ahead
  <2>1. i # d + 1
    BY <1>2
  <2>2. i \in 1..d
    BY <1>1, <2>1
  <2>3. frames[i][k] # chosen[i].sel.store
    BY <1>2, <2>2 DEF LeftInv
  <2> QED
    BY <1>1, <1>5, <2>2, <2>3
<1>7. NoBetter(m)
  BY <1>5, <1>6 DEF CoverInv, Pending
<1>8. ~Less(KeyOf(problem, a), KeyOf(problem, m))
  <2>1. Begun(problem, m, d) = Begun(problem, c, d)
    BY <1>5, BegunAlike
  <2>2. Begun(problem, m, d) = chosen
    BY <1>1, <2>1
  <2>3. /\ SubtotalsOf(Begun(problem, a, d)) = SubtotalsOf(Begun(problem, m, d))
        /\ ~Less(SkusBought(Begun(problem, a, d)), SkusBought(Begun(problem, m, d)))
    BY <1>3, <2>2
  <2>4. \A i \in (d + 1)..n : a[i] = m[i]
    BY <1>5
  <2> QED
    BY <1>1, <1>5, <2>3, <2>4, MixedIsNoWorse
<1>9. KeyOf(problem, a) \in Seq(Int) /\ KeyOf(problem, m) \in Seq(Int)
  BY <1>1, <1>5, AssignedKey
<1>10. bestPlan # None /\ ~Less(KeyOf(problem, m), PlanSortKey(bestPlan))
  BY <1>7 DEF NoBetter
<1>11. PlanSortKey(bestPlan) \in Seq(Int)
  <2>1. PICK x \in Assignments(problem) : bestPlan = PlanOf(problem, x)
    BY <1>10 DEF BestInv
  <2>2. KeyOf(problem, x) \in Seq(Int)
    BY <1>1, AssignedKey
  <2> QED
    BY <2>1, <2>2 DEF KeyOf
<1>12. ~Less(KeyOf(problem, a), PlanSortKey(bestPlan))
  BY <1>8, <1>9, <1>10, <1>11, NoLessThrough
<1> QED
  BY <1>10, <1>12 DEF NoBetter

\* A call that tried every store returns.
LEMMA EndLoopKeeps ==
  ASSUME SearchInv, EndLoop
  PROVE  SearchInv'
<1>1. PathInv /\ LoopsInv /\ BestInv /\ CoverInv /\ MemoInv
  BY DEF SearchInv
<1>2. /\ phase = "loop" /\ Last(frames) = <<>> /\ frames' = Front(frames)
      /\ phase' = "return" /\ problem' = problem /\ chosen' = chosen
      /\ subtotals' = subtotals /\ memo' = memo /\ bestPlan' = bestPlan
  BY DEF EndLoop
<1>3. PICK d \in Nat : d = Len(chosen)
  BY <1>1, PathIs
<1>4. /\ Len(frames) = d + 1 /\ frames \in Seq(Seq(Int)) /\ frames # <<>>
      /\ DOMAIN frames = 1..(d + 1) /\ frames[d + 1] = <<>> /\ d + 1 <= Len(problem.ordered)
      /\ \A i \in 1..(d + 1) : LeftInv(i)
  <2>1. /\ Len(frames) = Len(chosen) + 1 /\ frames \in Seq(Seq(Int)) /\ frames # <<>>
        /\ Len(chosen) + 1 \in 1..Len(problem.ordered)
        /\ DOMAIN frames = 1..(Len(chosen) + 1) /\ Last(frames) = frames[Len(chosen) + 1]
        /\ \A i \in 1..(Len(chosen) + 1) : LeftInv(i)
    BY <1>1, <1>2, LoopIs
  <2> QED
    BY <1>2, <1>3, <2>1
<1>5. /\ frames' \in Seq(Seq(Int)) /\ Len(frames') = d /\ DOMAIN frames' = 1..d
      /\ \A i \in 1..d : frames'[i] = frames[i] /\ i \in 1..(d + 1)
  <2> DEFINE f == frames'
  <2>1. f = Front(frames)
    BY <1>2
  <2> HIDE DEF f
  <2>2. Len(frames) - 1 = d
    BY <1>3, <1>4
  <2>3. /\ f \in Seq(Seq(Int)) /\ Len(f) = Len(frames) - 1
        /\ DOMAIN f = 1..(Len(frames) - 1)
        /\ \A i \in 1..(Len(frames) - 1) : f[i] = frames[i]
    BY <1>4, <2>1, FrontIs
  <2>4. \A i \in 1..d : i \in 1..(d + 1)
    OBVIOUS
  <2> QED
    BY <2>2, <2>3, <2>4 DEF f
<1>6. PathInv'
  BY <1>1, <1>2 DEF PathInv, UsedStores
<1>7. LoopsInv'
  <2>1. \A i \in DOMAIN frames' : LeftInv(i)'
    <3> SUFFICES ASSUME NEW i \in 1..d PROVE LeftInv(i)'
      BY <1>5
    <3>1. LeftInv(i) /\ frames'[i] = frames[i]
      BY <1>4, <1>5
    <3> QED
      BY <1>2, <3>1 DEF LeftInv
  <2>2. Len(frames') = Len(chosen') /\ Len(frames') <= Len(problem'.ordered)
    <3>1. Len(problem.ordered) \in Nat
      BY <1>1, PathIs
    <3> QED
      BY <1>2, <1>3, <1>4, <1>5, <3>1
  <2> QED
    BY <1>2, <1>5, <2>1, <2>2 DEF LoopsInv
<1>8. BestInv'
  BY <1>1, <1>2 DEF BestInv
<1>9. \A a : NoBetter(a)' <=> NoBetter(a)
  BY <1>2 DEF NoBetter
<1>10. MemoInv'
  <2>1. PICK X : memo \in Seq(X) /\ \A m \in X : IsEntry(m)
    BY <1>1 DEF MemoInv
  <2>2. \A m \in X : IsEntry(m)'
    <3> SUFFICES ASSUME NEW m \in X PROVE IsEntry(m)'
      OBVIOUS
    <3>1. IsEntry(m) /\ m.key[1] \in Nat
      BY <1>1, <2>1, PathIs DEF IsEntry
    <3>2. CASE m.key[1] = d
      <4>1. IsDone(m)
        <5>1. CASE IsOnPath(m)
          <6>1. /\ chosen = Begun(problem, StoresOf(chosen), d)
                /\ m.key[2] = SubtotalsOf(Begun(problem, StoresOf(chosen), d))
                /\ m.prefix = SkusBought(Begun(problem, StoresOf(chosen), d))
            BY <1>1, <1>3, <3>2, <5>1 DEF IsOnPath, PathInv
          <6>2. m.key[2] = SubtotalsOf(chosen) /\ m.prefix = SkusBought(chosen)
            BY <6>1
          <6> SUFFICES ASSUME NEW a \in Assignments(problem), Reaches(a, m)
                       PROVE  NoBetter(a)
            BY DEF IsDone
          <6>3. /\ SubtotalsOf(Begun(problem, a, d)) = m.key[2]
                /\ ~Less(SkusBought(Begun(problem, a, d)), m.prefix)
            BY <3>2 DEF Reaches
          <6>4. /\ SubtotalsOf(Begun(problem, a, Len(chosen))) = SubtotalsOf(chosen)
                /\ ~Less(SkusBought(Begun(problem, a, Len(chosen))), SkusBought(chosen))
            BY <1>3, <6>2, <6>3
          <6> QED
            BY <1>1, <1>2, <6>4, LoopDone
        <5> QED
          BY <3>1, <5>1 DEF IsEntry
      <4>2. IsDone(m)'
        BY <1>2, <1>9, <4>1 DEF IsDone, Reaches
      <4> QED
        BY <1>2, <3>1, <4>2 DEF IsEntry
    <3>3. CASE m.key[1] # d
      <4>1. ASSUME m.key[1] < Len(frames)
            PROVE  /\ m.key[1] < Len(frames')
                   /\ \A i \in 1..m.key[1] : StoresOf(chosen)[i] = StoresOf(chosen')[i]
        BY <1>2, <1>4, <1>5, <3>1, <3>3, <4>1
      <4> QED
        BY <1>2, <1>9, <3>1, <4>1, EntryStays
    <3> QED
      BY <3>2, <3>3
  <2> QED
    BY <1>2, <2>1, <2>2 DEF MemoInv
<1>11. CoverInv'
  <2> SUFFICES ASSUME NEW a \in Assignments(problem) PROVE NoBetter(a)' \/ Pending(a)'
    BY <1>2 DEF CoverInv
  <2>1. NoBetter(a) \/ Ahead(a)
    BY <1>1, <1>2 DEF CoverInv, Pending
  <2>2. CASE Ahead(a)
    <3>1. PICK i \in 1..(d + 1) :
            Follows(a, i - 1) /\ \E k \in DOMAIN frames[i] : a[i] = frames[i][k]
      BY <1>4, <2>2 DEF Ahead
    <3>2. i # d + 1
      BY <1>4, <3>1
    <3>3. i \in 1..d
      BY <3>2
    <3>4. Follows(a, i - 1)'
      BY <1>2, <3>1 DEF Follows
    <3>5. i \in DOMAIN frames' /\ \E k \in DOMAIN frames'[i] : a[i] = frames'[i][k]
      BY <1>5, <3>1, <3>3
    <3>6. Ahead(a)'
      BY <3>4, <3>5 DEF Ahead
    <3> QED
      BY <3>6 DEF Pending
  <2> QED
    BY <1>9, <2>1, <2>2
<1> QED
  BY <1>6, <1>7, <1>8, <1>10, <1>11 DEF SearchInv

\* One choice fewer.
IsOneLess(b, d) ==
  /\ Len(b) = d /\ Len(chosen) = d + 1 /\ chosen[d + 1] = Last(chosen)
  /\ Serves(problem, StoresOf(b), d) /\ b = Begun(problem, StoresOf(b), d)
  /\ SubtotalsOf(b) = TakeBack(subtotals, Last(chosen).sel.store, Last(chosen).sel.cost)
  /\ \A i \in 1..d : b[i] = chosen[i] /\ StoresOf(b)[i] = StoresOf(chosen)[i]

\* The choices without the last one are those before it, with their subtotals.
LEMMA ChosenBefore ==
  ASSUME PathInv, NEW d \in Nat, Len(chosen) = d + 1, NEW b, b = Front(chosen)
  PROVE  IsOneLess(b, d)
<1> DEFINE p == problem
           c == StoresOf(chosen)
           e == Begun(p, c, d)
<1>1. /\ IsProblem(p) /\ Serves(p, c, d + 1) /\ chosen = Begun(p, c, d + 1)
      /\ DOMAIN chosen = 1..(d + 1) /\ chosen = [i \in 1..(d + 1) |-> chosen[i]]
      /\ \A i \in 1..(d + 1) : chosen[i].sel.store = c[i]
      /\ subtotals = SubtotalsOf(chosen)
  BY PathIs DEF PathInv
<1> HIDE DEF c, p
<1>2. Serves(p, c, d) /\ IsNext(chosen, e, d) /\ Buys(p, e, d) /\ Buys(p, chosen, d + 1)
  BY <1>1, BegunNext
<1>3. DOMAIN e = 1..d /\ e = [i \in 1..d |-> e[i]] /\ \A i \in 1..d : e[i].sel.store = c[i]
  <2>1. /\ DOMAIN Begun(p, c, d) = 1..d
        /\ Begun(p, c, d) = [i \in 1..d |-> Begun(p, c, d)[i]]
        /\ \A i \in 1..d : Begun(p, c, d)[i].sel.store = c[i]
    BY <1>1, <1>2, BegunSelections
  <2> QED
    BY <2>1
<1> HIDE DEF e
<1>4. \A i \in 1..d : e[i] = chosen[i]
  BY <1>2 DEF IsNext
<1>5. Last(chosen) = chosen[d + 1]
  BY DEF Last
<1>6. b = [i \in 1..d |-> chosen[i]] /\ Len(b) = d
  <2> DEFINE X == {chosen[i] : i \in 1..(d + 1)}
  <2>1. \A i \in 1..(d + 1) : chosen[i] \in X
    OBVIOUS
  <2> HIDE DEF X
  <2>2. chosen \in Seq(X)
    BY <1>1, <2>1
  <2>3. chosen # <<>> /\ Len(chosen) - 1 = d
    OBVIOUS
  <2>4. /\ b \in Seq(X) /\ Len(b) = Len(chosen) - 1
        /\ DOMAIN b = 1..(Len(chosen) - 1)
        /\ \A i \in 1..(Len(chosen) - 1) : b[i] = chosen[i]
    BY <2>2, <2>3, FrontIs
  <2>5. Len(b) = d /\ DOMAIN b = 1..d /\ \A i \in 1..d : b[i] = chosen[i]
    BY <2>3, <2>4
  <2>6. b = [i \in 1..d |-> b[i]]
    BY <2>4, <2>5
  <2> QED
    BY <2>5, <2>6
<1>7. b = e
  BY <1>3, <1>4, <1>6
<1>8. \A i \in 1..d : StoresOf(b)[i] = c[i]
  BY <1>3, <1>7 DEF StoresOf
<1>9. Serves(p, StoresOf(b), d)
  BY <1>2, <1>8 DEF Serves
<1>10. b = Begun(p, StoresOf(b), d)
  <2>1. Begun(p, StoresOf(b), d) = Begun(p, c, d)
    BY <1>8, BegunAlike
  <2> QED
    BY <1>7, <2>1 DEF e
<1>11. SubtotalsOf(b) = TakeBack(subtotals, Last(chosen).sel.store, Last(chosen).sel.cost)
  <2>1. TakeBack(SubtotalsOf(chosen), chosen[d + 1].sel.store, chosen[d + 1].sel.cost)
          = SubtotalsOf(e)
    BY <1>2, SubtotalsMore
  <2> QED
    BY <1>1, <1>5, <1>7, <2>1
<1>12. \A i \in 1..d : b[i] = chosen[i]
  BY <1>4, <1>7
<1> QED
  BY <1>5, <1>6, <1>8, <1>9, <1>10, <1>11, <1>12 DEF IsOneLess, c, p

\* The caller takes its choice back.
LEMMA UndoKeeps ==
  ASSUME SearchInv, Undo
  PROVE  SearchInv'
<1>1. PathInv /\ LoopsInv /\ BestInv /\ CoverInv /\ MemoInv
  BY DEF SearchInv
<1>2. /\ phase = "return" /\ frames # <<>> /\ chosen' = Front(chosen) /\ phase' = "loop"
      /\ subtotals' = TakeBack(subtotals, Last(chosen).sel.store, Last(chosen).sel.cost)
      /\ problem' = problem /\ frames' = frames /\ memo' = memo /\ bestPlan' = bestPlan
  BY DEF Undo
<1>3. PICK n \in Nat \ {0} : n = Len(frames)
  BY <1>1, <1>2 DEF LoopsInv
<1>4. PICK d \in Nat : n = d + 1
  <2>1. n - 1 \in Nat /\ n = (n - 1) + 1
    OBVIOUS
  <2> QED
    BY <2>1
<1>5. Len(chosen) = d + 1 /\ DOMAIN frames = 1..(d + 1)
  <2>1. frames \in Seq(Seq(Int)) /\ Len(frames) = Len(chosen)
    BY <1>1, <1>2 DEF LoopsInv
  <2>2. DOMAIN frames = 1..Len(frames)
    BY <2>1
  <2> QED
    BY <1>3, <1>4, <2>1, <2>2
<1>6. /\ Len(chosen') = d /\ chosen[d + 1] = Last(chosen)
      /\ Serves(problem, StoresOf(chosen'), d) /\ chosen' = Begun(problem, StoresOf(chosen'), d)
      /\ subtotals' = SubtotalsOf(chosen')
      /\ \A i \in 1..d : /\ chosen'[i] = chosen[i]
                         /\ StoresOf(chosen')[i] = StoresOf(chosen)[i]
  <2>1. IsOneLess(chosen', d)
    BY <1>1, <1>2, <1>5, ChosenBefore
  <2> QED
    BY <1>2, <2>1 DEF IsOneLess
<1>7. PathInv'
  <2>1. problem' \in Problems
    BY <1>1, <1>2 DEF PathInv
  <2>2. problem.limit # None => Cardinality(UsedStores') <= problem.limit
    <3> DEFINE V == UsedStores'
               W == UsedStores
               l == problem.limit
    <3>1. DOMAIN chosen' = 1..d /\ DOMAIN chosen = 1..(d + 1)
      <4>1. IsProblem(problem) /\ DOMAIN chosen = 1..Len(chosen)
        BY <1>1, PathIs
      <4>2. DOMAIN chosen' = 1..d
        BY <1>6, <4>1, BegunSelections
      <4> QED
        BY <1>5, <4>1, <4>2
    <3>2. V \in SUBSET W
      BY <1>6, <3>1 DEF UsedStores
    <3>3. IsFiniteSet(W)
      <4>1. Buys(problem, chosen, Len(chosen)) /\ W = UsedBy(chosen)
        BY <1>1, PathIs
      <4>2. IsFiniteSet(UsedBy(chosen))
        BY <4>1, SubtotalsAre
      <4> QED
        BY <4>1, <4>2
    <3>4. l # None => l \in Nat /\ Cardinality(W) <= l
      BY <1>1, PathIs DEF PathInv, IsProblem
    <3> HIDE DEF V, W, l
    <3>5. IsFiniteSet(V) /\ Cardinality(V) <= Cardinality(W)
      BY <3>2, <3>3, FS_Subset
    <3>6. Cardinality(V) \in Nat /\ Cardinality(W) \in Nat
      BY <3>3, <3>5, FS_CardinalityType
    <3>7. l # None => Cardinality(V) <= l
      BY <3>4, <3>5, <3>6
    <3> QED
      BY <3>7 DEF V, l
  <2> QED
    BY <1>2, <1>6, <2>1, <2>2 DEF PathInv
<1>8. LoopsInv'
  <2>1. \A i \in DOMAIN frames' : LeftInv(i)'
    <3> SUFFICES ASSUME NEW i \in 1..(d + 1) PROVE LeftInv(i)'
      BY <1>2, <1>5
    <3>1. LeftInv(i)
      BY <1>1, <1>5 DEF LoopsInv
    <3>2. i <= Len(chosen') => i <= Len(chosen) /\ chosen'[i] = chosen[i]
      BY <1>5, <1>6
    <3> QED
      BY <1>2, <3>1, <3>2 DEF LeftInv
  <2>2. Len(frames') = Len(chosen') + 1
    BY <1>2, <1>3, <1>4, <1>6
  <2> QED
    BY <1>1, <1>2, <2>1, <2>2 DEF LoopsInv
<1>9. BestInv'
  BY <1>1, <1>2 DEF BestInv
<1>10. \A a : NoBetter(a)' <=> NoBetter(a)
  BY <1>2 DEF NoBetter
<1>11. MemoInv'
  <2>1. PICK X : memo \in Seq(X) /\ \A m \in X : IsEntry(m)
    BY <1>1 DEF MemoInv
  <2>2. \A m \in X : IsEntry(m)'
    <3> SUFFICES ASSUME NEW m \in X PROVE IsEntry(m)'
      OBVIOUS
    <3>1. IsEntry(m) /\ m.key[1] \in Nat
      BY <1>1, <2>1, PathIs DEF IsEntry
    <3>2. ASSUME m.key[1] < Len(frames)
          PROVE  /\ m.key[1] < Len(frames')
                 /\ \A i \in 1..m.key[1] : StoresOf(chosen)[i] = StoresOf(chosen')[i]
      <4>1. m.key[1] <= d
        BY <1>3, <1>4, <3>1, <3>2
      <4>2. \A i \in 1..m.key[1] : i \in 1..d
        BY <3>1, <4>1
      <4> QED
        BY <1>2, <1>6, <3>2, <4>2
    <3> QED
      BY <1>2, <1>10, <3>1, <3>2, EntryStays
  <2> QED
    BY <1>2, <2>1, <2>2 DEF MemoInv
<1>12. CoverInv'
  <2> SUFFICES ASSUME NEW a \in Assignments(problem) PROVE NoBetter(a)' \/ Pending(a)'
    BY <1>2 DEF CoverInv
  <2>1. NoBetter(a) \/ Ahead(a)
    BY <1>1, <1>2 DEF CoverInv, Pending
  <2>2. CASE Ahead(a)
    <3>1. PICK i \in 1..(d + 1) :
            Follows(a, i - 1) /\ \E k \in DOMAIN frames[i] : a[i] = frames[i][k]
      BY <1>5, <2>2 DEF Ahead
    <3>2. \A j \in 1..(i - 1) : j \in 1..d
      OBVIOUS
    <3>3. Follows(a, i - 1)'
      BY <1>6, <3>1, <3>2 DEF Follows
    <3>4. Ahead(a)'
      BY <1>2, <1>5, <3>1, <3>3 DEF Ahead
    <3> QED
      BY <3>4 DEF Pending
  <2> QED
    BY <1>10, <2>1, <2>2
<1> QED
  BY <1>7, <1>8, <1>9, <1>11, <1>12 DEF SearchInv

\* The first call has returned, or nothing happens.
LEMMA FinishKeeps ==
  ASSUME SearchInv, Finish \/ UNCHANGED searchVars
  PROVE  SearchInv'
<1>1. PathInv /\ LoopsInv /\ BestInv /\ CoverInv /\ MemoInv
  BY DEF SearchInv
<1>2. /\ problem' = problem /\ frames' = frames /\ chosen' = chosen /\ subtotals' = subtotals
      /\ memo' = memo /\ bestPlan' = bestPlan
      /\ phase' = phase \/ (phase = "return" /\ phase' = "done" /\ frames = <<>>)
  BY DEF Finish, searchVars
<1>3. PathInv'
  BY <1>1, <1>2 DEF PathInv, UsedStores
<1>4. LoopsInv'
  <2>1. \A i : LeftInv(i) => LeftInv(i)'
    BY <1>2 DEF LeftInv
  <2> QED
    BY <1>1, <1>2, <2>1 DEF LoopsInv
<1>5. BestInv'
  BY <1>1, <1>2 DEF BestInv
<1>6. \A a : NoBetter(a)' <=> NoBetter(a)
  BY <1>2 DEF NoBetter
<1>7. MemoInv'
  <2>1. PICK X : memo \in Seq(X) /\ \A m \in X : IsEntry(m)
    BY <1>1 DEF MemoInv
  <2>2. \A m \in X : IsEntry(m)'
    BY <1>2, <1>6, <2>1, EntryStays
  <2> QED
    BY <1>2, <2>1, <2>2 DEF MemoInv
<1>8. CoverInv'
  <2> SUFFICES ASSUME NEW a \in Assignments(problem) PROVE NoBetter(a)' \/ Pending(a)'
    BY <1>2 DEF CoverInv
  <2>1. NoBetter(a) \/ Pending(a)
    BY <1>1 DEF CoverInv
  <2>2. Follows(a, Len(chosen))' <=> Follows(a, Len(chosen))
    BY <1>2 DEF Follows
  <2>3. Ahead(a)' <=> Ahead(a)
    BY <1>2 DEF Ahead, Follows
  <2> QED
    BY <1>2, <1>6, <2>1, <2>2, <2>3 DEF Pending
<1> QED
  BY <1>3, <1>4, <1>5, <1>7, <1>8 DEF SearchInv

\* At every moment of a search: what is chosen and its subtotals agree, each
\* cart is one that is no better or still ahead, and the cache says so rightly.
THEOREM SearchInvariant ==
  ASSUME NoneIsNoPlan PROVE SearchSpec => []SearchInv
<1>1. SearchInit => SearchInv
  BY SearchStarts
<1>2. SearchInv /\ [SearchNext]_searchVars => SearchInv'
  <2> SUFFICES ASSUME SearchInv, [SearchNext]_searchVars PROVE SearchInv'
    OBVIOUS
  <2>1. CASE Memoized
    BY <2>1, MemoizedKeeps
  <2>2. CASE Prune
    BY <2>2, PruneKeeps
  <2>3. CASE Complete
    BY <2>3, CompleteKeeps
  <2>4. CASE Branch
    BY <2>4, BranchKeeps
  <2>5. CASE Skip
    BY <2>5, SkipKeeps
  <2>6. CASE Descend
    BY <2>6, DescendKeeps
  <2>7. CASE EndLoop
    BY <2>7, EndLoopKeeps
  <2>8. CASE Undo
    BY <2>8, UndoKeeps
  <2>9. CASE Finish
    BY <2>9, FinishKeeps
  <2>10. CASE Stopped
    BY <2>10, FinishKeeps DEF Stopped
  <2>11. CASE UNCHANGED searchVars
    BY <2>11, FinishKeeps
  <2> QED
    BY <2>1, <2>2, <2>3, <2>4, <2>5, <2>6, <2>7, <2>8, <2>9, <2>10, <2>11 DEF SearchNext
<1> QED
  BY <1>1, <1>2, PTL DEF SearchSpec

\* A search that is done has no cart ahead.
LEMMA DoneFindsTheBest ==
  ASSUME SearchInv, phase = "done"
  PROVE  bestPlan = BestPlan(problem)
<1> DEFINE A == Assignments(problem)
<1>1. /\ IsProblem(problem) /\ frames = <<>> /\ BestInv
      /\ \A a \in A : NoBetter(a) \/ Pending(a)
  <2>1. IsProblem(problem)
    BY PathIs DEF SearchInv
  <2> QED
    BY <2>1 DEF SearchInv, LoopsInv, CoverInv
<1>2. \A a \in A : NoBetter(a)
  BY <1>1 DEF Pending, Ahead
<1>3. /\ IsStores(problem.stores) /\ Wants(problem.config) /\ Len(problem.ordered) \in Nat
      /\ IsSearch(problem, Len(problem.ordered), problem.stores, problem.config)
  BY <1>1, ProblemIs
<1>4. /\ A = {} => BestPlan(problem) = None
      /\ A # {} => /\ \E a \in A : BestPlan(problem) = PlanOf(problem, a)
                   /\ \A a \in A :
                        PlanOf(problem, a) # BestPlan(problem)
                          => ~Less(PlanSortKey(PlanOf(problem, a)),
                                   PlanSortKey(BestPlan(problem)))
  BY <1>3, BestPlanIs
<1> HIDE DEF A
<1>5. CASE A = {}
  <2>1. bestPlan = None
    BY <1>1, <1>5 DEF BestInv, A
  <2> QED
    BY <1>4, <1>5, <2>1
<1>6. CASE A # {}
  <2>1. bestPlan # None
    BY <1>2, <1>6 DEF NoBetter
  <2>2. PICK b \in A : bestPlan = PlanOf(problem, b)
    BY <1>1, <2>1 DEF BestInv, A
  <2>3. PICK c \in A : BestPlan(problem) = PlanOf(problem, c)
    BY <1>4, <1>6
  <2>4. KeyOf(problem, b) \in Seq(Int) /\ KeyOf(problem, c) \in Seq(Int)
    BY <1>1, AssignedKey DEF A
  <2>5. ~Less(KeyOf(problem, c), KeyOf(problem, b))
    <3>1. ~Less(KeyOf(problem, c), PlanSortKey(bestPlan))
      BY <1>2 DEF NoBetter
    <3> QED
      BY <2>2, <3>1 DEF KeyOf
  <2>6. CASE PlanOf(problem, b) = BestPlan(problem)
    BY <2>2, <2>6
  <2>7. CASE PlanOf(problem, b) # BestPlan(problem)
    <3>1. ~Less(KeyOf(problem, b), KeyOf(problem, c))
      BY <1>4, <1>6, <2>3, <2>7 DEF KeyOf
    <3>2. KeyOf(problem, b) = KeyOf(problem, c)
      BY <2>4, <2>5, <3>1, LessIsTotal
    <3>3. b = c
      BY <1>1, <3>2, KeysDiffer DEF A
    <3> QED
      BY <2>2, <2>3, <3>3
  <2> QED
    BY <2>6, <2>7
<1> QED
  BY <1>5, <1>6

\* The search finds the first of all carts, whatever its cache forgot and its
\* bound cut off, and none only when no cart keeps within the limit: when a
\* cart that was built is told from None, which a model value is and Python's None.
THEOREM FindsTheBestAlways ==
  ASSUME NoneIsNoPlan PROVE SearchSpec => []FindsTheBest
<1>1. SearchInv => FindsTheBest
  BY DoneFindsTheBest DEF FindsTheBest
<1> QED
  BY <1>1, SearchInvariant, PTL

\* The cache keeps its size when an entry is added or used again.
LEMMA CacheKeepsSize ==
  ASSUME NEW X, memo \in Seq(X), Len(memo) <= MaxEntries, NEW e
  PROVE  Len(Remember(e)) <= MaxEntries
<1> DEFINE i == CHOOSE i \in Remembered : TRUE
           rest == IF Remembered = {} THEN memo ELSE Without(i)
           all == Append(rest, e)
           Y == X \cup {e}
<1>1. MaxEntries \in Nat \ {0}
  BY MaxEntriesAssumption
<1>2. rest \in Seq(X) /\ Len(rest) <= MaxEntries
  <2>1. CASE Remembered = {}
    BY <2>1
  <2>2. CASE Remembered # {}
    <3> DEFINE n == Len(memo)
               s == SubSeq(memo, 1, i - 1)
               t == SubSeq(memo, i + 1, n)
    <3>1. i \in DOMAIN memo
      BY <2>2 DEF Remembered
    <3> HIDE DEF i
    <3>2. n \in Nat /\ i \in 1..n /\ n <= MaxEntries
      BY <3>1
    <3>3. s \in Seq(X) /\ Len(s) = i - 1
      BY <3>2
    <3>4. t \in Seq(X) /\ Len(t) = n - i
      BY <3>2
    <3> HIDE DEF s, t
    <3>5. s \o t \in Seq(X) /\ Len(s \o t) = Len(s) + Len(t)
      BY <3>3, <3>4, JoinedIs
    <3> HIDE DEF n
    <3>6. Len(s \o t) <= MaxEntries
      BY <1>1, <3>2, <3>3, <3>4, <3>5
    <3> QED
      BY <2>2, <3>5, <3>6 DEF Without, n, s, t
  <2> QED
    BY <2>1, <2>2
<1>3. Remember(e) = IF Len(all) > MaxEntries THEN Tail(all) ELSE all
  BY DEF Remember
<1> HIDE DEF rest
<1>4. Len(all) = Len(rest) + 1 /\ all # <<>> /\ Len(rest) \in Nat
  BY <1>2
<1>5. Len(Tail(all)) = Len(rest)
  <2> DEFINE U == {rest[k] : k \in DOMAIN rest} \cup {e}
  <2>1. rest \in Seq(U)
    <3>1. \A k \in 1..Len(rest) : rest[k] \in U
      BY <1>2
    <3>2. rest = [k \in 1..Len(rest) |-> rest[k]] /\ Len(rest) \in Nat
      BY <1>2
    <3> HIDE DEF U
    <3> QED
      BY <3>1, <3>2
  <2>2. e \in U
    OBVIOUS
  <2> HIDE DEF U
  <2>3. all \in Seq(U)
    BY <2>1, <2>2
  <2> HIDE DEF all
  <2> QED
    BY <1>4, <2>3
<1> HIDE DEF all
<1> QED
  BY <1>1, <1>2, <1>3, <1>4, <1>5

\* The phases agree with the calls under way, and the cache, from which the
\* oldest entry goes, is never larger than OPTIMIZER_STATE_CACHE_MAX_ENTRIES.
THEOREM SearchTypes ==
  ASSUME NoneIsNoPlan PROVE SearchSpec => []TypeOK
<1> DEFINE Small == Len(memo) <= MaxEntries
<1>1. SearchInit => Small
  BY MaxEntriesAssumption DEF SearchInit
<1>2. SearchInv /\ Small /\ [SearchNext]_searchVars => Small'
  <2> SUFFICES ASSUME SearchInv, Small, [SearchNext]_searchVars PROVE Small'
    OBVIOUS
  <2>1. memo' = memo \/ \E e : memo' = Remember(e)
    BY DEF SearchNext, Memoized, Prune, Complete, Branch, Visit, Skip, Descend, EndLoop,
           Undo, Finish, Stopped, searchVars
  <2>2. PICK X : memo \in Seq(X)
    BY DEF SearchInv, MemoInv
  <2>3. \A e : Len(Remember(e)) <= MaxEntries
    BY <2>2, CacheKeepsSize
  <2> QED
    BY <2>1, <2>3
<1>3. SearchInv /\ Small => TypeOK
  BY DEF SearchInv, LoopsInv, TypeOK
<1> QED
  BY <1>1, <1>2, <1>3, SearchInvariant, PTL DEF SearchSpec

\* A better cart only ever replaces a worse one: whatever else a step of the
\* search does, the best cart so far stays or is improved.
THEOREM TheBestOnlyImproves == SearchSpec => BestOnlyImproves
<1>1. [SearchNext]_searchVars
        => [bestPlan' # bestPlan
              => \/ bestPlan = None
                 \/ Less(PlanSortKey(bestPlan'), PlanSortKey(bestPlan))]_bestPlan
  BY DEF SearchNext, Memoized, Prune, Complete, Branch, BetterOf, Skip, Descend, EndLoop,
         Undo, Finish, Stopped, searchVars
<1> QED
  BY <1>1, PTL DEF SearchSpec, BestOnlyImproves

----------------------------------------------------------------------------

\* The products of a selection are among those offered.
LEMMA SkusSold ==
  ASSUME NEW need, NEW offers, IsOffers(offers),
         NEW sel, sel = SelectPackages(need, offers), sel # None
  PROVE  \A l \in ToSet(sel.lines) : \E o \in offers : l.sku = o.sku
<1> DEFINE q == MatchingOffers(need, offers)
           n == Cardinality(ForSale(need, offers))
           quantity == need.quantity
<1>1. n \in Nat /\ DOMAIN q = 1..n /\ \A j \in 1..n : q[j] \in offers
  <2>1. /\ n \in Nat /\ IsSupply(q, n) /\ \A j \in 1..n : q[j] \in ForSale(need, offers)
    BY MatchingSupply
  <2>2. ForSale(need, offers) \in SUBSET offers
    BY DEF ForSale
  <2> HIDE DEF q, n
  <2> QED
    BY <2>1, <2>2 DEF IsSupply
<1>2. PICK u, s, e : sel = Selection(q, quantity, u, s, e)
  <2>1. sel = SelectFrom(q, quantity)
    BY DEF SelectPackages
  <2> HIDE DEF q, quantity
  <2>2. PICK m, e : sel = SelectionUpTo(m, q, quantity, e)
    BY <2>1 DEF SelectFrom, OrElse
  <2> DEFINE states == PackageStates(q, m)
             best == BestQualifying(states, quantity)
  <2>3. sel = SelectionAt(q, quantity, best, states, e)
    BY <2>2 DEF SelectionUpTo, SelectionFrom
  <2> HIDE DEF states, best
  <2>4. sel = Selection(q, quantity, best, states[best], e)
    BY <2>3 DEF SelectionAt
  <2> QED
    BY <2>4
<1> HIDE DEF q, n, quantity
<1>3. PICK c : c = s.counts
  OBVIOUS
<1> DEFINE seq == [i \in 1..n |-> SelectedLine(q[i], c[i])]
           S == {i \in 1..n : c[i] > 0}
           lines == Pick(seq, InOrderOf(S))
<1>4. sel.lines = At([i \in DOMAIN q |-> SelectedLine(q[i], c[i])], LAMBDA i : c[i] > 0)
  BY <1>2, <1>3 DEF Selection
<1>5. At([i \in DOMAIN q |-> SelectedLine(q[i], c[i])], LAMBDA i : c[i] > 0) = lines
  <2>1. [i \in DOMAIN q |-> SelectedLine(q[i], c[i])] = seq /\ DOMAIN seq = 1..n
    BY <1>1
  <2> HIDE DEF seq
  <2> QED
    BY <2>1 DEF At, InOrderOf
<1>6. S \in SUBSET (1..n) /\ \A i \in 1..n : seq[i].sku = q[i].sku
  BY DEF SelectedLine
<1> HIDE DEF seq, S, lines
<1>7. /\ DOMAIN lines = 1..Cardinality(S)
      /\ \A k \in 1..Cardinality(S) : InOrderOf(S)[k] \in S /\ lines[k] = seq[InOrderOf(S)[k]]
  BY <1>1, <1>6, PickedAt DEF lines
<1>8. \A k \in DOMAIN lines : \E o \in offers : lines[k].sku = o.sku
  BY <1>1, <1>6, <1>7, ZenonT(30)
<1>9. sel.lines = lines
  BY <1>4, <1>5
<1> SUFFICES ASSUME NEW l \in ToSet(lines) PROVE \E o \in offers : l.sku = o.sku
  BY <1>9
<1>10. PICK k \in DOMAIN lines : l = lines[k]
  BY DEF ToSet
<1> QED
  BY <1>8, <1>10

\* The products sold for a need at two stores differ.
SoldApart(c) ==
  \A s, t \in DOMAIN c : \A l \in ToSet(c[s].lines), m \in ToSet(c[t].lines) :
    l.sku = m.sku => s = t

\* What the stores that may be used sell are products of their own.
LEMMA CandidatesApart ==
  ASSUME NEW n \in Nat, NEW needs, IsNeeds(needs, n), NEW offers, IsOffers(offers),
         NEW eligible, NEW skusFor, NEW i \in 1..n
  PROVE  SoldApart(CandidateSelections(needs, offers, eligible, skusFor)[i])
<1> DEFINE at(s) == {o \in offers : o.store = s /\ o.sku \in WillDo(needs[i], skusFor)}
           sel(s) == SelectPackages(needs[i], at(s))
           c == [s \in {t \in eligible : sel(t) # None} |-> sel(s)]
<1>1. CandidateSelections(needs, offers, eligible, skusFor)[i] = c
  <2>1. i \in DOMAIN needs
    BY DEF IsNeeds
  <2> QED
    BY <2>1 DEF CandidateSelections, RestrictValues, Restrict
<1>2. \A s : IsOffers(at(s)) /\ \A o \in at(s) : o \in offers /\ o.store = s
  <2> SUFFICES ASSUME NEW s PROVE IsOffers(at(s))
    OBVIOUS
  <2>1. at(s) \in SUBSET offers
    OBVIOUS
  <2> HIDE DEF at
  <2>2. IsFiniteSet(at(s))
    BY <2>1, FS_Subset DEF IsOffers
  <2> QED
    BY <2>1, <2>2 DEF IsOffers
<1> HIDE DEF at
<1>3. \A s \in DOMAIN c : \A l \in ToSet(c[s].lines) :
        \E o \in offers : o.store = s /\ l.sku = o.sku
  <2> SUFFICES ASSUME NEW s \in DOMAIN c
               PROVE  \A l \in ToSet(c[s].lines) : \E o \in offers : o.store = s /\ l.sku = o.sku
    OBVIOUS
  <2>1. sel(s) # None /\ c[s] = sel(s)
    OBVIOUS
  <2>2. \A l \in ToSet(sel(s).lines) : \E o \in at(s) : l.sku = o.sku
    BY <1>2, <2>1, SkusSold
  <2> HIDE DEF c, sel
  <2> QED
    BY <1>2, <2>1, <2>2
<1> HIDE DEF c
<1>4. \A o, p \in offers : o.sku = p.sku => o.store = p.store
  BY DEF IsOffers
<1>5. SoldApart(c)
  BY <1>3, <1>4 DEF SoldApart
<1> QED
  BY <1>1, <1>5

\* What the optimizer asks of a search, for the stores of any scope and the
\* needs they can serve, is a problem: whatever it asks, the search answers
\* with the best cart (FindsTheBestAlways).
THEOREM QuestionsAreProblems ==
  ASSUME NEW n \in Nat, NEW needs, IsNeeds(needs, n), NEW offers, IsOffers(offers),
         NEW stores, IsStores(stores), NEW config, IsConfig(config), NEW skusFor,
         NEW eligible, IsEligible(eligible, stores, config), NEW S \in SUBSET eligible,
         NEW limit \in Nat
  PROVE  LET sells == CandidateSelections(needs, offers, eligible, skusFor)
             within == [i \in DOMAIN needs |-> Restrict(sells[i], DOMAIN sells[i] \cap S)]
             P == {i \in 1..n : DOMAIN sells[i] \cap S # {}}
             c == [config EXCEPT !.maxStores = limit]
         IN  IsProblem(SearchFrom(Pick(needs, InOrderOf(P)), Pick(within, InOrderOf(P)),
                                  stores, c))
<1> DEFINE sells == CandidateSelections(needs, offers, eligible, skusFor)
           within == [i \in DOMAIN needs |-> Restrict(sells[i], DOMAIN sells[i] \cap S)]
           P == {i \in 1..n : DOMAIN sells[i] \cap S # {}}
           c == [config EXCEPT !.maxStores = limit]
           m == Cardinality(P)
           q == InOrderOf(P)
           a == Pick(needs, q)
           b == Pick(within, q)
           p == SearchFrom(a, b, stores, c)
<1>1. DOMAIN needs = 1..n
  BY DEF IsNeeds
<1>2. IsCandidates(sells, n, stores, config)
  BY CandidatesAre
<1>3. \A i \in 1..n : SoldApart(sells[i])
  BY CandidatesApart
<1>4. /\ IsConfig(c) /\ c.maxStores = limit
      /\ \A store : StoreSupportsFulfillment(store, c) <=> StoreSupportsFulfillment(store, config)
  <2>1. SameWish(c, config) /\ c.maxStores = limit
    BY LimitChanged
  <2> HIDE DEF c
  <2> QED
    BY <2>1 DEF SameWish
<1> HIDE DEF sells, c
<1>5. within = [i \in 1..n |-> within[i]]
      /\ \A i \in 1..n : /\ DOMAIN within[i] = DOMAIN sells[i] \cap S
                         /\ IsMapping(within[i])
                         /\ \A s \in DOMAIN within[i] : within[i][s] = sells[i][s]
  BY <1>1 DEF Restrict, IsMapping
<1>6. P \in SUBSET (1..n) /\ \A i \in P : DOMAIN sells[i] \cap S # {}
  OBVIOUS
<1> HIDE DEF within, P
<1>7. IsCandidates(within, n, stores, c)
  <2>1. \A i \in 1..n : IsServed(within[i], stores, c)
    BY <1>2, <1>4, <1>5 DEF IsCandidates, IsServed
  <2> QED
    BY <1>5, <2>1 DEF IsCandidates
<1>8. \A i \in 1..n : SoldApart(within[i])
  BY <1>3, <1>5 DEF SoldApart
<1>9. /\ m \in Nat /\ IsNeeds(a, m) /\ IsCandidates(b, m, stores, c)
      /\ \A k \in 1..m : q[k] \in P /\ b[k] = within[q[k]]
  BY <1>6, <1>7, PickedNeeds
<1> HIDE DEF m, q, a, b
<1>10. \A k \in 1..m : DOMAIN b[k] # {} /\ SoldApart(b[k])
  BY <1>5, <1>6, <1>8, <1>9
<1>11. /\ IsSearch(p, m, stores, c) /\ p.limit = StoreLimit(c)
       /\ \E order : /\ ListsOnce(order, 1..m) /\ DOMAIN order = 1..m
                     /\ \A k \in 1..m : /\ order[k] \in 1..m
                                        /\ p.ordered[k].candidates = b[order[k]]
  BY <1>9, SearchIs
<1>12. Len(p.ordered) = m /\ p.stores = stores /\ p.config = c /\ DOMAIN p.ordered = 1..m
  <2>1. DOMAIN p.ordered = 1..m /\ p.stores = stores /\ p.config = c
    BY <1>11 DEF IsSearch
  <2>2. p.ordered = [k \in 1..m |-> p.ordered[k]]
    BY <2>1 DEF SearchFrom, Ordered, InOrder
  <2> HIDE DEF p
  <2> QED
    BY <1>9, <2>1, <2>2
<1> HIDE DEF p
<1>13. \A k \in 1..m : DOMAIN p.ordered[k].candidates # {} /\ SoldApart(p.ordered[k].candidates)
  BY <1>10, <1>11
<1>14. p.limit \in Nat \cup {None}
  BY <1>4, <1>11 DEF StoreLimit
<1>15. Wants(c)
  BY <1>4 DEF IsConfig
<1>16. IsProblem(p)
  <2>1. IsSearch(p, Len(p.ordered), p.stores, p.config)
    BY <1>11, <1>12
  <2> QED
    BY <1>9, <1>12, <1>13, <1>14, <1>15, <2>1 DEF IsProblem, SoldApart
<1> QED
  BY <1>16 DEF p, a, b, q, within, P, sells, c
=============================================================================
