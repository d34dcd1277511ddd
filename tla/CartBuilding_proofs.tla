------------------------- MODULE CartBuilding_proofs -------------------------
(* Theorems about every answer of the optimizer, for all stores, offers,    *)
(* needs and configs.  First what its functions return: shares of an amount *)
(* (SharesAreFair), lines, orders and carts (ChildrenPayAll, PlanIs), and   *)
(* the packs of a store (SelectedPackagesAre), whose states are at every    *)
(* step the best ways to each number of units (StatesAreBest).  Then the    *)
(* choice of stores (BestPlanIs), the three modes (CustomIs, SingleStopIs,  *)
(* CartOfModeIs), one call of the optimizer (OptimizeIs), and what the      *)
(* pipeline makes of its calls (CandidatesAnswer, ConsolidatedResult).      *)
EXTENDS CartBuilding, FiniteFacts

\* Pairs of numbers in the order of their tuples.
LEMMA LessPairs ==
  ASSUME NEW a \in Int, NEW b \in Int, NEW c \in Int, NEW d \in Int
  PROVE  Less(<<a, b>>, <<c, d>>) <=> a < c \/ (a = c /\ b < d)
<1>1. DOMAIN <<c, d>> = 1..2 /\ Len(<<a, b>>) = 2
  OBVIOUS
<1>2. ASSUME Less(<<a, b>>, <<c, d>>) PROVE a < c \/ (a = c /\ b < d)
  <2>1. PICK i \in 1..2 : /\ \A j \in 1..(i - 1) : <<a, b>>[j] = <<c, d>>[j]
                          /\ <<a, b>>[i] < <<c, d>>[i]
    BY <1>2 DEF Less
  <2>2. CASE i = 1
    BY <2>1, <2>2
  <2>3. CASE i = 2
    <3>1. 1 \in 1..(i - 1)
      BY <2>3
    <3> QED
      BY <2>1, <2>3, <3>1
  <2> QED
    BY <2>2, <2>3
<1>3. ASSUME a < c PROVE Less(<<a, b>>, <<c, d>>)
  <2>1. 1 \in 1..2 /\ \A j \in 1..(1 - 1) : FALSE
    OBVIOUS
  <2> QED
    BY <1>3, <2>1 DEF Less
<1>4. ASSUME a = c, b < d PROVE Less(<<a, b>>, <<c, d>>)
  <2>1. 2 \in 1..2 /\ \A j \in 1..(2 - 1) : j = 1
    OBVIOUS
  <2> QED
    BY <1>4, <2>1 DEF Less
<1> QED
  BY <1>2, <1>3, <1>4

\* No tuple comes before itself.
LEMMA LessIsStrict ==
  ASSUME NEW s \in Seq(Int)
  PROVE  ~Less(s, s)
BY DEF Less

\* What comes before another comes before all that come after that.
LEMMA LessIsTransitive ==
  ASSUME NEW s \in Seq(Int), NEW t \in Seq(Int), NEW u \in Seq(Int), Less(s, t), Less(t, u)
  PROVE  Less(s, u)
<1>1. PICK i \in DOMAIN t : /\ \A k \in 1..(i - 1) : k <= Len(s) /\ s[k] = t[k]
                            /\ i > Len(s) \/ s[i] < t[i]
  BY DEF Less
<1>2. PICK j \in DOMAIN u : /\ \A k \in 1..(j - 1) : k <= Len(t) /\ t[k] = u[k]
                            /\ j > Len(t) \/ t[j] < u[j]
  BY DEF Less
<1>3. /\ DOMAIN s = 1..Len(s) /\ DOMAIN t = 1..Len(t) /\ DOMAIN u = 1..Len(u)
      /\ Len(s) \in Nat /\ Len(t) \in Nat /\ Len(u) \in Nat
      /\ \A k \in DOMAIN s : s[k] \in Int
      /\ \A k \in DOMAIN t : t[k] \in Int
      /\ \A k \in DOMAIN u : u[k] \in Int
  OBVIOUS
<1>4. i \in Nat \ {0} /\ j \in Nat \ {0} /\ i <= Len(t) /\ j <= Len(u)
  BY <1>3
<1>5. CASE i < j
  <2>1. i \in DOMAIN u /\ t[i] = u[i] /\ \A k \in 1..(i - 1) : t[k] = u[k]
    <3>1. i \in DOMAIN u /\ i \in 1..(j - 1) /\ \A k \in 1..(i - 1) : k \in 1..(j - 1)
      BY <1>3, <1>4, <1>5
    <3> QED
      BY <1>2, <3>1
  <2>2. \A k \in 1..(i - 1) : k <= Len(s) /\ s[k] = u[k]
    BY <1>1, <2>1
  <2>3. i > Len(s) \/ s[i] < u[i]
    BY <1>1, <2>1
  <2> QED
    BY <2>1, <2>2, <2>3 DEF Less
<1>6. CASE j < i
  <2>1. j \in 1..(i - 1) /\ j \in DOMAIN t
    BY <1>3, <1>4, <1>6
  <2>2. s[j] = t[j] /\ t[j] < u[j]
    BY <1>1, <1>2, <1>3, <2>1
  <2>3. \A k \in 1..(j - 1) : k <= Len(s) /\ s[k] = u[k]
    <3> SUFFICES ASSUME NEW k \in 1..(j - 1) PROVE k <= Len(s) /\ s[k] = u[k]
      OBVIOUS
    <3>1. k \in 1..(i - 1)
      BY <1>4, <1>6
    <3> QED
      BY <1>1, <1>2, <3>1
  <2> QED
    BY <2>2, <2>3 DEF Less
<1>7. CASE i = j
  <2>1. \A k \in 1..(i - 1) : k <= Len(s) /\ s[k] = u[k]
    BY <1>1, <1>2, <1>7
  <2>2. i > Len(s) \/ s[i] < u[i]
    <3>1. t[i] < u[i]
      BY <1>2, <1>3, <1>4, <1>7
    <3>2. CASE i > Len(s)
      BY <3>2
    <3>3. CASE ~(i > Len(s))
      <4>1. s[i] < t[i] /\ s[i] \in Int /\ t[i] \in Int /\ u[i] \in Int
        BY <1>1, <1>3, <1>4, <1>7, <3>3
      <4> QED
        BY <3>1, <4>1
    <3> QED
      BY <3>2, <3>3
  <2> QED
    BY <1>7, <2>1, <2>2 DEF Less
<1> QED
  BY <1>4, <1>5, <1>6, <1>7

\* Of finitely many things one is such that no other has a smaller key.
LEMMA LeastExists ==
  ASSUME NEW S, IsFiniteSet(S), S # {}, NEW key, \A x \in S : key[x] \in Seq(Int)
  PROVE  \E x \in S : \A y \in S \ {x} : ~Less(key[y], key[x])
<1> DEFINE D(x) == {y \in S : Less(key[y], key[x])}
           U == {D(x) : x \in S}
<1>1. PICK T \in U : \A V \in U : V \subseteq T => V = T
  <2>1. U \subseteq SUBSET S /\ U # {}
    OBVIOUS
  <2> HIDE DEF U
  <2> QED
    BY <2>1, SmallestSubset
<1>2. PICK x \in S : T = D(x)
  BY <1>1
<1>3. ASSUME NEW y \in S, Less(key[y], key[x])
      PROVE  FALSE
  <2>1. D(y) \subseteq D(x)
    BY <1>2, <1>3, LessIsTransitive
  <2>2. y \in D(x) /\ y \notin D(y)
    BY <1>3, LessIsStrict
  <2>3. D(y) \in U
    OBVIOUS
  <2> HIDE DEF D, U
  <2> QED
    BY <1>1, <1>2, <2>1, <2>2, <2>3
<1> QED
  BY <1>3

-----------------------------------------------------------------------------
(* Cents in proportion to weights *)

\* The children who have some units, and pay.
Paying(w) == {c \in DOMAIN w : w[c] > 0}

\* Positive keeps the amounts of those who pay.
LEMMA PositiveIs ==
  ASSUME NEW w PROVE Positive(w) = [c \in Paying(w) |-> w[c]]
BY DEF Positive, RestrictValues, Restrict, Paying

\* What is left of a product by a division.
LEMMA Divided ==
  ASSUME NEW a \in Nat, NEW u \in Nat \ {0}
  PROVE  a \div u \in Nat /\ a % u \in Nat /\ a % u < u /\ a = (u * (a \div u)) + (a % u)
OBVIOUS

\* Whole cents, and what they leave over.
LEMMA WholeCentsAre ==
  ASSUME NEW total \in Nat, NEW w, Weights(w), SumFunction(w) # 0
  PROVE  LET P == Paying(w)
             U == SumFunction(w)
             share == [c \in P |-> (total * w[c]) \div U]
             left == [c \in P |-> (total * w[c]) % U]
         IN  /\ IsFiniteSet(P) /\ U \in Nat \ {0} /\ SumFunctionOnSet(w, P) = U
             /\ \A c \in P : /\ share[c] \in Nat /\ left[c] \in 0..(U - 1)
                             /\ total * w[c] = U * share[c] + left[c]
             /\ SumFunctionOnSet(share, P) \in Nat
             /\ SumFunctionOnSet(left, P) = U * (total - SumFunctionOnSet(share, P))
             /\ total - SumFunctionOnSet(share, P) \in Nat
             /\ total - SumFunctionOnSet(share, P) <= Cardinality({c \in P : left[c] > 0})
<1> DEFINE P == Paying(w)
           U == SumFunction(w)
           D == DOMAIN w
           share == [c \in P |-> (total * w[c]) \div U]
           left == [c \in P |-> (total * w[c]) % U]
           due == [c \in P |-> total * w[c]]
           whole == [c \in P |-> U * share[c]]
           und == total - SumFunctionOnSet(share, P)
<1>1. P \in SUBSET D /\ IsFiniteSet(D) /\ IsFiniteSet(P) /\ \A c \in D : w[c] \in Nat
  BY FS_Subset DEF Weights, Paying
<1>2. U \in Nat \ {0} /\ SumFunctionOnSet(w, P) = U
  <2>1. U = SumFunctionOnSet(w, D)
    BY DEF SumFunction
  <2>2. \A c \in D \ P : w[c] = 0
    BY <1>1 DEF Paying
  <2> HIDE DEF D, P, U
  <2>3. U \in Nat
    BY <1>1, <2>1, SumNat
  <2>4. \A c \in D : w[c] \in Int
    BY <1>1
  <2>5. SumFunctionOnSet(w, D) = SumFunctionOnSet(w, P)
    BY <1>1, <2>2, <2>4, SumOfTheRest
  <2> QED
    BY <2>1, <2>3, <2>5 DEF U
<1> HIDE DEF U
<1>3. ASSUME NEW c \in P
      PROVE  /\ share[c] \in Nat /\ left[c] \in Nat /\ left[c] < U
             /\ due[c] = whole[c] + left[c] /\ due[c] \in Nat /\ whole[c] \in Nat
             /\ due[c] = total * w[c]
  <2>1. w[c] \in Nat
    BY <1>1
  <2>2. total * w[c] \in Nat
    BY <2>1
  <2> DEFINE a == total * w[c]
  <2>3. a \in Nat
    BY <2>2
  <2> HIDE DEF a
  <2>4. a \div U \in Nat /\ a % U \in Nat /\ a % U < U /\ a = (U * (a \div U)) + (a % U)
    BY <1>2, <2>3, Divided
  <2>5. share[c] = a \div U /\ left[c] = a % U /\ due[c] = a
    BY DEF a
  <2>6. whole[c] = U * (a \div U) /\ U * (a \div U) \in Nat
    <3>1. U * (a \div U) \in Nat
      BY <1>2, <2>4
    <3> QED
      BY <2>5, <3>1
  <2> HIDE DEF share, left, due, whole
  <2> QED
    BY <2>3, <2>4, <2>5, <2>6 DEF a
<1>4. SumFunctionOnSet(due, P) = total * U
  <2>1. \A c \in P : w[c] \in Int /\ due[c] = total * w[c]
    BY <1>1
  <2> HIDE DEF P, due
  <2>2. SumFunctionOnSet(due, P) = total * SumFunctionOnSet(w, P)
    BY <1>1, <2>1, SumTimes
  <2> QED
    BY <1>2, <2>2
<1>5. SumFunctionOnSet(whole, P) = U * SumFunctionOnSet(share, P)
  <2>1. \A c \in P : share[c] \in Int /\ whole[c] = U * share[c]
    BY <1>3
  <2> HIDE DEF P, share, whole
  <2> QED
    BY <1>1, <1>2, <2>1, SumTimes
<1>6. SumFunctionOnSet(due, P) = SumFunctionOnSet(whole, P) + SumFunctionOnSet(left, P)
  <2> HIDE DEF P, due, whole, left
  <2>1. \A c \in P : /\ whole[c] \in Int /\ left[c] \in Int
                     /\ due[c] = whole[c] + left[c]
    BY <1>3
  <2> QED
    BY <1>1, <2>1, SumPlus
<1>7. SumFunctionOnSet(share, P) \in Nat /\ SumFunctionOnSet(left, P) \in Nat
  <2> HIDE DEF P, share, left
  <2> QED
    BY <1>1, <1>3, SumNat
<1> DEFINE Q == {c \in P : left[c] > 0}
<1>8. SumFunctionOnSet(left, P) <= U * Cardinality(Q)
  <2> DEFINE all == [c \in Q |-> U]
             one == [c \in Q |-> 1]
  <2>1. \A c \in Q : one[c] \in Int /\ all[c] = U * one[c]
    BY <1>2
  <2>2. IsFiniteSet(Q) /\ Q \in SUBSET P
    BY <1>1, FS_Subset
  <2>3. SumFunctionOnSet(all, Q) = U * SumFunctionOnSet(one, Q)
    <3>1. U \in Int
      BY <1>2
    <3> HIDE DEF all, one, Q, U
    <3> QED
      BY <2>1, <2>2, <3>1, SumTimes
  <2>4. SumFunctionOnSet(one, Q) = Cardinality(Q)
    <3>1. \A c \in Q : one[c] = 1
      OBVIOUS
    <3> HIDE DEF one, Q
    <3> QED
      BY <2>2, <3>1, SumOfOnes
  <2>5. SumFunctionOnSet(left, Q) <= SumFunctionOnSet(all, Q)
    <3> DEFINE m == [c \in Q |-> c]
    <3>1. /\ m \in [Q -> Q] /\ \A x, y \in Q : m[x] = m[y] => x = y
          /\ \A c \in Q : all[m[c]] = U
      OBVIOUS
    <3>2. \A c \in Q : left[c] \in Nat /\ left[c] <= all[m[c]]
      BY <1>2, <1>3, <3>1
    <3>3. \A c \in Q : all[c] \in Nat
      BY <1>2
    <3> HIDE DEF all, left, P, Q, m
    <3> QED
      BY <2>2, <3>1, <3>2, <3>3, SumNoLess
  <2>6. SumFunctionOnSet(left, P) = SumFunctionOnSet(left, Q)
    <3>1. \A c \in P : left[c] \in Int
      BY <1>3
    <3>2. \A c \in P \ Q : left[c] = 0
      <4> HIDE DEF left, P
      <4> QED
        BY <1>3
    <3> HIDE DEF left, P, Q
    <3> QED
      BY <1>1, <2>2, <3>1, <3>2, SumOfTheRest
  <2> QED
    BY <2>3, <2>4, <2>5, <2>6
<1>9. SumFunctionOnSet(left, P) = U * und
  <2> HIDE DEF share, left, P, due, whole
  <2>1. U * und = total * U - U * SumFunctionOnSet(share, P)
    BY <1>2, <1>7
  <2> QED
    BY <1>2, <1>4, <1>5, <1>6, <1>7, <2>1
<1>10. und \in Nat /\ und <= Cardinality(Q)
  <2> DEFINE n == Cardinality(Q)
             a == SumFunctionOnSet(left, P)
  <2>1. n \in Nat
    <3>1. IsFiniteSet(Q)
      BY <1>1, FS_Subset
    <3> HIDE DEF Q
    <3> QED
      BY <3>1, FS_CardinalityType
  <2>2. und \in Int /\ a \in Nat /\ a = U * und /\ a <= U * n
    BY <1>7, <1>8, <1>9
  <2> HIDE DEF und, a, n
  <2>3. und \in Nat
    BY <1>2, <2>1, <2>2
  <2>4. und <= n
    BY <1>2, <2>1, <2>2
  <2> QED
    BY <2>3, <2>4 DEF n
<1>11. \A c \in P : /\ share[c] \in Nat /\ left[c] \in 0..(U - 1)
                    /\ total * w[c] = U * share[c] + left[c]
  <2> SUFFICES ASSUME NEW c \in P
               PROVE  /\ share[c] \in Nat /\ left[c] \in 0..(U - 1)
                      /\ total * w[c] = U * share[c] + left[c]
    OBVIOUS
  <2>1. whole[c] = U * share[c]
    OBVIOUS
  <2> HIDE DEF share, left, due, whole, P
  <2> QED
    BY <1>2, <1>3, <2>1
<1> HIDE DEF share, left, P
<1>12. /\ IsFiniteSet(P) /\ U \in Nat \ {0} /\ SumFunctionOnSet(w, P) = U
       /\ SumFunctionOnSet(share, P) \in Nat
       /\ SumFunctionOnSet(left, P) = U * (total - SumFunctionOnSet(share, P))
       /\ total - SumFunctionOnSet(share, P) \in Nat
       /\ total - SumFunctionOnSet(share, P) <= Cardinality({c \in P : left[c] > 0})
  BY <1>1, <1>2, <1>7, <1>9, <1>10
<1> QED
  BY <1>11, <1>12 DEF share, left, P, U

\* Cents shared out by weights are all paid, nobody's part is a cent or more
\* away from the exact one, and who uses more never pays less.
LEMMA SharesAreFair ==
  ASSUME NEW total \in Nat, NEW w, Weights(w)
  PROVE  LET a == AllocateCents(total, w)
             U == SumFunction(w)
         IN  /\ DOMAIN a = Paying(w) /\ \A c \in DOMAIN a : a[c] \in Nat
             /\ U \in Nat
             /\ SumFunction(a) = (IF U = 0 THEN 0 ELSE total)
             /\ \A c \in DOMAIN a : /\ -U < a[c] * U - total * w[c]
                                    /\ a[c] * U - total * w[c] < U
             /\ \A c, d \in DOMAIN a : w[c] > w[d] => a[c] >= a[d]
<1> DEFINE P == Paying(w)
           U == SumFunction(w)
           D == DOMAIN w
           a == AllocateCents(total, w)
           paying == Positive(w)
<1>1. P \in SUBSET D /\ IsFiniteSet(D) /\ IsFiniteSet(P) /\ \A c \in D : c \in Int /\ w[c] \in Nat
  BY FS_Subset DEF Weights, Paying
<1>2. paying = [c \in P |-> w[c]] /\ DOMAIN paying = P /\ \A c \in P : paying[c] = w[c]
  BY PositiveIs
<1> HIDE DEF paying
<1>3. U = SumFunctionOnSet(w, D) /\ U \in Nat
  <2>1. \A c \in D : w[c] \in Nat
    BY <1>1
  <2> QED
    BY <1>1, <2>1, SumNat DEF SumFunction
<1>4. a = SharedByUnits(total, paying, SumFunction(paying))
  BY DEF AllocateCents, paying
<1>5. CASE U = 0
  <2>1. P = {}
    <3> SUFFICES ASSUME NEW c \in P PROVE FALSE
      OBVIOUS
    <3>1. \A x \in D : w[x] \in Nat
      BY <1>1
    <3>2. w[c] <= SumFunctionOnSet(w, D) /\ c \in D /\ w[c] > 0
      <4> c \in D /\ w[c] > 0
        BY DEF Paying
      <4> HIDE DEF D, P
      <4> QED
        BY <1>1, <3>1, SumAtLeast
    <3> QED
      BY <1>1, <1>3, <1>5, <3>2
  <2>2. DOMAIN a = {}
    BY <1>2, <1>4, <2>1 DEF SharedByUnits, WithLeftOver, WholeCents
  <2>3. SumFunction(a) = 0
    BY <2>2, SumOfNone DEF SumFunction
  <2> QED
    BY <1>3, <1>5, <2>1, <2>2, <2>3
<1>6. CASE U # 0
  <2> DEFINE share == [c \in P |-> (total * w[c]) \div U]
             left == [c \in P |-> (total * w[c]) % U]
             und == total - SumFunctionOnSet(share, P)
             before == {p \in P \X P : Less(<<-left[p[1]], p[1]>>, <<-left[p[2]], p[2]>>)}
             bit == [c \in P |-> IF Rank(c, P, before) < und THEN 1 ELSE 0]
  <2>1. /\ U \in Nat \ {0} /\ SumFunctionOnSet(w, P) = U
        /\ \A c \in P : /\ share[c] \in Nat /\ left[c] \in 0..(U - 1)
                        /\ total * w[c] = U * share[c] + left[c]
        /\ SumFunctionOnSet(share, P) \in Nat
        /\ und \in Nat /\ und <= Cardinality({c \in P : left[c] > 0})
    BY <1>6, WholeCentsAre
  <2>2. SumFunction(paying) = U
    <3> HIDE DEF P, U
    <3> QED
      BY <1>1, <1>2, <2>1, SumSame DEF SumFunction
  <2>3. WholeCents(total, paying, U) = share
    BY <1>2 DEF WholeCents
  <2>4. a = WithLeftOver(total, paying, U, share)
    <3> HIDE DEF share, a, U
    <3> QED
      BY <1>4, <2>2, <2>3 DEF SharedByUnits
  <2>5. \A c \in P : {d \in P : Less(<<-((total * paying[d]) % U), d>>,
                                     <<-((total * paying[c]) % U), c>>)}
                       = {d \in P : <<d, c>> \in before}
    <3>1. \A c, d \in P : <<d, c>> \in before <=> Less(<<-left[d], d>>, <<-left[c], c>>)
      OBVIOUS
    <3>2. \A c \in P : left[c] = (total * paying[c]) % U
      BY <1>2
    <3> HIDE DEF left, before, P, U
    <3> QED
      BY <3>1, <3>2
  <2>6. SumFunction(share) = SumFunctionOnSet(share, P)
    BY DEF SumFunction
  <2>7. a = [c \in P |-> share[c] + bit[c]]
    <3>1. DOMAIN share = P /\ \A c \in P : bit[c] = IF Rank(c, P, before) < und THEN 1 ELSE 0
      OBVIOUS
    <3> HIDE DEF share, bit, before, und, a, P, U
    <3>2. a = [c \in P |-> share[c] + (IF Cardinality({d \in P :
                 Less(<<-((total * paying[d]) % U), d>>,
                      <<-((total * paying[c]) % U), c>>)}) < total - SumFunction(share)
               THEN 1 ELSE 0)]
      BY <1>2, <2>4, <3>1 DEF WithLeftOver
    <3> QED
      BY <2>5, <2>6, <3>1, <3>2 DEF Rank, und
  <2>8. \A c, d \in P : <<c, d>> \in before
                          <=> left[c] > left[d] \/ (left[c] = left[d] /\ c < d)
    <3> SUFFICES ASSUME NEW c \in P, NEW d \in P
                 PROVE  <<c, d>> \in before
                          <=> left[c] > left[d] \/ (left[c] = left[d] /\ c < d)
      OBVIOUS
    <3>1. <<c, d>> \in before <=> Less(<<-left[c], c>>, <<-left[d], d>>)
      OBVIOUS
    <3>2. left[c] \in Int /\ left[d] \in Int /\ c \in Int /\ d \in Int
      BY <1>1, <2>1
    <3> HIDE DEF left, before
    <3>3. Less(<<-left[c], c>>, <<-left[d], d>>)
             <=> -left[c] < -left[d] \/ (-left[c] = -left[d] /\ c < d)
      BY <3>2, LessPairs
    <3> QED
      BY <3>1, <3>2, <3>3
  <2>9. Orders(before, P)
    <3>1. \A c \in P : left[c] \in Int /\ c \in Int
      BY <1>1, <2>1
    <3> HIDE DEF left, before, P
    <3> QED
      BY <2>8, <3>1 DEF Orders
  <2> DEFINE positive == {c \in P : left[c] > 0}
  <2>15. und <= Cardinality(positive) /\ positive \in SUBSET P /\ IsFiniteSet(positive)
    BY <1>1, <2>1, FS_Subset
  <2>16. und <= Cardinality(P)
    <3> HIDE DEF positive, P, und
    <3>1. Cardinality(positive) <= Cardinality(P) /\ Cardinality(positive) \in Nat
      BY <1>1, <2>15, FS_Subset, FS_CardinalityType
    <3>2. Cardinality(P) \in Nat
      BY <1>1, FS_CardinalityType
    <3> QED
      BY <2>1, <2>15, <3>1, <3>2
  <2>17. ASSUME NEW c \in P, left[c] = 0
         PROVE  bit[c] = 0
    <3> DEFINE first == {d \in P : <<d, c>> \in before}
    <3>1. positive \in SUBSET first
      <4>1. \A d \in P : left[d] \in Int
        BY <2>1
      <4> HIDE DEF before, left, P
      <4> QED
        BY <2>8, <2>17, <4>1
    <3>2. IsFiniteSet(first)
      BY <1>1, FS_Subset
    <3>3. Rank(c, P, before) = Cardinality(first)
      BY DEF Rank
    <3> HIDE DEF first, before, left, P, und, positive
    <3>4. Cardinality(positive) <= Cardinality(first) /\ Cardinality(first) \in Nat
          /\ Cardinality(positive) \in Nat
      BY <2>15, <3>1, <3>2, FS_Subset, FS_CardinalityType
    <3>5. ~(Rank(c, P, before) < und)
      BY <2>1, <2>15, <3>3, <3>4
    <3> QED
      BY <3>5
  <2>10. SumFunctionOnSet(bit, P) = und
    <3> DEFINE Q == {c \in P : Rank(c, P, before) < und}
    <3>1. Cardinality(Q) = und
      <4> HIDE DEF before, und, P
      <4> QED
        BY <1>1, <2>1, <2>9, <2>16, RanksBelow
    <3>2. /\ Q \in SUBSET P /\ \A c \in P : bit[c] \in Int
          /\ \A c \in P \ Q : bit[c] = 0 /\ \A d \in Q : bit[d] = 1
      OBVIOUS
    <3>3. \A c \in Q : bit[c] = 1
      OBVIOUS
    <3>4. IsFiniteSet(Q)
      BY <1>1, FS_Subset
    <3> HIDE DEF Q, bit, P, und
    <3>5. SumFunctionOnSet(bit, P) = SumFunctionOnSet(bit, Q)
      BY <1>1, <3>2, SumOfTheRest
    <3> QED
      BY <3>1, <3>3, <3>4, <3>5, SumOfOnes
  <2>11. DOMAIN a = P /\ \A c \in P : /\ a[c] = share[c] + bit[c] /\ bit[c] \in {0, 1}
                                      /\ a[c] \in Nat
    <3>1. DOMAIN a = P /\ \A c \in P : a[c] = share[c] + bit[c] /\ bit[c] \in {0, 1}
      <4>1. \A c \in P : bit[c] \in {0, 1}
        OBVIOUS
      <4> HIDE DEF a, share, bit, P
      <4> QED
        BY <2>7, <4>1
    <3> HIDE DEF a, share, bit, P, left
    <3> QED
      BY <2>1, <3>1
  <2> HIDE DEF a, share, left, bit, before, P, U
  <2>12. SumFunction(a) = total
    <3>1. SumFunctionOnSet(a, P) = SumFunctionOnSet(share, P) + SumFunctionOnSet(bit, P)
      <4>1. \A c \in P : share[c] \in Int /\ bit[c] \in Int /\ a[c] = share[c] + bit[c]
        BY <2>1, <2>11
      <4> QED
        BY <1>1, <4>1, SumPlus
    <3>2. SumFunction(a) = SumFunctionOnSet(a, P)
      BY <2>11 DEF SumFunction
    <3> QED
      BY <2>1, <2>10, <3>1, <3>2 DEF und
  <2>13. ASSUME NEW c \in P
         PROVE  /\ -U < a[c] * U - total * w[c] /\ a[c] * U - total * w[c] < U
                /\ U * share[c] \in Nat /\ total * w[c] \in Nat
    <3>1. share[c] \in Nat /\ left[c] \in 0..(U - 1) /\ total * w[c] = U * share[c] + left[c]
      BY <2>1
    <3>2. a[c] = share[c] + bit[c] /\ bit[c] \in {0, 1} /\ U \in Nat
      BY <2>1, <2>11
    <3>3. CASE bit[c] = 0
      <4>1. a[c] * U = U * share[c] /\ U * share[c] \in Nat
        BY <3>1, <3>2, <3>3
      <4> QED
        BY <3>1, <3>2, <4>1
    <3>4. CASE bit[c] = 1
      <4>1. a[c] * U = U * share[c] + U /\ U * share[c] \in Nat
        <5>1. \A x \in Nat : (x + 1) * U = U * x + U /\ U * x \in Nat
          BY <2>1
        <5> QED
          BY <3>1, <3>2, <3>4, <5>1
      <4>2. left[c] # 0
        BY <2>17, <3>4
      <4> QED
        BY <2>1, <3>1, <3>2, <4>1, <4>2
    <3> QED
      BY <3>2, <3>3, <3>4
  <2>14. ASSUME NEW c \in P, NEW d \in P, w[c] > w[d]
         PROVE  a[c] >= a[d]
    <3>1. /\ share[c] \in Nat /\ left[c] \in 0..(U - 1) /\ total * w[c] = U * share[c] + left[c]
          /\ share[d] \in Nat /\ left[d] \in 0..(U - 1) /\ total * w[d] = U * share[d] + left[d]
          /\ U \in Nat \ {0}
      BY <2>1
    <3>2. /\ a[c] = share[c] + bit[c] /\ bit[c] \in {0, 1}
          /\ a[d] = share[d] + bit[d] /\ bit[d] \in {0, 1}
      BY <2>11
    <3>3. w[c] \in Nat /\ w[d] \in Nat
      BY <1>1
    <3>4. total * w[c] >= total * w[d] /\ (total # 0 => total * w[c] > total * w[d])
      BY <2>14, <3>3
    <3>5. share[c] >= share[d]
      <4> SUFFICES ASSUME share[c] + 1 <= share[d] PROVE FALSE
        BY <3>1
      <4>1. U * share[c] + U <= U * share[d]
        BY <3>1
      <4>2. U * share[c] \in Nat /\ U * share[d] \in Nat
        BY <3>1
      <4> QED
        BY <3>1, <3>4, <4>1, <4>2
    <3>6. CASE share[c] > share[d]
      BY <3>1, <3>2, <3>6
    <3>7. CASE share[c] = share[d]
      <4>1. left[c] >= left[d] /\ (left[c] = left[d] => total = 0)
        <5>1. U * share[c] = U * share[d] /\ U * share[c] \in Nat
          BY <3>1, <3>7
        <5> QED
          BY <3>1, <3>4, <5>1
      <4>2. CASE left[c] = left[d]
        <5>1. total = 0 /\ und = 0
          BY <2>1, <4>1, <4>2 DEF und
        <5>2. \A x \in P : bit[x] = 0
          <6>1. \A x \in P : Rank(x, P, before) \in Nat
            BY <1>1, <2>9, RanksAre
          <6> QED
            BY <5>1, <6>1 DEF bit
        <5> QED
          BY <3>1, <3>2, <3>7, <5>2
      <4>3. CASE left[c] > left[d]
        <5>1. <<c, d>> \in before
          BY <2>8, <4>3
        <5>2. Rank(c, P, before) < Rank(d, P, before)
          BY <1>1, <2>9, <5>1, RanksAre
        <5>3. Rank(c, P, before) \in Int /\ Rank(d, P, before) \in Int
          BY <1>1, <2>9, RanksAre
        <5>4. bit[d] = 1 => bit[c] = 1
          BY <2>1, <5>2, <5>3 DEF bit
        <5> QED
          BY <3>1, <3>2, <3>7, <5>4
      <4> QED
        BY <3>1, <4>1, <4>2, <4>3
    <3> QED
      BY <3>1, <3>5, <3>6, <3>7
  <2> QED
    BY <1>3, <1>6, <2>11, <2>12, <2>13, <2>14 DEF a, P, U
<1> QED
  BY <1>5, <1>6

\* Numbers in their order.
InOrderOf(S) == Sorted(S, <)

\* Each place holds the number with as many smaller ones.
LEMMA InOrderIs ==
  ASSUME NEW S
  PROVE  InOrderOf(S) = [k \in 1..Cardinality(S) |->
                           CHOOSE x \in S : Cardinality({y \in S : y < x}) = k - 1]
BY DEF InOrderOf, Sorted

\* Each comes once, smaller ones first.
LEMMA SortedNumbers ==
  ASSUME NEW S \in SUBSET Int, IsFiniteSet(S)
  PROVE  LET q == InOrderOf(S)
         IN  /\ DOMAIN q = 1..Cardinality(S) /\ Cardinality(S) \in Nat
             /\ ListsOnce(q, S)
             /\ \A i, j \in DOMAIN q : i < j => q[i] < q[j]
<1> DEFINE q == InOrderOf(S)
           before == {p \in S \X S : p[1] < p[2]}
<1>1. Orders(before, S)
  BY DEF Orders
<1>2. Cardinality(S) \in Nat
  BY FS_CardinalityType
<1>3. q = [k \in 1..Cardinality(S) |->
             CHOOSE x \in S : Cardinality({y \in S : y < x}) = k - 1]
  BY InOrderIs
<1> HIDE DEF q
<1>7. DOMAIN q = 1..Cardinality(S) /\ q = [k \in DOMAIN q |-> q[k]]
  <2> DEFINE E(k) == CHOOSE x \in S : Cardinality({y \in S : y < x}) = k - 1
             D == 1..Cardinality(S)
  <2>1. q = [k \in D |-> E(k)]
    BY <1>3
  <2> HIDE DEF E, D
  <2>2. DOMAIN q = D /\ q = [k \in DOMAIN q |-> q[k]]
    BY <2>1
  <2> QED
    BY <2>2 DEF D
<1>4. \A x \in S : Rank(x, S, before) = Cardinality({y \in S : y < x})
  <2> SUFFICES ASSUME NEW x \in S
               PROVE  Rank(x, S, before) = Cardinality({y \in S : y < x})
    OBVIOUS
  <2>1. {y \in S : <<y, x>> \in before} = {y \in S : y < x}
    OBVIOUS
  <2> QED
    BY <2>1 DEF Rank
<1>5. InRanks(q, S, before)
  <2> SUFFICES ASSUME NEW k \in DOMAIN q, \E x \in S : Rank(x, S, before) = k - 1
               PROVE  q[k] \in S /\ Rank(q[k], S, before) = k - 1
    BY <1>7 DEF InRanks
  <2>1. q[k] = CHOOSE x \in S : Cardinality({y \in S : y < x}) = k - 1
    BY <1>3
  <2>2. \E x \in S : Cardinality({y \in S : y < x}) = k - 1
    BY <1>4
  <2>3. q[k] \in S /\ Cardinality({y \in S : y < q[k]}) = k - 1
    BY <2>1, <2>2
  <2> QED
    BY <1>4, <2>3
<1> HIDE DEF before
<1>6. ListsOnce(q, S) /\ \A i, j \in DOMAIN q : i < j => <<q[i], q[j]>> \in before
  BY <1>1, <1>5, <1>7, RankedLists
<1> QED
  BY <1>2, <1>7, <1>6 DEF q, before

\* Places of a sequence are numbers, and finitely many.
LEMMA PlacesAreFinite ==
  ASSUME NEW n \in Nat, NEW S \in SUBSET (1..n)
  PROVE  S \in SUBSET Int /\ S \in SUBSET Nat /\ IsFiniteSet(S)
<1>1. IsFiniteSet(1..n)
  BY FS_Interval
<1> DEFINE D == 1..n
<1>2. S \in SUBSET D /\ IsFiniteSet(D)
  BY <1>1
<1> HIDE DEF D
<1>3. IsFiniteSet(S)
  BY <1>2, FS_Subset
<1> QED
  BY <1>3

\* The members of a sequence at some of its places, in order.
LEMMA PickedAt ==
  ASSUME NEW n \in Nat, NEW S \in SUBSET (1..n), NEW seq
  PROVE  LET q == InOrderOf(S)
             p == Pick(seq, q)
         IN  /\ Cardinality(S) \in Nat /\ DOMAIN p = 1..Cardinality(S)
             /\ p = [k \in 1..Cardinality(S) |-> p[k]]
             /\ ListsOnce(q, S)
             /\ \A k \in 1..Cardinality(S) : q[k] \in S /\ p[k] = seq[q[k]]
             /\ \A i \in S : \E k \in 1..Cardinality(S) : q[k] = i /\ p[k] = seq[i]
<1>1. S \in SUBSET Int /\ IsFiniteSet(S)
  BY PlacesAreFinite
<1> DEFINE q == InOrderOf(S)
           p == Pick(seq, q)
<1>2. DOMAIN q = 1..Cardinality(S) /\ Cardinality(S) \in Nat /\ ListsOnce(q, S)
  BY <1>1, SortedNumbers
<1> HIDE DEF q
<1>3. p = [k \in 1..Cardinality(S) |-> seq[q[k]]]
  BY <1>2 DEF Pick
<1>4. \A k \in 1..Cardinality(S) : q[k] \in S
  BY <1>2 DEF ListsOnce
<1>5. \A i \in S : \E k \in 1..Cardinality(S) : q[k] = i
  BY <1>2 DEF ListsOnce
<1> HIDE DEF p
<1>6. /\ Cardinality(S) \in Nat /\ DOMAIN p = 1..Cardinality(S)
      /\ p = [k \in 1..Cardinality(S) |-> p[k]]
      /\ ListsOnce(q, S)
      /\ \A k \in 1..Cardinality(S) : q[k] \in S /\ p[k] = seq[q[k]]
      /\ \A i \in S : \E k \in 1..Cardinality(S) : q[k] = i /\ p[k] = seq[i]
  BY <1>2, <1>3, <1>4, <1>5
<1> QED
  BY <1>6 DEF q, p

\* The sum over a part of a sequence.
LEMMA SumPicked ==
  ASSUME NEW n \in Nat, NEW S \in SUBSET (1..n), NEW g, \A i \in S : g[i] \in Nat,
         NEW f, \A k \in 1..Cardinality(S) : f[k] = g[InOrderOf(S)[k]]
  PROVE  SumFunctionOnSet(f, 1..Cardinality(S)) = SumFunctionOnSet(g, S)
<1>1. S \in SUBSET Int /\ IsFiniteSet(S)
  BY PlacesAreFinite
<1> DEFINE q == InOrderOf(S)
<1>2. DOMAIN q = 1..Cardinality(S) /\ ListsOnce(q, S)
  BY <1>1, SortedNumbers
<1>3. \A k \in DOMAIN q : f[k] = g[q[k]]
  BY <1>2
<1> HIDE DEF q
<1>4. SumFunctionOnSet(f, DOMAIN q) = SumFunctionOnSet(g, S)
  BY <1>1, <1>2, <1>3, SumListed
<1> QED
  BY <1>2, <1>4

\* What the members of a sequence weigh together.
Weigh(v, s) == SumFunctionOnSet([k \in DOMAIN s |-> v[s[k]]], DOMAIN s)

\* What two sequences weigh together is what each weighs.
LEMMA WeighTogether ==
  ASSUME NEW X, NEW v, \A x \in X : v[x] \in Nat, NEW s \in Seq(X), NEW t \in Seq(X)
  PROVE  Weigh(v, s \o t) = Weigh(v, s) + Weigh(v, t)
<1> DEFINE a == Len(s)
           b == Len(t)
           u == s \o t
           D == 1..(a + b)
           P == 1..a
           f == [k \in DOMAIN u |-> v[u[k]]]
           fs == [k \in DOMAIN s |-> v[s[k]]]
           ft == [k \in DOMAIN t |-> v[t[k]]]
           m == [k \in D \ P |-> k - a]
<1>1. /\ a \in Nat /\ b \in Nat /\ DOMAIN s = P /\ DOMAIN t = 1..b
      /\ DOMAIN u = D /\ u \in Seq(X)
      /\ \A k \in P : s[k] \in X /\ u[k] = s[k]
      /\ \A k \in 1..b : t[k] \in X
      /\ \A k \in D \ P : u[k] = t[k - a] /\ k - a \in 1..b
  OBVIOUS
<1>2. IsFiniteSet(D) /\ P \in SUBSET D /\ IsFiniteSet(1..b)
  <2>1. a + b \in Nat /\ P \in SUBSET D
    BY <1>1
  <2>2. IsFiniteSet(1..(a + b)) /\ IsFiniteSet(1..b)
    BY <1>1, <2>1, FS_Interval
  <2> QED
    BY <2>1, <2>2
<1>3. \A k \in D : f[k] \in Int
  BY <1>1
<1>4. \A k \in P : f[k] = fs[k]
  BY <1>1
<1>5. \A k \in D \ P : f[k] = ft[m[k]]
  BY <1>1
<1>6. /\ m \in [D \ P -> 1..b] /\ \A x, y \in D \ P : m[x] = m[y] => x = y
      /\ \A y \in 1..b : \E x \in D \ P : m[x] = y
  <2>1. m \in [D \ P -> 1..b] /\ \A x, y \in D \ P : m[x] = m[y] => x = y
    BY <1>1
  <2>2. ASSUME NEW y \in 1..b PROVE \E x \in D \ P : m[x] = y
    <3>1. y + a \in D \ P /\ (y + a) - a = y
      BY <1>1
    <3>2. m[y + a] = y
      BY <3>1
    <3> QED
      BY <3>1, <3>2
  <2> QED
    BY <2>1, <2>2
<1>7. \A y \in 1..b : ft[y] \in Nat
  BY <1>1
<1>8. Weigh(v, s) = SumFunctionOnSet(fs, P) /\ Weigh(v, t) = SumFunctionOnSet(ft, 1..b)
      /\ Weigh(v, u) = SumFunctionOnSet(f, D)
  BY <1>1 DEF Weigh
<1> DEFINE B == 1..b
           Q == D \ P
<1> HIDE DEF f, fs, ft, m, D, P, B, Q, u
<1>9. SumFunctionOnSet(f, D) = SumFunctionOnSet(f, P) + SumFunctionOnSet(f, D \ P)
  BY <1>2, <1>3, SumOfBoth
<1>10. SumFunctionOnSet(f, P) = SumFunctionOnSet(fs, P)
  BY <1>2, <1>4, FS_Subset, SumSame
<1>11. SumFunctionOnSet(f, Q) = SumFunctionOnSet(ft, B)
  <2>1. IsFiniteSet(Q) /\ IsFiniteSet(B) /\ \A y \in B : ft[y] \in Nat
    BY <1>2, <1>7, FS_Difference DEF B, Q
  <2>2. /\ m \in [Q -> B] /\ \A x, y \in Q : m[x] = m[y] => x = y
        /\ \A y \in B : \E x \in Q : m[x] = y
        /\ \A k \in Q : f[k] = ft[m[k]]
    BY <1>5, <1>6 DEF B, Q
  <2> QED
    BY <2>1, <2>2, SumThrough
<1> QED
  BY <1>8, <1>9, <1>10, <1>11 DEF B, Q, u

\* A sequence of sequences, joined up to each place.
JoinedUpTo(f, n, seqs) ==
  f = [i \in 1..n |-> IF i = 1 THEN seqs[i] ELSE f[i - 1] \o seqs[i]]

\* Joining sequences is joining them one after the other.
LEMMA FlattenIs ==
  ASSUME NEW n \in Nat \ {0}, NEW X, NEW seqs \in [1..n -> Seq(X)]
  PROVE  \E f : JoinedUpTo(f, n, seqs) /\ FlattenSeq(seqs) = f[n]
<1> DEFINE S == 1..n
           State == Seq(X)
           step == [p \in State \X S |-> IF p[2] = 1 THEN seqs[p[2]] ELSE p[1] \o seqs[p[2]]]
           base == <<>>
           pick == Latest(n)
<1>1. IsFiniteSet(S) /\ Picks(pick, S)
  <2>1. IsFiniteSet(S)
    BY FS_Interval
  <2> QED
    BY <2>1, LatestPicks
<1>2. step \in [State \X S -> State] /\ base \in State
  OBVIOUS
<1>3. PICK h : UnfoldsIn(State, step, base, pick, S, h)
  <2> HIDE DEF State, step, base, pick, S
  <2> QED
    BY <1>1, <1>2, UnfoldsInto
<1>4. /\ \A i \in S : h[1..i] = step[<<h[1..(i - 1)], i>>]
      /\ \A s \in SUBSET S : h[s] \in State
  <2>1. Unfolds(step, base, Latest(n), 1..n, h)
    BY <1>3 DEF UnfoldsIn
  <2> HIDE DEF step, base
  <2> QED
    BY <1>3, <2>1, UnfoldsInSteps DEF UnfoldsIn
<1> DEFINE f0 == [i \in S |-> h[1..i]]
<1>5. JoinedUpTo(f0, n, seqs)
  <2> SUFFICES ASSUME NEW i \in S
               PROVE  f0[i] = IF i = 1 THEN seqs[i] ELSE f0[i - 1] \o seqs[i]
    BY DEF JoinedUpTo
  <2>1. 1..(i - 1) \in SUBSET S
    OBVIOUS
  <2>2. h[1..(i - 1)] \in State
    BY <1>4, <2>1
  <2>3. f0[i] = step[<<h[1..(i - 1)], i>>]
    BY <1>4
  <2>4. step[<<h[1..(i - 1)], i>>] = IF i = 1 THEN seqs[i] ELSE h[1..(i - 1)] \o seqs[i]
    <3> DEFINE g == h[1..(i - 1)]
    <3>1. g \in State
      BY <2>2
    <3> HIDE DEF g
    <3>2. <<g, i>> \in State \X S
      BY <3>1
    <3>3. step[<<g, i>>] = IF i = 1 THEN seqs[i] ELSE g \o seqs[i]
      BY <3>2
    <3> QED
      BY <3>3 DEF g
  <2>5. CASE i = 1
    BY <2>3, <2>4, <2>5
  <2>6. CASE i # 1
    <3>1. i - 1 \in S
      BY <2>6
    <3>2. f0[i - 1] = h[1..(i - 1)]
      BY <3>1
    <3> QED
      BY <2>3, <2>4, <2>6, <3>2
  <2> QED
    BY <2>5, <2>6
<1> DEFINE g == CHOOSE f : JoinedUpTo(f, n, seqs)
<1>6. JoinedUpTo(g, n, seqs)
  <2> HIDE DEF f0
  <2> QED
    BY <1>5
<1>7. Len(seqs) = n
  <2>1. seqs \in Seq(Seq(X)) /\ DOMAIN seqs = 1..n
    OBVIOUS
  <2> QED
    BY <2>1
<1>8. FlattenSeq(seqs) = g[n]
  BY <1>7 DEF FlattenSeq, JoinedUpTo
<1> QED
  BY <1>6, <1>8

\* Nothing joined is nothing.
LEMMA FlattenOfNothing ==
  ASSUME NEW seqs, seqs = <<>> PROVE FlattenSeq(seqs) = <<>>
BY DEF FlattenSeq

\* So many sequences over X.
Sequences(n, X) == [1..n -> Seq(X)]

\* What was joined is a sequence, its weight the sum of the weights.
LEMMA FlattenWeighs ==
  ASSUME NEW n \in Nat, NEW X, NEW seqs \in Sequences(n, X),
         NEW v, \A x \in X : v[x] \in Nat,
         NEW w, \A i \in 1..n : w[i] = Weigh(v, seqs[i])
  PROVE  /\ FlattenSeq(seqs) \in Seq(X)
         /\ Weigh(v, FlattenSeq(seqs)) = SumFunctionOnSet(w, 1..n)
<1>5. seqs \in [1..n -> Seq(X)]
  BY DEF Sequences
<1>1. \A s \in Seq(X) : Weigh(v, s) \in Nat
  <2> SUFFICES ASSUME NEW s \in Seq(X) PROVE Weigh(v, s) \in Nat
    OBVIOUS
  <2> DEFINE D == DOMAIN s
             f == [k \in D |-> v[s[k]]]
  <2>1. IsFiniteSet(D)
    <3>1. D = 1..Len(s) /\ Len(s) \in Nat
      OBVIOUS
    <3> QED
      BY <3>1, FS_Interval
  <2>2. \A k \in D : f[k] \in Nat
    OBVIOUS
  <2>3. Weigh(v, s) = SumFunctionOnSet(f, D)
    BY DEF Weigh
  <2> HIDE DEF f, D
  <2> QED
    BY <2>1, <2>2, <2>3, SumNat
<1>4. \A x \in X : v[x] \in Nat
  OBVIOUS
<1>2. CASE n = 0
  <2>1. seqs = <<>> /\ 1..n = {}
    BY <1>2, <1>5
  <2>2. FlattenSeq(seqs) = <<>> /\ <<>> \in Seq(X)
    BY <2>1, FlattenOfNothing
  <2>3. Weigh(v, <<>>) = 0
    <3>1. DOMAIN <<>> = {}
      OBVIOUS
    <3> QED
      BY <3>1, SumOfNone DEF Weigh
  <2> QED
    BY <2>1, <2>2, <2>3, SumOfNone
<1>3. CASE n # 0
  <2>1. PICK f : JoinedUpTo(f, n, seqs) /\ FlattenSeq(seqs) = f[n]
    BY <1>3, <1>5, FlattenIs
  <2>2. \A i \in 1..n : /\ i = 1 => f[i] = seqs[i]
                        /\ i # 1 => f[i] = f[i - 1] \o seqs[i]
    BY <2>1 DEF JoinedUpTo
  <2> DEFINE sum(i) == SumFunctionOnSet(w, 1..i)
             H == {i \in 0..n : i = 0 \/ (f[i] \in Seq(X) /\ Weigh(v, f[i]) = sum(i))}
  <2>3. ASSUME NEW i \in 1..n
        PROVE  sum(i) = w[i] + sum(i - 1)
    <3> HIDE DEF H, sum
    <3> DEFINE D == 1..n
               s == 1..(i - 1)
    <3>1. IsFiniteSet(D) /\ \A x \in D : w[x] \in Int
      <4>1. IsFiniteSet(1..n)
        BY FS_Interval
      <4>2. \A x \in 1..n : w[x] \in Int
        BY <1>1, <1>5
      <4> QED
        BY <4>1, <4>2
    <3>2. s \in SUBSET D /\ i \in D \ s
      OBVIOUS
    <3>4. s \cup {i} = 1..i
      OBVIOUS
    <3> HIDE DEF D, s
    <3>3. SumFunctionOnSet(w, s \cup {i}) = w[i] + SumFunctionOnSet(w, s)
      <4>1. \A c \in D \ s : SumFunctionOnSet(w, s \cup {c}) = w[c] + SumFunctionOnSet(w, s)
        BY <3>1, <3>2, SumAdding, ZenonT(30)
      <4> QED
        BY <3>2, <4>1
    <3> QED
      BY <3>3, <3>4 DEF s, sum
  <2>4. ASSUME NEW i \in 1..n, i - 1 \in H PROVE i \in H
    <3>1. seqs[i] \in Seq(X) /\ w[i] = Weigh(v, seqs[i]) /\ w[i] \in Nat
      BY <1>1, <1>5
    <3>2. CASE i = 1
      <4>1. sum(i - 1) = 0
        <5>1. 1..(i - 1) = {}
          BY <3>2
        <5> QED
          BY <5>1, SumOfNone
      <4>2. f[i] = seqs[i]
        BY <2>2, <3>2
      <4>3. sum(i) = w[i]
        <5> HIDE DEF sum, H
        <5>1. sum(i) = w[i] + sum(i - 1)
          BY <2>3
        <5> QED
          BY <3>1, <4>1, <5>1
      <4> QED
        BY <3>1, <4>2, <4>3
    <3>3. CASE i # 1
      <4>1. f[i - 1] \in Seq(X) /\ Weigh(v, f[i - 1]) = sum(i - 1)
        BY <2>4, <3>3
      <4>2. f[i] = f[i - 1] \o seqs[i]
        BY <2>2, <3>3
      <4>3. f[i] \in Seq(X)
        BY <3>1, <4>1, <4>2
      <4>4. Weigh(v, f[i]) = Weigh(v, f[i - 1]) + Weigh(v, seqs[i])
        <5> DEFINE a == f[i - 1]
                   b == seqs[i]
        <5>1. a \in Seq(X) /\ b \in Seq(X)
          BY <3>1, <4>1
        <5> HIDE DEF a, b, H, sum
        <5>2. Weigh(v, a \o b) = Weigh(v, a) + Weigh(v, b)
          BY ONLY <1>4, <5>1, WeighTogether
        <5> QED
          BY <4>2, <5>2 DEF a, b
      <4>5. Weigh(v, f[i - 1]) \in Nat
        BY <1>1, <4>1
      <4>6. Weigh(v, f[i]) = sum(i)
        BY <2>3, <3>1, <4>1, <4>4, <4>5
      <4> QED
        BY <4>3, <4>6
    <3> QED
      BY <3>2, <3>3
  <2>5. 0 \in H
    OBVIOUS
  <2>6. n \in H
    <3> HIDE DEF H
    <3>1. \A i \in 0..n : i \in H
      BY <2>4, <2>5, StepByStep
    <3> QED
      BY <3>1
  <2> QED
    BY <1>3, <2>1, <2>6
<1> QED
  BY <1>2, <1>3

\* Added up by child, nothing is lost.
LEMMA SumByChildIs ==
  ASSUME NEW costs, IsFiniteSet(DOMAIN costs), \A k \in DOMAIN costs : Weights(costs[k]),
         NEW tot, \A k \in DOMAIN costs : tot[k] = SumFunction(costs[k])
  PROVE  /\ Weights(SumByChild(costs))
         /\ SumFunction(SumByChild(costs)) = SumFunctionOnSet(tot, DOMAIN costs)
<1> DEFINE K == DOMAIN costs
           C == UNION {DOMAIN costs[k] : k \in K}
           R == SumByChild(costs)
           at(c) == {k \in K : c \in DOMAIN costs[k]}
           m == [k \in K |-> [c \in C |-> IF c \in DOMAIN costs[k] THEN costs[k][c] ELSE 0]]
           part(c) == [k \in at(c) |-> costs[k][c]]
<1>1. R = [c \in C |-> SumFunction(part(c))]
  BY DEF SumByChild
<1>2. /\ \A k \in K : IsFiniteSet(DOMAIN costs[k]) /\ DOMAIN costs[k] \in SUBSET C
      /\ \A k \in K : \A c \in DOMAIN costs[k] : c \in Int /\ costs[k][c] \in Nat
  BY DEF Weights
<1>3. IsFiniteSet(C)
  <2> DEFINE doms == [k \in K |-> DOMAIN costs[k]]
             T == {doms[k] : k \in K}
  <2>1. T = {DOMAIN costs[k] : k \in K}
    OBVIOUS
  <2>2. IsFiniteSet(T)
    <3> HIDE DEF doms
    <3> QED
      BY ImageIsFinite
  <2>3. \A U \in T : IsFiniteSet(U)
    BY <1>2
  <2>4. IsFiniteSet(UNION T)
    <3> HIDE DEF T
    <3> QED
      BY <2>2, <2>3, FS_UNION
  <2> QED
    BY <2>1, <2>4
<1>4. IsFiniteSet(K)
  OBVIOUS
<1>5. /\ \A k \in K : \A c \in C : m[k][c] \in Nat
      /\ \A k \in K : \A c \in C : c \notin DOMAIN costs[k] => m[k][c] = 0
      /\ \A k \in K : \A c \in DOMAIN costs[k] : m[k][c] = costs[k][c]
  BY <1>2
<1> HIDE DEF m, K, C, R
<1>6. \A k \in K : tot[k] = SumFunctionOnSet(m[k], C)
  <2> SUFFICES ASSUME NEW k \in K PROVE tot[k] = SumFunctionOnSet(m[k], C)
    OBVIOUS
  <2> DEFINE D == DOMAIN costs[k]
             r == m[k]
             g == costs[k]
  <2>1. D \in SUBSET C /\ \A c \in C : r[c] \in Int
    BY <1>2, <1>5
  <2>2. \A c \in C \ D : r[c] = 0
    BY <1>5
  <2>3. IsFiniteSet(D) /\ \A c \in D : r[c] = g[c]
    BY <1>2, <1>5
  <2>6. tot[k] = SumFunctionOnSet(g, D)
    BY DEF SumFunction, K
  <2> HIDE DEF D, r, g
  <2>4. SumFunctionOnSet(r, C) = SumFunctionOnSet(r, D)
    BY <1>3, <2>1, <2>2, SumOfTheRest
  <2>5. SumFunctionOnSet(r, D) = SumFunctionOnSet(g, D)
    BY <2>3, SumSame
  <2> QED
    BY <2>4, <2>5, <2>6 DEF r
<1>7. \A c \in C : R[c] = SumFunctionOnSet(Column(m, K, c), K) /\ R[c] \in Nat
  <2> SUFFICES ASSUME NEW c \in C
               PROVE  R[c] = SumFunctionOnSet(Column(m, K, c), K) /\ R[c] \in Nat
    OBVIOUS
  <2> DEFINE col == Column(m, K, c)
             p == part(c)
             A == at(c)
  <2>1. \A k \in K : col[k] \in Nat
    BY <1>5 DEF Column
  <2>2. A \in SUBSET K /\ \A k \in K \ A : col[k] = 0
    BY <1>5 DEF Column
  <2>3. \A k \in A : col[k] = p[k]
    BY <1>5 DEF Column
  <2>4. R[c] = SumFunctionOnSet(p, A)
    BY <1>1 DEF SumFunction
  <2>5. IsFiniteSet(A)
    BY <1>4, <2>2, FS_Subset
  <2> HIDE DEF col, p, A
  <2>6. SumFunctionOnSet(col, K) = SumFunctionOnSet(col, A)
    <3>1. \A k \in K : col[k] \in Int
      BY <2>1
    <3> QED
      BY <1>4, <2>2, <3>1, SumOfTheRest
  <2>7. SumFunctionOnSet(col, A) = SumFunctionOnSet(p, A)
    BY <2>3, <2>5, SumSame
  <2>8. SumFunctionOnSet(col, K) \in Nat
    BY <1>4, <2>1, SumNat
  <2> QED
    BY <2>4, <2>6, <2>7, <2>8 DEF col
<1>8. SumFunctionOnSet(tot, K) = SumFunctionOnSet(R, C)
  <2>1. \A k \in K : \A c \in C : m[k][c] \in Int
    BY <1>5
  <2>2. \A c \in C : R[c] = SumFunctionOnSet(Column(m, K, c), K)
    BY <1>7
  <2> QED
    BY <1>3, <1>4, <1>6, <2>1, <2>2, SumsSwap
<1>9. DOMAIN R = C
  BY <1>1
<1>10. Weights(R)
  <2>1. \A c \in C : c \in Int
    BY <1>2 DEF C
  <2> QED
    BY <1>3, <1>7, <1>9, <2>1 DEF Weights
<1> QED
  BY <1>8, <1>9, <1>10 DEF SumFunction, K, R

\* The sum of weights is a number; what some need it is not zero.
LEMMA WeightsAddUp ==
  ASSUME NEW w, Weights(w)
  PROVE  /\ SumFunction(w) \in Nat
         /\ SumFunction(w) = SumFunctionOnSet(w, DOMAIN w)
<1> DEFINE D == DOMAIN w
<1>1. IsFiniteSet(D) /\ \A c \in D : w[c] \in Nat
  BY DEF Weights
<1> HIDE DEF D
<1>2. SumFunctionOnSet(w, D) \in Nat
  BY <1>1, SumNat
<1> QED
  BY <1>2 DEF D, SumFunction

\* Shared out among weights that are not all zero, all is paid.
LEMMA AllIsPaid ==
  ASSUME NEW total \in Nat, NEW w, Weights(w)
  PROVE  /\ Weights(AllocateCents(total, w))
         /\ SumFunction(w) # 0 => SumFunction(AllocateCents(total, w)) = total
         /\ DOMAIN AllocateCents(total, w) \in SUBSET DOMAIN w
<1> DEFINE a == AllocateCents(total, w)
           P == Paying(w)
<1>1. /\ DOMAIN a = P /\ \A c \in DOMAIN a : a[c] \in Nat
      /\ SumFunction(a) = (IF SumFunction(w) = 0 THEN 0 ELSE total)
  BY SharesAreFair
<1>2. P \in SUBSET DOMAIN w /\ IsFiniteSet(DOMAIN w) /\ \A c \in DOMAIN w : c \in Int
  BY DEF Weights, Paying
<1> HIDE DEF P, a
<1>3. IsFiniteSet(P)
  BY <1>2, FS_Subset
<1>4. Weights(a)
  BY <1>1, <1>2, <1>3 DEF Weights
<1> QED
  BY <1>1, <1>2, <1>4 DEF a

\* A part of weights are weights.
LEMMA RestrictedWeights ==
  ASSUME NEW shares, NEW S \in SUBSET DOMAIN shares, IsFiniteSet(DOMAIN shares),
         \A i \in DOMAIN shares : Weights(shares[i]),
         NEW tot, \A i \in DOMAIN shares : tot[i] = SumFunction(shares[i])
  PROVE  /\ Weights(SumByChild(Restrict(shares, S)))
         /\ SumFunction(SumByChild(Restrict(shares, S))) = SumFunctionOnSet(tot, S)
<1> DEFINE r == Restrict(shares, S)
<1>1. DOMAIN r = S /\ \A i \in S : r[i] = shares[i]
  BY DEF Restrict
<1>2. IsFiniteSet(S)
  BY FS_Subset
<1> HIDE DEF r
<1>3. /\ IsFiniteSet(DOMAIN r) /\ \A k \in DOMAIN r : Weights(r[k])
      /\ \A k \in DOMAIN r : tot[k] = SumFunction(r[k])
  BY <1>1, <1>2
<1>4. /\ Weights(SumByChild(r))
      /\ SumFunction(SumByChild(r)) = SumFunctionOnSet(tot, DOMAIN r)
  BY <1>3, SumByChildIs
<1> QED
  BY <1>1, <1>4 DEF r

\* Needs with the packs selected for them, at stores that may be used.
IsAssignments(bought, n, stores, config) ==
  /\ bought = [i \in 1..n |-> bought[i]]
  /\ \A i \in 1..n :
       /\ IsSelection(bought[i].sel)
       /\ bought[i].sel.store \in DOMAIN stores
       /\ StoreSupportsFulfillment(stores[bought[i].sel.store], config)
       /\ Weights(bought[i].need.allocatedTo) /\ SumFunction(bought[i].need.allocatedTo) # 0

\* The stores of some assignments, those of one store, and what each costs.
UsedBy(bought) == {bought[i].sel.store : i \in DOMAIN bought}
ServedBy(bought, s) == {i \in DOMAIN bought : bought[i].sel.store = s}
CostOf(bought) == [i \in DOMAIN bought |-> bought[i].sel.cost]

\* A permitted method has a fee.
LEMMA FulfillmentIs ==
  ASSUME NEW store, store.pickupFee \in Nat, store.deliveryFee \in Nat,
         NEW config, Wants(config), StoreSupportsFulfillment(store, config), NEW subtotal
  PROVE  ChooseFulfillment(store, subtotal, config).fee \in Nat
<1> DEFINE All == {[method |-> "pickup", late |-> 0,
                    fee |-> FeeForMinimum(subtotal, store.pickupFee, store.pickupMin)],
                   [method |-> "delivery", late |-> 1,
                    fee |-> FeeForMinimum(subtotal, store.deliveryFee, store.deliveryMin)]}
           C == {c \in All :
                  /\ config.preference \in {c.method, "either"}
                  /\ c.method = "pickup" => PickupTripIsWithinRadius(store, config.radius)}
           key == [c \in C |-> <<c.fee, c.late>>]
<1>1. ChooseFulfillment(store, subtotal, config) = FirstOffer(C)
  BY DEF ChooseFulfillment
<1>2. \A c \in All : c.fee \in Nat /\ c.late \in Int
  BY DEF FeeForMinimum
<1>3. C # {}
  <2> DEFINE x == [method |-> "pickup", late |-> 0,
                   fee |-> FeeForMinimum(subtotal, store.pickupFee, store.pickupMin)]
             y == [method |-> "delivery", late |-> 1,
                   fee |-> FeeForMinimum(subtotal, store.deliveryFee, store.deliveryMin)]
  <2>1. x \in All /\ y \in All /\ x.method = "pickup" /\ y.method = "delivery"
    OBVIOUS
  <2> HIDE DEF x, y, All
  <2>2. CASE config.preference = "pickup"
    <3>1. PickupTripIsWithinRadius(store, config.radius)
      BY <2>2 DEF StoreSupportsFulfillment
    <3>2. x \in C
      BY <2>1, <2>2, <3>1
    <3> QED
      BY <3>2
  <2>3. CASE config.preference # "pickup"
    <3>1. y \in C
      BY <2>1, <2>3 DEF Wants
    <3> QED
      BY <3>1
  <2> QED
    BY <2>2, <2>3
<1>4. IsFiniteSet(C) /\ C \in SUBSET All
  <2>1. IsFiniteSet(All)
    <3> DEFINE x == [method |-> "pickup", late |-> 0,
                     fee |-> FeeForMinimum(subtotal, store.pickupFee, store.pickupMin)]
               y == [method |-> "delivery", late |-> 1,
                     fee |-> FeeForMinimum(subtotal, store.deliveryFee, store.deliveryMin)]
    <3>1. All = {x} \cup {y}
      OBVIOUS
    <3> HIDE DEF x, y, All
    <3>2. IsFiniteSet({x}) /\ IsFiniteSet({y})
      BY FS_Singleton
    <3> QED
      BY <3>1, <3>2, FS_Union
  <2> QED
    BY <2>1, FS_Subset
<1>5. \A c \in C : key[c] \in Seq(Int)
  BY <1>2, <1>4
<1>6. FirstOffer(C) = CHOOSE x \in C : \A y \in C \ {x} :
                        ~Less(<<y.fee, y.late>>, <<x.fee, x.late>>)
  BY <1>3 DEF FirstOffer, Least
<1>7. \A c \in C : key[c] = <<c.fee, c.late>>
  OBVIOUS
<1> HIDE DEF C, key, All
<1>8. \E x \in C : \A y \in C \ {x} : ~Less(key[y], key[x])
  BY <1>3, <1>4, <1>5, LeastExists
<1>9. \E x \in C : \A y \in C \ {x} : ~Less(<<y.fee, y.late>>, <<x.fee, x.late>>)
  BY <1>7, <1>8
<1>10. FirstOffer(C) \in C
  BY <1>6, <1>9
<1> QED
  BY <1>1, <1>2, <1>4, <1>10

\* A sequence has finitely many places.
LEMMA PlacesOf ==
  ASSUME NEW T, NEW s \in Seq(T)
  PROVE  /\ DOMAIN s = 1..Len(s) /\ Len(s) \in Nat /\ IsFiniteSet(DOMAIN s)
         /\ \A k \in DOMAIN s : s[k] \in T
<1>1. DOMAIN s = 1..Len(s) /\ Len(s) \in Nat /\ \A k \in DOMAIN s : s[k] \in T
  OBVIOUS
<1>2. IsFiniteSet(1..Len(s))
  BY <1>1, FS_Interval
<1> QED
  BY <1>1, <1>2

\* The lines of a selection, and what they cost together.
LEMMA SelectionIs ==
  ASSUME NEW sel, IsSelection(sel)
  PROVE  /\ sel.cost \in Nat \ {0}
         /\ DOMAIN sel.lines = 1..Len(sel.lines) /\ Len(sel.lines) \in Nat
         /\ IsFiniteSet(DOMAIN sel.lines)
         /\ \A j \in DOMAIN sel.lines : sel.lines[j].cost \in Nat /\ sel.lines[j].sku \in Int
         /\ SumFunctionOnSet([j \in DOMAIN sel.lines |-> sel.lines[j].cost], DOMAIN sel.lines)
               = sel.cost
<1> DEFINE ls == sel.lines
<1>1. ls \in Seq(SelectedPacks)
  BY DEF IsSelection
<1> HIDE DEF ls
<1>2. /\ DOMAIN ls = 1..Len(ls) /\ Len(ls) \in Nat /\ IsFiniteSet(DOMAIN ls)
      /\ \A k \in DOMAIN ls : ls[k] \in SelectedPacks
  BY <1>1, PlacesOf
<1>3. \A k \in DOMAIN ls : ls[k].cost \in Nat /\ ls[k].sku \in Int
  BY <1>2 DEF SelectedPacks
<1> QED
  BY <1>2, <1>3 DEF IsSelection, ls

\* The lines of a cart are those of the assignments, one after the other.
LEMMA LinesParts ==
  ASSUME NEW n \in Nat, NEW bought, NEW stores, NEW config, IsAssignments(bought, n, stores, config)
  PROVE  \E X : \E seqs \in Sequences(n, X) :
           /\ CartLines(bought) = FlattenSeq(seqs)
           /\ \A l \in X : /\ l.store \in UsedBy(bought) /\ l.cost \in Nat /\ l.sku \in Int
                           /\ l.substitution \in {"minor", "none"}
           /\ \A i \in 1..n : /\ DOMAIN seqs[i] = DOMAIN bought[i].sel.lines
                              /\ IsFiniteSet(DOMAIN seqs[i])
                              /\ \A j \in DOMAIN seqs[i] :
                                   /\ seqs[i][j].store = bought[i].sel.store
                                   /\ seqs[i][j].cost = bought[i].sel.lines[j].cost
                                   /\ seqs[i][j].sku = bought[i].sel.lines[j].sku
<1> DEFINE D == 1..n
           part(i) == LinesFrom(bought[i], i,
                                LineUnitAllocations(bought[i].need.allocatedTo, bought[i].sel.lines))
           seqs == [i \in D |-> part(i)]
           X == UNION {{seqs[i][j] : j \in DOMAIN seqs[i]} : i \in D}
<1>1. DOMAIN bought = D
  BY DEF IsAssignments
<1>2. CartLines(bought) = FlattenSeq(seqs)
  BY <1>1 DEF CartLines
<1>3. ASSUME NEW i \in D
      PROVE  /\ DOMAIN seqs[i] = DOMAIN bought[i].sel.lines
             /\ IsFiniteSet(DOMAIN seqs[i])
             /\ \E k \in Nat : DOMAIN seqs[i] = 1..k /\ seqs[i] = [j \in 1..k |-> seqs[i][j]]
             /\ \A j \in DOMAIN seqs[i] :
                  /\ seqs[i][j].store = bought[i].sel.store
                  /\ seqs[i][j].cost = bought[i].sel.lines[j].cost
                  /\ seqs[i][j].sku = bought[i].sel.lines[j].sku
                  /\ seqs[i][j].cost \in Nat /\ seqs[i][j].sku \in Int
                  /\ seqs[i][j].substitution \in {"minor", "none"}
  <2> DEFINE sel == bought[i].sel
             ls == sel.lines
             given == LineUnitAllocations(bought[i].need.allocatedTo, ls)
             t == seqs[i]
  <2>1. IsSelection(sel)
    BY DEF IsAssignments
  <2>2. t = [j \in DOMAIN ls |-> CartLine(bought[i], i, j, given[j], SumFunction(given[j]))]
    BY DEF LinesFrom
  <2>3. /\ DOMAIN ls = 1..Len(ls) /\ Len(ls) \in Nat /\ IsFiniteSet(DOMAIN ls)
        /\ \A j \in DOMAIN ls : ls[j].cost \in Nat /\ ls[j].sku \in Int
    <3> HIDE DEF sel
    <3> QED
      BY <2>1, SelectionIs
  <2>6. ASSUME NEW j \in DOMAIN ls
        PROVE  /\ t[j].store = sel.store
               /\ t[j].cost = ls[j].cost
               /\ t[j].sku = ls[j].sku
               /\ t[j].substitution \in {"minor", "none"}
    <3> DEFINE g == given[j]
               need == SumFunction(g)
    <3>1. t[j] = CartLine(bought[i], i, j, g, need)
      <4> HIDE DEF t, given
      <4> QED
        BY <2>2
    <3> HIDE DEF g, need, t
    <3> QED
      BY <3>1 DEF CartLine
  <2> HIDE DEF given, t, ls, seqs
  <2>4. DOMAIN t = DOMAIN ls
    BY <2>2
  <2>5. t = [j \in DOMAIN ls |-> t[j]]
    <3> DEFINE L(j) == CartLine(bought[i], i, j, given[j], SumFunction(given[j]))
               J == DOMAIN ls
    <3>1. t = [j \in J |-> L(j)]
      BY <2>2
    <3> HIDE DEF L, J
    <3>2. t = [j \in J |-> t[j]]
      BY <3>1
    <3> QED
      BY <3>2 DEF J
  <2>7. \E k \in Nat : DOMAIN t = 1..k /\ t = [j \in 1..k |-> t[j]]
    BY <2>3, <2>4, <2>5
  <2>8. /\ DOMAIN t = DOMAIN ls /\ IsFiniteSet(DOMAIN t)
        /\ \A j \in DOMAIN t :
             /\ t[j].store = sel.store
             /\ t[j].cost = ls[j].cost
             /\ t[j].sku = ls[j].sku
             /\ t[j].cost \in Nat /\ t[j].sku \in Int
             /\ t[j].substitution \in {"minor", "none"}
    BY <2>3, <2>4, <2>6
  <2> QED
    BY <2>7, <2>8 DEF t, ls
<1> HIDE DEF seqs
<1>4. \A i \in D : \A j \in DOMAIN seqs[i] : seqs[i][j] \in X
  OBVIOUS
<1>5. \A l \in X : \E i \in D : \E j \in DOMAIN seqs[i] : l = seqs[i][j]
  OBVIOUS
<1>6. \A i \in D : bought[i].sel.store \in UsedBy(bought)
  BY <1>1 DEF UsedBy
<1> HIDE DEF X
<1>7. \A l \in X : /\ l.store \in UsedBy(bought) /\ l.cost \in Nat /\ l.sku \in Int
                   /\ l.substitution \in {"minor", "none"}
  <2> HIDE DEF seqs, D
  <2> SUFFICES ASSUME NEW l \in X
               PROVE  /\ l.store \in UsedBy(bought) /\ l.cost \in Nat /\ l.sku \in Int
                      /\ l.substitution \in {"minor", "none"}
    OBVIOUS
  <2>1. PICK i \in D : \E j \in DOMAIN seqs[i] : l = seqs[i][j]
    BY <1>5
  <2>2. PICK j \in DOMAIN seqs[i] : l = seqs[i][j]
    BY <2>1
  <2> QED
    BY <1>3, <1>6, <2>2
<1>8. seqs \in [D -> Seq(X)]
  <2>1. \A i \in D : seqs[i] \in Seq(X)
    <3> SUFFICES ASSUME NEW i \in D PROVE seqs[i] \in Seq(X)
      OBVIOUS
    <3>1. PICK k \in Nat : DOMAIN seqs[i] = 1..k /\ seqs[i] = [j \in 1..k |-> seqs[i][j]]
      BY <1>3
    <3>2. \A j \in 1..k : seqs[i][j] \in X
      BY <1>4, <3>1
    <3> DEFINE t == seqs[i]
    <3>3. t = [j \in 1..k |-> t[j]] /\ \A j \in 1..k : t[j] \in X
      BY <3>1, <3>2
    <3> HIDE DEF t
    <3>4. t \in Seq(X)
      BY <3>3
    <3> QED
      BY <3>4 DEF t
  <2>2. seqs = [i \in D |-> seqs[i]]
    <3> HIDE DEF part
    <3> QED
      BY DEF seqs
  <2> QED
    BY <2>1, <2>2
<1> HIDE DEF part
<1>9. \A i \in D : /\ DOMAIN seqs[i] = DOMAIN bought[i].sel.lines
                   /\ IsFiniteSet(DOMAIN seqs[i])
                   /\ \A j \in DOMAIN seqs[i] :
                        /\ seqs[i][j].store = bought[i].sel.store
                        /\ seqs[i][j].cost = bought[i].sel.lines[j].cost
                        /\ seqs[i][j].sku = bought[i].sel.lines[j].sku
  BY <1>3
<1> QED
  BY <1>2, <1>7, <1>8, <1>9 DEF Sequences

\* The lines of the assignments, and what those of a store cost.
LEMMA LinesAre ==
  ASSUME NEW n \in Nat, NEW bought, NEW stores, NEW config, IsAssignments(bought, n, stores, config)
  PROVE  \E X : /\ CartLines(bought) \in Seq(X)
                /\ \A l \in X : /\ l.store \in UsedBy(bought) /\ l.cost \in Nat /\ l.sku \in Int
                                /\ l.substitution \in {"minor", "none"}
                /\ \A s : Weigh([l \in X |-> IF l.store = s THEN l.cost ELSE 0], CartLines(bought))
                            = SumFunctionOnSet(CostOf(bought), ServedBy(bought, s))
<1> DEFINE D == 1..n
<1>1. DOMAIN bought = D
  BY DEF IsAssignments
<1>2. PICK X : \E seqs \in Sequences(n, X) :
           /\ CartLines(bought) = FlattenSeq(seqs)
           /\ \A l \in X : /\ l.store \in UsedBy(bought) /\ l.cost \in Nat /\ l.sku \in Int
                           /\ l.substitution \in {"minor", "none"}
           /\ \A i \in 1..n : /\ DOMAIN seqs[i] = DOMAIN bought[i].sel.lines
                              /\ IsFiniteSet(DOMAIN seqs[i])
                              /\ \A j \in DOMAIN seqs[i] :
                                   /\ seqs[i][j].store = bought[i].sel.store
                                   /\ seqs[i][j].cost = bought[i].sel.lines[j].cost
                                   /\ seqs[i][j].sku = bought[i].sel.lines[j].sku
  BY LinesParts
<1>3. PICK seqs \in Sequences(n, X) :
           /\ CartLines(bought) = FlattenSeq(seqs)
           /\ \A l \in X : /\ l.store \in UsedBy(bought) /\ l.cost \in Nat /\ l.sku \in Int
                           /\ l.substitution \in {"minor", "none"}
           /\ \A i \in 1..n : /\ DOMAIN seqs[i] = DOMAIN bought[i].sel.lines
                              /\ IsFiniteSet(DOMAIN seqs[i])
                              /\ \A j \in DOMAIN seqs[i] :
                                   /\ seqs[i][j].store = bought[i].sel.store
                                   /\ seqs[i][j].cost = bought[i].sel.lines[j].cost
                                   /\ seqs[i][j].sku = bought[i].sel.lines[j].sku
  BY <1>2
<1>4. CartLines(bought) = FlattenSeq(seqs)
  BY <1>3
<1>5. \A l \in X : /\ l.store \in UsedBy(bought) /\ l.cost \in Nat /\ l.sku \in Int
                   /\ l.substitution \in {"minor", "none"}
  BY <1>3
<1>6. \A i \in D : /\ DOMAIN seqs[i] = DOMAIN bought[i].sel.lines
                   /\ IsFiniteSet(DOMAIN seqs[i])
                   /\ \A j \in DOMAIN seqs[i] :
                        /\ seqs[i][j].store = bought[i].sel.store
                        /\ seqs[i][j].cost = bought[i].sel.lines[j].cost
                        /\ seqs[i][j].sku = bought[i].sel.lines[j].sku
  BY <1>3
<1>7. \A i \in D : \A j \in DOMAIN seqs[i] : seqs[i][j] \in X
  <2> SUFFICES ASSUME NEW i \in D, NEW j \in DOMAIN seqs[i] PROVE seqs[i][j] \in X
    OBVIOUS
  <2>1. seqs[i] \in Seq(X)
    BY <1>3 DEF Sequences
  <2> QED
    BY <2>1
<1>8. ASSUME NEW s
      PROVE  /\ FlattenSeq(seqs) \in Seq(X)
             /\ Weigh([l \in X |-> IF l.store = s THEN l.cost ELSE 0], FlattenSeq(seqs))
                  = SumFunctionOnSet(CostOf(bought), ServedBy(bought, s))
  <2> DEFINE v == [l \in X |-> IF l.store = s THEN l.cost ELSE 0]
             w == [i \in D |-> IF bought[i].sel.store = s THEN bought[i].sel.cost ELSE 0]
             S == ServedBy(bought, s)
  <2>1. \A x \in X : v[x] \in Nat
    BY <1>5
  <2>2. ASSUME NEW i \in D PROVE w[i] = Weigh(v, seqs[i])
    <3> DEFINE J == DOMAIN seqs[i]
               f == [k \in J |-> v[seqs[i][k]]]
               c == [j \in DOMAIN bought[i].sel.lines |-> bought[i].sel.lines[j].cost]
    <3>1. IsFiniteSet(J) /\ J = DOMAIN bought[i].sel.lines
      BY <1>6
    <3>2. \A k \in J : f[k] = IF bought[i].sel.store = s THEN c[k] ELSE 0
      BY <1>6, <1>7
    <3>3. Weigh(v, seqs[i]) = SumFunctionOnSet(f, J)
      <4> HIDE DEF v
      <4> QED
        BY DEF Weigh
    <3>4. SumFunctionOnSet(c, J) = bought[i].sel.cost
      BY <3>1 DEF IsAssignments, IsSelection
    <3> HIDE DEF f, c, J, v
    <3>5. CASE bought[i].sel.store = s
      <4>1. \A k \in J : f[k] = c[k]
        BY <3>2, <3>5
      <4>2. SumFunctionOnSet(f, J) = SumFunctionOnSet(c, J)
        BY <3>1, <4>1, SumSame
      <4> QED
        BY <3>3, <3>4, <3>5, <4>2
    <3>6. CASE bought[i].sel.store # s
      <4>1. \A k \in J : f[k] = 0
        BY <3>2, <3>6
      <4>2. SumFunctionOnSet(f, J) = SumFunctionOnSet(f, {})
        <5>1. {} \in SUBSET J /\ \A k \in J : f[k] \in Int
          BY <4>1
        <5>2. \A k \in J \ {} : f[k] = 0
          BY <4>1
        <5> QED
          BY <3>1, <5>1, <5>2, SumOfTheRest
      <4> QED
        BY <3>3, <3>6, <4>2, SumOfNone
    <3> QED
      BY <3>5, <3>6
  <2>3. IsFiniteSet(D)
    BY FS_Interval
  <2>4. SumFunctionOnSet(w, D) = SumFunctionOnSet(CostOf(bought), S)
    <3>1. \A i \in D : bought[i].sel.cost \in Nat
      <4>1. \A i \in D : IsSelection(bought[i].sel)
        BY DEF IsAssignments
      <4> QED
        BY <4>1 DEF IsSelection
    <3>9. \A i \in D : w[i] = IF bought[i].sel.store = s THEN bought[i].sel.cost ELSE 0
      OBVIOUS
    <3>2. \A i \in D : w[i] \in Int
      <4> HIDE DEF D, v, S, w
      <4> QED
        BY <3>1, <3>9
    <3>3. S \in SUBSET D /\ \A i \in D \ S : w[i] = 0
      BY <1>1 DEF ServedBy
    <3>4. \A i \in S : w[i] = CostOf(bought)[i]
      BY <1>1 DEF ServedBy, CostOf
    <3>5. IsFiniteSet(S)
      BY <2>3, <3>3, FS_Subset
    <3> DEFINE g == CostOf(bought)
    <3>6. \A i \in S : w[i] = g[i]
      BY <3>4
    <3> HIDE DEF w, D, S, g
    <3>7. SumFunctionOnSet(w, D) = SumFunctionOnSet(w, S)
      BY <2>3, <3>2, <3>3, SumOfTheRest
    <3>8. SumFunctionOnSet(w, S) = SumFunctionOnSet(g, S)
      BY <3>5, <3>6, SumSame
    <3> QED
      BY <3>7, <3>8 DEF g
  <2>5. seqs \in Sequences(n, X)
    BY <1>3
  <2>6. \A i \in 1..n : w[i] = Weigh(v, seqs[i])
    BY <2>2
  <2> HIDE DEF v, w
  <2>7. FlattenSeq(seqs) \in Seq(X) /\ Weigh(v, FlattenSeq(seqs)) = SumFunctionOnSet(w, 1..n)
    BY <2>1, <2>5, <2>6, FlattenWeighs
  <2> QED
    BY <2>4, <2>7 DEF v
<1>9. FlattenSeq(seqs) \in Seq(X)
  <2> DEFINE s == 0
  <2> QED
    BY <1>8
<1>10. /\ CartLines(bought) \in Seq(X)
       /\ \A s : Weigh([l \in X |-> IF l.store = s THEN l.cost ELSE 0], CartLines(bought))
                   = SumFunctionOnSet(CostOf(bought), ServedBy(bought, s))
  BY <1>4, <1>8, <1>9
<1> QED
  BY <1>5, <1>10

\* The places of the lines of a store.
LinesAt(lines, s) == {i \in DOMAIN lines : lines[i].store = s}

\* What a line costs at a store: nothing when it is of another.
CostAt(s, X) == [l \in X |-> IF l.store = s THEN l.cost ELSE 0]

\* What the lines of a store cost, taken out or where they are.
LEMMA LinesOfStore ==
  ASSUME NEW X, \A l \in X : l.cost \in Nat, NEW lines \in Seq(X), NEW s
  PROVE  LET P == LinesAt(lines, s)
             p == Pick(lines, InOrderOf(P))
         IN  /\ P \in SUBSET (1..Len(lines))
             /\ SumFunction([i \in DOMAIN p |-> p[i].cost]) = Weigh(CostAt(s, X), lines)
             /\ P = {} => Weigh(CostAt(s, X), lines) = 0
             /\ Weigh(CostAt(s, X), lines) \in Nat
<1> DEFINE n == Len(lines)
           D == 1..n
           P == LinesAt(lines, s)
           p == Pick(lines, InOrderOf(P))
           g == [i \in D |-> lines[i].cost]
           f == [i \in DOMAIN p |-> p[i].cost]
           w == [i \in DOMAIN lines |-> CostAt(s, X)[lines[i]]]
<1>1. n \in Nat /\ DOMAIN lines = D /\ (\A i \in D : lines[i] \in X) /\ IsFiniteSet(D)
  BY PlacesOf
<1>2. P \in SUBSET D
  BY <1>1 DEF LinesAt
<1>3. \A i \in D : g[i] \in Nat
  BY <1>1
<1>4. \A i \in D : w[i] = IF i \in P THEN g[i] ELSE 0
  BY <1>1 DEF LinesAt, CostAt
<1>5. Weigh(CostAt(s, X), lines) = SumFunctionOnSet(w, D)
  BY <1>1 DEF Weigh
<1>6. /\ DOMAIN p = 1..Cardinality(P)
      /\ \A k \in 1..Cardinality(P) : p[k] = lines[InOrderOf(P)[k]] /\ InOrderOf(P)[k] \in P
  <2> HIDE DEF P, p, g, f, w
  <2>1. P \in SUBSET (1..n)
    BY <1>2
  <2> QED
    BY <1>1, <2>1, PickedAt DEF p
<1>7. \A k \in 1..Cardinality(P) : f[k] = g[InOrderOf(P)[k]]
  BY <1>2, <1>6
<1>8. SumFunction(f) = SumFunctionOnSet(f, 1..Cardinality(P))
  <2>1. DOMAIN f = 1..Cardinality(P)
    BY <1>6
  <2> HIDE DEF f
  <2> QED
    BY <2>1 DEF SumFunction
<1> HIDE DEF P, p, g, f, w
<1>9. SumFunctionOnSet(f, 1..Cardinality(P)) = SumFunctionOnSet(g, P)
  <2>1. \A i \in P : g[i] \in Nat
    BY <1>2, <1>3
  <2>2. P \in SUBSET (1..n)
    BY <1>2
  <2> QED
    BY <1>1, <1>7, <2>1, <2>2, SumPicked
<1>10. SumFunctionOnSet(w, D) = SumFunctionOnSet(w, P)
  <2> HIDE DEF D
  <2>1. (\A i \in D : w[i] \in Int) /\ \A i \in D \ P : w[i] = 0
    BY <1>3, <1>4
  <2> QED
    BY <1>1, <1>2, <2>1, SumOfTheRest
<1>11. SumFunctionOnSet(w, P) = SumFunctionOnSet(g, P)
  <2>1. IsFiniteSet(P)
    BY <1>1, <1>2, FS_Subset
  <2>2. \A i \in P : w[i] = g[i]
    BY <1>2, <1>4
  <2> QED
    BY <2>1, <2>2, SumSame
<1>12. SumFunctionOnSet(w, D) \in Nat
  <2> HIDE DEF D
  <2>1. \A i \in D : w[i] \in Nat
    BY <1>3, <1>4
  <2> QED
    BY <1>1, <2>1, SumNat
<1>13. P = {} => SumFunctionOnSet(w, P) = 0
  BY SumOfNone
<1> QED
  BY <1>2, <1>5, <1>8, <1>9, <1>10, <1>11, <1>12, <1>13 DEF P, p, f

\* What is bought at a store, without tax and fee.
CostOfStore(bought, s) == SumFunctionOnSet(CostOf(bought), ServedBy(bought, s))

\* What orders are made of.
IsOrders(orders, bought) ==
  /\ DOMAIN orders = 1..Cardinality(UsedBy(bought))
  /\ orders = [k \in DOMAIN orders |-> orders[k]]
  /\ \A k \in DOMAIN orders :
       /\ orders[k].store = InOrderOf(UsedBy(bought))[k]
       /\ orders[k].items = CostOfStore(bought, orders[k].store)
       /\ orders[k].tax \in Nat /\ orders[k].fee \in Nat
       /\ orders[k].landed = orders[k].items + orders[k].tax + orders[k].fee

\* The stores of what is bought come once each, and at each something is paid.
LEMMA AssignmentsAre ==
  ASSUME NEW n \in Nat, NEW bought, NEW stores, NEW config,
         IsAssignments(bought, n, stores, config),
         IsStores(stores)
  PROVE  /\ DOMAIN bought = 1..n /\ IsFiniteSet(DOMAIN bought)
         /\ UsedBy(bought) \in SUBSET DOMAIN stores /\ UsedBy(bought) \in SUBSET Int
         /\ IsFiniteSet(UsedBy(bought)) /\ Cardinality(UsedBy(bought)) \in Nat
         /\ ListsOnce(InOrderOf(UsedBy(bought)), UsedBy(bought))
         /\ \A i \in DOMAIN bought : CostOf(bought)[i] \in Nat \ {0}
         /\ \A s : ServedBy(bought, s) \in SUBSET DOMAIN bought /\ IsFiniteSet(ServedBy(bought, s))
         /\ \A s : CostOfStore(bought, s) \in Nat
         /\ \A s \in UsedBy(bought) : /\ CostOfStore(bought, s) # 0
                                      /\ StoreSupportsFulfillment(stores[s], config)
<1>1. DOMAIN bought = 1..n
  BY DEF IsAssignments
<1>2. IsFiniteSet(DOMAIN bought)
  BY <1>1, FS_Interval
<1>3. \A i \in DOMAIN bought : /\ IsSelection(bought[i].sel) /\ bought[i].sel.store \in DOMAIN stores
                               /\ StoreSupportsFulfillment(stores[bought[i].sel.store], config)
  BY <1>1 DEF IsAssignments
<1>4. UsedBy(bought) \in SUBSET DOMAIN stores /\ UsedBy(bought) \in SUBSET Int
  BY <1>3 DEF UsedBy, IsStores
<1>5. IsFiniteSet(UsedBy(bought))
  <2>1. IsFiniteSet(DOMAIN stores)
    BY DEF IsStores
  <2> QED
    BY <1>4, <2>1, FS_Subset
<1>6. Cardinality(UsedBy(bought)) \in Nat /\ ListsOnce(InOrderOf(UsedBy(bought)), UsedBy(bought))
  <2> DEFINE U == UsedBy(bought)
  <2>1. U \in SUBSET Int /\ IsFiniteSet(U)
    BY <1>4, <1>5
  <2> HIDE DEF U
  <2>2. Cardinality(U) \in Nat /\ ListsOnce(InOrderOf(U), U)
    BY <2>1, SortedNumbers
  <2> QED
    BY <2>2 DEF U
<1>7. \A i \in DOMAIN bought : CostOf(bought)[i] \in Nat \ {0}
  BY <1>3 DEF CostOf, IsSelection
<1>8. ASSUME NEW s
      PROVE  /\ ServedBy(bought, s) \in SUBSET DOMAIN bought /\ IsFiniteSet(ServedBy(bought, s))
             /\ CostOfStore(bought, s) \in Nat
             /\ \A i \in ServedBy(bought, s) : CostOf(bought)[i] <= CostOfStore(bought, s)
  <2> DEFINE S == ServedBy(bought, s)
             f == CostOf(bought)
  <2>1. S \in SUBSET DOMAIN bought
    BY DEF ServedBy
  <2>2. IsFiniteSet(S)
    BY <1>2, <2>1, FS_Subset
  <2>3. \A i \in S : f[i] \in Nat
    BY <1>7, <2>1
  <2>4. CostOfStore(bought, s) = SumFunctionOnSet(f, S)
    BY DEF CostOfStore
  <2> HIDE DEF S, f
  <2>5. SumFunctionOnSet(f, S) \in Nat
    BY <2>2, <2>3, SumNat
  <2>6. \A i \in S : f[i] <= SumFunctionOnSet(f, S)
    BY <2>2, <2>3, SumAtLeast
  <2> QED
    BY <2>1, <2>2, <2>4, <2>5, <2>6 DEF S, f
<1>9. ASSUME NEW s \in UsedBy(bought)
      PROVE  CostOfStore(bought, s) # 0 /\ StoreSupportsFulfillment(stores[s], config)
  <2>1. PICK i \in DOMAIN bought : s = bought[i].sel.store
    BY DEF UsedBy
  <2>2. i \in ServedBy(bought, s)
    BY <2>1 DEF ServedBy
  <2>3. CostOf(bought)[i] <= CostOfStore(bought, s) /\ CostOf(bought)[i] \in Nat \ {0}
    BY <1>7, <1>8, <2>2
  <2>4. CostOfStore(bought, s) # 0
    BY <1>8, <2>3
  <2> QED
    BY <1>3, <2>1, <2>4
<1> QED
  BY <1>1, <1>2, <1>4, <1>5, <1>6, <1>7, <1>8, <1>9

\* Tax is a number of cents.
LEMMA TaxIs ==
  ASSUME NEW items \in Nat, NEW store, NEW config, Wants(config)
  PROVE  TaxOn(store, items, config) \in Nat
<1>1. CASE store.taxed
  <2> DEFINE t == config.tax
  <2>1. t \in Nat
    BY DEF Wants
  <2>2. items * t \in Nat
    BY <2>1
  <2> DEFINE m == items * t
  <2>3. m \in Nat
    BY <2>2
  <2> HIDE DEF m
  <2>4. (m + 5000) \div 10000 \in Nat
    BY <2>3
  <2>5. CalculateTax(items, config.tax) \in Nat
    BY <2>4 DEF CalculateTax, TAX_ROUNDING_OFFSET, BASIS_POINTS_DENOMINATOR, m
  <2> QED
    BY <1>1, <2>5 DEF TaxOn
<1>2. CASE ~store.taxed
  BY <1>2 DEF TaxOn
<1> QED
  BY <1>1, <1>2

\* One order per store in use, with what was bought there.
LEMMA OrdersAre ==
  ASSUME NEW n \in Nat, NEW bought, NEW stores, NEW config,
         IsAssignments(bought, n, stores, config),
         IsStores(stores), Wants(config)
  PROVE  IsOrders(StoreOrders(CartLines(bought), stores, config), bought)
<1> DEFINE lines == CartLines(bought)
           U == UsedBy(bought)
           V == {lines[i].store : i \in DOMAIN lines}
           used == InOrderOf(V)
           orders == StoreOrders(lines, stores, config)
           order(k) == BuildOrder(stores[used[k]],
                                  At(lines, LAMBDA i : lines[i].store = used[k]), config)
<1>1. PICK X : /\ lines \in Seq(X)
               /\ \A l \in X : l.store \in U /\ l.cost \in Nat
               /\ \A s : Weigh(CostAt(s, X), lines) = CostOfStore(bought, s)
  BY LinesAre DEF CostAt, CostOfStore
<1>2. /\ U \in SUBSET DOMAIN stores /\ U \in SUBSET Int
      /\ IsFiniteSet(U) /\ Cardinality(U) \in Nat
      /\ ListsOnce(InOrderOf(U), U)
      /\ \A s : CostOfStore(bought, s) \in Nat
      /\ \A s \in U : CostOfStore(bought, s) # 0 /\ StoreSupportsFulfillment(stores[s], config)
  BY AssignmentsAre
<1>3. orders = [k \in DOMAIN used |-> order(k)]
  BY DEF StoreOrders, OrdersAt, InOrderOf
<1> HIDE DEF lines
<1>4. \A i \in DOMAIN lines : lines[i] \in X
  BY <1>1
<1>5. V = U
  <2>1. V \in SUBSET U
    BY <1>1, <1>4
  <2>2. ASSUME NEW s \in U PROVE s \in V
    <3>1. LinesAt(lines, s) # {}
      <4>1. \A l \in X : l.cost \in Nat
        BY <1>1
      <4> HIDE DEF U
      <4>2. LinesAt(lines, s) = {} => Weigh(CostAt(s, X), lines) = 0
        BY <1>1, <4>1, LinesOfStore
      <4> QED
        BY <1>1, <1>2, <4>2
    <3> QED
      BY <3>1 DEF LinesAt
  <2> QED
    BY <2>1, <2>2
<1>6. used = InOrderOf(U)
  BY <1>5
<1>7. DOMAIN used = 1..Cardinality(U) /\ \A k \in DOMAIN used : used[k] \in U
  <2> HIDE DEF U, used
  <2>1. used \in [1..Cardinality(U) -> U]
    BY <1>2, <1>6 DEF ListsOnce
  <2> QED
    BY <2>1
<1>8. ASSUME NEW k \in DOMAIN used
      PROVE  /\ order(k).store = used[k]
             /\ order(k).items = CostOfStore(bought, used[k])
             /\ order(k).tax \in Nat /\ order(k).fee \in Nat
             /\ order(k).landed = order(k).items + order(k).tax + order(k).fee
  <2> DEFINE s == used[k]
             st == stores[s]
             p == Pick(lines, InOrderOf(LinesAt(lines, s)))
             items == SumFunction([i \in DOMAIN p |-> p[i].cost])
             tax == TaxOn(st, items, config)
             chosen == ChooseFulfillment(st, items, config)
  <2>1. s \in U
    BY <1>7
  <2>2. /\ st.id = s /\ st.pickupFee \in Nat /\ st.deliveryFee \in Nat
        /\ StoreSupportsFulfillment(st, config)
    <3> HIDE DEF s, U
    <3> QED
      BY <1>2, <2>1 DEF IsStores
  <2>3. items = CostOfStore(bought, s)
    <3>1. \A l \in X : l.cost \in Nat
      BY <1>1
    <3> HIDE DEF s, U
    <3>2. items = Weigh(CostAt(s, X), lines)
      BY <1>1, <3>1, LinesOfStore
    <3> QED
      BY <1>1, <3>2
  <2>4. At(lines, LAMBDA i : lines[i].store = s) = p
    <3> HIDE DEF s, lines
    <3> QED
      BY DEF At, InOrderOf, LinesAt
  <2>5. order(k) = Order(st, p, items, tax, chosen)
    <3>1. order(k) = BuildOrder(st, p, config)
      <4> HIDE DEF used, p
      <4> QED
        BY <2>4
    <3> HIDE DEF order, st, p
    <3> QED
      BY <3>1 DEF BuildOrder, OrderOf
  <2>6. items \in Nat
    BY <1>2, <2>3
  <2> HIDE DEF items, st, p, used, s
  <2>7. tax \in Nat
    BY <2>6, TaxIs
  <2>8. chosen.fee \in Nat
    BY <2>2, FulfillmentIs
  <2> HIDE DEF tax, chosen
  <2>9. /\ order(k).store = st.id /\ order(k).items = items /\ order(k).tax = tax
        /\ order(k).fee = chosen.fee /\ order(k).landed = items + tax + chosen.fee
    <3> HIDE DEF order
    <3> QED
      BY <2>5 DEF Order
  <2> QED
    BY <2>2, <2>3, <2>7, <2>8, <2>9 DEF s
<1> DEFINE D == DOMAIN used
<1> HIDE DEF order, used, U, D, orders
<1>9. /\ DOMAIN orders = D /\ orders = [k \in DOMAIN orders |-> orders[k]]
      /\ \A k \in D : orders[k] = order(k)
  <2>1. orders = [k \in D |-> order(k)]
    BY <1>3 DEF D
  <2> QED
    BY <2>1
<1>10. DOMAIN orders = 1..Cardinality(U)
  BY <1>7, <1>9 DEF D
<1>11. ASSUME NEW k \in DOMAIN orders
       PROVE  /\ orders[k].store = InOrderOf(UsedBy(bought))[k]
              /\ orders[k].items = CostOfStore(bought, orders[k].store)
              /\ orders[k].tax \in Nat /\ orders[k].fee \in Nat
              /\ orders[k].landed = orders[k].items + orders[k].tax + orders[k].fee
  <2>1. k \in DOMAIN used /\ orders[k] = order(k)
    BY <1>9 DEF D
  <2> QED
    BY <1>6, <1>8, <2>1 DEF U
<1> QED
  BY <1>9, <1>10, <1>11 DEF IsOrders, U, orders, lines

\* What the children pay of the assignments.
LEMMA SharesAre ==
  ASSUME NEW n \in Nat, NEW bought, NEW stores, NEW config,
         IsAssignments(bought, n, stores, config),
         IsStores(stores)
  PROVE  LET shares == ItemShares(bought)
         IN  /\ DOMAIN shares = 1..n /\ shares = [i \in 1..n |-> shares[i]]
             /\ \A i \in 1..n : Weights(shares[i]) /\ SumFunction(shares[i]) = CostOf(bought)[i]
<1> DEFINE shares == ItemShares(bought)
           D == 1..n
           share(i) == AllocateCents(bought[i].sel.cost, bought[i].need.allocatedTo)
<1>1. DOMAIN bought = D
  BY DEF IsAssignments
<1>2. shares = [i \in D |-> share(i)]
  BY <1>1 DEF ItemShares
<1>3. ASSUME NEW i \in D
      PROVE  Weights(share(i)) /\ SumFunction(share(i)) = CostOf(bought)[i]
  <2> DEFINE total == bought[i].sel.cost
             w == bought[i].need.allocatedTo
  <2>1. total \in Nat /\ Weights(w) /\ SumFunction(w) # 0
    BY DEF IsAssignments, IsSelection
  <2>2. CostOf(bought)[i] = total
    BY <1>1 DEF CostOf
  <2> HIDE DEF total, w
  <2>3. Weights(AllocateCents(total, w)) /\ SumFunction(AllocateCents(total, w)) = total
    BY <2>1, AllIsPaid
  <2> QED
    BY <2>2, <2>3 DEF total, w
<1> HIDE DEF D, share, shares
<1>4. DOMAIN shares = D /\ shares = [i \in D |-> shares[i]] /\ \A i \in D : shares[i] = share(i)
  BY <1>2
<1> QED
  BY <1>3, <1>4 DEF D, shares

\* What is paid at all stores is what was bought.
LEMMA AllStores ==
  ASSUME NEW n \in Nat, NEW bought, NEW stores, NEW config,
         IsAssignments(bought, n, stores, config),
         IsStores(stores), NEW g, \A s \in UsedBy(bought) : g[s] = CostOfStore(bought, s)
  PROVE  SumFunctionOnSet(g, UsedBy(bought)) = SumFunctionOnSet(CostOf(bought), 1..n)
<1> DEFINE U == UsedBy(bought)
           D == 1..n
           cost == CostOf(bought)
           m == [s \in U |-> [i \in D |-> IF bought[i].sel.store = s THEN cost[i] ELSE 0]]
<1>1. /\ DOMAIN bought = D /\ IsFiniteSet(D) /\ IsFiniteSet(U)
      /\ \A i \in D : cost[i] \in Nat \ {0}
  BY AssignmentsAre
<1>2. \A s \in U : \A i \in D : m[s][i] = IF bought[i].sel.store = s THEN cost[i] ELSE 0
  OBVIOUS
<1>3. \A i \in D : bought[i].sel.store \in U
  BY <1>1 DEF UsedBy
<1> HIDE DEF D, U, m, cost
<1>4. \A s \in U : \A i \in D : m[s][i] \in Int
  BY <1>1, <1>2
<1>5. \A s \in U : g[s] = SumFunctionOnSet(m[s], D)
  <2> SUFFICES ASSUME NEW s \in U PROVE g[s] = SumFunctionOnSet(m[s], D)
    OBVIOUS
  <2> DEFINE S == ServedBy(bought, s)
             row == m[s]
  <2>1. S \in SUBSET D /\ IsFiniteSet(S)
    <3>1. S \in SUBSET D
      BY <1>1 DEF ServedBy
    <3> QED
      BY <1>1, <3>1, FS_Subset
  <2>2. /\ (\A i \in D : row[i] \in Int) /\ (\A i \in D \ S : row[i] = 0)
        /\ \A i \in S : row[i] = cost[i]
    BY <1>1, <1>2, <1>4 DEF ServedBy
  <2>3. g[s] = SumFunctionOnSet(cost, S)
    BY DEF CostOfStore, cost, U
  <2> HIDE DEF S, row
  <2>4. SumFunctionOnSet(row, D) = SumFunctionOnSet(row, S)
    BY <1>1, <2>1, <2>2, SumOfTheRest
  <2>5. SumFunctionOnSet(row, S) = SumFunctionOnSet(cost, S)
    BY <2>1, <2>2, SumSame
  <2> QED
    BY <2>3, <2>4, <2>5 DEF row
<1>6. \A i \in D : cost[i] = SumFunctionOnSet(Column(m, U, i), U)
  <2> SUFFICES ASSUME NEW i \in D PROVE cost[i] = SumFunctionOnSet(Column(m, U, i), U)
    OBVIOUS
  <2> DEFINE s == bought[i].sel.store
             col == Column(m, U, i)
  <2>1. s \in U
    BY <1>3
  <2>2. (\A x \in U : col[x] \in Int) /\ (\A x \in U \ {s} : col[x] = 0) /\ col[s] = cost[i]
    BY <1>1, <1>2, <1>4, <2>1 DEF Column
  <2> HIDE DEF s, col
  <2>3. SumFunctionOnSet(col, U) = SumFunctionOnSet(col, {s})
    <3>1. {s} \in SUBSET U
      BY <2>1
    <3> QED
      BY <1>1, <2>2, <3>1, SumOfTheRest
  <2>4. SumFunctionOnSet(col, {s}) = col[s]
    <3>1. SumFunctionOnSet(col, {s}) = col[s] + SumFunctionOnSet(col, {s} \ {s})
      <4>1. IsFiniteSet({s}) /\ \A x \in {s} : col[x] \in Int
        BY <2>1, <2>2, FS_Singleton
      <4>2. s \in {s}
        OBVIOUS
      <4> QED
        BY <4>1, <4>2, SumOfOneMore
    <3>2. {s} \ {s} = {}
      OBVIOUS
    <3>3. SumFunctionOnSet(col, {s} \ {s}) = 0
      BY <3>2, SumOfNone
    <3>4. col[s] \in Int
      BY <2>1, <2>2
    <3> QED
      BY <3>1, <3>3, <3>4
  <2> QED
    BY <2>2, <2>3, <2>4 DEF col
<1>7. SumFunctionOnSet(g, U) = SumFunctionOnSet(cost, D)
  BY <1>1, <1>4, <1>5, <1>6, SumsSwap
<1> QED
  BY <1>7 DEF U, cost, D

\* The totals of the orders, and that they are what was bought and charged.
LEMMA TotalsAre ==
  ASSUME NEW n \in Nat, NEW bought, NEW stores, NEW config,
         IsAssignments(bought, n, stores, config),
         IsStores(stores), NEW orders, IsOrders(orders, bought)
  PROVE  /\ Total(orders, "items") = SumFunctionOnSet(CostOf(bought), 1..n)
         /\ Total(orders, "items") \in Nat /\ Total(orders, "tax") \in Nat
         /\ Total(orders, "fee") \in Nat
         /\ SumFunction([k \in DOMAIN orders |-> orders[k].landed])
              = Total(orders, "items") + Total(orders, "tax") + Total(orders, "fee")
<1> DEFINE U == UsedBy(bought)
           D == DOMAIN orders
           q == InOrderOf(U)
           g == [s \in U |-> CostOfStore(bought, s)]
           items == [k \in D |-> orders[k]["items"]]
           tax == [k \in D |-> orders[k]["tax"]]
           fee == [k \in D |-> orders[k]["fee"]]
           both == [k \in D |-> items[k] + tax[k]]
           landed == [k \in D |-> orders[k].landed]
<1>1. /\ IsFiniteSet(U) /\ Cardinality(U) \in Nat /\ ListsOnce(q, U)
      /\ \A s \in U : CostOfStore(bought, s) \in Nat
  BY AssignmentsAre
<1>2. D = 1..Cardinality(U) /\ DOMAIN q = D /\ \A k \in D : q[k] \in U
  BY <1>1 DEF IsOrders, ListsOnce
<1>3. IsFiniteSet(D)
  BY <1>1, <1>2, FS_Interval
<1>4. /\ \A k \in D : items[k] = g[q[k]] /\ items[k] \in Nat
      /\ \A k \in D : tax[k] \in Nat /\ fee[k] \in Nat
      /\ \A k \in D : landed[k] = items[k] + tax[k] + fee[k]
  BY <1>1, <1>2 DEF IsOrders
<1>5. /\ Total(orders, "items") = SumFunctionOnSet(items, D)
      /\ Total(orders, "tax") = SumFunctionOnSet(tax, D)
      /\ Total(orders, "fee") = SumFunctionOnSet(fee, D)
      /\ SumFunction([k \in DOMAIN orders |-> orders[k].landed]) = SumFunctionOnSet(landed, D)
  BY DEF Total, SumFunction
<1>6. \A k \in D : both[k] = items[k] + tax[k] /\ both[k] \in Nat
  <2> HIDE DEF D, items, tax, fee, landed, g
  <2> QED
    BY <1>4
<1>7. \A s \in U : g[s] = CostOfStore(bought, s) /\ g[s] \in Nat
  BY <1>1
<1> HIDE DEF U, D, q, g, items, tax, fee, both, landed
<1>8. SumFunctionOnSet(items, D) = SumFunctionOnSet(g, U)
  <2>1. \A s \in U : g[s] \in Nat
    BY <1>7
  <2>2. \A k \in DOMAIN q : items[k] = g[q[k]]
    BY <1>2, <1>4
  <2> QED
    BY <1>1, <1>2, <2>1, <2>2, SumListed
<1>9. SumFunctionOnSet(g, U) = SumFunctionOnSet(CostOf(bought), 1..n)
  BY <1>7, AllStores DEF U
<1>10. /\ SumFunctionOnSet(items, D) \in Nat /\ SumFunctionOnSet(tax, D) \in Nat
       /\ SumFunctionOnSet(fee, D) \in Nat
  BY <1>3, <1>4, SumNat
<1>11. SumFunctionOnSet(both, D) = SumFunctionOnSet(items, D) + SumFunctionOnSet(tax, D)
  <2>1. \A k \in D : items[k] \in Int /\ tax[k] \in Int /\ both[k] = items[k] + tax[k]
    BY <1>4, <1>6
  <2> QED
    BY <1>3, <2>1, SumPlus
<1>12. SumFunctionOnSet(landed, D) = SumFunctionOnSet(both, D) + SumFunctionOnSet(fee, D)
  <2>1. \A k \in D : both[k] \in Int /\ fee[k] \in Int /\ landed[k] = both[k] + fee[k]
    BY <1>4, <1>6
  <2> QED
    BY <1>3, <2>1, SumPlus
<1> QED
  BY <1>5, <1>8, <1>9, <1>10, <1>11, <1>12

\* Amounts that children share: how much each is in all.
InAll(X) == [w \in X |-> SumFunction(w)]

\* Shares joined and added up by child: nothing is lost.
LEMMA JoinedShares ==
  ASSUME NEW X, \A w \in X : Weights(w), NEW s \in Seq(X), NEW t \in Seq(X)
  PROVE  /\ Weights(SumByChild(s \o t))
         /\ SumFunction(SumByChild(s \o t)) = Weigh(InAll(X), s) + Weigh(InAll(X), t)
<1> DEFINE u == s \o t
           tot == [k \in DOMAIN u |-> InAll(X)[u[k]]]
<1>1. u \in Seq(X)
  OBVIOUS
<1>2. IsFiniteSet(DOMAIN u) /\ \A k \in DOMAIN u : u[k] \in X
  <2> HIDE DEF u
  <2> QED
    BY <1>1, PlacesOf
<1>3. \A w \in X : InAll(X)[w] = SumFunction(w) /\ InAll(X)[w] \in Nat
  BY WeightsAddUp DEF InAll
<1> DEFINE v == InAll(X)
<1>4. Weigh(v, u) = Weigh(v, s) + Weigh(v, t)
  <2>1. \A w \in X : v[w] \in Nat
    BY <1>3
  <2> HIDE DEF v
  <2> QED
    BY <2>1, WeighTogether
<1>5. Weigh(v, u) = SumFunctionOnSet(tot, DOMAIN u)
  BY DEF Weigh
<1>6. \A k \in DOMAIN u : Weights(u[k]) /\ tot[k] = SumFunction(u[k])
  BY <1>2, <1>3
<1> HIDE DEF u, tot
<1>7. Weights(SumByChild(u)) /\ SumFunction(SumByChild(u)) = SumFunctionOnSet(tot, DOMAIN u)
  BY <1>2, <1>6, SumByChildIs
<1> QED
  BY <1>4, <1>5, <1>7 DEF u

\* The amounts of charges.
AmountOf(Y) == [c \in Y |-> c[2]]

\* All tax and all fees are paid.
LEMMA ChargesArePaid ==
  ASSUME NEW n \in Nat, NEW bought, NEW stores, NEW config,
         IsAssignments(bought, n, stores, config),
         IsStores(stores), NEW orders, IsOrders(orders, bought)
  PROVE  LET charged == ChargeShares(bought, orders, ItemShares(bought))
         IN  /\ \E m \in Nat : charged = [k \in 1..m |-> charged[k]]
             /\ \A k \in DOMAIN charged : Weights(charged[k])
             /\ SumFunctionOnSet([k \in DOMAIN charged |-> SumFunction(charged[k])],
                                 DOMAIN charged)
                  = Total(orders, "tax") + Total(orders, "fee")
<1> DEFINE U == UsedBy(bought)
           D == DOMAIN orders
           shares == ItemShares(bought)
           taxes == [k \in D |-> <<orders[k].store, orders[k].tax>>]
           fees == [k \in D |-> <<orders[k].store, orders[k].fee>>]
           charges == taxes \o fees
           sharers(s) == SumByChild(Restrict(shares, ServedBy(bought, s)))
           charged == ChargeShares(bought, orders, shares)
           Y == {<<s, a>> : s \in U, a \in Nat}
<1>1. charged = [k \in DOMAIN charges |-> AllocateCents(charges[k][2], sharers(charges[k][1]))]
  BY DEF ChargeShares, ServedBy
<1>2. /\ IsFiniteSet(U) /\ Cardinality(U) \in Nat /\ ListsOnce(InOrderOf(U), U)
      /\ \A s \in U : CostOfStore(bought, s) # 0
      /\ \A s : ServedBy(bought, s) \in SUBSET DOMAIN bought
      /\ DOMAIN bought = 1..n
  BY AssignmentsAre
<1>3. /\ D = 1..Cardinality(U)
      /\ \A k \in D : orders[k].store \in U /\ orders[k].tax \in Nat /\ orders[k].fee \in Nat
  BY <1>2 DEF IsOrders, ListsOnce
<1>4. taxes \in Seq(Y) /\ fees \in Seq(Y) /\ charges \in Seq(Y)
  <2>1. \A k \in D : taxes[k] \in Y /\ fees[k] \in Y
    BY <1>3
  <2>2. taxes \in Seq(Y) /\ fees \in Seq(Y)
    <3> HIDE DEF U, Y
    <3>1. /\ taxes = [k \in 1..Cardinality(U) |-> taxes[k]]
          /\ fees = [k \in 1..Cardinality(U) |-> fees[k]]
      BY <1>3
    <3> DEFINE b == Cardinality(U)
    <3>2. b \in Nat /\ \A k \in 1..b : taxes[k] \in Y /\ fees[k] \in Y
      BY <1>2, <1>3, <2>1
    <3>3. taxes = [k \in 1..b |-> taxes[k]] /\ fees = [k \in 1..b |-> fees[k]]
      BY <3>1
    <3> HIDE DEF taxes, fees, b, D
    <3>4. taxes \in Seq(Y)
      BY <3>2, <3>3
    <3>5. fees \in Seq(Y)
      BY <3>2, <3>3
    <3> QED
      BY <3>4, <3>5
  <2> HIDE DEF taxes, fees
  <2> QED
    BY <2>2
<1>5. ASSUME NEW s \in U
      PROVE  Weights(sharers(s)) /\ SumFunction(sharers(s)) # 0
  <2> DEFINE S == ServedBy(bought, s)
             tot == CostOf(bought)
  <2>1. /\ DOMAIN shares = 1..n
        /\ \A i \in 1..n : Weights(shares[i]) /\ SumFunction(shares[i]) = tot[i]
    BY SharesAre
  <2>2. S \in SUBSET DOMAIN shares /\ IsFiniteSet(DOMAIN shares)
    <3>1. IsFiniteSet(1..n)
      BY FS_Interval
    <3> QED
      BY <1>2, <2>1, <3>1
  <2>3. SumFunctionOnSet(tot, S) # 0
    BY <1>2 DEF CostOfStore
  <2> HIDE DEF shares, S, tot
  <2>4. \A i \in DOMAIN shares : Weights(shares[i]) /\ tot[i] = SumFunction(shares[i])
    BY <2>1
  <2>5. /\ Weights(SumByChild(Restrict(shares, S)))
        /\ SumFunction(SumByChild(Restrict(shares, S))) = SumFunctionOnSet(tot, S)
    BY <2>2, <2>4, RestrictedWeights
  <2> QED
    BY <2>3, <2>5 DEF S
<1> HIDE DEF sharers
<1>6. ASSUME NEW c \in Y
      PROVE  LET a == AllocateCents(c[2], sharers(c[1])) IN Weights(a) /\ SumFunction(a) = c[2]
  <2> DEFINE w == sharers(c[1])
             t == c[2]
  <2>1. Weights(w) /\ SumFunction(w) # 0 /\ t \in Nat
    BY <1>5
  <2> HIDE DEF w, t
  <2>2. Weights(AllocateCents(t, w)) /\ SumFunction(AllocateCents(t, w)) = t
    BY <2>1, AllIsPaid
  <2> QED
    BY <2>2 DEF w, t
<1> DEFINE v == AmountOf(Y)
           E == DOMAIN charges
           f == [k \in DOMAIN charged |-> SumFunction(charged[k])]
           g == [k \in E |-> v[charges[k]]]
<1>7. \A c \in Y : v[c] = c[2] /\ v[c] \in Nat
  BY DEF AmountOf
<1>8. E = 1..Len(charges) /\ Len(charges) \in Nat /\ IsFiniteSet(E) /\ \A k \in E : charges[k] \in Y
  <2> HIDE DEF charges, Y
  <2> QED
    BY <1>4, PlacesOf
<1>9. Weigh(v, charges) = Weigh(v, taxes) + Weigh(v, fees)
  <2> HIDE DEF v, taxes, fees, Y
  <2> QED
    BY <1>4, <1>7, WeighTogether
<1>10. Weigh(v, taxes) = Total(orders, "tax") /\ Weigh(v, fees) = Total(orders, "fee")
  <2>1. /\ \A k \in D : v[taxes[k]] = orders[k].tax /\ v[fees[k]] = orders[k].fee
        /\ DOMAIN taxes = D /\ DOMAIN fees = D
    BY <1>3, <1>7
  <2> DEFINE ft == [k \in D |-> v[taxes[k]]]
             ff == [k \in D |-> v[fees[k]]]
             gt == [k \in D |-> orders[k]["tax"]]
             gf == [k \in D |-> orders[k]["fee"]]
  <2>2. \A k \in D : ft[k] = gt[k] /\ ff[k] = gf[k]
    <3> HIDE DEF v, taxes, fees, Y, D, charged, f, g
    <3>1. \A k \in D : ft[k] = gt[k]
      BY <2>1
    <3>2. \A k \in D : ff[k] = gf[k]
      BY <2>1
    <3> QED
      BY <3>1, <3>2
  <2>3. IsFiniteSet(D)
    BY <1>2, <1>3, FS_Interval
  <2>4. Weigh(v, taxes) = SumFunctionOnSet(ft, D) /\ Weigh(v, fees) = SumFunctionOnSet(ff, D)
    <3> HIDE DEF v, taxes, fees
    <3> QED
      BY <2>1 DEF Weigh
  <2>5. /\ Total(orders, "tax") = SumFunctionOnSet(gt, D)
        /\ Total(orders, "fee") = SumFunctionOnSet(gf, D)
    BY DEF Total, SumFunction
  <2> HIDE DEF ft, ff, gt, gf, D
  <2>6. SumFunctionOnSet(ft, D) = SumFunctionOnSet(gt, D)
    BY <2>2, <2>3, SumSame
  <2>7. SumFunctionOnSet(ff, D) = SumFunctionOnSet(gf, D)
    BY <2>2, <2>3, SumSame
  <2> QED
    BY <2>4, <2>5, <2>6, <2>7
<1> HIDE DEF charges, Y, v
<1> DEFINE share(k) == AllocateCents(charges[k][2], sharers(charges[k][1]))
<1>11. /\ DOMAIN charged = E /\ charged = [k \in E |-> charged[k]]
       /\ \A k \in E : charged[k] = share(k)
  <2>1. charged = [k \in E |-> share(k)]
    BY <1>1
  <2> HIDE DEF charged, share, E
  <2> QED
    BY <2>1
<1>12. \A k \in E : Weights(charged[k]) /\ SumFunction(charged[k]) = v[charges[k]]
  <2> HIDE DEF charged
  <2> SUFFICES ASSUME NEW k \in E
               PROVE  Weights(charged[k]) /\ SumFunction(charged[k]) = v[charges[k]]
    OBVIOUS
  <2>1. charges[k] \in Y
    BY <1>8
  <2> QED
    BY <1>6, <1>7, <1>11, <2>1
<1> HIDE DEF charged, share
<1>13. \A k \in E : f[k] = g[k]
  BY <1>11, <1>12
<1>14. Weigh(v, charges) = SumFunctionOnSet(g, E)
  BY DEF Weigh
<1> HIDE DEF E, f, g
<1>15. SumFunctionOnSet(f, E) = SumFunctionOnSet(g, E)
  BY <1>8, <1>13, SumSame
<1>16. \E m \in Nat : charged = [k \in 1..m |-> charged[k]]
  BY <1>8, <1>11
<1> QED
  BY <1>9, <1>10, <1>11, <1>12, <1>14, <1>15, <1>16 DEF f, charged, shares

\* The stores that a cart is ordered from.
OrderedFrom(p) == [k \in DOMAIN p.orders |-> p.orders[k].store]

\* A cart that adds up, and that can be compared with others.
IsPlan(p) ==
  /\ p.landed \in Nat /\ p.comparison \in Int
  /\ Weights(p.childLanded) /\ SumFunction(p.childLanded) = p.landed
  /\ SumFunction([k \in DOMAIN p.orders |-> p.orders[k].landed]) = p.landed
  /\ OrderedFrom(p) \in Seq(Int)
  /\ PlanSortKey(p) \in Seq(Int)
  /\ \E X : p.lines \in Seq(X)

\* The cart of nothing adds up.
LEMMA EmptyPlanIs == IsPlan(EmptyPlan)
<1> DEFINE e == EmptyPlan
           none == [k \in DOMAIN e.orders |-> e.orders[k].landed]
<1>1. /\ e.landed = 0 /\ e.comparison = 0 /\ e.childLanded = <<>> /\ e.orders = <<>>
      /\ e.lines = <<>>
  BY DEF EmptyPlan
<1>2. DOMAIN <<>> = {}
  OBVIOUS
<1>3. Weights(<<>>) /\ SumFunction(<<>>) = 0
  BY <1>2, FS_EmptySet, SumOfNone DEF Weights, SumFunction
<1>4. SumFunction(none) = 0
  <2>1. DOMAIN none = {}
    BY <1>1, <1>2
  <2> HIDE DEF none
  <2> QED
    BY <2>1, SumOfNone DEF SumFunction
<1> HIDE DEF e
<1>5. OrderedFrom(e) = <<>>
  BY <1>1 DEF OrderedFrom
<1>6. /\ [k \in DOMAIN e.orders |-> e.orders[k].store] = <<>>
      /\ [i \in DOMAIN e.lines |-> e.lines[i].sku] = <<>>
  BY <1>1
<1>7. PlanSortKey(e) = <<0, 0, 0>> \o <<>> \o <<>>
  <2>1. Len(e.orders) = 0
    BY <1>1
  <2> QED
    BY <1>1, <1>6, <2>1 DEF PlanSortKey
<1>8. PlanSortKey(e) \in Seq(Int)
  BY <1>7
<1>9. e.lines \in Seq({})
  BY <1>1
<1> QED
  BY <1>1, <1>3, <1>4, <1>5, <1>8, <1>9 DEF IsPlan, e

\* What was bought is paid, and all charges.
LEMMA ChildrenPayAll ==
  ASSUME NEW n \in Nat, NEW bought, NEW stores, NEW config,
         IsAssignments(bought, n, stores, config),
         IsStores(stores), NEW orders, IsOrders(orders, bought)
  PROVE  LET paid == SumByChild(ItemShares(bought)
                                  \o ChargeShares(bought, orders, ItemShares(bought)))
         IN  /\ Weights(paid)
             /\ SumFunction(paid) = SumFunctionOnSet(CostOf(bought), 1..n)
                                      + (Total(orders, "tax") + Total(orders, "fee"))
<1> DEFINE shares == ItemShares(bought)
           charged == ChargeShares(bought, orders, shares)
           D == 1..n
           cost == CostOf(bought)
           X == {shares[i] : i \in D} \cup {charged[k] : k \in DOMAIN charged}
           v == InAll(X)
           fs == [k \in D |-> v[shares[k]]]
           fc == [k \in DOMAIN charged |-> v[charged[k]]]
           fp == [k \in DOMAIN charged |-> SumFunction(charged[k])]
<1>1. /\ DOMAIN shares = D /\ shares = [i \in D |-> shares[i]]
      /\ \A i \in D : Weights(shares[i]) /\ SumFunction(shares[i]) = cost[i]
  BY SharesAre
<1>2. /\ \A k \in DOMAIN charged : Weights(charged[k])
      /\ SumFunctionOnSet(fp, DOMAIN charged) = Total(orders, "tax") + Total(orders, "fee")
  BY ChargesArePaid
<1>3. PICK m \in Nat : charged = [k \in 1..m |-> charged[k]]
  BY ChargesArePaid
<1> HIDE DEF shares, charged, cost
<1>4. \A w \in X : Weights(w)
  BY <1>1, <1>2
<1>5. DOMAIN charged = 1..m
  <2> DEFINE E == 1..m
             t(k) == charged[k]
  <2>1. charged = [k \in E |-> t(k)]
    BY <1>3
  <2> HIDE DEF t, E
  <2>2. DOMAIN charged = E
    BY <2>1
  <2> QED
    BY <2>2 DEF E
<1>6. shares \in Seq(X) /\ charged \in Seq(X)
  <2>1. \A i \in D : shares[i] \in X
    OBVIOUS
  <2>2. \A k \in 1..m : charged[k] \in X
    BY <1>5
  <2> HIDE DEF X
  <2>3. shares \in Seq(X)
    BY <1>1, <2>1
  <2>4. charged \in Seq(X)
    BY <1>3, <2>2
  <2> QED
    BY <2>3, <2>4
<1> DEFINE E == DOMAIN charged
<1>7. \A k \in D : fs[k] = cost[k]
  <2>1. \A i \in D : shares[i] \in X
    OBVIOUS
  <2> HIDE DEF X
  <2> QED
    BY <1>1, <2>1 DEF InAll
<1>8. \A k \in E : fc[k] = fp[k]
  <2>1. \A k \in E : charged[k] \in X
    OBVIOUS
  <2> HIDE DEF X
  <2> QED
    BY <2>1 DEF InAll
<1>9. Weigh(v, shares) = SumFunctionOnSet(fs, D) /\ Weigh(v, charged) = SumFunctionOnSet(fc, E)
  BY <1>1 DEF Weigh
<1>10. IsFiniteSet(D) /\ IsFiniteSet(E)
  BY <1>5, FS_Interval
<1> HIDE DEF X, v, D, E, fs, fc, fp
<1>11. SumFunctionOnSet(fs, D) = SumFunctionOnSet(cost, D)
  BY <1>7, <1>10, SumSame
<1>12. SumFunctionOnSet(fc, E) = SumFunctionOnSet(fp, E)
  BY <1>8, <1>10, SumSame
<1>13. /\ Weights(SumByChild(shares \o charged))
       /\ SumFunction(SumByChild(shares \o charged)) = Weigh(v, shares) + Weigh(v, charged)
  BY <1>4, <1>6, JoinedShares DEF v
<1> QED
  BY <1>2, <1>9, <1>11, <1>12, <1>13 DEF shares, charged, cost, D, E

\* A whole cart adds up.
LEMMA PlanIs ==
  ASSUME NEW n \in Nat, NEW bought, NEW stores, NEW config,
         IsAssignments(bought, n, stores, config),
         IsStores(stores), Wants(config)
  PROVE  /\ IsPlan(BuildPlan(bought, stores, config))
         /\ n > 0 => IsOrders(BuildPlan(bought, stores, config).orders, bought)
<1>1. CASE n = 0
  <2>1. bought = <<>>
    <3>1. bought = [i \in 1..n |-> bought[i]] /\ 1..n = {}
      BY <1>1 DEF IsAssignments
    <3> QED
      BY <3>1
  <2>2. BuildPlan(bought, stores, config) = EmptyPlan
    BY <2>1 DEF BuildPlan
  <2> QED
    BY <1>1, <2>2, EmptyPlanIs
<1>2. CASE n # 0
  <2> DEFINE lines == CartLines(bought)
             orders == StoreOrders(lines, stores, config)
             shares == ItemShares(bought)
             paid == SumByChild(shares \o ChargeShares(bought, orders, shares))
             items == Total(orders, "items")
             tax == Total(orders, "tax")
             fee == Total(orders, "fee")
             p == BuildPlan(bought, stores, config)
  <2>1. p = PlanOfOrders(bought, lines, orders, shares)
    <3>1. DOMAIN bought = 1..n
      BY DEF IsAssignments
    <3>2. bought # <<>>
      <4>1. 1 \in DOMAIN bought /\ 1 \notin DOMAIN <<>>
        BY <1>2, <3>1
      <4> QED
        BY <4>1
    <3> QED
      BY <3>2 DEF BuildPlan, PlanOfLines
  <2>2. IsOrders(orders, bought)
    BY OrdersAre
  <2> HIDE DEF lines
  <2>3. PICK X : lines \in Seq(X) /\ \A l \in X : l.sku \in Int
    BY LinesAre DEF lines
  <2> HIDE DEF orders, shares
  <2>4. /\ items = SumFunctionOnSet(CostOf(bought), 1..n)
        /\ items \in Nat /\ tax \in Nat /\ fee \in Nat
        /\ SumFunction([k \in DOMAIN orders |-> orders[k].landed]) = items + tax + fee
    BY <2>2, TotalsAre
  <2>5. /\ Weights(paid)
        /\ SumFunction(paid) = SumFunctionOnSet(CostOf(bought), 1..n) + (tax + fee)
    BY <2>2, ChildrenPayAll DEF shares
  <2>6. /\ p.lines = lines /\ p.orders = orders /\ p.childLanded = paid
        /\ p.landed = items + tax + fee
        /\ p.comparison = p.landed + (Len(orders) - 1) * 600
    <3> HIDE DEF paid, items, tax, fee, p
    <3> QED
      BY <2>1 DEF PlanOfOrders, paid, items, tax, fee, ADDITIONAL_STORE_PENALTY_CENTS
  <2> DEFINE U == UsedBy(bought)
             c == Cardinality(U)
  <2>7. /\ c \in Nat /\ DOMAIN orders = 1..c /\ orders = [k \in DOMAIN orders |-> orders[k]]
        /\ \A k \in DOMAIN orders : orders[k].store \in Int
    <3>1. U \in SUBSET Int /\ Cardinality(U) \in Nat /\ ListsOnce(InOrderOf(U), U)
      BY AssignmentsAre
    <3>2. \A k \in 1..Cardinality(U) : InOrderOf(U)[k] \in U
      BY <3>1 DEF ListsOnce
    <3> QED
      BY <2>2, <3>1, <3>2 DEF IsOrders
  <2> HIDE DEF c, U, paid, items, tax, fee, p
  <2>8. Len(orders) = c
    <3> DEFINE t(k) == orders[k]
    <3>1. orders = [k \in 1..c |-> t(k)]
      BY <2>7
    <3> HIDE DEF t
    <3> QED
      BY <2>7, <3>1
  <2>9. OrderedFrom(p) \in Seq(Int)
    <3> DEFINE st(k) == orders[k].store
    <3>1. OrderedFrom(p) = [k \in 1..c |-> st(k)]
      BY <2>6, <2>7 DEF OrderedFrom
    <3>2. \A k \in 1..c : st(k) \in Int
      BY <2>7
    <3> HIDE DEF st
    <3> QED
      BY <2>7, <3>1, <3>2
  <2>10. p.landed \in Nat /\ p.comparison \in Int
    BY <2>4, <2>6, <2>7, <2>8
  <2>11. PlanSortKey(p) \in Seq(Int)
    <3> DEFINE a == <<p.comparison, p.landed, Len(p.orders)>>
               b == [k \in DOMAIN p.orders |-> p.orders[k].store]
               d == [i \in DOMAIN p.lines |-> p.lines[i].sku]
    <3>1. PlanSortKey(p) = a \o b \o d
      BY DEF PlanSortKey
    <3>2. a \in Seq(Int)
      BY <2>6, <2>7, <2>8, <2>10
    <3>3. b \in Seq(Int)
      BY <2>9 DEF OrderedFrom
    <3>4. d \in Seq(Int)
      <4>1. /\ DOMAIN lines = 1..Len(lines) /\ Len(lines) \in Nat
            /\ \A i \in DOMAIN lines : lines[i].sku \in Int
        BY <2>3, PlacesOf
      <4> DEFINE sk(i) == lines[i].sku
                 L == Len(lines)
      <4>2. d = [i \in 1..L |-> sk(i)] /\ \A i \in 1..L : sk(i) \in Int
        BY <2>6, <4>1
      <4> HIDE DEF sk, L, d
      <4>3. L \in Nat
        BY <4>1 DEF L
      <4> QED
        BY <4>2, <4>3
    <3> HIDE DEF a, b, d
    <3> QED
      BY <3>1, <3>2, <3>3, <3>4
  <2>12. SumFunction([k \in DOMAIN p.orders |-> p.orders[k].landed]) = p.landed
    BY <2>4, <2>6
  <2>13. Weights(p.childLanded) /\ SumFunction(p.childLanded) = p.landed
    BY <2>4, <2>5, <2>6
  <2>14. \E Y : p.lines \in Seq(Y)
    BY <2>3, <2>6
  <2>15. IsPlan(p)
    BY <2>9, <2>10, <2>11, <2>12, <2>13, <2>14 DEF IsPlan
  <2> QED
    BY <2>2, <2>6, <2>15 DEF p, orders
<1> QED
  BY <1>1, <1>2

\* The offers of a catalogue: each product is one offer, at a price.
ForSale(need, offers) ==
  {o \in offers : /\ o.stock > 0
                  /\ o.category = need.item
                  /\ need.brand \in {None, o.brand}}

\* What is for sale, listed by product.
LEMMA MatchingIs ==
  ASSUME NEW need, NEW offers, IsOffers(offers)
  PROVE  /\ ListsOnce(MatchingOffers(need, offers), ForSale(need, offers))
         /\ DOMAIN MatchingOffers(need, offers) = 1..Cardinality(ForSale(need, offers))
         /\ Cardinality(ForSale(need, offers)) \in Nat
<1> DEFINE S == ForSale(need, offers)
           q == MatchingOffers(need, offers)
           before == {p \in S \X S : p[1].sku < p[2].sku}
<1>1. q = [k \in 1..Cardinality(S) |->
             CHOOSE x \in S : Cardinality({y \in S : y.sku < x.sku}) = k - 1]
  BY DEF MatchingOffers, ForSale, Sorted
<1>2. S \in SUBSET offers /\ IsFiniteSet(offers)
  BY DEF ForSale, IsOffers
<1>3. IsFiniteSet(S)
  BY <1>2, FS_Subset
<1>4. Cardinality(S) \in Nat
  BY <1>3, FS_CardinalityType
<1>5. /\ \A x \in S : x.sku \in Int
      /\ \A x, y \in S : x.sku = y.sku => x = y
  BY <1>2 DEF IsOffers
<1> HIDE DEF q, S
<1>6. Orders(before, S)
  BY <1>5 DEF Orders
<1>7. DOMAIN q = 1..Cardinality(S) /\ q = [k \in DOMAIN q |-> q[k]]
  <2> DEFINE E(k) == CHOOSE x \in S : Cardinality({y \in S : y.sku < x.sku}) = k - 1
             D == 1..Cardinality(S)
  <2>1. q = [k \in D |-> E(k)]
    BY <1>1
  <2> HIDE DEF E, D
  <2>2. DOMAIN q = D /\ q = [k \in DOMAIN q |-> q[k]]
    BY <2>1
  <2> QED
    BY <2>2 DEF D
<1>8. \A x \in S : Rank(x, S, before) = Cardinality({y \in S : y.sku < x.sku})
  <2> SUFFICES ASSUME NEW x \in S
               PROVE  Rank(x, S, before) = Cardinality({y \in S : y.sku < x.sku})
    OBVIOUS
  <2>1. {y \in S : <<y, x>> \in before} = {y \in S : y.sku < x.sku}
    OBVIOUS
  <2> QED
    BY <2>1 DEF Rank
<1>9. InRanks(q, S, before)
  <2> SUFFICES ASSUME NEW k \in DOMAIN q, \E x \in S : Rank(x, S, before) = k - 1
               PROVE  q[k] \in S /\ Rank(q[k], S, before) = k - 1
    BY <1>7 DEF InRanks
  <2>1. q[k] = CHOOSE x \in S : Cardinality({y \in S : y.sku < x.sku}) = k - 1
    BY <1>1
  <2>2. \E x \in S : Cardinality({y \in S : y.sku < x.sku}) = k - 1
    BY <1>8
  <2>3. q[k] \in S /\ Cardinality({y \in S : y.sku < q[k].sku}) = k - 1
    BY <2>1, <2>2
  <2> QED
    BY <1>8, <2>3
<1> HIDE DEF before
<1>10. ListsOnce(q, S)
  BY <1>3, <1>6, <1>7, <1>9, RankedLists
<1> QED
  BY <1>4, <1>7, <1>10 DEF q, S

-----------------------------------------------------------------------------
\* How some number of units is reached.
Ways == [cost : Nat, packs : Nat, counts : Seq(Nat)]

\* Ways to finitely many numbers of units.
States == {f \in UNION {[D -> Ways] : D \in SUBSET Nat} : IsFiniteSet(DOMAIN f)}

\* What a state is, said of each number of units.
LEMMA StatesAre ==
  ASSUME NEW f
  PROVE  f \in States <=> /\ f = [u \in DOMAIN f |-> f[u]] /\ IsFiniteSet(DOMAIN f)
                          /\ \A u \in DOMAIN f : u \in Nat /\ f[u] \in Ways
<1>1. ASSUME f \in States
      PROVE  /\ f = [u \in DOMAIN f |-> f[u]] /\ IsFiniteSet(DOMAIN f)
             /\ \A u \in DOMAIN f : u \in Nat /\ f[u] \in Ways
  <2>1. PICK D \in SUBSET Nat : f \in [D -> Ways]
    BY <1>1 DEF States
  <2> QED
    BY <1>1, <2>1 DEF States
<1>2. ASSUME f = [u \in DOMAIN f |-> f[u]], IsFiniteSet(DOMAIN f),
             \A u \in DOMAIN f : u \in Nat /\ f[u] \in Ways
      PROVE  f \in States
  <2>1. f \in [DOMAIN f -> Ways] /\ DOMAIN f \in SUBSET Nat
    BY <1>2
  <2> QED
    BY <1>2, <2>1 DEF States
<1> QED
  BY <1>1, <1>2

\* After an offer: each number of units within the maximum is reached by some
\* packs of it, and none of these ways costs less than the one that is kept.
LEMMA AddOfferIs ==
  ASSUME NEW states \in States, NEW o, o.size \in Nat, o.price \in Nat,
         NEW most \in Nat, NEW maximum \in Nat
  PROVE  LET r == AddOffer(states, o, most, maximum)
         IN  /\ r \in States /\ DOMAIN r \in SUBSET (0..maximum)
             /\ \A u \in DOMAIN r : \E v \in DOMAIN states : \E n \in 0..most :
                   u = v + n * o.size /\ r[u] = AddPacks(states[v], o, n)
             /\ \A v \in DOMAIN states : \A n \in 0..most :
                   v + n * o.size <= maximum =>
                     /\ v + n * o.size \in DOMAIN r
                     /\ r[v + n * o.size].cost <= states[v].cost + n * o.price
<1> DEFINE D == DOMAIN states
           M == 0..most
           units(w) == w[1] + w[2] * o.size
           ways == {w \in D \X M : units(w) <= maximum}
           U == {units(w) : w \in ways}
           at(u) == {v \in ways : units(v) = u}
           made(u) == {AddPacks(states[w[1]], o, w[2]) : w \in at(u)}
           r == AddOffer(states, o, most, maximum)
<1>1. r = [u \in U |-> Least(made(u), StateKey)]
  BY DEF AddOffer
<1>2. /\ IsFiniteSet(D) /\ \A u \in D : u \in Nat /\ states[u] \in Ways
  BY StatesAre
<1>3. IsFiniteSet(ways)
  <2>1. IsFiniteSet(M)
    BY FS_Interval
  <2>2. IsFiniteSet(D \X M)
    <3> HIDE DEF D, M
    <3> QED
      BY <1>2, <2>1, FS_Product
  <2>3. ways \in SUBSET (D \X M)
    OBVIOUS
  <2> HIDE DEF ways, D, M
  <2> QED
    BY <2>2, <2>3, FS_Subset
<1>4. \A w \in ways : units(w) \in 0..maximum /\ w[1] \in D /\ w[2] \in M
  <2> SUFFICES ASSUME NEW w \in ways
               PROVE  units(w) \in 0..maximum /\ w[1] \in D /\ w[2] \in M
    OBVIOUS
  <2>1. w[1] \in Nat /\ w[2] \in Nat /\ w[1] \in D /\ w[2] \in M
    BY <1>2
  <2>2. w[2] * o.size \in Nat
    BY <2>1
  <2>3. units(w) \in Nat
    BY <2>1, <2>2
  <2>4. units(w) <= maximum
    OBVIOUS
  <2> QED
    BY <2>1, <2>3, <2>4
<1>5. \A w \in ways : AddPacks(states[w[1]], o, w[2]) \in Ways
  <2> SUFFICES ASSUME NEW v \in D, NEW n \in M PROVE AddPacks(states[v], o, n) \in Ways
    BY <1>4
  <2> DEFINE s == states[v]
             c == n * o.price
  <2>1. s \in Ways /\ n \in Nat
    BY <1>2
  <2>2. c \in Nat
    BY <2>1
  <2> HIDE DEF c, s
  <2>3. s.cost \in Nat /\ s.packs \in Nat /\ s.counts \in Seq(Nat)
    BY <2>1 DEF Ways
  <2>4. Append(s.counts, n) \in Seq(Nat)
    BY <2>1, <2>3
  <2>5. s.cost + c \in Nat /\ s.packs + n \in Nat
    BY <2>1, <2>2, <2>3
  <2> QED
    BY <2>4, <2>5 DEF AddPacks, Ways, c, s
<1>6. ASSUME NEW u \in U
      PROVE  /\ r[u] \in made(u)
             /\ \A x \in made(u) \ {r[u]} : ~Less(StateKey(x), StateKey(r[u]))
             /\ \A x \in made(u) : x \in Ways
  <2> DEFINE m == made(u)
             key == [x \in m |-> StateKey(x)]
  <2>1. m # {}
    OBVIOUS
  <2>2. IsFiniteSet(m)
    <3> DEFINE A == at(u)
               g == [w \in A |-> AddPacks(states[w[1]], o, w[2])]
    <3>1. A \in SUBSET ways
      OBVIOUS
    <3>2. IsFiniteSet(A)
      <4> HIDE DEF A, ways
      <4> QED
        BY <1>3, <3>1, FS_Subset
    <3>3. m = {g[w] : w \in A}
      OBVIOUS
    <3> HIDE DEF A, g, m
    <3> QED
      BY <3>2, <3>3, ImageIsFinite
  <2>3. \A x \in m : x \in Ways
    BY <1>5
  <2> HIDE DEF m
  <2>4. \A x \in m : key[x] \in Seq(Int) /\ key[x] = StateKey(x)
    <3> SUFFICES ASSUME NEW x \in m PROVE StateKey(x) \in Seq(Int)
      OBVIOUS
    <3>1. x.cost \in Int /\ x.packs \in Int /\ x.counts \in Seq(Int)
      BY <2>3 DEF Ways
    <3>2. <<x.cost, x.packs>> \in Seq(Int)
      BY <3>1
    <3> QED
      BY <3>1, <3>2 DEF StateKey
  <2> HIDE DEF key
  <2>5. \E x \in m : \A y \in m \ {x} : ~Less(key[y], key[x])
    BY <2>1, <2>2, <2>4, LeastExists
  <2>6. \E x \in m : \A y \in m \ {x} : ~Less(StateKey(y), StateKey(x))
    BY <2>4, <2>5
  <2>7. r[u] = Least(m, StateKey)
    BY <1>1 DEF m
  <2>8. r[u] = CHOOSE x \in m : \A y \in m \ {x} : ~Less(StateKey(y), StateKey(x))
    BY <2>7 DEF Least
  <2>9. r[u] \in m /\ \A y \in m \ {r[u]} : ~Less(StateKey(y), StateKey(r[u]))
    BY <2>6, <2>8
  <2> QED
    BY <2>3, <2>9 DEF m
<1>7. DOMAIN r = U /\ r = [u \in DOMAIN r |-> r[u]]
  <2> DEFINE L(u) == Least(made(u), StateKey)
  <2>1. r = [u \in U |-> L(u)]
    BY <1>1
  <2> HIDE DEF U, L, r
  <2> QED
    BY <2>1
<1>8. U \in SUBSET (0..maximum)
  BY <1>4
<1>9. r \in States
  <2>1. IsFiniteSet(U)
    <3>1. IsFiniteSet(0..maximum)
      BY FS_Interval
    <3> HIDE DEF U
    <3> QED
      BY <1>8, <3>1, FS_Subset
  <2>2. \A u \in U : u \in Nat /\ r[u] \in Ways
    BY <1>6, <1>8
  <2> HIDE DEF r, U
  <2> QED
    BY <1>7, <2>1, <2>2, StatesAre
<1>10. ASSUME NEW u \in U
       PROVE  \E v \in D : \E n \in M : u = v + n * o.size /\ r[u] = AddPacks(states[v], o, n)
  <2>1. PICK w \in at(u) : r[u] = AddPacks(states[w[1]], o, w[2])
    BY <1>6
  <2>2. w \in ways /\ units(w) = u
    OBVIOUS
  <2>3. w[1] \in D /\ w[2] \in M
    BY <1>4, <2>2
  <2> QED
    BY <2>1, <2>2, <2>3
<1>11. ASSUME NEW v \in D, NEW n \in M, v + n * o.size <= maximum
       PROVE  LET u == v + n * o.size
              IN  u \in U /\ r[u].cost <= states[v].cost + n * o.price
  <2> DEFINE w == <<v, n>>
             u == v + n * o.size
             x == AddPacks(states[v], o, n)
  <2>1. w \in ways /\ units(w) = u
    BY <1>11
  <2>2. u \in U /\ x \in made(u)
    BY <2>1
  <2>3. x.cost = states[v].cost + n * o.price
    BY DEF AddPacks
  <2>4. x \in Ways /\ r[u] \in Ways
    BY <1>6, <2>2
  <2>5. r[u] = x \/ ~Less(StateKey(x), StateKey(r[u]))
    BY <1>6, <2>2
  <2> HIDE DEF x, u, r, w, U, ways
  <2>6. ASSUME NEW y \in Ways, NEW z \in Ways, y.cost < z.cost
        PROVE  Less(StateKey(y), StateKey(z))
    <3> DEFINE s == StateKey(y)
               t == StateKey(z)
    <3>1. /\ y.counts \in Seq(Nat) /\ z.counts \in Seq(Nat)
          /\ y.cost \in Nat /\ z.cost \in Nat /\ y.packs \in Nat /\ z.packs \in Nat
      BY DEF Ways
    <3>2. /\ s \in Seq(Nat) /\ Len(s) >= 2 /\ s[1] = y.cost
          /\ t \in Seq(Nat) /\ Len(t) >= 2 /\ t[1] = z.cost
      BY <3>1 DEF StateKey
    <3> HIDE DEF s, t
    <3>3. 1 \in DOMAIN t /\ s[1] < t[1]
      BY <2>6, <3>2
    <3>4. Less(s, t)
      BY <3>3 DEF Less
    <3> QED
      BY <3>4 DEF s, t
  <2>7. r[u].cost <= x.cost
    <3>1. CASE r[u] = x
      <4>1. x.cost \in Nat
        BY <2>4 DEF Ways
      <4> QED
        BY <3>1, <4>1
    <3>2. CASE ~Less(StateKey(x), StateKey(r[u]))
      <4>1. ~(x.cost < r[u].cost)
        BY <2>4, <2>6, <3>2
      <4>2. x.cost \in Nat /\ r[u].cost \in Nat
        BY <2>4 DEF Ways
      <4> QED
        BY <4>1, <4>2
    <3> QED
      BY <2>5, <3>1, <3>2
  <2> QED
    BY <2>2, <2>3, <2>7 DEF u
<1> HIDE DEF U, r
<1> QED
  BY <1>7, <1>8, <1>9, <1>10, <1>11 DEF r

\* Packs that are for sale.
IsSupply(q, n) ==
  /\ DOMAIN q = 1..n
  /\ \A j \in 1..n : /\ q[j].sku \in Int /\ q[j].size \in Nat \ {0}
                     /\ q[j].price \in Nat \ {0} /\ q[j].stock \in Nat

\* The most packs of an offer that are there and fit.
MostOf(o, maximum) == Min({o.stock, maximum \div o.size})

\* A number of packs that fits is one that a division allows.
LEMMA AsManyAsFit ==
  ASSUME NEW m \in Nat, NEW b \in Nat \ {0}
  PROVE  m \div b \in Nat /\ \A a \in Nat : a * b <= m => a <= m \div b
<1> DEFINE d == m \div b
           r == m % b
<1>1. d \in Nat /\ r \in Nat /\ r < b /\ m = (b * d) + r
  BY Divided
<1> HIDE DEF d, r
<1>2. ASSUME NEW a \in Nat, a * b <= m, a > d PROVE FALSE
  <2> DEFINE e == a - (d + 1)
  <2>1. e \in Nat /\ a = (d + 1) + e
    BY <1>1, <1>2
  <2> HIDE DEF e
  <2>2. a * b = (b * d) + b + (e * b)
    BY <1>1, <2>1
  <2>3. b * d \in Nat /\ e * b \in Nat
    BY <1>1, <2>1
  <2> DEFINE x == b * d
             y == e * b
             z == a * b
  <2>4. x \in Nat /\ y \in Nat /\ z = x + b + y /\ z <= m /\ m = x + r
    BY <1>1, <1>2, <2>2, <2>3
  <2> HIDE DEF x, y, z
  <2> QED
    BY <1>1, <2>4
<1> QED
  BY <1>1, <1>2 DEF d

\* No more packs are there and fit.
LEMMA MostIs ==
  ASSUME NEW o, o.stock \in Nat, o.size \in Nat \ {0}, NEW maximum \in Nat
  PROVE  /\ MostOf(o, maximum) \in Nat /\ MostOf(o, maximum) <= o.stock
         /\ \A a \in Nat : a <= o.stock /\ a * o.size <= maximum => a <= MostOf(o, maximum)
<1> DEFINE d == maximum \div o.size
           S == {o.stock, d}
<1>1. d \in Nat /\ \A a \in Nat : a * o.size <= maximum => a <= d
  BY AsManyAsFit
<1> HIDE DEF d
<1>2. S \in SUBSET Nat /\ S # {}
  BY <1>1
<1> HIDE DEF S
<1>3. Min(S) \in S /\ \A x \in S : Min(S) <= x
  BY <1>2, LeastIs
<1>4. MostOf(o, maximum) = Min(S)
  BY DEF MostOf, S, d
<1> QED
  BY <1>1, <1>3, <1>4 DEF S

\* Offer by offer.
Stocking(h, q, maximum) ==
  h = [s \in SUBSET DOMAIN q |->
         IF s = {} THEN [u \in {0} |-> NoPacks]
         ELSE AddOffer(h[s \ {Max(s)}], q[Max(s)], MostOf(q[Max(s)], maximum), maximum)]

\* The states after each offer: those of _package_states, one loop at a time.
LEMMA StatesInSteps ==
  ASSUME NEW n \in Nat, NEW q, IsSupply(q, n), NEW maximum \in Nat
  PROVE  \E f : /\ f[0] = [u \in {0} |-> NoPacks]
                /\ \A i \in 1..n : f[i] = AddOffer(f[i - 1], q[i], MostOf(q[i], maximum), maximum)
                /\ \A i \in 0..n : f[i] \in States
                /\ PackageStates(q, maximum) = f[n]
<1> DEFINE S == 1..n
           base == [u \in {0} |-> NoPacks]
           step == [p \in States \X S |->
                      AddOffer(p[1], q[p[2]], MostOf(q[p[2]], maximum), maximum)]
           pick == Latest(n)
<1>1. DOMAIN q = S /\ IsFiniteSet(S) /\ Picks(pick, S)
  <2>1. DOMAIN q = S /\ IsFiniteSet(S)
    BY FS_Interval DEF IsSupply
  <2> QED
    BY <2>1, LatestPicks
<1>2. base \in States
  <2>1. IsFiniteSet({0})
    BY FS_Singleton
  <2>2. NoPacks \in Ways
    BY DEF NoPacks, Ways
  <2> HIDE DEF States
  <2>3. base = [u \in DOMAIN base |-> base[u]] /\ DOMAIN base = {0} /\ base[0] = NoPacks
    OBVIOUS
  <2> HIDE DEF base
  <2> QED
    BY <2>1, <2>2, <2>3, StatesAre
<1>3. step \in [States \X S -> States]
  <2> SUFFICES ASSUME NEW g \in States, NEW m \in S
               PROVE  AddOffer(g, q[m], MostOf(q[m], maximum), maximum) \in States
    OBVIOUS
  <2> DEFINE o == q[m]
  <2>1. o.size \in Nat \ {0} /\ o.price \in Nat /\ o.stock \in Nat
    BY DEF IsSupply
  <2> HIDE DEF o
  <2>2. MostOf(o, maximum) \in Nat
    BY <2>1, MostIs
  <2>3. AddOffer(g, o, MostOf(o, maximum), maximum) \in States
    BY <2>1, <2>2, AddOfferIs
  <2> QED
    BY <2>3 DEF o
<1>4. PICK h : UnfoldsIn(States, step, base, pick, S, h)
  <2> HIDE DEF step, pick, S, base
  <2> QED
    BY <1>1, <1>2, <1>3, UnfoldsInto
<1>5. Unfolds(step, base, pick, S, h) /\ \A s \in SUBSET S : h[s] \in States
  BY <1>4 DEF UnfoldsIn
<1>6. Stocking(h, q, maximum)
  <2> SUFFICES ASSUME NEW s \in SUBSET S, s # {}
               PROVE  h[s] = AddOffer(h[s \ {Max(s)}], q[Max(s)], MostOf(q[Max(s)], maximum),
                                      maximum)
    BY <1>1, <1>5 DEF Unfolds, Stocking
  <2>1. pick[s] = Max(s) /\ Max(s) \in S
    BY <1>1 DEF Picks, Latest
  <2>2. h[s] = step[<<h[s \ {Max(s)}], Max(s)>>]
    BY <1>5, <2>1 DEF Unfolds
  <2>3. h[s \ {Max(s)}] \in States
    BY <1>5
  <2> HIDE DEF S
  <2> QED
    BY <2>1, <2>2, <2>3
<1> DEFINE g == CHOOSE k : Stocking(k, q, maximum)
<1>7. Stocking(g, q, maximum)
  BY <1>6
<1>8. PackageStates(q, maximum) = g[DOMAIN q]
  BY DEF PackageStates, FoldLeft, MapThenFoldSet, Stocking, MostOf
<1> HIDE DEF g
<1>9. Unfolds(step, base, pick, S, g)
  <2> SUFFICES ASSUME NEW s \in SUBSET S, s # {}
               PROVE  g[s] = step[<<g[s \ {pick[s]}], pick[s]>>]
    BY <1>1, <1>7 DEF Unfolds, Stocking
  <2> DEFINE H == {t \in SUBSET S : g[t] \in States}
  <2>1. \A t \in SUBSET S : t # {} => pick[t] = Max(t) /\ Max(t) \in t
    BY <1>1 DEF Picks, Latest
  <2>2. \A t \in SUBSET S : t # {} =>
          g[t] = AddOffer(g[t \ {Max(t)}], q[Max(t)], MostOf(q[Max(t)], maximum), maximum)
    BY <1>1, <1>7 DEF Stocking
  <2>3. \A t \in SUBSET S : t \in H
    <3>1. {} \in H
      BY <1>2, <1>7 DEF Stocking
    <3>2. ASSUME NEW t \in SUBSET S, t # {}, t \ {pick[t]} \in H
          PROVE  t \in H
      <4>1. pick[t] = Max(t) /\ Max(t) \in S
        BY <2>1, <3>2
      <4>2. g[t] = AddOffer(g[t \ {Max(t)}], q[Max(t)], MostOf(q[Max(t)], maximum), maximum)
        BY <2>2, <3>2
      <4> DEFINE p == <<g[t \ {Max(t)}], Max(t)>>
      <4>3. p \in States \X S
        BY <3>2, <4>1
      <4>4. g[t] = step[p]
        <5> HIDE DEF S
        <5> QED
          BY <4>2, <4>3
      <4> HIDE DEF p, step
      <4>5. g[t] \in States
        BY <1>3, <4>3, <4>4
      <4> QED
        BY <4>5
    <3>3. H \subseteq SUBSET S
      OBVIOUS
    <3> HIDE DEF H, S, pick, step
    <3> QED
      BY <1>1, <3>1, <3>2, <3>3, OneByOne
  <2>4. g[s \ {Max(s)}] \in States
    <3>1. s \ {Max(s)} \in SUBSET S
      OBVIOUS
    <3> QED
      BY <2>3, <3>1
  <2>5. pick[s] = Max(s) /\ Max(s) \in S
    BY <2>1
  <2>6. g[s] = AddOffer(g[s \ {Max(s)}], q[Max(s)], MostOf(q[Max(s)], maximum), maximum)
    BY <2>2
  <2> HIDE DEF S
  <2> QED
    BY <2>4, <2>5, <2>6
<1>10. \A s \in SUBSET S : g[s] = h[s]
  <2> HIDE DEF S, step, base, pick
  <2> QED
    BY <1>1, <1>5, <1>9, UnfoldsAgree
<1>11. h[1..0] = base /\ \A i \in 1..n : h[1..i] = step[<<h[1..(i - 1)], i>>]
  <2>1. Unfolds(step, base, Latest(n), 1..n, h)
    BY <1>5
  <2> HIDE DEF step, base
  <2> QED
    BY <2>1, UnfoldsInSteps
<1> DEFINE f == [i \in 0..n |-> h[1..i]]
<1>12. \A i \in 0..n : f[i] \in States /\ f[i] = h[1..i]
  <2> SUFFICES ASSUME NEW i \in 0..n PROVE h[1..i] \in States
    OBVIOUS
  <2>1. 1..i \in SUBSET S
    OBVIOUS
  <2> QED
    BY <1>5, <2>1
<1>13. ASSUME NEW i \in 1..n
       PROVE  f[i] = AddOffer(f[i - 1], q[i], MostOf(q[i], maximum), maximum)
  <2>1. i - 1 \in 0..n /\ i \in 0..n
    OBVIOUS
  <2>2. f[i] = step[<<f[i - 1], i>>] /\ f[i - 1] \in States
    BY <1>11, <1>12, <2>1
  <2> HIDE DEF f
  <2> QED
    BY <2>2
<1>14. f[0] = base
  BY <1>11
<1>15. PackageStates(q, maximum) = f[n]
  <2>1. S \in SUBSET S /\ n \in 0..n
    OBVIOUS
  <2> QED
    BY <1>1, <1>8, <1>10, <2>1
<1> HIDE DEF f
<1> QED
  BY <1>12, <1>13, <1>14, <1>15

\* What so many packs of each of the first offers are, and cost.
UnitsTo(q, c, i) == SumFunctionOnSet([j \in DOMAIN q |-> c[j] * q[j].size], 1..i)
CostTo(q, c, i) == SumFunctionOnSet([j \in DOMAIN q |-> c[j] * q[j].price], 1..i)

\* The packs of the first offers that there are.
Counts(q, i) == {c \in Seq(Nat) : Len(c) = i /\ \A j \in 1..i : c[j] <= q[j].stock}

\* The ways to numbers of units that are known after some offers: each is a
\* way, and to what can be reached there is no cheaper one.
BestWays(states, q, i, maximum) ==
  /\ states \in States /\ DOMAIN states \in SUBSET (0..maximum)
  /\ \A u \in DOMAIN states : /\ states[u].counts \in Counts(q, i)
                              /\ UnitsTo(q, states[u].counts, i) = u
                              /\ CostTo(q, states[u].counts, i) = states[u].cost
  /\ \A c \in Counts(q, i) :
       UnitsTo(q, c, i) <= maximum =>
         UnitsTo(q, c, i) \in DOMAIN states /\ states[UnitsTo(q, c, i)].cost <= CostTo(q, c, i)

\* One more term.
LEMMA SumToNext ==
  ASSUME NEW n \in Nat, NEW i \in 1..n, NEW f, \A j \in 1..i : f[j] \in Nat,
         NEW g, \A j \in 1..(i - 1) : g[j] = f[j]
  PROVE  /\ SumFunctionOnSet(f, 1..i) = SumFunctionOnSet(g, 1..(i - 1)) + f[i]
         /\ SumFunctionOnSet(g, 1..(i - 1)) \in Nat
<1> DEFINE D == 1..i
           E == 1..(i - 1)
<1>1. IsFiniteSet(D) /\ IsFiniteSet(E) /\ i \in D /\ D \ {i} = E
  BY FS_Interval
<1>2. (\A j \in D : f[j] \in Nat) /\ (\A j \in E : g[j] = f[j]) /\ (\A j \in E : f[j] \in Nat)
  OBVIOUS
<1> HIDE DEF D, E
<1>3. SumFunctionOnSet(f, D) = f[i] + SumFunctionOnSet(f, E)
  <2>1. \A j \in D : f[j] \in Int
    BY <1>2
  <2>2. SumFunctionOnSet(f, D) = f[i] + SumFunctionOnSet(f, D \ {i})
    BY <1>1, <2>1, SumOfOneMore
  <2> QED
    BY <1>1, <2>2
<1>4. SumFunctionOnSet(g, E) = SumFunctionOnSet(f, E)
  BY <1>1, <1>2, SumSame
<1>5. SumFunctionOnSet(f, E) \in Nat /\ f[i] \in Nat
  BY <1>1, <1>2, SumNat
<1> QED
  BY <1>3, <1>4, <1>5 DEF D, E

\* Units and cents of packs are numbers.
LEMMA CountsAre ==
  ASSUME NEW n \in Nat, NEW q, IsSupply(q, n), NEW i \in 0..n, NEW c \in Counts(q, i)
  PROVE  /\ UnitsTo(q, c, i) \in Nat /\ CostTo(q, c, i) \in Nat
         /\ \A j \in 1..i : c[j] \in Nat /\ c[j] * q[j].size \in Nat /\ c[j] * q[j].price \in Nat
<1> DEFINE D == 1..i
           f == [j \in DOMAIN q |-> c[j] * q[j].size]
           g == [j \in DOMAIN q |-> c[j] * q[j].price]
<1>1. IsFiniteSet(D)
  BY FS_Interval
<1>2. \A j \in D : c[j] \in Nat
  BY DEF Counts
<1>3. \A j \in D : j \in DOMAIN q /\ q[j].size \in Nat /\ q[j].price \in Nat
  BY DEF IsSupply
<1>4. \A j \in D : c[j] * q[j].size \in Nat /\ c[j] * q[j].price \in Nat
  BY <1>2, <1>3
<1>5. \A j \in D : f[j] \in Nat /\ g[j] \in Nat
  BY <1>3, <1>4
<1>6. UnitsTo(q, c, i) = SumFunctionOnSet(f, D) /\ CostTo(q, c, i) = SumFunctionOnSet(g, D)
  BY DEF UnitsTo, CostTo
<1>7. SumFunctionOnSet(f, D) \in Nat /\ SumFunctionOnSet(g, D) \in Nat
  <2> HIDE DEF D, f, g
  <2> QED
    BY <1>1, <1>5, SumNat
<1> QED
  BY <1>2, <1>4, <1>6, <1>7

\* So many packs of one more offer.
LEMMA CountsExtend ==
  ASSUME NEW n \in Nat, NEW q, IsSupply(q, n), NEW i \in 1..n,
         NEW c \in Counts(q, i), NEW b, \A j \in 1..(i - 1) : b[j] = c[j]
  PROVE  /\ UnitsTo(q, c, i) = UnitsTo(q, b, i - 1) + c[i] * q[i].size
         /\ CostTo(q, c, i) = CostTo(q, b, i - 1) + c[i] * q[i].price
<1> DEFINE f == [j \in DOMAIN q |-> c[j] * q[j].size]
           g == [j \in DOMAIN q |-> c[j] * q[j].price]
           fb == [j \in DOMAIN q |-> b[j] * q[j].size]
           gb == [j \in DOMAIN q |-> b[j] * q[j].price]
<1>1. \A j \in 1..i : c[j] * q[j].size \in Nat /\ c[j] * q[j].price \in Nat
  <2>1. i \in 0..n
    OBVIOUS
  <2> QED
    BY <2>1, CountsAre
<1>2. \A j \in 1..i : j \in DOMAIN q
  BY DEF IsSupply
<1>3. \A j \in 1..i : f[j] \in Nat /\ g[j] \in Nat
  BY <1>1, <1>2
<1>4. \A j \in 1..(i - 1) : fb[j] = f[j] /\ gb[j] = g[j]
  <2> SUFFICES ASSUME NEW j \in 1..(i - 1) PROVE fb[j] = f[j] /\ gb[j] = g[j]
    OBVIOUS
  <2>1. j \in 1..i /\ b[j] = c[j]
    OBVIOUS
  <2> QED
    BY <1>2, <2>1
<1>5. f[i] = c[i] * q[i].size /\ g[i] = c[i] * q[i].price
  <2>1. i \in 1..i
    OBVIOUS
  <2> QED
    BY <1>2, <2>1
<1> HIDE DEF f, g, fb, gb
<1>6. SumFunctionOnSet(f, 1..i) = SumFunctionOnSet(fb, 1..(i - 1)) + f[i]
  BY <1>3, <1>4, SumToNext
<1>7. SumFunctionOnSet(g, 1..i) = SumFunctionOnSet(gb, 1..(i - 1)) + g[i]
  BY <1>3, <1>4, SumToNext
<1> QED
  BY <1>5, <1>6, <1>7 DEF UnitsTo, CostTo, f, g, fb, gb

\* Nothing is reached by no packs.
LEMMA NoneIsBest ==
  ASSUME NEW q, NEW maximum \in Nat
  PROVE  [u \in {0} |-> NoPacks] \in States => BestWays([u \in {0} |-> NoPacks], q, 0, maximum)
<1> DEFINE base == [u \in {0} |-> NoPacks]
<1>1. DOMAIN base = {0} /\ base[0].counts = <<>> /\ base[0].cost = 0
  BY DEF NoPacks
<1>2. \A c : UnitsTo(q, c, 0) = 0 /\ CostTo(q, c, 0) = 0
  <2>1. 1..0 = {}
    OBVIOUS
  <2> QED
    BY <2>1, SumOfNone DEF UnitsTo, CostTo
<1>3. <<>> \in Counts(q, 0)
  BY DEF Counts
<1>4. DOMAIN base \in SUBSET (0..maximum)
  BY <1>1
<1> HIDE DEF base
<1> QED
  BY <1>1, <1>2, <1>3, <1>4 DEF BestWays, base

\* One more offer keeps the ways best.
LEMMA OfferKeepsBest ==
  ASSUME NEW n \in Nat, NEW q, IsSupply(q, n), NEW i \in 1..n, NEW maximum \in Nat,
         NEW states, BestWays(states, q, i - 1, maximum)
  PROVE  BestWays(AddOffer(states, q[i], MostOf(q[i], maximum), maximum), q, i, maximum)
<1> DEFINE o == q[i]
           most == MostOf(o, maximum)
           r == AddOffer(states, o, most, maximum)
<1>1. o.size \in Nat \ {0} /\ o.price \in Nat /\ o.stock \in Nat
  BY DEF IsSupply
<1> HIDE DEF o
<1>2. /\ most \in Nat /\ most <= o.stock
      /\ \A a \in Nat : a <= o.stock /\ a * o.size <= maximum => a <= most
  BY <1>1, MostIs
<1>3. states \in States /\ i - 1 \in 0..n
  BY DEF BestWays
<1> HIDE DEF most
<1>4. /\ r \in States /\ DOMAIN r \in SUBSET (0..maximum)
      /\ \A u \in DOMAIN r : \E v \in DOMAIN states : \E k \in 0..most :
            u = v + k * o.size /\ r[u] = AddPacks(states[v], o, k)
      /\ \A v \in DOMAIN states : \A k \in 0..most :
            v + k * o.size <= maximum =>
              /\ v + k * o.size \in DOMAIN r
              /\ r[v + k * o.size].cost <= states[v].cost + k * o.price
  BY <1>1, <1>2, <1>3, AddOfferIs
<1> HIDE DEF r
<1>5. ASSUME NEW u \in DOMAIN r
      PROVE  /\ r[u].counts \in Counts(q, i)
             /\ UnitsTo(q, r[u].counts, i) = u
             /\ CostTo(q, r[u].counts, i) = r[u].cost
  <2>1. PICK v \in DOMAIN states : \E k \in 0..most :
          u = v + k * o.size /\ r[u] = AddPacks(states[v], o, k)
    BY <1>4
  <2>2. PICK k \in 0..most : u = v + k * o.size /\ r[u] = AddPacks(states[v], o, k)
    BY <2>1
  <2> DEFINE b == states[v].counts
             c == Append(b, k)
  <2>3. /\ b \in Counts(q, i - 1) /\ UnitsTo(q, b, i - 1) = v
        /\ CostTo(q, b, i - 1) = states[v].cost
    BY DEF BestWays
  <2>4. r[u].counts = c /\ r[u].cost = states[v].cost + k * o.price
    BY <2>2 DEF AddPacks
  <2> HIDE DEF b
  <2>5. b \in Seq(Nat) /\ Len(b) = i - 1 /\ \A j \in 1..(i - 1) : b[j] <= q[j].stock
    BY <2>3 DEF Counts
  <2>6. k \in Nat /\ k <= o.stock
    BY <1>1, <1>2
  <2>7. c \in Seq(Nat) /\ Len(c) = i /\ c[i] = k /\ \A j \in 1..(i - 1) : b[j] = c[j]
    BY <2>5, <2>6
  <2>8. c \in Counts(q, i)
    <3> HIDE DEF c
    <3>1. ASSUME NEW j \in 1..i PROVE c[j] <= q[j].stock
      <4>1. CASE j = i
        BY <2>6, <2>7, <4>1 DEF o
      <4>2. CASE j # i
        <5>1. j \in 1..(i - 1)
          BY <4>2
        <5> QED
          BY <2>5, <2>7, <5>1
      <4> QED
        BY <4>1, <4>2
    <3> QED
      BY <2>7, <3>1 DEF Counts
  <2> HIDE DEF c
  <2>9. /\ UnitsTo(q, c, i) = UnitsTo(q, b, i - 1) + c[i] * q[i].size
        /\ CostTo(q, c, i) = CostTo(q, b, i - 1) + c[i] * q[i].price
    BY <2>7, <2>8, CountsExtend
  <2> QED
    BY <2>2, <2>3, <2>4, <2>7, <2>8, <2>9 DEF o
<1>6. ASSUME NEW c \in Counts(q, i), UnitsTo(q, c, i) <= maximum
      PROVE  UnitsTo(q, c, i) \in DOMAIN r /\ r[UnitsTo(q, c, i)].cost <= CostTo(q, c, i)
  <2> DEFINE b == [j \in 1..(i - 1) |-> c[j]]
             k == c[i]
             v == UnitsTo(q, b, i - 1)
             x == k * o.size
             y == k * o.price
  <2>1. c \in Seq(Nat) /\ Len(c) = i /\ \A j \in 1..i : c[j] \in Nat /\ c[j] <= q[j].stock
    BY DEF Counts
  <2>2. /\ b \in Seq(Nat) /\ Len(b) = i - 1 /\ \A j \in 1..(i - 1) : b[j] = c[j]
    BY <2>1
  <2> HIDE DEF b
  <2>3. b \in Counts(q, i - 1)
    <3>1. \A j \in 1..(i - 1) : b[j] <= q[j].stock
      BY <2>1, <2>2
    <3> QED
      BY <2>2, <3>1 DEF Counts
  <2>4. UnitsTo(q, c, i) = v + x /\ CostTo(q, c, i) = CostTo(q, b, i - 1) + y
    BY <2>2, CountsExtend DEF o
  <2>5. v \in Nat /\ CostTo(q, b, i - 1) \in Nat
    BY <1>3, <2>3, CountsAre
  <2>6. k \in Nat /\ k <= o.stock
    BY <2>1 DEF o
  <2>7. x \in Nat /\ y \in Nat
    BY <1>1, <2>6
  <2> HIDE DEF k, v
  <2>8. v <= maximum /\ x <= maximum
    <3> HIDE DEF x, y
    <3> QED
      BY <1>6, <2>4, <2>5, <2>7
  <2>9. k \in 0..most
    BY <1>2, <2>6, <2>8
  <2>10. v \in DOMAIN states /\ states[v].cost <= CostTo(q, b, i - 1)
    BY <2>3, <2>8 DEF BestWays, v
  <2>11. v + x \in DOMAIN r /\ r[v + x].cost <= states[v].cost + y
    BY <1>4, <1>6, <2>4, <2>9, <2>10
  <2>12. r[v + x].cost \in Nat /\ states[v].cost \in Nat
    <3>1. r[v + x] \in Ways /\ states[v] \in Ways
      BY <1>3, <1>4, <2>10, <2>11, StatesAre
    <3> QED
      BY <3>1 DEF Ways
  <2> HIDE DEF x, y
  <2> QED
    BY <2>4, <2>5, <2>7, <2>10, <2>11, <2>12
<1>7. BestWays(r, q, i, maximum)
  BY <1>4, <1>5, <1>6 DEF BestWays
<1> QED
  BY <1>7 DEF r, o, most

\* The ways to all numbers of units.
LEMMA StatesAreBest ==
  ASSUME NEW n \in Nat, NEW q, IsSupply(q, n), NEW maximum \in Nat
  PROVE  BestWays(PackageStates(q, maximum), q, n, maximum)
<1>1. PICK f : /\ f[0] = [u \in {0} |-> NoPacks]
               /\ \A i \in 1..n : f[i] = AddOffer(f[i - 1], q[i], MostOf(q[i], maximum), maximum)
               /\ \A i \in 0..n : f[i] \in States
               /\ PackageStates(q, maximum) = f[n]
  BY StatesInSteps
<1> DEFINE H == {i \in 0..n : BestWays(f[i], q, i, maximum)}
<1>2. 0 \in H
  <2>1. 0 \in 0..n
    OBVIOUS
  <2>2. f[0] \in States
    BY <1>1, <2>1
  <2> QED
    BY <1>1, <2>1, <2>2, NoneIsBest
<1>3. \A i \in 1..n : i - 1 \in H => i \in H
  <2> SUFFICES ASSUME NEW i \in 1..n, i - 1 \in H PROVE i \in H
    OBVIOUS
  <2>1. BestWays(f[i - 1], q, i - 1, maximum) /\ i \in 0..n
    OBVIOUS
  <2>2. BestWays(f[i], q, i, maximum)
    BY <1>1, <2>1, OfferKeepsBest
  <2> QED
    BY <2>1, <2>2
<1> HIDE DEF H
<1>4. \A i \in 0..n : i \in H
  BY <1>2, <1>3, StepByStep
<1>5. n \in 0..n
  OBVIOUS
<1> QED
  BY <1>1, <1>4, <1>5 DEF H

\* The lines of so many packs, and that they cost what the packs cost.
LEMMA PackLinesAre ==
  ASSUME NEW n \in Nat, NEW q, IsSupply(q, n), NEW c \in Counts(q, n)
  PROVE  LET lines == At([i \in DOMAIN q |-> SelectedLine(q[i], c[i])], LAMBDA i : c[i] > 0)
         IN  /\ lines \in Seq(SelectedPacks)
             /\ SumFunctionOnSet([j \in DOMAIN lines |-> lines[j].cost], DOMAIN lines)
                  = CostTo(q, c, n)
             /\ UnitsTo(q, c, n) # 0 => CostTo(q, c, n) # 0
<1> DEFINE D == 1..n
           S == {i \in D : c[i] > 0}
           seq == [i \in D |-> SelectedLine(q[i], c[i])]
           lines == Pick(seq, InOrderOf(S))
           g == [j \in DOMAIN q |-> c[j] * q[j].price]
           f == [j \in DOMAIN lines |-> lines[j].cost]
           u == [j \in DOMAIN q |-> c[j] * q[j].size]
<1>1. DOMAIN q = D /\ IsFiniteSet(D) /\ n \in 0..n
  BY FS_Interval DEF IsSupply
<1>2. At([i \in DOMAIN q |-> SelectedLine(q[i], c[i])], LAMBDA i : c[i] > 0) = lines
  <2>1. [i \in DOMAIN q |-> SelectedLine(q[i], c[i])] = seq /\ DOMAIN seq = D
    BY <1>1
  <2> HIDE DEF seq
  <2> QED
    BY <2>1 DEF At, InOrderOf
<1>3. \A i \in D : /\ c[i] \in Nat /\ c[i] * q[i].size \in Nat /\ c[i] * q[i].price \in Nat
                   /\ q[i].sku \in Int /\ q[i].size \in Nat \ {0} /\ q[i].price \in Nat \ {0}
  BY <1>1, CountsAre DEF IsSupply
<1>4. \A i \in D : seq[i] \in SelectedPacks /\ seq[i].cost = g[i] /\ g[i] \in Nat /\ u[i] \in Nat
  <2> SUFFICES ASSUME NEW i \in D
               PROVE  seq[i] \in SelectedPacks /\ seq[i].cost = g[i] /\ g[i] \in Nat /\ u[i] \in Nat
    OBVIOUS
  <2> DEFINE x == c[i] * q[i].size
             y == c[i] * q[i].price
  <2>1. x \in Nat /\ y \in Nat /\ c[i] \in Nat /\ q[i].sku \in Int
    BY <1>3
  <2>2. seq[i] = [sku |-> q[i].sku, packs |-> c[i], units |-> x, cost |-> y]
    BY DEF SelectedLine
  <2>3. g[i] = y /\ u[i] = x
    BY <1>1
  <2> HIDE DEF x, y, seq, g, u
  <2> QED
    BY <2>1, <2>2, <2>3 DEF SelectedPacks
<1>5. S \in SUBSET (1..n)
  OBVIOUS
<1> HIDE DEF seq, lines, g, f, u, S
<1>6. /\ Cardinality(S) \in Nat /\ DOMAIN lines = 1..Cardinality(S)
      /\ lines = [k \in 1..Cardinality(S) |-> lines[k]]
      /\ \A k \in 1..Cardinality(S) : InOrderOf(S)[k] \in S /\ lines[k] = seq[InOrderOf(S)[k]]
  BY <1>5, PickedAt DEF lines
<1>7. \A k \in 1..Cardinality(S) : lines[k] \in SelectedPacks /\ lines[k].cost = g[InOrderOf(S)[k]]
  BY <1>4, <1>5, <1>6
<1>8. lines \in Seq(SelectedPacks)
  <2> DEFINE m == Cardinality(S)
             X == SelectedPacks
  <2>1. m \in Nat /\ lines = [k \in 1..m |-> lines[k]] /\ \A k \in 1..m : lines[k] \in X
    BY <1>6, <1>7
  <2> HIDE DEF m, X
  <2>2. lines \in Seq(X)
    BY <2>1
  <2> QED
    BY <2>2 DEF X
<1>9. \A k \in 1..Cardinality(S) : f[k] = g[InOrderOf(S)[k]]
  BY <1>6, <1>7 DEF f
<1>10. SumFunctionOnSet(f, 1..Cardinality(S)) = SumFunctionOnSet(g, S)
  <2>1. \A i \in S : g[i] \in Nat
    BY <1>4, <1>5
  <2> QED
    BY <1>5, <1>9, <2>1, SumPicked
<1>11. \A i \in D \ S : g[i] = 0 /\ u[i] = 0
  <2> SUFFICES ASSUME NEW i \in D \ S PROVE g[i] = 0 /\ u[i] = 0
    OBVIOUS
  <2>1. c[i] = 0
    BY <1>3 DEF S
  <2>2. 0 * q[i].price = 0 /\ 0 * q[i].size = 0
    BY <1>3
  <2> QED
    BY <1>1, <2>1, <2>2 DEF g, u
<1>12. SumFunctionOnSet(g, D) = SumFunctionOnSet(g, S)
  <2>1. \A i \in D : g[i] \in Int
    BY <1>4
  <2> HIDE DEF D
  <2>2. S \in SUBSET D
    BY <1>5 DEF D
  <2> QED
    BY <1>1, <1>11, <2>1, <2>2, SumOfTheRest
<1>13. CostTo(q, c, n) = SumFunctionOnSet(g, D) /\ UnitsTo(q, c, n) = SumFunctionOnSet(u, D)
  BY DEF CostTo, UnitsTo, g, u
<1>14. ASSUME SumFunctionOnSet(u, D) # 0 PROVE SumFunctionOnSet(g, D) # 0
  <2>1. S # {}
    <3>1. ASSUME S = {} PROVE FALSE
      <4>1. \A i \in D \ {} : u[i] = 0
        BY <1>11, <3>1
      <4>2. (\A i \in D : u[i] \in Int) /\ {} \in SUBSET D
        BY <1>4
      <4> HIDE DEF D
      <4>3. SumFunctionOnSet(u, D) = SumFunctionOnSet(u, {})
        BY <1>1, <4>1, <4>2, SumOfTheRest
      <4> QED
        BY <1>14, <4>3, SumOfNone
    <3> QED
      BY <3>1
  <2>2. PICK i \in S : TRUE
    BY <2>1
  <2>3. i \in D /\ c[i] > 0
    BY DEF S
  <2>4. g[i] > 0
    <3> DEFINE a == c[i]
               b == q[i].price
    <3>1. a \in Nat \ {0} /\ b \in Nat \ {0}
      BY <1>3, <2>3
    <3>2. g[i] = a * b
      BY <1>1, <2>3 DEF g
    <3> HIDE DEF a, b
    <3>3. a * b > 0
      BY <3>1
    <3> QED
      BY <3>2, <3>3
  <2>5. g[i] <= SumFunctionOnSet(g, D) /\ SumFunctionOnSet(g, D) \in Nat
    <3>1. \A j \in D : g[j] \in Nat
      BY <1>4
    <3> HIDE DEF D
    <3> QED
      BY <1>1, <2>3, <3>1, SumAtLeast, SumNat
  <2>6. g[i] \in Nat
    BY <1>4, <2>3
  <2> QED
    BY <2>4, <2>5, <2>6
<1>15. SumFunctionOnSet([j \in DOMAIN lines |-> lines[j].cost], DOMAIN lines) = CostTo(q, c, n)
  BY <1>6, <1>10, <1>12, <1>13 DEF f
<1> QED
  BY <1>2, <1>8, <1>13, <1>14, <1>15

\* What can be bought of the offers without leaving the limits.
InReach(q, n, quantity, maximum) ==
  {c \in Counts(q, n) : quantity <= UnitsTo(q, c, n) /\ UnitsTo(q, c, n) <= maximum}

\* The best of what is in reach: the cheapest, and with the least units of those.
IsBestOf(sel, q, n, quantity, maximum) ==
  /\ \E c \in InReach(q, n, quantity, maximum) :
       /\ sel.units = UnitsTo(q, c, n) /\ sel.cost = CostTo(q, c, n)
       /\ sel.lines = At([i \in DOMAIN q |-> SelectedLine(q[i], c[i])], LAMBDA i : c[i] > 0)
  /\ \A c \in InReach(q, n, quantity, maximum) :
       \/ sel.cost < CostTo(q, c, n)
       \/ sel.cost = CostTo(q, c, n) /\ sel.units <= UnitsTo(q, c, n)

\* A selection up to some number of units is the best in reach of it, and is
\* missing only when nothing reaches it.
LEMMA BestInReach ==
  ASSUME None \notin Int, NEW n \in Nat, NEW q, IsSupply(q, n), NEW quantity \in Nat \ {0},
         NEW maximum \in Nat, NEW exception
  PROVE  LET sel == SelectionUpTo(maximum, q, quantity, exception)
         IN  /\ InReach(q, n, quantity, maximum) = {} => sel = None
             /\ InReach(q, n, quantity, maximum) # {} =>
                  /\ IsSelection(sel) /\ IsBestOf(sel, q, n, quantity, maximum)
                  /\ sel.store = q[1].store /\ sel.over = sel.units - quantity
                  /\ sel.exception = exception
                  /\ \E u, s : sel = Selection(q, quantity, u, s, exception)
<1> DEFINE states == PackageStates(q, maximum)
           R == InReach(q, n, quantity, maximum)
           E == {u \in DOMAIN states : u >= quantity}
           sel == SelectionUpTo(maximum, q, quantity, exception)
           key == [u \in E |-> <<states[u].cost, u, states[u].packs>> \o states[u].counts]
           best == FirstOf(E, states)
<1>1. BestWays(states, q, n, maximum)
  BY StatesAreBest
<1>2. sel = SelectionAt(q, quantity, best, states, exception)
  BY DEF SelectionUpTo, SelectionFrom, BestQualifying
<1> HIDE DEF states, sel
<1>3. /\ DOMAIN states \in SUBSET (0..maximum) /\ IsFiniteSet(DOMAIN states)
      /\ \A u \in DOMAIN states : u \in Nat /\ states[u] \in Ways
      /\ \A u \in DOMAIN states : /\ states[u].counts \in Counts(q, n)
                                  /\ UnitsTo(q, states[u].counts, n) = u
                                  /\ CostTo(q, states[u].counts, n) = states[u].cost
      /\ \A c \in R : UnitsTo(q, c, n) \in DOMAIN states
                        /\ states[UnitsTo(q, c, n)].cost <= CostTo(q, c, n)
  BY <1>1, StatesAre DEF BestWays, InReach
<1>4. \A c \in R : UnitsTo(q, c, n) \in E
  <2>1. \A c \in R : UnitsTo(q, c, n) \in Nat /\ UnitsTo(q, c, n) >= quantity
    <3>1. \A c \in R : c \in Counts(q, n) /\ quantity <= UnitsTo(q, c, n)
      BY DEF InReach
    <3>2. n \in 0..n
      OBVIOUS
    <3>3. \A c \in Counts(q, n) : UnitsTo(q, c, n) \in Nat
      BY <3>2, CountsAre
    <3> QED
      BY <3>1, <3>3
  <2> QED
    BY <1>3, <2>1
<1>5. ASSUME NEW u \in E PROVE states[u].counts \in R
  <2>1. /\ states[u].counts \in Counts(q, n) /\ UnitsTo(q, states[u].counts, n) = u
        /\ quantity <= u /\ u <= maximum
    BY <1>3
  <2> QED
    BY <2>1 DEF InReach
<1>6. CASE R = {}
  <2>1. E = {}
    BY <1>5, <1>6
  <2>2. best = None
    BY <2>1 DEF FirstOf
  <2>3. sel = None
    BY <1>2, <2>2 DEF SelectionAt
  <2> QED
    BY <1>6, <2>3 DEF sel
<1>7. CASE R # {}
  <2>1. E # {}
    BY <1>4, <1>7
  <2>2. IsFiniteSet(E) /\ \A u \in E : u \in Nat /\ states[u] \in Ways
    <3>1. E \in SUBSET DOMAIN states
      OBVIOUS
    <3>2. IsFiniteSet(E)
      <4> HIDE DEF E
      <4> QED
        BY <1>3, <3>1, FS_Subset
    <3> QED
      BY <1>3, <3>2
  <2>3. \A u \in E : /\ key[u] = <<states[u].cost, u, states[u].packs>> \o states[u].counts
                     /\ key[u] \in Seq(Int)
    <3> SUFFICES ASSUME NEW u \in E
                 PROVE  <<states[u].cost, u, states[u].packs>> \o states[u].counts \in Seq(Int)
      OBVIOUS
    <3> DEFINE s == states[u]
               a == <<s.cost, u, s.packs>>
    <3>1. s.cost \in Int /\ s.packs \in Int /\ s.counts \in Seq(Int) /\ u \in Int
      BY <2>2 DEF Ways
    <3>2. a \in Seq(Int)
      BY <3>1
    <3> HIDE DEF s, a
    <3>3. a \o s.counts \in Seq(Int)
      BY <3>1, <3>2
    <3> QED
      BY <3>3 DEF a, s
  <2> HIDE DEF E, key
  <2>4. \E x \in E : \A y \in E \ {x} : ~Less(key[y], key[x])
    BY <2>1, <2>2, <2>3, LeastExists
  <2>5. best = CHOOSE x \in E : \A y \in E \ {x} :
                 ~Less(<<states[y].cost, y, states[y].packs>> \o states[y].counts,
                       <<states[x].cost, x, states[x].packs>> \o states[x].counts)
    BY <2>1 DEF FirstOf, Least
  <2>6. \E x \in E : \A y \in E \ {x} :
          ~Less(<<states[y].cost, y, states[y].packs>> \o states[y].counts,
                <<states[x].cost, x, states[x].packs>> \o states[x].counts)
    BY <2>3, <2>4
  <2>7. /\ best \in E
        /\ \A y \in E \ {best} :
             ~Less(<<states[y].cost, y, states[y].packs>> \o states[y].counts,
                   <<states[best].cost, best, states[best].packs>> \o states[best].counts)
    BY <2>5, <2>6
  <2>8. \A y \in E : y = best \/ ~Less(key[y], key[best])
    BY <2>3, <2>7
  <2> HIDE DEF best
  <2>9. best \in Nat /\ best # None /\ states[best] \in Ways
    BY <2>2, <2>7
  <2> DEFINE s == states[best]
             c == s.counts
             lines == At([i \in DOMAIN q |-> SelectedLine(q[i], c[i])], LAMBDA i : c[i] > 0)
  <2>10. sel = Selection(q, quantity, best, s, exception)
    BY <1>2, <2>9 DEF SelectionAt
  <2>11. /\ sel.store = q[1].store /\ sel.units = best /\ sel.over = best - quantity
         /\ sel.cost = s.cost /\ sel.exception = exception /\ sel.lines = lines
    <3> HIDE DEF s, sel
    <3> QED
      BY <2>10 DEF Selection
  <2>12. c \in R /\ c \in Counts(q, n) /\ UnitsTo(q, c, n) = best /\ CostTo(q, c, n) = s.cost
    BY <1>3, <1>5, <2>7 DEF E
  <2>13. best # 0
    BY <2>7, <2>9 DEF E
  <2> HIDE DEF s, c
  <2>14. /\ lines \in Seq(SelectedPacks)
         /\ SumFunctionOnSet([j \in DOMAIN lines |-> lines[j].cost], DOMAIN lines) = CostTo(q, c, n)
         /\ UnitsTo(q, c, n) # 0 => CostTo(q, c, n) # 0
    BY <2>12, PackLinesAre
  <2> HIDE DEF lines
  <2>15. s.cost \in Nat
    BY <2>9 DEF Ways, s
  <2>16. IsSelection(sel)
    BY <2>11, <2>12, <2>13, <2>14, <2>15 DEF IsSelection
  <2>17. ASSUME NEW d \in R
         PROVE  \/ sel.cost < CostTo(q, d, n)
                \/ sel.cost = CostTo(q, d, n) /\ sel.units <= UnitsTo(q, d, n)
    <3> DEFINE v == UnitsTo(q, d, n)
               x == states[v]
               w == CostTo(q, d, n)
    <3>1. v \in E /\ v \in Nat /\ x \in Ways /\ x.cost <= w
      BY <1>3, <1>4, <2>2
    <3>2. w \in Nat
      <4>1. d \in Counts(q, n) /\ n \in 0..n
        BY DEF InReach
      <4> QED
        BY <4>1, CountsAre
    <3>3. v = best \/ ~Less(key[v], key[best])
      BY <2>8, <3>1
    <3> HIDE DEF v, w, x
    <3>4. /\ key[v] = <<x.cost, v, x.packs>> \o x.counts
          /\ key[best] = <<s.cost, best, s.packs>> \o s.counts
      BY <2>3, <2>7, <3>1 DEF x, s
    <3>5. /\ x.cost \in Nat /\ x.packs \in Nat /\ x.counts \in Seq(Nat)
          /\ s.cost \in Nat /\ s.packs \in Nat /\ s.counts \in Seq(Nat)
      BY <2>9, <3>1 DEF Ways, s
    <3>6. ~Less(key[v], key[best]) => s.cost < x.cost \/ (s.cost = x.cost /\ best <= v)
      <4> DEFINE a == key[v]
                 b == key[best]
      <4>1. /\ a \in Seq(Nat) /\ Len(a) >= 3 /\ a[1] = x.cost /\ a[2] = v
            /\ b \in Seq(Nat) /\ Len(b) >= 3 /\ b[1] = s.cost /\ b[2] = best
        BY <2>9, <3>1, <3>4, <3>5, SMTT(30)
      <4> HIDE DEF a, b
      <4>2. ASSUME a[1] < b[1] PROVE Less(a, b)
        <5>1. 1 \in DOMAIN b
          BY <4>1
        <5> QED
          BY <4>2, <5>1 DEF Less
      <4>3. ASSUME a[1] = b[1], a[2] < b[2] PROVE Less(a, b)
        <5>1. 2 \in DOMAIN b /\ \A j \in 1..(2 - 1) : j <= Len(a) /\ a[j] = b[j]
          BY <4>1, <4>3
        <5> QED
          BY <4>3, <5>1 DEF Less
      <4>4. ASSUME ~Less(a, b) PROVE s.cost < x.cost \/ (s.cost = x.cost /\ best <= v)
        <5>1. ~(a[1] < b[1]) /\ ~(a[1] = b[1] /\ a[2] < b[2])
          BY <4>2, <4>3, <4>4
        <5>2. x.cost \in Nat /\ s.cost \in Nat /\ v \in Nat /\ best \in Nat
          BY <2>9, <3>1, <3>5
        <5> DEFINE xc == x.cost
                   sc == s.cost
        <5>3. ~(xc < sc) /\ ~(xc = sc /\ v < best) /\ xc \in Nat /\ sc \in Nat
          BY <4>1, <5>1, <5>2
        <5> HIDE DEF xc, sc
        <5>4. sc < xc \/ (sc = xc /\ best <= v)
          BY <5>2, <5>3
        <5> QED
          BY <5>4 DEF xc, sc
      <4> QED
        BY <4>4 DEF a, b
    <3>7. s.cost < x.cost \/ (s.cost = x.cost /\ best <= v)
      <4>1. CASE v = best
        BY <2>9, <3>5, <4>1 DEF x, s
      <4> QED
        BY <3>3, <3>6, <4>1
    <3>8. s.cost < w \/ (s.cost = w /\ best <= v)
      BY <3>1, <3>2, <3>5, <3>7
    <3> QED
      BY <2>11, <3>8 DEF v, w
  <2>18. IsBestOf(sel, q, n, quantity, maximum)
    <3>1. /\ c \in InReach(q, n, quantity, maximum)
          /\ sel.units = UnitsTo(q, c, n) /\ sel.cost = CostTo(q, c, n)
          /\ sel.lines = At([i \in DOMAIN q |-> SelectedLine(q[i], c[i])], LAMBDA i : c[i] > 0)
      BY <2>11, <2>12 DEF lines
    <3> QED
      BY <2>17, <3>1 DEF IsBestOf
  <2> QED
    BY <1>7, <2>10, <2>11, <2>16, <2>18 DEF sel
<1> QED
  BY <1>6, <1>7

\* Removing packs while enough is left leads to what is in reach of the
\* largest pack, and costs less.
LEMMA FewerWillDo ==
  ASSUME NEW n \in Nat, NEW q, IsSupply(q, n), NEW quantity \in Nat \ {0},
         NEW largest \in Nat, \A j \in 1..n : q[j].size <= largest,
         NEW c \in Counts(q, n), quantity <= UnitsTo(q, c, n)
  PROVE  \E d \in InReach(q, n, quantity, quantity + largest - 1) :
            \/ CostTo(q, d, n) < CostTo(q, c, n)
            \/ CostTo(q, d, n) = CostTo(q, c, n) /\ UnitsTo(q, d, n) = UnitsTo(q, c, n)
<1> DEFINE Good(d) == /\ d \in Counts(q, n) /\ quantity <= UnitsTo(q, d, n)
                      /\ \/ CostTo(q, d, n) < CostTo(q, c, n)
                         \/ CostTo(q, d, n) = CostTo(q, c, n) /\ UnitsTo(q, d, n) = UnitsTo(q, c, n)
           G == {d \in Counts(q, n) : Good(d)}
           V == {UnitsTo(q, d, n) : d \in G}
<1>1. n \in 0..n /\ \A d \in Counts(q, n) : UnitsTo(q, d, n) \in Nat /\ CostTo(q, d, n) \in Nat
  <2>1. n \in 0..n
    OBVIOUS
  <2> QED
    BY <2>1, CountsAre
<1>2. c \in G
  OBVIOUS
<1>3. V \in SUBSET Nat /\ V # {}
  BY <1>1, <1>2
<1>4. PICK m \in V : \A u \in V : m <= u
  <2> HIDE DEF V
  <2> QED
    BY <1>3, LeastNumber
<1>5. PICK d \in G : UnitsTo(q, d, n) = m
  BY <1>4
<1>6. Good(d)
  BY <1>5
<1>7. ASSUME m > quantity + largest - 1 PROVE FALSE
  <2> DEFINE D == 1..n
             fu == [j \in DOMAIN q |-> d[j] * q[j].size]
             fc == [j \in DOMAIN q |-> d[j] * q[j].price]
  <2>1. /\ IsFiniteSet(D) /\ DOMAIN q = D
        /\ \A j \in D : /\ d[j] \in Nat /\ d[j] <= q[j].stock
                        /\ q[j].size \in Nat \ {0} /\ q[j].price \in Nat \ {0} /\ q[j].stock \in Nat
        /\ d \in Seq(Nat) /\ Len(d) = n
    <3>1. IsFiniteSet(D)
      <4> HIDE DEF fu, fc, G, V, Good
      <4> QED
        BY FS_Interval
    <3>2. d \in Seq(Nat) /\ Len(d) = n /\ \A j \in 1..n : d[j] <= q[j].stock
      <4> HIDE DEF fu, fc
      <4>1. d \in Counts(q, n)
        BY <1>6
      <4> QED
        BY <4>1 DEF Counts
    <3>3. \A j \in 1..n : d[j] \in Nat
      BY <3>2
    <3>4. DOMAIN q = D /\ \A j \in D : /\ q[j].size \in Nat \ {0} /\ q[j].price \in Nat \ {0}
                                       /\ q[j].stock \in Nat
      BY DEF IsSupply
    <3> QED
      BY <3>1, <3>2, <3>3, <3>4
  <2>2. UnitsTo(q, d, n) = SumFunctionOnSet(fu, D) /\ CostTo(q, d, n) = SumFunctionOnSet(fc, D)
    BY DEF UnitsTo, CostTo
  <2>3. \A j \in D : /\ fu[j] \in Nat /\ fc[j] \in Nat
                     /\ fu[j] = d[j] * q[j].size /\ fc[j] = d[j] * q[j].price
    <3>1. \A j \in 1..n : d[j] * q[j].size \in Nat /\ d[j] * q[j].price \in Nat
      BY <1>1, <1>6, CountsAre
    <3> QED
      BY <2>1, <3>1
  <2> HIDE DEF fu, fc, D
  <2>4. m \in Nat /\ m > 0
    <3>1. m \in Nat
      BY <1>3, <1>4
    <3> QED
      BY <1>5, <1>6, <3>1
  <2>5. \E j \in D : d[j] # 0
    <3> SUFFICES ASSUME \A j \in D : d[j] = 0 PROVE FALSE
      OBVIOUS
    <3>1. \A j \in D : fu[j] = 0
      <4> SUFFICES ASSUME NEW j \in D PROVE fu[j] = 0
        OBVIOUS
      <4>1. 0 * q[j].size = 0
        BY <2>1
      <4> QED
        BY <2>3, <4>1
    <3>2. (\A j \in D \ {} : fu[j] = 0) /\ (\A j \in D : fu[j] \in Int) /\ {} \in SUBSET D
      BY <3>1
    <3>3. SumFunctionOnSet(fu, D) = SumFunctionOnSet(fu, {})
      BY <2>1, <3>2, SumOfTheRest
    <3> QED
      BY <1>5, <2>2, <2>4, <3>3, SumOfNone
  <2>6. PICK i \in D : d[i] # 0
    BY <2>5
  <2> DEFINE e == [d EXCEPT ![i] = @ - 1]
             gu == [j \in DOMAIN q |-> e[j] * q[j].size]
             gc == [j \in DOMAIN q |-> e[j] * q[j].price]
             a == d[i]
             size == q[i].size
             price == q[i].price
  <2>7. /\ e \in Seq(Nat) /\ Len(e) = n /\ e[i] = a - 1 /\ e[i] \in Nat
        /\ \A j \in D \ {i} : e[j] = d[j]
    <3>1. i \in DOMAIN d /\ DOMAIN d = 1..n
      BY <2>1 DEF D
    <3>2. a - 1 \in Nat
      BY <2>1, <2>6
    <3> QED
      BY <2>1, <2>6, <3>1, <3>2 DEF D
  <2> HIDE DEF e
  <2>8. e \in Counts(q, n)
    <3>1. ASSUME NEW j \in D PROVE e[j] <= q[j].stock
      <4>1. CASE j = i
        BY <2>1, <2>6, <2>7, <4>1
      <4>2. CASE j # i
        BY <2>1, <2>7, <4>2
      <4> QED
        BY <4>1, <4>2
    <3> QED
      BY <2>7, <3>1 DEF Counts, D
  <2>9. UnitsTo(q, e, n) = SumFunctionOnSet(gu, D) /\ CostTo(q, e, n) = SumFunctionOnSet(gc, D)
    BY DEF UnitsTo, CostTo, D
  <2>10. \A j \in D \ {i} : gu[j] = fu[j] /\ gc[j] = fc[j]
    BY <2>1, <2>3, <2>7
  <2>11. /\ gu[i] = (a - 1) * size /\ gc[i] = (a - 1) * price
         /\ fu[i] = a * size /\ fc[i] = a * price
    BY <2>1, <2>3, <2>6, <2>7
  <2> DEFINE ru == SumFunctionOnSet(gu, D \ {i})
             rc == SumFunctionOnSet(gc, D \ {i})
  <2>12. /\ \A j \in D : gu[j] \in Nat /\ gc[j] \in Nat
         /\ SumFunctionOnSet(fu, D) = ru + fu[i] /\ SumFunctionOnSet(gu, D) = gu[i] + ru
         /\ SumFunctionOnSet(fc, D) = rc + fc[i] /\ SumFunctionOnSet(gc, D) = gc[i] + rc
    <3>1. \A j \in D : gu[j] \in Nat /\ gc[j] \in Nat
      <4>1. \A j \in 1..n : e[j] * q[j].size \in Nat /\ e[j] * q[j].price \in Nat
        BY <1>1, <2>8, CountsAre
      <4> QED
        BY <2>1, <4>1 DEF D
    <3> HIDE DEF gu, gc, a, size, price, V, G
    <3>6. IsFiniteSet(D) /\ i \in D
      BY <2>1, <2>6
    <3>2. SumFunctionOnSet(fu, D) = ru + fu[i]
      <4>1. (\A j \in D : fu[j] \in Int) /\ \A j \in D \ {i} : gu[j] = fu[j]
        BY <2>3, <2>10
      <4> QED
        BY <3>6, <4>1, SumChanged
    <3>3. SumFunctionOnSet(fc, D) = rc + fc[i]
      <4>1. (\A j \in D : fc[j] \in Int) /\ \A j \in D \ {i} : gc[j] = fc[j]
        BY <2>3, <2>10
      <4> QED
        BY <3>6, <4>1, SumChanged
    <3>4. SumFunctionOnSet(gu, D) = gu[i] + ru
      <4>1. \A j \in D : gu[j] \in Int
        BY <3>1
      <4> QED
        BY <3>6, <4>1, SumOfOneMore
    <3>5. SumFunctionOnSet(gc, D) = gc[i] + rc
      <4>1. \A j \in D : gc[j] \in Int
        BY <3>1
      <4> QED
        BY <3>6, <4>1, SumOfOneMore
    <3> QED
      BY <3>1, <3>2, <3>3, <3>4, <3>5
  <2>13. ru \in Int /\ rc \in Int
    <3> DEFINE E == D \ {i}
    <3>1. IsFiniteSet(E)
      BY <2>1, FS_Difference
    <3>2. \A j \in E : gu[j] \in Int /\ gc[j] \in Int
      <4> HIDE DEF gu, gc, a, size, price, V, G, ru, rc
      <4> QED
        BY <2>12
    <3> HIDE DEF E, gu, gc
    <3> QED
      BY <3>1, <3>2, SumInt DEF E
  <2>14. a * size = ((a - 1) * size) + size /\ a * price = ((a - 1) * price) + price
    <3>1. a \in Int /\ size \in Int /\ price \in Int
      BY <2>1, <2>6
    <3> HIDE DEF a, size, price
    <3> QED
      BY <3>1
  <2>15. (a - 1) * size \in Int /\ (a - 1) * price \in Int
    <3>1. a \in Int /\ size \in Int /\ price \in Int
      BY <2>1, <2>6
    <3> HIDE DEF a, size, price
    <3> QED
      BY <3>1
  <2> HIDE DEF gu, gc, ru, rc
  <2>16. UnitsTo(q, e, n) = m - size /\ CostTo(q, e, n) = CostTo(q, d, n) - price
    <3> DEFINE x == (a - 1) * size
               y == (a - 1) * price
    <3>1. /\ x \in Int /\ y \in Int /\ fu[i] = x + size /\ fc[i] = y + price
          /\ gu[i] = x /\ gc[i] = y
      BY <2>11, <2>14, <2>15
    <3>2. size \in Int /\ price \in Int
      BY <2>1, <2>6
    <3> HIDE DEF x, y, size, price
    <3> QED
      BY <1>5, <2>2, <2>9, <2>12, <2>13, <3>1, <3>2
  <2>17. quantity <= UnitsTo(q, e, n)
    <3>1. size <= largest /\ size \in Nat
      BY <2>1, <2>6 DEF D
    <3> HIDE DEF size
    <3> QED
      BY <1>7, <2>4, <2>16, <3>1
  <2>18. CostTo(q, e, n) < CostTo(q, c, n)
    <3>1. /\ CostTo(q, d, n) \in Nat /\ CostTo(q, c, n) \in Nat /\ price \in Nat \ {0}
          /\ CostTo(q, d, n) <= CostTo(q, c, n)
      BY <1>1, <1>6, <2>1, <2>6
    <3> HIDE DEF price
    <3> QED
      BY <2>16, <3>1
  <2>19. e \in G
    BY <2>8, <2>17, <2>18
  <2>20. UnitsTo(q, e, n) \in V
    BY <2>19
  <2>21. size \in Nat \ {0}
    BY <2>1, <2>6
  <2> HIDE DEF size, V, G
  <2> QED
    BY <1>4, <2>4, <2>16, <2>20, <2>21
<1>8. d \in InReach(q, n, quantity, quantity + largest - 1)
  <2>1. m \in Nat
    BY <1>3, <1>4
  <2>2. m <= quantity + largest - 1
    BY <1>7, <2>1
  <2> QED
    BY <1>5, <1>6, <2>2 DEF InReach
<1> QED
  BY <1>6, <1>8

\* Half of the quantity, or six.
LEMMA CeilingIs ==
  ASSUME NEW quantity \in Nat
  PROVE  /\ AllowedOverage(quantity) \in Nat
         /\ \A k \in Nat : k <= AllowedOverage(quantity) <=> (2 * k <= quantity \/ k <= 6)
<1> DEFINE h == (quantity * 50) \div 100
           S == {h, 6}
<1>1. h \in Nat /\ \A k \in Nat : k <= h <=> 2 * k <= quantity
  <2>1. h = quantity \div 2
    OBVIOUS
  <2>2. quantity \div 2 \in Nat /\ \A k \in Nat : k <= quantity \div 2 <=> 2 * k <= quantity
    OBVIOUS
  <2> QED
    BY <2>1, <2>2
<1> HIDE DEF h
<1>2. S \in SUBSET Nat /\ S # {} /\ IsFiniteSet(S) /\ h \in S /\ 6 \in S
  <2>1. S = {h} \cup {6}
    OBVIOUS
  <2>2. IsFiniteSet({h}) /\ IsFiniteSet({6})
    BY FS_Singleton
  <2>3. IsFiniteSet({h} \cup {6})
    BY <2>2, FS_Union
  <2> QED
    BY <1>1, <2>1, <2>3
<1>3. S = {h, 6}
  OBVIOUS
<1> HIDE DEF S
<1>4. Max(S) \in S /\ \A x \in S : x <= Max(S)
  BY <1>2, LargestIs
<1>5. AllowedOverage(quantity) = Max(S)
  BY DEF AllowedOverage, OVERAGE_PERCENT, OVERAGE_ABSOLUTE_UNITS, S, h
<1>6. \A k \in Nat : k <= Max(S) <=> (k <= h \/ k <= 6)
  BY <1>1, <1>2, <1>3, <1>4
<1> QED
  BY <1>1, <1>2, <1>4, <1>5, <1>6

\* All that reaches the quantity, and what of it keeps within the ceiling.
Enough(q, n, quantity) == {c \in Counts(q, n) : quantity <= UnitsTo(q, c, n)}
Within(q, n, quantity) == {c \in Enough(q, n, quantity) :
                             UnitsTo(q, c, n) - quantity <= AllowedOverage(quantity)}
Allowed(q, n, quantity) ==
  IF Within(q, n, quantity) = {} THEN Enough(q, n, quantity) ELSE Within(q, n, quantity)

\* Best of all that is allowed.
BestAllowed(sel, q, n, quantity) ==
  /\ sel.over = sel.units - quantity
  /\ sel.exception <=> Within(q, n, quantity) = {}
  /\ \E c \in Allowed(q, n, quantity) :
       sel.units = UnitsTo(q, c, n) /\ sel.cost = CostTo(q, c, n)
  /\ \A c \in Allowed(q, n, quantity) :
       \/ sel.cost < CostTo(q, c, n)
       \/ sel.cost = CostTo(q, c, n) /\ sel.units <= UnitsTo(q, c, n)

\* Offers listed, each of a store.
IsListed(q, n) == q = [j \in 1..n |-> q[j]] /\ \A j \in 1..n : q[j].store \in Int

\* The packs of a store: none when it has not enough, else the best.
LEMMA SelectedFrom ==
  ASSUME None \notin Int, None \notin Selections,
         NEW n \in Nat, NEW q, IsSupply(q, n), IsListed(q, n), NEW quantity \in Nat \ {0}
  PROVE  LET sel == SelectFrom(q, quantity)
         IN  \/ sel = None /\ Enough(q, n, quantity) = {}
             \/ /\ sel # None /\ IsSelection(sel) /\ n > 0 /\ sel.store = q[1].store
                /\ BestAllowed(sel, q, n, quantity)
<1> DEFINE sel == SelectFrom(q, quantity)
           A == Enough(q, n, quantity)
           W == Within(q, n, quantity)
           sizes == {q[i].size : i \in DOMAIN q}
           largest == Max(sizes)
           m1 == quantity + AllowedOverage(quantity)
           m2 == quantity + largest - 1
           s1 == SelectionUpTo(m1, q, quantity, FALSE)
           s2 == SelectionUpTo(m2, q, quantity, TRUE)
           R1 == InReach(q, n, quantity, m1)
           R2 == InReach(q, n, quantity, m2)
<1>1. sel = IF q = <<>> THEN None ELSE OrElse(s1, s2)
  BY DEF SelectFrom
<1> HIDE DEF sel
<1>2. DOMAIN q = 1..n /\ n \in 0..n
  BY DEF IsSupply
<1>3. \A c \in Counts(q, n) : UnitsTo(q, c, n) \in Nat /\ CostTo(q, c, n) \in Nat
  BY <1>2, CountsAre
<1>4. CASE n = 0
  <2>1. q = <<>>
    BY <1>4 DEF IsListed
  <2>2. \A c \in Counts(q, n) : UnitsTo(q, c, n) = 0
    <3>1. 1..n = {}
      BY <1>4
    <3> QED
      BY <3>1, SumOfNone DEF UnitsTo
  <2>3. A = {}
    BY <2>2 DEF Enough
  <2> QED
    BY <1>1, <2>1, <2>3 DEF sel
<1>5. CASE n # 0
  <2>1. q # <<>> /\ 1 \in 1..n
    <3>1. 1 \in DOMAIN q /\ 1 \notin DOMAIN <<>>
      BY <1>2, <1>5
    <3> QED
      BY <1>5, <3>1
  <2>2. sel = OrElse(s1, s2)
    BY <1>1, <2>1
  <2>3. AllowedOverage(quantity) \in Nat
    BY CeilingIs
  <2>4. largest \in Nat \ {0} /\ \A j \in 1..n : q[j].size <= largest
    <3> DEFINE size == [j \in 1..n |-> q[j].size]
    <3>1. IsFiniteSet(1..n)
      BY FS_Interval
    <3>2. sizes = {size[j] : j \in 1..n}
      BY <1>2
    <3>3. \A j \in 1..n : size[j] \in Nat \ {0} /\ size[j] \in sizes /\ size[j] = q[j].size
      BY <1>2 DEF IsSupply
    <3>4. sizes \in SUBSET (Nat \ {0})
      BY <1>2 DEF IsSupply
    <3> HIDE DEF size, sizes
    <3>5. IsFiniteSet(sizes)
      <4> DEFINE J == 1..n
      <4>1. IsFiniteSet(J) /\ sizes = {size[j] : j \in J}
        BY <3>1, <3>2
      <4> HIDE DEF J
      <4> QED
        BY <4>1, ImageIsFinite
    <3>6. sizes # {}
      BY <2>1, <3>3
    <3>7. Max(sizes) \in sizes /\ \A x \in sizes : x <= Max(sizes)
      <4>1. sizes \in SUBSET Nat
        BY <3>4
      <4> QED
        BY <3>5, <3>6, <4>1, LargestIs
    <3> QED
      BY <3>3, <3>4, <3>7
  <2> HIDE DEF largest, sizes
  <2>5. m1 \in Nat /\ m2 \in Nat
    BY <2>3, <2>4
  <2> HIDE DEF m1, m2
  <2>6. R1 = W
    <3>1. \A c \in Counts(q, n) : UnitsTo(q, c, n) <= m1 <=>
            UnitsTo(q, c, n) - quantity <= AllowedOverage(quantity)
      BY <1>3, <2>3 DEF m1
    <3> QED
      BY <3>1 DEF InReach, Within, Enough
  <2> HIDE DEF R1, R2, s1, s2, A, W
  <2>14. \A m \in Nat, e \in BOOLEAN :
           /\ InReach(q, n, quantity, m) = {} => SelectionUpTo(m, q, quantity, e) = None
           /\ InReach(q, n, quantity, m) # {} =>
                /\ IsSelection(SelectionUpTo(m, q, quantity, e))
                /\ IsBestOf(SelectionUpTo(m, q, quantity, e), q, n, quantity, m)
                /\ SelectionUpTo(m, q, quantity, e).store = q[1].store
                /\ SelectionUpTo(m, q, quantity, e).over
                     = SelectionUpTo(m, q, quantity, e).units - quantity
                /\ SelectionUpTo(m, q, quantity, e).exception = e
                /\ \E u, s : SelectionUpTo(m, q, quantity, e) = Selection(q, quantity, u, s, e)
    BY BestInReach
  <2>7. /\ R1 = {} => s1 = None
        /\ R1 # {} => /\ IsSelection(s1) /\ IsBestOf(s1, q, n, quantity, m1)
                      /\ s1.store = q[1].store /\ s1.over = s1.units - quantity
                      /\ s1.exception = FALSE
                      /\ \E u, s : s1 = Selection(q, quantity, u, s, FALSE)
    BY <2>5, <2>14 DEF R1, s1
  <2>8. /\ R2 = {} => s2 = None
        /\ R2 # {} => /\ IsSelection(s2) /\ IsBestOf(s2, q, n, quantity, m2)
                      /\ s2.store = q[1].store /\ s2.over = s2.units - quantity
                      /\ s2.exception = TRUE
                      /\ \E u, s : s2 = Selection(q, quantity, u, s, TRUE)
    BY <2>5, <2>14 DEF R2, s2
  <2>9. \A c \in A : \E d \in R2 :
          \/ CostTo(q, d, n) < CostTo(q, c, n)
          \/ CostTo(q, d, n) = CostTo(q, c, n) /\ UnitsTo(q, d, n) = UnitsTo(q, c, n)
    <3> SUFFICES ASSUME NEW c \in A
                 PROVE  \E d \in R2 :
                          \/ CostTo(q, d, n) < CostTo(q, c, n)
                          \/ /\ CostTo(q, d, n) = CostTo(q, c, n)
                             /\ UnitsTo(q, d, n) = UnitsTo(q, c, n)
      OBVIOUS
    <3>1. c \in Counts(q, n) /\ quantity <= UnitsTo(q, c, n)
      BY DEF A, Enough
    <3>2. largest \in Nat
      BY <2>4
    <3>3. R2 = InReach(q, n, quantity, quantity + largest - 1)
      BY DEF R2, m2
    <3>4. \A j \in 1..n : q[j].size <= largest
      BY <2>4
    <3>5. \E d \in InReach(q, n, quantity, quantity + largest - 1) :
            \/ CostTo(q, d, n) < CostTo(q, c, n)
            \/ CostTo(q, d, n) = CostTo(q, c, n) /\ UnitsTo(q, d, n) = UnitsTo(q, c, n)
      BY <3>1, <3>2, <3>4, FewerWillDo, ZenonT(30)
    <3> QED
      BY <3>3, <3>5
  <2>10. R2 \in SUBSET A /\ W \in SUBSET A /\ A \in SUBSET Counts(q, n)
    BY DEF InReach, Enough, Within, R2, W, A
  <2>11. ASSUME NEW s, NEW e \in BOOLEAN, NEW m, NEW u, NEW w, s = Selection(q, quantity, u, w, e),
                IsSelection(s), IsBestOf(s, q, n, quantity, m), s.over = s.units - quantity,
                s.store = q[1].store
         PROVE  s # None
    <3>1. PICK c \in InReach(q, n, quantity, m) : s.units = UnitsTo(q, c, n)
      BY <2>11 DEF IsBestOf
    <3>2. c \in Counts(q, n)
      BY DEF InReach
    <3>3. s.units \in Nat
      BY <1>3, <3>1, <3>2
    <3>4. s.over \in Int /\ s.store \in Int
      BY <2>1, <2>11, <3>3 DEF IsListed
    <3>5. s.cost \in Int /\ s.lines \in Seq([sku : Int, packs : Int, units : Int, cost : Int])
      <4> DEFINE ls == s.lines
                 X == [sku : Int, packs : Int, units : Int, cost : Int]
      <4>1. s.cost \in Int /\ ls \in Seq(SelectedPacks)
        BY <2>11 DEF IsSelection
      <4>2. SelectedPacks \in SUBSET X
        BY DEF SelectedPacks
      <4> HIDE DEF ls, X
      <4>3. ls \in Seq(X)
        BY <4>1, <4>2
      <4> QED
        BY <4>1, <4>3 DEF ls, X
    <3> DEFINE X == [sku : Int, packs : Int, units : Int, cost : Int]
               r == [store |-> s.store, units |-> s.units, over |-> s.over, cost |-> s.cost,
                     exception |-> s.exception, lines |-> s.lines]
    <3>6. s = r /\ s.exception = e
      BY <2>11 DEF Selection
    <3>7. s.lines \in Seq(X)
      BY <3>5
    <3> HIDE DEF X
    <3>8. r \in [store : Int, units : Int, over : Int, cost : Int, exception : BOOLEAN,
                 lines : Seq(X)]
      BY <2>11, <3>3, <3>4, <3>5, <3>6, <3>7
    <3>9. s \in Selections
      BY <3>6, <3>8 DEF Selections, X
    <3> QED
      BY <3>9
  <2>12. CASE W # {}
    <3>1. /\ IsSelection(s1) /\ IsBestOf(s1, q, n, quantity, m1)
          /\ s1.store = q[1].store /\ s1.over = s1.units - quantity /\ s1.exception = FALSE
      BY <2>6, <2>7, <2>12
    <3>2. s1 # None
      <4>1. PICK u, w : s1 = Selection(q, quantity, u, w, FALSE)
        BY <2>6, <2>7, <2>12
      <4> QED
        BY <2>11, <3>1, <4>1
    <3>3. sel = s1
      BY <2>2, <3>2 DEF OrElse
    <3>4. Allowed(q, n, quantity) = W
      BY <2>12 DEF Allowed, W
    <3>5. /\ \E c \in W : s1.units = UnitsTo(q, c, n) /\ s1.cost = CostTo(q, c, n)
          /\ \A c \in W : \/ s1.cost < CostTo(q, c, n)
                          \/ s1.cost = CostTo(q, c, n) /\ s1.units <= UnitsTo(q, c, n)
      BY <2>6, <3>1 DEF IsBestOf, R1
    <3>6. BestAllowed(s1, q, n, quantity)
      BY <2>12, <3>1, <3>4, <3>5 DEF BestAllowed, W
    <3> QED
      BY <1>5, <3>1, <3>2, <3>3, <3>6 DEF sel
  <2>13. CASE W = {}
    <3>1. s1 = None /\ sel = s2
      BY <2>2, <2>6, <2>7, <2>13 DEF OrElse
    <3>2. CASE R2 = {}
      <4>1. A = {}
        BY <2>9, <3>2
      <4> QED
        BY <2>8, <3>1, <3>2, <4>1 DEF sel, A
    <3>3. CASE R2 # {}
      <4>1. /\ IsSelection(s2) /\ IsBestOf(s2, q, n, quantity, m2)
            /\ s2.store = q[1].store /\ s2.over = s2.units - quantity /\ s2.exception = TRUE
        BY <2>8, <3>3
      <4>2. s2 # None
        <5>1. PICK u, w : s2 = Selection(q, quantity, u, w, TRUE)
          BY <2>8, <3>3
        <5> QED
          BY <2>11, <4>1, <5>1
      <4>3. Allowed(q, n, quantity) = A
        BY <2>13 DEF Allowed, A, W
      <4>4. /\ \E c \in R2 : s2.units = UnitsTo(q, c, n) /\ s2.cost = CostTo(q, c, n)
            /\ \A c \in R2 : \/ s2.cost < CostTo(q, c, n)
                             \/ s2.cost = CostTo(q, c, n) /\ s2.units <= UnitsTo(q, c, n)
        BY <4>1 DEF IsBestOf, R2
      <4>5. ASSUME NEW c \in A
            PROVE  \/ s2.cost < CostTo(q, c, n)
                   \/ s2.cost = CostTo(q, c, n) /\ s2.units <= UnitsTo(q, c, n)
        <5>1. PICK d \in R2 :
                \/ CostTo(q, d, n) < CostTo(q, c, n)
                \/ CostTo(q, d, n) = CostTo(q, c, n) /\ UnitsTo(q, d, n) = UnitsTo(q, c, n)
          BY <2>9
        <5>2. /\ CostTo(q, d, n) \in Nat /\ CostTo(q, c, n) \in Nat
              /\ UnitsTo(q, d, n) \in Nat /\ UnitsTo(q, c, n) \in Nat
          BY <1>3, <2>10
        <5>3. \/ s2.cost < CostTo(q, d, n)
              \/ s2.cost = CostTo(q, d, n) /\ s2.units <= UnitsTo(q, d, n)
          BY <4>4
        <5>4. s2.cost \in Nat
          BY <4>1 DEF IsSelection
        <5> QED
          BY <5>1, <5>2, <5>3, <5>4
      <4>6. \E c \in A : s2.units = UnitsTo(q, c, n) /\ s2.cost = CostTo(q, c, n)
        BY <2>10, <4>4
      <4>7. BestAllowed(s2, q, n, quantity)
        BY <2>13, <4>1, <4>3, <4>5, <4>6 DEF BestAllowed, W
      <4> QED
        BY <1>5, <3>1, <4>1, <4>2, <4>7 DEF sel
    <3> QED
      BY <3>2, <3>3
  <2> QED
    BY <2>12, <2>13
<1> QED
  BY <1>4, <1>5

\* What is for sale is a supply.
LEMMA MatchingSupply ==
  ASSUME NEW need, NEW offers, IsOffers(offers)
  PROVE  LET q == MatchingOffers(need, offers)
             n == Cardinality(ForSale(need, offers))
         IN  /\ n \in Nat /\ IsSupply(q, n) /\ q = [j \in 1..n |-> q[j]]
             /\ \A j \in 1..n : q[j] \in ForSale(need, offers) /\ q[j].store \in Int
<1> DEFINE q == MatchingOffers(need, offers)
           S == ForSale(need, offers)
           n == Cardinality(S)
<1>1. n \in Nat /\ DOMAIN q = 1..n /\ q \in [1..n -> S]
  BY MatchingIs DEF ListsOnce
<1>2. \A o \in S : /\ o.sku \in Int /\ o.store \in Int /\ o.size \in Nat \ {0}
                   /\ o.price \in Nat \ {0} /\ o.stock \in Nat
  BY DEF ForSale, IsOffers
<1> HIDE DEF q, S, n
<1>3. \A j \in 1..n : q[j] \in S
  BY <1>1
<1>4. q = [j \in 1..n |-> q[j]]
  BY <1>1
<1>5. IsSupply(q, n)
  BY <1>1, <1>2, <1>3 DEF IsSupply
<1> QED
  BY <1>1, <1>2, <1>3, <1>4, <1>5 DEF q, S, n

\* _select_packages: the best within the ceiling, else the best of all, else None.
LEMMA SelectedPackagesAre ==
  ASSUME None \notin Int, None \notin Selections, NEW need, need.quantity \in Nat \ {0},
         NEW offers, IsOffers(offers)
  PROVE  LET sel == SelectPackages(need, offers)
             q == MatchingOffers(need, offers)
             n == Cardinality(ForSale(need, offers))
         IN  \/ sel = None /\ Enough(q, n, need.quantity) = {}
             \/ /\ sel # None /\ IsSelection(sel)
                /\ \E o \in ForSale(need, offers) : sel.store = o.store
                /\ BestAllowed(sel, q, n, need.quantity)
<1> DEFINE q == MatchingOffers(need, offers)
           n == Cardinality(ForSale(need, offers))
           quantity == need.quantity
           sel == SelectFrom(q, quantity)
<1>1. /\ n \in Nat /\ IsSupply(q, n) /\ q = [j \in 1..n |-> q[j]]
      /\ \A j \in 1..n : q[j] \in ForSale(need, offers) /\ q[j].store \in Int
  BY MatchingSupply
<1>5. IsListed(q, n)
  BY <1>1 DEF IsListed
<1>6. n \in Nat /\ IsSupply(q, n)
  BY <1>1
<1>2. SelectPackages(need, offers) = sel
  BY DEF SelectPackages
<1> HIDE DEF q, n
<1>3. \/ sel = None /\ Enough(q, n, quantity) = {}
      \/ /\ sel # None /\ IsSelection(sel) /\ n > 0 /\ sel.store = q[1].store
         /\ BestAllowed(sel, q, n, quantity)
  <2> HIDE DEF quantity
  <2>1. quantity \in Nat \ {0}
    BY DEF quantity
  <2> QED
    BY <1>5, <1>6, <2>1, SelectedFrom
<1> HIDE DEF sel, quantity
<1>4. n > 0 => 1 \in 1..n
  BY <1>1
<1> QED
  BY <1>1, <1>2, <1>3, <1>4 DEF q, n, quantity

\* What is sold, in stock or not.
Sold(need, offers) ==
  {o \in offers : /\ o.category = need.item
                  /\ need.brand \in {None, o.brand}}

\* So many packs of each product, of which there are as many.
IsTaken(d, need, offers) ==
  /\ d \in [Sold(need, offers) -> Nat]
  /\ \A o \in Sold(need, offers) : d[o] <= o.stock

\* In two ways to count them they come to the same units and the same cost.
IsCounted(d, need, offers) ==
  LET q == MatchingOffers(need, offers)
      n == Cardinality(ForSale(need, offers))
      c == [j \in 1..n |-> d[q[j]]]
  IN  /\ c \in Counts(q, n)
      /\ UnitsTo(q, c, n) = SumFunction([o \in Sold(need, offers) |-> d[o] * o.size])
      /\ CostTo(q, c, n) = SumFunction([o \in Sold(need, offers) |-> d[o] * o.price])

\* What is taken product by product is taken offer by offer.
LEMMA TakenAre ==
  ASSUME NEW need, NEW offers, IsOffers(offers), NEW d, IsTaken(d, need, offers)
  PROVE  IsCounted(d, need, offers)
<1> DEFINE q == MatchingOffers(need, offers)
           P == ForSale(need, offers)
           S == Sold(need, offers)
           n == Cardinality(P)
           c == [j \in 1..n |-> d[q[j]]]
           size == [o \in S |-> d[o] * o.size]
           price == [o \in S |-> d[o] * o.price]
           u == [j \in DOMAIN q |-> c[j] * q[j].size]
           v == [j \in DOMAIN q |-> c[j] * q[j].price]
<1>1. /\ n \in Nat /\ IsSupply(q, n)
      /\ \A j \in 1..n : q[j] \in P
  BY MatchingSupply
<1>2. ListsOnce(q, P) /\ DOMAIN q = 1..n
  BY MatchingIs
<1>3. P \in SUBSET S /\ S \in SUBSET offers /\ IsFiniteSet(offers)
  BY DEF ForSale, Sold, IsOffers
<1>4. IsFiniteSet(S) /\ IsFiniteSet(P)
  BY <1>3, FS_Subset
<1>20. d \in [S -> Nat] /\ \A o \in S : d[o] <= o.stock
  BY DEF IsTaken
<1>5. \A o \in S : /\ o.size \in Nat /\ o.price \in Nat /\ o.stock \in Nat /\ d[o] \in Nat
                   /\ d[o] <= o.stock
  BY <1>3, <1>20 DEF IsOffers
<1>6. \A o \in S \ P : d[o] = 0
  <2>1. \A o \in S \ P : ~(o.stock > 0)
    BY <1>3 DEF Sold, ForSale
  <2> QED
    BY <1>5, <2>1
<1>7. \A o \in S : size[o] \in Nat /\ price[o] \in Nat
  BY <1>5
<1>8. \A o \in S \ P : size[o] = 0 /\ price[o] = 0
  BY <1>5, <1>6
<1>9. \A j \in DOMAIN q : u[j] = size[q[j]] /\ v[j] = price[q[j]]
  BY <1>1, <1>2, <1>3
<1>10. DOMAIN size = S /\ DOMAIN price = S
  OBVIOUS
<1>11. c \in Counts(q, n)
  <2>1. \A j \in 1..n : c[j] \in Nat /\ c[j] <= q[j].stock
    BY <1>1, <1>3, <1>5
  <2>2. c \in Seq(Nat) /\ Len(c) = n
    <3> HIDE DEF n, q
    <3>1. c = [j \in 1..n |-> c[j]] /\ n \in Nat /\ \A j \in 1..n : c[j] \in Nat
      BY <1>1, <2>1
    <3> HIDE DEF c
    <3> QED
      BY <3>1
  <2> HIDE DEF c, n, q
  <2> QED
    BY <2>1, <2>2 DEF Counts
<1>12. UnitsTo(q, c, n) = SumFunctionOnSet(u, DOMAIN q)
       /\ CostTo(q, c, n) = SumFunctionOnSet(v, DOMAIN q)
  BY <1>2 DEF UnitsTo, CostTo
<1> HIDE DEF q, P, S, n, c, size, price, u, v
<1>13. /\ SumFunctionOnSet(u, DOMAIN q) = SumFunctionOnSet(size, P)
       /\ SumFunctionOnSet(v, DOMAIN q) = SumFunctionOnSet(price, P)
  <2>1. \A o \in P : size[o] \in Nat /\ price[o] \in Nat
    BY <1>3, <1>7
  <2>2. \A j \in DOMAIN q : u[j] = size[q[j]]
    BY <1>9
  <2>3. \A j \in DOMAIN q : v[j] = price[q[j]]
    BY <1>9
  <2>4. SumFunctionOnSet(u, DOMAIN q) = SumFunctionOnSet(size, P)
    BY <1>2, <1>4, <2>1, <2>2, SumListed
  <2>5. SumFunctionOnSet(v, DOMAIN q) = SumFunctionOnSet(price, P)
    BY <1>2, <1>4, <2>1, <2>3, SumListed
  <2> QED
    BY <2>4, <2>5
<1>14. /\ SumFunctionOnSet(size, S) = SumFunctionOnSet(size, P)
       /\ SumFunctionOnSet(price, S) = SumFunctionOnSet(price, P)
  <2>1. \A o \in S : size[o] \in Int /\ price[o] \in Int
    BY <1>7
  <2> QED
    BY <1>3, <1>4, <1>8, <2>1, SumOfTheRest
<1>15. UnitsTo(q, c, n) = SumFunction(size) /\ CostTo(q, c, n) = SumFunction(price)
  BY <1>10, <1>12, <1>13, <1>14 DEF SumFunction
<1> QED
  BY <1>11, <1>15 DEF IsCounted, q, P, S, n, c, size, price

\* Whatever is taken of what is for sale is taken of what is sold.
LEMMA TakenFrom ==
  ASSUME NEW need, NEW offers, IsOffers(offers),
         NEW c \in Counts(MatchingOffers(need, offers), Cardinality(ForSale(need, offers)))
  PROVE  \E d \in [Sold(need, offers) -> Nat] :
           /\ \A o \in Sold(need, offers) : d[o] <= o.stock
           /\ c = [j \in 1..Cardinality(ForSale(need, offers)) |->
                     d[MatchingOffers(need, offers)[j]]]
<1> DEFINE q == MatchingOffers(need, offers)
           P == ForSale(need, offers)
           S == Sold(need, offers)
           n == Cardinality(P)
           place(o) == CHOOSE j \in 1..n : q[j] = o
           d == [o \in S |-> IF o \in P THEN c[place(o)] ELSE 0]
<1>1. n \in Nat /\ \A j \in 1..n : q[j] \in P
  BY MatchingSupply
<1>2. ListsOnce(q, P) /\ DOMAIN q = 1..n
  BY MatchingIs
<1>3. P \in SUBSET S /\ S \in SUBSET offers
  BY DEF ForSale, Sold
<1>4. \A o \in S : o.stock \in Nat
  BY <1>3 DEF IsOffers
<1>5. c \in Seq(Nat) /\ Len(c) = n /\ \A j \in 1..n : c[j] <= q[j].stock
  BY DEF Counts
<1>6. c = [j \in 1..n |-> c[j]] /\ \A j \in 1..n : c[j] \in Nat
  BY <1>5
<1> HIDE DEF q, P, S, n
<1>7. \A o \in P : place(o) \in 1..n /\ q[place(o)] = o
  <2>1. \A o \in P : \E j \in 1..n : q[j] = o
    BY <1>2 DEF ListsOnce
  <2> QED
    BY <2>1
<1>8. \A j \in 1..n : place(q[j]) = j
  <2>1. \A i, j \in 1..n : q[i] = q[j] => i = j
    BY <1>2 DEF ListsOnce
  <2>2. \A j \in 1..n : place(q[j]) \in 1..n /\ q[place(q[j])] = q[j]
    BY <1>1, <1>7
  <2> HIDE DEF place
  <2> QED
    BY <2>1, <2>2
<1> HIDE DEF place
<1>9. d \in [S -> Nat] /\ \A o \in S : d[o] <= o.stock
  <2>1. \A o \in P : c[place(o)] \in Nat /\ c[place(o)] <= o.stock
    BY <1>5, <1>6, <1>7
  <2> QED
    BY <1>4, <2>1
<1>10. c = [j \in 1..n |-> d[q[j]]]
  <2>1. \A j \in 1..n : d[q[j]] = c[j]
    BY <1>1, <1>3, <1>8
  <2> HIDE DEF d
  <2> QED
    BY <1>6, <2>1
<1> HIDE DEF d
<1> QED
  BY <1>9, <1>10 DEF q, P, S, n


----------------------------------------------------------------------------
\* Two sequences, one after the other.
LEMMA JoinedIs ==
  ASSUME NEW X, NEW s \in Seq(X), NEW t \in Seq(X)
  PROVE  /\ s \o t \in Seq(X) /\ Len(s \o t) = Len(s) + Len(t)
         /\ \A k \in 1..Len(s) : (s \o t)[k] = s[k]
         /\ \A k \in (Len(s) + 1)..(Len(s) + Len(t)) : (s \o t)[k] = t[k - Len(s)]
OBVIOUS

\* There are finitely many ways to give each of finitely many things one of
\* finitely many values.
LEMMA FunctionsAreFinite ==
  ASSUME NEW S, IsFiniteSet(S), NEW T, IsFiniteSet(T)
  PROVE  IsFiniteSet([S -> T])
<1> DEFINE P == SUBSET (S \X T)
           val(g, x) == CHOOSE y \in T : <<x, y>> \in g
           F == [g \in P |-> [x \in S |-> val(g, x)]]
<1>1. IsFiniteSet(P)
  BY FS_Product, FS_SUBSET
<1>2. ASSUME NEW f \in [S -> T]
      PROVE  \E g \in P : f = F[g]
  <2> DEFINE g == {<<x, f[x]>> : x \in S}
  <2>1. g \in P
    OBVIOUS
  <2>2. \A x \in S : val(g, x) = f[x]
    OBVIOUS
  <2> HIDE DEF val, g
  <2>3. F[g] = [x \in S |-> f[x]]
    BY <2>1, <2>2
  <2> QED
    BY <2>1, <2>3
<1>3. IsFiniteSet({F[g] : g \in P})
  <2> HIDE DEF P, F
  <2> QED
    BY <1>1, ImageIsFinite
<1>4. [S -> T] \in SUBSET {F[g] : g \in P}
  BY <1>2
<1> QED
  BY <1>3, <1>4, FS_Subset

\* Triples of numbers in the order of their tuples.
LEMMA LessTriples ==
  ASSUME NEW a \in Int, NEW b \in Int, NEW c \in Int, NEW d \in Int, NEW e \in Int, NEW f \in Int,
         <<a, b, c>> # <<d, e, f>>
  PROVE  Less(<<a, b, c>>, <<d, e, f>>) \/ Less(<<d, e, f>>, <<a, b, c>>)
<1> DEFINE s == <<a, b, c>>
           t == <<d, e, f>>
<1>1. DOMAIN s = 1..3 /\ Len(s) = 3 /\ DOMAIN t = 1..3 /\ Len(t) = 3
  OBVIOUS
<1>2. s[1] = a /\ s[2] = b /\ s[3] = c /\ t[1] = d /\ t[2] = e /\ t[3] = f
  OBVIOUS
<1>3. /\ 1 \in 1..3 /\ 2 \in 1..3 /\ 3 \in 1..3
      /\ \A j \in 1..(1 - 1) : FALSE
      /\ \A j \in 1..(2 - 1) : j = 1
      /\ \A j \in 1..(3 - 1) : j = 1 \/ j = 2
  OBVIOUS
<1>4. a # d \/ b # e \/ c # f
  OBVIOUS
<1> HIDE DEF s, t
<1>5. CASE a # d
  <2>1. a < d => Less(s, t)
    BY <1>1, <1>2, <1>3 DEF Less
  <2>2. d < a => Less(t, s)
    BY <1>1, <1>2, <1>3 DEF Less
  <2> QED
    BY <1>5, <2>1, <2>2 DEF s, t
<1>6. CASE a = d /\ b # e
  <2>1. a = d /\ b < e => Less(s, t)
    BY <1>1, <1>2, <1>3 DEF Less
  <2>2. a = d /\ e < b => Less(t, s)
    BY <1>1, <1>2, <1>3 DEF Less
  <2> QED
    BY <1>6, <2>1, <2>2 DEF s, t
<1>7. CASE a = d /\ b = e /\ c # f
  <2>1. a = d /\ b = e /\ c < f => Less(s, t)
    BY <1>1, <1>2, <1>3 DEF Less
  <2>2. a = d /\ b = e /\ f < c => Less(t, s)
    BY <1>1, <1>2, <1>3 DEF Less
  <2> QED
    BY <1>7, <2>1, <2>2 DEF s, t
<1> QED
  BY <1>4, <1>5, <1>6, <1>7

\* The needs come in some order, each once, with what serves them.
LEMMA OrderedIs ==
  ASSUME NEW n \in Nat, NEW needs, DOMAIN needs = 1..n, NEW candidates,
         \A i \in 1..n : needs[i].label \in Int /\ IsFiniteSet(DOMAIN candidates[i])
  PROVE  \E order : /\ ListsOnce(order, 1..n) /\ Cardinality(1..n) = n /\ DOMAIN order = 1..n
                    /\ Ordered(needs, candidates) = InOrder(order, needs, candidates)
<1> DEFINE D == 1..n
           rank(i) == <<Cardinality(DOMAIN candidates[i]), needs[i].label, i>>
           before == {p \in D \X D : Less(rank(p[1]), rank(p[2]))}
           L(k) == CHOOSE x \in D : Cardinality({y \in D : Less(rank(y), rank(x))}) = k - 1
           q == [k \in 1..Cardinality(D) |-> L(k)]
<1>1. Ordered(needs, candidates) = InOrder(q, needs, candidates)
  BY DEF Ordered, Sorted
<1>2. IsFiniteSet(D) /\ Cardinality(D) = n
  BY FS_Interval
<1>3. \A i \in D : Cardinality(DOMAIN candidates[i]) \in Int /\ needs[i].label \in Int /\ i \in Int
  BY FS_CardinalityType
<1>4. \A i \in D : rank(i) \in Seq(Int)
  BY <1>3
<1>5. \A i, j \in D : rank(i) = rank(j) => i = j
  OBVIOUS
<1>6. \A i, j \in D : i # j => Less(rank(i), rank(j)) \/ Less(rank(j), rank(i))
  <2> SUFFICES ASSUME NEW i \in D, NEW j \in D, i # j
               PROVE  Less(rank(i), rank(j)) \/ Less(rank(j), rank(i))
    OBVIOUS
  <2>1. rank(i) # rank(j)
    BY <1>5
  <2> QED
    BY <1>3, <2>1, LessTriples
<1> HIDE DEF rank, D
<1>7. Orders(before, D)
  <2>1. \A i \in D : ~Less(rank(i), rank(i))
    BY <1>4, LessIsStrict
  <2>2. \A i, j, k \in D : Less(rank(i), rank(j)) /\ Less(rank(j), rank(k))
                             => Less(rank(i), rank(k))
    BY <1>4, LessIsTransitive
  <2> QED
    BY <1>6, <2>1, <2>2 DEF Orders
<1>8. \A x \in D : {y \in D : <<y, x>> \in before} = {y \in D : Less(rank(y), rank(x))}
  OBVIOUS
<1>9. \A x \in D : Rank(x, D, before) = Cardinality({y \in D : Less(rank(y), rank(x))})
  BY <1>8 DEF Rank
<1>10. InRanks(q, D, before)
  <2>1. DOMAIN q = 1..Cardinality(D) /\ \A k \in DOMAIN q : q[k] = L(k)
    <3> HIDE DEF L
    <3> QED
      OBVIOUS
  <2> SUFFICES ASSUME NEW k \in DOMAIN q, \E x \in D : Rank(x, D, before) = k - 1
               PROVE  q[k] \in D /\ Rank(q[k], D, before) = k - 1
    BY <2>1 DEF InRanks
  <2>2. \E x \in D : Cardinality({y \in D : Less(rank(y), rank(x))}) = k - 1
    BY <1>9
  <2>3. L(k) \in D /\ Cardinality({y \in D : Less(rank(y), rank(L(k)))}) = k - 1
    BY <2>2
  <2> HIDE DEF L, q
  <2> QED
    BY <1>9, <2>1, <2>3
<1>11. q = [k \in DOMAIN q |-> q[k]] /\ DOMAIN q = 1..n
  <2> HIDE DEF L
  <2> QED
    BY <1>2
<1> HIDE DEF before, q, L
<1>12. ListsOnce(q, D)
  BY <1>2, <1>7, <1>10, <1>11, RankedLists
<1> QED
  BY <1>1, <1>2, <1>11, <1>12 DEF D

\* So many needs.
IsNeeds(needs, n) == needs = [i \in 1..n |-> needs[i]] /\ \A i \in 1..n : IsNeed(needs[i])

\* What serves each of so many needs.
IsCandidates(candidates, n, stores, config) ==
  /\ candidates = [i \in 1..n |-> candidates[i]]
  /\ \A i \in 1..n : IsServed(candidates[i], stores, config)

\* A search works on each need once, with what serves it.
LEMMA SearchIs ==
  ASSUME NEW n \in Nat, NEW needs, IsNeeds(needs, n), NEW stores, IsStores(stores), NEW config,
         NEW candidates, IsCandidates(candidates, n, stores, config)
  PROVE  LET p == SearchFrom(needs, candidates, stores, config)
         IN  /\ IsSearch(p, n, stores, config) /\ p.limit = StoreLimit(config)
             /\ \E order : /\ ListsOnce(order, 1..n) /\ DOMAIN order = 1..n
                           /\ \A k \in 1..n :
                                /\ order[k] \in 1..n
                                /\ p.ordered[k].need = needs[order[k]]
                                /\ p.ordered[k].candidates = candidates[order[k]]
<1> DEFINE p == SearchFrom(needs, candidates, stores, config)
<1>1. /\ p.stores = stores /\ p.config = config /\ p.limit = StoreLimit(config)
      /\ p.ordered = Ordered(needs, candidates)
  BY DEF SearchFrom
<1>2. \A i \in 1..n : needs[i].label \in Int /\ IsFiniteSet(DOMAIN candidates[i])
  <2>1. \A i \in 1..n : DOMAIN candidates[i] \in SUBSET DOMAIN stores
    BY DEF IsCandidates, IsServed
  <2>2. IsFiniteSet(DOMAIN stores)
    BY DEF IsStores
  <2>3. \A i \in 1..n : IsFiniteSet(DOMAIN candidates[i])
    BY <2>1, <2>2, FS_Subset
  <2>4. \A i \in 1..n : needs[i].label \in Int
    BY DEF IsNeeds, IsNeed
  <2> QED
    BY <2>3, <2>4
<1>3. DOMAIN needs = 1..n
  BY DEF IsNeeds
<1>4. PICK order : /\ ListsOnce(order, 1..n) /\ Cardinality(1..n) = n /\ DOMAIN order = 1..n
                   /\ p.ordered = InOrder(order, needs, candidates)
  BY <1>1, <1>2, <1>3, OrderedIs
<1> HIDE DEF p
<1>5. \A k \in 1..n : order[k] \in 1..n
  BY <1>4 DEF ListsOnce
<1>6. /\ DOMAIN p.ordered = 1..n
      /\ \A k \in 1..n : /\ p.ordered[k].need = needs[order[k]]
                         /\ p.ordered[k].candidates = candidates[order[k]]
  BY <1>4 DEF InOrder
<1>7. \A k \in 1..n : /\ IsNeed(p.ordered[k].need)
                      /\ IsServed(p.ordered[k].candidates, stores, config)
  BY <1>5, <1>6 DEF IsNeeds, IsCandidates
<1>8. IsSearch(p, n, stores, config)
  BY <1>1, <1>6, <1>7 DEF IsSearch
<1> QED
  BY <1>1, <1>4, <1>5, <1>6, <1>8 DEF p

\* What is bought when each need is given a store.
BoughtBy(p, a) ==
  [i \in DOMAIN a |-> [need |-> p.ordered[i].need, sel |-> p.ordered[i].candidates[a[i]]]]

\* A store for each need buys it there, and is a cart.
LEMMA BoughtByIs ==
  ASSUME NEW n \in Nat, NEW p, NEW stores, IsStores(stores), NEW config, Wants(config),
         IsSearch(p, n, stores, config), NEW a \in Assignments(p)
  PROVE  /\ DOMAIN a = 1..n
         /\ \A i \in 1..n : a[i] \in DOMAIN p.ordered[i].candidates /\ a[i] \in DOMAIN stores
         /\ IsAssignments(BoughtBy(p, a), n, stores, config)
         /\ \A i \in 1..n : BoughtBy(p, a)[i].sel.store = a[i]
         /\ PlanOf(p, a) = BuildPlan(BoughtBy(p, a), stores, config)
         /\ IsPlan(PlanOf(p, a))
<1> DEFINE b == BoughtBy(p, a)
<1>1. /\ DOMAIN a = 1..n /\ \A i \in 1..n : a[i] \in DOMAIN stores
      /\ \A i \in 1..n : a[i] \in DOMAIN p.ordered[i].candidates
  BY DEF Assignments, IsSearch
<1>2. \A i \in 1..n : /\ b[i].need = p.ordered[i].need
                      /\ b[i].sel = p.ordered[i].candidates[a[i]]
  BY <1>1 DEF BoughtBy
<1>3. b = [i \in 1..n |-> b[i]]
  BY <1>1 DEF BoughtBy
<1>4. PlanOf(p, a) = BuildPlan(b, stores, config)
  BY DEF PlanOf, BoughtBy, IsSearch
<1> HIDE DEF b
<1>5. \A i \in 1..n : /\ IsNeed(b[i].need)
                      /\ IsSelection(b[i].sel) /\ b[i].sel.store = a[i]
                      /\ StoreSupportsFulfillment(stores[a[i]], config)
  BY <1>1, <1>2 DEF IsSearch, IsServed
<1>6. \A i \in 1..n : /\ Weights(b[i].need.allocatedTo)
                      /\ SumFunction(b[i].need.allocatedTo) # 0
  <2>1. \A i \in 1..n : /\ Weights(b[i].need.allocatedTo)
                        /\ SumFunction(b[i].need.allocatedTo) = b[i].need.quantity
                        /\ b[i].need.quantity \in Nat \ {0}
    BY <1>5 DEF IsNeed
  <2> QED
    BY <2>1
<1>7. IsAssignments(b, n, stores, config)
  BY <1>1, <1>3, <1>5, <1>6 DEF IsAssignments
<1>8. IsPlan(BuildPlan(b, stores, config))
  BY <1>7, PlanIs
<1> QED
  BY <1>1, <1>4, <1>5, <1>7, <1>8 DEF b

\* The search answers with a cart of some assignment, and none has a smaller key.
LEMMA BestPlanIs ==
  ASSUME NEW n \in Nat, NEW p, NEW stores, IsStores(stores), NEW config, Wants(config),
         IsSearch(p, n, stores, config)
  PROVE  /\ Assignments(p) = {} => BestPlan(p) = None
         /\ Assignments(p) # {} =>
              /\ IsPlan(BestPlan(p))
              /\ \E a \in Assignments(p) : BestPlan(p) = PlanOf(p, a)
              /\ \A a \in Assignments(p) :
                   PlanOf(p, a) # BestPlan(p)
                     => ~Less(PlanSortKey(PlanOf(p, a)), PlanSortKey(BestPlan(p)))
<1> DEFINE A == Assignments(p)
           plan == [a \in A |-> PlanOf(p, a)]
           S == {PlanOf(p, a) : a \in A}
           key == [x \in S |-> PlanSortKey(x)]
<1>1. BestPlan(p) = IF S = {} THEN None
                    ELSE CHOOSE x \in S : \A y \in S \ {x} : ~Less(PlanSortKey(y), PlanSortKey(x))
  BY DEF BestPlan, FirstPlan, Least
<1>2. \A a \in A : IsPlan(PlanOf(p, a))
  BY BoughtByIs
<1>3. IsFiniteSet(A)
  <2>1. DOMAIN p.ordered = 1..n /\ p.stores = stores
    BY DEF IsSearch
  <2>2. IsFiniteSet(1..n) /\ IsFiniteSet(DOMAIN stores)
    BY FS_Interval DEF IsStores
  <2>3. IsFiniteSet([1..n -> DOMAIN stores])
    BY <2>2, FunctionsAreFinite
  <2>4. A \in SUBSET [1..n -> DOMAIN stores]
    BY <2>1 DEF Assignments
  <2> QED
    BY <2>3, <2>4, FS_Subset
<1> HIDE DEF A
<1>4. S = {plan[a] : a \in A}
  OBVIOUS
<1>5. IsFiniteSet(S)
  <2> HIDE DEF plan, S
  <2> QED
    BY <1>3, <1>4, ImageIsFinite
<1>6. \A x \in S : IsPlan(x)
  BY <1>2
<1>7. \A x \in S : \E a \in A : x = PlanOf(p, a)
  OBVIOUS
<1>8. \A a \in A : PlanOf(p, a) \in S
  OBVIOUS
<1>9. A = {} <=> S = {}
  OBVIOUS
<1> HIDE DEF S
<1>10. \A x \in S : key[x] \in Seq(Int)
  BY <1>6 DEF IsPlan
<1>11. \A x \in S : key[x] = PlanSortKey(x)
  OBVIOUS
<1> HIDE DEF key
<1>12. S # {} => \E x \in S : \A y \in S \ {x} : ~Less(key[y], key[x])
  BY <1>5, <1>10, LeastExists
<1>13. S # {} => \E x \in S : \A y \in S \ {x} : ~Less(PlanSortKey(y), PlanSortKey(x))
  BY <1>11, <1>12
<1>14. S # {} => /\ BestPlan(p) \in S
                 /\ \A y \in S \ {BestPlan(p)} : ~Less(PlanSortKey(y), PlanSortKey(BestPlan(p)))
  BY <1>1, <1>13
<1>15. S = {} => BestPlan(p) = None
  BY <1>1
<1> QED
  BY <1>6, <1>7, <1>8, <1>9, <1>14, <1>15 DEF A

\* Stores that may be used.
IsEligible(eligible, stores, config) ==
  /\ eligible \in SUBSET DOMAIN stores
  /\ \A s \in eligible : StoreSupportsFulfillment(stores[s], config)

\* What serves needs is what the stores that may be used sell.
LEMMA CandidatesAre ==
  ASSUME NEW n \in Nat, NEW needs, IsNeeds(needs, n), NEW offers, IsOffers(offers), NEW stores,
         NEW config, NEW eligible, IsEligible(eligible, stores, config), NEW skusFor
  PROVE  LET sells == CandidateSelections(needs, offers, eligible, skusFor)
         IN  /\ IsCandidates(sells, n, stores, config)
             /\ \A i \in 1..n : DOMAIN sells[i] \in SUBSET eligible
<1> DEFINE sells == CandidateSelections(needs, offers, eligible, skusFor)
           at(i, s) == {o \in offers : o.store = s /\ o.sku \in WillDo(needs[i], skusFor)}
           sel(i, s) == SelectPackages(needs[i], at(i, s))
           served(i) == [s \in {t \in eligible : sel(i, t) # None} |-> sel(i, s)]
<1>1. sells = [i \in DOMAIN needs |-> served(i)]
  BY DEF CandidateSelections, RestrictValues, Restrict
<1>2. DOMAIN needs = 1..n /\ \A i \in 1..n : needs[i].quantity \in Nat \ {0}
  BY DEF IsNeeds, IsNeed
<1>3. \A i \in 1..n, s \in eligible : IsOffers(at(i, s)) /\ \A o \in at(i, s) : o.store = s
  <2> SUFFICES ASSUME NEW i \in 1..n, NEW s \in eligible PROVE IsOffers(at(i, s))
    OBVIOUS
  <2>1. at(i, s) \in SUBSET offers
    OBVIOUS
  <2> HIDE DEF at
  <2>2. IsFiniteSet(at(i, s))
    BY <2>1, FS_Subset DEF IsOffers
  <2> QED
    BY <2>1, <2>2 DEF IsOffers
<1> HIDE DEF at
<1>4. \A i \in 1..n, s \in eligible :
        sel(i, s) # None => IsSelection(sel(i, s)) /\ sel(i, s).store = s
  <2> SUFFICES ASSUME NEW i \in 1..n, NEW s \in eligible, sel(i, s) # None
               PROVE  IsSelection(sel(i, s)) /\ sel(i, s).store = s
    OBVIOUS
  <2>1. /\ IsSelection(sel(i, s))
        /\ \E o \in ForSale(needs[i], at(i, s)) : sel(i, s).store = o.store
    BY <1>2, <1>3, NoneIsNoNumber, NoneIsNoSelection, SelectedPackagesAre
  <2>2. ForSale(needs[i], at(i, s)) \in SUBSET at(i, s)
    BY DEF ForSale
  <2> QED
    BY <1>3, <2>1, <2>2
<1> HIDE DEF sel
<1>5. \A i \in 1..n : /\ DOMAIN served(i) \in SUBSET eligible
                      /\ IsServed(served(i), stores, config)
  <2> SUFFICES ASSUME NEW i \in 1..n
               PROVE  /\ DOMAIN served(i) \in SUBSET eligible
                      /\ IsServed(served(i), stores, config)
    OBVIOUS
  <2>1. DOMAIN served(i) = {t \in eligible : sel(i, t) # None}
    OBVIOUS
  <2>2. /\ \A s \in DOMAIN served(i) : served(i)[s] = sel(i, s)
        /\ IsMapping(served(i))
    BY DEF IsMapping
  <2> HIDE DEF served
  <2>3. \A s \in DOMAIN served(i) : /\ s \in eligible /\ IsSelection(served(i)[s])
                                    /\ served(i)[s].store = s
    BY <1>4, <2>1, <2>2
  <2> QED
    BY <2>1, <2>2, <2>3 DEF IsServed, IsEligible
<1> HIDE DEF served, sells
<1>6. sells = [i \in 1..n |-> sells[i]] /\ \A i \in 1..n : sells[i] = served(i)
  BY <1>1, <1>2
<1>7. IsCandidates(sells, n, stores, config)
  BY <1>5, <1>6 DEF IsCandidates
<1> QED
  BY <1>5, <1>6, <1>7 DEF sells

\* The labels of needs.
LEMMA LabelsAre ==
  ASSUME NEW n \in Nat, NEW needs, IsNeeds(needs, n)
  PROVE  Labels(needs) \in Seq(Int) /\ Len(Labels(needs)) = n
<1>1. DOMAIN needs = 1..n /\ \A i \in 1..n : needs[i].label \in Int
  BY DEF IsNeeds, IsNeed
<1> QED
  BY <1>1 DEF Labels

\* Some of the needs, with what serves them.
LEMMA PickedNeeds ==
  ASSUME NEW n \in Nat, NEW needs, IsNeeds(needs, n), NEW stores, NEW config,
         NEW candidates, IsCandidates(candidates, n, stores, config), NEW P \in SUBSET (1..n)
  PROVE  LET q == InOrderOf(P)
             m == Cardinality(P)
         IN  /\ m \in Nat /\ DOMAIN needs = 1..n /\ DOMAIN candidates = 1..n
             /\ IsNeeds(Pick(needs, q), m)
             /\ IsCandidates(Pick(candidates, q), m, stores, config)
             /\ \A k \in 1..m : /\ q[k] \in P /\ Pick(needs, q)[k] = needs[q[k]]
                                /\ Pick(candidates, q)[k] = candidates[q[k]]
<1> DEFINE q == InOrderOf(P)
           m == Cardinality(P)
           a == Pick(needs, q)
           c == Pick(candidates, q)
<1>1. /\ m \in Nat /\ a = [k \in 1..m |-> a[k]]
      /\ \A k \in 1..m : q[k] \in P /\ a[k] = needs[q[k]]
  BY PickedAt
<1>2. /\ c = [k \in 1..m |-> c[k]]
      /\ \A k \in 1..m : q[k] \in P /\ c[k] = candidates[q[k]]
  BY PickedAt
<1> HIDE DEF q, m, a, c
<1>3. IsNeeds(a, m)
  BY <1>1 DEF IsNeeds
<1>4. IsCandidates(c, m, stores, config)
  BY <1>1, <1>2 DEF IsCandidates
<1>5. DOMAIN needs = 1..n /\ DOMAIN candidates = 1..n
  BY DEF IsNeeds, IsCandidates
<1> QED
  BY <1>1, <1>2, <1>3, <1>4, <1>5 DEF q, m, a, c

\* Carts with what they leave out, and perhaps a second trip.
IsTrip(p) == p = None \/ IsPlan(p)
IsCart(r) == IsPlan(r.plan) /\ IsTrip(r.second) /\ r.gaps \in Seq(Int)

\* Needs with packs that serve them can be bought.
LEMMA BoughtIs ==
  ASSUME NEW n \in Nat, NEW b, b = [i \in 1..n |-> b[i]], NEW stores, IsStores(stores),
         NEW config, Wants(config),
         \A i \in 1..n : /\ IsNeed(b[i].need)
                         /\ \E c : /\ IsServed(c, stores, config)
                                   /\ \E s \in DOMAIN c : b[i].sel = c[s]
  PROVE  IsAssignments(b, n, stores, config) /\ IsPlan(BuildPlan(b, stores, config))
<1>1. \A i \in 1..n : /\ IsSelection(b[i].sel)
                      /\ b[i].sel.store \in DOMAIN stores
                      /\ StoreSupportsFulfillment(stores[b[i].sel.store], config)
  BY DEF IsServed
<1>2. \A i \in 1..n : /\ Weights(b[i].need.allocatedTo)
                      /\ SumFunction(b[i].need.allocatedTo) # 0
  <2>1. \A i \in 1..n : /\ Weights(b[i].need.allocatedTo)
                        /\ SumFunction(b[i].need.allocatedTo) = b[i].need.quantity
                        /\ b[i].need.quantity \in Nat \ {0}
    BY DEF IsNeed
  <2> QED
    BY <2>1
<1>3. IsAssignments(b, n, stores, config)
  BY <1>1, <1>2 DEF IsAssignments
<1> QED
  BY <1>3, PlanIs

\* Everything at one store.
LEMMA SingleStorePlanIs ==
  ASSUME NEW n \in Nat, NEW needs, IsNeeds(needs, n), NEW stores, IsStores(stores), NEW config,
         Wants(config), NEW candidates, IsCandidates(candidates, n, stores, config), NEW s
  PROVE  IsTrip(SingleStorePlan(needs, candidates, s, stores, config))
<1> DEFINE b == [i \in DOMAIN needs |-> [need |-> needs[i], sel |-> candidates[i][s]]]
<1>1. CASE \E i \in DOMAIN needs : s \notin DOMAIN candidates[i]
  BY <1>1 DEF SingleStorePlan, IsTrip
<1>2. CASE \A i \in DOMAIN needs : s \in DOMAIN candidates[i]
  <2>1. SingleStorePlan(needs, candidates, s, stores, config) = BuildPlan(b, stores, config)
    BY <1>2 DEF SingleStorePlan
  <2>2. DOMAIN needs = 1..n /\ \A i \in 1..n : IsNeed(needs[i])
    BY DEF IsNeeds
  <2>3. \A i \in 1..n : IsServed(candidates[i], stores, config)
    BY DEF IsCandidates
  <2>4. \A i \in 1..n : b[i].need = needs[i] /\ b[i].sel = candidates[i][s]
    BY <2>2
  <2>5. b = [i \in 1..n |-> b[i]]
    BY <2>2
  <2> HIDE DEF b
  <2>6. \A i \in 1..n : /\ IsNeed(b[i].need)
                        /\ \E c : /\ IsServed(c, stores, config)
                                  /\ \E t \in DOMAIN c : b[i].sel = c[t]
    BY <1>2, <2>2, <2>3, <2>4
  <2>7. IsPlan(BuildPlan(b, stores, config))
    BY <2>5, <2>6, BoughtIs
  <2> QED
    BY <2>1, <2>7 DEF IsTrip
<1> QED
  BY <1>1, <1>2

\* A second trip is a cart with everything from one store, made when it can be.
LEMMA SecondTripIs ==
  ASSUME NEW n \in Nat, NEW needs, IsNeeds(needs, n), NEW stores, IsStores(stores), NEW config,
         Wants(config), NEW candidates, IsCandidates(candidates, n, stores, config),
         NEW eligible, IsEligible(eligible, stores, config)
  PROVE  LET trip == MinimumSecondTrip(needs, candidates, eligible, stores, config)
             there(s) == SingleStorePlan(needs, candidates, s, stores, config)
         IN  /\ IsTrip(trip)
             /\ trip # None => needs # <<>> /\ \E s \in eligible : trip = there(s)
             /\ needs # <<>> => \A s \in eligible : there(s) # None => trip # None
<1> DEFINE trips == IF needs = <<>> THEN {} ELSE eligible
           at == [s \in trips |-> SingleStorePlan(needs, candidates, s, stores, config)]
           all == {SingleStorePlan(needs, candidates, s, stores, config) : s \in trips}
           plans == all \ {None}
           key == [x \in plans |-> <<x.landed>> \o StoreIds(x)]
           best == MinimumSecondTrip(needs, candidates, eligible, stores, config)
<1>1. best = IF plans = {} THEN None
             ELSE CHOOSE x \in plans : \A y \in plans \ {x} :
                    ~Less(<<y.landed>> \o StoreIds(y), <<x.landed>> \o StoreIds(x))
  BY DEF MinimumSecondTrip, Least
<1>2. \A x \in plans : IsPlan(x)
  BY SingleStorePlanIs DEF IsTrip
<1>9. /\ \A x \in plans : needs # <<>> /\ \E s \in eligible :
                              x = SingleStorePlan(needs, candidates, s, stores, config)
      /\ needs # <<>> => \A s \in eligible :
           LET x == SingleStorePlan(needs, candidates, s, stores, config)
           IN  x # None => x \in plans
      /\ None \notin plans
  OBVIOUS
<1>3. IsFiniteSet(plans)
  <2>1. IsFiniteSet(eligible)
    BY FS_Subset DEF IsEligible, IsStores
  <2>2. IsFiniteSet(trips)
    BY <2>1, FS_EmptySet
  <2>3. all = {at[s] : s \in trips}
    OBVIOUS
  <2> HIDE DEF at, trips
  <2>4. IsFiniteSet({at[s] : s \in trips})
    BY <2>2, ImageIsFinite
  <2>5. IsFiniteSet(all)
    BY <2>3, <2>4
  <2> HIDE DEF all
  <2> QED
    BY <2>5, FS_Subset
<1> HIDE DEF plans, best
<1>4. \A x \in plans : <<x.landed>> \o StoreIds(x) \in Seq(Int)
  <2> SUFFICES ASSUME NEW x \in plans PROVE <<x.landed>> \o StoreIds(x) \in Seq(Int)
    OBVIOUS
  <2>1. x.landed \in Nat /\ OrderedFrom(x) \in Seq(Int)
    BY <1>2 DEF IsPlan
  <2>2. StoreIds(x) = OrderedFrom(x)
    BY DEF StoreIds, OrderedFrom
  <2> HIDE DEF StoreIds
  <2>3. <<x.landed>> \in Seq(Int)
    BY <2>1
  <2> QED
    BY <2>1, <2>2, <2>3
<1>5. \A x \in plans : key[x] = <<x.landed>> \o StoreIds(x)
  OBVIOUS
<1> HIDE DEF key
<1>6. plans # {} => \E x \in plans : \A y \in plans \ {x} : ~Less(key[y], key[x])
  <2>1. \A x \in plans : key[x] \in Seq(Int)
    BY <1>4, <1>5
  <2> QED
    BY <1>3, <2>1, LeastExists
<1>7. plans # {} => \E x \in plans : \A y \in plans \ {x} :
                      ~Less(<<y.landed>> \o StoreIds(y), <<x.landed>> \o StoreIds(x))
  BY <1>5, <1>6
<1>8. (plans = {} => best = None) /\ (plans # {} => best \in plans)
  BY <1>1, <1>7
<1>10. IsTrip(best)
  BY <1>2, <1>8 DEF IsTrip
<1>11. best # None => needs # <<>> /\ \E s \in eligible :
                        best = SingleStorePlan(needs, candidates, s, stores, config)
  BY <1>8, <1>9
<1>12. needs # <<>> => \A s \in eligible :
         SingleStorePlan(needs, candidates, s, stores, config) # None => best # None
  BY <1>8, <1>9
<1> QED
  BY <1>10, <1>11, <1>12 DEF best

\* The cart of nothing leaves out everything.
LEMMA NothingIs ==
  ASSUME NEW n \in Nat, NEW needs, IsNeeds(needs, n)
  PROVE  IsCart(Nothing(needs))
<1>1. Labels(needs) \in Seq(Int)
  BY LabelsAre
<1> QED
  BY <1>1, EmptyPlanIs DEF Nothing, IsCart, IsTrip

\* The cart of what a store sells, and the trip for what it lacks.
LEMMA FirstStopIs ==
  ASSUME NEW n \in Nat, NEW needs, IsNeeds(needs, n), NEW stores, IsStores(stores), NEW config,
         Wants(config), NEW candidates, IsCandidates(candidates, n, stores, config),
         NEW eligible, IsEligible(eligible, stores, config), NEW s
  PROVE  IsCart(FirstStop(needs, candidates, s, eligible, stores, config))
<1> DEFINE r == FirstStop(needs, candidates, s, eligible, stores, config)
           assigned == [i \in DOMAIN needs |->
                          [need |-> needs[i],
                           sel |-> IF s \in DOMAIN candidates[i] THEN candidates[i][s] ELSE None]]
           P == {i \in DOMAIN assigned : s \in DOMAIN candidates[i]}
           L == {i \in DOMAIN needs : s \notin DOMAIN candidates[i]}
           M == {i \in DOMAIN candidates : s \notin DOMAIN candidates[i]}
           b == Pick(assigned, InOrderOf(P))
           lacking == Pick(needs, InOrderOf(L))
           served == Pick(candidates, InOrderOf(L))
<1>1. DOMAIN needs = 1..n /\ DOMAIN candidates = 1..n /\ \A i \in 1..n : IsNeed(needs[i])
  BY DEF IsNeeds, IsCandidates
<1>2. M = L /\ L \in SUBSET (1..n) /\ P \in SUBSET (1..n)
  BY <1>1
<1>3. /\ r.plan = BuildPlan(b, stores, config)
      /\ r.gaps = Labels(lacking)
      /\ r.second = MinimumSecondTrip(lacking, Pick(candidates, InOrderOf(M)), eligible,
                                      stores, config)
  BY DEF FirstStop, At, InOrderOf
<1>4. /\ Cardinality(L) \in Nat /\ IsNeeds(lacking, Cardinality(L))
      /\ IsCandidates(served, Cardinality(L), stores, config)
  BY <1>2, PickedNeeds
<1>5. IsTrip(r.second)
  <2> HIDE DEF lacking, served, L, M, r
  <2>1. r.second = MinimumSecondTrip(lacking, served, eligible, stores, config)
    BY <1>2, <1>3 DEF served
  <2> QED
    BY <1>4, <2>1, SecondTripIs
<1>6. r.gaps \in Seq(Int)
  <2> HIDE DEF lacking, served, L, M, r
  <2> QED
    BY <1>3, <1>4, LabelsAre
<1>7. IsPlan(r.plan)
  <2> DEFINE m == Cardinality(P)
             q == InOrderOf(P)
  <2>1. /\ m \in Nat /\ b = [k \in 1..m |-> b[k]]
        /\ \A k \in 1..m : q[k] \in P /\ b[k] = assigned[q[k]]
    <3> HIDE DEF P, assigned, L, M, r
    <3> QED
      BY <1>2, PickedAt
  <2>2. \A i \in P : /\ i \in 1..n /\ assigned[i].need = needs[i]
                     /\ assigned[i].sel = candidates[i][s] /\ s \in DOMAIN candidates[i]
    BY <1>1
  <2>3. \A i \in 1..n : IsServed(candidates[i], stores, config)
    BY DEF IsCandidates
  <2> HIDE DEF m, q, b, P, assigned
  <2>4. \A k \in 1..m : /\ IsNeed(b[k].need)
                        /\ \E c : /\ IsServed(c, stores, config)
                                  /\ \E t \in DOMAIN c : b[k].sel = c[t]
    BY <1>1, <2>1, <2>2, <2>3
  <2>5. IsPlan(BuildPlan(b, stores, config))
    <3>1. m \in Nat /\ b = [k \in 1..m |-> b[k]]
      BY <2>1
    <3> QED
      BY <2>4, <3>1, BoughtIs
  <2> QED
    BY <1>3, <2>5
<1> QED
  BY <1>5, <1>6, <1>7 DEF IsCart

\* A cart that leaves out nothing, or has a second trip for it, is no worse
\* than one that does the same.
NoWorse(r, q) ==
  /\ q.gaps = <<>> => r.gaps = <<>>
  /\ (q.gaps = <<>> \/ q.second # None) => (r.gaps = <<>> \/ r.second # None)

\* The best of the first stops is one of them.
LEMMA SingleStopIs ==
  ASSUME NEW n \in Nat, NEW needs, IsNeeds(needs, n), NEW stores, IsStores(stores), NEW config,
         Wants(config), NEW candidates, IsCandidates(candidates, n, stores, config),
         NEW eligible, IsEligible(eligible, stores, config)
  PROVE  LET best == BestSingleStop(needs, candidates, eligible, stores, config)
             useful == {s \in eligible : \E i \in DOMAIN needs : s \in DOMAIN candidates[i]}
             stop(s) == FirstStop(needs, candidates, s, eligible, stores, config)
         IN  /\ IsCart(best)
             /\ useful = {} => best = Nothing(needs)
             /\ useful # {} => \E s \in useful : best = stop(s)
             /\ \A s \in useful : NoWorse(best, stop(s))
<1> DEFINE useful == {s \in eligible : \E i \in DOMAIN needs : s \in DOMAIN candidates[i]}
           stop == [s \in useful |-> FirstStop(needs, candidates, s, eligible, stores, config)]
           S == {FirstStop(needs, candidates, s, eligible, stores, config) : s \in useful}
           total(r) == r.plan.landed + (IF r.second = None THEN 0 ELSE r.second.landed)
           K(r) == <<AsNumber(r.gaps # <<>>), AsNumber(r.gaps # <<>> /\ r.second = None),
                     Len(r.gaps), total(r), r.plan.landed>> \o StoreIds(r.plan)
           key == [r \in S |-> K(r)]
           best == BestSingleStop(needs, candidates, eligible, stores, config)
<1>1. best = IF useful = {} THEN Nothing(needs)
             ELSE CHOOSE x \in S : \A y \in S \ {x} : ~Less(K(y), K(x))
  BY DEF BestSingleStop, Least
<1>2. \A r \in S : IsCart(r)
  BY FirstStopIs
<1>3. IsFiniteSet(S) /\ (useful # {} => S # {})
  <2>1. IsFiniteSet(eligible)
    BY FS_Subset DEF IsEligible, IsStores
  <2>2. IsFiniteSet(useful)
    BY <2>1, FS_Subset
  <2>3. S = {stop[s] : s \in useful}
    OBVIOUS
  <2>4. useful # {} => S # {}
    OBVIOUS
  <2> HIDE DEF stop, useful, S
  <2>5. IsFiniteSet({stop[s] : s \in useful})
    BY <2>2, ImageIsFinite
  <2> QED
    BY <2>3, <2>4, <2>5
<1> HIDE DEF S, best
<1>9. /\ \A r \in S : \E s \in useful :
           r = FirstStop(needs, candidates, s, eligible, stores, config)
      /\ \A s \in useful : FirstStop(needs, candidates, s, eligible, stores, config) \in S
  BY DEF S
<1>4. ASSUME NEW r \in S
      PROVE  /\ K(r) \in Seq(Int)
             /\ K(r)[1] = AsNumber(r.gaps # <<>>) /\ 1 \in DOMAIN K(r) /\ 2 \in DOMAIN K(r)
             /\ K(r)[2] = AsNumber(r.gaps # <<>> /\ r.second = None) /\ Len(K(r)) >= 2
  <2>1. /\ r.plan.landed \in Nat /\ OrderedFrom(r.plan) \in Seq(Int)
        /\ r.gaps \in Seq(Int)
        /\ r.second = None \/ r.second.landed \in Nat
    BY <1>2 DEF IsCart, IsTrip, IsPlan
  <2>2. StoreIds(r.plan) = OrderedFrom(r.plan)
    BY DEF StoreIds, OrderedFrom
  <2>3. total(r) \in Int
    BY <2>1
  <2>4. Len(r.gaps) \in Int
    BY <2>1
  <2>5. /\ AsNumber(r.gaps # <<>>) \in Int
        /\ AsNumber(r.gaps # <<>> /\ r.second = None) \in Int
    BY DEF AsNumber
  <2> HIDE DEF total
  <2> DEFINE t == <<AsNumber(r.gaps # <<>>), AsNumber(r.gaps # <<>> /\ r.second = None),
                    Len(r.gaps), total(r), r.plan.landed>>
  <2>6. /\ t \in Seq(Int) /\ Len(t) = 5 /\ t[1] = AsNumber(r.gaps # <<>>)
        /\ t[2] = AsNumber(r.gaps # <<>> /\ r.second = None)
    BY <2>1, <2>3, <2>4, <2>5
  <2>8. K(r) = t \o OrderedFrom(r.plan)
    BY <2>2
  <2> HIDE DEF t, K
  <2>7. /\ K(r) \in Seq(Int) /\ Len(K(r)) >= 2 /\ 1 \in DOMAIN K(r) /\ 2 \in DOMAIN K(r)
        /\ K(r)[1] = t[1] /\ K(r)[2] = t[2]
    <3> DEFINE w == OrderedFrom(r.plan)
               a == K(r)
    <3>1. w \in Seq(Int) /\ a = t \o w
      BY <2>1, <2>8
    <3> HIDE DEF w, a
    <3>6. t \o w \in Seq(Int) /\ Len(t \o w) = Len(t) + Len(w)
      BY <2>6, <3>1, JoinedIs
    <3>2. a \in Seq(Int) /\ Len(a) = 5 + Len(w) /\ Len(w) \in Nat
      BY <2>6, <3>1, <3>6
    <3>3. \A k \in 1..Len(t) : (t \o w)[k] = t[k]
      BY <2>6, <3>1, JoinedIs
    <3>4. a[1] = t[1] /\ a[2] = t[2]
      <4>1. 1 \in 1..Len(t) /\ 2 \in 1..Len(t)
        BY <2>6
      <4> QED
        BY <3>1, <3>3, <4>1
    <3>5. 1 \in DOMAIN a /\ 2 \in DOMAIN a /\ Len(a) >= 2
      BY <3>2
    <3> QED
      BY <3>2, <3>4, <3>5 DEF a
  <2> QED
    BY <2>6, <2>7
<1>5. \A r \in S : key[r] = K(r)
  OBVIOUS
<1> HIDE DEF key, K
<1>6. S # {} => \E x \in S : \A y \in S \ {x} : ~Less(key[y], key[x])
  <2>1. \A r \in S : key[r] \in Seq(Int)
    BY <1>4, <1>5
  <2> QED
    BY <1>3, <2>1, LeastExists
<1>7. S # {} => \E x \in S : \A y \in S \ {x} : ~Less(K(y), K(x))
  BY <1>5, <1>6
<1>8. /\ useful = {} => best = Nothing(needs)
      /\ useful # {} => /\ best \in S
                        /\ \A y \in S \ {best} : ~Less(K(y), K(best))
  BY <1>1, <1>3, <1>7
<1>10. IsCart(best)
  BY <1>2, <1>8, NothingIs
<1>11. ASSUME NEW s \in useful
       PROVE  NoWorse(best, FirstStop(needs, candidates, s, eligible, stores, config))
  <2> DEFINE y == FirstStop(needs, candidates, s, eligible, stores, config)
             u == K(y)
             v == K(best)
  <2>1. y \in S /\ best \in S /\ (y # best => ~Less(u, v))
    BY <1>8, <1>9
  <2>2. /\ u \in Seq(Int) /\ Len(u) >= 2 /\ 1 \in DOMAIN v /\ 2 \in DOMAIN v
        /\ u[1] = AsNumber(y.gaps # <<>>)
        /\ u[2] = AsNumber(y.gaps # <<>> /\ y.second = None)
        /\ v[1] = AsNumber(best.gaps # <<>>)
        /\ v[2] = AsNumber(best.gaps # <<>> /\ best.second = None)
    BY <1>4, <2>1
  <2> HIDE DEF u, v, y
  <2>3. Len(u) \in Nat
    BY <2>2
  <2>4. u[1] < v[1] => Less(u, v)
    <3>1. \A j \in 1..(1 - 1) : FALSE
      OBVIOUS
    <3> QED
      BY <2>2, <3>1 DEF Less
  <2>5. u[1] = v[1] /\ u[2] < v[2] => Less(u, v)
    <3>1. \A j \in 1..(2 - 1) : j = 1 /\ j <= Len(u)
      BY <2>2, <2>3
    <3> QED
      BY <2>2, <3>1 DEF Less
  <2>6. CASE y = best
    BY <2>6 DEF NoWorse, y
  <2>7. CASE y # best
    <3>1. ~(u[1] < v[1]) /\ ~(u[1] = v[1] /\ u[2] < v[2])
      BY <2>1, <2>4, <2>5, <2>7
    <3>2. y.gaps = <<>> => best.gaps = <<>>
      <4>1. ASSUME y.gaps = <<>>, best.gaps # <<>> PROVE FALSE
        <5>1. u[1] = 0 /\ v[1] = 1
          BY <2>2, <4>1 DEF AsNumber
        <5> QED
          BY <3>1, <5>1
      <4> QED
        BY <4>1
    <3>3. y.gaps # <<>> /\ y.second # None => best.gaps = <<>> \/ best.second # None
      <4>1. ASSUME y.gaps # <<>>, y.second # None, best.gaps # <<>>, best.second = None
            PROVE  FALSE
        <5>1. u[1] = 1 /\ v[1] = 1 /\ u[2] = 0 /\ v[2] = 1
          BY <2>2, <4>1 DEF AsNumber
        <5> QED
          BY <3>1, <5>1
      <4> QED
        BY <4>1
    <3> QED
      BY <3>2, <3>3 DEF NoWorse, y
  <2> QED
    BY <2>6, <2>7
<1> QED
  BY <1>8, <1>9, <1>10, <1>11 DEF best

\* The stores a cart is ordered from, one order each, are those it was bought at.
LEMMA StoresUsed ==
  ASSUME NEW n \in Nat, NEW bought, NEW stores, NEW config,
         IsAssignments(bought, n, stores, config),
         IsStores(stores), Wants(config)
  PROVE  LET plan == BuildPlan(bought, stores, config)
         IN  /\ Range(StoreIds(plan)) = UsedBy(bought)
             /\ Len(plan.orders) = Cardinality(UsedBy(bought))
<1> DEFINE plan == BuildPlan(bought, stores, config)
           orders == plan.orders
           U == UsedBy(bought)
<1>1. bought = [i \in 1..n |-> bought[i]]
  BY DEF IsAssignments
<1>2. CASE n = 0
  <2>1. bought = <<>>
    BY <1>1, <1>2
  <2>2. plan = EmptyPlan
    BY <2>1 DEF BuildPlan
  <2>3. orders = <<>>
    BY <2>2 DEF EmptyPlan
  <2>4. U = {}
    BY <2>1 DEF UsedBy
  <2>5. Cardinality(U) = 0
    BY <2>4, FS_EmptySet
  <2> HIDE DEF plan, U
  <2>6. Range(StoreIds(plan)) = {}
    BY <2>3 DEF Range, StoreIds
  <2>7. Len(orders) = 0
    BY <2>3
  <2> QED
    BY <2>4, <2>5, <2>6, <2>7 DEF plan, U
<1>3. CASE n > 0
  <2>1. IsOrders(orders, bought)
    BY <1>3, PlanIs
  <2>2. ListsOnce(InOrderOf(U), U) /\ Cardinality(U) \in Nat
    BY AssignmentsAre
  <2> DEFINE q == InOrderOf(U)
             m == Cardinality(U)
  <2>3. /\ DOMAIN orders = 1..m /\ orders = [k \in DOMAIN orders |-> orders[k]]
        /\ \A k \in DOMAIN orders : orders[k].store = q[k]
    BY <2>1 DEF IsOrders
  <2>4. DOMAIN q = 1..m /\ (\A k \in 1..m : q[k] \in U) /\ \A s \in U : \E k \in 1..m : q[k] = s
    BY <2>2 DEF ListsOnce
  <2>5. m \in Nat
    BY <2>2
  <2> HIDE DEF plan, U, q, m
  <2>6. Range(StoreIds(plan)) = U
    BY <2>3, <2>4 DEF Range, StoreIds
  <2>7. Len(orders) = m
    BY <2>3, <2>5
  <2> QED
    BY <2>6, <2>7 DEF plan, U, m
<1> QED
  BY <1>2, <1>3

\* The best cart uses stores that serve the needs, as many as it may.
LEMMA BestPlanUses ==
  ASSUME NEW n \in Nat, NEW p, NEW stores, IsStores(stores), NEW config, Wants(config),
         IsSearch(p, n, stores, config), Assignments(p) # {}, NEW E,
         \A k \in 1..n : DOMAIN p.ordered[k].candidates \in SUBSET E
  PROVE  LET used == Range(StoreIds(BestPlan(p)))
         IN  used \in SUBSET E /\ (p.limit # None => Cardinality(used) <= p.limit)
<1>1. PICK a \in Assignments(p) : BestPlan(p) = PlanOf(p, a)
  BY BestPlanIs
<1> DEFINE b == BoughtBy(p, a)
<1>2. /\ DOMAIN a = 1..n /\ \A i \in 1..n : a[i] \in DOMAIN p.ordered[i].candidates
      /\ IsAssignments(b, n, stores, config)
      /\ \A i \in 1..n : b[i].sel.store = a[i]
      /\ PlanOf(p, a) = BuildPlan(b, stores, config)
  BY BoughtByIs
<1> HIDE DEF b
<1>3. Range(StoreIds(BuildPlan(b, stores, config))) = UsedBy(b)
  BY <1>2, StoresUsed
<1>4. DOMAIN b = 1..n
  BY <1>2 DEF IsAssignments
<1>5. UsedBy(b) = Range(a)
  BY <1>2, <1>4 DEF UsedBy, Range
<1>6. Range(a) \in SUBSET E
  BY <1>2 DEF Range
<1>7. p.limit # None => Cardinality(Range(a)) <= p.limit
  BY DEF Assignments
<1> QED
  BY <1>1, <1>2, <1>3, <1>5, <1>6, <1>7

\* What is changed of how the parent wants the cart, and what stays.
SameWish(c, config) ==
  /\ IsConfig(c) /\ c.mode = config.mode
  /\ \A store : StoreSupportsFulfillment(store, c) <=> StoreSupportsFulfillment(store, config)

\* Another number of stores leaves the other wishes as they are.
LEMMA LimitChanged ==
  ASSUME NEW config, IsConfig(config), NEW limit \in Nat
  PROVE  LET c == [config EXCEPT !.maxStores = limit]
         IN  SameWish(c, config) /\ c.maxStores = limit
<1> DEFINE c == [config EXCEPT !.maxStores = limit]
           names == {"mode", "maxStores", "preference", "allowed", "radius", "tax", "budget"}
<1>1. names \in SUBSET DOMAIN config
  BY DEF IsConfig
<1>2. DOMAIN c = DOMAIN config /\ c.maxStores = limit
  BY <1>1
<1>3. /\ c.mode = config.mode /\ c.preference = config.preference /\ c.tax = config.tax
      /\ c.radius = config.radius
  BY <1>1
<1> HIDE DEF c
<1>4. IsConfig(c)
  BY <1>1, <1>2, <1>3 DEF IsConfig, Wants
<1>5. \A store : StoreSupportsFulfillment(store, c) <=> StoreSupportsFulfillment(store, config)
  BY <1>3 DEF StoreSupportsFulfillment, PickupTripIsWithinRadius
<1> QED
  BY <1>2, <1>3, <1>4, <1>5 DEF SameWish, c

\* When each need can be served somewhere, and the number of stores does not
\* forbid it, there is a cart.
LEMMA SearchSucceeds ==
  ASSUME NEW n \in Nat, NEW p, NEW stores, NEW config, IsSearch(p, n, stores, config),
         \A k \in 1..n : DOMAIN p.ordered[k].candidates # {},
         NEW S, IsFiniteSet(S),
         p.limit = None \/ (/\ p.limit = Cardinality(S)
                            /\ \A k \in 1..n : DOMAIN p.ordered[k].candidates \in SUBSET S)
  PROVE  Assignments(p) # {}
<1> DEFINE a == [k \in 1..n |-> CHOOSE s \in DOMAIN p.ordered[k].candidates : TRUE]
<1>1. \A k \in 1..n : a[k] \in DOMAIN p.ordered[k].candidates
  OBVIOUS
<1>2. DOMAIN p.ordered = 1..n /\ p.stores = stores
  BY DEF IsSearch
<1>3. \A k \in 1..n : DOMAIN p.ordered[k].candidates \in SUBSET DOMAIN stores
  BY DEF IsSearch, IsServed
<1>6. DOMAIN a = 1..n /\ a = [k \in 1..n |-> a[k]]
  OBVIOUS
<1> HIDE DEF a
<1>4. a \in [1..n -> DOMAIN stores]
  BY <1>1, <1>3, <1>6
<1>5. p.limit # None => Cardinality(Range(a)) <= p.limit
  <2> SUFFICES ASSUME p.limit # None PROVE Cardinality(Range(a)) <= p.limit
    OBVIOUS
  <2>1. Range(a) \in SUBSET S
    BY <1>1, <1>6 DEF Range
  <2>2. Cardinality(Range(a)) <= Cardinality(S)
    BY <2>1, FS_Subset
  <2> QED
    BY <2>2
<1> QED
  BY <1>1, <1>2, <1>4, <1>5, <1>6 DEF Assignments

\* The needs that nothing at some stores serves.
Missing(candidates, n, S) == {i \in 1..n : S \cap DOMAIN candidates[i] = {}}

\* The cart of a scope leaves out what its stores do not serve.
IsWithin(r, candidates, n, S) ==
  /\ IsCart(r) /\ r.scope = S /\ r.second = None
  /\ Range(StoreIds(r.plan)) \in SUBSET S
  /\ Len(r.gaps) = Cardinality(Missing(candidates, n, S))

\* A plan that a search finds for some of the needs, with some of what serves them.
IsForSome(plan, needs, candidates, n, stores) ==
  \E P \in SUBSET (1..n) : \E served, config :
    LET p == SearchFrom(Pick(needs, InOrderOf(P)), Pick(served, InOrderOf(P)), stores, config)
    IN  /\ IsCandidates(served, n, stores, config) /\ Wants(config)
        /\ \A i \in 1..n : \A s \in DOMAIN served[i] : /\ s \in DOMAIN candidates[i]
                                                      /\ served[i][s] = candidates[i][s]
        /\ Assignments(p) # {} /\ plan = BestPlan(p)

\* The cart of what the stores of a scope sell.
LEMMA WithinScopeIs ==
  ASSUME NEW n \in Nat, NEW needs, IsNeeds(needs, n), NEW stores, IsStores(stores), NEW config,
         IsConfig(config), NEW candidates, IsCandidates(candidates, n, stores, config),
         NEW S \in SUBSET DOMAIN stores
  PROVE  LET r == WithinScope(needs, candidates, S, stores, config)
         IN  IsWithin(r, candidates, n, S) /\ IsForSome(r.plan, needs, candidates, n, stores)
<1> DEFINE c == [config EXCEPT !.maxStores = Cardinality(S)]
           within == [i \in DOMAIN needs |-> Restrict(candidates[i], DOMAIN candidates[i] \cap S)]
           r == WithinScope(needs, candidates, S, stores, config)
           P == {i \in DOMAIN needs : DOMAIN candidates[i] \cap S # {}}
           W == {i \in DOMAIN within : DOMAIN candidates[i] \cap S # {}}
           L == {i \in DOMAIN needs : ~(DOMAIN candidates[i] \cap S # {})}
           m == Cardinality(P)
           q == InOrderOf(P)
           a == Pick(needs, q)
           b == Pick(within, q)
           p == SearchFrom(a, b, stores, c)
<1>1. /\ r.plan = BestPlan(SearchFrom(a, Pick(within, InOrderOf(W)), stores, c))
      /\ r.gaps = Labels(Pick(needs, InOrderOf(L))) /\ r.second = None /\ r.scope = S
  BY DEF WithinScope, At, InOrderOf
<1>2. DOMAIN needs = 1..n /\ DOMAIN candidates = 1..n
  BY DEF IsNeeds, IsCandidates
<1>3. /\ W = P /\ P \in SUBSET (1..n) /\ L \in SUBSET (1..n)
      /\ L = {i \in 1..n : DOMAIN candidates[i] \cap S = {}}
      /\ \A i \in P : DOMAIN candidates[i] \cap S # {}
  BY <1>2
<1>4. /\ IsConfig(c) /\ c.mode = config.mode /\ c.maxStores = Cardinality(S)
      /\ \A store : StoreSupportsFulfillment(store, c) <=> StoreSupportsFulfillment(store, config)
  <2>1. IsFiniteSet(S)
    BY FS_Subset DEF IsStores
  <2>2. Cardinality(S) \in Nat
    BY <2>1, FS_CardinalityType
  <2> QED
    BY <2>2, LimitChanged DEF SameWish
<1>5. within = [i \in 1..n |-> within[i]]
      /\ \A i \in 1..n : /\ DOMAIN within[i] = DOMAIN candidates[i] \cap S
                         /\ IsMapping(within[i])
                         /\ \A s \in DOMAIN within[i] : within[i][s] = candidates[i][s]
  BY <1>2 DEF Restrict, IsMapping
<1> HIDE DEF c, within, r, P, W, L
<1>6. IsCandidates(within, n, stores, c)
  <2>1. \A i \in 1..n : IsServed(within[i], stores, c)
    BY <1>4, <1>5 DEF IsCandidates, IsServed
  <2> QED
    BY <1>5, <2>1 DEF IsCandidates
<1>7. /\ m \in Nat /\ IsNeeds(a, m) /\ IsCandidates(b, m, stores, c)
      /\ \A k \in 1..m : q[k] \in P /\ b[k] = within[q[k]]
  BY <1>3, <1>6, PickedNeeds
<1> HIDE DEF m, q, a, b
<1>8. /\ IsSearch(p, m, stores, c) /\ p.limit = StoreLimit(c)
      /\ \E order : /\ ListsOnce(order, 1..m) /\ DOMAIN order = 1..m
                    /\ \A k \in 1..m : /\ order[k] \in 1..m
                                       /\ p.ordered[k].candidates = b[order[k]]
  BY <1>4, <1>7, SearchIs
<1> HIDE DEF p
<1>9. \A k \in 1..m : /\ DOMAIN p.ordered[k].candidates # {}
                      /\ DOMAIN p.ordered[k].candidates \in SUBSET S
  <2>1. \A k \in 1..m : DOMAIN b[k] # {} /\ DOMAIN b[k] \in SUBSET S
    BY <1>3, <1>5, <1>7
  <2> QED
    BY <1>8, <2>1
<1>10. IsFiniteSet(S)
  BY FS_Subset DEF IsStores
<1>11. Assignments(p) # {}
  <2>1. p.limit = None \/ p.limit = Cardinality(S)
    BY <1>4, <1>8 DEF StoreLimit
  <2> QED
    BY <1>7, <1>8, <1>9, <1>10, <2>1, SearchSucceeds
<1>12. IsPlan(BestPlan(p))
  <2>1. Wants(c)
    BY <1>4 DEF IsConfig
  <2> QED
    BY <1>7, <1>8, <1>11, <2>1, BestPlanIs
<1>15. Range(StoreIds(BestPlan(p))) \in SUBSET S
  <2>1. Wants(c)
    BY <1>4 DEF IsConfig
  <2>2. m \in Nat /\ IsSearch(p, m, stores, c)
    BY <1>7, <1>8
  <2> QED
    BY <1>9, <1>11, <2>1, <2>2, BestPlanUses
<1>13. r.plan = BestPlan(p)
  BY <1>1, <1>3 DEF p, b, q
<1>14. r.gaps \in Seq(Int) /\ Len(r.gaps) = Cardinality(L)
  <2>1. Cardinality(L) \in Nat /\ IsNeeds(Pick(needs, InOrderOf(L)), Cardinality(L))
    BY <1>3, PickedNeeds
  <2> QED
    BY <1>1, <2>1, LabelsAre
<1>16. IsForSome(r.plan, needs, candidates, n, stores)
  <2>1. \A i \in 1..n : \A s \in DOMAIN within[i] : /\ s \in DOMAIN candidates[i]
                                                  /\ within[i][s] = candidates[i][s]
    BY <1>5
  <2>2. p = SearchFrom(Pick(needs, InOrderOf(P)), Pick(within, InOrderOf(P)), stores, c)
    BY DEF p, a, b, q
  <2>3. Wants(c)
    BY <1>4 DEF IsConfig
  <2> QED
    BY <1>3, <1>6, <1>11, <1>13, <2>1, <2>2, <2>3 DEF IsForSome
<1> QED
  <2>1. L = Missing(candidates, n, S)
    BY <1>3 DEF Missing
  <2> QED
    BY <1>1, <1>12, <1>13, <1>14, <1>15, <1>16, <2>1 DEF IsCart, IsTrip, IsWithin, r

\* A pair in front decides when it differs.
LEMMA LessInFront ==
  ASSUME NEW a \in Int, NEW b \in Int, NEW s \in Seq(Int),
         NEW c \in Int, NEW d \in Int, NEW t \in Seq(Int), a < c \/ (a = c /\ b < d)
  PROVE  Less(<<a, b>> \o s, <<c, d>> \o t)
<1> DEFINE u == <<a, b>> \o s
           v == <<c, d>> \o t
<1>1. u[1] = a /\ u[2] = b /\ Len(u) = 2 + Len(s) /\ Len(s) \in Nat
  OBVIOUS
<1>2. v[1] = c /\ v[2] = d /\ DOMAIN v = 1..(2 + Len(t)) /\ Len(t) \in Nat
  OBVIOUS
<1> HIDE DEF u, v
<1>3. 1 \in DOMAIN v /\ 2 \in DOMAIN v
  BY <1>2
<1>4. /\ \A j \in 1..(1 - 1) : FALSE
      /\ \A j \in 1..(2 - 1) : j = 1 /\ j <= Len(u)
  BY <1>1
<1>5. CASE a < c
  <2>1. Less(u, v)
    BY <1>1, <1>2, <1>3, <1>4, <1>5 DEF Less
  <2> QED
    BY <2>1 DEF u, v
<1>6. CASE a = c /\ b < d
  <2>1. Less(u, v)
    BY <1>1, <1>2, <1>3, <1>4, <1>6 DEF Less
  <2> QED
    BY <2>1 DEF u, v
<1> QED
  BY <1>5, <1>6

\* A scope's stores in order.
LEMMA ScopeKeyIs ==
  ASSUME NEW S \in SUBSET Int, IsFiniteSet(S)
  PROVE  ScopeKey(S) \in Seq(Int)
<1>1. /\ Cardinality(S) \in Nat /\ ListsOnce(InOrderOf(S), S)
      /\ DOMAIN InOrderOf(S) = 1..Cardinality(S)
  BY SortedNumbers
<1>2. ScopeKey(S) = <<Cardinality(S)>> \o InOrderOf(S)
  BY DEF ScopeKey, InOrderOf
<1>3. InOrderOf(S) \in Seq(Int)
  <2> DEFINE q == InOrderOf(S)
             m == Cardinality(S)
  <2>1. q \in [1..m -> S] /\ m \in Nat
    BY <1>1 DEF ListsOnce
  <2> HIDE DEF q, m
  <2>2. q \in [1..m -> Int]
    BY <2>1
  <2>3. q \in Seq(Int)
    BY <2>1, <2>2
  <2> QED
    BY <2>3 DEF q
<1>4. <<Cardinality(S)>> \in Seq(Int)
  BY <1>1
<1> QED
  BY <1>2, <1>3, <1>4

\* Of the carts of some scopes, one that leaves out the fewest.
LEMMA FewestGapsIs ==
  ASSUME NEW n \in Nat, NEW needs, IsNeeds(needs, n), NEW results, IsFiniteSet(results),
         \A r \in results : IsCart(r) /\ r.scope \in SUBSET Int /\ IsFiniteSet(r.scope)
  PROVE  LET best == FewestGaps(results, needs)
         IN  /\ IsCart(best)
             /\ results # {} => best \in results /\ \A r \in results : Len(best.gaps) <= Len(r.gaps)
             /\ results = {} => best = Nothing(needs)
<1> DEFINE best == FewestGaps(results, needs)
           tail(r) == PlanSortKey(r.plan) \o ScopeKey(r.scope)
           front(r) == <<AsNumber(r.gaps # <<>>), Len(r.gaps)>>
           K(r) == front(r) \o PlanSortKey(r.plan) \o ScopeKey(r.scope)
           key == [r \in results |-> K(r)]
<1>1. best = IF results = {} THEN Nothing(needs)
             ELSE CHOOSE x \in results : \A y \in results \ {x} : ~Less(K(y), K(x))
  BY DEF FewestGaps, Least
<1>2. \A r \in results : /\ PlanSortKey(r.plan) \in Seq(Int) /\ ScopeKey(r.scope) \in Seq(Int)
                         /\ Len(r.gaps) \in Nat /\ AsNumber(r.gaps # <<>>) \in Int
  <2> SUFFICES ASSUME NEW r \in results
               PROVE  /\ PlanSortKey(r.plan) \in Seq(Int) /\ ScopeKey(r.scope) \in Seq(Int)
                      /\ Len(r.gaps) \in Nat /\ AsNumber(r.gaps # <<>>) \in Int
    OBVIOUS
  <2>1. ScopeKey(r.scope) \in Seq(Int)
    BY ScopeKeyIs
  <2>2. PlanSortKey(r.plan) \in Seq(Int) /\ r.gaps \in Seq(Int)
    BY DEF IsCart, IsPlan
  <2>3. Len(r.gaps) \in Nat
    BY <2>2
  <2>4. AsNumber(r.gaps # <<>>) \in Int
    BY DEF AsNumber
  <2> QED
    BY <2>1, <2>2, <2>3, <2>4
<1>3. \A r \in results : K(r) = front(r) \o tail(r) /\ tail(r) \in Seq(Int) /\ K(r) \in Seq(Int)
  <2> SUFFICES ASSUME NEW r \in results
               PROVE  K(r) = front(r) \o tail(r) /\ tail(r) \in Seq(Int) /\ K(r) \in Seq(Int)
    OBVIOUS
  <2> DEFINE x == AsNumber(r.gaps # <<>>)
             y == Len(r.gaps)
             s == PlanSortKey(r.plan)
             t == ScopeKey(r.scope)
  <2>1. x \in Int /\ y \in Int /\ s \in Seq(Int) /\ t \in Seq(Int)
    BY <1>2
  <2> HIDE DEF x, y, s, t
  <2>2. /\ (<<x, y>> \o s) \o t = <<x, y>> \o (s \o t)
        /\ s \o t \in Seq(Int) /\ <<x, y>> \o (s \o t) \in Seq(Int)
    BY <2>1
  <2> QED
    BY <2>2 DEF x, y, s, t
<1>4. \A r \in results : key[r] = K(r)
  OBVIOUS
<1> HIDE DEF key, K, best
<1>5. results # {} => \E x \in results : \A y \in results \ {x} : ~Less(key[y], key[x])
  <2>1. \A r \in results : key[r] \in Seq(Int)
    BY <1>3, <1>4
  <2> QED
    BY <2>1, LeastExists
<1>6. results # {} => \E x \in results : \A y \in results \ {x} : ~Less(K(y), K(x))
  BY <1>4, <1>5
<1>7. results # {} => best \in results /\ \A y \in results \ {best} : ~Less(K(y), K(best))
  BY <1>1, <1>6
<1> HIDE DEF tail
<1>8. ASSUME results # {}, NEW r \in results PROVE Len(best.gaps) <= Len(r.gaps)
  <2>1. best \in results
    BY <1>7, <1>8
  <2>2. Len(r.gaps) \in Nat /\ Len(best.gaps) \in Nat
    BY <1>2, <2>1
  <2> SUFFICES ASSUME Len(r.gaps) < Len(best.gaps) PROVE FALSE
    BY <2>2
  <2>3. r # best
    BY <2>2
  <2>4. ~Less(K(r), K(best))
    BY <1>7, <1>8, <2>3
  <2> DEFINE e == AsNumber(r.gaps # <<>>)
             f == AsNumber(best.gaps # <<>>)
             u == Len(r.gaps)
             v == Len(best.gaps)
  <2>5. f = 1
    <3>1. best.gaps # <<>>
      BY <2>2
    <3> QED
      BY <3>1 DEF AsNumber
  <2>6. e = 0 \/ e = 1
    BY DEF AsNumber
  <2>9. /\ K(r) = <<e, u>> \o tail(r) /\ K(best) = <<f, v>> \o tail(best)
        /\ tail(r) \in Seq(Int) /\ tail(best) \in Seq(Int)
    BY <1>3, <2>1
  <2>10. u \in Int /\ v \in Int /\ u < v
    BY <2>2
  <2> HIDE DEF e, f, u, v
  <2>7. e < f \/ (e = f /\ u < v)
    BY <2>5, <2>6, <2>10
  <2>11. e \in Int /\ f \in Int
    BY <2>5, <2>6
  <2>8. Less(<<e, u>> \o tail(r), <<f, v>> \o tail(best))
    BY <2>7, <2>9, <2>10, <2>11, LessInFront
  <2> QED
    BY <2>4, <2>8, <2>9
<1>9. IsCart(best)
  <2>1. CASE results = {}
    BY <1>1, <2>1, NothingIs
  <2>2. CASE results # {}
    BY <1>7, <2>2
  <2> QED
    BY <2>1, <2>2
<1>10. results = {} => best = Nothing(needs)
  BY <1>1
<1> QED
  BY <1>7, <1>8, <1>9, <1>10 DEF best

\* No more can be missing than there is, and with no stores all of it.
LEMMA MissingIs ==
  ASSUME NEW n \in Nat, NEW candidates, NEW S
  PROVE  /\ Cardinality(Missing(candidates, n, S)) \in 0..n
         /\ Cardinality(Missing(candidates, n, {})) = n
<1>1. IsFiniteSet(1..n) /\ Cardinality(1..n) = n
  BY FS_Interval
<1>2. Missing(candidates, n, {}) = 1..n /\ Missing(candidates, n, S) \in SUBSET (1..n)
  BY DEF Missing
<1> DEFINE D == 1..n
<1> HIDE DEF D
<1>3. IsFiniteSet(Missing(candidates, n, S)) /\ Cardinality(Missing(candidates, n, S)) <= n
  <2>1. IsFiniteSet(D) /\ Cardinality(D) = n /\ Missing(candidates, n, S) \in SUBSET D
    BY <1>1, <1>2 DEF D
  <2> QED
    BY <2>1, FS_Subset
<1>4. Cardinality(Missing(candidates, n, S)) \in Nat
  BY <1>3, FS_CardinalityType
<1> QED
  BY <1>1, <1>2, <1>3, <1>4

\* A cart from stores that may be used, no more than are allowed, and no such
\* stores serve more needs.
IsFewest(r, candidates, n, eligible, limit) ==
  /\ Range(StoreIds(r.plan)) \in SUBSET eligible
  /\ limit # None => Cardinality(Range(StoreIds(r.plan))) <= limit
  /\ \A S \in SUBSET eligible :
       (limit # None => Cardinality(S) <= limit)
         => Len(r.gaps) <= Cardinality(Missing(candidates, n, S))

\* The cart within a limit is one of the fewest gaps.
LEMMA CustomIs ==
  ASSUME NEW n \in Nat, NEW needs, IsNeeds(needs, n), NEW stores, IsStores(stores), NEW config,
         IsConfig(config), config.mode = "custom", config.maxStores # None,
         NEW candidates, IsCandidates(candidates, n, stores, config),
         NEW eligible \in SUBSET DOMAIN stores,
         \A i \in 1..n : DOMAIN candidates[i] \in SUBSET eligible
  PROVE  LET r == BestCustomConstrained(needs, candidates, eligible, stores, config)
         IN  /\ IsCart(r) /\ r.second = None
             /\ IsFewest(r, candidates, n, eligible, config.maxStores)
<1> DEFINE r == BestCustomConstrained(needs, candidates, eligible, stores, config)
           limit == config.maxStores
           p == SearchFrom(needs, candidates, stores, config)
           whole == BestPlan(p)
           scopes == ScopesOf(eligible, limit)
           within(S) == WithinScope(needs, candidates, S, stores, config)
           at == [S \in scopes |-> within(S)]
           results == {within(S) : S \in scopes}
           best == FewestGaps(results, needs)
<1>1. r = WholeOrElse(whole, best)
  BY DEF BestCustomConstrained
<1>2. limit \in Nat /\ Wants(config)
  BY DEF IsConfig
<1>3. /\ IsSearch(p, n, stores, config) /\ p.limit = limit
      /\ \E order : /\ ListsOnce(order, 1..n) /\ DOMAIN order = 1..n
                    /\ \A k \in 1..n : /\ order[k] \in 1..n
                                       /\ p.ordered[k].candidates = candidates[order[k]]
  BY SearchIs DEF StoreLimit
<1>4. \A S : Cardinality(Missing(candidates, n, S)) \in 0..n
  BY MissingIs
<1> HIDE DEF p
<1>5. \A k \in 1..n : DOMAIN p.ordered[k].candidates \in SUBSET eligible
  BY <1>3
<1>6. IsFiniteSet(eligible)
  BY FS_Subset DEF IsStores
<1>7. \A S \in SUBSET eligible : IsFiniteSet(S) /\ Cardinality(S) \in Nat
  BY <1>6, FS_Subset, FS_CardinalityType
<1>8. CASE whole # None
  <2>1. r.plan = whole /\ r.gaps = <<>> /\ r.second = None
    BY <1>1, <1>8 DEF WholeOrElse
  <2>2. Assignments(p) # {}
    BY <1>2, <1>3, <1>8, BestPlanIs
  <2>3. IsPlan(whole)
    BY <1>2, <1>3, <2>2, BestPlanIs
  <2>4. /\ Range(StoreIds(whole)) \in SUBSET eligible
        /\ Cardinality(Range(StoreIds(whole))) <= limit
    <3> DEFINE used == Range(StoreIds(BestPlan(p)))
    <3>1. used \in SUBSET eligible /\ (p.limit # None => Cardinality(used) <= p.limit)
      BY <1>2, <1>3, <1>5, <2>2, BestPlanUses
    <3> QED
      BY <1>3, <3>1
  <2> HIDE DEF whole, limit, r
  <2>5. IsCart(r)
    BY <2>1, <2>3 DEF IsCart, IsTrip
  <2>6. Len(r.gaps) = 0
    BY <2>1
  <2>7. IsFewest(r, candidates, n, eligible, limit)
    BY <1>4, <2>1, <2>4, <2>6 DEF IsFewest
  <2> QED
    BY <2>1, <2>5, <2>7 DEF r, limit
<1>9. CASE whole = None
  <2>1. r = best
    BY <1>1, <1>9 DEF WholeOrElse
  <2>2. IsFiniteSet(results)
    <3>1. IsFiniteSet(SUBSET eligible)
      BY <1>6, FS_SUBSET
    <3>2. scopes \in SUBSET (SUBSET eligible)
      BY DEF ScopesOf
    <3>3. IsFiniteSet(scopes)
      BY <3>1, <3>2, FS_Subset
    <3>4. results = {at[S] : S \in scopes}
      OBVIOUS
    <3> HIDE DEF at, scopes, results
    <3>5. IsFiniteSet({at[S] : S \in scopes})
      BY <3>3, ImageIsFinite
    <3> QED
      BY <3>4, <3>5
  <2>3. \A S \in SUBSET eligible : S \in scopes <=> S # {} /\ Cardinality(S) <= limit
    BY DEF ScopesOf
  <2>4. \A S \in scopes : S \in SUBSET eligible
    BY DEF ScopesOf
  <2>5. \A S \in SUBSET eligible :
          /\ IsCart(within(S)) /\ within(S).scope = S /\ within(S).second = None
          /\ Range(StoreIds(within(S).plan)) \in SUBSET S
          /\ Len(within(S).gaps) = Cardinality(Missing(candidates, n, S))
    <3> SUFFICES ASSUME NEW S \in SUBSET eligible
                 PROVE  /\ IsCart(within(S)) /\ within(S).scope = S /\ within(S).second = None
                        /\ Range(StoreIds(within(S).plan)) \in SUBSET S
                        /\ Len(within(S).gaps) = Cardinality(Missing(candidates, n, S))
      OBVIOUS
    <3>2. S \in SUBSET DOMAIN stores
      OBVIOUS
    <3>3. IsWithin(WithinScope(needs, candidates, S, stores, config), candidates, n, S)
      BY <3>2, WithinScopeIs
    <3> QED
      BY <3>3 DEF IsWithin
  <2> HIDE DEF scopes, within, whole
  <2>6. \A S \in scopes : within(S) \in results
    OBVIOUS
  <2>7. \A x \in results : \E S \in scopes : x = within(S)
    OBVIOUS
  <2> HIDE DEF results
  <2>8. \A x \in results : IsCart(x) /\ x.scope \in SUBSET Int /\ IsFiniteSet(x.scope)
    <3>1. eligible \in SUBSET Int
      BY DEF IsStores
    <3> QED
      BY <1>7, <2>4, <2>5, <2>7, <3>1
  <2>9. /\ IsCart(best)
        /\ results # {} => /\ best \in results
                           /\ \A x \in results : Len(best.gaps) <= Len(x.gaps)
        /\ results = {} => best = Nothing(needs)
    BY <2>2, <2>8, FewestGapsIs
  <2> HIDE DEF best, limit, r
  <2>10. ASSUME results = {} PROVE r.second = None /\ IsFewest(r, candidates, n, eligible, limit)
    <3>1. r.plan = EmptyPlan /\ r.gaps = Labels(needs) /\ r.second = None
      BY <2>1, <2>9, <2>10 DEF Nothing
    <3>2. Len(r.gaps) = n
      BY <3>1, LabelsAre
    <3>3. Range(StoreIds(r.plan)) = {}
      <4>1. r.plan.orders = <<>>
        BY <3>1 DEF EmptyPlan
      <4> QED
        BY <4>1 DEF StoreIds, Range
    <3>4. Cardinality({}) = 0
      BY FS_EmptySet
    <3>5. ASSUME NEW S \in SUBSET eligible, limit # None => Cardinality(S) <= limit
          PROVE  Len(r.gaps) <= Cardinality(Missing(candidates, n, S))
      <4>1. S = {}
        BY <2>3, <2>6, <2>10, <3>5 DEF limit
      <4>2. Cardinality(Missing(candidates, n, {})) = n
        BY MissingIs
      <4> QED
        BY <3>2, <4>1, <4>2
    <3>6. limit # None => Cardinality({}) <= limit
      BY <1>2, <3>4 DEF limit
    <3> QED
      BY <3>1, <3>3, <3>5, <3>6 DEF IsFewest
  <2>11. ASSUME results # {} PROVE r.second = None /\ IsFewest(r, candidates, n, eligible, limit)
    <3>1. PICK T \in scopes : best = within(T)
      BY <2>7, <2>9, <2>11
    <3>2. T \in SUBSET eligible /\ Cardinality(T) <= limit
      BY <2>3, <2>4
    <3>3. /\ r.second = None /\ Range(StoreIds(r.plan)) \in SUBSET T
          /\ Len(r.gaps) = Cardinality(Missing(candidates, n, T))
      BY <2>1, <2>5, <3>1, <3>2
    <3>4. Cardinality(Range(StoreIds(r.plan))) <= Cardinality(T)
          /\ Cardinality(Range(StoreIds(r.plan))) \in Nat /\ Cardinality(T) \in Nat
      <4> DEFINE R == Range(StoreIds(r.plan))
      <4> HIDE DEF R
      <4>1. IsFiniteSet(T) /\ R \in SUBSET T
        BY <1>7, <3>2, <3>3 DEF R
      <4>2. Cardinality(R) <= Cardinality(T) /\ IsFiniteSet(R)
        BY <4>1, FS_Subset
      <4> QED
        BY <4>1, <4>2, FS_CardinalityType DEF R
    <3>5. ASSUME NEW S \in SUBSET eligible, limit # None => Cardinality(S) <= limit
          PROVE  Len(r.gaps) <= Cardinality(Missing(candidates, n, S))
      <4>1. CASE S = {}
        <5>1. Cardinality(Missing(candidates, n, {})) = n
          BY MissingIs
        <5>2. Len(r.gaps) \in 0..n
          BY <1>4, <3>3
        <5> QED
          BY <4>1, <5>1, <5>2
      <4>2. CASE S # {}
        <5>1. S \in scopes
          BY <2>3, <3>5, <4>2 DEF limit
        <5> QED
          BY <2>1, <2>5, <2>6, <2>9, <2>11, <5>1
      <4> QED
        BY <4>1, <4>2
    <3>6. Cardinality(Range(StoreIds(r.plan))) <= limit
      BY <1>2, <3>2, <3>4 DEF limit
    <3>7. Range(StoreIds(r.plan)) \in SUBSET eligible
      BY <3>2, <3>3
    <3> QED
      BY <3>3, <3>5, <3>6, <3>7 DEF IsFewest
  <2>12. IsCart(r)
    BY <2>1, <2>9
  <2> QED
    BY <2>10, <2>11, <2>12 DEF r, limit
<1> QED
  BY <1>8, <1>9

\* The needs that something serves.
Available(candidates, n) == {i \in 1..n : candidates[i] # <<>>}

\* The best cart of what is sold at all, from the stores that may be used.
LEMMA AvailableIs ==
  ASSUME NEW n \in Nat, NEW needs, IsNeeds(needs, n), NEW stores, IsStores(stores), NEW config,
         IsConfig(config), StoreLimit(config) = None,
         NEW candidates, IsCandidates(candidates, n, stores, config),
         NEW eligible \in SUBSET DOMAIN stores,
         \A i \in 1..n : DOMAIN candidates[i] \in SUBSET eligible,
         NEW P, P = Available(candidates, n)
  PROVE  LET plan == BestPlan(SearchFrom(Pick(needs, InOrderOf(P)), Pick(candidates, InOrderOf(P)),
                                         stores, config))
         IN  /\ IsPlan(plan) /\ Range(StoreIds(plan)) \in SUBSET eligible
             /\ IsForSome(plan, needs, candidates, n, stores)
<1> DEFINE m == Cardinality(P)
           q == InOrderOf(P)
           a == Pick(needs, q)
           b == Pick(candidates, q)
           p == SearchFrom(a, b, stores, config)
<1>1. P \in SUBSET (1..n) /\ \A i \in P : candidates[i] # <<>>
  BY DEF Available
<1>2. /\ m \in Nat /\ IsNeeds(a, m) /\ IsCandidates(b, m, stores, config)
      /\ \A k \in 1..m : q[k] \in P /\ b[k] = candidates[q[k]]
  BY <1>1, PickedNeeds
<1>3. \A i \in P : DOMAIN candidates[i] # {} /\ DOMAIN candidates[i] \in SUBSET eligible
  <2> SUFFICES ASSUME NEW i \in P PROVE DOMAIN candidates[i] # {}
    BY <1>1
  <2>1. IsMapping(candidates[i])
    BY <1>1 DEF IsCandidates, IsServed
  <2>2. ASSUME DOMAIN candidates[i] = {} PROVE FALSE
    <3>1. candidates[i] = [s \in {} |-> candidates[i][s]]
      BY <2>1, <2>2 DEF IsMapping
    <3>2. candidates[i] = <<>>
      BY <3>1
    <3> QED
      BY <1>1, <3>2
  <2> QED
    BY <2>2
<1> HIDE DEF m, q, a, b
<1>4. /\ IsSearch(p, m, stores, config) /\ p.limit = None
      /\ \E order : /\ ListsOnce(order, 1..m) /\ DOMAIN order = 1..m
                    /\ \A k \in 1..m : /\ order[k] \in 1..m
                                       /\ p.ordered[k].candidates = b[order[k]]
  BY <1>2, SearchIs
<1> HIDE DEF p
<1>5. \A k \in 1..m : /\ DOMAIN p.ordered[k].candidates # {}
                      /\ DOMAIN p.ordered[k].candidates \in SUBSET eligible
  <2>1. \A k \in 1..m : DOMAIN b[k] # {} /\ DOMAIN b[k] \in SUBSET eligible
    BY <1>2, <1>3
  <2> QED
    BY <1>4, <2>1
<1>6. IsFiniteSet(eligible)
  BY FS_Subset DEF IsStores
<1>7. Assignments(p) # {}
  BY <1>2, <1>4, <1>5, <1>6, SearchSucceeds
<1>8. Wants(config)
  BY DEF IsConfig
<1>9. IsPlan(BestPlan(p))
  BY <1>2, <1>4, <1>7, <1>8, BestPlanIs
<1>10. Range(StoreIds(BestPlan(p))) \in SUBSET eligible
  BY <1>2, <1>4, <1>5, <1>7, <1>8, BestPlanUses
<1>11. IsForSome(BestPlan(p), needs, candidates, n, stores)
  <2>1. p = SearchFrom(Pick(needs, InOrderOf(P)), Pick(candidates, InOrderOf(P)), stores, config)
    BY DEF p, a, b, q
  <2> QED
    BY <1>1, <1>7, <1>8, <2>1 DEF IsForSome
<1> QED
  BY <1>9, <1>10, <1>11 DEF p, a, b, q

\* The cart of each mode is a cart; in custom mode it leaves out the fewest.
LEMMA CartOfModeIs ==
  ASSUME NEW n \in Nat, NEW needs, IsNeeds(needs, n), NEW stores, IsStores(stores), NEW config,
         IsConfig(config), NEW candidates, IsCandidates(candidates, n, stores, config),
         NEW eligible, IsEligible(eligible, stores, config),
         \A i \in 1..n : DOMAIN candidates[i] \in SUBSET eligible
  PROVE  LET r == CartOfMode(needs, candidates, eligible, stores, config)
         IN  /\ IsCart(r)
             /\ config.mode = "custom" =>
                  r.second = None /\ IsFewest(r, candidates, n, eligible, config.maxStores)
<1> DEFINE r == CartOfMode(needs, candidates, eligible, stores, config)
           single == BestSingleStop(needs, candidates, eligible, stores, config)
           custom == BestCustomConstrained(needs, candidates, eligible, stores, config)
           P == {i \in DOMAIN needs : candidates[i] # <<>>}
           C == {i \in DOMAIN candidates : candidates[i] # <<>>}
           L == {i \in DOMAIN needs : ~(candidates[i] # <<>>)}
           other == [plan |-> BestPlan(SearchFrom(Pick(needs, InOrderOf(P)),
                                                  Pick(candidates, InOrderOf(C)), stores, config)),
                     gaps |-> Labels(Pick(needs, InOrderOf(L))), second |-> None]
           whole == config.mode = "custom" /\ config.maxStores # None
<1>1. /\ config.mode = "single_stop" => r = single
      /\ config.mode # "single_stop" /\ whole => r = custom
      /\ config.mode # "single_stop" /\ ~whole => r = other
  BY DEF CartOfMode, At, InOrderOf
<1>2. eligible \in SUBSET DOMAIN stores /\ Wants(config)
  BY DEF IsEligible, IsConfig
<1>3. CASE config.mode = "single_stop"
  <2>1. IsCart(single)
    BY <1>2, SingleStopIs
  <2> HIDE DEF single, custom, other, r
  <2> QED
    BY <1>1, <1>3, <2>1 DEF r
<1>4. CASE config.mode # "single_stop" /\ whole
  <2>1. /\ IsCart(custom) /\ custom.second = None
        /\ IsFewest(custom, candidates, n, eligible, config.maxStores)
    BY <1>2, <1>4, CustomIs
  <2> HIDE DEF single, custom, other, r
  <2> QED
    BY <1>1, <1>4, <2>1 DEF r
<1>5. CASE config.mode # "single_stop" /\ ~whole
  <2>1. DOMAIN needs = 1..n /\ DOMAIN candidates = 1..n
    BY DEF IsNeeds, IsCandidates
  <2>2. /\ P = Available(candidates, n) /\ C = P
        /\ L = {i \in 1..n : candidates[i] = <<>>} /\ L \in SUBSET (1..n)
    BY <2>1 DEF Available
  <2>3. StoreLimit(config) = None
    BY <1>5 DEF StoreLimit
  <2>4. /\ other.gaps = Labels(Pick(needs, InOrderOf(L))) /\ other.second = None
        /\ other.plan = BestPlan(SearchFrom(Pick(needs, InOrderOf(P)),
                                            Pick(candidates, InOrderOf(C)), stores, config))
    OBVIOUS
  <2> HIDE DEF single, custom, other, r, P, C, L
  <2>5. IsPlan(other.plan) /\ Range(StoreIds(other.plan)) \in SUBSET eligible
    <3> DEFINE plan == BestPlan(SearchFrom(Pick(needs, InOrderOf(P)),
                                           Pick(candidates, InOrderOf(P)), stores, config))
    <3>0. P = Available(candidates, n)
      BY <2>2
    <3>1. IsPlan(plan) /\ Range(StoreIds(plan)) \in SUBSET eligible
      BY <1>2, <2>3, <3>0, AvailableIs
    <3>2. other.plan = plan
      BY <2>2, <2>4
    <3> HIDE DEF plan
    <3> QED
      BY <3>1, <3>2
  <2>6. /\ Cardinality(L) \in Nat /\ other.gaps \in Seq(Int) /\ Len(other.gaps) = Cardinality(L)
    <3>1. Cardinality(L) \in Nat /\ IsNeeds(Pick(needs, InOrderOf(L)), Cardinality(L))
      BY <2>2, PickedNeeds
    <3> QED
      BY <2>4, <3>1, LabelsAre
  <2>7. IsCart(other)
    BY <2>4, <2>5, <2>6 DEF IsCart, IsTrip
  <2>8. ASSUME NEW S PROVE Len(other.gaps) <= Cardinality(Missing(candidates, n, S))
    <3> DEFINE M == Missing(candidates, n, S)
    <3>1. IsFiniteSet(M)
      <4>1. IsFiniteSet(1..n) /\ M \in SUBSET (1..n)
        BY FS_Interval DEF Missing
      <4> HIDE DEF M
      <4> QED
        BY <4>1, FS_Subset
    <3>2. L \in SUBSET M
      BY <2>2 DEF Missing
    <3> HIDE DEF M
    <3>3. Cardinality(L) <= Cardinality(M)
      BY <3>1, <3>2, FS_Subset
    <3> QED
      BY <2>6, <3>3 DEF M
  <2>9. ASSUME config.mode = "custom"
        PROVE  IsFewest(other, candidates, n, eligible, config.maxStores)
    <3>1. config.maxStores = None
      BY <1>5, <2>9
    <3> QED
      BY <2>5, <2>8, <3>1 DEF IsFewest
  <2> QED
    BY <1>1, <1>5, <2>4, <2>7, <2>9 DEF r
<1> QED
  BY <1>3, <1>4, <1>5

\* What the optimizer answers: a cart, perhaps a second trip, and the cents of both.
IsResult(r) ==
  /\ IsCart(r) /\ r.comparison \in Int
  /\ r.landed = r.plan.landed + (IF r.second = None THEN 0 ELSE r.second.landed)

\* A result has the cart's plan, second trip and gaps, and the cents of both trips.
LEMMA ResultIs ==
  ASSUME NEW cart, IsCart(cart), NEW budget, NEW tradeoffs
  PROVE  LET r == ResultOf(cart, budget, tradeoffs)
         IN  IsResult(r) /\ r.plan = cart.plan /\ r.gaps = cart.gaps /\ r.second = cart.second
<1> DEFINE r == ResultOf(cart, budget, tradeoffs)
           landed == cart.plan.landed + (IF cart.second = None THEN 0 ELSE cart.second.landed)
<1>1. /\ r.plan = cart.plan /\ r.gaps = cart.gaps /\ r.second = cart.second /\ r.landed = landed
      /\ r.comparison = IF cart.second = None THEN cart.plan.comparison
                        ELSE landed + ADDITIONAL_STORE_PENALTY_CENTS
  BY DEF ResultOf, MakeResult
<1>2. /\ cart.plan.landed \in Nat /\ cart.plan.comparison \in Int
      /\ cart.second = None \/ cart.second.landed \in Nat
  BY DEF IsCart, IsTrip, IsPlan
<1>3. ADDITIONAL_STORE_PENALTY_CENTS \in Int
  BY DEF ADDITIONAL_STORE_PENALTY_CENTS
<1> HIDE DEF r
<1>4. r.comparison \in Int
  BY <1>1, <1>2, <1>3
<1>5. IsCart(r)
  BY <1>1 DEF IsCart
<1> QED
  BY <1>1, <1>4, <1>5 DEF IsResult, r

\* The stores that may be used are stores, and can be reached.
LEMMA EligibleIs ==
  ASSUME NEW stores, NEW config
  PROVE  IsEligible(EligibleStores(stores, config), stores, config)
  BY DEF IsEligible, EligibleStores, StoresInScope

\* What the optimizer answers, and in custom mode that it leaves out the fewest.
LEMMA OptimizeIs ==
  ASSUME NEW n \in Nat, NEW needs, IsNeeds(needs, n), NEW offers, IsOffers(offers), NEW stores,
         IsStores(stores), NEW config, IsConfig(config), NEW skusFor
  PROVE  LET eligible == EligibleStores(stores, config)
             sells == CandidateSelections(needs, offers, eligible, skusFor)
             r == OptimizeCart(needs, offers, stores, config, skusFor)
         IN  /\ IsResult(r)
             /\ config.mode = "custom" =>
                  r.second = None /\ IsFewest(r, sells, n, eligible, config.maxStores)
<1> DEFINE eligible == EligibleStores(stores, config)
           sells == CandidateSelections(needs, offers, eligible, skusFor)
           cart == CartOfMode(needs, sells, eligible, stores, config)
           tradeoffs == FulfillmentTradeoffs(needs, offers, stores, config, skusFor)
           r == OptimizeCart(needs, offers, stores, config, skusFor)
<1>1. r = ResultOf(cart, config.budget, tradeoffs)
  BY DEF OptimizeCart
<1>2. IsEligible(eligible, stores, config)
  BY EligibleIs
<1> HIDE DEF eligible, tradeoffs, r
<1>3. IsCandidates(sells, n, stores, config)
  BY <1>2, CandidatesAre
<1>4. \A i \in 1..n : DOMAIN sells[i] \in SUBSET eligible
  BY <1>2, CandidatesAre
<1> HIDE DEF sells
<1>5. IsCart(cart)
  BY <1>2, <1>3, <1>4, CartOfModeIs
<1>6. config.mode = "custom" =>
        cart.second = None /\ IsFewest(cart, sells, n, eligible, config.maxStores)
  BY <1>2, <1>3, <1>4, CartOfModeIs
<1> HIDE DEF cart
<1>7. IsResult(r) /\ r.plan = cart.plan /\ r.gaps = cart.gaps /\ r.second = cart.second
  BY <1>1, <1>5, ResultIs
<1>8. config.mode = "custom" =>
        r.second = None /\ IsFewest(r, sells, n, eligible, config.maxStores)
  BY <1>6, <1>7 DEF IsFewest
<1> QED
  BY <1>7, <1>8 DEF r, sells, eligible

\* A cart asked of a choice of stores.
Narrowed(config, S, limit) == [config EXCEPT !.allowed = S, !.maxStores = limit]

\* Another choice of stores leaves the other wishes as they are.
LEMMA ScopeChanged ==
  ASSUME NEW config, IsConfig(config), NEW S, NEW limit \in Nat
  PROVE  LET c == Narrowed(config, S, limit)
         IN  SameWish(c, config) /\ c.allowed = S /\ c.maxStores = limit
<1> DEFINE c == Narrowed(config, S, limit)
           names == {"mode", "maxStores", "preference", "allowed", "radius", "tax", "budget"}
<1>1. names \in SUBSET DOMAIN config
  BY DEF IsConfig
<1>2. DOMAIN c = DOMAIN config /\ c.maxStores = limit /\ c.allowed = S
  BY <1>1 DEF Narrowed
<1>3. /\ c.mode = config.mode /\ c.preference = config.preference /\ c.tax = config.tax
      /\ c.radius = config.radius
  BY <1>1 DEF Narrowed
<1> HIDE DEF c
<1>4. IsConfig(c)
  BY <1>1, <1>2, <1>3 DEF IsConfig, Wants
<1>5. \A store : StoreSupportsFulfillment(store, c) <=> StoreSupportsFulfillment(store, config)
  BY <1>3 DEF StoreSupportsFulfillment, PickupTripIsWithinRadius
<1> QED
  BY <1>2, <1>3, <1>4, <1>5 DEF SameWish, c

\* A cart of the stores that may be used, of a size that may be.
Keeps(r, eligible, limit) ==
  /\ IsResult(r) /\ r.second = None
  /\ Range(StoreIds(r.plan)) \in SUBSET eligible
  /\ limit # None => Cardinality(Range(StoreIds(r.plan))) <= limit

\* The carts tried with any product that will do keep to some of the stores.
LEMMA WidenedIs ==
  ASSUME NEW n \in Nat, NEW needs, IsNeeds(needs, n), NEW offers, IsOffers(offers), NEW stores,
         IsStores(stores), NEW config, IsConfig(config), config.mode = "custom", NEW skusFor,
         NEW S \in SUBSET StoresInScope(stores, config),
         config.maxStores # None => Cardinality(S) <= config.maxStores
  PROVE  Keeps(OptimizeCart(needs, offers, stores,
                            [config EXCEPT !.allowed = S, !.maxStores = Cardinality(S)], skusFor),
               EligibleStores(stores, config), config.maxStores)
<1> DEFINE c == Narrowed(config, S, Cardinality(S))
           r == OptimizeCart(needs, offers, stores, c, skusFor)
           used == Range(StoreIds(r.plan))
           sells == CandidateSelections(needs, offers, EligibleStores(stores, c), skusFor)
<1>1. S \in SUBSET DOMAIN stores
  BY DEF StoresInScope
<1>2. IsFiniteSet(S) /\ Cardinality(S) \in Nat
  <2>1. IsFiniteSet(S)
    BY <1>1, FS_Subset DEF IsStores
  <2> QED
    BY <2>1, FS_CardinalityType
<1>3. SameWish(c, config) /\ c.allowed = S /\ c.maxStores = Cardinality(S)
  BY <1>2, ScopeChanged
<1> HIDE DEF c
<1>4. IsConfig(c) /\ c.mode = "custom"
  BY <1>3 DEF SameWish
<1>5. IsResult(r) /\ r.second = None
      /\ IsFewest(r, sells, n, EligibleStores(stores, c), c.maxStores)
  BY <1>4, OptimizeIs
<1> HIDE DEF r, sells
<1>6. EligibleStores(stores, c) \in SUBSET EligibleStores(stores, config)
  <2>1. StoresInScope(stores, c) \in SUBSET StoresInScope(stores, config)
    <3>1. S # None
      BY <1>1 DEF IsStores
    <3>2. StoresInScope(stores, c) \in SUBSET S
      BY <1>3, <3>1 DEF StoresInScope
    <3> QED
      BY <3>2
  <2>2. \A store : StoreSupportsFulfillment(store, c) <=> StoreSupportsFulfillment(store, config)
    BY <1>3 DEF SameWish
  <2> QED
    BY <2>1, <2>2 DEF EligibleStores
<1>7. used \in SUBSET EligibleStores(stores, config)
  BY <1>5, <1>6 DEF IsFewest
<1>8. Cardinality(used) <= Cardinality(S)
  <2>1. c.maxStores # None
    BY <1>2, <1>3, NoneIsNoNumber
  <2> QED
    BY <1>3, <1>5, <2>1 DEF IsFewest
<1>9. config.maxStores # None => Cardinality(used) <= config.maxStores
  <2>1. Cardinality(used) \in Nat
    <3>1. IsFiniteSet(used)
      <4>1. EligibleStores(stores, config) \in SUBSET DOMAIN stores
        BY DEF EligibleStores, StoresInScope
      <4> HIDE DEF used
      <4> QED
        BY <1>7, <4>1, FS_Subset DEF IsStores
    <3> HIDE DEF used
    <3> QED
      BY <3>1, FS_CardinalityType
  <2>2. config.maxStores \in Nat \cup {None}
    BY DEF IsConfig
  <2> HIDE DEF used
  <2> QED
    BY <1>2, <1>8, <2>1, <2>2
<1> QED
  BY <1>5, <1>7, <1>9 DEF Keeps, r, c, Narrowed

\* A tuple before another is not behind it in front.
LEMMA LessFours ==
  ASSUME NEW a \in Int, NEW b \in Int, NEW c \in Int, NEW d \in Int,
         NEW e \in Int, NEW f \in Int, NEW g \in Int, NEW h \in Int,
         Less(<<a, b, c, d>>, <<e, f, g, h>>)
  PROVE  a < e \/ (a = e /\ b <= f)
<1> DEFINE u == <<a, b, c, d>>
           v == <<e, f, g, h>>
<1>1. DOMAIN v = 1..4 /\ Len(u) = 4 /\ u[1] = a /\ u[2] = b /\ v[1] = e /\ v[2] = f
  OBVIOUS
<1> HIDE DEF u, v
<1>2. PICK i \in 1..4 : /\ \A j \in 1..(i - 1) : u[j] = v[j]
                        /\ i > 4 \/ u[i] < v[i]
  BY <1>1 DEF Less, u, v
<1>3. CASE i = 1
  BY <1>1, <1>2, <1>3
<1>4. CASE i = 2
  BY <1>1, <1>2, <1>4
<1>5. CASE i > 2
  <2>1. 1 \in 1..(i - 1) /\ 2 \in 1..(i - 1)
    BY <1>5
  <2> QED
    BY <1>1, <1>2, <2>1
<1> QED
  BY <1>2, <1>3, <1>4, <1>5

\* What is better than the cart of preferred products leaves out no more.
LEMMA BetterIs ==
  ASSUME NEW preferred, IsResult(preferred), preferred.second = None, NEW others,
         IsFiniteSet(others), NEW eligible, NEW limit, Keeps(preferred, eligible, limit),
         \A o \in others : /\ Keeps(o.result, eligible, limit)
                           /\ o.scope \in SUBSET Int /\ IsFiniteSet(o.scope)
  PROVE  LET r == BetterOrPreferred(preferred, others)
         IN  /\ Keeps(r, eligible, limit) /\ Len(r.gaps) <= Len(preferred.gaps)
             /\ r = preferred \/ \E o \in others : r = o.result
<1> DEFINE K(r) == <<AsNumber(~IsComplete(r)), Len(r.gaps), r.comparison, r.landed>>
           better == {o \in others : Less(K(o.result), K(preferred))}
           J(o) == K(o.result) \o ScopeKey(o.scope)
           key == [o \in better |-> J(o)]
           r == BetterOrPreferred(preferred, others)
<1>1. r = IF better = {} THEN preferred
          ELSE (CHOOSE x \in better : \A y \in better \ {x} : ~Less(J(y), J(x))).result
  BY DEF BetterOrPreferred, Least
<1>2. ASSUME NEW x, IsResult(x)
      PROVE  /\ AsNumber(~IsComplete(x)) \in Int /\ Len(x.gaps) \in Nat /\ x.comparison \in Int
             /\ x.landed \in Int /\ K(x) \in Seq(Int)
  <2>1. AsNumber(~IsComplete(x)) \in Int
    BY DEF AsNumber
  <2>2. x.gaps \in Seq(Int)
    BY <1>2 DEF IsResult, IsCart
  <2>3. Len(x.gaps) \in Nat
    BY <2>2
  <2>4. x.plan.landed \in Nat /\ (x.second = None \/ x.second.landed \in Nat)
    BY <1>2 DEF IsResult, IsCart, IsTrip, IsPlan
  <2>5. x.landed \in Int /\ x.comparison \in Int
    BY <1>2, <2>4 DEF IsResult
  <2> QED
    BY <2>1, <2>3, <2>5
<1>3. ASSUME NEW x, IsResult(x), x.second = None, Less(K(x), K(preferred))
      PROVE  Len(x.gaps) <= Len(preferred.gaps)
  <2>1. \A y : y.second = None => (IsComplete(y) <=> y.gaps = <<>>)
    BY DEF IsComplete, UnfulfilledGaps
  <2>2. \/ AsNumber(~IsComplete(x)) < AsNumber(~IsComplete(preferred))
        \/ Len(x.gaps) <= Len(preferred.gaps)
    <3> DEFINE a == AsNumber(~IsComplete(x))
               e == AsNumber(~IsComplete(preferred))
    <3>1. a \in Int /\ e \in Int
      BY <1>2, <1>3
    <3>2. Less(<<a, Len(x.gaps), x.comparison, x.landed>>,
               <<e, Len(preferred.gaps), preferred.comparison, preferred.landed>>)
      BY <1>3
    <3>3. /\ Len(x.gaps) \in Int /\ x.comparison \in Int /\ x.landed \in Int
          /\ Len(preferred.gaps) \in Int /\ preferred.comparison \in Int
          /\ preferred.landed \in Int
      BY <1>2, <1>3
    <3> DEFINE xg == Len(x.gaps)
               pg == Len(preferred.gaps)
    <3> HIDE DEF a, e, K, xg, pg
    <3>4. a < e \/ (a = e /\ xg <= pg)
      <4>1. Less(<<a, xg, x.comparison, x.landed>>,
                 <<e, pg, preferred.comparison, preferred.landed>>)
        BY <3>2 DEF xg, pg
      <4>2. xg \in Int /\ pg \in Int
        BY <3>3 DEF xg, pg
      <4> QED
        BY <3>1, <3>3, <4>1, <4>2, LessFours
    <3> QED
      BY <3>4 DEF a, e, xg, pg
  <2>3. CASE AsNumber(~IsComplete(x)) < AsNumber(~IsComplete(preferred))
    <3>1. IsComplete(x)
      BY <2>3 DEF AsNumber
    <3>2. Len(x.gaps) = 0
      BY <1>3, <2>1, <3>1
    <3> QED
      BY <1>2, <3>2
  <2> QED
    BY <2>2, <2>3
<1>4. \A o \in better : J(o) \in Seq(Int)
  <2> SUFFICES ASSUME NEW o \in better PROVE J(o) \in Seq(Int)
    OBVIOUS
  <2>1. ScopeKey(o.scope) \in Seq(Int)
    BY ScopeKeyIs
  <2>2. K(o.result) \in Seq(Int)
    BY <1>2 DEF Keeps
  <2> HIDE DEF K
  <2> QED
    BY <2>1, <2>2
<1>5. \A o \in better : /\ Keeps(o.result, eligible, limit)
                        /\ Len(o.result.gaps) <= Len(preferred.gaps)
  BY <1>3 DEF Keeps
<1>6. IsFiniteSet(better)
  BY FS_Subset
<1>7. \A o \in better : key[o] = J(o)
  OBVIOUS
<1>12. \A o \in better : o \in others
  OBVIOUS
<1> HIDE DEF key, J, better, K
<1>8. better # {} => \E x \in better : \A y \in better \ {x} : ~Less(key[y], key[x])
  <2>1. \A o \in better : key[o] \in Seq(Int)
    BY <1>4, <1>7
  <2> QED
    BY <1>6, <2>1, LeastExists
<1>9. better # {} => \E x \in better : \A y \in better \ {x} : ~Less(J(y), J(x))
  BY <1>7, <1>8
<1>10. CASE better = {}
  <2>1. r = preferred
    BY <1>1, <1>10
  <2>2. Len(preferred.gaps) \in Nat
    BY <1>2
  <2> QED
    BY <2>1, <2>2
<1>11. CASE better # {}
  <2>1. PICK o \in better : r = o.result
    BY <1>1, <1>9, <1>11
  <2> QED
    BY <1>5, <1>12, <2>1
<1> QED
  BY <1>10, <1>11

\* A cart that the optimizer answers, when asked of some stores and products.
IsAsked(r, needs, offers, stores) ==
  \E config, skusFor : IsConfig(config) /\ r = OptimizeCart(needs, offers, stores, config, skusFor)

\* What the optimizer answers about matches: in custom mode, a cart that
\* leaves out no more than the best of the preferred products.
LEMMA CandidatesAnswer ==
  ASSUME NEW n \in Nat, NEW matches, IsNeeds(Needs(matches), n), NEW offers, IsOffers(offers),
         NEW stores, IsStores(stores), NEW config, IsConfig(config)
  PROVE  LET eligible == EligibleStores(stores, config)
             sells == CandidateSelections(Needs(matches), offers, eligible, PreferredSkus(matches))
             r == OptimizeWithMatchCandidates(matches, offers, stores, config)
         IN  /\ IsResult(r) /\ IsAsked(r, Needs(matches), offers, stores)
             /\ config.mode = "custom" => IsFewest(r, sells, n, eligible, config.maxStores)
             /\ config.mode # "custom" =>
                  r = OptimizeCart(Needs(matches), offers, stores, config, PreferredSkus(matches))
<1> DEFINE eligible == EligibleStores(stores, config)
           sells == CandidateSelections(Needs(matches), offers, eligible, PreferredSkus(matches))
           preferred == OptimizeCart(Needs(matches), offers, stores, config, PreferredSkus(matches))
           permitted == StoresInScope(stores, config)
           limit == config.maxStores
           most == IF limit = None THEN Cardinality(permitted) ELSE limit
           scopes == ScopesOf(permitted, most)
           wide(S) == WidenedIn(matches, offers, stores, config, S)
           at == [S \in scopes |-> wide(S)]
           others == {wide(S) : S \in scopes}
           r == OptimizeWithMatchCandidates(matches, offers, stores, config)
<1>1. r = IF config.mode # "custom" \/ IsComplete(preferred) THEN preferred
          ELSE BetterOrPreferred(preferred, others)
  BY DEF OptimizeWithMatchCandidates, CompleteOrWidened
<1>2. IsResult(preferred)
  BY OptimizeIs
<1>3. config.mode = "custom" =>
        preferred.second = None /\ IsFewest(preferred, sells, n, eligible, limit)
  BY OptimizeIs
<1>4. IsFiniteSet(permitted) /\ permitted \in SUBSET Int /\ permitted \in SUBSET DOMAIN stores
  <2>1. permitted \in SUBSET DOMAIN stores
    BY DEF StoresInScope
  <2> HIDE DEF permitted
  <2>2. IsFiniteSet(permitted)
    BY <2>1, FS_Subset DEF IsStores
  <2> QED
    BY <2>1, <2>2 DEF IsStores
<1>5. IsFiniteSet(others)
  <2>1. IsFiniteSet(SUBSET permitted)
    BY <1>4, FS_SUBSET
  <2>2. scopes \in SUBSET (SUBSET permitted)
    BY DEF ScopesOf
  <2>3. others = {at[S] : S \in scopes}
    OBVIOUS
  <2> HIDE DEF at, scopes, others
  <2>4. IsFiniteSet(scopes)
    BY <2>1, <2>2, FS_Subset
  <2>5. IsFiniteSet({at[S] : S \in scopes})
    BY <2>4, ImageIsFinite
  <2> QED
    BY <2>3, <2>5
<1>6. \A S \in scopes : /\ S \in SUBSET permitted /\ (limit # None => Cardinality(S) <= limit)
                        /\ S \in SUBSET Int /\ IsFiniteSet(S)
  <2>1. \A S \in scopes : S \in SUBSET permitted /\ (limit # None => Cardinality(S) <= limit)
    BY DEF ScopesOf
  <2> HIDE DEF scopes
  <2> QED
    BY <1>4, <2>1, FS_Subset
<1>7. config.mode = "custom" =>
        \A o \in others : /\ Keeps(o.result, eligible, limit)
                          /\ o.scope \in SUBSET Int /\ IsFiniteSet(o.scope)
  <2> SUFFICES ASSUME config.mode = "custom", NEW S \in scopes
               PROVE  /\ Keeps(wide(S).result, eligible, limit)
                      /\ wide(S).scope \in SUBSET Int /\ IsFiniteSet(wide(S).scope)
    OBVIOUS
  <2>1. wide(S).scope = S
    BY DEF WidenedIn
  <2>2. PICK skus : wide(S).result =
                      OptimizeCart(Needs(matches), offers, stores,
                                   [config EXCEPT !.allowed = S, !.maxStores = Cardinality(S)], skus)
    BY DEF WidenedIn
  <2> HIDE DEF wide, scopes
  <2>3. S \in SUBSET permitted /\ (limit # None => Cardinality(S) <= limit)
    BY <1>6
  <2>4. Keeps(wide(S).result, eligible, limit)
    BY <2>2, <2>3, WidenedIs
  <2> QED
    BY <1>6, <2>1, <2>4
<1>10. \A o \in others : IsAsked(o.result, Needs(matches), offers, stores)
  <2> SUFFICES ASSUME NEW S \in scopes PROVE IsAsked(wide(S).result, Needs(matches), offers, stores)
    OBVIOUS
  <2> DEFINE c == Narrowed(config, S, Cardinality(S))
  <2>1. PICK skus : wide(S).result = OptimizeCart(Needs(matches), offers, stores, c, skus)
    BY DEF WidenedIn, Narrowed
  <2> HIDE DEF wide, scopes
  <2>2. Cardinality(S) \in Nat
    BY <1>6, FS_CardinalityType
  <2> HIDE DEF c
  <2>3. IsConfig(c)
    BY <2>2, ScopeChanged DEF SameWish, c
  <2> QED
    BY <2>1, <2>3 DEF IsAsked
<1>11. IsAsked(preferred, Needs(matches), offers, stores)
  BY DEF IsAsked
<1> HIDE DEF others, preferred, sells, r
<1>8. ASSUME config.mode = "custom"
      PROVE  /\ IsResult(r) /\ IsFewest(r, sells, n, eligible, limit)
             /\ r = preferred \/ \E o \in others : r = o.result
  <2>1. Keeps(preferred, eligible, limit)
    BY <1>2, <1>3, <1>8 DEF Keeps, IsFewest
  <2>2. CASE r = preferred
    BY <1>2, <1>3, <1>8, <2>2
  <2>3. CASE r = BetterOrPreferred(preferred, others)
    <3>1. /\ Keeps(r, eligible, limit) /\ Len(r.gaps) <= Len(preferred.gaps)
          /\ r = preferred \/ \E o \in others : r = o.result
      BY <1>2, <1>3, <1>5, <1>7, <1>8, <2>1, <2>3, BetterIs
    <3>2. Len(r.gaps) \in Nat /\ Len(preferred.gaps) \in Nat
      <4>1. r.gaps \in Seq(Int) /\ preferred.gaps \in Seq(Int)
        BY <1>2, <3>1 DEF Keeps, IsResult, IsCart
      <4> QED
        BY <4>1
    <3>3. \A S : Cardinality(Missing(sells, n, S)) \in Nat
      BY MissingIs
    <3>4. IsFewest(preferred, sells, n, eligible, limit)
      BY <1>3, <1>8
    <3>5. ASSUME NEW S \in SUBSET eligible, limit # None => Cardinality(S) <= limit
          PROVE  Len(r.gaps) <= Cardinality(Missing(sells, n, S))
      <4>1. Len(preferred.gaps) <= Cardinality(Missing(sells, n, S))
        BY <3>4, <3>5 DEF IsFewest
      <4> QED
        BY <3>1, <3>2, <3>3, <4>1
    <3> HIDE DEF eligible, limit
    <3> QED
      BY <3>1, <3>5 DEF IsFewest, Keeps
  <2> QED
    BY <1>1, <2>2, <2>3
<1>9. ASSUME config.mode # "custom" PROVE r = preferred
  BY <1>1, <1>9
<1>12. IsAsked(r, Needs(matches), offers, stores)
  BY <1>8, <1>9, <1>10, <1>11
<1> QED
  BY <1>2, <1>8, <1>9, <1>12 DEF r, preferred, sells

\* Sorted by a number of each.
SortedBy(S, f) ==
  [k \in 1..Cardinality(S) |-> CHOOSE x \in S : Cardinality({y \in S : f[y] < f[x]}) = k - 1]

\* When no two have the same number, each comes once, smaller numbers first.
LEMMA SortedByIs ==
  ASSUME NEW S, IsFiniteSet(S), NEW f, \A x \in S : f[x] \in Int,
         \A x, y \in S : f[x] = f[y] => x = y
  PROVE  LET q == SortedBy(S, f)
         IN  /\ Cardinality(S) \in Nat /\ DOMAIN q = 1..Cardinality(S) /\ ListsOnce(q, S)
             /\ q = [k \in 1..Cardinality(S) |-> q[k]]
             /\ \A i, j \in DOMAIN q : i < j => f[q[i]] < f[q[j]]
<1> DEFINE L(k) == CHOOSE x \in S : Cardinality({y \in S : f[y] < f[x]}) = k - 1
           D == 1..Cardinality(S)
           q == SortedBy(S, f)
           before == {p \in S \X S : f[p[1]] < f[p[2]]}
<1>1. q = [k \in D |-> L(k)]
  BY DEF SortedBy
<1>2. Cardinality(S) \in Nat
  BY FS_CardinalityType
<1>3. Orders(before, S)
  BY DEF Orders
<1>4. \A x \in S : {y \in S : <<y, x>> \in before} = {y \in S : f[y] < f[x]}
  OBVIOUS
<1>5. \A x \in S : Rank(x, S, before) = Cardinality({y \in S : f[y] < f[x]})
  BY <1>4 DEF Rank
<1>6. DOMAIN q = D /\ q = [k \in D |-> q[k]] /\ \A k \in D : q[k] = L(k)
  <2> HIDE DEF L, D, q
  <2> QED
    BY <1>1
<1> HIDE DEF q
<1>7. InRanks(q, S, before)
  <2> SUFFICES ASSUME NEW k \in D, \E x \in S : Rank(x, S, before) = k - 1
               PROVE  q[k] \in S /\ Rank(q[k], S, before) = k - 1
    BY <1>6 DEF InRanks
  <2>1. \E x \in S : Cardinality({y \in S : f[y] < f[x]}) = k - 1
    BY <1>5
  <2>2. L(k) \in S /\ Cardinality({y \in S : f[y] < f[L(k)]}) = k - 1
    BY <2>1
  <2> HIDE DEF L, D
  <2> QED
    BY <1>5, <1>6, <2>2
<1>8. \A x, y \in S : <<x, y>> \in before => f[x] < f[y]
  OBVIOUS
<1> HIDE DEF before, D, L
<1>9. q = [k \in DOMAIN q |-> q[k]]
  BY <1>6
<1>10. ListsOnce(q, S) /\ \A i, j \in DOMAIN q : i < j => <<q[i], q[j]>> \in before
  BY <1>3, <1>7, <1>9, RankedLists
<1>11. \A i, j \in DOMAIN q : i < j => f[q[i]] < f[q[j]]
  <2>1. \A i \in DOMAIN q : q[i] \in S
    BY <1>10 DEF ListsOnce
  <2> QED
    BY <1>8, <1>10, <2>1
<1> QED
  BY <1>2, <1>6, <1>10, <1>11 DEF q, D

\* The lines of a cart and its second trip.
LEMMA SelectedLinesAre ==
  ASSUME NEW r, IsResult(r)
  PROVE  /\ Len(SelectedLines(r)) \in Nat /\ DOMAIN SelectedLines(r) = 1..Len(SelectedLines(r))
         /\ \E X : SelectedLines(r) \in Seq(X)
<1>1. PICK X : r.plan.lines \in Seq(X)
  BY DEF IsResult, IsCart, IsPlan
<1>2. CASE r.second = None
  <2>1. SelectedLines(r) = r.plan.lines
    BY <1>2 DEF SelectedLines
  <2> QED
    BY <1>1, <2>1
<1>3. CASE r.second # None
  <2>1. PICK Y : r.second.lines \in Seq(Y)
    BY <1>3 DEF IsResult, IsCart, IsTrip, IsPlan
  <2>2. SelectedLines(r) = r.plan.lines \o r.second.lines
    BY <1>3 DEF SelectedLines
  <2> DEFINE s == r.plan.lines
             t == r.second.lines
             Z == X \cup Y
  <2>3. s \in Seq(X) /\ t \in Seq(Y)
    BY <1>1, <2>1
  <2> HIDE DEF s, t
  <2>4. s \in Seq(Z) /\ t \in Seq(Z)
    <3>1. \A a : Seq(a) = UNION {[1..n -> a] : n \in Nat}
      OBVIOUS
    <3> QED
      BY <2>3
  <2> HIDE DEF Z
  <2>5. s \o t \in Seq(Z)
    BY <2>4
  <2>6. SelectedLines(r) \in Seq(Z)
    BY <2>2, <2>5 DEF s, t
  <2> DEFINE u == SelectedLines(r)
  <2> HIDE DEF u
  <2>7. u \in Seq(Z) => Len(u) \in Nat /\ DOMAIN u = 1..Len(u)
    OBVIOUS
  <2> QED
    BY <2>6, <2>7 DEF u
<1> QED
  BY <1>2, <1>3

\* What is apart has members, and is nowhere the same twice.
LEMMA ApartAre ==
  ASSUME NEW n \in Nat, NEW s, AreApart(s, n)
  PROVE  /\ \A i \in 1..n : ToSet(s[i]) # {}
         /\ \A i, j \in 1..n : s[i] = s[j] => i = j
<1>1. ASSUME NEW i \in 1..n PROVE ToSet(s[i]) # {}
  <2> DEFINE t == s[i]
  <2>1. t \in Seq(ToSet(t)) /\ t # <<>>
    BY DEF AreApart
  <2>2. 1 \in DOMAIN t
    <3> DEFINE T == ToSet(t)
    <3> HIDE DEF t, T
    <3>1. t \in Seq(T) /\ t # <<>>
      BY <2>1 DEF T
    <3> QED
      BY <3>1
  <2>3. t[1] \in ToSet(t)
    BY <2>2 DEF ToSet
  <2> QED
    BY <2>3
<1>2. ASSUME NEW i \in 1..n, NEW j \in 1..n, s[i] = s[j] PROVE i = j
  <2>1. ToSet(s[i]) \cap ToSet(s[j]) # {}
    BY <1>1, <1>2
  <2> QED
    BY <2>1 DEF AreApart
<1> QED
  BY <1>1, <1>2

\* What matches ask for comes from different lines.
LEMMA MatchesApart ==
  ASSUME NEW n \in Nat, NEW matches, IsMatches(matches), Len(matches) = n
  PROVE  \A i, j \in 1..n : matches[i].need.sources = matches[j].need.sources => i = j
<1> DEFINE s == [i \in 1..n |-> matches[i].need.sources]
<1>1. AreApart(s, n)
  BY DEF IsMatches
<1>2. \A i \in 1..n : s[i] = matches[i].need.sources
  OBVIOUS
<1> HIDE DEF s
<1>3. \A i, j \in 1..n : s[i] = s[j] => i = j
  BY <1>1, ApartAre
<1> QED
  BY <1>2, <1>3

\* The matches bought as a product and no other.
OnlyAs(matches, result, sku) ==
  {m \in ToSet(matches) : SkusOf(result, m.need.sources) = {sku}}

\* Where lines first buy what each of some matches asks for.
FirstLines(lines, S) ==
  [m \in S |-> Min({k \in DOMAIN lines : lines[k].sources = m.need.sources})]

\* They come in the order of their lines, each once.
LEMMA BoughtAsIs ==
  ASSUME NEW n \in Nat, NEW matches, IsMatches(matches), Len(matches) = n,
         NEW r, IsResult(r), NEW sku
  PROVE  LET S == OnlyAs(matches, r, sku)
             lines == SelectedLines(r)
         IN  /\ IsFiniteSet(S)
             /\ BoughtAs(matches, r, sku) = SortedBy(S, FirstLines(lines, S))
             /\ \A m \in S : /\ FirstLines(lines, S)[m] \in DOMAIN lines
                             /\ lines[FirstLines(lines, S)[m]].sources = m.need.sources
                             /\ lines[FirstLines(lines, S)[m]].sku = sku
             /\ \A x, y \in S : FirstLines(lines, S)[x] = FirstLines(lines, S)[y] => x = y
<1> DEFINE S == OnlyAs(matches, r, sku)
           lines == SelectedLines(r)
           first(m) == Min({k \in DOMAIN lines : lines[k].sources = m.need.sources})
           f == FirstLines(lines, S)
<1>1. DOMAIN lines = 1..Len(lines) /\ Len(lines) \in Nat
  BY SelectedLinesAre
<1>2. DOMAIN matches = 1..n /\ ToSet(matches) = {matches[i] : i \in 1..n}
  BY DEF IsMatches, ToSet
<1>3. IsFiniteSet(S)
  <2>1. IsFiniteSet(1..n)
    BY FS_Interval
  <2> DEFINE D == 1..n
             at == {matches[i] : i \in D}
  <2> HIDE DEF D
  <2>2. IsFiniteSet(at)
    BY <2>1, ImageIsFinite DEF D
  <2>3. S \in SUBSET at
    BY <1>2 DEF OnlyAs, D
  <2> HIDE DEF at, S
  <2> QED
    BY <2>2, <2>3, FS_Subset
<1>4. ASSUME NEW m \in S
      PROVE  /\ f[m] \in DOMAIN lines /\ lines[f[m]].sources = m.need.sources
             /\ lines[f[m]].sku = sku
  <2> DEFINE P == {k \in DOMAIN lines : lines[k].sources = m.need.sources}
  <2>1. SkusOf(r, m.need.sources) = {sku}
    BY DEF OnlyAs
  <2>2. SkusOf(r, m.need.sources) = {l.sku : l \in {x \in {lines[k] : k \in DOMAIN lines} :
                                                       x.sources = m.need.sources}}
    BY DEF SkusOf, ToSet
  <2>3. P # {} /\ P \in SUBSET Nat
    BY <1>1, <2>1, <2>2
  <2>4. f[m] = Min(P)
    BY DEF FirstLines
  <2>5. Min(P) \in P
    <3> HIDE DEF P
    <3> QED
      BY <2>3, LeastIs
  <2>6. f[m] \in DOMAIN lines /\ lines[f[m]].sources = m.need.sources
    BY <2>4, <2>5
  <2>7. lines[f[m]].sku \in SkusOf(r, m.need.sources)
    BY <2>2, <2>6
  <2> QED
    BY <2>1, <2>6, <2>7
<1>5. \A x, y \in S : f[x] = f[y] => x = y
  <2> SUFFICES ASSUME NEW x \in S, NEW y \in S, f[x] = f[y] PROVE x = y
    OBVIOUS
  <2>1. x.need.sources = y.need.sources
    BY <1>4
  <2>2. PICK i \in 1..n, j \in 1..n : x = matches[i] /\ y = matches[j]
    BY <1>2 DEF OnlyAs
  <2> QED
    BY <2>1, <2>2, MatchesApart
<1>6. BoughtAs(matches, r, sku) =
        [k \in 1..Cardinality(S) |->
           CHOOSE x \in S : Cardinality({y \in S : first(y) < first(x)}) = k - 1]
  BY DEF BoughtAs, Sorted, OnlyAs
<1>7. \A m \in S : f[m] = first(m)
  BY DEF FirstLines
<1> HIDE DEF S, first, f
<1>8. \A x \in S : {y \in S : first(y) < first(x)} = {y \in S : f[y] < f[x]}
  BY <1>7
<1>9. BoughtAs(matches, r, sku) = SortedBy(S, f)
  <2>1. \A k : (CHOOSE x \in S : Cardinality({y \in S : first(y) < first(x)}) = k - 1)
                 = CHOOSE x \in S : Cardinality({y \in S : f[y] < f[x]}) = k - 1
    BY <1>8
  <2> QED
    BY <1>6, <2>1 DEF SortedBy
<1> QED
  BY <1>3, <1>4, <1>5, <1>9 DEF S, f

\* Added up by child, what is more than nothing stays more than nothing.
LEMMA SumByChildPositive ==
  ASSUME NEW costs, IsFiniteSet(DOMAIN costs), \A k \in DOMAIN costs : Weights(costs[k]),
         \A k \in DOMAIN costs : \A c \in DOMAIN costs[k] : costs[k][c] # 0
  PROVE  LET r == SumByChild(costs)
         IN  r \in [DOMAIN r -> Nat \ {0}]
<1> DEFINE K == DOMAIN costs
           C == UNION {DOMAIN costs[k] : k \in K}
           r == SumByChild(costs)
           at(c) == {k \in K : c \in DOMAIN costs[k]}
           part(c) == [k \in at(c) |-> costs[k][c]]
<1>1. r = [c \in C |-> SumFunction(part(c))]
  BY DEF SumByChild
<1>2. ASSUME NEW c \in C PROVE SumFunction(part(c)) \in Nat \ {0}
  <2> DEFINE A == at(c)
             p == part(c)
  <2>1. A \in SUBSET K /\ A # {}
    OBVIOUS
  <2>2. \A k \in A : p[k] \in Nat /\ p[k] # 0
    BY DEF Weights
  <2>3. SumFunction(p) = SumFunctionOnSet(p, A)
    BY DEF SumFunction
  <2>4. IsFiniteSet(A)
    BY <2>1, FS_Subset
  <2> HIDE DEF A, p
  <2>5. PICK k \in A : TRUE
    BY <2>1
  <2>6. p[k] <= SumFunctionOnSet(p, A)
    BY <2>2, <2>4, <2>5, SumAtLeast
  <2>7. SumFunctionOnSet(p, A) \in Nat
    BY <2>2, <2>4, SumNat
  <2>8. SumFunction(p) \in Nat \ {0}
    BY <2>2, <2>3, <2>5, <2>6, <2>7
  <2> QED
    BY <2>8 DEF p
<1> HIDE DEF C, part
<1>3. DOMAIN r = C /\ \A c \in C : r[c] \in Nat \ {0}
  BY <1>1, <1>2
<1>4. r = [c \in DOMAIN r |-> r[c]]
  BY <1>1
<1> HIDE DEF r
<1>5. r \in [DOMAIN r -> Nat \ {0}]
  BY <1>3, <1>4
<1> QED
  BY <1>5 DEF r

\* The need for all of some matches is a need.
LEMMA MergedNeedIs ==
  ASSUME NEW n \in Nat \ {0}, NEW group, DOMAIN group = 1..n,
         \A i \in 1..n : IsNeed(group[i].need), NEW offer
  PROVE  IsNeed(MergeNeeds(group, offer))
<1> DEFINE needs == Needs(group)
           first == needs[1]
           quantities == [i \in DOMAIN needs |-> needs[i].quantity]
           shares == [i \in DOMAIN needs |-> needs[i].allocatedTo]
           merged == MergeNeeds(group, offer)
           names == {"label", "quantity", "brand", "allocatedTo", "sources", "variant"}
<1>1. DOMAIN needs = 1..n /\ \A i \in 1..n : IsNeed(needs[i])
  BY DEF Needs
<1>2. names \in SUBSET DOMAIN first /\ first.label \in Int
  BY <1>1 DEF IsNeed
<1> HIDE DEF needs
<1>3. /\ DOMAIN merged = DOMAIN first /\ merged.label = first.label
      /\ merged.quantity = SumFunction(quantities)
      /\ merged.allocatedTo = SumByChild(shares)
  <2> DEFINE brands == {needs[i].brand : i \in DOMAIN needs} \ {None}
             q == SumFunction(quantities)
             b == IF brands = {} THEN None
                  ELSE IF Cardinality(brands) = 1 THEN CHOOSE x \in brands : TRUE ELSE offer.brand
             a == SumByChild(shares)
             s == FlattenSeq([i \in DOMAIN needs |-> needs[i].sources])
             v == IF \A i \in DOMAIN needs : needs[i].variant = first.variant
                  THEN first.variant ELSE None
  <2>1. merged = [first EXCEPT !.quantity = q, !.brand = b, !.allocatedTo = a, !.sources = s,
                               !.variant = v]
    BY DEF MergeNeeds, needs
  <2> HIDE DEF q, b, a, s, v, first, merged
  <2>2. DOMAIN merged = DOMAIN first /\ merged.label = first.label
    BY <1>2, <2>1
  <2>3. merged.quantity = q /\ merged.allocatedTo = a
    BY <1>2, <2>1
  <2> QED
    BY <2>2, <2>3 DEF q, a
<1>4. /\ DOMAIN quantities = 1..n /\ DOMAIN shares = 1..n
      /\ \A i \in 1..n : /\ quantities[i] \in Nat \ {0}
                         /\ Weights(shares[i]) /\ SumFunction(shares[i]) = quantities[i]
  BY <1>1 DEF IsNeed
<1> HIDE DEF quantities, shares, merged, first
<1>5. IsFiniteSet(1..n) /\ 1 \in 1..n
  BY FS_Interval
<1>6. SumFunction(quantities) \in Nat \ {0}
  <2> DEFINE D == 1..n
  <2>1. IsFiniteSet(D) /\ 1 \in D /\ \A i \in D : quantities[i] \in Nat
    BY <1>4, <1>5
  <2>2. SumFunction(quantities) = SumFunctionOnSet(quantities, D)
    BY <1>4 DEF SumFunction
  <2> HIDE DEF D
  <2>3. SumFunctionOnSet(quantities, D) \in Nat
    BY <2>1, SumNat
  <2>4. quantities[1] <= SumFunctionOnSet(quantities, D)
    BY <2>1, SumAtLeast
  <2>5. quantities[1] \in Nat \ {0}
    BY <1>4, <1>5
  <2> QED
    BY <2>2, <2>3, <2>4, <2>5
<1>7. /\ Weights(SumByChild(shares))
      /\ SumFunction(SumByChild(shares)) = SumFunction(quantities)
  <2>1. /\ IsFiniteSet(DOMAIN shares) /\ \A k \in DOMAIN shares : Weights(shares[k])
        /\ \A k \in DOMAIN shares : quantities[k] = SumFunction(shares[k])
    BY <1>4, <1>5
  <2>2. Weights(SumByChild(shares))
    BY <2>1, SumByChildIs
  <2>3. SumFunction(SumByChild(shares)) = SumFunctionOnSet(quantities, DOMAIN shares)
    BY <2>1, SumByChildIs
  <2> QED
    BY <1>4, <2>2, <2>3 DEF SumFunction
<1>8. merged.allocatedTo \in [DOMAIN merged.allocatedTo -> Nat \ {0}]
  <2> DEFINE a == SumByChild(shares)
  <2>1. IsFiniteSet(DOMAIN shares) /\ \A k \in DOMAIN shares : Weights(shares[k])
    BY <1>4, <1>5
  <2>2. \A k \in 1..n : shares[k] \in [DOMAIN shares[k] -> Nat \ {0}]
    BY <1>1 DEF IsNeed, shares
  <2>3. \A k \in DOMAIN shares : \A c \in DOMAIN shares[k] : shares[k][c] # 0
    BY <1>4, <2>2
  <2>4. a \in [DOMAIN a -> Nat \ {0}]
    BY <2>1, <2>3, SumByChildPositive
  <2> QED
    BY <1>3, <2>4
<1> QED
  BY <1>2, <1>3, <1>6, <1>7, <1>8 DEF IsNeed, merged

\* Each of the matches bought as a product is once among them.
LEMMA GroupIs ==
  ASSUME NEW n \in Nat, NEW matches, IsMatches(matches), Len(matches) = n,
         NEW r, IsResult(r), NEW sku
  PROVE  LET S == OnlyAs(matches, r, sku)
             g == BoughtAs(matches, r, sku)
             k == Cardinality(S)
         IN  ListsOnce(g, S) /\ DOMAIN g = 1..k /\ k \in Nat /\ g = [j \in 1..k |-> g[j]]
<1> DEFINE S == OnlyAs(matches, r, sku)
           g == BoughtAs(matches, r, sku)
           k == Cardinality(S)
           f == FirstLines(SelectedLines(r), S)
<1>1. IsFiniteSet(S) /\ g = SortedBy(S, f)
  BY BoughtAsIs
<1>2. \A y \in S : f[y] \in Int
  <2>1. \A y \in S : f[y] \in DOMAIN SelectedLines(r)
    BY BoughtAsIs
  <2>2. DOMAIN SelectedLines(r) = 1..Len(SelectedLines(r))
    BY SelectedLinesAre
  <2> QED
    BY <2>1, <2>2
<1>3. \A y, z \in S : f[y] = f[z] => y = z
  BY BoughtAsIs
<1> HIDE DEF f, S, g
<1>4. /\ k \in Nat /\ DOMAIN SortedBy(S, f) = 1..k /\ ListsOnce(SortedBy(S, f), S)
      /\ SortedBy(S, f) = [j \in 1..k |-> SortedBy(S, f)[j]]
  BY <1>1, <1>2, <1>3, SortedByIs
<1> QED
  BY <1>1, <1>4 DEF S, g

\* The matches after merging ask for needs.
LEMMA ConsolidatedAre ==
  ASSUME NEW n \in Nat, NEW matches, IsMatches(matches), Len(matches) = n,
         NEW r, IsResult(r), NEW offers
  PROVE  \E m \in Nat : IsNeeds(Needs(ConsolidateSelectedSkus(matches, r, offers)), m)
<1> DEFINE merged == ConsolidateSelectedSkus(matches, r, offers)
           only(x) == SkusOf(r, x.need.sources)
           sku(x) == CHOOSE s \in only(x) : TRUE
           group(x) == BoughtAs(matches, r, sku(x))
           merges(x) == Cardinality(only(x)) = 1 /\ MayMerge(group(x), sku(x))
           offer(x) == CHOOSE o \in offers : o.sku \in only(x)
           becomes(x) == IF merges(x) THEN MergeMatches(group(x), offer(x)) ELSE x
           seq == [i \in DOMAIN matches |-> becomes(matches[i])]
           first(i) == merges(matches[i]) =>
                         \A j \in 1..(i - 1) : only(matches[j]) # only(matches[i])
           P == {i \in DOMAIN seq : first(i)}
           q == InOrderOf(P)
           m == Cardinality(P)
<1>1. merged = Pick(seq, q)
  BY DEF ConsolidateSelectedSkus, At, InOrderOf
<1>2. DOMAIN matches = 1..n /\ \A i \in 1..n : IsNeed(matches[i].need)
  BY DEF IsMatches
<1>3. DOMAIN seq = 1..n /\ \A i \in 1..n : seq[i] = becomes(matches[i])
  BY <1>2
<1>4. P \in SUBSET (1..n)
  BY <1>3
<1>5. ASSUME NEW i \in 1..n PROVE IsNeed(becomes(matches[i]).need)
  <2> DEFINE x == matches[i]
             S == OnlyAs(matches, r, sku(x))
             g == group(x)
             k == Cardinality(S)
  <2>1. CASE ~merges(x)
    BY <1>2, <2>1
  <2>2. CASE merges(x)
    <3>1. Len(g) >= 2
      BY <2>2 DEF MayMerge
    <3>2. becomes(x).need = MergeNeeds(g, offer(x))
      BY <2>2 DEF MergeMatches
    <3>4. ListsOnce(g, S) /\ DOMAIN g = 1..k /\ k \in Nat /\ g = [j \in 1..k |-> g[j]]
      BY GroupIs
    <3>5. \A y \in S : IsNeed(y.need)
      BY <1>2 DEF OnlyAs, ToSet
    <3> HIDE DEF g, S, k
    <3>6. k # 0
      <4>1. Len(g) = k
        BY <3>4
      <4> QED
        BY <3>1, <4>1
    <3>7. \A j \in 1..k : IsNeed(g[j].need)
      BY <3>4, <3>5 DEF ListsOnce
    <3>8. IsNeed(MergeNeeds(g, offer(x)))
      <4> HIDE DEF offer
      <4> QED
        BY <3>4, <3>6, <3>7, MergedNeedIs
    <3> QED
      BY <3>2, <3>8
  <2> QED
    BY <2>1, <2>2
<1> HIDE DEF P, seq, becomes
<1>6. /\ m \in Nat /\ merged = [k \in 1..m |-> merged[k]]
      /\ \A k \in 1..m : q[k] \in P /\ merged[k] = seq[q[k]]
  BY <1>1, <1>4, PickedAt
<1> HIDE DEF merged, q, m
<1>7. \A k \in 1..m : IsNeed(merged[k].need)
  BY <1>3, <1>4, <1>5, <1>6
<1>8. IsNeeds(Needs(merged), m)
  <2>1. DOMAIN merged = 1..m
    BY <1>6
  <2>2. Needs(merged) = [k \in 1..m |-> merged[k].need]
    BY <2>1 DEF Needs
  <2>3. \A k \in 1..m : Needs(merged)[k] = merged[k].need
    BY <2>2
  <2> QED
    BY <1>7, <2>2, <2>3 DEF IsNeeds
<1> QED
  BY <1>6, <1>8 DEF merged

\* What matches ask for are needs.
LEMMA NeedsOfMatches ==
  ASSUME NEW n \in Nat, NEW matches, IsMatches(matches), Len(matches) = n
  PROVE  IsNeeds(Needs(matches), n)
<1>1. DOMAIN matches = 1..n /\ \A i \in 1..n : IsNeed(matches[i].need)
  BY DEF IsMatches
<1>2. Needs(matches) = [k \in 1..n |-> matches[k].need]
  BY <1>1 DEF Needs
<1>3. \A k \in 1..n : Needs(matches)[k] = matches[k].need
  BY <1>2
<1> QED
  BY <1>1, <1>2, <1>3 DEF IsNeeds

\* Both carts the pipeline has are results, and the first is the one asked for.
LEMMA ConsolidatedResult ==
  ASSUME NEW n \in Nat, NEW matches, IsMatches(matches), Len(matches) = n,
         NEW offers, IsOffers(offers), NEW stores, IsStores(stores), NEW config, IsConfig(config)
  PROVE  LET a == OptimizeAndConsolidate(matches, offers, stores, config)
         IN  /\ IsResult(a.preliminary) /\ IsResult(a.result)
             /\ a.preliminary = OptimizeWithMatchCandidates(matches, offers, stores, config)
<1> DEFINE a == OptimizeAndConsolidate(matches, offers, stores, config)
           p == OptimizeWithMatchCandidates(matches, offers, stores, config)
           merged == ConsolidateSelectedSkus(matches, p, offers)
           again == OptimizeWithMatchCandidates(merged, offers, stores, config)
<1>1. a.preliminary = p /\ a.result = IF merged = matches THEN p ELSE again
  BY DEF OptimizeAndConsolidate, Consolidated, AfterMerging
<1>2. IsNeeds(Needs(matches), n)
  BY NeedsOfMatches
<1>3. IsResult(p)
  BY <1>2, CandidatesAnswer
<1> HIDE DEF a, p
<1>4. \E m \in Nat : IsNeeds(Needs(merged), m)
  BY <1>3, ConsolidatedAre
<1> HIDE DEF merged
<1>5. IsResult(again)
  BY <1>4, CandidatesAnswer
<1> QED
  BY <1>1, <1>3, <1>5 DEF a, p

\* Every way to buy enough is a number of packs of each product for sale.
LEMMA PurchasesAre ==
  ASSUME NEW need, NEW offers, IsOffers(offers), need.quantity \in Nat \ {0}
  PROVE  LET q == MatchingOffers(need, offers)
             n == Cardinality(ForSale(need, offers))
         IN  Purchases(need, offers)
               = {[over |-> UnitsTo(q, c, n) - need.quantity, cost |-> CostTo(q, c, n)] :
                    c \in Enough(q, n, need.quantity)}
<1> DEFINE q == MatchingOffers(need, offers)
           n == Cardinality(ForSale(need, offers))
           S == Sold(need, offers)
           m == Max({0} \cup {o.stock : o \in S})
           F == {d \in [S -> 0..m] : \A o \in S : d[o] <= o.stock}
           units(d) == SumFunction([o \in S |-> d[o] * o.size])
           cost(d) == SumFunction([o \in S |-> d[o] * o.price])
           E == {d \in F : units(d) >= need.quantity}
           c(d) == [j \in 1..n |-> d[q[j]]]
           A == Enough(q, n, need.quantity)
<1>1. Purchases(need, offers)
        = {[over |-> units(d) - need.quantity, cost |-> cost(d)] : d \in E}
  BY DEF Purchases, Sold
<1>2. /\ m \in Nat
      /\ \A o \in S : o.stock \in 0..m
  <2> DEFINE stock == [o \in S |-> o.stock]
             T == {0} \cup {o.stock : o \in S}
  <2>1. S \in SUBSET offers /\ IsFiniteSet(offers) /\ \A o \in offers : o.stock \in Nat
    BY DEF Sold, IsOffers
  <2>2. IsFiniteSet(S)
    BY <2>1, FS_Subset
  <2>3. {o.stock : o \in S} = {stock[o] : o \in S}
    OBVIOUS
  <2> HIDE DEF stock
  <2>4. IsFiniteSet({stock[o] : o \in S})
    BY <2>2, ImageIsFinite
  <2>5. IsFiniteSet(T)
    <3>1. IsFiniteSet({0})
      BY FS_Singleton
    <3> QED
      BY <2>3, <2>4, <3>1, FS_Union
  <2>6. T \in SUBSET Nat /\ T # {} /\ \A o \in S : o.stock \in T
    BY <2>1
  <2>7. m = Max(T)
    OBVIOUS
  <2> HIDE DEF T
  <2>8. Max(T) \in T /\ \A x \in T : x <= Max(T)
    BY <2>5, <2>6, LargestIs
  <2> HIDE DEF m
  <2>9. m \in Nat
    BY <2>6, <2>7, <2>8
  <2>10. \A o \in S : o.stock \in Nat /\ o.stock <= m
    BY <2>6, <2>7, <2>8
  <2> HIDE DEF S
  <2> QED
    BY <2>9, <2>10
<1> HIDE DEF m
<1>3. ASSUME NEW d \in [S -> Nat], \A o \in S : d[o] <= o.stock
      PROVE  /\ d \in F /\ c(d) \in Counts(q, n)
             /\ UnitsTo(q, c(d), n) = units(d) /\ CostTo(q, c(d), n) = cost(d)
  <2>1. \A o \in S : d[o] \in 0..m
    <3>1. \A o \in S : d[o] \in Nat /\ o.stock \in 0..m /\ d[o] <= o.stock
      BY <1>2, <1>3
    <3> HIDE DEF S
    <3> QED
      BY <1>2, <3>1
  <2>2. d \in F
    <3> HIDE DEF S
    <3> QED
      BY <1>3, <2>1
  <2>3. /\ c(d) \in Counts(q, n)
        /\ UnitsTo(q, c(d), n) = units(d) /\ CostTo(q, c(d), n) = cost(d)
    <3>1. IsTaken(d, need, offers)
      BY <1>3 DEF IsTaken
    <3>2. IsCounted(d, need, offers)
      BY <3>1, TakenAre
    <3> QED
      BY <3>2 DEF IsCounted
  <2> QED
    BY <2>2, <2>3
<1>4. \A d \in F : d \in [S -> Nat] /\ \A o \in S : d[o] <= o.stock
  <2> HIDE DEF S
  <2> QED
    BY <1>2
<1> HIDE DEF F, units, cost, c
<1>5. ASSUME NEW d \in E
      PROVE  c(d) \in A /\ UnitsTo(q, c(d), n) = units(d) /\ CostTo(q, c(d), n) = cost(d)
  <2>1. d \in F /\ units(d) >= need.quantity
    OBVIOUS
  <2>2. /\ c(d) \in Counts(q, n)
        /\ UnitsTo(q, c(d), n) = units(d) /\ CostTo(q, c(d), n) = cost(d)
    BY <1>3, <1>4, <2>1
  <2>3. UnitsTo(q, c(d), n) \in Int
    BY <2>2, MatchingSupply, CountsAre
  <2>4. need.quantity <= UnitsTo(q, c(d), n)
    BY <2>1, <2>2, <2>3
  <2> QED
    BY <2>2, <2>4 DEF Enough
<1>6. ASSUME NEW e \in A
      PROVE  \E d \in E : UnitsTo(q, e, n) = units(d) /\ CostTo(q, e, n) = cost(d)
  <2>1. e \in Counts(q, n) /\ need.quantity <= UnitsTo(q, e, n)
    BY DEF Enough
  <2>2. PICK d \in [S -> Nat] : /\ \A o \in S : d[o] <= o.stock
                                /\ e = c(d)
    BY <2>1, TakenFrom DEF c
  <2>3. d \in F /\ UnitsTo(q, e, n) = units(d) /\ CostTo(q, e, n) = cost(d)
    BY <1>3, <2>2
  <2>4. UnitsTo(q, e, n) \in Int
    BY <2>1, MatchingSupply, CountsAre
  <2>5. units(d) >= need.quantity
    BY <2>1, <2>3, <2>4
  <2> QED
    BY <2>3, <2>5
<1> DEFINE both(u, x) == [over |-> u - need.quantity, cost |-> x]
<1>7. {both(units(d), cost(d)) : d \in E}
        = {both(UnitsTo(q, e, n), CostTo(q, e, n)) : e \in A}
  <2> HIDE DEF E, A, both, q, n
  <2>1. ASSUME NEW d \in E
        PROVE  \E e \in A : both(units(d), cost(d)) = both(UnitsTo(q, e, n), CostTo(q, e, n))
    BY <1>5
  <2>2. ASSUME NEW e \in A
        PROVE  \E d \in E : both(units(d), cost(d)) = both(UnitsTo(q, e, n), CostTo(q, e, n))
    <3>1. PICK d \in E : UnitsTo(q, e, n) = units(d) /\ CostTo(q, e, n) = cost(d)
      BY <1>6
    <3> QED
      BY <3>1
  <2> QED
    BY <2>1, <2>2
<1> QED
  BY <1>1, <1>7

\* Two singletons joined.
LEMMA JoinedPair ==
  ASSUME NEW X, NEW a \in X, NEW b \in X
  PROVE  <<a>> \o <<b>> = <<a, b>>
<1> DEFINE u == <<a>> \o <<b>>
<1>1. <<a>> \in Seq(X) /\ <<b>> \in Seq(X)
  OBVIOUS
<1>2. u \in Seq(X) /\ Len(u) = 2
  BY <1>1, JoinedIs
<1>3. u[1] = a
  BY <1>1, JoinedIs
<1>4. u[2] = b
  <2>1. 2 \in (Len(<<a>>) + 1)..(Len(<<a>>) + Len(<<b>>)) /\ 2 - Len(<<a>>) = 1
    OBVIOUS
  <2> QED
    BY <1>1, <2>1, JoinedIs
<1> HIDE DEF u
<1>5. u = <<a, b>>
  BY <1>2, <1>3, <1>4
<1> QED
  BY <1>5 DEF u

\* The sum of one term.
LEMMA SumOfOne ==
  ASSUME NEW x, NEW f, f[x] \in Int
  PROVE  SumFunctionOnSet(f, {x}) = f[x]
<1>1. IsFiniteSet({}) /\ {x} = {} \cup {x} /\ {} = {x} \ {x}
  BY FS_EmptySet
<1>2. IsFiniteSet({x})
  BY FS_Singleton
<1>3. SumFunctionOnSet(f, {}) = 0
  BY SumOfNone
<1>4. SumFunctionOnSet(f, {x}) = f[x] + SumFunctionOnSet(f, {x} \ {x})
  BY <1>2, SumOfOneMore
<1> QED
  BY <1>1, <1>3, <1>4

\* What each entry pays over the trips of a result adds up to its landed cost.
LEMMA EntriesPayAll ==
  ASSUME NEW r, IsResult(r)
  PROVE  SumFunction(PerEntryLandedCosts(r)) = r.landed
<1> DEFINE a == r.plan.childLanded
           b == r.second.childLanded
<1>1. Weights(a) /\ SumFunction(a) = r.plan.landed /\ r.plan.landed \in Nat
  BY DEF IsResult, IsCart, IsPlan
<1>2. ASSUME NEW X, NEW w \in X, NEW v, v = InAll(X), SumFunction(w) \in Int
      PROVE  Weigh(v, <<w>>) = SumFunction(w) /\ <<w>> \in Seq(X)
  <2> DEFINE f == [k \in DOMAIN <<w>> |-> v[<<w>>[k]]]
  <2>1. DOMAIN <<w>> = {1} /\ <<w>>[1] = w /\ <<w>> \in Seq(X)
    OBVIOUS
  <2>2. v[w] = SumFunction(w)
    BY <1>2 DEF InAll
  <2>3. f[1] = SumFunction(w)
    BY <2>1, <2>2
  <2>4. Weigh(v, <<w>>) = SumFunctionOnSet(f, {1})
    BY <2>1 DEF Weigh
  <2> HIDE DEF f
  <2>5. f[1] \in Int
    BY <1>2, <2>3
  <2>6. SumFunctionOnSet(f, {1}) = f[1]
    BY <2>5, SumOfOne
  <2> QED
    BY <2>1, <2>3, <2>4, <2>6
<1>3. CASE r.second = None
  <2> DEFINE X == {a}
             v == InAll(X)
  <2>1. PerEntryLandedCosts(r) = SumByChild(<<a>>)
    BY <1>3 DEF PerEntryLandedCosts
  <2>2. (\A w \in X : Weights(w)) /\ a \in X /\ SumFunction(a) \in Int
    BY <1>1
  <2> HIDE DEF X, v, a
  <2>3. Weigh(v, <<a>>) = SumFunction(a) /\ <<a>> \in Seq(X)
    BY <1>2, <2>2 DEF v
  <2>4. <<>> \in Seq(X) /\ <<a>> \o <<>> = <<a>>
    BY <2>3
  <2>5. Weigh(v, <<>>) = 0
    <3>1. DOMAIN <<>> = {}
      OBVIOUS
    <3> QED
      BY <3>1, SumOfNone DEF Weigh
  <2>6. SumFunction(SumByChild(<<a>> \o <<>>)) = Weigh(v, <<a>>) + Weigh(v, <<>>)
    BY <2>2, <2>3, <2>4, JoinedShares DEF v
  <2>7. r.landed = r.plan.landed
    BY <1>1, <1>3 DEF IsResult
  <2> QED
    BY <1>1, <2>1, <2>3, <2>4, <2>5, <2>6, <2>7 DEF a
<1>4. CASE r.second # None
  <2> DEFINE X == {a, b}
             v == InAll(X)
  <2>1. PerEntryLandedCosts(r) = SumByChild(<<a, b>>)
    BY <1>4 DEF PerEntryLandedCosts
  <2>2. Weights(b) /\ SumFunction(b) = r.second.landed /\ r.second.landed \in Nat
    BY <1>4 DEF IsResult, IsCart, IsTrip, IsPlan
  <2>3. /\ \A w \in X : Weights(w)
        /\ a \in X /\ SumFunction(a) \in Int /\ b \in X /\ SumFunction(b) \in Int
    BY <1>1, <2>2
  <2>4. r.landed = r.plan.landed + r.second.landed
    BY <1>4 DEF IsResult
  <2>5. SumFunction(a) = r.plan.landed
    BY <1>1
  <2>6. SumFunction(b) = r.second.landed
    BY <2>2
  <2> HIDE DEF X, v, a, b
  <2>7. Weigh(v, <<a>>) = SumFunction(a) /\ <<a>> \in Seq(X)
    BY <1>2, <2>3 DEF v
  <2>8. Weigh(v, <<b>>) = SumFunction(b) /\ <<b>> \in Seq(X)
    BY <1>2, <2>3 DEF v
  <2>9. <<a>> \o <<b>> = <<a, b>>
    BY <2>3, JoinedPair
  <2>10. SumFunction(SumByChild(<<a>> \o <<b>>)) = Weigh(v, <<a>>) + Weigh(v, <<b>>)
    BY <2>3, <2>7, <2>8, JoinedShares DEF v
  <2> QED
    BY <2>1, <2>4, <2>5, <2>6, <2>7, <2>8, <2>9, <2>10
<1> QED
  BY <1>3, <1>4

\* Best of what may be bought, in the words of the purchases.
IsCheapest(got, need, offers) ==
  LET all    == Purchases(need, offers)
      within == {p \in all : 2 * p.over <= need.quantity \/ p.over <= 6}
      pool   == IF within = {} THEN all ELSE within
  IN  IF got = None THEN all = {}
      ELSE /\ got.exception <=> within = {}
           /\ [over |-> got.over, cost |-> got.cost] \in pool
           /\ \A p \in pool : \/ got.cost < p.cost
                              \/ got.cost = p.cost /\ got.over <= p.over

\* _select_packages chooses the best of all that can be bought.
LEMMA BestOfPurchases ==
  ASSUME NEW need, need.quantity \in Nat \ {0}, NEW offers, IsOffers(offers)
  PROVE  IsCheapest(SelectPackages(need, offers), need, offers)
<1> DEFINE quantity == need.quantity
           q == MatchingOffers(need, offers)
           n == Cardinality(ForSale(need, offers))
           E == Enough(q, n, quantity)
           W == Within(q, n, quantity)
           A == Allowed(q, n, quantity)
           bought(c) == [over |-> UnitsTo(q, c, n) - quantity, cost |-> CostTo(q, c, n)]
           all == Purchases(need, offers)
           within == {p \in all : 2 * p.over <= quantity \/ p.over <= 6}
           pool == IF within = {} THEN all ELSE within
           got == SelectPackages(need, offers)
<1>1. quantity \in Nat \ {0}
  OBVIOUS
<1>2. n \in Nat /\ IsSupply(q, n)
  BY MatchingSupply
<1>3. all = {bought(c) : c \in E}
  BY PurchasesAre
<1>4. \/ got = None /\ E = {}
      \/ got # None /\ BestAllowed(got, q, n, quantity)
  BY NoneIsNoNumber, NoneIsNoSelection, SelectedPackagesAre
<1> HIDE DEF all, got, q, n
<1>5. \A c \in E : /\ UnitsTo(q, c, n) \in Nat /\ CostTo(q, c, n) \in Nat
                   /\ UnitsTo(q, c, n) - quantity \in Nat
  <2>1. \A c \in Counts(q, n) : UnitsTo(q, c, n) \in Nat /\ CostTo(q, c, n) \in Nat
    <3>1. n \in 0..n
      BY <1>2
    <3> QED
      BY <1>2, <3>1, CountsAre
  <2>2. \A c \in E : c \in Counts(q, n) /\ quantity <= UnitsTo(q, c, n)
    BY DEF Enough
  <2> HIDE DEF E, quantity
  <2>3. quantity \in Nat
    BY <1>1
  <2> QED
    BY <2>1, <2>2, <2>3
<1>6. \A c \in E : c \in W <=> (2 * bought(c).over <= quantity \/ bought(c).over <= 6)
  <2>1. \A k \in Nat : k <= AllowedOverage(quantity) <=> (2 * k <= quantity \/ k <= 6)
    BY <1>1, CeilingIs
  <2>2. \A c \in E : c \in W <=> UnitsTo(q, c, n) - quantity <= AllowedOverage(quantity)
    BY DEF Within
  <2>3. \A c \in E : bought(c).over = UnitsTo(q, c, n) - quantity
    OBVIOUS
  <2> HIDE DEF E, W, quantity, bought
  <2> QED
    BY <1>5, <2>1, <2>2, <2>3
<1>7. W \in SUBSET E /\ A = IF W = {} THEN E ELSE W
  BY DEF Within, Allowed
<1>8. BestAllowed(got, q, n, quantity) =>
        /\ got.over = got.units - quantity
        /\ got.exception <=> W = {}
        /\ \E c \in A : got.units = UnitsTo(q, c, n) /\ got.cost = CostTo(q, c, n)
        /\ \A c \in A : \/ got.cost < CostTo(q, c, n)
                        \/ got.cost = CostTo(q, c, n) /\ got.units <= UnitsTo(q, c, n)
  BY DEF BestAllowed
<1>9. \A c \in E : bought(c).over = UnitsTo(q, c, n) - quantity /\ bought(c).cost = CostTo(q, c, n)
  OBVIOUS
<1>10. \A c \in E : bought(c) = [over |-> UnitsTo(q, c, n) - quantity, cost |-> CostTo(q, c, n)]
  OBVIOUS
<1> HIDE DEF E, W, A, bought, quantity
<1>11. within = {bought(c) : c \in W}
  BY <1>3, <1>6, <1>7
<1>12. pool = {bought(c) : c \in A} /\ (within = {} <=> W = {})
  <2>1. within = {} <=> W = {}
    BY <1>11
  <2> HIDE DEF within
  <2> QED
    BY <1>3, <1>7, <1>11, <2>1
<1>13. CASE got = None /\ E = {}
  BY <1>3, <1>13 DEF all, got, IsCheapest
<1>14. CASE got # None /\ BestAllowed(got, q, n, quantity)
  <2> HIDE DEF within, pool
  <2>1. A \in SUBSET E
    BY <1>7
  <2>2. PICK c \in A : got.units = UnitsTo(q, c, n) /\ got.cost = CostTo(q, c, n)
    BY <1>8, <1>14
  <2>3. [over |-> got.over, cost |-> got.cost] \in pool
    <3>1. [over |-> got.over, cost |-> got.cost] = bought(c)
      BY <1>8, <1>10, <1>14, <2>1, <2>2
    <3> QED
      BY <1>12, <3>1
  <2>4. ASSUME NEW d \in A
        PROVE  \/ got.cost < bought(d).cost
               \/ got.cost = bought(d).cost /\ got.over <= bought(d).over
    <3>1. /\ UnitsTo(q, d, n) \in Nat /\ UnitsTo(q, c, n) \in Nat /\ quantity \in Nat
          /\ bought(d).over = UnitsTo(q, d, n) - quantity /\ bought(d).cost = CostTo(q, d, n)
      BY <1>1, <1>5, <1>9, <2>1
    <3>2. \/ got.cost < CostTo(q, d, n)
          \/ got.cost = CostTo(q, d, n) /\ got.units <= UnitsTo(q, d, n)
      BY <1>8, <1>14
    <3>3. got.units = UnitsTo(q, c, n) /\ got.over = got.units - quantity
      BY <1>8, <1>14, <2>2
    <3> QED
      BY <3>1, <3>2, <3>3
  <2>5. \A p \in pool : \/ got.cost < p.cost
                        \/ got.cost = p.cost /\ got.over <= p.over
    BY <1>12, <2>4
  <2>6. got.exception <=> within = {}
    BY <1>8, <1>12, <1>14
  <2> QED
    BY <1>14, <2>3, <2>5, <2>6 DEF all, got, quantity, within, pool, IsCheapest
<1> QED
  BY <1>4, <1>13, <1>14

-----------------------------------------------------------------------------
(* The answers *)

\* What the answer to each question is.
AnswersInv ==
  /\ asked \in CartQuestions \cup PackQuestions \cup ShareQuestions
  /\ \/ answer = None
     \/ /\ asked.kind = "cart"
        /\ answer = OptimizeAndConsolidate(asked.matches, asked.offers, Stores, asked.config)
     \/ /\ asked.kind = "packs"
        /\ answer = [packs |-> SelectPackages(asked.need, asked.offers)]
     \/ /\ asked.kind = "share"
        /\ answer = AllocateCents(asked.total, asked.weights)

\* Every answer is that of the optimizer to the question that was asked.
THEOREM AnswersAreGiven == Spec => []AnswersInv
<1>1. Init => AnswersInv
  BY DEF Init, AnswersInv
<1>2. AnswersInv /\ [Next]_vars => AnswersInv'
  <2> SUFFICES ASSUME AnswersInv, [Next]_vars PROVE AnswersInv'
    OBVIOUS
  <2>1. CASE BuildCart
    BY <2>1 DEF AnswersInv, BuildCart
  <2>2. CASE ChoosePacks
    BY <2>2 DEF AnswersInv, ChoosePacks
  <2>3. CASE ShareCents
    BY <2>3 DEF AnswersInv, ShareCents
  <2>4. CASE UNCHANGED vars
    BY <2>4 DEF AnswersInv, vars
  <2> QED
    BY <2>1, <2>2, <2>3, <2>4 DEF Next
<1> QED
  BY <1>1, <1>2, PTL DEF Spec

\* For all offers of a store and any need: the packs are the cheapest within the
\* overage ceiling and leave the least over, and beyond it only when nothing
\* within it is for sale; no store that has the units is passed over.
THEOREM PacksAreCheapestAlways == Spec => []PacksAreCheapest
<1>1. AnswersInv => PacksAreCheapest
  <2> SUFFICES ASSUME AnswersInv, Answered("packs")
               PROVE  PacksAreCheapest
    BY DEF PacksAreCheapest
  <2>1. answer = [packs |-> SelectPackages(asked.need, asked.offers)] /\ asked.kind = "packs"
    BY DEF AnswersInv, Answered
  <2>2. asked \in PackQuestions
    BY <2>1, QuestionsAssumption DEF AnswersInv
  <2>3. asked.need.quantity \in Nat \ {0} /\ IsOffers(asked.offers)
    BY <2>2, QuestionsAssumption
  <2>4. answer.packs = SelectPackages(asked.need, asked.offers)
    BY <2>1
  <2>5. IsCheapest(answer.packs, asked.need, asked.offers)
    BY <2>3, <2>4, BestOfPurchases
  <2> QED
    BY <2>5 DEF IsCheapest, PacksAreCheapest
<1> QED
  BY <1>1, AnswersAreGiven, PTL

\* Questions about carts are of matches, and the answers are results.
LEMMA CartAnswer ==
  ASSUME AnswersInv, Answered("cart")
  PROVE  /\ asked \in CartQuestions
         /\ answer = OptimizeAndConsolidate(asked.matches, asked.offers, Stores, asked.config)
         /\ IsMatches(asked.matches) /\ IsOffers(asked.offers) /\ IsConfig(asked.config)
         /\ IsStores(Stores) /\ Len(asked.matches) \in Nat
         /\ IsResult(answer.preliminary) /\ IsResult(answer.result)
         /\ answer.preliminary = OptimizeWithMatchCandidates(asked.matches, asked.offers, Stores,
                                                             asked.config)
<1>1. asked.kind = "cart" /\ answer # None
  BY DEF Answered
<1>2. answer = OptimizeAndConsolidate(asked.matches, asked.offers, Stores, asked.config)
  BY <1>1 DEF AnswersInv
<1>3. asked \in CartQuestions
  BY <1>1, QuestionsAssumption DEF AnswersInv
<1>4. IsMatches(asked.matches) /\ IsOffers(asked.offers) /\ IsConfig(asked.config)
  BY <1>3, QuestionsAssumption
<1>5. Len(asked.matches) \in Nat
  BY <1>4 DEF IsMatches
<1>6. /\ IsResult(answer.preliminary) /\ IsResult(answer.result)
      /\ answer.preliminary = OptimizeWithMatchCandidates(asked.matches, asked.offers, Stores,
                                                          asked.config)
  <2> DEFINE a == OptimizeAndConsolidate(asked.matches, asked.offers, Stores, asked.config)
  <2>1. /\ IsResult(a.preliminary) /\ IsResult(a.result)
        /\ a.preliminary = OptimizeWithMatchCandidates(asked.matches, asked.offers, Stores,
                                                       asked.config)
    BY <1>4, <1>5, StoresAssumption, ConsolidatedResult
  <2> HIDE DEF a
  <2>2. answer = a
    BY <1>2 DEF a
  <2> QED
    BY <2>1, <2>2
<1> QED
  BY <1>2, <1>3, <1>4, <1>5, <1>6, StoresAssumption

\* For all stores, offers, lists and wishes: all cents of a cart and of its second
\* trip are paid by the children, and shares are fair to the cent, although tax,
\* fees and items are each rounded by themselves.
THEOREM CentsAddUpAlways == Spec => []CentsAddUp
<1>1. AnswersInv => CentsAddUp
  <2> SUFFICES ASSUME AnswersInv PROVE CentsAddUp
    OBVIOUS
  <2>1. ASSUME Answered("share")
        PROVE  LET w == asked.weights
                   units == SumFunction(w)
                   away(c) == answer[c] * units - asked.total * w[c]
               IN  /\ SumFunction(answer) = (IF units = 0 THEN 0 ELSE asked.total)
                   /\ \A c \in DOMAIN answer : -units < away(c) /\ away(c) < units
                   /\ \A c, d \in DOMAIN answer : w[c] > w[d] => answer[c] >= answer[d]
    <3>1. asked.kind = "share" /\ answer # None
      BY <2>1 DEF Answered
    <3>2. answer = AllocateCents(asked.total, asked.weights)
      BY <3>1 DEF AnswersInv
    <3>3. asked \in ShareQuestions
      BY <3>1, QuestionsAssumption DEF AnswersInv
    <3>4. asked.total \in Nat /\ Weights(asked.weights)
      BY <3>3, QuestionsAssumption
    <3> QED
      BY <3>2, <3>4, SharesAreFair
  <2>2. ASSUME Answered("cart"), NEW r \in Carts
        PROVE  /\ SumFunction(PerEntryLandedCosts(r)) = r.landed
               /\ \A p \in Plans(r) :
                    p.landed = SumFunction([k \in DOMAIN p.orders |-> p.orders[k].landed])
    <3>1. IsResult(r)
      BY <2>2, CartAnswer DEF Carts
    <3>2. \A p \in Plans(r) : IsPlan(p)
      BY <3>1 DEF Plans, IsResult, IsCart, IsTrip
    <3>3. \A p \in Plans(r) :
            p.landed = SumFunction([k \in DOMAIN p.orders |-> p.orders[k].landed])
      BY <3>2 DEF IsPlan
    <3> QED
      BY <3>1, <3>3, EntriesPayAll
  <2> QED
    BY <2>1, <2>2 DEF CentsAddUp
<1> QED
  BY <1>1, AnswersAreGiven, PTL

\* For all stores, offers and lists: a custom cart keeps to the stores and the
\* number of stores that the parent allows, and no such stores have more of it.
THEOREM CustomLeavesOutTheFewestAlways == Spec => []CustomLeavesOutTheFewest
<1>1. AnswersInv => CustomLeavesOutTheFewest
  <2> SUFFICES ASSUME AnswersInv, Answered("cart"), asked.config.mode = "custom"
               PROVE  CustomLeavesOutTheFewest
    BY DEF CustomLeavesOutTheFewest
  <2> DEFINE r == answer.preliminary
             n == Len(asked.matches)
             eligible == EligibleStores(Stores, asked.config)
             sells == CandidateSelections(Needs(asked.matches), asked.offers, eligible,
                                          PreferredSkus(asked.matches))
             limit == asked.config.maxStores
             missing(S) == {i \in DOMAIN sells : S \cap DOMAIN sells[i] = {}}
             used == Range(StoreIds(r.plan))
  <2>1. /\ IsMatches(asked.matches) /\ IsOffers(asked.offers) /\ IsConfig(asked.config)
        /\ IsStores(Stores) /\ n \in Nat
        /\ r = OptimizeWithMatchCandidates(asked.matches, asked.offers, Stores, asked.config)
    BY CartAnswer
  <2>2. IsNeeds(Needs(asked.matches), n)
    BY <2>1, NeedsOfMatches
  <2>3. IsFewest(r, sells, n, eligible, limit)
    BY <2>1, <2>2, CandidatesAnswer
  <2>4. DOMAIN sells = 1..n
    <3>1. DOMAIN Needs(asked.matches) = 1..n
      BY <2>2 DEF IsNeeds
    <3> QED
      BY <3>1 DEF CandidateSelections
  <2>5. \A S : missing(S) = Missing(sells, n, S)
    BY <2>4 DEF Missing
  <2> HIDE DEF sells, eligible, r, missing, n
  <2>6. /\ used \subseteq eligible
        /\ limit # None => Cardinality(used) <= limit
        /\ \A S \in SUBSET eligible :
             (limit # None => Cardinality(S) <= limit)
               => Len(r.gaps) <= Cardinality(missing(S))
    BY <2>3, <2>5 DEF IsFewest
  <2> QED
    BY <2>6 DEF CustomLeavesOutTheFewest, sells, eligible, r, missing, n
<1> QED
  BY <1>1, AnswersAreGiven, PTL

\* A cart that was built is there.
NoneIsNoPlan == \A b, stores, config : BuildPlan(b, stores, config) # None

\* At most one order.
OneOrder(p) == Len(p.orders) \in {0, 1}

\* What is bought at one store is one order.
LEMMA OneStoreOrders ==
  ASSUME NEW n \in Nat, NEW b, NEW stores, NEW config, IsAssignments(b, n, stores, config),
         IsStores(stores), Wants(config), NEW s, \A i \in 1..n : b[i].sel.store = s
  PROVE  OneOrder(BuildPlan(b, stores, config))
<1> DEFINE U == UsedBy(b)
<1>1. DOMAIN b = 1..n
  BY DEF IsAssignments
<1>2. U \in SUBSET {s}
  BY <1>1 DEF UsedBy
<1>3. Len(BuildPlan(b, stores, config).orders) = Cardinality(U)
  BY StoresUsed
<1> HIDE DEF U
<1>4. IsFiniteSet({s}) /\ Cardinality({s}) = 1
  BY FS_Singleton
<1>5. IsFiniteSet(U) /\ Cardinality(U) <= 1
  BY <1>2, <1>4, FS_Subset
<1>6. Cardinality(U) \in Nat
  BY <1>5, FS_CardinalityType
<1> QED
  BY <1>3, <1>5, <1>6 DEF OneOrder

\* Everything at one store is one order, and can be bought when all is sold there.
LEMMA OneStoreIs ==
  ASSUME NEW n \in Nat, NEW needs, IsNeeds(needs, n), NEW stores, IsStores(stores), NEW config,
         Wants(config), NEW candidates, IsCandidates(candidates, n, stores, config), NEW s
  PROVE  LET p == SingleStorePlan(needs, candidates, s, stores, config)
         IN  /\ p # None => OneOrder(p)
             /\ NoneIsNoPlan /\ (\A i \in 1..n : s \in DOMAIN candidates[i]) => p # None
<1> DEFINE b == [i \in DOMAIN needs |-> [need |-> needs[i], sel |-> candidates[i][s]]]
           p == SingleStorePlan(needs, candidates, s, stores, config)
<1>0. DOMAIN needs = 1..n
  BY DEF IsNeeds
<1>1. CASE \E i \in DOMAIN needs : s \notin DOMAIN candidates[i]
  <2>1. p = None
    BY <1>1 DEF SingleStorePlan
  <2> QED
    BY <1>0, <1>1, <2>1
<1>2. CASE \A i \in DOMAIN needs : s \in DOMAIN candidates[i]
  <2>1. p = BuildPlan(b, stores, config)
    BY <1>2 DEF SingleStorePlan
  <2>2. DOMAIN needs = 1..n /\ \A i \in 1..n : IsNeed(needs[i])
    BY DEF IsNeeds
  <2>3. \A i \in 1..n : IsServed(candidates[i], stores, config)
    BY DEF IsCandidates
  <2>4. \A i \in 1..n : b[i].need = needs[i] /\ b[i].sel = candidates[i][s]
    BY <2>2
  <2>5. b = [i \in 1..n |-> b[i]]
    BY <2>2
  <2> HIDE DEF b, p
  <2>6. \A i \in 1..n : /\ IsNeed(b[i].need)
                        /\ \E c : /\ IsServed(c, stores, config)
                                  /\ \E t \in DOMAIN c : b[i].sel = c[t]
    BY <1>2, <2>2, <2>3, <2>4
  <2>7. IsAssignments(b, n, stores, config)
    BY <2>5, <2>6, BoughtIs
  <2>8. \A i \in 1..n : b[i].sel.store = s
    BY <1>2, <2>2, <2>3, <2>4 DEF IsServed
  <2>9. OneOrder(p)
    BY <2>1, <2>7, <2>8, OneStoreOrders
  <2>10. NoneIsNoPlan => p # None
    BY <2>1 DEF NoneIsNoPlan
  <2> QED
    BY <2>9, <2>10 DEF p
<1> QED
  BY <1>1, <1>2

\* What a store lacks, whether another has it, and one order for each trip.
LEMMA FirstStopHas ==
  ASSUME NEW n \in Nat, NEW needs, IsNeeds(needs, n), NEW stores, IsStores(stores), NEW config,
         Wants(config), NEW candidates, IsCandidates(candidates, n, stores, config),
         NEW eligible, IsEligible(eligible, stores, config), NEW s
  PROVE  LET r == FirstStop(needs, candidates, s, eligible, stores, config)
             L == {i \in 1..n : s \notin DOMAIN candidates[i]}
         IN  /\ L = {} <=> r.gaps = <<>>
             /\ L = {} => r.second = None
             /\ NoneIsNoPlan /\ L # {} =>
                  \A t \in eligible : (\A i \in L : t \in DOMAIN candidates[i]) => r.second # None
             /\ OneOrder(r.plan) /\ (r.second # None => OneOrder(r.second))
<1> DEFINE r == FirstStop(needs, candidates, s, eligible, stores, config)
           assigned == [i \in DOMAIN needs |->
                          [need |-> needs[i],
                           sel |-> IF s \in DOMAIN candidates[i] THEN candidates[i][s] ELSE None]]
           P == {i \in DOMAIN assigned : s \in DOMAIN candidates[i]}
           L == {i \in DOMAIN needs : s \notin DOMAIN candidates[i]}
           M == {i \in DOMAIN candidates : s \notin DOMAIN candidates[i]}
           b == Pick(assigned, InOrderOf(P))
           lacking == Pick(needs, InOrderOf(L))
           served == Pick(candidates, InOrderOf(L))
           q == InOrderOf(L)
           k == Cardinality(L)
           there(t) == SingleStorePlan(lacking, served, t, stores, config)
<1>1. DOMAIN needs = 1..n /\ DOMAIN candidates = 1..n /\ \A i \in 1..n : IsNeed(needs[i])
  BY DEF IsNeeds, IsCandidates
<1>2. /\ M = L /\ L \in SUBSET (1..n) /\ P \in SUBSET (1..n)
      /\ L = {i \in 1..n : s \notin DOMAIN candidates[i]}
  BY <1>1
<1>3. /\ r.plan = BuildPlan(b, stores, config)
      /\ r.gaps = Labels(lacking)
      /\ r.second = MinimumSecondTrip(lacking, Pick(candidates, InOrderOf(M)), eligible,
                                      stores, config)
  BY DEF FirstStop, At, InOrderOf
<1>4. /\ k \in Nat /\ IsNeeds(lacking, k) /\ IsCandidates(served, k, stores, config)
      /\ \A j \in 1..k : q[j] \in L /\ served[j] = candidates[q[j]]
  BY <1>2, PickedNeeds
<1>5. OneOrder(r.plan)
  <2> DEFINE m == Cardinality(P)
             at == InOrderOf(P)
  <2>1. /\ m \in Nat /\ b = [j \in 1..m |-> b[j]]
        /\ \A j \in 1..m : at[j] \in P /\ b[j] = assigned[at[j]]
    <3> HIDE DEF P, assigned, L, M, r
    <3> QED
      BY <1>2, PickedAt
  <2>2. \A i \in P : /\ i \in 1..n /\ assigned[i].need = needs[i]
                     /\ assigned[i].sel = candidates[i][s] /\ s \in DOMAIN candidates[i]
    BY <1>1
  <2>3. \A i \in 1..n : IsServed(candidates[i], stores, config)
    BY DEF IsCandidates
  <2> HIDE DEF m, at, b, P, assigned, r
  <2>4. \A j \in 1..m : /\ IsNeed(b[j].need)
                        /\ \E c : /\ IsServed(c, stores, config)
                                  /\ \E t \in DOMAIN c : b[j].sel = c[t]
    BY <1>1, <2>1, <2>2, <2>3
  <2>5. IsAssignments(b, m, stores, config)
    <3>1. m \in Nat /\ b = [j \in 1..m |-> b[j]]
      BY <2>1
    <3> QED
      BY <2>4, <3>1, BoughtIs
  <2>6. \A j \in 1..m : b[j].sel.store = s
    BY <2>1, <2>2, <2>3 DEF IsServed
  <2>7. m \in Nat
    BY <2>1
  <2>8. OneOrder(BuildPlan(b, stores, config))
    BY <2>5, <2>6, <2>7, OneStoreOrders
  <2> QED
    BY <1>3, <2>8
<1> HIDE DEF r, b, assigned, P, lacking, served, L, M, q, k
<1>6. r.second = MinimumSecondTrip(lacking, served, eligible, stores, config)
  BY <1>2, <1>3 DEF served
<1>7. IsFiniteSet(L) /\ (L = {} <=> k = 0)
  <2>1. IsFiniteSet(L)
    BY <1>2, PlacesAreFinite
  <2> QED
    BY <2>1, FS_EmptySet DEF k
<1>8. L = {} <=> r.gaps = <<>>
  <2>1. Labels(lacking) \in Seq(Int) /\ Len(Labels(lacking)) = k
    BY <1>4, LabelsAre
  <2> QED
    BY <1>3, <1>4, <1>7, <2>1
<1>9. lacking = <<>> <=> k = 0
  <2>1. DOMAIN lacking = 1..k /\ lacking = [i \in 1..k |-> lacking[i]]
    BY <1>4 DEF IsNeeds
  <2> QED
    BY <1>4, <2>1
<1>10. /\ r.second # None => lacking # <<>> /\ \E t \in eligible : r.second = there(t)
       /\ lacking # <<>> => \A t \in eligible : there(t) # None => r.second # None
  BY <1>4, <1>6, SecondTripIs
<1>11. \A t : /\ there(t) # None => OneOrder(there(t))
              /\ NoneIsNoPlan /\ (\A j \in 1..k : t \in DOMAIN served[j]) => there(t) # None
  BY <1>4, OneStoreIs
<1> HIDE DEF there
<1>12. r.second # None => OneOrder(r.second)
  BY <1>10, <1>11
<1>13. L = {} => r.second = None
  BY <1>7, <1>9, <1>10
<1>14. ASSUME NoneIsNoPlan, L # {}, NEW t \in eligible, \A i \in L : t \in DOMAIN candidates[i]
       PROVE  r.second # None
  <2>1. \A j \in 1..k : t \in DOMAIN served[j]
    BY <1>4, <1>14
  <2>2. there(t) # None
    BY <1>11, <1>14, <2>1
  <2> QED
    BY <1>7, <1>9, <1>10, <1>14, <2>2
<1> QED
  BY <1>2, <1>5, <1>8, <1>12, <1>13, <1>14 DEF r

\* Single-stop mode completes what one store, or two, could supply.
IsSingleStop(r, candidates, n, eligible) ==
  LET supplies(S) == \A i \in 1..n : S \cap DOMAIN candidates[i] # {}
  IN  /\ (\E s, t \in eligible : supplies({s, t})) => r.gaps = <<>> \/ r.second # None
      /\ (\E s \in eligible : supplies({s})) => r.gaps = <<>> /\ r.second = None
      /\ OneOrder(r.plan) /\ (r.second # None => OneOrder(r.second))

\* The best single stop completes what one store, or two, could supply.
LEMMA SingleStopCloses ==
  ASSUME NoneIsNoPlan, NEW n \in Nat, NEW needs, IsNeeds(needs, n), NEW stores, IsStores(stores),
         NEW config, Wants(config), NEW candidates, IsCandidates(candidates, n, stores, config),
         NEW eligible, IsEligible(eligible, stores, config)
  PROVE  IsSingleStop(BestSingleStop(needs, candidates, eligible, stores, config),
                      candidates, n, eligible)
<1> DEFINE best == BestSingleStop(needs, candidates, eligible, stores, config)
           useful == {s \in eligible : \E i \in DOMAIN needs : s \in DOMAIN candidates[i]}
           stop(s) == FirstStop(needs, candidates, s, eligible, stores, config)
           lacks(s) == {i \in 1..n : s \notin DOMAIN candidates[i]}
           supplies(S) == \A i \in 1..n : S \cap DOMAIN candidates[i] # {}
<1>1. /\ useful = {} => best = Nothing(needs)
      /\ useful # {} => \E s \in useful : best = stop(s)
      /\ \A s \in useful : NoWorse(best, stop(s))
  BY SingleStopIs
<1>2. ASSUME NEW s
      PROVE  /\ lacks(s) = {} <=> stop(s).gaps = <<>>
             /\ lacks(s) = {} => stop(s).second = None
             /\ lacks(s) # {} => \A t \in eligible :
                                    (\A i \in lacks(s) : t \in DOMAIN candidates[i])
                                                        => stop(s).second # None
             /\ OneOrder(stop(s).plan) /\ (stop(s).second # None => OneOrder(stop(s).second))
  BY FirstStopHas
<1>3. DOMAIN needs = 1..n
  BY DEF IsNeeds
<1> HIDE DEF best, stop
<1>4. ASSUME useful = {}
      PROVE  /\ best.second = None /\ OneOrder(best.plan)
             /\ (\E s, t \in eligible : supplies({s, t})) => best.gaps = <<>>
  <2>1. best = Nothing(needs)
    BY <1>1, <1>4
  <2>2. best.second = None /\ best.plan.orders = <<>> /\ best.gaps = Labels(needs)
    BY <2>1 DEF Nothing, EmptyPlan
  <2>3. ASSUME NEW s \in eligible, NEW t \in eligible, supplies({s, t}) PROVE best.gaps = <<>>
    <3>1. 1..n = {}
      <4>1. ASSUME NEW i \in 1..n PROVE FALSE
        <5>1. s \in DOMAIN candidates[i] \/ t \in DOMAIN candidates[i]
          BY <2>3
        <5>2. s \in useful \/ t \in useful
          BY <1>3, <5>1
        <5> QED
          BY <1>4, <5>2
      <4> QED
        BY <4>1
    <3>2. n = 0
      BY <3>1
    <3>3. Labels(needs) \in Seq(Int) /\ Len(Labels(needs)) = 0
      BY <3>2, LabelsAre
    <3> QED
      BY <2>2, <3>3
  <2>4. Len(<<>>) = 0
    OBVIOUS
  <2>5. OneOrder(best.plan)
    BY <2>2, <2>4 DEF OneOrder
  <2> QED
    BY <2>2, <2>3, <2>5
<1>5. ASSUME useful # {}
      PROVE  OneOrder(best.plan) /\ (best.second # None => OneOrder(best.second))
  BY <1>1, <1>2, <1>5
<1>6. ASSUME useful # {}, NEW s \in eligible, supplies({s})
      PROVE  best.gaps = <<>> /\ best.second = None
  <2>1. lacks(s) = {} /\ \A i \in 1..n : s \in DOMAIN candidates[i]
    BY <1>6
  <2>2. s \in useful
    BY <1>3, <1>6, <2>1
  <2>3. best.gaps = <<>>
    BY <1>1, <1>2, <2>1, <2>2 DEF NoWorse
  <2>4. PICK u \in useful : best = stop(u)
    BY <1>1, <1>6
  <2> QED
    BY <1>2, <2>3, <2>4
<1>7. ASSUME useful # {}, NEW s \in eligible, NEW t \in eligible, supplies({s, t}), s \in useful
      PROVE  best.gaps = <<>> \/ best.second # None
  <2>1. \A i \in lacks(s) : t \in DOMAIN candidates[i]
    BY <1>7
  <2>2. stop(s).gaps = <<>> \/ stop(s).second # None
    <3> HIDE DEF lacks
    <3> QED
      BY <1>2, <2>1
  <2> QED
    BY <1>1, <1>7, <2>2 DEF NoWorse
<1>8. ASSUME useful # {}, NEW s \in eligible, NEW t \in eligible, supplies({s, t})
      PROVE  best.gaps = <<>> \/ best.second # None
  <2>1. CASE s \in useful
    BY <1>7, <1>8, <2>1
  <2>2. CASE t \in useful
    <3>1. {t, s} = {s, t}
      OBVIOUS
    <3>2. supplies({t, s})
      BY <1>8, <3>1
    <3> QED
      BY <1>7, <1>8, <2>2, <3>2
  <2>3. CASE s \notin useful /\ t \notin useful
    <3>1. \A i \in 1..n : FALSE
      BY <1>3, <1>8, <2>3
    <3>2. useful = {}
      BY <1>3, <3>1
    <3> QED
      BY <1>8, <3>2
  <2> QED
    BY <2>1, <2>2, <2>3
<1>9. \A s \in eligible : supplies({s}) => supplies({s, s})
  OBVIOUS
<1>10. (\E s, t \in eligible : supplies({s, t})) => best.gaps = <<>> \/ best.second # None
  BY <1>4, <1>8
<1>11. (\E s \in eligible : supplies({s})) => best.gaps = <<>> /\ best.second = None
  BY <1>4, <1>6, <1>9
<1>12. OneOrder(best.plan) /\ (best.second # None => OneOrder(best.second))
  BY <1>4, <1>5
<1> QED
  BY <1>10, <1>11, <1>12 DEF IsSingleStop, best

\* Single-stop mode completes what one store, or two, could supply: when a cart
\* that was built is told from None, which a model value is and Python's None.
THEOREM SingleStopClosesTheGapsAlways ==
  ASSUME NoneIsNoPlan PROVE Spec => []SingleStopClosesTheGaps
<1>1. AnswersInv => SingleStopClosesTheGaps
  <2> SUFFICES ASSUME AnswersInv, Answered("cart"), asked.config.mode = "single_stop"
               PROVE  SingleStopClosesTheGaps
    BY DEF SingleStopClosesTheGaps
  <2> DEFINE r == answer.preliminary
             n == Len(asked.matches)
             needs == Needs(asked.matches)
             skus == PreferredSkus(asked.matches)
             config == asked.config
             eligible == EligibleStores(Stores, config)
             sells == CandidateSelections(needs, asked.offers, eligible, skus)
             supplies(S) == \A i \in DOMAIN sells : S \cap DOMAIN sells[i] # {}
             best == BestSingleStop(needs, sells, eligible, Stores, config)
             tradeoffs == FulfillmentTradeoffs(needs, asked.offers, Stores, config, skus)
  <2>1. /\ IsMatches(asked.matches) /\ IsOffers(asked.offers) /\ IsConfig(config)
        /\ IsStores(Stores) /\ n \in Nat /\ IsResult(r)
        /\ r = OptimizeWithMatchCandidates(asked.matches, asked.offers, Stores, config)
    BY CartAnswer
  <2>2. IsNeeds(needs, n)
    BY <2>1, NeedsOfMatches
  <2>3. config.mode # "custom"
    OBVIOUS
  <2>4. r = OptimizeCart(needs, asked.offers, Stores, config, skus)
    BY <2>1, <2>2, <2>3, CandidatesAnswer
  <2>5. r = ResultOf(CartOfMode(needs, sells, eligible, Stores, config), config.budget, tradeoffs)
    BY <2>4 DEF OptimizeCart
  <2>6. CartOfMode(needs, sells, eligible, Stores, config) = best
    BY DEF CartOfMode
  <2>7. DOMAIN sells = 1..n
    <3>1. DOMAIN needs = 1..n
      BY <2>2 DEF IsNeeds
    <3> QED
      BY <3>1 DEF CandidateSelections
  <2>8. IsEligible(eligible, Stores, config) /\ Wants(config)
    BY <2>1, EligibleIs DEF IsConfig
  <2> HIDE DEF needs, skus, eligible, tradeoffs, config, n
  <2>9. IsCandidates(sells, n, Stores, config)
    BY <2>1, <2>2, <2>8, CandidatesAre
  <2> HIDE DEF sells
  <2>10. IsCart(best)
    BY <2>1, <2>2, <2>8, <2>9, SingleStopIs
  <2>11. IsSingleStop(best, sells, n, eligible)
    BY <2>1, <2>2, <2>8, <2>9, SingleStopCloses
  <2> HIDE DEF best, r
  <2>12. r.plan = best.plan /\ r.gaps = best.gaps /\ r.second = best.second
    BY <2>5, <2>6, <2>10, ResultIs
  <2>13. /\ (\E s, t \in eligible : supplies({s, t})) => IsComplete(r)
         /\ (\E s \in eligible : supplies({s})) => r.gaps = <<>> /\ r.second = None
    <3>1. /\ (\E s, t \in eligible : supplies({s, t})) => best.gaps = <<>> \/ best.second # None
          /\ (\E s \in eligible : supplies({s})) => best.gaps = <<>> /\ best.second = None
      BY <2>7, <2>11 DEF IsSingleStop
    <3>2. r.gaps = <<>> \/ r.second # None => IsComplete(r)
      BY DEF IsComplete, UnfulfilledGaps
    <3> HIDE DEF supplies
    <3> QED
      BY <2>12, <3>1, <3>2
  <2>14. \A p \in Plans(r) : Len(p.orders) <= 1
    <3>1. OneOrder(best.plan) /\ (best.second # None => OneOrder(best.second))
      BY <2>11 DEF IsSingleStop
    <3>3. \A x \in {0, 1} : x <= 1
      OBVIOUS
    <3>2. \A p : OneOrder(p) => Len(p.orders) <= 1
      BY <3>3 DEF OneOrder
    <3> QED
      BY <2>12, <3>1, <3>2 DEF Plans
  <2> QED
    BY <2>13, <2>14
    DEF SingleStopClosesTheGaps, r, sells, needs, skus, config, eligible
<1> QED
  BY <1>1, AnswersAreGiven, PTL

-----------------------------------------------------------------------------
(* The units of the children *)

\* What two stretches have in common, in numbers.
LEMMA OverlapIs ==
  ASSUME NEW a \in Nat, NEW b \in Nat, NEW p \in Nat, NEW q \in Nat
  PROVE  Overlap(a, b, p, q) = (IF b <= q THEN b ELSE q) - (IF a >= p THEN a ELSE p)
<1>1. Min({b, q}) = IF b <= q THEN b ELSE q
  <2> DEFINE S == {b, q}
  <2>1. S \in SUBSET Nat /\ S # {}
    OBVIOUS
  <2> HIDE DEF S
  <2>2. Min(S) \in S /\ \A x \in S : Min(S) <= x
    BY <2>1, LeastIs
  <2> QED
    BY <2>2 DEF S
<1>2. Max({a, p}) = IF a >= p THEN a ELSE p
  <2> DEFINE S == {a, p}
  <2>1. S \in SUBSET Nat /\ S # {} /\ IsFiniteSet(S)
    <3>1. IsFiniteSet({a}) /\ IsFiniteSet({p}) /\ S = {a} \cup {p}
      BY FS_Singleton
    <3>2. IsFiniteSet({a} \cup {p})
      BY <3>1, FS_Union
    <3> QED
      BY <3>1, <3>2
  <2> HIDE DEF S
  <2>2. Max(S) \in S /\ \A x \in S : x <= Max(S)
    BY <2>1, LargestIs
  <2> QED
    BY <2>2 DEF S
<1> QED
  BY <1>1, <1>2 DEF Overlap

\* What two stretches have in common, or nothing.
Shared(a, b, p, q) == IF Overlap(a, b, p, q) > 0 THEN Overlap(a, b, p, q) ELSE 0

\* Up to one point, and from there on, is what is shared altogether; the whole
\* is shared with what is long enough.
LEMMA SharedIs ==
  ASSUME NEW a \in Nat, NEW b \in Nat, NEW p \in Nat, NEW q \in Nat, a <= b, p <= q
  PROVE  /\ Shared(a, b, p, q) \in Nat
         /\ Shared(0, b, p, q) = Shared(0, a, p, q) + Shared(a, b, p, q)
         /\ Shared(0, 0, p, q) = 0
         /\ q <= b => Shared(0, b, p, q) = q - p
<1>1. 0 \in Nat
  OBVIOUS
<1>2. Overlap(a, b, p, q) = (IF b <= q THEN b ELSE q) - (IF a >= p THEN a ELSE p)
  BY OverlapIs
<1>3. Overlap(0, b, p, q) = (IF b <= q THEN b ELSE q) - (IF 0 >= p THEN 0 ELSE p)
  BY <1>1, OverlapIs
<1>4. Overlap(0, a, p, q) = (IF a <= q THEN a ELSE q) - (IF 0 >= p THEN 0 ELSE p)
  BY <1>1, OverlapIs
<1>5. Overlap(0, 0, p, q) = (IF 0 <= q THEN 0 ELSE q) - (IF 0 >= p THEN 0 ELSE p)
  BY <1>1, OverlapIs
<1> QED
  BY <1>2, <1>3, <1>4, <1>5 DEF Shared

\* The units of the first lines of a selection.
UpTo(ls, j) == SumFunction([i \in 1..j |-> ls[i].units])

\* One line more.
LEMMA UpToIs ==
  ASSUME NEW m \in Nat, NEW ls, \A j \in 1..m : ls[j].units \in Nat
  PROVE  /\ \A j \in 0..m : UpTo(ls, j) \in Nat
         /\ UpTo(ls, 0) = 0
         /\ \A j \in 1..m : UpTo(ls, j) = UpTo(ls, j - 1) + ls[j].units
<1>1. \A j \in 0..m : UpTo(ls, j) = SumFunctionOnSet([i \in 1..j |-> ls[i].units], 1..j)
  BY DEF UpTo, SumFunction
<1>2. ASSUME NEW j \in 0..m PROVE UpTo(ls, j) \in Nat
  <2> DEFINE f == [i \in 1..j |-> ls[i].units]
             D == 1..j
  <2>1. IsFiniteSet(D) /\ \A x \in D : f[x] \in Nat
    BY FS_Interval
  <2> HIDE DEF f, D
  <2>2. SumFunctionOnSet(f, D) \in Nat
    BY <2>1, SumNat
  <2> QED
    BY <1>1, <2>2 DEF f, D
<1>3. UpTo(ls, 0) = 0
  <2> DEFINE f == [i \in 1..0 |-> ls[i].units]
  <2>1. SumFunctionOnSet(f, {}) = 0
    BY SumOfNone
  <2> HIDE DEF f
  <2>2. 0 \in 0..m /\ 1..0 = {}
    OBVIOUS
  <2>3. UpTo(ls, 0) = SumFunctionOnSet(f, 1..0)
    BY <1>1, <2>2 DEF f
  <2> QED
    BY <2>1, <2>2, <2>3
<1>4. ASSUME NEW j \in 1..m PROVE UpTo(ls, j) = UpTo(ls, j - 1) + ls[j].units
  <2> DEFINE f == [i \in 1..j |-> ls[i].units]
             g == [i \in 1..(j - 1) |-> ls[i].units]
  <2>1. /\ \A i \in 1..j : f[i] \in Nat
        /\ \A i \in 1..(j - 1) : g[i] = f[i]
        /\ f[j] = ls[j].units
    OBVIOUS
  <2>2. UpTo(ls, j) = SumFunctionOnSet(f, 1..j) /\ UpTo(ls, j - 1) = SumFunctionOnSet(g, 1..(j - 1))
    BY <1>1
  <2> HIDE DEF f, g
  <2>3. SumFunctionOnSet(f, 1..j) = SumFunctionOnSet(g, 1..(j - 1)) + f[j]
    BY <2>1, SumToNext
  <2> QED
    BY <2>1, <2>2, <2>3
<1> QED
  BY <1>2, <1>3, <1>4

\* Children in front of a child need no more than all but that child.
LEMMA NeedsInFront ==
  ASSUME NEW w, Weights(w), NEW c \in DOMAIN w
  PROVE  /\ NeededBefore(w, c) \in Nat /\ w[c] \in Nat
         /\ NeededBefore(w, c) + w[c] <= SumFunction(w)
<1> DEFINE D == DOMAIN w
           B == {d \in D : d < c}
<1>1. IsFiniteSet(D) /\ \A d \in D : d \in Int /\ w[d] \in Nat
  BY DEF Weights
<1>2. B \in SUBSET D /\ c \in D \ B
  BY <1>1
<1>3. NeededBefore(w, c) = SumFunctionOnSet(w, B) /\ SumFunction(w) = SumFunctionOnSet(w, D)
  BY DEF NeededBefore, SumFunction
<1> HIDE DEF D, B
<1>4. SumFunctionOnSet(w, B \cup {c}) = w[c] + SumFunctionOnSet(w, B)
  <2>1. \A x \in D : w[x] \in Int
    BY <1>1
  <2> QED
    BY <1>1, <1>2, <2>1, SumAdding
<1>5. SumFunctionOnSet(w, B \cup {c}) <= SumFunctionOnSet(w, D)
  <2> DEFINE P == B \cup {c}
  <2>1. P \in SUBSET D
    BY <1>2
  <2> HIDE DEF P
  <2>2. SumFunctionOnSet(w, P) <= SumFunctionOnSet(w, D)
    BY <1>1, <2>1, SumOfPart
  <2> QED
    BY <2>2 DEF P
<1>6. SumFunctionOnSet(w, B) \in Nat
  <2>1. IsFiniteSet(B) /\ \A x \in B : w[x] \in Nat
    BY <1>1, <1>2, FS_Subset
  <2> QED
    BY <2>1, SumNat
<1>7. w[c] \in Nat
  BY <1>1, <1>2
<1> QED
  BY <1>3, <1>4, <1>5, <1>6, <1>7

\* The children's parts of the lines are what the children need, when the
\* lines have enough.
LEMMA UnitsShared ==
  ASSUME NEW w, Weights(w), w \in [DOMAIN w -> Nat \ {0}],
         NEW m \in Nat, NEW ls, DOMAIN ls = 1..m, \A j \in 1..m : ls[j].units \in Nat,
         SumFunction(w) <= UpTo(ls, m)
  PROVE  SumByChild(LineUnitAllocations(w, ls)) = w
<1> DEFINE D == DOMAIN w
           J == 1..m
           x(c, j) == Overlap(UpTo(ls, j - 1), UpTo(ls, j), NeededBefore(w, c),
                              NeededBefore(w, c) + w[c])
           all(j) == [c \in D |-> x(c, j)]
           given == LineUnitAllocations(w, ls)
           at(c) == {j \in J : c \in DOMAIN given[j]}
           part(c) == [j \in at(c) |-> given[j][c]]
<1>1. given = [j \in J |-> Positive(all(j))]
  BY DEF LineUnitAllocations, UpTo
<1>2. ASSUME NEW j \in J
      PROVE  /\ DOMAIN given[j] = {c \in D : x(c, j) > 0}
             /\ \A c \in DOMAIN given[j] : given[j][c] = x(c, j)
  <2> DEFINE a == all(j)
  <2>1. Positive(a) = [c \in Paying(a) |-> a[c]]
    BY PositiveIs
  <2>2. DOMAIN a = D /\ \A c \in D : a[c] = x(c, j)
    OBVIOUS
  <2>3. given[j] = Positive(a)
    BY <1>1
  <2>4. Paying(a) = {c \in D : x(c, j) > 0}
    BY <2>2 DEF Paying
  <2> HIDE DEF a, x, D, given
  <2> QED
    BY <2>1, <2>2, <2>3, <2>4
<1>3. ASSUME NEW c \in D
      PROVE  SumFunction(part(c)) = w[c] /\ w[c] # 0 /\ at(c) # {}
  <2> DEFINE p == NeededBefore(w, c)
             q == p + w[c]
             ov == [j \in J |-> Shared(UpTo(ls, j - 1), UpTo(ls, j), p, q)]
             A == at(c)
             g == part(c)
             H == {i \in 0..m : SumFunctionOnSet([j \in 1..i |-> ov[j]], 1..i)
                                  = Shared(0, UpTo(ls, i), p, q)}
  <2>1. p \in Nat /\ q \in Nat /\ p <= q /\ q <= SumFunction(w) /\ w[c] \in Nat \ {0} /\ q - p = w[c]
    BY NeedsInFront
  <2>2. /\ \A j \in 0..m : UpTo(ls, j) \in Nat
        /\ UpTo(ls, 0) = 0
        /\ \A j \in 1..m : UpTo(ls, j) = UpTo(ls, j - 1) + ls[j].units
    BY UpToIs
  <2>3. ASSUME NEW j \in J
        PROVE  /\ ov[j] \in Nat
               /\ Shared(0, UpTo(ls, j), p, q) = Shared(0, UpTo(ls, j - 1), p, q) + ov[j]
    <3> DEFINE a == UpTo(ls, j - 1)
               b == UpTo(ls, j)
    <3>1. j \in 1..m /\ j - 1 \in 0..m /\ j \in 0..m /\ ls[j].units \in Nat
      OBVIOUS
    <3>2. a \in Nat /\ b \in Nat /\ b = a + ls[j].units
      BY <2>2, <3>1
    <3>3. ov[j] = Shared(a, b, p, q)
      OBVIOUS
    <3> HIDE DEF a, b, p, q, ov
    <3>4. a <= b
      BY <3>1, <3>2
    <3>5. Shared(a, b, p, q) \in Nat /\ Shared(0, b, p, q) = Shared(0, a, p, q) + Shared(a, b, p, q)
      BY <2>1, <3>2, <3>4, SharedIs
    <3> QED
      BY <3>3, <3>5 DEF a, b
  <2>4. 0 \in H
    <3> DEFINE f == [j \in 1..0 |-> ov[j]]
    <3>1. SumFunctionOnSet(f, {}) = 0
      BY SumOfNone
    <3>2. 1..0 = {} /\ 0 \in Nat /\ 0 <= 0
      OBVIOUS
    <3> HIDE DEF f, p, q
    <3>3. Shared(0, 0, p, q) = 0
      BY <2>1, <3>2, SharedIs
    <3>4. SumFunctionOnSet(f, 1..0) = Shared(0, UpTo(ls, 0), p, q)
      BY <2>2, <3>1, <3>2, <3>3
    <3> QED
      BY <3>4 DEF f
  <2>5. ASSUME NEW i \in 1..m, i - 1 \in H PROVE i \in H
    <3> DEFINE f == [j \in 1..i |-> ov[j]]
               h == [j \in 1..(i - 1) |-> ov[j]]
    <3>1. i \in J /\ 1..i \in SUBSET J
      OBVIOUS
    <3>2. f[i] = ov[i] /\ \A j \in 1..i : f[j] \in Nat
      <4> HIDE DEF ov
      <4> QED
        BY <2>3, <3>1
    <3>3. \A j \in 1..(i - 1) : h[j] = f[j]
      OBVIOUS
    <3>4. SumFunctionOnSet(h, 1..(i - 1)) = Shared(0, UpTo(ls, i - 1), p, q)
      BY <2>5
    <3> HIDE DEF f, h, ov, p, q
    <3>5. SumFunctionOnSet(f, 1..i) = SumFunctionOnSet(h, 1..(i - 1)) + f[i]
      BY <3>2, <3>3, SumToNext
    <3>6. SumFunctionOnSet(f, 1..i) = Shared(0, UpTo(ls, i), p, q)
      BY <2>3, <3>1, <3>2, <3>4, <3>5
    <3> QED
      BY <3>6 DEF f
  <2>6. m \in H
    <3>1. \A i \in 1..m : i - 1 \in H => i \in H
      BY <2>5
    <3> HIDE DEF H
    <3>2. \A i \in 0..m : i \in H
      BY <2>4, <3>1, StepByStep
    <3> QED
      BY <3>2
  <2>7. SumFunctionOnSet([j \in J |-> ov[j]], J) = Shared(0, UpTo(ls, m), p, q)
    BY <2>6
  <2>8. Shared(0, UpTo(ls, m), p, q) = w[c]
    <3> DEFINE b == UpTo(ls, m)
    <3>1. b \in Nat /\ m \in 0..m
      BY <2>2
    <3> HIDE DEF p, q
    <3>2. SumFunction(w) \in Nat
      BY WeightsAddUp
    <3>3. q <= b
      BY <2>1, <3>1, <3>2
    <3> HIDE DEF b
    <3>4. 0 \in Nat /\ 0 <= b
      BY <3>1
    <3>5. q <= b => Shared(0, b, p, q) = q - p
      BY <2>1, <3>1, <3>4, SharedIs
    <3> QED
      BY <2>1, <3>3, <3>5 DEF b
  <2>9. A \in SUBSET J /\ (\A j \in A : g[j] = ov[j]) /\ \A j \in J \ A : ov[j] = 0
    <3>1. \A j \in J : j \in A <=> x(c, j) > 0
      BY <1>2
    <3>2. \A j \in A : g[j] = x(c, j)
      BY <1>2
    <3>3. \A j \in J : ov[j] = IF x(c, j) > 0 THEN x(c, j) ELSE 0
      BY DEF Shared
    <3> HIDE DEF ov, g, x
    <3> QED
      BY <3>1, <3>2, <3>3
  <2>10. IsFiniteSet(J) /\ IsFiniteSet(A)
    <3>1. IsFiniteSet(J)
      BY FS_Interval
    <3> QED
      BY <2>9, <3>1, FS_Subset
  <2>11. [j \in J |-> ov[j]] = ov /\ SumFunction(g) = SumFunctionOnSet(g, A)
    BY DEF SumFunction
  <2> HIDE DEF A, g, ov, J
  <2>12. SumFunctionOnSet(ov, J) = SumFunctionOnSet(ov, A)
    <3>1. \A j \in J : ov[j] \in Int
      BY <2>3
    <3> QED
      BY <2>9, <2>10, <3>1, SumOfTheRest
  <2>13. SumFunctionOnSet(g, A) = SumFunctionOnSet(ov, A)
    BY <2>9, <2>10, SumSame
  <2>14. SumFunction(g) = w[c]
    BY <2>7, <2>8, <2>11, <2>12, <2>13
  <2>15. A # {}
    BY <2>1, <2>11, <2>14, SumOfNone
  <2> QED
    BY <2>1, <2>14, <2>15 DEF g, A
<1>4. DOMAIN given = J
  BY <1>1
<1>5. UNION {DOMAIN given[k] : k \in J} = D
  <2>1. \A j \in J : DOMAIN given[j] \in SUBSET D
    <3> HIDE DEF x
    <3> QED
      BY <1>2
  <2>2. \A c \in D : \E j \in J : c \in DOMAIN given[j]
    BY <1>3
  <2> HIDE DEF given, x, J
  <2> QED
    BY <2>1, <2>2
<1>6. SumByChild(given) = [c \in D |-> SumFunction(part(c))]
  <2>1. SumByChild(given) = [c \in UNION {DOMAIN given[k] : k \in DOMAIN given} |->
                               SumFunction([k \in {k \in DOMAIN given : c \in DOMAIN given[k]} |->
                                              given[k][c]])]
    BY DEF SumByChild
  <2> HIDE DEF given, J, D
  <2> QED
    BY <1>4, <1>5, <2>1
<1> HIDE DEF given, part, D
<1>7. SumByChild(given) = [c \in D |-> w[c]]
  BY <1>3, <1>6
<1> QED
  BY <1>7 DEF D, given
\* The lines of so many packs have the units of the packs.
LEMMA PackUnitsAre ==
  ASSUME NEW n \in Nat, NEW q, IsSupply(q, n), NEW c \in Counts(q, n),
         NEW lines, lines = At([i \in DOMAIN q |-> SelectedLine(q[i], c[i])], LAMBDA i : c[i] > 0)
  PROVE  SumFunctionOnSet([j \in DOMAIN lines |-> lines[j].units], DOMAIN lines)
           = UnitsTo(q, c, n)
<1> DEFINE D == 1..n
           S == {i \in D : c[i] > 0}
           seq == [i \in D |-> SelectedLine(q[i], c[i])]
           f == [j \in DOMAIN lines |-> lines[j].units]
           u == [j \in DOMAIN q |-> c[j] * q[j].size]
<1>1. DOMAIN q = D /\ IsFiniteSet(D) /\ n \in 0..n
  BY FS_Interval DEF IsSupply
<1>2. lines = Pick(seq, InOrderOf(S))
  <2>1. [i \in DOMAIN q |-> SelectedLine(q[i], c[i])] = seq /\ DOMAIN seq = D
    BY <1>1
  <2> HIDE DEF seq
  <2> QED
    BY <2>1 DEF At, InOrderOf
<1>3. \A i \in D : c[i] \in Nat /\ c[i] * q[i].size \in Nat /\ q[i].size \in Nat \ {0}
  BY <1>1, CountsAre DEF IsSupply
<1>4. \A i \in D : seq[i].units = u[i] /\ u[i] \in Nat
  BY <1>1, <1>3 DEF SelectedLine
<1>5. S \in SUBSET (1..n)
  OBVIOUS
<1> HIDE DEF seq, f, u, S
<1>6. /\ Cardinality(S) \in Nat /\ DOMAIN lines = 1..Cardinality(S)
      /\ \A k \in 1..Cardinality(S) : InOrderOf(S)[k] \in S /\ lines[k] = seq[InOrderOf(S)[k]]
  <2> DEFINE p == Pick(seq, InOrderOf(S))
  <2>1. /\ Cardinality(S) \in Nat /\ DOMAIN p = 1..Cardinality(S)
        /\ \A k \in 1..Cardinality(S) : InOrderOf(S)[k] \in S /\ p[k] = seq[InOrderOf(S)[k]]
    BY <1>5, PickedAt
  <2> HIDE DEF p
  <2> QED
    BY <1>2, <2>1 DEF p
<1>7. \A k \in 1..Cardinality(S) : f[k] = u[InOrderOf(S)[k]]
  BY <1>4, <1>5, <1>6 DEF f
<1>8. SumFunctionOnSet(f, 1..Cardinality(S)) = SumFunctionOnSet(u, S)
  <2>1. \A i \in S : u[i] \in Nat
    BY <1>4, <1>5
  <2> QED
    BY <1>5, <1>7, <2>1, SumPicked
<1>9. \A i \in D \ S : u[i] = 0
  <2> SUFFICES ASSUME NEW i \in D \ S PROVE u[i] = 0
    OBVIOUS
  <2>1. c[i] = 0
    BY <1>3 DEF S
  <2>2. 0 * q[i].size = 0
    BY <1>3
  <2> QED
    BY <1>1, <2>1, <2>2 DEF u
<1>10. SumFunctionOnSet(u, D) = SumFunctionOnSet(u, S)
  <2>1. \A i \in D : u[i] \in Int
    BY <1>4
  <2> HIDE DEF D
  <2>2. S \in SUBSET D
    BY <1>5 DEF D
  <2> QED
    BY <1>1, <1>9, <2>1, <2>2, SumOfTheRest
<1>11. UnitsTo(q, c, n) = SumFunctionOnSet(u, D)
  BY DEF UnitsTo, u
<1> QED
  BY <1>6, <1>8, <1>10, <1>11 DEF f

\* A selection with at least the units of a need.
Covers(sel, need) ==
  need.quantity <= SumFunctionOnSet([j \in DOMAIN sel.lines |-> sel.lines[j].units],
                                    DOMAIN sel.lines)

\* What a store sells for a need is enough of it.
LEMMA SelectionCovers ==
  ASSUME None \notin Int, NEW need, need.quantity \in Nat \ {0}, NEW offers, IsOffers(offers),
         NEW sel, sel = SelectPackages(need, offers), sel # None
  PROVE  Covers(sel, need)
<1> DEFINE q == MatchingOffers(need, offers)
           n == Cardinality(ForSale(need, offers))
           quantity == need.quantity
<1>1. n \in Nat /\ IsSupply(q, n) /\ q = [j \in 1..n |-> q[j]]
  BY MatchingSupply
<1>2. sel = SelectFrom(q, quantity)
  BY DEF SelectPackages
<1> HIDE DEF q, n
<1> DEFINE largest == Max({q[i].size : i \in DOMAIN q})
<1>3. q # <<>> => largest \in Nat \ {0}
  <2> SUFFICES ASSUME q # <<>> PROVE largest \in Nat \ {0}
    OBVIOUS
  <2> DEFINE D == 1..n
             size == [i \in D |-> q[i].size]
             T == {size[i] : i \in D}
  <2>1. DOMAIN q = D /\ IsFiniteSet(D) /\ \A i \in D : q[i].size \in Nat \ {0}
    <3>1. n \in Int
      BY <1>1
    <3>2. IsFiniteSet(1..n)
      BY <3>1, FS_Interval
    <3>3. DOMAIN q = 1..n /\ \A i \in 1..n : q[i].size \in Nat \ {0}
      BY <1>1 DEF IsSupply
    <3> QED
      BY <3>2, <3>3
  <2>2. {q[i].size : i \in DOMAIN q} = T
    <3>1. \A i \in D : size[i] = q[i].size
      OBVIOUS
    <3> HIDE DEF size, D
    <3> QED
      BY <2>1, <3>1
  <2>3. D # {}
    <3>1. ASSUME n = 0 PROVE q = <<>>
      <4>1. 1..n = {}
        BY <3>1
      <4> QED
        BY <1>1, <4>1
    <3> QED
      BY <1>1, <3>1
  <2>4. T \in SUBSET (Nat \ {0}) /\ T # {}
    BY <2>1, <2>3
  <2>5. IsFiniteSet(T)
    <3> HIDE DEF size, D
    <3> QED
      BY <2>1, ImageIsFinite
  <2> HIDE DEF T
  <2>6. Max(T) \in T
    BY <2>4, <2>5, LargestIs
  <2> QED
    BY <2>2, <2>4, <2>6
<1>4. PICK m \in Nat, e \in BOOLEAN : sel = SelectionUpTo(m, q, quantity, e)
  <2>1. AllowedOverage(quantity) \in Nat
    BY CeilingIs
  <2>2. quantity + AllowedOverage(quantity) \in Nat
    BY <2>1
  <2>3. q # <<>> => quantity + largest - 1 \in Nat
    <3> HIDE DEF largest
    <3> QED
      BY <1>3
  <2> HIDE DEF quantity
  <2> QED
    BY <1>2, <2>2, <2>3 DEF SelectFrom, OrElse
<1> HIDE DEF quantity
<1>5. IsBestOf(sel, q, n, quantity, m)
  <2>1. quantity \in Nat \ {0}
    BY DEF quantity
  <2>2. InReach(q, n, quantity, m) = {} => SelectionUpTo(m, q, quantity, e) = None
    BY <1>1, <2>1, BestInReach
  <2>3. InReach(q, n, quantity, m) # {} => IsBestOf(SelectionUpTo(m, q, quantity, e), q, n, quantity, m)
    BY <1>1, <2>1, BestInReach
  <2> QED
    BY <1>4, <2>2, <2>3
<1>6. PICK c \in InReach(q, n, quantity, m) :
        sel.lines = At([i \in DOMAIN q |-> SelectedLine(q[i], c[i])], LAMBDA i : c[i] > 0)
  BY <1>5 DEF IsBestOf
<1>7. c \in Counts(q, n) /\ quantity <= UnitsTo(q, c, n)
  BY DEF InReach
<1> DEFINE lines == sel.lines
<1>8. lines = At([i \in DOMAIN q |-> SelectedLine(q[i], c[i])], LAMBDA i : c[i] > 0)
  BY <1>6
<1> HIDE DEF lines
<1>9. SumFunctionOnSet([j \in DOMAIN lines |-> lines[j].units], DOMAIN lines) = UnitsTo(q, c, n)
  BY <1>1, <1>7, <1>8, PackUnitsAre
<1> QED
  BY <1>7, <1>9 DEF Covers, lines, quantity

\* Added up by child, it does not matter in which places the parts are.
LEMMA SumByChildMoved ==
  ASSUME NEW a, NEW b, IsFiniteSet(DOMAIN a), IsFiniteSet(DOMAIN b),
         \A k \in DOMAIN b : Weights(b[k]),
         NEW m \in [DOMAIN a -> DOMAIN b], \A j, k \in DOMAIN a : m[j] = m[k] => j = k,
         \A k \in DOMAIN b : \E j \in DOMAIN a : m[j] = k,
         \A j \in DOMAIN a : a[j] = b[m[j]]
  PROVE  SumByChild(a) = SumByChild(b)
<1> DEFINE A == DOMAIN a
           B == DOMAIN b
           C == UNION {DOMAIN b[k] : k \in B}
           atA(c) == {j \in A : c \in DOMAIN a[j]}
           atB(c) == {k \in B : c \in DOMAIN b[k]}
           partA(c) == [j \in atA(c) |-> a[j][c]]
           partB(c) == [k \in atB(c) |-> b[k][c]]
<1>1. UNION {DOMAIN a[k] : k \in A} = C
  <2>1. \A j \in A : DOMAIN a[j] = DOMAIN b[m[j]] /\ m[j] \in B
    OBVIOUS
  <2>2. \A k \in B : \E j \in A : DOMAIN a[j] = DOMAIN b[k]
    BY <2>1
  <2> QED
    BY <2>1, <2>2
<1>2. /\ SumByChild(a) = [c \in C |-> SumFunction(partA(c))]
      /\ SumByChild(b) = [c \in C |-> SumFunction(partB(c))]
  <2>1. SumByChild(a) = [c \in UNION {DOMAIN a[k] : k \in A} |-> SumFunction(partA(c))]
    BY DEF SumByChild
  <2>2. SumByChild(b) = [c \in C |-> SumFunction(partB(c))]
    BY DEF SumByChild
  <2> HIDE DEF C, partA, partB
  <2> QED
    BY <1>1, <2>1, <2>2
<1>3. ASSUME NEW c \in C PROVE SumFunction(partA(c)) = SumFunction(partB(c))
  <2> DEFINE S == atA(c)
             T == atB(c)
             f == partA(c)
             g == partB(c)
             h == [j \in S |-> m[j]]
  <2>1. S \in SUBSET A /\ T \in SUBSET B /\ \A j \in S : m[j] \in T
    OBVIOUS
  <2>2. IsFiniteSet(S) /\ IsFiniteSet(T)
    <3> HIDE DEF S, T
    <3> QED
      BY <2>1, FS_Subset
  <2>3. \A k \in T : g[k] \in Nat
    BY DEF Weights
  <2>4. h \in [S -> T] /\ \A x, y \in S : h[x] = h[y] => x = y
    BY <2>1
  <2>5. \A y \in T : \E x \in S : h[x] = y
    <3> SUFFICES ASSUME NEW y \in T PROVE \E x \in S : h[x] = y
      OBVIOUS
    <3>1. PICK j \in A : m[j] = y
      OBVIOUS
    <3>2. j \in S
      BY <3>1
    <3> QED
      BY <3>1, <3>2
  <2>6. \A x \in S : f[x] = g[h[x]]
    BY <2>1
  <2>7. SumFunction(f) = SumFunctionOnSet(f, S) /\ SumFunction(g) = SumFunctionOnSet(g, T)
    BY DEF SumFunction
  <2> HIDE DEF S, T, f, g, h
  <2>8. SumFunctionOnSet(f, S) = SumFunctionOnSet(g, T)
    BY <2>2, <2>3, <2>4, <2>5, <2>6, SumThrough
  <2> QED
    BY <2>7, <2>8 DEF f, g
<1> HIDE DEF C, partA, partB
<1> QED
  BY <1>2, <1>3

\* The places of the lines for some sources, and the units they give.
ServedAt(lines, sources) == {k \in DOMAIN lines : lines[k].sources = sources}
UnitsFor(lines, sources) == [k \in ServedAt(lines, sources) |-> lines[k].allocatedTo]

\* Lines that give the children of some needs what they need, and nothing else.
LinesServe(lines, M) ==
  /\ \A k \in DOMAIN lines : /\ Weights(lines[k].allocatedTo)
                             /\ \E m \in M : lines[k].sources = m.sources
  /\ \A m \in M : SumByChild(UnitsFor(lines, m.sources)) = m.allocatedTo

\* Needs of other lines.
OfOthers(M, L) == \A m \in M, l \in L : m.sources # l.sources

\* No lines give nobody anything.
LEMMA NoLinesServe == LinesServe(<<>>, {})
BY DEF LinesServe

\* One after the other, lines give what each gives.
LEMMA JoinedServe ==
  ASSUME NEW X, NEW s \in Seq(X), NEW t \in Seq(X), NEW M, NEW L,
         LinesServe(s, M), LinesServe(t, L), OfOthers(M, L)
  PROVE  LinesServe(s \o t, M \cup L)
<1> DEFINE u == s \o t
           n == Len(s)
           k == Len(t)
<1>1. /\ n \in Nat /\ k \in Nat /\ DOMAIN s = 1..n /\ DOMAIN t = 1..k /\ DOMAIN u = 1..(n + k)
      /\ \A i \in 1..n : u[i] = s[i]
      /\ \A i \in (n + 1)..(n + k) : u[i] = t[i - n]
  <2>1. n \in Nat /\ k \in Nat /\ DOMAIN s = 1..n /\ DOMAIN t = 1..k
    OBVIOUS
  <2>2. u \in Seq(X) /\ Len(u) = n + k
    BY JoinedIs
  <2>3. DOMAIN u = 1..(n + k)
    <3> HIDE DEF u, n, k
    <3> QED
      BY <2>2
  <2>4. /\ \A i \in 1..n : u[i] = s[i]
        /\ \A i \in (n + 1)..(n + k) : u[i] = t[i - n]
    BY JoinedIs
  <2> QED
    BY <2>1, <2>3, <2>4
<1> HIDE DEF u, n, k
<1>2. \A i \in DOMAIN u : \/ i \in DOMAIN s /\ u[i] = s[i]
                          \/ i - n \in DOMAIN t /\ u[i] = t[i - n] /\ i \notin DOMAIN s
  BY <1>1
<1>3. (\A i \in DOMAIN s : i \in DOMAIN u /\ u[i] = s[i])
      /\ \A i \in DOMAIN t : i + n \in DOMAIN u /\ u[i + n] = t[i]
  <2>1. \A i \in DOMAIN t : i + n \in (n + 1)..(n + k) /\ i + n \in 1..(n + k) /\ (i + n) - n = i
    BY <1>1
  <2>2. \A i \in DOMAIN s : i \in 1..n /\ i \in 1..(n + k)
    BY <1>1
  <2> QED
    BY <1>1, <2>1, <2>2
<1>4. ASSUME NEW i \in DOMAIN u
      PROVE  Weights(u[i].allocatedTo) /\ \E m \in M \cup L : u[i].sources = m.sources
  BY <1>2 DEF LinesServe
<1>5. ASSUME NEW m \in M PROVE SumByChild(UnitsFor(u, m.sources)) = m.allocatedTo
  <2> DEFINE P == ServedAt(u, m.sources)
             Q == ServedAt(s, m.sources)
  <2>1. \A i \in P : i \in DOMAIN s
    <3> SUFFICES ASSUME NEW i \in P, i \notin DOMAIN s PROVE FALSE
      OBVIOUS
    <3>1. i \in DOMAIN u /\ u[i].sources = m.sources
      BY DEF ServedAt
    <3>2. i - n \in DOMAIN t /\ u[i] = t[i - n]
      BY <1>2, <3>1
    <3>3. \E l \in L : t[i - n].sources = l.sources
      BY <3>2 DEF LinesServe
    <3> QED
      BY <3>1, <3>2, <3>3 DEF OfOthers
  <2>2. P = Q
    <3>1. \A i \in P : i \in Q
      BY <1>3, <2>1 DEF ServedAt
    <3>2. \A i \in Q : i \in P
      BY <1>3 DEF ServedAt
    <3> QED
      BY <3>1, <3>2
  <2>3. \A i \in Q : u[i] = s[i]
    BY <1>3 DEF ServedAt
  <2>4. UnitsFor(u, m.sources) = UnitsFor(s, m.sources)
    BY <2>2, <2>3 DEF UnitsFor
  <2> QED
    BY <2>4 DEF LinesServe
<1>6. ASSUME NEW m \in L PROVE SumByChild(UnitsFor(u, m.sources)) = m.allocatedTo
  <2> DEFINE P == ServedAt(u, m.sources)
             Q == ServedAt(t, m.sources)
             a == UnitsFor(u, m.sources)
             b == UnitsFor(t, m.sources)
             h == [i \in P |-> i - n]
  <2>1. \A i \in P : i \in 1..(n + k) /\ i - n \in Q /\ u[i] = t[i - n]
    <3> SUFFICES ASSUME NEW i \in P
                 PROVE  i \in 1..(n + k) /\ i - n \in Q /\ u[i] = t[i - n]
      OBVIOUS
    <3>1. i \in DOMAIN u /\ u[i].sources = m.sources
      BY DEF ServedAt
    <3>2. i \notin DOMAIN s
      <4>1. ASSUME i \in DOMAIN s PROVE FALSE
        <5>1. \E l \in M : s[i].sources = l.sources
          BY <4>1 DEF LinesServe
        <5>2. s[i].sources = m.sources
          BY <1>3, <3>1, <4>1
        <5> QED
          BY <5>1, <5>2 DEF OfOthers
      <4> QED
        BY <4>1
    <3>3. i - n \in DOMAIN t /\ u[i] = t[i - n]
      BY <1>2, <3>1, <3>2
    <3> QED
      BY <1>1, <3>1, <3>3 DEF ServedAt
  <2>2. DOMAIN a = P /\ DOMAIN b = Q /\ (\A i \in P : a[i] = u[i].allocatedTo)
        /\ \A i \in Q : b[i] = t[i].allocatedTo
    BY DEF UnitsFor
  <2>3. P \in SUBSET (1..(n + k)) /\ Q \in SUBSET (1..k)
    BY <1>1, <2>1 DEF ServedAt
  <2>4. IsFiniteSet(P) /\ IsFiniteSet(Q)
    <3>1. IsFiniteSet(1..(n + k)) /\ IsFiniteSet(1..k)
      BY <1>1, FS_Interval
    <3> HIDE DEF P, Q
    <3> QED
      BY <2>3, <3>1, FS_Subset
  <2>5. \A i \in Q : Weights(b[i])
    BY <2>2 DEF LinesServe, ServedAt
  <2>6. \A i \in P : h[i] = i - n /\ h[i] \in Q
    BY <2>1
  <2>7. \A i \in Q : i + n \in P /\ h[i + n] = i
    <3> SUFFICES ASSUME NEW i \in Q PROVE i + n \in P /\ h[i + n] = i
      OBVIOUS
    <3>1. i \in DOMAIN t /\ t[i].sources = m.sources
      BY DEF ServedAt
    <3>2. i + n \in DOMAIN u /\ u[i + n] = t[i]
      BY <1>3, <3>1
    <3>3. i + n \in P
      BY <3>1, <3>2 DEF ServedAt
    <3>4. i \in Nat /\ n \in Nat
      BY <1>1, <3>1
    <3> QED
      BY <2>6, <3>3, <3>4
  <2>8. h = [i \in P |-> h[i]]
    OBVIOUS
  <2> HIDE DEF P, Q, a, b, h
  <2>9. h \in [DOMAIN a -> DOMAIN b]
    <3>1. h \in [P -> Q]
      BY <2>6, <2>8
    <3>2. DOMAIN a = P
      BY <2>2
    <3>3. DOMAIN b = Q
      BY <2>2
    <3> QED
      BY <3>1, <3>2, <3>3
  <2>10. \A i, j \in DOMAIN a : h[i] = h[j] => i = j
    <3>1. \A i \in P : i \in Int /\ h[i] = i - n
      BY <1>1, <2>1, <2>6
    <3>2. n \in Int
      BY <1>1
    <3>3. \A i, j \in P : h[i] = h[j] => i = j
      BY <3>1, <3>2
    <3>4. DOMAIN a = P
      BY <2>2
    <3> QED
      BY <3>3, <3>4
  <2>11. \A i \in DOMAIN b : \E j \in DOMAIN a : h[j] = i
    BY <2>2, <2>7
  <2>12. \A i \in DOMAIN a : a[i] = b[h[i]]
    BY <2>1, <2>2, <2>6
  <2>13. SumByChild(a) = SumByChild(b)
    BY <2>2, <2>4, <2>5, <2>9, <2>10, <2>11, <2>12, SumByChildMoved
  <2>14. SumByChild(b) = m.allocatedTo
    BY DEF b, LinesServe
  <2> QED
    BY <2>13, <2>14 DEF a
<1> QED
  BY <1>4, <1>5, <1>6 DEF LinesServe, u

\* An assignment's packs, shared out line by line, give the children of its
\* need what they need.
LEMMA AssignmentServes ==
  ASSUME NEW a, IsSelection(a.sel), IsNeed(a.need), Covers(a.sel, a.need), NEW i
  PROVE  LET t == LinesFrom(a, i, LineUnitAllocations(a.need.allocatedTo, a.sel.lines))
         IN  /\ \E Y : t \in Seq(Y)
             /\ LinesServe(t, {a.need})
<1> DEFINE w == a.need.allocatedTo
           ls == a.sel.lines
           n == Len(ls)
           given == LineUnitAllocations(w, ls)
           t == LinesFrom(a, i, given)
<1>1. /\ ls \in Seq(SelectedPacks) /\ n \in Nat /\ DOMAIN ls = 1..n
      /\ \A j \in 1..n : ls[j].units \in Nat
  <2>1. ls \in Seq(SelectedPacks)
    BY DEF IsSelection
  <2> DEFINE Z == SelectedPacks
  <2> HIDE DEF ls, Z
  <2>2. ls \in Seq(Z)
    BY <2>1 DEF Z
  <2>3. n \in Nat /\ DOMAIN ls = 1..n /\ \A j \in 1..n : ls[j] \in Z
    BY <2>2
  <2>4. \A z \in Z : z.units \in Nat
    BY DEF Z, SelectedPacks
  <2> QED
    BY <2>1, <2>3, <2>4
<1>2. /\ Weights(w) /\ w \in [DOMAIN w -> Nat \ {0}] /\ SumFunction(w) = a.need.quantity
  BY DEF IsNeed
<1>3. SumFunction(w) <= UpTo(ls, n)
  <2>1. UpTo(ls, n) = SumFunctionOnSet([j \in 1..n |-> ls[j].units], 1..n)
    BY DEF UpTo, SumFunction
  <2>2. Covers(a.sel, a.need)
    OBVIOUS
  <2>3. a.need.quantity <= SumFunctionOnSet([j \in DOMAIN ls |-> ls[j].units], DOMAIN ls)
    BY <2>2 DEF Covers
  <2> HIDE DEF ls, n, w
  <2>4. SumFunctionOnSet([j \in DOMAIN ls |-> ls[j].units], DOMAIN ls) = UpTo(ls, n)
    BY <1>1, <2>1
  <2> QED
    BY <1>2, <2>3, <2>4
<1>4. SumByChild(given) = w
  <2> HIDE DEF w, ls, n
  <2> QED
    BY <1>1, <1>2, <1>3, UnitsShared
<1>5. DOMAIN given = 1..n /\ given = [j \in 1..n |-> given[j]]
  <2>1. DOMAIN ls = 1..n
    BY <1>1
  <2> HIDE DEF w, ls, n
  <2> QED
    BY <2>1 DEF LineUnitAllocations
<1>6. \A j \in 1..n : Weights(given[j])
  <2> SUFFICES ASSUME NEW j \in 1..n PROVE Weights(given[j])
    OBVIOUS
  <2> DEFINE up == [k \in 0..n |-> UpTo(ls, k)]
             v == [c \in DOMAIN w |-> Overlap(UpTo(ls, j - 1), UpTo(ls, j), NeededBefore(w, c),
                                               NeededBefore(w, c) + w[c])]
             p == Positive(v)
  <2>1. given[j] = p
    BY <1>1 DEF LineUnitAllocations, UpTo
  <2>2. /\ UpTo(ls, j - 1) \in Nat /\ UpTo(ls, j) \in Nat
    <3>1. \A k \in 0..n : UpTo(ls, k) \in Nat
      <4> HIDE DEF ls, n
      <4> QED
        BY <1>1, UpToIs
    <3>2. j - 1 \in 0..n /\ j \in 0..n
      BY <1>1
    <3> HIDE DEF ls, n
    <3> QED
      BY <3>1, <3>2
  <2>3. \A c \in DOMAIN w : v[c] \in Int
    <3> SUFFICES ASSUME NEW c \in DOMAIN w PROVE v[c] \in Int
      OBVIOUS
    <3> DEFINE x == UpTo(ls, j - 1)
               y == UpTo(ls, j)
               b == NeededBefore(w, c)
               e == b + w[c]
    <3>1. b \in Nat /\ w[c] \in Nat
      <4> HIDE DEF w
      <4> QED
        BY <1>2, NeedsInFront
    <3>2. e \in Nat /\ x \in Nat /\ y \in Nat
      BY <2>2, <3>1
    <3>3. v[c] = Overlap(x, y, b, e)
      OBVIOUS
    <3> HIDE DEF x, y, b, e, v
    <3>4. Overlap(x, y, b, e) \in Int
      <4>1. Overlap(x, y, b, e) = (IF y <= e THEN y ELSE e) - (IF x >= b THEN x ELSE b)
        BY <3>1, <3>2, OverlapIs
      <4> QED
        BY <3>1, <3>2, <4>1
    <3> QED
      BY <3>3, <3>4
  <2>4. DOMAIN v = DOMAIN w
    OBVIOUS
  <2> HIDE DEF v
  <2>5. p = [c \in Paying(v) |-> v[c]]
    BY PositiveIs
  <2>6. Paying(v) \in SUBSET DOMAIN w /\ \A c \in Paying(v) : v[c] \in Nat
    BY <2>3, <2>4 DEF Paying
  <2>7. IsFiniteSet(Paying(v)) /\ \A c \in Paying(v) : c \in Int
    BY <1>2, <2>6, FS_Subset DEF Weights
  <2> HIDE DEF w, ls, n, given, p
  <2>8. DOMAIN p = Paying(v) /\ \A c \in Paying(v) : p[c] = v[c]
    BY <2>5
  <2> QED
    BY <2>1, <2>6, <2>7, <2>8 DEF Weights
<1>7. /\ t = [j \in 1..n |-> t[j]]
      /\ \A j \in 1..n : t[j].sources = a.need.sources /\ t[j].allocatedTo = given[j]
  <2> HIDE DEF given
  <2>1. t = [j \in 1..n |-> CartLine(a, i, j, given[j], SumFunction(given[j]))]
    BY <1>1 DEF LinesFrom
  <2> HIDE DEF t, n
  <2> DEFINE L(j) == CartLine(a, i, j, given[j], SumFunction(given[j]))
  <2>2. \A j \in 1..n : L(j).sources = a.need.sources /\ L(j).allocatedTo = given[j]
    BY DEF CartLine
  <2>3. t = [j \in 1..n |-> L(j)]
    BY <2>1
  <2> HIDE DEF L
  <2> QED
    BY <2>2, <2>3
<1> HIDE DEF t, given, w, n
<1>8. DOMAIN t = 1..n
  BY <1>7
<1>9. \E Y : t \in Seq(Y)
  <2> DEFINE Y == {t[j] : j \in 1..n}
  <2>1. n \in Nat /\ \A j \in 1..n : t[j] \in Y
    BY <1>1
  <2> HIDE DEF Y
  <2>2. t \in Seq(Y)
    BY <1>7, <2>1
  <2> QED
    BY <2>2
<1>10. UnitsFor(t, a.need.sources) = given
  <2>1. ServedAt(t, a.need.sources) = 1..n
    BY <1>7, <1>8 DEF ServedAt
  <2>2. UnitsFor(t, a.need.sources) = [j \in 1..n |-> t[j].allocatedTo]
    BY <2>1 DEF UnitsFor
  <2>3. \A j \in 1..n : t[j].allocatedTo = given[j]
    BY <1>7
  <2>4. [j \in 1..n |-> t[j].allocatedTo] = [j \in 1..n |-> given[j]]
    BY <2>3
  <2> QED
    BY <1>5, <2>2, <2>4
<1>11. LinesServe(t, {a.need})
  <2>1. \A k \in DOMAIN t : Weights(t[k].allocatedTo) /\ t[k].sources = a.need.sources
    BY <1>6, <1>7, <1>8
  <2>2. SumByChild(UnitsFor(t, a.need.sources)) = a.need.allocatedTo
    BY <1>4, <1>10 DEF w
  <2> QED
    BY <2>1, <2>2 DEF LinesServe
<1> QED
  BY <1>9, <1>11 DEF t, given, w

\* Each of so many needs, at its place.
NeedsIn(b, n) == {b[i].need : i \in 1..n}

\* Enough is bought of each of some needs, which come from different lines.
Supplies(b, n) ==
  /\ \A i \in 1..n : IsNeed(b[i].need) /\ Covers(b[i].sel, b[i].need)
  /\ \A i, j \in 1..n : b[i].need.sources = b[j].need.sources => i = j

\* The lines of what supplies some needs serve them.
LEMMA CartLinesServe ==
  ASSUME NEW n \in Nat, NEW b, NEW stores, NEW config, IsAssignments(b, n, stores, config),
         Supplies(b, n)
  PROVE  /\ \E X : CartLines(b) \in Seq(X)
         /\ LinesServe(CartLines(b), NeedsIn(b, n))
<1> DEFINE D == 1..n
           part(i) == LinesFrom(b[i], i, LineUnitAllocations(b[i].need.allocatedTo, b[i].sel.lines))
           seqs == [i \in D |-> part(i)]
           X == UNION {{seqs[i][j] : j \in DOMAIN seqs[i]} : i \in D}
           M(i) == {b[j].need : j \in 1..i}
<1>1. DOMAIN b = D
  BY DEF IsAssignments
<1>2. CartLines(b) = FlattenSeq(seqs)
  BY <1>1 DEF CartLines
<1>3. ASSUME NEW i \in D
      PROVE  (\E Y : seqs[i] \in Seq(Y)) /\ LinesServe(seqs[i], {b[i].need})
  <2> DEFINE a == b[i]
             t == LinesFrom(a, i, LineUnitAllocations(a.need.allocatedTo, a.sel.lines))
  <2>1. IsSelection(a.sel) /\ IsNeed(a.need) /\ Covers(a.sel, a.need)
    BY DEF IsAssignments, Supplies
  <2>2. seqs[i] = t
    OBVIOUS
  <2> HIDE DEF a, seqs
  <2>3. \E Y : t \in Seq(Y)
    BY <2>1, AssignmentServes
  <2>4. LinesServe(t, {a.need})
    BY <2>1, AssignmentServes
  <2> HIDE DEF t
  <2> QED
    BY <2>2, <2>3, <2>4 DEF a
<1>4. seqs = [i \in D |-> seqs[i]]
  <2> HIDE DEF part
  <2> QED
    OBVIOUS
<1> HIDE DEF seqs, part
<1>5. seqs \in [D -> Seq(X)]
  <2>1. \A i \in D : \A j \in DOMAIN seqs[i] : seqs[i][j] \in X
    OBVIOUS
  <2> HIDE DEF X
  <2>2. ASSUME NEW i \in D PROVE seqs[i] \in Seq(X)
    <3> DEFINE t == seqs[i]
    <3>1. PICK Y : t \in Seq(Y)
      BY <1>3
    <3>2. \A j \in DOMAIN t : t[j] \in X
      BY <2>1
    <3> HIDE DEF t
    <3>3. /\ Len(t) \in Nat /\ DOMAIN t = 1..Len(t) /\ t = [j \in 1..Len(t) |-> t[j]]
      BY <3>1
    <3>4. t \in Seq(X)
      BY <3>2, <3>3
    <3> QED
      BY <3>4 DEF t
  <2> QED
    BY <1>4, <2>2
<1>6. CASE n = 0
  <2>1. seqs = <<>> /\ NeedsIn(b, n) = {}
    BY <1>4, <1>6 DEF NeedsIn
  <2>2. CartLines(b) = <<>>
    BY <1>2, <2>1, FlattenOfNothing
  <2>3. <<>> \in Seq(X)
    OBVIOUS
  <2> QED
    BY <2>1, <2>2, <2>3, NoLinesServe
<1>7. CASE n # 0
  <2>1. n \in Nat \ {0}
    BY <1>7
  <2>2. PICK f : JoinedUpTo(f, n, seqs) /\ FlattenSeq(seqs) = f[n]
    <3> HIDE DEF X
    <3> QED
      BY <1>5, <2>1, FlattenIs
  <2> HIDE DEF X
  <2>3. \A i \in 1..n : f[i] = IF i = 1 THEN seqs[i] ELSE f[i - 1] \o seqs[i]
    BY <2>2 DEF JoinedUpTo
  <2> DEFINE H == {i \in 0..n : i = 0 \/ (f[i] \in Seq(X) /\ LinesServe(f[i], M(i)))}
  <2>4. 0 \in H
    OBVIOUS
  <2>5. ASSUME NEW i \in 1..n, i - 1 \in H PROVE i \in H
    <3> SUFFICES f[i] \in Seq(X) /\ LinesServe(f[i], M(i))
      <4> HIDE DEF M
      <4> QED
        OBVIOUS
    <3>1. seqs[i] \in Seq(X) /\ LinesServe(seqs[i], {b[i].need})
      BY <1>3, <1>5
    <3>2. CASE i = 1
      <4>1. f[i] = seqs[i]
        BY <2>3, <3>2
      <4>2. M(i) = {b[i].need}
        BY <3>2
      <4> HIDE DEF M, H
      <4> QED
        BY <3>1, <4>1, <4>2
    <3>3. CASE i # 1
      <4>1. f[i] = f[i - 1] \o seqs[i]
        BY <2>3, <3>3
      <4>2. i - 1 # 0
        BY <3>3
      <4>3. f[i - 1] \in Seq(X) /\ LinesServe(f[i - 1], M(i - 1))
        <5> HIDE DEF M
        <5> QED
          BY <2>5, <4>2
      <4>4. M(i) = M(i - 1) \cup {b[i].need}
        <5>1. 1..i = (1..(i - 1)) \cup {i}
          OBVIOUS
        <5> QED
          BY <5>1
      <4>5. OfOthers(M(i - 1), {b[i].need})
        <5> SUFFICES ASSUME NEW j \in 1..(i - 1) PROVE b[j].need.sources # b[i].need.sources
          BY DEF OfOthers
        <5>1. j \in 1..n /\ j # i
          OBVIOUS
        <5> QED
          BY <5>1 DEF Supplies
      <4> DEFINE s == f[i - 1]
                 t == seqs[i]
                 A == M(i - 1)
                 B == {b[i].need}
      <4> HIDE DEF M, s, t, A, B
      <4>6. s \in Seq(X) /\ t \in Seq(X) /\ LinesServe(s, A) /\ LinesServe(t, B) /\ OfOthers(A, B)
        BY <3>1, <4>3, <4>5 DEF s, t, A, B
      <4>7. LinesServe(s \o t, A \cup B)
        BY <4>6, JoinedServe
      <4>8. s \o t \in Seq(X)
        BY <4>6
      <4>9. f[i] = s \o t /\ M(i) = A \cup B
        BY <4>1, <4>4 DEF s, t, A, B
      <4> HIDE DEF H
      <4> QED
        BY <4>7, <4>8, <4>9
    <3> QED
      BY <3>2, <3>3
  <2>6. n \in H
    <3>1. \A i \in 1..n : i - 1 \in H => i \in H
      BY <2>5
    <3> HIDE DEF H
    <3>2. \A i \in 0..n : i \in H
      BY <2>4, <3>1, StepByStep
    <3> QED
      BY <3>2
  <2>7. f[n] \in Seq(X) /\ LinesServe(f[n], M(n))
    BY <1>7, <2>6
  <2> QED
    BY <1>2, <2>2, <2>7 DEF NeedsIn
<1> QED
  BY <1>6, <1>7

\* A cart gives the children of some needs what they need, and nothing else.
PlanServes(p, M) == (\E X : p.lines \in Seq(X)) /\ LinesServe(p.lines, M)

\* A cart of what supplies some needs serves them.
LEMMA BuiltServes ==
  ASSUME NEW n \in Nat, NEW b, NEW stores, NEW config, IsAssignments(b, n, stores, config),
         Supplies(b, n)
  PROVE  PlanServes(BuildPlan(b, stores, config), NeedsIn(b, n))
<1> DEFINE lines == CartLines(b)
           p == BuildPlan(b, stores, config)
<1>1. (\E X : lines \in Seq(X)) /\ LinesServe(lines, NeedsIn(b, n))
  <2> HIDE DEF lines
  <2> QED
    BY CartLinesServe DEF lines
<1>2. CASE b # <<>>
  <2>1. p = PlanOfLines(b, lines, stores, config)
    BY <1>2 DEF BuildPlan
  <2> DEFINE orders == StoreOrders(lines, stores, config)
             shares == ItemShares(b)
  <2>2. p = PlanOfOrders(b, lines, orders, shares)
    BY <2>1 DEF PlanOfLines
  <2> HIDE DEF orders, shares, lines, p
  <2>3. p.lines = lines
    BY <2>2 DEF PlanOfOrders
  <2> QED
    BY <1>1, <2>3 DEF PlanServes, p
<1>3. CASE b = <<>>
  <2>1. p = EmptyPlan
    BY <1>3 DEF BuildPlan
  <2>2. p.lines = <<>>
    BY <2>1 DEF EmptyPlan
  <2>3. NeedsIn(b, n) = {}
    <3>1. DOMAIN b = 1..n
      BY DEF IsAssignments
    <3> QED
      BY <1>3, <3>1 DEF NeedsIn
  <2>4. <<>> \in Seq({})
    OBVIOUS
  <2>5. LinesServe(p.lines, NeedsIn(b, n))
    <3> HIDE DEF p
    <3> QED
      BY <2>2, <2>3, NoLinesServe
  <2>6. \E X : p.lines \in Seq(X)
    <3> HIDE DEF p
    <3> QED
      BY <2>2, <2>4
  <2> HIDE DEF p
  <2>7. PlanServes(p, NeedsIn(b, n))
    BY <2>5, <2>6 DEF PlanServes
  <2> QED
    BY <2>7 DEF p
<1> QED
  BY <1>2, <1>3

\* So many needs that come from different lines, and enough of each wherever
\* something serves it.
Supplied(needs, candidates, n) ==
  /\ \A i \in 1..n : \A s \in DOMAIN candidates[i] : Covers(candidates[i][s], needs[i])
  /\ \A i, j \in 1..n : needs[i].sources = needs[j].sources => i = j

AllOf(needs, n) == {needs[i] : i \in 1..n}

\* The trips of a cart serve some of the needs each, and not the same ones.
CartServes(r, N) ==
  \E M, L \in SUBSET N : /\ OfOthers(M, L) /\ PlanServes(r.plan, M)
                         /\ r.second # None => PlanServes(r.second, L)

\* A cart without a second trip serves what its plan serves.
LEMMA OneTripServes ==
  ASSUME NEW r, r.second = None, NEW N, NEW M \in SUBSET N, PlanServes(r.plan, M)
  PROVE  CartServes(r, N)
<1>1. {} \in SUBSET N /\ OfOthers(M, {})
  BY DEF OfOthers
<1> QED
  BY <1>1 DEF CartServes

\* What stores sell for needs is enough of each.
LEMMA CandidatesCover ==
  ASSUME NEW n \in Nat, NEW needs, IsNeeds(needs, n), NEW offers, IsOffers(offers), NEW eligible,
         NEW skusFor, \A i, j \in 1..n : needs[i].sources = needs[j].sources => i = j
  PROVE  Supplied(needs, CandidateSelections(needs, offers, eligible, skusFor), n)
<1> DEFINE sells == CandidateSelections(needs, offers, eligible, skusFor)
           at(i, s) == {o \in offers : o.store = s /\ o.sku \in WillDo(needs[i], skusFor)}
           sel(i, s) == SelectPackages(needs[i], at(i, s))
           served(i) == [s \in {t \in eligible : sel(i, t) # None} |-> sel(i, s)]
<1>1. sells = [i \in DOMAIN needs |-> served(i)]
  BY DEF CandidateSelections, RestrictValues, Restrict
<1>2. DOMAIN needs = 1..n /\ \A i \in 1..n : needs[i].quantity \in Nat \ {0}
  BY DEF IsNeeds, IsNeed
<1>3. ASSUME NEW i \in 1..n, NEW s \in eligible, sel(i, s) # None
      PROVE  Covers(sel(i, s), needs[i])
  <2> DEFINE some == at(i, s)
             chosen == SelectPackages(needs[i], some)
  <2>1. some \in SUBSET offers
    OBVIOUS
  <2>2. chosen # None /\ chosen = sel(i, s)
    BY <1>3
  <2> HIDE DEF some
  <2>3. IsOffers(some)
    BY <2>1, FS_Subset DEF IsOffers
  <2> HIDE DEF chosen, at, sel
  <2>4. chosen = SelectPackages(needs[i], some)
    BY DEF chosen
  <2>5. Covers(chosen, needs[i])
    BY <1>2, <2>2, <2>3, <2>4, NoneIsNoNumber, SelectionCovers
  <2> QED
    BY <2>2, <2>5
<1> HIDE DEF at, sel
<1>4. \A i \in 1..n : sells[i] = [s \in {t \in eligible : sel(i, t) # None} |-> sel(i, s)]
  BY <1>1, <1>2
<1> HIDE DEF sells
<1>5. \A i \in 1..n : \A s \in DOMAIN sells[i] : Covers(sells[i][s], needs[i])
  <2> SUFFICES ASSUME NEW i \in 1..n, NEW s \in DOMAIN sells[i] PROVE Covers(sells[i][s], needs[i])
    OBVIOUS
  <2>1. sells[i] = [t \in {u \in eligible : sel(i, u) # None} |-> sel(i, t)]
    BY <1>4
  <2>2. s \in eligible /\ sel(i, s) # None /\ sells[i][s] = sel(i, s)
    BY <2>1
  <2>3. Covers(sel(i, s), needs[i])
    BY <1>3, <2>2
  <2> QED
    BY <2>2, <2>3
<1> QED
  BY <1>5 DEF Supplied, sells

\* Some of the needs, with what serves them, are needs from different lines
\* with enough of each.
LEMMA PickedSupplied ==
  ASSUME NEW n \in Nat, NEW needs, NEW candidates, Supplied(needs, candidates, n),
         NEW P \in SUBSET (1..n)
  PROVE  LET q == InOrderOf(P)
             m == Cardinality(P)
         IN  /\ Supplied(Pick(needs, q), Pick(candidates, q), m)
             /\ AllOf(Pick(needs, q), m) = {needs[i] : i \in P}
             /\ AllOf(Pick(needs, q), m) \in SUBSET AllOf(needs, n)
<1> DEFINE q == InOrderOf(P)
           m == Cardinality(P)
           a == Pick(needs, q)
           b == Pick(candidates, q)
<1>1. /\ m \in Nat /\ ListsOnce(q, P)
      /\ \A k \in 1..m : q[k] \in P /\ a[k] = needs[q[k]]
  BY PickedAt
<1>7. \A i \in P : \E k \in 1..m : q[k] = i /\ a[k] = needs[i]
  BY PickedAt
<1>2. \A k \in 1..m : b[k] = candidates[q[k]]
  BY PickedAt
<1> HIDE DEF q, m, a, b
<1>3. \A j, k \in 1..m : q[j] = q[k] => j = k
  <2>1. DOMAIN q = 1..m
    BY <1>1 DEF ListsOnce, m
  <2> QED
    BY <1>1, <2>1 DEF ListsOnce
<1>4. Supplied(a, b, m)
  <2>1. ASSUME NEW k \in 1..m, NEW s \in DOMAIN b[k] PROVE Covers(b[k][s], a[k])
    <3>1. q[k] \in 1..n /\ a[k] = needs[q[k]] /\ b[k] = candidates[q[k]]
      BY <1>1, <1>2
    <3>2. Covers(candidates[q[k]][s], needs[q[k]])
      BY <3>1 DEF Supplied
    <3> QED
      BY <3>1, <3>2
  <2>2. ASSUME NEW j \in 1..m, NEW k \in 1..m, a[j].sources = a[k].sources PROVE j = k
    <3>1. q[j] \in 1..n /\ q[k] \in 1..n /\ needs[q[j]].sources = needs[q[k]].sources
      BY <1>1, <2>2
    <3>2. \A x, y \in 1..n : needs[x].sources = needs[y].sources => x = y
      BY DEF Supplied
    <3>3. q[j] = q[k]
      BY <3>1, <3>2
    <3> QED
      BY <1>3, <3>3
  <2> QED
    BY <2>1, <2>2 DEF Supplied
<1>5. AllOf(a, m) = {needs[i] : i \in P}
  BY <1>1, <1>7 DEF AllOf
<1>6. AllOf(a, m) \in SUBSET AllOf(needs, n)
  BY <1>5 DEF AllOf
<1> QED
  BY <1>4, <1>5, <1>6 DEF q, m, a, b

\* A cart that a search finds serves all its needs.
LEMMA BestPlanServes ==
  ASSUME NEW n \in Nat, NEW needs, IsNeeds(needs, n), NEW stores, IsStores(stores), NEW config,
         Wants(config), NEW candidates, IsCandidates(candidates, n, stores, config),
         Supplied(needs, candidates, n)
  PROVE  LET p == SearchFrom(needs, candidates, stores, config)
         IN  Assignments(p) # {} => PlanServes(BestPlan(p), AllOf(needs, n))
<1> DEFINE p == SearchFrom(needs, candidates, stores, config)
<1> SUFFICES ASSUME Assignments(p) # {} PROVE PlanServes(BestPlan(p), AllOf(needs, n))
  OBVIOUS
<1>1. IsSearch(p, n, stores, config)
  BY SearchIs
<1>2. PICK order : /\ ListsOnce(order, 1..n) /\ DOMAIN order = 1..n
                   /\ \A k \in 1..n : /\ order[k] \in 1..n
                                      /\ p.ordered[k].need = needs[order[k]]
                                      /\ p.ordered[k].candidates = candidates[order[k]]
  BY SearchIs
<1> HIDE DEF p
<1>3. PICK a \in Assignments(p) : BestPlan(p) = PlanOf(p, a)
  BY <1>1, BestPlanIs
<1> DEFINE b == BoughtBy(p, a)
<1>4. /\ DOMAIN a = 1..n /\ \A i \in 1..n : a[i] \in DOMAIN p.ordered[i].candidates
      /\ IsAssignments(b, n, stores, config) /\ PlanOf(p, a) = BuildPlan(b, stores, config)
  BY <1>1, BoughtByIs
<1>5. \A k \in 1..n : /\ b[k].need = needs[order[k]] /\ order[k] \in 1..n
                      /\ b[k].sel = candidates[order[k]][a[k]]
                      /\ a[k] \in DOMAIN candidates[order[k]]
  BY <1>2, <1>4 DEF BoughtBy
<1>6. \A j, k \in 1..n : order[j] = order[k] => j = k
  BY <1>2 DEF ListsOnce
<1>7. \A i \in 1..n : \E k \in 1..n : order[k] = i
  BY <1>2 DEF ListsOnce
<1> HIDE DEF b
<1>8. \A i \in 1..n : IsNeed(needs[i])
  BY DEF IsNeeds
<1>9. Supplies(b, n)
  BY <1>5, <1>6, <1>8 DEF Supplied, Supplies
<1>10. NeedsIn(b, n) = AllOf(needs, n)
  BY <1>5, <1>7 DEF NeedsIn, AllOf
<1>11. PlanServes(BuildPlan(b, stores, config), NeedsIn(b, n))
  BY <1>4, <1>9, BuiltServes
<1> QED
  BY <1>3, <1>4, <1>10, <1>11

\* So does a cart of some of the needs.
LEMMA ForSomeServes ==
  ASSUME NEW n \in Nat, NEW needs, IsNeeds(needs, n), NEW stores, IsStores(stores),
         NEW candidates, DOMAIN candidates = 1..n, Supplied(needs, candidates, n),
         NEW plan, IsForSome(plan, needs, candidates, n, stores)
  PROVE  \E M \in SUBSET AllOf(needs, n) : PlanServes(plan, M)
<1>1. PICK P \in SUBSET (1..n) : \E served, config :
        LET p == SearchFrom(Pick(needs, InOrderOf(P)), Pick(served, InOrderOf(P)), stores, config)
        IN  /\ IsCandidates(served, n, stores, config) /\ Wants(config)
            /\ \A i \in 1..n : \A s \in DOMAIN served[i] : /\ s \in DOMAIN candidates[i]
                                                          /\ served[i][s] = candidates[i][s]
            /\ Assignments(p) # {} /\ plan = BestPlan(p)
  BY DEF IsForSome
<1> DEFINE q == InOrderOf(P)
           m == Cardinality(P)
<1>2. PICK served, config :
        LET p == SearchFrom(Pick(needs, q), Pick(served, q), stores, config)
        IN  /\ IsCandidates(served, n, stores, config) /\ Wants(config)
            /\ \A i \in 1..n : \A s \in DOMAIN served[i] : /\ s \in DOMAIN candidates[i]
                                                          /\ served[i][s] = candidates[i][s]
            /\ Assignments(p) # {} /\ plan = BestPlan(p)
  BY <1>1
<1> DEFINE a == Pick(needs, q)
           b == Pick(served, q)
           p == SearchFrom(a, b, stores, config)
<1>3. Supplied(needs, served, n)
  BY <1>2 DEF Supplied
<1>4. m \in Nat /\ IsNeeds(a, m) /\ IsCandidates(b, m, stores, config)
  BY <1>2, PickedNeeds
<1>5. Supplied(a, b, m) /\ AllOf(a, m) \in SUBSET AllOf(needs, n)
  BY <1>3, PickedSupplied
<1>6. Assignments(p) # {} /\ plan = BestPlan(p) /\ Wants(config)
  BY <1>2
<1> HIDE DEF a, b, m
<1>7. PlanServes(BestPlan(p), AllOf(a, m))
  BY <1>4, <1>5, <1>6, BestPlanServes
<1> QED
  BY <1>5, <1>6, <1>7

\* An empty cart serves nobody.
LEMMA NothingServes ==
  ASSUME NEW needs, NEW N
  PROVE  CartServes(Nothing(needs), N)
<1> DEFINE r == Nothing(needs)
<1>1. r.plan.lines = <<>> /\ r.second = None
  BY DEF Nothing, EmptyPlan
<1>2. <<>> \in Seq({})
  OBVIOUS
<1>3. PlanServes(r.plan, {})
  BY <1>1, <1>2, NoLinesServe DEF PlanServes
<1> HIDE DEF r
<1> QED
  BY <1>1, <1>3, OneTripServes DEF r

\* Everything at one store serves all the needs.
LEMMA SingleStoreServes ==
  ASSUME NEW n \in Nat, NEW needs, IsNeeds(needs, n), NEW stores, IsStores(stores), NEW config,
         Wants(config), NEW candidates, IsCandidates(candidates, n, stores, config),
         Supplied(needs, candidates, n), NEW s,
         SingleStorePlan(needs, candidates, s, stores, config) # None
  PROVE  PlanServes(SingleStorePlan(needs, candidates, s, stores, config), AllOf(needs, n))
<1> DEFINE b == [i \in DOMAIN needs |-> [need |-> needs[i], sel |-> candidates[i][s]]]
<1>1. \A i \in DOMAIN needs : s \in DOMAIN candidates[i]
  BY DEF SingleStorePlan
<1>2. SingleStorePlan(needs, candidates, s, stores, config) = BuildPlan(b, stores, config)
  BY <1>1 DEF SingleStorePlan
<1>3. DOMAIN needs = 1..n /\ \A i \in 1..n : IsNeed(needs[i])
  BY DEF IsNeeds
<1>4. \A i \in 1..n : IsServed(candidates[i], stores, config)
  BY DEF IsCandidates
<1>5. \A i \in 1..n : b[i].need = needs[i] /\ b[i].sel = candidates[i][s]
  BY <1>3
<1>6. b = [i \in 1..n |-> b[i]]
  BY <1>3
<1> HIDE DEF b
<1>7. \A i \in 1..n : /\ IsNeed(b[i].need)
                      /\ \E c : /\ IsServed(c, stores, config)
                                /\ \E t \in DOMAIN c : b[i].sel = c[t]
  BY <1>1, <1>3, <1>4, <1>5
<1>8. IsAssignments(b, n, stores, config)
  BY <1>6, <1>7, BoughtIs
<1>9. Supplies(b, n)
  BY <1>1, <1>3, <1>5 DEF Supplied, Supplies
<1>10. NeedsIn(b, n) = AllOf(needs, n)
  BY <1>5 DEF NeedsIn, AllOf
<1>11. PlanServes(BuildPlan(b, stores, config), NeedsIn(b, n))
  BY <1>8, <1>9, BuiltServes
<1> QED
  BY <1>2, <1>10, <1>11

\* The stores allowed and their number leave a cart that serves.
LEMMA CustomServes ==
  ASSUME NEW n \in Nat, NEW needs, IsNeeds(needs, n), NEW stores, IsStores(stores), NEW config,
         IsConfig(config), NEW candidates, IsCandidates(candidates, n, stores, config),
         Supplied(needs, candidates, n), NEW eligible \in SUBSET DOMAIN stores
  PROVE  CartServes(BestCustomConstrained(needs, candidates, eligible, stores, config),
                    AllOf(needs, n))
<1> DEFINE r == BestCustomConstrained(needs, candidates, eligible, stores, config)
           p == SearchFrom(needs, candidates, stores, config)
           whole == BestPlan(p)
           scopes == ScopesOf(eligible, config.maxStores)
           within(S) == WithinScope(needs, candidates, S, stores, config)
           at == [S \in scopes |-> within(S)]
           results == {within(S) : S \in scopes}
           best == FewestGaps(results, needs)
           N == AllOf(needs, n)
<1>1. r = WholeOrElse(whole, best)
  BY DEF BestCustomConstrained
<1>2. Wants(config)
  BY DEF IsConfig
<1>3. IsSearch(p, n, stores, config)
  BY SearchIs
<1>4. CASE whole # None
  <2>1. r.plan = whole /\ r.second = None
    BY <1>1, <1>4 DEF WholeOrElse
  <2>2. Assignments(p) # {}
    BY <1>2, <1>3, <1>4, BestPlanIs
  <2>3. PlanServes(whole, N)
    BY <1>2, <2>2, BestPlanServes
  <2> HIDE DEF whole, r, N
  <2>4. N \in SUBSET N /\ PlanServes(r.plan, N)
    BY <2>1, <2>3
  <2>5. CartServes(r, N)
    BY <2>1, <2>4, OneTripServes
  <2> QED
    BY <2>5 DEF r, N
<1>5. CASE whole = None
  <2>1. r = best
    BY <1>1, <1>5 DEF WholeOrElse
  <2>2. IsFiniteSet(eligible) /\ eligible \in SUBSET Int
    BY FS_Subset DEF IsStores
  <2>3. \A S \in scopes : S \in SUBSET eligible
    BY DEF ScopesOf
  <2>4. IsFiniteSet(results)
    <3>1. IsFiniteSet(SUBSET eligible)
      BY <2>2, FS_SUBSET
    <3>2. IsFiniteSet(scopes)
      BY <2>3, <3>1, FS_Subset
    <3>3. results = {at[S] : S \in scopes}
      OBVIOUS
    <3> HIDE DEF at, scopes, results
    <3>4. IsFiniteSet({at[S] : S \in scopes})
      BY <3>2, ImageIsFinite
    <3> QED
      BY <3>3, <3>4
  <2>5. ASSUME NEW S \in scopes
        PROVE  /\ IsCart(within(S)) /\ within(S).scope = S
               /\ within(S).second = None /\ CartServes(within(S), N)
    <3> DEFINE c == WithinScope(needs, candidates, S, stores, config)
    <3>1. S \in SUBSET DOMAIN stores
      BY <2>3
    <3>2. IsWithin(c, candidates, n, S) /\ IsForSome(c.plan, needs, candidates, n, stores)
      BY <3>1, WithinScopeIs
    <3> HIDE DEF c
    <3>3. DOMAIN candidates = 1..n
      BY DEF IsCandidates
    <3>4. \E M \in SUBSET AllOf(needs, n) : PlanServes(c.plan, M)
      BY <3>2, <3>3, ForSomeServes
    <3>5. c.second = None
      BY <3>2 DEF IsWithin
    <3>6. CartServes(c, N)
      BY <3>4, <3>5, OneTripServes
    <3> QED
      BY <3>2, <3>6 DEF IsWithin, c
  <2> HIDE DEF scopes, within, whole
  <2>6. \A x \in results : \E S \in scopes : x = within(S)
    OBVIOUS
  <2> HIDE DEF results
  <2>7. \A x \in results : /\ IsCart(x) /\ x.scope \in SUBSET Int /\ IsFiniteSet(x.scope)
                           /\ CartServes(x, N)
    <3> SUFFICES ASSUME NEW x \in results
                 PROVE  /\ IsCart(x) /\ x.scope \in SUBSET Int /\ IsFiniteSet(x.scope)
                        /\ CartServes(x, N)
      OBVIOUS
    <3>1. PICK S \in scopes : x = within(S)
      BY <2>6
    <3>2. S \in SUBSET eligible /\ IsFiniteSet(S)
      BY <2>2, <2>3, FS_Subset
    <3> QED
      BY <2>2, <2>5, <3>1, <3>2
  <2>8. (results # {} => best \in results) /\ (results = {} => best = Nothing(needs))
    BY <2>4, <2>7, FewestGapsIs
  <2> HIDE DEF best, r
  <2>9. CartServes(best, N)
    <3>1. CartServes(Nothing(needs), N)
      BY NothingServes
    <3> QED
      BY <2>7, <2>8, <3>1
  <2> QED
    BY <2>1, <2>9 DEF r
<1> QED
  BY <1>4, <1>5

\* So do what a store sells, and the trip for what it lacks.
LEMMA FirstStopServes ==
  ASSUME NEW n \in Nat, NEW needs, IsNeeds(needs, n), NEW stores, IsStores(stores), NEW config,
         Wants(config), NEW candidates, IsCandidates(candidates, n, stores, config),
         Supplied(needs, candidates, n),
         NEW eligible, IsEligible(eligible, stores, config), NEW s
  PROVE  CartServes(FirstStop(needs, candidates, s, eligible, stores, config), AllOf(needs, n))
<1> DEFINE r == FirstStop(needs, candidates, s, eligible, stores, config)
           assigned == [i \in DOMAIN needs |->
                          [need |-> needs[i],
                           sel |-> IF s \in DOMAIN candidates[i] THEN candidates[i][s] ELSE None]]
           P == {i \in DOMAIN assigned : s \in DOMAIN candidates[i]}
           L == {i \in DOMAIN needs : s \notin DOMAIN candidates[i]}
           C == {i \in DOMAIN candidates : s \notin DOMAIN candidates[i]}
           b == Pick(assigned, InOrderOf(P))
           lacking == Pick(needs, InOrderOf(L))
           served == Pick(candidates, InOrderOf(L))
           here == {needs[i] : i \in P}
           there == {needs[i] : i \in L}
<1>1. DOMAIN needs = 1..n /\ DOMAIN candidates = 1..n /\ \A i \in 1..n : IsNeed(needs[i])
  BY DEF IsNeeds, IsCandidates
<1>2. /\ C = L /\ L \in SUBSET (1..n) /\ P \in SUBSET (1..n)
      /\ \A i \in P, j \in L : i # j
  BY <1>1
<1>3. /\ r.plan = BuildPlan(b, stores, config)
      /\ r.second = MinimumSecondTrip(lacking, Pick(candidates, InOrderOf(C)), eligible,
                                      stores, config)
  BY DEF FirstStop, At, InOrderOf
<1>4. /\ \A i \in 1..n : \A t \in DOMAIN candidates[i] : Covers(candidates[i][t], needs[i])
      /\ \A i, j \in 1..n : needs[i].sources = needs[j].sources => i = j
  BY DEF Supplied
<1>5. OfOthers(here, there) /\ here \in SUBSET AllOf(needs, n) /\ there \in SUBSET AllOf(needs, n)
  <2> HIDE DEF P, L
  <2>1. here \in SUBSET AllOf(needs, n) /\ there \in SUBSET AllOf(needs, n)
    BY <1>2 DEF AllOf
  <2>2. \A i \in P, j \in L : needs[i].sources # needs[j].sources
    BY <1>2, <1>4
  <2> QED
    BY <2>1, <2>2 DEF OfOthers
<1>6. PlanServes(r.plan, here)
  <2> DEFINE m == Cardinality(P)
             q == InOrderOf(P)
  <2>1. /\ m \in Nat /\ b = [k \in 1..m |-> b[k]]
        /\ ListsOnce(q, P)
        /\ \A k \in 1..m : q[k] \in P /\ b[k] = assigned[q[k]]
    <3> HIDE DEF P, assigned, L, C, r
    <3> QED
      BY <1>2, PickedAt
  <2>2. \A i \in P : /\ i \in 1..n /\ assigned[i].need = needs[i]
                     /\ assigned[i].sel = candidates[i][s] /\ s \in DOMAIN candidates[i]
    BY <1>1
  <2>3. \A i \in 1..n : IsServed(candidates[i], stores, config)
    BY DEF IsCandidates
  <2> HIDE DEF m, q, b, P, assigned
  <2>4. \A k \in 1..m : /\ IsNeed(b[k].need)
                        /\ \E c : /\ IsServed(c, stores, config)
                                  /\ \E t \in DOMAIN c : b[k].sel = c[t]
    BY <1>1, <2>1, <2>2, <2>3
  <2>5. IsAssignments(b, m, stores, config)
    <3>1. m \in Nat /\ b = [k \in 1..m |-> b[k]]
      BY <2>1
    <3> QED
      BY <2>4, <3>1, BoughtIs
  <2>6. \A k \in 1..m : b[k].need = needs[q[k]] /\ b[k].sel = candidates[q[k]][s]
                        /\ q[k] \in 1..n /\ s \in DOMAIN candidates[q[k]]
    BY <2>1, <2>2
  <2>7. Supplies(b, m)
    <3>1. \A k \in 1..m : IsNeed(b[k].need) /\ Covers(b[k].sel, b[k].need)
      BY <1>1, <1>4, <2>6
    <3>2. ASSUME NEW j \in 1..m, NEW k \in 1..m, b[j].need.sources = b[k].need.sources
          PROVE  j = k
      <4>1. q[j] = q[k]
        BY <1>4, <2>6, <3>2
      <4>2. DOMAIN q = 1..m
        BY <2>1 DEF ListsOnce, m
      <4> QED
        BY <2>1, <4>1, <4>2 DEF ListsOnce
    <3> QED
      BY <3>1, <3>2 DEF Supplies
  <2>8. NeedsIn(b, m) = here
    <3>1. \A i \in P : \E k \in 1..m : q[k] = i
      <4>1. DOMAIN q = 1..m
        BY <2>1 DEF ListsOnce, m
      <4> QED
        BY <2>1, <4>1 DEF ListsOnce
    <3>2. \A k \in 1..m : q[k] \in P
      BY <2>1
    <3> QED
      BY <2>6, <3>1, <3>2 DEF NeedsIn
  <2>9. PlanServes(BuildPlan(b, stores, config), NeedsIn(b, m))
    <3>1. m \in Nat
      BY <2>1
    <3> QED
      BY <2>5, <2>7, <3>1, BuiltServes
  <2> QED
    BY <1>3, <2>8, <2>9
<1>7. ASSUME r.second # None PROVE PlanServes(r.second, there)
  <2> DEFINE m == Cardinality(L)
  <2>1. m \in Nat /\ IsNeeds(lacking, m) /\ IsCandidates(served, m, stores, config)
    BY <1>2, PickedNeeds
  <2>2. Supplied(lacking, served, m) /\ AllOf(lacking, m) = there
    <3> HIDE DEF L
    <3> QED
      BY <1>2, PickedSupplied
  <2> HIDE DEF lacking, served, L, C, r, m, there
  <2>3. r.second = MinimumSecondTrip(lacking, served, eligible, stores, config)
    BY <1>2, <1>3 DEF served
  <2>4. PICK t \in eligible : r.second = SingleStorePlan(lacking, served, t, stores, config)
    BY <1>7, <2>1, <2>3, SecondTripIs
  <2>5. SingleStorePlan(lacking, served, t, stores, config) # None
    BY <1>7, <2>4
  <2>6. PlanServes(SingleStorePlan(lacking, served, t, stores, config), AllOf(lacking, m))
    BY <2>1, <2>2, <2>5, SingleStoreServes
  <2> QED
    BY <2>2, <2>4, <2>6
<1> HIDE DEF here, there, r
<1> QED
  BY <1>5, <1>6, <1>7 DEF CartServes, r

\* The cart of each mode serves.
LEMMA ModeServes ==
  ASSUME NEW n \in Nat, NEW needs, IsNeeds(needs, n), NEW stores, IsStores(stores), NEW config,
         IsConfig(config), NEW candidates, IsCandidates(candidates, n, stores, config),
         Supplied(needs, candidates, n),
         NEW eligible, IsEligible(eligible, stores, config),
         \A i \in 1..n : DOMAIN candidates[i] \in SUBSET eligible
  PROVE  CartServes(CartOfMode(needs, candidates, eligible, stores, config), AllOf(needs, n))
<1> DEFINE r == CartOfMode(needs, candidates, eligible, stores, config)
           N == AllOf(needs, n)
           single == BestSingleStop(needs, candidates, eligible, stores, config)
           custom == BestCustomConstrained(needs, candidates, eligible, stores, config)
           P == {i \in DOMAIN needs : candidates[i] # <<>>}
           C == {i \in DOMAIN candidates : candidates[i] # <<>>}
           L == {i \in DOMAIN needs : ~(candidates[i] # <<>>)}
           other == [plan |-> BestPlan(SearchFrom(Pick(needs, InOrderOf(P)),
                                                  Pick(candidates, InOrderOf(C)), stores, config)),
                     gaps |-> Labels(Pick(needs, InOrderOf(L))), second |-> None]
           whole == config.mode = "custom" /\ config.maxStores # None
<1>1. /\ config.mode = "single_stop" => r = single
      /\ config.mode # "single_stop" /\ whole => r = custom
      /\ config.mode # "single_stop" /\ ~whole => r = other
  BY DEF CartOfMode, At, InOrderOf
<1>2. eligible \in SUBSET DOMAIN stores /\ Wants(config)
  BY DEF IsEligible, IsConfig
<1>3. ASSUME config.mode = "single_stop" PROVE CartServes(single, N)
  <2> DEFINE useful == {s \in eligible : \E i \in DOMAIN needs : s \in DOMAIN candidates[i]}
  <2>1. /\ useful = {} => single = Nothing(needs)
        /\ useful # {} => \E s \in useful :
             single = FirstStop(needs, candidates, s, eligible, stores, config)
    BY <1>2, SingleStopIs
  <2> HIDE DEF single, N, useful
  <2>2. CartServes(Nothing(needs), N)
    BY NothingServes
  <2>3. \A s \in useful : CartServes(FirstStop(needs, candidates, s, eligible, stores, config), N)
    BY <1>2, FirstStopServes DEF N
  <2> QED
    BY <2>1, <2>2, <2>3
<1>4. CartServes(custom, N)
  BY <1>2, CustomServes
<1>5. ASSUME config.mode # "single_stop", ~whole PROVE CartServes(other, N)
  <2>1. DOMAIN needs = 1..n /\ DOMAIN candidates = 1..n
    BY DEF IsNeeds, IsCandidates
  <2>2. P = Available(candidates, n) /\ C = P
    BY <2>1 DEF Available
  <2>3. StoreLimit(config) = None
    BY <1>5 DEF StoreLimit
  <2> DEFINE plan == BestPlan(SearchFrom(Pick(needs, InOrderOf(P)),
                                         Pick(candidates, InOrderOf(P)), stores, config))
  <2>4. other.plan = plan /\ other.second = None
    BY <2>2
  <2> HIDE DEF other, P, C, L, N
  <2>5. IsForSome(plan, needs, candidates, n, stores)
    <3>1. P = Available(candidates, n)
      BY <2>2
    <3> QED
      BY <1>2, <2>3, <3>1, AvailableIs
  <2> HIDE DEF plan
  <2>6. \E M \in SUBSET AllOf(needs, n) : PlanServes(plan, M)
    BY <2>1, <2>5, ForSomeServes
  <2> QED
    BY <2>4, <2>6, OneTripServes DEF N
<1> HIDE DEF r, single, custom, other, whole, N
<1>6. CartServes(r, N)
  BY <1>1, <1>3, <1>4, <1>5
<1> QED
  BY <1>6 DEF r, N

\* A cart serves some of the needs it was built for, whatever sells.
LEMMA OptimizeServes ==
  ASSUME NEW n \in Nat, NEW needs, IsNeeds(needs, n), NEW offers, IsOffers(offers), NEW stores,
         IsStores(stores), NEW config, IsConfig(config), NEW skusFor,
         \A i, j \in 1..n : needs[i].sources = needs[j].sources => i = j
  PROVE  CartServes(OptimizeCart(needs, offers, stores, config, skusFor), AllOf(needs, n))
<1> DEFINE eligible == EligibleStores(stores, config)
           sells == CandidateSelections(needs, offers, eligible, skusFor)
           cart == CartOfMode(needs, sells, eligible, stores, config)
           tradeoffs == FulfillmentTradeoffs(needs, offers, stores, config, skusFor)
           r == OptimizeCart(needs, offers, stores, config, skusFor)
<1>1. r = ResultOf(cart, config.budget, tradeoffs)
  BY DEF OptimizeCart
<1>2. IsEligible(eligible, stores, config)
  BY EligibleIs
<1> HIDE DEF eligible, tradeoffs, r
<1>3. IsCandidates(sells, n, stores, config)
  BY <1>2, CandidatesAre
<1>4. \A i \in 1..n : DOMAIN sells[i] \in SUBSET eligible
  BY <1>2, CandidatesAre
<1>5. Supplied(needs, sells, n)
  BY CandidatesCover
<1> HIDE DEF sells
<1>6. IsCart(cart)
  BY <1>2, <1>3, <1>4, CartOfModeIs
<1>7. CartServes(cart, AllOf(needs, n))
  BY <1>2, <1>3, <1>4, <1>5, ModeServes
<1> HIDE DEF cart
<1>8. r.plan = cart.plan /\ r.second = cart.second
  BY <1>1, <1>6, ResultIs
<1> QED
  BY <1>7, <1>8 DEF CartServes, r

\* Joined, sequences have the members of all of them.
LEMMA JoinedMembers ==
  ASSUME NEW n \in Nat \ {0}, NEW seqs, seqs = [i \in 1..n |-> seqs[i]],
         \A i \in 1..n : seqs[i] \in Seq(ToSet(seqs[i]))
  PROVE  ToSet(FlattenSeq(seqs)) = UNION {ToSet(seqs[i]) : i \in 1..n}
<1> DEFINE X == UNION {ToSet(seqs[i]) : i \in 1..n}
           upTo(i) == UNION {ToSet(seqs[j]) : j \in 1..i}
<1>1. seqs \in [1..n -> Seq(X)]
  <2>1. ASSUME NEW i \in 1..n PROVE seqs[i] \in Seq(X)
    <3> DEFINE t == seqs[i]
               T == ToSet(t)
    <3>1. t \in Seq(T) /\ T \in SUBSET X
      OBVIOUS
    <3> HIDE DEF t, T, X
    <3>2. \A a, b : a \in SUBSET b => \A u \in Seq(a) : u \in Seq(b)
      <4>1. \A a : Seq(a) = UNION {[1..k -> a] : k \in Nat}
        OBVIOUS
      <4> QED
        BY <4>1
    <3>3. t \in Seq(X)
      BY <3>1, <3>2
    <3> QED
      BY <3>3 DEF t
  <2> HIDE DEF X
  <2> QED
    BY <2>1
<1> HIDE DEF X
<1>2. PICK f : JoinedUpTo(f, n, seqs) /\ FlattenSeq(seqs) = f[n]
  BY <1>1, FlattenIs
<1>3. \A i \in 1..n : f[i] = IF i = 1 THEN seqs[i] ELSE f[i - 1] \o seqs[i]
  BY <1>2 DEF JoinedUpTo
<1> DEFINE H == {i \in 0..n : i = 0 \/ (f[i] \in Seq(X) /\ ToSet(f[i]) = upTo(i))}
<1>4. 0 \in H
  OBVIOUS
<1>5. ASSUME NEW i \in 1..n, i - 1 \in H PROVE i \in H
  <2> SUFFICES f[i] \in Seq(X) /\ ToSet(f[i]) = upTo(i)
    <3> HIDE DEF upTo
    <3> QED
      OBVIOUS
  <2>1. seqs[i] \in Seq(X)
    BY <1>1
  <2>2. CASE i = 1
    <3>1. upTo(i) = ToSet(seqs[i])
      BY <2>2
    <3> HIDE DEF upTo
    <3> QED
      BY <1>3, <2>1, <2>2, <3>1
  <2>3. CASE i # 1
    <3> DEFINE s == f[i - 1]
               t == seqs[i]
    <3>1. f[i] = s \o t
      BY <1>3, <2>3
    <3>2. s \in Seq(X) /\ ToSet(s) = upTo(i - 1)
      <4> HIDE DEF upTo
      <4> QED
        BY <1>5, <2>3
    <3>3. upTo(i) = upTo(i - 1) \cup ToSet(t)
      <4>1. 1..i = (1..(i - 1)) \cup {i}
        OBVIOUS
      <4> QED
        BY <4>1
    <3> HIDE DEF upTo, s, t
    <3>4. t \in Seq(X)
      BY <2>1 DEF t
    <3>5. s \o t \in Seq(X) /\ ToSet(s \o t) = ToSet(s) \cup ToSet(t)
      <4>1. /\ s \o t \in Seq(X) /\ Len(s \o t) = Len(s) + Len(t)
            /\ \A k \in 1..Len(s) : (s \o t)[k] = s[k]
            /\ \A k \in (Len(s) + 1)..(Len(s) + Len(t)) : (s \o t)[k] = t[k - Len(s)]
        BY <3>2, <3>4, JoinedIs
      <4> DEFINE u == s \o t
      <4> HIDE DEF u
      <4>2. /\ Len(s) \in Nat /\ Len(t) \in Nat /\ DOMAIN s = 1..Len(s) /\ DOMAIN t = 1..Len(t)
            /\ DOMAIN u = 1..(Len(s) + Len(t))
        BY <3>2, <3>4, <4>1 DEF u
      <4>3. \A k \in DOMAIN u : u[k] \in ToSet(s) \cup ToSet(t)
        <5> SUFFICES ASSUME NEW k \in DOMAIN u PROVE u[k] \in ToSet(s) \cup ToSet(t)
          OBVIOUS
        <5>1. CASE k <= Len(s)
          BY <4>1, <4>2, <5>1 DEF ToSet, u
        <5>2. CASE k > Len(s)
          <6>1. k - Len(s) \in DOMAIN t /\ u[k] = t[k - Len(s)]
            BY <4>1, <4>2, <5>2 DEF u
          <6> QED
            BY <6>1 DEF ToSet
        <5> QED
          BY <4>2, <5>1, <5>2
      <4>4. \A k \in DOMAIN s : k \in DOMAIN u /\ u[k] = s[k]
        BY <4>1, <4>2 DEF u
      <4>5. \A k \in DOMAIN t : k + Len(s) \in DOMAIN u /\ u[k + Len(s)] = t[k]
        <5> SUFFICES ASSUME NEW k \in DOMAIN t
                     PROVE  k + Len(s) \in DOMAIN u /\ u[k + Len(s)] = t[k]
          OBVIOUS
        <5>1. k + Len(s) \in (Len(s) + 1)..(Len(s) + Len(t)) /\ k + Len(s) - Len(s) = k
          BY <4>2
        <5>2. u[k + Len(s)] = t[k + Len(s) - Len(s)]
          BY <4>1, <5>1 DEF u
        <5> QED
          BY <4>2, <5>1, <5>2
      <4>6. ToSet(u) = ToSet(s) \cup ToSet(t)
        BY <4>3, <4>4, <4>5 DEF ToSet
      <4> QED
        BY <4>1, <4>6 DEF u
    <3> QED
      BY <3>1, <3>2, <3>3, <3>5 DEF t
  <2> QED
    BY <2>2, <2>3
<1>6. n \in H
  <2>1. \A i \in 1..n : i - 1 \in H => i \in H
    BY <1>5
  <2> HIDE DEF H
  <2>2. \A i \in 0..n : i \in H
    BY <1>4, <2>1, StepByStep
  <2> QED
    BY <2>2
<1>7. ToSet(f[n]) = upTo(n)
  <2> HIDE DEF upTo
  <2> QED
    BY <1>6
<1> QED
  BY <1>2, <1>7

\* What a group of matches asks for comes from the lines of all of them.
LEMMA MergedSources ==
  ASSUME NEW k \in Nat \ {0}, NEW g, g = [j \in 1..k |-> g[j]],
         \A j \in 1..k : /\ IsNeed(g[j].need)
                         /\ g[j].need.sources \in Seq(ToSet(g[j].need.sources)),
         NEW offer
  PROVE  ToSet(MergeNeeds(g, offer).sources) = UNION {ToSet(g[j].need.sources) : j \in 1..k}
<1> DEFINE needs == Needs(g)
           first == needs[1]
           merged == MergeNeeds(g, offer)
           seqs == [i \in DOMAIN needs |-> needs[i].sources]
           names == {"label", "quantity", "brand", "allocatedTo", "sources", "variant"}
<1>1. DOMAIN needs = 1..k /\ \A i \in 1..k : needs[i] = g[i].need
  BY DEF Needs
<1>2. names \in SUBSET DOMAIN first
  <2>1. 1 \in 1..k
    OBVIOUS
  <2>2. IsNeed(first)
    BY <1>1, <2>1
  <2> HIDE DEF first
  <2> QED
    BY <2>2 DEF IsNeed
<1> HIDE DEF needs
<1>3. merged.sources = FlattenSeq(seqs)
  <2> DEFINE brands == {needs[i].brand : i \in DOMAIN needs} \ {None}
             q == SumFunction([i \in DOMAIN needs |-> needs[i].quantity])
             b == IF brands = {} THEN None
                  ELSE IF Cardinality(brands) = 1 THEN CHOOSE x \in brands : TRUE ELSE offer.brand
             a == SumByChild([i \in DOMAIN needs |-> needs[i].allocatedTo])
             s == FlattenSeq(seqs)
             v == IF \A i \in DOMAIN needs : needs[i].variant = first.variant
                  THEN first.variant ELSE None
  <2>1. merged = [first EXCEPT !.quantity = q, !.brand = b, !.allocatedTo = a, !.sources = s,
                               !.variant = v]
    BY DEF MergeNeeds, needs
  <2> HIDE DEF q, b, a, s, v, first, merged
  <2>2. merged.sources = s
    BY <1>2, <2>1
  <2> QED
    BY <2>2 DEF s
<1> HIDE DEF merged, first
<1>4. seqs = [i \in 1..k |-> seqs[i]] /\ \A i \in 1..k : seqs[i] = g[i].need.sources
  BY <1>1
<1> HIDE DEF seqs
<1>5. \A i \in 1..k : seqs[i] \in Seq(ToSet(seqs[i]))
  BY <1>4
<1>6. ToSet(FlattenSeq(seqs)) = UNION {ToSet(seqs[i]) : i \in 1..k}
  BY <1>4, <1>5, JoinedMembers
<1>7. {ToSet(seqs[i]) : i \in 1..k} = {ToSet(g[j].need.sources) : j \in 1..k}
  BY <1>4
<1> QED
  BY <1>3, <1>6, <1>7 DEF merged

\* Something is bought as finitely many products.
LEMMA SkusAreFinite ==
  ASSUME NEW r, IsResult(r), NEW sources
  PROVE  IsFiniteSet(SkusOf(r, sources))
<1> DEFINE lines == SelectedLines(r)
           D == DOMAIN lines
           at == {lines[k].sku : k \in D}
<1>1. D = 1..Len(lines) /\ Len(lines) \in Nat
  BY SelectedLinesAre
<1>2. IsFiniteSet(D)
  BY <1>1, FS_Interval
<1>3. SkusOf(r, sources) \in SUBSET at
  BY DEF SkusOf, ToSet
<1> DEFINE f == [k \in D |-> lines[k].sku]
<1>4. at = {f[k] : k \in D}
  OBVIOUS
<1> HIDE DEF D, f, at
<1>5. IsFiniteSet(at)
  BY <1>2, <1>4, ImageIsFinite
<1> QED
  BY <1>3, <1>5, FS_Subset

\* After merging, needs still come from different lines.
LEMMA MergedApart ==
  ASSUME NEW n \in Nat, NEW matches, IsMatches(matches), Len(matches) = n,
         NEW r, IsResult(r), NEW offers
  PROVE  LET merged == ConsolidateSelectedSkus(matches, r, offers)
         IN  \E m \in Nat : /\ DOMAIN merged = 1..m
                            /\ \A j, k \in 1..m :
                                 merged[j].need.sources = merged[k].need.sources => j = k
<1> DEFINE merged == ConsolidateSelectedSkus(matches, r, offers)
           only(x) == SkusOf(r, x.need.sources)
           sku(x) == CHOOSE s \in only(x) : TRUE
           group(x) == BoughtAs(matches, r, sku(x))
           merges(x) == Cardinality(only(x)) = 1 /\ MayMerge(group(x), sku(x))
           offer(x) == CHOOSE o \in offers : o.sku \in only(x)
           becomes(x) == IF merges(x) THEN MergeMatches(group(x), offer(x)) ELSE x
           seq == [i \in DOMAIN matches |-> becomes(matches[i])]
           first(i) == merges(matches[i]) =>
                         \A j \in 1..(i - 1) : only(matches[j]) # only(matches[i])
           P == {i \in DOMAIN seq : first(i)}
           q == InOrderOf(P)
           m == Cardinality(P)
           T == [i \in 1..n |-> ToSet(matches[i].need.sources)]
           G(i) == IF merges(matches[i])
                   THEN {h \in 1..n : only(matches[h]) = {sku(matches[i])}} ELSE {i}
<1>1. merged = Pick(seq, q)
  BY DEF ConsolidateSelectedSkus, At, InOrderOf
<1>2. DOMAIN matches = 1..n /\ \A i \in 1..n : IsNeed(matches[i].need)
  BY DEF IsMatches
<1>3. DOMAIN seq = 1..n /\ \A i \in 1..n : seq[i] = becomes(matches[i])
  BY <1>2
<1>4. P \in SUBSET (1..n) /\ \A i \in P : first(i)
  BY <1>3
<1>5. /\ \A i \in 1..n : T[i] = ToSet(matches[i].need.sources) /\ T[i] # {}
      /\ \A i \in 1..n : matches[i].need.sources \in Seq(T[i])
      /\ \A i, j \in 1..n : T[i] \cap T[j] # {} => i = j
  <2> DEFINE s == [i \in 1..n |-> matches[i].need.sources]
  <2>1. AreApart(s, n)
    BY DEF IsMatches
  <2>2. \A i \in 1..n : s[i] = matches[i].need.sources /\ T[i] = ToSet(s[i])
    OBVIOUS
  <2> HIDE DEF s, T
  <2>3. \A i \in 1..n : ToSet(s[i]) # {}
    BY <2>1, ApartAre
  <2>4. /\ \A i \in 1..n : s[i] \in Seq(ToSet(s[i]))
        /\ \A i, j \in 1..n : ToSet(s[i]) \cap ToSet(s[j]) # {} => i = j
    BY <2>1 DEF AreApart
  <2>5. \A i, j \in 1..n : T[i] \cap T[j] # {} => i = j
    BY <2>2, <2>4
  <2>6. \A i \in 1..n : s[i] \in Seq(T[i])
    BY <2>2, <2>4
  <2> QED
    BY <2>2, <2>3, <2>5, <2>6
<1> HIDE DEF T
<1>6. ASSUME NEW i \in 1..n, merges(matches[i]) PROVE only(matches[i]) = {sku(matches[i])}
  <2> DEFINE o == only(matches[i])
  <2>1. Cardinality(o) = 1
    BY <1>6
  <2> HIDE DEF o
  <2>2. \E x : o = {x}
    <3>1. IsFiniteSet(o)
      BY SkusAreFinite DEF o
    <3> QED
      BY <2>1, <3>1, FS_Singleton
  <2>3. o = {CHOOSE x \in o : TRUE}
    BY <2>2
  <2> QED
    BY <2>3 DEF o
<1>7. \A i \in 1..n : i \in G(i)
  BY <1>6
<1>8. ASSUME NEW i \in 1..n
      PROVE  ToSet(becomes(matches[i]).need.sources) = UNION {T[h] : h \in G(i)}
  <2> DEFINE x == matches[i]
             S == OnlyAs(matches, r, sku(x))
             g == group(x)
             k == Cardinality(S)
  <2>1. CASE ~merges(x)
    <3>1. becomes(matches[i]) = matches[i] /\ G(i) = {i}
      BY <2>1
    <3>2. T[i] = ToSet(matches[i].need.sources)
      BY <1>5
    <3> HIDE DEF G, becomes, merges, only
    <3>3. UNION {T[h] : h \in {i}} = T[i]
      OBVIOUS
    <3> QED
      BY <3>1, <3>2, <3>3
  <2>2. CASE merges(x)
    <3>1. Len(g) >= 2
      BY <2>2 DEF MayMerge
    <3>2. becomes(x).need = MergeNeeds(g, offer(x))
      BY <2>2 DEF MergeMatches
    <3>3. ListsOnce(g, S) /\ DOMAIN g = 1..k /\ k \in Nat /\ g = [j \in 1..k |-> g[j]]
      BY GroupIs
    <3>4. S = {matches[h] : h \in G(i)}
      <4>1. ToSet(matches) = {matches[h] : h \in 1..n}
        BY <1>2 DEF ToSet
      <4>2. S = {y \in {matches[h] : h \in 1..n} : only(y) = {sku(x)}}
        BY <4>1 DEF OnlyAs
      <4>3. G(i) = {h \in 1..n : only(matches[h]) = {sku(x)}}
        BY <2>2
      <4> HIDE DEF S, only, sku, G
      <4> QED
        BY <4>2, <4>3
    <3>5. G(i) \in SUBSET (1..n)
      OBVIOUS
    <3> HIDE DEF g, S, k, G, offer, merges, becomes
    <3>6. k \in Nat \ {0}
      <4>1. Len(g) = k
        BY <3>3
      <4> QED
        BY <3>1, <3>3, <4>1
    <3>7. \A y \in S : IsNeed(y.need) /\ y.need.sources \in Seq(ToSet(y.need.sources))
      BY <1>2, <1>5, <3>4, <3>5
    <3>8. \A j \in 1..k : g[j] \in S
      BY <3>3 DEF ListsOnce
    <3>9. \A y \in S : \E j \in 1..k : g[j] = y
      BY <3>3 DEF ListsOnce
    <3>10. \A j \in 1..k : /\ IsNeed(g[j].need)
                           /\ g[j].need.sources \in Seq(ToSet(g[j].need.sources))
      BY <3>7, <3>8
    <3>11. ToSet(MergeNeeds(g, offer(x)).sources) = UNION {ToSet(g[j].need.sources) : j \in 1..k}
      BY <3>3, <3>6, <3>10, MergedSources
    <3>12. {ToSet(g[j].need.sources) : j \in 1..k} = {ToSet(y.need.sources) : y \in S}
      BY <3>8, <3>9
    <3>13. {ToSet(y.need.sources) : y \in S} = {T[h] : h \in G(i)}
      BY <1>5, <3>4, <3>5
    <3> QED
      BY <3>2, <3>11, <3>12, <3>13
  <2> QED
    BY <2>1, <2>2
<1>9. ASSUME NEW i \in P, NEW j \in P,
             becomes(matches[i]).need.sources = becomes(matches[j]).need.sources
      PROVE  i = j
  <2>1. i \in 1..n /\ j \in 1..n /\ first(i) /\ first(j)
    BY <1>4
  <2>2. UNION {T[h] : h \in G(i)} = UNION {T[h] : h \in G(j)}
    BY <1>8, <1>9, <2>1, ZenonT(30)
  <2>3. G(i) \in SUBSET (1..n) /\ G(j) \in SUBSET (1..n)
    BY <2>1
  <2>4. i \in G(i) /\ j \in G(j)
    BY <1>7, <2>1
  <2>5. /\ i \in G(j) => i = j \/ (merges(matches[j]) /\ only(matches[i]) = {sku(matches[j])})
        /\ j \in G(i) => i = j \/ (merges(matches[i]) /\ only(matches[j]) = {sku(matches[i])})
    OBVIOUS
  <2> HIDE DEF G, P, becomes
  <2>6. ASSUME NEW h \in 1..n, NEW A, NEW B, A \in SUBSET (1..n), B \in SUBSET (1..n),
               UNION {T[x] : x \in A} = UNION {T[x] : x \in B}, h \in A
        PROVE  h \in B
    <3>1. PICK e : e \in T[h]
      BY <1>5
    <3>2. e \in UNION {T[x] : x \in B}
      BY <2>6, <3>1
    <3>3. PICK y \in B : e \in T[y]
      BY <3>2
    <3>4. T[h] \cap T[y] # {} /\ y \in 1..n
      BY <2>6, <3>1, <3>3
    <3>5. h = y
      BY <1>5, <3>4
    <3> QED
      BY <3>5
  <2>7. i \in G(j)
    BY <2>1, <2>2, <2>3, <2>4, <2>6
  <2>8. j \in G(i)
    BY <2>1, <2>2, <2>3, <2>4, <2>6
  <2>9. ASSUME i # j PROVE FALSE
    <3>1. merges(matches[j]) /\ only(matches[i]) = {sku(matches[j])}
      BY <2>5, <2>7, <2>9
    <3>2. only(matches[j]) = {sku(matches[j])}
      BY <1>6, <2>1, <3>1
    <3>3. only(matches[i]) = only(matches[j])
      BY <3>1, <3>2
    <3>4. merges(matches[i])
      BY <2>5, <2>8, <2>9
    <3> HIDE DEF merges, only, sku
    <3>5. CASE i < j
      <4>1. i \in 1..(j - 1)
        BY <2>1, <3>5
      <4> QED
        BY <2>1, <3>1, <3>3, <4>1
    <3>6. CASE j < i
      <4>1. j \in 1..(i - 1)
        BY <2>1, <3>6
      <4> QED
        BY <2>1, <3>3, <3>4, <4>1
    <3> QED
      BY <2>1, <2>9, <3>5, <3>6
  <2> QED
    BY <2>9
<1> HIDE DEF P, seq, becomes, first
<1>10. /\ m \in Nat /\ DOMAIN merged = 1..m
       /\ ListsOnce(q, P)
       /\ \A k \in 1..m : q[k] \in P /\ merged[k] = seq[q[k]]
  BY <1>1, <1>4, PickedAt
<1>11. \A j, k \in 1..m : q[j] = q[k] => j = k
  <2>1. DOMAIN q = 1..m
    BY <1>10 DEF ListsOnce
  <2> QED
    BY <1>10, <2>1 DEF ListsOnce
<1> HIDE DEF merged, q, m
<1>12. ASSUME NEW j \in 1..m, NEW k \in 1..m, merged[j].need.sources = merged[k].need.sources
       PROVE  j = k
  <2>1. /\ q[j] \in P /\ q[k] \in P /\ q[j] \in 1..n /\ q[k] \in 1..n
        /\ merged[j] = becomes(matches[q[j]]) /\ merged[k] = becomes(matches[q[k]])
    BY <1>3, <1>4, <1>10
  <2>2. q[j] = q[k]
    BY <1>9, <1>12, <2>1
  <2> QED
    BY <1>11, <2>2
<1> QED
  BY <1>10, <1>12 DEF merged

\* The lines of all trips serve some of the needs that the cart serves.
LEMMA SelectedServe ==
  ASSUME NEW r, NEW N, CartServes(r, N)
  PROVE  \E K \in SUBSET N : LinesServe(SelectedLines(r), K)
<1>1. PICK M \in SUBSET N, L \in SUBSET N :
        /\ OfOthers(M, L) /\ PlanServes(r.plan, M)
        /\ r.second # None => PlanServes(r.second, L)
  BY DEF CartServes
<1>2. CASE r.second = None
  BY <1>1, <1>2 DEF SelectedLines, PlanServes
<1>3. CASE r.second # None
  <2> DEFINE s == r.plan.lines
             t == r.second.lines
  <2>1. PICK X : s \in Seq(X)
    BY <1>1 DEF PlanServes
  <2>2. PICK Y : t \in Seq(Y)
    BY <1>1, <1>3 DEF PlanServes
  <2>3. LinesServe(s, M) /\ LinesServe(t, L)
    BY <1>1, <1>3 DEF PlanServes
  <2>4. SelectedLines(r) = s \o t
    BY <1>3 DEF SelectedLines
  <2> DEFINE Z == X \cup Y
  <2> HIDE DEF s, t
  <2>5. s \in Seq(Z) /\ t \in Seq(Z)
    <3>1. \A a : Seq(a) = UNION {[1..n -> a] : n \in Nat}
      OBVIOUS
    <3> QED
      BY <2>1, <2>2, <3>1
  <2> HIDE DEF Z
  <2>6. LinesServe(s \o t, M \cup L)
    BY <1>1, <2>3, <2>5, JoinedServe
  <2>7. M \cup L \in SUBSET N
    OBVIOUS
  <2> QED
    BY <2>4, <2>6, <2>7
<1> QED
  BY <1>2, <1>3

\* What the pipeline answers serves some of the needs as they are after merging,
\* which come from different lines.
LEMMA ConsolidatedServes ==
  ASSUME NEW n \in Nat, NEW matches, IsMatches(matches), Len(matches) = n,
         NEW offers, IsOffers(offers), NEW stores, IsStores(stores), NEW config, IsConfig(config)
  PROVE  LET a == OptimizeAndConsolidate(matches, offers, stores, config)
         IN  /\ \A j, k \in DOMAIN a.matches :
                  a.matches[j].need.sources = a.matches[k].need.sources => j = k
             /\ CartServes(a.result, {a.matches[k].need : k \in DOMAIN a.matches})
<1> DEFINE a == OptimizeAndConsolidate(matches, offers, stores, config)
           p == OptimizeWithMatchCandidates(matches, offers, stores, config)
           merged == ConsolidateSelectedSkus(matches, p, offers)
           again == OptimizeWithMatchCandidates(merged, offers, stores, config)
           needs == Needs(merged)
<1>1. /\ a.matches = merged
      /\ a.result = IF merged = matches THEN p ELSE again
  BY DEF OptimizeAndConsolidate, Consolidated, AfterMerging
<1>2. a.result = again
  BY <1>1
<1>3. IsResult(p)
  <2>1. IsNeeds(Needs(matches), n)
    BY NeedsOfMatches
  <2> QED
    BY <2>1, CandidatesAnswer
<1> HIDE DEF a, p
<1>4. PICK m \in Nat : IsNeeds(Needs(merged), m)
  BY <1>3, ConsolidatedAre
<1>5. \A j, k \in DOMAIN merged : merged[j].need.sources = merged[k].need.sources => j = k
  <2>1. PICK l \in Nat : /\ DOMAIN merged = 1..l
                         /\ \A j, k \in 1..l :
                              merged[j].need.sources = merged[k].need.sources => j = k
    BY <1>3, MergedApart
  <2> HIDE DEF merged
  <2> QED
    BY <2>1
<1> HIDE DEF merged
<1>6. /\ DOMAIN merged = 1..m /\ \A k \in 1..m : needs[k] = merged[k].need
      /\ IsNeeds(needs, m)
  <2>1. DOMAIN needs = 1..m
    BY <1>4 DEF IsNeeds
  <2>2. needs = [k \in DOMAIN merged |-> merged[k].need]
    BY DEF Needs
  <2> HIDE DEF needs
  <2>3. DOMAIN merged = 1..m
    BY <2>1, <2>2
  <2> QED
    BY <1>4, <2>2, <2>3 DEF needs
<1>7. IsAsked(again, needs, offers, stores)
  BY <1>4, CandidatesAnswer
<1> HIDE DEF again, needs
<1>8. PICK c, skusFor : IsConfig(c) /\ again = OptimizeCart(needs, offers, stores, c, skusFor)
  BY <1>7 DEF IsAsked
<1>9. \A j, k \in 1..m : needs[j].sources = needs[k].sources => j = k
  BY <1>5, <1>6
<1>10. CartServes(OptimizeCart(needs, offers, stores, c, skusFor), AllOf(needs, m))
  BY <1>6, <1>8, <1>9, OptimizeServes
<1>11. AllOf(needs, m) = {merged[k].need : k \in DOMAIN merged}
  BY <1>6 DEF AllOf
<1> QED
  BY <1>1, <1>2, <1>5, <1>8, <1>10, <1>11 DEF a

\* For all stores, offers, lists and wishes: each child gets exactly the units
\* its lists ask for of whatever is bought, over both trips, although packs are
\* shared, and needs merged that were bought as one product.
THEOREM UnitsReachTheChildrenAlways == Spec => []UnitsReachTheChildren
<1>1. AnswersInv => UnitsReachTheChildren
  <2> SUFFICES ASSUME AnswersInv, Answered("cart"), NEW i \in DOMAIN answer.matches,
                      Bought(answer.result, answer.matches[i])
               PROVE  LET m == answer.matches[i]
                          lines == SelectedLines(answer.result)
                          places == {k \in DOMAIN lines : lines[k].sources = m.need.sources}
                      IN  SumByChild([k \in places |-> lines[k].allocatedTo]) = m.need.allocatedTo
    BY DEF UnitsReachTheChildren
  <2> DEFINE ms == answer.matches
             N == {ms[k].need : k \in DOMAIN ms}
             lines == SelectedLines(answer.result)
             src == ms[i].need.sources
  <2>1. /\ \A j, k \in DOMAIN ms : ms[j].need.sources = ms[k].need.sources => j = k
        /\ CartServes(answer.result, N)
    <3> DEFINE a == OptimizeAndConsolidate(asked.matches, asked.offers, Stores, asked.config)
    <3>1. /\ IsMatches(asked.matches) /\ IsOffers(asked.offers) /\ IsConfig(asked.config)
          /\ IsStores(Stores) /\ Len(asked.matches) \in Nat /\ answer = a
      BY CartAnswer
    <3>2. /\ \A j, k \in DOMAIN a.matches :
               a.matches[j].need.sources = a.matches[k].need.sources => j = k
          /\ CartServes(a.result, {a.matches[k].need : k \in DOMAIN a.matches})
      BY <3>1, ConsolidatedServes
    <3> HIDE DEF a
    <3> QED
      BY <3>1, <3>2
  <2>2. PICK K \in SUBSET N : LinesServe(lines, K)
    BY <2>1, SelectedServe
  <2>3. \E k \in DOMAIN lines : lines[k].sources = src
    BY DEF Bought, SkusOf, ToSet
  <2> HIDE DEF lines
  <2>4. PICK need \in K : need.sources = src
    BY <2>2, <2>3 DEF LinesServe
  <2>5. need = ms[i].need
    BY <2>1, <2>4
  <2>6. SumByChild(UnitsFor(lines, src)) = ms[i].need.allocatedTo
    BY <2>2, <2>4, <2>5 DEF LinesServe
  <2>7. UnitsFor(lines, src)
          = [k \in {x \in DOMAIN lines : lines[x].sources = src} |-> lines[k].allocatedTo]
    BY DEF UnitsFor, ServedAt
  <2> QED
    BY <2>6, <2>7 DEF lines
<1> QED
  BY <1>1, AnswersAreGiven, PTL
=============================================================================
