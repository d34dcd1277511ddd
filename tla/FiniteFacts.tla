----------------------------- MODULE FiniteFacts -----------------------------
(* Facts about finite sets, least numbers and sums that the proofs of the    *)
(* components share.  Each is an induction over finite sets: of the sets for *)
(* which it fails, one contains no other, and for that one it holds.         *)
EXTENDS Integers, FiniteSets, FiniteSetsExt, Functions, FiniteSetTheorems,
        WellFoundedInduction, TLAPS

\* The values of a function on a finite set are finitely many.
LEMMA ImageIsFinite ==
  ASSUME NEW S, IsFiniteSet(S), NEW f
  PROVE  IsFiniteSet({f[x] : x \in S})
<1> DEFINE T == {f[x] : x \in S}
           g == [x \in S |-> f[x]]
<1>1. g \in Surjection(S, T)
  BY DEF Surjection
<1> HIDE DEF g
<1> QED
  BY <1>1, FS_Surjection

\* Among any subsets of a finite set there is one that contains no other.
LEMMA SmallestSubset ==
  ASSUME NEW S, IsFiniteSet(S), NEW U, U \subseteq SUBSET S, U # {}
  PROVE  \E T \in U : \A V \in U : V \subseteq T => V = T
<1>1. IsWellFoundedOn(StrictSubsetOrdering(S), FiniteSubsetsOf(S))
  BY FS_StrictSubsetOrderingWellFounded
<1>2. U \subseteq FiniteSubsetsOf(S)
  BY FS_Subset DEF FiniteSubsetsOf
<1>3. PICK T \in U : \A V \in U : <<V, T>> \notin StrictSubsetOrdering(S)
  BY <1>1, <1>2, WFMin
<1> QED
  BY <1>3 DEF StrictSubsetOrdering

\* Natural numbers have a least one.
LEMMA LeastNumber ==
  ASSUME NEW S \in SUBSET Nat, S # {}
  PROVE  \E m \in S : \A n \in S : m <= n
<1>1. PICK k \in S : TRUE
  OBVIOUS
<1> DEFINE U == {0..n : n \in {i \in S : i <= k}}
<1>2. IsFiniteSet(0..k)
  BY FS_Interval
<1>3. U \subseteq SUBSET (0..k) /\ U # {}
  BY <1>1
<1>4. \E T \in U : \A V \in U : V \subseteq T => V = T
  <2> DEFINE X == 0..k
  <2>1. IsFiniteSet(X) /\ U \subseteq SUBSET X /\ U # {}
    BY <1>2, <1>3
  <2> HIDE DEF U, X
  <2> QED
    BY <2>1, SmallestSubset
<1>5. PICK m \in S : m <= k /\ \A V \in U : V \subseteq 0..m => V = 0..m
  BY <1>4
<1>6. ASSUME NEW n \in S PROVE m <= n
  <2> SUFFICES ASSUME n < m PROVE FALSE
    OBVIOUS
  <2>1. 0..n \in U
    BY <1>5, <1>1
  <2>2. 0..n \subseteq 0..m /\ m \notin 0..n /\ m \in 0..m
    OBVIOUS
  <2> QED
    BY <2>1, <2>2, <1>5
<1> QED
  BY <1>6

-----------------------------------------------------------------------------
(* Sums of the values of a function, as the library adds them up *)

Picked(s) == CHOOSE x \in s : TRUE

\* h gives every subset of S the sum of f over it, element by element.
Sums(f, S, h) ==
  h = [s \in SUBSET S |->
         IF s = {} THEN 0 ELSE f[Picked(s)] + h[s \ {Picked(s)}]]

\* Of a set that is not empty one element can be picked.
LEMMA PickedOne ==
  ASSUME NEW s, s # {}
  PROVE  Picked(s) \in s /\ s \ {Picked(s)} \subseteq s /\ s \ {Picked(s)} # s
  BY DEF Picked

\* Two such functions agree wherever both are defined.
LEMMA SumsAgree ==
  ASSUME NEW S, IsFiniteSet(S), NEW T, NEW f, NEW g, NEW h,
         Sums(f, S, g), Sums(f, T, h), S \subseteq T
  PROVE  \A s \in SUBSET S : g[s] = h[s]
<1> DEFINE U == {s \in SUBSET S : g[s] # h[s]}
<1> SUFFICES ASSUME U # {} PROVE FALSE
  OBVIOUS
<1>1. PICK s \in U : \A v \in U : v \subseteq s => v = s
  <2>1. U \subseteq SUBSET S
    OBVIOUS
  <2> HIDE DEF U
  <2> QED
    BY <2>1, SmallestSubset
<1>2. s \subseteq S /\ s \subseteq T /\ g[s] # h[s]
  BY <1>1
<1>3. CASE s = {}
  BY <1>2, <1>3 DEF Sums
<1>4. CASE s # {}
  <2> DEFINE r == s \ {Picked(s)}
  <2>1. r \subseteq s /\ r # s
    BY <1>4, PickedOne
  <2>2. g[r] = h[r]
    BY <2>1, <1>1, <1>2
  <2>3. g[s] = f[Picked(s)] + g[r] /\ h[s] = f[Picked(s)] + h[r]
    BY <1>2, <1>4 DEF Sums
  <2> QED
    BY <2>2, <2>3, <1>2
<1> QED
  BY <1>3, <1>4

\* There is one for every finite set.
LEMMA SumsExist ==
  ASSUME NEW S, IsFiniteSet(S), NEW f
  PROVE  \E h : Sums(f, S, h)
<1> DEFINE U == {T \in SUBSET S : ~\E h : Sums(f, T, h)}
<1> SUFFICES ASSUME U # {} PROVE FALSE
  OBVIOUS
<1>1. PICK T \in U : \A V \in U : V \subseteq T => V = T
  <2>1. U \subseteq SUBSET S
    OBVIOUS
  <2> HIDE DEF U
  <2> QED
    BY <2>1, SmallestSubset
<1>2. T \subseteq S /\ IsFiniteSet(T) /\ ~(\E h : Sums(f, T, h))
  BY <1>1, FS_Subset
<1> DEFINE part(s) == CHOOSE h : Sums(f, s, h)
           below(s) == s \ {Picked(s)}
           whole == [s \in SUBSET T |->
                       IF s = {} THEN 0 ELSE f[Picked(s)] + part(below(s))[below(s)]]
<1>3. ASSUME NEW s \in SUBSET T, s # T PROVE Sums(f, s, part(s)) /\ IsFiniteSet(s)
  <2>1. \E h : Sums(f, s, h)
    BY <1>1, <1>2, <1>3
  <2> QED
    BY <2>1, <1>2, <1>3, FS_Subset
<1> HIDE DEF U, part
<1>4. ASSUME NEW s \in SUBSET T, s # T
      PROVE  whole[s] = part(s)[s]
  <2>1. Sums(f, s, part(s))
    BY <1>3, <1>4
  <2>2. CASE s = {}
    BY <2>1, <2>2 DEF Sums
  <2>3. CASE s # {}
    <3>1. below(s) \subseteq s /\ below(s) # s
      BY <2>3, PickedOne
    <3>2. below(s) \in SUBSET T /\ below(s) # T
      BY <3>1, <1>4
    <3>3. Sums(f, below(s), part(below(s))) /\ IsFiniteSet(below(s))
      BY <3>2, <1>3
    <3>4. part(below(s))[below(s)] = part(s)[below(s)]
      <4> HIDE DEF below
      <4>1. \A t \in SUBSET below(s) : part(below(s))[t] = part(s)[t]
        BY <2>1, <3>1, <3>3, SumsAgree
      <4> QED
        BY <4>1
    <3>5. part(s)[s] = f[Picked(s)] + part(s)[below(s)]
      BY <2>1, <2>3 DEF Sums
    <3> QED
      BY <3>4, <3>5, <2>3
  <2> QED
    BY <2>2, <2>3
<1>5. whole = [s \in SUBSET T |->
                 IF s = {} THEN 0 ELSE f[Picked(s)] + whole[below(s)]]
  <2> SUFFICES ASSUME NEW s \in SUBSET T, s # {}
               PROVE  whole[s] = f[Picked(s)] + whole[below(s)]
    OBVIOUS
  <2>1. below(s) \in SUBSET T /\ below(s) # T
    BY PickedOne
  <2>2. whole[below(s)] = part(below(s))[below(s)]
    BY <2>1, <1>4
  <2> QED
    BY <2>2
<1>6. Sums(f, T, whole)
  BY <1>5 DEF Sums
<1> QED
  BY <1>2, <1>6

\* What the library's sum is.
LEMMA SumIs ==
  ASSUME NEW S, IsFiniteSet(S), NEW f
  PROVE  \E h : Sums(f, S, h) /\ SumFunctionOnSet(f, S) = h[S]
<1> DEFINE h == CHOOSE g : Sums(f, S, g)
<1>1. Sums(f, S, h)
  BY SumsExist
<1>2. SumFunctionOnSet(f, S) = h[S]
  BY DEF SumFunctionOnSet, FoldFunctionOnSet, MapThenFoldSet, Sums, Picked
<1> QED
  BY <1>1, <1>2

\* The sum over nothing is zero.
LEMMA SumOfNone ==
  ASSUME NEW f PROVE SumFunctionOnSet(f, {}) = 0
<1>1. PICK h : Sums(f, {}, h) /\ SumFunctionOnSet(f, {}) = h[{}]
  BY SumIs, FS_EmptySet
<1> QED
  BY <1>1 DEF Sums

\* The sum over a set adds the chosen element to the sum over the others.
LEMMA SumByChoice ==
  ASSUME NEW S, IsFiniteSet(S), S # {}, NEW f
  PROVE  SumFunctionOnSet(f, S) = f[Picked(S)] + SumFunctionOnSet(f, S \ {Picked(S)})
<1> DEFINE R == S \ {Picked(S)}
<1>1. R \subseteq S /\ R # S /\ IsFiniteSet(R)
  BY PickedOne, FS_Subset
<1>2. PICK h : Sums(f, S, h) /\ SumFunctionOnSet(f, S) = h[S]
  BY SumIs
<1>3. PICK g : Sums(f, R, g) /\ SumFunctionOnSet(f, R) = g[R]
  <2> HIDE DEF R
  <2> QED
    BY <1>1, SumIs
<1>4. h[S] = f[Picked(S)] + h[R]
  BY <1>2 DEF Sums
<1>5. g[R] = h[R]
  <2> HIDE DEF R
  <2>1. \A s \in SUBSET R : g[s] = h[s]
    BY <1>1, <1>2, <1>3, SumsAgree
  <2> QED
    BY <2>1
<1> QED
  BY <1>2, <1>3, <1>4, <1>5

\* A sum of integers is one.
LEMMA SumInt ==
  ASSUME NEW S, IsFiniteSet(S), NEW f, \A x \in S : f[x] \in Int
  PROVE  SumFunctionOnSet(f, S) \in Int
<1> DEFINE U == {T \in SUBSET S : SumFunctionOnSet(f, T) \notin Int}
<1> SUFFICES ASSUME U # {} PROVE FALSE
  OBVIOUS
<1>1. PICK T \in U : \A V \in U : V \subseteq T => V = T
  <2>1. U \subseteq SUBSET S
    OBVIOUS
  <2> HIDE DEF U
  <2> QED
    BY <2>1, SmallestSubset
<1>2. T \subseteq S /\ IsFiniteSet(T) /\ SumFunctionOnSet(f, T) \notin Int
  BY <1>1, FS_Subset
<1>3. T # {}
  BY <1>2, SumOfNone
<1> DEFINE R == T \ {Picked(T)}
<1>4. R \subseteq T /\ R # T /\ Picked(T) \in S
  BY <1>2, <1>3, PickedOne
<1>5. SumFunctionOnSet(f, R) \in Int
  BY <1>1, <1>2, <1>4
<1>6. SumFunctionOnSet(f, T) = f[Picked(T)] + SumFunctionOnSet(f, R)
  BY <1>2, <1>3, SumByChoice
<1> HIDE DEF R, U
<1> QED
  BY <1>2, <1>4, <1>5, <1>6

\* A sum of natural numbers is one.
LEMMA SumNat ==
  ASSUME NEW S, IsFiniteSet(S), NEW f, \A x \in S : f[x] \in Nat
  PROVE  SumFunctionOnSet(f, S) \in Nat
<1> DEFINE U == {T \in SUBSET S : SumFunctionOnSet(f, T) \notin Nat}
<1> SUFFICES ASSUME U # {} PROVE FALSE
  OBVIOUS
<1>1. PICK T \in U : \A V \in U : V \subseteq T => V = T
  <2>1. U \subseteq SUBSET S
    OBVIOUS
  <2> HIDE DEF U
  <2> QED
    BY <2>1, SmallestSubset
<1>2. T \subseteq S /\ IsFiniteSet(T) /\ SumFunctionOnSet(f, T) \notin Nat
  BY <1>1, FS_Subset
<1>3. T # {}
  BY <1>2, SumOfNone
<1> DEFINE R == T \ {Picked(T)}
<1>4. R \subseteq T /\ R # T /\ Picked(T) \in S
  BY <1>2, <1>3, PickedOne
<1>5. SumFunctionOnSet(f, R) \in Nat
  BY <1>1, <1>2, <1>4
<1>6. SumFunctionOnSet(f, T) = f[Picked(T)] + SumFunctionOnSet(f, R)
  BY <1>2, <1>3, SumByChoice
<1> HIDE DEF R, U
<1> QED
  BY <1>2, <1>4, <1>5, <1>6

\* Any element may be added last: the order of the sum does not matter.
LEMMA SumOfOneMore ==
  ASSUME NEW S, IsFiniteSet(S), NEW f, \A x \in S : f[x] \in Int, NEW c \in S
  PROVE  SumFunctionOnSet(f, S) = f[c] + SumFunctionOnSet(f, S \ {c})
<1> DEFINE sum(T) == SumFunctionOnSet(f, T)
           U == {T \in SUBSET S : \E x \in T : sum(T) # f[x] + sum(T \ {x})}
<1> SUFFICES ASSUME U # {} PROVE FALSE
  OBVIOUS
<1>1. PICK T \in U : \A V \in U : V \subseteq T => V = T
  <2>1. U \subseteq SUBSET S
    OBVIOUS
  <2> HIDE DEF U
  <2> QED
    BY <2>1, SmallestSubset
<1>2. T \subseteq S /\ IsFiniteSet(T)
  BY <1>1, FS_Subset
<1>3. PICK x \in T : sum(T) # f[x] + sum(T \ {x})
  BY <1>1
<1> DEFINE y == Picked(T)
           R == T \ {y}
           Q == T \ {x, y}
<1>4. y \in T /\ sum(T) = f[y] + sum(R)
  BY <1>2, <1>3, SumByChoice, PickedOne
<1>5. x # y
  BY <1>3, <1>4
<1>6. x \in R /\ R \subseteq T /\ R # T /\ y \in T \ {x} /\ T \ {x} \subseteq T /\ T \ {x} # T
  BY <1>3, <1>4, <1>5
<1>7. R \notin U /\ T \ {x} \notin U
  BY <1>1, <1>6
<1>8. sum(R) = f[x] + sum(Q)
  <2>1. R \ {x} = Q
    OBVIOUS
  <2> QED
    BY <2>1, <1>2, <1>6, <1>7
<1>9. sum(T \ {x}) = f[y] + sum(Q)
  <2>1. (T \ {x}) \ {y} = Q
    OBVIOUS
  <2> QED
    BY <2>1, <1>2, <1>6, <1>7
<1>10. sum(Q) \in Int /\ f[x] \in Int /\ f[y] \in Int
  <2>1. IsFiniteSet(Q) /\ Q \subseteq S
    BY <1>2, FS_Subset
  <2> HIDE DEF Q, y
  <2> QED
    BY <2>1, <1>2, <1>3, <1>4, SumInt
<1> HIDE DEF sum, Q, R, y, U
<1> QED
  BY <1>3, <1>4, <1>8, <1>9, <1>10

-----------------------------------------------------------------------------
(* What may be added up one element at a time, in the order of pick: step is *)
(* a function of what there is so far and the element.                       *)

Unfolds(step, base, pick, S, h) ==
  h = [s \in SUBSET S |->
         IF s = {} THEN base ELSE step[<<h[s \ {pick[s]}], pick[s]>>]]

\* And what there is so far is always in State.
UnfoldsIn(State, step, base, pick, S, h) ==
  Unfolds(step, base, pick, S, h) /\ \A s \in SUBSET S : h[s] \in State

Picks(pick, S) == \A s \in SUBSET S : s # {} => pick[s] \in s

\* Two functions that unfold the same agree wherever both are defined.
LEMMA UnfoldsAgree ==
  ASSUME NEW S, IsFiniteSet(S), NEW T, NEW step, NEW base, NEW pick, Picks(pick, S),
         NEW g, NEW h, Unfolds(step, base, pick, S, g),
         Unfolds(step, base, pick, T, h), S \subseteq T
  PROVE  \A s \in SUBSET S : g[s] = h[s]
<1> DEFINE U == {s \in SUBSET S : g[s] # h[s]}
<1> SUFFICES ASSUME U # {} PROVE FALSE
  OBVIOUS
<1>1. PICK s \in U : \A v \in U : v \subseteq s => v = s
  <2>1. U \subseteq SUBSET S
    OBVIOUS
  <2> HIDE DEF U
  <2> QED
    BY <2>1, SmallestSubset
<1>2. s \subseteq S /\ s \subseteq T /\ g[s] # h[s]
  BY <1>1
<1>3. CASE s = {}
  BY <1>2, <1>3 DEF Unfolds
<1>4. CASE s # {}
  <2> DEFINE r == s \ {pick[s]}
  <2>1. r \subseteq s /\ r # s
    BY <1>2, <1>4 DEF Picks
  <2>2. g[r] = h[r]
    BY <2>1, <1>1, <1>2
  <2>3. g[s] = step[<<g[r], pick[s]>>] /\ h[s] = step[<<h[r], pick[s]>>]
    BY <1>2, <1>4 DEF Unfolds
  <2> QED
    BY <2>2, <2>3, <1>2
<1> QED
  BY <1>3, <1>4

\* There is one for every finite set.
LEMMA UnfoldsExist ==
  ASSUME NEW S, IsFiniteSet(S), NEW step, NEW base, NEW pick, Picks(pick, S)
  PROVE  \E h : Unfolds(step, base, pick, S, h)
<1> DEFINE U == {T \in SUBSET S : ~\E h : Unfolds(step, base, pick, T, h)}
<1> SUFFICES ASSUME U # {} PROVE FALSE
  OBVIOUS
<1>1. PICK T \in U : \A V \in U : V \subseteq T => V = T
  <2>1. U \subseteq SUBSET S
    OBVIOUS
  <2> HIDE DEF U
  <2> QED
    BY <2>1, SmallestSubset
<1>2. T \subseteq S /\ IsFiniteSet(T) /\ ~(\E h : Unfolds(step, base, pick, T, h))
  BY <1>1, FS_Subset
<1> DEFINE part(s) == CHOOSE h : Unfolds(step, base, pick, s, h)
           below(s) == s \ {pick[s]}
           whole == [s \in SUBSET T |->
                       IF s = {} THEN base
                       ELSE step[<<part(below(s))[below(s)], pick[s]>>]]
<1>3. ASSUME NEW s \in SUBSET T, s # T
      PROVE  Unfolds(step, base, pick, s, part(s)) /\ IsFiniteSet(s) /\ Picks(pick, s)
  <2>1. \E h : Unfolds(step, base, pick, s, h)
    BY <1>1, <1>2, <1>3
  <2> QED
    BY <2>1, <1>2, <1>3, FS_Subset DEF Picks
<1>4. ASSUME NEW s \in SUBSET T, s # {}
      PROVE  below(s) \subseteq s /\ below(s) # s /\ below(s) \in SUBSET T /\ below(s) # T
  BY <1>2, <1>4 DEF Picks
<1> HIDE DEF U, part
<1>5. ASSUME NEW s \in SUBSET T, s # T
      PROVE  whole[s] = part(s)[s]
  <2>1. Unfolds(step, base, pick, s, part(s))
    BY <1>3, <1>5
  <2>2. CASE s = {}
    BY <2>1, <2>2 DEF Unfolds
  <2>3. CASE s # {}
    <3>1. below(s) \subseteq s /\ below(s) \in SUBSET T /\ below(s) # T
      BY <2>3, <1>4
    <3>2. Unfolds(step, base, pick, below(s), part(below(s))) /\ IsFiniteSet(below(s))
          /\ Picks(pick, below(s))
      BY <3>1, <1>3
    <3>3. part(below(s))[below(s)] = part(s)[below(s)]
      <4> HIDE DEF below
      <4>1. \A t \in SUBSET below(s) : part(below(s))[t] = part(s)[t]
        BY <2>1, <3>1, <3>2, UnfoldsAgree
      <4> QED
        BY <4>1
    <3>4. part(s)[s] = step[<<part(s)[below(s)], pick[s]>>]
      BY <2>1, <2>3 DEF Unfolds
    <3> QED
      BY <3>3, <3>4, <2>3
  <2> QED
    BY <2>2, <2>3
<1>6. whole = [s \in SUBSET T |->
                 IF s = {} THEN base ELSE step[<<whole[below(s)], pick[s]>>]]
  <2> SUFFICES ASSUME NEW s \in SUBSET T, s # {}
               PROVE  whole[s] = step[<<whole[below(s)], pick[s]>>]
    OBVIOUS
  <2>1. below(s) \in SUBSET T /\ below(s) # T
    BY <1>4
  <2>2. whole[below(s)] = part(below(s))[below(s)]
    BY <2>1, <1>5
  <2> QED
    BY <2>2
<1>7. Unfolds(step, base, pick, T, whole)
  BY <1>6 DEF Unfolds
<1> QED
  BY <1>2, <1>7

\* What holds of the empty set, and of each set when it holds without the
\* element picked, holds of them all.
LEMMA OneByOne ==
  ASSUME NEW S, IsFiniteSet(S), NEW pick, Picks(pick, S), NEW H, H \subseteq SUBSET S,
         {} \in H,
         \A s \in SUBSET S : s # {} /\ s \ {pick[s]} \in H => s \in H
  PROVE  \A s \in SUBSET S : s \in H
<1> DEFINE U == (SUBSET S) \ H
<1> SUFFICES ASSUME U # {} PROVE FALSE
  OBVIOUS
<1>1. PICK s \in U : \A v \in U : v \subseteq s => v = s
  <2>1. U \subseteq SUBSET S
    OBVIOUS
  <2> HIDE DEF U
  <2> QED
    BY <2>1, SmallestSubset
<1>2. s \in SUBSET S /\ s # {}
  BY <1>1
<1>3. s \ {pick[s]} \in SUBSET S /\ s \ {pick[s]} # s
  BY <1>2 DEF Picks
<1>4. s \ {pick[s]} \notin U
  BY <1>1, <1>3
<1> QED
  BY <1>1, <1>2, <1>3, <1>4

\* What starts in a set that no step leaves stays there.
LEMMA UnfoldsInto ==
  ASSUME NEW S, IsFiniteSet(S), NEW State, NEW step \in [State \X S -> State],
         NEW base \in State, NEW pick, Picks(pick, S)
  PROVE  \E h : UnfoldsIn(State, step, base, pick, S, h)
<1>1. PICK h : Unfolds(step, base, pick, S, h)
  BY UnfoldsExist
<1> DEFINE H == {s \in SUBSET S : h[s] \in State}
<1>2. {} \in H
  BY <1>1 DEF Unfolds
<1>3. ASSUME NEW s \in SUBSET S, s # {}, s \ {pick[s]} \in H PROVE s \in H
  <2>1. h[s] = step[<<h[s \ {pick[s]}], pick[s]>>] /\ pick[s] \in S
    BY <1>1, <1>3 DEF Unfolds, Picks
  <2> QED
    BY <2>1, <1>3
<1>4. \A s \in SUBSET S : s \in H
  <2>1. H \subseteq SUBSET S
    OBVIOUS
  <2> HIDE DEF H
  <2> QED
    BY <2>1, <1>2, <1>3, OneByOne
<1> QED
  BY <1>1, <1>4 DEF UnfoldsIn

-----------------------------------------------------------------------------
(* Sums that differ in one value *)

\* A sum depends on nothing but the values that are added.
LEMMA SumSame ==
  ASSUME NEW S, IsFiniteSet(S), NEW f, NEW g, \A x \in S : f[x] = g[x]
  PROVE  SumFunctionOnSet(f, S) = SumFunctionOnSet(g, S)
<1> DEFINE U == {T \in SUBSET S : SumFunctionOnSet(f, T) # SumFunctionOnSet(g, T)}
<1> SUFFICES ASSUME U # {} PROVE FALSE
  OBVIOUS
<1>1. PICK T \in U : \A V \in U : V \subseteq T => V = T
  <2>1. U \subseteq SUBSET S
    OBVIOUS
  <2> HIDE DEF U
  <2> QED
    BY <2>1, SmallestSubset
<1>2. T \subseteq S /\ IsFiniteSet(T) /\ SumFunctionOnSet(f, T) # SumFunctionOnSet(g, T)
  BY <1>1, FS_Subset
<1>3. T # {}
  BY <1>2, SumOfNone
<1> DEFINE R == T \ {Picked(T)}
<1>4. R \subseteq T /\ R # T /\ Picked(T) \in S
  BY <1>2, <1>3, PickedOne
<1>5. SumFunctionOnSet(f, R) = SumFunctionOnSet(g, R)
  BY <1>1, <1>2, <1>4
<1>6. /\ SumFunctionOnSet(f, T) = f[Picked(T)] + SumFunctionOnSet(f, R)
      /\ SumFunctionOnSet(g, T) = g[Picked(T)] + SumFunctionOnSet(g, R)
  BY <1>2, <1>3, SumByChoice
<1> QED
  BY <1>2, <1>4, <1>5, <1>6

\* One value more or other changes the sum by as much.
LEMMA SumChanged ==
  ASSUME NEW S, IsFiniteSet(S), NEW c \in S, NEW f, NEW g,
         \A x \in S : g[x] \in Int, \A x \in S \ {c} : f[x] = g[x]
  PROVE  SumFunctionOnSet(g, S) = SumFunctionOnSet(f, S \ {c}) + g[c]
<1> DEFINE R == S \ {c}
<1>1. IsFiniteSet(R) /\ \A x \in R : f[x] = g[x] /\ g[x] \in Int
  BY FS_Subset
<1>2. SumFunctionOnSet(g, S) = g[c] + SumFunctionOnSet(g, R)
  BY SumOfOneMore
<1>3. SumFunctionOnSet(f, R) = SumFunctionOnSet(g, R) /\ SumFunctionOnSet(g, R) \in Int
  <2> HIDE DEF R
  <2> QED
    BY <1>1, SumSame, SumInt
<1> QED
  BY <1>2, <1>3

-----------------------------------------------------------------------------
(* Least and largest numbers, and the order in which the library's folds     *)
(* take the elements of a sequence                                           *)

\* The largest of some positions is one of them.
LEMMA LargestIsOne ==
  ASSUME NEW n \in Nat, NEW s \in SUBSET (1..n), s # {}
  PROVE  Max(s) \in s
<1> DEFINE B == {m \in Nat : \A x \in s : x <= m}
<1>1. n \in B
  OBVIOUS
<1>2. PICK m \in B : \A k \in B : m <= k
  <2> HIDE DEF B
  <2>1. B # {} /\ B \subseteq Nat
    BY <1>1 DEF B
  <2> QED
    BY <2>1, LeastNumber
<1>3. m \in s
  <2> SUFFICES ASSUME m \notin s PROVE FALSE
    OBVIOUS
  <2>1. m # 0
    <3>1. PICK x \in s : x \in 1..n
      OBVIOUS
    <3> QED
      BY <1>2, <3>1
  <2>2. m - 1 \in B
    BY <1>2, <2>1
  <2> QED
    BY <1>2, <2>2
<1>4. \E x \in s : \A y \in s : x >= y
  BY <1>2, <1>3
<1> QED
  BY <1>4 DEF Max

Latest(n) == [s \in SUBSET (1..n) |-> Max(s)]

\* That is the order in which the folds take the elements.
LEMMA LatestPicks == ASSUME NEW n \in Nat PROVE Picks(Latest(n), 1..n)
BY LargestIsOne DEF Picks, Latest

\* Numbers have a least one, which Min is.
LEMMA LeastIs ==
  ASSUME NEW S \in SUBSET Nat, S # {}
  PROVE  Min(S) \in S /\ \A x \in S : Min(S) <= x
BY LeastNumber DEF Min

\* Finitely many numbers have a largest one, which Max is.
LEMMA LargestIs ==
  ASSUME NEW S \in SUBSET Nat, IsFiniteSet(S), S # {}
  PROVE  Max(S) \in S /\ \A x \in S : x <= Max(S)
<1> DEFINE U == {T \in SUBSET S : T # {} /\ ~\E m \in T : \A x \in T : x <= m}
<1>1. CASE U # {}
  <2>1. PICK T \in U : \A V \in U : V \subseteq T => V = T
    <3> DEFINE X == S
    <3>1. U \subseteq SUBSET X /\ IsFiniteSet(X) /\ U # {}
      BY <1>1
    <3> HIDE DEF U, X
    <3> QED
      BY <3>1, SmallestSubset
  <2>2. PICK c \in T : c \in Nat
    BY <2>1
  <2> DEFINE R == T \ {c}
  <2>3. R \subseteq T /\ R # T /\ R \subseteq Nat
    BY <2>1, <2>2
  <2>4. R # {}
    <3> SUFFICES ASSUME T = {c} PROVE FALSE
      BY <2>2
    <3> QED
      BY <2>1, <2>2
  <2>5. PICK m \in R : \A x \in R : x <= m
    BY <2>1, <2>3, <2>4
  <2>6. \/ \A x \in T : x <= m
        \/ \A x \in T : x <= c
    BY <2>2, <2>3, <2>5
  <2> QED
    BY <2>1, <2>2, <2>3, <2>5, <2>6
<1>2. CASE U = {}
  <2>1. S \notin U
    BY <1>2
  <2>2. \E m \in S : \A x \in S : m >= x
    BY <2>1
  <2> QED
    BY <2>2 DEF Max
<1> QED
  BY <1>1, <1>2

-----------------------------------------------------------------------------
(* Sums of natural numbers are larger when more is added                     *)

\* A sum is at least the sum over a part of the set.
LEMMA SumOfPart ==
  ASSUME NEW S, IsFiniteSet(S), NEW f, \A x \in S : f[x] \in Nat, NEW P \in SUBSET S
  PROVE  SumFunctionOnSet(f, P) <= SumFunctionOnSet(f, S)
<1> DEFINE sum(T) == SumFunctionOnSet(f, T)
           U == {T \in SUBSET S : P \subseteq T /\ ~ sum(P) <= sum(T)}
<1> SUFFICES ASSUME U # {} PROVE FALSE
  OBVIOUS
<1>1. PICK T \in U : \A V \in U : V \subseteq T => V = T
  <2>1. U \subseteq SUBSET S
    OBVIOUS
  <2> HIDE DEF U
  <2> QED
    BY <2>1, SmallestSubset
<1>2. T \subseteq S /\ IsFiniteSet(T) /\ P \subseteq T /\ ~ sum(P) <= sum(T) /\ IsFiniteSet(P)
  BY <1>1, FS_Subset
<1>3. ASSUME NEW V \in SUBSET S, IsFiniteSet(V) PROVE sum(V) \in Nat
  <2> \A x \in V : f[x] \in Nat
    OBVIOUS
  <2> QED
    BY <1>3, SumNat
<1>4. PICK c \in T : c \notin P
  <2> SUFFICES ASSUME T = P PROVE FALSE
    BY <1>2
  <2> QED
    BY <1>2, <1>3
<1> DEFINE R == T \ {c}
<1>5. R \subseteq S /\ R \subseteq T /\ R # T /\ P \subseteq R /\ IsFiniteSet(R)
  BY <1>2, <1>4, FS_Subset
<1>6. sum(P) <= sum(R)
  BY <1>1, <1>5
<1>7. sum(T) = f[c] + sum(R)
  <2> \A x \in T : f[x] \in Int
    BY <1>2
  <2> QED
    BY <1>2, <1>4, SumOfOneMore
<1>8. f[c] \in Nat /\ sum(R) \in Nat /\ sum(P) \in Nat /\ sum(T) \in Nat
  BY <1>2, <1>3, <1>4, <1>5
<1> HIDE DEF sum, R, U
<1> QED
  BY <1>2, <1>6, <1>7, <1>8

\* It is at least each of the values.
LEMMA SumAtLeast ==
  ASSUME NEW S, IsFiniteSet(S), NEW f, \A x \in S : f[x] \in Nat, NEW c \in S
  PROVE  f[c] <= SumFunctionOnSet(f, S)
<1> DEFINE R == S \ {c}
<1>1. IsFiniteSet(R) /\ \A x \in R : f[x] \in Nat
  BY FS_Subset
<1>2. SumFunctionOnSet(f, R) \in Nat
  <2> HIDE DEF R
  <2> QED
    BY <1>1, SumNat
<1>3. SumFunctionOnSet(f, S) = f[c] + SumFunctionOnSet(f, R)
  BY SumOfOneMore
<1> HIDE DEF R
<1> QED
  BY <1>2, <1>3

\* When each value has one of its own that is no smaller on the other side,
\* the other sum is no smaller.
LEMMA SumNoLess ==
  ASSUME NEW S, IsFiniteSet(S), NEW f, \A x \in S : f[x] \in Nat,
         NEW T, IsFiniteSet(T), NEW g, \A y \in T : g[y] \in Nat,
         NEW m \in [S -> T], \A x, y \in S : m[x] = m[y] => x = y,
         \A x \in S : f[x] <= g[m[x]]
  PROVE  SumFunctionOnSet(f, S) <= SumFunctionOnSet(g, T)
<1> DEFINE image(V) == {m[x] : x \in V}
           fsum(V) == SumFunctionOnSet(f, V)
           gsum(W) == SumFunctionOnSet(g, W)
           U == {V \in SUBSET S : ~ fsum(V) <= gsum(image(V))}
<1>1. CASE U # {}
  <2>1. PICK V \in U : \A W \in U : W \subseteq V => W = V
    <3>1. U \subseteq SUBSET S
      OBVIOUS
    <3> HIDE DEF U
    <3> QED
      BY <1>1, <3>1, SmallestSubset
  <2>2. V \subseteq S /\ IsFiniteSet(V) /\ ~ fsum(V) <= gsum(image(V)) /\ image(V) \subseteq T
        /\ IsFiniteSet(image(V))
    BY <2>1, FS_Subset
  <2>3. V # {}
    <3> SUFFICES ASSUME V = {} PROVE FALSE
      OBVIOUS
    <3>1. image(V) = {}
      OBVIOUS
    <3> QED
      BY <2>2, <3>1, SumOfNone
  <2>4. PICK c \in V : TRUE
    BY <2>3
  <2> DEFINE R == V \ {c}
  <2>5. R \subseteq S /\ R \subseteq V /\ R # V /\ IsFiniteSet(R) /\ image(R) \subseteq T
        /\ IsFiniteSet(image(R))
    BY <2>2, <2>4, FS_Subset
  <2>6. fsum(R) <= gsum(image(R))
    BY <2>1, <2>5
  <2>7. image(V) \ {m[c]} = image(R) /\ m[c] \in image(V)
    BY <2>2, <2>4
  <2>8. fsum(V) = f[c] + fsum(R)
    <3> \A x \in V : f[x] \in Int
      BY <2>2
    <3> QED
      BY <2>2, <2>4, SumOfOneMore
  <2>9. gsum(image(V)) = g[m[c]] + gsum(image(R))
    <3> DEFINE W == image(V)
    <3>1. IsFiniteSet(W) /\ (\A y \in W : g[y] \in Int) /\ m[c] \in W /\ W \ {m[c]} = image(R)
      BY <2>2, <2>7
    <3> HIDE DEF W
    <3>2. gsum(W) = g[m[c]] + gsum(W \ {m[c]})
      BY <3>1, SumOfOneMore
    <3> QED
      BY <3>1, <3>2 DEF W
  <2>10. fsum(R) \in Nat /\ gsum(image(R)) \in Nat
    <3> DEFINE W == image(R)
    <3>1. (\A x \in R : f[x] \in Nat) /\ (\A y \in W : g[y] \in Nat) /\ IsFiniteSet(W)
      BY <2>5
    <3> HIDE DEF W, R
    <3> QED
      BY <2>5, <3>1, SumNat DEF W
  <2>11. f[c] \in Nat /\ g[m[c]] \in Nat /\ f[c] <= g[m[c]]
    BY <2>2, <2>4
  <2>12. fsum(V) <= gsum(image(V))
    <3> DEFINE a == f[c]
               b == g[m[c]]
               x == fsum(R)
               y == gsum(image(R))
    <3>1. fsum(V) = a + x /\ gsum(image(V)) = b + y
      BY <2>8, <2>9
    <3>2. a \in Nat /\ b \in Nat /\ x \in Nat /\ y \in Nat /\ a <= b /\ x <= y
      BY <2>6, <2>10, <2>11
    <3> HIDE DEF a, b, x, y, fsum, gsum, image
    <3> QED
      BY <3>1, <3>2
  <2> QED
    BY <2>2, <2>12
<1>2. CASE U = {}
  <2>1. fsum(S) <= gsum(image(S))
    BY <1>2
  <2>2. image(S) \subseteq T
    OBVIOUS
  <2>3. gsum(image(S)) <= gsum(T)
    <3> DEFINE W == image(S)
    <3> HIDE DEF W
    <3> QED
      BY <2>2, SumOfPart DEF W
  <2>4. fsum(S) \in Nat /\ gsum(image(S)) \in Nat /\ gsum(T) \in Nat
    <3> DEFINE W == image(S)
    <3>1. IsFiniteSet(W) /\ \A y \in W : g[y] \in Nat
      BY <2>2, FS_Subset
    <3> HIDE DEF W
    <3> QED
      BY <3>1, SumNat DEF W
  <2> SUFFICES fsum(S) <= gsum(T)
    OBVIOUS
  <2> HIDE DEF fsum, gsum, image
  <2> QED
    BY <2>1, <2>3, <2>4
<1> QED
  BY <1>1, <1>2

-----------------------------------------------------------------------------
(* Sums of sums, and the elements of a finite set in an order *)

\* What holds of no elements, and of one element more whenever it holds of
\* some, holds of all of a finite set: H are the subsets of which it holds.
LEMMA HoldsOfAll ==
  ASSUME NEW S, IsFiniteSet(S), NEW H, {} \in H,
         \A s \in SUBSET S : \A c \in S \ s : s \in H => s \cup {c} \in H
  PROVE  \A s \in SUBSET S : s \in H
<1> DEFINE U == {s \in SUBSET S : s \notin H}
<1> SUFFICES ASSUME U # {} PROVE FALSE
  OBVIOUS
<1>1. PICK s \in U : \A v \in U : v \subseteq s => v = s
  <2>1. U \subseteq SUBSET S
    OBVIOUS
  <2> HIDE DEF U
  <2> QED
    BY <2>1, SmallestSubset
<1>2. PICK c \in s : TRUE
  <2>1. s # {}
    BY <1>1
  <2> QED
    BY <2>1
<1>3. /\ s \ {c} \in SUBSET S /\ s \ {c} \notin U /\ c \in S \ (s \ {c})
      /\ (s \ {c}) \cup {c} = s
  BY <1>1, <1>2
<1>4. s \ {c} \in H
  BY <1>3
<1>5. s \in H
  BY <1>3, <1>4
<1> QED
  BY <1>1, <1>5

\* One term more.
LEMMA SumAdding ==
  ASSUME NEW S, IsFiniteSet(S), NEW f, \A x \in S : f[x] \in Int,
         NEW s \in SUBSET S, NEW c \in S \ s
  PROVE  SumFunctionOnSet(f, s \cup {c}) = f[c] + SumFunctionOnSet(f, s)
<1>1. s \cup {c} \in SUBSET S /\ (s \cup {c}) \ {c} = s
  OBVIOUS
<1> DEFINE t == s \cup {c}
<1>2. IsFiniteSet(t) /\ c \in t /\ \A x \in t : f[x] \in Int
  BY <1>1, FS_Subset
<1> HIDE DEF t
<1>3. SumFunctionOnSet(f, t) = f[c] + SumFunctionOnSet(f, t \ {c})
  BY <1>2, SumOfOneMore
<1> QED
  BY <1>1, <1>3 DEF t

\* The sum of sums of terms is the sum of both sums.
LEMMA SumPlus ==
  ASSUME NEW S, IsFiniteSet(S), NEW f, NEW g, NEW h,
         \A x \in S : f[x] \in Int /\ g[x] \in Int /\ h[x] = f[x] + g[x]
  PROVE  SumFunctionOnSet(h, S) = SumFunctionOnSet(f, S) + SumFunctionOnSet(g, S)
<1> DEFINE F(s) == SumFunctionOnSet(f, s)
           G(s) == SumFunctionOnSet(g, s)
           K(s) == SumFunctionOnSet(h, s)
           H == {s \in SUBSET S : K(s) = F(s) + G(s)}
<1>1. {} \in H
  BY SumOfNone
<1>2. ASSUME NEW s \in SUBSET S, NEW c \in S \ s, s \in H
      PROVE  s \cup {c} \in H
  <2>1. F(s \cup {c}) = f[c] + F(s) /\ G(s \cup {c}) = g[c] + G(s) /\ K(s \cup {c}) = h[c] + K(s)
    <3>1. \A x \in S : f[x] \in Int
      OBVIOUS
    <3>2. \A x \in S : g[x] \in Int
      OBVIOUS
    <3>3. \A x \in S : h[x] \in Int
      OBVIOUS
    <3> QED
      BY <3>1, <3>2, <3>3, SumAdding
  <2>2. F(s) \in Int /\ G(s) \in Int /\ h[c] = f[c] + g[c] /\ f[c] \in Int /\ g[c] \in Int
    <3>1. IsFiniteSet(s) /\ \A x \in s : f[x] \in Int /\ g[x] \in Int
      BY <1>2, FS_Subset
    <3> QED
      BY <3>1, SumInt
  <2>3. K(s) = F(s) + G(s)
    BY <1>2
  <2> HIDE DEF F, G, K
  <2> QED
    BY <2>1, <2>2, <2>3
<1>3. S \in H
  <2> HIDE DEF H
  <2> QED
    BY <1>1, <1>2, HoldsOfAll
<1> QED
  BY <1>3

\* A common factor.
LEMMA SumTimes ==
  ASSUME NEW S, IsFiniteSet(S), NEW k \in Int, NEW f, NEW h,
         \A x \in S : f[x] \in Int /\ h[x] = k * f[x]
  PROVE  SumFunctionOnSet(h, S) = k * SumFunctionOnSet(f, S)
<1> DEFINE F(s) == SumFunctionOnSet(f, s)
           K(s) == SumFunctionOnSet(h, s)
           H == {s \in SUBSET S : K(s) = k * F(s)}
<1>1. {} \in H
  BY SumOfNone
<1>2. ASSUME NEW s \in SUBSET S, NEW c \in S \ s, s \in H
      PROVE  s \cup {c} \in H
  <2>1. F(s \cup {c}) = f[c] + F(s) /\ K(s \cup {c}) = h[c] + K(s)
    <3>1. \A x \in S : f[x] \in Int
      OBVIOUS
    <3>2. \A x \in S : h[x] \in Int
      OBVIOUS
    <3> QED
      BY <3>1, <3>2, SumAdding
  <2>2. F(s) \in Int /\ h[c] = k * f[c] /\ f[c] \in Int
    <3>1. IsFiniteSet(s) /\ \A x \in s : f[x] \in Int
      BY <1>2, FS_Subset
    <3> QED
      BY <3>1, SumInt
  <2>3. K(s) = k * F(s)
    BY <1>2
  <2>4. k * (f[c] + F(s)) = k * f[c] + k * F(s)
    <3> HIDE DEF F
    <3> QED
      BY <2>2
  <2> HIDE DEF F, K
  <2> QED
    BY <2>1, <2>2, <2>3, <2>4
<1>3. S \in H
  <2> HIDE DEF H
  <2> QED
    BY <1>1, <1>2, HoldsOfAll
<1> QED
  BY <1>3

\* One for each is how many they are.
LEMMA SumOfOnes ==
  ASSUME NEW S, IsFiniteSet(S), NEW f, \A x \in S : f[x] = 1
  PROVE  SumFunctionOnSet(f, S) = Cardinality(S)
<1> DEFINE F(s) == SumFunctionOnSet(f, s)
           H == {s \in SUBSET S : F(s) = Cardinality(s)}
<1>1. {} \in H
  BY SumOfNone, FS_EmptySet
<1>2. ASSUME NEW s \in SUBSET S, NEW c \in S \ s, s \in H
      PROVE  s \cup {c} \in H
  <2>1. F(s \cup {c}) = f[c] + F(s)
    BY SumAdding
  <2>2. IsFiniteSet(s) /\ c \notin s
    BY FS_Subset
  <2>3. Cardinality(s \cup {c}) = Cardinality(s) + 1 /\ Cardinality(s) \in Nat
    BY <2>2, FS_AddElement, FS_CardinalityType
  <2>4. F(s) = Cardinality(s) /\ f[c] = 1
    BY <1>2
  <2>5. F(s \cup {c}) = Cardinality(s \cup {c})
    <3> HIDE DEF F
    <3> QED
      BY <2>1, <2>3, <2>4
  <2> QED
    BY <2>5
<1>3. S \in H
  <2> HIDE DEF H
  <2> QED
    BY <1>1, <1>2, HoldsOfAll
<1> QED
  BY <1>3

\* Terms that are zero do not count.
LEMMA SumOfTheRest ==
  ASSUME NEW S, IsFiniteSet(S), NEW f, \A x \in S : f[x] \in Int,
         NEW P \in SUBSET S, \A x \in S \ P : f[x] = 0
  PROVE  SumFunctionOnSet(f, S) = SumFunctionOnSet(f, P)
<1> DEFINE F(s) == SumFunctionOnSet(f, s)
           H == {s \in SUBSET S : F(s) = F(s \cap P)}
<1>1. {} \in H
  <2>1. {} \cap P = {}
    OBVIOUS
  <2> QED
    BY <2>1
<1>2. ASSUME NEW s \in SUBSET S, NEW c \in S \ s, s \in H
      PROVE  s \cup {c} \in H
  <2>1. F(s \cup {c}) = f[c] + F(s)
    BY SumAdding
  <2>2. F(s) \in Int /\ F(s) = F(s \cap P)
    <3>1. IsFiniteSet(s) /\ \A x \in s : f[x] \in Int
      BY <1>2, FS_Subset
    <3> QED
      BY <3>1, <1>2, SumInt
  <2>3. CASE c \in P
    <3>1. (s \cup {c}) \cap P = (s \cap P) \cup {c}
      BY <2>3
    <3>2. F((s \cap P) \cup {c}) = f[c] + F(s \cap P)
      <4>1. s \cap P \in SUBSET S /\ c \in S \ (s \cap P)
        OBVIOUS
      <4> DEFINE r == s \cap P
      <4> HIDE DEF r
      <4> QED
        BY <4>1, SumAdding DEF r
    <3> QED
      BY <2>1, <2>2, <3>1, <3>2
  <2>4. CASE c \notin P
    <3>1. (s \cup {c}) \cap P = s \cap P /\ f[c] = 0
      BY <2>4
    <3>2. F((s \cup {c}) \cap P) = F(s \cap P)
      BY <3>1
    <3>3. F(s \cup {c}) = F(s)
      <4> HIDE DEF F
      <4> QED
        BY <2>1, <2>2, <3>1
    <3>4. F(s \cup {c}) = F((s \cup {c}) \cap P)
      BY ONLY <2>2, <3>2, <3>3
    <3> QED
      BY <3>4
  <2> QED
    BY <2>3, <2>4
<1>3. S \in H
  <2> HIDE DEF H
  <2> QED
    BY <1>1, <1>2, HoldsOfAll
<1>4. S \cap P = P
  OBVIOUS
<1> QED
  BY <1>3, <1>4

\* What a table has in a column.
Column(m, S, y) == [x \in S |-> m[x][y]]

\* Adding up rows first or columns first.
LEMMA SumsSwap ==
  ASSUME NEW S, IsFiniteSet(S), NEW T, IsFiniteSet(T), NEW m,
         \A x \in S : \A y \in T : m[x][y] \in Int,
         NEW row, \A x \in S : row[x] = SumFunctionOnSet(m[x], T),
         NEW column, \A y \in T : column[y] = SumFunctionOnSet(Column(m, S, y), S)
  PROVE  SumFunctionOnSet(row, S) = SumFunctionOnSet(column, T)
<1> DEFINE F(s) == SumFunctionOnSet(row, s)
           part(s) == [y \in T |-> SumFunctionOnSet(Column(m, S, y), s)]
           G(s) == SumFunctionOnSet(part(s), T)
           H == {s \in SUBSET S : F(s) = G(s)}
<1>1. {} \in H
  <2>1. F({}) = 0
    BY SumOfNone
  <2>2. \A y \in T : part({})[y] = 0
    BY SumOfNone
  <2>3. G({}) = 0
    <3> DEFINE p == part({})
    <3>1. \A y \in T : p[y] = 0
      BY <2>2
    <3> HIDE DEF p
    <3>2. SumFunctionOnSet(p, T) = SumFunctionOnSet(p, {})
      BY <3>1, SumOfTheRest
    <3> QED
      BY <3>2, SumOfNone DEF p
  <2> QED
    BY <2>1, <2>3
<1>2. ASSUME NEW x \in S PROVE row[x] \in Int
  BY SumInt
<1>3. ASSUME NEW s \in SUBSET S, NEW y \in T
      PROVE  part(s)[y] \in Int
  <2>1. part(s)[y] = SumFunctionOnSet(Column(m, S, y), s)
    OBVIOUS
  <2>2. \A x \in s : Column(m, S, y)[x] \in Int
    BY DEF Column
  <2>3. IsFiniteSet(s)
    BY FS_Subset
  <2> HIDE DEF part
  <2> QED
    BY <2>1, <2>2, <2>3, SumInt
<1>4. ASSUME NEW s \in SUBSET S, NEW c \in S \ s, s \in H
      PROVE  s \cup {c} \in H
  <2>1. F(s \cup {c}) = row[c] + F(s)
    BY <1>2, SumAdding
  <2> DEFINE old == part(s)
             new == part(s \cup {c})
             line == m[c]
  <2>2. \A y \in T : new[y] = line[y] + old[y]
    <3> SUFFICES ASSUME NEW y \in T PROVE new[y] = line[y] + old[y]
      OBVIOUS
    <3> DEFINE k == Column(m, S, y)
    <3>1. \A x \in S : k[x] \in Int
      BY DEF Column
    <3>2. line[y] = k[c]
      BY DEF Column
    <3>3. old[y] = SumFunctionOnSet(k, s) /\ new[y] = SumFunctionOnSet(k, s \cup {c})
      OBVIOUS
    <3> HIDE DEF k, line, old, new
    <3> QED
      BY <3>1, <3>2, <3>3, SumAdding
  <2>3. \A y \in T : line[y] \in Int /\ old[y] \in Int
    <3> HIDE DEF part
    <3>1. \A y \in T : old[y] \in Int
      BY <1>3
    <3> QED
      BY <3>1
  <2>4. SumFunctionOnSet(new, T) = SumFunctionOnSet(line, T) + SumFunctionOnSet(old, T)
    <3> HIDE DEF line, old, new
    <3> QED
      BY <2>2, <2>3, SumPlus
  <2>5. row[c] = SumFunctionOnSet(line, T)
    OBVIOUS
  <2>6. F(s) = G(s)
    BY <1>4
  <2>7. F(s \cup {c}) = G(s \cup {c})
    <3> HIDE DEF F, part
    <3> QED
      BY <2>1, <2>4, <2>5, <2>6
  <2> QED
    BY <2>7
<1>5. S \in H
  <2> HIDE DEF H
  <2> QED
    BY <1>1, <1>4, HoldsOfAll
<1>6. F(S) = G(S)
  BY <1>5
<1>7. G(S) = SumFunctionOnSet(column, T)
  <2> DEFINE p == part(S)
  <2>1. \A y \in T : p[y] = column[y]
    OBVIOUS
  <2> HIDE DEF p
  <2> QED
    BY <2>1, SumSame DEF p
<1> QED
  BY <1>6, <1>7

\* Terms counted one by one through a sequence or any other function that
\* reaches each once.
LEMMA SumThrough ==
  ASSUME NEW S, IsFiniteSet(S), NEW T, IsFiniteSet(T), NEW f, NEW g,
         \A y \in T : g[y] \in Nat,
         NEW m \in [S -> T], \A x, y \in S : m[x] = m[y] => x = y,
         \A y \in T : \E x \in S : m[x] = y,
         \A x \in S : f[x] = g[m[x]]
  PROVE  SumFunctionOnSet(f, S) = SumFunctionOnSet(g, T)
<1> DEFINE back == [y \in T |-> CHOOSE x \in S : m[x] = y]
<1>1. back \in [T -> S] /\ \A y \in T : m[back[y]] = y
  OBVIOUS
<1> HIDE DEF back
<1>2. \A x \in S : f[x] \in Nat
  OBVIOUS
<1>3. SumFunctionOnSet(f, S) <= SumFunctionOnSet(g, T)
  <2>1. \A x \in S : f[x] <= g[m[x]]
    BY <1>2
  <2> QED
    BY <1>2, <2>1, SumNoLess
<1>4. SumFunctionOnSet(g, T) <= SumFunctionOnSet(f, S)
  <2>1. \A x, y \in T : back[x] = back[y] => x = y
    BY <1>1
  <2>2. \A y \in T : g[y] <= f[back[y]]
    BY <1>1
  <2> QED
    BY <1>1, <1>2, <2>1, <2>2, SumNoLess
<1>5. SumFunctionOnSet(f, S) \in Nat /\ SumFunctionOnSet(g, T) \in Nat
  BY <1>2, SumNat
<1> QED
  BY <1>3, <1>4, <1>5

\* before is a strict order in which any two of S come one before the other.
Orders(before, S) ==
  /\ \A x \in S : <<x, x>> \notin before
  /\ \A x, y, z \in S : <<x, y>> \in before /\ <<y, z>> \in before => <<x, z>> \in before
  /\ \A x, y \in S : x # y => <<x, y>> \in before \/ <<y, x>> \in before

\* How many come before one of S.
Rank(x, S, before) == Cardinality({y \in S : <<y, x>> \in before})

\* In an order each number below the size is that of the predecessors of one
\* element.
LEMMA RanksAre ==
  ASSUME NEW S, IsFiniteSet(S), NEW before, Orders(before, S)
  PROVE  /\ Cardinality(S) \in Nat
         /\ \A x \in S : Rank(x, S, before) \in 0..(Cardinality(S) - 1)
         /\ \A x, y \in S : Rank(x, S, before) = Rank(y, S, before) => x = y
         /\ \A k \in 0..(Cardinality(S) - 1) : \E x \in S : Rank(x, S, before) = k
         /\ \A x, y \in S : <<x, y>> \in before => Rank(x, S, before) < Rank(y, S, before)
<1> DEFINE Below(x) == {y \in S : <<y, x>> \in before}
           n == Cardinality(S)
           rank == [x \in S |-> Cardinality(Below(x))]
<1>1. n \in Nat
  BY FS_CardinalityType
<1>2. ASSUME NEW x \in S
      PROVE  IsFiniteSet(Below(x)) /\ Cardinality(Below(x)) \in Nat /\ Cardinality(Below(x)) < n
  <2>1. Below(x) \in SUBSET S /\ Below(x) # S
    BY DEF Orders
  <2> HIDE DEF Below
  <2>2. IsFiniteSet(Below(x)) /\ Cardinality(Below(x)) <= n /\ Cardinality(Below(x)) # n
    BY <2>1, FS_Subset
  <2>3. Cardinality(Below(x)) \in Nat
    BY <2>2, FS_CardinalityType
  <2> QED
    BY <1>1, <2>2, <2>3
<1>3. ASSUME NEW x \in S, NEW y \in S, <<x, y>> \in before
      PROVE  Cardinality(Below(x)) < Cardinality(Below(y))
  <2>1. Below(x) \in SUBSET Below(y) /\ Below(x) # Below(y)
    BY <1>3 DEF Orders
  <2>2. IsFiniteSet(Below(y)) /\ Cardinality(Below(y)) \in Nat /\ Cardinality(Below(x)) \in Nat
    BY <1>2
  <2> HIDE DEF Below
  <2>3. /\ Cardinality(Below(x)) <= Cardinality(Below(y))
        /\ Cardinality(Below(x)) # Cardinality(Below(y))
    BY <2>1, <2>2, FS_Subset
  <2> QED
    BY <2>2, <2>3
<1>4. \A x, y \in S : rank[x] = rank[y] => x = y
  <2> SUFFICES ASSUME NEW x \in S, NEW y \in S, rank[x] = rank[y], x # y PROVE FALSE
    OBVIOUS
  <2>1. Cardinality(Below(x)) = Cardinality(Below(y)) /\ Cardinality(Below(x)) \in Nat
    <3> HIDE DEF Below
    <3> QED
      BY <1>2
  <2>2. <<x, y>> \in before \/ <<y, x>> \in before
    BY DEF Orders
  <2> HIDE DEF Below
  <2> QED
    BY <1>3, <2>1, <2>2
<1>5. rank \in [S -> 0..(n - 1)]
  <2> HIDE DEF Below, n
  <2> QED
    BY <1>1, <1>2
<1>6. \A k \in 0..(n - 1) : \E x \in S : rank[x] = k
  <2> DEFINE T == 0..(n - 1)
  <2>1. IsFiniteSet(T) /\ Cardinality(T) = n
    <3> HIDE DEF n
    <3>1. 0 \in Int /\ n - 1 \in Int
      BY <1>1
    <3>2. IsFiniteSet(T) /\ Cardinality(T) = IF 0 > n - 1 THEN 0 ELSE (n - 1) - 0 + 1
      BY <3>1, FS_Interval
    <3> QED
      BY <1>1, <3>2
  <2>2. rank \in Injection(S, T)
    <3> HIDE DEF rank
    <3> QED
      BY <1>4, <1>5 DEF Injection, IsInjective
  <2> HIDE DEF rank, T
  <2>3. rank \in Surjection(S, T)
    BY <2>1, <2>2, FS_Injection
  <2> QED
    BY <2>3 DEF Surjection, T
<1>7. \A x \in S : Rank(x, S, before) = rank[x]
  BY DEF Rank
<1>8. ASSUME NEW x \in S, NEW y \in S, <<x, y>> \in before
      PROVE  rank[x] < rank[y]
  BY <1>3, <1>8
<1> HIDE DEF rank
<1> QED
  BY <1>1, <1>4, <1>5, <1>6, <1>7, <1>8

\* So many elements come among the first.
LEMMA RanksBelow ==
  ASSUME NEW S, IsFiniteSet(S), NEW before, Orders(before, S),
         NEW k \in Nat, k <= Cardinality(S)
  PROVE  Cardinality({x \in S : Rank(x, S, before) < k}) = k
<1> DEFINE T == {x \in S : Rank(x, S, before) < k}
           K == 0..(k - 1)
           f == [x \in T |-> Rank(x, S, before)]
<1>1. f \in Bijection(T, K)
  <2>1. /\ Cardinality(S) \in Nat
        /\ \A x \in S : Rank(x, S, before) \in 0..(Cardinality(S) - 1)
        /\ \A x, y \in S : Rank(x, S, before) = Rank(y, S, before) => x = y
        /\ \A i \in 0..(Cardinality(S) - 1) : \E x \in S : Rank(x, S, before) = i
    BY RanksAre
  <2>2. f \in [T -> K] /\ \A x, y \in T : f[x] = f[y] => x = y
    BY <2>1
  <2>3. \A i \in K : \E x \in T : f[x] = i
    <3> SUFFICES ASSUME NEW i \in K PROVE \E x \in T : f[x] = i
      OBVIOUS
    <3>1. PICK x \in S : Rank(x, S, before) = i
      BY <2>1
    <3> QED
      BY <3>1
  <2> HIDE DEF T, K, f
  <2> QED
    BY <2>2, <2>3 DEF Bijection, Injection, Surjection, IsInjective
<1>2. IsFiniteSet(T)
  BY FS_Subset
<1>3. Cardinality(K) = k
  BY FS_Interval
<1> HIDE DEF T, K, f
<1>4. Cardinality(T) = Cardinality(K)
  BY <1>1, <1>2, FS_Bijection DEF ExistsBijection
<1> QED
  BY <1>3, <1>4 DEF T

\* The terms of two parts.
LEMMA SumOfBoth ==
  ASSUME NEW S, IsFiniteSet(S), NEW f, \A x \in S : f[x] \in Int, NEW P \in SUBSET S
  PROVE  SumFunctionOnSet(f, S) = SumFunctionOnSet(f, P) + SumFunctionOnSet(f, S \ P)
<1> DEFINE in == [x \in S |-> IF x \in P THEN f[x] ELSE 0]
           out == [x \in S |-> IF x \in P THEN 0 ELSE f[x]]
           Q == S \ P
<1>1. /\ \A x \in S : in[x] \in Int /\ out[x] \in Int /\ f[x] = in[x] + out[x]
      /\ \A x \in S \ P : in[x] = 0
      /\ \A x \in S \ Q : out[x] = 0
      /\ \A x \in P : in[x] = f[x]
      /\ \A x \in Q : out[x] = f[x]
      /\ Q \in SUBSET S
  OBVIOUS
<1>2. IsFiniteSet(P) /\ IsFiniteSet(Q)
  BY FS_Subset
<1> HIDE DEF in, out, Q
<1>3. SumFunctionOnSet(f, S) = SumFunctionOnSet(in, S) + SumFunctionOnSet(out, S)
  BY <1>1, SumPlus
<1>4. SumFunctionOnSet(in, S) = SumFunctionOnSet(in, P)
  BY <1>1, SumOfTheRest
<1>5. SumFunctionOnSet(out, S) = SumFunctionOnSet(out, Q)
  BY <1>1, SumOfTheRest
<1>6. SumFunctionOnSet(in, P) = SumFunctionOnSet(f, P)
  BY <1>1, <1>2, SumSame
<1>7. SumFunctionOnSet(out, Q) = SumFunctionOnSet(f, Q)
  BY <1>1, <1>2, SumSame
<1> QED
  BY <1>3, <1>4, <1>5, <1>6, <1>7 DEF Q

\* What holds at first, and after each step when it held before, holds
\* after all of them: H are the numbers of steps after which it does.
LEMMA StepByStep ==
  ASSUME NEW n \in Nat, NEW H, 0 \in H, \A i \in 1..n : i - 1 \in H => i \in H
  PROVE  \A i \in 0..n : i \in H
<1> DEFINE U == {i \in 0..n : i \notin H}
<1> SUFFICES ASSUME U # {} PROVE FALSE
  OBVIOUS
<1>1. PICK m \in U : \A i \in U : m <= i
  <2>1. U \in SUBSET Nat /\ U # {}
    OBVIOUS
  <2> HIDE DEF U
  <2> QED
    BY <2>1, LeastNumber
<1>2. m \in 1..n /\ m - 1 \in 0..n /\ m \notin H
  BY <1>1
<1>3. m - 1 \notin U
  BY <1>1, <1>2
<1> QED
  BY <1>2, <1>3

\* Unfolding in the order of a sequence takes one step for each position.
LEMMA UnfoldsInSteps ==
  ASSUME NEW n \in Nat, NEW step, NEW base, NEW h, Unfolds(step, base, Latest(n), 1..n, h)
  PROVE  h[1..0] = base /\ \A i \in 1..n : h[1..i] = step[<<h[1..(i - 1)], i>>]
<1>1. h[1..0] = base
  <2>1. 1..0 = {} /\ {} \in SUBSET (1..n)
    OBVIOUS
  <2> QED
    BY <2>1 DEF Unfolds
<1>2. ASSUME NEW i \in 1..n PROVE h[1..i] = step[<<h[1..(i - 1)], i>>]
  <2>1. Latest(n)[1..i] = i
    <3>1. 1..i \in SUBSET (1..n) /\ 1..i # {} /\ 1..i \in SUBSET (1..i)
      OBVIOUS
    <3>2. Latest(n)[1..i] = Max(1..i)
      BY <3>1 DEF Latest
    <3>3. Max(1..i) \in 1..i /\ \A x \in 1..i : x <= Max(1..i)
      <4> DEFINE s == 1..i
      <4>1. s \in SUBSET Nat /\ IsFiniteSet(s) /\ s # {}
        <5>1. s \in SUBSET Nat /\ i \in s
          OBVIOUS
        <5>2. IsFiniteSet(s)
          BY FS_Interval
        <5> QED
          BY <5>1, <5>2
      <4> HIDE DEF s
      <4> QED
        BY <4>1, LargestIs DEF s
    <3> QED
      BY <3>2, <3>3
  <2>2. 1..i \in SUBSET (1..n) /\ 1..i # {} /\ (1..i) \ {i} = 1..(i - 1)
    OBVIOUS
  <2>3. h[1..i] = step[<<h[(1..i) \ {Latest(n)[1..i]}], Latest(n)[1..i]>>]
    BY <2>2 DEF Unfolds
  <2> QED
    BY <2>1, <2>2, <2>3
<1> QED
  BY <1>1, <1>2

\* q goes through the elements of S by their ranks.
InRanks(q, S, before) ==
  /\ DOMAIN q = 1..Cardinality(S)
  /\ \A k \in DOMAIN q : (\E x \in S : Rank(x, S, before) = k - 1)
                            => q[k] \in S /\ Rank(q[k], S, before) = k - 1

\* q has each element of S once.
ListsOnce(q, S) ==
  /\ Cardinality(S) \in Nat /\ q \in [1..Cardinality(S) -> S]
  /\ \A i, j \in DOMAIN q : q[i] = q[j] => i = j
  /\ \A x \in S : \E k \in DOMAIN q : q[k] = x

\* InRanks by an order, each element comes once, and after those before it.
LEMMA RankedLists ==
  ASSUME NEW S, IsFiniteSet(S), NEW before, Orders(before, S), NEW q, InRanks(q, S, before),
         q = [k \in DOMAIN q |-> q[k]]
  PROVE  /\ ListsOnce(q, S)
         /\ \A i, j \in DOMAIN q : i < j => <<q[i], q[j]>> \in before
<1> DEFINE n == Cardinality(S)
<1>1. /\ n \in Nat
      /\ \A x \in S : Rank(x, S, before) \in 0..(n - 1)
      /\ \A x, y \in S : Rank(x, S, before) = Rank(y, S, before) => x = y
      /\ \A k \in 0..(n - 1) : \E x \in S : Rank(x, S, before) = k
      /\ \A x, y \in S : <<x, y>> \in before => Rank(x, S, before) < Rank(y, S, before)
  BY RanksAre
<1>2. DOMAIN q = 1..n /\ \A k \in 1..n : q[k] \in S /\ Rank(q[k], S, before) = k - 1
  <2>1. DOMAIN q = 1..n
    BY DEF InRanks
  <2>2. ASSUME NEW k \in 1..n PROVE q[k] \in S /\ Rank(q[k], S, before) = k - 1
    <3>1. k - 1 \in 0..(n - 1)
      BY <1>1
    <3>2. \E x \in S : Rank(x, S, before) = k - 1
      BY <1>1, <3>1
    <3> QED
      BY <2>1, <3>2 DEF InRanks
  <2> QED
    BY <2>1, <2>2
<1>3. \A x \in S : q[Rank(x, S, before) + 1] = x /\ Rank(x, S, before) + 1 \in 1..n
  BY <1>1, <1>2
<1>4. \A i, j \in DOMAIN q : q[i] = q[j] => i = j
  <2> SUFFICES ASSUME NEW i \in 1..n, NEW j \in 1..n, q[i] = q[j] PROVE i = j
    BY <1>2
  <2>1. Rank(q[i], S, before) = i - 1 /\ Rank(q[j], S, before) = j - 1
    BY <1>2
  <2> QED
    BY <1>1, <2>1
<1>5. ASSUME NEW i \in DOMAIN q, NEW j \in DOMAIN q, i < j
      PROVE  <<q[i], q[j]>> \in before
  <2>1. /\ Rank(q[i], S, before) = i - 1 /\ Rank(q[j], S, before) = j - 1
        /\ q[i] \in S /\ q[j] \in S /\ i \in Int /\ j \in Int
    BY <1>1, <1>2
  <2>2. q[i] # q[j]
    BY <1>4, <1>5, <2>1
  <2>3. <<q[i], q[j]>> \in before \/ <<q[j], q[i]>> \in before
    BY <2>1, <2>2 DEF Orders
  <2> QED
    BY <1>1, <1>5, <2>1, <2>3
<1>6. ListsOnce(q, S)
  <2>1. q \in [1..n -> S]
    BY <1>2
  <2>2. \A x \in S : \E k \in DOMAIN q : q[k] = x
    BY <1>2, <1>3
  <2> QED
    BY <1>1, <1>4, <2>1, <2>2 DEF ListsOnce
<1> QED
  BY <1>5, <1>6

\* The sum over a sequence that has each element once is that over them.
LEMMA SumListed ==
  ASSUME NEW S, IsFiniteSet(S), NEW q, ListsOnce(q, S), NEW g, \A x \in S : g[x] \in Nat,
         NEW f, \A k \in DOMAIN q : f[k] = g[q[k]]
  PROVE  SumFunctionOnSet(f, DOMAIN q) = SumFunctionOnSet(g, S)
<1> DEFINE D == DOMAIN q
<1>1. /\ D = 1..Cardinality(S) /\ Cardinality(S) \in Nat /\ q \in [D -> S]
      /\ \A i, j \in D : q[i] = q[j] => i = j
      /\ \A x \in S : \E k \in D : q[k] = x
  BY DEF ListsOnce
<1>2. IsFiniteSet(D)
  BY <1>1, FS_Interval
<1>3. \A k \in D : f[k] = g[q[k]]
  OBVIOUS
<1> HIDE DEF D
<1>5. /\ q \in [D -> S] /\ \A i, j \in D : q[i] = q[j] => i = j
      /\ \A x \in S : \E k \in D : q[k] = x
  BY <1>1
<1>4. SumFunctionOnSet(f, D) = SumFunctionOnSet(g, S)
  BY <1>2, <1>3, <1>5, SumThrough
<1> QED
  BY <1>4 DEF D
=============================================================================
