-------------------------- MODULE MergeScreen_proofs --------------------------
(***************************************************************************)
(* First what the functions of RequirementMerge return, for any list: the  *)
(* order of the places of values, the variants of a group, the groups the  *)
(* rows of a list are put into, and the requirements the groups become.    *)
(* Then the screen about repeated items: it keeps every line of a list,    *)
(* sends what it shows, and hands on requirements that the plan leaves as  *)
(* they are, for any lists, items that are added and numbers entered.      *)
(***************************************************************************)
EXTENDS MergeScreen, FiniteFacts, SequenceTheorems

-----------------------------------------------------------------------------
(* The elements of a set in an order *)

\* A sequence of some elements, in which each of them is.
Enumerates(sequence, S) ==
  /\ sequence \in Seq(S)
  /\ \A x \in S : \E k \in DOMAIN sequence : sequence[k] = x

\* In an order each number of predecessors is that of one element.
LEMMA InOrderIs ==
  ASSUME NEW S, IsFiniteSet(S), NEW before, Orders(before, S)
  PROVE  Enumerates(InOrder(S, before), S) /\ Len(InOrder(S, before)) = Cardinality(S)
<1> DEFINE with(k) == CHOOSE x \in S : Rank(x, S, before) = k - 1
           n == Cardinality(S)
           q == InOrder(S, before)
<1>1. q = [k \in 1..n |-> with(k)]
  BY DEF InOrder, Rank
<1>2. DOMAIN q = 1..n /\ q = [k \in DOMAIN q |-> q[k]] /\ \A k \in 1..n : q[k] = with(k)
  <2> HIDE DEF with, q
  <2> QED
    BY <1>1
<1> HIDE DEF q
<1>3. InRanks(q, S, before)
  <2> SUFFICES ASSUME NEW k \in 1..n, \E x \in S : Rank(x, S, before) = k - 1
               PROVE  q[k] \in S /\ Rank(q[k], S, before) = k - 1
    BY <1>2 DEF InRanks
  <2>1. with(k) \in S /\ Rank(with(k), S, before) = k - 1
    OBVIOUS
  <2> HIDE DEF with
  <2> QED
    BY <1>2, <2>1
<1>4. ListsOnce(q, S)
  BY <1>2, <1>3, RankedLists
<1>5. n \in Nat /\ q \in [1..n -> S] /\ \A x \in S : \E k \in DOMAIN q : q[k] = x
  BY <1>4 DEF ListsOnce
<1> HIDE DEF n
<1>6. q \in Seq(S) /\ Len(q) = n
  BY <1>5
<1> QED
  BY <1>5, <1>6 DEF Enumerates, q, n

\* The values at some places are those at the places.
LEMMA AtIs ==
  ASSUME NEW values, NEW places \in SUBSET Nat, IsFiniteSet(places)
  PROVE  Enumerates(At(values, places), {values[i] : i \in places})
<1> DEFINE earlier == {p \in places \X places : p[1] < p[2]}
           order == InOrder(places, earlier)
<1>1. Orders(earlier, places)
  BY DEF Orders
<1>2. Enumerates(order, places)
  <2> HIDE DEF earlier
  <2> QED
    BY <1>1, InOrderIs
<1>3. At(values, places) = [k \in DOMAIN order |-> values[order[k]]]
  BY DEF At
<1>4. /\ Len(order) \in Nat /\ DOMAIN order = 1..Len(order)
      /\ \A k \in DOMAIN order : order[k] \in places
  BY <1>2 DEF Enumerates
<1> HIDE DEF order
<1> QED
  BY <1>2, <1>3, <1>4 DEF Enumerates

\* The distinct values of a sequence are its values.
LEMMA DistinctIs ==
  ASSUME NEW values, NEW n \in Nat, DOMAIN values = 1..n
  PROVE  Enumerates(Distinct(values), {values[i] : i \in 1..n})
<1> DEFINE places == {i \in DOMAIN values : \A j \in 1..(i - 1) : values[j] # values[i]}
<1>1. places \in SUBSET Nat /\ IsFiniteSet(places)
  <2>1. places \in SUBSET (1..n) /\ IsFiniteSet(1..n)
    BY FS_Interval
  <2>2. IsFiniteSet(places)
    <3> DEFINE all == 1..n
    <3> HIDE DEF places, all
    <3> QED
      BY <2>1, FS_Subset DEF all
  <2> QED
    BY <2>1, <2>2
<1>2. {values[i] : i \in places} = {values[i] : i \in 1..n}
  <2> SUFFICES ASSUME NEW i \in 1..n PROVE \E j \in places : values[j] = values[i]
    OBVIOUS
  <2> DEFINE same == {j \in 1..n : values[j] = values[i]}
  <2>1. same \in SUBSET Nat /\ same # {}
    OBVIOUS
  <2>2. PICK m \in same : \A j \in same : m <= j
    <3> HIDE DEF same
    <3> QED
      BY <2>1, LeastNumber
  <2>3. m \in places
    BY <2>2
  <2> QED
    BY <2>2, <2>3
<1>3. Distinct(values) = At(values, places)
  BY DEF Distinct
<1> HIDE DEF places
<1> QED
  BY <1>1, <1>2, <1>3, AtIs

-----------------------------------------------------------------------------
(* What the rows of a group say *)

\* Rows of which each asks for a unit or more.
Counted(group) ==
  /\ Len(group) \in Nat \ {0} /\ DOMAIN group = 1..Len(group)
  /\ \A i \in DOMAIN group : group[i].qty \in Nat \ {0}

\* The variants of a group: each is of some of its rows, each row is of one.
VariantsOf(group, members) ==
  /\ \E n \in Nat \ {0} : DOMAIN members = 1..n
  /\ \A k \in DOMAIN members :
       Counted(members[k]) /\ \A i \in DOMAIN members[k] :
                                \E j \in DOMAIN group : members[k][i] = group[j]
  /\ \A j \in DOMAIN group :
       \E k \in DOMAIN members : \E i \in DOMAIN members[k] : members[k][i] = group[j]

LEMMA MembersAre ==
  ASSUME NEW group, Counted(group), NEW fields
  PROVE  VariantsOf(group, MembersOf(group, fields))
<1> DEFINE n == Len(group)
           ms == MembersOf(group, fields)
<1>1. n \in Nat \ {0} /\ DOMAIN group = 1..n
  BY DEF Counted
<1>2. CASE fields = {}
  <2>1. ms = [i \in 1..n |-> <<group[i]>>]
    BY <1>1, <1>2 DEF MembersOf
  <2>2. \A i \in 1..n : Counted(<<group[i]>>)
    BY <1>1 DEF Counted
  <2> HIDE DEF ms, n
  <2>3. \A k \in DOMAIN ms : /\ DOMAIN ms[k] = {1} /\ ms[k][1] = group[k] /\ Counted(ms[k])
    BY <2>1, <2>2
  <2>4. \A k \in DOMAIN ms : \A i \in DOMAIN ms[k] : i = 1 /\ ms[k][i] = group[k]
    BY <2>3
  <2>5. DOMAIN ms = 1..n /\ \A j \in DOMAIN group : 1 \in DOMAIN ms[j] /\ ms[j][1] = group[j]
    BY <1>1, <2>1, <2>3
  <2>6. VariantsOf(group, ms)
    BY <1>1, <2>3, <2>4, <2>5 DEF VariantsOf
  <2> QED
    BY <2>6 DEF ms
<1>3. CASE fields # {}
  <2> DEFINE of == [i \in DOMAIN group |-> VariantDetails(group[i], fields)]
             kinds == Distinct(of)
             Places(k) == {i \in DOMAIN group : of[i] = kinds[k]}
  <2>1. ms = [k \in DOMAIN kinds |-> At(group, Places(k))]
    BY <1>3 DEF MembersOf, MembersByKind
  <2>2. Enumerates(kinds, {of[i] : i \in 1..n})
    <3> DOMAIN of = 1..n
      BY <1>1
    <3> HIDE DEF of, n
    <3> QED
      BY <1>1, DistinctIs
  <2>3. DOMAIN kinds = 1..Len(kinds) /\ Len(kinds) \in Nat
        /\ \A k \in DOMAIN kinds : \E i \in 1..n : kinds[k] = of[i]
    <3> HIDE DEF of, n, kinds
    <3> QED
      BY <2>2 DEF Enumerates
  <2>4. \A i \in 1..n : \E k \in DOMAIN kinds : i \in Places(k)
    <3> HIDE DEF of, n, kinds
    <3> QED
      BY <1>1, <2>2 DEF Enumerates
  <2>5. ASSUME NEW k \in DOMAIN kinds
        PROVE  /\ Enumerates(At(group, Places(k)), {group[i] : i \in Places(k)})
               /\ Places(k) # {} /\ Places(k) \subseteq DOMAIN group
    <3>1. Places(k) \in SUBSET Nat /\ Places(k) \in SUBSET (1..n) /\ IsFiniteSet(1..n)
      BY <1>1, FS_Interval
    <3>2. IsFiniteSet(Places(k))
      <4> DEFINE all == 1..n
                 here == Places(k)
      <4> HIDE DEF all, here
      <4> QED
        BY <3>1, FS_Subset DEF all, here
    <3>3. Places(k) # {} /\ Places(k) \subseteq DOMAIN group
      <4> HIDE DEF of, n, kinds
      <4> QED
        BY <1>1, <2>3
    <3> DEFINE here == Places(k)
    <3> HIDE DEF here
    <3> QED
      BY <3>1, <3>2, <3>3, AtIs DEF here
  <2> HIDE DEF Places, kinds, ms, n, of
  <2>6. ASSUME NEW k \in DOMAIN ms
        PROVE  /\ Counted(ms[k])
               /\ \A i \in DOMAIN ms[k] : \E j \in DOMAIN group : ms[k][i] = group[j]
    <3> DEFINE m == ms[k]
               V == {group[i] : i \in Places(k)}
    <3>1. Enumerates(m, V) /\ Places(k) # {} /\ Places(k) \subseteq DOMAIN group
      BY <2>1, <2>5
    <3>2. V # {} /\ \A v \in V : \E j \in DOMAIN group : v = group[j]
      BY <3>1
    <3> HIDE DEF m, V
    <3>3. Len(m) \in Nat /\ DOMAIN m = 1..Len(m) /\ \A i \in DOMAIN m : m[i] \in V
      BY <3>1 DEF Enumerates
    <3>4. DOMAIN m # {}
      BY <3>1, <3>2 DEF Enumerates
    <3> QED
      BY <3>2, <3>3, <3>4 DEF Counted, m
  <2>7. ASSUME NEW j \in DOMAIN group
        PROVE  \E k \in DOMAIN ms : \E i \in DOMAIN ms[k] : ms[k][i] = group[j]
    <3>1. PICK k \in DOMAIN kinds : j \in Places(k)
      BY <1>1, <2>4
    <3>2. ms[k] = At(group, Places(k)) /\ k \in DOMAIN ms
      BY <2>1
    <3>3. \E i \in DOMAIN ms[k] : ms[k][i] = group[j]
      <4> DEFINE m == ms[k]
                 V == {group[i] : i \in Places(k)}
      <4>1. Enumerates(m, V) /\ group[j] \in V
        BY <2>5, <3>1, <3>2
      <4> HIDE DEF m, V
      <4>2. \E i \in DOMAIN m : m[i] = group[j]
        BY <4>1 DEF Enumerates
      <4> QED
        BY <4>2 DEF m
    <3> QED
      BY <3>2, <3>3
  <2>8. \E l \in Nat \ {0} : DOMAIN ms = 1..l
    <3>1. DOMAIN kinds # {} /\ DOMAIN ms = DOMAIN kinds
      BY <1>1, <2>1, <2>4
    <3>2. Len(kinds) # 0
      BY <2>3, <3>1
    <3> QED
      BY <2>3, <3>1, <3>2
  <2> QED
    BY <2>6, <2>7, <2>8 DEF VariantsOf, ms
<1> QED
  BY <1>2, <1>3

\* The largest of the numbers is one that some row says.
LEMMA LargestQuantity ==
  ASSUME NEW group, Counted(group)
  PROVE  /\ Max(Quantities(group)) \in Nat \ {0}
         /\ \A i \in DOMAIN group : group[i].qty <= Max(Quantities(group))
         /\ \E i \in DOMAIN group : group[i].qty = Max(Quantities(group))
<1> DEFINE Q == Quantities(group)
<1>1. Q \subseteq Nat /\ Q # {} /\ \A q \in Q : \E i \in DOMAIN group : group[i].qty = q
  BY DEF Counted, Quantities
<1>2. IsFiniteSet(Q)
  <2> DEFINE f == [i \in DOMAIN group |-> group[i].qty]
  <2>1. IsFiniteSet(DOMAIN group)
    <3>1. DOMAIN group = 1..Len(group) /\ Len(group) \in Nat
      BY DEF Counted
    <3>2. IsFiniteSet(1..Len(group))
      BY <3>1, FS_Interval
    <3> QED
      BY <3>1, <3>2
  <2>2. Q = {f[i] : i \in DOMAIN group}
    BY DEF Quantities
  <2> HIDE DEF f, Q
  <2> QED
    BY <2>1, <2>2, ImageIsFinite
<1>3. \A i \in DOMAIN group : group[i].qty \in Q
  BY DEF Quantities
<1> HIDE DEF Q
<1>4. Max(Q) \in Q /\ \A x \in Q : x <= Max(Q)
  BY <1>1, <1>2, LargestIs
<1> QED
  BY <1>1, <1>3, <1>4 DEF Counted, Q

\* What is asked for when the parent has said nothing is no less than any row
\* asks for.
LEMMA DefaultIsEnough ==
  ASSUME NEW group, Counted(group)
  PROVE  /\ DefaultQuantity(group) \in Nat \ {0}
         /\ \A i \in DOMAIN group : group[i].qty <= DefaultQuantity(group)
<1> DEFINE f == [i \in DOMAIN group |-> group[i].qty]
           D == DOMAIN group
<1>1. IsFiniteSet(D) /\ D # {} /\ \A i \in D : f[i] = group[i].qty /\ f[i] \in Nat \ {0}
  <2>1. Len(group) \in Nat \ {0} /\ D = 1..Len(group) /\ D # {}
    BY DEF Counted
  <2>3. IsFiniteSet(1..Len(group))
    BY <2>1, FS_Interval
  <2>2. \A i \in D : f[i] = group[i].qty /\ f[i] \in Nat \ {0}
    BY DEF Counted
  <2> HIDE DEF D, f
  <2> QED
    BY <2>1, <2>2, <2>3
<1>2. Total(group) = SumFunctionOnSet(f, D)
  BY DEF Total
<1> HIDE DEF f, D
<1>3. Total(group) \in Nat /\ \A i \in D : f[i] <= Total(group)
  BY <1>1, <1>2, SumNat, SumAtLeast
<1>4. Total(group) \in Nat \ {0} /\ \A i \in DOMAIN group : group[i].qty <= Total(group)
  BY <1>1, <1>3 DEF D
<1> QED
  BY <1>4, LargestQuantity DEF DefaultQuantity

-----------------------------------------------------------------------------
(* The groups the rows of a list are put into *)

RowsIn(rows) == {rows[i] : i \in DOMAIN rows}
Items(rows) == {rows[i].item : i \in DOMAIN rows}

\* The groups are numbered item by item, and hold rows.
Numbered(rows, g) ==
  /\ IsFiniteSet(DOMAIN g)
  /\ \A d \in DOMAIN g :
       /\ d \in Items(rows) \X (Nat \ {0})
       /\ g[d] \in Seq(RowsIn(rows)) /\ g[d] # <<>>

\* A group holds rows of its item that were taken.
HoldsItsRows(rows, taken, g) ==
  \A d \in DOMAIN g : \A i \in DOMAIN g[d] :
    \E m \in taken : g[d][i] = rows[m] /\ d[1] = rows[m].item

\* No row that was taken is left out.
HoldsAll(rows, taken, g) ==
  \A m \in taken : \E d \in DOMAIN g : \E i \in DOMAIN g[d] : g[d][i] = rows[m]

\* No row is in two places, if each has an id of its own.
HoldsOnce(rows, g) ==
  (\A i, j \in DOMAIN rows : i # j => rows[i].req # rows[j].req) =>
    \A d, e \in DOMAIN g : \A i \in DOMAIN g[d], j \in DOMAIN g[e] :
      g[d][i].req = g[e][j].req => d = e /\ i = j

\* No two rows of a group are of one section.
OneOfEachSection(g) ==
  \A d \in DOMAIN g : \A i, j \in DOMAIN g[d] :
    i # j => Origins(g[d][i]) \cap Origins(g[d][j]) = {}

\* Groups of one item meet: that is why they are not one.
GroupsMeet(g) ==
  \A d \in DOMAIN g : \A k \in 1..(d[2] - 1) :
    /\ <<d[1], k>> \in DOMAIN g
    /\ OriginsOf(g[<<d[1], k>>]) \cap OriginsOf(g[d]) # {}

Grouped(rows, taken, g) ==
  /\ Numbered(rows, g)
  /\ HoldsItsRows(rows, taken, g)
  /\ HoldsAll(rows, taken, g)
  /\ HoldsOnce(rows, g)
  /\ OneOfEachSection(g)
  /\ GroupsMeet(g)

\* Of any item one of the first numbers is that of no group.
LEMMA FreeNumber ==
  ASSUME NEW g, IsFiniteSet(DOMAIN g), NEW item
  PROVE  /\ Cardinality(DOMAIN g) \in Nat
         /\ \E k \in 1..(Cardinality(DOMAIN g) + 1) : <<item, k>> \notin DOMAIN g
<1> DEFINE D == DOMAIN g
           n == Cardinality(D)
           S == 1..(n + 1)
           f == [k \in S |-> <<item, k>>]
<1>1. n \in Nat
  BY FS_CardinalityType
<1>2. IsFiniteSet(S) /\ Cardinality(S) = n + 1
  <2> HIDE DEF n
  <2> QED
    BY <1>1, FS_Interval
<1>3. ASSUME \A k \in S : <<item, k>> \in D PROVE FALSE
  <2>1. f \in [S -> D] /\ \A x, y \in S : f[x] = f[y] => x = y
    BY <1>3
  <2>2. Cardinality(D) < Cardinality(S)
    <3> HIDE DEF S
    <3> QED
      BY <1>1, <1>2
  <2> HIDE DEF f, S, D
  <2> QED
    BY <1>2, <2>1, <2>2, FS_PigeonHole DEF D
<1> QED
  BY <1>1, <1>3

\* A row joins the first group of its item that it does not meet.
JoinsAt(g, row, k) ==
  /\ JoinGroup(g, row) = Joined(g, <<row.item, k>>, row)
  /\ <<row.item, k>> \in DOMAIN g => Origins(row) \cap OriginsOf(g[<<row.item, k>>]) = {}
  /\ \A l \in 1..(k - 1) :
       /\ <<row.item, l>> \in DOMAIN g
       /\ Origins(row) \cap OriginsOf(g[<<row.item, l>>]) # {}

LEMMA JoinIs ==
  ASSUME NEW g, IsFiniteSet(DOMAIN g), NEW row
  PROVE  \E k \in Nat \ {0} : JoinsAt(g, row, k)
<1> DEFINE n == Cardinality(DOMAIN g)
           Fits(k) == <<row.item, k>> \in DOMAIN g =>
                        Origins(row) \cap OriginsOf(g[<<row.item, k>>]) = {}
           F == {k \in 1..(n + 1) : Fits(k)}
<1>1. n \in Nat /\ F # {}
  BY FreeNumber
<1>2. JoinGroup(g, row) = Joined(g, <<row.item, Min(F)>>, row)
  BY DEF JoinGroup
<1>3. F \in SUBSET Nat
  OBVIOUS
<1>4. Min(F) \in F /\ \A k \in F : Min(F) <= k
  <2> HIDE DEF F
  <2> QED
    BY <1>1, <1>3, LeastIs
<1> DEFINE k == Min(F)
<1>5. k \in 1..(n + 1) /\ Fits(k)
  BY <1>4
<1>6. ASSUME NEW l \in 1..(k - 1) PROVE ~ Fits(l)
  <2>1. l \in 1..(n + 1) /\ ~ k <= l
    <3> HIDE DEF k, n
    <3> QED
      BY <1>1, <1>5
  <2> QED
    BY <1>4, <2>1
<1>7. JoinsAt(g, row, k)
  BY <1>2, <1>5, <1>6 DEF JoinsAt
<1> HIDE DEF k, n
<1> QED
  BY <1>1, <1>5, <1>7

\* h is g with one more row, which is in the place p of the group d.
OneMore(g, h, d, p, row) ==
  /\ d \in DOMAIN h /\ p \in DOMAIN h[d] /\ h[d][p] = row
  /\ \A e \in DOMAIN h : \A i \in DOMAIN h[e] :
       \/ e = d /\ i = p
       \/ e \in DOMAIN g /\ i \in DOMAIN g[e] /\ h[e][i] = g[e][i]
  /\ \A e \in DOMAIN g : \A i \in DOMAIN g[e] :
       e \in DOMAIN h /\ i \in DOMAIN h[e] /\ h[e][i] = g[e][i] /\ ~ (e = d /\ i = p)

LEMMA JoinedIs ==
  ASSUME NEW rows, NEW row \in RowsIn(rows), NEW g, Numbered(rows, g),
         NEW d \in Items(rows) \X (Nat \ {0})
  PROVE  /\ Numbered(rows, Joined(g, d, row))
         /\ DOMAIN Joined(g, d, row) = DOMAIN g \cup {d}
         /\ \E p : OneMore(g, Joined(g, d, row), d, p, row)
<1> DEFINE h == Joined(g, d, row)
           S == Seq(RowsIn(rows))
           l == IF d \in DOMAIN g THEN Len(g[d]) ELSE 0
<1>1. DOMAIN h = DOMAIN g \cup {d} /\ \A e \in DOMAIN g : e # d => h[e] = g[e]
  BY DEF Joined
<1>2. h[d] = IF d \in DOMAIN g THEN Append(g[d], row) ELSE <<row>>
  BY DEF Joined
<1> HIDE DEF h
<1>3. /\ h[d] \in S /\ l \in Nat /\ DOMAIN h[d] = 1..(l + 1) /\ h[d][l + 1] = row
      /\ \A i \in 1..l : d \in DOMAIN g /\ h[d][i] = g[d][i]
  <2>1. CASE d \in DOMAIN g
    <3> DEFINE q == g[d]
    <3>1. q \in S
      BY <2>1 DEF Numbered
    <3>2. h[d] = Append(q, row) /\ l = Len(q)
      BY <1>2, <2>1
    <3> HIDE DEF q
    <3>3. Append(q, row) \in S /\ Len(q) \in Nat /\ DOMAIN Append(q, row) = 1..(Len(q) + 1)
          /\ Append(q, row)[Len(q) + 1] = row /\ \A i \in 1..Len(q) : Append(q, row)[i] = q[i]
      BY <3>1
    <3> HIDE DEF S, l
    <3> QED
      BY <2>1, <3>2, <3>3 DEF q
  <2>2. CASE d \notin DOMAIN g
    <3>1. <<row>> \in S /\ DOMAIN <<row>> = 1..1 /\ <<row>>[1] = row
      OBVIOUS
    <3>2. h[d] = <<row>> /\ l = 0
      BY <1>2, <2>2
    <3> HIDE DEF S, l
    <3> QED
      BY <3>1, <3>2
  <2> QED
    BY <2>1, <2>2
<1>4. d \in DOMAIN g => DOMAIN g[d] = 1..l
  BY DEF Numbered
<1> HIDE DEF l
<1>5. Numbered(rows, h)
  <2>1. IsFiniteSet(DOMAIN h)
    BY <1>1, FS_AddElement DEF Numbered
  <2>2. ASSUME NEW e \in DOMAIN h
        PROVE  e \in Items(rows) \X (Nat \ {0}) /\ h[e] \in S /\ h[e] # <<>>
    <3>1. CASE e = d
      <4>1. DOMAIN h[d] # {}
        <5>1. l + 1 \in 1..(l + 1)
          BY <1>3
        <5> QED
          BY <1>3, <5>1
      <4>2. h[d] # <<>>
        BY <4>1
      <4> HIDE DEF S
      <4> QED
        BY <1>3, <3>1, <4>2
    <3>2. CASE e # d
      BY <1>1, <3>2 DEF Numbered
    <3> QED
      BY <3>1, <3>2
  <2> QED
    BY <2>1, <2>2 DEF Numbered
<1>6. OneMore(g, h, d, l + 1, row)
  <2>1. d \in DOMAIN h /\ l + 1 \in DOMAIN h[d] /\ h[d][l + 1] = row
    BY <1>1, <1>3
  <2>2. ASSUME NEW e \in DOMAIN h, NEW i \in DOMAIN h[e], ~ (e = d /\ i = l + 1)
        PROVE  e \in DOMAIN g /\ i \in DOMAIN g[e] /\ h[e][i] = g[e][i]
    <3>1. CASE e # d
      BY <1>1, <3>1
    <3>2. CASE e = d
      <4>1. i \in 1..l
        BY <1>3, <2>2, <3>2
      <4> QED
        BY <1>3, <1>4, <3>2, <4>1
    <3> QED
      BY <3>1, <3>2
  <2>3. ASSUME NEW e \in DOMAIN g, NEW i \in DOMAIN g[e]
        PROVE  e \in DOMAIN h /\ i \in DOMAIN h[e] /\ h[e][i] = g[e][i] /\ ~ (e = d /\ i = l + 1)
    <3>1. CASE e # d
      BY <1>1, <3>1
    <3>2. CASE e = d
      <4>1. i \in 1..l /\ i # l + 1
        BY <1>3, <1>4, <3>2
      <4> QED
        BY <1>1, <1>3, <3>2, <4>1
    <3> QED
      BY <3>1, <3>2
  <2> QED
    BY <2>1, <2>2, <2>3 DEF OneMore
<1> QED
  BY <1>1, <1>5, <1>6 DEF h

\* Groups remain what they are when one more row joins them.
LEMMA JoinKeepsGroups ==
  ASSUME NEW rows, NEW taken \in SUBSET (DOMAIN rows), NEW m \in taken, NEW g,
         Grouped(rows, taken \ {m}, g)
  PROVE  Grouped(rows, taken, JoinGroup(g, rows[m]))
<1> DEFINE row == rows[m]
           h == JoinGroup(g, row)
<1>1. row \in RowsIn(rows) /\ row.item \in Items(rows)
  BY DEF RowsIn, Items
<1>2. Numbered(rows, g) /\ IsFiniteSet(DOMAIN g)
  BY DEF Grouped, Numbered
<1>3. PICK k \in Nat \ {0} : JoinsAt(g, row, k)
  <2> HIDE DEF row
  <2> QED
    BY <1>2, JoinIs
<1> DEFINE d == <<row.item, k>>
<1>4. h = Joined(g, d, row)
  BY <1>3 DEF JoinsAt
<1> HIDE DEF h
<1>5. d \in Items(rows) \X (Nat \ {0}) /\ d[1] = row.item /\ d[2] = k
  BY <1>1, <1>3
<1> HIDE DEF d, row
<1>6. Numbered(rows, h) /\ DOMAIN h = DOMAIN g \cup {d}
  BY <1>1, <1>2, <1>4, <1>5, JoinedIs
<1>7. PICK p : OneMore(g, h, d, p, row)
  BY <1>1, <1>2, <1>4, <1>5, JoinedIs
<1>8. HoldsItsRows(rows, taken, h)
  <2> SUFFICES ASSUME NEW e \in DOMAIN h, NEW i \in DOMAIN h[e]
               PROVE  \E n \in taken : h[e][i] = rows[n] /\ e[1] = rows[n].item
    BY DEF HoldsItsRows
  <2>1. CASE e = d /\ i = p
    BY <1>5, <1>7, <2>1 DEF OneMore, row
  <2>2. CASE e \in DOMAIN g /\ i \in DOMAIN g[e] /\ h[e][i] = g[e][i]
    BY <2>2 DEF Grouped, HoldsItsRows
  <2> QED
    BY <1>7, <2>1, <2>2 DEF OneMore
<1>9. HoldsAll(rows, taken, h)
  <2> SUFFICES ASSUME NEW n \in taken
               PROVE  \E e \in DOMAIN h : \E i \in DOMAIN h[e] : h[e][i] = rows[n]
    BY DEF HoldsAll
  <2>1. CASE n = m
    BY <1>7, <2>1 DEF OneMore, row
  <2>2. CASE n # m
    <3>1. PICK e \in DOMAIN g : \E i \in DOMAIN g[e] : g[e][i] = rows[n]
      BY <2>2 DEF Grouped, HoldsAll
    <3> QED
      BY <1>7, <3>1 DEF OneMore
  <2> QED
    BY <2>1, <2>2
<1>10. HoldsOnce(rows, h)
  <2> SUFFICES ASSUME \A i, j \in DOMAIN rows : i # j => rows[i].req # rows[j].req,
                      NEW e \in DOMAIN h, NEW f \in DOMAIN h,
                      NEW i \in DOMAIN h[e], NEW j \in DOMAIN h[f],
                      h[e][i].req = h[f][j].req
               PROVE  e = f /\ i = j
    BY DEF HoldsOnce
  <2>1. ASSUME NEW c \in DOMAIN g, NEW a \in DOMAIN g[c] PROVE g[c][a].req # row.req
    <3>1. PICK n \in taken \ {m} : g[c][a] = rows[n]
      BY DEF Grouped, HoldsItsRows
    <3>2. n # m /\ n \in DOMAIN rows /\ m \in DOMAIN rows
      OBVIOUS
    <3> QED
      BY <3>1, <3>2 DEF row
  <2>2. CASE e = d /\ i = p
    BY <1>7, <2>1, <2>2 DEF OneMore
  <2>3. CASE f = d /\ j = p
    BY <1>7, <2>1, <2>3 DEF OneMore
  <2>4. CASE ~ (e = d /\ i = p) /\ ~ (f = d /\ j = p)
    <3>1. /\ e \in DOMAIN g /\ i \in DOMAIN g[e] /\ h[e][i] = g[e][i]
          /\ f \in DOMAIN g /\ j \in DOMAIN g[f] /\ h[f][j] = g[f][j]
      BY <1>7, <2>4 DEF OneMore
    <3>2. HoldsOnce(rows, g)
      BY DEF Grouped
    <3> QED
      BY <3>1, <3>2 DEF HoldsOnce
  <2> QED
    BY <2>2, <2>3, <2>4
<1>11. OneOfEachSection(h)
  <2> SUFFICES ASSUME NEW e \in DOMAIN h, NEW i \in DOMAIN h[e], NEW j \in DOMAIN h[e], i # j
               PROVE  Origins(h[e][i]) \cap Origins(h[e][j]) = {}
    BY DEF OneOfEachSection
  <2>1. ASSUME d \in DOMAIN g, NEW a \in DOMAIN g[d] PROVE Origins(row) \cap Origins(g[d][a]) = {}
    <3>1. Origins(row) \cap OriginsOf(g[d]) = {}
      BY <1>3, <2>1 DEF JoinsAt, d
    <3>2. Origins(g[d][a]) \subseteq OriginsOf(g[d])
      BY DEF OriginsOf
    <3> QED
      BY <3>1, <3>2
  <2>2. CASE e = d /\ i = p
    <3>1. e \in DOMAIN g /\ j \in DOMAIN g[e] /\ h[e][j] = g[e][j] /\ h[e][i] = row
      BY <1>7, <2>2 DEF OneMore
    <3> QED
      BY <2>1, <2>2, <3>1
  <2>3. CASE e = d /\ j = p
    <3>1. e \in DOMAIN g /\ i \in DOMAIN g[e] /\ h[e][i] = g[e][i] /\ h[e][j] = row
      BY <1>7, <2>3 DEF OneMore
    <3>2. Origins(row) \cap Origins(g[e][i]) = {}
      BY <2>1, <2>3, <3>1
    <3> QED
      BY <3>1, <3>2
  <2>4. CASE ~ (e = d /\ i = p) /\ ~ (e = d /\ j = p)
    <3>1. /\ e \in DOMAIN g /\ i \in DOMAIN g[e] /\ h[e][i] = g[e][i]
          /\ j \in DOMAIN g[e] /\ h[e][j] = g[e][j]
      BY <1>7, <2>4 DEF OneMore
    <3>2. OneOfEachSection(g)
      BY DEF Grouped
    <3> QED
      BY <3>1, <3>2 DEF OneOfEachSection
  <2> QED
    BY <2>2, <2>3, <2>4
<1>12. GroupsMeet(h)
  <2>1. ASSUME NEW e \in DOMAIN g PROVE OriginsOf(g[e]) \subseteq OriginsOf(h[e])
    <3>1. \A i \in DOMAIN g[e] : i \in DOMAIN h[e] /\ h[e][i] = g[e][i]
      BY <1>7 DEF OneMore
    <3> QED
      BY <3>1 DEF OriginsOf
  <2>2. Origins(row) \subseteq OriginsOf(h[d])
    BY <1>7 DEF OneMore, OriginsOf
  <2> SUFFICES ASSUME NEW e \in DOMAIN h, NEW l \in 1..(e[2] - 1)
               PROVE  /\ <<e[1], l>> \in DOMAIN h
                      /\ OriginsOf(h[<<e[1], l>>]) \cap OriginsOf(h[e]) # {}
    BY DEF GroupsMeet
  <2> DEFINE c == <<e[1], l>>
  <2>3. CASE e \in DOMAIN g
    <3>1. c \in DOMAIN g /\ OriginsOf(g[c]) \cap OriginsOf(g[e]) # {}
      BY <2>3 DEF Grouped, GroupsMeet
    <3> HIDE DEF c
    <3>2. c \in DOMAIN h /\ OriginsOf(h[c]) \cap OriginsOf(h[e]) # {}
      BY <1>6, <2>1, <2>3, <3>1
    <3> QED
      BY <3>2 DEF c
  <2>4. CASE e = d
    <3>1. c \in DOMAIN g /\ Origins(row) \cap OriginsOf(g[c]) # {}
      BY <1>3, <1>5, <2>4 DEF JoinsAt
    <3> HIDE DEF c
    <3>2. c \in DOMAIN h /\ OriginsOf(h[c]) \cap OriginsOf(h[e]) # {}
      BY <1>6, <2>1, <2>2, <2>4, <3>1
    <3> QED
      BY <3>2 DEF c
  <2> QED
    BY <1>6, <2>3, <2>4
<1> QED
  BY <1>6, <1>8, <1>9, <1>10, <1>11, <1>12 DEF Grouped, h, row

\* The groups after each subset of the rows.
Grouping(h, rows) ==
  h = [s \in SUBSET (DOMAIN rows) |->
         IF s = {} THEN <<>> ELSE JoinGroup(h[s \ {Max(s)}], rows[Max(s)])]

\* The groups of a list are what its rows make, joined one by one.
LEMMA GroupingExists ==
  ASSUME NEW rows, rows \in Seq(RowsIn(rows))
  PROVE  \E h : Grouping(h, rows) /\ Groups(rows) = h[DOMAIN rows]
<1> DEFINE n == Len(rows)
           S == 1..n
           State == UNION {[D -> Seq(RowsIn(rows))] :
                             D \in {E \in SUBSET (Items(rows) \X (Nat \ {0})) : IsFiniteSet(E)}}
           step == [p \in State \X S |-> JoinGroup(p[1], rows[p[2]])]
           pick == Latest(n)
           base == <<>>
<1>1. n \in Nat /\ DOMAIN rows = S /\ IsFiniteSet(S)
  BY FS_Interval
<1>2. Picks(pick, S)
  BY <1>1, LatestPicks
<1>3. base \in State
  <2>1. base \in [{} -> Seq(RowsIn(rows))]
    OBVIOUS
  <2>2. {} \in {E \in SUBSET (Items(rows) \X (Nat \ {0})) : IsFiniteSet(E)}
    BY FS_EmptySet
  <2> QED
    BY <2>1, <2>2
<1>4. ASSUME NEW g \in State, NEW m \in S PROVE JoinGroup(g, rows[m]) \in State
  <2> DEFINE row == rows[m]
  <2>1. row \in RowsIn(rows) /\ row.item \in Items(rows)
    BY <1>1 DEF RowsIn, Items
  <2>2. /\ IsFiniteSet(DOMAIN g) /\ DOMAIN g \subseteq Items(rows) \X (Nat \ {0})
        /\ g \in [DOMAIN g -> Seq(RowsIn(rows))]
    OBVIOUS
  <2> HIDE DEF row
  <2>3. PICK k \in Nat \ {0} : JoinsAt(g, row, k)
    BY <2>2, JoinIs
  <2> DEFINE d == <<row.item, k>>
             h == JoinGroup(g, row)
             D == DOMAIN g \cup {d}
  <2>4. h = Joined(g, d, row)
    BY <2>3 DEF JoinsAt
  <2>7. d \in Items(rows) \X (Nat \ {0})
    BY <2>1
  <2> HIDE DEF d, h
  <2>5. IsFiniteSet(D) /\ D \in SUBSET (Items(rows) \X (Nat \ {0}))
    <3>1. IsFiniteSet(D)
      BY <2>2, FS_AddElement
    <3>2. D \subseteq Items(rows) \X (Nat \ {0})
      BY <2>2, <2>7
    <3> QED
      BY <3>1, <3>2
  <2>6. h \in [D -> Seq(RowsIn(rows))]
    <3>1. ASSUME NEW e \in D
          PROVE  (IF e # d THEN g[e] ELSE IF d \in DOMAIN g THEN Append(g[d], row) ELSE <<row>>)
                   \in Seq(RowsIn(rows))
      BY <2>1, <2>2
    <3> QED
      BY <2>4, <3>1 DEF Joined
  <2> QED
    BY <2>5, <2>6 DEF h, row
<1>5. step \in [State \X S -> State]
  <2> HIDE DEF State, S
  <2> QED
    BY <1>4
<1>6. PICK h : UnfoldsIn(State, step, base, pick, S, h)
  <2> HIDE DEF State, step, pick, S, base
  <2> QED
    BY <1>1, <1>2, <1>3, <1>5, UnfoldsInto
<1>7. Grouping(h, rows)
  <2> SUFFICES ASSUME NEW s \in SUBSET S, s # {}
               PROVE  h[s] = JoinGroup(h[s \ {Max(s)}], rows[Max(s)])
    BY <1>1, <1>6 DEF UnfoldsIn, Unfolds, Grouping
  <2>1. pick[s] = Max(s) /\ Max(s) \in S
    BY <1>1, <1>2 DEF Picks, Latest
  <2>2. h[s] = step[<<h[s \ {Max(s)}], Max(s)>>]
    BY <1>6, <2>1 DEF UnfoldsIn, Unfolds
  <2>3. h[s \ {Max(s)}] \in State
    BY <1>6 DEF UnfoldsIn
  <2> HIDE DEF State, S
  <2> QED
    BY <2>1, <2>2, <2>3
<1> DEFINE f == CHOOSE g : Grouping(g, rows)
<1>8. Grouping(f, rows)
  BY <1>7
<1>9. Groups(rows) = f[DOMAIN rows]
  BY DEF Groups, FoldLeft, MapThenFoldSet, Grouping
<1> QED
  BY <1>8, <1>9

\* What the groups of a list are.
LEMMA GroupsAre ==
  ASSUME NEW rows, rows \in Seq(RowsIn(rows))
  PROVE  Grouped(rows, DOMAIN rows, Groups(rows))
<1> DEFINE n == Len(rows)
           S == 1..n
           pick == Latest(n)
<1>1. n \in Nat /\ DOMAIN rows = S /\ IsFiniteSet(S)
  BY FS_Interval
<1>2. PICK h : Grouping(h, rows) /\ Groups(rows) = h[DOMAIN rows]
  BY GroupingExists
<1>3. Picks(pick, S) /\ \A s \in SUBSET S : pick[s] = Max(s)
  BY <1>1, LatestPicks DEF Latest
<1> DEFINE H == {s \in SUBSET S : Grouped(rows, s, h[s])}
<1>4. {} \in H
  <2>1. h[{}] = <<>>
    BY <1>2 DEF Grouping
  <2> DEFINE g == <<>>
  <2>2. DOMAIN g = {}
    OBVIOUS
  <2> HIDE DEF g
  <2>3. Grouped(rows, {}, g)
    BY <2>2, FS_EmptySet
       DEF Grouped, Numbered, HoldsItsRows, HoldsAll, HoldsOnce, OneOfEachSection, GroupsMeet
  <2> QED
    BY <2>1, <2>3 DEF g
<1>5. ASSUME NEW s \in SUBSET S, s # {}, s \ {pick[s]} \in H PROVE s \in H
  <2> DEFINE m == Max(s)
  <2>1. m \in s /\ pick[s] = m
    BY <1>3, <1>5 DEF Picks
  <2>2. h[s] = JoinGroup(h[s \ {m}], rows[m])
    BY <1>1, <1>2, <1>5 DEF Grouping
  <2>3. Grouped(rows, s \ {m}, h[s \ {m}])
    BY <1>5, <2>1
  <2>4. s \in SUBSET (DOMAIN rows)
    BY <1>1
  <2> HIDE DEF m
  <2>5. Grouped(rows, s, JoinGroup(h[s \ {m}], rows[m]))
    BY <2>1, <2>3, <2>4, JoinKeepsGroups
  <2> QED
    BY <2>2, <2>5
<1>6. \A s \in SUBSET S : s \in H
  <2>1. H \in SUBSET (SUBSET S)
    OBVIOUS
  <2> HIDE DEF H, pick, S
  <2> QED
    BY <1>1, <1>3, <1>4, <1>5, <2>1, OneByOne
<1> QED
  BY <1>1, <1>2, <1>6

-----------------------------------------------------------------------------
(* The requirements a group becomes *)

\* Rows of which each is one.
RowsOnly(group) ==
  /\ Len(group) \in Nat \ {0} /\ DOMAIN group = 1..Len(group)
  /\ \A i \in DOMAIN group : IsRow(group[i])

LEMMA RowsCount == ASSUME NEW group, RowsOnly(group) PROVE Counted(group)
BY DEF RowsOnly, Counted, IsRow

\* The number of a variant, as chosen or by default.
Amount(d, group, choices, k) ==
  Chosen(choices.amounts, <<d, k>>, VariantQuantity(VariantMembers(group)[k]))

IsDifferent(d, group, choices) ==
  Chosen(choices.identities, d, DefaultIdentity(group)) = "different"

\* Choices that leave something of a group unless they exclude it.
Answered(d, group, choices) ==
  d \notin choices.excluded =>
    /\ d \in DOMAIN choices.quantities => choices.quantities[d] \in Nat \ {0}
    /\ IsDifferent(d, group, choices) =>
         /\ \A k \in DOMAIN VariantMembers(group) : Amount(d, group, choices, k) \in Nat
         /\ \E k \in DOMAIN VariantMembers(group) : Amount(d, group, choices, k) > 0

\* What each requirement of a group has in common with it.
OfGroup(r, group) ==
  IsRow(r) /\ r.item = group[1].item /\ r.sources = SourcesOf(group)

\* The requirement of a variant.
LEMMA VariantIs ==
  ASSUME NEW group, RowsOnly(group), NEW fields, NEW member, NEW k, NEW amount \in Nat \ {0}
  PROVE  LET r == VariantRequirement(group, fields, member, k, amount)
         IN  /\ OfGroup(r, group) /\ r.qty = amount /\ r.req = Append(group[1].req, k)
             /\ r.removed = group[1].removed
<1>1. IsRow(group[1])
  BY DEF RowsOnly
<1> QED
  BY <1>1 DEF VariantRequirement, VariantSources, OfGroup, IsRow, Fields

\* A row with other sources, or that is taken out.
LEMMA FirstIs ==
  ASSUME NEW group, RowsOnly(group), NEW qty \in Nat \ {0}
  PROVE  LET first == [group[1] EXCEPT !.sources = SourcesOf(group)]
             out == [first EXCEPT !.qty = qty, !.removed = TRUE]
         IN  /\ OfGroup(first, group) /\ first.req = group[1].req
             /\ first.qty = group[1].qty /\ first.removed = group[1].removed
             /\ OfGroup(out, group) /\ out.req = group[1].req /\ out.qty = qty /\ out.removed
<1>1. IsRow(group[1])
  BY DEF RowsOnly
<1> QED
  BY <1>1 DEF OfGroup, IsRow, Fields

\* The one requirement of a group, unless it is kept apart.
Sole(r, group, qty) ==
  OfGroup(r, group) /\ r.req = group[1].req /\ r.qty = qty

\* A group of one row is that row.
LEMMA MergeOfOne ==
  ASSUME NEW d, NEW group, RowsOnly(group), NEW choices, Len(group) = 1
  PROVE  \E r : /\ MergeGroup(d, group, choices) = {r}
                /\ Sole(r, group, group[1].qty) /\ r.removed = group[1].removed
<1> DEFINE r == [group[1] EXCEPT !.sources = SourcesOf(group)]
<1>1. MergeGroup(d, group, choices) = {r}
  BY DEF MergeGroup
<1>2. group[1].qty \in Nat \ {0}
  BY DEF RowsOnly, IsRow
<1>3. Sole(r, group, group[1].qty) /\ r.removed = group[1].removed
  BY <1>2, FirstIs DEF Sole
<1> QED
  BY <1>1, <1>3

\* A group that is excluded is one requirement, which is taken out.
LEMMA MergeOfExcluded ==
  ASSUME NEW d, NEW group, RowsOnly(group), NEW choices, Len(group) # 1, d \in choices.excluded
  PROVE  \E r : /\ MergeGroup(d, group, choices) = {r}
                /\ Sole(r, group, DefaultQuantity(group)) /\ r.removed
<1> DEFINE first == [group[1] EXCEPT !.sources = SourcesOf(group)]
           r == [first EXCEPT !.qty = DefaultQuantity(group), !.removed = TRUE]
<1>1. MergeGroup(d, group, choices) = {r}
  BY DEF MergeGroup
<1>2. DefaultQuantity(group) \in Nat \ {0}
  BY RowsCount, DefaultIsEnough
<1>3. Sole(r, group, DefaultQuantity(group)) /\ r.removed
  BY <1>2, FirstIs DEF Sole
<1> QED
  BY <1>1, <1>3

\* A group that is one product is one requirement.
QuantityOf(d, group, choices) ==
  IF Asks(group) THEN Chosen(choices.quantities, d, DefaultQuantity(group)) ELSE group[1].qty

LEMMA MergeOfSame ==
  ASSUME NEW d, NEW group, RowsOnly(group), NEW choices, Len(group) # 1,
         d \notin choices.excluded, ~ IsDifferent(d, group, choices),
         Answered(d, group, choices)
  PROVE  \E r : /\ MergeGroup(d, group, choices) = {r}
                /\ Sole(r, group, QuantityOf(d, group, choices)) /\ r.removed = group[1].removed
<1> DEFINE first == [group[1] EXCEPT !.sources = SourcesOf(group)]
           brand == OneProduct(group).brand
           detail == OneProduct(group).detail
           q == QuantityOf(d, group, choices)
           r == [first EXCEPT !.qty = q, !.brand = brand, !.detail = detail]
<1>1. MergeGroup(d, group, choices) = {r}
  BY DEF MergeGroup, MergeAsOne, IsDifferent, QuantityOf
<1>2. q \in Nat \ {0}
  <2>1. DefaultQuantity(group) \in Nat \ {0}
    BY RowsCount, DefaultIsEnough
  <2>2. group[1].qty \in Nat \ {0}
    BY DEF RowsOnly, IsRow
  <2> QED
    BY <2>1, <2>2 DEF QuantityOf, Chosen, Answered
<1>3. Sole(r, group, q) /\ r.removed = group[1].removed
  <2>1. IsRow(group[1])
    BY DEF RowsOnly
  <2> HIDE DEF q, brand, detail
  <2> QED
    BY <1>2, <2>1 DEF Sole, OfGroup, IsRow, Fields
<1> QED
  BY <1>1, <1>3

\* A group of several products is a requirement for each variant that is
\* asked for.
VariantRow(d, group, choices, k) ==
  VariantRequirement(group, Conflicts(group), VariantMembers(group)[k][1], k,
                     Amount(d, group, choices, k))

AskedFor(d, group, choices) ==
  {k \in DOMAIN VariantMembers(group) : Amount(d, group, choices, k) > 0}

SplitUp(d, group, choices) ==
  /\ MergeGroup(d, group, choices) =
       {VariantRow(d, group, choices, k) : k \in AskedFor(d, group, choices)}
  /\ \A k \in AskedFor(d, group, choices) :
       /\ OfGroup(VariantRow(d, group, choices, k), group)
       /\ VariantRow(d, group, choices, k).req = Append(group[1].req, k)
       /\ VariantRow(d, group, choices, k).qty = Amount(d, group, choices, k)
       /\ VariantRow(d, group, choices, k).removed = group[1].removed
  /\ AskedFor(d, group, choices) \subseteq Nat
  /\ AskedFor(d, group, choices) # {} /\ IsFiniteSet(AskedFor(d, group, choices))

LEMMA MergeOfDifferent ==
  ASSUME NEW d, NEW group, RowsOnly(group), NEW choices, Len(group) # 1,
         d \notin choices.excluded, IsDifferent(d, group, choices),
         Answered(d, group, choices)
  PROVE  SplitUp(d, group, choices)
<1> DEFINE K == AskedFor(d, group, choices)
<1>1. MergeGroup(d, group, choices) = {VariantRow(d, group, choices, k) : k \in K}
  <2>1. MergeGroup(d, group, choices) = VariantRequirements(d, group, choices.amounts)
    BY DEF MergeGroup, IsDifferent
  <2>2. VariantRequirements(d, group, choices.amounts) =
          {VariantRow(d, group, choices, k) : k \in K}
    BY DEF VariantRequirements, VariantsAmong, VariantRow, AskedFor, Amount
  <2> QED
    BY <2>1, <2>2
<1>2. ASSUME NEW k \in K
      PROVE  LET r == VariantRow(d, group, choices, k)
             IN  /\ OfGroup(r, group) /\ r.req = Append(group[1].req, k)
                 /\ r.qty = Amount(d, group, choices, k) /\ r.removed = group[1].removed
  <2> DEFINE a == Amount(d, group, choices, k)
  <2>1. a \in Nat \ {0}
    BY DEF Answered, AskedFor
  <2> HIDE DEF a
  <2> QED
    BY <2>1, VariantIs DEF VariantRow, a
<1>3. K # {}
  BY DEF Answered, AskedFor
<1>4. K \subseteq Nat /\ IsFiniteSet(K)
  <2>1. PICK n \in Nat \ {0} : DOMAIN VariantMembers(group) = 1..n
    BY RowsCount, MembersAre DEF VariantMembers, VariantsOf
  <2>2. K \in SUBSET (1..n)
    BY <2>1 DEF AskedFor
  <2>3. IsFiniteSet(1..n)
    BY <2>1, FS_Interval
  <2> DEFINE all == 1..n
  <2>4. IsFiniteSet(K)
    <3> HIDE DEF K, all
    <3> QED
      BY <2>2, <2>3, FS_Subset DEF all
  <2> QED
    BY <2>2, <2>4
<1> QED
  BY <1>1, <1>2, <1>3, <1>4 DEF SplitUp

\* The requirements of a group stand for all of its rows, and no two have one id.
MergedInto(group, R) ==
  /\ IsFiniteSet(R) /\ R # {}
  /\ \A r \in R : OfGroup(r, group)
  /\ \/ \A r \in R : r.req = group[1].req /\ R = {r}
     \/ /\ \A r \in R : \E k \in Nat : r.req = Append(group[1].req, k)
        /\ \A r, q \in R : r.req = q.req => r = q

LEMMA MergedIs ==
  ASSUME NEW d, NEW group, RowsOnly(group), NEW choices, Answered(d, group, choices),
         group[1].req \in Seq(Nat)
  PROVE  MergedInto(group, MergeGroup(d, group, choices))
<1> DEFINE R == MergeGroup(d, group, choices)
<1> SUFFICES MergedInto(group, R)
  OBVIOUS
<1>1. ASSUME NEW r, R = {r}, NEW qty, Sole(r, group, qty) PROVE MergedInto(group, R)
  <2> HIDE DEF R
  <2> QED
    BY <1>1, FS_Singleton DEF Sole, MergedInto
<1>2. CASE ~ (Len(group) # 1 /\ d \notin choices.excluded /\ IsDifferent(d, group, choices))
  <2>1. \E r, qty : R = {r} /\ Sole(r, group, qty)
    BY <1>2, MergeOfOne, MergeOfExcluded, MergeOfSame
  <2> HIDE DEF R
  <2> QED
    BY <1>1, <2>1
<1>3. CASE Len(group) # 1 /\ d \notin choices.excluded /\ IsDifferent(d, group, choices)
  <2> DEFINE K == AskedFor(d, group, choices)
             V(k) == VariantRow(d, group, choices, k)
  <2>8. SplitUp(d, group, choices)
    BY <1>3, MergeOfDifferent
  <2>1. R = {V(k) : k \in K} /\ K \subseteq Nat /\ K # {} /\ IsFiniteSet(K)
    BY <2>8 DEF SplitUp
  <2>2. \A k \in K : OfGroup(V(k), group) /\ V(k).req = Append(group[1].req, k)
    BY <2>8 DEF SplitUp
  <2> HIDE DEF R, K, V
  <2>3. IsFiniteSet(R)
    <3> DEFINE f == [k \in K |-> V(k)]
    <3>1. R = {f[k] : k \in K} /\ IsFiniteSet(K)
      BY <2>1
    <3> HIDE DEF f
    <3>2. IsFiniteSet({f[k] : k \in K})
      BY <3>1, ImageIsFinite
    <3> QED
      BY <3>1, <3>2
  <2>4. \A j, k \in K : Append(group[1].req, j) = Append(group[1].req, k) => j = k
    <3> SUFFICES ASSUME NEW j \in K, NEW k \in K,
                        Append(group[1].req, j) = Append(group[1].req, k)
                 PROVE  j = k
      OBVIOUS
    <3> DEFINE q == group[1].req
    <3>1. q \in Seq(Nat) /\ j \in Nat /\ k \in Nat /\ Append(q, j) = Append(q, k)
      BY <2>1
    <3> HIDE DEF q
    <3>2. Append(q, j)[Len(q) + 1] = j /\ Append(q, k)[Len(q) + 1] = k
      BY <3>1
    <3> QED
      BY <3>1, <3>2
  <2>5. \A r \in R : OfGroup(r, group) /\ \E k \in Nat : r.req = Append(group[1].req, k)
    BY <2>1, <2>2
  <2>6. \A r, q \in R : r.req = q.req => r = q
    BY <2>1, <2>2, <2>4
  <2>7. R # {}
    BY <2>1
  <2> QED
    BY <2>3, <2>5, <2>6, <2>7 DEF MergedInto, R
<1> QED
  BY <1>2, <1>3

-----------------------------------------------------------------------------
(* The requirements of a list *)

\* The groups of rows are rows.
LEMMA GroupsOfRows ==
  ASSUME NEW rows, rows \in Seq(RowsIn(rows)), \A i \in DOMAIN rows : IsRow(rows[i])
  PROVE  \A d \in DOMAIN Groups(rows) : RowsOnly(Groups(rows)[d])
<1> DEFINE G == Groups(rows)
<1> SUFFICES ASSUME NEW d \in DOMAIN G PROVE RowsOnly(G[d])
  OBVIOUS
<1>1. Numbered(rows, G)
  BY GroupsAre DEF Grouped
<1> DEFINE g == G[d]
<1>2. g \in Seq(RowsIn(rows)) /\ g # <<>>
  BY <1>1 DEF Numbered
<1> HIDE DEF g
<1>3. Len(g) \in Nat \ {0} /\ DOMAIN g = 1..Len(g) /\ \A i \in DOMAIN g : g[i] \in RowsIn(rows)
  BY <1>2
<1>4. RowsOnly(g)
  BY <1>3 DEF RowsOnly, RowsIn
<1> QED
  BY <1>4 DEF g

\* Of a list, each row is one of one group, and each id is a number.
LEMMA GroupsOfList ==
  ASSUME NEW rows, IsList(rows)
  PROVE  /\ rows \in Seq(RowsIn(rows))
         /\ Grouped(rows, DOMAIN rows, Groups(rows))
         /\ \A d \in DOMAIN Groups(rows) :
              /\ RowsOnly(Groups(rows)[d]) /\ ~ Groups(rows)[d][1].removed
              /\ \E n \in Nat : Groups(rows)[d][1].req = <<n>>
         /\ \A d, e \in DOMAIN Groups(rows) :
              Groups(rows)[d][1].req = Groups(rows)[e][1].req => d = e
<1> DEFINE G == Groups(rows)
<1>1. rows \in Seq(RowsIn(rows)) /\ \A i \in DOMAIN rows : IsRow(rows[i])
  BY DEF IsList, RowsIn
<1>2. Grouped(rows, DOMAIN rows, G)
  BY <1>1, GroupsAre
<1>3. \A d \in DOMAIN G : RowsOnly(G[d])
  BY <1>1, GroupsOfRows
<1>4. \A d \in DOMAIN G : 1 \in DOMAIN G[d]
  BY <1>3 DEF RowsOnly
<1> HIDE DEF G
<1>5. ASSUME NEW d \in DOMAIN G PROVE ~ G[d][1].removed /\ \E n \in Nat : G[d][1].req = <<n>>
  <2>1. PICK m \in DOMAIN rows : G[d][1] = rows[m]
    BY <1>2, <1>4 DEF Grouped, HoldsItsRows
  <2> QED
    BY <2>1 DEF IsList
<1>6. \A d, e \in DOMAIN G : G[d][1].req = G[e][1].req => d = e
  <2>1. \A i, j \in DOMAIN rows : i # j => rows[i].req # rows[j].req
    BY DEF IsList
  <2> QED
    BY <1>2, <1>4, <2>1 DEF Grouped, HoldsOnce
<1> QED
  BY <1>1, <1>2, <1>3, <1>5, <1>6 DEF G

\* A group stands for the lines of its rows; no other group does.
LEMMA SourcesApart ==
  ASSUME NEW rows, IsList(rows), NEW d \in DOMAIN Groups(rows)
  PROVE  /\ SourcesOf(Groups(rows)[d]) # {}
         /\ \A e \in DOMAIN Groups(rows) :
              d # e => SourcesOf(Groups(rows)[d]) \cap SourcesOf(Groups(rows)[e]) = {}
<1> DEFINE G == Groups(rows)
<1>1. Grouped(rows, DOMAIN rows, G) /\ 1 \in DOMAIN G[d]
  BY GroupsOfList DEF RowsOnly
<1> HIDE DEF G
<1>2. SourcesOf(G[d]) # {}
  <2>1. PICK m \in DOMAIN rows : G[d][1] = rows[m]
    BY <1>1 DEF Grouped, HoldsItsRows, G
  <2>2. G[d][1].sources # {}
    BY <2>1 DEF IsList
  <2> QED
    BY <1>1, <2>2 DEF SourcesOf
<1>3. ASSUME NEW e \in DOMAIN G, NEW s \in SourcesOf(G[d]), s \in SourcesOf(G[e])
      PROVE  d = e
  <2>1. PICK i \in DOMAIN G[d] : s \in G[d][i].sources
    BY DEF SourcesOf
  <2>2. PICK j \in DOMAIN G[e] : s \in G[e][j].sources
    BY <1>3 DEF SourcesOf
  <2>3. PICK m \in DOMAIN rows : G[d][i] = rows[m]
    BY <1>1 DEF Grouped, HoldsItsRows, G
  <2>4. PICK n \in DOMAIN rows : G[e][j] = rows[n]
    BY <1>1 DEF Grouped, HoldsItsRows
  <2>5. m = n
    BY <2>1, <2>2, <2>3, <2>4 DEF IsList
  <2>6. \A a, b \in DOMAIN rows : a # b => rows[a].req # rows[b].req
    BY DEF IsList
  <2> QED
    BY <1>1, <2>3, <2>4, <2>5, <2>6 DEF Grouped, HoldsOnce, G
<1> QED
  BY <1>2, <1>3 DEF G

\* The sections of a group are those of its lines.
LEMMA OriginsOfSources ==
  ASSUME NEW group PROVE OriginsOf(group) = {s.origin : s \in SourcesOf(group)}
BY DEF OriginsOf, SourcesOf, Origins

\* Choices that answer, or exclude, each group.
AllAnswered(rows, choices) ==
  \A d \in DOMAIN Groups(rows) : Answered(d, Groups(rows)[d], choices)

\* Choices that leave a group what it asks for by default.
ByDefault(d, group, choices) ==
  /\ d \notin choices.excluded
  /\ d \in DOMAIN choices.quantities => choices.quantities[d] = DefaultQuantity(group)
  /\ \A k \in DOMAIN VariantMembers(group) :
       Amount(d, group, choices, k) = VariantQuantity(VariantMembers(group)[k])

LEMMA NoAnswerIsDefault ==
  ASSUME NEW d, NEW group, NEW choices, d \notin choices.excluded,
         d \notin DOMAIN choices.quantities, \A k : <<d, k>> \notin DOMAIN choices.amounts
  PROVE  ByDefault(d, group, choices)
BY DEF ByDefault, Amount, Chosen

\* What a group asks for by default is an answer, and enough for each row.
LEMMA DefaultsAnswer ==
  ASSUME NEW d, NEW group, Counted(group), NEW choices, ByDefault(d, group, choices)
  PROVE  Answered(d, group, choices)
<1> DEFINE ms == VariantMembers(group)
<1>1. VariantsOf(group, ms)
  BY MembersAre DEF VariantMembers
<1> HIDE DEF ms
<1>2. \A k \in DOMAIN ms : VariantQuantity(ms[k]) \in Nat \ {0}
  BY <1>1, LargestQuantity DEF VariantsOf, VariantQuantity
<1>3. \A k \in DOMAIN ms : Amount(d, group, choices, k) \in Nat \ {0}
  BY <1>2 DEF ByDefault, ms
<1>4. DOMAIN ms # {}
  <2>1. PICK n \in Nat \ {0} : DOMAIN ms = 1..n
    BY <1>1 DEF VariantsOf
  <2>2. 1 \in 1..n
    BY <2>1
  <2> QED
    BY <2>1, <2>2
<1>5. DefaultQuantity(group) \in Nat \ {0}
  BY DefaultIsEnough
<1> QED
  BY <1>3, <1>4, <1>5 DEF Answered, ByDefault, ms

LEMMA NoChoicesAnswer ==
  ASSUME NEW rows, rows \in Seq(RowsIn(rows)), \A i \in DOMAIN rows : IsRow(rows[i])
  PROVE  AllAnswered(rows, NoChoices)
<1> SUFFICES ASSUME NEW d \in DOMAIN Groups(rows)
             PROVE  Answered(d, Groups(rows)[d], NoChoices)
  BY DEF AllAnswered
<1>1. Counted(Groups(rows)[d])
  BY GroupsOfRows, RowsCount
<1>2. ByDefault(d, Groups(rows)[d], NoChoices)
  BY NoAnswerIsDefault DEF NoChoices
<1> QED
  BY <1>1, <1>2, DefaultsAnswer

\* A sequence of one element and another one are a pair.
LEMMA PairOf ==
  ASSUME NEW S, NEW t \in Seq(S), Len(t) = 1, NEW k \in S
  PROVE  Append(t, k) = <<t[1], k>>
<1> DEFINE u == Append(t, k)
<1>1. u \in Seq(S) /\ Len(u) = Len(t) + 1
  BY AppendProperties
<1>2. u[Len(t) + 1] = k
  BY AppendProperties
<1>3. \A i \in 1..Len(t) : u[i] = t[i]
  BY AppendProperties
<1> HIDE DEF u
<1>4. Len(u) = 2 /\ u[1] = t[1] /\ u[2] = k
  BY <1>1, <1>2, <1>3
<1>5. u = <<u[1], u[2]>>
  BY <1>1, <1>4
<1> QED
  BY <1>4, <1>5 DEF u

\* The id of a variant is a number and the number of the variant.
LEMMA VariantId ==
  ASSUME NEW n \in Nat, NEW k \in Nat
  PROVE  Append(<<n>>, k) = <<n, k>>
<1> DEFINE t == <<n>>
<1>1. t \in Seq(Nat) /\ Len(t) = 1 /\ t[1] = n
  OBVIOUS
<1> HIDE DEF t
<1>2. Append(t, k) = <<n, k>>
  BY <1>1, PairOf
<1> QED
  BY <1>2 DEF t

\* What is true of the requirements a list becomes: they are rows with ids of
\* their own, stand for all lines, and meet where they are of one item.
StandsFor(C, rows) ==
  /\ IsFiniteSet(C)
  /\ \A r \in C : IsRow(r) /\ r.req[1] \in Nat /\ Last(r.req) \in Nat
  /\ \A r, q \in C : r.req[1] = q.req[1] /\ Last(r.req) = Last(q.req) => r = q
  /\ \A i \in DOMAIN rows : \E r \in C : rows[i].sources \subseteq r.sources
  /\ \A r, q \in C : r.item = q.item => Origins(r) \cap Origins(q) # {}

LEMMA ConsolidatedStandsFor ==
  ASSUME NEW rows, IsList(rows), NEW choices, AllAnswered(rows, choices)
  PROVE  StandsFor(Consolidated(rows, choices), rows)
<1> DEFINE G == Groups(rows)
           D == DOMAIN G
           M(d) == MergeGroup(d, G[d], choices)
           C == Consolidated(rows, choices)
<1>1. C = UNION {M(d) : d \in D}
  BY DEF Consolidated, MergeGroups
<1>2. /\ Grouped(rows, DOMAIN rows, G)
      /\ \A d \in D : RowsOnly(G[d]) /\ \E n \in Nat : G[d][1].req = <<n>>
      /\ \A d, e \in D : G[d][1].req = G[e][1].req => d = e
  BY GroupsOfList
<1>3. \A d \in D : MergedInto(G[d], M(d))
  <2> SUFFICES ASSUME NEW d \in D PROVE MergedInto(G[d], M(d))
    OBVIOUS
  <2>1. G[d][1].req \in Seq(Nat)
    <3>1. PICK n \in Nat : G[d][1].req = <<n>>
      BY <1>2
    <3>2. <<n>> \in Seq(Nat)
      OBVIOUS
    <3> HIDE DEF G
    <3> QED
      BY <3>1, <3>2
  <2>2. Answered(d, G[d], choices)
    BY DEF AllAnswered
  <2> DEFINE g == G[d]
  <2>3. RowsOnly(g)
    BY <1>2
  <2> HIDE DEF g
  <2> QED
    BY <2>1, <2>2, <2>3, MergedIs DEF g
<1> HIDE DEF C, M, G
<1>4. IsFiniteSet(C)
  <2> DEFINE f == [d \in D |-> M(d)]
             T == {f[d] : d \in D}
  <2>1. IsFiniteSet(D)
    BY <1>2 DEF Grouped, Numbered
  <2>2. IsFiniteSet(T)
    <3> HIDE DEF f, D
    <3> QED
      BY <2>1, ImageIsFinite
  <2>3. \A t \in T : IsFiniteSet(t)
    BY <1>3 DEF MergedInto
  <2>4. C = UNION T
    BY <1>1
  <2> HIDE DEF T
  <2> QED
    BY <2>2, <2>3, <2>4, FS_UNION
<1>5. ASSUME NEW d \in D, NEW r \in M(d)
      PROVE  /\ OfGroup(r, G[d]) /\ r.req[1] \in Nat /\ Last(r.req) \in Nat
             /\ G[d][1].req = <<r.req[1]>>
             /\ \/ r.req = <<r.req[1]>> /\ M(d) = {r}
                \/ r.req = <<r.req[1], Last(r.req)>>
  <2>1. MergedInto(G[d], M(d)) /\ OfGroup(r, G[d])
    BY <1>3 DEF MergedInto
  <2>2. PICK n \in Nat : G[d][1].req = <<n>>
    BY <1>2
  <2>3. CASE r.req = <<n>> /\ M(d) = {r}
    <3> DEFINE q == r.req
    <3>1. q = <<n>>
      BY <2>3
    <3> HIDE DEF q
    <3>2. q[1] = n /\ Last(q) = n
      BY <3>1 DEF Last
    <3> QED
      BY <2>1, <2>2, <2>3, <3>1, <3>2 DEF q
  <2>4. CASE \E k \in Nat : r.req = Append(<<n>>, k)
    <3> DEFINE q == r.req
    <3>1. PICK k \in Nat : q = Append(<<n>>, k)
      BY <2>4
    <3> HIDE DEF q
    <3>2. q = <<n, k>>
      BY <3>1, VariantId
    <3>3. Len(q) = 2 /\ q[1] = n /\ q[2] = k
      BY <3>2
    <3>4. Last(q) = k
      BY <3>3 DEF Last
    <3> QED
      BY <2>1, <2>2, <3>2, <3>3, <3>4 DEF q
  <2>5. \/ r.req = G[d][1].req /\ M(d) = {r}
        \/ \E k \in Nat : r.req = Append(G[d][1].req, k)
    BY <2>1 DEF MergedInto
  <2> QED
    BY <2>2, <2>3, <2>4, <2>5
<1>6. ASSUME NEW r \in C PROVE IsRow(r) /\ r.req[1] \in Nat /\ Last(r.req) \in Nat
  <2>1. PICK d \in D : r \in M(d)
    BY <1>1
  <2> QED
    BY <1>5, <2>1 DEF OfGroup
<1>7. ASSUME NEW r \in C, NEW q \in C, r.req[1] = q.req[1], Last(r.req) = Last(q.req)
      PROVE  r = q
  <2>1. PICK d \in D : r \in M(d)
    BY <1>1
  <2>2. PICK e \in D : q \in M(e)
    BY <1>1
  <2>3. d = e
    BY <1>2, <1>5, <1>7, <2>1, <2>2
  <2>4. CASE M(d) = {r} \/ M(d) = {q}
    BY <2>1, <2>2, <2>3, <2>4
  <2>5. CASE r.req = q.req
    <3>1. MergedInto(G[d], M(d)) /\ q \in M(d)
      BY <1>3, <2>2, <2>3
    <3>2. \A a, b \in M(d) : a.req = b.req => a = b
      BY <3>1 DEF MergedInto
    <3> QED
      BY <2>1, <2>5, <3>1, <3>2
  <2>6. /\ M(d) = {r} \/ r.req = <<r.req[1], Last(r.req)>>
        /\ M(d) = {q} \/ q.req = <<q.req[1], Last(q.req)>>
    BY <1>5, <2>1, <2>2, <2>3
  <2> QED
    BY <1>7, <2>4, <2>5, <2>6
<1>8. ASSUME NEW i \in DOMAIN rows PROVE \E r \in C : rows[i].sources \subseteq r.sources
  <2>1. PICK d \in D : \E j \in DOMAIN G[d] : G[d][j] = rows[i]
    BY <1>2 DEF Grouped, HoldsAll
  <2>2. rows[i].sources \subseteq SourcesOf(G[d])
    BY <2>1 DEF SourcesOf
  <2>3. PICK r \in M(d) : TRUE
    BY <1>3 DEF MergedInto
  <2>4. r \in C /\ r.sources = SourcesOf(G[d])
    BY <1>1, <1>5, <2>3 DEF OfGroup
  <2> QED
    BY <2>2, <2>4
<1>9. ASSUME NEW r \in C, NEW q \in C, r.item = q.item
      PROVE  Origins(r) \cap Origins(q) # {}
  <2>1. PICK d \in D : r \in M(d)
    BY <1>1
  <2>2. PICK e \in D : q \in M(e)
    BY <1>1
  <2>3. /\ r.item = G[d][1].item /\ r.sources = SourcesOf(G[d])
        /\ q.item = G[e][1].item /\ q.sources = SourcesOf(G[e])
    BY <1>5, <2>1, <2>2 DEF OfGroup
  <2>4. Origins(r) = OriginsOf(G[d]) /\ Origins(q) = OriginsOf(G[e])
    BY <2>3, OriginsOfSources DEF Origins
  <2>5. \A c \in D : c = <<c[1], c[2]>> /\ c[2] \in Nat \ {0} /\ c[1] = G[c][1].item
    <3> SUFFICES ASSUME NEW c \in D
                 PROVE  c = <<c[1], c[2]>> /\ c[2] \in Nat \ {0} /\ c[1] = G[c][1].item
      OBVIOUS
    <3>1. c \in Items(rows) \X (Nat \ {0})
      BY <1>2 DEF Grouped, Numbered
    <3>2. 1 \in DOMAIN G[c]
      BY <1>2 DEF RowsOnly
    <3>3. c[1] = G[c][1].item
      BY <1>2, <3>2 DEF Grouped, HoldsItsRows
    <3> QED
      BY <3>1, <3>3
  <2>6. GroupsMeet(G)
    BY <1>2 DEF Grouped
  <2>7. CASE d = e
    <3>1. SourcesOf(G[d]) # {}
      BY SourcesApart DEF G
    <3>2. OriginsOf(G[d]) # {}
      BY <3>1, OriginsOfSources
    <3> QED
      BY <2>4, <2>7, <3>2
  <2>8. ASSUME NEW a \in D, NEW b \in D, a[1] = b[1], a[2] < b[2]
        PROVE  OriginsOf(G[a]) \cap OriginsOf(G[b]) # {}
    <3>1. a[2] \in 1..(b[2] - 1) /\ a = <<b[1], a[2]>>
      BY <2>5, <2>8
    <3> QED
      BY <2>6, <3>1 DEF GroupsMeet
  <2>9. CASE d # e
    <3>1. d[1] = G[d][1].item /\ e[1] = G[e][1].item
      BY <2>5
    <3>2. d[1] = e[1]
      BY <1>9, <2>3, <3>1
    <3>3. d = <<d[1], d[2]>> /\ e = <<e[1], e[2]>>
      BY <2>5
    <3>4. d[2] # e[2]
      BY <2>9, <3>2, <3>3
    <3>5. d[2] < e[2] \/ e[2] < d[2]
      BY <2>5, <3>4
    <3> QED
      BY <2>4, <2>8, <3>2, <3>5
  <2> QED
    BY <2>7, <2>9
<1> QED
  BY <1>4, <1>6, <1>7, <1>8, <1>9 DEF StandsFor, C

\* Each requirement of a group is a row of its item that stands for its lines.
LEMMA MergedStands ==
  ASSUME NEW d, NEW group, RowsOnly(group), NEW choices, Answered(d, group, choices)
  PROVE  /\ MergeGroup(d, group, choices) # {}
         /\ \A r \in MergeGroup(d, group, choices) : OfGroup(r, group)
<1> DEFINE R == MergeGroup(d, group, choices)
<1>1. CASE ~ (Len(group) # 1 /\ d \notin choices.excluded /\ IsDifferent(d, group, choices))
  <2>1. \E r, qty : R = {r} /\ Sole(r, group, qty)
    BY <1>1, MergeOfOne, MergeOfExcluded, MergeOfSame
  <2> HIDE DEF R
  <2>2. R # {} /\ \A r \in R : OfGroup(r, group)
    BY <2>1 DEF Sole
  <2> QED
    BY <2>2 DEF R
<1>2. CASE Len(group) # 1 /\ d \notin choices.excluded /\ IsDifferent(d, group, choices)
  <2>1. SplitUp(d, group, choices)
    BY <1>2, MergeOfDifferent
  <2> QED
    BY <2>1 DEF SplitUp
<1> QED
  BY <1>1, <1>2

\* Rows that do not disagree about the quantity say the same one.
LEMMA OneQuantity ==
  ASSUME NEW group, Counted(group), ~ Cardinality(Quantities(group)) > 1
  PROVE  \A i, j \in DOMAIN group : group[i].qty = group[j].qty
<1> DEFINE Q == Quantities(group)
           f == [i \in DOMAIN group |-> group[i].qty]
<1>1. IsFiniteSet(Q)
  <2>1. IsFiniteSet(DOMAIN group)
    <3>1. DOMAIN group = 1..Len(group) /\ Len(group) \in Nat
      BY DEF Counted
    <3>2. IsFiniteSet(1..Len(group))
      BY <3>1, FS_Interval
    <3> QED
      BY <3>1, <3>2
  <2>2. Q = {f[i] : i \in DOMAIN group}
    BY DEF Quantities
  <2> HIDE DEF f, Q
  <2> QED
    BY <2>1, <2>2, ImageIsFinite
<1>2. \A i \in DOMAIN group : group[i].qty \in Q
  BY DEF Quantities
<1> SUFFICES ASSUME NEW x \in Q, NEW y \in Q, x # y PROVE FALSE
  BY <1>2
<1>3. Cardinality({x, y}) = 2 /\ IsFiniteSet({x, y})
  <2>1. {x, y} = {x} \cup {y} /\ y \notin {x}
    OBVIOUS
  <2>2. IsFiniteSet({x}) /\ Cardinality({x}) = 1
    BY FS_Singleton
  <2>3. Cardinality({x} \cup {y}) = 1 + 1 /\ IsFiniteSet({x} \cup {y})
    <3> DEFINE X == {x}
    <3> HIDE DEF X
    <3> QED
      BY <2>1, <2>2, FS_AddElement DEF X
  <2> QED
    BY <2>1, <2>3
<1>4. {x, y} \subseteq Q
  OBVIOUS
<1>5. Cardinality({x, y}) <= Cardinality(Q)
  BY <1>1, <1>4, FS_Subset
<1>6. Cardinality(Q) \in Nat
  BY <1>1, FS_CardinalityType
<1> QED
  BY <1>3, <1>5, <1>6

\* By default some requirement asks for no less than each row of its group.
LEMMA NoRowGetsLess ==
  ASSUME NEW d, NEW group, RowsOnly(group), NEW choices, ByDefault(d, group, choices),
         NEW i \in DOMAIN group
  PROVE  \E r \in MergeGroup(d, group, choices) : group[i].qty <= r.qty
<1> DEFINE R == MergeGroup(d, group, choices)
           row == group[i]
<1>1. Counted(group) /\ Answered(d, group, choices)
  BY RowsCount, DefaultsAnswer
<1>2. row.qty \in Nat \ {0} /\ group[1].qty \in Nat \ {0} /\ i \in 1..Len(group)
  BY <1>1 DEF Counted
<1>3. CASE Len(group) = 1
  <2>1. \E r : R = {r} /\ Sole(r, group, group[1].qty)
    BY <1>3, MergeOfOne
  <2>2. i = 1
    BY <1>2, <1>3
  <2> HIDE DEF R
  <2>3. \E r \in R : r.qty = row.qty
    BY <2>1, <2>2 DEF Sole
  <2> QED
    BY <1>2, <2>3 DEF R
<1>4. CASE Len(group) # 1 /\ ~ IsDifferent(d, group, choices)
  <2> DEFINE q == QuantityOf(d, group, choices)
  <2>1. \E r : R = {r} /\ Sole(r, group, q)
    BY <1>1, <1>4, MergeOfSame DEF ByDefault
  <2>2. row.qty <= q
    <3>1. CASE Asks(group)
      <4>1. q = DefaultQuantity(group)
        BY <3>1 DEF ByDefault, QuantityOf, Chosen
      <4> QED
        BY <1>1, <4>1, DefaultIsEnough
    <3>2. CASE ~ Asks(group)
      <4>1. q = group[1].qty /\ ~ Cardinality(Quantities(group)) > 1
        BY <1>1, <1>2, <1>4, <3>2 DEF QuantityOf, Asks, Counted
      <4>2. 1 \in DOMAIN group
        BY <1>1 DEF Counted
      <4>3. \A a, b \in DOMAIN group : group[a].qty = group[b].qty
        BY <1>1, <4>1, OneQuantity
      <4>4. row.qty = group[1].qty
        BY <4>2, <4>3
      <4> QED
        BY <1>2, <4>1, <4>4
    <3> QED
      BY <3>1, <3>2
  <2> HIDE DEF R, q
  <2>3. \E r \in R : r.qty = q
    BY <2>1 DEF Sole
  <2> QED
    BY <2>2, <2>3 DEF R
<1>5. CASE Len(group) # 1 /\ IsDifferent(d, group, choices)
  <2> DEFINE ms == VariantMembers(group)
  <2>1. SplitUp(d, group, choices)
    BY <1>1, <1>5, MergeOfDifferent DEF ByDefault
  <2>2. VariantsOf(group, ms)
    BY <1>1, MembersAre DEF VariantMembers
  <2>3. PICK k \in DOMAIN ms : \E j \in DOMAIN ms[k] : ms[k][j] = row
    BY <2>2 DEF VariantsOf
  <2>4. Amount(d, group, choices, k) = Max(Quantities(ms[k]))
    BY DEF ByDefault, VariantQuantity
  <2> HIDE DEF ms
  <2>5. /\ Max(Quantities(ms[k])) \in Nat \ {0}
        /\ \A j \in DOMAIN ms[k] : ms[k][j].qty <= Max(Quantities(ms[k]))
    BY <2>2, LargestQuantity DEF VariantsOf
  <2>6. row.qty <= Amount(d, group, choices, k) /\ Amount(d, group, choices, k) > 0
    BY <2>3, <2>4, <2>5
  <2>7. k \in AskedFor(d, group, choices)
    BY <2>6 DEF AskedFor, ms
  <2>8. \E r \in R : r.qty = Amount(d, group, choices, k)
    BY <2>1, <2>7 DEF SplitUp
  <2> QED
    BY <2>6, <2>8
<1> QED
  BY <1>3, <1>4, <1>5

-----------------------------------------------------------------------------
(* Merging what was merged *)

\* Sorting by ids loses nothing and adds nothing.
LEMMA ByIdIs ==
  ASSUME NEW S, IsFiniteSet(S), \A r \in S : r.req[1] \in Nat /\ Last(r.req) \in Nat,
         \A r, q \in S : r.req[1] = q.req[1] /\ Last(r.req) = Last(q.req) => r = q
  PROVE  Enumerates(ById(S), S)
<1> DEFINE before == {p \in S \X S :
                        LET a == p[1].req
                            b == p[2].req
                        IN  a[1] < b[1] \/ (a[1] = b[1] /\ Last(a) < Last(b))}
<1>1. ById(S) = InOrder(S, before)
  BY DEF ById
<1>2. ASSUME NEW x \in S, NEW y \in S
      PROVE  <<x, y>> \in before <=>
               \/ x.req[1] < y.req[1]
               \/ x.req[1] = y.req[1] /\ Last(x.req) < Last(y.req)
  OBVIOUS
<1> HIDE DEF before
<1>3. Orders(before, S)
  <2>1. \A x \in S : <<x, x>> \notin before
    BY <1>2
  <2>2. \A x, y, z \in S : <<x, y>> \in before /\ <<y, z>> \in before => <<x, z>> \in before
    BY <1>2
  <2>3. ASSUME NEW x \in S, NEW y \in S, x # y
        PROVE  <<x, y>> \in before \/ <<y, x>> \in before
    <3>1. x.req[1] # y.req[1] \/ Last(x.req) # Last(y.req)
      BY <2>3
    <3> QED
      BY <1>2, <3>1
  <2> QED
    BY <2>1, <2>2, <2>3 DEF Orders
<1> QED
  BY <1>1, <1>3, InOrderIs

\* Merging rows without asking carries each of them.
LEMMA EachRowIsCarried ==
  ASSUME NEW rows, rows \in Seq(RowsIn(rows)), \A i \in DOMAIN rows : IsRow(rows[i]),
         NEW i \in DOMAIN rows
  PROVE  \E r \in Consolidated(rows, NoChoices) :
            rows[i].sources \subseteq r.sources /\ r.qty > 0
<1> DEFINE G == Groups(rows)
<1>1. PICK d \in DOMAIN G : \E j \in DOMAIN G[d] : G[d][j] = rows[i]
  BY GroupsAre DEF Grouped, HoldsAll
<1>2. RowsOnly(G[d]) /\ Answered(d, G[d], NoChoices)
  BY GroupsOfRows, NoChoicesAnswer DEF AllAnswered
<1>3. PICK r \in MergeGroup(d, G[d], NoChoices) : OfGroup(r, G[d])
  BY <1>2, MergedStands
<1>4. r \in Consolidated(rows, NoChoices)
  BY <1>3 DEF Consolidated, MergeGroups
<1>5. rows[i].sources \subseteq r.sources
  BY <1>1, <1>3 DEF OfGroup, SourcesOf
<1>6. r.qty > 0
  BY <1>3 DEF OfGroup, IsRow
<1> QED
  BY <1>4, <1>5, <1>6

\* A row that shares a section with each other row of its item stays as it is.
LEMMA KeptApart ==
  ASSUME NEW rows, rows \in Seq(RowsIn(rows)), \A i \in DOMAIN rows : IsRow(rows[i]),
         NEW item,
         \A i, j \in DOMAIN rows : rows[i].item = item /\ rows[j].item = item =>
             Origins(rows[i]) \cap Origins(rows[j]) # {}
  PROVE  {r \in Consolidated(rows, NoChoices) : r.item = item} =
           {r \in RowsIn(rows) : r.item = item}
<1> DEFINE G == Groups(rows)
           M(d) == MergeGroup(d, G[d], NoChoices)
<1>1. Grouped(rows, DOMAIN rows, G)
  BY GroupsAre
<1>2. \A d \in DOMAIN G : RowsOnly(G[d]) /\ \A r \in M(d) : OfGroup(r, G[d])
  BY GroupsOfRows, NoChoicesAnswer, MergedStands DEF AllAnswered
<1>3. Consolidated(rows, NoChoices) = UNION {M(d) : d \in DOMAIN G}
  BY DEF Consolidated, MergeGroups
<1> HIDE DEF G
<1>4. \A d \in DOMAIN G : \A i \in DOMAIN G[d] :
        \E m \in DOMAIN rows : G[d][i] = rows[m] /\ rows[m].item = d[1]
  BY <1>1 DEF Grouped, HoldsItsRows
<1>5. ASSUME NEW d \in DOMAIN G, d[1] = item
      PROVE  Len(G[d]) = 1 /\ M(d) = {G[d][1]}
  <2>1. Len(G[d]) \in Nat \ {0} /\ DOMAIN G[d] = 1..Len(G[d])
    BY <1>2 DEF RowsOnly
  <2>2. ASSUME Len(G[d]) # 1 PROVE FALSE
    <3>1. 1 \in DOMAIN G[d] /\ 2 \in DOMAIN G[d]
      BY <2>1, <2>2
    <3>2. Origins(G[d][1]) \cap Origins(G[d][2]) # {}
      BY <1>4, <1>5, <3>1
    <3>3. Origins(G[d][1]) \cap Origins(G[d][2]) = {}
      BY <1>1, <3>1 DEF Grouped, OneOfEachSection
    <3> QED
      BY <3>2, <3>3
  <2>3. M(d) = {[G[d][1] EXCEPT !.sources = SourcesOf(G[d])]}
    BY <2>2 DEF MergeGroup
  <2>4. SourcesOf(G[d]) = G[d][1].sources
    BY <2>1, <2>2 DEF SourcesOf
  <2>5. IsRow(G[d][1])
    BY <1>2, <2>1 DEF RowsOnly
  <2>6. [G[d][1] EXCEPT !.sources = G[d][1].sources] = G[d][1]
    BY <2>5 DEF IsRow, Fields
  <2> QED
    BY <2>2, <2>3, <2>4, <2>6
<1>6. ASSUME NEW r \in Consolidated(rows, NoChoices), r.item = item PROVE r \in RowsIn(rows)
  <2>1. PICK d \in DOMAIN G : r \in M(d)
    BY <1>3
  <2>2. r.item = G[d][1].item /\ 1 \in DOMAIN G[d]
    BY <1>2, <2>1 DEF OfGroup, RowsOnly
  <2>3. PICK m \in DOMAIN rows : G[d][1] = rows[m] /\ rows[m].item = d[1]
    BY <1>4, <2>2
  <2>4. M(d) = {G[d][1]}
    BY <1>5, <1>6, <2>2, <2>3
  <2> QED
    BY <2>1, <2>3, <2>4 DEF RowsIn
<1>7. ASSUME NEW r \in RowsIn(rows), r.item = item PROVE r \in Consolidated(rows, NoChoices)
  <2>1. PICK m \in DOMAIN rows : r = rows[m]
    BY DEF RowsIn
  <2>2. PICK d \in DOMAIN G : \E j \in DOMAIN G[d] : G[d][j] = rows[m]
    BY <1>1 DEF Grouped, HoldsAll
  <2>3. PICK j \in DOMAIN G[d] : G[d][j] = r
    BY <2>1, <2>2
  <2>4. d[1] = item
    BY <1>4, <1>7, <2>3
  <2>5. Len(G[d]) = 1 /\ M(d) = {G[d][1]}
    BY <1>5, <2>4
  <2>6. j = 1
    BY <1>2, <2>5 DEF RowsOnly
  <2>7. r \in M(d)
    BY <2>3, <2>5, <2>6
  <2> QED
    BY <1>3, <2>7
<1> QED
  BY <1>6, <1>7

-----------------------------------------------------------------------------
(* The inductive invariant *)

ControlFields == {"identity", "facts", "choice", "quantity", "amounts", "boxes", "confirmed"}

AreControls(w) == w = [f \in ControlFields |-> w[f]]

\* What controls hold, whatever list they were drawn for.
Sound(w) ==
  /\ \A x \in DOMAIN w.identity : w.identity[x] \in {"same", "different"}
  /\ DOMAIN w.facts \subseteq DOMAIN w.identity
  /\ \A x \in DOMAIN w.quantity : w.quantity[x] \in Nat
  /\ \A x \in DOMAIN w.amounts : w.amounts[x] \in Nat

VariantsIn(questions, d) == {d} \X DOMAIN VariantMembers(questions[d])

\* Each control that is shown holds something.
Complete(questions, w) ==
  \A d \in DOMAIN questions :
    /\ d \in DOMAIN w.identity
    /\ w.identity[d] = "same" => d \in DOMAIN w.quantity
    /\ w.identity[d] # "same" => VariantsIn(questions, d) \subseteq DOMAIN w.amounts

\* A number nobody confirmed is the default, or zero since a box was ticked.
Unconfirmed(questions, w) ==
  \A d \in DOMAIN questions :
    d \in DOMAIN w.quantity /\ d \notin w.confirmed =>
      w.quantity[d] \in {0, DefaultQuantity(questions[d])}

\* What the controls hold before the first one is used.
Untouched(questions, w) ==
  /\ w.confirmed = {}
  /\ \A d \in DOMAIN questions :
       /\ d \in DOMAIN w.quantity => w.quantity[d] = DefaultQuantity(questions[d])
       /\ \A k \in DOMAIN VariantMembers(questions[d]) :
            <<d, k>> \in DOMAIN w.amounts =>
              w.amounts[<<d, k>>] = VariantQuantity(VariantMembers(questions[d])[k])

ControlsInv ==
  /\ list \in Lists \cup Replacements
  /\ touches \in Nat /\ readings \in Nat
  /\ Sound(Values)
  /\ Complete(Questions, Values)
  /\ readings = 0 => Unconfirmed(Questions, Values)
  /\ readings = 0 /\ touches = 0 => Untouched(Questions, Values)

\* The rows of the items a parent has added.
AddedAs(row, n) == [row EXCEPT !.req = <<n>>, !.sources = {[line |-> <<n>>, origin |-> None]}]
AddedRows == {AddedAs(row, n) : row \in Added, n \in Nat}

Sending ==
  [d \in Decisions |-> [identity |-> identity[d], numbers |-> Shown(d), known |-> d \in confirmed]]

\* What was made of the list, and of what was confirmed, is up to date.
MergedInv ==
  /\ \/ extracted = Consolidated(list, NoChoices)
     \/ resolved /\ extracted = Consolidated(list, ScreenChoices)
  /\ sent # None =>
       resolved /\ extracted = Consolidated(list, ScreenChoices) /\ sent = Sending
  /\ planned # None => planned = Consolidated(ConfirmedRows, NoChoices)

AddedInv == added \in Seq(AddedRows)

IInv == ControlsInv /\ MergedInv /\ AddedInv

-----------------------------------------------------------------------------
(* Drawing the screen *)

\* What groups ask for by default, as one product or as several.
LEMMA DefaultsAreNumbers ==
  ASSUME NEW group, RowsOnly(group)
  PROVE  /\ DefaultQuantity(group) \in Nat \ {0}
         /\ \E n \in Nat \ {0} : DOMAIN VariantMembers(group) = 1..n
         /\ \A k \in DOMAIN VariantMembers(group) :
              VariantQuantity(VariantMembers(group)[k]) \in Nat \ {0}
<1>1. Counted(group)
  BY RowsCount
<1>2. DefaultQuantity(group) \in Nat \ {0}
  BY <1>1, DefaultIsEnough
<1> DEFINE ms == VariantMembers(group)
<1>3. VariantsOf(group, ms)
  BY <1>1, MembersAre DEF VariantMembers
<1> HIDE DEF ms
<1>4. \A k \in DOMAIN ms : VariantQuantity(ms[k]) \in Nat \ {0}
  BY <1>3, LargestQuantity DEF VariantsOf, VariantQuantity
<1> QED
  BY <1>2, <1>3, <1>4 DEF VariantsOf, ms

\* The questions about a list are groups of it, with two rows or more.
LEMMA QuestionsAre ==
  ASSUME NEW l \in Lists \cup Replacements
  PROVE  /\ IsList(l)
         /\ DOMAIN GroupsOfLists[l] = {d \in DOMAIN Groups(l) : Asks(Groups(l)[d])}
         /\ \A d \in DOMAIN GroupsOfLists[l] :
              /\ GroupsOfLists[l][d] = Groups(l)[d]
              /\ RowsOnly(GroupsOfLists[l][d]) /\ Len(GroupsOfLists[l][d]) # 1
<1>1. IsList(l)
  BY RowsAndNumbers
<1>2. GroupsOfLists[l] = QuestionsAmong(Groups(l))
  BY DEF GroupsOfLists
<1>3. \A d \in DOMAIN Groups(l) : RowsOnly(Groups(l)[d])
  BY <1>1, GroupsOfList
<1> QED
  <2> SUFFICES ASSUME NEW d \in DOMAIN GroupsOfLists[l]
               PROVE  Len(Groups(l)[d]) # 1
    BY <1>1, <1>2, <1>3 DEF QuestionsAmong
  <2> DEFINE n == Len(Groups(l)[d])
  <2>1. n > 1 /\ n \in Nat
    BY <1>2, <1>3 DEF QuestionsAmong, Asks, RowsOnly
  <2> HIDE DEF n
  <2>2. n # 1
    BY <2>1
  <2> QED
    BY <2>2 DEF n

\* Drawing the identities leaves what the other controls hold.
IdentitiesDrawn(questions, w, v) ==
  /\ AreControls(v)
  /\ v.choice = w.choice /\ v.quantity = w.quantity /\ v.amounts = w.amounts
  /\ v.boxes = w.boxes /\ v.confirmed = w.confirmed
  /\ Sound(v)
  /\ \A d \in DOMAIN questions : d \in DOMAIN v.identity

LEMMA IdentitiesAreDrawn ==
  ASSUME NEW questions, NEW w, AreControls(w), Sound(w),
         NEW current, DOMAIN current = DOMAIN questions
  PROVE  IdentitiesDrawn(questions, w, DrawnIdentities(questions, w, current))
<1> DEFINE outdated == {d \in DOMAIN questions : d \in DOMAIN w.facts => w.facts[d] # current[d]}
           fs == Over(current, w.facts)
           ids == Over([d \in outdated |-> DefaultIdentity(questions[d])], w.identity)
           v == DrawnIdentities(questions, w, current)
<1>1. /\ v = [w EXCEPT !.facts = fs, !.identity = ids]
      /\ AreControls(v) /\ v.facts = fs /\ v.identity = ids
      /\ v.choice = w.choice /\ v.quantity = w.quantity /\ v.amounts = w.amounts
      /\ v.boxes = w.boxes /\ v.confirmed = w.confirmed
  <2>1. v = [w EXCEPT !.facts = fs, !.identity = ids]
    BY DEF DrawnIdentities, AreControls, ControlFields
  <2> HIDE DEF v, fs, ids
  <2> QED
    BY <2>1 DEF AreControls, ControlFields
<1>2. \A x \in DOMAIN ids : ids[x] \in {"same", "different"}
  BY DEF Over, DefaultIdentity, Sound
<1>3. DOMAIN fs \subseteq DOMAIN ids /\ DOMAIN questions \subseteq DOMAIN ids
  BY DEF Over, Sound
<1> HIDE DEF v, fs, ids
<1> QED
  BY <1>1, <1>2, <1>3 DEF IdentitiesDrawn, Sound, v

\* The controls, once drawn.
DrawnFor(questions, w, v) ==
  /\ Sound(v) /\ Complete(questions, v)
  /\ Unconfirmed(questions, w) => Unconfirmed(questions, v)
  /\ Untouched(questions, w) => Untouched(questions, v)

LEMMA NumbersAreDrawn ==
  ASSUME NEW questions, \A d \in DOMAIN questions : RowsOnly(questions[d]),
         NEW w, AreControls(w), Sound(w), \A d \in DOMAIN questions : d \in DOMAIN w.identity
  PROVE  DrawnFor(questions, w, DrawnNumbers(questions, w))
<1> DEFINE single == {d \in DOMAIN questions : w.identity[d] = "same"}
           unknown == {d \in single : d \in DOMAIN w.choice =>
                                        w.choice[d] \notin QuickChoices(questions[d])}
           labels == Over([d \in unknown |-> DefaultLabel(questions[d])], w.choice)
           one == [d \in single |-> DefaultQuantity(questions[d])]
           members == [d \in DOMAIN questions \ single |-> VariantMembers(questions[d])]
           many == VariantDefaults(members)
           qs == Over(w.quantity, one)
           as == Over(w.amounts, many)
           v == DrawnNumbers(questions, w)
<1>1. /\ v.facts = w.facts /\ v.identity = w.identity
      /\ v.quantity = qs /\ v.amounts = as /\ v.confirmed = w.confirmed
  <2>1. v = [w EXCEPT !.choice = labels, !.quantity = qs, !.amounts = as]
    BY DEF DrawnNumbers, AreControls, ControlFields
  <2> HIDE DEF v, labels, qs, as
  <2> QED
    BY <2>1 DEF AreControls, ControlFields
<1>2. \A d \in DOMAIN questions :
        /\ DefaultQuantity(questions[d]) \in Nat
        /\ \A k \in DOMAIN VariantMembers(questions[d]) :
             VariantQuantity(VariantMembers(questions[d])[k]) \in Nat
  BY DefaultsAreNumbers
<1>3. /\ \A x \in DOMAIN qs : \/ x \in DOMAIN w.quantity /\ qs[x] = w.quantity[x]
                              \/ x \in single /\ qs[x] = DefaultQuantity(questions[x])
      /\ single \subseteq DOMAIN qs
  BY DEF Over
<1>4. /\ \A d \in DOMAIN questions \ single : VariantsIn(questions, d) \subseteq DOMAIN many
      /\ \A x \in DOMAIN many :
           /\ x[1] \in DOMAIN questions /\ x[2] \in DOMAIN VariantMembers(questions[x[1]])
           /\ many[x] = VariantQuantity(VariantMembers(questions[x[1]])[x[2]])
  BY DEF VariantDefaults, VariantsIn
<1>5. \A x \in DOMAIN as : \/ x \in DOMAIN w.amounts /\ as[x] = w.amounts[x]
                           \/ x \in DOMAIN many /\ as[x] = many[x]
  BY DEF Over
<1>6. DOMAIN many \subseteq DOMAIN as
  BY DEF Over
<1> HIDE DEF v, qs, as, many
<1>7. Sound(v)
  <2>1. \A x \in DOMAIN qs : qs[x] \in Nat
    BY <1>2, <1>3 DEF Sound
  <2>2. \A x \in DOMAIN many : many[x] \in Nat
    BY <1>2, <1>4
  <2>3. \A x \in DOMAIN as : as[x] \in Nat
    BY <1>5, <2>2 DEF Sound
  <2> QED
    BY <1>1, <2>1, <2>3 DEF Sound
<1>8. Complete(questions, v)
  BY <1>1, <1>3, <1>4, <1>6 DEF Complete
<1>9. ASSUME Unconfirmed(questions, w) PROVE Unconfirmed(questions, v)
  BY <1>1, <1>3, <1>9 DEF Unconfirmed
<1>10. ASSUME Untouched(questions, w) PROVE Untouched(questions, v)
  BY <1>1, <1>3, <1>4, <1>5, <1>10 DEF Untouched
<1> QED
  BY <1>7, <1>8, <1>9, <1>10 DEF DrawnFor, v

LEMMA DrawnIs ==
  ASSUME NEW questions, \A d \in DOMAIN questions : RowsOnly(questions[d]),
         NEW w, AreControls(w), Sound(w)
  PROVE  DrawnFor(questions, w, Drawn(questions, w))
<1> DEFINE current == [d \in DOMAIN questions |-> Fingerprint(questions[d])]
           v == DrawnIdentities(questions, w, current)
<1>1. IdentitiesDrawn(questions, w, v)
  <2>1. DOMAIN current = DOMAIN questions
    OBVIOUS
  <2> HIDE DEF current
  <2> QED
    BY <2>1, IdentitiesAreDrawn
<1>2. Drawn(questions, w) = DrawnNumbers(questions, v)
  BY DEF Drawn
<1> HIDE DEF v
<1>3. DrawnFor(questions, v, DrawnNumbers(questions, v))
  BY <1>1, NumbersAreDrawn DEF IdentitiesDrawn
<1>4. /\ Unconfirmed(questions, w) => Unconfirmed(questions, v)
      /\ Untouched(questions, w) => Untouched(questions, v)
  BY <1>1 DEF IdentitiesDrawn, Unconfirmed, Untouched
<1> QED
  BY <1>2, <1>3, <1>4 DEF DrawnFor

-----------------------------------------------------------------------------
(* Using the controls *)

LEMMA ValuesAre == AreControls(Values) /\ AreControls(Blank)
BY DEF AreControls, ControlFields, Values, Blank

\* The screen is drawn anew after each use of a control.
LEMMA TouchKeeps ==
  ASSUME ControlsInv, NEW w, AreControls(w), Sound(w),
         readings = 0 => Unconfirmed(Questions, w), Touch(w)
  PROVE  ControlsInv'
<1> DEFINE v == Drawn(Questions, w)
<1>1. \A d \in DOMAIN Questions : RowsOnly(Questions[d])
  BY QuestionsAre DEF ControlsInv, Questions
<1>2. DrawnFor(Questions, w, v)
  <2> DEFINE Q == Questions
  <2> HIDE DEF Q
  <2>1. DrawnFor(Q, w, Drawn(Q, w))
    BY <1>1, DrawnIs DEF Q
  <2> QED
    BY <2>1 DEF Q
<1>3. /\ identity' = v.identity /\ facts' = v.facts /\ quantity' = v.quantity
      /\ amounts' = v.amounts /\ confirmed' = v.confirmed
      /\ list' = list /\ readings' = readings /\ touches' = touches + 1
      /\ Questions' = Questions
  BY DEF Touch, SetControls, Questions
<1> HIDE DEF v
<1>4. Sound(Values)'
  BY <1>2, <1>3 DEF DrawnFor, Sound, Values
<1>5. Complete(Questions, Values)'
  BY <1>2, <1>3 DEF DrawnFor, Complete, Values
<1>6. readings = 0 => Unconfirmed(Questions, Values)'
  BY <1>2, <1>3 DEF DrawnFor, Unconfirmed, Values
<1> QED
  BY <1>3, <1>4, <1>5, <1>6 DEF ControlsInv

LEMMA PickIdentityKeeps ==
  ASSUME ControlsInv, NEW d \in Decisions, PickIdentity(d) PROVE ControlsInv'
<1> DEFINE is == [identity EXCEPT ![d] = IF @ = "same" THEN "different" ELSE "same"]
           w == [Values EXCEPT !.identity = is]
<1>1. Touch(w)
  BY DEF PickIdentity, Values
<1>2. /\ AreControls(w) /\ w.identity = is /\ w.facts = facts /\ w.quantity = quantity
      /\ w.amounts = amounts /\ w.confirmed = confirmed
  <2> HIDE DEF is
  <2> QED
    BY DEF AreControls, ControlFields, Values
<1>3. DOMAIN is = DOMAIN identity /\ \A x \in DOMAIN is : is[x] \in {"same", "different"}
  BY DEF ControlsInv, Sound, Values
<1> HIDE DEF w, is
<1>4. Sound(w)
  BY <1>2, <1>3 DEF ControlsInv, Sound, Values
<1>5. readings = 0 => Unconfirmed(Questions, w)
  BY <1>2 DEF ControlsInv, Unconfirmed, Values
<1> QED
  BY <1>1, <1>2, <1>4, <1>5, TouchKeeps

\* A quick choice other than one's own number names a number.
LEMMA LabelsAreNumbers ==
  ASSUME NEW group, RowsOnly(group), NEW label \in QuickChoices(group), label # Custom
  PROVE  label[2] \in Nat
<1>1. Total(group) \in Nat
  <2> DEFINE f == [i \in DOMAIN group |-> group[i].qty]
             D == DOMAIN group
  <2>1. IsFiniteSet(D)
    BY FS_Interval DEF RowsOnly
  <2>2. \A i \in D : f[i] \in Nat
    BY DEF RowsOnly, IsRow
  <2>3. Total(group) = SumFunctionOnSet(f, D)
    BY DEF Total
  <2> HIDE DEF f, D
  <2> QED
    BY <2>1, <2>2, <2>3, SumNat
<1>2. CASE label = TotalLabel(group)
  BY <1>1, <1>2 DEF TotalLabel
<1>3. CASE \E i \in DOMAIN group : label = SourceLabel(group[i])
  BY <1>3 DEF SourceLabel, RowsOnly, IsRow
<1> QED
  BY <1>2, <1>3 DEF QuickChoices

LEMMA PickQuantityKeeps ==
  ASSUME ControlsInv, NEW d \in Decisions, NEW label \in QuickChoices(Questions[d]),
         PickQuantity(d, label)
  PROVE  ControlsInv'
<1> DEFINE cs == [choice EXCEPT ![d] = label]
           ks == confirmed \cup {d}
           qs == [quantity EXCEPT ![d] = IF label = Custom THEN @ ELSE label[2]]
           w == [Values EXCEPT !.choice = cs, !.confirmed = ks, !.quantity = qs]
<1>1. Touch(w)
  BY DEF PickQuantity, Values
<1>2. /\ AreControls(w) /\ w.identity = identity /\ w.facts = facts /\ w.quantity = qs
      /\ w.amounts = amounts /\ w.confirmed = ks
  <2> HIDE DEF cs, ks, qs
  <2> QED
    BY DEF AreControls, ControlFields, Values
<1>3. label # Custom => label[2] \in Nat
  BY QuestionsAre, LabelsAreNumbers DEF ControlsInv, Questions, Decisions
<1>4. /\ DOMAIN qs = DOMAIN quantity /\ \A x \in DOMAIN qs : qs[x] \in Nat
      /\ \A x \in DOMAIN qs : x # d => qs[x] = quantity[x]
  BY <1>3 DEF ControlsInv, Sound, Values
<1> HIDE DEF w, qs
<1>5. Sound(w)
  BY <1>2, <1>4 DEF ControlsInv, Sound, Values
<1>6. readings = 0 => Unconfirmed(Questions, w)
  BY <1>2, <1>4 DEF ControlsInv, Unconfirmed, Values
<1> QED
  BY <1>1, <1>2, <1>5, <1>6, TouchKeeps

LEMMA EnterQuantityKeeps ==
  ASSUME ControlsInv, NEW d \in Decisions, NEW n \in Entered, EnterQuantity(d, n)
  PROVE  ControlsInv'
<1> DEFINE cs == [choice EXCEPT ![d] = Custom]
           ks == confirmed \cup {d}
           qs == [quantity EXCEPT ![d] = n]
           w == [Values EXCEPT !.choice = cs, !.confirmed = ks, !.quantity = qs]
<1>1. Touch(w)
  BY DEF EnterQuantity, Values
<1>2. /\ AreControls(w) /\ w.identity = identity /\ w.facts = facts /\ w.quantity = qs
      /\ w.amounts = amounts /\ w.confirmed = ks
  <2> HIDE DEF cs, ks, qs
  <2> QED
    BY DEF AreControls, ControlFields, Values
<1>3. n \in Nat
  BY RowsAndNumbers
<1>4. /\ DOMAIN qs = DOMAIN quantity /\ \A x \in DOMAIN qs : qs[x] \in Nat
      /\ \A x \in DOMAIN qs : x # d => qs[x] = quantity[x]
  BY <1>3 DEF ControlsInv, Sound, Values
<1> HIDE DEF w, qs
<1>5. Sound(w)
  BY <1>2, <1>4 DEF ControlsInv, Sound, Values
<1>6. readings = 0 => Unconfirmed(Questions, w)
  BY <1>2, <1>4 DEF ControlsInv, Unconfirmed, Values
<1> QED
  BY <1>1, <1>2, <1>5, <1>6, TouchKeeps

LEMMA EnterAmountKeeps ==
  ASSUME ControlsInv, NEW d \in Decisions, NEW v \in Variants(d), NEW n \in Entered,
         EnterAmount(v, n)
  PROVE  ControlsInv'
<1> DEFINE some == n > 0 \/ \E o \in Variants(v[1]) \ {v} : amounts[o] > 0
           as == [amounts EXCEPT ![v] = n]
           bs == IF some THEN boxes \ {v[1]} ELSE boxes \cup {v[1]}
           w == [Values EXCEPT !.amounts = as, !.boxes = bs]
<1>1. Touch(w)
  BY DEF EnterAmount, Values
<1>2. /\ AreControls(w) /\ w.identity = identity /\ w.facts = facts /\ w.quantity = quantity
      /\ w.amounts = as /\ w.confirmed = confirmed
  <2> HIDE DEF as, bs
  <2> QED
    BY DEF AreControls, ControlFields, Values
<1>3. n \in Nat
  BY RowsAndNumbers
<1>4. \A x \in DOMAIN as : as[x] \in Nat
  BY <1>3 DEF ControlsInv, Sound, Values
<1> HIDE DEF w, as
<1>5. Sound(w)
  BY <1>2, <1>4 DEF ControlsInv, Sound, Values
<1>6. readings = 0 => Unconfirmed(Questions, w)
  BY <1>2 DEF ControlsInv, Unconfirmed, Values
<1> QED
  BY <1>1, <1>2, <1>5, <1>6, TouchKeeps

LEMMA TickBoxKeeps ==
  ASSUME ControlsInv, NEW d \in Decisions, TickBox(d) PROVE ControlsInv'
<1> DEFINE ticking == d \notin boxes
           resets == ~ ticking /\ Numbers(d) = {0}
           group == Questions[d]
           shown == IF Combined(d) THEN {} ELSE Variants(d)
           Number(v) == IF ticking THEN 0 ELSE VariantQuantity(VariantMembers(group)[v[2]])
           numbered == ticking \/ resets
           bs == IF ticking THEN boxes \cup {d} ELSE boxes \ {d}
           cs == IF ticking /\ Combined(d) THEN [choice EXCEPT ![d] = Custom] ELSE choice
           qs == IF numbered /\ Combined(d)
                 THEN [quantity EXCEPT ![d] = IF ticking THEN 0 ELSE DefaultQuantity(group)]
                 ELSE quantity
           as == IF numbered THEN Over([v \in shown |-> Number(v)], amounts) ELSE amounts
           w == [Values EXCEPT !.boxes = bs, !.choice = cs, !.quantity = qs, !.amounts = as]
<1>1. Touch(w)
  BY DEF TickBox, Values
<1>2. /\ AreControls(w) /\ w.identity = identity /\ w.facts = facts /\ w.quantity = qs
      /\ w.amounts = as /\ w.confirmed = confirmed
  <2> HIDE DEF bs, cs, qs, as
  <2> QED
    BY DEF AreControls, ControlFields, Values
<1>3. RowsOnly(group)
  BY QuestionsAre DEF ControlsInv, Questions, Decisions
<1>4. /\ DefaultQuantity(group) \in Nat
      /\ \A k \in DOMAIN VariantMembers(group) :
           VariantQuantity(VariantMembers(group)[k]) \in Nat
  BY <1>3, DefaultsAreNumbers
<1>5. /\ DOMAIN qs = DOMAIN quantity
      /\ \A x \in DOMAIN qs : \/ qs[x] = quantity[x]
                              \/ x = d /\ qs[x] \in {0, DefaultQuantity(group)}
  OBVIOUS
<1>6. \A v \in shown : Number(v) \in Nat
  BY <1>4 DEF Variants
<1>7. \A x \in DOMAIN as : as[x] \in Nat
  <2> DEFINE f == [v \in shown |-> Number(v)]
  <2>1. \A x \in DOMAIN f : f[x] \in Nat
    BY <1>6
  <2> HIDE DEF f
  <2>2. \A x \in DOMAIN amounts : amounts[x] \in Nat
    BY DEF ControlsInv, Sound, Values
  <2>3. \A x \in DOMAIN Over(f, amounts) : Over(f, amounts)[x] \in Nat
    BY <2>1, <2>2 DEF Over
  <2> QED
    BY <2>2, <2>3 DEF f
<1> HIDE DEF w, qs, as
<1>8. Sound(w)
  <2>1. \A x \in DOMAIN quantity : quantity[x] \in Nat
    BY DEF ControlsInv, Sound, Values
  <2>2. \A x \in DOMAIN qs : qs[x] \in Nat
    BY <1>4, <1>5, <2>1
  <2> QED
    BY <1>2, <1>7, <2>2 DEF ControlsInv, Sound, Values
<1>9. readings = 0 => Unconfirmed(Questions, w)
  BY <1>2, <1>5 DEF ControlsInv, Unconfirmed, Values
<1> QED
  BY <1>1, <1>2, <1>8, <1>9, TouchKeeps

-----------------------------------------------------------------------------
(* What is sent *)

\* The variants of a question are numbered from one.
LEMMA NumbersOfQuestion ==
  ASSUME ControlsInv, NEW d \in Decisions
  PROVE  /\ Questions[d] = Groups(list)[d] /\ d \in DOMAIN Groups(list)
         /\ RowsOnly(Questions[d]) /\ Len(Questions[d]) # 1
         /\ identity[d] \in {"same", "different"}
         /\ Combined(d) => d \in DOMAIN quantity /\ quantity[d] \in Nat
         /\ ~ Combined(d) =>
              \A k \in DOMAIN VariantMembers(Questions[d]) :
                <<d, k>> \in Variants(d) /\ amounts[<<d, k>>] \in Nat
<1>1. /\ Questions[d] = Groups(list)[d] /\ d \in DOMAIN Groups(list)
      /\ RowsOnly(Questions[d]) /\ Len(Questions[d]) # 1
  BY QuestionsAre DEF ControlsInv, Questions, Decisions
<1>2. identity[d] \in {"same", "different"}
  BY DEF ControlsInv, Complete, Sound, Values, Decisions
<1>3. ASSUME Combined(d) PROVE d \in DOMAIN quantity /\ quantity[d] \in Nat
  BY <1>3 DEF ControlsInv, Complete, Sound, Values, Decisions, Combined
<1>4. ASSUME ~ Combined(d), NEW k \in DOMAIN VariantMembers(Questions[d])
      PROVE  <<d, k>> \in Variants(d) /\ amounts[<<d, k>>] \in Nat
  <2>1. <<d, k>> \in Variants(d) /\ Variants(d) = VariantsIn(Questions, d)
    BY DEF Variants, VariantsIn
  <2>2. VariantsIn(Questions, d) \subseteq DOMAIN amounts
    BY <1>4 DEF ControlsInv, Complete, Values, Decisions, Combined
  <2>3. \A x \in DOMAIN amounts : amounts[x] \in Nat
    BY DEF ControlsInv, Sound, Values
  <2> QED
    BY <2>1, <2>2, <2>3
<1> QED
  BY <1>1, <1>2, <1>3, <1>4

\* An item is kept out when all of its numbers are zero.
LEMMA ExcludedIs ==
  ASSUME ControlsInv, NEW d \in Decisions
  PROVE  /\ Combined(d) => (d \in Excluded <=> quantity[d] = 0)
         /\ ~ Combined(d) =>
              (d \in Excluded <=>
                 \A k \in DOMAIN VariantMembers(Questions[d]) : amounts[<<d, k>>] = 0)
<1>1. ASSUME Combined(d) PROVE d \in Excluded <=> quantity[d] = 0
  BY <1>1 DEF Excluded, Numbers
<1>2. ASSUME ~ Combined(d)
      PROVE  d \in Excluded <=>
               \A k \in DOMAIN VariantMembers(Questions[d]) : amounts[<<d, k>>] = 0
  <2> DEFINE K == DOMAIN VariantMembers(Questions[d])
  <2>1. Numbers(d) = {amounts[<<d, k>>] : k \in K}
    <3>1. Variants(d) = {d} \X K
      BY DEF Variants
    <3> HIDE DEF K
    <3>2. /\ \A v \in Variants(d) : \E k \in K : v = <<d, k>>
          /\ \A k \in K : <<d, k>> \in Variants(d)
      BY <3>1
    <3>3. Numbers(d) = {amounts[v] : v \in Variants(d)}
      BY <1>2 DEF Numbers
    <3> QED
      BY <3>2, <3>3
  <2>2. K # {}
    <3>1. PICK n \in Nat \ {0} : K = 1..n
      BY NumbersOfQuestion, DefaultsAreNumbers
    <3>2. 1 \in 1..n
      BY <3>1
    <3> QED
      BY <3>1, <3>2
  <2> HIDE DEF K
  <2> QED
    BY <2>1, <2>2 DEF Excluded, K
<1> QED
  BY <1>1, <1>2

\* What the choices say of a question.
Says(d, choices) ==
  /\ d \in choices.excluded <=> d \in Excluded
  /\ IsDifferent(d, Questions[d], choices) <=> ~ Combined(d)
  /\ d \in DOMAIN choices.quantities <=> d \notin Excluded /\ Combined(d) /\ d \in confirmed
  /\ d \in DOMAIN choices.quantities => choices.quantities[d] = quantity[d]
  /\ d \notin Excluded /\ ~ Combined(d) =>
       \A k \in DOMAIN VariantMembers(Questions[d]) :
         Amount(d, Questions[d], choices, k) = amounts[<<d, k>>]

LEMMA ScreenSays ==
  ASSUME ControlsInv, NEW d \in Decisions
  PROVE  Says(d, ScreenChoices)
<1> DEFINE c == ScreenChoices
<1>1. /\ c.excluded = Excluded /\ c.quantities = ConfirmedNumbers /\ c.amounts = VariantNumbers
      /\ c.identities = [e \in Decisions |-> identity[e]]
  BY DEF ScreenChoices
<1> HIDE DEF c
<1>2. IsDifferent(d, Questions[d], c) <=> ~ Combined(d)
  BY <1>1, NumbersOfQuestion DEF IsDifferent, Chosen, Combined
<1>3. /\ d \in DOMAIN c.quantities <=> d \notin Excluded /\ Combined(d) /\ d \in confirmed
      /\ d \in DOMAIN c.quantities => c.quantities[d] = quantity[d]
  BY <1>1 DEF ConfirmedNumbers
<1>4. ASSUME d \notin Excluded, ~ Combined(d), NEW k \in DOMAIN VariantMembers(Questions[d])
      PROVE  Amount(d, Questions[d], c, k) = amounts[<<d, k>>]
  <2>1. <<d, k>> \in Variants(d)
    BY <1>4, NumbersOfQuestion
  <2>2. <<d, k>> \in DOMAIN c.amounts /\ c.amounts[<<d, k>>] = amounts[<<d, k>>]
    BY <1>1, <1>4, <2>1 DEF VariantNumbers
  <2> QED
    BY <2>2 DEF Amount, Chosen
<1> QED
  BY <1>1, <1>2, <1>3, <1>4 DEF Says, c

\* Without a question, or a choice, a group gets what it asks for by default.
LEMMA NotAsked ==
  ASSUME ControlsInv, NEW d \in DOMAIN Groups(list), d \notin Decisions
  PROVE  ByDefault(d, Groups(list)[d], ScreenChoices)
<1> DEFINE c == ScreenChoices
<1>1. c.excluded = Excluded /\ c.quantities = ConfirmedNumbers /\ c.amounts = VariantNumbers
  BY DEF ScreenChoices
<1>2. d \notin Excluded /\ d \notin DOMAIN ConfirmedNumbers
  BY DEF Excluded, ConfirmedNumbers
<1>3. \A k : <<d, k>> \notin DOMAIN VariantNumbers
  BY DEF VariantNumbers, Variants
<1> HIDE DEF c
<1> QED
  BY <1>1, <1>2, <1>3, NoAnswerIsDefault DEF c

LEMMA ScreenAnswers ==
  ASSUME ControlsInv PROVE AllAnswered(list, ScreenChoices)
<1> SUFFICES ASSUME NEW d \in DOMAIN Groups(list)
             PROVE  Answered(d, Groups(list)[d], ScreenChoices)
  BY DEF AllAnswered
<1> DEFINE c == ScreenChoices
<1>1. CASE d \notin Decisions
  <2>1. RowsOnly(Groups(list)[d])
    BY QuestionsAre, GroupsOfList DEF ControlsInv
  <2> QED
    BY <1>1, <2>1, NotAsked, RowsCount, DefaultsAnswer
<1>2. CASE d \in Decisions
  <2>1. Says(d, c) /\ Questions[d] = Groups(list)[d]
    BY <1>2, ScreenSays, NumbersOfQuestion
  <2>2. /\ Combined(d) => (d \in Excluded <=> quantity[d] = 0) /\ quantity[d] \in Nat
        /\ ~ Combined(d) =>
             /\ \A k \in DOMAIN VariantMembers(Questions[d]) : amounts[<<d, k>>] \in Nat
             /\ d \in Excluded <=>
                  \A k \in DOMAIN VariantMembers(Questions[d]) : amounts[<<d, k>>] = 0
    BY <1>2, ExcludedIs, NumbersOfQuestion
  <2> HIDE DEF c
  <2>3. d \in DOMAIN c.quantities => c.quantities[d] \in Nat \ {0}
    BY <2>1, <2>2 DEF Says
  <2>4. ASSUME d \notin c.excluded, IsDifferent(d, Questions[d], c)
        PROVE  /\ \A k \in DOMAIN VariantMembers(Questions[d]) :
                    Amount(d, Questions[d], c, k) \in Nat
               /\ \E k \in DOMAIN VariantMembers(Questions[d]) :
                    Amount(d, Questions[d], c, k) > 0
    <3>1. d \notin Excluded /\ ~ Combined(d)
      BY <2>1, <2>4 DEF Says
    <3>2. \A k \in DOMAIN VariantMembers(Questions[d]) :
            /\ Amount(d, Questions[d], c, k) = amounts[<<d, k>>]
            /\ amounts[<<d, k>>] \in Nat
      BY <2>1, <2>2, <3>1 DEF Says
    <3>3. \E k \in DOMAIN VariantMembers(Questions[d]) : amounts[<<d, k>>] # 0
      BY <2>2, <3>1
    <3>4. PICK k \in DOMAIN VariantMembers(Questions[d]) : amounts[<<d, k>>] # 0
      BY <3>3
    <3>5. Amount(d, Questions[d], c, k) > 0
      BY <3>2, <3>4
    <3> QED
      BY <3>2, <3>5
  <2> QED
    BY <2>1, <2>3, <2>4 DEF Answered, c
<1> QED
  BY <1>1, <1>2

\* What was made of the list stands for it.
LEMMA ExtractedStandsFor ==
  ASSUME ControlsInv, MergedInv PROVE StandsFor(extracted, list)
<1>1. IsList(list)
  BY QuestionsAre DEF ControlsInv
<1>2. AllAnswered(list, NoChoices)
  <2>1. list \in Seq(RowsIn(list)) /\ \A i \in DOMAIN list : IsRow(list[i])
    BY <1>1, GroupsOfList DEF IsList
  <2> QED
    BY <2>1, NoChoicesAnswer
<1>3. StandsFor(Consolidated(list, NoChoices), list)
  BY <1>1, <1>2, ConsolidatedStandsFor
<1>4. StandsFor(Consolidated(list, ScreenChoices), list)
  BY <1>1, ScreenAnswers, ConsolidatedStandsFor
<1> QED
  BY <1>3, <1>4 DEF MergedInv

\* What was confirmed: the requirements that are left in, and the added rows.
LEMMA ConfirmedAre ==
  ASSUME IInv
  PROVE  LET kept == {r \in extracted : ~ r.removed} IN
         /\ ConfirmedRows \in Seq(RowsIn(ConfirmedRows))
         /\ \A i \in DOMAIN ConfirmedRows : IsRow(ConfirmedRows[i])
         /\ RowsIn(ConfirmedRows) = kept \cup RowsIn(added)
<1> DEFINE kept == {r \in extracted : ~ r.removed}
           front == ById(kept)
<1>1. StandsFor(extracted, list)
  BY ExtractedStandsFor DEF IInv
<1>2. IsFiniteSet(kept) /\ \A r \in kept : IsRow(r)
  <2>1. kept \subseteq extracted
    OBVIOUS
  <2> QED
    BY <1>1, <2>1, FS_Subset DEF StandsFor
<1>3. Enumerates(front, kept)
  <2>1. /\ \A r \in kept : r.req[1] \in Nat /\ Last(r.req) \in Nat
        /\ \A r, q \in kept : r.req[1] = q.req[1] /\ Last(r.req) = Last(q.req) => r = q
    BY <1>1 DEF StandsFor
  <2> HIDE DEF kept
  <2> QED
    BY <1>2, <2>1, ByIdIs
<1>4. ConfirmedRows = front \o added
  BY DEF ConfirmedRows
<1>5. added \in Seq(AddedRows) /\ \A r \in AddedRows : IsRow(r)
  <2>1. \A row \in Added : IsRow(row)
    BY RowsAndNumbers
  <2>2. ASSUME NEW row \in Added, NEW n \in Nat PROVE IsRow(AddedAs(row, n))
    BY <2>1 DEF AddedAs, IsRow, Fields
  <2> QED
    BY <2>2 DEF AddedRows, IInv, AddedInv
<1> HIDE DEF front, kept
<1>6. front \in Seq(kept) /\ \A r \in kept : \E k \in DOMAIN front : front[k] = r
  BY <1>3 DEF Enumerates
<1> DEFINE rows == front \o added
<1>7. /\ Len(front) \in Nat /\ DOMAIN front = 1..Len(front)
      /\ Len(added) \in Nat /\ DOMAIN added = 1..Len(added)
      /\ rows \in Seq(kept \cup AddedRows) /\ DOMAIN rows = 1..(Len(front) + Len(added))
      /\ \A i \in DOMAIN front : rows[i] = front[i]
      /\ \A i \in DOMAIN added : rows[Len(front) + i] = added[i]
  BY <1>5, <1>6
<1>8. \A i \in DOMAIN rows : IsRow(rows[i])
  <2>1. \A i \in DOMAIN rows : rows[i] \in kept \cup AddedRows
    <3> HIDE DEF rows
    <3> QED
      BY <1>7
  <2> QED
    BY <1>2, <1>5, <2>1
<1>9. rows \in Seq(RowsIn(rows))
  <2> HIDE DEF rows
  <2>1. rows \in Seq(kept \cup AddedRows)
    BY <1>7
  <2>2. \A i \in DOMAIN rows : rows[i] \in RowsIn(rows)
    BY DEF RowsIn
  <2> QED
    BY <2>1, <2>2
<1>10. RowsIn(rows) = kept \cup RowsIn(added)
  <2> HIDE DEF rows
  <2>1. ASSUME NEW i \in DOMAIN rows PROVE rows[i] \in kept \cup RowsIn(added)
    <3>1. CASE i \in DOMAIN front
      BY <1>6, <1>7, <3>1
    <3>2. CASE i \notin DOMAIN front
      <4>1. i - Len(front) \in DOMAIN added /\ i = Len(front) + (i - Len(front))
        BY <1>7, <3>2
      <4> QED
        BY <1>7, <4>1 DEF RowsIn
    <3> QED
      BY <3>1, <3>2
  <2>2. ASSUME NEW r \in kept PROVE \E i \in DOMAIN rows : rows[i] = r
    <3>1. PICK k \in DOMAIN front : front[k] = r
      BY <1>6
    <3>2. k \in DOMAIN rows /\ rows[k] = front[k]
      BY <1>7
    <3> QED
      BY <3>1, <3>2
  <2>3. ASSUME NEW i \in DOMAIN added PROVE \E j \in DOMAIN rows : rows[j] = added[i]
    <3>1. Len(front) + i \in DOMAIN rows
      BY <1>7
    <3> QED
      BY <1>7, <3>1
  <2> QED
    BY <2>1, <2>2, <2>3 DEF RowsIn
<1> HIDE DEF rows
<1> QED
  BY <1>4, <1>8, <1>9, <1>10 DEF rows, kept

-----------------------------------------------------------------------------
(* The invariant is inductive *)

LEMMA InitControls == Init => ControlsInv
<1> SUFFICES ASSUME Init PROVE ControlsInv
  OBVIOUS
<1> DEFINE v == Drawn(Questions, Blank)
<1>1. list \in Lists \cup Replacements /\ touches = 0 /\ readings = 0
  BY DEF Init
<1>2. \A d \in DOMAIN Questions : RowsOnly(Questions[d])
  BY <1>1, QuestionsAre DEF Questions
<1>3. Sound(Blank) /\ Unconfirmed(Questions, Blank) /\ Untouched(Questions, Blank)
  <2>1. /\ DOMAIN Blank.identity = {} /\ DOMAIN Blank.facts = {} /\ DOMAIN Blank.quantity = {}
        /\ DOMAIN Blank.amounts = {} /\ Blank.confirmed = {}
    BY DEF Blank
  <2> QED
    BY <2>1 DEF Sound, Unconfirmed, Untouched
<1>4. DrawnFor(Questions, Blank, v)
  <2> DEFINE Q == Questions
  <2> HIDE DEF Q
  <2>1. DrawnFor(Q, Blank, Drawn(Q, Blank))
    BY <1>2, <1>3, ValuesAre, DrawnIs DEF Q
  <2> QED
    BY <2>1 DEF Q
<1>5. /\ identity = v.identity /\ facts = v.facts /\ quantity = v.quantity
      /\ amounts = v.amounts /\ confirmed = v.confirmed
  BY DEF Init
<1> HIDE DEF v
<1>6. Sound(Values)
  BY <1>4, <1>5 DEF DrawnFor, Sound, Values
<1>7. Complete(Questions, Values)
  BY <1>4, <1>5 DEF DrawnFor, Complete, Values
<1>8. Unconfirmed(Questions, Values)
  BY <1>3, <1>4, <1>5 DEF DrawnFor, Unconfirmed, Values
<1>9. Untouched(Questions, Values)
  BY <1>3, <1>4, <1>5 DEF DrawnFor, Untouched, Values
<1> QED
  BY <1>1, <1>6, <1>7, <1>8, <1>9 DEF ControlsInv

LEMMA InitInv == Init => IInv
<1> SUFFICES ASSUME Init PROVE IInv
  OBVIOUS
<1>1. MergedInv
  BY DEF Init, MergedInv
<1>2. AddedInv
  BY DEF Init, AddedInv
<1> QED
  BY <1>1, <1>2, InitControls DEF IInv

LEMMA ReadAgainControls ==
  ASSUME ControlsInv, NEW l \in Replacements, ReadAgain(l) PROVE ControlsInv'
<1> DEFINE Q == GroupsOfLists[l]
           v == Drawn(Q, Values)
<1>1. \A d \in DOMAIN Q : RowsOnly(Q[d])
  BY QuestionsAre
<1>2. Sound(Values)
  BY DEF ControlsInv
<1> HIDE DEF Q
<1>3. DrawnFor(Q, Values, v)
  BY <1>1, <1>2, ValuesAre, DrawnIs
<1>4. /\ identity' = v.identity /\ facts' = v.facts /\ quantity' = v.quantity
      /\ amounts' = v.amounts /\ confirmed' = v.confirmed
      /\ list' = l /\ readings' = readings + 1 /\ touches' = 0 /\ Questions' = Q
  BY DEF ReadAgain, SetControls, Questions, Q
<1> HIDE DEF v
<1>5. Sound(Values)'
  BY <1>3, <1>4 DEF DrawnFor, Sound, Values
<1>6. Complete(Questions, Values)'
  BY <1>3, <1>4 DEF DrawnFor, Complete, Values
<1>7. readings \in Nat /\ l \in Lists \cup Replacements
  BY DEF ControlsInv
<1> QED
  BY <1>4, <1>5, <1>6, <1>7 DEF ControlsInv

\* What is sent depends on the list and the controls only.
LEMMA SameScreen ==
  ASSUME UNCHANGED <<list, controls>>
  PROVE  /\ Questions' = Questions /\ Values' = Values
         /\ ScreenChoices' = ScreenChoices /\ Sending' = Sending
<1>1. /\ list' = list /\ identity' = identity /\ facts' = facts /\ choice' = choice
      /\ quantity' = quantity /\ amounts' = amounts /\ boxes' = boxes
      /\ confirmed' = confirmed
  BY DEF controls
<1>2. Questions' = Questions /\ Values' = Values /\ Decisions' = Decisions
  BY <1>1 DEF Questions, Values, Decisions
<1>3. Excluded' = Excluded
  BY <1>1, <1>2 DEF Excluded, Numbers, Combined, Variants
<1>4. ConfirmedNumbers' = ConfirmedNumbers
  BY <1>1, <1>2, <1>3 DEF ConfirmedNumbers, Combined
<1>5. VariantNumbers' = VariantNumbers
  BY <1>1, <1>2, <1>3 DEF VariantNumbers, Combined, Variants
<1>6. ScreenChoices' = ScreenChoices
  BY <1>1, <1>2, <1>3, <1>4, <1>5 DEF ScreenChoices
<1>7. Sending' = Sending
  BY <1>1, <1>2 DEF Sending, Shown, Combined
<1> QED
  BY <1>2, <1>6, <1>7

LEMMA SameControls ==
  ASSUME ControlsInv, UNCHANGED <<list, controls, touches, readings>> PROVE ControlsInv'
<1>1. Questions' = Questions /\ Values' = Values
  BY SameScreen
<1> QED
  BY <1>1 DEF ControlsInv, Sound, Complete, Unconfirmed, Untouched

LEMMA StepInv == IInv /\ [Next]_vars => IInv'
<1> SUFFICES ASSUME IInv, [Next]_vars PROVE IInv'
  OBVIOUS
<1> USE DEF IInv
<1>1. ASSUME NEW l \in Replacements, ReadAgain(l) PROVE IInv'
  <2>1. ControlsInv'
    BY <1>1, ReadAgainControls
  <2>2. MergedInv'
    BY <1>1 DEF ReadAgain, MergedInv
  <2>3. AddedInv'
    BY <1>1 DEF ReadAgain, AddedInv
  <2> QED
    BY <2>1, <2>2, <2>3
<1>2. ASSUME UseControls PROVE IInv'
  <2>1. PICK d \in Decisions :
          \/ PickIdentity(d)
          \/ \E label \in QuickChoices(Questions[d]) : PickQuantity(d, label)
          \/ \E n \in Entered : EnterQuantity(d, n)
          \/ \E v \in Variants(d), n \in Entered : EnterAmount(v, n)
          \/ TickBox(d)
    BY <1>2 DEF UseControls
  <2>2. ControlsInv'
    BY <2>1, PickIdentityKeeps, PickQuantityKeeps, EnterQuantityKeeps, EnterAmountKeeps,
       TickBoxKeeps
  <2>3. ~ resolved /\ UNCHANGED <<list, extracted, resolved, added, planned, sent>>
    BY <2>1 DEF PickIdentity, PickQuantity, EnterQuantity, EnterAmount, TickBox, Touch
  <2>4. MergedInv'
    BY <2>3 DEF MergedInv, ConfirmedRows
  <2>5. AddedInv'
    BY <2>3 DEF AddedInv
  <2> QED
    BY <2>2, <2>4, <2>5
<1>3. ASSUME Continue PROVE IInv'
  <2>1. UNCHANGED <<list, controls, touches, readings>> /\ added' = added
    BY <1>3 DEF Continue
  <2>2. ControlsInv'
    BY <2>1, SameControls
  <2>3. /\ extracted' = Consolidated(list, ScreenChoices) /\ resolved' /\ sent' = Sending
        /\ planned' = None /\ list' = list
    BY <1>3 DEF Continue, Sending
  <2>4. ScreenChoices' = ScreenChoices /\ Sending' = Sending
    BY <2>1, SameScreen
  <2>5. MergedInv'
    BY <2>3, <2>4 DEF MergedInv
  <2>6. AddedInv'
    BY <2>1 DEF AddedInv
  <2> QED
    BY <2>2, <2>5, <2>6
<1>4. ASSUME NEW row \in Added, AddItem(row) PROVE IInv'
  <2>1. UNCHANGED <<list, controls, touches, readings>>
    BY <1>4 DEF AddItem
  <2>2. ControlsInv'
    BY <2>1, SameControls
  <2>3. UNCHANGED <<list, extracted, resolved, sent>> /\ planned' = None
    BY <1>4 DEF AddItem
  <2>4. ScreenChoices' = ScreenChoices /\ Sending' = Sending
    BY <2>1, SameScreen
  <2>5. MergedInv'
    BY <2>3, <2>4 DEF MergedInv
  <2>6. AddedInv'
    <3>1. added' = Append(added, AddedAs(row, 100 + Len(added)))
      BY <1>4 DEF AddItem, AddedAs
    <3>2. added \in Seq(AddedRows) /\ 100 + Len(added) \in Nat
      BY DEF AddedInv
    <3>3. AddedAs(row, 100 + Len(added)) \in AddedRows
      BY <3>2 DEF AddedRows
    <3>4. AddedRows' = AddedRows
      BY DEF AddedRows, AddedAs
    <3> HIDE DEF IInv
    <3> QED
      BY <3>1, <3>2, <3>3, <3>4 DEF AddedInv
  <2> QED
    BY <2>2, <2>5, <2>6
<1>5. ASSUME BuildPlan PROVE IInv'
  <2>1. UNCHANGED <<list, controls, touches, readings>>
    BY <1>5 DEF BuildPlan
  <2>2. ControlsInv'
    BY <2>1, SameControls
  <2>3. /\ UNCHANGED <<list, extracted, resolved, sent, added>>
        /\ planned' = Consolidated(ConfirmedRows, NoChoices)
    BY <1>5 DEF BuildPlan
  <2>4. ScreenChoices' = ScreenChoices /\ Sending' = Sending
    BY <2>1, SameScreen
  <2>5. ConfirmedRows' = ConfirmedRows
    BY <2>3 DEF ConfirmedRows
  <2>6. MergedInv'
    BY <2>3, <2>4, <2>5 DEF MergedInv
  <2>7. AddedInv'
    BY <2>3 DEF AddedInv
  <2> QED
    BY <2>2, <2>6, <2>7
<1>6. ASSUME UNCHANGED vars PROVE IInv'
  <2>1. /\ UNCHANGED <<list, controls, touches, readings>>
        /\ UNCHANGED <<list, extracted, resolved, sent, added, planned>>
    BY <1>6 DEF vars
  <2>2. ControlsInv'
    BY <2>1, SameControls
  <2>3. ScreenChoices' = ScreenChoices /\ Sending' = Sending
    BY <2>1, SameScreen
  <2>4. ConfirmedRows' = ConfirmedRows
    BY <2>1 DEF ConfirmedRows
  <2>5. MergedInv'
    BY <2>1, <2>3, <2>4 DEF MergedInv
  <2>6. AddedInv'
    BY <2>1 DEF AddedInv
  <2> QED
    BY <2>2, <2>5, <2>6
<1> QED
  BY <1>1, <1>2, <1>3, <1>4, <1>5, <1>6 DEF Next

\* What the controls hold and what was made of the list always belong together:
\* what was merged, sent and planned is of the list read last, with the choices
\* the controls still show (_render_requirement_merge of app.py).
THEOREM Invariant == Spec => []IInv
BY InitInv, StepInv, PTL DEF Spec

-----------------------------------------------------------------------------
(* No line disappears *)

\* Every line of a list is a source of a requirement, and every source of a
\* confirmed row one of a requirement that is planned (consolidate_requirements
\* of requirement_merge.py, applied to the list and to what was confirmed).
THEOREM LinesAreCarried == Spec => []EveryLineIsCarried
<1>1. IInv => EveryLineIsCarried
  <2> SUFFICES ASSUME IInv PROVE EveryLineIsCarried
    OBVIOUS
  <2>1. \A i \in DOMAIN list : \E r \in extracted : list[i].sources \subseteq r.sources
    BY ExtractedStandsFor DEF IInv, StandsFor
  <2>2. ASSUME planned # None
        PROVE  \A i \in DOMAIN ConfirmedRows :
                 \E r \in planned : ConfirmedRows[i].sources \subseteq r.sources /\ r.qty > 0
    <3>1. planned = Consolidated(ConfirmedRows, NoChoices)
      BY <2>2 DEF IInv, MergedInv
    <3> QED
      BY <3>1, ConfirmedAre, EachRowIsCarried
  <2> QED
    BY <2>1, <2>2 DEF EveryLineIsCarried
<1> QED
  BY <1>1, Invariant, PTL

-----------------------------------------------------------------------------
(* The second merge *)

\* What the parent confirmed of an item is planned as it is, unless units of
\* the item were added on Personalize (run_pipeline of pipeline.py merges the
\* confirmed rows again): two requirements of one item come of groups that
\* share a section, so that they are never put into one group.
THEOREM TheMergeIsKept == Spec => []PlanKeepsTheMerge
<1>1. IInv => PlanKeepsTheMerge
  <2> SUFFICES ASSUME IInv, planned # None,
                      NEW item \in {list[i].item : i \in DOMAIN list}
                                     \ {added[i].item : i \in DOMAIN added}
               PROVE  {r \in planned : r.item = item} =
                        {r \in extracted : r.item = item /\ ~ r.removed}
    BY DEF PlanKeepsTheMerge
  <2> DEFINE rows == ConfirmedRows
  <2>1. planned = Consolidated(rows, NoChoices)
    BY DEF IInv, MergedInv
  <2>2. /\ rows \in Seq(RowsIn(rows)) /\ \A i \in DOMAIN rows : IsRow(rows[i])
        /\ RowsIn(rows) = {r \in extracted : ~ r.removed} \cup RowsIn(added)
    BY ConfirmedAre
  <2> HIDE DEF rows
  <2>3. \A r \in RowsIn(rows) : r.item = item => r \in extracted /\ ~ r.removed
    BY <2>2 DEF RowsIn
  <2>4. \A i, j \in DOMAIN rows : rows[i].item = item /\ rows[j].item = item =>
            Origins(rows[i]) \cap Origins(rows[j]) # {}
    <3>1. \A r, q \in extracted : r.item = q.item => Origins(r) \cap Origins(q) # {}
      BY ExtractedStandsFor DEF IInv, StandsFor
    <3>2. \A i \in DOMAIN rows : rows[i] \in RowsIn(rows)
      BY DEF RowsIn
    <3> QED
      BY <2>3, <3>1, <3>2
  <2>5. {r \in planned : r.item = item} = {r \in RowsIn(rows) : r.item = item}
    BY <2>1, <2>2, <2>4, KeptApart
  <2> QED
    BY <2>2, <2>3, <2>5
<1> QED
  BY <1>1, Invariant, PTL

-----------------------------------------------------------------------------
(* The screen and what was sent *)

\* The requirements of a question are those that stand for its lines.
LEMMA MineIs ==
  ASSUME ControlsInv, extracted = Consolidated(list, ScreenChoices), NEW d \in Decisions
  PROVE  {r \in extracted : r.sources = SourcesOf(Questions[d])} =
           MergeGroup(d, Questions[d], ScreenChoices)
<1> DEFINE G == Groups(list)
           M(e) == MergeGroup(e, G[e], ScreenChoices)
<1>1. IsList(list)
  BY QuestionsAre DEF ControlsInv
<1>2. \A e \in DOMAIN G : \A r \in M(e) : r.sources = SourcesOf(G[e])
  BY <1>1, GroupsOfList, ScreenAnswers, MergedStands DEF AllAnswered, OfGroup
<1>3. extracted = UNION {M(e) : e \in DOMAIN G}
  BY DEF Consolidated, MergeGroups
<1>4. Questions[d] = G[d] /\ d \in DOMAIN G
  BY NumbersOfQuestion
<1>5. \A e \in DOMAIN G : SourcesOf(G[e]) = SourcesOf(G[d]) => e = d
  BY <1>1, <1>4, SourcesApart
<1> HIDE DEF G, M
<1>6. {r \in extracted : r.sources = SourcesOf(G[d])} = M(d)
  BY <1>2, <1>3, <1>4, <1>5
<1> QED
  BY <1>4, <1>6 DEF M

\* What MergedAs says of a question.
AsSent(number, group, numbers, same, mine) ==
  LET positive == {k \in DOMAIN numbers : numbers[k] > 0}
  IN  IF positive = {} THEN Cardinality(mine) = 1 /\ \A r \in mine : r.removed
      ELSE /\ \A r \in mine : ~ r.removed
           /\ IF same
              THEN {<<r.req, r.qty>> : r \in mine} = {<<group[1].req, number>>}
              ELSE {<<r.req, r.qty>> : r \in mine} =
                     {<<Append(group[1].req, k), numbers[k]>> : k \in positive}

\* The number of one product that is merged.
NumberOf(d) ==
  IF d \in confirmed \/ readings = 0 THEN quantity[d] ELSE DefaultQuantity(Questions[d])

LEMMA ExcludedAsSent ==
  ASSUME ControlsInv, NEW d \in Decisions, d \in Excluded, NEW same, NEW number
  PROVE  AsSent(number, Questions[d], Shown(d), same,
                 MergeGroup(d, Questions[d], ScreenChoices))
<1> DEFINE mine == MergeGroup(d, Questions[d], ScreenChoices)
           numbers == Shown(d)
<1>1. RowsOnly(Questions[d]) /\ Len(Questions[d]) # 1
  BY NumbersOfQuestion
<1>2. d \in ScreenChoices.excluded
  BY DEF ScreenChoices
<1>3. \E r : mine = {r} /\ r.removed
  BY <1>1, <1>2, MergeOfExcluded
<1>4. \A k \in DOMAIN numbers : numbers[k] = 0
  <2>1. CASE Combined(d)
    BY <2>1, ExcludedIs DEF Shown
  <2>2. CASE ~ Combined(d)
    BY <2>2, ExcludedIs DEF Shown
  <2> QED
    BY <2>1, <2>2
<1> HIDE DEF mine, numbers
<1>5. Cardinality(mine) = 1 /\ \A r \in mine : r.removed
  BY <1>3, FS_Singleton
<1>6. {k \in DOMAIN numbers : numbers[k] > 0} = {}
  BY <1>4
<1> QED
  BY <1>5, <1>6 DEF AsSent, mine, numbers

LEMMA CombinedAsSent ==
  ASSUME ControlsInv, NEW d \in Decisions, d \notin Excluded, Combined(d)
  PROVE  AsSent(NumberOf(d), Questions[d], Shown(d), TRUE,
                 MergeGroup(d, Questions[d], ScreenChoices))
<1> DEFINE c == ScreenChoices
           group == Questions[d]
           q == QuantityOf(d, group, c)
           mine == MergeGroup(d, group, c)
<1>1. /\ RowsOnly(group) /\ Len(group) # 1 /\ Asks(group) /\ ~ group[1].removed
      /\ group = Groups(list)[d] /\ d \in DOMAIN Groups(list)
  <2>1. /\ RowsOnly(group) /\ Len(group) # 1
        /\ group = Groups(list)[d] /\ d \in DOMAIN Groups(list)
    BY NumbersOfQuestion
  <2>2. Asks(Groups(list)[d])
    BY QuestionsAre DEF ControlsInv, Questions, Decisions
  <2>3. ~ Groups(list)[d][1].removed
    BY <2>1, QuestionsAre, GroupsOfList DEF ControlsInv
  <2> QED
    BY <2>1, <2>2, <2>3
<1>2. Says(d, c)
  BY ScreenSays
<1>3. quantity[d] \in Nat \ {0} /\ d \in DOMAIN quantity
  BY ExcludedIs, NumbersOfQuestion
<1>4. q = NumberOf(d)
  <2>1. CASE d \in confirmed
    BY <1>1, <1>2, <2>1 DEF Says, QuantityOf, Chosen, NumberOf
  <2>2. CASE d \notin confirmed
    <3>1. NumberOf(d) = DefaultQuantity(group)
      BY <1>3, <2>2 DEF ControlsInv, Unconfirmed, Values, Decisions, NumberOf
    <3>2. d \notin DOMAIN c.quantities
      BY <1>2, <2>2 DEF Says
    <3> HIDE DEF c, group
    <3> QED
      BY <1>1, <3>1, <3>2 DEF QuantityOf, Chosen
  <2> QED
    BY <2>1, <2>2
<1>5. Answered(d, group, c)
  BY <1>1, ScreenAnswers DEF AllAnswered
<1> HIDE DEF c, q, group
<1>6. \E r : mine = {r} /\ Sole(r, group, q) /\ ~ r.removed
  BY <1>1, <1>2, <1>5, MergeOfSame DEF Says, q, group
<1> HIDE DEF mine
<1>7. \A r \in mine : ~ r.removed
  BY <1>6
<1>8. {<<r.req, r.qty>> : r \in mine} = {<<group[1].req, q>>}
  BY <1>6 DEF Sole
<1> DEFINE numbers == Shown(d)
<1>9. DOMAIN numbers = {1} /\ numbers[1] = quantity[d]
  BY DEF Shown
<1> HIDE DEF numbers
<1>10. {k \in DOMAIN numbers : numbers[k] > 0} # {}
  BY <1>3, <1>9
<1>11. AsSent(NumberOf(d), group, numbers, TRUE, mine)
  BY <1>4, <1>7, <1>8, <1>9, <1>10 DEF AsSent
<1> QED
  BY <1>11 DEF numbers, mine, group, c

LEMMA DifferentAsSent ==
  ASSUME ControlsInv, NEW d \in Decisions, d \notin Excluded, ~ Combined(d), NEW number
  PROVE  AsSent(number, Questions[d], Shown(d), FALSE,
                 MergeGroup(d, Questions[d], ScreenChoices))
<1> DEFINE c == ScreenChoices
           group == Questions[d]
           mine == MergeGroup(d, group, c)
           numbers == Shown(d)
           K == AskedFor(d, group, c)
           V(k) == VariantRow(d, group, c, k)
<1>1. /\ RowsOnly(group) /\ Len(group) # 1
      /\ group = Groups(list)[d] /\ d \in DOMAIN Groups(list)
  BY NumbersOfQuestion
<1>2. ~ group[1].removed
  BY <1>1, QuestionsAre, GroupsOfList DEF ControlsInv
<1>3. Says(d, c) /\ Answered(d, group, c)
  BY <1>1, ScreenSays, ScreenAnswers DEF AllAnswered
<1>4. numbers = [k \in DOMAIN VariantMembers(group) |-> amounts[<<d, k>>]]
  BY DEF Shown
<1>5. \A k \in DOMAIN VariantMembers(group) : Amount(d, group, c, k) = amounts[<<d, k>>]
  BY <1>3 DEF Says
<1> HIDE DEF c, group
<1>6. SplitUp(d, group, c)
  BY <1>1, <1>3, MergeOfDifferent DEF Says, group
<1> HIDE DEF numbers
<1>7. /\ K = {k \in DOMAIN numbers : numbers[k] > 0}
      /\ \A k \in K : numbers[k] = Amount(d, group, c, k)
  BY <1>4, <1>5 DEF AskedFor
<1>8. /\ mine = {V(k) : k \in K} /\ K # {}
      /\ \A k \in K : /\ V(k).req = Append(group[1].req, k)
                      /\ V(k).qty = Amount(d, group, c, k) /\ ~ V(k).removed
  BY <1>2, <1>6 DEF SplitUp
<1> HIDE DEF mine, K, V
<1>9. \A k \in K : <<V(k).req, V(k).qty>> = <<Append(group[1].req, k), numbers[k]>>
  BY <1>7, <1>8
<1>10. {<<r.req, r.qty>> : r \in mine} = {<<Append(group[1].req, k), numbers[k]>> : k \in K}
  <2> DEFINE Is(r) == <<r.req, r.qty>>
             Named(k) == <<Append(group[1].req, k), numbers[k]>>
  <2>1. \A k \in K : Is(V(k)) = Named(k)
    BY <1>9
  <2> HIDE DEF Is, Named
  <2>2. {Is(r) : r \in mine} = {Named(k) : k \in K}
    BY <1>8, <2>1
  <2> QED
    BY <2>2 DEF Is, Named
<1>11. \A r \in mine : ~ r.removed
  BY <1>8
<1>12. AsSent(number, group, numbers, FALSE, mine)
  BY <1>7, <1>8, <1>10, <1>11 DEF AsSent
<1> QED
  BY <1>12 DEF numbers, mine, group, c

\* What the parent confirmed, and of variants what is shown, is what is merged;
\* after the first reading all that is shown is; after a later one a number
\* that nobody confirmed stands for the default of the list
\* (_render_requirement_merge of app.py, consolidate_requirements).
THEOREM ConfirmedIsMerged == Spec => []SentAsConfirmed
<1>1. IInv => SentAsConfirmed
  <2> DEFINE number(d) == IF sent[d].known \/ readings = 0 THEN sent[d].numbers[1]
                          ELSE DefaultQuantity(Questions[d])
  <2> SUFFICES ASSUME IInv, sent # None, NEW d \in Decisions
               PROVE  AsSent(number(d), Questions[d], sent[d].numbers, sent[d].identity = "same",
                             {r \in extracted : r.sources = SourcesOf(Questions[d])})
    BY DEF SentAsConfirmed, MergedAs, AsSent
  <2>1. ControlsInv /\ extracted = Consolidated(list, ScreenChoices) /\ sent = Sending
    BY DEF IInv, MergedInv
  <2>2. /\ sent[d].numbers = Shown(d) /\ sent[d].identity = identity[d]
        /\ sent[d].known = (d \in confirmed)
    BY <2>1 DEF Sending
  <2>3. {r \in extracted : r.sources = SourcesOf(Questions[d])} =
          MergeGroup(d, Questions[d], ScreenChoices)
    BY <2>1, MineIs
  <2>4. (sent[d].identity = "same") = Combined(d)
    BY <2>2 DEF Combined
  <2>5. Combined(d) => number(d) = NumberOf(d)
    <3> SUFFICES ASSUME Combined(d) PROVE number(d) = NumberOf(d)
      OBVIOUS
    <3>1. sent[d].numbers[1] = quantity[d]
      BY <2>2 DEF Shown
    <3>2. sent[d].known <=> d \in confirmed
      BY <2>2
    <3> QED
      BY <3>1, <3>2 DEF NumberOf
  <2> HIDE DEF number
  <2>6. AsSent(number(d), Questions[d], Shown(d), Combined(d),
               MergeGroup(d, Questions[d], ScreenChoices))
    <3>1. CASE d \in Excluded
      BY <2>1, <3>1, ExcludedAsSent
    <3>2. CASE d \notin Excluded /\ Combined(d)
      <4>1. Combined(d) = TRUE
        BY <3>2 DEF Combined
      <4>2. AsSent(NumberOf(d), Questions[d], Shown(d), TRUE,
                   MergeGroup(d, Questions[d], ScreenChoices))
        BY <2>1, <3>2, CombinedAsSent
      <4> QED
        BY <2>5, <3>2, <4>1, <4>2
    <3>3. CASE d \notin Excluded /\ ~ Combined(d)
      <4>1. Combined(d) = FALSE
        BY <3>3 DEF Combined
      <4>2. AsSent(number(d), Questions[d], Shown(d), FALSE,
                   MergeGroup(d, Questions[d], ScreenChoices))
        BY <2>1, <3>3, DifferentAsSent
      <4> QED
        BY <4>1, <4>2
    <3> QED
      BY <3>1, <3>2, <3>3
  <2> QED
    BY <2>2, <2>3, <2>4, <2>6
<1> QED
  BY <1>1, Invariant, PTL

-----------------------------------------------------------------------------
(* As long as nothing is changed, no section of a list gets less *)

\* The controls, as they are first drawn, send what is asked for by default.
LEMMA UntouchedIsDefault ==
  ASSUME ControlsInv, Untouched(Questions, Values), NEW d \in DOMAIN Groups(list)
  PROVE  ByDefault(d, Groups(list)[d], ScreenChoices)
<1> DEFINE c == ScreenChoices
           group == Groups(list)[d]
<1>1. CASE d \notin Decisions
  BY <1>1, NotAsked
<1>2. CASE d \in Decisions
  <2>1. Says(d, c) /\ Questions[d] = group /\ RowsOnly(group)
    BY <1>2, ScreenSays, NumbersOfQuestion
  <2>2. /\ DefaultQuantity(group) \in Nat \ {0}
        /\ \E n \in Nat \ {0} : DOMAIN VariantMembers(group) = 1..n
        /\ \A k \in DOMAIN VariantMembers(group) :
             VariantQuantity(VariantMembers(group)[k]) \in Nat \ {0}
    BY <2>1, DefaultsAreNumbers
  <2>3. d \notin confirmed
    BY DEF Untouched, Values
  <2>4. d \notin DOMAIN c.quantities
    BY <2>1, <2>3 DEF Says
  <2>5. CASE Combined(d)
    <3>1. quantity[d] = DefaultQuantity(group)
      BY <1>2, <2>1, <2>5, NumbersOfQuestion DEF Untouched, Values, Decisions
    <3>2. d \notin Excluded
      BY <1>2, <2>2, <2>5, <3>1, ExcludedIs
    <3>3. d \notin c.excluded
      BY <2>1, <3>2 DEF Says
    <3>4. \A k : <<d, k>> \notin DOMAIN c.amounts
      BY <2>5 DEF ScreenChoices, VariantNumbers, Variants
    <3> HIDE DEF c
    <3> QED
      BY <2>4, <3>3, <3>4, NoAnswerIsDefault DEF c
  <2>6. CASE ~ Combined(d)
    <3> DEFINE ms == VariantMembers(group)
    <3>1. \A k \in DOMAIN ms : amounts[<<d, k>>] = VariantQuantity(ms[k])
      <4>1. VariantsIn(Questions, d) \subseteq DOMAIN amounts
        BY <1>2, <2>6 DEF ControlsInv, Complete, Values, Decisions, Combined
      <4>2. \A k \in DOMAIN ms : <<d, k>> \in DOMAIN amounts
        BY <2>1, <4>1 DEF VariantsIn
      <4> QED
        BY <1>2, <2>1, <4>2 DEF Untouched, Values, Decisions
    <3>2. PICK n \in Nat \ {0} : DOMAIN ms = 1..n
      BY <2>2
    <3>3. 1 \in DOMAIN ms
      BY <3>2
    <3>4. \A k \in DOMAIN ms : VariantQuantity(ms[k]) # 0
      BY <2>2
    <3>5. d \notin Excluded
      BY <1>2, <2>1, <2>6, <3>1, <3>3, <3>4, ExcludedIs
    <3> HIDE DEF c
    <3>6. d \notin c.excluded /\ \A k \in DOMAIN ms : Amount(d, group, c, k) = amounts[<<d, k>>]
      BY <2>1, <2>6, <3>5 DEF Says
    <3> QED
      BY <2>4, <3>1, <3>6 DEF ByDefault, c
  <2> QED
    BY <2>5, <2>6
<1> QED
  BY <1>1, <1>2

\* Rows of one section are in groups of their own, and each group asks for no
\* less than any of its rows does.
LEMMA SectionsAreServed ==
  ASSUME NEW rows, IsList(rows), NEW choices,
         \A d \in DOMAIN Groups(rows) : ByDefault(d, Groups(rows)[d], choices),
         NEW item, NEW section
  PROVE  UnitsOf({rows[i] : i \in {j \in DOMAIN rows : Origins(rows[j]) = {section}}}, item)
           <= UnitsOf(Consolidated(rows, choices), item)
<1> DEFINE G == Groups(rows)
           M(d) == MergeGroup(d, G[d], choices)
           C == Consolidated(rows, choices)
           R == {rows[i] : i \in {j \in DOMAIN rows : Origins(rows[j]) = {section}}}
           S == {r \in R : r.item = item}
           T == {r \in C : r.item = item}
           f == [r \in R |-> r.qty]
           g == [r \in C |-> r.qty]
           Holds(x, r) == \E d \in DOMAIN G : /\ \E i \in DOMAIN G[d] : G[d][i] = x
                                             /\ r \in M(d) /\ x.qty <= r.qty
           m == [x \in S |-> CHOOSE r \in T : Holds(x, r)]
<1>1. /\ rows \in Seq(RowsIn(rows)) /\ Grouped(rows, DOMAIN rows, G)
      /\ \A d \in DOMAIN G : RowsOnly(G[d])
  BY GroupsOfList
<1>2. \A d \in DOMAIN G : Answered(d, G[d], choices)
  BY <1>1, RowsCount, DefaultsAnswer
<1>3. \A d \in DOMAIN G : \A r \in M(d) : OfGroup(r, G[d])
  BY <1>1, <1>2, MergedStands
<1>4. C = UNION {M(d) : d \in DOMAIN G}
  BY DEF Consolidated, MergeGroups
<1>5. StandsFor(C, rows)
  BY <1>2, ConsolidatedStandsFor DEF AllAnswered
<1>6. \A d, e \in DOMAIN G : SourcesOf(G[d]) = SourcesOf(G[e]) => d = e
  BY SourcesApart
<1>7. \A d \in DOMAIN G : \A i \in DOMAIN G[d] :
        \E r \in M(d) : G[d][i].qty <= r.qty
  BY <1>1, NoRowGetsLess
<1>8. \A x \in R : Origins(x) = {section} /\ x \in RowsIn(rows) /\ IsRow(x)
  BY DEF RowsIn, IsList
<1>9. IsFiniteSet(S) /\ \A x \in S : f[x] = x.qty /\ f[x] \in Nat
  <2>1. IsFiniteSet(RowsIn(rows))
    <3>1. IsFiniteSet(DOMAIN rows)
      <4>1. Len(rows) \in Nat /\ DOMAIN rows = 1..Len(rows)
        BY <1>1
      <4> QED
        BY <4>1, FS_Interval
    <3> QED
      BY <3>1, ImageIsFinite DEF RowsIn
  <2>2. S \subseteq RowsIn(rows)
    BY <1>8
  <2>3. \A x \in S : f[x] = x.qty /\ f[x] \in Nat
    BY <1>8 DEF IsRow
  <2> HIDE DEF S
  <2> QED
    BY <2>1, <2>2, <2>3, FS_Subset
<1>10. IsFiniteSet(T) /\ \A r \in T : g[r] = r.qty /\ g[r] \in Nat
  <2>1. IsFiniteSet(C) /\ T \subseteq C /\ \A r \in C : r.qty \in Nat
    BY <1>5 DEF StandsFor, IsRow
  <2>2. \A r \in T : g[r] = r.qty /\ g[r] \in Nat
    BY <2>1
  <2> HIDE DEF T
  <2> QED
    BY <2>1, <2>2, FS_Subset
<1> HIDE DEF G, M, C, R
<1>11. ASSUME NEW x \in S PROVE \E r \in T : Holds(x, r)
  <2>1. PICK n \in DOMAIN rows : x = rows[n]
    BY <1>8 DEF RowsIn
  <2>2. PICK d \in DOMAIN G : \E i \in DOMAIN G[d] : G[d][i] = x
    BY <1>1, <2>1 DEF Grouped, HoldsAll
  <2>3. PICK i \in DOMAIN G[d] : G[d][i] = x
    BY <2>2
  <2>4. PICK r \in M(d) : x.qty <= r.qty
    BY <1>7, <2>3
  <2>5. G[d][1].item = d[1] /\ x.item = d[1]
    <3>1. 1 \in DOMAIN G[d]
      BY <1>1 DEF RowsOnly
    <3> QED
      BY <1>1, <2>3, <3>1 DEF Grouped, HoldsItsRows
  <2>6. r \in T
    BY <1>3, <1>4, <2>4, <2>5 DEF OfGroup
  <2> QED
    BY <2>3, <2>4, <2>6
<1>12. \A x \in S : m[x] \in T /\ Holds(x, m[x])
  <2> SUFFICES ASSUME NEW x \in S PROVE m[x] \in T /\ Holds(x, m[x])
    OBVIOUS
  <2>1. \E r \in T : Holds(x, r)
    BY <1>11
  <2>2. m[x] = CHOOSE r \in T : Holds(x, r)
    OBVIOUS
  <2> HIDE DEF m, S, T, Holds
  <2> QED
    BY <2>1, <2>2
<1>13. ASSUME NEW x \in S, NEW y \in S, m[x] = m[y] PROVE x = y
  <2> DEFINE r == m[x]
  <2>1. Holds(x, r) /\ Holds(y, r)
    BY <1>12, <1>13
  <2> HIDE DEF r
  <2>2. PICK d \in DOMAIN G : \E i \in DOMAIN G[d] : G[d][i] = x /\ r \in M(d)
    BY <2>1
  <2>3. PICK e \in DOMAIN G : \E j \in DOMAIN G[e] : G[e][j] = y /\ r \in M(e)
    BY <2>1
  <2>4. d = e
    BY <1>3, <1>6, <2>2, <2>3 DEF OfGroup
  <2>5. PICK i \in DOMAIN G[d] : G[d][i] = x
    BY <2>2
  <2>6. PICK j \in DOMAIN G[d] : G[d][j] = y
    BY <2>3, <2>4
  <2>7. Origins(x) = {section} /\ Origins(y) = {section}
    BY <1>8
  <2>8. i = j
    BY <1>1, <2>5, <2>6, <2>7 DEF Grouped, OneOfEachSection
  <2> QED
    BY <2>5, <2>6, <2>8
<1>14. m \in [S -> T] /\ \A x \in S : f[x] <= g[m[x]]
  <2>1. m \in [S -> T]
    BY <1>12
  <2>2. \A x \in S : x.qty <= m[x].qty
    BY <1>12
  <2> QED
    BY <1>9, <1>10, <1>12, <2>1, <2>2
<1>15. SumFunctionOnSet(f, S) <= SumFunctionOnSet(g, T)
  <2>1. (\A x \in S : f[x] \in Nat) /\ (\A r \in T : g[r] \in Nat)
    BY <1>9, <1>10
  <2>2. IsFiniteSet(S) /\ IsFiniteSet(T)
    BY <1>9, <1>10
  <2> HIDE DEF f, g, m, S, T
  <2> QED
    BY <1>13, <1>14, <2>1, <2>2, SumNoLess
<1> QED
  BY <1>15 DEF UnitsOf, C, R

\* As long as the parent has changed nothing, no section of a list is asked to
\* do with less of an item than it names (_section_scoped_groups,
\* requirement_quantity_default of requirement_merge.py).
THEOREM SectionsGetTheirShare == Spec => []NoSectionGetsLess
<1>1. IInv => NoSectionGetsLess
  <2> SUFFICES ASSUME IInv, touches = 0, readings = 0,
                      NEW item, NEW section
               PROVE  UnitsOf({list[i] : i \in {j \in DOMAIN list : Origins(list[j]) = {section}}},
                              item)
                        <= UnitsOf(extracted, item)
    BY DEF NoSectionGetsLess
  <2>1. ControlsInv /\ Untouched(Questions, Values)
    BY DEF IInv, ControlsInv
  <2>2. IsList(list)
    BY <2>1, QuestionsAre DEF ControlsInv
  <2>3. \A d \in DOMAIN Groups(list) : ByDefault(d, Groups(list)[d], NoChoices)
    BY NoAnswerIsDefault DEF NoChoices
  <2>4. \A d \in DOMAIN Groups(list) : ByDefault(d, Groups(list)[d], ScreenChoices)
    BY <2>1, UntouchedIsDefault
  <2>5. CASE extracted = Consolidated(list, NoChoices)
    BY <2>2, <2>3, <2>5, SectionsAreServed
  <2>6. CASE extracted = Consolidated(list, ScreenChoices)
    BY <2>2, <2>4, <2>6, SectionsAreServed
  <2> QED
    BY <2>5, <2>6 DEF IInv, MergedInv
<1> QED
  BY <1>1, Invariant, PTL
===============================================================================
