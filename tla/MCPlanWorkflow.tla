--------------------------- MODULE MCPlanWorkflow ---------------------------
(* Instances of PlanWorkflow for TLC: two or three needs and their products. *)
EXTENDS PlanWorkflow, TLC

CONSTANTS n1, n2, n3, a, b, c, d

TwoNeeds == {n1, n2}
ThreeNeeds == {n1, n2, n3}
FourSkus == {a, b, c, d}
ThreeSkus == {a, b, c}

Position == Restrict(n1 :> 1 @@ n2 :> 2 @@ n3 :> 3, Need)
Rank == Restrict(a :> 1 @@ b :> 2 @@ c :> 3 @@ d :> 4, Sku)

\* n1 and n2 ask for the same item; a and b will do for n1, b and c for n2.
Items == Restrict(n1 :> "pencils" @@ n2 :> "pencils" @@ n3 :> "glue", Need)
Suitable == Restrict(n1 :> {a, b} @@ n2 :> {b, c} @@ n3 :> {d}, Need)
Different == {<<n1, a>>, <<n2, b>>}
NoneDiffers == {}

\* The same, as items that are not bought together.
Apart == [n \in Need |-> n]

\* a is the cheapest for n1; b and c cost the same.
Prices == 1..3
Opening == Restrict(a :> 1 @@ b :> 2 @@ c :> 2 @@ d :> 1, Sku)

Family == {"family"}
ByFamily == [n \in Need |-> "family"]
Tight == [p \in Payer |-> 2]
Tighter == [p \in Payer |-> 1]
Enough == [p \in Payer |-> 4]
Ample == [p \in Payer |-> 5]

Children == {"ann", "bob"}
ByChild == Restrict(n1 :> "ann" @@ n2 :> "bob" @@ n3 :> "ann", Need)

\* One optional item, or none.
OneExtra == {"erasers"}
NoExtra == {}
ExtraSku == [x \in AddOn |-> d]
ExtraOrder == [x \in AddOn |-> 1]

NoSku == {}
FarSkus == {b}
Whole == {Need}
AnyCart == (SUBSET Need) \ {{}}
=============================================================================
