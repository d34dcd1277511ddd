----------------------------- MODULE MCMatching -----------------------------
(* Two students and a class of three, three items, at most three needs.     *)
EXTENDS Matching

Categories == {"crayons", "composition_notebooks", "notebook_paper"}
PackCounts == ("crayons" :> 24) @@ ("composition_notebooks" :> 3)
ContainerCounts == "notebook_paper" :> 150
Paper == {"notebook_paper"}
Implies == "composition_notebooks" :> {"spiral"}

Line(id, child, item, quantity, unit, attributes) ==
  [id |-> id, child |-> child, item |-> item, quantity |-> quantity, unit |-> unit,
   brand |-> None, exclusions |-> {}, required |-> TRUE, purchasable |-> TRUE,
   scope |-> IF child = "class" THEN "individual" ELSE "unspecified",
   low |-> FALSE, attributes |-> attributes, variant |-> None]

Crayons(id, child) == Line(id, child, "crayons", 2, "pack", <<>>)
Stated(id, child)  == Line(id, child, "crayons", 2, "box", "count" :> 20)
Notebook(id, child) == Line(id, child, "composition_notebooks", 1, "each", <<>>)
Red(id, child) ==
  Line(id, child, "composition_notebooks", 1, "each", "acceptable_colors" :> <<"red", "blue">>)
Sheets(id, child) == Line(id, child, "notebook_paper", 1, "ream", "ruling" :> {"wide-ruled"})
NoSpiral(l) == [l EXCEPT !.exclusions = {{"no", "spiral"}}]
NoGlitter(l) == [l EXCEPT !.exclusions = {{"no", "glitter"}}]
Branded(l) == [l EXCEPT !.brand = "crayola"]
Shared(l) == [l EXCEPT !.scope = "shared"]
Optional(l) == [l EXCEPT !.required = FALSE]

SomeLists ==
  {<<Crayons(1, "ann"), Crayons(2, "bob"), Notebook(3, "ann"), NoSpiral(Notebook(4, "bob"))>>,
   <<Crayons(1, "ann"), NoGlitter(Crayons(2, "ann")), Optional(Red(3, "bob"))>>,
   <<Branded(Crayons(1, "ann")), Stated(2, "bob"), Red(3, "bob")>>,
   <<Crayons(1, "class"), Shared(Crayons(2, "class")), Sheets(3, "ann")>>,
   <<[Notebook(1, "class") EXCEPT !.scope = "unspecified"]>>,
   <<Red(1, "ann"), Sheets(2, "bob"), Shared(Sheets(3, "class"))>>,
   <<Optional(Crayons(1, "ann"))>>}

Students == ("ann" :> 1) @@ ("bob" :> 1) @@ ("class" :> 3)

Product(store, category, brand, pack, words, values) ==
  [sku |-> <<store, category, brand, pack, words>>, store |-> store, category |-> category,
   brand |-> brand, stock |-> 1, pack |-> pack, words |-> words, values |-> values,
   contents |-> IF category = "notebook_paper" THEN 150 ELSE 1]

Catalog ==
  <<Product(1, "crayons", "crayola", 24, {"glitter"}, <<>>),
    Product(1, "crayons", "plain", 19, {}, <<>>),
    Product(2, "composition_notebooks", "plain", 1, {"spiral"}, "acceptable_colors" :> {"red"}),
    Product(2, "composition_notebooks", "plain", 1, {}, <<>>),
    Product(1, "notebook_paper", "plain", 1, {}, "ruling" :> {{"wide-ruled"}}),
    Product(2, "notebook_paper", "plain", 1, {}, "ruling" :> {{"college-ruled"}}),
    Product(3, "crayons", "far", 24, {}, <<>>),
    [Product(1, "composition_notebooks", "gone", 1, {}, <<>>) EXCEPT !.stock = 0]>>

Shops ==
  [s \in 1..3 |-> [distance |-> IF s = 3 THEN 9 ELSE 1, pickup |-> TRUE]]

Session == [allowed |-> None, radius |-> 5, preference |-> "pickup"]
=============================================================================
