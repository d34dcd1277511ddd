-------------------------- MODULE RequirementMerge --------------------------
(***************************************************************************)
(* Repeated items of one student's list (agent/requirement_merge.py): the  *)
(* rows that name one item are put into groups, what the rows of a group   *)
(* say is reconciled, and a group whose rows disagree becomes a question   *)
(* with a default.                                                         *)
(*                                                                         *)
(* A row is a requirement: its id, its item (which stands for all of       *)
(* REQUIREMENT_ITEM_IDENTITY_FIELDS: the student, the kind, the scope, the *)
(* item, the unit and the condition), its quantity, the sources it stands  *)
(* for, one product-defining attribute (detail), one descriptor that may   *)
(* be a product difference (ambiguous), what is left of its wording once   *)
(* the known words are taken out (words), its brand, and whether the       *)
(* parent took it out of the cart.  A source is a line of the list with    *)
(* the document section it is from, its origin.  Rows that are not bought  *)
(* pass unchanged and are left out; so are exclusions (which are united),  *)
(* incidental attributes (of which the first is kept) and the notes about  *)
(* what was reconciled.                                                    *)
(***************************************************************************)
EXTENDS Naturals, Sequences, FiniteSets, SequencesExt, FiniteSetsExt

CONSTANTS None,
          SingleInstance,   \* SINGLE_INSTANCE_REQUIREMENT_ITEMS
          PlausibleMaximum  \* PLAUSIBLE_ANNUAL_MAXIMUM_BY_ITEM

(***************************************************************************)
(* Rows, and the lists they are read as: each row has an id of its own and *)
(* stands for lines of its own, of which it asks for one unit or more      *)
(* (Requirement of agent/schema.py, requirement_source).                   *)
(***************************************************************************)
Fields == {"req", "item", "qty", "sources", "detail", "ambiguous", "words", "brand", "removed"}

IsRow(r) == r = [f \in Fields |-> r[f]] /\ r.qty \in Nat \ {0}

IsList(rows) ==
    /\ rows \in Seq({rows[i] : i \in DOMAIN rows})
    /\ \A i \in DOMAIN rows :
           /\ IsRow(rows[i]) /\ ~ rows[i].removed /\ rows[i].sources # {}
           /\ rows[i].req = <<rows[i].req[1]>> /\ rows[i].req[1] \in Nat
    /\ \A i, j \in DOMAIN rows :
           i # j => rows[i].req # rows[j].req /\ rows[i].sources \cap rows[j].sources = {}

(***************************************************************************)
(* The elements of a set in the order of the pairs in before, which is     *)
(* total: each one is where there are as many before it.                   *)
(***************************************************************************)
InOrder(S, before) ==
    [k \in 1..Cardinality(S) |->
        CHOOSE x \in S : Cardinality({y \in S : <<y, x>> \in before}) = k - 1]

(***************************************************************************)
(* Groups.                                                                 *)
(***************************************************************************)
\* _requirement_origins, for one row and for a group
Origins(row) == {s.origin : s \in row.sources}
OriginsOf(group) == UNION {Origins(group[i]) : i \in DOMAIN group}

\* _distinct_sources
SourcesOf(group) == UNION {group[i].sources : i \in DOMAIN group}

\* The group d with one more row.
Joined(groups, d, row) ==
    [e \in DOMAIN groups \cup {d} |->
        IF e # d THEN groups[e]
        ELSE IF d \in DOMAIN groups THEN Append(groups[d], row) ELSE <<row>>]

\* With a bug: a row joins the first group, whatever section it is from.
JoinFirstGroup(groups, row) == Joined(groups, <<row.item, 1>>, row)

\* One turn of the loop of _section_scoped_groups: a row joins the first group
\* of its item that has no row of any section it is from, or a new one.
JoinGroup(groups, row) ==
    LET Fits(k) ==
            <<row.item, k>> \in DOMAIN groups =>
                Origins(row) \cap OriginsOf(groups[<<row.item, k>>]) = {}
        numbers == 1..(Cardinality(DOMAIN groups) + 1)
    IN  Joined(groups, <<row.item, Min({k \in numbers : Fits(k)})>>, row)

\* The groups of a list, by what their questions are identified with: the
\* identity of the item and the occurrence of its group.
Groups(rows) == FoldLeft(JoinGroup, <<>>, rows)

(***************************************************************************)
(* What the rows of a group say.                                           *)
(***************************************************************************)
\* The values at some places, in the order of the places.
At(values, places) ==
    LET earlier == {p \in places \X places : p[1] < p[2]}
        order == InOrder(places, earlier)
    IN  [k \in DOMAIN order |-> values[order[k]]]

\* The values of a sequence, in the order they come up.
Distinct(values) ==
    At(values, {i \in DOMAIN values : \A j \in 1..(i - 1) : values[j] # values[i]})

Said(values) == SelectSeq(Distinct(values), LAMBDA v : v # None)

Details(group) == [i \in DOMAIN group |-> group[i].detail]
Brands(group) == [i \in DOMAIN group |-> group[i].brand]
Descriptors(group) == [i \in DOMAIN group |-> group[i].ambiguous]
Wordings(group) == [i \in DOMAIN group |-> group[i].words]

\* _reconcile_constraints: the two things rows can disagree about, with the
\* values a parent is shown; wordings are compared when nothing else is asked.
DetailsConflict(group) == Len(Said(Details(group))) > 1
DescriptorsConflict(group) ==
    Said(Descriptors(group)) # <<>> /\ \E i \in DOMAIN group : group[i].ambiguous = None
WordingsConflict(group) == Len(Distinct(Wordings(group))) > 1

\* _descriptions_need_identity_question comes last.
ConflictsOf(group, details, descriptors) ==
    {f \in {"detail"} : details}
      \cup {f \in {"ambiguous_descriptor"} :
               descriptors \/ (~ details /\ WordingsConflict(group))}

Conflicts(group) == ConflictsOf(group, DetailsConflict(group), DescriptorsConflict(group))

TypeOfConflicts(conflicts) ==
    CASE "ambiguous_descriptor" \in conflicts -> "ambiguous"
      [] conflicts = {"detail"} -> "different_products"
      [] OTHER -> "quantity_only"

ConflictType(group) == TypeOfConflicts(Conflicts(group))

\* CONFLICT_IDENTITY_DEFAULTS
DefaultIdentity(group) ==
    IF ConflictType(group) = "different_products" THEN "different" ELSE "same"

\* item_decision_state_fingerprint: the facts a chosen identity rests on.
FingerprintOf(group, conflicts) ==
    <<TypeOfConflicts(conflicts),
      IF "detail" \in conflicts THEN Said(Details(group)) ELSE <<>>,
      CASE "ambiguous_descriptor" \notin conflicts -> <<>>
        [] DescriptorsConflict(group) -> Append(Said(Descriptors(group)), None)
        [] OTHER -> Distinct(Wordings(group))>>

Fingerprint(group) == FingerprintOf(group, Conflicts(group))

\* The brand, if one is named, and the detail: the first when there are more.
OnlyOf(values) == IF Len(values) = 1 THEN values[1] ELSE None
FirstOf(values) == IF values = <<>> THEN None ELSE values[1]

ReconciledBrand(group) == OnlyOf(Said(Brands(group)))
ReconciledDetail(group) == FirstOf(Said(Details(group)))

(***************************************************************************)
(* Quantities and variants.                                                *)
(***************************************************************************)
Quantities(group) == {group[i].qty : i \in DOMAIN group}
Total(group) == SumFunctionOnSet([i \in DOMAIN group |-> group[i].qty], DOMAIN group)

\* requirement_quantity_default
DefaultAction(group) ==
    IF group[1].item \in SingleInstance THEN "largest"
    ELSE IF Total(group) <= PlausibleMaximum[group[1].item] THEN "total" ELSE "largest"

DefaultQuantity(group) ==
    IF DefaultAction(group) = "total" THEN Total(group) ELSE Max(Quantities(group))

\* _variant_value.  None is a row that says nothing of the kind: the code has
\* the text "general product wording" for it, also in the variant made of it.
VariantDetails(row, fields) ==
    [f \in fields |-> IF f = "detail" THEN row.detail
                      ELSE IF row.ambiguous # None THEN row.ambiguous ELSE row.words]

\* _build_variants, and _build_source_variants when the rows do not disagree
\* about the product: the members of each variant, in order.
MembersByKind(group, of, kinds) ==
    [k \in DOMAIN kinds |-> At(group, {i \in DOMAIN group : of[i] = kinds[k]})]

MembersOf(group, fields) ==
    LET of == [i \in DOMAIN group |-> VariantDetails(group[i], fields)]
    IN  IF fields = {} THEN [i \in DOMAIN group |-> <<group[i]>>]
        ELSE MembersByKind(group, of, Distinct(of))

VariantMembers(group) == MembersOf(group, Conflicts(group))

VariantQuantity(members) == Max(Quantities(members))

(***************************************************************************)
(* The parent's choices, by group (d) or by variant (<<d, k>>), and the    *)
(* requirements a group becomes.                                           *)
(***************************************************************************)
NoChoices == [quantities |-> <<>>, identities |-> <<>>, amounts |-> <<>>, excluded |-> {}]

Chosen(choices, key, default) == IF key \in DOMAIN choices THEN choices[key] ELSE default

\* Whether a group is a question to the parent.
Asks(group) ==
    /\ Len(group) > 1
    /\ \/ Cardinality(Quantities(group)) > 1
       \/ Conflicts(group) # {}
       \/ group[1].item \in SingleInstance

\* The product the parent says the rows are, when the default is that they differ.
OneProduct(group) ==
    IF DefaultIdentity(group) = "different" THEN VariantMembers(group)[1][1]
    ELSE [brand |-> ReconciledBrand(group), detail |-> ReconciledDetail(group)]

\* With a bug: a variant stands for its own lines only.
OwnSources(group, k) == SourcesOf(VariantMembers(group)[k])

\* A variant stands for every line of its group.
VariantSources(group, k) == SourcesOf(group)

\* _resolved_variant_requirements
VariantRequirement(group, fields, member, k, amount) ==
    [group[1] EXCEPT
       !.req = Append(@, k), !.qty = amount, !.sources = VariantSources(group, k),
       !.brand = ReconciledBrand(group),
       !.detail = IF fields # {} THEN member.detail ELSE ReconciledDetail(group),
       !.ambiguous = IF "ambiguous_descriptor" \in fields
                     THEN VariantDetails(member, fields)["ambiguous_descriptor"] ELSE None]

VariantsAmong(d, group, fields, members, amounts) ==
    LET Amount(k) == Chosen(amounts, <<d, k>>, VariantQuantity(members[k]))
    IN  {VariantRequirement(group, fields, members[k][1], k, Amount(k)) :
            k \in {v \in DOMAIN members : Amount(v) > 0}}

VariantRequirements(d, group, amounts) ==
    VariantsAmong(d, group, Conflicts(group), VariantMembers(group), amounts)

\* The body of the loop of consolidate_requirements.
MergeAsOne(first, product, quantity) ==
    {[first EXCEPT !.qty = quantity, !.brand = product.brand, !.detail = product.detail]}

MergeGroup(d, group, choices) ==
    LET first == [group[1] EXCEPT !.sources = SourcesOf(group)]
        quantity == IF Asks(group)
                    THEN Chosen(choices.quantities, d, DefaultQuantity(group))
                    ELSE group[1].qty
    IN  IF Len(group) = 1 THEN {first}
        ELSE IF d \in choices.excluded
        THEN {[first EXCEPT !.qty = DefaultQuantity(group), !.removed = TRUE]}
        ELSE IF Chosen(choices.identities, d, DefaultIdentity(group)) = "different"
        THEN VariantRequirements(d, group, choices.amounts)
        ELSE MergeAsOne(first, OneProduct(group), quantity)

MergeGroups(groups, choices) ==
    UNION {MergeGroup(d, groups[d], choices) : d \in DOMAIN groups}

\* consolidate_requirements
Consolidated(rows, choices) == MergeGroups(Groups(rows), choices)

\* The requirements sorted by their ids.
ById(requirements) ==
    InOrder(requirements,
            {p \in requirements \X requirements :
                LET a == p[1].req
                    b == p[2].req
                IN  a[1] < b[1] \/ (a[1] = b[1] /\ Last(a) < Last(b))})
=============================================================================
