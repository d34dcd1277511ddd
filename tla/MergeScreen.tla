----------------------------- MODULE MergeScreen -----------------------------
(***************************************************************************)
(* The screen that asks about repeated items ("Choose what goes in the     *)
(* cart", _render_requirement_merge of app.py), from the reading of a list *)
(* to the plan that is built of it.                                        *)
(*                                                                         *)
(* Each question has two controls of which one is shown: with one product, *)
(* a radio of quick choices and a number; with different ones, a number    *)
(* for each variant.  A box keeps the item out of the cart.  Their keys    *)
(* are made of the item and the occurrence of its group, and               *)
(* preserve_navigation_state keeps them for the rest of the session.  The  *)
(* screen is drawn after each callback; drawing it gives the controls that *)
(* are shown for the first time their defaults.                            *)
(*                                                                         *)
(* One student is modelled; another one has questions of its own.  After   *)
(* the screen, Personalize confirms what was merged (the edits made there  *)
(* are in PersonalizeReview; here the parent only adds items) and the      *)
(* pipeline merges the confirmed rows once more.                           *)
(***************************************************************************)
EXTENDS RequirementMerge

CONSTANTS Lists,         \* the lists that can be read first
          Replacements,  \* the lists that can be read after it
          Added,         \* the items a parent can add: rows
          Entered,       \* the numbers a parent enters
          MaxReadings,   \* bound: how often a list is read after the first
          MaxAdded,      \* bound: how many items are added
          MaxTouches     \* bound: how often controls are used for one list

ASSUME RowsAndNumbers ==
    /\ \A l \in Lists \cup Replacements : IsList(l)
    /\ \A row \in Added : IsRow(row)
    /\ Entered \subseteq Nat

VARIABLES list,       \* unmerged_extracted_lists: the rows that were read
          extracted,  \* extracted_lists: the requirements they became
          resolved,   \* requirement_merge_resolved
          identity,   \* "<decision>:same-or-different"
          facts,      \* "<decision>:same-or-different:facts"
          choice,     \* "<interrupt>:choice"
          quantity,   \* "<interrupt>:quantity"
          amounts,    \* "<variant>:quantity"
          boxes,      \* "<decision>:exclude", the boxes that are ticked
          confirmed,  \* "<interrupt>:parent-confirmed"
          added,      \* parent_added_review_items
          planned,    \* the requirements the plan was built of, or None
          sent,       \* history: what the screen showed when it was sent
          touches,    \* how often controls were used since the reading
          readings    \* how often a list was read after the first

controls == <<identity, facts, choice, quantity, amounts, boxes, confirmed>>
vars == <<list, extracted, resolved, controls, added, planned, sent, touches, readings>>

\* The groups of each list that are questions.
QuestionsAmong(groups) == [d \in {g \in DOMAIN groups : Asks(groups[g])} |-> groups[d]]

GroupsOfLists == [l \in Lists \cup Replacements |-> QuestionsAmong(Groups(l))]

Questions == GroupsOfLists[list]
Decisions == DOMAIN Questions

(***************************************************************************)
(* quantity_quick_choice_values: the labels of the radio name a quantity   *)
(* and where it is from.                                                   *)
(***************************************************************************)
Custom == <<"custom">>
TotalLabel(group) == <<"total", Total(group)>>
SourceLabel(row) == <<"source", row.qty, Origins(row)>>

QuickChoices(group) ==
    {TotalLabel(group), Custom} \cup {SourceLabel(group[i]) : i \in DOMAIN group}

\* quantity_quick_choice_default_label
DefaultLabel(group) ==
    IF DefaultAction(group) = "total" THEN TotalLabel(group)
    ELSE LET largest == {i \in DOMAIN group : group[i].qty = DefaultQuantity(group)}
         IN  SourceLabel(group[Min(largest)])

(***************************************************************************)
(* Drawing the screen: which controls are shown and what they show.  An    *)
(* identity is set to its default when the facts it rests on have changed  *)
(* (resolve_merge_identity_widget_state), a quick choice when it is not    *)
(* offered (_render_merge_quantity_controls); a number only when there is  *)
(* none yet.                                                               *)
(***************************************************************************)
Values == [identity |-> identity, facts |-> facts, choice |-> choice,
           quantity |-> quantity, amounts |-> amounts, boxes |-> boxes,
           confirmed |-> confirmed]

\* What the first function says, and where it says nothing the second.
Over(f, g) == [x \in DOMAIN f \cup DOMAIN g |-> IF x \in DOMAIN f THEN f[x] ELSE g[x]]

VariantDefaults(members) ==
    [v \in UNION {{d} \X DOMAIN members[d] : d \in DOMAIN members} |->
        VariantQuantity(members[v[1]][v[2]])]

DrawnNumbers(questions, w) ==
    LET single == {d \in DOMAIN questions : w.identity[d] = "same"}
        unknown == {d \in single : d \in DOMAIN w.choice =>
                                       w.choice[d] \notin QuickChoices(questions[d])}
    IN  [w EXCEPT
           !.choice = Over([d \in unknown |-> DefaultLabel(questions[d])], @),
           !.quantity = Over(@, [d \in single |-> DefaultQuantity(questions[d])]),
           !.amounts = Over(@, VariantDefaults([d \in DOMAIN questions \ single |->
                                                   VariantMembers(questions[d])]))]

DrawnIdentities(questions, w, current) ==
    LET outdated == {d \in DOMAIN questions : d \in DOMAIN w.facts => w.facts[d] # current[d]}
    IN  [w EXCEPT !.facts = Over(current, @),
                  !.identity = Over([d \in outdated |-> DefaultIdentity(questions[d])], @)]

Drawn(questions, w) ==
    DrawnNumbers(questions, DrawnIdentities(questions, w, [d \in DOMAIN questions |->
                                                             Fingerprint(questions[d])]))

SetControls(w) ==
    /\ identity' = w.identity /\ facts' = w.facts /\ choice' = w.choice
    /\ quantity' = w.quantity /\ amounts' = w.amounts /\ boxes' = w.boxes
    /\ confirmed' = w.confirmed

(***************************************************************************)
(* A list is read: it is merged without choices, and the screen is shown   *)
(* when that leaves a question.  A list that is replaced, or whose grade   *)
(* or section is changed, is read again; the controls keep what they hold. *)
(***************************************************************************)
Blank == [identity |-> <<>>, facts |-> <<>>, choice |-> <<>>, quantity |-> <<>>,
          amounts |-> <<>>, boxes |-> {}, confirmed |-> {}]

Init ==
    /\ list \in Lists
    /\ extracted = Consolidated(list, NoChoices)
    /\ resolved = (Decisions = {})
    /\ LET w == Drawn(Questions, Blank) IN
         /\ identity = w.identity /\ facts = w.facts /\ choice = w.choice
         /\ quantity = w.quantity /\ amounts = w.amounts /\ boxes = w.boxes
         /\ confirmed = w.confirmed
    /\ added = <<>> /\ planned = None /\ sent = None
    /\ touches = 0 /\ readings = 0

ReadAgain(l) ==
    /\ readings < MaxReadings
    /\ list' = l
    /\ extracted' = Consolidated(l, NoChoices)
    /\ resolved' = (DOMAIN GroupsOfLists[l] = {})
    /\ SetControls(Drawn(GroupsOfLists[l], Values))
    /\ planned' = None /\ sent' = None
    /\ touches' = 0 /\ readings' = readings + 1
    /\ UNCHANGED added

(***************************************************************************)
(* The controls of the question d.                                         *)
(***************************************************************************)
Combined(d) == identity[d] = "same"
Variants(d) == {d} \X DOMAIN VariantMembers(Questions[d])

Touch(w) ==
    /\ touches < MaxTouches /\ ~ resolved
    /\ SetControls(Drawn(Questions, w))
    /\ touches' = touches + 1
    /\ UNCHANGED <<list, extracted, resolved, added, planned, sent, readings>>

PickIdentity(d) ==
    Touch([Values EXCEPT !.identity[d] = IF @ = "same" THEN "different" ELSE "same"])

\* apply_merge_quick_choice
PickQuantity(d, label) ==
    /\ Combined(d) /\ label # choice[d]
    /\ Touch([Values EXCEPT
                !.choice[d] = label,
                !.confirmed = @ \cup {d},
                !.quantity[d] = IF label = Custom THEN @ ELSE label[2]])

\* mark_merge_quantities_custom
EnterQuantity(d, n) ==
    /\ Combined(d) /\ n # quantity[d]
    /\ Touch([Values EXCEPT !.choice[d] = Custom, !.confirmed = @ \cup {d},
                            !.quantity[d] = n])

\* mark_merge_quantity_confirmed: the box follows the numbers.
EnterAmount(v, n) ==
    LET d == v[1]
        some == n > 0 \/ \E o \in Variants(d) \ {v} : amounts[o] > 0
    IN  /\ ~ Combined(d) /\ n # amounts[v]
        /\ Touch([Values EXCEPT !.amounts[v] = n,
                                !.boxes = IF some THEN @ \ {d} ELSE @ \cup {d}])

\* The number, or the numbers, of d that are shown.
Numbers(d) == IF Combined(d) THEN {quantity[d]} ELSE {amounts[v] : v \in Variants(d)}

\* apply_merge_item_exclusion: a box that is ticked sets the numbers to zero,
\* one that is cleared sets them to their defaults if all of them are zero.
TickBox(d) ==
    LET ticking == d \notin boxes
        resets == ~ ticking /\ Numbers(d) = {0}
        group == Questions[d]
        shown == IF Combined(d) THEN {} ELSE Variants(d)
        Amount(v) == IF ticking THEN 0 ELSE VariantQuantity(VariantMembers(group)[v[2]])
        numbered == ticking \/ resets
    IN  Touch([Values EXCEPT
                 !.boxes = IF ticking THEN @ \cup {d} ELSE @ \ {d},
                 !.choice = IF ticking /\ Combined(d) THEN [@ EXCEPT ![d] = Custom] ELSE @,
                 !.quantity = IF numbered /\ Combined(d)
                              THEN [@ EXCEPT ![d] = IF ticking THEN 0 ELSE DefaultQuantity(group)]
                              ELSE @,
                 !.amounts = IF numbered THEN Over([v \in shown |-> Amount(v)], @) ELSE @])

UseControls ==
    \E d \in Decisions :
        \/ PickIdentity(d)
        \/ \E label \in QuickChoices(Questions[d]) : PickQuantity(d, label)
        \/ \E n \in Entered : EnterQuantity(d, n)
        \/ \E v \in Variants(d), n \in Entered : EnterAmount(v, n)
        \/ TickBox(d)

(***************************************************************************)
(* "Continue with these choices".  An item is kept out when all of its     *)
(* numbers are zero; the number of one product counts when the parent has  *)
(* confirmed it, the numbers of variants always.                           *)
(***************************************************************************)
Excluded == {d \in Decisions : Numbers(d) = {0}}

\* With a bug: the numbers shown for one product are never passed on.
NoNumbers == [d \in {} |-> 0]

ConfirmedNumbers ==
    [d \in {q \in Decisions \ Excluded : Combined(q) /\ q \in confirmed} |-> quantity[d]]

VariantNumbers ==
    [v \in UNION {Variants(d) : d \in {q \in Decisions \ Excluded : ~ Combined(q)}} |-> amounts[v]]

ScreenChoices ==
    [quantities |-> ConfirmedNumbers,
     identities |-> [d \in Decisions |-> identity[d]],
     amounts |-> VariantNumbers,
     excluded |-> Excluded]

Shown(d) == IF Combined(d) THEN <<quantity[d]>>
            ELSE [k \in DOMAIN VariantMembers(Questions[d]) |-> amounts[<<d, k>>]]

Continue ==
    /\ ~ resolved
    /\ extracted' = Consolidated(list, ScreenChoices)
    /\ resolved' = TRUE
    /\ sent' = [d \in Decisions |->
                  [identity |-> identity[d], numbers |-> Shown(d), known |-> d \in confirmed]]
    /\ planned' = None
    /\ UNCHANGED <<list, controls, added, touches, readings>>

(***************************************************************************)
(* Personalize: a parent adds an item, which is of no section of the list; *)
(* the pipeline then merges what was confirmed, and asks nothing.          *)
(***************************************************************************)
AddItem(row) ==
    /\ resolved /\ Len(added) < MaxAdded
    /\ LET id == <<100 + Len(added)>> IN
         added' = Append(added, [row EXCEPT !.req = id, !.sources = {[line |-> id, origin |-> None]}])
    /\ planned' = None
    /\ UNCHANGED <<list, extracted, resolved, controls, sent, touches, readings>>

ConfirmedRows == ById({r \in extracted : ~ r.removed}) \o added

BuildPlan ==
    /\ resolved
    /\ planned' = Consolidated(ConfirmedRows, NoChoices)
    /\ UNCHANGED <<list, extracted, resolved, controls, added, sent, touches, readings>>

Next ==
    \/ \E l \in Replacements : ReadAgain(l)
    \/ UseControls
    \/ Continue
    \/ \E row \in Added : AddItem(row)
    \/ BuildPlan

Spec == Init /\ [][Next]_vars

-----------------------------------------------------------------------------
(***************************************************************************)
(* Properties.                                                             *)
(***************************************************************************)
UnitsOf(requirements, item) ==
    SumFunctionOnSet([r \in requirements |-> r.qty], {r \in requirements : r.item = item})

\* As long as the parent has changed nothing, merging asks for no less of an
\* item than any one section of the list does: rows of one section are added
\* up, rows of several sections are replaced by the larger one at worst
\* (_section_scoped_groups, requirement_quantity_default).
NoSectionGetsLess ==
    touches = 0 /\ readings = 0 =>
        \A item \in {list[i].item : i \in DOMAIN list} :
            \A section \in OriginsOf(list) :
                UnitsOf({list[i] : i \in {j \in DOMAIN list : Origins(list[j]) = {section}}}, item)
                  <= UnitsOf(extracted, item)

\* The requirements the question d was merged into are those its numbers ask
\* for: of one product as many as number says, of variants what each shows;
\* and it is out of the cart exactly when all of its numbers are zero.
MergedAs(d, number) ==
    LET mine == {r \in extracted : r.sources = SourcesOf(Questions[d])}
        numbers == sent[d].numbers
        positive == {k \in DOMAIN numbers : numbers[k] > 0}
    IN  IF positive = {} THEN Cardinality(mine) = 1 /\ \A r \in mine : r.removed
        ELSE /\ \A r \in mine : ~ r.removed
             /\ IF sent[d].identity = "same"
                THEN {<<r.req, r.qty>> : r \in mine} = {<<Questions[d][1].req, number>>}
                ELSE {<<r.req, r.qty>> : r \in mine} =
                         {<<Append(Questions[d][1].req, k), numbers[k]>> : k \in positive}

\* After the first reading what is merged is what the screen shows.  After a
\* later one, which keeps the numbers of the earlier, it is what is shown of
\* variants and where the parent confirmed the number, and the default of the
\* list that is read now where nobody did, whatever number is shown
\* (_render_requirement_merge, consolidate_requirements).
SentAsConfirmed ==
    sent # None =>
        \A d \in Decisions :
            MergedAs(d, IF sent[d].known \/ readings = 0 THEN sent[d].numbers[1]
                        ELSE DefaultQuantity(Questions[d]))

\* "Choose which items to include and what quantity belongs in the cart": the
\* numbers shown are those merged.  Refuted when a list is replaced: the screen
\* shows the number of the old one, the default of the new one is merged.
SentAsShown == sent # None => \A d \in Decisions : MergedAs(d, sent[d].numbers[1])

\* No line of a list disappears: each is a source of a requirement, and the
\* sources of each confirmed row are sources of a requirement that is planned
\* (consolidate_requirements, applied to the list and to what was confirmed).
EveryLineIsCarried ==
    /\ \A i \in DOMAIN list : \E r \in extracted : list[i].sources \subseteq r.sources
    /\ planned # None =>
         \A i \in DOMAIN ConfirmedRows :
             \E r \in planned : ConfirmedRows[i].sources \subseteq r.sources /\ r.qty > 0

\* The second merge, which asks nothing, leaves the items as they were
\* confirmed unless the parent has added units of the same item
\* (run_pipeline, consolidate_requirements).
PlanKeepsTheMerge ==
    planned # None =>
        \A item \in {list[i].item : i \in DOMAIN list} \ {added[i].item : i \in DOMAIN added} :
            {r \in planned : r.item = item} = {r \in extracted : r.item = item /\ ~ r.removed}

\* "Build a plan only from user-confirmed extraction envelopes": as many units
\* of each item are planned as were confirmed on Personalize.  Refuted when an
\* item is added that a list names, too.
ConfirmedUnitsArePlanned ==
    planned # None =>
        \A item \in {ConfirmedRows[i].item : i \in DOMAIN ConfirmedRows} :
            UnitsOf(planned, item) =
                SumFunctionOnSet([i \in DOMAIN ConfirmedRows |-> ConfirmedRows[i].qty],
                                 {i \in DOMAIN ConfirmedRows : ConfirmedRows[i].item = item})

\* "Keep radio and number inputs as two views of one selection state".
\* Refuted when a list is replaced: the radio takes the default of the new
\* list, the number stays that of the old one.
RadioAndNumberAgree ==
    ~ resolved => \A d \in Decisions :
        Combined(d) /\ choice[d] # Custom => quantity[d] = choice[d][2]

\* "Do not add this item to the cart".  Refuted when a number is entered, or
\* the other answer about the products chosen, after the box was ticked.
TickedStaysOut == ~ resolved => boxes \cap Decisions \subseteq Excluded
=============================================================================
