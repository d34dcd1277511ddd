-------------------------- MODULE PersonalizeReview --------------------------
(***************************************************************************)
(* The Personalize screen of app.py: what the lists said, what the parent  *)
(* decides about it, and what is handed to the shopping plan.              *)
(*                                                                         *)
(* Every interaction is one run of the script: the callback of the control *)
(* that was touched, then _render_review from its first line, which reads  *)
(* the values the controls hold, brings the acknowledgements up to date,   *)
(* shows one view (the summary or one student) and saves the rows it       *)
(* showed.  A step of this module is such a run.                           *)
(*                                                                         *)
(* Controls keep their values: preserve_navigation_state saves the value   *)
(* of every keyed control at the start of a run and puts it back when the  *)
(* control was not shown, so `held' holds the value of every control that  *)
(* was ever shown.  A row has controls of its own in each of the places it *)
(* can be shown in, among the settled, the optional and the excluded rows, *)
(* and a decision has controls of its own.                                 *)
(***************************************************************************)
EXTENDS ReviewRows

CONSTANTS Students,    \* the students, 1..n
          Readings,    \* Readings[c]: the lists that can be read for c
          AddedItems,  \* the rows the parent can add: item and quantity
          Quantities,  \* the quantities the parent enters
          MaxRuns      \* bound: the runs of the script after the first

VARIABLES raw,        \* unmerged_extracted_lists: what was read, or None
          lists,      \* extracted_lists: read, or reviewed once submitted
          prints,     \* the fingerprints of lists when rows were refreshed
          items,      \* review_items
          added,      \* parent_added_review_items
          originals,  \* personalize_original_items
          confirmed,  \* the groups accepted as recommended
          edited,     \* the groups settled by an edit of the parent
          notices,    \* the rows the parent was told to review again
          held,       \* the values of the controls, by place and row
          answers,    \* the answers to the joint questions, by place
          view,       \* the summary, or a student
          shown,      \* the controls the last run showed, by place and row
          cards,      \* the groups the last run showed a decision for
          planned,    \* the envelopes handed to the plan, or None
          runs,       \* how many runs there were
          saw,        \* history: what an accepted group showed then
          told,       \* history: the answer given to a joint question
          own,        \* history: the items the parent ever added
          touched     \* history: the rows the parent ever changed

vars == <<raw, lists, prints, items, added, originals, confirmed, edited,
          notices, held, answers, view, shown, cards, planned, runs, saw, told, own, touched>>

Summary == 0
Views == {Summary} \cup Students

Merge(f, g) == [x \in DOMAIN f \cup DOMAIN g |->
                    IF x \in DOMAIN g THEN g[x] ELSE f[x]]
Only(f, S) == [x \in DOMAIN f \cap S |-> f[x]]
Nothing == [x \in {} |-> None]

(***************************************************************************)
(* The controls of one row.                                                *)
(***************************************************************************)
AtLeastOne(n) == IF n = None \/ n = 0 THEN 1 ELSE n
Control(p, i, h) == IF <<p, i>> \in DOMAIN h THEN h[<<p, i>>] ELSE None

\* _resolve_detail_widget_values
Resolve(row, w) ==
    IF w = None THEN row
    ELSE [row EXCEPT !.qty = IF w.qty = None THEN @ ELSE w.qty, !.optional = w.optional, !.owned = w.owned,
                     !.status = IF w.deleted THEN "deleted"
                                ELSE IF @ = "deleted" THEN "pending" ELSE @]

\* With a bug: another quantity is no change.
ChangedItem(row, original) == original # None /\ row.item # original.item

\* _review_item_or_quantity_changed
Changed(row, original) ==
    original # None /\ (row.item # original.item \/ row.qty # original.qty)

\* The controls a row is read from before it is known where it is shown.
PlaceRead(row) ==
    IF row.optional THEN "optional"
    ELSE IF row.owned \/ Deleted(row) \/ row.qty = 0 THEN "excluded"
    ELSE "settled"

\* _render_settled_review_row, _render_optional_review_row and
\* _render_excluded_review_row: the values the controls hold, and the row.
ControlsOf(base) ==
    [qty |-> IF base.qty = None THEN 1 ELSE base.qty, optional |-> base.optional,
     owned |-> base.owned, deleted |-> Deleted(base), before |-> 1]

RowControls(p, row, original, w) ==
    IF w # None THEN w
    ELSE ControlsOf([row EXCEPT !.qty = IF p = "excluded" THEN original.qty ELSE @])

RowAsHeld(row, original, c) ==
    [Resolve(row, c) EXCEPT
        !.qty = IF c.owned \/ c.deleted THEN 0
                ELSE AtLeastOne(IF c.qty = 0 THEN original.qty ELSE c.qty)]

RenderedRow(row, original, c) == IF row.school THEN row ELSE RowAsHeld(row, original, c)

\* apply_review_exclusion_quantity, called when a box of a row is ticked.
Ticked(w, field, value) ==
    LET v == [w EXCEPT ![field] = value]
        out == IF field = "owned" THEN v.deleted ELSE v.owned
        nothing == w.qty \in {None, 0}
    IN  IF value THEN [v EXCEPT !.before = IF nothing THEN @ ELSE w.qty, !.qty = 0]
        ELSE IF out THEN [v EXCEPT !.qty = 0]
        ELSE IF nothing THEN [v EXCEPT !.qty = w.before]
        ELSE v

(***************************************************************************)
(* The sections of the screen (build_personalize_student_sections).        *)
(***************************************************************************)
OptionalRow(row) == row.buys /\ row.optional /\ ~ row.school /\ Active(row)

ExcludedRow(row) ==
    \/ row.school
    \/ /\ row.buys /\ ~ OptionalRow(row)
       /\ ~ Active(row) \/ row.qty = 0 \/ row.applies = FALSE

SettledRow(row) == row.buys /\ ~ ExcludedRow(row) /\ ~ OptionalRow(row)

\* The joint questions that are still asked: those whose control holds none
\* of their options, or whose rows do not agree on one.
LabelOf(joint, given, k) ==
    IF k \in DOMAIN given THEN given[k] ELSE JointSelection(joint[k])
Open(joint, given) ==
    {k \in DOMAIN joint : LabelOf(joint, given, k) \notin joint[k][1].labels}
AskersOf(joint) == {joint[k].asker[1] : k \in DOMAIN joint}

\* The rows an open question holds back: its options, when they are rows.
HeldBack(joint, open) ==
    UNION {Range(q.option) : q \in {r \in UNION {Range(joint[k]) : k \in open} :
                                        r.id[1] = "branches"}}

\* Which controls a view shows, given the rows and the open decisions, of the
\* items some store has: the others are listed without controls.
ShownControls(v, rows, pending) ==
    LET Of(S) == {i \in DOMAIN rows : i[1] = v /\ i \in S}
        excluded == {i \in DOMAIN rows : ExcludedRow(rows[i])}
        settled == {i \in DOMAIN rows : SettledRow(rows[i])} \ pending
        optional == {i \in DOMAIN rows : OptionalRow(rows[i])}
    IN  IF v = Summary THEN {"excluded"} \X excluded
        ELSE ({"settled"} \X Of(settled)) \cup ({"optional"} \X Of(optional))
               \cup ({"excluded"} \X Of(excluded))

(***************************************************************************)
(* A decision card (_render_compact_review_row).  It saves its first row   *)
(* and copies it to the others; a quantity that is missing becomes one.    *)
(***************************************************************************)
First(g) ==
    CHOOSE i \in g : \A j \in g :
        \/ (i[2] \in OwnNumbers) = (j[2] \in OwnNumbers)
             /\ (i[1] < j[1] \/ (i[1] = j[1] /\ i[2] <= j[2]))
        \/ i[2] \notin OwnNumbers /\ j[2] \in OwnNumbers

\* _copy_shared_review_edits
CopySharedEdits(source, target) ==
    [target EXCEPT !.item = source.item, !.qty = source.qty,
                   !.optional = source.optional, !.owned = source.owned,
                   !.status = source.status]

\* _render_review_detail_controls, _review_control_update: a card has boxes
\* of its own, and a quantity only once one of them was ticked.
CardControls(row, w) ==
    IF w # None THEN w
    ELSE [qty |-> None, optional |-> row.optional, owned |-> row.owned,
          deleted |-> Deleted(row), before |-> 1]

CardRow(row) ==
    [row EXCEPT !.qty = IF row.owned \/ Deleted(row) THEN 0 ELSE AtLeastOne(@)]

RenderedCard(g, rows, first, saved) ==
    [i \in g |-> IF i = first THEN saved ELSE CopySharedEdits(saved, rows[i])]

(***************************************************************************)
(* One run of _render_review from the state p, showing view v; drafts are  *)
(* quantities typed into the editors of the cards but not sent.            *)
(***************************************************************************)
Page == [items |-> items, added |-> added, originals |-> originals,
         confirmed |-> confirmed, edited |-> edited, held |-> held,
         answers |-> answers]

\* The groups with a row that its controls hold otherwise than its line said.
EditedGroups(groups, rows, first) ==
    {g \in groups : \E i \in g : Changed(rows[i], first[i])}

Settlement(rows, groups, saved, first, accepted, changed) ==
    [rows |-> rows, groups |-> groups, saved |-> saved, originals |-> first,
     confirmed |-> accepted, edited |-> changed,
     unhandled |-> UnhandledGroups(rows, groups, accepted \cup changed)]

SettledGroups(p, all, first, rows, moved, groups) ==
    Settlement(rows, groups, IF moved = {} THEN all ELSE rows, first,
               (p.confirmed \ moved) \cap groups, (p.edited \cup moved) \cap groups)

SettledRows(p, all, first, rows) ==
    SettledGroups(p, all, first, rows, EditedGroups(FlagGroups(all), rows, first),
                  FlagGroups(rows))

SettledPage(p, all) ==
    SettledRows(p, all, Merge(all, p.originals),
                [i \in DOMAIN all |->
                    Resolve(all[i], Control(PlaceRead(all[i]), i, p.held))])

\* The top of the run: the rows as their controls hold them, and the groups
\* whose rows the parent has changed moved to the edited ones.
Settle(p) == SettledPage(p, Merge(p.items, p.added))

\* The decisions of a view, and the rows with what is typed into their editors.
Decisions(v, unhandled) == {g \in unhandled : v = Summary \/ \E i \in g : i[1] = v}
Drafted(rows, groups, drafts) ==
    LET typed == groups \cap DOMAIN drafts
    IN  [i \in DOMAIN rows |->
            IF \E g \in typed : i = First(g)
            THEN [rows[i] EXCEPT !.qty = drafts[CHOOSE g \in typed : i = First(g)]]
            ELSE rows[i]]

\* What the controls of the run hold, by place and row.
CardsHeld(groups, rows, h) ==
    [c \in {"card"} \X groups |->
        CardControls(rows[First(c[2])], Control(c[1], c[2], h))]
RowsHeld(controls, s, h) ==
    [c \in {d \in controls : ~ s.rows[d[2]].school} |->
        RowControls(c[1], s.rows[c[2]], s.originals[c[2]], Control(c[1], c[2], h))]

\* The rows the run shows, each as its controls hold it.
CardsSaved(groups, rows, h) ==
    [g \in groups |->
        RenderedCard(g, rows, First(g),
                     CardRow(Resolve(rows[First(g)], h[<<"card", g>>])))]
RowsSaved(controls, s, h) ==
    [c \in controls |->
        RenderedRow(s.rows[c[2]], s.originals[c[2]], Control(c[1], c[2], h))]

Rendered(byGroup, byPlace) ==
    Merge([i \in UNION DOMAIN byGroup |->
              byGroup[CHOOSE g \in DOMAIN byGroup : i \in g][i]],
          [i \in {c[2] : c \in DOMAIN byPlace} |->
              byPlace[CHOOSE c \in DOMAIN byPlace : c[2] = i]])

RunSaved(p, s, joint, radios, groups, controls, h, rendered) ==
    [settled |-> s, rendered |-> rendered, joint |-> joint,
     items |-> Only(Merge(s.saved, rendered), DOMAIN p.items),
     added |-> Only(Merge(s.saved, rendered), DOMAIN p.added),
     originals |-> s.originals, confirmed |-> s.confirmed, edited |-> s.edited,
     held |-> h, shown |-> controls, cards |-> groups,
     answers |-> Merge([k \in radios |-> None], p.answers)]

RunHeld(p, s, joint, radios, groups, rows, controls, h) ==
    RunSaved(p, s, joint, radios, groups, controls, h,
             Rendered(CardsSaved(groups, rows, h), RowsSaved(controls, s, h)))

RunShown(p, drafts, s, joint, radios, groups, controls) ==
    RunHeld(p, s, joint, radios, groups, Drafted(s.rows, groups, drafts), controls,
            Merge(p.held, Merge(CardsHeld(groups, s.rows, p.held),
                                RowsHeld(controls, s, p.held))))

RunAsking(p, v, drafts, s, joint, open) ==
    RunShown(p, drafts, s, joint, {k \in open : v \in AskersOf(joint[k])},
             Decisions(v, s.unhandled),
             ShownControls(v, s.rows, (UNION s.unhandled) \cup HeldBack(joint, open)))

RunAnswered(p, v, drafts, s, joint) ==
    RunAsking(p, v, drafts, s, joint, Open(joint, p.answers))

RunSettled(p, v, drafts, s) ==
    RunAnswered(p, v, drafts, s, DeduplicatedQuestions(s.rows))

Run(p, v, drafts) == RunSettled(p, v, drafts, Settle(p))

\* The state after the run r, which follows a callback.  A radio that is shown
\* without an answer holds none.
Ran(r, v) ==
    /\ items' = r.items /\ added' = r.added /\ originals' = r.originals
    /\ confirmed' = r.confirmed /\ edited' = r.edited
    /\ held' = r.held /\ answers' = r.answers
    /\ shown' = r.shown /\ cards' = r.cards
    /\ view' = v
    /\ runs' = runs + 1

Sources == <<raw, lists, prints, notices>>
History == <<saw, told, own, touched>>

\* A callback on the cards or the rows of the screen, followed by a run.
Interact(p) ==
    /\ runs < MaxRuns
    /\ Ran(Run(p, view, Nothing), view)
    /\ UNCHANGED <<Sources, planned>>

Rows == Merge(items, added)

\* _replace_review_items_in_state
Replaced(p, rows) ==
    [p EXCEPT !.items = Only(Merge(@, rows), DOMAIN @),
              !.added = Only(Merge(@, rows), DOMAIN @)]

(***************************************************************************)
(* The decisions about a group.                                            *)
(***************************************************************************)
\* The groups one "Approve all" button covers.
ApproveAllGroups ==
    IF view = Summary
    THEN {{g \in cards : \E i \in g : i[1] = c /\ \A j \in g : c <= j[1]} : c \in Students}
    ELSE {cards}

Content(row) == <<row.item, row.qty>>

\* The numbers in the controls of a row, wherever it was shown.
NumbersHeld(i) == {held[c].qty : c \in {d \in DOMAIN held : d[1] # "card" /\ d[2] = i}}

Approve(groups) ==
    /\ groups # {}
    /\ Interact([Page EXCEPT !.confirmed = @ \cup groups, !.edited = @ \ groups])
    /\ saw' = Merge(saw, [g \in groups |->
                            [i \in g |-> [row |-> Content(Rows[i]), numbers |-> NumbersHeld(i)]]])
    /\ UNCHANGED <<told, own, touched>>

Touch(S) == touched' = touched \cup S /\ UNCHANGED <<saw, told, own>>

\* _commit_personalize_decision: the editor of a card is sent.
SendSelection(g, q) ==
    LET first == [Rows[First(g)] EXCEPT !.qty = AtLeastOne(q)]
        rows == [i \in g |-> IF i = First(g) THEN first
                             ELSE CopySharedEdits(first, Rows[i])]
    IN  /\ Interact([Replaced(Page, rows) EXCEPT !.confirmed = @ \ {g},
                                                !.edited = @ \cup {g}])
        /\ Touch(g)

\* A quantity is typed into the editor of a card and not sent yet.
TypeQuantity(g, q) ==
    /\ runs < MaxRuns
    /\ Ran(Run(Page, view, [d \in {g} |-> q]), view)
    /\ UNCHANGED <<Sources, planned>>
    /\ Touch(g)

\* The callback holds the rows as the last run showed them.
ShownRows == Settle(Page).rows

MarkOwned(g) ==
    /\ Interact([Replaced(Page, [i \in g |-> [ShownRows[i] EXCEPT !.qty = 0, !.owned = TRUE]])
                   EXCEPT !.confirmed = @ \ {g}, !.edited = @ \cup {g}])
    /\ Touch(g)

RemoveFromCart(g) ==
    /\ Interact([Replaced(Page, [i \in g |-> [ShownRows[i] EXCEPT !.qty = 0, !.owned = FALSE,
                                                               !.status = "deleted"]])
                   EXCEPT !.confirmed = @ \ {g}, !.edited = @ \cup {g}])
    /\ Touch(g)

(***************************************************************************)
(* The controls of single rows.                                            *)
(***************************************************************************)
\* _add_school_provided_item_to_cart
AddSchoolProvided(i) ==
    LET row == [Rows[i] EXCEPT !.school = FALSE, !.buys = TRUE, !.optional = FALSE,
                  !.status = IF Rows[i].flags = {} THEN "confirmed" ELSE "pending"]
    IN  /\ Rows[i].school
        /\ Interact(Replaced(Page, [j \in {i} |-> row]))
        /\ Touch({i})

SetControl(c, w, S) ==
    /\ Interact([Page EXCEPT !.held = [@ EXCEPT ![c] = w]])
    /\ Touch(S)

EnterQuantity(c, q) == SetControl(c, [held[c] EXCEPT !.qty = q], {c[2]})
Tick(c, field, S) == SetControl(c, Ticked(held[c], field, ~ held[c][field]), S)
TickOptional(c, S) == SetControl(c, [held[c] EXCEPT !.optional = ~ @], S)

EditRow(c) ==
    /\ c \in DOMAIN held
    /\ \/ \E q \in Quantities : q # held[c].qty /\ EnterQuantity(c, q)
       \/ \E field \in {"owned", "deleted"} : Tick(c, field, {c[2]})
       \/ TickOptional(c, {c[2]})

EditCard(g) ==
    \/ \E field \in {"owned", "deleted"} : Tick(<<"card", g>>, field, g)
    \/ TickOptional(<<"card", g>>, g)

\* _new_review_item_from_controls: the item is saved and the screen run again.
AddItem(c, n, new) ==
    LET row == [item |-> new.item, qty |-> new.qty, optional |-> FALSE,
                school |-> FALSE, buys |-> TRUE, flags |-> {}, cond |-> None,
                branch |-> None, applies |-> None, status |-> "confirmed",
                owned |-> FALSE, removed |-> FALSE]
    IN  /\ view = c
        /\ <<c, n>> \notin own
        /\ Interact([Page EXCEPT !.added = Merge(@, [i \in {<<c, n>>} |-> row])])
        /\ own' = own \cup {<<c, n>>}
        /\ UNCHANGED <<saw, told, touched>>

AnswerConditions ==
    LET joint == DeduplicatedQuestions(ShownRows) IN
    \E k \in Open(joint, answers) : \E l \in joint[k][1].labels :
        /\ view \in AskersOf(joint[k])
        /\ Interact([Page EXCEPT !.answers = Merge(@, [j \in {k} |-> l])])
        /\ told' = Merge(told, [q \in {<<joint[k][1].prompt, joint[k][1].labels>>} |-> l])
        /\ UNCHANGED <<saw, own, touched>>

SelectView(v) ==
    /\ runs < MaxRuns /\ v # view
    /\ Ran(Run(Page, v, Nothing), v)
    /\ UNCHANGED <<Sources, planned, History>>

(***************************************************************************)
(* "Use these choices and build my shopping plan".  The run shows the      *)
(* screen once more; then the answers and the acknowledgements are applied *)
(* to the rows it showed.  It is refused while a required row is not       *)
(* resolved or a group of branches has not exactly one that applies.       *)
(***************************************************************************)
Reviewed(r) ==
    LET answered == UNION {AnswersForSelection(r.joint[k], LabelOf(r.joint, r.answers, k)) :
                              k \in DOMAIN r.joint}
    IN  ApplyReviewConfirmations(
            ApplyConditionalAnswers(Merge(r.settled.rows, r.rendered), answered),
            r.settled.groups, r.confirmed \cup r.edited)

Accepted(rows) == UnresolvedRequiredItems(rows) = {} /\ BranchesAreChosen(rows)

Submit ==
    LET r == Run(Page, view, Nothing)
        rows == Reviewed(r)
        envelopes == ReviewedEnvelopes(lists, rows)
    IN  /\ runs < MaxRuns
        /\ IF Accepted(rows)
           THEN /\ Ran([r EXCEPT !.items = rows, !.added = Nothing], view)
                /\ lists' = envelopes /\ prints' = envelopes /\ planned' = envelopes
           ELSE Ran(r, view) /\ UNCHANGED <<lists, prints, planned>>
        /\ UNCHANGED <<raw, notices, History>>

(***************************************************************************)
(* A list is replaced (_prepare_student_list_replacement) and read again:  *)
(* every list is taken from what was read, and the rows it touches are     *)
(* made anew (_refresh_personalize_review_cache).                          *)
(***************************************************************************)
\* _clear_source_review_widget_state takes the values out of the live state;
\* the saved ones, which the next run puts back, stay.
ClearedControls(h, rows) == h

\* With a bug: the line is compared with the row as the parent left it.
SourceChangedSinceEdit(i, fresh, p) ==
    i \notin DOMAIN fresh \/ i \notin DOMAIN p.items \/ fresh[i] # p.items[i]

\* A row is made anew when its line is not what it was when it was first read.
SourceChanged(i, fresh, p) ==
    i \notin DOMAIN p.originals \/ i \notin DOMAIN fresh \/ fresh[i] # p.originals[i]

\* With a bug: only the decisions about groups are choices.
ChosenByDecision(p, groups) == UNION (groups \cap (p.confirmed \cup p.edited))

\* The rows the parent made a choice about: a decision of their group, or an edit.
ChosenRows(p, groups) ==
    UNION (groups \cap (p.confirmed \cup p.edited)) \cup
        {i \in DOMAIN p.items \cap DOMAIN p.originals : p.items[i] # p.originals[i]}

Refreshed(p, old, new) ==
    LET prior == p.items
        fresh == OrganizeExtractions(new)
        changed == {c \in Students : old[c] # new[c]}
        Remade(i) == i[1] \in changed /\ SourceChanged(i, fresh, p)
        stale == {i \in DOMAIN prior : Remade(i)}
        renewed == {i \in DOMAIN fresh :
                      Remade(i) \/ (i[1] \in changed /\ i \notin DOMAIN prior)}
        priorGroups == FlagGroups(Merge(prior, p.added))
        freshGroups == FlagGroups(Merge(fresh, p.added))
        TouchedBy(groups, S) == {g \in groups : g \cap S # {}}
        lost == TouchedBy(priorGroups, stale)
        rebuilt == renewed \cup UNION (lost \cup TouchedBy(freshGroups, renewed))
        rows == [i \in DOMAIN fresh |->
                    IF i \in DOMAIN prior \ rebuilt THEN prior[i] ELSE fresh[i]]
        current == Merge(rows, p.added)
        Messages(all, g) == IssueExplanations(all[First(g)])
        same == {g \in (priorGroups \cap freshGroups) \ lost :
                    Messages(Merge(prior, p.added), g) = Messages(Merge(fresh, p.added), g)}
    IN  [page |-> [p EXCEPT
            !.items = rows,
            !.originals = [i \in DOMAIN current |->
                             IF i \in DOMAIN p.originals \ (rebuilt \cap DOMAIN rows)
                             THEN p.originals[i] ELSE current[i]],
            !.confirmed = @ \cap same, !.edited = @ \cap same,
            !.held = ClearedControls(@, stale \cup UNION lost)],
         notices |-> stale \cap ChosenRows(p, priorGroups)]

WithReading(c, reading) == [raw EXCEPT ![c] = reading]

ReadAgain(c, reading) ==
    LET new == WithReading(c, reading)
        f == IF new = prints
             THEN [page |-> Page, notices |-> {}]
             ELSE Refreshed(Page, prints, new)
    IN  /\ runs < MaxRuns
        /\ \E d \in Students : new[d] # None
        /\ raw' = new /\ lists' = new /\ prints' = new
        /\ planned' = None
        /\ notices' = notices \cup f.notices
        /\ Ran(Run(f.page, view, Nothing), view)
        /\ UNCHANGED History

(***************************************************************************)
(* The specification.                                                      *)
(***************************************************************************)
Starts(r) ==
    /\ items = r.items /\ added = r.added /\ originals = r.originals
    /\ confirmed = r.confirmed /\ edited = r.edited
    /\ held = r.held /\ answers = r.answers
    /\ shown = r.shown /\ cards = r.cards

Init ==
    LET unread == [c \in Students |-> None]
        blank == [items |-> Nothing, added |-> Nothing, originals |-> Nothing,
                  confirmed |-> {}, edited |-> {}, held |-> Nothing,
                  answers |-> Nothing]
    IN  /\ raw \in [Students -> UNION {Readings[c] : c \in Students}]
        /\ \A c \in Students : raw[c] \in Readings[c]
        /\ lists = raw /\ prints = raw
        /\ Starts(Run(Refreshed(blank, unread, raw).page, Summary, Nothing))
        /\ view = Summary /\ notices = {} /\ planned = None /\ runs = 0
        /\ saw = Nothing /\ told = Nothing /\ own = {} /\ touched = {}

Decide ==
    \/ \E groups \in {{g} : g \in cards} \cup ApproveAllGroups : Approve(groups)
    \/ \E g \in cards, q \in Quantities : SendSelection(g, q) \/ TypeQuantity(g, q)
    \/ \E g \in cards : MarkOwned(g) \/ RemoveFromCart(g) \/ EditCard(g)
    \/ AnswerConditions

Change ==
    \/ \E c \in shown : EditRow(c)
    \/ \E c \in shown : AddSchoolProvided(c[2])
    \/ \E c \in Students, n \in OwnNumbers, new \in AddedItems : AddItem(c, n, new)
    \/ \E v \in Views : SelectView(v)

Next ==
    \/ Decide
    \/ Change
    \/ Submit
    \/ \E c \in Students : \E reading \in Readings[c] \cup {None} : ReadAgain(c, reading)

Spec == Init /\ [][Next]_vars

(***************************************************************************)
(* Properties.                                                             *)
(***************************************************************************)
\* The rows of accepted groups that are bought, but for those that were left
\* out when they were accepted, which had no quantity to accept.
AcceptedRows(s, g) == {i \in g : Active(s.rows[i]) /\ saw[g][i].row[2] # 0}

\* What a submission takes as accepted asks for what it asked for when the
\* parent accepted it, for what its line said, or for a number that was in a
\* control of the row by then: whatever is edited after it was accepted, the
\* group of the row is accepted no more.
ApprovalsAreCurrent ==
    LET s == Settle(Page) IN
    \A g \in s.confirmed :
        /\ g \in DOMAIN saw
        /\ \A i \in AcceptedRows(s, g) :
              Content(s.rows[i]) \in
                 {saw[g][i].row, Content(originals[i])}
                    \cup {<<saw[g][i].row[1], n>> : n \in saw[g][i].numbers}

\* The parent accepts what is shown.  Refuted by a line that is listed twice:
\* a decision shows both as one, and the number entered for one of them in
\* another place comes back when the decision is accepted.
ApprovalsAreOfWhatIsShown ==
    LET s == Settle(Page) IN
    \A g \in s.confirmed :
        \A i \in AcceptedRows(s, g) :
           Content(s.rows[i]) \in {saw[g][i].row, Content(originals[i])}

\* A row the parent has not changed is what its line said.
UntouchedRowsAreAsRead ==
    \A i \in DOMAIN ShownRows \ touched :
        LET row == ShownRows[i] IN
        /\ Content(row) = Content(originals[i])
        /\ row.owned = originals[i].owned /\ Deleted(row) = Deleted(originals[i])
        /\ row.optional = originals[i].optional

\* An item the parent added is never lost.
AddedItemsSurvive == own \subseteq DOMAIN Rows

\* What is planned although the list was unclear about it was accepted as it
\* is planned, or changed, by the parent.
PlanIsReviewed ==
    planned # None => \A c \in Students : planned[c] # None =>
        \A i \in DOMAIN planned[c] :
            (planned[c][i].buys /\ i \in DOMAIN originals /\ originals[i].flags # {})
              => \/ i \in touched
                 \/ \E g \in DOMAIN saw : i \in g /\ saw[g][i].row = Content(planned[c][i])

\* A submission that is refused leaves something to decide on the screen.
RefusalsAreExplained ==
    LET r == Run(Page, view, Nothing)
    IN  ~ Accepted(Reviewed(r)) =>
            r.settled.unhandled # {} \/ Open(r.joint, r.answers) # {}

\* The lines that are required and bought unconditionally, whose rows the
\* parent has not changed.
MustBePlanned(c) ==
    {i \in DOMAIN raw[c] \ touched :
        LET line == raw[c][i]
        IN  line.buys /\ ~ line.optional /\ ~ line.removed /\ line.cond = None}

PlannedAs(c, i) ==
    /\ planned[c] # None /\ i \in DOMAIN planned[c]
    /\ planned[c][i].buys /\ ~ planned[c][i].optional /\ planned[c][i].item = raw[c][i].item

\* A line that is required and bought unconditionally is in the plan, unless
\* the parent changed its row, with all its units, unless a control of the row
\* was filled by an earlier reading of the list that asked for fewer.
NothingVanishes ==
    planned # None => \A c \in {d \in Students : raw[d] # None} :
        \A i \in MustBePlanned(c) :
            /\ PlannedAs(c, i)
            /\ \/ planned[c][i].qty >= raw[c][i].qty
               \/ \E n \in NumbersHeld(i) : n # None /\ n < raw[c][i].qty

\* The same with all its units always.  Refuted by a line that is read again
\* with more of them.
EveryUnitIsPlanned ==
    planned # None => \A c \in {d \in Students : raw[d] # None} :
        \A i \in MustBePlanned(c) : PlannedAs(c, i) /\ planned[c][i].qty >= raw[c][i].qty

LineOf(read, i) ==
    IF read[i[1]] # None /\ i \in DOMAIN read[i[1]] THEN read[i[1]][i] ELSE None
Choice(row) == <<row.item, IF Active(row) THEN row.qty ELSE 0, row.owned, Deleted(row)>>

\* The controls of the row, in every place it was shown in, and the saved row
\* say the same.
Settled(i) ==
    /\ Choice(ShownRows[i]) = Choice(items[i])
    /\ \A c \in DOMAIN held :
         c[1] # "card" /\ c[2] = i =>
            held[c].owned = items[i].owned /\ held[c].deleted = Deleted(items[i])

\* When the reading of a list changes or removes a line the parent made a
\* choice about and undoes the choice, that is announced, or the row is asked
\* about again.
NoChoiceIsLostSilently ==
    [][raw' # raw =>
         \A i \in {j \in DOMAIN items : LineOf(raw', j) # LineOf(raw, j)} :
            LET chosen == Settled(i) /\ Choice(items[i]) # Choice(originals[i])
                kept == i \in DOMAIN items'
                undone == ~ kept \/ Choice(items'[i]) = Choice(originals'[i])
            IN  (chosen /\ undone) =>
                    \/ i \in notices'
                    \/ kept /\ Flagged(items'[i]) /\ items'[i].status = "pending"]_vars

\* What the parent decided about a clear line outlives the reading of the
\* lists, its own included, for as long as the line stays the same.
ChoicesSurviveRefresh ==
    [][raw' # raw =>
         \A i \in DOMAIN items :
            (/\ LineOf(raw, i) # None /\ LineOf(raw', i) = LineOf(raw, i)
             /\ LineOf(raw, i).flags = {}
             /\ Settled(i))
              => Choice(items'[i]) = Choice(items[i])]_vars
=============================================================================
