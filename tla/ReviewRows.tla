----------------------------- MODULE ReviewRows -----------------------------
(***************************************************************************)
(* The rows of the Personalize screen and the questions they raise: the    *)
(* pure functions of agent/review.py.                                      *)
(*                                                                         *)
(* A row is identified by <<student, number>>.  Lines of a list have the   *)
(* numbers the extraction gives them (child-1:req-1, child-1:req-2, ...),  *)
(* so two different lists of one student use the same identities; items    *)
(* the parent adds have numbers of their own (OwnNumbers).                 *)
(*                                                                         *)
(* Abstractions: "item" stands for the product and every detail of it but  *)
(* its quantity; "flags" for the issue codes that have an explanation;     *)
(* "cond" is the prompt of a conditional line and "branch" the group of    *)
(* mutually exclusive lines it belongs to, whose options are their items.  *)
(***************************************************************************)
EXTENDS Integers, FiniteSets, SequencesExt

CONSTANTS None,        \* an absent value
          OwnNumbers   \* the numbers of the items the parent adds

(***************************************************************************)
(* organize_extractions: one row per line, pending, or deleted when the    *)
(* line was kept out of the cart on the screen for repeated items.  A      *)
(* quantity of zero is no quantity, and then a flag of its own.            *)
(***************************************************************************)
MissingQuantity == "missing_quantity"
QuantityRange == "quantity_range"

ReviewIssues(line) ==
    line.flags \cup (IF line.qty < 1 THEN {MissingQuantity} ELSE {})

RowOf(line) ==
    [item |-> line.item, qty |-> IF line.qty > 0 THEN line.qty ELSE None,
     optional |-> line.optional, school |-> line.school, buys |-> line.buys,
     flags |-> ReviewIssues(line), cond |-> line.cond, branch |-> line.branch,
     applies |-> line.applies, status |-> IF line.removed THEN "deleted" ELSE "pending",
     owned |-> FALSE, removed |-> line.removed]

\* The rows of the readable lists; lists maps a student to the lines read,
\* by identity, or to None.
OrganizeExtractions(lists) ==
    LET ids == UNION {DOMAIN lists[c] : c \in {d \in DOMAIN lists : lists[d] # None}}
    IN  [id \in ids |-> RowOf(lists[id[1]][id])]

(***************************************************************************)
(* Flag groups: the rows that look alike and are flagged alike are asked   *)
(* about once, across the students.  A group is the set of its rows, as    *)
(* its identifier is a hash of their identifiers.                          *)
(***************************************************************************)
Deleted(row) == row.status = "deleted"
Active(row) == ~ Deleted(row) /\ ~ row.owned

\* The explanation of a range names the quantity chosen.
IssueExplanations(row) ==
    {<<f, IF f = QuantityRange THEN row.qty ELSE None>> : f \in row.flags}

Flagged(row) == row.flags # {} /\ row.buys /\ ~ row.school /\ ~ Deleted(row)

Signature(row) == <<row.item, row.qty, row.optional, IssueExplanations(row)>>

GroupsOf(flagged, signature) ==
    {{j \in flagged : signature[j] = signature[i]} : i \in flagged}

FlagGroups(rows) ==
    GroupsOf({i \in DOMAIN rows : Flagged(rows[i])},
             [i \in DOMAIN rows |-> Signature(rows[i])])

\* The groups a decision is still asked about.
UnhandledGroups(rows, groups, acknowledged) ==
    {g \in groups \ acknowledged : \E i \in g : rows[i].status # "confirmed"}

ApplyReviewConfirmations(rows, groups, acknowledged) ==
    LET StatusOf(i) ==
          IF Deleted(rows[i]) THEN "deleted"
          ELSE IF \E g \in groups \ acknowledged : i \in g THEN "pending"
          ELSE "confirmed"
    IN  [i \in DOMAIN rows |-> [rows[i] EXCEPT !.status = StatusOf(i)]]

(***************************************************************************)
(* Conditional lines.  The branches of a group are one question; a branch  *)
(* left alone, and a line without a group, are a yes or no question.       *)
(***************************************************************************)
GroupQuestion(rows, b, branches, first) ==
    LET chosen == {i \in branches : rows[i].applies = TRUE}
        labels == {rows[i].item : i \in branches}
    IN  [id |-> <<"branches", b>>, asker |-> first, prompt |-> rows[first].cond,
         labels |-> labels,
         selected |-> IF Cardinality(chosen) = 1
                      THEN rows[CHOOSE i \in chosen : TRUE].item ELSE None,
         option |-> [l \in labels |-> CHOOSE i \in branches : rows[i].item = l]]

FirstBranch(branches) == CHOOSE i \in branches : \A j \in branches : i[2] <= j[2]

RowQuestion(rows, i) ==
    [id |-> <<"row", i>>, asker |-> i, prompt |-> rows[i].cond,
     labels |-> {"yes", "no"},
     selected |-> CASE rows[i].applies = TRUE  -> "yes"
                    [] rows[i].applies = FALSE -> "no"
                    [] OTHER                   -> None,
     option |-> [l \in {"yes", "no"} |-> l]]

Grouped(rows, asked) ==
    {b \in {rows[i].branch : i \in asked} \ {None} :
        Cardinality({i \in asked : rows[i].branch = b}) >= 2}

QuestionsOf(rows, branchesOf, alone) ==
    {GroupQuestion(rows, b, branchesOf[b], FirstBranch(branchesOf[b])) :
        b \in DOMAIN branchesOf}
      \cup {RowQuestion(rows, i) : i \in alone}

QuestionsAmong(rows, asked, grouped) ==
    QuestionsOf(rows,
                [b \in grouped |-> {i \in asked : rows[i].branch = b}],
                {i \in asked : rows[i].branch \notin grouped})

Asked(rows) == {i \in DOMAIN rows : Active(rows[i]) /\ rows[i].cond # None}

ConditionalQuestions(rows) == QuestionsAmong(rows, Asked(rows), Grouped(rows, Asked(rows)))

\* The order of the questions: student, prompt, line.
AskedBefore(p, q) ==
    \/ p.asker[1] < q.asker[1]
    \/ p.asker[1] = q.asker[1] /\ p.prompt < q.prompt
    \/ p.asker[1] = q.asker[1] /\ p.prompt = q.prompt /\ p.asker[2] < q.asker[2]

\* Identical questions are asked once; a joint question is known by its place.
Joined(seq, q, same) ==
    IF same = {} THEN Append(seq, <<q>>)
    ELSE [k \in DOMAIN seq |-> IF k \in same THEN Append(seq[k], q) ELSE seq[k]]

Join(seq, q) ==
    Joined(seq, q, {k \in DOMAIN seq : /\ seq[k][1].prompt = q.prompt
                                      /\ seq[k][1].labels = q.labels})

DeduplicatedQuestions(rows) ==
    FoldLeft(Join, <<>>, SetToSortSeq(ConditionalQuestions(rows), AskedBefore))

JointSelection(joint) ==
    LET chosen == {joint[k].selected : k \in DOMAIN joint} \ {None}
    IN  IF Cardinality(chosen) = 1 THEN CHOOSE l \in chosen : TRUE ELSE None

\* The answer to a joint question, expanded to the questions it stands for.
AnswersForSelection(joint, label) ==
    {<<joint[k].id, joint[k].option[label]>> :
        k \in {j \in DOMAIN joint : label \in joint[j].labels}}

ApplyConditionalAnswers(rows, answers) ==
    LET QuestionOf(i) == IF rows[i].branch # None THEN <<"branches", rows[i].branch>>
                         ELSE <<"row", i>>
        Answered(i) == \E a \in answers : a[1] = QuestionOf(i)
        Applies(i) == IF rows[i].branch # None
                      THEN <<QuestionOf(i), i>> \in answers
                      ELSE <<QuestionOf(i), "yes">> \in answers
    IN  [i \in DOMAIN rows |->
            IF rows[i].cond = None \/ ~ Answered(i) THEN rows[i]
            ELSE [rows[i] EXCEPT !.applies = Applies(i),
                                 !.buys = Applies(i) /\ ~ rows[i].school]]

\* validate_mutually_exclusive_condition_groups: exactly one branch applies.
BranchesAreChosen(rows) ==
    LET active == {i \in DOMAIN rows : Active(rows[i]) /\ rows[i].branch # None}
    IN  \A b \in {rows[i].branch : i \in active} :
            Cardinality({i \in active : rows[i].branch = b /\ rows[i].applies = TRUE}) = 1

(***************************************************************************)
(* What is planned.                                                        *)
(***************************************************************************)
\* With a bug: the decisions are not looked at.
UnresolvedQuantities(rows) ==
    {i \in DOMAIN rows :
        LET row == rows[i] IN
        /\ ~ row.optional /\ row.buys /\ ~ row.school /\ Active(row)
        /\ row.qty = None \/ (row.cond # None /\ row.applies = None)}

UnresolvedRequiredItems(rows) ==
    {i \in DOMAIN rows :
        LET row == rows[i] IN
        /\ ~ row.optional /\ row.buys /\ ~ row.school /\ Active(row)
        /\ \/ row.status # "confirmed"
           \/ row.qty = None
           \/ row.cond # None /\ row.applies = None}

\* A line that is shown but not bought.
DisplayOnly(row) ==
    ~ row.buys \/ row.school \/ (row.cond # None /\ row.applies = FALSE)

ConfirmedRequirements(rows) ==
    LET kept == {i \in DOMAIN rows :
                    /\ Active(rows[i])
                    /\ rows[i].status = "confirmed" \/ DisplayOnly(rows[i])
                    /\ rows[i].qty # None}
        LineOf(row) ==
          LET buys == ~ DisplayOnly(row) IN
          [item |-> row.item, qty |-> row.qty, optional |-> ~ buys \/ row.optional,
           school |-> row.school, buys |-> buys,
           flags |-> row.flags \ {MissingQuantity}, cond |-> row.cond,
           branch |-> row.branch, applies |-> row.applies, removed |-> row.removed]
    IN  [i \in kept |-> LineOf(rows[i])]

\* The envelopes of the students who had one: a student without a list gets
\* none, whatever the rows say.
ReviewedEnvelopes(lists, rows) ==
    LET lines == ConfirmedRequirements(rows)
    IN  [c \in DOMAIN lists |->
            IF lists[c] = None THEN None
            ELSE [i \in {j \in DOMAIN lines : j[1] = c} |-> lines[i]]]
=============================================================================
