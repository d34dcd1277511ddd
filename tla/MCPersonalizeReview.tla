------------------------- MODULE MCPersonalizeReview -------------------------
EXTENDS PersonalizeReview

Line(item, qty, flags) ==
    [item |-> item, qty |-> qty, optional |-> FALSE, school |-> FALSE, buys |-> TRUE,
     flags |-> flags, cond |-> None, branch |-> None, applies |-> None, removed |-> FALSE]
Removed(line) == [line EXCEPT !.removed = TRUE]
Optional(line) == [line EXCEPT !.optional = TRUE]
Provided(line) == [line EXCEPT !.school = TRUE, !.buys = FALSE, !.optional = TRUE]
If(prompt, line) == [line EXCEPT !.cond = prompt]
Branch(b, line) == [line EXCEPT !.branch = b]

List(c, lines) == [i \in {<<c, n>> : n \in DOMAIN lines} |-> lines[i[2]]]

Unclear == {"low_confidence"}
MCTwoStudents == 1..2
MCQuantities == {5}
MCAdded == {[item |-> "tape", qty |-> 1]}

\* Two students share an unclear line; the first has a line the school
\* provides and one kept out of the cart before, the second a conditional one, and the second list may be replaced
\* by one that asks for more of something else on the unclear line.
MCReadings ==
    LET Second(item, qty) ==
          List(2, <<Line(item, qty, Unclear), If("plays", Line("reed", 1, {}))>>)
    IN  <<{List(1, <<Line("pencils", 2, Unclear), Provided(Line("tissues", 2, {})),
                 Removed(Line("glue", 1, {}))>>)},
          {Second("pencils", 2), Second("crayons", 3)}>>

\* Two students with the same unclear line in different quantities, which an
\* edit can make the same.
MCMeeting ==
    <<{List(1, <<Line("pencils", 2, Unclear)>>)}, {List(2, <<Line("pencils", 3, Unclear)>>)}>>
MCMeetingQuantities == {2}

\* One student whose list is replaced by one that asks for more.
MCOneStudent == 1..1
MCMore == <<{List(1, <<Line("glue", 2, {})>>), List(1, <<Line("glue", 3, {})>>)}>>

\* One student whose unclear line is read again with more units, and one who
\* has an unclear line twice.
MCUnclearMore ==
    <<{List(1, <<Line("pencils", 2, Unclear)>>), List(1, <<Line("pencils", 3, Unclear)>>)}>>
MCTwice == <<{List(1, <<Line("pencils", 2, Unclear), Line("pencils", 2, Unclear)>>)}>>

\* Two students who share an unclear line, in lists that stay as they are.
MCSharing ==
    <<{List(1, <<Line("pencils", 2, Unclear)>>)}, {List(2, <<Line("pencils", 2, Unclear)>>)}>>
=============================================================================
