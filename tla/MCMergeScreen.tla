---------------------------- MODULE MCMergeScreen ----------------------------
(***************************************************************************)
(* Small instances of MergeScreen: lists of two items, one of which is     *)
(* used up and one of which is bought once, from two or three sections.    *)
(***************************************************************************)
EXTENDS MergeScreen

MCSingleInstance == {"scissors"}
MCPlausibleMaximum == [item \in {"folders", "scissors"} |-> IF item = "folders" THEN 10 ELSE 2]

Row(n, item, section, qty, detail, words) ==
    [req |-> <<n>>, item |-> item, qty |-> qty, detail |-> detail, words |-> words,
     ambiguous |-> None, brand |-> None, removed |-> FALSE,
     sources |-> {[line |-> <<n>>, origin |-> section]}]

\* Two sections ask for different amounts, whose sum is plausible or not.
Plausible == <<Row(1, "folders", "grade", 2, None, None),
               Row(2, "folders", "club", 3, None, None)>>
Implausible == <<Row(1, "folders", "grade", 8, None, None),
                 Row(2, "folders", "club", 4, None, None)>>
\* One section asks twice, another one once.
Repeated == <<Row(1, "folders", "grade", 4, None, None),
              Row(2, "folders", "grade", 5, None, None),
              Row(3, "folders", "club", 5, None, None)>>
\* The sections ask for different products, and one does not say which.
Kinds == <<Row(1, "folders", "grade", 4, "wide", None),
           Row(2, "folders", "club", 5, "narrow", None),
           Row(3, "folders", "music", 1, None, None)>>
\* The wording differs; three rows of two kinds.
Wording == <<Row(1, "folders", "grade", 7, None, "homework"),
              Row(2, "folders", "club", 3, None, None),
              Row(3, "folders", "music", 1, None, "homework")>>
\* A descriptor that may be a product, a brand, and an item bought once.
Described == <<[Row(1, "folders", "grade", 2, None, None) EXCEPT !.ambiguous = "sturdy"],
                  [Row(2, "folders", "club", 2, None, None) EXCEPT !.brand = "Five Star"],
                  Row(3, "scissors", "grade", 1, None, None),
                  Row(4, "scissors", "club", 1, None, None)>>

MCLists == {Plausible, Implausible, Repeated, Kinds, Wording, Described}

AddedRow(item, qty) == [Row(0, item, None, qty, None, "added") EXCEPT !.sources = {}]

MCAdded == {AddedRow("folders", 3), AddedRow("scissors", 1)}
MCEntered == {0, 7}
MCReplacements == {Implausible, Kinds}
=============================================================================
