------------------------------ MODULE ListReading ------------------------------
(* What reading the uploaded lists promises: each list ends read or reported *)
(* as failed, what is read stays read, and nobody sees the outcome before    *)
(* every list has one (E-33).                                                *)
EXTENDS FiniteSets

CONSTANT List

VARIABLES read, failed, published

Init == read = {} /\ failed = {} /\ published = FALSE

Read(l) ==
  /\ ~published /\ l \notin read
  /\ read' = read \cup {l} /\ failed' = failed \ {l}
  /\ UNCHANGED published

Fail(l) ==
  /\ ~published /\ l \notin read
  /\ failed' = failed \cup {l}
  /\ UNCHANGED <<read, published>>

Publish ==
  /\ ~published /\ read \cup failed = List
  /\ published' = TRUE
  /\ UNCHANGED <<read, failed>>

\* The screen is drawn again before the reading is over.
Abandon ==
  /\ ~published
  /\ read' = {} /\ failed' = {}
  /\ UNCHANGED published

Next == (\E l \in List : Read(l) \/ Fail(l)) \/ Publish \/ Abandon

Spec == Init /\ [][Next]_<<read, failed, published>>
=============================================================================
