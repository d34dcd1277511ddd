------------------------------- MODULE Rules -------------------------------
(* The business rules of agent/rules.py that the purchase side computes     *)
(* with, in whole cents and units, and the orders Python compares by.       *)
EXTENDS Integers, Sequences, FiniteSets

OVERAGE_PERCENT == 50
OVERAGE_ABSOLUTE_UNITS == 6
ADDITIONAL_STORE_PENALTY_CENTS == 600
BASIS_POINTS_DENOMINATOR == 10000
TAX_ROUNDING_OFFSET == BASIS_POINTS_DENOMINATOR \div 2
OPTIONAL_ITEM_HEADROOM_PERCENT == 90
INTERRUPT_DESIGN_FAILURE_COUNT == 6
BUDGET_ALTERNATIVE_PLAN_COUNT == 2
BUDGET_PLAN_CANDIDATE_LIMIT == 50
PREFERENCE_DEPENDENT_ATTRIBUTES == {"acceptable_colors", "color", "character", "style"}

CONSTANT None   \* Python's None, wherever it stands

ASSUME NoneIsNoNumber == None \notin Int

----------------------------------------------------------------------------
\* Tuples are compared as Python compares them: the first difference decides,
\* and a proper prefix comes first.
Less(s, t) ==
  \E i \in DOMAIN t :
    /\ \A j \in 1..(i - 1) : j <= Len(s) /\ s[j] = t[j]
    /\ i > Len(s) \/ s[i] < t[i]

\* min(S, key=Key) where no two members have the same key.
Least(S, Key(_)) ==
  CHOOSE x \in S : \A y \in S \ {x} : ~Less(Key(y), Key(x))

\* bool as it is compared: False before True.
AsNumber(b) == IF b THEN 1 ELSE 0

\* sorted(S) where before(x, y) puts any two different members in an order.
Sorted(S, before(_, _)) ==
  [k \in 1..Cardinality(S) |->
     CHOOSE x \in S : Cardinality({y \in S : before(y, x)}) = k - 1]

Pick(seq, keep) == [k \in DOMAIN keep |-> seq[keep[k]]]

\* The members of a sequence whose index satisfies a test, in order.
At(seq, Test(_)) == Pick(seq, Sorted({i \in DOMAIN seq : Test(i)}, <))
=============================================================================
