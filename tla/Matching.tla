------------------------------ MODULE Matching ------------------------------
(* Which products will do for a need: agent/match.py.  The lists are rolled *)
(* up into needs, the rules pair each need with the products of the stores  *)
(* in reach, a model judges the pairs in concurrent batches, and what it    *)
(* answers, in whatever order the batches end, is classified.               *)
EXTENDS ShoppingNeeds, CartCosts

CONSTANTS
  Lists,        \* the organized lists to choose from: sequences of lines
  StudentCounts,\* student_counts_by_child, a function of the children
  Offers,       \* the catalog, a sequence of products
  Stores,       \* a function of store ids
  SessionConfig,\* allowed stores, radius and fulfillment preference
  MODEL_MAX_CONCURRENCY,
  Confidences   \* what the model may say, in tenths

\* The lines are those of the sequence of requirements, each with an id of its
\* own; every child stands for a student or more, and counts are whole numbers.
ASSUME MatchingConstants ==
  /\ MODEL_MAX_CONCURRENCY \in Nat \ {0}
  /\ StudentCounts \in [DOMAIN StudentCounts -> Nat \ {0}]
  /\ StandardPackCounts \in [DOMAIN StandardPackCounts -> Nat]
  /\ Offers \in Seq(Range(Offers))
  /\ \A lines \in Lists :
       /\ lines \in Seq(Range(lines))
       /\ \A j, k \in DOMAIN lines : lines[j].id = lines[k].id => j = k
       /\ \A k \in DOMAIN lines :
            /\ lines[k].quantity \in Int
            /\ lines[k].child \in DOMAIN StudentCounts
            /\ ExplicitCount(lines[k]) \in Nat \cup {None}

CONFIDENCE_FLOOR == 7
MINIMUM_MATCH_CONFIDENCE == 0
MAJOR_PACK_DIFFERENCE_PERCENT == 20

AttributeSensitiveFields ==
  {"acceptable_colors", "character", "size", "ruling", "tab_count", "tip_style",
   "format", "material", "style", "connector", "sharpened"}

ExclusionNoiseWords ==
  {"a", "an", "and", "backpack", "backpacks", "box", "boxes", "class", "for", "no",
   "notebook", "notebooks", "not", "only", "pencil", "pencils", "please",
   "substitute", "substitutes", "the", "without"}

----------------------------------------------------------------------------
(* The pairs the rules let through *)

ViolatesExclusion(need, offer) ==
  \E e \in need.exclusions : (e \ ExclusionNoiseWords) \cap offer.words # {}

StoreIsInScope(s) ==
  /\ SessionConfig.allowed = None \/ s \in SessionConfig.allowed
  /\ StoreSupportsFulfillment(Stores[s], SessionConfig)

MayServe(need, offer) ==
  /\ StoreIsInScope(offer.store)
  /\ offer.stock > 0
  /\ offer.category = need.item
  /\ need.brand \in {None, offer.brand}
  /\ ~ViolatesExclusion(need, offer)

\* A case is a pair: the need's place and the product's place.
PrefilterCases(needs) ==
  {c \in (DOMAIN needs) \X (DOMAIN Offers) : MayServe(needs[c[1]], Offers[c[2]])}

----------------------------------------------------------------------------
(* How far a product is from what is asked for *)

OfferedValues(offer, field) ==
  IF field \in DOMAIN offer.values THEN offer.values[field] ELSE {}

Requested(need) ==
  {f \in AttributeSensitiveFields \cap DOMAIN need.attributes :
     f = "acceptable_colors" => need.attributes[f] # <<>>}

\* Any of the colours will do; anything else has to have every word.
Fits(need, offer, field) ==
  LET wanted == need.attributes[field]
      offered == OfferedValues(offer, field)
  IN  IF field = "acceptable_colors" THEN ToSet(wanted) \cap offered # {}
      ELSE \E words \in offered : wanted \subseteq words

AttributeChanges(need, offer) ==
  {f \in Requested(need) : OfferedValues(offer, f) # {} /\ ~Fits(need, offer, f)}
UnknownAttributes(need, offer) ==
  {f \in Requested(need) : OfferedValues(offer, f) = {}}

RequestedPackCount(need) ==
  IF "normalized_container_unit" \in DOMAIN need.attributes
     \/ "count" \notin DOMAIN need.attributes
  THEN None ELSE need.attributes["count"]

Distance(m, n) == IF m < n THEN n - m ELSE m - n

PackCountDifferenceIsMajor(offered, requested) ==
  Distance(offered, requested) * 100 > requested * MAJOR_PACK_DIFFERENCE_PERCENT

ClassifySubstitution(need, offer) ==
  LET changes == AttributeChanges(need, offer)
      count == RequestedPackCount(need)
  IN  [status |-> IF changes # {} THEN "different"
                  ELSE IF UnknownAttributes(need, offer) # {} THEN "unknown" ELSE "exact",
       type |-> IF \/ changes # {}
                   \/ count # None /\ PackCountDifferenceIsMajor(offer.pack, count)
                THEN "major"
                ELSE IF need.brand = None \/ (count # None /\ offer.pack # count)
                THEN "minor" ELSE "none"]

----------------------------------------------------------------------------
(* The judge: one batch of needs per worker *)

VARIABLES
  lists,      \* the confirmed lists
  stage,      \* "lists", "judging", "leaving", "matched" or "failed"
  needs,      \* the needs that the lists add up to
  cases,      \* the pairs to judge
  batchNeeds, \* for each batch, its needs
  batch,      \* for each batch: "calling", "retrying", "answered" or "raised"
  answers,    \* for each batch, what its model call answered: pair to judgment
  gathered,   \* the batches whose results have been collected
  decisions,  \* decisions_by_key: pair to judgment
  shown       \* completed_needs, as last shown to the parent

work == <<lists, needs, cases, batchNeeds>>
vars == <<stage, work, batch, answers, gathered, decisions, shown>>

\* The needs with any case, dealt to the batches in turn.
DealNeeds(pairs) ==
  LET groups == {c[1] : c \in pairs}
      position(n) == Cardinality({m \in groups : m < n})
      count == Min({Cardinality(groups), MODEL_MAX_CONCURRENCY})
  IN  [b \in 1..count |-> {n \in groups : position(n) % count = b - 1}]

Batches == DOMAIN batchNeeds
BatchCases(b) == {c \in cases : c[1] \in batchNeeds[b]}

Judgments == [suitable : BOOLEAN, confidence : Confidences]

Init ==
  /\ lists \in Lists
  /\ stage = "lists" /\ needs = <<>> /\ cases = {} /\ batchNeeds = <<>>
  /\ batch = <<>> /\ answers = <<>>
  /\ gathered = {} /\ decisions = <<>> /\ shown = 0

\* The pipeline adds up the lists; a classroom list that does not say whose
\* the quantities are stops it.
AddUpLists ==
  /\ stage = "lists"
  /\ LET norm == BudgetRequirements(lists)
     IN  IF CannotAggregate(norm, StudentCounts)
         THEN stage' = "failed" /\ UNCHANGED needs
         ELSE stage' = "split" /\ needs' = AggregateRequirements(norm, StudentCounts)
  /\ UNCHANGED <<lists, cases, batchNeeds, batch, answers, gathered, decisions, shown>>

\* match_offers: the pairs are handed to the judge, which calls the model
\* for every batch at once; without pairs it calls nobody.
Judge ==
  /\ stage = "split"
  /\ cases' = PrefilterCases(needs)
  /\ stage' = IF cases' = {} THEN "matched" ELSE "judging"
  /\ batchNeeds' = DealNeeds(cases')
  /\ batch' = [b \in DOMAIN batchNeeds' |-> "calling"]
  /\ answers' = [b \in DOMAIN batchNeeds' |-> <<>>]
  /\ UNCHANGED <<lists, needs, gathered, decisions, shown>>

Calling(b) == batch[b] \in {"calling", "retrying"}

\* The model answers for any of the pairs of its batch.
ModelAnswers(b) ==
  /\ Calling(b)
  /\ \E judged \in SUBSET BatchCases(b) :
       \E a \in [judged -> Judgments] : answers' = [answers EXCEPT ![b] = a]
  /\ batch' = [batch EXCEPT ![b] = "answered"]
  /\ UNCHANGED <<stage, work, gathered, decisions, shown>>

\* With a bug: an invalid answer is asked for again, always.
AnswerIsInvalidAgain(b) ==
  /\ Calling(b)
  /\ batch' = [batch EXCEPT ![b] = IF @ = "calling" THEN "retrying" ELSE "calling"]
  /\ UNCHANGED <<stage, work, answers, gathered, decisions, shown>>

\* An answer that does not validate is asked for once more
\* (MODEL_CALL_MAX_RETRIES is one); the second time
\* the batch ends with no judgment.
AnswerIsInvalid(b) ==
  /\ Calling(b)
  /\ batch' = [batch EXCEPT ![b] = IF @ = "calling" THEN "retrying" ELSE "answered"]
  /\ UNCHANGED <<stage, work, answers, gathered, decisions, shown>>

\* Any other error of the call (the service, a timeout) is raised.
CallFails(b) ==
  /\ Calling(b)
  /\ batch' = [batch EXCEPT ![b] = "raised"]
  /\ UNCHANGED <<stage, work, answers, gathered, decisions, shown>>

NeedsDone(bs) == Cardinality(UNION {batchNeeds[b] : b \in bs})

\* as_completed: the results are collected as the batches end.
Gather(b) ==
  /\ stage = "judging" /\ b \notin gathered /\ batch[b] = "answered"
  /\ gathered' = gathered \cup {b}
  /\ decisions' = With(decisions, answers[b])
  /\ shown' = NeedsDone(gathered')
  /\ stage' = IF gathered' = Batches THEN "matched" ELSE stage
  /\ UNCHANGED <<work, batch, answers>>

\* An error is raised once the pool has shut down: the other calls go on.
GatherError(b) ==
  /\ stage = "judging" /\ batch[b] = "raised"
  /\ stage' = "leaving"
  /\ UNCHANGED <<work, batch, answers, gathered, decisions, shown>>

LeavePool ==
  /\ stage = "leaving" /\ \A b \in Batches : ~Calling(b)
  /\ stage' = "failed"
  /\ UNCHANGED <<work, batch, answers, gathered, decisions, shown>>

Done == stage \in {"matched", "failed"} /\ UNCHANGED vars

MainThread == AddUpLists \/ Judge \/ LeavePool \/ \E b \in Batches : Gather(b) \/ GatherError(b)
ModelCall(b) == ModelAnswers(b) \/ AnswerIsInvalid(b) \/ CallFails(b)
Next == MainThread \/ (\E b \in Batches : ModelCall(b)) \/ Done

\* A call ends by its timeout at the latest.
Spec ==
  /\ Init /\ [][Next]_vars
  /\ WF_vars(MainThread)
  /\ \A b \in 1..MODEL_MAX_CONCURRENCY : WF_vars(b \in Batches /\ ModelCall(b))

----------------------------------------------------------------------------
(* What is found for each need *)

\* With a bug: without a judgment the rules are trusted.
JudgmentTrusted(c) ==
  IF c \in DOMAIN decisions THEN decisions[c] ELSE [suitable |-> TRUE, confidence |-> 10]

\* With a bug: a product nobody judged is left out.
JudgmentOrNone(c) ==
  IF c \in DOMAIN decisions THEN decisions[c] ELSE [suitable |-> FALSE, confidence |-> 0]

\* A pair without a judgment is for the parent to judge.
Judgment(c) ==
  IF c \in DOMAIN decisions THEN decisions[c]
  ELSE [suitable |-> TRUE, confidence |-> MINIMUM_MATCH_CONFIDENCE]

Suitable(i) == {c[2] : c \in {d \in cases : d[1] = i /\ Judgment(d).suitable}}
Candidates(i) == {o \in Suitable(i) : Judgment(<<i, o>>).confidence >= CONFIDENCE_FLOOR}
ReviewBlocked(i) == Suitable(i) \ Candidates(i)

Unfulfillable(i) == Candidates(i) = {} /\ ReviewBlocked(i) = {}
RequiresConfidenceReview(i) == Candidates(i) = {} /\ ReviewBlocked(i) # {}

Class(i, o) == ClassifySubstitution(needs[i], Offers[o])

\* Approval-free before the rest, of those exact ones first.
OptimizationCandidates(i) ==
  LET free == {o \in Candidates(i) : Class(i, o).type # "major"}
      pool == IF free # {} THEN free ELSE Candidates(i)
      of(status) == {o \in pool : Class(i, o).status = status}
  IN  IF of("exact") # {} THEN of("exact")
      ELSE IF of("unknown") # {} THEN of("unknown") ELSE pool

----------------------------------------------------------------------------
Purchasable == BudgetRequirements(lists)
SourcesOf(i) == {k \in DOMAIN Purchasable : Purchasable[k].source.id \in ToSet(needs[i].sources)}

TypeOK ==
  /\ stage \in {"lists", "split", "judging", "leaving", "matched", "failed"}
  /\ gathered \subseteq Batches
  /\ DOMAIN decisions \subseteq cases
  /\ shown \in 0..Len(needs)
  /\ \A b \in Batches :
       /\ batch[b] \in {"calling", "retrying", "answered", "raised"}
       /\ DOMAIN answers[b] \subseteq BatchCases(b)

\* Each line is bought in exactly one need, and each child gets the units
\* its lines ask for, for every student unless the class shares them (FR-14,
\* FR-15, FR-16).
EveryUnitReachesANeed ==
  stage \in {"split", "judging", "matched"} =>
    LET students(n) == IF n.source.scope = "shared" THEN 1
                       ELSE StudentCounts[n.source.child]
        asked(child) == SumFunction([k \in DOMAIN Purchasable |->
                          IF Purchasable[k].source.child = child
                          THEN Purchasable[k].quantity * students(Purchasable[k]) ELSE 0])
        given(child) == SumFunction([i \in DOMAIN needs |->
                          IF child \in DOMAIN needs[i].allocatedTo
                          THEN needs[i].allocatedTo[child] ELSE 0])
    IN  /\ \A k \in DOMAIN Purchasable :
             Quantify(DOMAIN needs, LAMBDA i : k \in SourcesOf(i)) = 1
        /\ \A child \in DOMAIN StudentCounts : asked(child) = given(child)
        /\ \A i \in DOMAIN needs :
             needs[i].quantity = SumFunction(needs[i].allocatedTo)

\* Rolling lines up never loosens one: what will do for a need has the brand
\* of each of its lines and nothing any of them rules out, unless the item is
\* ruled to be without it anyway (BR-13, FR-20).
EveryLineIsHonoured ==
  stage = "matched" =>
    \A i \in DOMAIN needs : \A o \in Candidates(i) : \A k \in SourcesOf(i) :
      LET r == Purchasable[k].source
      IN  /\ r.brand \in {None, Offers[o].brand}
          /\ \A e \in r.exclusions :
               e \cap Implied(r.item) = {}
                 => (e \ ExclusionNoiseWords) \cap Offers[o].words = {}

\* Nothing is bought that the model did not find suitable with confidence,
\* whichever batches fail, stay silent on a pair or end late (BR-11).
UnjudgedIsNeverBought ==
  stage = "matched" =>
    \A i \in DOMAIN needs : \A o \in OptimizationCandidates(i) :
      \E b \in gathered :
        /\ <<i, o>> \in DOMAIN answers[b]
        /\ answers[b][<<i, o>>].suitable
        /\ answers[b][<<i, o>>].confidence >= CONFIDENCE_FLOOR

\* A need becomes a gap only when the rules or a judgment leave nothing: a
\* batch without an answer sends it to the parent instead (E-12, BR-11).
SilenceIsNoRefusal ==
  stage = "matched" =>
    \A i \in DOMAIN needs :
      Unfulfillable(i) =>
        \A c \in cases : c[1] = i =>
          \E b \in gathered : c \in DOMAIN answers[b] /\ ~answers[b][c].suitable

\* A product that would have to be approved is put forward only when every
\* judged product would; and one that is known to be exactly what is asked
\* for is never left out when another like it, or one that only may be, is
\* put forward (FR-19, BR-01).
ApprovalsAreTheLastResort ==
  stage = "matched" =>
    \A i \in DOMAIN needs :
      LET count == RequestedPackCount(needs[i])
          asAsked(o) ==
            /\ \A f \in Requested(needs[i]) :
                 OfferedValues(Offers[o], f) # {} => Fits(needs[i], Offers[o], f)
            /\ count # None =>
                 /\ 5 * Offers[o].pack <= 6 * count
                 /\ 5 * Offers[o].pack >= 4 * count
          exact(o) ==
            \A f \in Requested(needs[i]) :
              OfferedValues(Offers[o], f) # {} /\ Fits(needs[i], Offers[o], f)
          put == OptimizationCandidates(i)
      IN  /\ put # {} <=> Candidates(i) # {}
          /\ (\E o \in Candidates(i) : asAsked(o)) => \A o \in put : asAsked(o)
          /\ \A o \in put, p \in Candidates(i) :
               (asAsked(o) <=> asAsked(p)) /\ exact(p) => exact(o) /\ p \in put

\* A ream is bought as so many of the catalog's packs as hold its sheets, with
\* less than a pack left over (E-17: "Convert using unit type").
ReamsAreConverted ==
  stage = "matched" =>
    \A i \in DOMAIN needs :
      (\A k \in SourcesOf(i) : Purchasable[k].source.unit = "ream") =>
        \A o \in Candidates(i) :
          LET sheets == Offers[o].contents
              asked == MapThenSumSet(LAMBDA k : REAM_SHEET_COUNT * Purchasable[k].source.quantity
                         * (IF Purchasable[k].source.scope = "shared" THEN 1
                            ELSE StudentCounts[Purchasable[k].source.child]), SourcesOf(i))
          IN  needs[i].quantity * sheets < asked + sheets

\* The progress the parent sees counts needs that have been answered, never
\* goes back, and stands at all of them when matching ends.
ProgressIsTrue ==
  [][/\ shown' >= shown
     /\ stage' = "matched" => shown' = Cardinality({c[1] : c \in cases'})]_vars

\* Matching ends, whatever the calls do: it answers or it fails.
MatchingEnds == <>(stage \in {"matched", "failed"})
=============================================================================
