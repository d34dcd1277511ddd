SPECIFICATION Spec
CONSTANTS
  n1 = n1
  n2 = n2
  n3 = n3
  a = a
  b = b
  c = c
  d = d
  None = None
  Need <- TwoNeeds
  Sku <- FourSkus
  Payer <- Family
  Order <- Position
  Item <- Items
  PaidBy <- ByFamily
  Candidates <- Suitable
  Major <- Different
  Preference <- Rank
  SecondStore <- NoSku
  Wanted <- Whole
  AddOn <- OneExtra
  AddOnSku <- ExtraSku
  AddOnOrder <- ExtraOrder
  Price <- Prices
  FirstPrice <- Opening
  Budget <- Enough
  PerChild = FALSE
  MaxChanges = 2
  MaxPlans = 1
INVARIANTS SummaryIsCurrent EveryQuestionAnswered AnswersAreHonoured ConfirmationOutlivesNoReplan
