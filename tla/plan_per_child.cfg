SPECIFICATION Spec
CONSTANTS
  n1 = n1
  n2 = n2
  n3 = n3
  a = a
  b = b
  c = c
  d = d
  None = None
  Need <- ThreeNeeds
  Sku <- FourSkus
  Payer <- Children
  Order <- Position
  Item <- Apart
  PaidBy <- ByChild
  Candidates <- Suitable
  Major <- Different
  Preference <- Rank
  SecondStore <- NoSku
  Wanted <- Whole
  AddOn <- NoExtra
  AddOnSku <- ExtraSku
  AddOnOrder <- ExtraOrder
  Price <- Prices
  FirstPrice <- Opening
  Budget <- Tighter
  PerChild = TRUE
  MaxChanges = 1
  MaxPlans = 1
INVARIANTS AnswersAreHonoured
