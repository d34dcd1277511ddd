SPECIFICATION Spec
CONSTANTS
  n1 = n1
  n2 = n2
  n3 = n3
  a = a
  b = b
  c = c
  d = d
  None = None
  Need <- TwoNeeds
  Sku <- ThreeSkus
  Payer <- Family
  Order <- Position
  Item <- Apart
  PaidBy <- ByFamily
  Candidates <- Suitable
  Major <- NoneDiffers
  Preference <- Rank
  SecondStore <- NoSku
  Wanted <- Whole
  AddOn <- NoExtra
  AddOnSku <- ExtraSku
  AddOnOrder <- ExtraOrder
  Price <- Prices
  FirstPrice <- Opening
  Budget <- Tight
  PerChild = FALSE
  MaxChanges = 2
  MaxPlans = 2
INVARIANTS NothingIsDropped LeftOutStaysOut
