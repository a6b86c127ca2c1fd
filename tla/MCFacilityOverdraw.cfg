SPECIFICATION Spec
CONSTANTS
  c1 = c1
  o1 = o1
  o2 = o2
  r1 = r1
  r2 = r2
  NoOffer = NoOffer
  Customers = {c1}
  Offers = {o1, o2}
  OfferOwner <- MCOfferOwner
  OfferAmount <- MCOfferAmount
  MaxFacilities = 1
  Amounts = {1, 2}
  LoanLevels = {0, 1}
  MinDrawdown = 1
  ExposureCap = 2
  Requests = {r1, r2}
  MaxDrawn = 2
  MaxReversed = 0
INVARIANT AvailableNeverNegative
