SPECIFICATION Spec
CONSTANTS
  c1 = c1
  o1 = o1
  o2 = o2
  r1 = r1
  r2 = r2
  NoOffer = NoOffer
  Customers = {c1}
  Offers = {o1, o2}
  OfferOwner <- MCOfferOwner
  OfferAmount <- MCOfferAmount
  MaxFacilities = 2
  Amounts = {1}
  LoanLevels = {0}
  MinDrawdown = 1
  ExposureCap = 1
  Requests = {r1, r2}
  MaxDrawn = 1
  MaxReversed = 0
SYMMETRY RequestsInterchange
PROPERTIES DrawdownRespectsCap
