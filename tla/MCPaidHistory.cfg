SPECIFICATION Spec
CONSTANTS
  h1 = h1
  h2 = h2
  Handlers = {h1, h2}
  Principal = 2
  Tenure = 2
  Tenures = {1, 2}
  Amounts = {0, 1}
  MaxEmi = 3
  MaxInterest = 2
  MaxStarts = 3
SYMMETRY HandlersInterchange
CHECK_DEADLOCK FALSE
INVARIANTS PaidHistoryKept
