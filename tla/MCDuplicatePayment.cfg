SPECIFICATION Spec
CONSTANTS
  p1 = p1
  p2 = p2
  h1 = h1
  h2 = h2
  Payments = {p1}
  Handlers = {h1, h2}
  Direct = {}
  Dues <- MCDues
  Amount <- MCAmount
  MaxStarts = 2
  MaxFaults = 0
CHECK_DEADLOCK FALSE
INVARIANT JournaledOnce
