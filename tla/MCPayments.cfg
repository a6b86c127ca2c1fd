SPECIFICATION Spec
CONSTANTS
  p1 = p1
  p2 = p2
  h1 = h1
  h2 = h2
  Payments = {p1, p2}
  Handlers = {h1, h2}
  Direct = {p2}
  Dues <- MCDues
  Amount <- MCAmount
  MaxStarts = 3
  MaxFaults = 1
SYMMETRY HandlersInterchange
CHECK_DEADLOCK FALSE
INVARIANTS TypeOK AllocationsAddUp ClosedMeansClear RefundsWithinPayment SuccessIsJournaled UndisturbedOnRecord AllocatedInOrder ReversalTakesItBack
PROPERTIES ReopenedByStaleReading
