SPECIFICATION Spec
CONSTANTS
  maker = maker
  officer = officer
  Nobody = Nobody
  MaxOps = 3
  MaxCases = 2
  MaxPromises = 2
  MaxRequests = 1
  Users = {maker, officer}
  CaseTargets = {"IN_PROGRESS", "ON_HOLD"}
CHECK_DEADLOCK FALSE
INVARIANTS TypeOK JournaledOnce SignedByAnother
PROPERTIES LoanStaysClosed CasesStayClosed OutcomesStay
