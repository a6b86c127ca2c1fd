SPECIFICATION Spec
CONSTANTS
  maker = maker
  officer = officer
  k1 = k1
  Nobody = Nobody
  NoKey = NoKey
  MaxOps = 3
  MaxTasks = 2
  Users = {maker, officer}
  Supervisors = {officer}
  Keys = {k1}
  Targets = {"CANCELLED", "DISBURSED"}
  StageTargets = {"DISBURSED", "ACTIVE", "CLOSED"}
  Outcomes = {"APPROVED", "UNDER_REVIEW", "UNDERWRITING", "REJECTED"}
CHECK_DEADLOCK FALSE
INVARIANTS TypeOK ApprovedByAnother ExecutedOnce PaidOnceUndisturbed BooksNeverAhead MakerWaits
PROPERTIES DisbursedIsKept RevivalNeedsFailure
