SPECIFICATION FairSpec
CONSTANTS
  Payers = {p1}
  Requestors = {q1, q2}
  Nobody = Nobody
  Repeated = {"funding_record"}
  MaxFaults = 1
INVARIANTS
  SeatsAgree
  LosersSpendNothing
PROPERTIES
  Concludes
CHECK_DEADLOCK FALSE
