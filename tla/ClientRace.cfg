SPECIFICATION FairSpec
CONSTANTS
  p = p
  q = q
  Clients <- Everybody
  Role <- RoleOf
  Script <- Race
  MaxConflicts = 2
  MaxAttempts = 2
  MaxLog = 2
  Endless = Endless
  MaxFailures = Endless
INVARIANTS
  UnlostIsHonest
  PostsInOrder
  OneClaim
PROPERTIES
  CallsEnd
CHECK_DEADLOCK FALSE
