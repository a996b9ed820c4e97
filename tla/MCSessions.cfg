SPECIFICATION FrontSpec
CONSTANTS
  Roles <- MCRoles
  HasRoles = TRUE
  Configured = {"c", "d"}
  WritableClusters = {"d"}
  Browsers = {b1, b2}
  Subjects = {s1}
  Memberships <- MCMemberships
  MaxTime = 3
  MaxAge = 2
  LoginTimeout = 2
  MaxSignIns = 3
  Cluster = "c"
  Clients = {m1, m2, m3}
  Granted <- MCGranted
  Reach <- MCReach
  MaxCalls = 2
  LiveQuota = 1
INVARIANTS OwnRights EndedSessionGetsNothing ExplainedAsCalled LiveCallsArePaid ChangesAreAnswered
SYMMETRY Symmetry
CHECK_DEADLOCK FALSE
