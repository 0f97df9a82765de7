SPECIFICATION Spec
CONSTANTS
  w1 = w1
  w2 = w2
  v1 = v1
  qa1 = qa1
  ad1 = ad1
  q1 = q1
  Nobody = Nobody
  Reviewers <- SmallPool
  InitRole <- SmallTeam
  NewRoles = {"STAFF_VERIFIER", "ERASED"}
  Requests = {}
  Overlap = {}
  Source = "DEVELOPER_API"
  DeveloperVideo = "NONE"
  Payable = TRUE
  EngineOn = TRUE
  InitFlow = "STAGED"
  LateAppeals = FALSE
SYMMETRY Interchangeable
INVARIANTS
  SeatStates
