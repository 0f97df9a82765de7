SPECIFICATION Spec
CONSTANTS
  w1 = w1
  w2 = w2
  v1 = v1
  qa1 = qa1
  ad1 = ad1
  q1 = q1
  Nobody = Nobody
  Reviewers <- LeastPool
  InitRole <- LeastDirect
  NewRoles = {"ERASED"}
  Requests = {q1}
  Overlap = {"submit_video", "change_role", "reject_qa"}
  Source = "CREATOR_UPLOADED"
  DeveloperVideo = "NONE"
  Payable = TRUE
  EngineOn = TRUE
  InitFlow = "DIRECT"
  LateAppeals = FALSE

INVARIANTS
  PaidOnce
