SPECIFICATION Spec
CONSTANTS
  w1 = w1
  w2 = w2
  v1 = v1
  qa1 = qa1
  ad1 = ad1
  q1 = q1
  Nobody = Nobody
  Reviewers <- ReviewerSet
  InitRole <- DirectTeam
  NewRoles = {}
  Requests = {q1}
  Overlap = {"approve_content", "reject_course", "update_draft", "delete_draft", "approve_appeal", "record_video_decision"}
  Source = "CREATOR_UPLOADED"
  DeveloperVideo = "NONE"
  Payable = FALSE
  EngineOn = TRUE
  InitFlow = "DIRECT"
  LateAppeals = FALSE
SYMMETRY Interchangeable
INVARIANTS
  FourEyes
