SPECIFICATION Spec
CONSTANTS
  w1 = w1
  w2 = w2
  v1 = v1
  qa1 = qa1
  ad1 = ad1
  q1 = q1
  Nobody = Nobody
  Reviewers <- ReviewerSet
  InitRole <- StagedTeam
  NewRoles = {}
  Requests = {q1}
  Overlap = {"approve_content", "reject_course", "claim_qa"}
  Source = "CREATOR_UPLOADED"
  DeveloperVideo = "NONE"
  Payable = TRUE
  EngineOn = TRUE
  InitFlow = "STAGED"
  LateAppeals = FALSE
SYMMETRY Interchangeable
INVARIANTS
  TypeOK
  NoBypass
  SeatHeld
  EarlierSeatsStand
  VideoReviewed
  PaymentEarned
  PaidAtItsPrice
PROPERTIES
  PublishedIsFinal
  VerdictStands
  KeepsReview
