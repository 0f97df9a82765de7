\* One generation job on two workers; one event, two overlapping passes; two ideas
\* of the crawler and one of a developer, all of one title; three administrators;
\* three requests with one key.
SPECIFICATION PlatformSpec
CONSTANTS
  Jobs = {j1}
  Workers = {w1, w2}
  Parts = {"m", "f"}
  MaxJobFaults = 3
  Occurrences = {o1}
  Endpoints = {n1, n2}
  Quiet = n2
  Takes <- Subscriptions
  Passes = {p1, p2}
  MaxAttempts = 2
  MaxPassCrashes = 1
  Ideas = {i1, i2, i3}
  Crawled = {i1, i2}
  DailyCap = 1
  MinDecisions = 2
  MaxCourseIds = 2
  Admins = {a1, a2, a3}
  MaxKeys = 2
  Requests = {r1, r2, r3}
  Bodies = {b1, b2}
  MaxDeaths = 1
  MaxLives = 1
  SlowRequests = FALSE
INVARIANTS OutcomesAreTrue  AnnouncedCourse QueueIsBounded RevokedKeyStaysDead RepliesAreTrue
PROPERTIES  WorkSettles
CHECK_DEADLOCK FALSE
