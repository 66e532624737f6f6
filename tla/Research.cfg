SPECIFICATION MCSpec
CONSTANTS
  Questions = {"q1", "q2"}
  Gaps = {"g1"}
  Concurrency = 2
  MaxRounds = 1
  MaxSources = 3
  UrlsPerQuestion = 2
  MaxAttempts = 2
  MaxCancels = 1
  MaxFailures = 1
  MaxCrashes = 1
CHECK_DEADLOCK FALSE
INVARIANT ReportCoversItsPasses
INVARIANT TraceIsCausal
INVARIANT JobAndRowAgree
PROPERTY CancelBeforeBoundaryEndsAttempt
PROPERTY ResearchEnds
