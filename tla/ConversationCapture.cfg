SPECIFICATION FairSpec
CONSTANTS
  FailureRun = 2
  InspectionRun = 2
  c1 = c1
  c2 = c2
  Watched = Watched
  Calls = {c1}
  Mcp = Mcp
  None = None
  Items <- MCItems
  Bodies <- MCBodies
  Replies <- MCReplies
  CaptureLimit = 14
  Scenarios <- MCScenarios
INVARIANTS CaptureExact AnswerPassedOn CallStoredOrCause ShutdownWaits PromptsOffRespected EvidenceOfMessages ItemCountsOnce GuidanceFollowsEvidence AnswerOnRecord ListingFaithful
PROPERTIES DeletedStaysAway CallEnds
CHECK_DEADLOCK FALSE
