SPECIFICATION Spec
CONSTANTS
  FailureRun = 2
  InspectionRun = 2
  c1 = c1
  c2 = c2
  Watched = Watched
  Calls = {c1}
  Mcp = Mcp
  None = None
  Items <- MCItems
  Bodies <- MCBodies
  Replies <- MCReplies
  CaptureLimit = 14
  Scenarios <- MCWrapped
INVARIANTS StartedThroughProxyStored
CHECK_DEADLOCK FALSE
