\* An edit while a build runs: is the graph that is served the content that was checked?
SPECIFICATION Spec
CONSTANTS
  b1 = b1  b2 = b2  s1 = s1  c1 = c1  c2 = c2
  v1 = v1  v2 = v2  v3 = v3  p1 = p1  p2 = p2
  None = None  Partial = Partial
  Builders <- OneBuilder
  Servers <- MCServers
  Commits <- MCCommits
  Contents <- MCContents
  TreeOf <- MCTreeOf
  Approved <- MCApproved
  Pins <- MCPins
  PinOf <- SamePinOf
  EditsDuringBuild = TRUE
  MaxEdits = 2
  MaxGen = 2
INVARIANT AnswerMatchesWorkingTree
