\* Builds, failures and a server; the repository changes between builds and
\* while a server checks it.
SPECIFICATION Spec
CONSTANTS
  b1 = b1  b2 = b2  s1 = s1  c1 = c1  c2 = c2
  v1 = v1  v2 = v2  v3 = v3  p1 = p1  p2 = p2
  None = None  Partial = Partial
  Builders <- MCBuilders
  Servers <- MCServers
  Commits <- MCCommits
  Contents <- MCContents
  TreeOf <- MCTreeOf
  Approved <- MCApproved
  Pins <- MCPins
  PinOf <- MCPinOf
  EditsDuringBuild = FALSE
  MaxEdits = 1
  MaxGen = 2
SYMMETRY Symmetry
INVARIANTS TypeOK CurrentIsComplete AnswerHasIdentity AnswerMatchesWorkingTree UsableMeansUnedited LockIsGivenUp
PROPERTIES ActivationMovesForward ActivatedIsImmutable ImplementsRegister
