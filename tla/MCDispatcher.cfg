SPECIFICATION MCSpec
CONSTANTS
  a = a
  b = b
  c = c
  ask = ask
  h1 = h1
  NoHost = NoHost
  Node <- SkipNodes
  Input <- JustAsk
  Host <- OneHost
  Deps <- SkipThenAsk
  SkipIf <- JustA
  Broken <- Nothing
  MaxAttempts = 2
  MaxRows = 3
  MaxMishaps = 1
  MayCancel = TRUE
INVARIANTS RowsFollowTheirDependencies CompletedRunIsComplete
  ProcessedAnswersAreApplied
PROPERTIES NodeQueueSpec CompletedWorkIsKept 
