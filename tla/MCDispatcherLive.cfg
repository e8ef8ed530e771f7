SPECIFICATION MCFairSpec
CONSTANTS
  a = a
  b = b
  c = c
  ask = ask
  h1 = h1
  NoHost = NoHost
  Node <- AskThenNodes
  Input <- JustAsk
  Host <- OneHost
  Deps <- AskThen
  SkipIf <- Nothing
  Broken <- JustC
  MaxAttempts = 2
  MaxRows = 0
  MaxMishaps = 1
  MayCancel = TRUE
PROPERTY RunEventuallyEnds
