SPECIFICATION MCSpec
CONSTANTS
  a = a
  b = b
  c = c
  ask = ask
  h1 = h1
  NoHost = NoHost
  Node <- ChainNodes
  Input <- Nothing
  Host <- OneHost
  Deps <- Chain
  SkipIf <- Nothing
  Broken <- Nothing
  MaxAttempts = 2
  MaxRows = 3
  MaxMishaps = 0
  MayCancel = TRUE
PROPERTY NoJobStartsAfterCancel
