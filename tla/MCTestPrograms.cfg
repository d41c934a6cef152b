SPECIFICATION TestSpec
CONSTANTS
  Encoders = {e1, e2}
  Candidates = {c1}
  TargetFrames = 2
  MaxFrames = 3
  MaxWire = 2
  Sizes = {0, 1, 2}
  Builds = {"emscripten", "x11", "other"}
  MaxEvents = 2
  LaneCounts = {1, 2, 4}
  MaxSize = 21
  Blocks <- SomeBlocks
  Characters <- BorderCharacters
INVARIANTS
  NoDangling
  FramesForCause
  SinkCalls
  FollowsWindow
  FaultsForCause
  ScaleCorrect
  Base64Correct
  
PROPERTIES
  Returns
  SteadyTexture
CHECK_DEADLOCK FALSE
