SPECIFICATION Spec
CONSTANTS
  zip = zip
  tgz = tgz
  flat = flat
  fix = fix
  port = port
  Archives = {zip}
  Contents = {tgz}
  SingleRoot <- SingleRoots
  Patches = {fix, port}
  Fits <- FitPairs
  MissingPatch = MissingPatch
  None = None
  Requests <- EveryMode
INVARIANTS
  PristineBuild
  FailsForCause
PROPERTIES
  EditsSurvive
  Implements
