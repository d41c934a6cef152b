SPECIFICATION Spec
CONSTANTS
  zip = zip
  tgz = tgz
  flat = flat
  fix = fix
  port = port
  Archives = {zip}
  Contents = {tgz, flat}
  SingleRoot <- SingleRoots
  Patches = {fix, port}
  Fits <- FitPairs
  MissingPatch = MissingPatch
  None = None
  Requests <- ReplacedEditable
INVARIANTS
  TypeOK
  EditableWhole
