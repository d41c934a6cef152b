SPECIFICATION FairSpec
CONSTANTS
  r1 = r1
  r2 = r2
  runtime = runtime
  bash = bash
  automake = automake
  grep = grep
  intl = intl
  iconv = iconv
  sh = sh
  ghost = ghost
  Roots = {r1, r2}
  Packages = {runtime, bash, automake, grep, intl, iconv}
  Declared <- DeclaredAll
  Deps <- DepsOfAll
  Provider <- ProviderOfAll
  Ghosts = {ghost}
  Defaults <- DefaultNames
  Runtime = runtime
  Patched = {automake}
  Hinting = {intl}
  Requests <- SharedRequests
  MaxHashes = 1
INVARIANTS
  TypeOK
  ResolvesTheNeeded
  WholeRoots
  ServedReady
  FailsForCause
PROPERTIES
  UsedRootStays
  Resolves
