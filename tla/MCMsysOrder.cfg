SPECIFICATION Spec
CONSTANTS
  r1 = r1
  r2 = r2
  runtime = runtime
  bash = bash
  automake = automake
  grep = grep
  intl = intl
  iconv = iconv
  sh = sh
  ghost = ghost
  Roots = {r1}
  Packages = {runtime, bash, automake, grep, intl, iconv}
  Declared <- DeclaredAll
  Deps <- DepsOfAll
  Provider <- ProviderOfAll
  Ghosts = {ghost}
  Defaults <- DefaultNames
  Runtime = runtime
  Patched = {automake}
  Hinting = {intl}
  Requests <- OrderRequests
  MaxHashes = 2
INVARIANTS
  OneRootPerSet
