SPECIFICATION Spec
CONSTANTS
  Roots = {r1}
  zlib = zlib
  Ports = {zlib}
  MaxCommit = 2
  Branch = Branch
  NoRef = NoRef
  NameRef = Branch
  SharedRepo = SharedRepo
  Absent = Absent
  Partial = Partial
  Requests <- NamedRequests
INVARIANT NamesRefused
