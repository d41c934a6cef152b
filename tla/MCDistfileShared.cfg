SPECIFICATION Spec
CONSTANTS
  Procs = {p1, p2}
  f1 = f1
  a = a
  b = b
  c = c
  ta = ta
  tc = tc
  Files = {f1}
  Contents = {a, b, c}
  ZeroSha = ZeroSha
  BadSha = BadSha
  NoSha = NoSha
  Tags = {ta, tc}
  Tag <- MCTag
  NoTag = NoTag
  Absent = Absent
  NoRequest <- NoCall
  Requests <- SharedRequests
SYMMETRY Symmetry
INVARIANTS
  TypeOK
  PinnedUse
PROPERTIES
  NoClobber
  RetargetSound
  DisabledWasMissing
