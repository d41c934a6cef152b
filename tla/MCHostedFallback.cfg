SPECIFICATION Spec
CONSTANTS
  main = main
  extra = extra
  tar = tar
  pax = pax
  t = t
  redone = redone
  Procs = {p1}
  Repos = {main}
  MaxCommit = 1
  Forms = {tar}
  Garbage = Garbage
  Suffixes = {}
  NoSuffix = NoSuffix
  NoRef = NoRef
  NoVersion = NoVersion
  ZeroSha = ZeroSha
  BadSha = BadSha
  NoSha = NoSha
  Tags = {t}
  Tag <- MCTag
  NoTag = NoTag
  Absent = Absent
  Portfiles <- NoHeadRef
  Modes <- SharedMode
  p1 = p1
INVARIANTS
  FallbackIsNotHead
