SPECIFICATION Spec
CONSTANTS
  main = main
  extra = extra
  tar = tar
  pax = pax
  t = t
  redone = redone
  Procs = {p1}
  Repos = {main, extra}
  MaxCommit = 2
  Forms = {tar}
  Garbage = Garbage
  Suffixes = {redone}
  NoSuffix = NoSuffix
  NoRef = NoRef
  NoVersion = NoVersion
  ZeroSha = ZeroSha
  BadSha = BadSha
  NoSha = NoSha
  Tags = {t}
  Tag <- MCTag
  NoTag = NoTag
  Absent = Absent
  Portfiles <- EveryCall
  Modes <- HeadOnly
  p1 = p1
INVARIANTS
  ReportsNotNewer
  FirstVersion
