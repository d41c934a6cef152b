SPECIFICATION Spec
CONSTANTS
  main = main
  extra = extra
  tar = tar
  pax = pax
  t = t
  redone = redone
  Procs = {p1, p2}
  Repos = {main}
  MaxCommit = 2
  Forms = {tar, pax}
  Garbage = Garbage
  Suffixes = {}
  NoSuffix = NoSuffix
  NoRef = NoRef
  NoVersion = NoVersion
  ZeroSha = ZeroSha
  BadSha = BadSha
  NoSha = NoSha
  Tags = {t}
  Tag <- MCTag
  NoTag = NoTag
  Absent = Absent
  Portfiles <- OneGithub
  Modes <- SharedMode
  p1 = p1
  p2 = p2
INVARIANTS
  TypeOK
  GithubReportsBuilt
  PinnedBuild
  HeadFresh
SYMMETRY Symmetry
