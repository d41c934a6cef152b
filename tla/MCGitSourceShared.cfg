SPECIFICATION Spec
CONSTANTS
  Roots = {r1, r2}
  zlib = zlib
  Ports = {zlib}
  MaxCommit = 2
  Branch = Branch
  NoRef = NoRef
  NameRef = NameRef
  SharedRepo = SharedRepo
  Absent = Absent
  Partial = Partial
  Requests <- SharedRequests
CONSTRAINT FewRaces
SYMMETRY Symmetry
INVARIANTS
  TypeOK
  PinnedBuild
  HeadVersionTrue
  HeadFresh
  WholeArchives
PROPERTIES
  CacheStable
