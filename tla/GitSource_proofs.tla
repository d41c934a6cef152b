-------------------------- MODULE GitSource_proofs --------------------------
(***************************************************************************)
(* Proofs about GitSource: its types, and that a build which is not --head *)
(* is made from the commit of its REF, for any number of roots, ports and  *)
(* commits, provided --head is not used on ports without HEAD_REF (the     *)
(* other case is a counterexample, see the README).  A REF that is a name  *)
(* is refused, provided it does not also name the branch of HEAD_REF (the  *)
(* other case is a counterexample too).                                    *)
(***************************************************************************)
EXTENDS GitSource, TLAPS

(* A call that went past the argument checks names an archive. *)
CallChecked ==
  \A p \in Roots : pc[p] \in Active => HeadMode(req[p]) \/ req[p].ref # NoRef

(* From git archive on, a call works on a commit. *)
RevKnown ==
  \A p \in Roots : pc[p] \in {"open", "write", "rename"} => rev[p] \in Commits

(* For a pinned call it is the commit of its REF. *)
PinnedRev ==
  \A p \in Roots :
     pc[p] \in {"open", "write"} /\ ~HeadMode(req[p]) => rev[p] = req[p].ref

(* No REF is the name of the branch that HEAD_REF names. *)
NamesDiffer == NameRef # Branch

(* What a file may hold that is named after a commit, or after a REF that
   is no commit and is not the HEAD_REF of another build either. *)
Holds(f, n) ==
  /\ n[2] \in Commits => f \in {Absent, Partial, n[2]}
  /\ NamesDiffer /\ n[2] = NameRef => f = Absent

FilesHold == \A n \in Names : Holds(temp[n], n) /\ Holds(archive[n], n)

Builds == PinnedBuild /\ (NamesDiffer => NamesRefused)

IInv == TypeOK /\ CallChecked /\ RevKnown /\ PinnedRev /\ FilesHold /\ Builds

-----------------------------------------------------------------------------
LEMMA NoRequestType == NoRequest \in Requests
BY RequestAssumption DEF NoRequest

LEMMA NameType ==
  ASSUME NEW r \in Requests, HeadMode(r) \/ r.ref # NoRef
  PROVE  NameOf(r) \in Names
BY RequestAssumption DEF Request, NameOf, Names

LEMMA RepoType ==
  ASSUME NEW p \in Roots, NEW r \in Requests
  PROVE  RepoOf(p, r) \in Repos
BY RequestAssumption DEF Request, RepoOf, Repos

LEMMA FetchedType ==
  ASSUME TypeOK, NEW r \in Requests, HeadMode(r) \/ r.ref # NoRef
  PROVE  Fetched(r) \in [objects : SUBSET Commits, fetchHead : Commits]
<1>1. r \in Request
  BY RequestAssumption
<1>2. tip[r.port] \in Numbers /\ r.port \in Ports
  BY <1>1 DEF TypeOK, Request
<1>3. \A k \in 1 .. tip[r.port] : <<r.port, k>> \in Commits
  BY <1>2, BoundAssumption DEF Commits, Numbers
<1>4. <<r.port, tip[r.port]>> \in Commits
  BY <1>2 DEF Commits
<1>5. ~(HeadMode(r) \/ r.fetchRef \/ r.ref = NameRef) => r.ref \in Commits
  BY <1>1 DEF Request
<1>6. QED
  BY <1>3, <1>4, <1>5 DEF Fetched

-----------------------------------------------------------------------------
LEMMA TypesAtStart == Init => TypeOK /\ CallChecked
BY NoRequestType, BoundAssumption
   DEF Init, TypeOK, CallChecked, Places, Active, Numbers, Files

(* Type correctness of vcpkg_from_git's state. *)
THEOREM TypeCorrect == Spec => [](TypeOK /\ CallChecked)
<1>1. TypeOK /\ CallChecked /\ [Next]_vars => (TypeOK /\ CallChecked)'
  <2> SUFFICES ASSUME TypeOK, CallChecked, [Next]_vars
               PROVE  TypeOK' /\ CallChecked'
    OBVIOUS
  <2> USE DEF TypeOK, CallChecked, Goto, Places, Active, Failed, files
  <2>1. ASSUME NEW p \in Roots, NEW r \in Requests, Call(p, r)
        PROVE  TypeOK' /\ CallChecked'
    <3>1. tip[r.port] \in Numbers
      BY RequestAssumption DEF Request
    <3>2. HeadMode(r) \/ r.ref # NoRef => raced' \in SUBSET Names
      BY <2>1, NameType DEF Call
    <3>3. (IF HeadMode(r) THEN tip[r.port] ELSE 1) \in Numbers
      BY <3>1, BoundAssumption DEF Numbers
    <3>4. QED
      BY <2>1, <3>2, <3>3 DEF Call
  <2>2. ASSUME NEW p \in Roots, Probe(p)
        PROVE  TypeOK' /\ CallChecked'
    BY <2>2 DEF Probe
  <2>3. ASSUME NEW p \in Roots, Fetch(p)
        PROVE  TypeOK' /\ CallChecked'
    <3> DEFINE g == RepoOf(p, req[p])
               f == Fetched(req[p])
    <3>1. g \in Repos /\ f \in [objects : SUBSET Commits, fetchHead : Commits]
      BY <2>3, RepoType, FetchedType DEF Fetch
    <3>2. CASE repo' = [repo EXCEPT ![g].fetchHead = f.fetchHead,
                                    ![g].objects = @ \union f.objects]
      BY <2>3, <3>1, <3>2 DEF Fetch
    <3>3. CASE UNCHANGED repo
      BY <2>3, <3>3 DEF Fetch
    <3>4. QED
      BY <2>3, <3>2, <3>3 DEF Fetch
  <2>4. ASSUME NEW p \in Roots, RevParse(p)
        PROVE  TypeOK' /\ CallChecked'
    BY <2>4 DEF RevParse
  <2>5. ASSUME NEW p \in Roots, OpenArchive(p)
        PROVE  TypeOK' /\ CallChecked'
    BY <2>5, NameType DEF OpenArchive, Files
  <2>6. ASSUME NEW p \in Roots, WriteArchive(p)
        PROVE  TypeOK' /\ CallChecked'
    BY <2>6 DEF WriteArchive, Files
  <2>7. ASSUME NEW p \in Roots, Rename(p)
        PROVE  TypeOK' /\ CallChecked'
    <3>1. NameOf(req[p]) \in Names
      BY <2>7, NameType DEF Rename
    <3>2. Relinked(NameOf(req[p]), "archive")
            \in [Roots -> {"none", "temp", "archive", "unlinked"}]
      BY DEF Relinked
    <3>3. QED
      BY <2>7, <3>1, <3>2 DEF Rename, Files
  <2>8. ASSUME NEW p \in Roots, Extract(p)
        PROVE  TypeOK' /\ CallChecked'
    BY <2>8 DEF Extract
  <2>9. ASSUME NEW p \in Roots, Exit(p)
        PROVE  TypeOK' /\ CallChecked'
    BY <2>9, NoRequestType, BoundAssumption DEF Exit, Numbers
  <2>10. ASSUME NEW n \in Names, Delete(n)
         PROVE  TypeOK' /\ CallChecked'
    <3>1. Relinked(n, "temp") \in [Roots -> {"none", "temp", "archive", "unlinked"}]
      BY DEF Relinked
    <3>2. QED
      BY <2>10, <3>1 DEF Delete, Files
  <2>11. ASSUME NEW port \in Ports, Push(port)
         PROVE  TypeOK' /\ CallChecked'
    BY <2>11, BoundAssumption DEF Push, Numbers
  <2>12. CASE UNCHANGED vars
    BY <2>12 DEF vars
  <2>13. QED
    BY <2>1, <2>2, <2>3, <2>4, <2>5, <2>6, <2>7, <2>8, <2>9, <2>10, <2>11, <2>12
       DEF Next, Step
<1>2. QED
  BY TypesAtStart, <1>1, PTL DEF Spec

-----------------------------------------------------------------------------
(* The file names of the calls that reach git archive. *)
LEMMA WrittenName ==
  ASSUME IInv, NEW p \in Roots, pc[p] \in {"open", "write"}
  PROVE  /\ NameOf(req[p]) \in Names
         /\ rev[p] \in Commits
         /\ NameOf(req[p])[2] \in Commits => NameOf(req[p])[2] = rev[p]
         /\ NamesDiffer => NameOf(req[p])[2] # NameRef
BY NameType, ValueAssumption
   DEF IInv, TypeOK, CallChecked, RevKnown, PinnedRev, NameOf, Active, NamesDiffer

LEMMA HeldFiles ==
  ASSUME NEW n \in Names
  PROVE  /\ Holds(Absent, n)
         /\ (NamesDiffer => n[2] # NameRef) => Holds(Partial, n)
         /\ (NamesDiffer => n[2] # NameRef)
              => \A c : (n[2] \in Commits => c = n[2]) => Holds(c, n)
BY DEF Holds

(* The invariant behind PinnedBuild and NamesRefused is inductive. *)
LEMMA InductiveInvariant ==
  ASSUME NoFallback
  PROVE  IInv /\ TypeOK' /\ CallChecked' /\ [Next]_vars => IInv'
<1> SUFFICES ASSUME IInv, TypeOK', CallChecked', [Next]_vars
             PROVE  RevKnown' /\ PinnedRev' /\ FilesHold' /\ Builds'
  BY DEF IInv
<1> USE DEF IInv, TypeOK, Goto, files
<1>1. ASSUME NEW p \in Roots, NEW r \in Requests, Call(p, r)
      PROVE  RevKnown' /\ PinnedRev' /\ FilesHold' /\ Builds'
  BY <1>1 DEF Call, RevKnown, PinnedRev, FilesHold, Builds, PinnedBuild, NamesRefused
<1>2. ASSUME NEW p \in Roots, Probe(p)
      PROVE  RevKnown' /\ PinnedRev' /\ FilesHold' /\ Builds'
  BY <1>2 DEF Probe, RevKnown, PinnedRev, FilesHold, Builds, PinnedBuild, NamesRefused
<1>3. ASSUME NEW p \in Roots, Fetch(p)
      PROVE  RevKnown' /\ PinnedRev' /\ FilesHold' /\ Builds'
  BY <1>3 DEF Fetch, RevKnown, PinnedRev, FilesHold, Builds, PinnedBuild, NamesRefused
<1>4. ASSUME NEW p \in Roots, RevParse(p)
      PROVE  RevKnown' /\ PinnedRev' /\ FilesHold' /\ Builds'
  <2>1. ~HeadMode(req[p]) => Parsed(p) = req[p].ref
    BY DEF NoFallback, Fallback, HeadMode, Parsed
  <2>2. RevKnown' /\ PinnedRev'
    BY <1>4, <2>1 DEF RevParse, RevKnown, PinnedRev
  <2>3. FilesHold' /\ Builds'
    BY <1>4 DEF RevParse, FilesHold, Builds, PinnedBuild, NamesRefused
  <2>4. QED
    BY <2>2, <2>3
<1>5. ASSUME NEW p \in Roots, OpenArchive(p)
      PROVE  RevKnown' /\ PinnedRev' /\ FilesHold' /\ Builds'
  <2>1. RevKnown' /\ PinnedRev' /\ Builds'
    BY <1>5 DEF OpenArchive, RevKnown, PinnedRev, Builds, PinnedBuild, NamesRefused
  <2>2. FilesHold'
    BY <1>5, WrittenName, HeldFiles DEF OpenArchive, FilesHold
  <2>3. QED
    BY <2>1, <2>2
<1>6. ASSUME NEW p \in Roots, WriteArchive(p)
      PROVE  RevKnown' /\ PinnedRev' /\ FilesHold' /\ Builds'
  <2>1. RevKnown' /\ PinnedRev' /\ Builds'
    BY <1>6 DEF WriteArchive, RevKnown, PinnedRev, Builds, PinnedBuild, NamesRefused
  <2>2. Holds(rev[p], NameOf(req[p])) /\ NameOf(req[p]) \in Names
    BY <1>6, WrittenName, HeldFiles DEF WriteArchive
  <2>3. FilesHold'
    BY <1>6, <2>2 DEF WriteArchive, FilesHold
  <2>4. QED
    BY <2>1, <2>3
<1>7. ASSUME NEW p \in Roots, Rename(p)
      PROVE  RevKnown' /\ PinnedRev' /\ FilesHold' /\ Builds'
  <2>1. RevKnown' /\ PinnedRev' /\ Builds'
    BY <1>7 DEF Rename, RevKnown, PinnedRev, Builds, PinnedBuild, NamesRefused
  <2>2. FilesHold'
    BY <1>7, HeldFiles DEF Rename, FilesHold
  <2>3. QED
    BY <2>1, <2>2
<1>8. ASSUME NEW p \in Roots, Extract(p)
      PROVE  RevKnown' /\ PinnedRev' /\ FilesHold' /\ Builds'
  <2>1. RevKnown' /\ PinnedRev' /\ FilesHold'
    BY <1>8 DEF Extract, RevKnown, PinnedRev, FilesHold
  <2>2. CASE archive[NameOf(req[p])] \in Commits
    <3> DEFINE n == NameOf(req[p])
    <3>1. n \in Names /\ Holds(archive[n], n)
      BY <1>8, NameType DEF Extract, CallChecked, Active, FilesHold
    <3>2. ~HeadMode(req[p]) => n[2] = req[p].ref /\ req[p].ref \in Commits \union {NameRef}
      BY <1>8, RequestAssumption DEF NameOf, Request, Extract, CallChecked, Active
    <3>3. ~HeadMode(req[p]) /\ req[p].ref \in Commits => archive[n] = req[p].ref
      BY <2>2, <3>1, <3>2, ValueAssumption DEF Holds
    <3>4. ~HeadMode(req[p]) /\ NamesDiffer => req[p].ref \in Commits
      BY <2>2, <3>1, <3>2, ValueAssumption DEF Holds
    <3>5. req[p].useHead = HeadMode(req[p])
      BY RequestAssumption DEF NoFallback, Fallback, HeadMode, Request
    <3>6. PinnedBuild'
      BY <1>8, <2>2, <3>3, ValueAssumption DEF Extract, Builds, PinnedBuild
    <3>7. NamesDiffer => NamesRefused'
      BY <1>8, <2>2, <3>4, <3>5, ValueAssumption DEF Extract, Builds, NamesRefused
    <3>8. QED
      BY <2>1, <3>6, <3>7 DEF Builds
  <2>3. CASE archive[NameOf(req[p])] \in {Absent, Partial}
    BY <1>8, <2>1, <2>3, ValueAssumption DEF Extract, Builds, PinnedBuild, NamesRefused
  <2>4. QED
    BY <1>8, <2>2, <2>3 DEF Extract
<1>9. ASSUME NEW p \in Roots, Exit(p)
      PROVE  RevKnown' /\ PinnedRev' /\ FilesHold' /\ Builds'
  BY <1>9 DEF Exit, RevKnown, PinnedRev, FilesHold, Builds, PinnedBuild, NamesRefused
<1>10. ASSUME NEW n \in Names, Delete(n)
       PROVE  RevKnown' /\ PinnedRev' /\ FilesHold' /\ Builds'
  BY <1>10, HeldFiles DEF Delete, RevKnown, PinnedRev, FilesHold, Builds, PinnedBuild, NamesRefused
<1>11. ASSUME NEW port \in Ports, Push(port)
       PROVE  RevKnown' /\ PinnedRev' /\ FilesHold' /\ Builds'
  BY <1>11 DEF Push, RevKnown, PinnedRev, FilesHold, Builds, PinnedBuild, NamesRefused
<1>12. CASE UNCHANGED vars
  BY <1>12 DEF vars, RevKnown, PinnedRev, FilesHold, Builds, PinnedBuild, NamesRefused
<1>13. QED
  BY <1>1, <1>2, <1>3, <1>4, <1>5, <1>6, <1>7, <1>8, <1>9, <1>10, <1>11, <1>12
     DEF Next, Step

LEMMA PinnedInvariant ==
  ASSUME NoFallback
  PROVE  Spec => []IInv
<1>1. Init => IInv
  BY TypesAtStart, HeldFiles
     DEF Init, IInv, RevKnown, PinnedRev, FilesHold, Builds, PinnedBuild, NamesRefused
<1>2. IInv /\ TypeOK' /\ CallChecked' /\ [Next]_vars => IInv'
  BY InductiveInvariant
<1>3. QED
  BY <1>1, <1>2, TypeCorrect, PTL DEF Spec

(* vcpkg_from_git: a build that is not --head and gives a commit as REF uses
   that commit, whatever other roots do in the shared git-tmp and the cache, and
   whatever names other calls give. *)
THEOREM PinnedBuildCorrect ==
  ASSUME NoFallback
  PROVE  Spec => []PinnedBuild
<1>1. IInv => PinnedBuild
  BY DEF IInv, Builds
<1>2. QED
  BY <1>1, PinnedInvariant, PTL

(* vcpkg_from_git: a REF that is the name of a branch or tag is refused, unless
   it is the name of the branch that a build with --head has archived. *)
THEOREM NamesRefusedCorrect ==
  ASSUME NoFallback, NamesDiffer
  PROVE  Spec => []NamesRefused
<1>1. IInv => NamesRefused
  BY DEF IInv, Builds
<1>2. QED
  BY <1>1, PinnedInvariant, PTL

-----------------------------------------------------------------------------
(* Two runs that are busy with one archive name are known to race for it. *)
RacesMarked ==
  \A p, q \in Roots :
     /\ p # q /\ pc[p] \in Active /\ pc[q] \in Active
     /\ NameOf(req[p]) = NameOf(req[q])
     => NameOf(req[p]) \in raced

(* Without a race, a run writes its temporary file where it opened it, and
   the file is whole when the run gets to rename it. *)
OwnTempOf(p) ==
  /\ handle[p] # "none" => pc[p] = "write"
  /\ NameOf(req[p]) \notin raced =>
       /\ pc[p] = "write" => handle[p] = "temp"
       /\ pc[p] = "rename" => temp[NameOf(req[p])] \in Commits

OwnTemp == \A p \in Roots : OwnTempOf(p)

WInv == TypeOK /\ CallChecked /\ RevKnown /\ RacesMarked /\ OwnTemp /\ WholeArchives

LEMMA WholeInductive == WInv /\ TypeOK' /\ CallChecked' /\ [Next]_vars => WInv'
<1> SUFFICES ASSUME WInv, TypeOK', CallChecked', [Next]_vars
             PROVE  RevKnown' /\ RacesMarked' /\ OwnTemp' /\ WholeArchives'
  BY DEF WInv
<1> USE DEF WInv, TypeOK, Goto, files, Active
<1>1. ASSUME NEW p \in Roots, NEW r \in Requests, Call(p, r)
      PROVE  RevKnown' /\ RacesMarked' /\ OwnTemp' /\ WholeArchives'
  <2>1. RevKnown'
    BY <1>1 DEF RevKnown, Call, Racing
  <2>2. RacesMarked'
    BY <1>1 DEF RacesMarked, Call, Racing
  <2>3. OwnTemp'
    BY <1>1, ValueAssumption DEF OwnTemp, OwnTempOf, RacesMarked, RevKnown, Call, Racing
  <2>4. WholeArchives'
    BY <1>1, ValueAssumption DEF WholeArchives, OwnTemp, OwnTempOf, RevKnown, Call, Racing
  <2>5. QED
    BY <2>1, <2>2, <2>3, <2>4
<1>2. ASSUME NEW p \in Roots, Probe(p)
      PROVE  RevKnown' /\ RacesMarked' /\ OwnTemp' /\ WholeArchives'
  <2>1. RevKnown'
    BY <1>2 DEF RevKnown, Probe
  <2>2. RacesMarked'
    BY <1>2 DEF RacesMarked, Probe
  <2>3. OwnTemp'
    BY <1>2, ValueAssumption DEF OwnTemp, OwnTempOf, RacesMarked, RevKnown, Probe
  <2>4. WholeArchives'
    BY <1>2, ValueAssumption DEF WholeArchives, OwnTemp, OwnTempOf, RevKnown, Probe
  <2>5. QED
    BY <2>1, <2>2, <2>3, <2>4
<1>3. ASSUME NEW p \in Roots, Fetch(p)
      PROVE  RevKnown' /\ RacesMarked' /\ OwnTemp' /\ WholeArchives'
  <2>1. RevKnown'
    BY <1>3 DEF RevKnown, Fetch
  <2>2. RacesMarked'
    BY <1>3 DEF RacesMarked, Fetch
  <2>3. OwnTemp'
    BY <1>3, ValueAssumption DEF OwnTemp, OwnTempOf, RacesMarked, RevKnown, Fetch
  <2>4. WholeArchives'
    BY <1>3, ValueAssumption DEF WholeArchives, OwnTemp, OwnTempOf, RevKnown, Fetch
  <2>5. QED
    BY <2>1, <2>2, <2>3, <2>4
<1>4. ASSUME NEW p \in Roots, RevParse(p)
      PROVE  RevKnown' /\ RacesMarked' /\ OwnTemp' /\ WholeArchives'
  <2>1. RevKnown'
    BY <1>4 DEF RevKnown, RevParse
  <2>2. RacesMarked'
    BY <1>4 DEF RacesMarked, RevParse
  <2>3. OwnTemp'
    BY <1>4, ValueAssumption DEF OwnTemp, OwnTempOf, RacesMarked, RevKnown, RevParse
  <2>4. WholeArchives'
    BY <1>4, ValueAssumption DEF WholeArchives, OwnTemp, OwnTempOf, RevKnown, RevParse
  <2>5. QED
    BY <2>1, <2>2, <2>3, <2>4
<1>5. ASSUME NEW p \in Roots, OpenArchive(p)
      PROVE  RevKnown' /\ RacesMarked' /\ OwnTemp' /\ WholeArchives'
  <2>1. RevKnown'
    BY <1>5 DEF RevKnown, OpenArchive
  <2>2. RacesMarked'
    BY <1>5 DEF RacesMarked, OpenArchive
  <2>3. OwnTemp'
    <3> SUFFICES ASSUME NEW q \in Roots PROVE OwnTempOf(q)'
      BY DEF OwnTemp
    <3> DEFINE n == NameOf(req[p])
    <3>1. OwnTempOf(q) /\ OwnTempOf(p) /\ n \in Names
      BY <1>5, NameType DEF OwnTemp, CallChecked, OpenArchive
    <3>2. CASE q = p
      BY <1>5, <3>1, <3>2, ValueAssumption DEF OwnTempOf, OpenArchive, RevKnown
    <3>3. CASE q # p
      <4>1. pc'[q] = pc[q] /\ req' = req /\ raced' = raced
        BY <1>5, <3>3 DEF OpenArchive
      <4>2. pc[q] \in Active /\ NameOf(req[q]) = n => n \in raced
        BY <1>5, <3>3 DEF OpenArchive, RacesMarked
      <4>3. pc[q] \in Active /\ NameOf(req[q]) # n
              => handle'[q] = handle[q] /\ temp'[NameOf(req[q])] = temp[NameOf(req[q])]
        BY <1>5, <3>1, <3>3, NameType DEF CallChecked, OpenArchive
      <4>4. handle[q] = "none" => handle'[q] = "none"
        BY <1>5, <3>3 DEF OpenArchive
      <4>5. QED
        BY <3>1, <4>1, <4>2, <4>3, <4>4 DEF OwnTempOf
    <3>4. QED
      BY <3>2, <3>3
  <2>4. WholeArchives'
    BY <1>5, ValueAssumption DEF WholeArchives, OwnTemp, OwnTempOf, RevKnown, OpenArchive
  <2>5. QED
    BY <2>1, <2>2, <2>3, <2>4
<1>6. ASSUME NEW p \in Roots, WriteArchive(p)
      PROVE  RevKnown' /\ RacesMarked' /\ OwnTemp' /\ WholeArchives'
  <2>1. RevKnown'
    BY <1>6 DEF RevKnown, WriteArchive
  <2>2. RacesMarked'
    BY <1>6 DEF RacesMarked, WriteArchive
  <2>3. OwnTemp'
    <3> SUFFICES ASSUME NEW q \in Roots PROVE OwnTempOf(q)'
      BY DEF OwnTemp
    <3> DEFINE n == NameOf(req[p])
    <3>1. OwnTempOf(q) /\ OwnTempOf(p) /\ n \in Names
      BY <1>6, NameType DEF OwnTemp, CallChecked, WriteArchive
    <3>2. CASE q = p
      BY <1>6, <3>1, <3>2, ValueAssumption DEF OwnTempOf, WriteArchive, RevKnown
    <3>3. CASE q # p
      <4>1. pc'[q] = pc[q] /\ req' = req /\ raced' = raced
        BY <1>6, <3>3 DEF WriteArchive
      <4>2. pc[q] \in Active /\ NameOf(req[q]) = n => n \in raced
        BY <1>6, <3>3 DEF WriteArchive, RacesMarked
      <4>3. pc[q] \in Active /\ NameOf(req[q]) # n
              => handle'[q] = handle[q] /\ temp'[NameOf(req[q])] = temp[NameOf(req[q])]
        BY <1>6, <3>1, <3>3, NameType DEF CallChecked, WriteArchive
      <4>4. handle[q] = "none" => handle'[q] = "none"
        BY <1>6, <3>3 DEF WriteArchive
      <4>5. QED
        BY <3>1, <4>1, <4>2, <4>3, <4>4 DEF OwnTempOf
    <3>4. QED
      BY <3>2, <3>3
  <2>4. WholeArchives'
    BY <1>6, ValueAssumption DEF WholeArchives, OwnTemp, OwnTempOf, RevKnown, WriteArchive
  <2>5. QED
    BY <2>1, <2>2, <2>3, <2>4
<1>7. ASSUME NEW p \in Roots, Rename(p)
      PROVE  RevKnown' /\ RacesMarked' /\ OwnTemp' /\ WholeArchives'
  <2>1. RevKnown'
    BY <1>7 DEF RevKnown, Rename, Relinked
  <2>2. RacesMarked'
    BY <1>7 DEF RacesMarked, Rename, Relinked
  <2>3. OwnTemp'
    <3> SUFFICES ASSUME NEW q \in Roots PROVE OwnTempOf(q)'
      BY DEF OwnTemp
    <3> DEFINE n == NameOf(req[p])
    <3>1. OwnTempOf(q) /\ OwnTempOf(p) /\ n \in Names
      BY <1>7, NameType DEF OwnTemp, CallChecked, Rename
    <3>2. CASE q = p
      BY <1>7, <3>1, <3>2, ValueAssumption DEF OwnTempOf, Rename, Relinked, RevKnown
    <3>3. CASE q # p
      <4>1. pc'[q] = pc[q] /\ req' = req /\ raced' = raced
        BY <1>7, <3>3 DEF Rename
      <4>2. pc[q] \in Active /\ NameOf(req[q]) = n => n \in raced
        BY <1>7, <3>3 DEF Rename, RacesMarked
      <4>3. pc[q] \in Active /\ NameOf(req[q]) # n
              => handle'[q] = handle[q] /\ temp'[NameOf(req[q])] = temp[NameOf(req[q])]
        BY <1>7, <3>1, <3>3, NameType DEF CallChecked, Rename, Relinked
      <4>4. handle[q] = "none" => handle'[q] = "none"
        BY <1>7, <3>3 DEF Rename, Relinked
      <4>5. QED
        BY <3>1, <4>1, <4>2, <4>3, <4>4 DEF OwnTempOf
    <3>4. QED
      BY <3>2, <3>3
  <2>4. WholeArchives'
    BY <1>7, ValueAssumption DEF WholeArchives, OwnTemp, OwnTempOf, RevKnown, Rename, Relinked
  <2>5. QED
    BY <2>1, <2>2, <2>3, <2>4
<1>8. ASSUME NEW p \in Roots, Extract(p)
      PROVE  RevKnown' /\ RacesMarked' /\ OwnTemp' /\ WholeArchives'
  <2>1. RevKnown'
    BY <1>8 DEF RevKnown, Extract
  <2>2. RacesMarked'
    BY <1>8 DEF RacesMarked, Extract
  <2>3. OwnTemp'
    BY <1>8, ValueAssumption DEF OwnTemp, OwnTempOf, RacesMarked, RevKnown, Extract
  <2>4. WholeArchives'
    BY <1>8, ValueAssumption DEF WholeArchives, OwnTemp, OwnTempOf, RevKnown, Extract
  <2>5. QED
    BY <2>1, <2>2, <2>3, <2>4
<1>9. ASSUME NEW p \in Roots, Exit(p)
      PROVE  RevKnown' /\ RacesMarked' /\ OwnTemp' /\ WholeArchives'
  <2>1. RevKnown'
    BY <1>9 DEF RevKnown, Exit
  <2>2. RacesMarked'
    BY <1>9 DEF RacesMarked, Exit
  <2>3. OwnTemp'
    BY <1>9, ValueAssumption DEF OwnTemp, OwnTempOf, RacesMarked, RevKnown, Exit
  <2>4. WholeArchives'
    BY <1>9, ValueAssumption DEF WholeArchives, OwnTemp, OwnTempOf, RevKnown, Exit
  <2>5. QED
    BY <2>1, <2>2, <2>3, <2>4
<1>10. ASSUME NEW n \in Names, Delete(n)
       PROVE  RevKnown' /\ RacesMarked' /\ OwnTemp' /\ WholeArchives'
  <2>1. RevKnown'
    BY <1>10 DEF RevKnown, Delete, Relinked
  <2>2. RacesMarked'
    BY <1>10 DEF RacesMarked, Delete, Relinked
  <2>3. OwnTemp'
    BY <1>10, ValueAssumption DEF OwnTemp, OwnTempOf, RacesMarked, RevKnown, Delete, Relinked
  <2>4. WholeArchives'
    BY <1>10, ValueAssumption DEF WholeArchives, OwnTemp, OwnTempOf, RevKnown, Delete, Relinked
  <2>5. QED
    BY <2>1, <2>2, <2>3, <2>4
<1>11. ASSUME NEW port \in Ports, Push(port)
       PROVE  RevKnown' /\ RacesMarked' /\ OwnTemp' /\ WholeArchives'
  <2>1. RevKnown'
    BY <1>11 DEF RevKnown, Push
  <2>2. RacesMarked'
    BY <1>11 DEF RacesMarked, Push
  <2>3. OwnTemp'
    BY <1>11, ValueAssumption DEF OwnTemp, OwnTempOf, RacesMarked, RevKnown, Push
  <2>4. WholeArchives'
    BY <1>11, ValueAssumption DEF WholeArchives, OwnTemp, OwnTempOf, RevKnown, Push
  <2>5. QED
    BY <2>1, <2>2, <2>3, <2>4
<1>12. CASE UNCHANGED vars
  BY <1>12 DEF vars, RevKnown, RacesMarked, OwnTemp, OwnTempOf, WholeArchives
<1>13. QED
  BY <1>1, <1>2, <1>3, <1>4, <1>5, <1>6, <1>7, <1>8, <1>9, <1>10, <1>11, <1>12
     DEF Next, Step

(* A run of vcpkg_from_git that is killed while git archive writes leaves no
   truncated archive in the cache, for any number of roots; only two runs
   that race for one archive can. *)
THEOREM WholeArchivesCorrect == Spec => []WholeArchives
<1>1. Init => WInv
  BY TypesAtStart, ValueAssumption
     DEF Init, WInv, RevKnown, RacesMarked, OwnTemp, OwnTempOf, WholeArchives, Active
<1>2. WInv /\ TypeOK' /\ CallChecked' /\ [Next]_vars => WInv'
  BY WholeInductive
<1>3. WInv => WholeArchives
  BY DEF WInv
<1>4. QED
  BY <1>1, <1>2, <1>3, TypeCorrect, PTL DEF Spec

(* A cached archive named after a commit is never replaced by another commit:
   the step to a different file deletes it, or ends a race of two writers with
   the unfinished file of one of them. *)
THEOREM CacheStableCorrect ==
  ASSUME NoFallback
  PROVE  Spec => CacheStable
<1> DEFINE Stable(n) ==
      /\ n[2] \in Commits /\ archive[n] \in Commits
      /\ archive'[n] # archive[n]
      => archive'[n] = Absent \/ (n \in raced /\ archive'[n] = Partial)
<1>1. Init => IInv /\ WInv
  BY TypesAtStart, HeldFiles, ValueAssumption
     DEF Init, IInv, WInv, RevKnown, PinnedRev, FilesHold, Builds, PinnedBuild,
         NamesRefused, RacesMarked, OwnTemp, OwnTempOf, WholeArchives, Active
<1>2. IInv /\ WInv /\ TypeOK' /\ CallChecked' /\ [Next]_vars => (IInv /\ WInv)'
  BY InductiveInvariant, WholeInductive
<1>3. IInv /\ IInv' /\ WInv' /\ raced' = raced
        => \A n \in Names : Stable(n)
  BY ValueAssumption DEF IInv, WInv, FilesHold, Holds, WholeArchives
<1>4. [Next]_vars /\ raced' # raced => archive' = archive
  BY DEF Next, Step, Call, Probe, Fetch, RevParse, OpenArchive, WriteArchive,
         Rename, Extract, Exit, Delete, Push, vars, files
<1>5. IInv /\ IInv' /\ WInv' /\ [Next]_vars => [\A n \in Names : Stable(n)]_vars
  BY <1>3, <1>4
<1>6. QED
  BY <1>1, <1>2, <1>5, TypeCorrect, PTL DEF Spec, CacheStable

-----------------------------------------------------------------------------
(* Without a race, the file that a run renames, and then extracts, holds the
   commit that it parsed; one that it found in the cache has none. *)
KeepsRev(p) ==
  /\ pc[p] \in {"idle", "probe", "fetch", "revParse"} => rev[p] = Absent
  /\ NameOf(req[p]) \notin raced =>
       /\ pc[p] = "rename" => temp[NameOf(req[p])] = rev[p]
       /\ pc[p] = "extract" /\ rev[p] # Absent
            => archive[NameOf(req[p])] \in {Absent, rev[p]}
       /\ pc[p] = "built" /\ rev[p] # Absent => built[p] = rev[p]

(* What a --head build fetches into its own repository is not older than the
   branch was when the build began. *)
KeepsFresh(p) ==
  HeadMode(req[p]) /\ ~req[p].noDownloads =>
    /\ pc[p] \in Active => since[p] <= tip[req[p].port]
    /\ pc[p] = "revParse" => repo[<<p, req[p].port>>].fetchHead[2] >= since[p]
    /\ pc[p] \in {"open", "write", "rename", "extract", "built"}
         => rev[p] \in Commits /\ rev[p][2] >= since[p]

HInv == WInv /\ \A p \in Roots : KeepsRev(p) /\ KeepsFresh(p)

LEMMA Untouched ==
  ASSUME WInv, NEW q \in Roots, KeepsRev(q), KeepsFresh(q),
         pc'[q] = pc[q], req'[q] = req[q], rev'[q] = rev[q], built'[q] = built[q],
         since'[q] = since[q], raced \subseteq raced',
         pc[q] \in Active /\ HeadMode(req[q])
           => /\ since[q] <= tip[req[q].port] => since[q] <= tip'[req[q].port]
              /\ repo'[<<q, req[q].port>>] = repo[<<q, req[q].port>>],
         pc[q] \in Active /\ NameOf(req[q]) \notin raced'
           => /\ temp'[NameOf(req[q])] = temp[NameOf(req[q])]
              /\ archive'[NameOf(req[q])] \in {Absent, archive[NameOf(req[q])]}
  PROVE  KeepsRev(q)' /\ KeepsFresh(q)'
<1>1. KeepsRev(q)'
  BY DEF KeepsRev, Active
<1>2. KeepsFresh(q)'
  BY DEF KeepsFresh, Active
<1>3. QED
  BY <1>1, <1>2

(* What a step of one run leaves to the others. *)
LEMMA OthersKept ==
  ASSUME HInv, WInv', NEW p \in Roots, NEW q \in Roots, q # p, Step(p)
  PROVE  KeepsRev(q)' /\ KeepsFresh(q)'
<1> USE DEF HInv, WInv, TypeOK, Goto, files
<1>1. /\ pc'[q] = pc[q] /\ req'[q] = req[q] /\ rev'[q] = rev[q] /\ built'[q] = built[q]
      /\ since'[q] = since[q] /\ raced \subseteq raced' /\ tip' = tip
  BY DEF Step, Call, Probe, Fetch, RevParse, OpenArchive, WriteArchive, Rename, Extract, Exit
<1>2. pc[q] \in Active /\ HeadMode(req[q])
        => repo'[<<q, req[q].port>>] = repo[<<q, req[q].port>>]
  <2>1. CASE Fetch(p)
    <3> DEFINE g == RepoOf(p, req[p])
               h == <<q, req[q].port>>
               f == Fetched(req[p])
    <3>1. h \in Roots \X Ports /\ h \in Repos
      BY RequestAssumption DEF Request, Repos
    <3>2. g # h
      BY <3>1, ValueAssumption DEF RepoOf
    <3>3. \/ repo' = [repo EXCEPT ![g].fetchHead = f.fetchHead,
                                 ![g].objects = @ \union f.objects]
          \/ repo' = repo
      BY <2>1 DEF Fetch
    <3> HIDE DEF g, h, f
    <3>4. repo'[h] = repo[h]
      BY <3>1, <3>2, <3>3
    <3>5. QED
      BY <3>4 DEF h
  <2>2. CASE ~Fetch(p)
    BY <2>2 DEF Step, Call, Probe, RevParse, OpenArchive, WriteArchive, Rename, Extract, Exit
  <2>3. QED
    BY <2>1, <2>2
<1>3. ASSUME pc[q] \in Active, NameOf(req[q]) \notin raced'
      PROVE  /\ temp'[NameOf(req[q])] = temp[NameOf(req[q])]
             /\ archive'[NameOf(req[q])] \in {Absent, archive[NameOf(req[q])]}
  <2>1. NameOf(req[q]) \in Names
    BY <1>3, NameType DEF CallChecked
  <2>2. CASE OpenArchive(p) \/ WriteArchive(p) \/ Rename(p)
    <3>1. pc[p] \in {"open", "write", "rename"} /\ raced' = raced
      BY <2>2 DEF OpenArchive, WriteArchive, Rename
    <3>2. NameOf(req[p]) # NameOf(req[q])
      BY <1>3, <3>1 DEF RacesMarked, Active
    <3>3. NameOf(req[p]) \in Names
      BY <3>1, NameType DEF CallChecked, Active
    <3>4. QED
      BY <2>1, <2>2, <3>2, <3>3 DEF OpenArchive, WriteArchive, Rename
  <2>3. CASE ~(OpenArchive(p) \/ WriteArchive(p) \/ Rename(p))
    BY <2>3 DEF Step, Call, Probe, Fetch, RevParse, Extract, Exit
  <2>4. QED
    BY <2>2, <2>3
<1>4. KeepsRev(q) /\ KeepsFresh(q)
  OBVIOUS
<1>5. QED
  BY <1>1, <1>2, <1>3, <1>4, Untouched

(* What a run keeps for itself. *)
LEMMA OwnKept ==
  ASSUME HInv, WInv', NEW p \in Roots, Step(p)
  PROVE  KeepsRev(p)' /\ KeepsFresh(p)'
<1> DEFINE n == NameOf(req[p])
<1> USE DEF HInv, WInv, TypeOK, Goto, files
<1>0. KeepsRev(p) /\ KeepsFresh(p)
  OBVIOUS
<1>1. ASSUME NEW r \in Requests, Call(p, r) PROVE KeepsRev(p)' /\ KeepsFresh(p)'
  <2>1. tip[r.port] \in Nat /\ r.port \in Ports
    BY RequestAssumption DEF Request, Numbers
  <2>2. /\ req'[p] = r /\ rev' = rev /\ tip' = tip /\ pc[p] = "idle"
        /\ since'[p] = (IF HeadMode(r) THEN tip[r.port] ELSE 1)
        /\ pc'[p] \in {"badArguments", "needsHead", "probe"}
    BY <1>1 DEF Call
  <2>3. KeepsRev(p)'
    BY <1>0, <2>2 DEF KeepsRev
  <2>4. KeepsFresh(p)'
    BY <2>1, <2>2 DEF KeepsFresh
  <2>5. QED
    BY <2>3, <2>4
<1>2. CASE Probe(p)
  <2>1. /\ UNCHANGED <<tip, repo, temp, archive, req, rev, since, built, raced>>
        /\ pc[p] = "probe" /\ pc'[p] \in {"disabled", "fetch", "extract"}
        /\ HeadMode(req[p]) /\ ~req[p].noDownloads => pc'[p] # "extract"
    BY <1>2 DEF Probe
  <2>2. KeepsRev(p)'
    BY <1>0, <2>1 DEF KeepsRev
  <2>3. KeepsFresh(p)'
    BY <1>0, <2>1 DEF KeepsFresh, Active
  <2>4. QED
    BY <2>2, <2>3
<1>3. CASE Fetch(p)
  <2>1. /\ UNCHANGED <<tip, temp, archive, req, rev, since, built, raced>>
        /\ pc[p] = "fetch" /\ pc'[p] \in {"revParse", "failed"}
        /\ pc'[p] = "revParse" => repo' =
             [repo EXCEPT ![RepoOf(p, req[p])].fetchHead = Fetched(req[p]).fetchHead,
                          ![RepoOf(p, req[p])].objects = @ \union Fetched(req[p]).objects]
    BY <1>3 DEF Fetch
  <2>2. KeepsRev(p)'
    BY <1>0, <2>1 DEF KeepsRev
  <2>3. ASSUME HeadMode(req[p]), ~req[p].noDownloads, pc'[p] = "revParse"
        PROVE  repo'[<<p, req[p].port>>].fetchHead[2] >= since[p]
    <3>1. RepoOf(p, req[p]) = <<p, req[p].port>> /\ RepoOf(p, req[p]) \in Repos
      BY <2>3, RepoType DEF RepoOf
    <3>2. Fetched(req[p]).fetchHead = <<req[p].port, tip[req[p].port]>>
      BY <2>3 DEF Fetched
    <3>3. repo'[<<p, req[p].port>>].fetchHead = <<req[p].port, tip[req[p].port]>>
      <4> DEFINE g == RepoOf(p, req[p])
                 f == Fetched(req[p])
      <4>1. repo' = [repo EXCEPT ![g].fetchHead = f.fetchHead,
                                 ![g].objects = @ \union f.objects]
        BY <2>1, <2>3
      <4>2. g \in Repos
        BY <3>1
      <4> HIDE DEF g, f
      <4>3. repo'[g].fetchHead = f.fetchHead
        BY <4>1, <4>2
      <4>4. QED
        BY <3>1, <3>2, <4>3 DEF g, f
    <3>4. since[p] <= tip[req[p].port] /\ since[p] \in Nat /\ tip[req[p].port] \in Nat
      BY <1>0, <2>1, <2>3, RequestAssumption DEF KeepsFresh, Active, Request, Numbers
    <3>5. QED
      BY <3>3, <3>4
  <2>4. KeepsFresh(p)'
    BY <1>0, <2>1, <2>3 DEF KeepsFresh, Active
  <2>5. QED
    BY <2>2, <2>4
<1>4. CASE RevParse(p)
  <2>1. /\ UNCHANGED <<tip, repo, temp, archive, req, since, built, raced>>
        /\ pc[p] = "revParse"
        /\ \/ pc'[p] = "open" /\ rev'[p] = Parsed(p) /\ Parsed(p) \in Commits
           \/ pc'[p] = "failed" /\ rev' = rev
    BY <1>4 DEF RevParse
  <2>2. HeadMode(req[p]) => Parsed(p) = repo[<<p, req[p].port>>].fetchHead
    BY DEF Parsed, HeadMode, RepoOf
  <2>3. KeepsRev(p)'
    BY <2>1 DEF KeepsRev
  <2>4. KeepsFresh(p)'
    BY <1>0, <2>1, <2>2 DEF KeepsFresh, Active
  <2>5. QED
    BY <2>3, <2>4
<1>5. CASE OpenArchive(p)
  <2>1. /\ UNCHANGED <<tip, repo, archive, req, rev, since, built, raced>>
        /\ pc[p] = "open" /\ pc'[p] \in {"write", "failed"}
    BY <1>5 DEF OpenArchive
  <2>2. KeepsRev(p)'
    BY <2>1 DEF KeepsRev
  <2>3. KeepsFresh(p)'
    BY <1>0, <2>1 DEF KeepsFresh, Active
  <2>4. QED
    BY <2>2, <2>3
<1>6. CASE WriteArchive(p)
  <2>1. /\ UNCHANGED <<tip, repo, req, rev, since, built, raced>>
        /\ pc[p] = "write" /\ pc'[p] \in {"rename", "failed"}
        /\ pc'[p] = "rename" /\ handle[p] = "temp" => temp' = [temp EXCEPT ![n] = rev[p]]
    BY <1>6 DEF WriteArchive
  <2>2. n \in Names /\ (n \notin raced => handle[p] = "temp")
    BY <2>1, NameType DEF CallChecked, Active, OwnTemp, OwnTempOf
  <2>3. KeepsRev(p)'
    BY <2>1, <2>2 DEF KeepsRev
  <2>4. KeepsFresh(p)'
    BY <1>0, <2>1 DEF KeepsFresh, Active
  <2>5. QED
    BY <2>3, <2>4
<1>7. CASE Rename(p)
  <2>1. /\ UNCHANGED <<tip, repo, req, rev, since, built, raced>>
        /\ pc[p] = "rename" /\ pc'[p] \in {"extract", "failed"}
        /\ pc'[p] = "extract" => archive' = [archive EXCEPT ![n] = temp[n]]
    BY <1>7 DEF Rename
  <2>2. n \in Names
    BY <2>1, NameType DEF CallChecked, Active
  <2>3. KeepsRev(p)'
    BY <1>0, <2>1, <2>2 DEF KeepsRev
  <2>4. KeepsFresh(p)'
    BY <1>0, <2>1 DEF KeepsFresh, Active
  <2>5. QED
    BY <2>3, <2>4
<1>8. CASE Extract(p)
  <2>1. /\ UNCHANGED <<tip, repo, temp, archive, req, rev, since, raced>>
        /\ pc[p] = "extract" /\ pc'[p] \in {"built", "failed"}
        /\ pc'[p] = "built" => archive[n] \in Commits /\ built'[p] = archive[n]
    BY <1>8 DEF Extract
  <2>2. KeepsRev(p)'
    BY <1>0, <2>1, ValueAssumption DEF KeepsRev
  <2>3. KeepsFresh(p)'
    BY <1>0, <2>1 DEF KeepsFresh, Active
  <2>4. QED
    BY <2>2, <2>3
<1>9. CASE Exit(p)
  <2>1. pc'[p] = "idle" /\ rev'[p] = Absent
    BY <1>9 DEF Exit
  <2>2. QED
    BY <2>1 DEF KeepsRev, KeepsFresh, Active
<1>10. QED
  BY <1>1, <1>2, <1>3, <1>4, <1>5, <1>6, <1>7, <1>8, <1>9 DEF Step

LEMMA HeadInductive == HInv /\ WInv' /\ [Next]_vars => HInv'
<1> SUFFICES ASSUME HInv, WInv', [Next]_vars, NEW q \in Roots
             PROVE  KeepsRev(q)' /\ KeepsFresh(q)'
  BY DEF HInv
<1>1. CASE \E p \in Roots : Step(p)
  <2>1. PICK p \in Roots : Step(p)
    BY <1>1
  <2>2. QED
    BY <2>1, OthersKept, OwnKept
<1>2. CASE \E n \in Names : Delete(n)
  <2>1. PICK n \in Names : Delete(n)
    BY <1>2
  <2>2. \A m \in Names : archive'[m] \in {Absent, archive[m]}
    BY <2>1 DEF Delete, HInv, WInv, TypeOK
  <2>3. pc[q] \in Active => NameOf(req[q]) \in Names
    BY NameType DEF HInv, WInv, TypeOK, CallChecked
  <2>4. /\ UNCHANGED <<tip, repo, temp, pc, req, rev, built, since, raced>>
    BY <2>1 DEF Delete
  <2>5. WInv /\ KeepsRev(q) /\ KeepsFresh(q)
    BY DEF HInv
  <2>6. QED
    BY <2>2, <2>3, <2>4, <2>5, Untouched
<1>3. CASE \E port \in Ports : Push(port)
  <2>1. PICK port \in Ports : Push(port)
    BY <1>3
  <2>2. UNCHANGED <<repo, temp, archive, pc, req, rev, built, since, raced>>
    BY <2>1 DEF Push, files
  <2>3. req[q].port \in Ports /\ since[q] \in Nat
    BY RequestAssumption DEF HInv, WInv, TypeOK, Request, Numbers
  <2>4. since[q] <= tip[req[q].port] => since[q] <= tip'[req[q].port]
    BY <2>1, <2>3 DEF Push, HInv, WInv, TypeOK, Numbers
  <2>5. WInv /\ KeepsRev(q) /\ KeepsFresh(q)
    BY DEF HInv
  <2>6. QED
    BY <2>2, <2>4, <2>5, Untouched
<1>4. CASE UNCHANGED vars
  <2>1. UNCHANGED <<tip, repo, temp, archive, pc, req, rev, built, since, raced>>
    BY <1>4 DEF vars, files
  <2>2. WInv /\ KeepsRev(q) /\ KeepsFresh(q)
    BY DEF HInv
  <2>3. QED
    BY <2>1, <2>2, Untouched
<1>5. QED
  BY <1>1, <1>2, <1>3, <1>4 DEF Next

LEMMA HeadInvariant == Spec => []HInv
<1>1. Init => HInv
  BY TypesAtStart, ValueAssumption
     DEF Init, HInv, WInv, RevKnown, RacesMarked, OwnTemp, OwnTempOf, WholeArchives,
         Active, KeepsRev, KeepsFresh
<1>2. HInv /\ TypeOK' /\ CallChecked' /\ [Next]_vars => HInv'
  BY WholeInductive, HeadInductive DEF HInv
<1>3. QED
  BY <1>1, <1>2, TypeCorrect, PTL DEF Spec

(* vcpkg_from_git reports as VCPKG_HEAD_VERSION the commit that it built,
   however the branch and the cache move meanwhile. *)
THEOREM HeadVersionTrueCorrect == Spec => []HeadVersionTrue
<1>1. HInv => HeadVersionTrue
  BY DEF HInv, KeepsRev, HeadVersionTrue
<1>2. QED
  BY <1>1, HeadInvariant, PTL

(* A --head build is not older than the branch was when it began, whatever
   earlier builds left in the cache. *)
THEOREM HeadFreshCorrect == Spec => []HeadFresh
<1>1. HInv => HeadFresh
  BY ValueAssumption DEF HInv, KeepsRev, KeepsFresh, HeadFresh
<1>2. QED
  BY <1>1, HeadInvariant, PTL
-----------------------------------------------------------------------------
(* How far a fallback is from what its message says. *)

(* One root at a time works in git-tmp. *)
Alone == \A p, q \in Roots : p = q

(* No port without HEAD_REF that has a FETCH_REF is built with --head. *)
NoFetchRefFallback == \A r \in Requests : Fallback(r) => ~r.fetchRef

(* What a run alone has in FETCH_HEAD, in rev_parse_ref, and in the files of a
   commit's name, a fallback like a build without --head. *)
OwnFetchHead ==
  \A p \in Roots :
     pc[p] = "revParse" /\ Fallback(req[p]) /\ req[p].ref \in Commits
     => repo[SharedRepo].fetchHead = req[p].ref

RefParsed ==
  \A p \in Roots :
     /\ pc[p] \in {"open", "write"} /\ ~HeadMode(req[p]) /\ req[p].ref \in Commits
     => rev[p] = req[p].ref

HoldsCommit(f, n) == n[2] \in Commits => f \in {Absent, Partial, n[2]}
CommitFiles == \A n \in Names : HoldsCommit(temp[n], n) /\ HoldsCommit(archive[n], n)

RefBuilt ==
  \A p \in Roots :
     pc[p] = "built" /\ ~HeadMode(req[p]) /\ req[p].ref \in Commits
     => built[p] = req[p].ref

LInv == OwnFetchHead /\ RefParsed /\ CommitFiles /\ RefBuilt

LEMMA CommitNames ==
  ASSUME TypeOK, CallChecked, RefParsed, NEW p \in Roots, pc[p] \in {"open", "write"}
  PROVE  /\ NameOf(req[p]) \in Names
         /\ NameOf(req[p])[2] \in Commits => NameOf(req[p])[2] = rev[p]
BY NameType, ValueAssumption
   DEF TypeOK, CallChecked, RefParsed, NameOf, Active

LEMMA FallbackInductive ==
  ASSUME Alone, NoFetchRefFallback
  PROVE  LInv /\ TypeOK /\ CallChecked /\ [Next]_vars => LInv'
<1> SUFFICES ASSUME LInv, TypeOK, CallChecked, [Next]_vars
             PROVE  OwnFetchHead' /\ RefParsed' /\ CommitFiles' /\ RefBuilt'
  BY DEF LInv
<1> DEFINE Kept == OwnFetchHead' /\ RefParsed' /\ CommitFiles' /\ RefBuilt'
<1> USE DEF LInv, TypeOK, Goto, files
<1>1. ASSUME NEW p \in Roots, NEW r \in Requests, Call(p, r) PROVE Kept
  BY <1>1 DEF Call, OwnFetchHead, RefParsed, CommitFiles, RefBuilt
<1>2. ASSUME NEW p \in Roots, Probe(p) PROVE Kept
  BY <1>2 DEF Probe, OwnFetchHead, RefParsed, CommitFiles, RefBuilt
<1>3. ASSUME NEW p \in Roots, Fetch(p) PROVE Kept
  <2>1. RefParsed' /\ CommitFiles' /\ RefBuilt'
    BY <1>3 DEF Fetch, RefParsed, CommitFiles, RefBuilt
  <2>2. OwnFetchHead'
    <3>1. SUFFICES ASSUME NEW q \in Roots, pc'[q] = "revParse", Fallback(req[q]),
                          req[q].ref \in Commits
                   PROVE  repo'[SharedRepo].fetchHead = req[q].ref
      BY <1>3 DEF Fetch, OwnFetchHead
    <3>2. q = p /\ pc[p] = "fetch"
      BY <1>3 DEF Alone, Fetch
    <3>3. RepoOf(p, req[p]) = SharedRepo /\ SharedRepo \in Repos
      BY <3>1, <3>2 DEF RepoOf, Fallback, HeadMode, Repos
    <3>4. Fetched(req[p]).fetchHead = req[p].ref
      BY <3>1, <3>2, ValueAssumption DEF Fetched, Fallback, HeadMode, NoFetchRefFallback
    <3>5. repo' = [repo EXCEPT ![SharedRepo].fetchHead = Fetched(req[p]).fetchHead,
                               ![SharedRepo].objects = @ \union Fetched(req[p]).objects]
      BY <1>3, <3>1, <3>2, <3>3 DEF Fetch
    <3>6. repo'[SharedRepo].fetchHead = Fetched(req[p]).fetchHead
      BY <3>3, <3>5
    <3>7. QED
      BY <3>2, <3>4, <3>6
  <2>3. QED
    BY <2>1, <2>2
<1>4. ASSUME NEW p \in Roots, RevParse(p) PROVE Kept
  <2>1. ~HeadMode(req[p]) /\ req[p].ref \in Commits => Parsed(p) = req[p].ref
    <3>1. CASE req[p].useHead
      BY <1>4, <3>1 DEF RevParse, Parsed, OwnFetchHead, Fallback, HeadMode, RepoOf
    <3>2. CASE ~req[p].useHead
      BY <3>2 DEF Parsed
    <3>3. QED
      BY <3>1, <3>2
  <2>2. RefParsed'
    BY <1>4, <2>1 DEF RevParse, RefParsed
  <2>3. OwnFetchHead' /\ CommitFiles' /\ RefBuilt'
    BY <1>4 DEF RevParse, OwnFetchHead, CommitFiles, RefBuilt
  <2>4. QED
    BY <2>2, <2>3
<1>5. ASSUME NEW p \in Roots, OpenArchive(p) PROVE Kept
  <2>1. OwnFetchHead' /\ RefParsed' /\ RefBuilt'
    BY <1>5 DEF OpenArchive, OwnFetchHead, RefParsed, RefBuilt
  <2>2. CommitFiles'
    BY <1>5, CommitNames DEF OpenArchive, CommitFiles, HoldsCommit
  <2>3. QED
    BY <2>1, <2>2
<1>6. ASSUME NEW p \in Roots, WriteArchive(p) PROVE Kept
  <2>1. OwnFetchHead' /\ RefParsed' /\ RefBuilt'
    BY <1>6 DEF WriteArchive, OwnFetchHead, RefParsed, RefBuilt
  <2>2. HoldsCommit(rev[p], NameOf(req[p])) /\ NameOf(req[p]) \in Names
    BY <1>6, CommitNames DEF WriteArchive, HoldsCommit
  <2>3. CommitFiles'
    BY <1>6, <2>2 DEF WriteArchive, CommitFiles
  <2>4. QED
    BY <2>1, <2>3
<1>7. ASSUME NEW p \in Roots, Rename(p) PROVE Kept
  <2>1. OwnFetchHead' /\ RefParsed' /\ RefBuilt'
    BY <1>7 DEF Rename, OwnFetchHead, RefParsed, RefBuilt
  <2>2. CommitFiles'
    BY <1>7 DEF Rename, CommitFiles, HoldsCommit
  <2>3. QED
    BY <2>1, <2>2
<1>8. ASSUME NEW p \in Roots, Extract(p) PROVE Kept
  <2>1. OwnFetchHead' /\ RefParsed' /\ CommitFiles'
    BY <1>8 DEF Extract, OwnFetchHead, RefParsed, CommitFiles
  <2>2. ~HeadMode(req[p]) /\ req[p].ref \in Commits /\ archive[NameOf(req[p])] \in Commits
        => archive[NameOf(req[p])] = req[p].ref
    BY <1>8, NameType, ValueAssumption
       DEF Extract, CallChecked, Active, CommitFiles, HoldsCommit, NameOf
  <2>3. RefBuilt'
    BY <1>8, <2>2 DEF Extract, RefBuilt
  <2>4. QED
    BY <2>1, <2>3
<1>9. ASSUME NEW p \in Roots, Exit(p) PROVE Kept
  BY <1>9 DEF Exit, OwnFetchHead, RefParsed, CommitFiles, RefBuilt
<1>10. ASSUME NEW n \in Names, Delete(n) PROVE Kept
  BY <1>10 DEF Delete, OwnFetchHead, RefParsed, CommitFiles, HoldsCommit, RefBuilt
<1>11. ASSUME NEW port \in Ports, Push(port) PROVE Kept
  BY <1>11 DEF Push, OwnFetchHead, RefParsed, CommitFiles, RefBuilt
<1>12. CASE UNCHANGED vars
  BY <1>12 DEF vars, OwnFetchHead, RefParsed, CommitFiles, RefBuilt
<1>13. QED
  BY <1>1, <1>2, <1>3, <1>4, <1>5, <1>6, <1>7, <1>8, <1>9, <1>10, <1>11, <1>12
     DEF Next, Step

(* "Falling back to non-HEAD version." is true where FETCH_HEAD can only be the
   REF: no FETCH_REF, and no other root in git-tmp between the fetch and
   rev-parse. *)
THEOREM FallbackAloneCorrect ==
  ASSUME Alone, NoFetchRefFallback
  PROVE  Spec => []FallbackBuildsRef
<1>1. Init => LInv
  BY DEF Init, LInv, OwnFetchHead, RefParsed, CommitFiles, HoldsCommit, RefBuilt
<1>2. LInv /\ TypeOK /\ CallChecked /\ [Next]_vars => LInv'
  BY FallbackInductive
<1>3. LInv => FallbackBuildsRef
  BY DEF LInv, RefBuilt, FallbackBuildsRef, Fallback, HeadMode
<1>4. QED
  BY <1>1, <1>2, <1>3, TypeCorrect, PTL DEF Spec

=============================================================================
