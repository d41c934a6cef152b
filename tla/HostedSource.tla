---------------------------- MODULE HostedSource ----------------------------
(***************************************************************************)
(* vcpkg_from_github, vcpkg_from_gitlab and vcpkg_from_bitbucket: a        *)
(* portfile downloads the archive of a commit or, with --head, first the   *)
(* name of the commit that a branch is at, which the tool reports as the   *)
(* version of the package (VCPKG_HEAD_VERSION), and then an archive.       *)
(*                                                                         *)
(* All downloads are calls of vcpkg_download_distfile: this module runs    *)
(* Distfile, with its caches, races, deletions and kills, and adds the     *)
(* three callers, and remote repositories whose branches move.             *)
(*                                                                         *)
(* Data: the commits of a branch are numbered; a repository has one        *)
(* branch.  The archive of a commit has a Form, because hosts pack one     *)
(* commit differently over time.  An answer is what a host says that the   *)
(* branch is at; Garbage is an answer that cannot be parsed.               *)
(***************************************************************************)
EXTENDS Naturals, Sequences

CONSTANTS
  Procs,       \* portfile runs
  Repos, MaxCommit, Forms,
  Garbage,     \* an answer without a commit
  Suffixes, NoSuffix,  \* values of FILE_DISAMBIGUATOR
  NoRef,       \* no REF argument
  NoVersion,   \* VCPKG_HEAD_VERSION is not defined
  ZeroSha, BadSha, NoSha, Tags, Tag, NoTag, Absent,   \* as in Distfile
  Portfiles,   \* sequences of calls
  Modes        \* how the tool runs a portfile

Numbers  == 1 .. MaxCommit
Archive(repo, n, form) == <<"archive", repo, n, form>>
Answer(repo, n)        == <<"answer", repo, n>>
Contents ==
  {Archive(repo, n, form) : repo \in Repos, n \in Numbers, form \in Forms}
  \union {Answer(repo, n) : repo \in Repos, n \in Numbers} \union {Garbage}
Versions == Repos \X Numbers

(* File names: the archive of a commit or of the branch, and the answers. *)
Files ==
  Repos \X ({"commit", "commitVersion"} \X Numbers \union {"head", "headVersion"} \X {1})
        \X (Suffixes \union {NoSuffix})

Hashes  == Contents \union {ZeroSha}
Request ==
  [file : Files, sha : Hashes \union {BadSha, NoSha}, skip : BOOLEAN,
   always : BOOLEAN, noDownloads : BOOLEAN, noHashCheck : BOOLEAN]

Hosts  == {"github", "gitlab", "bitbucket"}
CallOf ==
  [host : Hosts, repo : Repos, ref : Numbers \union {NoRef},
   sha : Hashes \union {BadSha, NoSha}, headRef : BOOLEAN,
   suffix : Suffixes \union {NoSuffix}]
Mode   == [head : BOOLEAN, noDownloads : BOOLEAN, noHashCheck : BOOLEAN]

ASSUME BoundAssumption == MaxCommit \in Nat \ {0}

ASSUME HashAssumption ==
  /\ NoSha \notin Hashes /\ BadSha \notin Hashes /\ NoSha # BadSha
  /\ ZeroSha \notin Contents /\ Absent \notin Hashes
  /\ NoTag \notin Tags
  /\ Tag \in [Hashes -> Tags]

ASSUME ValueAssumption ==
  /\ NoVersion \notin Versions /\ NoRef \notin Numbers
  /\ \A repo \in Repos, n \in Numbers : Answer(repo, n) # Garbage
  /\ \A repo \in Repos, n \in Numbers, form \in Forms : Archive(repo, n, form) # Garbage

ASSUME PortfileAssumption ==
  /\ Portfiles \subseteq Seq(CallOf) \ {<<>>} /\ Portfiles # {}
  /\ Modes \subseteq Mode /\ Modes # {} /\ Repos # {}

VARIABLES
  downloads, pc, req, name, got, contended,  \* of Distfile
  tip,          \* the commit that every branch is at
  stage,        \* where each portfile run is
  portfile, mode, index,
  headVersion,  \* VCPKG_HEAD_VERSION of the portfile
  since,        \* the commit the branch was at when the call began
  asked,        \* ... and when the last download began
  crossed       \* runs of which a download of the call was contended

vars == <<downloads, pc, req, name, got, contended, tip, stage, portfile, mode,
          index, headVersion, since, asked, crossed>>

NoDownload ==
  [file |-> <<CHOOSE repo \in Repos : TRUE, <<"head", 1>>, NoSuffix>>, sha |-> NoSha,
   skip |-> TRUE, always |-> TRUE, noDownloads |-> FALSE, noHashCheck |-> FALSE]

D == INSTANCE Distfile WITH Requests <- Request, NoRequest <- NoDownload

distfile == <<downloads, pc, req, name, got, contended>>
script   == <<portfile, mode, index>>

Stages == {"idle", "enter", "version", "asking", "archive", "refused", "badAnswer", "done"}

-----------------------------------------------------------------------------
(* The call that a run is in. *)
This(p)     == portfile[p][index[p]]
HeadMode(p) == mode[p].head /\ This(p).headRef

(* The checks at the head of the three functions. *)
Refused(p) ==
  LET r == This(p) IN
  \/ r.ref # NoRef /\ r.sha = NoSha
  \/ r.ref = NoRef /\ r.sha # NoSha
  \/ r.ref = NoRef /\ ~r.headRef
  \/ r.ref = NoRef /\ ~mode[p].head

(* Mutant: every call of vcpkg_from_gitlab sets the version. *)
AsksAlways(p) == mode[p].head

(* The version is asked for: GitHub's fallback turns --head off, the others'
   does not; GitLab's only asks once per portfile. *)
AsksVersion(p) ==
  /\ mode[p].head
  /\ This(p).host = "github" => This(p).headRef
  /\ This(p).host = "gitlab" => headVersion[p] = NoVersion

VersionFile(p) ==
  LET r == This(p) IN
  <<r.repo, IF r.headRef THEN <<"headVersion", 1>> ELSE <<"commitVersion", r.ref>>, NoSuffix>>

(* Mutant: the archive of the branch instead of that of the commit. *)
ArchiveFileOfBranch(p) ==
  LET r == This(p) IN
  <<r.repo, IF HeadMode(p) THEN <<"head", 1>> ELSE <<"commit", r.ref>>, NoSuffix>>

(* downloaded_file_name.  GitHub's condition for the suffix names a variable
   that is never set, so that --head does not remove the suffix. *)
ArchiveFile(p) ==
  LET r == This(p) IN
  <<r.repo,
    IF ~HeadMode(p) THEN <<"commit", r.ref>>
    ELSE IF r.host = "github" THEN <<"commit", headVersion[p][2]>>
    ELSE <<"head", 1>>,
    CASE r.host = "github"    -> r.suffix
      [] r.host = "gitlab"    -> IF mode[p].head THEN NoSuffix ELSE r.suffix
      [] r.host = "bitbucket" -> NoSuffix>>

Download(p, file, sha, fresh) ==
  [file |-> file, sha |-> sha, skip |-> fresh, always |-> fresh,
   noDownloads |-> mode[p].noDownloads, noHashCheck |-> mode[p].noHashCheck]

(* Mutant: an answer that is there is not asked for again. *)
VersionRequestCached(p) == [Download(p, VersionFile(p), NoSha, TRUE) EXCEPT !.always = FALSE]

(* Mutants: --head takes a cached archive; no archive is hashed. *)
ArchiveRequestCached(p) ==
  [Download(p, ArchiveFile(p), IF HeadMode(p) THEN NoSha ELSE This(p).sha, HeadMode(p))
     EXCEPT !.always = FALSE]
ArchiveRequestUnchecked(p) == Download(p, ArchiveFile(p), NoSha, TRUE)

VersionRequest(p) == Download(p, VersionFile(p), NoSha, TRUE)
ArchiveRequest(p) ==
  Download(p, ArchiveFile(p), IF HeadMode(p) THEN NoSha ELSE This(p).sha, HeadMode(p))

(* What the host has for the requested URL while the download goes on. *)
Served(p) ==
  LET repo  == This(p).repo
      what  == req[p].file[2]
      recent == asked[p] .. tip[repo]
  IN
  CASE what[1] = "commit"        -> {Archive(repo, n, form) : n \in {what[2]} \intersect 1 .. tip[repo],
                                                              form \in Forms}
    [] what[1] = "head"          -> {Archive(repo, n, form) : n \in recent, form \in Forms}
    [] what[1] = "headVersion"   -> {Answer(repo, n) : n \in recent} \union {Garbage}
    [] what[1] = "commitVersion" -> {Answer(repo, n) : n \in 1 .. tip[repo]} \union {Garbage}

NoPortfile == CHOOSE f \in Portfiles : TRUE
NoMode     == CHOOSE m \in Modes : TRUE

GoTo(p, place) == stage' = [stage EXCEPT ![p] = place]

-----------------------------------------------------------------------------
Init ==
  /\ downloads = [n \in D!Names |-> Absent] /\ D!Init
  /\ tip = [repo \in Repos |-> 1]
  /\ stage = [p \in Procs |-> "idle"]
  /\ portfile = [p \in Procs |-> NoPortfile]
  /\ mode = [p \in Procs |-> NoMode]
  /\ index = [p \in Procs |-> 1]
  /\ headVersion = [p \in Procs |-> NoVersion]
  /\ since = [p \in Procs |-> 1] /\ asked = [p \in Procs |-> 1]
  /\ crossed = {}

(* The tool runs a portfile. *)
Start(p, f, m) ==
  /\ stage[p] = "idle" /\ pc[p] = "idle"
  /\ portfile' = [portfile EXCEPT ![p] = f]
  /\ mode' = [mode EXCEPT ![p] = m]
  /\ GoTo(p, "enter")
  /\ UNCHANGED <<distfile, index, tip, headVersion, since, asked>>

(* A vcpkg_from_* function is entered, up to its first download. *)
Enter(p) ==
  /\ stage[p] = "enter"
  /\ \/ /\ Refused(p)
        /\ GoTo(p, "refused") /\ UNCHANGED <<distfile, since>>
     \/ /\ ~Refused(p) /\ AsksVersion(p)
        /\ D!Call(p, VersionRequest(p)) /\ GoTo(p, "version")
        /\ since' = [since EXCEPT ![p] = IF HeadMode(p) THEN tip[This(p).repo] ELSE 1]
     \/ /\ ~Refused(p) /\ ~AsksVersion(p)
        /\ D!Call(p, ArchiveRequest(p)) /\ GoTo(p, "archive")
        /\ since' = [since EXCEPT ![p] = IF HeadMode(p) THEN tip[This(p).repo] ELSE 1]
  /\ UNCHANGED <<script, tip, headVersion, asked>>

(* A step of vcpkg_download_distfile.  x-download brings what the host has. *)
Fetch(p) == D!Fetch(p) /\ (pc'[p] = "ready" => downloads'[name[p]] \in Served(p))

Downloading(p) ==
  /\ D!Probe(p) \/ D!Verify(p) \/ D!Probe2(p) \/ D!Verify2(p) \/ Fetch(p) \/ D!Use(p)
  /\ asked' = IF pc'[p] = "fetch" THEN [asked EXCEPT ![p] = tip[This(p).repo]] ELSE asked
  /\ UNCHANGED <<script, tip, stage, headVersion, since>>

(* The answer is read and parsed, and the version exported. *)
ReadVersion(p) ==
  /\ stage[p] = "version" /\ pc[p] = "used"
  /\ D!Exit(p)
  /\ \/ /\ got[p] = Garbage
        /\ GoTo(p, "badAnswer") /\ UNCHANGED headVersion
     \/ /\ got[p] # Garbage
        /\ headVersion' = [headVersion EXCEPT ![p] = <<got[p][2], got[p][3]>>]
        /\ GoTo(p, "asking")
  /\ UNCHANGED <<script, tip, since, asked>>

(* ... and the archive is asked for. *)
AskArchive(p) ==
  /\ stage[p] = "asking"
  /\ D!Call(p, ArchiveRequest(p)) /\ GoTo(p, "archive")
  /\ UNCHANGED <<script, tip, headVersion, since, asked>>

(* Mutant: there is always another call. *)
ReturnPastEnd(p) ==
  /\ stage[p] = "archive" /\ pc[p] = "used"
  /\ D!Exit(p)
  /\ index' = [index EXCEPT ![p] = @ + 1] /\ GoTo(p, "enter")
  /\ UNCHANGED <<portfile, mode, tip, headVersion, since, asked>>

(* The archive was extracted; the portfile goes on to its next call. *)
Return(p) ==
  /\ stage[p] = "archive" /\ pc[p] = "used"
  /\ D!Exit(p)
  /\ \/ /\ index[p] < Len(portfile[p])
        /\ index' = [index EXCEPT ![p] = @ + 1] /\ GoTo(p, "enter")
     \/ /\ index[p] = Len(portfile[p])
        /\ GoTo(p, "done") /\ UNCHANGED index
  /\ UNCHANGED <<portfile, mode, tip, headVersion, since, asked>>

(* The run ends: it is done, has failed, or is killed. *)
Quit(p) ==
  /\ stage[p] # "idle"
  /\ D!Exit(p) \/ (pc[p] = "idle" /\ UNCHANGED distfile)
  /\ GoTo(p, "idle")
  /\ portfile' = [portfile EXCEPT ![p] = NoPortfile]
  /\ mode' = [mode EXCEPT ![p] = NoMode]
  /\ index' = [index EXCEPT ![p] = 1]
  /\ headVersion' = [headVersion EXCEPT ![p] = NoVersion]
  /\ since' = [since EXCEPT ![p] = 1] /\ asked' = [asked EXCEPT ![p] = 1]
  /\ UNCHANGED tip

Step(p) ==
  \/ \E f \in Portfiles, m \in Modes : Start(p, f, m)
  \/ Enter(p) \/ Downloading(p) \/ ReadVersion(p) \/ AskArchive(p)
  \/ Return(p) \/ Quit(p)

(* Somebody pushes to a branch; the user deletes a cached file. *)
Push(repo) ==
  /\ tip[repo] < MaxCommit
  /\ tip' = [tip EXCEPT ![repo] = @ + 1]
  /\ UNCHANGED <<distfile, script, stage, headVersion, since, asked>>

Delete(n) ==
  D!Delete(n) /\ UNCHANGED <<script, tip, stage, headVersion, since, asked>>

(* A history of Distfile's contended, which forgets a download that is over:
   it lasts from the beginning of a vcpkg_from_* call to its end. *)
Remember ==
  crossed' = {p \in crossed : stage[p] \notin {"idle", "enter"}} \union contended'

Next ==
  /\ \/ \E p \in Procs : Step(p)
     \/ \E repo \in Repos : Push(repo)
     \/ \E n \in D!Names : Delete(n)
  /\ Remember

Spec == Init /\ [][Next]_vars

-----------------------------------------------------------------------------
TypeOK ==
  /\ D!TypeOK
  /\ tip \in [Repos -> Numbers]
  /\ stage \in [Procs -> Stages]
  /\ portfile \in [Procs -> Portfiles]
  /\ mode \in [Procs -> Modes]
  /\ index \in [Procs -> Nat] /\ \A p \in Procs : index[p] \in 1 .. Len(portfile[p])
  /\ headVersion \in [Procs -> Versions \union {NoVersion}]
  /\ since \in [Procs -> Numbers] /\ asked \in [Procs -> Numbers]
  /\ crossed \in SUBSET Procs

(* The archive is about to be unpacked. *)
Unpacks(p) == stage[p] = "archive" /\ pc[p] = "used"
NumberOf(c) == c[3]

(* GitHub: the version that a --head build reports is the commit it builds,
   however the branch moves and whatever other roots do in the cache. *)
GithubReportsBuilt ==
  \A p \in Procs :
    Unpacks(p) /\ This(p).host = "github" /\ HeadMode(p) =>
      headVersion[p] = <<This(p).repo, NumberOf(got[p])>>

(* GitLab and Bitbucket ask for the version and the archive of a branch that
   may move in between: the version that a --head build reports may be older
   than what it builds, and is never newer, unless another root downloads the
   same branch at the same time. *)
ReportsNotNewer ==
  \A p \in Procs :
    /\ Unpacks(p) /\ HeadMode(p) /\ p \notin contended
    /\ headVersion[p] # NoVersion /\ headVersion[p][1] = This(p).repo
    => headVersion[p][2] <= NumberOf(got[p])

(* A --head build is not older than the branch was when the call began: neither
   answers nor archives come from the cache, unless another root downloads one
   of the two files at the same time. *)
HeadFresh ==
  \A p \in Procs :
    Unpacks(p) /\ HeadMode(p) /\ p \notin crossed => since[p] <= NumberOf(got[p])

(* A build that is not --head, or that falls back to REF, unpacks the archive
   of its SHA512, unless another root downloads the same file unchecked. *)
PinnedBuild ==
  \A p \in Procs :
    Unpacks(p) /\ ~HeadMode(p) /\ ~mode[p].noHashCheck /\ p \notin contended =>
      got[p] = This(p).sha

(* vcpkg_from_gitlab's comment: of several calls, the first one's version is
   used. *)
FirstVersion ==
  \A p \in Procs :
    /\ \A k \in DOMAIN portfile[p] : portfile[p][k].host = "gitlab"
    /\ headVersion[p] # NoVersion
    => headVersion[p][1] = portfile[p][1].repo

(* The checks of the callers are those of vcpkg_download_distfile: it never
   refuses their arguments, but for a SHA512 that is none. *)
NeverMalformed ==
  \A p \in Procs : pc[p] = "badArguments" => This(p).sha = BadSha

(* "Package does not specify HEAD_REF. Falling back to non-HEAD version.": the
   build of a single such call neither asks for the version of a branch nor
   reports one. *)
FallbackIsNotHead ==
  \A p \in Procs :
    stage[p] # "idle" /\ Len(portfile[p]) = 1 /\ ~HeadMode(p) =>
      stage[p] # "version" /\ headVersion[p] = NoVersion
=============================================================================
