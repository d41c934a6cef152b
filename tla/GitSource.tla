----------------------------- MODULE GitSource -----------------------------
(***************************************************************************)
(* vcpkg_from_git (scripts/cmake/vcpkg_from_git.cmake): portfile runs in   *)
(* vcpkg roots that share DOWNLOADS fetch a commit with git, keep it as an *)
(* archive named after the port and the ref, and extract that archive.     *)
(* The archive has no SHA512: its name is all that says what it holds.     *)
(*                                                                         *)
(* A non-HEAD build works in DOWNLOADS/git-tmp, which all roots share; a   *)
(* HEAD build in a git-tmp of its own build tree.  The archive is written  *)
(* at DOWNLOADS/temp under the archive's name and then renamed.            *)
(*                                                                         *)
(* Data: every port has one repository with one branch, whose commits are  *)
(* numbered along its history; a commit SHA is the pair of port and        *)
(* number, and stands for the tree it names.                               *)
(***************************************************************************)
EXTENDS Naturals

CONSTANTS
  Roots,      \* vcpkg roots; each runs one portfile at a time
  Ports,
  MaxCommit,  \* bound on a branch's history
  Branch,     \* the branch that HEAD_REF or FETCH_REF names
  NoRef,      \* no REF argument
  NameRef,    \* a REF that is the name of a branch or tag, not a commit SHA;
              \* it may be the branch that HEAD_REF names
  SharedRepo, \* DOWNLOADS/git-tmp
  Absent, Partial, \* no file; a file that is not written to its end
  Requests    \* the calls portfiles make

Numbers == 1 .. MaxCommit
Commits == Ports \X Numbers
Names   == Ports \X (Commits \union {NameRef, Branch})
Repos   == {SharedRepo} \union (Roots \X Ports)
Files   == Commits \union {Absent, Partial}

Request ==
  [port : Ports, ref : Commits \union {NoRef, NameRef}, fetchRef : BOOLEAN,
   headRef : BOOLEAN, useHead : BOOLEAN, noDownloads : BOOLEAN]

ASSUME BoundAssumption == MaxCommit \in Nat \ {0}

ASSUME ValueAssumption ==
  /\ NoRef \notin Commits /\ NameRef \notin Commits /\ Branch \notin Commits
  /\ NoRef # NameRef
  /\ Absent \notin Commits /\ Partial \notin Commits /\ Absent # Partial
  /\ SharedRepo \notin Roots \X Ports

ASSUME RequestAssumption ==
  /\ Requests \subseteq Request /\ Requests # {}
  /\ \A r \in Requests : r.ref \in Commits => r.ref[1] = r.port

VARIABLES
  tip,     \* the remote branch of every port
  repo,    \* every git directory: the commits it has, and its FETCH_HEAD
  temp,    \* DOWNLOADS/temp
  archive, \* DOWNLOADS
  handle,  \* where the file that a run is writing is linked
  pc, req, \* where each root's portfile run is, and the call it makes
  rev,     \* rev_parse_ref; a build with --head reports it
  built,   \* the tree that was extracted for the portfile
  since,   \* the remote branch when a HEAD build began
  raced    \* archive names that two runs were busy with at once

vars == <<tip, repo, temp, archive, handle, pc, req, rev, built, since, raced>>
files == <<temp, archive, handle>>

Active == {"probe", "fetch", "revParse", "open", "write", "rename", "extract"}
(* How a call fails: by one of its own checks, or by a command ("failed"). *)
Failed == {"badArguments", "needsHead", "disabled", "failed"}
Places == {"idle", "built"} \union Active \union Failed

-----------------------------------------------------------------------------
HeadMode(r) == r.useHead /\ r.headRef
Fallback(r) == r.useHead /\ ~r.headRef

BadArguments(r) ==
  \/ r.ref = NoRef /\ ~r.headRef
  \/ r.fetchRef /\ r.ref = NoRef

(* Mutant: the archive is named after the REF in a HEAD build too. *)
NameByRef(r) == <<r.port, IF r.ref = NoRef THEN Branch ELSE r.ref>>

(* ${PORT}-${sanitized_ref}.tar.gz *)
NameOf(r) == <<r.port, IF HeadMode(r) THEN Branch ELSE r.ref>>

(* git_working_directory *)
RepoOf(p, r) == IF HeadMode(r) THEN <<p, r.port>> ELSE SharedRepo

(* The value of req where no call is under way. *)
NoRequest == CHOOSE r \in Requests : TRUE

Racing(p, r) ==
  \E q \in Roots \ {p} : pc[q] \in Active /\ NameOf(req[q]) = NameOf(r)

Goto(p, place) == pc' = [pc EXCEPT ![p] = place]

-----------------------------------------------------------------------------
Init ==
  /\ tip = [port \in Ports |-> 1]
  /\ repo = [g \in Repos |-> [objects |-> {}, fetchHead |-> Absent]]
  /\ temp = [n \in Names |-> Absent]
  /\ archive = [n \in Names |-> Absent]
  /\ handle = [p \in Roots |-> "none"]
  /\ pc = [p \in Roots |-> "idle"]
  /\ req = [p \in Roots |-> NoRequest]
  /\ rev = [p \in Roots |-> Absent]
  /\ built = [p \in Roots |-> Absent]
  /\ since = [p \in Roots |-> 1]
  /\ raced = {}

(* A portfile calls vcpkg_from_git; its arguments are checked. *)
Call(p, r) ==
  /\ pc[p] = "idle"
  /\ req' = [req EXCEPT ![p] = r]
  /\ since' = [since EXCEPT ![p] = IF HeadMode(r) THEN tip[r.port] ELSE 1]
  /\ \/ /\ BadArguments(r)
        /\ Goto(p, "badArguments") /\ UNCHANGED raced
     \/ /\ ~BadArguments(r) /\ ~HeadMode(r) /\ r.ref = NoRef
        /\ Goto(p, "needsHead") /\ UNCHANGED raced
     \/ /\ ~BadArguments(r) /\ (HeadMode(r) \/ r.ref # NoRef)
        /\ Goto(p, "probe")
        /\ raced' = IF Racing(p, r) THEN raced \union {NameOf(r)} ELSE raced
  /\ UNCHANGED <<tip, repo, files, rev, built>>

(* Mutant: an archive in the cache is good enough for a HEAD build too. *)
ProbeStale(p) ==
  /\ pc[p] = "probe"
  /\ IF archive[NameOf(req[p])] # Absent THEN Goto(p, "extract")
     ELSE Goto(p, IF req[p].noDownloads THEN "disabled" ELSE "fetch")
  /\ UNCHANGED <<tip, repo, files, req, rev, built, since, raced>>

(* do_download: when the archive is missing, and always for a HEAD build
   that may download. *)
Probe(p) ==
  /\ pc[p] = "probe"
  /\ LET cached == archive[NameOf(req[p])] # Absent IN
     \/ ~cached /\ req[p].noDownloads /\ Goto(p, "disabled")
     \/ (~cached \/ HeadMode(req[p])) /\ ~req[p].noDownloads /\ Goto(p, "fetch")
     \/ cached /\ (~HeadMode(req[p]) \/ req[p].noDownloads) /\ Goto(p, "extract")
  /\ UNCHANGED <<tip, repo, files, req, rev, built, since, raced>>

(* What "git fetch URL ref" brings: the named commit alone (--depth 1), or
   the whole history of FETCH_REF. *)
Fetched(r) ==
  LET head == IF HeadMode(r) \/ r.fetchRef \/ r.ref = NameRef
              THEN <<r.port, tip[r.port]>> ELSE r.ref
  IN  [fetchHead |-> head,
       objects   |-> IF r.fetchRef /\ ~HeadMode(r)
                     THEN {<<r.port, k>> : k \in 1 .. tip[r.port]} ELSE {head}]

(* git init, git fetch, and the git lfs commands when LFS is asked for. *)
Fetch(p) ==
  /\ pc[p] = "fetch"
  /\ \/ /\ LET g == RepoOf(p, req[p])
               f == Fetched(req[p])
           IN  repo' = [repo EXCEPT ![g].fetchHead = f.fetchHead,
                                    ![g].objects = @ \union f.objects]
        /\ Goto(p, "revParse")
     \/ Goto(p, "failed") /\ UNCHANGED repo
  /\ UNCHANGED <<tip, files, req, rev, built, since, raced>>

(* Mutant: every build takes what was fetched last. *)
ParsedFetchHead(p) == repo[RepoOf(p, req[p])].fetchHead

(* git rev-parse expected_rev_parse.  A full SHA is echoed whether or not
   the repository has the commit. *)
Parsed(p) ==
  IF req[p].useHead THEN repo[RepoOf(p, req[p])].fetchHead ELSE req[p].ref

RevParse(p) ==
  /\ pc[p] = "revParse"
  /\ \/ /\ Parsed(p) \in Commits
        /\ rev' = [rev EXCEPT ![p] = Parsed(p)]
        /\ Goto(p, "open")
     \/ /\ req[p].useHead \/ Parsed(p) = NameRef
        /\ Goto(p, "failed") /\ UNCHANGED rev
  /\ UNCHANGED <<tip, repo, files, req, built, since, raced>>

(* Mutant: git archive writes to the cache without the detour by temp. *)
OpenInPlace(p) ==
  /\ pc[p] = "open"
  /\ rev[p] \in repo[RepoOf(p, req[p])].objects
  /\ archive' = [archive EXCEPT ![NameOf(req[p])] = Partial]
  /\ handle' = [handle EXCEPT ![p] = "archive"]
  /\ Goto(p, "write")
  /\ UNCHANGED <<tip, repo, temp, req, rev, built, since, raced>>

(* git archive: opens the temporary file, truncating one that is there. *)
OpenArchive(p) ==
  /\ pc[p] = "open"
  /\ \/ /\ rev[p] \in repo[RepoOf(p, req[p])].objects
        /\ temp' = [temp EXCEPT ![NameOf(req[p])] = Partial]
        /\ handle' = [handle EXCEPT ![p] = "temp"]
        /\ Goto(p, "write")
     \/ Goto(p, "failed") /\ UNCHANGED <<temp, handle>>
  /\ UNCHANGED <<tip, repo, archive, req, rev, built, since, raced>>

(* git archive writes the file to its end, wherever it is linked by now. *)
WriteArchive(p) ==
  /\ pc[p] = "write"
  /\ \/ /\ temp' = IF handle[p] = "temp"
                   THEN [temp EXCEPT ![NameOf(req[p])] = rev[p]] ELSE temp
        /\ archive' = IF handle[p] = "archive"
                      THEN [archive EXCEPT ![NameOf(req[p])] = rev[p]] ELSE archive
        /\ Goto(p, "rename")
     \/ Goto(p, "failed") /\ UNCHANGED <<temp, archive>>
  /\ handle' = [handle EXCEPT ![p] = "none"]
  /\ UNCHANGED <<tip, repo, req, rev, built, since, raced>>

(* The files other runs are still writing under name n, after the file at
   n was unlinked or replaced, and the temporary one moved. *)
Relinked(n, fromTemp) ==
  [q \in Roots |->
     IF NameOf(req[q]) # n THEN handle[q]
     ELSE IF handle[q] = "archive" THEN "unlinked"
     ELSE IF handle[q] = "temp" THEN fromTemp
     ELSE handle[q]]

(* Mutant: the rename does not replace an archive that is there. *)
RenameKeeping(p) ==
  LET n == NameOf(req[p]) IN
  /\ pc[p] = "rename"
  /\ IF archive[n] = Absent
     THEN /\ archive' = [archive EXCEPT ![n] = temp[n]]
          /\ temp' = [temp EXCEPT ![n] = Absent]
          /\ handle' = Relinked(n, "archive")
     ELSE UNCHANGED files
  /\ Goto(p, "extract")
  /\ UNCHANGED <<tip, repo, req, rev, built, since, raced>>

(* file(RENAME temp_archive archive) *)
Rename(p) ==
  LET n == NameOf(req[p]) IN
  /\ pc[p] = "rename"
  /\ \/ /\ temp[n] # Absent
        /\ archive' = [archive EXCEPT ![n] = temp[n]]
        /\ temp' = [temp EXCEPT ![n] = Absent]
        /\ handle' = Relinked(n, "archive")
        /\ Goto(p, "extract")
     \/ /\ temp[n] = Absent
        /\ Goto(p, "failed") /\ UNCHANGED files
  /\ UNCHANGED <<tip, repo, req, rev, built, since, raced>>

(* Mutant: the result of the extraction is not checked. *)
ExtractUnchecked(p) ==
  /\ pc[p] = "extract"
  /\ built' = [built EXCEPT ![p] = archive[NameOf(req[p])]]
  /\ Goto(p, "built")
  /\ UNCHANGED <<tip, repo, files, req, rev, since, raced>>

(* vcpkg_extract_source_archive_ex: a truncated archive does not extract. *)
Extract(p) ==
  LET n == NameOf(req[p]) IN
  /\ pc[p] = "extract"
  /\ \/ /\ archive[n] \in Commits
        /\ built' = [built EXCEPT ![p] = archive[n]]
        /\ Goto(p, "built")
     \/ /\ archive[n] \in {Absent, Partial}
        /\ Goto(p, "failed") /\ UNCHANGED built
  /\ UNCHANGED <<tip, repo, files, req, rev, since, raced>>

(* The portfile run ends, normally or not, or is killed. *)
Exit(p) ==
  /\ pc[p] # "idle"
  /\ Goto(p, "idle")
  /\ handle' = [handle EXCEPT ![p] = "none"]
  /\ rev' = [rev EXCEPT ![p] = Absent]
  /\ built' = [built EXCEPT ![p] = Absent]
  /\ req' = [req EXCEPT ![p] = NoRequest]
  /\ since' = [since EXCEPT ![p] = 1]
  /\ UNCHANGED <<tip, repo, temp, archive, raced>>

(* The user deletes a cached archive. *)
Delete(n) ==
  /\ archive[n] # Absent
  /\ archive' = [archive EXCEPT ![n] = Absent]
  /\ handle' = Relinked(n, "temp")
  /\ UNCHANGED <<tip, repo, temp, pc, req, rev, built, since, raced>>

(* The upstream project pushes a commit to the branch. *)
Push(port) ==
  /\ tip[port] < MaxCommit
  /\ tip' = [tip EXCEPT ![port] = @ + 1]
  /\ UNCHANGED <<repo, files, pc, req, rev, built, since, raced>>

Step(p) ==
  \/ \E r \in Requests : Call(p, r)
  \/ Probe(p) \/ Fetch(p) \/ RevParse(p) \/ OpenArchive(p) \/ WriteArchive(p)
  \/ Rename(p) \/ Extract(p) \/ Exit(p)

Next ==
  \/ \E p \in Roots : Step(p)
  \/ \E n \in Names : Delete(n)
  \/ \E port \in Ports : Push(port)

Spec == Init /\ [][Next]_vars

-----------------------------------------------------------------------------
TypeOK ==
  /\ tip \in [Ports -> Numbers]
  /\ repo \in [Repos -> [objects : SUBSET Commits, fetchHead : Commits \union {Absent}]]
  /\ temp \in [Names -> Files]
  /\ archive \in [Names -> Files]
  /\ handle \in [Roots -> {"none", "temp", "archive", "unlinked"}]
  /\ pc \in [Roots -> Places]
  /\ req \in [Roots -> Requests]
  /\ rev \in [Roots -> Commits \union {Absent}]
  /\ built \in [Roots -> Commits \union {Absent}]
  /\ since \in [Roots -> Numbers]
  /\ raced \in SUBSET Names

(* No portfile is built with --head without giving a HEAD_REF. *)
NoFallback == \A r \in Requests : ~Fallback(r)

(* A build that is not --head and gives a commit SHA as REF uses exactly that
   commit, although the archive is not hashed, git-tmp and the cache are shared
   with other roots, two roots may write the same archive at once, branches
   move and runs are killed half way. *)
PinnedBuild ==
  \A p \in Roots :
     pc[p] = "built" /\ ~HeadMode(req[p]) /\ req[p].ref \in Commits
     => built[p] = req[p].ref

(* "REF must be a commit SHA" (vcpkg_from_git.cmake:157): a portfile that gives
   the name of a branch or tag as REF is never built without --head, whatever
   archives earlier builds left in DOWNLOADS. *)
NamesRefused ==
  \A p \in Roots :
     pc[p] = "built" /\ ~req[p].useHead => req[p].ref \in Commits

(* The commit a --head build reports as VCPKG_HEAD_VERSION is the commit it
   was built from, unless two roots raced for the same archive. *)
HeadVersionTrue ==
  \A p \in Roots :
     /\ pc[p] = "built" /\ req[p].useHead /\ rev[p] # Absent
     /\ NameOf(req[p]) \notin raced
     => built[p] = rev[p]

(* A --head build that may download is at least as new as the remote branch
   was when the build began. *)
HeadFresh ==
  \A p \in Roots :
     /\ pc[p] = "built" /\ HeadMode(req[p]) /\ ~req[p].noDownloads
     /\ NameOf(req[p]) \notin raced
     => built[p][2] >= since[p]

(* A run killed while it writes leaves nothing in DOWNLOADS that later runs
   would take for the archive. *)
WholeArchives == \A n \in Names \ raced : archive[n] # Partial

(* An archive named after a commit is never replaced by another commit, not
   even when two roots write it at once: it is deleted, or the loser of such a
   race renames its unfinished file over it. *)
CacheStable ==
  [][\A n \in Names :
       /\ n[2] \in Commits /\ archive[n] \in Commits
       /\ archive'[n] # archive[n]
       => archive'[n] = Absent \/ (n \in raced /\ archive'[n] = Partial)]_vars

(* "Package does not specify HEAD_REF. Falling back to non-HEAD version." *)
FallbackBuildsRef ==
  \A p \in Roots :
     pc[p] = "built" /\ Fallback(req[p]) /\ req[p].ref \in Commits
     => built[p] = req[p].ref
=============================================================================
