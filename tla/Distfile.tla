------------------------------ MODULE Distfile ------------------------------
(***************************************************************************)
(* vcpkg_download_distfile (scripts/cmake/vcpkg_download_distfile.cmake):  *)
(* portfile runs that share one DOWNLOADS directory ask for a file by its  *)
(* FILENAME, either pinned to a SHA512 or with the hash check skipped.     *)
(*                                                                         *)
(* A portfile run is a CMake process of its own.  One vcpkg root runs them *)
(* one after the other, but VCPKG_DOWNLOADS lets several roots share the   *)
(* directory, so every file operation of the function is a separate step.  *)
(*                                                                         *)
(* Data: the SHA512 of a content identifies it, so a hash is the content   *)
(* it is the hash of.  ZeroSha stands for "SHA512 0", which the function   *)
(* expands to 128 zeros and which no content has; BadSha for a value that  *)
(* is not a SHA512 at all.  Tag[h] is the first eight digits of h.         *)
(***************************************************************************)
CONSTANTS
  Procs,      \* portfile runs
  Files,      \* FILENAME arguments
  Contents,   \* what a file may hold
  ZeroSha, BadSha, NoSha,  \* values of SHA512 that are not a content's hash
  Tags, Tag,  \* the eight-digit prefixes, and the prefix of every hash
  NoTag,      \* the plain FILENAME, with no prefix added
  Absent,     \* no such file
  Requests,   \* the calls portfiles make
  NoRequest   \* one of them, that stands in req when there is no call

Hashes  == Contents \union {ZeroSha}
Names   == Files \X (Tags \union {NoTag})

Request ==
  [file : Files, sha : Hashes \union {BadSha, NoSha}, skip : BOOLEAN,
   always : BOOLEAN, noDownloads : BOOLEAN, noHashCheck : BOOLEAN]

ASSUME HashAssumption ==
  /\ NoSha \notin Hashes /\ BadSha \notin Hashes /\ NoSha # BadSha
  /\ ZeroSha \notin Contents /\ Absent \notin Hashes
  /\ NoTag \notin Tags
  /\ Tag \in [Hashes -> Tags]

ASSUME RequestAssumption == Requests \subseteq Request /\ NoRequest \in Requests

VARIABLES
  downloads,  \* the DOWNLOADS directory: the content of every name
  pc,         \* where each portfile run is
  req,        \* the call it makes
  name,       \* downloaded_file_path
  got,        \* what the portfile read from the path it was given
  contended   \* runs that overlapped with a disagreeing call for their file

vars == <<downloads, pc, req, name, got, contended>>

(* The places inside a call, and the ways it ends. *)
Active == {"probe", "verify", "probe2", "verify2", "fetch", "ready"}
Failed == {"badArguments", "unreadable", "mismatch", "disabled", "downloadFailed"}
Places == {"idle", "used"} \union Active \union Failed

-----------------------------------------------------------------------------
Pinned(r) == ~r.skip /\ ~r.noHashCheck

(* The argument checks that end the call before it looks at the disk. *)
BadArguments(r) ==
  \/ r.always /\ ~r.skip
  \/ ~r.skip /\ r.sha = NoSha
  \/ r.skip /\ r.sha # NoSha
  \/ Pinned(r) /\ r.sha = BadSha

Plain(r)      == <<r.file, NoTag>>
(* Mutant: the whole hash instead of its first eight digits. *)
RetargetedWhole(r) == <<r.file, r.sha>>
Retargeted(r) == <<r.file, Tag[r.sha]>>

(* Two calls disagree when they ask for one file and are not both pinned
   to the same hash. *)
Disagree(r, s) ==
  r.file = s.file /\ ~(Pinned(r) /\ Pinned(s) /\ r.sha = s.sha)

Rivals(p, r) == {q \in Procs \ {p} : pc[q] \in Active /\ Disagree(r, req[q])}

Goto(p, place) == pc' = [pc EXCEPT ![p] = place]

-----------------------------------------------------------------------------
Init ==
  /\ downloads \in [Names -> Contents \union {Absent}]
  /\ pc = [p \in Procs |-> "idle"]
  /\ req = [p \in Procs |-> NoRequest]
  /\ name = [p \in Procs |-> Plain(NoRequest)]
  /\ got = [p \in Procs |-> Absent]
  /\ contended = {}

(* A portfile calls vcpkg_download_distfile. *)
Call(p, r) ==
  /\ pc[p] = "idle"
  /\ Goto(p, IF BadArguments(r) THEN "badArguments" ELSE "probe")
  /\ req' = [req EXCEPT ![p] = r]
  /\ name' = [name EXCEPT ![p] = Plain(r)]
  /\ contended' = IF BadArguments(r) \/ Rivals(p, r) = {} THEN contended
                  ELSE contended \union {p} \union Rivals(p, r)
  /\ UNCHANGED <<downloads, got>>

(* if(EXISTS ...): a cached file is returned at once when the hash check is
   skipped, unless the call asks for a fresh download. *)
Probe(p) ==
  /\ pc[p] = "probe"
  /\ \/ /\ downloads[name[p]] = Absent \/ (~Pinned(req[p]) /\ req[p].always)
        /\ Goto(p, "fetch")
     \/ /\ downloads[name[p]] # Absent /\ ~Pinned(req[p]) /\ ~req[p].always
        /\ Goto(p, "ready")
     \/ /\ downloads[name[p]] # Absent /\ Pinned(req[p])
        /\ Goto(p, "verify")
  /\ UNCHANGED <<downloads, req, name, got, contended>>

(* file(SHA512 ...) of the plain name.  A mismatch adds the tag of the
   expected hash to the name. *)
Verify(p) ==
  /\ pc[p] = "verify"
  /\ \/ /\ downloads[name[p]] = Absent
        /\ Goto(p, "unreadable")
        /\ UNCHANGED name
     \/ /\ downloads[name[p]] = req[p].sha
        /\ Goto(p, "ready")
        /\ UNCHANGED name
     \/ /\ downloads[name[p]] \notin {Absent, req[p].sha}
        /\ Goto(p, "probe2")
        /\ name' = [name EXCEPT ![p] = Retargeted(req[p])]
  /\ UNCHANGED <<downloads, req, got, contended>>

(* Mutant: the tagged name is downloaded again even when it exists. *)
Probe2Refetching(p) ==
  /\ pc[p] = "probe2"
  /\ Goto(p, "fetch")
  /\ UNCHANGED <<downloads, req, name, got, contended>>

Probe2(p) ==
  /\ pc[p] = "probe2"
  /\ Goto(p, IF downloads[name[p]] = Absent THEN "fetch" ELSE "verify2")
  /\ UNCHANGED <<downloads, req, name, got, contended>>

(* Mutant: a file under the tagged name is not hashed again. *)
Verify2Trusting(p) ==
  /\ pc[p] = "verify2"
  /\ Goto(p, IF downloads[name[p]] = Absent THEN "unreadable" ELSE "ready")
  /\ UNCHANGED <<downloads, req, name, got, contended>>

Verify2(p) ==
  /\ pc[p] = "verify2"
  /\ \/ downloads[name[p]] = Absent /\ Goto(p, "unreadable")
     \/ downloads[name[p]] = req[p].sha /\ Goto(p, "ready")
     \/ downloads[name[p]] \notin {Absent, req[p].sha} /\ Goto(p, "mismatch")
  /\ UNCHANGED <<downloads, req, name, got, contended>>

(* The external "vcpkg x-download": it puts the file in place whole, and
   only with the requested hash when it is given one; or it fails. *)
XDownload(p) ==
  \E c \in IF Pinned(req[p]) THEN Contents \intersect {req[p].sha} ELSE Contents :
     downloads' = [downloads EXCEPT ![name[p]] = c]

(* Mutant: --skip-sha512 is passed to every download. *)
FetchSkipping(p) ==
  /\ pc[p] = "fetch" /\ ~req[p].noDownloads
  /\ \E c \in Contents : downloads' = [downloads EXCEPT ![name[p]] = c]
  /\ Goto(p, "ready")
  /\ UNCHANGED <<req, name, got, contended>>

Fetch(p) ==
  /\ pc[p] = "fetch"
  /\ \/ /\ req[p].noDownloads
        /\ Goto(p, "disabled")
        /\ UNCHANGED downloads
     \/ /\ ~req[p].noDownloads
        /\ \/ XDownload(p) /\ Goto(p, "ready")
           \/ UNCHANGED downloads /\ Goto(p, "downloadFailed")
  /\ UNCHANGED <<req, name, got, contended>>

(* The portfile reads the file whose path the call returned. *)
Use(p) ==
  /\ pc[p] = "ready"
  /\ IF downloads[name[p]] = Absent
     THEN Goto(p, "unreadable") /\ UNCHANGED got
     ELSE Goto(p, "used") /\ got' = [got EXCEPT ![p] = downloads[name[p]]]
  /\ UNCHANGED <<downloads, req, name, contended>>

(* The portfile run ends: normally, by message(FATAL_ERROR), or because it
   is killed.  The directory stays as it is. *)
Exit(p) ==
  /\ pc[p] # "idle"
  /\ Goto(p, "idle")
  /\ got' = [got EXCEPT ![p] = Absent]
  /\ contended' = contended \ {p}
  /\ req' = [req EXCEPT ![p] = NoRequest]
  /\ name' = [name EXCEPT ![p] = Plain(NoRequest)]
  /\ UNCHANGED downloads

(* The user deletes a cached file, as the error message advises. *)
Delete(n) ==
  /\ downloads[n] # Absent
  /\ downloads' = [downloads EXCEPT ![n] = Absent]
  /\ UNCHANGED <<pc, req, name, got, contended>>

Step(p) ==
  \/ \E r \in Requests : Call(p, r)
  \/ Probe(p) \/ Verify(p) \/ Probe2(p) \/ Verify2(p)
  \/ Fetch(p) \/ Use(p) \/ Exit(p)

Next == (\E p \in Procs : Step(p)) \/ (\E n \in Names : Delete(n))

Spec == Init /\ [][Next]_vars

-----------------------------------------------------------------------------
TypeOK ==
  /\ downloads \in [Names -> Contents \union {Absent}]
  /\ pc \in [Procs -> Places]
  /\ req \in [Procs -> Requests]
  /\ name \in [Procs -> Names]
  /\ got \in [Procs -> Contents \union {Absent}]
  /\ contended \in SUBSET Procs

(* A portfile that pinned a SHA512 reads exactly the pinned content, through
   stale caches, retargeted names, deletions and other roots at work in the
   same directory - unless another call that disagrees about the file
   overlapped with it. *)
PinnedUse ==
  \A p \in Procs :
    pc[p] = "used" /\ Pinned(req[p]) /\ p \notin contended => got[p] = req[p].sha

(* No call replaces a cached file by another content behind its users' back,
   except one that asked for a fresh download or one in a contended race. *)
NoClobber ==
  [][\A p \in Procs, n \in Names :
       /\ pc[p] = "fetch" /\ pc'[p] = "ready"
       /\ downloads[n] # Absent /\ downloads'[n] # downloads[n]
       => req[p].always \/ p \in contended]_vars

(* A name that carries a tag never comes to hold a content whose hash has
   another tag, so a retargeted name is not lost to the content that
   made the retargeting necessary. *)
RetargetSound ==
  [][\A n \in Names :
       n[2] # NoTag /\ downloads'[n] # downloads[n] /\ downloads'[n] # Absent
       => Tag[downloads'[n]] = n[2]]_vars

(* "Downloads are disabled, but ... does not exist": when a call fails with this
   error its file is missing, or has come, with the right content, after the
   call looked - through retargeted names, deletions and other roots at work.
   Two calls are left out: one that disagrees with others about the file, and
   ALWAYS_REDOWNLOAD, which fails so without having looked at the file. *)
DisabledWasMissing ==
  [][\A p \in Procs :
       /\ pc[p] = "fetch" /\ pc'[p] = "disabled"
       /\ ~req[p].always /\ p \notin contended
       => downloads[name[p]] \in {Absent, req[p].sha}]_vars
=============================================================================
