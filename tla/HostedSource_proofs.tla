------------------------- MODULE HostedSource_proofs -------------------------
(***************************************************************************)
(* Proofs about HostedSource, for any runs, repositories, portfiles, modes *)
(* and hash prefixes.  The downloads are those of Distfile: every step is  *)
(* shown to be a step of Distfile, or to leave its variables alone, so     *)
(* that its inductive invariant, proved in Distfile_proofs, holds here.    *)
(***************************************************************************)
EXTENDS HostedSource, TLAPS

DP == INSTANCE Distfile_proofs WITH Requests <- Request, NoRequest <- NoDownload

(* The variables of this module. *)
ScriptType ==
  /\ tip \in [Repos -> Numbers]
  /\ stage \in [Procs -> Stages]
  /\ portfile \in [Procs -> Portfiles]
  /\ mode \in [Procs -> Modes]
  /\ index \in [Procs -> Nat] /\ \A p \in Procs : index[p] \in 1 .. Len(portfile[p])
  /\ headVersion \in [Procs -> Versions \union {NoVersion}]
  /\ since \in [Procs -> Numbers] /\ asked \in [Procs -> Numbers]

(* A download is under way exactly in the stages that wait for one, with the
   request of that stage. *)
LinkOf(p) ==
  /\ stage[p] \in {"version", "archive"} <=> pc[p] # "idle"
  /\ stage[p] = "idle" => headVersion[p] = NoVersion /\ index[p] = 1
  /\ stage[p] = "version" => req[p] = VersionRequest(p) /\ ~Refused(p) /\ mode[p].head
  /\ stage[p] = "archive" => req[p] = ArchiveRequest(p) /\ ~Refused(p)
  /\ stage[p] = "asking"  => ~Refused(p)
  /\ stage[p] \in {"asking", "archive"} /\ HeadMode(p) /\ This(p).host = "github" =>
       headVersion[p] # NoVersion /\ headVersion[p][1] = This(p).repo

(* What a file of this name may hold. *)
Fits(file, c) ==
  /\ file[2][1] = "commit" =>
       \E form \in Forms : c = Archive(file[1], file[2][2], form)
  /\ file[2][1] = "head" =>
       \E n \in 1 .. tip[file[1]], form \in Forms : c = Archive(file[1], n, form)
  /\ file[2][1] \in {"headVersion", "commitVersion"} =>
       c = Garbage \/ \E n \in 1 .. tip[file[1]] : c = Answer(file[1], n)

FilesFit == \A n \in DP!Names : downloads[n] # Absent => Fits(n[1], downloads[n])

(* A version that was read is one that the branch had by then. *)
VersionPast(p) == headVersion[p] # NoVersion => headVersion[p][2] <= tip[headVersion[p][1]]

(* The archive of a --head build, from the start of its download on. *)
Reports(p) ==
  /\ stage[p] = "archive" /\ HeadMode(p) /\ p \notin contended
  /\ headVersion[p] # NoVersion /\ headVersion[p][1] = This(p).repo

NotNewer(p) ==
  Reports(p) =>
    /\ pc[p] = "fetch" => headVersion[p][2] <= asked[p]
    /\ pc[p] = "ready" /\ downloads[name[p]] # Absent =>
         headVersion[p][2] <= NumberOf(downloads[name[p]])
    /\ pc[p] = "used" => headVersion[p][2] <= NumberOf(got[p])

(* Portfiles of GitLab repositories: the version is read in the first call. *)
GitlabOnly(p) == \A k \in DOMAIN portfile[p] : portfile[p][k].host = "gitlab"

First(p) ==
  GitlabOnly(p) =>
    /\ headVersion[p] # NoVersion => headVersion[p][1] = portfile[p][1].repo
    /\ mode[p].head /\ (index[p] > 1 \/ stage[p] \in {"asking", "archive"}) =>
         headVersion[p] # NoVersion
    /\ stage[p] = "version" => index[p] = 1

RunInv(p) ==
  /\ LinkOf(p) /\ VersionPast(p) /\ NotNewer(p) /\ First(p)
  /\ pc[p] = "used" => Fits(req[p].file, got[p])
  /\ pc[p] = "badArguments" => This(p).sha = BadSha

HInv == ScriptType /\ FilesFit /\ \A p \in Procs : RunInv(p)

-----------------------------------------------------------------------------
(* Distfile, as this module and as Distfile_proofs name it. *)

LEMMA DistfileAssumptions == DP!HashAssumption /\ DP!RequestAssumption
<1>1. DP!HashAssumption
  BY HashAssumption DEF DP!HashAssumption, DP!Hashes, Hashes
<1>2. NoDownload \in Request
  <2>1. (CHOOSE repo \in Repos : TRUE) \in Repos
    BY PortfileAssumption
  <2>2. <<CHOOSE repo \in Repos : TRUE, <<"head", 1>>, NoSuffix>> \in Files
    BY <2>1 DEF Files
  <2>3. QED
    BY <2>2 DEF NoDownload, Request
<1>3. QED
  BY <1>1, <1>2 DEF DP!RequestAssumption, DP!Request, Request, DP!Hashes, Hashes

LEMMA SameDistfile ==
  /\ D!Names = DP!Names /\ D!TypeOK = DP!TypeOK
  /\ D!Init <=> DP!Init
  /\ \A p \in Procs :
       /\ \A r \in Request : D!Call(p, r) <=> DP!Call(p, r)
       /\ D!Probe(p) <=> DP!Probe(p)
       /\ D!Verify(p) <=> DP!Verify(p)
       /\ D!Probe2(p) <=> DP!Probe2(p)
       /\ D!Verify2(p) <=> DP!Verify2(p)
       /\ D!Fetch(p) <=> DP!Fetch(p)
       /\ D!Use(p) <=> DP!Use(p)
       /\ D!Exit(p) <=> DP!Exit(p)
  /\ \A n \in DP!Names : D!Delete(n) <=> DP!Delete(n)
<1> USE DEF D!Names, DP!Names, D!Goto, DP!Goto, D!Plain, DP!Plain, D!Pinned, DP!Pinned,
            D!Retargeted, DP!Retargeted
<1>1. D!Names = DP!Names
  OBVIOUS
<1>2. D!TypeOK = DP!TypeOK
  BY DEF D!TypeOK, DP!TypeOK, D!Places, DP!Places, D!Active, DP!Active, D!Failed, DP!Failed
<1>3. D!Init <=> DP!Init
  BY DEF D!Init, DP!Init
<1>4. ASSUME NEW p \in Procs, NEW r \in Request
      PROVE  D!Call(p, r) <=> DP!Call(p, r)
  BY DEF D!Call, DP!Call, D!BadArguments, DP!BadArguments, D!Rivals, DP!Rivals,
         D!Disagree, DP!Disagree, D!Active, DP!Active
<1>5. ASSUME NEW p \in Procs
      PROVE  /\ D!Probe(p) <=> DP!Probe(p)
             /\ D!Verify(p) <=> DP!Verify(p)
             /\ D!Probe2(p) <=> DP!Probe2(p)
             /\ D!Verify2(p) <=> DP!Verify2(p)
  BY DEF D!Probe, DP!Probe, D!Verify, DP!Verify, D!Probe2, DP!Probe2, D!Verify2, DP!Verify2
<1>6. ASSUME NEW p \in Procs
      PROVE  /\ D!Fetch(p) <=> DP!Fetch(p)
             /\ D!Use(p) <=> DP!Use(p)
             /\ D!Exit(p) <=> DP!Exit(p)
  BY DEF D!Fetch, DP!Fetch, D!XDownload, DP!XDownload, D!Use, DP!Use, D!Exit, DP!Exit
<1>7. \A n \in DP!Names : D!Delete(n) <=> DP!Delete(n)
  BY DEF D!Delete, DP!Delete
<1>8. QED
  BY <1>1, <1>2, <1>3, <1>4, <1>5, <1>6, <1>7

-----------------------------------------------------------------------------
(* The requests that the functions make. *)

LEMMA CallType ==
  ASSUME ScriptType, NEW p \in Procs
  PROVE  /\ This(p) \in CallOf /\ mode[p] \in Mode
         /\ This(p).repo \in Repos /\ tip[This(p).repo] \in Numbers
<1>1. portfile[p] \in Seq(CallOf) /\ index[p] \in 1 .. Len(portfile[p]) /\ mode[p] \in Mode
  BY PortfileAssumption DEF ScriptType
<1>2. This(p) \in CallOf
  BY <1>1 DEF This
<1>3. QED
  BY <1>1, <1>2 DEF CallOf, ScriptType

LEMMA OneIsNumber == 1 \in Numbers
BY BoundAssumption DEF Numbers

LEMMA VersionRequestType ==
  ASSUME ScriptType, NEW p \in Procs, ~Refused(p)
  PROVE  /\ VersionRequest(p) \in Request
         /\ VersionRequest(p).file[1] = This(p).repo
         /\ VersionRequest(p).file[2][1] \in {"headVersion", "commitVersion"}
         /\ VersionRequest(p).skip /\ VersionRequest(p).always
         /\ VersionRequest(p).sha = NoSha
<1>1. This(p) \in CallOf /\ mode[p] \in Mode
  BY CallType
<1>2. VersionFile(p) \in Files /\ VersionFile(p)[1] = This(p).repo
      /\ VersionFile(p)[2][1] \in {"headVersion", "commitVersion"}
  <2>1. CASE This(p).headRef
    BY <1>1, <2>1 DEF VersionFile, Files, CallOf
  <2>2. CASE ~This(p).headRef
    <3>1. This(p).ref \in Numbers
      BY <1>1, <2>2 DEF Refused, CallOf
    <3>2. QED
      BY <1>1, <2>2, <3>1 DEF VersionFile, Files, CallOf
  <2>3. QED
    BY <2>1, <2>2
<1>3. QED
  BY <1>1, <1>2 DEF VersionRequest, Download, Request, Mode

LEMMA ArchiveRequestType ==
  ASSUME ScriptType, NEW p \in Procs, ~Refused(p),
         HeadMode(p) /\ This(p).host = "github" =>
           headVersion[p] # NoVersion /\ headVersion[p][1] = This(p).repo
  PROVE  /\ ArchiveRequest(p) \in Request
         /\ ArchiveRequest(p).file[1] = This(p).repo
         /\ ArchiveRequest(p).file[2][1] \in {"commit", "head"}
         /\ HeadMode(p) /\ This(p).host = "github" =>
              ArchiveRequest(p).file[2] = <<"commit", headVersion[p][2]>>
         /\ HeadMode(p) /\ This(p).host # "github" => ArchiveRequest(p).file[2] = <<"head", 1>>
         /\ HeadMode(p) => ArchiveRequest(p).skip /\ ArchiveRequest(p).always
                           /\ ArchiveRequest(p).sha = NoSha
         /\ ~HeadMode(p) => /\ ~ArchiveRequest(p).skip /\ ~ArchiveRequest(p).always
                            /\ ArchiveRequest(p).sha = This(p).sha /\ This(p).sha # NoSha
         /\ ArchiveRequest(p).noHashCheck = mode[p].noHashCheck
<1>1. This(p) \in CallOf /\ mode[p] \in Mode
  BY CallType
<1> DEFINE suffix == CASE This(p).host = "github"    -> This(p).suffix
                       [] This(p).host = "gitlab"    -> IF mode[p].head THEN NoSuffix ELSE This(p).suffix
                       [] This(p).host = "bitbucket" -> NoSuffix
           what == IF ~HeadMode(p) THEN <<"commit", This(p).ref>>
                   ELSE IF This(p).host = "github" THEN <<"commit", headVersion[p][2]>>
                   ELSE <<"head", 1>>
<1>2. suffix \in Suffixes \union {NoSuffix}
  BY <1>1 DEF CallOf, Hosts
<1>3. ~HeadMode(p) => This(p).ref \in Numbers /\ This(p).sha # NoSha
  BY <1>1 DEF Refused, CallOf, HeadMode
<1>4. HeadMode(p) /\ This(p).host = "github" => headVersion[p][2] \in Numbers
  BY DEF ScriptType, Versions
<1>5. what \in {"commit", "commitVersion"} \X Numbers \union {"head", "headVersion"} \X {1}
      /\ what[1] \in {"commit", "head"}
  BY <1>3, <1>4
<1>6. ArchiveFile(p) = <<This(p).repo, what, suffix>>
  BY DEF ArchiveFile
<1> HIDE DEF suffix, what
<1>7. ArchiveFile(p) \in Files
  BY <1>1, <1>2, <1>5, <1>6 DEF Files, CallOf
<1>8. HeadMode(p) \in BOOLEAN /\ This(p).sha \in Hashes \union {BadSha, NoSha}
  BY <1>1 DEF HeadMode, CallOf, Mode
<1>9. /\ ArchiveRequest(p).file = <<This(p).repo, what, suffix>>
      /\ ArchiveRequest(p).noHashCheck = mode[p].noHashCheck
      /\ ArchiveRequest(p).skip = HeadMode(p) /\ ArchiveRequest(p).always = HeadMode(p)
      /\ ArchiveRequest(p).sha = IF HeadMode(p) THEN NoSha ELSE This(p).sha
      /\ ArchiveRequest(p) \in Request
  BY <1>1, <1>6, <1>7, <1>8 DEF ArchiveRequest, Download, Request, Mode
<1>10. QED
  BY <1>3, <1>5, <1>8, <1>9 DEF what

(* One step of vcpkg_download_distfile on what this module relies on. *)
LEMMA DownloadStep ==
  ASSUME DP!IInv, ScriptType, NEW p \in Procs, Downloading(p)
  PROVE  /\ DP!Next
         /\ UNCHANGED <<req, contended>>
         /\ \/ UNCHANGED name
            \/ pc'[p] = "probe2" /\ \E n \in DP!Names : name' = [name EXCEPT ![p] = n]
         /\ pc[p] \notin {"idle", "badArguments", "used"}
         /\ \E place \in DP!Places \ {"idle", "badArguments"} : pc' = [pc EXCEPT ![p] = place]
         /\ pc'[p] = "fetch" => asked' = [asked EXCEPT ![p] = tip[This(p).repo]]
         /\ pc'[p] # "fetch" => asked' = asked
         /\ \/ UNCHANGED downloads /\ (pc'[p] = "ready" => ~req[p].always)
            \/ /\ pc[p] = "fetch" /\ pc'[p] = "ready"
               /\ \E c \in Contents \intersect Served(p) :
                    downloads' = [downloads EXCEPT ![name[p]] = c]
         /\ \/ UNCHANGED got /\ pc'[p] # "used"
            \/ /\ UNCHANGED downloads /\ pc[p] = "ready" /\ downloads[name[p]] # Absent
               /\ got' = [got EXCEPT ![p] = downloads[name[p]]]
<1> USE DEF DP!Goto
<1>1. pc \in [Procs -> DP!Places] /\ name[p] \in DP!Names /\ downloads \in [DP!Names -> Contents \union {Absent}]
  BY DEF DP!IInv, DP!TypeOK
<1>2. pc[p] \in {"verify", "probe2", "verify2"} => DP!Pinned(req[p]) /\ ~DP!BadArguments(req[p])
  BY DEF DP!IInv, DP!ArgumentsChecked, DP!Active
<1>3. pc[p] \in {"verify", "probe2", "verify2"} => ~req[p].always
  BY <1>2 DEF DP!Pinned, DP!BadArguments
<1>0. asked' = IF pc'[p] = "fetch" THEN [asked EXCEPT ![p] = tip[This(p).repo]] ELSE asked
  BY DEF Downloading
<1>4. CASE DP!Probe(p)
  BY <1>0, <1>1, <1>4 DEF DP!Probe, DP!Next, DP!Step, DP!Places, DP!Active
<1>5. CASE DP!Verify(p)
  <2>1. DP!Next
    BY <1>5 DEF DP!Next, DP!Step
  <2>2. CASE downloads[name[p]] = Absent
    BY <1>0, <1>1, <1>3, <1>5, <2>1, <2>2 DEF DP!Verify, DP!Places, DP!Failed, DP!Active
  <2>3. CASE downloads[name[p]] = req[p].sha
    BY <1>0, <1>1, <1>3, <1>5, <2>1, <2>3 DEF DP!Verify, DP!Places, DP!Failed, DP!Active
  <2>4. CASE downloads[name[p]] \notin {Absent, req[p].sha}
    <3>1. DP!Retargeted(req[p]) \in DP!Names
      BY <1>2, <1>5, DistfileAssumptions DEF DP!IInv, DP!TypeOK, DP!Verify, DP!Retargeted,
         DP!Names, DP!Pinned, DP!BadArguments, DP!Request, DP!RequestAssumption,
         DP!HashAssumption
    <3>2. QED
      BY <1>0, <1>1, <1>3, <1>5, <2>1, <2>4, <3>1 DEF DP!Verify, DP!Places, DP!Active
  <2>5. QED
    BY <2>2, <2>3, <2>4
<1>6. CASE DP!Probe2(p)
  BY <1>0, <1>1, <1>3, <1>6 DEF DP!Probe2, DP!Next, DP!Step, DP!Places, DP!Active
<1>7. CASE DP!Verify2(p)
  BY <1>0, <1>1, <1>3, <1>7 DEF DP!Verify2, DP!Next, DP!Step, DP!Places, DP!Active, DP!Failed
<1>8. CASE DP!Fetch(p) /\ (pc'[p] = "ready" => downloads'[name[p]] \in Served(p))
  <2>1. DP!Next
    BY <1>8 DEF DP!Next, DP!Step
  <2>2. CASE req[p].noDownloads
    BY <1>0, <1>1, <1>8, <2>2 DEF DP!Fetch, DP!Next, DP!Step, DP!Places, DP!Failed
  <2>3. CASE UNCHANGED downloads /\ pc' = [pc EXCEPT ![p] = "downloadFailed"]
    BY <1>0, <1>1, <1>8, <2>1, <2>3 DEF DP!Fetch, DP!Places, DP!Failed
  <2>4. CASE DP!XDownload(p) /\ pc' = [pc EXCEPT ![p] = "ready"]
    <3>1. PICK c \in Contents : downloads' = [downloads EXCEPT ![name[p]] = c]
      BY <2>4 DEF DP!XDownload
    <3>2. c \in Served(p)
      BY <1>0, <1>1, <1>8, <2>4, <3>1
    <3>3. QED
      BY <1>0, <1>1, <1>8, <2>1, <2>4, <3>1, <3>2 DEF DP!Fetch, DP!Places, DP!Active
  <2>5. QED
    BY <1>8, <2>2, <2>3, <2>4 DEF DP!Fetch
<1>9. CASE DP!Use(p)
  <2>1. DP!Next
    BY <1>9 DEF DP!Next, DP!Step
  <2>2. CASE downloads[name[p]] = Absent
    BY <1>0, <1>1, <1>9, <2>1, <2>2 DEF DP!Use, DP!Places, DP!Failed
  <2>3. CASE downloads[name[p]] # Absent
    BY <1>0, <1>1, <1>9, <2>1, <2>3 DEF DP!Use, DP!Places
  <2>4. QED
    BY <2>2, <2>3
<1>10. QED
  BY <1>4, <1>5, <1>6, <1>7, <1>8, <1>9, SameDistfile DEF Downloading, Fetch

-----------------------------------------------------------------------------
(* What a step of one run leaves of another. *)

LEMMA SameCall ==
  ASSUME NEW q, portfile'[q] = portfile[q], mode'[q] = mode[q], index'[q] = index[q]
  PROVE  /\ This(q)' = This(q) /\ HeadMode(q)' = HeadMode(q) /\ Refused(q)' = Refused(q)
         /\ VersionRequest(q)' = VersionRequest(q)
         /\ headVersion'[q] = headVersion[q] => ArchiveRequest(q)' = ArchiveRequest(q)
<1>1. This(q)' = This(q) /\ HeadMode(q)' = HeadMode(q)
  BY DEF This, HeadMode
<1>2. Refused(q)' = Refused(q)
  BY <1>1 DEF Refused
<1>3. VersionRequest(q)' = VersionRequest(q)
  BY <1>1 DEF VersionRequest, Download, VersionFile
<1>4. headVersion'[q] = headVersion[q] => ArchiveFile(q)' = ArchiveFile(q)
  BY <1>1 DEF ArchiveFile
<1>5. headVersion'[q] = headVersion[q] => ArchiveRequest(q)' = ArchiveRequest(q)
  BY <1>1, <1>4 DEF ArchiveRequest, Download
<1>6. QED
  BY <1>1, <1>2, <1>3, <1>5

TipGrows == tip' \in [Repos -> Numbers] /\ \A repo \in Repos : tip[repo] <= tip'[repo]

LEMMA FitsKept ==
  ASSUME ScriptType, TipGrows, NEW file \in Files, NEW c, Fits(file, c)
  PROVE  Fits(file, c)'
<1>1. file[1] \in Repos
  BY DEF Files
<1>2. tip[file[1]] \in Nat /\ tip'[file[1]] \in Nat /\ tip[file[1]] <= tip'[file[1]]
  BY <1>1 DEF ScriptType, TipGrows, Numbers
<1>3. \A n \in 1 .. tip[file[1]] : n \in 1 .. tip'[file[1]]
  BY <1>2
<1>4. QED
  BY <1>3 DEF Fits

LEMMA RunKept ==
  ASSUME ScriptType, DP!IInv, NEW q \in Procs, RunInv(q), TipGrows,
         portfile'[q] = portfile[q], mode'[q] = mode[q], index'[q] = index[q],
         headVersion'[q] = headVersion[q], stage'[q] = stage[q], pc'[q] = pc[q],
         req'[q] = req[q], name'[q] = name[q], got'[q] = got[q], asked'[q] = asked[q],
         q \in contended => q \in contended',
         Reports(q) /\ pc[q] = "ready" => downloads'[name[q]] \in {Absent, downloads[name[q]]}
  PROVE  RunInv(q)'
<1>1. /\ This(q)' = This(q) /\ HeadMode(q)' = HeadMode(q) /\ Refused(q)' = Refused(q)
      /\ VersionRequest(q)' = VersionRequest(q) /\ ArchiveRequest(q)' = ArchiveRequest(q)
  BY SameCall
<1>2. LinkOf(q)'
  BY <1>1 DEF RunInv, LinkOf
<1>3. VersionPast(q)'
  <2>1. CASE headVersion[q] = NoVersion
    BY <2>1 DEF VersionPast
  <2>2. CASE headVersion[q] # NoVersion
    <3>1. headVersion[q][1] \in Repos /\ headVersion[q][2] \in Nat
      BY <2>2 DEF ScriptType, Versions, Numbers
    <3>2. QED
      BY <2>2, <3>1 DEF RunInv, VersionPast, TipGrows, ScriptType, Numbers
  <2>3. QED
    BY <2>1, <2>2
<1>4. Reports(q)' => Reports(q)
  BY <1>1 DEF Reports
<1>5. NotNewer(q)'
  BY <1>4 DEF RunInv, NotNewer, Reports
<1>6. First(q)'
  BY DEF RunInv, First, GitlabOnly
<1>7. pc'[q] = "used" => Fits(req[q].file, got[q])'
  <2>1. req[q].file \in Files
    BY DEF DP!IInv, DP!TypeOK, Request
  <2>2. QED
    BY <2>1, FitsKept DEF RunInv
<1>8. QED
  BY <1>1, <1>2, <1>3, <1>5, <1>6, <1>7 DEF RunInv, Fits

(* The other runs, when run p takes a step that leaves the files alone. *)
LEMMA OthersKept ==
  ASSUME HInv, DP!IInv, NEW p \in Procs, NEW q \in Procs \ {p}, UNCHANGED <<tip, downloads>>,
         portfile'[q] = portfile[q], mode'[q] = mode[q], index'[q] = index[q],
         headVersion'[q] = headVersion[q], stage'[q] = stage[q], pc'[q] = pc[q],
         req'[q] = req[q], name'[q] = name[q], got'[q] = got[q], asked'[q] = asked[q],
         q \in contended => q \in contended'
  PROVE  RunInv(q)'
<1>1. TipGrows
  BY DEF TipGrows, HInv, ScriptType, Numbers
<1>2. QED
  BY <1>1, RunKept DEF HInv

LEMMA FilesKept ==
  ASSUME HInv, UNCHANGED <<tip, downloads>>
  PROVE  FilesFit'
BY DEF HInv, FilesFit, Fits, DP!Names

-----------------------------------------------------------------------------
(* The steps. *)

LEMMA StartKept ==
  ASSUME HInv, DP!IInv, NEW p \in Procs, NEW f \in Portfiles, NEW m \in Modes, Start(p, f, m)
  PROVE  HInv' /\ UNCHANGED DP!vars
<1>1. UNCHANGED DP!vars
  BY DEF Start, distfile, DP!vars
<1>2. Len(f) \in Nat \ {0}
  BY PortfileAssumption
<1>3. ScriptType'
  <2>1. index[p] = 1
    BY DEF HInv, RunInv, LinkOf, Start
  <2>2. QED
    BY <1>2, <2>1 DEF HInv, ScriptType, Start, GoTo, Stages
<1>4. FilesFit'
  BY FilesKept DEF Start, distfile
<1>5. ASSUME NEW q \in Procs \ {p}
      PROVE  RunInv(q)'
  BY OthersKept DEF Start, GoTo, distfile, HInv, ScriptType
<1>6. RunInv(p)'
  <2>1. /\ stage[p] = "idle" /\ stage'[p] = "enter" /\ pc'[p] = "idle" /\ pc[p] = "idle"
        /\ headVersion'[p] = NoVersion /\ index'[p] = 1
    BY DEF Start, GoTo, distfile, HInv, ScriptType, RunInv, LinkOf
  <2>2. LinkOf(p)' /\ VersionPast(p)'
    BY <2>1 DEF LinkOf, VersionPast
  <2>3. NotNewer(p)' /\ First(p)'
    BY <2>1 DEF NotNewer, First, Reports
  <2>4. QED
    BY <2>1, <2>2, <2>3 DEF RunInv
<1>7. QED
  BY <1>1, <1>3, <1>4, <1>5, <1>6 DEF HInv

(* A call of vcpkg_download_distfile begins. *)
LEMMA CallKept ==
  ASSUME HInv, DP!IInv, NEW p \in Procs, NEW r \in Request, D!Call(p, r),
         NEW place \in {"version", "archive"}, GoTo(p, place),
         UNCHANGED <<script, tip, headVersion, asked>>, since' \in [Procs -> Numbers]
  PROVE  /\ DP!Next /\ ScriptType' /\ FilesFit'
         /\ \A q \in Procs \ {p} : RunInv(q)'
         /\ stage'[p] = place /\ req'[p] = r
         /\ pc'[p] = IF DP!BadArguments(r) THEN "badArguments" ELSE "probe"
<1>1. DP!Call(p, r)
  BY SameDistfile
<1>2. DP!Next
  BY <1>1 DEF DP!Next, DP!Step
<1>3. ScriptType'
  BY DEF HInv, ScriptType, GoTo, Stages, script
<1>4. FilesFit'
  BY <1>1, FilesKept DEF DP!Call
<1>5. pc \in [Procs -> DP!Places] /\ req \in [Procs -> Request] /\ stage \in [Procs -> Stages]
  BY DEF HInv, ScriptType, DP!IInv, DP!TypeOK
<1>6. ASSUME NEW q \in Procs \ {p}
      PROVE  RunInv(q)'
  <2>1. /\ portfile'[q] = portfile[q] /\ mode'[q] = mode[q] /\ index'[q] = index[q]
        /\ headVersion'[q] = headVersion[q] /\ stage'[q] = stage[q] /\ pc'[q] = pc[q]
        /\ req'[q] = req[q] /\ name'[q] = name[q] /\ got'[q] = got[q] /\ asked'[q] = asked[q]
        /\ UNCHANGED <<tip, downloads>> /\ (q \in contended => q \in contended')
    BY <1>1, <1>5 DEF GoTo, script, DP!Call, DP!Goto
  <2>2. QED
    BY <2>1, OthersKept
<1>7. QED
  BY <1>1, <1>2, <1>3, <1>4, <1>5, <1>6 DEF GoTo, DP!Call, DP!Goto

LEMMA AskKept ==
  ASSUME HInv, DP!IInv, NEW p \in Procs, stage[p] \in {"enter", "asking"}, ~Refused(p),
         HeadMode(p) /\ This(p).host = "github" =>
           headVersion[p] # NoVersion /\ headVersion[p][1] = This(p).repo,
         GitlabOnly(p) /\ mode[p].head => headVersion[p] # NoVersion,
         D!Call(p, ArchiveRequest(p)), GoTo(p, "archive"),
         UNCHANGED <<script, tip, headVersion, asked>>, since' \in [Procs -> Numbers]
  PROVE  HInv' /\ DP!Next
<1> DEFINE r == ArchiveRequest(p)
<1>1. r \in Request /\ (HeadMode(p) => r.skip /\ r.always /\ r.sha = NoSha)
      /\ (~HeadMode(p) => ~r.skip /\ ~r.always /\ r.sha = This(p).sha /\ This(p).sha # NoSha)
  BY ArchiveRequestType DEF HInv
<1>2. /\ DP!Next /\ ScriptType' /\ FilesFit'
      /\ \A q \in Procs \ {p} : RunInv(q)'
      /\ stage'[p] = "archive" /\ req'[p] = r
      /\ pc'[p] = IF DP!BadArguments(r) THEN "badArguments" ELSE "probe"
  BY <1>1, CallKept
<1>3. DP!BadArguments(r) => This(p).sha = BadSha
  BY <1>1 DEF DP!BadArguments, DP!Pinned
<1> HIDE DEF r
<1>4. /\ This(p)' = This(p) /\ HeadMode(p)' = HeadMode(p) /\ Refused(p)' = Refused(p)
      /\ ArchiveRequest(p)' = ArchiveRequest(p)
  BY SameCall DEF script
<1>5. LinkOf(p)'
  BY <1>2, <1>4 DEF LinkOf, r
<1>6. VersionPast(p)' /\ NotNewer(p)'
  BY <1>2 DEF HInv, RunInv, VersionPast, NotNewer
<1>7. First(p)'
  BY <1>2 DEF HInv, RunInv, First, GitlabOnly, script
<1>8. RunInv(p)'
  BY <1>2, <1>3, <1>4, <1>5, <1>6, <1>7 DEF RunInv
<1>9. QED
  BY <1>2, <1>8 DEF HInv

LEMMA EnterKept ==
  ASSUME HInv, DP!IInv, NEW p \in Procs, Enter(p)
  PROVE  HInv' /\ [DP!Next]_(DP!vars)
<1>1. CASE Refused(p) /\ GoTo(p, "refused") /\ UNCHANGED <<distfile, since>>
  <2>1. UNCHANGED DP!vars
    BY <1>1 DEF distfile, DP!vars
  <2>2. ScriptType'
    BY <1>1 DEF HInv, ScriptType, Enter, GoTo, Stages, script
  <2>3. FilesFit'
    BY <1>1, FilesKept DEF Enter, distfile
  <2>4. ASSUME NEW q \in Procs \ {p}
        PROVE  RunInv(q)'
    BY <1>1, OthersKept DEF Enter, GoTo, distfile, script, HInv, ScriptType
  <2>5. RunInv(p)'
    <3>1. stage[p] = "enter" /\ stage'[p] = "refused" /\ pc'[p] = "idle"
      BY <1>1 DEF Enter, GoTo, distfile, HInv, ScriptType, RunInv, LinkOf
    <3>2. LinkOf(p)' /\ VersionPast(p)' /\ NotNewer(p)'
      BY <3>1 DEF HInv, RunInv, Enter, LinkOf, VersionPast, NotNewer, Reports
    <3>3. First(p)'
      BY <3>1 DEF HInv, RunInv, Enter, First, GitlabOnly, script
    <3>4. QED
      BY <3>1, <3>2, <3>3 DEF RunInv
  <2>6. QED
    BY <2>1, <2>2, <2>3, <2>4, <2>5 DEF HInv
<1> DEFINE begins == since' = [since EXCEPT ![p] = IF HeadMode(p) THEN tip[This(p).repo] ELSE 1]
<1>2. begins => since' \in [Procs -> Numbers]
  BY CallType, OneIsNumber DEF HInv, ScriptType
<1>3. CASE ~Refused(p) /\ AsksVersion(p) /\ D!Call(p, VersionRequest(p))
           /\ GoTo(p, "version") /\ begins
  <2> DEFINE r == VersionRequest(p)
  <2>1. r \in Request /\ r.skip /\ r.always /\ r.sha = NoSha
    BY <1>3, VersionRequestType DEF HInv
  <2>2. /\ DP!Next /\ ScriptType' /\ FilesFit'
        /\ \A q \in Procs \ {p} : RunInv(q)'
        /\ stage'[p] = "version" /\ req'[p] = r
        /\ pc'[p] = IF DP!BadArguments(r) THEN "badArguments" ELSE "probe"
    BY <1>2, <1>3, <2>1, CallKept DEF Enter
  <2>3. pc'[p] = "probe"
    BY <2>1, <2>2 DEF DP!BadArguments, DP!Pinned
  <2> HIDE DEF r
  <2>4. /\ This(p)' = This(p) /\ HeadMode(p)' = HeadMode(p) /\ Refused(p)' = Refused(p)
        /\ VersionRequest(p)' = VersionRequest(p)
    BY SameCall DEF Enter, script
  <2>5. LinkOf(p)'
    BY <1>3, <2>2, <2>3, <2>4 DEF LinkOf, r, AsksVersion, Enter, script
  <2>6. VersionPast(p)' /\ NotNewer(p)'
    BY <2>2, <2>3 DEF HInv, RunInv, Enter, VersionPast, NotNewer
  <2>7. First(p)'
    <3>1. index[p] \in DOMAIN portfile[p]
      BY PortfileAssumption DEF HInv, ScriptType
    <3>2. GitlabOnly(p) => This(p).host = "gitlab"
      BY <3>1 DEF GitlabOnly, This
    <3>3. GitlabOnly(p) => headVersion[p] = NoVersion /\ mode[p].head
      BY <1>3, <3>2 DEF AsksVersion
    <3>4. index[p] \in Nat /\ index[p] >= 1
      BY DEF HInv, ScriptType
    <3>5. First(p)
      BY DEF HInv, RunInv
    <3>6. GitlabOnly(p) => index[p] = 1
      BY <3>3, <3>4, <3>5 DEF First
    <3>7. QED
      BY <2>2, <3>3, <3>6 DEF First, GitlabOnly, Enter, script
  <2>8. RunInv(p)'
    BY <2>2, <2>3, <2>5, <2>6, <2>7 DEF RunInv
  <2>9. QED
    BY <2>2, <2>8 DEF HInv
<1>4. CASE ~Refused(p) /\ ~AsksVersion(p) /\ D!Call(p, ArchiveRequest(p))
           /\ GoTo(p, "archive") /\ begins
  <2>1. ~(HeadMode(p) /\ This(p).host = "github")
    BY <1>4 DEF AsksVersion, HeadMode
  <2>2. GitlabOnly(p) /\ mode[p].head => headVersion[p] # NoVersion
    <3>1. index[p] \in DOMAIN portfile[p]
      BY PortfileAssumption DEF HInv, ScriptType
    <3>2. QED
      BY <1>4, <3>1 DEF GitlabOnly, This, AsksVersion
  <2>3. QED
    BY <1>2, <1>4, <2>1, <2>2, AskKept DEF Enter
<1>5. QED
  BY <1>1, <1>3, <1>4 DEF Enter

LEMMA AskArchiveKept ==
  ASSUME HInv, DP!IInv, NEW p \in Procs, AskArchive(p)
  PROVE  HInv' /\ DP!Next
<1>1. /\ ~Refused(p) /\ stage[p] = "asking"
      /\ HeadMode(p) /\ This(p).host = "github" =>
           headVersion[p] # NoVersion /\ headVersion[p][1] = This(p).repo
  BY DEF HInv, RunInv, LinkOf, AskArchive
<1>2. GitlabOnly(p) /\ mode[p].head => headVersion[p] # NoVersion
  BY <1>1 DEF HInv, RunInv, First
<1>3. since' \in [Procs -> Numbers]
  BY DEF HInv, ScriptType, AskArchive
<1>4. QED
  BY <1>1, <1>2, <1>3, AskKept DEF AskArchive

-----------------------------------------------------------------------------
(* The request of a download under way. *)
LEMMA RequestOfStage ==
  ASSUME HInv, DP!IInv, NEW p \in Procs, pc[p] # "idle"
  PROVE  /\ req[p] \in Request /\ req[p].file \in Files /\ req[p].file[1] = This(p).repo
         /\ Reports(p) => /\ req[p].always /\ req[p].skip /\ req[p].sha = NoSha
                          /\ This(p).host = "github" =>
                               req[p].file[2] = <<"commit", headVersion[p][2]>>
                          /\ This(p).host # "github" => req[p].file[2] = <<"head", 1>>
<1>1. req[p] \in Request /\ req[p].file \in Files
  BY DEF DP!IInv, DP!TypeOK, Request
<1>2. CASE stage[p] = "version"
  <2>1. req[p] = VersionRequest(p) /\ ~Refused(p)
    BY <1>2 DEF HInv, RunInv, LinkOf
  <2>2. QED
    BY <1>1, <1>2, <2>1, VersionRequestType DEF HInv, Reports
<1>3. CASE stage[p] = "archive"
  <2>1. /\ req[p] = ArchiveRequest(p) /\ ~Refused(p)
        /\ HeadMode(p) /\ This(p).host = "github" =>
             headVersion[p] # NoVersion /\ headVersion[p][1] = This(p).repo
    BY <1>3 DEF HInv, RunInv, LinkOf
  <2>2. QED
    BY <1>1, <1>3, <2>1, ArchiveRequestType DEF HInv, Reports
<1>4. QED
  BY <1>2, <1>3 DEF HInv, RunInv, LinkOf

(* What x-download brings fits the name, and is not older than the version. *)
LEMMA ServedFits ==
  ASSUME HInv, DP!IInv, NEW p \in Procs, pc[p] = "fetch", NEW c \in Served(p)
  PROVE  /\ Fits(req[p].file, c)
         /\ Reports(p) => headVersion[p][2] <= NumberOf(c)
<1> DEFINE repo == This(p).repo
           what == req[p].file[2]
<1>1. /\ req[p].file \in Files /\ req[p].file[1] = repo
      /\ Reports(p) /\ This(p).host = "github" => what = <<"commit", headVersion[p][2]>>
      /\ Reports(p) /\ This(p).host # "github" => what = <<"head", 1>>
  BY RequestOfStage
<1>2. what[1] \in {"commit", "commitVersion", "head", "headVersion"}
  BY <1>1 DEF Files
<1>3. asked[p] \in Nat \ {0} /\ tip[repo] \in Nat /\ repo \in Repos
  BY CallType DEF HInv, ScriptType, Numbers
<1>4. Reports(p) => headVersion[p][2] <= asked[p] /\ headVersion[p][2] \in Nat
  BY DEF HInv, RunInv, NotNewer, Reports, ScriptType, Versions, Numbers
<1>5. CASE what[1] = "commit"
  <2>1. c \in {Archive(repo, n, form) : n \in {what[2]} \intersect 1 .. tip[repo], form \in Forms}
    BY <1>5 DEF Served
  <2>2. PICK form \in Forms : c = Archive(repo, what[2], form)
    BY <2>1
  <2>3. Fits(req[p].file, c)
    BY <1>1, <1>5, <2>2 DEF Fits
  <2>4. Reports(p) => headVersion[p][2] <= NumberOf(c)
    BY <1>1, <1>4, <1>5, <2>2 DEF NumberOf, Archive
  <2>5. QED
    BY <2>3, <2>4
<1>6. CASE what[1] = "head"
  <2>1. c \in {Archive(repo, n, form) : n \in asked[p] .. tip[repo], form \in Forms}
    BY <1>6 DEF Served
  <2>2. PICK n \in asked[p] .. tip[repo], form \in Forms : c = Archive(repo, n, form)
    BY <2>1
  <2>3. n \in 1 .. tip[repo]
    BY <1>3
  <2>4. Fits(req[p].file, c)
    BY <1>1, <1>6, <2>2, <2>3 DEF Fits
  <2>5. Reports(p) => headVersion[p][2] <= NumberOf(c)
    BY <1>3, <1>4, <2>2 DEF NumberOf, Archive
  <2>6. QED
    BY <2>4, <2>5
<1>7. CASE what[1] = "headVersion"
  <2>1. c \in {Answer(repo, n) : n \in asked[p] .. tip[repo]} \union {Garbage}
    BY <1>7 DEF Served
  <2>2. c = Garbage \/ \E n \in 1 .. tip[repo] : c = Answer(repo, n)
    BY <1>3, <2>1
  <2>3. QED
    BY <1>1, <1>7, <2>2 DEF Fits
<1>8. CASE what[1] = "commitVersion"
  <2>1. c \in {Answer(repo, n) : n \in 1 .. tip[repo]} \union {Garbage}
    BY <1>8 DEF Served
  <2>2. QED
    BY <1>1, <1>8, <2>1 DEF Fits
<1>9. QED
  BY <1>2, <1>5, <1>6, <1>7, <1>8

(* The name that a download works on is one of its file. *)
LEMMA NameOfFile ==
  ASSUME DP!IInv, NEW p \in Procs, pc[p] \in DP!Active
  PROVE  name[p] \in DP!Names /\ name[p][1] = req[p].file
BY DEF DP!IInv, DP!TypeOK, DP!NameOfCall, DP!Plain, DP!Retargeted

LEMMA DownloadingKept ==
  ASSUME HInv, DP!IInv, NEW p \in Procs, Downloading(p)
  PROVE  HInv' /\ DP!Next
<1>1. /\ DP!Next
      /\ UNCHANGED <<req, contended>>
      /\ \/ UNCHANGED name
         \/ pc'[p] = "probe2" /\ \E n \in DP!Names : name' = [name EXCEPT ![p] = n]
      /\ pc[p] \notin {"idle", "badArguments", "used"}
      /\ \E place \in DP!Places \ {"idle", "badArguments"} : pc' = [pc EXCEPT ![p] = place]
      /\ pc'[p] = "fetch" => asked' = [asked EXCEPT ![p] = tip[This(p).repo]]
      /\ pc'[p] # "fetch" => asked' = asked
  BY DownloadStep DEF HInv
<1>2. \/ UNCHANGED downloads /\ (pc'[p] = "ready" => ~req[p].always)
      \/ /\ pc[p] = "fetch" /\ pc'[p] = "ready"
         /\ \E c \in Contents \intersect Served(p) :
              downloads' = [downloads EXCEPT ![name[p]] = c]
  BY DownloadStep DEF HInv
<1>3. \/ UNCHANGED got /\ pc'[p] # "used"
      \/ /\ UNCHANGED downloads /\ pc[p] = "ready" /\ downloads[name[p]] # Absent
         /\ got' = [got EXCEPT ![p] = downloads[name[p]]]
  BY DownloadStep DEF HInv
<1>4. UNCHANGED <<script, tip, stage, headVersion, since>>
  BY DEF Downloading
<1>5. /\ pc \in [Procs -> DP!Places] /\ name \in [Procs -> DP!Names]
      /\ downloads \in [DP!Names -> Contents \union {Absent}]
      /\ got \in [Procs -> Contents \union {Absent}]
  BY DEF DP!IInv, DP!TypeOK
<1>6. tip[This(p).repo] \in Numbers
  BY CallType DEF HInv
<1>7. ScriptType'
  BY <1>1, <1>4, <1>6 DEF HInv, ScriptType, script
<1>8. TipGrows
  BY <1>4 DEF TipGrows, HInv, ScriptType, Numbers
<1>9. FilesFit'
  <2>1. CASE UNCHANGED downloads
    BY <1>4, <2>1, FilesKept
  <2>2. CASE pc[p] = "fetch" /\ \E c \in Contents \intersect Served(p) :
                                   downloads' = [downloads EXCEPT ![name[p]] = c]
    <3>1. PICK c \in Contents \intersect Served(p) : downloads' = [downloads EXCEPT ![name[p]] = c]
      BY <2>2
    <3>2. Fits(name[p][1], c)
      <4>1. name[p][1] = req[p].file
        BY <2>2, NameOfFile DEF DP!Active
      <4>2. QED
        BY <2>2, <4>1, ServedFits
    <3>3. ASSUME NEW n \in DP!Names, downloads'[n] # Absent
          PROVE  Fits(n[1], downloads[n])'
      <4>1. CASE n = name[p]
        <5>1. downloads'[n] = c
          BY <1>5, <3>1, <4>1
        <5>2. QED
          BY <1>4, <3>2, <4>1, <5>1 DEF Fits
      <4>2. CASE n # name[p]
        <5>1. downloads'[n] = downloads[n]
          BY <1>5, <3>1, <4>2
        <5>2. Fits(n[1], downloads[n])
          BY <3>3, <5>1 DEF HInv, FilesFit
        <5>3. QED
          BY <1>4, <5>1, <5>2 DEF Fits
      <4>3. QED
        BY <4>1, <4>2
    <3>4. QED
      BY <3>3 DEF FilesFit, DP!Names
  <2>3. QED
    BY <1>2, <2>1, <2>2
<1>10. ASSUME NEW q \in Procs \ {p}
       PROVE  RunInv(q)'
  <2>1. Reports(q) /\ pc[q] = "ready" => downloads'[name[q]] \in {Absent, downloads[name[q]]}
    <3>1. SUFFICES ASSUME Reports(q), pc[q] = "ready", pc[p] = "fetch",
                          NEW c, downloads' = [downloads EXCEPT ![name[p]] = c]
                   PROVE  downloads'[name[q]] = downloads[name[q]]
      BY <1>2
    <3>2. CASE name[q] # name[p]
      BY <1>5, <3>1, <3>2
    <3>3. CASE name[q] = name[p]
      <4>1. req[q].file = req[p].file
        BY <3>1, <3>3, NameOfFile DEF DP!Active
      <4>2. req[q].skip
        BY <3>1, RequestOfStage
      <4>3. DP!Disagree(req[q], req[p])
        BY <4>1, <4>2 DEF DP!Disagree, DP!Pinned
      <4>4. q \in contended
        BY <3>1, <4>3 DEF DP!IInv, DP!ContendedMarked, DP!Active
      <4>5. QED
        BY <3>1, <4>4 DEF Reports
    <3>4. QED
      BY <3>2, <3>3
  <2>2. /\ portfile'[q] = portfile[q] /\ mode'[q] = mode[q] /\ index'[q] = index[q]
        /\ headVersion'[q] = headVersion[q] /\ stage'[q] = stage[q] /\ pc'[q] = pc[q]
        /\ req'[q] = req[q] /\ name'[q] = name[q] /\ got'[q] = got[q] /\ asked'[q] = asked[q]
    BY <1>1, <1>3, <1>4, <1>5 DEF script, HInv, ScriptType
  <2>3. QED
    BY <1>1, <1>8, <2>1, <2>2, RunKept DEF HInv
<1>11. RunInv(p)'
  <2>1. /\ This(p)' = This(p) /\ HeadMode(p)' = HeadMode(p) /\ Refused(p)' = Refused(p)
        /\ VersionRequest(p)' = VersionRequest(p) /\ ArchiveRequest(p)' = ArchiveRequest(p)
        /\ Reports(p)' = Reports(p)
    BY <1>1, <1>4, SameCall DEF script, Reports
  <2>2. /\ pc'[p] \notin {"idle", "badArguments"}
        /\ req[p].file \in Files
        /\ Reports(p) => req[p].always
    BY <1>1, <1>5, RequestOfStage
  <2>3. LinkOf(p)' /\ VersionPast(p)' /\ First(p)'
    BY <1>1, <1>4, <2>1, <2>2 DEF HInv, RunInv, LinkOf, VersionPast, First, GitlabOnly, script
  <2>4. pc'[p] = "used" => /\ got'[p] = downloads[name[p]] /\ pc[p] = "ready"
                           /\ downloads[name[p]] # Absent
    BY <1>3, <1>5
  <2>5. pc'[p] = "used" => Fits(req[p].file, got[p])'
    <3>1. pc'[p] = "used" => Fits(req[p].file, got'[p])
      BY <2>4, NameOfFile DEF HInv, FilesFit, DP!Active
    <3>2. QED
      BY <1>1, <1>4, <3>1 DEF Fits
  <2>6. NotNewer(p)'
    <3>1. Reports(p) /\ pc'[p] = "fetch" => headVersion[p][2] <= asked'[p]
      BY <1>1 DEF HInv, RunInv, VersionPast, Reports, ScriptType
    <3>2. Reports(p) /\ pc'[p] = "ready" => headVersion[p][2] <= NumberOf(downloads'[name'[p]])
      <4>1. SUFFICES ASSUME Reports(p), pc'[p] = "ready"
                     PROVE  headVersion[p][2] <= NumberOf(downloads'[name'[p]])
        OBVIOUS
      <4>2. PICK c \in Served(p) : downloads' = [downloads EXCEPT ![name[p]] = c] /\ pc[p] = "fetch"
        BY <1>2, <2>2, <4>1
      <4>3. downloads'[name'[p]] = c
        BY <1>1, <1>5, <4>1, <4>2
      <4>4. QED
        BY <4>1, <4>2, <4>3, ServedFits
    <3>3. Reports(p) /\ pc'[p] = "used" => headVersion[p][2] <= NumberOf(got'[p])
      BY <2>4 DEF HInv, RunInv, NotNewer
    <3>4. QED
      BY <1>4, <2>1, <3>1, <3>2, <3>3 DEF NotNewer, NumberOf
  <2>7. QED
    BY <2>2, <2>3, <2>5, <2>6 DEF RunInv
<1>12. QED
  BY <1>1, <1>7, <1>9, <1>10, <1>11 DEF HInv

-----------------------------------------------------------------------------
(* The steps that end a call of vcpkg_download_distfile. *)

LEMMA ExitKept ==
  ASSUME HInv, DP!IInv, NEW p \in Procs, D!Exit(p), UNCHANGED tip,
         \A q \in Procs \ {p} :
           /\ portfile'[q] = portfile[q] /\ mode'[q] = mode[q] /\ index'[q] = index[q]
           /\ headVersion'[q] = headVersion[q] /\ stage'[q] = stage[q] /\ asked'[q] = asked[q]
  PROVE  /\ DP!Next /\ FilesFit' /\ pc'[p] = "idle"
         /\ \A q \in Procs \ {p} : RunInv(q)'
<1>1. DP!Exit(p)
  BY SameDistfile
<1>2. DP!Next
  BY <1>1 DEF DP!Next, DP!Step
<1>3. FilesFit'
  BY <1>1, FilesKept DEF DP!Exit
<1>4. /\ pc \in [Procs -> DP!Places] /\ req \in [Procs -> Request]
      /\ name \in [Procs -> DP!Names] /\ got \in [Procs -> Contents \union {Absent}]
  BY DEF DP!IInv, DP!TypeOK
<1>5. ASSUME NEW q \in Procs \ {p}
      PROVE  RunInv(q)'
  <2>1. /\ pc'[q] = pc[q] /\ req'[q] = req[q] /\ name'[q] = name[q] /\ got'[q] = got[q]
        /\ UNCHANGED downloads /\ (q \in contended => q \in contended')
    BY <1>1, <1>4 DEF DP!Exit, DP!Goto
  <2>2. QED
    BY <2>1, OthersKept
<1>6. pc'[p] = "idle"
  BY <1>1, <1>4 DEF DP!Exit, DP!Goto
<1>7. QED
  BY <1>2, <1>3, <1>5, <1>6

LEMMA ReadVersionKept ==
  ASSUME HInv, DP!IInv, NEW p \in Procs, ReadVersion(p)
  PROVE  HInv' /\ DP!Next
<1>1. /\ stage[p] = "version" /\ pc[p] = "used" /\ D!Exit(p)
      /\ UNCHANGED <<script, tip, since, asked>>
  BY DEF ReadVersion
<1>2. /\ req[p] = VersionRequest(p) /\ ~Refused(p) /\ mode[p].head
      /\ Fits(req[p].file, got[p]) /\ VersionPast(p) /\ First(p)
  BY <1>1 DEF HInv, RunInv, LinkOf
<1>3. /\ VersionRequest(p).file[1] = This(p).repo
      /\ VersionRequest(p).file[2][1] \in {"headVersion", "commitVersion"}
      /\ This(p).repo \in Repos /\ tip[This(p).repo] \in Numbers
  BY <1>2, VersionRequestType, CallType DEF HInv
<1>4. got[p] = Garbage \/ \E n \in 1 .. tip[This(p).repo] : got[p] = Answer(This(p).repo, n)
  BY <1>2, <1>3 DEF Fits
<1>5. CASE got[p] = Garbage
  <2>1. GoTo(p, "badAnswer") /\ UNCHANGED headVersion
    BY <1>5 DEF ReadVersion
  <2>2. ScriptType'
    BY <1>1, <2>1 DEF HInv, ScriptType, GoTo, Stages, script
  <2>3. \A q \in Procs \ {p} :
           /\ portfile'[q] = portfile[q] /\ mode'[q] = mode[q] /\ index'[q] = index[q]
           /\ headVersion'[q] = headVersion[q] /\ stage'[q] = stage[q] /\ asked'[q] = asked[q]
    BY <1>1, <2>1 DEF GoTo, script, HInv, ScriptType
  <2>4. /\ DP!Next /\ FilesFit' /\ pc'[p] = "idle"
        /\ \A q \in Procs \ {p} : RunInv(q)'
    BY <1>1, <2>3, ExitKept
  <2>5. stage'[p] = "badAnswer"
    BY <2>1 DEF GoTo, HInv, ScriptType
  <2>6. LinkOf(p)' /\ VersionPast(p)' /\ NotNewer(p)'
    BY <1>1, <1>2, <2>1, <2>4, <2>5 DEF LinkOf, VersionPast, NotNewer
  <2>7. First(p)'
    BY <1>1, <1>2, <2>1, <2>5 DEF First, GitlabOnly, script
  <2>8. RunInv(p)'
    BY <2>4, <2>6, <2>7 DEF RunInv
  <2>9. QED
    BY <2>2, <2>4, <2>8 DEF HInv
<1>6. CASE got[p] # Garbage
  <2>1. GoTo(p, "asking") /\ headVersion' = [headVersion EXCEPT ![p] = <<got[p][2], got[p][3]>>]
    BY <1>6 DEF ReadVersion
  <2>2. PICK n \in 1 .. tip[This(p).repo] : got[p] = Answer(This(p).repo, n)
    BY <1>4, <1>6
  <2>3. /\ headVersion' = [headVersion EXCEPT ![p] = <<This(p).repo, n>>]
        /\ <<This(p).repo, n>> \in Versions /\ <<This(p).repo, n>> # NoVersion
    <3>1. got[p][2] = This(p).repo /\ got[p][3] = n
      BY <2>2 DEF Answer
    <3>2. n \in Numbers
      BY <1>3, BoundAssumption DEF Numbers
    <3>3. <<This(p).repo, n>> \in Versions
      BY <1>3, <3>2 DEF Versions
    <3>4. QED
      BY <2>1, <3>1, <3>3, ValueAssumption
  <2>4. ScriptType'
    BY <1>1, <2>1, <2>3 DEF HInv, ScriptType, GoTo, Stages, script
  <2>5. \A q \in Procs \ {p} :
           /\ portfile'[q] = portfile[q] /\ mode'[q] = mode[q] /\ index'[q] = index[q]
           /\ headVersion'[q] = headVersion[q] /\ stage'[q] = stage[q] /\ asked'[q] = asked[q]
    BY <1>1, <2>1 DEF GoTo, script, HInv, ScriptType
  <2>6. /\ DP!Next /\ FilesFit' /\ pc'[p] = "idle"
        /\ \A q \in Procs \ {p} : RunInv(q)'
    BY <1>1, <2>5, ExitKept
  <2>7. stage'[p] = "asking" /\ headVersion'[p] = <<This(p).repo, n>> /\ headVersion'[p] # NoVersion
    BY <2>1, <2>3 DEF GoTo, HInv, ScriptType
  <2>8. This(p)' = This(p) /\ HeadMode(p)' = HeadMode(p) /\ Refused(p)' = Refused(p)
    BY <1>1, SameCall DEF script
  <2>9. LinkOf(p)' /\ NotNewer(p)'
    BY <1>2, <2>6, <2>7, <2>8 DEF LinkOf, NotNewer, Reports
  <2>10. VersionPast(p)'
    BY <1>1, <2>2, <2>7 DEF VersionPast
  <2>11. First(p)'
    <3>1. GitlabOnly(p) => index[p] = 1
      BY <1>1, <1>2 DEF First
    <3>2. QED
      BY <1>1, <2>7, <3>1 DEF First, GitlabOnly, script, This
  <2>12. RunInv(p)'
    BY <2>6, <2>9, <2>10, <2>11 DEF RunInv
  <2>13. QED
    BY <2>4, <2>6, <2>12 DEF HInv
<1>7. QED
  BY <1>5, <1>6

LEMMA ReturnKept ==
  ASSUME HInv, DP!IInv, NEW p \in Procs, Return(p)
  PROVE  HInv' /\ DP!Next
<1>1. /\ stage[p] = "archive" /\ D!Exit(p)
      /\ UNCHANGED <<portfile, mode, tip, headVersion, since, asked>>
      /\ \/ index[p] < Len(portfile[p]) /\ index' = [index EXCEPT ![p] = @ + 1] /\ GoTo(p, "enter")
         \/ GoTo(p, "done") /\ UNCHANGED index
  BY DEF Return
<1>2. Len(portfile[p]) \in Nat /\ index[p] \in Nat /\ index[p] >= 1
  BY PortfileAssumption DEF HInv, ScriptType
<1>3. ScriptType'
  <2>1. index' \in [Procs -> Nat] /\ \A q \in Procs : index'[q] \in 1 .. Len(portfile[q])
    <3>1. CASE UNCHANGED index
      BY <3>1 DEF HInv, ScriptType
    <3>2. CASE index[p] < Len(portfile[p]) /\ index' = [index EXCEPT ![p] = @ + 1]
      BY <1>2, <3>2 DEF HInv, ScriptType
    <3>3. QED
      BY <1>1, <3>1, <3>2
  <2>2. stage' \in [Procs -> Stages]
    BY <1>1 DEF HInv, ScriptType, GoTo, Stages
  <2>3. QED
    BY <1>1, <2>1, <2>2 DEF HInv, ScriptType
<1>4. \A q \in Procs \ {p} :
         /\ portfile'[q] = portfile[q] /\ mode'[q] = mode[q] /\ index'[q] = index[q]
         /\ headVersion'[q] = headVersion[q] /\ stage'[q] = stage[q] /\ asked'[q] = asked[q]
  BY <1>1 DEF GoTo, HInv, ScriptType
<1>5. /\ DP!Next /\ FilesFit' /\ pc'[p] = "idle"
      /\ \A q \in Procs \ {p} : RunInv(q)'
  BY <1>1, <1>4, ExitKept
<1>6. stage'[p] \in {"enter", "done"}
  BY <1>1 DEF GoTo, HInv, ScriptType
<1>7. LinkOf(p)' /\ VersionPast(p)' /\ NotNewer(p)'
  BY <1>1, <1>5, <1>6 DEF HInv, RunInv, LinkOf, VersionPast, NotNewer, Reports
<1>8. First(p)'
  BY <1>1, <1>6 DEF HInv, RunInv, First, GitlabOnly
<1>9. RunInv(p)'
  BY <1>5, <1>7, <1>8 DEF RunInv
<1>10. QED
  BY <1>3, <1>5, <1>9 DEF HInv

LEMMA QuitKept ==
  ASSUME HInv, DP!IInv, NEW p \in Procs, Quit(p)
  PROVE  HInv' /\ [DP!Next]_(DP!vars)
<1>1. NoPortfile \in Portfiles /\ NoMode \in Modes /\ Len(NoPortfile) \in Nat \ {0}
  <2>1. NoPortfile \in Portfiles /\ NoMode \in Modes
    BY PortfileAssumption DEF NoPortfile, NoMode
  <2>2. QED
    BY <2>1, PortfileAssumption
<1>2. ScriptType'
  BY <1>1, OneIsNumber DEF HInv, ScriptType, Quit, GoTo, Stages
<1>3. \A q \in Procs \ {p} :
         /\ portfile'[q] = portfile[q] /\ mode'[q] = mode[q] /\ index'[q] = index[q]
         /\ headVersion'[q] = headVersion[q] /\ stage'[q] = stage[q] /\ asked'[q] = asked[q]
  BY DEF Quit, GoTo, HInv, ScriptType
<1>4. /\ [DP!Next]_(DP!vars) /\ FilesFit' /\ pc'[p] = "idle"
      /\ \A q \in Procs \ {p} : RunInv(q)'
  <2>1. CASE D!Exit(p)
    BY <1>3, <2>1, ExitKept DEF Quit
  <2>2. CASE pc[p] = "idle" /\ UNCHANGED distfile
    <3>1. ASSUME NEW q \in Procs \ {p}
          PROVE  RunInv(q)'
      BY <1>3, <2>2, OthersKept DEF Quit, distfile
    <3>2. FilesFit'
      BY <2>2, FilesKept DEF Quit, distfile
    <3>3. QED
      BY <2>2, <3>1, <3>2 DEF distfile, DP!vars
  <2>3. QED
    BY <2>1, <2>2 DEF Quit
<1>5. stage'[p] = "idle" /\ headVersion'[p] = NoVersion /\ index'[p] = 1
  BY DEF Quit, GoTo, HInv, ScriptType
<1>6. RunInv(p)'
  BY <1>4, <1>5 DEF RunInv, LinkOf, VersionPast, NotNewer, Reports, First
<1>7. QED
  BY <1>2, <1>4, <1>6 DEF HInv

-----------------------------------------------------------------------------
(* The steps of the world. *)

LEMMA PushKept ==
  ASSUME HInv, DP!IInv, NEW repo \in Repos, Push(repo)
  PROVE  HInv' /\ UNCHANGED DP!vars
<1>1. TipGrows /\ tip' \in [Repos -> Numbers]
  BY BoundAssumption DEF HInv, ScriptType, Push, TipGrows, Numbers
<1>2. UNCHANGED DP!vars
  BY DEF Push, distfile, DP!vars
<1>3. ScriptType'
  BY <1>1 DEF HInv, ScriptType, Push, script
<1>4. FilesFit'
  <2>1. ASSUME NEW n \in DP!Names, downloads[n] # Absent
        PROVE  Fits(n[1], downloads[n])'
    <3>1. Fits(n[1], downloads[n]) /\ n[1] \in Files
      BY <2>1 DEF HInv, FilesFit, DP!Names
    <3>2. downloads' = downloads /\ n[1] \in Files
      BY <3>1 DEF Push, distfile
    <3>3. \A file \in Files : \A d : Fits(file, d) => Fits(file, d)'
      BY <1>1, FitsKept DEF HInv
    <3>5. QED
      BY <3>1, <3>2, <3>3 DEF Fits
  <2>2. QED
    BY <2>1 DEF FilesFit, Push, distfile, DP!Names
<1>5. ASSUME NEW q \in Procs
      PROVE  RunInv(q)'
  BY <1>1, RunKept DEF Push, distfile, script, HInv
<1>6. QED
  BY <1>2, <1>3, <1>4, <1>5 DEF HInv

LEMMA DeleteKept ==
  ASSUME HInv, DP!IInv, NEW n \in DP!Names, Delete(n)
  PROVE  HInv' /\ DP!Next
<1>1. DP!Delete(n) /\ UNCHANGED <<script, tip, stage, headVersion, since, asked>>
  BY SameDistfile DEF Delete
<1>2. DP!Next
  BY <1>1 DEF DP!Next
<1>3. ScriptType'
  BY <1>1 DEF HInv, ScriptType, script
<1>4. TipGrows
  BY <1>1 DEF TipGrows, HInv, ScriptType, Numbers
<1>5. downloads \in [DP!Names -> Contents \union {Absent}] /\ name \in [Procs -> DP!Names]
  BY DEF DP!IInv, DP!TypeOK
<1>6. \A m \in DP!Names : downloads'[m] \in {Absent, downloads[m]}
  BY <1>1, <1>5 DEF DP!Delete
<1>7. FilesFit'
  BY <1>1, <1>6 DEF HInv, FilesFit, Fits, DP!Names
<1>8. ASSUME NEW q \in Procs
      PROVE  RunInv(q)'
  BY <1>1, <1>4, <1>5, <1>6, RunKept DEF DP!Delete, script, HInv
<1>9. QED
  BY <1>2, <1>3, <1>7, <1>8 DEF HInv

-----------------------------------------------------------------------------
LEMMA StartsRight == Init => HInv /\ DP!Init
<1> SUFFICES ASSUME Init PROVE HInv /\ DP!Init
  OBVIOUS
<1>1. DP!Init
  BY SameDistfile DEF Init
<1>2. NoPortfile \in Portfiles /\ NoMode \in Modes
  BY PortfileAssumption DEF NoPortfile, NoMode
<1>3. Len(NoPortfile) \in Nat \ {0}
  BY <1>2, PortfileAssumption
<1>4. ScriptType
  BY <1>2, <1>3, OneIsNumber DEF Init, ScriptType, Stages
<1>5. FilesFit
  BY SameDistfile DEF Init, FilesFit
<1>6. ASSUME NEW p \in Procs
      PROVE  RunInv(p)
  <2>1. stage[p] = "idle" /\ pc[p] = "idle" /\ headVersion[p] = NoVersion /\ index[p] = 1
    BY <1>1 DEF Init, DP!Init
  <2>2. QED
    BY <2>1 DEF RunInv, LinkOf, VersionPast, NotNewer, Reports, First
<1>7. QED
  BY <1>1, <1>4, <1>5, <1>6 DEF HInv

LEMMA StepKept == HInv /\ DP!IInv /\ [Next]_vars => HInv' /\ [DP!Next]_(DP!vars)
<1> SUFFICES ASSUME HInv, DP!IInv, [Next]_vars PROVE HInv' /\ [DP!Next]_(DP!vars)
  OBVIOUS
<1>1. ASSUME NEW p \in Procs, Step(p)
      PROVE  HInv' /\ [DP!Next]_(DP!vars)
  BY <1>1, StartKept, EnterKept, DownloadingKept, ReadVersionKept, AskArchiveKept, ReturnKept,
     QuitKept DEF Step
<1>2. ASSUME NEW repo \in Repos, Push(repo)
      PROVE  HInv' /\ [DP!Next]_(DP!vars)
  BY <1>2, PushKept
<1>3. ASSUME NEW n \in DP!Names, Delete(n)
      PROVE  HInv' /\ [DP!Next]_(DP!vars)
  BY <1>3, DeleteKept
<1>4. CASE UNCHANGED vars
  <2>1. UNCHANGED DP!vars
    BY <1>4 DEF vars, DP!vars
  <2>2. UNCHANGED <<tip, downloads>> /\ ScriptType' /\ TipGrows
    BY <1>4 DEF vars, HInv, ScriptType, TipGrows, Numbers
  <2>3. ASSUME NEW q \in Procs
        PROVE  RunInv(q)'
    BY <1>4, <2>2, RunKept DEF vars, HInv
  <2>4. QED
    BY <2>1, <2>2, <2>3, FilesKept DEF HInv
<1>5. QED
  BY <1>1, <1>2, <1>3, <1>4, SameDistfile DEF Next

LEMMA HInvAlways == Spec => [](DP!IInv /\ HInv) /\ DP!Spec
<1>1. Init => HInv /\ DP!Init
  BY StartsRight
<1>2. DP!Init => DP!IInv
  BY DistfileAssumptions, DP!InvariantAtStart
<1>3. HInv /\ DP!IInv /\ [Next]_vars => HInv' /\ [DP!Next]_(DP!vars)
  BY StepKept
<1>4. DP!IInv /\ [DP!Next]_(DP!vars) => DP!IInv'
  BY DistfileAssumptions, DP!InvariantKept
<1>5. QED
  BY <1>1, <1>2, <1>3, <1>4, PTL DEF Spec, DP!Spec

(* What the functions do with the cache is what vcpkg_download_distfile does:
   they add no file operation of their own. *)
THEOREM ImplementsDistfile == Spec => DP!Spec
BY HInvAlways, PTL

(* GitHub: a --head build reports the commit that it builds. *)
THEOREM GithubReportsBuiltCorrect == Spec => []GithubReportsBuilt
<1>1. DP!IInv /\ HInv => GithubReportsBuilt
  <2>1. SUFFICES ASSUME DP!IInv, HInv, NEW p \in Procs,
                        Unpacks(p), This(p).host = "github", HeadMode(p)
                 PROVE  headVersion[p] = <<This(p).repo, NumberOf(got[p])>>
    BY DEF GithubReportsBuilt
  <2>2. /\ req[p] = ArchiveRequest(p) /\ ~Refused(p) /\ Fits(req[p].file, got[p])
        /\ headVersion[p] # NoVersion /\ headVersion[p][1] = This(p).repo
    BY <2>1 DEF Unpacks, HInv, RunInv, LinkOf
  <2>3. req[p].file[2] = <<"commit", headVersion[p][2]>>
    BY <2>1, <2>2, ArchiveRequestType DEF HInv
  <2>4. NumberOf(got[p]) = headVersion[p][2]
    BY <2>2, <2>3 DEF Fits, Archive, NumberOf
  <2>5. PICK repo \in Repos, n \in Numbers : headVersion[p] = <<repo, n>>
    BY <2>1, <2>2 DEF HInv, ScriptType, Versions
  <2>6. repo = This(p).repo /\ n = NumberOf(got[p])
    BY <2>2, <2>4, <2>5
  <2>7. QED
    BY <2>5, <2>6
<1>2. QED
  BY <1>1, HInvAlways, PTL

(* A build that is not --head unpacks the archive of its SHA512: the promise
   of vcpkg_download_distfile, carried to its callers. *)
THEOREM PinnedBuildCorrect == Spec => []PinnedBuild
<1>1. DP!IInv /\ HInv => PinnedBuild
  <2>1. SUFFICES ASSUME DP!IInv, HInv, NEW p \in Procs,
                        Unpacks(p), ~HeadMode(p), ~mode[p].noHashCheck, p \notin contended
                 PROVE  got[p] = This(p).sha
    BY DEF PinnedBuild
  <2>2. req[p] = ArchiveRequest(p) /\ ~Refused(p)
    BY <2>1 DEF Unpacks, HInv, RunInv, LinkOf
  <2>3. ~req[p].skip /\ req[p].sha = This(p).sha /\ ~req[p].noHashCheck
    BY <2>1, <2>2, ArchiveRequestType DEF HInv
  <2>4. QED
    BY <2>1, <2>3 DEF DP!IInv, DP!PinnedUse, DP!Pinned, Unpacks
<1>2. QED
  BY <1>1, HInvAlways, PTL

(* GitLab and Bitbucket: the reported version is not newer than the build. *)
THEOREM ReportsNotNewerCorrect == Spec => []ReportsNotNewer
<1>1. HInv => ReportsNotNewer
  BY DEF HInv, RunInv, NotNewer, Reports, ReportsNotNewer, Unpacks
<1>2. QED
  BY <1>1, HInvAlways, PTL

(* A portfile of several GitLab repositories reports the first one's version. *)
THEOREM FirstVersionCorrect == Spec => []FirstVersion
<1>1. HInv => FirstVersion
  BY DEF HInv, RunInv, First, GitlabOnly, FirstVersion
<1>2. QED
  BY <1>1, HInvAlways, PTL

(* The callers' checks cover those of vcpkg_download_distfile. *)
THEOREM NeverMalformedCorrect == Spec => []NeverMalformed
<1>1. HInv => NeverMalformed
  BY DEF HInv, RunInv, NeverMalformed
<1>2. QED
  BY <1>1, HInvAlways, PTL

-----------------------------------------------------------------------------
(* The age of what a --head build unpacks, along its two downloads. *)

NotOlder(p, c) == c \in {Absent, Garbage} \/ since[p] <= NumberOf(c)

(* The downloads of a --head build that ask for what the branch is at. *)
FollowsBranch(p) ==
  stage[p] = "version" \/ (stage[p] = "archive" /\ This(p).host # "github")

Fresh(p) ==
  HeadMode(p) /\ p \notin crossed =>
    /\ stage[p] \in {"version", "asking", "archive"} => since[p] <= tip[This(p).repo]
    /\ FollowsBranch(p) =>
         /\ pc[p] = "fetch" => since[p] <= asked[p]
         /\ pc[p] = "ready" => NotOlder(p, downloads[name[p]])
         /\ pc[p] = "used" => NotOlder(p, got[p])
    /\ stage[p] \in {"asking", "archive"} /\ This(p).host = "github" =>
         since[p] <= headVersion[p][2]

FInv ==
  /\ crossed \in SUBSET Procs /\ contended \subseteq crossed
  /\ \A p \in Procs : Fresh(p)

(* Nothing but its own steps changes what belongs to a run. *)
Same(q) ==
  /\ portfile'[q] = portfile[q] /\ mode'[q] = mode[q] /\ index'[q] = index[q]
  /\ headVersion'[q] = headVersion[q] /\ stage'[q] = stage[q] /\ since'[q] = since[q]
  /\ asked'[q] = asked[q] /\ pc'[q] = pc[q] /\ req'[q] = req[q] /\ name'[q] = name[q]
  /\ got'[q] = got[q]

LEMMA OwnSteps ==
  ASSUME HInv, DP!IInv, NEW p \in Procs, Step(p), NEW q \in Procs \ {p}
  PROVE  Same(q) /\ UNCHANGED tip
<1> USE DEF Same, GoTo, script, distfile
<1>1. ScriptType
  BY DEF HInv
<1> USE DEF ScriptType
<1>2. /\ pc \in [Procs -> DP!Places] /\ req \in [Procs -> Request]
      /\ name \in [Procs -> DP!Names] /\ got \in [Procs -> Contents \union {Absent}]
  BY DEF DP!IInv, DP!TypeOK
<1>3. ASSUME NEW r, D!Call(p, r)
      PROVE  pc'[q] = pc[q] /\ req'[q] = req[q] /\ name'[q] = name[q] /\ got'[q] = got[q]
  BY <1>2, <1>3 DEF D!Call, D!Goto
<1>4. ASSUME D!Exit(p)
      PROVE  pc'[q] = pc[q] /\ req'[q] = req[q] /\ name'[q] = name[q] /\ got'[q] = got[q]
  BY <1>2, <1>4 DEF D!Exit, D!Goto
<1>5. CASE \E f \in Portfiles, m \in Modes : Start(p, f, m)
  BY <1>1, <1>5 DEF Start
<1>6. CASE Enter(p)
  BY <1>1, <1>3, <1>6 DEF Enter
<1>7. CASE Downloading(p)
  <2>1. /\ UNCHANGED req /\ pc'[q] = pc[q] /\ name'[q] = name[q] /\ got'[q] = got[q]
        /\ asked'[q] = asked[q]
    <3>1. ScriptType /\ Downloading(p)
      BY <1>1, <1>7
    <3>2. UNCHANGED req /\ \E place : pc' = [pc EXCEPT ![p] = place]
      BY <3>1, DownloadStep
    <3>3. \/ UNCHANGED name
          \/ \E n : name' = [name EXCEPT ![p] = n]
      BY <3>1, DownloadStep
    <3>4. \/ UNCHANGED got
          \/ \E c : got' = [got EXCEPT ![p] = c]
      BY <3>1, DownloadStep
    <3>5. asked' = asked \/ \E n : asked' = [asked EXCEPT ![p] = n]
      BY <3>1, DownloadStep
    <3>6. asked \in [Procs -> Numbers]
      BY <1>1
    <3>7. QED
      BY <1>2, <3>2, <3>3, <3>4, <3>5, <3>6
  <2>2. QED
    BY <1>7, <2>1 DEF Downloading
<1>8. CASE ReadVersion(p)
  BY <1>1, <1>4, <1>8 DEF ReadVersion
<1>9. CASE AskArchive(p)
  BY <1>1, <1>3, <1>9 DEF AskArchive
<1>10. CASE Return(p)
  BY <1>1, <1>4, <1>10 DEF Return
<1>11. CASE Quit(p)
  BY <1>1, <1>4, <1>11 DEF Quit
<1>12. QED
  BY <1>5, <1>6, <1>7, <1>8, <1>9, <1>10, <1>11 DEF Step

(* A run that is in a call is remembered for as long as the call. *)
LEMMA CrossedKept ==
  ASSUME FInv, Remember, contended' \in SUBSET Procs
  PROVE  /\ crossed' \in SUBSET Procs /\ contended' \subseteq crossed'
         /\ \A q \in Procs : stage[q] \notin {"idle", "enter"} /\ q \in crossed => q \in crossed'
BY DEF FInv, Remember

(* The requests that follow a branch are made afresh. *)
LEMMA FollowingRequest ==
  ASSUME HInv, DP!IInv, NEW p \in Procs, pc[p] # "idle", HeadMode(p), FollowsBranch(p)
  PROVE  /\ req[p].always /\ req[p].skip
         /\ req[p].file[1] = This(p).repo
         /\ req[p].file[2] \in {<<"headVersion", 1>>, <<"head", 1>>}
<1>1. CASE stage[p] = "version"
  <2>1. req[p] = VersionRequest(p) /\ ~Refused(p)
    BY <1>1 DEF HInv, RunInv, LinkOf
  <2>2. VersionRequest(p).file[2] = <<"headVersion", 1>>
    BY DEF VersionRequest, Download, VersionFile, HeadMode
  <2>3. QED
    BY <2>1, <2>2, VersionRequestType DEF HInv
<1>2. CASE stage[p] = "archive" /\ This(p).host # "github"
  <2>1. req[p] = ArchiveRequest(p) /\ ~Refused(p)
    BY <1>2 DEF HInv, RunInv, LinkOf
  <2>2. QED
    BY <1>2, <2>1, ArchiveRequestType DEF HInv
<1>3. QED
  BY <1>1, <1>2 DEF FollowsBranch

(* What such a download brings is not older than the branch was then. *)
LEMMA ServedNotOlder ==
  ASSUME HInv, DP!IInv, NEW p \in Procs, pc[p] = "fetch", HeadMode(p), FollowsBranch(p),
         since[p] <= asked[p], NEW c \in Served(p)
  PROVE  NotOlder(p, c)
<1>1. req[p].file[2] \in {<<"headVersion", 1>>, <<"head", 1>>}
  BY FollowingRequest
<1>2. since[p] \in Nat /\ asked[p] \in Nat /\ tip[This(p).repo] \in Nat
  BY CallType DEF HInv, ScriptType, Numbers
<1>3. CASE req[p].file[2] = <<"headVersion", 1>>
  <2>1. c = Garbage \/ \E n \in asked[p] .. tip[This(p).repo] : c = Answer(This(p).repo, n)
    BY <1>3 DEF Served
  <2>2. QED
    BY <1>2, <2>1 DEF NotOlder, NumberOf, Answer
<1>4. CASE req[p].file[2] = <<"head", 1>>
  <2>1. \E n \in asked[p] .. tip[This(p).repo], form \in Forms : c = Archive(This(p).repo, n, form)
    BY <1>4 DEF Served
  <2>2. QED
    BY <1>2, <2>1 DEF NotOlder, NumberOf, Archive
<1>5. QED
  BY <1>1, <1>3, <1>4

(* A file that is about to be read is replaced by another run's download only
   when the two contend. *)
LEMMA ReadyKept ==
  ASSUME HInv, DP!IInv, NEW p \in Procs, Downloading(p), NEW q \in Procs \ {p},
         HeadMode(q), FollowsBranch(q), pc[q] = "ready", q \notin contended
  PROVE  downloads'[name[q]] = downloads[name[q]]
<1>1. CASE UNCHANGED downloads
  BY <1>1
<1>2. CASE pc[p] = "fetch" /\ \E c : downloads' = [downloads EXCEPT ![name[p]] = c]
  <2>1. name[p] # name[q]
    <3>1. SUFFICES ASSUME name[p] = name[q] PROVE FALSE
      OBVIOUS
    <3>2. req[q].file = req[p].file
      BY <1>2, <3>1, NameOfFile DEF DP!Active
    <3>3. req[q].skip
      BY FollowingRequest
    <3>4. DP!Disagree(req[q], req[p])
      BY <3>2, <3>3 DEF DP!Disagree, DP!Pinned
    <3>5. QED
      BY <1>2, <3>4 DEF DP!IInv, DP!ContendedMarked, DP!Active
  <2>2. name[q] \in DP!Names /\ downloads \in [DP!Names -> Contents \union {Absent}]
    BY DEF DP!IInv, DP!TypeOK
  <2>3. QED
    BY <1>2, <2>1, <2>2
<1>3. QED
  BY <1>1, <1>2, DownloadStep DEF HInv

(* Runs that a step is not one of. *)
LEMMA FreshKept ==
  ASSUME HInv, FInv, NEW q \in Procs, Fresh(q), Same(q), TipGrows, Remember,
         contended' \in SUBSET Procs,
         HeadMode(q) /\ FollowsBranch(q) /\ pc[q] = "ready" /\ q \notin crossed =>
           downloads'[name[q]] \in {Absent, downloads[name[q]]}
  PROVE  Fresh(q)'
<1>1. This(q)' = This(q) /\ HeadMode(q)' = HeadMode(q)
  BY SameCall DEF Same
<1>2. FollowsBranch(q)' = FollowsBranch(q)
  BY <1>1 DEF FollowsBranch, Same
<1>3. stage[q] \in {"version", "asking", "archive"} /\ q \notin crossed' => q \notin crossed
  BY CrossedKept
<1>4. /\ since[q] \in Nat /\ tip[This(q).repo] \in Nat /\ tip'[This(q).repo] \in Nat
      /\ tip[This(q).repo] <= tip'[This(q).repo]
  BY CallType DEF HInv, ScriptType, TipGrows, Numbers
<1>5. SUFFICES ASSUME HeadMode(q)', (q \notin crossed)',
                      stage'[q] \in {"version", "asking", "archive"}
               PROVE  Fresh(q)'
  BY DEF Fresh, FollowsBranch
<1>6. /\ HeadMode(q) /\ q \notin crossed /\ stage[q] \in {"version", "asking", "archive"}
      /\ (pc[q] = "ready" /\ FollowsBranch(q) =>
            downloads'[name[q]] \in {Absent, downloads[name[q]]})
  BY <1>1, <1>3, <1>5 DEF Same
<1>7. since'[q] <= tip'[This(q).repo]
  BY <1>4, <1>6 DEF Fresh, Same
<1>8. FollowsBranch(q) =>
         /\ pc'[q] = "fetch" => since'[q] <= asked'[q]
         /\ pc'[q] = "ready" => NotOlder(q, downloads[name[q]])'
         /\ pc'[q] = "used" => NotOlder(q, got[q])'
  BY <1>6 DEF Fresh, Same, NotOlder, NumberOf
<1>9. stage'[q] \in {"asking", "archive"} /\ This(q).host = "github" =>
         since'[q] <= headVersion'[q][2]
  BY <1>6 DEF Fresh, Same
<1>10. QED
  BY <1>1, <1>2, <1>5, <1>7, <1>8, <1>9 DEF Fresh

LEMMA CallPlace ==
  ASSUME DP!IInv, NEW p \in Procs, NEW r, D!Call(p, r)
  PROVE  pc'[p] \in {"probe", "badArguments"} /\ contended \subseteq contended'
BY DEF D!Call, D!Goto, DP!IInv, DP!TypeOK

(* The step that a run takes itself. *)
LEMMA FreshOwn ==
  ASSUME HInv, DP!IInv, FInv, NEW p \in Procs, Step(p), Remember, contended' \in SUBSET Procs
  PROVE  Fresh(p)'
<1>1. ScriptType /\ LinkOf(p) /\ Fresh(p)
  BY DEF HInv, RunInv, FInv
<1>2. ASSUME stage'[p] \in Stages \ {"version", "asking", "archive"}
      PROVE  Fresh(p)'
  BY <1>2 DEF Fresh, FollowsBranch
<1>3. CASE \E f \in Portfiles, m \in Modes : Start(p, f, m)
  BY <1>1, <1>2, <1>3 DEF Start, GoTo, Stages, ScriptType
<1>4. CASE Enter(p)
  <2>1. CASE Refused(p) /\ GoTo(p, "refused")
    BY <1>1, <1>2, <2>1 DEF GoTo, Stages, ScriptType
  <2>2. CASE /\ D!Call(p, VersionRequest(p)) \/ D!Call(p, ArchiveRequest(p))
             /\ \/ AsksVersion(p) /\ GoTo(p, "version")
                \/ ~AsksVersion(p) /\ GoTo(p, "archive")
             /\ since' = [since EXCEPT ![p] = IF HeadMode(p) THEN tip[This(p).repo] ELSE 1]
    <3>1. pc'[p] \in {"probe", "badArguments"} /\ stage'[p] \in {"version", "archive"}
      BY <1>1, <2>2, CallPlace DEF GoTo, ScriptType
    <3>2. This(p)' = This(p) /\ HeadMode(p)' = HeadMode(p) /\ UNCHANGED tip
      BY <1>4, SameCall DEF Enter, script
    <3>3. HeadMode(p) => since'[p] = tip[This(p).repo] /\ since'[p] <= tip[This(p).repo]
      BY <1>1, <2>2, CallType DEF ScriptType, Numbers
    <3>4. HeadMode(p) /\ This(p).host = "github" => stage'[p] = "version"
      BY <1>1, <2>2 DEF AsksVersion, HeadMode, GoTo, ScriptType
    <3>5. QED
      BY <3>1, <3>2, <3>3, <3>4 DEF Fresh
  <2>3. QED
    BY <1>4, <2>1, <2>2 DEF Enter
<1>5. CASE Downloading(p)
  <2>1. /\ UNCHANGED <<script, tip, stage, headVersion, since, req>>
        /\ This(p)' = This(p) /\ HeadMode(p)' = HeadMode(p)
        /\ FollowsBranch(p)' = FollowsBranch(p)
    <3>1. UNCHANGED <<script, tip, stage, headVersion, since>>
      BY <1>5 DEF Downloading
    <3>2. UNCHANGED req
      BY <1>1, <1>5, DownloadStep
    <3>3. QED
      BY <3>1, <3>2, SameCall DEF script, FollowsBranch
  <2>2. pc[p] # "idle" /\ stage[p] \in {"version", "archive"}
    BY <1>1, <1>5, DownloadStep DEF LinkOf
  <2>3. SUFFICES ASSUME HeadMode(p), p \notin crossed
                 PROVE  Fresh(p)'
    BY <2>1, <2>2, CrossedKept DEF Fresh
  <2>4. /\ since[p] <= tip[This(p).repo]
        /\ stage[p] = "archive" /\ This(p).host = "github" => since[p] <= headVersion[p][2]
    BY <1>1, <2>2, <2>3 DEF Fresh
  <2>5. ASSUME FollowsBranch(p), pc'[p] = "fetch"
        PROVE  since[p] <= asked'[p]
    BY <1>1, <1>5, <2>4, <2>5, DownloadStep DEF ScriptType
  <2>6. ASSUME FollowsBranch(p), pc'[p] = "ready"
        PROVE  NotOlder(p, downloads'[name'[p]])
    <3>1. req[p].always
      BY <2>2, <2>3, <2>6, FollowingRequest
    <3>2. PICK c \in Contents \intersect Served(p) :
                 downloads' = [downloads EXCEPT ![name[p]] = c] /\ pc[p] = "fetch"
      BY <1>1, <1>5, <2>6, <3>1, DownloadStep
    <3>3. UNCHANGED name
      BY <1>1, <1>5, <2>6, DownloadStep
    <3>4. downloads'[name'[p]] = c
      BY <3>2, <3>3 DEF DP!IInv, DP!TypeOK
    <3>5. since[p] <= asked[p]
      BY <1>1, <2>3, <2>6, <3>2 DEF Fresh
    <3>6. QED
      BY <2>3, <2>6, <3>2, <3>4, <3>5, ServedNotOlder
  <2>7. ASSUME FollowsBranch(p), pc'[p] = "used"
        PROVE  NotOlder(p, got'[p])
    <3>1. got' = [got EXCEPT ![p] = downloads[name[p]]] /\ pc[p] = "ready"
      BY <1>1, <1>5, <2>7, DownloadStep
    <3>2. got'[p] = downloads[name[p]]
      BY <3>1 DEF DP!IInv, DP!TypeOK
    <3>3. QED
      BY <1>1, <2>3, <2>7, <3>1, <3>2 DEF Fresh
  <2>8. QED
    <3>1. since'[p] = since[p] /\ stage'[p] = stage[p] /\ headVersion'[p] = headVersion[p]
          /\ tip' = tip
      BY <2>1
    <3>2. FollowsBranch(p) =>
            /\ pc'[p] = "fetch" => since'[p] <= asked'[p]
            /\ pc'[p] = "ready" => NotOlder(p, downloads[name[p]])'
            /\ pc'[p] = "used" => NotOlder(p, got[p])'
      BY <2>5, <2>6, <2>7, <3>1 DEF NotOlder
    <3>3. since'[p] <= tip'[This(p)'.repo]
      BY <2>1, <2>4, <3>1
    <3>4. stage'[p] = "archive" /\ This(p)'.host = "github" => since'[p] <= headVersion'[p][2]
      BY <2>1, <2>4, <3>1
    <3>5. stage'[p] # "asking"
      BY <2>2, <3>1
    <3>6. FollowsBranch(p)' =>
            /\ pc'[p] = "fetch" => since'[p] <= asked'[p]
            /\ pc'[p] = "ready" => NotOlder(p, downloads[name[p]])'
            /\ pc'[p] = "used" => NotOlder(p, got[p])'
      BY <2>1, <3>2
    <3>7. QED
      BY <3>3, <3>4, <3>5, <3>6 DEF Fresh
<1>6. CASE ReadVersion(p)
  <2>1. CASE GoTo(p, "badAnswer")
    BY <1>1, <1>2, <2>1 DEF GoTo, Stages, ScriptType
  <2>2. CASE /\ got[p] # Garbage /\ GoTo(p, "asking")
             /\ headVersion' = [headVersion EXCEPT ![p] = <<got[p][2], got[p][3]>>]
    <3>1. /\ stage[p] = "version" /\ pc[p] = "used" /\ stage'[p] = "asking"
          /\ headVersion'[p] = <<got[p][2], got[p][3]>>
          /\ UNCHANGED <<tip, since>> /\ This(p)' = This(p) /\ HeadMode(p)' = HeadMode(p)
      BY <1>1, <1>6, <2>2, SameCall DEF ReadVersion, GoTo, ScriptType, script
    <3>2. SUFFICES ASSUME HeadMode(p), p \notin crossed
                   PROVE  since[p] <= tip[This(p).repo] /\ since[p] <= got[p][3]
      BY <3>1, CrossedKept DEF Fresh, FollowsBranch
    <3>3. since[p] <= tip[This(p).repo] /\ NotOlder(p, got[p])
      BY <1>1, <3>1, <3>2 DEF Fresh, FollowsBranch
    <3>4. got[p] # Absent
      <4>1. Fits(req[p].file, got[p])
        BY <3>1 DEF HInv, RunInv
      <4>2. /\ req[p].file[2] = <<"headVersion", 1>> \/ req[p].file[2] = <<"head", 1>>
            /\ req[p].file[1] = This(p).repo
        BY <3>1, <3>2, FollowingRequest DEF FollowsBranch
      <4>3. \A n \in 1 .. tip[This(p).repo] : n \in Numbers
        BY CallType, BoundAssumption DEF HInv, Numbers
      <4>4. got[p] \in Contents
        BY <1>1, <4>1, <4>2, <4>3, CallType DEF Fits, Contents
      <4>5. QED
        BY <4>4, HashAssumption DEF Hashes
    <3>5. QED
      BY <2>2, <3>3, <3>4 DEF NotOlder, NumberOf
  <2>3. QED
    BY <1>6, <2>1, <2>2 DEF ReadVersion
<1>7. CASE AskArchive(p)
  <2>1. /\ stage[p] = "asking" /\ stage'[p] = "archive" /\ pc'[p] \in {"probe", "badArguments"}
        /\ UNCHANGED <<tip, since, headVersion>> /\ This(p)' = This(p) /\ HeadMode(p)' = HeadMode(p)
    BY <1>1, <1>7, CallPlace, SameCall DEF AskArchive, GoTo, ScriptType, script
  <2>2. QED
    BY <1>1, <2>1, CrossedKept DEF Fresh
<1>8. CASE Return(p)
  BY <1>1, <1>2, <1>8 DEF Return, GoTo, Stages, ScriptType
<1>9. CASE Quit(p)
  BY <1>1, <1>2, <1>9 DEF Quit, GoTo, Stages, ScriptType
<1>10. QED
  BY <1>3, <1>4, <1>5, <1>6, <1>7, <1>8, <1>9 DEF Step

LEMMA FInvKept ==
  ASSUME HInv, DP!IInv, FInv, DP!IInv', [Next]_vars
  PROVE  FInv'
<1>1. contended' \in SUBSET Procs
  BY DEF DP!IInv, DP!TypeOK
<1>2. CASE Next
  <2>1. Remember
    BY <1>2 DEF Next
  <2>2. crossed' \in SUBSET Procs /\ contended' \subseteq crossed'
    BY <1>1, <2>1, CrossedKept
  <2>3. ASSUME NEW p \in Procs, Step(p), NEW q \in Procs
        PROVE  Fresh(q)'
    <3>1. CASE q = p
      BY <1>1, <2>1, <2>3, <3>1, FreshOwn
    <3>2. CASE q # p
      <4>1. Same(q) /\ TipGrows
        BY <2>3, <3>2, OwnSteps DEF TipGrows, HInv, ScriptType, Numbers
      <4>2. HeadMode(q) /\ FollowsBranch(q) /\ pc[q] = "ready" /\ q \notin crossed =>
              downloads'[name[q]] \in {Absent, downloads[name[q]]}
        <5>1. CASE Downloading(p)
          BY <3>2, <5>1, ReadyKept DEF FInv
        <5>2. CASE UNCHANGED downloads
          BY <5>2
        <5>3. QED
          BY <2>3, <5>1, <5>2 DEF Step, Start, Enter, ReadVersion, AskArchive, Return, Quit,
             D!Call, D!Exit, distfile
      <4>3. QED
        BY <1>1, <2>1, <4>1, <4>2, FreshKept DEF FInv
    <3>3. QED
      BY <3>1, <3>2
  <2>4. ASSUME NEW repo \in Repos, Push(repo), NEW q \in Procs
        PROVE  Fresh(q)'
    <3>1. TipGrows
      BY <2>4, BoundAssumption DEF Push, TipGrows, HInv, ScriptType, Numbers
    <3>2. Same(q) /\ UNCHANGED downloads
      BY <2>4 DEF Push, Same, script, distfile
    <3>3. QED
      BY <1>1, <2>1, <3>1, <3>2, FreshKept DEF FInv
  <2>5. ASSUME NEW n \in DP!Names, Delete(n), NEW q \in Procs
        PROVE  Fresh(q)'
    <3>1. DP!Delete(n) /\ UNCHANGED <<script, tip, stage, headVersion, since, asked>>
      BY <2>5, SameDistfile DEF Delete
    <3>2. Same(q) /\ TipGrows
      BY <3>1 DEF DP!Delete, Same, script, TipGrows, HInv, ScriptType, Numbers
    <3>3. downloads'[name[q]] \in {Absent, downloads[name[q]]}
      BY <3>1 DEF DP!Delete, DP!IInv, DP!TypeOK
    <3>4. QED
      BY <1>1, <2>1, <3>2, <3>3, FreshKept DEF FInv
  <2>6. \A q \in Procs : Fresh(q)'
    BY <1>2, <2>3, <2>4, <2>5, SameDistfile DEF Next
  <2>7. QED
    BY <2>2, <2>6 DEF FInv
<1>3. CASE UNCHANGED vars
  BY <1>3 DEF vars, FInv, Fresh, FollowsBranch, NotOlder, HeadMode, This
<1>4. QED
  BY <1>2, <1>3

LEMMA FInvAlways == Spec => []FInv
<1>1. Init => FInv
  <2>1. Init => contended = {} /\ crossed = {} /\ \A p \in Procs : stage[p] = "idle"
    BY DEF Init, D!Init
  <2>2. QED
    BY <2>1 DEF FInv, Fresh, FollowsBranch
<1>2. HInv /\ DP!IInv /\ FInv /\ DP!IInv' /\ [Next]_vars => FInv'
  BY FInvKept
<1>3. QED
  BY <1>1, <1>2, HInvAlways, PTL DEF Spec

(* Types, for portfiles of any length and any number of runs. *)
THEOREM TypeCorrect == Spec => []TypeOK
<1>1. DP!IInv /\ HInv /\ FInv => TypeOK
  BY SameDistfile DEF DP!IInv, HInv, FInv, ScriptType, TypeOK
<1>2. QED
  BY <1>1, HInvAlways, FInvAlways, PTL

(* A --head build is not older than the branch was when its call began. *)
THEOREM HeadFreshCorrect == Spec => []HeadFresh
<1>1. DP!IInv /\ HInv /\ FInv => HeadFresh
  <2>1. SUFFICES ASSUME DP!IInv, HInv, FInv, NEW p \in Procs,
                        Unpacks(p), HeadMode(p), p \notin crossed
                 PROVE  since[p] <= NumberOf(got[p])
    BY DEF HeadFresh
  <2>2. /\ req[p] = ArchiveRequest(p) /\ ~Refused(p) /\ Fits(req[p].file, got[p])
        /\ This(p).host = "github" => headVersion[p] # NoVersion /\ headVersion[p][1] = This(p).repo
        /\ Fresh(p)
    BY <2>1 DEF Unpacks, HInv, FInv, RunInv, LinkOf
  <2>3. CASE This(p).host = "github"
    <3>1. req[p].file[2] = <<"commit", headVersion[p][2]>>
      BY <2>1, <2>2, <2>3, ArchiveRequestType DEF HInv
    <3>2. NumberOf(got[p]) = headVersion[p][2]
      BY <2>2, <3>1 DEF Fits, Archive, NumberOf
    <3>3. QED
      BY <2>1, <2>2, <2>3, <3>2 DEF Fresh, Unpacks
  <2>4. CASE This(p).host # "github"
    <3>1. req[p].file[2] = <<"head", 1>> /\ req[p].file[1] = This(p).repo
      BY <2>1, <2>2, <2>4, ArchiveRequestType DEF HInv
    <3>2. PICK n \in 1 .. tip[This(p).repo], form \in Forms :
                 got[p] = Archive(This(p).repo, n, form)
      BY <2>2, <3>1 DEF Fits
    <3>3. This(p).repo \in Repos /\ n \in Numbers
      BY <2>1, CallType, BoundAssumption DEF HInv, Numbers
    <3>4. Archive(This(p).repo, n, form) \in Contents
      BY <3>3 DEF Contents
    <3>5. got[p] # Garbage /\ got[p] # Absent
      BY <3>2, <3>3, <3>4, ValueAssumption, HashAssumption DEF Hashes
    <3>6. NotOlder(p, got[p])
      BY <2>1, <2>2, <2>4 DEF Fresh, FollowsBranch, Unpacks
    <3>7. QED
      BY <3>5, <3>6 DEF NotOlder
  <2>5. QED
    BY <2>3, <2>4
<1>2. QED
  BY <1>1, HInvAlways, FInvAlways, PTL

(* Which part of "Falling back to non-HEAD version." holds: vcpkg_from_github
   turns --head off for the call, so that it neither asks what a branch is at
   nor reports a version; FallbackIsNotHead fails for the other two only. *)
GithubFallsBack ==
  \A p \in Procs :
    stage[p] # "idle" /\ This(p).host = "github" /\ ~HeadMode(p) =>
      /\ stage[p] \notin {"version", "asking"}
      /\ Len(portfile[p]) = 1 => headVersion[p] = NoVersion

LEMMA FallbackKept ==
  ASSUME HInv, DP!IInv, GithubFallsBack, NEW p \in Procs, Step(p)
  PROVE  GithubFallsBack'
<1> DEFINE Falls(q) ==
      stage[q] # "idle" /\ This(q).host = "github" /\ ~HeadMode(q) =>
        /\ stage[q] \notin {"version", "asking"}
        /\ Len(portfile[q]) = 1 => headVersion[q] = NoVersion
<1>1. ASSUME NEW q \in Procs \ {p}
      PROVE  Falls(q)'
  <2>1. Same(q)
    BY OwnSteps
  <2>2. This(q)' = This(q) /\ HeadMode(q)' = HeadMode(q)
    BY <2>1, SameCall DEF Same
  <2>3. QED
    BY <2>1, <2>2 DEF Same, GithubFallsBack
<1>2. Falls(p)'
  <2>1. Falls(p) /\ LinkOf(p) /\ ScriptType
    BY DEF GithubFallsBack, HInv, RunInv
  <2>2. CASE \E f \in Portfiles, m \in Modes : Start(p, f, m)
    BY <2>1, <2>2 DEF Start, GoTo, ScriptType, LinkOf
  <2>3. CASE Enter(p)
    <3>1. /\ This(p)' = This(p) /\ HeadMode(p)' = HeadMode(p)
          /\ UNCHANGED <<portfile, headVersion>> /\ stage[p] = "enter"
      BY <2>3, SameCall DEF Enter, script
    <3>2. stage'[p] = "version" => AsksVersion(p)
      BY <2>1, <2>3 DEF Enter, GoTo, ScriptType
    <3>3. stage'[p] # "asking"
      BY <2>1, <2>3 DEF Enter, GoTo, ScriptType
    <3>4. QED
      BY <2>1, <3>1, <3>2, <3>3 DEF AsksVersion, HeadMode
  <2>4. CASE Downloading(p)
    <3>1. UNCHANGED <<portfile, mode, index, headVersion, stage>>
      BY <2>4 DEF Downloading, script
    <3>2. This(p)' = This(p) /\ HeadMode(p)' = HeadMode(p)
      BY <3>1, SameCall
    <3>3. QED
      BY <2>1, <3>1, <3>2
  <2>5. CASE ReadVersion(p)
    <3>1. This(p)' = This(p) /\ HeadMode(p)' = HeadMode(p) /\ stage[p] = "version"
      BY <2>5, SameCall DEF ReadVersion, script
    <3>2. QED
      BY <2>1, <3>1
  <2>6. CASE AskArchive(p)
    <3>1. /\ This(p)' = This(p) /\ HeadMode(p)' = HeadMode(p) /\ stage[p] = "asking"
      BY <2>6, SameCall DEF AskArchive, script
    <3>2. QED
      BY <2>1, <3>1
  <2>7. CASE Return(p)
    <3>1. UNCHANGED <<portfile, mode, headVersion>> /\ stage[p] = "archive"
          /\ stage'[p] \in {"enter", "done"}
      BY <2>1, <2>7 DEF Return, GoTo, ScriptType
    <3>2. SUFFICES ASSUME Len(portfile[p]) = 1, This(p)'.host = "github", ~HeadMode(p)'
                   PROVE  headVersion[p] = NoVersion
      BY <3>1
    <3>3. UNCHANGED index
      <4>1. index[p] \in 1 .. Len(portfile[p])
        BY <2>1 DEF ScriptType
      <4>2. QED
        BY <2>7, <3>2, <4>1 DEF Return
    <3>4. This(p)' = This(p) /\ HeadMode(p)' = HeadMode(p)
      BY <3>1, <3>3, SameCall
    <3>5. QED
      BY <2>1, <3>1, <3>2, <3>4
  <2>8. CASE Quit(p)
    BY <2>1, <2>8 DEF Quit, GoTo, ScriptType
  <2>9. QED
    BY <2>2, <2>3, <2>4, <2>5, <2>6, <2>7, <2>8 DEF Step
<1>3. QED
  BY <1>1, <1>2 DEF GithubFallsBack

(* vcpkg_from_github's fallback is what its message says. *)
THEOREM GithubFallsBackCorrect == Spec => []GithubFallsBack
<1>1. Init => GithubFallsBack
  BY DEF Init, GithubFallsBack
<1>2. ASSUME HInv, DP!IInv, GithubFallsBack, [Next]_vars
      PROVE  GithubFallsBack'
  <2>1. CASE UNCHANGED <<stage, portfile, mode, index, headVersion>>
    BY <1>2, <2>1 DEF GithubFallsBack, HeadMode, This
  <2>2. CASE \E p \in Procs : Step(p)
    BY <1>2, <2>2, FallbackKept
  <2>3. QED
    BY <1>2, <2>1, <2>2 DEF Next, Push, Delete, script, vars
<1>3. QED
  BY <1>1, <1>2, HInvAlways, PTL DEF Spec

(* What vcpkg_download_distfile promises of the cache holds when its callers
   are these: no download replaces a cached file but one that --head asked for
   or a contended one, and a retargeted name keeps to its hash. *)
THEOREM CallersKeepCache == Spec => DP!NoClobber /\ DP!RetargetSound
BY ImplementsDistfile, DistfileAssumptions, DP!NoClobberCorrect, DP!RetargetSoundCorrect, PTL
=============================================================================
