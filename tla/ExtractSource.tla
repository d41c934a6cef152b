--------------------------- MODULE ExtractSource ---------------------------
(***************************************************************************)
(* vcpkg_extract_source_archive, with z_vcpkg_apply_patches: a portfile    *)
(* unpacks an archive under its port's build tree, patches it, and builds  *)
(* from the directory the function returns.                                *)
(*                                                                         *)
(* The directory is named after a hash of the archive and the patches.     *)
(* Without --editable it gets the suffix ".clean" and is made anew by      *)
(* every call; with --editable a directory that is there is used as it     *)
(* is, with whatever the user changed in it.  Both are prepared in a       *)
(* directory with the suffix ".tmp" and renamed.                           *)
(*                                                                         *)
(* One root builds one port at a time, so there is one call under way; the *)
(* other actors are the user, who edits and deletes directories and kills  *)
(* runs, and other roots, which may replace an archive in DOWNLOADS.       *)
(*                                                                         *)
(* Data: a directory is described by the archive it was unpacked from, the *)
(* patches applied to it, whether it is the archive's top directory or the *)
(* directory around it, whether all of it is there, and by whom it was     *)
(* changed since.  The hash is the list of what it hashes.                 *)
(***************************************************************************)
EXTENDS Naturals, Sequences

CONSTANTS
  Archives,   \* paths of archives
  Contents,   \* what an archive may hold
  SingleRoot, \* the contents with one top-level directory and nothing else
  Patches,    \* contents of patch files
  Fits,       \* the pairs of a content and a patch that applies to it
  MissingPatch, \* a patch that the port does not have
  None,       \* no such file or directory
  Requests    \* the calls portfiles make

(* Refused whatever else is given: unknown arguments, no ARCHIVE, a relative
   WORKING_DIRECTORY, an absolute BASE_DIRECTORY, a SOURCE_BASE with slashes. *)
Refused == {"EXTRA", "NO_ARCHIVE", "RELATIVE_WORKING", "ABSOLUTE_BASE", "SLASHED_BASE"}

Request ==
  [archive : Archives, patches : Seq(Patches \union {MissingPatch}),
   options : SUBSET (Refused \union {"REF", "SOURCE_BASE", "WORKING_DIRECTORY",
                                     "BASE_DIRECTORY", "OLD_NAMES"}),
   editable : BOOLEAN, skipPatchCheck : BOOLEAN, noRemoveOneLevel : BOOLEAN]

ASSUME ContentAssumption ==
  /\ SingleRoot \subseteq Contents /\ Contents # {} /\ None \notin Contents
  /\ MissingPatch \notin Patches /\ Fits \subseteq Contents \X Patches

ASSUME RequestAssumption == Requests \subseteq Request /\ Requests # {}

Lists == {r.patches : r \in Requests}
Keys  == Contents \X Lists
Paths == Keys \X {"clean", "editable"}

Marks == {"build", "user"}
Tree  ==
  [archive : Contents \union {None}, patches : Seq(Patches), outer : BOOLEAN,
   whole : BOOLEAN, marks : SUBSET Marks]

ASSUME NoneAssumption == None \notin Tree \union Paths

VARIABLES
  cache,  \* DOWNLOADS: what every archive holds
  tree,   \* the source directories of the port
  temp,   \* the directories with the suffix ".tmp"
  pc, req,
  path,   \* source_path
  next,   \* the number of patches that were tried
  stale   \* directories whose archive was replaced while it was unpacked

vars == <<cache, tree, temp, pc, req, path, next, stale>>

Failed == {"badArguments", "noArchive", "noPatch", "tarFailed", "notUnwrapped",
           "patchFailed", "renameFailed"}
Active == {"clean", "prepare", "tar", "unwrap", "patch", "install", "tidy"}
Places == {"idle", "ready", "building"} \union Active \union Failed

-----------------------------------------------------------------------------
BadArguments(r) ==
  \/ "REF" \in r.options /\ ("OLD_NAMES" \notin r.options \/ "SOURCE_BASE" \in r.options)
  \/ {"WORKING_DIRECTORY", "BASE_DIRECTORY"} \subseteq r.options
  \/ Refused \intersect r.options # {}

Listed(r) == {r.patches[k] : k \in DOMAIN r.patches}

(* SOURCE_BASE-HASH, and ".clean" when not editable. *)
PathOf(r) ==
  <<<<cache[r.archive], r.patches>>, IF r.editable THEN "editable" ELSE "clean">>

Empty(outer) ==
  [archive |-> None, patches |-> <<>>, outer |-> outer, whole |-> FALSE, marks |-> {}]

(* git apply: a patch neither applies twice nor to what it was not made for. *)
Applies(t, patch) ==
  /\ <<t.archive, patch>> \in Fits
  /\ \A k \in DOMAIN t.patches : t.patches[k] # patch

NoRequest == CHOOSE r \in Requests : TRUE
NoPath    == CHOOSE d \in Paths : TRUE

Goto(place) == pc' = place

-----------------------------------------------------------------------------
Init ==
  /\ cache \in [Archives -> Contents]
  /\ tree = [d \in Paths |-> None]
  /\ temp = [d \in Paths |-> None]
  /\ pc = "idle" /\ req = NoRequest /\ path = NoPath /\ next = 0 /\ stale = {}

(* Mutant: a directory that is there is used without --editable too. *)
LookUpReusing(r) ==
  /\ path' = PathOf(r)
  /\ Goto(IF tree[PathOf(r)] # None THEN "ready" ELSE "prepare")
  /\ UNCHANGED stale

(* Mutant: sources are cleaned under --editable too. *)
LookUpCleaning(r) ==
  /\ path' = PathOf(r)
  /\ Goto(IF tree[PathOf(r)] # None THEN "clean" ELSE "prepare")
  /\ stale' = stale \ {PathOf(r)}

(* A directory that is there is used as it is, or cleaned. *)
LookUp(r) ==
  /\ path' = PathOf(r)
  /\ \/ /\ r.editable /\ tree[PathOf(r)] # None
        /\ Goto("ready") /\ UNCHANGED stale
     \/ /\ ~r.editable /\ tree[PathOf(r)] # None
        /\ Goto("clean") /\ stale' = stale \ {PathOf(r)}
     \/ /\ tree[PathOf(r)] = None
        /\ Goto("prepare") /\ stale' = stale \ {PathOf(r)}

(* The call begins: arguments, archive and patches are checked, the path is
   computed, and the directory looked for. *)
Call(r) ==
  /\ pc = "idle"
  /\ req' = r /\ next' = 0
  /\ \/ /\ BadArguments(r)
        /\ Goto("badArguments") /\ UNCHANGED <<path, stale>>
     \/ /\ ~BadArguments(r) /\ cache[r.archive] = None
        /\ Goto("noArchive") /\ UNCHANGED <<path, stale>>
     \/ /\ ~BadArguments(r) /\ cache[r.archive] # None /\ MissingPatch \in Listed(r)
        /\ Goto("noPatch") /\ UNCHANGED <<path, stale>>
     \/ /\ ~BadArguments(r) /\ cache[r.archive] # None /\ MissingPatch \notin Listed(r)
        /\ LookUp(r)
  /\ UNCHANGED <<cache, tree, temp>>

(* file(REMOVE_RECURSE source_path) removes one file after the other. *)
Clean ==
  /\ pc = "clean"
  /\ \/ tree' = [tree EXCEPT ![path] = Empty(FALSE)] /\ UNCHANGED pc
     \/ tree' = [tree EXCEPT ![path] = None] /\ Goto("prepare")
  /\ UNCHANGED <<cache, temp, req, path, next, stale>>

(* Mutant: the temporary directory is not removed before it is made. *)
PrepareKeeping ==
  /\ pc = "prepare"
  /\ temp' = IF temp[path] = None
             THEN [temp EXCEPT ![path] = Empty(req.noRemoveOneLevel)] ELSE temp
  /\ Goto("tar")
  /\ UNCHANGED <<cache, tree, req, path, next, stale>>

Prepare ==
  /\ pc = "prepare"
  /\ temp' = [temp EXCEPT ![path] = Empty(req.noRemoveOneLevel)]
  /\ Goto("tar")
  /\ UNCHANGED <<cache, tree, req, path, next, stale>>

(* cmake -E tar xjf: it may fail half way, and is fatal then. *)
Tar ==
  /\ pc = "tar"
  /\ \/ /\ cache[req.archive] # None
        /\ temp' = [temp EXCEPT ![path] =
                       [@ EXCEPT !.archive = cache[req.archive], !.whole = TRUE]]
        /\ Goto("unwrap")
     \/ Goto("tarFailed") /\ UNCHANGED temp
  /\ UNCHANGED <<cache, tree, req, path, next, stale>>

Unwrap ==
  /\ pc = "unwrap"
  /\ \/ /\ req.noRemoveOneLevel \/ temp[path].archive \in SingleRoot
        /\ Goto("patch")
     \/ /\ ~req.noRemoveOneLevel /\ temp[path].archive \notin SingleRoot
        /\ Goto("notUnwrapped")
  /\ UNCHANGED <<cache, tree, temp, req, path, next, stale>>

(* Mutant: the last patch of the list is not tried. *)
ApplyAllButLast ==
  LET patch == req.patches[next + 1] IN
  /\ pc = "patch"
  /\ IF next < Len(req.patches) - 1 /\ Applies(temp[path], patch)
     THEN /\ temp' = [temp EXCEPT ![path].patches = Append(@, patch)]
          /\ next' = next + 1 /\ UNCHANGED pc
     ELSE Goto("install") /\ UNCHANGED <<temp, next>>
  /\ UNCHANGED <<cache, tree, req, path, stale>>

(* Mutant: with SKIP_PATCH_CHECK, a patch that does not apply counts twice. *)
ApplyCountingTwice ==
  LET patch == req.patches[next + 1] IN
  /\ pc = "patch"
  /\ \/ /\ next = Len(req.patches)
        /\ Goto("install") /\ UNCHANGED <<temp, next>>
     \/ /\ next < Len(req.patches) /\ Applies(temp[path], patch)
        /\ temp' = [temp EXCEPT ![path].patches = Append(@, patch)]
        /\ next' = next + 1 /\ UNCHANGED pc
     \/ /\ next < Len(req.patches) /\ ~Applies(temp[path], patch)
        /\ next' = next + (IF req.skipPatchCheck THEN 2 ELSE 1) /\ UNCHANGED temp
        /\ IF req.skipPatchCheck THEN UNCHANGED pc ELSE Goto("patchFailed")
  /\ UNCHANGED <<cache, tree, req, path, stale>>

(* z_vcpkg_apply_patches: one patch, or the end of the loop. *)
ApplyPatch ==
  LET patch == req.patches[next + 1] IN
  /\ pc = "patch"
  /\ \/ /\ next = Len(req.patches)
        /\ Goto("install") /\ UNCHANGED <<temp, next>>
     \/ /\ next < Len(req.patches) /\ Applies(temp[path], patch)
        /\ temp' = [temp EXCEPT ![path].patches = Append(@, patch)]
        /\ next' = next + 1 /\ UNCHANGED pc
     \/ /\ next < Len(req.patches) /\ ~Applies(temp[path], patch)
        /\ next' = next + 1 /\ UNCHANGED temp
        /\ IF req.skipPatchCheck THEN UNCHANGED pc ELSE Goto("patchFailed")
  /\ UNCHANGED <<cache, tree, req, path, stale>>

(* file(RENAME temp_source_path source_path): a directory does not replace
   one that is there.  What was around the top directory stays. *)
Install ==
  /\ pc = "install"
  /\ IF tree[path] = None
     THEN /\ tree' = [tree EXCEPT ![path] = temp[path]]
          /\ temp' = [temp EXCEPT ![path] =
                        IF req.noRemoveOneLevel THEN None ELSE Empty(TRUE)]
          /\ Goto("tidy")
     ELSE Goto("renameFailed") /\ UNCHANGED <<tree, temp>>
  /\ UNCHANGED <<cache, req, path, next, stale>>

(* file(REMOVE_RECURSE temp_dir), and the path is returned. *)
Tidy ==
  /\ pc = "tidy"
  /\ temp' = [temp EXCEPT ![path] = None]
  /\ Goto("ready")
  /\ UNCHANGED <<cache, tree, req, path, next, stale>>

(* The portfile and the build change files of the source directory. *)
Build ==
  /\ pc \in {"ready", "building"}
  /\ tree' = [tree EXCEPT ![path].marks = @ \union {"build"}]
  /\ Goto("building")
  /\ UNCHANGED <<cache, temp, req, path, next, stale>>

(* The run ends, normally or not, or is killed. *)
Exit ==
  /\ pc # "idle"
  /\ Goto("idle")
  /\ req' = NoRequest /\ path' = NoPath /\ next' = 0
  /\ UNCHANGED <<cache, tree, temp, stale>>

(* The user changes the sources of a port under --editable, whether or not a
   build is running, and deletes directories when none is. *)
Edit(d) ==
  /\ tree[d] # None /\ d[2] = "editable"
  /\ tree' = [tree EXCEPT ![d].marks = @ \union {"user"}]
  /\ UNCHANGED <<cache, temp, pc, req, path, next, stale>>

Delete(d) ==
  /\ pc = "idle" /\ tree[d] # None
  /\ tree' = [tree EXCEPT ![d] = None]
  /\ UNCHANGED <<cache, temp, pc, req, path, next, stale>>

(* Another root downloads the archive again, or the user deletes it. *)
Replace(a, c) ==
  /\ cache[a] # c
  /\ cache' = [cache EXCEPT ![a] = c]
  /\ stale' = IF pc \in {"clean", "prepare", "tar"} /\ req.archive = a
              THEN stale \union {path} ELSE stale
  /\ UNCHANGED <<tree, temp, pc, req, path, next>>

Step ==
  \/ \E r \in Requests : Call(r)
  \/ Clean \/ Prepare \/ Tar \/ Unwrap \/ ApplyPatch \/ Install \/ Tidy
  \/ Build \/ Exit

Environment ==
  \/ \E d \in Paths : Edit(d) \/ Delete(d)
  \/ \E a \in Archives, c \in Contents \union {None} : Replace(a, c)

Next == Step \/ Environment

Spec == Init /\ [][Next]_vars

-----------------------------------------------------------------------------
TypeOK ==
  /\ cache \in [Archives -> Contents \union {None}]
  /\ tree \in [Paths -> Tree \union {None}]
  /\ temp \in [Paths -> Tree \union {None}]
  /\ pc \in Places
  /\ req \in Requests
  /\ path \in Paths
  /\ next \in 0 .. Len(req.patches)
  /\ stale \in SUBSET Paths

Applied(t) == {t.patches[k] : k \in DOMAIN t.patches}

(* The patches of a list that apply to a content. *)
Fitting(c, list) == {list[k] : k \in DOMAIN list} \intersect {q \in Patches : <<c, q>> \in Fits}

(* A call without --editable returns a directory that holds what the archive
   and the patches say and nothing else: all patches, in order, unless
   SKIP_PATCH_CHECK, and nothing of what builds, users and killed runs left
   behind earlier. *)
PristineBuild ==
  pc = "ready" /\ ~req.editable =>
    LET t == tree[path] IN
    /\ t # None
    /\ t.whole /\ t.marks = {} /\ t.outer = req.noRemoveOneLevel
    /\ path \notin stale => t.archive = path[1][1]
    /\ IF req.skipPatchCheck THEN Applied(t) = Fitting(t.archive, req.patches)
       ELSE t.patches = req.patches

(* A directory that an --editable build may find, and use as it is, is never
   half unpacked or half patched, wherever earlier runs were killed. *)
EditableWhole ==
  \A d \in Paths :
     d[2] = "editable" /\ tree[d] # None =>
       /\ tree[d].whole
       /\ Applied(tree[d]) = Fitting(tree[d].archive, d[1][2])
       /\ d \notin stale => tree[d].archive = d[1][1]

(* A call fails for what the archive and the patches are, or because tar
   failed, and never for what an earlier run left on the disk. *)
FailsForCause ==
  /\ pc # "renameFailed"
  /\ pc = "notUnwrapped" => temp[path].archive \notin SingleRoot
  /\ pc = "patchFailed" =>
       LET patch == req.patches[next] IN
       \/ <<temp[path].archive, patch>> \notin Fits
       \/ \E k \in 1 .. next - 1 : req.patches[k] = patch

(* While a portfile runs, no step takes away an --editable directory or undoes
   a change that was made to it. *)
EditsSurvive ==
  [][\A d \in Paths :
       d[2] = "editable" /\ tree[d] # None /\ pc # "idle" =>
         /\ tree'[d] # None
         /\ [tree'[d] EXCEPT !.marks = {}] = [tree[d] EXCEPT !.marks = {}]
         /\ tree[d].marks \subseteq tree'[d].marks]_vars

(* The directories as the builds see them: one that is being removed, or was
   not removed to the end, is no source directory any more. *)
Visible == [d \in Paths |-> IF tree[d] # None /\ tree[d].whole THEN tree[d] ELSE None]

Abstract ==
  INSTANCE SourceDirs WITH
    dirs <- Visible, served <- IF pc \in {"ready", "building"} THEN path ELSE None

(* With kills at every step, source directories appear and disappear in one
   step, and a build is served an untouched one, or one under --editable. *)
Implements == Abstract!Spec
=============================================================================
