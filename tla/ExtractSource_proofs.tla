------------------------ MODULE ExtractSource_proofs ------------------------
(***************************************************************************)
(* Proofs about ExtractSource, for any archives, patches and calls: its    *)
(* type, its safety properties, and that it implements SourceDirs.         *)
(*                                                                         *)
(* The inductive invariant IInv says, for every place inside the call,     *)
(* what the directories under the computed path are: nothing at the final  *)
(* name until the rename, an empty temporary directory at tar, and after   *)
(* it one that holds the archive with the patches that were tried and fit. *)
(***************************************************************************)
EXTENDS ExtractSource, TLAPS

Preparing == {"prepare", "tar", "unwrap", "patch", "install"}
Unpacked  == {"unwrap", "patch", "install"}
Serving   == {"tidy", "ready", "building"}

(* The patches among the first n of a list that fit a content. *)
FittingTo(c, list, n) == {list[k] : k \in 1 .. n} \intersect {q \in Patches : <<c, q>> \in Fits}

(* The path belongs to the call. *)
PathChecked ==
  pc \in Active \union Serving =>
    /\ path[1][2] = req.patches
    /\ path[2] = (IF req.editable THEN "editable" ELSE "clean")

(* What the places say about the loop, the final name and the archive. *)
Progress ==
  /\ pc \in {"clean", "prepare", "tar", "unwrap"} => next = 0
  /\ pc = "clean" => ~req.editable
  /\ pc = "install" => next = Len(req.patches)
  /\ pc \in Preparing => tree[path] = None
  /\ pc \in {"clean", "prepare", "tar"} /\ path \notin stale => cache[req.archive] = path[1][1]

(* The temporary directory holds the archive and the patches tried so far. *)
TempGood ==
  /\ temp[path] # None
  /\ temp[path].whole /\ temp[path].archive \in Contents /\ temp[path].marks = {}
  /\ temp[path].outer = req.noRemoveOneLevel
  /\ path \notin stale => temp[path].archive = path[1][1]
  /\ Applied(temp[path]) = FittingTo(temp[path].archive, req.patches, next)
  /\ ~req.skipPatchCheck =>
       Len(temp[path].patches) = next /\ \A k \in 1 .. next : temp[path].patches[k] = req.patches[k]

Temps ==
  /\ pc = "tar" => temp[path] = Empty(req.noRemoveOneLevel)
  /\ pc \in Unpacked => TempGood

(* EditableWhole, one directory at a time. *)
WholeOne(d) ==
  d[2] = "editable" /\ tree[d] # None =>
    /\ tree[d].whole
    /\ Applied(tree[d]) = Fitting(tree[d].archive, d[1][2])
    /\ d \notin stale => tree[d].archive = d[1][1]

Trees == \A d \in Paths : WholeOne(d)

(* The directory that is returned. *)
PristineTree ==
  /\ tree[path].archive \in Contents
  /\ tree[path].marks = {} /\ tree[path].outer = req.noRemoveOneLevel
  /\ path \notin stale => tree[path].archive = path[1][1]
  /\ Applied(tree[path]) = Fitting(tree[path].archive, req.patches)
  /\ ~req.skipPatchCheck => tree[path].patches = req.patches

Served ==
  /\ pc \in Serving => tree[path] # None /\ tree[path].whole
  /\ pc \in {"tidy", "ready"} /\ ~req.editable => PristineTree

IInv ==
  /\ TypeOK /\ PathChecked /\ Progress /\ Temps /\ Trees /\ Served /\ FailsForCause

-----------------------------------------------------------------------------
(* Lemmas on the data. *)

LEMMA RequestType ==
  ASSUME NEW r \in Requests
  PROVE  /\ r \in Request /\ r.archive \in Archives /\ r.editable \in BOOLEAN
         /\ r.noRemoveOneLevel \in BOOLEAN
         /\ r.patches \in Seq(Patches \union {MissingPatch}) /\ r.patches \in Lists
BY RequestAssumption DEF Request, Lists

LEMMA NoRequestType == NoRequest \in Requests /\ NoPath \in Paths
<1>1. NoRequest \in Requests
  BY RequestAssumption DEF NoRequest
<1>2. \E d \in Paths : TRUE
  <2>1. PICK c \in Contents : TRUE
    BY ContentAssumption
  <2>2. <<<<c, NoRequest.patches>>, "clean">> \in Paths
    BY <1>1, <2>1, RequestType DEF Paths, Keys
  <2>3. QED
    BY <2>2
<1>3. QED
  BY <1>1, <1>2 DEF NoPath

LEMMA PathType ==
  ASSUME TypeOK, NEW r \in Requests, cache[r.archive] # None
  PROVE  /\ PathOf(r) \in Paths
         /\ PathOf(r)[1][1] = cache[r.archive] /\ PathOf(r)[1][2] = r.patches
         /\ PathOf(r)[2] = (IF r.editable THEN "editable" ELSE "clean")
<1>1. cache[r.archive] \in Contents
  BY RequestType DEF TypeOK
<1>2. QED
  BY <1>1, RequestType DEF PathOf, Paths, Keys

LEMMA EmptyType ==
  ASSUME NEW o \in BOOLEAN
  PROVE  Empty(o) \in Tree /\ Empty(o) # None /\ ~Empty(o).whole
<1>1. <<>> \in Seq(Patches)
  OBVIOUS
<1>2. Empty(o) \in Tree
  BY <1>1 DEF Empty, Tree
<1>3. QED
  BY <1>2, NoneAssumption DEF Empty

(* One more patch of the list, and whether it fits. *)
LEMMA FittingNext ==
  ASSUME NEW c, NEW list \in Seq(Patches \union {MissingPatch}),
         NEW n \in Nat, n < Len(list)
  PROVE  FittingTo(c, list, n + 1) =
           FittingTo(c, list, n) \union ({list[n + 1]} \intersect {q \in Patches : <<c, q>> \in Fits})
<1>1. {list[k] : k \in 1 .. n + 1} = {list[k] : k \in 1 .. n} \union {list[n + 1]}
  OBVIOUS
<1>2. QED
  BY <1>1 DEF FittingTo

LEMMA FittingAll ==
  ASSUME NEW c, NEW list \in Seq(Patches \union {MissingPatch})
  PROVE  FittingTo(c, list, Len(list)) = Fitting(c, list)
BY DEF FittingTo, Fitting

LEMMA AppliedAppend ==
  ASSUME NEW t \in Tree, NEW q \in Patches
  PROVE  LET u == [t EXCEPT !.patches = Append(@, q)] IN
         /\ u \in Tree /\ Applied(u) = Applied(t) \union {q}
         /\ u.patches = Append(t.patches, q)
<1> DEFINE u == [t EXCEPT !.patches = Append(@, q)]
<1>1. t.patches \in Seq(Patches)
  BY DEF Tree
<1>2. u.patches = Append(t.patches, q) /\ u \in Tree
  BY <1>1 DEF Tree
<1>3. {Append(t.patches, q)[k] : k \in DOMAIN Append(t.patches, q)}
        = {t.patches[k] : k \in DOMAIN t.patches} \union {q}
  BY <1>1
<1>4. QED
  BY <1>2, <1>3 DEF Applied

LEMMA MarkType ==
  ASSUME NEW t \in Tree, NEW m \in Marks
  PROVE  LET u == [t EXCEPT !.marks = @ \union {m}] IN
         /\ u \in Tree /\ u # None /\ Applied(u) = Applied(t)
         /\ u.whole = t.whole /\ u.archive = t.archive
         /\ u.marks = t.marks \union {m}
         /\ [u EXCEPT !.marks = {}] = [t EXCEPT !.marks = {}]
<1> DEFINE u == [t EXCEPT !.marks = @ \union {m}]
<1>1. u \in Tree
  BY DEF Tree
<1>2. /\ u.whole = t.whole /\ u.archive = t.archive /\ u.patches = t.patches
      /\ u.marks = t.marks \union {m}
  BY DEF Tree
<1>3. [u EXCEPT !.marks = {}] = [t EXCEPT !.marks = {}]
  BY DEF Tree
<1>4. QED
  BY <1>1, <1>2, <1>3, NoneAssumption DEF Applied

-----------------------------------------------------------------------------
(* Every action keeps IInv.  Where nothing but the place changes, the parts
   follow from those of the place before. *)

LEMMA InvAtStart == Init => IInv
<1> SUFFICES ASSUME Init PROVE IInv
  OBVIOUS
<1> USE DEF Init
<1>1. NoRequest \in Requests /\ NoRequest.patches \in Seq(Patches \union {MissingPatch})
  BY NoRequestType, RequestType
<1>2. TypeOK
  BY <1>1, NoRequestType DEF TypeOK, Places
<1>3. PathChecked /\ Progress /\ Temps /\ Served
  BY DEF PathChecked, Progress, Temps, Served, Active, Preparing, Unpacked, Serving
<1>4. Trees /\ FailsForCause
  BY DEF Trees, WholeOne, FailsForCause
<1>5. QED
  BY <1>2, <1>3, <1>4 DEF IInv

LEMMA CallKeeps ==
  ASSUME IInv, NEW r \in Requests, Call(r)
  PROVE  IInv'
<1> USE DEF IInv, Call, Goto
<1>1. /\ req' = r /\ next' = 0 /\ path' \in {path, PathOf(r)}
      /\ UNCHANGED <<cache, tree, temp>>
      /\ r.patches \in Seq(Patches \union {MissingPatch}) /\ 0 \in 0 .. Len(r.patches)
  BY RequestType DEF LookUp
<1>2. CASE pc' \in {"badArguments", "noArchive", "noPatch"}
  <2>1. path' = path /\ stale' = stale
    BY <1>2 DEF LookUp
  <2>2. TypeOK'
    BY <1>1, <1>2, <2>1 DEF TypeOK, Places, Failed
  <2>3. (PathChecked /\ Progress /\ Temps /\ Served /\ FailsForCause)'
    BY <1>2 DEF PathChecked, Progress, Temps, Served, FailsForCause,
                Active, Preparing, Unpacked, Serving
  <2>4. Trees'
    BY <1>1, <2>1 DEF Trees, WholeOne
  <2>5. QED
    BY <2>2, <2>3, <2>4
<1>3. CASE cache[r.archive] # None /\ LookUp(r)
  <2>1. PathOf(r) \in Paths /\ PathOf(r)[1][1] = cache[r.archive]
        /\ PathOf(r)[1][2] = r.patches /\ path' = PathOf(r)
        /\ PathOf(r)[2] = (IF r.editable THEN "editable" ELSE "clean")
    BY <1>3, PathType DEF LookUp
  <2>2. pc' \in {"ready", "clean", "prepare"} /\ stale' \in SUBSET Paths
    BY <1>3 DEF LookUp, TypeOK
  <2>3. TypeOK'
    BY <1>1, <2>1, <2>2 DEF TypeOK, Places, Active
  <2>4. PathChecked'
    BY <1>1, <2>1 DEF PathChecked
  <2>5. Progress'
    BY <1>1, <1>3, <2>1, <2>2 DEF LookUp, Progress, Preparing
  <2>6. Temps' /\ FailsForCause'
    BY <2>2 DEF Temps, Unpacked, FailsForCause
  <2>7. Trees'
    <3> SUFFICES ASSUME NEW d \in Paths PROVE WholeOne(d)'
      BY DEF Trees
    <3>1. WholeOne(d)
      BY DEF Trees
    <3>2. CASE stale' = stale
      BY <1>1, <3>1, <3>2 DEF WholeOne
    <3>3. CASE stale' = stale \ {PathOf(r)} /\ (~r.editable \/ tree[PathOf(r)] = None)
      <4>1. d = PathOf(r) => d[2] # "editable" \/ tree[d] = None
        BY <2>1, <3>3
      <4>2. QED
        BY <1>1, <3>1, <3>3, <4>1 DEF WholeOne
    <3>4. QED
      BY <1>3, <3>2, <3>3 DEF LookUp
  <2>8. Served'
    <3>1. CASE pc' = "ready"
      <4>1. r.editable /\ tree[PathOf(r)] # None
        BY <1>3, <3>1 DEF LookUp
      <4>2. WholeOne(PathOf(r))
        BY <2>1 DEF Trees
      <4>3. QED
        BY <1>1, <2>1, <3>1, <4>1, <4>2 DEF Served, WholeOne, Serving
    <3>2. CASE pc' # "ready"
      BY <2>2, <3>2 DEF Served, Serving
    <3>3. QED
      BY <3>1, <3>2
  <2>9. QED
    BY <2>3, <2>4, <2>5, <2>6, <2>7, <2>8
<1>4. QED
  BY <1>2, <1>3

LEMMA CleanKeeps ==
  ASSUME IInv, Clean
  PROVE  IInv'
<1> USE DEF IInv, Clean, Goto
<1> DEFINE gone == tree' = [tree EXCEPT ![path] = None] /\ pc' = "prepare"
           half == tree' = [tree EXCEPT ![path] = Empty(FALSE)] /\ pc' = "clean"
<1>1. gone \/ half
  OBVIOUS
<1>2. path \in Paths /\ tree \in [Paths -> Tree \union {None}] /\ Empty(FALSE) \in Tree
      /\ ~req.editable /\ path[2] = "clean"
  BY EmptyType DEF TypeOK, Progress, PathChecked, Active
<1>3. TypeOK'
  BY <1>1, <1>2 DEF TypeOK, Places, Active
<1>4. PathChecked' /\ Progress'
  BY <1>1, <1>2 DEF PathChecked, Progress, Active, Preparing
<1>5. Temps' /\ Served' /\ FailsForCause'
  BY <1>1 DEF Temps, Served, FailsForCause, Unpacked, Serving
<1>6. Trees'
  <2> SUFFICES ASSUME NEW d \in Paths PROVE WholeOne(d)'
    BY DEF Trees
  <2>1. d[2] = "editable" => tree'[d] = tree[d]
    BY <1>1, <1>2
  <2>2. QED
    BY <2>1 DEF Trees, WholeOne
<1>7. QED
  BY <1>3, <1>4, <1>5, <1>6

LEMMA PrepareKeeps ==
  ASSUME IInv, Prepare
  PROVE  IInv'
<1> USE DEF IInv, Prepare, Goto
<1>1. path \in Paths /\ Empty(req.noRemoveOneLevel) \in Tree
  BY EmptyType, RequestType DEF TypeOK
<1>2. TypeOK'
  BY <1>1 DEF TypeOK, Places, Active
<1>3. PathChecked' /\ Progress'
  BY DEF PathChecked, Progress, Active, Preparing
<1>4. Temps' /\ Served' /\ FailsForCause'
  BY <1>1 DEF Temps, Served, FailsForCause, Unpacked, Serving, TypeOK
<1>5. Trees'
  BY DEF Trees, WholeOne
<1>6. QED
  BY <1>2, <1>3, <1>4, <1>5

LEMMA TarKeeps ==
  ASSUME IInv, Tar
  PROVE  IInv'
<1> USE DEF IInv, Tar, Goto
<1>1. /\ path \in Paths /\ temp \in [Paths -> Tree \union {None}]
      /\ temp[path] = Empty(req.noRemoveOneLevel) /\ temp[path] \in Tree
      /\ next = 0
  BY EmptyType, RequestType DEF TypeOK, Temps, Progress
<1>2. CASE pc' = "tarFailed"
  <2>1. TypeOK'
    BY <1>2 DEF TypeOK, Places, Failed
  <2>2. (PathChecked /\ Progress /\ Temps /\ Served /\ FailsForCause)'
    BY <1>2 DEF PathChecked, Progress, Temps, Served, FailsForCause,
                Active, Preparing, Unpacked, Serving
  <2>3. Trees'
    BY DEF Trees, WholeOne
  <2>4. QED
    BY <2>1, <2>2, <2>3
<1>3. CASE /\ pc' = "unwrap" /\ cache[req.archive] # None
           /\ temp' = [temp EXCEPT ![path] =
                          [@ EXCEPT !.archive = cache[req.archive], !.whole = TRUE]]
  <2>1. cache[req.archive] \in Contents
    BY <1>3, RequestType DEF TypeOK
  <2>2. /\ temp'[path].archive = cache[req.archive] /\ temp'[path].whole
        /\ temp'[path].patches = <<>> /\ temp'[path].marks = {}
        /\ temp'[path].outer = req.noRemoveOneLevel
    BY <1>1, <1>3 DEF Empty
  <2>3. temp'[path] \in Tree
    <3> DEFINE u == [temp[path] EXCEPT !.archive = cache[req.archive], !.whole = TRUE]
    <3>1. u \in Tree
      BY <1>1, <2>1 DEF Tree
    <3>2. temp' = [temp EXCEPT ![path] = u]
      BY <1>3
    <3> HIDE DEF u
    <3>3. temp'[path] = u
      BY <1>1, <3>2
    <3>4. QED
      BY <3>1, <3>3
  <2>4. TypeOK'
    BY <1>1, <1>3, <2>3 DEF TypeOK, Places, Active
  <2>5. PathChecked' /\ Progress'
    BY <1>3 DEF PathChecked, Progress, Active, Preparing
  <2>6. Applied(temp'[path]) = {}
    BY <2>2 DEF Applied
  <2>7. FittingTo(temp'[path].archive, req.patches, 0) = {}
    BY DEF FittingTo
  <2>8. TempGood'
    <3>1. UNCHANGED <<cache, tree, req, path, next, stale>> /\ pc = "tar"
      OBVIOUS
    <3>2. path \notin stale => temp'[path].archive = path[1][1]
      BY <2>2, <3>1 DEF Progress
    <3>3. Len(temp'[path].patches) = 0 /\ temp'[path] # None
      BY <2>2, <2>3, NoneAssumption
    <3>4. Applied(temp'[path]) = FittingTo(temp'[path].archive, req.patches, 0)
      BY <2>6, <2>7
    <3> HIDE DEF Tar, IInv
    <3>5. QED
      BY <1>1, <2>1, <2>2, <3>1, <3>2, <3>3, <3>4 DEF TempGood, Applied, FittingTo
  <2>9. Temps' /\ Served' /\ FailsForCause'
    BY <1>3, <2>8 DEF Temps, Served, FailsForCause, Serving
  <2>10. Trees'
    BY DEF Trees, WholeOne
  <2>11. QED
    BY <2>4, <2>5, <2>9, <2>10
<1>4. QED
  BY <1>2, <1>3

LEMMA UnwrapKeeps ==
  ASSUME IInv, Unwrap
  PROVE  IInv'
<1> USE DEF IInv, Unwrap, Goto
<1>1. TypeOK'
  BY DEF TypeOK, Places, Active, Failed
<1>2. PathChecked' /\ Progress' /\ Served' /\ Trees'
  BY DEF PathChecked, Progress, Active, Preparing, Served, Serving, Trees, WholeOne
<1>3. Temps'
  BY DEF Temps, TempGood, Unpacked
<1>4. FailsForCause'
  BY DEF FailsForCause
<1>5. QED
  BY <1>1, <1>2, <1>3, <1>4

LEMMA ApplyPatchKeeps ==
  ASSUME IInv, ApplyPatch
  PROVE  IInv'
<1> DEFINE patch == req.patches[next + 1]
           t     == temp[path]
<1>1. /\ UNCHANGED <<cache, tree, req, path, stale>> /\ pc = "patch"
      /\ path \in Paths /\ temp \in [Paths -> Tree \union {None}]
      /\ req.patches \in Seq(Patches \union {MissingPatch})
      /\ next \in 0 .. Len(req.patches) /\ next \in Nat
      /\ TempGood /\ t \in Tree /\ tree[path] = None
  BY RequestType DEF ApplyPatch, IInv, TypeOK, Temps, TempGood, Unpacked, Progress, Preparing
<1>2. ASSUME pc' \in {"patch", "install", "patchFailed"}
      PROVE  PathChecked' /\ Served' /\ Trees'
  BY <1>1, <1>2 DEF IInv, PathChecked, Active, Served, Serving, Trees, WholeOne
<1>3. ASSUME next < Len(req.patches)
      PROVE  FittingTo(t.archive, req.patches, next + 1) =
               FittingTo(t.archive, req.patches, next)
                 \union ({patch} \intersect {q \in Patches : <<t.archive, q>> \in Fits})
  <2> HIDE DEF t
  <2>1. QED
    BY <1>1, <1>3, FittingNext
<1>4. CASE next = Len(req.patches) /\ pc' = "install" /\ UNCHANGED <<temp, next>>
  <2>1. TypeOK'
    BY <1>1, <1>4 DEF IInv, TypeOK, Places, Active
  <2>2. Progress' /\ Temps' /\ FailsForCause'
    BY <1>1, <1>4 DEF Progress, Preparing, Temps, TempGood, FailsForCause
  <2>3. QED
    BY <1>2, <1>4, <2>1, <2>2 DEF IInv
<1>5. CASE /\ next < Len(req.patches) /\ Applies(t, patch)
           /\ temp' = [temp EXCEPT ![path].patches = Append(@, patch)]
           /\ next' = next + 1 /\ pc' = pc
  <2> DEFINE u == [t EXCEPT !.patches = Append(@, patch)]
  <2>1. patch \in Patches /\ <<t.archive, patch>> \in Fits
    BY <1>5, ContentAssumption DEF Applies
  <2>2. /\ u \in Tree /\ u # None /\ Applied(u) = Applied(t) \union {patch}
        /\ u.patches = Append(t.patches, patch)
    <3>1. t \in Tree /\ patch \in Patches
      BY <1>1, <2>1
    <3> HIDE DEF t, patch
    <3>2. u \in Tree /\ Applied(u) = Applied(t) \union {patch} /\ u.patches = Append(t.patches, patch)
      BY <3>1, AppliedAppend
    <3>3. QED
      BY <3>2, NoneAssumption
  <2>3. /\ u.whole = t.whole /\ u.archive = t.archive /\ u.marks = t.marks
        /\ u.outer = t.outer
    BY <1>1 DEF Tree
  <2>4. temp' = [temp EXCEPT ![path] = u]
    BY <1>5
  <2> HIDE DEF u
  <2>5. temp'[path] = u
    BY <1>1, <2>4
  <2>6. TypeOK'
    BY <1>1, <1>5, <2>2, <2>4 DEF IInv, TypeOK
  <2>7. Applied(u) = FittingTo(u.archive, req.patches, next + 1)
    <3>1. FittingTo(t.archive, req.patches, next + 1)
            = FittingTo(t.archive, req.patches, next) \union {patch}
      BY <1>5, <1>3, <2>1 DEF Applies
    <3>2. QED
      BY <1>1, <2>2, <2>3, <3>1 DEF TempGood
  <2>8. ~req.skipPatchCheck =>
          Len(u.patches) = next + 1 /\ \A k \in 1 .. next + 1 : u.patches[k] = req.patches[k]
    <3>1. t.patches \in Seq(Patches)
      BY <1>1 DEF Tree
    <3>2. QED
      BY <1>1, <2>1, <2>2, <3>1 DEF TempGood
  <2>9. TempGood'
    BY <1>1, <1>5, <2>2, <2>3, <2>5, <2>7, <2>8 DEF TempGood
  <2>10. Progress' /\ Temps' /\ FailsForCause'
    BY <1>1, <1>5, <2>9 DEF Progress, Preparing, Temps, FailsForCause
  <2>11. QED
    BY <1>1, <1>2, <1>5, <2>6, <2>10 DEF IInv
<1>6. CASE /\ next < Len(req.patches) /\ ~Applies(t, patch)
           /\ next' = next + 1 /\ UNCHANGED temp
           /\ IF req.skipPatchCheck THEN pc' = pc ELSE pc' = "patchFailed"
  <2>1. TypeOK'
    BY <1>1, <1>6 DEF IInv, TypeOK, Places, Failed
  <2>2. <<t.archive, patch>> \in Fits => patch \in FittingTo(t.archive, req.patches, next)
    BY <1>1, <1>6 DEF Applies, Applied, TempGood
  <2>3. FittingTo(t.archive, req.patches, next + 1) = FittingTo(t.archive, req.patches, next)
    BY <1>6, <1>3, <2>2
  <2>4. CASE req.skipPatchCheck
    <3>1. TempGood'
      BY <1>1, <1>6, <2>3, <2>4 DEF TempGood, Applied
    <3>2. Progress' /\ Temps' /\ FailsForCause'
      BY <1>1, <1>6, <2>4, <3>1 DEF Progress, Preparing, Temps, FailsForCause
    <3>3. QED
      BY <1>1, <1>2, <1>6, <2>1, <2>4, <3>2 DEF IInv
  <2>5. CASE ~req.skipPatchCheck
    <3>1. <<t.archive, patch>> \in Fits => \E k \in 1 .. next : req.patches[k] = patch
      BY <1>1, <2>2 DEF FittingTo
    <3>2. FailsForCause'
      BY <1>1, <1>6, <2>5, <3>1 DEF FailsForCause
    <3>3. Progress' /\ Temps'
      BY <1>6, <2>5 DEF Progress, Preparing, Temps, Unpacked
    <3>4. QED
      BY <1>1, <1>2, <1>6, <2>1, <2>5, <3>2, <3>3 DEF IInv
  <2>6. QED
    BY <2>4, <2>5
<1>7. QED
  BY <1>4, <1>5, <1>6 DEF ApplyPatch, Goto

LEMMA InstallKeeps ==
  ASSUME IInv, Install
  PROVE  IInv'
<1>1. /\ UNCHANGED <<cache, req, path, next, stale>> /\ pc = "install" /\ pc' = "tidy"
      /\ path \in Paths /\ temp \in [Paths -> Tree \union {None}]
      /\ tree \in [Paths -> Tree \union {None}]
      /\ tree' = [tree EXCEPT ![path] = temp[path]]
      /\ temp' = [temp EXCEPT ![path] = IF req.noRemoveOneLevel THEN None ELSE Empty(TRUE)]
      /\ TempGood /\ temp[path] \in Tree /\ next = Len(req.patches)
      /\ req.patches \in Seq(Patches \union {MissingPatch})
  BY RequestType
     DEF Install, Goto, IInv, TypeOK, Temps, TempGood, Unpacked, Progress, Preparing
<1>2. path[1][2] = req.patches /\ path[2] = (IF req.editable THEN "editable" ELSE "clean")
  BY <1>1 DEF IInv, PathChecked, Active
<1>3. Applied(temp[path]) = Fitting(temp[path].archive, req.patches)
  BY <1>1, FittingAll DEF TempGood
<1>4. ~req.skipPatchCheck => temp[path].patches = req.patches
  <2>1. temp[path].patches \in Seq(Patches)
    BY <1>1 DEF Tree
  <2>2. QED
    BY <1>1, <2>1 DEF TempGood
<1>5. TypeOK'
  <2>1. Empty(TRUE) \in Tree
    BY EmptyType
  <2>2. QED
    BY <1>1, <2>1 DEF IInv, TypeOK, Places, Active
<1>6. PathChecked' /\ Progress' /\ Temps' /\ FailsForCause'
  BY <1>1, <1>2 DEF PathChecked, Progress, Preparing, Temps, Unpacked, FailsForCause
<1>7. tree'[path] = temp[path]
  BY <1>1
<1>8. Trees'
  <2> SUFFICES ASSUME NEW d \in Paths PROVE WholeOne(d)'
    BY DEF Trees
  <2>1. CASE d = path
    BY <1>1, <1>2, <1>3, <1>7, <2>1 DEF WholeOne, TempGood
  <2>2. CASE d # path
    BY <1>1, <2>2 DEF IInv, Trees, WholeOne
  <2>3. QED
    BY <2>1, <2>2
<1>9. Served'
  BY <1>1, <1>3, <1>4, <1>7 DEF Served, PristineTree, TempGood
<1>10. QED
  BY <1>5, <1>6, <1>8, <1>9 DEF IInv

LEMMA TidyKeeps ==
  ASSUME IInv, Tidy
  PROVE  IInv'
<1> USE DEF IInv, Tidy, Goto
<1>1. TypeOK'
  BY DEF TypeOK, Places
<1>2. PathChecked' /\ Progress' /\ Temps' /\ FailsForCause'
  BY DEF PathChecked, Active, Serving, Progress, Preparing, Temps, Unpacked, FailsForCause
<1>3. Trees' /\ Served'
  BY DEF Trees, WholeOne, Served, Serving, PristineTree
<1>4. QED
  BY <1>1, <1>2, <1>3

(* What a change of files does to the directory it happens in. *)
LEMMA ChangeType ==
  ASSUME IInv, NEW d \in Paths, tree[d] # None, NEW m \in Marks,
         tree' = [tree EXCEPT ![d].marks = @ \union {m}], UNCHANGED stale
  PROVE  /\ tree' \in [Paths -> Tree \union {None}] /\ Trees'
         /\ tree'[d] # None /\ tree'[d].whole = tree[d].whole
         /\ tree'[d].marks = tree[d].marks \union {m}
         /\ [tree'[d] EXCEPT !.marks = {}] = [tree[d] EXCEPT !.marks = {}]
         /\ \A e \in Paths \ {d} : tree'[e] = tree[e]
<1> DEFINE u == [tree[d] EXCEPT !.marks = @ \union {m}]
<1>1. tree \in [Paths -> Tree \union {None}] /\ tree[d] \in Tree
  BY DEF IInv, TypeOK
<1>2. /\ u \in Tree /\ u # None /\ Applied(u) = Applied(tree[d])
      /\ u.whole = tree[d].whole /\ u.archive = tree[d].archive
      /\ u.marks = tree[d].marks \union {m}
      /\ [u EXCEPT !.marks = {}] = [tree[d] EXCEPT !.marks = {}]
  BY <1>1, MarkType
<1>3. tree' = [tree EXCEPT ![d] = u]
  OBVIOUS
<1> HIDE DEF u
<1>4. tree'[d] = u /\ \A e \in Paths \ {d} : tree'[e] = tree[e]
  BY <1>1, <1>3
<1>5. tree' \in [Paths -> Tree \union {None}]
  BY <1>1, <1>2, <1>3
<1>6. Trees'
  <2> SUFFICES ASSUME NEW e \in Paths PROVE WholeOne(e)'
    BY DEF Trees
  <2>1. WholeOne(e)
    BY DEF IInv, Trees
  <2>2. CASE e = d
    BY <1>2, <1>4, <2>1, <2>2 DEF WholeOne
  <2>3. CASE e # d
    BY <1>4, <2>1, <2>3 DEF WholeOne
  <2>4. QED
    BY <2>2, <2>3
<1>7. QED
  BY <1>2, <1>4, <1>5, <1>6

LEMMA BuildKeeps ==
  ASSUME IInv, Build
  PROVE  IInv'
<1>1. /\ path \in Paths /\ tree[path] # None /\ tree[path].whole /\ "build" \in Marks
      /\ tree' = [tree EXCEPT ![path].marks = @ \union {"build"}] /\ UNCHANGED stale
      /\ pc' = "building" /\ UNCHANGED <<cache, temp, req, path, next>>
      /\ pc \in {"ready", "building"}
  BY DEF IInv, TypeOK, Served, Serving, Build, Goto, Marks
<1>2. tree' \in [Paths -> Tree \union {None}] /\ Trees' /\ tree'[path] # None /\ tree'[path].whole
  BY <1>1, ChangeType
<1>3. TypeOK'
  BY <1>1, <1>2 DEF IInv, TypeOK, Places
<1>4. PathChecked' /\ Progress' /\ Temps' /\ Served' /\ FailsForCause'
  BY <1>1, <1>2 DEF IInv, PathChecked, Serving, Progress, Preparing, Temps, Unpacked,
                    Served, FailsForCause
<1>5. QED
  BY <1>2, <1>3, <1>4 DEF IInv

LEMMA EditKeeps ==
  ASSUME IInv, NEW d \in Paths, Edit(d)
  PROVE  IInv'
<1>1. /\ tree[d] # None /\ d[2] = "editable" /\ "user" \in Marks
      /\ tree' = [tree EXCEPT ![d].marks = @ \union {"user"}] /\ UNCHANGED stale
      /\ UNCHANGED <<cache, temp, pc, req, path, next>>
      /\ path \in Paths
  BY DEF Edit, Marks, IInv, TypeOK
<1>2. /\ tree' \in [Paths -> Tree \union {None}] /\ Trees'
      /\ tree'[d] # None /\ tree'[d].whole = tree[d].whole
      /\ \A e \in Paths \ {d} : tree'[e] = tree[e]
  BY <1>1, ChangeType
<1>3. TypeOK'
  BY <1>1, <1>2 DEF IInv, TypeOK
<1>4. PathChecked'
  BY <1>1 DEF IInv, PathChecked
<1>5. Progress'
  <2>1. pc \in Preparing => d # path
    BY <1>1 DEF IInv, Progress
  <2>2. QED
    BY <1>1, <1>2, <2>1 DEF IInv, Progress
<1>6. Temps' /\ FailsForCause'
  BY <1>1 DEF IInv, Temps, TempGood, FailsForCause
<1>7. Served'
  <2>1. pc \in {"tidy", "ready"} /\ ~req.editable => d # path
    BY <1>1 DEF IInv, PathChecked, Serving
  <2>2. CASE d = path
    BY <1>1, <1>2, <2>1, <2>2 DEF IInv, Served
  <2>3. CASE d # path
    BY <1>1, <1>2, <2>3 DEF IInv, Served, PristineTree
  <2>4. QED
    BY <2>2, <2>3
<1>8. QED
  BY <1>2, <1>3, <1>4, <1>5, <1>6, <1>7 DEF IInv

LEMMA DeleteKeeps ==
  ASSUME IInv, NEW d \in Paths, Delete(d)
  PROVE  IInv'
<1> USE DEF IInv, Delete
<1>1. TypeOK'
  BY DEF TypeOK
<1>2. PathChecked' /\ Progress' /\ Temps' /\ Served' /\ FailsForCause'
  BY DEF PathChecked, Progress, Temps, Served, FailsForCause, Active, Preparing,
         Unpacked, Serving
<1>3. Trees'
  <2> SUFFICES ASSUME NEW e \in Paths PROVE WholeOne(e)'
    BY DEF Trees
  <2>1. tree'[e] = None \/ tree'[e] = tree[e]
    BY DEF TypeOK
  <2>2. QED
    BY <2>1 DEF Trees, WholeOne
<1>4. QED
  BY <1>1, <1>2, <1>3

LEMMA ExitKeeps ==
  ASSUME IInv, Exit
  PROVE  IInv'
<1> USE DEF IInv, Exit, Goto
<1>1. NoRequest.patches \in Seq(Patches \union {MissingPatch}) /\ NoPath \in Paths
      /\ NoRequest \in Requests
  BY NoRequestType, RequestType
<1>2. TypeOK'
  BY <1>1 DEF TypeOK, Places
<1>3. PathChecked' /\ Progress' /\ Temps' /\ Served' /\ FailsForCause'
  BY DEF PathChecked, Progress, Temps, Served, FailsForCause, Active, Preparing,
         Unpacked, Serving
<1>4. Trees'
  BY DEF Trees, WholeOne
<1>5. QED
  BY <1>2, <1>3, <1>4

LEMMA ReplaceKeeps ==
  ASSUME IInv, NEW a \in Archives, NEW c \in Contents \union {None}, Replace(a, c)
  PROVE  IInv'
<1> USE DEF IInv, Replace
<1>1. /\ UNCHANGED <<tree, temp, pc, req, path, next>> /\ stale \subseteq stale'
      /\ path \in Paths /\ cache \in [Archives -> Contents \union {None}]
      /\ stale' \in SUBSET Paths
  BY DEF TypeOK
<1>2. TypeOK'
  BY <1>1 DEF TypeOK
<1>3. Progress'
  <2>1. pc \in {"clean", "prepare", "tar"} /\ path \notin stale' => cache'[req.archive] = cache[req.archive]
    BY <1>1, RequestType DEF TypeOK
  <2>2. QED
    BY <1>1, <2>1 DEF Progress
<1>4. PathChecked' /\ FailsForCause'
  BY <1>1 DEF PathChecked, FailsForCause
<1>5. Temps' /\ Served'
  BY <1>1 DEF Temps, TempGood, Served, PristineTree
<1>6. Trees'
  <2> SUFFICES ASSUME NEW d \in Paths PROVE WholeOne(d)'
    BY DEF Trees
  <2>1. QED
    BY <1>1 DEF Trees, WholeOne
<1>7. QED
  BY <1>2, <1>3, <1>4, <1>5, <1>6

LEMMA InvAlways == Spec => []IInv
<1>1. IInv /\ [Next]_vars => IInv'
  <2> SUFFICES ASSUME IInv, [Next]_vars PROVE IInv'
    OBVIOUS
  <2>1. CASE Step
    BY <2>1, CallKeeps, CleanKeeps, PrepareKeeps, TarKeeps, UnwrapKeeps, ApplyPatchKeeps,
       InstallKeeps, TidyKeeps, BuildKeeps, ExitKeeps DEF Step
  <2>2. CASE Environment
    BY <2>2, EditKeeps, DeleteKeeps, ReplaceKeeps DEF Environment
  <2>3. CASE UNCHANGED vars
    BY <2>3 DEF vars, IInv, TypeOK, PathChecked, Progress, Temps, TempGood, Trees,
                WholeOne, Served, PristineTree, FailsForCause
  <2>4. QED
    BY <2>1, <2>2, <2>3 DEF Next
<1>2. QED
  BY InvAtStart, <1>1, PTL DEF Spec

-----------------------------------------------------------------------------
(* Type correctness of the extraction model. *)
THEOREM TypeCorrect == Spec => []TypeOK
<1>1. IInv => TypeOK
  BY DEF IInv
<1>2. QED
  BY <1>1, InvAlways, PTL

(* A directory that a call without --editable returns holds what its archive
   and its patches say, whatever was on the disk before. *)
THEOREM PristineBuildCorrect == Spec => []PristineBuild
<1>1. IInv => PristineBuild
  BY DEF IInv, Served, Serving, PristineTree, PristineBuild
<1>2. QED
  BY <1>1, InvAlways, PTL

(* What --editable finds and uses as it is was unpacked and patched whole. *)
THEOREM EditableWholeCorrect == Spec => []EditableWhole
<1>1. IInv => EditableWhole
  BY DEF IInv, Trees, WholeOne, EditableWhole
<1>2. QED
  BY <1>1, InvAlways, PTL

(* What earlier runs left on the disk makes no call fail. *)
THEOREM FailsForCauseCorrect == Spec => []FailsForCause
<1>1. IInv => FailsForCause
  BY DEF IInv
<1>2. QED
  BY <1>1, InvAlways, PTL

(* No step of a portfile run undoes what was changed under --editable. *)
THEOREM EditsSurviveCorrect == Spec => EditsSurvive
<1> DEFINE Kept(d) ==
      /\ tree'[d] # None
      /\ [tree'[d] EXCEPT !.marks = {}] = [tree[d] EXCEPT !.marks = {}]
      /\ tree[d].marks \subseteq tree'[d].marks
<1>1. IInv /\ [Next]_vars =>
        [\A d \in Paths : d[2] = "editable" /\ tree[d] # None /\ pc # "idle" => Kept(d)]_vars
  <2> SUFFICES ASSUME IInv, Next, NEW d \in Paths,
                      d[2] = "editable", tree[d] # None, pc # "idle"
               PROVE  Kept(d)
    BY DEF vars
  <2>1. path \in Paths /\ tree \in [Paths -> Tree \union {None}]
    BY DEF IInv, TypeOK
  <2>2. tree' = tree => Kept(d)
    OBVIOUS
  <2>3. tree'[d] = tree[d] => Kept(d)
    OBVIOUS
  <2>4. CASE Clean
    <3>1. d # path
      BY <2>4 DEF Clean, IInv, Progress, PathChecked, Active
    <3>2. QED
      BY <2>1, <2>3, <2>4, <3>1 DEF Clean
  <2>5. CASE Install
    <3>1. d # path \/ tree' = tree
      BY <2>5 DEF Install
    <3>2. QED
      BY <2>1, <2>3, <2>5, <3>1 DEF Install
  <2>6. CASE Build
    <3>1. tree[path] # None /\ "build" \in Marks /\ UNCHANGED stale
          /\ tree' = [tree EXCEPT ![path].marks = @ \union {"build"}]
      BY <2>6 DEF Build, IInv, Served, Serving, Marks
    <3>2. /\ tree'[path] # None /\ tree'[path].marks = tree[path].marks \union {"build"}
          /\ [tree'[path] EXCEPT !.marks = {}] = [tree[path] EXCEPT !.marks = {}]
          /\ \A e \in Paths \ {path} : tree'[e] = tree[e]
      BY <2>1, <3>1, ChangeType
    <3>3. CASE d = path
      BY <3>2, <3>3
    <3>4. CASE d # path
      BY <2>3, <3>2, <3>4
    <3>5. QED
      BY <3>3, <3>4
  <2>7. ASSUME NEW e \in Paths, Edit(e) PROVE Kept(d)
    <3>1. tree[e] # None /\ "user" \in Marks /\ UNCHANGED stale
          /\ tree' = [tree EXCEPT ![e].marks = @ \union {"user"}]
      BY <2>7 DEF Edit, Marks
    <3>2. /\ tree'[e] # None /\ tree'[e].marks = tree[e].marks \union {"user"}
          /\ [tree'[e] EXCEPT !.marks = {}] = [tree[e] EXCEPT !.marks = {}]
          /\ \A f \in Paths \ {e} : tree'[f] = tree[f]
      BY <3>1, ChangeType
    <3>3. CASE d = e
      BY <3>2, <3>3
    <3>4. CASE d # e
      BY <2>3, <3>2, <3>4
    <3>5. QED
      BY <3>3, <3>4
  <2>8. ASSUME tree' # tree
        PROVE  Clean \/ Install \/ Build \/ \E e \in Paths : Edit(e)
    <3> USE <2>8 DEF Next, Step, Environment
    <3>1. QED
      BY DEF Call, Prepare, Tar, Unwrap, ApplyPatch, Tidy, Exit, Delete, Replace
  <2>9. QED
    BY <2>2, <2>4, <2>5, <2>6, <2>7, <2>8
<1>2. QED
  BY <1>1, InvAlways, PTL DEF Spec, EditsSurvive

-----------------------------------------------------------------------------
(* The refinement: what a step does to the visible directories and to what is
   served. *)

ServedPath == IF pc \in {"ready", "building"} THEN path ELSE None

LEMMA VisibleSame ==
  ASSUME UNCHANGED tree
  PROVE  UNCHANGED Visible
BY DEF Visible

LEMMA VisibleChange ==
  ASSUME IInv, NEW d \in Paths, NEW t \in Tree \union {None},
         tree' = [tree EXCEPT ![d] = t]
  PROVE  Visible' = [Visible EXCEPT ![d] = IF t # None /\ t.whole THEN t ELSE None]
<1>1. tree' \in [Paths -> Tree \union {None}] /\ tree'[d] = t
      /\ \A e \in Paths \ {d} : tree'[e] = tree[e]
  BY DEF IInv, TypeOK
<1> DEFINE v == [Visible EXCEPT ![d] = IF t # None /\ t.whole THEN t ELSE None]
<1>2. \A e \in Paths : Visible'[e] = v[e]
  BY <1>1 DEF Visible
<1>3. QED
  BY <1>2 DEF Visible

(* The patches that fit, as the abstract specification counts them. *)
LEMMA FittingSame ==
  ASSUME NEW d, NEW c
  PROVE  Abstract!Fitting(c, d) = Fitting(c, d[1][2])
BY ContentAssumption DEF Abstract!Fitting, Abstract!ListOf, Fitting

(* A change of files in a whole directory. *)
LEMMA ChangeMaps ==
  ASSUME IInv, NEW d \in Paths, tree[d] # None, tree[d].whole, NEW m \in Marks,
         tree' = [tree EXCEPT ![d].marks = @ \union {m}],
         ServedPath' = ServedPath,
         (m = "user" /\ d[2] = "editable") \/ (m = "build" /\ ServedPath = d)
  PROVE  Abstract!Next
<1> DEFINE u == [tree[d] EXCEPT !.marks = @ \union {m}]
<1>1. tree[d] \in Tree
  BY DEF IInv, TypeOK
<1>2. u \in Tree /\ u # None /\ u.whole = tree[d].whole
  BY <1>1, MarkType
<1>3. tree' = [tree EXCEPT ![d] = u]
  OBVIOUS
<1>4. Visible[d] = tree[d]
  BY DEF Visible
<1>5. Visible' = [Visible EXCEPT ![d] = u]
  <2> HIDE DEF u
  <2>1. QED
    BY <1>2, <1>3, VisibleChange
<1>6. Visible' = [Visible EXCEPT ![d].marks = @ \union {m}]
  BY <1>4, <1>5
<1>7. Abstract!Change(d, m)
  BY <1>4, <1>6 DEF Abstract!Change, Abstract!Kind, ServedPath
<1>8. QED
  BY <1>7 DEF Abstract!Next

(* A directory that a call returns may be served. *)
LEMMA ServeMaps ==
  ASSUME IInv', pc' = "ready", ServedPath = None, UNCHANGED tree
  PROVE  Abstract!Next
<1>1. /\ path' \in Paths /\ tree[path'] # None /\ tree[path'].whole
      /\ path'[1][2] = req'.patches /\ ServedPath' = path'
      /\ path'[2] = (IF req'.editable THEN "editable" ELSE "clean")
  BY DEF IInv, TypeOK, Served, Serving, PathChecked, ServedPath
<1>2. Visible' = Visible /\ Visible[path'] = tree[path']
  BY <1>1, VisibleSame DEF Visible
<1>3. CASE req'.editable
  BY <1>1, <1>2, <1>3 DEF Abstract!Serve, Abstract!Kind, Abstract!Next, ServedPath
<1>4. CASE ~req'.editable
  <2>1. /\ tree[path'].archive \in Contents /\ tree[path'].marks = {}
        /\ Applied(tree[path']) = Fitting(tree[path'].archive, path'[1][2])
    BY <1>1, <1>4 DEF IInv, Served, PristineTree
  <2>2. Abstract!Fresh(tree[path'], path')
    BY <1>1, <2>1, FittingSame DEF Abstract!Fresh, Applied
  <2>3. QED
    BY <1>1, <1>2, <2>2 DEF Abstract!Serve, Abstract!Next, ServedPath
<1>5. QED
  BY <1>3, <1>4

LEMMA DisappearMaps ==
  ASSUME IInv, NEW d \in Paths, NEW t \in Tree \union {None}, t = None \/ ~t.whole,
         tree' = [tree EXCEPT ![d] = t], ServedPath = None, ServedPath' = None
  PROVE  Abstract!Next \/ UNCHANGED <<Visible, ServedPath>>
<1>1. Visible' = [Visible EXCEPT ![d] = None]
  BY VisibleChange
<1>2. CASE Visible[d] = None
  BY <1>1, <1>2 DEF Visible
<1>3. CASE Visible[d] # None
  BY <1>1, <1>3 DEF Abstract!Disappear, Abstract!Next, ServedPath
<1>4. QED
  BY <1>2, <1>3

LEMMA InstallMaps ==
  ASSUME IInv, Install
  PROVE  Abstract!Next
<1> DEFINE t == temp[path]
<1>1. /\ path \in Paths /\ t \in Tree /\ t # None /\ t.whole /\ t.archive \in Contents
      /\ t.marks = {} /\ Applied(t) = FittingTo(t.archive, req.patches, Len(req.patches))
      /\ tree[path] = None /\ path[1][2] = req.patches /\ req \in Requests
      /\ tree' = [tree EXCEPT ![path] = t]
      /\ ServedPath = None /\ ServedPath' = None
  BY DEF Install, Goto, IInv, TypeOK, Temps, TempGood, Unpacked, Progress, Preparing,
         PathChecked, Active, ServedPath
<1>2. Abstract!Fresh(t, path)
  BY <1>1, FittingAll, FittingSame, RequestType DEF Abstract!Fresh, Applied
<1>3. Visible' = [Visible EXCEPT ![path] = t]
  <2> HIDE DEF t
  <2>1. QED
    BY <1>1, VisibleChange
<1>4. Visible[path] = None /\ Visible'[path] = t
  BY <1>1, <1>3 DEF Visible
<1>5. Abstract!Appear(path)
  BY <1>1, <1>2, <1>3, <1>4 DEF Abstract!Appear, ServedPath
<1>6. QED
  BY <1>1, <1>5 DEF Abstract!Next

LEMMA StepMaps ==
  ASSUME IInv, IInv', [Next]_vars
  PROVE  Abstract!Next \/ UNCHANGED <<Visible, ServedPath>>
<1>1. ASSUME UNCHANGED tree, ServedPath' = ServedPath
      PROVE  UNCHANGED <<Visible, ServedPath>>
  BY <1>1, VisibleSame
<1>2. ASSUME NEW r \in Requests, Call(r)
      PROVE  Abstract!Next \/ UNCHANGED <<Visible, ServedPath>>
  <2>1. UNCHANGED tree /\ ServedPath = None
    BY <1>2 DEF Call, ServedPath
  <2>2. CASE pc' = "ready"
    BY <2>1, <2>2, ServeMaps
  <2>3. CASE pc' # "ready"
    <3>1. ServedPath' = None
      BY <1>2, <2>3 DEF Call, LookUp, Goto, ServedPath
    <3>2. QED
      BY <1>1, <2>1, <3>1
  <2>4. QED
    BY <2>2, <2>3
<1>3. CASE Clean
  <2>1. path \in Paths /\ ServedPath = None /\ ServedPath' = None
    BY <1>3 DEF Clean, Goto, ServedPath, IInv, TypeOK
  <2>2. CASE tree' = [tree EXCEPT ![path] = Empty(FALSE)]
    BY <2>1, <2>2, EmptyType, DisappearMaps
  <2>3. CASE tree' = [tree EXCEPT ![path] = None]
    BY <2>1, <2>3, DisappearMaps
  <2>4. QED
    BY <1>3, <2>2, <2>3 DEF Clean
<1>4. CASE Prepare \/ Tar \/ Unwrap \/ ApplyPatch
  BY <1>1, <1>4 DEF Prepare, Tar, Unwrap, ApplyPatch, Goto, ServedPath
<1>5. CASE Install
  BY <1>5, InstallMaps
<1>6. CASE Tidy
  BY <1>6, ServeMaps DEF Tidy, Goto, ServedPath
<1>7. CASE Build
  BY <1>7, ChangeMaps
     DEF Build, Goto, ServedPath, Marks, IInv, TypeOK, Served, Serving
<1>8. CASE Exit
  <2>1. Visible' = Visible /\ ServedPath' = None
    BY <1>8, VisibleSame DEF Exit, Goto, ServedPath
  <2>2. QED
    BY <2>1 DEF Abstract!Release, Abstract!Next, ServedPath
<1>9. ASSUME NEW d \in Paths, Edit(d)
      PROVE  Abstract!Next
  <2>1. WholeOne(d) /\ tree[d] # None /\ d[2] = "editable" /\ ServedPath' = ServedPath
    BY <1>9 DEF Edit, IInv, Trees, ServedPath
  <2>2. QED
    BY <1>9, <2>1, ChangeMaps DEF Edit, Marks, WholeOne
<1>10. ASSUME NEW d \in Paths, Delete(d)
       PROVE  Abstract!Next \/ UNCHANGED <<Visible, ServedPath>>
  BY <1>10, DisappearMaps DEF Delete, ServedPath
<1>11. ASSUME NEW a \in Archives, NEW c \in Contents \union {None}, Replace(a, c)
       PROVE  UNCHANGED <<Visible, ServedPath>>
  BY <1>1, <1>11 DEF Replace, ServedPath
<1>12. CASE UNCHANGED vars
  BY <1>1, <1>12 DEF vars, ServedPath
<1>13. QED
  BY <1>2, <1>3, <1>4, <1>5, <1>6, <1>7, <1>8, <1>9, <1>10, <1>11, <1>12
     DEF Next, Step, Environment

(* vcpkg_extract_source_archive keeps the promise of SourceDirs: directories
   appear whole and in one step, and builds are served fresh or editable ones. *)
THEOREM ImplementsCorrect == Spec => Implements
<1>1. Init => Abstract!Init
  <2>1. ASSUME Init PROVE Visible = [d \in Paths |-> None] /\ ServedPath = None
    BY <2>1 DEF Init, Visible, ServedPath
  <2>2. QED
    BY <2>1 DEF Abstract!Init, ServedPath
<1>2. IInv /\ IInv' /\ [Next]_vars => [Abstract!Next]_(Abstract!vars)
  BY StepMaps DEF Abstract!vars, ServedPath
<1>3. QED
  BY <1>1, <1>2, InvAlways, PTL DEF Spec, Implements, Abstract!Spec
=============================================================================
