------------------------------ MODULE MsysRoot ------------------------------
(***************************************************************************)
(* vcpkg_acquire_msys: a portfile asks for msys2 packages and gets a       *)
(* directory with these packages and all they depend on.  The directory is *)
(* DOWNLOADS/tools/msys2/HASH, where HASH is made from the packages in it; *)
(* it is filled under the name HASH.tmp, renamed when it is complete, and  *)
(* used by every later call that resolves to the same packages, of every   *)
(* vcpkg root that shares DOWNLOADS.                                       *)
(*                                                                         *)
(* Data: a package is its name and whether it was given by URL ("direct")  *)
(* rather than declared by the scripts.  The hash is the list it hashes,   *)
(* the sorted packages, hence a map from packages to how often they occur. *)
(* The archives hold what they were declared with, for their downloads     *)
(* are pinned (PinnedUse of Distfile).                                     *)
(***************************************************************************)
EXTENDS Naturals, Sequences, FiniteSets

CONSTANTS
  Roots,     \* vcpkg roots that share DOWNLOADS, each with one run at a time
  Packages,  \* packages that exist
  Declared,  \* those the scripts declare, in order
  Deps,      \* the names that a declared package depends on
  Provider,  \* for each alias the package that provides it
  Ghosts,    \* names of nothing
  Defaults,  \* packages every call asks for unless told otherwise
  Runtime,   \* the name msys2-runtime
  Patched,   \* declared packages with patches
  Hinting,   \* packages that bring pkgconfig directories
  Requests,  \* what the portfiles of each root ask for
  MaxHashes  \* a bound: how many hashes have a directory, HASH or HASH.tmp

Names == Packages \union DOMAIN Provider \union Ghosts

Request ==
  [direct : Seq(Packages), extra : Seq(Packages), packages : Seq(Names),
   mode : {"default", "bare", "all"}]

Elements(s) == {s[i] : i \in DOMAIN s}

ASSUME PackageAssumption ==
  /\ Declared \in Seq(Packages) /\ Defaults \in Seq(Names)
  /\ Deps \in [Packages -> Seq(Names)]
  /\ Provider \in [DOMAIN Provider -> Packages]
  /\ Runtime \in Names /\ Patched \subseteq Packages /\ Hinting \subseteq Packages

ASSUME RequestAssumption == Requests \in [Roots -> SUBSET Request]

VARIABLES
  made, temp,          \* the directories HASH and HASH.tmp that exist
  pc,
  direct,              \* packages that a call of this script gave by URL
  available,           \* Z_VCPKG_MSYS_PACKAGES_AVAILABLE
  asked,               \* the names the worklist began with
  backlog, resolved, unknown,
  next,                \* the position in resolved of the package to unpack
  raced                \* the hashes that two runs prepared at once

vars == <<made, temp, pc, direct, available, asked, backlog, resolved, unknown,
          next, raced>>
script == <<direct, available, asked>>
lists  == <<backlog, resolved, unknown>>
disk   == <<made, temp>>

Preparing == {"clean", "unpack", "patch", "install"}
Failed    == {"redeclared", "unknownPackage", "patchFailed", "renameFailed"}
Places    == {"idle", "resolve", "probe", "fstab", "hints", "use"} \union Preparing \union Failed

Goto(r, place) == pc' = [pc EXCEPT ![r] = place]

Put(f, x, v) == [y \in DOMAIN f \union {x} |-> IF y = x THEN v ELSE f[y]]
Drop(f, x)   == [y \in DOMAIN f \ {x} |-> f[y]]
Nothing      == [x \in {} |-> x]

-----------------------------------------------------------------------------
(* The resolver. *)

(* The elements of s at the positions in I, in their order. *)
At(s, I) ==
  [k \in 1 .. Cardinality(I) |->
     s[CHOOSE i \in I : Cardinality({j \in I : j <= i}) = k]]

(* list(REMOVE_DUPLICATES): the first of equal elements stays. *)
Distinct(s) == At(s, {i \in DOMAIN s : \A j \in 1 .. i - 1 : s[j] # s[i]})

(* list(REMOVE_ITEM) *)
Without(s, S) == At(s, {i \in DOMAIN s : s[i] \notin S})

Requested(r, q) ==
  q.direct \o (CASE q.mode = "all"     -> Without(Declared \o q.extra, direct[r])
                 [] q.mode = "default" -> q.packages \o Defaults
                 [] q.mode = "bare"    -> q.packages)

(* The expression ^mingw64 is meant to tell the packages that need no msys
   runtime; the names of all of them begin with mingw-w64, so that it matches
   none.  A call that asks for nothing gets the runtime too: arg_PACKAGES is then
   not defined, and the condition compares that word, not an empty list, with the
   empty string. *)
FirstBacklog(names) ==
  IF Runtime \in Elements(names) THEN Distinct(names)
  ELSE Append(Distinct(names), Runtime)

IsAlias(r, name) == name \in DOMAIN Provider /\ name \notin available[r]
Target(r, name)  == IF IsAlias(r, name) THEN Provider[name] ELSE name
DepsOf(r, p)     == IF p \in direct[r] THEN <<>> ELSE Deps[p]

(* Mutant: the names are hashed. *)
HashOfNames(r) ==
  [p \in Elements(resolved[r]) |->
     [times  |-> Cardinality({i \in DOMAIN resolved[r] : resolved[r][i] = p}),
      direct |-> FALSE]]

(* The packages that are hashed, and how often each of them was resolved. *)
Hash(r) ==
  [p \in Elements(resolved[r]) |->
     [times  |-> Cardinality({i \in DOMAIN resolved[r] : resolved[r][i] = p}),
      direct |-> p \in direct[r]]]

-----------------------------------------------------------------------------
Init ==
  /\ made = Nothing /\ temp = Nothing
  /\ pc = [r \in Roots |-> "idle"]
  /\ direct = [r \in Roots |-> {}] /\ available = [r \in Roots |-> {}]
  /\ asked = [r \in Roots |-> {}]
  /\ backlog = [r \in Roots |-> <<>>] /\ resolved = [r \in Roots |-> <<>>]
  /\ unknown = [r \in Roots |-> FALSE]
  /\ next = [r \in Roots |-> 1]
  /\ raced = {}

(* A package that is declared twice and was not given by URL before. *)
Redeclared(r, q) ==
  LET all == Declared \o q.extra
  IN  \E i, j \in DOMAIN all : i < j /\ all[i] = all[j] /\ all[i] \notin direct[r]

Redeclare(r, q) ==
  /\ pc[r] \in {"idle", "use"} /\ q \in Requests[r]
  /\ Redeclared(r, q)
  /\ Goto(r, "redeclared")
  /\ UNCHANGED <<disk, script, lists, next, raced>>

(* A portfile calls the function, for the first time or again.  The packages
   are declared anew, with those of Z_DECLARE_EXTRA_PACKAGES_COMMAND, but for
   those that an earlier call of the script gave by URL, and then those that
   this call gives. *)
Call(r, q) ==
  /\ pc[r] \in {"idle", "use"} /\ q \in Requests[r]
  /\ ~Redeclared(r, q)
  /\ available' = [available EXCEPT ![r] =
                     (Elements(Declared \o q.extra) \ direct[r])
                       \union Elements(q.direct)]
  /\ direct' = [direct EXCEPT ![r] = @ \union Elements(q.direct)]
  /\ backlog' = [backlog EXCEPT ![r] = FirstBacklog(Requested(r, q))]
  /\ asked' = [asked EXCEPT ![r] = Elements(FirstBacklog(Requested(r, q)))]
  /\ resolved' = [resolved EXCEPT ![r] = <<>>]
  /\ unknown' = [unknown EXCEPT ![r] = FALSE]
  /\ next' = [next EXCEPT ![r] = 1]
  /\ Goto(r, "resolve")
  /\ UNCHANGED <<disk, raced>>

(* A waiting name is an alias of a package that is resolved already. *)
Provided(r) ==
  /\ IsAlias(r, Head(backlog[r]))
  /\ Target(r, Head(backlog[r])) \in Elements(resolved[r])

(* Mutant: the name is taken off the list at the end of the turn only. *)
SkipPeeking(r) == Provided(r) /\ UNCHANGED lists

Skip(r) ==
  /\ Provided(r)
  /\ backlog' = [backlog EXCEPT ![r] = Tail(@)]
  /\ UNCHANGED <<resolved, unknown>>

NoteUnknown(r) ==
  /\ ~Provided(r) /\ Target(r, Head(backlog[r])) \notin available[r]
  /\ backlog' = [backlog EXCEPT ![r] = Tail(@)]
  /\ unknown' = [unknown EXCEPT ![r] = TRUE]
  /\ UNCHANGED resolved

(* Mutant: the alias stays the name of the package. *)
TakeAliased(r) ==
  /\ ~Provided(r) /\ Target(r, Head(backlog[r])) \in available[r]
  /\ resolved' = [resolved EXCEPT ![r] = Append(@, Head(backlog[r]))]
  /\ backlog' = [backlog EXCEPT ![r] = Tail(@)]
  /\ UNCHANGED unknown

(* The package is downloaded, and those of its dependencies that are neither
   resolved nor waiting have to wait. *)
Take(r) ==
  /\ ~Provided(r) /\ Target(r, Head(backlog[r])) \in available[r]
  /\ LET name == Target(r, Head(backlog[r]))
         rest == Tail(backlog[r])
         done == Append(resolved[r], name)
     IN  /\ resolved' = [resolved EXCEPT ![r] = done]
         /\ backlog' = [backlog EXCEPT ![r] =
              rest \o Without(DepsOf(r, name), Elements(done) \union Elements(rest))]
  /\ UNCHANGED unknown

(* One turn of the loop. *)
Resolve(r) ==
  /\ pc[r] = "resolve" /\ backlog[r] # <<>>
  /\ Skip(r) \/ NoteUnknown(r) \/ Take(r)
  /\ UNCHANGED <<disk, pc, script, next, raced>>

(* Mutant: unknown packages are only reported. *)
EndOfLoopLenient(r) ==
  /\ pc[r] = "resolve" /\ backlog[r] = <<>>
  /\ Goto(r, "probe")
  /\ UNCHANGED <<disk, script, lists, next, raced>>

EndOfLoop(r) ==
  /\ pc[r] = "resolve" /\ backlog[r] = <<>>
  /\ Goto(r, IF unknown[r] THEN "unknownPackage" ELSE "probe")
  /\ UNCHANGED <<disk, script, lists, next, raced>>

-----------------------------------------------------------------------------
(* The directory. *)

Empty == [parts |-> Nothing, fstab |-> FALSE, hints |-> FALSE]

Others(r) == {o \in Roots \ {r} : pc[o] \in Preparing /\ Hash(o) = Hash(r)}

(* Mutant: a root that exists is taken to be configured. *)
ProbeConfigured(r) ==
  /\ pc[r] = "probe"
  /\ Goto(r, IF Hash(r) \in DOMAIN made THEN "use" ELSE "clean")
  /\ raced' = IF Hash(r) \in DOMAIN made \/ Others(r) = {} THEN raced ELSE raced \union {Hash(r)}
  /\ UNCHANGED <<disk, script, lists, next>>

(* Mutant: the root is always prepared. *)
ProbeNothing(r) ==
  /\ pc[r] = "probe"
  /\ Goto(r, "clean")
  /\ raced' = IF Others(r) = {} THEN raced ELSE raced \union {Hash(r)}
  /\ UNCHANGED <<disk, script, lists, next>>

Probe(r) ==
  /\ pc[r] = "probe"
  /\ \/ /\ Hash(r) \in DOMAIN made
        /\ Goto(r, "fstab") /\ UNCHANGED raced
     \/ /\ Hash(r) \notin DOMAIN made
        /\ Cardinality(DOMAIN made \union DOMAIN temp \union {Hash(r)}) <= MaxHashes
        /\ Goto(r, "clean")
        /\ raced' = IF Others(r) = {} THEN raced ELSE raced \union {Hash(r)}
  /\ UNCHANGED <<disk, script, lists, next>>

Clean(r) ==
  /\ pc[r] = "clean"
  /\ temp' = Put(temp, Hash(r), Empty)
  /\ Goto(r, "unpack")
  /\ UNCHANGED <<made, script, lists, next, raced>>

(* What the directory holds, or would when it is made for the extraction. *)
Content(h) == IF h \in DOMAIN temp THEN temp[h] ELSE Empty

NeedsPatch(r, p) == p \in Patched \ direct[r]

Unpack(r) ==
  /\ pc[r] = "unpack" /\ next[r] \in DOMAIN resolved[r]
  /\ LET p    == resolved[r][next[r]]
         tree == Content(Hash(r))
     IN  /\ temp' = Put(temp, Hash(r),
                        [tree EXCEPT !.parts = Put(@, p, "unpacked"),
                                     !.hints = @ \/ p \in Hinting])
         /\ \/ NeedsPatch(r, p) /\ Goto(r, "patch") /\ UNCHANGED next
            \/ ~NeedsPatch(r, p) /\ next' = [next EXCEPT ![r] = @ + 1] /\ UNCHANGED pc
  /\ UNCHANGED <<made, script, lists, raced>>

(* Patches apply to what was just unpacked, once. *)
Patch(r) ==
  /\ pc[r] = "patch"
  /\ LET p     == resolved[r][next[r]]
         parts == Content(Hash(r)).parts
         fits  == p \in DOMAIN parts /\ parts[p] = "unpacked"
     IN  \/ /\ fits
            /\ temp' = [temp EXCEPT ![Hash(r)].parts[p] = "patched"]
            /\ next' = [next EXCEPT ![r] = @ + 1]
            /\ Goto(r, "unpack")
         \/ /\ ~fits
            /\ Goto(r, "patchFailed")
            /\ UNCHANGED <<temp, next>>
  /\ UNCHANGED <<made, script, lists, raced>>

EndOfUnpack(r) ==
  /\ pc[r] = "unpack" /\ next[r] \notin DOMAIN resolved[r]
  /\ Goto(r, "install")
  /\ UNCHANGED <<disk, script, lists, next, raced>>

(* Mutant: the rename replaces what is there. *)
InstallReplacing(r) ==
  /\ pc[r] = "install"
  /\ LET h == Hash(r)
     IN  \/ /\ h \in DOMAIN temp
            /\ made' = Put(made, h, temp[h])
            /\ temp' = Drop(temp, h)
            /\ Goto(r, "fstab")
         \/ h \notin DOMAIN temp /\ Goto(r, "renameFailed") /\ UNCHANGED disk
  /\ UNCHANGED <<script, lists, next, raced>>

(* file(RENAME) does not replace a directory. *)
Install(r) ==
  /\ pc[r] = "install"
  /\ LET h == Hash(r)
     IN  \/ /\ h \in DOMAIN temp /\ h \notin DOMAIN made
            /\ made' = Put(made, h, temp[h])
            /\ temp' = Drop(temp, h)
            /\ Goto(r, "fstab")
         \/ /\ ~(h \in DOMAIN temp /\ h \notin DOMAIN made)
            /\ Goto(r, "renameFailed")
            /\ UNCHANGED disk
  /\ UNCHANGED <<script, lists, next, raced>>

WriteFstab(r) ==
  /\ pc[r] = "fstab"
  /\ made' = [made EXCEPT ![Hash(r)].fstab = TRUE]
  /\ Goto(r, "hints")
  /\ UNCHANGED <<temp, script, lists, next, raced>>

RemoveHints(r) ==
  /\ pc[r] = "hints"
  /\ made' = [made EXCEPT ![Hash(r)].hints = FALSE]
  /\ Goto(r, "use")
  /\ UNCHANGED <<temp, script, lists, next, raced>>

(* The run ends, because the portfile is done, an error stopped it, or it was
   killed; its variables are gone. *)
Exit(r) ==
  /\ pc[r] # "idle"
  /\ Goto(r, "idle")
  /\ direct' = [direct EXCEPT ![r] = {}]
  /\ available' = [available EXCEPT ![r] = {}]
  /\ asked' = [asked EXCEPT ![r] = {}]
  /\ backlog' = [backlog EXCEPT ![r] = <<>>]
  /\ resolved' = [resolved EXCEPT ![r] = <<>>]
  /\ unknown' = [unknown EXCEPT ![r] = FALSE]
  /\ next' = [next EXCEPT ![r] = 1]
  /\ UNCHANGED <<disk, raced>>

Step(r) ==
  \/ Resolve(r) \/ EndOfLoop(r) \/ Probe(r) \/ Clean(r) \/ Unpack(r) \/ Patch(r)
  \/ EndOfUnpack(r) \/ Install(r) \/ WriteFstab(r) \/ RemoveHints(r)

Next ==
  \E r \in Roots :
    Step(r) \/ Exit(r) \/ \E q \in Requests[r] : Redeclare(r, q) \/ Call(r, q)

Spec == Init /\ [][Next]_vars

(* A run that is not killed goes on. *)
FairSpec == Spec /\ \A r \in Roots : WF_vars(Step(r))
-----------------------------------------------------------------------------
(* Properties *)

IsTree(t) ==
  /\ t = [parts |-> t.parts, fstab |-> t.fstab, hints |-> t.hints]
  /\ DOMAIN t.parts \subseteq Packages
  /\ t.parts \in [DOMAIN t.parts -> {"unpacked", "patched"}]
  /\ {t.fstab, t.hints} \subseteq BOOLEAN

IsDirectory(d) == \A h \in DOMAIN d : DOMAIN h \subseteq Packages /\ IsTree(d[h])

TypeOK ==
  /\ IsDirectory(made) /\ IsDirectory(temp)
  /\ pc \in [Roots -> Places]
  /\ direct \in [Roots -> SUBSET Packages] /\ available \in [Roots -> SUBSET Packages]
  /\ asked \in [Roots -> SUBSET Names]
  /\ backlog \in [Roots -> Seq(Names)] /\ resolved \in [Roots -> Seq(Packages)]
  /\ unknown \in [Roots -> BOOLEAN] /\ next \in [Roots -> Nat]

(* A set of packages serves a call when it holds every name that was asked for
   and every name that a package in it depends on, with the package in the
   place of its alias. *)
Serves(r, S) ==
  /\ \A n \in asked[r] : Target(r, n) \in S
  /\ \A p \in S : \A d \in Elements(DepsOf(r, p)) : Target(r, d) \in S

(* The resolver stops with the least set of packages that serves the call, no
   matter in which order names, aliases and dependencies came up; and with an
   error only when no set of the packages that are declared serves it. *)
ResolvesTheNeeded ==
  \A r \in Roots :
    /\ pc[r] = "probe" =>
         /\ Serves(r, Elements(resolved[r]))
         /\ \A S \in SUBSET Elements(resolved[r]) : Serves(r, S) => S = Elements(resolved[r])
    /\ pc[r] = "unknownPackage" => \A S \in SUBSET available[r] : ~Serves(r, S)

Whole(tree, h) ==
  /\ DOMAIN tree.parts = DOMAIN h
  /\ \A p \in DOMAIN h :
       tree.parts[p] = IF p \in Patched /\ ~h[p].direct THEN "patched" ELSE "unpacked"

(* A root exists only when it is complete: every package of its hash is in it,
   patched, whatever runs were killed on the way.  Excepted are roots that two
   runs prepared at once, for they fill one directory. *)
WholeRoots == \A h \in DOMAIN made \ raced : Whole(made[h], h)

(* What portfiles work with is complete, and configured, also when another run
   made it and was killed before it had done so. *)
ServedReady ==
  \A r \in Roots : pc[r] = "use" =>
    /\ Hash(r) \in DOMAIN made
    /\ made[Hash(r)].fstab /\ ~made[Hash(r)].hints
    /\ Hash(r) \in raced \/ Whole(made[Hash(r)], Hash(r))

(* What killed runs leave does not make a call fail: patches apply and the
   rename succeeds, unless two runs prepared the root at once. *)
FailsForCause ==
  \A r \in Roots : pc[r] \in {"patchFailed", "renameFailed"} => Hash(r) \in raced

(* A root never changes once it is in use by a portfile, except that
   another run configures it, which changes nothing. *)
UsedRootStays ==
  [][\A r \in Roots : pc[r] = "use" => made'[Hash(r)] = made[Hash(r)]]_vars

(* The loop of the resolver ends, for cyclic dependencies too. *)
Resolves == \A r \in Roots : pc[r] = "resolve" ~> pc[r] # "resolve"

(* "Returns a stable collection of hashes, regardless of package order": one
   set of packages has one root. *)
OneRootPerSet ==
  \A g, h \in DOMAIN made :
    (DOMAIN g = DOMAIN h /\ \A p \in DOMAIN g : g[p].direct = h[p].direct) => g = h

=============================================================================
