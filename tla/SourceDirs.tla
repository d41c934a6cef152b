----------------------------- MODULE SourceDirs -----------------------------
(***************************************************************************)
(* What vcpkg_extract_source_archive promises the portfiles that call it.  *)
(* A source directory is there or it is not: it appears whole and patched, *)
(* in one step, and disappears in one step.  A portfile is served either   *)
(* an "editable" directory, in whatever state the user left it, or a       *)
(* "clean" one that nobody has changed since it appeared.                  *)
(*                                                                         *)
(* ExtractSource implements this specification step by step, with runs     *)
(* that may be killed between any two steps.                               *)
(***************************************************************************)
EXTENDS Naturals, Sequences

CONSTANTS Contents, Patches, Fits, None, Paths, Marks

VARIABLES
  dirs,    \* the directories
  served   \* the one a portfile was given, None when there is none

vars == <<dirs, served>>

Kind(d)     == d[2]
ListOf(d)   == {d[1][2][k] : k \in DOMAIN d[1][2]}
Fitting(c, d) == {q \in ListOf(d) : <<c, q>> \in Fits}

(* A directory as it appears. *)
Fresh(t, d) ==
  /\ t.whole /\ t.marks = {} /\ t.archive \in Contents
  /\ {t.patches[k] : k \in DOMAIN t.patches} = Fitting(t.archive, d)

Init == dirs = [d \in Paths |-> None] /\ served = None

Appear(d) ==
  /\ dirs[d] = None /\ dirs'[d] # None /\ Fresh(dirs'[d], d)
  /\ dirs' = [dirs EXCEPT ![d] = dirs'[d]]
  /\ UNCHANGED served

Disappear(d) ==
  /\ dirs[d] # None /\ served = None
  /\ dirs' = [dirs EXCEPT ![d] = None]
  /\ UNCHANGED served

Serve(d) ==
  /\ served = None /\ dirs[d] # None
  /\ Kind(d) = "editable" \/ Fresh(dirs[d], d)
  /\ served' = d /\ UNCHANGED dirs

Change(d, who) ==
  /\ dirs[d] # None
  /\ \/ who = "user" /\ Kind(d) = "editable"
     \/ who = "build" /\ served = d
  /\ dirs' = [dirs EXCEPT ![d].marks = @ \union {who}]
  /\ UNCHANGED served

Release == served # None /\ served' = None /\ UNCHANGED dirs

Next ==
  \/ \E d \in Paths : Appear(d) \/ Disappear(d) \/ Serve(d)
  \/ \E d \in Paths, who \in Marks : Change(d, who)
  \/ Release

Spec == Init /\ [][Next]_vars
=============================================================================
