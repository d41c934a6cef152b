---------------------------- MODULE MCGitSource ----------------------------
(* Instances of GitSource for TLC: one port with a history of two commits.  *)
EXTENDS GitSource, FiniteSets, TLC

CONSTANTS zlib

Req(ref, fetchRef, headRef, useHead, noDl) ==
  [port |-> zlib, ref |-> ref, fetchRef |-> fetchRef, headRef |-> headRef,
   useHead |-> useHead, noDownloads |-> noDl]

First  == <<zlib, 1>>
Second == <<zlib, 2>>

(* Two roots: a commit that is reached through its branch, builds with --head,
   one of which may not download, and calls that lack an argument. *)
SharedRequests ==
  { Req(First, TRUE, TRUE, FALSE, FALSE),
    Req(First, FALSE, TRUE, TRUE, FALSE),
    Req(NoRef, FALSE, TRUE, TRUE, TRUE),
    Req(NoRef, FALSE, TRUE, FALSE, FALSE),
    Req(NoRef, FALSE, FALSE, FALSE, FALSE) }

(* Bound: roots race for one archive name, and not for the commit's and the
   branch's in one history. *)
FewRaces == Cardinality(raced) <= 1

Symmetry == Permutations(Roots)

(* A REF that is a name, that of a tag or that of the branch of HEAD_REF, built
   with and without --head, with downloads and without. *)
NamedRequests ==
  { Req(NameRef, FALSE, TRUE, useHead, noDl) :
      useHead \in BOOLEAN, noDl \in BOOLEAN }

(* One root: every combination of arguments and options. *)
EveryRequest ==
  { Req(ref, fetchRef, headRef, useHead, noDl) :
      ref \in {First, Second, NoRef, NameRef}, fetchRef \in BOOLEAN,
      headRef \in BOOLEAN, useHead \in BOOLEAN, noDl \in BOOLEAN }
=============================================================================
