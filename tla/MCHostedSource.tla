--------------------------- MODULE MCHostedSource ---------------------------
(* Instances of HostedSource for TLC.  All contents share one tag, so that   *)
(* retargeted names collide.                                                 *)
EXTENDS HostedSource, TLC

CONSTANTS main, extra, tar, pax, t, redone

MCTag == [h \in Hashes |-> t]

From(host, repo, ref, sha, headRef, suffix) ==
  [host |-> host, repo |-> repo, ref |-> ref, sha |-> sha, headRef |-> headRef,
   suffix |-> suffix]

Of(host, repo) == From(host, repo, 1, Archive(repo, 1, tar), TRUE, NoSuffix)

Run(head, noDownloads, noHashCheck) ==
  [head |-> head, noDownloads |-> noDownloads, noHashCheck |-> noHashCheck]

(* Two roots that build one port, with --head and without. *)
OneGithub  == {<<Of("github", main)>>}
SharedMode == {Run(TRUE, FALSE, FALSE), Run(FALSE, FALSE, FALSE)}

(* One root: --head builds of portfiles that call two repositories, of a
   repacked archive, and calls that fall back, or are refused. *)
EveryCall ==
  {<<Of("gitlab", main), Of("gitlab", extra)>>,
   <<From("gitlab", main, 1, Archive(main, 1, tar), FALSE, NoSuffix), Of("gitlab", extra)>>,
   <<Of("bitbucket", extra), Of("gitlab", main)>>,
   <<From("github", main, 1, Archive(main, 1, tar), TRUE, redone)>>,
   <<From("github", main, 1, BadSha, FALSE, NoSuffix)>>,
   <<From("github", main, 1, NoSha, FALSE, NoSuffix)>>,
   <<From("github", main, NoRef, NoSha, FALSE, NoSuffix)>>}
HeadOnly == {Run(TRUE, FALSE, FALSE)}

(* A port without HEAD_REF, on a host that does not fall back. *)
NoHeadRef == {<<From(host, main, 1, Archive(main, 1, tar), FALSE, NoSuffix)>> : host \in Hosts}

Symmetry == Permutations(Procs)
=============================================================================
