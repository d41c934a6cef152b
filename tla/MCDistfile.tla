----------------------------- MODULE MCDistfile -----------------------------
(* Instances of Distfile for TLC: one FILENAME, three contents two of which  *)
(* share the eight-digit tag.                                                *)
EXTENDS Distfile, TLC

CONSTANTS f1, a, b, c, ta, tc

MCTag == (a :> ta) @@ (b :> ta) @@ (c :> tc) @@ (ZeroSha :> ta)

Req(sha, skip, always, noDl, noHash) ==
  [file |-> f1, sha |-> sha, skip |-> skip, always |-> always,
   noDownloads |-> noDl, noHashCheck |-> noHash]

(* Two roots at work: pins of one tag and of another, one that nothing can
   satisfy and one that is no SHA512; calls that skip the hash check, and ask
   for a fresh download; downloads and hash checks that are disabled. *)
SharedRequests ==
  {Req(sha, FALSE, FALSE, FALSE, FALSE) : sha \in {a, b, c, ZeroSha, BadSha}}
  \union {Req(NoSha, TRUE, always, FALSE, FALSE) : always \in BOOLEAN}
  \union {Req(a, FALSE, FALSE, TRUE, FALSE), Req(a, FALSE, FALSE, FALSE, TRUE),
          Req(NoSha, TRUE, TRUE, TRUE, FALSE)}

NoCall == Req(NoSha, TRUE, FALSE, FALSE, FALSE)

Symmetry == Permutations(Procs)
=============================================================================
