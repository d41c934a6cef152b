-------------------------- MODULE MCExtractSource --------------------------
(* Instances of ExtractSource for TLC. *)
EXTENDS ExtractSource

CONSTANTS zip, tgz, flat, fix, port

(* The patch "port" was made for "tgz" only; "flat" has more than one
   top-level entry. *)
FitPairs == Contents \X {fix} \union (Contents \intersect {tgz}) \X {port}
SingleRoots == Contents \intersect {tgz}

Req(patches, options, editable, skip, noRemove) ==
  [archive |-> zip, patches |-> patches, options |-> options,
   editable |-> editable, skipPatchCheck |-> skip, noRemoveOneLevel |-> noRemove]

TwoPatches == <<fix, port>>

(* One port, in every mode the function has, and the calls it refuses. *)
EveryMode ==
  {Req(TwoPatches, {}, e, s, n) : e, s, n \in BOOLEAN}
  \union {Req(<<MissingPatch>>, {}, FALSE, FALSE, FALSE),
          Req(TwoPatches, {"REF"}, FALSE, FALSE, FALSE),
          Req(TwoPatches, {"SOURCE_BASE", "SLASHED_BASE"}, TRUE, FALSE, FALSE)}

(* An --editable port whose archive another root replaces. *)
ReplacedEditable ==
  {Req(TwoPatches, {}, TRUE, FALSE, FALSE), Req(TwoPatches, {}, TRUE, TRUE, TRUE),
   Req(TwoPatches, {}, TRUE, FALSE, TRUE)}
=============================================================================
