----------------------------- MODULE MCMsysRoot -----------------------------
(* Instances of MsysRoot for TLC. *)
EXTENDS MsysRoot, TLC

CONSTANTS r1, r2, runtime, bash, automake, grep, intl, iconv, sh, ghost

(* As vcpkg_acquire_msys.cmake declares them: sh is an alias of bash, libintl and
   libiconv need each other, automake1.16 is patched. *)
DepsOfAll ==
  [p \in Packages |->
     CASE p = automake -> <<bash>>
       [] p = grep     -> <<intl, sh>>
       [] p = iconv    -> <<intl>>
       [] p = intl     -> <<iconv>>
       [] OTHER        -> <<>>]

ProviderOfAll == sh :> bash

(* grep is declared by some callers only. *)
DeclaredAll  == <<automake, bash, intl, iconv, runtime>>
DefaultNames == <<bash>>

Req(extra, packages, mode) ==
  [direct |-> <<>>, extra |-> extra, packages |-> packages, mode |-> mode]

Automake == Req(<<>>, <<automake>>, "default")

TwoOrders ==
  {Req(<<grep>>, <<automake, grep>>, "bare"), Req(<<grep>>, <<grep, automake>>, "bare")}

(* Packages that meet in an alias, an alias beside its package, a package given
   by URL and asked for by its name in a later call, or declared again by one, an
   unknown package, all packages, none. *)
EveryRequest ==
  {Automake, Req(<<grep>>, <<grep, automake>>, "bare"), Req(<<>>, <<sh>>, "default"),
   [Req(<<>>, <<automake>>, "bare") EXCEPT !.direct = <<automake>>],
   Req(<<automake>>, <<automake>>, "bare"),
   Req(<<>>, <<ghost, automake>>, "bare"),
   Req(<<grep>>, <<>>, "all"), Req(<<>>, <<>>, "bare")}

SharedRequests == [r \in Roots |-> IF r = r1 THEN EveryRequest ELSE {Automake}]
OrderRequests  == [r \in Roots |-> TwoOrders]
=============================================================================
