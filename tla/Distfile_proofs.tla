-------------------------- MODULE Distfile_proofs --------------------------
(***************************************************************************)
(* Proofs about Distfile: its type invariant, and that a pinned download   *)
(* gives the portfile exactly the pinned content, for any number of        *)
(* portfile runs, files, contents and any hash prefixes.                   *)
(***************************************************************************)
EXTENDS Distfile, TLAPS

(* A call under way passed the argument checks, and only a pinned call gets
   to the places where a hash is computed. *)
ArgumentsChecked ==
  \A p \in Procs :
     /\ pc[p] \in Active => ~BadArguments(req[p])
     /\ pc[p] \in {"verify", "probe2", "verify2"} => Pinned(req[p])

(* A call works on the plain name, or on the tagged one of its pinned hash. *)
NameOfCall ==
  \A p \in Procs : pc[p] \in Active =>
     \/ name[p] = Plain(req[p])
     \/ Pinned(req[p]) /\ name[p] = Retargeted(req[p])

(* Whoever overlaps with a disagreeing call is marked. *)
ContendedMarked ==
  \A p, q \in Procs :
     /\ p # q /\ pc[p] \in Active /\ pc[q] \in Active
     /\ Disagree(req[p], req[q])
     => p \in contended

(* What a call may find at its name once it has left the checks, if nobody
   contends: nothing, or the content it is pinned to.  A run that fetches
   without a pin saw no file. *)
SettledName ==
  \A p \in Procs :
     /\ pc[p] \in {"fetch", "ready"} /\ Pinned(req[p]) /\ p \notin contended
     => downloads[name[p]] \in {Absent, req[p].sha}

FetchOfMissing ==
  \A p \in Procs :
     /\ pc[p] = "fetch" /\ ~Pinned(req[p]) /\ ~req[p].always /\ p \notin contended
     => downloads[name[p]] = Absent

IInv ==
  /\ TypeOK /\ ArgumentsChecked /\ NameOfCall /\ ContendedMarked
  /\ SettledName /\ FetchOfMissing /\ PinnedUse

-----------------------------------------------------------------------------
LEMMA DisagreeSymmetric ==
  ASSUME NEW r, NEW s, Disagree(r, s)
  PROVE  Disagree(s, r)
BY DEF Disagree

(* The parts of a pinned, well-formed request. *)
LEMMA PinnedHash ==
  ASSUME NEW r \in Requests, Pinned(r), ~BadArguments(r)
  PROVE  r.sha \in Hashes /\ r.file \in Files /\ Tag[r.sha] \in Tags
BY HashAssumption, RequestAssumption DEF Request, Pinned, BadArguments, Hashes

LEMMA NamesOfRequest ==
  ASSUME NEW r \in Requests
  PROVE  /\ Plain(r) \in Names
         /\ Pinned(r) /\ ~BadArguments(r) => Retargeted(r) \in Names
BY PinnedHash, RequestAssumption DEF Request, Plain, Retargeted, Names

(* Two names in use that coincide are names of the same file. *)
LEMMA SameNameSameFile ==
  ASSUME NameOfCall, NEW p \in Procs, NEW q \in Procs,
         pc[p] \in Active, pc[q] \in Active, name[p] = name[q]
  PROVE  req[p].file = req[q].file
BY DEF NameOfCall, Plain, Retargeted

(* What x-download may write for an uncontended rival-free neighbour. *)
LEMMA FetchedByAgreeing ==
  ASSUME IInv, NEW p \in Procs, NEW q \in Procs, p # q,
         pc[p] \in Active, pc[q] \in Active, p \notin contended,
         name[p] = name[q]
  PROVE  Pinned(req[p]) /\ Pinned(req[q]) /\ req[p].sha = req[q].sha
BY SameNameSameFile DEF IInv, ContendedMarked, Disagree

-----------------------------------------------------------------------------
LEMMA TypesAtStart == Init => TypeOK /\ ArgumentsChecked
<1> SUFFICES ASSUME Init PROVE TypeOK /\ ArgumentsChecked
  OBVIOUS
<1>1. NoRequest \in Requests /\ Plain(NoRequest) \in Names
  BY RequestAssumption, NamesOfRequest
<1>2. QED
  BY <1>1 DEF Init, TypeOK, ArgumentsChecked, Places, Active

LEMMA TypesKept == TypeOK /\ ArgumentsChecked /\ [Next]_vars => (TypeOK /\ ArgumentsChecked)'
<1> SUFFICES ASSUME TypeOK, ArgumentsChecked, [Next]_vars
             PROVE  TypeOK' /\ ArgumentsChecked'
  OBVIOUS
<1> USE DEF TypeOK, ArgumentsChecked, Goto, Places, Active, Failed
<1>1. ASSUME NEW p \in Procs, NEW r \in Requests, Call(p, r)
      PROVE  TypeOK' /\ ArgumentsChecked'
  BY <1>1, NamesOfRequest DEF Call, Rivals
<1>2. ASSUME NEW p \in Procs, Probe(p)
      PROVE  TypeOK' /\ ArgumentsChecked'
  BY <1>2 DEF Probe
<1>3. ASSUME NEW p \in Procs, Verify(p)
      PROVE  TypeOK' /\ ArgumentsChecked'
  <2>1. CASE UNCHANGED name
    BY <1>3, <2>1 DEF Verify
  <2>2. CASE name' = [name EXCEPT ![p] = Retargeted(req[p])]
    BY <1>3, <2>2, NamesOfRequest DEF Verify
  <2>3. QED
    BY <1>3, <2>1, <2>2 DEF Verify
<1>4. ASSUME NEW p \in Procs, Probe2(p)
      PROVE  TypeOK' /\ ArgumentsChecked'
  BY <1>4 DEF Probe2
<1>5. ASSUME NEW p \in Procs, Verify2(p)
      PROVE  TypeOK' /\ ArgumentsChecked'
  BY <1>5 DEF Verify2
<1>6. ASSUME NEW p \in Procs, Fetch(p)
      PROVE  TypeOK' /\ ArgumentsChecked'
  BY <1>6 DEF Fetch, XDownload
<1>7. ASSUME NEW p \in Procs, Use(p)
      PROVE  TypeOK' /\ ArgumentsChecked'
  BY <1>7 DEF Use
<1>8. ASSUME NEW p \in Procs, Exit(p)
      PROVE  TypeOK' /\ ArgumentsChecked'
  <2>1. NoRequest \in Requests /\ Plain(NoRequest) \in Names
    BY RequestAssumption, NamesOfRequest
  <2>2. QED
    BY <1>8, <2>1 DEF Exit
<1>9. ASSUME NEW n \in Names, Delete(n)
      PROVE  TypeOK' /\ ArgumentsChecked'
  BY <1>9 DEF Delete
<1>10. CASE UNCHANGED vars
  BY <1>10 DEF vars
<1>11. QED
  BY <1>1, <1>2, <1>3, <1>4, <1>5, <1>6, <1>7, <1>8, <1>9, <1>10 DEF Next, Step

(* Type correctness of vcpkg_download_distfile's state. *)
THEOREM TypeCorrect == Spec => [](TypeOK /\ ArgumentsChecked)
BY TypesAtStart, TypesKept, PTL DEF Spec

-----------------------------------------------------------------------------
(* The invariant that makes a pinned download correct is inductive. *)
LEMMA InductiveInvariant ==
  IInv /\ TypeOK' /\ ArgumentsChecked' /\ [Next]_vars => IInv'
<1> SUFFICES ASSUME IInv, TypeOK', ArgumentsChecked', [Next]_vars PROVE IInv'
  OBVIOUS
<1> USE DEF TypeOK, Goto, Active
<1>1. ASSUME NEW p \in Procs, NEW r \in Requests, Call(p, r)
      PROVE  IInv'
  <2>1. NameOfCall'
    BY <1>1 DEF IInv, NameOfCall, Call
  <2>2. ContendedMarked'
    BY <1>1, DisagreeSymmetric DEF IInv, ContendedMarked, Call, Rivals
  <2>3. SettledName'
    BY <1>1 DEF IInv, SettledName, Call
  <2>4. FetchOfMissing'
    BY <1>1 DEF IInv, FetchOfMissing, Call
  <2>5. PinnedUse'
    BY <1>1 DEF IInv, PinnedUse, Call
  <2>6. QED
    BY <2>1, <2>2, <2>3, <2>4, <2>5 DEF IInv
<1>2. ASSUME NEW p \in Procs, Probe(p)
      PROVE  IInv'
  <2>1. NameOfCall'
    BY <1>2 DEF IInv, NameOfCall, Probe
  <2>2. ContendedMarked'
    BY <1>2 DEF IInv, ContendedMarked, Probe
  <2>3. SettledName'
    BY <1>2 DEF IInv, SettledName, Probe
  <2>4. FetchOfMissing'
    BY <1>2 DEF IInv, FetchOfMissing, Probe
  <2>5. PinnedUse'
    BY <1>2 DEF IInv, PinnedUse, Probe
  <2>6. QED
    BY <2>1, <2>2, <2>3, <2>4, <2>5 DEF IInv
<1>3. ASSUME NEW p \in Procs, Verify(p)
      PROVE  IInv'
  <2>1. NameOfCall'
    <3>1. Pinned(req[p])
      BY <1>3 DEF IInv, ArgumentsChecked, Verify
    <3>2. CASE UNCHANGED name
      BY <1>3, <3>2 DEF IInv, NameOfCall, Verify
    <3>3. CASE name' = [name EXCEPT ![p] = Retargeted(req[p])]
      BY <1>3, <3>1, <3>3 DEF IInv, NameOfCall, Verify
    <3>4. QED
      BY <1>3, <3>2, <3>3 DEF Verify
  <2>2. ContendedMarked'
    BY <1>3 DEF IInv, ContendedMarked, Verify
  <2>3. SettledName'
    BY <1>3 DEF IInv, SettledName, Verify
  <2>4. FetchOfMissing'
    BY <1>3 DEF IInv, FetchOfMissing, Verify
  <2>5. PinnedUse'
    BY <1>3 DEF IInv, PinnedUse, Verify
  <2>6. QED
    BY <2>1, <2>2, <2>3, <2>4, <2>5 DEF IInv
<1>4. ASSUME NEW p \in Procs, Probe2(p)
      PROVE  IInv'
  <2>1. NameOfCall'
    BY <1>4 DEF IInv, NameOfCall, Probe2
  <2>2. ContendedMarked'
    BY <1>4 DEF IInv, ContendedMarked, Probe2
  <2>3. SettledName'
    BY <1>4 DEF IInv, SettledName, Probe2
  <2>4. FetchOfMissing'
    BY <1>4 DEF IInv, FetchOfMissing, Probe2
  <2>5. PinnedUse'
    BY <1>4 DEF IInv, PinnedUse, Probe2
  <2>6. QED
    BY <2>1, <2>2, <2>3, <2>4, <2>5 DEF IInv
<1>5. ASSUME NEW p \in Procs, Verify2(p)
      PROVE  IInv'
  <2>1. NameOfCall'
    BY <1>5 DEF IInv, NameOfCall, Verify2
  <2>2. ContendedMarked'
    BY <1>5 DEF IInv, ContendedMarked, Verify2
  <2>3. SettledName'
    BY <1>5 DEF IInv, SettledName, Verify2
  <2>4. FetchOfMissing'
    BY <1>5 DEF IInv, FetchOfMissing, Verify2
  <2>5. PinnedUse'
    BY <1>5 DEF IInv, PinnedUse, Verify2
  <2>6. QED
    BY <2>1, <2>2, <2>3, <2>4, <2>5 DEF IInv
<1>6. ASSUME NEW p \in Procs, Fetch(p)
      PROVE  IInv'
  <2>1. NameOfCall'
    BY <1>6 DEF IInv, NameOfCall, Fetch, XDownload
  <2>2. ContendedMarked'
    BY <1>6 DEF IInv, ContendedMarked, Fetch, XDownload
  <2>3. SettledName'
    <3> SUFFICES ASSUME NEW q \in Procs, pc'[q] \in {"fetch", "ready"},
                        Pinned(req[q]), q \notin contended
                 PROVE  downloads'[name[q]] \in {Absent, req[q].sha}
      BY <1>6 DEF SettledName, Fetch
    <3>1. /\ pc[q] \in {"fetch", "ready"}
          /\ downloads[name[q]] \in {Absent, req[q].sha}
      BY <1>6 DEF IInv, SettledName, Fetch
    <3>2. CASE UNCHANGED downloads
      BY <3>1, <3>2
    <3>3. CASE XDownload(p)
      <4>1. name[p] = name[q] => Pinned(req[p]) /\ req[p].sha = req[q].sha
        BY <1>6, <3>1, FetchedByAgreeing DEF Fetch
      <4>2. PICK c \in IF Pinned(req[p]) THEN Contents \intersect {req[p].sha}
                       ELSE Contents :
                downloads' = [downloads EXCEPT ![name[p]] = c]
        BY <3>3 DEF XDownload
      <4>3. CASE name[p] = name[q]
        BY <4>1, <4>2, <4>3 DEF IInv
      <4>4. CASE name[p] # name[q]
        BY <3>1, <4>2, <4>4 DEF IInv
      <4>5. QED
        BY <4>3, <4>4
    <3>4. QED
      BY <1>6, <3>2, <3>3 DEF Fetch
  <2>4. FetchOfMissing'
    <3> SUFFICES ASSUME NEW q \in Procs, pc'[q] = "fetch", ~Pinned(req[q]),
                        ~req[q].always, q \notin contended
                 PROVE  downloads'[name[q]] = Absent
      BY <1>6 DEF FetchOfMissing, Fetch
    <3>1. q # p /\ pc[q] = "fetch" /\ downloads[name[q]] = Absent
      BY <1>6 DEF IInv, FetchOfMissing, Fetch
    <3>2. name[p] # name[q]
      BY <1>6, <3>1, FetchedByAgreeing DEF Fetch
    <3>3. QED
      BY <1>6, <3>1, <3>2 DEF IInv, Fetch, XDownload
  <2>5. PinnedUse'
    BY <1>6 DEF IInv, PinnedUse, Fetch, XDownload
  <2>6. QED
    BY <2>1, <2>2, <2>3, <2>4, <2>5 DEF IInv
<1>7. ASSUME NEW p \in Procs, Use(p)
      PROVE  IInv'
  <2>1. NameOfCall'
    BY <1>7 DEF IInv, NameOfCall, Use
  <2>2. ContendedMarked'
    BY <1>7 DEF IInv, ContendedMarked, Use
  <2>3. SettledName'
    BY <1>7 DEF IInv, SettledName, Use
  <2>4. FetchOfMissing'
    BY <1>7 DEF IInv, FetchOfMissing, Use
  <2>5. PinnedUse'
    BY <1>7 DEF IInv, SettledName, PinnedUse, Use
  <2>6. QED
    BY <2>1, <2>2, <2>3, <2>4, <2>5 DEF IInv
<1>8. ASSUME NEW p \in Procs, Exit(p)
      PROVE  IInv'
  <2>1. NameOfCall'
    BY <1>8 DEF IInv, NameOfCall, Exit
  <2>2. ContendedMarked'
    BY <1>8 DEF IInv, ContendedMarked, Exit
  <2>3. SettledName'
    BY <1>8 DEF IInv, SettledName, Exit
  <2>4. FetchOfMissing'
    BY <1>8 DEF IInv, FetchOfMissing, Exit
  <2>5. PinnedUse'
    BY <1>8 DEF IInv, PinnedUse, Exit
  <2>6. QED
    BY <2>1, <2>2, <2>3, <2>4, <2>5 DEF IInv
<1>9. ASSUME NEW n \in Names, Delete(n)
      PROVE  IInv'
  <2>1. NameOfCall'
    BY <1>9 DEF IInv, NameOfCall, Delete
  <2>2. ContendedMarked'
    BY <1>9 DEF IInv, ContendedMarked, Delete
  <2>3. SettledName'
    BY <1>9 DEF IInv, SettledName, Delete
  <2>4. FetchOfMissing'
    BY <1>9 DEF IInv, FetchOfMissing, Delete
  <2>5. PinnedUse'
    BY <1>9 DEF IInv, PinnedUse, Delete
  <2>6. QED
    BY <2>1, <2>2, <2>3, <2>4, <2>5 DEF IInv
<1>10. CASE UNCHANGED vars
  BY <1>10 DEF vars, IInv, ArgumentsChecked, NameOfCall, ContendedMarked,
               SettledName, FetchOfMissing, PinnedUse
<1>11. QED
  BY <1>1, <1>2, <1>3, <1>4, <1>5, <1>6, <1>7, <1>8, <1>9, <1>10 DEF Next, Step

-----------------------------------------------------------------------------
LEMMA InvariantAtStart == Init => IInv
BY TypesAtStart DEF Init, IInv, NameOfCall, ContendedMarked, SettledName,
                    FetchOfMissing, PinnedUse, Active

LEMMA InvariantKept == IInv /\ [Next]_vars => IInv'
BY TypesKept, InductiveInvariant DEF IInv

LEMMA InvariantHolds == Spec => []IInv
BY InvariantAtStart, InvariantKept, PTL DEF Spec

(* vcpkg_download_distfile: whatever DOWNLOADS held at the start, and however
   other roots, deletions and kills interleave, a portfile that pinned a
   SHA512 and met no disagreeing call reads the pinned content. *)
THEOREM PinnedUseCorrect == Spec => []PinnedUse
<1>1. IInv => PinnedUse
  BY DEF IInv
<1>2. QED
  BY <1>1, InvariantHolds, PTL

(* No call but a requested re-download or a contended one replaces a cached
   file by another content. *)
THEOREM NoClobberCorrect == Spec => NoClobber
<1> DEFINE Clobbers(p, n) ==
      /\ pc[p] = "fetch" /\ pc'[p] = "ready"
      /\ downloads[n] # Absent /\ downloads'[n] # downloads[n]
<1>1. ASSUME IInv, [Next]_vars, NEW p \in Procs, NEW n \in Names, Clobbers(p, n)
      PROVE  req[p].always \/ p \in contended
  <2>1. Fetch(p) /\ XDownload(p)
    BY <1>1 DEF IInv, TypeOK, Next, Step, vars, Goto, Call, Probe, Verify, Probe2,
                Verify2, Fetch, Use, Exit, Delete
  <2>2. PICK c \in IF Pinned(req[p]) THEN Contents \intersect {req[p].sha}
                   ELSE Contents :
            downloads' = [downloads EXCEPT ![name[p]] = c]
    BY <2>1 DEF XDownload
  <2>3. n = name[p]
    BY <1>1, <2>2 DEF IInv, TypeOK
  <2>4. CASE Pinned(req[p])
    BY <1>1, <2>2, <2>3, <2>4 DEF IInv, SettledName, TypeOK
  <2>5. CASE ~Pinned(req[p])
    BY <1>1, <2>3, <2>5 DEF IInv, FetchOfMissing
  <2>6. QED
    BY <2>4, <2>5
<1>2. IInv /\ [Next]_vars =>
        [\A p \in Procs, n \in Names :
           Clobbers(p, n) => req[p].always \/ p \in contended]_vars
  BY <1>1
<1>3. QED
  BY <1>2, InvariantHolds, PTL DEF Spec, NoClobber

(* A name tagged with the prefix of one hash never receives a content whose
   hash has another prefix. *)
THEOREM RetargetSoundCorrect == Spec => RetargetSound
<1> DEFINE Filled(n) ==
      n[2] # NoTag /\ downloads'[n] # downloads[n] /\ downloads'[n] # Absent
<1>1. ASSUME IInv, [Next]_vars, NEW n \in Names, Filled(n)
      PROVE  Tag[downloads'[n]] = n[2]
  <2>1. PICK p \in Procs : Fetch(p) /\ XDownload(p)
    BY <1>1 DEF IInv, TypeOK, Next, Step, vars, Goto, Call, Probe, Verify, Probe2,
                Verify2, Fetch, Use, Exit, Delete
  <2>2. PICK c \in IF Pinned(req[p]) THEN Contents \intersect {req[p].sha}
                   ELSE Contents :
            downloads' = [downloads EXCEPT ![name[p]] = c]
    BY <2>1 DEF XDownload
  <2>3. n = name[p] /\ downloads'[n] = c
    BY <1>1, <2>2 DEF IInv, TypeOK
  <2>4. Pinned(req[p]) /\ n = Retargeted(req[p])
    BY <1>1, <2>1, <2>3 DEF IInv, NameOfCall, Fetch, Active, Plain
  <2>5. QED
    BY <2>2, <2>3, <2>4 DEF Retargeted
<1>2. IInv /\ [Next]_vars =>
        [\A n \in Names : Filled(n) => Tag[downloads'[n]] = n[2]]_vars
  BY <1>1
<1>3. QED
  BY <1>2, InvariantHolds, PTL DEF Spec, RetargetSound

(* vcpkg_download_distfile says that a file does not exist, when downloads are
   disabled, only of one that it has looked for and not found, for any number
   of roots; calls that disagree and ALWAYS_REDOWNLOAD are left out. *)
THEOREM DisabledWasMissingCorrect == Spec => DisabledWasMissing
<1>1. ASSUME IInv, NEW p \in Procs, pc[p] = "fetch", ~req[p].always, p \notin contended
      PROVE  downloads[name[p]] \in {Absent, req[p].sha}
  BY <1>1 DEF IInv, SettledName, FetchOfMissing
<1>2. IInv /\ [Next]_vars =>
        [\A p \in Procs :
           /\ pc[p] = "fetch" /\ pc'[p] = "disabled"
           /\ ~req[p].always /\ p \notin contended
           => downloads[name[p]] \in {Absent, req[p].sha}]_vars
  BY <1>1
<1>3. QED
  BY <1>2, InvariantHolds, PTL DEF Spec, DisabledWasMissing
=============================================================================
