-------------------------- MODULE MsysRoot_proofs --------------------------
(***************************************************************************)
(* Proofs about MsysRoot: the resolver finds the least set of packages     *)
(* that serves a call, and a root that exists is complete, for every set   *)
(* of packages, dependencies, aliases and calls.                           *)
(***************************************************************************)
EXTENDS MsysRoot, FiniteSetTheorems, SequenceTheorems, TLAPS

(* The elements at some positions of a list make a list of these elements: the
   positions are numbered by how many there are up to each of them, and this
   numbering is one to one. *)
LEMMA AtElements ==
  ASSUME NEW X, NEW s \in Seq(X), NEW I \in SUBSET DOMAIN s
  PROVE  /\ At(s, I) \in Seq(X)
         /\ Elements(At(s, I)) = {s[i] : i \in I}
         /\ \A k \in DOMAIN At(s, I) : \E i \in I :
              /\ At(s, I)[k] = s[i]
              /\ \A l \in DOMAIN At(s, I) \ {k} : \E j \in I \ {i} : At(s, I)[l] = s[j]
<1> DEFINE upTo(i) == {j \in I : j <= i}
<1> DEFINE rank == [i \in I |-> Cardinality(upTo(i))]
<1> DEFINE n == Cardinality(I)
<1>1. DOMAIN s = 1 .. Len(s) /\ Len(s) \in Nat
  BY LenProperties
<1>2. IsFiniteSet(I) /\ n \in Nat
  <2>1. IsFiniteSet(1 .. Len(s))
    BY <1>1, FS_Interval
  <2>2. IsFiniteSet(I)
    BY <2>1, <1>1, FS_Subset
  <2> QED
    BY <2>2, FS_CardinalityType
<1>3. \A i \in I : IsFiniteSet(upTo(i)) /\ Cardinality(upTo(i)) \in 1 .. n
  <2> SUFFICES ASSUME NEW i \in I
               PROVE  IsFiniteSet(upTo(i)) /\ Cardinality(upTo(i)) \in 1 .. n
    OBVIOUS
  <2>1. upTo(i) \in SUBSET I
    OBVIOUS
  <2>2. IsFiniteSet(upTo(i)) /\ Cardinality(upTo(i)) <= n
    BY <2>1, <1>2, FS_Subset
  <2>3. Cardinality(upTo(i)) \in Nat
    BY <2>2, FS_CardinalityType
  <2>4. i \in upTo(i)
    BY <1>1
  <2>5. Cardinality(upTo(i)) # 0
    BY <2>4, <2>2, FS_EmptySet
  <2> HIDE DEF upTo
  <2> QED
    BY <2>2, <2>3, <2>5, <1>2
<1>4. \A i, j \in I : Cardinality(upTo(i)) = Cardinality(upTo(j)) => i = j
  <2>1. ASSUME NEW i \in I, NEW j \in I, i < j
        PROVE  Cardinality(upTo(i)) # Cardinality(upTo(j))
    <3>1. upTo(i) \in SUBSET upTo(j)
      BY <2>1, <1>1
    <3>2. j \in upTo(j) /\ j \notin upTo(i)
      BY <2>1, <1>1
    <3>3. IsFiniteSet(upTo(j))
      BY <1>3
    <3> HIDE DEF upTo
    <3> QED
      BY <3>1, <3>2, <3>3, FS_Subset
  <2>2. \A i, j \in I : i < j \/ j < i \/ i = j
    BY <1>1
  <2> HIDE DEF upTo
  <2> QED
    BY <2>1, <2>2
<1>5. rank \in Injection(I, 1 .. n)
  <2> HIDE DEF upTo
  <2>1. rank \in [I -> 1 .. n]
    BY <1>3
  <2> QED
    BY <2>1, <1>4 DEF Injection, IsInjective
<1>6. rank \in Surjection(I, 1 .. n)
  <2>1. IsFiniteSet(1 .. n) /\ Cardinality(1 .. n) = n
    BY <1>2, FS_Interval
  <2> HIDE DEF rank, n
  <2> QED
    BY <2>1, <1>5, FS_Injection DEF n
<1>7. \A k \in 1 .. n : \E i \in I : Cardinality(upTo(i)) = k
  <2> HIDE DEF upTo, n
  <2> QED
    BY <1>6 DEF Surjection
<1> DEFINE place(k) == CHOOSE i \in I : Cardinality(upTo(i)) = k
<1>8. \A k \in 1 .. n : place(k) \in I /\ Cardinality(upTo(place(k))) = k
  <2> HIDE DEF upTo, n
  <2> QED
    BY <1>7
<1>9. \A i \in I : \E k \in 1 .. n : place(k) = i
  <2> SUFFICES ASSUME NEW i \in I
               PROVE  \E k \in 1 .. n : place(k) = i
    OBVIOUS
  <2> DEFINE k == Cardinality(upTo(i))
  <2>1. k \in 1 .. n
    BY <1>3
  <2>2. place(k) \in I /\ Cardinality(upTo(place(k))) = k
    BY <2>1, <1>8
  <2> HIDE DEF upTo, n, place
  <2> QED
    BY <2>1, <2>2, <1>4
<1>10. At(s, I) = [k \in 1 .. n |-> s[place(k)]]
  BY DEF At
<1> HIDE DEF place, n, upTo
<1>11. At(s, I) \in [1 .. n -> X]
  <2>1. \A k \in 1 .. n : s[place(k)] \in X
    BY <1>8, <1>1, ElementOfSeq
  <2> QED
    BY <1>10, <2>1
<1>12. At(s, I) \in Seq(X)
  BY <1>11, <1>2
<1>13. Elements(At(s, I)) = {s[i] : i \in I}
  BY <1>8, <1>9, <1>10 DEF Elements
<1>14. \A k \in 1 .. n :
         /\ place(k) \in I /\ At(s, I)[k] = s[place(k)]
         /\ \A l \in 1 .. n : place(l) = place(k) => l = k
  BY <1>8, <1>10
<1>15. DOMAIN At(s, I) = 1 .. n
  BY <1>10
<1>16. ASSUME NEW k \in 1 .. n
       PROVE  \E i \in I : /\ At(s, I)[k] = s[i]
                           /\ \A l \in (1 .. n) \ {k} : \E j \in I \ {i} : At(s, I)[l] = s[j]
  <2>1. \A l \in (1 .. n) \ {k} : place(l) \in I \ {place(k)} /\ At(s, I)[l] = s[place(l)]
    BY <1>14
  <2> QED
    BY <1>14, <2>1
<1> QED
  BY <1>12, <1>13, <1>15, <1>16

-----------------------------------------------------------------------------
(* Lists and the sets of their elements. *)

LEMMA EmptyElements == Elements(<<>>) = {}
BY DEF Elements

LEMMA HeadAndTail ==
  ASSUME NEW X, NEW s \in Seq(X), s # <<>>
  PROVE  /\ Head(s) \in X /\ Tail(s) \in Seq(X)
         /\ Elements(s) = {Head(s)} \union Elements(Tail(s))
<1>1. Len(s) \in Nat /\ Len(s) > 0 /\ DOMAIN s = 1 .. Len(s)
  BY EmptySeq, LenProperties
<1>2. Tail(s) \in Seq(X) /\ Len(Tail(s)) = Len(s) - 1
  OBVIOUS
<1>3. \A i \in 1 .. Len(s) - 1 : Tail(s)[i] = s[i + 1]
  OBVIOUS
<1>4. Head(s) = s[1] /\ s[1] \in X
  BY <1>1, ElementOfSeq
<1>5. DOMAIN Tail(s) = 1 .. Len(s) - 1
  BY <1>2, LenProperties
<1>6. ASSUME NEW x \in Elements(s)
      PROVE  x = Head(s) \/ x \in Elements(Tail(s))
  <2>1. PICK i \in 1 .. Len(s) : x = s[i]
    BY <1>1, <1>6 DEF Elements
  <2>2. i # 1 => i - 1 \in 1 .. Len(s) - 1 /\ Tail(s)[i - 1] = s[i]
    BY <1>1, <1>3
  <2> QED
    BY <2>1, <2>2, <1>4, <1>5 DEF Elements
<1>7. Elements(Tail(s)) \subseteq Elements(s) /\ Head(s) \in Elements(s)
  BY <1>1, <1>3, <1>4, <1>5 DEF Elements
<1> QED
  BY <1>2, <1>4, <1>6, <1>7

LEMMA AppendElements ==
  ASSUME NEW X, NEW s \in Seq(X), NEW e \in X
  PROVE  Append(s, e) \in Seq(X) /\ Elements(Append(s, e)) = Elements(s) \union {e}
<1>1. Len(s) \in Nat /\ DOMAIN s = 1 .. Len(s)
  BY LenProperties
<1>2. Append(s, e) \in Seq(X) /\ Len(Append(s, e)) = Len(s) + 1
  OBVIOUS
<1>3. \A i \in 1 .. Len(s) : Append(s, e)[i] = s[i]
  OBVIOUS
<1>4. Append(s, e)[Len(s) + 1] = e
  OBVIOUS
<1>5. DOMAIN Append(s, e) = 1 .. Len(s) + 1
  BY <1>2, LenProperties
<1>6. \A i \in 1 .. Len(s) + 1 : i \in 1 .. Len(s) \/ i = Len(s) + 1
  BY <1>1
<1> QED
  BY <1>1, <1>2, <1>3, <1>4, <1>5, <1>6 DEF Elements

LEMMA ConcatElements ==
  ASSUME NEW X, NEW s \in Seq(X), NEW t \in Seq(X)
  PROVE  s \o t \in Seq(X) /\ Elements(s \o t) = Elements(s) \union Elements(t)
<1>1. /\ Len(s) \in Nat /\ DOMAIN s = 1 .. Len(s)
      /\ Len(t) \in Nat /\ DOMAIN t = 1 .. Len(t)
  BY LenProperties
<1>2. /\ s \o t \in Seq(X) /\ Len(s \o t) = Len(s) + Len(t)
      /\ \A i \in 1 .. Len(s) + Len(t) :
           (s \o t)[i] = IF i <= Len(s) THEN s[i] ELSE t[i - Len(s)]
  BY ConcatProperties
<1>3. DOMAIN (s \o t) = 1 .. Len(s) + Len(t)
  BY <1>2, LenProperties
<1>4. Elements(s \o t) \subseteq Elements(s) \union Elements(t)
  BY <1>1, <1>2, <1>3 DEF Elements
<1>5. Elements(s) \subseteq Elements(s \o t)
  BY <1>1, <1>2, <1>3 DEF Elements
<1>6. ASSUME NEW i \in 1 .. Len(t)
      PROVE  t[i] \in Elements(s \o t)
  <2>1. Len(s) + i \in 1 .. Len(s) + Len(t) /\ (s \o t)[Len(s) + i] = t[i]
    BY <1>1, <1>2
  <2> QED
    BY <2>1, <1>3 DEF Elements
<1> QED
  BY <1>1, <1>2, <1>4, <1>5, <1>6 DEF Elements

LEMMA ElementsType ==
  ASSUME NEW X, NEW s \in Seq(X)
  PROVE  Elements(s) \subseteq X
BY LenProperties, ElementOfSeq DEF Elements

LEMMA WithoutElements ==
  ASSUME NEW X, NEW s \in Seq(X), NEW S
  PROVE  Without(s, S) \in Seq(X) /\ Elements(Without(s, S)) = Elements(s) \ S
<1> DEFINE I == {i \in DOMAIN s : s[i] \notin S}
<1>1. At(s, I) \in Seq(X) /\ Elements(At(s, I)) = {s[i] : i \in I}
  BY AtElements
<1>2. {s[i] : i \in I} = Elements(s) \ S
  BY DEF Elements
<1> QED
  BY <1>1, <1>2 DEF Without

LEMMA DistinctType ==
  ASSUME NEW X, NEW s \in Seq(X)
  PROVE  Distinct(s) \in Seq(X)
<1> DEFINE I == {i \in DOMAIN s : \A j \in 1 .. i - 1 : s[j] # s[i]}
<1>1. At(s, I) \in Seq(X)
  BY AtElements
<1> QED
  BY <1>1 DEF Distinct

-----------------------------------------------------------------------------
(* How often an element occurs in a list. *)

Once(s, p) == \A i, j \in DOMAIN s : s[i] = p /\ s[j] = p => i = j

LEMMA OnceEmpty == \A p : Once(<<>>, p)
BY DEF Once

LEMMA OnceWithout ==
  ASSUME NEW X, NEW s \in Seq(X), NEW S, NEW p, Once(s, p)
  PROVE  Once(Without(s, S), p)
<1> DEFINE I == {i \in DOMAIN s : s[i] \notin S}
           t == At(s, I)
<1>1. \A k \in DOMAIN t : \E i \in I :
        /\ t[k] = s[i]
        /\ \A l \in DOMAIN t \ {k} : \E j \in I \ {i} : t[l] = s[j]
  <2>1. I \in SUBSET DOMAIN s
    OBVIOUS
  <2> HIDE DEF I
  <2> QED
    BY <2>1, AtElements
<1>2. I \subseteq DOMAIN s /\ Without(s, S) = t
  BY DEF Without
<1> HIDE DEF I, t
<1> QED
  BY <1>1, <1>2 DEF Once

LEMMA OnceDistinct ==
  ASSUME NEW X, NEW s \in Seq(X), NEW p
  PROVE  Once(Distinct(s), p)
<1> DEFINE I == {i \in DOMAIN s : \A j \in 1 .. i - 1 : s[j] # s[i]}
           t == At(s, I)
<1>1. \A k \in DOMAIN t : \E i \in I :
        /\ t[k] = s[i]
        /\ \A l \in DOMAIN t \ {k} : \E j \in I \ {i} : t[l] = s[j]
  <2>1. I \in SUBSET DOMAIN s
    OBVIOUS
  <2> HIDE DEF I
  <2> QED
    BY <2>1, AtElements
<1>2. \A i, j \in I : s[i] = s[j] => i = j
  <2>1. DOMAIN s = 1 .. Len(s) /\ Len(s) \in Nat
    BY LenProperties
  <2>2. \A i, j \in I : i < j => s[i] # s[j]
    BY <2>1
  <2>3. \A i, j \in I : i < j \/ j < i \/ i = j
    BY <2>1
  <2> HIDE DEF I
  <2> QED
    BY <2>2, <2>3
<1>3. Distinct(s) = t
  BY DEF Distinct
<1> HIDE DEF I, t
<1> QED
  BY <1>1, <1>2, <1>3 DEF Once

LEMMA OnceTail ==
  ASSUME NEW X, NEW s \in Seq(X), s # <<>>, NEW p, Once(s, p)
  PROVE  /\ Once(Tail(s), p)
         /\ Head(s) = p => p \notin Elements(Tail(s))
<1>1. Len(s) \in Nat /\ Len(s) > 0 /\ DOMAIN s = 1 .. Len(s)
  BY EmptySeq, LenProperties
<1>2. Tail(s) \in Seq(X) /\ Len(Tail(s)) = Len(s) - 1 /\ Head(s) = s[1]
  OBVIOUS
<1>3. \A i \in 1 .. Len(s) - 1 : Tail(s)[i] = s[i + 1]
  OBVIOUS
<1>4. DOMAIN Tail(s) = 1 .. Len(s) - 1
  BY <1>2, LenProperties
<1>5. \A i \in DOMAIN Tail(s) : i + 1 \in DOMAIN s /\ i + 1 # 1 /\ Tail(s)[i] = s[i + 1] /\ i \in Nat
  BY <1>1, <1>3, <1>4
<1>6. 1 \in DOMAIN s
  BY <1>1
<1>7. Once(Tail(s), p)
  <2>1. SUFFICES ASSUME NEW i \in DOMAIN Tail(s), NEW j \in DOMAIN Tail(s),
                        Tail(s)[i] = p, Tail(s)[j] = p
                 PROVE  i = j
    BY DEF Once
  <2>2. i + 1 = j + 1
    BY <1>5, <2>1 DEF Once
  <2> QED
    BY <1>5, <2>2
<1> QED
  BY <1>2, <1>5, <1>6, <1>7 DEF Once, Elements

LEMMA OnceAppend ==
  ASSUME NEW X, NEW s \in Seq(X), NEW e \in X, NEW p, Once(s, p), e = p => p \notin Elements(s)
  PROVE  Once(Append(s, e), p)
<1>1. Len(s) \in Nat /\ DOMAIN s = 1 .. Len(s)
  BY LenProperties
<1>2. Append(s, e) \in Seq(X) /\ Len(Append(s, e)) = Len(s) + 1
  OBVIOUS
<1>3. \A i \in 1 .. Len(s) : Append(s, e)[i] = s[i]
  OBVIOUS
<1>4. Append(s, e)[Len(s) + 1] = e
  OBVIOUS
<1>5. DOMAIN Append(s, e) = 1 .. Len(s) + 1
  BY <1>2, LenProperties
<1>6. \A i \in DOMAIN Append(s, e) :
        \/ i \in DOMAIN s /\ Append(s, e)[i] = s[i]
        \/ i = Len(s) + 1 /\ Append(s, e)[i] = e
  BY <1>1, <1>3, <1>4, <1>5
<1> QED
  BY <1>6 DEF Once, Elements

LEMMA OnceConcat ==
  ASSUME NEW X, NEW s \in Seq(X), NEW t \in Seq(X), NEW p, Once(s, p), Once(t, p),
         p \notin Elements(s) \intersect Elements(t)
  PROVE  Once(s \o t, p)
<1>1. /\ Len(s) \in Nat /\ DOMAIN s = 1 .. Len(s)
      /\ Len(t) \in Nat /\ DOMAIN t = 1 .. Len(t)
  BY LenProperties
<1>2. /\ s \o t \in Seq(X) /\ Len(s \o t) = Len(s) + Len(t)
      /\ \A i \in 1 .. Len(s) + Len(t) :
           (s \o t)[i] = IF i <= Len(s) THEN s[i] ELSE t[i - Len(s)]
  BY ConcatProperties
<1>3. DOMAIN (s \o t) = 1 .. Len(s) + Len(t)
  BY <1>2, LenProperties
<1>4. \A i \in DOMAIN (s \o t) :
        \/ i \in DOMAIN s /\ (s \o t)[i] = s[i]
        \/ i > Len(s) /\ i - Len(s) \in DOMAIN t /\ (s \o t)[i] = t[i - Len(s)]
  BY <1>1, <1>2, <1>3
<1>5. SUFFICES ASSUME NEW i \in DOMAIN (s \o t), NEW j \in DOMAIN (s \o t),
                      (s \o t)[i] = p, (s \o t)[j] = p
               PROVE  i = j
  BY DEF Once
<1>6. CASE i \in DOMAIN s /\ j \in DOMAIN s /\ s[i] = p /\ s[j] = p
  BY <1>6 DEF Once
<1>7. CASE /\ i - Len(s) \in DOMAIN t /\ j - Len(s) \in DOMAIN t
           /\ t[i - Len(s)] = p /\ t[j - Len(s)] = p
  <2>1. i - Len(s) = j - Len(s)
    BY <1>7 DEF Once
  <2> QED
    BY <1>1, <1>3, <2>1
<1> QED
  BY <1>4, <1>5, <1>6, <1>7 DEF Elements

-----------------------------------------------------------------------------
(* Calls. *)

LEMMA CallType ==
  ASSUME NEW r \in Roots, NEW q \in Requests[r]
  PROVE  /\ q.direct \in Seq(Packages) /\ q.extra \in Seq(Packages)
         /\ q.packages \in Seq(Names) /\ q.mode \in {"default", "bare", "all"}
BY RequestAssumption DEF Request

LEMMA RequestedType ==
  ASSUME NEW r \in Roots, NEW q \in Requests[r]
  PROVE  Requested(r, q) \in Seq(Names)
<1>1. /\ q.direct \in Seq(Packages) /\ q.extra \in Seq(Packages)
      /\ q.packages \in Seq(Names) /\ q.mode \in {"default", "bare", "all"}
  BY CallType
<1>2. q.direct \in Seq(Names)
  BY <1>1, SeqMonotonic DEF Names
<1>3. Without(Declared \o q.extra, direct[r]) \in Seq(Names)
  <2>1. Declared \o q.extra \in Seq(Packages)
    BY <1>1, ConcatElements, PackageAssumption
  <2>2. Without(Declared \o q.extra, direct[r]) \in Seq(Packages)
    BY <2>1, WithoutElements
  <2> QED
    BY <2>2, SeqMonotonic DEF Names
<1>4. q.packages \o Defaults \in Seq(Names)
  BY <1>1, ConcatElements, PackageAssumption
<1> DEFINE t == CASE q.mode = "all"     -> Without(Declared \o q.extra, direct[r])
                  [] q.mode = "default" -> q.packages \o Defaults
                  [] q.mode = "bare"    -> q.packages
<1>5. t \in Seq(Names)
  BY <1>1, <1>3, <1>4
<1>6. Requested(r, q) = q.direct \o t
  BY DEF Requested
<1> HIDE DEF t
<1> QED
  BY <1>2, <1>5, <1>6, ConcatElements

LEMMA BacklogType ==
  ASSUME NEW r \in Roots, NEW q \in Requests[r]
  PROVE  FirstBacklog(Requested(r, q)) \in Seq(Names)
<1>1. Distinct(Requested(r, q)) \in Seq(Names)
  BY RequestedType, DistinctType
<1>2. Append(Distinct(Requested(r, q)), Runtime) \in Seq(Names)
  BY <1>1, AppendElements, PackageAssumption
<1> QED
  BY <1>1, <1>2 DEF FirstBacklog

-----------------------------------------------------------------------------
(* Types. *)

USE DEF vars, script, lists, disk, Goto

ScriptType ==
  /\ pc \in [Roots -> Places]
  /\ direct \in [Roots -> SUBSET Packages] /\ available \in [Roots -> SUBSET Packages]
  /\ asked \in [Roots -> SUBSET Names]
  /\ backlog \in [Roots -> Seq(Names)] /\ resolved \in [Roots -> Seq(Packages)]
  /\ unknown \in [Roots -> BOOLEAN] /\ next \in [Roots -> Nat]

(* The directories are written by five actions, none of which touches the lists
   of a run. *)
DiskSteps(r) == Clean(r) \/ Unpack(r) \/ Patch(r) \/ Install(r) \/ WriteFstab(r) \/ RemoveHints(r)
ListSteps(r) == Resolve(r) \/ Exit(r) \/ \E q \in Requests[r] : Call(r, q)
Refuse(r)     == \E q \in Requests[r] : Redeclare(r, q)
PlaceSteps(r) == EndOfLoop(r) \/ Probe(r) \/ EndOfUnpack(r) \/ Refuse(r)

LEMMA StepKinds ==
  ASSUME Next
  PROVE  \E r \in Roots : ListSteps(r) \/ PlaceSteps(r) \/ DiskSteps(r)
BY DEF Next, Step, ListSteps, PlaceSteps, Refuse, DiskSteps

LEMMA TargetType ==
  ASSUME ScriptType, NEW r \in Roots, NEW name \in Names
  PROVE  Target(r, name) \in Names
BY PackageAssumption DEF Target, IsAlias, Names

LEMMA DepsType ==
  ASSUME ScriptType, NEW r \in Roots, NEW p \in Packages
  PROVE  DepsOf(r, p) \in Seq(Names)
BY PackageAssumption, EmptySeq DEF DepsOf

(* What a turn of the loop does, in terms of sets. *)
LEMMA TakeEffect ==
  ASSUME ScriptType, NEW r \in Roots, backlog[r] # <<>>, Take(r)
  PROVE  \E name \in available[r], rest \in Seq(Names), new \in Seq(Names) :
           /\ name = Target(r, Head(backlog[r]))
           /\ rest = Tail(backlog[r])
           /\ \A p : Once(DepsOf(r, name), p) => Once(new, p)
           /\ Elements(new) = Elements(DepsOf(r, name))
                                 \ (Elements(resolved[r]) \union {name} \union Elements(rest))
           /\ resolved' = [resolved EXCEPT ![r] = Append(@, name)]
           /\ backlog' = [backlog EXCEPT ![r] = rest \o new]
           /\ unknown' = unknown
<1> DEFINE name == Target(r, Head(backlog[r]))
           rest == Tail(backlog[r])
           done == Append(resolved[r], name)
           new  == Without(DepsOf(r, name), Elements(done) \union Elements(rest))
<1>1. name \in available[r] /\ name \in Packages
  BY DEF Take, ScriptType
<1>2. rest \in Seq(Names)
  BY HeadAndTail DEF ScriptType
<1>3. Elements(done) = Elements(resolved[r]) \union {name}
  BY <1>1, AppendElements DEF ScriptType
<1>4. /\ new \in Seq(Names)
      /\ Elements(new) = Elements(DepsOf(r, name)) \ (Elements(done) \union Elements(rest))
  BY <1>1, DepsType, WithoutElements
<1>5. /\ resolved' = [resolved EXCEPT ![r] = Append(@, name)]
      /\ backlog' = [backlog EXCEPT ![r] = rest \o new]
      /\ unknown' = unknown
  BY DEF Take, ScriptType
<1>8. \A p : Once(DepsOf(r, name), p) => Once(new, p)
  BY <1>1, DepsType, OnceWithout
<1> HIDE DEF name, rest, new, done
<1>6. Elements(new) = Elements(DepsOf(r, name))
                        \ (Elements(resolved[r]) \union {name} \union Elements(rest))
  BY <1>3, <1>4
<1>7. name = Target(r, Head(backlog[r])) /\ rest = Tail(backlog[r])
  BY DEF name, rest
<1> USE <1>1, <1>2, <1>4
<1> WITNESS name \in available[r], rest \in Seq(Names), new \in Seq(Names)
<1> QED
  BY <1>5, <1>6, <1>7, <1>8

LEMMA ScriptTypeStep ==
  ASSUME ScriptType, [Next]_vars
  PROVE  ScriptType'
<1>1. CASE UNCHANGED vars
  BY <1>1 DEF ScriptType
<1>2. ASSUME NEW r \in Roots, ListSteps(r)
      PROVE  ScriptType'
  <2>1. CASE Resolve(r)
    <3>1. UNCHANGED <<pc, direct, available, asked, next>> /\ backlog[r] # <<>>
      BY <2>1 DEF Resolve
    <3>2. Tail(backlog[r]) \in Seq(Names)
      BY <3>1, HeadAndTail DEF ScriptType
    <3>3. CASE Skip(r) \/ NoteUnknown(r)
      BY <3>1, <3>2, <3>3 DEF Skip, NoteUnknown, ScriptType
    <3>4. CASE Take(r)
      <4>1. PICK name \in available[r], rest \in Seq(Names), new \in Seq(Names) :
               /\ resolved' = [resolved EXCEPT ![r] = Append(@, name)]
               /\ backlog' = [backlog EXCEPT ![r] = rest \o new]
               /\ unknown' = unknown
        BY <3>1, <3>4, TakeEffect
      <4>2. rest \o new \in Seq(Names)
        BY ConcatElements
      <4>3. Append(resolved[r], name) \in Seq(Packages)
        BY AppendElements DEF ScriptType
      <4> QED
        BY <3>1, <4>1, <4>2, <4>3 DEF ScriptType
    <3> QED
      BY <2>1, <3>3, <3>4 DEF Resolve
  <2>2. CASE Exit(r)
    BY <2>2, EmptySeq DEF Exit, ScriptType, Places
  <2>3. ASSUME NEW q \in Requests[r], Call(r, q)
        PROVE  ScriptType'
    <3>1. FirstBacklog(Requested(r, q)) \in Seq(Names)
      BY BacklogType
    <3>2. Elements(FirstBacklog(Requested(r, q))) \subseteq Names
      BY <3>1, ElementsType
    <3>3. Elements(q.direct) \subseteq Packages
      BY CallType, ElementsType
    <3>4. Elements(Declared \o q.extra) \subseteq Packages
      BY CallType, ConcatElements, ElementsType, PackageAssumption
    <3>5. <<>> \in Seq(Packages) /\ "resolve" \in Places
      BY EmptySeq DEF Places
    <3> QED
      BY <2>3, <3>1, <3>2, <3>3, <3>4, <3>5 DEF Call, ScriptType
  <2> QED
    BY <1>2, <2>1, <2>2, <2>3 DEF ListSteps
<1>3. ASSUME NEW r \in Roots, PlaceSteps(r)
      PROVE  ScriptType'
  BY <1>3 DEF PlaceSteps, Refuse, Redeclare, EndOfLoop, Probe, EndOfUnpack, ScriptType, Places, Preparing, Failed
<1>4. ASSUME NEW r \in Roots, DiskSteps(r)
      PROVE  ScriptType'
  <2>1. ASSUME Unpack(r) \/ Patch(r)
        PROVE  ScriptType'
    <3>1. /\ UNCHANGED <<direct, available, asked, backlog, resolved, unknown>>
          /\ next' = [next EXCEPT ![r] = @ + 1] \/ UNCHANGED next
          /\ \/ UNCHANGED pc
             \/ \E place \in Places : pc' = [pc EXCEPT ![r] = place]
      BY <2>1 DEF Unpack, Patch, Places, Preparing, Failed
    <3>2. next' \in [Roots -> Nat]
      <4>1. next \in [Roots -> Nat] /\ next[r] + 1 \in Nat
        BY DEF ScriptType
      <4> QED
        BY <3>1, <4>1
    <3>3. pc' \in [Roots -> Places]
      BY <3>1 DEF ScriptType
    <3> QED
      BY <3>1, <3>2, <3>3 DEF ScriptType
  <2>2. CASE Clean(r) \/ Install(r) \/ WriteFstab(r) \/ RemoveHints(r)
    BY <2>2 DEF Clean, Install, WriteFstab, RemoveHints, ScriptType, Places, Preparing, Failed
  <2> QED
    BY <1>4, <2>1, <2>2 DEF DiskSteps
<1> QED
  BY <1>1, <1>2, <1>3, <1>4, StepKinds

-----------------------------------------------------------------------------
(* The resolver. *)

(* The name is served by what is resolved or by what waits, unless the call is
   going to fail. *)
Covered(r, n) ==
  \/ unknown[r]
  \/ Target(r, n) \in Elements(resolved[r])
  \/ \E b \in Elements(backlog[r]) : Target(r, b) = Target(r, n)

Closing(r) ==
  /\ Elements(resolved[r]) \subseteq available[r]
  /\ \A n \in asked[r] : Covered(r, n)
  /\ \A p \in Elements(resolved[r]) : \A d \in Elements(DepsOf(r, p)) : Covered(r, d)

(* Whatever serves the call has all that was found so far. *)
Minimal(r) ==
  /\ \A S \in SUBSET Packages : Serves(r, S) =>
       /\ Elements(resolved[r]) \subseteq S
       /\ \A b \in Elements(backlog[r]) : Target(r, b) \in S
  /\ unknown[r] => \A S \in SUBSET available[r] : ~Serves(r, S)

AtEnd(r) ==
  /\ pc[r] \notin {"idle", "resolve", "redeclared", "unknownPackage"} => backlog[r] = <<>> /\ ~unknown[r]
  /\ pc[r] = "unknownPackage" => unknown[r]

RInv == ScriptType /\ \A r \in Roots : Closing(r) /\ Minimal(r) /\ AtEnd(r)

(* These facts are about one run's variables. *)
LEMMA OthersKeep ==
  ASSUME RInv, NEW o \in Roots,
         direct'[o] = direct[o], available'[o] = available[o], asked'[o] = asked[o],
         backlog'[o] = backlog[o], resolved'[o] = resolved[o], unknown'[o] = unknown[o]
  PROVE  /\ Closing(o)' /\ Minimal(o)'
         /\ pc'[o] = pc[o] => AtEnd(o)'
<1>1. Closing(o) /\ Minimal(o) /\ AtEnd(o)
  BY DEF RInv
<1>2. Closing(o)'
  BY <1>1 DEF Closing, Covered, Target, IsAlias, DepsOf
<1>3. Minimal(o)'
  BY <1>1 DEF Minimal, Serves, Target, IsAlias, DepsOf
<1>4. pc'[o] = pc[o] => AtEnd(o)'
  BY <1>1 DEF AtEnd
<1> QED
  BY <1>2, <1>3, <1>4

(* A call begins with nothing resolved and everything it asked for waiting. *)
LEMMA CallResolver ==
  ASSUME RInv, NEW r \in Roots, NEW q \in Requests[r], Call(r, q)
  PROVE  Closing(r)' /\ Minimal(r)' /\ AtEnd(r)'
<1>1. /\ resolved'[r] = <<>> /\ unknown'[r] = FALSE /\ pc'[r] = "resolve"
      /\ asked'[r] = Elements(backlog'[r])
  BY DEF Call, RInv, ScriptType
<1>2. Elements(resolved'[r]) = {}
  BY <1>1, EmptyElements
<1>3. Closing(r)'
  BY <1>1, <1>2 DEF Closing, Covered
<1>4. Minimal(r)'
  BY <1>1, <1>2 DEF Minimal, Serves
<1>5. AtEnd(r)'
  BY <1>1 DEF AtEnd
<1> QED
  BY <1>3, <1>4, <1>5

LEMMA ExitResolver ==
  ASSUME RInv, NEW r \in Roots, Exit(r)
  PROVE  Closing(r)' /\ Minimal(r)' /\ AtEnd(r)'
<1>1. /\ resolved'[r] = <<>> /\ unknown'[r] = FALSE /\ pc'[r] = "idle"
      /\ asked'[r] = {} /\ backlog'[r] = <<>>
  BY DEF Exit, RInv, ScriptType
<1>2. Elements(resolved'[r]) = {} /\ Elements(backlog'[r]) = {}
  BY <1>1, EmptyElements
<1> QED
  BY <1>1, <1>2 DEF Closing, Covered, Minimal, Serves, AtEnd

(* A turn of the loop. *)
LEMMA TurnResolver ==
  ASSUME RInv, NEW r \in Roots, Resolve(r)
  PROVE  Closing(r)' /\ Minimal(r)' /\ AtEnd(r)'
<1> DEFINE head == Head(backlog[r])
           rest == Tail(backlog[r])
           name == Target(r, head)
<1>1. /\ UNCHANGED <<pc, direct, available, asked>>
      /\ pc[r] = "resolve" /\ backlog[r] # <<>>
  BY DEF Resolve
<1>2. /\ head \in Names /\ rest \in Seq(Names)
      /\ Elements(backlog[r]) = {head} \union Elements(rest)
  BY <1>1, HeadAndTail DEF RInv, ScriptType
<1>3. /\ \A n : Target(r, n)' = Target(r, n)
      /\ \A p : DepsOf(r, p)' = DepsOf(r, p)
      /\ \A S : Serves(r, S)' <=> Serves(r, S)
  BY <1>1 DEF Target, IsAlias, DepsOf, Serves
<1>4. Closing(r) /\ Minimal(r) /\ AtEnd(r) /\ ScriptType
  BY DEF RInv
<1>5. AtEnd(r)'
  BY <1>1 DEF AtEnd
<1>6. \A S \in SUBSET Packages : Serves(r, S) => name \in S
  BY <1>2, <1>4 DEF Minimal
<1> HIDE DEF head, rest, name
<1>7. CASE Skip(r)
  <2>1. /\ backlog'[r] = rest /\ UNCHANGED <<resolved, unknown>>
        /\ name \in Elements(resolved[r])
    BY <1>7, <1>4 DEF Skip, Provided, ScriptType, head, rest, name
  <2>2. \A n : Covered(r, n) => Covered(r, n)'
    BY <2>1, <1>2, <1>3 DEF Covered, name
  <2>3. Closing(r)'
    BY <2>1, <2>2, <1>1, <1>3, <1>4 DEF Closing
  <2>4. Minimal(r)'
    BY <2>1, <1>1, <1>2, <1>3, <1>4 DEF Minimal
  <2> QED
    BY <2>3, <2>4, <1>5
<1>8. CASE NoteUnknown(r)
  <2>1. /\ backlog'[r] = rest /\ UNCHANGED resolved /\ unknown'[r]
        /\ name \notin available[r]
    BY <1>8, <1>4 DEF NoteUnknown, ScriptType, head, rest, name
  <2>2. \A n : Covered(r, n)'
    BY <2>1 DEF Covered
  <2>3. Closing(r)'
    BY <2>1, <2>2, <1>1, <1>3, <1>4 DEF Closing
  <2>4. \A S \in SUBSET available[r] : ~Serves(r, S)
    BY <2>1, <1>4, <1>6 DEF ScriptType
  <2>5. Minimal(r)'
    BY <2>1, <2>4, <1>1, <1>2, <1>3, <1>4 DEF Minimal
  <2> QED
    BY <2>3, <2>5, <1>5
<1>9. CASE Take(r)
  <2>1. PICK new \in Seq(Names) :
          /\ name \in available[r]
          /\ Elements(new) = Elements(DepsOf(r, name))
                                \ (Elements(resolved[r]) \union {name} \union Elements(rest))
          /\ resolved' = [resolved EXCEPT ![r] = Append(@, name)]
          /\ backlog' = [backlog EXCEPT ![r] = rest \o new]
          /\ unknown' = unknown
    BY <1>1, <1>4, <1>9, TakeEffect DEF name, rest, head
  <2>2. Elements(backlog'[r]) = Elements(rest) \union Elements(new)
    BY <2>1, <1>2, <1>4, ConcatElements DEF ScriptType
  <2>3. Elements(resolved'[r]) = Elements(resolved[r]) \union {name}
    BY <2>1, <1>4, AppendElements DEF ScriptType
  <2>4. \A d \in available[r] : Target(r, d) = d
    BY DEF Target, IsAlias
  <2>5. \A n : Covered(r, n) => Covered(r, n)'
    BY <2>1, <2>2, <2>3, <1>2, <1>3 DEF Covered, name
  <2>6. \A d \in Elements(DepsOf(r, name)) : Covered(r, d)'
    BY <2>1, <2>2, <2>3, <2>4, <1>3, <1>4 DEF Covered, Closing
  <2>7. Closing(r)'
    BY <2>1, <2>3, <2>5, <2>6, <1>1, <1>3, <1>4 DEF Closing
  <2>8. ASSUME NEW S \in SUBSET Packages, Serves(r, S)
        PROVE  /\ Elements(resolved'[r]) \subseteq S
               /\ \A b \in Elements(backlog'[r]) : Target(r, b) \in S
    <3>1. Elements(resolved[r]) \subseteq S /\ name \in S
      BY <2>8, <1>4, <1>6 DEF Minimal
    <3>2. \A b \in Elements(rest) : Target(r, b) \in S
      BY <2>8, <1>2, <1>4 DEF Minimal
    <3>3. \A b \in Elements(new) : Target(r, b) \in S
      BY <2>1, <2>8, <3>1 DEF Serves
    <3> QED
      BY <2>2, <2>3, <3>1, <3>2, <3>3
  <2>9. Minimal(r)'
    BY <2>1, <2>8, <1>1, <1>3, <1>4 DEF Minimal
  <2> QED
    BY <2>7, <2>9, <1>5
<1> QED
  BY <1>7, <1>8, <1>9 DEF Resolve

LEMMA RInvInit == Init => RInv
<1> SUFFICES ASSUME Init
             PROVE  RInv
  OBVIOUS
<1>1. ScriptType
  BY EmptySeq DEF Init, ScriptType, Places
<1>2. ASSUME NEW r \in Roots
      PROVE  Closing(r) /\ Minimal(r) /\ AtEnd(r)
  <2>1. /\ pc[r] = "idle" /\ asked[r] = {} /\ ~unknown[r]
        /\ Elements(backlog[r]) = {} /\ Elements(resolved[r]) = {}
    BY EmptyElements DEF Init
  <2> QED
    BY <2>1 DEF Closing, Minimal, AtEnd
<1> QED
  BY <1>1, <1>2 DEF RInv

LEMMA RInvStep ==
  ASSUME RInv, [Next]_vars
  PROVE  RInv'
<1>1. ScriptType'
  BY ScriptTypeStep DEF RInv
<1>2. ASSUME UNCHANGED <<direct, available, asked, backlog, resolved, unknown>>,
             NEW r \in Roots, \A o \in Roots \ {r} : pc'[o] = pc[o], AtEnd(r)'
      PROVE  RInv'
  BY <1>1, <1>2, OthersKeep DEF RInv
<1>3. CASE UNCHANGED vars
  BY <1>1, <1>3, OthersKeep DEF RInv
<1>4. ASSUME NEW r \in Roots, ListSteps(r)
      PROVE  RInv'
  <2>1. \A o \in Roots \ {r} :
          /\ direct'[o] = direct[o] /\ available'[o] = available[o] /\ asked'[o] = asked[o]
          /\ backlog'[o] = backlog[o] /\ resolved'[o] = resolved[o]
          /\ unknown'[o] = unknown[o] /\ pc'[o] = pc[o]
    BY <1>4 DEF ListSteps, Resolve, Skip, NoteUnknown, Take, Exit, Call, RInv, ScriptType
  <2>2. Closing(r)' /\ Minimal(r)' /\ AtEnd(r)'
    BY <1>4, CallResolver, ExitResolver, TurnResolver DEF ListSteps
  <2>3. \A o \in Roots \ {r} : Closing(o)' /\ Minimal(o)' /\ AtEnd(o)'
    BY <2>1, OthersKeep
  <2> QED
    BY <1>1, <2>2, <2>3 DEF RInv
<1>5. ASSUME NEW r \in Roots, PlaceSteps(r)
      PROVE  RInv'
  <2>1. /\ UNCHANGED <<direct, available, asked, backlog, resolved, unknown>>
        /\ \A o \in Roots \ {r} : pc'[o] = pc[o]
    BY <1>5 DEF PlaceSteps, Refuse, Redeclare, EndOfLoop, Probe, EndOfUnpack, RInv, ScriptType
  <2>2. AtEnd(r)'
    BY <1>5 DEF PlaceSteps, Refuse, Redeclare, EndOfLoop, Probe, EndOfUnpack, RInv, ScriptType, AtEnd
  <2> QED
    BY <2>1, <2>2, <1>2
<1>6. ASSUME NEW r \in Roots, DiskSteps(r)
      PROVE  RInv'
  <2>1. /\ UNCHANGED <<direct, available, asked, backlog, resolved, unknown>>
        /\ \A o \in Roots \ {r} : pc'[o] = pc[o]
    BY <1>6 DEF DiskSteps, Clean, Unpack, Patch, Install, WriteFstab, RemoveHints, RInv, ScriptType
  <2>2. pc[r] \notin {"idle", "resolve", "redeclared", "unknownPackage"}
    BY <1>6 DEF DiskSteps, Clean, Unpack, Patch, Install, WriteFstab, RemoveHints
  <2>3. pc'[r] # "unknownPackage"
    BY <1>6, <2>2 DEF DiskSteps, Clean, Unpack, Patch, Install, WriteFstab, RemoveHints, RInv, ScriptType
  <2>4. AtEnd(r)'
    BY <2>1, <2>2, <2>3 DEF AtEnd, RInv
  <2> QED
    BY <2>1, <2>4, <1>2
<1> QED
  BY <1>3, <1>4, <1>5, <1>6, StepKinds

LEMMA RInvNeeded ==
  ASSUME RInv
  PROVE  ResolvesTheNeeded
<1> SUFFICES ASSUME NEW r \in Roots
             PROVE  /\ pc[r] = "probe" =>
                        /\ Serves(r, Elements(resolved[r]))
                        /\ \A S \in SUBSET Elements(resolved[r]) :
                              Serves(r, S) => S = Elements(resolved[r])
                    /\ pc[r] = "unknownPackage" => \A S \in SUBSET available[r] : ~Serves(r, S)
  BY DEF ResolvesTheNeeded
<1>1. Closing(r) /\ Minimal(r) /\ AtEnd(r) /\ Elements(resolved[r]) \subseteq Packages
  BY ElementsType DEF RInv, ScriptType
<1>2. CASE pc[r] = "probe"
  <2>1. Elements(backlog[r]) = {} /\ ~unknown[r]
    BY <1>1, <1>2, EmptyElements DEF AtEnd
  <2>2. Serves(r, Elements(resolved[r]))
    BY <2>1, <1>1 DEF Closing, Covered, Serves
  <2>3. \A S \in SUBSET Elements(resolved[r]) : Serves(r, S) => S = Elements(resolved[r])
    BY <1>1 DEF Minimal
  <2> QED
    BY <1>2, <2>2, <2>3
<1>3. CASE pc[r] = "unknownPackage"
  BY <1>1, <1>3 DEF AtEnd, Minimal
<1> QED
  BY <1>2, <1>3

(* The resolver stops with the least set of packages that serves the call, for
   all dependencies, cyclic ones included, all aliases, and all orders in which
   names are asked for; and it reports an unknown package only when no set of
   declared packages would do. *)
THEOREM ResolvesTheNeededCorrect == Spec => []ResolvesTheNeeded
<1>1. RInv /\ [Next]_vars => RInv'
  BY RInvStep
<1> QED
  BY RInvInit, RInvNeeded, <1>1, PTL DEF Spec

-----------------------------------------------------------------------------
(* The directory. *)

Right(r, p) == IF NeedsPatch(r, p) THEN "patched" ELSE "unpacked"
Parts(r)    == temp[Hash(r)].parts
Unpacked(r, n) == {resolved[r][i] : i \in 1 .. n}

(* A run that prepares a root whose hash is not in raced does so alone, and the
   root is not there yet. *)
RaceMarked(r) ==
  pc[r] \in Preparing /\ Hash(r) \notin raced =>
    /\ Hash(r) \notin DOMAIN made
    /\ \A o \in Roots \ {r} : pc[o] \in Preparing => Hash(o) # Hash(r)

(* What it has unpacked so far is what .tmp holds. *)
Progress(r) ==
  /\ pc[r] \in {"resolve", "probe", "clean"} => next[r] = 1
  /\ pc[r] \in {"unpack", "patch", "install"} => next[r] \in 1 .. Len(resolved[r]) + 1
  /\ pc[r] = "patch" => next[r] <= Len(resolved[r]) /\ NeedsPatch(r, resolved[r][next[r]])
  /\ pc[r] = "install" => next[r] = Len(resolved[r]) + 1
  /\ pc[r] \in {"unpack", "patch", "install"} /\ Hash(r) \notin raced => Hash(r) \in DOMAIN temp
  /\ pc[r] \in {"unpack", "install"} /\ Hash(r) \notin raced =>
       /\ DOMAIN Parts(r) = Unpacked(r, next[r] - 1)
       /\ \A p \in DOMAIN Parts(r) : Parts(r)[p] = Right(r, p)
  /\ pc[r] = "patch" /\ Hash(r) \notin raced =>
       /\ DOMAIN Parts(r) = Unpacked(r, next[r])
       /\ Parts(r)[resolved[r][next[r]]] = "unpacked"
       /\ \A p \in DOMAIN Parts(r) \ {resolved[r][next[r]]} : Parts(r)[p] = Right(r, p)

(* A root that was found or made stays, and is configured step by step. *)
Placed(r) ==
  /\ pc[r] \in {"fstab", "hints", "use"} => Hash(r) \in DOMAIN made
  /\ pc[r] \in {"hints", "use"} => made[Hash(r)].fstab
  /\ pc[r] = "use" => ~made[Hash(r)].hints

Caused(r) == pc[r] \in {"patchFailed", "renameFailed"} => Hash(r) \in raced

Own(r) == RaceMarked(r) /\ Progress(r) /\ Placed(r) /\ Caused(r)

DInv ==
  /\ ScriptType
  /\ IsDirectory(made) /\ IsDirectory(temp)
  /\ WholeRoots
  /\ \A r \in Roots : Own(r)

LEMMA HashKeeps ==
  ASSUME NEW r \in Roots, resolved'[r] = resolved[r], direct'[r] = direct[r]
  PROVE  Hash(r)' = Hash(r) /\ \A p : Right(r, p)' = Right(r, p) /\ NeedsPatch(r, p)' = NeedsPatch(r, p)
BY DEF Hash, Right, NeedsPatch

LEMMA HashDomain ==
  ASSUME ScriptType, NEW r \in Roots
  PROVE  /\ DOMAIN Hash(r) = Elements(resolved[r]) /\ DOMAIN Hash(r) \subseteq Packages
         /\ \A p \in DOMAIN Hash(r) : Hash(r)[p].direct <=> p \in direct[r]
BY ElementsType DEF Hash, ScriptType

LEMMA EmptyTree == IsTree(Empty) /\ DOMAIN Empty.parts = {}
BY DEF IsTree, Empty, Nothing

(* What is unpacked next. *)
LEMMA UnpackedNext ==
  ASSUME ScriptType, NEW r \in Roots, next[r] \in 1 .. Len(resolved[r])
  PROVE  /\ resolved[r][next[r]] \in Packages
         /\ Unpacked(r, next[r]) = Unpacked(r, next[r] - 1) \union {resolved[r][next[r]]}
<1>1. resolved[r] \in Seq(Packages) /\ Len(resolved[r]) \in Nat
  BY LenProperties DEF ScriptType
<1>2. 1 .. next[r] = 1 .. (next[r] - 1) \union {next[r]}
  BY <1>1
<1> QED
  BY <1>1, <1>2, ElementOfSeq DEF Unpacked

(* A step of r that changes nothing but its own .tmp leaves the facts about
   another run alone: with the same hash, the two race. *)
LEMMA OthersTemp ==
  ASSUME DInv, NEW r \in Roots, NEW o \in Roots \ {r},
         pc[r] \in Preparing, pc'[r] \in Preparing \union Failed,
         UNCHANGED <<made, direct, resolved, raced>>,
         pc'[o] = pc[o], next'[o] = next[o], \A x \in Roots \ {r} : pc'[x] = pc[x],
         \A h \in (DOMAIN temp \union DOMAIN temp') \ {Hash(r)} :
           h \in DOMAIN temp /\ h \in DOMAIN temp' /\ temp'[h] = temp[h]
  PROVE  Own(o)'
<1>1. Own(o)
  BY DEF DInv
<1>2. /\ \A x \in Roots : Hash(x)' = Hash(x)
      /\ \A p : Right(o, p)' = Right(o, p) /\ NeedsPatch(o, p)' = NeedsPatch(o, p)
  BY HashKeeps
<1>3. RaceMarked(o)'
  <2>1. \A x \in Roots : pc'[x] \in Preparing => pc[x] \in Preparing
    OBVIOUS
  <2> QED
    BY <1>1, <1>2, <2>1 DEF Own, RaceMarked
<1>4. Placed(o)' /\ Caused(o)'
  BY <1>1, <1>2 DEF Own, Placed, Caused
<1>5. pc[o] \in {"unpack", "patch", "install"} /\ Hash(o) \notin raced => Hash(o) # Hash(r)
  BY <1>1 DEF Own, RaceMarked, Preparing
<1>6. Progress(o)'
  <2>1. \A n : Unpacked(o, n)' = Unpacked(o, n)
    BY DEF Unpacked
  <2>2. pc[o] \in {"unpack", "patch", "install"} /\ Hash(o) \notin raced =>
          /\ Hash(o) \in DOMAIN temp /\ Hash(o) \in DOMAIN temp'
          /\ temp'[Hash(o)] = temp[Hash(o)] /\ Parts(o)' = Parts(o)
    BY <1>1, <1>2, <1>5 DEF Own, Progress, Parts
  <2> QED
    BY <1>1, <1>2, <2>1, <2>2 DEF Own, Progress
<1> QED
  BY <1>3, <1>4, <1>6 DEF Own

(* So does a step that does not write to the disk. *)
LEMMA OthersLook ==
  ASSUME DInv, NEW o \in Roots, UNCHANGED disk, raced \subseteq raced',
         direct'[o] = direct[o], resolved'[o] = resolved[o],
         pc'[o] = pc[o], next'[o] = next[o], RaceMarked(o)'
  PROVE  Own(o)'
<1>1. Own(o)
  BY DEF DInv
<1>2. Hash(o)' = Hash(o) /\ \A p : Right(o, p)' = Right(o, p) /\ NeedsPatch(o, p)' = NeedsPatch(o, p)
  BY HashKeeps
<1>3. Parts(o)' = Parts(o) /\ \A n : Unpacked(o, n)' = Unpacked(o, n)
  BY <1>2 DEF Parts, Unpacked
<1>4. Placed(o)' /\ Caused(o)'
  BY <1>1, <1>2 DEF Own, Placed, Caused
<1>5. Progress(o)'
  BY <1>1, <1>2, <1>3 DEF Own, Progress
<1> QED
  BY <1>4, <1>5 DEF Own

LEMMA ListStepDisk ==
  ASSUME DInv, NEW r \in Roots, ListSteps(r)
  PROVE  DInv'
<1>1. ScriptType'
  BY ScriptTypeStep DEF DInv, ListSteps, Next, Step
<1>2. /\ UNCHANGED <<made, temp, raced>>
      /\ \A o \in Roots \ {r} : /\ direct'[o] = direct[o] /\ resolved'[o] = resolved[o]
                                /\ pc'[o] = pc[o] /\ next'[o] = next[o]
      /\ pc'[r] \in {"idle", "resolve"}
      /\ pc'[r] = "resolve" => next'[r] = 1
  <2>1. CASE Resolve(r)
    BY <2>1 DEF Resolve, Skip, NoteUnknown, Take, DInv, ScriptType, Own, Progress
  <2>2. CASE Exit(r)
    BY <2>2 DEF Exit, DInv, ScriptType
  <2>3. CASE \E q \in Requests[r] : Call(r, q)
    BY <2>3 DEF Call, DInv, ScriptType
  <2> QED
    BY <2>1, <2>2, <2>3 DEF ListSteps
<1>3. ASSUME NEW o \in Roots \ {r}
      PROVE  Own(o)'
  <2>1. RaceMarked(o)
    BY DEF DInv, Own
  <2>2. \A x \in Roots \ {r} : Hash(x)' = Hash(x)
    BY <1>2, HashKeeps
  <2>3. RaceMarked(o)'
    BY <1>2, <2>1, <2>2 DEF RaceMarked, Preparing
  <2> QED
    BY <1>2, <2>3, OthersLook
<1>4. Own(r)'
  BY <1>2 DEF Own, RaceMarked, Progress, Placed, Caused, Preparing
<1>5. IsDirectory(made)' /\ IsDirectory(temp)' /\ WholeRoots'
  BY <1>2 DEF DInv, WholeRoots, IsDirectory
<1> QED
  BY <1>1, <1>3, <1>4, <1>5 DEF DInv

LEMMA ProbeDisk ==
  ASSUME DInv, NEW r \in Roots, Probe(r)
  PROVE  DInv'
<1>1. ScriptType'
  BY ScriptTypeStep DEF DInv, Next, Step
<1>2. /\ UNCHANGED <<made, temp, direct, resolved, next>> /\ raced \subseteq raced'
      /\ pc[r] = "probe" /\ next[r] = 1
      /\ \A o \in Roots \ {r} : pc'[o] = pc[o]
      /\ \/ pc'[r] = "fstab" /\ Hash(r) \in DOMAIN made /\ UNCHANGED raced
         \/ /\ pc'[r] = "clean" /\ Hash(r) \notin DOMAIN made
            /\ raced' = IF Others(r) = {} THEN raced ELSE raced \union {Hash(r)}
  BY DEF Probe, DInv, ScriptType, Own, Progress
<1>3. \A x \in Roots : Hash(x)' = Hash(x)
  BY <1>2, HashKeeps
<1>4. \A o \in Roots \ {r} :
        pc'[r] = "clean" /\ pc[o] \in Preparing /\ Hash(o) = Hash(r) => Hash(r) \in raced'
  BY <1>2 DEF Others
<1>5. ASSUME NEW o \in Roots \ {r}
      PROVE  Own(o)'
  <2>1. RaceMarked(o)
    BY DEF DInv, Own
  <2>2. RaceMarked(o)'
    BY <1>2, <1>3, <1>4, <2>1 DEF RaceMarked, Preparing
  <2> QED
    BY <1>2, <2>2, OthersLook
<1>6. Own(r)'
  <2>1. RaceMarked(r)'
    BY <1>2, <1>3, <1>4 DEF RaceMarked, Preparing
  <2> QED
    BY <2>1, <1>2, <1>3 DEF Own, Progress, Placed, Caused
<1>7. IsDirectory(made)' /\ IsDirectory(temp)' /\ WholeRoots'
  BY <1>2 DEF DInv, WholeRoots, IsDirectory
<1> QED
  BY <1>1, <1>5, <1>6, <1>7 DEF DInv

LEMMA EndStepsDisk ==
  ASSUME DInv, NEW r \in Roots, EndOfLoop(r) \/ EndOfUnpack(r)
  PROVE  DInv'
<1>1. ScriptType'
  BY ScriptTypeStep DEF DInv, Next, Step
<1>2. /\ UNCHANGED <<made, temp, direct, resolved, next, raced>>
      /\ \A o \in Roots \ {r} : pc'[o] = pc[o]
      /\ \/ pc[r] = "resolve" /\ pc'[r] \in {"unknownPackage", "probe"}
         \/ pc[r] = "unpack" /\ pc'[r] = "install" /\ next[r] \notin DOMAIN resolved[r]
  BY DEF EndOfLoop, EndOfUnpack, DInv, ScriptType
<1>3. \A x \in Roots : /\ Hash(x)' = Hash(x)
                       /\ \A p : Right(x, p)' = Right(x, p)
  BY <1>2, HashKeeps
<1>4. \A o \in Roots : pc'[o] \in Preparing <=> pc[o] \in Preparing
  BY <1>2 DEF Preparing
<1>5. \A o \in Roots : RaceMarked(o)'
  BY <1>2, <1>3, <1>4 DEF DInv, Own, RaceMarked
<1>6. \A o \in Roots \ {r} : Own(o)'
  BY <1>2, <1>5, OthersLook
<1>7. Own(r)'
  <2>1. Own(r) /\ DOMAIN resolved[r] = 1 .. Len(resolved[r]) /\ Len(resolved[r]) \in Nat
    BY LenProperties DEF DInv, ScriptType
  <2>2. Progress(r)'
    <3>1. CASE pc[r] = "resolve"
      BY <1>2, <2>1, <3>1 DEF Own, Progress
    <3>2. CASE pc[r] = "unpack"
      <4>1. next[r] = Len(resolved[r]) + 1
        BY <1>2, <2>1, <3>2 DEF Own, Progress
      <4>2. Parts(r)' = Parts(r) /\ \A n : Unpacked(r, n)' = Unpacked(r, n)
        BY <1>2, <1>3 DEF Parts, Unpacked
      <4> QED
        BY <1>2, <1>3, <2>1, <3>2, <4>1, <4>2 DEF Own, Progress
    <3> QED
      BY <1>2, <3>1, <3>2
  <2> QED
    BY <1>2, <1>5, <2>2 DEF Own, Placed, Caused
<1>8. IsDirectory(made)' /\ IsDirectory(temp)' /\ WholeRoots'
  BY <1>2 DEF DInv, WholeRoots, IsDirectory
<1> QED
  BY <1>1, <1>6, <1>7, <1>8 DEF DInv

LEMMA RefuseDisk ==
  ASSUME DInv, NEW r \in Roots, Refuse(r)
  PROVE  DInv'
<1>1. ScriptType'
  BY ScriptTypeStep DEF DInv, Next, Refuse
<1>2. /\ UNCHANGED <<made, temp, direct, resolved, next, raced>>
      /\ \A o \in Roots \ {r} : pc'[o] = pc[o]
      /\ pc'[r] = "redeclared"
  BY DEF Refuse, Redeclare, DInv, ScriptType
<1>3. \A x \in Roots : Hash(x)' = Hash(x)
  BY <1>2, HashKeeps
<1>4. \A o \in Roots : pc'[o] \in Preparing => pc[o] \in Preparing
  BY <1>2 DEF Preparing
<1>5. \A o \in Roots : RaceMarked(o)'
  BY <1>2, <1>3, <1>4 DEF DInv, Own, RaceMarked
<1>6. \A o \in Roots \ {r} : Own(o)'
  BY <1>2, <1>5, OthersLook
<1>7. Own(r)'
  BY <1>2, <1>5 DEF Own, Progress, Placed, Caused
<1>8. IsDirectory(made)' /\ IsDirectory(temp)' /\ WholeRoots'
  BY <1>2 DEF DInv, WholeRoots, IsDirectory
<1> QED
  BY <1>1, <1>6, <1>7, <1>8 DEF DInv

LEMMA DirectoryPut ==
  ASSUME NEW d, IsDirectory(d), NEW h, DOMAIN h \subseteq Packages, NEW t, IsTree(t)
  PROVE  IsDirectory(Put(d, h, t))
BY DEF IsDirectory, Put

LEMMA ContentTree ==
  ASSUME DInv, NEW r \in Roots
  PROVE  IsTree(Content(Hash(r)))
BY EmptyTree DEF DInv, Content, IsDirectory

(* A step on .tmp. *)
LEMMA TempStepDisk ==
  ASSUME DInv, NEW r \in Roots,
         Clean(r) \/ Unpack(r) \/ Patch(r),
         IsDirectory(temp'), Own(r)',
         \A h \in (DOMAIN temp \union DOMAIN temp') \ {Hash(r)} :
           h \in DOMAIN temp /\ h \in DOMAIN temp' /\ temp'[h] = temp[h]
  PROVE  DInv'
<1>1. ScriptType'
  BY ScriptTypeStep DEF DInv, Next, Step
<1>2. /\ UNCHANGED <<made, direct, resolved, raced>>
      /\ pc[r] \in Preparing /\ pc'[r] \in Preparing \union Failed
      /\ \A o \in Roots \ {r} : pc'[o] = pc[o] /\ next'[o] = next[o]
  BY DEF Clean, Unpack, Patch, DInv, ScriptType, Preparing, Failed
<1>3. \A o \in Roots \ {r} : Own(o)'
  BY <1>2, OthersTemp
<1>4. IsDirectory(made)' /\ WholeRoots'
  BY <1>2 DEF DInv, WholeRoots, IsDirectory
<1> QED
  BY <1>1, <1>3, <1>4 DEF DInv

LEMMA CleanDisk ==
  ASSUME DInv, NEW r \in Roots, Clean(r)
  PROVE  DInv'
<1>1. /\ UNCHANGED <<made, direct, resolved, next, raced>>
      /\ pc[r] = "clean" /\ pc'[r] = "unpack" /\ next[r] = 1
      /\ \A o \in Roots \ {r} : pc'[o] = pc[o]
      /\ temp' = Put(temp, Hash(r), Empty)
  BY DEF Clean, DInv, ScriptType, Own, Progress
<1>2. \A x \in Roots : Hash(x)' = Hash(x) /\ \A p : Right(x, p)' = Right(x, p)
  BY <1>1, HashKeeps
<1>3. IsDirectory(temp')
  BY <1>1, DirectoryPut, EmptyTree, HashDomain DEF DInv
<1>4. /\ Hash(r) \in DOMAIN temp' /\ DOMAIN temp'[Hash(r)].parts = {}
      /\ \A h \in (DOMAIN temp \union DOMAIN temp') \ {Hash(r)} :
           h \in DOMAIN temp /\ h \in DOMAIN temp' /\ temp'[h] = temp[h]
  BY <1>1, EmptyTree DEF Put
<1>5. RaceMarked(r)'
  BY <1>1, <1>2 DEF DInv, Own, RaceMarked, Preparing
<1>6. Progress(r)'
  <2>1. Len(resolved[r]) \in Nat
    BY LenProperties DEF DInv, ScriptType
  <2>2. Unpacked(r, 0)' = {}
    BY DEF Unpacked
  <2>3. DOMAIN Parts(r)' = {}
    BY <1>2, <1>4 DEF Parts
  <2> QED
    BY <1>1, <1>2, <1>4, <2>1, <2>2, <2>3 DEF Progress
<1>7. Own(r)'
  BY <1>1, <1>5, <1>6 DEF Own, Placed, Caused
<1> QED
  BY <1>3, <1>4, <1>7, TempStepDisk

LEMMA UnpackDisk ==
  ASSUME DInv, NEW r \in Roots, Unpack(r)
  PROVE  DInv'
<1>a. PICK p, n, tree, new :
        /\ n = next[r] /\ p = resolved[r][n] /\ tree = Content(Hash(r))
        /\ new = [tree EXCEPT !.parts = Put(@, p, "unpacked"), !.hints = @ \/ p \in Hinting]
  OBVIOUS
<1>1. /\ UNCHANGED <<made, direct, resolved, raced>>
      /\ pc[r] = "unpack" /\ next[r] = n /\ n \in 1 .. Len(resolved[r])
      /\ \A o \in Roots \ {r} : pc'[o] = pc[o]
      /\ temp' = Put(temp, Hash(r), new)
      /\ \/ NeedsPatch(r, p) /\ pc'[r] = "patch" /\ next'[r] = n
         \/ ~NeedsPatch(r, p) /\ pc'[r] = "unpack" /\ next'[r] = n + 1
  <2>1. DOMAIN resolved[r] = 1 .. Len(resolved[r])
    BY LenProperties DEF DInv, ScriptType
  <2> QED
    BY <2>1, <1>a DEF Unpack, DInv, ScriptType
<1>2. /\ p \in Packages /\ Len(resolved[r]) \in Nat
      /\ Unpacked(r, n) = Unpacked(r, n - 1) \union {p}
  BY <1>a, <1>1, UnpackedNext, LenProperties DEF DInv, ScriptType
<1>3. \A x \in Roots : /\ Hash(x)' = Hash(x)
                       /\ \A q : Right(x, q)' = Right(x, q) /\ NeedsPatch(x, q)' = NeedsPatch(x, q)
  BY <1>1, HashKeeps
<1>4. IsTree(tree)
  BY <1>a, ContentTree
<1>5. /\ new.parts = Put(tree.parts, p, "unpacked") /\ new.fstab = tree.fstab
      /\ new.hints = (tree.hints \/ p \in Hinting)
      /\ new = [parts |-> new.parts, fstab |-> new.fstab, hints |-> new.hints]
  <2>1. tree = [parts |-> tree.parts, fstab |-> tree.fstab, hints |-> tree.hints]
    BY <1>4 DEF IsTree
  <2> QED
    BY <1>a, <2>1
<1>6. IsTree(new)
  <2>1. /\ DOMAIN new.parts = DOMAIN tree.parts \union {p}
        /\ new.parts \in [DOMAIN new.parts -> {"unpacked", "patched"}]
    BY <1>4, <1>5 DEF Put, IsTree
  <2> QED
    BY <1>2, <1>4, <1>5, <2>1 DEF IsTree
<1>7. IsDirectory(temp')
  BY <1>1, <1>6, DirectoryPut, HashDomain DEF DInv
<1>8. /\ Hash(r) \in DOMAIN temp' /\ temp'[Hash(r)] = new
      /\ \A h \in (DOMAIN temp \union DOMAIN temp') \ {Hash(r)} :
           h \in DOMAIN temp /\ h \in DOMAIN temp' /\ temp'[h] = temp[h]
  BY <1>1 DEF Put
<1>9. RaceMarked(r)'
  BY <1>1, <1>3 DEF DInv, Own, RaceMarked, Preparing
<1>10. Progress(r)'
  <2>1. Progress(r)
    BY DEF DInv, Own
  <2>2. Parts(r)' = Put(tree.parts, p, "unpacked")
    BY <1>3, <1>5, <1>8 DEF Parts
  <2>3. /\ DOMAIN Parts(r)' = DOMAIN tree.parts \union {p}
        /\ Parts(r)'[p] = "unpacked"
        /\ \A q \in DOMAIN tree.parts \ {p} : Parts(r)'[q] = tree.parts[q]
    BY <2>2 DEF Put
  <2>4. Hash(r) \notin raced =>
          /\ DOMAIN tree.parts = Unpacked(r, n - 1)
          /\ \A q \in DOMAIN tree.parts : tree.parts[q] = Right(r, q)
    BY <1>a, <1>1, <2>1 DEF Progress, Parts, Content
  <2>5. \A k : Unpacked(r, k)' = Unpacked(r, k)
    BY <1>1 DEF Unpacked
  <2>6. Hash(r)' \in DOMAIN temp'
    BY <1>3, <1>8
  <2>7. CASE pc'[r] = "patch"
    <3>1. next'[r] = n /\ NeedsPatch(r, p)
      BY <1>1, <2>7
    <3>2. resolved'[r][next'[r]] = p /\ Len(resolved'[r]) = Len(resolved[r])
      BY <1>a, <1>1, <3>1
    <3>3. NeedsPatch(r, p)'
      BY <1>3, <3>1
    <3>4. Hash(r)' \notin raced' =>
            /\ DOMAIN Parts(r)' = Unpacked(r, n)'
            /\ \A q \in DOMAIN Parts(r)' \ {p} : Parts(r)'[q] = Right(r, q)'
      BY <1>1, <1>2, <1>3, <2>3, <2>4, <2>5
    <3> QED
      BY <1>1, <1>2, <2>3, <2>5, <2>6, <2>7, <3>1, <3>2, <3>3, <3>4 DEF Progress
  <2>8. CASE pc'[r] = "unpack"
    <3>1. next'[r] = n + 1 /\ next'[r] - 1 = n /\ ~NeedsPatch(r, p)
      BY <1>1, <1>2, <2>8
    <3>2. Right(r, p) = "unpacked"
      BY <3>1 DEF Right
    <3>3. Hash(r)' \notin raced' =>
            /\ DOMAIN Parts(r)' = Unpacked(r, n)'
            /\ \A q \in DOMAIN Parts(r)' : Parts(r)'[q] = Right(r, q)'
      BY <1>1, <1>2, <1>3, <2>3, <2>4, <2>5, <3>2
    <3> QED
      BY <1>1, <1>2, <2>5, <2>6, <2>8, <3>1, <3>3 DEF Progress
  <2> QED
    BY <1>1, <2>7, <2>8
<1>11. Own(r)'
  BY <1>1, <1>9, <1>10 DEF Own, Placed, Caused
<1> QED
  BY <1>7, <1>8, <1>11, TempStepDisk

LEMMA PatchDisk ==
  ASSUME DInv, NEW r \in Roots, Patch(r)
  PROVE  DInv'
<1>a. PICK p, n, h : n = next[r] /\ p = resolved[r][n] /\ h = Hash(r)
  OBVIOUS
<1> DEFINE fits == p \in DOMAIN Content(h).parts /\ Content(h).parts[p] = "unpacked"
<1>1. /\ UNCHANGED <<made, direct, resolved, raced>> /\ pc[r] = "patch"
      /\ \A o \in Roots \ {r} : pc'[o] = pc[o]
      /\ \/ /\ fits /\ pc'[r] = "unpack" /\ next'[r] = n + 1
            /\ temp' = [temp EXCEPT ![h].parts[p] = "patched"]
         \/ ~fits /\ pc'[r] = "patchFailed" /\ UNCHANGED <<temp, next>>
  BY <1>a DEF Patch, DInv, ScriptType
<1>2. \A x \in Roots : /\ Hash(x)' = Hash(x)
                       /\ \A q : Right(x, q)' = Right(x, q) /\ NeedsPatch(x, q)' = NeedsPatch(x, q)
  BY <1>1, HashKeeps
<1>3. /\ n \in 1 .. Len(resolved[r]) /\ Len(resolved[r]) \in Nat
      /\ p \in Packages /\ NeedsPatch(r, p)
  <2>1. Progress(r) /\ Len(resolved[r]) \in Nat
    BY LenProperties DEF DInv, Own, ScriptType
  <2>2. n \in 1 .. Len(resolved[r]) /\ NeedsPatch(r, p)
    BY <1>a, <1>1, <2>1 DEF Progress
  <2> QED
    BY <1>a, <2>1, <2>2, UnpackedNext DEF DInv
<1>4. RaceMarked(r)'
  BY <1>1, <1>2 DEF DInv, Own, RaceMarked, Preparing
<1>5. Hash(r) \notin raced =>
        /\ h \in DOMAIN temp /\ fits
        /\ DOMAIN temp[h].parts = Unpacked(r, n)
        /\ \A q \in DOMAIN temp[h].parts \ {p} : temp[h].parts[q] = Right(r, q)
  <2>1. p \in Unpacked(r, n)
    BY <1>a, <1>3 DEF Unpacked
  <2> QED
    BY <1>a, <1>1, <2>1 DEF DInv, Own, Progress, Parts, Content
<1>6. CASE ~fits
  <2>1. Own(r)'
    BY <1>1, <1>2, <1>4, <1>5, <1>6 DEF Own, Progress, Placed, Caused
  <2> QED
    BY <2>1, <1>1, <1>6, TempStepDisk DEF DInv
<1>7. CASE fits
  <2>1. \A k \in (DOMAIN temp \union DOMAIN temp') \ {Hash(r)} :
          k \in DOMAIN temp /\ k \in DOMAIN temp' /\ temp'[k] = temp[k]
    BY <1>a, <1>1, <1>7
  <2>2. DOMAIN temp' = DOMAIN temp
    BY <1>1, <1>7
  <2>3. h \in DOMAIN temp =>
          /\ temp'[h] = [temp[h] EXCEPT !.parts[p] = "patched"]
          /\ IsTree(temp[h]) /\ DOMAIN h \subseteq Packages
    BY <1>1, <1>7 DEF DInv, IsDirectory
  <2>4. h \in DOMAIN temp =>
          /\ DOMAIN temp'[h].parts = DOMAIN temp[h].parts
          /\ temp'[h].parts = [temp[h].parts EXCEPT ![p] = "patched"]
          /\ IsTree(temp'[h])
    BY <2>3 DEF IsTree
  <2>5. IsDirectory(temp')
    BY <1>a, <2>1, <2>2, <2>3, <2>4 DEF DInv, IsDirectory
  <2>6. Progress(r)'
    <3>1. Hash(r)' = h /\ Parts(r)' = temp'[h].parts
      BY <1>a, <1>2 DEF Parts
    <3>2. Unpacked(r, n)' = Unpacked(r, n)
      BY <1>1 DEF Unpacked
    <3>3. Hash(r) \notin raced =>
            /\ h \in DOMAIN temp' /\ DOMAIN Parts(r)' = Unpacked(r, n)
            /\ \A q \in DOMAIN Parts(r)' : Parts(r)'[q] = Right(r, q)
      BY <1>3, <1>5, <2>2, <2>4, <3>1 DEF Right
    <3>4. pc'[r] = "unpack" /\ next'[r] = n + 1 /\ next'[r] - 1 = n
      BY <1>1, <1>3, <1>7
    <3> QED
      BY <1>1, <1>2, <1>3, <3>1, <3>2, <3>3, <3>4 DEF Progress
  <2>7. Own(r)'
    BY <1>1, <1>4, <1>7, <2>6 DEF Own, Placed, Caused
  <2> QED
    BY <2>1, <2>5, <2>7, TempStepDisk
<1> QED
  BY <1>6, <1>7

(* The rename is the only step that makes a root. *)
LEMMA InstallDisk ==
  ASSUME DInv, NEW r \in Roots, Install(r)
  PROVE  DInv'
<1>a. PICK h : h = Hash(r)
  OBVIOUS
<1>1. /\ UNCHANGED <<direct, resolved, next, raced>> /\ pc[r] = "install"
      /\ \A o \in Roots \ {r} : pc'[o] = pc[o]
      /\ \/ /\ h \in DOMAIN temp /\ h \notin DOMAIN made /\ pc'[r] = "fstab"
            /\ made' = Put(made, h, temp[h]) /\ temp' = Drop(temp, h)
         \/ /\ ~(h \in DOMAIN temp /\ h \notin DOMAIN made)
            /\ pc'[r] = "renameFailed" /\ UNCHANGED <<made, temp>>
  BY <1>a DEF Install, DInv, ScriptType
<1>2. ScriptType'
  BY ScriptTypeStep DEF DInv, Next, Step
<1>3. \A x \in Roots : /\ Hash(x)' = Hash(x)
                       /\ \A q : Right(x, q)' = Right(x, q) /\ NeedsPatch(x, q)' = NeedsPatch(x, q)
  BY <1>1, HashKeeps
<1>4. Own(r) /\ Len(resolved[r]) \in Nat
  BY LenProperties DEF DInv, ScriptType
<1>5. h \notin raced =>
        /\ h \in DOMAIN temp /\ h \notin DOMAIN made
        /\ DOMAIN temp[h].parts = Elements(resolved[r])
        /\ \A p \in DOMAIN temp[h].parts : temp[h].parts[p] = Right(r, p)
  <2>1. DOMAIN resolved[r] = 1 .. Len(resolved[r])
    BY LenProperties DEF DInv, ScriptType
  <2>2. next[r] - 1 = Len(resolved[r])
    BY <1>1, <1>4 DEF Own, Progress
  <2>3. Unpacked(r, next[r] - 1) = Elements(resolved[r])
    BY <2>1, <2>2 DEF Unpacked, Elements
  <2> QED
    BY <1>a, <1>1, <1>4, <2>3 DEF Own, RaceMarked, Progress, Parts, Preparing
<1>6. CASE UNCHANGED <<made, temp>> /\ pc'[r] = "renameFailed"
  <2>1. \A o \in Roots : RaceMarked(o)'
    BY <1>1, <1>3, <1>6 DEF DInv, Own, RaceMarked, Preparing
  <2>2. \A o \in Roots \ {r} : Own(o)'
    BY <1>1, <1>6, <2>1, OthersLook
  <2>3. Own(r)'
    BY <1>a, <1>1, <1>3, <1>5, <1>6, <2>1 DEF Own, Progress, Placed, Caused
  <2> QED
    BY <1>1, <1>2, <1>6, <2>2, <2>3 DEF DInv, WholeRoots, IsDirectory
<1>7. CASE /\ h \in DOMAIN temp /\ h \notin DOMAIN made /\ pc'[r] = "fstab"
           /\ made' = Put(made, h, temp[h]) /\ temp' = Drop(temp, h)
  <2>1. /\ DOMAIN made' = DOMAIN made \union {h} /\ made'[h] = temp[h]
        /\ \A k \in DOMAIN made : made'[k] = made[k]
        /\ DOMAIN temp' = DOMAIN temp \ {h}
        /\ \A k \in DOMAIN temp' : temp'[k] = temp[k]
    BY <1>7 DEF Put, Drop
  <2>2. IsDirectory(made') /\ IsDirectory(temp')
    BY <1>7, <2>1 DEF DInv, IsDirectory
  <2>3. h \notin raced => Whole(temp[h], h)
    <3>1. /\ DOMAIN h = Elements(resolved[r])
          /\ \A p \in DOMAIN h : h[p].direct <=> p \in direct[r]
      BY <1>a, HashDomain DEF DInv
    <3> QED
      BY <1>5, <3>1 DEF Whole, Right, NeedsPatch
  <2>4. WholeRoots'
    BY <1>1, <2>1, <2>3 DEF DInv, WholeRoots
  <2>5. ASSUME NEW o \in Roots \ {r}
        PROVE  Own(o)'
    <3>1. Own(o)
      BY DEF DInv
    <3>2. pc[o] \in Preparing /\ Hash(o) \notin raced => Hash(o) # h
      BY <1>a, <1>1, <3>1 DEF Own, RaceMarked, Preparing
    <3>3. RaceMarked(o)'
      BY <1>a, <1>1, <1>3, <1>7, <2>1, <3>1, <3>2 DEF Own, RaceMarked, Preparing
    <3>4. Placed(o)' /\ Caused(o)'
      BY <1>1, <1>3, <2>1, <3>1 DEF Own, Placed, Caused
    <3>5. Progress(o)'
      <4>1. \A n : Unpacked(o, n)' = Unpacked(o, n)
        BY <1>1 DEF Unpacked
      <4>2. pc[o] \in {"unpack", "patch", "install"} /\ Hash(o) \notin raced =>
              Hash(o) \in DOMAIN temp' /\ Parts(o)' = Parts(o)
        BY <1>1, <1>3, <2>1, <3>1, <3>2 DEF Own, Progress, Parts, Preparing
      <4> QED
        BY <1>1, <1>3, <3>1, <4>1, <4>2 DEF Own, Progress
    <3> QED
      BY <3>3, <3>4, <3>5 DEF Own
  <2>6. Own(r)'
    BY <1>a, <1>3, <1>7, <2>1 DEF Own, RaceMarked, Progress, Placed, Caused, Preparing
  <2> QED
    BY <1>2, <2>2, <2>4, <2>5, <2>6 DEF DInv
<1> QED
  BY <1>1, <1>6, <1>7

LEMMA ConfigureDisk ==
  ASSUME DInv, NEW r \in Roots, WriteFstab(r) \/ RemoveHints(r)
  PROVE  DInv'
<1>a. PICK h : h = Hash(r)
  OBVIOUS
<1>1. /\ UNCHANGED <<temp, direct, resolved, next, raced>>
      /\ \A o \in Roots \ {r} : pc'[o] = pc[o]
      /\ h \in DOMAIN made
      /\ \/ pc[r] = "fstab" /\ pc'[r] = "hints" /\ made' = [made EXCEPT ![h].fstab = TRUE]
         \/ pc[r] = "hints" /\ pc'[r] = "use" /\ made' = [made EXCEPT ![h].hints = FALSE]
  BY <1>a DEF WriteFstab, RemoveHints, DInv, ScriptType, Own, Placed
<1>2. ScriptType'
  BY ScriptTypeStep DEF DInv, Next, Step
<1>3. \A x \in Roots : /\ Hash(x)' = Hash(x)
                       /\ \A q : Right(x, q)' = Right(x, q) /\ NeedsPatch(x, q)' = NeedsPatch(x, q)
  BY <1>1, HashKeeps
<1>4. /\ DOMAIN made' = DOMAIN made
      /\ \A k \in DOMAIN made \ {h} : made'[k] = made[k]
      /\ \/ pc[r] = "fstab" /\ made'[h] = [made[h] EXCEPT !.fstab = TRUE]
         \/ pc[r] = "hints" /\ made'[h] = [made[h] EXCEPT !.hints = FALSE]
  BY <1>1
<1>5. \A k \in DOMAIN made : IsTree(made[k]) /\ DOMAIN k \subseteq Packages
  BY DEF DInv, IsDirectory
<1>6. /\ IsTree(made'[h]) /\ made'[h].parts = made[h].parts
      /\ made[h].fstab => made'[h].fstab /\ (pc[r] = "fstab" => made'[h].fstab)
      /\ ~made[h].hints => ~made'[h].hints
      /\ pc[r] = "fstab" => made'[h].fstab
      /\ pc[r] = "hints" => ~made'[h].hints /\ made'[h].fstab = made[h].fstab
  BY <1>1, <1>4, <1>5 DEF IsTree
<1>7. IsDirectory(made')
  BY <1>4, <1>5, <1>6 DEF IsDirectory
<1>8. WholeRoots'
  BY <1>1, <1>4, <1>6 DEF DInv, WholeRoots, Whole
<1>9. ASSUME NEW o \in Roots
      PROVE  RaceMarked(o)' /\ Caused(o)' /\ Progress(o)'
  <2>1. Own(o)
    BY DEF DInv
  <2>2. \A x \in Roots : pc'[x] \in Preparing => pc[x] \in Preparing /\ x # r
    BY <1>1 DEF Preparing
  <2>3. RaceMarked(o)'
    BY <1>1, <1>3, <1>4, <2>1, <2>2 DEF Own, RaceMarked
  <2>4. Parts(o)' = Parts(o) /\ \A n : Unpacked(o, n)' = Unpacked(o, n)
    BY <1>1, <1>3 DEF Parts, Unpacked
  <2>5. Progress(o)'
    BY <1>1, <1>3, <2>1, <2>4 DEF Own, Progress
  <2> QED
    BY <1>1, <1>3, <2>1, <2>3, <2>5 DEF Own, Caused
<1>10. ASSUME NEW o \in Roots
       PROVE  Placed(o)'
  <2>1. Placed(o)
    BY DEF DInv, Own
  <2>2. CASE o = r
    BY <1>a, <1>1, <1>3, <1>4, <1>6, <2>1, <2>2 DEF Placed
  <2>3. CASE o # r /\ Hash(o) = h
    BY <1>1, <1>3, <1>4, <1>6, <2>1, <2>3 DEF Placed
  <2>4. CASE o # r /\ Hash(o) # h
    BY <1>1, <1>3, <1>4, <2>1, <2>4 DEF Placed
  <2> QED
    BY <2>2, <2>3, <2>4
<1>11. IsDirectory(temp)'
  BY <1>1 DEF DInv, IsDirectory
<1> QED
  BY <1>2, <1>7, <1>8, <1>9, <1>10, <1>11 DEF DInv, Own

LEMMA DInvInit == Init => DInv
<1> SUFFICES ASSUME Init
             PROVE  DInv
  OBVIOUS
<1>1. ScriptType
  BY RInvInit DEF RInv
<1>2. \A r \in Roots : pc[r] = "idle"
  BY DEF Init
<1>3. DOMAIN made = {} /\ DOMAIN temp = {}
  BY DEF Init, Nothing
<1> QED
  BY <1>1, <1>2, <1>3
     DEF DInv, IsDirectory, WholeRoots, Own, RaceMarked, Progress, Placed, Caused, Preparing

LEMMA DInvStep ==
  ASSUME DInv, [Next]_vars
  PROVE  DInv'
<1>1. CASE UNCHANGED vars
  <2>1. \A o \in Roots : RaceMarked(o)'
    <3>1. \A o \in Roots : Hash(o)' = Hash(o)
      BY <1>1, HashKeeps
    <3> QED
      BY <1>1, <3>1 DEF DInv, Own, RaceMarked
  <2>2. \A o \in Roots : Own(o)'
    BY <1>1, <2>1, OthersLook
  <2>3. ScriptType'
    BY ScriptTypeStep DEF DInv
  <2> QED
    BY <1>1, <2>2, <2>3 DEF DInv, WholeRoots, IsDirectory
<1>2. ASSUME NEW r \in Roots, ListSteps(r)
      PROVE  DInv'
  BY <1>2, ListStepDisk
<1>3. ASSUME NEW r \in Roots, PlaceSteps(r)
      PROVE  DInv'
  BY <1>3, ProbeDisk, EndStepsDisk, RefuseDisk DEF PlaceSteps
<1>4. ASSUME NEW r \in Roots, DiskSteps(r)
      PROVE  DInv'
  BY <1>4, CleanDisk, UnpackDisk, PatchDisk, InstallDisk, ConfigureDisk DEF DiskSteps
<1> QED
  BY <1>1, <1>2, <1>3, <1>4, StepKinds

LEMMA DInvReady ==
  ASSUME DInv
  PROVE  TypeOK /\ WholeRoots /\ ServedReady /\ FailsForCause
<1>1. TypeOK
  BY DEF DInv, ScriptType, TypeOK
<1>2. WholeRoots
  BY DEF DInv
<1>3. ServedReady
  BY DEF DInv, Own, Placed, WholeRoots, ServedReady
<1>4. FailsForCause
  BY DEF DInv, Own, Caused, FailsForCause
<1> QED
  BY <1>1, <1>2, <1>3, <1>4

LEMMA DInvCorrect == Spec => []DInv
<1>1. DInv /\ [Next]_vars => DInv'
  BY DInvStep
<1> QED
  BY DInvInit, <1>1, PTL DEF Spec

(* Every variable has its type. *)
THEOREM TypeCorrect == Spec => []TypeOK
BY DInvCorrect, DInvReady, PTL

(* A root exists only when it is complete, whenever runs are killed and however
   many other roots use the directory, unless two prepared it at once. *)
THEOREM WholeRootsCorrect == Spec => []WholeRoots
BY DInvCorrect, DInvReady, PTL

(* What a portfile works with is complete and configured. *)
THEOREM ServedReadyCorrect == Spec => []ServedReady
BY DInvCorrect, DInvReady, PTL

(* What killed runs left never makes a call fail. *)
THEOREM FailsForCauseCorrect == Spec => []FailsForCause
BY DInvCorrect, DInvReady, PTL

(* A root that a portfile uses does not change. *)
THEOREM UsedRootStaysCorrect == Spec => UsedRootStays
<1>1. ASSUME DInv, [Next]_vars, NEW o \in Roots, pc[o] = "use"
      PROVE  made'[Hash(o)] = made[Hash(o)]
  <2>1. /\ Hash(o) \in DOMAIN made /\ IsTree(made[Hash(o)])
        /\ made[Hash(o)].fstab = TRUE /\ made[Hash(o)].hints = FALSE
    BY <1>1 DEF DInv, Own, Placed, IsDirectory, IsTree
  <2>2. CASE UNCHANGED made
    BY <2>2
  <2>3. ASSUME NEW r \in Roots, Install(r), ~UNCHANGED made
        PROVE  made'[Hash(o)] = made[Hash(o)]
    BY <2>1, <2>3 DEF Install, Put
  <2>4. ASSUME NEW r \in Roots, WriteFstab(r) \/ RemoveHints(r)
        PROVE  made'[Hash(o)] = made[Hash(o)]
    <3>1. CASE Hash(r) # Hash(o)
      BY <2>1, <2>4, <3>1 DEF WriteFstab, RemoveHints
    <3>2. CASE Hash(r) = Hash(o)
      <4>1. \/ made'[Hash(o)] = [made[Hash(o)] EXCEPT !.fstab = TRUE]
            \/ made'[Hash(o)] = [made[Hash(o)] EXCEPT !.hints = FALSE]
        BY <2>1, <2>4, <3>2 DEF WriteFstab, RemoveHints
      <4> QED
        BY <2>1, <4>1 DEF IsTree
    <3> QED
      BY <3>1, <3>2
  <2>5. UNCHANGED made \/ \E r \in Roots : Install(r) \/ WriteFstab(r) \/ RemoveHints(r)
    BY <1>1 DEF Next, Step, Resolve, EndOfLoop, Probe, Clean, Unpack, Patch, EndOfUnpack, Exit,
           Redeclare, Call
  <2> QED
    BY <2>2, <2>3, <2>4, <2>5
<1>2. DInv /\ [Next]_vars =>
        [\A r \in Roots : pc[r] = "use" => made'[Hash(r)] = made[Hash(r)]]_vars
  BY <1>1
<1> QED
  BY DInvCorrect, <1>2, PTL DEF Spec, UsedRootStays

-----------------------------------------------------------------------------
(* How often a package is hashed. *)

(* A package may be resolved twice when an alias stands for it, or when one
   list of dependencies names it twice. *)
Doubled(p) ==
  \/ \E n \in DOMAIN Provider : Provider[n] = p
  \/ \E q \in Packages : ~Once(Deps[q], p)

OnceIn(r) ==
  \A p \in Names : ~Doubled(p) =>
    /\ Once(backlog[r], p) /\ Once(resolved[r], p)
    /\ p \in Elements(resolved[r]) => p \notin Elements(backlog[r])

(* The hash of a root counts a package once, unless it may be resolved twice. *)
CountedOnce ==
  \A h \in DOMAIN made : \A p \in DOMAIN h : ~Doubled(p) => h[p].times = 1

IsHash(h) == h = [p \in DOMAIN h |-> [times |-> h[p].times, direct |-> h[p].direct]]

OInv ==
  /\ ScriptType
  /\ \A r \in Roots : OnceIn(r)
  /\ CountedOnce /\ \A h \in DOMAIN made : IsHash(h)

LEMMA HashOnce ==
  ASSUME OInv, NEW r \in Roots
  PROVE  /\ IsHash(Hash(r))
         /\ \A p \in DOMAIN Hash(r) : ~Doubled(p) => Hash(r)[p].times = 1
<1>1. DOMAIN Hash(r) = Elements(resolved[r])
  BY DEF Hash
<1>2. IsHash(Hash(r))
  BY DEF Hash, IsHash
<1>3. ASSUME NEW p \in Elements(resolved[r]), ~Doubled(p)
      PROVE  Hash(r)[p].times = 1
  <2>1. p \in Names
    BY ElementsType DEF OInv, ScriptType, Names
  <2>2. Once(resolved[r], p)
    BY <1>3, <2>1 DEF OInv, OnceIn
  <2>3. \E i \in DOMAIN resolved[r] : {j \in DOMAIN resolved[r] : resolved[r][j] = p} = {i}
    BY <1>3, <2>2 DEF Elements, Once
  <2>4. Cardinality({j \in DOMAIN resolved[r] : resolved[r][j] = p}) = 1
    BY <2>3, FS_Singleton
  <2> QED
    BY <2>4 DEF Hash
<1> QED
  BY <1>1, <1>2, <1>3

(* A list that a call begins with has no element twice. *)
LEMMA BacklogOnce ==
  ASSUME NEW r \in Roots, NEW q \in Requests[r], NEW p
  PROVE  Once(FirstBacklog(Requested(r, q)), p)
<1> DEFINE names == Requested(r, q)
<1>1. names \in Seq(Names)
  BY RequestedType
<1>2. Distinct(names) \in Seq(Names) /\ Once(Distinct(names), p)
  BY <1>1, DistinctType, OnceDistinct
<1>3. Elements(Distinct(names)) \subseteq Elements(names)
  <2> DEFINE I == {i \in DOMAIN names : \A j \in 1 .. i - 1 : names[j] # names[i]}
  <2>1. I \in SUBSET DOMAIN names /\ Distinct(names) = At(names, I)
    BY DEF Distinct
  <2> HIDE DEF I, names
  <2>2. Elements(At(names, I)) = {names[i] : i \in I}
    BY <1>1, <2>1, AtElements
  <2> QED
    BY <2>1, <2>2 DEF Elements
<1> HIDE DEF names
<1>4. ASSUME Runtime \notin Elements(names)
      PROVE  Once(Append(Distinct(names), Runtime), p)
  BY <1>2, <1>3, <1>4, OnceAppend, PackageAssumption
<1> QED
  BY <1>2, <1>4 DEF FirstBacklog, names

LEMMA OnceTurn ==
  ASSUME OInv, NEW r \in Roots, Resolve(r)
  PROVE  OnceIn(r)'
<1>1. ScriptType /\ backlog[r] # <<>>
  BY DEF OInv, Resolve
<1>2. SUFFICES ASSUME NEW p \in Names, ~Doubled(p)
               PROVE  /\ Once(backlog'[r], p) /\ Once(resolved'[r], p)
                      /\ p \in Elements(resolved'[r]) => p \notin Elements(backlog'[r])
  BY DEF OnceIn, Doubled
<1>3. /\ Once(backlog[r], p) /\ Once(resolved[r], p)
      /\ p \in Elements(resolved[r]) => p \notin Elements(backlog[r])
  BY <1>2 DEF OInv, OnceIn
<1>4. /\ Head(backlog[r]) \in Names /\ Tail(backlog[r]) \in Seq(Names)
      /\ Elements(backlog[r]) = {Head(backlog[r])} \union Elements(Tail(backlog[r]))
      /\ Once(Tail(backlog[r]), p)
      /\ Head(backlog[r]) = p => p \notin Elements(Tail(backlog[r]))
  BY <1>1, <1>3, HeadAndTail, OnceTail DEF ScriptType
<1>5. CASE Skip(r) \/ NoteUnknown(r)
  <2>1. backlog'[r] = Tail(backlog[r]) /\ resolved'[r] = resolved[r]
    BY <1>1, <1>5 DEF Skip, NoteUnknown, ScriptType
  <2> QED
    BY <1>3, <1>4, <2>1
<1>6. CASE Take(r)
  <2>1. PICK name \in available[r], rest \in Seq(Names), new \in Seq(Names) :
          /\ name = Target(r, Head(backlog[r]))
          /\ rest = Tail(backlog[r])
          /\ \A x : Once(DepsOf(r, name), x) => Once(new, x)
          /\ Elements(new) = Elements(DepsOf(r, name))
                                \ (Elements(resolved[r]) \union {name} \union Elements(rest))
          /\ resolved' = [resolved EXCEPT ![r] = Append(@, name)]
          /\ backlog' = [backlog EXCEPT ![r] = rest \o new]
          /\ unknown' = unknown
    BY <1>1, <1>6, TakeEffect
  <2>2. backlog'[r] = rest \o new /\ resolved'[r] = Append(resolved[r], name)
    BY <1>1, <2>1 DEF ScriptType
  <2>3. name \in Packages /\ resolved[r] \in Seq(Packages)
    BY <1>1 DEF ScriptType
  <2>4. Once(new, p)
    <3>1. Once(DepsOf(r, name), p)
      BY <1>2, <2>3, OnceEmpty DEF DepsOf, Doubled
    <3> QED
      BY <2>1, <3>1
  <2>5. name = p => Head(backlog[r]) = p
    BY <1>2, <2>1 DEF Target, IsAlias, Doubled
  <2>6. name = p => p \notin Elements(resolved[r]) /\ p \notin Elements(rest)
    BY <1>3, <1>4, <2>1, <2>5
  <2>7. Once(resolved'[r], p)
    BY <1>3, <2>2, <2>3, <2>6, OnceAppend
  <2>8. Once(backlog'[r], p)
    <3>1. Once(rest, p) /\ p \notin Elements(rest) \intersect Elements(new)
      BY <1>4, <2>1
    <3> QED
      BY <2>2, <2>4, <3>1, OnceConcat
  <2>9. /\ Elements(backlog'[r]) = Elements(rest) \union Elements(new)
        /\ Elements(resolved'[r]) = Elements(resolved[r]) \union {name}
    BY <2>2, <2>3, ConcatElements, AppendElements
  <2> QED
    BY <1>3, <1>4, <2>1, <2>6, <2>7, <2>8, <2>9
<1> QED
  BY <1>5, <1>6 DEF Resolve

LEMMA OInvStep ==
  ASSUME OInv, [Next]_vars
  PROVE  OInv'
<1>1. ScriptType'
  BY ScriptTypeStep DEF OInv
<1>2. ASSUME NEW r \in Roots, backlog'[r] = backlog[r], resolved'[r] = resolved[r]
      PROVE  OnceIn(r)'
  BY <1>2 DEF OInv, OnceIn, Doubled
<1>3. ASSUME UNCHANGED made
      PROVE  CountedOnce' /\ \A h \in DOMAIN made' : IsHash(h)
  BY <1>3 DEF OInv, CountedOnce, Doubled
<1>4. CASE UNCHANGED vars
  BY <1>1, <1>2, <1>3, <1>4 DEF OInv, IsHash
<1>5. ASSUME NEW r \in Roots, ListSteps(r)
      PROVE  OInv'
  <2>1. /\ UNCHANGED made
        /\ \A o \in Roots \ {r} : backlog'[o] = backlog[o] /\ resolved'[o] = resolved[o]
    BY <1>5 DEF ListSteps, Resolve, Skip, NoteUnknown, Take, Exit, Call, OInv, ScriptType
  <2>2. OnceIn(r)'
    <3>1. CASE Resolve(r)
      BY <3>1, OnceTurn
    <3>2. ASSUME resolved'[r] = <<>>, \A p : Once(backlog'[r], p)
          PROVE  OnceIn(r)'
      BY <3>2, OnceEmpty, EmptyElements DEF OnceIn
    <3>3. CASE Exit(r)
      BY <3>2, <3>3, OnceEmpty DEF Exit, OInv, ScriptType
    <3>4. ASSUME NEW q \in Requests[r], Call(r, q)
          PROVE  OnceIn(r)'
      BY <3>2, <3>4, BacklogOnce DEF Call, OInv, ScriptType
    <3> QED
      BY <1>5, <3>1, <3>3, <3>4 DEF ListSteps
  <2> QED
    BY <1>1, <1>2, <1>3, <2>1, <2>2 DEF OInv, IsHash
<1>6. ASSUME NEW r \in Roots, PlaceSteps(r)
      PROVE  OInv'
  <2>1. UNCHANGED <<made, backlog, resolved>>
    BY <1>6 DEF PlaceSteps, Refuse, Redeclare, EndOfLoop, Probe, EndOfUnpack
  <2> QED
    BY <1>1, <1>2, <1>3, <2>1 DEF OInv, IsHash
<1>7. ASSUME NEW r \in Roots, DiskSteps(r)
      PROVE  OInv'
  <2>1. UNCHANGED <<backlog, resolved>>
    BY <1>7 DEF DiskSteps, Clean, Unpack, Patch, Install, WriteFstab, RemoveHints
  <2>2. DOMAIN made' \subseteq DOMAIN made \union {Hash(r)}
    BY <1>7 DEF DiskSteps, Clean, Unpack, Patch, Install, WriteFstab, RemoveHints, Put
  <2>3. \A h \in DOMAIN made' : IsHash(h) /\ \A p \in DOMAIN h : ~Doubled(p) => h[p].times = 1
    BY <2>2, HashOnce DEF OInv, CountedOnce
  <2> QED
    BY <1>1, <1>2, <2>1, <2>3 DEF OInv, IsHash, CountedOnce, Doubled
<1> QED
  BY <1>4, <1>5, <1>6, <1>7, StepKinds

LEMMA OInvCorrect == Spec => []OInv
<1>1. Init => OInv
  <2>1. Init => ScriptType
    BY RInvInit DEF RInv
  <2>2. Init => \A r \in Roots : OnceIn(r)
    BY OnceEmpty, EmptyElements DEF Init, OnceIn
  <2>3. Init => DOMAIN made = {}
    BY DEF Init, Nothing
  <2> QED
    BY <2>1, <2>2, <2>3 DEF OInv, CountedOnce
<1>2. OInv /\ [Next]_vars => OInv'
  BY OInvStep
<1> QED
  BY <1>1, <1>2, PTL DEF Spec

(* Where the hash depends on the order of the packages: only in how often it
   counts those that an alias stands for, or that one list names twice. *)
THEOREM CountedOnceCorrect == Spec => []CountedOnce
<1>1. OInv => CountedOnce
  BY DEF OInv
<1> QED
  BY <1>1, OInvCorrect, PTL

(* Hence "a stable collection of hashes, regardless of package order" of every
   set of packages that has none of these. *)
OneRootPerPlainSet ==
  \A g, h \in DOMAIN made :
    /\ DOMAIN g = DOMAIN h /\ \A p \in DOMAIN g : ~Doubled(p) /\ g[p].direct = h[p].direct
    => g = h

THEOREM OneRootPerPlainSetCorrect == Spec => []OneRootPerPlainSet
<1>1. OInv => OneRootPerPlainSet
  BY DEF OInv, CountedOnce, OneRootPerPlainSet, IsHash
<1> QED
  BY <1>1, OInvCorrect, PTL

-----------------------------------------------------------------------------
(* Why the resolver comes to an end.  That it does is liveness, and checked by
   TLC as Resolves; what is proved is that every turn brings it closer. *)

(* The places in a list of what is in a set. *)
PlacesOf(s, S) == {i \in DOMAIN s : s[i] \in S}

(* The names that wait although their package is resolved. *)
Redundant(r) == Cardinality(PlacesOf(backlog[r], Elements(resolved[r])))

(* What is resolved stays within the finite set of the declared packages. *)
Bounded ==
  \A r \in Roots :
    IsFiniteSet(available[r]) /\ Elements(resolved[r]) \subseteq available[r]

(* A turn resolves a new package; or it takes away a name whose package is
   resolved; or it shortens the list. *)
Advances(r) ==
  /\ Elements(resolved[r]) \subseteq Elements(resolved[r])'
  /\ \/ Elements(resolved[r])' # Elements(resolved[r])
     \/ Redundant(r)' < Redundant(r)
     \/ Redundant(r)' <= Redundant(r) /\ Len(backlog'[r]) < Len(backlog[r])

ResolveAdvances ==
  [][\A r \in Roots :
       /\ pc[r] = "resolve" /\ pc'[r] = "resolve"
       /\ backlog'[r] # backlog[r] \/ resolved'[r] # resolved[r]
       => Advances(r)]_vars

LEMMA FiniteElements ==
  ASSUME NEW X, NEW s \in Seq(X)
  PROVE  IsFiniteSet(Elements(s))
<1>1. DOMAIN s = 1 .. Len(s) /\ Len(s) \in Nat
  BY LenProperties
<1>2. IsFiniteSet(DOMAIN s)
  BY <1>1, FS_Interval
<1> DEFINE f == [i \in DOMAIN s |-> s[i]]
<1>3. f \in Surjection(DOMAIN s, Elements(s))
  BY DEF Surjection, Elements
<1> HIDE DEF f
<1> QED
  BY <1>2, <1>3, FS_Surjection

LEMMA FinitePlaces ==
  ASSUME NEW X, NEW s \in Seq(X), NEW S
  PROVE  IsFiniteSet(PlacesOf(s, S)) /\ Cardinality(PlacesOf(s, S)) \in Nat
<1>1. DOMAIN s = 1 .. Len(s) /\ Len(s) \in Nat
  BY LenProperties
<1>2. IsFiniteSet(DOMAIN s)
  BY <1>1, FS_Interval
<1>3. PlacesOf(s, S) \in SUBSET DOMAIN s
  BY DEF PlacesOf
<1>4. IsFiniteSet(PlacesOf(s, S))
  BY <1>2, <1>3, FS_Subset
<1> QED
  BY <1>4, FS_CardinalityType

(* The head leaves, and what is added is not in the set. *)
LEMMA PlacesOfRest ==
  ASSUME NEW X, NEW s \in Seq(X), s # <<>>, NEW w \in Seq(X), NEW S,
         Elements(w) \intersect S = {}
  PROVE  Cardinality(PlacesOf(Tail(s) \o w, S))
           <= Cardinality(PlacesOf(s, S)) - (IF Head(s) \in S THEN 1 ELSE 0)
<1> DEFINE t == Tail(s) \o w
           A == PlacesOf(t, S)
           B == PlacesOf(s, S) \ {1}
           f == [i \in A |-> i + 1]
<1>1. Len(s) \in Nat /\ Len(s) > 0 /\ DOMAIN s = 1 .. Len(s) /\ Head(s) = s[1]
  BY EmptySeq, LenProperties
<1>2. /\ Tail(s) \in Seq(X) /\ Len(Tail(s)) = Len(s) - 1
      /\ \A i \in 1 .. Len(s) - 1 : Tail(s)[i] = s[i + 1]
  OBVIOUS
<1>3. Len(w) \in Nat /\ DOMAIN w = 1 .. Len(w)
  BY LenProperties
<1>4. /\ t \in Seq(X) /\ Len(t) = Len(s) - 1 + Len(w)
      /\ \A i \in 1 .. Len(s) - 1 + Len(w) :
           t[i] = IF i <= Len(s) - 1 THEN Tail(s)[i] ELSE w[i - (Len(s) - 1)]
  BY <1>2, ConcatProperties
<1>5. DOMAIN t = 1 .. Len(s) - 1 + Len(w)
  BY <1>4, LenProperties
<1> HIDE DEF t
<1>6. \A i \in A : i \in 1 .. Len(s) - 1 /\ t[i] = s[i + 1]
  <2>1. SUFFICES ASSUME NEW i \in A
                 PROVE  i \in 1 .. Len(s) - 1 /\ t[i] = s[i + 1]
    OBVIOUS
  <2>2. i \in 1 .. Len(s) - 1 + Len(w) /\ t[i] \in S
    BY <1>5, <2>1 DEF PlacesOf
  <2>3. CASE i <= Len(s) - 1
    BY <1>1, <1>2, <1>4, <2>2, <2>3
  <2>4. CASE ~(i <= Len(s) - 1)
    <3>1. i - (Len(s) - 1) \in DOMAIN w
      BY <1>1, <1>3, <2>2, <2>4
    <3>2. t[i] = w[i - (Len(s) - 1)]
      BY <1>4, <2>2, <2>4
    <3> QED
      BY <2>2, <3>1, <3>2 DEF Elements
  <2> QED
    BY <2>3, <2>4
<1>7. f \in Injection(A, B)
  <2>1. \A i \in A : i + 1 \in B
    BY <1>1, <1>6 DEF PlacesOf
  <2>2. \A i, j \in A : i + 1 = j + 1 => i = j
    BY <1>6
  <2> HIDE DEF A, B
  <2> QED
    BY <2>1, <2>2 DEF Injection, IsInjective
<1>8. IsFiniteSet(PlacesOf(s, S)) /\ Cardinality(PlacesOf(s, S)) \in Nat
  BY FinitePlaces
<1>9. /\ IsFiniteSet(B)
      /\ Cardinality(B) = IF 1 \in PlacesOf(s, S) THEN Cardinality(PlacesOf(s, S)) - 1
                          ELSE Cardinality(PlacesOf(s, S))
  BY <1>8, FS_RemoveElement
<1> HIDE DEF A, B, f
<1>10. Cardinality(A) <= Cardinality(B)
  BY <1>7, <1>9, FS_Injection
<1>11. 1 \in PlacesOf(s, S) <=> Head(s) \in S
  BY <1>1 DEF PlacesOf
<1> QED
  BY <1>8, <1>9, <1>10, <1>11 DEF A, t

LEMMA TurnAdvances ==
  ASSUME RInv, NEW r \in Roots, Resolve(r)
  PROVE  Advances(r)
<1>1. ScriptType /\ backlog[r] # <<>> /\ backlog[r] \in Seq(Names) /\ resolved[r] \in Seq(Packages)
  BY DEF RInv, Resolve, ScriptType
<1>2. /\ Tail(backlog[r]) \in Seq(Names) /\ Len(Tail(backlog[r])) = Len(backlog[r]) - 1
      /\ Len(backlog[r]) \in Nat
  BY <1>1, HeadTailProperties, LenProperties
<1>3. Redundant(r) \in Nat
  BY <1>1, FinitePlaces DEF Redundant
<1>4. CASE Skip(r) \/ NoteUnknown(r)
  <2>1. backlog'[r] = Tail(backlog[r]) /\ resolved'[r] = resolved[r]
    BY <1>1, <1>4 DEF Skip, NoteUnknown, ScriptType
  <2>2. Tail(backlog[r]) \o <<>> = Tail(backlog[r]) /\ <<>> \in Seq(Names)
    BY <1>2, ConcatEmptySeq, EmptySeq
  <2>3. Cardinality(PlacesOf(Tail(backlog[r]), Elements(resolved[r])))
          <= Cardinality(PlacesOf(backlog[r], Elements(resolved[r])))
               - (IF Head(backlog[r]) \in Elements(resolved[r]) THEN 1 ELSE 0)
    BY <1>1, <2>2, PlacesOfRest, EmptyElements
  <2>4. Cardinality(PlacesOf(Tail(backlog[r]), Elements(resolved[r]))) \in Nat
    BY <1>2, FinitePlaces
  <2>5. Redundant(r)' <= Redundant(r)
    BY <1>3, <2>1, <2>3, <2>4 DEF Redundant
  <2> QED
    BY <1>2, <2>1, <2>5 DEF Advances
<1>5. CASE Take(r)
  <2>1. PICK name \in available[r], rest \in Seq(Names), new \in Seq(Names) :
          /\ name = Target(r, Head(backlog[r]))
          /\ rest = Tail(backlog[r])
          /\ \A x : Once(DepsOf(r, name), x) => Once(new, x)
          /\ Elements(new) = Elements(DepsOf(r, name))
                                \ (Elements(resolved[r]) \union {name} \union Elements(rest))
          /\ resolved' = [resolved EXCEPT ![r] = Append(@, name)]
          /\ backlog' = [backlog EXCEPT ![r] = rest \o new]
          /\ unknown' = unknown
    BY <1>1, <1>5, TakeEffect
  <2>2. backlog'[r] = rest \o new /\ resolved'[r] = Append(resolved[r], name)
    BY <1>1, <2>1 DEF ScriptType
  <2>3. Elements(resolved'[r]) = Elements(resolved[r]) \union {name}
    BY <1>1, <2>2, AppendElements DEF ScriptType
  <2>4. CASE name \notin Elements(resolved[r])
    BY <2>3, <2>4 DEF Advances
  <2>5. CASE name \in Elements(resolved[r])
    <3>1. Head(backlog[r]) = name
      BY <1>5, <2>1, <2>5 DEF Take, Provided, Target
    <3>2. Elements(resolved'[r]) = Elements(resolved[r])
      BY <2>3, <2>5
    <3>3. Elements(new) \intersect Elements(resolved[r]) = {}
      BY <2>1
    <3>4. Cardinality(PlacesOf(rest \o new, Elements(resolved[r])))
            <= Cardinality(PlacesOf(backlog[r], Elements(resolved[r])))
                 - (IF Head(backlog[r]) \in Elements(resolved[r]) THEN 1 ELSE 0)
      BY <1>1, <2>1, <3>3, PlacesOfRest
    <3>5. Cardinality(PlacesOf(rest \o new, Elements(resolved[r]))) \in Nat
      <4>1. rest \o new \in Seq(Names)
        BY ConcatElements
      <4> QED
        BY <4>1, FinitePlaces
    <3>6. Redundant(r)' < Redundant(r)
      BY <1>3, <2>2, <2>5, <3>1, <3>2, <3>4, <3>5 DEF Redundant
    <3> QED
      BY <3>2, <3>6 DEF Advances
  <2> QED
    BY <2>4, <2>5
<1> QED
  BY <1>4, <1>5 DEF Resolve

(* The loop of the resolver comes closer to its end with every turn: it cannot
   go on for ever, for the packages it may resolve are finitely many. *)
THEOREM ResolveAdvancesCorrect == Spec => []Bounded /\ ResolveAdvances
<1> DEFINE Finite == \A r \in Roots : IsFiniteSet(available[r])
<1>1. Init => RInv /\ Finite
  <2>1. Init => Finite
    BY FS_EmptySet DEF Init
  <2> QED
    BY <2>1, RInvInit
<1>2. RInv /\ Finite /\ [Next]_vars => RInv' /\ Finite'
  <2>1. ASSUME RInv, Finite, [Next]_vars
        PROVE  Finite'
    <3>1. CASE UNCHANGED available
      BY <2>1, <3>1
    <3>2. ASSUME NEW r \in Roots, Exit(r)
          PROVE  Finite'
      BY <2>1, <3>2, FS_EmptySet DEF Exit, RInv, ScriptType
    <3>3. ASSUME NEW r \in Roots, NEW q \in Requests[r], Call(r, q)
          PROVE  Finite'
      <4>1. IsFiniteSet(Elements(q.direct)) /\ IsFiniteSet(Elements(Declared \o q.extra))
        BY CallType, ConcatElements, FiniteElements, PackageAssumption
      <4>2. IsFiniteSet(Elements(Declared \o q.extra) \ direct[r])
        BY <4>1, FS_Subset
      <4>3. IsFiniteSet((Elements(Declared \o q.extra) \ direct[r]) \union Elements(q.direct))
        BY <4>1, <4>2, FS_Union
      <4> QED
        BY <2>1, <3>3, <4>3 DEF Call, RInv, ScriptType
    <3> QED
      BY <2>1, <3>1, <3>2, <3>3 DEF Next, Step, Redeclare, Resolve, EndOfLoop, Probe, Clean, Unpack,
         Patch, EndOfUnpack, Install, WriteFstab, RemoveHints
  <2> QED
    BY <2>1, RInvStep
<1>3. RInv /\ Finite => Bounded
  BY DEF RInv, Closing, Bounded
<1>4. RInv /\ [Next]_vars =>
        [\A r \in Roots :
           /\ pc[r] = "resolve" /\ pc'[r] = "resolve"
           /\ backlog'[r] # backlog[r] \/ resolved'[r] # resolved[r]
           => Advances(r)]_vars
  <2>1. ASSUME RInv, Next, NEW r \in Roots, pc[r] = "resolve", pc'[r] = "resolve",
               backlog'[r] # backlog[r] \/ resolved'[r] # resolved[r]
        PROVE  Resolve(r)
    <3>1. PICK o \in Roots : ListSteps(o) \/ PlaceSteps(o) \/ DiskSteps(o)
      BY <2>1, StepKinds
    <3>2. CASE PlaceSteps(o) \/ DiskSteps(o)
      BY <2>1, <3>2 DEF PlaceSteps, Refuse, Redeclare, DiskSteps, EndOfLoop, Probe, EndOfUnpack, Clean, Unpack,
         Patch, Install, WriteFstab, RemoveHints
    <3>3. CASE o # r /\ ListSteps(o)
      BY <2>1, <3>3 DEF ListSteps, Resolve, Skip, NoteUnknown, Take, Exit, Call, RInv, ScriptType
    <3>4. CASE o = r /\ ListSteps(o)
      BY <2>1, <3>4 DEF ListSteps, Exit, Call, RInv, ScriptType
    <3> QED
      BY <3>1, <3>2, <3>3, <3>4
  <2> QED
    BY <2>1, TurnAdvances
<1> HIDE DEF Finite
<1> QED
  BY <1>1, <1>2, <1>3, <1>4, PTL DEF Spec, ResolveAdvances
=============================================================================
