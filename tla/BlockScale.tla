----------------------------- MODULE BlockScale -----------------------------
(* scale of scripts/test_ports/vcpkg-ci-highway/project/scale.cpp: an array  *)
(* is multiplied in blocks of four vectors, then of one vector, then element *)
(* by element.  The number of lanes is that of the processor on which the    *)
(* program runs.                                                             *)
EXTENDS Integers

CONSTANTS
  LaneCounts,  \* lanes that a vector may have
  MaxSize      \* bound: the longest array

ASSUME LanesAssumption == LaneCounts \subseteq Nat \ {0}
ASSUME SizeAssumption == MaxSize \in Nat

VARIABLES
  size,     \* the length of src and dst
  lanes,    \* N
  i,        \* the loops' index
  loop,     \* the loop that runs: "four", "one", "tail", "end"
  stored,   \* the indices of dst that were stored
  touched,  \* history: the indices the last step loaded and stored
  vector    \* history: the last step used aligned vector operations

svars == <<size, lanes, i, loop, stored, touched, vector>>

ScaleInit ==
  /\ size \in 0..MaxSize /\ lanes \in LaneCounts
  /\ i = 0 /\ loop = "four" /\ stored = {} /\ touched = {} /\ vector = FALSE

(* Load, multiply and store n elements from i on. *)
Move(n, vectors) ==
  /\ touched' = i..(i + n - 1) /\ stored' = stored \union touched'
  /\ vector' = vectors /\ i' = i + n
  /\ UNCHANGED <<size, lanes, loop>>

NextLoop(from, to) ==
  /\ loop = from /\ loop' = to /\ touched' = {} /\ vector' = FALSE
  /\ UNCHANGED <<size, lanes, i, stored>>

(* Mutant: the last of the four vectors may not fit. *)
ThreeFit == i + 3 * lanes <= size
(* One turn of a loop, or its end. *)
FourFit == i + 4 * lanes <= size
OneFits == i + lanes <= size
FourVectors == loop = "four" /\ FourFit /\ Move(4 * lanes, TRUE)
OneVector == loop = "one" /\ OneFits /\ Move(lanes, TRUE)
Element == loop = "tail" /\ i < size /\ Move(1, FALSE)
LoopEnds ==
  \/ ~FourFit /\ NextLoop("four", "one")
  \/ ~OneFits /\ NextLoop("one", "tail")
  \/ i >= size /\ NextLoop("tail", "end")

ScaleNext == FourVectors \/ OneVector \/ Element \/ LoopEnds
ScaleSpec == ScaleInit /\ [][ScaleNext]_svars

(*------------------------------- properties -------------------------------*)
ScaleTypeOK ==
  /\ size \in 0..MaxSize /\ lanes \in LaneCounts /\ i \in Nat
  /\ loop \in {"four", "one", "tail", "end"}
  /\ stored \subseteq Nat /\ touched \subseteq Nat /\ vector \in BOOLEAN

(* No load or store is outside the arrays, whatever their length. *)
WithinArrays == touched \subseteq 0..(size - 1)

(* At the end every element is scaled. *)
AllScaled == loop = "end" => stored = 0..(size - 1)

(* No element is scaled twice, and none is skipped on the way. *)
ScaledOnce == [][touched' \intersect stored = {} /\ stored \subseteq stored']_svars

(* A vector starts a whole number of vectors after the array: the aligned
   operations are sound if the array is aligned. *)
VectorsAligned == vector => \E k \in 0..MaxSize : i = k * lanes

(* The three loops of scale fit together at every length and number of lanes:
   they stay in the arrays, at whole vectors, and leave nothing out. *)
ScaleCorrect == WithinArrays /\ AllScaled /\ VectorsAligned
=============================================================================
