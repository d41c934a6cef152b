------------------------- MODULE TestPrograms_proofs -------------------------
(* The test programs for every value of the constants: scale, the tables   *)
(* of Base64, the sequential programs, and the sum of all programs, to which *)
(* the theorems about the single ones carry over.                            *)
EXTENDS TestPrograms, WebRtcCall_proofs, WindowProgram_proofs, TLAPS

(*--------------------------------- scale ----------------------------------*)
(* What is stored is always the part of the array before the index. *)
Prefix ==
  /\ stored = 0..(i - 1) /\ i <= size
  /\ touched \subseteq 0..(size - 1)
  /\ loop = "end" => i = size

Multiple == loop \in {"four", "one"} \/ vector => \E k \in 0..MaxSize : i = k * lanes

SInv == ScaleTypeOK /\ Prefix /\ Multiple

LEMMA NextMultiple ==
  ASSUME NEW k \in Nat, NEW n \in Nat \ {0}, NEW m \in Nat, k * n + n <= m
  PROVE  k + 1 \in 0..m /\ k * n + n = (k + 1) * n
<1>1. k * n + n = (k + 1) * n
  OBVIOUS
<1>2. (k + 1) * n >= k + 1
  OBVIOUS
<1>3. QED
  BY <1>1, <1>2

LEMMA FourMore ==
  ASSUME NEW k \in Nat, NEW n \in Nat \ {0}, NEW m \in Nat, k * n + 4 * n <= m
  PROVE  k + 4 \in 0..m /\ k * n + 4 * n = (k + 4) * n
<1>1. k * n + 4 * n = (k + 4) * n
  OBVIOUS
<1>2. (k + 4) * n >= k + 4
  OBVIOUS
<1>3. QED
  BY <1>1, <1>2

LEMMA ScaleFacts ==
  ScaleTypeOK => size \in Nat /\ lanes \in Nat /\ lanes > 0 /\ i \in Nat
BY LanesAssumption, SizeAssumption DEF ScaleTypeOK

(* One turn keeps the prefix. *)
LEMMA MoveKeeps ==
  ASSUME ScaleTypeOK, Prefix, NEW n \in Nat \ {0}, i + n <= size,
         Move(n, TRUE) \/ Move(n, FALSE), loop # "end"
  PROVE  ScaleTypeOK' /\ Prefix' /\ i' = i + n /\ touched' \intersect stored = {}
<1>1. i + n \in Nat /\ size \in Nat /\ i \in Nat
  BY ScaleFacts
<1>2. touched' = i..(i + n - 1) /\ stored' = 0..(i - 1) \union (i..(i + n - 1))
  BY DEF Move, Prefix
<1>3. stored' = 0..(i' - 1)
  BY <1>1, <1>2 DEF Move
<1>4. touched' \subseteq 0..(size - 1) /\ touched' \intersect stored = {}
  BY <1>1, <1>2 DEF Prefix
<1>5. touched' \subseteq Nat /\ stored' \subseteq Nat
  BY <1>1, <1>2
<1>6. QED
  BY <1>1, <1>3, <1>4, <1>5 DEF Move, Prefix, ScaleTypeOK

LEMMA ScaleStep ==
  ASSUME SInv, [ScaleNext]_svars
  PROVE  SInv' /\ (UNCHANGED svars \/ (touched' \intersect stored = {} /\ stored \subseteq stored'))
<1> USE DEF SInv
<1>0. size \in Nat /\ lanes \in Nat /\ lanes > 0 /\ i \in Nat /\ MaxSize \in Nat /\ size <= MaxSize
  BY ScaleFacts, SizeAssumption DEF ScaleTypeOK
<1>1. CASE FourVectors
  <2>0. 4 * lanes \in Nat \ {0} /\ i + 4 * lanes <= size /\ loop # "end"
    BY <1>0, <1>1 DEF FourVectors, FourFit
  <2>6. Move(4 * lanes, TRUE)
    BY <1>1, Zenon DEF FourVectors
  <2>1. /\ ScaleTypeOK' /\ Prefix' /\ i' = i + 4 * lanes /\ touched' \intersect stored = {}
    BY <1>0, <2>0, <2>6, MoveKeeps
  <2>2. PICK k \in 0..MaxSize : i = k * lanes
    BY <1>1 DEF FourVectors, Multiple
  <2>3. k + 4 \in 0..MaxSize /\ i' = (k + 4) * lanes
    BY <1>0, <1>1, <2>1, <2>2, FourMore DEF FourVectors, FourFit
  <2>4. Multiple'
    BY <1>1, <2>3 DEF Multiple, FourVectors, Move
  <2>5. QED
    BY <1>1, <2>1, <2>4 DEF FourVectors, Move
<1>2. CASE OneVector
  <2>0. lanes \in Nat \ {0} /\ i + lanes <= size /\ loop # "end"
    BY <1>0, <1>2 DEF OneVector, OneFits
  <2>6. Move(lanes, TRUE)
    BY <1>2, Zenon DEF OneVector
  <2>1. /\ ScaleTypeOK' /\ Prefix' /\ i' = i + lanes /\ touched' \intersect stored = {}
    BY <1>0, <2>0, <2>6, MoveKeeps
  <2>2. PICK k \in 0..MaxSize : i = k * lanes
    BY <1>2 DEF OneVector, Multiple
  <2>3. k + 1 \in 0..MaxSize /\ i' = (k + 1) * lanes
    BY <1>0, <1>2, <2>1, <2>2, NextMultiple DEF OneVector, OneFits
  <2>4. Multiple'
    BY <1>2, <2>3 DEF Multiple, OneVector, Move
  <2>5. QED
    BY <1>2, <2>1, <2>4 DEF OneVector, Move
<1>3. CASE Element
  <2>0. 1 \in Nat \ {0} /\ i + 1 <= size /\ loop # "end"
    BY <1>0, <1>3 DEF Element
  <2>6. Move(1, FALSE)
    BY <1>3, Zenon DEF Element
  <2>1. /\ ScaleTypeOK' /\ Prefix' /\ touched' \intersect stored = {}
    BY <1>0, <2>0, <2>6, MoveKeeps
  <2>2. Multiple'
    BY <1>3 DEF Multiple, Element, Move
  <2>3. QED
    BY <1>3, <2>1, <2>2 DEF Element, Move
<1>4. CASE LoopEnds
  <2>1. ScaleTypeOK'
    BY <1>4 DEF LoopEnds, NextLoop, ScaleTypeOK
  <2>3. Prefix'
    BY <1>0, <1>4 DEF LoopEnds, NextLoop, Prefix
  <2>2. Multiple' /\ touched' = {} /\ stored' = stored
    BY <1>4 DEF LoopEnds, NextLoop, Multiple
  <2>4. QED
    BY <2>1, <2>2, <2>3
<1>5. CASE UNCHANGED svars
  BY <1>5 DEF svars, ScaleTypeOK, Prefix, Multiple
<1>6. QED
  BY <1>1, <1>2, <1>3, <1>4, <1>5 DEF ScaleNext

LEMMA ScaleInitInv == ScaleInit => SInv
<1>1. SUFFICES ASSUME ScaleInit PROVE SInv
  OBVIOUS
<1>2. ScaleTypeOK
  BY <1>1 DEF ScaleInit, ScaleTypeOK
<1>5. Prefix
  BY <1>1, <1>2, ScaleFacts DEF ScaleInit, Prefix
<1>3. lanes \in Nat /\ 0 \in 0..MaxSize /\ i = 0 * lanes
  BY <1>1, LanesAssumption, SizeAssumption DEF ScaleInit
<1>4. QED
  BY <1>2, <1>3, <1>5 DEF SInv, Multiple

LEMMA ScaleInductive == ScaleSpec => []SInv
<1>1. SInv /\ [ScaleNext]_svars => SInv'
  BY ScaleStep
<1>2. QED
  BY <1>1, ScaleInitInv, PTL DEF ScaleSpec

(* No access of scale is outside the arrays, for every length and vector. *)
THEOREM ScaleStaysWithin == ScaleSpec => []WithinArrays
<1>1. SInv => WithinArrays
  BY DEF SInv, Prefix, WithinArrays
<1>2. QED
  BY <1>1, ScaleInductive, PTL

(* scale ends with every element scaled. *)
THEOREM ScaleIsComplete == ScaleSpec => []AllScaled
<1>1. SInv => AllScaled
  BY DEF SInv, Prefix, AllScaled
<1>2. QED
  BY <1>1, ScaleInductive, PTL

(* Aligned operations are used at multiples of the vector's length only. *)
THEOREM ScaleIsAligned == ScaleSpec => []VectorsAligned
<1>1. SInv => VectorsAligned
  BY DEF SInv, Multiple, VectorsAligned
<1>2. QED
  BY <1>1, ScaleInductive, PTL

(* No element is multiplied twice. *)
THEOREM ScaleOnce == ScaleSpec => ScaledOnce
<1>1. SInv /\ [ScaleNext]_svars
      => [touched' \intersect stored = {} /\ stored \subseteq stored']_svars
  BY ScaleStep
<1>2. QED
  BY <1>1, ScaleInductive, PTL DEF ScaleSpec, ScaledOnce

(* The three loops of scale are right for every length and number of lanes. *)
THEOREM ScaleIsCorrect == ScaleSpec => []ScaleCorrect
<1>1. WithinArrays /\ AllScaled /\ VectorsAligned => ScaleCorrect
  BY DEF ScaleCorrect
<1>2. QED
  BY <1>1, ScaleStaysWithin, ScaleIsComplete, ScaleIsAligned, PTL
(* The loops that are left, and the elements: a turn takes some of the latter,
   the end of a loop one of the former. *)
LoopsLeft == [four |-> 3, one |-> 2, tail |-> 1, end |-> 0]
WorkLeft == (size - i) + LoopsLeft[loop]

(* scale ends on every array: no step leaves as much work as it found. *)
ScaleAdvances == [][WorkLeft' < WorkLeft]_svars

LEMMA LoopNumbers ==
  /\ LoopsLeft["four"] = 3 /\ LoopsLeft["one"] = 2
  /\ LoopsLeft["tail"] = 1 /\ LoopsLeft["end"] = 0
BY DEF LoopsLeft

LEMMA WorkIsNumber == ASSUME SInv PROVE WorkLeft \in Nat /\ LoopsLeft[loop] \in Nat
<1>1. size \in Nat /\ i \in Nat /\ i <= size
  BY ScaleFacts DEF SInv, Prefix
<1>2. LoopsLeft[loop] \in Nat
  BY LoopNumbers DEF SInv, ScaleTypeOK
<1>3. QED
  BY <1>1, <1>2 DEF WorkLeft

LEMMA WorkShrinks == ASSUME SInv, ScaleNext PROVE WorkLeft' < WorkLeft
<1>1. size \in Nat /\ lanes \in Nat /\ lanes > 0 /\ i \in Nat
  BY ScaleFacts DEF SInv
<1>2. LoopsLeft[loop] \in Nat
  BY WorkIsNumber
<1>3. ASSUME NEW n \in Nat \ {0}, NEW v \in BOOLEAN, Move(n, v) PROVE WorkLeft' < WorkLeft
  <2>1. i' = i + n /\ size' = size /\ loop' = loop
    BY <1>3 DEF Move
  <2>2. WorkLeft' = (size - (i + n)) + LoopsLeft[loop]
    BY <2>1 DEF WorkLeft, LoopsLeft
  <2>3. QED
    BY <1>1, <1>2, <2>2 DEF WorkLeft
<1>4. ASSUME LoopEnds PROVE WorkLeft' < WorkLeft
  <2>1. /\ i' = i /\ size' = size
        /\ \/ loop = "four" /\ loop' = "one"
           \/ loop = "one" /\ loop' = "tail"
           \/ loop = "tail" /\ loop' = "end"
    BY <1>4 DEF LoopEnds, NextLoop
  <2>2. WorkLeft' = (size - i) + LoopsLeft[loop']
    BY <2>1 DEF WorkLeft, LoopsLeft
  <2>3. QED
    BY <1>1, <2>1, <2>2, LoopNumbers DEF WorkLeft
<1>5. 4 * lanes \in Nat \ {0} /\ lanes \in Nat \ {0}
  BY <1>1
<1>6. FourVectors => WorkLeft' < WorkLeft
  BY <1>3, <1>5 DEF FourVectors
<1>7. OneVector => WorkLeft' < WorkLeft
  BY <1>3, <1>5 DEF OneVector
<1>8. ASSUME Element PROVE WorkLeft' < WorkLeft
  <2>1. Move(1, FALSE)
    BY <1>8, Zenon DEF Element
  <2>2. 1 \in Nat \ {0}
    OBVIOUS
  <2>3. QED
    BY <1>3, <2>1, <2>2
<1>9. QED
  BY <1>4, <1>6, <1>7, <1>8 DEF ScaleNext

(* Every run of scale is finite. *)
THEOREM ScaleEnds == ScaleSpec => [](WorkLeft \in Nat) /\ ScaleAdvances
<1>1. SInv /\ [ScaleNext]_svars => [WorkLeft' < WorkLeft]_svars
  BY WorkShrinks
<1>2. SInv => WorkLeft \in Nat
  BY WorkIsNumber
<1>3. QED
  BY <1>1, <1>2, ScaleInductive, PTL DEF ScaleSpec, ScaleAdvances

(*-------------------------- the tables of Base64 --------------------------*)
(* Bits that move. *)
LEMMA BitsUp ==
  ASSUME NEW w \in SUBSET Nat, NEW k \in Nat
  PROVE  /\ Up(w, k) \in SUBSET Nat
         /\ \A n \in Nat : n \in Up(w, k) <=> n >= k /\ n - k \in w
BY DEF Up

LEMMA BitsDown ==
  ASSUME NEW w \in SUBSET Nat, NEW k \in Nat
  PROVE  /\ Down(w, k) \in SUBSET Nat
         /\ \A n \in Nat : n \in Down(w, k) <=> n + k \in w
<1>0. \A m \in Nat : m \notin 0..(k - 1) <=> m >= k
  OBVIOUS
<1>1. w \ 0..(k - 1) = {m \in w : m >= k}
  BY <1>0, Zenon
<1>2. Down(w, k) = {m - k : m \in {m \in w : m >= k}}
  BY <1>1 DEF Down
<1>3. \A n \in Nat : n + k \in w => (n + k) - k \in Down(w, k)
  BY <1>2
<1>4. \A n \in Nat : (n + k) - k = n
  OBVIOUS
<1>5. QED
  BY <1>2, <1>3, <1>4

LEMMA BitsLow ==
  ASSUME NEW w \in SUBSET Nat, NEW k \in Nat
  PROVE  /\ Low(w, k) \in SUBSET Nat
         /\ \A n \in Nat : n \in Low(w, k) <=> n < k /\ n \in w
BY DEF Low

(* An index below 64 is one number, and one character. *)
LEMMA NumbersDiffer ==
  ASSUME NEW v \in Six, NEW u \in Six
  PROVE  Number(v) \in 0..63 /\ (Number(v) = Number(u) => v = u)
<1>1. Number(v) \in 0..63
  BY DEF Number, Bit
<1>2. ASSUME Number(v) = Number(u) PROVE \A n \in 0..5 : n \in v <=> n \in u
  <2>1. 5 \in v <=> 5 \in u
    BY <1>2 DEF Number, Bit
  <2>2. 4 \in v <=> 4 \in u
    BY <1>2, <2>1 DEF Number, Bit
  <2>3. 3 \in v <=> 3 \in u
    BY <1>2, <2>1, <2>2 DEF Number, Bit
  <2>4. 2 \in v <=> 2 \in u
    BY <1>2, <2>1, <2>2, <2>3 DEF Number, Bit
  <2>5. 1 \in v <=> 1 \in u
    BY <1>2, <2>1, <2>2, <2>3, <2>4 DEF Number, Bit
  <2>6. 0 \in v <=> 0 \in u
    BY <1>2, <2>1, <2>2, <2>3, <2>4, <2>5 DEF Number, Bit
  <2>7. QED
    BY <2>1, <2>2, <2>3, <2>4, <2>5, <2>6
<1>3. QED
  BY <1>1, <1>2 DEF Six

LEMMA CharsDiffer ==
  /\ \A n \in 0..63 : Char(n) \in 0..255
  /\ \A n, m \in 0..63 : Char(n) = Char(m) => n = m
BY DEF Char

LEMMA AlphabetDiffers ==
  /\ \A v \in Six : Alphabet[v] \in Letters /\ Alphabet[v] \in 0..255
  /\ \A v, u \in Six : Alphabet[v] = Alphabet[u] => v = u
<1>1. \A v \in Six : Alphabet[v] = Char(Number(v)) /\ Number(v) \in 0..63
  BY NumbersDiffer DEF Alphabet
<1>2. \A v \in Six : Alphabet[v] \in Letters /\ Alphabet[v] \in 0..255
  <2>1. ASSUME NEW v \in Six PROVE Alphabet[v] \in 0..255
    BY <1>1, CharsDiffer
  <2>2. QED
    BY <2>1 DEF Letters
<1>3. ASSUME NEW v \in Six, NEW u \in Six, Alphabet[v] = Alphabet[u] PROVE v = u
  <2>1. Number(v) = Number(u)
    BY <1>1, <1>3, CharsDiffer
  <2>2. QED
    BY <2>1, NumbersDiffer
<1>4. QED
  BY <1>2, <1>3

LEMMA Values ==
  /\ \A v \in Six : Value(Alphabet[v]) = v
  /\ \A c \in Letters : Value(c) \in Six /\ Alphabet[Value(c)] = c
  /\ Letters \subseteq 0..255
<1>1. ASSUME NEW c \in Letters PROVE Value(c) \in Six /\ Alphabet[Value(c)] = c
  <2>1. \E v \in Six : Alphabet[v] = c
    BY DEF Letters
  <2>2. QED
    BY <2>1 DEF Value
<1>2. Letters \subseteq 0..255
  BY AlphabetDiffers DEF Letters
<1>3. QED
  BY <1>1, <1>2, AlphabetDiffers

(* The three bytes of four indices, and back. *)
LEMMA SixIn == ASSUME NEW v \in Six PROVE v \in SUBSET Nat /\ \A n \in v : n < 6
BY DEF Six

LEMMA ByteIn == ASSUME NEW b \in Byte PROVE b \in SUBSET Nat /\ \A n \in b : n < 8
BY DEF Byte

First(v, u) == Up(v, 2) \union Down(u, 4)
Second(v, u) == Up(Low(v, 4), 4) \union Down(u, 2)
Third(v, u) == Up(Low(v, 2), 6) \union u

LEMMA FirstBits ==
  ASSUME NEW v \in Six, NEW u \in Six
  PROVE  /\ First(v, u) \in Byte
         /\ \A n \in Nat : n \in First(v, u) <=> \/ n >= 2 /\ n - 2 \in v
                                                 \/ n + 4 \in u
<1>1. v \in SUBSET Nat /\ u \in SUBSET Nat
  BY SixIn
<1>2. \A n \in Nat : n \in Up(v, 2) <=> n >= 2 /\ n - 2 \in v
  BY <1>1, BitsUp
<1>3. \A n \in Nat : n \in Down(u, 4) <=> n + 4 \in u
  BY <1>1, BitsDown
<1>4. Up(v, 2) \in SUBSET Nat /\ Down(u, 4) \in SUBSET Nat
  BY <1>1, BitsUp, BitsDown
<1>5. \A n \in Nat : n \in First(v, u) <=> (n >= 2 /\ n - 2 \in v) \/ n + 4 \in u
  BY <1>2, <1>3 DEF First
<1>6. ASSUME NEW n \in First(v, u) PROVE n \in 0..7
  <2>1. n \in Nat
    BY <1>4 DEF First
  <2>2. (n >= 2 /\ n - 2 < 6) \/ n + 4 < 6
    BY <1>5, <2>1, SixIn
  <2>3. QED
    BY <2>1, <2>2
<1>7. QED
  BY <1>5, <1>6 DEF Byte

LEMMA SecondBits ==
  ASSUME NEW v \in Six, NEW u \in Six
  PROVE  /\ Second(v, u) \in Byte
         /\ \A n \in Nat : n \in Second(v, u) <=> \/ n >= 4 /\ n < 8 /\ n - 4 \in v
                                                  \/ n + 2 \in u
<1>1. v \in SUBSET Nat /\ u \in SUBSET Nat
  BY SixIn
<1>2. Low(v, 4) \in SUBSET Nat /\ \A n \in Nat : n \in Low(v, 4) <=> n < 4 /\ n \in v
  BY <1>1, BitsLow
<1>3. /\ Up(Low(v, 4), 4) \in SUBSET Nat
      /\ \A n \in Nat : n \in Up(Low(v, 4), 4) <=> n >= 4 /\ n - 4 \in Low(v, 4)
  BY <1>2, BitsUp
<1>4. Down(u, 2) \in SUBSET Nat /\ \A n \in Nat : n \in Down(u, 2) <=> n + 2 \in u
  BY <1>1, BitsDown
<1>5. ASSUME NEW n \in Nat
      PROVE  n \in Second(v, u) <=> (n >= 4 /\ n < 8 /\ n - 4 \in v) \/ n + 2 \in u
  <2>1. n >= 4 => n - 4 \in Nat /\ (n - 4 < 4 <=> n < 8)
    OBVIOUS
  <2>2. n \in Second(v, u) <=> (n >= 4 /\ n - 4 \in Low(v, 4)) \/ n + 2 \in u
    BY <1>3, <1>4 DEF Second
  <2>3. QED
    BY <1>2, <2>1, <2>2
<1>6. ASSUME NEW n \in Second(v, u) PROVE n \in 0..7
  <2>1. n \in Nat
    BY <1>3, <1>4 DEF Second
  <2>2. n < 8 \/ n + 2 < 6
    BY <1>5, <2>1, SixIn
  <2>3. QED
    BY <2>1, <2>2
<1>7. QED
  BY <1>5, <1>6 DEF Byte

LEMMA ThirdBits ==
  ASSUME NEW v \in Six, NEW u \in Six
  PROVE  /\ Third(v, u) \in Byte
         /\ \A n \in Nat : n \in Third(v, u) <=> \/ n >= 6 /\ n < 8 /\ n - 6 \in v
                                                 \/ n \in u
<1>1. v \in SUBSET Nat /\ u \in SUBSET Nat
  BY SixIn
<1>2. Low(v, 2) \in SUBSET Nat /\ \A n \in Nat : n \in Low(v, 2) <=> n < 2 /\ n \in v
  BY <1>1, BitsLow
<1>3. /\ Up(Low(v, 2), 6) \in SUBSET Nat
      /\ \A n \in Nat : n \in Up(Low(v, 2), 6) <=> n >= 6 /\ n - 6 \in Low(v, 2)
  BY <1>2, BitsUp
<1>5. ASSUME NEW n \in Nat
      PROVE  n \in Third(v, u) <=> (n >= 6 /\ n < 8 /\ n - 6 \in v) \/ n \in u
  <2>1. n >= 6 => n - 6 \in Nat /\ (n - 6 < 2 <=> n < 8)
    OBVIOUS
  <2>2. n \in Third(v, u) <=> (n >= 6 /\ n - 6 \in Low(v, 2)) \/ n \in u
    BY <1>3 DEF Third
  <2>3. QED
    BY <1>2, <2>1, <2>2
<1>6. ASSUME NEW n \in Third(v, u) PROVE n \in 0..7
  <2>1. n \in Nat
    BY <1>1, <1>3 DEF Third
  <2>2. n < 8 \/ n < 6
    BY <1>5, <2>1, SixIn
  <2>3. QED
    BY <2>1, <2>2
<1>7. QED
  BY <1>5, <1>6 DEF Byte

LEMMA SplitFirst ==
  ASSUME NEW b \in Byte
  PROVE  /\ Down(b, 2) \in Six
         /\ \A n \in Nat : n \in Down(b, 2) <=> n + 2 \in b
<1>1. b \in SUBSET Nat
  BY ByteIn
<1>2. Down(b, 2) \in SUBSET Nat /\ \A n \in Nat : n \in Down(b, 2) <=> n + 2 \in b
  BY <1>1, BitsDown
<1>3. ASSUME NEW n \in Down(b, 2) PROVE n \in 0..5
  <2>1. n \in Nat /\ n + 2 < 8
    BY <1>2, ByteIn
  <2>2. QED
    BY <2>1
<1>4. QED
  BY <1>2, <1>3 DEF Six

(* The middle characters: the low bits of one byte above the high ones of the
   next. *)
LEMMA SplitSecond ==
  ASSUME NEW b \in Byte, NEW a \in Byte
  PROVE  LET v == Up(Low(b, 2), 4) \union Down(a, 4)
         IN  /\ v \in Six
             /\ \A n \in Nat : n \in v <=> \/ n >= 4 /\ n < 6 /\ n - 4 \in b
                                           \/ n + 4 \in a
<1> DEFINE v == Up(Low(b, 2), 4) \union Down(a, 4)
<1>1. b \in SUBSET Nat /\ a \in SUBSET Nat
  BY ByteIn
<1>2. Low(b, 2) \in SUBSET Nat /\ \A n \in Nat : n \in Low(b, 2) <=> n < 2 /\ n \in b
  BY <1>1, BitsLow
<1>3. /\ Up(Low(b, 2), 4) \in SUBSET Nat
      /\ \A n \in Nat : n \in Up(Low(b, 2), 4) <=> n >= 4 /\ n - 4 \in Low(b, 2)
  BY <1>2, BitsUp
<1>4. Down(a, 4) \in SUBSET Nat /\ \A n \in Nat : n \in Down(a, 4) <=> n + 4 \in a
  BY <1>1, BitsDown
<1>5. ASSUME NEW n \in Nat
      PROVE  n \in v <=> (n >= 4 /\ n < 6 /\ n - 4 \in b) \/ n + 4 \in a
  <2>1. n >= 4 => n - 4 \in Nat /\ (n - 4 < 2 <=> n < 6)
    OBVIOUS
  <2>2. n \in v <=> (n >= 4 /\ n - 4 \in Low(b, 2)) \/ n + 4 \in a
    BY <1>3, <1>4
  <2>3. QED
    BY <1>2, <2>1, <2>2
<1>6. ASSUME NEW n \in v PROVE n \in 0..5
  <2>1. n \in Nat
    BY <1>3, <1>4
  <2>2. n < 6 \/ n + 4 < 8
    BY <1>5, <2>1, ByteIn
  <2>3. QED
    BY <2>1, <2>2
<1>7. QED
  BY <1>5, <1>6 DEF Six

LEMMA SplitThird ==
  ASSUME NEW b \in Byte, NEW a \in Byte
  PROVE  LET v == Up(Low(b, 4), 2) \union Down(a, 6)
         IN  /\ v \in Six
             /\ \A n \in Nat : n \in v <=> \/ n >= 2 /\ n < 6 /\ n - 2 \in b
                                           \/ n + 6 \in a
<1> DEFINE v == Up(Low(b, 4), 2) \union Down(a, 6)
<1>1. b \in SUBSET Nat /\ a \in SUBSET Nat
  BY ByteIn
<1>2. Low(b, 4) \in SUBSET Nat /\ \A n \in Nat : n \in Low(b, 4) <=> n < 4 /\ n \in b
  BY <1>1, BitsLow
<1>3. /\ Up(Low(b, 4), 2) \in SUBSET Nat
      /\ \A n \in Nat : n \in Up(Low(b, 4), 2) <=> n >= 2 /\ n - 2 \in Low(b, 4)
  BY <1>2, BitsUp
<1>4. Down(a, 6) \in SUBSET Nat /\ \A n \in Nat : n \in Down(a, 6) <=> n + 6 \in a
  BY <1>1, BitsDown
<1>5. ASSUME NEW n \in Nat
      PROVE  n \in v <=> (n >= 2 /\ n < 6 /\ n - 2 \in b) \/ n + 6 \in a
  <2>1. n >= 2 => n - 2 \in Nat /\ (n - 2 < 4 <=> n < 6)
    OBVIOUS
  <2>2. n \in v <=> (n >= 2 /\ n - 2 \in Low(b, 4)) \/ n + 6 \in a
    BY <1>3, <1>4
  <2>3. QED
    BY <1>2, <2>1, <2>2
<1>6. ASSUME NEW n \in v PROVE n \in 0..5
  <2>1. n \in Nat
    BY <1>3, <1>4
  <2>2. n < 6 \/ n + 6 < 8
    BY <1>5, <2>1, ByteIn
  <2>3. QED
    BY <2>1, <2>2
<1>7. QED
  BY <1>5, <1>6 DEF Six

LEMMA SplitLast ==
  ASSUME NEW b \in Byte
  PROVE  Low(b, 6) \in Six /\ \A n \in Nat : n \in Low(b, 6) <=> n < 6 /\ n \in b
<1>1. b \in SUBSET Nat
  BY ByteIn
<1>2. Low(b, 6) \in SUBSET Nat /\ \A n \in Nat : n \in Low(b, 6) <=> n < 6 /\ n \in b
  BY <1>1, BitsLow
<1>3. QED
  BY <1>2 DEF Six

(* What is split is joined again, and what is joined is split. *)
LEMMA JoinsAfterSplit ==
  ASSUME NEW a \in Byte, NEW b \in Byte, NEW c \in Byte
  PROVE  LET s2 == Up(Low(a, 2), 4) \union Down(b, 4)
             s3 == Up(Low(b, 4), 2) \union Down(c, 6)
         IN  /\ First(Down(a, 2), s2) = a
             /\ Second(s2, s3) = b
             /\ Third(s3, Low(c, 6)) = c
<1> DEFINE s1 == Down(a, 2)
           s2 == Up(Low(a, 2), 4) \union Down(b, 4)
           s3 == Up(Low(b, 4), 2) \union Down(c, 6)
           s4 == Low(c, 6)
<1>0. a \in SUBSET Nat /\ b \in SUBSET Nat /\ c \in SUBSET Nat
  BY ByteIn
<1>1. s1 \in Six /\ \A n \in Nat : n \in s1 <=> n + 2 \in a
  BY SplitFirst
<1>2. s2 \in Six /\ \A n \in Nat : n \in s2 <=> (n >= 4 /\ n < 6 /\ n - 4 \in a) \/ n + 4 \in b
  BY SplitSecond
<1>3. s3 \in Six /\ \A n \in Nat : n \in s3 <=> (n >= 2 /\ n < 6 /\ n - 2 \in b) \/ n + 6 \in c
  BY SplitThird
<1>4. s4 \in Six /\ \A n \in Nat : n \in s4 <=> n < 6 /\ n \in c
  BY SplitLast
<1> HIDE DEF s1, s2, s3, s4
<1>5. First(s1, s2) = a
  <2>1. First(s1, s2) \in SUBSET Nat
    BY <1>1, <1>2, FirstBits, ByteIn
  <2>2. ASSUME NEW n \in Nat PROVE n \in First(s1, s2) <=> n \in a
    <3>1. n \in First(s1, s2) <=> (n >= 2 /\ n - 2 \in s1) \/ n + 4 \in s2
      BY <1>1, <1>2, FirstBits
    <3>2. n >= 2 => (n - 2 \in s1 <=> n \in a)
      BY <1>1
    <3>3. n + 4 \in s2 <=> (n < 2 /\ n \in a) \/ n + 8 \in b
      <4>1. n + 4 \in Nat /\ (n + 4 < 6 <=> n < 2) /\ (n + 4) - 4 = n /\ (n + 4) + 4 = n + 8
        OBVIOUS
      <4>2. QED
        BY <1>2, <4>1
    <3>4. n + 8 \notin b
      BY ByteIn
    <3>5. QED
      BY <3>1, <3>2, <3>3, <3>4
  <2>3. QED
    BY <1>0, <2>1, <2>2
<1>6. Second(s2, s3) = b
  <2>1. Second(s2, s3) \in SUBSET Nat
    BY <1>2, <1>3, SecondBits, ByteIn
  <2>2. ASSUME NEW n \in Nat PROVE n \in Second(s2, s3) <=> n \in b
    <3>1. n \in Second(s2, s3) <=> (n >= 4 /\ n < 8 /\ n - 4 \in s2) \/ n + 2 \in s3
      BY <1>2, <1>3, SecondBits
    <3>2. n >= 4 /\ n < 8 => (n - 4 \in s2 <=> n \in b)
      <4>1. n >= 4 /\ n < 8 => n - 4 \in Nat /\ ~(n - 4 >= 4) /\ (n - 4) + 4 = n
        OBVIOUS
      <4>2. QED
        BY <1>2, <4>1
    <3>3. n + 2 \in s3 <=> (n < 4 /\ n \in b) \/ n + 8 \in c
      <4>1. n + 2 \in Nat /\ (n + 2 < 6 <=> n < 4) /\ (n + 2) - 2 = n /\ (n + 2) + 6 = n + 8 /\ n + 2 >= 2
        OBVIOUS
      <4>2. QED
        BY <1>3, <4>1
    <3>4. n + 8 \notin c /\ (n \in b => n < 8)
      BY ByteIn
    <3>5. QED
      BY <3>1, <3>2, <3>3, <3>4
  <2>3. QED
    BY <1>0, <2>1, <2>2
<1>7. Third(s3, s4) = c
  <2>1. Third(s3, s4) \in SUBSET Nat
    BY <1>3, <1>4, ThirdBits, ByteIn
  <2>2. ASSUME NEW n \in Nat PROVE n \in Third(s3, s4) <=> n \in c
    <3>1. n \in Third(s3, s4) <=> (n >= 6 /\ n < 8 /\ n - 6 \in s3) \/ n \in s4
      BY <1>3, <1>4, ThirdBits
    <3>2. n >= 6 /\ n < 8 => (n - 6 \in s3 <=> n \in c)
      <4>1. n >= 6 /\ n < 8 => n - 6 \in Nat /\ ~(n - 6 >= 2) /\ (n - 6) + 6 = n
        OBVIOUS
      <4>2. QED
        BY <1>3, <4>1
    <3>3. n \in s4 <=> n < 6 /\ n \in c
      BY <1>4
    <3>4. n \in c => n < 8
      BY ByteIn
    <3>5. QED
      BY <3>1, <3>2, <3>3, <3>4
  <2>3. QED
    BY <1>0, <2>1, <2>2
<1>8. QED
  BY <1>5, <1>6, <1>7 DEF s1, s2, s3, s4

LEMMA SplitsAfterJoin ==
  ASSUME NEW v1 \in Six, NEW v2 \in Six, NEW v3 \in Six, NEW v4 \in Six
  PROVE  LET a == First(v1, v2)
             b == Second(v2, v3)
             c == Third(v3, v4)
         IN  /\ Down(a, 2) = v1
             /\ Up(Low(a, 2), 4) \union Down(b, 4) = v2
             /\ Up(Low(b, 4), 2) \union Down(c, 6) = v3
             /\ Low(c, 6) = v4
<1> DEFINE a == First(v1, v2)
           b == Second(v2, v3)
           c == Third(v3, v4)
<1>0. /\ v1 \in SUBSET Nat /\ v2 \in SUBSET Nat /\ v3 \in SUBSET Nat /\ v4 \in SUBSET Nat
      /\ \A n \in Nat : n >= 6 => n \notin v1 /\ n \notin v2 /\ n \notin v3 /\ n \notin v4
  <2>1. \A v \in Six : v \in SUBSET Nat /\ \A n \in Nat : n >= 6 => n \notin v
    BY SixIn
  <2>2. QED
    BY <2>1
<1>1. a \in Byte /\ \A n \in Nat : n \in a <=> (n >= 2 /\ n - 2 \in v1) \/ n + 4 \in v2
  BY FirstBits
<1>2. b \in Byte /\ \A n \in Nat : n \in b <=> (n >= 4 /\ n < 8 /\ n - 4 \in v2) \/ n + 2 \in v3
  BY SecondBits
<1>3. c \in Byte /\ \A n \in Nat : n \in c <=> (n >= 6 /\ n < 8 /\ n - 6 \in v3) \/ n \in v4
  BY ThirdBits
<1> HIDE DEF a, b, c
<1>4. Down(a, 2) = v1
  <2>1. Down(a, 2) \in SUBSET Nat
    BY <1>1, SplitFirst, SixIn
  <2>2. ASSUME NEW n \in Nat PROVE n \in Down(a, 2) <=> n \in v1
    <3>1. n \in Down(a, 2) <=> n + 2 \in a
      BY <1>1, SplitFirst
    <3>2. n + 2 \in Nat /\ n + 2 >= 2 /\ (n + 2) - 2 = n /\ (n + 2) + 4 = n + 6 /\ n + 6 \in Nat /\ n + 6 >= 6
      OBVIOUS
    <3>3. n + 2 \in a <=> n \in v1 \/ n + 6 \in v2
      BY <1>1, <3>2
    <3>4. QED
      BY <1>0, <3>1, <3>2, <3>3
  <2>3. QED
    BY <1>0, <2>1, <2>2
<1>5. Up(Low(a, 2), 4) \union Down(b, 4) = v2
  <2> DEFINE s == Up(Low(a, 2), 4) \union Down(b, 4)
  <2>0. s \in Six /\ \A n \in Nat : n \in s <=> (n >= 4 /\ n < 6 /\ n - 4 \in a) \/ n + 4 \in b
    BY <1>1, <1>2, SplitSecond
  <2> HIDE DEF s
  <2>2. ASSUME NEW n \in Nat PROVE n \in s <=> n \in v2
    <3>1. n \in s <=> (n >= 4 /\ n < 6 /\ n - 4 \in a) \/ n + 4 \in b
      BY <2>0
    <3>2. n >= 4 /\ n < 6 => (n - 4 \in a <=> n \in v2)
      <4>1. n >= 4 /\ n < 6 => n - 4 \in Nat /\ ~(n - 4 >= 2) /\ (n - 4) + 4 = n
        OBVIOUS
      <4>2. QED
        BY <1>1, <4>1
    <3>3. n + 4 \in b <=> (n < 4 /\ n \in v2) \/ n + 6 \in v3
      <4>1. n + 4 \in Nat /\ n + 4 >= 4 /\ (n + 4 < 8 <=> n < 4) /\ (n + 4) - 4 = n /\ (n + 4) + 2 = n + 6
        OBVIOUS
      <4>2. QED
        BY <1>2, <4>1
    <3>4. n + 6 \notin v3 /\ (n \in v2 => n < 6)
      BY <1>0
    <3>5. QED
      BY <3>1, <3>2, <3>3, <3>4
  <2>3. s = v2
    BY <1>0, <2>0, <2>2, SixIn
  <2>4. QED
    BY <2>3 DEF s
<1>6. Up(Low(b, 4), 2) \union Down(c, 6) = v3
  <2> DEFINE s == Up(Low(b, 4), 2) \union Down(c, 6)
  <2>0. s \in Six /\ \A n \in Nat : n \in s <=> (n >= 2 /\ n < 6 /\ n - 2 \in b) \/ n + 6 \in c
    BY <1>2, <1>3, SplitThird
  <2> HIDE DEF s
  <2>2. ASSUME NEW n \in Nat PROVE n \in s <=> n \in v3
    <3>1. n \in s <=> (n >= 2 /\ n < 6 /\ n - 2 \in b) \/ n + 6 \in c
      BY <2>0
    <3>2. n >= 2 /\ n < 6 => (n - 2 \in b <=> n \in v3)
      <4>1. n >= 2 /\ n < 6 => n - 2 \in Nat /\ ~(n - 2 >= 4) /\ (n - 2) + 2 = n
        OBVIOUS
      <4>2. QED
        BY <1>2, <4>1
    <3>3. n + 6 \in c <=> (n < 2 /\ n \in v3) \/ n + 6 \in v4
      <4>1. n + 6 \in Nat /\ n + 6 >= 6 /\ (n + 6 < 8 <=> n < 2) /\ (n + 6) - 6 = n
        OBVIOUS
      <4>2. QED
        BY <1>3, <4>1
    <3>4. n + 6 \notin v4 /\ (n \in v3 => n < 6)
      BY <1>0
    <3>5. QED
      BY <3>1, <3>2, <3>3, <3>4
  <2>3. s = v3
    BY <1>0, <2>0, <2>2, SixIn
  <2>4. QED
    BY <2>3 DEF s
<1>7. Low(c, 6) = v4
  <2>1. Low(c, 6) \in SUBSET Nat
    BY <1>3, SplitLast, SixIn
  <2>2. ASSUME NEW n \in Nat PROVE n \in Low(c, 6) <=> n \in v4
    <3>1. n \in Low(c, 6) <=> n < 6 /\ n \in c
      BY <1>3, SplitLast
    <3>2. n < 6 => (n \in c <=> n \in v4)
      BY <1>3
    <3>3. n \in v4 => n < 6
      BY <1>0
    <3>4. QED
      BY <3>1, <3>2, <3>3
  <2>3. QED
    BY <1>0, <2>1, <2>2
<1>8. QED
  BY <1>4, <1>5, <1>6, <1>7 DEF a, b, c

(* A word is its three bytes, each shifted to its place. *)
LEMMA UpTwice ==
  ASSUME NEW w \in SUBSET Nat, NEW j \in Nat, NEW k \in Nat
  PROVE  Up(Up(w, j), k) = Up(w, j + k)
<1>1. \A n \in w : n + (j + k) = (n + j) + k
  OBVIOUS
<1>2. QED
  BY <1>1 DEF Up

LEMMA UpUnion ==
  ASSUME NEW w, NEW u, NEW k
  PROVE  Up(w \union u, k) = Up(w, k) \union Up(u, k)
BY DEF Up

LEMMA UpCut ==
  ASSUME NEW w \in SUBSET Nat, NEW j \in Nat, NEW k \in Nat
  PROVE  Up(w, j) = Up(Low(w, k), j) \union Up(Down(w, k), j + k)
<1>1. /\ Low(w, k) \in SUBSET Nat
      /\ \A n \in Nat : n \in Low(w, k) <=> n < k /\ n \in w
  BY BitsLow
<1>2. /\ Down(w, k) \in SUBSET Nat
      /\ \A n \in Nat : n \in Down(w, k) <=> n + k \in w
  BY BitsDown
<1>3. /\ Up(w, j) \in SUBSET Nat
      /\ Up(Low(w, k), j) \in SUBSET Nat
      /\ Up(Down(w, k), j + k) \in SUBSET Nat
      /\ \A n \in Nat : n \in Up(w, j) <=> n >= j /\ n - j \in w
      /\ \A n \in Nat : n \in Up(Low(w, k), j) <=> n >= j /\ n - j \in Low(w, k)
      /\ \A n \in Nat : n \in Up(Down(w, k), j + k) <=> n >= j + k /\ n - (j + k) \in Down(w, k)
  <2>1. j + k \in Nat
    OBVIOUS
  <2>2. QED
    BY <1>1, <1>2, <2>1, BitsUp
<1>4. ASSUME NEW n \in Nat
      PROVE  n \in Up(w, j) <=> n \in Up(Low(w, k), j) \union Up(Down(w, k), j + k)
  <2>1. n >= j => n - j \in Nat /\ (n - j < k <=> ~(n >= j + k))
    OBVIOUS
  <2>2. n >= j + k => n - (j + k) \in Nat /\ (n - (j + k)) + k = n - j /\ n >= j
    OBVIOUS
  <2>3. n \in Up(Low(w, k), j) <=> n >= j /\ ~(n >= j + k) /\ n - j \in w
    BY <1>1, <1>3, <2>1
  <2>4. n \in Up(Down(w, k), j + k) <=> n >= j + k /\ n - j \in w
    BY <1>2, <1>3, <2>2
  <2>5. QED
    BY <1>3, <2>2, <2>3, <2>4
<1>5. QED
  BY <1>3, <1>4

Joined(x, y, z) == x \union Up(y, 8) \union Up(z, 16)

LEMMA BytesOfWord ==
  ASSUME NEW x \in Byte, NEW y \in Byte, NEW z \in Byte
  PROVE  /\ \A n \in Joined(x, y, z) : n \in Nat /\ n < 24
         /\ ByteOf(Joined(x, y, z), 0) = x
         /\ ByteOf(Joined(x, y, z), 1) = y
         /\ ByteOf(Joined(x, y, z), 2) = z
<1> DEFINE w == Joined(x, y, z)
<1>0. /\ x \in SUBSET Nat /\ y \in SUBSET Nat /\ z \in SUBSET Nat
      /\ \A n \in Nat : n >= 8 => n \notin x /\ n \notin y /\ n \notin z
  <2>1. ASSUME NEW b \in Byte PROVE b \in SUBSET Nat /\ \A n \in Nat : n >= 8 => n \notin b
    BY ByteIn
  <2>2. QED
    BY <2>1
<1>1. /\ Up(y, 8) \in SUBSET Nat /\ Up(z, 16) \in SUBSET Nat
      /\ \A n \in Nat : n \in Up(y, 8) <=> n >= 8 /\ n - 8 \in y
      /\ \A n \in Nat : n \in Up(z, 16) <=> n >= 16 /\ n - 16 \in z
  <2>1. Up(y, 8) \in SUBSET Nat /\ \A n \in Nat : n \in Up(y, 8) <=> n >= 8 /\ n - 8 \in y
    BY <1>0, BitsUp
  <2>2. Up(z, 16) \in SUBSET Nat /\ \A n \in Nat : n \in Up(z, 16) <=> n >= 16 /\ n - 16 \in z
    BY <1>0, BitsUp
  <2>3. QED
    BY <2>1, <2>2
<1>2. w \in SUBSET Nat
  BY <1>0, <1>1 DEF Joined
<1>3. \A n \in Nat : n \in w <=> n \in x \/ (n >= 8 /\ n - 8 \in y) \/ (n >= 16 /\ n - 16 \in z)
  BY <1>1 DEF Joined
<1> HIDE DEF w
<1>4. ASSUME NEW n \in w PROVE n \in Nat /\ n < 24
  <2>1. n \in Nat /\ (n \in x \/ (n >= 8 /\ n - 8 \in y) \/ (n >= 16 /\ n - 16 \in z))
    BY <1>2, <1>3, <1>4
  <2>2. n >= 24 => n - 8 \in Nat /\ n - 8 >= 8 /\ n - 16 \in Nat /\ n - 16 >= 8 /\ n >= 8
    BY <2>1
  <2>3. QED
    BY <1>0, <2>1, <2>2
<1>5. ASSUME NEW j \in Nat
      PROVE  /\ Low(Down(w, j), 8) \in SUBSET Nat
             /\ \A n \in Nat : n \in Low(Down(w, j), 8) <=> n < 8 /\ n + j \in w
  <2>1. Down(w, j) \in SUBSET Nat /\ \A n \in Nat : n \in Down(w, j) <=> n + j \in w
    BY <1>2, BitsDown
  <2>2. QED
    BY <2>1, BitsLow
<1>6. ByteOf(w, 0) = x
  <2>1. ByteOf(w, 0) = Low(Down(w, 0), 8)
    BY DEF ByteOf
  <2>2. ASSUME NEW n \in Nat PROVE n \in Low(Down(w, 0), 8) <=> n \in x
    <3>1. n \in Low(Down(w, 0), 8) <=> n < 8 /\ n \in w
      BY <1>5
    <3>2. n < 8 => (n \in w <=> n \in x)
      BY <1>3
    <3>3. QED
      BY <1>0, <3>1, <3>2
  <2>3. Low(Down(w, 0), 8) \in SUBSET Nat
    BY <1>5
  <2>4. QED
    BY <1>0, <2>1, <2>2, <2>3
<1>7. ByteOf(w, 1) = y
  <2>1. ByteOf(w, 1) = Low(Down(w, 8), 8)
    BY DEF ByteOf
  <2>2. ASSUME NEW n \in Nat PROVE n \in Low(Down(w, 8), 8) <=> n \in y
    <3>1. n \in Low(Down(w, 8), 8) <=> n < 8 /\ n + 8 \in w
      BY <1>5
    <3>2. n + 8 \in Nat /\ n + 8 >= 8 /\ (n + 8) - 8 = n /\ (n < 8 => ~(n + 8 >= 16))
      OBVIOUS
    <3>3. n < 8 => (n + 8 \in w <=> n \in y)
      BY <1>0, <1>3, <3>2
    <3>4. QED
      BY <1>0, <3>1, <3>3
  <2>3. Low(Down(w, 8), 8) \in SUBSET Nat
    BY <1>5
  <2>4. QED
    BY <1>0, <2>1, <2>2, <2>3
<1>8. ByteOf(w, 2) = z
  <2>1. ByteOf(w, 2) = Low(Down(w, 16), 8)
    BY DEF ByteOf
  <2>2. ASSUME NEW n \in Nat PROVE n \in Low(Down(w, 16), 8) <=> n \in z
    <3>1. n \in Low(Down(w, 16), 8) <=> n < 8 /\ n + 16 \in w
      BY <1>5
    <3>2. /\ n + 16 \in Nat /\ n + 16 >= 8 /\ n + 16 >= 16 /\ (n + 16) - 16 = n
          /\ (n + 16) - 8 = n + 8 /\ n + 8 \in Nat /\ n + 8 >= 8
      OBVIOUS
    <3>3. n + 16 \in w <=> n \in z
      BY <1>0, <1>3, <3>2
    <3>4. QED
      BY <1>0, <3>1, <3>3
  <2>3. Low(Down(w, 16), 8) \in SUBSET Nat
    BY <1>5
  <2>4. QED
    BY <1>0, <2>1, <2>2, <2>3
<1>9. QED
  BY <1>4, <1>6, <1>7, <1>8 DEF w

(* The four entries of a code of letters, joined. *)
LEMMA LittleWord ==
  ASSUME NEW v1 \in Six, NEW v2 \in Six, NEW v3 \in Six, NEW v4 \in Six
  PROVE  Up(v1, 2) \union (Down(v2, 4) \union Up(Low(v2, 4), 12))
           \union (Up(Down(v3, 2), 8) \union Up(Low(v3, 2), 22)) \union Up(v4, 16)
         = Joined(First(v1, v2), Second(v2, v3), Third(v3, v4))
<1>1. v2 \in SUBSET Nat /\ v3 \in SUBSET Nat
  BY SixIn
<1>2. Low(v2, 4) \in SUBSET Nat /\ Low(v3, 2) \in SUBSET Nat
  BY <1>1 DEF Low
<1>3. Up(Up(Low(v2, 4), 4), 8) = Up(Low(v2, 4), 12)
  BY <1>2, UpTwice
<1>4. Up(Up(Low(v3, 2), 6), 16) = Up(Low(v3, 2), 22)
  BY <1>2, UpTwice
<1>5. Up(Second(v2, v3), 8) = Up(Low(v2, 4), 12) \union Up(Down(v3, 2), 8)
  BY <1>3, UpUnion DEF Second
<1>6. Up(Third(v3, v4), 16) = Up(Low(v3, 2), 22) \union Up(v4, 16)
  BY <1>4, UpUnion DEF Third
<1>7. QED
  BY <1>5, <1>6 DEF First, Joined

LEMMA BigWord ==
  ASSUME NEW v1 \in Six, NEW v2 \in Six, NEW v3 \in Six, NEW v4 \in Six
  PROVE  Up(v1, 18) \union Up(v2, 12) \union Up(v3, 6) \union v4
         = Joined(Third(v3, v4), Second(v2, v3), First(v1, v2))
<1>1. v1 \in SUBSET Nat /\ v2 \in SUBSET Nat /\ v3 \in SUBSET Nat
  BY SixIn
<1>2. \A w \in SUBSET Nat : \A k \in Nat : Low(w, k) \in SUBSET Nat /\ Down(w, k) \in SUBSET Nat
  BY BitsDown, BitsLow
<1>3. Up(Up(v1, 2), 16) = Up(v1, 18)
  BY <1>1, UpTwice
<1>4. Up(Up(Low(v2, 4), 4), 8) = Up(Low(v2, 4), 12)
  <2>1. Low(v2, 4) \in SUBSET Nat
    BY <1>1, <1>2
  <2>2. QED
    BY <2>1, UpTwice
<1>5. Up(v2, 12) = Up(Low(v2, 4), 12) \union Up(Down(v2, 4), 16)
  BY <1>1, UpCut
<1>6. Up(v3, 6) = Up(Low(v3, 2), 6) \union Up(Down(v3, 2), 8)
  BY <1>1, UpCut
<1>7. Up(First(v1, v2), 16) = Up(v1, 18) \union Up(Down(v2, 4), 16)
  BY <1>3, UpUnion DEF First
<1>8. Up(Second(v2, v3), 8) = Up(Low(v2, 4), 12) \union Up(Down(v3, 2), 8)
  BY <1>4, UpUnion DEF Second
<1>9. QED
  BY <1>5, <1>6, <1>7, <1>8 DEF Third, Joined

Codes == [1..4 -> 0..255]

(* A code of letters is decoded, in both byte orders to the same bytes; any
   other character makes it a bad one. *)
LEMMA LettersDecode ==
  ASSUME words \in {"big", "little"},
         NEW c, c[1] \in Letters, c[2] \in Letters, c[3] \in Letters, c[4] \in Letters
  PROVE  /\ ~IsBad(Word(c))
         /\ Stored(Word(c)) = << First(Value(c[1]), Value(c[2])), Second(Value(c[2]), Value(c[3])),
                                 Third(Value(c[3]), Value(c[4])) >>
<1> DEFINE v1 == Value(c[1])
           v2 == Value(c[2])
           v3 == Value(c[3])
           v4 == Value(c[4])
<1>1. v1 \in Six /\ v2 \in Six /\ v3 \in Six /\ v4 \in Six
  BY Values
<1>2. c[1] \in 0..255 /\ c[2] \in 0..255 /\ c[3] \in 0..255 /\ c[4] \in 0..255
  BY Values
<1>3. \A x \in Letters : \A entry : x \in 0..255 => Table(entry)[x] = entry[Value(x)]
  BY DEF Table
<1>4. /\ First(v1, v2) \in Byte /\ Second(v2, v3) \in Byte /\ Third(v3, v4) \in Byte
  BY <1>1, FirstBits, SecondBits, ThirdBits
<1>5. ASSUME NEW w, \A n \in w : n \in Nat /\ n < 24 PROVE ~IsBad(w)
  <2>1. 24 \notin w /\ 24 \in BadChar
    BY <1>5 DEF BadChar
  <2>2. \A n \in w : ~(n > 24)
    BY <1>5
  <2>3. QED
    BY <2>1, <2>2 DEF IsBad
<1>6. CASE words = "little"
  <2>1. /\ d0[c[1]] = Up(v1, 2)
        /\ d1[c[2]] = Down(v2, 4) \union Up(Low(v2, 4), 12)
        /\ d2[c[3]] = Up(Down(v3, 2), 8) \union Up(Low(v3, 2), 22)
        /\ d3[c[4]] = Up(v4, 16)
    BY <1>1, <1>2, <1>3 DEF d0, d1, d2, d3
  <2>2. Word(c) = Joined(First(v1, v2), Second(v2, v3), Third(v3, v4))
    BY <1>1, <1>6, <2>1, LittleWord DEF Word
  <2>3. QED
    BY <1>4, <1>5, <1>6, <2>2, BytesOfWord DEF Stored
<1>7. CASE words = "big"
  <2>1. /\ bigd0[c[1]] = Up(v1, 18)
        /\ bigd1[c[2]] = Up(v2, 12)
        /\ bigd2[c[3]] = Up(v3, 6)
        /\ bigd3[c[4]] = v4
    BY <1>1, <1>2, <1>3 DEF bigd0, bigd1, bigd2, bigd3
  <2>2. Word(c) = Joined(Third(v3, v4), Second(v2, v3), First(v1, v2))
    BY <1>1, <1>7, <2>1, BigWord DEF Word
  <2>3. QED
    BY <1>4, <1>5, <1>7, <2>2, BytesOfWord DEF Stored
<1>8. QED
  BY <1>6, <1>7

LEMMA OthersDoNot ==
  ASSUME words \in {"big", "little"}, NEW c \in Codes, NEW k \in 1..4, c[k] \notin Letters
  PROVE  IsBad(Word(c))
<1>1. c[1] \in 0..255 /\ c[2] \in 0..255 /\ c[3] \in 0..255 /\ c[4] \in 0..255
  BY DEF Codes
<1>2. \A x \in 0..255 : \A entry : x \notin Letters => Table(entry)[x] = BadChar
  BY DEF Table
<1>3. k = 1 \/ k = 2 \/ k = 3 \/ k = 4
  OBVIOUS
<1>4. BadChar \subseteq Word(c)
  <2>1. CASE words = "little"
    <3>1. k = 1 => d0[c[1]] = BadChar
      BY <1>1, <1>2 DEF d0
    <3>2. k = 2 => d1[c[2]] = BadChar
      BY <1>1, <1>2 DEF d1
    <3>3. k = 3 => d2[c[3]] = BadChar
      BY <1>1, <1>2 DEF d2
    <3>4. k = 4 => d3[c[4]] = BadChar
      BY <1>1, <1>2 DEF d3
    <3>5. Word(c) = d0[c[1]] \union d1[c[2]] \union d2[c[3]] \union d3[c[4]]
      BY <2>1 DEF Word
    <3>6. QED
      BY <1>3, <3>1, <3>2, <3>3, <3>4, <3>5
  <2>2. CASE words = "big"
    <3>1. k = 1 => bigd0[c[1]] = BadChar
      BY <1>1, <1>2 DEF bigd0
    <3>2. k = 2 => bigd1[c[2]] = BadChar
      BY <1>1, <1>2 DEF bigd1
    <3>3. k = 3 => bigd2[c[3]] = BadChar
      BY <1>1, <1>2 DEF bigd2
    <3>4. k = 4 => bigd3[c[4]] = BadChar
      BY <1>1, <1>2 DEF bigd3
    <3>5. Word(c) = bigd0[c[1]] \union bigd1[c[2]] \union bigd2[c[3]] \union bigd3[c[4]]
      BY <2>2 DEF Word
    <3>6. QED
      BY <1>3, <3>1, <3>2, <3>3, <3>4, <3>5
  <2>3. QED
    BY <2>1, <2>2
<1>5. QED
  BY <1>4 DEF IsBad

(* Every block, and every code of letters. *)
Blocks3 == Byte \X Byte \X Byte

LEMMA EncodedBlock ==
  ASSUME NEW b \in Blocks3
  PROVE  LET s2 == Up(Low(b[1], 2), 4) \union Down(b[2], 4)
             s3 == Up(Low(b[2], 4), 2) \union Down(b[3], 6)
         IN  /\ s2 \in Six /\ s3 \in Six /\ Down(b[1], 2) \in Six /\ Low(b[3], 6) \in Six
             /\ Encoded(b) = << Alphabet[Down(b[1], 2)], Alphabet[s2],
                                Alphabet[s3], Alphabet[Low(b[3], 6)] >>
<1> DEFINE s2 == Up(Low(b[1], 2), 4) \union Down(b[2], 4)
           s3 == Up(Low(b[2], 4), 2) \union Down(b[3], 6)
<1>1. b[1] \in Byte /\ b[2] \in Byte /\ b[3] \in Byte
  BY DEF Blocks3
<1>2. /\ s2 \in Six /\ s3 \in Six
      /\ Down(b[1], 2) \in Six /\ Low(b[3], 6) \in Six
  BY <1>1, SplitFirst, SplitSecond, SplitThird, SplitLast
<1>3. ASSUME NEW v \in Six PROVE v \in Byte /\ Low(v, 6) = v
  <2>1. \A n \in v : n \in 0..5
    BY DEF Six
  <2>2. \A n \in v : n \in 0..7
    BY <2>1
  <2>3. QED
    BY <2>1, <2>2 DEF Byte, Low
<1>4. e0[b[1]] = Alphabet[Down(b[1], 2)] /\ e2[b[3]] = Alphabet[Low(b[3], 6)]
  BY <1>1 DEF e0, e2
<1>5. \A v \in Six : e1[v] = Alphabet[v]
  BY <1>3 DEF e1
<1>6. QED
  BY <1>2, <1>4, <1>5 DEF Encoded

(* Every block is encoded in letters and comes back, in both byte orders. *)
THEOREM EncodedDecodes ==
  ASSUME words \in {"big", "little"}, NEW b \in Byte \X Byte \X Byte
  PROVE  /\ \A k \in 1..4 : Encoded(b)[k] \in Letters
         /\ Encoded(b) \in Codes
         /\ Decoded(Encoded(b)) = b
<1> DEFINE s1 == Down(b[1], 2)
           s2 == Up(Low(b[1], 2), 4) \union Down(b[2], 4)
           s3 == Up(Low(b[2], 4), 2) \union Down(b[3], 6)
           s4 == Low(b[3], 6)
           c == Encoded(b)
<1>1. /\ s1 \in Six /\ s2 \in Six /\ s3 \in Six /\ s4 \in Six
      /\ c = << Alphabet[s1], Alphabet[s2], Alphabet[s3], Alphabet[s4] >>
  BY EncodedBlock DEF Blocks3
<1>2. b[1] \in Byte /\ b[2] \in Byte /\ b[3] \in Byte
  OBVIOUS
<1>12. b = << b[1], b[2], b[3] >>
  OBVIOUS
<1>3. First(s1, s2) = b[1] /\ Second(s2, s3) = b[2] /\ Third(s3, s4) = b[3]
  <2>1. \A x, y \in Byte : First(Down(x, 2), Up(Low(x, 2), 4) \union Down(y, 4)) = x
    BY JoinsAfterSplit
  <2>2. \A x, y, z \in Byte :
           Second(Up(Low(x, 2), 4) \union Down(y, 4), Up(Low(y, 4), 2) \union Down(z, 6)) = y
    BY JoinsAfterSplit
  <2>3. \A y, z \in Byte : Third(Up(Low(y, 4), 2) \union Down(z, 6), Low(z, 6)) = z
    BY JoinsAfterSplit
  <2>4. First(s1, s2) = b[1]
    BY <1>2, <2>1, Zenon
  <2>5. Second(s2, s3) = b[2]
    BY <1>2, <2>2, Zenon
  <2>6. Third(s3, s4) = b[3]
    BY <1>2, <2>3, Zenon
  <2>7. QED
    BY <2>4, <2>5, <2>6
<1> HIDE DEF s1, s2, s3, s4, c
<1>4. /\ c[1] = Alphabet[s1] /\ c[2] = Alphabet[s2]
      /\ c[3] = Alphabet[s3] /\ c[4] = Alphabet[s4]
  BY <1>1
<1>5. c[1] \in Letters /\ c[2] \in Letters /\ c[3] \in Letters /\ c[4] \in Letters
  BY <1>1, <1>4, AlphabetDiffers
<1>6. Value(c[1]) = s1 /\ Value(c[2]) = s2 /\ Value(c[3]) = s3 /\ Value(c[4]) = s4
  BY <1>1, <1>4, Values
<1>7. ~IsBad(Word(c)) /\ Stored(Word(c)) = << b[1], b[2], b[3] >>
  BY <1>3, <1>5, <1>6, LettersDecode
<1>8. Decoded(c) = b
  BY <1>12, <1>7 DEF Decoded
<1>9. c \in Codes
  <2>1. c[1] \in 0..255 /\ c[2] \in 0..255 /\ c[3] \in 0..255 /\ c[4] \in 0..255
    BY <1>5, Values
  <2>2. QED
    BY <1>1, <1>4, <2>1 DEF Codes
<1>10. \A k \in 1..4 : c[k] \in Letters
  BY <1>5
<1>11. QED
  BY <1>8, <1>9, <1>10 DEF c

(* Every code of letters decodes to a block whose code it is; no other decodes. *)
THEOREM DecodedEncodes ==
  ASSUME words \in {"big", "little"}, NEW c \in Codes
  PROVE  IF \A k \in 1..4 : c[k] \in Letters
         THEN Decoded(c) \in Byte \X Byte \X Byte /\ Encoded(Decoded(c)) = c
         ELSE Decoded(c) = Bad
<1>1. CASE \A k \in 1..4 : c[k] \in Letters
  <2> DEFINE v1 == Value(c[1])
             v2 == Value(c[2])
             v3 == Value(c[3])
             v4 == Value(c[4])
             b == << First(v1, v2), Second(v2, v3), Third(v3, v4) >>
  <2>1. c[1] \in Letters /\ c[2] \in Letters /\ c[3] \in Letters /\ c[4] \in Letters
    BY <1>1
  <2>2. v1 \in Six /\ v2 \in Six /\ v3 \in Six /\ v4 \in Six
    BY <2>1, Values
  <2>3. Decoded(c) = b
    BY <2>1, LettersDecode DEF Decoded
  <2>4. First(v1, v2) \in Byte /\ Second(v2, v3) \in Byte /\ Third(v3, v4) \in Byte
    BY <2>2, FirstBits, SecondBits, ThirdBits
  <2>5. b \in Blocks3
    BY <2>4 DEF Blocks3
  <2>6. b[1] = First(v1, v2) /\ b[2] = Second(v2, v3) /\ b[3] = Third(v3, v4)
    OBVIOUS
  <2>7. /\ Down(b[1], 2) = v1
        /\ Up(Low(b[1], 2), 4) \union Down(b[2], 4) = v2
        /\ Up(Low(b[2], 4), 2) \union Down(b[3], 6) = v3
        /\ Low(b[3], 6) = v4
    BY <2>2, <2>6, SplitsAfterJoin
  <2> HIDE DEF b
  <2>8. Encoded(b) = << Alphabet[v1], Alphabet[v2], Alphabet[v3], Alphabet[v4] >>
    BY <2>5, <2>7, EncodedBlock
  <2>9. /\ Alphabet[v1] = c[1] /\ Alphabet[v2] = c[2]
        /\ Alphabet[v3] = c[3] /\ Alphabet[v4] = c[4]
    BY <2>1, Values
  <2>10. c = << c[1], c[2], c[3], c[4] >>
    BY DEF Codes
  <2>11. QED
    BY <1>1, <2>3, <2>5, <2>8, <2>9, <2>10 DEF Blocks3
<1>2. CASE ~(\A k \in 1..4 : c[k] \in Letters)
  BY <1>2, OthersDoNot DEF Decoded
<1>3. QED
  BY <1>1, <1>2

(* What was encoded, what it was damaged to, and what came out. *)
CodecInv ==
  /\ words \in {"big", "little"} /\ block \in Byte \X Byte \X Byte
  /\ damaged \in BOOLEAN
  /\ code = <<>> => ~damaged /\ decoded = <<>>
  /\ code # <<>> => code \in Codes /\ (damaged <=> code # Encoded(block))
  /\ decoded # <<>> => decoded = Decoded(code)

LEMMA CodecInit == Base64Init => CodecInv
BY Base64Assumption DEF Base64Init, CodecInv

LEMMA CodecStep == CodecInv /\ [Base64Next]_bvars => CodecInv'
<1> SUFFICES ASSUME CodecInv, [Base64Next]_bvars PROVE CodecInv'
  OBVIOUS
<1> USE DEF CodecInv
<1>1. CASE Encode
  <2>1. Encoded(block) \in Codes
    BY EncodedDecodes
  <2>2. Encoded(block)' = Encoded(block)
    BY <1>1 DEF Encode
  <2>3. QED
    BY <1>1, <2>1, <2>2 DEF Encode
<1>2. CASE Decode
  <2>1. Encoded(block)' = Encoded(block) /\ Decoded(code)' = Decoded(code)
    BY <1>2 DEF Decode, Encoded, Decoded, Word, Stored
  <2>2. QED
    BY <1>2, <2>1 DEF Decode
<1>3. ASSUME NEW k \in 1..4, NEW c \in Characters, Damage(k, c) PROVE CodecInv'
  <2>1. Encoded(block)' = Encoded(block) /\ code = Encoded(block) /\ code \in Codes
    BY <1>3 DEF Damage
  <2>2. code' \in Codes /\ code' # code
    BY <1>3, <2>1, Base64Assumption DEF Damage, Codes
  <2>3. code' # <<>>
    BY <2>2 DEF Codes
  <2>4. QED
    BY <1>3, <2>1, <2>2, <2>3 DEF Damage
<1>4. CASE UNCHANGED bvars
  <2>1. /\ words' = words /\ block' = block /\ code' = code
        /\ damaged' = damaged /\ decoded' = decoded
    BY <1>4 DEF bvars
  <2>2. Encoded(block)' = Encoded(block) /\ Decoded(code)' = Decoded(code)
    BY <2>1 DEF Encoded, Decoded, Word, Stored
  <2>3. QED
    BY <2>1, <2>2
<1>5. QED
  BY <1>1, <1>2, <1>3, <1>4 DEF Base64Next

LEMMA CodecCorrect == CodecInv => Base64Correct
<1> SUFFICES ASSUME CodecInv, decoded # <<>> PROVE Base64Correct
  BY DEF Base64Correct, RoundTrip, BadCharDetected, DamageShows
<1>1. /\ words \in {"big", "little"} /\ block \in Byte \X Byte \X Byte
      /\ code \in Codes /\ (damaged <=> code # Encoded(block)) /\ decoded = Decoded(code)
  BY DEF CodecInv
<1>2. RoundTrip
  BY <1>1, EncodedDecodes DEF RoundTrip
<1>3. \A b \in Byte \X Byte \X Byte : b # Bad
  BY DEF Bad
<1>4. BadCharDetected
  BY <1>1, <1>3, DecodedEncodes DEF BadCharDetected
<1>5. DamageShows
  BY <1>1, <1>3, DecodedEncodes DEF DamageShows
<1>6. QED
  BY <1>2, <1>4, <1>5 DEF Base64Correct

(* The eleven tables belong together, for every block and every character. *)
THEOREM TablesAreCorrect == Base64Spec => []Base64Correct
<1>1. QED
  BY CodecInit, CodecStep, CodecCorrect, PTL DEF Base64Spec

(*------------------------ the sequential programs -------------------------*)
(* A discipline of programs.  O says what program p holds before each of its
   steps if no call fails: every step finds there what it needs, what is
   released has nothing left that was made from it, what is made is made at one
   place, and a failure that is not tolerated ends the program, leads to a place
   from which it cannot end with 0, or to a step that lacks what was not made.
   Only the programs that are said to may go on after a failure to make
   something, or need what no step makes; only RocksDB's directory may go
   before what is in it. *)
MakesIn(P, n, r) == P[n].do = "make" /\ P[n].on = r
UnmadeIn(P, r, F) == \A n \in DOMAIN P : MakesIn(P, n, r) => n \in F
Excused(p, h) == p = "rocksdb" /\ h = <<"db", "dir">>
Among(r, H) == r = Nothing \/ \E h \in H : h[1] = r
NeededBy(s) == IF s.do = "make" THEN s.from ELSE s.on
(* The places of the programs that lead to another code than 0 alone. *)
Doomed(p) == IF p = "luajit" THEN {6, 7} ELSE IF p = "python" THEN {7, 8} ELSE {}

(* Step n is done, and leads to step m. *)
Leads(p, P, n, m) == m \in DOMAIN P /\ (n \in Doomed(p) => m \in Doomed(p))

(* Step n succeeds, and step n fails. *)
Succeeds(p, P, O, n) ==
  LET s == P[n] IN
  /\ s.do \in {"make", "call", "free", "back", "end"}
  /\ s.do \in {"make", "call", "free"} => Leads(p, P, n, n + 1)
  /\ s.do = "make" => O[n + 1] = O[n] \union {<<s.on, s.from>>}
  /\ s.do = "call" => O[n + 1] = O[n]
  /\ s.do = "free" => /\ O[n + 1] = {h \in O[n] : h[1] # s.on}
                      /\ \A h \in O[n] : h[2] = s.on => Excused(p, h)
  /\ s.do = "back" => Leads(p, P, n, s.from) /\ O[s.from] = O[n]
  /\ s.do = "end" => /\ s.from \notin {"running", "misuse"}
                     /\ s.from = "0" => n \notin Doomed(p) /\ \A h \in O[n] : h[1] \in Kept
  /\ s.do \in {"back", "end"} => s.on = Nothing
  /\ \/ Among(NeededBy(s), O[n])
     \/ p \in Careless /\ \A m \in DOMAIN P : ~MakesIn(P, m, NeededBy(s))

Fails(p, P, O, n) ==
  LET s == P[n] IN
  /\ s.bad.do = "exit" => s.bad.code \notin {"0", "running", "misuse"}
  /\ s.bad.do \in {"on", "assert"} =>
       s.do \in {"make", "call"} /\ Leads(p, P, n, n + 1) /\ O[n] \subseteq O[n + 1]
  /\ s.bad.do = "on" =>
       /\ p \in Careless \/ O[n + 1] = O[n]
       /\ \/ n \in ToleratedBy(p)
          \/ /\ s.do = "make" /\ ~Among(s.on, O[n])
             /\ NeededBy(P[n + 1]) = s.on
  /\ s.bad.do = "assert" => p \in AssertsOnly \union Careless \/ O[n + 1] = O[n]
  /\ s.bad.do = "jump" => /\ Leads(p, P, n, s.bad.to) /\ O[s.bad.to] = O[n]
                          /\ n \in ToleratedBy(p) \/ s.bad.to \in Doomed(p)

Obeys(p, P, O, n) == Succeeds(p, P, O, n) /\ Fails(p, P, O, n)

MakesOnce(P) ==
  \A m, n \in DOMAIN P : P[m].do = "make" /\ MakesIn(P, n, P[m].on) => m = n

Disciplined(p, P, O) ==
  /\ 1 \in DOMAIN P /\ O[1] = {} /\ MakesOnce(P)
  /\ \A n \in DOMAIN P : Obeys(p, P, O, n)

LEMMA StepFields ==
  /\ \A r, from, bad : /\ Make(r, from, bad).do = "make" /\ Make(r, from, bad).on = r
                        /\ Make(r, from, bad).from = from /\ Make(r, from, bad).bad = bad
  /\ \A r, bad : /\ Call(r, bad).do = "call" /\ Call(r, bad).on = r /\ Call(r, bad).bad = bad
  /\ \A bad : /\ Check(bad).do = "call" /\ Check(bad).on = Nothing /\ Check(bad).bad = bad
  /\ \A r : Free(r).do = "free" /\ Free(r).on = r /\ Free(r).bad = Never
  /\ \A n : Back(n).do = "back" /\ Back(n).on = Nothing /\ Back(n).from = n /\ Back(n).bad = Never
  /\ \A c : End(c).do = "end" /\ End(c).on = Nothing /\ End(c).from = c /\ End(c).bad = Never
BY DEF Make, Call, Check, Free, Back, End, Step

LEMMA FailureFields ==
  /\ Never.do = "never" /\ Assert.do = "assert" /\ GoOn.do = "on"
  /\ \A c : Exit(c).do = "exit" /\ Exit(c).code = c
  /\ \A n : Jump(n).do = "jump" /\ Jump(n).to = n
BY DEF Never, Assert, GoOn, Exit, Jump

(* Each program keeps it. *)
LEMMA GObjectFollows == \E O : Disciplined("gobject", GObject, O)
<1> DEFINE t == {<<"typelib", Nothing>>}
           b == t \union {<<"info", "typelib">>}
           O == << {}, t, b, b, t >>
           P == GObject
           Ok(n) == Obeys("gobject", P, O, n)
<1>1. /\ DOMAIN P = 1..5 /\ P[1] = Make("typelib", Nothing, Exit("abort"))
      /\ P[2] = Make("info", "typelib", Exit("abort")) /\ P[3] = Call("info", Exit("abort"))
      /\ P[4] = Free("info") /\ P[5] = End("0")
  BY DEF GObject
<1>2. /\ O[1] = {} /\ O[2] = t /\ O[3] = b /\ O[4] = b /\ O[5] = t
  OBVIOUS
<1> HIDE DEF O, P
<1>3. ToleratedBy("gobject") = {}
  BY DEF ToleratedBy, Tolerated
<1>4. Ok(1) /\ Ok(2) /\ Ok(3) /\ Ok(4) /\ Ok(5)
  BY <1>1, <1>2, <1>3, StepFields, FailureFields DEF Obeys, Succeeds, Fails, Leads, Among, NeededBy,
       MakesIn, Excused, Kept, Careless, AssertsOnly, Doomed, Nothing
<1>5. \A n \in DOMAIN P : Ok(n)
  BY <1>1, <1>4
<1>6. MakesOnce(P)
  BY <1>1, StepFields DEF MakesOnce, MakesIn
<1>7. QED
  BY <1>1, <1>2, <1>5, <1>6 DEF Disciplined, P

LEMMA LuaJitFollows == \E O : Disciplined("luajit", LuaJit, O)
<1> DEFINE s == {<<"state", Nothing>>}
           O == << {}, s, s, s, {}, s, {} >>
           P == LuaJit
           Ok(n) == Obeys("luajit", P, O, n)
<1>1. /\ DOMAIN P = 1..7 /\ P[1] = Make("state", Nothing, Exit("2"))
      /\ P[2] = Call("state", Jump(6)) /\ P[3] = Call("state", GoOn) /\ P[4] = Free("state")
      /\ P[5] = End("0") /\ P[6] = Free("state") /\ P[7] = End("1")
  BY DEF LuaJit
<1>2. /\ O[1] = {} /\ O[2] = s /\ O[3] = s /\ O[4] = s /\ O[5] = {} /\ O[6] = s /\ O[7] = {}
  OBVIOUS
<1> HIDE DEF O, P
<1>3. ToleratedBy("luajit") = {3}
  BY DEF ToleratedBy, Tolerated
<1>4. Ok(1) /\ Ok(2) /\ Ok(3) /\ Ok(4) /\ Ok(5) /\ Ok(6)
  BY <1>1, <1>2, <1>3, StepFields, FailureFields DEF Obeys, Succeeds, Fails, Leads, Among, NeededBy,
       MakesIn, Excused, Kept, Careless, AssertsOnly, Doomed, Nothing
<1>5. Ok(7)
  BY <1>1, <1>2, <1>3, StepFields, FailureFields DEF Obeys, Succeeds, Fails, Leads, Among, NeededBy,
       MakesIn, Excused, Kept, Careless, AssertsOnly, Doomed, Nothing
<1>6. \A n \in DOMAIN P : Ok(n)
  BY <1>1, <1>4, <1>5
<1>7. MakesOnce(P)
  BY <1>1, StepFields DEF MakesOnce, MakesIn
<1>8. QED
  BY <1>1, <1>2, <1>6, <1>7 DEF Disciplined, P

LEMMA LuaFollows == \E O : Disciplined("lua", Lua, O)
<1> DEFINE s == {<<"state", Nothing>>}
           O == << {}, s, s, {} >>
           P == Lua
           Ok(n) == Obeys("lua", P, O, n)
<1>1. /\ DOMAIN P = 1..4 /\ P[1] = Make("state", Nothing, Exit("2"))
      /\ P[2] = Call("state", GoOn) /\ P[3] = Free("state") /\ P[4] = End("0")
  BY DEF Lua
<1>2. /\ O[1] = {} /\ O[2] = s /\ O[3] = s /\ O[4] = {}
  OBVIOUS
<1> HIDE DEF O, P
<1>3. ToleratedBy("lua") = {2}
  BY DEF ToleratedBy, Tolerated
<1>4. Ok(1) /\ Ok(2) /\ Ok(3) /\ Ok(4)
  BY <1>1, <1>2, <1>3, StepFields, FailureFields DEF Obeys, Succeeds, Fails, Leads, Among, NeededBy,
       MakesIn, Excused, Kept, Careless, AssertsOnly, Doomed, Nothing
<1>5. \A n \in DOMAIN P : Ok(n)
  BY <1>1, <1>4
<1>6. MakesOnce(P)
  BY <1>1, StepFields DEF MakesOnce, MakesIn
<1>7. QED
  BY <1>1, <1>2, <1>5, <1>6 DEF Disciplined, P

LEMMA DuckDbFollows == \E O : Disciplined("duckdb", DuckDb, O)
<1> DEFINE d == {<<"db", Nothing>>}
           c == d \union {<<"con", "db">>}
           a == c \union {<<"result", Nothing>>}
           b == d \union {<<"result", Nothing>>}
           r == {<<"result", Nothing>>}
           O == << {}, d, c, a, b, r >>
           P == DuckDb
           Ok(n) == Obeys("duckdb", P, O, n)
<1>1. /\ DOMAIN P = 1..6 /\ P[1] = Make("db", Nothing, Exit("1"))
      /\ P[2] = Make("con", "db", Exit("2")) /\ P[3] = Make("result", Nothing, Exit("3"))
      /\ P[4] = Free("con") /\ P[5] = Free("db") /\ P[6] = End("0")
  BY DEF DuckDb
<1>2. /\ O[1] = {} /\ O[2] = d /\ O[3] = c /\ O[4] = a /\ O[5] = b /\ O[6] = r
  OBVIOUS
<1> HIDE DEF O, P
<1>3. ToleratedBy("duckdb") = {}
  BY DEF ToleratedBy, Tolerated
<1>4. Ok(1) /\ Ok(2) /\ Ok(3) /\ Ok(4) /\ Ok(5) /\ Ok(6)
  BY <1>1, <1>2, <1>3, StepFields, FailureFields DEF Obeys, Succeeds, Fails, Leads, Among, NeededBy,
       MakesIn, Excused, Kept, Careless, AssertsOnly, Doomed, Nothing
<1>5. \A n \in DOMAIN P : Ok(n)
  BY <1>1, <1>4
<1>6. MakesOnce(P)
  BY <1>1, StepFields DEF MakesOnce, MakesIn
<1>7. QED
  BY <1>1, <1>2, <1>5, <1>6 DEF Disciplined, P

LEMMA LevelDbFollows == \E O : Disciplined("leveldb", LevelDb, O)
<1> DEFINE d == {<<"dir", Nothing>>}
           b == d \union {<<"db", "dir">>}
           O == << {}, d, b, b, b, b, d, {} >>
           P == LevelDb
           Ok(n) == Obeys("leveldb", P, O, n)
<1>1. /\ DOMAIN P = 1..8 /\ P[1] = Make("dir", Nothing, Exit("throw"))
      /\ P[2] = Make("db", "dir", Assert) /\ P[3] = Call("db", Assert)
      /\ P[4] = Call("db", Assert) /\ P[5] = Check(Assert) /\ P[6] = Free("db")
      /\ P[7] = Free("dir") /\ P[8] = End("0")
  BY DEF LevelDb
<1>2. /\ O[1] = {} /\ O[2] = d /\ O[3] = b /\ O[4] = b /\ O[5] = b /\ O[6] = b /\ O[7] = d
      /\ O[8] = {}
  OBVIOUS
<1> HIDE DEF O, P
<1>3. ToleratedBy("leveldb") = {}
  BY DEF ToleratedBy, Tolerated
<1>4. Ok(1) /\ Ok(2) /\ Ok(3) /\ Ok(4) /\ Ok(5) /\ Ok(6)
  BY <1>1, <1>2, <1>3, StepFields, FailureFields DEF Obeys, Succeeds, Fails, Leads, Among, NeededBy,
       MakesIn, Excused, Kept, Careless, AssertsOnly, Doomed, Nothing
<1>5. Ok(7) /\ Ok(8)
  BY <1>1, <1>2, <1>3, StepFields, FailureFields DEF Obeys, Succeeds, Fails, Leads, Among, NeededBy,
       MakesIn, Excused, Kept, Careless, AssertsOnly, Doomed, Nothing
<1>6. \A n \in DOMAIN P : Ok(n)
  BY <1>1, <1>4, <1>5
<1>7. MakesOnce(P)
  BY <1>1, StepFields DEF MakesOnce, MakesIn
<1>8. QED
  BY <1>1, <1>2, <1>6, <1>7 DEF Disciplined, P

LEMMA RocksDbFollows == \E O : Disciplined("rocksdb", RocksDb, O)
<1> DEFINE d == {<<"dir", Nothing>>}
           b == d \union {<<"db", "dir">>}
           l == {<<"db", "dir">>}
           O == << {}, d, b, b, b, b, l, {} >>
           P == RocksDb
           Ok(n) == Obeys("rocksdb", P, O, n)
<1>1. /\ DOMAIN P = 1..8 /\ P[1] = Make("dir", Nothing, Exit("throw"))
      /\ P[2] = Make("db", "dir", Assert) /\ P[3] = Call("db", Assert)
      /\ P[4] = Call("db", Assert) /\ P[5] = Check(Assert) /\ P[6] = Free("dir")
      /\ P[7] = Free("db") /\ P[8] = End("0")
  BY DEF RocksDb
<1>2. /\ O[1] = {} /\ O[2] = d /\ O[3] = b /\ O[4] = b /\ O[5] = b /\ O[6] = b /\ O[7] = l
      /\ O[8] = {}
  OBVIOUS
<1> HIDE DEF O, P
<1>3. ToleratedBy("rocksdb") = {}
  BY DEF ToleratedBy, Tolerated
<1>4. Ok(1) /\ Ok(2) /\ Ok(3) /\ Ok(4) /\ Ok(5) /\ Ok(6)
  BY <1>1, <1>2, <1>3, StepFields, FailureFields DEF Obeys, Succeeds, Fails, Leads, Among, NeededBy,
       MakesIn, Excused, Kept, Careless, AssertsOnly, Doomed, Nothing
<1>5. Ok(7) /\ Ok(8)
  BY <1>1, <1>2, <1>3, StepFields, FailureFields DEF Obeys, Succeeds, Fails, Leads, Among, NeededBy,
       MakesIn, Excused, Kept, Careless, AssertsOnly, Doomed, Nothing
<1>6. \A n \in DOMAIN P : Ok(n)
  BY <1>1, <1>4, <1>5
<1>7. MakesOnce(P)
  BY <1>1, StepFields DEF MakesOnce, MakesIn
<1>8. QED
  BY <1>1, <1>2, <1>6, <1>7 DEF Disciplined, P

LEMMA LibAecFollows == \E O : Disciplined("libaec", LibAec, O)
<1> DEFINE s == {<<"stream", Nothing>>}
           O == << {}, s, s, {} >>
           P == LibAec
           Ok(n) == Obeys("libaec", P, O, n)
<1>1. /\ DOMAIN P = 1..4 /\ P[1] = Make("stream", Nothing, Exit("1"))
      /\ P[2] = Call("stream", Exit("1")) /\ P[3] = Free("stream") /\ P[4] = End("0")
  BY DEF LibAec
<1>2. /\ O[1] = {} /\ O[2] = s /\ O[3] = s /\ O[4] = {}
  OBVIOUS
<1> HIDE DEF O, P
<1>3. ToleratedBy("libaec") = {}
  BY DEF ToleratedBy, Tolerated
<1>4. Ok(1) /\ Ok(2) /\ Ok(3) /\ Ok(4)
  BY <1>1, <1>2, <1>3, StepFields, FailureFields DEF Obeys, Succeeds, Fails, Leads, Among, NeededBy,
       MakesIn, Excused, Kept, Careless, AssertsOnly, Doomed, Nothing
<1>5. \A n \in DOMAIN P : Ok(n)
  BY <1>1, <1>4
<1>6. MakesOnce(P)
  BY <1>1, StepFields DEF MakesOnce, MakesIn
<1>7. QED
  BY <1>1, <1>2, <1>5, <1>6 DEF Disciplined, P

LEMMA UnixOdbcFollows == \E O : Disciplined("unixodbc", UnixOdbc, O)
<1> DEFINE e == {<<"env", Nothing>>}
           O == << {}, e, e, e, {} >>
           P == UnixOdbc
           Ok(n) == Obeys("unixodbc", P, O, n)
<1>1. /\ DOMAIN P = 1..5 /\ P[1] = Make("env", Nothing, Exit("1"))
      /\ P[2] = Call("env", Jump(4)) /\ P[3] = Back(2) /\ P[4] = Free("env")
      /\ P[5] = End("0")
  BY DEF UnixOdbc
<1>2. /\ O[1] = {} /\ O[2] = e /\ O[3] = e /\ O[4] = e /\ O[5] = {}
  OBVIOUS
<1> HIDE DEF O, P
<1>3. ToleratedBy("unixodbc") = {2}
  BY DEF ToleratedBy, Tolerated
<1>4. Ok(1) /\ Ok(2) /\ Ok(3) /\ Ok(4) /\ Ok(5)
  BY <1>1, <1>2, <1>3, StepFields, FailureFields DEF Obeys, Succeeds, Fails, Leads, Among, NeededBy,
       MakesIn, Excused, Kept, Careless, AssertsOnly, Doomed, Nothing
<1>5. \A n \in DOMAIN P : Ok(n)
  BY <1>1, <1>4
<1>6. MakesOnce(P)
  BY <1>1, StepFields DEF MakesOnce, MakesIn
<1>7. QED
  BY <1>1, <1>2, <1>5, <1>6 DEF Disciplined, P

LEMMA EmbedResourceFollows == \E O : Disciplined("embedresource", EmbedResource, O)
<1> DEFINE a == {<<"testdata1", Nothing>>}
           b == a \union {<<"testdata2", Nothing>>}
           c == b \union {<<"testdata3", Nothing>>}
           O == << {}, {}, a, a, b, b, c, c, b, a, {} >>
           P == EmbedResource
           Ok(n) == Obeys("embedresource", P, O, n)
<1>1. /\ DOMAIN P = 1..11 /\ P[1] = Check(Exit("-1"))
      /\ P[2] = Make("testdata1", Nothing, Never) /\ P[3] = Call("testdata1", Exit("-1"))
      /\ P[4] = Make("testdata2", Nothing, Never) /\ P[5] = Call("testdata2", Exit("-1"))
      /\ P[6] = Make("testdata3", Nothing, Never) /\ P[7] = Call("testdata2", Exit("-1"))
      /\ P[8] = Free("testdata3") /\ P[9] = Free("testdata2") /\ P[10] = Free("testdata1")
      /\ P[11] = End("0")
  BY DEF EmbedResource
<1>2. /\ O[1] = {} /\ O[2] = {} /\ O[3] = a /\ O[4] = a /\ O[5] = b /\ O[6] = b /\ O[7] = c
      /\ O[8] = c /\ O[9] = b /\ O[10] = a /\ O[11] = {}
  OBVIOUS
<1> HIDE DEF O, P
<1>3. ToleratedBy("embedresource") = {}
  BY DEF ToleratedBy, Tolerated
<1>4. Ok(1) /\ Ok(2) /\ Ok(3) /\ Ok(4) /\ Ok(5) /\ Ok(6)
  BY <1>1, <1>2, <1>3, StepFields, FailureFields DEF Obeys, Succeeds, Fails, Leads, Among, NeededBy,
       MakesIn, Excused, Kept, Careless, AssertsOnly, Doomed, Nothing
<1>5. Ok(7) /\ Ok(8) /\ Ok(9) /\ Ok(10) /\ Ok(11)
  BY <1>1, <1>2, <1>3, StepFields, FailureFields DEF Obeys, Succeeds, Fails, Leads, Among, NeededBy,
       MakesIn, Excused, Kept, Careless, AssertsOnly, Doomed, Nothing
<1>6. \A n \in DOMAIN P : Ok(n)
  BY <1>1, <1>4, <1>5
<1>7. MakesOnce(P)
  BY <1>1, StepFields DEF MakesOnce, MakesIn
<1>8. QED
  BY <1>1, <1>2, <1>6, <1>7 DEF Disciplined, P

LEMMA RyuFollows == \E O : Disciplined("ryu", Ryu, O)
<1> DEFINE O == << {}, {}, {} >>
           P == Ryu
           Ok(n) == Obeys("ryu", P, O, n)
<1>1. /\ DOMAIN P = 1..3 /\ P[1] = Check(Exit("1")) /\ P[2] = Check(Exit("2"))
      /\ P[3] = End("0")
  BY DEF Ryu
<1>2. /\ O[1] = {} /\ O[2] = {} /\ O[3] = {}
  OBVIOUS
<1> HIDE DEF O, P
<1>3. ToleratedBy("ryu") = {}
  BY DEF ToleratedBy, Tolerated
<1>4. Ok(1) /\ Ok(2) /\ Ok(3)
  BY <1>1, <1>2, <1>3, StepFields, FailureFields DEF Obeys, Succeeds, Fails, Leads, Among, NeededBy,
       MakesIn, Excused, Kept, Careless, AssertsOnly, Doomed, Nothing
<1>5. \A n \in DOMAIN P : Ok(n)
  BY <1>1, <1>4
<1>6. MakesOnce(P)
  BY <1>1, StepFields DEF MakesOnce, MakesIn
<1>7. QED
  BY <1>1, <1>2, <1>5, <1>6 DEF Disciplined, P

LEMMA TomlPlusPlusFollows == \E O : Disciplined("tomlplusplus", TomlPlusPlus, O)
<1> DEFINE O == << {}, {}, {} >>
           P == TomlPlusPlus
           Ok(n) == Obeys("tomlplusplus", P, O, n)
<1>1. /\ DOMAIN P = 1..3 /\ P[1] = Check(Exit("1")) /\ P[2] = Check(Exit("2"))
      /\ P[3] = End("0")
  BY DEF TomlPlusPlus
<1>2. /\ O[1] = {} /\ O[2] = {} /\ O[3] = {}
  OBVIOUS
<1> HIDE DEF O, P
<1>3. ToleratedBy("tomlplusplus") = {}
  BY DEF ToleratedBy, Tolerated
<1>4. Ok(1) /\ Ok(2) /\ Ok(3)
  BY <1>1, <1>2, <1>3, StepFields, FailureFields DEF Obeys, Succeeds, Fails, Leads, Among, NeededBy,
       MakesIn, Excused, Kept, Careless, AssertsOnly, Doomed, Nothing
<1>5. \A n \in DOMAIN P : Ok(n)
  BY <1>1, <1>4
<1>6. MakesOnce(P)
  BY <1>1, StepFields DEF MakesOnce, MakesIn
<1>7. QED
  BY <1>1, <1>2, <1>5, <1>6 DEF Disciplined, P

LEMMA MincFollows == \E O : Disciplined("minc", Minc, O)
<1> DEFINE v == {<<"volume", Nothing>>}
           O == << {}, v, {} >>
           P == Minc
           Ok(n) == Obeys("minc", P, O, n)
<1>1. /\ DOMAIN P = 1..3 /\ P[1] = Make("volume", Nothing, GoOn) /\ P[2] = Free("volume")
      /\ P[3] = End("0")
  BY DEF Minc
<1>2. /\ O[1] = {} /\ O[2] = v /\ O[3] = {}
  OBVIOUS
<1> HIDE DEF O, P
<1>3. ToleratedBy("minc") = {1}
  BY DEF ToleratedBy, Tolerated
<1>4. Ok(1) /\ Ok(2) /\ Ok(3)
  BY <1>1, <1>2, <1>3, StepFields, FailureFields DEF Obeys, Succeeds, Fails, Leads, Among, NeededBy,
       MakesIn, Excused, Kept, Careless, AssertsOnly, Doomed, Nothing
<1>5. \A n \in DOMAIN P : Ok(n)
  BY <1>1, <1>4
<1>6. MakesOnce(P)
  BY <1>1, StepFields DEF MakesOnce, MakesIn
<1>7. QED
  BY <1>1, <1>2, <1>5, <1>6 DEF Disciplined, P

LEMMA GmimeFollows == \E O : Disciplined("gmime", Gmime, O)
<1> DEFINE p == {<<"parser", Nothing>>}
           m == p \union {<<"message", Nothing>>}
           O == << {}, p, m, m, p, {} >>
           P == Gmime
           Ok(n) == Obeys("gmime", P, O, n)
<1>1. /\ DOMAIN P = 1..6 /\ P[1] = Make("parser", Nothing, Never)
      /\ P[2] = Make("message", Nothing, GoOn) /\ P[3] = Call("message", Never)
      /\ P[4] = Free("message") /\ P[5] = Free("parser") /\ P[6] = End("0")
  BY DEF Gmime
<1>2. /\ O[1] = {} /\ O[2] = p /\ O[3] = m /\ O[4] = m /\ O[5] = p /\ O[6] = {}
  OBVIOUS
<1> HIDE DEF O, P
<1>3. ToleratedBy("gmime") = {}
  BY DEF ToleratedBy, Tolerated
<1>4. Ok(1) /\ Ok(2) /\ Ok(3) /\ Ok(4) /\ Ok(5) /\ Ok(6)
  BY <1>1, <1>2, <1>3, StepFields, FailureFields DEF Obeys, Succeeds, Fails, Leads, Among, NeededBy,
       MakesIn, Excused, Kept, Careless, AssertsOnly, Doomed, Nothing
<1>5. \A n \in DOMAIN P : Ok(n)
  BY <1>1, <1>4
<1>6. MakesOnce(P)
  BY <1>1, StepFields DEF MakesOnce, MakesIn
<1>7. QED
  BY <1>1, <1>2, <1>5, <1>6 DEF Disciplined, P

LEMMA TreeSitterFollows == \E O : Disciplined("treesitter", TreeSitter, O)
<1> DEFINE p == {<<"parser", Nothing>>}
           t == p \union {<<"tree", "parser">>}
           s == t \union {<<"string", "tree">>}
           O == << {}, p, p, t, s, t, p, {} >>
           P == TreeSitter
           Ok(n) == Obeys("treesitter", P, O, n)
<1>1. /\ DOMAIN P = 1..8 /\ P[1] = Make("parser", Nothing, GoOn)
      /\ P[2] = Call("parser", GoOn) /\ P[3] = Make("tree", "parser", GoOn)
      /\ P[4] = Make("string", "tree", GoOn) /\ P[5] = Free("string") /\ P[6] = Free("tree")
      /\ P[7] = Free("parser") /\ P[8] = End("0")
  BY DEF TreeSitter
<1>2. /\ O[1] = {} /\ O[2] = p /\ O[3] = p /\ O[4] = t /\ O[5] = s /\ O[6] = t /\ O[7] = p
      /\ O[8] = {}
  OBVIOUS
<1> HIDE DEF O, P
<1>3. ToleratedBy("treesitter") = {2}
  BY DEF ToleratedBy, Tolerated
<1>4. Ok(1) /\ Ok(2) /\ Ok(3) /\ Ok(4) /\ Ok(5) /\ Ok(6)
  BY <1>1, <1>2, <1>3, StepFields, FailureFields DEF Obeys, Succeeds, Fails, Leads, Among, NeededBy,
       MakesIn, Excused, Kept, Careless, AssertsOnly, Doomed, Nothing
<1>5. Ok(7) /\ Ok(8)
  BY <1>1, <1>2, <1>3, StepFields, FailureFields DEF Obeys, Succeeds, Fails, Leads, Among, NeededBy,
       MakesIn, Excused, Kept, Careless, AssertsOnly, Doomed, Nothing
<1>6. \A n \in DOMAIN P : Ok(n)
  BY <1>1, <1>4, <1>5
<1>7. MakesOnce(P)
  BY <1>1, StepFields DEF MakesOnce, MakesIn
<1>8. QED
  BY <1>1, <1>2, <1>6, <1>7 DEF Disciplined, P

LEMMA DuktapeFollows == \E O : Disciplined("duktape", Duktape, O)
<1> DEFINE h == {<<"heap", Nothing>>}
           O == << {}, h, h, h, h, {} >>
           P == Duktape
           Ok(n) == Obeys("duktape", P, O, n)
<1>1. /\ DOMAIN P = 1..6 /\ P[1] = Make("heap", Nothing, GoOn)
      /\ P[2] = Call("heap", Exit("abort")) /\ P[3] = Call("heap", Exit("abort"))
      /\ P[4] = Check(Assert) /\ P[5] = Free("heap") /\ P[6] = End("0")
  BY DEF Duktape
<1>2. /\ O[1] = {} /\ O[2] = h /\ O[3] = h /\ O[4] = h /\ O[5] = h /\ O[6] = {}
  OBVIOUS
<1> HIDE DEF O, P
<1>3. ToleratedBy("duktape") = {}
  BY DEF ToleratedBy, Tolerated
<1>4. Ok(1) /\ Ok(2) /\ Ok(3) /\ Ok(4) /\ Ok(5) /\ Ok(6)
  BY <1>1, <1>2, <1>3, StepFields, FailureFields DEF Obeys, Succeeds, Fails, Leads, Among, NeededBy,
       MakesIn, Excused, Kept, Careless, AssertsOnly, Doomed, Nothing
<1>5. \A n \in DOMAIN P : Ok(n)
  BY <1>1, <1>4
<1>6. MakesOnce(P)
  BY <1>1, StepFields DEF MakesOnce, MakesIn
<1>7. QED
  BY <1>1, <1>2, <1>5, <1>6 DEF Disciplined, P

LEMMA HdrHistogramFollows == \E O : Disciplined("hdrhistogram", HdrHistogram, O)
<1> DEFINE h == {<<"histogram", Nothing>>}
           O == << {}, h, h, {} >>
           P == HdrHistogram
           Ok(n) == Obeys("hdrhistogram", P, O, n)
<1>1. /\ DOMAIN P = 1..4 /\ P[1] = Make("histogram", Nothing, Exit("1"))
      /\ P[2] = Call("histogram", GoOn) /\ P[3] = Free("histogram") /\ P[4] = End("0")
  BY DEF HdrHistogram
<1>2. /\ O[1] = {} /\ O[2] = h /\ O[3] = h /\ O[4] = {}
  OBVIOUS
<1> HIDE DEF O, P
<1>3. ToleratedBy("hdrhistogram") = {2}
  BY DEF ToleratedBy, Tolerated
<1>4. Ok(1) /\ Ok(2) /\ Ok(3) /\ Ok(4)
  BY <1>1, <1>2, <1>3, StepFields, FailureFields DEF Obeys, Succeeds, Fails, Leads, Among, NeededBy,
       MakesIn, Excused, Kept, Careless, AssertsOnly, Doomed, Nothing
<1>5. \A n \in DOMAIN P : Ok(n)
  BY <1>1, <1>4
<1>6. MakesOnce(P)
  BY <1>1, StepFields DEF MakesOnce, MakesIn
<1>7. QED
  BY <1>1, <1>2, <1>5, <1>6 DEF Disciplined, P

LEMMA PythonFollows == \E O : Disciplined("python", Python, O)
<1> DEFINE c == {<<"config", Nothing>>}
           p == c \union {<<"python", "config">>}
           O == << {}, c, c, p, c, {}, c, {} >>
           P == Python
           Ok(n) == Obeys("python", P, O, n)
<1>1. /\ DOMAIN P = 1..8 /\ P[1] = Make("config", Nothing, Never)
      /\ P[2] = Call("config", GoOn) /\ P[3] = Make("python", "config", Jump(7))
      /\ P[4] = Free("python") /\ P[5] = Free("config") /\ P[6] = End("0")
      /\ P[7] = Free("config") /\ P[8] = End("exception")
  BY DEF Python
<1>2. /\ O[1] = {} /\ O[2] = c /\ O[3] = c /\ O[4] = p /\ O[5] = c /\ O[6] = {} /\ O[7] = c
      /\ O[8] = {}
  OBVIOUS
<1> HIDE DEF O, P
<1>3. ToleratedBy("python") = {2}
  BY DEF ToleratedBy, Tolerated
<1>4. Ok(1) /\ Ok(2) /\ Ok(3) /\ Ok(4) /\ Ok(5) /\ Ok(6)
  BY <1>1, <1>2, <1>3, StepFields, FailureFields DEF Obeys, Succeeds, Fails, Leads, Among, NeededBy,
       MakesIn, Excused, Kept, Careless, AssertsOnly, Doomed, Nothing
<1>5. Ok(7) /\ Ok(8)
  BY <1>1, <1>2, <1>3, StepFields, FailureFields DEF Obeys, Succeeds, Fails, Leads, Among, NeededBy,
       MakesIn, Excused, Kept, Careless, AssertsOnly, Doomed, Nothing
<1>6. \A n \in DOMAIN P : Ok(n)
  BY <1>1, <1>4, <1>5
<1>7. MakesOnce(P)
  BY <1>1, StepFields DEF MakesOnce, MakesIn
<1>8. QED
  BY <1>1, <1>2, <1>6, <1>7 DEF Disciplined, P

LEMMA RymlFollows == \E O : Disciplined("ryml", Ryml, O)
<1> DEFINE t == {<<"tree", Nothing>>}
           O == << {}, t, t, t, t, {} >>
           P == Ryml
           Ok(n) == Obeys("ryml", P, O, n)
<1>1. /\ DOMAIN P = 1..6 /\ P[1] = Make("tree", Nothing, Exit("abort"))
      /\ P[2] = Call("tree", Exit("1")) /\ P[3] = Call("tree", Exit("2"))
      /\ P[4] = Call("tree", Exit("3")) /\ P[5] = Free("tree") /\ P[6] = End("0")
  BY DEF Ryml
<1>2. /\ O[1] = {} /\ O[2] = t /\ O[3] = t /\ O[4] = t /\ O[5] = t /\ O[6] = {}
  OBVIOUS
<1> HIDE DEF O, P
<1>3. ToleratedBy("ryml") = {}
  BY DEF ToleratedBy, Tolerated
<1>4. Ok(1) /\ Ok(2) /\ Ok(3) /\ Ok(4) /\ Ok(5) /\ Ok(6)
  BY <1>1, <1>2, <1>3, StepFields, FailureFields DEF Obeys, Succeeds, Fails, Leads, Among, NeededBy,
       MakesIn, Excused, Kept, Careless, AssertsOnly, Doomed, Nothing
<1>5. \A n \in DOMAIN P : Ok(n)
  BY <1>1, <1>4
<1>6. MakesOnce(P)
  BY <1>1, StepFields DEF MakesOnce, MakesIn
<1>7. QED
  BY <1>1, <1>2, <1>5, <1>6 DEF Disciplined, P

LEMMA GraphiteFollows == \E O : Disciplined("graphite", Graphite, O)
<1> DEFINE f == {<<"face", Nothing>>}
           O == << {}, f, {} >>
           P == Graphite
           Ok(n) == Obeys("graphite", P, O, n)
<1>1. /\ DOMAIN P = 1..3 /\ P[1] = Make("face", Nothing, Jump(3)) /\ P[2] = Free("face")
      /\ P[3] = End("0")
  BY DEF Graphite
<1>2. /\ O[1] = {} /\ O[2] = f /\ O[3] = {}
  OBVIOUS
<1> HIDE DEF O, P
<1>3. ToleratedBy("graphite") = {1}
  BY DEF ToleratedBy, Tolerated
<1>4. Ok(1) /\ Ok(2) /\ Ok(3)
  BY <1>1, <1>2, <1>3, StepFields, FailureFields DEF Obeys, Succeeds, Fails, Leads, Among, NeededBy,
       MakesIn, Excused, Kept, Careless, AssertsOnly, Doomed, Nothing
<1>5. \A n \in DOMAIN P : Ok(n)
  BY <1>1, <1>4
<1>6. MakesOnce(P)
  BY <1>1, StepFields DEF MakesOnce, MakesIn
<1>7. QED
  BY <1>1, <1>2, <1>5, <1>6 DEF Disciplined, P

LEMMA LibModbusFollows == \E O : Disciplined("libmodbus", LibModbus, O)
<1> DEFINE m == {<<"modbus", Nothing>>}
           O == << {}, m >>
           P == LibModbus
           Ok(n) == Obeys("libmodbus", P, O, n)
<1>1. /\ DOMAIN P = 1..2 /\ P[1] = Make("modbus", Nothing, Exit("-1")) /\ P[2] = End("0")
  BY DEF LibModbus
<1>2. /\ O[1] = {} /\ O[2] = m
  OBVIOUS
<1> HIDE DEF O, P
<1>3. ToleratedBy("libmodbus") = {}
  BY DEF ToleratedBy, Tolerated
<1>4. Ok(1) /\ Ok(2)
  BY <1>1, <1>2, <1>3, StepFields, FailureFields DEF Obeys, Succeeds, Fails, Leads, Among, NeededBy,
       MakesIn, Excused, Kept, Careless, AssertsOnly, Doomed, Nothing
<1>5. \A n \in DOMAIN P : Ok(n)
  BY <1>1, <1>4
<1>6. MakesOnce(P)
  BY <1>1, StepFields DEF MakesOnce, MakesIn
<1>7. QED
  BY <1>1, <1>2, <1>5, <1>6 DEF Disciplined, P

LEMMA FluidSynthFollows == \E O : Disciplined("fluidsynth", FluidSynth, O)
<1> DEFINE s == {<<"settings", Nothing>>}
           O == << {}, s, s, {} >>
           P == FluidSynth
           Ok(n) == Obeys("fluidsynth", P, O, n)
<1>1. /\ DOMAIN P = 1..4 /\ P[1] = Make("settings", Nothing, GoOn)
      /\ P[2] = Call("settings", GoOn) /\ P[3] = Free("settings") /\ P[4] = End("0")
  BY DEF FluidSynth
<1>2. /\ O[1] = {} /\ O[2] = s /\ O[3] = s /\ O[4] = {}
  OBVIOUS
<1> HIDE DEF O, P
<1>3. ToleratedBy("fluidsynth") = {2}
  BY DEF ToleratedBy, Tolerated
<1>4. Ok(1) /\ Ok(2) /\ Ok(3) /\ Ok(4)
  BY <1>1, <1>2, <1>3, StepFields, FailureFields DEF Obeys, Succeeds, Fails, Leads, Among, NeededBy,
       MakesIn, Excused, Kept, Careless, AssertsOnly, Doomed, Nothing
<1>5. \A n \in DOMAIN P : Ok(n)
  BY <1>1, <1>4
<1>6. MakesOnce(P)
  BY <1>1, StepFields DEF MakesOnce, MakesIn
<1>7. QED
  BY <1>1, <1>2, <1>5, <1>6 DEF Disciplined, P

LEMMA Mpg123Follows == \E O : Disciplined("mpg123", Mpg123, O)
<1> DEFINE h == {<<"handle", Nothing>>}
           O == << {}, h, h, h, {} >>
           P == Mpg123
           Ok(n) == Obeys("mpg123", P, O, n)
<1>1. /\ DOMAIN P = 1..5 /\ P[1] = Make("handle", Nothing, GoOn)
      /\ P[2] = Call("handle", GoOn) /\ P[3] = Call("handle", GoOn) /\ P[4] = Free("handle")
      /\ P[5] = End("0")
  BY DEF Mpg123
<1>2. /\ O[1] = {} /\ O[2] = h /\ O[3] = h /\ O[4] = h /\ O[5] = {}
  OBVIOUS
<1> HIDE DEF O, P
<1>3. ToleratedBy("mpg123") = {2, 3}
  BY DEF ToleratedBy, Tolerated
<1>4. Ok(1) /\ Ok(2) /\ Ok(3) /\ Ok(4) /\ Ok(5)
  BY <1>1, <1>2, <1>3, StepFields, FailureFields DEF Obeys, Succeeds, Fails, Leads, Among, NeededBy,
       MakesIn, Excused, Kept, Careless, AssertsOnly, Doomed, Nothing
<1>5. \A n \in DOMAIN P : Ok(n)
  BY <1>1, <1>4
<1>6. MakesOnce(P)
  BY <1>1, StepFields DEF MakesOnce, MakesIn
<1>7. QED
  BY <1>1, <1>2, <1>5, <1>6 DEF Disciplined, P

LEMMA UnarrFollows == \E O : Disciplined("unarr", Unarr, O)
<1> DEFINE a == {<<"archive", "stream">>}
           O == << {}, a, {} >>
           P == Unarr
           Ok(n) == Obeys("unarr", P, O, n)
<1>1. /\ DOMAIN P = 1..3 /\ P[1] = Make("archive", "stream", GoOn) /\ P[2] = Free("archive")
      /\ P[3] = End("0")
  BY DEF Unarr
<1>2. /\ O[1] = {} /\ O[2] = a /\ O[3] = {}
  OBVIOUS
<1> HIDE DEF O, P
<1>3. ToleratedBy("unarr") = {}
  BY DEF ToleratedBy, Tolerated
<1>4. Ok(1) /\ Ok(2) /\ Ok(3)
  BY <1>1, <1>2, <1>3, StepFields, FailureFields DEF Obeys, Succeeds, Fails, Leads, Among, NeededBy,
       MakesIn, Excused, Kept, Careless, AssertsOnly, Doomed, Nothing
<1>5. \A n \in DOMAIN P : Ok(n)
  BY <1>1, <1>4
<1>6. MakesOnce(P)
  BY <1>1, StepFields DEF MakesOnce, MakesIn
<1>7. QED
  BY <1>1, <1>2, <1>5, <1>6 DEF Disciplined, P

LEMMA AlibabaOssFollows == \E O : Disciplined("alibaba", AlibabaOss(FALSE), O)
<1> DEFINE d == {<<"doc", Nothing>>}
           c == d \union {<<"client", Nothing>>}
           O == << {}, d, d, c, c, d, {} >>
           P == AlibabaOss(FALSE)
           Ok(n) == Obeys("alibaba", P, O, n)
<1>1. /\ DOMAIN P = 1..7 /\ P[1] = Make("doc", Nothing, Exit("1"))
      /\ P[2] = Call("doc", Exit("1")) /\ P[3] = Make("client", Nothing, Exit("throw"))
      /\ P[4] = Call("doc", Exit("1")) /\ P[5] = Free("client") /\ P[6] = Free("doc")
      /\ P[7] = End("0")
  BY DEF AlibabaOss
<1>2. /\ O[1] = {} /\ O[2] = d /\ O[3] = d /\ O[4] = c /\ O[5] = c /\ O[6] = d /\ O[7] = {}
  OBVIOUS
<1> HIDE DEF O, P
<1>3. ToleratedBy("alibaba") = {}
  BY DEF ToleratedBy, Tolerated
<1>4. Ok(1) /\ Ok(2) /\ Ok(3) /\ Ok(4) /\ Ok(5) /\ Ok(6)
  BY <1>1, <1>2, <1>3, StepFields, FailureFields DEF Obeys, Succeeds, Fails, Leads, Among, NeededBy,
       MakesIn, Excused, Kept, Careless, AssertsOnly, Doomed, Nothing
<1>5. Ok(7)
  BY <1>1, <1>2, <1>3, StepFields, FailureFields DEF Obeys, Succeeds, Fails, Leads, Among, NeededBy,
       MakesIn, Excused, Kept, Careless, AssertsOnly, Doomed, Nothing
<1>6. \A n \in DOMAIN P : Ok(n)
  BY <1>1, <1>4, <1>5
<1>7. MakesOnce(P)
  BY <1>1, StepFields DEF MakesOnce, MakesIn
<1>8. Disciplined("alibaba", P, O)
  BY <1>1, <1>2, <1>6, <1>7 DEF Disciplined
<1>9. QED
  BY <1>8, Zenon DEF P

LEMMA OldAlibabaOssFollows == \E O : Disciplined("alibaba_old", AlibabaOss(TRUE), O)
<1> DEFINE d == {<<"doc", Nothing>>}
           c == d \union {<<"client", Nothing>>}
           s == c \union {<<"sdk", Nothing>>}
           l == s \union {<<"legacy", "sdk">>}
           O == << {}, d, d, c, s, l, l, s, c, c, d, {} >>
           P == AlibabaOss(TRUE)
           Ok(n) == Obeys("alibaba_old", P, O, n)
<1>1. /\ DOMAIN P = 1..12 /\ P[1] = Make("doc", Nothing, Exit("1"))
      /\ P[2] = Call("doc", Exit("1")) /\ P[3] = Make("client", Nothing, Exit("throw"))
      /\ P[4] = Make("sdk", Nothing, Never) /\ P[5] = Make("legacy", "sdk", Exit("throw"))
      /\ P[6] = Call("sdk", Never) /\ P[7] = Free("legacy") /\ P[8] = Free("sdk")
      /\ P[9] = Call("doc", Exit("1")) /\ P[10] = Free("client") /\ P[11] = Free("doc")
      /\ P[12] = End("0")
  BY DEF AlibabaOss
<1>2. /\ O[1] = {} /\ O[2] = d /\ O[3] = d /\ O[4] = c /\ O[5] = s /\ O[6] = l /\ O[7] = l
      /\ O[8] = s /\ O[9] = c /\ O[10] = c /\ O[11] = d /\ O[12] = {}
  OBVIOUS
<1> HIDE DEF O, P
<1>3. ToleratedBy("alibaba_old") = {}
  BY DEF ToleratedBy, Tolerated
<1>4. Ok(1) /\ Ok(2) /\ Ok(3) /\ Ok(4) /\ Ok(5) /\ Ok(6)
  BY <1>1, <1>2, <1>3, StepFields, FailureFields DEF Obeys, Succeeds, Fails, Leads, Among, NeededBy,
       MakesIn, Excused, Kept, Careless, AssertsOnly, Doomed, Nothing
<1>5. Ok(7) /\ Ok(8) /\ Ok(9) /\ Ok(10) /\ Ok(11) /\ Ok(12)
  BY <1>1, <1>2, <1>3, StepFields, FailureFields DEF Obeys, Succeeds, Fails, Leads, Among, NeededBy,
       MakesIn, Excused, Kept, Careless, AssertsOnly, Doomed, Nothing
<1>6. \A n \in DOMAIN P : Ok(n)
  BY <1>1, <1>4, <1>5
<1>7. MakesOnce(P)
  BY <1>1, StepFields DEF MakesOnce, MakesIn
<1>8. Disciplined("alibaba_old", P, O)
  BY <1>1, <1>2, <1>6, <1>7 DEF Disciplined
<1>9. QED
  BY <1>8, Zenon DEF P

LEMMA SubversionFollows == \E O : Disciplined("subversion", Subversion, O)
<1> DEFINE O == << {}, {}, {}, {}, {}, {}, {}, {}, {} >>
           P == Subversion
           Ok(n) == Obeys("subversion", P, O, n)
<1>1. /\ DOMAIN P = 1..9 /\ P[1] = Call(Nothing, Never) /\ P[2] = Call(Nothing, Never)
      /\ P[3] = Call(Nothing, Never) /\ P[4] = Call(Nothing, Never)
      /\ P[5] = Call(Nothing, Never) /\ P[6] = Call(Nothing, Never)
      /\ P[7] = Call(Nothing, Never) /\ P[8] = Call(Nothing, Never) /\ P[9] = End("0")
  BY DEF Subversion
<1>2. /\ O[1] = {} /\ O[2] = {} /\ O[3] = {} /\ O[4] = {} /\ O[5] = {} /\ O[6] = {}
      /\ O[7] = {} /\ O[8] = {} /\ O[9] = {}
  OBVIOUS
<1> HIDE DEF O, P
<1>3. ToleratedBy("subversion") = {}
  BY DEF ToleratedBy, Tolerated
<1>4. Ok(1) /\ Ok(2) /\ Ok(3) /\ Ok(4) /\ Ok(5) /\ Ok(6)
  BY <1>1, <1>2, <1>3, StepFields, FailureFields DEF Obeys, Succeeds, Fails, Leads, Among, NeededBy,
       MakesIn, Excused, Kept, Careless, AssertsOnly, Doomed, Nothing
<1>5. Ok(7) /\ Ok(8) /\ Ok(9)
  BY <1>1, <1>2, <1>3, StepFields, FailureFields DEF Obeys, Succeeds, Fails, Leads, Among, NeededBy,
       MakesIn, Excused, Kept, Careless, AssertsOnly, Doomed, Nothing
<1>6. \A n \in DOMAIN P : Ok(n)
  BY <1>1, <1>4, <1>5
<1>7. MakesOnce(P)
  BY <1>1, StepFields DEF MakesOnce, MakesIn
<1>8. QED
  BY <1>1, <1>2, <1>6, <1>7 DEF Disciplined, P

LEMMA YogaFollows == \E O : Disciplined("yoga", Yoga, O)
<1> DEFINE h == {<<"node", Nothing>>}
           O == << {}, h, {} >>
           P == Yoga
           Ok(n) == Obeys("yoga", P, O, n)
<1>1. /\ DOMAIN P = 1..3 /\ P[1] = Make("node", Nothing, Exit("1")) /\ P[2] = Free("node")
      /\ P[3] = End("0")
  BY DEF Yoga, Handle
<1>2. /\ O[1] = {} /\ O[2] = h /\ O[3] = {}
  OBVIOUS
<1> HIDE DEF O, P
<1>3. ToleratedBy("yoga") = {}
  BY DEF ToleratedBy, Tolerated
<1>4. Ok(1) /\ Ok(2) /\ Ok(3)
  BY <1>1, <1>2, <1>3, StepFields, FailureFields DEF Obeys, Succeeds, Fails, Leads, Among, NeededBy,
       MakesIn, Excused, Kept, Careless, AssertsOnly, Doomed, Nothing
<1>5. \A n \in DOMAIN P : Ok(n)
  BY <1>1, <1>4
<1>6. MakesOnce(P)
  BY <1>1, StepFields DEF MakesOnce, MakesIn
<1>7. QED
  BY <1>1, <1>2, <1>5, <1>6 DEF Disciplined, P

LEMMA LibUsbFollows == \E O : Disciplined("libusb", LibUsb, O)
<1> DEFINE h == {<<"context", Nothing>>}
           O == << {}, h, {} >>
           P == LibUsb
           Ok(n) == Obeys("libusb", P, O, n)
<1>1. /\ DOMAIN P = 1..3 /\ P[1] = Make("context", Nothing, Exit("1"))
      /\ P[2] = Free("context") /\ P[3] = End("0")
  BY DEF LibUsb, Handle
<1>2. /\ O[1] = {} /\ O[2] = h /\ O[3] = {}
  OBVIOUS
<1> HIDE DEF O, P
<1>3. ToleratedBy("libusb") = {}
  BY DEF ToleratedBy, Tolerated
<1>4. Ok(1) /\ Ok(2) /\ Ok(3)
  BY <1>1, <1>2, <1>3, StepFields, FailureFields DEF Obeys, Succeeds, Fails, Leads, Among, NeededBy,
       MakesIn, Excused, Kept, Careless, AssertsOnly, Doomed, Nothing
<1>5. \A n \in DOMAIN P : Ok(n)
  BY <1>1, <1>4
<1>6. MakesOnce(P)
  BY <1>1, StepFields DEF MakesOnce, MakesIn
<1>7. QED
  BY <1>1, <1>2, <1>5, <1>6 DEF Disciplined, P

LEMMA LibVplFollows == \E O : Disciplined("libvpl", LibVpl, O)
<1> DEFINE h == {<<"loader", Nothing>>}
           O == << {}, h, {} >>
           P == LibVpl
           Ok(n) == Obeys("libvpl", P, O, n)
<1>1. /\ DOMAIN P = 1..3 /\ P[1] = Make("loader", Nothing, Exit("1"))
      /\ P[2] = Free("loader") /\ P[3] = End("0")
  BY DEF LibVpl, Handle
<1>2. /\ O[1] = {} /\ O[2] = h /\ O[3] = {}
  OBVIOUS
<1> HIDE DEF O, P
<1>3. ToleratedBy("libvpl") = {}
  BY DEF ToleratedBy, Tolerated
<1>4. Ok(1) /\ Ok(2) /\ Ok(3)
  BY <1>1, <1>2, <1>3, StepFields, FailureFields DEF Obeys, Succeeds, Fails, Leads, Among, NeededBy,
       MakesIn, Excused, Kept, Careless, AssertsOnly, Doomed, Nothing
<1>5. \A n \in DOMAIN P : Ok(n)
  BY <1>1, <1>4
<1>6. MakesOnce(P)
  BY <1>1, StepFields DEF MakesOnce, MakesIn
<1>7. QED
  BY <1>1, <1>2, <1>5, <1>6 DEF Disciplined, P

LEMMA AllFollow == \A p \in DOMAIN Programs : \E O : Disciplined(p, Programs[p], O)
<1>1. DOMAIN Programs =
        {"ryml", "yoga", "libusb", "libvpl", "graphite", "libmodbus", "fluidsynth",
         "mpg123", "unarr", "subversion", "alibaba", "alibaba_old", "embedresource",
         "gobject", "luajit", "lua", "duckdb", "leveldb", "rocksdb", "libaec",
         "unixodbc", "ryu", "tomlplusplus", "minc", "gmime", "treesitter", "duktape",
         "hdrhistogram", "python"}
  BY DEF Programs
<1>2. /\ Programs["ryml"] = Ryml /\ Programs["yoga"] = Yoga /\ Programs["libusb"] = LibUsb
      /\ Programs["libvpl"] = LibVpl /\ Programs["graphite"] = Graphite
      /\ Programs["libmodbus"] = LibModbus /\ Programs["fluidsynth"] = FluidSynth
      /\ Programs["mpg123"] = Mpg123 /\ Programs["unarr"] = Unarr
      /\ Programs["subversion"] = Subversion /\ Programs["alibaba"] = AlibabaOss(FALSE)
      /\ Programs["alibaba_old"] = AlibabaOss(TRUE)
      /\ Programs["embedresource"] = EmbedResource /\ Programs["gobject"] = GObject
      /\ Programs["luajit"] = LuaJit /\ Programs["lua"] = Lua /\ Programs["duckdb"] = DuckDb
      /\ Programs["leveldb"] = LevelDb /\ Programs["rocksdb"] = RocksDb
      /\ Programs["libaec"] = LibAec /\ Programs["unixodbc"] = UnixOdbc
      /\ Programs["ryu"] = Ryu /\ Programs["tomlplusplus"] = TomlPlusPlus
      /\ Programs["minc"] = Minc /\ Programs["gmime"] = Gmime
      /\ Programs["treesitter"] = TreeSitter /\ Programs["duktape"] = Duktape
      /\ Programs["hdrhistogram"] = HdrHistogram /\ Programs["python"] = Python
  BY DEF Programs
<1>3. QED
  BY <1>1, <1>2, RymlFollows, YogaFollows, LibUsbFollows, LibVplFollows, GraphiteFollows,
     LibModbusFollows, FluidSynthFollows, Mpg123Follows, UnarrFollows, SubversionFollows,
     AlibabaOssFollows, OldAlibabaOssFollows, EmbedResourceFollows, GObjectFollows,
     LuaJitFollows, LuaFollows, DuckDbFollows, LevelDbFollows, RocksDbFollows,
     LibAecFollows, UnixOdbcFollows, RyuFollows, TomlPlusPlusFollows, MincFollows,
     GmimeFollows, TreeSitterFollows, DuktapeFollows, HdrHistogramFollows, PythonFollows

(* What a program holds before each of its steps if no call failed. *)
Owned == [p \in DOMAIN Programs |-> CHOOSE O : Disciplined(p, Programs[p], O)]
Loose == prog \in Careless \/ (ndebug /\ prog \in AssertsOnly)

SmokeInv ==
  /\ prog \in DOMAIN Programs /\ ndebug \in BOOLEAN /\ at \in DOMAIN Programs[prog]
  /\ held \subseteq Owned[prog][at] /\ (Loose \/ held = Owned[prog][at])
  /\ \A h \in Owned[prog][at] : h \in held \/ Unmade(h[1])
  /\ InnerFirst
  /\ exit = "misuse" => Loose /\ Unmade(Needs)
  /\ exit = "0" => at \notin Doomed(prog) /\ \A h \in held : h[1] \in Kept
  /\ ~ndebug /\ exit \in {"running", "0"} =>
        \/ failed \subseteq ToleratedBy(prog)
        \/ at \in Doomed(prog)
        \/ Running /\ Lacks

LEMMA OwnedFollows ==
  ASSUME prog \in DOMAIN Programs
  PROVE  Disciplined(prog, Programs[prog], Owned[prog])
BY AllFollow DEF Owned

LEMMA SmokeStart == SmokeInit => SmokeInv
<1> SUFFICES ASSUME SmokeInit PROVE SmokeInv
  OBVIOUS
<1>1. Disciplined(prog, Programs[prog], Owned[prog])
  BY OwnedFollows DEF SmokeInit
<1>2. 1 \in DOMAIN Programs[prog] /\ Owned[prog][1] = {}
  BY <1>1 DEF Disciplined
<1>3. QED
  BY <1>2 DEF SmokeInit, SmokeInv, InnerFirst

(* One step of a program. *)
LEMMA SmokeStep ==
  ASSUME SmokeInv, SmokeNext
  PROVE  SmokeInv'
<1> DEFINE P == Programs[prog]
           O == Owned[prog]
           s == P[at]
           Worked == \/ ndebug \/ failed \subseteq ToleratedBy(prog) \/ at \in Doomed(prog)
<1>0. /\ prog \in DOMAIN Programs /\ ndebug \in BOOLEAN /\ at \in DOMAIN P
      /\ held \subseteq O[at] /\ (Loose \/ held = O[at])
      /\ \A h \in O[at] : h \in held \/ Unmade(h[1])
      /\ InnerFirst
      /\ ndebug \/ failed \subseteq ToleratedBy(prog) \/ at \in Doomed(prog) \/ Lacks
  BY DEF SmokeInv, SmokeNext, Succeed, Fail, Misuse, Release, Leave, Running
<1>1. Succeeds(prog, P, O, at) /\ Fails(prog, P, O, at)
  BY <1>0, OwnedFollows DEF Disciplined, Obeys
<1>2. Here = s /\ prog' = prog /\ ndebug' = ndebug /\ Running
  BY DEF Here, SmokeNext, Succeed, Fail, Misuse, Release, Leave
<1>3. /\ P' = P /\ O' = O /\ Doomed(prog)' = Doomed(prog) /\ (Loose' <=> Loose)
      /\ ToleratedBy(prog)' = ToleratedBy(prog)
  BY <1>2 DEF Doomed, Loose, ToleratedBy
<1>4. /\ InnerFirst <=> \A h \in held : Among(h[2], held) \/ Excused(prog, h)
      /\ InnerFirst' <=> \A h \in held' : Among(h[2], held') \/ Excused(prog, h)
      /\ Lacks <=> ~Among(NeededBy(s), held)
      /\ Needs = NeededBy(s)
  BY <1>2 DEF InnerFirst, Has, Among, Lacks, Needs, NeededBy, Excused
<1>5. \A x : (Unmade(x) <=> UnmadeIn(P, x, failed)) /\ (Unmade(x)' <=> UnmadeIn(P, x, failed'))
  BY <1>2 DEF Unmade, UnmadeIn, Makes, MakesIn
<1>6. MakesOnce(P)
  BY <1>0, OwnedFollows DEF Disciplined
<1>7. \A h \in O[at] : h \in held \/ Unmade(h[1])'
  <2>1. failed \subseteq failed'
    BY DEF SmokeNext, Succeed, Fail, Misuse, Release, Leave
  <2>2. QED
    BY <1>0, <1>5, <2>1 DEF UnmadeIn
<1> HIDE DEF P, O, s
<1>8. CASE Succeed
  <2>1. /\ s.do \in {"make", "call"} /\ Among(NeededBy(s), held) /\ at' = at + 1
        /\ held' = IF s.do = "make" THEN held \union {<<s.on, s.from>>} ELSE held
        /\ failed' = failed /\ exit' = "running"
    BY <1>2, <1>4, <1>8 DEF Succeed, Running
  <2>2. at' \in DOMAIN P /\ (at \in Doomed(prog) => at' \in Doomed(prog))
    BY <1>1, <2>1 DEF Succeeds, Leads, s
  <2>3. held' \subseteq O[at'] /\ (Loose \/ held' = O[at'])
    BY <1>0, <1>1, <2>1 DEF Succeeds, s
  <2>4. \A h \in O[at'] : h \in held' \/ Unmade(h[1])'
    BY <1>1, <1>7, <2>1 DEF Succeeds, s
  <2>5. InnerFirst'
    <3>1. \A r : Among(r, held) => Among(r, held')
      BY <2>1 DEF Among
    <3>2. s.do = "make" => Among(s.from, held)
      BY <2>1 DEF NeededBy
    <3>3. ASSUME NEW h \in held' PROVE Among(h[2], held') \/ Excused(prog, h)
      <4>1. CASE h \in held
        BY <1>0, <1>4, <3>1, <4>1
      <4>2. CASE h \notin held
        <5>1. s.do = "make" /\ h = <<s.on, s.from>>
          BY <2>1, <3>3, <4>2
        <5>2. h[2] = s.from
          BY <5>1
        <5>3. QED
          BY <3>1, <3>2, <5>1, <5>2
      <4>3. QED
        BY <4>1, <4>2
    <3>4. QED
      BY <1>4, <3>3
  <2>6. ndebug \/ failed' \subseteq ToleratedBy(prog) \/ at' \in Doomed(prog)
    BY <1>0, <1>4, <2>1, <2>2
  <2>7. QED
    BY <1>0, <1>2, <1>3, <2>1, <2>2, <2>3, <2>4, <2>5, <2>6 DEF SmokeInv, P, O
<1>9. CASE Fail
  <2>1. /\ Among(NeededBy(s), held) /\ held' = held /\ failed' = failed \union {at}
        /\ \/ s.bad.do = "exit" /\ exit' = s.bad.code /\ at' = at
           \/ s.bad.do = "assert" /\ ~ndebug /\ exit' = "abort" /\ at' = at
           \/ /\ s.bad.do = "on" \/ (s.bad.do = "assert" /\ ndebug)
              /\ at' = at + 1 /\ exit' = "running"
           \/ s.bad.do = "jump" /\ at' = s.bad.to /\ exit' = "running"
    BY <1>2, <1>4, <1>9 DEF Fail, Running
  <2>2. InnerFirst'
    BY <1>0, <1>4, <2>1
  <2>3. CASE exit' # "running"
    <3>1. at' = at /\ exit' \notin {"0", "running", "misuse"}
      BY <1>1, <2>1, <2>3 DEF Fails, s
    <3>2. QED
      BY <1>0, <1>2, <1>3, <1>7, <2>1, <2>2, <3>1 DEF SmokeInv, P, O
  <2>4. CASE exit' = "running"
    <3>1. \/ s.bad.do = "on" /\ at' = at + 1
          \/ s.bad.do = "assert" /\ ndebug /\ at' = at + 1
          \/ s.bad.do = "jump" /\ at' = s.bad.to
      BY <1>1, <2>1, <2>4 DEF Fails, s
    <3>2. at' \in DOMAIN P /\ (at \in Doomed(prog) => at' \in Doomed(prog))
      BY <1>1, <3>1 DEF Fails, Leads, s
    <3>3. held' \subseteq O[at'] /\ (Loose \/ held' = O[at'])
      BY <1>0, <1>1, <2>1, <3>1 DEF Fails, Loose, s
    <3>4. \A h \in O[at'] : h \in held' \/ Unmade(h[1])'
      <4>1. CASE O[at'] = O[at]
        BY <1>7, <2>1, <4>1
      <4>2. CASE O[at'] # O[at]
        <5>1. s.do = "make" /\ O[at'] = O[at] \union {<<s.on, s.from>>}
          BY <1>1, <3>1, <4>2 DEF Fails, Succeeds, s
        <5>2. UnmadeIn(P, s.on, failed')
          BY <1>0, <1>6, <2>1, <5>1 DEF UnmadeIn, MakesOnce, s
        <5>3. \A h : h = <<s.on, s.from>> => h[1] = s.on
          OBVIOUS
        <5>4. QED
          BY <1>5, <1>7, <2>1, <5>1, <5>2, <5>3
      <4>3. QED
        BY <4>1, <4>2
    <3>5. \/ ndebug \/ failed' \subseteq ToleratedBy(prog) \/ at' \in Doomed(prog)
          \/ ~Among(NeededBy(P[at']), held')
      <4>1. ndebug \/ failed \subseteq ToleratedBy(prog) \/ at \in Doomed(prog)
        BY <1>0, <1>4, <2>1
      <4>2. \/ ndebug \/ at \in ToleratedBy(prog) \/ at' \in Doomed(prog)
            \/ ~Among(s.on, O[at]) /\ NeededBy(P[at']) = s.on
        BY <1>1, <3>1 DEF Fails, s
      <4>3. ~Among(s.on, O[at]) => ~Among(s.on, held')
        BY <1>0, <2>1 DEF Among
      <4>4. QED
        BY <2>1, <3>2, <4>1, <4>2, <4>3
    <3>6. Lacks' <=> ~Among(NeededBy(P[at']), held')
      BY <1>2 DEF Lacks, Needs, Has, Here, Among, NeededBy, P
    <3>7. QED
      BY <1>0, <1>2, <1>3, <2>2, <2>4, <3>2, <3>3, <3>4, <3>5, <3>6
         DEF SmokeInv, Running, P, O
  <2>5. QED
    BY <2>3, <2>4
<1>10. CASE Misuse
  <2>1. at' = at /\ held' = held /\ failed' = failed /\ exit' = "misuse" /\ Needs' = Needs
    BY <1>2, <1>10 DEF Misuse, Needs, Here
  <2>2. ~Among(NeededBy(s), held)
    BY <1>4, <1>10 DEF Misuse
  <2>3. Loose
    BY <1>0, <1>1, <2>2 DEF Succeeds, Loose, s
  <2>4. Unmade(Needs)'
    <3>1. CASE Among(NeededBy(s), O[at])
      <4>1. PICK h \in O[at] : h[1] = NeededBy(s)
        BY <2>2, <3>1 DEF Among
      <4>2. h \notin held
        BY <2>2, <4>1 DEF Among
      <4>3. QED
        BY <1>4, <1>5, <1>7, <2>1, <4>1, <4>2
    <3>2. CASE ~Among(NeededBy(s), O[at])
      <4>1. UnmadeIn(P, NeededBy(s), failed')
        BY <1>1, <3>2 DEF Succeeds, UnmadeIn, s
      <4>2. QED
        BY <1>4, <1>5, <2>1, <4>1
    <3>3. QED
      BY <3>1, <3>2
  <2>5. QED
    BY <1>0, <1>2, <1>3, <1>4, <1>7, <2>1, <2>3, <2>4 DEF SmokeInv, P, O
<1>11. CASE Release
  <2>1. /\ s.do = "free" /\ Among(NeededBy(s), held) /\ at' = at + 1
        /\ held' = {h \in held : h[1] # s.on} /\ failed' = failed /\ exit' = "running"
    BY <1>2, <1>4, <1>11 DEF Release, Running
  <2>2. at' \in DOMAIN P /\ (at \in Doomed(prog) => at' \in Doomed(prog))
    BY <1>1, <2>1 DEF Succeeds, Leads, s
  <2>3. /\ O[at'] = {h \in O[at] : h[1] # s.on}
        /\ \A h \in O[at] : h[2] = s.on => Excused(prog, h)
    BY <1>1, <2>1 DEF Succeeds, s
  <2>4. held' \subseteq O[at'] /\ (Loose \/ held' = O[at'])
    BY <1>0, <2>1, <2>3
  <2>5. \A h \in O[at'] : h \in held' \/ Unmade(h[1])'
    BY <1>7, <2>1, <2>3
  <2>6. InnerFirst'
    <3>1. ASSUME NEW h \in held' PROVE Among(h[2], held') \/ Excused(prog, h)
      <4>1. h \in held /\ (h[2] # s.on \/ Excused(prog, h))
        BY <1>0, <2>1, <2>3, <3>1
      <4>2. Among(h[2], held) \/ Excused(prog, h)
        BY <1>0, <1>4, <4>1
      <4>3. QED
        BY <2>1, <4>1, <4>2 DEF Among
    <3>2. QED
      BY <1>4, <3>1
  <2>7. ndebug \/ failed' \subseteq ToleratedBy(prog) \/ at' \in Doomed(prog)
    BY <1>0, <1>4, <2>1, <2>2
  <2>8. QED
    BY <1>0, <1>2, <1>3, <2>1, <2>2, <2>4, <2>5, <2>6, <2>7 DEF SmokeInv, P, O
<1>12. CASE Leave
  <2>1. /\ s.do \in {"back", "end"} /\ held' = held /\ failed' = failed
        /\ IF s.do = "back" THEN at' = s.from /\ exit' = "running" ELSE exit' = s.from /\ at' = at
    BY <1>2, <1>12 DEF Leave, Running
  <2>2. InnerFirst'
    BY <1>0, <1>4, <2>1
  <2>3. ~Lacks
    BY <1>1, <1>4, <2>1 DEF Among, NeededBy, Succeeds, s
  <2>4. CASE s.do = "back"
    <3>1. at' \in DOMAIN P /\ O[at'] = O[at] /\ (at \in Doomed(prog) => at' \in Doomed(prog))
      BY <1>1, <2>1, <2>4 DEF Succeeds, Leads, s
    <3>2. QED
      BY <1>0, <1>2, <1>3, <1>7, <2>1, <2>2, <2>3, <2>4, <3>1 DEF SmokeInv, P, O
  <2>5. CASE s.do = "end"
    <3>1. /\ at' = at /\ exit' = s.from /\ s.from \notin {"running", "misuse"}
          /\ s.from = "0" => at \notin Doomed(prog) /\ \A h \in O[at] : h[1] \in Kept
      BY <1>1, <2>1, <2>5 DEF Succeeds, s
    <3>2. QED
      BY <1>0, <1>2, <1>3, <1>7, <2>1, <2>2, <2>3, <3>1 DEF SmokeInv, P, O
  <2>6. QED
    BY <2>1, <2>4, <2>5
<1>13. QED
  BY <1>8, <1>9, <1>10, <1>11, <1>12 DEF SmokeNext

LEMMA SmokeInvCorrect == SmokeInv => SmokeCorrect
BY DEF SmokeInv, SmokeCorrect, ZeroMeansWorked, UsesWhatItHas, ReleasedAtZero, Loose, Running

(* On every path of every one of the programs, whatever calls fail: the exit
   code of a debug build is honest, nothing is used after its release, only the
   programs named in SmokePrograms use what they failed to make, and objects
   end inside out, but for RocksDB's directory. *)
THEOREM ProgramsAreCorrect == SmokeSpec => []SmokeCorrect
<1>1. SmokeInv /\ UNCHANGED pvars => SmokeInv'
  <2> SUFFICES ASSUME SmokeInv, UNCHANGED pvars PROVE SmokeInv'
    OBVIOUS
  <2>1. /\ prog' = prog /\ ndebug' = ndebug /\ at' = at /\ held' = held
        /\ failed' = failed /\ exit' = exit
    BY DEF pvars
  <2>2. /\ (Lacks' <=> Lacks) /\ (InnerFirst' <=> InnerFirst) /\ (Loose' <=> Loose)
        /\ Needs' = Needs
    BY <2>1 DEF Lacks, Needs, Has, Here, InnerFirst, Loose
  <2>3. Doomed(prog)' = Doomed(prog) /\ ToleratedBy(prog)' = ToleratedBy(prog)
    BY <2>1 DEF Doomed, ToleratedBy
  <2>4. \A r : Unmade(r)' <=> Unmade(r)
    BY <2>1 DEF Unmade, Makes
  <2>5. QED
    BY <2>1, <2>2, <2>3, <2>4 DEF SmokeInv, Running
<1>2. QED
  BY <1>1, SmokeStart, SmokeStep, SmokeInvCorrect, PTL DEF SmokeSpec

(*-------------------------------- the sum ---------------------------------*)

LEMMA SumStep ==
  [TestNext]_tvars => /\ [Next]_vars /\ [WindowNext]_wvars
                      /\ [ScaleNext]_svars /\ [Base64Next]_bvars /\ [SmokeNext]_pvars
BY DEF TestNext, tvars

(* Each program of the sum does what it does alone: the steps of the others
   leave it where it is. *)
THEOREM SumOfPrograms == TestSpec => Spec /\ WindowSpec /\ ScaleSpec /\ Base64Spec /\ SmokeSpec
<1>1. TestInit => Init /\ WindowInit /\ ScaleInit /\ Base64Init /\ SmokeInit
  BY DEF TestInit
<1>2. QED
  BY <1>1, SumStep, PTL DEF TestSpec, Spec, WindowSpec, ScaleSpec, Base64Spec, SmokeSpec

(* What is proved of the programs holds in the sum that TLC runs. *)
THEOREM SumIsCorrect ==
  TestSpec => /\ [](NoDangling /\ FramesForCause /\ SinkCalls)
              /\ [](FollowsWindow /\ FaultsForCause) /\ SteadyTexture
              /\ [](ScaleCorrect /\ Base64Correct /\ SmokeCorrect)
BY SumOfPrograms, NothingDangles, FramesAreEarned, SinksAreCalledOnce, SurfaceFollows,
   FaultsHaveCause, TextureIsSteady, ScaleIsCorrect, TablesAreCorrect, ProgramsAreCorrect, PTL
=============================================================================
