---------------------------- MODULE Base64Tables ----------------------------
(* The tables of ports/modp-base64/modp_b64_data.h, entry by entry as they   *)
(* depend on their index, in both byte orders.  The loop that uses them is   *)
(* modp_b64.c, which the port downloads: three bytes are written as four     *)
(* characters, and four characters are looked up, joined by "or", compared   *)
(* with BADCHAR and stored as they lie in memory.  A byte, an index below 64 *)
(* and a word are the sets of their bits that are set; a character is its    *)
(* code.                                                                     *)
EXTENDS Integers

Byte == SUBSET (0..7)
Six == SUBSET (0..5)

CONSTANTS
  Blocks,     \* blocks of three bytes that are encoded
  Characters  \* characters that damage a code

ASSUME Base64Assumption ==
  /\ Blocks \subseteq Byte \X Byte \X Byte
  /\ Characters \subseteq 0..255

VARIABLES
  words,    \* WORDS_BIGENDIAN, as the machine has it
  block,    \* three bytes
  code,     \* four characters, or none yet
  damaged,  \* history: a character was replaced
  decoded   \* the bytes that came out, Bad, or nothing yet

Bad == << "bad" >>
bvars == <<words, block, code, damaged, decoded>>

(* w << k, w >> k and the lowest k bits of w. *)
Up(w, k) == {n + k : n \in w}
Down(w, k) == {n - k : n \in w \ 0..(k - 1)}
Low(w, k) == w \intersect 0..(k - 1)

Bit(v, n, weight) == IF n \in v THEN weight ELSE 0
Number(v) == Bit(v, 0, 1) + Bit(v, 1, 2) + Bit(v, 2, 4) + Bit(v, 3, 8) + Bit(v, 4, 16) + Bit(v, 5, 32)

(* CHAR62, CHAR63 and the letters and digits before them. *)
Char(n) == IF n < 26 THEN 65 + n ELSE IF n < 52 THEN 97 + n - 26
           ELSE IF n < 62 THEN 48 + n - 52 ELSE IF n = 62 THEN 43 ELSE 47
Alphabet == [v \in Six |-> Char(Number(v))]
Letters == {Alphabet[v] : v \in Six}
Value(c) == CHOOSE v \in Six : Alphabet[v] = c

e0 == [b \in Byte |-> Alphabet[Down(b, 2)]]
e1 == [b \in Byte |-> Alphabet[Low(b, 6)]]
e2 == [b \in Byte |-> Alphabet[Low(b, 6)]]

BadChar == 0..24   \* 0x01ffffff
Table(entry) == [c \in 0..255 |-> IF c \in Letters THEN entry[Value(c)] ELSE BadChar]

bigd0 == Table([v \in Six |-> Up(v, 18)])
bigd1 == Table([v \in Six |-> Up(v, 12)])
bigd2 == Table([v \in Six |-> Up(v, 6)])
bigd3 == Table([v \in Six |-> v])

(* Mutant: the table of the second character. *)
d1Swapped == Table([v \in Six |-> Down(v, 4) \union Up(Low(v, 4), 10)])
d0 == Table([v \in Six |-> Up(v, 2)])
d1 == Table([v \in Six |-> Down(v, 4) \union Up(Low(v, 4), 12)])
d2 == Table([v \in Six |-> Up(Down(v, 2), 8) \union Up(Low(v, 2), 22)])
d3 == Table([v \in Six |-> Up(v, 16)])

Base64Init ==
  /\ words \in {"big", "little"} /\ block \in Blocks
  /\ code = <<>> /\ damaged = FALSE /\ decoded = <<>>

Encoded(b) ==
  << e0[b[1]],
     e1[Up(Low(b[1], 2), 4) \union Down(b[2], 4)],
     e1[Up(Low(b[2], 4), 2) \union Down(b[3], 6)],
     e2[b[3]] >>

Encode ==
  /\ code = <<>> /\ code' = Encoded(block)
  /\ UNCHANGED <<words, block, damaged, decoded>>

(* What is decoded need not be what was encoded. *)
Damage(k, c) ==
  /\ code # <<>> /\ ~damaged /\ decoded = <<>> /\ c # code[k]
  /\ code' = [code EXCEPT ![k] = c] /\ damaged' = TRUE
  /\ UNCHANGED <<words, block, decoded>>

(* The four entries joined, and the bytes of the word as they lie in memory:
   the first three, or, where the high byte comes first, the three after it. *)
Word(c) ==
  IF words = "big" THEN bigd0[c[1]] \union bigd1[c[2]] \union bigd2[c[3]] \union bigd3[c[4]]
  ELSE d0[c[1]] \union d1[c[2]] \union d2[c[3]] \union d3[c[4]]
ByteOf(w, k) == Low(Down(w, 8 * k), 8)
Stored(w) ==
  IF words = "big" THEN << ByteOf(w, 2), ByteOf(w, 1), ByteOf(w, 0) >>
  ELSE << ByteOf(w, 0), ByteOf(w, 1), ByteOf(w, 2) >>

(* w >= BADCHAR. *)
IsBad(w) == BadChar \subseteq w \/ \E n \in w : n > 24
Decoded(c) == IF IsBad(Word(c)) THEN Bad ELSE Stored(Word(c))

Decode ==
  /\ code # <<>> /\ decoded = <<>> /\ decoded' = Decoded(code)
  /\ UNCHANGED <<words, block, code, damaged>>

Base64Next == Encode \/ Decode \/ \E k \in 1..4, c \in Characters : Damage(k, c)
Base64Spec == Base64Init /\ [][Base64Next]_bvars

(*------------------------------- properties -------------------------------*)
(* Decoding gives the bytes that were encoded, in both byte orders. *)
RoundTrip == code # <<>> /\ ~damaged /\ decoded # <<>> => decoded = block

(* A character outside the alphabet, at any of the four places, is detected:
   no "or" of table entries hides it, and none reports it by mistake. *)
BadCharDetected ==
  decoded # <<>> => (decoded = Bad <=> \E k \in 1..4 : code[k] \notin Letters)

(* Two codes that decode are not mistaken for one another. *)
DamageShows == damaged /\ decoded # <<>> => decoded # block

(* The eleven tables belong together: what they encode they decode, and they
   decode nothing else and nothing to the same bytes, in both byte orders. *)
Base64Correct == RoundTrip /\ BadCharDetected /\ DamageShows
=============================================================================
