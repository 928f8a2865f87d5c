------------------------------- MODULE Mlx90614 -------------------------------
(***************************************************************************)
(* The MLX90614's SMBus protocol, as sensors/mlx90614/mlx90614.c reads it: *)
(* a word and a checksum (PEC) over the whole exchange.  A byte or a word  *)
(* is the set of the numbers of its bits that are 1.                       *)
(***************************************************************************)
EXTENDS Integers, Sequences, FiniteSetsExt

RAM_TA    == {1, 2}             \* 0x06
RAM_TOBJ1 == {0, 1, 2}          \* 0x07
ADDR_W    == {2, 4, 5, 7}       \* 0x5A << 1
ADDR_R    == ADDR_W \cup {0}
ERROR_FLAG == 15

Value(w)  == MapThenSumSet(LAMBDA i : 2 ^ i, w)
LowByte(w)  == w \cap 0 .. 7
HighByte(w) == {i - 8 : i \in w \cap 8 .. 15}
Word(lo, hi) == lo \cup {i + 8 : i \in hi}

-----------------------------------------------------------------------------
(* One of the eight rounds of crc8: shift, and subtract the polynomial     *)
(* 0x07 if a bit fell out.                                                 *)
Round(crc) ==
  LET shifted == {i + 1 : i \in crc \ {7}}
  IN  IF 7 \in crc THEN SymDiff(shifted, {0, 1, 2}) ELSE shifted

crc8(crc, data) ==
  LET round[i \in 0 .. 8] == IF i = 0 THEN SymDiff(crc, data) ELSE Round(round[i - 1])
  IN  round[8]

Unchecked(cmd, rx) == {Word(rx[1], rx[2])}

(* The word, or nothing if the checksum does not fit (-EIO). *)
smbus_read_word(cmd, rx) ==
  IF crc8(crc8(crc8(crc8(crc8({}, ADDR_W), cmd), ADDR_R), rx[1]), rx[2]) = rx[3]
  THEN {Word(rx[1], rx[2])} ELSE {}

(* Hundredths of a degree; the raw value counts fiftieths of a kelvin. *)
CentiC(raw) == 2 * Value(raw) - 27315

-----------------------------------------------------------------------------
(* The sensor's side.  The PEC is the remainder of the message, seen as a  *)
(* polynomial over GF(2) and multiplied by x^8, by x^8 + x^2 + x + 1.      *)
Message(bytes) ==
  UNION {{8 * (Len(bytes) - k) + i : i \in bytes[k]} : k \in DOMAIN bytes}

WithoutTerm(poly, d) ==   \* the multiple of the divisor with that term goes
  IF d \in poly THEN SymDiff(poly, {d, d - 6, d - 7, d - 8}) ELSE poly

Remainder(poly, degree) ==
  LET left[k \in 0 .. degree - 7] ==   \* after k terms from the top
        IF k = 0 THEN poly ELSE WithoutTerm(left[k - 1], degree - (k - 1))
  IN  left[degree - 7]

Pec(bytes) == Remainder({i + 8 : i \in Message(bytes)}, 8 * Len(bytes) + 7)

(* What the sensor answers to command cmd, asked for word w, *)
Reply(cmd, w) ==
  <<LowByte(w), HighByte(w), Pec(<<ADDR_W, cmd, ADDR_R, LowByte(w), HighByte(w)>>)>>

(* and the same with the e-th bits on the wire inverted: each byte goes    *)
(* out most significant bit first.                                         *)
ErrorByte(e, k) == {8 * k - 1 - i : i \in e \cap 8 * (k - 1) .. 8 * k - 1}
Garbled(rx, e)  == [k \in 1 .. 3 |-> SymDiff(rx[k], ErrorByte(e, k))]

(* The errors that are considered on the bus: up to eight bits in a row,   *)
(* and any two bits, of the 24 that go over the wire.                      *)
BurstError(e) == \E s \in 0 .. 23 : e \subseteq s .. s + 7
PairError(e)  == \E i, j \in 0 .. 23 : e = {i, j}

=============================================================================
