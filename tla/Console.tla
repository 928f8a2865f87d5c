-------------------------------- MODULE Console --------------------------------
(***************************************************************************)
(* The base station's console: the dialogue of config_mode.c key by key,   *)
(* the numbers it parses and prints, and the temperatures that main prints *)
(* and compares in normal mode (remote_pico_display.c, and the conversions *)
(* of the remote_pico driver).                                             *)
(*                                                                         *)
(* A line is a sequence of characters, since what it says is the point.    *)
(* INT32_MAX, ULONG_MAX and the upper limits are scaled down.  A signed    *)
(* overflow, undefined in C, is taken to wrap.  A printed number is kept   *)
(* as the two numbers of its "%d.%02d".                                    *)
(***************************************************************************)
EXTENDS Integers, Sequences, FiniteSetsExt, SequencesExt

CONSTANTS
  Chars,               \* printable characters a user may type
  LineMax,             \* LINE_BUF_LEN - 1
  IntMax, ULongMax,    \* INT32_MAX, ULONG_MAX
  GateMax, DelayMax,   \* 15, UINT16_MAX
  DefaultThreshold,
  Temps,               \* temperatures in the snapshot, in hundredths
  MaxLines             \* bound: lines entered

ASSUME ConsoleAssumption ==
  /\ LineMax \in Nat /\ IntMax \in Nat /\ ULongMax \in Nat /\ MaxLines \in Nat
  /\ GateMax \in 0 .. ULongMax /\ DelayMax \in 0 .. ULongMax
  /\ DefaultThreshold \in 0 .. IntMax /\ Temps \subseteq -IntMax .. IntMax

VARIABLES
  prompt,                     \* where read_line was called; "left": normal mode
  buf, screen,                \* read_line's buffer; what the terminal shows of it
  threshold, current,         \* the fire threshold; the menu's copies
  measured, printed,          \* snapshot: a temperature, and what is shown of it
  lines

vars == <<prompt, buf, screen, threshold, current, measured, printed, lines>>

-----------------------------------------------------------------------------
(* C arithmetic: division towards zero, numbers that wrap. *)
Magnitude(n) == IF n < 0 THEN -n ELSE n
CDiv(a, b) == IF a < 0 THEN -((-a) \div b) ELSE a \div b
CMod(a, b) == a - b * CDiv(a, b)
Wrapped(n) == ((n + IntMax + 1) % (2 * (IntMax + 1))) - (IntMax + 1)

(* Characters.  *)
Numerals == <<"0", "1", "2", "3", "4", "5", "6", "7", "8", "9">>
Digits   == {"0", "1", "2", "3", "4", "5", "6", "7", "8", "9"}
DigitOf  == [c \in Digits |-> CHOOSE n \in 0 .. 9 : c = Numerals[n + 1]]

Decimal(s) ==
  LET upto[n \in 0 .. Len(s)] == IF n = 0 THEN 0 ELSE 10 * upto[n - 1] + DigitOf[s[n]]
  IN  upto[Len(s)]

At(s, p) == IF p <= Len(s) THEN s[p] ELSE "end"
Past(s, p, S) == Min({q \in p .. Len(s) + 1 : At(s, q) \notin S})
AfterSign(s, p) == IF At(s, p) \in {"-", "+"} THEN p + 1 ELSE p

(* parse_centi_c: no value (-EINVAL, -ERANGE), or one.  The check for      *)
(* -ERANGE comes before each further digit.                                *)
Unpadded(s) ==
  LET sign  == Past(s, 1, {" "})
      int   == AfterSign(s, sign)
      dot   == Past(s, int, Digits)
      point == IF At(s, dot) = "." THEN dot + 1 ELSE dot
      tail  == IF At(s, dot) = "." THEN Past(s, point, Digits) ELSE dot
      fdigits == SubSeq(s, point, Min({tail - 1, point + 1}))
      value == Wrapped(100 * Decimal(SubSeq(s, int, dot - 1)) + Decimal(fdigits))
  IN  IF \/ dot = int
         \/ Decimal(SubSeq(s, int, dot - 2)) > IntMax \div 100
         \/ Past(s, tail, {" "}) <= Len(s)
      THEN {} ELSE {IF At(s, sign) = "-" THEN Wrapped(-value) ELSE value}

parse_centi_c(s) ==
  LET sign  == Past(s, 1, {" "})
      int   == AfterSign(s, sign)
      dot   == Past(s, int, Digits)
      point == IF At(s, dot) = "." THEN dot + 1 ELSE dot
      tail  == IF At(s, dot) = "." THEN Past(s, point, Digits) ELSE dot
      fdigits == SubSeq(s, point, Min({tail - 1, point + 1}))
      frac  == Decimal(fdigits) * <<100, 10, 1>>[Len(fdigits) + 1]
      value == Wrapped(100 * Decimal(SubSeq(s, int, dot - 1)) + frac)
  IN  IF \/ dot = int
         \/ Decimal(SubSeq(s, int, dot - 2)) > IntMax \div 100
         \/ Past(s, tail, {" "}) <= Len(s)
      THEN {} ELSE {IF At(s, sign) = "-" THEN Wrapped(-value) ELSE value}

TrailingText(s, min, max) ==
  LET sign  == Past(s, 1, {" "})
      int   == AfterSign(s, sign)
      end   == Past(s, int, Digits)
      n     == Decimal(SubSeq(s, int, end - 1))
      value == IF At(s, sign) = "-" THEN (-n) % (ULongMax + 1) ELSE n
  IN  IF end = int \/ n > ULongMax \/ value < min \/ value > max THEN {} ELSE {value}

(* parse_u32_range: strtoul takes a sign, and negates within the type.     *)
parse_u32_range(s, min, max) ==
  LET sign  == Past(s, 1, {" "})
      int   == AfterSign(s, sign)
      end   == Past(s, int, Digits)
      n     == Decimal(SubSeq(s, int, end - 1))
      value == IF At(s, sign) = "-" THEN (-n) % (ULongMax + 1) ELSE n
  IN  IF end = int \/ n > ULongMax \/ Past(s, end, {" "}) <= Len(s) \/ value < min \/ value > max
      THEN {} ELSE {value}

SignedFraction(centi_c) == [whole |-> CDiv(centi_c, 100), frac |-> CMod(centi_c, 100)]

print_threshold(centi_c) ==
  [whole |-> CDiv(centi_c, 100), frac |-> Magnitude(CMod(centi_c, 100))]

(* A struct sensor_value counts whole degrees and millionths. *)
centi_c_to_sv(centi_c) == [val1 |-> CDiv(centi_c, 100), val2 |-> CMod(centi_c, 100) * 10000]
sensor_value_to_centi_c(v) == 100 * v.val1 + CDiv(v.val2, 10000)

print_temp(v) == [whole |-> v.val1, frac |-> Magnitude(CDiv(v.val2, 10000))]

-----------------------------------------------------------------------------
Init ==
  /\ prompt = "left" /\ buf = <<>> /\ screen = <<>>
  /\ threshold = DefaultThreshold /\ current = [gate |-> 5, absence |-> 5]
  /\ measured = 0 /\ printed = print_temp(centi_c_to_sv(0))
  /\ lines = 0

Typing  == prompt # "left" /\ lines < MaxLines
Dialogue(p) == prompt' = p /\ buf' = <<>> /\ screen' = <<>>

EchoFirst ==
  /\ Typing
  /\ Len(screen) < LineMax + 1
  /\ \E c \in Chars :
       /\ screen' = Append(screen, c)
       /\ buf' = IF Len(buf) < LineMax THEN Append(buf, c) ELSE buf
  /\ UNCHANGED <<prompt, threshold, current, measured, printed, lines>>

NoRoomForZero ==
  /\ Typing
  /\ Len(buf) <= LineMax
  /\ \E c \in Chars : buf' = Append(buf, c) /\ screen' = Append(screen, c)
  /\ UNCHANGED <<prompt, threshold, current, measured, printed, lines>>

(* read_line: a character is stored and echoed if there is room, *)
TypeChar ==
  /\ Typing
  /\ Len(buf) < LineMax
  /\ \E c \in Chars : buf' = Append(buf, c) /\ screen' = Append(screen, c)
  /\ UNCHANGED <<prompt, threshold, current, measured, printed, lines>>

(* a backspace takes one back, *)
Backspace ==
  /\ Typing
  /\ buf # <<>>
  /\ buf' = Front(buf) /\ screen' = Front(screen)
  /\ UNCHANGED <<prompt, threshold, current, measured, printed, lines>>

(* and a request to leave ends the prompt: a question returns to the menu, *)
(* the menu to main.                                                       *)
LeavePrompt ==
  /\ prompt # "left"
  /\ Dialogue(IF prompt = "menu" THEN "left" ELSE "menu")
  /\ UNCHANGED <<threshold, current, measured, printed, lines>>

(* The line is complete. *)
Return(p) == Typing /\ prompt = p /\ lines' = lines + 1 /\ UNCHANGED <<measured, printed>>

config_mode_run ==
  /\ Return("menu")
  /\ Dialogue(CASE At(buf, 1) = "1" -> "threshold"
                [] At(buf, 1) = "2" -> "gate"
                [] At(buf, 1) = "3" -> "delay"
                [] At(buf, 1) \in {"q", "Q"} -> "left"
                [] OTHER -> "menu")
  /\ UNCHANGED <<threshold, current>>

(* A value that cannot be parsed, or not be sent, leaves things alone. *)
configure_threshold ==
  /\ Return("threshold") /\ Dialogue("menu")
  /\ threshold' \in {threshold} \cup parse_centi_c(buf)
  /\ UNCHANGED current

configure_max_gate ==
  /\ Return("gate") /\ Dialogue("menu")
  /\ \E g \in {current.gate} \cup parse_u32_range(buf, 0, GateMax) :
       current' = [current EXCEPT !.gate = g]
  /\ UNCHANGED threshold

configure_absence_delay ==
  /\ Return("delay") /\ Dialogue("menu")
  /\ \E s \in {current.absence} \cup parse_u32_range(buf, 0, DelayMax) :
       current' = [current EXCEPT !.absence = s]
  /\ UNCHANGED threshold

EnterMenu ==
  /\ prompt = "left" /\ Dialogue("menu")
  /\ UNCHANGED <<threshold, current, measured, printed, lines>>

(* remote_pico_print_sensor_snapshot, as far as it prints a temperature.   *)
PrintSnapshot ==
  /\ prompt = "left"
  /\ measured' \in Temps
  /\ printed' = print_temp(centi_c_to_sv(measured'))
  /\ UNCHANGED <<prompt, buf, screen, threshold, current, lines>>

Next ==
  \/ TypeChar \/ Backspace \/ LeavePrompt
  \/ config_mode_run \/ configure_threshold \/ configure_max_gate \/ configure_absence_delay
  \/ EnterMenu \/ PrintSnapshot

Spec == Init /\ [][Next]_vars

-----------------------------------------------------------------------------
TypeOK ==
  /\ prompt \in {"left", "menu", "threshold", "gate", "delay"}
  /\ Len(buf) <= LineMax /\ Len(screen) <= LineMax
  /\ threshold \in -IntMax - 1 .. IntMax
  /\ current \in [gate : (0 .. GateMax) \cup {5}, absence : (0 .. DelayMax) \cup {5}]
  /\ measured \in Temps \cup {0} /\ lines \in 0 .. MaxLines

(* What the user sees on the line is what will be parsed, after any        *)
(* number of keys too many and of backspaces.                              *)
ScreenShowsLine == screen = buf

(* What a line says, by the grammar of a number and not by a scan of it:   *)
(* blanks, sign, digits, perhaps a point and digits, blanks.               *)
All(s, S) == \A i \in DOMAIN s : s[i] \in S

Said(s) ==
  LET n == Len(s)
      Cuts == {c \in [1 .. 4 -> 0 .. n] : c[1] <= c[2] /\ c[2] < c[3] /\ c[3] <= c[4]}
      Blank(i, j) == All(SubSeq(s, i, j), {" "})
      Sign(c)  == SubSeq(s, c[1] + 1, c[2])
      Whole(c) == SubSeq(s, c[2] + 1, c[3])
      Frac(c)  == SubSeq(s, c[3] + 1, c[4])
      Fits(c)  == /\ Blank(1, c[1]) /\ Sign(c) \in {<<>>, <<"-">>, <<"+">>}
                  /\ All(Whole(c), Digits)
                  /\ Frac(c) = <<>> \/ (Frac(c)[1] = "." /\ All(Tail(Frac(c)), Digits))
                  /\ Blank(c[4] + 1, n)
      Cents(f) == Decimal(SubSeq(Tail(f) \o <<"0", "0">>, 1, 2))
  IN  {[minus |-> Sign(c) = <<"-">>, whole |-> Decimal(Whole(c)), point |-> Frac(c) # <<>>,
        centi |-> 100 * Decimal(Whole(c)) + IF Frac(c) = <<>> THEN 0 ELSE Cents(Frac(c))] :
        c \in {d \in Cuts : Fits(d)}}

(* The threshold changes only as the answer to its question, and then to   *)
(* the temperature that was typed, cut to hundredths; every temperature    *)
(* can be sent, and nothing else: claimed where a hundred times the whole  *)
(* degrees cannot overflow.                                                *)
Typed(n) == IF n.minus THEN -n.centi ELSE n.centi

ThresholdIsTyped ==
  [][/\ threshold' # threshold => prompt = "threshold"
     /\ configure_threshold =>
          IF Said(buf) = {} THEN parse_centi_c(buf) = {} /\ threshold' = threshold
          ELSE \A n \in Said(buf) :
                 n.whole < IntMax \div 100 =>
                   /\ parse_centi_c(buf) = {Typed(n)}
                   /\ threshold' \in {threshold, Typed(n)}]_vars

(* A gate or a delay changes only as the answer to its own question, and   *)
(* then to the number that was typed; the other one stays.  (The value is  *)
(* not claimed of a number with a minus sign: strtoul accepts some.)       *)
SettingsAreTyped ==
  [][current' # current =>
       \E n \in Said(buf) :
         /\ ~n.point
         /\ \/ /\ prompt = "gate" /\ current'.absence = current.absence
               /\ n.minus \/ current'.gate = n.whole
            \/ /\ prompt = "delay" /\ current'.gate = current.gate
               /\ n.minus \/ current'.absence = n.whole]_vars

(* What a reader takes a printed number for.  *)
Reads(p) == 100 * p.whole + (IF p.whole < 0 THEN -p.frac ELSE p.frac)

(* Every temperature is shown as what it is, by the menu the threshold and *)
(* by the snapshot what was measured -- except that the sign of one        *)
(* between -1 and 0 degrees gets lost; and the comparison that stops the   *)
(* alarm, which takes it from the same two halves, gets it exactly, below  *)
(* zero as well.                                                           *)
TempsAreExact ==
  /\ threshold \in -99 .. -1 \/ Reads(print_threshold(threshold)) = threshold
  /\ measured \in -99 .. -1 \/ Reads(printed) = measured
  /\ sensor_value_to_centi_c(centi_c_to_sv(measured)) = measured

=============================================================================
