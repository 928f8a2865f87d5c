------------------------------ MODULE MCConsole ------------------------------
(* Lines of up to five characters: a sign, a point and more decimals than  *)
(* are kept, a temperature that overflows (IntMax is 20.47 degrees), and   *)
(* "-99", which is 1 in an unsigned type of 100 values.                    *)
EXTENDS Console

Keys == {"0", "1", "2", "3", "9", "-", ".", " ", "q"}
SomeTemps == {-1950, -50}
=============================================================================
