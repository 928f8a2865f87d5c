----------------------------- MODULE MCSensorNode -----------------------------
(* The object is at 99.85 degrees, the sensor at 26.85; either word may    *)
(* have its error flag.  On the bus any burst of up to eight bits, or any  *)
(* two bits, may change.                                                   *)
EXTENDS SensorNode

Bits(n) == {i \in 0 .. 15 : (n \div 2 ^ i) % 2 = 1}

Ambient  == {Bits(15000), Bits(15000) \cup {ERROR_FLAG}}
Objects  == {Bits(18650), Bits(18650) \cup {ERROR_FLAG}}
Measured == {9985}

Bursts == UNION {{({s} \cup {s + i : i \in b}) \cap 0 .. 23 : b \in SUBSET (1 .. 7)} : s \in 0 .. 23}
InvertedBits == Bursts \cup {{i, j} : i, j \in 0 .. 23}

SwitchesOff == {{}, {BME680}}
=============================================================================
