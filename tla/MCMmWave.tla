------------------------------- MODULE MCMmWave -------------------------------
(* A small instance: three kinds of lines, one change of the gate or       *)
(* of the delay (in base 6 a delay of 5 is <<5,0>>, one of 7 is <<1,1>>).  *)
EXTENDS MmWave

NoReadings == {}
SomeLines  == {On, Off, RangeOf(<<0, 0>>)}
OneGate    == {3}
OneDelay   == {7}
OnOrOff    == {Sensors, {}}
=============================================================================
