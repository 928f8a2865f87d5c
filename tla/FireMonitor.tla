----------------------------- MODULE FireMonitor -----------------------------
(***************************************************************************)
(* What the two boards promise together, whatever the bus, the line, the   *)
(* work queue and the user do: an alarm begins only with an interrupt the  *)
(* base station was told of; an interrupt is taken back only when it has   *)
(* sounded the alarm, when the node is being set up or when the node       *)
(* restarts; and no alarm ends while an interrupt is being answered.       *)
(* FireSystem implements this specification.                               *)
(***************************************************************************)
EXTENDS Naturals

VARIABLES irq,        \* the node has an interrupt pending
          told,       \* the base station has read it and is answering it
          alarm,      \* the alarm sounds
          setting,    \* the base station has disarmed the node to set it up
          restarts    \* restarts of either board so far

mvars == <<irq, told, alarm, setting, restarts>>

MInit ==
  /\ irq = FALSE /\ told = FALSE /\ alarm = FALSE /\ setting = FALSE
  /\ restarts = 0

Raise ==
  /\ ~irq /\ ~setting
  /\ irq' = TRUE
  /\ UNCHANGED <<told, alarm, setting, restarts>>

Tell ==
  /\ irq /\ ~told /\ ~setting
  /\ told' = TRUE
  /\ UNCHANGED <<irq, alarm, setting, restarts>>

Sound ==
  /\ told
  /\ alarm' = TRUE
  /\ UNCHANGED <<irq, told, setting, restarts>>

Answer ==
  /\ told /\ alarm
  /\ irq' = FALSE /\ told' = FALSE
  /\ UNCHANGED <<alarm, setting, restarts>>

(* A transfer has failed; the interrupt stays where it is. *)
GiveUp ==
  /\ told
  /\ told' = FALSE
  /\ UNCHANGED <<irq, alarm, setting, restarts>>

Stop ==
  /\ alarm /\ ~told /\ ~setting
  /\ alarm' = FALSE
  /\ UNCHANGED <<irq, told, setting, restarts>>

Disarm ==
  /\ ~told /\ ~setting
  /\ setting' = TRUE
  /\ UNCHANGED <<irq, told, alarm, restarts>>

SetUp ==
  /\ setting
  /\ setting' \in BOOLEAN
  /\ irq' \in {irq, FALSE}
  /\ UNCHANGED <<told, alarm, restarts>>

NodeRestarts ==
  /\ restarts' = restarts + 1
  /\ irq' = FALSE
  /\ told' \in {told, FALSE} /\ setting' \in {setting, FALSE}
  /\ UNCHANGED alarm

BaseRestarts ==
  /\ restarts' = restarts + 1
  /\ told' = FALSE /\ setting' = FALSE /\ alarm' = FALSE
  /\ UNCHANGED irq

MNext ==
  \/ Raise \/ Tell \/ Sound \/ Answer \/ GiveUp \/ Stop
  \/ Disarm \/ SetUp \/ NodeRestarts \/ BaseRestarts

MSpec == MInit /\ [][MNext]_mvars

=============================================================================
