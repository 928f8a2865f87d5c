-------------------------- MODULE FireSystemHistory --------------------------
(***************************************************************************)
(* FireSystem with history variables: the threshold the pending interrupt  *)
(* was raised for, and whether the object has been cool since the alarm    *)
(* began.  They observe the system and never restrict it.                  *)
(***************************************************************************)
EXTENDS FireSystem

VARIABLES raised_for,   \* threshold in the node when INT_SRC became set
          cooled        \* Cool held at some moment of the present alarm

hvars == <<vars, raised_for, cooled>>

HInit == Init /\ raised_for = DefaultThreshold /\ cooled = FALSE

Observe ==
  /\ raised_for' = IF regs[REG_INT_SRC] = {} /\ regs'[REG_INT_SRC] # {}
                   THEN Threshold ELSE raised_for
  /\ cooled' = (alarm_active' /\ ((alarm_active /\ cooled) \/ Cool \/ Cool'))

HNext == Next /\ Observe

HSpec == HInit /\ [][HNext]_hvars

-----------------------------------------------------------------------------
(* Changing the threshold leaves no interrupt of the old one behind: when  *)
(* no transfer has failed, an interrupt that is pending outside the        *)
(* reconfiguration is about the threshold in force.                        *)
PendingIrqIsForCurrentThreshold ==
  (/\ faults = 0 /\ restarts = 0
   /\ interrupt_demo_configured /\ pc["main"] # "clear"
   /\ regs[REG_INT_SRC] # {})
    => raised_for = fire_threshold

(* The base station "triggers the fire alarm if the object temperature     *)
(* >= threshold" (base_station/src/main.c:19): an alarm ends only if the   *)
(* object has not been above the threshold all along.  Restarts of either  *)
(* board are excepted.                                                     *)
NoStopWhileHot ==
  [][ (restarts' = 0 /\ alarm_active /\ ~alarm_active') => cooled ]_hvars

=============================================================================
