--------------------------- MODULE FireAlarmProofs ---------------------------
(***************************************************************************)
(* Theorems about FireAlarm, for every sweep and every toggle period: the  *)
(* inductive invariant Inv, the safety invariants that follow from it, and *)
(* the safety half of the refinement of Siren.                             *)
(***************************************************************************)
EXTENDS FireAlarm, TLAPS

(* The thread touches an output only if it is ready, switches the lamp off *)
(* before it can leave the loop or enter it, and ends every tone low.      *)
OutputsInv ==
  /\ led => neopixel_ready /\ pc \in InLoop \cup {"dark"}
  /\ (led /\ pc \in InLoop) => red_on
  /\ buzzer = 1 => buzzer_ready /\ pc = "tone_low"

Inv == TypeOK /\ NoLostStart /\ OutputsInv

(* The sweep never leaves its range, whatever the step: the unsigned       *)
(* frequency cannot wrap below zero.                                       *)
LEMMA StepStaysInRange ==
  ASSUME freq_hz \in MIN_FREQ_HZ .. MAX_FREQ_HZ, direction \in {-1, 1}, step_frequency
  PROVE  freq_hz' \in MIN_FREQ_HZ .. MAX_FREQ_HZ /\ direction' \in {-1, 1}
  BY FrequencyAssumption DEF step_frequency

LEMMA InitInv == Init => Inv
  <1> SUFFICES ASSUME Init PROVE Inv
    OBVIOUS
  <1>1. freq_hz \in MIN_FREQ_HZ .. MAX_FREQ_HZ /\ next_toggle \in 0 .. LedPeriod
    BY FrequencyAssumption DEF Init
  <1>2. TypeOK
    <2>1. sem \in 0 .. 1 /\ buzzer \in 0 .. 1 /\ direction \in {-1, 1}
      BY DEF Init
    <2> QED
      BY <1>1, <2>1, Zenon DEF Init, TypeOK, CallerPc, ThreadPc
  <1>3. NoLostStart /\ OutputsInv
    BY DEF Init, NoLostStart, OutputsInv
  <1> QED
    BY <1>2, <1>3 DEF Inv

(* Every step of the callers and of the thread preserves Inv. *)
LEMMA NextInv == Inv /\ [Next]_vars => Inv'
  <1> SUFFICES ASSUME Inv, [Next]_vars PROVE Inv'
    OBVIOUS
  <1> USE DEF Inv, TypeOK, NoLostStart, OutputsInv, CallerPc, ThreadPc, InLoop, Leaving,
              ready, flags, locals, outputs
  <1>1. CASE TriggerFlash
    BY <1>1 DEF TriggerFlash
  <1>2. CASE TriggerCas
    BY <1>2 DEF TriggerCas
  <1>3. CASE TriggerGive
    BY <1>3 DEF TriggerGive
  <1>4. CASE StopCas
    BY <1>4 DEF StopCas
  <1>5. CASE StopFlash
    BY <1>5 DEF StopFlash
  <1>6. CASE TakeStart
    <2>1. freq_hz' \in MIN_FREQ_HZ .. MAX_FREQ_HZ /\ next_toggle' \in 0 .. LedPeriod
      BY <1>6, FrequencyAssumption DEF TakeStart
    <2>2. sem' \in 0 .. 1 /\ direction' \in {-1, 1}
      BY <1>6 DEF TakeStart
    <2>3. TypeOK'
      BY <1>6, <2>1, <2>2 DEF TakeStart
    <2>4. NoLostStart' /\ OutputsInv'
      BY <1>6 DEF TakeStart
    <2> QED
      BY <2>3, <2>4
  <1>7. CASE StartDark
    BY <1>7 DEF StartDark, neopixel_red
  <1>8. CASE LoopTest
    BY <1>8 DEF LoopTest
  <1>9. CASE Light
    <2>1. next_toggle' \in {next_toggle, LedPeriod}
      BY <1>9, Zenon DEF Light, LightTo
    <2>2. next_toggle' \in 0 .. LedPeriod
      BY <2>1, FrequencyAssumption
    <2>3. led' \in BOOLEAN /\ red_on' \in BOOLEAN
      BY <1>9 DEF Light, LightTo, neopixel_red
    <2>4. (led' => neopixel_ready' /\ red_on')
      BY <1>9 DEF Light, LightTo, neopixel_red
    <2> QED
      BY <1>9, <2>2, <2>3, <2>4 DEF Light, LightTo
  <1>10. CASE ToneHigh
    BY <1>10 DEF ToneHigh
  <1>11. CASE ToneLow
    <2>1. freq_hz' \in MIN_FREQ_HZ .. MAX_FREQ_HZ /\ direction' \in {-1, 1}
      BY <1>11, StepStaysInRange DEF ToneLow
    <2>2. next_toggle' \in 0 .. LedPeriod
      BY <1>11, FrequencyAssumption DEF ToneLow
    <2> QED
      BY <1>11, <2>1, <2>2 DEF ToneLow
  <1>12. CASE LeaveDark
    BY <1>12 DEF LeaveDark, neopixel_red
  <1>13. CASE LeaveSilent
    BY <1>13 DEF LeaveSilent
  <1>14. CASE UNCHANGED vars
    BY <1>14 DEF vars
  <1> QED
    BY <1>1, <1>2, <1>3, <1>4, <1>5, <1>6, <1>7, <1>8, <1>9, <1>10, <1>11, <1>12,
       <1>13, <1>14
    DEF Next, Caller, Thread, NoAlarm

(* Inv is an invariant of the alarm. *)
LEMMA InvHolds == Spec => []Inv
  BY InitInv, NextInv, PTL DEF Spec

(* Type correctness, with the sweep inside its range and the semaphore     *)
(* inside its limit.                                                       *)
THEOREM TypeCorrect == Spec => []TypeOK
  BY InvHolds, PTL DEF Inv

(* No start of the alarm is lost, however triggers and stops fall against  *)
(* the steps of the alarm thread.                                          *)
THEOREM NoStartLost == Spec => []NoLostStart
  BY InvHolds, PTL DEF Inv

(* A waiting alarm thread has left the lamp and the buzzer off.            *)
THEOREM Quiet == Spec => []QuietWhenIdle
  <1>1. Inv => QuietWhenIdle
    BY DEF Inv, OutputsInv, QuietWhenIdle, TypeOK, InLoop
  <1> QED
    BY <1>1, InvHolds, PTL

(* Every step of the alarm is a step of the siren it promises, or none.    *)
THEOREM RefinesSiren == Spec => Siren!Safety
  <1>1. Init => Siren!Init
    BY DEF Init, Siren!Init, InLoop
  <1>2. Inv /\ [Next]_vars => [Siren!Next]_(Siren!sirenVars)
    <2> SUFFICES ASSUME Inv, [Next]_vars
                 PROVE  [Siren!Next]_(Siren!sirenVars)
      OBVIOUS
    <2> USE DEF Siren!sirenVars, Siren!Next, Siren!Request, Siren!Follow, InLoop, Inv, TypeOK
    <2>1. CASE Caller
      BY <2>1 DEF Caller, TriggerFlash, TriggerCas, TriggerGive, StopCas, StopFlash, flags
    <2>2. CASE LoopTest
      BY <2>2 DEF LoopTest, flags
    <2>3. CASE TakeStart \/ StartDark \/ Light \/ ToneHigh \/ ToneLow \/ LeaveDark
               \/ LeaveSilent
      <3>1. UNCHANGED alarm_active
        BY <2>3, Zenon DEF TakeStart, StartDark, Light, LightTo, ToneHigh, ToneLow,
                           LeaveDark, LeaveSilent, flags
      <3>2. (pc' \in InLoop) = (pc \in InLoop)
        <4>1. CASE Light
          <5>1. pc = "light" /\ pc' = "tone_high"
            BY <4>1, Zenon DEF Light, LightTo
          <5> QED
            BY <5>1
        <4>2. CASE ToneLow
          BY <4>2 DEF ToneLow
        <4>3. CASE TakeStart
          BY <4>3 DEF TakeStart
        <4>4. CASE StartDark
          BY <4>4 DEF StartDark
        <4>5. CASE ToneHigh
          BY <4>5 DEF ToneHigh
        <4>6. CASE LeaveDark
          BY <4>6 DEF LeaveDark, neopixel_red
        <4>7. CASE LeaveSilent
          BY <4>7 DEF LeaveSilent
        <4> QED
          BY <2>3, <4>1, <4>2, <4>3, <4>4, <4>5, <4>6, <4>7
      <3> QED
        BY <3>1, <3>2
    <2>4. CASE UNCHANGED vars
      BY <2>4 DEF vars, flags
    <2> QED
      BY <2>1, <2>2, <2>3, <2>4 DEF Next, Thread, NoAlarm
  <1> QED
    BY <1>1, <1>2, InvHolds, PTL DEF Spec, Siren!Safety

=============================================================================
