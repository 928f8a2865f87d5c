--------------------------- MODULE ModeButtonProofs ---------------------------
(***************************************************************************)
(* Proofs about ModeButton, for every debounce time, clock range, bounce   *)
(* time and delay that satisfy ButtonAssumption.                           *)
(***************************************************************************)
EXTENDS ModeButton, TLAPS

(* Below its range, the clock counts without wrapping. *)
LEMMA NoWrap == \A a, n \in Nat : a < n => a % n = a
  OBVIOUS

-----------------------------------------------------------------------------
(* Type correctness: the semaphore never holds more than one token, the    *)
(* button's thread is never kept waiting longer than MaxDelay.             *)
THEOREM TypeCorrect == Spec => []TypeOK
  <1>1. Init => TypeOK
    <2> SUFFICES ASSUME Init PROVE TypeOK
      OBVIOUS
    <2>1. bounce \in 0 .. BounceTime /\ btn_sem \in 0 .. 1 /\ delay \in 0 .. MaxDelay
          /\ since \in 0 .. ClockRange - 1 /\ toggles \in 0 .. 2
      BY ButtonAssumption DEF Init
    <2> QED
      BY <2>1 DEF Init, TypeOK, Modes, MainPc, InConfig
  <1>2. TypeOK /\ [Next]_vars => TypeOK'
    <2> SUFFICES ASSUME TypeOK, [Next]_vars PROVE TypeOK'
      OBVIOUS
    <2> USE ButtonAssumption DEF TypeOK, Modes
    <2>1. CASE Press
      <3>1. bounce' \in 0 .. BounceTime /\ btn_sem' \in 0 .. 1 /\ toggles' \in 0 .. 2
        BY <2>1 DEF Press, button_isr
      <3> QED
        BY <2>1, <3>1 DEF Press
    <2>2. CASE Bounce
      BY <2>2 DEF Bounce, button_isr, button
    <2>3. CASE Open
      <3>1. bounce' \in 0 .. BounceTime
        BY <2>3 DEF Open
      <3> QED
        BY <2>3, <3>1 DEF Open
    <2>4. CASE Tick
      BY <2>4 DEF Tick
    <2>5. CASE Debounce
      BY <2>5 DEF Debounce, button
    <2>6. CASE TestMode
      BY <2>6 DEF TestMode, button
    <2>7. CASE SwitchMode
      BY <2>7 DEF SwitchMode, button
    <2>8. CASE LeaveMode
      BY <2>8 DEF LeaveMode, button, MainPc
    <2>9. ASSUME NEW from, NEW to \in MainPc, MainStep(from, to) PROVE TypeOK'
      BY <2>9 DEF MainStep, button
    <2>10. CASE Main /\ ~LeaveMode
      BY <2>9, <2>10
      DEF Main, ModeTest, ExitRequested, NoInput, InputSleepEnds, LineEntered, TransferEnds,
          AfterConfig, Poll, MainPc, InConfig
    <2>11. CASE UNCHANGED vars
      BY <2>11 DEF vars, button
    <2> QED
      BY <2>1, <2>2, <2>3, <2>4, <2>5, <2>6, <2>7, <2>8, <2>10, <2>11 DEF Next
  <1> QED
    BY <1>1, <1>2, PTL DEF Spec

-----------------------------------------------------------------------------
(* Main never undoes a press: between its exit from the dialogue and its   *)
(* test of the mode it does not block, so that the button's thread cannot  *)
(* run.                                                                    *)
THEOREM NotUndone == Spec => []PressIsNotUndone
  <1>1. Init => PressIsNotUndone
    BY DEF Init, PressIsNotUndone
  <1>2. TypeOK /\ PressIsNotUndone /\ [Next]_vars => PressIsNotUndone'
    <2> SUFFICES ASSUME TypeOK, PressIsNotUndone, [Next]_vars, mpc' = "left"
                 PROVE  current_mode' = "NORMAL"
      BY DEF PressIsNotUndone
    <2> USE DEF PressIsNotUndone
    <2>1. CASE Press \/ Bounce \/ Open \/ Tick \/ Debounce \/ TestMode
      BY <2>1 DEF Press, Bounce, Open, Tick, Debounce, TestMode
    <2>2. CASE SwitchMode
      BY <2>2 DEF SwitchMode, ButtonRuns, Blocked
    <2>3. CASE Main
      <3>1. ASSUME NEW from, NEW to, to # "left", MainStep(from, to) PROVE FALSE
        BY <3>1 DEF MainStep
      <3>2. ExitRequested
        BY <2>3, <3>1
        DEF Main, ModeTest, NoInput, InputSleepEnds, LineEntered, TransferEnds, AfterConfig,
            LeaveMode, Poll
      <3> QED
        BY <3>1, <3>2 DEF ExitRequested, MainStep, TypeOK, Modes
    <2>4. CASE UNCHANGED vars
      BY <2>4 DEF vars
    <2> QED
      BY <2>1, <2>2, <2>3, <2>4 DEF Next
  <1> QED
    BY <1>1, <1>2, TypeCorrect, PTL DEF Spec

-----------------------------------------------------------------------------
(* Why one press is accepted once: after the first acceptance, whatever    *)
(* edge is pending, or may still come while the button is held, is handled *)
(* before the debounce time is over.                                       *)
EdgesInTime ==
  /\ btn_sem = 0 => delay = 0
  /\ held /\ toggles >= 1 =>
       /\ since + bounce <= BounceTime \/ bounce = 0
       /\ btn_sem = 1 => since + (MaxDelay - delay) <= BounceTime + MaxDelay

(* One press, one toggle: when bounce and scheduling delay together are    *)
(* shorter than DEBOUNCE_MS.                                               *)
THEOREM OneToggle == Spec => []OnePressOneToggle
  <1> DEFINE Timed == OnePressOneToggle /\ EdgesInTime
  <1>1. Init => Timed
    BY ButtonAssumption DEF Init, OnePressOneToggle, EdgesInTime
  <1>2. TypeOK /\ Timed /\ [Next]_vars => Timed'
    <2> SUFFICES ASSUME TypeOK, Timed, [Next]_vars PROVE Timed'
      OBVIOUS
    <2> USE ButtonAssumption DEF OnePressOneToggle, EdgesInTime
    <2>1. /\ bounce \in 0 .. BounceTime /\ btn_sem \in 0 .. 1 /\ delay \in 0 .. MaxDelay
          /\ since \in 0 .. ClockRange - 1 /\ toggles \in 0 .. 2
          /\ held \in BOOLEAN /\ (held => toggles \in 0 .. 1)
      BY DEF TypeOK
    <2>2. CASE Press
      BY <2>1, <2>2 DEF Press, button_isr
    <2>3. CASE Bounce
      BY <2>1, <2>3 DEF Bounce, button_isr, button
    <2>4. CASE Open
      BY <2>1, <2>4 DEF Open
    <2>5. CASE Tick
      <3>1. CASE toggles = 0
        BY <2>1, <2>5, <3>1 DEF Tick
      <3>2. CASE toggles = 1 /\ since < DEBOUNCE_MS
        <4>1. since' = since + 1
          BY <2>1, <2>5, <3>2, NoWrap DEF Tick
        <4> QED
          BY <2>1, <2>5, <3>2, <4>1 DEF Tick
      <3>3. CASE toggles = 1 /\ since >= DEBOUNCE_MS
        BY <2>1, <2>5, <3>3 DEF Tick
      <3>4. CASE ~held
        BY <2>1, <2>5, <3>4 DEF Tick
      <3> QED
        BY <2>1, <3>1, <3>2, <3>3, <3>4
    <2>6. CASE Debounce
      <3>1. held' = held /\ bounce' = bounce /\ btn_sem' = 0 /\ delay' = 0
        BY <2>6 DEF Debounce, button
      <3>2. CASE since < DEBOUNCE_MS
        <4>1. since' = since /\ toggles' = toggles
          BY <2>6, <3>2 DEF Debounce
        <4> QED
          BY <2>1, <3>1, <4>1
      <3>3. CASE since >= DEBOUNCE_MS
        <4>1. held => toggles = 0
          BY <2>1, <2>6, <3>3 DEF Debounce
        <4>2. held => toggles' = 1
          BY <2>1, <2>6, <3>3, <4>1 DEF Debounce
        <4>3. since' = 0
          BY <2>1, <2>6, <3>3 DEF Debounce
        <4> QED
          BY <2>1, <3>1, <4>2, <4>3
      <3> QED
        BY <2>1, <3>2, <3>3
    <2>7. CASE TestMode
      BY <2>7 DEF TestMode, button
    <2>8. CASE SwitchMode
      BY <2>8 DEF SwitchMode, button
    <2>9. CASE LeaveMode
      BY <2>9 DEF LeaveMode, button
    <2>10. ASSUME NEW from, NEW to, MainStep(from, to) PROVE Timed'
      BY <2>10 DEF MainStep, button
    <2>11. CASE Main /\ ~LeaveMode
      BY <2>10, <2>11
      DEF Main, ModeTest, ExitRequested, NoInput, InputSleepEnds, LineEntered, TransferEnds,
          AfterConfig, Poll
    <2>12. CASE UNCHANGED vars
      BY <2>12 DEF vars, button
    <2> QED
      BY <2>2, <2>3, <2>4, <2>5, <2>6, <2>7, <2>8, <2>9, <2>11, <2>12 DEF Next
  <1> QED
    BY <1>1, <1>2, TypeCorrect, PTL DEF Spec

=============================================================================
