------------------------------ MODULE FireAlarm ------------------------------
(***************************************************************************)
(* The base station's alarm (base_station/src/fire_alarm.c): the thread    *)
(* that drives the NeoPixel and the buzzer, and fire_alarm_trigger and     *)
(* fire_alarm_stop, whose callers remote_sensor_lock serialises            *)
(* (FireSystem!SensorLockHeld) but which run against the thread.           *)
(*                                                                         *)
(* Time is counted in tones: a tone takes TONE_DURATION_MS.                *)
(***************************************************************************)
EXTENDS Integers

CONSTANTS MIN_FREQ_HZ, MAX_FREQ_HZ, FREQ_STEP_HZ,
          LedPeriod      \* tones between two toggles of the red light

ASSUME FrequencyAssumption ==
  /\ MIN_FREQ_HZ \in Nat /\ MAX_FREQ_HZ \in Nat /\ FREQ_STEP_HZ \in Nat \ {0}
  /\ FREQ_STEP_HZ <= MIN_FREQ_HZ /\ MIN_FREQ_HZ < MAX_FREQ_HZ
  /\ LedPeriod \in Nat

VARIABLES
  buzzer_ready, neopixel_ready,       \* what fire_alarm_init found
  alarm_active, alarm_flash_red,
  sem,                                \* alarm_start_sem, at most 1
  caller,                             \* where the serialised caller is
  pc,                                 \* where alarm_thread is
  red_on, next_toggle, freq_hz, direction,
  led, buzzer                         \* the outputs

ready   == <<buzzer_ready, neopixel_ready>>
flags   == <<alarm_active, alarm_flash_red>>
locals  == <<red_on, next_toggle, freq_hz, direction>>
outputs == <<led, buzzer>>
vars    == <<ready, flags, sem, caller, pc, locals, outputs>>

alarm_thread_started == buzzer_ready \/ neopixel_ready

InLoop  == {"light", "tone_high", "tone_low", "again"}
Leaving == {"dark", "silent"}
ThreadPc == {"wait", "start", "first"} \cup InLoop \cup Leaving
CallerPc == {"none", "trigger_cas", "trigger_give", "stop_flash"}

Init ==
  /\ buzzer_ready \in BOOLEAN /\ neopixel_ready \in BOOLEAN
  /\ alarm_active = FALSE /\ alarm_flash_red = FALSE
  /\ sem = 0 /\ caller = "none" /\ pc = "wait"
  /\ red_on = FALSE /\ next_toggle = 0
  /\ freq_hz = MIN_FREQ_HZ /\ direction = 1
  /\ led = FALSE /\ buzzer = 0

-----------------------------------------------------------------------------
(* fire_alarm_trigger(occupied): store the occupancy, *)
TriggerFlash ==
  /\ caller = "none" /\ alarm_thread_started
  /\ alarm_flash_red' \in BOOLEAN
  /\ caller' = "trigger_cas"
  /\ UNCHANGED <<ready, alarm_active, sem, pc, locals, outputs>>

(* set the alarm unless it is set, *)
TriggerCas ==
  /\ caller = "trigger_cas"
  /\ caller' = IF alarm_active THEN "none" ELSE "trigger_give"
  /\ alarm_active' = TRUE
  /\ UNCHANGED <<ready, alarm_flash_red, sem, pc, locals, outputs>>

LostSignal ==
  /\ caller = "trigger_give"
  /\ sem' = IF pc = "wait" THEN 1 ELSE sem
  /\ caller' = "none"
  /\ UNCHANGED <<ready, flags, pc, locals, outputs>>

(* and wake the thread. *)
TriggerGive ==
  /\ caller = "trigger_give"
  /\ sem' = 1
  /\ caller' = "none"
  /\ UNCHANGED <<ready, flags, pc, locals, outputs>>

(* fire_alarm_stop *)
StopCas ==
  /\ caller = "none" /\ alarm_active
  /\ alarm_active' = FALSE
  /\ caller' = "stop_flash"
  /\ UNCHANGED <<ready, alarm_flash_red, sem, pc, locals, outputs>>

StopFlash ==
  /\ caller = "stop_flash"
  /\ alarm_flash_red' = FALSE
  /\ caller' = "none"
  /\ UNCHANGED <<ready, alarm_active, sem, pc, locals, outputs>>

-----------------------------------------------------------------------------
neopixel_red(on) == led' = IF neopixel_ready THEN on ELSE led

OneWaySweep ==
  /\ freq_hz' = IF freq_hz + FREQ_STEP_HZ > MAX_FREQ_HZ
                THEN MAX_FREQ_HZ ELSE freq_hz + FREQ_STEP_HZ
  /\ UNCHANGED direction

step_frequency ==
  LET up   == freq_hz + FREQ_STEP_HZ
      down == freq_hz - FREQ_STEP_HZ
  IN  IF direction > 0
      THEN IF up >= MAX_FREQ_HZ
           THEN freq_hz' = MAX_FREQ_HZ /\ direction' = -1
           ELSE freq_hz' = up /\ UNCHANGED direction
      ELSE IF down <= MIN_FREQ_HZ
           THEN freq_hz' = MIN_FREQ_HZ /\ direction' = 1
           ELSE freq_hz' = down /\ UNCHANGED direction

(* alarm_thread: wait for a start, *)
TakeStart ==
  /\ pc = "wait" /\ sem = 1
  /\ sem' = 0
  /\ pc' = "start"
  /\ red_on' = FALSE /\ next_toggle' = 0
  /\ freq_hz' = MIN_FREQ_HZ /\ direction' = 1
  /\ UNCHANGED <<ready, flags, caller, outputs>>

StartDark ==
  /\ pc = "start"
  /\ neopixel_red(FALSE)
  /\ pc' = "first"
  /\ UNCHANGED <<ready, flags, sem, caller, locals, buzzer>>

DoWhile ==
  /\ pc \in {"first", "again"}
  /\ pc' = IF alarm_active \/ pc = "first" THEN "light" ELSE "dark"
  /\ UNCHANGED <<ready, flags, sem, caller, locals, outputs>>

(* loop while the alarm is active, *)
LoopTest ==
  /\ pc \in {"first", "again"}
  /\ pc' = IF alarm_active THEN "light" ELSE "dark"
  /\ UNCHANGED <<ready, flags, sem, caller, locals, outputs>>

(* toggle the red light when it is due, or put it out, *)
LightTo(on) ==
  /\ pc = "light"
  /\ pc' = "tone_high"
  /\ IF alarm_flash_red
     THEN IF next_toggle = 0
          THEN /\ red_on' = on
               /\ neopixel_red(on)
               /\ next_toggle' = LedPeriod
          ELSE UNCHANGED <<red_on, next_toggle, led>>
     ELSE /\ red_on' = FALSE
          /\ IF red_on THEN neopixel_red(FALSE) ELSE UNCHANGED led
          /\ UNCHANGED next_toggle
  /\ UNCHANGED <<ready, flags, sem, caller, freq_hz, direction, buzzer>>

SolidRed == LightTo(TRUE)
Light    == LightTo(~red_on)

(* sound a tone (one period of the square wave stands for all of them), *)
ToneHigh ==
  /\ pc = "tone_high"
  /\ buzzer' = IF buzzer_ready THEN 1 ELSE buzzer
  /\ pc' = "tone_low"
  /\ UNCHANGED <<ready, flags, sem, caller, locals, led>>

ToneLow ==
  /\ pc = "tone_low"
  /\ buzzer' = IF buzzer_ready THEN 0 ELSE buzzer
  /\ step_frequency
  /\ next_toggle' = IF next_toggle > 0 THEN next_toggle - 1 ELSE 0
  /\ pc' = "again"
  /\ UNCHANGED <<ready, flags, sem, caller, red_on, led>>

LeftOn ==
  /\ pc = "dark"
  /\ pc' = "silent"
  /\ UNCHANGED <<ready, flags, sem, caller, locals, outputs>>

(* and leave the outputs off. *)
LeaveDark ==
  /\ pc = "dark"
  /\ neopixel_red(FALSE)
  /\ pc' = "silent"
  /\ UNCHANGED <<ready, flags, sem, caller, locals, buzzer>>

LeaveSilent ==
  /\ pc = "silent"
  /\ buzzer' = IF buzzer_ready THEN 0 ELSE buzzer
  /\ pc' = "wait"
  /\ UNCHANGED <<ready, flags, sem, caller, locals, led>>

Caller == TriggerFlash \/ TriggerCas \/ TriggerGive \/ StopCas \/ StopFlash

Thread ==
  \/ TakeStart \/ StartDark \/ LoopTest \/ Light
  \/ ToneHigh \/ ToneLow \/ LeaveDark \/ LeaveSilent

(* No alarm thread: fire_alarm_trigger returns at once, nothing happens.   *)
NoAlarm == ~alarm_thread_started /\ UNCHANGED vars

Next == Caller \/ Thread \/ NoAlarm

Spec == Init /\ [][Next]_vars

(* A call that has begun returns; the thread is scheduled. *)
Fairness ==
  /\ WF_vars(TriggerCas) /\ WF_vars(TriggerGive) /\ WF_vars(StopFlash)
  /\ WF_vars(Thread)

FairSpec == Spec /\ Fairness

-----------------------------------------------------------------------------
TypeOK ==
  /\ buzzer_ready \in BOOLEAN /\ neopixel_ready \in BOOLEAN
  /\ alarm_active \in BOOLEAN /\ alarm_flash_red \in BOOLEAN
  /\ sem \in 0 .. 1 /\ caller \in CallerPc /\ pc \in ThreadPc
  /\ red_on \in BOOLEAN /\ next_toggle \in 0 .. LedPeriod
  /\ freq_hz \in MIN_FREQ_HZ .. MAX_FREQ_HZ /\ direction \in {-1, 1}
  /\ led \in BOOLEAN /\ buzzer \in 0 .. 1

(* No start is lost: whenever the alarm is set and the thread is not going *)
(* to test the flag by itself, the semaphore holds a token or the caller   *)
(* is about to give one -- also when a stop and a new trigger fall between *)
(* the thread's last test of the flag and its return to the semaphore.     *)
NoLostStart ==
  (alarm_active /\ pc \in {"wait"} \cup Leaving) => sem = 1 \/ caller = "trigger_give"

(* A thread that waits for a start has left both outputs off, and the      *)
(* red light is on only when the thread believes it is: a start that was   *)
(* stopped before the thread saw it, or a token left over from an alarm    *)
(* the thread never noticed the end of, cannot leave a lamp or a tone on.  *)
QuietWhenIdle ==
  /\ pc = "wait" => ~led /\ buzzer = 0
  /\ (led /\ pc \in InLoop) => red_on

(* The alarm implements the siren it promises. *)
Siren == INSTANCE Siren WITH wanted <- alarm_active, sounding <- pc \in InLoop
ImplementsSiren == Siren!Spec

(* While the alarm goes on over an occupied room, the red light keeps      *)
(* flashing: it is neither stuck on nor stuck off.                         *)
OccupiedAlarmFlashes ==
  (neopixel_ready /\ <>[](alarm_active /\ alarm_flash_red)) => []<>led /\ []<>~led

(* While the alarm goes on, the tone sweeps the whole range, both ends     *)
(* included, whether or not the step divides it.                           *)
ToneSweeps ==
  (<>[]alarm_active) => []<>(freq_hz = MIN_FREQ_HZ) /\ []<>(freq_hz = MAX_FREQ_HZ)

=============================================================================
