------------------------------ MODULE ModeButton ------------------------------
(***************************************************************************)
(* The base station's two modes: the push button with its interrupt and    *)
(* its thread (base_station/src/main.c), the main loop, and the console    *)
(* dialogue it runs in configuration mode (base_station/src/config_mode.c).*)
(*                                                                         *)
(* The button's thread has priority 5 and main has Zephyr's default, 0:    *)
(* the button's thread runs only while main is blocked, and main preempts  *)
(* it between any two of its steps.  A transfer to the sensor node is one  *)
(* blocked state of main here; FireSystem and MmWave take it apart.        *)
(***************************************************************************)
EXTENDS Integers

CONSTANTS DEBOUNCE_MS,
          ClockRange,       \* k_uptime_get_32 counts modulo ClockRange
          BounceTime,       \* for so long the contacts may bounce
          MaxDelay          \* for so long the button's thread may be kept waiting

ASSUME ButtonAssumption ==
  /\ DEBOUNCE_MS \in Nat /\ ClockRange \in Nat /\ DEBOUNCE_MS < ClockRange
  /\ BounceTime \in Nat /\ MaxDelay \in Nat
  /\ BounceTime + MaxDelay < DEBOUNCE_MS

VARIABLES
  held, bounce,       \* the button: closed, and time its contacts may still bounce
  btn_sem, delay,     \* the semaphore, and time since it was given
  since,              \* k_uptime_get_32() - last_accepted_press_ms
  bpc, seen,          \* button_task, and the mode it has read
  current_mode,
  mpc,                \* main
  console_ready,
  toggles             \* history: presses accepted since the button was closed

button == <<held, bounce>>
vars == <<button, btn_sem, delay, since, bpc, seen, current_mode, mpc, console_ready, toggles>>

Modes == {"NORMAL", "CONFIGURATION"}

(* config_mode_run: printing the menu or reading a choice or a value,      *)
(* asleep in read_line, or in a transfer.                                  *)
InConfig == {"menu", "menu_idle", "value", "value_idle", "transfer"}
Blocked  == {"menu_idle", "value_idle", "transfer", "poll", "sleep"}
MainPc   == InConfig \cup {"top", "left", "quit", "leave", "poll", "print", "sleep"}

Init ==
  /\ held = FALSE /\ bounce = 0
  /\ btn_sem = 0 /\ delay = 0
  /\ since = 0
  /\ bpc = "wait" /\ seen = "NORMAL"
  /\ current_mode = "NORMAL"
  /\ mpc = "top"
  /\ console_ready \in BOOLEAN
  /\ toggles = 0

-----------------------------------------------------------------------------
(* The user's finger and the contacts, which bounce when they close and    *)
(* when they open; every closing contact is an edge and gives the          *)
(* semaphore.                                                              *)
button_isr == btn_sem' = 1

Press ==
  /\ ~held /\ bounce = 0
  /\ held' = TRUE /\ bounce' = BounceTime
  /\ button_isr
  /\ toggles' = 0
  /\ UNCHANGED <<delay, since, bpc, seen, current_mode, mpc, console_ready>>

Bounce ==
  /\ bounce > 0
  /\ button_isr
  /\ UNCHANGED <<button, delay, since, bpc, seen, current_mode, mpc, console_ready, toggles>>

Open ==
  /\ held /\ bounce = 0
  /\ held' = FALSE
  /\ bounce' = BounceTime
  /\ UNCHANGED <<btn_sem, delay, since, bpc, seen, current_mode, mpc, console_ready, toggles>>

Tick ==
  /\ btn_sem = 1 => delay < MaxDelay
  /\ delay' = IF btn_sem = 1 THEN delay + 1 ELSE 0
  /\ since' = (since + 1) % ClockRange
  /\ bounce' = IF bounce > 0 THEN bounce - 1 ELSE 0
  /\ UNCHANGED <<held, btn_sem, bpc, seen, current_mode, mpc, console_ready, toggles>>

-----------------------------------------------------------------------------
(* button_task *)

HighPriority == TRUE
ButtonRuns   == mpc \in Blocked

NoRestart ==
  /\ bpc = "wait" /\ btn_sem = 1 /\ ButtonRuns
  /\ btn_sem' = 0 /\ delay' = 0
  /\ IF since < DEBOUNCE_MS
     THEN UNCHANGED <<bpc, toggles>>
     ELSE bpc' = "test" /\ toggles' = IF toggles < 2 THEN toggles + 1 ELSE 2
  /\ UNCHANGED <<button, since, seen, current_mode, mpc, console_ready>>

(* An edge less than DEBOUNCE_MS after the last accepted press is dropped. *)
(* (toggles counts to 2, which stands for "more than once".)               *)
Debounce ==
  /\ bpc = "wait" /\ btn_sem = 1 /\ ButtonRuns
  /\ btn_sem' = 0 /\ delay' = 0
  /\ IF since < DEBOUNCE_MS
     THEN UNCHANGED <<since, bpc, toggles>>
     ELSE /\ since' = 0
          /\ bpc' = "test"
          /\ toggles' = IF toggles < 2 THEN toggles + 1 ELSE 2
  /\ UNCHANGED <<button, seen, current_mode, mpc, console_ready>>

TestMode ==
  /\ bpc = "test" /\ ButtonRuns
  /\ seen' = current_mode
  /\ bpc' = "set"
  /\ UNCHANGED <<button, btn_sem, delay, since, current_mode, mpc, console_ready, toggles>>

SwappedModes ==
  /\ bpc = "set" /\ ButtonRuns
  /\ current_mode' = seen
  /\ bpc' = "wait"
  /\ UNCHANGED <<button, btn_sem, delay, since, seen, mpc, console_ready, toggles>>

SwitchMode ==
  /\ bpc = "set" /\ ButtonRuns
  /\ current_mode' = IF seen = "CONFIGURATION" THEN "NORMAL" ELSE "CONFIGURATION"
  /\ bpc' = "wait"
  /\ UNCHANGED <<button, btn_sem, delay, since, seen, mpc, console_ready, toggles>>

-----------------------------------------------------------------------------
(* main *)

MainStep(from, to) ==
  /\ mpc = from
  /\ mpc' = to
  /\ UNCHANGED <<button, btn_sem, delay, since, bpc, seen, current_mode, console_ready, toggles>>

(* The top of the loop; config_mode_run needs a console. *)
ModeTest ==
  \/ current_mode = "NORMAL" /\ MainStep("top", "poll")
  \/ current_mode = "CONFIGURATION" /\ console_ready /\ MainStep("top", "menu")
  \/ current_mode = "CONFIGURATION" /\ ~console_ready /\ MainStep("top", "quit")

(* read_line tests for the exit request before every character; it sleeps  *)
(* when there is none to read.                                             *)
DeafPrompt == current_mode # "CONFIGURATION" /\ MainStep("menu", "left")

ExitRequested ==
  /\ current_mode # "CONFIGURATION"
  /\ MainStep("menu", "left") \/ MainStep("value", "menu")

NoInput ==
  /\ current_mode = "CONFIGURATION"
  /\ MainStep("menu", "menu_idle") \/ MainStep("value", "value_idle")

InputSleepEnds == MainStep("menu_idle", "menu") \/ MainStep("value_idle", "value")

(* A line is complete: a choice (or an unknown one, or q), or a value      *)
(* (invalid, or to be written to the node).                                *)
LineEntered ==
  /\ current_mode = "CONFIGURATION"
  /\ \/ \E to \in {"value", "menu", "quit"} : MainStep("menu", to)
     \/ \E to \in {"menu", "transfer"} : MainStep("value", to)

TransferEnds == MainStep("transfer", "menu")

(* After config_mode_run, "left" because of an exit request or "quit" by   *)
(* the user (or without a console): leave configuration mode if still in.  *)
AfterConfig ==
  \/ current_mode = "CONFIGURATION" /\ (MainStep("left", "leave") \/ MainStep("quit", "leave"))
  \/ current_mode = "NORMAL" /\ (MainStep("left", "poll") \/ MainStep("quit", "poll"))

LeaveMode ==
  /\ mpc = "leave"
  /\ current_mode' = "NORMAL"
  /\ mpc' = "poll"
  /\ UNCHANGED <<button, btn_sem, delay, since, bpc, seen, console_ready, toggles>>

(* The fetch, which may fail, what is printed of it, and the poll period. *)
Poll ==
  \/ MainStep("poll", "print") \/ MainStep("poll", "sleep")
  \/ MainStep("print", "sleep")
  \/ MainStep("sleep", "top")

Main ==
  \/ ModeTest \/ ExitRequested \/ NoInput \/ InputSleepEnds \/ LineEntered
  \/ TransferEnds \/ AfterConfig \/ LeaveMode \/ Poll

Next == Press \/ Bounce \/ Open \/ Tick \/ Debounce \/ TestMode \/ SwitchMode \/ Main

Spec == Init /\ [][Next]_vars

(* main is the highest of the two priorities and its waits end; it waits   *)
(* over and over, and each time the button's thread gets the processor.    *)
Fairness ==
  /\ WF_vars(Main)
  /\ SF_vars(Debounce) /\ SF_vars(TestMode) /\ SF_vars(SwitchMode)

FairSpec == Spec /\ Fairness

-----------------------------------------------------------------------------
TypeOK ==
  /\ held \in BOOLEAN /\ bounce \in 0 .. BounceTime
  /\ btn_sem \in 0 .. 1 /\ delay \in 0 .. MaxDelay
  /\ since \in 0 .. ClockRange - 1
  /\ bpc \in {"wait", "test", "set"} /\ seen \in Modes
  /\ current_mode \in Modes /\ mpc \in MainPc
  /\ console_ready \in BOOLEAN /\ toggles \in 0 .. 2

(* The button "toggles between normal mode and configuration mode"         *)
(* (base_station/src/main.c:18): while it is held down it is accepted at   *)
(* most once, although its edges are handled late, by a thread that main   *)
(* keeps waiting, and compared with a clock read at that later time; also  *)
(* when the contacts were still bouncing from an earlier release.  (The    *)
(* release of a long press may be accepted as a press of its own.)         *)
OnePressOneToggle == held => toggles <= 1

(* Main leaves configuration mode by itself (main.c:183) only if the user  *)
(* quit: after an exit the button asked for, it never finds that the       *)
(* button has asked for configuration mode again, which its set_mode would *)
(* then undo.  The test and the store are not atomic: what keeps the       *)
(* button's thread out is its priority.                                    *)
PressIsNotUndone == mpc = "left" => current_mode = "NORMAL"

(* A press accepted in normal mode opens the menu, unless a further press  *)
(* takes it back.                                                          *)
PressOpensMenu ==
  (bpc = "set" /\ seen = "NORMAL" /\ console_ready)
    ~> (mpc \in InConfig \/ (bpc = "set" /\ seen = "CONFIGURATION"))

(* In normal mode the base station polls, whatever prompt it was waiting   *)
(* at when the mode was switched back.                                     *)
NormalModePolls == (<>[](current_mode = "NORMAL")) => []<>(mpc = "poll")

=============================================================================
