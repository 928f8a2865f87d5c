-------------------------------- MODULE MmWave --------------------------------
(***************************************************************************)
(* The mmWave radar, from the console to the radar and back: the settings  *)
(* a user enters at the base station, written to the node's registers byte *)
(* by byte; the node's mmWave thread, which applies them with the receiver *)
(* paused; the radar's text lines, received by uart_isr, assembled and     *)
(* parsed by a work item; and the occupancy the thread publishes.          *)
(*                                                                         *)
(* A line of text is a sequence of fragments, cut where a pause can tear   *)
(* it; the last one carries the end of line.  The gates the base station   *)
(* sends are valid (remote_pico_set_mmwave_max_gate and parse_u32_range    *)
(* see to it), so that mmwave_apply_config does not fail.  A bus master    *)
(* may clear and set the radar's bit of CTRL at any time; while it is      *)
(* clear the thread skips its turns: neither the configuration nor the     *)
(* occupancy is looked at, and REG_MMW_PRESENT keeps its last value.       *)
(* Either board may restart while the other and the radar go on: the radar *)
(* keeps its configuration, the node and the menu go back to their         *)
(* defaults.  (A radar that fails to initialise has no thread: SensorNode.)*)
(***************************************************************************)
EXTENDS RegisterMap, Sequences

CONSTANTS Lines,         \* text lines the radar may send
          LineMax,       \* LINE_BUF_LEN - 1, in fragments
          RingMax,       \* bound: backlog of the receive ring, in fragments
          Staleness,     \* 2000 ms, in periods of the mmWave thread
          Gates, Delays, \* settings a user may enter
          CtrlWrites,    \* values a bus master may write to CTRL
          MaxSets,       \* bound: settings entered
          MaxFaults,     \* bound: writes that report an error
          MaxRestarts    \* bound: restarts of either board

Older(n) == IF n < Staleness + 3 THEN n + 1 ELSE n   \* bound: ages told apart

(* Fragments: the text, and for a range its digit ("cm" is the second      *)
(* one); "?" is a piece of a binary reply to a command.  The "O" of ON and *)
(* of OFF are the same text: the number tells the line that it is from,    *)
(* which the parser does not look at.                                      *)
On          == << <<"O", 0>>, <<"N", 0>> >>
Off         == << <<"O", 1>>, <<"FF", 1>> >>
RangeOf(r)  == << <<"Range", r[1]>>, <<"cm", r[2]>> >>
EndsLine(f) == f[1] \in {"N", "FF", "cm"}
Fragment    == {"O", "N", "FF", "Range", "cm", "?"} \X Nat
Reply       == [i \in 1 .. LineMax - 1 |-> <<"?", 0>>]

ASSUME MmWaveAssumption ==
  /\ LineMax \in Nat \ {0, 1} /\ RingMax \in Nat \ {0}
  /\ Staleness \in Nat /\ MaxSets \in Nat /\ MaxFaults \in Nat /\ MaxRestarts \in Nat
  /\ Gates \subseteq Digit /\ Delays \subseteq 0 .. Radix * Radix - 1
  /\ CtrlWrites \subseteq BusByte(REG_CTRL)
  /\ \A l \in Lines : l \in Fragment \X Fragment /\ ~EndsLine(l[1]) /\ EndsLine(l[2])

VARIABLES
  sending, owed,               \* radar: rest of its line; replies not sent yet
  radar,                       \* radar: the configuration in force
  rx_enabled, rx_ringbuf, line_buf, cur_state,   \* mmwave.c
  age,                         \* periods since cur_state.last_update_ms
  tpc, cfg, last, occ,         \* mmwave_entry and its locals
  skipped,                     \* history: a turn skipped since the last publication
  base, wanted, current,       \* config_mode.c: where it is, its copies
  sets, faults, restarts

uartVars   == <<rx_enabled, rx_ringbuf, line_buf, cur_state>>
radarVars  == <<sending, owed, radar>>
threadVars == <<tpc, cfg, last, occ, skipped>>
baseVars   == <<base, wanted, current, sets, faults, restarts>>
vars == <<regVars, radarVars, uartVars, age, threadVars, baseVars>>

Config(g, s) == [gate |-> g, absence |-> s]

(* regmap_get_mmwave_config: both registers in one critical section. *)
NodeConfig ==
  Config(regs[REG_MMW_MAX_GATE], regs[REG_MMW_ABSENCE_0] + Radix * regs[REG_MMW_ABSENCE_0 + 1])

(* 0xFF and 0xFFFF; the former is no gate. *)
NoConfig == Config(Radix, Radix * Radix - 1)

Init ==
  /\ RegInit
  /\ sending = <<>> /\ owed = 1 /\ radar = NoConfig
  /\ rx_enabled = TRUE /\ rx_ringbuf = <<>> /\ line_buf = <<>>
  /\ cur_state = [present |-> FALSE, range_cm |-> 0] /\ age = 0
  /\ tpc = "ctrl" /\ cfg = NoConfig /\ last = NoConfig /\ occ = FALSE /\ skipped = FALSE
  /\ base = "idle" /\ wanted = 5 /\ current = Config(5, 5)
  /\ sets = 0 /\ faults = 0 /\ restarts = 0

-----------------------------------------------------------------------------
(* A fragment of what the radar sends arrives.  While the receiver is off  *)
(* it is flushed or lost; otherwise uart_isr puts it in the ring (never    *)
(* full: the work item that empties it runs before any thread of the node).*)
Received(s) ==
  /\ sending' = Tail(s)
  /\ IF rx_enabled
     THEN Len(rx_ringbuf) < RingMax /\ rx_ringbuf' = Append(rx_ringbuf, Head(s))
     ELSE UNCHANGED rx_ringbuf
  /\ UNCHANGED <<regVars, radar, rx_enabled, line_buf, cur_state, age, threadVars, baseVars>>

(* The radar sends one line, or one reply, after the other. *)
RadarBegins ==
  /\ sending = <<>>
  /\ \/ UNCHANGED owed /\ \E l \in Lines : Received(l)
     \/ owed > 0 /\ owed' = owed - 1 /\ Received(Reply)

uart_isr == sending # <<>> /\ Received(sending) /\ UNCHANGED owed

(* parse_line: "ON" is matched whole, "OFF" and "Range " are prefixes, and *)
(* atoi stops at the first character that is no digit.                     *)
Second(l) == IF Len(l) > 1 THEN l[2][1] ELSE "none"

SaysOn(l)    == Len(l) = 2 /\ l[1][1] = "O" /\ Second(l) = "N"
SaysOff(l)   == l[1][1] = "O" /\ Second(l) = "FF"
SaysRange(l) == l[1][1] = "Range"

parse_line(l) ==
  LET range == IF Second(l) = "cm" THEN 10 * l[1][2] + l[2][2] ELSE l[1][2]
  IN  CASE SaysOn(l)    -> [cur_state EXCEPT !.present = TRUE]
        [] SaysOff(l)   -> [present |-> FALSE, range_cm |-> 0]
        [] SaysRange(l) -> [cur_state EXCEPT !.range_cm = range]
        [] OTHER        -> cur_state

Understood(l) == SaysOn(l) \/ SaysOff(l) \/ SaysRange(l)

FedLine == Append(line_buf, Head(rx_ringbuf))

(* feed_byte, by parse_work_handler: a line too long is dropped so far. *)
feed_byte ==
  /\ rx_ringbuf # <<>>
  /\ rx_ringbuf' = Tail(rx_ringbuf)
  /\ IF Len(line_buf) = LineMax THEN line_buf' = <<>> /\ UNCHANGED <<cur_state, age>>
     ELSE IF EndsLine(Head(rx_ringbuf))
     THEN /\ line_buf' = <<>>
          /\ cur_state' = parse_line(FedLine)
          /\ age' = IF Understood(FedLine) THEN 0 ELSE age
     ELSE line_buf' = FedLine /\ UNCHANGED <<cur_state, age>>
  /\ UNCHANGED <<regVars, radarVars, rx_enabled, threadVars, baseVars>>

-----------------------------------------------------------------------------
(* mmwave_entry: without its bit of CTRL the thread sleeps for a period,   *)
(* with the registers as they are;                                         *)
IsEnabled == "MMWAVE" \in regs[REG_CTRL]

TestCtrl ==
  /\ tpc = "ctrl"
  /\ IF IsEnabled THEN tpc' = "config" /\ UNCHANGED skipped
                  ELSE tpc' = "sleep" /\ skipped' = TRUE
  /\ UNCHANGED <<regVars, radarVars, uartVars, age, cfg, last, occ, baseVars>>

(* with it, it looks for a new configuration first.                        *)
ReadConfig ==
  /\ tpc = "config"
  /\ cfg' = NodeConfig
  /\ tpc' = IF cfg' # last THEN "pause" ELSE "occupied"
  /\ UNCHANGED <<regVars, radarVars, uartVars, age, last, occ, skipped, baseVars>>

(* mmwave_apply_config: the receiver off, *)
Pause ==
  /\ tpc = "pause"
  /\ rx_enabled' = FALSE
  /\ tpc' = "send"
  /\ UNCHANGED <<regVars, radarVars, rx_ringbuf, line_buf, cur_state, age, cfg, last, occ,
                 skipped, baseVars>>

(* the command out; the radar owes a reply, *)
SendFrame ==
  /\ tpc = "send"
  /\ radar' = cfg /\ owed' = 1
  /\ tpc' = "resume"
  /\ UNCHANGED <<regVars, sending, uartVars, age, cfg, last, occ, skipped, baseVars>>

KeptLine ==
  /\ tpc = "resume"
  /\ rx_ringbuf' = <<>> /\ rx_enabled' = TRUE
  /\ last' = cfg
  /\ age' = Older(age)
  /\ tpc' = "occupied"
  /\ UNCHANGED <<regVars, radarVars, line_buf, cur_state, cfg, occ, skipped, baseVars>>

(* and after 200 ms the receiver on again, with nothing left of what came  *)
(* before.  (The work item has long run: the node's threads yield to it.)  *)
Resume ==
  /\ tpc = "resume"
  /\ rx_ringbuf' = <<>> /\ line_buf' = <<>> /\ rx_enabled' = TRUE
  /\ last' = cfg
  /\ age' = Older(age)
  /\ tpc' = "occupied"
  /\ UNCHANGED <<regVars, radarVars, cur_state, cfg, occ, skipped, baseVars>>

EverPresent ==
  /\ tpc = "occupied"
  /\ occ' = cur_state.present
  /\ tpc' = "publish"
  /\ UNCHANGED <<regVars, radarVars, uartVars, age, cfg, last, skipped, baseVars>>

mmwave_is_occupied ==
  /\ tpc = "occupied"
  /\ occ' = (cur_state.present /\ age <= Staleness)
  /\ tpc' = "publish"
  /\ UNCHANGED <<regVars, radarVars, uartVars, age, cfg, last, skipped, baseVars>>

Publish ==
  /\ tpc = "publish"
  /\ regmap_publish_mmwave(occ)
  /\ tpc' = "sleep" /\ occ' = FALSE /\ skipped' = FALSE
  /\ UNCHANGED <<radarVars, uartVars, age, cfg, last, baseVars>>

PeriodEnds ==
  /\ tpc = "sleep"
  /\ age' = Older(age)
  /\ tpc' = "ctrl"
  /\ UNCHANGED <<regVars, radarVars, uartVars, cfg, last, occ, skipped, baseVars>>

-----------------------------------------------------------------------------
(* The base station's side: config_mode.c keeps its own copy of a setting  *)
(* it has written.  A write that reports an error may have had its effect. *)

Entered == base = "idle" /\ sets < MaxSets /\ sets' = sets + 1 /\ UNCHANGED restarts
Fault   == faults < MaxFaults /\ faults' = faults + 1
Wrote(a, v) == regmap_write(a, v) \/ UNCHANGED regVars

configure_max_gate ==
  /\ Entered
  /\ \E g \in Gates :
       \/ /\ regmap_write(REG_MMW_MAX_GATE, g)
          /\ current' = [current EXCEPT !.gate = g]
          /\ UNCHANGED faults
       \/ Fault /\ Wrote(REG_MMW_MAX_GATE, g) /\ UNCHANGED current
  /\ UNCHANGED <<radarVars, uartVars, age, threadVars, base, wanted>>

configure_absence_delay ==
  /\ Entered
  /\ wanted' \in Delays
  /\ \/ regmap_write(REG_MMW_ABSENCE_0, Low(wanted')) /\ base' = "high" /\ UNCHANGED faults
     \/ Fault /\ Wrote(REG_MMW_ABSENCE_0, Low(wanted')) /\ UNCHANGED base
  /\ UNCHANGED <<radarVars, uartVars, age, threadVars, current>>

OneByteDelay ==
  /\ base = "high" /\ base' = "idle"
  /\ current' = [current EXCEPT !.absence = wanted]
  /\ UNCHANGED <<regVars, radarVars, uartVars, age, threadVars, wanted, sets, faults, restarts>>

AbsenceHigh ==
  /\ base = "high" /\ base' = "idle"
  /\ \/ /\ regmap_write(REG_MMW_ABSENCE_0 + 1, High(wanted))
        /\ current' = [current EXCEPT !.absence = wanted]
        /\ UNCHANGED faults
     \/ Fault /\ Wrote(REG_MMW_ABSENCE_0 + 1, High(wanted)) /\ UNCHANGED current
  /\ UNCHANGED <<radarVars, uartVars, age, threadVars, wanted, sets, restarts>>

-----------------------------------------------------------------------------
(* A bus master switches the radar off or on. *)
WriteCtrl ==
  /\ \E v \in CtrlWrites : regmap_write(REG_CTRL, v)
  /\ UNCHANGED <<radarVars, uartVars, age, threadVars, baseVars>>

Restarting == restarts < MaxRestarts /\ restarts' = restarts + 1

AssumedDefaults ==
  /\ Restarting
  /\ regmap_init
  /\ rx_enabled' = TRUE /\ rx_ringbuf' = <<>> /\ line_buf' = <<>>
  /\ cur_state' = [present |-> FALSE, range_cm |-> 0] /\ age' = 0
  /\ tpc' = "ctrl" /\ cfg' = Config(5, 5) /\ last' = Config(5, 5) /\ occ' = FALSE
  /\ skipped' = FALSE /\ owed' = 1
  /\ UNCHANGED <<sending, radar, base, wanted, current, sets, faults>>

(* The node restarts: regmap_init and mmwave_init, whose command the radar *)
(* answers.  Whatever the radar was sending, the node gets the rest of it. *)
NodeRestart ==
  /\ Restarting
  /\ regmap_init
  /\ rx_enabled' = TRUE /\ rx_ringbuf' = <<>> /\ line_buf' = <<>>
  /\ cur_state' = [present |-> FALSE, range_cm |-> 0] /\ age' = 0
  /\ tpc' = "ctrl" /\ cfg' = NoConfig /\ last' = NoConfig /\ occ' = FALSE
  /\ skipped' = FALSE /\ owed' = 1
  /\ UNCHANGED <<sending, radar, base, wanted, current, sets, faults>>

(* The base station restarts, perhaps between the two bytes of a delay.    *)
BaseRestart ==
  /\ Restarting
  /\ base' = "idle" /\ current' = Config(5, 5)
  /\ UNCHANGED <<regVars, radarVars, uartVars, age, threadVars, wanted, sets, faults>>

-----------------------------------------------------------------------------
Thread ==
  \/ TestCtrl \/ ReadConfig \/ Pause \/ SendFrame \/ Resume
  \/ mmwave_is_occupied \/ Publish \/ PeriodEnds

Next ==
  \/ RadarBegins \/ uart_isr \/ feed_byte
  \/ Thread
  \/ configure_max_gate \/ configure_absence_delay \/ AbsenceHigh
  \/ WriteCtrl \/ NodeRestart \/ BaseRestart

Spec == Init /\ [][Next]_vars

(* The mmWave thread is periodic; a transfer that has begun ends, unless   *)
(* the base station restarts.                                              *)
FairSpec == Spec /\ WF_vars(Thread) /\ WF_vars(AbsenceHigh)

-----------------------------------------------------------------------------
TypeOK ==
  /\ RegTypeOK
  /\ Len(sending) <= LineMax /\ owed \in 0 .. 1
  /\ rx_enabled \in BOOLEAN /\ Len(rx_ringbuf) <= RingMax /\ Len(line_buf) <= LineMax
  /\ cur_state \in [present : BOOLEAN, range_cm : Nat]
  /\ age \in 0 .. Staleness + 3
  /\ tpc \in {"ctrl", "config", "pause", "send", "resume", "occupied", "publish", "sleep"}
  /\ \A c \in {cfg, last, radar} : c = NoConfig \/ (c.gate \in Digit /\ c.absence \in 0 .. Radix * Radix - 1)
  /\ occ \in BOOLEAN /\ skipped \in BOOLEAN
  /\ base \in {"idle", "high"} /\ sets \in 0 .. MaxSets /\ faults \in 0 .. MaxFaults
  /\ restarts \in 0 .. MaxRestarts

(* What the parser acts on is a line the radar sent whole, be it that the  *)
(* state changes or that it only gets younger: no pause of the receiver in *)
(* the middle of a line, no reply before one and no line too long for the  *)
(* buffer makes it take pieces of two lines for one -- nor for a third     *)
(* one, since a fragment tells the line that it is from.                   *)
AcceptedLineIsWhole ==
  [][((cur_state' # cur_state \/ age' < age) /\ restarts' = restarts) => FedLine \in Lines]_vars

(* The published occupancy is never older than the staleness limit, the    *)
(* period of the thread and the pause of a reconfiguration together: a     *)
(* radar that falls silent is not reported as an occupied room.  The code  *)
(* does not promise this of a radar that is switched off in CTRL: a thread *)
(* that has skipped a turn leaves the old value until it publishes again.  *)
PresenceIsFresh ==
  (regs[REG_MMW_PRESENT] = 1 /\ ~skipped) => age <= Staleness + 2

(* The radar, the node's registers and the values the menu shows agree     *)
(* when the thread has seen the user's last setting, as long as no write   *)
(* has failed and no board has restarted -- also when the thread has read, *)
(* and applied to the radar, a delay of which only one byte was new.       *)
RadarMatchesMenu ==
  (faults = 0 /\ restarts = 0 /\ base = "idle" /\ tpc # "resume" /\ last = NodeConfig)
    => radar = current

(* After the user's last setting, failed or not, and the last restart, the *)
(* radar gets what the registers hold, unless it is switched off again and *)
(* again: a node that starts anew does not take it for granted that the    *)
(* radar has its defaults, and what was set while the radar was switched   *)
(* off is sent when it is on again.                                        *)
ConfigConverges == <>[]IsEnabled => <>[](radar = NodeConfig)

=============================================================================
