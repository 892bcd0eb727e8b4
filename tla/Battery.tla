------------------------------- MODULE Battery ------------------------------
(***************************************************************************)
(* Start-up of the tracker (main.c:43-73) and the battery monitor it       *)
(* starts on the way (app_battery.c): a timer submits a work item, the     *)
(* system work queue executes it, the work item reads the ADC and sets the *)
(* level the phone reads from the Battery Service.                         *)
(*                                                                         *)
(* Time is discrete.  Statements and interrupts take none; the work item   *)
(* waits for the work queue and for the ADC.                               *)
(***************************************************************************)
EXTENDS Integers

CONSTANTS
  First,        \* K_SECONDS(1), delay of the first reading
  Interval,     \* APP_BATTERY_READ_INTERVAL_SEC
  Latency,      \* longest time from k_work_submit to the level
  Pins,         \* voltages at the pin, in mV
  MaxFailures   \* bound: readings that fail in a row

ASSUME BatteryAssumption ==
  /\ First \in Nat /\ Interval \in Nat /\ Latency \in Nat
  /\ First <= Interval /\ Latency < Interval
  /\ MaxFailures \in Nat
  /\ Pins \subseteq 0 .. 3599

VARIABLES
  main,         \* where the main thread is
  armed, left,  \* battery_timer: running, and time to its expiry
  queued, wait, \* battery_work: submitted, and for how long
  level,        \* what the Battery Service shows
  sampled,      \* ghost: voltage the level was computed from, or NotYet
  age,          \* ghost: time since the level was set, or monitoring started
  failures      \* ghost: readings that failed since then

timer   == <<armed, left>>
work    == <<queued, wait>>
reading == <<level, sampled, age, failures>>
vars    == <<main, armed, left, queued, wait, level, sampled, age, failures>>

NotYet == -1

Init ==
  /\ main = "ble_init"
  /\ armed = FALSE /\ left = 0 /\ queued = FALSE /\ wait = 0
  /\ level = 100                  \* the Battery Service before any reading
  /\ sampled = NotYet /\ age = 0 /\ failures = 0

-----------------------------------------------------------------------------
(* main, up to its loop.  Where it returns, timers, work queue and         *)
(* Bluetooth go on without it.                                             *)

Call(step, next) ==
  /\ main = step /\ main' \in {next, "exited"}
  /\ UNCHANGED <<timer, work, reading>>

BleInit == Call("ble_init", "battery_init")

\* app_battery_init fails if the ADC is not ready or refuses the channel;
\* otherwise app_battery_start.
BatteryInit ==
  /\ main = "battery_init" /\ main' = "m10_init"
  /\ \/ UNCHANGED timer
     \/ armed' = TRUE /\ left' = First
  /\ UNCHANGED <<work, reading>>

\* app_m10_init: M10_hw_init returns at the first bus, port or pin that is not
\* ready or cannot be configured.
M10Init == Call("m10_init", "m10_start")

\* app_m10_start, which sleeps, and the enabling of 1PPS.
M10Start == Call("m10_start", "loop")

-----------------------------------------------------------------------------
(* The timer and the work item. *)

\* k_work_submit: a work item that waits already is not queued twice.
SubmitFirst == queued' = (queued \/ sampled = NotYet) /\ wait' = wait
Submit      == queued' = TRUE /\ wait' = IF queued THEN wait ELSE 0

\* battery_timer_handler, and the timer starts again.
TimerExpires ==
  /\ armed /\ left = 0
  /\ left' = Interval
  /\ Submit
  /\ UNCHANGED <<main, armed, reading>>

\* The ADC: 12 bits of 3600 mV, that is a gain of 1/6 of the internal 0.6 V;
\* 3600000 / 4096 microvolts are 28125 / 32.
Raw(pin)        == (pin * 4096) \div 3600
Microvolts(raw) == (raw * 28125) \div 32

MAX_PIN == 2100000
MIN_PIN == 1650000

LevelNoMax(uv) ==
  IF uv > MIN_PIN THEN (((uv - MIN_PIN) * 100) \div (MAX_PIN - MIN_PIN)) % 256
  ELSE 0
LevelCoarse(uv) ==
  IF uv >= MAX_PIN THEN 100
  ELSE IF uv > MIN_PIN THEN ((uv - MIN_PIN) \div (MAX_PIN - MIN_PIN)) * 100
  ELSE 0
Level(uv) ==
  IF uv >= MAX_PIN THEN 100
  ELSE IF uv > MIN_PIN THEN ((uv - MIN_PIN) * 100) \div (MAX_PIN - MIN_PIN)
  ELSE 0

\* battery_work_handler.  Errors of the Battery Service are only logged, and
\* are errors of the notification: the level is set.
ReadBattery ==
  /\ queued /\ queued' = FALSE /\ wait' = 0
  /\ \E pin \in Pins :
       level' = Level(Microvolts(Raw(pin))) /\ sampled' = pin
  /\ age' = 0 /\ failures' = 0
  /\ UNCHANGED <<main, timer>>

\* adc_read_dt or adc_raw_to_microvolts_dt fails: nothing is tried again.
ReadFails ==
  /\ queued /\ queued' = FALSE /\ wait' = 0
  /\ failures < MaxFailures /\ failures' = failures + 1
  /\ UNCHANGED <<main, timer, level, sampled, age>>

ClockTick ==
  /\ main \in {"m10_start", "loop", "exited"}
  /\ armed /\ left > 0
  /\ queued => wait < Latency
  /\ left' = left - 1
  /\ wait' = IF queued THEN wait + 1 ELSE wait
  /\ age' = age + 1
  /\ UNCHANGED <<main, armed, queued, level, sampled, failures>>

-----------------------------------------------------------------------------
Next == BleInit \/ BatteryInit \/ M10Init \/ M10Start
        \/ TimerExpires \/ ReadBattery \/ ReadFails \/ ClockTick

Spec == Init /\ [][Next]_vars

-----------------------------------------------------------------------------
(* Properties. *)

TypeOK ==
  /\ main \in {"ble_init", "battery_init", "m10_init", "m10_start", "loop",
               "exited"}
  /\ armed \in BOOLEAN /\ left \in 0 .. Interval
  /\ queued \in BOOLEAN /\ wait \in 0 .. Latency
  /\ level \in 0 .. 100 /\ sampled \in Pins \cup {NotYet}
  /\ age \in Nat /\ failures \in 0 .. MaxFailures

\* Once the monitor runs, the level the phone sees is never older than an
\* interval and the time a reading takes, plus an interval for every reading
\* that failed since: no expiry is lost, no reading is skipped, also after
\* main has returned (app_battery.c:75-78, 99-104).
LevelFresh == age <= (failures + 1) * Interval + Latency

\* A level stands for a voltage so many microvolts above MIN_PIN: it is its
\* percentage of the range up to MAX_PIN, clamped to it and rounded down by
\* less than a percent (450000 hundredths of a microvolt) and a step of the
\* ADC (88000 of them).
StandsFor(percent, above) ==
  /\ above <= 0 => percent = 0
  /\ above >= MAX_PIN - MIN_PIN + 1000 => percent = 100
  /\ above > 0 /\ above < MAX_PIN - MIN_PIN + 1000 =>
       /\ percent * (MAX_PIN - MIN_PIN) <= above * 100
       /\ above * 100 < percent * (MAX_PIN - MIN_PIN) + 538000

\* The level is that of the voltage it was read at (app_battery.c:54-67).
LevelFaithful ==
  sampled # NotYet => StandsFor(level, 1000 * sampled - MIN_PIN)

=============================================================================
