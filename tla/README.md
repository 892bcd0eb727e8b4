# BLETracker: specifications and proofs

BLETracker is Zephyr firmware for an nRF52840 that polls a u-blox SAM-M10
receiver over I2C and notifies each fix to a phone through the Bluetooth
Location and Navigation Service (LNS). This directory holds TLA+ models of the
firmware in `src/src`, the TLC configurations that check them on small
instances, and TLAPS proofs for all instances.

## 1. Inventory

| Component | State it keeps | Operations | Talks to |
|---|---|---|---|
| Main loop, `main.c` | `main_events`, `pvt_timer` | start-up, `k_event_wait` loop, `m10_pps_cb`, `pvt_timer_hander` | GNSS application, Bluetooth core, LED |
| M10 hardware access, `M10_hw.c` | callback, `m10_pps_enabled`, pins | `M10_hw_random_read`, `M10_hw_write_stream`, `M10_hw_reset_pulse`, `M10_hw_pps_enable`, LED | I2C, GPIO, interrupt |
| UBX protocol, `ubx.c` | none (caller's buffers) | build, verify, `ubx_poll_message`, `ubx_send_message`, `ubx_cfg_valset_u1` | M10 hardware access |
| GNSS application, `app_m10.c` | `rx_buffer`, `tx_buffer`, `started` | `app_m10_start`, version query, configuration, `m10_pvt_update` | UBX, Bluetooth core |
| Bluetooth core, `ble_core.c` | `default_conn`, `lns_notify_enabled`, `state` bits | `ble_init`, `on_connected`, `on_disconnected`, `on_recycled`, advertising | Bluetooth stack |
| LNS, `ble_lns.c` | `lns_feature`, `lns_cb`, `loc_speed_attr` | `ble_lns_init`, CCC callback, encode, notify | Bluetooth stack |
| Battery monitor, `app_battery.c` | `battery_timer`, `battery_work` | timer, work handler, level | ADC, Battery Service |
| `ubx_messages_header.h` | none | generated structures and masks | |

Threads and interrupts: the main thread (preemptible); the Bluetooth stack's
cooperative threads, which run the connection and CCC callbacks; the system
work queue, which runs the battery work; the 1PPS interrupt and the timer
interrupts, which post events. Shared between them are `main_events`,
`pvt_timer`, `lns_notify_enabled` (atomic) and `default_conn` (a plain
pointer).

What is hard, and what makes each component correct:

- **Main loop.** Events posted while it polls are lost, because the next
  `k_event_wait` clears them; the first tick turns the periodic timer into a
  one-shot that only later ticks restart. Correct: polls stay close together,
  never stop while ticks come, and never run in the pass of their own tick.
- **GNSS link.** One byte stream carries answers, acknowledgements and unasked
  text; reads cut it anywhere; answers come late, in portions or not at all;
  I2C transactions fail, some errors are ignored; the processor may restart
  while the receiver keeps talking. Correct: what is taken for a fix is a PVT,
  is fresh, and is never taken twice; an acknowledged configuration means
  silence; no receiver holds the main thread up.
- **Bluetooth core.** One connection object with reference counts; callbacks
  interleave with the main thread, one of them sleeps for a second. Correct:
  the pointer, the reference and the flag follow the connection there is; a
  phone can always find the tracker again; what is notified fits.
- **LNS encoder.** The phone knows a field only by the flags before it, and
  the buffer has room for the implemented fields only. Correct: whatever is
  requested and sampled fits, and the phone reads every field it is told of.
- **UBX frames.** 16-bit lengths that wrap, a receive buffer that is never
  cleared. Correct: a frame is accepted exactly if it arrived whole.
- **Message structures, value conversion.** Casts to structures that are not
  packed, flags of which only some bits mean a fix, signs and 16-bit limits.
  Correct: the phone is told what the receiver said.
- **Battery.** A timer and one work item; thresholds and 8-bit results.
  Correct: the level is fresh and is that of the voltage.
- **Loop and Bluetooth together.** Each is right alone; whether a phone is
  sent its fixes depends on both. Correct: no order of ticks, polls,
  callbacks and MTU exchanges keeps a fix from a phone that is ready for it.

Every hazard, with its line and the property that covers it, is listed in
`PROJECT.json`.

## 2. Plan

1. `MainLoop`, with the code's delays as parameters; `MainLoop_proofs`. *Done.*
2. `GnssLink`, refining the abstract `FixFeed`; `GnssLink_proofs` with
   `SilentOnceAcked`, `GnssFixes_proofs` with the fixes and the refinement.
   *Done.*
3. `BleCore`; `BleCore_proofs`. *Done.*
4. The codecs: `UbxMessages` and `UbxLayout` (structures), `LnsService`
   (features and encoder), `PvtSample` (from a verified answer to the sample),
   `UbxFrame` (build and verify, byte by byte); `UbxFrame_proofs` and
   `PvtSample_proofs`. *Done.*
5. `Battery`, with the start-up sequence of `main`; `Battery_proofs`. *Done.*
6. `Tracker`, `MainLoop` and `BleCore` as one program; `Tracker_proofs`.
   *Done.* The composition with `GnssLink` is left out: what the loop sees of
   it is how long an update takes and whether it has a fix, both free here.
7. An abstract specification of the polls that `MainLoop` implements was
   planned; `BoundedSilence` and `PollsForever` say all that it would.
8. Every safety property that has parameters is proved for all their values,
   and two of the liveness properties under one hypothesis; what is left to
   TLC, and why, is at the end of section 5.

## 3. Modules

### MainLoop (main.c, parts of M10_hw.c)

`pc` is the main thread's place: `enable` and `arm` are the two calls before
the loop, `loop` is just before `k_event_wait`, `wait` inside it, `woken` and
`pvt` are the two `if`s, `update` is `m10_pvt_update`, `exited` is a `return`
from main. `events` is what `main_events` records, `got` what the wait
returned. `Wait` clears the record first, since `reset` is true; `Post` wakes
a waiting thread with what is then recorded. `timer` is a kernel timer:
remaining time and period, period 0 for `K_NO_WAIT`.

Time is discrete. Statements and interrupts take none and interleave freely
within an instant; `ClockTick` passes one unit when every due interrupt has
run and the main thread is blocked. `m10_pvt_update` takes any time up to
`MaxUpdate`: 80 ms and 40 reads 20 ms apart. The receiver marks seconds with
an edge while it is `locked`, which changes at any time, as does the phone's
subscription `notify`.

`since` is a ghost: the time since the last handled `EVT_PVT_TIMER`, counted
only while a poll is owed, that is before the first tick (the timer is
periodic) and while the receiver is locked. Without 1PPS the code stops
polling after its first lock: nothing is owed then.

The assumption on the constants is the order of the code's delays: the poll
delay is shorter than a second, an update shorter than the period of the
timer, the period at most a second. `MaxUpdate` counts the sleeps of a poll;
the time of the I2C transfers, of a drain of many reads and of
`bt_gatt_notify` is taken to be none.

`MainLoopTicks` adds the history variable `missed` to it: `k_event_post`
leaves a tick recorded also when it has woken the thread, so the record alone
does not tell a tick that was handled from one that nobody has seen.

### GnssLink and FixFeed (app_m10.c, ubx.c, M10_hw.c)

The host side is the main thread in `app_m10_start` and `m10_pvt_update`: one
action per I2C transaction pair or check. `Reads` is the set of outcomes of
`M10_hw_random_read`, with its two ways to fail; `Drain`, `Write`, `Read` are
`ubx_poll_message`, shared by the version and the PVT poll through `cmd`;
`SetDrain`, `SetWrite`, `SetRead` are `ubx_send_message`, where read errors do
count; `CheckVersion` and `CheckPvt` are what the callers look at. `rx`
persists between reads as the static buffer does. `StepsLeft` counts the
steps that start-up or an update still takes at most, from the counters of the
two loops; `PollsEnd` says that each of them lowers it.

The receiver is the environment: it writes NMEA text while its output is on,
answers requests in their order, switches the output off when it carries out
the configuration, and forgets everything on a reset pulse. What goes wrong is
chosen by the constant `Env`; without `late`, answers arrive before the code
stops waiting and before the next poll begins. `Reboot` restarts the processor
at any place; the receiver stays powered.

The stream is a sequence of cells. Sizes keep the order of the real ones (ACK
< PVT < VER < buffer), which is what the length checks distinguish; NMEA text
is one cell, since how long it is only matters for being there. Checksums are
abstracted: a sequence of cells passes `ubx_verify_msg` exactly if it is one
whole frame. Corruption of bytes on the bus is not modelled.

`FixFeed` is the promise in three variables: requests asked, the request the
last fix answers, the number of fixes. `FixesAreAnswers` is `FixFeed!Spec`
under the mapping `asked <- req, last <- taken.id`.

### BleCore (ble_core.c, parts of ble_lns.c, app_m10.c, main.c)

`link` is the one connection object (`CONFIG_BT_MAX_CONN=1`), `conn` numbers
its lives. `Connected` is `on_connected` up to its sleep, `Negotiate` the rest;
`Disconnected` is the stack's reset of the CCC, `on_disconnected`, and the
release of the stack's reference; `Recycled` is `on_recycled`, enabled only
when no reference is left. The main thread is cut between its calls:
`GetConn`, `CheckMtu` (`bt_gatt_get_mtu`, 0 without a connection, and the
unsigned `mtu - 3U`), `Notify`. The `state` bits are only ever set and never
read; they are left out.

External, and assumed of the stack: callbacks of a connection do not overlap,
also not with the sleep of `on_connected` (the event of a lost link waits
behind it); an unbonded phone's CCC is reset when its link is lost; the object
is recycled when its last reference goes; connectable advertising ends with a
connection; the phone writes 0 or `BT_GATT_CCC_NOTIFY` to the CCC, since the
characteristic has no indications to ask for besides.

### Tracker (main.c with ble_core.c, ble_lns.c, app_m10.c)

Instances of `MainLoop` and `BleCore` that share `notify`, an input of the one
and an output of the other. `Boot`, `StartUpdate` and `EndUpdate` are steps of
both, since there is one main thread: `EndUpdate` is a return from
`m10_pvt_update`, without a fix (`NoFix`), without having sent it (`NotSent`)
or from `bt_gatt_notify` (`Notify`). The other actions are steps of one side.
`bt_gatt_notify` is taken not to block, so no time passes between the look-up
of the connection and the end of the update. The time spent before the loop is
in `Battery`.

`quiet` is a ghost: for how long a fix has been `Owed` to a phone that is
connected, subscribed and has its MTU, while polling goes on. `NoFix` ends the
debt, since then there was nothing to send.

### UbxFrame (ubx.c, M10_hw.c)

`ubx_build_msg` and `ubx_verify_msg`, one action per pass of the checksum loop,
with the bus between them: `Transfer` delivers the frame, less of it, more of
it or the frame with one wrong byte, and what it does not overwrite is left of
earlier reads. A byte has `Byte` values and a 16-bit number `Byte * Byte`, so
that lengths wrap as in the code. The CFG-VALSET payload of
`ubx_build_cfg_valset_payload` is one of the payloads. `sum_a` and `sum_b` are
ghosts, the sender's sums before each place.

### UbxMessages and UbxLayout (ubx_messages_header.h, its supplement)

`UbxMessages` lists, for every message of the headers, its id and for each
structure the type, array length and `_GET` masks of every field, in order.
`UbxLayout` gives a structure the layout of C (each field aligned to its size,
the whole to its widest field) and the one of the protocol, without gaps:
`Ends` and `WireEnds` are the ends of the fields in the two.

### LnsService and PvtSample (ble_lns.c, ble_lns.h, app_m10.c)

`LnsService` has the features of `ble_lns_init` and `encode_loc_speed`. Bits
are bit numbers, a byte is known by its value and its place in it. On the
other side `PhoneReads` looks for a field where the Bluetooth definition of
the characteristic has it. `PvtSample` is the second half of
`m10_pvt_update`: `Receive` puts the receiver's values where its protocol has
them, `Read` reads them through the structure of `UbxLayout`, `Convert` makes
the sample and notifies it. `NotifySample` calls the service with all other
combinations of flags, which its header allows. `SampleAssumption` has flags
of 16 bits and measurements that are integers; nothing is assumed of the masks
of features and the MTUs. Latitude, longitude and the
parts of the time are copied as they are and are not followed.

### Battery (app_battery.c, main.c)

`main` is the start-up sequence with its early returns. The timer submits the
one work item, which waits for the work queue and the ADC for up to `Latency`
and then either sets the level or fails. `Raw` is the ADC, 12 bits of 3600 mV,
`Microvolts` the driver's conversion. `sampled`, `age` and `failures` are
ghosts.

## 4. Runs

| Run | Module, configuration | Shows |
|---|---|---|
| `mainloop` | `MainLoop`, `MCMainLoop.cfg` | `TypeOK`, `BoundedSilence`, `LedShowsPoll`, `OneEventPerWakeup`, `PollsForever` with the real delays in units of 40 ms, their greatest common divisor |
| `mainloop_ticks` | `MainLoopTicks`, `MCMainLoopTicks.cfg` | *violated:* a tick during an update is lost |
| `gnss_clean` | `GnssLink`, `MCGnssClean.cfg` | `TypeOK`, `FreshFix`, `SilentOnceAcked`, `ConfiguredPollsSucceed`: receiver in time, configuration perhaps refused, reset pulse perhaps failing |
| `gnss_faulty` | `MCGnssFaulty.cfg` | `AcceptedIsPvt`, `SilentOnceAcked`, `FixesAreAnswers`, and `PollsEnd`: every poll comes to its end, under every trouble but a failing reset pulse |
| `gnss_version` | `MCGnssVersion.cfg` | *violated:* the version answer need not come alone |
| `ble` | `BleCore`, `MCBleCore.cfg` | `TypeOK`, `ConnTracked`, `FlagIsSubscription`, `FitsMtu`, `AlwaysReachable`, `FixesReachPhone` |
| `ble_held` | `MCBleCoreHeld.cfg` | *violated:* the pointer the main thread holds has no reference |
| `ble_wrap` | `MCBleCoreWrap.cfg` | *violated:* without a connection, a fix that does not fit is not refused |
| `tracker` | `Tracker`, `MCTracker.cfg` | `HeardInTime`: a phone that is owed a fix is sent it within a second, a poll delay and an update |
| `frame` | `UbxFrame`, `MCUbxFrame.cfg` | `TypeOK`, `AcceptedIffIntact`: accepted exactly if it arrived as it was built |
| `pvtsample` | `MCPvtSample`, `MCPvtSample.cfg` | `TypeOK`, `FitsBuffer`, `PhoneParses` (encoder), `OverlayExact` (every structure of the headers), `ToldWhatWasSaid`, `MotionFaithful` (conversion) |
| `battery` | `Battery`, `MCBattery.cfg` | `TypeOK`, `LevelFresh`, `LevelFaithful` with the real delays |

**Bounds.** `MainLoop` has none but that `since` stops counting one past
`MaxSilence`: nothing else in it grows. The bound of `BoundedSilence` is
tight: one unit less is violated. `GnssLink`: two or three PVT requests and
one restart (a stale answer needs two requests, an answer from before a
restart one), a stream that grows past one read (`MaxStream` 5, reads of 4
cells) so that the drain takes more than one, two or three reads where the
code allows 100 and 40, two unanswered requests. `BleCore`: three connections
(a stale pointer needs two), the two lengths a fix can have (14 bytes, 21 with
the time), and 2^16 for the size of unsigned int, which only has to exceed the
MTU. `Tracker`: two connections, the longer length, delays in units of 200 ms,
which keeps their order; `quiet` is bounded because the property holds, and
the bound is tight. With the real delays in units of 40 ms it holds too (three
million states). `UbxFrame`: four values per byte, so that a payload of
four bytes needs both bytes of the length, and a wrong length wraps at 16;
payloads of up to four bytes, the longest of which makes a frame that fills
the buffer; every payload and every transfer is tried. `PvtSample`: all
feature masks and field flags, all structures, and motions at and next to
every limit of the code (0, the clamp, a turn, the ends of 32 bits).
`Battery`: no bound but two failed readings in a row; voltages at and next to
both thresholds. `CHECK_DEADLOCK` is off where main may return for good, where
a bound ends the environment, or where a frame has been judged.

**Fairness.** `MainLoop`: a ready main thread and a pending interrupt run, and
time passes (weak fairness on each); nothing is assumed of the phone or the
receiver. `BleCore`: `ble_init` is executed, the stack runs the callbacks it
owes, and the main thread goes on (weak fairness); polls that go on bring a
fix at some time (strong fairness of `GetConn`, which a poll without a fix
disables again). That polls go on is `PollsForever` of `MainLoop`. Nothing is
assumed of the phone, and `AlwaysReachable` excludes a `bt_le_adv_start` that
failed, which the code never retries. The other modules state no fairness but
`MainLoopTicks`, which has that of `MainLoop`: their properties are safety
properties. That polls of `GnssLink` end is one too, `PollsEnd`, since the
code counts its passes.

**What the violated runs say.** (1) `docs/M10_design.md:37-41` has every 1PPS
interrupt lead to a poll; `main.c:84` throws away those that arrive during an
update: in the run the update lasts until the next tick, which is recorded when
it returns, and the wait that follows clears it and blocks. `BoundedSilence` bounds the damage: one second is skipped, never two.
(2) `docs/M10_design.md:26-28` disables all messages before it reads the
version; `app_m10.c:223-230` does it after, so that a burst of text at the
wrong moment ends start-up for good. (3) `ble_core.h:30` promises a reference;
`ble_core.c:224-227` returns a bare pointer, which `on_disconnected` may leave
without any reference while it is in use. (4) `ble_lns.h:152` promises
`-EMSGSIZE` for a fix that does not fit the MTU; when the link is lost before
the MTU is asked for it is 0, `mtu - 3U` (`ble_lns.c:219`) wraps around, and the
fix goes on to `bt_gatt_notify`, which has to refuse it. `FitsMtu` bounds the
damage: none goes to the connection it was measured for while that is up.

Also seen, with no document against it: if the reset pulse fails (it is only
logged, `app_m10.c:218`) and the processor restarts while a version answer is
owed, that answer can later be taken for a PVT, since `m10_pvt_update` checks
neither class nor id. With the MTU a connection begins with, a fix with its time
never fits; `update_mtu` is not tried again, so such a phone is sent nothing
but fixes without a time. Six structures of the headers are not laid out by the
compiler as their messages are; the firmware uses none of them.

Places where a comment says other than the code, with no run of their own:
`app_battery.c:101` has the battery read every 60 seconds, line 12 makes it
300; `ble_lns.h:138` promises `-EINVAL` for features that are defined and not
implemented, `ble_lns.c:186` masks them out; `ble_lns.h:135` allows a callback
of `NULL`, which `ble_lns.c:194` asserts against.

## 5. Proofs

`MainLoop_proofs` proves `TypeOK`, `BoundedSilence`, `LedShowsPoll` and
`OneEventPerWakeup` for all delays that satisfy `TimingAssumption`. The
properties say nothing of how old a pending event is, so none is inductive.
`IInv` adds it, in parts: while the timer is periodic, elapsed and remaining
time add up to at most a period (`PeriodicInv`); after a tick, the timer runs
in step with the second, with the next edge behind its expiry (`ArmedInv`);
from the expiry to the next tick served, the phase of the second bounds the
time since the poll, through an update that may swallow one edge but not two
(`IdleInv`); a tick is handled in the instant of its edge (`TickInv`); the LED
follows (`LedInv`). `InitInv` and `StepInv` show that `IInv` is inductive, one
step per action; `PostEffect` is the lemma that a waiting thread is woken with
the posted event alone.

`BleCore_proofs` proves `TypeOK`, `ConnTracked`, `FlagIsSubscription` and
`FitsMtu` for any number of connections, any set of lengths and any width of
unsigned int. `IInv` adds that nothing exists before `ble_init` and that the
main thread never holds a connection that is still to come, so that a new one,
with its small MTU, is never mistaken for the one the length was checked
against.

It also proves `AlwaysReachable` and `FixesReachPhone`, for any number of
connections, up to one hypothesis. `GuardsEnable` says that a step that is
owed can be taken when its guard holds; it is about ENABLED, of which the
provers know nothing. It is so by the form of the actions, which after their
guards only give every variable a value (`GetConn` needs a length to give).
What is proved is the rest, leads-to: a lost connection is in one of five
places (`Places`), from each of which there is one way on (`Onward`) and a
callback that takes it (`CallbacksTake`), whose guard holds there because no
reference is left (`CallbacksEnabled`). A main thread that serves a ready phone
goes through four places to `bt_gatt_notify` (`Towards`), and back from them
only to the loop, which strong fairness of `GetConn` leaves for good.
`FixesReach` needs that the lengths of a fix fit the large MTU (`FixesFit`: 21
and 244 bytes). TLC checks both properties in the run `ble` without the
hypothesis.

`GnssLink_proofs` proves `SilentOnceAcked` for all bounds and every subset of
the troubles, so also when the reset pulse fails. The property speaks of the
text that is left to be read, the code only of one frame it has read, so
`IInv` says how the two are related: an ACK anywhere in the stream means that
the output is off and that no text is behind it (`AckInv`), and the rest of a
split answer holds neither text nor ACK (`TailInv`). A read that brings
nothing but the ACK and leaves nothing (`AckTaken`) has then emptied the
stream. `ReadKeeps`, `AppendKeeps` and `RespondKeeps` say what a read, an
append and an answer do to a stream of any length.

`UbxFrame_proofs` proves `TypeOK` and `AcceptedIffIntact` for every number of
values of a byte, every set of lengths and contents and every buffer below the
16-bit limit. That a checksum of two sums catches one wrong byte is a fact
about sums of any length, which needs induction over the data; the loops of
the code supply it. `sum_a` and `sum_b` keep the sender's sums at each place
(`SumsInv`), and the invariant of the second loop compares them: before the
wrong byte the sums agree, from it on `ck_a` differs for good and decides
(`AddCancels`: a sum in a group tells its summands apart). `Announced` and
`Arrived` handle the length and the old copy behind a cut frame.

`Battery_proofs` proves `TypeOK`, `LevelFresh` and `LevelFaithful` for all
delays with a reading shorter than the interval, all voltages and any bound on
failures. `LevelStands` and `LevelOfPin` are the arithmetic of the three
roundings, of the ADC, of the driver and of the percentage; the invariant
ties the age of the level to the time left and to a work item that waits.

`Tracker_proofs` proves first that the composition implements both its parts
(`IsBleCore`, `IsMainLoop`): each of its steps is a step of `BleCore` or
leaves it alone, and for `MainLoop` every callback is a change of the flag or
nothing. With that, both inductive invariants hold of the whole and need not
be proved again. `IInv` adds what relates the two: the places of the main
thread agree (`InStep`); only what is owed is counted, and a connection that
was replaced while the main thread held it leaves no debt (`DebtInv`); what
has been waited for is less than the time left to the next expiry or edge
allows (`WaitInv`). Two lemmas carry the argument on the Bluetooth side: the
calls on the connection end with nothing sent only if nothing is owed
(`NothingLost`), so the end of an update leaves no debt (`PaidAtEnd`).
`HeardSoon` then is `HeardInTime` for all delays, lengths up to the 244 bytes
that fit, and numbers of connections. `PartsHold` collects what the two
refinements give: the safety properties of either part hold of the whole.

`GnssFixes_proofs` proves the rest of `GnssLink`, for all bounds.

- `TypeOK` in every environment. That a poll takes at most one fix for each
  request it writes (`CountInv`) is what types the requests.
- `PollsEnd` in every environment (`PollsAreFinite`). The indices stay below
  their limits (`TypeOK`), so `StepsLeft` is a natural number (`StepsAt`), and
  each branch of each step lowers it (`StepsAfter`, `StepsFewer`). With
  100 and 40 passes a poll has at most 142 steps.
- `AcceptedIsPvt` and the refinement of `FixFeed`, as long as the reset pulse
  works (`ResetWorks`): the code checks neither class nor id of what it takes
  for a PVT, so it is order that protects it. `Line` is what was read, what is
  in the stream and the rest of a split answer, with the requests that wait
  behind it. Along it PVT answers have growing numbers (`InOrder`), all later
  than the last fix (`LaterInv`), and once start-up has its version none is
  owed (`VersionInv`). Two facts carry the argument: a read takes a prefix of
  the line, and the receiver only ever changes its end.
- `ConfiguredPollsSucceed` with a prompt receiver and a bus without errors
  (`Prompt`), also when the configuration is refused or the reset fails. Once
  the output is off, a poll under way finds the stream empty, writes, and finds
  its whole answer and nothing else (`PollUnderWay`).
- `FreshFix` with such a receiver, a reset that works, and a drain that takes
  more than the receiver can hold (`Fresh`). The last is needed, and nothing in
  the code says so: text alone can make a poll fail and leave its answer
  behind, and the drain of the next poll has to get to it. `DrainInv` holds
  the place of the old answer against the reads that are left. With a drain of
  one read in `MCGnssClean.cfg`, TLC finds a stale fix. The code reads 100
  buffers at most.

`PvtSample_proofs` proves all properties of `PvtSample` and `LnsService`, one
of them in part, for any measurements, masks of features, flags and MTUs. From the
structure of NAV-PVT as `UbxMessages` has it, `PvtOffsets` computes where the
compiler puts the four fields that are read, and `PvtMasks` which bits the
macros select: both are the receiver's. `SpeedFaithful` and `HeadingFaithful`
are the arithmetic, for all integers: a division that truncates and a
remainder brought back to the circle stay less than a unit behind
(`UnitOnCircle`). `FourFields` says that the encoder puts out at most four of
its seven fields in the characteristic's order, `PhoneOffsets` where a phone
looks for each; `FourSlices` brings the two together. `EncodedFields` says
which flags reach the phone. `SampleInv` then is that
what is told, read, received and buffered belongs together. The offsets, the
concatenation and the phone's sums are recursive functions over 33, 7 and 8
places; each is shown to be well defined by a table that satisfies its
equation.

`OverlayExact` is proved of the two structures the firmware casts received
bytes to (`CastsExact`). It follows from a criterion for structures of any
length: a cast is exact if and only if every field begins at a multiple of its
size in the message and the message is a multiple of the size of each
(`OverlayCriterion`). For that the layouts, which are recursive over the
fields, have to be known for every length. The library's induction theorems
have an operator as parameter; `Induction` is stated with a set instead and
follows from the library's least element of a well-founded order, `Recursion`
and `EndsRules` from it.

Only model-checked:

- `PollsForever`. It needs induction over time inside temporal logic: that
  time passes until the next event is due, for delays of any length. How long
  it may take until a poll is `BoundedSilence`, which is proved.
- `OverlayExact` for the structures the firmware does not cast to. It has no
  parameter: the run goes through all structures of the two headers, so that a
  proof, one list of offsets after the other, would add nothing.
- That the steps of `GuardsEnable` are enabled. TLC, which computes ENABLED
  itself, finds the two properties true for three connections.

## 6. Not modelled

- The callbacks that only log, the `state` bits, which nothing reads, and
  `EVT_BLE_CONFIG_UPDATED`, which nothing posts.
- `app_battery_stop` and `ble_adv_stop`, which nothing calls;
  `read_ln_feature`, which returns `lns_feature` and changes nothing; functions
  that `app_m10.h` and `M10_hw.h` declare and no file defines.
- A negative ADC sample: what the 16-bit buffer of `app_battery.c:54` then
  holds is the driver's affair. Voltages are from 0 to 3599 mV.
- Latitude, longitude, the parts of the time, and the names of message fields.
- An I2C transaction that fails after part of its bytes: in `GnssLink` it has
  taken all of them from the receiver, or none.
- A CCC value of 3, notifications and indications, which a phone has no reason
  to write here; `ble_lns.c:50` would take it for off.
- Corruption of more than one byte of a frame, which the checksum is not made
  for.
- Configuration, board and build files; the values of them that matter (one
  connection, MTU 247) are constants.
