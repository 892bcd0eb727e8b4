------------------------------ MODULE MainLoop ------------------------------
(***************************************************************************)
(* The main thread of the firmware (src/main.c) once the receiver has      *)
(* started: the 1PPS interrupt and the pvt_timer expiry post events, the   *)
(* main thread takes them from main_events, and every EVT_PVT_TIMER it     *)
(* takes polls the receiver for one fix.                                   *)
(*                                                                         *)
(* Time is discrete.  Interrupts and the main thread's own statements take *)
(* no time and interleave freely within an instant; ClockTick lets one     *)
(* unit pass, and only when every due interrupt has run and the main       *)
(* thread is blocked, either in k_event_wait or in the sleeps of           *)
(* m10_pvt_update.                                                         *)
(***************************************************************************)
EXTENDS Integers

CONSTANTS
  PpsPeriod,   \* distance of two 1PPS edges: one second
  PvtDelay,    \* from a tick to its poll                 (main.c:89, 200 ms)
  FirstPoll,   \* first expiry of pvt_timer                (main.c:82, 3 s)
  PollPeriod,  \* later expiries, as long as no tick came  (main.c:82, 1 s)
  MaxUpdate    \* longest m10_pvt_update: 80 ms and 40 reads 20 ms apart

ASSUME TimingAssumption ==
  /\ PpsPeriod \in Nat /\ PvtDelay \in Nat /\ FirstPoll \in Nat
  /\ PollPeriod \in Nat /\ MaxUpdate \in Nat
  /\ 0 < PvtDelay /\ PvtDelay < PpsPeriod
  /\ 0 < FirstPoll
  /\ MaxUpdate < PollPeriod /\ PollPeriod <= PpsPeriod

VARIABLES
  pc,       \* where the main thread is
  events,   \* the events main_events records
  got,      \* what the last k_event_wait returned
  timer,    \* pvt_timer
  led,      \* level of the M10 LED pin
  ppsOn,    \* m10_pps_enabled: the edge interrupt is configured
  notify,   \* lns_notify_enabled, written by the Bluetooth threads
  locked,   \* the receiver has a lock and marks every second with an edge
  ppsIn,    \* time to the start of the next second
  busy,     \* time spent so far in m10_pvt_update
  since,    \* ghost: how long the phone has been waiting for a poll; the
            \* count stops one past MaxSilence
  polled    \* ghost: EVT_PVT_TIMER was handled at least once

main  == <<pc, events, got>>
env   == <<notify, locked, ppsIn>>
ghost == <<since, polled>>
vars  == <<pc, events, got, timer, led, ppsOn, notify, locked, ppsIn, busy,
           since, polled>>

TICK      == "EVT_1PPS_TICK"
PVT_TIMER == "EVT_PVT_TIMER"
Events    == {TICK, PVT_TIMER}

BootPCs == {"enable", "arm"}
PCs     == BootPCs \cup {"loop", "wait", "woken", "pvt", "update", "exited"}

-----------------------------------------------------------------------------
(* Kernel objects, as the code uses them. *)

\* k_timer: period 0 is K_NO_WAIT, a timer that expires once.
Stopped               == [armed |-> FALSE, left |-> 0, period |-> 0]
Timer(first, period)  == [armed |-> TRUE, left |-> first, period |-> period]
Expired(t) == IF t.period = 0 THEN Stopped ELSE Timer(t.period, t.period)

\* k_event_wait clears what is recorded before it waits: reset is true.
AfterResetKept(ev) == ev
AfterReset(ev)     == {}

\* k_event_post: record the event; a waiting thread is made ready with what
\* is then recorded.
Post(e) ==
  /\ events' = events \cup {e}
  /\ IF pc = "wait"
     THEN pc' = "woken" /\ got' = events \cup {e}
     ELSE UNCHANGED <<pc, got>>

-----------------------------------------------------------------------------
(* A poll is owed to the phone while pvt_timer is periodic, that is before *)
(* the first tick, and later as long as the receiver outputs 1PPS.         *)
Periodic == timer.period # 0
Due      == pc # "exited" /\ (Periodic \/ locked)

Init ==
  /\ pc = "enable" /\ events = {} /\ got = {}
  /\ timer = Stopped /\ led = FALSE /\ ppsOn = FALSE
  /\ notify = FALSE /\ locked = FALSE /\ ppsIn \in 1 .. PpsPeriod
  /\ busy = 0 /\ since = 0 /\ polled = FALSE

-----------------------------------------------------------------------------
(* The main thread. *)

\* M10_hw_pps_enable: configures the edge interrupt, or main returns.
EnablePps ==
  /\ pc = "enable"
  /\ \/ pc' = "arm" /\ ppsOn' = TRUE
     \/ pc' = "exited" /\ ppsOn' = FALSE
  /\ UNCHANGED <<events, got, timer, led, busy, env, ghost>>

BootTimerOnce == Timer(FirstPoll, 0)
BootTimer     == Timer(FirstPoll, PollPeriod)

ArmTimer ==
  /\ pc = "arm"
  /\ pc' = "loop" /\ timer' = BootTimer
  /\ UNCHANGED <<events, got, led, ppsOn, busy, env, ghost>>

\* k_event_wait(.., reset = true, K_FOREVER)
Wait ==
  /\ pc = "loop"
  /\ LET ev == AfterReset(events)
     IN  /\ events' = ev /\ got' = ev
         /\ pc' = IF ev = {} THEN "wait" ELSE "woken"
  /\ UNCHANGED <<timer, led, ppsOn, busy, env, ghost>>

\* A tick lights the LED and restarts pvt_timer to expire once.
TickTimerPeriodic == Timer(PvtDelay, PvtDelay)
TickTimerSlow == Timer(10 * PvtDelay, 0)
TickTimer == Timer(PvtDelay, 0)

HandleTick ==
  /\ pc = "woken" /\ TICK \in got
  /\ pc' = "pvt" /\ led' = TRUE /\ timer' = TickTimer
  /\ UNCHANGED <<events, got, ppsOn, busy, env, ghost>>

SkipTick ==
  /\ pc = "woken" /\ TICK \notin got
  /\ pc' = "pvt"
  /\ UNCHANGED <<events, got, timer, led, ppsOn, busy, env, ghost>>

NoToggle(level) == level
Toggle(level)   == ~level

\* The phone has notifications on: start m10_pvt_update.
StartUpdate ==
  /\ pc = "pvt" /\ PVT_TIMER \in got /\ notify
  /\ pc' = "update" /\ busy' = 0
  /\ since' = 0 /\ polled' = TRUE
  /\ UNCHANGED <<events, got, timer, led, ppsOn, env>>

\* Notifications are off: only the LED changes.
LedWhenOff(level) == Toggle(level)

SkipUpdate ==
  /\ pc = "pvt" /\ PVT_TIMER \in got /\ ~notify
  /\ pc' = "loop" /\ led' = LedWhenOff(led)
  /\ since' = 0 /\ polled' = TRUE
  /\ UNCHANGED <<events, got, timer, ppsOn, busy, env>>

NoPvtEvent ==
  /\ pc = "pvt" /\ PVT_TIMER \notin got
  /\ pc' = "loop"
  /\ UNCHANGED <<events, got, timer, led, ppsOn, busy, env, ghost>>

\* m10_pvt_update returns, whatever its result, and the LED is toggled.
EndUpdate ==
  /\ pc = "update"
  /\ pc' = "loop" /\ led' = Toggle(led)
  /\ busy' = 0
  /\ UNCHANGED <<events, got, timer, ppsOn, env, ghost>>

MainThread ==
  \/ EnablePps \/ ArmTimer \/ Wait \/ HandleTick \/ SkipTick
  \/ StartUpdate \/ SkipUpdate \/ NoPvtEvent \/ EndUpdate

-----------------------------------------------------------------------------
(* Interrupts. *)

\* pvt_timer expires: pvt_timer_hander
TimerExpires ==
  /\ timer.armed /\ timer.left = 0
  /\ timer' = Expired(timer)
  /\ Post(PVT_TIMER)
  /\ UNCHANGED <<led, ppsOn, busy, env, ghost>>

\* The start of a second.  A locked receiver outputs an edge: m10_pps_isr and
\* m10_pps_cb run, if the interrupt is configured.
PpsEdge ==
  /\ ppsIn = 0
  /\ ppsIn' = PpsPeriod
  /\ IF locked /\ ppsOn THEN Post(TICK) ELSE UNCHANGED main
  /\ UNCHANGED <<timer, led, ppsOn, notify, locked, busy, ghost>>

Interrupts == TimerExpires \/ PpsEdge

-----------------------------------------------------------------------------
(* The surroundings: the phone, the satellites, and time. *)

NotifyChanged ==
  /\ notify' = ~notify
  /\ UNCHANGED <<pc, events, got, timer, led, ppsOn, locked, ppsIn, busy,
                 ghost>>

\* The receiver finds or loses its fix: the edges start or stop.  The phone
\* is owed polls again from the moment it is found.
LockChanged ==
  /\ locked' = ~locked
  /\ since' = IF Periodic THEN since ELSE 0
  /\ UNCHANGED <<pc, events, got, timer, led, ppsOn, notify, ppsIn, busy,
                 polled>>

Environment == NotifyChanged \/ LockChanged

\* The longest the phone can wait for the next poll (main.c:75-104).  A tick
\* or an expiry that arrives while m10_pvt_update runs is thrown away by the
\* next k_event_wait, so a poll can be missed, but never two in a row: polls
\* are at most two 1PPS periods apart.  Before the first poll the boot delay
\* of pvt_timer counts, and a tick in its last instant puts the poll off.
MaxSilence == IF polled THEN 2 * PpsPeriod ELSE FirstPoll + PvtDelay

CanElapse ==
  /\ ~(timer.armed /\ timer.left = 0)
  /\ ppsIn > 0
  /\ pc \in {"wait", "exited"} \/ (pc = "update" /\ busy < MaxUpdate)

ClockTick ==
  /\ CanElapse
  /\ timer' = IF timer.armed THEN Timer(timer.left - 1, timer.period)
              ELSE timer
  /\ ppsIn' = ppsIn - 1
  /\ busy'  = IF pc = "update" THEN busy + 1 ELSE busy
  /\ since' = IF Due /\ since <= MaxSilence THEN since + 1 ELSE since
  /\ UNCHANGED <<pc, events, got, led, ppsOn, notify, locked, polled>>

-----------------------------------------------------------------------------
Next == MainThread \/ Interrupts \/ Environment \/ ClockTick

Spec == Init /\ [][Next]_vars

\* The processor runs a ready thread and a pending interrupt, and time goes on.
Fairness ==
  /\ WF_vars(MainThread) /\ WF_vars(Interrupts) /\ WF_vars(ClockTick)

FairSpec == Spec /\ Fairness

-----------------------------------------------------------------------------
(* Properties. *)

TypeOK ==
  /\ pc \in PCs /\ events \subseteq Events /\ got \subseteq Events
  /\ timer \in [armed : BOOLEAN, left : Nat, period : {0, PollPeriod}]
  /\ led \in BOOLEAN /\ ppsOn \in BOOLEAN /\ notify \in BOOLEAN
  /\ locked \in BOOLEAN /\ ppsIn \in 0 .. PpsPeriod
  /\ busy \in 0 .. MaxUpdate /\ since \in Nat /\ polled \in BOOLEAN

\* Polls the phone is owed are no further apart than MaxSilence.
BoundedSilence == since <= MaxSilence

\* After the first tick the LED is lit exactly from a tick to the end of the
\* poll that tick started: HandleTick sets it and the toggle of main.c:98
\* always finds it lit, although ticks are lost, locks come and go and
\* notifications are switched in between.
LedShowsPoll ==
  pc \in {"wait", "update"} /\ ~Periodic =>
    (led <=> (timer.armed \/ pc = "update"))

\* A wake-up carries one event: the reset leaves nothing recorded while the
\* thread waits.  So the poll of main.c:91 never runs in the pass that
\* handled the tick, when the receiver has not computed its fix yet.
OneEventPerWakeup ==
  /\ pc = "wait" => events = {}
  /\ pc = "woken" => \E e \in Events : got = {e}

\* While the receiver stays locked and the phone keeps its subscription, fixes
\* are polled again and again, unless main returned at boot.
PollsForever ==
  <>[](locked /\ notify /\ pc # "exited") => []<>(pc = "update")

=============================================================================
