--------------------------- MODULE MainLoop_proofs --------------------------
(***************************************************************************)
(* Proofs about the main loop, for every choice of its delays.             *)
(*                                                                         *)
(* The invariants of MainLoop say nothing of how old a pending event is,   *)
(* so none of them is inductive.  IInv adds, for each of the two ways      *)
(* pvt_timer runs (periodic before the first tick, one-shot after it), how *)
(* the timer, the phase of the second and the time since the last poll     *)
(* are related at each place of the main thread.                           *)
(***************************************************************************)
EXTENDS MainLoop, TLAPS

\* pvt_timer was restarted by a tick: it runs once, or has run.
OneShot == timer.period = 0 /\ pc \notin BootPCs \cup {"exited"}

\* The longest wait for a poll while pvt_timer is periodic.
PeriodicLimit == IF polled THEN PollPeriod ELSE FirstPoll

\* Before the loop, and after main has returned, nothing runs.
BootInv ==
  /\ pc \in BootPCs \cup {"exited"} =>
       timer = Stopped /\ since = 0 /\ ~polled /\ got = {} /\ ~led
  /\ pc \in {"enable", "exited"} => events = {}
  /\ ppsOn <=> pc \notin {"enable", "exited"}

\* A stopped timer is Stopped; a periodic one is always armed.
TimerInv == ~timer.armed => timer = Stopped

\* What a wake-up brings, at the places where the main thread looks at it.
WakeInv ==
  /\ pc = "wait" => events = {}
  /\ pc \in {"woken", "pvt"} => got = {TICK} \/ got = {PVT_TIMER}

\* Before the first tick.
PeriodicInv == Periodic =>
  /\ pc \in {"loop", "wait", "update"} => since + timer.left <= PeriodicLimit
  /\ pc \in {"woken", "pvt"} => since <= PeriodicLimit
  /\ pc = "loop" => timer.left > 0
  /\ pc = "pvt" => got = {PVT_TIMER}
  /\ pc \in {"woken", "pvt"} /\ PVT_TIMER \in got => timer.left = PollPeriod
  /\ pc = "update" => timer.left = PollPeriod - busy /\ polled

\* After it, while a poll is on its way: the timer runs in step with the
\* second, and the next edge comes after its expiry.
ArmedInv == OneShot /\ timer.armed =>
  /\ pc \in {"pvt", "loop", "wait"}
  /\ pc = "pvt" => got = {TICK}
  /\ pc \in {"pvt", "loop"} => timer.left = PvtDelay
  /\ ppsIn = timer.left + (PpsPeriod - PvtDelay)
  /\ since + timer.left <= MaxSilence

\* After it, from the expiry to the next tick that is served.
IdleInv == OneShot /\ ~timer.armed =>
  /\ pc \in {"woken", "pvt"} /\ PVT_TIMER \in got =>
       since <= MaxSilence /\ ppsIn = PpsPeriod - PvtDelay /\ led
  /\ pc = "pvt" => got = {PVT_TIMER}
  /\ pc \in {"loop", "wait", "update"} => polled
  /\ pc = "woken" /\ TICK \in got => since <= 2 * PpsPeriod - PvtDelay /\ polled
  /\ pc = "update" =>
       /\ ppsIn + busy \in {PpsPeriod - PvtDelay, 2 * PpsPeriod - PvtDelay}
       /\ since <= busy
  /\ pc \in {"loop", "wait"} =>
       /\ since <= 2 * PpsPeriod - PvtDelay
       /\ locked => since + ppsIn <= 2 * PpsPeriod - PvtDelay
  /\ pc = "loop" /\ ppsIn = 0 => since <= PpsPeriod - PvtDelay

\* A tick is handled in the instant of its edge.
TickInv == pc = "woken" /\ TICK \in got => ppsIn = PpsPeriod

LedInv == OneShot =>
  /\ pc \in {"loop", "wait"} => (led <=> timer.armed)
  /\ pc \in {"pvt", "update"} => led

IInv ==
  /\ TypeOK
  /\ BootInv /\ TimerInv /\ WakeInv
  /\ PeriodicInv /\ ArmedInv /\ IdleInv /\ TickInv /\ LedInv

-----------------------------------------------------------------------------
(* The invariant is inductive. *)

\* The boot code before the loop establishes it.
LEMMA InitInv == Init => IInv
<1> SUFFICES ASSUME Init PROVE IInv
  OBVIOUS
<1>1. TypeOK
  <2>1. timer \in [armed : BOOLEAN, left : Nat, period : {0, PollPeriod}]
    BY DEF Init, Stopped
  <2>2. ppsIn \in 0 .. PpsPeriod /\ busy \in 0 .. MaxUpdate /\ since \in Nat
    BY TimingAssumption DEF Init
  <2> QED
    BY <2>1, <2>2, Zenon DEF Init, TypeOK, PCs, BootPCs
<1>2. BootInv /\ TimerInv /\ WakeInv
  BY DEF Init, BootInv, TimerInv, WakeInv
<1>3. PeriodicInv /\ ArmedInv /\ IdleInv /\ TickInv /\ LedInv
  BY DEF Init, PeriodicInv, ArmedInv, IdleInv, TickInv, LedInv, Stopped
<1> QED
  BY <1>1, <1>2, <1>3 DEF IInv

\* k_event_post wakes a waiting main thread with the posted event alone,
\* because nothing else is recorded while it waits.
LEMMA PostEffect ==
  ASSUME TypeOK, WakeInv, NEW e \in Events, Post(e)
  PROVE  /\ events' \subseteq Events
         /\ pc = "wait" => pc' = "woken" /\ got' = {e}
         /\ pc # "wait" => pc' = pc /\ got' = got
  BY DEF TypeOK, WakeInv, Post

\* Every step of the main thread, of an interrupt, of the surroundings and of
\* time keeps it.
LEMMA StepInv == IInv /\ [Next]_vars => IInv'
<1> SUFFICES ASSUME IInv, [Next]_vars PROVE IInv'
  OBVIOUS
<1>1. CASE EnablePps
  <2>1. TypeOK'
    BY <1>1 DEF EnablePps, env, ghost, IInv, TypeOK, PCs, BootPCs
  <2>2. (BootInv /\ TimerInv /\ WakeInv)'
    BY <1>1 DEF EnablePps, ghost, IInv, TypeOK, BootInv, TimerInv, WakeInv, PCs
  <2>3. PeriodicInv'
    BY <1>1 DEF EnablePps, PeriodicInv
  <2>4. ArmedInv'
    BY <1>1 DEF EnablePps, IInv, BootInv, ArmedInv, OneShot, Stopped
  <2>5. IdleInv'
    BY <1>1 DEF EnablePps, IdleInv
  <2>6. (TickInv /\ LedInv)'
    BY <1>1 DEF EnablePps, TickInv, LedInv
  <2> QED
    BY <2>1, <2>2, <2>3, <2>4, <2>5, <2>6 DEF IInv
<1>2. CASE ArmTimer
  <2>1. TypeOK'
    BY <1>2, TimingAssumption
       DEF ArmTimer, BootTimer, Timer, env, ghost, IInv, TypeOK, PCs
  <2>2. (BootInv /\ TimerInv /\ WakeInv)'
    BY <1>2
       DEF ArmTimer, BootTimer, Timer, IInv, BootInv, TimerInv, WakeInv,
           BootPCs
  <2>3. PeriodicInv'
    BY <1>2, TimingAssumption
       DEF ArmTimer, BootTimer, Timer, ghost, IInv, TypeOK, BootInv,
           PeriodicInv, PeriodicLimit, PCs
  <2>4. ArmedInv'
    BY <1>2, TimingAssumption DEF ArmTimer, BootTimer, Timer, ArmedInv, OneShot
  <2>5. IdleInv'
    BY <1>2 DEF ArmTimer, BootTimer, Timer, IdleInv
  <2>6. (TickInv /\ LedInv)'
    BY <1>2, TimingAssumption
       DEF ArmTimer, BootTimer, Timer, TickInv, LedInv, OneShot
  <2> QED
    BY <2>1, <2>2, <2>3, <2>4, <2>5, <2>6 DEF IInv
<1>3. CASE Wait
  <2>1. TypeOK'
    BY <1>3 DEF Wait, AfterReset, env, ghost, IInv, TypeOK, PCs
  <2>2. (BootInv /\ TimerInv /\ WakeInv)'
    BY <1>3 DEF Wait, AfterReset, IInv, BootInv, TimerInv, WakeInv, BootPCs
  <2>3. PeriodicInv'
    BY <1>3
       DEF Wait, AfterReset, ghost, IInv, PeriodicInv, PeriodicLimit, Periodic
  <2>4. ArmedInv'
    BY <1>3
       DEF Wait, AfterReset, env, ghost, IInv, BootInv, ArmedInv, OneShot,
           MaxSilence, Stopped
  <2>5. IdleInv'
    BY <1>3 DEF Wait, AfterReset, env, ghost, IInv, IdleInv, OneShot, BootPCs
  <2>6. (TickInv /\ LedInv)'
    BY <1>3
       DEF Wait, AfterReset, IInv, BootInv, TickInv, LedInv, OneShot, Stopped
  <2> QED
    BY <2>1, <2>2, <2>3, <2>4, <2>5, <2>6 DEF IInv
<1>4. CASE HandleTick
  <2>1. TypeOK'
    BY <1>4, TimingAssumption
       DEF HandleTick, TickTimer, Timer, env, ghost, IInv, TypeOK, PCs
  <2>2. (BootInv /\ TimerInv /\ WakeInv)'
    BY <1>4
       DEF HandleTick, TickTimer, Timer, IInv, BootInv, TimerInv, WakeInv,
           BootPCs
  <2>3. PeriodicInv'
    BY <1>4 DEF HandleTick, TickTimer, Timer, PeriodicInv, Periodic
  <2>4. ArmedInv'
    BY <1>4, TimingAssumption
       DEF HandleTick, TickTimer, Timer, env, ghost, IInv, TypeOK, BootInv,
           WakeInv, PeriodicInv, ArmedInv, IdleInv, TickInv, OneShot,
           PeriodicLimit, MaxSilence, Periodic
  <2>5. IdleInv'
    BY <1>4 DEF HandleTick, TickTimer, Timer, IdleInv
  <2>6. (TickInv /\ LedInv)'
    BY <1>4 DEF HandleTick, TickInv, LedInv
  <2> QED
    BY <2>1, <2>2, <2>3, <2>4, <2>5, <2>6 DEF IInv
<1>5. CASE SkipTick
  <2>1. TypeOK'
    BY <1>5 DEF SkipTick, env, ghost, IInv, TypeOK, PCs
  <2>2. (BootInv /\ TimerInv /\ WakeInv)'
    BY <1>5 DEF SkipTick, IInv, BootInv, TimerInv, WakeInv, BootPCs
  <2>3. PeriodicInv'
    BY <1>5
       DEF SkipTick, ghost, IInv, WakeInv, PeriodicInv, PeriodicLimit, Periodic
  <2>4. ArmedInv'
    BY <1>5 DEF SkipTick, IInv, BootInv, WakeInv, ArmedInv, OneShot
  <2>5. IdleInv'
    BY <1>5
       DEF SkipTick, env, ghost, IInv, BootInv, WakeInv, IdleInv, OneShot,
           MaxSilence
  <2>6. (TickInv /\ LedInv)'
    BY <1>5
       DEF SkipTick, IInv, BootInv, WakeInv, ArmedInv, IdleInv, TickInv,
           LedInv, OneShot
  <2> QED
    BY <2>1, <2>2, <2>3, <2>4, <2>5, <2>6 DEF IInv
<1>6. CASE StartUpdate
  <2>1. TypeOK'
    BY <1>6, TimingAssumption DEF StartUpdate, env, IInv, TypeOK, PCs
  <2>2. (BootInv /\ TimerInv /\ WakeInv)'
    BY <1>6 DEF StartUpdate, IInv, BootInv, TimerInv, WakeInv, BootPCs
  <2>3. PeriodicInv'
    BY <1>6, TimingAssumption
       DEF StartUpdate, IInv, PeriodicInv, PeriodicLimit, Periodic
  <2>4. ArmedInv'
    BY <1>6 DEF StartUpdate, IInv, BootInv, ArmedInv, OneShot, TICK, PVT_TIMER
  <2>5. IdleInv'
    BY <1>6, TimingAssumption
       DEF StartUpdate, env, IInv, BootInv, IdleInv, OneShot
  <2>6. (TickInv /\ LedInv)'
    BY <1>6 DEF StartUpdate, IInv, BootInv, TickInv, LedInv, OneShot
  <2> QED
    BY <2>1, <2>2, <2>3, <2>4, <2>5, <2>6 DEF IInv
<1>7. CASE SkipUpdate
  <2>1. TypeOK'
    BY <1>7 DEF SkipUpdate, LedWhenOff, Toggle, env, IInv, TypeOK, PCs
  <2>2. (BootInv /\ TimerInv /\ WakeInv)'
    BY <1>7 DEF SkipUpdate, IInv, BootInv, TimerInv, WakeInv, BootPCs
  <2>3. PeriodicInv'
    BY <1>7, TimingAssumption
       DEF SkipUpdate, IInv, PeriodicInv, PeriodicLimit, Periodic
  <2>4. ArmedInv'
    BY <1>7, TimingAssumption
       DEF SkipUpdate, env, IInv, BootInv, ArmedInv, OneShot, MaxSilence
  <2>5. IdleInv'
    BY <1>7, TimingAssumption DEF SkipUpdate, env, IInv, TypeOK, IdleInv
  <2>6. (TickInv /\ LedInv)'
    BY <1>7
       DEF SkipUpdate, LedWhenOff, Toggle, IInv, TypeOK, BootInv, ArmedInv,
           TickInv, LedInv, OneShot, TICK, PVT_TIMER
  <2> QED
    BY <2>1, <2>2, <2>3, <2>4, <2>5, <2>6 DEF IInv
<1>8. CASE NoPvtEvent
  <2>1. TypeOK'
    BY <1>8 DEF NoPvtEvent, env, ghost, IInv, TypeOK, PCs
  <2>2. (BootInv /\ TimerInv /\ WakeInv)'
    BY <1>8 DEF NoPvtEvent, IInv, BootInv, TimerInv, WakeInv, BootPCs
  <2>3. PeriodicInv'
    BY <1>8 DEF NoPvtEvent, IInv, PeriodicInv, Periodic
  <2>4. ArmedInv'
    BY <1>8
       DEF NoPvtEvent, env, ghost, IInv, BootInv, WakeInv, ArmedInv, OneShot,
           MaxSilence
  <2>5. IdleInv'
    BY <1>8 DEF NoPvtEvent, IInv, BootInv, WakeInv, IdleInv, OneShot
  <2>6. (TickInv /\ LedInv)'
    BY <1>8
       DEF NoPvtEvent, IInv, BootInv, WakeInv, IdleInv, TickInv, LedInv,
           OneShot
  <2> QED
    BY <2>1, <2>2, <2>3, <2>4, <2>5, <2>6 DEF IInv
<1>9. CASE EndUpdate
  <2>1. TypeOK'
    BY <1>9, TimingAssumption
       DEF EndUpdate, Toggle, env, ghost, IInv, TypeOK, PCs
  <2>2. (BootInv /\ TimerInv /\ WakeInv)'
    BY <1>9 DEF EndUpdate, IInv, BootInv, TimerInv, WakeInv, BootPCs
  <2>3. PeriodicInv'
    BY <1>9, TimingAssumption
       DEF EndUpdate, ghost, IInv, TypeOK, PeriodicInv, PeriodicLimit, Periodic
  <2>4. ArmedInv'
    BY <1>9 DEF EndUpdate, IInv, BootInv, ArmedInv, OneShot, Stopped
  <2>5. IdleInv'
    BY <1>9, TimingAssumption
       DEF EndUpdate, env, ghost, IInv, TypeOK, IdleInv, OneShot, BootPCs
  <2>6. (TickInv /\ LedInv)'
    BY <1>9
       DEF EndUpdate, Toggle, IInv, ArmedInv, TickInv, LedInv, OneShot, BootPCs
  <2> QED
    BY <2>1, <2>2, <2>3, <2>4, <2>5, <2>6 DEF IInv
<1>10. CASE TimerExpires
  <2>1. /\ events' \subseteq Events
        /\ pc = "wait" => pc' = "woken" /\ got' = {PVT_TIMER}
        /\ pc # "wait" => pc' = pc /\ got' = got
    BY <1>10, PostEffect DEF IInv, TimerExpires, Events
  <2>2. TypeOK'
    BY <1>10, <2>1, TimingAssumption
       DEF TimerExpires, Expired, Timer, env, ghost, IInv, TypeOK, Stopped,
           PCs, Events
  <2>3. (BootInv /\ TimerInv /\ WakeInv)'
    BY <1>10, <2>1
       DEF TimerExpires, Expired, Timer, IInv, BootInv, TimerInv, WakeInv,
           Stopped, BootPCs
  <2>4. PeriodicInv'
    BY <1>10, <2>1, TimingAssumption
       DEF TimerExpires, Expired, Timer, ghost, IInv, TypeOK, PeriodicInv,
           PeriodicLimit, Periodic, Stopped
  <2>5. ArmedInv'
    BY <1>10 DEF TimerExpires, Expired, Timer, ArmedInv, OneShot, Stopped
  <2>6. IdleInv'
    BY <1>10, <2>1, TimingAssumption
       DEF TimerExpires, Expired, Timer, env, ghost, IInv, TypeOK, BootInv,
           ArmedInv, IdleInv, LedInv, OneShot, MaxSilence, TICK, PVT_TIMER
  <2>7. (TickInv /\ LedInv)'
    BY <1>10, <2>1, TimingAssumption
       DEF TimerExpires, Expired, Timer, env, IInv, ArmedInv, TickInv, LedInv,
           OneShot, TICK, PVT_TIMER
  <2> QED
    BY <2>2, <2>3, <2>4, <2>5, <2>6, <2>7 DEF IInv
<1>11. CASE PpsEdge
  <2>1. CASE locked /\ ppsOn /\ pc = "wait"
    <3>1. pc' = "woken" /\ got' = {TICK} /\ events' \subseteq Events
      BY <1>11, <2>1, PostEffect DEF IInv, PpsEdge, Events
    <3>2. TypeOK'
      BY <1>11, <3>1, TimingAssumption
         DEF PpsEdge, ghost, IInv, TypeOK, PCs, Events
    <3>3. (BootInv /\ TimerInv /\ WakeInv)'
      BY <1>11, <2>1, <3>1
         DEF PpsEdge, IInv, BootInv, TimerInv, WakeInv, BootPCs
    <3>4. PeriodicInv'
      BY <1>11, <2>1, <3>1, TimingAssumption
         DEF PpsEdge, ghost, IInv, TypeOK, PeriodicInv, PeriodicLimit,
             Periodic, TICK, PVT_TIMER
    <3>5. ArmedInv'
      BY <1>11, TimingAssumption
         DEF PpsEdge, IInv, TypeOK, BootInv, ArmedInv, OneShot, Stopped
    <3>6. IdleInv'
      BY <1>11, <2>1, <3>1
         DEF PpsEdge, ghost, IInv, IdleInv, OneShot, BootPCs, TICK, PVT_TIMER
    <3>7. (TickInv /\ LedInv)'
      BY <1>11, <3>1 DEF PpsEdge, TickInv, LedInv
    <3> QED
      BY <3>2, <3>3, <3>4, <3>5, <3>6, <3>7 DEF IInv
  <2>2. CASE ~(locked /\ ppsOn /\ pc = "wait")
    <3>1. /\ pc' = pc /\ got' = got /\ events' \subseteq Events
          /\ pc \in {"enable", "exited", "wait"} => events' = events
      BY <1>11, <2>2, PostEffect
         DEF IInv, BootInv, TypeOK, PpsEdge, Events, main
    <3>2. TypeOK'
      BY <1>11, <3>1, TimingAssumption DEF PpsEdge, ghost, IInv, TypeOK
    <3>3. (BootInv /\ TimerInv /\ WakeInv)'
      BY <1>11, <3>1 DEF PpsEdge, ghost, IInv, BootInv, TimerInv, WakeInv
    <3>4. PeriodicInv'
      BY <1>11, <3>1
         DEF PpsEdge, ghost, IInv, PeriodicInv, PeriodicLimit, Periodic
    <3>5. ArmedInv'
      BY <1>11, <3>1, TimingAssumption
         DEF PpsEdge, IInv, TypeOK, ArmedInv, OneShot
    <3>6. IdleInv'
      BY <1>11, <2>2, <3>1, TimingAssumption
         DEF PpsEdge, ghost, IInv, TypeOK, BootInv, IdleInv, OneShot
    <3>7. (TickInv /\ LedInv)'
      BY <1>11, <3>1 DEF PpsEdge, IInv, TickInv, LedInv, OneShot
    <3> QED
      BY <3>2, <3>3, <3>4, <3>5, <3>6, <3>7 DEF IInv
  <2> QED
    BY <2>1, <2>2
<1>12. CASE NotifyChanged
  <2>1. TypeOK'
    BY <1>12 DEF NotifyChanged, ghost, IInv, TypeOK
  <2>2. (BootInv /\ TimerInv /\ WakeInv)'
    BY <1>12 DEF NotifyChanged, ghost, IInv, BootInv, TimerInv, WakeInv
  <2>3. PeriodicInv'
    BY <1>12
       DEF NotifyChanged, ghost, IInv, PeriodicInv, PeriodicLimit, Periodic
  <2>4. ArmedInv'
    BY <1>12 DEF NotifyChanged, ghost, IInv, ArmedInv, OneShot, MaxSilence
  <2>5. IdleInv'
    BY <1>12 DEF NotifyChanged, ghost, IInv, IdleInv, OneShot, MaxSilence
  <2>6. (TickInv /\ LedInv)'
    BY <1>12 DEF NotifyChanged, IInv, TickInv, LedInv, OneShot
  <2> QED
    BY <2>1, <2>2, <2>3, <2>4, <2>5, <2>6 DEF IInv
<1>13. CASE LockChanged
  <2>1. TypeOK'
    BY <1>13 DEF LockChanged, IInv, TypeOK
  <2>2. (BootInv /\ TimerInv /\ WakeInv)'
    BY <1>13 DEF LockChanged, IInv, BootInv, TimerInv, WakeInv
  <2>3. PeriodicInv'
    BY <1>13 DEF LockChanged, IInv, PeriodicInv, PeriodicLimit, Periodic
  <2>4. ArmedInv'
    BY <1>13, TimingAssumption
       DEF LockChanged, IInv, TypeOK, ArmedInv, OneShot, MaxSilence
  <2>5. IdleInv'
    BY <1>13, TimingAssumption
       DEF LockChanged, IInv, TypeOK, IdleInv, OneShot, MaxSilence, Periodic
  <2>6. (TickInv /\ LedInv)'
    BY <1>13 DEF LockChanged, IInv, TickInv, LedInv, OneShot
  <2> QED
    BY <2>1, <2>2, <2>3, <2>4, <2>5, <2>6 DEF IInv
<1>14. CASE ClockTick
  <2>1. TypeOK'
    BY <1>14, TimingAssumption DEF ClockTick, CanElapse, Timer, IInv, TypeOK
  <2>2. (BootInv /\ TimerInv /\ WakeInv)'
    <3>1. CASE timer.armed
      BY <1>14, <3>1
         DEF ClockTick, Timer, IInv, BootInv, TimerInv, WakeInv, Stopped
    <3>2. CASE ~timer.armed
      BY <1>14, <3>2
         DEF ClockTick, CanElapse, Due, IInv, BootInv, TimerInv, WakeInv,
             BootPCs
    <3> QED
      BY <3>1, <3>2
  <2>3. PeriodicInv'
    BY <1>14, TimingAssumption
       DEF ClockTick, CanElapse, Timer, IInv, TypeOK, TimerInv, PeriodicInv,
           PeriodicLimit, Periodic, Stopped
  <2>4. ArmedInv'
    BY <1>14, TimingAssumption
       DEF ClockTick, CanElapse, Timer, IInv, TypeOK, ArmedInv, OneShot,
           MaxSilence
  <2>5. IdleInv'
    BY <1>14, TimingAssumption
       DEF ClockTick, CanElapse, Due, Timer, IInv, TypeOK, PeriodicInv,
           IdleInv, OneShot, PeriodicLimit
  <2>6. (TickInv /\ LedInv)'
    BY <1>14 DEF ClockTick, CanElapse, Timer, IInv, TickInv, LedInv, OneShot
  <2> QED
    BY <2>1, <2>2, <2>3, <2>4, <2>5, <2>6 DEF IInv
<1>15. CASE UNCHANGED vars
  BY <1>15
     DEF vars, IInv, TypeOK, BootInv, TimerInv, WakeInv, PeriodicInv, ArmedInv,
         IdleInv, TickInv, LedInv, OneShot, PeriodicLimit, MaxSilence, Periodic
<1> QED
  BY <1>1, <1>2, <1>3, <1>4, <1>5, <1>6, <1>7, <1>8, <1>9, <1>10, <1>11, <1>12,
     <1>13, <1>14, <1>15
     DEF Next, MainThread, Interrupts, Environment

\* The inductive invariant holds in every run of the main loop, for every
\* choice of its delays that TimingAssumption allows.
THEOREM Invariant == Spec => []IInv
<1>1. Init => IInv
  BY InitInv
<1>2. IInv /\ [Next]_vars => IInv'
  BY StepInv
<1> QED
  BY <1>1, <1>2, PTL DEF Spec

\* The variables keep their types: the events of main_event and of a wake-up
\* are the two that main.c defines, and an update never outlasts MaxUpdate.
THEOREM TypeCorrect == Spec => []TypeOK
  BY Invariant, PTL DEF IInv

\* The main thread comes to its poll within MaxSilence, as long as one is due:
\* before the first tick always, after it while the receiver is locked.  Ticks
\* and expiries missed during m10_pvt_update cost one poll at most
\* (main.c:75-104).
THEOREM SilenceIsBounded == Spec => []BoundedSilence
<1>1. IInv => BoundedSilence
  BY TimingAssumption
     DEF BoundedSilence, IInv, TypeOK, BootInv, WakeInv, PeriodicInv, ArmedInv,
         IdleInv, OneShot, PeriodicLimit, MaxSilence, Periodic, PCs
<1> QED
  BY Invariant, <1>1, PTL

\* After the first tick the LED is lit exactly from a tick to the end of the
\* poll it started: the toggle always finds it lit (main.c:87-99).
THEOREM LedIsRight == Spec => []LedShowsPoll
<1>1. IInv => LedShowsPoll
  BY DEF LedShowsPoll, IInv, LedInv, OneShot, Periodic, BootPCs
<1> QED
  BY Invariant, <1>1, PTL

\* A wake-up carries one event, so the poll never runs in the pass of the main
\* loop that handled the tick (main.c:83-100).
THEOREM WakeupsAreSingle == Spec => []OneEventPerWakeup
<1>1. IInv => OneEventPerWakeup
  BY DEF OneEventPerWakeup, IInv, TypeOK, WakeInv
<1> QED
  BY Invariant, <1>1, PTL

=============================================================================
