--------------------------- MODULE Tracker_proofs ---------------------------
(***************************************************************************)
(* The composition is a behaviour of both its components, so that all that *)
(* MainLoop_proofs and BleCore_proofs prove holds of it; and with both     *)
(* inductive invariants, HeardInTime, for all delays.                      *)
(***************************************************************************)
EXTENDS Tracker, TLAPS

LP == INSTANCE MainLoop_proofs
BP == INSTANCE BleCore_proofs

-----------------------------------------------------------------------------
(* Each component's step is a step of the composition, or none.            *)

LEMMA RadioStep == [Next]_vars => [BP!Next]_(BP!vars)
<1> SUFFICES ASSUME [Next]_vars PROVE [BP!Next]_(BP!vars)
  OBVIOUS
<1>1. CASE Boot
  BY <1>1 DEF Boot, B!BleInit, B!StartReceiver, BP!Next, BP!MainThread,
         BP!BleInit, BP!StartReceiver, B!object, BP!object, B!gatt, BP!gatt
<1>2. CASE StartUpdate
  BY <1>2 DEF StartUpdate, B!StartUpdate, BP!Next, BP!MainThread,
         BP!StartUpdate, B!object, BP!object, B!gatt, BP!gatt
<1>3. CASE InUpdate
  BY <1>3 DEF InUpdate, B!GetConn, B!CheckMtu, BP!Next, BP!MainThread,
         BP!GetConn, BP!CheckMtu, B!object, BP!object, B!gatt, BP!gatt,
         B!Room, BP!Room, B!GetMtu, BP!GetMtu, B!NoConn, BP!NoConn
<1>4. CASE EndUpdate
  <2>1. B!NoFix \/ B!Notify \/ B!GetConn \/ B!CheckMtu
    BY <1>4 DEF EndUpdate, NoFix, NotSent, Notify
  <2> QED
    BY <2>1 DEF B!NoFix, B!Notify, B!GetConn, B!CheckMtu, BP!Next,
         BP!MainThread, BP!NoFix, BP!Notify, BP!GetConn, BP!CheckMtu,
         B!object, BP!object, B!gatt, BP!gatt,
         B!Room, BP!Room, B!GetMtu, BP!GetMtu, B!NoConn, BP!NoConn
<1>5. CASE LoopStep
  BY <1>5 DEF LoopStep, radio, BP!vars, L!ArmTimer, L!Wait, L!HandleTick,
         L!SkipTick, L!SkipUpdate, L!NoPvtEvent, L!env
<1>6. CASE Interrupts
  BY <1>6 DEF Interrupts, radio, BP!vars, L!Interrupts, L!TimerExpires,
         L!PpsEdge, L!LockChanged, L!env
<1>7. CASE Elapse
  BY <1>7 DEF Elapse, radio, BP!vars, L!ClockTick
<1>8. CASE Callbacks
  <2>1. B!Stack \/ B!Phone
    BY <1>8 DEF Callbacks
  <2>2. BP!Stack \/ BP!Phone
    BY <2>1 DEF B!Stack, BP!Stack, B!Phone, BP!Phone, B!Negotiate,
         BP!Negotiate, B!Disconnected, BP!Disconnected, B!Recycled,
         BP!Recycled, B!Connected, BP!Connected, B!ConnectFailed,
         BP!ConnectFailed, B!MtuExchanged, BP!MtuExchanged, B!CccWritten,
         BP!CccWritten, B!LinkLost, BP!LinkLost, B!object, BP!object, B!gatt,
         BP!gatt, B!thread, BP!thread, B!NoConn, BP!NoConn, B!MtuMin,
         BP!MtuMin, B!MtuMax, BP!MtuMax, B!NotifyChanged, BP!NotifyChanged,
         B!Unref, BP!Unref
  <2> QED
    BY <2>2 DEF BP!Next
<1>9. CASE UNCHANGED vars
  BY <1>9 DEF vars, BP!vars
<1> QED
  BY <1>1, <1>2, <1>3, <1>4, <1>5, <1>6, <1>7, <1>8, <1>9 DEF Next

\* What the main loop sees of Bluetooth is a flag that changes at any time.
LEMMA LoopStepped ==
  BP!IInv /\ BP!IInv' /\ [Next]_vars => [LP!Next]_(LP!vars)
<1> SUFFICES ASSUME BP!IInv, BP!IInv', [Next]_vars PROVE [LP!Next]_(LP!vars)
  OBVIOUS
<1> DEFINE Still == UNCHANGED loop /\ notify' = notify
<1>1. Still => [LP!Next]_(LP!vars)
  BY DEF loop, LP!vars
<1>2. CASE Boot
  <2>1. B!BleInit => notify' = notify
    <3> SUFFICES ASSUME B!BleInit PROVE notify' = notify
      OBVIOUS
    <3>1. ~notify /\ notify' = FALSE
      BY DEF BP!IInv, BP!BootInv, BP!FlagIsSubscription, B!BleInit
    <3>2. notify \in BOOLEAN
      BY DEF BP!IInv, BP!TypeOK
    <3> QED
      BY <3>1, <3>2
  <2>2. CASE L!EnablePps
    BY <2>2 DEF L!EnablePps, LP!EnablePps, LP!Next, LP!MainThread, L!env,
         LP!env, L!ghost, LP!ghost
  <2> QED
    BY <1>1, <1>2, <2>1, <2>2 DEF Boot
<1>3. CASE StartUpdate
  BY <1>3 DEF StartUpdate, L!StartUpdate, LP!StartUpdate, LP!Next,
         LP!MainThread, L!env, LP!env, L!PVT_TIMER, LP!PVT_TIMER
<1>4. CASE InUpdate
  <2>1. Still
    BY <1>4 DEF InUpdate, B!GetConn, B!CheckMtu, B!gatt
  <2> QED
    BY <1>1, <2>1
<1>5. CASE EndUpdate
  BY <1>5 DEF EndUpdate, L!EndUpdate, LP!EndUpdate, LP!Next, LP!MainThread,
         L!env, LP!env, L!ghost, LP!ghost, L!Toggle, LP!Toggle
<1>6. CASE LoopStep
  <2>1. \/ L!ArmTimer \/ L!Wait \/ L!HandleTick
        \/ L!SkipTick \/ L!SkipUpdate \/ L!NoPvtEvent
    BY <1>6 DEF LoopStep
  <2> QED
    BY <2>1 DEF L!ArmTimer, L!Wait, L!HandleTick, L!SkipTick, L!SkipUpdate,
         L!NoPvtEvent, LP!ArmTimer, LP!Wait, LP!HandleTick, LP!SkipTick,
         LP!SkipUpdate, LP!NoPvtEvent, LP!Next, LP!MainThread, L!env, LP!env,
         L!ghost, LP!ghost, L!BootTimer, LP!BootTimer, L!TickTimer,
         LP!TickTimer, L!Timer, LP!Timer, L!AfterReset, LP!AfterReset,
         L!TICK, LP!TICK, L!PVT_TIMER, LP!PVT_TIMER, L!LedWhenOff,
         LP!LedWhenOff, L!Toggle, LP!Toggle
<1>7. CASE Interrupts
  <2>1. L!TimerExpires \/ L!PpsEdge \/ L!LockChanged
    BY <1>7 DEF Interrupts, L!Interrupts
  <2> QED
    BY <2>1 DEF L!TimerExpires, L!PpsEdge, L!LockChanged, LP!TimerExpires,
         LP!PpsEdge, LP!LockChanged, LP!Next, LP!Interrupts, LP!Environment,
         L!env, LP!env, L!ghost, LP!ghost, L!main, LP!main, L!Expired,
         LP!Expired, L!Stopped, LP!Stopped, L!Timer, LP!Timer, L!Post,
         LP!Post, L!TICK, LP!TICK, L!PVT_TIMER, LP!PVT_TIMER, L!Periodic,
         LP!Periodic
<1>8. CASE Elapse
  BY <1>8 DEF Elapse, L!ClockTick, LP!ClockTick, LP!Next, L!CanElapse,
         LP!CanElapse, L!Timer, LP!Timer, L!Due, LP!Due, L!Periodic,
         LP!Periodic, L!MaxSilence, LP!MaxSilence
<1>9. CASE Callbacks
  <2>1. UNCHANGED loop
    BY <1>9 DEF Callbacks
  <2>2. notify' = notify \/ notify' = ~notify
    BY DEF BP!IInv, BP!TypeOK
  <2>3. CASE notify' = ~notify
    <3>1. LP!NotifyChanged
      <4>1. UNCHANGED <<pc, events, got, timer, led, ppsOn, locked, ppsIn,
                        busy, since, polled>>
        BY <2>1 DEF loop
      <4> QED
        BY <2>3, <4>1, Zenon DEF LP!NotifyChanged, LP!ghost
    <3> QED
      BY <3>1 DEF LP!Next, LP!Environment
  <2> QED
    BY <1>1, <2>1, <2>2, <2>3
<1>10. CASE UNCHANGED vars
  BY <1>1, <1>10 DEF vars, loop
<1> QED
  BY <1>2, <1>3, <1>4, <1>5, <1>6, <1>7, <1>8, <1>9, <1>10 DEF Next

-----------------------------------------------------------------------------
(* The composition implements its components. *)

\* The Bluetooth side behaves as BleCore says: everything proved of BleCore
\* holds while the main loop drives it (main.c:91-96).
THEOREM IsBleCore == Spec => BP!Spec
<1>1. Init => BP!Init
  BY DEF Init, B!Init, BP!Init, B!NoConn, BP!NoConn, B!MtuMin, BP!MtuMin
<1>2. [Next]_vars => [BP!Next]_(BP!vars)
  BY RadioStep
<1> QED
  BY <1>1, <1>2, PTL DEF Spec, BP!Spec

LEMMA RadioInv == Spec => []BP!IInv
<1>1. BP!BleAssumption
  BY TrackerAssumption DEF BP!BleAssumption
<1>2. BP!Spec => []BP!IInv
  BY <1>1, BP!Invariant
<1> QED
  BY <1>2, IsBleCore, PTL

\* The main loop behaves as MainLoop says, with a flag it knows nothing about
\* in the hands of BleCore: everything proved of MainLoop holds in the
\* composition (main.c:83-105).
THEOREM IsMainLoop == Spec => LP!Spec
<1>1. Init => LP!Init
  BY DEF Init, L!Init, LP!Init, L!Stopped, LP!Stopped
<1>2. BP!IInv /\ BP!IInv' /\ [Next]_vars => [LP!Next]_(LP!vars)
  BY LoopStepped
<1> QED
  BY <1>1, <1>2, RadioInv, PTL DEF Spec, LP!Spec

LEMMA LoopInv == Spec => []LP!IInv
<1>1. LP!TimingAssumption
  BY TrackerAssumption DEF LP!TimingAssumption
<1>2. LP!Spec => []LP!IInv
  BY <1>1, LP!Invariant
<1> QED
  BY <1>2, IsMainLoop, PTL

\* What is proved of the parts holds of the whole: the connection, its flag
\* and its MTU whatever the loop does (ble_core.c:94-123, 176-180,
\* ble_lns.c:217-223), the polls and the LED whatever the phone does
\* (main.c:83-105).
THEOREM PartsHold ==
  Spec => [](/\ BP!ConnTracked /\ BP!FlagIsSubscription /\ BP!FitsMtu
             /\ LP!BoundedSilence /\ LP!LedShowsPoll
             /\ LP!OneEventPerWakeup)
<1>1. BP!IInv => BP!ConnTracked /\ BP!FlagIsSubscription /\ BP!FitsMtu
  BY DEF BP!IInv
<1>2. LP!TimingAssumption
  BY TrackerAssumption DEF LP!TimingAssumption
<1>3. LP!Spec => []LP!BoundedSilence
  BY <1>2, LP!SilenceIsBounded
<1>4. LP!Spec => []LP!LedShowsPoll
  BY <1>2, LP!LedIsRight
<1>5. LP!Spec => []LP!OneEventPerWakeup
  BY <1>2, LP!WakeupsAreSingle
<1> QED
  BY <1>1, <1>3, <1>4, <1>5, RadioInv, IsMainLoop, PTL

-----------------------------------------------------------------------------
(* How long the phone waits.                                               *)

\* The two places of the main thread agree.
InStep ==
  /\ pc = "update" <=> main \in {"update", "mtu", "notify"}
  /\ main \in {"boot", "start"} => pc = "enable"

\* A tick has restarted the timer.
Armed == timer.armed /\ ~L!Periodic

\* Nothing is counted that is not owed; a connection that has been replaced
\* since the main thread got it leaves no debt.
DebtInv ==
  /\ quiet \in Nat
  /\ quiet > 0 => Owed
  /\ main \in {"mtu", "notify"} /\ held # conn => quiet = 0

\* What has been waited for at each place of the main thread: less than the
\* time that is left to the next expiry or edge allows.
WaitInv ==
  /\ pc = "update" => quiet <= PpsPeriod + PvtDelay + busy
  /\ pc \in {"woken", "pvt"} /\ L!PVT_TIMER \in got =>
       quiet <= PpsPeriod + PvtDelay
  /\ pc = "woken" /\ L!TICK \in got => quiet <= PpsPeriod
  /\ pc = "loop" => quiet = 0 \/ Armed
  /\ pc \in {"pvt", "loop", "wait"} /\ Armed =>
       quiet + timer.left <= PpsPeriod + PvtDelay
  /\ pc = "wait" /\ L!Periodic /\ quiet > 0 => quiet + timer.left <= PpsPeriod
  /\ pc = "wait" /\ ~timer.armed /\ quiet > 0 => quiet + ppsIn <= PpsPeriod

IInv == InStep /\ DebtInv /\ WaitInv

LEMMA InitInv == Init => IInv
  BY DEF Init, L!Init, B!Init, IInv, InStep, DebtInv, WaitInv, Armed

\* The counter goes on or back to zero, never past what it is told.
LEMMA Counted ==
  ASSUME NEW n \in Nat, Count(n)
  PROVE  /\ quiet' \in Nat /\ quiet' <= n
         /\ quiet' > 0 => Owed' /\ quiet' = n
  BY DEF Count

\* What is used of the invariant of the main loop.
LEMMA LoopFacts ==
  ASSUME LP!IInv
  PROVE  /\ timer.left \in Nat /\ timer.armed \in BOOLEAN
         /\ ppsIn \in 0 .. PpsPeriod /\ busy \in 0 .. MaxUpdate
         /\ pc \in {"enable", "arm", "exited"} => ~polled /\ ~Armed
         /\ pc \in {"woken", "pvt"} =>
              got = {L!TICK} \/ got = {L!PVT_TIMER}
         /\ L!Periodic =>
              /\ timer.armed
              /\ pc = "wait" /\ polled => timer.left <= PpsPeriod
              /\ pc = "loop" => timer.left > 0
              /\ pc = "pvt" => got = {L!PVT_TIMER}
              /\ pc = "update" => timer.left > 0
         /\ Armed =>
              /\ pc \in {"pvt", "loop", "wait"}
              /\ pc = "pvt" => got = {L!TICK}
              /\ pc \in {"pvt", "loop"} => timer.left > 0
              /\ ppsIn > 0
         /\ pc = "pvt" /\ ~timer.armed => got = {L!PVT_TIMER}
         /\ pc = "wait" => events = {} /\ ppsOn
         /\ ~timer.armed => ~L!Periodic
<1>1. LP!TypeOK /\ LP!BootInv /\ LP!TimerInv /\ LP!WakeInv /\ LP!PeriodicInv
      /\ LP!ArmedInv /\ LP!IdleInv
  BY DEF LP!IInv
<1>2. /\ timer.left \in Nat /\ timer.armed \in BOOLEAN
      /\ ppsIn \in 0 .. PpsPeriod /\ busy \in 0 .. MaxUpdate /\ since \in Nat
      /\ pc \in LP!PCs
  BY <1>1 DEF LP!TypeOK
<1>3. pc \in {"enable", "arm", "exited"} => ~polled /\ ~Armed
  BY <1>1 DEF LP!BootInv, LP!BootPCs, LP!Stopped, Armed
<1>4. pc \in {"woken", "pvt"} => got = {L!TICK} \/ got = {L!PVT_TIMER}
  BY <1>1 DEF LP!WakeInv, L!TICK, L!PVT_TIMER, LP!TICK, LP!PVT_TIMER
<1>5. ~timer.armed => timer.period = 0
  BY <1>1 DEF LP!TimerInv, LP!Stopped
<1>6. ASSUME L!Periodic
      PROVE  /\ timer.armed
             /\ pc = "wait" /\ polled => timer.left <= PpsPeriod
             /\ pc = "loop" => timer.left > 0
             /\ pc = "pvt" => got = {L!PVT_TIMER}
             /\ pc = "update" => timer.left > 0
  BY <1>1, <1>2, <1>5, <1>6, TrackerAssumption
     DEF LP!PeriodicInv, LP!PeriodicLimit, L!Periodic, LP!Periodic,
         L!PVT_TIMER, LP!PVT_TIMER
<1>7. ASSUME Armed
      PROVE  /\ pc \in {"pvt", "loop", "wait"}
             /\ pc = "pvt" => got = {L!TICK}
             /\ pc \in {"pvt", "loop"} => timer.left > 0
             /\ ppsIn > 0
  <2>1. LP!OneShot /\ timer.armed
    BY <1>3, <1>7 DEF Armed, LP!OneShot, LP!BootPCs, L!Periodic
  <2> QED
    BY <1>1, <1>2, <2>1, TrackerAssumption DEF LP!ArmedInv, L!TICK, LP!TICK
<1>8. pc = "pvt" /\ ~timer.armed => got = {L!PVT_TIMER}
  <2> SUFFICES ASSUME pc = "pvt", ~timer.armed PROVE got = {L!PVT_TIMER}
    OBVIOUS
  <2>1. LP!OneShot
    BY <1>5 DEF LP!OneShot, LP!BootPCs
  <2> QED
    BY <1>1, <2>1 DEF LP!IdleInv, L!PVT_TIMER, LP!PVT_TIMER
<1>9. pc = "wait" => events = {} /\ ppsOn
  BY <1>1 DEF LP!WakeInv, LP!BootInv
<1>10. ~timer.armed => ~L!Periodic
  BY <1>5 DEF L!Periodic
<1> QED
  BY <1>2, <1>3, <1>4, <1>6, <1>7, <1>8, <1>9, <1>10

\* Less quiet breaks no bound.
LEMMA Less ==
  ASSUME NEW q \in Nat, NEW r \in Nat, NEW t \in Nat, NEW bound \in Nat,
         r <= q
  PROVE  q + t <= bound => r + t <= bound
  OBVIOUS

\* Where the main loop does not move, no bound does, unless a second begins
\* while it waits for the next tick.
LEMMA StillWaits ==
  ASSUME IInv, LP!IInv, UNCHANGED <<pc, got, timer, busy>>,
         quiet' \in Nat, quiet' <= quiet,
         \/ ppsIn' = ppsIn
         \/ ~(pc = "wait" /\ ~timer.armed /\ quiet' > 0)
  PROVE  WaitInv'
<1>1. pc' = pc /\ got' = got /\ timer' = timer /\ busy' = busy
  OBVIOUS
<1>2. quiet \in Nat /\ PpsPeriod \in Nat /\ PvtDelay \in Nat
  BY TrackerAssumption DEF IInv, DebtInv
<1>3. timer.left \in Nat /\ ppsIn \in Nat /\ busy \in Nat
  BY LoopFacts, TrackerAssumption
<1>4. /\ Armed' <=> Armed
      /\ L!Periodic' <=> L!Periodic
      /\ L!PVT_TIMER' = L!PVT_TIMER /\ L!TICK' = L!TICK
  BY <1>1 DEF Armed, L!Periodic, L!PVT_TIMER, L!TICK
<1>5. WaitInv
  BY DEF IInv
<1>6. (pc = "update" => quiet <= PpsPeriod + PvtDelay + busy)'
  BY <1>1, <1>2, <1>3, <1>5 DEF WaitInv
<1>7. (pc \in {"woken", "pvt"} /\ L!PVT_TIMER \in got =>
         quiet <= PpsPeriod + PvtDelay)'
  BY <1>1, <1>2, <1>4, <1>5 DEF WaitInv
<1>8. (pc = "woken" /\ L!TICK \in got => quiet <= PpsPeriod)'
  BY <1>1, <1>2, <1>4, <1>5 DEF WaitInv
<1>9. (pc = "loop" => quiet = 0 \/ Armed)'
  BY <1>1, <1>2, <1>4, <1>5 DEF WaitInv
<1>10. (pc \in {"pvt", "loop", "wait"} /\ Armed =>
          quiet + timer.left <= PpsPeriod + PvtDelay)'
  BY <1>1, <1>2, <1>3, <1>4, <1>5 DEF WaitInv
<1>11. (pc = "wait" /\ L!Periodic /\ quiet > 0 =>
          quiet + timer.left <= PpsPeriod)'
  BY <1>1, <1>2, <1>3, <1>4, <1>5 DEF WaitInv
<1>12. (pc = "wait" /\ ~timer.armed /\ quiet > 0 =>
          quiet + ppsIn <= PpsPeriod)'
  <2>1. quiet + ppsIn <= PpsPeriod => quiet' + ppsIn <= PpsPeriod
    BY <1>2, <1>3, Less
  <2>2. quiet' > 0 => quiet > 0
    BY <1>2
  <2>3. CASE ppsIn' = ppsIn
    BY <1>1, <1>5, <2>1, <2>2, <2>3, Zenon DEF WaitInv
  <2>4. CASE ~(pc = "wait" /\ ~timer.armed /\ quiet' > 0)
    BY <1>1, <2>4, Zenon
  <2> QED
    BY <2>3, <2>4
<1> QED
  BY <1>6, <1>7, <1>8, <1>9, <1>10, <1>11, <1>12 DEF WaitInv

\* The calls on the connection end with nothing sent only if nothing is owed:
\* a fix fits the large MTU, the connection is the one there is.
LEMMA NothingLost ==
  ASSUME IInv, BP!IInv, NotSent
  PROVE  quiet = 0
<1> SUFFICES ASSUME quiet # 0 PROVE FALSE
  OBVIOUS
<1>1. link = "up" /\ mtu = 247
  BY DEF IInv, DebtInv, Owed, B!MtuMax
<1>2. CASE B!GetConn /\ main' = "loop"
  BY <1>1, <1>2
     DEF B!GetConn, B!NoConn, BP!IInv, BP!TypeOK, BP!ConnTracked, BP!HeldInv
<1>3. CASE B!CheckMtu /\ main' = "loop"
  <2>1. len <= 244
    BY TrackerAssumption DEF BP!IInv, BP!TypeOK
  <2>2. B!Room(B!GetMtu) = 244
    BY <1>1, TrackerAssumption DEF B!Room, B!GetMtu
  <2>3. len > 244
    BY <1>3, <2>2 DEF B!CheckMtu
  <2>4. len \in Nat
    BY TrackerAssumption DEF BP!IInv, BP!TypeOK
  <2> QED
    BY <2>1, <2>3, <2>4
<1> QED
  BY <1>2, <1>3 DEF NotSent

\* The end of an update: the debt is paid or there was none.
LEMMA PaidAtEnd ==
  ASSUME IInv, BP!IInv, EndUpdate
  PROVE  quiet' = 0 /\ main' = "loop"
<1>1. quiet \in Nat
  BY DEF IInv, DebtInv
<1>2. CASE NoFix
  BY <1>2 DEF NoFix, Count, B!NoFix
<1>3. CASE NotSent
  <2>1. quiet = 0
    BY <1>3, NothingLost
  <2> QED
    BY <1>3, <2>1 DEF NotSent, Count
<1>4. CASE Notify
  <2>1. main = "notify" /\ main' = "loop" /\ UNCHANGED <<link, conn>>
    BY <1>4 DEF Notify, B!Notify, B!object
  <2>2. ~(link = "up" /\ held = conn) => quiet = 0
    <3>1. CASE link # "up"
      BY <1>1, <3>1 DEF IInv, DebtInv, Owed
    <3>2. CASE held # conn
      BY <2>1, <3>2 DEF IInv, DebtInv
    <3> QED
      BY <3>1, <3>2
  <2>3. quiet' = 0 \/ quiet' = IF link = "up" /\ held = conn THEN 0 ELSE quiet
    BY <1>4 DEF Notify, Count
  <2> QED
    BY <2>1, <2>2, <2>3
<1> QED
  BY <1>2, <1>3, <1>4 DEF EndUpdate

\* The bounds of a place of the main thread, with all others out of the way.
LEMMA AtLoop ==
  ASSUME pc' = "loop",
         quiet' = 0 \/ Armed',
         Armed' => quiet' + timer'.left <= PpsPeriod + PvtDelay
  PROVE  WaitInv'
  BY DEF WaitInv

LEMMA AtWait ==
  ASSUME pc' = "wait",
         Armed' => quiet' + timer'.left <= PpsPeriod + PvtDelay,
         L!Periodic' /\ quiet' > 0 => quiet' + timer'.left <= PpsPeriod,
         ~timer'.armed /\ quiet' > 0 => quiet' + ppsIn' <= PpsPeriod
  PROVE  WaitInv'
  BY DEF WaitInv

LEMMA AtWoken ==
  ASSUME pc' = "woken",
         L!PVT_TIMER \in got' => quiet' <= PpsPeriod + PvtDelay,
         L!TICK \in got' => quiet' <= PpsPeriod
  PROVE  WaitInv'
  BY DEF WaitInv, L!TICK, L!PVT_TIMER

LEMMA AtPvt ==
  ASSUME pc' = "pvt",
         L!PVT_TIMER \in got' => quiet' <= PpsPeriod + PvtDelay,
         Armed' => quiet' + timer'.left <= PpsPeriod + PvtDelay
  PROVE  WaitInv'
  BY DEF WaitInv, L!PVT_TIMER

LEMMA StepInv ==
  ASSUME IInv, LP!IInv, BP!IInv, [Next]_vars
  PROVE  IInv'
<1>1. quiet \in Nat /\ PpsPeriod \in Nat /\ PvtDelay \in Nat
  BY TrackerAssumption DEF IInv, DebtInv
<1>2. Count(quiet) =>
        /\ quiet' \in Nat /\ quiet' <= quiet
        /\ quiet' > 0 => Owed' /\ quiet' = quiet
  BY <1>1, Counted
<1>3. InStep /\ DebtInv /\ WaitInv
  BY DEF IInv
<1>4. CASE Boot
  <2>1. pc = "enable" /\ ~polled
    <3>1. main \in {"boot", "start"}
      BY <1>4 DEF Boot, B!BleInit, B!StartReceiver
    <3> QED
      BY <1>3, <3>1, LoopFacts DEF InStep
  <2>2. pc' \in {"enable", "arm", "exited"} /\ polled' = polled
    BY <1>4, <2>1 DEF Boot, loop, L!EnablePps, L!ghost
  <2>3. InStep'
    BY <1>4, <2>1, <2>2 DEF Boot, loop, L!EnablePps, InStep
  <2>4. quiet' = 0
    BY <1>4, <2>1, <2>2 DEF Boot, Count, Owed
  <2>5. DebtInv' /\ WaitInv'
    BY <2>2, <2>4 DEF DebtInv, WaitInv
  <2> QED
    BY <2>3, <2>5 DEF IInv
<1>5. CASE StartUpdate
  <2>1. /\ pc = "pvt" /\ L!PVT_TIMER \in got
        /\ pc' = "update" /\ main' = "update" /\ busy' = 0
    BY <1>5 DEF StartUpdate, L!StartUpdate, B!StartUpdate
  <2>2. quiet <= PpsPeriod + PvtDelay
    BY <1>3, <2>1 DEF WaitInv
  <2>3. /\ quiet' \in Nat /\ quiet' <= quiet
        /\ quiet' > 0 => Owed'
    BY <1>2, <1>5 DEF StartUpdate
  <2>4. quiet' <= PpsPeriod + PvtDelay + busy'
    BY <1>1, <2>1, <2>2, <2>3
  <2>5. InStep' /\ DebtInv' /\ WaitInv'
    BY <2>1, <2>3, <2>4 DEF InStep, DebtInv, WaitInv
  <2> QED
    BY <2>5 DEF IInv
<1>6. CASE InUpdate
  <2>1. /\ UNCHANGED <<pc, got, timer, ppsIn, busy>>
        /\ UNCHANGED <<link, conn, default_conn>>
        /\ main \in {"update", "mtu"} /\ main' \in {"mtu", "notify"}
    BY <1>6 DEF InUpdate, loop, B!GetConn, B!CheckMtu, B!object
  <2>2. InStep'
    BY <1>3, <2>1 DEF InStep
  <2>3. /\ quiet' \in Nat /\ quiet' <= quiet
        /\ quiet' > 0 => Owed' /\ quiet' = quiet
    BY <1>2, <1>6 DEF InUpdate
  <2>4. held' # conn' => quiet' = 0
    <3> SUFFICES ASSUME quiet' > 0 PROVE held' = conn'
      BY <2>3
    <3>1. link = "up" /\ quiet > 0
      BY <2>1, <2>3 DEF Owed
    <3>2. CASE B!GetConn
      BY <2>1, <3>1, <3>2 DEF B!GetConn, BP!IInv, BP!ConnTracked
    <3>3. CASE B!CheckMtu
      BY <1>3, <2>1, <3>1, <3>3 DEF B!CheckMtu, DebtInv
    <3> QED
      BY <1>6, <3>2, <3>3 DEF InUpdate
  <2>5. DebtInv'
    BY <2>3, <2>4 DEF DebtInv
  <2>6. WaitInv'
    BY <2>1, <2>3, StillWaits
  <2> QED
    BY <2>2, <2>5, <2>6 DEF IInv
<1>7. CASE EndUpdate
  <2>1. quiet' = 0 /\ main' = "loop"
    BY <1>7, PaidAtEnd
  <2>2. pc = "update" /\ pc' = "loop" /\ timer' = timer
    BY <1>7 DEF EndUpdate, L!EndUpdate
  <2>3. ~Armed'
    BY <2>2, LoopFacts DEF Armed, L!Periodic
  <2>4. InStep' /\ DebtInv' /\ WaitInv'
    BY <2>1, <2>2, <2>3 DEF InStep, DebtInv, WaitInv
  <2> QED
    BY <2>4 DEF IInv
<1>8. CASE LoopStep
  <2>1. /\ pc \in {"arm", "loop", "woken", "pvt"} /\ pc' # "update"
        /\ UNCHANGED <<link, conn, main, held, subscribed>>
    BY <1>8 DEF LoopStep, radio, L!ArmTimer, L!Wait, L!HandleTick,
           L!SkipTick, L!SkipUpdate, L!NoPvtEvent
  <2>2. /\ quiet' \in Nat /\ quiet' <= quiet
        /\ quiet' > 0 => Owed' /\ quiet' = quiet
    BY <1>2, <1>8 DEF LoopStep
  <2>3. InStep' /\ DebtInv'
    BY <1>3, <2>1, <2>2 DEF InStep, DebtInv
  <2>4. ASSUME L!ArmTimer PROVE WaitInv'
    <3>1. pc' = "loop" /\ L!Periodic' /\ polled' = polled /\ ~polled
      <4>1. PollPeriod # 0
        BY TrackerAssumption
      <4> QED
        BY <2>4, <4>1, LoopFacts
           DEF L!ArmTimer, L!BootTimer, L!Timer, L!Periodic, L!ghost
    <3>2. quiet' = 0
      BY <2>2, <3>1 DEF Owed
    <3>3. ~Armed'
      BY <3>1 DEF Armed
    <3> QED
      BY <3>1, <3>2, <3>3, AtLoop
  <2>5. ASSUME L!Wait PROVE WaitInv'
    <3>1. pc = "loop" /\ pc' = "wait" /\ timer' = timer
      BY <2>5 DEF L!Wait, L!AfterReset
    <3>2. /\ Armed' <=> Armed
          /\ L!Periodic' <=> L!Periodic
      BY <3>1 DEF Armed, L!Periodic
    <3>3. quiet' > 0 => Armed
      BY <1>3, <2>2, <3>1 DEF WaitInv
    <3>4. Armed => quiet + timer.left <= PpsPeriod + PvtDelay
      BY <1>3, <3>1 DEF WaitInv
    <3>5. Armed' => quiet' + timer'.left <= PpsPeriod + PvtDelay
      <4>1. timer.left \in Nat
        BY LoopFacts
      <4> QED
        BY <1>1, <2>2, <3>1, <3>2, <3>4, <4>1, Less
    <3>6. quiet' > 0 => timer'.armed /\ ~L!Periodic'
      BY <3>1, <3>2, <3>3 DEF Armed
    <3> QED
      BY <3>1, <3>2, <3>3, <3>5, <3>6, AtWait
  <2>6. ASSUME L!HandleTick PROVE WaitInv'
    <3>1. /\ pc = "woken" /\ L!TICK \in got /\ pc' = "pvt" /\ got' = got
          /\ timer'.left = PvtDelay
      BY <2>6 DEF L!HandleTick, L!TickTimer, L!Timer
    <3>2. L!PVT_TIMER \notin got'
      BY <3>1, LoopFacts DEF L!TICK, L!PVT_TIMER
    <3>3. quiet <= PpsPeriod
      BY <1>3, <3>1 DEF WaitInv
    <3>4. quiet' + timer'.left <= PpsPeriod + PvtDelay
      <4>1. quiet + PvtDelay <= PpsPeriod + PvtDelay
        BY <1>1, <3>3, Less
      <4>2. PpsPeriod + PvtDelay \in Nat
        BY <1>1
      <4> QED
        BY <1>1, <2>2, <3>1, <4>1, <4>2, Less
    <3> QED
      BY <3>1, <3>2, <3>4, AtPvt
  <2>7. ASSUME L!SkipTick PROVE WaitInv'
    <3>1. /\ pc = "woken" /\ L!PVT_TIMER \in got /\ pc' = "pvt"
          /\ got' = got /\ timer' = timer
      BY <2>7, LoopFacts DEF L!SkipTick, L!TICK, L!PVT_TIMER
    <3>2. ~Armed'
      BY <3>1, LoopFacts DEF Armed, L!Periodic
    <3>3. quiet <= PpsPeriod + PvtDelay
      BY <1>3, <3>1 DEF WaitInv
    <3>4. quiet' <= PpsPeriod + PvtDelay
      BY <1>1, <2>2, <3>3
    <3> QED
      BY <3>1, <3>2, <3>4, AtPvt
  <2>8. ASSUME L!SkipUpdate PROVE WaitInv'
    <3>1. /\ pc = "pvt" /\ L!PVT_TIMER \in got /\ pc' = "loop"
          /\ timer' = timer /\ ~notify
      BY <2>8 DEF L!SkipUpdate
    <3>2. ~Armed'
      BY <3>1, LoopFacts DEF Armed, L!Periodic, L!TICK, L!PVT_TIMER
    <3>3. ~subscribed
      BY <3>1 DEF BP!IInv, BP!FlagIsSubscription
    <3>4. quiet' = 0
      BY <2>1, <2>2, <3>3 DEF Owed
    <3> QED
      BY <3>1, <3>2, <3>4, AtLoop
  <2>9. ASSUME L!NoPvtEvent PROVE WaitInv'
    <3>1. /\ pc = "pvt" /\ L!PVT_TIMER \notin got /\ pc' = "loop"
          /\ timer' = timer
      BY <2>9 DEF L!NoPvtEvent
    <3>2. Armed
      BY <3>1, LoopFacts DEF Armed
    <3>3. Armed'
      BY <3>1, <3>2 DEF Armed, L!Periodic
    <3>4. quiet + timer.left <= PpsPeriod + PvtDelay
      BY <1>3, <3>1, <3>2 DEF WaitInv
    <3>5. quiet' + timer'.left <= PpsPeriod + PvtDelay
      <4>1. timer.left \in Nat
        BY LoopFacts
      <4> QED
        BY <1>1, <2>2, <3>1, <3>4, <4>1, Less
    <3> QED
      BY <3>1, <3>3, <3>5, AtLoop
  <2> QED
    BY <1>8, <2>3, <2>4, <2>5, <2>6, <2>7, <2>8, <2>9 DEF LoopStep, IInv
<1>9. CASE Interrupts
  <2>1. UNCHANGED <<link, conn, main, held>>
    BY <1>9 DEF Interrupts, radio
  <2>2. /\ quiet' \in Nat /\ quiet' <= quiet
        /\ quiet' > 0 => Owed' /\ quiet' = quiet
    BY <1>2, <1>9 DEF Interrupts
  <2>3. pc' = pc \/ (pc = "wait" /\ pc' = "woken")
    BY <1>9 DEF Interrupts, L!Interrupts, L!TimerExpires, L!PpsEdge,
           L!LockChanged, L!Post, L!main
  <2>4. InStep' /\ DebtInv'
    BY <1>3, <2>1, <2>2, <2>3 DEF InStep, DebtInv
  <2>5. ASSUME L!TimerExpires PROVE WaitInv'
    <3>1. /\ timer.armed /\ timer.left = 0 /\ busy' = busy
          /\ pc = "wait" => pc' = "woken" /\ got' = {L!PVT_TIMER}
          /\ pc # "wait" => pc' = pc /\ got' = got
      BY <2>5, LoopFacts DEF L!TimerExpires, L!Post
    <3>2. CASE pc = "wait"
      <4>1. L!TICK \notin got'
        BY <3>1, <3>2 DEF L!TICK, L!PVT_TIMER
      <4>2. Armed => quiet <= PpsPeriod + PvtDelay
        BY <1>1, <1>3, <3>1, <3>2 DEF WaitInv
      <4>3. L!Periodic => quiet <= PpsPeriod
        BY <1>1, <1>3, <3>1, <3>2 DEF WaitInv
      <4>4. quiet <= PpsPeriod + PvtDelay
        <5>1. Armed \/ L!Periodic
          BY <3>1 DEF Armed
        <5> QED
          BY <1>1, <4>2, <4>3, <5>1
      <4>5. quiet' <= PpsPeriod + PvtDelay
        BY <1>1, <2>2, <4>4
      <4> QED
        BY <3>1, <3>2, <4>1, <4>5, AtWoken
    <3>3. CASE pc # "wait"
      <4>1. pc' = pc /\ got' = got
        BY <3>1, <3>3
      <4>2. pc \notin {"loop"} /\ ~Armed
        BY <3>1, <3>3, LoopFacts DEF Armed
      <4>3. L!Periodic /\ L!Periodic'
        <5>1. L!Periodic
          BY <3>1, <4>2 DEF Armed
        <5> QED
          BY <2>5, <5>1
             DEF L!TimerExpires, L!Expired, L!Timer, L!Periodic
      <4>4. ~Armed'
        BY <4>3 DEF Armed
      <4>5. (pc = "update" => quiet <= PpsPeriod + PvtDelay + busy)'
        <5>1. busy \in Nat
          BY LoopFacts, TrackerAssumption
        <5> QED
          BY <1>1, <1>3, <2>2, <3>1, <4>1, <5>1 DEF WaitInv
      <4>6. (pc \in {"woken", "pvt"} /\ L!PVT_TIMER \in got =>
               quiet <= PpsPeriod + PvtDelay)'
        BY <1>1, <1>3, <2>2, <4>1 DEF WaitInv, L!PVT_TIMER
      <4>7. (pc = "woken" /\ L!TICK \in got => quiet <= PpsPeriod)'
        BY <1>1, <1>3, <2>2, <4>1 DEF WaitInv, L!TICK
      <4> QED
        BY <3>3, <4>1, <4>2, <4>4, <4>5, <4>6, <4>7 DEF WaitInv
    <3> QED
      BY <3>2, <3>3
  <2>6. ASSUME L!PpsEdge PROVE WaitInv'
    <3>1. /\ ppsIn = 0 /\ timer' = timer /\ busy' = busy /\ locked' = locked
          /\ ppsIn' = PpsPeriod
      BY <2>6 DEF L!PpsEdge
    <3>2. ~Armed /\ ~Armed'
      BY <3>1, LoopFacts DEF Armed, L!Periodic
    <3>3. timer.left \in Nat
      BY LoopFacts
    <3>4. CASE pc' = "woken" /\ pc = "wait"
      <4>1. got' = {L!TICK}
        BY <2>6, <3>4, LoopFacts DEF L!PpsEdge, L!Post, L!main
      <4>2. L!PVT_TIMER \notin got'
        BY <4>1 DEF L!TICK, L!PVT_TIMER
      <4>3. quiet <= PpsPeriod
        <5>1. L!Periodic \/ ~timer.armed
          BY <3>2 DEF Armed
        <5>2. CASE L!Periodic
          BY <1>1, <1>3, <3>3, <3>4, <5>2 DEF WaitInv
        <5>3. CASE ~timer.armed
          BY <1>1, <1>3, <3>1, <3>4, <5>3 DEF WaitInv
        <5> QED
          BY <5>1, <5>2, <5>3
      <4>4. quiet' <= PpsPeriod
        BY <1>1, <2>2, <4>3
      <4> QED
        BY <3>4, <4>2, <4>4, AtWoken
    <3>5. CASE pc' = pc
      <4>1. UNCHANGED <<pc, got, timer, busy>>
        BY <2>6, <3>1, <3>5 DEF L!PpsEdge, L!Post, L!main
      <4>2. ~(pc = "wait" /\ ~timer.armed /\ quiet' > 0)
        <5> SUFFICES ASSUME pc = "wait", ~timer.armed, Owed' PROVE FALSE
          BY <2>2
        <5>1. ppsOn /\ ~L!Periodic
          BY LoopFacts
        <5>2. ~L!Periodic'
          BY <3>1, <5>1 DEF L!Periodic
        <5>3. locked
          BY <3>1, <5>2 DEF Owed, L!Due
        <5>4. pc' = "woken"
          BY <2>6, <5>1, <5>3 DEF L!PpsEdge, L!Post
        <5> QED
          BY <3>5, <5>4
      <4> QED
        BY <2>2, <4>1, <4>2, StillWaits
    <3> QED
      BY <2>3, <3>4, <3>5
  <2>7. ASSUME L!LockChanged PROVE WaitInv'
    <3>1. UNCHANGED <<pc, got, timer, ppsIn, busy>>
      BY <2>7 DEF L!LockChanged
    <3> QED
      BY <2>2, <3>1, StillWaits
  <2> QED
    BY <1>9, <2>4, <2>5, <2>6, <2>7 DEF Interrupts, L!Interrupts, IInv
<1>10. CASE Elapse
  <2>1. /\ pc \in {"wait", "exited", "update"} /\ pc' = pc
        /\ main \notin {"mtu", "notify"}
        /\ UNCHANGED <<link, conn, main, held>>
    BY <1>10 DEF Elapse, radio, L!ClockTick, L!CanElapse
  <2>2. /\ quiet' \in Nat /\ quiet' <= quiet + 1
        /\ quiet' > 0 => Owed' /\ quiet' = quiet + 1
    <3>1. quiet + 1 \in Nat /\ Count(quiet + 1)
      BY <1>1, <1>10 DEF Elapse
    <3> QED
      BY <3>1, Counted
  <2>3. InStep' /\ DebtInv'
    BY <1>3, <2>1, <2>2 DEF InStep, DebtInv
  <2>4. /\ timer.left \in Nat /\ ppsIn \in Nat /\ busy \in Nat
        /\ ppsIn <= PpsPeriod
    BY LoopFacts, TrackerAssumption
  <2>5. ASSUME pc = "update" PROVE WaitInv'
    <3>1. busy' = busy + 1
      BY <1>10, <2>5 DEF Elapse, L!ClockTick
    <3>2. quiet <= PpsPeriod + PvtDelay + busy
      BY <1>3, <2>5 DEF WaitInv
    <3>3. quiet' <= PpsPeriod + PvtDelay + busy'
      BY <1>1, <2>2, <2>4, <3>1, <3>2
    <3> QED
      BY <2>1, <2>5, <3>3 DEF WaitInv
  <2>6. ASSUME pc = "exited" PROVE WaitInv'
    BY <2>1, <2>6 DEF WaitInv
  <2>7. ASSUME pc = "wait" PROVE WaitInv'
    <3>1. /\ timer.armed => timer.left # 0
          /\ timer' = IF timer.armed
                      THEN L!Timer(timer.left - 1, timer.period) ELSE timer
          /\ ppsIn' = ppsIn - 1 /\ ppsIn > 0 /\ polled' = polled
      BY <1>10, <2>4 DEF Elapse, L!ClockTick, L!CanElapse
    <3>2. CASE timer.armed
      <4>1. /\ timer'.armed /\ timer'.left = timer.left - 1
            /\ L!Periodic' <=> L!Periodic
            /\ Armed' <=> Armed
        BY <3>1, <3>2 DEF L!Timer, Armed, L!Periodic
      <4>2. Armed' => quiet' + timer'.left <= PpsPeriod + PvtDelay
        <5> SUFFICES ASSUME Armed'
                     PROVE  quiet' + timer'.left <= PpsPeriod + PvtDelay
          OBVIOUS
        <5>1. quiet + timer.left <= PpsPeriod + PvtDelay
          BY <1>3, <2>7, <4>1 DEF WaitInv
        <5>2. quiet' + (timer.left - 1) <= PpsPeriod + PvtDelay
          BY <1>1, <2>2, <2>4, <5>1
        <5> QED
          BY <4>1, <5>2
      <4>3. L!Periodic' /\ quiet' > 0 => quiet' + timer'.left <= PpsPeriod
        <5> SUFFICES ASSUME L!Periodic', quiet' > 0
                     PROVE  quiet' + timer'.left <= PpsPeriod
          OBVIOUS
        <5>1. L!Periodic /\ polled
          BY <2>2, <3>1, <4>1 DEF Owed
        <5>2. timer.left <= PpsPeriod
          BY <2>7, <5>1, LoopFacts
        <5>3. quiet > 0 => quiet + timer.left <= PpsPeriod
          BY <1>3, <2>7, <5>1 DEF WaitInv
        <5>4. quiet + timer.left <= PpsPeriod
          BY <1>1, <2>4, <5>2, <5>3
        <5>5. quiet' + (timer.left - 1) <= PpsPeriod
          BY <1>1, <2>2, <2>4, <5>4
        <5> QED
          BY <4>1, <5>5
      <4> QED
        BY <2>1, <2>7, <4>1, <4>2, <4>3, AtWait
    <3>3. CASE ~timer.armed
      <4>1. timer' = timer /\ ~timer'.armed
        BY <3>1, <3>3
      <4>2. ~Armed' /\ ~L!Periodic'
        BY <3>3, <4>1, LoopFacts DEF Armed, L!Periodic
      <4>3. quiet' > 0 => quiet' + ppsIn' <= PpsPeriod
        <5>1. quiet > 0 => quiet + ppsIn <= PpsPeriod
          BY <1>3, <2>7, <3>3 DEF WaitInv
        <5>2. quiet + ppsIn <= PpsPeriod
          BY <1>1, <2>4, <5>1
        <5> QED
          BY <1>1, <2>2, <2>4, <3>1, <5>2
      <4> QED
        BY <2>1, <2>7, <4>2, <4>3, AtWait
    <3> QED
      BY <3>2, <3>3
  <2> QED
    BY <2>1, <2>3, <2>5, <2>6, <2>7 DEF IInv
<1>11. CASE Callbacks
  <2>1. /\ UNCHANGED <<pc, got, timer, ppsIn, busy>>
        /\ main' = main /\ held' = held
    BY <1>11 DEF Callbacks, loop, B!Stack, B!Phone, B!Negotiate,
           B!Disconnected, B!Recycled, B!Connected, B!ConnectFailed,
           B!MtuExchanged, B!CccWritten, B!LinkLost, B!thread
  <2>2. InStep'
    BY <1>3, <2>1 DEF InStep
  <2>3. /\ quiet' \in Nat /\ quiet' <= quiet
        /\ quiet' > 0 => Owed' /\ quiet' = quiet
    BY <1>2, <1>11 DEF Callbacks
  <2>4. quiet' > 0 => conn' = conn
    <3> SUFFICES ASSUME Owed' PROVE conn' = conn
      BY <2>3
    <3>1. link' = "up" /\ mtu' = 247
      BY DEF Owed, B!MtuMax
    <3>2. ~B!Connected /\ ~B!ConnectFailed
      BY <3>1 DEF B!Connected, B!ConnectFailed, B!MtuMin
    <3>3. \/ B!Negotiate \/ B!Disconnected \/ B!Recycled
          \/ B!MtuExchanged \/ B!CccWritten \/ B!LinkLost
      BY <1>11, <3>2 DEF Callbacks, B!Stack, B!Phone
    <3> QED
      BY <3>3 DEF B!Negotiate, B!Disconnected, B!Recycled, B!MtuExchanged,
             B!CccWritten, B!LinkLost, B!object
  <2>5. DebtInv'
    BY <1>3, <2>1, <2>3, <2>4 DEF DebtInv
  <2>6. WaitInv'
    BY <2>1, <2>3, StillWaits
  <2> QED
    BY <2>2, <2>5, <2>6 DEF IInv
<1>12. CASE UNCHANGED vars
  <2>1. /\ UNCHANGED <<pc, got, timer, ppsIn, busy>>
        /\ quiet' = quiet /\ main' = main /\ held' = held /\ conn' = conn
        /\ Owed' <=> Owed
    BY <1>12 DEF vars, Owed, L!Due, L!Periodic
  <2>2. InStep' /\ DebtInv'
    BY <1>3, <2>1 DEF InStep, DebtInv
  <2>3. WaitInv'
    BY <1>1, <2>1, StillWaits
  <2> QED
    BY <2>2, <2>3 DEF IInv
<1> QED
  BY <1>4, <1>5, <1>6, <1>7, <1>8, <1>9, <1>10, <1>11, <1>12 DEF Next

\* The inductive invariant of the composition, on top of those of the two
\* components.
LEMMA Invariant == Spec => []IInv
<1>1. IInv /\ LP!IInv /\ BP!IInv /\ [Next]_vars => IInv'
  BY StepInv
<1> QED
  BY <1>1, InitInv, LoopInv, RadioInv, PTL DEF Spec

\* At every place of the main thread the phone has been waiting for less than
\* the bound.
LEMMA WithinBound ==
  ASSUME IInv, LP!IInv
  PROVE  HeardInTime
<1>1. /\ quiet \in Nat /\ PpsPeriod \in Nat /\ PvtDelay \in Nat
      /\ MaxUpdate \in Nat /\ WaitInv
  BY TrackerAssumption DEF IInv, DebtInv
<1>2. /\ timer.left \in Nat /\ ppsIn \in Nat
      /\ busy \in Nat /\ busy <= MaxUpdate
  BY LoopFacts, TrackerAssumption
<1> SUFFICES ASSUME quiet > 0 PROVE quiet <= PpsPeriod + PvtDelay + MaxUpdate
  BY <1>1 DEF HeardInTime
<1>3. CASE pc = "update"
  <2>1. quiet <= PpsPeriod + PvtDelay + busy
    BY <1>1, <1>3 DEF WaitInv
  <2> QED
    BY <1>1, <1>2, <2>1
<1>4. CASE pc \in {"pvt", "loop", "wait"} /\ Armed
  <2>1. quiet + timer.left <= PpsPeriod + PvtDelay
    BY <1>1, <1>4 DEF WaitInv
  <2> QED
    BY <1>1, <1>2, <2>1
<1>5. CASE pc = "woken" \/ (pc = "pvt" /\ ~Armed)
  <2>1. pc = "woken" /\ L!TICK \in got => quiet <= PpsPeriod
    BY <1>1 DEF WaitInv
  <2>2. pc \in {"woken", "pvt"} /\ L!PVT_TIMER \in got =>
          quiet <= PpsPeriod + PvtDelay
    BY <1>1 DEF WaitInv
  <2>3. \/ pc = "woken" /\ L!TICK \in got
        \/ pc \in {"woken", "pvt"} /\ L!PVT_TIMER \in got
    BY <1>5, LoopFacts DEF Armed, L!TICK, L!PVT_TIMER
  <2> QED
    BY <1>1, <2>1, <2>2, <2>3
<1>6. CASE pc = "loop" /\ ~Armed
  BY <1>1, <1>6 DEF WaitInv
<1>7. CASE pc = "wait" /\ ~Armed
  <2>1. L!Periodic \/ ~timer.armed
    BY <1>7 DEF Armed
  <2>2. L!Periodic => quiet + timer.left <= PpsPeriod
    BY <1>1, <1>7 DEF WaitInv
  <2>3. ~timer.armed => quiet + ppsIn <= PpsPeriod
    BY <1>1, <1>7 DEF WaitInv
  <2>4. quiet + timer.left <= PpsPeriod \/ quiet + ppsIn <= PpsPeriod
    BY <2>1, <2>2, <2>3
  <2> QED
    BY <1>1, <1>2, <2>4
<1>8. CASE pc \in {"enable", "arm", "exited"}
  <2>1. polled
    BY DEF IInv, DebtInv, Owed
  <2> QED
    BY <1>8, <2>1, LoopFacts
<1>9. pc \in LP!PCs
  BY DEF LP!IInv, LP!TypeOK
<1> QED
  BY <1>3, <1>4, <1>5, <1>6, <1>7, <1>8, <1>9 DEF LP!PCs, LP!BootPCs

\* HeardInTime, for all delays, fix lengths and numbers of connections: a
\* phone that is connected, subscribed and has its MTU is sent its fix in time
\* (main.c:83-105, app_m10.c:120-126, ble_core.c:81-184).
THEOREM HeardSoon == Spec => []HeardInTime
<1>1. IInv /\ LP!IInv => HeardInTime
  BY WithinBound
<1> QED
  BY <1>1, Invariant, LoopInv, PTL

=============================================================================
