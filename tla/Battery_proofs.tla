--------------------------- MODULE Battery_proofs ---------------------------
(***************************************************************************)
(* Proofs about the battery monitor, for all delays, all voltages at the   *)
(* pin and any bound on the failures.                                      *)
(***************************************************************************)
EXTENDS Battery, TLAPS

-----------------------------------------------------------------------------
(* The computation of the level. *)

Voltages == 0 .. 3599
Percent(pin) == Level(Microvolts(Raw(pin)))

\* Division rounds down by less than the divisor.
LEMMA Quotient ==
  ASSUME NEW a \in Nat
  PROVE  /\ a \div 450000 \in Nat
         /\ 450000 * (a \div 450000) <= a
         /\ a < 450000 * (a \div 450000) + 450000
BY SMT

\* A level that is computed from a voltage stands for every voltage that the
\* ADC does not tell from it.
LEMMA LevelStands ==
  ASSUME NEW pin \in Nat, NEW uv \in Nat,
         uv <= 1000 * pin, 1000 * pin < uv + 880
  PROVE  /\ Level(uv) \in 0 .. 100
         /\ StandsFor(Level(uv), 1000 * pin - MIN_PIN)
<1>1. CASE uv >= 2100000
  <2>1. Level(uv) = 100
    BY <1>1, SMT DEF Level, MAX_PIN
  <2> QED
    BY <1>1, <2>1, SMT DEF StandsFor, MAX_PIN, MIN_PIN
<1>2. CASE uv > 1650000 /\ uv < 2100000
  <2> DEFINE a == (uv - 1650000) * 100
             p == a \div 450000
  <2>1. Level(uv) = p
    BY <1>2, SMT DEF Level, MAX_PIN, MIN_PIN
  <2>2. a \in Nat /\ a < 45000000
    BY <1>2, SMT
  <2>3. p \in Nat /\ 450000 * p <= a /\ a < 450000 * p + 450000
    <3> HIDE DEF a
    <3> QED
      BY <2>2, Quotient
  <2> HIDE DEF p
  <2>4. p \in 0 .. 100
    BY <2>2, <2>3, SMT
  <2> QED
    BY <1>2, <2>1, <2>3, <2>4, SMT DEF StandsFor, MAX_PIN, MIN_PIN
<1>3. CASE uv <= 1650000
  <2>1. Level(uv) = 0
    BY <1>3, SMT DEF Level, MAX_PIN, MIN_PIN
  <2> QED
    BY <1>3, <2>1, SMT DEF StandsFor, MAX_PIN, MIN_PIN
<1> QED
  BY <1>1, <1>2, <1>3

\* What the code computes of a voltage stands for it.
LEMMA LevelOfPin ==
  ASSUME NEW pin \in Voltages
  PROVE  /\ Percent(pin) \in 0 .. 100
         /\ StandsFor(Percent(pin), 1000 * pin - MIN_PIN)
<1> DEFINE raw == Raw(pin)
           uv  == Microvolts(raw)
\* The ADC rounds down, and so does the conversion.
<1>1. pin \in 0 .. 3599
  BY DEF Voltages
<1>2. raw \in Nat /\ raw * 3600 <= pin * 4096 /\ pin * 4096 < raw * 3600 + 3600
  BY <1>1, SMT DEF Raw
<1>3. uv \in Nat /\ uv * 32 <= raw * 28125 /\ raw * 28125 < uv * 32 + 32
  BY <1>2, SMT DEF Microvolts
<1>4. uv <= 1000 * pin /\ 1000 * pin < uv + 880
  BY <1>1, <1>2, <1>3, SMT
<1> HIDE DEF uv
<1>5. Level(uv) \in 0 .. 100 /\ StandsFor(Level(uv), 1000 * pin - MIN_PIN)
  BY <1>1, <1>3, <1>4, LevelStands
<1> QED
  BY <1>5 DEF uv, Percent

-----------------------------------------------------------------------------
(* The invariant: while no work item waits the timer will expire before    *)
(* the level is an interval older than the failures explain; a waiting one *)
(* was submitted when the timer last started.                              *)

Allowed == (failures + 1) * Interval

MonitorInv ==
  /\ main \in {"ble_init", "battery_init"} => ~armed
  /\ ~armed => ~queued /\ age = 0
  /\ armed /\ ~queued => age + left <= Allowed
  /\ queued => age <= Allowed + wait /\ left = Interval - wait

IInv == TypeOK /\ LevelFaithful /\ MonitorInv

LEMMA Constants ==
  /\ First \in Nat /\ Interval \in Nat /\ Latency \in Nat
  /\ First <= Interval /\ Latency < Interval /\ MaxFailures \in Nat
  /\ Pins \subseteq 0 .. 3599
  /\ First \in 0 .. Interval /\ Interval \in 0 .. Interval
  /\ 0 \in 0 .. Interval /\ 0 \in 0 .. Latency /\ 0 \in 0 .. MaxFailures
BY BatteryAssumption

\* A failure more, an interval more.
LEMMA AllowedGrows ==
  ASSUME NEW f \in Nat
  PROVE  (f + 1) * Interval \in Nat
         /\ ((f + 1) + 1) * Interval = (f + 1) * Interval + Interval
         /\ (f + 1) * Interval >= Interval
BY Constants

LEMMA InitInv == Init => IInv
<1> SUFFICES ASSUME Init PROVE IInv
  OBVIOUS
<1>1. level \in 0 .. 100 /\ age \in Nat
  BY DEF Init
<1>2. left \in 0 .. Interval /\ wait \in 0 .. Latency
      /\ failures \in 0 .. MaxFailures
  BY Constants DEF Init
<1>3. armed \in BOOLEAN /\ queued \in BOOLEAN
  BY DEF Init
<1>4. TypeOK
  BY <1>1, <1>2, <1>3 DEF Init, TypeOK
<1> QED
  BY <1>4 DEF Init, IInv, LevelFaithful, MonitorInv, NotYet

LEMMA CallInv ==
  ASSUME NEW step, NEW next \in {"battery_init", "m10_start", "loop"},
         IInv, Call(step, next), next = "battery_init" => step = "ble_init"
  PROVE  IInv'
<1>1. main = step /\ main' \in {next, "exited"}
  BY DEF Call
<1>2. UNCHANGED <<armed, left, queued, wait, level, sampled, age, failures>>
  BY DEF Call, timer, work, reading
<1>3. main' \in {"ble_init", "battery_init"} => ~armed
  BY <1>1 DEF IInv, MonitorInv
<1> QED
  BY <1>1, <1>2, <1>3 DEF IInv, TypeOK, LevelFaithful, MonitorInv, Allowed

LEMMA BatteryInitInv == IInv /\ BatteryInit => IInv'
<1> SUFFICES ASSUME IInv, BatteryInit PROVE IInv'
  OBVIOUS
<1>1. /\ main = "battery_init" /\ main' = "m10_init"
      /\ \/ UNCHANGED <<armed, left>>
         \/ armed' = TRUE /\ left' = First
      /\ UNCHANGED <<queued, wait, level, sampled, age, failures>>
  BY DEF BatteryInit, timer, work, reading
<1>2. armed' \in BOOLEAN /\ left' \in 0 .. Interval
  <2>1. left \in 0 .. Interval /\ armed \in BOOLEAN
    BY DEF IInv, TypeOK
  <2>2. CASE UNCHANGED <<armed, left>>
    BY <2>1, <2>2
  <2>3. CASE armed' = TRUE /\ left' = First
    <3>1. left' \in 0 .. Interval
      BY <2>3, Constants
    <3>2. armed' \in BOOLEAN
      BY <2>3
    <3> QED
      BY <3>1, <3>2
  <2> QED
    BY <1>1, <2>2, <2>3
<1>3. TypeOK' /\ LevelFaithful'
  BY <1>1, <1>2 DEF IInv, TypeOK, LevelFaithful
<1>4. MonitorInv'
  <2>1. ~queued /\ age = 0
    BY <1>1 DEF IInv, MonitorInv
  <2>2. Allowed' >= Interval
    BY <1>1, AllowedGrows DEF IInv, TypeOK, Allowed
  <2>3. Allowed' = Allowed
    BY <1>1 DEF Allowed
  <2>4. Allowed' \in Nat
    BY <1>1, AllowedGrows DEF IInv, TypeOK, Allowed
  <2>5. left' <= Interval /\ left' \in Nat
    BY <1>2
  <2>6. 0 = age'
    BY <1>1, <2>1
  <2>7. Interval \in Nat
    BY BatteryAssumption
  <2>8. left' <= Allowed'
    BY <2>2, <2>4, <2>5, <2>7
  <2>9. age' + left' = left'
    BY <2>5, <2>6
  <2> QED
    BY <1>1, <2>1, <2>2, <2>4, <2>5, <2>6, <2>8, <2>9 DEF MonitorInv
<1> QED
  BY <1>3, <1>4 DEF IInv

LEMMA TimerExpiresInv == IInv /\ TimerExpires => IInv'
<1> SUFFICES ASSUME IInv, TimerExpires PROVE IInv'
  OBVIOUS
<1>1. /\ armed /\ left = 0 /\ left' = Interval
      /\ queued' = TRUE /\ wait' = IF queued THEN wait ELSE 0
      /\ UNCHANGED <<main, armed, level, sampled, age, failures>>
  BY DEF TimerExpires, Submit, reading
\* A work item that waits was submitted less than an interval ago.
<1>2. ~queued
  BY <1>1, Constants DEF IInv, MonitorInv, TypeOK
<1>3. wait' = 0
  BY <1>1, <1>2
<1>4. TypeOK' /\ LevelFaithful'
  BY <1>1, <1>3, Constants DEF IInv, TypeOK, LevelFaithful
<1>5. MonitorInv'
  <2>1. age <= Allowed /\ Allowed' = Allowed
    BY <1>1, <1>2 DEF IInv, MonitorInv, TypeOK, Allowed
  <2>2. Allowed \in Nat
    BY AllowedGrows DEF IInv, TypeOK, Allowed
  <2> QED
    BY <1>1, <1>3, <2>1, <2>2, Constants DEF IInv, MonitorInv
<1> QED
  BY <1>4, <1>5 DEF IInv

LEMMA ReadBatteryInv == IInv /\ ReadBattery => IInv'
<1> SUFFICES ASSUME IInv, ReadBattery PROVE IInv'
  OBVIOUS
<1>1. /\ queued /\ queued' = FALSE /\ wait' = 0
      /\ age' = 0 /\ failures' = 0
      /\ UNCHANGED <<main, armed, left>>
  BY DEF ReadBattery, timer
<1>2. PICK pin \in Pins :
        level' = Percent(pin) /\ sampled' = pin
  BY DEF ReadBattery, Percent
<1>3. pin \in Voltages /\ pin \in 0 .. 3599
  BY <1>2, Constants DEF Voltages
<1>4. level' \in 0 .. 100 /\ LevelFaithful'
  <2>1. Percent(pin) \in 0 .. 100 /\ StandsFor(Percent(pin), 1000 * pin - MIN_PIN)
    BY <1>3, LevelOfPin
  <2> QED
    BY <1>2, <2>1 DEF LevelFaithful
<1>5. TypeOK'
  <2>1. age' \in Nat /\ failures' \in 0 .. MaxFailures
    BY <1>1, Constants
  <2>2. wait' \in 0 .. Latency
    BY <1>1, Constants
  <2>3. queued' \in BOOLEAN
    BY <1>1
  <2> QED
    BY <1>1, <1>2, <1>4, <2>1, <2>2, <2>3 DEF IInv, TypeOK
<1>6. MonitorInv'
  <2>1. Allowed' = Interval
    BY <1>1, Constants DEF Allowed
  <2>2. left' \in 0 .. Interval
    BY <1>1 DEF IInv, TypeOK
  <2>3. main' \in {"ble_init", "battery_init"} => ~armed'
    BY <1>1 DEF IInv, MonitorInv
  <2> QED
    BY <1>1, <2>1, <2>2, <2>3 DEF MonitorInv
<1> QED
  BY <1>4, <1>5, <1>6 DEF IInv

LEMMA ReadFailsInv == IInv /\ ReadFails => IInv'
<1> SUFFICES ASSUME IInv, ReadFails PROVE IInv'
  OBVIOUS
<1>1. /\ queued /\ queued' = FALSE /\ wait' = 0
      /\ failures < MaxFailures /\ failures' = failures + 1
      /\ UNCHANGED <<main, armed, left, level, sampled, age>>
  BY DEF ReadFails, timer
<1>2. failures \in Nat /\ failures' \in 0 .. MaxFailures
  BY <1>1, Constants DEF IInv, TypeOK
<1>3. wait' \in 0 .. Latency
  BY <1>1, Constants
<1>4. queued' \in BOOLEAN
  BY <1>1
<1>5. TypeOK' /\ LevelFaithful'
  BY <1>1, <1>2, <1>3, <1>4 DEF IInv, TypeOK, LevelFaithful
<1>6. MonitorInv'
  <2>1. Allowed' = Allowed + Interval /\ Allowed \in Nat
    BY <1>1, <1>2, AllowedGrows DEF Allowed
  <2>2. age <= Allowed + wait /\ left = Interval - wait
    BY <1>1 DEF IInv, MonitorInv
  <2>3. age \in Nat /\ wait \in 0 .. Latency
    BY DEF IInv, TypeOK
  <2>4. age + left <= Allowed'
    BY <2>1, <2>2, <2>3, Constants
  <2> QED
    BY <1>1, <2>4 DEF IInv, MonitorInv
<1> QED
  BY <1>5, <1>6 DEF IInv

LEMMA ClockTickInv == IInv /\ ClockTick => IInv'
<1> SUFFICES ASSUME IInv, ClockTick PROVE IInv'
  OBVIOUS
<1>1. /\ armed /\ left > 0 /\ (queued => wait < Latency)
      /\ left' = left - 1 /\ wait' = IF queued THEN wait + 1 ELSE wait
      /\ age' = age + 1
      /\ UNCHANGED <<main, armed, queued, level, sampled, failures>>
  BY DEF ClockTick
<1>2. TypeOK' /\ LevelFaithful'
  BY <1>1, Constants DEF IInv, TypeOK, LevelFaithful
<1>3. MonitorInv'
  <2>1. Allowed' = Allowed /\ Allowed \in Nat
    BY <1>1, AllowedGrows DEF IInv, TypeOK, Allowed
  <2>2. age \in Nat /\ left \in Nat /\ wait \in Nat
    BY DEF IInv, TypeOK
  <2> QED
    BY <1>1, <2>1, <2>2, Constants DEF IInv, MonitorInv
<1> QED
  BY <1>2, <1>3 DEF IInv

LEMMA StepInv == IInv /\ [Next]_vars => IInv'
<1> SUFFICES ASSUME IInv, [Next]_vars PROVE IInv'
  OBVIOUS
<1>1. CASE BleInit
  BY <1>1, CallInv DEF BleInit
<1>2. CASE BatteryInit
  BY <1>2, BatteryInitInv
<1>3. CASE M10Init
  BY <1>3, CallInv DEF M10Init
<1>4. CASE M10Start
  BY <1>4, CallInv DEF M10Start
<1>5. CASE TimerExpires
  BY <1>5, TimerExpiresInv
<1>6. CASE ReadBattery
  BY <1>6, ReadBatteryInv
<1>7. CASE ReadFails
  BY <1>7, ReadFailsInv
<1>8. CASE ClockTick
  BY <1>8, ClockTickInv
<1>9. CASE UNCHANGED vars
  BY <1>9 DEF vars, IInv, TypeOK, LevelFaithful, MonitorInv, Allowed
<1> QED
  BY <1>1, <1>2, <1>3, <1>4, <1>5, <1>6, <1>7, <1>8, <1>9 DEF Next

-----------------------------------------------------------------------------
(* The theorems. *)

\* Every variable keeps its type; the level is a percentage.
THEOREM TypeCorrect == Spec => []TypeOK
<1>1. IInv => TypeOK
  BY DEF IInv
<1> QED
  BY <1>1, InitInv, StepInv, PTL DEF Spec

\* The level the phone sees ages by no more than an interval per failed
\* reading, one interval, and the time a reading takes, for all delays with
\* which a reading ends before the next is due.
THEOREM LevelIsFresh == Spec => []LevelFresh
<1>1. IInv => LevelFresh
  <2> SUFFICES ASSUME IInv PROVE LevelFresh
    OBVIOUS
  <2>1. age \in Nat /\ left \in Nat /\ wait \in 0 .. Latency
    BY DEF IInv, TypeOK
  <2>2. Allowed \in Nat
    BY AllowedGrows DEF IInv, TypeOK, Allowed
  <2>3. age <= Allowed + Latency
    BY <2>1, <2>2, Constants DEF IInv, MonitorInv
  <2> QED
    BY <2>3 DEF LevelFresh, Allowed
<1> QED
  BY <1>1, InitInv, StepInv, PTL DEF Spec

\* For every voltage at the pin, the level is the percentage it stands for.
THEOREM LevelIsFaithful == Spec => []LevelFaithful
<1>1. IInv => LevelFaithful
  BY DEF IInv
<1> QED
  BY <1>1, InitInv, StepInv, PTL DEF Spec

=============================================================================
