------------------------------- MODULE Tracker -------------------------------
(***************************************************************************)
(* The main loop and the Bluetooth side as one program: MainLoop has the   *)
(* events, the timers and the time, BleCore the connection and the calls   *)
(* m10_pvt_update makes on it.  They share the main thread, which executes *)
(* one step of both, and lns_notify_enabled, which is an input of MainLoop *)
(* and an output of BleCore.                                               *)
(***************************************************************************)
EXTENDS Integers

CONSTANTS
  PpsPeriod, PvtDelay, FirstPoll, PollPeriod, MaxUpdate,   \* of MainLoop
  MaxConns, Lengths, UintSize, AdvMayFail                  \* of BleCore

VARIABLES
  pc, events, got, timer, led, ppsOn, locked, ppsIn, busy, since, polled,
  link, conn, callback, app_refs, default_conn, subscribed, mtu, mtu_request,
  main, held, len,
  notify,
  quiet      \* ghost: for how long the phone has been owed a fix

loop  == <<pc, events, got, timer, led, ppsOn, locked, ppsIn, busy, since,
           polled>>
radio == <<link, conn, callback, app_refs, default_conn, subscribed, mtu,
           mtu_request, main, held, len>>
vars  == <<pc, events, got, timer, led, ppsOn, locked, ppsIn, busy, since,
           polled, link, conn, callback, app_refs, default_conn, subscribed,
           mtu, mtu_request, main, held, len, notify, quiet>>

L == INSTANCE MainLoop
B == INSTANCE BleCore

ASSUME TrackerAssumption ==
  /\ PpsPeriod \in Nat /\ PvtDelay \in Nat /\ FirstPoll \in Nat
  /\ PollPeriod \in Nat /\ MaxUpdate \in Nat
  /\ 0 < PvtDelay /\ PvtDelay < PpsPeriod
  /\ 0 < FirstPoll
  /\ MaxUpdate < PollPeriod /\ PollPeriod <= PpsPeriod
  /\ MaxConns \in Nat /\ AdvMayFail \in BOOLEAN
  /\ UintSize \in Nat /\ UintSize > 247
  /\ Lengths \subseteq 0 .. UintSize - 1
  /\ \A l \in Lengths : l <= 244   \* ble_lns.c:21: MAX_LEN of LnsService

\* A fix is owed to a phone that is connected, subscribed and has negotiated
\* its MTU, once polling has begun and while the receiver has its lock.
Owed ==
  /\ L!Due /\ polled
  /\ link = "up" /\ subscribed /\ mtu = B!MtuMax

Init == L!Init /\ B!Init /\ quiet = 0

-----------------------------------------------------------------------------
(* The count of quiet begins with the debt and ends with it.               *)

Count(next) == quiet' = IF Owed' THEN next ELSE 0

-----------------------------------------------------------------------------
(* Steps of both: the main thread. *)

\* main.c:42-81: main returns on the first error, or gets to arm its timer.
Boot ==
  /\ \/ B!BleInit /\ main' = "start" /\ UNCHANGED loop
     \/ /\ B!BleInit \/ B!StartReceiver
        /\ L!EnablePps
        /\ main' = IF pc' = "arm" THEN "loop" ELSE "exited"
  /\ Count(quiet)

StartUpdate == L!StartUpdate /\ B!StartUpdate /\ Count(quiet)

\* Getting the connection, then its MTU: the code does not sleep any more.
InUpdate ==
  /\ B!GetConn \/ B!CheckMtu
  /\ main' # "loop"
  /\ UNCHANGED loop /\ Count(quiet)

\* m10_pvt_update returns without a fix, which ends the debt; without a
\* connection, or with one whose MTU is too small; or from bt_gatt_notify,
\* which sends on the connection it is given if that is still the one there is.
NoFix == B!NoFix /\ Count(0)

NotSent == (B!GetConn \/ B!CheckMtu) /\ main' = "loop" /\ Count(quiet)

Notify == B!Notify /\ Count(IF link = "up" /\ held = conn THEN 0 ELSE quiet)

EndUpdate == L!EndUpdate /\ (NoFix \/ NotSent \/ Notify)

\* The rest of the main loop knows nothing of Bluetooth but the flag.
LoopStep ==
  /\ \/ L!ArmTimer \/ L!Wait \/ L!HandleTick \/ L!SkipTick
     \/ L!SkipUpdate \/ L!NoPvtEvent
  /\ UNCHANGED radio /\ Count(quiet)

-----------------------------------------------------------------------------
(* Steps of one side: interrupts and time, callbacks and the phone. *)

Interrupts ==
  (L!Interrupts \/ L!LockChanged) /\ UNCHANGED radio /\ Count(quiet)

Elapse ==
  /\ L!ClockTick /\ main \notin {"mtu", "notify"}
  /\ UNCHANGED radio /\ Count(quiet + 1)

Callbacks == (B!Stack \/ B!Phone) /\ UNCHANGED loop /\ Count(quiet)

-----------------------------------------------------------------------------
Next ==
  \/ Boot \/ StartUpdate \/ InUpdate \/ EndUpdate \/ LoopStep
  \/ Interrupts \/ Elapse \/ Callbacks

Spec == Init /\ [][Next]_vars

-----------------------------------------------------------------------------
(* Properties. *)

\* A phone that is owed a fix is sent one, or the receiver has none to send,
\* within a second, the delay of a poll and the time of an update, whatever
\* happened before on this connection or on others: no order of ticks, polls,
\* callbacks and MTU exchanges makes the tracker poll for a phone and keep
\* what it got (main.c:83-105, app_m10.c:120-126, ble_core.c:81-184).
HeardInTime == quiet <= PpsPeriod + PvtDelay + MaxUpdate

=============================================================================
