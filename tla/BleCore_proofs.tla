--------------------------- MODULE BleCore_proofs ---------------------------
(***************************************************************************)
(* Proofs about the Bluetooth side, for every number of connections and    *)
(* every width of unsigned int.                                            *)
(***************************************************************************)
EXTENDS BleCore, TLAPS

\* Before ble_init there is no connection and no subscription.
BootInv == main = "boot" => link = "off" /\ ~subscribed

\* Connections are numbered from 1, and the main thread never holds one that
\* is still to come: one that comes up is never taken for the one it holds.
HeldInv ==
  /\ held <= conn
  /\ link \in {"up", "down"} => conn > 0

IInv ==
  /\ TypeOK /\ ConnTracked /\ FlagIsSubscription /\ FitsMtu
  /\ BootInv /\ HeldInv

-----------------------------------------------------------------------------
(* The invariant is inductive. *)

\* On a connection, mtu - 3U does not wrap (ble_lns.c:219).
LEMMA RoomOfMtu ==
  ASSUME NEW m \in {MtuMin, MtuMax}
  PROVE  Room(m) = m - 3
  BY BleAssumption DEF Room, MtuMin, MtuMax

\* The state before ble_init satisfies it.
LEMMA InitInv == Init => IInv
<1> SUFFICES ASSUME Init PROVE IInv
  OBVIOUS
<1>1. TypeOK
  <2>1. /\ conn \in 0 .. MaxConns /\ default_conn \in 0 .. MaxConns
        /\ held \in 0 .. MaxConns /\ app_refs \in Nat
    BY BleAssumption DEF Init, NoConn
  <2>2. QED
    BY <2>1, Zenon DEF Init, TypeOK, Links
<1>2. ConnTracked /\ FlagIsSubscription /\ FitsMtu /\ BootInv /\ HeldInv
  BY DEF Init, ConnTracked, FlagIsSubscription, FitsMtu, BootInv, HeldInv,
         NoConn
<1>3. QED
  BY <1>1, <1>2 DEF IInv

\* Every step of the main thread, the stack and the phone keeps it.
LEMMA StepInv == IInv /\ [Next]_vars => IInv'
<1> SUFFICES ASSUME IInv, [Next]_vars PROVE IInv'
  OBVIOUS
<1>1. CASE BleInit
  <2>1. TypeOK'
    BY <1>1 DEF BleInit, IInv, TypeOK, Links
  <2>2. ConnTracked'
    BY <1>1 DEF BleInit, IInv, ConnTracked, BootInv
  <2>3. FlagIsSubscription'
    BY <1>1 DEF BleInit, IInv, FlagIsSubscription, BootInv
  <2>4. FitsMtu'
    BY <1>1 DEF BleInit, FitsMtu
  <2>5. (BootInv /\ HeldInv)'
    BY <1>1 DEF BleInit, IInv, BootInv, HeldInv
  <2> QED
    BY <2>1, <2>2, <2>3, <2>4, <2>5 DEF IInv
<1>2. CASE StartReceiver
  <2>1. TypeOK'
    BY <1>2 DEF StartReceiver, IInv, TypeOK, object, gatt
  <2>2. ConnTracked'
    BY <1>2 DEF StartReceiver, IInv, ConnTracked, object
  <2>3. FlagIsSubscription'
    BY <1>2 DEF StartReceiver, IInv, FlagIsSubscription, gatt
  <2>4. FitsMtu'
    BY <1>2 DEF StartReceiver, FitsMtu
  <2>5. (BootInv /\ HeldInv)'
    BY <1>2 DEF StartReceiver, IInv, BootInv, HeldInv, object
  <2> QED
    BY <2>1, <2>2, <2>3, <2>4, <2>5 DEF IInv
<1>3. CASE StartUpdate
  <2>1. TypeOK'
    BY <1>3 DEF StartUpdate, IInv, TypeOK, object, gatt
  <2>2. ConnTracked'
    BY <1>3 DEF StartUpdate, IInv, ConnTracked, object
  <2>3. FlagIsSubscription'
    BY <1>3 DEF StartUpdate, IInv, FlagIsSubscription, gatt
  <2>4. FitsMtu'
    BY <1>3 DEF StartUpdate, FitsMtu
  <2>5. (BootInv /\ HeldInv)'
    BY <1>3 DEF StartUpdate, IInv, BootInv, HeldInv, object
  <2> QED
    BY <2>1, <2>2, <2>3, <2>4, <2>5 DEF IInv
<1>4. CASE NoFix
  <2>1. TypeOK'
    BY <1>4 DEF NoFix, IInv, TypeOK, object, gatt
  <2>2. ConnTracked'
    BY <1>4 DEF NoFix, IInv, ConnTracked, object
  <2>3. FlagIsSubscription'
    BY <1>4 DEF NoFix, IInv, FlagIsSubscription, gatt
  <2>4. FitsMtu'
    BY <1>4 DEF NoFix, FitsMtu
  <2>5. (BootInv /\ HeldInv)'
    BY <1>4 DEF NoFix, IInv, BootInv, HeldInv, object
  <2> QED
    BY <2>1, <2>2, <2>3, <2>4, <2>5 DEF IInv
<1>5. CASE GetConn
  <2>1. TypeOK'
    BY <1>5 DEF GetConn, IInv, TypeOK, object, gatt
  <2>2. ConnTracked'
    BY <1>5 DEF GetConn, IInv, ConnTracked, object
  <2>3. FlagIsSubscription'
    BY <1>5 DEF GetConn, IInv, FlagIsSubscription, gatt
  <2>4. FitsMtu'
    BY <1>5 DEF GetConn, FitsMtu
  <2>5. (BootInv /\ HeldInv)'
    BY <1>5 DEF GetConn, IInv, TypeOK, ConnTracked, BootInv, HeldInv, object
  <2> QED
    BY <2>1, <2>2, <2>3, <2>4, <2>5 DEF IInv
<1>6. CASE CheckMtu
  <2>1. TypeOK'
    BY <1>6, BleAssumption DEF CheckMtu, IInv, TypeOK, NoConn, object, gatt
  <2>2. ConnTracked'
    BY <1>6 DEF CheckMtu, IInv, ConnTracked, object
  <2>3. FlagIsSubscription'
    BY <1>6 DEF CheckMtu, IInv, FlagIsSubscription, gatt
  <2>4. FitsMtu'
    BY <1>6, BleAssumption, RoomOfMtu
       DEF CheckMtu, GetMtu, IInv, TypeOK, FitsMtu, MtuMin, object, gatt
  <2>5. (BootInv /\ HeldInv)'
    BY <1>6 DEF CheckMtu, IInv, TypeOK, BootInv, HeldInv, NoConn, object
  <2> QED
    BY <2>1, <2>2, <2>3, <2>4, <2>5 DEF IInv
<1>7. CASE Notify
  <2>1. TypeOK'
    BY <1>7, BleAssumption DEF Notify, IInv, TypeOK, NoConn, object, gatt
  <2>2. ConnTracked'
    BY <1>7 DEF Notify, IInv, ConnTracked, object
  <2>3. FlagIsSubscription'
    BY <1>7 DEF Notify, IInv, FlagIsSubscription, gatt
  <2>4. FitsMtu'
    BY <1>7 DEF Notify, FitsMtu
  <2>5. (BootInv /\ HeldInv)'
    BY <1>7 DEF Notify, IInv, TypeOK, BootInv, HeldInv, NoConn, object
  <2> QED
    BY <2>1, <2>2, <2>3, <2>4, <2>5 DEF IInv
<1>8. CASE Connected
  <2>1. TypeOK'
    <3>1. conn' \in 0 .. MaxConns /\ default_conn' \in 0 .. MaxConns
      BY <1>8, BleAssumption DEF Connected, IInv, TypeOK
    <3>2. app_refs' \in Nat
      BY <1>8 DEF Connected, IInv, TypeOK
    <3>3. QED
      BY <1>8, <3>1, <3>2 DEF Connected, IInv, TypeOK, Links, thread
  <2>2. ConnTracked'
    BY <1>8 DEF Connected, IInv, TypeOK, ConnTracked, NoConn
  <2>3. FlagIsSubscription'
    BY <1>8 DEF Connected, IInv, FlagIsSubscription
  <2>4. FitsMtu'
    BY <1>8 DEF Connected, IInv, TypeOK, FitsMtu, HeldInv, thread
  <2>5. (BootInv /\ HeldInv)'
    BY <1>8 DEF Connected, IInv, TypeOK, BootInv, HeldInv, thread
  <2> QED
    BY <2>1, <2>2, <2>3, <2>4, <2>5 DEF IInv
<1>9. CASE ConnectFailed
  <2>1. TypeOK'
    BY <1>9, BleAssumption DEF ConnectFailed, IInv, TypeOK, Links, gatt, thread
  <2>2. ConnTracked'
    BY <1>9 DEF ConnectFailed, IInv, ConnTracked
  <2>3. FlagIsSubscription'
    BY <1>9 DEF ConnectFailed, IInv, FlagIsSubscription, gatt
  <2>4. FitsMtu'
    BY <1>9 DEF ConnectFailed, FitsMtu
  <2>5. (BootInv /\ HeldInv)'
    BY <1>9 DEF ConnectFailed, IInv, TypeOK, BootInv, HeldInv, thread
  <2> QED
    BY <2>1, <2>2, <2>3, <2>4, <2>5 DEF IInv
<1>10. CASE Negotiate
  <2>1. TypeOK'
    BY <1>10 DEF Negotiate, IInv, TypeOK, thread
  <2>2. ConnTracked'
    BY <1>10 DEF Negotiate, IInv, ConnTracked
  <2>3. FlagIsSubscription'
    BY <1>10 DEF Negotiate, IInv, FlagIsSubscription
  <2>4. FitsMtu'
    BY <1>10 DEF Negotiate, IInv, FitsMtu, thread
  <2>5. (BootInv /\ HeldInv)'
    BY <1>10 DEF Negotiate, IInv, BootInv, HeldInv, thread
  <2> QED
    BY <2>1, <2>2, <2>3, <2>4, <2>5 DEF IInv
<1>11. CASE MtuExchanged
  <2>1. TypeOK'
    <3>1. mtu' \in {MtuMin, MtuMax}
      BY <1>11 DEF MtuExchanged, IInv, TypeOK
    <3>2. mtu_request' \in BOOLEAN
      BY <1>11 DEF MtuExchanged, IInv, TypeOK
    <3>3. QED
      BY <1>11 DEF MtuExchanged, IInv, TypeOK, object, thread
  <2>2. ConnTracked'
    BY <1>11 DEF MtuExchanged, IInv, ConnTracked, object
  <2>3. FlagIsSubscription'
    BY <1>11 DEF MtuExchanged, IInv, FlagIsSubscription
  <2>4. FitsMtu'
    BY <1>11, BleAssumption
       DEF MtuExchanged, IInv, TypeOK, FitsMtu, MtuMin, MtuMax, object, thread
  <2>5. (BootInv /\ HeldInv)'
    BY <1>11 DEF MtuExchanged, IInv, BootInv, HeldInv, object, thread
  <2> QED
    BY <2>1, <2>2, <2>3, <2>4, <2>5 DEF IInv
<1>12. CASE CccWritten
  <2>1. TypeOK'
    BY <1>12 DEF CccWritten, NotifyChanged, IInv, TypeOK, object, thread
  <2>2. ConnTracked'
    BY <1>12 DEF CccWritten, IInv, ConnTracked, object
  <2>3. FlagIsSubscription'
    BY <1>12 DEF CccWritten, NotifyChanged, FlagIsSubscription
  <2>4. FitsMtu'
    BY <1>12 DEF CccWritten, IInv, FitsMtu, object, thread
  <2>5. (BootInv /\ HeldInv)'
    BY <1>12 DEF CccWritten, IInv, BootInv, HeldInv, object, thread
  <2> QED
    BY <2>1, <2>2, <2>3, <2>4, <2>5 DEF IInv
<1>13. CASE LinkLost
  <2>1. TypeOK'
    BY <1>13 DEF LinkLost, IInv, TypeOK, Links, gatt, thread
  <2>2. ConnTracked'
    BY <1>13 DEF LinkLost, IInv, ConnTracked
  <2>3. FlagIsSubscription'
    BY <1>13 DEF LinkLost, IInv, FlagIsSubscription, gatt
  <2>4. FitsMtu'
    BY <1>13 DEF LinkLost, FitsMtu
  <2>5. (BootInv /\ HeldInv)'
    BY <1>13 DEF LinkLost, IInv, BootInv, HeldInv, thread
  <2> QED
    BY <2>1, <2>2, <2>3, <2>4, <2>5 DEF IInv
<1>14. CASE Disconnected
  <2>1. TypeOK'
    <3>1. default_conn' = NoConn /\ app_refs' = 0
      BY <1>14 DEF Disconnected, Unref, IInv, ConnTracked, HeldInv, NoConn
    <3>2. default_conn' \in 0 .. MaxConns /\ app_refs' \in Nat
      BY <3>1, BleAssumption DEF NoConn
    <3>3. /\ subscribed' \in BOOLEAN /\ notify' \in BOOLEAN
          /\ mtu_request' \in BOOLEAN
      BY <1>14 DEF Disconnected, NotifyChanged, IInv, TypeOK
    <3>4. QED
      BY <1>14, <3>2, <3>3 DEF Disconnected, IInv, TypeOK, Links, thread
  <2>2. ConnTracked'
    BY <1>14 DEF Disconnected, Unref, IInv, ConnTracked, HeldInv, NoConn
  <2>3. FlagIsSubscription'
    BY <1>14 DEF Disconnected, NotifyChanged, IInv, FlagIsSubscription
  <2>4. FitsMtu'
    BY <1>14 DEF Disconnected, FitsMtu
  <2>5. (BootInv /\ HeldInv)'
    BY <1>14 DEF Disconnected, IInv, BootInv, HeldInv, thread
  <2> QED
    BY <2>1, <2>2, <2>3, <2>4, <2>5 DEF IInv
<1>15. CASE Recycled
  <2>1. TypeOK'
    BY <1>15 DEF Recycled, IInv, TypeOK, Links, gatt, thread
  <2>2. ConnTracked'
    BY <1>15 DEF Recycled, IInv, ConnTracked
  <2>3. FlagIsSubscription'
    BY <1>15 DEF Recycled, IInv, FlagIsSubscription, gatt
  <2>4. FitsMtu'
    BY <1>15 DEF Recycled, FitsMtu
  <2>5. (BootInv /\ HeldInv)'
    BY <1>15 DEF Recycled, IInv, BootInv, HeldInv, thread
  <2> QED
    BY <2>1, <2>2, <2>3, <2>4, <2>5 DEF IInv
<1>16. CASE UNCHANGED vars
  BY <1>16
     DEF vars, IInv, TypeOK, ConnTracked, FlagIsSubscription, FitsMtu, BootInv,
         HeldInv
<1> QED
  BY <1>1, <1>2, <1>3, <1>4, <1>5, <1>6, <1>7, <1>8, <1>9, <1>10, <1>11, <1>12,
     <1>13, <1>14, <1>15, <1>16
     DEF Next, MainThread, Stack, Phone

-----------------------------------------------------------------------------
(* The properties. *)

\* The strengthened invariant holds in every reachable state.
THEOREM Invariant == Spec => []IInv
<1>1. Init => IInv
  BY InitInv
<1>2. IInv /\ [Next]_vars => IInv'
  BY StepInv
<1>3. QED
  BY <1>1, <1>2, PTL DEF Spec

\* Every variable keeps its type: the references never go below zero.
THEOREM TypeCorrect == Spec => []TypeOK
<1>1. IInv => TypeOK
  BY DEF IInv
<1>2. QED
  BY <1>1, Invariant, PTL

\* default_conn is the connection there is, and holds the one reference
\* (ble_core.c:94-96, 120-123), over any number of connections.
THEOREM ConnectionIsTracked == Spec => []ConnTracked
<1>1. IInv => ConnTracked
  BY DEF IInv
<1>2. QED
  BY <1>1, Invariant, PTL

\* lns_notify_enabled is the subscription of the present connection
\* (ble_core.c:176-180), over any number of connections.
THEOREM FlagIsCurrent == Spec => []FlagIsSubscription
<1>1. IInv => FlagIsSubscription
  BY DEF IInv
<1>2. QED
  BY <1>1, Invariant, PTL

\* What reaches bt_gatt_notify fits the connection it is meant for
\* (ble_lns.c:217-223), for every set of lengths and every integer width.
THEOREM FixFits == Spec => []FitsMtu
<1>1. IInv => FitsMtu
  BY DEF IInv
<1>2. QED
  BY <1>1, Invariant, PTL

-----------------------------------------------------------------------------
(* Liveness.  What a fair step leads to is proved; that a step can be taken  *)
(* when its guard holds is ENABLED, of which the provers know nothing, so it *)
(* is a hypothesis, GuardsEnable.                                            *)

\* Every step that fairness speaks of can be taken when its guard holds, and
\* is no stutter.  This is so by the form of the actions: what follows each
\* guard in them gives every variable a value, and one of them another one
\* (GetConn, if there is any length at all).
GuardsEnable ==
  /\ callback = "sleep" => ENABLED <<Negotiate>>_vars
  /\ link = "down" /\ callback = "none" => ENABLED <<Disconnected>>_vars
  /\ link \in {"released", "failed"} /\ app_refs = 0
       => ENABLED <<Recycled>>_vars
  /\ main = "boot" => ENABLED <<BleInit>>_vars
  /\ main = "start" => ENABLED <<StartReceiver>>_vars
  /\ main = "loop" /\ notify => ENABLED <<StartUpdate>>_vars
  /\ main = "update" => ENABLED <<GetConn>>_vars
  /\ main = "mtu" => ENABLED <<CheckMtu>>_vars
  /\ main = "notify" => ENABLED <<Notify>>_vars

\* Where a lost connection is on its way back to being advertised.
Asleep   == link = "down" /\ callback = "sleep"
Lost     == link = "down" /\ callback = "none"
Returned == link \in {"released", "failed"}
Off      == link = "off"
OnAir    == link \in {"adv", "up"}

\* There is no other place.
LEMMA Places == IInv => Asleep \/ Lost \/ Returned \/ Off \/ OnAir
  BY DEF IInv, TypeOK, Links, Asleep, Lost, Returned, Off, OnAir

\* From each place there is one way on.
LEMMA Onward ==
  IInv /\ [Next]_vars =>
    /\ Asleep   => Asleep' \/ Lost'
    /\ Lost     => Lost' \/ Returned'
    /\ Returned => Returned' \/ Off' \/ OnAir'
    /\ Off      => Off' \/ OnAir'
<1> SUFFICES ASSUME IInv, [Next]_vars
             PROVE  /\ Asleep   => Asleep' \/ Lost'
                    /\ Lost     => Lost' \/ Returned'
                    /\ Returned => Returned' \/ Off' \/ OnAir'
                    /\ Off      => Off' \/ OnAir'
  OBVIOUS
<1> USE DEF Asleep, Lost, Returned, Off, OnAir
<1>1. CASE MainThread
  <2>1. CASE BleInit
    BY <2>1 DEF BleInit, IInv, BootInv
  <2>2. CASE ~BleInit
    BY <1>1, <2>2 DEF MainThread, StartReceiver, StartUpdate, NoFix, GetConn,
         CheckMtu, Notify, object
  <2> QED
    BY <2>1, <2>2
<1>2. CASE Stack
  BY <1>2 DEF Stack, Negotiate, Disconnected, Recycled
<1>3. CASE Phone
  BY <1>3 DEF Phone, Connected, ConnectFailed, MtuExchanged, CccWritten,
              LinkLost, object
<1>4. CASE UNCHANGED vars
  BY <1>4 DEF vars
<1> QED
  BY <1>1, <1>2, <1>3, <1>4 DEF Next

\* The stack's callbacks take it.
LEMMA CallbacksTake ==
  /\ Asleep /\ <<Negotiate>>_vars => Lost'
  /\ Lost /\ <<Disconnected>>_vars => Returned'
  /\ Returned /\ <<Recycled>>_vars => Off' \/ OnAir'
  BY DEF Asleep, Lost, Returned, Off, OnAir, Negotiate, Disconnected, Recycled

\* They can: after on_disconnected there is no reference left.
LEMMA CallbacksEnabled ==
  IInv /\ GuardsEnable =>
    /\ Asleep   => ENABLED <<Negotiate>>_vars
    /\ Lost     => ENABLED <<Disconnected>>_vars
    /\ Returned => ENABLED <<Recycled>>_vars
<1>1. IInv /\ Returned => app_refs = 0
  BY DEF IInv, ConnTracked, Returned
<1> QED
  BY <1>1 DEF GuardsEnable, Asleep, Lost, Returned

\* AlwaysReachable, for any number of connections: a phone can always find
\* the tracker again (ble_core.c:116-136).
THEOREM Reachable == FairSpec /\ []GuardsEnable => AlwaysReachable
<1>1. <>[]Off \/ []<>OnAir <=> AlwaysReachable
  BY PTL DEF Off, OnAir, AlwaysReachable
<1>2. Spec => []IInv
  BY Invariant
<1> QED
  BY <1>1, <1>2, Places, Onward, CallbacksTake, CallbacksEnabled, PTL
     DEF FairSpec, Spec


-----------------------------------------------------------------------------
(* A phone that is ready is sent fixes for good.                           *)

\* The lengths of a fix fit the large MTU (ble_lns.c:21 and 219).
FixesFit == \A l \in Lengths : l + 3 <= MtuMax

Ready == link = "up" /\ subscribed /\ mtu = MtuMax /\ main # "exited"

\* Where the main thread is on its way to bt_gatt_notify.
Starting == main = "start"
Idle     == main = "loop"
Polling  == main = "update"
Checking == main = "mtu"
Sending  == main = "notify"

\* Ready, it is in one of these places, and is not stopped by a missing
\* subscription, connection or MTU.
LEMMA ReadyFacts ==
  ASSUME FixesFit
  PROVE  IInv /\ Ready =>
           /\ Starting \/ Idle \/ Polling \/ Checking \/ Sending
           /\ notify /\ default_conn # NoConn
           /\ ~(len > Room(GetMtu))
<1> SUFFICES ASSUME IInv, Ready
             PROVE  /\ Starting \/ Idle \/ Polling \/ Checking \/ Sending
                    /\ notify /\ default_conn # NoConn
                    /\ ~(len > Room(GetMtu))
  OBVIOUS
<1>1. main # "boot"
  BY DEF IInv, BootInv, Ready
<1>2. Starting \/ Idle \/ Polling \/ Checking \/ Sending
  BY <1>1 DEF IInv, TypeOK, Ready, Starting, Idle, Polling, Checking, Sending
<1>3. notify
  BY DEF IInv, FlagIsSubscription, Ready
<1>4. default_conn # NoConn
  <2>1. default_conn = conn /\ conn > 0
    BY DEF IInv, ConnTracked, HeldInv, Ready
  <2> QED
    BY <2>1 DEF NoConn
<1>5. ~(len > Room(GetMtu))
  <2>1. Room(GetMtu) = 244
    BY RoomOfMtu DEF Ready, GetMtu, MtuMax
  <2>2. len \in Lengths \/ len = 0
    BY DEF IInv, TypeOK
  <2>3. \A l \in Lengths : l \in Nat /\ l + 3 <= 247
    BY BleAssumption DEF FixesFit, MtuMax
  <2> QED
    BY <2>1, <2>2, <2>3
<1> QED
  BY <1>2, <1>3, <1>4, <1>5

\* While the phone stays ready, the thread only goes back from a poll without
\* a fix, and every step but that one brings it nearer.
LEMMA Towards ==
  ASSUME FixesFit
  PROVE  IInv /\ Ready /\ Ready' /\ [Next]_vars =>
           /\ Starting => Starting' \/ Idle'
           /\ Idle     => Idle' \/ Polling'
           /\ Polling  => Polling' \/ Idle' \/ Checking'
           /\ Checking => Checking' \/ Sending'
<1> SUFFICES ASSUME IInv, Ready, Ready', [Next]_vars
             PROVE  /\ Starting => Starting' \/ Idle'
                    /\ Idle     => Idle' \/ Polling'
                    /\ Polling  => Polling' \/ Idle' \/ Checking'
                    /\ Checking => Checking' \/ Sending'
  OBVIOUS
<1> USE DEF Starting, Idle, Polling, Checking, Sending
<1>1. CASE MainThread
  <2>1. ~(len > Room(GetMtu)) /\ main' # "exited"
    BY ReadyFacts DEF Ready
  <2> QED
    BY <1>1, <2>1 DEF MainThread, BleInit, StartReceiver, StartUpdate, NoFix,
         GetConn, CheckMtu, Notify
<1>2. CASE Stack \/ Phone \/ UNCHANGED vars
  BY <1>2 DEF Stack, Negotiate, Disconnected, Recycled, Phone, Connected,
       ConnectFailed, MtuExchanged, CccWritten, LinkLost, thread, vars
<1> QED
  BY <1>1, <1>2 DEF Next

\* The steps that fairness owes do bring it nearer.
LEMMA StepsTake ==
  ASSUME FixesFit
  PROVE  IInv /\ Ready /\ Ready' =>
           /\ Starting /\ <<StartReceiver>>_vars => Idle'
           /\ <<StartUpdate>>_vars => Polling'
           /\ <<GetConn>>_vars => Checking'
           /\ <<CheckMtu>>_vars => Sending'
<1> SUFFICES ASSUME IInv, Ready, Ready'
             PROVE  /\ Starting /\ <<StartReceiver>>_vars => Idle'
                    /\ <<StartUpdate>>_vars => Polling'
                    /\ <<GetConn>>_vars => Checking'
                    /\ <<CheckMtu>>_vars => Sending'
  OBVIOUS
<1>1. default_conn # NoConn /\ ~(len > Room(GetMtu))
  BY ReadyFacts
<1> QED
  BY <1>1 DEF Ready, Idle, Polling, Checking, Sending, StartReceiver,
       StartUpdate, GetConn, CheckMtu

\* They can be taken: the subscription has set the flag.
LEMMA StepsEnabled ==
  ASSUME FixesFit
  PROVE  IInv /\ Ready /\ GuardsEnable =>
           /\ Starting => ENABLED <<StartReceiver>>_vars
           /\ Idle     => ENABLED <<StartUpdate>>_vars
           /\ Polling  => ENABLED <<GetConn>>_vars
           /\ Checking => ENABLED <<CheckMtu>>_vars
<1>1. IInv /\ Ready => notify
  BY ReadyFacts
<1> QED
  BY <1>1 DEF GuardsEnable, Starting, Idle, Polling, Checking

\* FixesReachPhone, for any number of connections before this one: a phone
\* that stays and keeps its subscription is sent fixes for good
\* (ble_core.c:94-96, 176-180, app_m10.c:120-126, ble_lns.c:217-223).
THEOREM FixesReach ==
  ASSUME FixesFit
  PROVE  FairSpec /\ []GuardsEnable => FixesReachPhone
<1>1. (<>[]Ready => []<>Sending) <=> FixesReachPhone
  BY PTL DEF Ready, Sending, FixesReachPhone
<1>2. Spec => []IInv
  BY Invariant
<1>3. IInv /\ Ready => Starting \/ Idle \/ Polling \/ Checking \/ Sending
  BY ReadyFacts
<1>4. IInv /\ Ready /\ Ready' /\ [Next]_vars =>
        /\ Starting => Starting' \/ Idle'
        /\ Idle     => Idle' \/ Polling'
        /\ Polling  => Polling' \/ Idle' \/ Checking'
        /\ Checking => Checking' \/ Sending'
  BY Towards
<1>5. IInv /\ Ready /\ Ready' =>
        /\ Starting /\ <<StartReceiver>>_vars => Idle'
        /\ <<StartUpdate>>_vars => Polling'
        /\ <<GetConn>>_vars => Checking'
        /\ <<CheckMtu>>_vars => Sending'
  BY StepsTake
<1>6. IInv /\ Ready /\ GuardsEnable =>
        /\ Starting => ENABLED <<StartReceiver>>_vars
        /\ Idle     => ENABLED <<StartUpdate>>_vars
        /\ Polling  => ENABLED <<GetConn>>_vars
        /\ Checking => ENABLED <<CheckMtu>>_vars
  BY StepsEnabled
<1> QED
  BY <1>1, <1>2, <1>3, <1>4, <1>5, <1>6, PTL DEF FairSpec, Spec

=============================================================================
