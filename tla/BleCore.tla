------------------------------ MODULE BleCore -------------------------------
(***************************************************************************)
(* The Bluetooth side of the tracker: advertising, the life of the one     *)
(* connection, default_conn and its reference, the notification flag       *)
(* (src/ble_core.c, src/ble_lns.c), and the main thread that sends a fix   *)
(* over default_conn (src/app_m10.c, src/main.c).                          *)
(*                                                                         *)
(* The callbacks run one after the other on cooperative threads of the     *)
(* stack: the main thread, which is preemptible, never interrupts one,     *)
(* but runs while on_connected sleeps, and is itself interrupted between   *)
(* any two of its calls.                                                   *)
(*                                                                         *)
(* The stack is the environment.  CONFIG_BT_MAX_CONN is 1, so there is one *)
(* connection object; connections are numbered to tell its lives apart.    *)
(***************************************************************************)
EXTENDS Naturals

CONSTANTS
  MaxConns,   \* bound: connections that are opened
  Lengths,    \* lengths of an encoded fix: 14 bytes, 21 with the time
  UintSize,   \* values of unsigned int: 2^32 in the firmware
  AdvMayFail  \* bt_le_adv_start may fail when a connection is recycled

ASSUME BleAssumption ==
  /\ MaxConns \in Nat /\ AdvMayFail \in BOOLEAN
  /\ UintSize \in Nat /\ UintSize > 247
  /\ Lengths \subseteq 0 .. UintSize - 1

VARIABLES
  link,          \* the connection object, as the stack has it
  conn,          \* the number of its latest connection
  callback,      \* on_connected is in its sleep
  app_refs,      \* references the application has on it
  default_conn,  \* the number of the connection it points to, 0 for NULL
  subscribed,    \* the phone has notifications on, in this connection
  notify,        \* lns_notify_enabled
  mtu,           \* ATT MTU of the connection
  mtu_request,   \* an MTU exchange is under way
  main,          \* where the main thread is
  held,          \* conn in m10_pvt_update
  len            \* encoded.len in ble_lns_notify_location_speed

object == <<link, conn, callback, app_refs, default_conn>>
gatt   == <<subscribed, notify, mtu, mtu_request>>
thread == <<main, held, len>>
vars   == <<link, conn, callback, app_refs, default_conn, subscribed, notify,
            mtu, mtu_request, main, held, len>>

\* off: not in use and not advertised; up: connected; down: the link is lost
\* and the application does not know; failed: never came up; released: the
\* stack has dropped its own reference.
Links   == {"off", "adv", "up", "down", "failed", "released"}
MtuMin  == 23
MtuMax  == 247                      \* CONFIG_BT_L2CAP_TX_MTU
NoConn  == 0

Init ==
  /\ link = "off" /\ conn = 0 /\ callback = "none"
  /\ app_refs = 0 /\ default_conn = NoConn
  /\ subscribed = FALSE /\ notify = FALSE
  /\ mtu = MtuMin /\ mtu_request = FALSE
  /\ main = "boot" /\ held = NoConn /\ len = 0

-----------------------------------------------------------------------------
(* The main thread. *)

\* ble_init: on any error main returns; the last call starts advertising.
BleInit ==
  /\ main = "boot"
  /\ \/ main' = "start" /\ link' = "adv"
     \/ main' = "exited" /\ UNCHANGED link
  /\ notify' = FALSE
  /\ UNCHANGED <<conn, callback, app_refs, default_conn, subscribed, mtu,
                 mtu_request, held, len>>

\* The receiver starts, or main returns: Bluetooth goes on without it.
StartReceiver ==
  /\ main = "start"
  /\ main' \in {"loop", "exited"}
  /\ UNCHANGED <<object, gatt, held, len>>

\* EVT_PVT_TIMER: m10_pvt_update only starts if notifications are on.
StartUpdate ==
  /\ main = "loop" /\ notify
  /\ main' = "update"
  /\ UNCHANGED <<object, gatt, held, len>>

\* Up to 880 ms later: no fix, or no connection, or the connection to use.
NoFix ==
  /\ main = "update"
  /\ main' = "loop"
  /\ UNCHANGED <<object, gatt, held, len>>

GetConn ==
  /\ main = "update"
  /\ IF default_conn = NoConn
     THEN main' = "loop" /\ UNCHANGED <<held, len>>
     ELSE main' = "mtu" /\ held' = default_conn /\ len' \in Lengths
  /\ UNCHANGED <<object, gatt>>

\* bt_gatt_get_mtu is 0 without a connection, and mtu - 3U then wraps.
GetMtu == IF link = "up" THEN mtu ELSE 0
RoomWithoutHeader(m) == m
Room(m) == (m + UintSize - 3) % UintSize

CheckMtu ==
  /\ main = "mtu"
  /\ IF len > Room(GetMtu)
     THEN main' = "loop" /\ held' = NoConn /\ len' = 0
     ELSE main' = "notify" /\ UNCHANGED <<held, len>>
  /\ UNCHANGED <<object, gatt>>

\* bt_gatt_notify sends it or refuses.
Notify ==
  /\ main = "notify"
  /\ main' = "loop" /\ held' = NoConn /\ len' = 0
  /\ UNCHANGED <<object, gatt>>

-----------------------------------------------------------------------------
(* Callbacks of the connection. *)

\* bt_conn_ref and bt_conn_unref on the object default_conn points to.
NoUnref(refs)    == refs
UnrefTwice(refs) == refs - 2
Unref(refs)      == refs - 1

\* A connection comes up: on_connected until its sleep.  Advertising has
\* ended with it.  bt_conn_get_info may fail: then nothing is negotiated.
Connected ==
  /\ link = "adv" /\ callback = "none" /\ conn < MaxConns
  /\ link' = "up" /\ conn' = conn + 1
  /\ mtu' = MtuMin /\ mtu_request' = FALSE
  /\ IF default_conn = NoConn
     THEN default_conn' = conn' /\ app_refs' = app_refs + 1
     ELSE UNCHANGED <<default_conn, app_refs>>
  /\ callback' \in {"sleep", "none"}
  /\ UNCHANGED <<subscribed, notify, thread>>

\* on_connected with an error does nothing.
ConnectFailed ==
  /\ link = "adv" /\ callback = "none" /\ conn < MaxConns
  /\ link' = "failed" /\ conn' = conn + 1
  /\ UNCHANGED <<callback, app_refs, default_conn, gatt, thread>>

\* The second of sleep is over: update_data_length and update_mtu, whose
\* errors are only logged.
Negotiate ==
  /\ callback = "sleep"
  /\ callback' = "none"
  /\ mtu_request' \in IF link = "up" THEN BOOLEAN ELSE {FALSE}
  /\ UNCHANGED <<link, conn, app_refs, default_conn, subscribed, notify, mtu,
                 thread>>

\* The phone answers the exchange, where exchange_func only logs, or makes one.
MtuExchanged ==
  /\ link = "up" /\ callback = "none"
  /\ \/ mtu_request /\ mtu_request' = FALSE /\ mtu' \in {mtu, MtuMax}
     \/ UNCHANGED mtu_request /\ mtu' = MtuMax
  /\ UNCHANGED <<object, subscribed, notify, thread>>

\* The phone writes the CCC: loc_speed_ccc_cfg_changed, lns_on_notify_changed.
OnlyOn(enabled)        == notify \/ enabled
Indicated(enabled)     == FALSE
NotifyChanged(enabled) == enabled

CccWritten ==
  /\ link = "up" /\ callback = "none"
  /\ subscribed' = ~subscribed
  /\ notify' = NotifyChanged(~subscribed)
  /\ UNCHANGED <<object, mtu, mtu_request, thread>>

LinkLost ==
  /\ link = "up"
  /\ link' = "down"
  /\ UNCHANGED <<conn, callback, app_refs, default_conn, gatt, thread>>

\* The stack resets the CCC of the lost connection, calls on_disconnected and
\* drops its own reference.
Disconnected ==
  /\ link = "down" /\ callback = "none"
  /\ link' = "released"
  /\ subscribed' = FALSE
  /\ notify' = IF subscribed THEN NotifyChanged(FALSE) ELSE notify
  /\ mtu_request' = FALSE
  /\ IF conn = default_conn
     THEN default_conn' = NoConn /\ app_refs' = Unref(app_refs)
     ELSE UNCHANGED <<default_conn, app_refs>>
  /\ UNCHANGED <<conn, callback, mtu, thread>>

\* The last reference is gone: on_recycled starts advertising again.
Recycled ==
  /\ link \in {"released", "failed"} /\ app_refs = 0
  /\ \/ link' = "adv"
     \/ AdvMayFail /\ link' = "off"
  /\ UNCHANGED <<conn, callback, app_refs, default_conn, gatt, thread>>

-----------------------------------------------------------------------------
MainThread == BleInit \/ StartReceiver \/ StartUpdate \/ NoFix \/ GetConn
              \/ CheckMtu \/ Notify
Stack == Negotiate \/ Disconnected \/ Recycled
Phone == Connected \/ ConnectFailed \/ MtuExchanged \/ CccWritten \/ LinkLost

Next == MainThread \/ Stack \/ Phone

Spec == Init /\ [][Next]_vars

\* The stack runs its callbacks; the phone owes nothing.  The main thread goes
\* on, the loop polls again and again (PollsForever of MainLoop), and polls
\* that go on bring a fix at some time.
FairSpec == Spec /\ WF_vars(BleInit) /\ WF_vars(Negotiate)
                 /\ WF_vars(Disconnected) /\ WF_vars(Recycled)
                 /\ WF_vars(StartReceiver) /\ WF_vars(StartUpdate)
                 /\ SF_vars(GetConn) /\ WF_vars(CheckMtu) /\ WF_vars(Notify)

-----------------------------------------------------------------------------
(* Properties. *)

TypeOK ==
  /\ link \in Links /\ conn \in 0 .. MaxConns
  /\ callback \in {"none", "sleep"}
  /\ app_refs \in Nat /\ default_conn \in 0 .. MaxConns
  /\ subscribed \in BOOLEAN /\ notify \in BOOLEAN
  /\ mtu \in {MtuMin, MtuMax} /\ mtu_request \in BOOLEAN
  /\ main \in {"boot", "start", "loop", "update", "mtu", "notify", "exited"}
  /\ held \in 0 .. MaxConns /\ len \in Lengths \cup {0}

\* default_conn is the connection the phone is on, from on_connected to
\* on_disconnected, NULL otherwise, and it holds the only reference
\* (ble_core.c:94-96, 120-123).  One reference too many and the object is
\* never recycled; one too few and it is recycled in use; a number left
\* behind and the next phone is never registered.
ConnTracked ==
  /\ default_conn = IF link \in {"up", "down"} THEN conn ELSE NoConn
  /\ app_refs = IF default_conn = NoConn THEN 0 ELSE 1

\* lns_notify_enabled (ble_core.c:178) is never left over from a phone that
\* has gone: it follows the subscription of the connection there is, although
\* on_disconnected does not touch it.
FlagIsSubscription == notify <=> subscribed

\* A fix that reaches bt_gatt_notify on the connection it was measured for
\* fits that connection, although a lost link lets mtu - 3U wrap
\* (ble_lns.c:217-221).
FitsMtu ==
  main = "notify" /\ link = "up" /\ held = conn => len + 3 <= mtu

\* ble_core.h:30: ble_get_default_conn returns a "connection reference".  So
\* while the main thread uses what it got, the object would not be given back
\* to the stack.
HeldIsReferenced == main \in {"mtu", "notify"} => app_refs > 0 /\ held = conn

\* ble_lns.h:152: -EMSGSIZE "if encoded payload does not fit current ATT
\* MTU".  So a fix that does not fit the MTU the stack gives for the
\* connection would be refused before bt_gatt_notify (ble_lns.c:217-221).
TooLongRefused ==
  [][CheckMtu /\ len + 3 > GetMtu => main' = "loop"]_vars

\* A phone can always find the tracker again: unless bt_le_adv_start failed
\* and left it off, the tracker is advertised or connected again and again,
\* whatever happens to its connections (ble_core.c:116-136).
AlwaysReachable == <>[](link = "off") \/ []<>(link \in {"adv", "up"})

\* A phone that stays and keeps its subscription is sent fixes for good, in
\* whatever order it connected, negotiated and subscribed, unless main
\* returned.  It has to have a large MTU: with the first one a fix with its
\* time never fits, and update_mtu is not tried again (ble_lns.c:219-221,
\* ble_core.c:112-113).
FixesReachPhone ==
  <>[](link = "up" /\ subscribed /\ mtu = MtuMax /\ main # "exited")
    => []<>(main = "notify")

=============================================================================
