------------------------------ MODULE PvtSample -----------------------------
(***************************************************************************)
(* From a verified NAV-PVT in the receive buffer to the sample the phone   *)
(* is notified of: the second half of m10_pvt_update (app_m10.c:85-133),   *)
(* with the structures of UbxLayout under it and LnsService behind it.     *)
(*                                                                         *)
(* The receiver is external: it puts the values where its protocol has     *)
(* them.  The code reads them where the compiler puts the fields.          *)
(***************************************************************************)
EXTENDS UbxLayout, LnsService

CONSTANTS
  Requests,     \* feature masks for ble_lns_init
  SampleFlags,  \* flags other callers of the service may set
  Motions       \* pairs: ground speed in mm/s, heading in 1e-5 degrees

\* uint16_t flags; int32_t gSpeed and headMot.
ASSUME SampleAssumption ==
  /\ SampleFlags \subseteq SUBSET (0 .. 15)
  /\ Motions \subseteq Int \X Int

VARIABLES
  cast,         \* the structure the received payload is taken for
  payload,      \* what the receiver wrote, by offset
  pvt,          \* the values the code read
  fix           \* the sample: speed and heading in the service's units

vars == <<service, notified, cast, payload, pvt, fix>>

Nothing == <<>>
NavPvtStruct == <<"NAV_PVT", "DATA1">>

Init ==
  /\ ServiceInit
  /\ cast = Nothing /\ payload = Nothing /\ pvt = Nothing /\ fix = Nothing

\* ble_init: the application's features, BLE_LNS_DEFAULT_FEATURES among them.
Initialize ==
  /\ \E requested \in Requests : LnsInit(requested)
  /\ UNCHANGED <<cast, payload, pvt, fix>>

\* Any caller of the service, with any flags.
NotifySample ==
  /\ cast = Nothing
  /\ \E flags \in SampleFlags : NotifyLocationSpeed(flags)
  /\ UNCHANGED <<cast, payload, pvt, fix>>

-----------------------------------------------------------------------------
(* The payload.                                                            *)

\* Where the protocol of the receiver has the values: bytes of flags with
\* the bits set in them, and words.
ValidAt   == 11
FlagsAt   == 21
GSpeedAt  == 60
HeadMotAt == 64
ValidDate == 0
ValidTime == 1
GnssFixOk == 0

Answer(valid, flags, gSpeed, headMot) ==
  [bits |-> {<<ValidAt, b>> : b \in valid} \cup {<<FlagsAt, b>> : b \in flags},
   word |-> [at \in {GSpeedAt, HeadMotAt} |->
               IF at = GSpeedAt THEN gSpeed ELSE headMot]]

\* The poll has succeeded: the payload is there, and cast to a structure.
Receive ==
  /\ cast = Nothing /\ sent = "nothing" /\ ready
  /\ cast' \in Structs
  /\ IF cast' = NavPvtStruct
     THEN \E valid \in SUBSET (0 .. 2), flags \in SUBSET {0, 1, 5},
             motion \in Motions :
            payload' = Answer(valid, flags, motion[1], motion[2])
     ELSE UNCHANGED payload
  /\ UNCHANGED <<service, notified, pvt, fix>>

-----------------------------------------------------------------------------
(* m10_pvt_update: read the fields, convert, notify.                       *)

\* The fields of UBX_NAV_PVT_DATA1_t that are used, by their place in it.
ValidField   == 8
FlagsField   == 12
GSpeedField  == 24
HeadMotField == 25

PvtFields == FieldsOf(NavPvtStruct)

\* A _GET macro is not 0: a bit of the mask is set in the byte.
Get(field, mask) ==
  \E b \in PvtFields[field].masks[mask] :
    <<Offset(PvtFields, field), b>> \in payload.bits

Word(field) ==
  LET at == Offset(PvtFields, field) IN
  IF at \in DOMAIN payload.word THEN payload.word[at] ELSE 0

\* Division in C truncates, and so % has the sign of the dividend.
TruncDiv(a, b) == (IF a >= 0 THEN a ELSE a + b - 1) \div b
remainder(a, b) == a - TruncDiv(a, b) * b
mod(a, b) ==
  LET r == a - TruncDiv(a, b) * b IN IF r < 0 THEN r + b ELSE r

UINT16_MAX == 65535
Wrapped(speed) == speed % (UINT16_MAX + 1)
Capped(speed)  == IF speed < UINT16_MAX THEN speed ELSE UINT16_MAX
Speed(mm_s)    == Capped((IF mm_s < 0 THEN 0 ELSE mm_s) \div 10)
FullTurn       == 36000                   \* of the service's 0.01 degrees
Heading(angle) == mod(TruncDiv(angle, 1000), FullTurn)

Read ==
  /\ cast = NavPvtStruct /\ pvt = Nothing
  /\ pvt' = [fix_ok  |-> Get(FlagsField, 1),
             time_ok |-> Get(ValidField, 1) /\ Get(ValidField, 2),
             gSpeed  |-> Word(GSpeedField),
             headMot |-> Word(HeadMotField)]
  /\ UNCHANGED <<service, notified, cast, payload, fix>>

\* POS_STATUS_ENCODE(POSITION_OK) is bit 7.
PvtFlagsTimed == {INST_SPEED, LOCATION, HEADING, 7, UTC_TIME}
PvtFlags ==
  {INST_SPEED, LOCATION, HEADING, 7}
    \cup (IF pvt.time_ok THEN {UTC_TIME} ELSE {})

\* With a fix, and a connection to notify.
Convert ==
  /\ pvt # Nothing /\ fix = Nothing /\ pvt.fix_ok
  /\ fix' = [speed |-> Speed(pvt.gSpeed), heading |-> Heading(pvt.headMot)]
  /\ NotifyLocationSpeed(PvtFlags)
  /\ UNCHANGED <<cast, payload, pvt>>

\* -ENODATA without a fix, -ENOTCONN without a connection, or the answer is
\* of another kind and nothing of it is notified.
NoSample ==
  /\ cast # Nothing /\ fix = Nothing
  /\ cast = NavPvtStruct => pvt # Nothing
  /\ cast' = Nothing /\ payload' = Nothing /\ pvt' = Nothing
  /\ UNCHANGED <<service, notified, fix>>

Return ==
  /\ NotifyReturns
  /\ cast' = Nothing /\ payload' = Nothing /\ pvt' = Nothing /\ fix' = Nothing

-----------------------------------------------------------------------------
Next == Initialize \/ NotifySample \/ Receive \/ Read \/ Convert \/ NoSample
        \/ Return

Spec == Init /\ [][Next]_vars

-----------------------------------------------------------------------------
(* Properties. *)

TypeOK ==
  /\ ServiceTypeOK
  /\ cast \in Structs \cup {Nothing}
  /\ pvt # Nothing =>
       pvt \in [fix_ok : BOOLEAN, time_ok : BOOLEAN,
               gSpeed : Int, headMot : Int]
  /\ fix # Nothing =>
       fix.speed \in 0 .. UINT16_MAX /\ fix.heading \in 0 .. FullTurn - 1

\* The structures whose C layout is not the layout of the message.
Padded ==
  {<<"AID_HUI", "DATA1">>, <<"CFG_DAT", "SETCUSTOM">>,
   <<"CFG_DAT", "GETCURRENT">>, <<"NAV_DOP", "DATA0">>,
   <<"ESF_RAW", "FRAME">>, <<"CFG_VALSET", "PAIR">>}

\* A cast of received bytes to a structure of the headers reads what the
\* message has, for every structure but these six, none of which the firmware
\* uses; and the _GET macros of one field never share a bit.
OverlayExact ==
  cast # Nothing /\ pvt = Nothing =>
    /\ Overlays(FieldsOf(cast)) <=> cast \notin Padded
    /\ \A k \in DOMAIN FieldsOf(cast) : GettersApart(FieldsOf(cast)[k])

\* The code takes an answer for a fix exactly if the receiver said gnssFixOK,
\* so that none is held back for what it says; and only such an answer is
\* encoded for the phone.  As far as the service has these features, what is
\* encoded has a position, and has a time exactly if the receiver also said
\* that date and time are both valid (app_m10.c:85-119, ble_lns.c:122-166).
\* The values are MotionFaithful.
ToldWhatWasSaid ==
  LET fixed == <<FlagsAt, GnssFixOk>> \in payload.bits
      timed == \A b \in {ValidDate, ValidTime} :
                 <<ValidAt, b>> \in payload.bits
  IN
  /\ pvt # Nothing => (pvt.fix_ok <=> fixed)
  /\ fix # Nothing =>
       /\ fixed
       /\ LOCATION \in out_flags <=> LOCATION \in lns_feature
       /\ UTC_TIME \in out_flags <=> timed /\ UTC_TIME \in lns_feature

\* The phone sees the motion the receiver measured: the speed to less than
\* 1 cm/s, none when it is negative and the largest there is when it is too
\* large; the heading, on the circle, to less than 0.01 degrees, also for
\* negative angles and after more than a turn (app_m10.c:51-54, 101-110).
MotionFaithful ==
  fix # Nothing =>
    LET measured == payload.word[GSpeedAt]
        circle   == 360 * 100000
        angle    == payload.word[HeadMotAt] % circle
        behind   == (angle - fix.heading * 1000) % circle
    IN
    /\ IF measured < 0 THEN fix.speed = 0
       ELSE IF measured > 10 * UINT16_MAX THEN fix.speed = UINT16_MAX
       ELSE measured - 10 * fix.speed \in 0 .. 9
    /\ behind < 1000 \/ behind > circle - 1000

=============================================================================
