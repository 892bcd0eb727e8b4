----------------------------- MODULE LnsService -----------------------------
(***************************************************************************)
(* The Location and Navigation Service, ble_lns.c: the features it is      *)
(* initialized with, and the encoding of a sample as the Location and      *)
(* Speed characteristic.  Feature bits and flag bits are bit numbers; for  *)
(* the seven fields the two headers use the same ones.                     *)
(***************************************************************************)
EXTENDS Integers, Sequences, SequencesExt

CONSTANT Mtus   \* the ATT MTUs a connection may have

VARIABLES
  ready,        \* ble_lns_init has returned 0
  lns_feature,
  sample,       \* flags of the sample being notified
  encoded,      \* the bytes in the net_buf, after the flags
  out_flags,    \* the flags in front of them
  sent          \* what the call did with them

service  == <<ready, lns_feature>>
notified == <<sample, encoded, out_flags, sent>>

INST_SPEED        == 0
TOTAL_DISTANCE    == 1
LOCATION          == 2
ELEVATION         == 3
HEADING           == 4
ROLLING_TIME      == 5
UTC_TIME          == 6
POS_STATUS        == {7, 8}
SPEED_DISTANCE_3D == 9
ELEVATION_SOURCE  == {10, 11}
HEADING_SOURCE    == 12

MAX_LEN      == 21
DEFINED      == 0 .. 20
IMPLEMENTED  == {INST_SPEED, LOCATION, HEADING, UTC_TIME}
DefinedFlags == 0 .. 12

ServiceInit ==
  /\ ready = FALSE /\ lns_feature = {}
  /\ sample = {} /\ encoded = <<>> /\ out_flags = {} /\ sent = "nothing"

\* ble_lns_init: -EINVAL, or the requested features there is code for.
EffectiveDefined(requested) == requested \cap DEFINED
Effective(requested) == requested \cap DEFINED \cap IMPLEMENTED

LnsInit(requested) ==
  /\ ~ready
  /\ IF requested \subseteq DEFINED
     THEN ready' = TRUE /\ lns_feature' = Effective(requested)
     ELSE UNCHANGED service
  /\ UNCHANGED notified

-----------------------------------------------------------------------------
(* encode_loc_speed.  A byte is known by its value and place in it: the    *)
(* first is the least significant.                                         *)

Value(name, size) == [k \in 1 .. size |-> <<name, k>>]

Field(f) ==
  CASE f = INST_SPEED     -> Value("inst_speed", 2)
    [] f = TOTAL_DISTANCE -> Value("total_distance", 3)
    [] f = LOCATION       -> Value("latitude", 4) \o Value("longitude", 4)
    [] f = ELEVATION      -> Value("elevation", 3)
    [] f = HEADING        -> Value("heading", 2)
    [] f = ROLLING_TIME   -> Value("rolling_time", 1)
    [] f = UTC_TIME       -> Value("year", 2) \o Value("month", 1)
                               \o Value("day", 1) \o Value("hours", 1)
                               \o Value("minutes", 1) \o Value("seconds", 1)

FieldOrderLate == <<INST_SPEED, TOTAL_DISTANCE, LOCATION, ELEVATION,
                    ROLLING_TIME, UTC_TIME, HEADING>>
FieldOrder == <<INST_SPEED, TOTAL_DISTANCE, LOCATION, ELEVATION, HEADING,
                ROLLING_TIME, UTC_TIME>>

\* The fields that are enabled and in the sample.
Encodes(flags) == lns_feature \cap flags \cap 0 .. 6

Bytes(flags) ==
  FlattenSeq([k \in DOMAIN FieldOrder |->
    IF FieldOrder[k] \in Encodes(flags) THEN Field(FieldOrder[k]) ELSE <<>>])

\* A field takes the attributes along that speak of it.
Attributes(f) ==
  CASE f = LOCATION  -> POS_STATUS
    [] f = ELEVATION -> ELEVATION_SOURCE
    [] f = HEADING   -> {HEADING_SOURCE}
    [] f \in {INST_SPEED, TOTAL_DISTANCE} -> {SPEED_DISTANCE_3D}
    [] OTHER         -> {}

PutFlags(flags) ==
  Encodes(flags) \cup
    (flags \cap UNION {Attributes(f) : f \in Encodes(flags)})

\* ble_lns_notify_location_speed
NotifyLocationSpeed(flags) ==
  /\ ready /\ sent = "nothing"
  /\ sample' = flags
  /\ encoded' = Bytes(flags \cap DefinedFlags)
  /\ out_flags' = PutFlags(flags \cap DefinedFlags)
  /\ \E mtu \in Mtus :
       sent' = IF 2 + Len(encoded') > mtu - 3 THEN "-EMSGSIZE" ELSE "notified"
  /\ UNCHANGED service

\* The buffer is on the stack: the next call starts with an empty one.
NotifyReturns ==
  /\ sent # "nothing"
  /\ sample' = {} /\ encoded' = <<>> /\ out_flags' = {} /\ sent' = "nothing"
  /\ UNCHANGED service

-----------------------------------------------------------------------------
(* The phone, by the Bluetooth definition of the characteristic.           *)

SigSize == [f \in 0 .. 6 |-> <<2, 3, 8, 3, 2, 1, 7>>[f + 1]]

SigOffset(flags, f) ==
  LET before[g \in 0 .. 7] ==
        IF g = 0 THEN 0
        ELSE before[g - 1] + IF g - 1 \in flags THEN SigSize[g - 1] ELSE 0
  IN before[f]

PhoneReads(f) ==
  SubSeq(encoded, SigOffset(out_flags, f) + 1,
                  SigOffset(out_flags, f) + SigSize[f])

-----------------------------------------------------------------------------
(* Properties. *)

ServiceTypeOK ==
  /\ ready \in BOOLEAN /\ lns_feature \subseteq IMPLEMENTED
  /\ sample \subseteq 0 .. 15 /\ out_flags \subseteq DefinedFlags
  /\ encoded \in Seq(UNION {Range(Field(f)) : f \in 0 .. 6})
  /\ sent \in {"nothing", "-EMSGSIZE", "notified"}

\* The buffer of NET_BUF_SIMPLE_DEFINE has 21 bytes: whatever features were
\* requested and whatever flags a sample has, the flags and the fields fit
\* (ble_lns.c:21, 213).
FitsBuffer == sent # "nothing" => 2 + Len(encoded) <= MAX_LEN

\* The phone, which has only the flags to go by, finds every field it is told
\* of where it looks for it, nothing is left over, and no attribute comes
\* without its field (ble_lns.c:107-176).
PhoneParses ==
  sent = "notified" =>
    /\ \A f \in out_flags \cap 0 .. 6 : PhoneReads(f) = Field(f)
    /\ Len(encoded) = SigOffset(out_flags, 7)
    /\ out_flags \ (0 .. 6) \subseteq
         UNION {Attributes(f) : f \in out_flags \cap 0 .. 6}

=============================================================================
