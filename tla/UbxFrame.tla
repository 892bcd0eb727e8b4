------------------------------ MODULE UbxFrame ------------------------------
(***************************************************************************)
(* One frame of the UBX protocol, byte by byte: ubx_build_msg puts header  *)
(* and checksum around a payload, the frame crosses the I2C bus into a     *)
(* receive buffer that is never cleared, ubx_verify_msg judges it.  A      *)
(* frame has Byte values per byte (256 in C) so that TLC can go through    *)
(* all payloads of a few bytes; 16-bit numbers have Byte * Byte values.    *)
(***************************************************************************)
EXTENDS Integers

CONSTANTS Byte,      \* the number of values of a byte
          Sync1,     \* UBX_SYNC_CHAR_1
          Sync2,     \* UBX_SYNC_CHAR_2
          Class, Id, \* the two bytes of class_msg_id
          Lengths,   \* the payload lengths that are sent
          BufSize    \* UBX_MAX_RX_MSG_LENGTH

Bytes == 0 .. Byte - 1
Words == Byte * Byte
HEAD  == 6                              \* UBX_HEAD_SIZE
FRAME == HEAD + 2                       \* and UBX_CHKSUM_SIZE
Index == 0 .. BufSize                   \* places of a buffer, and one behind

ASSUME FrameAssumption ==
  /\ Byte \in Nat /\ Byte > 3
  /\ {Sync1, Sync2, Class, Id} \subseteq Bytes
  /\ BufSize \in Nat /\ BufSize < Words
  /\ \A l \in Lengths : l \in Nat /\ l + FRAME <= BufSize

VARIABLES
  pc,        \* the statement that is next, or what ubx_verify_msg returned
  tx, rx,    \* the two buffers
  len,       \* payload_length
  n,         \* buff_length, how many bytes were received
  i, ck_a, ck_b,
  sum_a, sum_b   \* ghosts: ck_a and ck_b of the sender before each place

vars == <<pc, tx, rx, len, n, i, ck_a, ck_b, sum_a, sum_b>>

\* uint8_t and uint16_t sums wrap around.
AddWide(a, b) == a + b
Add(a, b) == IF a + b < Byte THEN a + b ELSE a + b - Byte
Uint16(x) == IF x < Words THEN x ELSE x - Words

Zero == [j \in Index |-> 0]

Init ==
  /\ pc = "build" /\ len \in Lengths /\ n = 0
  /\ \E payload \in [HEAD .. HEAD + len - 1 -> Bytes] :
       tx = [j \in Index |-> IF j \in DOMAIN payload THEN payload[j] ELSE 0]
  /\ rx = Zero /\ sum_a = Zero /\ sum_b = Zero
  /\ i = 0 /\ ck_a = 0 /\ ck_b = 0

\* The header; the payload is in the buffer already.
BuildHeader ==
  /\ pc = "build" /\ pc' = "tx_sum"
  /\ tx' = [tx EXCEPT ![0] = Sync1, ![1] = Sync2,
                      ![2] = Class, ![3] = Id,
                      ![4] = len % Byte, ![5] = len \div Byte]
  /\ i' = 2 /\ ck_a' = 0 /\ ck_b' = 0
  /\ UNCHANGED <<rx, len, n, sum_a, sum_b>>

\* One pass of the checksum loop, the same in both functions.
Step(buf) ==
  /\ i' = i + 1
  /\ ck_a' = Add(ck_a, buf[i])
  /\ ck_b' = Add(ck_b, ck_a')
  /\ UNCHANGED <<pc, tx, rx, len, n>>

BuildSum ==
  /\ pc = "tx_sum" /\ i < HEAD + len
  /\ Step(tx)
  /\ sum_a' = [sum_a EXCEPT ![i + 1] = ck_a']
  /\ sum_b' = [sum_b EXCEPT ![i + 1] = ck_b']

BuildEnd ==
  /\ pc = "tx_sum" /\ i = HEAD + len
  /\ tx' = [tx EXCEPT ![i] = ck_a, ![i + 1] = ck_b]
  /\ pc' = "wire"
  /\ UNCHANGED <<rx, len, n, i, ck_a, ck_b, sum_a, sum_b>>

-----------------------------------------------------------------------------
(* The bus.  What a read does not overwrite is left of earlier reads: in   *)
(* the worst case the same answer again.                                   *)

Receive(bytes, count, old) ==
  /\ n' = count
  /\ rx' = [j \in Index |-> IF j < count THEN bytes[j] ELSE old[j]]

Transfer ==
  /\ pc = "wire" /\ pc' = "verify"
  /\ \E old \in {Zero, tx} :
       \/ Receive(tx, FRAME + len, old)
       \/ \E count \in 0 .. FRAME + len - 1 : Receive(tx, count, old)
       \/ \E count \in FRAME + len + 1 .. BufSize : Receive(tx, count, old)
       \/ \E j \in 0 .. FRAME + len - 1, b \in Bytes :
            Receive([tx EXCEPT ![j] = b], FRAME + len, old)
  /\ UNCHANGED <<tx, len, i, ck_a, ck_b, sum_a, sum_b>>

-----------------------------------------------------------------------------
(* ubx_verify_msg *)

MsgLength == Uint16(rx[4] + rx[5] * Byte + FRAME)

InSync == rx[0] = Sync1 /\ rx[1] = Sync2

WrongLengthLoose == MsgLength >= BufSize \/ MsgLength < n
WrongLength == MsgLength >= BufSize \/ MsgLength # n

VerifyHeader ==
  /\ pc = "verify"
  /\ pc' = IF ~InSync THEN "header_wrong"
           ELSE IF WrongLength THEN "length_wrong" ELSE "rx_sum"
  /\ i' = 2 /\ ck_a' = 0 /\ ck_b' = 0
  /\ UNCHANGED <<tx, rx, len, n, sum_a, sum_b>>

VerifySum ==
  /\ pc = "rx_sum" /\ i < MsgLength - 2
  /\ Step(rx) /\ UNCHANGED <<sum_a, sum_b>>

Matches == ck_a = rx[MsgLength - 2] /\ ck_b = rx[MsgLength - 1]

VerifyEnd ==
  /\ pc = "rx_sum" /\ i >= MsgLength - 2
  /\ pc' = IF Matches THEN "ok" ELSE "decode"
  /\ UNCHANGED <<tx, rx, len, n, i, ck_a, ck_b, sum_a, sum_b>>

-----------------------------------------------------------------------------
Next ==
  \/ BuildHeader \/ BuildSum \/ BuildEnd \/ Transfer
  \/ VerifyHeader \/ VerifySum \/ VerifyEnd

Spec == Init /\ [][Next]_vars

-----------------------------------------------------------------------------
(* Properties. *)

Verdicts == {"ok", "header_wrong", "length_wrong", "decode"}

TypeOK ==
  /\ pc \in Verdicts \cup {"build", "tx_sum", "wire", "verify", "rx_sum"}
  /\ tx \in [Index -> Bytes] /\ rx \in [Index -> Bytes]
  /\ len \in Lengths /\ n \in Index /\ i \in Index
  /\ ck_a \in Bytes /\ ck_b \in Bytes
  /\ sum_a \in [Index -> Bytes] /\ sum_b \in [Index -> Bytes]

Intact == n = FRAME + len /\ \A j \in 0 .. n - 1 : rx[j] = tx[j]

\* A frame is accepted exactly when all of it was received and every byte of
\* it as it was built, although the buffer may hold an old copy behind a read
\* that was cut short (ubx.c:20-46).  A frame as long as the buffer is refused.
AcceptedIffIntact ==
  pc \in Verdicts => (pc = "ok" <=> Intact /\ n < BufSize)

=============================================================================
