-------------------------- MODULE UbxFrame_proofs ---------------------------
(***************************************************************************)
(* Proof that ubx_verify_msg accepts exactly the frames that arrived as    *)
(* they were built, for every number of values a byte has, every length    *)
(* and every content.                                                      *)
(***************************************************************************)
EXTENDS UbxFrame, TLAPS

-----------------------------------------------------------------------------
(* Arithmetic. *)

\* Bytes are added in a group: a sum tells its summands apart.
LEMMA AddCancels ==
  /\ \A a, b \in Bytes : Add(a, b) \in Bytes
  /\ \A a, b, c \in Bytes : Add(a, c) = Add(b, c) => a = b
  /\ \A a, b, c \in Bytes : Add(c, a) = Add(c, b) => a = b
<1>1. Byte \in Nat
  BY FrameAssumption
<1> QED
  BY <1>1 DEF Add, Bytes

\* The two bytes of a length give it back.
LEMMA TwoBytes ==
  ASSUME NEW l \in Nat, l < Words
  PROVE  /\ l % Byte \in Bytes /\ l \div Byte \in Bytes
         /\ l = (l % Byte) + (l \div Byte) * Byte
<1>1. Byte \in Nat /\ Byte > 3
  BY FrameAssumption
<1> DEFINE q == l \div Byte
           r == l % Byte
<1>2. q \in Int /\ r \in 0 .. Byte - 1 /\ l = r + q * Byte
  BY <1>1
<1>3. q >= 0
  BY <1>1, <1>2
<1>4. q < Byte
  BY <1>1, <1>2 DEF Words
<1> QED
  BY <1>1, <1>2, <1>3, <1>4 DEF Bytes

-----------------------------------------------------------------------------
(* The invariant. *)

Total == FRAME + len

HeaderInv ==
  pc # "build" =>
    /\ tx[0] = Sync1 /\ tx[1] = Sync2
    /\ tx[4] = len % Byte /\ tx[5] = len \div Byte

\* The ghost is the history of the sender's sums.
SumsUpTo(k) ==
  \A j \in 2 .. k - 1 :
    /\ sum_a[j + 1] = Add(sum_a[j], tx[j])
    /\ sum_b[j + 1] = Add(sum_b[j], sum_a[j + 1])

SumsInv ==
  /\ sum_a[2] = 0 /\ sum_b[2] = 0
  /\ pc = "tx_sum" =>
       /\ i \in 2 .. HEAD + len /\ SumsUpTo(i)
       /\ sum_a[i] = ck_a /\ sum_b[i] = ck_b
  /\ pc \notin {"build", "tx_sum"} =>
       /\ SumsUpTo(HEAD + len)
       /\ sum_a[HEAD + len] = tx[HEAD + len]
       /\ sum_b[HEAD + len] = tx[HEAD + len + 1]

Wrong(p) ==
  /\ rx[p] # tx[p]
  /\ \A j \in 0 .. Total - 1 : j # p => rx[j] = tx[j]

\* What can have arrived: a number of bytes the header does not announce, the
\* frame, or the frame with one wrong byte.
ArrivedInv ==
  pc \notin {"build", "tx_sum", "wire"} =>
    \/ n # Total /\ MsgLength # n
    \/ Intact
    \/ n = Total /\ \E p \in 0 .. Total - 1 : Wrong(p)

\* The loop of the receiver: with all bytes right so far its sums are the
\* sender's, after a wrong one ck_a differs, and it never finds back.
LoopInv ==
  pc = "rx_sum" =>
    /\ InSync /\ n = Total /\ MsgLength = n /\ n < BufSize
    /\ i \in 2 .. HEAD + len
    /\ (\A j \in 2 .. i - 1 : rx[j] = tx[j]) =>
         sum_a[i] = ck_a /\ sum_b[i] = ck_b
    /\ (\E p \in 2 .. i - 1 : Wrong(p)) => ck_a # sum_a[i]

IInv == TypeOK /\ HeaderInv /\ SumsInv /\ ArrivedInv /\ LoopInv
        /\ AcceptedIffIntact

USE DEF Index, FRAME, HEAD

LEMMA Ranges ==
  /\ Byte \in Nat /\ Byte > 3 /\ Words \in Nat /\ Words >= 16
  /\ BufSize \in Nat /\ BufSize < Words
  /\ 0 \in Bytes /\ Sync1 \in Bytes /\ Sync2 \in Bytes
  /\ Class \in Bytes /\ Id \in Bytes
  /\ TypeOK => len \in Nat /\ Total <= BufSize /\ len < Words
<1>1. Byte \in Nat /\ Byte > 3
  BY FrameAssumption
<1>2. Words \in Nat /\ Words >= 16
  BY <1>1 DEF Words
<1>3. BufSize \in Nat /\ BufSize < Words
  BY FrameAssumption
<1>4. ASSUME TypeOK PROVE len \in Nat /\ Total <= BufSize /\ len < Words
  <2>1. len \in Lengths
    BY <1>4 DEF TypeOK
  <2>2. len \in Nat /\ len + FRAME <= BufSize
    BY <2>1, FrameAssumption
  <2> QED
    BY <1>2, <1>3, <2>2 DEF Total
<1>6. /\ 0 \in Bytes /\ Sync1 \in Bytes /\ Sync2 \in Bytes
      /\ Class \in Bytes /\ Id \in Bytes
  BY <1>1, FrameAssumption DEF Bytes
<1> QED
  BY <1>1, <1>2, <1>3, <1>4, <1>6

USE Ranges

LEMMA InitInv == Init => IInv
<1> SUFFICES ASSUME Init PROVE IInv
  OBVIOUS
<1>1. PICK payload \in [HEAD .. HEAD + len - 1 -> Bytes] :
        tx = [j \in Index |-> IF j \in DOMAIN payload THEN payload[j] ELSE 0]
  BY DEF Init
<1>2. len \in Lengths
  BY DEF Init
<1>3. len \in Nat /\ len + FRAME <= BufSize
  BY <1>2, FrameAssumption
<1>4. tx \in [Index -> Bytes]
  BY <1>1, <1>3
<1>5. TypeOK
  BY <1>2, <1>4 DEF Init, TypeOK, Zero
<1> QED
  BY <1>3, <1>5
  DEF Init, IInv, HeaderInv, Zero, SumsInv, ArrivedInv, LoopInv,
      AcceptedIffIntact, Verdicts

-----------------------------------------------------------------------------
(* One lemma per action.  What the action says is stated first, piece by   *)
(* piece, so that arithmetic and updates of functions stay apart.          *)

LEMMA BuildHeaderInv == IInv /\ BuildHeader => IInv'
<1> SUFFICES ASSUME IInv, BuildHeader PROVE IInv'
  OBVIOUS
<1>1. /\ pc' = "tx_sum" /\ i' = 2 /\ ck_a' = 0 /\ ck_b' = 0
      /\ UNCHANGED <<rx, len, n, sum_a, sum_b>>
  BY DEF BuildHeader
<1>2. tx' = [tx EXCEPT ![0] = Sync1, ![1] = Sync2, ![2] = Class, ![3] = Id,
                       ![4] = len % Byte, ![5] = len \div Byte]
  BY DEF BuildHeader
<1>3. tx \in [Index -> Bytes] /\ len \in Nat /\ len < Words /\ BufSize >= FRAME
  BY DEF IInv, TypeOK, Total
<1>4. len % Byte \in Bytes /\ len \div Byte \in Bytes
  BY <1>3, TwoBytes
<1>5. tx' \in [Index -> Bytes]
  BY <1>2, <1>3, <1>4
<1>6. 2 \in Index
  BY <1>3
<1>7. TypeOK'
  BY <1>1, <1>5, <1>6 DEF IInv, TypeOK
<1>8. HeaderInv'
  <2>1. 0 \in Index /\ 1 \in Index /\ 4 \in Index /\ 5 \in Index
    BY <1>3
  <2>2. /\ tx'[0] = Sync1 /\ tx'[1] = Sync2
        /\ tx'[4] = len % Byte /\ tx'[5] = len \div Byte
    BY <1>2, <1>3, <2>1
  <2> QED
    BY <1>1, <2>2 DEF HeaderInv
<1>9. SumsInv'
  <2>1. sum_a[2] = 0 /\ sum_b[2] = 0
    BY DEF IInv, SumsInv
  <2>2. SumsUpTo(i)'
    BY <1>1 DEF SumsUpTo
  <2>3. 2 \in 2 .. HEAD + len
    BY <1>3
  <2> QED
    BY <1>1, <2>1, <2>2, <2>3 DEF SumsInv
<1> QED
  BY <1>1, <1>7, <1>8, <1>9
  DEF IInv, ArrivedInv, LoopInv, AcceptedIffIntact, Verdicts

LEMMA BuildSumInv == IInv /\ BuildSum => IInv'
<1> SUFFICES ASSUME IInv, BuildSum PROVE IInv'
  OBVIOUS
<1>1. /\ pc = "tx_sum" /\ i < HEAD + len
      /\ i' = i + 1 /\ ck_a' = Add(ck_a, tx[i]) /\ ck_b' = Add(ck_b, ck_a')
      /\ UNCHANGED <<pc, tx, rx, len, n>>
  BY DEF BuildSum, Step
<1>2. /\ sum_a' = [sum_a EXCEPT ![i + 1] = ck_a']
      /\ sum_b' = [sum_b EXCEPT ![i + 1] = ck_b']
  BY DEF BuildSum
<1>3. /\ i \in 2 .. HEAD + len /\ SumsUpTo(i)
      /\ sum_a[i] = ck_a /\ sum_b[i] = ck_b
      /\ sum_a[2] = 0 /\ sum_b[2] = 0
  BY <1>1 DEF IInv, SumsInv
<1>4. len \in Nat /\ FRAME + len <= BufSize
  BY DEF IInv, Total
<1>5. i \in 2 .. HEAD + len - 1 /\ i + 1 \in 2 .. HEAD + len
  BY <1>1, <1>3, <1>4
<1>6. i \in Index /\ i + 1 \in Index
  BY <1>4, <1>5
<1>7. /\ tx \in [Index -> Bytes] /\ ck_a \in Bytes /\ ck_b \in Bytes
      /\ sum_a \in [Index -> Bytes] /\ sum_b \in [Index -> Bytes]
  BY DEF IInv, TypeOK
<1>8. ck_a' \in Bytes /\ ck_b' \in Bytes
  BY <1>1, <1>6, <1>7, AddCancels
<1>9. sum_a' \in [Index -> Bytes] /\ sum_b' \in [Index -> Bytes]
  BY <1>2, <1>6, <1>7, <1>8
<1>10. TypeOK'
  BY <1>1, <1>6, <1>8, <1>9 DEF IInv, TypeOK
<1>11. HeaderInv'
  BY <1>1 DEF IInv, HeaderInv
<1>12. SumsInv'
  <2>1. /\ sum_a'[i + 1] = ck_a' /\ sum_b'[i + 1] = ck_b'
        /\ \A j \in 2 .. i : sum_a'[j] = sum_a[j] /\ sum_b'[j] = sum_b[j]
    BY <1>2, <1>4, <1>5, <1>6, <1>7
  <2>2. ASSUME NEW j \in 2 .. i
        PROVE  /\ sum_a'[j + 1] = Add(sum_a'[j], tx[j])
               /\ sum_b'[j + 1] = Add(sum_b'[j], sum_a'[j + 1])
    <3>1. CASE j = i
      BY <1>1, <1>3, <1>5, <2>1, <3>1
    <3>2. CASE j # i
      <4>1. j \in 2 .. i - 1 /\ j + 1 \in 2 .. i
        BY <1>5, <3>2
      <4> QED
        BY <1>3, <2>1, <4>1 DEF SumsUpTo
    <3> QED
      BY <3>1, <3>2
  <2>3. i' - 1 = i
    BY <1>1, <1>5
  <2>4. SumsUpTo(i)'
    BY <1>1, <2>2, <2>3 DEF SumsUpTo
  <2>5. 2 \in 2 .. i
    BY <1>5
  <2> QED
    BY <1>1, <1>3, <1>5, <2>1, <2>4, <2>5 DEF SumsInv
<1> QED
  BY <1>1, <1>10, <1>11, <1>12
  DEF IInv, ArrivedInv, LoopInv, AcceptedIffIntact, Verdicts

LEMMA BuildEndInv == IInv /\ BuildEnd => IInv'
<1> SUFFICES ASSUME IInv, BuildEnd PROVE IInv'
  OBVIOUS
<1>1. /\ pc = "tx_sum" /\ pc' = "wire" /\ i = HEAD + len
      /\ UNCHANGED <<rx, len, n, i, ck_a, ck_b, sum_a, sum_b>>
  BY DEF BuildEnd
<1>2. tx' = [tx EXCEPT ![i] = ck_a, ![i + 1] = ck_b]
  BY DEF BuildEnd
<1>3. /\ SumsUpTo(i) /\ sum_a[i] = ck_a /\ sum_b[i] = ck_b
      /\ sum_a[2] = 0 /\ sum_b[2] = 0
  BY <1>1 DEF IInv, SumsInv
<1>4. len \in Nat /\ FRAME + len <= BufSize
  BY DEF IInv, Total
<1>5. i \in Index /\ i + 1 \in Index
  BY <1>1, <1>4
<1>6. tx \in [Index -> Bytes] /\ ck_a \in Bytes /\ ck_b \in Bytes
  BY DEF IInv, TypeOK
<1>7. tx' \in [Index -> Bytes]
  BY <1>2, <1>5, <1>6
<1>8. TypeOK'
  BY <1>1, <1>7 DEF IInv, TypeOK
<1>9. /\ tx'[i] = ck_a /\ tx'[i + 1] = ck_b
      /\ \A j \in 0 .. i - 1 : tx'[j] = tx[j]
  BY <1>1, <1>2, <1>4, <1>5, <1>6
<1>10. HeaderInv'
  <2>1. /\ 0 \in 0 .. i - 1 /\ 1 \in 0 .. i - 1
        /\ 4 \in 0 .. i - 1 /\ 5 \in 0 .. i - 1
    BY <1>1, <1>4
  <2> QED
    BY <1>1, <1>9, <2>1 DEF IInv, HeaderInv
<1>11. SumsInv'
  <2>1. \A j \in 2 .. i - 1 : j \in 0 .. i - 1
    BY <1>1, <1>4
  <2>2. SumsUpTo(i)'
    BY <1>1, <1>3, <1>9, <2>1 DEF SumsUpTo
  <2> QED
    BY <1>1, <1>3, <1>9, <2>2 DEF SumsInv
<1> QED
  BY <1>1, <1>8, <1>10, <1>11
  DEF IInv, ArrivedInv, LoopInv, AcceptedIffIntact, Verdicts

\* The header announces the length of the frame.
LEMMA Announced ==
  ASSUME TypeOK, HeaderInv, pc # "build"
  PROVE  Uint16(tx[4] + tx[5] * Byte + FRAME) = Total
<1>1. tx[4] = len % Byte /\ tx[5] = len \div Byte
  BY DEF HeaderInv
<1>2. len \in Nat /\ len < Words /\ len + FRAME < Words
  BY DEF Total
<1>3. len = (len % Byte) + (len \div Byte) * Byte
  BY <1>2, TwoBytes
<1>4. tx[4] + tx[5] * Byte = len
  BY <1>1, <1>3
<1> QED
  BY <1>2, <1>4 DEF Uint16, Total

LEMMA TransferInv == IInv /\ Transfer => IInv'
<1> SUFFICES ASSUME IInv, Transfer PROVE IInv'
  OBVIOUS
<1>1. /\ pc = "wire" /\ pc' = "verify"
      /\ UNCHANGED <<tx, len, i, ck_a, ck_b, sum_a, sum_b>>
  BY DEF Transfer
<1>2. PICK old \in {Zero, tx} :
        \/ Receive(tx, FRAME + len, old)
        \/ \E count \in 0 .. FRAME + len - 1 : Receive(tx, count, old)
        \/ \E count \in FRAME + len + 1 .. BufSize : Receive(tx, count, old)
        \/ \E j \in 0 .. FRAME + len - 1, b \in Bytes :
             Receive([tx EXCEPT ![j] = b], FRAME + len, old)
  BY DEF Transfer
<1>3. len \in Nat /\ FRAME + len <= BufSize
  BY DEF IInv, Total
<1>4. tx \in [Index -> Bytes] /\ old \in [Index -> Bytes]
  BY <1>2 DEF IInv, TypeOK, Zero
<1>5. Uint16(tx[4] + tx[5] * Byte + FRAME) = Total
  BY <1>1, Announced DEF IInv
<1>6. ASSUME NEW count \in Index, Receive(tx, count, old)
      PROVE  /\ rx' \in [Index -> Bytes] /\ n' \in Index
             /\ count = Total => Intact'
             /\ count # Total => n' # Total /\ MsgLength' # n'
  <2>1. /\ n' = count
        /\ \A j \in Index : rx'[j] = IF j < count THEN tx[j] ELSE old[j]
        /\ rx' \in [Index -> Bytes]
    BY <1>4, <1>6 DEF Receive
  <2>2. ASSUME count = Total PROVE Intact'
    <3>1. n' = FRAME + len /\ \A j \in 0 .. n' - 1 : j \in Index /\ j < count
      BY <1>3, <2>1, <2>2 DEF Total
    <3> QED
      BY <1>1, <2>1, <3>1 DEF Intact
  <2>3. 4 \in Index /\ 5 \in Index
    BY <1>3
  <2>4. ASSUME count # Total, rx'[4] = tx[4], rx'[5] = tx[5]
        PROVE  MsgLength' # n'
    BY <1>5, <2>1, <2>4 DEF MsgLength
  <2>5. ASSUME count # Total, ~(rx'[4] = tx[4] /\ rx'[5] = tx[5])
        PROVE  MsgLength' # n'
    <3>1. count < 6 /\ old = Zero
      BY <1>2, <2>1, <2>3, <2>5
    <3>2. rx'[5] = 0
      BY <2>1, <2>3, <3>1 DEF Zero
    <3>3. rx'[4] \in Nat /\ rx'[4] < Byte
      BY <2>1, <2>3 DEF Bytes
    <3>4. Byte + 7 < Words
      BY DEF Words
    <3>5. rx'[4] + rx'[5] * Byte + FRAME = rx'[4] + 8
      BY <3>2, <3>3
    <3>6. MsgLength' = rx'[4] + 8
      BY <3>3, <3>4, <3>5 DEF MsgLength, Uint16
    <3> QED
      BY <2>1, <3>1, <3>3, <3>6
  <2> QED
    BY <2>1, <2>2, <2>4, <2>5
<1>7. ASSUME NEW p \in 0 .. Total - 1, NEW b \in Bytes,
             Receive([tx EXCEPT ![p] = b], Total, old)
      PROVE  /\ rx' \in [Index -> Bytes] /\ n' = Total
             /\ Intact' \/ Wrong(p)'
  <2>1. p \in Index
    BY <1>3 DEF Total
  <2>2. [tx EXCEPT ![p] = b] \in [Index -> Bytes]
    BY <1>4, <2>1
  <2>3. /\ n' = Total
        /\ \A j \in Index : rx'[j] = IF j < Total THEN [tx EXCEPT ![p] = b][j]
                                     ELSE old[j]
        /\ rx' \in [Index -> Bytes]
    BY <1>4, <1>7, <2>2 DEF Receive
  <2>4. \A j \in 0 .. Total - 1 : j \in Index /\ j < Total
    BY <1>3 DEF Total
  <2>5. rx'[p] = b /\ \A j \in 0 .. Total - 1 : j # p => rx'[j] = tx[j]
    BY <1>4, <2>1, <2>3, <2>4
  <2>6. Total' = Total
    BY <1>1 DEF Total
  <2>7. CASE b = tx[p]
    BY <1>1, <2>3, <2>5, <2>6, <2>7 DEF Intact, Total
  <2>8. CASE b # tx[p]
    BY <1>1, <2>3, <2>5, <2>6, <2>8 DEF Wrong
  <2> QED
    BY <2>3, <2>7, <2>8
<1>8. /\ rx' \in [Index -> Bytes] /\ n' \in Index
      /\ \/ n' # Total /\ MsgLength' # n'
         \/ Intact'
         \/ n' = Total /\ \E p \in 0 .. Total - 1 : Wrong(p)'
  <2>1. CASE Receive(tx, FRAME + len, old)
    <3>1. Total = FRAME + len /\ FRAME + len \in Index
      BY <1>3 DEF Total
    <3> QED
      BY <1>6, <2>1, <3>1
  <2>2. CASE \E count \in 0 .. FRAME + len - 1 : Receive(tx, count, old)
    <3>1. \A count \in 0 .. FRAME + len - 1 : count \in Index
      BY <1>3
    <3> QED
      BY <1>6, <2>2, <3>1
  <2>3. CASE \E count \in FRAME + len + 1 .. BufSize : Receive(tx, count, old)
    <3>1. \A count \in FRAME + len + 1 .. BufSize : count \in Index
      BY <1>3
    <3> QED
      BY <1>6, <2>3, <3>1
  <2>4. CASE \E j \in 0 .. FRAME + len - 1, b \in Bytes :
               Receive([tx EXCEPT ![j] = b], FRAME + len, old)
    <3>1. PICK p \in 0 .. FRAME + len - 1, b \in Bytes :
            Receive([tx EXCEPT ![p] = b], Total, old)
      BY <2>4 DEF Total
    <3>2. Total = FRAME + len
      BY DEF Total
    <3>3. p \in 0 .. Total - 1
      BY <1>3, <3>1, <3>2
    <3>4. Total \in Index
      BY <1>3, <3>2
    <3> QED
      BY <1>7, <3>1, <3>3, <3>4
  <2> QED
    BY <1>2, <2>1, <2>2, <2>3, <2>4
<1>9. TypeOK'
  BY <1>1, <1>8 DEF IInv, TypeOK
<1>10. HeaderInv' /\ SumsInv'
  BY <1>1 DEF IInv, HeaderInv, SumsInv, SumsUpTo
<1>11. ArrivedInv'
  <2>1. Total' = Total
    BY <1>1 DEF Total
  <2> QED
    BY <1>8, <2>1 DEF ArrivedInv
<1> QED
  BY <1>1, <1>9, <1>10, <1>11 DEF IInv, LoopInv, AcceptedIffIntact, Verdicts

\* What the four last actions leave alone.
LEMMA Arrived ==
  ASSUME IInv, pc \notin {"build", "tx_sum", "wire"},
         UNCHANGED <<tx, rx, len, n, sum_a, sum_b>>,
         pc' \notin {"build", "tx_sum", "wire"}
  PROVE  /\ HeaderInv' /\ SumsInv' /\ ArrivedInv'
         /\ InSync' = InSync /\ MsgLength' = MsgLength /\ Total' = Total
         /\ Intact' = Intact /\ \A p : Wrong(p)' = Wrong(p)
<1>1. HeaderInv' /\ SumsInv'
  BY DEF IInv, HeaderInv, SumsInv, SumsUpTo
<1>2. InSync' = InSync /\ MsgLength' = MsgLength
  BY DEF InSync, MsgLength
<1>3. Total' = Total
  BY DEF Total
<1>4. Intact' = Intact
  BY DEF Intact
<1>5. \A p : Wrong(p)' = Wrong(p)
  BY <1>3 DEF Wrong
<1>6. ArrivedInv'
  BY <1>2, <1>3, <1>4, <1>5 DEF IInv, ArrivedInv
<1> QED
  BY <1>1, <1>2, <1>3, <1>4, <1>5, <1>6

LEMMA VerifyHeaderInv == IInv /\ VerifyHeader => IInv'
<1> SUFFICES ASSUME IInv, VerifyHeader PROVE IInv'
  OBVIOUS
<1>1. /\ pc = "verify"
      /\ pc' = IF ~InSync THEN "header_wrong"
               ELSE IF WrongLength THEN "length_wrong" ELSE "rx_sum"
      /\ i' = 2 /\ ck_a' = 0 /\ ck_b' = 0
      /\ UNCHANGED <<tx, rx, len, n, sum_a, sum_b>>
  BY DEF VerifyHeader
<1>2. pc' \in {"header_wrong", "length_wrong", "rx_sum"}
  BY <1>1
<1>3. /\ HeaderInv' /\ SumsInv' /\ ArrivedInv'
      /\ InSync' = InSync /\ MsgLength' = MsgLength /\ Total' = Total
      /\ Intact' = Intact /\ \A p : Wrong(p)' = Wrong(p)
  BY <1>1, <1>2, Arrived
<1>4. len \in Nat /\ FRAME + len <= BufSize /\ n \in Index
  BY DEF IInv, Total, TypeOK
<1>5. 2 \in Index /\ 2 \in 2 .. HEAD + len
  BY <1>4
<1>6. TypeOK'
  BY <1>1, <1>2, <1>5 DEF IInv, TypeOK, Verdicts
<1>7. LoopInv'
  <2> SUFFICES ASSUME pc' = "rx_sum" PROVE LoopInv'
    BY DEF LoopInv
  <2>1. InSync /\ ~WrongLength
    BY <1>1
  <2>2. MsgLength = n
    BY <2>1 DEF WrongLength
  <2>3. n = Total
    BY <1>1, <2>2 DEF IInv, ArrivedInv, Intact, Total
  <2>4. n < BufSize
    BY <1>4, <2>1, <2>2 DEF WrongLength
  <2>5. sum_a[2] = 0 /\ sum_b[2] = 0
    BY DEF IInv, SumsInv
  <2>6. ~ \E p \in 2 .. i' - 1 : TRUE
    BY <1>1
  <2> QED
    BY <1>1, <1>3, <1>5, <2>1, <2>2, <2>3, <2>4, <2>5, <2>6 DEF LoopInv
<1>8. AcceptedIffIntact'
  <2> SUFFICES ASSUME Intact, n < BufSize PROVE pc' = "rx_sum"
    BY <1>1, <1>3 DEF AcceptedIffIntact, Verdicts
  <2>1. n = Total /\ \A j \in 0 .. n - 1 : rx[j] = tx[j]
    BY DEF Intact, Total
  <2>2. {0, 1, 4, 5} \subseteq 0 .. n - 1
    BY <1>4, <2>1 DEF Total
  <2>3. /\ rx[0] = tx[0] /\ rx[1] = tx[1]
        /\ rx[4] = tx[4] /\ rx[5] = tx[5]
    BY <2>1, <2>2
  <2>4. InSync
    BY <1>1, <2>3 DEF IInv, HeaderInv, InSync
  <2>5. MsgLength = Total
    BY <1>1, <2>3, Announced DEF IInv, MsgLength
  <2>6. ~WrongLength
    BY <1>4, <2>1, <2>5 DEF WrongLength
  <2> QED
    BY <1>1, <2>4, <2>6
<1> QED
  BY <1>3, <1>6, <1>7, <1>8 DEF IInv

LEMMA VerifySumInv == IInv /\ VerifySum => IInv'
<1> SUFFICES ASSUME IInv, VerifySum PROVE IInv'
  OBVIOUS
<1>1. /\ pc = "rx_sum" /\ pc' = "rx_sum" /\ i < MsgLength - 2
      /\ i' = i + 1 /\ ck_a' = Add(ck_a, rx[i]) /\ ck_b' = Add(ck_b, ck_a')
      /\ UNCHANGED <<tx, rx, len, n, sum_a, sum_b>>
  BY DEF VerifySum, Step
<1>2. /\ HeaderInv' /\ SumsInv' /\ ArrivedInv'
      /\ InSync' = InSync /\ MsgLength' = MsgLength /\ Total' = Total
      /\ Intact' = Intact /\ \A p : Wrong(p)' = Wrong(p)
  BY <1>1, Arrived
<1>3. /\ InSync /\ n = Total /\ MsgLength = n /\ n < BufSize
      /\ i \in 2 .. HEAD + len
      /\ (\A j \in 2 .. i - 1 : rx[j] = tx[j]) =>
           sum_a[i] = ck_a /\ sum_b[i] = ck_b
      /\ (\E p \in 2 .. i - 1 : Wrong(p)) => ck_a # sum_a[i]
  BY <1>1 DEF IInv, LoopInv
<1>4. len \in Nat /\ FRAME + len <= BufSize /\ Total = FRAME + len
  BY DEF IInv, Total
<1>5. i \in 2 .. HEAD + len - 1 /\ i + 1 \in 2 .. HEAD + len
  BY <1>1, <1>3, <1>4
<1>6. i \in Index /\ i + 1 \in Index
  BY <1>4, <1>5
<1>7. /\ tx \in [Index -> Bytes] /\ rx \in [Index -> Bytes]
      /\ ck_a \in Bytes /\ ck_b \in Bytes
      /\ sum_a \in [Index -> Bytes] /\ sum_b \in [Index -> Bytes]
  BY DEF IInv, TypeOK
<1>8. ck_a' \in Bytes /\ ck_b' \in Bytes
  BY <1>1, <1>6, <1>7, AddCancels
<1>9. TypeOK'
  BY <1>1, <1>6, <1>8 DEF IInv, TypeOK
<1>10. /\ sum_a[i + 1] = Add(sum_a[i], tx[i])
       /\ sum_b[i + 1] = Add(sum_b[i], sum_a[i + 1])
  <2>1. SumsUpTo(HEAD + len)
    BY <1>1 DEF IInv, SumsInv
  <2>2. i \in 2 .. (HEAD + len) - 1
    BY <1>4, <1>5
  <2> QED
    BY <2>1, <2>2 DEF SumsUpTo
<1>11. /\ tx[i] \in Bytes /\ rx[i] \in Bytes /\ sum_a[i] \in Bytes
  BY <1>6, <1>7
<1>12. /\ i' - 1 = i /\ i \in 2 .. i
       /\ \A j \in 2 .. i : j = i \/ j \in 2 .. i - 1
       /\ \A j \in 2 .. i - 1 : j \in 2 .. i /\ j # i
  BY <1>1, <1>5
<1>13. ASSUME \A j \in 2 .. i : rx[j] = tx[j]
       PROVE  sum_a[i + 1] = ck_a' /\ sum_b[i + 1] = ck_b'
  BY <1>1, <1>3, <1>10, <1>12, <1>13
<1>14. ASSUME NEW p \in 2 .. i, Wrong(p)
       PROVE  ck_a' # sum_a[i + 1]
  <2>1. /\ rx[p] # tx[p]
        /\ \A j \in 2 .. i : j # p => rx[j] = tx[j]
    <3>1. \A j \in 2 .. i : j \in 0 .. Total - 1
      BY <1>4, <1>5
    <3> QED
      BY <1>14, <3>1 DEF Wrong
  <2>2. CASE p = i
    <3>1. ck_a = sum_a[i]
      BY <1>3, <1>12, <2>1, <2>2
    <3> QED
      BY <1>1, <1>7, <1>10, <1>11, <2>1, <2>2, <3>1, AddCancels
  <2>3. CASE p # i
    <3>1. ck_a # sum_a[i]
      BY <1>3, <1>12, <1>14, <2>3
    <3>2. rx[i] = tx[i]
      BY <1>12, <2>1, <2>3
    <3> QED
      BY <1>1, <1>7, <1>10, <1>11, <3>1, <3>2, AddCancels
  <2> QED
    BY <2>2, <2>3
<1>15. LoopInv'
  BY <1>1, <1>2, <1>3, <1>5, <1>12, <1>13, <1>14 DEF LoopInv
<1> QED
  BY <1>1, <1>2, <1>9, <1>15 DEF IInv, AcceptedIffIntact, Verdicts

LEMMA VerifyEndInv == IInv /\ VerifyEnd => IInv'
<1> SUFFICES ASSUME IInv, VerifyEnd PROVE IInv'
  OBVIOUS
<1>1. /\ pc = "rx_sum" /\ i >= MsgLength - 2
      /\ pc' = IF Matches THEN "ok" ELSE "decode"
      /\ UNCHANGED <<tx, rx, len, n, i, ck_a, ck_b, sum_a, sum_b>>
  BY DEF VerifyEnd
<1>2. pc' \in {"ok", "decode"}
  BY <1>1
<1>3. /\ HeaderInv' /\ SumsInv' /\ ArrivedInv' /\ Intact' = Intact
  BY <1>1, <1>2, Arrived
<1>4. /\ InSync /\ n = Total /\ MsgLength = n /\ n < BufSize
      /\ i \in 2 .. HEAD + len
      /\ (\A j \in 2 .. i - 1 : rx[j] = tx[j]) =>
           sum_a[i] = ck_a /\ sum_b[i] = ck_b
      /\ (\E p \in 2 .. i - 1 : Wrong(p)) => ck_a # sum_a[i]
  BY <1>1 DEF IInv, LoopInv
<1>5. len \in Nat /\ FRAME + len <= BufSize /\ Total = FRAME + len
  BY DEF IInv, Total
<1>6. i = HEAD + len /\ MsgLength - 2 = i /\ MsgLength - 1 = i + 1
      /\ Total = i + 2 /\ i \in Nat /\ i >= 6
  BY <1>1, <1>4, <1>5
<1>7. sum_a[i] = tx[i] /\ sum_b[i] = tx[i + 1]
  BY <1>1, <1>6 DEF IInv, SumsInv
<1>8. ASSUME Intact PROVE Matches
  <2>1. \A j \in 0 .. i + 1 : rx[j] = tx[j]
    BY <1>4, <1>6, <1>8 DEF Intact
  <2>2. i \in 0 .. i + 1 /\ i + 1 \in 0 .. i + 1
        /\ \A j \in 2 .. i - 1 : j \in 0 .. i + 1
    BY <1>6
  <2>3. sum_a[i] = ck_a /\ sum_b[i] = ck_b
    BY <1>4, <2>1, <2>2
  <2> QED
    BY <1>6, <1>7, <2>1, <2>2, <2>3 DEF Matches
<1>9. ASSUME NEW p \in 0 .. Total - 1, Wrong(p), Matches PROVE FALSE
  <2>1. rx[p] # tx[p] /\ \A j \in 0 .. Total - 1 : j # p => rx[j] = tx[j]
    BY <1>9 DEF Wrong
  <2>2. ck_a = rx[i] /\ ck_b = rx[i + 1]
    BY <1>6, <1>9 DEF Matches
  <2>3. p \in {0, 1} \/ p \in 2 .. i - 1 \/ p \in {i, i + 1}
    BY <1>6
  <2>4. CASE p \in {0, 1}
    BY <1>1, <1>4, <2>1, <2>4 DEF IInv, HeaderInv, InSync
  <2>5. CASE p \in 2 .. i - 1
    <3>1. ck_a # sum_a[i]
      BY <1>4, <1>9, <2>5
    <3>2. i \in 0 .. Total - 1 /\ i # p
      BY <1>6, <2>5
    <3> QED
      BY <1>7, <2>1, <2>2, <3>1, <3>2
  <2>6. CASE p \in {i, i + 1}
    <3>1. \A j \in 2 .. i - 1 : j \in 0 .. Total - 1 /\ j # p
      BY <1>6, <2>6
    <3>2. sum_a[i] = ck_a /\ sum_b[i] = ck_b
      BY <1>4, <2>1, <3>1
    <3> QED
      BY <1>7, <2>1, <2>2, <2>6, <3>2
  <2> QED
    BY <2>3, <2>4, <2>5, <2>6
<1>10. Matches <=> Intact
  BY <1>1, <1>4, <1>8, <1>9 DEF IInv, ArrivedInv
<1>11. AcceptedIffIntact'
  BY <1>1, <1>3, <1>4, <1>10 DEF AcceptedIffIntact
<1>12. TypeOK'
  BY <1>1, <1>2 DEF IInv, TypeOK, Verdicts
<1> QED
  BY <1>2, <1>3, <1>11, <1>12 DEF IInv, LoopInv

-----------------------------------------------------------------------------
(* The theorems. *)

LEMMA StepInv == IInv /\ [Next]_vars => IInv'
<1> SUFFICES ASSUME IInv, [Next]_vars PROVE IInv'
  OBVIOUS
<1>1. CASE BuildHeader
  BY <1>1, BuildHeaderInv
<1>2. CASE BuildSum
  BY <1>2, BuildSumInv
<1>3. CASE BuildEnd
  BY <1>3, BuildEndInv
<1>4. CASE Transfer
  BY <1>4, TransferInv
<1>5. CASE VerifyHeader
  BY <1>5, VerifyHeaderInv
<1>6. CASE VerifySum
  BY <1>6, VerifySumInv
<1>7. CASE VerifyEnd
  BY <1>7, VerifyEndInv
<1>8. CASE UNCHANGED vars
  BY <1>8
  DEF vars, IInv, TypeOK, HeaderInv, SumsInv, SumsUpTo, ArrivedInv, LoopInv,
      AcceptedIffIntact, Total, Wrong, Intact, MsgLength, InSync
<1> QED
  BY <1>1, <1>2, <1>3, <1>4, <1>5, <1>6, <1>7, <1>8 DEF Next

\* Every variable keeps its type, for every size of a byte, buffer and payload.
THEOREM TypeCorrect == Spec => []TypeOK
<1>1. IInv => TypeOK
  BY DEF IInv
<1> QED
  BY <1>1, InitInv, StepInv, PTL DEF Spec

\* ubx_verify_msg accepts exactly the frames that arrived whole and unchanged:
\* no single wrong byte and no cut read passes it, whatever the payload.
THEOREM OnlyIntactAccepted == Spec => []AcceptedIffIntact
<1>1. IInv => AcceptedIffIntact
  BY DEF IInv
<1> QED
  BY <1>1, InitInv, StepInv, PTL DEF Spec

=============================================================================
