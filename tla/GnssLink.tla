------------------------------ MODULE GnssLink ------------------------------
(***************************************************************************)
(* The conversation with the SAM-M10 receiver over I2C: start-up           *)
(* (src/app_m10.c, app_m10_start), the UBX poll and the UBX configuration  *)
(* message with its acknowledgement (src/ubx.c), and the read and write    *)
(* transactions below them (src/M10_hw.c).                                 *)
(*                                                                         *)
(* The receiver is the environment.  Its output is one stream of bytes in  *)
(* which UBX answers and unasked NMEA text follow each other; a read takes *)
(* what is there, wherever the frames begin or end.  The stream is modelled*)
(* as a sequence of cells, each a piece of one frame, with the frame sizes *)
(* in the order of the real ones: ACK 10 bytes, PVT 100, VER 206 and more, *)
(* and a read takes at most 1024.                                          *)
(*                                                                         *)
(* A read is two transactions, the count and the data.  What the receiver  *)
(* adds between the two is behind the bytes counted and stays in the       *)
(* stream, as if it had come after the data: one action stands for both.   *)
(***************************************************************************)
EXTENDS Naturals, Sequences

CONSTANTS
  MaxReq,      \* bound: PVT requests written
  MaxReboots,  \* bound: restarts of the tracker's processor
  MaxStream,   \* bound: NMEA is output only while the stream is shorter
  MaxPending,  \* bound: requests the receiver has not answered yet
  DrainMax,    \* reads before a request at most        (ubx.c:136, 183: 100)
  ReadMax,     \* reads for a poll's answer at most     (ubx.c:151: 40)
  Env          \* what may go wrong between tracker and receiver

\* late: answers come after the last read, or after the next poll begins;
\* split: a read finds a part of an answer; lost: a request is ignored; nak:
\* the configuration is refused; readErr, writeErr: an I2C transaction fails;
\* noReset: the reset pulse fails.
Troubles == {"late", "split", "lost", "nak", "readErr", "writeErr", "noReset"}

ASSUME LinkAssumption ==
  /\ MaxReq \in Nat /\ MaxReboots \in Nat /\ MaxStream \in Nat
  /\ MaxPending \in Nat /\ DrainMax \in Nat \ {0} /\ ReadMax \in Nat \ {0}
  /\ Env \subseteq Troubles

VARIABLES
  pc,       \* where the main thread is in start-up or in m10_pvt_update
  cmd,      \* what ubx_poll_message polls: VER or PVT
  i,        \* its loop counter
  rx,       \* rx_buffer
  len,      \* how much of it the last read filled
  acked,    \* app_m10_configure_valset returned 0
  result,   \* what the last m10_pvt_update returned
  stream,   \* cells the receiver holds for reading
  tail,     \* rest of an answer of which only the beginning is in the stream
  pending,  \* requests the receiver has not answered yet
  out,      \* the receiver outputs NMEA unasked
  req,      \* ghost: PVT requests written, also before a restart
  taken,    \* ghost: the frame taken for the latest PVT
  fixes,    \* ghost: frames taken for a PVT
  reboots   \* counts restarts, for the bound

host  == <<pc, cmd, i, rx, len, acked, result>>
m10   == <<stream, tail, pending, out>>
ghost == <<req, taken, fixes>>
vars  == <<pc, cmd, i, rx, len, acked, result, stream, tail, pending, out,
           req, taken, fixes, reboots>>

-----------------------------------------------------------------------------
(* Frames. *)

Size     == [ACK |-> 1, NAK |-> 1, PVT |-> 2, VER |-> 3]
UbxKinds == {"ACK", "NAK", "PVT", "VER"}
MaxRx    == 4                            \* UBX_MAX_RX_MSG_LENGTH, in cells

Cell(kind, id, part) == [kind |-> kind, id |-> id, part |-> part]
Frame(kind, id) == [p \in 1 .. Size[kind] |-> Cell(kind, id, p)]
Nmea   == Cell("NMEA", 0, 1)
Zero   == Cell("ZERO", 0, 1)             \* the buffer is static
Ids(kind) == IF kind = "PVT" THEN 1 .. MaxReq ELSE {0}
UbxCells(kind) == {Cell(kind, id, p) : id \in Ids(kind), p \in 1 .. Size[kind]}
Cells  == {Nmea, Zero} \cup UNION {UbxCells(kind) : kind \in UbxKinds}
None   == [kind |-> "NONE", id |-> 0]

\* ubx_verify_msg: the bytes are one frame, no less and no more, and shorter
\* than the buffer.
VerifyMsg(b) ==
  /\ Len(b) < MaxRx
  /\ \E kind \in UbxKinds : \E id \in Ids(kind) : b = Frame(kind, id)

\* The answer to CFG-VALSET that ubx_send_message accepts.
IsAnyAnswer(b) == VerifyMsg(b)
IsAck(b)       == VerifyMsg(b) /\ b[1].kind = "ACK"

-----------------------------------------------------------------------------
(* M10_hw_random_read: the outcomes of one read. *)

Smaller(a, b) == IF a < b THEN a ELSE b
Count  == Smaller(Len(stream), MaxRx)
Filled == SubSeq(stream, 1, Count) \o SubSeq(rx, Count + 1, MaxRx)
Rest   == SubSeq(stream, Count + 1, Len(stream))

Outcome(err, n, remains, buf, left) ==
  [err |-> err, len |-> n, remains |-> remains, rx |-> buf, stream |-> left]

\* A failed count reports nothing to read; a failed data read reports the
\* count, and the bytes may have been moved and stored or not.
Reads ==
  {Outcome(FALSE, Count, Len(Rest), Filled, Rest)} \cup
  IF "readErr" \notin Env THEN {}
  ELSE {Outcome(TRUE, 0, 0, rx, stream)} \cup
       {Outcome(TRUE, Count, Len(Rest), buf, left) :
          buf \in {rx, Filled}, left \in {stream, Rest}}

\* The condition under which a poll takes a read for its answer.
AnyBytes(r)   == r.len > 0
HasAnswer(r)  == ~r.err /\ r.len > 0

Init ==
  /\ pc = "reset" /\ cmd = "VER" /\ i = 0 /\ len = 0
  /\ rx = [k \in 1 .. MaxRx |-> Zero]
  /\ acked = FALSE /\ result = "none"
  /\ stream = <<>> /\ tail = <<>> /\ pending = <<>> /\ out = TRUE
  /\ req = 0 /\ taken = None /\ fixes = 0 /\ reboots = 0

-----------------------------------------------------------------------------
(* Start-up: app_m10_start. *)

\* The reset pulse and the second of sleep after it.  A reset receiver has
\* forgotten its output, its input and its RAM settings.
ResetPulse ==
  /\ pc = "reset"
  /\ pc' = "drain" /\ cmd' = "VER" /\ i' = 0
  /\ \/ /\ stream' = <<>> /\ tail' = <<>> /\ pending' = <<>> /\ out' = TRUE
     \/ /\ "noReset" \in Env
        /\ UNCHANGED m10
  /\ UNCHANGED <<rx, len, acked, result, ghost, reboots>>

\* What a receiver in time has done when the code stops waiting for it, and
\* when it comes back a second later.
InTime == "late" \in Env \/ (pending = <<>> /\ tail = <<>>)

\* main starts m10_pvt_update for an EVT_PVT_TIMER.
StartUpdate ==
  /\ pc = "idle" /\ req < MaxReq /\ InTime
  /\ pc' = "drain" /\ cmd' = "PVT" /\ i' = 0 /\ result' = "none"
  /\ UNCHANGED <<rx, len, acked, m10, ghost, reboots>>

\* Without a version app_m10_start fails and main returns; a failed PVT poll
\* only ends m10_pvt_update.
StartAnyway(c)  == IF c = "VER" THEN "setDrain" ELSE "idle"
AfterFailure(c) == IF c = "VER" THEN "failed" ELSE "idle"

Fail == pc' = AfterFailure(cmd) /\ result' = "failed"

-----------------------------------------------------------------------------
(* ubx_poll_message, for MON-VER and for NAV-PVT. *)

Get(r) == rx' = r.rx /\ len' = r.len /\ stream' = r.stream

LastOffByOne(max) == i = max
Last(max)         == i + 1 = max

\* Before the request: read until nothing remains; errors are ignored, and a
\* failed count looks like nothing remaining.
NoDrain(r) == TRUE
Drained(r) == r.remains = 0

Drain ==
  /\ pc = "drain"
  /\ \E r \in Reads :
       /\ Get(r)
       /\ IF Drained(r) \/ Last(DrainMax)
          THEN pc' = "write" /\ i' = 0
          ELSE pc' = pc /\ i' = i + 1
  /\ UNCHANGED <<cmd, acked, result, tail, pending, out, ghost, reboots>>

\* The request goes out, or the transaction fails: then the receiver may
\* have understood it all the same.
Write ==
  /\ pc = "write" /\ Len(pending) < MaxPending
  /\ req' = IF cmd = "PVT" THEN req + 1 ELSE req
  /\ LET asked == [kind |-> cmd, id |-> IF cmd = "PVT" THEN req + 1 ELSE 0]
     IN  \/ /\ pending' = Append(pending, asked)
            /\ pc' = "read" /\ UNCHANGED result
         \/ /\ "writeErr" \in Env
            /\ pending' \in {pending, Append(pending, asked)}
            /\ Fail
  /\ UNCHANGED <<cmd, i, rx, len, acked, stream, tail, out, taken, fixes,
                 reboots>>

\* The first read that brings anything is taken for the answer, if it
\* brings all there is.
Read ==
  /\ pc = "read"
  /\ \E r \in Reads :
       /\ Get(r)
       /\ \/ /\ HasAnswer(r) /\ r.remains > 0
             /\ Fail /\ UNCHANGED i
          \/ /\ HasAnswer(r) /\ r.remains = 0
             /\ pc' = "check" /\ UNCHANGED <<i, result>>
          \/ /\ ~HasAnswer(r) /\ ~Last(ReadMax)
             /\ i' = i + 1 /\ UNCHANGED <<pc, result>>
          \/ /\ ~HasAnswer(r) /\ Last(ReadMax) /\ InTime
             /\ Fail /\ UNCHANGED i
  /\ UNCHANGED <<cmd, acked, tail, pending, out, ghost, reboots>>

\* app_m10_version_query and m10_pvt_update look at what the poll returned:
\* one well-formed frame, long enough.  Neither looks at class and id.
Answer == SubSeq(rx, 1, len)
Fits   == len >= Size[cmd] /\ VerifyMsg(Answer)

CheckVersion ==
  /\ pc = "check" /\ cmd = "VER"
  /\ IF Fits THEN pc' = "setDrain" /\ i' = 0 /\ UNCHANGED result
             ELSE Fail /\ i' = 0
  /\ UNCHANGED <<cmd, rx, len, acked, m10, ghost, reboots>>

CheckPvt ==
  /\ pc = "check" /\ cmd = "PVT"
  /\ IF Fits
     THEN /\ pc' = "idle" /\ result' = "ok"
          /\ taken' = [kind |-> Answer[1].kind, id |-> Answer[1].id]
          /\ fixes' = fixes + 1
     ELSE Fail /\ UNCHANGED <<taken, fixes>>
  /\ UNCHANGED <<cmd, i, rx, len, acked, m10, req, reboots>>

-----------------------------------------------------------------------------
(* ubx_send_message, for the CFG-VALSET that switches the unasked output   *)
(* off.  app_m10_start only logs its failure.                              *)

Configured(ok) == pc' = "idle" /\ acked' = ok

SetDrain ==
  /\ pc = "setDrain"
  /\ \E r \in Reads :
       /\ Get(r)
       /\ \/ r.err /\ Configured(FALSE) /\ UNCHANGED i
          \/ /\ ~r.err /\ UNCHANGED acked
             /\ IF Drained(r) \/ Last(DrainMax)
                THEN pc' = "setWrite" /\ i' = 0
                ELSE pc' = pc /\ i' = i + 1
  /\ UNCHANGED <<cmd, result, tail, pending, out, ghost, reboots>>

SetWrite ==
  /\ pc = "setWrite" /\ Len(pending) < MaxPending
  /\ LET asked == [kind |-> "SET", id |-> 0]
     IN  \/ /\ pending' = Append(pending, asked)
            /\ pc' = "setRead" /\ UNCHANGED acked
         \/ /\ "writeErr" \in Env
            /\ pending' \in {pending, Append(pending, asked)}
            /\ Configured(FALSE)
  /\ UNCHANGED <<cmd, i, rx, len, result, stream, tail, out, ghost, reboots>>

\* One read, 10 ms after the message, has to bring exactly the ACK.
SetRead ==
  /\ pc = "setRead" /\ InTime
  /\ \E r \in Reads :
       /\ Get(r)
       /\ Configured(~r.err /\ r.remains = 0 /\ IsAck(SubSeq(r.rx, 1, r.len)))
  /\ UNCHANGED <<cmd, i, result, tail, pending, out, ghost, reboots>>

-----------------------------------------------------------------------------
(* The receiver. *)

\* It has computed a fix and writes its NMEA text.
OutputNmea ==
  /\ out /\ tail = <<>> /\ Len(stream) < MaxStream
  /\ stream' = Append(stream, Nmea)
  /\ UNCHANGED <<tail, pending, out, host, ghost, reboots>>

\* It carries out the oldest request and answers, perhaps in two portions.
Respond(frame) ==
  \E n \in IF "split" \in Env THEN 1 .. Len(frame) ELSE {Len(frame)} :
    /\ stream' = stream \o SubSeq(frame, 1, n)
    /\ tail'   = SubSeq(frame, n + 1, Len(frame))

AnswerPoll ==
  /\ pending # <<>> /\ tail = <<>> /\ Head(pending).kind # "SET"
  /\ Respond(Frame(Head(pending).kind, Head(pending).id))
  /\ pending' = Tail(pending)
  /\ UNCHANGED <<out, host, ghost, reboots>>

AnswerSet ==
  /\ pending # <<>> /\ tail = <<>> /\ Head(pending).kind = "SET"
  /\ \/ Respond(Frame("ACK", 0)) /\ out' = FALSE
     \/ "nak" \in Env /\ Respond(Frame("NAK", 0)) /\ UNCHANGED out
  /\ pending' = Tail(pending)
  /\ UNCHANGED <<host, ghost, reboots>>

OutputTail ==
  /\ tail # <<>>
  /\ stream' = stream \o tail /\ tail' = <<>>
  /\ UNCHANGED <<pending, out, host, ghost, reboots>>

Ignore ==
  /\ "lost" \in Env /\ pending # <<>>
  /\ pending' = Tail(pending)
  /\ UNCHANGED <<stream, tail, out, host, ghost, reboots>>

Receiver == OutputNmea \/ AnswerPoll \/ AnswerSet \/ OutputTail \/ Ignore

\* The processor restarts, at any place; the receiver stays powered and
\* keeps what it was about to say.
Reboot ==
  /\ reboots < MaxReboots
  /\ reboots' = reboots + 1
  /\ pc' = "reset" /\ cmd' = "VER" /\ i' = 0 /\ len' = 0
  /\ rx' = [k \in 1 .. MaxRx |-> Zero]
  /\ acked' = FALSE /\ result' = "none"
  /\ UNCHANGED <<m10, ghost>>

-----------------------------------------------------------------------------
Poll == Drain \/ Write \/ Read \/ CheckVersion \/ CheckPvt
Configure == SetDrain \/ SetWrite \/ SetRead

Next == ResetPulse \/ StartUpdate \/ Poll \/ Configure \/ Receiver \/ Reboot

Spec == Init /\ [][Next]_vars

-----------------------------------------------------------------------------
(* Properties. *)

TypeOK ==
  /\ pc \in {"reset", "drain", "write", "read", "check", "setDrain",
             "setWrite", "setRead", "idle", "failed"}
  /\ cmd \in {"VER", "PVT"} /\ len \in 0 .. MaxRx
  /\ pc \in {"drain", "setDrain"} => i \in 0 .. DrainMax - 1
  /\ pc = "read" => i \in 0 .. ReadMax - 1
  /\ rx \in [1 .. MaxRx -> Cells]
  /\ acked \in BOOLEAN /\ result \in {"none", "ok", "failed"}
  /\ stream \in Seq(Cells) /\ tail \in Seq(Cells)
  /\ pending \in Seq([kind : {"VER", "PVT", "SET"}, id : 0 .. MaxReq])
  /\ out \in BOOLEAN
  /\ req \in 0 .. MaxReq /\ fixes \in 0 .. MaxReq
  /\ reboots \in 0 .. MaxReboots

\* m10_pvt_update never takes another message for a PVT, although it looks at
\* length and checksum only (app_m10.c:69-85): the one other message that is
\* long enough, the version, cannot be on its way when PVT is polled, because
\* start-up fails without it (app_m10.c:223-227) and the reset pulse of a
\* restart discards what the receiver owed.
AcceptedIsPvt == taken.kind \in {"NONE", "PVT"}

\* Once app_m10_configure_valset has returned 0, the receiver is silent: it
\* writes nothing unasked and none of its text is left to be read
\* (app_m10.c:165-194, ubx.c:199-232).
SilentOnceAcked ==
  acked => ~out /\ \A k \in 1 .. Len(stream) : stream[k] # Nmea

\* With a receiver that answers in time and in one piece, no PVT poll fails
\* after a configuration that returned 0.
ConfiguredPollsSucceed == acked => result # "failed"

\* With such a receiver, a fix that m10_pvt_update takes answers the request
\* it has just written, never an earlier one that a failed poll left behind
\* (ubx.c:136-142).
FreshFix == result = "ok" => taken.id = req

\* How many steps of its own the main thread takes at most until start-up or
\* m10_pvt_update is over, from where it is.
ConfigureSteps == DrainMax + 2
PollSteps      == DrainMax + ReadMax + 2
AfterPoll      == IF cmd = "VER" THEN ConfigureSteps ELSE 0
StepsLeft ==
  CASE pc = "reset"    -> 1 + PollSteps + ConfigureSteps
    [] pc = "drain"    -> AfterPoll + ReadMax + 2 + DrainMax - i
    [] pc = "write"    -> AfterPoll + ReadMax + 2
    [] pc = "read"     -> AfterPoll + 1 + ReadMax - i
    [] pc = "check"    -> AfterPoll + 1
    [] pc = "setDrain" -> 2 + DrainMax - i
    [] pc = "setWrite" -> 2
    [] pc = "setRead"  -> 1
    [] OTHER           -> 0

\* A poll ends whatever the receiver does: it may write as fast as it is read,
\* cut its answers, or never answer.  Each pass of the two loops and each
\* statement after them brings m10_pvt_update, and start-up with it, nearer to
\* its end (ubx.c:136-160, 183-209), so that the main thread always gets back
\* to its events.
PollsEnd ==
  [][ResetPulse \/ Poll \/ Configure => StepsLeft' \in 0 .. StepsLeft - 1]_vars

\* docs/M10_design.md:26-28: reset, disable all messages, read the version.
\* Then the answer to the version query would come alone.
VersionReplyAlone ==
  pc = "check" /\ cmd = "VER" => \A k \in 1 .. len : rx[k] # Nmea

\* Whatever goes wrong on the bus, and over restarts: each fix answers a
\* request that was made, and a later one than the fix before it.
F == INSTANCE FixFeed WITH asked <- req, last <- taken.id
FixesAreAnswers == F!Spec

=============================================================================
