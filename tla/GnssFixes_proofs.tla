-------------------------- MODULE GnssFixes_proofs --------------------------
(***************************************************************************)
(* Proofs about the fixes the tracker takes from the receiver: typing in   *)
(* every environment; that every poll ends, whatever the receiver does;    *)
(* that a fix is an answer to a PVT poll, and a later one than the fix     *)
(* before it, whatever goes wrong but the reset pulse; and that with a     *)
(* receiver that answers in time each fix is fresh and no poll of a        *)
(* configured receiver fails.                                              *)
(***************************************************************************)
EXTENDS GnssLink_proofs

-----------------------------------------------------------------------------
(* Typing.  A request is identified by its number, which the bound keeps   *)
(* below MaxReq because only an update that has begun writes one.          *)

Request == [kind : {"VER", "SET"}, id : {0}] \cup
           [kind : {"PVT"}, id : 1 .. MaxReq]

LinkCells ==
  /\ stream \in Seq(Cells) /\ tail \in Seq(Cells)
  /\ rx \in Seq(Cells) /\ Len(rx) = MaxRx /\ len \in 0 .. MaxRx
  /\ pending \in Seq(Request) /\ out \in BOOLEAN

HostType ==
  /\ pc \in {"reset", "drain", "write", "read", "check", "setDrain",
             "setWrite", "setRead", "idle", "failed"}
  /\ cmd \in {"VER", "PVT"}
  /\ pc \in {"drain", "setDrain"} => i \in 0 .. DrainMax - 1
  /\ pc = "read" => i \in 0 .. ReadMax - 1
  /\ pc = "write" => i = 0
  /\ acked \in BOOLEAN /\ result \in {"none", "ok", "failed"}

\* An update writes one request and takes one fix at most.
CountInv ==
  /\ req \in 0 .. MaxReq /\ fixes \in 0 .. req /\ reboots \in 0 .. MaxReboots
  /\ cmd = "PVT" /\ pc \in {"drain", "write"} => req < MaxReq
  /\ cmd = "PVT" /\ pc \in {"read", "check"} => fixes < req

TypeInv == LinkCells /\ HostType /\ CountInv

\* What the cells of a frame are.
LEMMA CellKinds ==
  /\ Nmea \in Cells /\ Zero \in Cells
  /\ \A kind \in UbxKinds : UbxCells(kind) \subseteq Cells
BY DEF Cells

\* A polled answer's cells: the version has no number, a PVT has the number
\* of its request.
LEMMA CellFields ==
  ASSUME NEW c \in Cells
  PROVE  /\ c.kind = "VER" => c.id = 0 /\ c.part \in 1 .. 3
         /\ c.kind = "PVT" => c.id \in 1 .. MaxReq /\ c.part \in 1 .. 2
<1>1. CASE c \in {Nmea, Zero}
  BY <1>1 DEF Nmea, Zero, Cell
<1>2. CASE c \notin {Nmea, Zero}
  <2>1. PICK kind \in UbxKinds : c \in UbxCells(kind)
    BY <1>2 DEF Cells
  <2>2. PICK id \in Ids(kind), p \in 1 .. Size[kind] : c = Cell(kind, id, p)
    BY <2>1 DEF UbxCells
  <2>3. c.kind = kind /\ c.id = id /\ c.part = p
    BY <2>2 DEF Cell
  <2>4. Size["VER"] = 3 /\ Size["PVT"] = 2
    BY DEF Size
  <2>5. QED
    BY <2>2, <2>3, <2>4 DEF Ids
<1>3. QED
  BY <1>1, <1>2

\* The cells of a frame, in order.
LEMMA FrameParts ==
  ASSUME NEW kind \in UbxKinds, NEW id \in Ids(kind)
  PROVE  /\ Frame(kind, id) \in Seq(Cells)
         /\ Len(Frame(kind, id)) = Size[kind]
         /\ \A p \in 1 .. Size[kind] : Frame(kind, id)[p] = Cell(kind, id, p)
<1>1. Size[kind] \in Nat
  BY FrameSize
<1> DEFINE n == Size[kind]
           f == [p \in 1 .. n |-> Cell(kind, id, p)]
<1>2. \A p \in 1 .. n : Cell(kind, id, p) \in Cells
  BY CellKinds DEF UbxCells
<1>3. f \in [1 .. n -> Cells]
  BY <1>2
<1>4. f \in Seq(Cells)
  <2> HIDE DEF f, n
  <2>1. n \in Nat
    BY <1>1 DEF n
  <2>2. QED
    BY <1>3, <2>1, SeqDef
<1>5. DOMAIN f = 1 .. n /\ \A p \in 1 .. n : f[p] = Cell(kind, id, p)
  OBVIOUS
<1>6. Len(f) = n
  <2> HIDE DEF f, n
  <2>1. n \in Nat /\ Len(f) \in Nat /\ DOMAIN f = 1 .. Len(f)
    BY <1>1, <1>4, LenProperties DEF n
  <2>2. QED
    BY <1>5, <2>1
<1>7. Frame(kind, id) = f
  BY DEF Frame
<1>8. QED
  <2> HIDE DEF f
  <2> QED BY <1>4, <1>5, <1>6, <1>7

\* A read moves cells and makes none up.
LEMMA ReadCells ==
  ASSUME LinkCells, NEW r \in Reads
  PROVE  /\ r.stream \in Seq(Cells)
         /\ r.rx \in Seq(Cells) /\ Len(r.rx) = MaxRx
         /\ r.len \in 0 .. MaxRx
<1>1. /\ stream \in Seq(Cells) /\ rx \in Seq(Cells) /\ Len(rx) = MaxRx
  BY DEF LinkCells
<1>2. Rest \in Seq(Cells) /\ Count \in 0 .. Len(stream) /\ Count <= MaxRx
  BY <1>1, RestOfStream
<1>3. Filled \in Seq(Cells) /\ Len(Filled) = MaxRx
  BY <1>1, FilledBuffer
<1>4. r.len \in {0, Count}
  BY DEF Reads, Outcome
<1>5. r.len \in 0 .. MaxRx
  <2>1. Count \in Nat /\ 0 \in 0 .. MaxRx
    BY <1>1, <1>2, LenProperties DEF MaxRx
  <2>2. QED
    BY <1>2, <1>4, <2>1
<1>6. QED
  BY <1>1, <1>2, <1>3, <1>5, ReadOutcome

\* What is still to be read, in order.
Coming == stream \o tail

\* However the receiver portions an answer, it comes whole and in order
\* behind what was to come before.
LEMMA RespondCells ==
  ASSUME LinkCells, tail = <<>>, NEW kind \in UbxKinds, NEW id \in Ids(kind),
         Respond(Frame(kind, id))
  PROVE  /\ stream' \in Seq(Cells) /\ tail' \in Seq(Cells)
         /\ Coming' = Coming \o Frame(kind, id)
<1> DEFINE f == Frame(kind, id)
<1>1. f \in Seq(Cells) /\ Len(f) \in Nat /\ Len(f) >= 1
  BY FrameParts, FrameSize
<1>2. PICK n \in 1 .. Len(f) :
        stream' = stream \o SubSeq(f, 1, n) /\ tail' = SubSeq(f, n + 1, Len(f))
  <2> HIDE DEF f
  <2>1. PICK n \in IF "split" \in Env THEN 1 .. Len(f) ELSE {Len(f)} :
          /\ stream' = stream \o SubSeq(f, 1, n)
          /\ tail' = SubSeq(f, n + 1, Len(f))
    BY DEF Respond, f
  <2>2. n \in 1 .. Len(f)
    BY <1>1
  <2>3. QED
    BY <2>1, <2>2
<1> HIDE DEF f
<1> DEFINE s == SubSeq(f, 1, n)
           t == SubSeq(f, n + 1, Len(f))
<1>3. \A k \in 1 .. Len(f) : f[k] \in Cells
  BY <1>1, ElementOfSeq
<1>4. s \in Seq(Cells)
  <2>1. 1 \in Int /\ n \in Int /\ \A k \in 1 .. n : f[k] \in Cells
    BY <1>1, <1>3
  <2>2. QED
    BY <2>1, SubSeqProperties
<1>5. t \in Seq(Cells)
  <2>1. n + 1 \in Int /\ Len(f) \in Int
        /\ \A k \in n + 1 .. Len(f) : f[k] \in Cells
    BY <1>1, <1>3
  <2>2. QED
    BY <2>1, SubSeqProperties
<1>6. s \o t = f
  <2>1. /\ 1 \in 1 .. Len(f) + 1 /\ n \in 1 - 1 .. Len(f)
        /\ Len(f) \in n .. Len(f)
    BY <1>1
  <2>2. s \o t = SubSeq(f, 1, Len(f))
    BY <1>1, <2>1, ConcatAdjacentSubSeq
  <2>3. QED
    BY <1>1, <2>2, SubSeqFull
<1> HIDE DEF s, t
<1>7. stream' = stream \o s /\ tail' = t
  BY <1>2 DEF s, t
<1>8. stream \in Seq(Cells)
  BY DEF LinkCells
<1>9. stream' \in Seq(Cells) /\ tail' \in Seq(Cells)
  BY <1>4, <1>5, <1>7, <1>8, ConcatProperties
<1>10. Coming = stream
  BY <1>8, ConcatEmptySeq DEF Coming
<1>11. Coming' = stream \o f
  <2>1. (stream \o s) \o t = stream \o (s \o t)
    BY <1>4, <1>5, <1>8, ConcatAssociative
  <2>2. QED
    BY <1>6, <1>7, <2>1 DEF Coming
<1>12. QED
  BY <1>9, <1>10, <1>11 DEF f

LEMMA ZeroBuffer ==
  /\ [k \in 1 .. MaxRx |-> Zero] \in Seq(Cells)
  /\ Len([k \in 1 .. MaxRx |-> Zero]) = MaxRx
<1> DEFINE z == [k \in 1 .. MaxRx |-> Zero]
<1>1. z \in [1 .. MaxRx -> Cells] /\ MaxRx \in Nat
  BY CellKinds DEF MaxRx
<1> HIDE DEF z
<1>2. z \in Seq(Cells)
  BY <1>1, SeqDef
<1>3. DOMAIN z = 1 .. MaxRx /\ DOMAIN z = 1 .. Len(z) /\ Len(z) \in Nat
  BY <1>1, <1>2, LenProperties
<1>4. Len(z) = MaxRx
  BY <1>1, <1>3
<1>5. QED
  BY <1>2, <1>4 DEF z

\* The oldest request, and what it makes the receiver answer.
LEMMA OldestRequest ==
  ASSUME LinkCells, pending # <<>>
  PROVE  /\ Head(pending) \in Request /\ Tail(pending) \in Seq(Request)
         /\ Head(pending).kind # "SET" =>
              /\ Head(pending).kind \in {"VER", "PVT"}
              /\ Head(pending).id \in Ids(Head(pending).kind)
<1>1. Head(pending) \in Request /\ Tail(pending) \in Seq(Request)
  BY HeadTailProperties DEF LinkCells
<1>2. QED
  BY <1>1 DEF Request, Ids

\* A request joins the others, or is not understood.
LEMMA OneMoreRequest ==
  ASSUME LinkCells, NEW asked \in Request,
         pending' \in {pending, Append(pending, asked)}
  PROVE  pending' \in Seq(Request)
<1>1. pending \in Seq(Request)
  BY DEF LinkCells
<1>2. Append(pending, asked) \in Seq(Request)
  BY <1>1, AppendProperties
<1>3. QED
  BY <1>1, <1>2

\* The polled request: an update that has begun may write one more.
LEMMA PollRequest ==
  ASSUME HostType, CountInv, pc = "write"
  PROVE  [kind |-> cmd, id |-> IF cmd = "PVT" THEN req + 1 ELSE 0] \in Request
<1>1. CASE cmd = "PVT"
  <2>1. req + 1 \in 1 .. MaxReq
    BY <1>1, LinkAssumption DEF CountInv
  <2>2. QED
    BY <1>1, <2>1 DEF Request
<1>2. CASE cmd = "VER"
  BY <1>2 DEF Request
<1>3. QED
  BY <1>1, <1>2 DEF HostType

LEMMA InitType == Init => TypeInv
<1> SUFFICES ASSUME Init PROVE TypeInv
  OBVIOUS
<1>1. rx \in Seq(Cells) /\ Len(rx) = MaxRx
  BY ZeroBuffer DEF Init
<1>2. <<>> \in Seq(Cells) /\ <<>> \in Seq(Request)
  BY EmptySeq
<1>3. LinkCells
  BY <1>1, <1>2 DEF Init, LinkCells, MaxRx
<1>4. HostType
  BY DEF Init, HostType
<1>5. CountInv
  BY LinkAssumption DEF Init, CountInv
<1>6. QED
  BY <1>3, <1>4, <1>5 DEF TypeInv

\* Cells and requests stay what they are in every step.
LEMMA LinkCellsStep ==
  ASSUME TypeInv, [Next]_vars
  PROVE  LinkCells'
<1> USE DEF TypeInv, host, m10, ghost
<1>1. CASE ResetPulse
  <2>1. <<>> \in Seq(Cells) /\ <<>> \in Seq(Request)
    BY EmptySeq
  <2>2. QED
    BY <1>1, <2>1 DEF ResetPulse, LinkCells
<1>2. CASE Drain \/ Read \/ SetDrain \/ SetRead
  <2>1. PICK r \in Reads : Get(r)
    BY <1>2 DEF Drain, Read, SetDrain, SetRead
  <2>2. UNCHANGED <<tail, pending, out>>
    BY <1>2 DEF Drain, Read, SetDrain, SetRead
  <2>3. /\ stream' \in Seq(Cells) /\ rx' \in Seq(Cells) /\ Len(rx') = MaxRx
        /\ len' \in 0 .. MaxRx
    BY <2>1, ReadCells DEF Get
  <2>4. QED
    BY <2>2, <2>3 DEF LinkCells
<1>3. CASE Write
  <2> DEFINE asked == [kind |-> cmd, id |-> IF cmd = "PVT" THEN req + 1 ELSE 0]
  <2>1. asked \in Request
    BY <1>3, PollRequest DEF Write
  <2>2. pending' \in {pending, Append(pending, asked)}
    BY <1>3 DEF Write
  <2>3. pending' \in Seq(Request)
    <3> HIDE DEF asked
    <3> QED BY <2>1, <2>2, OneMoreRequest
  <2>4. QED
    BY <1>3, <2>3 DEF Write, LinkCells
<1>4. CASE SetWrite
  <2> DEFINE asked == [kind |-> "SET", id |-> 0]
  <2>1. asked \in Request
    BY DEF Request
  <2>2. pending' \in {pending, Append(pending, asked)}
    BY <1>4 DEF SetWrite
  <2>3. pending' \in Seq(Request)
    <3> HIDE DEF asked
    <3> QED BY <2>1, <2>2, OneMoreRequest
  <2>4. QED
    BY <1>4, <2>3 DEF SetWrite, LinkCells
<1>5. CASE OutputNmea
  <2>1. stream' \in Seq(Cells)
    BY <1>5, CellKinds, AppendProperties DEF OutputNmea, LinkCells
  <2>2. QED
    BY <1>5, <2>1 DEF OutputNmea, LinkCells
<1>6. CASE AnswerPoll
  <2> DEFINE kind == Head(pending).kind
             id   == Head(pending).id
  <2>1. /\ pending' \in Seq(Request)
        /\ kind \in {"VER", "PVT"} /\ id \in Ids(kind)
        /\ Respond(Frame(kind, id))
    BY <1>6, OldestRequest DEF AnswerPoll
  <2>2. kind \in UbxKinds /\ tail = <<>>
    BY <1>6, <2>1 DEF AnswerPoll, UbxKinds
  <2>3. stream' \in Seq(Cells) /\ tail' \in Seq(Cells)
    <3> HIDE DEF kind, id
    <3> QED BY <2>1, <2>2, RespondCells
  <2>4. QED
    BY <1>6, <2>1, <2>3 DEF AnswerPoll, LinkCells
<1>7. CASE AnswerSet
  <2>1. PICK kind \in {"ACK", "NAK"} :
          Respond(Frame(kind, 0)) /\ out' \in {out, FALSE}
    BY <1>7 DEF AnswerSet
  <2>2. kind \in UbxKinds /\ 0 \in Ids(kind) /\ tail = <<>>
    BY <1>7, <2>1 DEF AnswerSet, UbxKinds, Ids
  <2>3. stream' \in Seq(Cells) /\ tail' \in Seq(Cells)
    BY <2>1, <2>2, RespondCells
  <2>4. pending' \in Seq(Request)
    BY <1>7, OldestRequest DEF AnswerSet
  <2>5. out' \in BOOLEAN
    BY <2>1 DEF LinkCells
  <2>6. QED
    BY <1>7, <2>3, <2>4, <2>5 DEF AnswerSet, LinkCells
<1>8. CASE OutputTail
  <2>1. stream' \in Seq(Cells) /\ tail' \in Seq(Cells)
    BY <1>8, ConcatProperties, EmptySeq DEF OutputTail, LinkCells
  <2>2. QED
    BY <1>8, <2>1 DEF OutputTail, LinkCells
<1>9. CASE Ignore
  <2>1. pending' \in Seq(Request)
    BY <1>9, OldestRequest DEF Ignore
  <2>2. QED
    BY <1>9, <2>1 DEF Ignore, LinkCells
<1>10. CASE Reboot
  <2>1. rx' \in Seq(Cells) /\ Len(rx') = MaxRx
    BY <1>10, ZeroBuffer DEF Reboot
  <2>2. QED
    BY <1>10, <2>1 DEF Reboot, LinkCells, MaxRx
<1>11. CASE StartUpdate \/ CheckVersion \/ CheckPvt \/ UNCHANGED vars
  <2>1. UNCHANGED <<rx, len, stream, tail, pending, out>>
    BY <1>11 DEF StartUpdate, CheckVersion, CheckPvt, vars
  <2>2. QED
    BY <2>1 DEF LinkCells
<1>12. QED
  BY <1>1, <1>2, <1>3, <1>4, <1>5, <1>6, <1>7, <1>8, <1>9, <1>10, <1>11
     DEF Next, Poll, Configure, Receiver

\* The counters of the loops stay below their limits.
LEMMA HostStep ==
  ASSUME TypeInv, [Next]_vars
  PROVE  HostType'
<1> USE LinkAssumption DEF TypeInv, HostType, host, m10, ghost
<1>1. CASE ResetPulse
  BY <1>1 DEF ResetPulse
<1>2. CASE StartUpdate
  BY <1>2 DEF StartUpdate
<1>3. CASE Drain
  BY <1>3 DEF Drain, Last
<1>4. CASE Write
  BY <1>4 DEF Write, Fail, AfterFailure
<1>5. CASE Read
  BY <1>5 DEF Read, Last, Fail, AfterFailure
<1>6. CASE CheckVersion
  BY <1>6 DEF CheckVersion, Fail, AfterFailure
<1>7. CASE CheckPvt
  BY <1>7 DEF CheckPvt, Fail, AfterFailure
<1>8. CASE SetDrain
  <2>1. acked' \in {acked, FALSE}
    BY <1>8 DEF SetDrain, Configured
  <2>2. pc' \in {"idle", "setWrite", "setDrain"} /\ UNCHANGED <<cmd, result>>
    BY <1>8 DEF SetDrain, Configured
  <2>3. pc' = "setDrain" => i' \in 0 .. DrainMax - 1
    BY <1>8 DEF SetDrain, Configured, Last
  <2>4. acked' \in BOOLEAN
    BY <2>1
  <2>5. QED
    BY <2>2, <2>3, <2>4
<1>9. CASE SetWrite
  <2>1. acked' \in {acked, FALSE}
    BY <1>9 DEF SetWrite, Configured
  <2>2. pc' \in {"idle", "setRead"} /\ UNCHANGED <<cmd, result>>
    BY <1>9 DEF SetWrite, Configured
  <2>3. acked' \in BOOLEAN
    BY <2>1
  <2>4. QED
    BY <2>2, <2>3
<1>10. CASE SetRead
  <2>1. PICK r \in Reads :
          acked' = (/\ ~r.err /\ r.remains = 0
                    /\ IsAck(SubSeq(r.rx, 1, r.len)))
    BY <1>10 DEF SetRead, Configured
  <2>2. acked' \in BOOLEAN
    BY <2>1
  <2>3. pc' = "idle" /\ UNCHANGED <<cmd, result>>
    BY <1>10 DEF SetRead, Configured
  <2>4. QED
    BY <2>2, <2>3
<1>11. CASE Receiver \/ UNCHANGED vars
  <2>1. UNCHANGED host
    BY <1>11 DEF Receiver, OutputNmea, AnswerPoll, AnswerSet, OutputTail,
                 Ignore, vars
  <2>2. QED
    BY <2>1
<1>12. CASE Reboot
  BY <1>12 DEF Reboot
<1>13. QED
  BY <1>1, <1>2, <1>3, <1>4, <1>5, <1>6, <1>7, <1>8, <1>9, <1>10, <1>11,
     <1>12 DEF Next, Poll, Configure

\* No more fixes than requests.
LEMMA CountStep ==
  ASSUME TypeInv, [Next]_vars
  PROVE  CountInv'
<1> USE LinkAssumption DEF TypeInv, HostType, CountInv, host, m10, ghost
<1>1. CASE ResetPulse
  BY <1>1 DEF ResetPulse
<1>2. CASE StartUpdate
  BY <1>2 DEF StartUpdate
<1>3. CASE Drain
  BY <1>3 DEF Drain
<1>4. CASE Write
  BY <1>4 DEF Write, Fail, AfterFailure
<1>5. CASE Read
  BY <1>5 DEF Read, Fail, AfterFailure
<1>6. CASE CheckVersion
  BY <1>6 DEF CheckVersion, Fail, AfterFailure
<1>7. CASE CheckPvt
  BY <1>7 DEF CheckPvt, Fail, AfterFailure
<1>8. CASE Configure
  BY <1>8 DEF Configure, SetDrain, SetWrite, SetRead, Configured
<1>9. CASE Receiver \/ UNCHANGED vars
  <2>1. UNCHANGED <<host, ghost, reboots>>
    BY <1>9 DEF Receiver, OutputNmea, AnswerPoll, AnswerSet, OutputTail,
                Ignore, vars
  <2>2. QED
    BY <2>1
<1>10. CASE Reboot
  BY <1>10 DEF Reboot
<1>11. QED
  BY <1>1, <1>2, <1>3, <1>4, <1>5, <1>6, <1>7, <1>8, <1>9, <1>10
     DEF Next, Poll

LEMMA TypeStep ==
  ASSUME TypeInv, [Next]_vars
  PROVE  TypeInv'
BY LinkCellsStep, HostStep, CountStep DEF TypeInv

\* Every variable keeps its type, whatever of Env goes wrong: the indices of
\* both loops stay below their limits, the buffer keeps its size, and a poll
\* takes one fix for each request it writes at most (ubx.c:116-232).
THEOREM TypeSafe == Spec => []TypeOK
<1>1. Init => TypeInv
  BY InitType
<1>2. TypeInv /\ [Next]_vars => TypeInv'
  BY TypeStep
<1>3. TypeInv => TypeOK
  <2> SUFFICES ASSUME TypeInv PROVE TypeOK
    OBVIOUS
  <2>1. rx \in [1 .. MaxRx -> Cells]
    BY LenProperties DEF TypeInv, LinkCells
  <2>2. pending \in Seq([kind : {"VER", "PVT", "SET"}, id : 0 .. MaxReq])
    <3>1. Request \subseteq [kind : {"VER", "PVT", "SET"}, id : 0 .. MaxReq]
      BY LinkAssumption DEF Request
    <3>2. QED
      BY <3>1, SeqMonotonic DEF TypeInv, LinkCells
  <2>3. fixes \in 0 .. MaxReq
    BY LinkAssumption DEF TypeInv, CountInv
  <2>4. QED
    BY <2>1, <2>2, <2>3 DEF TypeInv, LinkCells, HostType, CountInv, TypeOK
<1>4. QED
  BY <1>1, <1>2, <1>3, PTL DEF Spec

-----------------------------------------------------------------------------
(* The end of every poll.                                                  *)

\* What is left at each place of the main thread, before a step.
LEMMA StepsAt ==
  /\ pc = "reset"    => StepsLeft = 1 + PollSteps + ConfigureSteps
  /\ pc = "drain"    => StepsLeft = AfterPoll + ReadMax + 2 + DrainMax - i
  /\ pc = "write"    => StepsLeft = AfterPoll + ReadMax + 2
  /\ pc = "read"     => StepsLeft = AfterPoll + 1 + ReadMax - i
  /\ pc = "check"    => StepsLeft = AfterPoll + 1
  /\ pc = "setDrain" => StepsLeft = 2 + DrainMax - i
  /\ pc = "setWrite" => StepsLeft = 2
  /\ pc = "setRead"  => StepsLeft = 1
  /\ pc \in {"idle", "failed"} => StepsLeft = 0
BY DEF StepsLeft

\* And after a step.
LEMMA StepsAfter ==
  /\ pc' = "drain"    => StepsLeft' = AfterPoll' + ReadMax + 2 + DrainMax - i'
  /\ pc' = "write"    => StepsLeft' = AfterPoll' + ReadMax + 2
  /\ pc' = "read"     => StepsLeft' = AfterPoll' + 1 + ReadMax - i'
  /\ pc' = "check"    => StepsLeft' = AfterPoll' + 1
  /\ pc' = "setDrain" => StepsLeft' = 2 + DrainMax - i'
  /\ pc' = "setWrite" => StepsLeft' = 2
  /\ pc' = "setRead"  => StepsLeft' = 1
  /\ pc' \in {"idle", "failed"} => StepsLeft' = 0
BY DEF StepsLeft

\* Every statement of start-up and of m10_pvt_update brings its end nearer.
LEMMA StepsFewer ==
  ASSUME TypeInv, ResetPulse \/ Poll \/ Configure
  PROVE  StepsLeft' \in 0 .. StepsLeft - 1
<1>1. DrainMax \in Nat \ {0} /\ ReadMax \in Nat \ {0}
  BY LinkAssumption
<1>2. /\ pc \in {"drain", "setDrain"} => i \in 0 .. DrainMax - 1
      /\ pc = "read" => i \in 0 .. ReadMax - 1
  BY DEF TypeInv, HostType
<1>3. /\ AfterPoll \in {0, DrainMax + 2}
      /\ cmd = "VER" => AfterPoll = DrainMax + 2
      /\ cmd' = cmd => AfterPoll' = AfterPoll
  BY DEF AfterPoll, ConfigureSteps
<1> HIDE DEF AfterPoll, StepsLeft
<1>4. CASE ResetPulse
  <2>1. /\ pc = "reset" /\ pc' = "drain" /\ i' = 0
        /\ AfterPoll' = DrainMax + 2
    BY <1>4 DEF ResetPulse, AfterPoll, ConfigureSteps
  <2> QED
    BY <1>1, <2>1, StepsAt, StepsAfter DEF PollSteps, ConfigureSteps
<1>5. CASE Drain
  <2>1. /\ pc = "drain" /\ cmd' = cmd
        /\ \/ pc' = "write"
           \/ pc' = "drain" /\ i' = i + 1 /\ ~Last(DrainMax)
    BY <1>5 DEF Drain
  <2>2. ~Last(DrainMax) => i + 1 # DrainMax
    BY DEF Last
  <2> QED
    BY <1>1, <1>2, <1>3, <2>1, <2>2, StepsAt, StepsAfter
<1>6. CASE Write
  <2>1. pc = "write" /\ cmd' = cmd /\ i' = i
        /\ pc' \in {"read", "idle", "failed"}
    BY <1>6 DEF Write, Fail, AfterFailure
  <2>2. i = 0
    BY <2>1 DEF TypeInv, HostType
  <2> QED
    BY <1>1, <1>3, <2>1, <2>2, StepsAt, StepsAfter
<1>7. CASE Read
  <2>1. /\ pc = "read" /\ cmd' = cmd
        /\ \/ pc' \in {"check", "idle", "failed"}
           \/ pc' = "read" /\ i' = i + 1 /\ ~Last(ReadMax)
    BY <1>7 DEF Read, Fail, AfterFailure
  <2>2. ~Last(ReadMax) => i + 1 # ReadMax
    BY DEF Last
  <2> QED
    BY <1>1, <1>2, <1>3, <2>1, <2>2, StepsAt, StepsAfter
<1>8. CASE CheckVersion
  <2>1. /\ pc = "check" /\ cmd = "VER"
        /\ \/ pc' = "setDrain" /\ i' = 0
           \/ pc' = "failed"
    BY <1>8 DEF CheckVersion, Fail, AfterFailure
  <2> QED
    BY <1>1, <1>3, <2>1, StepsAt, StepsAfter
<1>9. CASE CheckPvt
  <2>1. pc = "check" /\ pc' = "idle"
    BY <1>9 DEF CheckPvt, Fail, AfterFailure
  <2> QED
    BY <1>1, <1>3, <2>1, StepsAt, StepsAfter
<1>10. CASE SetDrain
  <2>1. /\ pc = "setDrain"
        /\ \/ pc' \in {"idle", "setWrite"}
           \/ pc' = "setDrain" /\ i' = i + 1 /\ ~Last(DrainMax)
    BY <1>10 DEF SetDrain, Configured
  <2>2. ~Last(DrainMax) => i + 1 # DrainMax
    BY DEF Last
  <2> QED
    BY <1>1, <1>2, <2>1, <2>2, StepsAt, StepsAfter
<1>11. CASE SetWrite
  <2>1. pc = "setWrite" /\ pc' \in {"setRead", "idle"}
    BY <1>11 DEF SetWrite, Configured
  <2> QED
    BY <2>1, StepsAt, StepsAfter
<1>12. CASE SetRead
  <2>1. pc = "setRead" /\ pc' = "idle"
    BY <1>12 DEF SetRead, Configured
  <2> QED
    BY <2>1, StepsAt, StepsAfter
<1> QED
  BY <1>4, <1>5, <1>6, <1>7, <1>8, <1>9, <1>10, <1>11, <1>12
     DEF Poll, Configure

\* Start-up and m10_pvt_update end whatever the receiver does, in whatever
\* environment: each of their steps lowers the number that is left, which
\* starts at DrainMax + ReadMax + 2 for a poll (ubx.c:136-160, 183-209).
THEOREM PollsAreFinite == Spec => PollsEnd
<1>1. Spec => []TypeInv
  <2>1. Init => TypeInv
    BY InitType
  <2>2. TypeInv /\ [Next]_vars => TypeInv'
    BY TypeStep
  <2> QED
    BY <2>1, <2>2, PTL DEF Spec
<1>2. TypeInv /\ [Next]_vars
        => [ResetPulse \/ Poll \/ Configure
              => StepsLeft' \in 0 .. StepsLeft - 1]_vars
  BY StepsFewer
<1> QED
  BY <1>1, <1>2, PTL DEF Spec, PollsEnd

-----------------------------------------------------------------------------
(* Order.  Answers come in the order of the requests, and the cells of an  *)
(* answer in the order of its parts.  What the code has not looked at yet  *)
(* is one line: the answer in its hands, then what is still to come.       *)

Polled == {"VER", "PVT"}
InHand == IF pc = "check" THEN SubSeq(rx, 1, len) ELSE <<>>
Line   == InHand \o Coming

Earlier(c, d) == c.id < d.id \/ (c.id = d.id /\ c.part < d.part)

Sorted(line) ==
  \A j, k \in 1 .. Len(line) :
    j < k /\ line[j].kind = line[k].kind /\ line[j].kind \in Polled
    => Earlier(line[j], line[k])

SortedRequests(requests) ==
  \A j, k \in 1 .. Len(requests) :
    j < k /\ requests[j].kind = requests[k].kind /\ requests[j].kind \in Polled
    => requests[j].id < requests[k].id

InOrder(line, requests) ==
  /\ Sorted(line) /\ SortedRequests(requests)
  /\ \A c \in Range(line), q \in Range(requests) :
       c.kind = q.kind /\ q.kind \in Polled => c.id < q.id

\* The parts of a line that is in order are, and follow each other.
LEMMA SortedParts ==
  ASSUME NEW a \in Seq(Cells), NEW t \in Seq(Cells), Sorted(a \o t)
  PROVE  /\ Sorted(t)
         /\ \A c \in Range(a), d \in Range(t) :
              c.kind = d.kind /\ c.kind \in Polled => Earlier(c, d)
<1>1. /\ Len(a) \in Nat /\ Len(t) \in Nat
      /\ Len(a \o t) = Len(a) + Len(t)
      /\ \A k \in 1 .. Len(a) + Len(t) :
           (a \o t)[k] = IF k <= Len(a) THEN a[k] ELSE t[k - Len(a)]
  BY ConcatProperties, LenProperties
<1>2. \A k \in 1 .. Len(t) :
        Len(a) + k \in 1 .. Len(a \o t) /\ (a \o t)[Len(a) + k] = t[k]
  <2>1. SUFFICES ASSUME NEW k \in 1 .. Len(t)
                 PROVE  /\ Len(a) + k \in 1 .. Len(a \o t)
                        /\ (a \o t)[Len(a) + k] = t[k]
    OBVIOUS
  <2>2. /\ Len(a) + k \in 1 .. Len(a) + Len(t) /\ ~(Len(a) + k <= Len(a))
        /\ (Len(a) + k) - Len(a) = k
    BY <1>1
  <2>3. QED
    BY <1>1, <2>2
<1>3. \A k \in 1 .. Len(a) : k \in 1 .. Len(a \o t) /\ (a \o t)[k] = a[k]
  BY <1>1
<1>4. Sorted(t)
  <2>1. SUFFICES ASSUME NEW j \in 1 .. Len(t), NEW k \in 1 .. Len(t), j < k,
                        t[j].kind = t[k].kind, t[j].kind \in Polled
                 PROVE  Earlier(t[j], t[k])
    BY DEF Sorted
  <2>2. Len(a) + j < Len(a) + k
    BY <1>1, <2>1
  <2>3. QED
    BY <1>2, <2>1, <2>2 DEF Sorted
<1>5. ASSUME NEW c \in Range(a), NEW d \in Range(t),
             c.kind = d.kind, c.kind \in Polled
      PROVE  Earlier(c, d)
  <2>1. PICK j \in 1 .. Len(a) : c = a[j]
    BY RangeEquality
  <2>2. PICK k \in 1 .. Len(t) : d = t[k]
    BY RangeEquality
  <2>3. j < Len(a) + k
    BY <1>1
  <2>4. QED
    BY <1>2, <1>3, <1>5, <2>1, <2>2, <2>3 DEF Sorted
<1>6. QED
  BY <1>4, <1>5

\* Two lines in order, one behind the other.
LEMMA SortedConcat ==
  ASSUME NEW s \in Seq(Cells), NEW f \in Seq(Cells), Sorted(s), Sorted(f),
         \A c \in Range(s), d \in Range(f) :
           c.kind = d.kind /\ d.kind \in Polled => Earlier(c, d)
  PROVE  Sorted(s \o f)
<1>1. /\ Len(s) \in Nat /\ Len(f) \in Nat
      /\ Len(s \o f) = Len(s) + Len(f)
      /\ \A k \in 1 .. Len(s) + Len(f) :
           (s \o f)[k] = IF k <= Len(s) THEN s[k] ELSE f[k - Len(s)]
  BY ConcatProperties, LenProperties
<1>2. SUFFICES ASSUME NEW j \in 1 .. Len(s \o f), NEW k \in 1 .. Len(s \o f),
                      j < k, (s \o f)[j].kind = (s \o f)[k].kind,
                      (s \o f)[j].kind \in Polled
               PROVE  Earlier((s \o f)[j], (s \o f)[k])
  BY DEF Sorted
<1>3. CASE k <= Len(s)
  <2>1. /\ j \in 1 .. Len(s) /\ k \in 1 .. Len(s)
        /\ (s \o f)[j] = s[j] /\ (s \o f)[k] = s[k]
    BY <1>1, <1>2, <1>3
  <2>2. QED
    BY <1>2, <2>1 DEF Sorted
<1>4. CASE j > Len(s)
  <2>1. /\ j - Len(s) \in 1 .. Len(f) /\ k - Len(s) \in 1 .. Len(f)
        /\ j - Len(s) < k - Len(s)
        /\ (s \o f)[j] = f[j - Len(s)] /\ (s \o f)[k] = f[k - Len(s)]
    BY <1>1, <1>2, <1>4
  <2>2. QED
    BY <1>2, <2>1 DEF Sorted
<1>5. CASE j <= Len(s) /\ k > Len(s)
  <2>1. /\ j \in 1 .. Len(s) /\ k - Len(s) \in 1 .. Len(f)
        /\ (s \o f)[j] = s[j] /\ (s \o f)[k] = f[k - Len(s)]
    BY <1>1, <1>2, <1>5
  <2>2. s[j] \in Range(s) /\ f[k - Len(s)] \in Range(f)
    BY <2>1, RangeEquality
  <2>3. QED
    BY <1>2, <2>1, <2>2
<1>6. QED
  BY <1>1, <1>3, <1>4, <1>5

\* Of a line in order the beginning may be taken away.
LEMMA OrderRest ==
  ASSUME NEW a \in Seq(Cells), NEW t \in Seq(Cells), NEW p,
         InOrder(a \o t, p)
  PROVE  InOrder(t, p) /\ Range(t) \subseteq Range(a \o t)
<1>1. Range(a \o t) = Range(a) \cup Range(t)
  BY RangeConcatenation
<1>2. Sorted(t)
  BY SortedParts DEF InOrder
<1>3. QED
  BY <1>1, <1>2 DEF InOrder

\* The requests behind the oldest one.
LEMMA LaterRequests ==
  ASSUME NEW p \in Seq(Request), p # <<>>, SortedRequests(p)
  PROVE  /\ SortedRequests(Tail(p))
         /\ Head(p) \in Range(p) /\ Range(Tail(p)) \subseteq Range(p)
         /\ \A q \in Range(Tail(p)) :
              Head(p).kind = q.kind /\ q.kind \in Polled => Head(p).id < q.id
<1>1. /\ Len(p) \in Nat /\ Len(p) >= 1 /\ Tail(p) \in Seq(Request)
      /\ Len(Tail(p)) = Len(p) - 1
      /\ \A k \in 1 .. Len(Tail(p)) : Tail(p)[k] = p[k + 1]
  BY HeadTailProperties, LenProperties, EmptySeq
<1>2. \A k \in 1 .. Len(Tail(p)) : k + 1 \in 1 .. Len(p)
  BY <1>1
<1>3. Head(p) = p[1] /\ 1 \in 1 .. Len(p)
  BY <1>1
<1>4. SortedRequests(Tail(p))
  <2>1. SUFFICES ASSUME NEW j \in 1 .. Len(Tail(p)),
                        NEW k \in 1 .. Len(Tail(p)), j < k,
                        Tail(p)[j].kind = Tail(p)[k].kind,
                        Tail(p)[j].kind \in Polled
                 PROVE  Tail(p)[j].id < Tail(p)[k].id
    BY DEF SortedRequests
  <2>2. /\ j + 1 \in 1 .. Len(p) /\ k + 1 \in 1 .. Len(p) /\ j + 1 < k + 1
        /\ Tail(p)[j] = p[j + 1] /\ Tail(p)[k] = p[k + 1]
    BY <1>1, <1>2, <2>1
  <2>3. QED
    BY <2>1, <2>2 DEF SortedRequests
<1>5. ASSUME NEW q \in Range(Tail(p))
      PROVE  /\ q \in Range(p)
             /\ Head(p).kind = q.kind /\ q.kind \in Polled => Head(p).id < q.id
  <2>1. PICK k \in 1 .. Len(Tail(p)) : q = Tail(p)[k]
    <3> DEFINE r == Tail(p)
    <3>1. r \in Seq(Request) /\ q \in Range(r)
      BY <1>1
    <3> HIDE DEF r
    <3>2. \E k \in 1 .. Len(r) : q = r[k]
      BY <3>1, RangeEquality
    <3>3. QED
      BY <3>2 DEF r
  <2>2. q = p[k + 1] /\ k + 1 \in 1 .. Len(p) /\ 1 < k + 1
    BY <1>1, <1>2, <2>1
  <2>3. q \in Range(p)
    BY <2>2, RangeEquality
  <2>4. QED
    BY <1>3, <2>2, <2>3 DEF SortedRequests
<1>6. Head(p) \in Range(p)
  BY <1>3, RangeEquality
<1>7. QED
  BY <1>4, <1>5, <1>6

\* A request that was never understood leaves a gap, in order.
LEMMA OrderIgnored ==
  ASSUME NEW s \in Seq(Cells), NEW p \in Seq(Request), p # <<>>, InOrder(s, p)
  PROVE  InOrder(s, Tail(p)) /\ Range(Tail(p)) \subseteq Range(p)
BY LaterRequests DEF InOrder

\* The cells of one answer, in the order of their parts.
LEMMA FrameSorted ==
  ASSUME NEW kind \in UbxKinds, NEW id \in Ids(kind)
  PROVE  /\ Sorted(Frame(kind, id))
         /\ \A c \in Range(Frame(kind, id)) : c.kind = kind /\ c.id = id
<1> DEFINE f == Frame(kind, id)
<1>1. /\ f \in Seq(Cells) /\ Len(f) = Size[kind] /\ Size[kind] \in Nat
      /\ \A p \in 1 .. Size[kind] : f[p] = Cell(kind, id, p)
  BY FrameParts, FrameSize
<1> HIDE DEF f
<1>2. Sorted(f)
  <2>1. SUFFICES ASSUME NEW j \in 1 .. Len(f), NEW k \in 1 .. Len(f), j < k
                 PROVE  Earlier(f[j], f[k])
    BY DEF Sorted
  <2>2. f[j] = Cell(kind, id, j) /\ f[k] = Cell(kind, id, k)
    BY <1>1
  <2>3. f[j].id = f[k].id /\ f[j].part = j /\ f[k].part = k
    BY <2>2 DEF Cell
  <2>4. QED
    BY <2>1, <2>3 DEF Earlier
<1>3. ASSUME NEW c \in Range(f)
      PROVE  c.kind = kind /\ c.id = id
  <2>1. PICK k \in 1 .. Len(f) : c = f[k]
    BY <1>1, RangeEquality
  <2>2. c = Cell(kind, id, k)
    BY <1>1, <2>1
  <2>3. QED
    BY <2>2 DEF Cell
<1>4. QED
  BY <1>2, <1>3 DEF f

\* The answer to the oldest request goes behind the line.
LEMMA OrderAnswer ==
  ASSUME NEW s \in Seq(Cells), NEW p \in Seq(Request), p # <<>>, InOrder(s, p),
         NEW kind \in Polled, NEW id \in Ids(kind),
         Head(p).kind = kind, Head(p).id = id
  PROVE  /\ InOrder(s \o Frame(kind, id), Tail(p))
         /\ Range(Tail(p)) \subseteq Range(p) /\ Head(p) \in Range(p)
         /\ \A c \in Range(s \o Frame(kind, id)) :
              c \in Range(s) \/ (c.kind = kind /\ c.id = id)
<1> DEFINE f == Frame(kind, id)
<1>1. kind \in UbxKinds
  BY DEF Polled, UbxKinds
<1>2. /\ f \in Seq(Cells) /\ Sorted(f)
      /\ \A c \in Range(f) : c.kind = kind /\ c.id = id
  BY <1>1, FrameParts, FrameSorted
<1> HIDE DEF f
<1>3. /\ SortedRequests(Tail(p))
      /\ Head(p) \in Range(p) /\ Range(Tail(p)) \subseteq Range(p)
      /\ \A q \in Range(Tail(p)) :
           kind = q.kind /\ q.kind \in Polled => id < q.id
  BY LaterRequests DEF InOrder
<1>4. Range(s \o f) = Range(s) \cup Range(f)
  BY <1>2, RangeConcatenation
<1>5. \A c \in Range(s) : c.kind = kind => c.id < id
  BY <1>3 DEF InOrder
<1>6. Sorted(s \o f)
  <2>1. \A c \in Range(s), d \in Range(f) :
          c.kind = d.kind /\ d.kind \in Polled => Earlier(c, d)
    BY <1>2, <1>5 DEF Earlier
  <2>2. QED
    BY <1>2, <2>1, SortedConcat DEF InOrder
<1>7. \A c \in Range(s \o f), q \in Range(Tail(p)) :
        c.kind = q.kind /\ q.kind \in Polled => c.id < q.id
  BY <1>2, <1>3, <1>4 DEF InOrder
<1>8. InOrder(s \o f, Tail(p))
  BY <1>3, <1>6, <1>7 DEF InOrder
<1>9. QED
  BY <1>2, <1>3, <1>4, <1>8 DEF f

\* Cells that follow cells that follow cells.
LEMMA Regrouped ==
  ASSUME NEW a \in Seq(Cells), NEW b \in Seq(Cells), NEW c \in Seq(Cells)
  PROVE  a \o (b \o c) = (a \o b) \o c
BY ConcatAssociative

\* Text and acknowledgements go behind the line.
LEMMA OrderOther ==
  ASSUME NEW s \in Seq(Cells), NEW f \in Seq(Cells), NEW p, InOrder(s, p),
         \A c \in Range(f) : c.kind \notin Polled
  PROVE  InOrder(s \o f, p) /\ Range(s \o f) = Range(s) \cup Range(f)
<1>1. Range(s \o f) = Range(s) \cup Range(f)
  BY RangeConcatenation
<1>2. Sorted(f)
  <2>1. \A k \in 1 .. Len(f) : f[k].kind \notin Polled
    BY RangeEquality
  <2>2. QED
    BY <2>1 DEF Sorted
<1>3. Sorted(s \o f)
  BY <1>2, SortedConcat DEF InOrder
<1>4. QED
  BY <1>1, <1>3 DEF InOrder

\* A request goes out behind the others: its number is higher than what is
\* owed of its kind.
LEMMA OrderRequest ==
  ASSUME NEW s \in Seq(Cells), NEW p \in Seq(Request), NEW q \in Request,
         InOrder(s, p),
         q.kind \in Polled =>
           \A c \in Range(s) \cup Range(p) : c.kind = q.kind => c.id < q.id
  PROVE  /\ InOrder(s, Append(p, q))
         /\ Range(Append(p, q)) = Range(p) \cup {q}
<1> DEFINE n == Len(p) + 1
           t == Append(p, q)
<1>1. /\ Len(p) \in Nat /\ t \in Seq(Request) /\ Len(t) = n
      /\ t[n] = q /\ \A k \in 1 .. Len(p) : t[k] = p[k]
  BY AppendProperties, LenProperties
<1> HIDE DEF t
<1>2. Range(t) = Range(p) \cup {q}
  <2>1. /\ Range(t) = {t[k] : k \in 1 .. n}
        /\ Range(p) = {p[k] : k \in 1 .. Len(p)}
    BY <1>1, RangeEquality
  <2>2. 1 .. n = (1 .. Len(p)) \cup {n}
    BY <1>1
  <2>3. QED
    BY <1>1, <2>1, <2>2
<1>3. SortedRequests(t)
  <2>1. SUFFICES ASSUME NEW j \in 1 .. Len(t), NEW k \in 1 .. Len(t), j < k,
                        t[j].kind = t[k].kind, t[j].kind \in Polled
                 PROVE  t[j].id < t[k].id
    BY DEF SortedRequests
  <2>2. j \in 1 .. Len(p) /\ t[j] = p[j]
    BY <1>1, <2>1
  <2>3. CASE k = n
    <3>1. t[k] = q /\ t[j] \in Range(p)
      BY <1>1, <2>2, <2>3, RangeEquality
    <3>2. QED
      BY <2>1, <3>1
  <2>4. CASE k # n
    <3>1. k \in 1 .. Len(p) /\ t[k] = p[k]
      BY <1>1, <2>4
    <3>2. QED
      BY <2>1, <2>2, <3>1 DEF InOrder, SortedRequests
  <2>5. QED
    BY <2>3, <2>4
<1>4. InOrder(s, t)
  BY <1>2, <1>3 DEF InOrder
<1>5. QED
  BY <1>2, <1>4 DEF t

-----------------------------------------------------------------------------
(* The order is kept by every step.                                        *)

Outstanding == Range(Line) \cup Range(pending)

\* A step leaves nothing to come that was not asked for before.
NothingNew ==
  \A c \in Outstanding' : c.kind \in Polled =>
    \E d \in Outstanding : d.kind = c.kind /\ d.id = c.id

LEMMA LineCells ==
  ASSUME TypeInv
  PROVE  /\ InHand \in Seq(Cells) /\ Coming \in Seq(Cells)
         /\ Line \in Seq(Cells)
         /\ pc # "check" => Line = Coming
<1>1. stream \in Seq(Cells) /\ tail \in Seq(Cells)
  BY DEF TypeInv, LinkCells
<1>2. Coming \in Seq(Cells)
  BY <1>1, ConcatProperties DEF Coming
<1>3. InHand \in Seq(Cells)
  <2>1. /\ rx \in Seq(Cells) /\ Len(rx) = MaxRx
        /\ 1 \in Int /\ len \in Int /\ len <= MaxRx /\ MaxRx \in Nat
    BY DEF TypeInv, LinkCells, MaxRx
  <2>2. \A k \in 1 .. len : rx[k] \in Cells
    BY <2>1, LenProperties
  <2>3. SubSeq(rx, 1, len) \in Seq(Cells)
    BY <2>1, <2>2, SubSeqProperties
  <2>4. <<>> \in Seq(Cells)
    BY EmptySeq
  <2>5. QED
    BY <2>3, <2>4 DEF InHand
<1>4. QED
  BY <1>2, <1>3, ConcatProperties, ConcatEmptySeq DEF Line, InHand

\* The stream is what a read takes and what it leaves.
LEMMA ReadStream ==
  ASSUME TypeInv
  PROVE  /\ SubSeq(stream, 1, Count) \in Seq(Cells) /\ Rest \in Seq(Cells)
         /\ stream = SubSeq(stream, 1, Count) \o Rest
<1>1. /\ stream \in Seq(Cells) /\ Len(stream) \in Nat
      /\ Count \in 0 .. Len(stream) /\ Rest \in Seq(Cells)
  BY RestOfStream, LenProperties DEF TypeInv, LinkCells
<1>2. SubSeq(stream, 1, Count) \in Seq(Cells)
  <2>1. /\ 1 \in Int /\ Count \in Int
        /\ \A k \in 1 .. Count : stream[k] \in Cells
    BY <1>1, ElementOfSeq
  <2>2. QED
    BY <2>1, SubSeqProperties
<1>3. SubSeq(stream, 1, Count) \o Rest = SubSeq(stream, 1, Len(stream))
  <2>1. /\ 1 \in 1 .. Len(stream) + 1 /\ Count \in 1 - 1 .. Len(stream)
        /\ Len(stream) \in Count .. Len(stream)
    BY <1>1
  <2>2. QED
    BY <1>1, <2>1, ConcatAdjacentSubSeq DEF Rest
<1>4. QED
  BY <1>1, <1>2, <1>3, SubSeqFull

\* What a line may lose at its beginning.
LEMMA LineLoses ==
  ASSUME InOrder(Line, pending), NEW a \in Seq(Cells), Line' \in Seq(Cells),
         Line = a \o Line', pending' = pending
  PROVE  InOrder(Line', pending') /\ NothingNew
<1>1. InOrder(Line', pending) /\ Range(Line') \subseteq Range(Line)
  BY OrderRest
<1>2. QED
  BY <1>1 DEF NothingNew, Outstanding

LEMMA LineStays ==
  ASSUME InOrder(Line, pending), Line' = Line, pending' = pending
  PROVE  InOrder(Line', pending') /\ NothingNew
BY DEF NothingNew, Outstanding

\* A read that is taken for no answer.
LEMMA ReadOrder ==
  ASSUME TypeInv, TypeInv', InOrder(Line, pending), NEW r \in Reads, Get(r),
         pc # "check", pc' # "check", UNCHANGED <<tail, pending>>
  PROVE  InOrder(Line', pending') /\ NothingNew
<1>1. Line = stream \o tail /\ Line' = stream' \o tail
  BY LineCells DEF Coming, Line, InHand
<1>2. /\ stream \in Seq(Cells) /\ tail \in Seq(Cells)
      /\ stream' \in Seq(Cells) /\ Line' \in Seq(Cells)
  <2>1. stream' \in Seq(Cells) /\ stream \in Seq(Cells) /\ tail \in Seq(Cells)
    BY DEF TypeInv, LinkCells
  <2>2. QED
    BY <1>1, <2>1, ConcatProperties
<1>3. stream' \in {stream, Rest}
  BY ReadOutcome DEF Get
<1>4. CASE stream' = stream
  BY <1>1, <1>4, LineStays
<1>5. CASE stream' = Rest
  <2> DEFINE a == SubSeq(stream, 1, Count)
  <2>1. a \in Seq(Cells) /\ stream = a \o Rest
    BY ReadStream
  <2> HIDE DEF a
  <2>2. Line = a \o Line'
    BY <1>1, <1>2, <1>5, <2>1, ConcatAssociative
  <2>3. QED
    BY <1>2, <2>1, <2>2, LineLoses
<1>6. QED
  BY <1>3, <1>4, <1>5

\* A read that is taken for the answer: it brings all there is.
LEMMA TakeAll ==
  ASSUME TypeInv, NEW r \in Reads, Get(r), ~r.err, r.remains = 0,
         pc # "check", pc' = "check", UNCHANGED tail
  PROVE  Line' = Line /\ stream' = <<>> /\ InHand' = stream
<1>1. /\ stream \in Seq(Cells) /\ tail \in Seq(Cells) /\ rx \in Seq(Cells)
      /\ Len(rx) = MaxRx /\ Len(stream) \in Nat
  BY LenProperties DEF TypeInv, LinkCells
<1>2. /\ stream' = Rest /\ rx' = Filled /\ len' = Count /\ Len(Rest) = 0
  BY ReadOutcome DEF Get
<1>3. /\ Rest \in Seq(Cells) /\ Len(Rest) = Len(stream) - Count
      /\ Count \in 0 .. Len(stream) /\ Count <= MaxRx
  BY <1>1, RestOfStream
<1>4. Count = Len(stream) /\ Rest = <<>>
  <2>1. Count = Len(stream)
    BY <1>1, <1>2, <1>3
  <2>2. QED
    BY <1>2, <1>3, <2>1, EmptySeq
<1>5. /\ Filled \in Seq(Cells) /\ Len(Filled) = MaxRx
      /\ \A k \in 1 .. Count : Filled[k] = stream[k]
  BY <1>1, FilledBuffer
<1>6. SubSeq(Filled, 1, Count) = stream
  <2> DEFINE b == SubSeq(Filled, 1, Count)
  <2>1. /\ 1 \in Int /\ Count \in Int
        /\ \A k \in 1 .. Count : Filled[k] \in Cells
    BY <1>3, <1>5, ElementOfSeq
  <2>2. /\ b \in Seq(Cells)
        /\ Len(b) = IF 1 <= Count THEN Count - 1 + 1 ELSE 0
        /\ \A k \in 1 .. Count - 1 + 1 : b[k] = Filled[1 + k - 1]
    BY <2>1, SubSeqProperties
  <2> HIDE DEF b
  <2>3. Len(b) = Len(stream) /\ \A k \in 1 .. Len(b) : b[k] = stream[k]
    <3>1. Count \in Nat /\ Len(stream) = Count
      BY <1>1, <1>4
    <3>2. Len(b) = Count
      BY <2>2, <3>1
    <3>3. \A k \in 1 .. Count : b[k] = Filled[k]
      BY <2>2, <3>1
    <3>4. QED
      BY <1>5, <3>1, <3>2, <3>3
  <2>4. b = stream
    BY <1>1, <2>2, <2>3, SeqEqual
  <2>5. QED
    BY <2>4 DEF b
<1>7. InHand' = stream
  BY <1>2, <1>6 DEF InHand
<1>8. Line' = Line
  <2>1. Line = stream \o tail
    BY LineCells DEF Coming
  <2>2. Coming' = tail
    BY <1>1, <1>2, <1>4, ConcatEmptySeq DEF Coming
  <2>3. QED
    BY <1>7, <2>1, <2>2 DEF Line
<1>9. QED
  BY <1>2, <1>4, <1>7, <1>8

\* The code is done with the answer, or has lost it.
LEMMA DropOrder ==
  ASSUME TypeInv, TypeInv', InOrder(Line, pending), pc' # "check",
         UNCHANGED <<stream, tail, pending>>
  PROVE  InOrder(Line', pending') /\ NothingNew
<1>1. InHand \in Seq(Cells) /\ Line = InHand \o Coming
  BY LineCells DEF Line
<1>2. Line' = Coming' /\ Coming' = Coming /\ Line' \in Seq(Cells)
  <2>1. Coming' = Coming /\ Coming \in Seq(Cells)
    BY LineCells DEF Coming
  <2>2. Line' = <<>> \o Coming'
    BY DEF Line, InHand
  <2>3. QED
    BY <2>1, <2>2, ConcatEmptySeq
<1>3. QED
  BY <1>1, <1>2, LineLoses

-----------------------------------------------------------------------------
(* The invariant of the fixes.                                             *)

\* Start-up has its version, or has not asked for it since the reset pulse.
VersionDone ==
  \/ pc \in {"drain", "write", "setDrain", "setWrite", "setRead", "idle"}
  \/ cmd = "PVT"

VersionInv == VersionDone => \A c \in Outstanding : c.kind # "VER"

\* What is owed of PVT is later than the fix taken.
LaterInv ==
  /\ AcceptedIsPvt /\ taken.id \in 0 .. req
  /\ \A c \in Outstanding : c.kind = "PVT" => c.id \in taken.id + 1 .. req

FixInv == InOrder(Line, pending) /\ VersionInv /\ LaterInv

\* A poll's request: the version is owed no other time, and a PVT request has
\* a number of its own.
LEMMA WriteOrder ==
  ASSUME TypeInv, TypeInv', FixInv, Write
  PROVE  /\ InOrder(Line', pending')
         /\ \A c \in Outstanding' : c \in Outstanding \/ c.kind = "SET"
              \/ (c.kind = cmd /\ c.id = IF cmd = "PVT" THEN req + 1 ELSE 0)
<1> DEFINE asked == [kind |-> cmd, id |-> IF cmd = "PVT" THEN req + 1 ELSE 0]
<1>1. /\ pc = "write" /\ pc' # "check" /\ UNCHANGED <<stream, tail>>
      /\ pending' \in {pending, Append(pending, asked)}
  BY DEF Write, Fail, AfterFailure
<1>2. asked \in Request
  BY <1>1, PollRequest DEF TypeInv
<1>3. Line \in Seq(Cells) /\ pending \in Seq(Request)
  BY LineCells DEF TypeInv, LinkCells
<1>4. Line' = Line
  BY <1>1 DEF Line, InHand, Coming
<1>5. asked.kind = cmd /\ asked.id = IF cmd = "PVT" THEN req + 1 ELSE 0
  OBVIOUS
<1>6. \A c \in Range(Line) \cup Range(pending) :
        c.kind = asked.kind => c.id < asked.id
  <2>1. CASE cmd = "VER"
    BY <1>1, <2>1 DEF FixInv, VersionInv, VersionDone, Outstanding
  <2>2. CASE cmd = "PVT"
    <3>1. \A c \in Outstanding : c.kind = "PVT" => c.id \in taken.id + 1 .. req
      BY DEF FixInv, LaterInv
    <3>2. req \in Nat /\ taken.id \in Nat
      BY LinkAssumption DEF FixInv, LaterInv, TypeInv, CountInv
    <3>3. \A c \in Outstanding : c.kind = "PVT" => c.id < req + 1
      BY <3>1, <3>2
    <3>4. QED
      BY <2>2, <3>3 DEF Outstanding
  <2>3. QED
    BY <2>1, <2>2 DEF TypeInv, HostType
<1> HIDE DEF asked
<1>7. /\ InOrder(Line, Append(pending, asked))
      /\ Range(Append(pending, asked)) = Range(pending) \cup {asked}
  BY <1>2, <1>3, <1>6, OrderRequest DEF FixInv
<1>8. InOrder(Line', pending')
  BY <1>1, <1>4, <1>7 DEF FixInv
<1>9. Outstanding' \subseteq Outstanding \cup {asked}
  BY <1>1, <1>4, <1>7 DEF Outstanding
<1>10. QED
  BY <1>5, <1>8, <1>9

LEMMA EmptyRange == Range(<<>>) = {}
<1>1. <<>> \in Seq(Cells) /\ Len(<<>>) = 0
  BY EmptySeq
<1> DEFINE e == <<>>
<1>2. e \in Seq(Cells) /\ Len(e) = 0
  BY <1>1
<1> HIDE DEF e
<1>3. DOMAIN e = 1 .. 0
  BY <1>2, LenProperties
<1>4. Range(e) = {}
  BY <1>3 DEF Range
<1>5. QED
  BY <1>4 DEF e

\* A receiver that was reset owes nothing.
LEMMA ResetOwes ==
  ASSUME ResetPulse, "noReset" \notin Env
  PROVE  Line' = <<>> /\ pending' = <<>> /\ Outstanding' = {}
<1>1. stream' = <<>> /\ tail' = <<>> /\ pending' = <<>> /\ pc' = "drain"
  BY DEF ResetPulse
<1>2. <<>> \in Seq(Cells)
  BY EmptySeq
<1>3. Line' = <<>>
  BY <1>1, <1>2, ConcatEmptySeq DEF Line, Coming, InHand
<1>4. QED
  BY <1>1, <1>3, EmptyRange DEF Outstanding

\* Every other step keeps the order and asks for nothing.
LEMMA OrderStep ==
  ASSUME TypeInv, TypeInv', InOrder(Line, pending), "noReset" \notin Env,
         [Next]_vars, ~Write
  PROVE  InOrder(Line', pending') /\ NothingNew
<1> USE DEF host, m10, ghost
<1>0. /\ Line \in Seq(Cells) /\ Coming \in Seq(Cells) /\ InHand \in Seq(Cells)
      /\ pending \in Seq(Request)
  BY LineCells DEF TypeInv, LinkCells
<1>1. CASE ResetPulse
  <2>1. Line' = <<>> /\ pending' = <<>> /\ Outstanding' = {}
    BY <1>1, ResetOwes
  <2>2. Len(<<>>) = 0 /\ Range(<<>>) = {}
    BY EmptyRange, EmptySeq
  <2>3. QED
    BY <2>1, <2>2 DEF InOrder, Sorted, SortedRequests, NothingNew
<1>2. CASE StartUpdate \/ UNCHANGED vars
  <2>1. Line' = Line /\ pending' = pending
    BY <1>2 DEF StartUpdate, vars, Line, Coming, InHand
  <2>2. QED
    BY <2>1, LineStays
<1>3. CASE Drain \/ SetDrain \/ SetRead
  <2>1. PICK r \in Reads : Get(r)
    BY <1>3 DEF Drain, SetDrain, SetRead
  <2>2. pc # "check" /\ pc' # "check" /\ UNCHANGED <<tail, pending>>
    BY <1>3 DEF Drain, SetDrain, SetRead, Configured
  <2>3. QED
    BY <2>1, <2>2, ReadOrder
<1>4. CASE Read
  <2>1. PICK r \in Reads :
          /\ Get(r)
          /\ pc' = "check" => ~r.err /\ r.remains = 0
    BY <1>4 DEF Read, Fail, AfterFailure, HasAnswer
  <2>2. pc # "check" /\ UNCHANGED <<tail, pending>>
    BY <1>4 DEF Read
  <2>3. CASE pc' = "check"
    BY <2>1, <2>2, <2>3, TakeAll, LineStays
  <2>4. CASE pc' # "check"
    BY <2>1, <2>2, <2>4, ReadOrder
  <2>5. QED
    BY <2>3, <2>4
<1>5. CASE CheckVersion \/ CheckPvt \/ Reboot
  <2>1. pc' # "check" /\ UNCHANGED <<stream, tail, pending>>
    BY <1>5 DEF CheckVersion, CheckPvt, Reboot, Fail, AfterFailure
  <2>2. QED
    BY <2>1, DropOrder
<1>6. CASE SetWrite
  <2> DEFINE asked == [kind |-> "SET", id |-> 0]
  <2>1. /\ pc' # "check" /\ pc # "check" /\ UNCHANGED <<stream, tail>>
        /\ pending' \in {pending, Append(pending, asked)}
    BY <1>6 DEF SetWrite, Configured
  <2>2. Line' = Line
    BY <2>1 DEF Line, Coming, InHand
  <2>3. asked \in Request /\ asked.kind \notin Polled
    BY DEF Request, Polled
  <2> HIDE DEF asked
  <2>4. /\ InOrder(Line, Append(pending, asked))
        /\ Range(Append(pending, asked)) = Range(pending) \cup {asked}
    BY <1>0, <2>3, OrderRequest
  <2>5. Outstanding' \subseteq Outstanding \cup {asked}
    BY <2>1, <2>2, <2>4 DEF Outstanding
  <2>6. QED
    BY <2>1, <2>2, <2>3, <2>4, <2>5 DEF NothingNew
<1>7. CASE OutputNmea
  <2>1. /\ tail = <<>> /\ tail' = <<>> /\ stream' = Append(stream, Nmea)
        /\ UNCHANGED <<pc, rx, len, pending>>
    BY <1>7 DEF OutputNmea
  <2> DEFINE f == <<Nmea>>
  <2>2. f \in Seq(Cells) /\ \A c \in Range(f) : c.kind \notin Polled
    <3>1. f \in Seq(Cells) /\ Len(f) = 1 /\ f[1] = Nmea
      BY CellKinds
    <3>2. \A c \in Range(f) : c = Nmea
      <4> HIDE DEF f
      <4>1. ASSUME NEW c \in Range(f)
            PROVE  c = Nmea
        <5>1. PICK k \in 1 .. Len(f) : c = f[k]
          BY <3>1, RangeEquality
        <5>2. k = 1
          BY <3>1
        <5>3. QED
          BY <3>1, <5>1, <5>2
      <4>2. QED
        BY <4>1
    <3>3. QED
      BY <3>1, <3>2 DEF Nmea, Cell, Polled
  <2>3. Coming' = Coming \o f
    <3>1. stream \in Seq(Cells) /\ Nmea \in Cells
      BY CellKinds DEF TypeInv, LinkCells
    <3>2. stream' = stream \o f /\ stream \o f \in Seq(Cells)
      BY <2>1, <2>2, <3>1, AppendIsConcat, ConcatProperties
    <3> HIDE DEF f
    <3>3. Coming = stream /\ Coming' = stream \o f
      BY <2>1, <3>1, <3>2, ConcatEmptySeq DEF Coming
    <3>4. QED
      BY <3>3
  <2> HIDE DEF f
  <2>4. Line' = Line \o f
    <3>1. Line' = InHand \o (Coming \o f)
      BY <2>1, <2>3 DEF Line, InHand
    <3>2. InHand \o (Coming \o f) = (InHand \o Coming) \o f
      BY <1>0, <2>2, Regrouped, Zenon
    <3>3. QED
      BY <3>1, <3>2, Zenon DEF Line
  <2>5. InOrder(Line', pending') /\ Range(Line') = Range(Line) \cup Range(f)
    BY <1>0, <2>1, <2>2, <2>4, OrderOther
  <2>6. QED
    BY <2>1, <2>2, <2>5 DEF NothingNew, Outstanding
<1>8. CASE AnswerPoll
  <2> DEFINE kind == Head(pending).kind
             id   == Head(pending).id
             f    == Frame(kind, id)
  <2>1. /\ pending # <<>> /\ pending' = Tail(pending) /\ tail = <<>>
        /\ kind \in {"VER", "PVT"} /\ id \in Ids(kind) /\ Respond(f)
        /\ UNCHANGED <<pc, rx, len>>
    BY <1>8, OldestRequest DEF AnswerPoll, TypeInv
  <2>2. kind \in UbxKinds /\ kind \in Polled
    BY <2>1 DEF UbxKinds, Polled
  <2>3. f \in Seq(Cells) /\ Coming' = Coming \o f
    <3> HIDE DEF kind, id
    <3> QED BY <2>1, <2>2, RespondCells, FrameParts DEF TypeInv
  <2>4. Line' = Line \o f
    <3> HIDE DEF f
    <3>1. Line' = InHand \o (Coming \o f)
      BY <2>1, <2>3 DEF Line, InHand
    <3>2. InHand \o (Coming \o f) = (InHand \o Coming) \o f
      BY <1>0, <2>3, Regrouped, Zenon
    <3>3. QED
      BY <3>1, <3>2, Zenon DEF Line
  <2>5. /\ InOrder(Line \o f, Tail(pending))
        /\ Range(Tail(pending)) \subseteq Range(pending)
        /\ Head(pending) \in Range(pending)
        /\ \A c \in Range(Line \o f) :
             c \in Range(Line) \/ (c.kind = kind /\ c.id = id)
    <3>1. Head(pending).kind = kind /\ Head(pending).id = id
      OBVIOUS
    <3> HIDE DEF kind, id
    <3>2. QED
      BY <1>0, <2>1, <2>2, <3>1, OrderAnswer
  <2>6. \A c \in Outstanding' : \E d \in Outstanding :
          d.kind = c.kind /\ d.id = c.id
    <3>1. ASSUME NEW c \in Outstanding'
          PROVE  \E d \in Outstanding : d.kind = c.kind /\ d.id = c.id
      <4>1. c \in Range(Line \o f) \/ c \in Range(Tail(pending))
        BY <2>1, <2>4 DEF Outstanding
      <4>2. c \in Outstanding \/ (c.kind = kind /\ c.id = id)
        BY <2>5, <4>1 DEF Outstanding
      <4>3. Head(pending) \in Outstanding
        BY <2>5 DEF Outstanding
      <4>4. QED
        BY <4>2, <4>3
    <3>2. QED
      BY <3>1
  <2>7. QED
    BY <2>1, <2>4, <2>5, <2>6 DEF NothingNew
<1>9. CASE AnswerSet
  <2>1. PICK kind \in {"ACK", "NAK"} : Respond(Frame(kind, 0))
    BY <1>9 DEF AnswerSet
  <2>2. /\ pending # <<>> /\ pending' = Tail(pending) /\ tail = <<>>
        /\ UNCHANGED <<pc, rx, len>>
    BY <1>9 DEF AnswerSet
  <2>3. kind \in UbxKinds /\ kind \notin Polled /\ 0 \in Ids(kind)
    BY <2>1 DEF UbxKinds, Polled, Ids
  <2> DEFINE f == Frame(kind, 0)
  <2>4. /\ f \in Seq(Cells) /\ Coming' = Coming \o f
        /\ \A c \in Range(f) : c.kind \notin Polled
    BY <2>1, <2>2, <2>3, RespondCells, FrameParts, FrameSorted DEF TypeInv
  <2> HIDE DEF f
  <2>5. Line' = Line \o f
    <3>1. Line' = InHand \o (Coming \o f)
      BY <2>2, <2>4 DEF Line, InHand
    <3>2. InHand \o (Coming \o f) = (InHand \o Coming) \o f
      BY <1>0, <2>4, Regrouped, Zenon
    <3>3. QED
      BY <3>1, <3>2, Zenon DEF Line
  <2>6. /\ InOrder(Line, Tail(pending))
        /\ Range(Tail(pending)) \subseteq Range(pending)
    BY <1>0, <2>2, OrderIgnored
  <2>7. /\ InOrder(Line \o f, Tail(pending))
        /\ Range(Line \o f) = Range(Line) \cup Range(f)
    BY <1>0, <2>4, <2>6, OrderOther
  <2>8. QED
    BY <2>2, <2>4, <2>5, <2>6, <2>7 DEF NothingNew, Outstanding
<1>10. CASE OutputTail
  <2>1. stream' = Coming /\ tail' = <<>> /\ UNCHANGED <<pc, rx, len, pending>>
    BY <1>10 DEF OutputTail, Coming
  <2>2. Coming' = Coming
    BY <1>0, <2>1, ConcatEmptySeq DEF Coming
  <2>3. Line' = Line
    BY <2>1, <2>2 DEF Line, InHand
  <2>4. QED
    BY <2>1, <2>3, LineStays
<1>11. CASE Ignore
  <2>1. /\ pending # <<>> /\ pending' = Tail(pending)
        /\ UNCHANGED <<pc, rx, len, stream, tail>>
    BY <1>11 DEF Ignore
  <2>2. Line' = Line
    BY <2>1 DEF Line, Coming, InHand
  <2>3. /\ InOrder(Line, Tail(pending))
        /\ Range(Tail(pending)) \subseteq Range(pending)
    BY <1>0, <2>1, OrderIgnored
  <2>4. QED
    BY <2>1, <2>2, <2>3 DEF NothingNew, Outstanding
<1>12. QED
  BY <1>1, <1>2, <1>3, <1>4, <1>5, <1>6, <1>7, <1>8, <1>9, <1>10, <1>11
     DEF Next, Poll, Configure, Receiver

LEMMA HandLength ==
  ASSUME TypeInv, pc = "check"
  PROVE  Len(InHand) = len
<1>1. /\ rx \in Seq(Cells) /\ Len(rx) = MaxRx
      /\ len \in 0 .. MaxRx /\ MaxRx \in Nat
  BY DEF TypeInv, LinkCells, MaxRx
<1>2. \A k \in 1 .. len : rx[k] \in Cells
  BY <1>1, ElementOfSeq
<1>3. 1 \in Int /\ len \in Int
  BY <1>1
<1>4. Len(SubSeq(rx, 1, len)) = IF 1 <= len THEN len - 1 + 1 ELSE 0
  BY <1>2, <1>3, SubSeqProperties
<1>5. QED
  BY <1>1, <1>4 DEF InHand

\* What passes both checks of a poll's answer is one frame.
LEMMA TakenAnswer ==
  ASSUME TypeInv, pc = "check", Fits
  PROVE  \E kind \in UbxKinds : \E id \in Ids(kind) :
           /\ InHand = Frame(kind, id) /\ len = Size[kind]
           /\ Size[kind] >= Size[cmd]
           /\ Answer[1].kind = kind /\ Answer[1].id = id
<1>1. Answer = InHand
  BY DEF Answer, InHand
<1>2. PICK kind \in UbxKinds : \E id \in Ids(kind) : InHand = Frame(kind, id)
  BY <1>1 DEF Fits, VerifyMsg
<1>3. PICK id \in Ids(kind) : InHand = Frame(kind, id)
  BY <1>2
<1>4. /\ Len(Frame(kind, id)) = Size[kind]
      /\ Size[kind] \in Nat /\ Size[kind] >= 1
      /\ \A p \in 1 .. Size[kind] : Frame(kind, id)[p] = Cell(kind, id, p)
  BY FrameParts, FrameSize
<1>5. Len(InHand) = len
  BY HandLength
<1>6. Answer[1] = Cell(kind, id, 1)
  BY <1>1, <1>3, <1>4
<1>7. Answer[1].kind = kind /\ Answer[1].id = id
  BY <1>6 DEF Cell
<1>8. len = Size[kind] /\ Size[kind] >= Size[cmd]
  <2>1. len = Size[kind]
    BY <1>3, <1>4, <1>5
  <2>2. QED
    BY <2>1 DEF Fits
<1>9. QED
  BY <1>3, <1>7, <1>8

\* Behind a whole answer there are only later ones of its kind.
LEMMA BehindAnswer ==
  ASSUME TypeInv, InOrder(Line, pending), NEW kind \in Polled,
         NEW id \in Ids(kind), InHand = Frame(kind, id)
  PROVE  \A c \in Range(Coming) \cup Range(pending) :
           c.kind = kind => id < c.id
<1> DEFINE f == Frame(kind, id)
<1>1. /\ f \in Seq(Cells) /\ Len(f) = Size[kind]
      /\ Size[kind] \in Nat /\ Size[kind] >= 1
      /\ \A p \in 1 .. Size[kind] : f[p] = Cell(kind, id, p)
  <2>1. kind \in UbxKinds
    BY DEF Polled, UbxKinds
  <2>2. QED
    BY <2>1, FrameParts, FrameSize
<1>2. Line = f \o Coming /\ Coming \in Seq(Cells)
  BY LineCells DEF Line
<1>3. id \in Nat
  BY LinkAssumption DEF Ids, Polled
<1> HIDE DEF f
<1> DEFINE last == Cell(kind, id, Size[kind])
<1>4. last \in Range(f)
  <2>1. Size[kind] \in 1 .. Len(f) /\ f[Size[kind]] = last
    BY <1>1
  <2>2. QED
    BY <1>1, <2>1, RangeEquality
<1>5. last.kind = kind /\ last.id = id /\ last.part = Size[kind]
  BY DEF Cell
<1> HIDE DEF last
<1>6. ASSUME NEW c \in Range(Coming), c.kind = kind
      PROVE  id < c.id
  <2>1. Sorted(f \o Coming)
    BY <1>2 DEF InOrder
  <2>2. Earlier(last, c)
    BY <1>1, <1>2, <1>4, <1>5, <1>6, <2>1, SortedParts
  <2>3. c \in Cells
    BY <1>2, RangeOfSeq
  <2>4. c.part \in Nat /\ c.part <= Size[kind]
    <3>1. Size["VER"] = 3 /\ Size["PVT"] = 2
      BY DEF Size
    <3>2. QED
      BY <1>6, <2>3, <3>1, CellFields DEF Polled
  <2>5. ~(Size[kind] < c.part)
    BY <1>1, <2>4
  <2>6. QED
    BY <1>5, <2>2, <2>5 DEF Earlier
<1>7. ASSUME NEW c \in Range(pending), c.kind = kind
      PROVE  id < c.id
  <2>1. Range(Line) = Range(f) \cup Range(Coming)
    BY <1>1, <1>2, RangeConcatenation
  <2>2. QED
    BY <1>4, <1>5, <1>7, <2>1 DEF InOrder
<1>8. QED
  BY <1>6, <1>7

LEMMA OwedTypes ==
  ASSUME TypeInv, NEW c \in Outstanding
  PROVE  /\ c.kind = "VER" => c.id = 0
         /\ c.kind = "PVT" => c.id \in 1 .. MaxReq
<1>1. CASE c \in Range(Line)
  <2>1. c \in Cells
    BY <1>1, LineCells, RangeOfSeq
  <2>2. QED
    BY <2>1, CellFields
<1>2. CASE c \in Range(pending)
  <2>1. c \in Request
    BY <1>2, RangeOfSeq DEF TypeInv, LinkCells
  <2>2. QED
    BY <2>1 DEF Request
<1>3. QED
  BY <1>1, <1>2 DEF Outstanding

\* The answer the code has in hand is done with.
LEMMA HandEmpty ==
  ASSUME TypeInv, pc' # "check", UNCHANGED <<stream, tail, pending>>
  PROVE  /\ Outstanding' = Range(Coming) \cup Range(pending)
         /\ Outstanding' \subseteq Outstanding
<1>1. Coming' = Coming /\ Coming \in Seq(Cells)
  BY LineCells DEF Coming
<1>2. Line' = <<>> \o Coming'
  BY DEF Line, InHand
<1>3. Line' = Coming
  BY <1>1, <1>2, ConcatEmptySeq
<1>4. Range(Coming) \subseteq Range(Line)
  BY LineCells, RangeConcatenation DEF Line
<1>5. QED
  BY <1>3, <1>4 DEF Outstanding

\* The version is owed once after a reset: when start-up goes on, its whole
\* answer has been taken.
LEMMA VersionStep ==
  ASSUME TypeInv, TypeInv', FixInv, "noReset" \notin Env, [Next]_vars
  PROVE  VersionInv'
<1> USE DEF host, m10, ghost
<1>1. SUFFICES ASSUME VersionDone', NEW c \in Outstanding'
               PROVE  c.kind # "VER"
  BY DEF VersionInv
<1>2. CASE Write
  <2>1. pc = "write" /\ cmd' = cmd /\ pc' \in {"read", AfterFailure(cmd)}
    BY <1>2 DEF Write, Fail
  <2>2. cmd = "PVT"
    BY <1>1, <2>1 DEF VersionDone, AfterFailure, TypeInv, HostType
  <2>3. c \in Outstanding => c.kind # "VER"
    BY <2>1 DEF FixInv, VersionInv, VersionDone
  <2>4. c \in Outstanding \/ c.kind \in {"SET", "PVT"}
    BY <1>2, <2>2, WriteOrder
  <2>5. QED
    BY <2>3, <2>4
<1>3. CASE CheckVersion /\ Fits
  <2>1. /\ pc = "check" /\ cmd = "VER" /\ pc' # "check"
        /\ UNCHANGED <<stream, tail, pending>>
    BY <1>3 DEF CheckVersion
  <2>2. PICK kind \in UbxKinds : \E id \in Ids(kind) :
          InHand = Frame(kind, id) /\ Size[kind] >= Size["VER"]
    BY <1>3, <2>1, TakenAnswer
  <2>3. kind = "VER"
    BY <2>2 DEF UbxKinds, Size
  <2>4. 0 \in Ids("VER") /\ "VER" \in Polled /\ InHand = Frame("VER", 0)
    BY <2>2, <2>3 DEF Ids, Polled
  <2>5. c \in Range(Coming) \cup Range(pending)
    BY <2>1, HandEmpty
  <2>6. c.kind = "VER" => 0 < c.id
    BY <2>4, <2>5, BehindAnswer DEF FixInv
  <2>7. c.kind = "VER" => c.id = 0
    BY <1>1, <2>1, HandEmpty, OwedTypes
  <2>8. QED
    BY <2>6, <2>7
<1>4. CASE ResetPulse
  BY <1>1, <1>4, ResetOwes
<1>5. CASE ~Write /\ ~(CheckVersion /\ Fits) /\ ~ResetPulse
  <2>1. VersionDone
    <3>1. CASE CheckVersion
      BY <1>1, <1>5, <3>1 DEF CheckVersion, Fail, AfterFailure, VersionDone
    <3>2. CASE ~CheckVersion
      BY <1>1, <1>5, <3>2
         DEF Next, Poll, Configure, Receiver, StartUpdate, Drain, Read,
             CheckPvt, SetDrain, SetWrite, SetRead, OutputNmea, AnswerPoll,
             AnswerSet, OutputTail, Ignore, Reboot, vars, Fail, AfterFailure,
             VersionDone, TypeInv, HostType
    <3>3. QED
      BY <3>1, <3>2
  <2>2. NothingNew
    BY <1>5, OrderStep DEF FixInv
  <2>3. QED
    BY <1>1, <2>1, <2>2 DEF FixInv, VersionInv, NothingNew, Polled
<1>6. QED
  BY <1>2, <1>3, <1>4, <1>5

\* The frame taken for a PVT is one, later than the last and than no other
\* that is owed.
LEMMA PvtTaken ==
  ASSUME TypeInv, FixInv, CheckPvt, Fits
  PROVE  /\ taken'.kind = "PVT" /\ taken'.id \in taken.id + 1 .. req
         /\ \E d \in Outstanding : d.kind = "PVT" /\ d.id = taken'.id
         /\ \A c \in Outstanding' : c.kind = "PVT" =>
              c.id \in taken'.id + 1 .. req
<1>1. /\ pc = "check" /\ cmd = "PVT" /\ pc' # "check"
      /\ UNCHANGED <<stream, tail, pending>>
      /\ taken' = [kind |-> Answer[1].kind, id |-> Answer[1].id]
  BY DEF CheckPvt, m10
<1>2. PICK kind \in UbxKinds : \E id \in Ids(kind) :
        /\ InHand = Frame(kind, id) /\ Size[kind] >= Size["PVT"]
        /\ Answer[1].kind = kind /\ Answer[1].id = id
  BY <1>1, TakenAnswer
<1>3. PICK id \in Ids(kind) :
        InHand = Frame(kind, id) /\ Answer[1].kind = kind /\ Answer[1].id = id
  BY <1>2
<1>4. kind \in Polled
  BY <1>2 DEF UbxKinds, Size, Polled
<1>5. PICK d \in Outstanding : d.kind = kind /\ d.id = id
  <2> DEFINE f == Frame(kind, id)
             d == Cell(kind, id, 1)
  <2>1. /\ f \in Seq(Cells) /\ 1 \in 1 .. Len(f) /\ f[1] = d
    BY FrameParts, FrameSize
  <2>2. InHand = f /\ Coming \in Seq(Cells)
    BY <1>3, LineCells
  <2>3. d.kind = kind /\ d.id = id
    BY DEF Cell
  <2> HIDE DEF f, d
  <2>4. d \in Range(f)
    BY <2>1, RangeEquality
  <2>5. d \in Range(Line)
    BY <2>1, <2>2, <2>4, RangeConcatenation DEF Line
  <2>6. QED
    BY <2>3, <2>5 DEF Outstanding
<1>6. kind = "PVT"
  BY <1>1, <1>4, <1>5 DEF FixInv, VersionInv, VersionDone, Polled
<1>7. id \in taken.id + 1 .. req
  BY <1>5, <1>6 DEF FixInv, LaterInv
<1>8. ASSUME NEW c \in Outstanding', c.kind = "PVT"
      PROVE  c.id \in id + 1 .. req
  <2>1. c \in Range(Coming) \cup Range(pending)
    BY <1>1, HandEmpty
  <2>2. id < c.id
    BY <1>3, <1>4, <1>6, <1>8, <2>1, BehindAnswer DEF FixInv
  <2>3. c \in Outstanding
    BY <1>1, <1>8, HandEmpty
  <2>4. c.id \in taken.id + 1 .. req
    BY <1>8, <2>3 DEF FixInv, LaterInv
  <2>5. taken.id \in Nat /\ req \in Nat /\ id \in Nat
    BY <1>7, LinkAssumption DEF FixInv, LaterInv, TypeInv, CountInv
  <2>6. QED
    BY <2>2, <2>4, <2>5
<1>9. taken'.kind = "PVT" /\ taken'.id = id
  BY <1>1, <1>3, <1>6
<1>10. QED
  BY <1>5, <1>6, <1>7, <1>8, <1>9

LEMMA LaterStep ==
  ASSUME TypeInv, TypeInv', FixInv, "noReset" \notin Env, [Next]_vars
  PROVE  LaterInv'
<1> USE DEF ghost, host, m10
<1>0. /\ req \in Nat /\ taken.id \in 0 .. req
      /\ taken.kind \in {"NONE", "PVT"}
      /\ \A c \in Outstanding : c.kind = "PVT" => c.id \in taken.id + 1 .. req
  BY LinkAssumption DEF FixInv, LaterInv, AcceptedIsPvt, TypeInv, CountInv
<1>1. CASE Write
  <2>1. /\ taken' = taken
        /\ req' = IF cmd = "PVT" THEN req + 1 ELSE req
    BY <1>1 DEF Write
  <2>2. ASSUME NEW c \in Outstanding', c.kind = "PVT"
        PROVE  c.id \in taken.id + 1 .. req'
    <3>1. c \in Outstanding \/ (cmd = "PVT" /\ c.id = req + 1)
      BY <1>1, <2>2, WriteOrder
    <3>2. QED
      BY <1>0, <2>1, <2>2, <3>1
  <2>3. taken.id \in 0 .. req'
    BY <1>0, <2>1
  <2>4. QED
    BY <1>0, <2>1, <2>2, <2>3 DEF LaterInv, AcceptedIsPvt
<1>2. CASE CheckPvt /\ Fits
  <2>1. req' = req
    BY <1>2 DEF CheckPvt
  <2>2. /\ taken'.kind = "PVT" /\ taken'.id \in taken.id + 1 .. req
        /\ \A c \in Outstanding' : c.kind = "PVT" =>
             c.id \in taken'.id + 1 .. req
    BY <1>2, PvtTaken
  <2>3. taken'.id \in 0 .. req'
    BY <1>0, <2>1, <2>2
  <2>4. QED
    BY <2>1, <2>2, <2>3 DEF LaterInv, AcceptedIsPvt
<1>3. CASE ~Write /\ ~(CheckPvt /\ Fits)
  <2>1. UNCHANGED <<req, taken>>
    <3>1. CASE CheckPvt
      BY <1>3, <3>1 DEF CheckPvt
    <3>2. CASE ~CheckPvt
      BY <1>3, <3>2
         DEF Next, Poll, Configure, Receiver, ResetPulse, StartUpdate, Drain,
             Read, CheckVersion, SetDrain, SetWrite, SetRead, OutputNmea,
             AnswerPoll, AnswerSet, OutputTail, Ignore, Reboot, vars
    <3>3. QED
      BY <3>1, <3>2
  <2>2. NothingNew
    BY <1>3, OrderStep DEF FixInv
  <2>3. \A c \in Outstanding' : c.kind = "PVT" =>
          c.id \in taken.id + 1 .. req
    BY <1>0, <2>2 DEF NothingNew, Polled
  <2>4. QED
    BY <1>0, <2>1, <2>3 DEF LaterInv, AcceptedIsPvt
<1>4. QED
  BY <1>1, <1>2, <1>3

LEMMA InitFix == Init => FixInv
<1> SUFFICES ASSUME Init PROVE FixInv
  OBVIOUS
<1>1. <<>> \in Seq(Cells) /\ Len(<<>>) = 0 /\ Range(<<>>) = {}
  BY EmptySeq, EmptyRange
<1>2. Line = <<>> /\ pending = <<>>
  BY <1>1, ConcatEmptySeq DEF Init, Line, Coming, InHand
<1>3. InOrder(Line, pending) /\ Outstanding = {}
  BY <1>1, <1>2 DEF InOrder, Sorted, SortedRequests, Outstanding
<1>4. LaterInv
  BY <1>3 DEF Init, LaterInv, AcceptedIsPvt, None
<1>5. QED
  BY <1>3, <1>4 DEF FixInv, VersionInv

LEMMA FixStep ==
  ASSUME TypeInv, FixInv, "noReset" \notin Env, [Next]_vars
  PROVE  TypeInv' /\ FixInv'
<1>1. TypeInv'
  BY TypeStep
<1>2. InOrder(Line', pending')
  BY <1>1, WriteOrder, OrderStep DEF FixInv
<1>3. VersionInv' /\ LaterInv'
  BY <1>1, VersionStep, LaterStep
<1>4. QED
  BY <1>1, <1>2, <1>3 DEF FixInv

\* The hypothesis of the next two theorems: M10_hw_reset works.
ResetWorks == "noReset" \notin Env

\* Answers and requests stay in order, and the version is owed once.
THEOREM FixInvariant ==
  ASSUME ResetWorks
  PROVE  Spec => [](TypeInv /\ FixInv)
<1>1. Init => TypeInv /\ FixInv
  BY InitType, InitFix
<1>2. TypeInv /\ FixInv /\ [Next]_vars => (TypeInv /\ FixInv)'
  BY FixStep DEF ResetWorks
<1>3. QED
  BY <1>1, <1>2, PTL DEF Spec

\* m10_pvt_update takes nothing else for a PVT, though it looks at length and
\* checksum only (app_m10.c:69-85): whatever is late, split, lost or refused
\* and whichever transaction fails, over any number of restarts, as long as
\* the reset pulse works.
THEOREM OnlyPvtTaken ==
  ASSUME ResetWorks
  PROVE  Spec => []AcceptedIsPvt
<1>1. FixInv => AcceptedIsPvt
  BY DEF FixInv, LaterInv
<1>2. Spec => [](TypeInv /\ FixInv)
  BY FixInvariant
<1>3. QED
  BY <1>1, <1>2, PTL

\* Under the same hypothesis the conversation implements FixFeed: each fix
\* answers a request that was made, and a later one than the fix before it.
\* To write a PVT request is to ask, to take a frame for a PVT is to take; no
\* other step touches what FixFeed speaks of.
THEOREM Refinement ==
  ASSUME ResetWorks
  PROVE  Spec => FixesAreAnswers
<1>1. Init => F!Init
  BY DEF Init, None, F!Init
<1>2. ASSUME TypeInv, FixInv, [Next]_vars
      PROVE  [F!Next]_(F!vars)
  <2> USE DEF ghost, host, m10
  <2>1. CASE Write
    BY <1>2, <2>1 DEF Write, F!Next, F!Ask, F!vars
  <2>2. CASE CheckPvt /\ Fits
    <3>1. taken'.id \in taken.id + 1 .. req
      BY <1>2, <2>2, PvtTaken
    <3>2. fixes' = fixes + 1 /\ req' = req
      BY <2>2 DEF CheckPvt
    <3>3. QED
      BY <3>1, <3>2 DEF F!Next, F!Take
  <2>3. CASE ~Write /\ ~(CheckPvt /\ Fits)
    <3>1. UNCHANGED <<req, taken, fixes>>
      <4>1. CASE CheckPvt
        BY <2>3, <4>1 DEF CheckPvt
      <4>2. CASE ~CheckPvt
        BY <1>2, <2>3, <4>2
           DEF Next, Poll, Configure, Receiver, ResetPulse, StartUpdate,
               Drain, Read, CheckVersion, SetDrain, SetWrite, SetRead,
               OutputNmea, AnswerPoll, AnswerSet, OutputTail, Ignore, Reboot,
               vars
      <4>3. QED
        BY <4>1, <4>2
    <3>2. QED
      BY <3>1 DEF F!vars
  <2>4. QED
    BY <2>1, <2>2, <2>3
<1>3. Spec => [](TypeInv /\ FixInv)
  BY FixInvariant
<1>4. QED
  BY <1>1, <1>2, <1>3, PTL DEF Spec, FixesAreAnswers, F!Spec

-----------------------------------------------------------------------------
(* A receiver that answers in time and in one piece, over a bus without    *)
(* errors; it may refuse the configuration, and the reset may fail.        *)

Prompt == Env \subseteq {"nak", "noReset"}

\* A read is the count and the data, a request arrives, an answer is whole.
LEMMA PromptRead ==
  ASSUME Prompt, NEW r \in Reads
  PROVE  /\ ~r.err /\ r.len = Count /\ r.remains = Len(Rest)
         /\ r.stream = Rest /\ r.rx = Filled
BY DEF Prompt, Reads, Outcome

LEMMA PromptAnswer ==
  ASSUME Prompt, TypeInv, tail = <<>>, NEW kind \in UbxKinds,
         NEW id \in Ids(kind), Respond(Frame(kind, id))
  PROVE  stream' = stream \o Frame(kind, id) /\ tail' = <<>>
<1> DEFINE f == Frame(kind, id)
<1>1. f \in Seq(Cells) /\ Len(f) \in Nat
  BY FrameParts, FrameSize
<1>2. "split" \notin Env
  BY DEF Prompt
<1>3. stream' = stream \o SubSeq(f, 1, Len(f))
      /\ tail' = SubSeq(f, Len(f) + 1, Len(f))
  BY <1>2 DEF Respond
<1> HIDE DEF f
<1>4. SubSeq(f, 1, Len(f)) = f
  BY <1>1, SubSeqFull
<1>5. SubSeq(f, Len(f) + 1, Len(f)) = <<>>
  <2>1. Len(f) + 1 \in Int /\ Len(f) \in Int /\ Len(f) < Len(f) + 1
    BY <1>1
  <2>2. QED
    BY <2>1, SubSeqEmpty
<1>6. QED
  BY <1>3, <1>4, <1>5 DEF f

\* A stream that fits the buffer is read whole.
LEMMA ShortRead ==
  ASSUME stream \in Seq(Cells), Len(stream) <= MaxRx
  PROVE  Count = Len(stream) /\ Len(Rest) = 0
<1>1. Len(stream) \in Nat
  BY LenProperties
<1>2. Count = Len(stream)
  <2>1. \A a, b \in Nat : a <= b => Smaller(a, b) = a
    BY DEF Smaller
  <2>2. MaxRx \in Nat
    BY DEF MaxRx
  <2>3. Smaller(Len(stream), MaxRx) = Len(stream)
    BY <1>1, <2>1, <2>2
  <2>4. QED
    BY <2>3 DEF Count
<1>3. Len(Rest) = Len(stream) - Count
  BY RestOfStream
<1>4. QED
  BY <1>1, <1>2, <1>3

\* Nothing to read: the read brings nothing and leaves nothing.
LEMMA NothingToRead ==
  ASSUME TypeInv, stream = <<>>
  PROVE  Count = 0 /\ Rest = <<>> /\ Len(Rest) = 0
<1>1. stream \in Seq(Cells) /\ Len(stream) = 0
  BY EmptySeq DEF TypeInv, LinkCells
<1>2. /\ Count \in 0 .. Len(stream)
      /\ Rest \in Seq(Cells) /\ Len(Rest) = Len(stream) - Count
  BY <1>1, RestOfStream
<1>3. Count = 0 /\ Len(Rest) = 0
  BY <1>1, <1>2
<1>4. QED
  BY <1>2, <1>3, EmptySeq

\* Start-up polls the version and fails at most once.
StartUpInv ==
  /\ pc \in {"reset", "setDrain", "setWrite", "setRead"} => cmd = "VER"
  /\ cmd = "VER" /\ pc # "failed" => result = "none"

\* After the accepted ACK the receiver and its stream are idle but for the
\* one request, or the one answer, of the poll that is under way.
PollUnderWay ==
  \/ /\ pc = "read" /\ stream = <<>>
     /\ pending = <<[kind |-> "PVT", id |-> req]>>
  \/ /\ pc = "read" /\ stream = Frame("PVT", req) /\ pending = <<>>
  \/ /\ pc = "check" /\ stream = <<>> /\ pending = <<>>
     /\ InHand = Frame("PVT", req)

ConfiguredInv ==
  acked =>
    /\ result # "failed" /\ (pc # "idle" => cmd = "PVT")
    /\ \/ pc \in {"idle", "drain", "write"} /\ stream = <<>> /\ pending = <<>>
       \/ PollUnderWay

PromptInv == tail = <<>> /\ StartUpInv /\ ConfiguredInv

LEMMA InitPrompt == Init => PromptInv
BY DEF Init, PromptInv, StartUpInv, ConfiguredInv

\* The tail stays empty, and start-up stays what it is.
LEMMA PromptTail ==
  ASSUME Prompt, TypeInv, tail = <<>>, [Next]_vars
  PROVE  tail' = <<>>
<1> USE DEF host, m10, ghost
<1>1. CASE AnswerPoll
  <2>1. /\ Head(pending).kind \in UbxKinds
        /\ Head(pending).id \in Ids(Head(pending).kind)
    BY <1>1, OldestRequest DEF AnswerPoll, TypeInv, UbxKinds
  <2>2. QED
    BY <1>1, <2>1, PromptAnswer DEF AnswerPoll
<1>2. CASE AnswerSet
  <2>1. "ACK" \in UbxKinds /\ "NAK" \in UbxKinds
        /\ 0 \in Ids("ACK") /\ 0 \in Ids("NAK")
    BY DEF UbxKinds, Ids
  <2>2. QED
    BY <1>2, <2>1, PromptAnswer DEF AnswerSet
<1>3. CASE ~AnswerPoll /\ ~AnswerSet
  BY <1>3 DEF Next, Poll, Configure, Receiver, ResetPulse, StartUpdate, Drain,
              Write, Read, CheckVersion, CheckPvt, SetDrain, SetWrite, SetRead,
              OutputNmea, OutputTail, Ignore, Reboot, vars
<1>4. QED
  BY <1>1, <1>2, <1>3

LEMMA StartUpStep ==
  ASSUME TypeInv, StartUpInv, [Next]_vars
  PROVE  StartUpInv'
BY DEF TypeInv, HostType, StartUpInv, Next, Poll, Configure, Receiver,
       ResetPulse, StartUpdate, Drain, Write, Read, CheckVersion, CheckPvt,
       SetDrain, SetWrite, SetRead, Configured, OutputNmea, AnswerPoll,
       AnswerSet, OutputTail, Ignore, Reboot, vars, Fail, AfterFailure,
       host, m10, ghost

\* The answer of the poll under way is a whole PVT: the read takes all of it,
\* and it passes the checks.
LEMMA AnswerRead ==
  ASSUME TypeInv, stream = Frame("PVT", req), req \in Ids("PVT")
  PROVE  Count = 2 /\ Len(Rest) = 0
<1>1. "PVT" \in UbxKinds /\ Size["PVT"] = 2
  BY DEF UbxKinds, Size
<1>2. stream \in Seq(Cells) /\ Len(stream) = 2
  BY <1>1, FrameParts
<1>3. Len(stream) <= MaxRx
  <2> DEFINE n == Len(stream)
  <2>1. n = 2
    BY <1>2
  <2>2. QED
    <3> HIDE DEF n
    <3>1. n <= MaxRx
      BY <2>1 DEF MaxRx
    <3>2. QED
      BY <3>1 DEF n
<1>4. QED
  BY <1>2, <1>3, ShortRead

LEMMA AnswerFits ==
  ASSUME TypeInv, pc = "check", cmd = "PVT", InHand = Frame("PVT", req),
         req \in Ids("PVT")
  PROVE  Fits
<1>1. "PVT" \in UbxKinds /\ Size["PVT"] = 2
  BY DEF UbxKinds, Size
<1>2. Len(InHand) = 2
  BY <1>1, FrameParts
<1>3. Answer = InHand /\ len = 2
  BY <1>2, HandLength DEF Answer, InHand
<1>4. VerifyMsg(Answer)
  <2>1. Len(Answer) = 2 /\ 2 < MaxRx
    BY <1>2, <1>3 DEF MaxRx
  <2>2. \E kind \in UbxKinds : \E id \in Ids(kind) :
          Answer = Frame(kind, id)
    BY <1>1, <1>3
  <2>3. QED
    BY <2>1, <2>2 DEF VerifyMsg
<1>5. QED
  BY <1>1, <1>3, <1>4 DEF Fits

LEMMA ConfiguredStep ==
  ASSUME Prompt, IInv, TypeInv, PromptInv, [Next]_vars
  PROVE  ConfiguredInv'
<1> USE DEF host, m10, ghost
<1>0. SUFFICES ASSUME acked'
               PROVE  ConfiguredInv'
  BY DEF ConfiguredInv
<1> DEFINE idle == /\ pc \in {"idle", "drain", "write"}
                   /\ stream = <<>> /\ pending = <<>>
           poll == /\ result # "failed" /\ (pc # "idle" => cmd = "PVT")
                   /\ (idle \/ PollUnderWay)
<1>1. acked => poll
  BY DEF PromptInv, ConfiguredInv
<1>2. SUFFICES poll'
  BY DEF ConfiguredInv
<1>3. ASSUME UNCHANGED <<pc, cmd, rx, len, result, stream, pending, req>>, acked
      PROVE  poll'
  BY <1>1, <1>3 DEF PollUnderWay, InHand
<1>4. acked => ~out /\ tail = <<>>
  BY DEF IInv, SilentInv, PromptInv
<1>5. pc \in {"read", "check"} /\ acked => req \in Ids("PVT")
  BY <1>1, LinkAssumption DEF TypeInv, CountInv, PollUnderWay, Ids
<1>6. CASE ResetPulse \/ Reboot
  BY <1>0, <1>6 DEF ResetPulse, Reboot, IInv, ResetInv
<1>7. CASE StartUpdate
  <2>1. acked /\ idle
    BY <1>0, <1>1, <1>7 DEF StartUpdate, PollUnderWay
  <2>2. QED
    BY <1>7, <2>1 DEF StartUpdate
<1>8. CASE Drain
  <2>1. acked /\ pc = "drain" /\ stream = <<>> /\ pending = <<>>
    BY <1>0, <1>1, <1>8 DEF Drain, PollUnderWay
  <2>2. PICK r \in Reads :
          /\ Get(r)
          /\ Drained(r) => pc' = "write"
    BY <1>8 DEF Drain
  <2>3. Drained(r) /\ stream' = <<>>
    BY <2>1, <2>2, PromptRead, NothingToRead DEF Drained, Get
  <2>4. pc' = "write" /\ UNCHANGED <<pending, cmd, result>>
    BY <1>8, <2>2, <2>3 DEF Drain
  <2>5. QED
    BY <1>1, <2>1, <2>3, <2>4
<1>9. CASE Write
  <2> DEFINE asked == [kind |-> cmd, id |-> IF cmd = "PVT" THEN req + 1 ELSE 0]
  <2>1. /\ acked /\ pc = "write" /\ stream = <<>> /\ pending = <<>>
        /\ cmd = "PVT"
    BY <1>0, <1>1, <1>9 DEF Write, PollUnderWay
  <2>2. /\ pending' = Append(pending, asked) /\ pc' = "read"
        /\ UNCHANGED <<result, stream, cmd>>
    BY <1>9 DEF Write, Prompt
  <2>3. req' = req + 1 /\ asked = [kind |-> "PVT", id |-> req + 1]
    BY <1>9, <2>1 DEF Write
  <2>4. Append(<<>>, asked) = <<asked>>
    OBVIOUS
  <2>5. pending' = <<[kind |-> "PVT", id |-> req']>>
    <3> HIDE DEF asked
    <3> QED BY <2>1, <2>2, <2>3, <2>4
  <2>6. QED
    BY <1>1, <2>1, <2>2, <2>5 DEF PollUnderWay
<1>10. CASE Read
  <2>1. acked /\ pc = "read" /\ cmd = "PVT" /\ result # "failed"
    BY <1>0, <1>1, <1>10 DEF Read
  <2>2. PICK r \in Reads :
          /\ Get(r)
          /\ \/ /\ HasAnswer(r) /\ r.remains > 0
             \/ /\ HasAnswer(r) /\ r.remains = 0
                /\ pc' = "check" /\ UNCHANGED result
             \/ /\ ~HasAnswer(r) /\ UNCHANGED <<pc, result>>
             \/ /\ ~HasAnswer(r) /\ InTime
    BY <1>10 DEF Read
  <2>3. /\ ~r.err /\ r.len = Count /\ r.remains = Len(Rest)
        /\ r.stream = Rest
    BY PromptRead
  <2>4. UNCHANGED <<cmd, req, tail, pending>>
    BY <1>10 DEF Read
  <2>5. CASE stream = <<>>
    <3>1. ~HasAnswer(r) /\ stream' = <<>>
      BY <2>2, <2>3, <2>5, NothingToRead DEF HasAnswer, Get
    <3>2. pending = <<[kind |-> "PVT", id |-> req]>>
      <4>1. stream # Frame("PVT", req)
        <5>1. "PVT" \in UbxKinds /\ Size["PVT"] = 2
          BY DEF UbxKinds, Size
        <5>2. Len(Frame("PVT", req)) = 2
          BY <1>5, <2>1, <5>1, FrameParts
        <5>3. Len(<<>>) = 0
          BY EmptySeq
        <5>4. QED
          BY <2>5, <5>2, <5>3
      <4>2. QED
        BY <1>1, <2>1, <4>1 DEF PollUnderWay
    <3>3. pending # <<>>
      BY <3>2
    <3>4. ~InTime
      BY <3>3 DEF InTime, Prompt
    <3>5. UNCHANGED <<pc, result>>
      BY <2>2, <3>1, <3>4
    <3>6. QED
      BY <2>1, <2>4, <2>5, <3>1, <3>2, <3>5 DEF PollUnderWay
  <2>6. CASE stream = Frame("PVT", req) /\ pending = <<>>
    <3>1. Count = 2 /\ Len(Rest) = 0
      BY <1>5, <2>1, <2>6, AnswerRead
    <3>2. HasAnswer(r) /\ r.remains = 0
      BY <2>3, <3>1 DEF HasAnswer
    <3>3. pc' = "check" /\ UNCHANGED result
      BY <2>2, <3>2
    <3>4. stream' = <<>> /\ InHand' = stream
      BY <2>1, <2>2, <2>3, <2>4, <3>2, <3>3, TakeAll
    <3>5. QED
      BY <2>1, <2>4, <2>6, <3>3, <3>4 DEF PollUnderWay
  <2>7. QED
    BY <1>1, <2>1, <2>5, <2>6 DEF PollUnderWay
<1>11. CASE CheckVersion
  BY <1>0, <1>1, <1>11 DEF CheckVersion
<1>12. CASE CheckPvt
  <2>1. /\ acked /\ pc = "check" /\ cmd = "PVT"
        /\ stream = <<>> /\ pending = <<>> /\ InHand = Frame("PVT", req)
    BY <1>0, <1>1, <1>12 DEF CheckPvt, PollUnderWay
  <2>2. Fits
    BY <1>5, <2>1, AnswerFits
  <2>3. pc' = "idle" /\ result' = "ok" /\ UNCHANGED <<stream, pending>>
    BY <1>12, <2>2 DEF CheckPvt
  <2>4. QED
    BY <2>1, <2>3
<1>13. CASE SetDrain \/ SetWrite
  <2>1. pc \in {"setDrain", "setWrite"} /\ (acked' => acked)
    <3>1. acked' \in {acked, FALSE}
      BY <1>13 DEF SetDrain, SetWrite, Configured
    <3>2. acked' => acked
      BY <3>1
    <3>3. pc \in {"setDrain", "setWrite"}
      BY <1>13 DEF SetDrain, SetWrite
    <3>4. QED
      BY <3>2, <3>3
  <2>2. QED
    BY <1>0, <1>1, <2>1 DEF PollUnderWay
<1>14. CASE SetRead
  <2>1. PICK r \in Reads :
          /\ Get(r)
          /\ acked' = (/\ ~r.err /\ r.remains = 0
                       /\ IsAck(SubSeq(r.rx, 1, r.len)))
    BY <1>14 DEF SetRead, Configured
  <2>2. ~r.err /\ r.remains = 0 /\ IsAck(SubSeq(r.rx, 1, r.len))
    BY <1>0, <2>1
  <2>3. stream' = <<>>
    BY <2>1, <2>2, AckTaken DEF IInv, Get
  <2>4. pending = <<>>
    BY <1>14 DEF SetRead, InTime, Prompt
  <2>5. result = "none"
    BY <1>14 DEF SetRead, PromptInv, StartUpInv
  <2>6. pc' = "idle" /\ UNCHANGED <<pending, result>>
    BY <1>14 DEF SetRead, Configured
  <2>7. QED
    BY <2>3, <2>4, <2>5, <2>6
<1>15. CASE AnswerPoll
  <2>1. acked /\ pending # <<>>
    BY <1>0, <1>15 DEF AnswerPoll
  <2> DEFINE asked == [kind |-> "PVT", id |-> req]
  <2>2. pc = "read" /\ stream = <<>> /\ pending = <<asked>>
    BY <1>1, <2>1 DEF PollUnderWay
  <2>3. /\ Head(<<asked>>) = asked /\ Tail(<<asked>>) = <<>>
        /\ asked.kind = "PVT" /\ asked.id = req
    OBVIOUS
  <2>4. Respond(Frame("PVT", req)) /\ pending' = <<>>
    <3>1. Respond(Frame(Head(pending).kind, Head(pending).id))
      BY <1>15 DEF AnswerPoll
    <3>2. Head(pending) = asked /\ pending' = <<>>
      BY <1>15, <2>2, <2>3 DEF AnswerPoll
    <3>3. QED
      BY <2>3, <3>1, <3>2
  <2>5. req \in Ids("PVT") /\ "PVT" \in UbxKinds /\ tail = <<>>
    BY <1>4, <1>5, <2>1, <2>2 DEF UbxKinds
  <2>6. stream' = <<>> \o Frame("PVT", req)
    BY <2>2, <2>4, <2>5, PromptAnswer
  <2>7. stream' = Frame("PVT", req)
    BY <2>5, <2>6, FrameParts, ConcatEmptySeq
  <2>8. UNCHANGED <<pc, cmd, result, req>>
    BY <1>15 DEF AnswerPoll
  <2>9. QED
    BY <1>1, <2>1, <2>2, <2>4, <2>7, <2>8 DEF PollUnderWay
<1>16. CASE AnswerSet
  <2>1. acked /\ pending # <<>> /\ Head(pending).kind = "SET"
    BY <1>0, <1>16 DEF AnswerSet
  <2>2. pending = <<[kind |-> "PVT", id |-> req]>>
    BY <1>1, <2>1 DEF PollUnderWay
  <2>3. Head(pending).kind = "PVT"
    BY <2>2
  <2>4. QED
    BY <2>1, <2>3
<1>17. CASE OutputNmea \/ OutputTail \/ Ignore
  BY <1>0, <1>4, <1>17 DEF OutputNmea, OutputTail, Ignore, Prompt
<1>18. CASE UNCHANGED vars
  BY <1>0, <1>3, <1>18 DEF vars
<1>19. QED
  BY <1>6, <1>7, <1>8, <1>9, <1>10, <1>11, <1>12, <1>13, <1>14, <1>15,
     <1>16, <1>17, <1>18 DEF Next, Poll, Configure, Receiver

\* A poll under way gets its answer whole, and nothing else after it.
THEOREM PromptInvariant ==
  ASSUME Prompt
  PROVE  Spec => [](TypeInv /\ PromptInv)
<1>1. Init => TypeInv /\ PromptInv
  BY InitType, InitPrompt
<1>2. IInv /\ TypeInv /\ PromptInv /\ [Next]_vars => (TypeInv /\ PromptInv)'
  BY TypeStep, PromptTail, StartUpStep, ConfiguredStep DEF PromptInv
<1>3. QED
  BY <1>1, <1>2, Invariant, PTL DEF Spec

\* With a receiver that answers in time and in one piece, and a bus without
\* errors, no PVT poll fails after a configuration that returned 0, also when
\* the receiver has refused it before and when the reset has failed
\* (app_m10.c:165-194, ubx.c:116-232).
THEOREM ConfiguredSucceeds ==
  ASSUME Prompt
  PROVE  Spec => []ConfiguredPollsSucceed
<1>1. PromptInv => ConfiguredPollsSucceed
  BY DEF PromptInv, ConfiguredInv, ConfiguredPollsSucceed
<1>2. Spec => [](TypeInv /\ PromptInv)
  BY PromptInvariant
<1>3. QED
  BY <1>1, <1>2, PTL

-----------------------------------------------------------------------------
(* A fix is fresh.  The reset works, and the reads before a request take   *)
(* more than the receiver can hold: without that a drain can end before an *)
(* answer that an earlier poll has left, and the poll takes it.            *)

Fresh ==
  /\ Env \subseteq {"nak"}
  /\ MaxStream + 3 <= DrainMax * MaxRx

\* One request is answered before the next is written, and start-up goes on
\* to the configuration only with its version answered.
PendingInv ==
  /\ Len(pending) <= 1
  /\ pc \in {"drain", "write", "setDrain", "setWrite"} => pending = <<>>
  /\ cmd = "VER" /\ pc \in {"read", "check"} /\ pending # <<>> =>
       Head(pending).kind = "VER"

\* What the receiver can hold: its text, and one answer behind it.
RoomInv ==
  /\ Len(stream) <= MaxStream + 3
  /\ pending # <<>> \/ pc \in {"write", "setWrite"} =>
       Len(stream) <= MaxStream

\* The reads that are left before the request reach an old answer.
DrainInv ==
  /\ cmd = "PVT" /\ pc = "drain" =>
       \A k \in 1 .. Len(stream) :
         stream[k].kind = "PVT" => k <= (DrainMax - i) * MaxRx
  /\ cmd = "PVT" /\ pc = "write" =>
       \A k \in 1 .. Len(stream) : stream[k].kind # "PVT"

\* What the poll may take answers its own request.
AskedInv ==
  cmd = "PVT" /\ pc \in {"read", "check"} =>
    \A c \in Outstanding : c.kind = "PVT" => c.id = req

TakenInv == result = "ok" => pc = "idle" /\ taken.id = req

FreshInv == PendingInv /\ RoomInv /\ DrainInv /\ AskedInv /\ TakenInv

LEMMA FreshIsPrompt == Fresh => Prompt /\ ResetWorks
BY DEF Fresh, Prompt, ResetWorks

LEMMA InitFresh == Init => FreshInv
<1> SUFFICES ASSUME Init PROVE FreshInv
  OBVIOUS
<1>1. Len(<<>>) = 0
  BY EmptySeq
<1>2. Len(stream) = 0 /\ Len(pending) = 0 /\ pending = <<>>
  BY <1>1 DEF Init
<1>3. RoomInv
  BY <1>2, LinkAssumption DEF Init, RoomInv
<1>4. QED
  BY <1>2, <1>3
     DEF Init, FreshInv, PendingInv, DrainInv, AskedInv, TakenInv

\* The only request there is.
LEMMA OneRequest ==
  ASSUME TypeInv, Len(pending) <= 1, pending # <<>>
  PROVE  /\ Tail(pending) = <<>> /\ Len(Tail(pending)) = 0
         /\ Head(pending) \in Range(pending)
<1>1. pending \in Seq(Request) /\ Len(pending) \in Nat
  BY LenProperties DEF TypeInv, LinkCells
<1>2. /\ Tail(pending) \in Seq(Request) /\ Len(Tail(pending)) = Len(pending) - 1
      /\ Len(pending) >= 1
  BY <1>1, HeadTailProperties, EmptySeq
<1>3. Len(Tail(pending)) = 0
  BY <1>1, <1>2
<1>4. Head(pending) = pending[1] /\ 1 \in 1 .. Len(pending)
  BY <1>1, <1>2
<1>5. QED
  BY <1>1, <1>2, <1>3, <1>4, EmptySeq, RangeEquality

LEMMA PendingStep ==
  ASSUME Fresh, TypeInv, FixInv', PendingInv, [Next]_vars
  PROVE  PendingInv'
<1> USE DEF host, m10, ghost
<1>1. CASE pending' = <<>> /\ ~Write /\ ~SetWrite
  <2>1. Len(<<>>) = 0
    BY EmptySeq
  <2>2. QED
    BY <1>1, <2>1 DEF PendingInv
<1>2. CASE ResetPulse
  <2>1. pending' = <<>> /\ ~Write /\ ~SetWrite
    BY <1>2 DEF ResetPulse, Fresh, Write, SetWrite
  <2>2. QED
    BY <1>1, <2>1
<1>3. CASE StartUpdate
  <2>1. pending' = <<>> /\ ~Write /\ ~SetWrite
    BY <1>3 DEF StartUpdate, InTime, Fresh, Write, SetWrite
  <2>2. QED
    BY <1>1, <2>1
<1>4. CASE AnswerPoll \/ AnswerSet \/ Ignore
  <2>1. pending # <<>> /\ pending' = Tail(pending)
    BY <1>4 DEF AnswerPoll, AnswerSet, Ignore
  <2>2. pending' = <<>>
    BY <2>1, OneRequest DEF PendingInv
  <2>3. ~Write /\ ~SetWrite
    BY <1>4, <2>1 DEF PendingInv, Write, SetWrite
  <2>4. QED
    BY <1>1, <2>2, <2>3
<1>5. ASSUME NEW asked, pending = <<>>, pending' = Append(pending, asked),
             pc' \in {"read", "setRead"}, pc' = "read" => asked.kind = cmd,
             cmd' = cmd
      PROVE  PendingInv'
  <2>1. Append(<<>>, asked) = <<asked>>
    OBVIOUS
  <2>2. pending' = <<asked>>
    BY <1>5, <2>1
  <2>3. Len(<<asked>>) = 1 /\ Head(<<asked>>) = asked
    OBVIOUS
  <2>4. Len(pending') = 1 /\ Head(pending') = asked
    BY <2>2, <2>3
  <2>5. QED
    BY <1>5, <2>4 DEF PendingInv
<1>6. CASE Write
  <2> DEFINE asked == [kind |-> cmd, id |-> IF cmd = "PVT" THEN req + 1 ELSE 0]
  <2>1. /\ pending = <<>> /\ pending' = Append(pending, asked)
        /\ pc' = "read" /\ cmd' = cmd
    BY <1>6 DEF Write, Fresh, PendingInv
  <2>2. asked.kind = cmd
    OBVIOUS
  <2> HIDE DEF asked
  <2>3. QED
    BY <1>5, <2>1, <2>2
<1>7. CASE SetWrite
  <2> DEFINE asked == [kind |-> "SET", id |-> 0]
  <2>1. /\ pending = <<>> /\ pending' = Append(pending, asked)
        /\ pc' = "setRead" /\ cmd' = cmd
    BY <1>7 DEF SetWrite, Fresh, PendingInv
  <2> HIDE DEF asked
  <2>2. QED
    BY <1>5, <2>1
<1>8. CASE CheckVersion
  <2>1. /\ pc = "check" /\ cmd = "VER" /\ cmd' = cmd /\ pending' = pending
        /\ pc' \in {"setDrain", "failed"}
    BY <1>8 DEF CheckVersion, Fail, AfterFailure
  <2>2. ASSUME pc' = "setDrain", pending # <<>>
        PROVE  FALSE
    <3>1. Head(pending).kind = "VER" /\ Head(pending) \in Range(pending)
      BY <2>1, <2>2, OneRequest DEF PendingInv
    <3>2. Head(pending) \in Outstanding'
      BY <2>1, <3>1 DEF Outstanding
    <3>3. VersionDone'
      BY <2>2 DEF VersionDone
    <3>4. QED
      BY <3>1, <3>2, <3>3 DEF FixInv, VersionInv
  <2>3. QED
    BY <2>1, <2>2 DEF PendingInv
<1>9. CASE Drain \/ SetDrain
  <2>1. pending = <<>> /\ pending' = pending /\ ~Write /\ ~SetWrite
    BY <1>9 DEF Drain, SetDrain, PendingInv, Write, SetWrite
  <2>2. QED
    BY <1>1, <2>1
<1>10. CASE Read
  BY <1>10 DEF Read, Fail, AfterFailure, PendingInv, TypeInv, HostType
<1>11. CASE \/ CheckPvt \/ SetRead \/ OutputNmea \/ OutputTail \/ Reboot
            \/ UNCHANGED vars
  BY <1>11 DEF CheckPvt, SetRead, Configured, OutputNmea, OutputTail, Reboot,
               vars, Fail, AfterFailure, PendingInv, TypeInv, HostType
<1>12. QED
  BY <1>2, <1>3, <1>4, <1>6, <1>7, <1>8, <1>9, <1>10, <1>11
     DEF Next, Poll, Configure, Receiver


\* A read that leaves something has filled the buffer.
LEMMA LongRead ==
  ASSUME stream \in Seq(Cells), Len(Rest) # 0
  PROVE  Count = MaxRx
<1>1. Len(stream) \in Nat /\ Len(stream) > MaxRx
  <2>1. Len(stream) \in Nat /\ MaxRx \in Nat
    BY LenProperties DEF MaxRx
  <2>2. ~(Len(stream) <= MaxRx)
    BY ShortRead
  <2>3. QED
    BY <2>1, <2>2
<1>2. \A a, b \in Nat : b < a => Smaller(a, b) = b
  BY DEF Smaller
<1>3. MaxRx \in Nat
  BY DEF MaxRx
<1>4. Smaller(Len(stream), MaxRx) = MaxRx
  BY <1>1, <1>2, <1>3
<1>5. QED
  BY <1>4 DEF Count

LEMMA ReadRoom ==
  ASSUME TypeInv, Len(stream) <= MaxStream + 3
  PROVE  Len(Rest) <= MaxStream
<1>1. /\ stream \in Seq(Cells) /\ Len(stream) \in Nat
      /\ Len(Rest) = Len(stream) - Count
  BY LenProperties, RestOfStream DEF TypeInv, LinkCells
<1>2. CASE Len(Rest) = 0
  BY <1>2, LinkAssumption
<1>3. CASE Len(Rest) # 0
  <2>1. Count = 4
    BY <1>1, <1>3, LongRead DEF MaxRx
  <2>2. QED
    BY <1>1, <2>1, LinkAssumption
<1>4. QED
  BY <1>2, <1>3

LEMMA RoomStep ==
  ASSUME Fresh, TypeInv, tail = <<>>, PendingInv, RoomInv, [Next]_vars
  PROVE  RoomInv'
<1> USE DEF host, m10, ghost
<1>0. Len(stream) \in Nat /\ MaxStream \in Nat /\ stream \in Seq(Cells)
  BY LenProperties, LinkAssumption DEF TypeInv, LinkCells
<1>1. CASE Drain \/ Read \/ SetDrain \/ SetRead
  <2>1. PICK r \in Reads : Get(r)
    BY <1>1 DEF Drain, Read, SetDrain, SetRead
  <2>2. stream' = Rest
    BY <2>1, FreshIsPrompt, PromptRead DEF Get
  <2>3. Len(Rest) <= MaxStream
    BY ReadRoom DEF RoomInv
  <2>4. Len(Rest) \in Nat
    BY <1>0, RestOfStream, LenProperties
  <2>5. Len(stream') <= MaxStream /\ Len(stream') <= MaxStream + 3
    BY <1>0, <2>2, <2>3, <2>4
  <2>6. QED
    BY <2>5 DEF RoomInv
<1>2. CASE Write \/ SetWrite
  <2>1. Len(stream) <= MaxStream /\ stream' = stream
    BY <1>2 DEF Write, SetWrite, RoomInv
  <2>2. QED
    BY <1>0, <2>1 DEF RoomInv
<1>3. CASE OutputNmea
  <2>1. Len(stream) < MaxStream /\ stream' = Append(stream, Nmea)
    BY <1>3 DEF OutputNmea
  <2>2. Len(Append(stream, Nmea)) = Len(stream) + 1
    BY <1>0, CellKinds, AppendProperties
  <2>3. Len(stream') <= MaxStream /\ Len(stream') <= MaxStream + 3
    BY <1>0, <2>1, <2>2
  <2>4. QED
    BY <2>3 DEF RoomInv
<1>4. ASSUME pending # <<>>, pending' = Tail(pending), pc' = pc,
             NEW kind \in UbxKinds, NEW id \in Ids(kind),
             Respond(Frame(kind, id))
      PROVE  RoomInv'
  <2> DEFINE f == Frame(kind, id)
  <2>1. f \in Seq(Cells) /\ Len(f) \in Nat /\ Len(f) <= 3
    <3>1. Size[kind] <= 3
      BY DEF Size, UbxKinds
    <3>2. QED
      BY <3>1, FrameParts, LenProperties
  <2>2. stream' = stream \o f
    BY <1>4, FreshIsPrompt, PromptAnswer
  <2>3. pending' = <<>>
    BY <1>4, OneRequest DEF PendingInv
  <2>4. pc' \notin {"write", "setWrite"}
    BY <1>4 DEF PendingInv
  <2>5. Len(stream) <= MaxStream
    BY <1>4 DEF RoomInv
  <2> HIDE DEF f
  <2>6. Len(stream') <= MaxStream + 3
    <3>1. Len(stream \o f) = Len(stream) + Len(f)
      BY <1>0, <2>1, ConcatProperties
    <3>2. QED
      BY <1>0, <2>1, <2>2, <2>5, <3>1
  <2>7. QED
    BY <2>3, <2>4, <2>6 DEF RoomInv
<1>5. CASE AnswerPoll
  <2>1. pending # <<>> /\ pending' = Tail(pending) /\ pc' = pc
    BY <1>5 DEF AnswerPoll
  <2>2. /\ Head(pending).kind \in UbxKinds
        /\ Head(pending).id \in Ids(Head(pending).kind)
    BY <1>5, OldestRequest DEF AnswerPoll, TypeInv, UbxKinds
  <2>3. Respond(Frame(Head(pending).kind, Head(pending).id))
    BY <1>5 DEF AnswerPoll
  <2>4. QED
    BY <1>4, <2>1, <2>2, <2>3
<1>6. CASE AnswerSet
  <2>1. pending # <<>> /\ pending' = Tail(pending) /\ pc' = pc
    BY <1>6 DEF AnswerSet
  <2>2. "ACK" \in UbxKinds /\ "NAK" \in UbxKinds
        /\ 0 \in Ids("ACK") /\ 0 \in Ids("NAK")
    BY DEF UbxKinds, Ids
  <2>3. Respond(Frame("ACK", 0)) \/ Respond(Frame("NAK", 0))
    BY <1>6 DEF AnswerSet
  <2>4. QED
    BY <1>4, <2>1, <2>2, <2>3
<1>7. CASE OutputTail \/ Ignore
  BY <1>7 DEF OutputTail, Ignore, Fresh
<1>8. CASE ResetPulse
  <2>1. stream' = <<>>
    BY <1>8 DEF ResetPulse, Fresh
  <2>2. Len(stream') = 0
    BY <2>1, EmptySeq
  <2>3. QED
    BY <1>0, <2>2 DEF RoomInv
<1>9. CASE \/ StartUpdate \/ CheckVersion \/ CheckPvt \/ Reboot
           \/ UNCHANGED vars
  <2>1. UNCHANGED <<stream, pending>>
        /\ (pc' \in {"write", "setWrite"} => pc' = pc)
    BY <1>9 DEF StartUpdate, CheckVersion, CheckPvt, Reboot, vars, Fail,
                AfterFailure
  <2>2. QED
    BY <2>1 DEF RoomInv
<1>10. QED
  BY <1>1, <1>2, <1>3, <1>5, <1>6, <1>7, <1>8, <1>9
     DEF Next, Poll, Configure, Receiver

\* The last read of a full drain reaches the end of what was there.
LEMMA DrainStep ==
  ASSUME Fresh, TypeInv, tail = <<>>, PendingInv, RoomInv, DrainInv,
         [Next]_vars
  PROVE  DrainInv'
<1> USE DEF host, m10, ghost
<1>0. /\ Len(stream) \in Nat /\ stream \in Seq(Cells)
      /\ MaxStream \in Nat /\ DrainMax \in Nat \ {0}
  BY LenProperties, LinkAssumption DEF TypeInv, LinkCells
<1>1. CASE StartUpdate
  <2>1. i' = 0 /\ stream' = stream /\ pc' = "drain"
    BY <1>1 DEF StartUpdate
  <2>2. Len(stream) <= DrainMax * MaxRx
    BY <1>0 DEF RoomInv, Fresh, MaxRx
  <2>3. \A k \in 1 .. Len(stream) : k <= (DrainMax - 0) * MaxRx
    BY <1>0, <2>2 DEF MaxRx
  <2>4. QED
    BY <2>1, <2>3 DEF DrainInv
<1>2. CASE Drain /\ cmd = "PVT"
  <2>1. PICK r \in Reads :
          /\ Get(r)
          /\ IF Drained(r) \/ Last(DrainMax)
             THEN pc' = "write" /\ i' = 0
             ELSE pc' = pc /\ i' = i + 1
    BY <1>2 DEF Drain
  <2>2. stream' = Rest /\ r.remains = Len(Rest)
    BY <2>1, FreshIsPrompt, PromptRead DEF Get
  <2>3. /\ Len(Rest) \in Nat /\ Len(Rest) = Len(stream) - Count
        /\ \A k \in 1 .. Len(Rest) : Rest[k] = stream[Count + k]
        /\ i \in 0 .. DrainMax - 1 /\ pc = "drain"
    BY <1>0, <1>2, RestOfStream, LenProperties
       DEF Drain, TypeInv, HostType
  <2>4. ASSUME NEW k \in 1 .. Len(Rest), Rest[k].kind = "PVT"
        PROVE  Len(Rest) # 0 /\ k <= (DrainMax - (i + 1)) * 4
    <3>1. Len(Rest) # 0
      BY <2>3
    <3>2. Count = 4
      BY <1>0, <3>1, LongRead DEF MaxRx
    <3>3. 4 + k \in 1 .. Len(stream) /\ stream[4 + k].kind = "PVT"
      BY <1>0, <2>3, <2>4, <3>2
    <3>4. 4 + k <= (DrainMax - i) * 4
      BY <1>2, <2>3, <3>3 DEF DrainInv, MaxRx
    <3>5. QED
      BY <1>0, <2>3, <3>1, <3>4
  <2>5. CASE Drained(r) \/ Last(DrainMax)
    <3>1. pc' = "write"
      BY <2>1, <2>5
    <3>2. \A k \in 1 .. Len(Rest) : Rest[k].kind # "PVT"
      BY <1>0, <2>2, <2>3, <2>4, <2>5 DEF Drained, Last
    <3>3. QED
      BY <2>2, <3>1, <3>2 DEF DrainInv
  <2>6. CASE ~(Drained(r) \/ Last(DrainMax))
    <3>1. pc' = "drain" /\ i' = i + 1
      BY <2>1, <2>3, <2>6
    <3>2. QED
      BY <2>2, <2>4, <3>1 DEF DrainInv, MaxRx
  <2>7. QED
    BY <2>5, <2>6
<1>3. CASE OutputNmea
  <2>1. stream' = Append(stream, Nmea) /\ UNCHANGED <<pc, cmd, i>>
    BY <1>3 DEF OutputNmea
  <2>2. /\ Len(stream') = Len(stream) + 1
        /\ \A k \in 1 .. Len(stream) : stream'[k] = stream[k]
        /\ stream'[Len(stream) + 1] = Nmea
    BY <1>0, <2>1, CellKinds, AppendProperties
  <2>3. Nmea.kind # "PVT"
    BY DEF Nmea, Cell
  <2>4. \A k \in 1 .. Len(stream') : stream'[k].kind = "PVT" =>
          k \in 1 .. Len(stream) /\ stream[k].kind = "PVT"
    BY <1>0, <2>2, <2>3
  <2>5. QED
    BY <2>1, <2>4 DEF DrainInv
<1>4. CASE AnswerPoll \/ AnswerSet \/ Ignore \/ OutputTail
  <2>1. pc \notin {"drain", "write"} /\ pc' = pc
    BY <1>4 DEF AnswerPoll, AnswerSet, Ignore, OutputTail, PendingInv
  <2>2. QED
    BY <2>1 DEF DrainInv
<1>5. CASE \/ ResetPulse \/ Write \/ Read \/ CheckVersion \/ CheckPvt
           \/ Configure \/ Reboot \/ (Drain /\ cmd # "PVT")
  BY <1>5 DEF ResetPulse, Drain, Write, Read, CheckVersion, CheckPvt,
              Configure, SetDrain, SetWrite, SetRead, Configured, Reboot,
              Fail, AfterFailure, DrainInv, TypeInv, HostType
<1>6. CASE UNCHANGED vars
  BY <1>6 DEF vars, DrainInv
<1>7. QED
  BY <1>1, <1>2, <1>3, <1>4, <1>5, <1>6 DEF Next, Poll, Configure, Receiver


LEMMA AskedStep ==
  ASSUME Fresh, TypeInv, FixInv, tail = <<>>, PendingInv, DrainInv, AskedInv,
         [Next]_vars
  PROVE  AskedInv'
<1> USE DEF host, m10, ghost
<1>1. SUFFICES ASSUME cmd' = "PVT", pc' \in {"read", "check"},
                      NEW c \in Outstanding', c.kind = "PVT"
               PROVE  c.id = req'
  BY DEF AskedInv
<1>2. TypeInv' /\ "noReset" \notin Env
  BY FixStep, FreshIsPrompt DEF ResetWorks
<1>3. CASE Write
  <2>1. pc = "write" /\ cmd = "PVT" /\ req' = req + 1
    BY <1>1, <1>3 DEF Write
  <2>2. c \in Outstanding \/ c.id = req + 1
    BY <1>1, <1>2, <1>3, <2>1, WriteOrder
  <2>3. \A d \in Range(stream) : d.kind # "PVT"
    <3>1. stream \in Seq(Cells)
      BY DEF TypeInv, LinkCells
    <3>2. \A k \in 1 .. Len(stream) : stream[k].kind # "PVT"
      BY <2>1 DEF DrainInv
    <3>3. QED
      BY <3>1, <3>2, RangeEquality
  <2>4. Line = stream
    <3>1. Line = Coming /\ Coming = stream \o <<>>
      BY <2>1, LineCells DEF Coming
    <3>2. stream \o <<>> = stream
      BY ConcatEmptySeq DEF TypeInv, LinkCells
    <3>3. QED
      BY <3>1, <3>2
  <2>5. Outstanding = Range(stream)
    BY <2>1, <2>4, EmptyRange DEF Outstanding, PendingInv
  <2>6. QED
    BY <1>1, <2>1, <2>2, <2>3, <2>5
<1>4. CASE ~Write
  <2>1. cmd = "PVT" /\ pc \in {"read", "check"} /\ req' = req
    BY <1>1, <1>4
       DEF Next, Poll, Configure, Receiver, ResetPulse, StartUpdate, Drain,
           Read, CheckVersion, CheckPvt, SetDrain, SetWrite, SetRead,
           Configured, OutputNmea, AnswerPoll, AnswerSet, OutputTail, Ignore,
           Reboot, vars, Fail, AfterFailure, TypeInv, HostType
  <2>2. NothingNew
    BY <1>2, <1>4, OrderStep DEF FixInv
  <2>3. PICK d \in Outstanding : d.kind = "PVT" /\ d.id = c.id
    BY <1>1, <2>2 DEF NothingNew, Polled
  <2>4. QED
    BY <2>1, <2>3 DEF AskedInv
<1>5. QED
  BY <1>3, <1>4

LEMMA TakenStep ==
  ASSUME TypeInv, FixInv, AskedInv, TakenInv, [Next]_vars
  PROVE  TakenInv'
<1> USE DEF host, m10, ghost
<1>1. CASE CheckPvt /\ Fits
  <2>1. /\ pc = "check" /\ cmd = "PVT" /\ pc' = "idle" /\ req' = req
    BY <1>1 DEF CheckPvt
  <2>2. PICK d \in Outstanding : d.kind = "PVT" /\ d.id = taken'.id
    BY <1>1, PvtTaken
  <2>3. d.id = req
    BY <2>1, <2>2 DEF AskedInv
  <2>4. QED
    BY <2>1, <2>2, <2>3 DEF TakenInv
<1>2. CASE ~(CheckPvt /\ Fits)
  BY <1>2
     DEF Next, Poll, Configure, Receiver, ResetPulse, StartUpdate, Drain,
         Write, Read, CheckVersion, CheckPvt, SetDrain, SetWrite, SetRead,
         Configured, OutputNmea, AnswerPoll, AnswerSet, OutputTail, Ignore,
         Reboot, vars, Fail, AfterFailure, TakenInv, TypeInv, HostType
<1>3. QED
  BY <1>1, <1>2

\* What a poll finds before it writes, it drains; what it asks for, it takes.
THEOREM FreshInvariant ==
  ASSUME Fresh
  PROVE  Spec => []FreshInv
<1>1. ASSUME TypeInv, FixInv, PromptInv, FreshInv, [Next]_vars
      PROVE  FreshInv'
  <2>1. FixInv' /\ tail = <<>>
    BY <1>1, FixStep, FreshIsPrompt DEF ResetWorks, PromptInv
  <2>2. PendingInv' /\ RoomInv' /\ DrainInv'
    BY <1>1, <2>1, PendingStep, RoomStep, DrainStep DEF FreshInv
  <2>3. AskedInv' /\ TakenInv'
    BY <1>1, <2>1, AskedStep, TakenStep DEF FreshInv
  <2>4. QED
    BY <2>2, <2>3 DEF FreshInv
<1>2. Spec => [](TypeInv /\ FixInv)
  BY FixInvariant, FreshIsPrompt
<1>3. Spec => [](TypeInv /\ PromptInv)
  BY PromptInvariant, FreshIsPrompt
<1>4. QED
  BY <1>1, <1>2, <1>3, InitFresh, PTL DEF Spec

\* With such a receiver and a reset that works, a fix that m10_pvt_update
\* takes answers the request it has just written: a failed poll's answer is
\* drained before the next (ubx.c:136-142), because the drain takes more
\* than the receiver can hold.
THEOREM FixesAreFresh ==
  ASSUME Fresh
  PROVE  Spec => []FreshFix
<1>1. FreshInv => FreshFix
  BY DEF FreshInv, TakenInv, FreshFix
<1>2. Spec => []FreshInv
  BY FreshInvariant
<1>3. QED
  BY <1>1, <1>2, PTL

=============================================================================
