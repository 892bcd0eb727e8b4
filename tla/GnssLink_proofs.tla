-------------------------- MODULE GnssLink_proofs ---------------------------
(***************************************************************************)
(* Proof that an acknowledged configuration means a silent receiver, for   *)
(* every environment and all bounds, also when the reset pulse fails.      *)
(*                                                                         *)
(* The property is about the whole stream, so the invariant is: an ACK in  *)
(* the stream means that the output is off, and no text is behind it.      *)
(***************************************************************************)
EXTENDS GnssLink, SequenceTheorems, TLAPS

\* All that the argument needs of a cell and of a request.
AnyCell    == [kind : UbxKinds \cup {"NMEA", "ZERO"}, id : Nat, part : Nat]
AnyRequest == [kind : {"VER", "PVT", "SET"}, id : Nat]

LinkType ==
  /\ stream \in Seq(AnyCell) /\ tail \in Seq(AnyCell)
  /\ rx \in Seq(AnyCell) /\ Len(rx) = MaxRx
  /\ pending \in Seq(AnyRequest)
  /\ cmd \in {"VER", "PVT"} /\ req \in Nat /\ out \in BOOLEAN

IsText(c) == c.kind = "NMEA"
IsAckCell(c) == c.kind = "ACK"
Plain(s) == \A k \in 1 .. Len(s) : ~IsText(s[k]) /\ ~IsAckCell(s[k])

\* The rest of an answer is no text, and no ACK, which comes in one piece.
TailInv == Plain(tail)

\* An ACK says that the output is off, and no text is behind it.
AckInv ==
  \A j \in 1 .. Len(stream) : IsAckCell(stream[j]) =>
    /\ ~out
    /\ \A k \in j .. Len(stream) : ~IsText(stream[k])

\* After an accepted ACK there is no text at all.
SilentInv ==
  acked => ~out /\ \A k \in 1 .. Len(stream) : ~IsText(stream[k])

ResetInv == pc = "reset" => ~acked

IInv == LinkType /\ TailInv /\ AckInv /\ SilentInv /\ ResetInv

-----------------------------------------------------------------------------
(* Reads and answers. *)

\* What a read leaves is the end of the stream.
LEMMA RestOfStream ==
  ASSUME NEW S, stream \in Seq(S)
  PROVE  /\ Count \in 0 .. Len(stream) /\ Count <= MaxRx
         /\ Rest \in Seq(S) /\ Len(Rest) = Len(stream) - Count
         /\ \A k \in 1 .. Len(Rest) : Rest[k] = stream[Count + k]
<1>1. Len(stream) \in Nat /\ \A k \in 1 .. Len(stream) : stream[k] \in S
  BY LenProperties
<1>2. Count \in 0 .. Len(stream) /\ Count <= MaxRx
  BY <1>1 DEF Count, Smaller, MaxRx
<1> DEFINE from == Count + 1
           to   == Len(stream)
<1>3. from \in Int /\ to \in Int /\ \A k \in from .. to : stream[k] \in S
  BY <1>1, <1>2
<1>4. /\ SubSeq(stream, from, to) \in Seq(S)
      /\ Len(SubSeq(stream, from, to)) = IF from <= to THEN to - from + 1 ELSE 0
      /\ \A k \in 1 .. to - from + 1 :
           SubSeq(stream, from, to)[k] = stream[from + k - 1]
  <2> HIDE DEF from, to
  <2> QED BY <1>3, SubSeqProperties
<1>5. Rest = SubSeq(stream, from, to)
  BY DEF Rest
<1>6. Len(Rest) = Len(stream) - Count
  BY <1>1, <1>2, <1>4, <1>5
<1>7. QED
  BY <1>1, <1>2, <1>4, <1>5, <1>6

\* What a read fills the buffer with is the beginning of the stream.
LEMMA FilledBuffer ==
  ASSUME NEW S, stream \in Seq(S), rx \in Seq(S), Len(rx) = MaxRx
  PROVE  /\ Filled \in Seq(S) /\ Len(Filled) = MaxRx
         /\ \A k \in 1 .. Count : Filled[k] = stream[k]
<1> DEFINE head == SubSeq(stream, 1, Count)
           rest == SubSeq(rx, Count + 1, MaxRx)
<1>1. Count \in Nat /\ Count <= Len(stream) /\ Count <= MaxRx
  BY RestOfStream, LenProperties
<1>2. \A k \in 1 .. Count : stream[k] \in S
  BY <1>1, LenProperties
<1>3. \A k \in Count + 1 .. MaxRx : rx[k] \in S
  <2>1. \A k \in 1 .. MaxRx : rx[k] \in S
    BY LenProperties
  <2>2. QED
    BY <1>1, <2>1 DEF MaxRx
<1>4. /\ head \in Seq(S)
      /\ Len(head) = IF 1 <= Count THEN Count - 1 + 1 ELSE 0
      /\ \A k \in 1 .. Count - 1 + 1 : head[k] = stream[1 + k - 1]
  <2>1. 1 \in Int /\ Count \in Int
    BY <1>1
  <2>2. QED
    BY <1>2, <2>1, SubSeqProperties
<1>5. /\ rest \in Seq(S)
      /\ Len(rest) = IF Count + 1 <= MaxRx THEN MaxRx - (Count + 1) + 1 ELSE 0
  <2>1. Count + 1 \in Int /\ MaxRx \in Int
    BY <1>1 DEF MaxRx
  <2>2. QED
    BY <1>3, <2>1, SubSeqProperties
<1>6. Len(head) = Count /\ Len(rest) = MaxRx - Count
  BY <1>1, <1>4, <1>5 DEF MaxRx
<1>7. \A k \in 1 .. Count : head[k] = stream[k]
  BY <1>1, <1>4
<1>8. /\ head \o rest \in Seq(S)
      /\ Len(head \o rest) = Len(head) + Len(rest)
      /\ \A k \in 1 .. Len(head) + Len(rest) :
           (head \o rest)[k] = IF k <= Len(head) THEN head[k]
                               ELSE rest[k - Len(head)]
  <2> HIDE DEF head, rest
  <2> QED BY <1>4, <1>5, ConcatProperties
<1>9. QED
  <2> HIDE DEF head, rest
  <2>1. Filled = head \o rest
    BY DEF Filled, head, rest
  <2>2. QED
    BY <1>1, <1>6, <1>7, <1>8, <2>1 DEF MaxRx

\* A read leaves the stream or its rest, the buffer or what was read; without
\* an error it leaves the rest, and says how much that is.
LEMMA ReadOutcome ==
  ASSUME NEW r \in Reads
  PROVE  /\ r.stream \in {stream, Rest}
         /\ r.rx \in {rx, Filled}
         /\ ~r.err => /\ r.stream = Rest /\ r.rx = Filled
                      /\ r.len = Count /\ r.remains = Len(Rest)
  BY DEF Reads, Outcome

\* A frame has a cell at least.
LEMMA FrameSize ==
  ASSUME NEW kind \in UbxKinds
  PROVE  Size[kind] \in Nat /\ Size[kind] >= 1
<1>1. CASE kind = "ACK"
  BY <1>1 DEF Size
<1>2. CASE kind = "NAK"
  BY <1>2 DEF Size
<1>3. CASE kind = "PVT"
  BY <1>3 DEF Size
<1>4. CASE kind = "VER"
  BY <1>4 DEF Size
<1>5. QED
  BY <1>1, <1>2, <1>3, <1>4 DEF UbxKinds

\* The frames of the receiver.
LEMMA FrameCells ==
  ASSUME NEW kind \in UbxKinds, NEW id \in Nat
  PROVE  /\ Frame(kind, id) \in Seq(AnyCell)
         /\ Len(Frame(kind, id)) = Size[kind]
         /\ \A k \in 1 .. Size[kind] : Frame(kind, id)[k].kind = kind
<1>1. Size[kind] \in Nat
  BY FrameSize
<1> DEFINE n == Size[kind]
           f == [p \in 1 .. n |-> [kind |-> kind, id |-> id, part |-> p]]
<1>2. f \in [1 .. n -> AnyCell]
  BY <1>1 DEF AnyCell
<1>3. f \in Seq(AnyCell)
  <2> HIDE DEF f, n
  <2>1. n \in Nat
    BY <1>1 DEF n
  <2>2. QED
    BY <1>2, <2>1, SeqDef
<1>4. DOMAIN f = 1 .. n
  OBVIOUS
<1>5. Len(f) = n
  <2> HIDE DEF f, n
  <2>1. n \in Nat /\ Len(f) \in Nat /\ DOMAIN f = 1 .. Len(f)
    BY <1>1, <1>3, LenProperties DEF n
  <2>2. QED
    BY <1>4, <2>1
<1>6. Frame(kind, id) = f
  BY DEF Frame, Cell
<1>7. \A k \in 1 .. n : f[k].kind = kind
  OBVIOUS
<1>8. QED
  <2> HIDE DEF f
  <2> QED BY <1>3, <1>5, <1>6, <1>7

\* A read that brings nothing but the ACK leaves nothing, and finds the
\* receiver switched off.
LEMMA AckTaken ==
  ASSUME LinkType, AckInv, NEW r \in Reads,
         ~r.err, r.remains = 0, IsAck(SubSeq(r.rx, 1, r.len))
  PROVE  r.stream = <<>> /\ ~out
<1>1. r.stream = Rest /\ r.rx = Filled /\ r.len = Count /\ Len(Rest) = 0
  BY ReadOutcome
<1>2. /\ Count \in Nat /\ Count <= Len(stream)
      /\ \A k \in 1 .. Count : Filled[k] = stream[k] /\ Filled[k] \in AnyCell
  BY RestOfStream, FilledBuffer, LenProperties DEF LinkType
<1> DEFINE b == SubSeq(Filled, 1, Count)
<1>3. /\ b \in Seq(AnyCell)
      /\ Len(b) = IF 1 <= Count THEN Count - 1 + 1 ELSE 0
      /\ \A k \in 1 .. Count - 1 + 1 : b[k] = Filled[1 + k - 1]
  <2>1. 1 \in Int /\ Count \in Int
    BY <1>2
  <2>2. QED
    BY <1>2, <2>1, SubSeqProperties
<1>4. VerifyMsg(b) /\ IsAckCell(b[1])
  BY <1>1 DEF IsAck, IsAckCell
<1>5. Len(b) >= 1
  <2>1. PICK kind \in UbxKinds : \E id \in Ids(kind) : b = Frame(kind, id)
    BY <1>4 DEF VerifyMsg
  <2>2. PICK id \in Ids(kind) : b = Frame(kind, id)
    BY <2>1
  <2>3. Size[kind] \in Nat /\ Size[kind] >= 1
    BY FrameSize
  <2>4. DOMAIN b = 1 .. Size[kind]
    BY <2>2 DEF Frame
  <2>5. QED
    <3> HIDE DEF b
    <3>1. DOMAIN b = 1 .. Len(b) /\ Len(b) \in Nat
      BY <1>3, LenProperties
    <3>2. 1 \in DOMAIN b
      BY <2>3, <2>4
    <3>3. QED
      BY <3>1, <3>2
<1>6. Count >= 1
  BY <1>2, <1>3, <1>5
<1>7. IsAckCell(stream[1]) /\ Len(stream) >= 1
  <2>1. b[1] = stream[1]
    BY <1>2, <1>3, <1>6
  <2>2. QED
    BY <1>2, <1>4, <1>6, <2>1
<1>8. ~out
  <2>1. 1 \in 1 .. Len(stream)
    BY <1>7, LenProperties DEF LinkType
  <2>2. QED
    BY <1>7, <2>1 DEF AckInv
<1>9. Rest = <<>>
  <2>1. Rest \in Seq(AnyCell)
    BY RestOfStream DEF LinkType
  <2>2. QED
    BY <1>1, <2>1, EmptySeq
<1>10. QED
  BY <1>1, <1>8, <1>9

-----------------------------------------------------------------------------
(* What happens to the stream. *)

\* A read drops cells at the beginning at most: what was said of the stream
\* still holds.
LEMMA ReadKeeps ==
  ASSUME LinkType, AckInv, SilentInv, NEW r \in Reads, Get(r), out' = out
  PROVE  /\ stream' \in Seq(AnyCell)
         /\ rx' \in Seq(AnyCell) /\ Len(rx') = MaxRx
         /\ AckInv'
         /\ (acked' => acked) => SilentInv'
<1>1. rx' \in Seq(AnyCell) /\ Len(rx') = MaxRx
  BY ReadOutcome, FilledBuffer DEF Get, LinkType
<1>2. /\ stream \in Seq(AnyCell) /\ Len(stream) \in Nat
      /\ Count \in 0 .. Len(stream)
      /\ Rest \in Seq(AnyCell) /\ Len(Rest) = Len(stream) - Count
      /\ \A k \in 1 .. Len(Rest) : Rest[k] = stream[Count + k]
  BY RestOfStream, LenProperties DEF LinkType
<1>3. stream' \in {stream, Rest}
  BY ReadOutcome DEF Get
<1>4. PICK n \in 0 .. Len(stream) :
        /\ stream' \in Seq(AnyCell) /\ Len(stream') = Len(stream) - n
        /\ \A k \in 1 .. Len(stream') : stream'[k] = stream[n + k]
  <2>1. CASE stream' = stream
    <3>1. /\ 0 \in 0 .. Len(stream) /\ Len(stream') = Len(stream) - 0
          /\ \A k \in 1 .. Len(stream') : stream'[k] = stream[0 + k]
      BY <1>2, <2>1
    <3>2. QED
      BY <1>2, <2>1, <3>1
  <2>2. CASE stream' = Rest
    BY <1>2, <2>2
  <2>3. QED
    BY <1>3, <2>1, <2>2
<1>5. AckInv'
  <2>1. SUFFICES ASSUME NEW j \in 1 .. Len(stream'), IsAckCell(stream'[j])
                 PROVE  /\ ~out
                        /\ \A k \in j .. Len(stream') : ~IsText(stream'[k])
    BY DEF AckInv
  <2>2. n + j \in 1 .. Len(stream) /\ IsAckCell(stream[n + j])
    BY <1>2, <1>4, <2>1
  <2>3. ~out /\ \A k \in n + j .. Len(stream) : ~IsText(stream[k])
    BY <2>2 DEF AckInv
  <2>4. ASSUME NEW k \in j .. Len(stream')
        PROVE  ~IsText(stream'[k])
    <3>1. n + k \in n + j .. Len(stream) /\ stream'[k] = stream[n + k]
      BY <1>2, <1>4
    <3>2. QED
      BY <2>3, <3>1
  <2>5. QED
    BY <2>3, <2>4
<1>6. ASSUME acked' => acked
      PROVE  SilentInv'
  <2>1. SUFFICES ASSUME acked'
                 PROVE  /\ ~out
                        /\ \A k \in 1 .. Len(stream') : ~IsText(stream'[k])
    BY DEF SilentInv
  <2>2. ~out /\ \A k \in 1 .. Len(stream) : ~IsText(stream[k])
    BY <1>6, <2>1 DEF SilentInv
  <2>3. ASSUME NEW k \in 1 .. Len(stream')
        PROVE  ~IsText(stream'[k])
    <3>1. n + k \in 1 .. Len(stream) /\ stream'[k] = stream[n + k]
      BY <1>2, <1>4
    <3>2. QED
      BY <2>2, <3>1
  <2>4. QED
    BY <2>2, <2>3
<1>7. QED
  BY <1>1, <1>4, <1>5, <1>6

\* Cells that are no text may follow, and an ACK among them when the output
\* is off.
LEMMA AppendKeeps ==
  ASSUME stream \in Seq(AnyCell), out \in BOOLEAN, AckInv, SilentInv,
         NEW s \in Seq(AnyCell), stream' = stream \o s,
         out' \in {out, FALSE}, acked' = acked,
         \A k \in 1 .. Len(s) : ~IsText(s[k]) /\ (IsAckCell(s[k]) => ~out')
  PROVE  stream' \in Seq(AnyCell) /\ AckInv' /\ SilentInv'
<1>0. ~out => ~out'
  OBVIOUS
<1>1. /\ stream' \in Seq(AnyCell) /\ Len(stream') = Len(stream) + Len(s)
      /\ \A k \in 1 .. Len(stream) + Len(s) :
           stream'[k] = IF k <= Len(stream) THEN stream[k]
                        ELSE s[k - Len(stream)]
      /\ Len(stream) \in Nat /\ Len(s) \in Nat
  BY ConcatProperties, LenProperties
<1>2. ASSUME NEW k \in 1 .. Len(stream'), k > Len(stream)
      PROVE  ~IsText(stream'[k]) /\ (IsAckCell(stream'[k]) => ~out')
  <2>1. k - Len(stream) \in 1 .. Len(s) /\ stream'[k] = s[k - Len(stream)]
    BY <1>1, <1>2
  <2>2. QED
    BY <2>1
<1>3. AckInv'
  <2>1. SUFFICES ASSUME NEW j \in 1 .. Len(stream'), IsAckCell(stream'[j])
                 PROVE  /\ ~out'
                        /\ \A k \in j .. Len(stream') : ~IsText(stream'[k])
    BY DEF AckInv
  <2>2. CASE j > Len(stream)
    <3>1. ~out'
      BY <1>2, <2>1, <2>2
    <3>2. ASSUME NEW k \in j .. Len(stream')
          PROVE  ~IsText(stream'[k])
      <4>1. k \in 1 .. Len(stream') /\ k > Len(stream)
        BY <1>1, <2>1, <2>2
      <4>2. QED
        BY <1>2, <4>1
    <3>3. QED
      BY <3>1, <3>2
  <2>3. CASE j <= Len(stream)
    <3>1. j \in 1 .. Len(stream) /\ IsAckCell(stream[j])
      BY <1>1, <2>1, <2>3
    <3>2. ~out /\ \A k \in j .. Len(stream) : ~IsText(stream[k])
      BY <3>1 DEF AckInv
    <3>3. ASSUME NEW k \in j .. Len(stream')
          PROVE  ~IsText(stream'[k])
      <4>1. CASE k > Len(stream)
        BY <1>1, <1>2, <4>1
      <4>2. CASE k <= Len(stream)
        BY <1>1, <3>2, <4>2
      <4>3. QED
        BY <1>1, <4>1, <4>2
    <3>4. QED
      BY <1>0, <3>2, <3>3
  <2>4. QED
    BY <1>1, <2>2, <2>3
<1>4. SilentInv'
  <2>1. SUFFICES ASSUME acked
                 PROVE  /\ ~out'
                        /\ \A k \in 1 .. Len(stream') : ~IsText(stream'[k])
    BY DEF SilentInv
  <2>2. ~out /\ \A k \in 1 .. Len(stream) : ~IsText(stream[k])
    BY <2>1 DEF SilentInv
  <2>3. ASSUME NEW k \in 1 .. Len(stream')
        PROVE  ~IsText(stream'[k])
    <3>1. CASE k > Len(stream)
      BY <1>2, <3>1
    <3>2. CASE k <= Len(stream)
      BY <1>1, <2>2, <3>2
    <3>3. QED
      BY <1>1, <3>1, <3>2
  <2>4. QED
    BY <1>0, <2>2, <2>3
<1>5. QED
  BY <1>1, <1>3, <1>4

\* An answer, whole or in two portions: no part of it is text, and only an
\* answer of one cell has the ACK in it.
LEMMA RespondKeeps ==
  ASSUME LinkType, AckInv, SilentInv, NEW kind \in UbxKinds, NEW id \in Nat,
         Respond(Frame(kind, id)), acked' = acked,
         out' \in {out, FALSE}, kind = "ACK" => ~out'
  PROVE  /\ stream' \in Seq(AnyCell) /\ tail' \in Seq(AnyCell)
         /\ TailInv' /\ AckInv' /\ SilentInv'
<1> DEFINE f == Frame(kind, id)
<1>1. /\ f \in Seq(AnyCell) /\ Len(f) = Size[kind]
      /\ Size[kind] \in Nat /\ Size[kind] >= 1
      /\ \A k \in 1 .. Len(f) : f[k].kind = kind /\ f[k] \in AnyCell
  <2>1. /\ f \in Seq(AnyCell) /\ Len(f) = Size[kind]
        /\ Size[kind] \in Nat /\ Size[kind] >= 1
        /\ \A k \in 1 .. Size[kind] : f[k].kind = kind
    BY FrameCells, FrameSize
  <2>2. \A k \in 1 .. Len(f) : f[k] \in AnyCell
    <3> HIDE DEF f
    <3> QED BY <2>1, ElementOfSeq
  <2>3. QED
    BY <2>1, <2>2
<1> HIDE DEF f
<1>2. PICK n \in 1 .. Len(f) :
        stream' = stream \o SubSeq(f, 1, n) /\ tail' = SubSeq(f, n + 1, Len(f))
  <2>1. PICK n \in IF "split" \in Env THEN 1 .. Len(f) ELSE {Len(f)} :
          /\ stream' = stream \o SubSeq(f, 1, n)
          /\ tail' = SubSeq(f, n + 1, Len(f))
    BY DEF Respond, f
  <2>2. n \in 1 .. Len(f)
    BY <1>1
  <2>3. QED
    BY <2>1, <2>2
<1> DEFINE s == SubSeq(f, 1, n)
<1>3. /\ s \in Seq(AnyCell)
      /\ Len(s) = n
      /\ \A k \in 1 .. n : s[k].kind = kind
  <2>1. 1 \in Int /\ n \in Int /\ \A k \in 1 .. n : f[k] \in AnyCell
    BY <1>1
  <2>2. /\ SubSeq(f, 1, n) \in Seq(AnyCell)
        /\ Len(SubSeq(f, 1, n)) = IF 1 <= n THEN n - 1 + 1 ELSE 0
        /\ \A k \in 1 .. n - 1 + 1 : SubSeq(f, 1, n)[k] = f[1 + k - 1]
    BY <2>1, SubSeqProperties
  <2>3. QED
    BY <1>1, <2>2
<1>4. /\ tail' \in Seq(AnyCell)
      /\ Len(tail') = Len(f) - n
      /\ \A k \in 1 .. Len(tail') : tail'[k].kind = kind
  <2> DEFINE from == n + 1
             to   == Len(f)
  <2>1. from \in Int /\ to \in Int /\ \A k \in from .. to : f[k] \in AnyCell
    BY <1>1
  <2>2. /\ SubSeq(f, from, to) \in Seq(AnyCell)
        /\ Len(SubSeq(f, from, to)) = IF from <= to THEN to - from + 1 ELSE 0
        /\ \A k \in 1 .. to - from + 1 :
             SubSeq(f, from, to)[k] = f[from + k - 1]
    <3> HIDE DEF from, to
    <3> QED BY <2>1, SubSeqProperties
  <2>3. tail' = SubSeq(f, from, to) /\ to - from + 1 = Len(f) - n
    BY <1>1, <1>2
  <2>4. Len(tail') = Len(f) - n
    BY <1>1, <2>2, <2>3
  <2>5. ASSUME NEW k \in 1 .. Len(tail')
        PROVE  tail'[k].kind = kind
    <3>1. from + k - 1 \in 1 .. Len(f) /\ tail'[k] = f[from + k - 1]
      BY <1>1, <2>2, <2>3, <2>4
    <3>2. QED
      BY <1>1, <3>1
  <2>6. QED
    BY <2>2, <2>3, <2>4, <2>5
<1>5. kind # "NMEA"
  BY DEF UbxKinds
<1>6. TailInv'
  <2>1. CASE kind = "ACK"
    <3>1. Len(f) = 1
      BY <1>1, <2>1 DEF Size
    <3>2. Len(tail') = 0
      BY <1>4, <3>1
    <3>3. QED
      BY <3>2 DEF TailInv, Plain
  <2>2. CASE kind # "ACK"
    BY <1>4, <1>5, <2>2 DEF TailInv, Plain, IsText, IsAckCell
  <2>3. QED
    BY <2>1, <2>2
<1>7. \A k \in 1 .. Len(s) : ~IsText(s[k]) /\ (IsAckCell(s[k]) => ~out')
  BY <1>3, <1>5 DEF IsText, IsAckCell
<1>8. stream' \in Seq(AnyCell) /\ AckInv' /\ SilentInv'
  <2>1. stream' = stream \o s /\ s \in Seq(AnyCell)
    BY <1>2, <1>3
  <2> HIDE DEF s
  <2>2. stream \in Seq(AnyCell) /\ out \in BOOLEAN
    BY DEF LinkType
  <2>3. QED
    BY <1>7, <2>1, <2>2, AppendKeeps
<1>9. QED
  BY <1>4, <1>6, <1>8

-----------------------------------------------------------------------------
(* The invariant. *)

LEMMA InitInv == Init => IInv
<1> SUFFICES ASSUME Init PROVE IInv
  OBVIOUS
<1>1. rx \in Seq(AnyCell) /\ Len(rx) = MaxRx
  <2>1. Zero \in AnyCell
    BY DEF Zero, Cell, AnyCell
  <2>2. rx \in [1 .. MaxRx -> AnyCell] /\ MaxRx \in Nat
    BY <2>1 DEF Init, MaxRx
  <2>3. rx \in Seq(AnyCell)
    BY <2>2, SeqDef
  <2>4. DOMAIN rx = 1 .. MaxRx /\ DOMAIN rx = 1 .. Len(rx) /\ Len(rx) \in Nat
    BY <2>2, <2>3, LenProperties
  <2>5. QED
    BY <2>2, <2>3, <2>4
<1>2. <<>> \in Seq(AnyCell) /\ Len(<<>>) = 0 /\ <<>> \in Seq(AnyRequest)
  BY EmptySeq
<1>3. LinkType
  BY <1>1, <1>2 DEF Init, LinkType
<1>4. TailInv /\ AckInv /\ SilentInv /\ ResetInv
  BY <1>2 DEF Init, TailInv, Plain, AckInv, SilentInv, ResetInv
<1>5. QED
  BY <1>3, <1>4 DEF IInv

\* A read that is taken for no ACK.
LEMMA PlainRead ==
  ASSUME IInv, NEW r \in Reads, Get(r), acked' => acked, pc' # "reset",
         UNCHANGED <<cmd, tail, pending, out, req>>
  PROVE  IInv'
<1>1. /\ stream' \in Seq(AnyCell) /\ rx' \in Seq(AnyCell) /\ Len(rx') = MaxRx
      /\ AckInv' /\ SilentInv'
  BY ReadKeeps DEF IInv
<1>2. LinkType'
  BY <1>1 DEF IInv, LinkType
<1>3. TailInv' /\ ResetInv'
  BY DEF IInv, TailInv, ResetInv
<1>4. QED
  BY <1>1, <1>2, <1>3 DEF IInv

\* A request goes out, or fails to.
LEMMA PlainWrite ==
  ASSUME IInv, NEW asked \in AnyRequest,
         pending' \in {pending, Append(pending, asked)},
         req' \in {req, req + 1}, acked' => acked, pc' # "reset",
         UNCHANGED <<cmd, rx, stream, tail, out>>
  PROVE  IInv'
<1>1. pending' \in Seq(AnyRequest)
  <2>1. pending \in Seq(AnyRequest)
    BY DEF IInv, LinkType
  <2>2. Append(pending, asked) \in Seq(AnyRequest)
    BY <2>1, AppendProperties
  <2>3. QED
    BY <2>1, <2>2
<1>2. LinkType'
  BY <1>1 DEF IInv, LinkType
<1>3. TailInv' /\ AckInv' /\ SilentInv' /\ ResetInv'
  BY DEF IInv, TailInv, AckInv, SilentInv, ResetInv
<1>4. QED
  BY <1>2, <1>3 DEF IInv

\* The receiver has dealt with the oldest request.
LEMMA NextRequest ==
  ASSUME LinkType, pending # <<>>
  PROVE  Head(pending) \in AnyRequest /\ Tail(pending) \in Seq(AnyRequest)
BY HeadTailProperties DEF LinkType

LEMMA NextInv ==
  ASSUME IInv, [Next]_vars
  PROVE  IInv'
<1> USE DEF host, m10, ghost
<1>1. CASE ResetPulse
  <2>1. CASE stream' = <<>> /\ tail' = <<>> /\ pending' = <<>> /\ out' = TRUE
    <3>1. <<>> \in Seq(AnyCell) /\ Len(<<>>) = 0 /\ <<>> \in Seq(AnyRequest)
      BY EmptySeq
    <3>2. LinkType'
      BY <1>1, <2>1, <3>1 DEF ResetPulse, IInv, LinkType
    <3>3. TailInv' /\ AckInv'
      BY <2>1, <3>1 DEF TailInv, Plain, AckInv
    <3>4. SilentInv' /\ ResetInv'
      BY <1>1 DEF ResetPulse, IInv, ResetInv, SilentInv
    <3>5. QED
      BY <3>2, <3>3, <3>4 DEF IInv
  <2>2. CASE UNCHANGED m10
    <3>1. LinkType'
      BY <1>1, <2>2 DEF ResetPulse, IInv, LinkType
    <3>2. TailInv' /\ AckInv' /\ SilentInv' /\ ResetInv'
      BY <1>1, <2>2 DEF ResetPulse, IInv, TailInv, AckInv, SilentInv, ResetInv
    <3>3. QED
      BY <3>1, <3>2 DEF IInv
  <2>3. QED
    BY <1>1, <2>1, <2>2 DEF ResetPulse
<1>2. CASE StartUpdate
  <2>1. LinkType'
    BY <1>2 DEF StartUpdate, IInv, LinkType
  <2>2. TailInv' /\ AckInv' /\ SilentInv' /\ ResetInv'
    BY <1>2 DEF StartUpdate, IInv, TailInv, AckInv, SilentInv, ResetInv
  <2>3. QED
    BY <2>1, <2>2 DEF IInv
<1>3. CASE Drain
  <2>1. PICK r \in Reads : Get(r) /\ pc' \in {"write", "drain"}
    BY <1>3 DEF Drain
  <2>2. UNCHANGED <<acked, cmd, tail, pending, out, req>>
    BY <1>3 DEF Drain
  <2>3. QED
    BY <2>1, <2>2, PlainRead
<1>4. CASE Write
  <2> DEFINE asked == [kind |-> cmd, id |-> IF cmd = "PVT" THEN req + 1 ELSE 0]
  <2>1. asked \in AnyRequest
    BY DEF IInv, LinkType, AnyRequest
  <2>2. pending' \in {pending, Append(pending, asked)}
    BY <1>4 DEF Write
  <2>3. /\ pc' # "reset" /\ req' \in {req, req + 1}
        /\ UNCHANGED <<acked, cmd, rx, stream, tail, out>>
    BY <1>4 DEF Write, Fail, AfterFailure
  <2>4. QED
    <3> HIDE DEF asked
    <3> QED BY <2>1, <2>2, <2>3, PlainWrite
<1>5. CASE Read
  <2>1. PICK r \in Reads :
          Get(r) /\ pc' \in {"read", "check", AfterFailure(cmd)}
    BY <1>5 DEF Read, Fail
  <2>2. UNCHANGED <<acked, cmd, tail, pending, out, req>>
    BY <1>5 DEF Read
  <2>3. pc' # "reset"
    BY <2>1 DEF AfterFailure
  <2>4. QED
    BY <2>1, <2>2, <2>3, PlainRead
<1>6. CASE CheckVersion \/ CheckPvt
  <2>1. /\ UNCHANGED <<acked, cmd, rx, stream, tail, pending, out, req>>
        /\ pc' # "reset"
    BY <1>6 DEF CheckVersion, CheckPvt, Fail, AfterFailure
  <2>2. LinkType'
    BY <2>1 DEF IInv, LinkType
  <2>3. TailInv' /\ AckInv' /\ SilentInv' /\ ResetInv'
    BY <2>1 DEF IInv, TailInv, AckInv, SilentInv, ResetInv
  <2>4. QED
    BY <2>2, <2>3 DEF IInv
<1>7. CASE SetDrain
  <2>1. PICK r \in Reads :
          /\ Get(r) /\ pc' \in {"setDrain", "setWrite", "idle"}
          /\ acked' \in {acked, FALSE}
    BY <1>7 DEF SetDrain, Configured
  <2>2. UNCHANGED <<cmd, tail, pending, out, req>>
    BY <1>7 DEF SetDrain
  <2>3. (acked' => acked) /\ pc' # "reset"
    <3>1. acked' => acked
      BY <2>1
    <3>2. pc' # "reset"
      BY <2>1
    <3>3. QED
      BY <3>1, <3>2
  <2>4. QED
    BY <2>1, <2>2, <2>3, PlainRead
<1>8. CASE SetWrite
  <2> DEFINE asked == [kind |-> "SET", id |-> 0]
  <2>1. asked \in AnyRequest
    BY DEF AnyRequest
  <2>2. /\ pending' \in {pending, Append(pending, asked)}
        /\ acked' \in {acked, FALSE} /\ pc' \in {"setRead", "idle"}
    BY <1>8 DEF SetWrite, Configured
  <2>3. (acked' => acked) /\ pc' # "reset"
    <3>1. acked' => acked
      BY <2>2
    <3>2. pc' # "reset"
      BY <2>2
    <3>3. QED
      BY <3>1, <3>2
  <2>4. UNCHANGED <<req, cmd, rx, stream, tail, out>>
    BY <1>8 DEF SetWrite
  <2>5. QED
    <3> HIDE DEF asked
    <3> QED BY <2>1, <2>2, <2>3, <2>4, PlainWrite
<1>9. CASE SetRead
  <2>1. PICK r \in Reads :
          /\ Get(r) /\ pc' = "idle"
          /\ acked' = (/\ ~r.err /\ r.remains = 0
                       /\ IsAck(SubSeq(r.rx, 1, r.len)))
    BY <1>9 DEF SetRead, Configured
  <2>2. UNCHANGED <<cmd, tail, pending, out, req>>
    BY <1>9 DEF SetRead
  <2>3. /\ stream' \in Seq(AnyCell) /\ rx' \in Seq(AnyCell) /\ Len(rx') = MaxRx
        /\ AckInv'
    BY <2>1, <2>2, ReadKeeps DEF IInv
  <2>4. SilentInv'
    <3>1. CASE acked'
      <4>1. ~r.err /\ r.remains = 0 /\ IsAck(SubSeq(r.rx, 1, r.len))
        BY <2>1, <3>1
      <4>2. r.stream = <<>> /\ ~out
        BY <4>1, AckTaken DEF IInv
      <4>3. stream' = <<>> /\ ~out'
        BY <2>1, <2>2, <4>2 DEF Get
      <4>4. Len(stream') = 0
        BY <4>3, EmptySeq
      <4>5. QED
        BY <4>3, <4>4 DEF SilentInv
    <3>2. QED
      BY <3>1 DEF SilentInv
  <2>5. LinkType'
    BY <2>2, <2>3 DEF IInv, LinkType
  <2>6. TailInv' /\ ResetInv'
    BY <2>1, <2>2 DEF IInv, TailInv, ResetInv
  <2>7. QED
    BY <2>3, <2>4, <2>5, <2>6 DEF IInv
<1>10. CASE OutputNmea
  <2>1. /\ out /\ stream' = Append(stream, Nmea)
        /\ UNCHANGED <<tail, pending, out, host, req>>
    BY <1>10 DEF OutputNmea
  <2>2. Nmea \in AnyCell
    BY DEF Nmea, Cell, AnyCell
  <2>3. /\ stream' \in Seq(AnyCell) /\ Len(stream') = Len(stream) + 1
        /\ \A k \in 1 .. Len(stream) : stream'[k] = stream[k]
        /\ stream'[Len(stream) + 1] = Nmea
        /\ Len(stream) \in Nat
    BY <2>1, <2>2, AppendProperties, LenProperties DEF IInv, LinkType
  <2>4. AckInv'
    <3>1. SUFFICES ASSUME NEW j \in 1 .. Len(stream'), IsAckCell(stream'[j])
                   PROVE  FALSE
      BY DEF AckInv
    <3>2. CASE j = Len(stream) + 1
      BY <2>3, <3>1, <3>2 DEF IsAckCell, Nmea, Cell
    <3>3. CASE j \in 1 .. Len(stream)
      BY <2>1, <2>3, <3>1, <3>3 DEF IInv, AckInv
    <3>4. QED
      BY <2>3, <3>2, <3>3
  <2>5. SilentInv' /\ TailInv' /\ ResetInv'
    BY <2>1 DEF IInv, SilentInv, TailInv, ResetInv
  <2>6. LinkType'
    BY <2>1, <2>3 DEF IInv, LinkType
  <2>7. QED
    BY <2>4, <2>5, <2>6 DEF IInv
<1>11. CASE AnswerPoll
  <2>1. /\ pending # <<>> /\ pending' = Tail(pending)
        /\ Head(pending).kind # "SET"
        /\ Respond(Frame(Head(pending).kind, Head(pending).id))
        /\ UNCHANGED <<pc, cmd, rx, acked, out, req>>
    BY <1>11 DEF AnswerPoll
  <2>2. Head(pending) \in AnyRequest /\ Tail(pending) \in Seq(AnyRequest)
    BY <2>1, NextRequest DEF IInv
  <2>3. Head(pending).kind \in {"VER", "PVT"} /\ Head(pending).id \in Nat
    BY <2>1, <2>2 DEF AnyRequest
  <2> DEFINE kind == Head(pending).kind
             id   == Head(pending).id
  <2>4. kind \in UbxKinds /\ kind # "ACK"
    BY <2>3 DEF UbxKinds
  <2>5. /\ stream' \in Seq(AnyCell) /\ tail' \in Seq(AnyCell)
        /\ TailInv' /\ AckInv' /\ SilentInv'
    <3> HIDE DEF kind, id
    <3>1. id \in Nat /\ Respond(Frame(kind, id))
      BY <2>1, <2>3 DEF kind, id
    <3>2. out' \in {out, FALSE} /\ acked' = acked
      BY <2>1
    <3>3. QED
      BY <2>4, <3>1, <3>2, RespondKeeps DEF IInv
  <2>6. LinkType' /\ ResetInv'
    BY <2>1, <2>2, <2>5 DEF IInv, LinkType, ResetInv
  <2>7. QED
    BY <2>5, <2>6 DEF IInv
<1>12. CASE AnswerSet
  <2>1. /\ pending # <<>> /\ pending' = Tail(pending)
        /\ UNCHANGED <<pc, cmd, rx, acked, req>>
    BY <1>12 DEF AnswerSet
  <2>2. Tail(pending) \in Seq(AnyRequest)
    BY <2>1, NextRequest DEF IInv
  <2>3. PICK kind \in {"ACK", "NAK"} :
          /\ Respond(Frame(kind, 0))
          /\ out' \in {out, FALSE} /\ (kind = "ACK" => ~out')
    BY <1>12 DEF AnswerSet
  <2>4. kind \in UbxKinds /\ 0 \in Nat
    BY DEF UbxKinds
  <2>5. /\ stream' \in Seq(AnyCell) /\ tail' \in Seq(AnyCell)
        /\ TailInv' /\ AckInv' /\ SilentInv'
    BY <2>1, <2>3, <2>4, RespondKeeps DEF IInv
  <2>6. out' \in BOOLEAN
    BY <2>3 DEF IInv, LinkType
  <2>7. LinkType' /\ ResetInv'
    BY <2>1, <2>2, <2>5, <2>6 DEF IInv, LinkType, ResetInv
  <2>8. QED
    BY <2>5, <2>7 DEF IInv
<1>13. CASE OutputTail
  <2>1. /\ stream' = stream \o tail /\ tail' = <<>>
        /\ UNCHANGED <<pending, out, pc, cmd, rx, acked, req>>
    BY <1>13 DEF OutputTail
  <2>2. /\ stream \in Seq(AnyCell) /\ tail \in Seq(AnyCell) /\ out \in BOOLEAN
        /\ AckInv /\ SilentInv
        /\ \A k \in 1 .. Len(tail) : ~IsText(tail[k]) /\ ~IsAckCell(tail[k])
    BY DEF IInv, LinkType, TailInv, Plain
  <2>3. out' \in {out, FALSE} /\ acked' = acked
    BY <2>1
  <2>4. stream' \in Seq(AnyCell) /\ AckInv' /\ SilentInv'
    BY <2>1, <2>2, <2>3, AppendKeeps
  <2>5. tail' \in Seq(AnyCell) /\ Len(tail') = 0
    BY <2>1, EmptySeq
  <2>6. LinkType'
    BY <2>1, <2>4, <2>5 DEF IInv, LinkType
  <2>7. TailInv' /\ ResetInv'
    BY <2>1, <2>5 DEF IInv, TailInv, Plain, ResetInv
  <2>8. QED
    BY <2>4, <2>6, <2>7 DEF IInv
<1>14. CASE Ignore
  <2>1. /\ pending # <<>> /\ pending' = Tail(pending)
        /\ UNCHANGED <<stream, tail, out, pc, cmd, rx, acked, req>>
    BY <1>14 DEF Ignore
  <2>2. pending' \in Seq(AnyRequest)
    BY <2>1, NextRequest DEF IInv
  <2>3. LinkType'
    BY <2>1, <2>2 DEF IInv, LinkType
  <2>4. TailInv' /\ AckInv' /\ SilentInv' /\ ResetInv'
    BY <2>1 DEF IInv, TailInv, AckInv, SilentInv, ResetInv
  <2>5. QED
    BY <2>3, <2>4 DEF IInv
<1>15. CASE Reboot
  <2>1. /\ acked' = FALSE /\ cmd' = "VER"
        /\ rx' = [k \in 1 .. MaxRx |-> Zero]
        /\ UNCHANGED <<stream, tail, pending, out, req>>
    BY <1>15 DEF Reboot
  <2>2. rx' \in Seq(AnyCell) /\ Len(rx') = MaxRx
    <3>1. Zero \in AnyCell
      BY DEF Zero, Cell, AnyCell
    <3>2. rx' \in [1 .. MaxRx -> AnyCell] /\ MaxRx \in Nat
      BY <2>1, <3>1 DEF MaxRx
    <3>3. rx' \in Seq(AnyCell)
      BY <3>2, SeqDef
    <3>4. /\ DOMAIN rx' = 1 .. MaxRx /\ DOMAIN rx' = 1 .. Len(rx')
          /\ Len(rx') \in Nat
      BY <3>2, <3>3, LenProperties
    <3>5. QED
      BY <3>2, <3>3, <3>4
  <2>3. LinkType'
    BY <2>1, <2>2 DEF IInv, LinkType
  <2>4. TailInv' /\ AckInv' /\ SilentInv' /\ ResetInv'
    BY <2>1 DEF IInv, TailInv, AckInv, SilentInv, ResetInv
  <2>5. QED
    BY <2>3, <2>4 DEF IInv
<1>16. CASE UNCHANGED vars
  <2>1. LinkType'
    BY <1>16 DEF vars, IInv, LinkType
  <2>2. TailInv' /\ AckInv' /\ SilentInv' /\ ResetInv'
    BY <1>16 DEF vars, IInv, TailInv, AckInv, SilentInv, ResetInv
  <2>3. QED
    BY <2>1, <2>2 DEF IInv
<1>17. QED
  BY <1>1, <1>2, <1>3, <1>4, <1>5, <1>6, <1>7, <1>8, <1>9, <1>10, <1>11,
     <1>12, <1>13, <1>14, <1>15, <1>16 DEF Next, Poll, Configure, Receiver

\* The inductive invariant holds throughout the conversation with the
\* receiver, whatever of Env goes wrong.
THEOREM Invariant == Spec => []IInv
<1>1. Init => IInv
  BY InitInv
<1>2. IInv /\ [Next]_vars => IInv'
  BY NextInv
<1>3. QED
  BY <1>1, <1>2, PTL DEF Spec

\* Once app_m10_configure_valset has returned 0, the receiver outputs nothing
\* unasked and none of its text is left (app_m10.c:165-194, ubx.c:199-232):
\* for any bounds and any of the troubles, also when the reset pulse of
\* M10_hw_reset fails and an answer from before a restart is still to come.
THEOREM ConfiguredIsSilent == Spec => []SilentOnceAcked
<1>1. IInv => SilentOnceAcked
  BY DEF IInv, SilentInv, SilentOnceAcked, IsText, Nmea, Cell
<1>2. QED
  BY <1>1, Invariant, PTL

=============================================================================
