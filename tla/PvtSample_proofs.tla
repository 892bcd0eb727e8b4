-------------------------- MODULE PvtSample_proofs --------------------------
(***************************************************************************)
(* Proofs about the sample: that the phone is told what the receiver said  *)
(* and sees the motion it measured, and that the encoder fits its buffer   *)
(* and says where its fields are, for every measurement, every mask of     *)
(* features, every combination of flags and every MTU; and which C         *)
(* structures may be cast onto a message at all.                           *)
(*                                                                         *)
(* The model's recursive functions over the fields of a structure are      *)
(* solved for every structure, by induction over its fields.  Those over   *)
(* the 33 fields of NAV-PVT and the seven of the characteristic are        *)
(* evaluated by a table that satisfies their equation.                     *)
(***************************************************************************)
EXTENDS PvtSample, SequenceTheorems, WellFoundedInduction, TLAPS

-----------------------------------------------------------------------------
(* Induction.  The rules of the library take an operator; these take a set. *)

\* A set of natural numbers has a least element.
LEMMA LeastElement ==
  ASSUME NEW S, S \subseteq Nat, S # {}
  PROVE  \E n \in S : \A m \in S : n <= m
<1> DEFINE R == OpToRel(<, Nat)
<1>1. IsWellFoundedOn(R, Nat)
  BY NatLessThanWellFounded
<1>2. \A m, n \in Nat : m < n => <<m, n>> \in R
  BY DEF OpToRel
<1> HIDE DEF R
<1>3. \E n \in S : \A m \in S : ~(<<m, n>> \in R)
  BY <1>1, WFMin
<1>4. PICK n \in S : \A m \in S : ~(<<m, n>> \in R)
  BY <1>3
<1>5. \A m \in S : ~(m < n)
  BY <1>2, <1>4
<1>6. n \in Nat /\ \A m \in S : m \in Nat
  OBVIOUS
<1>7. \A m \in S : n <= m
  BY <1>5, <1>6
<1> QED
  BY <1>7

\* A set that has 0, and n + 1 if it has n, has them all.
LEMMA Induction ==
  ASSUME NEW S, 0 \in S, \A n \in Nat : n \in S => n + 1 \in S
  PROVE  \A n \in Nat : n \in S
<1> DEFINE C == Nat \ S
<1>1. C = {} \/ \E n \in C : \A m \in C : n <= m
  BY LeastElement
<1>2. ASSUME NEW n \in C, \A m \in C : n <= m
      PROVE  FALSE
  <2>1. n - 1 \in Nat /\ n - 1 \notin C
    BY <1>2
  <2> QED
    BY <1>2, <2>1
<1> QED
  BY <1>1, <1>2

\* A recursion over the places of a structure has a solution.
LEMMA Recursion ==
  ASSUME NEW n \in Nat, NEW step \in [Nat \X (1 .. n) -> Nat]
  PROVE  \E e \in [0 .. n -> Nat] :
           /\ e[0] = 0
           /\ \A k \in 1 .. n : e[k] = step[<<e[k - 1], k>>]
<1> DEFINE
      Solves(e, m) == /\ e \in [0 .. m -> Nat]
                      /\ e[0] = 0
                      /\ \A k \in 1 .. m : e[k] = step[<<e[k - 1], k>>]
      S == {m \in Nat : m <= n => \E e : Solves(e, m)}
<1>1. 0 \in S
  <2>1. Solves([k \in {0} |-> 0], 0)
    OBVIOUS
  <2> HIDE DEF Solves
  <2> QED
    BY <2>1
<1>2. ASSUME NEW m \in Nat, m \in S
      PROVE  m + 1 \in S
  <2>1. SUFFICES ASSUME m + 1 <= n
                 PROVE  \E e : Solves(e, m + 1)
    <3> HIDE DEF Solves
    <3> QED
      OBVIOUS
  <2>2. PICK e : Solves(e, m)
    <3> HIDE DEF Solves
    <3> QED
      BY <1>2, <2>1
  <2> DEFINE f == [k \in 0 .. m + 1 |->
                     IF k <= m THEN e[k] ELSE step[<<e[m], m + 1>>]]
  <2>3. e[m] \in Nat /\ m + 1 \in 1 .. n
    BY <2>1, <2>2
  <2>4. step[<<e[m], m + 1>>] \in Nat
    BY <2>3
  <2>5. f \in [0 .. m + 1 -> Nat]
    BY <2>2, <2>4
  <2>6. f[0] = 0
    BY <2>2
  <2>7. ASSUME NEW k \in 1 .. m + 1
        PROVE  f[k] = step[<<f[k - 1], k>>]
    <3>1. CASE k <= m
      BY <2>2, <3>1
    <3>2. CASE k = m + 1
      <4>1. k - 1 = m /\ m \in 0 .. m + 1 /\ k \in 0 .. m + 1 /\ ~(k <= m)
        BY <3>2
      <4>2. f[m] = e[m] /\ f[m + 1] = step[<<e[m], m + 1>>]
        OBVIOUS
      <4> QED
        BY <3>2, <4>1, <4>2
    <3> QED
      BY <3>1, <3>2
  <2> HIDE DEF f
  <2>8. Solves(f, m + 1)
    BY <2>5, <2>6, <2>7
  <2> HIDE DEF Solves
  <2> QED
    BY <2>8
<1>3. \A m \in Nat : m \in S
  <2> HIDE DEF S
  <2> QED
    BY <1>1, <1>2, Induction
<1>4. \E e : Solves(e, n)
  <2> HIDE DEF Solves
  <2> QED
    BY <1>3
<1> QED
  BY <1>4
\* Its values are natural numbers as long as each follows from the last.
LEMMA StaysNatural ==
  ASSUME NEW n \in Nat, NEW e, e = [k \in 0 .. n |-> e[k]], e[0] \in Nat,
         \A k \in 1 .. n : e[k - 1] \in Nat => e[k] \in Nat
  PROVE  e \in [0 .. n -> Nat]
<1> DEFINE S == {k \in Nat : k <= n => e[k] \in Nat}
<1>1. 0 \in S
  OBVIOUS
<1>2. ASSUME NEW k \in Nat, k \in S
      PROVE  k + 1 \in S
  <2>1. CASE k + 1 <= n
    <3>1. k + 1 \in 1 .. n /\ e[k] \in Nat /\ (k + 1) - 1 = k
      BY <1>2, <2>1
    <3> QED
      BY <3>1
  <2> QED
    BY <2>1
<1>3. \A k \in Nat : k \in S
  <2> HIDE DEF S
  <2> QED
    BY <1>1, <1>2, Induction
<1>4. \A k \in 0 .. n : e[k] \in Nat
  BY <1>3
<1> QED
  BY <1>4
-----------------------------------------------------------------------------
(* When a cast to a structure reads what the message has.                  *)

\* A list of fields of the C types of the headers.
IsStructure(fields) ==
  /\ Len(fields) \in Nat /\ DOMAIN fields = 1 .. Len(fields)
  /\ \A k \in DOMAIN fields :
       fields[k].size \in {1, 2, 4, 8} /\ fields[k].count \in Nat

\* Aligning keeps exactly the multiples.
LEMMA Aligned ==
  ASSUME NEW o \in Nat, NEW s \in {1, 2, 4, 8}
  PROVE  AlignUp(o, s) \in Nat /\ (AlignUp(o, s) = o <=> o % s = 0)
<1>1. CASE s = 1
  BY <1>1 DEF AlignUp
<1>2. CASE s = 2
  BY <1>2 DEF AlignUp
<1>3. CASE s = 4
  BY <1>3 DEF AlignUp
<1>4. CASE s = 8
  BY <1>4 DEF AlignUp
<1> QED
  BY <1>1, <1>2, <1>3, <1>4

\* A field is some number of bytes wide.
LEMMA WidthType ==
  ASSUME NEW fields, IsStructure(fields), NEW k \in DOMAIN fields
  PROVE  Width(fields[k]) \in Nat
<1>1. \A a, b \in Nat : a * b \in Nat
  OBVIOUS
<1>2. fields[k].size \in Nat /\ fields[k].count \in Nat
  BY DEF IsStructure
<1> QED
  BY <1>1, <1>2 DEF Width

\* The ends of the fields in C are what their recursion says.
LEMMA EndsRules ==
  ASSUME NEW fields, IsStructure(fields)
  PROVE  /\ Ends(fields) \in [0 .. Len(fields) -> Nat]
         /\ Ends(fields)[0] = 0
         /\ \A k \in 1 .. Len(fields) :
              Ends(fields)[k] = AlignUp(Ends(fields)[k - 1], fields[k].size)
                                + Width(fields[k])
<1> DEFINE
      n == Len(fields)
      next(o, k) == AlignUp(o, fields[k].size) + Width(fields[k])
      step == [p \in Nat \X (1 .. n) |-> next(p[1], p[2])]
      layout(e) == [k \in 0 .. n |-> IF k = 0 THEN 0 ELSE next(e[k - 1], k)]
<1>1. n \in Nat /\ DOMAIN fields = 1 .. n
  BY DEF IsStructure
<1>2. \A o \in Nat, k \in 1 .. n : next(o, k) \in Nat
  <2> SUFFICES ASSUME NEW o \in Nat, NEW k \in 1 .. n
               PROVE  next(o, k) \in Nat
    OBVIOUS
  <2>1. fields[k].size \in {1, 2, 4, 8}
    BY <1>1 DEF IsStructure
  <2>2. AlignUp(o, fields[k].size) \in Nat
    BY <2>1, Aligned
  <2>3. Width(fields[k]) \in Nat
    BY <1>1, WidthType
  <2> QED
    BY <2>2, <2>3
<1>3. Ends(fields) = CHOOSE e : e = layout(e)
  BY DEF Ends
<1> HIDE DEF n, next
<1>4. step \in [Nat \X (1 .. n) -> Nat]
  BY <1>2
<1>5. \A o \in Nat, k \in 1 .. n : step[<<o, k>>] = next(o, k)
  OBVIOUS
<1> HIDE DEF step
<1>6. PICK t \in [0 .. n -> Nat] :
        /\ t[0] = 0
        /\ \A k \in 1 .. n : t[k] = step[<<t[k - 1], k>>]
  BY <1>1, <1>4, Recursion
<1>7. t = layout(t)
  <2>1. \A k \in 1 .. n : k - 1 \in 0 .. n /\ t[k - 1] \in Nat
    BY <1>1
  <2>2. \A k \in 1 .. n : t[k] = next(t[k - 1], k)
    BY <1>5, <1>6, <2>1
  <2>3. \A k \in 0 .. n : t[k] = IF k = 0 THEN 0 ELSE next(t[k - 1], k)
    BY <1>1, <1>6, <2>2
  <2> QED
    BY <1>6, <2>3
<1> DEFINE end == CHOOSE e : e = layout(e)
<1>8. end = layout(end)
  BY <1>7
<1> HIDE DEF end
<1>9. /\ end[0] = 0
      /\ \A k \in 1 .. n : end[k] = next(end[k - 1], k)
      /\ DOMAIN end = 0 .. n
  BY <1>1, <1>8
<1>10. \A k \in 1 .. n : end[k - 1] \in Nat => end[k] \in Nat
  BY <1>2, <1>9
<1>11. end = [k \in 0 .. n |-> end[k]] /\ end[0] \in Nat
  BY <1>8, <1>9
<1>12. end \in [0 .. n -> Nat]
  BY <1>1, <1>10, <1>11, StaysNatural
<1> QED
  BY <1>3, <1>9, <1>12 DEF end, n, next

\* So are the ends of the fields in the message.
LEMMA WireRules ==
  ASSUME NEW fields, IsStructure(fields)
  PROVE  /\ WireEnds(fields) \in [0 .. Len(fields) -> Nat]
         /\ WireEnds(fields)[0] = 0
         /\ \A k \in 1 .. Len(fields) :
              WireEnds(fields)[k] = WireEnds(fields)[k - 1] + Width(fields[k])
<1> DEFINE
      n == Len(fields)
      next(o, k) == o + Width(fields[k])
      step == [p \in Nat \X (1 .. n) |-> next(p[1], p[2])]
      layout(e) == [k \in 0 .. n |-> IF k = 0 THEN 0 ELSE next(e[k - 1], k)]
<1>1. n \in Nat /\ DOMAIN fields = 1 .. n
  BY DEF IsStructure
<1>2. \A o \in Nat, k \in 1 .. n : next(o, k) \in Nat
  <2> SUFFICES ASSUME NEW o \in Nat, NEW k \in 1 .. n
               PROVE  next(o, k) \in Nat
    OBVIOUS
  <2>1. Width(fields[k]) \in Nat
    BY <1>1, WidthType
  <2> QED
    BY <2>1
<1>3. WireEnds(fields) = CHOOSE e : e = layout(e)
  BY DEF WireEnds
<1> HIDE DEF n, next
<1>4. step \in [Nat \X (1 .. n) -> Nat]
  BY <1>2
<1>5. \A o \in Nat, k \in 1 .. n : step[<<o, k>>] = next(o, k)
  OBVIOUS
<1> HIDE DEF step
<1>6. PICK t \in [0 .. n -> Nat] :
        /\ t[0] = 0
        /\ \A k \in 1 .. n : t[k] = step[<<t[k - 1], k>>]
  BY <1>1, <1>4, Recursion
<1>7. t = layout(t)
  <2>1. \A k \in 1 .. n : k - 1 \in 0 .. n /\ t[k - 1] \in Nat
    BY <1>1
  <2>2. \A k \in 1 .. n : t[k] = next(t[k - 1], k)
    BY <1>5, <1>6, <2>1
  <2>3. \A k \in 0 .. n : t[k] = IF k = 0 THEN 0 ELSE next(t[k - 1], k)
    BY <1>1, <1>6, <2>2
  <2> QED
    BY <1>6, <2>3
<1> DEFINE end == CHOOSE e : e = layout(e)
<1>8. end = layout(end)
  BY <1>7
<1> HIDE DEF end
<1>9. /\ end[0] = 0
      /\ \A k \in 1 .. n : end[k] = next(end[k - 1], k)
      /\ DOMAIN end = 0 .. n
  BY <1>1, <1>8
<1>10. \A k \in 1 .. n : end[k - 1] \in Nat => end[k] \in Nat
  BY <1>2, <1>9
<1>11. end = [k \in 0 .. n |-> end[k]] /\ end[0] \in Nat
  BY <1>8, <1>9
<1>12. end \in [0 .. n -> Nat]
  BY <1>1, <1>10, <1>11, StaysNatural
<1> QED
  BY <1>3, <1>9, <1>12 DEF end, n, next


\* The widest field decides for all: sizes are powers of two.
LEMMA WidestField ==
  ASSUME NEW fields, IsStructure(fields), NEW w \in Nat
  PROVE  AlignUp(w, Alignment(fields)) = w <=>
           \A k \in DOMAIN fields : w % fields[k].size = 0
<1> DEFINE sizes == {1} \cup {fields[k].size : k \in DOMAIN fields}
<1>1. sizes \subseteq {1, 2, 4, 8}
  BY DEF IsStructure
<1>2. (\A k \in DOMAIN fields : w % fields[k].size = 0)
        <=> \A s \in sizes : w % s = 0
  <2>1. w % 1 = 0
    OBVIOUS
  <2> QED
    BY <2>1
<1>3. 1 \in sizes
  OBVIOUS
<1>4. Alignment(fields) = CHOOSE x \in sizes : \A y \in sizes : x >= y
  BY DEF Alignment, Max
<1> HIDE DEF sizes
<1>5. \E x \in sizes : \A y \in sizes : x >= y
  BY <1>1, <1>3
<1>6. /\ Alignment(fields) \in sizes
      /\ \A y \in sizes : Alignment(fields) >= y
  BY <1>4, <1>5
<1> DEFINE a == Alignment(fields)
<1> HIDE DEF a
<1>7. a \in {1, 2, 4, 8} /\ a \in sizes /\ \A y \in sizes : a >= y
  BY <1>1, <1>6 DEF a
<1>8. w % a = 0 <=> \A s \in sizes : w % s = 0
  <2>1. \A s \in {1, 2, 4, 8} : s <= a /\ w % a = 0 => w % s = 0
    BY <1>7
  <2> QED
    BY <1>1, <1>7, <2>1
<1>9. AlignUp(w, a) = w <=> w % a = 0
  BY <1>7, Aligned
<1> QED
  BY <1>2, <1>8, <1>9 DEF a

\* A cast to a structure reads every field where the message has it, and the
\* structure is as long as the message, exactly if each field begins at a
\* multiple of its size in the message and the message is a multiple of the
\* size of each: for all structures, not only those of the two headers
\* (app_m10.c:85, 160).
THEOREM OverlayCriterion ==
  ASSUME NEW fields, IsStructure(fields)
  PROVE  Overlays(fields) <=>
           \A k \in DOMAIN fields :
             /\ WireOffset(fields, k) % fields[k].size = 0
             /\ WireSize(fields) % fields[k].size = 0
<1> DEFINE
      n    == Len(fields)
      c    == Ends(fields)
      wire == WireEnds(fields)
<1>1. /\ n \in Nat /\ DOMAIN fields = 1 .. n
      /\ \A k \in 1 .. n : fields[k].size \in {1, 2, 4, 8}
  BY DEF IsStructure
<1>2. /\ c \in [0 .. n -> Nat] /\ c[0] = 0
      /\ \A k \in 1 .. n :
           c[k] = AlignUp(c[k - 1], fields[k].size) + Width(fields[k])
  BY EndsRules
<1>3. /\ wire \in [0 .. n -> Nat] /\ wire[0] = 0
      /\ \A k \in 1 .. n : wire[k] = wire[k - 1] + Width(fields[k])
  BY WireRules
<1>4. \A k \in 1 .. n : Width(fields[k]) \in Nat
  BY <1>1, WidthType
<1>5. /\ \A k \in 1 .. n :
           Offset(fields, k) = AlignUp(c[k - 1], fields[k].size)
      /\ \A k \in 1 .. n : WireOffset(fields, k) = wire[k - 1]
      /\ SizeOf(fields) = AlignUp(c[n], Alignment(fields))
      /\ WireSize(fields) = wire[n]
  BY DEF Offset, WireOffset, SizeOf, WireSize
<1> HIDE DEF n, c, wire
<1>6. \A k \in 1 .. n : k - 1 \in 0 .. n /\ c[k - 1] \in Nat
                        /\ wire[k - 1] \in Nat
  BY <1>1, <1>2, <1>3
<1>7. \A k \in 1 .. n :
        /\ AlignUp(wire[k - 1], fields[k].size) \in Nat
        /\ AlignUp(wire[k - 1], fields[k].size) = wire[k - 1]
             <=> wire[k - 1] % fields[k].size = 0
  BY <1>1, <1>6, Aligned
<1>8. wire[n] \in Nat
  BY <1>1, <1>3
<1>9. AlignUp(wire[n], Alignment(fields)) = wire[n]
        <=> \A k \in 1 .. n : wire[n] % fields[k].size = 0
  BY <1>1, <1>8, WidestField
<1> DEFINE Fit == \A k \in 1 .. n : wire[k - 1] % fields[k].size = 0
<1>10. ASSUME Fit
       PROVE  \A k \in 0 .. n : c[k] = wire[k]
  <2> DEFINE S == {k \in Nat : k <= n => c[k] = wire[k]}
  <2>1. 0 \in S
    BY <1>2, <1>3
  <2>2. ASSUME NEW k \in Nat, k \in S
        PROVE  k + 1 \in S
    <3>1. CASE k + 1 <= n
      <4>1. k + 1 \in 1 .. n /\ (k + 1) - 1 = k /\ c[k] = wire[k]
        BY <1>1, <2>2, <3>1
      <4>2. AlignUp(wire[k], fields[k + 1].size) = wire[k]
        BY <1>7, <1>10, <4>1
      <4>3. /\ c[k + 1] = AlignUp(c[k], fields[k + 1].size)
                          + Width(fields[k + 1])
            /\ wire[k + 1] = wire[k] + Width(fields[k + 1])
        BY <1>2, <1>3, <4>1
      <4> QED
        BY <4>1, <4>2, <4>3
    <3> QED
      BY <3>1
  <2>3. \A k \in Nat : k \in S
    <3> HIDE DEF S
    <3> QED
      BY <2>1, <2>2, Induction
  <2> QED
    BY <1>1, <2>3
<1>11. ASSUME \A k \in 1 .. n : AlignUp(c[k - 1], fields[k].size) = wire[k - 1]
       PROVE  Fit /\ \A k \in 0 .. n : c[k] = wire[k]
  <2>1. \A k \in 1 .. n : c[k] = wire[k]
    BY <1>2, <1>3, <1>11
  <2>2. \A k \in 0 .. n : c[k] = wire[k]
    BY <1>1, <1>2, <1>3, <2>1
  <2>3. \A k \in 1 .. n : AlignUp(wire[k - 1], fields[k].size) = wire[k - 1]
    BY <1>6, <1>11, <2>2
  <2> QED
    BY <1>7, <2>2, <2>3
<1>12. (\A k \in 1 .. n : AlignUp(c[k - 1], fields[k].size) = wire[k - 1])
         <=> Fit
  <2>1. ASSUME Fit
        PROVE  \A k \in 1 .. n :
                 AlignUp(c[k - 1], fields[k].size) = wire[k - 1]
    <3>1. \A k \in 1 .. n : c[k - 1] = wire[k - 1]
      BY <1>6, <1>10, <2>1
    <3> QED
      BY <1>7, <2>1, <3>1
  <2> QED
    BY <1>11, <2>1
<1>13. Fit => c[n] = wire[n]
  BY <1>1, <1>10
<1>14. Overlays(fields) <=>
         Fit /\ \A k \in 1 .. n : wire[n] % fields[k].size = 0
  <2>1. Overlays(fields) <=>
          /\ \A k \in 1 .. n :
               AlignUp(c[k - 1], fields[k].size) = wire[k - 1]
          /\ AlignUp(c[n], Alignment(fields)) = wire[n]
    BY <1>1, <1>5 DEF Overlays
  <2> QED
    BY <1>9, <1>12, <1>13, <2>1
<1> QED
  BY <1>1, <1>5, <1>14

-----------------------------------------------------------------------------
(* Where the compiler puts the fields of NAV-PVT.                          *)

\* The structure, out of all the messages.
LEMMA NavPvtFields ==
  PvtFields =
    <<U4, U2, U1, U1, U1, U1, U1, Bits(X1, <<{0}, {1}, {2}>>), U4,
      I4, U1, Bits(X1, <<{0}, {1}, 2 .. 4, {5}>>), U1, U1, I4, I4, I4, I4,
      U4, U4, I4, I4, I4, I4, I4, U4, U4, U2, X2, Array(U1, 4), I4, I2, U2>>
<1>1. Messages["NAV_PVT"] = NavPvt
  BY DEF Messages
<1>2. PvtFields = NavPvt.structs["DATA1"]
  BY <1>1 DEF PvtFields, FieldsOf, NavPvtStruct
<1>3. QED
  BY <1>2 DEF NavPvt, Message

LEMMA TypeSizes ==
  /\ \A t \in {U1, Bits(X1, <<{0}, {1}, {2}>>),
               Bits(X1, <<{0}, {1}, 2 .. 4, {5}>>)} :
       t.size = 1 /\ Width(t) = 1
  /\ \A t \in {U2, I2, X2} : t.size = 2 /\ Width(t) = 2
  /\ \A t \in {U4, I4} : t.size = 4 /\ Width(t) = 4
  /\ Array(U1, 4).size = 1 /\ Width(Array(U1, 4)) = 4
BY DEF U1, X1, U2, I2, X2, U4, I4, Type, Bits, Array, Width

\* The ends of the fields, by the recursion of the C layout.
LEMMA PvtEnds ==
  /\ Ends(PvtFields)[7] = 11 /\ Ends(PvtFields)[11] = 21
  /\ Ends(PvtFields)[23] = 60 /\ Ends(PvtFields)[24] = 64
<1> DEFINE
      layout(e) ==
        [k \in 0 .. Len(PvtFields) |->
           IF k = 0 THEN 0
           ELSE AlignUp(e[k - 1], PvtFields[k].size) + Width(PvtFields[k])]
      at == <<0, 4, 6, 7, 8, 9, 10, 11, 12, 16, 20, 21, 22, 23, 24, 28, 32, 36,
              40, 44, 48, 52, 56, 60, 64, 68, 72, 76, 78, 80, 84, 88, 90, 92>>
      table == [k \in 0 .. 33 |-> at[k + 1]]
<1>1. Len(PvtFields) = 33
  BY NavPvtFields
<1>2. \A k \in 1 .. 33 :
        table[k] = AlignUp(table[k - 1], PvtFields[k].size)
                   + Width(PvtFields[k])
  BY NavPvtFields, TypeSizes DEF AlignUp
<1>3. table[0] = 0
  OBVIOUS
<1>4. table = layout(table)
  BY <1>1, <1>2, <1>3
<1> HIDE DEF table
<1>5. Ends(PvtFields) = CHOOSE e : e = layout(e)
  BY DEF Ends
<1> DEFINE end == CHOOSE e : e = layout(e)
<1>6. end = layout(end)
  BY <1>4
<1> HIDE DEF end
<1>7. /\ end[0] = 0
      /\ \A k \in 1 .. 33 :
           end[k] = AlignUp(end[k - 1], PvtFields[k].size)
                    + Width(PvtFields[k])
  BY <1>1, <1>6
<1>8. \A k \in 1 .. 33 : end[k - 1] = table[k - 1] => end[k] = table[k]
  BY <1>2, <1>7
<1> DEFINE Same(k) == end[k] = table[k]
<1>9. Same(0) /\ \A k \in 1 .. 33 : Same(k - 1) => Same(k)
  BY <1>3, <1>7, <1>8
<1> HIDE DEF Same
<1>10. Same(1) /\ Same(2) /\ Same(3) /\ Same(4) /\ Same(5) /\ Same(6)
  BY <1>9
<1>11. Same(7) /\ Same(8) /\ Same(9) /\ Same(10) /\ Same(11) /\ Same(12)
  BY <1>9, <1>10
<1>12. Same(13) /\ Same(14) /\ Same(15) /\ Same(16) /\ Same(17) /\ Same(18)
  BY <1>9, <1>11
<1>13. Same(19) /\ Same(20) /\ Same(21) /\ Same(22) /\ Same(23) /\ Same(24)
  BY <1>9, <1>12
<1>14. table[7] = 11 /\ table[11] = 21 /\ table[23] = 60 /\ table[24] = 64
  BY DEF table
<1>15. QED
  BY <1>5, <1>11, <1>13, <1>14 DEF Same, end

\* The code reads its four fields where the receiver has written them.
LEMMA PvtOffsets ==
  /\ Offset(PvtFields, ValidField) = ValidAt
  /\ Offset(PvtFields, FlagsField) = FlagsAt
  /\ Offset(PvtFields, GSpeedField) = GSpeedAt
  /\ Offset(PvtFields, HeadMotField) = HeadMotAt
<1>1. /\ PvtFields[8].size = 1 /\ PvtFields[12].size = 1
      /\ PvtFields[24].size = 4 /\ PvtFields[25].size = 4
  BY NavPvtFields, TypeSizes
<1>2. AlignUp(11, 1) = 11 /\ AlignUp(21, 1) = 21
      /\ AlignUp(60, 4) = 60 /\ AlignUp(64, 4) = 64
  BY DEF AlignUp
<1>3. QED
  BY <1>1, <1>2, PvtEnds
     DEF Offset, ValidField, FlagsField, GSpeedField, HeadMotField,
         ValidAt, FlagsAt, GSpeedAt, HeadMotAt

\* The masks of the _GET macros are the bits of the protocol.
LEMMA PvtMasks ==
  /\ PvtFields[FlagsField].masks[1] = {GnssFixOk}
  /\ PvtFields[ValidField].masks[1] = {ValidDate}
  /\ PvtFields[ValidField].masks[2] = {ValidTime}
<1>1. /\ PvtFields[8] = Bits(X1, <<{0}, {1}, {2}>>)
      /\ PvtFields[12] = Bits(X1, <<{0}, {1}, 2 .. 4, {5}>>)
  BY NavPvtFields
<1>2. /\ Bits(X1, <<{0}, {1}, {2}>>).masks = <<{0}, {1}, {2}>>
      /\ Bits(X1, <<{0}, {1}, 2 .. 4, {5}>>).masks = <<{0}, {1}, 2 .. 4, {5}>>
  BY DEF Bits, X1, Type
<1>3. QED
  BY <1>1, <1>2
     DEF FlagsField, ValidField, GnssFixOk, ValidDate, ValidTime

\* A macro is not 0 exactly if the receiver has set the bit.
LEMMA PvtFlagsRead ==
  /\ Get(FlagsField, 1) <=> <<FlagsAt, GnssFixOk>> \in payload.bits
  /\ Get(ValidField, 1) <=> <<ValidAt, ValidDate>> \in payload.bits
  /\ Get(ValidField, 2) <=> <<ValidAt, ValidTime>> \in payload.bits
BY PvtOffsets, PvtMasks DEF Get

\* What Answer puts in the payload.
LEMMA PayloadWords ==
  ASSUME NEW valid, NEW flags, NEW gSpeed, NEW headMot,
         payload = Answer(valid, flags, gSpeed, headMot)
  PROVE  Word(GSpeedField) = gSpeed /\ Word(HeadMotField) = headMot
         /\ payload.word[GSpeedAt] = gSpeed
         /\ payload.word[HeadMotAt] = headMot
<1>1. payload.word = [at \in {GSpeedAt, HeadMotAt} |->
                        IF at = GSpeedAt THEN gSpeed ELSE headMot]
  BY DEF Answer
<1>2. /\ {GSpeedAt, HeadMotAt} = DOMAIN payload.word
      /\ payload.word[GSpeedAt] = gSpeed /\ payload.word[HeadMotAt] = headMot
  BY <1>1 DEF GSpeedAt, HeadMotAt
<1>3. QED
  BY <1>2, PvtOffsets DEF Word

-----------------------------------------------------------------------------
(* The structures the firmware casts received bytes to.                    *)

\* The fields of the message begin at these offsets, each a multiple of the
\* size of its type, and so does what comes behind the message.
PlacedAt(fields, n, at) ==
  /\ IsStructure(fields) /\ Len(fields) = n
  /\ at \in [1 .. n + 1 -> Nat] /\ at[1] = 0
  /\ \A k \in 1 .. n :
       /\ at[k + 1] = at[k] + Width(fields[k])
       /\ at[k] % fields[k].size = 0 /\ at[n + 1] % fields[k].size = 0

\* Such offsets are those of the message, and of C.
LEMMA Placed ==
  ASSUME NEW fields, NEW n \in Nat, NEW at, PlacedAt(fields, n, at)
  PROVE  Overlays(fields)
<1> DEFINE wire == WireEnds(fields)
<1>1. /\ IsStructure(fields) /\ Len(fields) = n /\ DOMAIN fields = 1 .. n
      /\ at[1] = 0
  BY DEF PlacedAt, IsStructure
<1>2. /\ wire[0] = 0
      /\ \A k \in 1 .. n : wire[k] = wire[k - 1] + Width(fields[k])
  BY <1>1, WireRules
<1>3. \A k \in 1 .. n : at[k + 1] = at[k] + Width(fields[k])
  BY DEF PlacedAt
<1>4. /\ \A k \in 1 .. n : WireOffset(fields, k) = wire[k - 1]
      /\ WireSize(fields) = wire[n]
  BY <1>1 DEF WireOffset, WireSize
<1> HIDE DEF wire
<1> DEFINE S == {k \in Nat : k <= n => wire[k] = at[k + 1]}
<1>5. 0 \in S
  BY <1>1, <1>2
<1>6. ASSUME NEW k \in Nat, k \in S
      PROVE  k + 1 \in S
  <2>1. CASE k + 1 <= n
    <3>1. k + 1 \in 1 .. n /\ (k + 1) - 1 = k /\ wire[k] = at[k + 1]
      BY <1>6, <2>1
    <3>2. /\ wire[k + 1] = wire[k] + Width(fields[k + 1])
          /\ at[(k + 1) + 1] = at[k + 1] + Width(fields[k + 1])
      BY <1>2, <1>3, <3>1
    <3> QED
      BY <3>1, <3>2
  <2> QED
    BY <2>1
<1>7. \A k \in Nat : k \in S
  <2> HIDE DEF S
  <2> QED
    BY <1>5, <1>6, Induction
<1>8. wire[n] = at[n + 1] /\ \A k \in 1 .. n : wire[k - 1] = at[k]
  <2>1. \A k \in 1 .. n : k - 1 \in Nat /\ k - 1 <= n /\ (k - 1) + 1 = k
    OBVIOUS
  <2>2. \A k \in 1 .. n : wire[k - 1] = at[(k - 1) + 1]
    BY <1>7, <2>1
  <2> QED
    BY <1>7, <2>1, <2>2
<1>9. \A k \in 1 .. n : at[k] % fields[k].size = 0
                        /\ at[n + 1] % fields[k].size = 0
  BY DEF PlacedAt
<1>10. \A k \in DOMAIN fields :
         /\ WireOffset(fields, k) % fields[k].size = 0
         /\ WireSize(fields) % fields[k].size = 0
  BY <1>1, <1>4, <1>8, <1>9
<1> QED
  BY <1>1, <1>10, OverlayCriterion

\* The position message: 92 bytes without gaps.
LEMMA PvtPlaced ==
  PlacedAt(PvtFields, 33,
    <<0, 4, 6, 7, 8, 9, 10, 11, 12, 16, 20, 21, 22, 23, 24, 28, 32, 36, 40,
      44, 48, 52, 56, 60, 64, 68, 72, 76, 78, 80, 84, 88, 90, 92>>)
<1> DEFINE
      at == <<0, 4, 6, 7, 8, 9, 10, 11, 12, 16, 20, 21, 22, 23, 24, 28, 32, 36,
              40, 44, 48, 52, 56, 60, 64, 68, 72, 76, 78, 80, 84, 88, 90, 92>>
<1>1. Len(PvtFields) = 33 /\ DOMAIN PvtFields = 1 .. 33
  BY NavPvtFields
<1>2. /\ \A t \in {U1, U2, I2, X2, U4, I4} : t.count = 1
      /\ Array(U1, 4).count = 4
      /\ Bits(X1, <<{0}, {1}, {2}>>).count = 1
      /\ Bits(X1, <<{0}, {1}, 2 .. 4, {5}>>).count = 1
  BY DEF U1, X1, U2, I2, X2, U4, I4, Type, Bits, Array
<1>3. \A k \in 1 .. 33 :
        PvtFields[k].size \in {1, 2, 4, 8} /\ PvtFields[k].count \in Nat
  BY <1>2, NavPvtFields, TypeSizes
<1>4. \A k \in 1 .. 33 : at[k + 1] = at[k] + Width(PvtFields[k])
  BY NavPvtFields, TypeSizes
<1>5. \A k \in 1 .. 33 :
        \/ PvtFields[k].size = 1
        \/ PvtFields[k].size = 2 /\ at[k] % 2 = 0
        \/ PvtFields[k].size = 4 /\ at[k] % 4 = 0
  BY NavPvtFields, TypeSizes
<1>6. at \in [1 .. 34 -> Nat] /\ at[1] = 0 /\ at[34] = 92
  OBVIOUS
<1> HIDE DEF at
<1>7. \A k \in 1 .. 33 : at[k] % PvtFields[k].size = 0
                         /\ at[34] % PvtFields[k].size = 0
  <2> SUFFICES ASSUME NEW k \in 1 .. 33
               PROVE  /\ at[k] % PvtFields[k].size = 0
                      /\ at[34] % PvtFields[k].size = 0
    OBVIOUS
  <2>1. at[k] \in Nat
    BY <1>6
  <2>2. CASE PvtFields[k].size = 1
    BY <1>6, <2>1, <2>2
  <2>3. CASE PvtFields[k].size = 2 /\ at[k] % 2 = 0
    BY <1>6, <2>3
  <2>4. CASE PvtFields[k].size = 4 /\ at[k] % 4 = 0
    BY <1>6, <2>4
  <2> QED
    BY <1>5, <2>2, <2>3, <2>4
<1>8. PlacedAt(PvtFields, 33, at)
  BY <1>1, <1>3, <1>4, <1>6, <1>7 DEF PlacedAt, IsStructure
<1> QED
  BY <1>8 DEF at

\* Its _GET macros read disjoint bits.
LEMMA PvtGetters == \A k \in DOMAIN PvtFields : GettersApart(PvtFields[k])
<1>1. /\ \A t \in {U1, U2, I2, X2, U4, I4} : GettersApart(t)
      /\ GettersApart(Array(U1, 4))
  BY DEF U1, U2, I2, X2, U4, I4, Type, Array, GettersApart
<1>2. GettersApart(Bits(X1, <<{0}, {1}, {2}>>))
  BY DEF X1, Type, Bits, GettersApart
<1>3. GettersApart(Bits(X1, <<{0}, {1}, 2 .. 4, {5}>>))
  BY DEF X1, Type, Bits, GettersApart
<1> QED
  BY <1>1, <1>2, <1>3, NavPvtFields

\* The version of the receiver: characters only.
VersionStruct == <<"MON_VER_M10", "M10">>

LEMMA VersionFields ==
  FieldsOf(VersionStruct) =
    <<Array(CH, 30), Array(CH, 10), Array(CH, 30), Array(CH, 30),
      Array(CH, 30), Array(CH, 30), Array(CH, 30)>>
<1>1. Messages["MON_VER_M10"] = MonVerM10
  BY DEF Messages
<1>2. FieldsOf(VersionStruct) = MonVerM10.structs["M10"]
  BY <1>1 DEF FieldsOf, VersionStruct
<1> QED
  BY <1>2 DEF MonVerM10, Message

LEMMA VersionRight ==
  /\ Overlays(FieldsOf(VersionStruct))
  /\ \A k \in DOMAIN FieldsOf(VersionStruct) :
       GettersApart(FieldsOf(VersionStruct)[k])
<1> DEFINE fields == FieldsOf(VersionStruct)
<1>1. \A n \in {10, 30} : /\ Array(CH, n).size = 1 /\ Array(CH, n).count = n
                          /\ Array(CH, n).masks = <<>>
  BY DEF CH, Type, Array
<1>2. Len(fields) = 7 /\ DOMAIN fields = 1 .. 7
  BY VersionFields
<1>3. \A k \in 1 .. 7 : /\ fields[k].size = 1 /\ fields[k].count \in Nat
                        /\ fields[k].masks = <<>>
  BY <1>1, VersionFields
<1> HIDE DEF fields
<1>4. IsStructure(fields)
  BY <1>2, <1>3 DEF IsStructure
<1>5. \A k \in DOMAIN fields :
        WireOffset(fields, k) \in Nat /\ WireSize(fields) \in Nat
  BY <1>2, <1>4, WireRules DEF WireOffset, WireSize
<1>6. \A o \in Nat : o % 1 = 0
  OBVIOUS
<1>7. Overlays(fields)
  BY <1>2, <1>3, <1>4, <1>5, <1>6, OverlayCriterion
<1>8. \A k \in DOMAIN fields : GettersApart(fields[k])
  BY <1>2, <1>3 DEF GettersApart
<1> QED
  BY <1>7, <1>8 DEF fields

\* OverlayExact, for the two structures the firmware casts received bytes to:
\* it reads every field of a position and of a version where the receiver has
\* put it (app_m10.c:85, 160).
THEOREM CastsExact ==
  Spec => [](cast \in {NavPvtStruct, VersionStruct} => OverlayExact)
<1>1. Overlays(PvtFields)
  BY PvtPlaced, Placed
<1>2. NavPvtStruct \notin Padded /\ VersionStruct \notin Padded
  BY DEF NavPvtStruct, VersionStruct, Padded
<1>3. ASSUME cast = NavPvtStruct
      PROVE  OverlayExact
  <2>1. FieldsOf(cast) = PvtFields
    BY <1>3 DEF PvtFields
  <2> QED
    BY <1>1, <1>2, <1>3, <2>1, PvtGetters DEF OverlayExact
<1>4. ASSUME cast = VersionStruct
      PROVE  OverlayExact
  BY <1>2, <1>4, VersionRight DEF OverlayExact
<1>5. cast \in {NavPvtStruct, VersionStruct} => OverlayExact
  BY <1>3, <1>4
<1> QED
  BY <1>5, PTL

-----------------------------------------------------------------------------
(* Arithmetic of the conversion. *)

LEMMA Division ==
  ASSUME NEW a \in Int, NEW b \in Nat \ {0}
  PROVE  /\ a \div b \in Int /\ a % b \in 0 .. (b - 1)
         /\ a = ((a \div b) * b) + (a % b)
OBVIOUS

\* The speed in 1 cm/s, cut off at both ends.
LEMMA SpeedFaithful ==
  ASSUME NEW mm_s \in Int
  PROVE  /\ Speed(mm_s) \in 0 .. UINT16_MAX
         /\ mm_s < 0 => Speed(mm_s) = 0
         /\ mm_s > 10 * UINT16_MAX => Speed(mm_s) = UINT16_MAX
         /\ mm_s \in 0 .. 10 * UINT16_MAX => mm_s - 10 * Speed(mm_s) \in 0 .. 9
<1> DEFINE cut == IF mm_s < 0 THEN 0 ELSE mm_s
           q == cut \div 10
           r == cut % 10
           v == Speed(mm_s)
<1>1. cut \in Int /\ (mm_s < 0 => cut = 0) /\ (mm_s >= 0 => cut = mm_s)
  OBVIOUS
<1>2. q \in Int /\ r \in 0 .. 9 /\ cut = (q * 10) + r
  <2> HIDE DEF cut
  <2> QED BY <1>1, Division
<1>3. v = Capped(q)
  BY DEF Speed
<1> HIDE DEF cut, q, r, v
<1>4. UINT16_MAX \in Nat
  BY DEF UINT16_MAX
<1>5. /\ v \in Int
      /\ q < UINT16_MAX => v = q
      /\ q >= UINT16_MAX => v = UINT16_MAX
  BY <1>2, <1>3, <1>4, SMT DEF Capped
<1>6. /\ v \in 0 .. UINT16_MAX
      /\ mm_s < 0 => v = 0
      /\ mm_s > 10 * UINT16_MAX => v = UINT16_MAX
      /\ mm_s \in 0 .. 10 * UINT16_MAX => mm_s - (10 * v) \in 0 .. 9
  <2>1. CASE mm_s < 0
    BY <1>1, <1>2, <1>4, <1>5, <2>1, SMT
  <2>2. CASE mm_s >= 0
    BY <1>1, <1>2, <1>4, <1>5, <2>2, SMT
  <2>3. QED
    BY <2>1, <2>2, SMT
<1>7. QED
  BY <1>6 DEF v

\* Division that truncates leaves less than the divisor, with the sign of the
\* dividend.
LEMMA Truncated ==
  ASSUME NEW a \in Int, NEW b \in Nat \ {0}
  PROVE  /\ TruncDiv(a, b) \in Int
         /\ a >= 0 => a - (TruncDiv(a, b) * b) \in 0 .. (b - 1)
         /\ a < 0  => (TruncDiv(a, b) * b) - a \in 0 .. (b - 1)
<1> DEFINE c == IF a >= 0 THEN a ELSE a + b - 1
           q == c \div b
           r == c % b
           p == q * b
<1>1. c \in Int
  OBVIOUS
<1>2. q \in Int /\ r \in 0 .. (b - 1) /\ c = p + r
  <2> HIDE DEF c
  <2> QED BY <1>1, Division
<1>3. TruncDiv(a, b) = q
  BY DEF TruncDiv
<1>4. p \in Int
  BY <1>2
<1> HIDE DEF q, r, p
<1>5. /\ a >= 0 => a - p \in 0 .. (b - 1)
      /\ a < 0  => p - a \in 0 .. (b - 1)
  BY <1>2, <1>4
<1>6. QED
  BY <1>2, <1>3, <1>5 DEF p

LEMMA Multiple ==
  ASSUME NEW z \in Int, NEW b \in Nat \ {0}
  PROVE  /\ z >= 2 => z * b >= 2 * b
         /\ z <= -1 => z * b <= -b
         /\ z = 1 => z * b = b
         /\ z = 0 => z * b = 0
<1>1. ASSUME NEW x \in Nat, NEW y \in Nat
      PROVE  x * y >= 0
  BY SMT
<1>2. ASSUME z >= 2
      PROVE  z * b >= 2 * b
  <2>1. z - 2 \in Nat
    BY <1>2, SMT
  <2>2. (z - 2) * b >= 0
    BY <1>1, <2>1, SMT
  <2>3. (z - 2) * b = (z * b) - (2 * b)
    BY SMT
  <2>4. z * b \in Int
    BY SMT
  <2>5. QED
    BY <2>2, <2>3, <2>4, SMT
<1>3. ASSUME z <= -1
      PROVE  z * b <= -b
  <2>1. (-1) - z \in Nat
    BY <1>3, SMT
  <2>2. ((-1) - z) * b >= 0
    BY <1>1, <2>1, SMT
  <2>3. ((-1) - z) * b = (-b) - (z * b)
    BY SMT
  <2>4. z * b \in Int
    BY SMT
  <2>5. QED
    BY <2>2, <2>3, <2>4, SMT
<1>4. QED
  BY <1>2, <1>3, SMT

\* What differs from a number of turns by less than k is less than k away
\* from the start, on either side.
LEMMA OnCircle ==
  ASSUME NEW b \in Nat \ {0}, NEW k \in 1 .. b, NEW e \in Int, -k < e, e < k,
         NEW n \in Int, NEW x \in Int, x = e + (n * b)
  PROVE  x % b < k \/ x % b > b - k
<1> DEFINE d == x \div b
           rest == x % b
           z == n - d
           y == z * b
<1>1. d \in Int /\ rest \in 0 .. (b - 1) /\ x = (d * b) + rest
  BY Division
<1> HIDE DEF d, rest
<1>2. z \in Int /\ y = (n * b) - (d * b) /\ n * b \in Int /\ d * b \in Int
  BY <1>1, SMT
<1>3. y = rest - e
  BY <1>1, <1>2, SMT
<1>4. /\ z >= 2 => y >= 2 * b
      /\ z <= -1 => y <= -b
      /\ z = 1 => y = b
      /\ z = 0 => y = 0
  <2> HIDE DEF z
  <2>1. QED
    BY <1>2, Multiple
<1> HIDE DEF z, y
<1>5. y < 2 * b /\ y > -b
  BY <1>1, <1>3, SMT
<1>6. z \in {0, 1}
  BY <1>2, <1>4, <1>5, SMT
<1>7. rest < k \/ rest > b - k
  BY <1>1, <1>3, <1>4, <1>6, SMT
<1>8. QED
  BY <1>7 DEF rest

LEMMA ModRange ==
  ASSUME NEW a \in Int, NEW b \in Nat \ {0}
  PROVE  /\ mod(a, b) \in 0 .. (b - 1)
         /\ \E n \in Int : a = mod(a, b) + (n * b)
<1> DEFINE q == TruncDiv(a, b)
           p == q * b
           r == a - p
           m == mod(a, b)
<1>1. /\ q \in Int
      /\ a >= 0 => r \in 0 .. (b - 1)
      /\ a < 0  => p - a \in 0 .. (b - 1)
  BY Truncated
<1>2. m = IF r < 0 THEN r + b ELSE r
  BY DEF mod
<1> HIDE DEF q, m
<1>3. p \in Int /\ (q - 1) * b = p - b
  BY <1>1, SMT
<1> HIDE DEF p
<1>4. /\ m \in 0 .. (b - 1)
      /\ a = m + p \/ a = m + (p - b)
  BY <1>1, <1>2, <1>3, SMT
<1>5. \E n \in Int : a = m + (n * b)
  <2>1. CASE a = m + p
    BY <1>1, <2>1 DEF p
  <2>2. CASE a = m + (p - b)
    <3>1. q - 1 \in Int /\ a = m + ((q - 1) * b)
      BY <1>1, <1>3, <2>2, SMT
    <3>2. QED
      BY <3>1, Zenon
  <2>3. QED
    BY <1>4, <2>1, <2>2
<1>6. QED
  BY <1>4, <1>5 DEF m

LEMMA Products ==
  ASSUME NEW a \in Int, NEW b \in Int, NEW c \in Int
  PROVE  /\ a * b \in Int /\ (a * b) * c = a * (b * c)
         /\ (a + b) * c = (a * c) + (b * c)
         /\ (a - b) * c = (a * c) - (b * c)
<1>1. a * b \in Int /\ (a * b) * c = a * (b * c)
  BY SMT
<1>2. (a + b) * c = (a * c) + (b * c)
  BY SMT
<1>3. (a - b) * c = (a * c) - (b * c)
  BY SMT
<1>4. QED
  BY <1>1, <1>2, <1>3

\* How far an angle is behind a heading, on a circle of turn units.
Behind(angle, h, unit, turn) ==
  ((angle % (turn * unit)) - h * unit) % (turn * unit)

\* A circle of turn units: what mod leaves of the whole units of an angle is
\* one of them, and the angle is less than one away from it.
LEMMA UnitOnCircle ==
  ASSUME NEW angle \in Int, NEW unit \in Nat \ {0}, NEW turn \in Nat \ {0}
  PROVE  LET h == mod(TruncDiv(angle, unit), turn)
         IN  /\ h \in Nat /\ h < turn
             /\ \/ Behind(angle, h, unit, turn) < unit
                \/ Behind(angle, h, unit, turn) > (turn * unit) - unit
<1> DEFINE h == mod(TruncDiv(angle, unit), turn)
           c == turn * unit
           t == TruncDiv(angle, unit)
           p == t * unit
           e == angle - p
           d == angle \div c
           rest == angle % c
           x == rest - h * unit
<1>1. /\ t \in Int
      /\ angle >= 0 => angle - p \in 0 .. (unit - 1)
      /\ angle < 0  => p - angle \in 0 .. (unit - 1)
  BY Truncated
<1>2. h = mod(t, turn)
  OBVIOUS
<1> HIDE DEF t, h
<1>3. p \in Int
  BY <1>1, Products
<1>4. h \in 0 .. (turn - 1)
  BY <1>1, <1>2, ModRange
<1>5. PICK n \in Int : t = h + (n * turn)
  BY <1>1, <1>2, ModRange
<1>6. c \in Nat \ {0} /\ unit \in 1 .. c
  <2>1. c \in Int
    BY Products
  <2>2. turn = 1 \/ turn >= 2
    OBVIOUS
  <2>3. c = unit \/ c >= 2 * unit
    BY <2>2, Multiple
  <2> HIDE DEF c
  <2>4. QED
    BY <2>1, <2>3
<1>7. (n * turn) * unit = n * c
  BY Products
<1> HIDE DEF c
<1>8. d \in Int /\ rest \in Int /\ angle = (d * c) + rest
  <2>1. d \in Int /\ rest \in 0 .. (c - 1) /\ angle = (d * c) + rest
    BY <1>6, Division
  <2> HIDE DEF d, rest
  <2>2. QED
    BY <1>6, <2>1
<1>9. p = (h * unit) + (n * c)
  <2>1. h \in Int /\ n * turn \in Int
    BY <1>4, Products
  <2>2. p = (h * unit) + ((n * turn) * unit)
    BY <1>5, <2>1, Products
  <2>3. QED
    BY <1>7, <2>2
<1>10. (n - d) * c = (n * c) - (d * c) /\ n * c \in Int /\ d * c \in Int
      /\ h * unit \in Int /\ n - d \in Int
  <2> HIDE DEF d
  <2>1. c \in Int /\ h \in Int
    BY <1>4, <1>6
  <2>2. QED
    BY <1>8, <2>1, Products
<1> DEFINE nc == n * c
           dc == d * c
           hu == h * unit
           z  == (n - d) * c
<1> HIDE DEF p, d, rest
<1>11. e \in Int /\ -unit < e /\ e < unit
  BY <1>1, <1>3
<1>12. x \in Int /\ x = e + z
  <2>1. /\ p = hu + nc /\ z = nc - dc /\ angle = dc + rest /\ x = rest - hu
        /\ nc \in Int /\ dc \in Int /\ hu \in Int /\ rest \in Int
    BY <1>8, <1>9, <1>10
  <2> HIDE DEF nc, dc, hu, z, x
  <2>2. QED
    BY <1>3, <2>1
<1> HIDE DEF e, x
<1>13. x % c < unit \/ x % c > c - unit
  BY <1>6, <1>10, <1>11, <1>12, OnCircle
<1>14. QED
  BY <1>4, <1>13 DEF Behind, x, rest, c, h

\* The heading is one of a turn, and the angle is less than one of them away
\* from it, on the circle.
LEMMA HeadingFaithful ==
  ASSUME NEW angle \in Int
  PROVE  /\ Heading(angle) \in 0 .. FullTurn - 1
         /\ \/ Behind(angle, Heading(angle), 1000, FullTurn) < 1000
            \/ Behind(angle, Heading(angle), 1000, FullTurn)
                 > (FullTurn * 1000) - 1000
<1>1. FullTurn \in Nat \ {0} /\ 1000 \in Nat \ {0}
  BY SMT DEF FullTurn
<1>2. /\ Heading(angle) \in Nat /\ Heading(angle) < FullTurn
      /\ \/ Behind(angle, Heading(angle), 1000, FullTurn) < 1000
         \/ Behind(angle, Heading(angle), 1000, FullTurn)
              > (FullTurn * 1000) - 1000
  BY <1>1, UnitOnCircle DEF Heading
<1>3. QED
  BY <1>1, <1>2, SMT

-----------------------------------------------------------------------------
(* The encoder. *)

\* FlattenSeq of as many parts as the characteristic has fields.
LEMMA FlattenSeven ==
  ASSUME NEW s, Len(s) = 7
  PROVE  FlattenSeq(s) =
           s[1] \o s[2] \o s[3] \o s[4] \o s[5] \o s[6] \o s[7]
<1> DEFINE
      cat(x, y) == x \o y
      step(g) == [k \in 1 .. Len(s) |->
                    IF k = 1 THEN s[k] ELSE cat(g[k - 1], s[k])]
      p2 == cat(s[1], s[2])
      p3 == cat(p2, s[3])
      p4 == cat(p3, s[4])
      p5 == cat(p4, s[5])
      p6 == cat(p5, s[6])
      p7 == cat(p6, s[7])
      flat == CHOOSE g : g = step(g)
<1>1. FlattenSeq(s) = flat[7]
  BY DEF FlattenSeq
<1>2. p7 = s[1] \o s[2] \o s[3] \o s[4] \o s[5] \o s[6] \o s[7]
  OBVIOUS
<1> HIDE DEF cat
<1>3. flat = step(flat)
  <2>1. /\ p2 = cat(s[1], s[2]) /\ p3 = cat(p2, s[3]) /\ p4 = cat(p3, s[4])
        /\ p5 = cat(p4, s[5]) /\ p6 = cat(p5, s[6]) /\ p7 = cat(p6, s[7])
    OBVIOUS
  <2> HIDE DEF p2, p3, p4, p5, p6, p7
  <2> DEFINE parts == <<s[1], p2, p3, p4, p5, p6, p7>>
             table == [k \in 1 .. 7 |-> parts[k]]
  <2>2. /\ table[1] = s[1]
        /\ \A k \in 2 .. 7 : table[k] = cat(table[k - 1], s[k])
    BY <2>1
  <2> HIDE DEF parts
  <2>3. table = step(table)
    BY <2>2
  <2> HIDE DEF table
  <2>4. QED
    BY <2>3
<1> HIDE DEF flat
<1>4. flat[1] = s[1] /\ \A k \in 2 .. 7 : flat[k] = cat(flat[k - 1], s[k])
  BY <1>3
<1>5. flat[2] = p2 /\ flat[3] = cat(flat[2], s[3])
      /\ flat[4] = cat(flat[3], s[4]) /\ flat[5] = cat(flat[4], s[5])
      /\ flat[6] = cat(flat[5], s[6]) /\ flat[7] = cat(flat[6], s[7])
  BY <1>4
<1>6. flat[7] = p7
  BY <1>5
<1>7. QED
  BY <1>1, <1>2, <1>6

\* Bytes by value and place.
Names == {"inst_speed", "latitude", "longitude", "heading", "year", "month",
          "day", "hours", "minutes", "seconds"}
Byte  == Names \X (1 .. 4)

\* A sequence of n elements of S.
Sized(S, s, n) == s \in Seq(S) /\ Len(s) = n

LEMMA ValueBytes ==
  ASSUME NEW name \in Names, NEW n \in 1 .. 4
  PROVE  Sized(Byte, Value(name, n), n)
<1> DEFINE byte(k) == <<name, k>>
           v == [k \in 1 .. n |-> byte(k)]
<1>1. \A k \in 1 .. n : byte(k) \in Byte
  BY DEF Byte
<1>2. Value(name, n) = v
  BY DEF Value
<1> HIDE DEF byte
<1>3. v \in [1 .. n -> Byte] /\ DOMAIN v = 1 .. n
  BY <1>1
<1> HIDE DEF v
<1>4. v \in Seq(Byte)
  BY <1>3, SeqDef
<1>5. Len(v) \in Nat /\ DOMAIN v = 1 .. Len(v)
  BY <1>4, LenProperties
<1>6. Len(v) = n
  BY <1>3, <1>5
<1>7. QED
  BY <1>2, <1>4, <1>6 DEF Sized

LEMMA TwoParts ==
  ASSUME NEW S, NEW a, NEW b, NEW m \in Nat, NEW n \in Nat, NEW l,
         Sized(S, a, m), Sized(S, b, n), l = m + n
  PROVE  Sized(S, a \o b, l)
BY ConcatProperties DEF Sized

\* The fields there is code for, of the sizes the phone expects.
LEMMA ImplementedFields ==
  /\ Sized(Byte, Field(0), 2) /\ Sized(Byte, Field(2), 8)
  /\ Sized(Byte, Field(4), 2) /\ Sized(Byte, Field(6), 7)
<1> USE DEF INST_SPEED, LOCATION, HEADING, UTC_TIME, TOTAL_DISTANCE,
            ELEVATION, ROLLING_TIME
<1>1. /\ Field(0) = Value("inst_speed", 2)
      /\ Field(2) = Value("latitude", 4) \o Value("longitude", 4)
      /\ Field(4) = Value("heading", 2)
      /\ Field(6) = Value("year", 2) \o Value("month", 1) \o Value("day", 1)
                      \o Value("hours", 1) \o Value("minutes", 1)
                      \o Value("seconds", 1)
  BY DEF Field
<1> DEFINE a == Value("year", 2)
           b == Value("month", 1)
           c == Value("day", 1)
           d == Value("hours", 1)
           e == Value("minutes", 1)
           g == Value("seconds", 1)
<1>2. Sized(Byte, Field(0), 2) /\ Sized(Byte, Field(4), 2)
  <2>1. /\ Sized(Byte, Value("inst_speed", 2), 2)
        /\ Sized(Byte, Value("heading", 2), 2)
    BY ValueBytes DEF Names
  <2>2. QED
    BY <1>1, <2>1
<1>3. Sized(Byte, Field(2), 8)
  <2> DEFINE lat == Value("latitude", 4)
             lon == Value("longitude", 4)
  <2>1. Sized(Byte, lat, 4) /\ Sized(Byte, lon, 4)
    BY ValueBytes DEF Names
  <2>2. Field(2) = lat \o lon
    BY <1>1
  <2> HIDE DEF lat, lon
  <2>3. Sized(Byte, lat \o lon, 8)
    BY <2>1, TwoParts
  <2>4. QED
    BY <2>2, <2>3
<1>4. Sized(Byte, Field(6), 7)
  <2>1. /\ Sized(Byte, a, 2) /\ Sized(Byte, b, 1)
        /\ Sized(Byte, c, 1) /\ Sized(Byte, d, 1)
        /\ Sized(Byte, e, 1) /\ Sized(Byte, g, 1)
    BY ValueBytes DEF Names
  <2>2. Field(6) = a \o b \o c \o d \o e \o g
    BY <1>1
  <2> HIDE DEF a, b, c, d, e, g
  <2>3. Sized(Byte, a \o b, 3)
    BY <2>1, TwoParts
  <2>4. Sized(Byte, a \o b \o c, 4)
    BY <2>1, <2>3, TwoParts
  <2>5. Sized(Byte, a \o b \o c \o d, 5)
    BY <2>1, <2>4, TwoParts
  <2>6. Sized(Byte, a \o b \o c \o d \o e, 6)
    BY <2>1, <2>5, TwoParts
  <2>7. Sized(Byte, a \o b \o c \o d \o e \o g, 7)
    BY <2>1, <2>6, TwoParts
  <2>8. QED
    BY <2>2, <2>7
<1>5. QED
  BY <1>2, <1>3, <1>4

\* A field that is enabled and in the sample, or nothing.
Put(f, flags) == IF f \in Encodes(flags) THEN Field(f) ELSE <<>>

\* The features leave four fields of the seven.
LEMMA FourFields ==
  ASSUME lns_feature \subseteq IMPLEMENTED, NEW flags
  PROVE  /\ Encodes(flags) \subseteq {0, 2, 4, 6}
         /\ Bytes(flags) =
              Put(0, flags) \o Put(2, flags) \o Put(4, flags) \o Put(6, flags)
<1> DEFINE part == [k \in DOMAIN FieldOrder |->
                      IF FieldOrder[k] \in Encodes(flags)
                      THEN Field(FieldOrder[k]) ELSE <<>>]
<1>1. Encodes(flags) \subseteq {0, 2, 4, 6}
  BY DEF Encodes, IMPLEMENTED, INST_SPEED, LOCATION, HEADING, UTC_TIME
<1>2. FieldOrder = <<0, 1, 2, 3, 4, 5, 6>>
  BY DEF FieldOrder, INST_SPEED, TOTAL_DISTANCE, LOCATION, ELEVATION, HEADING,
         ROLLING_TIME, UTC_TIME
<1>3. /\ part[1] = Put(0, flags) /\ part[2] = <<>>
      /\ part[3] = Put(2, flags) /\ part[4] = <<>>
      /\ part[5] = Put(4, flags) /\ part[6] = <<>>
      /\ part[7] = Put(6, flags)
  BY <1>1, <1>2 DEF Put
<1>4. Len(part) = 7
  BY <1>2
<1>5. Bytes(flags) = FlattenSeq(part)
  BY DEF Bytes
<1> HIDE DEF part
<1>6. Bytes(flags) =
        part[1] \o part[2] \o part[3] \o part[4] \o part[5] \o part[6]
          \o part[7]
  BY <1>4, <1>5, FlattenSeven
<1> DEFINE a == Put(0, flags)
           b == Put(2, flags)
           c == Put(4, flags)
           d == Put(6, flags)
<1>7. a \in Seq(Byte) /\ b \in Seq(Byte) /\ c \in Seq(Byte)
  <2>1. <<>> \in Seq(Byte)
    BY EmptySeq
  <2>2. \A f \in {0, 2, 4} : Field(f) \in Seq(Byte)
    BY ImplementedFields DEF Sized
  <2>3. QED
    BY <2>1, <2>2 DEF Put
<1>8. Bytes(flags) = a \o <<>> \o b \o <<>> \o c \o <<>> \o d
  BY <1>3, <1>6
<1> HIDE DEF a, b, c, d
<1>9. a \o <<>> = a /\ a \o b \in Seq(Byte)
  BY <1>7, ConcatEmptySeq, ConcatProperties
<1>10. a \o b \o <<>> = a \o b /\ a \o b \o c \in Seq(Byte)
  BY <1>7, <1>9, ConcatEmptySeq, ConcatProperties
<1>11. a \o b \o c \o <<>> = a \o b \o c
  BY <1>10, ConcatEmptySeq
<1>12. Bytes(flags) = a \o b \o c \o d
  BY <1>8, <1>9, <1>10, <1>11
<1>13. QED
  BY <1>1, <1>12 DEF a, b, c, d

\* The middle of three parts.
LEMMA Slice ==
  ASSUME NEW S, NEW p \in Seq(S), NEW m \in Seq(S), NEW q \in Seq(S)
  PROVE  SubSeq(p \o m \o q, Len(p) + 1, Len(p) + Len(m)) = m
<1>1. p \o m \in Seq(S) /\ Len(p \o m) = Len(p) + Len(m)
  BY ConcatProperties
<1>2. Len(p) \in Nat /\ Len(m) \in Nat
  BY LenProperties
<1> DEFINE pm == p \o m
           i == Len(p)
           j == Len(p) + Len(m)
<1>3. SubSeq(pm, i + 1, Len(pm)) = m
  BY SubSeqOfConcat2
<1>4. pm \in Seq(S) /\ Len(pm) = j /\ i \in Nat /\ j \in Nat /\ i <= j
  BY <1>1, <1>2
<1> HIDE DEF pm
<1>5. SubSeq(pm \o q, i + 1, j) = SubSeq(pm, i + 1, j)
  BY <1>4, SubSeqOfConcat1
<1>6. QED
  BY <1>3, <1>4, <1>5 DEF pm

\* Where the phone looks, when only the implemented fields are flagged.
Flagged(flags, f) == IF f \in flags THEN SigSize[f] ELSE 0

\* The phone adds up the sizes of the fields that are flagged.
LEMMA PhoneOffsets ==
  ASSUME NEW flags, flags \cap (0 .. 6) \subseteq {0, 2, 4, 6}
  PROVE  /\ SigOffset(flags, 0) = 0
         /\ SigOffset(flags, 2) = Flagged(flags, 0)
         /\ SigOffset(flags, 4) = Flagged(flags, 0) + Flagged(flags, 2)
         /\ SigOffset(flags, 6) =
              Flagged(flags, 0) + Flagged(flags, 2) + Flagged(flags, 4)
         /\ SigOffset(flags, 7) =
              Flagged(flags, 0) + Flagged(flags, 2) + Flagged(flags, 4)
                + Flagged(flags, 6)
<1> DEFINE w(g) == IF g \in flags THEN SigSize[g] ELSE 0
           step(b) ==
             [g \in 0 .. 7 |-> IF g = 0 THEN 0 ELSE b[g - 1] + w(g - 1)]
           before == CHOOSE b : b = step(b)
           a0 == w(0)
           a2 == w(2)
           a4 == w(4)
           a6 == w(6)
           table == [g \in 0 .. 7 |->
             <<0, a0, a0, a0 + a2, a0 + a2, a0 + a2 + a4, a0 + a2 + a4,
               a0 + a2 + a4 + a6>>[g + 1]]
<1>1. /\ w(0) \in Nat /\ w(2) \in Nat /\ w(4) \in Nat /\ w(6) \in Nat
      /\ w(1) = 0 /\ w(3) = 0 /\ w(5) = 0
  BY DEF SigSize
<1>2. \A f : SigOffset(flags, f) = before[f]
  BY DEF SigOffset
<1>3. /\ w(0) = Flagged(flags, 0) /\ w(2) = Flagged(flags, 2)
      /\ w(4) = Flagged(flags, 4) /\ w(6) = Flagged(flags, 6)
  BY DEF Flagged
<1>4. w(0) = a0 /\ w(2) = a2 /\ w(4) = a4 /\ w(6) = a6
  OBVIOUS
<1> HIDE DEF w, a0, a2, a4, a6
<1>5. /\ a0 \in Nat /\ a2 \in Nat /\ a4 \in Nat /\ a6 \in Nat
  BY <1>1, <1>4
<1>6. /\ table[0] = 0 /\ table[1] = a0 /\ table[2] = a0
      /\ table[3] = a0 + a2 /\ table[4] = a0 + a2
      /\ table[5] = a0 + a2 + a4 /\ table[6] = a0 + a2 + a4
      /\ table[7] = a0 + a2 + a4 + a6
  OBVIOUS
<1>7. \A g \in 1 .. 7 : table[g] = table[g - 1] + w(g - 1)
  <2> HIDE DEF table
  <2>1. /\ table[1] = table[0] + w(0) /\ table[2] = table[1] + w(1)
        /\ table[3] = table[2] + w(2) /\ table[4] = table[3] + w(3)
        /\ table[5] = table[4] + w(4) /\ table[6] = table[5] + w(5)
        /\ table[7] = table[6] + w(6)
    BY <1>1, <1>4, <1>5, <1>6
  <2>2. QED
    BY <2>1
<1>8. table = step(table)
  <2>1. \A g \in 0 .. 7 :
          table[g] = IF g = 0 THEN 0 ELSE table[g - 1] + w(g - 1)
    <3> HIDE DEF table
    <3>1. QED
      BY <1>6, <1>7
  <2>2. table = [g \in 0 .. 7 |-> table[g]]
    OBVIOUS
  <2> HIDE DEF table
  <2>3. QED
    BY <2>1, <2>2
<1> HIDE DEF table
<1>9. before = step(before)
  BY <1>8
<1> HIDE DEF before
<1>10. /\ before[0] = 0
       /\ \A g \in 1 .. 7 : before[g] = before[g - 1] + w(g - 1)
  BY <1>9
<1>11. /\ before[1] = a0 /\ before[2] = a0
       /\ before[3] = a0 + a2 /\ before[4] = a0 + a2
       /\ before[5] = a0 + a2 + a4 /\ before[6] = a0 + a2 + a4
       /\ before[7] = a0 + a2 + a4 + a6
  <2>1. before[1] = before[0] + w(0) /\ before[2] = before[1] + w(1)
    BY <1>10
  <2>2. before[3] = before[2] + w(2) /\ before[4] = before[3] + w(3)
    BY <1>10
  <2>3. before[5] = before[4] + w(4) /\ before[6] = before[5] + w(5)
    BY <1>10
  <2>4. before[7] = before[6] + w(6)
    BY <1>10
  <2>5. QED
    BY <1>1, <1>4, <1>5, <1>10, <2>1, <2>2, <2>3, <2>4
<1>12. QED
  BY <1>2, <1>3, <1>4, <1>10, <1>11

-----------------------------------------------------------------------------
(* What a call of the service leaves in the buffer.                        *)

AllBytes == UNION {Range(Field(f)) : f \in 0 .. 6}

\* Without the bytes named one by one.
LEMMA PutBytes ==
  ASSUME NEW f \in {0, 2, 4, 6}, NEW flags
  PROVE  /\ Put(f, flags) \in Seq(AllBytes)
         /\ Len(Put(f, flags)) = Flagged(Encodes(flags), f)
<1>1. <<>> \in Seq(AllBytes) /\ Len(<<>>) = 0
  <2>1. <<>> \in Seq(AllBytes)
    BY EmptySeq
  <2>2. Len(<<>>) = 0
    OBVIOUS
  <2>3. QED
    BY <2>1, <2>2
<1>2. Field(f) \in Seq(Byte) /\ Len(Field(f)) = SigSize[f]
  <2>1. SigSize[0] = 2 /\ SigSize[2] = 8 /\ SigSize[4] = 2 /\ SigSize[6] = 7
    BY DEF SigSize
  <2>2. /\ Sized(Byte, Field(0), SigSize[0])
        /\ Sized(Byte, Field(2), SigSize[2])
        /\ Sized(Byte, Field(4), SigSize[4])
        /\ Sized(Byte, Field(6), SigSize[6])
    BY <2>1, ImplementedFields
  <2>3. Sized(Byte, Field(f), SigSize[f])
    BY <2>2
  <2>4. QED
    BY <2>3 DEF Sized
<1>3. DOMAIN Field(f) = 1 .. Len(Field(f)) /\ Len(Field(f)) \in Nat
  BY <1>2, LenProperties
<1>4. \A k \in DOMAIN Field(f) : Field(f)[k] \in AllBytes
  <2>1. \A k \in DOMAIN Field(f) : Field(f)[k] \in Range(Field(f))
    BY DEF Range
  <2>2. f \in 0 .. 6
    OBVIOUS
  <2>3. Range(Field(f)) \subseteq AllBytes
    BY <2>2 DEF AllBytes
  <2>4. QED
    BY <2>1, <2>3
<1> DEFINE s == Field(f)
<1>5. s \in [1 .. Len(s) -> AllBytes]
  <2>1. s = [k \in 1 .. Len(s) |-> s[k]]
    BY <1>2, <1>3, SeqDef
  <2> HIDE DEF s
  <2>2. DOMAIN s = 1 .. Len(s) /\ \A k \in DOMAIN s : s[k] \in AllBytes
    BY <1>3, <1>4 DEF s
  <2>3. QED
    BY <2>1, <2>2
<1>6. s \in Seq(AllBytes)
  <2> HIDE DEF s
  <2>1. Len(s) \in Nat
    BY <1>3 DEF s
  <2>2. QED
    BY <1>5, <2>1, SeqDef
<1>7. CASE f \in Encodes(flags)
  BY <1>2, <1>6, <1>7 DEF Put, Flagged
<1>8. CASE f \notin Encodes(flags)
  BY <1>1, <1>8 DEF Put, Flagged
<1>9. QED
  BY <1>7, <1>8

\* Four parts at most, of 2, 8, 2 and 7 bytes.
LEMMA BytesFit ==
  ASSUME lns_feature \subseteq IMPLEMENTED, NEW flags
  PROVE  /\ Bytes(flags) \in Seq(AllBytes)
         /\ Len(Bytes(flags)) =
              Flagged(Encodes(flags), 0) + Flagged(Encodes(flags), 2)
                + Flagged(Encodes(flags), 4) + Flagged(Encodes(flags), 6)
         /\ Len(Bytes(flags)) \in 0 .. 19
<1> DEFINE a == Put(0, flags)
           b == Put(2, flags)
           c == Put(4, flags)
           d == Put(6, flags)
           w(f) == Flagged(Encodes(flags), f)
<1>1. Bytes(flags) = a \o b \o c \o d
  BY FourFields
<1>2. /\ Sized(AllBytes, a, w(0)) /\ Sized(AllBytes, b, w(2))
      /\ Sized(AllBytes, c, w(4)) /\ Sized(AllBytes, d, w(6))
  BY PutBytes DEF Sized
<1>3. w(0) \in 0 .. 2 /\ w(2) \in 0 .. 8 /\ w(4) \in 0 .. 2 /\ w(6) \in 0 .. 7
  BY DEF Flagged, SigSize
<1> HIDE DEF a, b, c, d, w
<1>4. /\ w(0) \in Nat /\ w(2) \in Nat /\ w(4) \in Nat /\ w(6) \in Nat
      /\ w(0) + w(2) \in Nat /\ w(0) + w(2) + w(4) \in Nat
  BY <1>3
<1>5. Sized(AllBytes, a \o b, w(0) + w(2))
  BY <1>2, <1>4, TwoParts
<1>6. Sized(AllBytes, a \o b \o c, w(0) + w(2) + w(4))
  BY <1>2, <1>4, <1>5, TwoParts
<1>7. Sized(AllBytes, a \o b \o c \o d, w(0) + w(2) + w(4) + w(6))
  BY <1>2, <1>4, <1>6, TwoParts
<1>8. /\ Bytes(flags) \in Seq(AllBytes)
      /\ Len(Bytes(flags)) = w(0) + w(2) + w(4) + w(6)
  BY <1>1, <1>7 DEF Sized
<1>9. Len(Bytes(flags)) \in 0 .. 19
  BY <1>3, <1>8
<1>10. QED
  BY <1>8, <1>9 DEF w

\* Concatenation, for the provers to take as a function of any two.
Cat(s, t) == s \o t

LEMMA CatRules ==
  ASSUME NEW S
  PROVE  /\ \A s, t, u \in Seq(S) : Cat(Cat(s, t), u) = Cat(s, Cat(t, u))
         /\ \A s, t \in Seq(S) : Cat(s, t) \in Seq(S)
<1>1. \A s, t, u \in Seq(S) : Cat(Cat(s, t), u) = Cat(s, Cat(t, u))
  BY ConcatAssociative DEF Cat
<1>2. \A s, t \in Seq(S) : Cat(s, t) \in Seq(S)
  BY ConcatProperties DEF Cat
<1>3. QED
  BY <1>1, <1>2

LEMMA Regroup ==
  ASSUME NEW S, NEW a \in Seq(S), NEW b \in Seq(S), NEW c \in Seq(S),
         NEW d \in Seq(S)
  PROVE  /\ Cat(Cat(Cat(a, b), c), d) = Cat(Cat(a, b), Cat(c, d))
         /\ Cat(Cat(Cat(a, b), c), d) = Cat(a, Cat(b, Cat(c, d)))
<1> DEFINE T == Seq(S)
<1>1. \A s, t, u \in T : Cat(Cat(s, t), u) = Cat(s, Cat(t, u))
  BY CatRules
<1>2. a \in T /\ b \in T /\ c \in T /\ d \in T
  OBVIOUS
<1>3. Cat(a, b) \in T /\ Cat(c, d) \in T
  BY CatRules, Zenon
<1> HIDE DEF T
<1>4. Cat(Cat(Cat(a, b), c), d) = Cat(Cat(a, b), Cat(c, d))
  BY <1>1, <1>2, <1>3
<1>5. Cat(Cat(a, b), Cat(c, d)) = Cat(a, Cat(b, Cat(c, d)))
  BY <1>1, <1>2, <1>3
<1>6. QED
  BY <1>4, <1>5

\* Each of four parts is where the ones before it end.
Slices(all, a, b, c, d) ==
  LET i == Len(a) + Len(b)
      j == i + Len(c)
  IN /\ SubSeq(all, 1, Len(a)) = a
     /\ SubSeq(all, Len(a) + 1, i) = b
     /\ SubSeq(all, i + 1, j) = c
     /\ SubSeq(all, j + 1, j + Len(d)) = d

LEMMA FourSlices ==
  ASSUME NEW S, NEW a \in Seq(S), NEW b \in Seq(S), NEW c \in Seq(S),
         NEW d \in Seq(S)
  PROVE  Slices(Cat(Cat(Cat(a, b), c), d), a, b, c, d)
<1> DEFINE all == a \o b \o c \o d
           ab  == a \o b
           abc == ab \o c
           cd  == c \o d
           bcd == b \o cd
           none == <<>>
<1>0. all = ab \o cd /\ all = a \o bcd
  <2>1. Cat(Cat(Cat(a, b), c), d) = Cat(Cat(a, b), Cat(c, d))
    BY Regroup
  <2>2. Cat(Cat(Cat(a, b), c), d) = Cat(a, Cat(b, Cat(c, d)))
    BY Regroup
  <2>3. QED
    BY <2>1, <2>2 DEF Cat
<1>1. /\ ab \in Seq(S) /\ Len(ab) = Len(a) + Len(b)
      /\ cd \in Seq(S)
  BY ConcatProperties
<1> HIDE DEF ab, cd
<1>2. /\ abc \in Seq(S) /\ Len(abc) = Len(ab) + Len(c)
      /\ bcd \in Seq(S)
  BY <1>1, ConcatProperties
<1>3. none \in Seq(S) /\ Len(none) = 0
  <2>1. <<>> \in Seq(S)
    BY EmptySeq
  <2>2. Len(<<>>) = 0
    OBVIOUS
  <2>3. QED
    BY <2>1, <2>2
<1>4. all = abc \o d /\ all = ab \o cd /\ all = a \o bcd
  <2>1. all = abc \o d
    BY DEF ab
  <2>2. QED
    BY <1>0, <2>1
<1>5. all = none \o a \o bcd
  <2>1. none \o a = a
    BY ConcatEmptySeq
  <2>2. QED
    BY <1>4, <2>1
<1>6. all \in Seq(S)
  <2> HIDE DEF all, abc
  <2>1. QED
    BY <1>2, <1>4, ConcatProperties
<1>7. all = abc \o d \o none
  <2>1. all \o none = all
    BY <1>6, ConcatEmptySeq
  <2>2. QED
    BY <1>4, <2>1
<1>8. all = a \o b \o cd
  BY <1>4 DEF ab
<1>9. all = ab \o c \o d
  BY <1>4
<1> HIDE DEF all, abc, bcd, none
<1>10. Len(a) \in Nat /\ Len(b) \in Nat /\ Len(c) \in Nat /\ Len(d) \in Nat
  BY LenProperties
<1>11. SubSeq(all, 1, Len(a)) = a
  <2>1. SubSeq(none \o a \o bcd, Len(none) + 1, Len(none) + Len(a)) = a
    BY <1>2, <1>3, Slice
  <2>2. Len(none) + 1 = 1 /\ Len(none) + Len(a) = Len(a)
    BY <1>3, <1>10
  <2>3. QED
    BY <1>5, <2>1, <2>2
<1>12. SubSeq(all, Len(a) + 1, Len(a) + Len(b)) = b
  <2>1. SubSeq(a \o b \o cd, Len(a) + 1, Len(a) + Len(b)) = b
    BY <1>1, Slice
  <2>2. QED
    BY <1>8, <2>1
<1>13. SubSeq(all, Len(ab) + 1, Len(ab) + Len(c)) = c
  <2>1. SubSeq(ab \o c \o d, Len(ab) + 1, Len(ab) + Len(c)) = c
    BY <1>1, Slice
  <2>2. QED
    BY <1>9, <2>1
<1>14. SubSeq(all, Len(abc) + 1, Len(abc) + Len(d)) = d
  <2>1. SubSeq(abc \o d \o none, Len(abc) + 1, Len(abc) + Len(d)) = d
    BY <1>2, <1>3, Slice
  <2>2. QED
    BY <1>7, <2>1
<1>15. Slices(all, a, b, c, d)
  BY <1>1, <1>2, <1>11, <1>12, <1>13, <1>14 DEF Slices
<1>16. QED
  BY <1>15 DEF all, Cat

\* What the flags say is in the buffer is in the buffer.
LEMMA FlagsOfFields ==
  ASSUME lns_feature \subseteq IMPLEMENTED, NEW flags
  PROVE  /\ PutFlags(flags) \cap (0 .. 6) = Encodes(flags)
         /\ PutFlags(flags) \ (0 .. 6) \subseteq
              UNION {Attributes(f) : f \in Encodes(flags)}
         /\ flags \subseteq DefinedFlags =>
              PutFlags(flags) \subseteq DefinedFlags
<1>1. Encodes(flags) \subseteq {0, 2, 4, 6}
  BY FourFields
<1>2. \A f \in {0, 2, 4, 6} : Attributes(f) \subseteq 7 .. 12
  BY DEF Attributes, POS_STATUS, ELEVATION_SOURCE, HEADING_SOURCE,
         SPEED_DISTANCE_3D, INST_SPEED, TOTAL_DISTANCE, LOCATION, ELEVATION,
         HEADING
<1> DEFINE attributes == UNION {Attributes(f) : f \in Encodes(flags)}
<1>3. attributes \subseteq 7 .. 12
  BY <1>1, <1>2
<1>4. PutFlags(flags) = Encodes(flags) \cup (flags \cap attributes)
  BY DEF PutFlags
<1> HIDE DEF attributes
<1>5. /\ PutFlags(flags) \cap (0 .. 6) = Encodes(flags)
      /\ PutFlags(flags) \ (0 .. 6) \subseteq attributes
      /\ flags \subseteq DefinedFlags => PutFlags(flags) \subseteq DefinedFlags
  BY <1>1, <1>3, <1>4 DEF DefinedFlags
<1>6. QED
  BY <1>5 DEF attributes

-----------------------------------------------------------------------------
(* The service: what a call has left behind follows from the features and  *)
(* the flags it was given.                                                 *)

Buffered ==
  /\ ready
  /\ encoded = Bytes(sample \cap DefinedFlags)
  /\ out_flags = PutFlags(sample \cap DefinedFlags)

ServiceInv == ServiceTypeOK /\ (sent # "nothing" => Buffered)

\* The service invariant: the initial state, each operation, a stutter.
LEMMA ServiceStarts == ServiceInit => ServiceInv
<1> SUFFICES ASSUME ServiceInit PROVE ServiceInv
  OBVIOUS
<1>1. encoded \in Seq(AllBytes)
  <2>1. <<>> \in Seq(AllBytes)
    BY EmptySeq
  <2>2. QED
    BY <2>1 DEF ServiceInit
<1>2. ServiceTypeOK
  BY <1>1 DEF ServiceInit, ServiceTypeOK, AllBytes
<1>3. sent = "nothing"
  BY DEF ServiceInit
<1>4. QED
  BY <1>2, <1>3 DEF ServiceInv

LEMMA LnsInitStep ==
  ASSUME ServiceInv, NEW requested, LnsInit(requested)
  PROVE  ServiceInv'
<1>1. sent = "nothing" /\ UNCHANGED notified
  BY DEF ServiceInv, Buffered, LnsInit
<1>2. lns_feature' \subseteq IMPLEMENTED /\ ready' \in BOOLEAN
  BY DEF ServiceInv, ServiceTypeOK, LnsInit, Effective, service
<1>3. ServiceTypeOK'
  BY <1>1, <1>2 DEF ServiceInv, ServiceTypeOK, notified
<1>4. sent' = "nothing"
  BY <1>1 DEF notified
<1>5. QED
  BY <1>3, <1>4 DEF ServiceInv

LEMMA NotifyStep ==
  ASSUME ServiceInv, NEW flags \in SUBSET (0 .. 15), NotifyLocationSpeed(flags)
  PROVE  ServiceInv' /\ sent' # "nothing"
<1> DEFINE defined == flags \cap DefinedFlags
<1>1. /\ ready' = ready /\ lns_feature' = lns_feature /\ ready
      /\ sample' = flags
      /\ encoded' = Bytes(defined) /\ out_flags' = PutFlags(defined)
  BY DEF NotifyLocationSpeed, service
<1>2. lns_feature \subseteq IMPLEMENTED
  BY DEF ServiceInv, ServiceTypeOK
<1>3. sent' \in {"-EMSGSIZE", "notified"}
  BY DEF NotifyLocationSpeed
<1>4. Bytes(defined) \in Seq(AllBytes)
  BY <1>2, BytesFit
<1>5. PutFlags(defined) \subseteq DefinedFlags
  BY <1>2, FlagsOfFields
<1>6. ServiceTypeOK'
  <2> HIDE DEF defined
  <2>1. ready' \in BOOLEAN
    BY <1>1 DEF ServiceInv, ServiceTypeOK
  <2>2. encoded' \in Seq(AllBytes)
    BY <1>1, <1>4
  <2>3. QED
    BY <1>1, <1>2, <1>3, <1>5, <2>1, <2>2 DEF ServiceTypeOK, AllBytes
<1>7. Buffered'
  <2>1. sample' \cap DefinedFlags = defined
    BY <1>1
  <2> HIDE DEF defined
  <2>2. /\ encoded' = Bytes(sample \cap DefinedFlags)'
        /\ out_flags' = PutFlags(sample \cap DefinedFlags)'
    BY <1>1, <2>1 DEF Bytes, PutFlags, Encodes
  <2>3. QED
    BY <1>1, <2>2 DEF Buffered
<1>8. QED
  BY <1>3, <1>6, <1>7 DEF ServiceInv

LEMMA ReturnStep ==
  ASSUME ServiceInv, NotifyReturns
  PROVE  ServiceInv'
<1>1. <<>> \in Seq(AllBytes)
  BY EmptySeq
<1>2. /\ ready' = ready /\ lns_feature' = lns_feature /\ sample' = {}
      /\ encoded' = <<>> /\ out_flags' = {} /\ sent' = "nothing"
  BY DEF NotifyReturns, service
<1>3. encoded' \in Seq(AllBytes)
  BY <1>1, <1>2
<1>4. ServiceTypeOK'
  BY <1>2, <1>3 DEF ServiceInv, ServiceTypeOK, AllBytes
<1>5. QED
  BY <1>2, <1>4 DEF ServiceInv

LEMMA ServiceStutters ==
  ASSUME ServiceInv, UNCHANGED <<service, notified>>
  PROVE  ServiceInv'
<1>1. /\ ready' = ready /\ lns_feature' = lns_feature /\ sample' = sample
      /\ encoded' = encoded /\ out_flags' = out_flags /\ sent' = sent
  BY DEF service, notified
<1>2. ServiceTypeOK'
  BY <1>1 DEF ServiceInv, ServiceTypeOK
<1>3. Buffered => Buffered'
  BY <1>1 DEF Buffered, Bytes, PutFlags, Encodes
<1>4. QED
  BY <1>1, <1>2, <1>3 DEF ServiceInv

\* The buffer has room.
LEMMA Fits == ServiceInv => FitsBuffer
<1> SUFFICES ASSUME ServiceInv, sent # "nothing"
             PROVE  2 + Len(encoded) <= MAX_LEN
  BY DEF FitsBuffer
<1>1. encoded = Bytes(sample \cap DefinedFlags)
  BY DEF ServiceInv, Buffered
<1>2. lns_feature \subseteq IMPLEMENTED
  BY DEF ServiceInv, ServiceTypeOK
<1>3. Len(encoded) \in 0 .. 19
  BY <1>1, <1>2, BytesFit
<1> DEFINE n == Len(encoded)
<1>4. n \in 0 .. 19
  BY <1>3
<1> HIDE DEF n
<1>5. 2 + n <= MAX_LEN
  BY <1>4 DEF MAX_LEN
<1>6. QED
  BY <1>5 DEF n

\* The phone finds what the flags announce.
LEMMA Parses == ServiceInv => PhoneParses
<1> SUFFICES ASSUME ServiceInv, sent = "notified" PROVE PhoneParses
  BY DEF PhoneParses
<1> DEFINE flags == sample \cap DefinedFlags
           a == Put(0, flags)
           b == Put(2, flags)
           c == Put(4, flags)
           d == Put(6, flags)
           w(f) == Flagged(out_flags, f)
<1>1. lns_feature \subseteq IMPLEMENTED
  BY DEF ServiceInv, ServiceTypeOK
<1>2. encoded = Bytes(flags) /\ out_flags = PutFlags(flags)
  BY DEF ServiceInv, Buffered
<1>3. /\ Encodes(flags) \subseteq {0, 2, 4, 6}
      /\ encoded = a \o b \o c \o d
  BY <1>1, <1>2, FourFields
<1>4. /\ out_flags \cap (0 .. 6) = Encodes(flags)
      /\ out_flags \ (0 .. 6) \subseteq
           UNION {Attributes(f) : f \in Encodes(flags)}
  BY <1>1, <1>2, FlagsOfFields
<1>5. \A f \in {0, 2, 4, 6} : Flagged(Encodes(flags), f) = w(f)
  BY <1>4 DEF Flagged
<1>6. /\ a \in Seq(AllBytes) /\ Len(a) = w(0)
      /\ b \in Seq(AllBytes) /\ Len(b) = w(2)
      /\ c \in Seq(AllBytes) /\ Len(c) = w(4)
      /\ d \in Seq(AllBytes) /\ Len(d) = w(6)
  BY <1>5, PutBytes
<1>7. Len(encoded) = w(0) + w(2) + w(4) + w(6)
  BY <1>1, <1>2, <1>5, BytesFit
<1>8. /\ SigOffset(out_flags, 0) = 0
      /\ SigOffset(out_flags, 2) = w(0)
      /\ SigOffset(out_flags, 4) = w(0) + w(2)
      /\ SigOffset(out_flags, 6) = w(0) + w(2) + w(4)
      /\ SigOffset(out_flags, 7) = w(0) + w(2) + w(4) + w(6)
  BY <1>3, <1>4, PhoneOffsets
<1>9. ASSUME NEW f \in out_flags \cap (0 .. 6)
      PROVE  PhoneReads(f) = Field(f)
  <2>1. f \in {0, 2, 4, 6} /\ f \in Encodes(flags)
    BY <1>3, <1>4
  <2>2. SigSize[f] = w(f) /\ Put(f, flags) = Field(f)
    BY <2>1 DEF Flagged, Put
  <2>3. PhoneReads(f) =
          SubSeq(encoded, SigOffset(out_flags, f) + 1,
                          SigOffset(out_flags, f) + w(f))
    BY <2>2 DEF PhoneReads
  <2>4. \A g \in {0, 2, 4, 6} : w(g) \in Nat
    BY DEF Flagged, SigSize
  <2> HIDE DEF a, b, c, d, w
  <2>5. /\ SubSeq(encoded, 1, w(0)) = a
        /\ SubSeq(encoded, w(0) + 1, w(0) + w(2)) = b
        /\ SubSeq(encoded, w(0) + w(2) + 1, w(0) + w(2) + w(4)) = c
        /\ SubSeq(encoded, w(0) + w(2) + w(4) + 1,
                           w(0) + w(2) + w(4) + w(6)) = d
    <3>1. encoded = Cat(Cat(Cat(a, b), c), d)
      BY <1>3 DEF Cat
    <3>2. Slices(encoded, a, b, c, d)
      BY <1>6, <3>1, FourSlices
    <3>3. QED
      BY <1>6, <3>2 DEF Slices
  <2>6. CASE f = 0
    <3>1. PhoneReads(0) = SubSeq(encoded, 1, w(0))
      BY <1>8, <2>3, <2>4, <2>6
    <3>2. QED
      BY <2>2, <2>5, <2>6, <3>1 DEF a
  <2>7. CASE f = 2
    BY <1>8, <2>2, <2>3, <2>5, <2>7 DEF b
  <2>8. CASE f = 4
    BY <1>8, <2>2, <2>3, <2>5, <2>8 DEF c
  <2>9. CASE f = 6
    BY <1>8, <2>2, <2>3, <2>5, <2>9 DEF d
  <2>10. QED
    BY <2>1, <2>6, <2>7, <2>8, <2>9
<1>10. Len(encoded) = SigOffset(out_flags, 7)
  BY <1>7, <1>8
<1>11. QED
  BY <1>4, <1>9, <1>10 DEF PhoneParses

-----------------------------------------------------------------------------
(* The sample: every value in it goes back to the answer in the buffer.    *)

Reads ==
  [fix_ok  |-> Get(FlagsField, 1),
   time_ok |-> Get(ValidField, 1) /\ Get(ValidField, 2),
   gSpeed  |-> Word(GSpeedField),
   headMot |-> Word(HeadMotField)]

\* What the receiver wrote.
AnswerInv ==
  cast = NavPvtStruct =>
    \E valid, flags : \E motion \in Motions :
      payload = Answer(valid, flags, motion[1], motion[2])

\* What the code read of it.
ReadInv ==
  pvt # Nothing => cast = NavPvtStruct /\ pvt = Reads

\* What the phone is told.
FixInv ==
  fix # Nothing =>
    /\ pvt # Nothing /\ pvt.fix_ok /\ sample = PvtFlags /\ sent # "nothing"
    /\ fix = [speed   |-> Speed(pvt.gSpeed),
              heading |-> Heading(pvt.headMot)]

SampleInv ==
  /\ ServiceInv
  /\ cast \in Structs \cup {Nothing}
  /\ AnswerInv /\ ReadInv /\ FixInv

LEMMA NotNothing == NavPvtStruct # Nothing
BY DEF NavPvtStruct, Nothing

\* The measurements are integers, and read as they were written.
LEMMA Measured ==
  ASSUME AnswerInv, cast = NavPvtStruct
  PROVE  /\ Word(GSpeedField) \in Int /\ Word(HeadMotField) \in Int
         /\ payload.word[GSpeedAt] = Word(GSpeedField)
         /\ payload.word[HeadMotAt] = Word(HeadMotField)
<1>1. PICK valid, flags :
        \E motion \in Motions :
          payload = Answer(valid, flags, motion[1], motion[2])
  BY DEF AnswerInv
<1>2. PICK motion \in Motions :
        payload = Answer(valid, flags, motion[1], motion[2])
  BY <1>1
<1>3. motion[1] \in Int /\ motion[2] \in Int
  <2>1. motion \in Int \X Int
    BY SampleAssumption
  <2>2. QED
    BY <2>1
<1> DEFINE speed == motion[1]
           angle == motion[2]
<1>4. payload = Answer(valid, flags, speed, angle)
  BY <1>2
<1>5. speed \in Int /\ angle \in Int
  BY <1>3
<1> HIDE DEF speed, angle
<1>6. /\ Word(GSpeedField) = speed /\ Word(HeadMotField) = angle
      /\ payload.word[GSpeedAt] = speed /\ payload.word[HeadMotAt] = angle
  BY <1>4, PayloadWords
<1>7. QED
  BY <1>5, <1>6

\* The sample invariant: the initial state, each action, a stutter.
LEMMA SampleStarts == Init => SampleInv
<1> SUFFICES ASSUME Init PROVE SampleInv
  OBVIOUS
<1>1. ServiceInv
  BY ServiceStarts DEF Init
<1>2. cast = Nothing /\ pvt = Nothing /\ fix = Nothing
  BY DEF Init
<1>3. QED
  BY <1>1, <1>2, NotNothing DEF SampleInv, AnswerInv, ReadInv, FixInv

LEMMA SampleStep == SampleInv /\ [Next]_vars => SampleInv'
<1> SUFFICES ASSUME SampleInv, [Next]_vars PROVE SampleInv'
  OBVIOUS
<1>1. /\ ServiceInv /\ cast \in Structs \cup {Nothing}
      /\ AnswerInv /\ ReadInv /\ FixInv
  BY DEF SampleInv
<1> DEFINE Same ==
      /\ cast' = cast /\ payload' = payload /\ pvt' = pvt /\ fix' = fix
<1>2. ASSUME Same, fix = Nothing \/ UNCHANGED notified
      PROVE  /\ cast' \in Structs \cup {Nothing}
             /\ AnswerInv' /\ ReadInv' /\ FixInv'
  <2>1. cast' \in Structs \cup {Nothing} /\ AnswerInv'
    BY <1>1, <1>2 DEF AnswerInv
  <2>2. ReadInv'
    <3>1. Reads' = Reads
      BY <1>2 DEF Reads, Get, Word
    <3>2. QED
      BY <1>1, <1>2, <3>1 DEF ReadInv
  <2>3. FixInv'
    BY <1>1, <1>2 DEF FixInv, notified, PvtFlags
  <2>4. QED
    BY <2>1, <2>2, <2>3
<1>3. ASSUME cast' = Nothing, pvt' = Nothing, fix' = Nothing
      PROVE  /\ cast' \in Structs \cup {Nothing}
             /\ AnswerInv' /\ ReadInv' /\ FixInv'
  BY <1>3, NotNothing DEF AnswerInv, ReadInv, FixInv
<1>4. CASE Initialize
  <2>1. PICK requested \in Requests : LnsInit(requested)
    BY <1>4 DEF Initialize
  <2>2. ServiceInv'
    BY <1>1, <2>1, LnsInitStep
  <2>3. Same /\ UNCHANGED notified
    BY <1>4, <2>1 DEF Initialize, LnsInit
  <2>4. QED
    BY <1>2, <2>2, <2>3 DEF SampleInv
<1>5. CASE NotifySample
  <2>1. PICK flags \in SampleFlags : NotifyLocationSpeed(flags)
    BY <1>5 DEF NotifySample
  <2>2. flags \in SUBSET (0 .. 15)
    BY SampleAssumption
  <2>3. ServiceInv'
    BY <1>1, <2>1, <2>2, NotifyStep
  <2>4. Same /\ cast = Nothing
    BY <1>5 DEF NotifySample
  <2>5. fix = Nothing
    BY <1>1, <2>4, NotNothing DEF ReadInv, FixInv
  <2>6. QED
    BY <1>2, <2>3, <2>4, <2>5 DEF SampleInv
<1>6. CASE Receive
  <2>1. ServiceInv'
    BY <1>1, <1>6, ServiceStutters DEF Receive
  <2>2. cast' \in Structs
    BY <1>6 DEF Receive
  <2>3. AnswerInv'
    BY <1>6 DEF Receive, AnswerInv
  <2>4. pvt' = Nothing /\ fix' = Nothing
    <3>1. cast = Nothing /\ pvt' = pvt /\ fix' = fix
      BY <1>6 DEF Receive
    <3>2. QED
      BY <1>1, <3>1, NotNothing DEF ReadInv, FixInv
  <2>5. ReadInv' /\ FixInv'
    BY <2>4 DEF ReadInv, FixInv
  <2>6. QED
    BY <2>1, <2>2, <2>3, <2>5 DEF SampleInv
<1>7. CASE Read
  <2>1. ServiceInv'
    BY <1>1, <1>7, ServiceStutters DEF Read
  <2>2. /\ cast' = cast /\ payload' = payload /\ fix' = fix
        /\ cast = NavPvtStruct /\ pvt = Nothing /\ pvt' = Reads
    BY <1>7 DEF Read, Reads
  <2>3. cast' \in Structs \cup {Nothing} /\ AnswerInv'
    BY <1>1, <2>2 DEF AnswerInv
  <2>4. ReadInv'
    <3>1. Reads' = Reads
      BY <2>2 DEF Reads, Get, Word
    <3>2. QED
      BY <2>2, <3>1 DEF ReadInv
  <2>5. FixInv'
    BY <1>1, <2>2 DEF FixInv
  <2>6. QED
    BY <2>1, <2>3, <2>4, <2>5 DEF SampleInv
<1>8. CASE Convert
  <2>1. /\ cast' = cast /\ payload' = payload /\ pvt' = pvt
        /\ pvt # Nothing /\ pvt.fix_ok
        /\ fix' = [speed   |-> Speed(pvt.gSpeed),
                   heading |-> Heading(pvt.headMot)]
        /\ NotifyLocationSpeed(PvtFlags)
    BY <1>8 DEF Convert
  <2>2. PvtFlags \in SUBSET (0 .. 15)
    BY DEF PvtFlags, INST_SPEED, LOCATION, HEADING, UTC_TIME
  <2>3. ServiceInv' /\ sent' # "nothing"
    BY <1>1, <2>1, <2>2, NotifyStep
  <2>4. sample' = PvtFlags
    BY <2>1 DEF NotifyLocationSpeed
  <2>5. cast' \in Structs \cup {Nothing} /\ AnswerInv'
    BY <1>1, <2>1 DEF AnswerInv
  <2>6. ReadInv'
    <3>1. Reads' = Reads
      BY <2>1 DEF Reads, Get, Word
    <3>2. QED
      BY <1>1, <2>1, <3>1 DEF ReadInv
  <2>7. FixInv'
    <3>1. PvtFlags' = PvtFlags
      BY <2>1 DEF PvtFlags
    <3>2. QED
      BY <2>1, <2>3, <2>4, <3>1 DEF FixInv
  <2>8. QED
    BY <2>3, <2>5, <2>6, <2>7 DEF SampleInv
<1>9. CASE NoSample
  <2>1. ServiceInv'
    BY <1>1, <1>9, ServiceStutters DEF NoSample
  <2>2. cast' = Nothing /\ pvt' = Nothing /\ fix' = Nothing
    BY <1>9 DEF NoSample
  <2>3. QED
    BY <1>3, <2>1, <2>2 DEF SampleInv
<1>10. CASE Return
  <2>1. ServiceInv'
    BY <1>1, <1>10, ReturnStep DEF Return
  <2>2. cast' = Nothing /\ pvt' = Nothing /\ fix' = Nothing
    BY <1>10 DEF Return
  <2>3. QED
    BY <1>3, <2>1, <2>2 DEF SampleInv
<1>11. CASE UNCHANGED vars
  <2>1. UNCHANGED <<service, notified>> /\ Same
    BY <1>11 DEF vars
  <2>2. ServiceInv'
    BY <1>1, <2>1, ServiceStutters
  <2>3. UNCHANGED notified
    BY <2>1
  <2>4. QED
    BY <1>2, <2>1, <2>2, <2>3 DEF SampleInv
<1>12. QED
  BY <1>4, <1>5, <1>6, <1>7, <1>8, <1>9, <1>10, <1>11 DEF Next

\* What is told, read, received and buffered always belongs together.
THEOREM SampleInvariant == Spec => []SampleInv
<1>1. Init => SampleInv
  BY SampleStarts
<1>2. SampleInv /\ [Next]_vars => SampleInv'
  BY SampleStep
<1>3. QED
  BY <1>1, <1>2, PTL DEF Spec

-----------------------------------------------------------------------------
(* Theorems. *)

\* No value leaves its type: the heading is an angle of one turn, the speed
\* one of 16 bits, the flags are flags there are (TypeOK, app_m10.c:51-133,
\* ble_lns.c:209-225).
THEOREM TypeSafe == Spec => []TypeOK
<1>1. SampleInv => TypeOK
  <2> SUFFICES ASSUME SampleInv PROVE TypeOK
    OBVIOUS
  <2>1. /\ ServiceInv /\ cast \in Structs \cup {Nothing}
        /\ AnswerInv /\ ReadInv /\ FixInv
    BY DEF SampleInv
  <2>2. ASSUME pvt # Nothing
        PROVE  /\ pvt.gSpeed \in Int /\ pvt.headMot \in Int
               /\ pvt \in [fix_ok : BOOLEAN, time_ok : BOOLEAN,
                           gSpeed : Int, headMot : Int]
    <3>1. cast = NavPvtStruct /\ pvt = Reads
      BY <2>1, <2>2 DEF ReadInv
    <3>2. Word(GSpeedField) \in Int /\ Word(HeadMotField) \in Int
      BY <2>1, <3>1, Measured
    <3>3. Get(FlagsField, 1) \in BOOLEAN
      BY DEF Get
    <3>4. (Get(ValidField, 1) /\ Get(ValidField, 2)) \in BOOLEAN
      OBVIOUS
    <3>5. QED
      BY <3>1, <3>2, <3>3, <3>4 DEF Reads
  <2>3. ASSUME fix # Nothing
        PROVE  /\ fix.speed \in 0 .. UINT16_MAX
               /\ fix.heading \in 0 .. FullTurn - 1
    <3>1. /\ pvt # Nothing
          /\ fix.speed = Speed(pvt.gSpeed)
          /\ fix.heading = Heading(pvt.headMot)
      BY <2>1, <2>3 DEF FixInv
    <3>2. pvt.gSpeed \in Int /\ pvt.headMot \in Int
      BY <2>2, <3>1
    <3>3. Speed(pvt.gSpeed) \in 0 .. UINT16_MAX
      BY <3>2, SpeedFaithful
    <3>4. Heading(pvt.headMot) \in 0 .. FullTurn - 1
      BY <3>2, HeadingFaithful
    <3>5. QED
      BY <3>1, <3>3, <3>4
  <2>4. QED
    BY <2>1, <2>2, <2>3 DEF TypeOK, ServiceInv
<1>2. QED
  BY <1>1, SampleInvariant, PTL

\* The 21 bytes of the buffer are enough for any sample (FitsBuffer,
\* ble_lns.c:213): of the features there is code for, all together take 19.
THEOREM BufferSuffices == Spec => []FitsBuffer
<1>1. SampleInv => FitsBuffer
  BY Fits DEF SampleInv
<1>2. QED
  BY <1>1, SampleInvariant, PTL

\* The phone can take the characteristic apart by the flags alone
\* (PhoneParses, ble_lns.c:107-176).
THEOREM PhoneUnderstands == Spec => []PhoneParses
<1>1. SampleInv => PhoneParses
  BY Parses DEF SampleInv
<1>2. QED
  BY <1>1, SampleInvariant, PTL

\* What is encoded of a sample has a position and a time exactly if the sample
\* has, as far as the service has these features (ble_lns.c:122-166).
LEMMA EncodedFields ==
  ASSUME ServiceInv, sent # "nothing", NEW f \in {LOCATION, UTC_TIME}
  PROVE  f \in out_flags <=> f \in sample /\ f \in lns_feature
<1> DEFINE flags == sample \cap DefinedFlags
<1>1. lns_feature \subseteq IMPLEMENTED /\ out_flags = PutFlags(flags)
  BY DEF ServiceInv, ServiceTypeOK, Buffered
<1>2. PutFlags(flags) \cap (0 .. 6) = Encodes(flags)
  BY <1>1, FlagsOfFields
<1>3. f \in 0 .. 6 /\ f \in DefinedFlags
  BY DEF LOCATION, UTC_TIME, DefinedFlags
<1> QED
  BY <1>1, <1>2, <1>3 DEF Encodes

\* An answer is taken for a fix exactly if it is one, and what is encoded of
\* it has a position, and a time exactly if the answer has a valid one
\* (ToldWhatWasSaid, app_m10.c:85-119).
THEOREM NothingInvented == Spec => []ToldWhatWasSaid
<1>1. SampleInv => ToldWhatWasSaid
  <2> DEFINE fixed == <<FlagsAt, GnssFixOk>> \in payload.bits
             timed == \A b \in {ValidDate, ValidTime} :
                        <<ValidAt, b>> \in payload.bits
  <2>1. ASSUME SampleInv, pvt # Nothing
        PROVE  (pvt.fix_ok <=> fixed) /\ (pvt.time_ok <=> timed)
    <3>1. pvt = Reads
      BY <2>1 DEF SampleInv, ReadInv
    <3>2. /\ pvt.fix_ok <=> Get(FlagsField, 1)
          /\ pvt.time_ok <=> Get(ValidField, 1) /\ Get(ValidField, 2)
      BY <3>1 DEF Reads
    <3> QED
      BY <3>2, PvtFlagsRead
  <2>2. ASSUME SampleInv, fix # Nothing
        PROVE  /\ fixed
               /\ LOCATION \in out_flags <=> LOCATION \in lns_feature
               /\ UTC_TIME \in out_flags <=> timed /\ UTC_TIME \in lns_feature
    <3>1. /\ pvt # Nothing /\ pvt.fix_ok /\ sample = PvtFlags
          /\ sent # "nothing" /\ ServiceInv
      BY <2>2 DEF SampleInv, FixInv
    <3>2. LOCATION \in sample /\ (UTC_TIME \in sample <=> pvt.time_ok)
      BY <3>1 DEF PvtFlags, INST_SPEED, LOCATION, HEADING, UTC_TIME
    <3>3. \A f \in {LOCATION, UTC_TIME} :
            f \in out_flags <=> f \in sample /\ f \in lns_feature
      BY <3>1, EncodedFields
    <3> QED
      BY <2>1, <2>2, <3>1, <3>2, <3>3
  <2> QED
    BY <2>1, <2>2 DEF ToldWhatWasSaid
<1>2. QED
  BY <1>1, SampleInvariant, PTL

\* Speed and heading are the measured ones, for every pair of integers
\* (MotionFaithful, app_m10.c:51-54, 101-110).
THEOREM MotionPreserved == Spec => []MotionFaithful
<1>1. SampleInv => MotionFaithful
  <2> SUFFICES ASSUME SampleInv, fix # Nothing PROVE MotionFaithful
    BY DEF MotionFaithful
  <2> DEFINE speed == Word(GSpeedField)
             angle == Word(HeadMotField)
  <2>1. /\ pvt # Nothing /\ fix.speed = Speed(pvt.gSpeed)
        /\ fix.heading = Heading(pvt.headMot)
    BY DEF SampleInv, FixInv
  <2>2. cast = NavPvtStruct /\ pvt.gSpeed = speed /\ pvt.headMot = angle
    BY <2>1 DEF SampleInv, ReadInv, Reads
  <2>3. /\ speed \in Int /\ angle \in Int
        /\ payload.word[GSpeedAt] = speed
        /\ payload.word[HeadMotAt] = angle
    BY <2>2, Measured DEF SampleInv
  <2> HIDE DEF speed, angle
  <2>4. fix.speed = Speed(speed) /\ fix.heading = Heading(angle)
    BY <2>1, <2>2
  <2>5. /\ Speed(speed) \in 0 .. UINT16_MAX
        /\ speed < 0 => Speed(speed) = 0
        /\ speed > 10 * UINT16_MAX => Speed(speed) = UINT16_MAX
        /\ speed \in 0 .. 10 * UINT16_MAX =>
             speed - 10 * Speed(speed) \in 0 .. 9
    BY <2>3, SpeedFaithful
  <2>6. UINT16_MAX \in Nat
    BY SMT DEF UINT16_MAX
  <2>7. IF speed < 0 THEN Speed(speed) = 0
        ELSE IF speed > 10 * UINT16_MAX THEN Speed(speed) = UINT16_MAX
        ELSE speed - 10 * Speed(speed) \in 0 .. 9
    BY <2>3, <2>5, <2>6
  <2>8. \/ Behind(angle, Heading(angle), 1000, FullTurn) < 1000
        \/ Behind(angle, Heading(angle), 1000, FullTurn)
             > (FullTurn * 1000) - 1000
    BY <2>3, HeadingFaithful
  <2> DEFINE circle == 360 * 100000
  <2>9. circle = FullTurn * 1000
    BY SMT DEF FullTurn
  <2> HIDE DEF circle
  <2>10. LET at     == angle % circle
             behind == (at - Heading(angle) * 1000) % circle
         IN behind < 1000 \/ behind > circle - 1000
    BY <2>8, <2>9 DEF Behind
  <2>11. QED
    BY <2>3, <2>4, <2>7, <2>10, SMT DEF MotionFaithful, circle
<1>2. QED
  BY <1>1, SampleInvariant, PTL

=============================================================================
