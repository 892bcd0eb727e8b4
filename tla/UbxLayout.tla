----------------------------- MODULE UbxLayout ------------------------------
(***************************************************************************)
(* What the compiler makes of the structures of UbxMessages.  The firmware *)
(* casts a pointer into the receive buffer to a pointer to a structure     *)
(* (app_m10.c:85, 160), with no packed attribute in either header: a field *)
(* is read where the C layout puts it, and was written where the protocol  *)
(* puts it, with no gap before it.                                         *)
(***************************************************************************)
EXTENDS UbxMessages, Integers, FiniteSetsExt

Width(field) == field.size * field.count

AlignUp(offset, size) == ((offset + size - 1) \div size) * size

\* Where the k-th field of the message begins, and how long the message is.
WireEnds(fields) ==
  LET end[k \in 0 .. Len(fields)] ==
        IF k = 0 THEN 0 ELSE end[k - 1] + Width(fields[k])
  IN end
WireOffset(fields, k) == WireEnds(fields)[k - 1]
WireSize(fields)      == WireEnds(fields)[Len(fields)]

\* The same in C: each field on a multiple of its size, the whole a multiple
\* of its widest field.
Ends(fields) ==
  LET end[k \in 0 .. Len(fields)] ==
        IF k = 0 THEN 0
        ELSE AlignUp(end[k - 1], fields[k].size) + Width(fields[k])
  IN end
Offset(fields, k) == AlignUp(Ends(fields)[k - 1], fields[k].size)
Alignment(fields) == Max({1} \cup {fields[k].size : k \in DOMAIN fields})
SizeOf(fields) == AlignUp(Ends(fields)[Len(fields)], Alignment(fields))

UBX_HEAD_SIZE == SizeOf(UbxHead)

\* Every structure, as its message and its name there.
Structs == UNION {{<<m, s>> : s \in DOMAIN Messages[m].structs} :
                    m \in DOMAIN Messages}
FieldsOf(struct) == Messages[struct[1]].structs[struct[2]]

\* A cast to the structure reads every field where the message has it.
Overlays(fields) ==
  /\ \A k \in DOMAIN fields : Offset(fields, k) = WireOffset(fields, k)
  /\ SizeOf(fields) = WireSize(fields)

\* The _GET macros of a field read disjoint bits of it.
GettersApart(field) ==
  LET masks == field.masks IN
  /\ \A a \in DOMAIN masks : masks[a] \subseteq 0 .. 8 * field.size - 1
  /\ \A a, b \in DOMAIN masks : a # b => masks[a] \cap masks[b] = {}

=============================================================================
