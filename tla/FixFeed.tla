------------------------------ MODULE FixFeed -------------------------------
(***************************************************************************)
(* What the tracker promises the phone about its fixes: each one answers a *)
(* request the tracker has made, and answers a later request than the fix  *)
(* before it.  No fix is repeated, none goes back in time, none is made up.*)
(* GnssLink implements it.                                                 *)
(***************************************************************************)
EXTENDS Naturals

VARIABLES
  asked,   \* requests made so far; request n is the n-th
  last,    \* the request the latest fix answers, 0 before the first
  fixes    \* fixes taken so far

vars == <<asked, last, fixes>>

Init == asked = 0 /\ last = 0 /\ fixes = 0

Ask == asked' = asked + 1 /\ UNCHANGED <<last, fixes>>

Take ==
  /\ last' \in last + 1 .. asked
  /\ fixes' = fixes + 1
  /\ UNCHANGED asked

Next == Ask \/ Take

Spec == Init /\ [][Next]_vars
=============================================================================
