---------------------------- MODULE MainLoopTicks ---------------------------
(***************************************************************************)
(* MainLoop with a history variable that tells a tick nobody has seen from *)
(* one that has been handled: k_event_post records both, and only the next *)
(* k_event_wait clears them (main.c:31, 84).                               *)
(***************************************************************************)
EXTENDS MainLoop

VARIABLE
  missed    \* ghost: a tick came during the last m10_pvt_update, and the
            \* main thread has not waited since

tickVars == <<vars, missed>>

TickInit == Init /\ missed = FALSE

TickInUpdate == PpsEdge /\ locked /\ ppsOn /\ pc = "update"

TickNext ==
  /\ Next
  /\ missed' = ((missed \/ TickInUpdate) /\ ~Wait)

TickSpec == TickInit /\ [][TickNext]_tickVars /\ Fairness

\* docs/M10_design.md:37-41: a 1pps interrupt sends a signal to the main
\* thread, which polls a PVT message.  So a tick that came while the main
\* thread was in m10_pvt_update would have to be delivered by its next
\* k_event_wait, which finds it recorded (main.c:84, 93).
EveryTickServed == [][Wait /\ missed => TICK \in got']_tickVars

=============================================================================
