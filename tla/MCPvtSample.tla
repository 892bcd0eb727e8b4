---------------------------- MODULE MCPvtSample -----------------------------
(* An instance of PvtSample: values around every boundary of the code.     *)
EXTENDS PvtSample, TLC

\* Every mask of the seven fields, with and without a feature that is defined
\* but has no code, and one bit that is not defined.
MCRequests == {s \cup t : s \in SUBSET (0 .. 6), t \in {{}, {17}, {21}}}

\* Every combination of fields; no attribute, the one the application sets,
\* two mixtures, all of them, and a bit that is not defined.
MCSampleFlags ==
  {s \cup t : s \in SUBSET (0 .. 6),
             t \in {{}, {7}, {8, 11, 12}, {9, 10}, 7 .. 12, {15}}}

Speeds == {-2147483647 - 1, -1, 0, 9, 10, 1999, 655349, 655350, 655360,
           2147483647}

Headings == {-2147483647 - 1, -36000001, -36000000, -35999001, -1000, -999,
             -1, 0, 999, 1000, 35999999, 36000000, 36000999, 2147483647}

MCMotions == (Speeds \X {1000}) \cup ({10} \X Headings)

=============================================================================
