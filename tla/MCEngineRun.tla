---------------------------- MODULE MCEngineRun ----------------------------
(* Instances of EngineRun for TLC: three or four cases, two profiles with a warmup,   *)
(* and one or two of each mishap.                                           *)
EXTENDS EngineRun

CONSTANTS e1, e2

\* The limits of the three buckets rising twice, falling and mixed, and a
\* pinned fixture that is larger than all of them.
MCCaseLists == {<<4, 8, 16, 4>>, <<16, 8, 4>>, <<4, 32, 8>>}
MCBound == [death |-> 2, trouble |-> 2, stuck |-> 1, interrupt |-> 1]
=============================================================================
