---------------------------- MODULE MCWorkerJob ----------------------------
(* Instances of WorkerJob for TLC: two workers, together on one machine,   *)
(* and the bounds on what their environment does.                          *)
EXTENDS WorkerJob, TLC

CONSTANTS w1, w2, m1, m2, r1, r2

MCShared == [w \in {w1, w2} |-> m1]

NoTrouble == [k \in BoundKind |-> 0]

\* Admission commands against claims, lost claims, dying workers and a
\* revoked token.
MCFairBound == [NoTrouble EXCEPT !.start = 2, !.fault = 1, !.trouble = 1,
                                 !.crash = 1, !.pause = 1, !.revoke = 1, !.interrupt = 1, !.operator = 1]
\* One network fault and nothing else.
MCOneFaultBound == [NoTrouble EXCEPT !.start = 1, !.fault = 1]
=============================================================================
