-------------------------- MODULE MCCaseCheckpoint --------------------------
(* Instances of CaseCheckpoint for TLC.                                      *)
EXTENDS CaseCheckpoint, TLC

\* Every attempt may be cut short, and the Runner replaced and put back.
MCResumeBound == "kill" :> 1 @@ "trouble" :> 1 @@ "upgrade" :> 2 @@ "attempt" :> 3
MCKillBound == "kill" :> 2 @@ "trouble" :> 0 @@ "upgrade" :> 0 @@ "attempt" :> 3
=============================================================================
