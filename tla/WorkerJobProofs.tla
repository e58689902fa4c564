-------------------------- MODULE WorkerJobProofs --------------------------
(* Type correctness and the safety invariants of WorkerJob, for any number *)
(* of workers, machines and runs and any bounds on the environment.        *)
EXTENDS WorkerJob, TLAPS

\* Every action of the specification, for case splits.
Step ==
    \/ \E w \in Workers :
          \/ Register(w) \/ LoopExit(w) \/ SendClaim(w) \/ ClaimGranted(w)
          \/ ClaimIdle(w) \/ ClaimRaises(w) \/ PreRun(w) \/ RunInfergrade(w)
          \/ UploadHeartbeat(w) \/ UploadRunBundle(w) \/ CompleteRunJob(w)
          \/ Report(w) \/ HandleException(w) \/ HandleInterrupt(w) \/ Start(w)
          \/ KeyboardInterrupt(w) \/ Crash(w) \/ LateGrant(w) \/ LateClaimDies(w)
    \/ \E m \in Machines : AskAdmission(m) \/ SetAdmissionPaused(m)
    \/ \E r \in Runs : Cancel(r) \/ Resume(r)
    \/ RevokeToken

LEMMA NextIsStep == Next => Step
  BY DEF Next, Step, WorkerStep

-----------------------------------------------------------------------------
(* Types.  HubComplete and OwnBundle only make sense for a worker that has *)
(* a job, so the types are inductive together with that fact.              *)

TypeInv ==
    /\ TypeOK
    /\ \A w \in Workers : pc[w] \in Executing => job[w] \in Runs

LEMMA TypeStep ==
  ASSUME TypeInv, [Next]_vars
  PROVE  TypeInv'
<1>. USE WorkerAssumption DEF TypeInv, TypeOK, Location, Executing, TryStep, Early, Status, Bundle, BoundKind, hubVars, machineVars, tally
<1>1. ASSUME NEW w \in Workers, Register(w) PROVE TypeInv'
  BY <1>1 DEF CallReturns, CallRaises, TokenRefused, Spend, Goto, Register
<1>2. ASSUME NEW w \in Workers, LoopExit(w) PROVE TypeInv'
  BY <1>2 DEF Goto, LoopExit
<1>3. ASSUME NEW w \in Workers, SendClaim(w) PROVE TypeInv'
  BY <1>3 DEF Goto, SendClaim
<1>4. ASSUME NEW w \in Workers, ClaimGranted(w) PROVE TypeInv'
  BY <1>4 DEF CallReturns, CallRaises, TokenRefused, Spend, Goto, HubGrant, ReleaseAdmission, ClaimGranted
<1>5. ASSUME NEW w \in Workers, ClaimIdle(w) PROVE TypeInv'
  BY <1>5 DEF CallReturns, CallRaises, TokenRefused, Spend, Goto, ReleaseAdmission, ClaimIdle
<1>6. ASSUME NEW w \in Workers, ClaimRaises(w) PROVE TypeInv'
  BY <1>6 DEF CallReturns, CallRaises, TokenRefused, Spend, Goto, ReleaseAdmission, TokenRefused, Spend, ClaimRaises
<1>7. ASSUME NEW w \in Workers, PreRun(w) PROVE TypeInv'
  BY <1>7 DEF CallReturns, CallRaises, TokenRefused, Spend, Goto, AfterPreRun, PreRun
<1>8. ASSUME NEW w \in Workers, RunInfergrade(w) PROVE TypeInv'
  BY <1>8 DEF CallReturns, CallRaises, TokenRefused, Spend, Goto, OwnBundle, MayTear, RunInfergrade
<1>9. ASSUME NEW w \in Workers, UploadHeartbeat(w) PROVE TypeInv'
  BY <1>9 DEF CallReturns, CallRaises, TokenRefused, Spend, Goto, UploadHeartbeat
<1>10. ASSUME NEW w \in Workers, UploadRunBundle(w) PROVE TypeInv'
  BY <1>10 DEF CallReturns, CallRaises, TokenRefused, Spend, Goto, HubUpload, UploadAccepted, OwnBundle, UploadRunBundle
<1>11. ASSUME NEW w \in Workers, CompleteRunJob(w) PROVE TypeInv'
  BY <1>11 DEF CallReturns, CallRaises, TokenRefused, Spend, Goto, HubComplete, Owns, CompleteRunJob
<1>12. ASSUME NEW w \in Workers, Report(w) PROVE TypeInv'
  BY <1>12 DEF CallReturns, CallRaises, TokenRefused, Spend, Goto, Report
<1>13. ASSUME NEW w \in Workers, HandleException(w) PROVE TypeInv'
  BY <1>13 DEF CallReturns, CallRaises, TokenRefused, Spend, Goto, FailRunJob, HubFail, Owns, TimingRaises, HandleException
<1>14. ASSUME NEW w \in Workers, HandleInterrupt(w) PROVE TypeInv'
  BY <1>14 DEF CallReturns, CallRaises, TokenRefused, Spend, Goto, FailRunJob, HubFail, Owns, TimingRaises, HandleInterrupt
<1>15. ASSUME NEW w \in Workers, Start(w) PROVE TypeInv'
  BY <1>15 DEF Spend, Goto, Start
<1>16. ASSUME NEW w \in Workers, KeyboardInterrupt(w) PROVE TypeInv'
  BY <1>16 DEF Spend, Goto, Die, ReleaseAdmission, CutShort, MayTear, OwnBundle, KeyboardInterrupt
<1>17. ASSUME NEW w \in Workers, Crash(w) PROVE TypeInv'
  BY <1>17 DEF Spend, Goto, Die, ReleaseAdmission, CutShort, MayTear, OwnBundle, Crash
<1>18. ASSUME NEW w \in Workers, LateGrant(w) PROVE TypeInv'
  BY <1>18 DEF HubGrant, LateGrant
<1>19. ASSUME NEW w \in Workers, LateClaimDies(w) PROVE TypeInv'
  BY <1>19 DEF LateClaimDies
<1>20. ASSUME NEW m \in Machines, AskAdmission(m) PROVE TypeInv'
  BY <1>20 DEF Spend, AskAdmission
<1>21. ASSUME NEW m \in Machines, SetAdmissionPaused(m) PROVE TypeInv'
  BY <1>21 DEF SetAdmissionPaused
<1>22. ASSUME NEW r \in Runs, Cancel(r) PROVE TypeInv'
  BY <1>22 DEF Spend, Cancel
<1>23. ASSUME NEW r \in Runs, Resume(r) PROVE TypeInv'
  BY <1>23 DEF Spend, Resume
<1>24. CASE RevokeToken
  <2>1. tokenValid' \in BOOLEAN
    BY <1>24, Zenon DEF RevokeToken
  <2>2. budget' \in [BoundKind -> Nat]
    BY <1>24 DEF Spend, RevokeToken
  <2>3. UNCHANGED <<hubStatus, hubOwner, hubBundle, uploads, machineVars, pc,
                    job, lateClaim, tally>>
    BY <1>24, Zenon DEF RevokeToken
  <2>. QED
    BY <2>1, <2>2, <2>3
<1>25. CASE UNCHANGED vars
  BY <1>25 DEF vars
<1>. QED
  BY NextIsStep, <1>1, <1>2, <1>3, <1>4, <1>5, <1>6, <1>7, <1>8, <1>9, <1>10,
     <1>11, <1>12, <1>13, <1>14, <1>15, <1>16, <1>17, <1>18, <1>19,
     <1>20, <1>21, <1>22, <1>23, <1>24, <1>25 DEF Step

\* Every reachable state has its type: in particular an executing worker
\* always has a run to report on (worker.py, execute_run_job).
THEOREM TypeCorrect == Spec => []TypeInv
<1>1. Init => TypeInv
  BY WorkerAssumption
     DEF Init, TypeInv, TypeOK, Location, Executing, TryStep, Early, Status, Bundle
<1>2. TypeInv /\ [Next]_vars => TypeInv'
  BY TypeStep
<1>. QED
  BY <1>1, <1>2, PTL DEF Spec

\* The type invariant the runs check.
THEOREM TypeSafe == Spec => []TypeOK
<1>1. TypeInv => TypeOK
  BY DEF TypeInv
<1>. QED
  BY <1>1, TypeCorrect, PTL

-----------------------------------------------------------------------------
(* Admission.  That no claim is on the wire while the machine is paused is *)
(* not inductive alone: the writer of admission.json is kept out by the    *)
(* lock, so it needs that a claiming worker holds the lock.                *)

LockInv == AdmissionLockDiscipline /\ NoClaimWhilePaused

LEMMA LockStep ==
  ASSUME TypeInv, LockInv, [Next]_vars
  PROVE  LockInv'
<1>. USE WorkerAssumption DEF TypeInv, TypeOK, LockInv, AdmissionLockDiscipline, NoClaimWhilePaused,
        Location, Executing, TryStep, Early, machineVars
<1>1. ASSUME NEW w \in Workers, Register(w) PROVE LockInv'
  BY <1>1 DEF Goto, Register
<1>2. ASSUME NEW w \in Workers, LoopExit(w) PROVE LockInv'
  BY <1>2 DEF Goto, LoopExit
<1>3. ASSUME NEW w \in Workers, SendClaim(w) PROVE LockInv'
  BY <1>3 DEF Goto, SendClaim
<1>4. ASSUME NEW w \in Workers, ClaimGranted(w) PROVE LockInv'
  BY <1>4 DEF Goto, ReleaseAdmission, ClaimGranted
<1>5. ASSUME NEW w \in Workers, ClaimIdle(w) PROVE LockInv'
  BY <1>5 DEF Goto, ReleaseAdmission, ClaimIdle
<1>6. ASSUME NEW w \in Workers, ClaimRaises(w) PROVE LockInv'
  BY <1>6 DEF Goto, ReleaseAdmission, TokenRefused, Spend, ClaimRaises
<1>7. ASSUME NEW w \in Workers, PreRun(w) PROVE LockInv'
  BY <1>7 DEF Goto, AfterPreRun, PreRun
<1>8. ASSUME NEW w \in Workers, RunInfergrade(w) PROVE LockInv'
  BY <1>8 DEF Goto, MayTear, RunInfergrade
<1>9. ASSUME NEW w \in Workers, UploadHeartbeat(w) PROVE LockInv'
  BY <1>9 DEF Goto, UploadHeartbeat
<1>10. ASSUME NEW w \in Workers, UploadRunBundle(w) PROVE LockInv'
  BY <1>10 DEF Goto, UploadRunBundle
<1>11. ASSUME NEW w \in Workers, CompleteRunJob(w) PROVE LockInv'
  BY <1>11 DEF Goto, CompleteRunJob
<1>12. ASSUME NEW w \in Workers, Report(w) PROVE LockInv'
  BY <1>12 DEF Goto, Report
<1>13. ASSUME NEW w \in Workers, HandleException(w) PROVE LockInv'
  BY <1>13 DEF Goto, TimingRaises, HandleException
<1>14. ASSUME NEW w \in Workers, HandleInterrupt(w) PROVE LockInv'
  BY <1>14 DEF Goto, TimingRaises, HandleInterrupt
<1>15. ASSUME NEW w \in Workers, Start(w) PROVE LockInv'
  BY <1>15 DEF Goto, Start
<1>16. ASSUME NEW w \in Workers, KeyboardInterrupt(w) PROVE LockInv'
  BY <1>16 DEF Goto, Die, ReleaseAdmission, CutShort, MayTear, OwnBundle, KeyboardInterrupt
<1>17. ASSUME NEW w \in Workers, Crash(w) PROVE LockInv'
  BY <1>17 DEF Goto, Die, ReleaseAdmission, CutShort, MayTear, OwnBundle, Crash
<1>18. ASSUME NEW w \in Workers, LateGrant(w) PROVE LockInv'
  BY <1>18 DEF LateGrant
<1>19. ASSUME NEW w \in Workers, LateClaimDies(w) PROVE LockInv'
  BY <1>19 DEF LateClaimDies
<1>20. ASSUME NEW m \in Machines, AskAdmission(m) PROVE LockInv'
  BY <1>20 DEF AskAdmission
<1>21. ASSUME NEW m \in Machines, SetAdmissionPaused(m) PROVE LockInv'
  BY <1>21 DEF SetAdmissionPaused
<1>22. ASSUME NEW r \in Runs, Cancel(r) PROVE LockInv'
  BY <1>22 DEF Cancel
<1>23. ASSUME NEW r \in Runs, Resume(r) PROVE LockInv'
  BY <1>23 DEF Resume
<1>24. CASE RevokeToken
  BY <1>24 DEF RevokeToken
<1>25. CASE UNCHANGED vars
  BY <1>25 DEF vars
<1>. QED
  BY NextIsStep, <1>1, <1>2, <1>3, <1>4, <1>5, <1>6, <1>7, <1>8, <1>9, <1>10,
     <1>11, <1>12, <1>13, <1>14, <1>15, <1>16, <1>17, <1>18, <1>19,
     <1>20, <1>21, <1>22, <1>23, <1>24, <1>25 DEF Step

\* admission.lock is held exactly during a claim, and no claim is on the wire
\* on a machine whose pause is confirmed (worker.py:507, admission.py:48-86).
THEOREM AdmissionSafe == Spec => [](AdmissionLockDiscipline /\ NoClaimWhilePaused)
<1>1. Init => LockInv
  BY WorkerAssumption
     DEF Init, LockInv, AdmissionLockDiscipline, NoClaimWhilePaused
<1>2. TypeInv /\ LockInv /\ [Next]_vars => LockInv'
  BY LockStep
<1>3. LockInv => AdmissionLockDiscipline /\ NoClaimWhilePaused
  BY DEF LockInv
<1>. QED
  BY <1>1, <1>2, <1>3, TypeCorrect, PTL DEF Spec

-----------------------------------------------------------------------------
(* Completion.  The order run, upload, complete is carried by the worker's *)
(* location: a bundle is finished from "bundled" on and uploaded from      *)
(* "completing" on.                                                        *)

OrderInv ==
    /\ HubCompletionBacked
    /\ \A w \in Workers :
          /\ pc[w] \in {"bundled", "uploading", "completing", "reporting"}
                => OwnBundle(w) \in finished
          /\ pc[w] \in {"completing", "reporting"} => OwnBundle(w) \in uploads

LEMMA OrderStep ==
  ASSUME TypeInv, OrderInv, [Next]_vars
  PROVE  OrderInv'
<1>. USE WorkerAssumption DEF TypeInv, TypeOK, OrderInv, HubCompletionBacked, OwnBundle, Bundle,
        Location, Executing, TryStep, Early, hubVars, machineVars
<1>1. ASSUME NEW w \in Workers, Register(w) PROVE OrderInv'
  BY <1>1 DEF Goto, Register
<1>2. ASSUME NEW w \in Workers, LoopExit(w) PROVE OrderInv'
  BY <1>2 DEF Goto, LoopExit
<1>3. ASSUME NEW w \in Workers, SendClaim(w) PROVE OrderInv'
  BY <1>3 DEF Goto, SendClaim
<1>4. ASSUME NEW w \in Workers, ClaimGranted(w) PROVE OrderInv'
  BY <1>4 DEF Goto, HubGrant, ClaimGranted
<1>5. ASSUME NEW w \in Workers, ClaimIdle(w) PROVE OrderInv'
  BY <1>5 DEF Goto, ClaimIdle
<1>6. ASSUME NEW w \in Workers, ClaimRaises(w) PROVE OrderInv'
  BY <1>6 DEF Goto, TokenRefused, Spend, ClaimRaises
<1>7. ASSUME NEW w \in Workers, PreRun(w) PROVE OrderInv'
  BY <1>7 DEF Goto, AfterPreRun, PreRun
<1>8. ASSUME NEW w \in Workers, RunInfergrade(w) PROVE OrderInv'
  BY <1>8 DEF Goto, MayTear, RunInfergrade
<1>9. ASSUME NEW w \in Workers, UploadHeartbeat(w) PROVE OrderInv'
  BY <1>9 DEF Goto, UploadHeartbeat
<1>10. ASSUME NEW w \in Workers, UploadRunBundle(w) PROVE OrderInv'
  BY <1>10 DEF Goto, HubUpload, UploadAccepted, UploadRunBundle
<1>11. ASSUME NEW w \in Workers, CompleteRunJob(w) PROVE OrderInv'
  BY <1>11 DEF Goto, HubComplete, Owns, CompleteRunJob
<1>12. ASSUME NEW w \in Workers, Report(w) PROVE OrderInv'
  BY <1>12 DEF Goto, Report
<1>13. ASSUME NEW w \in Workers, HandleException(w) PROVE OrderInv'
  BY <1>13 DEF Goto, FailRunJob, HubFail, Owns, TimingRaises, HandleException
<1>14. ASSUME NEW w \in Workers, HandleInterrupt(w) PROVE OrderInv'
  BY <1>14 DEF Goto, FailRunJob, HubFail, Owns, TimingRaises, HandleInterrupt
<1>15. ASSUME NEW w \in Workers, Start(w) PROVE OrderInv'
  BY <1>15 DEF Goto, Start
<1>16. ASSUME NEW w \in Workers, KeyboardInterrupt(w) PROVE OrderInv'
  BY <1>16 DEF Goto, Die, CutShort, MayTear, OwnBundle, KeyboardInterrupt
<1>17. ASSUME NEW w \in Workers, Crash(w) PROVE OrderInv'
  BY <1>17 DEF Goto, Die, CutShort, MayTear, OwnBundle, Crash
<1>18. ASSUME NEW w \in Workers, LateGrant(w) PROVE OrderInv'
  BY <1>18 DEF HubGrant, LateGrant
<1>19. ASSUME NEW w \in Workers, LateClaimDies(w) PROVE OrderInv'
  BY <1>19 DEF LateClaimDies
<1>20. ASSUME NEW m \in Machines, AskAdmission(m) PROVE OrderInv'
  BY <1>20 DEF AskAdmission
<1>21. ASSUME NEW m \in Machines, SetAdmissionPaused(m) PROVE OrderInv'
  BY <1>21 DEF SetAdmissionPaused
<1>22. ASSUME NEW r \in Runs, Cancel(r) PROVE OrderInv'
  BY <1>22 DEF Cancel
<1>23. ASSUME NEW r \in Runs, Resume(r) PROVE OrderInv'
  BY <1>23 DEF Resume
<1>24. CASE RevokeToken
  BY <1>24 DEF RevokeToken
<1>25. CASE UNCHANGED vars
  BY <1>25 DEF vars
<1>. QED
  BY NextIsStep, <1>1, <1>2, <1>3, <1>4, <1>5, <1>6, <1>7, <1>8, <1>9, <1>10,
     <1>11, <1>12, <1>13, <1>14, <1>15, <1>16, <1>17, <1>18, <1>19,
     <1>20, <1>21, <1>22, <1>23, <1>24, <1>25 DEF Step

\* A run the Hub shows as completed names an uploaded bundle, and only
\* finished bundles are uploaded (worker.py:336-377).
THEOREM CompletionSafe == Spec => []HubCompletionBacked
<1>1. Init => OrderInv
  BY WorkerAssumption DEF Init, OrderInv, HubCompletionBacked
<1>2. TypeInv /\ OrderInv /\ [Next]_vars => OrderInv'
  BY OrderStep
<1>3. OrderInv => HubCompletionBacked
  BY DEF OrderInv
<1>. QED
  BY <1>1, <1>2, <1>3, TypeCorrect, PTL DEF Spec

-----------------------------------------------------------------------------
(* The count of jobs.  The test of run_worker_loop comes before the claim,  *)
(* and one claim is under way or one run executed at a time.               *)

LEMMA JobsStep ==
  ASSUME TypeInv, JobsAreCounted, [Next]_vars
  PROVE  JobsAreCounted'
<1>. USE WorkerAssumption DEF TypeInv, TypeOK, JobsAreCounted, Location, Executing, TryStep, Early, tally
<1>1. ASSUME NEW w \in Workers, Register(w) PROVE JobsAreCounted'
  BY <1>1 DEF Goto, Register
<1>2. ASSUME NEW w \in Workers, LoopExit(w) PROVE JobsAreCounted'
  BY <1>2 DEF Goto, LoopExit
<1>3. ASSUME NEW w \in Workers, SendClaim(w) PROVE JobsAreCounted'
  BY <1>3 DEF Goto, SendClaim
<1>4. ASSUME NEW w \in Workers, ClaimGranted(w) PROVE JobsAreCounted'
  BY <1>4 DEF Goto, ClaimGranted
<1>5. ASSUME NEW w \in Workers, ClaimIdle(w) PROVE JobsAreCounted'
  BY <1>5 DEF Goto, ClaimIdle
<1>6. ASSUME NEW w \in Workers, ClaimRaises(w) PROVE JobsAreCounted'
  BY <1>6 DEF Goto, TokenRefused, Spend, ClaimRaises
<1>7. ASSUME NEW w \in Workers, PreRun(w) PROVE JobsAreCounted'
  BY <1>7 DEF Goto, AfterPreRun, PreRun
<1>8. ASSUME NEW w \in Workers, RunInfergrade(w) PROVE JobsAreCounted'
  BY <1>8 DEF Goto, MayTear, RunInfergrade
<1>9. ASSUME NEW w \in Workers, UploadHeartbeat(w) PROVE JobsAreCounted'
  BY <1>9 DEF Goto, UploadHeartbeat
<1>10. ASSUME NEW w \in Workers, UploadRunBundle(w) PROVE JobsAreCounted'
  BY <1>10 DEF Goto, UploadRunBundle
<1>11. ASSUME NEW w \in Workers, CompleteRunJob(w) PROVE JobsAreCounted'
  BY <1>11 DEF Goto, CompleteRunJob
<1>12. ASSUME NEW w \in Workers, Report(w) PROVE JobsAreCounted'
  BY <1>12 DEF Goto, Report
<1>13. ASSUME NEW w \in Workers, HandleException(w) PROVE JobsAreCounted'
  BY <1>13 DEF Goto, TimingRaises, HandleException
<1>14. ASSUME NEW w \in Workers, HandleInterrupt(w) PROVE JobsAreCounted'
  BY <1>14 DEF Goto, TimingRaises, HandleInterrupt
<1>15. ASSUME NEW w \in Workers, Start(w) PROVE JobsAreCounted'
  BY <1>15 DEF Goto, Start
<1>16. ASSUME NEW w \in Workers, KeyboardInterrupt(w) PROVE JobsAreCounted'
  BY <1>16 DEF Goto, Die, CutShort, MayTear, OwnBundle, KeyboardInterrupt
<1>17. ASSUME NEW w \in Workers, Crash(w) PROVE JobsAreCounted'
  BY <1>17 DEF Goto, Die, CutShort, MayTear, OwnBundle, Crash
<1>18. ASSUME NEW w \in Workers, LateGrant(w) PROVE JobsAreCounted'
  BY <1>18 DEF LateGrant
<1>19. ASSUME NEW w \in Workers, LateClaimDies(w) PROVE JobsAreCounted'
  BY <1>19 DEF LateClaimDies
<1>20. ASSUME NEW m \in Machines, AskAdmission(m) PROVE JobsAreCounted'
  BY <1>20 DEF AskAdmission
<1>21. ASSUME NEW m \in Machines, SetAdmissionPaused(m) PROVE JobsAreCounted'
  BY <1>21 DEF SetAdmissionPaused
<1>22. ASSUME NEW r \in Runs, Cancel(r) PROVE JobsAreCounted'
  BY <1>22 DEF Cancel
<1>23. ASSUME NEW r \in Runs, Resume(r) PROVE JobsAreCounted'
  BY <1>23 DEF Resume
<1>24. CASE RevokeToken
  BY <1>24 DEF Spend, RevokeToken
<1>25. CASE UNCHANGED vars
  BY <1>25 DEF vars
<1>. QED
  BY NextIsStep, <1>1, <1>2, <1>3, <1>4, <1>5, <1>6, <1>7, <1>8, <1>9, <1>10,
     <1>11, <1>12, <1>13, <1>14, <1>15, <1>16, <1>17, <1>18, <1>19, <1>20,
     <1>21, <1>22, <1>23, <1>24, <1>25 DEF Step

\* The loop never counts more than max_jobs runs (worker.py:620, run_worker_loop),
\* however the runs it counts end.
THEOREM JobsSafe == Spec => []JobsAreCounted
<1>1. Init => JobsAreCounted
  BY WorkerAssumption DEF Init, JobsAreCounted, Executing, TryStep, Early
<1>2. TypeInv /\ JobsAreCounted /\ [Next]_vars => JobsAreCounted'
  BY JobsStep
<1>. QED
  BY <1>1, <1>2, TypeCorrect, PTL DEF Spec

-----------------------------------------------------------------------------
(* How a worker moves: down its straight line, or on to another claim with a *)
(* token that stands or after a network fault.                               *)

Shrinks(v) ==
    \/ StepsLeft[pc'[v]] < StepsLeft[pc[v]] \/ pc'[v] = pc[v]
    \/ pc[v] = "stopped"
    \/ pc[v] \in {"register", "claiming"} /\ (tokenValid \/ Spend("fault"))

LEMMA ShrinkStep ==
  ASSUME TypeInv, [Next]_vars, NEW v \in Workers
  PROVE  Shrinks(v)
<1>. USE DEF TypeInv, TypeOK, Shrinks, Location, Executing, TryStep, Early, StepsLeft
<1>1. ASSUME NEW w \in Workers, Register(w) PROVE Shrinks(v)
  BY <1>1 DEF CallReturns, CallRaises, Goto, Register
<1>2. ASSUME NEW w \in Workers, LoopExit(w) PROVE Shrinks(v)
  BY <1>2 DEF Goto, LoopExit
<1>3. ASSUME NEW w \in Workers, SendClaim(w) PROVE Shrinks(v)
  BY <1>3 DEF Goto, SendClaim
<1>4. ASSUME NEW w \in Workers, ClaimGranted(w) PROVE Shrinks(v)
  BY <1>4 DEF CallReturns, Goto, ClaimGranted
<1>5. ASSUME NEW w \in Workers, ClaimIdle(w) PROVE Shrinks(v)
  BY <1>5 DEF CallReturns, Goto, ClaimIdle
<1>6. ASSUME NEW w \in Workers, ClaimRaises(w) PROVE Shrinks(v)
  BY <1>6 DEF Goto, TokenRefused, Spend, ClaimRaises
<1>7. ASSUME NEW w \in Workers, PreRun(w) PROVE Shrinks(v)
  BY <1>7 DEF AfterPreRun, Goto, PreRun
<1>8. ASSUME NEW w \in Workers, RunInfergrade(w) PROVE Shrinks(v)
  BY <1>8 DEF Goto, MayTear, RunInfergrade
<1>9. ASSUME NEW w \in Workers, UploadHeartbeat(w) PROVE Shrinks(v)
  BY <1>9 DEF Goto, UploadHeartbeat
<1>10. ASSUME NEW w \in Workers, UploadRunBundle(w) PROVE Shrinks(v)
  BY <1>10 DEF Goto, UploadRunBundle
<1>11. ASSUME NEW w \in Workers, CompleteRunJob(w) PROVE Shrinks(v)
  BY <1>11 DEF Goto, CompleteRunJob
<1>12. ASSUME NEW w \in Workers, Report(w) PROVE Shrinks(v)
  BY <1>12 DEF Goto, Report
<1>13. ASSUME NEW w \in Workers, HandleException(w) PROVE Shrinks(v)
  BY <1>13 DEF Goto, TimingRaises, HandleException
<1>14. ASSUME NEW w \in Workers, HandleInterrupt(w) PROVE Shrinks(v)
  BY <1>14 DEF Goto, TimingRaises, HandleInterrupt
<1>15. ASSUME NEW w \in Workers, Start(w) PROVE Shrinks(v)
  BY <1>15 DEF Goto, Start
<1>16. ASSUME NEW w \in Workers, KeyboardInterrupt(w) PROVE Shrinks(v)
  BY <1>16 DEF Die, Goto, CutShort, MayTear, OwnBundle, KeyboardInterrupt
<1>17. ASSUME NEW w \in Workers, Crash(w) PROVE Shrinks(v)
  BY <1>17 DEF Die, Goto, CutShort, MayTear, OwnBundle, Crash
<1>18. ASSUME NEW w \in Workers, LateGrant(w) PROVE Shrinks(v)
  BY <1>18 DEF LateGrant
<1>19. ASSUME NEW w \in Workers, LateClaimDies(w) PROVE Shrinks(v)
  BY <1>19 DEF LateClaimDies
<1>20. ASSUME NEW m \in Machines, AskAdmission(m) PROVE Shrinks(v)
  BY <1>20 DEF AskAdmission
<1>21. ASSUME NEW m \in Machines, SetAdmissionPaused(m) PROVE Shrinks(v)
  BY <1>21 DEF SetAdmissionPaused
<1>22. ASSUME NEW r \in Runs, Cancel(r) PROVE Shrinks(v)
  BY <1>22 DEF Cancel
<1>23. ASSUME NEW r \in Runs, Resume(r) PROVE Shrinks(v)
  BY <1>23 DEF Resume
<1>24. CASE RevokeToken
  BY <1>24 DEF RevokeToken
<1>25. CASE UNCHANGED vars
  BY <1>25 DEF vars
<1>. QED
  BY NextIsStep, <1>1, <1>2, <1>3, <1>4, <1>5, <1>6, <1>7, <1>8, <1>9, <1>10,
     <1>11, <1>12, <1>13, <1>14, <1>15, <1>16, <1>17, <1>18, <1>19, <1>20,
     <1>21, <1>22, <1>23, <1>24, <1>25 DEF Step

\* No step of a worker leads back: a run, once claimed, is executed in a straight
\* line whatever raises on it (worker.py:107, execute_run_job), and only a token
\* that stands, or a claim that met a network fault, lets a worker go on to
\* another claim (worker.py:641-669, run_worker_loop).
THEOREM ForwardSafe == Spec => WorkerShrinks
<1>1. TypeInv /\ [Next]_vars =>
        [\A w \in Workers :
          \/ StepsLeft[pc'[w]] < StepsLeft[pc[w]] \/ pc'[w] = pc[w]
          \/ pc[w] = "stopped"
          \/ pc[w] \in {"register", "claiming"} /\ (tokenValid \/ Spend("fault"))]_vars
  BY ShrinkStep DEF Shrinks
<1>. QED
  BY <1>1, TypeCorrect, PTL DEF Spec, WorkerShrinks

-----------------------------------------------------------------------------
(* What the environment has spent is never given back, so a step that ends *)
(* in a calm world started in one, and so does one that ends in a world    *)
(* without operators.                                                      *)

BudgetInv == \A k \in BoundKind : budget[k] <= Bound[k]

TokenHolds == tokenValid' => tokenValid

Spent == \A k \in BoundKind : budget'[k] <= budget[k]

LEMMA BudgetStep ==
  ASSUME TypeInv, [Next]_vars
  PROVE  Spent
<1>. USE WorkerAssumption DEF TypeInv, TypeOK, Spent, BoundKind
<1>1. ASSUME NEW w \in Workers, Register(w) PROVE Spent
  BY <1>1 DEF CallReturns, CallRaises, TokenRefused, Spend, Register
<1>2. ASSUME NEW w \in Workers, LoopExit(w) PROVE Spent
  BY <1>2 DEF LoopExit
<1>3. ASSUME NEW w \in Workers, SendClaim(w) PROVE Spent
  BY <1>3 DEF SendClaim
<1>4. ASSUME NEW w \in Workers, ClaimGranted(w) PROVE Spent
  BY <1>4 DEF CallReturns, CallRaises, TokenRefused, Spend, ClaimGranted
<1>5. ASSUME NEW w \in Workers, ClaimIdle(w) PROVE Spent
  BY <1>5 DEF CallReturns, CallRaises, TokenRefused, Spend, ClaimIdle
<1>6. ASSUME NEW w \in Workers, ClaimRaises(w) PROVE Spent
  BY <1>6 DEF CallReturns, CallRaises, TokenRefused, Spend, TokenRefused, Spend, ClaimRaises
<1>7. ASSUME NEW w \in Workers, PreRun(w) PROVE Spent
  BY <1>7 DEF CallReturns, CallRaises, TokenRefused, Spend, PreRun
<1>8. ASSUME NEW w \in Workers, RunInfergrade(w) PROVE Spent
  BY <1>8 DEF CallReturns, CallRaises, TokenRefused, Spend, MayTear, RunInfergrade
<1>9. ASSUME NEW w \in Workers, UploadHeartbeat(w) PROVE Spent
  BY <1>9 DEF CallReturns, CallRaises, TokenRefused, Spend, UploadHeartbeat
<1>10. ASSUME NEW w \in Workers, UploadRunBundle(w) PROVE Spent
  BY <1>10 DEF CallReturns, CallRaises, TokenRefused, Spend, UploadRunBundle
<1>11. ASSUME NEW w \in Workers, CompleteRunJob(w) PROVE Spent
  BY <1>11 DEF CallReturns, CallRaises, TokenRefused, Spend, CompleteRunJob
<1>12. ASSUME NEW w \in Workers, Report(w) PROVE Spent
  BY <1>12 DEF CallReturns, CallRaises, TokenRefused, Spend, Report
<1>13. ASSUME NEW w \in Workers, HandleException(w) PROVE Spent
  BY <1>13 DEF CallReturns, CallRaises, TokenRefused, Spend, FailRunJob, TimingRaises, HandleException
<1>14. ASSUME NEW w \in Workers, HandleInterrupt(w) PROVE Spent
  BY <1>14 DEF CallReturns, CallRaises, TokenRefused, Spend, FailRunJob, TimingRaises, HandleInterrupt
<1>15. ASSUME NEW w \in Workers, Start(w) PROVE Spent
  BY <1>15 DEF Spend, Start
<1>16. ASSUME NEW w \in Workers, KeyboardInterrupt(w) PROVE Spent
  BY <1>16 DEF Spend, Die, CutShort, MayTear, OwnBundle, KeyboardInterrupt
<1>17. ASSUME NEW w \in Workers, Crash(w) PROVE Spent
  BY <1>17 DEF Spend, CutShort, MayTear, OwnBundle, Crash
<1>18. ASSUME NEW w \in Workers, LateGrant(w) PROVE Spent
  BY <1>18 DEF LateGrant
<1>19. ASSUME NEW w \in Workers, LateClaimDies(w) PROVE Spent
  BY <1>19 DEF LateClaimDies
<1>20. ASSUME NEW m \in Machines, AskAdmission(m) PROVE Spent
  BY <1>20 DEF Spend, AskAdmission
<1>21. ASSUME NEW m \in Machines, SetAdmissionPaused(m) PROVE Spent
  BY <1>21 DEF SetAdmissionPaused
<1>22. ASSUME NEW r \in Runs, Cancel(r) PROVE Spent
  BY <1>22 DEF Spend, Cancel
<1>23. ASSUME NEW r \in Runs, Resume(r) PROVE Spent
  BY <1>23 DEF Spend, Resume
<1>24. CASE RevokeToken
  BY <1>24 DEF Spend, RevokeToken
<1>25. CASE UNCHANGED vars
  BY <1>25 DEF vars
<1>. QED
  BY NextIsStep, <1>1, <1>2, <1>3, <1>4, <1>5, <1>6, <1>7, <1>8, <1>9, <1>10,
     <1>11, <1>12, <1>13, <1>14, <1>15, <1>16, <1>17, <1>18, <1>19, <1>20,
     <1>21, <1>22, <1>23, <1>24, <1>25 DEF Step

LEMMA TokenStep ==
  ASSUME [Next]_vars
  PROVE  TokenHolds
<1>. USE DEF TokenHolds, hubVars, machineVars
<1>1. ASSUME NEW w \in Workers, Register(w) PROVE TokenHolds
  BY <1>1, Zenon DEF Register
<1>2. ASSUME NEW w \in Workers, LoopExit(w) PROVE TokenHolds
  BY <1>2, Zenon DEF LoopExit
<1>3. ASSUME NEW w \in Workers, SendClaim(w) PROVE TokenHolds
  BY <1>3, Zenon DEF SendClaim
<1>4. ASSUME NEW w \in Workers, ClaimGranted(w) PROVE TokenHolds
  <2>1. PICK r \in Runs : HubGrant(w, r)
    BY <1>4, Zenon DEF ClaimGranted
  <2>. QED
    BY <2>1, Zenon DEF HubGrant
<1>5. ASSUME NEW w \in Workers, ClaimIdle(w) PROVE TokenHolds
  BY <1>5, Zenon DEF ClaimIdle
<1>6. ASSUME NEW w \in Workers, ClaimRaises(w) PROVE TokenHolds
  BY <1>6, Zenon DEF TokenRefused, Spend, ClaimRaises
<1>7. ASSUME NEW w \in Workers, PreRun(w) PROVE TokenHolds
  BY <1>7, Zenon DEF PreRun
<1>8. ASSUME NEW w \in Workers, RunInfergrade(w) PROVE TokenHolds
  BY <1>8, Zenon DEF MayTear, RunInfergrade
<1>9. ASSUME NEW w \in Workers, UploadHeartbeat(w) PROVE TokenHolds
  BY <1>9, Zenon DEF UploadHeartbeat
<1>10. ASSUME NEW w \in Workers, UploadRunBundle(w) PROVE TokenHolds
  BY <1>10, Zenon DEF CallReturns, CallRaises, TokenRefused, Spend, HubGrant, HubUpload, HubComplete, HubFail, FailRunJob, Die, UploadRunBundle
<1>11. ASSUME NEW w \in Workers, CompleteRunJob(w) PROVE TokenHolds
  BY <1>11, Zenon DEF CallReturns, CallRaises, TokenRefused, Spend, HubGrant, HubUpload, HubComplete, HubFail, FailRunJob, Die, CompleteRunJob
<1>12. ASSUME NEW w \in Workers, Report(w) PROVE TokenHolds
  BY <1>12, Zenon DEF Report
<1>13. ASSUME NEW w \in Workers, HandleException(w) PROVE TokenHolds
  BY <1>13, Zenon DEF CallReturns, CallRaises, TokenRefused, Spend, HubGrant, HubUpload, HubComplete, HubFail, FailRunJob, Die, TimingRaises, HandleException
<1>14. ASSUME NEW w \in Workers, HandleInterrupt(w) PROVE TokenHolds
  BY <1>14, Zenon DEF CallReturns, CallRaises, TokenRefused, Spend, HubGrant, HubUpload, HubComplete, HubFail, FailRunJob, Die, TimingRaises, HandleInterrupt
<1>15. ASSUME NEW w \in Workers, Start(w) PROVE TokenHolds
  BY <1>15, Zenon DEF Start
<1>16. ASSUME NEW w \in Workers, KeyboardInterrupt(w) PROVE TokenHolds
  BY <1>16, Zenon DEF KeyboardInterrupt, Die
<1>17. ASSUME NEW w \in Workers, Crash(w) PROVE TokenHolds
  BY <1>17, Zenon DEF Crash, Die
<1>18. ASSUME NEW w \in Workers, LateGrant(w) PROVE TokenHolds
  BY <1>18, Zenon DEF LateGrant, HubGrant
<1>19. ASSUME NEW w \in Workers, LateClaimDies(w) PROVE TokenHolds
  BY <1>19, Zenon DEF LateClaimDies
<1>20. ASSUME NEW m \in Machines, AskAdmission(m) PROVE TokenHolds
  BY <1>20, Zenon DEF AskAdmission
<1>21. ASSUME NEW m \in Machines, SetAdmissionPaused(m) PROVE TokenHolds
  BY <1>21, Zenon DEF SetAdmissionPaused
<1>22. ASSUME NEW r \in Runs, Cancel(r) PROVE TokenHolds
  BY <1>22, Zenon DEF Cancel
<1>23. ASSUME NEW r \in Runs, Resume(r) PROVE TokenHolds
  BY <1>23, Zenon DEF Resume
<1>24. CASE RevokeToken
  BY <1>24, Zenon DEF RevokeToken
<1>25. CASE UNCHANGED vars
  BY <1>25, Zenon DEF vars
<1>. QED
  BY NextIsStep, <1>1, <1>2, <1>3, <1>4, <1>5, <1>6, <1>7, <1>8, <1>9, <1>10,
     <1>11, <1>12, <1>13, <1>14, <1>15, <1>16, <1>17, <1>18, <1>19, <1>20,
     <1>21, <1>22, <1>23, <1>24, <1>25 DEF Step

LEMMA BudgetInvStep ==
  ASSUME TypeInv, BudgetInv, [Next]_vars
  PROVE  BudgetInv'
<1>. USE DEF TypeInv, TypeOK, BudgetInv
<1>. SUFFICES ASSUME NEW k \in BoundKind PROVE budget'[k] <= Bound[k]
  OBVIOUS
<1>1. budget'[k] <= budget[k]
  BY BudgetStep DEF Spent
<1>2. budget'[k] \in Nat /\ budget[k] \in Nat /\ Bound[k] \in Nat
  BY TypeStep, WorkerAssumption DEF TypeInv, TypeOK
<1>. QED
  BY <1>1, <1>2

\* A budget that is full after a step was full before it, and the step has
\* spent nothing of it.
LEMMA FullBack ==
  ASSUME TypeInv, BudgetInv, [Next]_vars, NEW k \in BoundKind, budget'[k] = Bound[k]
  PROVE  budget[k] = Bound[k] /\ ~Spend(k)
<1>1. budget'[k] <= budget[k] /\ budget[k] <= Bound[k]
  BY BudgetStep DEF Spent, BudgetInv
<1>2. budget \in [BoundKind -> Nat] /\ Bound[k] \in Nat
  BY WorkerAssumption DEF TypeInv, TypeOK
<1>3. budget[k] = Bound[k]
  BY <1>1, <1>2
<1>4. ~Spend(k)
  BY <1>2, <1>3 DEF Spend
<1>. QED
  BY <1>3, <1>4

LEMMA CalmBack ==
  ASSUME TypeInv, BudgetInv, [Next]_vars, Calm'
  PROVE  /\ Calm
         /\ ~CallRaises
         /\ ~Spend("fault") /\ ~Spend("crash") /\ ~Spend("interrupt") /\ ~Spend("operator")
<1>. USE DEF BoundKind
<1>1. tokenValid
  BY TokenStep, Zenon DEF TokenHolds, Calm
<1>2. \A k \in {"fault", "crash", "interrupt", "operator"} : budget'[k] = Bound[k]
  BY Zenon DEF Calm
<1>3. \A k \in {"fault", "crash", "interrupt", "operator"} : budget[k] = Bound[k] /\ ~Spend(k)
  BY <1>2, FullBack
<1>4. ~CallRaises
  BY <1>1, <1>3, Zenon DEF CallRaises, TokenRefused
<1>5. Calm
  BY <1>1, <1>3, Zenon DEF Calm
<1>. QED
  BY <1>3, <1>4, <1>5

-----------------------------------------------------------------------------
(* Runs and their workers.  A worker that reports has told the Hub that    *)
(* the run is complete, so it leaves no running run behind when it goes on *)
(* to its next claim.                                                      *)

Running ==
    /\ lateClaim = {}
    /\ \A r \in Runs :
          hubStatus[r] = "running" =>
              /\ hubOwner[r] \in Workers
              /\ \/ pc[hubOwner[r]] \in Executing /\ job[hubOwner[r]] = r
                 \/ <<Home[hubOwner[r]], r>> \in torn
    /\ \A w \in Workers : pc[w] = "reporting" => ~Owns(w, job[w])

RunningInv == Calm => Running


LEMMA RunningStep ==
  ASSUME TypeInv, Running, [Next]_vars,
         ~CallRaises, ~Spend("fault"), ~Spend("crash"), ~Spend("interrupt"),
         ~Spend("operator")
  PROVE  Running'
<1>. USE WorkerAssumption DEF TypeInv, TypeOK, Running, Owns, Location, Executing, TryStep, Early, hubVars,
       machineVars, tally
<1>1. ASSUME NEW w \in Workers, Register(w) PROVE Running'
  BY <1>1 DEF Goto, Register
<1>2. ASSUME NEW w \in Workers, LoopExit(w) PROVE Running'
  BY <1>2 DEF Goto, LoopExit
<1>3. ASSUME NEW w \in Workers, SendClaim(w) PROVE Running'
  BY <1>3 DEF Goto, SendClaim
<1>4. ASSUME NEW w \in Workers, ClaimGranted(w) PROVE Running'
  BY <1>4 DEF Goto, HubGrant, ClaimGranted
<1>5. ASSUME NEW w \in Workers, ClaimIdle(w) PROVE Running'
  BY <1>5 DEF Goto, ClaimIdle
<1>6. ASSUME NEW w \in Workers, ClaimRaises(w) PROVE Running'
  BY <1>6, Zenon DEF CallRaises, ClaimRaises
<1>7. ASSUME NEW w \in Workers, PreRun(w) PROVE Running'
  BY <1>7 DEF Goto, AfterPreRun, PreRun
<1>8. ASSUME NEW w \in Workers, RunInfergrade(w) PROVE Running'
  BY <1>8 DEF Goto, MayTear, RunInfergrade
<1>9. ASSUME NEW w \in Workers, UploadHeartbeat(w) PROVE Running'
  BY <1>9 DEF Goto, UploadHeartbeat
<1>10. ASSUME NEW w \in Workers, UploadRunBundle(w) PROVE Running'
  BY <1>10 DEF Goto, HubUpload, UploadAccepted, UploadRunBundle
<1>11. ASSUME NEW w \in Workers, CompleteRunJob(w) PROVE Running'
  <2>1. /\ pc[w] = "completing"
        /\ HubComplete(w)
        /\ Goto(w, "reporting")
        /\ UNCHANGED <<job, lateClaim>>
    BY <1>11, Zenon DEF CompleteRunJob, tally
  <2>. QED
    <3>1. /\ \A v \in Workers \ {w} : pc'[v] = pc[v] /\ job'[v] = job[v]
          /\ pc'[w] = "reporting" /\ job'[w] = job[w]
      BY <2>1 DEF Goto
    <3>2. ~Owns(w, job[w])'
      BY <2>1, <3>1 DEF HubComplete
    <3>3. \A r \in Runs : hubStatus'[r] = "running" => hubStatus[r] = "running"
      BY <2>1 DEF HubComplete
    <3>4. UNCHANGED <<hubOwner, lateClaim, torn>>
      BY <1>11, <2>1, Zenon DEF HubComplete, CompleteRunJob
    <3>5. \A v \in Workers : pc'[v] = "reporting" => ~Owns(v, job[v])'
      BY <2>1, <3>1, <3>2, <3>3, <3>4
    <3>6. \A v \in Workers : pc[v] \in Executing => pc'[v] \in Executing /\ job'[v] = job[v]
      BY <2>1, <3>1
    <3>. QED
      BY <3>3, <3>4, <3>5, <3>6
<1>12. ASSUME NEW w \in Workers, Report(w) PROVE Running'
  BY <1>12 DEF Goto, Report
<1>13. ASSUME NEW w \in Workers, HandleException(w) PROVE Running'
  <2>1. pc[w] \in Executing /\ job[w] \in Runs /\ pc'[w] \notin {"reporting"}
    BY <1>13 DEF Goto, HandleException
  <2>2. CASE ~TimingRaises(w)
    <3>1. HubFail(w) /\ UNCHANGED <<torn, lateClaim>>
      BY <1>13, <2>2, Zenon DEF FailRunJob, HandleException
    <3>2. /\ \A v \in Workers \ {w} : pc'[v] = pc[v] /\ job'[v] = job[v]
          /\ pc'[w] # "reporting"
      BY <1>13 DEF Goto, HandleException
    <3>. QED
      BY <3>1, <3>2, <2>1 DEF HubFail
  <2>3. CASE TimingRaises(w)
    <3>1. UNCHANGED <<hubStatus, hubOwner, torn, lateClaim>>
      BY <1>13, <2>3, Zenon DEF HandleException
    <3>2. /\ \A v \in Workers \ {w} : pc'[v] = pc[v] /\ job'[v] = job[v]
          /\ pc'[w] # "reporting"
      BY <1>13 DEF Goto, HandleException
    <3>3. <<Home[w], job[w]>> \in torn
      BY <2>3, Zenon DEF TimingRaises, OwnBundle
    <3>. QED
      BY <3>1, <3>2, <3>3, <2>1
  <2>. QED
    BY <2>2, <2>3
<1>14. ASSUME NEW w \in Workers, HandleInterrupt(w) PROVE Running'
  <2>1. pc[w] \in Executing /\ job[w] \in Runs /\ pc'[w] \notin {"reporting"}
    BY <1>14 DEF Goto, HandleInterrupt
  <2>2. CASE ~TimingRaises(w)
    <3>1. HubFail(w) /\ UNCHANGED <<torn, lateClaim>>
      BY <1>14, <2>2, Zenon DEF FailRunJob, HandleInterrupt
    <3>2. /\ \A v \in Workers \ {w} : pc'[v] = pc[v] /\ job'[v] = job[v]
          /\ pc'[w] # "reporting"
      BY <1>14 DEF Goto, HandleInterrupt
    <3>. QED
      BY <3>1, <3>2, <2>1 DEF HubFail
  <2>3. CASE TimingRaises(w)
    <3>1. UNCHANGED <<hubStatus, hubOwner, torn, lateClaim>>
      BY <1>14, <2>3, Zenon DEF HandleInterrupt
    <3>2. /\ \A v \in Workers \ {w} : pc'[v] = pc[v] /\ job'[v] = job[v]
          /\ pc'[w] # "reporting"
      BY <1>14 DEF Goto, HandleInterrupt
    <3>3. <<Home[w], job[w]>> \in torn
      BY <2>3, Zenon DEF TimingRaises, OwnBundle
    <3>. QED
      BY <3>1, <3>2, <3>3, <2>1
  <2>. QED
    BY <2>2, <2>3
<1>15. ASSUME NEW w \in Workers, Start(w) PROVE Running'
  BY <1>15 DEF Goto, Start
<1>16. ASSUME NEW w \in Workers, KeyboardInterrupt(w) PROVE Running'
  BY <1>16 DEF CutShort, MayTear, OwnBundle, KeyboardInterrupt
<1>17. ASSUME NEW w \in Workers, Crash(w) PROVE Running'
  BY <1>17 DEF CutShort, MayTear, OwnBundle, Crash
<1>18. ASSUME NEW w \in Workers, LateGrant(w) PROVE Running'
  BY <1>18 DEF HubGrant, LateGrant
<1>19. ASSUME NEW w \in Workers, LateClaimDies(w) PROVE Running'
  BY <1>19 DEF LateClaimDies
<1>20. ASSUME NEW m \in Machines, AskAdmission(m) PROVE Running'
  BY <1>20 DEF AskAdmission
<1>21. ASSUME NEW m \in Machines, SetAdmissionPaused(m) PROVE Running'
  BY <1>21 DEF SetAdmissionPaused
<1>22. ASSUME NEW r \in Runs, Cancel(r) PROVE Running'
  BY <1>22 DEF Cancel
<1>23. ASSUME NEW r \in Runs, Resume(r) PROVE Running'
  BY <1>23 DEF Resume
<1>24. CASE RevokeToken
  BY <1>24 DEF Spend, RevokeToken
<1>25. CASE UNCHANGED vars
  BY <1>25 DEF vars
<1>. QED
  BY NextIsStep, <1>1, <1>2, <1>3, <1>4, <1>5, <1>6, <1>7, <1>8, <1>9, <1>10,
     <1>11, <1>12, <1>13, <1>14, <1>15, <1>16, <1>17, <1>18, <1>19, <1>20,
     <1>21, <1>22, <1>23, <1>24, <1>25 DEF Step

LEMMA RunningInvStep ==
  ASSUME TypeInv, BudgetInv, RunningInv, [Next]_vars
  PROVE  RunningInv'
<1>. SUFFICES ASSUME Calm' PROVE Running'
  BY DEF RunningInv
<1>1. Running
  BY CalmBack, Zenon DEF RunningInv
<1>. QED
  BY <1>1, CalmBack, RunningStep

\* In a calm world a run the Hub shows as running is being executed by the
\* worker it names (worker.py:107-470, execute_run_job), or its progress.json on
\* that worker's machine is torn (worker.py:157, 411, 442): no claim and no other
\* exception leaves a run behind.  It is the part of NoRunStranded that needs
\* no fairness.
THEOREM RunningSafe == Spec => []RunningIsRun
<1>1. Init => BudgetInv /\ RunningInv
  BY WorkerAssumption DEF Init, BudgetInv, RunningInv, Running
<1>2. TypeInv /\ BudgetInv /\ RunningInv /\ [Next]_vars => (BudgetInv /\ RunningInv)'
  BY BudgetInvStep, RunningInvStep
<1>3. RunningInv => RunningIsRun
  BY DEF RunningInv, Running, RunningIsRun
<1>. QED
  BY <1>1, <1>2, <1>3, TypeCorrect, PTL DEF Spec

One ==
    /\ \A w \in Workers : pc[w] \in Executing => hubStatus[job[w]] # "awaiting_execution"
    /\ \A v, w \in Workers :
          pc[v] \in Executing /\ pc[w] \in Executing /\ job[v] = job[w] => v = w

OneInv == budget["operator"] = Bound["operator"] => One


LEMMA OneStep ==
  ASSUME TypeInv, One, [Next]_vars, ~Spend("operator")
  PROVE  One'
<1>. USE WorkerAssumption DEF TypeInv, TypeOK, One, Location, Executing, TryStep, Early, hubVars,
       machineVars, tally
<1>1. ASSUME NEW w \in Workers, Register(w) PROVE One'
  BY <1>1 DEF Goto, Register
<1>2. ASSUME NEW w \in Workers, LoopExit(w) PROVE One'
  BY <1>2 DEF Goto, LoopExit
<1>3. ASSUME NEW w \in Workers, SendClaim(w) PROVE One'
  BY <1>3 DEF Goto, SendClaim
<1>4. ASSUME NEW w \in Workers, ClaimGranted(w) PROVE One'
  BY <1>4 DEF Goto, HubGrant, ClaimGranted
<1>5. ASSUME NEW w \in Workers, ClaimIdle(w) PROVE One'
  BY <1>5 DEF Goto, ClaimIdle
<1>6. ASSUME NEW w \in Workers, ClaimRaises(w) PROVE One'
  BY <1>6 DEF Goto, TokenRefused, Spend, ClaimRaises
<1>7. ASSUME NEW w \in Workers, PreRun(w) PROVE One'
  BY <1>7 DEF Goto, AfterPreRun, PreRun
<1>8. ASSUME NEW w \in Workers, RunInfergrade(w) PROVE One'
  BY <1>8 DEF Goto, MayTear, RunInfergrade
<1>9. ASSUME NEW w \in Workers, UploadHeartbeat(w) PROVE One'
  BY <1>9 DEF Goto, UploadHeartbeat
<1>10. ASSUME NEW w \in Workers, UploadRunBundle(w) PROVE One'
  BY <1>10 DEF Goto, HubUpload, UploadAccepted, UploadRunBundle
<1>11. ASSUME NEW w \in Workers, CompleteRunJob(w) PROVE One'
  BY <1>11 DEF Goto, HubComplete, Owns, CompleteRunJob
<1>12. ASSUME NEW w \in Workers, Report(w) PROVE One'
  BY <1>12 DEF Goto, Report
<1>13. ASSUME NEW w \in Workers, HandleException(w) PROVE One'
  BY <1>13 DEF Goto, FailRunJob, HubFail, Owns, TimingRaises, HandleException
<1>14. ASSUME NEW w \in Workers, HandleInterrupt(w) PROVE One'
  BY <1>14 DEF Goto, FailRunJob, HubFail, Owns, TimingRaises, HandleInterrupt
<1>15. ASSUME NEW w \in Workers, Start(w) PROVE One'
  BY <1>15 DEF Goto, Start
<1>16. ASSUME NEW w \in Workers, KeyboardInterrupt(w) PROVE One'
  BY <1>16 DEF Goto, Die, CutShort, MayTear, OwnBundle, KeyboardInterrupt
<1>17. ASSUME NEW w \in Workers, Crash(w) PROVE One'
  BY <1>17 DEF Goto, Die, CutShort, MayTear, OwnBundle, Crash
<1>18. ASSUME NEW w \in Workers, LateGrant(w) PROVE One'
  BY <1>18 DEF HubGrant, LateGrant
<1>19. ASSUME NEW w \in Workers, LateClaimDies(w) PROVE One'
  BY <1>19 DEF LateClaimDies
<1>20. ASSUME NEW m \in Machines, AskAdmission(m) PROVE One'
  BY <1>20 DEF AskAdmission
<1>21. ASSUME NEW m \in Machines, SetAdmissionPaused(m) PROVE One'
  BY <1>21 DEF SetAdmissionPaused
<1>22. ASSUME NEW r \in Runs, Cancel(r) PROVE One'
  BY <1>22 DEF Cancel
<1>23. ASSUME NEW r \in Runs, Resume(r) PROVE One'
  BY <1>23 DEF Resume
<1>24. CASE RevokeToken
  BY <1>24 DEF Spend, RevokeToken
<1>25. CASE UNCHANGED vars
  BY <1>25 DEF vars
<1>. QED
  BY NextIsStep, <1>1, <1>2, <1>3, <1>4, <1>5, <1>6, <1>7, <1>8, <1>9, <1>10,
     <1>11, <1>12, <1>13, <1>14, <1>15, <1>16, <1>17, <1>18, <1>19, <1>20,
     <1>21, <1>22, <1>23, <1>24, <1>25 DEF Step

LEMMA OneInvStep ==
  ASSUME TypeInv, BudgetInv, OneInv, [Next]_vars
  PROVE  OneInv'
<1>. SUFFICES ASSUME budget'["operator"] = Bound["operator"] PROVE One'
  BY DEF OneInv
<1>1. budget["operator"] = Bound["operator"] /\ ~Spend("operator")
  BY FullBack DEF BoundKind
<1>2. One
  BY <1>1 DEF OneInv
<1>. QED
  BY <1>1, <1>2, OneStep

\* Until an operator takes a run back, no two workers execute the same run,
\* though claims and answers are lost and workers die (worker.py:489-560,
\* run_worker_once).
THEOREM OneExecutorSafe == Spec => []OneExecutor
<1>1. Init => BudgetInv /\ OneInv
  BY WorkerAssumption DEF Init, BudgetInv, OneInv, One, Executing, TryStep, Early
<1>2. TypeInv /\ BudgetInv /\ OneInv /\ [Next]_vars => (BudgetInv /\ OneInv)'
  BY BudgetInvStep, OneInvStep
<1>3. OneInv => OneExecutor
  BY DEF OneInv, One, OneExecutor
<1>. QED
  BY <1>1, <1>2, <1>3, TypeCorrect, PTL DEF Spec

=============================================================================
