--------------------------- MODULE RunBundleProofs ---------------------------
(***************************************************************************)
(* Proofs about RunBundle for any profiles, any builds and any bounds: the *)
(* types, the durability of the runtime lock, the wholeness of a completed *)
(* bundle, the honesty of its receipt, and the contract.  Each layer is an *)
(* inductive invariant that uses the ones before it.                       *)
(***************************************************************************)
EXTENDS RunBundle, TLAPS

\* The request's profiles as a function on 1 .. Len(Profiles).
LEMMA ProfileFacts ==
  /\ Len(Profiles) \in Nat
  /\ DOMAIN Profiles = 1 .. Len(Profiles)
  /\ \A i \in 1 .. Len(Profiles) : Profiles[i] \in Profile
  /\ \A p \in Profile : \E i \in 1 .. Len(Profiles) : p = Profiles[i]
BY BundleAssumption DEF Profile

-----------------------------------------------------------------------------
(* Types.  The cursor stays within the request because a profile is only   *)
(* measured while there is one.                                            *)

TypeInv ==
    /\ TypeOK
    /\ pc \in {"measuring", "measured"} => cursor <= Len(Profiles)

LEMMA FreshTyped == FreshProgress \in Progress /\ LegacyProgress \in Progress
BY DEF FreshProgress, LegacyProgress, Progress, ProfileStatus

LEMMA TypeStep ==
  ASSUME TypeInv, [Next]_vars
  PROVE  TypeInv'
<1>. USE DEF TypeInv, TypeOK, LockStatus, BoundKind, Stages, diskVars, where, runVars, userVars
<1>1. CASE EndWrite
  BY <1>1 DEF Files, EndWrite
<1>2. CASE FirstSave
  BY <1>2 DEF At, Save, Truncate, Progress, ProfileStatus, Files, FirstSave
<1>3. CASE MarkStageStarted
  BY <1>3 DEF At, Save, Truncate, StageIs, Progress, ProfileStatus, Files, MarkStageStarted
<1>4. CASE StageWork
  BY <1>4 DEF At, StageIs, StageWork
<1>5. CASE BindRuntime
  BY <1>5 DEF At, StageIs, Progress, ProfileStatus, BindRuntime
<1>6. CASE RestoreRuntime
  BY <1>6 DEF At, StageIs, Progress, ProfileStatus, RestoreRuntime
<1>7. CASE RefuseRuntime
  BY <1>7 DEF At, StageIs, RefuseRuntime
<1>8. CASE SaveLockSummary
  BY <1>8 DEF At, Save, Truncate, Progress, ProfileStatus, Files, SaveLockSummary
<1>9. CASE MarkStageCompleted
  BY <1>9 DEF At, Save, Truncate, Progress, ProfileStatus, Files, MarkStageCompleted
<1>10. CASE LoadMetrics
  BY <1>10 DEF At, LoadMetrics
<1>11. CASE ReuseResult
  <2>1. cursor' \in 1 .. Len(Profiles) + 1 /\ pc' \in {"profiles", "failing"}
    BY <1>11, ProfileFacts DEF MoreProfiles, ReuseResult
  <2>. QED
    BY <1>11, <2>1 DEF ReuseResult
<1>12. CASE MarkProfileStarted
  <2>1. cursor \in 1 .. Len(Profiles)
    BY <1>12, ProfileFacts DEF At, MoreProfiles, MarkProfileStarted
  <2>2. Current \in Profile
    BY <2>1, ProfileFacts DEF Current
  <2>3. mem' \in Progress
    BY <1>12, <2>2 DEF Save, Progress, ProfileStatus, MarkProfileStarted
  <2>4. savedProgress' \in Progress
    BY <1>12, <2>3 DEF Save, MarkProfileStarted
  <2>5. file' \in [Files -> {"absent", "torn", "whole"}] /\ writing' \in Files
    BY <1>12 DEF Save, Truncate, Files, MarkProfileStarted
  <2>6. cursor' \in 1 .. Len(Profiles) + 1 /\ detail' \in Profile \union {None}
        /\ cursor' = IF pc' = "measuring" THEN cursor ELSE cursor + 1
    BY <1>12, <2>1, <2>2, ProfileFacts DEF Save, MarkProfileStarted
  <2>. QED
    BY <1>12, <2>1, <2>3, <2>4, <2>5, <2>6, ProfileFacts DEF At, Save, MarkProfileStarted
<1>13. CASE MeasureProfile
  <2>1. Current \in Profile
    BY <1>13, ProfileFacts DEF At, Current, MeasureProfile
  <2>2. savedRecord' \in [Profile -> Record]
    BY <1>13, <2>1 DEF Record, MeasureProfile
  <2>3. file' \in [Files -> {"absent", "torn", "whole"}] /\ writing' \in Files
    BY <1>13, <2>1 DEF Truncate, Files, MeasureProfile
  <2>. QED
    BY <1>13, <2>2, <2>3 DEF At, MeasureProfile
<1>14. CASE MarkProfileCompleted
  <2>1. cursor \in 1 .. Len(Profiles)
    BY <1>14, ProfileFacts DEF At, MoreProfiles, MarkProfileCompleted
  <2>2. Current \in Profile
    BY <2>1, ProfileFacts DEF Current
  <2>3. mem' \in Progress
    BY <1>14, <2>2 DEF Save, Progress, ProfileStatus, MarkProfileCompleted
  <2>4. savedProgress' \in Progress
    BY <1>14, <2>3 DEF Save, MarkProfileCompleted
  <2>5. file' \in [Files -> {"absent", "torn", "whole"}] /\ writing' \in Files
    BY <1>14 DEF Save, Truncate, Files, MarkProfileCompleted
  <2>6. cursor' \in 1 .. Len(Profiles) + 1 /\ detail' \in Profile \union {None}
        /\ cursor' = IF pc' = "measuring" THEN cursor ELSE cursor + 1
    BY <1>14, <2>1, <2>2, ProfileFacts DEF Save, MarkProfileCompleted
  <2>. QED
    BY <1>14, <2>1, <2>3, <2>4, <2>5, <2>6, ProfileFacts DEF At, Save, MarkProfileCompleted
<1>15. CASE FinalizeReceipt
  <2>1. lockFile' \in [Builds -> LockStatus]
    BY <1>15 DEF FinalizeReceipt
  <2>2. cursor' \in 1 .. Len(Profiles) + 1 /\ pc' \in {"receipts", "failing"}
    BY <1>15, ProfileFacts DEF FinalizeReceipt
  <2>. QED
    BY <1>15, <2>1, <2>2 DEF FinalizeReceipt
<1>16. CASE WriteReceipt
  <2>1. cursor \in 1 .. Len(Profiles)
    BY <1>16, ProfileFacts DEF At, MoreProfiles, WriteReceipt
  <2>2. Current \in Profile
    BY <2>1, ProfileFacts DEF Current
  <2>3. savedRecord[Current] \in Record /\ mem.lock \in Builds \union {None}
    BY <2>2 DEF Progress
  <2>4. [savedRecord[Current] EXCEPT !.receipt = mem.lock] \in Record
    BY <2>3 DEF Record
  <2>5. savedRecord' \in [Profile -> Record]
    BY <1>16, <2>2, <2>4 DEF WriteReceipt
  <2>6. file' \in [Files -> {"absent", "torn", "whole"}] /\ writing' \in Files
    BY <1>16, <2>2 DEF Truncate, Files, WriteReceipt
  <2>7. cursor' \in 1 .. Len(Profiles) + 1
    BY <1>16, <2>1, ProfileFacts DEF WriteReceipt
  <2>. QED
    BY <1>16, <2>5, <2>6, <2>7 DEF At, WriteReceipt
<1>17. CASE WriteArtifacts
  BY <1>17 DEF At, MoreProfiles, Truncate, Files, WriteArtifacts
<1>18. CASE StartFinalization
  BY <1>18 DEF At, Save, Truncate, Progress, ProfileStatus, Files, StartFinalization
<1>19. CASE WriteSummary
  BY <1>19 DEF At, Truncate, Files, WriteSummary
<1>20. CASE EndFinalization
  BY <1>20 DEF At, Save, Truncate, Progress, ProfileStatus, Files, EndFinalization
<1>21. CASE MarkCompleted
  BY <1>21 DEF At, Save, Truncate, Progress, ProfileStatus, Files, MarkCompleted
<1>22. CASE Return
  BY <1>22 DEF At, Return
<1>23. CASE Fail
  BY <1>23 DEF At, Save, Truncate, FailedProgress, Progress, ProfileStatus, Files, Fail
<1>24. ASSUME NEW resume \in BOOLEAN, Attempt(resume) PROVE TypeInv'
  <2>1. mem' \in Progress
    BY <1>24, FreshTyped DEF Attempt
  <2>2. budget' \in [BoundKind -> Nat]
    BY <1>24 DEF Attempt, Spend
  <2>3. cursor' \in 1 .. Len(Profiles) + 1 /\ stage' \in 1 .. Len(Stages)
    BY <1>24, ProfileFacts DEF Attempt
  <2>4. detail' \in Profile \union {None} /\ bound' \in BOOLEAN /\ dirMade' \in BOOLEAN
        /\ pc' = "created"
    BY <1>24 DEF Attempt
  <2>. QED
    BY <1>24, <2>1, <2>2, <2>3, <2>4 DEF Attempt
<1>25. CASE Raise
  BY <1>25 DEF At, Uncaught, Spend, Raise
<1>26. CASE Kill
  BY <1>26 DEF Spend, Kill
<1>27. CASE ChangeBinary
  BY <1>27 DEF Spend, ChangeBinary
<1>28. CASE LoseLock
  BY <1>28 DEF Spend, LoseLock
<1>29. CASE UNCHANGED vars
  BY <1>29 DEF vars, userVars
<1>. QED
  BY <1>1, <1>2, <1>3, <1>4, <1>5, <1>6, <1>7, <1>8, <1>9, <1>10,
     <1>11, <1>12, <1>13, <1>14, <1>15, <1>16, <1>17, <1>18, <1>19, <1>20,
     <1>21, <1>22, <1>23, <1>24, <1>25, <1>26, <1>27, <1>28, <1>29
     DEF Next, RunStep

\* Every reachable state has its type, and no profile is measured beyond the
\* last one of the request (runner.py:604-1126).
THEOREM TypeCorrect == Spec => []TypeInv
<1>1. Init => TypeInv
  <2>. SUFFICES ASSUME Init PROVE TypeInv
    OBVIOUS
  <2>1. savedProgress \in Progress /\ mem \in Progress
    BY FreshTyped DEF Init
  <2>2. savedRecord \in [Profile -> Record]
    BY DEF Init, NoRecord, Record
  <2>3. lockFile \in [Builds -> LockStatus]
    BY DEF Init, LockStatus
  <2>4. file \in [Files -> {"absent", "torn", "whole"}]
    BY DEF Init
  <2>5. 1 \in 1 .. Len(Profiles) + 1 /\ 1 \in 1 .. Len(Stages)
    BY ProfileFacts DEF Stages
  <2>6. budget \in [BoundKind -> Nat]
    BY BundleAssumption DEF Init
  <2>. QED
    BY <2>1, <2>2, <2>3, <2>4, <2>5, <2>6 DEF Init, TypeInv, TypeOK
<1>2. TypeInv /\ [Next]_vars => TypeInv'
  BY TypeStep
<1>. QED
  BY <1>1, <1>2, PTL DEF Spec

\* The variables of the run directory keep their types (runner.py:604-1126).
THEOREM TypeSafe == Spec => []TypeOK
<1>1. TypeInv => TypeOK
  BY DEF TypeInv
<1>. QED
  BY <1>1, TypeCorrect, PTL

-----------------------------------------------------------------------------
(* Truncating a file tears it and leaves every other file as it is.         *)
LEMMA TruncateFiles ==
  ASSUME TypeInv, NEW f \in Files, Truncate(f)
  PROVE  /\ writing' = f
         /\ f # None
         /\ file'[f] = "torn"
         /\ \A g \in Files \ {f} : file'[g] = file[g]
BY BundleAssumption DEF TypeInv, TypeOK, Truncate

\* No profile has the name of another file.
LEMMA FileNames ==
  /\ Profile \subseteq Files \ {"progress", "metrics", "summary"}
  /\ {"progress", "metrics", "summary"} \subseteq Files
BY BundleAssumption DEF Files

-----------------------------------------------------------------------------
(* The lock.  Once progress.json names a runtime build, every attempt works *)
(* with that build, and no step past the runtime_lock stage is reached      *)
(* before progress.json does.                                              *)

PastLockStage ==
    \/ pc \in {"load_metrics", "profiles", "measuring", "measured", "receipts",
                "final_start", "final_work", "final_end", "complete", "cleanup"}
    \/ pc \in {"stage_start", "stage_work"} /\ stage > 3
    \/ pc = "stage_end" /\ stage >= 3

LockInv ==
    /\ ~dirMade => /\ savedProgress.lock = None
                   /\ savedProgress.status # "completed"
                   /\ pc = "stopped"
                   /\ writing = None
                   /\ \A p \in Profile : file[p] = "absent"
    /\ writing # None => file[writing] = "torn"
    /\ pc = "created" => stage = 1
    /\ pc = "lock_bound" => mem.lock # None
    /\ (pc # "stopped" /\ savedProgress.lock # None) => mem.lock = savedProgress.lock
    /\ PastLockStage => savedProgress.lock # None
    /\ (\E p \in Profile : file[p] # "absent") => savedProgress.lock # None

LEMMA LockStep ==
  ASSUME TypeInv, LockInv, [Next]_vars
  PROVE  LockInv'
<1>. USE DEF TypeInv, TypeOK, LockInv, PastLockStage, diskVars, where, runVars, userVars
<1>a. Stages[3] = "runtime_lock" /\ Len(Stages) = 6
  BY DEF Stages
<1>b. Profile \subseteq Files
  BY DEF Files
<1>1. CASE EndWrite
  BY <1>1, <1>b DEF EndWrite
<1>2. CASE FirstSave
  <2>1. Truncate("progress") /\ savedProgress' = mem'
    BY <1>2 DEF Save, FirstSave
  <2>2. mem'.lock = mem.lock
    BY <1>2 DEF Save, Progress, FirstSave
  <2>3. /\ writing' = "progress" /\ file'["progress"] = "torn"
        /\ \A p \in Profile : file'[p] = file[p]
    BY <2>1, TruncateFiles, FileNames
  <2>. QED
    BY <1>2, <2>1, <2>2, <2>3, <1>a DEF At, Save, FirstSave
<1>3. CASE MarkStageStarted
  <2>1. Truncate("progress") /\ savedProgress' = mem'
    BY <1>3 DEF Save, MarkStageStarted
  <2>2. mem'.lock = mem.lock
    BY <1>3 DEF Save, Progress, MarkStageStarted
  <2>3. /\ writing' = "progress" /\ file'["progress"] = "torn"
        /\ \A p \in Profile : file'[p] = file[p]
    BY <2>1, TruncateFiles, FileNames
  <2>. QED
    BY <1>3, <2>1, <2>2, <2>3, <1>a DEF At, Save, MarkStageStarted, StageIs
<1>4. CASE StageWork
  BY <1>4, <1>a DEF At, StageIs, StageWork
<1>5. CASE BindRuntime
  <2>1. mem'.lock = binary /\ binary # None
    BY <1>5, BundleAssumption DEF Progress, BindRuntime
  <2>. QED
    BY <1>5, <2>1 DEF At, BindRuntime
<1>6. CASE RestoreRuntime
  BY <1>6 DEF At, StageIs, RestoreRuntime
<1>7. CASE RefuseRuntime
  BY <1>7 DEF At, StageIs, RefuseRuntime
<1>8. CASE SaveLockSummary
  <2>1. Truncate("progress") /\ savedProgress' = mem'
    BY <1>8 DEF Save, SaveLockSummary
  <2>2. mem'.lock = mem.lock
    BY <1>8 DEF Save, Progress, SaveLockSummary
  <2>3. /\ writing' = "progress" /\ file'["progress"] = "torn"
        /\ \A p \in Profile : file'[p] = file[p]
    BY <2>1, TruncateFiles, FileNames
  <2>. QED
    BY <1>8, <2>1, <2>2, <2>3, <1>a DEF At, Save, SaveLockSummary
<1>9. CASE MarkStageCompleted
  <2>1. Truncate("progress") /\ savedProgress' = mem'
    BY <1>9 DEF Save, MarkStageCompleted
  <2>2. mem'.lock = mem.lock
    BY <1>9 DEF Save, Progress, MarkStageCompleted
  <2>3. /\ writing' = "progress" /\ file'["progress"] = "torn"
        /\ \A p \in Profile : file'[p] = file[p]
    BY <2>1, TruncateFiles, FileNames
  <2>. QED
    BY <1>9, <2>1, <2>2, <2>3, <1>a DEF At, Save, MarkStageCompleted
<1>10. CASE LoadMetrics
  BY <1>10 DEF At, LoadMetrics
<1>11. CASE ReuseResult
  BY <1>11 DEF At, MoreProfiles, HasResult, Current, ReuseResult
<1>12. CASE MarkProfileStarted
  <2>1. Truncate("progress") /\ savedProgress' = mem'
    BY <1>12 DEF Save, MarkProfileStarted
  <2>2. mem'.lock = mem.lock
    BY <1>12 DEF Save, Progress, MarkProfileStarted
  <2>3. /\ writing' = "progress" /\ file'["progress"] = "torn"
        /\ \A p \in Profile : file'[p] = file[p]
    BY <2>1, TruncateFiles, FileNames
  <2>. QED
    BY <1>12, <2>1, <2>2, <2>3, <1>a DEF At, Save, MarkProfileStarted, MoreProfiles
<1>13. CASE MeasureProfile
  <2>1. Current \in Files \ {"progress"}
    BY <1>13, FileNames, ProfileFacts DEF TypeInv, At, MoreProfiles, Current, MeasureProfile
  <2>2. /\ writing' = Current /\ file'[Current] = "torn"
        /\ \A g \in Files \ {Current} : file'[g] = file[g]
    BY <1>13, <2>1, TruncateFiles DEF MeasureProfile
  <2>. QED
    BY <1>13, <2>1, <2>2, FileNames DEF At, MeasureProfile
<1>14. CASE MarkProfileCompleted
  <2>1. Truncate("progress") /\ savedProgress' = mem'
    BY <1>14 DEF Save, MarkProfileCompleted
  <2>2. mem'.lock = mem.lock
    BY <1>14 DEF Save, Progress, MarkProfileCompleted
  <2>3. /\ writing' = "progress" /\ file'["progress"] = "torn"
        /\ \A p \in Profile : file'[p] = file[p]
    BY <2>1, TruncateFiles, FileNames
  <2>. QED
    BY <1>14, <2>1, <2>2, <2>3, <1>a DEF At, Save, MarkProfileCompleted
<1>15. CASE FinalizeReceipt
  BY <1>15 DEF At, FinalizeReceipt
<1>16. CASE WriteReceipt
  <2>1. Current \in Files \ {"progress"}
    BY <1>16, FileNames, ProfileFacts DEF TypeInv, At, MoreProfiles, Current, WriteReceipt
  <2>2. /\ writing' = Current /\ file'[Current] = "torn"
        /\ \A g \in Files \ {Current} : file'[g] = file[g]
    BY <1>16, <2>1, TruncateFiles DEF WriteReceipt
  <2>. QED
    BY <1>16, <2>1, <2>2, FileNames DEF At, WriteReceipt
<1>17. CASE WriteArtifacts
  <2>1. "metrics" \in Files \ {"progress"}
    BY <1>17, FileNames
  <2>2. /\ writing' = "metrics" /\ file'["metrics"] = "torn"
        /\ \A g \in Files \ {"metrics"} : file'[g] = file[g]
    BY <1>17, <2>1, TruncateFiles DEF WriteArtifacts
  <2>. QED
    BY <1>17, <2>1, <2>2, FileNames DEF At, WriteArtifacts
<1>18. CASE StartFinalization
  <2>1. Truncate("progress") /\ savedProgress' = mem'
    BY <1>18 DEF Save, StartFinalization
  <2>2. mem'.lock = mem.lock
    BY <1>18 DEF Save, Progress, StartFinalization
  <2>3. /\ writing' = "progress" /\ file'["progress"] = "torn"
        /\ \A p \in Profile : file'[p] = file[p]
    BY <2>1, TruncateFiles, FileNames
  <2>. QED
    BY <1>18, <2>1, <2>2, <2>3, <1>a DEF At, Save, StartFinalization
<1>19. CASE WriteSummary
  <2>1. "summary" \in Files \ {"progress"}
    BY <1>19, FileNames
  <2>2. /\ writing' = "summary" /\ file'["summary"] = "torn"
        /\ \A g \in Files \ {"summary"} : file'[g] = file[g]
    BY <1>19, <2>1, TruncateFiles DEF WriteSummary
  <2>. QED
    BY <1>19, <2>1, <2>2, FileNames DEF At, WriteSummary
<1>20. CASE EndFinalization
  <2>1. Truncate("progress") /\ savedProgress' = mem'
    BY <1>20 DEF Save, EndFinalization
  <2>2. mem'.lock = mem.lock
    BY <1>20 DEF Save, Progress, EndFinalization
  <2>3. /\ writing' = "progress" /\ file'["progress"] = "torn"
        /\ \A p \in Profile : file'[p] = file[p]
    BY <2>1, TruncateFiles, FileNames
  <2>. QED
    BY <1>20, <2>1, <2>2, <2>3, <1>a DEF At, Save, EndFinalization
<1>21. CASE MarkCompleted
  <2>1. Truncate("progress") /\ savedProgress' = mem'
    BY <1>21 DEF Save, MarkCompleted
  <2>2. mem'.lock = mem.lock
    BY <1>21 DEF Save, Progress, MarkCompleted
  <2>3. /\ writing' = "progress" /\ file'["progress"] = "torn"
        /\ \A p \in Profile : file'[p] = file[p]
    BY <2>1, TruncateFiles, FileNames
  <2>. QED
    BY <1>21, <2>1, <2>2, <2>3, <1>a DEF At, Save, MarkCompleted
<1>22. CASE Return
  BY <1>22 DEF At, Return
<1>23. CASE Fail
  <2>1. Truncate("progress") /\ savedProgress' = mem'
    BY <1>23 DEF Save, Fail
  <2>2. mem'.lock = mem.lock
    BY <1>23 DEF Save, Progress, Fail, FailedProgress
  <2>3. /\ writing' = "progress" /\ file'["progress"] = "torn"
        /\ \A p \in Profile : file'[p] = file[p]
    BY <2>1, TruncateFiles, FileNames
  <2>. QED
    BY <1>23, <2>1, <2>2, <2>3, <1>a DEF At, Save, Fail
<1>24. ASSUME NEW resume \in BOOLEAN, Attempt(resume) PROVE LockInv'
  BY <1>24 DEF At, MayAttempt, Reusable, Spend, FreshProgress, Attempt
<1>25. CASE Raise
  BY <1>25 DEF At, Uncaught, Spend, Raise
<1>26. CASE Kill
  BY <1>26 DEF Spend, Kill
<1>27. CASE ChangeBinary
  BY <1>27 DEF Spend, ChangeBinary
<1>28. CASE LoseLock
  BY <1>28 DEF Spend, LoseLock
<1>29. CASE UNCHANGED vars
  BY <1>29 DEF vars, userVars, diskVars, where, runVars
<1>. QED
  BY <1>1, <1>2, <1>3, <1>4, <1>5, <1>6, <1>7, <1>8, <1>9, <1>10,
     <1>11, <1>12, <1>13, <1>14, <1>15, <1>16, <1>17, <1>18, <1>19, <1>20,
     <1>21, <1>22, <1>23, <1>24, <1>25, <1>26, <1>27, <1>28, <1>29
     DEF Next, RunStep

LEMMA LockInit == Init => LockInv
BY BundleAssumption DEF Init, LockInv, PastLockStage, FreshProgress, LegacyProgress, Files

\* No result is on disk before progress.json durably names the runtime build
\* the directory is bound to (runner.py:741-744, 865-911).
THEOREM LockSafe == Spec => []LockBeforeEvidence
<1>1. Init => LockInv
  BY LockInit
<1>2. TypeInv /\ LockInv /\ [Next]_vars => LockInv'
  BY LockStep
<1>3. LockInv => LockBeforeEvidence
  BY DEF LockInv, LockBeforeEvidence
<1>. QED
  BY <1>1, <1>2, <1>3, TypeCorrect, PTL DEF Spec

-----------------------------------------------------------------------------
(* Wholeness.  A file the attempt has written is whole, or is the one being *)
(* written; the receipts are in every record before the summary is written, *)
(* and the summary before progress.json says completed.                     *)

Written(f) == file[f] = "whole" \/ writing = f
Receipted(p) == Written(p) /\ savedRecord[p].receipt = mem.lock

Whole ==
    /\ savedProgress.lock # None
    /\ file["summary"] = "whole"
    /\ \A p \in Profile :
          file[p] = "whole" /\ savedRecord[p].receipt = savedProgress.lock

WholeInv ==
    /\ savedProgress.status = "completed" =>
          /\ Whole
          /\ pc \in {"stopped", "cleanup", "failing"}
          /\ writing \in {None, "progress"}
    /\ mem.status = "completed" => pc \in {"stopped", "cleanup", "failing"}
    /\ (pc = "stopped" /\ writing # None) =>
          writing = "progress" /\ savedProgress.status # "completed"
    /\ pc = "receipts" =>
          \A i \in 1 .. Len(Profiles) : i < cursor => Receipted(Profiles[i])
    /\ pc \in {"final_start", "final_work", "final_end", "complete"} =>
          \A p \in Profile : Receipted(p)
    /\ pc \in {"final_end", "complete"} => Written("summary")

LEMMA WholeStep ==
  ASSUME TypeInv, LockInv, WholeInv, [Next]_vars
  PROVE  WholeInv'
<1>. USE DEF TypeInv, TypeOK, LockInv, PastLockStage, WholeInv, Whole, Receipted, Written, diskVars, where, runVars, userVars
<1>1. CASE EndWrite
  <2>1. \A f \in Files : file'[f] = IF f = writing THEN "whole" ELSE file[f]
    BY <1>1 DEF EndWrite
  <2>2. \A f \in Files : Written(f) => Written(f)'
    BY <1>1, <2>1 DEF EndWrite
  <2>3. \A p \in Profile : Receipted(p) => Receipted(p)'
    BY <1>1, <2>2, FileNames DEF EndWrite
  <2>4. Whole => Whole'
    BY <1>1, <2>1, FileNames DEF EndWrite
  <2>. QED
    BY <1>1, <2>2, <2>3, <2>4, FileNames, ProfileFacts DEF EndWrite
<1>2. CASE FirstSave
  <2>1. Truncate("progress") /\ savedProgress' = mem'
    BY <1>2 DEF Save, FirstSave
  <2>2. mem'.lock = mem.lock /\ mem'.status = mem.status
    BY <1>2 DEF Save, Progress, FirstSave
  <2>3. /\ writing' = "progress" /\ writing' # None /\ file'["summary"] = file["summary"]
        /\ \A p \in Profile : file'[p] = file[p]
    BY <2>1, TruncateFiles, FileNames
  <2>. QED
    BY <1>2, <2>1, <2>2, <2>3 DEF At, Save, FirstSave
<1>3. CASE MarkStageStarted
  <2>1. Truncate("progress") /\ savedProgress' = mem'
    BY <1>3 DEF Save, MarkStageStarted
  <2>2. mem'.lock = mem.lock /\ mem'.status = "running"
    BY <1>3 DEF Save, Progress, MarkStageStarted
  <2>3. /\ writing' = "progress" /\ writing' # None /\ file'["summary"] = file["summary"]
        /\ \A p \in Profile : file'[p] = file[p]
    BY <2>1, TruncateFiles, FileNames
  <2>. QED
    BY <1>3, <2>1, <2>2, <2>3 DEF At, Save, MarkStageStarted, StageIs
<1>4. CASE StageWork
  BY <1>4 DEF At, StageIs, StageWork
<1>5. CASE BindRuntime
  <2>1. mem'.status = mem.status
    BY <1>5 DEF Progress, BindRuntime
  <2>. QED
    BY <1>5, <2>1 DEF At, BindRuntime
<1>6. CASE RestoreRuntime
  BY <1>6 DEF At, StageIs, RestoreRuntime
<1>7. CASE RefuseRuntime
  BY <1>7 DEF At, StageIs, RefuseRuntime
<1>8. CASE SaveLockSummary
  <2>1. Truncate("progress") /\ savedProgress' = mem'
    BY <1>8 DEF Save, SaveLockSummary
  <2>2. mem'.lock = mem.lock /\ mem'.status = mem.status
    BY <1>8 DEF Save, Progress, SaveLockSummary
  <2>3. /\ writing' = "progress" /\ writing' # None /\ file'["summary"] = file["summary"]
        /\ \A p \in Profile : file'[p] = file[p]
    BY <2>1, TruncateFiles, FileNames
  <2>. QED
    BY <1>8, <2>1, <2>2, <2>3 DEF At, Save, SaveLockSummary
<1>9. CASE MarkStageCompleted
  <2>1. Truncate("progress") /\ savedProgress' = mem'
    BY <1>9 DEF Save, MarkStageCompleted
  <2>2. mem'.lock = mem.lock /\ mem'.status = mem.status
    BY <1>9 DEF Save, Progress, MarkStageCompleted
  <2>3. /\ writing' = "progress" /\ writing' # None /\ file'["summary"] = file["summary"]
        /\ \A p \in Profile : file'[p] = file[p]
    BY <2>1, TruncateFiles, FileNames
  <2>. QED
    BY <1>9, <2>1, <2>2, <2>3 DEF At, Save, MarkStageCompleted
<1>10. CASE LoadMetrics
  BY <1>10 DEF At, LoadMetrics
<1>11. CASE ReuseResult
  BY <1>11 DEF At, MoreProfiles, HasResult, Current, ReuseResult
<1>12. CASE MarkProfileStarted
  <2>1. Truncate("progress") /\ savedProgress' = mem'
    BY <1>12 DEF Save, MarkProfileStarted
  <2>2. mem'.lock = mem.lock /\ mem'.status = "running"
    BY <1>12 DEF Save, Progress, MarkProfileStarted
  <2>3. /\ writing' = "progress" /\ writing' # None /\ file'["summary"] = file["summary"]
        /\ \A p \in Profile : file'[p] = file[p]
    BY <2>1, TruncateFiles, FileNames
  <2>. QED
    BY <1>12, <2>1, <2>2, <2>3 DEF At, Save, MarkProfileStarted, MoreProfiles
<1>13. CASE MeasureProfile
  <2>1. Current \in Files \ {"progress"}
    BY <1>13, FileNames, ProfileFacts DEF TypeInv, At, MoreProfiles, Current, MeasureProfile
  <2>2. /\ writing' = Current /\ file'[Current] = "torn"
        /\ \A g \in Files \ {Current} : file'[g] = file[g]
    BY <1>13, <2>1, TruncateFiles DEF MeasureProfile
  <2>. QED
    BY <1>13, <2>1, <2>2, FileNames DEF At, MeasureProfile
<1>14. CASE MarkProfileCompleted
  <2>1. Truncate("progress") /\ savedProgress' = mem'
    BY <1>14 DEF Save, MarkProfileCompleted
  <2>2. mem'.lock = mem.lock /\ mem'.status = mem.status
    BY <1>14 DEF Save, Progress, MarkProfileCompleted
  <2>3. /\ writing' = "progress" /\ writing' # None /\ file'["summary"] = file["summary"]
        /\ \A p \in Profile : file'[p] = file[p]
    BY <2>1, TruncateFiles, FileNames
  <2>. QED
    BY <1>14, <2>1, <2>2, <2>3 DEF At, Save, MarkProfileCompleted
<1>15. CASE FinalizeReceipt
  BY <1>15, ProfileFacts DEF At, FinalizeReceipt
<1>16. CASE WriteReceipt
  <2>1. Current \in Files \ {"progress"}
    BY <1>16, FileNames, ProfileFacts DEF TypeInv, At, MoreProfiles, Current, WriteReceipt
  <2>2. /\ writing' = Current /\ file'[Current] = "torn"
        /\ \A g \in Files \ {Current} : file'[g] = file[g]
    BY <1>16, <2>1, TruncateFiles DEF WriteReceipt
  <2>3. Current \in Profile /\ cursor \in 1 .. Len(Profiles)
    BY <1>16, ProfileFacts DEF At, MoreProfiles, Current, WriteReceipt
  <2>4. \A p \in Profile : savedRecord'[p].receipt =
            IF p = Current THEN mem.lock ELSE savedRecord[p].receipt
    BY <1>16, <2>3 DEF Record, WriteReceipt
  <2>5. \A i \in 1 .. Len(Profiles) : i < cursor' => Receipted(Profiles[i])'
    <3>1. \A i \in 1 .. Len(Profiles) : i < cursor' => i < cursor \/ i = cursor
      BY <1>16, <2>3 DEF WriteReceipt
    <3>2. \A i \in 1 .. Len(Profiles) : Receipted(Profiles[i]) => Receipted(Profiles[i])'
      BY <1>16, <2>2, <2>4, ProfileFacts, FileNames, BundleAssumption DEF At, WriteReceipt
    <3>3. \A i \in 1 .. Len(Profiles) : i = cursor => Receipted(Profiles[i])'
      BY <1>16, <2>2, <2>3, <2>4 DEF Current, WriteReceipt
    <3>. QED
      BY <1>16, <3>1, <3>2, <3>3 DEF At, WriteReceipt
  <2>. QED
    BY <1>16, <2>1, <2>2, <2>3, <2>5, FileNames DEF At, WriteReceipt
<1>17. CASE WriteArtifacts
  <2>1. "metrics" \in Files \ {"progress"}
    BY <1>17, FileNames
  <2>2. /\ writing' = "metrics" /\ file'["metrics"] = "torn"
        /\ \A g \in Files \ {"metrics"} : file'[g] = file[g]
    BY <1>17, <2>1, TruncateFiles DEF WriteArtifacts
  <2>3. \A p \in Profile : Receipted(p)'
    <3>1. \A i \in 1 .. Len(Profiles) : Receipted(Profiles[i])
      BY <1>17, ProfileFacts DEF At, MoreProfiles, WriteArtifacts
    <3>2. \A p \in Profile : Receipted(p) => Receipted(p)'
      BY <1>17, <2>2, FileNames, BundleAssumption DEF At, WriteArtifacts
    <3>. QED
      BY <3>1, <3>2, ProfileFacts
  <2>. QED
    BY <1>17, <2>1, <2>2, <2>3, FileNames DEF At, WriteArtifacts
<1>18. CASE StartFinalization
  <2>1. Truncate("progress") /\ savedProgress' = mem'
    BY <1>18 DEF Save, StartFinalization
  <2>2. mem'.lock = mem.lock /\ mem'.status = "running"
    BY <1>18 DEF Save, Progress, StartFinalization
  <2>3. /\ writing' = "progress" /\ writing' # None /\ file'["summary"] = file["summary"]
        /\ \A p \in Profile : file'[p] = file[p]
    BY <2>1, TruncateFiles, FileNames
  <2>4. \A p \in Profile : Receipted(p) => Receipted(p)' /\ file'[p] = "whole"
    BY <1>18, <2>2, <2>3, FileNames, BundleAssumption DEF At, Save, StartFinalization
  <2>5. Written("summary") => file'["summary"] = "whole"
    BY <1>18, <2>3, FileNames, BundleAssumption DEF At, Save, StartFinalization
  <2>. QED
    BY <1>18, <2>1, <2>2, <2>3, <2>4, <2>5 DEF At, Save, StartFinalization
<1>19. CASE WriteSummary
  <2>1. "summary" \in Files \ {"progress"}
    BY <1>19, FileNames
  <2>2. /\ writing' = "summary" /\ file'["summary"] = "torn"
        /\ \A g \in Files \ {"summary"} : file'[g] = file[g]
    BY <1>19, <2>1, TruncateFiles DEF WriteSummary
  <2>3. \A p \in Profile : Receipted(p) => Receipted(p)'
    BY <1>19, <2>2, FileNames, BundleAssumption DEF At, WriteSummary
  <2>. QED
    BY <1>19, <2>1, <2>2, <2>3, FileNames DEF At, WriteSummary
<1>20. CASE EndFinalization
  <2>1. Truncate("progress") /\ savedProgress' = mem'
    BY <1>20 DEF Save, EndFinalization
  <2>2. mem'.lock = mem.lock /\ mem'.status = mem.status
    BY <1>20 DEF Save, Progress, EndFinalization
  <2>3. /\ writing' = "progress" /\ writing' # None /\ file'["summary"] = file["summary"]
        /\ \A p \in Profile : file'[p] = file[p]
    BY <2>1, TruncateFiles, FileNames
  <2>4. \A p \in Profile : Receipted(p) => Receipted(p)' /\ file'[p] = "whole"
    BY <1>20, <2>2, <2>3, FileNames, BundleAssumption DEF At, Save, EndFinalization
  <2>5. Written("summary") => file'["summary"] = "whole"
    BY <1>20, <2>3, FileNames, BundleAssumption DEF At, Save, EndFinalization
  <2>. QED
    BY <1>20, <2>1, <2>2, <2>3, <2>4, <2>5 DEF At, Save, EndFinalization
<1>21. CASE MarkCompleted
  <2>1. Truncate("progress") /\ savedProgress' = mem'
    BY <1>21 DEF Save, MarkCompleted
  <2>2. mem'.lock = mem.lock /\ mem'.status = "completed"
    BY <1>21 DEF Save, Progress, MarkCompleted
  <2>3. /\ writing' = "progress" /\ writing' # None /\ file'["summary"] = file["summary"]
        /\ \A p \in Profile : file'[p] = file[p]
    BY <2>1, TruncateFiles, FileNames
  <2>4. \A p \in Profile : Receipted(p) => Receipted(p)' /\ file'[p] = "whole"
    BY <1>21, <2>2, <2>3, FileNames, BundleAssumption DEF At, Save, MarkCompleted
  <2>5. Written("summary") => file'["summary"] = "whole"
    BY <1>21, <2>3, FileNames, BundleAssumption DEF At, Save, MarkCompleted
  <2>. QED
    BY <1>21, <2>1, <2>2, <2>3, <2>4, <2>5 DEF At, Save, MarkCompleted
<1>22. CASE Return
  BY <1>22 DEF At, Return
<1>23. CASE Fail
  <2>1. Truncate("progress") /\ savedProgress' = mem'
    BY <1>23 DEF Save, Fail
  <2>2. mem'.lock = mem.lock /\ mem'.status = "failed"
    BY <1>23 DEF Save, Progress, Fail, FailedProgress
  <2>3. /\ writing' = "progress" /\ writing' # None /\ file'["summary"] = file["summary"]
        /\ \A p \in Profile : file'[p] = file[p]
    BY <2>1, TruncateFiles, FileNames
  <2>. QED
    BY <1>23, <2>1, <2>2, <2>3 DEF At, Save, Fail
<1>24. ASSUME NEW resume \in BOOLEAN, Attempt(resume) PROVE WholeInv'
  <2>1. dirMade => savedProgress.status # "completed"
    BY <1>24 DEF MayAttempt, Reusable, Attempt
  <2>2. mem'.status # "completed" /\ savedProgress.status # "completed"
    BY <1>24, <2>1 DEF FreshProgress, Attempt
  <2>. QED
    BY <1>24, <2>2 DEF At, Attempt
<1>25. CASE Raise
  BY <1>25 DEF At, Uncaught, Spend, Raise
<1>26. CASE Kill
  BY <1>26 DEF Spend, Kill
<1>27. CASE ChangeBinary
  BY <1>27 DEF Spend, ChangeBinary
<1>28. CASE LoseLock
  BY <1>28 DEF Spend, LoseLock
<1>29. CASE UNCHANGED vars
  BY <1>29 DEF vars, userVars, diskVars, where, runVars
<1>. QED
  BY <1>1, <1>2, <1>3, <1>4, <1>5, <1>6, <1>7, <1>8, <1>9, <1>10,
     <1>11, <1>12, <1>13, <1>14, <1>15, <1>16, <1>17, <1>18, <1>19, <1>20,
     <1>21, <1>22, <1>23, <1>24, <1>25, <1>26, <1>27, <1>28, <1>29
     DEF Next, RunStep

LEMMA WholeInit == Init => WholeInv
BY DEF Init, WholeInv, FreshProgress, LegacyProgress

\* A bundle whose progress.json says completed has a whole summary and, for
\* every profile, a whole result with the receipt of the run's lock, after any
\* kills, failures and resumed attempts (runner.py:923-1110).
THEOREM WholeSafe == Spec => []CompletedBundleIsWhole
<1>1. Init => LockInv /\ WholeInv
  BY LockInit, WholeInit
<1>2. TypeInv /\ LockInv /\ WholeInv /\ [Next]_vars => LockInv' /\ WholeInv'
  BY LockStep, WholeStep
<1>3. WholeInv => CompletedBundleIsWhole
  BY DEF WholeInv, Whole, CompletedBundleIsWhole, Complete
<1>. QED
  BY <1>1, <1>2, <1>3, TypeCorrect, PTL DEF Spec

-----------------------------------------------------------------------------
(* Honesty.  If no build ever comes back, a binary that equals the lock has  *)
(* been there since the lock was made, so that everything measured so far   *)
(* was measured with it; the final verification then freezes this.          *)

Measured(p) == savedRecord[p].measured

HonestInv ==
    /\ binary \in usedBuilds
    /\ mem.lock # None => mem.lock \in usedBuilds
    /\ savedProgress.lock # None => savedProgress.lock \in usedBuilds
    /\ \A p \in Profile : Measured(p) = None <=> file[p] = "absent"
    /\ (pc # "stopped" /\ binary = mem.lock) =>
          \A p \in Profile : Measured(p) \in {None, mem.lock}
    /\ binary = savedProgress.lock =>
          \A p \in Profile : Measured(p) \in {None, savedProgress.lock}
    /\ pc \in {"created", "stage_start", "stage_work", "stage_end", "lock_bound",
              "load_metrics"} => cursor = 1
    /\ pc \in {"profiles", "measuring", "measured"} =>
          \A i \in 1 .. Len(Profiles) :
             (i < cursor \/ (pc = "measured" /\ i = cursor)) => Measured(Profiles[i]) # None
    /\ pc \in {"receipts", "final_start", "final_work", "final_end", "complete"} =>
          \A p \in Profile : Measured(p) = mem.lock
    /\ savedProgress.status = "completed" =>
          \A p \in Profile : Measured(p) = savedProgress.lock

LEMMA HonestStep ==
  ASSUME ~Restores, TypeInv, LockInv, WholeInv, HonestInv, [Next]_vars
  PROVE  HonestInv'
<1>. USE DEF TypeInv, TypeOK, LockInv, PastLockStage, WholeInv, HonestInv, Measured, diskVars, where, runVars, userVars
<1>1. CASE EndWrite
  <2>1. \A p \in Profile : file'[p] = "absent" <=> file[p] = "absent"
    BY <1>1, FileNames DEF EndWrite
  <2>. QED
    BY <1>1, <2>1 DEF EndWrite
<1>2. CASE FirstSave
  <2>1. Truncate("progress") /\ savedProgress' = mem'
    BY <1>2 DEF Save, FirstSave
  <2>2. mem'.lock = mem.lock /\ mem'.status = mem.status
    BY <1>2 DEF Save, Progress, FirstSave
  <2>3. \A p \in Profile : file'[p] = file[p]
    BY <2>1, TruncateFiles, FileNames
  <2>. QED
    BY <1>2, <2>1, <2>2, <2>3 DEF At, Save, FirstSave
<1>3. CASE MarkStageStarted
  <2>1. Truncate("progress") /\ savedProgress' = mem'
    BY <1>3 DEF Save, MarkStageStarted
  <2>2. mem'.lock = mem.lock /\ mem'.status = "running"
    BY <1>3 DEF Save, Progress, MarkStageStarted
  <2>3. \A p \in Profile : file'[p] = file[p]
    BY <2>1, TruncateFiles, FileNames
  <2>. QED
    BY <1>3, <2>1, <2>2, <2>3 DEF At, Save, MarkStageStarted, StageIs
<1>4. CASE StageWork
  BY <1>4 DEF At, StageIs, StageWork
<1>5. CASE BindRuntime
  <2>1. mem'.lock = binary
    BY <1>5 DEF Progress, BindRuntime
  <2>2. \A p \in Profile : Measured(p) = None
    BY <1>5 DEF At, BindRuntime
  <2>. QED
    BY <1>5, <2>1, <2>2 DEF At, BindRuntime
<1>6. CASE RestoreRuntime
  BY <1>6 DEF At, StageIs, RestoreRuntime
<1>7. CASE RefuseRuntime
  BY <1>7 DEF At, StageIs, RefuseRuntime
<1>8. CASE SaveLockSummary
  <2>1. Truncate("progress") /\ savedProgress' = mem'
    BY <1>8 DEF Save, SaveLockSummary
  <2>2. mem'.lock = mem.lock /\ mem'.status = mem.status
    BY <1>8 DEF Save, Progress, SaveLockSummary
  <2>3. \A p \in Profile : file'[p] = file[p]
    BY <2>1, TruncateFiles, FileNames
  <2>. QED
    BY <1>8, <2>1, <2>2, <2>3 DEF At, Save, SaveLockSummary
<1>9. CASE MarkStageCompleted
  <2>1. Truncate("progress") /\ savedProgress' = mem'
    BY <1>9 DEF Save, MarkStageCompleted
  <2>2. mem'.lock = mem.lock /\ mem'.status = mem.status
    BY <1>9 DEF Save, Progress, MarkStageCompleted
  <2>3. \A p \in Profile : file'[p] = file[p]
    BY <2>1, TruncateFiles, FileNames
  <2>. QED
    BY <1>9, <2>1, <2>2, <2>3 DEF At, Save, MarkStageCompleted
<1>10. CASE LoadMetrics
  BY <1>10 DEF At, LoadMetrics
<1>11. CASE ReuseResult
  <2>1. Measured(Current) # None
    BY <1>11, ProfileFacts DEF At, MoreProfiles, HasResult, Current, ReuseResult
  <2>2. \A i \in 1 .. Len(Profiles) : i < cursor' => i < cursor \/ i = cursor
    BY <1>11 DEF ReuseResult
  <2>. QED
    BY <1>11, <2>1, <2>2 DEF At, Current, ReuseResult
<1>12. CASE MarkProfileStarted
  <2>1. Truncate("progress") /\ savedProgress' = mem'
    BY <1>12 DEF Save, MarkProfileStarted
  <2>2. mem'.lock = mem.lock /\ mem'.status = "running"
    BY <1>12 DEF Save, Progress, MarkProfileStarted
  <2>3. \A p \in Profile : file'[p] = file[p]
    BY <2>1, TruncateFiles, FileNames
  <2>. QED
    BY <1>12, <2>1, <2>2, <2>3, ProfileFacts DEF At, Save, MarkProfileStarted, MoreProfiles
<1>13. CASE MeasureProfile
  <2>1. Current \in Files \ {"progress"}
    BY <1>13, FileNames, ProfileFacts DEF At, MoreProfiles, Current, MeasureProfile
  <2>2. /\ writing' = Current /\ file'[Current] = "torn"
        /\ \A g \in Files \ {Current} : file'[g] = file[g]
    BY <1>13, <2>1, TruncateFiles DEF MeasureProfile
  <2>3. Current \in Profile
    BY <1>13, ProfileFacts DEF At, MoreProfiles, Current, MeasureProfile
  <2>4. \A p \in Profile : Measured(p)' = IF p = Current THEN binary ELSE Measured(p)
    BY <1>13, <2>3 DEF Record, MeasureProfile
  <2>5. mem.lock # None /\ mem.lock = savedProgress.lock
    BY <1>13 DEF At, MeasureProfile
  <2>. QED
    BY <1>13, <2>1, <2>2, <2>3, <2>4, ProfileFacts, BundleAssumption, <2>5, FileNames DEF At, Current, MeasureProfile
<1>14. CASE MarkProfileCompleted
  <2>1. Truncate("progress") /\ savedProgress' = mem'
    BY <1>14 DEF Save, MarkProfileCompleted
  <2>2. mem'.lock = mem.lock /\ mem'.status = mem.status
    BY <1>14 DEF Save, Progress, MarkProfileCompleted
  <2>3. \A p \in Profile : file'[p] = file[p]
    BY <2>1, TruncateFiles, FileNames
  <2>. QED
    BY <1>14, <2>1, <2>2, <2>3, ProfileFacts DEF At, Save, MarkProfileCompleted
<1>15. CASE FinalizeReceipt
  <2>1. \A i \in 1 .. Len(Profiles) : Measured(Profiles[i]) # None
    BY <1>15, ProfileFacts DEF At, MoreProfiles, FinalizeReceipt
  <2>2. \A p \in Profile : Measured(p) # None
    BY <2>1, ProfileFacts
  <2>. QED
    BY <1>15, <2>2 DEF At, FinalizeReceipt
<1>16. CASE WriteReceipt
  <2>1. Current \in Files \ {"progress"}
    BY <1>16, FileNames, ProfileFacts DEF At, MoreProfiles, Current, WriteReceipt
  <2>2. /\ writing' = Current /\ file'[Current] = "torn"
        /\ \A g \in Files \ {Current} : file'[g] = file[g]
    BY <1>16, <2>1, TruncateFiles DEF WriteReceipt
  <2>3. Current \in Profile
    BY <1>16, ProfileFacts DEF At, MoreProfiles, Current, WriteReceipt
  <2>4. \A p \in Profile : Measured(p)' = IF p = Current THEN Measured(p) ELSE Measured(p)
    BY <1>16, <2>3 DEF Record, WriteReceipt
  <2>. QED
    BY <1>16, <2>1, <2>2, <2>3, <2>4, ProfileFacts, BundleAssumption, FileNames DEF At, Current, WriteReceipt
<1>17. CASE WriteArtifacts
  <2>1. "metrics" \in Files \ {"progress"}
    BY <1>17, FileNames
  <2>2. /\ writing' = "metrics" /\ file'["metrics"] = "torn"
        /\ \A g \in Files \ {"metrics"} : file'[g] = file[g]
    BY <1>17, <2>1, TruncateFiles DEF WriteArtifacts
  <2>. QED
    BY <1>17, <2>1, <2>2, FileNames DEF At, Current, WriteArtifacts
<1>18. CASE StartFinalization
  <2>1. Truncate("progress") /\ savedProgress' = mem'
    BY <1>18 DEF Save, StartFinalization
  <2>2. mem'.lock = mem.lock /\ mem'.status = "running"
    BY <1>18 DEF Save, Progress, StartFinalization
  <2>3. \A p \in Profile : file'[p] = file[p]
    BY <2>1, TruncateFiles, FileNames
  <2>. QED
    BY <1>18, <2>1, <2>2, <2>3 DEF At, Save, StartFinalization
<1>19. CASE WriteSummary
  <2>1. "summary" \in Files \ {"progress"}
    BY <1>19, FileNames
  <2>2. /\ writing' = "summary" /\ file'["summary"] = "torn"
        /\ \A g \in Files \ {"summary"} : file'[g] = file[g]
    BY <1>19, <2>1, TruncateFiles DEF WriteSummary
  <2>. QED
    BY <1>19, <2>1, <2>2, FileNames DEF At, Current, WriteSummary
<1>20. CASE EndFinalization
  <2>1. Truncate("progress") /\ savedProgress' = mem'
    BY <1>20 DEF Save, EndFinalization
  <2>2. mem'.lock = mem.lock /\ mem'.status = mem.status
    BY <1>20 DEF Save, Progress, EndFinalization
  <2>3. \A p \in Profile : file'[p] = file[p]
    BY <2>1, TruncateFiles, FileNames
  <2>. QED
    BY <1>20, <2>1, <2>2, <2>3 DEF At, Save, EndFinalization
<1>21. CASE MarkCompleted
  <2>1. Truncate("progress") /\ savedProgress' = mem'
    BY <1>21 DEF Save, MarkCompleted
  <2>2. mem'.lock = mem.lock /\ mem'.status = "completed"
    BY <1>21 DEF Save, Progress, MarkCompleted
  <2>3. \A p \in Profile : file'[p] = file[p]
    BY <2>1, TruncateFiles, FileNames
  <2>. QED
    BY <1>21, <2>1, <2>2, <2>3 DEF At, Save, MarkCompleted
<1>22. CASE Return
  BY <1>22 DEF At, Return
<1>23. CASE Fail
  <2>1. Truncate("progress") /\ savedProgress' = mem'
    BY <1>23 DEF Save, Fail
  <2>2. mem'.lock = mem.lock /\ mem'.status = "failed"
    BY <1>23 DEF Save, Progress, Fail, FailedProgress
  <2>3. \A p \in Profile : file'[p] = file[p]
    BY <2>1, TruncateFiles, FileNames
  <2>. QED
    BY <1>23, <2>1, <2>2, <2>3 DEF At, Save, Fail
<1>24. ASSUME NEW resume \in BOOLEAN, Attempt(resume) PROVE HonestInv'
  <2>1. mem'.lock = savedProgress.lock
    BY <1>24 DEF FreshProgress, Attempt
  <2>. QED
    BY <1>24, <2>1 DEF At, Attempt
<1>25. CASE Raise
  BY <1>25 DEF At, Uncaught, Spend, Raise
<1>26. CASE Kill
  BY <1>26 DEF Spend, Kill
<1>27. CASE ChangeBinary
  BY <1>27 DEF ChangeBinary
<1>28. CASE LoseLock
  BY <1>28 DEF Spend, LoseLock
<1>29. CASE UNCHANGED vars
  BY <1>29 DEF vars, userVars, diskVars, where, runVars
<1>. QED
  BY <1>1, <1>2, <1>3, <1>4, <1>5, <1>6, <1>7, <1>8, <1>9, <1>10,
     <1>11, <1>12, <1>13, <1>14, <1>15, <1>16, <1>17, <1>18, <1>19, <1>20,
     <1>21, <1>22, <1>23, <1>24, <1>25, <1>26, <1>27, <1>28, <1>29
     DEF Next, RunStep

\* Where no earlier build is ever put back, every number of a completed bundle
\* was measured with the build its receipt names (runtime_locks.py:687-855).
THEOREM HonestSafe ==
  ASSUME ~Restores
  PROVE  Spec => []ReceiptIsHonest
<1>1. Init => LockInv /\ WholeInv /\ HonestInv
  <2>1. Init => HonestInv
    BY FileNames DEF Init, HonestInv, Measured, FreshProgress, LegacyProgress, NoRecord
  <2>. QED
    BY <2>1, LockInit, WholeInit
<1>2. TypeInv /\ LockInv /\ WholeInv /\ HonestInv /\ [Next]_vars
      => LockInv' /\ WholeInv' /\ HonestInv'
  BY LockStep, WholeStep, HonestStep
<1>3. WholeInv /\ HonestInv => ReceiptIsHonest
  BY DEF WholeInv, HonestInv, Whole, Measured, ReceiptIsHonest, Complete
<1>. QED
  BY <1>1, <1>2, <1>3, TypeCorrect, PTL DEF Spec

-----------------------------------------------------------------------------
(* The contract.  Most steps are invisible in it; a save may bind the       *)
(* runtime or reopen a completed directory, and the end of the last save    *)
(* completes it.                                                           *)

Running == pc # "stopped" \/ writing # None
ContractStep == [Contract!Next]_(Contract!contractVars)

LEMMA InvisibleStep ==
  ASSUME Complete' <=> Complete, dirMade' = dirMade, Running' <=> Running,
         savedProgress'.lock = savedProgress.lock
  PROVE  ContractStep
BY DEF ContractStep, Contract!contractVars, Running

LEMMA SaveStep ==
  ASSUME TypeInv, LockInv, WholeInv, pc # "stopped", dirMade' = dirMade,
         savedProgress' = mem', mem'.lock = mem.lock,
         Truncate("progress")
  PROVE  ContractStep
<1>1. dirMade /\ dirMade' /\ Running
  BY DEF LockInv, Running
<1>2. ~Complete' /\ Running'
  BY TruncateFiles, FileNames DEF Complete, Running
<1>3. CASE savedProgress.lock = mem.lock
  BY <1>1, <1>2, <1>3 DEF ContractStep, Contract!contractVars, Contract!Next, Contract!Reopen, Running
<1>4. CASE savedProgress.lock # mem.lock
  <2>1. savedProgress.lock = None /\ mem.lock \in Builds
    BY <1>4 DEF LockInv, TypeInv, TypeOK, Progress
  <2>2. ~Complete
    BY <2>1 DEF WholeInv, Whole, Complete
  <2>. QED
    BY <1>1, <1>2, <2>1, <2>2 DEF ContractStep, Contract!Next, Contract!Bind, Running
<1>. QED
  BY <1>3, <1>4

LEMMA ContractStepped ==
  ASSUME TypeInv, LockInv, WholeInv, [Next]_vars
  PROVE  ContractStep
<1>. USE DEF diskVars, where, runVars, userVars
<1>1. CASE EndWrite
  <2>1. Running /\ savedProgress' = savedProgress /\ dirMade' = dirMade /\ dirMade
    BY <1>1 DEF EndWrite, Running, LockInv
  <2>2. CASE pc = "stopped"
    <3>1. ~Complete /\ ~Complete' /\ ~Running'
      BY <1>1, <2>2 DEF EndWrite, Complete, Running, WholeInv
    <3>. QED
      BY <2>1, <3>1 DEF ContractStep, Contract!Next, Contract!Stop, Running, Complete
  <2>3. CASE pc # "stopped" /\ writing = "progress" /\ savedProgress.status = "completed"
    <3>1. ~Complete /\ Complete' /\ Running' /\ savedProgress.lock # None
      BY <1>1, <2>3, FileNames DEF EndWrite, Complete, Running, WholeInv, Whole, LockInv, TypeInv, TypeOK
    <3>. QED
      BY <2>1, <3>1 DEF ContractStep, Contract!Next, Contract!Finish, Running
  <2>4. CASE pc # "stopped" /\ ~(writing = "progress" /\ savedProgress.status = "completed")
    <3>1. (Complete' <=> Complete) /\ Running'
      BY <1>1, <2>4, FileNames DEF EndWrite, Complete, Running, TypeInv, TypeOK
    <3>. QED
      BY <2>1, <3>1, InvisibleStep
  <2>. QED
    BY <2>2, <2>3, <2>4
<1>2. CASE FirstSave
  <2>1. /\ Truncate("progress") /\ savedProgress' = mem' /\ dirMade' = dirMade
        /\ pc # "stopped"
    BY <1>2 DEF At, Save, FirstSave
  <2>2. mem'.lock = mem.lock
    BY <1>2 DEF Save, TypeInv, TypeOK, Progress, FirstSave
  <2>. QED
    BY <2>1, <2>2, SaveStep
<1>3. CASE MarkStageStarted
  <2>1. /\ Truncate("progress") /\ savedProgress' = mem' /\ dirMade' = dirMade
        /\ pc # "stopped"
    BY <1>3 DEF At, Save, MarkStageStarted
  <2>2. mem'.lock = mem.lock
    BY <1>3 DEF Save, TypeInv, TypeOK, Progress, MarkStageStarted
  <2>. QED
    BY <2>1, <2>2, SaveStep
<1>4. CASE StageWork
  BY <1>4, InvisibleStep DEF Complete, Running, At, StageIs, StageWork
<1>5. CASE BindRuntime
  BY <1>5, InvisibleStep DEF Complete, Running, At, StageIs, BindRuntime
<1>6. CASE RestoreRuntime
  BY <1>6, InvisibleStep DEF Complete, Running, At, StageIs, RestoreRuntime
<1>7. CASE RefuseRuntime
  BY <1>7, InvisibleStep DEF Complete, Running, At, StageIs, RefuseRuntime
<1>8. CASE SaveLockSummary
  <2>1. /\ Truncate("progress") /\ savedProgress' = mem' /\ dirMade' = dirMade
        /\ pc # "stopped"
    BY <1>8 DEF At, Save, SaveLockSummary
  <2>2. mem'.lock = mem.lock
    BY <1>8 DEF Save, TypeInv, TypeOK, Progress, SaveLockSummary
  <2>. QED
    BY <2>1, <2>2, SaveStep
<1>9. CASE MarkStageCompleted
  <2>1. /\ Truncate("progress") /\ savedProgress' = mem' /\ dirMade' = dirMade
        /\ pc # "stopped"
    BY <1>9 DEF At, Save, MarkStageCompleted
  <2>2. mem'.lock = mem.lock
    BY <1>9 DEF Save, TypeInv, TypeOK, Progress, MarkStageCompleted
  <2>. QED
    BY <2>1, <2>2, SaveStep
<1>10. CASE LoadMetrics
  BY <1>10, InvisibleStep DEF Complete, Running, At, LoadMetrics
<1>11. CASE ReuseResult
  BY <1>11, InvisibleStep DEF Complete, Running, At, MoreProfiles, HasResult, Current, ReuseResult
<1>12. CASE MarkProfileStarted
  <2>1. /\ Truncate("progress") /\ savedProgress' = mem' /\ dirMade' = dirMade
        /\ pc # "stopped"
    BY <1>12 DEF At, Save, MarkProfileStarted
  <2>2. mem'.lock = mem.lock
    BY <1>12 DEF Save, TypeInv, TypeOK, Progress, MarkProfileStarted
  <2>. QED
    BY <2>1, <2>2, SaveStep
<1>13. CASE MeasureProfile
  <2>1. Current \in Files \ {"progress"}
    BY <1>13, FileNames, ProfileFacts DEF TypeInv, TypeOK, At, MoreProfiles, Current, MeasureProfile
  <2>2. file'["progress"] = file["progress"]
    BY <1>13, <2>1, TruncateFiles, FileNames DEF MeasureProfile
  <2>3. pc # "stopped" /\ pc' # "stopped"
    BY <1>13 DEF At, MeasureProfile
  <2>. QED
    BY <1>13, <2>2, <2>3, InvisibleStep DEF Complete, Running, MeasureProfile
<1>14. CASE MarkProfileCompleted
  <2>1. /\ Truncate("progress") /\ savedProgress' = mem' /\ dirMade' = dirMade
        /\ pc # "stopped"
    BY <1>14 DEF At, Save, MarkProfileCompleted
  <2>2. mem'.lock = mem.lock
    BY <1>14 DEF Save, TypeInv, TypeOK, Progress, MarkProfileCompleted
  <2>. QED
    BY <2>1, <2>2, SaveStep
<1>15. CASE FinalizeReceipt
  BY <1>15, InvisibleStep DEF Complete, Running, At, MoreProfiles, FinalizeReceipt
<1>16. CASE WriteReceipt
  <2>1. Current \in Files \ {"progress"}
    BY <1>16, FileNames, ProfileFacts DEF TypeInv, TypeOK, At, MoreProfiles, Current, WriteReceipt
  <2>2. file'["progress"] = file["progress"]
    BY <1>16, <2>1, TruncateFiles, FileNames DEF WriteReceipt
  <2>3. pc # "stopped" /\ pc' # "stopped"
    BY <1>16 DEF At, WriteReceipt
  <2>. QED
    BY <1>16, <2>2, <2>3, InvisibleStep DEF Complete, Running, WriteReceipt
<1>17. CASE WriteArtifacts
  <2>1. "metrics" \in Files \ {"progress"}
    BY <1>17, FileNames
  <2>2. file'["progress"] = file["progress"]
    BY <1>17, <2>1, TruncateFiles, FileNames DEF WriteArtifacts
  <2>3. pc # "stopped" /\ pc' # "stopped"
    BY <1>17 DEF At, WriteArtifacts
  <2>. QED
    BY <1>17, <2>2, <2>3, InvisibleStep DEF Complete, Running, WriteArtifacts
<1>18. CASE StartFinalization
  <2>1. /\ Truncate("progress") /\ savedProgress' = mem' /\ dirMade' = dirMade
        /\ pc # "stopped"
    BY <1>18 DEF At, Save, StartFinalization
  <2>2. mem'.lock = mem.lock
    BY <1>18 DEF Save, TypeInv, TypeOK, Progress, StartFinalization
  <2>. QED
    BY <2>1, <2>2, SaveStep
<1>19. CASE WriteSummary
  <2>1. "summary" \in Files \ {"progress"}
    BY <1>19, FileNames
  <2>2. file'["progress"] = file["progress"]
    BY <1>19, <2>1, TruncateFiles, FileNames DEF WriteSummary
  <2>3. pc # "stopped" /\ pc' # "stopped"
    BY <1>19 DEF At, WriteSummary
  <2>. QED
    BY <1>19, <2>2, <2>3, InvisibleStep DEF Complete, Running, WriteSummary
<1>20. CASE EndFinalization
  <2>1. /\ Truncate("progress") /\ savedProgress' = mem' /\ dirMade' = dirMade
        /\ pc # "stopped"
    BY <1>20 DEF At, Save, EndFinalization
  <2>2. mem'.lock = mem.lock
    BY <1>20 DEF Save, TypeInv, TypeOK, Progress, EndFinalization
  <2>. QED
    BY <2>1, <2>2, SaveStep
<1>21. CASE MarkCompleted
  <2>1. /\ Truncate("progress") /\ savedProgress' = mem' /\ dirMade' = dirMade
        /\ pc # "stopped"
    BY <1>21 DEF At, Save, MarkCompleted
  <2>2. mem'.lock = mem.lock
    BY <1>21 DEF Save, TypeInv, TypeOK, Progress, MarkCompleted
  <2>. QED
    BY <2>1, <2>2, SaveStep
<1>22. CASE Return
  <2>1. /\ (Complete' <=> Complete) /\ dirMade' = dirMade
        /\ savedProgress' = savedProgress /\ Running
    BY <1>22 DEF At, Complete, Running, diskVars, Return
  <2>2. CASE Running'
    BY <2>1, <2>2, InvisibleStep
  <2>3. CASE ~Running'
    BY <2>1, <2>3 DEF ContractStep, Contract!Next, Contract!Stop, Running
  <2>. QED
    BY <2>2, <2>3
<1>23. CASE Fail
  <2>1. /\ Truncate("progress") /\ savedProgress' = mem' /\ dirMade' = dirMade
        /\ pc # "stopped"
    BY <1>23 DEF At, Save, Fail
  <2>2. mem'.lock = mem.lock
    BY <1>23 DEF Save, TypeInv, TypeOK, Progress, Fail, FailedProgress
  <2>. QED
    BY <2>1, <2>2, SaveStep
<1>24. ASSUME NEW resume \in BOOLEAN, Attempt(resume) PROVE ContractStep
  <2>1. dirMade => ~Complete
    BY <1>24 DEF MayAttempt, Reusable, Attempt, Complete, WholeInv, Whole
  <2>2. ~Complete
    BY <2>1 DEF Complete, LockInv
  <2>3. /\ ~Complete' /\ dirMade' /\ ~Running /\ Running'
        /\ savedProgress' = savedProgress
    BY <1>24, <2>2 DEF At, Attempt, Complete, Running
  <2>. QED
    BY <2>2, <2>3 DEF ContractStep, Contract!Next, Contract!Begin, Running
<1>25. CASE Raise
  <2>1. /\ (Complete' <=> Complete) /\ dirMade' = dirMade
        /\ savedProgress' = savedProgress /\ Running
    BY <1>25 DEF At, Complete, Running, diskVars, Raise
  <2>2. CASE Running'
    BY <2>1, <2>2, InvisibleStep
  <2>3. CASE ~Running'
    BY <2>1, <2>3 DEF ContractStep, Contract!Next, Contract!Stop, Running
  <2>. QED
    BY <2>2, <2>3
<1>26. CASE Kill
  <2>1. /\ (Complete' <=> Complete) /\ dirMade' = dirMade
        /\ savedProgress' = savedProgress /\ Running
    BY <1>26 DEF At, Complete, Running, diskVars, Kill
  <2>2. CASE Running'
    BY <2>1, <2>2, InvisibleStep
  <2>3. CASE ~Running'
    BY <2>1, <2>3 DEF ContractStep, Contract!Next, Contract!Stop, Running
  <2>. QED
    BY <2>2, <2>3
<1>27. CASE ChangeBinary
  BY <1>27, InvisibleStep DEF Complete, Running, Spend, ChangeBinary
<1>28. CASE LoseLock
  BY <1>28, InvisibleStep DEF Complete, Running, Spend, LoseLock
<1>29. CASE UNCHANGED vars
  BY <1>29, InvisibleStep DEF vars, Complete, Running
<1>. QED
  BY <1>1, <1>2, <1>3, <1>4, <1>5, <1>6, <1>7, <1>8, <1>9, <1>10,
     <1>11, <1>12, <1>13, <1>14, <1>15, <1>16, <1>17, <1>18, <1>19, <1>20,
     <1>21, <1>22, <1>23, <1>24, <1>25, <1>26, <1>27, <1>28, <1>29
     DEF Next, RunStep

\* run_infergrade keeps the contract of BundleContract, for any profiles,
\* builds and bounds: one runtime per directory, completed only while an
\* attempt runs and only with its runtime on record (runner.py:604-1126).
THEOREM ContractImplemented == Spec => ImplementsContract
<1>1. Init => LockInv /\ WholeInv /\ Contract!Init
  <2>1. Init => Contract!Init
    BY DEF Init, Contract!Init, Complete, FreshProgress, LegacyProgress
  <2>. QED
    BY <2>1, LockInit, WholeInit
<1>2. TypeInv /\ LockInv /\ WholeInv /\ [Next]_vars
      => LockInv' /\ WholeInv' /\ [Contract!Next]_(Contract!contractVars)
  BY LockStep, WholeStep, ContractStepped DEF ContractStep
<1>. QED
  BY <1>1, <1>2, TypeCorrect, PTL DEF Spec, ImplementsContract, Contract!Spec

-----------------------------------------------------------------------------
(* The end of an attempt.  Its place, its stage and its profile say how    *)
(* many steps it may still take.                                           *)

N == Len(Profiles)

\* The places of an attempt and how far each is from the end.
Locations ==
    {"stopped", "failing", "cleanup", "complete", "final_end", "final_work", "final_start",
     "receipts", "profiles", "measuring", "measured", "load_metrics", "stage_start",
     "stage_work", "lock_bound", "stage_end", "created"}

FromEnd(loc, st, cur, a) ==
    /\ loc = "stopped" => a = 0
    /\ loc = "failing" => a = 1
    /\ loc = "cleanup" => a = 2
    /\ loc = "complete" => a = 3
    /\ loc = "final_end" => a = 4
    /\ loc = "final_work" => a = 5
    /\ loc = "final_start" => a = 6
    /\ loc = "receipts" => a = 8 + N - cur
    /\ loc = "profiles" => a = 11 + 4 * N - 3 * cur
    /\ loc = "measuring" => a = 10 + 4 * N - 3 * cur
    /\ loc = "measured" => a = 9 + 4 * N - 3 * cur
    /\ loc = "load_metrics" => a = 12 + 4 * N - 3 * cur
    /\ loc = "stage_start" => a = 40 + 4 * N - 3 * cur - 4 * st
    /\ loc = "stage_work" => a = 39 + 4 * N - 3 * cur - 4 * st
    /\ loc = "lock_bound" => a = 38 + 4 * N - 3 * cur - 4 * st
    /\ loc = "stage_end" => a = 37 + 4 * N - 3 * cur - 4 * st
    /\ loc = "created" => a = 41 + 4 * N - 3 * cur - 4 * st

LEMMA AheadAt ==
  ASSUME NEW loc \in Locations, NEW st \in 1 .. 6, NEW cur \in 1 .. N + 1
  PROVE  Ahead(loc, st, cur) \in Nat /\ FromEnd(loc, st, cur, Ahead(loc, st, cur))
<1>a. Len(Stages) = 6
  BY DEF Stages
<1>b. N \in Nat /\ N = Len(Profiles)
  BY ProfileFacts DEF N
<1>1. CASE loc = "stopped"
  <2>1. Ahead("stopped", st, cur) = 0
    BY DEF Ahead
  <2>. QED
    BY <1>1, <1>b, <2>1 DEF FromEnd
<1>2. CASE loc = "failing"
  <2>1. Ahead("failing", st, cur) = 1
    BY DEF Ahead
  <2>. QED
    BY <1>2, <1>b, <2>1 DEF FromEnd
<1>3. CASE loc = "cleanup"
  <2>1. Ahead("cleanup", st, cur) = 2
    BY DEF Ahead
  <2>. QED
    BY <1>3, <1>b, <2>1 DEF FromEnd
<1>4. CASE loc = "complete"
  <2>1. Ahead("complete", st, cur) = 3
    BY DEF Ahead
  <2>. QED
    BY <1>4, <1>b, <2>1 DEF FromEnd
<1>5. CASE loc = "final_end"
  <2>1. Ahead("final_end", st, cur) = 4
    BY DEF Ahead
  <2>. QED
    BY <1>5, <1>b, <2>1 DEF FromEnd
<1>6. CASE loc = "final_work"
  <2>1. Ahead("final_work", st, cur) = 5
    BY DEF Ahead
  <2>. QED
    BY <1>6, <1>b, <2>1 DEF FromEnd
<1>7. CASE loc = "final_start"
  <2>1. Ahead("final_start", st, cur) = 6
    BY DEF Ahead
  <2>. QED
    BY <1>7, <1>b, <2>1 DEF FromEnd
<1>8. CASE loc = "receipts"
  <2>1. Ahead("receipts", st, cur) = 8 + Len(Profiles) - cur
    BY DEF Ahead
  <2>2. 8 + Len(Profiles) - cur = 8 + N - cur
    BY <1>a, <1>b DEF AfterStages, AfterStart
  <2>. QED
    BY <1>8, <1>b, <2>1, <2>2 DEF FromEnd
<1>9. CASE loc = "profiles"
  <2>1. Ahead("profiles", st, cur) = AfterStages(cur)
    BY DEF Ahead
  <2>2. AfterStages(cur) = 11 + 4 * N - 3 * cur
    BY <1>a, <1>b DEF AfterStages, AfterStart
  <2>. QED
    BY <1>9, <1>b, <2>1, <2>2 DEF FromEnd
<1>10. CASE loc = "measuring"
  <2>1. Ahead("measuring", st, cur) = AfterStages(cur) - 1
    BY DEF Ahead
  <2>2. AfterStages(cur) - 1 = 10 + 4 * N - 3 * cur
    BY <1>a, <1>b DEF AfterStages, AfterStart
  <2>. QED
    BY <1>10, <1>b, <2>1, <2>2 DEF FromEnd
<1>11. CASE loc = "measured"
  <2>1. Ahead("measured", st, cur) = AfterStages(cur) - 2
    BY DEF Ahead
  <2>2. AfterStages(cur) - 2 = 9 + 4 * N - 3 * cur
    BY <1>a, <1>b DEF AfterStages, AfterStart
  <2>. QED
    BY <1>11, <1>b, <2>1, <2>2 DEF FromEnd
<1>12. CASE loc = "load_metrics"
  <2>1. Ahead("load_metrics", st, cur) = 1 + AfterStages(cur)
    BY DEF Ahead
  <2>2. 1 + AfterStages(cur) = 12 + 4 * N - 3 * cur
    BY <1>a, <1>b DEF AfterStages, AfterStart
  <2>. QED
    BY <1>12, <1>b, <2>1, <2>2 DEF FromEnd
<1>13. CASE loc = "stage_start"
  <2>1. Ahead("stage_start", st, cur) = AfterStart(st, cur)
    BY DEF Ahead
  <2>2. AfterStart(st, cur) = 40 + 4 * N - 3 * cur - 4 * st
    BY <1>a, <1>b DEF AfterStages, AfterStart
  <2>. QED
    BY <1>13, <1>b, <2>1, <2>2 DEF FromEnd
<1>14. CASE loc = "stage_work"
  <2>1. Ahead("stage_work", st, cur) = AfterStart(st, cur) - 1
    BY DEF Ahead
  <2>2. AfterStart(st, cur) - 1 = 39 + 4 * N - 3 * cur - 4 * st
    BY <1>a, <1>b DEF AfterStages, AfterStart
  <2>. QED
    BY <1>14, <1>b, <2>1, <2>2 DEF FromEnd
<1>15. CASE loc = "lock_bound"
  <2>1. Ahead("lock_bound", st, cur) = AfterStart(st, cur) - 2
    BY DEF Ahead
  <2>2. AfterStart(st, cur) - 2 = 38 + 4 * N - 3 * cur - 4 * st
    BY <1>a, <1>b DEF AfterStages, AfterStart
  <2>. QED
    BY <1>15, <1>b, <2>1, <2>2 DEF FromEnd
<1>16. CASE loc = "stage_end"
  <2>1. Ahead("stage_end", st, cur) = AfterStart(st, cur) - 3
    BY DEF Ahead
  <2>2. AfterStart(st, cur) - 3 = 37 + 4 * N - 3 * cur - 4 * st
    BY <1>a, <1>b DEF AfterStages, AfterStart
  <2>. QED
    BY <1>16, <1>b, <2>1, <2>2 DEF FromEnd
<1>17. CASE loc = "created"
  <2>1. Ahead("created", st, cur) = AfterStart(st, cur) + 1
    BY DEF Ahead
  <2>2. AfterStart(st, cur) + 1 = 41 + 4 * N - 3 * cur - 4 * st
    BY <1>a, <1>b DEF AfterStages, AfterStart
  <2>. QED
    BY <1>17, <1>b, <2>1, <2>2 DEF FromEnd
<1>. QED
  BY <1>1, <1>2, <1>3, <1>4, <1>5, <1>6, <1>7, <1>8, <1>9,
     <1>10, <1>11, <1>12, <1>13, <1>14, <1>15, <1>16, <1>17 DEF Locations

Shrinks == Left > 0 => Left' < Left \/ UNCHANGED runVars

LEMMA ShrinkStep ==
  ASSUME TypeInv, TypeInv', [Next]_vars
  PROVE  Shrinks
<1>a. Len(Stages) = 6 /\ N \in Nat /\ N = Len(Profiles)
  BY ProfileFacts DEF Stages, N
<1>b. stage \in 1 .. 6 /\ stage' \in 1 .. 6 /\ cursor \in 1 .. N + 1 /\ cursor' \in 1 .. N + 1
  BY <1>a DEF TypeInv, TypeOK
<1>c. None \notin Files /\ "progress" \in Files /\ "metrics" \in Files /\ "summary" \in Files
  BY BundleAssumption DEF Files
<1>. DEFINE A == Ahead(pc, stage, cursor)
            B == Ahead(pc', stage', cursor')
<1>d. /\ A \in Nat /\ FromEnd(pc, stage, cursor, A)
      /\ B \in Nat /\ FromEnd(pc', stage', cursor', B)
  <2>1. pc \in Locations /\ pc' \in Locations
    BY DEF TypeInv, TypeOK, Locations
  <2>. QED
    BY <1>b, <2>1, AheadAt
\* A step that starts a write must come one place nearer the end.
<1>e. ASSUME writing = None, B < A PROVE Shrinks
  BY <1>d, <1>e DEF Shrinks, Left
<1>f. ASSUME writing # None, writing' = None, B <= A PROVE Shrinks
  BY <1>d, <1>f DEF Shrinks, Left
<1>g. ASSUME pc' = pc, stage' = stage, cursor' = cursor PROVE B = A
  BY <1>g
<1>. HIDE DEF A, B
<1>1. CASE EndWrite
  <2>1. writing # None /\ writing' = None /\ pc' = pc /\ stage' = stage /\ cursor' = cursor
    BY <1>1 DEF EndWrite, where
  <2>. QED
    BY <1>d, <1>f, <1>g, <2>1
<1>2. CASE FirstSave
  BY <1>2, <1>a, <1>b, <1>e, <1>d DEF FromEnd, FirstSave, At, Save, where
<1>3. CASE MarkStageStarted
  <2>1. /\ pc = "stage_start" /\ pc' = "stage_work" /\ writing = None
        /\ stage' = stage /\ cursor' = cursor
    BY <1>3, Zenon DEF MarkStageStarted, At, Save, where
  <2>. QED
    BY <2>1, <1>a, <1>b, <1>e, <1>d DEF FromEnd
<1>4. CASE StageWork
  BY <1>4, <1>a, <1>b, <1>e, <1>d DEF FromEnd, StageWork, At, where
<1>5. CASE BindRuntime
  <2>1. /\ pc = "stage_work" /\ pc' = "lock_bound" /\ writing = None
        /\ stage' = stage /\ cursor' = cursor
    BY <1>5, Zenon DEF BindRuntime, At, where
  <2>. QED
    BY <2>1, <1>a, <1>b, <1>e, <1>d DEF FromEnd
<1>6. CASE RestoreRuntime
  BY <1>6, <1>a, <1>b, <1>e, <1>d DEF FromEnd, RestoreRuntime, At, where
<1>7. CASE RefuseRuntime
  BY <1>7, <1>a, <1>b, <1>e, <1>d DEF FromEnd, RefuseRuntime, At, where
<1>8. CASE SaveLockSummary
  BY <1>8, <1>a, <1>b, <1>e, <1>d DEF FromEnd, SaveLockSummary, At, Save, where
<1>9. CASE MarkStageCompleted
  <2>1. /\ writing = None /\ pc = "stage_end" /\ cursor' = cursor
        /\ pc' = IF stage = 6 THEN "load_metrics" ELSE "stage_start"
        /\ stage' = IF stage = 6 THEN stage ELSE stage + 1
    BY <1>9, <1>a DEF MarkStageCompleted, At, Save
  <2>. QED
    BY <2>1, <1>a, <1>b, <1>e, <1>d DEF FromEnd
<1>10. CASE LoadMetrics
  BY <1>10, <1>a, <1>b, <1>e, <1>d DEF FromEnd, LoadMetrics, At, where
<1>11. CASE ReuseResult
  <2>1. /\ writing = None /\ pc = "profiles" /\ stage' = stage /\ cursor <= N
        /\ \/ pc' = "failing" /\ cursor' = cursor
           \/ pc' = "profiles" /\ cursor' = cursor + 1
    BY <1>11, <1>a DEF ReuseResult, At, MoreProfiles
  <2>. QED
    BY <2>1, <1>a, <1>b, <1>e, <1>d DEF FromEnd
<1>12. CASE MarkProfileStarted
  <2>1. /\ pc = "profiles" /\ pc' = "measuring" /\ writing = None
        /\ stage' = stage /\ cursor' = cursor
    BY <1>12, Zenon DEF MarkProfileStarted, At, Save, where
  <2>. QED
    BY <2>1, <1>a, <1>b, <1>e, <1>d DEF FromEnd
<1>13. CASE MeasureProfile
  BY <1>13, <1>a, <1>b, <1>e, <1>d DEF FromEnd, MeasureProfile, At, where
<1>14. CASE MarkProfileCompleted
  <2>1. /\ pc = "measured" /\ pc' = "profiles" /\ writing = None
        /\ stage' = stage /\ cursor' = cursor + 1
    BY <1>14, Zenon DEF MarkProfileCompleted, At, Save
  <2>. QED
    BY <2>1, <1>a, <1>b, <1>e, <1>d DEF FromEnd
<1>15. CASE FinalizeReceipt
  <2>1. /\ writing = None /\ pc = "profiles" /\ stage' = stage /\ cursor > N
        /\ \/ pc' = "failing" /\ cursor' = cursor
           \/ pc' = "receipts" /\ cursor' = 1
    BY <1>15, <1>a, <1>b DEF FinalizeReceipt, At, MoreProfiles
  <2>. QED
    BY <2>1, <1>a, <1>b, <1>e, <1>d DEF FromEnd
<1>16. CASE WriteReceipt
  BY <1>16, <1>a, <1>b, <1>e, <1>d DEF FromEnd, WriteReceipt, At, where
<1>17. CASE WriteArtifacts
  BY <1>17, <1>a, <1>b, <1>e, <1>d DEF FromEnd, WriteArtifacts, At, where
<1>18. CASE StartFinalization
  <2>1. /\ pc = "final_start" /\ pc' = "final_work" /\ writing = None
        /\ stage' = stage /\ cursor' = cursor
    BY <1>18, Zenon DEF StartFinalization, At, Save, where
  <2>. QED
    BY <2>1, <1>a, <1>b, <1>e, <1>d DEF FromEnd
<1>19. CASE WriteSummary
  BY <1>19, <1>a, <1>b, <1>e, <1>d DEF FromEnd, WriteSummary, At, where
<1>20. CASE EndFinalization
  BY <1>20, <1>a, <1>b, <1>e, <1>d DEF FromEnd, EndFinalization, At, Save, where
<1>21. CASE MarkCompleted
  <2>1. /\ pc = "complete" /\ pc' = "cleanup" /\ writing = None
        /\ stage' = stage /\ cursor' = cursor
    BY <1>21, Zenon DEF MarkCompleted, At, Save, where
  <2>. QED
    BY <2>1, <1>a, <1>b, <1>e, <1>d DEF FromEnd
<1>22. CASE Return
  BY <1>22, <1>a, <1>b, <1>e, <1>d DEF FromEnd, Return, At, where
<1>23. CASE Fail
  <2>1. /\ pc = "failing" /\ pc' = "stopped" /\ writing = None
        /\ stage' = stage /\ cursor' = cursor
    BY <1>23, Zenon DEF Fail, At, Save, where
  <2>. QED
    BY <2>1, <1>a, <1>b, <1>e, <1>d DEF FromEnd
<1>24. ASSUME NEW resume \in BOOLEAN, Attempt(resume) PROVE Shrinks
  <2>1. pc = "stopped" /\ writing = None
    BY <1>24 DEF Attempt, At
  <2>2. Left = 0
    BY <2>1, <1>d DEF FromEnd, Left, A
  <2>. QED
    BY <2>2 DEF Shrinks
<1>25. CASE Raise
  <2>1. stage' = stage /\ cursor' = cursor /\ writing' = None
    BY <1>25 DEF Raise, where
  <2>2. CASE writing = None
    <3>1. pc \in {"stage_work", "measuring", "final_work", "cleanup"} /\ pc' = "failing"
      BY <1>25, <2>2 DEF Raise, At
    <3>. QED
      BY <2>1, <2>2, <3>1, <1>a, <1>b, <1>e, <1>d DEF FromEnd
  <2>3. CASE writing # None
    <3>1. (pc = "stopped" /\ pc' = "stopped") \/ (pc # "stopped" /\ pc' \in {"stopped", "failing"})
      BY <1>25, <2>3 DEF Raise, Uncaught
    <3>2. B <= A
      BY <2>1, <3>1, <1>a, <1>b, <1>d DEF FromEnd, TypeInv, TypeOK
    <3>. QED
      BY <2>1, <2>3, <3>2, <1>f
  <2>. QED
    BY <2>2, <2>3
<1>26. CASE Kill
  <2>1. stage' = stage /\ cursor' = cursor /\ writing' = None /\ pc' = "stopped"
        /\ (pc # "stopped" \/ writing # None)
    BY <1>26 DEF Kill, where
  <2>2. B = 0 /\ (pc # "stopped" => A > 0)
    BY <2>1, <1>a, <1>b, <1>d DEF FromEnd, TypeInv, TypeOK
  <2>. QED
    BY <2>1, <2>2, <1>d, <1>e, <1>f
<1>27. CASE ChangeBinary
  BY <1>27, Zenon DEF ChangeBinary, Shrinks
<1>28. CASE LoseLock
  BY <1>28, Zenon DEF LoseLock, Shrinks
<1>29. CASE UNCHANGED vars
  BY <1>29, Zenon DEF vars, Shrinks
<1>. QED
  BY <1>1, <1>2, <1>3, <1>4, <1>5, <1>6, <1>7, <1>8, <1>9, <1>10,
     <1>11, <1>12, <1>13, <1>14, <1>15, <1>16, <1>17, <1>18, <1>19, <1>20,
     <1>21, <1>22, <1>23, <1>24, <1>25, <1>26, <1>27, <1>28, <1>29
     DEF Next, RunStep

\* Every step of an attempt leaves it less to do, and nothing that happens to
\* it meanwhile more (runner.py:604-1126), for any number of profiles: an
\* attempt is never on its way for ever by its own doing, only when a download
\* or a tool it waits for does not end.
THEOREM ShrinkSafe == Spec => AttemptShrinks
<1>1. TypeInv /\ TypeInv' /\ [Next]_vars => (Left > 0 => Left' < Left \/ UNCHANGED runVars)
  BY ShrinkStep DEF Shrinks
<1>2. TypeInv /\ TypeInv' /\ [Next]_vars => [Left > 0 => Left' < Left \/ UNCHANGED runVars]_vars
  BY <1>1
<1>. QED
  BY <1>2, TypeCorrect, PTL DEF Spec, AttemptShrinks

LEMMA AheadIsZero ==
  ASSUME NEW loc \in Locations, NEW st \in 1 .. 6, NEW cur \in 1 .. N + 1,
         NEW a \in Nat, FromEnd(loc, st, cur, a)
  PROVE  a = 0 <=> loc = "stopped"
<1>0. N \in Nat
  BY ProfileFacts DEF N
<1>1. CASE loc = "stopped"
  <2>1. a = 0
    BY <1>1, Zenon DEF FromEnd
  <2>. QED
    BY <1>0, <1>1, <2>1
<1>2. CASE loc = "failing"
  <2>1. a = 1
    BY <1>2, Zenon DEF FromEnd
  <2>. QED
    BY <1>0, <1>2, <2>1
<1>3. CASE loc = "cleanup"
  <2>1. a = 2
    BY <1>3, Zenon DEF FromEnd
  <2>. QED
    BY <1>0, <1>3, <2>1
<1>4. CASE loc = "complete"
  <2>1. a = 3
    BY <1>4, Zenon DEF FromEnd
  <2>. QED
    BY <1>0, <1>4, <2>1
<1>5. CASE loc = "final_end"
  <2>1. a = 4
    BY <1>5, Zenon DEF FromEnd
  <2>. QED
    BY <1>0, <1>5, <2>1
<1>6. CASE loc = "final_work"
  <2>1. a = 5
    BY <1>6, Zenon DEF FromEnd
  <2>. QED
    BY <1>0, <1>6, <2>1
<1>7. CASE loc = "final_start"
  <2>1. a = 6
    BY <1>7, Zenon DEF FromEnd
  <2>. QED
    BY <1>0, <1>7, <2>1
<1>8. CASE loc = "receipts"
  <2>1. a = 8 + N - cur
    BY <1>8, Zenon DEF FromEnd
  <2>. QED
    BY <1>0, <1>8, <2>1
<1>9. CASE loc = "profiles"
  <2>1. a = 11 + 4 * N - 3 * cur
    BY <1>9, Zenon DEF FromEnd
  <2>. QED
    BY <1>0, <1>9, <2>1
<1>10. CASE loc = "measuring"
  <2>1. a = 10 + 4 * N - 3 * cur
    BY <1>10, Zenon DEF FromEnd
  <2>. QED
    BY <1>0, <1>10, <2>1
<1>11. CASE loc = "measured"
  <2>1. a = 9 + 4 * N - 3 * cur
    BY <1>11, Zenon DEF FromEnd
  <2>. QED
    BY <1>0, <1>11, <2>1
<1>12. CASE loc = "load_metrics"
  <2>1. a = 12 + 4 * N - 3 * cur
    BY <1>12, Zenon DEF FromEnd
  <2>. QED
    BY <1>0, <1>12, <2>1
<1>13. CASE loc = "stage_start"
  <2>1. a = 40 + 4 * N - 3 * cur - 4 * st
    BY <1>13, Zenon DEF FromEnd
  <2>. QED
    BY <1>0, <1>13, <2>1
<1>14. CASE loc = "stage_work"
  <2>1. a = 39 + 4 * N - 3 * cur - 4 * st
    BY <1>14, Zenon DEF FromEnd
  <2>. QED
    BY <1>0, <1>14, <2>1
<1>15. CASE loc = "lock_bound"
  <2>1. a = 38 + 4 * N - 3 * cur - 4 * st
    BY <1>15, Zenon DEF FromEnd
  <2>. QED
    BY <1>0, <1>15, <2>1
<1>16. CASE loc = "stage_end"
  <2>1. a = 37 + 4 * N - 3 * cur - 4 * st
    BY <1>16, Zenon DEF FromEnd
  <2>. QED
    BY <1>0, <1>16, <2>1
<1>17. CASE loc = "created"
  <2>1. a = 41 + 4 * N - 3 * cur - 4 * st
    BY <1>17, Zenon DEF FromEnd
  <2>. QED
    BY <1>0, <1>17, <2>1
<1>. QED
  BY <1>1, <1>2, <1>3, <1>4, <1>5, <1>6, <1>7, <1>8, <1>9,
     <1>10, <1>11, <1>12, <1>13, <1>14, <1>15, <1>16, <1>17 DEF Locations

LEMMA LeftCounts ==
  ASSUME TypeInv
  PROVE  LeftIsCount
<1>. DEFINE a == Ahead(pc, stage, cursor)
<1>1. stage \in 1 .. 6 /\ cursor \in 1 .. N + 1
  BY ProfileFacts DEF TypeInv, TypeOK, Stages, N
<1>2. pc \in Locations
  BY DEF TypeInv, TypeOK, Locations
<1>3. a \in Nat /\ (a = 0 <=> pc = "stopped")
  BY <1>1, <1>2, AheadAt, AheadIsZero
<1>4. Left = 2 * a + (IF writing = None THEN 0 ELSE 1)
  BY DEF Left
<1>. HIDE DEF a
<1>. QED
  BY <1>3, <1>4 DEF LeftIsCount

\* The measure of ShrinkSafe is a number that is zero exactly when no attempt
\* is under way and no file is half written (runner.py:604-1126): without it
\* the steps could shrink for ever.
THEOREM LeftSafe == Spec => []LeftIsCount
<1>. QED
  BY TypeCorrect, LeftCounts, PTL
=============================================================================
