----------------------------- MODULE RunBundle -----------------------------
(***************************************************************************)
(* One native llama.cpp run directory: run_infergrade (runner.py), its     *)
(* progress.json (progress.py) and its runtime lock (runtime_locks.py),    *)
(* through failures, interrupts and kills between any two steps, and       *)
(* resumed attempts.                                                       *)
(*                                                                         *)
(* write_json truncates its file and then writes it, so a file on disk is  *)
(* absent, torn or whole; the runtime lock alone is replaced atomically.   *)
(* The contents of a file are kept beside its state and are only read when *)
(* the file is whole.                                                      *)
(***************************************************************************)
EXTENDS Naturals, Sequences, FiniteSets

CONSTANTS
    Profiles,   \* the deployment profiles of the request, in order
    Builds,     \* contents the llama.cpp binaries may have
    None,
    Restores,   \* may the user put back binaries that were there before?
    Bound       \* bounds, one per BoundKind

\* "kill": interrupts and kills; "trouble": a step of an attempt raises;
\* "change": the binaries at the locked paths change, or a lock file is lost;
\* "attempt": calls of run_infergrade.
BoundKind == {"kill", "trouble", "change", "attempt"}

Profile == {Profiles[i] : i \in DOMAIN Profiles}
Stages == <<"environment_capture", "artifact_resolution", "runtime_lock",
            "backend_resolution", "capability", "fidelity">>
Files == {"progress", "metrics", "summary"} \union Profile

ASSUME BundleAssumption ==
    /\ Profiles \in Seq(STRING)
    /\ \A i, j \in DOMAIN Profiles : Profiles[i] = Profiles[j] => i = j
    /\ Profile \intersect {"progress", "metrics", "summary"} = {}
    /\ None \notin Builds \union Files
    /\ Restores \in BOOLEAN
    /\ Bound \in [BoundKind -> Nat]

VARIABLES
    dirMade,        \* the output directory holds something
    file,           \* state of every file of the bundle
    savedProgress,  \* contents of progress.json
    savedRecord,    \* contents of results/<profile>.json
    lockFile,       \* status of the runtime lock of every build
    binary,         \* the bytes at the runtime's paths
    usedBuilds,     \* every value binary has had
    pc,             \* where the attempt is
    stage,          \* index of its stage
    cursor,         \* index of its deployment profile
    detail,         \* current_detail: the profile its failure is blamed on
    mem,            \* its progress payload
    bound,          \* it has resolved its runtime lock
    writing,        \* the file between truncation and last byte
    budget

diskVars == <<dirMade, file, savedProgress, savedRecord, lockFile>>
userVars == <<binary, usedBuilds>>
where == <<stage, cursor, detail>>
runVars == <<pc, where, mem, bound, writing>>
vars == <<diskVars, userVars, runVars, budget>>

LockStatus == {"none", "active", "failed", "completed"}
ProfileStatus == {"none", "running", "completed", "failed"}
Progress == [status: {"running", "failed", "completed"},
             lock: Builds \union {None},
             backend: BOOLEAN,
             profile: [Profile -> ProfileStatus]]
Record == [measured: Builds \union {None}, receipt: Builds \union {None}]

FreshProgress == [status |-> "running", lock |-> None, backend |-> FALSE,
                  profile |-> [p \in Profile |-> "none"]]
NoRecord == [measured |-> None, receipt |-> None]

\* What a version without runtime locks left of an interrupted native run.
LegacyProgress == [FreshProgress EXCEPT !.backend = TRUE]

Init ==
    /\ \/ /\ dirMade = FALSE
          /\ file = [f \in Files |-> "absent"]
          /\ savedProgress = FreshProgress
       \/ /\ dirMade = TRUE
          /\ file = [f \in Files |-> IF f = "progress" THEN "whole" ELSE "absent"]
          /\ savedProgress = LegacyProgress
    /\ savedRecord = [p \in Profile |-> NoRecord]
    /\ lockFile = [b \in Builds |-> "none"]
    /\ binary \in Builds
    /\ usedBuilds = {binary}
    /\ pc = "stopped"
    /\ stage = 1
    /\ cursor = 1
    /\ detail = None
    /\ mem = FreshProgress
    /\ bound = FALSE
    /\ writing = None
    /\ budget = Bound

-----------------------------------------------------------------------------
Spend(kind) ==
    /\ budget[kind] > 0
    /\ budget' = [budget EXCEPT ![kind] = @ - 1]

At(loc) == pc = loc /\ writing = None

\* write_json: open(path, "w") truncates.
Truncate(f) ==
    /\ file' = [file EXCEPT ![f] = "torn"]
    /\ writing' = f

\* save_progress of a changed payload; the attempt goes on at loc.
Save(progress, loc) ==
    /\ mem' = progress
    /\ savedProgress' = progress
    /\ Truncate("progress")
    /\ pc' = loc

EndWrite ==
    /\ writing # None
    /\ file' = [file EXCEPT ![writing] = "whole"]
    /\ writing' = None
    /\ UNCHANGED <<dirMade, savedProgress, savedRecord, lockFile, userVars, pc,
                   where, mem, bound, budget>>

-----------------------------------------------------------------------------
(* run_infergrade up to its try statement *)

\* With resume, a torn progress.json raises, and so does a directory that is
\* not empty and has none; without, any existing state does.
MayAttempt(resume) ==
    IF resume THEN file["progress"] = "whole" \/ ~dirMade ELSE ~dirMade

\* A completed bundle with its summary is returned as it is.
Reusable ==
    /\ file["progress"] = "whole"
    /\ savedProgress.status = "completed"
    /\ file["summary"] # "absent"

\* ensure_dir makes the directory and its subdirectories.
Attempt(resume) ==
    /\ At("stopped")
    /\ MayAttempt(resume)
    /\ ~(resume /\ Reusable)
    /\ Spend("attempt")
    /\ dirMade' = TRUE
    /\ mem' = IF dirMade THEN savedProgress ELSE FreshProgress
    /\ pc' = "created"
    /\ stage' = 1
    /\ cursor' = 1
    /\ detail' = None
    /\ bound' = FALSE
    /\ UNCHANGED <<file, savedProgress, savedRecord, lockFile, userVars, writing>>

FirstSave ==
    /\ At("created")
    /\ Save(mem, "stage_start")
    /\ UNCHANGED <<dirMade, savedRecord, lockFile, userVars, where, bound,
                   budget>>

-----------------------------------------------------------------------------
(* The stages before deployment *)

StageIs(s) == Stages[stage] = s

MarkStageStarted ==
    /\ At("stage_start")
    /\ Save([mem EXCEPT !.status = "running",
                        !.backend = @ \/ StageIs("backend_resolution")],
            "stage_work")
    /\ UNCHANGED <<dirMade, savedRecord, lockFile, userVars, where, bound,
                   budget>>

\* The work of a stage that keeps no state of its own here.
StageWork ==
    /\ At("stage_work")
    /\ ~StageIs("runtime_lock")
    /\ pc' = "stage_end"
    /\ UNCHANGED <<diskVars, userVars, where, mem, bound, writing, budget>>

\* resolve_runtime_lock without a saved summary binds the binaries found now.
BindRuntime ==
    /\ At("stage_work")
    /\ StageIs("runtime_lock")
    /\ mem.lock = None
    /\ ~mem.backend
    /\ lockFile' = [lockFile EXCEPT ![binary] = "active"]
    /\ pc' = "lock_bound"
    /\ bound' = TRUE
    /\ mem' = [mem EXCEPT !.lock = binary]
    /\ UNCHANGED <<dirMade, file, savedProgress, savedRecord, userVars, where,
                   writing, budget>>

\* Mutant: a resumed run takes the runtime that is selected now.
RestoreRuntimeSelectedNow ==
    /\ At("stage_work")
    /\ StageIs("runtime_lock")
    /\ mem.lock # None
    /\ lockFile[mem.lock] # "none"
    /\ lockFile' = [lockFile EXCEPT ![binary] = "active"]
    /\ pc' = "lock_bound"
    /\ bound' = TRUE
    /\ mem' = [mem EXCEPT !.lock = binary]
    /\ UNCHANGED <<dirMade, file, savedProgress, savedRecord, userVars, where,
                   writing, budget>>

\* With one it verifies the locked files and makes the lock active again.
RestoreRuntime ==
    /\ At("stage_work")
    /\ StageIs("runtime_lock")
    /\ mem.lock # None
    /\ lockFile[mem.lock] # "none"
    /\ lockFile' = [lockFile EXCEPT ![mem.lock] =
                       IF binary = mem.lock THEN "active" ELSE "failed"]
    /\ pc' = IF binary = mem.lock THEN "lock_bound" ELSE "failing"
    /\ bound' = (binary = mem.lock)
    /\ UNCHANGED <<dirMade, file, savedProgress, savedRecord, userVars, where, mem, writing, budget>>

\* A lock that is gone, or a run begun before locks existed, is refused.
RefuseRuntime ==
    /\ At("stage_work")
    /\ StageIs("runtime_lock")
    /\ IF mem.lock = None THEN mem.backend ELSE lockFile[mem.lock] = "none"
    /\ pc' = "failing"
    /\ UNCHANGED <<diskVars, userVars, where, mem, bound, writing, budget>>

\* progress["runtime_lock"] = summary; save_progress
SaveLockSummary ==
    /\ At("lock_bound")
    /\ Save(mem, "stage_end")
    /\ UNCHANGED <<dirMade, savedRecord, lockFile, userVars, where, bound,
                   budget>>

MarkStageCompleted ==
    /\ At("stage_end")
    /\ Save(mem, IF stage = Len(Stages) THEN "load_metrics" ELSE "stage_start")
    /\ stage' = IF stage = Len(Stages) THEN stage ELSE stage + 1
    /\ UNCHANGED <<dirMade, savedRecord, lockFile, userVars, cursor, detail, bound, budget>>

-----------------------------------------------------------------------------
(* Deployment profiles *)

\* deployment_metrics.json of an earlier attempt must parse.
LoadMetrics ==
    /\ At("load_metrics")
    /\ pc' = IF file["metrics"] = "torn" THEN "failing" ELSE "profiles"
    /\ UNCHANGED <<diskVars, userVars, where, mem, bound, writing, budget>>

Current == Profiles[cursor]
MoreProfiles == cursor <= Len(Profiles)
HasResult == mem.profile[Current] = "completed" /\ file[Current] # "absent"

\* _load_resumable_result: a completed profile keeps its record, which must
\* parse.
ReuseResult ==
    /\ At("profiles")
    /\ MoreProfiles
    /\ HasResult
    /\ IF file[Current] = "torn"
       THEN pc' = "failing" /\ UNCHANGED cursor
       ELSE pc' = "profiles" /\ cursor' = cursor + 1
    /\ UNCHANGED <<diskVars, userVars, stage, detail, mem, bound, writing, budget>>

MarkProfileStarted ==
    /\ At("profiles")
    /\ MoreProfiles
    /\ ~HasResult
    /\ Save([mem EXCEPT !.status = "running", !.profile[Current] = "running"],
            "measuring")
    /\ detail' = Current
    /\ UNCHANGED <<dirMade, savedRecord, lockFile, userVars, stage, cursor, bound,
                   budget>>

\* run_deployment_profile launches the binaries of the locked paths, whatever
\* they hold by now; the record is then written without a receipt.
MeasureProfile ==
    /\ At("measuring")
    /\ savedRecord' = [savedRecord EXCEPT ![Current] =
                          [measured |-> binary, receipt |-> None]]
    /\ Truncate(Current)
    /\ pc' = "measured"
    /\ UNCHANGED <<dirMade, savedProgress, lockFile, userVars, where, mem,
                   bound, budget>>

MarkProfileCompleted ==
    /\ At("measured")
    /\ Save([mem EXCEPT !.profile[Current] = "completed"], "profiles")
    /\ cursor' = cursor + 1
    /\ UNCHANGED <<dirMade, savedRecord, lockFile, userVars, stage, detail, bound, budget>>

-----------------------------------------------------------------------------
(* Receipt, artifacts and finalization *)

\* Mutant: the receipt is issued without the second verification.
FinalizeUnverified ==
    /\ At("profiles")
    /\ ~MoreProfiles
    /\ lockFile' = [lockFile EXCEPT ![mem.lock] = "completed"]
    /\ pc' = "receipts"
    /\ cursor' = 1
    /\ UNCHANGED <<dirMade, file, savedProgress, savedRecord, userVars, stage, detail, mem,
                   bound, writing, budget>>

\* finalize_runtime_receipt verifies the locked files again.
FinalizeReceipt ==
    /\ At("profiles")
    /\ ~MoreProfiles
    /\ IF binary = mem.lock
       THEN /\ lockFile' = [lockFile EXCEPT ![mem.lock] = "completed"]
            /\ pc' = "receipts"
            /\ cursor' = 1
       ELSE /\ pc' = "failing"
            /\ UNCHANGED <<lockFile, cursor>>
    /\ UNCHANGED <<dirMade, file, savedProgress, savedRecord, userVars, stage, detail, mem,
                   bound, writing, budget>>

\* Every record, reused or new, is rewritten with the receipt.
WriteReceipt ==
    /\ At("receipts")
    /\ MoreProfiles
    /\ savedRecord' = [savedRecord EXCEPT ![Current].receipt = mem.lock]
    /\ Truncate(Current)
    /\ cursor' = cursor + 1
    /\ UNCHANGED <<dirMade, savedProgress, lockFile, userVars, pc, stage, detail, mem,
                   bound, budget>>

WriteArtifacts ==
    /\ At("receipts")
    /\ ~MoreProfiles
    /\ Truncate("metrics")
    /\ pc' = "final_start"
    /\ UNCHANGED <<dirMade, savedProgress, savedRecord, lockFile, userVars, where, mem, bound, budget>>

\* Mutant: the run is marked completed before its summary is written.
StartFinalizationCompleted ==
    /\ At("final_start")
    /\ Save([mem EXCEPT !.status = "completed"], "final_work")
    /\ detail' = None
    /\ UNCHANGED <<dirMade, savedRecord, lockFile, userVars, stage, cursor, bound,
                   budget>>

StartFinalization ==
    /\ At("final_start")
    /\ Save([mem EXCEPT !.status = "running"], "final_work")
    /\ detail' = None
    /\ UNCHANGED <<dirMade, savedRecord, lockFile, userVars, stage, cursor, bound,
                   budget>>

\* Manifest, validation, summary and report; the summary stands for them.
WriteSummary ==
    /\ At("final_work")
    /\ Truncate("summary")
    /\ pc' = "final_end"
    /\ UNCHANGED <<dirMade, savedProgress, savedRecord, lockFile, userVars, where, mem, bound, budget>>

EndFinalization ==
    /\ At("final_end")
    /\ Save(mem, "complete")
    /\ UNCHANGED <<dirMade, savedRecord, lockFile, userVars, where, bound,
                   budget>>

MarkCompleted ==
    /\ At("complete")
    /\ Save([mem EXCEPT !.status = "completed"], "cleanup")
    /\ UNCHANGED <<dirMade, savedRecord, lockFile, userVars, where, bound,
                   budget>>

\* remove_capability_case_checkpoints, then the return.
Return ==
    /\ At("cleanup")
    /\ pc' = "stopped"
    /\ UNCHANGED <<diskVars, userVars, where, mem, bound, writing, budget>>

-----------------------------------------------------------------------------
(* Failures *)

\* A step that calls out to adapters, caches and validators may raise, and so
\* may any write, which leaves its file torn.  The first save comes before the
\* try statement, and the write of mark_failed is already in its handler.
Uncaught == pc = "stopped" \/ (pc = "stage_start" /\ stage = 1)

Raise ==
    /\ \/ At("stage_work") \/ At("measuring") \/ At("final_work") \/ At("cleanup")
       \/ writing # None
    /\ Spend("trouble")
    /\ pc' = IF writing # None /\ Uncaught THEN "stopped" ELSE "failing"
    /\ writing' = None
    /\ UNCHANGED <<diskVars, userVars, where, mem, bound>>

\* mark_failed blames the profile measured last, even when it is completed.
FailedProgress ==
    [mem EXCEPT !.status = "failed",
                !.profile = [p \in Profile |->
                    IF p = detail THEN "failed" ELSE @[p]]]

\* except Exception: mark_runtime_lock_failed, mark_failed, re-raise.
Fail ==
    /\ At("failing")
    /\ lockFile' = IF bound THEN [lockFile EXCEPT ![mem.lock] = "failed"]
                            ELSE lockFile
    /\ Save(FailedProgress, "stopped")
    /\ UNCHANGED <<dirMade, savedRecord, userVars, where, bound, budget>>

\* KeyboardInterrupt passes the handler, and so does the death of the process.
Kill ==
    /\ pc # "stopped" \/ writing # None
    /\ Spend("kill")
    /\ pc' = "stopped"
    /\ writing' = None
    /\ UNCHANGED <<diskVars, userVars, where, mem, bound>>

\* The user upgrades, downgrades or replaces the binaries in place.
ChangeBinary ==
    /\ Spend("change")
    /\ \E b \in Builds \ {binary} :
          /\ Restores \/ b \notin usedBuilds
          /\ binary' = b
          /\ usedBuilds' = usedBuilds \union {b}
    /\ UNCHANGED <<diskVars, runVars>>

\* The runtime directory is cleaned up, or the bundle moved to another machine.
LoseLock ==
    /\ Spend("change")
    /\ \E b \in Builds :
          /\ lockFile[b] # "none"
          /\ lockFile' = [lockFile EXCEPT ![b] = "none"]
    /\ UNCHANGED <<dirMade, file, savedProgress, savedRecord, userVars, runVars>>

-----------------------------------------------------------------------------
RunStep ==
    \/ EndWrite \/ FirstSave \/ MarkStageStarted \/ StageWork
    \/ BindRuntime \/ RestoreRuntime \/ RefuseRuntime \/ SaveLockSummary
    \/ MarkStageCompleted \/ LoadMetrics \/ ReuseResult \/ MarkProfileStarted
    \/ MeasureProfile \/ MarkProfileCompleted \/ FinalizeReceipt \/ WriteReceipt
    \/ WriteArtifacts \/ StartFinalization \/ WriteSummary \/ EndFinalization
    \/ MarkCompleted \/ Return \/ Fail

Next ==
    \/ RunStep
    \/ \E resume \in BOOLEAN : Attempt(resume)
    \/ Raise \/ Kill \/ ChangeBinary \/ LoseLock

Spec == Init /\ [][Next]_vars

-----------------------------------------------------------------------------
(* Properties *)

TypeOK ==
    /\ dirMade \in BOOLEAN
    /\ file \in [Files -> {"absent", "torn", "whole"}]
    /\ savedProgress \in Progress
    /\ savedRecord \in [Profile -> Record]
    /\ lockFile \in [Builds -> LockStatus]
    /\ binary \in Builds
    /\ usedBuilds \subseteq Builds
    /\ pc \in {"stopped", "created", "stage_start", "stage_work", "stage_end",
               "lock_bound", "load_metrics", "profiles", "measuring", "measured",
               "receipts", "final_start", "final_work", "final_end", "complete",
               "cleanup", "failing"}
    /\ stage \in 1 .. Len(Stages)
    /\ cursor \in 1 .. Len(Profiles) + 1
    /\ detail \in Profile \union {None}
    /\ mem \in Progress
    /\ bound \in BOOLEAN
    /\ writing \in Files \union {None}
    /\ budget \in [BoundKind -> Nat]

Complete == file["progress"] = "whole" /\ savedProgress.status = "completed"

\* A bundle whose progress.json says completed is complete: whole results for
\* every profile, each with the receipt of the one lock of the run, and a
\* whole summary, whatever attempts were killed on the way.  It is what makes
\* the reuse of a completed directory, and its upload, safe.
CompletedBundleIsWhole ==
    Complete =>
        /\ file["summary"] = "whole"
        /\ \A p \in Profile :
              /\ file[p] = "whole"
              /\ savedRecord[p].receipt = savedProgress.lock
        /\ savedProgress.lock # None

\* No result is on disk before the directory durably says which runtime it
\* was locked to: a resumed attempt can never bind another one.
LockBeforeEvidence ==
    \A p \in Profile :
        (file[p] # "absent" /\ file["progress"] = "whole")
            => savedProgress.lock # None

\* Every number of a completed bundle was measured with the build its receipt
\* names.  It holds if binaries never return to earlier contents.
ReceiptIsHonest ==
    Complete => \A p \in Profile :
                   savedRecord[p].measured = savedRecord[p].receipt

\* The directory keeps the contract of BundleContract, through kills, failures
\* and resumed attempts: in particular it never changes its runtime ("Resume
\* always reuses the saved lock", docs/runtime_selector_design.md:158), and it
\* is not completed by an attempt that has not saved which one it uses.
Contract == INSTANCE BundleContract WITH
    state <- IF Complete THEN "complete" ELSE IF dirMade THEN "partial" ELSE "empty",
    runtime <- savedProgress.lock,
    running <- pc # "stopped" \/ writing # None

ImplementsContract == Contract!Spec

\* The longest way an attempt has before it: every file it has still to write
\* counts twice, for its truncation and for its last byte.
AfterStages(cur) == 8 + Len(Profiles) + 3 * (Len(Profiles) + 1 - cur)
AfterStart(st, cur) == 1 + AfterStages(cur) + 4 * (Len(Stages) + 1 - st)
Ahead(loc, st, cur) ==
    CASE loc = "stopped" -> 0
      [] loc = "failing" -> 1
      [] loc = "cleanup" -> 2
      [] loc = "complete" -> 3
      [] loc = "final_end" -> 4
      [] loc = "final_work" -> 5
      [] loc = "final_start" -> 6
      [] loc = "receipts" -> 8 + Len(Profiles) - cur
      [] loc = "profiles" -> AfterStages(cur)
      [] loc = "measuring" -> AfterStages(cur) - 1
      [] loc = "measured" -> AfterStages(cur) - 2
      [] loc = "load_metrics" -> 1 + AfterStages(cur)
      [] loc = "stage_start" -> AfterStart(st, cur)
      [] loc = "stage_work" -> AfterStart(st, cur) - 1
      [] loc = "lock_bound" -> AfterStart(st, cur) - 2
      [] loc = "stage_end" -> AfterStart(st, cur) - 3
      [] loc = "created" -> AfterStart(st, cur) + 1
Left == 2 * Ahead(pc, stage, cursor) + (IF writing = None THEN 0 ELSE 1)

\* It is a number, and it is zero exactly between attempts.
LeftIsCount == Left \in Nat /\ (Left = 0 <=> pc = "stopped" /\ writing = None)

\* Every step of an attempt, a raised exception and a kill included, leaves it
\* less to do, and nothing the user does meanwhile gives it more: it has a
\* bounded number of steps, whichever results it keeps, whatever it is blamed
\* for and however often it was resumed.  That it ends does not follow: a step
\* that downloads or runs a tool may wait for ever.
AttemptShrinks == [][Left > 0 => Left' < Left \/ UNCHANGED runVars]_vars

\* "The partial output is preserved; retrying the tracked run can resume
\* completed benchmark stages": a directory between attempts can be resumed,
\* and every file the attempt will read back parses.  One kill breaks it, in
\* the first save or in any rewrite of a file that is read back.
StoppedIsResumable ==
    At("stopped") =>
        /\ MayAttempt(TRUE)
        /\ file["metrics"] # "torn"
        /\ \A p \in Profile :
              savedProgress.profile[p] = "completed" => file[p] # "torn"
=============================================================================
