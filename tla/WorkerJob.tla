----------------------------- MODULE WorkerJob -----------------------------
(***************************************************************************)
(* The worker loop of the Runner: worker.py (run_worker_loop,              *)
(* run_worker_once, execute_run_job), the admission lock of admission.py   *)
(* and the Hub calls of transport.py.  The Hub is not in the repository:   *)
(* its run record is modelled from docs/run_jobs.md and from how the       *)
(* worker uses it, and any request or reply may be lost on the way.        *)
(*                                                                         *)
(* A bundle is named by the machine that made it and the run it is for:    *)
(* run_infergrade keeps the bundle_id found in the run's directory, so a   *)
(* machine has one bundle per run however often it resumes it.             *)
(***************************************************************************)
EXTENDS Naturals, FiniteSets

CONSTANTS
    Workers,   \* worker processes (one Runner identity each)
    Machines,  \* hosts; each has one disk and one admission.lock
    Runs,      \* Hub run jobs
    Home,      \* the machine each worker runs on
    None,      \* no worker, no run, no machine
    MaxJobs,   \* max_jobs of run_worker_loop
    Bound      \* bounds on what the environment may do, one per BoundKind

\* "fault": a lost request, lost reply or HTTP error; "trouble": a failing
\* preflight or benchmark; "start", "interrupt", "crash": process starts, ^C
\* and kills; "pause": admission pause/resume commands; "operator": Hub
\* cancel and resume; "revoke": the Hub revokes the Runner token.
BoundKind == {"fault", "trouble", "start", "interrupt", "crash", "pause",
              "operator", "revoke"}

ASSUME WorkerAssumption ==
    /\ Home \in [Workers -> Machines]
    /\ None \notin Workers \union Runs \union Machines
    /\ MaxJobs \in Nat \ {0}
    /\ Bound \in [BoundKind -> Nat]

VARIABLES
    hubStatus,    \* Hub: lifecycle status of every run
    hubOwner,     \* Hub: the worker whose claim was granted
    hubBundle,    \* Hub: bundle_id recorded by complete
    uploads,      \* Hub: bundles received through the run-scoped upload
    tokenValid,   \* Hub: the Runner token has not been revoked
    paused,       \* machine: admission.json
    pauseReq,     \* machine: admission command waiting for admission.lock
    admLock,      \* machine: holder of admission.lock
    finished,     \* machine disks: finished bundles
    torn,         \* machine disks: bundles whose progress.json cannot be read
    pc,           \* worker: where its process is
    job,          \* worker: run being executed
    lateClaim,    \* claims given up on by their worker, not yet dead
    completed,    \* worker: completed_jobs of the loop
    failed,       \* worker: failed_jobs of the loop
    budget        \* what is left of Bound

hubVars == <<hubStatus, hubOwner, hubBundle, uploads, tokenValid>>
machineVars == <<paused, pauseReq, admLock, finished, torn>>
tally == <<completed, failed>>
vars == <<hubVars, machineVars, pc, job, lateClaim, tally, budget>>

Status == {"awaiting_execution", "running", "completed", "failed", "cancelled"}
Bundle == Machines \X Runs

\* The body of the try statement of execute_run_job, in order: run config,
\* preflight, preflight_complete heartbeat, run_infergrade, upload heartbeat,
\* upload, complete, listening heartbeat.
TryStep == {"begin", "preflight", "ready", "running", "bundled", "uploading",
            "completing", "reporting"}
\* The except clauses of that try: before the request of the run exists
\* (whatever goes wrong in "begin") and after.
Early == {"failing_early", "interrupted_early"}
Executing == TryStep \union {"failing", "interrupted"} \union Early
Location == Executing \union {"stopped", "register", "polling", "claiming"}

OwnBundle(w) == <<Home[w], job[w]>>

Init ==
    /\ hubStatus = [r \in Runs |-> "awaiting_execution"]
    /\ hubOwner = [r \in Runs |-> None]
    /\ hubBundle = [r \in Runs |-> None]
    /\ uploads = {}
    /\ tokenValid = TRUE
    /\ paused \in [Machines -> BOOLEAN]
    /\ pauseReq = [m \in Machines |-> "none"]
    /\ admLock = [m \in Machines |-> None]
    /\ finished = {}
    /\ torn = {}
    /\ pc = [w \in Workers |-> "stopped"]
    /\ job = [w \in Workers |-> None]
    /\ lateClaim = {}
    /\ completed = [w \in Workers |-> 0]
    /\ failed = [w \in Workers |-> 0]
    /\ budget = Bound

-----------------------------------------------------------------------------
(* Building blocks *)

Spend(kind) ==
    /\ budget[kind] > 0
    /\ budget' = [budget EXCEPT ![kind] = @ - 1]

\* _json_request returns a status and a body; no caller below looks at the
\* status except upload_run_bundle and heartbeat_runner.
CallReturns == tokenValid /\ UNCHANGED budget

\* It raises: RunnerTokenInvalidError on a 401 for a revoked token, or, with
\* any token, URLError or ConnectionError on a network fault
\* (heartbeat_runner: on any bad status).
TokenRefused == ~tokenValid /\ UNCHANGED budget
CallRaises == TokenRefused \/ Spend("fault")

Goto(w, loc) == pc' = [pc EXCEPT ![w] = loc]

\* The Hub acts on a lifecycle request of the run's current owner only.
Owns(w, r) == hubStatus[r] = "running" /\ hubOwner[r] = w

HubFail(w) ==
    /\ hubStatus' = [r \in Runs |->
          IF r = job[w] /\ Owns(w, r) THEN "failed" ELSE hubStatus[r]]
    /\ UNCHANGED <<hubOwner, hubBundle, uploads, tokenValid>>

HubComplete(w) ==
    /\ hubStatus' = [r \in Runs |->
          IF r = job[w] /\ Owns(w, r) THEN "completed" ELSE hubStatus[r]]
    /\ hubBundle' = [r \in Runs |->
          IF r = job[w] /\ Owns(w, r) THEN Home[w] ELSE hubBundle[r]]
    /\ UNCHANGED <<hubOwner, uploads, tokenValid>>

\* The upload route names the run and the bundle, not the worker.
UploadAccepted(w) == hubStatus[job[w]] = "running"
HubUpload(w) ==
    /\ uploads' = IF UploadAccepted(w) THEN uploads \union {OwnBundle(w)}
                                       ELSE uploads
    /\ UNCHANGED <<hubStatus, hubOwner, hubBundle, tokenValid>>

HubGrant(w, r) ==
    /\ hubStatus[r] = "awaiting_execution"
    /\ hubStatus' = [hubStatus EXCEPT ![r] = "running"]
    /\ hubOwner' = [hubOwner EXCEPT ![r] = w]
    /\ UNCHANGED <<hubBundle, uploads, tokenValid>>

\* Leaving claim_admission, by return, exception or death of the process.
ReleaseAdmission(w) ==
    admLock' = [m \in Machines |-> IF admLock[m] = w THEN None ELSE admLock[m]]

-----------------------------------------------------------------------------
(* run_worker_loop and run_worker_once *)

Start(w) ==
    /\ pc[w] = "stopped"
    /\ Spend("start")
    /\ Goto(w, "register")
    /\ completed' = [completed EXCEPT ![w] = 0]
    /\ failed' = [failed EXCEPT ![w] = 0]
    /\ UNCHANGED <<hubVars, machineVars, job, lateClaim>>

\* register_runner and the first heartbeat_runner must both be acknowledged.
Register(w) ==
    /\ pc[w] = "register"
    /\ \/ CallReturns /\ Goto(w, "polling")
       \/ CallRaises /\ Goto(w, "stopped")
    /\ UNCHANGED <<hubVars, machineVars, job, lateClaim, tally>>

LoopExit(w) ==
    /\ pc[w] = "polling"
    /\ completed[w] + failed[w] >= MaxJobs
    /\ Goto(w, "stopped")
    /\ UNCHANGED <<hubVars, machineVars, job, lateClaim, tally, budget>>

\* claim_admission: take admission.lock, read admission.json under it, keep
\* the lock while the claim is on the wire.  Paused, the loop only sleeps.
SendClaim(w) ==
    /\ pc[w] = "polling"
    /\ completed[w] + failed[w] < MaxJobs
    /\ admLock[Home[w]] = None
    /\ ~paused[Home[w]]
    /\ admLock' = [admLock EXCEPT ![Home[w]] = w]
    /\ Goto(w, "claiming")
    /\ UNCHANGED <<hubVars, paused, pauseReq, finished, torn, job, lateClaim, tally,
                   budget>>

ClaimGranted(w) ==
    /\ pc[w] = "claiming"
    /\ CallReturns
    /\ \E r \in Runs :
          /\ HubGrant(w, r)
          /\ job' = [job EXCEPT ![w] = r]
    /\ Goto(w, "begin")
    /\ ReleaseAdmission(w)
    /\ UNCHANGED <<paused, pauseReq, finished, torn, lateClaim, tally>>

\* No matching run: an envelope without "run".
ClaimIdle(w) ==
    /\ pc[w] = "claiming"
    /\ CallReturns
    /\ \A r \in Runs : hubStatus[r] # "awaiting_execution"
    /\ Goto(w, "polling")
    /\ ReleaseAdmission(w)
    /\ UNCHANGED <<hubVars, paused, pauseReq, finished, torn, job, lateClaim, tally>>

\* Mutant: the loop retries RunnerTokenInvalidError like any other exception.
ClaimRaisesPollingOn(w) ==
    /\ pc[w] = "claiming"
    /\ CallRaises
    /\ Goto(w, "polling")
    /\ ReleaseAdmission(w)
    /\ UNCHANGED <<hubVars, paused, pauseReq, finished, torn, job, lateClaim, tally>>

\* The call raises.  A refused token ends the loop.  On a fault the loop sleeps
\* and polls again, while the request may still be on its way to the Hub (it
\* timed out after CLAIM_REQUEST_TIMEOUT_SECONDS).
ClaimRaises(w) ==
    /\ pc[w] = "claiming"
    /\ \/ TokenRefused /\ Goto(w, "stopped") /\ UNCHANGED lateClaim
       \/ /\ Spend("fault")
          /\ Goto(w, "polling")
          /\ lateClaim' \in {lateClaim, lateClaim \union {w}}
    /\ ReleaseAdmission(w)
    /\ UNCHANGED <<hubVars, paused, pauseReq, finished, torn, job, tally>>

\* The Hub grants a claim whose worker has stopped waiting for the answer.
LateGrant(w) ==
    /\ w \in lateClaim
    /\ tokenValid
    /\ \E r \in Runs : HubGrant(w, r)
    /\ lateClaim' = lateClaim \ {w}
    /\ UNCHANGED <<machineVars, pc, job, tally, budget>>

LateClaimDies(w) ==
    /\ w \in lateClaim
    /\ lateClaim' = lateClaim \ {w}
    /\ UNCHANGED <<hubVars, machineVars, pc, job, tally, budget>>

-----------------------------------------------------------------------------
(* execute_run_job *)

AfterPreRun == [begin |-> "preflight", preflight |-> "ready", ready |-> "running"]

\* Busy heartbeat, run heartbeat, run config; then cache lease, preflight
\* heartbeat and doctor; then the preflight_complete heartbeat.  Whatever
\* raises here ends the run.
PreRun(w) ==
    /\ pc[w] \in DOMAIN AfterPreRun
    /\ \/ CallReturns /\ Goto(w, AfterPreRun[pc[w]])
       \/ /\ CallRaises \/ Spend("trouble")
          /\ Goto(w, IF pc[w] = "begin" THEN "failing_early" ELSE "failing")
    /\ UNCHANGED <<hubVars, machineVars, job, lateClaim, tally>>

\* progress.json is written in place: a write that fails or is cut short
\* leaves a file that is not JSON.
MayTear(w) == torn' \in {torn, torn \union {OwnBundle(w)}}

\* run_infergrade with resume = True; its progress heartbeats are swallowed.
\* It raises on a progress.json of an earlier attempt that it cannot read.
RunInfergrade(w) ==
    /\ pc[w] = "running"
    /\ \/ /\ OwnBundle(w) \notin torn
          /\ finished' = finished \union {OwnBundle(w)}
          /\ Goto(w, "bundled")
          /\ UNCHANGED <<torn, budget>>
       \/ /\ Spend("trouble")
          /\ MayTear(w)
          /\ Goto(w, "failing")
          /\ UNCHANGED finished
       \/ /\ OwnBundle(w) \in torn
          /\ Goto(w, "failing")
          /\ UNCHANGED <<finished, torn, budget>>
    /\ UNCHANGED <<hubVars, paused, pauseReq, admLock, job, lateClaim, tally>>

\* The heartbeat that announces the upload is outside any guard.
UploadHeartbeat(w) ==
    /\ pc[w] = "bundled"
    /\ \/ CallReturns /\ Goto(w, "uploading")
       \/ CallRaises /\ Goto(w, "failing")
    /\ UNCHANGED <<hubVars, machineVars, job, lateClaim, tally>>

\* Mutant: a failed upload is only logged.
UploadSwallowed(w) ==
    /\ pc[w] = "uploading"
    /\ \/ CallReturns /\ HubUpload(w)
       \/ CallRaises /\ UNCHANGED hubVars
    /\ Goto(w, "completing")
    /\ UNCHANGED <<machineVars, job, lateClaim, tally>>

\* upload_run_bundle raises on a status of 400 or more.
UploadRunBundle(w) ==
    /\ pc[w] = "uploading"
    /\ \/ /\ CallReturns
          /\ HubUpload(w)
          /\ Goto(w, IF UploadAccepted(w) THEN "completing" ELSE "failing")
       \/ /\ CallRaises
          /\ Goto(w, "failing")
          /\ UNCHANGED hubVars \/ (tokenValid /\ HubUpload(w))
    /\ UNCHANGED <<machineVars, job, lateClaim, tally>>

\* complete_run_job ignores the status: a refusal, or an HTTP error that left
\* the Hub as it was, is taken for success.
CompleteRunJob(w) ==
    /\ pc[w] = "completing"
    /\ \/ CallReturns /\ HubComplete(w) /\ Goto(w, "reporting")
       \/ Spend("fault") /\ UNCHANGED hubVars /\ Goto(w, "reporting")
       \/ /\ CallRaises
          /\ Goto(w, "failing")
          /\ UNCHANGED hubVars \/ (tokenValid /\ HubComplete(w))
    /\ UNCHANGED <<machineVars, job, lateClaim, tally>>

\* The listening heartbeat after completion is still inside the try.
Report(w) ==
    /\ pc[w] = "reporting"
    /\ \/ /\ CallReturns
          /\ Goto(w, "polling")
          /\ completed' = [completed EXCEPT ![w] = @ + 1]
          /\ job' = [job EXCEPT ![w] = None]
       \/ /\ CallRaises
          /\ Goto(w, "failing")
          /\ UNCHANGED <<completed, job>>
    /\ UNCHANGED <<hubVars, machineVars, lateClaim, failed>>

\* fail_run_job, sent once, its own failure swallowed.
FailRunJob(w) ==
    \/ CallReturns /\ HubFail(w)
    \/ CallRaises /\ (UNCHANGED hubVars \/ (tokenValid /\ HubFail(w)))

\* Both handlers first read progress.json again, outside any guard, once the
\* request names the run's directory.  A file that is not JSON raises there.
TimingRaises(w) == pc[w] \notin Early /\ OwnBundle(w) \in torn

\* Mutant: the exception handler returns without telling the Hub.
HandleExceptionSilently(w) ==
    /\ pc[w] \in {"failing", "failing_early"}
    /\ failed' = [failed EXCEPT ![w] = @ + 1]
    /\ job' = [job EXCEPT ![w] = None]
    /\ Goto(w, "polling")
    /\ UNCHANGED <<hubVars, machineVars, lateClaim, completed, budget>>

\* except Exception: fail the run, send a guarded heartbeat, back to the loop.
\* When the handler raises itself, the loop takes it for a failed claim: it
\* polls on, the Hub is told nothing and the run is not counted.
HandleException(w) ==
    /\ pc[w] \in {"failing", "failing_early"}
    /\ \/ /\ ~TimingRaises(w)
          /\ FailRunJob(w)
          /\ failed' = [failed EXCEPT ![w] = @ + 1]
       \/ TimingRaises(w) /\ UNCHANGED <<hubVars, failed, budget>>
    /\ job' = [job EXCEPT ![w] = None]
    /\ Goto(w, "polling")
    /\ UNCHANGED <<machineVars, lateClaim, completed>>

\* except KeyboardInterrupt: fail the run and re-raise, which ends the loop.
\* When the handler raises, its exception takes the place of the interrupt,
\* and the loop polls on.
HandleInterrupt(w) ==
    /\ pc[w] \in {"interrupted", "interrupted_early"}
    /\ \/ ~TimingRaises(w) /\ FailRunJob(w) /\ Goto(w, "stopped")
       \/ TimingRaises(w) /\ UNCHANGED <<hubVars, budget>> /\ Goto(w, "polling")
    /\ job' = [job EXCEPT ![w] = None]
    /\ UNCHANGED <<machineVars, lateClaim, tally>>

-----------------------------------------------------------------------------
(* The environment *)

\* An interrupt or a kill during the benchmark may cut a write short.
CutShort(w) == IF pc[w] = "running" THEN MayTear(w) ELSE UNCHANGED torn

\* Mutant: a lock file that outlives its owner instead of an flock.
DieHoldingLock(w) ==
    /\ Goto(w, "stopped")
    /\ job' = [job EXCEPT ![w] = None]
    /\ CutShort(w)
    /\ UNCHANGED <<hubVars, paused, pauseReq, admLock, finished, lateClaim, tally>>

\* A process that ends abruptly: the kernel drops its flock, and a claim it
\* had on the wire may still reach the Hub.
Die(w) ==
    /\ Goto(w, "stopped")
    /\ job' = [job EXCEPT ![w] = None]
    /\ ReleaseAdmission(w)
    /\ lateClaim' \in {lateClaim,
          IF pc[w] = "claiming" THEN lateClaim \union {w} ELSE lateClaim}
    /\ CutShort(w)
    /\ UNCHANGED <<hubVars, paused, pauseReq, finished, tally>>

KeyboardInterrupt(w) ==
    /\ pc[w] # "stopped"
    /\ Spend("interrupt")
    /\ IF pc[w] \in TryStep
       THEN /\ Goto(w, IF pc[w] = "begin" THEN "interrupted_early" ELSE "interrupted")
            /\ CutShort(w)
            /\ UNCHANGED <<hubVars, paused, pauseReq, admLock, finished, job,
                           lateClaim, tally>>
       ELSE Die(w)

Crash(w) ==
    /\ pc[w] # "stopped"
    /\ Spend("crash")
    /\ Die(w)

\* infergrade admission pause | resume
AskAdmission(m) ==
    /\ pauseReq[m] = "none"
    /\ Spend("pause")
    /\ \E cmd \in {"pause", "resume"} :
          pauseReq' = [pauseReq EXCEPT ![m] = cmd]
    /\ UNCHANGED <<hubVars, paused, admLock, finished, torn, pc, job, lateClaim, tally>>

\* Mutant: the preference is written without taking admission.lock.
SetAdmissionUnlocked(m) ==
    /\ pauseReq[m] # "none"
    /\ paused' = [paused EXCEPT ![m] = (pauseReq[m] = "pause")]
    /\ pauseReq' = [pauseReq EXCEPT ![m] = "none"]
    /\ UNCHANGED <<hubVars, admLock, finished, torn, pc, job, lateClaim, tally, budget>>

\* set_admission_paused: blocking lock, then atomic replacement of the file.
SetAdmissionPaused(m) ==
    /\ pauseReq[m] # "none"
    /\ admLock[m] = None
    /\ paused' = [paused EXCEPT ![m] = (pauseReq[m] = "pause")]
    /\ pauseReq' = [pauseReq EXCEPT ![m] = "none"]
    /\ UNCHANGED <<hubVars, admLock, finished, torn, pc, job, lateClaim, tally, budget>>

\* POST /v1/runs/{run_id}/cancel and /resume change the record, and send no
\* signal to a worker.
Cancel(r) ==
    /\ hubStatus[r] \in {"awaiting_execution", "running", "failed"}
    /\ Spend("operator")
    /\ hubStatus' = [hubStatus EXCEPT ![r] = "cancelled"]
    /\ UNCHANGED <<hubOwner, hubBundle, uploads, tokenValid, machineVars, pc, job,
                   lateClaim, tally>>

Resume(r) ==
    /\ hubStatus[r] \in {"running", "failed"}
    /\ Spend("operator")
    /\ hubStatus' = [hubStatus EXCEPT ![r] = "awaiting_execution"]
    /\ hubOwner' = [hubOwner EXCEPT ![r] = None]
    /\ UNCHANGED <<hubBundle, uploads, tokenValid, machineVars, pc, job, lateClaim,
                   tally>>

RevokeToken ==
    /\ tokenValid
    /\ Spend("revoke")
    /\ tokenValid' = FALSE
    /\ UNCHANGED <<hubStatus, hubOwner, hubBundle, uploads, machineVars, pc, job,
                   lateClaim, tally>>

-----------------------------------------------------------------------------
WorkerStep(w) ==
    \/ Register(w) \/ LoopExit(w) \/ SendClaim(w)
    \/ ClaimGranted(w) \/ ClaimIdle(w) \/ ClaimRaises(w)
    \/ PreRun(w) \/ RunInfergrade(w) \/ UploadHeartbeat(w) \/ UploadRunBundle(w)
    \/ CompleteRunJob(w) \/ Report(w) \/ HandleException(w) \/ HandleInterrupt(w)

Next ==
    \/ \E w \in Workers :
          \/ WorkerStep(w)
          \/ Start(w) \/ KeyboardInterrupt(w) \/ Crash(w)
          \/ LateGrant(w) \/ LateClaimDies(w)
    \/ \E m \in Machines : AskAdmission(m) \/ SetAdmissionPaused(m)
    \/ \E r \in Runs : Cancel(r) \/ Resume(r)
    \/ RevokeToken

Spec == Init /\ [][Next]_vars

\* What the code bounds by a deadline: the claim (it times out), and with it
\* the time admission.lock is held.  The lock is taken again and again by the
\* loop, but the loop sleeps between two claims and flock queues its waiters,
\* so an admission command gets it in the end.
Fairness ==
    /\ \A w \in Workers : WF_vars(pc[w] = "claiming" /\ WorkerStep(w))
    /\ \A m \in Machines : SF_vars(SetAdmissionPaused(m))

\* What no deadline bounds: every other Hub call, doctor's calls of docker, and
\* run_infergrade.  A property that needs them to end says so.
UntimedStepsEnd ==
    \A w \in Workers : WF_vars(WorkerStep(w))

FairSpec == Spec /\ Fairness

-----------------------------------------------------------------------------
(* Properties *)

TypeOK ==
    /\ hubStatus \in [Runs -> Status]
    /\ hubOwner \in [Runs -> Workers \union {None}]
    /\ hubBundle \in [Runs -> Machines \union {None}]
    /\ uploads \subseteq Bundle
    /\ tokenValid \in BOOLEAN
    /\ paused \in [Machines -> BOOLEAN]
    /\ pauseReq \in [Machines -> {"none", "pause", "resume"}]
    /\ admLock \in [Machines -> Workers \union {None}]
    /\ finished \subseteq Bundle
    /\ torn \subseteq Bundle
    /\ pc \in [Workers -> Location]
    /\ job \in [Workers -> Runs \union {None}]
    /\ lateClaim \subseteq Workers
    /\ completed \in [Workers -> Nat]
    /\ failed \in [Workers -> Nat]
    /\ budget \in [BoundKind -> Nat]

\* A run the Hub shows as completed names a bundle the Hub has received, and
\* no bundle reaches the Hub before the machine that made it finished it:
\* through lost replies, retries on other machines, crashes and resumes, the
\* order run_infergrade, upload_run_bundle, complete_run_job is kept.
HubCompletionBacked ==
    /\ \A r \in Runs :
          hubStatus[r] = "completed" => <<hubBundle[r], r>> \in uploads
    /\ uploads \subseteq finished

\* admission.lock is held by a worker exactly while its claim is on the wire:
\* "The lock is released before execution" (docs/machine_admission.md), and
\* neither an exception nor a crash keeps it.
AdmissionLockDiscipline ==
    \A m \in Machines, w \in Workers :
        admLock[m] = w <=> (pc[w] = "claiming" /\ Home[w] = m)

\* No claim is on the wire on a machine whose pause is confirmed, although
\* the worker reads admission.json in one step and the Hub answers in another.
NoClaimWhilePaused ==
    \A w \in Workers : pc[w] = "claiming" => ~paused[Home[w]]

\* "pause confirmation waits for admission to finish" -- and does not wait
\* for ever, whatever happens to the claims of the machine's workers.
PauseIsConfirmed ==
    \A m \in Machines : pauseReq[m] # "none" ~> pauseReq[m] = "none"

\* No call was lost, no process was killed or interrupted, no operator took a
\* run back, the token stands.
Calm ==
    /\ tokenValid
    /\ \A kind \in {"fault", "crash", "interrupt", "operator"} :
          budget[kind] = Bound[kind]

\* In a calm world the Hub shows no run as running that nobody runs: the
\* worker it names is inside execute_run_job with that very run, unless a
\* write of the run's progress.json failed on that worker's machine.  (Then
\* the handler that should report the failure raises before it does, and the
\* run is left behind.)  A claim whose grant were dropped, or an exception
\* that were not reported, would leave other runs that only an operator can
\* free.
RunningIsRun ==
    Calm => \A r \in Runs :
        hubStatus[r] = "running" =>
            /\ hubOwner[r] \in Workers
            /\ \/ pc[hubOwner[r]] \in Executing /\ job[hubOwner[r]] = r
               \/ <<Home[hubOwner[r]], r>> \in torn

\* Unless an operator took a run back, no two workers execute it at the same
\* time, whatever was lost and whoever died: a claim that was granted too late
\* is a run nobody executes, never one that two do.
OneExecutor ==
    budget["operator"] = Bound["operator"] =>
        \A v, w \in Workers :
            pc[v] \in Executing /\ pc[w] \in Executing /\ job[v] = job[w] => v = w

\* The loop counts at most max_jobs runs, the failed ones too, and asks for no
\* further run while the ones it counted make up the limit.  (A run whose
\* handler raises is not counted.)
JobsAreCounted ==
    \A w \in Workers :
        /\ completed[w] + failed[w] <= MaxJobs
        /\ pc[w] \in Executing \union {"claiming"} => completed[w] + failed[w] < MaxJobs

\* How far a process is from its end, as long as it takes no further run.
StepsLeft ==
    [begin |-> 13, preflight |-> 12, ready |-> 11, running |-> 10, bundled |-> 9,
     uploading |-> 8, completing |-> 7, reporting |-> 6, failing |-> 5, interrupted |-> 4,
     failing_early |-> 5, interrupted_early |-> 4,
     polling |-> 3, claiming |-> 2, register |-> 1, stopped |-> 0]

\* A run is executed in a straight line, whatever raises and is interrupted on
\* it, and a worker goes on to another claim with a token that stands, or after
\* a claim that met a network fault: once the token is revoked, a worker has no
\* more than StepsLeft["begin"] steps left between two such faults.
WorkerShrinks ==
    [][\A w \in Workers :
          \/ StepsLeft[pc'[w]] < StepsLeft[pc[w]] \/ pc'[w] = pc[w]
          \/ pc[w] = "stopped"
          \/ pc[w] \in {"register", "claiming"} /\ (tokenValid \/ Spend("fault"))]_vars

\* In a calm world no run is stranded: a run whose claim reached its worker
\* leaves that worker (completed or failed), whichever step of the run fails,
\* provided that the calls and tools that have no deadline end.  The one run
\* that may stay behind is the one whose progress.json could not be written.
NoRunStranded ==
    UntimedStepsEnd =>
    \A r \in Runs, w \in Workers :
        (pc[w] = "begin" /\ Owns(w, r) /\ job[w] = r)
            ~> (~Owns(w, r) \/ ~Calm \/ <<Home[w], r>> \in torn)

\* A worker whose token is revoked ends, wherever the 401 first meets it and
\* whatever faults come in between (it is not left polling with a token that
\* cannot work), unless its machine is paused and it makes no claims, and
\* provided that the calls and tools that have no deadline end.
RevokedWorkerEnds ==
    UntimedStepsEnd =>
    \A w \in Workers :
        ~tokenValid ~> (pc[w] = "stopped" \/ paused[Home[w]])

\* "Hub heartbeats ... are observability side channels.  A transient failure
\* must never invalidate benchmark work."  The code breaks it twice: by the
\* heartbeat that announces the upload, and by the listening heartbeat sent
\* inside the try statement after the Hub has accepted the completion.
HeartbeatNeverInvalidates ==
    [][\A w \in Workers : pc[w] \in {"bundled", "reporting"} => pc'[w] # "failing"]_vars
=============================================================================
