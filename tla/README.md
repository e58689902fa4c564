# InferGrade Runner in TLA+

TLA+ models of the parts of the InferGrade Runner whose correctness depends on
what happens *between* two steps: a kill, a lost reply, another process, the
user's hand in a directory, a second attempt. TLC checks each of them on a small
instance; TLAPS proves the main safety properties for every value of the
constants. The code is the reference. `PROJECT.json` says, under `map`, which
source lines every definition stands for. Source paths below are relative to
`src/`; `infergrade/` is `src/python/runner-core/src/infergrade/`.

To check a run: `tlc -config CacheStoreShared.cfg MCCacheStore`. To check the
proofs: `tlapm CacheStoreProofs.tla`.

## 1. The system

A Runner benchmarks a quantized model on the user's machine and reports to a
Hub. A *worker* polls the Hub for run jobs and executes them with the same code
as the command line: resolve and download a model file into a cache shared by
every process of the machine, bind the binaries of a llama.cpp build with a
runtime lock, evaluate capabilities case by case, measure deployment profiles,
and write everything to a run directory (the bundle) that can be resumed and is
finally uploaded. The *Desktop* app runs workers and helpers as child processes
and owns pairing, storage and settings; the Rust *engine* installs and selects
managed runtimes.

### Components

| component | code | state it keeps | operations | correct when |
|---|---|---|---|---|
| worker loop | `infergrade/worker.py`, `transport.py` | the claimed run, counters; the Hub's record of the run | register, claim, execute, upload, complete, report failure or interrupt | the Hub never shows a run as completed without its bundle; a run that cannot go on is reported; a revoked worker ends |
| machine admission | `admission.py`, `process_locks.py` | `admission.json`, `admission.lock` | claim under the lock, pause, resume | after a confirmed pause nobody claims; every pause is confirmed |
| run bundle | `runner.py`, `progress.py`, `utils.py` | `progress.json`, results, summary, metrics | attempt, stages, profiles, finalize, fail, complete | a completed bundle is whole; a resumed one keeps its runtime; an attempt has a bounded number of steps |
| runtime locks | `runtime_locks.py` | `locks/<id>.json`, the binaries | bind, restore, verify, finalize receipts | every number was measured with the build the receipt names |
| case checkpoint | `capabilities.py` 1400–1560, 4028–4470 | `case-checkpoint.jsonl`, `predictions.jsonl`, `summary.json` | load, append, reuse, evaluate, remove | completed cases are reused, never mixed between protocols, dropped only when durable elsewhere |
| model cache | `cache_control.py`, `cache_budget.py`, `artifacts.py` | model files, `managed.json`, `budget.json`, `reservation.json`, three file locks | resolve, download, record, Keep, clean up, limit, trim | the limit holds; nothing in use, kept or foreign is deleted; nobody waits in a circle |
| Desktop lifecycle | `apps/desktop-runner/src-tauri/src/background.rs`, `cache_lease.rs` | active count, maintenance, exclusive, exiting, keep-running; cache lease | admit work, maintenance, exclusive work, close, exit | "a hidden window must never be an orphaned job"; no cleanup under work |
| Desktop listener and helpers | Desktop `lib.rs` 524–760, 1916–2090 | the listener child, admission helper | start, stop, terminated, pause and resume admission | one listener; a stop is never lost; guards outlive children |
| storage controls, private benchmark | `storage_controls.rs`, `private_benchmark.rs` | their guards and child | start, stop, cancel | exclusive of other work |
| pairing | Desktop `device_pairing.rs`, `lib.rs`, `devicePairing.js`; engine `pairing.rs`, `token_store.rs`, `profile.rs` | generations of the page and of the back end, pending session, token, profile, pairing lock | connect, poll, cancel, redeem a code, reset, observed check | an answer that comes too late changes nothing; token and profile agree; the page always offers to connect again |
| managed runtime store | engine `lib.rs` 2222–3086 | build directories, selected runtime, archived selections | install, install a catalog target, select, roll back, clear | what is selected is present and was tested; a rollback works |
| runtime catalog | engine `runtime_catalog.rs` | cached generations, active pointer | fetch, verify, activate, load | the active catalog is one published generation and never goes back |
| llama.cpp adapter | `adapters/llama_cpp.py`, `adapters/base.py` | the suite's server, containers, monitors, temporary files | preflight, suite, perplexity, deployment iterations | engines are measured alone, sized for their case, not left behind; no run is held up by an engine |
| finish notifications, startup | `finish_notifications.rs`, `startup.rs` | marker per run | submit once, probe | a run is announced once |
| benchmark engine, Hub client | engine `benchmark.rs`, `hub_client.rs`, `worker_protocol.rs` | none between calls | requests, reports | — |
| observed runtime | `observed_runtime.py`, `observed_quick_suite.py` | a receipt | probe, evaluate | bounded reads, honest receipts |
| scoring, calibration, catalogs, readiness, reports, doctor, CLI | remaining Python files | none | pure functions, text, dispatch | — |
| Desktop front end, sidecar, runner-cli, containers, schemas, scripts | | | | — |
| the Hub | not in the repository | runs, leases, uploads | grant, accept, cancel, revoke | modelled from the worker's use of it; marked external |

### How they interact

* Calls over an unreliable network: worker → Hub (request or reply may be lost,
  a claim may be granted after its worker gave up).
* Shared files under advisory locks that the system drops with the process:
  admission (one lock), cache (lease, producer, metadata, in this order).
* Shared files without a lock: a run directory between its attempts, the runtime
  store and the catalog cache.
* Child processes: the Desktop supervises the Runner's, the adapter its engines;
  both must give up on them without forgetting them.
* Asynchronous commands: page and back end of the Desktop each number their
  attempts, because replies come back in any order.
* Writes: `write_json` truncates and then writes, so a kill leaves a torn file;
  locks, `managed.json`, `budget.json` and selections are replaced atomically;
  the checkpoint is appended and synced line by line.
* The user changes binaries, locks and cached files at any time.

### What is hard

Concurrency of processes on one machine (admission, cache, runtime store); kills
between two writes (bundle, checkpoint, selections, pairing); replies that are
lost or late (worker, pairing); state read before a wait and used after it
(cached files, pairing polls, catalog pointers, guards); locks that wait for each
other; results reused by an attempt that did not produce them (bundle,
checkpoint); processes that outlive whoever started them (Desktop, adapter).
`PROJECT.json` lists every such place
under `hazards`, with the properties that cover it.

## 2. Modules

| module | what it is |
|---|---|
| `WorkerJob` | workers, admission and the Hub; `MCWorkerJob` its instances, `WorkerJobProofs` its proofs |
| `BundleContract` | what a run directory promises its callers (abstract) |
| `RunBundle` | one run directory; refines `BundleContract`; `MCRunBundle`, `RunBundleProofs` |
| `CaseCheckpoint` | one benchmark's checkpoint; `MCCaseCheckpoint`, `CaseCheckpointProofs` |
| `CacheStore` | the shared cache; `MCCacheStore`, `CacheStoreProofs` |
| `WorkGate` | who may hold which guard, and when no more are granted (abstract) |
| `DesktopWork` | the Desktop's supervisor: guards, child processes, window; refines `WorkGate`; `MCDesktopWork`, `DesktopWorkProofs` |
| `DevicePairing` | pairing a machine with a Hub; `MCDevicePairing`, `DevicePairingProofs` |
| `RuntimeCatalog`, `RuntimeStore` | signed catalog, installed and selected builds, one process's steps each |
| `ManagedRuntime` | both composed: the targets a loaded catalog offers are installed; `MCManagedRuntime`, `ManagedRuntimeProofs` |
| `EngineRun` | the engines of one run as the llama.cpp adapter drives them; `MCEngineRun`, `EngineRunProofs` |

They meet at these points: `WorkerJob` takes `run_infergrade` as one step that
finishes a bundle or raises, which is what `BundleContract` promises and
`RunBundle` implements; `RunBundle` takes the capability stage as one step,
which `CaseCheckpoint` opens up; a run of `CacheStore` is the artifact stage of
`RunBundle` and the execution that follows under the same lease; the listener,
the private benchmark and the cleanup of `DesktopWork` are the processes of the
other modules, and its shared lease is one more reader of `CacheStore`'s;
`EngineRun` opens up what `RunBundle` calls a stage and `CaseCheckpoint` calls
generating a case; `ManagedRuntime` decides which build a run finds and
`RunBundle`'s lock then holds on to; a pairing of `DevicePairing` gives the token
that `WorkerJob`'s requests carry and the Hub may revoke.

### WorkerJob

`pc[w]` is where worker `w` stands in `run_worker_loop` / `execute_run_job`;
`job` its run. One action per call: `Register`, `SendClaim` (takes
`admission.lock` and reads `admission.json`), `ClaimGranted/Idle/Raises`,
`PreRun`, `RunInfergrade`, `UploadHeartbeat`, `UploadRunBundle`,
`CompleteRunJob`, `Report`, `FailRunJob`. Whether a request arrived is
independent of whether its reply did (`CallReturns`, `CallRaises`), so the Hub's
half (`HubGrant`, `HubComplete`, ...) may happen under a call that raises.
`HandleException` and `HandleInterrupt` are the two except clauses; `Crash`
kills the process, dropping its lock; `LateGrant` is a claim the Hub answers after
the worker gave up (also while a pause is confirmed: `NoClaimWhilePaused` speaks
of claims on the wire). `torn` are the bundles whose `progress.json` a failing or
interrupted write has left unreadable: `run_infergrade` raises on it, and so do
both handlers (`TimingRaises`: `_lifecycle_timing`, lines 411 and 442, loads the
file outside any `try`) before `fail_run_job` is sent, so that the loop polls on
while the Hub still shows the run as running. After a revocation a call may fail
with the 401 (`TokenRefused`) or, as before, in the network, which leads back to
polling. `SetAdmissionPaused` is the operator's command waiting for the lock. Left
out: Desktop events, texts of failures, retries inside one HTTP
call.

### RunBundle and BundleContract

`file` says of every file whether it is absent, torn or whole, `saved*` what it
contains; a `Save` is two steps (`Truncate`, `EndWrite`) with a kill possible in
between. `stage`, `cursor` and `detail` are the position of an attempt, `mem`
its progress payload. `binary` is what is on disk at the locked paths and may
change at any step; `lockFile` is the status of the lock of each build.
`RestoreRuntime`, `BindRuntime`, `FinalizeReceipt` and `WriteReceipt` are the
operations of `runtime_locks.py`. `Raise`/`Fail` is the exception handler with
its `mark_failed`, `Kill` leaves everything as it is.

### CaseCheckpoint

The file is abstracted to what its readers see: `header` (fingerprint), `lines`
(last completed record per case in the readable part) and `tail` — `clean`,
`torn` (a cut record), `open` (a record without its newline) or `merged` (a
record appended to an open line, which hides everything after it). One action per
step of the case loop; `OpenTails` says whether a torn append may lose exactly
the newline. `appended` are the cases that were ever appended completely, `dropped`
those of them that went with a removed checkpoint (both are history variables). The
removal comes after progress is marked completed, and an exception behind it
(`runner.py:1111`) makes the run resumable again: its next attempt finds no
checkpoint and generates the cases anew, which is why `ResumeReuses` speaks of
`appended \ dropped`.

### CacheStore

`file[a]` is the file at artifact `a`'s path with an identity (device, inode,
size, time in the code) that is never used twice, `rows` is `managed.json`,
`limit` `budget.json`, `reservation` `reservation.json`. `readers`/`writer` is
`cache-lease.lock`, `producer` and `metadata` the two others. Every process
does one request: a run (look up, wait for the producer, look up again, reserve,
download, publish, record, use), a Keep change, a cleanup, or a new limit. A
process that changes `managed.json` works on a copy (`values`) from
`ReadMetadata` to `SaveMetadata`, as the code does. `kept` is a history
variable: the identity last confirmed as kept. The age of a file
(`installed_at`) is its identity, which grows. A cleanup or trim compares the
identity of a recorded file and then deletes by name: two steps, with `checked`
the identity between them. A file the user puts there in between is deleted, which
`ForeignIsPreserved` exempts (`ReplacedSince`) and the code does not prevent.
`Weight` is only assumed to be
monotone and to grow by at most the size of an added artifact. Assumed of the
user: a file is left alone between its publication and its record, a window of a
link and a `stat` (`artifacts.py:170`, see hazards). Left out: status reads,
pruning of partial downloads, format and symlink checks, parsing of artifact
references.

### DesktopWork

`life` is the `Lifecycle` of `background.rs`; `own[o]` is what a command or, after
a hand-over, a process owns: a guard, the shared lease, the BUSY flag of its
helper family. A command takes the lease and is admitted in two steps
(`TakeLease`, `Admit`), and whatever returns drops its fields in the order of the
Rust destructors (`DropBusy`, `DropGuard`, `DropLease`), so that others run in
between. `StartListener` and `StartPrivate` move the guard into the slot,
`GiveUp` moves it to `hold_admission_until_terminated`, `HandleTerminated` is the
event that ends it. A slot whose process ended stays locked until its guard is
dropped (`SlotOpen`), because the code does both under one mutex; the start of a
listener is one step for the same reason. `LoseChannel` is an event channel that
closes without `Terminated`: the slots and `hold_admission_until_terminated` then
keep their guard for good, as the code intends, and the Desktop cannot quit;
`.output()` commands (`clear`, `starter`, `keep`) return although their process
may still run, which is why `NoOrphan` speaks of the other kinds. A process id is
free again once its exit was handled. All commands that only hold a `WorkGuard`
while they work are the kind `work`. `WorkGate` is what the guards promise without
counter, flags, locks and processes: `held` is the guard of every owner, `phase`
whether the Desktop is open, quitting or gone, and `ImplementsGate` says that
`DesktopWork` keeps to it. Left out: a crash of the Desktop, the
process of the observed check, event texts.

### DevicePairing

What a machine is paired with is one value, the serial of the attempt that
obtained it; the credential store (`token`) and the profile file (`profile`) each
hold one, or nothing, or a torn text. `ui` is the controller of
`devicePairing.js` (its generation, whether it is active, completing, shows a
code), `device` the `DEVICE_PAIRING` of the back end (generation, pending
session). A task is one invocation; its `pc` walks through the awaits of the
controller and of the command it invoked, so that replies interleave freely.
`Begin`, `StoreSession`, `PollStore`, `RedeemLock`, `RedeemStore`, `Cancel`,
`Reset` wait for the write side of `PAIRING_STATE_LOCK` (`CanWrite`), an observed
check keeps the read side from `ObserveLock` to `ObserveUpload`.
`complete_pairing_response` is `SaveToken`, `SaveAgain` (a refused credential is
deleted and set once more), `SaveProfile`, `WriteProfile`, `UndoToken`, each of
which may fail. `Expire` lets a session expire at any time; `Kill` leaves only the
stores. `live` is a history variable: the latest attempt that nothing has
followed. Not modelled: the listener and the ping read profile and token without
the lock (Desktop `lib.rs:546`), so that they may see half of a change and fail;
`save_runner_token` and `clear_runner_token` are commands no page calls; the
page's own deadline.

### RuntimeCatalog, RuntimeStore, ManagedRuntime

A published generation has one file per role, `<<version, edition>>`; a fetched
*bundle* says from which generation each of its files came, because the four
requests are separate and the server moves in between (`Serve`). `Verified` is
`verify_runtime_catalog`: trusted root (the pinned one or the one rotation it
signs), references between the files, expiry, versions that do not go back;
signatures themselves are taken for granted. `VerifyFetched`, `CompareDigests`,
`CacheGeneration`, `ActivatePointer` are the steps of a refresh, `LoadGeneration`
and `VerifyLoaded` of a load; both read the pointer more than once. In the store a
build stands for its content; `built` are the directories, `selected` the
selection file, `history` the archived selections. `EnsureRollback`,
`FetchArchive`, `SmokeBuild`, `ActivateBuild`, `ArchiveSelection`, `SelectBuild`,
`ValidateInstall`, `RestoreSelection` are the steps of an installation, in the
order of the code: a target is validated *after* it was selected, and the
fallback restored if it is not the build it claims. The user's own binary is
written in place (`TruncateSelection`, `FillSelection`). `raced` and `excused` are
history variables: a pointer was written over one its writer had not seen; a kill
or failing write came between selection and check, or the user asked by name
(`infergrade-runner runtime rollback`) for a build that nobody vouches for. Not
modelled: failing writes of the archive; a build directory damaged later, which a reinstallation cannot repair
because a directory of that name with other content is refused (`lib.rs:2884`).

### EngineRun

One run of the adapter: `preflight` (native only), the `suite` with its reusable
server, `fidelity` (the perplexity tool) and `deploy` (iterations of every
profile). `engine[e]` is a process or container: loading, ready, ending, dead, or
`lost` — its stop failed and nobody looks after it. `at` is the position of the
run's one thread: a call of the adapter, its launch, the wait until the server is
ready, the request, a one-shot tool, or the stop that ends all of them and why.
`Reusable`, `Grow` and `Bucket` are `_ensure_capability_server_session`. A case
asks for up to `Asks` completions, one after the other: a plain case once or, after
a retry, twice, a tool loop once per step with a prompt that grows (`AskAgain`).
`files` are the logs of servers and the perplexity corpus, which `StartPerplexity`
writes before the `try` that removes it, so that a failing write leaves it
(`CorpusFails`). Failures
(`LaunchFails`, `WaitFails`, `OffloadUnproved`, `CompletionFails`, `StopGivesUp`)
stop the engine that failed and count as a mishap of the suite; `Interrupt` is
Ctrl-C at any point between two steps, including in a call that has started an
engine nobody holds as a session yet. Assumed: one Runner per machine uses the
ports of the adapter — `_find_free_local_port` (line 2260) releases the port
before the server binds it, so that another program could answer `/health`; an
interrupt does not fall between an exception and the stop in its handler. What the
code waits for without a deadline is `Untimed`: `docker run`, `port`, `inspect`,
`logs` and `stop`, one-shot tools, the baseline of `nvidia-smi`, and an answer that
trickles in below its socket timeout. A Runner that is killed leaves its
server running, which no property denies; the container of an interrupted
`docker run --rm` goes on as `lost`; an interrupt during a load whose stop then
times out is swallowed, as in the code. Left out: the chat path that does not
reuse a server (760–846), one-shot completions beyond their process, and the
reported load time.

## 3. Runs

| run | instance | what it shows |
|---|---|---|
| `WorkerJobFair` | 2 workers on one machine, 1 run; fault, trouble, interrupt, crash, pause, operator command, revocation | the Hub completes no run without its bundle, no claim while paused; pauses are confirmed; if calls and benchmarks end, no run is stranded (a torn `progress.json` apart) and revoked workers end |
| `RunBundleCrash` | 2 profiles, 3 builds, 3 attempts, kill, trouble, 2 changes | completed bundles are whole and honest, the contract is implemented |
| `CaseCheckpointResume` | 3 cases, 2 protocols, 3 attempts, kill, trouble, 2 upgrades | cases are reused while the checkpoint is there, protocols not mixed, the checkpoint removed only when durable, scores have evidence |
| `CacheStoreShared` | 2 processes, artifacts of size 1 and 2, limit 2 or none, 3 starts, kill, trouble, user change | the limit, readers, kept and foreign files, and that every operation ends if downloads and executions do |
| `DesktopWorkGuards` | 2 commands of 7 kinds, 2 processes, 1 lost channel; symmetric | no process without a guard; a stop is admitted and truly confirmed; no cleanup meets work; counter and flags implement the gate of `WorkGate`, so that an exit is final |
| `DesktopWorkEnds` | 2 commands of 4 kinds, 2 processes | commands return; a closed window is followed by the end of the Desktop |
| `DevicePairingLate` | 3 tasks, 3 invocations, 2 failing stores, 1 kill | late answers store nothing, token and profile agree at rest, an observed check sees one pairing, the buttons come back |
| `ManagedRuntimeShared` | 2 processes, 3 generations, 4 builds, 2 targets (one of them not what it claims, later revoked); three budgets; symmetric | the active catalog is one generation and moves forward, a loaded one is current; what is selected or can be rolled back to is present and tested; an unclaimed build is selected only until it is found out; a fallback stays |
| `EngineRunEnds` | 2 engines, 3 lists of 3 or 4 cases with up to 3 completions each, 2 profiles with a warmup, 2 deaths, 2 failures, 1 stuck stop, 1 interrupt; native and container | engines run alone, large enough and no more often than promised, none is left behind; a run ends if every wait without a deadline does |
| `WorkerJobHeartbeat`, `RunBundleTorn`, `CaseCheckpointTail` | smaller ones | three sentences of the repository's docs and comments that the code does not keep (below) |

The type invariants (`TypeOK`) of `WorkerJob`, `RunBundle`, `CaseCheckpoint`,
`CacheStore`, `DesktopWork`, `DevicePairing` and `EngineRun`, and the types of
`ManagedRuntime` (`CatalogTyped`, `StoreTyped`), are theorems (`TypeSafe`) rather than invariants of a run, and so are `AdmissionLockDiscipline`,
`LockBeforeEvidence`, `GuardsExact`, `Alone` and `ExitIsFinal`.

**Bounds.** Every bound is a constant (a field of `Bound`, a budget of
`ManagedRuntime`, a `Max...` of `DevicePairing`) that a guard consumes; nothing
else limits the state space. They count what the
*environment* may do (starts, kills, faults, failures, changes) and never what
the program does, so a bound cannot hide a step of the code. One of each kind is
what it takes for two mishaps to meet: every property is violated by a mutant
with these bounds, the mutants being the bugs the code avoids (a lock not taken,
a reservation added up, a checkpoint not cut). Two workers or processes
suffice for the pairwise races; the proofs remove the bounds for safety.
Two sizes with a limit equal to the larger make "either fits, both do not" and
the oldest-first trim happen. Three builds and two changes let one build come
between two others. Three cases put a reused, a torn and a new one side by side. `DesktopWork` is
finite by itself: only commands, process ids and lost channels are bounded. Two
commands and two processes suffice for a stop racing a start, a helper of a
family beside another, and a cleanup beside work; the run that checks liveness
has fewer kinds and no symmetry. In `DevicePairing` three invocations let two
attempts and a cancellation overlap, two failing stores reach the clean-up that
fails too. `ManagedRuntime` starts with one of three budgets, because what two
refreshes do to each other, what two store operations do to each other, and what
a target of a loaded catalog does beside another operation are independent: the
catalog and the store share no state but the offered target. `EngineRun` has one
handle more than the code may have engines alive, its case lists rise, fall and mix
the three context buckets and hold a pinned fixture larger than all of them; three
completions are what a successful tool loop asks for.

**Fairness.** Only what the code bounds itself is fair. `WorkerJob`: weak for a
worker whose claim is on the wire (the claim, made under `admission.lock`, is the one
Hub call of the loop with a timeout), strong for `SetAdmissionPaused`, which waits for a file lock
that others keep taking and releasing; `flock` waiters are served, and without it a
pause may starve. `RunBundle` and `CaseCheckpoint`: none, no liveness is claimed.
`CacheStore`: weak for each process except in a download and in the execution that
uses the file. `EngineRun`: weak for the adapter's thread where its wait has a
deadline, and for a native engine that was told to end, which is killed in the
end; none for a server that loads or answers, and none for what is `Untimed`.
`DesktopWork`: weak for commands and drops (the async runtime), strong for the steps
that take the mutex of a slot, weak for the exit the toolkit requests when the last
window is gone, and for the exit of the processes that nothing times out
(`.output()`, an assumption about them); none for the listener or a private
benchmark, which may run for ever. `DevicePairing`: weak for tasks and deadlines
(requests have timeouts, stores answer), strong for the steps that wait for the
pairing lock, which tokio grants in turn. None for kills, faults, the user, or the
Hub's operator.

Downloads, executions, most Hub calls, `docker` and one-shot tools have no deadline
in the code (`artifacts.py:407`, 464, 484, 602; `llama_cpp.py:1270`, 1971, 2045,
2054, 2241; `container_runtime.py:63`) and may hang for ever, with every lock
they hold. `NoRunStranded`, `RevokedWorkerEnds`, `OperationsEnd` and `RunEnds` do
not deny it: each is an implication whose antecedent, the module's
`UntimedStepsEnd`, says that these steps end. What they show is that nothing else
stops a worker, a cache operation or a run: no circle of locks, no retry for ever,
no engine that loads, hangs or dies. `PauseIsConfirmed` needs no such premise.

`CHECK_DEADLOCK FALSE` in the cfgs: every one of these systems may stop, when all
processes have ended and the environment's budget is spent; in `DesktopWork`
nobody has to use the Desktop.

### Where the code and its documentation differ

1. *A heartbeat can fail a finished run.* `worker.py:327` promises that a failing
   heartbeat never invalidates work; those at 348 and 391 do
   (`WorkerJobHeartbeat`).
2. *One kill can end a run for good.* Between the creation of the directory and the
   first whole `progress.json`, or in any rewrite of a file that is read back
   (`RunBundleTorn`).
3. *A lost newline.* The next record is appended to the same line and the load
   after that drops both and all later ones (`CaseCheckpointTail`).

Also seen while modelling, and visible in the models, but without a run of their
own: `complete_run_job` does not look at the status of its reply
(`worker.py:368`, 383); the only report of an interrupted run may be lost
(`worker.py:412`); an interrupt after the upload is reported as one before it
(`worker.py:402`); `mark_failed` demotes the last completed profile
(`progress.py:463`); a paused worker with a revoked token goes on polling;
binaries that change during an attempt and are put back before its end are not
noticed, so that results measured with others get the receipt of the locked build
(`RunBundle` with `Restores = TRUE`); a failed protocol canary is forgotten by a
resume, because reuse does not look at a failed recovery (`CaseCheckpoint`,
hazard at `capabilities.py:4264`); a pinned context of more than 16K is capped at
16K (`llama_cpp.py:856`), although line 58 says an explicit pinned context is
honoured, which is why `CaseFitsContext` speaks of cases up to 16K; a kill between
token and profile leaves the token of the new pairing beside the profile of the
old one (`cut` in `DevicePairing`); a kill while a target is being validated
leaves it selected (`excused`), and two refreshes that overlap may move the
catalog back (`raced`); a torn `progress.json` makes the exception handler raise
and leaves the run running in the Hub (`worker.py:411`, 442; `torn` in `WorkerJob`);
a failure behind the removal of the checkpoints makes a resumed run generate its
cases again (`runner.py:1111`; `dropped` in `CaseCheckpoint`); a file the user puts
in place of a cached one between comparison and deletion is deleted
(`cache_control.py:268` and 273, `cache_budget.py:145` and 147; `ReplacedSince` in
`CacheStore`); a failing write of the perplexity corpus leaves the file
(`llama_cpp.py:1644`; `CorpusFails` in `EngineRun`).

## 4. Proofs

All are inductive-invariant proofs over the module's own `Next`, one step per
action; constants are arbitrary under the module's named assumption
(`WorkerAssumption`, `BundleAssumption`, `CheckpointAssumption`,
`CacheAssumption`, `DesktopAssumption`, `PairingAssumption`,
`RuntimeAssumption`, `EngineAssumption`), so the bounds of the runs are gone.
The assumptions only type the constants and keep the values that mark an absence
apart from the others; TLC evaluates them in every run. The properties are the
ones the runs check; what a theorem needs beyond its property is a named
conjunct of the module's inductive invariant.

* **WorkerJobProofs.** `TypeInv`; `LockInv` (lock held iff claim on the wire, and
  then not paused) gives `NoClaimWhilePaused`; `OrderInv` (where a worker is
  past `run_infergrade` its bundle is finished, past the upload it is uploaded)
  gives `HubCompletionBacked`. `RunningIsRun`, `OneExecutor` and `JobsAreCounted`
  are inductive beside the types once it is known that the environment's budget
  only falls (`BudgetStep`) and that a revoked token stays revoked (`TokenStep`): a
  step that ends in a calm world started in one. `RunningSafe` names the one way to
  leave a run behind in a calm world, the torn `progress.json`. `ForwardSafe`: no
  step of a worker leads back on the line of `StepsLeft` except to another claim,
  and that only with a token that stands or after a claim that met a network fault.
* **RunBundleProofs.** `TypeInv`; `LockInv` relates the attempt's position to
  what `progress.json` durably says; `WholeInv` which files are whole at which
  position; `HonestInv`, with `~Restores`, that what was measured is the locked
  build. From these also the refinement `ContractImplemented`, step by step.
  `ShrinkSafe` and `LeftSafe`: every step of an attempt lowers a natural number
  that is zero exactly when no attempt is under way, an exception and a kill
  included, and the user's steps do not raise it; that every step ends is not said.
  The premise `~Restores` is needed: with `Restores = TRUE` a build that is swapped
  for the duration of one measurement breaks the property.
* **CaseCheckpointProofs.** `TypeInv`, `ProtocolInv` (header, lines and loaded
  records have one protocol), `ScoreInv` (the order and completeness of
  predictions), `KeepInv` (a case that was appended and not dropped with a
  removed checkpoint is readable, and an attempt has loaded it or passed it), the
  last with `~OpenTails`; `CaseCheckpointTail` is the
  counterexample without.
* **CacheStoreProofs.** `LockInv` (which locks a process holds where, and that a
  writer excludes readers), `VictimInv` (only the exclusive lease has something
  to trim), `DataInv`/`RecordInv` (types; a file being recorded is there) give
  `ReaderSafe` and `TypeSafe`. On top: `IdInv` (identities in use are old, so no
  row speaks of a file yet to come), `ForeignInv` (recorded files were installed),
  `CopyInv` (how a copy differs from `managed.json`, which nobody replaces
  meanwhile), `KeptInv` and `LimitInv` (owned plus authorized fits the limit; what
  a trim will leave fits the new one), `CheckInv` (what was compared and is about to
  be deleted by name was the recorded file). Instead of redoing every action for each
  of them, what a step can do to the files, copies, rows and limit is proved
  once (`FileSteps`, `CopySteps`, `RowSteps`, `RecordSteps`, `LimitSteps`) and the
  later layers only use these shapes. `OrderSafe` (who holds a lock waits only for
  a later one) gives `StallSafe` (somebody who is busy can go on); `ForwardSafe` is
  the measure of an operation, its deletions included.
* **DesktopWorkProofs.** The centre is `GuardsExact`: the counter of `Lifecycle`
  is the number of guards alive and its flags say which of them are exclusive or
  maintenance. It needs `PlaceInv` (what a command owns where it stands),
  `DropInv`, `LeaseInv` and `WaitInv` (what a dropped guard and a waiting command
  still hold), `SlotInv` (the child slots name running processes) and `OrphanInv`
  (a running process has its guard). Every step is one of four moves of guards —
  kept, gained, handed over, dropped (lemma `Moves`) — and count, flags and
  solitude are proved for the moves, not for the actions. From it follow
  `NoOrphan`, `StopIsAdmitted`, `CleanupSeesNoWork`, `ExitIsFinal`,
  `StoppedMeansIdle` and `Alone`, and the refinement `GateImplemented`: the four
  moves are the four steps of `WorkGate`. A second invariant, `FittingInv`, says
  what the guards are *for*: every owner has the guard and the BUSY flag of its
  kind (`HoldInv`, `KeepInv`), a waited-for process has the kind of its command
  (`KindInv`) and a flag has one owner (`BusyInv`). Its steps are again proved for
  the thirteen things a step can do to commands, owners and slots (`Turn`, lemma
  `TurnStep`), not for the thirty actions. It gives `ApartSafe` and `SlotsSafe`: which
  processes never run side by side, and that a stop reaches what runs. `WayInv`
  (where each kind of command can be, and that a waited-for process is there)
  gives `StallSafe`; `ForwardSafe` is a measure of a command's way, proved for the
  turns; `ClosedSafe` needs that a closed window is fenced.
* **DevicePairingProofs.** `LockInv`: one writer, or readers. `GenInv`: a task of
  the current generation is the live attempt, since every begin, cancel and reset
  moves the generation and `live` together. With both, `PlaceInv`: who stands at a
  store is live, has stored the token before the profile, and an observed check
  sees the stores it read. This gives `LateAnswerChangesNothing` and
  `ObservedSeesOnePairing`; `AgreeInv` (token and profile agree, or somebody
  holds the lock half way, or there was a cut or a second fault) gives
  `RestAgrees`. `PageSafe`: with no invocation under way the page offers to
  connect; `StallSafe`: the invocations never all wait for each other. `ForwardSafe`
  is their measure: only an answer without a decision goes back, to ask again, and
  only while the code has not expired (`SpentInv`: a connection whose approval was
  taken has no session, so it never asks after that).
* **ManagedRuntimeProofs.** `Follows` orders catalogs: no version goes back, no
  content changes under its version. `ForwardInv`: until a race, the active
  generation follows whatever an operation read of it, so that digests taken from
  a later generation than the versions still compare the right contents
  (`DigestsFollow`), and a generation that does not follow is not activated; a load
  that finds its bundle not older than the pointer has the pointer's files
  (`FollowsSame`). For the store, `ReliesInv` says what an operation relies on
  where it stands (its build is there, its fallback archived and there), which
  others cannot take away because builds and archived selections only grow.
* **EngineRunProofs.** `LiveInv`: an engine lives only in the hands of the session
  or of the call that waits for it; with `PlaceInv`, `SessionInv`, `MonitorInv` and
  `FilesInv` this gives `MeasuredAlone` and `NothingLeft`, of which `FilesInv` says what a stuck stop, a failed write or an
  interrupt may leave on disk. `ContextInv` (the
  session's context is at least the bucket of the case being asked) gives
  `CaseFitsContext`. `LoadsInv` bounds the loads so far by what the position still
  allows (`Allowance`) and gives `RestartsBounded`: three loads, and three more per
  mishap, since after a mishap the suite may climb the buckets again.
  `DistanceSafe` and `ShrinkSafe`: the run is a natural number of steps from its
  end, zero exactly there, and every step lowers it or leaves the run where it is,
  for any number `Asks` of completions a case may ask for.

Some of these state more than a run checks: a property of a run needs TLC on every
instance, and what is proved from the module's invariant for every instance does
not. They are `KeptApart`, `SlotsTell`, `NobodyStalls`, `CommandsShrink` and
`ClosedIsFree` of `DesktopWork`, `WorkerShrinks` of `WorkerJob`, and the measures and
lock orders of `CacheStore`, `RunBundle`, `EngineRun` and `DevicePairing` (`InvocationsShrink`). Each was
checked by TLC on the instances of the runs before it was proved.

Only model-checked: every liveness property (`PauseIsConfirmed`, `NoRunStranded`,
`RevokedWorkerEnds`, `OperationsEnd`, `CommandsReturn`, `ClosedQuits`,
 `ButtonsComeBack`, `RunEnds`), since fairness and `ENABLED` are
beyond the prover, and the three counterexamples. What these properties rest on
besides fairness is proved: that a step leads nearer the end, never back, and that
somebody who is not there yet has a step to make. The table says where.

| liveness, checked by TLC | its safety part, proved |
|---|---|
| `NoRunStranded`, `RevokedWorkerEnds` | `RunningSafe`, `ForwardSafe` of `WorkerJobProofs` |
| `PauseIsConfirmed` | `AdmissionSafe` of `WorkerJobProofs`: who holds the lock is claiming |
| none claimed for `RunBundle` | `ShrinkSafe`, `LeftSafe` of `RunBundleProofs`: an attempt has a bounded number of steps |
| `OperationsEnd` | `OrderSafe`, `StallSafe`, `ForwardSafe` of `CacheStoreProofs` |
| `CommandsReturn` | `StallSafe`, `ForwardSafe` of `DesktopWorkProofs` |
| `ClosedQuits` | `ClosedSafe` of `DesktopWorkProofs` |
| `ButtonsComeBack` | `PageSafe`, `StallSafe`, `ForwardSafe` of `DevicePairingProofs` |
| `RunEnds` | `DistanceSafe`, `ShrinkSafe` of `EngineRunProofs` |

No module declares a
`RECURSIVE` operator and nothing is proved by induction over data: what is summed
or counted is bounded by assumptions on the sum (`Weight`) or by cardinalities.

## 5. What is left

Done, in this order because a wrong benchmark result or a lost one is the worst
the Runner can do: `WorkerJob`, `RunBundle` with `BundleContract`,
`CaseCheckpoint`, `CacheStore`, `DesktopWork`, `DevicePairing`, `RuntimeCatalog`
with `RuntimeStore` and `ManagedRuntime`, `EngineRun`, and a module of proofs for
each of them. Every safety property a run checks is a theorem, and what each
liveness property rests on besides fairness is one.

Left to prove: that the operations of `ManagedRuntime` and the attempts of
`CaseCheckpoint` shrink in the same sense (no run claims that they end), and an
abstract specification of the worker's Hub protocol that `WorkerJob` implements.

### Not modelled

* *Two processes in one run directory.* `run_infergrade` takes no lock on it and
  both would rewrite `progress.json`; nothing in the code orders them, so that
  there is no property to check beyond the callers' duty not to do it.
* *Finish notifications, startup, machine activity, settings, discovery.* One
  marker file, one request or one file per call and no state between calls.
* *Engine benchmark runner and Hub client* (`benchmark.rs`, `hub_client.rs`):
  requests and reports in sequence; `WorkerJob` models the same protocol from the
  Python worker's side.
* *Observed runtime and quick suite*: bounded reads of a server the Runner does
  not own; its pairing is in `DevicePairing`.
* *Scoring, calibration, summaries, benchmark catalog, readiness, reports, doctor,
  command line*: pure functions, tables and text. Their results are data to the
  models: a step that succeeds, fails or is killed.
* *Transport of uploads and agent work* beyond the worker's calls: retries within
  one HTTP call.
* *Front end, sidecar, containers, schemas, scripts*: user interface other than
  the pairing controller, thin dispatchers, build inputs.
