------------------------------ MODULE EngineRun ------------------------------
(* One benchmark run as the llama.cpp adapter drives it                     *)
(* (adapters/llama_cpp.py): the preflight load, the capability suite with    *)
(* its reusable server, the perplexity tool and the deployment profiles.     *)
(* The engines are processes or containers that load slowly, die, refuse to  *)
(* stop and answer badly; the user may interrupt the run. RunBundle takes    *)
(* each of these stages as one step that succeeds, fails or is killed.       *)
EXTENDS Naturals, Sequences

CONSTANTS
    None,
    Engines,        \* process and container handles, reused once free
    CaseLists,      \* the context sizes (in Ki tokens) a suite's cases ask for
    Profiles,       \* deployment profiles of the run
    Warmup,         \* deployment_warmup_runs
    Measured,       \* deployment_measured_runs
    Asks,           \* the most completions one case asks for
    Bound           \* how often the environment interferes

\* The temporary file that the perplexity tool reads; logs are named after
\* their engine.
Corpus == "corpus"

BoundKind == {"death", "trouble", "stuck", "interrupt"}

ASSUME EngineAssumption ==
    /\ None \notin Engines /\ Corpus \notin Engines
    /\ CaseLists \subseteq Seq(Nat)
    /\ Profiles \in Nat /\ Warmup \in Nat /\ Measured \in Nat \ {0}
    /\ Asks \in Nat \ {0}
    /\ Bound \in [BoundKind -> Nat]

VARIABLES
    mode,       \* execution_mode: "native" or "container"
    engine,     \* every engine: its state and its context size
    files,      \* temporary files: the log of an engine, and the corpus
    session,    \* _capability_server_session: an engine or None
    at,         \* where the run stands
    cases,      \* context sizes of the cases still to be generated
    count,      \* iterations, measurements and profiles done
    monitors,   \* sampling threads nobody has told to stop
    outcome,    \* how the run ended
    suite,      \* history: server loads of the suite, and mishaps behind them
    left        \* what is left of Bound

vars == <<mode, engine, files, session, at, cases, count, monitors, outcome, suite, left>>

EngineState == {"none", "loading", "ready", "ending", "dead", "lost"}
Stage == {"preflight", "suite", "fidelity", "deploy"}
Step == {"call", "launch", "wait", "ask", "tool", "reap", "stopped"}

Interrupted == {"abort", "interrupt"}

\* Ready waits, requests and stops happen in a call for one engine (cur); why
\* says what the stop that follows is for, asked how many completions the case
\* has had.
Position == [stage : Stage, step : Step, cur : Engines \cup {None},
             why : {"done", "grow", "error", "abort", "interrupt"},
             asked : 0 .. Asks - 1]

TypeOK ==
    /\ mode \in {"native", "container"}
    /\ engine \in [Engines -> [state : EngineState, ctx : Nat]]
    /\ files \subseteq Engines \cup {Corpus}
    /\ session \in Engines \cup {None}
    /\ at \in Position
    /\ cases \in Seq(Nat)
    /\ count \in [iteration : Nat, measured : Nat, profile : Nat]
    /\ monitors \subseteq {"gpu", "memory"}
    /\ outcome \in {"running", "returned", "raised", "interrupted"}
    /\ suite \in [loads : Nat, mishaps : Nat]
    /\ left \in [BoundKind -> Nat]

Init ==
    /\ mode \in {"native", "container"}
    /\ engine = [e \in Engines |-> [state |-> "none", ctx |-> 0]]
    /\ files = {} /\ session = None /\ monitors = {}
    /\ at = [stage |-> "preflight", step |-> "call", cur |-> None, why |-> "done", asked |-> 0]
    /\ cases \in CaseLists
    /\ count = [iteration |-> 0, measured |-> 0, profile |-> 0]
    /\ outcome = "running"
    /\ suite = [loads |-> 0, mishaps |-> 0]
    /\ left = Bound

(***************************************************************************)
(* Helpers.                                                                *)
(***************************************************************************)

At(stage, step) == outcome = "running" /\ at.stage = stage /\ at.step = step
Goes(step) == outcome = "running" /\ at.step = step
Live(e) == engine[e].state \in {"loading", "ready", "ending"}
Free(e) == engine[e].state = "none" /\ e \notin files
Spend(kind) == left[kind] > 0 /\ left' = [left EXCEPT ![kind] = @ - 1]
Enter(stage) == at' = [stage |-> stage, step |-> "call", cur |-> None, why |-> "done", asked |-> 0]
End(how) == outcome' = how /\ at' = [at EXCEPT !.step = "call", !.cur = None]

\* _stop_process and docker stop begin: a live engine is told to end.
Terminate(e, why) ==
    /\ engine' = IF e # None /\ engine[e].state \in {"loading", "ready"}
                 THEN [engine EXCEPT ![e].state = "ending"] ELSE engine
    /\ at' = [at EXCEPT !.step = "reap", !.cur = e, !.why = why]

\* The context a suite server is started with: three buckets.
Bucket(n) == IF n <= 4 THEN 4 ELSE IF n <= 8 THEN 8 ELSE 16

\* _capability_context_size for the next case, and the fixed sizes of the
\* other servers.
ContextSize ==
    CASE at.stage = "suite" -> Bucket(Head(cases))
      [] at.stage = "preflight" -> 1
      [] OTHER -> 2

\* Mutant of CaseFitsContext: any live server is kept.
ReusableIfAlive == session # None /\ engine[session].state = "ready"

\* _ensure_capability_server_session keeps a live server that is large enough.
Reusable ==
    /\ session # None
    /\ engine[session].state = "ready"
    /\ engine[session].ctx >= Bucket(Head(cases))

(***************************************************************************)
(* One engine, from its start to its end.                                  *)
(***************************************************************************)

\* preflight_model starts a server in native runs only.
Preflight ==
    /\ At("preflight", "call")
    /\ IF mode = "native" THEN at' = [at EXCEPT !.step = "launch"] ELSE Enter("suite")
    /\ UNCHANGED <<mode, engine, files, session, cases, count, monitors, outcome, suite, left>>

\* A sampling thread: of the GPU's total memory, or of the engine's own.
StartMonitor(m) == monitors' = monitors \cup {m}

\* Popen with a new log file, or docker run -d.
Launch(e) ==
    /\ Goes("launch") /\ Free(e)
    /\ engine' = [engine EXCEPT ![e] = [state |-> "loading", ctx |-> ContextSize]]
    /\ files' = IF mode = "native" THEN files \cup {e} ELSE files
    /\ at' = [at EXCEPT !.step = "wait", !.cur = e]
    /\ IF at.stage = "deploy" THEN StartMonitor("memory") ELSE UNCHANGED monitors
    /\ suite' = IF at.stage = "suite" THEN [suite EXCEPT !.loads = @ + 1] ELSE suite
    /\ UNCHANGED <<mode, session, cases, count, outcome, left>>

\* The sampling threads of an iteration are told to stop.
StopMonitors == monitors' = {}

\* History: a load of the suite's server failed, or the server died or could
\* not be stopped.
Mishap(happens) ==
    suite' = IF at.stage = "suite" /\ happens THEN [suite EXCEPT !.mishaps = @ + 1] ELSE suite

\* A failing iteration is recorded and its monitors are stopped; every other
\* failure is an exception on its way out.
Fails ==
    /\ Terminate(at.cur, "error")
    /\ IF at.stage = "deploy" THEN StopMonitors ELSE UNCHANGED monitors

\* Popen raises, or docker run answers with an error.
LaunchFails ==
    /\ Goes("launch") /\ Spend("trouble")
    /\ Fails
    /\ Mishap(TRUE)
    /\ UNCHANGED <<mode, files, session, cases, count, outcome>>

\* The health endpoint answers. A preflight is done with it; the suite keeps
\* the server as its session.
BecomesReady ==
    /\ Goes("wait") /\ engine[at.cur].state = "ready"
    /\ IF at.stage = "preflight"
       THEN Terminate(at.cur, "done") /\ UNCHANGED session
       ELSE /\ at' = [at EXCEPT !.step = "ask"]
            /\ session' = IF at.stage = "suite" THEN at.cur ELSE session
            /\ UNCHANGED engine
    /\ UNCHANGED <<mode, files, cases, count, monitors, outcome, suite, left>>

\* Mutant of RunEnds: a server is awaited without a deadline.
WaitFailsOnExit ==
    /\ Goes("wait") /\ engine[at.cur].state = "dead"
    /\ Fails
    /\ UNCHANGED <<mode, files, session, cases, count, outcome, suite, left>>

\* The server exits while it is awaited, or the deadline passes.
WaitFails ==
    /\ Goes("wait") /\ engine[at.cur].state \in {"loading", "dead"}
    /\ Fails
    /\ Mishap(engine[at.cur].state = "loading")
    /\ UNCHANGED <<mode, files, session, cases, count, outcome, left>>

\* The ready server did not offload to the requested GPU
\* (_require_native_cuda_offload).
OffloadUnproved ==
    /\ Goes("wait") /\ mode = "native" /\ engine[at.cur].state = "ready"
    /\ Spend("trouble")
    /\ Fails
    /\ Mishap(TRUE)
    /\ UNCHANGED <<mode, files, session, cases, count, outcome>>

\* The process is reaped and its log unlinked; a container was started with
\* --rm.
Reaped ==
    /\ Goes("reap")
    /\ at.cur # None => ~Live(at.cur)
    /\ engine' = IF at.cur # None /\ engine[at.cur].state = "dead"
                 THEN [engine EXCEPT ![at.cur].state = "none"] ELSE engine
    /\ files' = files \ {at.cur}
    /\ at' = [at EXCEPT !.step = "stopped"]
    /\ UNCHANGED <<mode, session, cases, count, monitors, outcome, suite, left>>

Ignored == at' = [at EXCEPT !.step = "stopped"] /\ UNCHANGED outcome
CaseRaises == at' = [at EXCEPT !.step = "stopped", !.why = "error"] /\ UNCHANGED outcome

\* terminate and kill both time out and TimeoutExpired leaves the stop, past
\* the unlink: in generate_text it fails the case, whatever the stop was for,
\* and elsewhere the run. A failing docker stop is not looked at.
StopGivesUp ==
    /\ Goes("reap") /\ at.cur # None
    /\ engine[at.cur].state = "ending"
    /\ Spend("stuck")
    /\ engine' = [engine EXCEPT ![at.cur].state = "lost"]
    /\ IF mode = "container" THEN Ignored
       ELSE IF at.stage = "suite" /\ at.why \in {"grow", "error", "abort"} THEN CaseRaises
       ELSE End("raised")
    /\ Mishap(TRUE)
    /\ UNCHANGED <<mode, files, session, cases, count, monitors>>

(***************************************************************************)
(* The stages.                                                             *)
(***************************************************************************)

\* A failed preflight ends the run before any case is generated.
EndPreflight ==
    /\ At("preflight", "stopped") /\ at.why \notin Interrupted
    /\ IF at.why = "done" THEN Enter("suite") /\ UNCHANGED outcome ELSE End("raised")
    /\ UNCHANGED <<mode, engine, files, session, cases, count, monitors, suite, left>>

\* generate_text in a native run: reuse the server, replace it, or start one.
\* The session is forgotten before its process is stopped.
GenerateNative ==
    /\ At("suite", "call") /\ mode = "native" /\ cases # <<>>
    /\ \/ /\ Reusable
          /\ at' = [at EXCEPT !.step = "ask", !.cur = session]
          /\ UNCHANGED <<engine, session>>
       \/ /\ ~Reusable /\ session # None
          /\ Terminate(session, "grow")
          /\ session' = None
       \/ /\ ~Reusable /\ session = None
          /\ at' = [at EXCEPT !.step = "launch", !.cur = None]
          /\ UNCHANGED <<engine, session>>
    /\ UNCHANGED <<mode, files, cases, count, monitors, outcome, suite, left>>

\* The smaller server is gone; the larger one is started.
Grow ==
    /\ At("suite", "stopped") /\ at.why = "grow"
    /\ at' = [at EXCEPT !.step = "launch", !.cur = None]
    /\ UNCHANGED <<mode, engine, files, session, cases, count, monitors, outcome, suite, left>>

\* A completion is streamed to its end, or fails: the server is gone, answers
\* with an error, ends the stream early or leaves no visible text.
Completes == engine[at.cur].state = "ready"
CompletionFails ==
    \/ engine[at.cur].state = "dead" /\ UNCHANGED left
    \/ engine[at.cur].state = "ready" /\ Spend("trouble")

\* The case is recorded, as completed or failed, and the loop goes on.
NextCase == cases' = Tail(cases) /\ Enter("suite")

\* A canary that needs recovery asks once more for the same case, a tool loop
\* once for each of its steps, with a prompt that grows.
AskAgain ==
    /\ at.asked + 1 < Asks
    /\ at' = [at EXCEPT !.step = "call", !.cur = None, !.asked = @ + 1]
    /\ \E n \in {Head(cases), 8, 16} :
          n >= Head(cases) /\ cases' = [cases EXCEPT ![1] = n]

\* The case has its answer, or one of its answers.
Answered ==
    /\ At("suite", "ask") /\ Completes
    /\ NextCase \/ AskAgain
    /\ UNCHANGED <<mode, engine, files, session, count, monitors, outcome, suite, left>>

\* Mutant of RestartsBounded: any failure discards the server.
AskFailsAndStops ==
    /\ At("suite", "ask")
    /\ CompletionFails
    /\ session' = None
    /\ Terminate(at.cur, "error")
    /\ UNCHANGED <<mode, files, cases, count, monitors, outcome, suite>>

\* A request fails or its output is unusable: only a server that actually
\* exited is discarded with the case.
AskFails ==
    /\ At("suite", "ask") /\ CompletionFails
    /\ IF engine[at.cur].state = "dead"
       THEN session' = None /\ Terminate(at.cur, "error") /\ UNCHANGED cases
       ELSE NextCase /\ UNCHANGED <<engine, session>>
    /\ UNCHANGED <<mode, files, count, monitors, outcome, suite>>

\* The exception of a failed start or a discarded server reaches the loop.
CaseFails ==
    /\ At("suite", "stopped") /\ at.why = "error"
    /\ NextCase
    /\ UNCHANGED <<mode, engine, files, session, count, monitors, outcome, suite, left>>

\* execute_capability_suite raises; run_capability answers with a failed
\* execution after its finally clause.
SuiteRaises ==
    /\ At("suite", "call") /\ cases # <<>> /\ Spend("trouble")
    /\ cases' = <<>>
    /\ UNCHANGED <<mode, engine, files, session, at, count, monitors, outcome, suite>>

\* Mutant of MeasuredAlone: the finally clause only forgets the session.
LeaveSuiteServing ==
    /\ At("suite", "call") /\ cases = <<>>
    /\ session' = None
    /\ Enter("fidelity")
    /\ UNCHANGED <<mode, engine, files, cases, count, monitors, outcome, suite, left>>

\* The finally clause of run_capability.
LeaveSuite ==
    /\ At("suite", "call") /\ cases = <<>>
    /\ session' = None
    /\ Terminate(session, "done")
    /\ UNCHANGED <<mode, files, cases, count, monitors, outcome, suite, left>>

EndSuite ==
    /\ At("suite", "stopped") /\ at.why = "done"
    /\ Enter("fidelity")
    /\ UNCHANGED <<mode, engine, files, session, cases, count, monitors, outcome, suite, left>>

\* One-shot tools: llama-completion in a container of its own for every case,
\* and llama-perplexity.
StartTool(e) ==
    /\ Free(e)
    /\ engine' = [engine EXCEPT ![e] = [state |-> "ready", ctx |-> 0]]
    /\ at' = [at EXCEPT !.step = "tool", !.cur = e]
    /\ UNCHANGED <<mode, session, cases, count, monitors, outcome, suite, left>>

EndTool ==
    /\ engine' = [engine EXCEPT ![at.cur].state = "none"]
    /\ files' = files \ {Corpus}
    /\ UNCHANGED <<mode, session, count, monitors, outcome, suite, left>>

StartCompletion(e) ==
    /\ At("suite", "call") /\ mode = "container" /\ cases # <<>>
    /\ StartTool(e)
    /\ UNCHANGED files

\* Completed or failed, the case is recorded, unless it asks again.
EndCompletion == At("suite", "tool") /\ EndTool /\ (NextCase \/ AskAgain)

StartPerplexity(e) ==
    /\ At("fidelity", "call")
    /\ StartTool(e)
    /\ files' = files \cup {Corpus}

\* The corpus cannot be created, or not be written: that is before the try
\* whose finally clause unlinks it. run_fidelity records the failure.
CorpusFails ==
    /\ At("fidelity", "call") /\ Spend("trouble")
    /\ files' \in {files, files \cup {Corpus}}
    /\ Enter("deploy")
    /\ UNCHANGED <<mode, engine, session, cases, count, monitors, outcome, suite>>

\* A failed measurement is a result of its own, never an exception.
EndPerplexity == At("fidelity", "tool") /\ EndTool /\ Enter("deploy") /\ UNCHANGED cases

\* The GPU monitor takes its baseline before the server is started.
BeginIteration ==
    /\ At("deploy", "call")
    /\ count.profile < Profiles /\ count.iteration < Warmup + Measured
    /\ StartMonitor("gpu")
    /\ at' = [at EXCEPT !.step = "launch"]
    /\ UNCHANGED <<mode, engine, files, session, cases, count, outcome, suite, left>>

\* The measurement is taken, both monitors are stopped, then the server.
IterationMeasured ==
    /\ At("deploy", "ask") /\ Completes
    /\ count' = IF count.iteration >= Warmup THEN [count EXCEPT !.measured = @ + 1] ELSE count
    /\ StopMonitors
    /\ Terminate(at.cur, "done")
    /\ UNCHANGED <<mode, files, session, cases, outcome, suite, left>>

IterationFails ==
    /\ At("deploy", "ask")
    /\ CompletionFails
    /\ Fails
    /\ UNCHANGED <<mode, files, session, cases, count, outcome, suite>>

EndIteration ==
    /\ At("deploy", "stopped") /\ at.why \notin Interrupted
    /\ count' = [count EXCEPT !.iteration = @ + 1]
    /\ Enter("deploy")
    /\ UNCHANGED <<mode, engine, files, session, cases, monitors, outcome, suite, left>>

\* A profile without a measurement raises; with some it is recorded.
EndProfile ==
    /\ At("deploy", "call")
    /\ count.profile < Profiles /\ count.iteration = Warmup + Measured
    /\ IF count.measured = 0
       THEN End("raised") /\ UNCHANGED count
       ELSE /\ count' = [iteration |-> 0, measured |-> 0, profile |-> count.profile + 1]
            /\ UNCHANGED <<at, outcome>>
    /\ UNCHANGED <<mode, engine, files, session, cases, monitors, suite, left>>

Return ==
    /\ At("deploy", "call") /\ count.profile = Profiles
    /\ End("returned")
    /\ UNCHANGED <<mode, engine, files, session, cases, count, monitors, suite, left>>

(***************************************************************************)
(* KeyboardInterrupt: no except Exception clause catches it, the finally   *)
(* and except BaseException clauses run.                                   *)
(***************************************************************************)

\* Mutant of NothingLeft: _ensure_capability_server_session cleans up after an
\* Exception only.
InterruptAwaited ==
    /\ \/ at.step \in {"launch", "wait", "ask"}
       \/ session # None /\ at.step = "call"
    /\ IF at.stage = "suite" /\ session = None
       THEN End("interrupted") /\ UNCHANGED engine
       ELSE /\ Terminate(IF session # None THEN session ELSE at.cur, "interrupt")
            /\ UNCHANGED outcome
    /\ session' = None
    /\ UNCHANGED <<files, monitors, suite>>

\* In a call for an engine, or with a session: the engine is stopped first.
InterruptCall ==
    /\ \/ at.step \in {"launch", "wait", "ask"}
       \/ session # None /\ at.step = "call"
    /\ Terminate(IF session # None THEN session ELSE at.cur,
                 IF at.stage = "suite" /\ session = None THEN "abort" ELSE "interrupt")
    /\ session' = None
    /\ monitors' = IF mode = "container" THEN monitors \ {"memory"} ELSE monitors
    /\ Mishap(at.step = "wait")
    /\ UNCHANGED <<files, outcome>>

\* docker run is interrupted after the container started; it is stopped by
\* its name.
InterruptDocker(e) ==
    /\ mode = "container" /\ at.stage = "deploy" /\ at.step = "launch" /\ Free(e)
    /\ engine' = [engine EXCEPT ![e] = [state |-> "ending", ctx |-> ContextSize]]
    /\ at' = [at EXCEPT !.step = "reap", !.cur = e, !.why = "interrupt"]
    /\ UNCHANGED <<files, session, monitors, outcome, suite>>

\* subprocess.run kills the tool; the container of a killed client runs on.
InterruptTool ==
    /\ at.step = "tool"
    /\ engine' = [engine EXCEPT ![at.cur].state = IF mode = "container" THEN "lost" ELSE "none"]
    /\ files' = files \ {Corpus}
    /\ End("interrupted")
    /\ UNCHANGED <<session, monitors, suite>>

\* While the end of an engine is awaited: the log is left behind.
InterruptStop ==
    /\ at.step = "reap"
    /\ End("interrupted")
    /\ UNCHANGED <<engine, files, session, monitors, suite>>

\* Outside of every try: also while the corpus is written.
InterruptBetween ==
    /\ at.step \in {"call", "stopped"} /\ session = None
    /\ End("interrupted")
    /\ files' \in IF at.stage = "fidelity" THEN {files, files \cup {Corpus}} ELSE {files}
    /\ UNCHANGED <<engine, session, monitors, suite>>

Interrupt ==
    /\ outcome = "running" /\ at.why \notin Interrupted /\ Spend("interrupt")
    /\ \/ InterruptCall
       \/ \E e \in Engines : InterruptDocker(e)
       \/ InterruptTool
       \/ InterruptStop
       \/ InterruptBetween
    /\ UNCHANGED <<mode, cases, count>>

\* The interrupt leaves the run.
EndInterrupt ==
    /\ Goes("stopped") /\ at.why \in Interrupted
    /\ End("interrupted")
    /\ UNCHANGED <<mode, engine, files, session, cases, count, monitors, suite, left>>

(***************************************************************************)
(* The engines.                                                            *)
(***************************************************************************)

EngineLoads(e) ==
    /\ engine[e].state = "loading"
    /\ engine' = [engine EXCEPT ![e].state = "ready"]
    /\ UNCHANGED <<mode, files, session, at, cases, count, monitors, outcome, suite, left>>

\* It crashes or runs out of memory.
EngineDies(e) ==
    /\ engine[e].state \in {"loading", "ready"} /\ at.step # "tool"
    /\ Spend("death")
    /\ engine' = [engine EXCEPT ![e].state = "dead"]
    /\ Mishap(TRUE)
    /\ UNCHANGED <<mode, files, session, at, cases, count, monitors, outcome>>

\* It obeys the signal, or is killed after five seconds.
EngineEnds(e) ==
    /\ engine[e].state = "ending"
    /\ engine' = [engine EXCEPT ![e].state = "dead"]
    /\ UNCHANGED <<mode, files, session, at, cases, count, monitors, outcome, suite, left>>

Adapter ==
    \/ Preflight \/ EndPreflight
    \/ GenerateNative \/ Grow \/ Answered \/ CaseFails \/ LeaveSuite \/ EndSuite
    \/ EndCompletion \/ EndPerplexity \/ BeginIteration \/ IterationMeasured \/ EndIteration \/ EndProfile \/ Return
    \/ BecomesReady \/ WaitFails \/ AskFails \/ IterationFails
    \/ Reaped \/ EndInterrupt
    \/ \E e \in Engines : Launch(e) \/ StartCompletion(e) \/ StartPerplexity(e)

Environment ==
    \/ LaunchFails \/ OffloadUnproved \/ StopGivesUp \/ SuiteRaises \/ CorpusFails
    \/ Interrupt
    \/ \E e \in Engines : EngineLoads(e) \/ EngineDies(e) \/ EngineEnds(e)

Next == Adapter \/ Environment

Spec == Init /\ [][Next]_vars

\* Where the adapter waits without a deadline: every docker command (lines 716,
\* 1270, 1971, 2045, 2054, 2241), the perplexity tool (1694), a stream, whose
\* reads are timed one by one (2287, 2378), nvidia-smi before an iteration
\* (container_runtime.py:63), and the scorers once the cases are generated
\* (capabilities.py:3932).
Untimed ==
    \/ mode = "container"
    \/ at.step \in {"tool", "ask"}
    \/ at.step = "call" /\ at.stage = "deploy"
    \/ at.step = "call" /\ at.stage = "suite" /\ cases = <<>>

\* The adapter is one thread that goes on as long as its waits have a deadline.
\* A process that is told to end does, killed after five seconds, or
\* StopGivesUp happens.
FairSpec ==
    /\ Spec
    /\ WF_vars(~Untimed /\ Adapter)
    /\ \A e \in Engines : WF_vars(mode = "native" /\ EngineEnds(e))

(***************************************************************************)
(* Properties.                                                             *)
(***************************************************************************)

\* What is measured is measured alone: the adapter never has two engines of
\* its own in memory, and the baseline of the GPU monitor (line 1928) is taken
\* with none. An engine whose stop failed is lost and not counted.
MeasuredAlone ==
    /\ \A e, f \in Engines : Live(e) /\ Live(f) => e = f
    /\ "gpu" \in monitors /\ at.step = "launch" /\ outcome = "running"
           => \A e \in Engines : ~Live(e)

\* However a run ends, no engine of it serves on: it is gone, or on its way,
\* or its stop failed. The log of an engine stays only behind a failed or
\* interrupted stop, the corpus only behind a failed write or an interrupt,
\* sampling threads only behind an interrupt.
NothingLeft ==
    outcome # "running" =>
        /\ session = None
        /\ \A e \in Engines : engine[e].state \notin {"loading", "ready"}
        /\ files \ {Corpus} # {} => left.stuck < Bound.stuck \/ left.interrupt < Bound.interrupt
        /\ Corpus \in files => left.trouble < Bound.trouble \/ left.interrupt < Bound.interrupt
        /\ monitors # {} => left.interrupt < Bound.interrupt

\* A case is only sent to a server whose context holds what the case asks for,
\* though servers are kept, replaced, lost and started again between cases.
\* Cases pinned to more than 16K are the exception: Bucket (line 856) gives
\* them 16K.
CaseFitsContext ==
    At("suite", "ask") /\ Head(cases) <= 16 => engine[at.cur].ctx >= Head(cases)

\* "A suite can restart at most twice after its initial 4K server" (line 853):
\* three loads, and three more for every server that failed to load, died or
\* could not be stopped, whatever the order and number of the cases.
RestartsBounded == suite.loads <= 3 * (1 + suite.mishaps)

\* How far the run is from its end at most.  A call is launched, awaited,
\* asked, stopped and left; a server that is too small is stopped first.
CallLeft(step, why) ==
    CASE step = "call" -> 8
      [] step = "launch" -> 5
      [] step = "wait" -> 4
      [] step \in {"ask", "tool"} -> 3
      [] step = "reap" -> IF why = "grow" THEN 7 ELSE 2
      [] step = "stopped" -> IF why = "grow" THEN 6 ELSE 1
Iterations == Warmup + Measured
DeployLeft(profile, iteration) ==
    (Profiles - profile) * (8 * Iterations + 2) - 8 * iteration
\* The completions of the cases still to be generated and of one more, the one
\* that asked has begun to count.
Completions(todo) == Asks * (todo + 1)
StageLeft(stage, asked, todo) ==
    CASE stage = "deploy" -> 0
      [] stage = "fidelity" -> 8
      [] stage = "suite" -> 24 + 8 * (Completions(todo) - asked)
      [] stage = "preflight" -> 32 + 8 * Completions(todo)
RunLeft ==
    IF outcome # "running" THEN 0
    ELSE StageLeft(at.stage, at.asked, Len(cases)) + CallLeft(at.step, at.why)
             + DeployLeft(count.profile, count.iteration)

\* Every step of the adapter brings the run nearer its end, whichever way the
\* engine it is about behaves: a case is not asked for more often than its
\* loop has steps, a server not replaced for ever, an iteration not repeated.
\* What an engine does on its own gives the run nothing more to do.
RunShrinks ==
    [][outcome = "running" => RunLeft' < RunLeft \/ UNCHANGED <<at, cases, count, outcome>>]_vars

\* The distance is a number, and it is zero exactly when the run has ended.
RunLeftIsCount == RunLeft \in Nat /\ (RunLeft = 0 <=> outcome # "running")

\* What has no deadline ends: commands, tools, streams, and the containers that
\* docker stop waits for.
UntimedStepsEnd ==
    /\ WF_vars(Untimed /\ Adapter)
    /\ \A e \in Engines : WF_vars(mode = "container" /\ EngineEnds(e))

\* Every run ends, through servers that never get ready, die or hang, if every
\* wait without a deadline does.
RunEnds == UntimedStepsEnd => <>(outcome # "running")
=============================================================================
