-------------------------- MODULE EngineRunProofs --------------------------
(* Safety of EngineRun for any engines, suites, profiles and mishaps.       *)
EXTENDS EngineRun, TLAPS

\* Every action of the specification, for case splits.
Interrupts ==
    /\ outcome = "running" /\ at.why \notin Interrupted /\ Spend("interrupt")
    /\ UNCHANGED <<mode, cases, count>>

AnyStep ==
    \/ Preflight \/ EndPreflight \/ GenerateNative \/ Grow \/ Answered
    \/ CaseFails \/ LeaveSuite \/ EndSuite \/ EndCompletion
    \/ EndPerplexity \/ BeginIteration \/ IterationMeasured
    \/ EndIteration \/ EndProfile \/ Return \/ BecomesReady \/ WaitFails
    \/ AskFails \/ IterationFails \/ Reaped \/ EndInterrupt
    \/ LaunchFails \/ OffloadUnproved \/ StopGivesUp \/ SuiteRaises \/ CorpusFails
    \/ \E e \in Engines :
          \/ Launch(e) \/ StartCompletion(e) \/ StartPerplexity(e)
          \/ EngineLoads(e) \/ EngineDies(e) \/ EngineEnds(e)
    \/ Interrupts /\ (InterruptCall \/ InterruptTool \/ InterruptStop \/ InterruptBetween)
    \/ \E e \in Engines : Interrupts /\ InterruptDocker(e)

LEMMA NextIsStep == Next => AnyStep
  BY DEF Next, AnyStep, Adapter, Environment, Interrupt, Interrupts

-----------------------------------------------------------------------------
(* Types, with the places where a call has an engine, and where a suite has *)
(* a session and a case.                                                    *)

Failing == {"grow", "error", "abort"}

PlaceInv ==
    /\ at.step \in {"wait", "ask", "tool"} => at.cur # None
    /\ session # None =>
           /\ mode = "native" /\ at.stage = "suite" /\ outcome = "running"
           /\ at.step \in {"call", "ask"}
    /\ at.stage = "suite" /\ at.step = "ask" => session = at.cur
    /\ outcome # "running" => at.step = "call"
    /\ at.stage = "suite" /\ mode # "native" =>
           /\ at.step \notin {"launch", "wait"}
           /\ ~(at.step \in {"reap", "stopped"} /\ at.why = "grow")
    /\ at.stage = "suite" =>
           /\ at.step \in {"launch", "wait", "ask", "tool"} => cases # <<>>
           /\ at.step \in {"reap", "stopped"} /\ at.why \in Failing => cases # <<>>

\* The first step of a stage.
LEMMA Entering ==
  ASSUME NEW stage, Enter(stage)
  PROVE  /\ at'.stage = stage /\ at'.step = "call"
         /\ at'.cur = None /\ at'.why = "done"
  BY DEF Enter

\* Entering a stage keeps the type of the position.
LEMMA Entered ==
  ASSUME NEW stage \in Stage, Enter(stage)
  PROVE  at' \in Position
  BY EngineAssumption DEF Enter, Position, Stage, Step

\* Asking again keeps it, too.
LEMMA AskingAgain ==
  ASSUME at \in Position, AskAgain
  PROVE  /\ at' \in Position
         /\ at'.asked = at.asked + 1 /\ at'.stage = at.stage
         /\ at'.step = "call" /\ at'.cur = None /\ at'.why = at.why
<1>1. /\ at' = [at EXCEPT !.step = "call", !.cur = None, !.asked = @ + 1]
      /\ at.asked + 1 < Asks
  BY DEF AskAgain
<1>2. at.asked \in 0 .. Asks - 1 /\ Asks \in Nat
  BY EngineAssumption DEF Position
<1>3. at.asked + 1 \in 0 .. Asks - 1
  BY <1>1, <1>2
<1>. QED
  BY <1>1, <1>3 DEF Position, Step

-----------------------------------------------------------------------------
(* What a step may change.                                                  *)

LEMMA CountChange ==
  ASSUME [Next]_vars
  PROVE  UNCHANGED count \/ IterationMeasured \/ EndIteration \/ EndProfile
  BY NextIsStep
     DEF Preflight, EndPreflight, GenerateNative, Grow, Answered,
         CaseFails, LeaveSuite, EndSuite, EndCompletion,
         EndPerplexity, BeginIteration, Return, BecomesReady,
         WaitFails, AskFails, IterationFails, Reaped,
         EndInterrupt, Launch, StartCompletion, StartPerplexity,
         LaunchFails, OffloadUnproved, StopGivesUp, SuiteRaises, CorpusFails,
         InterruptCall, InterruptDocker, InterruptTool,
         InterruptStop, InterruptBetween, EngineLoads, EngineDies,
         EngineEnds, AnyStep, Interrupts, Spend, Mishap, NextCase,
         EndTool, StartTool, AskAgain, vars

LEMMA LeftChange ==
  ASSUME [Next]_vars
  PROVE  UNCHANGED left \/ \E kind \in BoundKind : Spend(kind)
  BY NextIsStep
     DEF Preflight, EndPreflight, GenerateNative, Grow, Answered,
         CaseFails, LeaveSuite, EndSuite, EndCompletion,
         EndPerplexity, BeginIteration, IterationMeasured,
         EndIteration, EndProfile, Return, BecomesReady,
         WaitFails, AskFails, IterationFails, Reaped,
         EndInterrupt, Launch, StartCompletion, StartPerplexity,
         LaunchFails, OffloadUnproved, StopGivesUp, SuiteRaises, CorpusFails,
         InterruptCall, InterruptDocker, InterruptTool,
         InterruptStop, InterruptBetween, EngineLoads, EngineDies,
         EngineEnds, AnyStep, Interrupts, Mishap, NextCase,
         EndTool, StartTool, AskAgain, vars, BoundKind, CompletionFails

LEMMA CasesChange ==
  ASSUME [Next]_vars
  PROVE  \/ UNCHANGED cases
         \/ (NextCase \/ AskAgain) /\ at.step \in {"ask", "tool"} /\ at.stage = "suite"
         \/ CaseFails
         \/ SuiteRaises
  BY NextIsStep
     DEF Preflight, EndPreflight, GenerateNative, Grow, Answered,
         LeaveSuite, EndSuite, EndCompletion, EndPerplexity,
         BeginIteration, IterationMeasured, EndIteration,
         EndProfile, Return, BecomesReady, WaitFails, AskFails,
         IterationFails, Reaped, EndInterrupt, Launch,
         StartCompletion, StartPerplexity, LaunchFails,
         OffloadUnproved, StopGivesUp, CorpusFails, InterruptCall,
         InterruptDocker, InterruptTool, InterruptStop,
         InterruptBetween, EngineLoads, EngineDies, EngineEnds,
         AnyStep, Interrupts, Spend, Mishap, EndTool, StartTool, AskAgain,
         vars, At

LEMMA SuiteChange ==
  ASSUME [Next]_vars
  PROVE  \/ UNCHANGED suite
         \/ \E happens \in BOOLEAN : Mishap(happens)
         \/ suite' = [suite EXCEPT !.loads = @ + 1]
  BY NextIsStep
     DEF Preflight, EndPreflight, GenerateNative, Grow, Answered,
         CaseFails, LeaveSuite, EndSuite, EndCompletion,
         EndPerplexity, BeginIteration, IterationMeasured,
         EndIteration, EndProfile, Return, BecomesReady,
         WaitFails, AskFails, IterationFails, Reaped,
         EndInterrupt, Launch, StartCompletion, StartPerplexity,
         LaunchFails, OffloadUnproved, StopGivesUp, SuiteRaises, CorpusFails,
         InterruptCall, InterruptDocker, InterruptTool,
         InterruptStop, InterruptBetween, EngineLoads, EngineDies,
         EngineEnds, AnyStep, Interrupts, Spend, NextCase,
         EndTool, StartTool, AskAgain, vars

-----------------------------------------------------------------------------
(* Types.                                                                   *)

EngineTyped == engine \in [Engines -> [state : EngineState, ctx : Nat]]

LEMMA PositionStep ==
  ASSUME TypeOK, PlaceInv, [Next]_vars
  PROVE  at' \in Position
<1>0. at \in Position /\ session \in Engines \cup {None}
  BY DEF TypeOK
<1>. USE <1>0, Entered DEF PlaceInv, Failing, Stage, Step, Interrupted
<1>1. CASE Preflight
  BY <1>1 DEF Position, Preflight, At
<1>2. CASE EndPreflight
  <2>1. CASE at.why = "done"
    BY <1>2, <2>1 DEF EndPreflight
  <2>2. CASE at.why # "done"
    BY <1>2, <2>2, ZenonT(60) DEF EndPreflight, End, Position
  <2>. QED
    BY <2>1, <2>2
<1>3. CASE GenerateNative
  BY <1>3 DEF Position, GenerateNative, Reusable, Terminate, At
<1>4. CASE Grow
  BY <1>4 DEF Position, Grow, At
<1>5. CASE Answered
  <2>1. Enter("suite") \/ AskAgain
    BY <1>5, Zenon DEF Answered, NextCase
  <2>. QED
    BY <2>1, AskingAgain
<1>6. CASE CaseFails
  BY <1>6 DEF Position, CaseFails, NextCase, At
<1>7. CASE LeaveSuite
  BY <1>7 DEF Position, LeaveSuite, Terminate, At
<1>8. CASE EndSuite
  BY <1>8 DEF Position, EndSuite, At
<1>9. CASE EndCompletion
  <2>1. Enter("suite") \/ AskAgain
    BY <1>9, Zenon DEF EndCompletion, NextCase
  <2>. QED
    BY <2>1, AskingAgain
<1>10. CASE EndPerplexity
  BY <1>10 DEF Position, EndPerplexity, EndTool, At
<1>11. CASE BeginIteration
  BY <1>11 DEF Position, BeginIteration, StartMonitor, At
<1>12. CASE IterationMeasured
  BY <1>12 DEF Position, IterationMeasured, Completes, StopMonitors, Terminate, At
<1>13. CASE EndIteration
  BY <1>13 DEF Position, EndIteration, At
<1>14. CASE EndProfile
  BY <1>14 DEF Position, EndProfile, End, At
<1>15. CASE Return
  BY <1>15 DEF Position, Return, End, At
<1>16. CASE BecomesReady
  BY <1>16 DEF Position, BecomesReady, Terminate, Goes
<1>17. CASE WaitFails
  BY <1>17 DEF Position, WaitFails, Fails, StopMonitors, Mishap, Terminate, Goes
<1>18. CASE AskFails
  BY <1>18 DEF Position, AskFails, CompletionFails, Spend, NextCase, Terminate, At
<1>19. CASE IterationFails
  BY <1>19 DEF Position, IterationFails, CompletionFails, Spend, Fails, StopMonitors, Terminate, At
<1>20. CASE Reaped
  BY <1>20 DEF Position, Reaped, Goes
<1>21. CASE EndInterrupt
  BY <1>21 DEF Position, EndInterrupt, End, Goes
<1>22. ASSUME NEW e \in Engines, Launch(e) PROVE at' \in Position
  BY <1>22 DEF Position, Launch, StartMonitor, Free, Goes
<1>23. ASSUME NEW e \in Engines, StartCompletion(e) PROVE at' \in Position
  BY <1>23 DEF Position, StartCompletion, StartTool, Free, At
<1>24. ASSUME NEW e \in Engines, StartPerplexity(e) PROVE at' \in Position
  BY <1>24 DEF Position, StartPerplexity, StartTool, Free, At
<1>25. CASE LaunchFails
  BY <1>25 DEF Position, LaunchFails, Spend, Fails, StopMonitors, Mishap, Terminate, Goes
<1>26. CASE OffloadUnproved
  BY <1>26 DEF Position, OffloadUnproved, Spend, Fails, StopMonitors, Mishap, Terminate, Goes
<1>27. CASE StopGivesUp
  BY <1>27 DEF Position, StopGivesUp, Spend, Ignored, CaseRaises, End, Mishap, Goes
<1>28. CASE SuiteRaises
  BY <1>28 DEF Position, SuiteRaises, Spend, At
<1>29. ASSUME Interrupts, InterruptCall PROVE at' \in Position
  BY <1>29 DEF Position, Spend, InterruptCall, Mishap, Terminate, Interrupts
<1>30. ASSUME NEW e \in Engines, Interrupts, InterruptDocker(e) PROVE at' \in Position
  BY <1>30 DEF Position, Spend, InterruptDocker, Free, Interrupts
<1>31. ASSUME Interrupts, InterruptTool PROVE at' \in Position
  BY <1>31 DEF Position, Spend, InterruptTool, End, Interrupts
<1>32. ASSUME Interrupts, InterruptStop PROVE at' \in Position
  BY <1>32 DEF Position, Spend, InterruptStop, End, Interrupts
<1>33. ASSUME Interrupts, InterruptBetween PROVE at' \in Position
  BY <1>33 DEF Position, Spend, InterruptBetween, End, Interrupts
<1>34. ASSUME NEW e \in Engines, EngineLoads(e) PROVE at' \in Position
  BY <1>34 DEF Position, EngineLoads
<1>35. ASSUME NEW e \in Engines, EngineDies(e) PROVE at' \in Position
  BY <1>35 DEF Position, EngineDies, Spend, Mishap
<1>36. ASSUME NEW e \in Engines, EngineEnds(e) PROVE at' \in Position
  BY <1>36 DEF Position, EngineEnds
<1>37. CASE UNCHANGED vars
  BY <1>37 DEF Position, vars
<1>38. CASE CorpusFails
  BY <1>38 DEF Position, CorpusFails, Spend, At
<1>. QED
  BY NextIsStep, <1>1, <1>2, <1>3, <1>4, <1>5, <1>6, <1>7, <1>8, <1>9,
     <1>10, <1>11, <1>12, <1>13, <1>14, <1>15, <1>16, <1>17, <1>18, <1>19,
     <1>20, <1>21, <1>22, <1>23, <1>24, <1>25, <1>26, <1>27, <1>28, <1>29,
     <1>30, <1>31, <1>32, <1>33, <1>34, <1>35, <1>36, <1>37, <1>38 DEF AnyStep

LEMMA EngineStep ==
  ASSUME TypeOK, PlaceInv, [Next]_vars
  PROVE  EngineTyped'
<1>0. /\ engine \in [Engines -> [state : EngineState, ctx : Nat]]
      /\ at.cur \in Engines \cup {None}
      /\ at.step \in {"wait", "ask", "tool"} => at.cur # None
      /\ session \in Engines \cup {None}
  BY DEF TypeOK, PlaceInv, Position
<1>. USE <1>0 DEF EngineTyped, EngineState
<1>1. CASE Preflight
  BY <1>1 DEF Preflight, At
<1>2. CASE EndPreflight
  BY <1>2 DEF EndPreflight, At
<1>3. CASE GenerateNative
  BY <1>3, SMTT(30) DEF GenerateNative, Reusable, Terminate, At
<1>4. CASE Grow
  BY <1>4 DEF Grow, At
<1>5. CASE Answered
  BY <1>5 DEF Answered, Completes, NextCase, AskAgain, At
<1>6. CASE CaseFails
  BY <1>6 DEF CaseFails, At
<1>7. CASE LeaveSuite
  BY <1>7 DEF LeaveSuite, Terminate, At
<1>8. CASE EndSuite
  BY <1>8 DEF EndSuite, At
<1>9. CASE EndCompletion
  BY <1>9 DEF EndCompletion, EndTool, NextCase, AskAgain, At
<1>10. CASE EndPerplexity
  BY <1>10 DEF EndPerplexity, EndTool, At
<1>11. CASE BeginIteration
  BY <1>11 DEF BeginIteration, StartMonitor, At
<1>12. CASE IterationMeasured
  BY <1>12 DEF IterationMeasured, Completes, StopMonitors, Terminate, At
<1>13. CASE EndIteration
  BY <1>13 DEF EndIteration, At
<1>14. CASE EndProfile
  BY <1>14 DEF EndProfile, At
<1>15. CASE Return
  BY <1>15 DEF Return, At
<1>16. CASE BecomesReady
  BY <1>16 DEF BecomesReady, Terminate, Goes
<1>17. CASE WaitFails
  BY <1>17 DEF WaitFails, Fails, StopMonitors, Mishap, Terminate, Goes
<1>18. CASE AskFails
  BY <1>18 DEF AskFails, CompletionFails, Spend, Terminate, At
<1>19. CASE IterationFails
  BY <1>19 DEF IterationFails, CompletionFails, Spend, Fails, StopMonitors, Terminate, At
<1>20. CASE Reaped
  BY <1>20 DEF Reaped, Goes
<1>21. CASE EndInterrupt
  BY <1>21 DEF EndInterrupt, Goes
<1>22. ASSUME NEW e \in Engines, Launch(e) PROVE EngineTyped'
  BY <1>22 DEF Launch, StartMonitor, Free, Goes, ContextSize, Bucket
<1>23. ASSUME NEW e \in Engines, StartCompletion(e) PROVE EngineTyped'
  BY <1>23 DEF StartCompletion, StartTool, Free, At
<1>24. ASSUME NEW e \in Engines, StartPerplexity(e) PROVE EngineTyped'
  BY <1>24 DEF StartPerplexity, StartTool, Free, At
<1>25. CASE LaunchFails
  BY <1>25 DEF LaunchFails, Spend, Fails, StopMonitors, Mishap, Terminate, Goes
<1>26. CASE OffloadUnproved
  BY <1>26 DEF OffloadUnproved, Spend, Fails, StopMonitors, Mishap, Terminate, Goes
<1>27. CASE StopGivesUp
  BY <1>27 DEF StopGivesUp, Spend, Ignored, CaseRaises, Mishap, Goes
<1>28. CASE SuiteRaises
  BY <1>28 DEF SuiteRaises, Spend, At
<1>29. ASSUME Interrupts, InterruptCall PROVE EngineTyped'
  BY <1>29 DEF Spend, InterruptCall, Mishap, Terminate, Interrupts
<1>30. ASSUME NEW e \in Engines, Interrupts, InterruptDocker(e) PROVE EngineTyped'
  BY <1>30 DEF Spend, InterruptDocker, Free, Interrupts, ContextSize, Bucket
<1>31. ASSUME Interrupts, InterruptTool PROVE EngineTyped'
  BY <1>31 DEF Spend, InterruptTool, Interrupts
<1>32. ASSUME Interrupts, InterruptStop PROVE EngineTyped'
  BY <1>32 DEF Spend, InterruptStop, Interrupts
<1>33. ASSUME Interrupts, InterruptBetween PROVE EngineTyped'
  BY <1>33 DEF Spend, InterruptBetween, Interrupts
<1>34. ASSUME NEW e \in Engines, EngineLoads(e) PROVE EngineTyped'
  BY <1>34 DEF EngineLoads
<1>35. ASSUME NEW e \in Engines, EngineDies(e) PROVE EngineTyped'
  BY <1>35 DEF EngineDies, Spend, Mishap
<1>36. ASSUME NEW e \in Engines, EngineEnds(e) PROVE EngineTyped'
  BY <1>36 DEF EngineEnds
<1>37. CASE UNCHANGED vars
  BY <1>37 DEF vars
<1>38. CASE CorpusFails
  BY <1>38 DEF CorpusFails, Spend, At
<1>. QED
  BY NextIsStep, <1>1, <1>2, <1>3, <1>4, <1>5, <1>6, <1>7, <1>8, <1>9,
     <1>10, <1>11, <1>12, <1>13, <1>14, <1>15, <1>16, <1>17, <1>18, <1>19,
     <1>20, <1>21, <1>22, <1>23, <1>24, <1>25, <1>26, <1>27, <1>28, <1>29,
     <1>30, <1>31, <1>32, <1>33, <1>34, <1>35, <1>36, <1>37, <1>38 DEF AnyStep

LEMMA RestStep ==
  ASSUME TypeOK, PlaceInv, [Next]_vars
  PROVE  /\ cases' \in Seq(Nat)
         /\ count' \in [iteration : Nat, measured : Nat, profile : Nat]
         /\ suite' \in [loads : Nat, mishaps : Nat]
         /\ left' \in [BoundKind -> Nat]
<1>1. cases' \in Seq(Nat)
  <2>1. cases \in Seq(Nat)
    BY DEF TypeOK
  <2>2. ASSUME NextCase, cases # <<>>
        PROVE  cases' \in Seq(Nat)
    BY <2>1, <2>2 DEF NextCase
  <2>3. CASE CaseFails
    BY <2>2, <2>3 DEF CaseFails, At, PlaceInv, Failing
  <2>4. CASE NextCase /\ at.step \in {"ask", "tool"} /\ at.stage = "suite"
    BY <2>2, <2>4 DEF PlaceInv
  <2>7. CASE AskAgain /\ at.step \in {"ask", "tool"} /\ at.stage = "suite"
    <3>1. cases # <<>>
      BY <2>7 DEF PlaceInv
    <3>. QED
      BY <2>1, <2>7, <3>1 DEF AskAgain
  <2>5. CASE SuiteRaises
    <3>1. cases' = <<>>
      BY <2>5 DEF SuiteRaises
    <3>. QED
      BY <3>1
  <2>6. CASE UNCHANGED cases
    BY <2>1, <2>6
  <2>. QED
    BY <2>3, <2>4, <2>5, <2>6, <2>7, CasesChange
<1>2. count' \in [iteration : Nat, measured : Nat, profile : Nat]
  <2>1. count \in [iteration : Nat, measured : Nat, profile : Nat]
    BY DEF TypeOK
  <2>. QED
    BY <2>1, CountChange DEF IterationMeasured, EndIteration, EndProfile
<1>3. suite' \in [loads : Nat, mishaps : Nat]
  <2>1. suite \in [loads : Nat, mishaps : Nat]
    BY DEF TypeOK
  <2>. QED
    BY <2>1, SuiteChange DEF Mishap
<1>4. left' \in [BoundKind -> Nat]
  <2>1. left \in [BoundKind -> Nat]
    BY DEF TypeOK
  <2>. QED
    BY <2>1, LeftChange DEF Spend
<1>. QED
  BY <1>1, <1>2, <1>3, <1>4

LEMMA SmallStep ==
  ASSUME TypeOK, [Next]_vars
  PROVE  /\ mode' = mode
         /\ files' \subseteq Engines \cup {Corpus}
         /\ session' \in Engines \cup {None}
         /\ monitors' \subseteq {"gpu", "memory"}
         /\ outcome' \in {"running", "returned", "raised", "interrupted"}
<1>1. /\ files \subseteq Engines \cup {Corpus}
      /\ session \in Engines \cup {None}
      /\ at.cur \in Engines \cup {None}
      /\ monitors \subseteq {"gpu", "memory"}
      /\ outcome \in {"running", "returned", "raised", "interrupted"}
  BY DEF TypeOK, Position
<1>2. mode' = mode
  BY NextIsStep
     DEF Preflight, EndPreflight, GenerateNative, Grow, Answered,
         CaseFails, LeaveSuite, EndSuite, EndCompletion,
         EndPerplexity, BeginIteration, IterationMeasured,
         EndIteration, EndProfile, Return, BecomesReady,
         WaitFails, AskFails, IterationFails, Reaped,
         EndInterrupt, Launch, StartCompletion, StartPerplexity,
         LaunchFails, OffloadUnproved, StopGivesUp, SuiteRaises, CorpusFails,
         InterruptCall, InterruptDocker, InterruptTool,
         InterruptStop, InterruptBetween, EngineLoads, EngineDies,
         EngineEnds, AnyStep, Interrupts, Spend, Mishap, NextCase,
         EndTool, StartTool, AskAgain, vars
<1>3. files' \subseteq files \/ \E e \in Engines \cup {Corpus} : files' = files \cup {e}
  BY NextIsStep
     DEF Preflight, EndPreflight, GenerateNative, Grow, Answered,
         CaseFails, LeaveSuite, EndSuite, EndCompletion,
         EndPerplexity, BeginIteration, IterationMeasured,
         EndIteration, EndProfile, Return, BecomesReady,
         WaitFails, AskFails, IterationFails, Reaped,
         EndInterrupt, Launch, StartCompletion, StartPerplexity,
         LaunchFails, OffloadUnproved, StopGivesUp, SuiteRaises, CorpusFails,
         InterruptCall, InterruptDocker, InterruptTool,
         InterruptStop, InterruptBetween, EngineLoads, EngineDies,
         EngineEnds, AnyStep, Interrupts, Spend, Mishap, NextCase,
         EndTool, StartTool, AskAgain, vars
<1>4. session' \in {session, None, at.cur}
  BY NextIsStep
     DEF Preflight, EndPreflight, GenerateNative, Grow, Answered,
         CaseFails, LeaveSuite, EndSuite, EndCompletion,
         EndPerplexity, BeginIteration, IterationMeasured,
         EndIteration, EndProfile, Return, BecomesReady,
         WaitFails, AskFails, IterationFails, Reaped,
         EndInterrupt, Launch, StartCompletion, StartPerplexity,
         LaunchFails, OffloadUnproved, StopGivesUp, SuiteRaises, CorpusFails,
         InterruptCall, InterruptDocker, InterruptTool,
         InterruptStop, InterruptBetween, EngineLoads, EngineDies,
         EngineEnds, AnyStep, Interrupts, Spend, Mishap, NextCase,
         EndTool, StartTool, AskAgain, vars
<1>5. \/ monitors' \subseteq monitors
      \/ \E m \in {"gpu", "memory"} : StartMonitor(m)
  BY NextIsStep
     DEF Preflight, EndPreflight, GenerateNative, Grow, Answered,
         CaseFails, LeaveSuite, EndSuite, EndCompletion,
         EndPerplexity, BeginIteration, IterationMeasured,
         EndIteration, EndProfile, Return, BecomesReady,
         WaitFails, AskFails, IterationFails, Reaped,
         EndInterrupt, Launch, StartCompletion, StartPerplexity,
         LaunchFails, OffloadUnproved, StopGivesUp, SuiteRaises, CorpusFails,
         InterruptCall, InterruptDocker, InterruptTool,
         InterruptStop, InterruptBetween, EngineLoads, EngineDies,
         EngineEnds, AnyStep, Interrupts, Spend, Mishap, NextCase,
         EndTool, StartTool, AskAgain, vars, Fails, StopMonitors
<1>6. outcome' \in {outcome, "returned", "raised", "interrupted"}
  BY NextIsStep
     DEF Preflight, EndPreflight, GenerateNative, Grow, Answered,
         CaseFails, LeaveSuite, EndSuite, EndCompletion,
         EndPerplexity, BeginIteration, IterationMeasured,
         EndIteration, EndProfile, Return, BecomesReady,
         WaitFails, AskFails, IterationFails, Reaped,
         EndInterrupt, Launch, StartCompletion, StartPerplexity,
         LaunchFails, OffloadUnproved, StopGivesUp, SuiteRaises, CorpusFails,
         InterruptCall, InterruptDocker, InterruptTool,
         InterruptStop, InterruptBetween, EngineLoads, EngineDies,
         EngineEnds, AnyStep, Interrupts, Spend, Mishap, NextCase,
         EndTool, StartTool, AskAgain, vars, End, Ignored, CaseRaises, Fails
<1>. QED
  BY <1>1, <1>2, <1>3, <1>4, <1>5, <1>6 DEF StartMonitor

LEMMA TypeStep ==
  ASSUME TypeOK, PlaceInv, [Next]_vars
  PROVE  TypeOK'
  BY PositionStep, EngineStep, RestStep, SmallStep DEF TypeOK, EngineTyped

LEMMA PlaceStep ==
  ASSUME TypeOK, PlaceInv, [Next]_vars
  PROVE  PlaceInv'
<1>0. /\ at \in Position
      /\ session \in Engines \cup {None}
      /\ None \notin Engines
  BY EngineAssumption DEF TypeOK
<1>. USE <1>0, Entering DEF PlaceInv, Failing, Position, Interrupted
<1>1. CASE Preflight
  BY <1>1 DEF Preflight, At
<1>2. CASE EndPreflight
  BY <1>2 DEF EndPreflight, End, At
<1>3. CASE GenerateNative
  BY <1>3 DEF GenerateNative, Reusable, Terminate, At
<1>4. CASE Grow
  BY <1>4 DEF Grow, At
<1>5. CASE Answered
  BY <1>5 DEF Answered, Completes, NextCase, AskAgain, At
<1>6. CASE CaseFails
  BY <1>6 DEF CaseFails, NextCase, At
<1>7. CASE LeaveSuite
  BY <1>7 DEF LeaveSuite, Terminate, At
<1>8. CASE EndSuite
  BY <1>8 DEF EndSuite, At
<1>9. CASE EndCompletion
  BY <1>9 DEF EndCompletion, EndTool, NextCase, AskAgain, At
<1>10. CASE EndPerplexity
  BY <1>10 DEF EndPerplexity, EndTool, At
<1>11. CASE BeginIteration
  BY <1>11 DEF BeginIteration, StartMonitor, At
<1>12. CASE IterationMeasured
  BY <1>12 DEF IterationMeasured, Completes, StopMonitors, Terminate, At
<1>13. CASE EndIteration
  BY <1>13 DEF EndIteration, At
<1>14. CASE EndProfile
  BY <1>14 DEF EndProfile, End, At
<1>15. CASE Return
  BY <1>15 DEF Return, End, At
<1>16. CASE BecomesReady
  BY <1>16 DEF BecomesReady, Terminate, Goes
<1>17. CASE WaitFails
  BY <1>17 DEF WaitFails, Fails, StopMonitors, Mishap, Terminate, Goes
<1>18. CASE AskFails
  BY <1>18 DEF AskFails, CompletionFails, Spend, NextCase, Terminate, At
<1>19. CASE IterationFails
  BY <1>19 DEF IterationFails, CompletionFails, Spend, Fails, StopMonitors, Terminate, At
<1>20. CASE Reaped
  BY <1>20 DEF Reaped, Goes
<1>21. CASE EndInterrupt
  BY <1>21 DEF EndInterrupt, End, Goes
<1>22. ASSUME NEW e \in Engines, Launch(e) PROVE PlaceInv'
  BY <1>22 DEF Launch, StartMonitor, Free, Goes
<1>23. ASSUME NEW e \in Engines, StartCompletion(e) PROVE PlaceInv'
  BY <1>23 DEF StartCompletion, StartTool, Free, At
<1>24. ASSUME NEW e \in Engines, StartPerplexity(e) PROVE PlaceInv'
  BY <1>24 DEF StartPerplexity, StartTool, Free, At
<1>25. CASE LaunchFails
  BY <1>25 DEF LaunchFails, Spend, Fails, StopMonitors, Mishap, Terminate, Goes
<1>26. CASE OffloadUnproved
  BY <1>26 DEF OffloadUnproved, Spend, Fails, StopMonitors, Mishap, Terminate, Goes
<1>27. CASE StopGivesUp
  BY <1>27 DEF StopGivesUp, Spend, Ignored, CaseRaises, End, Mishap, Goes
<1>28. CASE SuiteRaises
  BY <1>28 DEF SuiteRaises, Spend, At
<1>29. ASSUME Interrupts, InterruptCall PROVE PlaceInv'
  BY <1>29 DEF Spend, InterruptCall, Mishap, Terminate, Interrupts
<1>30. ASSUME NEW e \in Engines, Interrupts, InterruptDocker(e) PROVE PlaceInv'
  BY <1>30 DEF Spend, InterruptDocker, Free, Interrupts
<1>31. ASSUME Interrupts, InterruptTool PROVE PlaceInv'
  BY <1>31 DEF Spend, InterruptTool, End, Interrupts
<1>32. ASSUME Interrupts, InterruptStop PROVE PlaceInv'
  BY <1>32 DEF Spend, InterruptStop, End, Interrupts
<1>33. ASSUME Interrupts, InterruptBetween PROVE PlaceInv'
  BY <1>33 DEF Spend, InterruptBetween, End, Interrupts
<1>34. ASSUME NEW e \in Engines, EngineLoads(e) PROVE PlaceInv'
  BY <1>34 DEF EngineLoads
<1>35. ASSUME NEW e \in Engines, EngineDies(e) PROVE PlaceInv'
  BY <1>35 DEF EngineDies, Spend, Mishap
<1>36. ASSUME NEW e \in Engines, EngineEnds(e) PROVE PlaceInv'
  BY <1>36 DEF EngineEnds
<1>37. CASE UNCHANGED vars
  BY <1>37 DEF vars
<1>38. CASE CorpusFails
  BY <1>38 DEF CorpusFails, Spend, At
<1>. QED
  BY NextIsStep, <1>1, <1>2, <1>3, <1>4, <1>5, <1>6, <1>7, <1>8, <1>9,
     <1>10, <1>11, <1>12, <1>13, <1>14, <1>15, <1>16, <1>17, <1>18, <1>19,
     <1>20, <1>21, <1>22, <1>23, <1>24, <1>25, <1>26, <1>27, <1>28, <1>29,
     <1>30, <1>31, <1>32, <1>33, <1>34, <1>35, <1>36, <1>37, <1>38 DEF AnyStep

-----------------------------------------------------------------------------
(* Engines have a holder: the session, or the call that waits for them.     *)

\* What telling an engine to end does.
LEMMA Terminated ==
  ASSUME engine \in [Engines -> [state : EngineState, ctx : Nat]], at \in Position,
         NEW e \in Engines, NEW why, Terminate(e, why), None \notin Engines
  PROVE  /\ at'.step = "reap" /\ at'.cur = e /\ at'.stage = at.stage
         /\ engine'[e].state \notin {"loading", "ready"}
         /\ \A f \in Engines : f # e => engine'[f] = engine[f]
  BY DEF Terminate, Position

Busy == {"wait", "ask", "tool", "reap"}
Held(e) == outcome = "running" /\ (e = session \/ (e = at.cur /\ at.step \in Busy))

LiveInv ==
    /\ \A e, f \in Engines : Live(e) /\ Live(f) => e = f
    /\ outcome = "running" => \A e \in Engines : Live(e) => Held(e)
    /\ outcome # "running" => \A e \in Engines : engine[e].state \notin {"loading", "ready"}
    /\ at.step = "reap" /\ at.cur # None => engine[at.cur].state \notin {"loading", "ready"}

LEMMA LiveStep ==
  ASSUME TypeOK, PlaceInv, LiveInv, [Next]_vars
  PROVE  LiveInv'
<1>0. /\ engine \in [Engines -> [state : EngineState, ctx : Nat]]
      /\ at \in Position
      /\ session \in Engines \cup {None}
      /\ None \notin Engines
  BY EngineAssumption DEF TypeOK
<1>. USE <1>0, Entering DEF PlaceInv, LiveInv, Live, Held, Busy, Position,
        Interrupted
<1>1. CASE Preflight
  BY <1>1 DEF Preflight, At
<1>2. CASE EndPreflight
  BY <1>2 DEF EndPreflight, End, At
<1>3. CASE GenerateNative
  <2>1. CASE Reusable
    BY <1>3, <2>1 DEF GenerateNative, Reusable, At
  <2>2. CASE ~Reusable /\ session # None
    <3>1. \A e \in Engines : Live(e) => e = session
      BY <1>3, <2>2 DEF GenerateNative, At
    <3>. QED
      BY <1>3, <2>2, <3>1, Terminated DEF GenerateNative, At
  <2>3. CASE ~Reusable /\ session = None
    BY <1>3, <2>3 DEF GenerateNative, At
  <2>. QED
    BY <2>1, <2>2, <2>3
<1>4. CASE Grow
  BY <1>4 DEF Grow, At
<1>5. CASE Answered
  BY <1>5 DEF Answered, Completes, NextCase, AskAgain, At
<1>6. CASE CaseFails
  BY <1>6 DEF CaseFails, NextCase, At
<1>7. CASE LeaveSuite
  BY <1>7 DEF LeaveSuite, Terminate, At
<1>8. CASE EndSuite
  BY <1>8 DEF EndSuite, At
<1>9. CASE EndCompletion
  <2>1. /\ at'.stage = "suite" /\ at'.step = "call" /\ at'.cur = None
        /\ outcome' = "running" /\ session' = session /\ at.cur \in Engines
        /\ engine' = [engine EXCEPT ![at.cur].state = "none"]
    BY <1>9, AskingAgain DEF EndCompletion, EndTool, NextCase, At
  <2>2. \A e \in Engines : ~Live(e)'
    BY <1>9, <2>1 DEF EndCompletion, At
  <2>. QED
    BY <2>1, <2>2
<1>10. CASE EndPerplexity
  BY <1>10 DEF EndPerplexity, EndTool, At
<1>11. CASE BeginIteration
  BY <1>11 DEF BeginIteration, StartMonitor, At
<1>12. CASE IterationMeasured
  BY <1>12 DEF IterationMeasured, Completes, StopMonitors, Terminate, At
<1>13. CASE EndIteration
  BY <1>13 DEF EndIteration, At
<1>14. CASE EndProfile
  BY <1>14 DEF EndProfile, End, At
<1>15. CASE Return
  BY <1>15 DEF Return, End, At
<1>16. CASE BecomesReady
  <2>1. CASE at.stage = "preflight"
    <3>1. at.cur \in Engines /\ \A e \in Engines : Live(e) => e = at.cur
      BY <1>16, <2>1 DEF BecomesReady, Goes
    <3>. QED
      BY <1>16, <2>1, <3>1, Terminated DEF BecomesReady, Goes
  <2>2. CASE at.stage # "preflight"
    BY <1>16, <2>2 DEF BecomesReady, Goes
  <2>. QED
    BY <2>1, <2>2
<1>17. CASE WaitFails
  BY <1>17 DEF WaitFails, Fails, StopMonitors, Mishap, Terminate, Goes
<1>18. CASE AskFails
  BY <1>18, ZenonT(60) DEF AskFails, CompletionFails, Spend, NextCase, Terminate, At
<1>19. CASE IterationFails
  BY <1>19 DEF IterationFails, CompletionFails, Spend, Fails, StopMonitors, Terminate, At
<1>20. CASE Reaped
  BY <1>20 DEF Reaped, Goes
<1>21. CASE EndInterrupt
  BY <1>21 DEF EndInterrupt, End, Goes
<1>22. ASSUME NEW e \in Engines, Launch(e) PROVE LiveInv'
  BY <1>22 DEF Launch, StartMonitor, Free, Goes
<1>23. ASSUME NEW e \in Engines, StartCompletion(e) PROVE LiveInv'
  BY <1>23 DEF StartCompletion, StartTool, Free, At
<1>24. ASSUME NEW e \in Engines, StartPerplexity(e) PROVE LiveInv'
  BY <1>24 DEF StartPerplexity, StartTool, Free, At
<1>25. CASE LaunchFails
  BY <1>25 DEF LaunchFails, Spend, Fails, StopMonitors, Mishap, Terminate, Goes
<1>26. CASE OffloadUnproved
  BY <1>26 DEF OffloadUnproved, Spend, Fails, StopMonitors, Mishap, Terminate, Goes
<1>27. CASE StopGivesUp
  <2>1. /\ at.cur \in Engines /\ engine' = [engine EXCEPT ![at.cur].state = "lost"]
        /\ session = None /\ session' = None
        /\ at'.step # "reap"
    BY <1>27 DEF StopGivesUp, Ignored, CaseRaises, End, Goes
  <2>2. \A e \in Engines : ~Live(e)'
    BY <1>27, <2>1 DEF StopGivesUp, Goes
  <2>. QED
    BY <2>1, <2>2
<1>28. CASE SuiteRaises
  BY <1>28 DEF SuiteRaises, Spend, At
<1>29. ASSUME Interrupts, InterruptCall PROVE LiveInv'
  BY <1>29 DEF Spend, InterruptCall, Mishap, Terminate, Interrupts
<1>30. ASSUME NEW e \in Engines, Interrupts, InterruptDocker(e) PROVE LiveInv'
  BY <1>30 DEF Spend, InterruptDocker, Free, Interrupts
<1>31. ASSUME Interrupts, InterruptTool PROVE LiveInv'
  BY <1>31 DEF Spend, InterruptTool, End, Interrupts
<1>32. ASSUME Interrupts, InterruptStop PROVE LiveInv'
  BY <1>32 DEF Spend, InterruptStop, End, Interrupts
<1>33. ASSUME Interrupts, InterruptBetween PROVE LiveInv'
  BY <1>33 DEF Spend, InterruptBetween, End, Interrupts
<1>34. ASSUME NEW e \in Engines, EngineLoads(e) PROVE LiveInv'
  BY <1>34 DEF EngineLoads
<1>35. ASSUME NEW e \in Engines, EngineDies(e) PROVE LiveInv'
  BY <1>35 DEF EngineDies, Spend, Mishap
<1>36. ASSUME NEW e \in Engines, EngineEnds(e) PROVE LiveInv'
  BY <1>36 DEF EngineEnds
<1>37. CASE UNCHANGED vars
  BY <1>37 DEF vars
<1>38. CASE CorpusFails
  BY <1>38 DEF CorpusFails, Spend, At
<1>. QED
  BY NextIsStep, <1>1, <1>2, <1>3, <1>4, <1>5, <1>6, <1>7, <1>8, <1>9,
     <1>10, <1>11, <1>12, <1>13, <1>14, <1>15, <1>16, <1>17, <1>18, <1>19,
     <1>20, <1>21, <1>22, <1>23, <1>24, <1>25, <1>26, <1>27, <1>28, <1>29,
     <1>30, <1>31, <1>32, <1>33, <1>34, <1>35, <1>36, <1>37, <1>38 DEF AnyStep

-----------------------------------------------------------------------------
(* What a mishap leaves behind.                                             *)

BudgetInv == \A kind \in BoundKind : left[kind] <= Bound[kind]

Stuck == left.stuck < Bound.stuck
Cut == left.interrupt < Bound.interrupt

Troubled == left.trouble < Bound.trouble

\* The log of an engine stays while a call is responsible for it.
Logged(e) ==
    outcome = "running" /\ (e = session \/ (e = at.cur /\ at.step \in {"wait", "ask", "reap"}))

FilesInv ==
    /\ \A e \in files \ {Corpus} : Logged(e) \/ Stuck \/ Cut
    /\ Corpus \in files =>
           \/ outcome = "running" /\ at.stage = "fidelity" /\ at.step = "tool"
           \/ Troubled \/ Cut

MonitorInv ==
    monitors # {} =>
        \/ outcome = "running" /\ at.stage = "deploy" /\ at.step \in {"launch", "wait", "ask"}
        \/ Cut

LEMMA BudgetStep ==
  ASSUME TypeOK, BudgetInv, [Next]_vars
  PROVE  /\ BudgetInv'
         /\ Stuck => Stuck'
         /\ Cut => Cut'
         /\ Troubled => Troubled'
<1>1. left \in [BoundKind -> Nat] /\ Bound \in [BoundKind -> Nat]
  BY EngineAssumption DEF TypeOK
<1>. QED
  BY <1>1, LeftChange DEF BudgetInv, Stuck, Cut, Troubled, Spend, BoundKind

\* A stop that gives up and an interrupt are counted.
LEMMA Charged ==
  ASSUME TypeOK, BudgetInv
  PROVE  /\ Spend("stuck") => Stuck'
         /\ Spend("interrupt") => Cut'
         /\ Spend("trouble") => Troubled'
<1>1. left \in [BoundKind -> Nat] /\ Bound \in [BoundKind -> Nat]
  BY EngineAssumption DEF TypeOK
<1>. QED
  BY <1>1 DEF BudgetInv, Stuck, Cut, Troubled, Spend, BoundKind

LEMMA FilesStep ==
  ASSUME TypeOK, PlaceInv, BudgetInv, FilesInv, [Next]_vars
  PROVE  FilesInv'
<1>0. /\ at \in Position
      /\ files \subseteq Engines \cup {Corpus}
      /\ session \in Engines \cup {None}
      /\ None \notin Engines /\ Corpus \notin Engines
  BY EngineAssumption DEF TypeOK
<1>. USE <1>0, Entering, BudgetStep, Charged DEF PlaceInv, FilesInv, Logged,
        Position, Interrupted
<1>1. CASE Preflight
  BY <1>1 DEF Preflight, At
<1>2. CASE EndPreflight
  BY <1>2 DEF EndPreflight, End, At
<1>3. CASE GenerateNative
  BY <1>3 DEF GenerateNative, Reusable, Terminate, At
<1>4. CASE Grow
  BY <1>4 DEF Grow, At
<1>5. CASE Answered
  BY <1>5 DEF Answered, Completes, NextCase, AskAgain, At
<1>6. CASE CaseFails
  BY <1>6 DEF CaseFails, NextCase, At
<1>7. CASE LeaveSuite
  BY <1>7 DEF LeaveSuite, Terminate, At
<1>8. CASE EndSuite
  BY <1>8 DEF EndSuite, At
<1>9. CASE EndCompletion
  BY <1>9 DEF EndCompletion, EndTool, NextCase, AskAgain, At
<1>10. CASE EndPerplexity
  BY <1>10 DEF EndPerplexity, EndTool, At
<1>11. CASE BeginIteration
  BY <1>11 DEF BeginIteration, StartMonitor, At
<1>12. CASE IterationMeasured
  BY <1>12 DEF IterationMeasured, Completes, StopMonitors, Terminate, At
<1>13. CASE EndIteration
  BY <1>13 DEF EndIteration, At
<1>14. CASE EndProfile
  BY <1>14 DEF EndProfile, End, At
<1>15. CASE Return
  BY <1>15 DEF Return, End, At
<1>16. CASE BecomesReady
  BY <1>16 DEF BecomesReady, Terminate, Goes
<1>17. CASE WaitFails
  BY <1>17 DEF WaitFails, Fails, StopMonitors, Terminate, Goes
<1>18. CASE AskFails
  BY <1>18 DEF AskFails, CompletionFails, NextCase, Terminate, At
<1>19. CASE IterationFails
  BY <1>19 DEF IterationFails, CompletionFails, Fails, StopMonitors, Terminate, At
<1>20. CASE Reaped
  BY <1>20 DEF Reaped, Goes
<1>21. CASE EndInterrupt
  BY <1>21 DEF EndInterrupt, End, Goes
<1>22. ASSUME NEW e \in Engines, Launch(e) PROVE FilesInv'
  BY <1>22 DEF Launch, StartMonitor, Free, Goes
<1>23. ASSUME NEW e \in Engines, StartCompletion(e) PROVE FilesInv'
  BY <1>23 DEF StartCompletion, StartTool, Free, At
<1>24. ASSUME NEW e \in Engines, StartPerplexity(e) PROVE FilesInv'
  BY <1>24 DEF StartPerplexity, StartTool, Free, At
<1>25. CASE LaunchFails
  BY <1>25 DEF LaunchFails, Fails, StopMonitors, Terminate, Goes
<1>26. CASE OffloadUnproved
  BY <1>26 DEF OffloadUnproved, Fails, StopMonitors, Terminate, Goes
<1>27. CASE StopGivesUp
  BY <1>27 DEF StopGivesUp, Ignored, CaseRaises, End, Goes
<1>28. CASE SuiteRaises
  BY <1>28 DEF SuiteRaises, At
<1>29. ASSUME Interrupts, InterruptCall PROVE FilesInv'
  BY <1>29 DEF InterruptCall, Terminate, Interrupts
<1>30. ASSUME NEW e \in Engines, Interrupts, InterruptDocker(e) PROVE FilesInv'
  BY <1>30 DEF InterruptDocker, Free, Interrupts
<1>31. ASSUME Interrupts, InterruptTool PROVE FilesInv'
  BY <1>31 DEF InterruptTool, End, Interrupts
<1>32. ASSUME Interrupts, InterruptStop PROVE FilesInv'
  BY <1>32 DEF InterruptStop, End, Interrupts
<1>33. ASSUME Interrupts, InterruptBetween PROVE FilesInv'
  BY <1>33 DEF InterruptBetween, End, Interrupts
<1>34. ASSUME NEW e \in Engines, EngineLoads(e) PROVE FilesInv'
  BY <1>34 DEF EngineLoads
<1>35. ASSUME NEW e \in Engines, EngineDies(e) PROVE FilesInv'
  BY <1>35 DEF EngineDies
<1>36. ASSUME NEW e \in Engines, EngineEnds(e) PROVE FilesInv'
  BY <1>36 DEF EngineEnds
<1>37. CASE UNCHANGED vars
  BY <1>37 DEF vars
<1>38. CASE CorpusFails
  BY <1>38 DEF CorpusFails, At
<1>. QED
  BY NextIsStep, <1>1, <1>2, <1>3, <1>4, <1>5, <1>6, <1>7, <1>8, <1>9,
     <1>10, <1>11, <1>12, <1>13, <1>14, <1>15, <1>16, <1>17, <1>18, <1>19,
     <1>20, <1>21, <1>22, <1>23, <1>24, <1>25, <1>26, <1>27, <1>28, <1>29,
     <1>30, <1>31, <1>32, <1>33, <1>34, <1>35, <1>36, <1>37, <1>38 DEF AnyStep

LEMMA MonitorStep ==
  ASSUME TypeOK, PlaceInv, BudgetInv, MonitorInv, [Next]_vars
  PROVE  MonitorInv'
<1>0. at \in Position
  BY DEF TypeOK
<1>. USE <1>0, Entering, BudgetStep, Charged DEF PlaceInv, MonitorInv,
        Position, Interrupted
<1>1. CASE Preflight
  BY <1>1 DEF Preflight, At
<1>2. CASE EndPreflight
  BY <1>2 DEF EndPreflight, End, At
<1>3. CASE GenerateNative
  BY <1>3 DEF GenerateNative, Reusable, Terminate, At
<1>4. CASE Grow
  BY <1>4 DEF Grow, At
<1>5. CASE Answered
  BY <1>5 DEF Answered, Completes, NextCase, AskAgain, At
<1>6. CASE CaseFails
  BY <1>6 DEF CaseFails, NextCase, At
<1>7. CASE LeaveSuite
  BY <1>7 DEF LeaveSuite, Terminate, At
<1>8. CASE EndSuite
  BY <1>8 DEF EndSuite, At
<1>9. CASE EndCompletion
  BY <1>9 DEF EndCompletion, EndTool, NextCase, AskAgain, At
<1>10. CASE EndPerplexity
  BY <1>10 DEF EndPerplexity, EndTool, At
<1>11. CASE BeginIteration
  BY <1>11 DEF BeginIteration, StartMonitor, At
<1>12. CASE IterationMeasured
  BY <1>12 DEF IterationMeasured, Completes, StopMonitors, Terminate, At
<1>13. CASE EndIteration
  BY <1>13 DEF EndIteration, At
<1>14. CASE EndProfile
  BY <1>14 DEF EndProfile, End, At
<1>15. CASE Return
  BY <1>15 DEF Return, End, At
<1>16. CASE BecomesReady
  BY <1>16 DEF BecomesReady, Terminate, Goes
<1>17. CASE WaitFails
  BY <1>17 DEF WaitFails, Fails, StopMonitors, Terminate, Goes
<1>18. CASE AskFails
  BY <1>18 DEF AskFails, CompletionFails, NextCase, Terminate, At
<1>19. CASE IterationFails
  BY <1>19 DEF IterationFails, CompletionFails, Fails, StopMonitors, Terminate, At
<1>20. CASE Reaped
  BY <1>20 DEF Reaped, Goes
<1>21. CASE EndInterrupt
  BY <1>21 DEF EndInterrupt, End, Goes
<1>22. ASSUME NEW e \in Engines, Launch(e) PROVE MonitorInv'
  BY <1>22 DEF Launch, StartMonitor, Free, Goes
<1>23. ASSUME NEW e \in Engines, StartCompletion(e) PROVE MonitorInv'
  BY <1>23 DEF StartCompletion, StartTool, Free, At
<1>24. ASSUME NEW e \in Engines, StartPerplexity(e) PROVE MonitorInv'
  BY <1>24 DEF StartPerplexity, StartTool, Free, At
<1>25. CASE LaunchFails
  BY <1>25 DEF LaunchFails, Fails, StopMonitors, Terminate, Goes
<1>26. CASE OffloadUnproved
  BY <1>26 DEF OffloadUnproved, Fails, StopMonitors, Terminate, Goes
<1>27. CASE StopGivesUp
  BY <1>27 DEF StopGivesUp, Ignored, CaseRaises, End, Goes
<1>28. CASE SuiteRaises
  BY <1>28 DEF SuiteRaises, At
<1>29. ASSUME Interrupts, InterruptCall PROVE MonitorInv'
  BY <1>29 DEF InterruptCall, Terminate, Interrupts
<1>30. ASSUME NEW e \in Engines, Interrupts, InterruptDocker(e) PROVE MonitorInv'
  BY <1>30 DEF InterruptDocker, Free, Interrupts
<1>31. ASSUME Interrupts, InterruptTool PROVE MonitorInv'
  BY <1>31 DEF InterruptTool, End, Interrupts
<1>32. ASSUME Interrupts, InterruptStop PROVE MonitorInv'
  BY <1>32 DEF InterruptStop, End, Interrupts
<1>33. ASSUME Interrupts, InterruptBetween PROVE MonitorInv'
  BY <1>33 DEF InterruptBetween, End, Interrupts
<1>34. ASSUME NEW e \in Engines, EngineLoads(e) PROVE MonitorInv'
  BY <1>34 DEF EngineLoads
<1>35. ASSUME NEW e \in Engines, EngineDies(e) PROVE MonitorInv'
  BY <1>35 DEF EngineDies
<1>36. ASSUME NEW e \in Engines, EngineEnds(e) PROVE MonitorInv'
  BY <1>36 DEF EngineEnds
<1>37. CASE UNCHANGED vars
  BY <1>37 DEF vars
<1>38. CASE CorpusFails
  BY <1>38 DEF CorpusFails, At
<1>. QED
  BY NextIsStep, <1>1, <1>2, <1>3, <1>4, <1>5, <1>6, <1>7, <1>8, <1>9,
     <1>10, <1>11, <1>12, <1>13, <1>14, <1>15, <1>16, <1>17, <1>18, <1>19,
     <1>20, <1>21, <1>22, <1>23, <1>24, <1>25, <1>26, <1>27, <1>28, <1>29,
     <1>30, <1>31, <1>32, <1>33, <1>34, <1>35, <1>36, <1>37, <1>38 DEF AnyStep

-----------------------------------------------------------------------------
(* The suite's server: its context and its loads.                           *)

ContextInv ==
    /\ at.stage = "suite" /\ at.step \in {"wait", "ask"} =>
           engine[at.cur].ctx >= Bucket(Head(cases))
    /\ at.stage = "suite" /\ at.step = "wait" =>
           engine[at.cur].ctx = Bucket(Head(cases))
    /\ session # None => engine[session].ctx \in {4, 8, 16}

SessionInv ==
    /\ session # None => engine[session].state \in {"ready", "dead"}
    /\ at.step = "wait" => engine[at.cur].state \in {"loading", "ready", "dead"}

\* Loads the suite may still have behind it, besides three for every mishap.
Rank(n) == IF n <= 4 THEN 1 ELSE IF n <= 8 THEN 2 ELSE 3
Serving == session # None /\ engine[session].state # "dead"
Starting ==
    \/ at.step = "launch"
    \/ at.step \in {"reap", "stopped"} /\ at.why = "grow"
Leaving == at.step \in {"reap", "stopped"} /\ at.why \in {"done", "abort", "interrupt"}

Allowance ==
    IF at.stage # "suite" \/ outcome # "running" THEN 3
    ELSE IF Serving THEN Rank(engine[session].ctx)
    ELSE IF Starting THEN Rank(Head(cases)) - 1
    ELSE IF at.step = "wait" /\ engine[at.cur].state # "dead" THEN Rank(Head(cases))
    ELSE IF Leaving THEN 3
    ELSE 0

LoadsInv ==
    /\ suite.loads <= 3 * suite.mishaps + Allowance
    /\ at.stage = "preflight" => suite.loads = 0


LEMMA ContextStep ==
  ASSUME TypeOK, PlaceInv, ContextInv, [Next]_vars
  PROVE  ContextInv'
<1>0. /\ engine \in [Engines -> [state : EngineState, ctx : Nat]]
      /\ at \in Position
      /\ session \in Engines \cup {None}
      /\ cases \in Seq(Nat)
      /\ None \notin Engines
  BY EngineAssumption DEF TypeOK
<1>. USE <1>0, Entering DEF PlaceInv, ContextInv, Position, Interrupted,
        Bucket
<1>1. CASE Preflight
  BY <1>1 DEF Preflight, At
<1>2. CASE EndPreflight
  BY <1>2 DEF EndPreflight, End, At
<1>3. CASE GenerateNative
  BY <1>3 DEF GenerateNative, Reusable, Terminate, At
<1>4. CASE Grow
  BY <1>4 DEF Grow, At
<1>5. CASE Answered
  BY <1>5 DEF Answered, Completes, NextCase, AskAgain, At
<1>6. CASE CaseFails
  BY <1>6 DEF CaseFails, NextCase, At
<1>7. CASE LeaveSuite
  BY <1>7 DEF LeaveSuite, Terminate, At
<1>8. CASE EndSuite
  BY <1>8 DEF EndSuite, At
<1>9. CASE EndCompletion
  BY <1>9 DEF EndCompletion, EndTool, NextCase, AskAgain, At
<1>10. CASE EndPerplexity
  BY <1>10 DEF EndPerplexity, EndTool, At
<1>11. CASE BeginIteration
  BY <1>11 DEF BeginIteration, StartMonitor, At
<1>12. CASE IterationMeasured
  BY <1>12 DEF IterationMeasured, Completes, StopMonitors, Terminate, At
<1>13. CASE EndIteration
  BY <1>13 DEF EndIteration, At
<1>14. CASE EndProfile
  BY <1>14 DEF EndProfile, End, At
<1>15. CASE Return
  BY <1>15 DEF Return, End, At
<1>16. CASE BecomesReady
  BY <1>16 DEF BecomesReady, Terminate, Goes
<1>17. CASE WaitFails
  BY <1>17 DEF WaitFails, Fails, StopMonitors, Terminate, Goes
<1>18. CASE AskFails
  BY <1>18 DEF AskFails, CompletionFails, NextCase, Terminate, At
<1>19. CASE IterationFails
  BY <1>19 DEF IterationFails, CompletionFails, Fails, StopMonitors, Terminate, At
<1>20. CASE Reaped
  BY <1>20 DEF Reaped, Goes
<1>21. CASE EndInterrupt
  BY <1>21 DEF EndInterrupt, End, Goes
<1>22. ASSUME NEW e \in Engines, Launch(e) PROVE ContextInv'
  BY <1>22 DEF Launch, StartMonitor, Free, Goes, ContextSize
<1>23. ASSUME NEW e \in Engines, StartCompletion(e) PROVE ContextInv'
  BY <1>23 DEF StartCompletion, StartTool, Free, At
<1>24. ASSUME NEW e \in Engines, StartPerplexity(e) PROVE ContextInv'
  BY <1>24 DEF StartPerplexity, StartTool, Free, At
<1>25. CASE LaunchFails
  BY <1>25 DEF LaunchFails, Fails, StopMonitors, Terminate, Goes
<1>26. CASE OffloadUnproved
  BY <1>26 DEF OffloadUnproved, Fails, StopMonitors, Terminate, Goes
<1>27. CASE StopGivesUp
  BY <1>27 DEF StopGivesUp, Ignored, CaseRaises, End, Goes
<1>28. CASE SuiteRaises
  BY <1>28 DEF SuiteRaises, At
<1>29. ASSUME Interrupts, InterruptCall PROVE ContextInv'
  BY <1>29 DEF InterruptCall, Terminate, Interrupts
<1>30. ASSUME NEW e \in Engines, Interrupts, InterruptDocker(e) PROVE ContextInv'
  BY <1>30 DEF InterruptDocker, Free, Interrupts
<1>31. ASSUME Interrupts, InterruptTool PROVE ContextInv'
  BY <1>31 DEF InterruptTool, End, Interrupts
<1>32. ASSUME Interrupts, InterruptStop PROVE ContextInv'
  BY <1>32 DEF InterruptStop, End, Interrupts
<1>33. ASSUME Interrupts, InterruptBetween PROVE ContextInv'
  BY <1>33 DEF InterruptBetween, End, Interrupts
<1>34. ASSUME NEW e \in Engines, EngineLoads(e) PROVE ContextInv'
  BY <1>34 DEF EngineLoads
<1>35. ASSUME NEW e \in Engines, EngineDies(e) PROVE ContextInv'
  BY <1>35 DEF EngineDies
<1>36. ASSUME NEW e \in Engines, EngineEnds(e) PROVE ContextInv'
  BY <1>36 DEF EngineEnds
<1>37. CASE UNCHANGED vars
  BY <1>37 DEF vars
<1>38. CASE CorpusFails
  BY <1>38 DEF CorpusFails, At
<1>. QED
  BY NextIsStep, <1>1, <1>2, <1>3, <1>4, <1>5, <1>6, <1>7, <1>8, <1>9,
     <1>10, <1>11, <1>12, <1>13, <1>14, <1>15, <1>16, <1>17, <1>18, <1>19,
     <1>20, <1>21, <1>22, <1>23, <1>24, <1>25, <1>26, <1>27, <1>28, <1>29,
     <1>30, <1>31, <1>32, <1>33, <1>34, <1>35, <1>36, <1>37, <1>38 DEF AnyStep

LEMMA SessionStep ==
  ASSUME TypeOK, PlaceInv, LiveInv, SessionInv, [Next]_vars
  PROVE  SessionInv'
<1>0. /\ engine \in [Engines -> [state : EngineState, ctx : Nat]]
      /\ at \in Position
      /\ session \in Engines \cup {None}
      /\ cases \in Seq(Nat)
      /\ None \notin Engines
  BY EngineAssumption DEF TypeOK
<1>. USE <1>0, Entering DEF PlaceInv, LiveInv, Live, Held, Busy, SessionInv,
        Position, Interrupted
<1>1. CASE Preflight
  BY <1>1 DEF Preflight, At
<1>2. CASE EndPreflight
  BY <1>2 DEF EndPreflight, End, At
<1>3. CASE GenerateNative
  BY <1>3 DEF GenerateNative, Reusable, Terminate, At
<1>4. CASE Grow
  BY <1>4 DEF Grow, At
<1>5. CASE Answered
  BY <1>5 DEF Answered, Completes, NextCase, AskAgain, At
<1>6. CASE CaseFails
  BY <1>6 DEF CaseFails, NextCase, At
<1>7. CASE LeaveSuite
  BY <1>7 DEF LeaveSuite, Terminate, At
<1>8. CASE EndSuite
  BY <1>8 DEF EndSuite, At
<1>9. CASE EndCompletion
  BY <1>9 DEF EndCompletion, EndTool, NextCase, AskAgain, At
<1>10. CASE EndPerplexity
  BY <1>10 DEF EndPerplexity, EndTool, At
<1>11. CASE BeginIteration
  BY <1>11 DEF BeginIteration, StartMonitor, At
<1>12. CASE IterationMeasured
  BY <1>12 DEF IterationMeasured, Completes, StopMonitors, Terminate, At
<1>13. CASE EndIteration
  BY <1>13 DEF EndIteration, At
<1>14. CASE EndProfile
  BY <1>14 DEF EndProfile, End, At
<1>15. CASE Return
  BY <1>15 DEF Return, End, At
<1>16. CASE BecomesReady
  BY <1>16 DEF BecomesReady, Terminate, Goes
<1>17. CASE WaitFails
  BY <1>17 DEF WaitFails, Fails, StopMonitors, Terminate, Goes
<1>18. CASE AskFails
  BY <1>18 DEF AskFails, CompletionFails, NextCase, Terminate, At
<1>19. CASE IterationFails
  BY <1>19 DEF IterationFails, CompletionFails, Fails, StopMonitors, Terminate, At
<1>20. CASE Reaped
  BY <1>20 DEF Reaped, Goes
<1>21. CASE EndInterrupt
  BY <1>21 DEF EndInterrupt, End, Goes
<1>22. ASSUME NEW e \in Engines, Launch(e) PROVE SessionInv'
  BY <1>22 DEF Launch, StartMonitor, Free, Goes
<1>23. ASSUME NEW e \in Engines, StartCompletion(e) PROVE SessionInv'
  BY <1>23 DEF StartCompletion, StartTool, Free, At
<1>24. ASSUME NEW e \in Engines, StartPerplexity(e) PROVE SessionInv'
  BY <1>24 DEF StartPerplexity, StartTool, Free, At
<1>25. CASE LaunchFails
  BY <1>25 DEF LaunchFails, Fails, StopMonitors, Terminate, Goes
<1>26. CASE OffloadUnproved
  BY <1>26 DEF OffloadUnproved, Fails, StopMonitors, Terminate, Goes
<1>27. CASE StopGivesUp
  BY <1>27, ZenonT(60) DEF StopGivesUp, Ignored, CaseRaises, End, Goes
<1>28. CASE SuiteRaises
  BY <1>28 DEF SuiteRaises, At
<1>29. ASSUME Interrupts, InterruptCall PROVE SessionInv'
  BY <1>29 DEF InterruptCall, Terminate, Interrupts
<1>30. ASSUME NEW e \in Engines, Interrupts, InterruptDocker(e) PROVE SessionInv'
  BY <1>30 DEF InterruptDocker, Free, Interrupts
<1>31. ASSUME Interrupts, InterruptTool PROVE SessionInv'
  BY <1>31 DEF InterruptTool, End, Interrupts
<1>32. ASSUME Interrupts, InterruptStop PROVE SessionInv'
  BY <1>32 DEF InterruptStop, End, Interrupts
<1>33. ASSUME Interrupts, InterruptBetween PROVE SessionInv'
  BY <1>33 DEF InterruptBetween, End, Interrupts
<1>34. ASSUME NEW e \in Engines, EngineLoads(e) PROVE SessionInv'
  BY <1>34 DEF EngineLoads
<1>35. ASSUME NEW e \in Engines, EngineDies(e) PROVE SessionInv'
  BY <1>35 DEF EngineDies
<1>36. ASSUME NEW e \in Engines, EngineEnds(e) PROVE SessionInv'
  BY <1>36 DEF EngineEnds
<1>37. CASE UNCHANGED vars
  BY <1>37 DEF vars
<1>38. CASE CorpusFails
  BY <1>38 DEF CorpusFails, At
<1>. QED
  BY NextIsStep, <1>1, <1>2, <1>3, <1>4, <1>5, <1>6, <1>7, <1>8, <1>9,
     <1>10, <1>11, <1>12, <1>13, <1>14, <1>15, <1>16, <1>17, <1>18, <1>19,
     <1>20, <1>21, <1>22, <1>23, <1>24, <1>25, <1>26, <1>27, <1>28, <1>29,
     <1>30, <1>31, <1>32, <1>33, <1>34, <1>35, <1>36, <1>37, <1>38 DEF AnyStep

LEMMA AllowanceRange == Allowance \in 0 .. 3 /\ Allowance' \in 0 .. 3
  BY DEF Allowance, Rank

\* A counted mishap pays for whatever it leaves to be loaded.
LEMMA MishapPays ==
  ASSUME TypeOK, LoadsInv, at'.stage = at.stage,
         suite'.loads = suite.loads, suite'.mishaps = suite.mishaps + 1
  PROVE  LoadsInv'
<1>1. suite \in [loads : Nat, mishaps : Nat]
  BY DEF TypeOK
<1>. QED
  BY <1>1, AllowanceRange DEF LoadsInv

LEMMA LoadsStep ==
  ASSUME TypeOK, PlaceInv, ContextInv, SessionInv, LoadsInv, [Next]_vars
  PROVE  LoadsInv'
<1>0. /\ engine \in [Engines -> [state : EngineState, ctx : Nat]]
      /\ at \in Position
      /\ session \in Engines \cup {None}
      /\ cases \in Seq(Nat)
      /\ None \notin Engines
      /\ suite \in [loads : Nat, mishaps : Nat]
  BY EngineAssumption DEF TypeOK
<1>. USE <1>0, Entering DEF PlaceInv, ContextInv, SessionInv, LoadsInv,
        Allowance, Starting, Leaving, Serving, Rank, Bucket, Position,
        Interrupted
<1>1. CASE Preflight
  BY <1>1 DEF Preflight, At
<1>2. CASE EndPreflight
  BY <1>2 DEF EndPreflight, End, At
<1>3. CASE GenerateNative
  <2>1. CASE Reusable
    BY <1>3, <2>1 DEF GenerateNative, Reusable, At
  <2>2. CASE ~Reusable /\ session # None
    <3>1. Allowance = 0 \/ Allowance <= Rank(Head(cases)) - 1
      BY <1>3, <2>2 DEF GenerateNative, Reusable, At
    <3>2. Allowance' = Rank(Head(cases)) - 1
      BY <1>3, <2>2 DEF GenerateNative, Terminate, At
    <3>. QED
      BY <1>3, <2>2, <3>1, <3>2 DEF GenerateNative, Terminate, At
  <2>3. CASE ~Reusable /\ session = None
    <3>1. Allowance = 0 /\ suite' = suite /\ at'.stage = "suite"
      BY <1>3, <2>3 DEF GenerateNative, At
    <3>. QED
      BY <1>3, <2>3, <3>1, AllowanceRange DEF GenerateNative, At
  <2>. QED
    BY <1>3, <2>1, <2>2, <2>3 DEF GenerateNative
<1>4. CASE Grow
  BY <1>4 DEF Grow, At
<1>5. CASE Answered
  BY <1>5, ZenonT(60) DEF Answered, Completes, NextCase, AskAgain, At
<1>6. CASE CaseFails
  BY <1>6 DEF CaseFails, NextCase, At
<1>7. CASE LeaveSuite
  BY <1>7 DEF LeaveSuite, Terminate, At
<1>8. CASE EndSuite
  BY <1>8 DEF EndSuite, At
<1>9. CASE EndCompletion
  BY <1>9 DEF EndCompletion, EndTool, NextCase, AskAgain, At
<1>10. CASE EndPerplexity
  BY <1>10 DEF EndPerplexity, EndTool, At
<1>11. CASE BeginIteration
  BY <1>11 DEF BeginIteration, StartMonitor, At
<1>12. CASE IterationMeasured
  BY <1>12 DEF IterationMeasured, Completes, StopMonitors, Terminate, At
<1>13. CASE EndIteration
  BY <1>13 DEF EndIteration, At
<1>14. CASE EndProfile
  BY <1>14 DEF EndProfile, End, At
<1>15. CASE Return
  BY <1>15 DEF Return, End, At
<1>16. CASE BecomesReady
  <2>1. CASE at.stage = "suite"
    <3>1. Rank(engine[at.cur].ctx) = Rank(Head(cases))
      BY <1>16, <2>1 DEF BecomesReady, Goes
    <3>2. Allowance = Rank(Head(cases))
      BY <1>16, <2>1 DEF BecomesReady, Goes
    <3>3. Allowance' = Rank(engine[at.cur].ctx)
      BY <1>16, <2>1 DEF BecomesReady, Goes
    <3>. QED
      BY <1>16, <2>1, <3>1, <3>2, <3>3 DEF BecomesReady, Goes
  <2>2. CASE at.stage # "suite"
    BY <1>16, <2>2 DEF BecomesReady, Goes, Terminate
  <2>. QED
    BY <2>1, <2>2
<1>17. CASE WaitFails
  BY <1>17 DEF WaitFails, Fails, StopMonitors, Mishap, Terminate, Goes
<1>18. CASE AskFails
  BY <1>18, ZenonT(60) DEF AskFails, CompletionFails, NextCase, Terminate, At
<1>19. CASE IterationFails
  BY <1>19 DEF IterationFails, CompletionFails, Fails, StopMonitors, Terminate, At
<1>20. CASE Reaped
  BY <1>20 DEF Reaped, Goes
<1>21. CASE EndInterrupt
  BY <1>21 DEF EndInterrupt, End, Goes
<1>22. ASSUME NEW e \in Engines, Launch(e) PROVE LoadsInv'
  BY <1>22, SMTT(30) DEF Launch, StartMonitor, Free, Goes, ContextSize
<1>23. ASSUME NEW e \in Engines, StartCompletion(e) PROVE LoadsInv'
  BY <1>23 DEF StartCompletion, StartTool, Free, At
<1>24. ASSUME NEW e \in Engines, StartPerplexity(e) PROVE LoadsInv'
  BY <1>24 DEF StartPerplexity, StartTool, Free, At
<1>25. CASE LaunchFails
  BY <1>25 DEF LaunchFails, Fails, StopMonitors, Mishap, Terminate, Goes
<1>26. CASE OffloadUnproved
  BY <1>26 DEF OffloadUnproved, Fails, StopMonitors, Mishap, Terminate, Goes
<1>27. CASE StopGivesUp
  <2>1. at.stage = "suite" => suite'.mishaps = suite.mishaps + 1
    BY <1>27 DEF StopGivesUp, Mishap
  <2>2. at'.stage = at.stage /\ suite'.loads = suite.loads
    BY <1>27 DEF StopGivesUp, Mishap, Ignored, CaseRaises, End
  <2>3. CASE at.stage = "suite"
    BY <2>1, <2>2, <2>3, MishapPays
  <2>4. CASE at.stage # "suite"
    BY <1>27, <2>2, <2>4 DEF StopGivesUp, Mishap
  <2>. QED
    BY <2>3, <2>4
<1>28. CASE SuiteRaises
  BY <1>28 DEF SuiteRaises, At
<1>29. ASSUME Interrupts, InterruptCall PROVE LoadsInv'
  BY <1>29, SMTT(30) DEF InterruptCall, Mishap, Terminate, Interrupts
<1>30. ASSUME NEW e \in Engines, Interrupts, InterruptDocker(e) PROVE LoadsInv'
  BY <1>30 DEF InterruptDocker, Free, Interrupts
<1>31. ASSUME Interrupts, InterruptTool PROVE LoadsInv'
  BY <1>31 DEF InterruptTool, End, Interrupts
<1>32. ASSUME Interrupts, InterruptStop PROVE LoadsInv'
  BY <1>32 DEF InterruptStop, End, Interrupts
<1>33. ASSUME Interrupts, InterruptBetween PROVE LoadsInv'
  BY <1>33 DEF InterruptBetween, End, Interrupts
<1>34. ASSUME NEW e \in Engines, EngineLoads(e) PROVE LoadsInv'
  BY <1>34 DEF EngineLoads
<1>35. ASSUME NEW e \in Engines, EngineDies(e) PROVE LoadsInv'
  <2>1. CASE at.stage = "suite"
    <3>1. at' = at /\ suite' = [suite EXCEPT !.mishaps = suite.mishaps + 1]
      BY <1>35, <2>1 DEF EngineDies, Mishap
    <3>. QED
      BY <3>1, MishapPays
  <2>2. CASE at.stage # "suite"
    BY <1>35, <2>2 DEF EngineDies, Mishap
  <2>. QED
    BY <2>1, <2>2
<1>36. ASSUME NEW e \in Engines, EngineEnds(e) PROVE LoadsInv'
  BY <1>36 DEF EngineEnds
<1>37. CASE UNCHANGED vars
  BY <1>37 DEF vars
<1>38. CASE CorpusFails
  BY <1>38 DEF CorpusFails, At
<1>. QED
  BY NextIsStep, <1>1, <1>2, <1>3, <1>4, <1>5, <1>6, <1>7, <1>8, <1>9,
     <1>10, <1>11, <1>12, <1>13, <1>14, <1>15, <1>16, <1>17, <1>18, <1>19,
     <1>20, <1>21, <1>22, <1>23, <1>24, <1>25, <1>26, <1>27, <1>28, <1>29,
     <1>30, <1>31, <1>32, <1>33, <1>34, <1>35, <1>36, <1>37, <1>38 DEF AnyStep

-----------------------------------------------------------------------------
(* The theorems.                                                            *)

IInv ==
    /\ TypeOK /\ PlaceInv /\ LiveInv
    /\ BudgetInv /\ FilesInv /\ MonitorInv
    /\ ContextInv /\ SessionInv /\ LoadsInv

LEMMA InitInv == Init => IInv
<1>. SUFFICES ASSUME Init PROVE IInv
  OBVIOUS
<1>1. TypeOK
  BY EngineAssumption
  DEF Init, TypeOK, Position, EngineState, Stage, Step
<1>2. PlaceInv /\ ContextInv /\ SessionInv
  BY DEF Init, PlaceInv, ContextInv, SessionInv
<1>3. LiveInv
  BY DEF Init, LiveInv, Live
<1>4. BudgetInv /\ FilesInv /\ MonitorInv
  BY EngineAssumption DEF Init, BudgetInv, FilesInv, MonitorInv, BoundKind
<1>5. LoadsInv
  BY DEF Init, LoadsInv, Allowance
<1>. QED
  BY <1>1, <1>2, <1>3, <1>4, <1>5 DEF IInv

LEMMA NextInv == IInv /\ [Next]_vars => IInv'
  BY TypeStep, PlaceStep, LiveStep, BudgetStep, FilesStep, MonitorStep,
     ContextStep, SessionStep, LoadsStep
  DEF IInv

LEMMA Inductive == Spec => []IInv
  BY InitInv, NextInv, PTL DEF Spec

\* Every variable keeps its type, whatever the suites, the engines, the
\* profiles and the number of mishaps.
THEOREM TypeSafe == Spec => []TypeOK
<1>1. IInv => TypeOK
  BY DEF IInv
<1>. QED
  BY <1>1, Inductive, PTL

\* The adapter never has two engines of its own in memory, and the baseline of
\* the GPU monitor is taken with none: an engine lives only in the hands of the
\* session or of the call that waits for it.
THEOREM AloneSafe == Spec => []MeasuredAlone
<1>1. IInv => MeasuredAlone
  BY EngineAssumption DEF IInv, MeasuredAlone, LiveInv, PlaceInv, Held, Busy
<1>. QED
  BY <1>1, Inductive, PTL

\* However the run ends, no engine serves on. A log that is left behind is owed
\* to a stop that was given up or to an interrupt, a corpus to a failure or to
\* an interrupt, a sampling thread to an interrupt.
THEOREM EndSafe == Spec => []NothingLeft
<1>1. IInv => NothingLeft
  BY DEF IInv, NothingLeft, LiveInv, PlaceInv, FilesInv, MonitorInv, Logged,
         Held, Stuck, Cut, Troubled
<1>. QED
  BY <1>1, Inductive, PTL

\* A case is only sent to a server whose context holds it, for suites of any
\* length and order.
THEOREM ContextSafe == Spec => []CaseFitsContext
<1>1. ASSUME IInv, At("suite", "ask"), Head(cases) <= 16
      PROVE  engine[at.cur].ctx >= Head(cases)
  <2>1. engine \in [Engines -> [state : EngineState, ctx : Nat]] /\ cases \in Seq(Nat)
    BY <1>1 DEF IInv, TypeOK
  <2>2. at.cur \in Engines /\ cases # <<>> /\ engine[at.cur].ctx >= Bucket(Head(cases))
    BY <1>1, EngineAssumption DEF IInv, TypeOK, PlaceInv, ContextInv, Position, At
  <2>. QED
    BY <1>1, <2>1, <2>2 DEF Bucket
<1>2. IInv => CaseFitsContext
  BY <1>1 DEF CaseFitsContext
<1>. QED
  BY <1>2, Inductive, PTL

\* The suite's server is loaded at most three times, and three times more for
\* every mishap, for suites of any length and order.
THEOREM RestartsSafe == Spec => []RestartsBounded
<1>1. ASSUME IInv PROVE RestartsBounded
  <2>1. suite \in [loads : Nat, mishaps : Nat]
    BY <1>1 DEF IInv, TypeOK
  <2>2. suite.loads <= 3 * suite.mishaps + Allowance
    BY <1>1 DEF IInv, LoadsInv
  <2>. QED
    BY <2>1, <2>2, AllowanceRange DEF RestartsBounded
<1>. QED
  BY <1>1, Inductive, PTL

-----------------------------------------------------------------------------
(* The way to the end.  The counts of the deployment stay within what the  *)
(* run asks for; with them the distance is a number, and each action       *)
(* lowers it either within a call, or by a case, an iteration, a profile   *)
(* or a stage.                                                             *)

CountInv ==
    /\ count.iteration <= Iterations /\ count.profile <= Profiles
    /\ count.profile = Profiles => count.iteration = 0
    /\ at.stage = "deploy" /\ at.step # "call" =>
           count.profile < Profiles /\ count.iteration < Iterations

LEMMA IterationsNat == Iterations \in Nat /\ Profiles \in Nat
  BY EngineAssumption DEF Iterations

LEMMA CallIs ==
  ASSUME NEW step \in Step, NEW why
  PROVE  /\ CallLeft(step, why) \in 1 .. 8
         /\ step = "call" => CallLeft(step, why) = 8
         /\ step = "launch" => CallLeft(step, why) = 5
         /\ step = "wait" => CallLeft(step, why) = 4
         /\ step \in {"ask", "tool"} => CallLeft(step, why) = 3
         /\ step = "reap" /\ why = "grow" => CallLeft(step, why) = 7
         /\ step = "reap" /\ why # "grow" => CallLeft(step, why) = 2
         /\ step = "stopped" /\ why = "grow" => CallLeft(step, why) = 6
         /\ step = "stopped" /\ why # "grow" => CallLeft(step, why) = 1
<1>1. CASE step = "call"
  BY <1>1 DEF CallLeft
<1>2. CASE step = "launch"
  BY <1>2 DEF CallLeft
<1>3. CASE step = "wait"
  BY <1>3 DEF CallLeft
<1>4. CASE step = "ask"
  BY <1>4 DEF CallLeft
<1>5. CASE step = "tool"
  BY <1>5 DEF CallLeft
<1>6. CASE step = "reap"
  BY <1>6 DEF CallLeft
<1>7. CASE step = "stopped"
  BY <1>7 DEF CallLeft
<1>. QED
  BY <1>1, <1>2, <1>3, <1>4, <1>5, <1>6, <1>7 DEF Step

LEMMA CompletionsIs ==
  ASSUME NEW todo \in Nat
  PROVE  /\ Completions(todo) \in Nat /\ Completions(todo) >= Asks
         /\ Completions(todo + 1) = Completions(todo) + Asks
         /\ Completions(0) = Asks
<1>1. Asks \in Nat
  BY EngineAssumption
<1>2. Asks * todo \in Nat
  BY <1>1
<1>3. Asks * (todo + 1) = Asks * todo + Asks /\ Asks * ((todo + 1) + 1) = Asks * (todo + 1) + Asks
  BY <1>1
<1>. QED
  BY <1>1, <1>2, <1>3 DEF Completions

LEMMA StageIs ==
  ASSUME NEW asked, NEW todo
  PROVE  /\ StageLeft("deploy", asked, todo) = 0
         /\ StageLeft("fidelity", asked, todo) = 8
         /\ StageLeft("suite", asked, todo) = 24 + 8 * (Completions(todo) - asked)
         /\ StageLeft("preflight", asked, todo) = 32 + 8 * Completions(todo)
  BY DEF StageLeft

LEMMA StageNat ==
  ASSUME NEW stage \in Stage, NEW asked \in 0 .. Asks - 1, NEW todo \in Nat
  PROVE  StageLeft(stage, asked, todo) \in Nat
<1>1. Completions(todo) \in Nat /\ Completions(todo) >= Asks /\ Asks \in Nat \ {0}
  BY CompletionsIs, EngineAssumption
<1>. QED
  BY <1>1, StageIs DEF Stage

LEMMA DeployIs ==
  ASSUME NEW p \in Nat, NEW i \in Nat, p <= Profiles, i <= Iterations,
         p = Profiles => i = 0
  PROVE  /\ DeployLeft(p, i) \in Nat
         /\ i < Iterations => DeployLeft(p, i + 1) = DeployLeft(p, i) - 8
         /\ p < Profiles /\ i = Iterations => DeployLeft(p + 1, 0) = DeployLeft(p, i) - 2
<1>. DEFINE K == 8 * Iterations + 2
            W(q) == (Profiles - q) * K
<1>0. Iterations \in Nat /\ Profiles \in Nat /\ K \in Nat
  BY IterationsNat
<1>1. W(p) \in Nat /\ (p < Profiles => W(p) = W(p + 1) + K /\ W(p + 1) \in Nat)
  <2>1. ASSUME NEW a \in Nat, NEW k \in Nat PROVE (a + 1) * k = a * k + k /\ a * k \in Nat
    OBVIOUS
  <2>2. Profiles - p \in Nat
    BY <1>0
  <2>3. W(p) \in Nat
    BY <1>0, <2>1, <2>2
  <2>4. ASSUME p < Profiles PROVE W(p) = W(p + 1) + K /\ W(p + 1) \in Nat
    <3>1. Profiles - (p + 1) \in Nat /\ Profiles - p = (Profiles - (p + 1)) + 1
      BY <1>0, <2>4
    <3>. HIDE DEF K
    <3>. QED
      BY <1>0, <2>1, <3>1
  <2>. QED
    BY <2>3, <2>4
<1>2. \A j \in Nat : DeployLeft(p, j) = W(p) - 8 * j
  BY DEF DeployLeft
<1>3. \A j \in Nat : DeployLeft(p + 1, j) = W(p + 1) - 8 * j
  BY DEF DeployLeft
<1>. HIDE DEF W
<1>4. DeployLeft(p, i) \in Nat
  <2>1. CASE p = Profiles
    BY <1>0, <1>1, <1>2, <2>1
  <2>2. CASE p < Profiles
    BY <1>0, <1>1, <1>2, <2>2
  <2>. QED
    BY <1>0, <2>1, <2>2
<1>5. i < Iterations => DeployLeft(p, i + 1) = DeployLeft(p, i) - 8
  BY <1>1, <1>2
<1>6. p < Profiles /\ i = Iterations => DeployLeft(p + 1, 0) = DeployLeft(p, i) - 2
  BY <1>0, <1>1, <1>2, <1>3
<1>. QED
  BY <1>4, <1>5, <1>6

-----------------------------------------------------------------------------
LEMMA CountKept ==
  ASSUME CountInv, count' = count,
         at'.stage = "deploy" /\ at'.step # "call" => at.stage = "deploy" /\ at.step # "call"
  PROVE  CountInv'
  BY DEF CountInv

LEMMA CountStep ==
  ASSUME TypeOK, PlaceInv, CountInv, [Next]_vars
  PROVE  CountInv'
<1>0. /\ at \in Position /\ count \in [iteration : Nat, measured : Nat, profile : Nat]
      /\ Iterations \in Nat /\ Profiles \in Nat
  BY IterationsNat DEF TypeOK
<1>. USE <1>0 DEF CountInv
<1>1. CASE Preflight
  <2>1. count' = count /\ at'.stage # "deploy"
    BY <1>1 DEF Position, Preflight, At, Enter
  <2>. QED
    BY <2>1, CountKept
<1>2. CASE EndPreflight
  <2>1. count' = count /\ (at'.stage # "deploy" \/ at'.step = "call")
    <3>1. CASE at.why = "done"
      BY <1>2, <3>1 DEF EndPreflight, Enter
    <3>2. CASE at.why # "done"
      BY <1>2, <3>2 DEF Position, EndPreflight, End
    <3>. QED
      BY <3>1, <3>2
  <2>. QED
    BY <2>1, CountKept
<1>3. CASE GenerateNative
  BY <1>3 DEF Position, GenerateNative, At, Reusable, Terminate
<1>4. CASE Grow
  BY <1>4 DEF Position, Grow, At
<1>5. CASE Answered
  <2>1. count' = count /\ at'.step = "call"
    <3>1. \/ Enter("suite")
          \/ at' = [at EXCEPT !.step = "call", !.cur = None, !.asked = @ + 1]
      BY <1>5, Zenon DEF Answered, NextCase, AskAgain
    <3>2. count' = count
      BY <1>5, Zenon DEF Answered
    <3>3. ASSUME Enter("suite") PROVE at'.step = "call"
      BY <3>3, Entering
    <3>4. ASSUME at' = [at EXCEPT !.step = "call", !.cur = None, !.asked = @ + 1]
          PROVE  at'.step = "call"
      BY <3>4 DEF Position
    <3>. QED
      BY <3>1, <3>2, <3>3, <3>4, Zenon
  <2>. QED
    BY <2>1, CountKept
<1>6. CASE CaseFails
  BY <1>6 DEF Position, CaseFails, At, NextCase, Enter
<1>7. CASE LeaveSuite
  BY <1>7 DEF Position, LeaveSuite, At, Terminate
<1>8. CASE EndSuite
  BY <1>8 DEF Position, EndSuite, At, Enter
<1>9. CASE EndCompletion
  <2>1. count' = count /\ (Enter("suite") \/ AskAgain)
    BY <1>9, Zenon DEF EndCompletion, EndTool, NextCase
  <2>. QED
    BY <2>1, AskingAgain, Entering, CountKept
<1>10. CASE EndPerplexity
  BY <1>10 DEF Position, EndPerplexity, At, EndTool, Enter
<1>11. CASE BeginIteration
  BY <1>11 DEF Position, BeginIteration, At, Iterations
<1>12. CASE IterationMeasured
  BY <1>12 DEF Position, IterationMeasured, At, Terminate
<1>13. CASE EndIteration
  BY <1>13 DEF Position, EndIteration, At, Enter
<1>14. CASE EndProfile
  <2>1. CASE count.measured = 0
    <3>1. count' = count /\ at'.step = "call"
      BY <1>14, <2>1 DEF Position, EndProfile, End
    <3>. QED
      BY <3>1, CountKept
  <2>2. CASE count.measured # 0
    <3>1. /\ at' = at /\ at.step = "call" /\ count.profile < Profiles
          /\ count'.profile = count.profile + 1 /\ count'.iteration = 0
      BY <1>14, <2>2 DEF EndProfile, At
    <3>. QED
      BY <3>1
  <2>. QED
    BY <2>1, <2>2
<1>15. CASE Return
  BY <1>15 DEF Position, Return, At, End
<1>16. CASE BecomesReady
  BY <1>16 DEF Position, BecomesReady, Goes, Terminate
<1>17. CASE WaitFails
  BY <1>17 DEF Position, WaitFails, Goes, Fails, Terminate
<1>18. CASE AskFails
  <2>1. count' = count /\ at'.stage # "deploy"
    <3>1. CASE engine[at.cur].state = "dead"
      BY <1>18, <3>1 DEF Position, AskFails, At, Terminate
    <3>2. CASE engine[at.cur].state # "dead"
      BY <1>18, <3>2 DEF AskFails, NextCase, Enter
    <3>. QED
      BY <3>1, <3>2
  <2>. QED
    BY <2>1, CountKept
<1>19. CASE IterationFails
  BY <1>19 DEF Position, IterationFails, At, Fails, Terminate
<1>20. CASE Reaped
  BY <1>20 DEF Position, Reaped, Goes
<1>21. CASE EndInterrupt
  BY <1>21 DEF Position, EndInterrupt, Goes, End
<1>22. ASSUME NEW e \in Engines, Launch(e) PROVE CountInv'
  BY <1>22 DEF Position, Launch, Goes
<1>23. ASSUME NEW e \in Engines, StartCompletion(e) PROVE CountInv'
  BY <1>23 DEF Position, StartCompletion, At, StartTool
<1>24. ASSUME NEW e \in Engines, StartPerplexity(e) PROVE CountInv'
  BY <1>24 DEF Position, StartPerplexity, At, StartTool
<1>25. CASE LaunchFails
  BY <1>25 DEF Position, LaunchFails, Goes, Fails, Terminate
<1>26. CASE OffloadUnproved
  BY <1>26 DEF Position, OffloadUnproved, Goes, Fails, Terminate
<1>27. CASE StopGivesUp
  BY <1>27 DEF Position, StopGivesUp, Goes, Ignored, CaseRaises, End
<1>28. CASE SuiteRaises
  BY <1>28 DEF Position, SuiteRaises, At
<1>29. ASSUME Interrupts, InterruptCall PROVE CountInv'
  <2>1. count' = count /\ at'.stage = at.stage
    BY <1>29 DEF Position, InterruptCall, Interrupts, Terminate
  <2>2. at.stage = "deploy" => at.step # "call"
    BY <1>29 DEF InterruptCall, PlaceInv
  <2>. QED
    BY <2>1, <2>2, CountKept
<1>30. ASSUME NEW e \in Engines, Interrupts, InterruptDocker(e) PROVE CountInv'
  BY <1>30 DEF Position, InterruptDocker, Interrupts
<1>31. ASSUME Interrupts, InterruptTool PROVE CountInv'
  BY <1>31 DEF Position, InterruptTool, Interrupts, End
<1>32. ASSUME Interrupts, InterruptStop PROVE CountInv'
  BY <1>32 DEF Position, InterruptStop, Interrupts, End
<1>33. ASSUME Interrupts, InterruptBetween PROVE CountInv'
  BY <1>33 DEF Position, InterruptBetween, Interrupts, End
<1>34. ASSUME NEW e \in Engines, EngineLoads(e) PROVE CountInv'
  BY <1>34 DEF Position, EngineLoads
<1>35. ASSUME NEW e \in Engines, EngineDies(e) PROVE CountInv'
  BY <1>35 DEF Position, EngineDies
<1>36. ASSUME NEW e \in Engines, EngineEnds(e) PROVE CountInv'
  BY <1>36 DEF Position, EngineEnds
<1>37. CASE UNCHANGED vars
  BY <1>37 DEF vars
<1>38. CASE CorpusFails
  <2>1. count' = count /\ at'.step = "call"
    BY <1>38, Entering DEF CorpusFails
  <2>. QED
    BY <2>1, CountKept
<1>. QED
  BY NextIsStep, <1>1, <1>2, <1>3, <1>4, <1>5, <1>6, <1>7, <1>8, <1>9,
     <1>10, <1>11, <1>12, <1>13, <1>14, <1>15, <1>16, <1>17, <1>18, <1>19,
     <1>20, <1>21, <1>22, <1>23, <1>24, <1>25, <1>26, <1>27, <1>28, <1>29,
     <1>30, <1>31, <1>32, <1>33, <1>34, <1>35, <1>36, <1>37, <1>38 DEF AnyStep

-----------------------------------------------------------------------------
(* The four ways to come nearer.                                           *)

Running == outcome = "running" /\ outcome' = "running"

Nearer == outcome = "running" => RunLeft' < RunLeft \/ UNCHANGED <<at, cases, count, outcome>>

\* The three parts of the distance.
SLeft == StageLeft(at.stage, at.asked, Len(cases))
CLeft == CallLeft(at.step, at.why)
PLeft == DeployLeft(count.profile, count.iteration)

LEMMA LeftIs ==
  ASSUME TypeOK, CountInv
  PROVE  /\ SLeft \in Nat
         /\ CLeft \in 1 .. 8
         /\ PLeft \in Nat
         /\ RunLeft \in Nat
         /\ RunLeft = 0 <=> outcome # "running"
<1>1. at \in Position /\ at.stage \in Stage /\ at.step \in Step /\ at.asked \in 0 .. Asks - 1
  BY DEF TypeOK, Position
<1>2. Len(cases) \in Nat
  BY DEF TypeOK
<1>3. count.profile \in Nat /\ count.iteration \in Nat
  BY DEF TypeOK
<1>4. SLeft \in Nat
  BY <1>1, <1>2, StageNat DEF SLeft
<1>5. CLeft \in 1 .. 8
  BY <1>1, CallIs DEF CLeft
<1>6. PLeft \in Nat
  BY <1>3, DeployIs DEF CountInv, PLeft
<1>7. outcome = "running" => RunLeft = SLeft + CLeft + PLeft
  BY Zenon DEF RunLeft, SLeft, CLeft, PLeft
<1>8. outcome # "running" => RunLeft = 0
  BY Zenon DEF RunLeft
<1>. QED
  BY <1>4, <1>5, <1>6, <1>7, <1>8

LEMMA LeftIsNext ==
  ASSUME TypeOK', CountInv'
  PROVE  SLeft' \in Nat /\ CLeft' \in 1 .. 8 /\ PLeft' \in Nat
<1>1. at' \in Position /\ at'.stage \in Stage /\ at'.step \in Step /\ at'.asked \in 0 .. Asks - 1
  BY DEF TypeOK, Position
<1>2. Len(cases') \in Nat
  BY DEF TypeOK
<1>3. count'.profile \in Nat /\ count'.iteration \in Nat
  BY DEF TypeOK
<1>4. SLeft' \in Nat
  BY <1>1, <1>2, StageNat DEF SLeft
<1>5. CLeft' \in 1 .. 8
  BY <1>1, CallIs DEF CLeft
<1>6. PLeft' \in Nat
  BY <1>3, DeployIs DEF CountInv, PLeft
<1>. QED
  BY <1>4, <1>5, <1>6

\* The distance before and after a step of a running run.
LEMMA Sums ==
  ASSUME Running
  PROVE  RunLeft = SLeft + CLeft + PLeft /\ RunLeft' = SLeft' + CLeft' + PLeft'
  BY Zenon DEF Running, RunLeft, SLeft, CLeft, PLeft

\* A step of which the three parts together go down.
LEMMA SumDrops ==
  ASSUME TypeOK, CountInv, TypeOK', CountInv', Running,
         SLeft' + CLeft' + PLeft' < SLeft + CLeft + PLeft
  PROVE  Nearer
  BY Sums DEF Nearer

\* What a stage loses in one case covers any call.
LEMMA EightLess ==
  ASSUME NEW s \in Nat, NEW t \in Nat, NEW c \in 1 .. 8, NEW d \in 1 .. 8,
         NEW p \in Nat, NEW q \in Nat, t + 8 <= s, q = p
  PROVE  t + d + q < s + c + p
  OBVIOUS

\* One completion less to ask for is a call less in the distance.
LEMMA OneLess ==
  ASSUME NEW c \in Nat, NEW a \in Nat, NEW d \in Nat, NEW b \in Nat, (d - b) + 1 <= c - a
  PROVE  (24 + 8 * (d - b)) + 8 <= 24 + 8 * (c - a)
  OBVIOUS

\* The run ends.
LEMMA Ended ==
  ASSUME TypeOK, CountInv, outcome' # "running"
  PROVE  Nearer
<1>1. RunLeft' = 0
  BY DEF RunLeft
<1>. QED
  BY <1>1, LeftIs DEF Nearer

\* Within a call.
LEMMA CallGoesOn ==
  ASSUME TypeOK, CountInv, TypeOK', CountInv', Running,
         at'.stage = at.stage, at'.asked = at.asked, cases' = cases, count' = count,
         CLeft' < CLeft
  PROVE  Nearer
<1>1. SLeft' = SLeft /\ PLeft' = PLeft
  BY Zenon DEF SLeft, PLeft
<1>. QED
  BY <1>1, LeftIs, LeftIsNext, SumDrops

\* A case is done with, or is asked for again.
LEMMA CaseGoesOn ==
  ASSUME TypeOK, CountInv, TypeOK', CountInv', Running,
         at.stage = "suite", at'.stage = "suite", count' = count,
         at.step # "call",
         \/ cases # <<>> /\ cases' = Tail(cases) /\ at'.asked = 0
         \/ Len(cases') = Len(cases) /\ at'.asked = at.asked + 1 /\ at.step \in {"ask", "tool"}
  PROVE  Nearer
<1>1. Len(cases) \in Nat /\ Len(cases') \in Nat
  BY DEF TypeOK
<1>2. at.asked \in 0 .. Asks - 1 /\ Asks \in Nat \ {0}
  BY EngineAssumption DEF TypeOK, Position
<1>3. SLeft = 24 + 8 * (Completions(Len(cases)) - at.asked)
      /\ SLeft' = 24 + 8 * (Completions(Len(cases')) - at'.asked)
  BY StageIs, Zenon DEF SLeft
<1>4. PLeft' = PLeft
  BY Zenon DEF PLeft
<1>5. CASE cases # <<>> /\ cases' = Tail(cases) /\ at'.asked = 0
  <2>1. Len(cases) = Len(cases') + 1
    BY <1>5 DEF TypeOK
  <2>2. /\ Completions(Len(cases')) \in Nat
        /\ Completions(Len(cases)) = Completions(Len(cases')) + Asks
    BY <1>1, <2>1, CompletionsIs
  <2>3. /\ Completions(Len(cases)) \in Nat
        /\ (Completions(Len(cases')) - 0) + 1 <= Completions(Len(cases)) - at.asked
    BY <1>2, <2>2
  <2>4. at.asked \in Nat /\ 0 \in Nat
    BY <1>2
  <2>5. SLeft' + 8 <= SLeft
    BY <1>3, <1>5, <2>2, <2>3, <2>4, OneLess, Zenon
  <2>6. CLeft \in 1 .. 8 /\ CLeft' \in 1 .. 8 /\ PLeft \in Nat /\ SLeft \in Nat /\ SLeft' \in Nat
    BY LeftIs, LeftIsNext
  <2>7. SLeft' + CLeft' + PLeft' < SLeft + CLeft + PLeft
    BY <1>4, <2>5, <2>6, EightLess, Zenon
  <2>. QED
    BY <2>7, SumDrops
<1>6. CASE Len(cases') = Len(cases) /\ at'.asked = at.asked + 1 /\ at.step \in {"ask", "tool"}
  <2>1. Completions(Len(cases)) \in Nat /\ Completions(Len(cases')) = Completions(Len(cases))
    BY <1>1, <1>6, CompletionsIs
  <2>2. /\ at.asked \in Nat /\ at'.asked \in Nat
        /\ (Completions(Len(cases')) - at'.asked) + 1 <= Completions(Len(cases)) - at.asked
    BY <1>2, <1>6, <2>1
  <2>3. SLeft' + 8 <= SLeft
    BY <1>3, <2>1, <2>2, OneLess, Zenon
  <2>4. CLeft \in 1 .. 8
    BY LeftIs
  <2>5. CLeft' \in 1 .. 8 /\ PLeft \in Nat /\ SLeft \in Nat /\ SLeft' \in Nat
    BY LeftIs, LeftIsNext
  <2>6. SLeft' + CLeft' + PLeft' < SLeft + CLeft + PLeft
    BY <1>4, <2>3, <2>4, <2>5, EightLess, Zenon
  <2>. QED
    BY <2>6, SumDrops
<1>. QED
  BY <1>5, <1>6

\* What asking again does to the case and the position.
LEMMA AskedAgain ==
  ASSUME TypeOK, cases # <<>>, AskAgain
  PROVE  /\ Len(cases') = Len(cases)
         /\ at'.asked = at.asked + 1 /\ at'.stage = at.stage
<1>1. at \in Position /\ cases \in Seq(Nat)
  BY DEF TypeOK
<1>2. Len(cases') = Len(cases)
  BY <1>1 DEF AskAgain
<1>3. at'.asked = at.asked + 1 /\ at'.stage = at.stage
  BY <1>1, AskingAgain
<1>. QED
  BY <1>2, <1>3

\* The next stage is entered.
LEMMA StageGoesOn ==
  ASSUME TypeOK, CountInv, TypeOK', CountInv', Running,
         cases' = cases, count' = count, at'.step = "call", at'.asked = 0,
         \/ at.stage = "preflight" /\ at'.stage = "suite"
         \/ at.stage = "suite" /\ at'.stage = "fidelity"
         \/ at.stage = "fidelity" /\ at'.stage = "deploy"
  PROVE  Nearer
<1>1. Len(cases) \in Nat
  BY DEF TypeOK
<1>2. at.asked \in 0 .. Asks - 1 /\ Asks \in Nat \ {0}
  BY EngineAssumption DEF TypeOK, Position
<1>3. CLeft' = 8
  BY CallIs DEF Step, CLeft
<1>4. PLeft' = PLeft
  BY Zenon DEF PLeft
<1>5. SLeft = StageLeft(at.stage, at.asked, Len(cases))
      /\ SLeft' = StageLeft(at'.stage, 0, Len(cases))
  BY Zenon DEF SLeft
<1>6. Completions(Len(cases)) \in Nat /\ Completions(Len(cases)) >= Asks
  BY <1>1, CompletionsIs
<1>7. SLeft' + 8 <= SLeft
  <2>1. CASE at.stage = "preflight" /\ at'.stage = "suite"
    <3>1. SLeft' = 24 + 8 * (Completions(Len(cases)) - 0)
      BY <1>5, <2>1, StageIs
    <3>2. SLeft = 32 + 8 * Completions(Len(cases))
      BY <1>5, <2>1, StageIs
    <3>. QED
      BY <1>6, <3>1, <3>2
  <2>2. CASE at.stage = "suite" /\ at'.stage = "fidelity"
    <3>1. SLeft' = 8
      BY <1>5, <2>2, StageIs
    <3>2. SLeft = 24 + 8 * (Completions(Len(cases)) - at.asked)
      BY <1>5, <2>2, StageIs
    <3>. QED
      BY <1>2, <1>6, <3>1, <3>2
  <2>3. CASE at.stage = "fidelity" /\ at'.stage = "deploy"
    <3>1. SLeft' = 0 /\ SLeft = 8
      BY <1>5, <2>3, StageIs
    <3>. QED
      BY <3>1
  <2>. QED
    BY <2>1, <2>2, <2>3
<1>. QED
  BY <1>3, <1>4, <1>7, LeftIs, LeftIsNext, SumDrops

\* An iteration or a profile is done with.
LEMMA DeployGoesOn ==
  ASSUME TypeOK, CountInv, TypeOK', CountInv', EndIteration \/ EndProfile
  PROVE  Nearer
<1>0. at \in Position /\ count \in [iteration : Nat, measured : Nat, profile : Nat]
  BY DEF TypeOK
<1>1. CASE EndIteration
  <2>1. /\ Running /\ cases' = cases
        /\ at.stage = "deploy" /\ at'.stage = "deploy" /\ at.step = "stopped" /\ at'.step = "call"
        /\ count'.profile = count.profile /\ count'.iteration = count.iteration + 1
    BY <1>0, <1>1 DEF Running, EndIteration, At, Enter
  <2>2. PLeft' = PLeft - 8
    BY <1>0, <2>1, DeployIs DEF CountInv, PLeft
  <2>3. SLeft' = 0 /\ SLeft = 0
    BY <2>1 DEF StageLeft, SLeft
  <2>. QED
    BY <2>1, <2>2, <2>3, LeftIs, LeftIsNext, SumDrops
<1>2. CASE EndProfile
  <2>1. CASE count.measured = 0
    <3>1. outcome' # "running"
      BY <1>2, <2>1 DEF EndProfile, End
    <3>. QED
      BY <3>1, Ended
  <2>2. CASE count.measured # 0
    <3>1. /\ Running /\ cases' = cases /\ at' = at
          /\ count.profile < Profiles /\ count.iteration = Iterations
          /\ count'.profile = count.profile + 1 /\ count'.iteration = 0
      BY <1>0, <1>2, <2>2 DEF Running, EndProfile, At, Iterations
    <3>2. PLeft' = PLeft - 2
      BY <1>0, <3>1, DeployIs DEF CountInv, PLeft
    <3>3. SLeft' = SLeft /\ CLeft' = CLeft
      BY <3>1, Zenon DEF SLeft, CLeft
    <3>. QED
      BY <3>1, <3>2, <3>3, LeftIs, LeftIsNext, SumDrops
  <2>. QED
    BY <2>1, <2>2
<1>. QED
  BY <1>1, <1>2

\* What a step within a call looks like.
Onward ==
    \/ at.step = "call" /\ at'.step \in {"launch", "ask", "tool", "reap"}
    \/ at.step = "launch" /\ at'.step = "wait"
    \/ at.step = "wait" /\ at'.step = "ask"
    \/ at.step \in {"launch", "wait", "ask"} /\ at'.step = "reap" /\ at'.why # "grow"
    \/ at.step = "reap" /\ at'.step = "stopped" /\ at'.why \in {at.why, "error"}
    \/ at.step = "stopped" /\ at.why = "grow" /\ at'.step = "launch"

SameCall ==
    at'.stage = at.stage /\ at'.asked = at.asked /\ cases' = cases /\ count' = count

LEMMA OnwardIsNearer ==
  ASSUME TypeOK, CountInv, TypeOK', CountInv', Running, SameCall, Onward
  PROVE  Nearer
<1>1. at.step \in Step /\ at'.step \in Step
  BY DEF TypeOK, Position
<1>. DEFINE C == CLeft
            D == CLeft'
<1>2. /\ C \in 1 .. 8 /\ D \in 1 .. 8
      /\ at.step = "call" => C = 8
      /\ at.step = "launch" => C = 5
      /\ at.step = "wait" => C = 4
      /\ at.step = "ask" => C = 3
      /\ at.step = "reap" /\ at.why = "grow" => C = 7
      /\ at.step = "reap" /\ at.why # "grow" => C = 2
      /\ at.step = "stopped" /\ at.why = "grow" => C = 6
  BY <1>1, CallIs DEF CLeft
<1>3. /\ at'.step = "launch" => D = 5
      /\ at'.step = "wait" => D = 4
      /\ at'.step \in {"ask", "tool"} => D = 3
      /\ at'.step = "reap" /\ at'.why = "grow" => D = 7
      /\ at'.step = "reap" /\ at'.why # "grow" => D = 2
      /\ at'.step = "stopped" /\ at'.why = "grow" => D = 6
      /\ at'.step = "stopped" /\ at'.why # "grow" => D = 1
  BY <1>1, CallIs DEF CLeft
<1>. HIDE DEF C, D
<1>4. D < C
  BY <1>2, <1>3 DEF Onward
<1>. QED
  BY <1>4, CallGoesOn DEF SameCall, C, D

\* Telling an engine to end stays within the call.
LEMMA StopIsOnward ==
  ASSUME TypeOK, NEW e, NEW why, Terminate(e, why)
  PROVE  /\ at'.stage = at.stage /\ at'.asked = at.asked
         /\ at'.step = "reap" /\ at'.why = why
<1>1. at \in Position /\ at' = [at EXCEPT !.step = "reap", !.cur = e, !.why = why]
  BY DEF TypeOK, Terminate
<1>. QED
  BY <1>1 DEF Position

\* A suite that raises forgets the cases it has still to ask for.
LEMMA SuiteGoesOn ==
  ASSUME TypeOK, CountInv, TypeOK', CountInv', SuiteRaises
  PROVE  Nearer
<1>1. /\ outcome = "running" /\ outcome' = "running" /\ at.stage = "suite"
      /\ at' = at /\ count' = count /\ cases # <<>> /\ cases' = <<>>
  BY DEF SuiteRaises, At
<1>2. Len(cases) - 1 \in Nat /\ (Len(cases) - 1) + 1 = Len(cases) /\ Len(cases') = 0
  BY <1>1 DEF TypeOK
<1>3. at.asked \in 0 .. Asks - 1 /\ Asks \in Nat \ {0}
  BY EngineAssumption DEF TypeOK, Position
<1>4. SLeft = 24 + 8 * (Completions(Len(cases)) - at.asked)
      /\ SLeft' = 24 + 8 * (Completions(Len(cases')) - at.asked)
  BY <1>1, StageIs, Zenon DEF SLeft
<1>5. CLeft' = CLeft /\ PLeft' = PLeft
  BY <1>1, Zenon DEF CLeft, PLeft
<1>6. /\ Completions(Len(cases) - 1) \in Nat /\ Completions(Len(cases) - 1) >= Asks
      /\ Completions((Len(cases) - 1) + 1) = Completions(Len(cases) - 1) + Asks
      /\ Completions(0) = Asks
  BY <1>2, CompletionsIs
<1>7. /\ Completions(Len(cases)) = Completions(Len(cases) - 1) + Asks
      /\ Completions(Len(cases')) = Asks
  BY <1>2, <1>6
<1>8. /\ at.asked \in Nat /\ Completions(Len(cases)) \in Nat /\ Completions(Len(cases')) \in Nat
      /\ (Completions(Len(cases')) - at.asked) + 1 <= Completions(Len(cases)) - at.asked
  BY <1>3, <1>6, <1>7
<1>9. SLeft' + 8 <= SLeft
  BY <1>4, <1>8, OneLess, Zenon
<1>. QED
  BY <1>1, <1>5, <1>9, LeftIs, LeftIsNext, SumDrops DEF Running

LEMMA NearerStep ==
  ASSUME TypeOK, PlaceInv, CountInv, TypeOK', CountInv', [Next]_vars
  PROVE  Nearer
<1>0. at \in Position
  BY DEF TypeOK
<1>1. CASE Preflight
  <2>1. CASE mode = "native"
    <3>1. Running /\ SameCall /\ at.step = "call" /\ at'.step = "launch"
      BY <1>0, <1>1, <2>1 DEF Running, SameCall, Position, Preflight, At
    <3>. QED
      BY <3>1, OnwardIsNearer DEF Onward
  <2>2. CASE mode # "native"
    <3>1. Running /\ Enter("suite") /\ at.stage = "preflight" /\ cases' = cases /\ count' = count
      BY <1>1, <2>2, Zenon DEF Running, Preflight, At
    <3>. QED
      BY <3>1, StageGoesOn DEF Enter
  <2>. QED
    BY <2>1, <2>2
<1>2. CASE EndPreflight
  <2>1. CASE at.why = "done"
    <3>1. Running /\ Enter("suite") /\ at.stage = "preflight" /\ cases' = cases /\ count' = count
      BY <1>2, <2>1, Zenon DEF Running, EndPreflight, At
    <3>. QED
      BY <3>1, StageGoesOn DEF Enter
  <2>2. CASE at.why # "done"
    <3>1. outcome' # "running"
      BY <1>2, <2>2 DEF EndPreflight, End
    <3>. QED
      BY <3>1, Ended
  <2>. QED
    BY <2>1, <2>2
<1>3. CASE GenerateNative
  <2>1. Running /\ cases' = cases /\ count' = count /\ at.step = "call"
    BY <1>3, Zenon DEF Running, GenerateNative, At
  <2>2. \/ at' = [at EXCEPT !.step = "ask", !.cur = session]
        \/ Terminate(session, "grow")
        \/ at' = [at EXCEPT !.step = "launch", !.cur = None]
    BY <1>3, Zenon DEF GenerateNative
  <2>3. CASE at' = [at EXCEPT !.step = "ask", !.cur = session]
    BY <1>0, <2>1, <2>3, OnwardIsNearer DEF SameCall, Onward, Position
  <2>4. CASE Terminate(session, "grow")
    <3>1. SameCall /\ at'.step = "reap"
      BY <2>1, <2>4, StopIsOnward DEF SameCall
    <3>. QED
      BY <2>1, <3>1, OnwardIsNearer DEF Onward
  <2>5. CASE at' = [at EXCEPT !.step = "launch", !.cur = None]
    BY <1>0, <2>1, <2>5, OnwardIsNearer DEF SameCall, Onward, Position
  <2>. QED
    BY <2>2, <2>3, <2>4, <2>5
<1>4. CASE Grow
  <2>1. Running /\ SameCall /\ at.step = "stopped" /\ at.why = "grow" /\ at'.step = "launch"
    BY <1>0, <1>4 DEF Running, SameCall, Position, Grow, At
  <2>. QED
    BY <2>1, OnwardIsNearer DEF Onward
<1>5. CASE Answered
  <2>1. /\ Running /\ count' = count /\ at.stage = "suite" /\ at.step = "ask" /\ cases # <<>>
        /\ NextCase \/ AskAgain
    BY <1>5, Zenon DEF Running, Answered, At, PlaceInv
  <2>2. CASE NextCase
    BY <2>1, <2>2, CaseGoesOn DEF NextCase, Enter
  <2>3. CASE AskAgain
    BY <2>1, <2>3, AskedAgain, CaseGoesOn
  <2>. QED
    BY <2>1, <2>2, <2>3
<1>6. CASE CaseFails
  <2>1. Running /\ count' = count /\ at.stage = "suite" /\ at.step = "stopped" /\ cases # <<>> /\ NextCase
    BY <1>6 DEF Running, PlaceInv, CaseFails, Failing, At
  <2>. QED
    BY <2>1, CaseGoesOn DEF NextCase, Enter
<1>7. CASE LeaveSuite
  <2>1. Terminate(session, "done") /\ Running /\ cases' = cases /\ count' = count
        /\ at.step \in {"launch", "wait", "ask", "call"}
    BY <1>7, Zenon DEF Running, LeaveSuite, At
  <2>2. SameCall /\ at'.step = "reap" /\ at'.why = "done"
    BY <2>1, StopIsOnward DEF SameCall
  <2>. QED
    BY <2>1, <2>2, OnwardIsNearer DEF Onward
<1>8. CASE EndSuite
  <2>1. Running /\ Enter("fidelity") /\ at.stage = "suite" /\ cases' = cases /\ count' = count
    BY <1>8, Zenon DEF Running, EndSuite, At
  <2>. QED
    BY <2>1, StageGoesOn DEF Enter
<1>9. CASE EndCompletion
  <2>1. /\ Running /\ count' = count /\ at.stage = "suite" /\ at.step = "tool" /\ cases # <<>>
        /\ NextCase \/ AskAgain
    BY <1>9, Zenon DEF Running, PlaceInv, EndCompletion, EndTool, At
  <2>2. CASE NextCase
    BY <2>1, <2>2, CaseGoesOn DEF NextCase, Enter
  <2>3. CASE AskAgain
    BY <2>1, <2>3, AskedAgain, CaseGoesOn
  <2>. QED
    BY <2>1, <2>2, <2>3
<1>10. CASE EndPerplexity
  <2>1. Running /\ Enter("deploy") /\ at.stage = "fidelity" /\ cases' = cases /\ count' = count
    BY <1>10, Zenon DEF Running, EndPerplexity, EndTool, At
  <2>. QED
    BY <2>1, StageGoesOn DEF Enter
<1>11. CASE BeginIteration
  <2>1. Running /\ SameCall /\ at.step = "call" /\ at'.step = "launch"
    BY <1>0, <1>11 DEF Running, SameCall, Position, BeginIteration, At
  <2>. QED
    BY <2>1, OnwardIsNearer DEF Onward
<1>12. CASE IterationMeasured
  <2>1. Terminate(at.cur, "done") /\ Running /\ cases' = cases /\ at.step = "ask"
    BY <1>12, Zenon DEF Running, IterationMeasured, At
  <2>2. count'.profile = count.profile /\ count'.iteration = count.iteration
    BY <1>12 DEF IterationMeasured, TypeOK
  <2>3. at'.stage = at.stage /\ at'.asked = at.asked /\ at'.step = "reap" /\ at'.why = "done"
    BY <2>1, StopIsOnward
  <2>4. CLeft = 3 /\ CLeft' = 2
    BY <2>1, <2>3, CallIs DEF Step, CLeft
  <2>5. SLeft' = SLeft /\ PLeft' = PLeft
    BY <2>1, <2>2, <2>3, Zenon DEF SLeft, PLeft
  <2>. QED
    BY <2>1, <2>4, <2>5, LeftIs, LeftIsNext, SumDrops
<1>13. CASE EndIteration
  BY <1>13, DeployGoesOn
<1>14. CASE EndProfile
  BY <1>14, DeployGoesOn
<1>15. CASE Return
  <2>1. outcome' # "running"
    BY <1>15 DEF Return, End
  <2>. QED
    BY <2>1, Ended
<1>16. CASE BecomesReady
  <2>1. CASE at.stage = "preflight"
    <3>1. Terminate(at.cur, "done") /\ Running /\ cases' = cases /\ count' = count /\ at.step = "wait"
      BY <1>16, <2>1, Zenon DEF Running, BecomesReady, Goes
    <3>2. SameCall /\ at'.step = "reap" /\ at'.why = "done"
      BY <3>1, StopIsOnward DEF SameCall
    <3>. QED
      BY <3>1, <3>2, OnwardIsNearer DEF Onward
  <2>2. CASE at.stage # "preflight"
    <3>1. Running /\ SameCall /\ at.step = "wait" /\ at'.step = "ask"
      BY <1>0, <1>16, <2>2 DEF Running, SameCall, Position, BecomesReady, Goes
    <3>. QED
      BY <3>1, OnwardIsNearer DEF Onward
  <2>. QED
    BY <2>1, <2>2
<1>17. CASE WaitFails
  <2>1. Terminate(at.cur, "error") /\ Running /\ cases' = cases /\ count' = count
        /\ at.step \in {"launch", "wait", "ask", "call"}
    BY <1>17, Zenon DEF Running, WaitFails, Fails, Goes, At
  <2>2. SameCall /\ at'.step = "reap" /\ at'.why = "error"
    BY <2>1, StopIsOnward DEF SameCall
  <2>. QED
    BY <2>1, <2>2, OnwardIsNearer DEF Onward
<1>18. CASE AskFails
  <2>1. CASE engine[at.cur].state = "dead"
    <3>1. Terminate(at.cur, "error") /\ Running /\ cases' = cases /\ count' = count /\ at.step = "ask"
      BY <1>18, <2>1, Zenon DEF Running, AskFails, At
    <3>2. SameCall /\ at'.step = "reap" /\ at'.why = "error"
      BY <3>1, StopIsOnward DEF SameCall
    <3>. QED
      BY <3>1, <3>2, OnwardIsNearer DEF Onward
  <2>2. CASE engine[at.cur].state # "dead"
    <3>1. Running /\ count' = count /\ at.stage = "suite" /\ at.step = "ask" /\ cases # <<>> /\ NextCase
      BY <1>18, <2>2 DEF Running, AskFails, At, PlaceInv
    <3>. QED
      BY <3>1, CaseGoesOn DEF NextCase, Enter
  <2>. QED
    BY <2>1, <2>2
<1>19. CASE IterationFails
  <2>1. Terminate(at.cur, "error") /\ Running /\ cases' = cases /\ count' = count
        /\ at.step \in {"launch", "wait", "ask", "call"}
    BY <1>19, Zenon DEF Running, IterationFails, Fails, Goes, At
  <2>2. SameCall /\ at'.step = "reap" /\ at'.why = "error"
    BY <2>1, StopIsOnward DEF SameCall
  <2>. QED
    BY <2>1, <2>2, OnwardIsNearer DEF Onward
<1>20. CASE Reaped
  <2>1. Running /\ SameCall /\ at.step = "reap" /\ at'.step = "stopped" /\ at'.why = at.why
    BY <1>0, <1>20 DEF Running, SameCall, Position, Reaped, Goes
  <2>. QED
    BY <2>1, OnwardIsNearer DEF Onward
<1>21. CASE EndInterrupt
  <2>1. outcome' # "running"
    BY <1>21 DEF EndInterrupt, End
  <2>. QED
    BY <2>1, Ended
<1>22. ASSUME NEW e \in Engines, Launch(e) PROVE Nearer
  <2>1. Running /\ SameCall /\ at.step = "launch" /\ at'.step = "wait"
    BY <1>0, <1>22 DEF Running, SameCall, Position, Launch, Goes
  <2>. QED
    BY <2>1, OnwardIsNearer DEF Onward
<1>23. ASSUME NEW e \in Engines, StartCompletion(e) PROVE Nearer
  <2>1. Running /\ SameCall /\ at.step = "call" /\ at'.step = "tool"
    BY <1>0, <1>23 DEF Running, SameCall, Position, StartCompletion, StartTool, At
  <2>. QED
    BY <2>1, OnwardIsNearer DEF Onward
<1>24. ASSUME NEW e \in Engines, StartPerplexity(e) PROVE Nearer
  <2>1. Running /\ SameCall /\ at.step = "call" /\ at'.step = "tool"
    BY <1>0, <1>24 DEF Running, SameCall, Position, StartPerplexity, StartTool, At
  <2>. QED
    BY <2>1, OnwardIsNearer DEF Onward
<1>25. CASE LaunchFails
  <2>1. Terminate(at.cur, "error") /\ Running /\ cases' = cases /\ count' = count
        /\ at.step \in {"launch", "wait", "ask", "call"}
    BY <1>25, Zenon DEF Running, LaunchFails, Fails, Goes, At
  <2>2. SameCall /\ at'.step = "reap" /\ at'.why = "error"
    BY <2>1, StopIsOnward DEF SameCall
  <2>. QED
    BY <2>1, <2>2, OnwardIsNearer DEF Onward
<1>26. CASE OffloadUnproved
  <2>1. Terminate(at.cur, "error") /\ Running /\ cases' = cases /\ count' = count
        /\ at.step \in {"launch", "wait", "ask", "call"}
    BY <1>26, Zenon DEF Running, OffloadUnproved, Fails, Goes, At
  <2>2. SameCall /\ at'.step = "reap" /\ at'.why = "error"
    BY <2>1, StopIsOnward DEF SameCall
  <2>. QED
    BY <2>1, <2>2, OnwardIsNearer DEF Onward
<1>27. CASE StopGivesUp
  <2>1. outcome = "running" /\ at.step = "reap" /\ cases' = cases /\ count' = count
        /\ (Ignored \/ CaseRaises \/ End("raised"))
    BY <1>27, Zenon DEF StopGivesUp, Goes
  <2>2. CASE Ignored
    <3>1. Running /\ SameCall /\ at'.step = "stopped" /\ at'.why = at.why
      BY <1>0, <2>1, <2>2 DEF Running, SameCall, Position, Ignored
    <3>. QED
      BY <2>1, <3>1, OnwardIsNearer DEF Onward
  <2>3. CASE CaseRaises
    <3>1. Running /\ SameCall /\ at'.step = "stopped" /\ at'.why = "error"
      BY <1>0, <2>1, <2>3 DEF Running, SameCall, Position, CaseRaises
    <3>. QED
      BY <2>1, <3>1, OnwardIsNearer DEF Onward
  <2>4. CASE End("raised")
    <3>1. outcome' # "running"
      BY <2>4 DEF End
    <3>. QED
      BY <3>1, Ended
  <2>. QED
    BY <2>1, <2>2, <2>3, <2>4
<1>28. CASE SuiteRaises
  BY <1>28, SuiteGoesOn
<1>29. ASSUME Interrupts, InterruptCall PROVE Nearer
  <2>1. /\ Terminate(IF session # None THEN session ELSE at.cur,
                     IF at.stage = "suite" /\ session = None THEN "abort" ELSE "interrupt")
        /\ Running /\ cases' = cases /\ count' = count
        /\ at.step \in {"launch", "wait", "ask", "call"}
    BY <1>29 DEF Running, Interrupts, InterruptCall
  <2>2. SameCall /\ at'.step = "reap" /\ at'.why # "grow"
    BY <2>1, StopIsOnward DEF SameCall
  <2>. QED
    BY <2>1, <2>2, OnwardIsNearer DEF Onward
<1>30. ASSUME NEW e \in Engines, Interrupts, InterruptDocker(e) PROVE Nearer
  <2>1. Running /\ SameCall /\ at.step = "launch" /\ at'.step = "reap" /\ at'.why # "grow"
    BY <1>0, <1>30 DEF Running, SameCall, Position, Interrupts, InterruptDocker
  <2>. QED
    BY <2>1, OnwardIsNearer DEF Onward
<1>31. ASSUME Interrupts, InterruptTool PROVE Nearer
  <2>1. outcome' # "running"
    BY <1>31 DEF InterruptTool, End
  <2>. QED
    BY <2>1, Ended
<1>32. ASSUME Interrupts, InterruptStop PROVE Nearer
  <2>1. outcome' # "running"
    BY <1>32 DEF InterruptStop, End
  <2>. QED
    BY <2>1, Ended
<1>33. ASSUME Interrupts, InterruptBetween PROVE Nearer
  <2>1. outcome' # "running"
    BY <1>33 DEF InterruptBetween, End
  <2>. QED
    BY <2>1, Ended
<1>34. ASSUME NEW e \in Engines, EngineLoads(e) PROVE Nearer
  BY <1>34, Zenon DEF EngineLoads, Nearer
<1>35. ASSUME NEW e \in Engines, EngineDies(e) PROVE Nearer
  BY <1>35, Zenon DEF EngineDies, Nearer
<1>36. ASSUME NEW e \in Engines, EngineEnds(e) PROVE Nearer
  BY <1>36, Zenon DEF EngineEnds, Nearer
<1>37. CASE UNCHANGED vars
  BY <1>37, Zenon DEF vars, Nearer
<1>38. CASE CorpusFails
  <2>1. Running /\ Enter("deploy") /\ at.stage = "fidelity" /\ cases' = cases /\ count' = count
    BY <1>38, Zenon DEF Running, CorpusFails, At
  <2>. QED
    BY <2>1, StageGoesOn DEF Enter
<1>. QED
  BY NextIsStep, <1>1, <1>2, <1>3, <1>4, <1>5, <1>6, <1>7, <1>8, <1>9,
     <1>10, <1>11, <1>12, <1>13, <1>14, <1>15, <1>16, <1>17, <1>18, <1>19,
     <1>20, <1>21, <1>22, <1>23, <1>24, <1>25, <1>26, <1>27, <1>28, <1>29,
     <1>30, <1>31, <1>32, <1>33, <1>34, <1>35, <1>36, <1>37, <1>38 DEF AnyStep

LEMMA CountSafe == Spec => []CountInv
<1>1. Init => CountInv
  <2>. SUFFICES ASSUME Init PROVE CountInv
    OBVIOUS
  <2>. QED
    BY IterationsNat DEF Init, CountInv
<1>2. IInv /\ CountInv /\ [Next]_vars => CountInv'
  BY CountStep DEF IInv
<1>. QED
  BY <1>1, <1>2, Inductive, PTL DEF Spec

\* The distance from the end of a run is a number, and zero exactly at its
\* end, for any suites, profiles and iterations.
THEOREM DistanceSafe == Spec => []RunLeftIsCount
<1>1. IInv /\ CountInv => RunLeftIsCount
  BY LeftIs DEF IInv, RunLeftIsCount
<1>. QED
  BY <1>1, Inductive, CountSafe, PTL

\* Every step of the adapter brings its run nearer the end
\* (adapters/llama_cpp.py), and no step of an engine takes it away from it:
\* with DistanceSafe, what RunEnds rests on besides fairness.
THEOREM ShrinkSafe == Spec => RunShrinks
<1>1. (IInv /\ CountInv) /\ (IInv /\ CountInv)' /\ [Next]_vars
          => (outcome = "running" =>
                  RunLeft' < RunLeft \/ UNCHANGED <<at, cases, count, outcome>>)
  BY NearerStep DEF IInv, Nearer
<1>2. (IInv /\ CountInv) /\ (IInv /\ CountInv)' /\ [Next]_vars
          => [outcome = "running" =>
                  RunLeft' < RunLeft \/ UNCHANGED <<at, cases, count, outcome>>]_vars
  BY <1>1
<1>. QED
  BY <1>2, Inductive, CountSafe, PTL DEF Spec, RunShrinks
=============================================================================
