--------------------------- MODULE CaseCheckpoint ---------------------------
(***************************************************************************)
(* One capability benchmark of a run directory (capabilities.py): its      *)
(* append-only case-checkpoint.jsonl, predictions.jsonl and summary.json,  *)
(* through attempts that are killed, fail or are made by another version   *)
(* of the Runner, until the run completes and drops the checkpoint.        *)
(*                                                                         *)
(* The lines of the checkpoint that a reader reaches are a map from cases  *)
(* to records.  The last line may differ from the others: "torn" when it   *)
(* cannot be parsed, "open" when it is a whole record that lost its        *)
(* newline.  A record appended to an open line makes one unreadable line   *)
(* of both ("merged"), and hides every line after it.                      *)
(***************************************************************************)
EXTENDS Naturals, Sequences

CONSTANTS
    NCases,     \* cases of the benchmark, in order
    Versions,   \* protocols: what the fingerprint of the checkpoint covers
    Recovers,   \* multiple choice, and a model with direct-answer recovery
    OpenTails,  \* may a record lose its newline and nothing else?
    None,
    Bound       \* bounds, one per BoundKind

\* "kill": kills and interrupts; "trouble": a step of an attempt raises;
\* "upgrade": another Runner version is installed; "attempt": attempts.
BoundKind == {"kill", "trouble", "upgrade", "attempt"}

Case == 1 .. NCases

\* A prediction: whether its generation completed, how the direct-answer
\* canary went if it was one, and the protocol it was generated under.
Record == [case : Case, done : BOOLEAN,
           canary : {"none", "recovered", "failed"}, by : Versions]

ASSUME CheckpointAssumption ==
    /\ NCases \in Nat
    /\ None \notin Versions \union Record
    /\ Recovers \in BOOLEAN
    /\ OpenTails \in BOOLEAN
    /\ Bound \in [BoundKind -> Nat]

NoRecords == [c \in Case |-> None]

VARIABLES
    header,     \* fingerprint in the checkpoint's first line; None: no file
    lines,      \* last completed record of every case in the readable lines
    tail,       \* "clean", "open", "torn" or "merged"
    openLine,   \* the record in an open last line
    appended,   \* cases whose completed record was ever appended and synced
    dropped,    \* those that went with a removed checkpoint, not appended since
    savedPredictions, \* contents of predictions.jsonl
    predictionsFile,  \* its state
    summaryFile,      \* state of summary.json
    installed,  \* protocol of the installed Runner
    runDone,    \* progress.json of the run says completed
    pc,         \* where the attempt is
    completed,  \* records it loaded
    index,      \* its case
    canaryDone, \* protocol_canary_complete
    made,       \* the record it is appending
    predictions,
    budget

checkpoint == <<header, lines, tail, openLine, appended, dropped>>
artifacts == <<savedPredictions, predictionsFile, summaryFile>>
loop == <<completed, index, canaryDone, made, predictions>>
vars == <<checkpoint, artifacts, installed, runDone, pc, loop, budget>>

Init ==
    /\ header = None
    /\ lines = NoRecords
    /\ tail = "clean"
    /\ openLine = None
    /\ appended = {}
    /\ dropped = {}
    /\ savedPredictions = <<>>
    /\ predictionsFile = "absent"
    /\ summaryFile = "absent"
    /\ installed \in Versions
    /\ runDone = FALSE
    /\ pc = "stopped"
    /\ completed = NoRecords
    /\ index = 1
    /\ canaryDone = FALSE
    /\ made = None
    /\ predictions = <<>>
    /\ budget = Bound

-----------------------------------------------------------------------------
Spend(kind) ==
    /\ budget[kind] > 0
    /\ budget' = [budget EXCEPT ![kind] = @ - 1]

\* A run whose progress says completed is not attempted again.
Attempt ==
    /\ pc = "stopped"
    /\ ~runDone
    /\ Spend("attempt")
    /\ pc' = "opening"
    /\ completed' = NoRecords
    /\ index' = 1
    /\ canaryDone' = ~Recovers
    /\ made' = None
    /\ predictions' = <<>>
    /\ UNCHANGED <<checkpoint, artifacts, installed, runDone>>

\* Written to a temporary file, synced and renamed.
InitializeCheckpoint ==
    /\ pc = "opening"
    /\ header = None
    /\ header' = installed
    /\ lines' = NoRecords
    /\ tail' = "clean"
    /\ openLine' = None
    /\ pc' = "cases"
    /\ UNCHANGED <<appended, dropped, artifacts, installed, runDone, loop, budget>>

OpenRecord == [c \in Case |-> IF /\ openLine # None
                                 /\ openLine.done
                                 /\ openLine.case = c
                              THEN openLine ELSE lines[c]]

\* Mutant: the fingerprint is not compared.
LoadAnyCheckpoint ==
    /\ pc = "opening"
    /\ header # None
    /\ completed' = OpenRecord
    /\ tail' = IF tail = "open" THEN "open" ELSE "clean"
    /\ pc' = "cases"
    /\ UNCHANGED <<header, lines, openLine, appended, dropped, artifacts,
                   installed, runDone, index, canaryDone, made, predictions, budget>>

\* Mutant: the unreadable tail is ignored but stays in the file.
LoadUncut ==
    /\ pc = "opening"
    /\ header = installed
    /\ completed' = OpenRecord
    /\ pc' = "cases"
    /\ UNCHANGED <<checkpoint, artifacts, installed, runDone, index, canaryDone,
                   made, predictions, budget>>

\* A line that cannot be parsed is cut off with everything after it.
LoadCheckpoint ==
    /\ pc = "opening"
    /\ header = installed
    /\ completed' = OpenRecord
    /\ tail' = IF tail = "open" THEN "open" ELSE "clean"
    /\ pc' = "cases"
    /\ UNCHANGED <<header, lines, openLine, appended, dropped, artifacts,
                   installed, runDone, index, canaryDone, made, predictions, budget>>

\* Another fingerprint: "refusing unsafe reuse".
RefuseCheckpoint ==
    /\ pc = "opening"
    /\ header \notin {None, installed}
    /\ pc' = "failing"
    /\ UNCHANGED <<checkpoint, artifacts, installed, runDone, loop, budget>>

-----------------------------------------------------------------------------
(* The case loop of _generate_predictions *)

ReuseCase ==
    /\ pc = "cases"
    /\ index <= NCases
    /\ completed[index] # None
    /\ predictions' = Append(predictions, completed[index])
    /\ canaryDone' = (canaryDone \/ completed[index].canary = "recovered")
    /\ index' = index + 1
    /\ UNCHANGED <<checkpoint, artifacts, installed, runDone, pc, completed,
                   made, budget>>

\* What a generation can give, and what it makes of the canary: the answer is
\* accepted, or a shapeless one is asked for again with a larger budget, which
\* ends the canary either way.  A second generation that does not complete
\* counts as recovered; one that raises leaves the canary to the next case.
Outcome ==
    {o \in [done : BOOLEAN, canary : {"none", "recovered", "failed"},
            over : BOOLEAN] :
        /\ o.canary # "none" => ~canaryDone /\ o.over
        /\ o.canary = "failed" => o.done
        /\ ~o.over => ~canaryDone /\ ~o.done}

GenerateCase ==
    /\ pc = "cases"
    /\ index <= NCases
    /\ completed[index] = None
    /\ \E o \in Outcome :
          /\ made' = [case |-> index, done |-> o.done, canary |-> o.canary,
                      by |-> installed]
          /\ canaryDone' = o.over
    /\ pc' = "appending"
    /\ UNCHANGED <<checkpoint, artifacts, installed, runDone, completed, index,
                   predictions, budget>>

\* The record is one line after a clean tail, and lost with its predecessor
\* after an open one.
AppendLine ==
    /\ lines' = IF tail = "clean" /\ made.done
                THEN [lines EXCEPT ![made.case] = made] ELSE lines
    /\ tail' = IF tail = "clean" THEN "clean" ELSE "merged"
    /\ openLine' = None

AppendCase ==
    /\ pc = "appending"
    /\ AppendLine
    /\ appended' = IF made.done THEN appended \union {made.case} ELSE appended
    /\ dropped' = IF made.done THEN dropped \ {made.case} ELSE dropped
    /\ predictions' = Append(predictions, made)
    /\ index' = IF made.canary = "failed" THEN NCases + 1 ELSE index + 1
    /\ made' = None
    /\ pc' = "cases"
    /\ UNCHANGED <<header, artifacts, installed, runDone, completed, canaryDone,
                   budget>>

\* What a kill or an error in the middle of the append leaves: nothing, some
\* bytes, or all but the newline.
TearLine ==
    \/ UNCHANGED <<lines, tail, openLine>>
    \/ /\ pc = "appending"
       /\ tail' = IF tail = "clean" THEN "torn" ELSE "merged"
       /\ openLine' = None
       /\ UNCHANGED lines
    \/ /\ pc = "appending"
       /\ OpenTails
       /\ tail = "clean"
       /\ tail' = "open"
       /\ openLine' = made
       /\ UNCHANGED lines

-----------------------------------------------------------------------------
(* From the predictions to the summary *)

TruncatePredictions ==
    /\ pc = "cases"
    /\ index > NCases
    /\ predictionsFile' = "torn"
    /\ savedPredictions' = predictions
    /\ pc' = "writing"
    /\ UNCHANGED <<checkpoint, summaryFile, installed, runDone, loop, budget>>

WritePredictions ==
    /\ pc = "writing"
    /\ predictionsFile' = "whole"
    /\ pc' = "evaluating"
    /\ UNCHANGED <<checkpoint, savedPredictions, summaryFile, installed, runDone,
                   loop, budget>>

\* Torn also stands for the evaluator's own draft of summary.json.
EvaluateBenchmark ==
    /\ pc = "evaluating"
    /\ summaryFile' = "torn"
    /\ pc' = "summarizing"
    /\ UNCHANGED <<checkpoint, savedPredictions, predictionsFile, installed, runDone,
                   loop, budget>>

\* The benchmark fails if all generations failed, and not for what the model
\* itself got wrong.
AllFailed == /\ Len(predictions) = NCases
             /\ \A i \in DOMAIN predictions : ~predictions[i].done

WriteSummary ==
    /\ pc = "summarizing"
    /\ \/ summaryFile' = "scored"
       \/ AllFailed /\ summaryFile' = "failed"
    /\ pc' = "artifact"
    /\ UNCHANGED <<checkpoint, savedPredictions, predictionsFile, installed, runDone,
                   loop, budget>>

WriteArtifact ==
    /\ pc = "artifact"
    /\ pc' = "ended"
    /\ UNCHANGED <<checkpoint, artifacts, installed, runDone, loop, budget>>

\* Mutant: the handler leaves the summary of an earlier attempt in place.
TruncateNothing ==
    /\ pc = "failing"
    /\ pc' = "ended"
    /\ UNCHANGED <<checkpoint, artifacts, installed, runDone, loop, budget>>

\* The exception handler of the benchmark writes a failed summary.
TruncateFailure ==
    /\ pc = "failing"
    /\ summaryFile' = "torn"
    /\ pc' = "reporting"
    /\ UNCHANGED <<checkpoint, savedPredictions, predictionsFile, installed, runDone,
                   loop, budget>>

WriteFailure ==
    /\ pc = "reporting"
    /\ summaryFile' = "failed"
    /\ pc' = "ended"
    /\ UNCHANGED <<checkpoint, savedPredictions, predictionsFile, installed, runDone,
                   loop, budget>>

-----------------------------------------------------------------------------
(* The rest of the run *)

CompleteRun ==
    /\ pc = "ended"
    /\ runDone' = TRUE
    /\ pc' = "cleaning"
    /\ UNCHANGED <<checkpoint, artifacts, installed, loop, budget>>

\* The file is unlinked; what was kept in it is gone.
DropCheckpoint ==
    /\ header' = None
    /\ lines' = NoRecords
    /\ tail' = "clean"
    /\ openLine' = None
    /\ dropped' = appended
    /\ UNCHANGED appended

\* Mutant: the status in the summary is not looked at.
RemoveAnyCheckpoint ==
    /\ pc = "cleaning"
    /\ \/ header # None /\ predictionsFile # "absent" /\ DropCheckpoint
       \/ UNCHANGED checkpoint
    /\ pc' = "cleaned"
    /\ UNCHANGED <<artifacts, installed, runDone, loop, budget>>

\* remove_capability_case_checkpoints: one that cannot be unlinked stays.
Removable ==
    /\ header # None
    /\ summaryFile \notin {"absent", "torn", "failed"}
    /\ predictionsFile # "absent"
RemoveCheckpoint ==
    /\ pc = "cleaning"
    /\ (Removable /\ DropCheckpoint) \/ UNCHANGED checkpoint
    /\ pc' = "cleaned"
    /\ UNCHANGED <<artifacts, installed, runDone, loop, budget>>

Return ==
    /\ pc = "cleaned"
    /\ pc' = "stopped"
    /\ UNCHANGED <<checkpoint, artifacts, installed, runDone, loop, budget>>

\* The try statement of the benchmark.
InBenchmark == {"opening", "cases", "appending", "writing", "evaluating",
                "summarizing", "artifact"}

\* An error inside the benchmark fails the benchmark; anywhere else it fails
\* the run, and mark_failed takes a completed run back.
Raise ==
    /\ pc # "stopped"
    /\ Spend("trouble")
    /\ TearLine
    /\ \/ /\ pc \in InBenchmark
          /\ pc' = "failing"
          /\ UNCHANGED runDone
       \/ /\ pc \notin InBenchmark
          /\ pc' = "stopped"
          /\ runDone' = FALSE
    /\ UNCHANGED <<header, appended, dropped, artifacts, installed, loop>>

Kill ==
    /\ pc # "stopped"
    /\ Spend("kill")
    /\ TearLine
    /\ pc' = "stopped"
    /\ UNCHANGED <<header, appended, dropped, artifacts, installed, runDone, loop>>

Upgrade ==
    /\ pc = "stopped"
    /\ Spend("upgrade")
    /\ installed' \in Versions \ {installed}
    /\ UNCHANGED <<checkpoint, artifacts, runDone, pc, loop>>

Next ==
    \/ Attempt
    \/ InitializeCheckpoint \/ LoadCheckpoint \/ RefuseCheckpoint
    \/ ReuseCase \/ GenerateCase \/ AppendCase
    \/ TruncatePredictions \/ WritePredictions
    \/ EvaluateBenchmark \/ WriteSummary \/ WriteArtifact
    \/ TruncateFailure \/ WriteFailure
    \/ CompleteRun \/ RemoveCheckpoint \/ Return
    \/ Raise \/ Kill \/ Upgrade

Spec == Init /\ [][Next]_vars
-----------------------------------------------------------------------------
(* Properties *)

TypeOK ==
    /\ header \in Versions \union {None}
    /\ lines \in [Case -> Record \union {None}]
    /\ tail \in {"clean", "open", "torn", "merged"}
    /\ openLine \in Record \union {None}
    /\ appended \subseteq Case
    /\ dropped \subseteq Case
    /\ savedPredictions \in Seq(Record)
    /\ predictionsFile \in {"absent", "torn", "whole"}
    /\ summaryFile \in {"absent", "torn", "failed", "scored"}
    /\ installed \in Versions
    /\ runDone \in BOOLEAN
    /\ pc \in {"stopped", "opening", "cases", "appending", "writing",
               "evaluating", "summarizing", "artifact", "failing", "reporting",
               "ended", "cleaning", "cleaned"}
    /\ completed \in [Case -> Record \union {None}]
    /\ index \in 1 .. NCases + 1
    /\ canaryDone \in BOOLEAN
    /\ made \in Record \union {None}
    /\ predictions \in Seq(Record)
    /\ budget \in [BoundKind -> Nat]

\* The predictions of a benchmark were all generated under one protocol, even
\* if the Runner was replaced between the attempts that generated them: "fails
\* closed on protocol or integrity mismatches" (CHANGELOG.md:458).
OneProtocol ==
    predictionsFile = "whole" =>
        \A i, j \in DOMAIN savedPredictions :
            savedPredictions[i].by = savedPredictions[j].by

\* A completed case is generated once, however often the run is killed: "exact
\* --resume reuses completed cases" (CHANGELOG.md:458), because only an
\* "incomplete tail" is removed (capabilities.py:4114).  It holds if a torn
\* append never loses its newline alone, and only as long as the checkpoint is
\* there: an exception between its removal and the return (runner.py:1111-1112)
\* is booked as a failure of the run, and the attempt that resumes it generates
\* the dropped cases again.
ResumeReuses ==
    [][made = None /\ made' # None => made'.case \notin appended \ dropped]_vars

\* The benchmark was cut short by a canary that failed.
Quarantined ==
    \E i \in DOMAIN savedPredictions : savedPredictions[i].canary = "failed"

\* The checkpoint is dropped "only after their benchmark has durable output"
\* (capabilities.py:4147): when the run is marked completed, and every case that
\* was kept in the checkpoint is in a whole predictions.jsonl.  Where a failed
\* canary has cut the predictions short, the cases behind it are dropped with
\* the checkpoint without being in them.
RemovedOnlyWhenDurable ==
    [][header # None /\ header' = None =>
         /\ runDone
         /\ predictionsFile = "whole"
         /\ \/ Quarantined
            \/ \A c \in appended \ dropped :
                  \E i \in DOMAIN savedPredictions :
                     /\ savedPredictions[i].case = c
                     /\ savedPredictions[i].done]_vars

\* A completed run that shows a score for the benchmark has the predictions it
\* was computed from: all cases in order, unless a canary stopped it.  The
\* summary of a killed attempt is never taken for that of the last one.
ScoreHasEvidence ==
    runDone /\ summaryFile = "scored" =>
        /\ predictionsFile = "whole"
        /\ \A i \in DOMAIN savedPredictions : savedPredictions[i].case = i
        /\ Quarantined \/ Len(savedPredictions) = NCases
=============================================================================
