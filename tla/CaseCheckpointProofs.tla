------------------------ MODULE CaseCheckpointProofs ------------------------
(***************************************************************************)
(* Proofs about CaseCheckpoint for any number of cases, any protocols and  *)
(* any bounds.                                                             *)
(***************************************************************************)
EXTENDS CaseCheckpoint, TLAPS

TypeInv ==
    /\ TypeOK
    /\ pc = "appending" => made \in Record /\ made.case = index

LEMMA TypeStep ==
  ASSUME TypeInv, [Next]_vars
  PROVE  TypeInv'
<1>. USE DEF TypeInv, TypeOK, checkpoint, artifacts, loop
<1>1. CASE Attempt
  BY <1>1, CheckpointAssumption DEF Attempt, NoRecords, Spend, BoundKind
<1>2. CASE InitializeCheckpoint
  BY <1>2 DEF InitializeCheckpoint, NoRecords
<1>3. CASE LoadCheckpoint
  <2>1. completed' \in [Case -> Record \union {None}]
    BY <1>3 DEF LoadCheckpoint, OpenRecord
  <2>. QED
    BY <1>3, <2>1 DEF LoadCheckpoint
<1>4. CASE RefuseCheckpoint
  BY <1>4 DEF RefuseCheckpoint
<1>5. CASE ReuseCase
  <2>1. index \in Case /\ index + 1 \in 1 .. NCases + 1
    BY <1>5, CheckpointAssumption DEF ReuseCase, Case
  <2>2. completed[index] \in Record
    BY <1>5, <2>1 DEF ReuseCase
  <2>3. (completed[index].canary = "recovered") \in BOOLEAN
    OBVIOUS
  <2>. QED
    BY <1>5, <2>1, <2>2, <2>3 DEF ReuseCase
<1>6. CASE GenerateCase
  <2>1. index \in Case
    BY <1>6, CheckpointAssumption DEF GenerateCase, Case
  <2>2. PICK o \in Outcome : /\ made' = [case |-> index, done |-> o.done,
                                         canary |-> o.canary, by |-> installed]
                            /\ canaryDone' = o.over
    BY <1>6 DEF GenerateCase
  <2>3. o.done \in BOOLEAN /\ o.over \in BOOLEAN
        /\ o.canary \in {"none", "recovered", "failed"}
    BY <2>2 DEF Outcome
  <2>4. made' \in Record /\ made'.case = index
    BY <2>1, <2>2, <2>3 DEF Record
  <2>. QED
    BY <1>6, <2>2, <2>3, <2>4 DEF GenerateCase
<1>7. CASE AppendCase
  <2>1. made \in Record /\ made.case \in Case
    BY <1>7 DEF AppendCase, Record
  <2>2. index' \in 1 .. NCases + 1
    BY <1>7, <2>1, CheckpointAssumption DEF AppendCase, Case
  <2>3. lines' \in [Case -> Record \union {None}]
        /\ tail' \in {"clean", "open", "torn", "merged"} /\ openLine' = None
    BY <1>7, <2>1 DEF AppendCase, AppendLine
  <2>. QED
    BY <1>7, <2>1, <2>2, <2>3 DEF AppendCase
<1>8. CASE TruncatePredictions
  BY <1>8 DEF TruncatePredictions
<1>9. CASE WritePredictions
  BY <1>9 DEF WritePredictions
<1>10. CASE EvaluateBenchmark
  BY <1>10 DEF EvaluateBenchmark
<1>11. CASE WriteSummary
  BY <1>11 DEF WriteSummary
<1>12. CASE WriteArtifact
  BY <1>12 DEF WriteArtifact
<1>13. CASE TruncateFailure
  BY <1>13 DEF TruncateFailure
<1>14. CASE WriteFailure
  BY <1>14 DEF WriteFailure
<1>15. CASE CompleteRun
  BY <1>15 DEF CompleteRun
<1>16. CASE RemoveCheckpoint
  BY <1>16 DEF RemoveCheckpoint, Removable, DropCheckpoint, NoRecords
<1>17. CASE Return
  BY <1>17 DEF Return
<1>18. CASE Raise
  <2>1. tail' \in {"clean", "open", "torn", "merged"}
        /\ lines' = lines /\ openLine' \in Record \union {None}
    BY <1>18 DEF Raise, TearLine
  <2>2. runDone' \in BOOLEAN /\ pc' \in {"failing", "stopped"}
    BY <1>18 DEF Raise
  <2>. QED
    BY <1>18, <2>1, <2>2 DEF Raise, Spend, BoundKind
<1>19. CASE Kill
  <2>1. tail' \in {"clean", "open", "torn", "merged"}
        /\ lines' = lines /\ openLine' \in Record \union {None}
    BY <1>19 DEF Kill, TearLine
  <2>. QED
    BY <1>19, <2>1 DEF Kill, Spend, BoundKind, InBenchmark
<1>20. CASE Upgrade
  BY <1>20 DEF Upgrade, Spend, BoundKind
<1>21. CASE UNCHANGED vars
  BY <1>21 DEF vars
<1>. QED
  BY <1>1, <1>2, <1>3, <1>4, <1>5, <1>6, <1>7, <1>8, <1>9, <1>10, <1>11, <1>12, <1>13, <1>14, <1>15, <1>16, <1>17, <1>18, <1>19, <1>20, <1>21
     DEF Next

\* Every reachable state has its type, and the record being appended is that
\* of the current case (capabilities.py:4205-4470).
THEOREM TypeCorrect == Spec => []TypeInv
<1>1. Init => TypeInv
  <2>1. NoRecords \in [Case -> Record \union {None}] /\ 1 \in 1 .. NCases + 1
    BY CheckpointAssumption DEF NoRecords
  <2>2. <<>> \in Seq(Record)
    OBVIOUS
  <2>. QED
    BY <2>1, <2>2, CheckpointAssumption DEF Init, TypeInv, TypeOK
<1>2. TypeInv /\ [Next]_vars => TypeInv'
  BY TypeStep
<1>. QED
  BY <1>1, <1>2, PTL DEF Spec

\* The variables of the benchmark keep their types (capabilities.py:4071-4470).
THEOREM TypeSafe == Spec => []TypeOK
<1>1. TypeInv => TypeOK
  BY DEF TypeInv
<1>. QED
  BY <1>1, TypeCorrect, PTL

-----------------------------------------------------------------------------
(* One protocol.  Whatever a loaded attempt reads or makes bears the        *)
(* fingerprint in the header, because another one is refused.               *)

Loaded == {"cases", "appending", "writing", "evaluating", "summarizing", "artifact"}

ProtocolInv ==
    /\ \A c \in Case : lines[c] # None => lines[c].by = header
    /\ openLine # None => openLine.by = header
    /\ pc = "opening" => completed = NoRecords /\ predictions = <<>>
    /\ pc \in Loaded =>
         /\ header = installed
         /\ \A c \in Case : completed[c] # None => completed[c].by = installed
         /\ \A i \in 1 .. Len(predictions) : predictions[i].by = installed
    /\ pc = "appending" => made.by = installed
    /\ pc = "writing" => savedPredictions = predictions
    /\ predictionsFile = "whole" =>
         \A i, j \in 1 .. Len(savedPredictions) :
            savedPredictions[i].by = savedPredictions[j].by

LEMMA ProtocolStep ==
  ASSUME TypeInv, ProtocolInv, [Next]_vars
  PROVE  ProtocolInv'
<1>. USE DEF TypeInv, TypeOK, ProtocolInv, Loaded, checkpoint, artifacts, loop
<1>1. CASE Attempt
  BY <1>1 DEF Attempt, NoRecords
<1>2. CASE InitializeCheckpoint
  BY <1>2 DEF InitializeCheckpoint, NoRecords
<1>3. CASE LoadCheckpoint
  <2>1. \A c \in Case : completed'[c] # None => completed'[c].by = installed
    BY <1>3 DEF LoadCheckpoint, OpenRecord
  <2>. QED
    BY <1>3, <2>1 DEF LoadCheckpoint
<1>4. CASE RefuseCheckpoint
  BY <1>4 DEF RefuseCheckpoint
<1>5. CASE ReuseCase
  <2>1. completed[index] \in Record /\ completed[index].by = installed
    BY <1>5, CheckpointAssumption DEF ReuseCase, Case
  <2>2. \A i \in 1 .. Len(predictions') : predictions'[i].by = installed
    BY <1>5, <2>1 DEF ReuseCase
  <2>. QED
    BY <1>5, <2>2 DEF ReuseCase
<1>6. CASE GenerateCase
  BY <1>6 DEF GenerateCase
<1>7. CASE AppendCase
  <2>1. \A i \in 1 .. Len(predictions') : predictions'[i].by = installed
    BY <1>7 DEF AppendCase
  <2>2. \A c \in Case : lines'[c] # None => lines'[c].by = header
    BY <1>7 DEF AppendCase, AppendLine
  <2>. QED
    BY <1>7, <2>1, <2>2 DEF AppendCase, AppendLine
<1>8. CASE TruncatePredictions
  BY <1>8 DEF TruncatePredictions
<1>9. CASE WritePredictions
  BY <1>9 DEF WritePredictions
<1>10. CASE EvaluateBenchmark
  BY <1>10 DEF EvaluateBenchmark
<1>11. CASE WriteSummary
  BY <1>11 DEF WriteSummary
<1>12. CASE WriteArtifact
  BY <1>12 DEF WriteArtifact
<1>13. CASE TruncateFailure
  BY <1>13 DEF TruncateFailure
<1>14. CASE WriteFailure
  BY <1>14 DEF WriteFailure
<1>15. CASE CompleteRun
  BY <1>15 DEF CompleteRun
<1>16. CASE RemoveCheckpoint
  BY <1>16 DEF RemoveCheckpoint, Removable, DropCheckpoint, NoRecords
<1>17. CASE Return
  BY <1>17 DEF Return
<1>18. CASE Raise
  BY <1>18 DEF Raise, TearLine
<1>19. CASE Kill
  BY <1>19 DEF Kill, TearLine
<1>20. CASE Upgrade
  BY <1>20 DEF Upgrade
<1>21. CASE UNCHANGED vars
  BY <1>21 DEF vars
<1>. QED
  BY <1>1, <1>2, <1>3, <1>4, <1>5, <1>6, <1>7, <1>8, <1>9, <1>10, <1>11, <1>12, <1>13, <1>14, <1>15, <1>16, <1>17, <1>18, <1>19, <1>20, <1>21
     DEF Next

LEMMA ProtocolInit == Init => ProtocolInv
BY DEF Init, ProtocolInv, Loaded, NoRecords

\* The predictions of a benchmark were all generated under one protocol,
\* whatever versions of the Runner worked on it (capabilities.py:4028-4110).
THEOREM OneProtocolSafe == Spec => []OneProtocol
<1>1. TypeInv /\ ProtocolInv /\ [Next]_vars => ProtocolInv'
  BY ProtocolStep
<1>2. TypeInv /\ ProtocolInv => OneProtocol
  BY DEF TypeInv, TypeOK, ProtocolInv, OneProtocol
<1>. QED
  BY <1>1, <1>2, ProtocolInit, TypeCorrect, PTL DEF Spec

-----------------------------------------------------------------------------
(* A score and its evidence.  The predictions of an attempt are the cases   *)
(* in order, and there are as many as the loop has passed, unless a failed  *)
(* canary moved it to the end.                                              *)

InOrder(s) == \A i \in 1 .. Len(s) : s[i].case = i
CutShort(s) == \E i \in 1 .. Len(s) : s[i].canary = "failed"
Written == {"writing", "evaluating", "summarizing", "artifact"}
Settled == {"ended", "cleaning", "cleaned"}

ScoreInv ==
    /\ \A c \in Case : lines[c] # None => lines[c].case = c
    /\ pc = "opening" => index = 1
    /\ pc \in Loaded =>
         /\ \A c \in Case : completed[c] # None => completed[c].case = c
         /\ InOrder(predictions)
         /\ index <= NCases => Len(predictions) = index - 1
         /\ index > NCases => Len(predictions) = NCases \/ CutShort(predictions)
    /\ pc = "appending" => index <= NCases
    /\ pc \in Written => savedPredictions = predictions /\ index > NCases
    /\ pc \in Written \ {"writing"} => predictionsFile = "whole"
    /\ pc = "artifact" => summaryFile \in {"failed", "scored"}
    /\ pc \in Settled \/ runDone =>
         /\ summaryFile \in {"failed", "scored"}
         /\ summaryFile = "scored" =>
              /\ predictionsFile = "whole"
              /\ InOrder(savedPredictions)
              /\ Len(savedPredictions) = NCases \/ CutShort(savedPredictions)
    /\ runDone => pc \in {"stopped", "cleaning", "cleaned"}

\* One more record of the right case keeps the order, and a failed canary in it
\* or before it cuts the sequence short.
LEMMA OneMore ==
  ASSUME NEW s \in Seq(Record), NEW r \in Record, InOrder(s), r.case = Len(s) + 1
  PROVE  /\ InOrder(Append(s, r))
         /\ Len(Append(s, r)) = Len(s) + 1
         /\ CutShort(Append(s, r)) <=> CutShort(s) \/ r.canary = "failed"
<1>1. Len(Append(s, r)) = Len(s) + 1 /\ Append(s, r)[Len(s) + 1] = r
      /\ \A i \in 1 .. Len(s) : Append(s, r)[i] = s[i]
  OBVIOUS
<1>2. InOrder(Append(s, r))
  BY <1>1 DEF InOrder
<1>3. CutShort(Append(s, r)) <=> CutShort(s) \/ r.canary = "failed"
  BY <1>1 DEF CutShort
<1>. QED
  BY <1>1, <1>2, <1>3

LEMMA ScoreStep ==
  ASSUME TypeInv, ProtocolInv, ScoreInv, [Next]_vars
  PROVE  ScoreInv'
<1>. USE DEF TypeInv, TypeOK, ScoreInv, Loaded, Written, Settled, checkpoint, artifacts, loop
<1>1. CASE Attempt
  BY <1>1, CheckpointAssumption DEF Attempt
<1>2. CASE InitializeCheckpoint
  <2>1. InOrder(predictions) /\ Len(predictions) = 0
    BY <1>2 DEF InitializeCheckpoint, ProtocolInv, InOrder
  <2>. QED
    BY <1>2, <2>1, CheckpointAssumption DEF InitializeCheckpoint, NoRecords, ProtocolInv
<1>3. CASE LoadCheckpoint
  <2>1. InOrder(predictions) /\ Len(predictions) = 0
    BY <1>3 DEF LoadCheckpoint, ProtocolInv, InOrder
  <2>2. \A c \in Case : completed'[c] # None => completed'[c].case = c
    BY <1>3 DEF LoadCheckpoint, OpenRecord
  <2>. QED
    BY <1>3, <2>1, <2>2, CheckpointAssumption DEF LoadCheckpoint
<1>4. CASE RefuseCheckpoint
  BY <1>4 DEF RefuseCheckpoint
<1>5. CASE ReuseCase
  <2>1. index \in Case /\ Len(predictions) = index - 1
    BY <1>5, CheckpointAssumption DEF ReuseCase, Case
  <2>2. completed[index] \in Record /\ completed[index].case = Len(predictions) + 1
    BY <1>5, <2>1 DEF ReuseCase
  <2>3. InOrder(predictions') /\ Len(predictions') = index
    BY <1>5, <2>1, <2>2, OneMore DEF ReuseCase
  <2>. QED
    BY <1>5, <2>1, <2>3, CheckpointAssumption DEF ReuseCase, Case
<1>6. CASE GenerateCase
  BY <1>6 DEF GenerateCase
<1>7. CASE AppendCase
  <2>1. index \in Case /\ Len(predictions) = index - 1
        /\ made \in Record /\ made.case = Len(predictions) + 1
    BY <1>7, CheckpointAssumption DEF AppendCase, Case
  <2>2. /\ InOrder(predictions') /\ Len(predictions') = index
        /\ made.canary = "failed" => CutShort(predictions')
    BY <1>7, <2>1, OneMore DEF AppendCase
  <2>3. \A c \in Case : lines'[c] # None => lines'[c].case = c
    BY <1>7 DEF AppendCase, AppendLine
  <2>. QED
    BY <1>7, <2>1, <2>2, <2>3, CheckpointAssumption DEF AppendCase, Case
<1>8. CASE TruncatePredictions
  BY <1>8 DEF TruncatePredictions
<1>9. CASE WritePredictions
  BY <1>9 DEF WritePredictions
<1>10. CASE EvaluateBenchmark
  BY <1>10 DEF EvaluateBenchmark
<1>11. CASE WriteSummary
  BY <1>11 DEF WriteSummary
<1>12. CASE WriteArtifact
  BY <1>12 DEF WriteArtifact
<1>13. CASE TruncateFailure
  BY <1>13 DEF TruncateFailure
<1>14. CASE WriteFailure
  BY <1>14 DEF WriteFailure
<1>15. CASE CompleteRun
  BY <1>15 DEF CompleteRun
<1>16. CASE RemoveCheckpoint
  BY <1>16 DEF RemoveCheckpoint, Removable, DropCheckpoint, NoRecords
<1>17. CASE Return
  BY <1>17 DEF Return
<1>18. CASE Raise
  BY <1>18 DEF Raise, TearLine, InBenchmark
<1>19. CASE Kill
  BY <1>19 DEF Kill, TearLine
<1>20. CASE Upgrade
  BY <1>20 DEF Upgrade
<1>21. CASE UNCHANGED vars
  BY <1>21 DEF vars
<1>. QED
  BY <1>1, <1>2, <1>3, <1>4, <1>5, <1>6, <1>7, <1>8, <1>9, <1>10, <1>11, <1>12, <1>13, <1>14, <1>15, <1>16, <1>17, <1>18, <1>19, <1>20, <1>21
     DEF Next

LEMMA ScoreInit == Init => ScoreInv
BY DEF Init, ScoreInv, Loaded, Written, Settled, NoRecords

\* A completed run that shows a score has the whole predictions it was computed
\* from (capabilities.py:1400-1560, 4146-4170).
THEOREM ScoreSafe == Spec => []ScoreHasEvidence
<1>1. TypeInv /\ ProtocolInv /\ ScoreInv /\ [Next]_vars => ProtocolInv' /\ ScoreInv'
  BY ProtocolStep, ScoreStep
<1>2. TypeInv /\ ScoreInv => ScoreHasEvidence
  BY DEF TypeInv, TypeOK, ScoreInv, InOrder, CutShort, ScoreHasEvidence, Quarantined
<1>. QED
  BY <1>1, <1>2, ProtocolInit, ScoreInit, TypeCorrect, PTL DEF Spec

-----------------------------------------------------------------------------
(* Nothing that was kept is lost, where a torn append never loses its       *)
(* newline alone: the readable lines hold every case that was appended and  *)
(* not dropped with the file, and a loaded attempt reuses each of them or   *)
(* has passed it.                                                           *)

Kept == appended \ dropped

KeepInv ==
    /\ tail \in {"clean", "torn"}
    /\ openLine = None
    /\ pc \in {"cases", "appending"} => tail = "clean"
    /\ header = None => Kept = {}
    /\ \A c \in Kept : lines[c] # None
    /\ \A c \in Case : lines[c] # None => lines[c].done
    /\ pc \in Loaded =>
         /\ \A c \in Case : completed[c] # None => completed[c].done
         /\ \A c \in Kept : completed[c] # None \/ c < index
         /\ \A c \in Kept : c <= Len(predictions) => predictions[c].done
    /\ pc = "appending" => completed[index] = None
    /\ pc = "cleaning" => runDone
    /\ pc \in Settled /\ summaryFile = "scored" =>
         \A c \in Kept : c <= Len(savedPredictions) => savedPredictions[c].done

LEMMA KeepStep ==
  ASSUME ~OpenTails, TypeInv, ProtocolInv, ScoreInv, KeepInv, [Next]_vars
  PROVE  KeepInv'
<1>. USE DEF TypeInv, TypeOK, KeepInv, Kept, Loaded, Settled, checkpoint, artifacts, loop
<1>1. CASE Attempt
  BY <1>1 DEF Attempt
<1>2. CASE InitializeCheckpoint
  BY <1>2 DEF InitializeCheckpoint, NoRecords, ProtocolInv
<1>3. CASE LoadCheckpoint
  <2>1. completed' = lines /\ Len(predictions) = 0
    BY <1>3 DEF LoadCheckpoint, OpenRecord, ProtocolInv
  <2>2. \A c \in Kept : ~(c <= 0)
    BY DEF Case
  <2>. QED
    BY <1>3, <2>1, <2>2 DEF LoadCheckpoint
<1>4. CASE RefuseCheckpoint
  BY <1>4 DEF RefuseCheckpoint
<1>5. CASE ReuseCase
  <2>1. index \in Case /\ Len(predictions) = index - 1 /\ completed[index] \in Record
    BY <1>5, CheckpointAssumption DEF ReuseCase, Case, ScoreInv
  <2>2. /\ Len(predictions') = index /\ predictions'[index] = completed[index]
        /\ \A i \in 1 .. index - 1 : predictions'[i] = predictions[i]
    BY <1>5, <2>1 DEF ReuseCase, Case
  <2>3. \A c \in Kept' : c <= Len(predictions') => predictions'[c].done
    <3>. SUFFICES ASSUME NEW c \in Kept, c <= index PROVE predictions'[c].done
      BY <1>5, <2>2 DEF ReuseCase
    <3>1. CASE c = index
      BY <1>5, <3>1, <2>1, <2>2 DEF ReuseCase
    <3>2. CASE c \in 1 .. index - 1
      BY <1>5, <3>2, <2>1, <2>2 DEF ReuseCase
    <3>. QED
      BY <3>1, <3>2, <2>1 DEF Case
  <2>4. \A c \in Kept' : completed'[c] # None \/ c < index'
    BY <1>5, <2>1 DEF ReuseCase, Case
  <2>. QED
    BY <1>5, <2>3, <2>4 DEF ReuseCase
<1>6. CASE GenerateCase
  BY <1>6 DEF GenerateCase
<1>7. CASE AppendCase
  <2>1. index \in Case /\ Len(predictions) = index - 1 /\ made \in Record
        /\ made.case = index
    BY <1>7, CheckpointAssumption DEF AppendCase, Case, ScoreInv
  <2>2. /\ Len(predictions') = index /\ predictions'[index] = made
        /\ \A i \in 1 .. index - 1 : predictions'[i] = predictions[i]
    BY <1>7, <2>1 DEF AppendCase, Case
  <2>3. \A c \in Kept' : c <= Len(predictions') => predictions'[c].done
    <3>. SUFFICES ASSUME NEW c \in Kept', c <= index PROVE predictions'[c].done
      BY <1>7, <2>2 DEF AppendCase
    <3>1. CASE c = index
      <4>1. CASE made.done
        BY <3>1, <4>1, <2>2
      <4>2. CASE ~made.done
        <5>1. index \in Kept
          BY <1>7, <3>1, <4>2 DEF AppendCase
        <5>2. completed[index] # None
          BY <1>7, <5>1, <2>1 DEF AppendCase, Case
        <5>. QED
          BY <1>7, <5>2 DEF AppendCase
      <4>. QED
        BY <4>1, <4>2
    <3>2. CASE c # index
      <4>1. c \in Kept /\ c \in 1 .. index - 1
        BY <1>7, <3>2, <2>1 DEF AppendCase, Case
      <4>2. predictions[c].done
        BY <1>7, <4>1, <2>1 DEF AppendCase
      <4>. QED
        BY <4>1, <4>2, <2>2
    <3>. QED
      BY <3>1, <3>2
  <2>4. \A c \in Kept' : completed'[c] # None \/ c < index'
    BY <1>7, <2>1, CheckpointAssumption DEF AppendCase, Case
  <2>5. \A c \in Kept' : lines'[c] # None
    BY <1>7, <2>1, CheckpointAssumption DEF AppendCase, AppendLine
  <2>6. \A c \in Case : lines'[c] # None => lines'[c].done
    BY <1>7 DEF AppendCase, AppendLine
  <2>7. /\ tail' = "clean" /\ openLine' = None /\ header' # None
        /\ pc' = "cases" /\ completed' = completed
    BY <1>7, CheckpointAssumption DEF AppendCase, AppendLine, ProtocolInv
  <2>. QED
    BY <1>7, <2>3, <2>4, <2>5, <2>6, <2>7, TypeStep DEF AppendCase
<1>8. CASE TruncatePredictions
  BY <1>8 DEF TruncatePredictions
<1>9. CASE WritePredictions
  BY <1>9 DEF WritePredictions
<1>10. CASE EvaluateBenchmark
  BY <1>10 DEF EvaluateBenchmark
<1>11. CASE WriteSummary
  BY <1>11 DEF WriteSummary
<1>12. CASE WriteArtifact
  BY <1>12 DEF WriteArtifact, ScoreInv, Written
<1>13. CASE TruncateFailure
  BY <1>13 DEF TruncateFailure
<1>14. CASE WriteFailure
  BY <1>14 DEF WriteFailure
<1>15. CASE CompleteRun
  BY <1>15 DEF CompleteRun
<1>16. CASE RemoveCheckpoint
  BY <1>16 DEF RemoveCheckpoint, Removable, DropCheckpoint, NoRecords
<1>17. CASE Return
  BY <1>17 DEF Return
<1>18. CASE Raise
  BY <1>18 DEF Raise, TearLine, InBenchmark
<1>19. CASE Kill
  BY <1>19 DEF Kill, TearLine
<1>20. CASE Upgrade
  BY <1>20 DEF Upgrade
<1>21. CASE UNCHANGED vars
  BY <1>21 DEF vars
<1>. QED
  BY <1>1, <1>2, <1>3, <1>4, <1>5, <1>6, <1>7, <1>8, <1>9, <1>10, <1>11, <1>12, <1>13, <1>14, <1>15, <1>16, <1>17, <1>18, <1>19, <1>20, <1>21
     DEF Next

LEMMA KeepInit == Init => KeepInv
BY DEF Init, KeepInv, Kept, Loaded, Settled, NoRecords

LEMMA KeepAlways ==
  ASSUME ~OpenTails
  PROVE  Spec => [](TypeInv /\ ProtocolInv /\ ScoreInv /\ KeepInv)
<1>1. TypeInv /\ ProtocolInv /\ ScoreInv /\ KeepInv /\ [Next]_vars
      => ProtocolInv' /\ ScoreInv' /\ KeepInv'
  BY ProtocolStep, ScoreStep, KeepStep
<1>. QED
  BY <1>1, ProtocolInit, ScoreInit, KeepInit, TypeCorrect, PTL DEF Spec

LEMMA ReuseStep ==
  ASSUME ~OpenTails, TypeInv, KeepInv, [Next]_vars
  PROVE  [made = None /\ made' # None => made'.case \notin Kept]_vars
<1>. USE DEF TypeInv, TypeOK, Kept, checkpoint, artifacts, loop
<1>1. CASE Attempt
  BY <1>1 DEF Attempt
<1>2. CASE InitializeCheckpoint
  BY <1>2 DEF InitializeCheckpoint
<1>3. CASE LoadCheckpoint
  BY <1>3 DEF LoadCheckpoint
<1>4. CASE RefuseCheckpoint
  BY <1>4 DEF RefuseCheckpoint
<1>5. CASE ReuseCase
  BY <1>5 DEF ReuseCase
<1>6. CASE GenerateCase
  <2>1. index \in Case /\ completed[index] = None /\ made'.case = index
    BY <1>6, CheckpointAssumption DEF GenerateCase, Case
  <2>2. index \notin Kept
    BY <1>6, <2>1 DEF KeepInv, Loaded, GenerateCase, Case
  <2>. QED
    BY <2>1, <2>2
<1>7. CASE AppendCase
  BY <1>7 DEF AppendCase
<1>8. CASE TruncatePredictions
  BY <1>8 DEF TruncatePredictions
<1>9. CASE WritePredictions
  BY <1>9 DEF WritePredictions
<1>10. CASE EvaluateBenchmark
  BY <1>10 DEF EvaluateBenchmark
<1>11. CASE WriteSummary
  BY <1>11 DEF WriteSummary
<1>12. CASE WriteArtifact
  BY <1>12 DEF WriteArtifact
<1>13. CASE TruncateFailure
  BY <1>13 DEF TruncateFailure
<1>14. CASE WriteFailure
  BY <1>14 DEF WriteFailure
<1>15. CASE CompleteRun
  BY <1>15 DEF CompleteRun
<1>16. CASE RemoveCheckpoint
  BY <1>16 DEF RemoveCheckpoint, Removable, DropCheckpoint
<1>17. CASE Return
  BY <1>17 DEF Return
<1>18. CASE Raise
  BY <1>18 DEF Raise
<1>19. CASE Kill
  BY <1>19 DEF Kill
<1>20. CASE Upgrade
  BY <1>20 DEF Upgrade
<1>21. CASE UNCHANGED vars
  BY <1>21 DEF vars
<1>. QED
  BY <1>1, <1>2, <1>3, <1>4, <1>5, <1>6, <1>7, <1>8, <1>9, <1>10, <1>11, <1>12, <1>13, <1>14, <1>15, <1>16, <1>17, <1>18, <1>19, <1>20, <1>21
     DEF Next

\* Where a torn append never loses its newline alone, no case whose result was
\* appended is generated again as long as its checkpoint has not been removed
\* (capabilities.py:4088-4143, 4205-4440).  An attempt that follows a failure
\* behind the removal (runner.py:1111-1112) does generate it again.
THEOREM ReuseSafe ==
  ASSUME ~OpenTails
  PROVE  Spec => ResumeReuses
<1>1. TypeInv /\ KeepInv /\ [Next]_vars
      => [made = None /\ made' # None => made'.case \notin Kept]_vars
  BY ReuseStep
<1>. QED
  BY <1>1, KeepAlways, PTL DEF Spec, ResumeReuses, Kept

DurableRemoval ==
    header # None /\ header' = None =>
        /\ runDone
        /\ predictionsFile = "whole"
        /\ \/ Quarantined
           \/ \A c \in Kept :
                \E i \in DOMAIN savedPredictions :
                  /\ savedPredictions[i].case = c
                  /\ savedPredictions[i].done

LEMMA RemovalStep ==
  ASSUME ~OpenTails, TypeInv, ScoreInv, KeepInv, [Next]_vars
  PROVE  [DurableRemoval]_vars
<1>. USE DEF TypeInv, TypeOK, Kept, DurableRemoval, checkpoint, artifacts, loop
<1>1. CASE Attempt
  BY <1>1 DEF Attempt
<1>2. CASE InitializeCheckpoint
  BY <1>2 DEF InitializeCheckpoint
<1>3. CASE LoadCheckpoint
  BY <1>3 DEF LoadCheckpoint
<1>4. CASE RefuseCheckpoint
  BY <1>4 DEF RefuseCheckpoint
<1>5. CASE ReuseCase
  BY <1>5 DEF ReuseCase
<1>6. CASE GenerateCase
  BY <1>6 DEF GenerateCase
<1>7. CASE AppendCase
  BY <1>7 DEF AppendCase
<1>8. CASE TruncatePredictions
  BY <1>8 DEF TruncatePredictions
<1>9. CASE WritePredictions
  BY <1>9 DEF WritePredictions
<1>10. CASE EvaluateBenchmark
  BY <1>10 DEF EvaluateBenchmark
<1>11. CASE WriteSummary
  BY <1>11 DEF WriteSummary
<1>12. CASE WriteArtifact
  BY <1>12 DEF WriteArtifact
<1>13. CASE TruncateFailure
  BY <1>13 DEF TruncateFailure
<1>14. CASE WriteFailure
  BY <1>14 DEF WriteFailure
<1>15. CASE CompleteRun
  BY <1>15 DEF CompleteRun
<1>16. CASE RemoveCheckpoint
  <2>. SUFFICES ASSUME header # None, header' = None
                PROVE  DurableRemoval
    OBVIOUS
  <2>1. summaryFile = "scored"
    BY <1>16 DEF RemoveCheckpoint, Removable, DropCheckpoint
  <2>2. /\ runDone /\ predictionsFile = "whole" /\ InOrder(savedPredictions)
        /\ Len(savedPredictions) = NCases \/ CutShort(savedPredictions)
    BY <1>16, <2>1 DEF RemoveCheckpoint, Removable, DropCheckpoint, ScoreInv, KeepInv, Settled
  <2>3. CASE CutShort(savedPredictions)
    BY <2>2, <2>3 DEF CutShort, Quarantined
  <2>4. CASE Len(savedPredictions) = NCases
    <3>1. \A c \in Kept : c \in 1 .. Len(savedPredictions)
      BY <2>4 DEF Case
    <3>2. \A c \in Kept : savedPredictions[c].case = c /\ savedPredictions[c].done
      BY <1>16, <2>1, <2>2, <3>1 DEF RemoveCheckpoint, Removable, DropCheckpoint, KeepInv, Settled, InOrder
    <3>. QED
      BY <2>2, <3>1, <3>2
  <2>. QED
    BY <2>2, <2>3, <2>4
<1>17. CASE Return
  BY <1>17 DEF Return
<1>18. CASE Raise
  BY <1>18 DEF Raise
<1>19. CASE Kill
  BY <1>19 DEF Kill
<1>20. CASE Upgrade
  BY <1>20 DEF Upgrade
<1>21. CASE UNCHANGED vars
  BY <1>21 DEF vars
<1>. QED
  BY <1>1, <1>2, <1>3, <1>4, <1>5, <1>6, <1>7, <1>8, <1>9, <1>10, <1>11, <1>12, <1>13, <1>14, <1>15, <1>16, <1>17, <1>18, <1>19, <1>20, <1>21
     DEF Next

\* Where a torn append never loses its newline alone, the checkpoint is only
\* removed while the run is marked completed, and once every case in it is in a
\* whole predictions.jsonl or a failed canary has cut the predictions short
\* (capabilities.py:4146-4170).
THEOREM RemovalSafe ==
  ASSUME ~OpenTails
  PROVE  Spec => RemovedOnlyWhenDurable
<1>1. TypeInv /\ ScoreInv /\ KeepInv /\ [Next]_vars => [DurableRemoval]_vars
  BY RemovalStep
<1>. QED
  BY <1>1, KeepAlways, PTL DEF Spec, RemovedOnlyWhenDurable, DurableRemoval, Kept

=============================================================================
