---------------------------- MODULE RuntimeStore ----------------------------
(***************************************************************************)
(* The managed llama.cpp runtimes of runner-engine/lib.rs: immutable       *)
(* content-addressed builds, the selected runtime, the history of          *)
(* selections that can be rolled back to, and the operations that install, *)
(* select, roll back and clear.  Processes share them without a lock; the  *)
(* selection is replaced by rename, except for a binary of the user's own, *)
(* whose selection is written in place.                                    *)
(*                                                                         *)
(* A build stands for its content.  A target of the catalog claims a build *)
(* and names the build to go back to when the archive holds another one.   *)
(***************************************************************************)
EXTENDS RuntimeCatalog

CONSTANTS
    Builds,
    Sound,      \* builds whose every required binary passes its smoke test
    Entries,    \* builds of the manifest the Runner was built with
    Targets,    \* targets of the catalog
    Claim,      \* Claim[t]: the build a target claims
    Archive,    \* Archive[t]: the build its archive holds
    Fallback,   \* Fallback[t]: the build to restore
    Torn,       \* a selection file cut off
    Own         \* a selection of the user's binary

VARIABLES
    built,      \* the build directories
    history,    \* the archived selections, one per build
    selected,   \* selected_runtime.json
    op,         \* store operation of each process
    kept,       \* builds a completed target install promises to go back to
    excused     \* a kill or a failing write came between selection and check,
                \* or the user rolled back to a build nobody vouches for

storeVars == <<built, history, selected, op, kept, excused>>

NoOp == [kind |-> "none", pc |-> "idle", build |-> None, target |-> None]

\* Nothing is installed, or a build the Runner came with.
StoreInit ==
    /\ built \in {{}} \union {{b} : b \in Entries \intersect Sound}
    /\ history = {}
    /\ selected \in built \union {None}
    /\ op = [p \in Procs |-> NoOp]
    /\ kept = {}
    /\ excused = FALSE

\* Builds the Runner came with or the signed catalog names.
Vouched == Entries \union UNION {{Claim[t], Fallback[t]} : t \in Targets}

-----------------------------------------------------------------------------
StoreAt(p, loc) == op[p].pc = loc
StoreGoto(p, loc) == op' = [op EXCEPT ![p].pc = loc]
StoreEnds(p) == op' = [op EXCEPT ![p] = NoOp]

Begin(p, kind, loc, build, target) ==
    /\ op[p] = NoOp
    /\ Spend("store")
    /\ op' = [op EXCEPT ![p] = [kind |-> kind, pc |-> loc, build |-> build,
                                target |-> target]]

Idle(p) == UNCHANGED <<built, history, selected, kept, excused>>

StartInstall(p) ==
    /\ \E b \in Entries : Begin(p, "install", "fetch", b, None)
    /\ Idle(p)

\* install_runtime_catalog_target for a target the catalog in hand offers.
StartTarget(p, offered) ==
    /\ \E t \in offered : Begin(p, "target", "rollback", Archive[t], t)
    /\ Idle(p)

StartSelectOwn(p) == Begin(p, "own", "truncate", None, None) /\ Idle(p)
StartRollback(p) ==
    /\ \E b \in Builds : Begin(p, "rollback", "rollback", b, None)
    /\ Idle(p)
StartRemove(p) == Begin(p, "remove", "read", None, None) /\ Idle(p)

\* Mutant: the selected build is taken without archiving its selection.
RollbackUnarchived(p) ==
    LET wanted == IF op[p].kind = "target" THEN Fallback[op[p].target] ELSE op[p].build
    IN /\ StoreAt(p, "rollback")
       /\ IF selected = wanted \/ wanted \in history \intersect built
          THEN StoreGoto(p, IF op[p].kind = "target" THEN "fetch" ELSE "archive")
          ELSE StoreEnds(p)
       /\ UNCHANGED <<built, history, selected, left, kept, excused>>

\* ensure_rollback_selection: the selected build is archived at once, any
\* other must be in the history and installed.
EnsureRollback(p) ==
    LET wanted == IF op[p].kind = "target" THEN Fallback[op[p].target] ELSE op[p].build
        next == StoreGoto(p, IF op[p].kind = "target" THEN "fetch" ELSE "archive")
    IN /\ StoreAt(p, "rollback")
       /\ \/ selected = wanted /\ history' = history \union {wanted} /\ next
          \/ /\ selected # wanted /\ UNCHANGED history
             /\ IF wanted \in history \intersect built THEN next ELSE StoreEnds(p)
       /\ UNCHANGED <<built, selected, left, kept, excused>>

\* The download or its digest fails.
FetchArchive(p) ==
    /\ StoreAt(p, "fetch")
    /\ \/ StoreGoto(p, "smoke")
       \/ StoreEnds(p)
    /\ UNCHANGED <<built, history, selected, left, kept, excused>>

\* Mutant: a build that does not start is installed all the same.
SmokeNothing(p) ==
    /\ StoreAt(p, "smoke")
    /\ StoreGoto(p, "activate")
    /\ UNCHANGED <<built, history, selected, left, kept, excused>>

\* Extracted under a staging name: every required binary is there and runs.
SmokeBuild(p) ==
    /\ StoreAt(p, "smoke")
    /\ IF op[p].build \in Sound THEN StoreGoto(p, "activate") ELSE StoreEnds(p)
    /\ UNCHANGED <<built, history, selected, left, kept, excused>>

\* Renamed to the name of its content, or found there already; the build's
\* manifest and source assertion are added under that name.
ActivateBuild(p) ==
    /\ StoreAt(p, "activate")
    /\ built' = built \union {op[p].build}
    /\ StoreGoto(p, "archive")
    /\ UNCHANGED <<history, selected, left, kept, excused>>

-----------------------------------------------------------------------------
(* write_selected_llama_cpp_runtime *)

\* The selection that is there is archived, unless it is no build's.
ArchiveSelection(p) ==
    /\ op[p].pc \in {"archive", "rearchive"}
    /\ history' = IF selected \in Builds THEN history \union {selected} ELSE history
    /\ StoreGoto(p, IF StoreAt(p, "archive") THEN "select" ELSE "restore")
    /\ UNCHANGED <<built, selected, left, kept, excused>>

SelectBuild(p) ==
    /\ StoreAt(p, "select")
    /\ \/ /\ selected' = op[p].build
          /\ IF op[p].kind = "target" THEN StoreGoto(p, "validate") ELSE StoreEnds(p)
          /\ excused' = \/ excused
                        \/ op[p].kind = "rollback" /\ op[p].build \notin Vouched
          /\ UNCHANGED left
       \/ Spend("fault") /\ StoreEnds(p) /\ UNCHANGED <<selected, excused>>
    /\ UNCHANGED <<built, history, kept>>

\* Mutant: the check only reports.
ValidateAndReport(p) ==
    /\ StoreAt(p, "validate")
    /\ StoreEnds(p)
    /\ UNCHANGED <<built, history, selected, left, kept, excused>>

\* validate_install: the archive held the build the target claims, or the
\* rollback selection comes back.
ValidateInstall(p) ==
    /\ StoreAt(p, "validate")
    /\ IF op[p].build = Claim[op[p].target]
       THEN StoreEnds(p) /\ kept' = kept \union {Fallback[op[p].target]}
       ELSE StoreGoto(p, "rearchive") /\ UNCHANGED kept
    /\ UNCHANGED <<built, history, selected, left, excused>>

RestoreSelection(p) ==
    /\ StoreAt(p, "restore")
    /\ StoreEnds(p)
    /\ \/ selected' = Fallback[op[p].target] /\ UNCHANGED <<left, excused>>
       \/ Spend("fault") /\ excused' = TRUE /\ UNCHANGED selected
    /\ UNCHANGED <<built, history, kept>>

-----------------------------------------------------------------------------
(* The user's own binary, and clearing the selection *)

TruncateSelection(p) ==
    /\ StoreAt(p, "truncate")
    /\ selected' = Torn
    /\ StoreGoto(p, "fill")
    /\ UNCHANGED <<built, history, left, kept, excused>>

FillSelection(p) ==
    /\ StoreAt(p, "fill")
    /\ \/ selected' = Own /\ UNCHANGED left
       \/ Spend("fault") /\ UNCHANGED selected
    /\ StoreEnds(p)
    /\ UNCHANGED <<built, history, kept, excused>>

\* A selection that does not parse is not removed.
ReadSelection(p) ==
    /\ StoreAt(p, "read")
    /\ IF selected = Torn THEN StoreEnds(p) ELSE StoreGoto(p, "unlink")
    /\ UNCHANGED <<built, history, selected, left, kept, excused>>

\* Mutant: the bytes of the build go with its selection.
UnlinkWithBuild(p) ==
    /\ StoreAt(p, "unlink")
    /\ selected' = None
    /\ built' = built \ {selected}
    /\ StoreEnds(p)
    /\ UNCHANGED <<history, left, kept, excused>>

\* Whatever is selected by then; managed bytes are never deleted.
UnlinkSelection(p) ==
    /\ StoreAt(p, "unlink")
    /\ selected' = None
    /\ StoreEnds(p)
    /\ UNCHANGED <<built, history, left, kept, excused>>

StoreStart(p) ==
    \/ StartInstall(p) \/ StartSelectOwn(p) \/ StartRollback(p) \/ StartRemove(p)

StoreStep(p) ==
    \/ EnsureRollback(p) \/ FetchArchive(p) \/ SmokeBuild(p) \/ ActivateBuild(p)
    \/ ArchiveSelection(p) \/ SelectBuild(p) \/ ValidateInstall(p)
    \/ RestoreSelection(p) \/ TruncateSelection(p) \/ FillSelection(p)
    \/ ReadSelection(p) \/ UnlinkSelection(p)

\* A process dies: its operation is gone, a staging directory is left.
StoreKilled(p) ==
    /\ op' = [op EXCEPT ![p] = NoOp]
    /\ excused' = (excused \/ op[p].pc \in {"validate", "rearchive", "restore"})
    /\ UNCHANGED <<built, history, selected, kept>>

-----------------------------------------------------------------------------
(* Properties *)

\* SelectedIsSound: a build that is selected, or that can be rolled back to,
\* is installed and passed its smoke tests: no failing install, kill, clear
\* or operation of another process leaves one that is not.
SelectedIsSound ==
    /\ selected \in Builds => selected \in built
    /\ history \subseteq built
    /\ built \subseteq Sound

\* UnclaimedIsTemporary: a build that is not the one its target claims is
\* selected only while the install that found out restores the fallback; it
\* stays if that process is killed or cannot write, and comes back when the
\* user asks for it by its name.
Undoing(p) == op[p].pc \in {"validate", "rearchive", "restore"}
UnclaimedIsTemporary ==
    selected \in Builds \ Vouched => excused \/ \E p \in Procs : Undoing(p)

\* FallbackStays: once a target is installed, its fallback can be selected
\* again for good: its selection is archived and its bytes are kept.
FallbackStays == kept \subseteq history \intersect built
=============================================================================
