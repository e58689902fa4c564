--------------------------- MODULE BundleContract ---------------------------
(***************************************************************************)
(* What run_infergrade promises its callers about one output directory: it *)
(* is worked on by attempts, it is bound to one runtime build once and for *)
(* all, and it becomes complete only within an attempt that knows the      *)
(* build.  A complete directory is not attempted again; only the attempt   *)
(* that completed it may still take that back before it returns.           *)
(*                                                                         *)
(* WorkerJob takes run_infergrade for a step that ends in Finish or in an  *)
(* exception; RunBundle implements this contract.                          *)
(***************************************************************************)

CONSTANTS
    Builds,   \* runtime builds
    None

VARIABLES
    state,     \* "empty", "partial" or "complete"
    runtime,   \* the build the directory is bound to, or None
    running    \* an attempt is working on it

contractVars == <<state, runtime, running>>

Init ==
    /\ state \in {"empty", "partial"}
    /\ runtime = None
    /\ running = FALSE

Begin ==
    /\ ~running
    /\ state # "complete"
    /\ running' = TRUE
    /\ state' = "partial"
    /\ UNCHANGED runtime

Bind ==
    /\ running
    /\ runtime = None
    /\ runtime' \in Builds
    /\ UNCHANGED <<state, running>>

Finish ==
    /\ running
    /\ runtime # None
    /\ state = "partial"
    /\ state' = "complete"
    /\ UNCHANGED <<runtime, running>>

Reopen ==
    /\ running
    /\ state = "complete"
    /\ state' = "partial"
    /\ UNCHANGED <<runtime, running>>

Stop ==
    /\ running
    /\ running' = FALSE
    /\ UNCHANGED <<state, runtime>>

Next == Begin \/ Bind \/ Finish \/ Reopen \/ Stop

Spec == Init /\ [][Next]_contractVars
=============================================================================
