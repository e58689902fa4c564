--------------------------- MODULE ManagedRuntime ---------------------------
(***************************************************************************)
(* The runtime catalog and the runtime store of one machine together: a    *)
(* process that has loaded a verified catalog installs a target it offers  *)
(* (install_active_runtime_catalog_target), after the user's consent to    *)
(* the exact build; everything else goes on beside it.                     *)
(***************************************************************************)
EXTENDS RuntimeStore

CONSTANTS
    Offered    \* Offered[f]: the targets the targets file f does not revoke

ASSUME RuntimeAssumption ==
    /\ {None, Torn, Own} \intersect Builds = {}
    /\ None \notin Bundles
    /\ Entries \subseteq Builds
    /\ {Claim, Archive, Fallback} \subseteq [Targets -> Builds]
    /\ File \in [Generations -> [Roles -> Nat \X Nat]]
    /\ \A g \in Generations : Offered[File[g]["targets"]] \subseteq Targets

vars == <<catalogVars, storeVars, left>>

Init == CatalogInit /\ StoreInit /\ left \in Budgets

\* Operations of one process follow one another.
Free(p) == cat[p] = NoCatalogOp /\ op[p] = NoOp

\* The target is for this platform, not revoked and consented to.
InstallTarget(p) ==
    /\ CatalogAt(p, "loaded")
    /\ CatalogEnds(p)
    /\ StartTarget(p, Offered[FileOf(cat[p].bundle, "targets")])
    /\ UNCHANGED <<served, expired, cached, active, raced>>

\* ... or the catalog was only to be looked at.
Decline(p) ==
    /\ CatalogAt(p, "loaded")
    /\ CatalogEnds(p)
    /\ UNCHANGED <<served, expired, cached, active, raced, storeVars, left>>

Kill(p) ==
    /\ ~Free(p)
    /\ Spend("kill")
    /\ CatalogEnds(p)
    /\ StoreKilled(p)
    /\ UNCHANGED <<served, expired, cached, active, raced>>

Next ==
    \/ \E p \in Procs :
           \/ op[p] = NoOp /\ CatalogStep(p) /\ UNCHANGED storeVars
           \/ Free(p) /\ StoreStart(p) /\ UNCHANGED catalogVars
           \/ StoreStep(p) /\ UNCHANGED catalogVars
           \/ InstallTarget(p) \/ Decline(p) \/ Kill(p)
    \/ CatalogWorld /\ UNCHANGED storeVars

Spec == Init /\ [][Next]_vars
=============================================================================
