--------------------------- MODULE RuntimeCatalog ---------------------------
(***************************************************************************)
(* The signed runtime catalog of runner-engine/runtime_catalog.rs: four    *)
(* metadata files fetched one after the other from a server that publishes *)
(* in between, verified together, cached as one generation and made active *)
(* by a pointer file.  Processes (the Desktop, the command line) share the *)
(* cache without a lock.                                                   *)
(*                                                                         *)
(* A published generation g has a file <<version, edition>> per role; the  *)
(* edition tells two contents of one version apart.  Signatures are taken  *)
(* for granted: what is served was signed at some time.                    *)
(***************************************************************************)
EXTENDS Naturals

CONSTANTS
    Procs,
    None,
    Generations,  \* what the server published, in any order of serving
    File,         \* File[g][role] = <<version, edition>>
    PinnedRoot,   \* version of the root the Runner was built with
    Budgets       \* bounds on what happens, one set of them per behaviour

VARIABLES
    served,   \* the generation the server serves
    expired,  \* expired files, <<role, file>>
    cached,   \* generation directories
    active,   \* active.json
    cat,      \* catalog operation of each process
    left,     \* what is left of the budget
    raced     \* a pointer was written over one its writer had not seen

catalogVars == <<served, expired, cached, active, cat, raced>>

\* Refreshes and loads, moves of the server, files that expire, store
\* operations, failing writes, kills.
Bounded == {"refresh", "serve", "expire", "store", "fault", "kill"}
Spend(kind) == left[kind] > 0 /\ left' = [left EXCEPT ![kind] = @ - 1]

Roles == {"root", "timestamp", "snapshot", "targets"}

\* Fetched in this order, one request each.
FetchOrder == <<"root", "timestamp", "snapshot", "targets">>

\* A bundle says from which published generation each file came.
Bundles == [Roles -> Generations]
FileOf(b, role) == File[b[role]][role]
Version(b, role) == FileOf(b, role)[1]
SameFiles(b, c) == \A role \in Roles : FileOf(b, role) = FileOf(c, role)

NoCatalogOp == [pc |-> "idle", got |-> 0, bundle |-> None, seen |-> None]

\* A machine that never refreshed, or one with a whole generation cached.
CatalogInit ==
    /\ served \in Generations
    /\ expired = {}
    /\ active \in {None} \union {[role \in Roles |-> g] : g \in Generations}
    /\ cached = {active} \ {None}
    /\ cat = [p \in Procs |-> NoCatalogOp]
    /\ raced = FALSE

-----------------------------------------------------------------------------
(* verify_runtime_catalog *)

\* The pinned root, or the one rotation that it signs.
RootTrusted(b) == Version(b, "root") \in {PinnedRoot, PinnedRoot + 1}

\* Mutant: a snapshot is taken for the one the timestamp names.
RefersNever(b) == TRUE

\* timestamp names the snapshot, the snapshot names the targets.
Refers(b) ==
    /\ File[b["timestamp"]]["snapshot"] = FileOf(b, "snapshot")
    /\ File[b["snapshot"]]["targets"] = FileOf(b, "targets")

Unexpired(b) == \A role \in Roles : <<role, FileOf(b, role)>> \notin expired

\* Mutant: only the catalog of targets is kept from going back.
NotOlderTargets(b, previous) ==
    previous = None \/ Version(b, "targets") >= Version(previous, "targets")

NotOlder(b, previous) ==
    previous = None \/ \A role \in Roles : Version(b, role) >= Version(previous, role)

Verified(b, previous) ==
    RootTrusted(b) /\ Refers(b) /\ Unexpired(b) /\ NotOlder(b, previous)

\* A role whose version is the previous one keeps its content.  Versions and
\* digests of the active generation are read one after the other.
Unchanged(b, previous, digests) ==
    \/ previous = None \/ digests = None
    \/ \A role \in Roles :
           \/ Version(b, role) # Version(previous, role)
           \/ FileOf(b, role) = FileOf(digests, role)

-----------------------------------------------------------------------------
(* Steps of one process *)

CatalogAt(p, loc) == cat[p].pc = loc
CatalogEnds(p) == cat' = [cat EXCEPT ![p] = NoCatalogOp]

\* The server moves on, or another mirror answers.
Serve ==
    /\ Spend("serve")
    /\ served' \in Generations \ {served}
    /\ UNCHANGED <<expired, cached, active, cat, raced>>

ExpireFile ==
    /\ Spend("expire")
    /\ \E g \in Generations, role \in {"timestamp", "targets"} :
           expired' = expired \union {<<role, File[g][role]>>}
    /\ UNCHANGED <<served, cached, active, cat, raced>>

StartCatalogOp(p, loc) ==
    /\ cat[p] = NoCatalogOp
    /\ Spend("refresh")
    /\ cat' = [cat EXCEPT ![p].pc = loc]
    /\ UNCHANGED <<served, expired, cached, active, raced>>

StartRefresh(p) == StartCatalogOp(p, "fetch")
StartLoad(p) == StartCatalogOp(p, "load")

\* One file, or the request fails and the cache has to do.
FetchMetadata(p) ==
    /\ CatalogAt(p, "fetch")
    /\ LET got == cat[p].got + 1
           files == IF got = 1 THEN [r \in Roles |-> served]
                    ELSE [cat[p].bundle EXCEPT ![FetchOrder[got]] = served]
       IN \/ cat' = [cat EXCEPT ![p] =
                  [pc |-> IF got = 4 THEN "verify" ELSE "fetch", got |-> got,
                   bundle |-> files, seen |-> None]]
          \/ cat' = [cat EXCEPT ![p] = [NoCatalogOp EXCEPT !.pc = "load"]]
    /\ UNCHANGED <<served, expired, cached, active, left, raced>>

\* activate_runtime_catalog: the versions of the active generation are read
\* and the bundle is verified against them.
VerifyFetched(p) ==
    /\ CatalogAt(p, "verify")
    /\ IF Verified(cat[p].bundle, active)
       THEN cat' = [cat EXCEPT ![p].pc = "digests", ![p].seen = active]
       ELSE CatalogEnds(p)
    /\ UNCHANGED <<served, expired, cached, active, left, raced>>

CompareDigests(p) ==
    /\ CatalogAt(p, "digests")
    /\ IF Unchanged(cat[p].bundle, cat[p].seen, active)
       THEN cat' = [cat EXCEPT ![p].pc = "cache"]
       ELSE CatalogEnds(p)
    /\ UNCHANGED <<served, expired, cached, active, left, raced>>

\* Staged under the process's own name and renamed whole.
CacheGeneration(p) ==
    /\ CatalogAt(p, "cache")
    /\ cached' = cached \union {cat[p].bundle}
    /\ cat' = [cat EXCEPT ![p].pc = "point"]
    /\ UNCHANGED <<served, expired, active, left, raced>>

ActivatePointer(p) ==
    /\ CatalogAt(p, "point")
    /\ active' = cat[p].bundle
    /\ raced' = (raced \/ active # cat[p].seen)
    /\ CatalogEnds(p)
    /\ UNCHANGED <<served, expired, cached, left>>

\* load_active_runtime_catalog: the generation the pointer names ...
LoadGeneration(p) ==
    /\ CatalogAt(p, "load")
    /\ IF active = None \/ active \notin cached
       THEN CatalogEnds(p)
       ELSE cat' = [cat EXCEPT ![p].pc = "check", ![p].bundle = active]
    /\ UNCHANGED <<served, expired, cached, active, left, raced>>

\* Mutant: the versions are those of the generation that was read.
VerifyLoadedAlone(p) ==
    /\ CatalogAt(p, "check")
    /\ IF Verified(cat[p].bundle, None)
       THEN cat' = [cat EXCEPT ![p].pc = "loaded"] ELSE CatalogEnds(p)
    /\ UNCHANGED <<served, expired, cached, active, left, raced>>

\* ... and the versions it names by then.
VerifyLoaded(p) ==
    /\ CatalogAt(p, "check")
    /\ IF Verified(cat[p].bundle, active)
       THEN cat' = [cat EXCEPT ![p].pc = "loaded"] ELSE CatalogEnds(p)
    /\ UNCHANGED <<served, expired, cached, active, left, raced>>

CatalogStep(p) ==
    \/ StartRefresh(p) \/ StartLoad(p) \/ FetchMetadata(p) \/ VerifyFetched(p)
    \/ CompareDigests(p) \/ CacheGeneration(p) \/ ActivatePointer(p)
    \/ LoadGeneration(p) \/ VerifyLoaded(p)

CatalogWorld == Serve \/ ExpireFile

-----------------------------------------------------------------------------
(* Properties *)

\* ActiveIsOneGeneration: although its files are fetched one by one while
\* the server publishes, and a process may be killed at any step, what the
\* pointer names is a whole cached generation, in which timestamp and
\* snapshot, and snapshot and targets, were published together.
ActiveIsOneGeneration ==
    active # None =>
        /\ active \in cached
        /\ \E g, h \in Generations :
              /\ FileOf(active, "timestamp") = File[g]["timestamp"]
              /\ FileOf(active, "snapshot") = File[g]["snapshot"]
              /\ FileOf(active, "snapshot") = File[h]["snapshot"]
              /\ FileOf(active, "targets") = File[h]["targets"]

\* ActiveOnlyMovesForward: without two refreshes that overlap, no role's
\* version goes back and no content changes under its version, whatever the
\* server serves.
ActiveOnlyMovesForward ==
    [][~raced' /\ active # None =>
          \A role \in Roles :
              \/ Version(active', role) > Version(active, role)
              \/ FileOf(active', role) = FileOf(active, role)]_catalogVars

\* LoadedIsCurrent: a catalog that is loaded for a decision is the active
\* one at that time, even if another process moved the pointer during the
\* load; only overlapping refreshes break it.
LoadedIsCurrent ==
    [][\A p \in Procs :
          cat'[p].pc = "loaded" /\ cat[p].pc # "loaded" /\ ~raced =>
              SameFiles(cat'[p].bundle, active)]_catalogVars
=============================================================================
