------------------------ MODULE ManagedRuntimeProofs ------------------------
(* Safety of ManagedRuntime for any processes, generations, builds, targets  *)
(* and budgets.                                                              *)
EXTENDS ManagedRuntime, TLAPS

-----------------------------------------------------------------------------
(* Versions.  One catalog follows another when no role's version goes back   *)
(* and no content changes under its version.                                 *)

Known == Bundles \union {None}

Follows(b, a) ==
    a # None =>
        /\ b # None
        /\ \A role \in Roles : \/ Version(b, role) > Version(a, role)
                               \/ FileOf(b, role) = FileOf(a, role)

LEMMA FileTyped ==
  ASSUME NEW b \in Bundles, NEW role \in Roles
  PROVE  FileOf(b, role) \in Nat \X Nat /\ Version(b, role) \in Nat
<1>1. FileOf(b, role) \in Nat \X Nat
  BY RuntimeAssumption DEF Bundles, FileOf
<1>. QED
  BY <1>1 DEF Version

LEMMA FollowsSelf == ASSUME NEW a \in Known PROVE Follows(a, a)
  BY DEF Follows

LEMMA FollowsOn ==
  ASSUME NEW a \in Known, NEW b \in Known, NEW c \in Known,
         Follows(c, b), Follows(b, a)
  PROVE  Follows(c, a)
<1>1. CASE a = None
  BY <1>1 DEF Follows
<1>2. CASE a # None
  <2>1. b # None /\ c # None
    BY <1>2 DEF Follows
  <2>2. ASSUME NEW role \in Roles
        PROVE  Version(c, role) > Version(a, role) \/ FileOf(c, role) = FileOf(a, role)
    <3>1. Version(a, role) \in Nat /\ Version(b, role) \in Nat /\ Version(c, role) \in Nat
      BY <1>2, <2>1, FileTyped DEF Known
    <3>2. Version(b, role) > Version(a, role) \/ FileOf(b, role) = FileOf(a, role)
      BY <1>2 DEF Follows
    <3>3. Version(c, role) > Version(b, role) \/ FileOf(c, role) = FileOf(b, role)
      BY <2>1 DEF Follows
    <3>4. FileOf(b, role) = FileOf(a, role) => Version(b, role) = Version(a, role)
      BY DEF Version
    <3>5. FileOf(c, role) = FileOf(b, role) => Version(c, role) = Version(b, role)
      BY DEF Version
    <3>. QED
      BY <3>1, <3>2, <3>3, <3>4, <3>5
  <2>. QED
    BY <2>1, <2>2 DEF Follows
<1>. QED
  BY <1>1, <1>2

\* The comparison of digests, although the digests may be of a later active
\* generation than the versions, establishes that the bundle follows.
LEMMA DigestsFollow ==
  ASSUME NEW b \in Bundles, NEW seen \in Known, NEW digests \in Known,
         NotOlder(b, seen), Unchanged(b, seen, digests), Follows(digests, seen)
  PROVE  Follows(b, seen)
<1>. SUFFICES ASSUME seen # None PROVE Follows(b, seen)
  BY DEF Follows
<1>1. digests # None
  BY DEF Follows
<1>2. b # None
  BY RuntimeAssumption
<1>3. ASSUME NEW role \in Roles
      PROVE  Version(b, role) > Version(seen, role) \/ FileOf(b, role) = FileOf(seen, role)
  <2>1. Version(b, role) \in Nat /\ Version(seen, role) \in Nat /\ Version(digests, role) \in Nat
    BY <1>1, FileTyped DEF Known
  <2>2. Version(b, role) >= Version(seen, role)
    BY DEF NotOlder
  <2>3. Version(b, role) # Version(seen, role) \/ FileOf(b, role) = FileOf(digests, role)
    BY <1>1 DEF Unchanged
  <2>4. Version(digests, role) > Version(seen, role) \/ FileOf(digests, role) = FileOf(seen, role)
    BY DEF Follows
  <2>5. FileOf(b, role) = FileOf(digests, role) => Version(b, role) = Version(digests, role)
    BY DEF Version
  <2>. QED
    BY <2>1, <2>2, <2>3, <2>4, <2>5
<1>. QED
  BY <1>2, <1>3 DEF Follows

\* Two that are not older than each other are the same.
LEMMA FollowsSame ==
  ASSUME NEW a \in Bundles, NEW b \in Known, Follows(b, a), NotOlder(a, b)
  PROVE  SameFiles(a, b)
<1>1. a # None /\ b # None
  BY RuntimeAssumption DEF Follows
<1>2. ASSUME NEW role \in Roles PROVE FileOf(a, role) = FileOf(b, role)
  <2>1. Version(a, role) \in Nat /\ Version(b, role) \in Nat
    BY <1>1, FileTyped DEF Known
  <2>2. Version(a, role) >= Version(b, role)
    BY <1>1 DEF NotOlder
  <2>3. Version(b, role) > Version(a, role) \/ FileOf(b, role) = FileOf(a, role)
    BY <1>1 DEF Follows
  <2>. QED
    BY <2>1, <2>2, <2>3
<1>. QED
  BY <1>2 DEF SameFiles

-----------------------------------------------------------------------------
(* The catalog.                                                              *)

CatalogLocations ==
    {"idle", "fetch", "verify", "digests", "cache", "point", "load", "check", "loaded"}
CatalogOps == [pc : CatalogLocations, got : 0 .. 4, bundle : Known, seen : Known]

CatalogTyped ==
    /\ served \in Generations
    /\ cached \subseteq Bundles
    /\ active \in Known
    /\ raced \in BOOLEAN
    /\ cat \in [Procs -> CatalogOps]

\* What an operation holds where it stands.
HeldBy(q) ==
    /\ cat[q].pc \in {"verify", "digests", "cache", "point", "check", "loaded"} =>
           cat[q].bundle \in Bundles
    /\ cat[q].pc = "fetch" =>
           cat[q].got # 4 /\ (cat[q].got # 0 => cat[q].bundle \in Bundles)
    /\ cat[q].pc \in {"digests", "cache", "point"} =>
           Refers(cat[q].bundle) /\ NotOlder(cat[q].bundle, cat[q].seen)
    /\ cat[q].pc = "point" => cat[q].bundle \in cached
HeldInv == \A q \in Procs : HeldBy(q)

\* Without a race the active generation has only moved forward since an
\* operation read it.
ForwardFrom(q) ==
    ~raced =>
        /\ cat[q].pc \in {"digests", "cache", "point"} => Follows(active, cat[q].seen)
        /\ cat[q].pc \in {"cache", "point"} => Follows(cat[q].bundle, cat[q].seen)
        /\ cat[q].pc = "check" => Follows(active, cat[q].bundle)
ForwardInv == \A q \in Procs : ForwardFrom(q)

ActiveInv == active # None => active \in cached /\ Refers(active)

CatalogInv == CatalogTyped /\ HeldInv /\ ForwardInv /\ ActiveInv

Leaves(p) == CatalogEnds(p) /\ UNCHANGED <<served, expired, cached, active, raced>>

\* What happens to the catalog.
LEMMA CatalogChange ==
  ASSUME [Next]_vars
  PROVE  \/ UNCHANGED catalogVars
         \/ \E p \in Procs :
               \/ StartRefresh(p) \/ StartLoad(p) \/ FetchMetadata(p) \/ VerifyFetched(p)
               \/ CompareDigests(p) \/ CacheGeneration(p) \/ ActivatePointer(p)
               \/ LoadGeneration(p) \/ VerifyLoaded(p) \/ Leaves(p)
         \/ Serve \/ ExpireFile
  BY DEF Next, CatalogStep, CatalogWorld, InstallTarget, Decline, Kill, Leaves,
         catalogVars, vars

\* A fetch in progress: whichever generation each file came from.
Fetching(got, files) ==
    [pc |-> IF got = 4 THEN "verify" ELSE "fetch", got |-> got,
     bundle |-> files, seen |-> None]

LEMMA Fetched ==
  ASSUME CatalogInv, NEW p \in Procs, FetchMetadata(p)
  PROVE  \/ \E got \in 1 .. 4, files \in Bundles :
               cat' = [cat EXCEPT ![p] = Fetching(got, files)]
         \/ cat' = [cat EXCEPT ![p] = [NoCatalogOp EXCEPT !.pc = "load"]]
<1>. DEFINE got == cat[p].got + 1
<1>. DEFINE files == IF got = 1 THEN [r \in Roles |-> served]
                     ELSE [cat[p].bundle EXCEPT ![FetchOrder[got]] = served]
<1>1. got \in 1 .. 4
  BY DEF FetchMetadata, CatalogAt, CatalogInv, CatalogTyped, HeldInv, HeldBy, CatalogOps
<1>2. files \in Bundles
  <2>1. got # 1 => cat[p].bundle \in [Roles -> Generations]
    BY <1>1 DEF FetchMetadata, CatalogAt, CatalogInv, CatalogTyped, HeldInv, HeldBy,
       Bundles, CatalogOps
  <2>2. served \in Generations
    BY DEF CatalogInv, CatalogTyped
  <2>. HIDE DEF got
  <2>. QED
    BY <2>1, <2>2 DEF Bundles
<1>3. \/ cat' = [cat EXCEPT ![p] = Fetching(got, files)]
      \/ cat' = [cat EXCEPT ![p] = [NoCatalogOp EXCEPT !.pc = "load"]]
  BY DEF FetchMetadata, Fetching
<1>. HIDE DEF got, files
<1>. QED
  BY <1>1, <1>2, <1>3

\* Every operation stays what it is.
LEMMA CatalogStepTyped ==
  ASSUME CatalogInv, [Next]_vars
  PROVE  CatalogTyped'
<1>0. DOMAIN cat = Procs /\ NoCatalogOp \in CatalogOps
  BY DEF CatalogInv, CatalogTyped, CatalogOps, NoCatalogOp, Known, CatalogLocations
<1>. USE DEF CatalogInv, CatalogTyped
<1>1. ASSUME NEW p \in Procs, StartRefresh(p) \/ StartLoad(p) PROVE CatalogTyped'
  BY <1>1, <1>0 DEF StartRefresh, StartLoad, StartCatalogOp, CatalogOps, CatalogLocations
<1>2. ASSUME NEW p \in Procs, FetchMetadata(p) PROVE CatalogTyped'
  <2>1. UNCHANGED <<served, expired, cached, active, raced>>
    BY <1>2 DEF FetchMetadata
  <2>2. ASSUME NEW got \in 1 .. 4, NEW files \in Bundles
        PROVE  Fetching(got, files) \in CatalogOps
    BY DEF Fetching, CatalogOps, Known, CatalogLocations
  <2>3. [NoCatalogOp EXCEPT !.pc = "load"] \in CatalogOps
    BY <1>0 DEF CatalogOps, CatalogLocations
  <2>. QED
    BY <1>2, <2>1, <2>2, <2>3, Fetched
<1>3. ASSUME NEW p \in Procs, VerifyFetched(p) PROVE CatalogTyped'
  BY <1>3, <1>0 DEF VerifyFetched, CatalogEnds, CatalogOps, CatalogLocations
<1>4. ASSUME NEW p \in Procs, CompareDigests(p) PROVE CatalogTyped'
  BY <1>4, <1>0 DEF CompareDigests, CatalogEnds, CatalogOps, CatalogLocations
<1>5. ASSUME NEW p \in Procs, CacheGeneration(p) PROVE CatalogTyped'
  BY <1>5, <1>0
  DEF CacheGeneration, CatalogAt, HeldInv, HeldBy, CatalogOps, CatalogLocations
<1>6. ASSUME NEW p \in Procs, ActivatePointer(p) PROVE CatalogTyped'
  BY <1>6, <1>0 DEF ActivatePointer, CatalogEnds, CatalogOps
<1>7. ASSUME NEW p \in Procs, LoadGeneration(p) PROVE CatalogTyped'
  BY <1>7, <1>0 DEF LoadGeneration, CatalogEnds, CatalogOps, CatalogLocations
<1>8. ASSUME NEW p \in Procs, VerifyLoaded(p) \/ Leaves(p) PROVE CatalogTyped'
  BY <1>8, <1>0 DEF VerifyLoaded, Leaves, CatalogEnds, CatalogOps, CatalogLocations
<1>9. CASE Serve \/ ExpireFile
  BY <1>9 DEF Serve, ExpireFile
<1>10. CASE UNCHANGED catalogVars
  BY <1>10 DEF catalogVars
<1>. QED
  BY CatalogChange, <1>1, <1>2, <1>3, <1>4, <1>5, <1>6, <1>7, <1>8, <1>9, <1>10

\* One operation moves: the cache only grows, and the others hold what they
\* held.
LEMMA HeldStep ==
  ASSUME CatalogInv, [Next]_vars
  PROVE  HeldInv'
<1>. SUFFICES ASSUME NEW q \in Procs PROVE HeldBy(q)'
  BY DEF HeldInv
<1>0. /\ DOMAIN cat = Procs
      /\ \A x \in Procs : DOMAIN cat[x] = {"pc", "got", "bundle", "seen"}
      /\ HeldBy(q)
  BY DEF CatalogInv, CatalogTyped, CatalogOps, HeldInv
<1>. USE <1>0 DEF HeldBy, NoCatalogOp
<1>1. ASSUME NEW p \in Procs, StartRefresh(p) \/ StartLoad(p) PROVE HeldBy(q)'
  BY <1>1 DEF StartRefresh, StartLoad, StartCatalogOp
<1>2. ASSUME NEW p \in Procs, FetchMetadata(p) PROVE HeldBy(q)'
  <2>1. CASE p # q
    BY <1>2, <2>1 DEF FetchMetadata
  <2>2. CASE p = q
    <3>1. \/ \E got \in 1 .. 4, files \in Bundles : cat'[q] = Fetching(got, files)
          \/ cat'[q] = [NoCatalogOp EXCEPT !.pc = "load"]
      BY <1>2, <2>2, Fetched
    <3>2. ASSUME NEW got \in 1 .. 4, NEW files \in Bundles, cat'[q] = Fetching(got, files)
          PROVE  HeldBy(q)'
      <4>1. /\ cat'[q].pc \in {"verify", "fetch"} /\ cat'[q].bundle = files
            /\ cat'[q].pc = "fetch" => cat'[q].got # 4
        BY <3>2 DEF Fetching
      <4>. QED
        BY <4>1
    <3>. QED
      BY <3>1, <3>2
  <2>. QED
    BY <2>1, <2>2
<1>3. ASSUME NEW p \in Procs, VerifyFetched(p) PROVE HeldBy(q)'
  BY <1>3 DEF VerifyFetched, CatalogAt, CatalogEnds, Verified
<1>4. ASSUME NEW p \in Procs, CompareDigests(p) PROVE HeldBy(q)'
  BY <1>4 DEF CompareDigests, CatalogAt, CatalogEnds
<1>5. ASSUME NEW p \in Procs, CacheGeneration(p) PROVE HeldBy(q)'
  BY <1>5 DEF CacheGeneration, CatalogAt
<1>6. ASSUME NEW p \in Procs, ActivatePointer(p) PROVE HeldBy(q)'
  BY <1>6 DEF ActivatePointer, CatalogEnds
<1>7. ASSUME NEW p \in Procs, LoadGeneration(p) PROVE HeldBy(q)'
  BY <1>7 DEF LoadGeneration, CatalogEnds, CatalogInv, CatalogTyped
<1>8. ASSUME NEW p \in Procs, VerifyLoaded(p) \/ Leaves(p) PROVE HeldBy(q)'
  BY <1>8 DEF VerifyLoaded, Leaves, CatalogAt, CatalogEnds
<1>9. CASE Serve \/ ExpireFile
  BY <1>9 DEF Serve, ExpireFile
<1>10. CASE UNCHANGED catalogVars
  BY <1>10 DEF catalogVars
<1>. QED
  BY CatalogChange, <1>1, <1>2, <1>3, <1>4, <1>5, <1>6, <1>7, <1>8, <1>9, <1>10

\* While nothing raced, the active generation follows what was read of it.
LEMMA ForwardStep ==
  ASSUME CatalogInv, CatalogTyped', [Next]_vars
  PROVE  ForwardInv'
<1>. SUFFICES ASSUME NEW q \in Procs PROVE ForwardFrom(q)'
  BY DEF ForwardInv
<1>0. /\ DOMAIN cat = Procs
      /\ \A x \in Procs : DOMAIN cat[x] = {"pc", "got", "bundle", "seen"}
      /\ ForwardFrom(q)
  BY DEF CatalogInv, CatalogTyped, CatalogOps, ForwardInv
<1>. USE <1>0 DEF ForwardFrom, NoCatalogOp
<1>1. ASSUME NEW p \in Procs, StartRefresh(p) \/ StartLoad(p) PROVE ForwardFrom(q)'
  BY <1>1 DEF StartRefresh, StartLoad, StartCatalogOp
<1>2. ASSUME NEW p \in Procs, FetchMetadata(p) PROVE ForwardFrom(q)'
  <2>1. CASE p # q
    BY <1>2, <2>1 DEF FetchMetadata
  <2>2. CASE p = q
    BY <1>2, <2>2 DEF FetchMetadata
  <2>. QED
    BY <2>1, <2>2
<1>3. ASSUME NEW p \in Procs, VerifyFetched(p) PROVE ForwardFrom(q)'
  <2>1. Follows(active, active)
    BY FollowsSelf DEF CatalogInv, CatalogTyped
  <2>. QED
    BY <1>3, <2>1 DEF VerifyFetched, CatalogEnds
<1>4. ASSUME NEW p \in Procs, CompareDigests(p) PROVE ForwardFrom(q)'
  <2>1. CASE p # q \/ raced \/ cat'[q].pc # "cache"
    BY <1>4, <2>1 DEF CompareDigests, CatalogEnds
  <2>2. CASE p = q /\ ~raced /\ cat'[q].pc = "cache"
    <3>1. /\ cat[q].pc = "digests" /\ Unchanged(cat[q].bundle, cat[q].seen, active)
          /\ cat'[q].bundle = cat[q].bundle /\ cat'[q].seen = cat[q].seen
          /\ active' = active
      BY <1>4, <2>2 DEF CompareDigests, CatalogAt, CatalogEnds
    <3>2. /\ cat[q].bundle \in Bundles /\ cat[q].seen \in Known /\ active \in Known
          /\ NotOlder(cat[q].bundle, cat[q].seen)
      BY <3>1 DEF CatalogInv, CatalogTyped, CatalogOps, HeldInv, HeldBy
    <3>3. Follows(active, cat[q].seen)
      BY <2>2, <3>1
    <3>4. Follows(cat[q].bundle, cat[q].seen)
      BY <3>1, <3>2, <3>3, DigestsFollow
    <3>. QED
      BY <2>2, <3>1, <3>3, <3>4
  <2>. QED
    BY <2>1, <2>2
<1>5. ASSUME NEW p \in Procs, CacheGeneration(p) PROVE ForwardFrom(q)'
  BY <1>5 DEF CacheGeneration, CatalogAt
<1>6. ASSUME NEW p \in Procs, ActivatePointer(p) PROVE ForwardFrom(q)'
  <2>. SUFFICES ASSUME ~raced' PROVE ForwardFrom(q)'
    OBVIOUS
  <2>1. ~raced /\ active = cat[p].seen /\ active' = cat[p].bundle /\ cat[p].pc = "point"
    BY <1>6 DEF ActivatePointer, CatalogAt
  <2>2. Follows(active', active)
    BY <2>1 DEF CatalogInv, ForwardInv
  <2>3. ASSUME NEW a \in Known, Follows(active, a) PROVE Follows(active', a)
    BY <2>2, <2>3, FollowsOn DEF CatalogInv, CatalogTyped
  <2>4. cat[q].bundle \in Known /\ cat[q].seen \in Known
    BY DEF CatalogInv, CatalogTyped, CatalogOps
  <2>5. CASE p = q
    BY <1>6, <2>5 DEF ActivatePointer, CatalogEnds
  <2>6. CASE p # q
    <3>1. cat'[q] = cat[q]
      BY <1>6, <2>6 DEF ActivatePointer, CatalogEnds
    <3>. QED
      BY <2>1, <2>3, <2>4, <3>1
  <2>. QED
    BY <2>5, <2>6
<1>7. ASSUME NEW p \in Procs, LoadGeneration(p) PROVE ForwardFrom(q)'
  <2>1. Follows(active, active)
    BY FollowsSelf DEF CatalogInv, CatalogTyped
  <2>. QED
    BY <1>7, <2>1 DEF LoadGeneration, CatalogEnds
<1>8. ASSUME NEW p \in Procs, VerifyLoaded(p) \/ Leaves(p) PROVE ForwardFrom(q)'
  BY <1>8 DEF VerifyLoaded, Leaves, CatalogAt, CatalogEnds
<1>9. CASE Serve \/ ExpireFile
  BY <1>9 DEF Serve, ExpireFile
<1>10. CASE UNCHANGED catalogVars
  BY <1>10 DEF catalogVars
<1>. QED
  BY CatalogChange, <1>1, <1>2, <1>3, <1>4, <1>5, <1>6, <1>7, <1>8, <1>9, <1>10

\* Only a whole verified generation becomes the active one.
LEMMA ActiveStep ==
  ASSUME CatalogInv, [Next]_vars
  PROVE  ActiveInv'
<1>. USE DEF CatalogInv, ActiveInv
<1>1. ASSUME NEW p \in Procs, ActivatePointer(p) PROVE ActiveInv'
  BY <1>1 DEF ActivatePointer, CatalogAt, HeldInv, HeldBy
<1>2. ASSUME NEW p \in Procs, CacheGeneration(p) PROVE ActiveInv'
  BY <1>2 DEF CacheGeneration
<1>3. CASE UNCHANGED <<cached, active>>
  BY <1>3
<1>4. ASSUME NEW p \in Procs,
             \/ StartRefresh(p) \/ StartLoad(p) \/ FetchMetadata(p) \/ VerifyFetched(p)
             \/ CompareDigests(p) \/ LoadGeneration(p) \/ VerifyLoaded(p) \/ Leaves(p)
      PROVE  UNCHANGED <<cached, active>>
  BY <1>4 DEF StartRefresh, StartLoad, StartCatalogOp, FetchMetadata, VerifyFetched,
     CompareDigests, LoadGeneration, VerifyLoaded, Leaves
<1>5. CASE Serve \/ ExpireFile \/ UNCHANGED catalogVars
  BY <1>5, <1>3 DEF Serve, ExpireFile, catalogVars
<1>. QED
  BY CatalogChange, <1>1, <1>2, <1>3, <1>4, <1>5

-----------------------------------------------------------------------------
(* The store.                                                                *)

StoreLocations ==
    {"idle", "rollback", "fetch", "smoke", "activate", "archive", "select", "validate",
     "rearchive", "restore", "truncate", "fill", "read", "unlink"}
StoreOps == [kind : {"none", "install", "target", "own", "rollback", "remove"},
             pc : StoreLocations, build : Builds \union {None},
             target : Targets \union {None}]

StoreTyped ==
    /\ built \subseteq Builds
    /\ history \subseteq Builds
    /\ kept \subseteq Builds
    /\ selected \in Builds \union {None, Torn, Own}
    /\ excused \in BOOLEAN
    /\ op \in [Procs -> StoreOps]

\* What an operation may rely on where it stands.
Relies(q) ==
    /\ op[q].kind = "target" => op[q].target \in Targets
    /\ op[q].kind = "install" => op[q].build \in Entries
    /\ op[q].kind \in {"install", "target", "rollback"} => op[q].build \in Builds
    /\ op[q].pc \in {"archive", "select"} =>
           /\ op[q].build \in built
           /\ op[q].kind \in {"install", "target", "rollback"}
    /\ op[q].pc \in {"fetch", "smoke", "activate"} => op[q].kind \in {"install", "target"}
    /\ op[q].pc = "rollback" => op[q].kind \in {"rollback", "target"}
    /\ op[q].pc = "activate" => op[q].build \in Sound
    /\ Undoing(q) => op[q].kind = "target"
    /\ op[q].kind = "target" /\ op[q].pc # "rollback" =>
           Fallback[op[q].target] \in history \intersect built
ReliesInv == \A q \in Procs : Relies(q)

\* A selected build that nobody vouches for is the one an install still undoes.
ClaimInv ==
    selected \in Builds \ Vouched =>
        excused \/ \E q \in Procs : Undoing(q) /\ op[q].build = selected

StoreInv == StoreTyped /\ ReliesInv /\ SelectedIsSound /\ FallbackStays /\ ClaimInv

Offers(p) == \E offered \in SUBSET Targets : StartTarget(p, offered)

\* What happens to the store.
LEMMA StoreChange ==
  ASSUME CatalogInv, [Next]_vars
  PROVE  \/ UNCHANGED storeVars
         \/ \E p \in Procs :
               \/ StartInstall(p) \/ StartSelectOwn(p) \/ StartRollback(p)
               \/ StartRemove(p) \/ EnsureRollback(p) \/ FetchArchive(p)
               \/ SmokeBuild(p) \/ ActivateBuild(p) \/ ArchiveSelection(p)
               \/ SelectBuild(p) \/ ValidateInstall(p) \/ RestoreSelection(p)
               \/ TruncateSelection(p) \/ FillSelection(p) \/ ReadSelection(p)
               \/ UnlinkSelection(p) \/ StoreKilled(p) \/ Offers(p)
<1>1. ASSUME NEW p \in Procs, InstallTarget(p) PROVE Offers(p)
  <2>. DEFINE offered == Offered[FileOf(cat[p].bundle, "targets")]
  <2>1. cat[p].bundle \in [Roles -> Generations]
    BY <1>1 DEF InstallTarget, CatalogAt, CatalogInv, HeldInv, HeldBy, Bundles
  <2>2. cat[p].bundle["targets"] \in Generations
    BY <2>1 DEF Roles
  <2>3. offered \subseteq Targets
    BY <2>2, RuntimeAssumption DEF FileOf
  <2>4. StartTarget(p, offered)
    BY <1>1 DEF InstallTarget
  <2>. HIDE DEF offered
  <2>. QED
    BY <2>3, <2>4 DEF Offers
<1>2. ASSUME Next
      PROVE  \/ UNCHANGED storeVars
             \/ \E p \in Procs :
                   StoreStart(p) \/ StoreStep(p) \/ StoreKilled(p) \/ InstallTarget(p)
  BY <1>2 DEF Next, Decline, Kill
<1>3. UNCHANGED vars => UNCHANGED storeVars
  BY DEF vars
<1>. QED
  BY <1>1, <1>2, <1>3 DEF StoreStart, StoreStep

\* Every operation keeps its type.
LEMMA StoreStepTyped ==
  ASSUME CatalogInv, StoreInv, [Next]_vars
  PROVE  StoreTyped'
<1>0. /\ DOMAIN op = Procs /\ NoOp \in StoreOps
      /\ \A t \in Targets : Claim[t] \in Builds /\ Archive[t] \in Builds /\ Fallback[t] \in Builds
      /\ Entries \subseteq Builds
  BY RuntimeAssumption DEF StoreInv, StoreTyped, StoreOps, NoOp, StoreLocations
<1>. USE <1>0 DEF StoreInv, StoreTyped, StoreOps, StoreLocations
<1>1. ASSUME NEW p \in Procs, StartInstall(p) PROVE StoreTyped'
  BY <1>1 DEF StartInstall, Begin, Idle, NoOp
<1>2. ASSUME NEW p \in Procs, StartSelectOwn(p) PROVE StoreTyped'
  BY <1>2 DEF StartSelectOwn, Begin, Idle, NoOp
<1>3. ASSUME NEW p \in Procs, StartRollback(p) PROVE StoreTyped'
  BY <1>3 DEF StartRollback, Begin, Idle, NoOp
<1>4. ASSUME NEW p \in Procs, StartRemove(p) PROVE StoreTyped'
  BY <1>4 DEF StartRemove, Begin, Idle, NoOp
<1>5. ASSUME NEW p \in Procs, EnsureRollback(p) PROVE StoreTyped'
  BY <1>5 DEF EnsureRollback, StoreAt, StoreGoto, StoreEnds, ReliesInv, Relies, Undoing
<1>6. ASSUME NEW p \in Procs, FetchArchive(p) PROVE StoreTyped'
  BY <1>6 DEF FetchArchive, StoreAt, StoreGoto, StoreEnds
<1>7. ASSUME NEW p \in Procs, SmokeBuild(p) PROVE StoreTyped'
  BY <1>7 DEF SmokeBuild, StoreAt, StoreGoto, StoreEnds
<1>8. ASSUME NEW p \in Procs, ActivateBuild(p) PROVE StoreTyped'
  BY <1>8 DEF ActivateBuild, StoreAt, StoreGoto, StoreEnds, ReliesInv, Relies, Undoing
<1>9. ASSUME NEW p \in Procs, ArchiveSelection(p) PROVE StoreTyped'
  BY <1>9 DEF ArchiveSelection, StoreAt, StoreGoto, StoreEnds
<1>10. ASSUME NEW p \in Procs, SelectBuild(p) PROVE StoreTyped'
  <2>1. op[p].build \in Builds
    BY <1>10 DEF SelectBuild, StoreAt, ReliesInv, Relies
  <2>2. excused' \in BOOLEAN /\ selected' \in {selected, op[p].build}
    BY <1>10 DEF SelectBuild
  <2>3. UNCHANGED <<built, history, kept>>
    BY <1>10 DEF SelectBuild
  <2>4. op' = [op EXCEPT ![p].pc = "validate"] \/ op' = [op EXCEPT ![p] = NoOp]
    BY <1>10 DEF SelectBuild, StoreGoto, StoreEnds
  <2>. QED
    BY <2>1, <2>2, <2>3, <2>4
<1>11. ASSUME NEW p \in Procs, ValidateInstall(p) PROVE StoreTyped'
  BY <1>11 DEF ValidateInstall, StoreAt, StoreGoto, StoreEnds, ReliesInv, Relies,
     Undoing
<1>12. ASSUME NEW p \in Procs, RestoreSelection(p) PROVE StoreTyped'
  BY <1>12 DEF RestoreSelection, StoreAt, StoreGoto, StoreEnds, ReliesInv, Relies,
     Undoing
<1>13. ASSUME NEW p \in Procs, TruncateSelection(p) PROVE StoreTyped'
  BY <1>13 DEF TruncateSelection, StoreAt, StoreGoto, StoreEnds
<1>14. ASSUME NEW p \in Procs, FillSelection(p) PROVE StoreTyped'
  BY <1>14 DEF FillSelection, StoreAt, StoreGoto, StoreEnds
<1>15. ASSUME NEW p \in Procs, ReadSelection(p) PROVE StoreTyped'
  BY <1>15 DEF ReadSelection, StoreAt, StoreGoto, StoreEnds
<1>16. ASSUME NEW p \in Procs, UnlinkSelection(p) PROVE StoreTyped'
  BY <1>16 DEF UnlinkSelection, StoreAt, StoreGoto, StoreEnds
<1>17. ASSUME NEW p \in Procs, StoreKilled(p) PROVE StoreTyped'
  BY <1>17 DEF StoreKilled, NoOp
<1>18. ASSUME NEW p \in Procs, Offers(p) PROVE StoreTyped'
  BY <1>18 DEF Offers, StartTarget, Begin, Idle, NoOp
<1>19. CASE UNCHANGED storeVars
  BY <1>19 DEF storeVars
<1>. QED
  BY StoreChange, <1>1, <1>2, <1>3, <1>4, <1>5, <1>6, <1>7, <1>8, <1>9, <1>10, <1>11,
     <1>12, <1>13, <1>14, <1>15, <1>16, <1>17, <1>18, <1>19

\* The others keep what they rely on: builds and archived selections stay.
LEMMA ReliesStep ==
  ASSUME CatalogInv, StoreInv, [Next]_vars
  PROVE  ReliesInv'
<1>. SUFFICES ASSUME NEW q \in Procs PROVE Relies(q)'
  BY DEF ReliesInv
<1>0. /\ DOMAIN op = Procs
      /\ \A x \in Procs : DOMAIN op[x] = {"kind", "pc", "build", "target"}
      /\ Relies(q) /\ history \subseteq built
      /\ selected \in Builds => selected \in built
      /\ Entries \subseteq Builds
      /\ \A t \in Targets : Archive[t] \in Builds /\ Fallback[t] \in Builds
      /\ None \notin Builds
  BY RuntimeAssumption DEF StoreInv, StoreTyped, StoreOps, ReliesInv, SelectedIsSound
<1>. USE <1>0 DEF Relies, Undoing, NoOp
<1>1. ASSUME NEW p \in Procs, StartInstall(p) PROVE Relies(q)'
  BY <1>1 DEF StartInstall, Begin, Idle, NoOp
<1>2. ASSUME NEW p \in Procs, StartSelectOwn(p) PROVE Relies(q)'
  BY <1>2 DEF StartSelectOwn, Begin, Idle, NoOp
<1>3. ASSUME NEW p \in Procs, StartRollback(p) PROVE Relies(q)'
  BY <1>3 DEF StartRollback, Begin, Idle, NoOp
<1>4. ASSUME NEW p \in Procs, StartRemove(p) PROVE Relies(q)'
  BY <1>4 DEF StartRemove, Begin, Idle, NoOp
<1>5. ASSUME NEW p \in Procs, EnsureRollback(p) PROVE Relies(q)'
  BY <1>5 DEF EnsureRollback, StoreAt, StoreGoto, StoreEnds
<1>6. ASSUME NEW p \in Procs, FetchArchive(p) PROVE Relies(q)'
  BY <1>6 DEF FetchArchive, StoreAt, StoreGoto, StoreEnds
<1>7. ASSUME NEW p \in Procs, SmokeBuild(p) PROVE Relies(q)'
  BY <1>7 DEF SmokeBuild, StoreAt, StoreGoto, StoreEnds
<1>8. ASSUME NEW p \in Procs, ActivateBuild(p) PROVE Relies(q)'
  BY <1>8 DEF ActivateBuild, StoreAt, StoreGoto, StoreEnds
<1>9. ASSUME NEW p \in Procs, ArchiveSelection(p) PROVE Relies(q)'
  BY <1>9 DEF ArchiveSelection, StoreAt, StoreGoto, StoreEnds
<1>10. ASSUME NEW p \in Procs, SelectBuild(p) PROVE Relies(q)'
  <2>1. UNCHANGED <<built, history>>
    BY <1>10 DEF SelectBuild
  <2>2. \/ op[p].kind = "target" /\ op' = [op EXCEPT ![p].pc = "validate"]
        \/ op' = [op EXCEPT ![p] = NoOp]
    BY <1>10 DEF SelectBuild, StoreGoto, StoreEnds
  <2>3. op[p].pc = "select"
    BY <1>10 DEF SelectBuild, StoreAt
  <2>. QED
    BY <2>1, <2>2, <2>3
<1>11. ASSUME NEW p \in Procs, ValidateInstall(p) PROVE Relies(q)'
  BY <1>11 DEF ValidateInstall, StoreAt, StoreGoto, StoreEnds
<1>12. ASSUME NEW p \in Procs, RestoreSelection(p) PROVE Relies(q)'
  BY <1>12 DEF RestoreSelection, StoreAt, StoreGoto, StoreEnds
<1>13. ASSUME NEW p \in Procs, TruncateSelection(p) PROVE Relies(q)'
  BY <1>13 DEF TruncateSelection, StoreAt, StoreGoto, StoreEnds
<1>14. ASSUME NEW p \in Procs, FillSelection(p) PROVE Relies(q)'
  BY <1>14 DEF FillSelection, StoreAt, StoreGoto, StoreEnds
<1>15. ASSUME NEW p \in Procs, ReadSelection(p) PROVE Relies(q)'
  BY <1>15 DEF ReadSelection, StoreAt, StoreGoto, StoreEnds
<1>16. ASSUME NEW p \in Procs, UnlinkSelection(p) PROVE Relies(q)'
  BY <1>16 DEF UnlinkSelection, StoreAt, StoreGoto, StoreEnds
<1>17. ASSUME NEW p \in Procs, StoreKilled(p) PROVE Relies(q)'
  BY <1>17 DEF StoreKilled, NoOp
<1>18. ASSUME NEW p \in Procs, Offers(p) PROVE Relies(q)'
  BY <1>18 DEF Offers, StartTarget, Begin, Idle, NoOp
<1>19. CASE UNCHANGED storeVars
  BY <1>19 DEF storeVars
<1>. QED
  BY StoreChange, <1>1, <1>2, <1>3, <1>4, <1>5, <1>6, <1>7, <1>8, <1>9, <1>10, <1>11,
     <1>12, <1>13, <1>14, <1>15, <1>16, <1>17, <1>18, <1>19

\* What is selected or archived is installed and sound.
LEMMA SoundStep ==
  ASSUME CatalogInv, StoreInv, [Next]_vars
  PROVE  SelectedIsSound'
<1>. USE RuntimeAssumption DEF StoreInv, SelectedIsSound, ReliesInv, Relies
<1>1. ASSUME NEW p \in Procs, StartInstall(p) PROVE SelectedIsSound'
  BY <1>1 DEF StartInstall, Begin, Idle, NoOp
<1>2. ASSUME NEW p \in Procs, StartSelectOwn(p) PROVE SelectedIsSound'
  BY <1>2 DEF StartSelectOwn, Begin, Idle, NoOp
<1>3. ASSUME NEW p \in Procs, StartRollback(p) PROVE SelectedIsSound'
  BY <1>3 DEF StartRollback, Begin, Idle, NoOp
<1>4. ASSUME NEW p \in Procs, StartRemove(p) PROVE SelectedIsSound'
  BY <1>4 DEF StartRemove, Begin, Idle, NoOp
<1>5. ASSUME NEW p \in Procs, EnsureRollback(p) PROVE SelectedIsSound'
  BY <1>5 DEF EnsureRollback, StoreAt, StoreGoto, StoreEnds
<1>6. ASSUME NEW p \in Procs, FetchArchive(p) PROVE SelectedIsSound'
  BY <1>6 DEF FetchArchive, StoreAt, StoreGoto, StoreEnds
<1>7. ASSUME NEW p \in Procs, SmokeBuild(p) PROVE SelectedIsSound'
  BY <1>7 DEF SmokeBuild, StoreAt, StoreGoto, StoreEnds
<1>8. ASSUME NEW p \in Procs, ActivateBuild(p) PROVE SelectedIsSound'
  BY <1>8 DEF ActivateBuild, StoreAt, StoreGoto, StoreEnds
<1>9. ASSUME NEW p \in Procs, ArchiveSelection(p) PROVE SelectedIsSound'
  BY <1>9 DEF ArchiveSelection, StoreAt, StoreGoto, StoreEnds
<1>10. ASSUME NEW p \in Procs, SelectBuild(p) PROVE SelectedIsSound'
  BY <1>10 DEF SelectBuild, StoreAt, StoreGoto, StoreEnds
<1>11. ASSUME NEW p \in Procs, ValidateInstall(p) PROVE SelectedIsSound'
  BY <1>11 DEF ValidateInstall, StoreAt, StoreGoto, StoreEnds
<1>12. ASSUME NEW p \in Procs, RestoreSelection(p) PROVE SelectedIsSound'
  BY <1>12 DEF RestoreSelection, StoreAt, StoreGoto, StoreEnds, Undoing
<1>13. ASSUME NEW p \in Procs, TruncateSelection(p) PROVE SelectedIsSound'
  BY <1>13 DEF TruncateSelection, StoreAt, StoreGoto, StoreEnds
<1>14. ASSUME NEW p \in Procs, FillSelection(p) PROVE SelectedIsSound'
  BY <1>14 DEF FillSelection, StoreAt, StoreGoto, StoreEnds
<1>15. ASSUME NEW p \in Procs, ReadSelection(p) PROVE SelectedIsSound'
  BY <1>15 DEF ReadSelection, StoreAt, StoreGoto, StoreEnds
<1>16. ASSUME NEW p \in Procs, UnlinkSelection(p) PROVE SelectedIsSound'
  BY <1>16 DEF UnlinkSelection, StoreAt, StoreGoto, StoreEnds
<1>17. ASSUME NEW p \in Procs, StoreKilled(p) PROVE SelectedIsSound'
  BY <1>17 DEF StoreKilled, NoOp
<1>18. ASSUME NEW p \in Procs, Offers(p) PROVE SelectedIsSound'
  BY <1>18 DEF Offers, StartTarget, Begin, Idle, NoOp
<1>19. CASE UNCHANGED storeVars
  BY <1>19 DEF storeVars
<1>. QED
  BY StoreChange, <1>1, <1>2, <1>3, <1>4, <1>5, <1>6, <1>7, <1>8, <1>9, <1>10, <1>11,
     <1>12, <1>13, <1>14, <1>15, <1>16, <1>17, <1>18, <1>19

\* Neither an archived selection nor a build goes away.
LEMMA FallbackStep ==
  ASSUME CatalogInv, StoreInv, [Next]_vars
  PROVE  FallbackStays'
<1>. USE DEF StoreInv, FallbackStays, ReliesInv, Relies, Undoing
<1>1. ASSUME NEW p \in Procs, StartInstall(p) PROVE FallbackStays'
  BY <1>1 DEF StartInstall, Begin, Idle, NoOp
<1>2. ASSUME NEW p \in Procs, StartSelectOwn(p) PROVE FallbackStays'
  BY <1>2 DEF StartSelectOwn, Begin, Idle, NoOp
<1>3. ASSUME NEW p \in Procs, StartRollback(p) PROVE FallbackStays'
  BY <1>3 DEF StartRollback, Begin, Idle, NoOp
<1>4. ASSUME NEW p \in Procs, StartRemove(p) PROVE FallbackStays'
  BY <1>4 DEF StartRemove, Begin, Idle, NoOp
<1>5. ASSUME NEW p \in Procs, EnsureRollback(p) PROVE FallbackStays'
  BY <1>5 DEF EnsureRollback, StoreAt, StoreGoto, StoreEnds
<1>6. ASSUME NEW p \in Procs, FetchArchive(p) PROVE FallbackStays'
  BY <1>6 DEF FetchArchive, StoreAt, StoreGoto, StoreEnds
<1>7. ASSUME NEW p \in Procs, SmokeBuild(p) PROVE FallbackStays'
  BY <1>7 DEF SmokeBuild, StoreAt, StoreGoto, StoreEnds
<1>8. ASSUME NEW p \in Procs, ActivateBuild(p) PROVE FallbackStays'
  BY <1>8 DEF ActivateBuild, StoreAt, StoreGoto, StoreEnds
<1>9. ASSUME NEW p \in Procs, ArchiveSelection(p) PROVE FallbackStays'
  BY <1>9 DEF ArchiveSelection, StoreAt, StoreGoto, StoreEnds
<1>10. ASSUME NEW p \in Procs, SelectBuild(p) PROVE FallbackStays'
  BY <1>10 DEF SelectBuild, StoreAt, StoreGoto, StoreEnds
<1>11. ASSUME NEW p \in Procs, ValidateInstall(p) PROVE FallbackStays'
  BY <1>11 DEF ValidateInstall, StoreAt, StoreGoto, StoreEnds
<1>12. ASSUME NEW p \in Procs, RestoreSelection(p) PROVE FallbackStays'
  BY <1>12 DEF RestoreSelection, StoreAt, StoreGoto, StoreEnds
<1>13. ASSUME NEW p \in Procs, TruncateSelection(p) PROVE FallbackStays'
  BY <1>13 DEF TruncateSelection, StoreAt, StoreGoto, StoreEnds
<1>14. ASSUME NEW p \in Procs, FillSelection(p) PROVE FallbackStays'
  BY <1>14 DEF FillSelection, StoreAt, StoreGoto, StoreEnds
<1>15. ASSUME NEW p \in Procs, ReadSelection(p) PROVE FallbackStays'
  BY <1>15 DEF ReadSelection, StoreAt, StoreGoto, StoreEnds
<1>16. ASSUME NEW p \in Procs, UnlinkSelection(p) PROVE FallbackStays'
  BY <1>16 DEF UnlinkSelection, StoreAt, StoreGoto, StoreEnds
<1>17. ASSUME NEW p \in Procs, StoreKilled(p) PROVE FallbackStays'
  BY <1>17 DEF StoreKilled, NoOp
<1>18. ASSUME NEW p \in Procs, Offers(p) PROVE FallbackStays'
  BY <1>18 DEF Offers, StartTarget, Begin, Idle, NoOp
<1>19. CASE UNCHANGED storeVars
  BY <1>19 DEF storeVars
<1>. QED
  BY StoreChange, <1>1, <1>2, <1>3, <1>4, <1>5, <1>6, <1>7, <1>8, <1>9, <1>10, <1>11,
     <1>12, <1>13, <1>14, <1>15, <1>16, <1>17, <1>18, <1>19

\* Only an install that is undone selects what nobody vouches for.
LEMMA ClaimStep ==
  ASSUME CatalogInv, StoreInv, [Next]_vars
  PROVE  ClaimInv'
<1>a. DOMAIN op = Procs /\ \A x \in Procs : DOMAIN op[x] = {"kind", "pc", "build", "target"}
  BY DEF StoreInv, StoreTyped, StoreOps
<1>b. \A t \in Targets : Claim[t] \in Vouched /\ Fallback[t] \in Vouched
  BY DEF Vouched
<1>c. {None, Torn, Own} \intersect Builds = {} /\ Entries \subseteq Vouched
  BY RuntimeAssumption DEF Vouched
<1>. USE <1>a, <1>b, <1>c DEF StoreInv, ClaimInv, ReliesInv, Relies, Undoing
<1>1. ASSUME NEW p \in Procs, StartInstall(p) PROVE ClaimInv'
  BY <1>1 DEF StartInstall, Begin, Idle, NoOp
<1>2. ASSUME NEW p \in Procs, StartSelectOwn(p) PROVE ClaimInv'
  BY <1>2 DEF StartSelectOwn, Begin, Idle, NoOp
<1>3. ASSUME NEW p \in Procs, StartRollback(p) PROVE ClaimInv'
  BY <1>3 DEF StartRollback, Begin, Idle, NoOp
<1>4. ASSUME NEW p \in Procs, StartRemove(p) PROVE ClaimInv'
  BY <1>4 DEF StartRemove, Begin, Idle, NoOp
<1>5. ASSUME NEW p \in Procs, EnsureRollback(p) PROVE ClaimInv'
  BY <1>5 DEF EnsureRollback, StoreAt, StoreGoto, StoreEnds
<1>6. ASSUME NEW p \in Procs, FetchArchive(p) PROVE ClaimInv'
  BY <1>6 DEF FetchArchive, StoreAt, StoreGoto, StoreEnds
<1>7. ASSUME NEW p \in Procs, SmokeBuild(p) PROVE ClaimInv'
  BY <1>7 DEF SmokeBuild, StoreAt, StoreGoto, StoreEnds
<1>8. ASSUME NEW p \in Procs, ActivateBuild(p) PROVE ClaimInv'
  BY <1>8 DEF ActivateBuild, StoreAt, StoreGoto, StoreEnds
<1>9. ASSUME NEW p \in Procs, ArchiveSelection(p) PROVE ClaimInv'
  BY <1>9 DEF ArchiveSelection, StoreAt, StoreGoto, StoreEnds
<1>10. ASSUME NEW p \in Procs, SelectBuild(p) PROVE ClaimInv'
  <2>1. op[p].pc = "select" /\ op[p].kind \in {"install", "target", "rollback"}
    BY <1>10 DEF SelectBuild, StoreAt
  <2>2. UNCHANGED <<selected, excused>> \/ selected' = op[p].build
    BY <1>10 DEF SelectBuild
  <2>3. CASE UNCHANGED <<selected, excused>>
    BY <1>10, <2>1, <2>3 DEF SelectBuild, StoreGoto, StoreEnds
  <2>4. CASE selected' = op[p].build /\ op[p].kind = "install"
    <3>1. op[p].build \in Entries
      BY <2>4
    <3>. QED
      BY <2>4, <3>1
  <2>5. CASE selected' = op[p].build /\ op[p].kind = "rollback"
    <3>1. UNCHANGED <<selected, excused>> \/ op[p].build \in Vouched \/ excused'
      BY <1>10, <2>5, Zenon DEF SelectBuild
    <3>2. CASE op[p].build \in Vouched
      BY <2>5, <3>2
    <3>3. CASE excused'
      BY <3>3
    <3>. QED
      BY <2>3, <3>1, <3>2, <3>3
  <2>6. CASE selected' = op[p].build /\ op[p].kind = "target"
    <3>1. UNCHANGED <<selected, excused>> \/ op' = [op EXCEPT ![p].pc = "validate"]
      BY <1>10, <2>6 DEF SelectBuild, StoreGoto
    <3>2. CASE op' = [op EXCEPT ![p].pc = "validate"]
      <4>1. Undoing(p)' /\ op'[p].build = selected'
        BY <2>6, <3>2
      <4>. QED
        BY <4>1
    <3>. QED
      BY <2>3, <3>1, <3>2
  <2>. QED
    BY <2>1, <2>2, <2>3, <2>4, <2>5, <2>6
<1>11. ASSUME NEW p \in Procs, ValidateInstall(p) PROVE ClaimInv'
  BY <1>11 DEF ValidateInstall, StoreAt, StoreGoto, StoreEnds
<1>12. ASSUME NEW p \in Procs, RestoreSelection(p) PROVE ClaimInv'
  BY <1>12 DEF RestoreSelection, StoreAt, StoreGoto, StoreEnds
<1>13. ASSUME NEW p \in Procs, TruncateSelection(p) PROVE ClaimInv'
  BY <1>13 DEF TruncateSelection, StoreAt, StoreGoto, StoreEnds
<1>14. ASSUME NEW p \in Procs, FillSelection(p) PROVE ClaimInv'
  BY <1>14 DEF FillSelection, StoreAt, StoreGoto, StoreEnds
<1>15. ASSUME NEW p \in Procs, ReadSelection(p) PROVE ClaimInv'
  BY <1>15 DEF ReadSelection, StoreAt, StoreGoto, StoreEnds
<1>16. ASSUME NEW p \in Procs, UnlinkSelection(p) PROVE ClaimInv'
  BY <1>16 DEF UnlinkSelection, StoreAt, StoreGoto, StoreEnds
<1>17. ASSUME NEW p \in Procs, StoreKilled(p) PROVE ClaimInv'
  BY <1>17 DEF StoreKilled, NoOp
<1>18. ASSUME NEW p \in Procs, Offers(p) PROVE ClaimInv'
  BY <1>18 DEF Offers, StartTarget, Begin, Idle, NoOp
<1>19. CASE UNCHANGED storeVars
  BY <1>19 DEF storeVars
<1>. QED
  BY StoreChange, <1>1, <1>2, <1>3, <1>4, <1>5, <1>6, <1>7, <1>8, <1>9, <1>10, <1>11,
     <1>12, <1>13, <1>14, <1>15, <1>16, <1>17, <1>18, <1>19

-----------------------------------------------------------------------------
(* The inductive invariant.                                                  *)

IInv == CatalogInv /\ StoreInv

LEMMA InitIInv == Init => IInv
<1>. SUFFICES ASSUME Init PROVE IInv
  OBVIOUS
<1>. USE DEF Init
<1>1. active # None => \E g \in Generations : active = [role \in Roles |-> g]
  BY DEF CatalogInit
<1>2. cached = {active} \ {None} /\ raced = FALSE /\ served \in Generations
  BY DEF CatalogInit
<1>3. active \in Known
  BY <1>1 DEF Known, Bundles
<1>4. cat = [p \in Procs |-> NoCatalogOp]
  BY DEF CatalogInit
<1>5. CatalogTyped
  <2>1. cached \subseteq Bundles /\ raced \in BOOLEAN
    BY <1>2, <1>3 DEF Known
  <2>2. NoCatalogOp \in CatalogOps
    BY DEF CatalogOps, NoCatalogOp, Known, CatalogLocations
  <2>. QED
    BY <1>2, <1>3, <1>4, <2>1, <2>2 DEF CatalogTyped
<1>6. HeldInv /\ ForwardInv
  BY <1>4 DEF HeldInv, HeldBy, ForwardInv, ForwardFrom, NoCatalogOp
<1>7. ActiveInv
  BY <1>1, <1>2 DEF ActiveInv, Refers, FileOf, Roles
<1>9. built \subseteq Entries \intersect Sound /\ selected \in built \union {None}
  BY DEF StoreInit
<1>10. history = {} /\ kept = {} /\ excused = FALSE /\ op = [p \in Procs |-> NoOp]
  BY DEF StoreInit
<1>11. StoreTyped
  BY <1>9, <1>10, RuntimeAssumption DEF StoreTyped, StoreOps, NoOp, StoreLocations
<1>12. ReliesInv
  BY <1>10 DEF ReliesInv, Relies, Undoing, NoOp
<1>13. SelectedIsSound /\ FallbackStays /\ ClaimInv
  BY <1>9, <1>10, RuntimeAssumption DEF SelectedIsSound, FallbackStays, ClaimInv, Vouched
<1>. QED
  BY <1>5, <1>6, <1>7, <1>11, <1>12, <1>13 DEF IInv, CatalogInv, StoreInv

LEMMA NextIInv == IInv /\ [Next]_vars => IInv'
<1>. SUFFICES ASSUME IInv, [Next]_vars PROVE IInv'
  OBVIOUS
<1>. USE DEF IInv
<1>1. CatalogTyped'
  BY CatalogStepTyped
<1>2. HeldInv' /\ ForwardInv' /\ ActiveInv'
  BY <1>1, HeldStep, ForwardStep, ActiveStep
<1>3. StoreTyped' /\ ReliesInv'
  BY StoreStepTyped, ReliesStep
<1>4. SelectedIsSound' /\ FallbackStays' /\ ClaimInv'
  BY SoundStep, FallbackStep, ClaimStep
<1>. QED
  BY <1>1, <1>2, <1>3, <1>4 DEF CatalogInv, StoreInv

LEMMA Invariance == Spec => []IInv
  BY InitIInv, NextIInv, PTL DEF Spec

-----------------------------------------------------------------------------
(* The theorems.                                                             *)

\* Catalog and store keep their types, for any processes, generations,
\* builds, targets and budgets.
THEOREM TypeSafe == Spec => [](CatalogTyped /\ StoreTyped)
<1>1. IInv => CatalogTyped /\ StoreTyped
  BY DEF IInv, CatalogInv, StoreInv
<1>. QED
  BY <1>1, Invariance, PTL

\* The active pointer names a whole cached generation whose files refer to
\* each other, however fetches, moves of the server and kills interleave.
THEOREM ActiveSafe == Spec => []ActiveIsOneGeneration
<1>1. ASSUME IInv PROVE ActiveIsOneGeneration
  <2>. SUFFICES ASSUME active # None PROVE ActiveIsOneGeneration
    BY DEF ActiveIsOneGeneration
  <2>1. active \in cached /\ Refers(active)
    BY <1>1 DEF IInv, CatalogInv, ActiveInv
  <2>2. active["timestamp"] \in Generations /\ active["snapshot"] \in Generations
    BY <1>1 DEF IInv, CatalogInv, CatalogTyped, Known, Bundles, Roles
  <2>. QED
    BY <2>1, <2>2 DEF ActiveIsOneGeneration, Refers, FileOf
<1>. QED
  BY <1>1, Invariance, PTL

\* Until two refreshes race, the active catalog only moves forward, although
\* versions and digests of the active generation are read one after the other.
THEOREM ForwardSafe == Spec => ActiveOnlyMovesForward
<1>1. ASSUME IInv, [Next]_vars, ~raced', active # None, NEW role \in Roles
      PROVE  \/ Version(active', role) > Version(active, role)
             \/ FileOf(active', role) = FileOf(active, role)
  <2>1. CASE \E p \in Procs : ActivatePointer(p)
    <3>1. PICK p \in Procs : ActivatePointer(p)
      BY <2>1
    <3>2. ~raced /\ active = cat[p].seen /\ active' = cat[p].bundle /\ cat[p].pc = "point"
      BY <1>1, <3>1 DEF ActivatePointer, CatalogAt
    <3>3. Follows(active', active)
      BY <1>1, <3>2 DEF IInv, CatalogInv, ForwardInv, ForwardFrom
    <3>. QED
      BY <1>1, <3>3 DEF Follows
  <2>2. CASE UNCHANGED active
    BY <2>2
  <2>. QED
    BY <1>1, <2>1, <2>2, CatalogChange
    DEF IInv, StartRefresh, StartLoad, StartCatalogOp, FetchMetadata, VerifyFetched,
        CompareDigests, CacheGeneration, LoadGeneration, VerifyLoaded, Leaves, Serve,
        ExpireFile, catalogVars
<1>2. IInv /\ [Next]_vars =>
        [~raced' /\ active # None =>
            \A role \in Roles :
                \/ Version(active', role) > Version(active, role)
                \/ FileOf(active', role) = FileOf(active, role)]_catalogVars
  BY <1>1
<1>. QED
  BY <1>2, Invariance, PTL DEF Spec, ActiveOnlyMovesForward

\* Until two refreshes race, a catalog that is loaded is the active one.
THEOREM LoadedSafe == Spec => LoadedIsCurrent
<1>1. ASSUME IInv, [Next]_vars, NEW p \in Procs,
             cat'[p].pc = "loaded", cat[p].pc # "loaded", ~raced
      PROVE  SameFiles(cat'[p].bundle, active)
  <2>1. VerifyLoaded(p)
    <3>0. DOMAIN cat = Procs /\ DOMAIN cat[p] = {"pc", "got", "bundle", "seen"}
      BY <1>1 DEF IInv, CatalogInv, CatalogTyped, CatalogOps
    <3>1. ASSUME NEW q \in Procs, FetchMetadata(q) PROVE FALSE
      <4>1. \/ \E got \in 1 .. 4, files \in Bundles :
                   cat' = [cat EXCEPT ![q] = Fetching(got, files)]
            \/ cat' = [cat EXCEPT ![q] = [NoCatalogOp EXCEPT !.pc = "load"]]
        BY <1>1, <3>1, Fetched DEF IInv
      <4>. QED
        BY <1>1, <3>0, <4>1 DEF Fetching, NoCatalogOp
    <3>2. ASSUME NEW q \in Procs, StartRefresh(q) \/ StartLoad(q) \/ VerifyFetched(q)
          PROVE FALSE
      BY <1>1, <3>0, <3>2 DEF StartRefresh, StartLoad, StartCatalogOp, VerifyFetched,
         CatalogEnds, NoCatalogOp
    <3>3. ASSUME NEW q \in Procs, CompareDigests(q) \/ CacheGeneration(q) \/ ActivatePointer(q)
          PROVE FALSE
      BY <1>1, <3>0, <3>3 DEF CompareDigests, CacheGeneration, ActivatePointer,
         CatalogEnds, NoCatalogOp
    <3>4. ASSUME NEW q \in Procs, LoadGeneration(q) \/ Leaves(q) PROVE FALSE
      BY <1>1, <3>0, <3>4 DEF LoadGeneration, Leaves, CatalogEnds, NoCatalogOp
    <3>5. ASSUME NEW q \in Procs, VerifyLoaded(q), q # p PROVE FALSE
      BY <1>1, <3>0, <3>5 DEF VerifyLoaded, CatalogEnds, NoCatalogOp
    <3>6. CASE Serve \/ ExpireFile \/ UNCHANGED catalogVars
      BY <1>1, <3>6 DEF Serve, ExpireFile, catalogVars
    <3>. QED
      BY <1>1, CatalogChange, <3>1, <3>2, <3>3, <3>4, <3>5, <3>6 DEF IInv
  <2>2. /\ cat[p].pc = "check" /\ NotOlder(cat[p].bundle, active)
        /\ cat'[p].bundle = cat[p].bundle
    BY <1>1, <2>1 DEF VerifyLoaded, Verified, CatalogAt, CatalogEnds, NoCatalogOp, IInv,
       CatalogInv, CatalogTyped, CatalogOps
  <2>3. cat[p].bundle \in Bundles /\ active \in Known /\ Follows(active, cat[p].bundle)
    BY <1>1, <2>2 DEF IInv, CatalogInv, CatalogTyped, HeldInv, HeldBy, ForwardInv, ForwardFrom
  <2>. QED
    BY <2>2, <2>3, FollowsSame
<1>2. IInv /\ [Next]_vars =>
        [\A p \in Procs :
            cat'[p].pc = "loaded" /\ cat[p].pc # "loaded" /\ ~raced =>
                SameFiles(cat'[p].bundle, active)]_catalogVars
  BY <1>1
<1>. QED
  BY <1>2, Invariance, PTL DEF Spec, LoadedIsCurrent

\* What is selected, or can be selected again, is installed and passed its
\* smoke tests.
THEOREM SoundSafe == Spec => []SelectedIsSound
<1>1. IInv => SelectedIsSound
  BY DEF IInv, StoreInv
<1>. QED
  BY <1>1, Invariance, PTL

\* A build whose target claims another one is selected only while its install
\* is being undone, unless that is cut short or the user asks for it.
THEOREM ClaimSafe == Spec => []UnclaimedIsTemporary
<1>1. IInv => UnclaimedIsTemporary
  BY DEF IInv, StoreInv, ClaimInv, UnclaimedIsTemporary
<1>. QED
  BY <1>1, Invariance, PTL

\* The fallback of an installed target stays selectable.
THEOREM FallbackSafe == Spec => []FallbackStays
<1>1. IInv => FallbackStays
  BY DEF IInv, StoreInv
<1>. QED
  BY <1>1, Invariance, PTL
=============================================================================
