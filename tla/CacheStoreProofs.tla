-------------------------- MODULE CacheStoreProofs --------------------------
(***************************************************************************)
(* Proofs about CacheStore.  The invariant is built in layers: which locks *)
(* a process holds where (LockInv), what the files and managed.json can    *)
(* contain (DataInv), how the copy of managed.json a process works on      *)
(* differs from it (CopyInv), and on top of these the limit, the Keep      *)
(* preference and the files of the user.                                   *)
(***************************************************************************)
EXTENDS CacheStore, TLAPS

RunAt == {"lookup", "producer", "winner", "hit", "saveTouch", "reserve",
          "download", "publish", "record", "saveRow", "unreserve", "use"}
KeepAt == {"keep", "saveKeep"}
ClearAt == {"cleanup", "clear", "unlink"}
LimitAt == {"policy", "policyProducer", "policyCheck", "trim", "saveLimit"}

\* Where a download, or a new limit, holds producer.lock.
DownloadAt == {"winner", "reserve", "download", "publish", "record", "saveRow",
               "unreserve"}
PolicyAt == {"policyCheck", "trim", "saveLimit"}
\* Where metadata.lock is held.
CopyAt == {"saveTouch", "saveRow", "saveKeep", "unlink", "trim"}

LockTypes ==
    /\ readers \subseteq Procs
    /\ writer \in Procs \union {None}
    /\ producer \in Procs \union {None}
    /\ metadata \in Procs \union {None}
    /\ pc \in [Procs -> Location]
    /\ request \in [Procs -> Requests \union {None}]

\* What a process was started for fits where it is.
KindOf(p) ==
    /\ pc[p] \in RunAt => request[p] \in Run
    /\ pc[p] \in KeepAt => request[p] \in SetKeep
    /\ pc[p] = "lease" => request[p] \in Run \union SetKeep
    /\ pc[p] \in ClearAt => request[p] \in Clear
    /\ pc[p] \in LimitAt => request[p] \in SetLimit

LocksOf(p) ==
    /\ pc[p] \in RunAt \union KeepAt => p \in readers
    /\ pc[p] \in {"policyProducer"} \union PolicyAt
         => IF request[p].trim THEN writer = p ELSE p \in readers
    /\ pc[p] \in {"clear", "unlink"} => writer = p
    /\ pc[p] \in DownloadAt \union PolicyAt => producer = p
    /\ pc[p] \in CopyAt \union {"saveLimit"} => metadata = p

LockInv ==
    /\ LockTypes
    /\ \A p \in Procs : KindOf(p) /\ LocksOf(p)
    /\ writer # None => readers = {}

\* None differs from everything else that a variable holds.
LEMMA NoneFacts ==
  /\ None \notin Procs /\ None \notin Request /\ None \notin Nat
  /\ None \notin File /\ None \notin Row /\ None \notin LookedAt
  /\ Requests \subseteq Request
BY CacheAssumption DEF File, Row, LookedAt

\* At the start nobody holds a lock.
LEMMA LockInit == Init => LockInv
BY DEF Init, LockInv, LockTypes, KindOf, LocksOf, RunAt, KeepAt, ClearAt,
   LimitAt, DownloadAt, PolicyAt, CopyAt, Location, Go, disk, lease, locks,
   local

\* A process that ends leaves no lock behind and takes none from another.
LEMMA EndKeepsLocks ==
  ASSUME LockInv, NEW p \in Procs, End(p)
  PROVE  LockInv'
BY NoneFacts DEF End, LockInv, LockTypes, KindOf, LocksOf, RunAt, KeepAt,
   ClearAt, LimitAt, DownloadAt, PolicyAt, CopyAt, Location, Go, disk, lease,
   locks, local

\* The locks are where they should be after every step.
LEMMA LockNext ==
  ASSUME LockInv, [Next]_vars
  PROVE  LockInv'
<1>. USE DEF LockInv, LockTypes, KindOf, LocksOf, RunAt, KeepAt, ClearAt,
             LimitAt, DownloadAt, PolicyAt, CopyAt, Location, Go, disk, lease,
             locks, local
<1>1. ASSUME NEW p \in Procs, AcquireLease(p) PROVE LockInv'
  BY <1>1, NoneFacts DEF AcquireLease, Request, Run, SetKeep, Clear, SetLimit,
     Artifact
<1>2. ASSUME NEW p \in Procs, LookUp(p) PROVE LockInv'
  BY <1>2, NoneFacts DEF LookUp
<1>3. ASSUME NEW p \in Procs, AcquireProducer(p) PROVE LockInv'
  BY <1>3, NoneFacts DEF AcquireProducer
<1>4. ASSUME NEW p \in Procs, Hit(p) PROVE LockInv'
  BY <1>4, NoneFacts DEF Hit, ReadMetadata
<1>5. ASSUME NEW p \in Procs, HitRaises(p) PROVE LockInv'
  BY <1>5, EndKeepsLocks DEF HitRaises
<1>6. ASSUME NEW p \in Procs, Reserve(p) PROVE LockInv'
  BY <1>6, NoneFacts DEF Reserve
<1>7. ASSUME NEW p \in Procs, RefuseDownload(p) PROVE LockInv'
  BY <1>7, EndKeepsLocks DEF RefuseDownload
<1>8. ASSUME NEW p \in Procs, Download(p) PROVE LockInv'
  BY <1>8, NoneFacts DEF Download
<1>9. ASSUME NEW p \in Procs, DownloadRaises(p) PROVE LockInv'
  BY <1>9, NoneFacts DEF DownloadRaises, Spend
<1>10. ASSUME NEW p \in Procs, Publish(p) PROVE LockInv'
  BY <1>10, NoneFacts DEF Publish
<1>11. ASSUME NEW p \in Procs, PublishLoses(p) PROVE LockInv'
  BY <1>11, NoneFacts DEF PublishLoses
<1>12. ASSUME NEW p \in Procs, RecordInstall(p) PROVE LockInv'
  BY <1>12, NoneFacts DEF RecordInstall, ReadMetadata
<1>13. ASSUME NEW p \in Procs, Unreserve(p) PROVE LockInv'
  <2>1. CASE failed[p]
    BY <1>13, <2>1, EndKeepsLocks DEF Unreserve
  <2>2. CASE ~failed[p]
    BY <1>13, <2>2, NoneFacts DEF Unreserve
  <2>. QED BY <2>1, <2>2
<1>14. ASSUME NEW p \in Procs, EndUse(p) PROVE LockInv'
  BY <1>14, EndKeepsLocks DEF EndUse
<1>15. ASSUME NEW p \in Procs, ChangeKeep(p) PROVE LockInv'
  BY <1>15, NoneFacts DEF ChangeKeep, ReadMetadata
<1>16. ASSUME NEW p \in Procs, RefuseKeep(p) PROVE LockInv'
  BY <1>16, EndKeepsLocks DEF RefuseKeep
<1>17. ASSUME NEW p \in Procs, BeginCleanup(p) PROVE LockInv'
  BY <1>17, NoneFacts DEF BeginCleanup, Idle
<1>18. ASSUME NEW p \in Procs, ReadUnkept(p) PROVE LockInv'
  BY <1>18, NoneFacts DEF ReadUnkept, ReadMetadata
<1>19. ASSUME NEW p \in Procs, UnlinkRaises(p) PROVE LockInv'
  BY <1>19, EndKeepsLocks DEF UnlinkRaises
<1>20. ASSUME NEW p \in Procs, BeginPolicy(p) PROVE LockInv'
  BY <1>20, NoneFacts DEF BeginPolicy, Idle
<1>21. ASSUME NEW p \in Procs, ExcludeProducers(p) PROVE LockInv'
  BY <1>21, NoneFacts DEF ExcludeProducers
<1>22. ASSUME NEW p \in Procs, RefuseBusy(p) PROVE LockInv'
  BY <1>22, EndKeepsLocks DEF RefuseBusy
<1>23. ASSUME NEW p \in Procs, CheckPolicy(p) PROVE LockInv'
  BY <1>23, NoneFacts DEF CheckPolicy, ReadMetadata
<1>24. ASSUME NEW p \in Procs, RefusePolicy(p) PROVE LockInv'
  BY <1>24, EndKeepsLocks DEF RefusePolicy
<1>25. ASSUME NEW p \in Procs, NothingToTrim(p) PROVE LockInv'
  BY <1>25, NoneFacts DEF NothingToTrim
<1>26. ASSUME NEW p \in Procs, SaveLimit(p) PROVE LockInv'
  BY <1>26, EndKeepsLocks DEF SaveLimit
<1>27. ASSUME NEW p \in Procs, SaveMetadata(p) PROVE LockInv'
  <2>1. CASE End(p)
    BY <2>1, EndKeepsLocks
  <2>2. CASE pc[p] = "saveTouch" /\ ReleaseMetadata(p, "use")
    BY <1>27, <2>2, NoneFacts DEF SaveMetadata, ReleaseMetadata
  <2>3. CASE pc[p] = "saveRow" /\ ReleaseMetadata(p, "unreserve")
    BY <1>27, <2>3, NoneFacts DEF SaveMetadata, ReleaseMetadata
  <2>4. CASE pc[p] = "trim" /\ Go(p, "saveLimit") /\ UNCHANGED <<locks, local>>
    BY <1>27, <2>4, NoneFacts DEF SaveMetadata
  <2>. QED BY <1>27, <2>1, <2>2, <2>3, <2>4 DEF SaveMetadata
<1>28. ASSUME NEW p \in Procs, Kill(p) PROVE LockInv'
  BY <1>28, EndKeepsLocks DEF Kill
<1>29. ASSUME NEW p \in Procs, NEW a \in Artifacts, ClearUnkept(p, a)
      PROVE  LockInv'
  BY <1>29 DEF ClearUnkept
<1>30. ASSUME NEW p \in Procs, NEW a \in Artifacts, TrimOldest(p, a)
      PROVE  LockInv'
  <2>1. CASE End(p)
    BY <2>1, EndKeepsLocks
  <2>2. CASE UNCHANGED <<locks, pc, request>>
    BY <2>2
  <2>. QED BY <1>30, <2>1, <2>2 DEF TrimOldest
<1>31. ASSUME NEW p \in Procs, NEW r \in Requests, Start(p, r) PROVE LockInv'
  BY <1>31, NoneFacts DEF Start, Spend, Request, Run, SetKeep, Clear, SetLimit
<1>32. ASSUME NEW a \in Artifacts, ChangeFile(a) PROVE LockInv'
  BY <1>32, NoneFacts DEF ChangeFile, Spend
<1>33. CASE UNCHANGED vars
  BY <1>33, NoneFacts DEF vars
<1>34. ASSUME NEW p \in Procs, NEW a \in Artifacts, Unlink(p, a)
      PROVE  LockInv'
  BY <1>34 DEF Unlink
<1>. QED
  BY <1>1, <1>2, <1>3, <1>4, <1>5, <1>6, <1>7, <1>8, <1>9, <1>10, <1>11,
     <1>12, <1>13, <1>14, <1>15, <1>16, <1>17, <1>18, <1>19, <1>20,
     <1>21, <1>22, <1>23, <1>24, <1>25, <1>26, <1>27, <1>28, <1>29,
     <1>30, <1>31, <1>32, <1>33, <1>34 DEF Next, Step

-----------------------------------------------------------------------------
\* Whoever still has something to trim holds the exclusive lease: without
\* trim, a feasible limit leaves no victims.  What is about to be deleted is
\* one of them.
VictimInv ==
    /\ victims \in [Procs -> SUBSET Artifacts]
    /\ checked \in [Procs -> LookedAt \union {None}]
    /\ \A p \in Procs : pc[p] = "trim" => victims[p] = {} \/ writer = p
    /\ \A p \in Procs : checked[p] # None =>
          /\ pc[p] \in {"unlink", "trim"}
          /\ checked[p].artifact \in victims[p]

\* Fewer artifacts fit wherever more do.
LEMMA WithinSubset ==
  ASSUME NEW l \in Limits \union {None}, NEW S \in SUBSET Artifacts,
         NEW T \in SUBSET S, Within(S, l)
  PROVE  Within(T, l)
<1>1. T \in SUBSET Artifacts
  OBVIOUS
<1>2. Weight[S] \in Nat /\ Weight[T] \in Nat /\ Weight[T] <= Weight[S]
  BY <1>1, CacheAssumption
<1>3. l # None => l \in Nat
  BY CacheAssumption
<1>. QED
  BY <1>2, <1>3 DEF Within

\* If what is owned fits the limit, nothing has to be trimmed.
LEMMA NothingNeeded ==
  ASSUME NEW l \in Limits \union {None}, NEW S, OldestFirst(S, l),
         Within(Owned(rows), l)
  PROVE  S = {}
<1>1. SUFFICES ASSUME NEW a \in S, ~Within(Owned(rows) \ (S \ {a}), l)
               PROVE  FALSE
  BY DEF OldestFirst
<1>2. Owned(rows) \in SUBSET Artifacts
  BY DEF Owned
<1>. QED
  BY <1>1, <1>2, WithinSubset

\* The types of the data.
DataInv ==
    /\ file \in [Artifacts -> File \union {None}]
    /\ rows \in Metadata
    /\ limit \in Limits \union {None}
    /\ reservation \in {0} \union {Size[a] : a \in Artifacts}
    /\ values \in [Procs -> Metadata \union {None}]
    /\ removed \in [Procs -> BOOLEAN]
    /\ failed \in [Procs -> BOOLEAN]
    /\ kept \in [Artifacts -> Nat \union {None}]
    /\ stamp \in Nat
    /\ budget \in [BoundKind -> Nat]
    /\ \A p \in Procs : pc[p] \in CopyAt => values[p] \in Metadata
    /\ \A p \in Procs : pc[p] = "saveKeep" => values[p][Artifact(p)] \in Row

\* A file that a table records has an identity.
LEMMA OwnedFile ==
  ASSUME DataInv, NEW table, NEW a \in Owned(table)
  PROVE  file[a] \in File /\ file[a].id \in Nat
BY DEF DataInv, Owned, File

\* At the start nobody deletes.
LEMMA VictimInit == Init => VictimInv
BY DEF Init, VictimInv

\* A process that ends forgets its victims.
LEMMA EndKeepsVictims ==
  ASSUME LockInv, VictimInv, NEW p \in Procs, End(p)
  PROVE  VictimInv'
BY DEF End, LockInv, LockTypes, VictimInv, Go

\* A trim starts with victims only under the exclusive lease.
LEMMA VictimNext ==
  ASSUME LockInv, VictimInv, DataInv, [Next]_vars
  PROVE  VictimInv'
<1>. USE DEF VictimInv, Go, disk, lease, locks, local
<1>1. ASSUME NEW p \in Procs, AcquireLease(p) PROVE VictimInv'
  BY <1>1 DEF AcquireLease, LockInv, LockTypes
<1>2. ASSUME NEW p \in Procs, LookUp(p) PROVE VictimInv'
  BY <1>2 DEF LookUp, LockInv, LockTypes
<1>3. ASSUME NEW p \in Procs, AcquireProducer(p) PROVE VictimInv'
  BY <1>3 DEF AcquireProducer, LockInv, LockTypes
<1>4. ASSUME NEW p \in Procs, Hit(p) PROVE VictimInv'
  BY <1>4 DEF Hit, ReadMetadata, LockInv, LockTypes
<1>5. ASSUME NEW p \in Procs, HitRaises(p) PROVE VictimInv'
  BY <1>5, EndKeepsVictims DEF HitRaises
<1>6. ASSUME NEW p \in Procs, Reserve(p) PROVE VictimInv'
  BY <1>6 DEF Reserve, LockInv, LockTypes
<1>7. ASSUME NEW p \in Procs, RefuseDownload(p) PROVE VictimInv'
  BY <1>7, EndKeepsVictims DEF RefuseDownload
<1>8. ASSUME NEW p \in Procs, Download(p) PROVE VictimInv'
  BY <1>8 DEF Download, LockInv, LockTypes
<1>9. ASSUME NEW p \in Procs, DownloadRaises(p) PROVE VictimInv'
  BY <1>9 DEF DownloadRaises, Spend, LockInv, LockTypes
<1>10. ASSUME NEW p \in Procs, Publish(p) PROVE VictimInv'
  BY <1>10 DEF Publish, LockInv, LockTypes
<1>11. ASSUME NEW p \in Procs, PublishLoses(p) PROVE VictimInv'
  BY <1>11 DEF PublishLoses, LockInv, LockTypes
<1>12. ASSUME NEW p \in Procs, RecordInstall(p) PROVE VictimInv'
  BY <1>12 DEF RecordInstall, ReadMetadata, LockInv, LockTypes
<1>13. ASSUME NEW p \in Procs, Unreserve(p) PROVE VictimInv'
  <2>1. CASE failed[p]
    BY <1>13, <2>1, EndKeepsVictims DEF Unreserve
  <2>2. CASE ~failed[p]
    BY <1>13, <2>2 DEF Unreserve, LockInv, LockTypes
  <2>. QED BY <2>1, <2>2
<1>14. ASSUME NEW p \in Procs, EndUse(p) PROVE VictimInv'
  BY <1>14, EndKeepsVictims DEF EndUse
<1>15. ASSUME NEW p \in Procs, ChangeKeep(p) PROVE VictimInv'
  BY <1>15 DEF ChangeKeep, ReadMetadata, LockInv, LockTypes
<1>16. ASSUME NEW p \in Procs, RefuseKeep(p) PROVE VictimInv'
  BY <1>16, EndKeepsVictims DEF RefuseKeep
<1>17. ASSUME NEW p \in Procs, BeginCleanup(p) PROVE VictimInv'
  BY <1>17, NoneFacts DEF BeginCleanup, Idle, LockInv, LockTypes
<1>18. ASSUME NEW p \in Procs, ReadUnkept(p) PROVE VictimInv'
  <2>1. request[p].artifacts \in SUBSET Artifacts
    BY <1>18 DEF ReadUnkept, LockInv, KindOf, ClearAt, Clear
  <2>. QED BY <1>18, <2>1 DEF ReadUnkept, ReadMetadata, LockInv, LockTypes
<1>19. ASSUME NEW p \in Procs, UnlinkRaises(p) PROVE VictimInv'
  BY <1>19, EndKeepsVictims DEF UnlinkRaises
<1>20. ASSUME NEW p \in Procs, BeginPolicy(p) PROVE VictimInv'
  BY <1>20, NoneFacts DEF BeginPolicy, Idle, LockInv, LockTypes
<1>21. ASSUME NEW p \in Procs, ExcludeProducers(p) PROVE VictimInv'
  BY <1>21 DEF ExcludeProducers, LockInv, LockTypes
<1>22. ASSUME NEW p \in Procs, RefuseBusy(p) PROVE VictimInv'
  BY <1>22, EndKeepsVictims DEF RefuseBusy
<1>23. ASSUME NEW p \in Procs, CheckPolicy(p) PROVE VictimInv'
  <2>. PICK S \in SUBSET Artifacts :
          /\ OldestFirst(S, request[p].limit)
          /\ victims' = [victims EXCEPT ![p] = S]
    BY <1>23 DEF CheckPolicy, LockInv, LockTypes
  <2>1. /\ request[p].limit \in Limits \union {None}
        /\ IF request[p].trim THEN writer = p ELSE p \in readers
    BY <1>23 DEF CheckPolicy, LockInv, KindOf, LocksOf, LimitAt, PolicyAt,
       SetLimit
  <2>2. S = {} \/ writer = p
    BY <1>23, <2>1, NothingNeeded DEF CheckPolicy, Feasible
  <2>. QED BY <1>23, <2>2 DEF CheckPolicy, LockInv, LockTypes
<1>24. ASSUME NEW p \in Procs, RefusePolicy(p) PROVE VictimInv'
  BY <1>24, EndKeepsVictims DEF RefusePolicy
<1>25. ASSUME NEW p \in Procs, NothingToTrim(p) PROVE VictimInv'
  BY <1>25 DEF NothingToTrim, LockInv, LockTypes
<1>26. ASSUME NEW p \in Procs, SaveLimit(p) PROVE VictimInv'
  BY <1>26, EndKeepsVictims DEF SaveLimit
<1>27. ASSUME NEW p \in Procs, SaveMetadata(p) PROVE VictimInv'
  <2>1. CASE End(p)
    BY <2>1, EndKeepsVictims
  <2>2. ASSUME NEW where \in {"use", "unreserve"}, ReleaseMetadata(p, where),
               pc[p] \in {"saveTouch", "saveRow"}
        PROVE  VictimInv'
    BY <2>2 DEF ReleaseMetadata, LockInv, LockTypes
  <2>3. CASE victims[p] = {} /\ Go(p, "saveLimit") /\ UNCHANGED <<locks, local>>
    BY <2>3 DEF LockInv, LockTypes
  <2>. QED BY <1>27, <2>1, <2>2, <2>3 DEF SaveMetadata
<1>28. ASSUME NEW p \in Procs, Kill(p) PROVE VictimInv'
  BY <1>28, EndKeepsVictims DEF Kill
<1>29. ASSUME NEW p \in Procs, NEW a \in Artifacts, ClearUnkept(p, a)
      PROVE  VictimInv'
  <2>1. CASE a \in Owned(values[p]) /\ Select(p, a)
    <3>1. [artifact |-> a, id |-> file[a].id] \in LookedAt
      BY <1>29, <2>1, OwnedFile DEF ClearUnkept, LookedAt
    <3>. QED BY <1>29, <2>1, <3>1 DEF ClearUnkept, Select, LockInv, LockTypes
  <2>2. CASE Skip(p, a)
    BY <1>29, <2>2 DEF ClearUnkept, Skip, LockInv, LockTypes
  <2>. QED BY <1>29, <2>1, <2>2 DEF ClearUnkept
<1>30. ASSUME NEW p \in Procs, NEW a \in Artifacts, TrimOldest(p, a)
      PROVE  VictimInv'
  <2>1. CASE End(p)
    BY <2>1, EndKeepsVictims
  <2>2. CASE a \in Owned(values[p]) /\ Select(p, a) /\ UNCHANGED <<locks, pc>>
    <3>1. [artifact |-> a, id |-> file[a].id] \in LookedAt
      BY <2>2, OwnedFile DEF LookedAt
    <3>. QED BY <1>30, <2>2, <3>1 DEF TrimOldest, Select, LockInv, LockTypes
  <2>. QED BY <1>30, <2>1, <2>2 DEF TrimOldest
<1>31. ASSUME NEW p \in Procs, NEW r \in Requests, Start(p, r) PROVE VictimInv'
  <2>1. pc'[p] # "trim"
    BY <1>31, NoneFacts DEF Start, LockInv, LockTypes, Request, Run, SetKeep,
                        Clear, SetLimit
  <2>. QED BY <1>31, <2>1 DEF Start, LockInv, LockTypes
<1>32. ASSUME NEW a \in Artifacts, ChangeFile(a) PROVE VictimInv'
  BY <1>32 DEF ChangeFile, Spend, LockInv, LockTypes
<1>33. CASE UNCHANGED vars
  BY <1>33 DEF vars
<1>34. ASSUME NEW p \in Procs, NEW a \in Artifacts, Unlink(p, a)
      PROVE  VictimInv'
  <2>1. victims' \in [Procs -> SUBSET Artifacts]
        /\ checked' \in [Procs -> LookedAt \union {None}]
    BY <1>34 DEF Unlink
  <2>2. \A q \in Procs : victims'[q] \subseteq victims[q]
    BY <1>34 DEF Unlink
  <2>3. \A q \in Procs : checked'[q] # None =>
           checked'[q] = checked[q] /\ victims'[q] = victims[q]
    BY <1>34 DEF Unlink
  <2>. QED BY <1>34, <2>1, <2>2, <2>3 DEF Unlink, LockInv, LockTypes
<1>. QED
  BY <1>1, <1>2, <1>3, <1>4, <1>5, <1>6, <1>7, <1>8, <1>9, <1>10, <1>11,
     <1>12, <1>13, <1>14, <1>15, <1>16, <1>17, <1>18, <1>19, <1>20,
     <1>21, <1>22, <1>23, <1>24, <1>25, <1>26, <1>27, <1>28, <1>29,
     <1>30, <1>31, <1>32, <1>33, <1>34 DEF Next, Step

-----------------------------------------------------------------------------
\* A file appears at a path only when a download is published there, and goes
\* only when whoever may delete has found the recorded one there.
Installs(p) ==
    /\ pc[p] = "publish"
    /\ file[Artifact(p)] = None
    /\ file' = [file EXCEPT ![Artifact(p)] = [id |-> stamp, installed |-> TRUE]]
    /\ stamp' = stamp + 1

Deletes(p, a) ==
    /\ pc[p] \in {"unlink", "trim"}
    /\ a \in victims[p]
    /\ checked[p] # None /\ checked[p].artifact = a
    /\ file' = [file EXCEPT ![a] = None]
    /\ stamp' = stamp

Changes(a) ==
    /\ UserStep
    /\ stamp' = stamp + 1
    /\ \/ file' = [file EXCEPT ![a] = [id |-> stamp, installed |-> FALSE]]
       \/ file' = [file EXCEPT ![a] = None]

FileStep ==
    \/ UNCHANGED <<file, stamp>>
    \/ \E a \in Artifacts : Changes(a)
    \/ \E p \in Procs : Installs(p)
    \/ \E p \in Procs, a \in Artifacts : Deletes(p, a)

\* Nothing else happens to the files.
LEMMA FileSteps ==
  ASSUME VictimInv, budget \in [BoundKind -> Nat], [Next]_vars
  PROVE  FileStep
<1>1. ASSUME NEW p \in Procs, AcquireLease(p) PROVE FileStep
  BY <1>1 DEF AcquireLease, disk, FileStep
<1>2. ASSUME NEW p \in Procs, LookUp(p) PROVE FileStep
  BY <1>2 DEF LookUp, disk, FileStep
<1>3. ASSUME NEW p \in Procs, AcquireProducer(p) PROVE FileStep
  BY <1>3 DEF AcquireProducer, disk, FileStep
<1>4. ASSUME NEW p \in Procs, Hit(p) PROVE FileStep
  BY <1>4 DEF Hit, disk, FileStep
<1>5. ASSUME NEW p \in Procs, HitRaises(p) PROVE FileStep
  BY <1>5 DEF HitRaises, disk, FileStep
<1>6. ASSUME NEW p \in Procs, Reserve(p) PROVE FileStep
  BY <1>6 DEF Reserve, disk, FileStep
<1>7. ASSUME NEW p \in Procs, RefuseDownload(p) PROVE FileStep
  BY <1>7 DEF RefuseDownload, disk, FileStep
<1>8. ASSUME NEW p \in Procs, Download(p) PROVE FileStep
  BY <1>8 DEF Download, disk, FileStep
<1>9. ASSUME NEW p \in Procs, DownloadRaises(p) PROVE FileStep
  BY <1>9 DEF DownloadRaises, disk, FileStep
<1>10. ASSUME NEW p \in Procs, Publish(p) PROVE FileStep
  BY <1>10 DEF Publish, FileStep, Installs
<1>11. ASSUME NEW p \in Procs, PublishLoses(p) PROVE FileStep
  BY <1>11 DEF PublishLoses, disk, FileStep
<1>12. ASSUME NEW p \in Procs, RecordInstall(p) PROVE FileStep
  BY <1>12 DEF RecordInstall, disk, FileStep
<1>13. ASSUME NEW p \in Procs, Unreserve(p) PROVE FileStep
  BY <1>13 DEF Unreserve, disk, FileStep
<1>14. ASSUME NEW p \in Procs, EndUse(p) PROVE FileStep
  BY <1>14 DEF EndUse, disk, FileStep
<1>15. ASSUME NEW p \in Procs, ChangeKeep(p) PROVE FileStep
  BY <1>15 DEF ChangeKeep, disk, FileStep
<1>16. ASSUME NEW p \in Procs, RefuseKeep(p) PROVE FileStep
  BY <1>16 DEF RefuseKeep, disk, FileStep
<1>17. ASSUME NEW p \in Procs, BeginCleanup(p) PROVE FileStep
  BY <1>17 DEF BeginCleanup, disk, FileStep
<1>18. ASSUME NEW p \in Procs, ReadUnkept(p) PROVE FileStep
  BY <1>18 DEF ReadUnkept, disk, FileStep
<1>19. ASSUME NEW p \in Procs, UnlinkRaises(p) PROVE FileStep
  BY <1>19 DEF UnlinkRaises, disk, FileStep
<1>20. ASSUME NEW p \in Procs, BeginPolicy(p) PROVE FileStep
  BY <1>20 DEF BeginPolicy, disk, FileStep
<1>21. ASSUME NEW p \in Procs, ExcludeProducers(p) PROVE FileStep
  BY <1>21 DEF ExcludeProducers, disk, FileStep
<1>22. ASSUME NEW p \in Procs, RefuseBusy(p) PROVE FileStep
  BY <1>22 DEF RefuseBusy, disk, FileStep
<1>23. ASSUME NEW p \in Procs, CheckPolicy(p) PROVE FileStep
  BY <1>23 DEF CheckPolicy, disk, FileStep
<1>24. ASSUME NEW p \in Procs, RefusePolicy(p) PROVE FileStep
  BY <1>24 DEF RefusePolicy, disk, FileStep
<1>25. ASSUME NEW p \in Procs, NothingToTrim(p) PROVE FileStep
  BY <1>25 DEF NothingToTrim, disk, FileStep
<1>26. ASSUME NEW p \in Procs, SaveLimit(p) PROVE FileStep
  BY <1>26 DEF SaveLimit, disk, FileStep
<1>27. ASSUME NEW p \in Procs, SaveMetadata(p) PROVE FileStep
  BY <1>27 DEF SaveMetadata, disk, FileStep
<1>28. ASSUME NEW p \in Procs, Kill(p) PROVE FileStep
  BY <1>28 DEF Kill, disk, FileStep
<1>29. ASSUME NEW p \in Procs, NEW a \in Artifacts, ClearUnkept(p, a)
      PROVE  FileStep
  BY <1>29 DEF ClearUnkept, disk, FileStep
<1>30. ASSUME NEW p \in Procs, NEW a \in Artifacts, TrimOldest(p, a)
      PROVE  FileStep
  BY <1>30 DEF TrimOldest, disk, FileStep
<1>31. ASSUME NEW p \in Procs, NEW r \in Requests, Start(p, r) PROVE FileStep
  BY <1>31 DEF Start, disk, FileStep
<1>32. ASSUME NEW a \in Artifacts, ChangeFile(a) PROVE FileStep
  BY <1>32 DEF ChangeFile, Spend, BoundKind, FileStep, UserStep, Changes
<1>33. CASE UNCHANGED vars
  BY <1>33 DEF vars, disk, FileStep
<1>34. ASSUME NEW p \in Procs, NEW a \in Artifacts, Unlink(p, a)
      PROVE  FileStep
  BY <1>34 DEF Unlink, VictimInv, FileStep, Deletes
<1>. QED
  BY <1>1, <1>2, <1>3, <1>4, <1>5, <1>6, <1>7, <1>8, <1>9, <1>10, <1>11,
     <1>12, <1>13, <1>14, <1>15, <1>16, <1>17, <1>18, <1>19, <1>20,
     <1>21, <1>22, <1>23, <1>24, <1>25, <1>26, <1>27, <1>28, <1>29,
     <1>30, <1>31, <1>32, <1>33, <1>34 DEF Next, Step

\* Nothing is deleted while a reader holds its lease.
LEMMA NoReaderDeletes ==
  ASSUME LockInv, VictimInv, NEW p \in Procs, NEW a \in Artifacts, Deletes(p, a)
  PROVE  readers = {}
<1>1. writer = p
  BY DEF LockInv, LocksOf, VictimInv, Deletes
<1>. QED
  BY <1>1, NoneFacts DEF LockInv

\* A step of the program does not touch the file of a run.
LEMMA RunKeepsFile ==
  ASSUME LockInv, VictimInv, FileStep, ~UserStep,
         NEW p \in Procs, p \in readers,
         file \in [Artifacts -> File \union {None}],
         Artifact(p) \in Artifacts, file[Artifact(p)] # None
  PROVE  file'[Artifact(p)] = file[Artifact(p)]
<1>1. CASE UNCHANGED <<file, stamp>>
  BY <1>1
<1>2. ASSUME NEW q \in Procs, Installs(q)
      PROVE  file'[Artifact(p)] = file[Artifact(p)]
  BY <1>2 DEF Installs
<1>3. ASSUME NEW q \in Procs, NEW a \in Artifacts, Deletes(q, a)
      PROVE  FALSE
  BY <1>3, NoReaderDeletes
<1>. QED
  BY <1>1, <1>2, <1>3 DEF FileStep, Changes

-----------------------------------------------------------------------------
\* What the files and the tables contain; a process has a copy of managed.json
\* wherever it holds metadata.lock.
\* A published file is there while it is being recorded.
RecordInv == \A p \in Procs : pc[p] = "record" =>
    file[Artifact(p)] # None /\ file[Artifact(p)].installed

\* The data of the initial states has its type.
LEMMA DataInit == Init => DataInv
BY CacheAssumption DEF Init, DataInv, File, Row, Metadata, CopyAt

\* What a run or a change of a preference is about is an artifact.
LEMMA ArtifactType ==
  ASSUME LockInv, NEW p \in Procs, pc[p] \in RunAt \union KeepAt
  PROVE  /\ Artifact(p) \in Artifacts
         /\ pc[p] \in KeepAt => request[p].keep \in BOOLEAN
BY DEF LockInv, KindOf, Artifact, Run, SetKeep

\* So has the data that a process leaves behind when it ends,
LEMMA EndKeepsData ==
  ASSUME LockInv, DataInv, NEW p \in Procs, End(p),
         UNCHANGED <<file, stamp>>,
         rows' \in Metadata,
         limit' \in Limits \union {None},
         reservation' \in {0} \union {Size[a] : a \in Artifacts},
         kept' \in [Artifacts -> Nat \union {None}],
         budget' \in [BoundKind -> Nat]
  PROVE  DataInv'
BY DEF End, Artifact, DataInv, LockInv, LockTypes, CopyAt, Metadata, Go, disk,
   lease, locks, local

\* and that of a process that deletes a file.
LEMMA UnlinkKeepsData ==
  ASSUME LockInv, VictimInv, DataInv, NEW p \in Procs, NEW a \in Artifacts,
         Unlink(p, a)
  PROVE  DataInv'
<1>. DEFINE table == [values[p] EXCEPT ![a] = None]
<1>1. table \in Metadata
  BY DEF Unlink, VictimInv, DataInv, CopyAt, Metadata
<1>2. values' = [values EXCEPT ![p] = table]
  BY DEF Unlink
<1>3. /\ file' \in [Artifacts -> File \union {None}]
      /\ removed' \in [Procs -> BOOLEAN]
  BY DEF Unlink, DataInv
<1>4. UNCHANGED <<rows, limit, reservation, pc, request, failed, kept, stamp, budget>>
  BY DEF Unlink
<1>5. pc[p] \in {"unlink", "trim"}
  BY DEF Unlink, VictimInv
<1>. HIDE DEF table
<1>6. \A q \in Procs : pc'[q] = "saveKeep" => values'[q] = values[q]
  BY <1>2, <1>4, <1>5 DEF DataInv
<1>7. \A q \in Procs : Artifact(q)' = Artifact(q)
  BY <1>4 DEF Artifact
<1>. QED
  BY <1>1, <1>2, <1>3, <1>4, <1>6, <1>7 DEF DataInv, CopyAt

\* A budget that is spent is still a budget.
LEMMA SpendBudget ==
  ASSUME budget \in [BoundKind -> Nat], NEW kind \in BoundKind, Spend(kind)
  PROVE  budget' \in [BoundKind -> Nat]
BY DEF Spend

\* Every step keeps the types of the data.
LEMMA DataNext ==
  ASSUME LockInv, LockInv', VictimInv, DataInv, RecordInv, [Next]_vars
  PROVE  DataInv'
<1>1. ASSUME NEW p \in Procs, AcquireLease(p) PROVE DataInv'
  BY <1>1 DEF AcquireLease, Artifact, DataInv, LockInv, LockTypes, CopyAt,
     Metadata, Go, disk, lease, locks, local
<1>2. ASSUME NEW p \in Procs, LookUp(p) PROVE DataInv'
  BY <1>2 DEF LookUp, Artifact, DataInv, LockInv, LockTypes, CopyAt, Metadata,
     Go, disk, lease, locks, local
<1>3. ASSUME NEW p \in Procs, AcquireProducer(p) PROVE DataInv'
  BY <1>3 DEF AcquireProducer, Artifact, DataInv, LockInv, LockTypes, CopyAt,
     Metadata, Go, disk, lease, locks, local
<1>4. ASSUME NEW p \in Procs, Hit(p) PROVE DataInv'
  BY <1>4 DEF Hit, ReadMetadata, Artifact, DataInv, LockInv, LockTypes, CopyAt,
     Metadata, Go, disk, lease, locks, local
<1>5. ASSUME NEW p \in Procs, HitRaises(p) PROVE DataInv'
  <2>1. budget' \in [BoundKind -> Nat]
    BY <1>5, SpendBudget DEF HitRaises, DataInv, BoundKind
  <2>. QED BY <1>5, <2>1, EndKeepsData DEF HitRaises, DataInv, disk
<1>6. ASSUME NEW p \in Procs, Reserve(p) PROVE DataInv'
  BY <1>6, ArtifactType DEF Reserve, RunAt, Artifact, DataInv, LockInv,
     LockTypes, CopyAt, Metadata, Go, disk, lease, locks, local
<1>7. ASSUME NEW p \in Procs, RefuseDownload(p) PROVE DataInv'
  BY <1>7, EndKeepsData DEF RefuseDownload, DataInv, disk
<1>8. ASSUME NEW p \in Procs, Download(p) PROVE DataInv'
  BY <1>8 DEF Download, Artifact, DataInv, LockInv, LockTypes, CopyAt,
     Metadata, Go, disk, lease, locks, local
<1>9. ASSUME NEW p \in Procs, DownloadRaises(p) PROVE DataInv'
  <2>1. budget' \in [BoundKind -> Nat]
    BY <1>9, SpendBudget DEF DownloadRaises, DataInv, BoundKind
  <2>. QED BY <1>9, <2>1 DEF DownloadRaises, Artifact, DataInv, LockInv,
              LockTypes, CopyAt, Metadata, Go, disk, lease, locks, local
<1>10. ASSUME NEW p \in Procs, Publish(p) PROVE DataInv'
  <2>1. Artifact(p) \in Artifacts
    BY <1>10, ArtifactType DEF Publish, RunAt
  <2>2. [id |-> stamp, installed |-> TRUE] \in File /\ stamp + 1 \in Nat
    BY DEF DataInv, File
  <2>. QED BY <1>10, <2>1, <2>2 DEF Publish, Artifact, DataInv, LockInv,
              LockTypes, CopyAt, Metadata, Go, disk, lease, locks, local
<1>11. ASSUME NEW p \in Procs, PublishLoses(p) PROVE DataInv'
  BY <1>11 DEF PublishLoses, Artifact, DataInv, LockInv, LockTypes, CopyAt,
     Metadata, Go, disk, lease, locks, local
<1>12. ASSUME NEW p \in Procs, RecordInstall(p) PROVE DataInv'
  <2>. DEFINE table == [rows EXCEPT ![Artifact(p)] =
                         [id |-> file[Artifact(p)].id, keep |-> FALSE]]
  <2>1. Artifact(p) \in Artifacts /\ file[Artifact(p)] \in File
    BY <1>12, ArtifactType DEF RecordInstall, RunAt, RecordInv, DataInv
  <2>2. table \in Metadata
    BY <2>1 DEF DataInv, Metadata, File, Row
  <2>3. values' = [values EXCEPT ![p] = table]
    BY <1>12 DEF RecordInstall, ReadMetadata
  <2>. HIDE DEF table
  <2>. QED BY <1>12, <2>2, <2>3 DEF RecordInstall, Artifact, DataInv, LockInv,
              LockTypes, CopyAt, Metadata, Go, disk, lease, locks, local
<1>13. ASSUME NEW p \in Procs, Unreserve(p) PROVE DataInv'
  <2>1. CASE failed[p]
    BY <1>13, <2>1, EndKeepsData DEF Unreserve, DataInv
  <2>2. CASE ~failed[p]
    BY <1>13, <2>2 DEF Unreserve, Artifact, DataInv, LockInv, LockTypes,
       CopyAt, Metadata, Go, disk, lease, locks, local
  <2>. QED BY <2>1, <2>2
<1>14. ASSUME NEW p \in Procs, EndUse(p) PROVE DataInv'
  BY <1>14, EndKeepsData DEF EndUse, DataInv, disk
<1>15. ASSUME NEW p \in Procs, ChangeKeep(p) PROVE DataInv'
  <2>. DEFINE table == [rows EXCEPT ![Artifact(p)].keep = request[p].keep]
  <2>1. /\ Artifact(p) \in Artifacts /\ rows[Artifact(p)] \in Row
        /\ request[p].keep \in BOOLEAN
    BY <1>15, ArtifactType DEF ChangeKeep, KeepAt, Owned, DataInv, Metadata
  <2>2. table \in Metadata /\ table[Artifact(p)] \in Row
    BY <2>1 DEF DataInv, Metadata, Row
  <2>3. values' = [values EXCEPT ![p] = table]
    BY <1>15 DEF ChangeKeep, ReadMetadata
  <2>. HIDE DEF table
  <2>. QED BY <1>15, <2>2, <2>3 DEF ChangeKeep, Artifact, DataInv, LockInv,
              LockTypes, CopyAt, Metadata, Go, disk, lease, locks, local
<1>16. ASSUME NEW p \in Procs, RefuseKeep(p) PROVE DataInv'
  BY <1>16, EndKeepsData DEF RefuseKeep, DataInv, disk
<1>17. ASSUME NEW p \in Procs, BeginCleanup(p) PROVE DataInv'
  BY <1>17 DEF BeginCleanup, Idle, Artifact, DataInv, LockInv, LockTypes,
     CopyAt, Metadata, Go, disk, lease, locks, local
<1>18. ASSUME NEW p \in Procs, ReadUnkept(p) PROVE DataInv'
  BY <1>18 DEF ReadUnkept, ReadMetadata, Artifact, DataInv, LockInv, LockTypes,
     CopyAt, Metadata, Go, disk, lease, locks, local
<1>19. ASSUME NEW p \in Procs, UnlinkRaises(p) PROVE DataInv'
  <2>1. budget' \in [BoundKind -> Nat]
    BY <1>19, SpendBudget DEF UnlinkRaises, DataInv, BoundKind
  <2>. QED BY <1>19, <2>1, EndKeepsData DEF UnlinkRaises, DataInv, disk
<1>20. ASSUME NEW p \in Procs, BeginPolicy(p) PROVE DataInv'
  BY <1>20 DEF BeginPolicy, Idle, Artifact, DataInv, LockInv, LockTypes,
     CopyAt, Metadata, Go, disk, lease, locks, local
<1>21. ASSUME NEW p \in Procs, ExcludeProducers(p) PROVE DataInv'
  BY <1>21 DEF ExcludeProducers, Artifact, DataInv, LockInv, LockTypes, CopyAt,
     Metadata, Go, disk, lease, locks, local
<1>22. ASSUME NEW p \in Procs, RefuseBusy(p) PROVE DataInv'
  BY <1>22, EndKeepsData DEF RefuseBusy, DataInv, disk
<1>23. ASSUME NEW p \in Procs, CheckPolicy(p) PROVE DataInv'
  BY <1>23 DEF CheckPolicy, ReadMetadata, Artifact, DataInv, LockInv,
     LockTypes, CopyAt, Metadata, Go, disk, lease, locks, local
<1>24. ASSUME NEW p \in Procs, RefusePolicy(p) PROVE DataInv'
  BY <1>24, EndKeepsData DEF RefusePolicy, DataInv, disk
<1>25. ASSUME NEW p \in Procs, NothingToTrim(p) PROVE DataInv'
  BY <1>25 DEF NothingToTrim, Artifact, DataInv, LockInv, LockTypes, CopyAt,
     Metadata, Go, disk, lease, locks, local
<1>26. ASSUME NEW p \in Procs, SaveLimit(p) PROVE DataInv'
  <2>1. request[p].limit \in Limits \union {None}
    BY <1>26 DEF SaveLimit, LockInv, KindOf, LimitAt, SetLimit
  <2>. QED BY <1>26, <2>1, EndKeepsData DEF SaveLimit, DataInv
<1>27. ASSUME NEW p \in Procs, SaveMetadata(p) PROVE DataInv'
  <2>1. rows' \in Metadata
    BY <1>27 DEF SaveMetadata, DataInv, CopyAt
  <2>2. kept' \in [Artifacts -> Nat \union {None}]
    <3>1. CASE pc[p] = "saveKeep"
      <4>1. values[p][Artifact(p)].id \in Nat
        BY <3>1 DEF DataInv, Row
      <4>. QED BY <1>27, <3>1, <4>1 DEF SaveMetadata, DataInv
    <3>2. CASE UNCHANGED kept
      BY <3>2 DEF DataInv
    <3>. QED BY <1>27, <3>1, <3>2 DEF SaveMetadata
  <2>3. CASE End(p)
    BY <1>27, <2>1, <2>2, <2>3, EndKeepsData DEF SaveMetadata, DataInv
  <2>4. ASSUME NEW where \in {"use", "unreserve"}, ReleaseMetadata(p, where)
        PROVE  DataInv'
    BY <1>27, <2>1, <2>2, <2>4 DEF SaveMetadata, ReleaseMetadata, Artifact,
       DataInv, LockInv, LockTypes, CopyAt, Metadata, Go, disk, lease, locks,
       local
  <2>5. CASE Go(p, "saveLimit") /\ UNCHANGED <<locks, local>>
    BY <1>27, <2>1, <2>2, <2>5 DEF SaveMetadata, Artifact, DataInv, LockInv,
       LockTypes, CopyAt, Metadata, Go, disk, lease, locks, local
  <2>. QED BY <1>27, <2>3, <2>4, <2>5 DEF SaveMetadata
<1>28. ASSUME NEW p \in Procs, Kill(p) PROVE DataInv'
  <2>1. budget' \in [BoundKind -> Nat]
    BY <1>28, SpendBudget DEF Kill, DataInv, BoundKind
  <2>. QED BY <1>28, <2>1, EndKeepsData DEF Kill, DataInv, disk
<1>29. ASSUME NEW p \in Procs, NEW a \in Artifacts, ClearUnkept(p, a)
      PROVE  DataInv'
  BY <1>29 DEF ClearUnkept, Artifact, DataInv, LockInv, LockTypes,
     CopyAt, Metadata, Go, disk, lease, locks, local
<1>30. ASSUME NEW p \in Procs, NEW a \in Artifacts, TrimOldest(p, a)
      PROVE  DataInv'
  <2>1. CASE End(p)
    BY <1>30, <2>1, EndKeepsData DEF TrimOldest, DataInv, disk
  <2>2. CASE UNCHANGED <<locks, pc, request, values, removed, failed>>
    BY <1>30, <2>2 DEF TrimOldest, Artifact, DataInv, disk, locks
  <2>. QED BY <1>30, <2>1, <2>2 DEF TrimOldest
<1>31. ASSUME NEW p \in Procs, NEW r \in Requests, Start(p, r) PROVE DataInv'
  <2>1. budget' \in [BoundKind -> Nat]
    BY <1>31, SpendBudget DEF Start, DataInv, BoundKind
  <2>2. pc'[p] \notin CopyAt
    BY <1>31, NoneFacts DEF Start, Request, Run, SetKeep, Clear, SetLimit,
       DataInv, LockInv, LockTypes, CopyAt, Metadata, Go, disk, lease, locks,
       local
  <2>3. \A q \in Procs \ {p} : pc'[q] = pc[q] /\ Artifact(q)' = Artifact(q)
    BY <1>31 DEF Start, Artifact, Go, LockInv, LockTypes
  <2>4. pc'[p] # "saveKeep"
    BY <2>2 DEF CopyAt
  <2>5. UNCHANGED <<disk, values, removed, failed, kept, stamp>>
    BY <1>31 DEF Start
  <2>6. \A q \in Procs : pc'[q] \in CopyAt => values'[q] \in Metadata
    BY <2>2, <2>3, <2>5 DEF DataInv
  <2>7. \A q \in Procs : pc'[q] = "saveKeep" => values'[q][Artifact(q)'] \in Row
    BY <2>3, <2>4, <2>5 DEF DataInv
  <2>. QED BY <2>1, <2>5, <2>6, <2>7 DEF DataInv, disk
<1>32. ASSUME NEW a \in Artifacts, ChangeFile(a) PROVE DataInv'
  <2>1. budget' \in [BoundKind -> Nat]
    BY <1>32, SpendBudget DEF ChangeFile, DataInv, BoundKind
  <2>2. [id |-> stamp, installed |-> FALSE] \in File /\ stamp + 1 \in Nat
    BY DEF DataInv, File
  <2>3. file' \in [Artifacts -> File \union {None}] /\ stamp' \in Nat
    BY <1>32, <2>2 DEF ChangeFile, DataInv
  <2>4. UNCHANGED <<rows, limit, reservation, pc, request, values, removed, failed, kept>>
    BY <1>32 DEF ChangeFile, local, locks
  <2>5. \A q \in Procs : Artifact(q)' = Artifact(q)
    BY <2>4 DEF Artifact
  <2>. QED BY <2>1, <2>3, <2>4, <2>5 DEF DataInv
<1>33. CASE UNCHANGED vars
  BY <1>33 DEF vars, Artifact, DataInv, LockInv, LockTypes, CopyAt, Metadata,
     Go, disk, lease, locks, local
<1>34. ASSUME NEW p \in Procs, NEW a \in Artifacts, Unlink(p, a)
      PROVE  DataInv'
  BY <1>34, UnlinkKeepsData
<1>. QED
  BY <1>1, <1>2, <1>3, <1>4, <1>5, <1>6, <1>7, <1>8, <1>9, <1>10, <1>11,
     <1>12, <1>13, <1>14, <1>15, <1>16, <1>17, <1>18, <1>19, <1>20,
     <1>21, <1>22, <1>23, <1>24, <1>25, <1>26, <1>27, <1>28, <1>29,
     <1>30, <1>31, <1>32, <1>33, <1>34 DEF Next, Step

-----------------------------------------------------------------------------
\* A process is recording a file it has just published, or it was already and
\* the user leaves the file alone.
RecordStep == \A p \in Procs : pc'[p] = "record" =>
    \/ Installs(p) /\ UNCHANGED rows /\ request'[p] = request[p]
    \/ /\ pc[p] = "record" /\ request'[p] = request[p]
       /\ UserStep => file'[Artifact(p)] = file[Artifact(p)]

\* A process that ends records nothing.
LEMMA EndRecordStep ==
  ASSUME LockInv, NEW p \in Procs, End(p), UNCHANGED file
  PROVE  RecordStep
BY DEF End, Go, LockInv, LockTypes, RecordStep

\* No step but Publish begins to record, and the user waits for the record.
LEMMA RecordSteps ==
  ASSUME LockInv, DataInv, [Next]_vars
  PROVE  RecordStep
<1>1. ASSUME NEW p \in Procs, AcquireLease(p) PROVE RecordStep
  BY <1>1 DEF AcquireLease, Go, LockInv, LockTypes, RecordStep, disk, lease,
     locks, local
<1>2. ASSUME NEW p \in Procs, LookUp(p) PROVE RecordStep
  BY <1>2 DEF LookUp, Go, LockInv, LockTypes, RecordStep, disk, lease, locks,
     local
<1>3. ASSUME NEW p \in Procs, AcquireProducer(p) PROVE RecordStep
  BY <1>3 DEF AcquireProducer, Go, LockInv, LockTypes, RecordStep, disk, lease,
     locks, local
<1>4. ASSUME NEW p \in Procs, Hit(p) PROVE RecordStep
  BY <1>4 DEF Hit, ReadMetadata, Go, LockInv, LockTypes, RecordStep, disk,
     lease, locks, local
<1>5. ASSUME NEW p \in Procs, HitRaises(p) PROVE RecordStep
  BY <1>5, EndRecordStep DEF HitRaises, disk
<1>6. ASSUME NEW p \in Procs, Reserve(p) PROVE RecordStep
  BY <1>6 DEF Reserve, Go, LockInv, LockTypes, RecordStep, disk, lease, locks,
     local
<1>7. ASSUME NEW p \in Procs, RefuseDownload(p) PROVE RecordStep
  BY <1>7, EndRecordStep DEF RefuseDownload, disk
<1>8. ASSUME NEW p \in Procs, Download(p) PROVE RecordStep
  BY <1>8 DEF Download, Go, LockInv, LockTypes, RecordStep, disk, lease, locks,
     local
<1>9. ASSUME NEW p \in Procs, DownloadRaises(p) PROVE RecordStep
  BY <1>9 DEF DownloadRaises, Spend, Go, LockInv, LockTypes, RecordStep, disk,
     lease, locks, local
<1>10. ASSUME NEW p \in Procs, Publish(p) PROVE RecordStep
  <2>1. Installs(p) /\ UNCHANGED <<rows, request, budget>>
    BY <1>10 DEF Publish, Installs, local
  <2>2. \A q \in Procs \ {p} : pc'[q] = pc[q]
    BY <1>10 DEF Publish, Go, LockInv, LockTypes
  <2>. QED BY <2>1, <2>2 DEF RecordStep, UserStep
<1>11. ASSUME NEW p \in Procs, PublishLoses(p) PROVE RecordStep
  BY <1>11 DEF PublishLoses, Go, LockInv, LockTypes, RecordStep, disk, lease,
     locks, local
<1>12. ASSUME NEW p \in Procs, RecordInstall(p) PROVE RecordStep
  BY <1>12 DEF RecordInstall, ReadMetadata, Go, LockInv, LockTypes, RecordStep,
     disk, lease, locks, local
<1>13. ASSUME NEW p \in Procs, Unreserve(p) PROVE RecordStep
  <2>1. CASE failed[p]
    BY <1>13, <2>1, EndRecordStep DEF Unreserve
  <2>2. CASE ~failed[p]
    BY <1>13, <2>2 DEF Unreserve, Go, LockInv, LockTypes, RecordStep, disk,
       lease, locks, local
  <2>. QED BY <2>1, <2>2
<1>14. ASSUME NEW p \in Procs, EndUse(p) PROVE RecordStep
  BY <1>14, EndRecordStep DEF EndUse, disk
<1>15. ASSUME NEW p \in Procs, ChangeKeep(p) PROVE RecordStep
  BY <1>15 DEF ChangeKeep, ReadMetadata, Go, LockInv, LockTypes, RecordStep,
     disk, lease, locks, local
<1>16. ASSUME NEW p \in Procs, RefuseKeep(p) PROVE RecordStep
  BY <1>16, EndRecordStep DEF RefuseKeep, disk
<1>17. ASSUME NEW p \in Procs, BeginCleanup(p) PROVE RecordStep
  BY <1>17 DEF BeginCleanup, Idle, Go, LockInv, LockTypes, RecordStep, disk,
     lease, locks, local
<1>18. ASSUME NEW p \in Procs, ReadUnkept(p) PROVE RecordStep
  BY <1>18 DEF ReadUnkept, ReadMetadata, Go, LockInv, LockTypes, RecordStep,
     disk, lease, locks, local
<1>19. ASSUME NEW p \in Procs, UnlinkRaises(p) PROVE RecordStep
  BY <1>19, EndRecordStep DEF UnlinkRaises, disk
<1>20. ASSUME NEW p \in Procs, BeginPolicy(p) PROVE RecordStep
  BY <1>20 DEF BeginPolicy, Idle, Go, LockInv, LockTypes, RecordStep, disk,
     lease, locks, local
<1>21. ASSUME NEW p \in Procs, ExcludeProducers(p) PROVE RecordStep
  BY <1>21 DEF ExcludeProducers, Go, LockInv, LockTypes, RecordStep, disk,
     lease, locks, local
<1>22. ASSUME NEW p \in Procs, RefuseBusy(p) PROVE RecordStep
  BY <1>22, EndRecordStep DEF RefuseBusy, disk
<1>23. ASSUME NEW p \in Procs, CheckPolicy(p) PROVE RecordStep
  BY <1>23 DEF CheckPolicy, ReadMetadata, Go, LockInv, LockTypes, RecordStep,
     disk, lease, locks, local
<1>24. ASSUME NEW p \in Procs, RefusePolicy(p) PROVE RecordStep
  BY <1>24, EndRecordStep DEF RefusePolicy, disk
<1>25. ASSUME NEW p \in Procs, NothingToTrim(p) PROVE RecordStep
  BY <1>25 DEF NothingToTrim, Go, LockInv, LockTypes, RecordStep, disk, lease,
     locks, local
<1>26. ASSUME NEW p \in Procs, SaveLimit(p) PROVE RecordStep
  BY <1>26, EndRecordStep DEF SaveLimit, disk
<1>27. ASSUME NEW p \in Procs, SaveMetadata(p) PROVE RecordStep
  <2>1. CASE End(p)
    BY <1>27, <2>1, EndRecordStep DEF SaveMetadata
  <2>2. ASSUME NEW where \in {"use", "unreserve"}, ReleaseMetadata(p, where)
        PROVE  RecordStep
    BY <1>27, <2>2 DEF SaveMetadata, ReleaseMetadata, Go, LockInv, LockTypes,
       RecordStep, disk, lease, locks, local
  <2>3. CASE Go(p, "saveLimit") /\ UNCHANGED <<locks, local>>
    BY <1>27, <2>3 DEF SaveMetadata, Go, LockInv, LockTypes, RecordStep, disk,
       lease, locks, local
  <2>. QED BY <1>27, <2>1, <2>2, <2>3 DEF SaveMetadata
<1>28. ASSUME NEW p \in Procs, Kill(p) PROVE RecordStep
  BY <1>28, EndRecordStep DEF Kill, disk
<1>29. ASSUME NEW p \in Procs, NEW a \in Artifacts, ClearUnkept(p, a)
      PROVE  RecordStep
  BY <1>29 DEF ClearUnkept, RecordStep, UserStep
<1>30. ASSUME NEW p \in Procs, NEW a \in Artifacts, TrimOldest(p, a)
      PROVE  RecordStep
  <2>1. CASE End(p) /\ UNCHANGED file
    BY <2>1, EndRecordStep
  <2>2. CASE UNCHANGED <<pc, request>>
    BY <1>30, <2>2 DEF TrimOldest, RecordStep, UserStep
  <2>. QED BY <1>30, <2>1, <2>2 DEF TrimOldest, disk
<1>31. ASSUME NEW p \in Procs, NEW r \in Requests, Start(p, r) PROVE RecordStep
  <2>1. pc'[p] # "record"
    BY <1>31, NoneFacts DEF Start, Request, Run, SetKeep, Clear, SetLimit, Go,
                        LockInv, LockTypes
  <2>. QED BY <1>31, <2>1 DEF Start, Go, LockInv, LockTypes, RecordStep, disk,
              lease, locks, local
<1>32. ASSUME NEW a \in Artifacts, ChangeFile(a) PROVE RecordStep
  <2>1. ASSUME NEW p \in Procs, pc[p] = "record"
        PROVE  file'[Artifact(p)] = file[Artifact(p)]
    <3>1. Artifact(p) \in Artifacts /\ Artifact(p) # a
      BY <1>32, <2>1, ArtifactType DEF ChangeFile, RunAt
    <3>. QED BY <1>32, <3>1 DEF ChangeFile, DataInv
  <2>. QED BY <1>32, <2>1 DEF ChangeFile, Go, LockInv, LockTypes, RecordStep,
              disk, lease, locks, local
<1>33. CASE UNCHANGED vars
  BY <1>33 DEF vars, Go, LockInv, LockTypes, RecordStep, disk, lease, locks,
     local
<1>34. ASSUME NEW p \in Procs, NEW a \in Artifacts, Unlink(p, a)
      PROVE  RecordStep
  BY <1>34 DEF Unlink, RecordStep, UserStep
<1>. QED
  BY <1>1, <1>2, <1>3, <1>4, <1>5, <1>6, <1>7, <1>8, <1>9, <1>10, <1>11,
     <1>12, <1>13, <1>14, <1>15, <1>16, <1>17, <1>18, <1>19, <1>20,
     <1>21, <1>22, <1>23, <1>24, <1>25, <1>26, <1>27, <1>28, <1>29,
     <1>30, <1>31, <1>32, <1>33, <1>34 DEF Next, Step

\* The lease of the recording process keeps the file where it is.
LEMMA RecordNext ==
  ASSUME LockInv, VictimInv, DataInv, RecordInv, [Next]_vars
  PROVE  RecordInv'
<1>1. RecordStep /\ FileStep
  BY RecordSteps, FileSteps DEF DataInv
<1>2. SUFFICES ASSUME NEW p \in Procs, pc'[p] = "record"
               PROVE  file'[Artifact(p)'] # None /\ file'[Artifact(p)'].installed
  BY DEF RecordInv
<1>3. CASE pc[p] = "record" /\ request'[p] = request[p]
           /\ (UserStep => file'[Artifact(p)] = file[Artifact(p)])
  <2>1. /\ file[Artifact(p)] # None /\ file[Artifact(p)].installed
        /\ Artifact(p) \in Artifacts /\ p \in readers
    BY <1>3, ArtifactType DEF RecordInv, LockInv, LocksOf, RunAt
  <2>2. file'[Artifact(p)] = file[Artifact(p)]
    BY <1>1, <1>3, <2>1, RunKeepsFile DEF DataInv
  <2>. QED
    BY <1>3, <2>1, <2>2 DEF Artifact
<1>4. CASE Installs(p) /\ request'[p] = request[p]
  <2>1. /\ Artifact(p) \in Artifacts /\ Artifact(p)' = Artifact(p)
        /\ [id |-> stamp, installed |-> TRUE] \in File
    BY <1>4, ArtifactType DEF Installs, RunAt, Artifact, DataInv, File
  <2>2. file'[Artifact(p)] = [id |-> stamp, installed |-> TRUE]
    BY <1>4, <2>1 DEF Installs, DataInv
  <2>3. file'[Artifact(p)].installed
    BY <2>2
  <2>4. file'[Artifact(p)] # None
    BY <2>1, <2>2, NoneFacts
  <2>. QED
    BY <2>1, <2>3, <2>4
<1>. QED
  BY <1>1, <1>2, <1>3, <1>4 DEF RecordStep

-----------------------------------------------------------------------------
\* The part of the invariant that says where locks are and what the data is.
BaseInv == LockInv /\ VictimInv /\ DataInv /\ RecordInv

\* The base of the invariant holds at the start,
LEMMA BaseInit == Init => BaseInv
<1>1. Init => RecordInv
  BY DEF Init, RecordInv
<1>. QED
  BY <1>1, LockInit, VictimInit, DataInit DEF BaseInv

\* is kept by every step,
LEMMA BaseNext == ASSUME BaseInv, [Next]_vars PROVE BaseInv'
BY LockNext, VictimNext, DataNext, RecordNext DEF BaseInv

\* and so holds always.
LEMMA BaseSafe == Spec => []BaseInv
BY BaseInit, BaseNext, PTL DEF Spec

\* The variables keep their types (the reservation is that of one download:
\* cache_budget.py:171).
THEOREM TypeSafe == Spec => []TypeOK
<1>1. BaseInv => TypeOK
  BY DEF BaseInv, LockInv, LockTypes, VictimInv, DataInv, TypeOK
<1>. QED
  BY <1>1, BaseSafe, PTL

\* No process deletes the file a run has found or installed: it holds a shared
\* lease, and whoever deletes has the exclusive one (cache_control.py:44-66).
THEOREM ReaderSafe == Spec => ReaderKeepsFile
<1>1. ASSUME BaseInv, [Next]_vars
      PROVE  [UserStep \/ \A p \in Procs :
                InUse(p) /\ file[Artifact(p)] # None
                  => file'[Artifact(p)] = file[Artifact(p)]]_vars
  <2>1. SUFFICES ASSUME ~UserStep, NEW p \in Procs, InUse(p),
                        file[Artifact(p)] # None
                 PROVE  file'[Artifact(p)] = file[Artifact(p)]
    OBVIOUS
  <2>2. FileStep
    BY <1>1, FileSteps DEF BaseInv, DataInv
  <2>3. p \in readers /\ Artifact(p) \in Artifacts
    BY <1>1, <2>1, ArtifactType DEF InUse, BaseInv, LockInv, LocksOf, RunAt
  <2>. QED
    BY <1>1, <2>1, <2>2, <2>3, RunKeepsFile DEF BaseInv, DataInv
<1>. QED
  BY <1>1, BaseSafe, PTL DEF Spec, ReaderKeepsFile

-----------------------------------------------------------------------------
\* What a step can do to the copy of managed.json that p works on: keep it,
\* take it, or strike out a file it deletes.
CopyKept(p) ==
    /\ pc'[p] = pc[p]
    /\ values'[p] = values[p]
    /\ request'[p] = request[p]
    /\ \/ victims'[p] = victims[p]
       \/ pc[p] = "unlink" /\ victims'[p] \subseteq victims[p]
    /\ \/ checked'[p] = checked[p]
       \/ /\ UNCHANGED file
          /\ \E a \in Owned(values[p]) :
                checked'[p] = [artifact |-> a, id |-> file[a].id]

CopyTaken(p) ==
    /\ UNCHANGED <<disk, kept, stamp>>
    /\ checked'[p] = None
    /\ request'[p] = request[p]
    /\ \/ /\ pc'[p] = "saveTouch"
          /\ values'[p] = rows
       \/ /\ pc[p] = "record" /\ pc'[p] = "saveRow"
          /\ values'[p] = [rows EXCEPT ![Artifact(p)] =
                             [id |-> file[Artifact(p)].id, keep |-> FALSE]]
       \/ /\ pc[p] = "keep" /\ pc'[p] = "saveKeep"
          /\ Artifact(p) \in Owned(rows)
          /\ values'[p] = [rows EXCEPT ![Artifact(p)].keep = request[p].keep]
       \/ /\ pc'[p] = "unlink"
          /\ values'[p] = rows
          /\ \A a \in victims'[p] : ~rows[a].keep
       \/ /\ pc[p] = "policyCheck" /\ pc'[p] = "trim"
          /\ values'[p] = rows
          /\ OldestFirst(victims'[p], request[p].limit)

CopyCut(p) ==
    /\ pc'[p] = pc[p]
    /\ request'[p] = request[p]
    /\ \E a \in Artifacts :
          /\ Deletes(p, a)
          /\ values'[p] = [values[p] EXCEPT ![a] = None]
          /\ victims'[p] = victims[p] \ {a}
    /\ checked'[p] = None
    /\ UNCHANGED <<rows, limit, kept>>

CopyStep == \A p \in Procs :
    pc'[p] \in CopyAt => CopyKept(p) \/ CopyTaken(p) \/ CopyCut(p)

\* The other processes keep what they had.
Others(p) == \A q \in Procs \ {p} :
    /\ pc'[q] = pc[q]
    /\ request'[q] = request[q]
    /\ values'[q] = values[q]
    /\ victims'[q] = victims[q]
    /\ checked'[q] = checked[q]

\* A process that ends leaves the copies of the others alone.
LEMMA EndCopyStep ==
  ASSUME LockInv, VictimInv, DataInv, NEW p \in Procs, End(p)
  PROVE  CopyStep
BY DEF End, Go, LockInv, LockTypes, VictimInv, DataInv, CopyStep, CopyKept,
   CopyAt

\* Nothing else happens to the copies.
LEMMA CopySteps ==
  ASSUME LockInv, VictimInv, DataInv, [Next]_vars
  PROVE  CopyStep
<1>1. ASSUME NEW p \in Procs, AcquireLease(p) PROVE CopyStep
  <2>1. Others(p)
    BY <1>1 DEF AcquireLease, local, Others, Go, LockInv, LockTypes, VictimInv,
       DataInv
  <2>2. pc'[p] \notin CopyAt
    BY <1>1 DEF AcquireLease, CopyAt, Go, LockInv, LockTypes, VictimInv, DataInv
  <2>. QED BY <2>1, <2>2 DEF Others, CopyStep, CopyKept
<1>2. ASSUME NEW p \in Procs, LookUp(p) PROVE CopyStep
  <2>1. Others(p)
    BY <1>2 DEF LookUp, local, Others, Go, LockInv, LockTypes, VictimInv,
       DataInv
  <2>2. pc'[p] \notin CopyAt
    BY <1>2 DEF LookUp, CopyAt, Go, LockInv, LockTypes, VictimInv, DataInv
  <2>. QED BY <2>1, <2>2 DEF Others, CopyStep, CopyKept
<1>3. ASSUME NEW p \in Procs, AcquireProducer(p) PROVE CopyStep
  <2>1. Others(p)
    BY <1>3 DEF AcquireProducer, local, Others, Go, LockInv, LockTypes,
       VictimInv, DataInv
  <2>2. pc'[p] \notin CopyAt
    BY <1>3 DEF AcquireProducer, CopyAt, Go, LockInv, LockTypes, VictimInv,
       DataInv
  <2>. QED BY <2>1, <2>2 DEF Others, CopyStep, CopyKept
<1>4. ASSUME NEW p \in Procs, Hit(p) PROVE CopyStep
  <2>1. Others(p)
    BY <1>4 DEF Hit, ReadMetadata, Others, Go, LockInv, LockTypes, VictimInv,
       DataInv
  <2>2. CopyTaken(p)
    BY <1>4 DEF Hit, ReadMetadata, disk, CopyTaken, Go, LockInv, LockTypes,
       VictimInv, DataInv
  <2>. QED BY <2>1, <2>2 DEF Others, CopyStep, CopyKept
<1>5. ASSUME NEW p \in Procs, HitRaises(p) PROVE CopyStep
  BY <1>5, EndCopyStep DEF HitRaises
<1>6. ASSUME NEW p \in Procs, Reserve(p) PROVE CopyStep
  <2>1. Others(p)
    BY <1>6 DEF Reserve, local, Others, Go, LockInv, LockTypes, VictimInv,
       DataInv
  <2>2. pc'[p] \notin CopyAt
    BY <1>6 DEF Reserve, CopyAt, Go, LockInv, LockTypes, VictimInv, DataInv
  <2>. QED BY <2>1, <2>2 DEF Others, CopyStep, CopyKept
<1>7. ASSUME NEW p \in Procs, RefuseDownload(p) PROVE CopyStep
  BY <1>7, EndCopyStep DEF RefuseDownload
<1>8. ASSUME NEW p \in Procs, Download(p) PROVE CopyStep
  <2>1. Others(p)
    BY <1>8 DEF Download, local, Others, Go, LockInv, LockTypes, VictimInv,
       DataInv
  <2>2. pc'[p] \notin CopyAt
    BY <1>8 DEF Download, CopyAt, Go, LockInv, LockTypes, VictimInv, DataInv
  <2>. QED BY <2>1, <2>2 DEF Others, CopyStep, CopyKept
<1>9. ASSUME NEW p \in Procs, DownloadRaises(p) PROVE CopyStep
  <2>1. Others(p)
    BY <1>9 DEF DownloadRaises, Spend, local, Others, Go, LockInv, LockTypes,
       VictimInv, DataInv
  <2>2. pc'[p] \notin CopyAt
    BY <1>9 DEF DownloadRaises, Spend, CopyAt, Go, LockInv, LockTypes,
       VictimInv, DataInv
  <2>. QED BY <2>1, <2>2 DEF Others, CopyStep, CopyKept
<1>10. ASSUME NEW p \in Procs, Publish(p) PROVE CopyStep
  <2>1. Others(p)
    BY <1>10 DEF Publish, local, Others, Go, LockInv, LockTypes, VictimInv,
       DataInv
  <2>2. pc'[p] \notin CopyAt
    BY <1>10 DEF Publish, CopyAt, Go, LockInv, LockTypes, VictimInv, DataInv
  <2>. QED BY <2>1, <2>2 DEF Others, CopyStep, CopyKept
<1>11. ASSUME NEW p \in Procs, PublishLoses(p) PROVE CopyStep
  <2>1. Others(p)
    BY <1>11 DEF PublishLoses, local, Others, Go, LockInv, LockTypes,
       VictimInv, DataInv
  <2>2. pc'[p] \notin CopyAt
    BY <1>11 DEF PublishLoses, CopyAt, Go, LockInv, LockTypes, VictimInv,
       DataInv
  <2>. QED BY <2>1, <2>2 DEF Others, CopyStep, CopyKept
<1>12. ASSUME NEW p \in Procs, RecordInstall(p) PROVE CopyStep
  <2>1. Others(p)
    BY <1>12 DEF RecordInstall, ReadMetadata, Others, Go, LockInv, LockTypes,
       VictimInv, DataInv
  <2>2. CopyTaken(p)
    BY <1>12 DEF RecordInstall, ReadMetadata, disk, CopyTaken, Go, LockInv,
       LockTypes, VictimInv, DataInv
  <2>. QED BY <2>1, <2>2 DEF Others, CopyStep, CopyKept
<1>13. ASSUME NEW p \in Procs, Unreserve(p) PROVE CopyStep
  <2>1. CASE failed[p]
    BY <1>13, <2>1, EndCopyStep DEF Unreserve
  <2>2. CASE ~failed[p]
    <3>1. Others(p)
      BY <1>13, <2>2 DEF Unreserve, local, Others, Go, LockInv, LockTypes,
         VictimInv, DataInv
    <3>2. pc'[p] \notin CopyAt
      BY <1>13, <2>2 DEF Unreserve, CopyAt, Go, LockInv, LockTypes, VictimInv,
         DataInv
    <3>. QED BY <3>1, <3>2 DEF Others, CopyStep, CopyKept
  <2>. QED BY <2>1, <2>2
<1>14. ASSUME NEW p \in Procs, EndUse(p) PROVE CopyStep
  BY <1>14, EndCopyStep DEF EndUse
<1>15. ASSUME NEW p \in Procs, ChangeKeep(p) PROVE CopyStep
  <2>1. Others(p)
    BY <1>15 DEF ChangeKeep, ReadMetadata, Others, Go, LockInv, LockTypes,
       VictimInv, DataInv
  <2>2. CopyTaken(p)
    BY <1>15 DEF ChangeKeep, ReadMetadata, disk, CopyTaken, Go, LockInv,
       LockTypes, VictimInv, DataInv
  <2>. QED BY <2>1, <2>2 DEF Others, CopyStep, CopyKept
<1>16. ASSUME NEW p \in Procs, RefuseKeep(p) PROVE CopyStep
  BY <1>16, EndCopyStep DEF RefuseKeep
<1>17. ASSUME NEW p \in Procs, BeginCleanup(p) PROVE CopyStep
  <2>1. Others(p)
    BY <1>17 DEF BeginCleanup, Idle, local, Others, Go, LockInv, LockTypes,
       VictimInv, DataInv
  <2>2. pc'[p] \notin CopyAt
    BY <1>17 DEF BeginCleanup, Idle, CopyAt, Go, LockInv, LockTypes, VictimInv,
       DataInv
  <2>. QED BY <2>1, <2>2 DEF Others, CopyStep, CopyKept
<1>18. ASSUME NEW p \in Procs, ReadUnkept(p) PROVE CopyStep
  <2>1. Others(p)
    BY <1>18 DEF ReadUnkept, ReadMetadata, Others, Go, LockInv, LockTypes,
       VictimInv, DataInv
  <2>2. CopyTaken(p)
    BY <1>18 DEF ReadUnkept, ReadMetadata, disk, CopyTaken, Go, LockInv,
       LockTypes, VictimInv, DataInv
  <2>. QED BY <2>1, <2>2 DEF Others, CopyStep, CopyKept
<1>19. ASSUME NEW p \in Procs, UnlinkRaises(p) PROVE CopyStep
  BY <1>19, EndCopyStep DEF UnlinkRaises
<1>20. ASSUME NEW p \in Procs, BeginPolicy(p) PROVE CopyStep
  <2>1. Others(p)
    BY <1>20 DEF BeginPolicy, Idle, local, Others, Go, LockInv, LockTypes,
       VictimInv, DataInv
  <2>2. pc'[p] \notin CopyAt
    BY <1>20 DEF BeginPolicy, Idle, CopyAt, Go, LockInv, LockTypes, VictimInv,
       DataInv
  <2>. QED BY <2>1, <2>2 DEF Others, CopyStep, CopyKept
<1>21. ASSUME NEW p \in Procs, ExcludeProducers(p) PROVE CopyStep
  <2>1. Others(p)
    BY <1>21 DEF ExcludeProducers, local, Others, Go, LockInv, LockTypes,
       VictimInv, DataInv
  <2>2. pc'[p] \notin CopyAt
    BY <1>21 DEF ExcludeProducers, CopyAt, Go, LockInv, LockTypes, VictimInv,
       DataInv
  <2>. QED BY <2>1, <2>2 DEF Others, CopyStep, CopyKept
<1>22. ASSUME NEW p \in Procs, RefuseBusy(p) PROVE CopyStep
  BY <1>22, EndCopyStep DEF RefuseBusy
<1>23. ASSUME NEW p \in Procs, CheckPolicy(p) PROVE CopyStep
  <2>. PICK S \in SUBSET Artifacts :
          /\ OldestFirst(S, request[p].limit)
          /\ victims' = [victims EXCEPT ![p] = S]
    BY <1>23 DEF CheckPolicy
  <2>1. Others(p)
    BY <1>23 DEF CheckPolicy, ReadMetadata, Others, Go, LockInv, LockTypes,
       VictimInv, DataInv
  <2>2. CopyTaken(p)
    BY <1>23 DEF CheckPolicy, ReadMetadata, disk, CopyTaken, Go, LockInv,
       LockTypes, VictimInv, DataInv
  <2>. QED BY <2>1, <2>2 DEF Others, CopyStep, CopyKept
<1>24. ASSUME NEW p \in Procs, RefusePolicy(p) PROVE CopyStep
  BY <1>24, EndCopyStep DEF RefusePolicy
<1>25. ASSUME NEW p \in Procs, NothingToTrim(p) PROVE CopyStep
  <2>1. Others(p)
    BY <1>25 DEF NothingToTrim, local, Others, Go, LockInv, LockTypes,
       VictimInv, DataInv
  <2>2. pc'[p] \notin CopyAt
    BY <1>25 DEF NothingToTrim, CopyAt, Go, LockInv, LockTypes, VictimInv,
       DataInv
  <2>. QED BY <2>1, <2>2 DEF Others, CopyStep, CopyKept
<1>26. ASSUME NEW p \in Procs, SaveLimit(p) PROVE CopyStep
  BY <1>26, EndCopyStep DEF SaveLimit
<1>27. ASSUME NEW p \in Procs, SaveMetadata(p) PROVE CopyStep
  <2>1. CASE End(p)
    BY <2>1, EndCopyStep
  <2>2. ASSUME NEW where \in {"use", "unreserve", "saveLimit"}, Go(p, where),
               UNCHANGED <<request, victims, checked>>,
               values' = [values EXCEPT ![p] = None] \/ values' = values
        PROVE  CopyStep
    BY <2>2 DEF CopyStep, CopyKept, CopyAt, Go, LockInv, LockTypes, VictimInv,
       DataInv
  <2>. QED BY <1>27, <2>1, <2>2 DEF SaveMetadata, ReleaseMetadata, local
<1>28. ASSUME NEW p \in Procs, Kill(p) PROVE CopyStep
  BY <1>28, EndCopyStep DEF Kill
<1>29. ASSUME NEW p \in Procs, NEW a \in Artifacts, ClearUnkept(p, a)
      PROVE  CopyStep
  <2>1. Others(p)
    BY <1>29 DEF ClearUnkept, Select, Skip, Others, LockInv, LockTypes,
       VictimInv, DataInv
  <2>2. CopyKept(p)
    BY <1>29 DEF ClearUnkept, Select, Skip, CopyKept, disk, LockInv, LockTypes,
       VictimInv, DataInv
  <2>. QED BY <2>1, <2>2 DEF Others, CopyStep, CopyKept
<1>30. ASSUME NEW p \in Procs, NEW a \in Artifacts, TrimOldest(p, a)
      PROVE  CopyStep
  <2>1. CASE End(p)
    BY <2>1, EndCopyStep
  <2>2. CASE /\ a \in Owned(values[p]) /\ Select(p, a)
             /\ UNCHANGED <<pc, request, values>>
    <3>1. Others(p)
      BY <1>30, <2>2 DEF TrimOldest, Select, Others, LockInv, LockTypes,
         VictimInv, DataInv
    <3>2. CopyKept(p)
      BY <1>30, <2>2 DEF TrimOldest, Select, CopyKept, disk, LockInv, LockTypes,
         VictimInv, DataInv
    <3>. QED BY <3>1, <3>2 DEF Others, CopyStep, CopyKept
  <2>. QED BY <1>30, <2>1, <2>2 DEF TrimOldest
<1>31. ASSUME NEW p \in Procs, NEW r \in Requests, Start(p, r) PROVE CopyStep
  <2>1. pc'[p] \notin CopyAt
    BY <1>31, NoneFacts DEF Start, Request, Run, SetKeep, Clear, SetLimit, Go,
       LockInv,
                        LockTypes, CopyAt
  <2>2. Others(p)
    BY <1>31 DEF Start, Others, Go, LockInv, LockTypes, VictimInv, DataInv
  <2>. QED BY <2>1, <2>2 DEF Others, CopyStep, CopyKept
<1>32. ASSUME NEW a \in Artifacts, ChangeFile(a) PROVE CopyStep
  BY <1>32 DEF ChangeFile, local, CopyStep, CopyKept
<1>33. CASE UNCHANGED vars
  BY <1>33 DEF vars, local, CopyStep, CopyKept
<1>34. ASSUME NEW p \in Procs, NEW a \in Artifacts, Unlink(p, a)
      PROVE  CopyStep
  <2>1. Others(p)
    BY <1>34 DEF Unlink, Others, LockInv, LockTypes, VictimInv, DataInv
  <2>2. Deletes(p, a)
    BY <1>34 DEF Unlink, Deletes, VictimInv
  <2>3. CopyCut(p)
    BY <1>34, <2>2 DEF Unlink, CopyCut, LockInv, LockTypes, VictimInv, DataInv
  <2>. QED BY <2>1, <2>3 DEF Others, CopyStep, CopyKept
<1>. QED
  BY <1>1, <1>2, <1>3, <1>4, <1>5, <1>6, <1>7, <1>8, <1>9, <1>10, <1>11,
     <1>12, <1>13, <1>14, <1>15, <1>16, <1>17, <1>18, <1>19, <1>20,
     <1>21, <1>22, <1>23, <1>24, <1>25, <1>26, <1>27, <1>28, <1>29,
     <1>30, <1>31, <1>32, <1>33, <1>34 DEF Next, Step

\* managed.json is replaced only by the copy of a process that has one.
RowStep ==
    \/ UNCHANGED <<rows, kept>>
    \/ \E p \in Procs :
          /\ pc[p] \in CopyAt /\ pc'[p] \notin CopyAt
          /\ pc[p] \in {"unlink", "trim"} => victims[p] = {}
          /\ rows' = values[p]
          /\ kept' = IF pc[p] = "saveKeep"
                     THEN [kept EXCEPT ![Artifact(p)] = IF request[p].keep
                             THEN values[p][Artifact(p)].id ELSE None]
                     ELSE kept
          /\ UNCHANGED <<file, limit, stamp>>

\* Nothing else happens to managed.json.
LEMMA RowSteps ==
  ASSUME LockInv, [Next]_vars
  PROVE  RowStep
<1>1. ASSUME NEW p \in Procs, AcquireLease(p) PROVE RowStep
  BY <1>1 DEF AcquireLease, disk, RowStep
<1>2. ASSUME NEW p \in Procs, LookUp(p) PROVE RowStep
  BY <1>2 DEF LookUp, disk, RowStep
<1>3. ASSUME NEW p \in Procs, AcquireProducer(p) PROVE RowStep
  BY <1>3 DEF AcquireProducer, disk, RowStep
<1>4. ASSUME NEW p \in Procs, Hit(p) PROVE RowStep
  BY <1>4 DEF Hit, disk, RowStep
<1>5. ASSUME NEW p \in Procs, HitRaises(p) PROVE RowStep
  BY <1>5 DEF HitRaises, disk, RowStep
<1>6. ASSUME NEW p \in Procs, Reserve(p) PROVE RowStep
  BY <1>6 DEF Reserve, disk, RowStep
<1>7. ASSUME NEW p \in Procs, RefuseDownload(p) PROVE RowStep
  BY <1>7 DEF RefuseDownload, disk, RowStep
<1>8. ASSUME NEW p \in Procs, Download(p) PROVE RowStep
  BY <1>8 DEF Download, disk, RowStep
<1>9. ASSUME NEW p \in Procs, DownloadRaises(p) PROVE RowStep
  BY <1>9 DEF DownloadRaises, disk, RowStep
<1>10. ASSUME NEW p \in Procs, Publish(p) PROVE RowStep
  BY <1>10 DEF Publish, disk, RowStep
<1>11. ASSUME NEW p \in Procs, PublishLoses(p) PROVE RowStep
  BY <1>11 DEF PublishLoses, disk, RowStep
<1>12. ASSUME NEW p \in Procs, RecordInstall(p) PROVE RowStep
  BY <1>12 DEF RecordInstall, disk, RowStep
<1>13. ASSUME NEW p \in Procs, Unreserve(p) PROVE RowStep
  BY <1>13 DEF Unreserve, disk, RowStep
<1>14. ASSUME NEW p \in Procs, EndUse(p) PROVE RowStep
  BY <1>14 DEF EndUse, disk, RowStep
<1>15. ASSUME NEW p \in Procs, ChangeKeep(p) PROVE RowStep
  BY <1>15 DEF ChangeKeep, disk, RowStep
<1>16. ASSUME NEW p \in Procs, RefuseKeep(p) PROVE RowStep
  BY <1>16 DEF RefuseKeep, disk, RowStep
<1>17. ASSUME NEW p \in Procs, BeginCleanup(p) PROVE RowStep
  BY <1>17 DEF BeginCleanup, disk, RowStep
<1>18. ASSUME NEW p \in Procs, ReadUnkept(p) PROVE RowStep
  BY <1>18 DEF ReadUnkept, disk, RowStep
<1>19. ASSUME NEW p \in Procs, UnlinkRaises(p) PROVE RowStep
  BY <1>19 DEF UnlinkRaises, disk, RowStep
<1>20. ASSUME NEW p \in Procs, BeginPolicy(p) PROVE RowStep
  BY <1>20 DEF BeginPolicy, disk, RowStep
<1>21. ASSUME NEW p \in Procs, ExcludeProducers(p) PROVE RowStep
  BY <1>21 DEF ExcludeProducers, disk, RowStep
<1>22. ASSUME NEW p \in Procs, RefuseBusy(p) PROVE RowStep
  BY <1>22 DEF RefuseBusy, disk, RowStep
<1>23. ASSUME NEW p \in Procs, CheckPolicy(p) PROVE RowStep
  BY <1>23 DEF CheckPolicy, disk, RowStep
<1>24. ASSUME NEW p \in Procs, RefusePolicy(p) PROVE RowStep
  BY <1>24 DEF RefusePolicy, disk, RowStep
<1>25. ASSUME NEW p \in Procs, NothingToTrim(p) PROVE RowStep
  BY <1>25 DEF NothingToTrim, disk, RowStep
<1>26. ASSUME NEW p \in Procs, SaveLimit(p) PROVE RowStep
  BY <1>26 DEF SaveLimit, disk, RowStep
<1>27. ASSUME NEW p \in Procs, SaveMetadata(p) PROVE RowStep
  BY <1>27 DEF SaveMetadata, ReleaseMetadata, End, Go, CopyAt, LockInv,
     LockTypes,
                RowStep
<1>28. ASSUME NEW p \in Procs, Kill(p) PROVE RowStep
  BY <1>28 DEF Kill, disk, RowStep
<1>29. ASSUME NEW p \in Procs, NEW a \in Artifacts, ClearUnkept(p, a)
      PROVE  RowStep
  BY <1>29 DEF ClearUnkept, disk, RowStep
<1>30. ASSUME NEW p \in Procs, NEW a \in Artifacts, TrimOldest(p, a)
      PROVE  RowStep
  BY <1>30 DEF TrimOldest, disk, RowStep
<1>31. ASSUME NEW p \in Procs, NEW r \in Requests, Start(p, r) PROVE RowStep
  BY <1>31 DEF Start, disk, RowStep
<1>32. ASSUME NEW a \in Artifacts, ChangeFile(a) PROVE RowStep
  BY <1>32 DEF ChangeFile, RowStep
<1>33. CASE UNCHANGED vars
  BY <1>33 DEF vars, disk, RowStep
<1>34. ASSUME NEW p \in Procs, NEW a \in Artifacts, Unlink(p, a)
      PROVE  RowStep
  BY <1>34 DEF Unlink, RowStep
<1>. QED
  BY <1>1, <1>2, <1>3, <1>4, <1>5, <1>6, <1>7, <1>8, <1>9, <1>10, <1>11,
     <1>12, <1>13, <1>14, <1>15, <1>16, <1>17, <1>18, <1>19, <1>20,
     <1>21, <1>22, <1>23, <1>24, <1>25, <1>26, <1>27, <1>28, <1>29,
     <1>30, <1>31, <1>32, <1>33, <1>34 DEF Next, Step

-----------------------------------------------------------------------------
\* Identities are never used twice: all that are in use are old, so no row
\* speaks of a file that is yet to appear.
OldIds(table) == \A a \in Artifacts : table[a] # None => table[a].id < stamp

IdInv ==
    /\ \A a \in Artifacts : file[a] # None => file[a].id < stamp
    /\ \A a \in Artifacts : kept[a] # None => kept[a] < stamp
    /\ OldIds(rows)
    /\ \A p \in Procs : pc[p] \in CopyAt => OldIds(values[p])

\* At the start every identity is old.
LEMMA IdInit == Init => IdInv
BY DEF Init, IdInv, OldIds, CopyAt

\* Time goes on, and a new file takes the next identity.
LEMMA StampStep ==
  ASSUME DataInv, DataInv', FileStep
  PROVE  /\ stamp \in Nat /\ stamp' \in Nat /\ stamp <= stamp'
         /\ \A a \in Artifacts : file'[a] # None =>
              \/ file'[a] = file[a]
              \/ file'[a].id = stamp /\ stamp' = stamp + 1
<1>. stamp \in Nat /\ stamp' \in Nat
  BY DEF DataInv
<1>1. CASE UNCHANGED <<file, stamp>>
  BY <1>1
<1>2. ASSUME NEW b \in Artifacts, Changes(b)
      PROVE  /\ stamp <= stamp'
             /\ \A a \in Artifacts : file'[a] # None =>
                  \/ file'[a] = file[a]
                  \/ file'[a].id = stamp /\ stamp' = stamp + 1
  BY <1>2 DEF Changes, DataInv
<1>3. ASSUME NEW p \in Procs, Installs(p)
      PROVE  /\ stamp <= stamp'
             /\ \A a \in Artifacts : file'[a] # None =>
                  \/ file'[a] = file[a]
                  \/ file'[a].id = stamp /\ stamp' = stamp + 1
  BY <1>3 DEF Installs, DataInv
<1>4. ASSUME NEW p \in Procs, NEW b \in Artifacts, Deletes(p, b)
      PROVE  /\ stamp <= stamp'
             /\ \A a \in Artifacts : file'[a] # None =>
                  \/ file'[a] = file[a]
                  \/ file'[a].id = stamp /\ stamp' = stamp + 1
  BY <1>4 DEF Deletes, DataInv
<1>. QED
  BY <1>1, <1>2, <1>3, <1>4 DEF FileStep

\* Tables are made of rows and files that are there, whose identities are old.
LEMMA IdNext ==
  ASSUME BaseInv, BaseInv', IdInv, FileStep, CopyStep, RowStep
  PROVE  IdInv'
<1>. USE DEF BaseInv
<1>1. /\ stamp \in Nat /\ stamp' \in Nat /\ stamp <= stamp'
      /\ \A a \in Artifacts : file'[a] # None =>
           file'[a] = file[a] \/ (file'[a].id = stamp /\ stamp' = stamp + 1)
  BY StampStep
<1>2. /\ file \in [Artifacts -> File \union {None}]
      /\ kept \in [Artifacts -> Nat \union {None}]
      /\ rows \in [Artifacts -> Row \union {None}]
      /\ \A p \in Procs : pc[p] \in CopyAt =>
            values[p] \in [Artifacts -> Row \union {None}]
  BY DEF DataInv, Metadata
<1>3. ASSUME NEW a \in Artifacts, file'[a] # None
      PROVE  file'[a].id < stamp'
  BY <1>1, <1>2, <1>3 DEF IdInv, File
<1>4. ASSUME NEW a \in Artifacts, kept'[a] # None
      PROVE  kept'[a] < stamp'
  <2>1. CASE UNCHANGED kept
    BY <1>1, <1>2, <1>4, <2>1 DEF IdInv
  <2>2. ASSUME NEW p \in Procs, pc[p] = "saveKeep",
               kept' = [kept EXCEPT ![Artifact(p)] = IF request[p].keep
                          THEN values[p][Artifact(p)].id ELSE None]
        PROVE  kept'[a] < stamp'
    <3>1. Artifact(p) \in Artifacts /\ values[p][Artifact(p)] \in Row
      BY <2>2, ArtifactType DEF KeepAt, DataInv
    <3>2. values[p][Artifact(p)].id < stamp /\ values[p][Artifact(p)].id \in Nat
      BY <2>2, <3>1, NoneFacts DEF IdInv, OldIds, CopyAt, Row
    <3>. QED BY <1>1, <1>2, <1>4, <2>2, <3>1, <3>2 DEF IdInv
  <2>. QED BY <2>1, <2>2 DEF RowStep
<1>5. OldIds(rows)'
  BY <1>1, <1>2 DEF RowStep, IdInv, OldIds, Row
<1>6. ASSUME NEW p \in Procs, pc'[p] \in CopyAt
      PROVE  OldIds(values[p])'
  <2>1. CASE CopyKept(p)
    BY <1>1, <1>2, <1>6, <2>1 DEF CopyKept, IdInv, OldIds, Row
  <2>2. CASE CopyTaken(p)
    <3>1. CASE values'[p] = rows
      BY <1>1, <1>2, <2>2, <3>1 DEF IdInv, OldIds, Row
    <3>2. CASE pc[p] = "record" /\ values'[p] =
                 [rows EXCEPT ![Artifact(p)] =
                    [id |-> file[Artifact(p)].id, keep |-> FALSE]]
      <4>1. Artifact(p) \in Artifacts /\ file[Artifact(p)].id < stamp
        BY <3>2, ArtifactType DEF RunAt, RecordInv, IdInv
      <4>. QED BY <1>1, <1>2, <2>2, <3>2, <4>1 DEF CopyTaken, IdInv, OldIds, Row
    <3>3. CASE pc[p] = "keep" /\ Artifact(p) \in Owned(rows) /\ values'[p] =
                 [rows EXCEPT ![Artifact(p)].keep = request[p].keep]
      BY <1>1, <1>2, <2>2, <3>3 DEF CopyTaken, IdInv, OldIds, Row, Owned
    <3>. QED BY <2>2, <3>1, <3>2, <3>3 DEF CopyTaken
  <2>3. CASE CopyCut(p)
    BY <1>1, <1>2, <1>6, <2>3 DEF CopyCut, IdInv, OldIds, Row
  <2>. QED BY <1>6, <2>1, <2>2, <2>3 DEF CopyStep
<1>. QED
  BY <1>3, <1>4, <1>5, <1>6 DEF IdInv

-----------------------------------------------------------------------------
\* The artifacts that table records among files.
OwnedIn(table, files) == {a \in Artifacts : /\ table[a] # None
                                            /\ files[a] # None
                                            /\ table[a].id = files[a].id}

\* A step leaves the recorded files where they are or deletes them: it
\* replaces none by another with the same identity.
LEMMA OwnedShrinks ==
  ASSUME BaseInv, BaseInv', IdInv, FileStep,
         NEW table \in Metadata, OldIds(table), NEW a \in OwnedIn(table, file')
  PROVE  a \in OwnedIn(table, file) /\ file'[a] = file[a]
<1>1. stamp \in Nat /\ table[a].id \in Nat /\ table[a].id < stamp
  BY DEF OwnedIn, OldIds, Metadata, Row, BaseInv, DataInv
<1>2. file'[a] = file[a]
  BY <1>1, StampStep DEF OwnedIn, BaseInv
<1>. QED
  BY <1>2 DEF OwnedIn

\* What is recorded was installed by a Runner.
ForeignInv ==
    /\ \A a \in OwnedIn(rows, file) : file[a].installed
    /\ \A p \in Procs : pc[p] \in CopyAt =>
          \A a \in OwnedIn(values[p], file) : file[a].installed

\* The cached files of the start were installed by a Runner.
LEMMA ForeignInit == Init => ForeignInv
BY DEF Init, ForeignInv, OwnedIn, CopyAt

\* The rows of a step are those of before, or of a file being recorded.
LEMMA ForeignNext ==
  ASSUME BaseInv, BaseInv', IdInv, ForeignInv, FileStep, CopyStep, RowStep
  PROVE  ForeignInv'
<1>1. /\ rows \in Metadata /\ OldIds(rows)
      /\ \A p \in Procs : pc[p] \in CopyAt =>
            values[p] \in Metadata /\ OldIds(values[p])
  BY DEF BaseInv, DataInv, IdInv
<1>2. ASSUME NEW a \in OwnedIn(rows', file')
      PROVE  file'[a].installed
  <2>1. CASE UNCHANGED rows
    BY <1>1, <1>2, <2>1, OwnedShrinks DEF ForeignInv
  <2>2. ASSUME NEW p \in Procs, pc[p] \in CopyAt, rows' = values[p]
        PROVE  file'[a].installed
    BY <1>1, <1>2, <2>2, OwnedShrinks DEF ForeignInv
  <2>. QED BY <2>1, <2>2 DEF RowStep
<1>3. ASSUME NEW p \in Procs, pc'[p] \in CopyAt,
             NEW a \in OwnedIn(values'[p], file')
      PROVE  file'[a].installed
  <2>1. CASE CopyKept(p)
    BY <1>1, <1>3, <2>1, OwnedShrinks DEF CopyKept, ForeignInv
  <2>2. CASE CopyTaken(p)
    <3>1. CASE values'[p] = rows
      BY <1>3, <2>2, <3>1 DEF CopyTaken, disk, ForeignInv
    <3>2. CASE pc[p] = "record" /\ values'[p] =
                 [rows EXCEPT ![Artifact(p)] =
                    [id |-> file[Artifact(p)].id, keep |-> FALSE]]
      <4>1. CASE a = Artifact(p)
        BY <2>2, <3>2, <4>1 DEF CopyTaken, disk, BaseInv, RecordInv
      <4>2. CASE a # Artifact(p)
        BY <1>1, <1>3, <2>2, <3>2, <4>2 DEF CopyTaken, disk, ForeignInv,
           OwnedIn,
                                         Metadata
      <4>. QED BY <4>1, <4>2
    <3>3. CASE pc[p] = "keep" /\ values'[p] =
                 [rows EXCEPT ![Artifact(p)].keep = request[p].keep]
               /\ Artifact(p) \in Owned(rows)
      <4>1. a \in OwnedIn(rows, file)
        BY <1>1, <1>3, <2>2, <3>3 DEF CopyTaken, disk, OwnedIn, Owned,
           Metadata, Row
      <4>. QED BY <2>2, <4>1 DEF CopyTaken, disk, ForeignInv
    <3>. QED BY <2>2, <3>1, <3>2, <3>3 DEF CopyTaken
  <2>3. CASE CopyCut(p)
    <3>1. a \in OwnedIn(values[p], file') /\ pc[p] \in CopyAt
      BY <1>1, <1>3, <2>3 DEF CopyCut, OwnedIn, Metadata
    <3>. QED BY <1>1, <3>1, OwnedShrinks DEF ForeignInv
  <2>. QED BY <1>3, <2>1, <2>2, <2>3 DEF CopyStep
<1>. QED
  BY <1>2, <1>3 DEF ForeignInv

-----------------------------------------------------------------------------
\* How the copy a process works on differs from managed.json, which nobody
\* else replaces meanwhile.
CopyOf(p) ==
    /\ pc[p] = "saveTouch" => values[p] = rows
    /\ pc[p] = "saveRow" =>
          /\ Artifact(p) \notin OwnedIn(rows, file)
          /\ \A a \in Artifacts \ {Artifact(p)} : values[p][a] = rows[a]
    /\ pc[p] = "saveKeep" =>
          /\ rows[Artifact(p)] # None
          /\ values[p][Artifact(p)] =
               [id |-> rows[Artifact(p)].id, keep |-> request[p].keep]
          /\ \A a \in Artifacts \ {Artifact(p)} : values[p][a] = rows[a]
    /\ pc[p] \in {"unlink", "trim"} =>
          /\ \A a \in Artifacts :
                \/ values[p][a] = rows[a]
                \/ values[p][a] = None /\ a \notin OwnedIn(rows, file)
          /\ \A a \in victims[p] : ~rows[a].keep

\* A file that is being recorded has no row yet.
CopyInv == \A p \in Procs :
    /\ CopyOf(p)
    /\ pc[p] = "record" => Artifact(p) \notin OwnedIn(rows, file)

\* At the start nobody has a copy.
LEMMA CopyInit == Init => CopyInv
BY DEF Init, CopyInv, CopyOf

\* Only the process with metadata.lock replaces managed.json, and it does not
\* keep its copy.
LEMMA RowsStay ==
  ASSUME BaseInv, BaseInv', RowStep, NEW p \in Procs, pc'[p] \in CopyAt,
         pc[p] \in CopyAt
  PROVE  UNCHANGED <<rows, kept>>
BY DEF RowStep, BaseInv, LockInv, LocksOf

\* The copy goes on differing only as it should.
LEMMA CopyOfNext ==
  ASSUME BaseInv, BaseInv', IdInv, CopyInv, FileStep, CopyStep, RowStep,
         NEW p \in Procs
  PROVE  CopyOf(p)'
<1>1. rows \in Metadata /\ OldIds(rows)
  BY DEF BaseInv, DataInv, IdInv
<1>2. SUFFICES ASSUME pc'[p] \in CopyAt
               PROVE  CopyOf(p)'
  BY DEF CopyOf, CopyAt
<1>3. CASE CopyKept(p)
  <2>1. UNCHANGED rows
    BY <1>2, <1>3, RowsStay DEF CopyKept
  <2>2. ASSUME NEW a \in OwnedIn(rows, file')
        PROVE  a \in OwnedIn(rows, file)
    BY <1>1, <2>2, OwnedShrinks
  <2>3. Artifact(p)' = Artifact(p)
    BY <1>3 DEF CopyKept, Artifact
  <2>. QED
    BY <1>3, <2>1, <2>2, <2>3 DEF CopyKept, CopyInv, CopyOf
<1>4. CASE CopyTaken(p)
  <2>. USE DEF CopyTaken, disk
  <2>1. Artifact(p)' = Artifact(p)
    BY <1>4 DEF Artifact
  <2>2. CASE pc'[p] = "saveTouch" /\ values'[p] = rows
    BY <1>4, <2>2 DEF CopyOf
  <2>3. CASE pc[p] = "record" /\ pc'[p] = "saveRow" /\ values'[p] =
               [rows EXCEPT ![Artifact(p)] =
                  [id |-> file[Artifact(p)].id, keep |-> FALSE]]
    BY <1>1, <1>4, <2>1, <2>3 DEF CopyOf, CopyInv, Metadata
  <2>4. CASE pc[p] = "keep" /\ pc'[p] = "saveKeep" /\ values'[p] =
               [rows EXCEPT ![Artifact(p)].keep = request[p].keep]
             /\ Artifact(p) \in Owned(rows)
    <3>1. rows[Artifact(p)] \in Row /\ Artifact(p) \in Artifacts
      BY <1>1, <2>4 DEF Owned, Metadata
    <3>2. [rows[Artifact(p)] EXCEPT !.keep = request[p].keep] =
             [id |-> rows[Artifact(p)].id, keep |-> request[p].keep]
      BY <3>1 DEF Row
    <3>3. /\ values'[p][Artifact(p)] =
                [id |-> rows[Artifact(p)].id, keep |-> request[p].keep]
          /\ \A a \in Artifacts \ {Artifact(p)} : values'[p][a] = rows[a]
      BY <1>1, <2>4, <3>1, <3>2 DEF Metadata
    <3>. QED BY <1>4, <2>1, <2>4, <3>3 DEF CopyOf, Owned
  <2>5. CASE pc'[p] \in {"unlink", "trim"} /\ values'[p] = rows
             /\ \A a \in victims'[p] : ~rows[a].keep
    BY <1>4, <2>5 DEF CopyOf
  <2>6. CASE pc'[p] = "trim" /\ values'[p] = rows
             /\ OldestFirst(victims'[p], request[p].limit)
    BY <2>5, <2>6 DEF OldestFirst, Candidates
  <2>. QED BY <1>4, <2>2, <2>3, <2>4, <2>5, <2>6
<1>5. CASE CopyCut(p)
  <2>1. /\ UNCHANGED rows
        /\ pc'[p] = pc[p] /\ pc[p] \in {"unlink", "trim"}
        /\ victims'[p] \subseteq victims[p]
    BY <1>5 DEF CopyCut, Deletes
  <2>2. ASSUME NEW a \in OwnedIn(rows, file')
        PROVE  a \in OwnedIn(rows, file)
    BY <1>1, <2>2, OwnedShrinks
  <2>3. ASSUME NEW a \in Artifacts
        PROVE  \/ values'[p][a] = rows[a]
               \/ values'[p][a] = None /\ a \notin OwnedIn(rows, file')
    <3>1. PICK b \in Artifacts :
             Deletes(p, b) /\ values'[p] = [values[p] EXCEPT ![b] = None]
      BY <1>5 DEF CopyCut
    <3>2. values[p] \in Metadata /\ file \in [Artifacts -> File \union {None}]
      BY <2>1 DEF BaseInv, DataInv, CopyAt
    <3>3. CASE a = b
      BY <3>1, <3>2, <3>3 DEF Deletes, OwnedIn, Metadata
    <3>4. CASE a # b
      <4>1. values'[p][a] = values[p][a]
        BY <3>1, <3>2, <3>4 DEF Metadata
      <4>2. \/ values[p][a] = rows[a]
            \/ values[p][a] = None /\ a \notin OwnedIn(rows, file)
        BY <2>1 DEF CopyInv, CopyOf
      <4>. QED BY <2>2, <4>1, <4>2
    <3>. QED BY <3>3, <3>4
  <2>. QED
    BY <2>1, <2>3 DEF CopyInv, CopyOf
<1>. QED
  BY <1>2, <1>3, <1>4, <1>5 DEF CopyStep

\* A step adds to what is owned only the row of a recorded download.
LEMMA OwnedStep ==
  ASSUME BaseInv, BaseInv', IdInv, CopyInv, FileStep, RowStep,
         NEW a \in OwnedIn(rows', file')
  PROVE  \/ /\ a \in OwnedIn(rows, file) /\ file'[a] = file[a]
            /\ rows'[a].id = rows[a].id
         \/ \E p \in Procs : /\ pc[p] = "saveRow" /\ pc'[p] \notin CopyAt
                             /\ a = Artifact(p)
<1>1. /\ rows \in Metadata /\ OldIds(rows)
      /\ \A p \in Procs : pc[p] \in CopyAt =>
            values[p] \in Metadata /\ OldIds(values[p])
  BY DEF BaseInv, DataInv, IdInv
<1>2. CASE UNCHANGED rows
  BY <1>1, <1>2, OwnedShrinks
<1>3. ASSUME NEW p \in Procs, pc[p] \in CopyAt, rows' = values[p],
             UNCHANGED file, pc'[p] \notin CopyAt,
             ~(pc[p] = "saveRow" /\ a = Artifact(p))
      PROVE  a \in OwnedIn(rows, file) /\ rows'[a].id = rows[a].id
  <2>1. /\ a \in Artifacts /\ values[p][a] # None
        /\ file[a] # None /\ values[p][a].id = file[a].id
    BY <1>3 DEF OwnedIn
  <2>2. CopyOf(p)
    BY DEF CopyInv
  <2>3. rows[a] # None /\ rows[a].id = values[p][a].id
    BY <1>3, <2>1, <2>2 DEF CopyOf, CopyAt
  <2>. QED BY <1>3, <2>1, <2>3 DEF OwnedIn
<1>. QED
  BY <1>2, <1>3 DEF RowStep

\* Every step keeps what is known of the copies.
LEMMA CopyNext ==
  ASSUME BaseInv, BaseInv', IdInv, CopyInv, FileStep, CopyStep,
         RowStep, RecordStep
  PROVE  CopyInv'
<1>1. ASSUME NEW p \in Procs, pc'[p] = "record"
      PROVE  Artifact(p)' \notin OwnedIn(rows', file')
  <2>1. SUFFICES ASSUME Artifact(p)' \in OwnedIn(rows', file')
                 PROVE  FALSE
    OBVIOUS
  <2>2. Artifact(p)' = Artifact(p)
    BY <1>1 DEF RecordStep, Artifact
  <2>3. ~ \E q \in Procs : /\ pc[q] = "saveRow" /\ pc'[q] \notin CopyAt
                           /\ Artifact(p) = Artifact(q)
    <3>1. ASSUME NEW q \in Procs, pc[q] = "saveRow"
          PROVE  p = q
      <4>1. pc[p] \in DownloadAt /\ pc[q] \in DownloadAt
        BY <1>1, <3>1 DEF RecordStep, Installs, DownloadAt
      <4>. QED BY <4>1 DEF BaseInv, LockInv, LocksOf
    <3>. QED BY <1>1, <3>1 DEF RecordStep, Installs
  <2>4. Artifact(p) \in OwnedIn(rows, file)
    BY <2>1, <2>2, <2>3, OwnedStep
  <2>. QED
    BY <1>1, <2>4 DEF RecordStep, Installs, OwnedIn, CopyInv
<1>2. \A p \in Procs : CopyOf(p)'
  BY CopyOfNext
<1>. QED
  BY <1>1, <1>2 DEF CopyInv

-----------------------------------------------------------------------------
\* A confirmed preference is in managed.json as long as the file is there.
KeptInv == \A a \in Artifacts :
    file[a] # None /\ kept[a] = file[a].id
      => a \in OwnedIn(rows, file) /\ rows[a].keep

\* At the start nothing is kept.
LEMMA KeptInit == Init => KeptInv
BY CacheAssumption DEF Init, KeptInv

\* Whoever replaces managed.json replaces it by a copy that has the preference.
LEMMA KeptNext ==
  ASSUME BaseInv, BaseInv', IdInv, CopyInv, KeptInv, FileStep, RowStep
  PROVE  KeptInv'
<1>1. SUFFICES ASSUME NEW a \in Artifacts, file'[a] # None, kept'[a] = file'[a].id
               PROVE  a \in OwnedIn(rows', file') /\ rows'[a].keep
  BY DEF KeptInv, OwnedIn
<1>2. file'[a].id \in Nat /\ kept'[a] # None
  BY <1>1, NoneFacts DEF BaseInv, DataInv, File
<1>3. CASE UNCHANGED <<rows, kept>>
  <2>1. file'[a].id < stamp
    BY <1>1, <1>2, <1>3 DEF IdInv
  <2>2. file'[a] = file[a]
    BY <1>1, <1>2, <2>1, StampStep DEF BaseInv
  <2>. QED
    BY <1>1, <1>3, <2>2 DEF KeptInv, OwnedIn
<1>4. ASSUME NEW p \in Procs, pc[p] \in CopyAt, rows' = values[p], UNCHANGED file,
             kept' = IF pc[p] = "saveKeep"
                     THEN [kept EXCEPT ![Artifact(p)] = IF request[p].keep
                             THEN values[p][Artifact(p)].id ELSE None]
                     ELSE kept
      PROVE  a \in OwnedIn(rows', file') /\ rows'[a].keep
  <2>1. CopyOf(p) /\ kept \in [Artifacts -> Nat \union {None}]
    BY DEF CopyInv, BaseInv, DataInv
  <2>2. CASE kept'[a] = kept[a] /\ rows'[a] = rows[a]
    BY <1>1, <1>4, <2>2 DEF KeptInv, OwnedIn
  <2>3. CASE pc[p] = "saveTouch"
    BY <1>4, <2>1, <2>2, <2>3 DEF CopyOf
  <2>4. CASE pc[p] = "saveRow"
    <3>1. a \in OwnedIn(rows, file)
      BY <1>1, <1>4, <2>4 DEF KeptInv
    <3>. QED BY <1>4, <2>1, <2>2, <2>4, <3>1 DEF CopyOf
  <2>5. CASE pc[p] = "saveKeep"
    <3>1. CASE a # Artifact(p)
      BY <1>4, <2>1, <2>2, <2>5, <3>1 DEF CopyOf
    <3>2. CASE a = Artifact(p)
      <4>1. kept'[a] = values[p][a].id /\ request[p].keep
        BY <1>2, <1>4, <2>1, <2>5, <3>2
      <4>2. values[p][a] \in Row /\ values[p][a].keep = request[p].keep
        BY <2>1, <2>5, <3>2 DEF CopyOf, BaseInv, DataInv
      <4>. QED BY <1>1, <1>4, <4>1, <4>2, NoneFacts DEF OwnedIn
    <3>. QED BY <3>1, <3>2
  <2>6. CASE pc[p] \in {"unlink", "trim"}
    <3>1. a \in OwnedIn(rows, file)
      BY <1>1, <1>4, <2>6 DEF KeptInv
    <3>. QED BY <1>4, <2>1, <2>2, <2>6, <3>1 DEF CopyOf
  <2>. QED
    BY <1>4, <2>3, <2>4, <2>5, <2>6 DEF CopyAt
<1>. QED
  BY <1>3, <1>4 DEF RowStep

-----------------------------------------------------------------------------
\* Where a download is authorized and its row is not yet in managed.json.
Authorized == {"download", "publish", "record", "saveRow"}

\* How the limit changes, and how a process gets where the limit matters.
LimitStep ==
    /\ \/ UNCHANGED limit
       \/ \E p \in Procs : /\ pc[p] = "saveLimit"
                           /\ limit' = request[p].limit
                           /\ UNCHANGED <<file, rows>>
    /\ \A p \in Procs : pc'[p] \in Authorized =>
          /\ request'[p] = request[p]
          /\ \/ pc[p] \in Authorized /\ (pc[p] = "saveRow" => pc'[p] = "saveRow")
             \/ pc[p] = "reserve" /\ Fits(p) /\ UNCHANGED <<file, rows, limit>>
    /\ \A p \in Procs : pc'[p] = "saveLimit" =>
          /\ request'[p] = request[p]
          /\ pc[p] = "saveLimit" \/ (pc[p] = "trim" /\ victims[p] = {})

\* A process that ends changes the limit only where it saves it.
LEMMA EndLimitStep ==
  ASSUME LockInv, NEW p \in Procs, End(p),
         UNCHANGED limit \/ (/\ pc[p] = "saveLimit" /\ limit' = request[p].limit
                             /\ UNCHANGED <<file, rows>>)
  PROVE  LimitStep
BY DEF End, Go, LockInv, LockTypes, LimitStep, Authorized

\* Nothing else happens to the limit.
LEMMA LimitSteps ==
  ASSUME LockInv, [Next]_vars
  PROVE  LimitStep
<1>1. ASSUME NEW p \in Procs, AcquireLease(p) PROVE LimitStep
  BY <1>1 DEF AcquireLease, Authorized, Go, LockInv, LockTypes, LimitStep,
     disk, local
<1>2. ASSUME NEW p \in Procs, LookUp(p) PROVE LimitStep
  BY <1>2 DEF LookUp, Authorized, Go, LockInv, LockTypes, LimitStep, disk, local
<1>3. ASSUME NEW p \in Procs, AcquireProducer(p) PROVE LimitStep
  BY <1>3 DEF AcquireProducer, Authorized, Go, LockInv, LockTypes, LimitStep,
     disk, local
<1>4. ASSUME NEW p \in Procs, Hit(p) PROVE LimitStep
  BY <1>4 DEF Hit, ReadMetadata, Authorized, Go, LockInv, LockTypes, LimitStep,
     disk, local
<1>5. ASSUME NEW p \in Procs, HitRaises(p) PROVE LimitStep
  BY <1>5, EndLimitStep DEF HitRaises, disk
<1>6. ASSUME NEW p \in Procs, Reserve(p) PROVE LimitStep
  BY <1>6 DEF Reserve, Authorized, Go, LockInv, LockTypes, LimitStep, disk,
     local
<1>7. ASSUME NEW p \in Procs, RefuseDownload(p) PROVE LimitStep
  BY <1>7, EndLimitStep DEF RefuseDownload, disk
<1>8. ASSUME NEW p \in Procs, Download(p) PROVE LimitStep
  BY <1>8 DEF Download, Authorized, Go, LockInv, LockTypes, LimitStep, disk,
     local
<1>9. ASSUME NEW p \in Procs, DownloadRaises(p) PROVE LimitStep
  BY <1>9 DEF DownloadRaises, Spend, Authorized, Go, LockInv, LockTypes,
     LimitStep, disk, local
<1>10. ASSUME NEW p \in Procs, Publish(p) PROVE LimitStep
  BY <1>10 DEF Publish, Authorized, Go, LockInv, LockTypes, LimitStep, disk,
     local
<1>11. ASSUME NEW p \in Procs, PublishLoses(p) PROVE LimitStep
  BY <1>11 DEF PublishLoses, Authorized, Go, LockInv, LockTypes, LimitStep,
     disk, local
<1>12. ASSUME NEW p \in Procs, RecordInstall(p) PROVE LimitStep
  BY <1>12 DEF RecordInstall, ReadMetadata, Authorized, Go, LockInv, LockTypes,
     LimitStep, disk, local
<1>13. ASSUME NEW p \in Procs, Unreserve(p) PROVE LimitStep
  <2>1. CASE failed[p]
    BY <1>13, <2>1, EndLimitStep DEF Unreserve
  <2>2. CASE ~failed[p]
    BY <1>13, <2>2 DEF Unreserve, Authorized, Go, LockInv, LockTypes,
       LimitStep, disk, local
  <2>. QED BY <2>1, <2>2
<1>14. ASSUME NEW p \in Procs, EndUse(p) PROVE LimitStep
  BY <1>14, EndLimitStep DEF EndUse, disk
<1>15. ASSUME NEW p \in Procs, ChangeKeep(p) PROVE LimitStep
  BY <1>15 DEF ChangeKeep, ReadMetadata, Authorized, Go, LockInv, LockTypes,
     LimitStep, disk, local
<1>16. ASSUME NEW p \in Procs, RefuseKeep(p) PROVE LimitStep
  BY <1>16, EndLimitStep DEF RefuseKeep, disk
<1>17. ASSUME NEW p \in Procs, BeginCleanup(p) PROVE LimitStep
  BY <1>17 DEF BeginCleanup, Idle, Authorized, Go, LockInv, LockTypes,
     LimitStep, disk, local
<1>18. ASSUME NEW p \in Procs, ReadUnkept(p) PROVE LimitStep
  BY <1>18 DEF ReadUnkept, ReadMetadata, Authorized, Go, LockInv, LockTypes,
     LimitStep, disk, local
<1>19. ASSUME NEW p \in Procs, UnlinkRaises(p) PROVE LimitStep
  BY <1>19, EndLimitStep DEF UnlinkRaises, disk
<1>20. ASSUME NEW p \in Procs, BeginPolicy(p) PROVE LimitStep
  BY <1>20 DEF BeginPolicy, Idle, Authorized, Go, LockInv, LockTypes,
     LimitStep, disk, local
<1>21. ASSUME NEW p \in Procs, ExcludeProducers(p) PROVE LimitStep
  BY <1>21 DEF ExcludeProducers, Authorized, Go, LockInv, LockTypes, LimitStep,
     disk, local
<1>22. ASSUME NEW p \in Procs, RefuseBusy(p) PROVE LimitStep
  BY <1>22, EndLimitStep DEF RefuseBusy, disk
<1>23. ASSUME NEW p \in Procs, CheckPolicy(p) PROVE LimitStep
  BY <1>23 DEF CheckPolicy, ReadMetadata, Authorized, Go, LockInv, LockTypes,
     LimitStep, disk, local
<1>24. ASSUME NEW p \in Procs, RefusePolicy(p) PROVE LimitStep
  BY <1>24, EndLimitStep DEF RefusePolicy, disk
<1>25. ASSUME NEW p \in Procs, NothingToTrim(p) PROVE LimitStep
  BY <1>25 DEF NothingToTrim, Authorized, Go, LockInv, LockTypes, LimitStep,
     disk, local
<1>26. ASSUME NEW p \in Procs, SaveLimit(p) PROVE LimitStep
  BY <1>26, EndLimitStep DEF SaveLimit, disk
<1>27. ASSUME NEW p \in Procs, SaveMetadata(p) PROVE LimitStep
  <2>1. CASE End(p)
    BY <1>27, <2>1, EndLimitStep DEF SaveMetadata
  <2>2. ASSUME NEW where \in {"use", "unreserve"}, ReleaseMetadata(p, where)
        PROVE  LimitStep
    BY <1>27, <2>2 DEF SaveMetadata, ReleaseMetadata, Authorized, Go, LockInv,
       LockTypes, LimitStep, disk, local
  <2>3. CASE /\ pc[p] = "trim" /\ victims[p] = {}
             /\ Go(p, "saveLimit") /\ UNCHANGED <<locks, local>>
    BY <1>27, <2>3 DEF SaveMetadata, Authorized, Go, LockInv, LockTypes,
       LimitStep, disk, local
  <2>. QED BY <1>27, <2>1, <2>2, <2>3 DEF SaveMetadata
<1>28. ASSUME NEW p \in Procs, Kill(p) PROVE LimitStep
  BY <1>28, EndLimitStep DEF Kill, disk
<1>29. ASSUME NEW p \in Procs, NEW a \in Artifacts, ClearUnkept(p, a)
      PROVE  LimitStep
  BY <1>29 DEF ClearUnkept, disk, LimitStep
<1>30. ASSUME NEW p \in Procs, NEW a \in Artifacts, TrimOldest(p, a)
      PROVE  LimitStep
  <2>1. CASE End(p)
    BY <1>30, <2>1, EndLimitStep DEF TrimOldest, disk
  <2>2. CASE UNCHANGED <<pc, request>>
    BY <1>30, <2>2 DEF TrimOldest, LimitStep, Authorized, disk
  <2>. QED BY <1>30, <2>1, <2>2 DEF TrimOldest
<1>31. ASSUME NEW p \in Procs, NEW r \in Requests, Start(p, r) PROVE LimitStep
  <2>1. pc'[p] \notin Authorized \union {"saveLimit"}
    BY <1>31, NoneFacts DEF Start, Request, Run, SetKeep, Clear, SetLimit, Go,
       LockInv,
                        LockTypes, Authorized
  <2>. QED BY <1>31, <2>1 DEF Start, Authorized, Go, LockInv, LockTypes,
              LimitStep, disk, local
<1>32. ASSUME NEW a \in Artifacts, ChangeFile(a) PROVE LimitStep
  BY <1>32 DEF ChangeFile, Authorized, Go, LockInv, LockTypes, LimitStep, disk,
     local
<1>33. CASE UNCHANGED vars
  BY <1>33 DEF vars, Authorized, Go, LockInv, LockTypes, LimitStep, disk, local
<1>34. ASSUME NEW p \in Procs, NEW a \in Artifacts, Unlink(p, a)
      PROVE  LimitStep
  BY <1>34 DEF Unlink, LimitStep
<1>. QED
  BY <1>1, <1>2, <1>3, <1>4, <1>5, <1>6, <1>7, <1>8, <1>9, <1>10, <1>11,
     <1>12, <1>13, <1>14, <1>15, <1>16, <1>17, <1>18, <1>19, <1>20,
     <1>21, <1>22, <1>23, <1>24, <1>25, <1>26, <1>27, <1>28, <1>29,
     <1>30, <1>31, <1>32, <1>33, <1>34 DEF Next, Step

\* What is owned fits the limit, also with the download that is authorized;
\* what a trim will leave fits the new limit, and so does what it left.
LimitInv ==
    /\ Within(OwnedIn(rows, file), limit)
    /\ \A p \in Procs :
          /\ pc[p] \in Authorized =>
                Within(OwnedIn(rows, file) \union {Artifact(p)}, limit)
          /\ pc[p] = "trim" =>
                Within(OwnedIn(rows, file) \ victims[p], request[p].limit)
          /\ pc[p] = "saveLimit" => Within(OwnedIn(rows, file), request[p].limit)

\* At the start there is no limit.
LEMMA LimitInit == Init => LimitInv
BY DEF Init, LimitInv, Within, Authorized

\* What the model calls owned.
LEMMA OwnedMeaning == Owned(rows) = OwnedIn(rows, file)
BY DEF Owned, OwnedIn

\* A download adds the size of its artifact at most.
LEMMA FitsUnion ==
  ASSUME DataInv, NEW p \in Procs, Artifact(p) \in Artifacts, Fits(p)
  PROVE  Within(OwnedIn(rows, file) \union {Artifact(p)}, limit)
<1>. DEFINE S == OwnedIn(rows, file)
<1>1. S \in SUBSET Artifacts
  BY DEF OwnedIn
<1>2. S \union {Artifact(p)} \in SUBSET Artifacts
  BY <1>1
<1>3. /\ Weight[S] \in Nat /\ Weight[S \union {Artifact(p)}] \in Nat
      /\ Size[Artifact(p)] \in Nat
      /\ Weight[S \union {Artifact(p)}] <= Weight[S] + Size[Artifact(p)]
  BY <1>1, <1>2, CacheAssumption
<1>4. limit # None => limit \in Nat
  BY CacheAssumption DEF DataInv
<1>. QED
  BY <1>3, <1>4, OwnedMeaning DEF Fits, Within

\* Neither files, managed.json nor the limit change to exceed the limit.
LEMMA LimitNext ==
  ASSUME BaseInv, BaseInv', IdInv, CopyInv, LimitInv,
         FileStep, CopyStep, RowStep, LimitStep
  PROVE  LimitInv'
<1>. DEFINE S == OwnedIn(rows, file)
            T == OwnedIn(rows', file')
<1>1. S \in SUBSET Artifacts /\ T \in SUBSET Artifacts
  BY DEF OwnedIn
<1>2. /\ limit \in Limits \union {None} /\ limit' \in Limits \union {None}
      /\ \A p \in Procs : pc[p] \in LimitAt =>
            request[p].limit \in Limits \union {None}
  BY DEF BaseInv, DataInv, LockInv, KindOf, SetLimit
<1>3. \/ T \subseteq S
      \/ \E p \in Procs : /\ pc[p] = "saveRow" /\ pc'[p] \notin CopyAt
                          /\ T \subseteq S \union {Artifact(p)}
  <2>1. CASE T \subseteq S
    BY <2>1
  <2>2. CASE ~(T \subseteq S)
    <3>1. PICK b \in T : b \notin S
      BY <2>2
    <3>2. PICK p \in Procs : pc[p] = "saveRow" /\ pc'[p] \notin CopyAt
      BY <3>1, OwnedStep
    <3>3. ASSUME NEW q \in Procs, pc[q] = "saveRow"
          PROVE  q = p
      BY <3>2, <3>3 DEF BaseInv, LockInv, LocksOf, DownloadAt
    <3>. QED BY <3>2, <3>3, OwnedStep
  <2>. QED BY <2>1, <2>2
<1>4. ASSUME NEW p \in Procs, pc[p] = "saveLimit"
      PROVE  \A q \in Procs :
                pc[q] \in Authorized \union {"trim", "saveLimit"} => q = p
  BY <1>4 DEF BaseInv, LockInv, LocksOf, Authorized, DownloadAt, PolicyAt
<1>5. Within(T, limit')
  <2>1. CASE UNCHANGED limit
    <3>1. CASE T \subseteq S
      BY <1>1, <1>2, <2>1, <3>1, WithinSubset DEF LimitInv
    <3>2. ASSUME NEW p \in Procs, pc[p] = "saveRow",
                 T \subseteq S \union {Artifact(p)}
          PROVE  Within(T, limit')
      <4>1. S \union {Artifact(p)} \in SUBSET Artifacts
        BY <1>1, <3>2, ArtifactType DEF BaseInv, RunAt
      <4>2. Within(S \union {Artifact(p)}, limit)
        BY <3>2 DEF LimitInv, Authorized
      <4>. QED BY <1>2, <2>1, <3>2, <4>1, <4>2, WithinSubset
    <3>. QED BY <1>3, <3>1, <3>2
  <2>2. ASSUME NEW p \in Procs, pc[p] = "saveLimit", limit' = request[p].limit,
               UNCHANGED <<file, rows>>
        PROVE  Within(T, limit')
    BY <2>2 DEF LimitInv
  <2>. QED BY <2>1, <2>2 DEF LimitStep
<1>6. ASSUME NEW p \in Procs, pc'[p] \in Authorized
      PROVE  Within(T \union {Artifact(p)'}, limit')
  <2>1. Artifact(p)' = Artifact(p) /\ pc[p] \in Authorized \union {"reserve"}
    BY <1>6 DEF LimitStep, Artifact
  <2>2. Artifact(p) \in Artifacts
    BY <2>1, ArtifactType DEF BaseInv, RunAt, Authorized
  <2>3. UNCHANGED limit
    <3>1. ASSUME NEW q \in Procs, pc[q] = "saveLimit"
          PROVE  FALSE
      BY <2>1, <3>1 DEF BaseInv, LockInv, LocksOf, Authorized, DownloadAt,
         PolicyAt
    <3>. QED BY <3>1 DEF LimitStep
  <2>4. CASE pc[p] \in Authorized
    <3>1. T \subseteq S
      <4>1. ASSUME NEW q \in Procs, pc[q] = "saveRow"
            PROVE  q = p
        BY <2>4, <4>1 DEF BaseInv, LockInv, LocksOf, Authorized, DownloadAt
      <4>2. ASSUME pc[p] = "saveRow", pc'[p] \notin CopyAt
            PROVE  FALSE
        BY <1>6, <4>2 DEF LimitStep, CopyAt
      <4>. QED BY <1>3, <4>1, <4>2
    <3>2. Within(S \union {Artifact(p)}, limit)
      BY <2>4 DEF LimitInv
    <3>. QED BY <1>1, <1>2, <2>1, <2>2, <2>3, <3>1, <3>2, WithinSubset
  <2>5. CASE pc[p] = "reserve" /\ Fits(p) /\ UNCHANGED <<file, rows, limit>>
    BY <2>1, <2>2, <2>5, FitsUnion DEF BaseInv
  <2>. QED BY <1>6, <2>4, <2>5 DEF LimitStep
<1>7. ASSUME NEW p \in Procs, pc[p] \in {"trim", "saveLimit"}
      PROVE  T \subseteq S
  <2>1. ASSUME NEW q \in Procs, pc[q] = "saveRow"
        PROVE  FALSE
    BY <1>7, <2>1 DEF BaseInv, LockInv, LocksOf, CopyAt
  <2>. QED BY <1>3, <2>1
<1>8. ASSUME NEW p \in Procs, pc'[p] = "trim"
      PROVE  Within(T \ victims'[p], request'[p].limit)
  <2>1. request'[p].limit \in Limits \union {None} /\ request'[p] = request[p]
    BY <1>8 DEF BaseInv, LockInv, KindOf, LimitAt, SetLimit, CopyStep, CopyAt,
                CopyKept, CopyTaken, CopyCut
  <2>2. CASE CopyKept(p)
    <3>1. pc[p] = "trim" /\ victims'[p] = victims[p]
      BY <1>8, <2>2 DEF CopyKept
    <3>2. Within(S \ victims[p], request[p].limit) /\ T \subseteq S
      BY <1>7, <3>1 DEF LimitInv
    <3>. QED BY <1>1, <2>1, <3>1, <3>2, WithinSubset
  <2>3. CASE CopyTaken(p)
    BY <1>8, <2>3, OwnedMeaning DEF CopyTaken, disk, OldestFirst
  <2>4. CASE CopyCut(p)
    <3>1. PICK a \in Artifacts : Deletes(p, a) /\ victims'[p] = victims[p] \ {a}
      BY <2>4 DEF CopyCut
    <3>2. pc[p] = "trim" /\ a \notin T
      BY <1>8, <2>4, <3>1 DEF CopyCut, Deletes, OwnedIn, BaseInv, DataInv
    <3>3. Within(S \ victims[p], request[p].limit) /\ T \subseteq S
      BY <1>7, <3>2 DEF LimitInv
    <3>4. T \ victims'[p] \subseteq S \ victims[p]
      BY <3>1, <3>2, <3>3
    <3>. QED BY <1>1, <2>1, <3>3, <3>4, WithinSubset
  <2>. QED BY <1>8, <2>2, <2>3, <2>4 DEF CopyStep, CopyAt
<1>9. ASSUME NEW p \in Procs, pc'[p] = "saveLimit"
      PROVE  Within(T, request'[p].limit)
  <2>1. /\ request'[p] = request[p]
        /\ pc[p] = "saveLimit" \/ (pc[p] = "trim" /\ victims[p] = {})
    BY <1>9 DEF LimitStep
  <2>2. Within(S, request[p].limit) /\ T \subseteq S
    <3>1. CASE pc[p] = "saveLimit"
      BY <1>7, <3>1 DEF LimitInv
    <3>2. CASE pc[p] = "trim" /\ victims[p] = {}
      <4>1. S \ victims[p] = S
        BY <3>2
      <4>. QED BY <1>7, <3>2, <4>1 DEF LimitInv
    <3>. QED BY <2>1, <3>1, <3>2
  <2>3. request[p].limit \in Limits \union {None}
    BY <1>2, <2>1 DEF LimitAt
  <2>. QED BY <1>1, <2>1, <2>2, <2>3, WithinSubset
<1>. QED
  BY <1>5, <1>6, <1>8, <1>9 DEF LimitInv

-----------------------------------------------------------------------------
\* What is about to be deleted was the recorded file when it was compared.
CheckInv == \A p \in Procs : checked[p] # None =>
    /\ checked[p].artifact \in Artifacts
    /\ values[p][checked[p].artifact] # None
    /\ values[p][checked[p].artifact].id = checked[p].id

\* At the start nothing has been compared.
LEMMA CheckInit == Init => CheckInv
BY DEF Init, CheckInv

\* The row of the file is not touched between the comparison and the deletion.
LEMMA CheckNext ==
  ASSUME VictimInv', CheckInv, CopyStep
  PROVE  CheckInv'
<1>. SUFFICES ASSUME NEW p \in Procs, checked'[p] # None
              PROVE  /\ checked'[p].artifact \in Artifacts
                     /\ values'[p][checked'[p].artifact] # None
                     /\ values'[p][checked'[p].artifact].id = checked'[p].id
  BY DEF CheckInv
<1>1. CopyKept(p)
  BY DEF VictimInv, CopyStep, CopyAt, CopyTaken, CopyCut
<1>2. CASE checked'[p] = checked[p]
  BY <1>1, <1>2 DEF CopyKept, CheckInv
<1>3. ASSUME NEW a \in Owned(values[p]),
             checked'[p] = [artifact |-> a, id |-> file[a].id]
      PROVE  /\ checked'[p].artifact \in Artifacts
             /\ values'[p][checked'[p].artifact] # None
             /\ values'[p][checked'[p].artifact].id = checked'[p].id
  BY <1>1, <1>3 DEF CopyKept, Owned
<1>. QED
  BY <1>1, <1>2, <1>3 DEF CopyKept

-----------------------------------------------------------------------------
\* The whole invariant.
IInv == BaseInv /\ IdInv /\ ForeignInv /\ CopyInv /\ KeptInv /\ LimitInv /\ CheckInv

\* What a step of the program can do.
LEMMA Steps ==
  ASSUME BaseInv, [Next]_vars
  PROVE  FileStep /\ CopyStep /\ RowStep /\ RecordStep /\ LimitStep
BY FileSteps, CopySteps, RowSteps, RecordSteps, LimitSteps DEF BaseInv, DataInv

\* The invariant is inductive.
LEMMA Inductive == Spec => []IInv
<1>1. Init => IInv
  BY BaseInit, IdInit, ForeignInit, CopyInit, KeptInit, LimitInit,
     CheckInit DEF IInv
<1>2. ASSUME IInv, [Next]_vars
      PROVE  IInv'
  <2>1. BaseInv' /\ FileStep /\ CopyStep /\ RowStep /\ RecordStep /\ LimitStep
    BY <1>2, BaseNext, Steps DEF IInv
  <2>. QED
    BY <1>2, <2>1, IdNext, ForeignNext, CopyNext, KeptNext, LimitNext, CheckNext
       DEF IInv, BaseInv
<1>. QED
  BY <1>1, <1>2, PTL DEF Spec

\* The cache never exceeds the download limit: cache_budget.py:129-153 changes
\* the limit, and :160-177 downloads, under producer.lock.
THEOREM LimitSafe == Spec => []OwnedWithinLimit
<1>1. IInv => OwnedWithinLimit
  BY OwnedMeaning DEF IInv, LimitInv, OwnedWithinLimit
<1>. QED
  BY <1>1, Inductive, PTL

\* A confirmed preference to keep a file is never lost in managed.json, and no
\* deletion takes a file whose row says keep (cache_control.py:233-275).
THEOREM KeptSafe == Spec => KeptIsPreserved
<1>1. ASSUME IInv, [Next]_vars
      PROVE  [UserStep \/ \A a \in Artifacts :
                file[a] # None /\ kept[a] = file[a].id => file'[a] = file[a]]_vars
  <2>1. SUFFICES ASSUME ~UserStep, NEW a \in Artifacts, file[a] # None,
                        kept[a] = file[a].id
                 PROVE  file'[a] = file[a]
    OBVIOUS
  <2>2. /\ FileStep
        /\ file \in [Artifacts -> File \union {None}]
        /\ rows[a].keep
    BY <1>1, <2>1, Steps DEF IInv, BaseInv, DataInv, KeptInv
  <2>3. ASSUME NEW p \in Procs, Deletes(p, a)
        PROVE  FALSE
    BY <1>1, <2>2, <2>3 DEF IInv, CopyInv, CopyOf, Deletes
  <2>. QED
    BY <2>1, <2>2, <2>3 DEF FileStep, Changes, Installs, Deletes
<1>. QED
  BY <1>1, Inductive, PTL DEF Spec, KeptIsPreserved

\* A file that no Runner installed is only deleted if it took the place of the
\* recorded one after its identity was compared (cache_control.py:268-273,
\* cache_budget.py:145-147).
THEOREM ForeignSafe == Spec => ForeignIsPreserved
<1>1. ASSUME IInv, [Next]_vars
      PROVE  [UserStep \/ \A a \in Artifacts :
                file[a] # None /\ ~file[a].installed =>
                   file'[a] = file[a] \/ \E p \in Procs : ReplacedSince(p, a)]_vars
  <2>1. SUFFICES ASSUME ~UserStep, NEW a \in Artifacts, file[a] # None,
                        ~file[a].installed,
                        \A p \in Procs : ~ReplacedSince(p, a)
                 PROVE  file'[a] = file[a]
    OBVIOUS
  <2>2. FileStep /\ file \in [Artifacts -> File \union {None}]
    BY <1>1, Steps DEF IInv, BaseInv, DataInv
  <2>3. ASSUME NEW p \in Procs, Deletes(p, a)
        PROVE  FALSE
    <3>1. checked[p] # None /\ checked[p].artifact = a /\ checked[p].id = file[a].id
      BY <2>1, <2>3 DEF Deletes, ReplacedSince
    <3>2. a \in OwnedIn(values[p], file) /\ pc[p] \in CopyAt
      BY <1>1, <2>1, <2>3, <3>1 DEF IInv, CheckInv, Deletes, OwnedIn, CopyAt
    <3>. QED BY <1>1, <2>1, <3>2 DEF IInv, ForeignInv
  <2>. QED
    BY <2>1, <2>2, <2>3 DEF FileStep, Changes, Installs, Deletes
<1>. QED
  BY <1>1, Inductive, PTL DEF Spec, ForeignIsPreserved


-----------------------------------------------------------------------------
(* The locks and the end of the operations: who holds a lock is past every   *)
(* wait for an earlier one, and every step brings its process nearer its end. *)

HolderInv == \A p \in Procs :
    /\ writer = p => pc[p] \in {"clear", "unlink", "policyProducer"} \union PolicyAt
    /\ producer = p => pc[p] \in {"hit", "saveTouch"} \union DownloadAt \union PolicyAt
    /\ metadata = p => pc[p] \in CopyAt \union {"saveLimit"}

\* p is the only process that a step concerns.
Only(p) == \A q \in Procs \ {p} : pc'[q] = pc[q] /\ victims'[q] = victims[q]
                                 /\ checked'[q] = checked[q]
Forward(p) == Nearer(p) /\ Only(p)

\* Whoever is busy has a way to go.
LEMMA Busy ==
  \A where \in Location \ {"idle"} : Distance["idle"] < Distance[where]
BY DEF Location, Distance

\* The way of every operation.
LEMMA Ways ==
  /\ Distance["lookup"] < Distance["lease"] /\ Distance["keep"] < Distance["lease"]
  /\ Distance["hit"] < Distance["lookup"] /\ Distance["producer"] < Distance["lookup"]
  /\ Distance["hit"] < Distance["winner"] /\ Distance["reserve"] < Distance["winner"]
  /\ Distance["winner"] < Distance["producer"]
  /\ Distance["saveTouch"] < Distance["hit"]
  /\ Distance["download"] < Distance["reserve"]
  /\ Distance["publish"] < Distance["download"]
  /\ Distance["unreserve"] < Distance["download"]
  /\ Distance["record"] < Distance["publish"]
  /\ Distance["unreserve"] < Distance["publish"]
  /\ Distance["saveRow"] < Distance["record"]
  /\ Distance["unreserve"] < Distance["saveRow"]
  /\ Distance["use"] < Distance["unreserve"] /\ Distance["use"] < Distance["saveTouch"]
  /\ Distance["saveKeep"] < Distance["keep"]
  /\ Distance["clear"] < Distance["cleanup"] /\ Distance["unlink"] < Distance["clear"]
  /\ Distance["policyProducer"] < Distance["policy"]
  /\ Distance["policyCheck"] < Distance["policyProducer"]
  /\ Distance["trim"] < Distance["policyCheck"]
  /\ Distance["saveLimit"] < Distance["trim"]
BY DEF Distance

\* A process that ends is nearer its end.
LEMMA EndForward ==
  ASSUME LockInv, VictimInv, DataInv, NEW p \in Procs, End(p), pc[p] # "idle"
  PROVE  Forward(p)
BY Busy DEF End, Go, LockInv, LockTypes, VictimInv, DataInv, Forward, Nearer, Only

\* Whoever has compared the next file is nearer its end.
LEMMA SelectForward ==
  ASSUME LockInv, VictimInv, DataInv, NEW p \in Procs,
         NEW a \in Owned(values[p]), Select(p, a), checked[p] = None, UNCHANGED pc
  PROVE  Forward(p)
<1>1. [artifact |-> a, id |-> file[a].id] \in LookedAt
  BY OwnedFile DEF LookedAt, Owned
<1>. QED
  BY <1>1, NoneFacts DEF Select, VictimInv, Forward, Nearer, Only

\* Every step of a process is one forward.
LEMMA StepForward ==
  ASSUME LockInv, VictimInv, DataInv, NEW p \in Procs, Step(p)
  PROVE  Forward(p)
<1>0. pc \in [Procs -> Location] /\ victims \in [Procs -> SUBSET Artifacts]
      /\ checked \in [Procs -> LookedAt \union {None}]
  BY DEF LockInv, LockTypes, VictimInv, DataInv
<1>. USE <1>0, Ways DEF Go, Forward, Nearer, Only, locks, lease, local
<1>1. CASE AcquireLease(p)
  BY <1>1 DEF AcquireLease
<1>2. CASE LookUp(p)
  BY <1>2 DEF LookUp
<1>3. CASE AcquireProducer(p)
  BY <1>3 DEF AcquireProducer
<1>4. CASE Hit(p)
  BY <1>4 DEF Hit, ReadMetadata
<1>5. CASE HitRaises(p)
  BY <1>5, EndForward DEF HitRaises
<1>6. CASE Reserve(p)
  BY <1>6 DEF Reserve
<1>7. CASE RefuseDownload(p)
  BY <1>7, EndForward DEF RefuseDownload
<1>8. CASE Download(p)
  BY <1>8 DEF Download
<1>9. CASE DownloadRaises(p)
  BY <1>9 DEF DownloadRaises
<1>10. CASE Publish(p)
  BY <1>10 DEF Publish
<1>11. CASE PublishLoses(p)
  BY <1>11 DEF PublishLoses
<1>12. CASE RecordInstall(p)
  BY <1>12 DEF RecordInstall, ReadMetadata
<1>13. CASE Unreserve(p)
  <2>1. CASE failed[p]
    BY <1>13, <2>1, EndForward DEF Unreserve
  <2>2. CASE ~failed[p]
    BY <1>13, <2>2 DEF Unreserve
  <2>. QED BY <2>1, <2>2
<1>14. CASE EndUse(p)
  BY <1>14, EndForward DEF EndUse
<1>15. CASE ChangeKeep(p)
  BY <1>15 DEF ChangeKeep, ReadMetadata
<1>16. CASE RefuseKeep(p)
  BY <1>16, EndForward DEF RefuseKeep
<1>17. CASE BeginCleanup(p)
  BY <1>17 DEF BeginCleanup
<1>18. CASE ReadUnkept(p)
  BY <1>18 DEF ReadUnkept, ReadMetadata
<1>19. CASE UnlinkRaises(p)
  BY <1>19, EndForward DEF UnlinkRaises
<1>20. CASE BeginPolicy(p)
  BY <1>20 DEF BeginPolicy
<1>21. CASE ExcludeProducers(p)
  BY <1>21 DEF ExcludeProducers
<1>22. CASE RefuseBusy(p)
  BY <1>22, EndForward DEF RefuseBusy
<1>23. CASE CheckPolicy(p)
  BY <1>23 DEF CheckPolicy, ReadMetadata
<1>24. CASE RefusePolicy(p)
  BY <1>24, EndForward DEF RefusePolicy
<1>25. CASE NothingToTrim(p)
  BY <1>25 DEF NothingToTrim
<1>26. CASE SaveLimit(p)
  BY <1>26, EndForward DEF SaveLimit
<1>27. CASE SaveMetadata(p)
  <2>1. CASE End(p)
    BY <1>27, <2>1, EndForward DEF SaveMetadata
  <2>2. CASE pc[p] = "saveTouch" /\ ReleaseMetadata(p, "use")
    BY <2>2 DEF ReleaseMetadata
  <2>3. CASE pc[p] = "saveRow" /\ ReleaseMetadata(p, "unreserve")
    BY <2>3 DEF ReleaseMetadata
  <2>4. CASE pc[p] = "trim" /\ Go(p, "saveLimit") /\ UNCHANGED <<locks, local>>
    BY <2>4
  <2>. QED BY <1>27, <2>1, <2>2, <2>3, <2>4 DEF SaveMetadata
<1>28. ASSUME NEW a \in Artifacts, ClearUnkept(p, a) PROVE Forward(p)
  <2>1. CASE a \in Owned(values[p]) /\ Select(p, a)
    BY <1>28, <2>1, SelectForward DEF ClearUnkept
  <2>2. CASE Skip(p, a)
    BY <1>28, <2>2 DEF ClearUnkept, Skip
  <2>. QED BY <1>28, <2>1, <2>2 DEF ClearUnkept
<1>29. ASSUME NEW a \in Artifacts, TrimOldest(p, a) PROVE Forward(p)
  <2>1. CASE End(p)
    BY <1>29, <2>1, EndForward DEF TrimOldest
  <2>2. CASE a \in Owned(values[p]) /\ Select(p, a) /\ UNCHANGED pc
    BY <1>29, <2>2, SelectForward DEF TrimOldest
  <2>. QED BY <1>29, <2>1, <2>2 DEF TrimOldest
<1>30. ASSUME NEW a \in Artifacts, Unlink(p, a) PROVE Forward(p)
  <2>1. /\ pc' = pc /\ a \in victims[p]
        /\ victims' = [victims EXCEPT ![p] = victims[p] \ {a}]
        /\ checked' = [checked EXCEPT ![p] = None]
    BY <1>30 DEF Unlink, VictimInv
  <2>. QED BY <2>1
<1>. QED
  BY <1>1, <1>2, <1>3, <1>4, <1>5, <1>6, <1>7, <1>8, <1>9, <1>10, <1>11,
     <1>12, <1>13, <1>14, <1>15, <1>16, <1>17, <1>18, <1>19, <1>20, <1>21,
     <1>22, <1>23, <1>24, <1>25, <1>26, <1>27, <1>28, <1>29, <1>30 DEF Step

\* GoesForward: no operation goes round or is sent back (cache_control.py,
\* cache_budget.py): each of its steps leaves it less to do, whatever happens
\* meanwhile.
THEOREM ForwardSafe == Spec => GoesForward
<1>. DEFINE Fact ==
        \A p \in Procs :
           /\ Step(p) => Nearer(p)
           /\ pc[p] # "idle" => Nearer(p) \/ UNCHANGED <<pc[p], victims[p], checked[p]>>
<1>1. BaseInv /\ [Next]_vars => Fact
  <2>. SUFFICES ASSUME BaseInv, [Next]_vars, NEW p \in Procs
                PROVE  /\ Step(p) => Nearer(p)
                       /\ pc[p] # "idle" => Nearer(p) \/ UNCHANGED <<pc[p], victims[p], checked[p]>>
    OBVIOUS
  <2>0. pc \in [Procs -> Location] /\ victims \in [Procs -> SUBSET Artifacts]
        /\ checked \in [Procs -> LookedAt \union {None}]
    BY DEF BaseInv, LockInv, LockTypes, VictimInv, DataInv
  <2>1. Step(p) => Nearer(p)
    BY StepForward DEF BaseInv, Forward
  <2>. SUFFICES ASSUME pc[p] # "idle"
                PROVE  Nearer(p) \/ (/\ pc'[p] = pc[p] /\ victims'[p] = victims[p]
                                /\ checked'[p] = checked[p])
    BY <2>1
  <2>2. ASSUME NEW q \in Procs, Step(q) \/ Kill(q)
        PROVE  Nearer(p) \/ (/\ pc'[p] = pc[p] /\ victims'[p] = victims[p]
                                /\ checked'[p] = checked[p])
    <3>1. Forward(q)
      BY <2>2, StepForward, EndForward DEF BaseInv, Kill
    <3>. QED
      BY <3>1 DEF Forward, Only
  <2>3. ASSUME NEW q \in Procs, NEW r \in Requests, Start(q, r)
        PROVE  Nearer(p) \/ (/\ pc'[p] = pc[p] /\ victims'[p] = victims[p]
                                /\ checked'[p] = checked[p])
    BY <2>0, <2>3 DEF Start, Go
  <2>4. ASSUME NEW a \in Artifacts, ChangeFile(a)
        PROVE  Nearer(p) \/ (/\ pc'[p] = pc[p] /\ victims'[p] = victims[p]
                                /\ checked'[p] = checked[p])
    BY <2>4 DEF ChangeFile, local
  <2>5. CASE UNCHANGED vars
    BY <2>5 DEF vars, local
  <2>. QED
    BY <2>2, <2>3, <2>4, <2>5 DEF Next
<1>2. Spec => [][Fact]_vars
  BY <1>1, BaseSafe, PTL DEF Spec
<1>. QED
  BY <1>2 DEF GoesForward

\* At the start nobody holds anything, and who ends holds nothing.
LEMMA HolderInit == Init => HolderInv
BY NoneFacts DEF Init, HolderInv

LEMMA EndKeepsHolders ==
  ASSUME LockInv, HolderInv, NEW p \in Procs, End(p)
  PROVE  HolderInv'
BY NoneFacts DEF End, Go, LockInv, LockTypes, HolderInv

\* Whoever holds a lock is past the wait for it.
LEMMA HolderNext ==
  ASSUME LockInv, HolderInv, [Next]_vars
  PROVE  HolderInv'
<1>0. pc \in [Procs -> Location]
  BY DEF LockInv, LockTypes
<1>. USE <1>0, NoneFacts DEF HolderInv, DownloadAt, PolicyAt, CopyAt, Go, disk,
             lease, locks, local
<1>1. ASSUME NEW p \in Procs, AcquireLease(p) PROVE HolderInv'
  BY <1>1 DEF AcquireLease, Request, Run, SetKeep, Clear, SetLimit,
     Artifact
<1>2. ASSUME NEW p \in Procs, LookUp(p) PROVE HolderInv'
  BY <1>2 DEF LookUp
<1>3. ASSUME NEW p \in Procs, AcquireProducer(p) PROVE HolderInv'
  BY <1>3 DEF AcquireProducer
<1>4. ASSUME NEW p \in Procs, Hit(p) PROVE HolderInv'
  BY <1>4 DEF Hit, ReadMetadata
<1>5. ASSUME NEW p \in Procs, HitRaises(p) PROVE HolderInv'
  BY <1>5, EndKeepsHolders DEF HitRaises
<1>6. ASSUME NEW p \in Procs, Reserve(p) PROVE HolderInv'
  BY <1>6 DEF Reserve
<1>7. ASSUME NEW p \in Procs, RefuseDownload(p) PROVE HolderInv'
  BY <1>7, EndKeepsHolders DEF RefuseDownload
<1>8. ASSUME NEW p \in Procs, Download(p) PROVE HolderInv'
  BY <1>8 DEF Download
<1>9. ASSUME NEW p \in Procs, DownloadRaises(p) PROVE HolderInv'
  BY <1>9 DEF DownloadRaises, Spend
<1>10. ASSUME NEW p \in Procs, Publish(p) PROVE HolderInv'
  BY <1>10 DEF Publish
<1>11. ASSUME NEW p \in Procs, PublishLoses(p) PROVE HolderInv'
  BY <1>11 DEF PublishLoses
<1>12. ASSUME NEW p \in Procs, RecordInstall(p) PROVE HolderInv'
  BY <1>12 DEF RecordInstall, ReadMetadata
<1>13. ASSUME NEW p \in Procs, Unreserve(p) PROVE HolderInv'
  <2>1. CASE failed[p]
    BY <1>13, <2>1, EndKeepsHolders DEF Unreserve
  <2>2. CASE ~failed[p]
    BY <1>13, <2>2 DEF Unreserve
  <2>. QED BY <2>1, <2>2
<1>14. ASSUME NEW p \in Procs, EndUse(p) PROVE HolderInv'
  BY <1>14, EndKeepsHolders DEF EndUse
<1>15. ASSUME NEW p \in Procs, ChangeKeep(p) PROVE HolderInv'
  BY <1>15 DEF ChangeKeep, ReadMetadata
<1>16. ASSUME NEW p \in Procs, RefuseKeep(p) PROVE HolderInv'
  BY <1>16, EndKeepsHolders DEF RefuseKeep
<1>17. ASSUME NEW p \in Procs, BeginCleanup(p) PROVE HolderInv'
  BY <1>17 DEF BeginCleanup, Idle
<1>18. ASSUME NEW p \in Procs, ReadUnkept(p) PROVE HolderInv'
  BY <1>18 DEF ReadUnkept, ReadMetadata
<1>19. ASSUME NEW p \in Procs, UnlinkRaises(p) PROVE HolderInv'
  BY <1>19, EndKeepsHolders DEF UnlinkRaises
<1>20. ASSUME NEW p \in Procs, BeginPolicy(p) PROVE HolderInv'
  BY <1>20 DEF BeginPolicy, Idle
<1>21. ASSUME NEW p \in Procs, ExcludeProducers(p) PROVE HolderInv'
  BY <1>21 DEF ExcludeProducers
<1>22. ASSUME NEW p \in Procs, RefuseBusy(p) PROVE HolderInv'
  BY <1>22, EndKeepsHolders DEF RefuseBusy
<1>23. ASSUME NEW p \in Procs, CheckPolicy(p) PROVE HolderInv'
  BY <1>23 DEF CheckPolicy, ReadMetadata
<1>24. ASSUME NEW p \in Procs, RefusePolicy(p) PROVE HolderInv'
  BY <1>24, EndKeepsHolders DEF RefusePolicy
<1>25. ASSUME NEW p \in Procs, NothingToTrim(p) PROVE HolderInv'
  BY <1>25 DEF NothingToTrim
<1>26. ASSUME NEW p \in Procs, SaveLimit(p) PROVE HolderInv'
  BY <1>26, EndKeepsHolders DEF SaveLimit
<1>27. ASSUME NEW p \in Procs, SaveMetadata(p) PROVE HolderInv'
  <2>1. CASE End(p)
    BY <2>1, EndKeepsHolders
  <2>2. CASE pc[p] = "saveTouch" /\ ReleaseMetadata(p, "use")
    BY <1>27, <2>2 DEF SaveMetadata, ReleaseMetadata
  <2>3. CASE pc[p] = "saveRow" /\ ReleaseMetadata(p, "unreserve")
    BY <1>27, <2>3 DEF SaveMetadata, ReleaseMetadata
  <2>4. CASE pc[p] = "trim" /\ Go(p, "saveLimit") /\ UNCHANGED <<locks, local>>
    BY <1>27, <2>4 DEF SaveMetadata
  <2>. QED BY <1>27, <2>1, <2>2, <2>3, <2>4 DEF SaveMetadata
<1>28. ASSUME NEW p \in Procs, Kill(p) PROVE HolderInv'
  BY <1>28, EndKeepsHolders DEF Kill
<1>29. ASSUME NEW p \in Procs, NEW a \in Artifacts, ClearUnkept(p, a)
      PROVE  HolderInv'
  BY <1>29 DEF ClearUnkept
<1>30. ASSUME NEW p \in Procs, NEW a \in Artifacts, TrimOldest(p, a)
      PROVE  HolderInv'
  <2>1. CASE End(p)
    BY <2>1, EndKeepsHolders
  <2>2. CASE UNCHANGED <<locks, pc, request>>
    BY <2>2
  <2>. QED BY <1>30, <2>1, <2>2 DEF TrimOldest
<1>31. ASSUME NEW p \in Procs, NEW r \in Requests, Start(p, r) PROVE HolderInv'
  BY <1>31 DEF Start, Spend, Request, Run, SetKeep, Clear, SetLimit
<1>32. ASSUME NEW a \in Artifacts, ChangeFile(a) PROVE HolderInv'
  BY <1>32 DEF ChangeFile, Spend
<1>33. CASE UNCHANGED vars
  BY <1>33 DEF vars
<1>34. ASSUME NEW p \in Procs, NEW a \in Artifacts, Unlink(p, a)
      PROVE  HolderInv'
  BY <1>34 DEF Unlink
<1>. QED
  BY <1>1, <1>2, <1>3, <1>4, <1>5, <1>6, <1>7, <1>8, <1>9, <1>10, <1>11,
     <1>12, <1>13, <1>14, <1>15, <1>16, <1>17, <1>18, <1>19, <1>20,
     <1>21, <1>22, <1>23, <1>24, <1>25, <1>26, <1>27, <1>28, <1>29,
     <1>30, <1>31, <1>32, <1>33, <1>34 DEF Next, Step

\* The lock that p waits for is held by one who waits for a later one.
LEMMA Ordered ==
  ASSUME HolderInv, NEW p \in Procs, NEW q \in Procs, Blocks(q, p)
  PROVE  Awaits(p) < Awaits(q) /\ pc[q] # "idle"
BY DEF HolderInv, Blocks, Awaits, DownloadAt, PolicyAt, CopyAt

\* The holders are where they should be.
LEMMA HolderSafe == Spec => []HolderInv
BY HolderInit, HolderNext, BaseSafe, PTL DEF Spec, BaseInv

\* NoCircle: the three locks are taken in one order by every operation
\* (cache_control.py, cache_budget.py): nobody waits in a circle.
THEOREM OrderSafe == Spec => []NoCircle
<1>1. HolderInv => NoCircle
  BY Ordered DEF NoCircle
<1>. QED
  BY <1>1, HolderSafe, PTL

\* NobodyStalls: with three locks taken in one order, at most two waits lead
\* from a busy process to one that can go on.
THEOREM StallSafe == Spec => []NobodyStalls
<1>. DEFINE Goes(p) == \A q \in Procs : ~Blocks(q, p)
<1>1. HolderInv => NobodyStalls
  <2>. SUFFICES ASSUME HolderInv, NEW p \in Procs, pc[p] # "idle"
                PROVE  \E q \in Procs : pc[q] # "idle" /\ Goes(q)
    BY DEF NobodyStalls
  <2>0. \A q \in Procs : Awaits(q) \in 1..4
    BY DEF Awaits
  <2>1. \A q \in Procs : Awaits(q) = 4 => Goes(q)
    BY DEF Blocks
  <2>2. \A q \in Procs : ~Goes(q) => \E r \in Procs : pc[r] # "idle" /\ Awaits(q) < Awaits(r)
    BY Ordered
  <2>. HIDE DEF Goes
  <2>3. \A q \in Procs : pc[q] # "idle" /\ Awaits(q) >= 3
                           => \E r \in Procs : pc[r] # "idle" /\ Goes(r)
    BY <2>0, <2>1, <2>2
  <2>4. \A q \in Procs : pc[q] # "idle" /\ Awaits(q) >= 2
                           => \E r \in Procs : pc[r] # "idle" /\ Goes(r)
    BY <2>0, <2>2, <2>3
  <2>. QED
    BY <2>0, <2>2, <2>4
<1>. QED
  BY <1>1, HolderSafe, PTL
=============================================================================
