----------------------------- MODULE CacheStore -----------------------------
(***************************************************************************)
(* The cache of downloaded model files (cache_control.py, cache_budget.py, *)
(* artifacts.py), shared by every InferGrade process of a machine: runs    *)
(* that download or reuse a file and then execute with it, changes of a    *)
(* Keep preference, cleanups, and changes of the download limit with and   *)
(* without trimming.                                                       *)
(*                                                                         *)
(* Three file locks in <cache>/.infergrade-cache-control order them, taken *)
(* in this order: cache-lease.lock (shared by whoever uses the cache,      *)
(* exclusive for deletion), producer.lock (a download or a new limit) and  *)
(* metadata.lock (a change of managed.json).  The system drops the locks   *)
(* of a process that dies.                                                 *)
(***************************************************************************)
EXTENDS Naturals, FiniteSets

CONSTANTS
    Procs,      \* processes that may use the cache
    Artifacts,  \* artifacts, one cache path each
    Size,       \* their sizes
    Weight,     \* the size of a set of artifacts
    Limits,     \* download limits that can be chosen
    Requests,   \* what the processes may be started for
    None,
    Bound       \* bounds, one per BoundKind

\* "start": processes started; "kill": kills; "trouble": downloads,
\* verifications and deletions that fail; "change": files that the user
\* adds, replaces or deletes.
BoundKind == {"start", "kill", "trouble", "change"}

Run == [kind : {"run"}, artifact : Artifacts]
SetKeep == [kind : {"keep"}, artifact : Artifacts, keep : BOOLEAN]
Clear == [kind : {"clear"}, artifacts : SUBSET Artifacts]
SetLimit == [kind : {"limit"}, limit : Limits \union {None}, trim : BOOLEAN]
Request == Run \union SetKeep \union Clear \union SetLimit

\* Weight is the sum of Size over a set: only these facts of it are used.
ASSUME CacheAssumption ==
    /\ Size \in [Artifacts -> Nat \ {0}]
    /\ Weight \in [SUBSET Artifacts -> Nat]
    /\ \A S \in SUBSET Artifacts : \A T \in SUBSET S : Weight[T] <= Weight[S]
    /\ \A S \in SUBSET Artifacts : \A a \in Artifacts :
          Weight[S \union {a}] <= Weight[S] + Size[a]
    /\ Limits \subseteq Nat
    /\ Requests \subseteq Request
    /\ None \notin Procs \union Nat \union Request \union BOOLEAN
    /\ None \notin [id : Nat, installed : BOOLEAN]
    /\ None \notin [id : Nat, keep : BOOLEAN]
    /\ None \notin [artifact : Artifacts, id : Nat]
    /\ Bound \in [BoundKind -> Nat]

File == [id : Nat, installed : BOOLEAN]
Row == [id : Nat, keep : BOOLEAN]
LookedAt == [artifact : Artifacts, id : Nat]
Metadata == [Artifacts -> Row \union {None}]

VARIABLES
    file,        \* the file at each artifact's path: its identity, and
                 \* whether a Runner installed it
    rows,        \* managed.json: identity at installation, Keep preference
    limit,       \* budget.json
    reservation, \* reservation.json
    readers,     \* processes with a shared lease
    writer,      \* process with the exclusive lease
    producer,    \* process with producer.lock
    metadata,    \* process with metadata.lock
    pc,
    request,     \* what each process does
    values,      \* the contents of managed.json it works on
    victims,     \* the artifacts it still has to delete
    checked,     \* the one it is about to delete, and the identity it read of it
    removed,     \* has it deleted any?
    failed,      \* has its download failed?
    kept,        \* identity of the file that was last confirmed as kept
    stamp,       \* next identity
    budget

disk == <<file, rows, limit, reservation>>
lease == <<readers, writer>>
locks == <<readers, writer, producer, metadata>>
local == <<request, values, victims, checked, removed, failed>>
vars == <<disk, locks, pc, local, kept, stamp, budget>>

Init ==
    /\ \E present \in SUBSET Artifacts :
          /\ file = [a \in Artifacts |-> IF a \in present
                       THEN [id |-> 0, installed |-> TRUE] ELSE None]
          /\ rows = [a \in Artifacts |-> IF a \in present
                       THEN [id |-> 0, keep |-> FALSE] ELSE None]
    /\ limit = None
    /\ reservation = 0
    /\ readers = {}
    /\ writer = None
    /\ producer = None
    /\ metadata = None
    /\ pc = [p \in Procs |-> "idle"]
    /\ request = [p \in Procs |-> None]
    /\ values = [p \in Procs |-> None]
    /\ victims = [p \in Procs |-> {}]
    /\ checked = [p \in Procs |-> None]
    /\ removed = [p \in Procs |-> FALSE]
    /\ failed = [p \in Procs |-> FALSE]
    /\ kept = [a \in Artifacts |-> None]
    /\ stamp = 1
    /\ budget = Bound

-----------------------------------------------------------------------------
Spend(kind) ==
    /\ budget[kind] > 0
    /\ budget' = [budget EXCEPT ![kind] = @ - 1]

Go(p, where) == pc' = [pc EXCEPT ![p] = where]

\* A row speaks of a file only as long as the identity matches.
Owned(table) == {a \in Artifacts : /\ table[a] # None
                                   /\ file[a] # None
                                   /\ table[a].id = file[a].id}

Artifact(p) == request[p].artifact

\* The process returns, raises or dies: its locks are dropped.
End(p) ==
    /\ Go(p, "idle")
    /\ readers' = readers \ {p}
    /\ writer' = IF writer = p THEN None ELSE writer
    /\ producer' = IF producer = p THEN None ELSE producer
    /\ metadata' = IF metadata = p THEN None ELSE metadata
    /\ request' = [request EXCEPT ![p] = None]
    /\ values' = [values EXCEPT ![p] = None]
    /\ victims' = [victims EXCEPT ![p] = {}]
    /\ checked' = [checked EXCEPT ![p] = None]
    /\ removed' = [removed EXCEPT ![p] = FALSE]
    /\ failed' = [failed EXCEPT ![p] = FALSE]

\* metadata.lock is taken and managed.json read; table is what p makes of it.
ReadMetadata(p, table) ==
    /\ metadata = None
    /\ metadata' = p
    /\ values' = [values EXCEPT ![p] = table]

Start(p, r) ==
    /\ pc[p] = "idle"
    /\ Spend("start")
    /\ request' = [request EXCEPT ![p] = r]
    /\ Go(p, CASE r.kind \in {"run", "keep"} -> "lease"
               [] r.kind = "clear" -> "cleanup"
               [] r.kind = "limit" -> "policy")
    /\ UNCHANGED <<disk, locks, values, victims, checked, removed, failed, kept, stamp>>

\* Readers wait for a deletion to end.
AcquireLease(p) ==
    /\ pc[p] = "lease"
    /\ writer = None
    /\ readers' = readers \union {p}
    /\ Go(p, IF request[p].kind = "run" THEN "lookup" ELSE "keep")
    /\ UNCHANGED <<disk, writer, producer, metadata, local, kept, stamp, budget>>

\* The path is looked up before producer.lock is waited for, and again after.
LookUp(p) ==
    /\ pc[p] \in {"lookup", "winner"}
    /\ Go(p, IF file[Artifact(p)] # None THEN "hit"
             ELSE IF pc[p] = "lookup" THEN "producer" ELSE "reserve")
    /\ UNCHANGED <<disk, locks, local, kept, stamp, budget>>

AcquireProducer(p) ==
    /\ pc[p] = "producer"
    /\ producer = None
    /\ producer' = p
    /\ Go(p, "winner")
    /\ UNCHANGED <<disk, lease, metadata, local, kept, stamp, budget>>

\* The cached file is verified and its last use recorded.
Hit(p) ==
    /\ pc[p] = "hit"
    /\ file[Artifact(p)] # None
    /\ ReadMetadata(p, rows)
    /\ Go(p, "saveTouch")
    /\ UNCHANGED <<disk, lease, producer, request, victims, checked, removed, failed,
                   kept, stamp, budget>>

HitRaises(p) ==
    /\ pc[p] = "hit"
    /\ IF file[Artifact(p)] = None THEN UNCHANGED budget ELSE Spend("trouble")
    /\ End(p)
    /\ UNCHANGED <<disk, kept, stamp>>

\* Must what is owned and what is authorized now fit the limit?
Fits(p) == limit # None => Weight[Owned(rows)] + Size[Artifact(p)] <= limit

Reserve(p) ==
    /\ pc[p] = "reserve"
    /\ metadata = None
    /\ Fits(p)
    /\ reservation' = Size[Artifact(p)]
    /\ Go(p, "download")
    /\ UNCHANGED <<file, rows, limit, locks, local, kept, stamp, budget>>

\* Mutant: a refused download keeps the locks it holds.
RefuseHoldingLocks(p) ==
    /\ pc[p] = "reserve"
    /\ metadata = None
    /\ ~Fits(p)
    /\ Go(p, "idle")
    /\ UNCHANGED <<disk, locks, local, kept, stamp, budget>>

RefuseDownload(p) ==
    /\ pc[p] = "reserve"
    /\ metadata = None
    /\ ~Fits(p)
    /\ End(p)
    /\ UNCHANGED <<disk, kept, stamp, budget>>

Download(p) ==
    /\ pc[p] = "download"
    /\ Go(p, "publish")
    /\ UNCHANGED <<disk, locks, local, kept, stamp, budget>>

DownloadRaises(p) ==
    /\ pc[p] = "download"
    /\ Spend("trouble")
    /\ failed' = [failed EXCEPT ![p] = TRUE]
    /\ Go(p, "unreserve")
    /\ UNCHANGED <<disk, locks, request, values, victims, checked, removed, kept, stamp>>

\* Linked into place: a file that is there is never replaced.
Publish(p) ==
    /\ pc[p] = "publish"
    /\ file[Artifact(p)] = None
    /\ file' = [file EXCEPT ![Artifact(p)] = [id |-> stamp, installed |-> TRUE]]
    /\ stamp' = stamp + 1
    /\ Go(p, "record")
    /\ UNCHANGED <<rows, limit, reservation, locks, local, kept, budget>>

\* The file somebody put there is verified, and used or refused.
PublishLoses(p) ==
    /\ pc[p] = "publish"
    /\ file[Artifact(p)] # None
    /\ \E bad \in BOOLEAN : failed' = [failed EXCEPT ![p] = bad]
    /\ Go(p, "unreserve")
    /\ UNCHANGED <<disk, locks, request, values, victims, checked, removed, kept,
                   stamp, budget>>

RecordInstall(p) ==
    LET a == Artifact(p)
    IN /\ pc[p] = "record"
       /\ ReadMetadata(p, [rows EXCEPT ![a] = [id |-> file[a].id, keep |-> FALSE]])
       /\ Go(p, "saveRow")
       /\ UNCHANGED <<disk, lease, producer, request, victims, checked, removed, failed,
                      kept, stamp, budget>>

\* The reservation ends with the download, however that ended.
Unreserve(p) ==
    /\ pc[p] = "unreserve"
    /\ metadata = None
    /\ reservation' = 0
    /\ IF failed[p]
       THEN End(p)
       ELSE /\ producer' = None
            /\ Go(p, "use")
            /\ UNCHANGED <<lease, metadata, local>>
    /\ UNCHANGED <<file, rows, limit, kept, stamp, budget>>

\* The execution that needed the file ends.
EndUse(p) ==
    /\ pc[p] = "use"
    /\ End(p)
    /\ UNCHANGED <<disk, kept, stamp, budget>>

\* Mutant: managed.json is read before metadata.lock is taken.
ChangeKeepUnlocked(p) ==
    LET a == Artifact(p)
    IN /\ pc[p] = "keep"
       /\ a \in Owned(rows)
       /\ values' = [values EXCEPT ![p] =
                       [rows EXCEPT ![a].keep = request[p].keep]]
       /\ Go(p, "saveKeep")
       /\ UNCHANGED <<disk, locks, request, victims, checked, removed, failed, kept,
                      stamp, budget>>

ChangeKeep(p) ==
    LET a == Artifact(p)
    IN /\ pc[p] = "keep"
       /\ a \in Owned(rows)
       /\ ReadMetadata(p, [rows EXCEPT ![a].keep = request[p].keep])
       /\ Go(p, "saveKeep")
       /\ UNCHANGED <<disk, lease, producer, request, victims, checked, removed, failed,
                      kept, stamp, budget>>

RefuseKeep(p) ==
    /\ pc[p] = "keep"
    /\ metadata = None
    /\ Artifact(p) \notin Owned(rows)
    /\ End(p)
    /\ UNCHANGED <<disk, kept, stamp, budget>>

-----------------------------------------------------------------------------
\* Nobody waits to delete: a cache in use refuses.
Idle == readers = {} /\ writer = None

\* Mutant: deletion only excludes other deletions.
BeginCleanupBesideReaders(p) ==
    /\ pc[p] = "cleanup"
    /\ writer = None
    /\ writer' = p
    /\ Go(p, "clear")
    /\ UNCHANGED <<disk, readers, producer, metadata, local, kept, stamp, budget>>

BeginCleanup(p) ==
    /\ pc[p] = "cleanup"
    /\ Idle
    /\ writer' = p
    /\ Go(p, "clear")
    /\ UNCHANGED <<disk, readers, producer, metadata, local, kept, stamp, budget>>

ReadUnkept(p) ==
    /\ pc[p] = "clear"
    /\ ReadMetadata(p, rows)
    /\ victims' = [victims EXCEPT ![p] =
          {a \in request[p].artifacts : rows[a] # None /\ ~rows[a].keep}]
    /\ Go(p, "unlink")
    /\ UNCHANGED <<disk, lease, producer, request, checked, removed, failed, kept, stamp,
                   budget>>

\* The identity of a file is compared, and the file is deleted by its name.
Select(p, a) ==
    /\ checked' = [checked EXCEPT ![p] = [artifact |-> a, id |-> file[a].id]]
    /\ UNCHANGED victims

Skip(p, a) ==
    /\ victims' = [victims EXCEPT ![p] = @ \ {a}]
    /\ UNCHANGED checked

\* Mutant: whatever has the recorded name is selected.
ClearByName(p, a) ==
    /\ pc[p] = "unlink"
    /\ a \in victims[p]
    /\ checked[p] = None
    /\ IF file[a] # None THEN Select(p, a) ELSE Skip(p, a)
    /\ UNCHANGED <<disk, locks, pc, request, values, removed, failed, kept,
                   stamp, budget>>

\* A file that is gone or is no longer the recorded one is passed over.
ClearUnkept(p, a) ==
    /\ pc[p] = "unlink"
    /\ a \in victims[p]
    /\ checked[p] = None
    /\ IF a \in Owned(values[p]) THEN Select(p, a) ELSE Skip(p, a)
    /\ UNCHANGED <<disk, locks, pc, request, values, removed, failed, kept,
                   stamp, budget>>

\* What has the name by now is deleted.
Unlink(p, a) ==
    /\ checked[p] # None
    /\ a = checked[p].artifact
    /\ file[a] # None
    /\ file' = [file EXCEPT ![a] = None]
    /\ values' = [values EXCEPT ![p][a] = None]
    /\ removed' = [removed EXCEPT ![p] = TRUE]
    /\ victims' = [victims EXCEPT ![p] = @ \ {a}]
    /\ checked' = [checked EXCEPT ![p] = None]
    /\ UNCHANGED <<rows, limit, reservation, locks, pc, request, failed, kept,
                   stamp, budget>>

\* A deletion that raises leaves managed.json as it was; that of a file that
\* has gone since it was compared does.
UnlinkRaises(p) ==
    /\ pc[p] \in {"unlink", "trim"}
    /\ victims[p] # {}
    /\ \/ checked[p] # None /\ file[checked[p].artifact] = None /\ UNCHANGED budget
       \/ Spend("trouble")
    /\ End(p)
    /\ UNCHANGED <<disk, kept, stamp>>

-----------------------------------------------------------------------------
\* The lease of a limit change is not waited for either.
BeginPolicy(p) ==
    /\ pc[p] = "policy"
    /\ IF request[p].trim
       THEN Idle /\ writer' = p /\ readers' = readers
       ELSE writer = None /\ readers' = readers \union {p} /\ writer' = writer
    /\ Go(p, "policyProducer")
    /\ UNCHANGED <<disk, producer, metadata, local, kept, stamp, budget>>

\* Mutant: the limit may change during a download.
ExcludeNoProducer(p) ==
    /\ pc[p] = "policyProducer"
    /\ Go(p, "policyCheck")
    /\ UNCHANGED <<disk, locks, local, kept, stamp, budget>>

ExcludeProducers(p) ==
    /\ pc[p] = "policyProducer"
    /\ producer = None
    /\ producer' = p
    /\ Go(p, "policyCheck")
    /\ UNCHANGED <<disk, lease, metadata, local, kept, stamp, budget>>

\* The cache is in use, or a download is.
RefuseBusy(p) ==
    /\ \/ pc[p] = "cleanup" /\ ~Idle
       \/ pc[p] = "policy" /\ IF request[p].trim THEN ~Idle ELSE writer # None
       \/ pc[p] = "policyProducer" /\ producer # None
    /\ End(p)
    /\ UNCHANGED <<disk, kept, stamp, budget>>

Within(artifacts, l) == l # None => Weight[artifacts] <= l

Candidates == {a \in Owned(rows) : ~rows[a].keep}

\* The oldest candidates, and no more of them than the limit l requires.
OldestFirst(S, l) ==
    /\ S \subseteq Candidates
    /\ Within(Owned(rows) \ S, l)
    /\ \A a \in S : \A b \in Candidates \ S : rows[a].id <= rows[b].id
    /\ S # {} => \E a \in S : /\ \A b \in S : rows[b].id <= rows[a].id
                              /\ ~Within(Owned(rows) \ (S \ {a}), l)

Feasible(p) ==
    \/ Within(Owned(rows), request[p].limit)
    \/ request[p].trim /\ Within(Owned(rows) \ Candidates, request[p].limit)

CheckPolicy(p) ==
    /\ pc[p] = "policyCheck"
    /\ Feasible(p)
    /\ ReadMetadata(p, rows)
    /\ \E S \in SUBSET Artifacts :
          /\ OldestFirst(S, request[p].limit)
          /\ victims' = [victims EXCEPT ![p] = S]
    /\ Go(p, "trim")
    /\ UNCHANGED <<disk, lease, producer, request, checked, removed, failed, kept, stamp,
                   budget>>

RefusePolicy(p) ==
    /\ pc[p] = "policyCheck"
    /\ metadata = None
    /\ ~Feasible(p)
    /\ End(p)
    /\ UNCHANGED <<disk, kept, stamp, budget>>

TrimOldest(p, a) ==
    /\ pc[p] = "trim"
    /\ a \in victims[p]
    /\ checked[p] = None
    /\ \A b \in victims[p] : values[p][a].id <= values[p][b].id
    /\ IF a \in Owned(values[p])
       THEN /\ Select(p, a)
            /\ UNCHANGED <<locks, pc, request, values, removed, failed>>
       ELSE End(p)                       \* "Cache ownership changed"
    /\ UNCHANGED <<disk, kept, stamp, budget>>

NothingToTrim(p) ==
    /\ pc[p] = "trim"
    /\ victims[p] = {}
    /\ ~removed[p]
    /\ Go(p, "saveLimit")
    /\ UNCHANGED <<disk, locks, local, kept, stamp, budget>>

\* Written after managed.json, in a file of its own.
SaveLimit(p) ==
    /\ pc[p] = "saveLimit"
    /\ limit' = request[p].limit
    /\ End(p)
    /\ UNCHANGED <<file, rows, reservation, kept, stamp, budget>>

-----------------------------------------------------------------------------
\* managed.json is replaced whole; what follows depends on who replaces it.
ReleaseMetadata(p, where) ==
    /\ Go(p, where)
    /\ metadata' = None
    /\ values' = [values EXCEPT ![p] = None]
    /\ UNCHANGED <<lease, request, victims, checked, removed, failed>>

SaveMetadata(p) ==
    /\ rows' = values[p]
    /\ \/ /\ pc[p] = "saveTouch"
          /\ ReleaseMetadata(p, "use")
          /\ producer' = IF producer = p THEN None ELSE producer
          /\ UNCHANGED kept
       \/ /\ pc[p] = "saveRow"
          /\ ReleaseMetadata(p, "unreserve")
          /\ UNCHANGED <<producer, kept>>
       \/ /\ pc[p] = "saveKeep"
          /\ kept' = [kept EXCEPT ![Artifact(p)] =
                        IF request[p].keep THEN values[p][Artifact(p)].id ELSE None]
          /\ End(p)
       \/ /\ pc[p] = "unlink"
          /\ victims[p] = {}
          /\ End(p)
          /\ UNCHANGED kept
       \/ /\ pc[p] = "trim"
          /\ victims[p] = {}
          /\ removed[p]
          /\ Go(p, "saveLimit")
          /\ UNCHANGED <<locks, local, kept>>
    /\ UNCHANGED <<file, limit, reservation, stamp, budget>>

Kill(p) ==
    /\ pc[p] # "idle"
    /\ Spend("kill")
    /\ End(p)
    /\ UNCHANGED <<disk, kept, stamp>>

\* The user puts a file of his own in place of what is there, or deletes it.
\* A file that is just being recorded is left alone.
ChangeFile(a) ==
    /\ Spend("change")
    /\ \A p \in Procs : pc[p] = "record" => Artifact(p) # a
    /\ \/ file' = [file EXCEPT ![a] = [id |-> stamp, installed |-> FALSE]]
       \/ file[a] # None /\ file' = [file EXCEPT ![a] = None]
    /\ stamp' = stamp + 1
    /\ UNCHANGED <<rows, limit, reservation, locks, pc, local, kept>>

Step(p) ==
    \/ AcquireLease(p) \/ LookUp(p) \/ AcquireProducer(p)
    \/ Hit(p) \/ HitRaises(p)
    \/ Reserve(p) \/ RefuseDownload(p)
    \/ Download(p) \/ DownloadRaises(p)
    \/ Publish(p) \/ PublishLoses(p)
    \/ RecordInstall(p) \/ Unreserve(p) \/ EndUse(p)
    \/ ChangeKeep(p) \/ RefuseKeep(p)
    \/ BeginCleanup(p) \/ ReadUnkept(p)
    \/ \E a \in Artifacts : ClearUnkept(p, a) \/ TrimOldest(p, a) \/ Unlink(p, a)
    \/ UnlinkRaises(p)
    \/ BeginPolicy(p) \/ ExcludeProducers(p) \/ RefuseBusy(p)
    \/ CheckPolicy(p) \/ RefusePolicy(p) \/ NothingToTrim(p) \/ SaveLimit(p)
    \/ SaveMetadata(p)

Next ==
    \/ \E p \in Procs : Step(p) \/ Kill(p) \/ \E r \in Requests : Start(p, r)
    \/ \E a \in Artifacts : ChangeFile(a)

Spec == Init /\ [][Next]_vars

\* Where the code waits without a deadline: for the network, and for the
\* execution that uses the file.
Untimed == {"download", "use"}

\* A process that can go on does, as long as it only waits for locks and works
\* on files of its own machine.
FairSpec == Spec /\ \A p \in Procs : WF_vars(pc[p] \notin Untimed /\ Step(p))

-----------------------------------------------------------------------------
Location ==
    {"idle", "lease", "lookup", "producer", "winner", "hit", "saveTouch",
     "reserve", "download", "publish", "record", "saveRow", "unreserve", "use",
     "keep", "saveKeep", "cleanup", "clear", "unlink",
     "policy", "policyProducer", "policyCheck", "trim", "saveLimit"}

\* Types.  The reservation is that of one download: it never adds up.
TypeOK ==
    /\ file \in [Artifacts -> File \union {None}]
    /\ rows \in Metadata
    /\ limit \in Limits \union {None}
    /\ reservation \in {0} \union {Size[a] : a \in Artifacts}
    /\ readers \subseteq Procs
    /\ writer \in Procs \union {None}
    /\ producer \in Procs \union {None}
    /\ metadata \in Procs \union {None}
    /\ pc \in [Procs -> Location]
    /\ request \in [Procs -> Requests \union {None}]
    /\ values \in [Procs -> Metadata \union {None}]
    /\ victims \in [Procs -> SUBSET Artifacts]
    /\ checked \in [Procs -> LookedAt \union {None}]
    /\ removed \in [Procs -> BOOLEAN]
    /\ failed \in [Procs -> BOOLEAN]
    /\ kept \in [Artifacts -> Nat \union {None}]
    /\ stamp \in Nat
    /\ budget \in [BoundKind -> Nat]

\* What the Runner has downloaded and still owns never exceeds the limit,
\* whatever downloads, cleanups and changes of the limit run at the same time
\* and wherever one of them dies.
OwnedWithinLimit == Within(Owned(rows), limit)

\* A step of the user.
UserStep == budget'["change"] # budget["change"]

\* No process deletes the file that a run has found or installed and is about
\* to use or using: a run keeps its shared lease until it ends.
InUse(p) ==
    /\ pc[p] \in {"hit", "saveTouch", "record", "saveRow", "use"}
    /\ request[p].kind = "run"

ReaderKeepsFile ==
    [][UserStep \/ \A p \in Procs :
         InUse(p) /\ file[Artifact(p)] # None
           => file'[Artifact(p)] = file[Artifact(p)]]_vars

\* Once the preference to keep a file is confirmed, no cleanup and no trim
\* deletes that file until the preference is taken back: no other change of
\* managed.json loses it.
KeptIsPreserved ==
    [][UserStep \/ \A a \in Artifacts :
         file[a] # None /\ kept[a] = file[a].id => file'[a] = file[a]]_vars

\* p is about to delete a by its name, but a has been replaced since p read its
\* identity (cache_control.py:268-273, cache_budget.py:145-147).
ReplacedSince(p, a) ==
    /\ checked[p] # None
    /\ checked[p].artifact = a
    /\ checked[p].id # file[a].id

\* A file that the Runner did not download is never deleted, also when it has
\* taken the path of a recorded one, except if the user puts it there between
\* the comparison of the identity and the deletion that follows.
ForeignIsPreserved ==
    [][UserStep \/ \A a \in Artifacts :
         file[a] # None /\ ~file[a].installed =>
            file'[a] = file[a] \/ \E p \in Procs : ReplacedSince(p, a)]_vars

\* What p waits for where it is: the three locks in the order in which they
\* are taken, or nothing.
Awaits(p) ==
    CASE pc[p] = "lease" -> 1
      [] pc[p] = "producer" -> 2
      [] pc[p] \in {"hit", "reserve", "record", "unreserve", "keep", "clear",
                    "policyCheck"} -> 3
      [] OTHER -> 4

Blocks(q, p) ==
    \/ Awaits(p) = 1 /\ writer = q
    \/ Awaits(p) = 2 /\ producer = q
    \/ Awaits(p) = 3 /\ metadata = q

\* Nobody waits in a circle, nor for himself: whoever holds the lock that
\* another waits for waits, if at all, for a later one.
NoCircle == \A p, q \in Procs : Blocks(q, p) => Awaits(p) < Awaits(q)

\* NobodyStalls: of the processes that are busy one can always go on.
NobodyStalls ==
    (\E p \in Procs : pc[p] # "idle") =>
        \E p \in Procs : pc[p] # "idle" /\ \A q \in Procs : ~Blocks(q, p)

\* How many places a process still has before it.
Distance ==
    [lease |-> 13, lookup |-> 12, producer |-> 11, winner |-> 10, reserve |-> 9,
     download |-> 8, publish |-> 7, record |-> 6, saveRow |-> 5,
     unreserve |-> 4, hit |-> 3, saveTouch |-> 2, use |-> 1,
     keep |-> 2, saveKeep |-> 1, cleanup |-> 3, clear |-> 2, unlink |-> 1,
     policy |-> 5, policyProducer |-> 4, policyCheck |-> 3, trim |-> 2,
     saveLimit |-> 1, idle |-> 0]

Nearer(p) ==
    \/ Distance[pc'[p]] < Distance[pc[p]]
    \/ pc'[p] = pc[p] /\ victims'[p] \subseteq victims[p] /\ victims'[p] # victims[p]
    \/ /\ pc'[p] = pc[p] /\ victims'[p] = victims[p]
       /\ checked[p] = None /\ checked'[p] # None

\* No operation goes round: every step of a process brings it nearer to its
\* end, leaves it less to delete or has compared what it deletes next, and
\* nothing that happens meanwhile, to the files or in another process, sends it
\* back.
GoesForward ==
    [][\A p \in Procs :
         /\ Step(p) => Nearer(p)
         /\ pc[p] # "idle" => Nearer(p) \/ UNCHANGED <<pc[p], victims[p], checked[p]>>]_vars

\* The downloads and the executions end.
UntimedStepsEnd == \A p \in Procs : WF_vars(pc[p] \in Untimed /\ Step(p))

\* Whatever a process was started for, it ends if every download and every
\* execution does: nobody keeps a lock that others wait for, and nobody waits
\* in a circle.  A download that stalls keeps producer.lock, and everybody who
\* has to download waits with it: artifacts.py:407, 464, 484 and 602-606 set no
\* timeout.
OperationsEnd ==
    UntimedStepsEnd => \A p \in Procs : pc[p] # "idle" ~> pc[p] = "idle"
=============================================================================
