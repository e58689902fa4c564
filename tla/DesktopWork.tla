---------------------------- MODULE DesktopWork ----------------------------
(***************************************************************************)
(* The supervisor inside the Desktop Runner: the lifecycle lock and the    *)
(* work and maintenance guards of background.rs, the cache lease they      *)
(* carry (cache_lease.rs), the listener of lib.rs, the private benchmark   *)
(* of private_benchmark.rs and the helper processes of lib.rs,             *)
(* storage_controls.rs and gpu_settings.rs.  What the Desktop promises is  *)
(* that no process it supervises survives it and that stopping, cleaning   *)
(* and quitting never meet work they do not know of.                       *)
(*                                                                         *)
(* A guard is owned by the command that took it or, once it was handed     *)
(* over, by the process it is kept for: the listener slot, the private     *)
(* slot and hold_admission_until_terminated all keep one per process.      *)
(***************************************************************************)
EXTENDS Naturals, FiniteSets

CONSTANTS
    Commands,  \* command invocations that may be under way at once
    Pids,      \* process ids; one is free again once its exit was handled
    Kinds,     \* the kinds of command that are invoked
    None,
    MaxLost    \* event channels that close without a Terminated event

Helpers == {"admission", "storage", "trim", "gpu", "history"}
Waited == {"clear", "starter", "keep"}    \* .output().await, no timeout
Tasks == {"work", "listen", "stop", "private"} \union Helpers \union Waited

ASSUME DesktopAssumption ==
    /\ Kinds \subseteq Tasks
    /\ Commands \intersect Pids = {}
    /\ None \notin Commands \union Pids \union {"stopped", "unconfirmed"}
    /\ MaxLost \in Nat

VARIABLES
    life,      \* background.rs: the Lifecycle behind its mutex
    saved,     \* desktop-background.json: keep_running
    alive,     \* the Desktop process runs
    window,    \* its main window
    own,       \* what every command and every process owns
    dropping,  \* the owners whose guard is being dropped
    busy,      \* the BUSY flags of the helper families
    cmd,       \* the command invocations
    proc,      \* the processes
    child,     \* ListenerProcess.child
    stopping,  \* ListenerProcess.stopping
    private,   \* PrivateProcess: child
    excl,      \* holder of the exclusive cache lease
    lost       \* channels lost so far

desktop == <<life, saved, alive, window>>
guards == <<own, dropping, busy>>
slots == <<child, stopping, private>>
vars == <<desktop, guards, cmd, proc, slots, excl, lost>>

Owners == Commands \union Pids
Families == {"admission", "storage", "gpu"}

\* The BUSY flag a helper takes; the private history has none.
Family(kind) == CASE kind = "trim" -> "storage"
                  [] kind \in Families -> kind
                  [] OTHER -> None

\* Cleanups take a MaintenanceGuard, cache status and Keep take nothing.
Maintains(kind) == kind \in {"trim", "clear"}
Cleans(kind) == kind \in {"trim", "clear"}
Supervised(kind) == kind \in {"listen", "private"} \union Helpers

Nothing == [guard |-> "none", lease |-> FALSE, busy |-> None]
Idle == [kind |-> None, pc |-> "idle", pid |-> None, answer |-> None]
Free == [kind |-> None, state |-> "free", open |-> TRUE]

Fresh(tray, keep) ==
    [active |-> 0, maintenance |-> FALSE, exclusive |-> FALSE,
     exiting |-> FALSE, keepRunning |-> keep /\ tray, tray |-> tray]

Init ==
    /\ saved \in BOOLEAN
    /\ \E tray \in BOOLEAN : life = Fresh(tray, saved)
    /\ alive = TRUE
    /\ window = "shown"
    /\ own = [o \in Owners |-> Nothing]
    /\ dropping = {}
    /\ busy = {}
    /\ cmd = [c \in Commands |-> Idle]
    /\ proc = [p \in Pids |-> Free]
    /\ child = None
    /\ stopping = None
    /\ private = None
    /\ excl = None
    /\ lost = 0

-----------------------------------------------------------------------------
(* Building blocks *)

At(c, loc) == cmd[c].pc = loc
Goto(c, loc) == cmd' = [cmd EXCEPT ![c].pc = loc]
Running(p) == proc[p].state = "running"

\* No reader: the exclusive lease is free to be taken.
Unread == \A o \in Owners : ~own[o].lease

\* A slot whose process ended stays locked until its guard is dropped.
SlotOpen(slot) == slot \notin dropping

\* A process whose exit somebody is still to handle.
Awaited(p) ==
    \/ own[p] # Nothing
    \/ \E c \in Commands : At(c, "wait") /\ cmd[c].pid = p

Unused(p) == proc[p] = Free /\ ~Awaited(p) /\ p # child /\ p # private

\* The command returns: what it owns is dropped, field by field.
Return(c) ==
    IF own[c] = Nothing
    THEN cmd' = [cmd EXCEPT ![c] = Idle] /\ UNCHANGED dropping
    ELSE Goto(c, "drop") /\ dropping' = dropping \union {c}

\* A process of this command starts; the command goes on at loc.
Spawn(c, p, loc) ==
    /\ Unused(p)
    /\ proc' = [proc EXCEPT ![p] = [Free EXCEPT !.kind = cmd[c].kind,
                                                !.state = "running"]]
    /\ cmd' = [cmd EXCEPT ![c].pc = loc, ![c].pid = p]

\* What c owns is kept for p from now on, and c returns with empty hands.
HandOver(c, p) ==
    /\ own' = [own EXCEPT ![p] = own[c], ![c] = Nothing]
    /\ cmd' = [cmd EXCEPT ![c] = Idle]
    /\ UNCHANGED dropping

-----------------------------------------------------------------------------
(* Taking guards: WorkGuard::begin, begin_exclusive, MaintenanceGuard::begin *)

Invoke(c, kind) ==
    /\ alive
    /\ At(c, "idle")
    /\ cmd' = [cmd EXCEPT ![c].kind = kind,
          ![c].pc = IF kind = "keep" THEN "spawn"
                    ELSE IF Maintains(kind) THEN "maintain" ELSE "lease"]
    /\ UNCHANGED <<desktop, guards, proc, slots, excl, lost>>

\* Mutant: the guard carries no lease.
TakeNoLease(c) ==
    /\ At(c, "lease")
    /\ Goto(c, "admit")
    /\ UNCHANGED <<desktop, guards, proc, slots, excl, lost>>

\* The shared lease comes first; while a cleanup holds it the command fails.
TakeLease(c) ==
    /\ At(c, "lease")
    /\ IF excl = None
       THEN /\ own' = [own EXCEPT ![c].lease = TRUE]
            /\ Goto(c, "admit")
            /\ UNCHANGED dropping
       ELSE Return(c) /\ UNCHANGED own
    /\ UNCHANGED <<desktop, busy, proc, slots, excl, lost>>

Guarded(c, guard, changed) ==
    /\ life' = changed
    /\ own' = [own EXCEPT ![c].guard = guard]
    /\ Goto(c, IF Family(cmd[c].kind) # None THEN "busy"
               ELSE IF cmd[c].kind \in Helpers \union Waited THEN "spawn"
               ELSE "act")
    /\ UNCHANGED dropping

\* Mutant: one flag is not looked at.
AdmissibleWhileQuitting == ~life.exclusive /\ ~life.maintenance

Admissible == ~life.exclusive /\ ~life.maintenance /\ ~life.exiting

Admit(c) ==
    /\ At(c, "admit")
    /\ cmd[c].kind # "private"
    /\ Admissible
    /\ Guarded(c, "work", [life EXCEPT !.active = @ + 1])
    /\ UNCHANGED <<saved, alive, window, busy, proc, slots, excl, lost>>

AdmitExclusive(c) ==
    /\ At(c, "admit")
    /\ cmd[c].kind = "private"
    /\ Admissible /\ life.active = 0
    /\ Guarded(c, "exclusive", [life EXCEPT !.active = 1, !.exclusive = TRUE])
    /\ UNCHANGED <<saved, alive, window, busy, proc, slots, excl, lost>>

\* Mutant: only active work refuses it.
BeginMaintenanceWhileQuitting(c) ==
    /\ At(c, "maintain")
    /\ life.active = 0
    /\ Guarded(c, "maintenance",
               [life EXCEPT !.active = 1, !.maintenance = TRUE])
    /\ UNCHANGED <<saved, alive, window, busy, proc, slots, excl, lost>>

BeginMaintenance(c) ==
    /\ At(c, "maintain")
    /\ life.active = 0 /\ ~life.exiting
    /\ Guarded(c, "maintenance",
               [life EXCEPT !.active = 1, !.maintenance = TRUE])
    /\ UNCHANGED <<saved, alive, window, busy, proc, slots, excl, lost>>

RefuseAdmission(c) ==
    /\ \/ At(c, "admit") /\ ~Admissible
       \/ At(c, "admit") /\ cmd[c].kind = "private" /\ life.active > 0
       \/ At(c, "maintain") /\ (life.active > 0 \/ life.exiting)
    /\ Return(c)
    /\ UNCHANGED <<desktop, own, busy, proc, slots, excl, lost>>

\* The compare_exchange of the helper families.  The guard of a family exists
\* only when it succeeded: a refused command does not reset the flag.
TakeBusy(c) ==
    /\ At(c, "busy")
    /\ Family(cmd[c].kind) \notin busy
    /\ busy' = busy \union {Family(cmd[c].kind)}
    /\ own' = [own EXCEPT ![c].busy = Family(cmd[c].kind)]
    /\ Goto(c, "spawn")
    /\ UNCHANGED <<desktop, dropping, proc, slots, excl, lost>>

RefuseBusy(c) ==
    /\ At(c, "busy")
    /\ Family(cmd[c].kind) \in busy
    /\ Return(c)
    /\ UNCHANGED <<desktop, own, busy, proc, slots, excl, lost>>

-----------------------------------------------------------------------------
(* Dropping guards: the fields of the owner in the order of their Drops     *)

\* The owner has nothing left when r is Nothing: a command has returned, the
\* mutex of a slot is released with the slot empty.
Settle(o, r) ==
    /\ own' = [own EXCEPT ![o] = r]
    /\ IF r = Nothing
       THEN /\ dropping' = dropping \ {o}
            /\ cmd' = IF o \in Commands THEN [cmd EXCEPT ![o] = Idle] ELSE cmd
            /\ child' = IF child = o THEN None ELSE child
            /\ private' = IF private = o THEN None ELSE private
       ELSE UNCHANGED <<dropping, cmd, child, private>>

DropBusy(o) ==
    /\ o \in dropping
    /\ own[o].busy # None
    /\ busy' = busy \ {own[o].busy}
    /\ Settle(o, [own[o] EXCEPT !.busy = None])
    /\ UNCHANGED <<desktop, proc, stopping, excl, lost>>

\* saturating_sub; the count goes down while the lease is still held.
DropGuard(o) ==
    /\ o \in dropping
    /\ own[o].busy = None
    /\ own[o].guard # "none"
    /\ life' = [life EXCEPT
          !.active = IF @ = 0 THEN 0 ELSE @ - 1,
          !.exclusive = @ /\ own[o].guard # "exclusive",
          !.maintenance = @ /\ own[o].guard # "maintenance"]
    /\ Settle(o, [own[o] EXCEPT !.guard = "none"])
    /\ UNCHANGED <<saved, alive, window, busy, proc, stopping, excl, lost>>

DropLease(o) ==
    /\ o \in dropping
    /\ own[o].busy = None
    /\ own[o].guard = "none"
    /\ own[o].lease
    /\ Settle(o, Nothing)
    /\ UNCHANGED <<desktop, busy, proc, stopping, excl, lost>>

-----------------------------------------------------------------------------
(* The commands                                                             *)

\* Work that ends by itself: catalog refresh, installation, first run, upload,
\* settings, login entry, notification.
FinishWork(c) ==
    /\ At(c, "act")
    /\ cmd[c].kind = "work"
    /\ Return(c)
    /\ UNCHANGED <<desktop, own, busy, proc, slots, excl, lost>>

\* Mutant: a start under a stop; a start that keeps its guard to itself.
StartBesideStop(c, p) ==
    /\ At(c, "act")
    /\ cmd[c].kind = "listen"
    /\ child = None
    /\ Unused(p)
    /\ proc' = [proc EXCEPT ![p] = [Free EXCEPT !.kind = "listen",
                                                !.state = "running"]]
    /\ HandOver(c, p)
    /\ child' = p
    /\ UNCHANGED <<desktop, busy, stopping, private, excl, lost>>

StartWithoutGuard(c, p) ==
    /\ At(c, "act")
    /\ cmd[c].kind = "listen"
    /\ child = None
    /\ stopping = None
    /\ Unused(p)
    /\ proc' = [proc EXCEPT ![p] = [Free EXCEPT !.kind = "listen",
                                                !.state = "running"]]
    /\ Return(c)
    /\ child' = p
    /\ UNCHANGED <<desktop, own, busy, stopping, private, excl, lost>>

\* start_runner_listener under the mutex of the slot.
StartListener(c, p) ==
    /\ At(c, "act")
    /\ cmd[c].kind = "listen"
    /\ child = None
    /\ stopping = None
    /\ Unused(p)
    /\ proc' = [proc EXCEPT ![p] = [Free EXCEPT !.kind = "listen",
                                                !.state = "running"]]
    /\ HandOver(c, p)
    /\ child' = p
    /\ UNCHANGED <<desktop, busy, stopping, private, excl, lost>>

\* Already running, still stopping, not paired, or the spawn failed.
ListenerRefused(c) ==
    /\ At(c, "act")
    /\ cmd[c].kind = "listen"
    /\ SlotOpen(child)
    /\ Return(c)
    /\ UNCHANGED <<desktop, own, busy, proc, slots, excl, lost>>

StartPrivate(c, p) ==
    /\ At(c, "act")
    /\ cmd[c].kind = "private"
    /\ private = None
    /\ Unused(p)
    /\ proc' = [proc EXCEPT ![p] = [Free EXCEPT !.kind = "private",
                                                !.state = "running"]]
    /\ HandOver(c, p)
    /\ private' = p
    /\ UNCHANGED <<desktop, busy, child, stopping, excl, lost>>

PrivateRefused(c) ==
    /\ At(c, "act")
    /\ cmd[c].kind = "private"
    /\ SlotOpen(private)
    /\ Return(c)
    /\ UNCHANGED <<desktop, own, busy, proc, slots, excl, lost>>

\* stop_runner_listener: the fence, the request, up to 300 looks at the slot.
RaiseFence(c) ==
    /\ At(c, "act")
    /\ cmd[c].kind = "stop"
    /\ SlotOpen(child)
    /\ IF child = None \/ stopping # None
       THEN Return(c) /\ UNCHANGED stopping
       ELSE /\ stopping' = child
            /\ cmd' = [cmd EXCEPT ![c].pc = "request", ![c].pid = child]
            /\ UNCHANGED dropping
    /\ UNCHANGED <<desktop, own, busy, proc, child, private, excl, lost>>

\* The signal itself changes nothing here: a listener may end at any time.
RequestStop(c) ==
    /\ At(c, "request")
    /\ SlotOpen(child)
    /\ \/ child \in {None, cmd[c].pid} /\ Goto(c, "poll")
       \/ child # None /\ Goto(c, "unfence")
    /\ UNCHANGED <<desktop, guards, proc, slots, excl, lost>>

ConfirmStop(c) ==
    /\ At(c, "poll")
    /\ SlotOpen(child)
    /\ child # cmd[c].pid
    /\ cmd' = [cmd EXCEPT ![c].pc = "unfence", ![c].answer = "stopped"]
    /\ UNCHANGED <<desktop, guards, proc, slots, excl, lost>>

\* Mutant: the loop ends only with the listener.
StopWaitsForever(c) ==
    /\ At(c, "poll")
    /\ child # cmd[c].pid
    /\ cmd' = [cmd EXCEPT ![c].pc = "unfence", ![c].answer = "unconfirmed"]
    /\ UNCHANGED <<desktop, guards, proc, slots, excl, lost>>

StopTimesOut(c) ==
    /\ At(c, "poll")
    /\ cmd' = [cmd EXCEPT ![c].pc = "unfence", ![c].answer = "unconfirmed"]
    /\ UNCHANGED <<desktop, guards, proc, slots, excl, lost>>

LowerFence(c) ==
    /\ At(c, "unfence")
    /\ stopping' = IF stopping = cmd[c].pid THEN None ELSE stopping
    /\ Return(c)
    /\ UNCHANGED <<desktop, own, busy, proc, child, private, excl, lost>>

\* Helpers and .output() commands spawn and wait for Terminated.
SpawnHelper(c, p) ==
    /\ At(c, "spawn")
    /\ Spawn(c, p, "wait")
    /\ UNCHANGED <<desktop, guards, slots, excl, lost>>

SpawnFails(c) ==
    /\ At(c, "spawn")
    /\ Return(c)
    /\ UNCHANGED <<desktop, own, busy, proc, slots, excl, lost>>

HelperEnds(c) ==
    /\ At(c, "wait")
    /\ LET p == cmd[c].pid IN
         /\ proc[p].state = "exited"
         /\ proc[p].open
         /\ proc' = [proc EXCEPT ![p] = Free]
    /\ Return(c)
    /\ UNCHANGED <<desktop, own, busy, slots, excl, lost>>

\* Mutant: the guard goes with the command.
GiveUpGuard(c) ==
    /\ At(c, "wait")
    /\ cmd[c].kind \in Helpers
    /\ Return(c)
    /\ UNCHANGED <<desktop, own, busy, proc, slots, excl, lost>>

\* Timeout, an Error event, too much output or a closed channel: the helper
\* is killed and its guard kept until it is known to have terminated.
GiveUp(c) ==
    /\ At(c, "wait")
    /\ cmd[c].kind \in Helpers
    /\ HandOver(c, cmd[c].pid)
    /\ UNCHANGED <<desktop, busy, proc, slots, excl, lost>>

\* .output() ends with its channel, whatever became of the process.
OutputEnds(c) ==
    /\ At(c, "wait")
    /\ cmd[c].kind \in Waited
    /\ ~proc[cmd[c].pid].open
    /\ Return(c)
    /\ UNCHANGED <<desktop, own, busy, proc, slots, excl, lost>>

-----------------------------------------------------------------------------
(* Processes and their events                                               *)

\* Terminated reaches the task that keeps a guard for p: the event loops of
\* the listener and of the private benchmark, hold_admission_until_terminated.
HandleTerminated(p) ==
    /\ own[p] # Nothing
    /\ p \notin dropping
    /\ proc[p].state = "exited"
    /\ proc[p].open
    /\ proc' = [proc EXCEPT ![p] = Free]
    /\ dropping' = dropping \union {p}
    /\ UNCHANGED <<desktop, own, busy, cmd, slots, excl, lost>>

\* A process ends by itself, after a signal or after a kill.
Exit(p) ==
    /\ Running(p)
    /\ proc' = [proc EXCEPT ![p].state = "exited"]
    /\ excl' = IF excl = p THEN None ELSE excl
    /\ UNCHANGED <<desktop, guards, cmd, slots, lost>>

\* Waiting for the process failed: its channel closes without Terminated.
LoseChannel(p) ==
    /\ Running(p)
    /\ proc[p].open
    /\ lost < MaxLost
    /\ lost' = lost + 1
    /\ proc' = [proc EXCEPT ![p].open = FALSE]
    /\ UNCHANGED <<desktop, guards, cmd, slots, excl>>

Reap(p) ==
    /\ proc[p].state = "exited"
    /\ ~Awaited(p)
    /\ proc' = [proc EXCEPT ![p] = Free]
    /\ UNCHANGED <<desktop, guards, cmd, slots, excl, lost>>

\* The cleanup in a clear or trim process takes the lease without waiting.
TakeExclusive(p) ==
    /\ Running(p)
    /\ Cleans(proc[p].kind)
    /\ excl = None
    /\ Unread
    /\ excl' = p
    /\ UNCHANGED <<desktop, guards, cmd, proc, slots, lost>>

\* A cleanup from the command line, outside the Desktop.
OtherCleanup ==
    /\ \/ excl = None /\ Unread /\ excl' = "cli"
       \/ excl = "cli" /\ excl' = None
    /\ UNCHANGED <<desktop, guards, cmd, proc, slots, lost>>

-----------------------------------------------------------------------------
(* The window and the end of the Desktop                                    *)

CanHide == life.keepRunning /\ life.tray

CloseWindow ==
    /\ alive
    /\ window = "shown"
    /\ \/ /\ CanHide
          /\ window' = "hidden"
          /\ UNCHANGED life
       \/ /\ ~CanHide
          /\ life.active = 0
          /\ life' = [life EXCEPT !.exiting = TRUE]
          /\ window' = "closed"
    /\ UNCHANGED <<saved, alive, guards, cmd, proc, slots, excl, lost>>

\* The tray, or a second start of the application.
ShowWindow ==
    /\ alive
    /\ window = "hidden"
    /\ window' = "shown"
    /\ UNCHANGED <<life, saved, alive, guards, cmd, proc, slots, excl, lost>>

SetKeepRunning(enabled) ==
    /\ alive
    /\ enabled => life.tray
    /\ ~life.exiting
    /\ saved' = enabled
    /\ life' = [life EXCEPT !.keepRunning = enabled]
    /\ UNCHANGED <<alive, window, guards, cmd, proc, slots, excl, lost>>

\* ExitRequested: Quit in the tray, the OS, or the last window closed.  What
\* the Desktop process owned goes with it; child processes do not.
RequestExit ==
    /\ alive
    /\ IF life.active > 0
       THEN /\ window' = IF window = "closed" THEN "closed" ELSE "shown"
            /\ UNCHANGED <<life, alive, guards, cmd, slots>>
       ELSE /\ life' = [life EXCEPT !.exiting = TRUE]
            /\ alive' = FALSE
            /\ window' = "closed"
            /\ own' = [o \in Owners |-> Nothing]
            /\ dropping' = {}
            /\ busy' = {}
            /\ cmd' = [c \in Commands |-> Idle]
            /\ child' = None
            /\ stopping' = None
            /\ private' = None
    /\ UNCHANGED <<saved, proc, excl, lost>>

Relaunch ==
    /\ ~alive
    /\ \E tray \in BOOLEAN : life' = Fresh(tray, saved)
    /\ alive' = TRUE
    /\ window' = "shown"
    /\ UNCHANGED <<saved, guards, cmd, proc, slots, excl, lost>>

-----------------------------------------------------------------------------
Step(c) ==
    \/ TakeLease(c) \/ Admit(c) \/ AdmitExclusive(c) \/ BeginMaintenance(c)
    \/ RefuseAdmission(c) \/ TakeBusy(c) \/ RefuseBusy(c)
    \/ FinishWork(c) \/ ListenerRefused(c) \/ PrivateRefused(c)
    \/ \E p \in Pids : StartListener(c, p) \/ StartPrivate(c, p)
    \/ \E p \in Pids : SpawnHelper(c, p)
    \/ RaiseFence(c) \/ RequestStop(c) \/ ConfirmStop(c) \/ StopTimesOut(c)
    \/ LowerFence(c) \/ SpawnFails(c) \/ HelperEnds(c) \/ GiveUp(c)
    \/ OutputEnds(c)

Drop(o) == DropBusy(o) \/ DropGuard(o) \/ DropLease(o)

Happens(p) ==
    \/ HandleTerminated(p) \/ Exit(p) \/ LoseChannel(p) \/ Reap(p)
    \/ TakeExclusive(p)

Next ==
    \/ \E c \in Commands : Step(c) \/ \E kind \in Kinds : Invoke(c, kind)
    \/ \E o \in Owners : Drop(o)
    \/ \E p \in Pids : Happens(p)
    \/ OtherCleanup
    \/ CloseWindow \/ ShowWindow \/ RequestExit \/ Relaunch
    \/ \E enabled \in BOOLEAN : SetKeepRunning(enabled)

Spec == Init /\ [][Next]_vars

\* The steps that wait for the mutex of a slot.
SlotStep(c) ==
    \/ ListenerRefused(c) \/ PrivateRefused(c) \/ RaiseFence(c) \/ RequestStop(c)
    \/ \E p \in Pids : StartListener(c, p) \/ StartPrivate(c, p)

\* The async runtime runs every command and every drop; a mutex that is
\* released again and again is granted in the end; the toolkit requests the
\* exit when the last window is destroyed; a cleanup, download or Keep
\* process, which nothing times out, ends.
FairSpec ==
    /\ Spec
    /\ \A c \in Commands : WF_vars(Step(c)) /\ SF_vars(SlotStep(c))
    /\ \A o \in Owners : WF_vars(Drop(o))
    /\ \A p \in Pids : WF_vars(proc[p].kind \in Waited /\ Exit(p))
    /\ WF_vars(window = "closed" /\ RequestExit)

-----------------------------------------------------------------------------
Guard == {"none", "work", "exclusive", "maintenance"}
Location == {"idle", "lease", "admit", "maintain", "busy", "act", "spawn",
             "wait", "request", "poll", "unfence", "drop"}
Holders == {o \in Owners : own[o].guard # "none"}

\* The types of the variables.
TypeOK ==
    /\ life \in [active : Nat, maintenance : BOOLEAN, exclusive : BOOLEAN,
                 exiting : BOOLEAN, keepRunning : BOOLEAN, tray : BOOLEAN]
    /\ saved \in BOOLEAN
    /\ alive \in BOOLEAN
    /\ window \in {"shown", "hidden", "closed"}
    /\ own \in [Owners -> [guard : Guard, lease : BOOLEAN,
                           busy : Families \union {None}]]
    /\ dropping \subseteq Owners
    /\ busy \subseteq Families
    /\ cmd \in [Commands -> [kind : Kinds \union {None}, pc : Location,
                             pid : Pids \union {None},
                             answer : {None, "stopped", "unconfirmed"}]]
    /\ proc \in [Pids -> [kind : Kinds \union {None}, open : BOOLEAN,
                          state : {"free", "running", "exited"}]]
    /\ child \in Pids \union {None}
    /\ stopping \in Pids \union {None}
    /\ private \in Pids \union {None}
    /\ excl \in Pids \union {None, "cli"}
    /\ lost \in 0..MaxLost

\* The counter and the flags of Lifecycle say exactly which guards live, over
\* every admission, refusal, hand-over, drop and exit (background.rs:25-135);
\* saturating_sub would hide a count that is off by one.
GuardsExact ==
    /\ life.active = Cardinality(Holders)
    /\ life.exclusive <=> \E o \in Owners : own[o].guard = "exclusive"
    /\ life.maintenance <=> \E o \in Owners : own[o].guard = "maintenance"

\* A private benchmark and a maintenance run next to no other work, whichever
\* command or process keeps its guard (background.rs:27-48, 116-126).
Alone ==
    \A o, q \in Owners :
        /\ own[o].guard \in {"exclusive", "maintenance"}
        /\ q # o
        => own[q].guard = "none"

\* "A hidden window must never be an orphaned job" (background.rs:1): a
\* listener, a private benchmark or a helper runs only while a guard is kept
\* for it, also after a timeout, a failed stop, a lost channel and an exit.
NoOrphan ==
    \A p \in Pids :
        Running(p) /\ Supervised(proc[p].kind) =>
            \E o \in Owners :
                /\ o = p \/ (o \in Commands /\ At(o, "wait") /\ cmd[o].pid = p)
                /\ own[o].guard # "none"
                /\ o \notin dropping

\* stop_runner_listener takes a WorkGuard first (lib.rs:664): nothing that
\* refuses one can hold while there is a listener to stop.
StopIsAdmitted ==
    child # None /\ SlotOpen(child) => Admissible /\ excl = None

\* The confirmation of a stop is true of the slot, not only of the process id
\* it was asked for (lib.rs:700-709): a start during the stop is fenced off.
StoppedMeansIdle ==
    [][\A c \in Commands :
         cmd'[c].answer = "stopped" /\ cmd[c].answer # "stopped"
            => child = None]_vars

\* Deletion and native execution share one lock (cache_lease.rs:1): no
\* cleanup, of the Desktop or of another process, deletes while work or a
\* private benchmark is admitted.
CleanupSeesNoWork ==
    excl # None =>
        \A o \in Owners : own[o].guard \notin {"work", "exclusive"}

\* The fence of an idle close (background.rs:57-65): once the Desktop is
\* quitting no work is admitted, so that the exit that follows is granted.
ExitIsFinal == life.exiting => life.active = 0

\* Between supervised processes the guards keep apart what must not meet: a
\* private benchmark or a trim runs without any other, a listener without a
\* second one, and of each helper family one runs at a time, also while one
\* that timed out is being killed (background.rs:27-48, 116-126, lib.rs:1932-1960,
\* storage_controls.rs:7-35).
KeptApart ==
    \A p, q \in Pids :
        /\ p # q
        /\ Running(p) /\ Supervised(proc[p].kind)
        /\ Running(q) /\ Supervised(proc[q].kind)
        => /\ proc[p].kind \notin {"private", "trim"}
           /\ proc[p].kind = "listen" => proc[q].kind # "listen"
           /\ Family(proc[p].kind) # None => Family(proc[q].kind) # Family(proc[p].kind)

\* A listener or a private benchmark that runs is the one in its slot: what
\* the user stops there is what runs (lib.rs:524-713,
\* private_benchmark.rs:145-259).
SlotsTell ==
    \A p \in Pids :
        Running(p) => /\ proc[p].kind = "listen" => child = p
                      /\ proc[p].kind = "private" => private = p

\* A counter and three flags keep the gate of WorkGate (background.rs:25-135):
\* over every admission, refusal, hand-over, drop, close, exit and relaunch,
\* what they let in is what nobody's guard forbids, no guard is lost on its
\* way to a process, and once the Desktop is quitting it grants none.
Gate == INSTANCE WorkGate WITH
    held <- [o \in Owners |-> own[o].guard],
    phase <- IF ~alive THEN "gone" ELSE IF life.exiting THEN "quitting" ELSE "open"

ImplementsGate == Gate!Spec

\* A command has something to do by itself ...
SlotOf(c) == IF cmd[c].kind = "private" THEN private ELSE child
Ready(c) ==
    \/ cmd[c].pc \in {"lease", "admit", "maintain", "busy", "spawn", "poll", "unfence"}
    \/ At(c, "act") /\ (cmd[c].kind = "work" \/ SlotOpen(SlotOf(c)))
    \/ At(c, "request") /\ SlotOpen(child)
    \/ At(c, "wait") /\ \/ cmd[c].kind \in Helpers
                        \/ proc[cmd[c].pid].state = "exited"
                        \/ ~proc[cmd[c].pid].open
    \/ At(c, "drop") /\ c \in dropping /\ own[c] # Nothing

\* ... or waits for one who does not wait for it: for the task that drops what
\* the process of a slot owned, or for an output that goes on.  Mutexes, BUSY
\* flags, leases and processes never make a circle of commands.
NobodyStalls ==
    \A c \in Commands : ~At(c, "idle") =>
        \/ Ready(c)
        \/ /\ cmd[c].pc \in {"act", "request"}
           /\ SlotOf(c) \in Pids \intersect dropping
           /\ own[SlotOf(c)] # Nothing
        \/ At(c, "wait") /\ cmd[c].kind \in Waited /\ Running(cmd[c].pid)

\* The steps a command has at most before it, its drops one by one.
DropsLeft(o) ==
    (IF own[o].busy # None THEN 1 ELSE 0)
    + (IF own[o].guard # "none" THEN 1 ELSE 0) + (IF own[o].lease THEN 1 ELSE 0)
StepsAt == [idle |-> 0, wait |-> 4, unfence |-> 4, spawn |-> 5, poll |-> 5, request |-> 6,
            act |-> 7, busy |-> 8, admit |-> 9, maintain |-> 9, lease |-> 10]
StepsLeft(c) == IF At(c, "drop") THEN DropsLeft(c) ELSE StepsAt[cmd[c].pc]

\* Every step of a command, also those the end of its process or of the Desktop
\* makes for it, brings it nearer its return, and nobody else's step sends it
\* back: with NobodyStalls and fairness this is what CommandsReturn rests on.
CommandsShrink ==
    [][\A c \in Commands : StepsLeft(c) > 0 =>
          StepsLeft(c)' < StepsLeft(c) \/ UNCHANGED <<cmd[c], own[c]>>]_vars

\* A Desktop that nobody can see may exit at once: nothing it has admitted
\* keeps it, what ClosedQuits rests on.
ClosedIsFree == window = "closed" /\ alive => life.exiting /\ life.active = 0

\* Every command returns, whatever its process, its listener and the other
\* commands do.
CommandsReturn == \A c \in Commands : ~At(c, "idle") ~> At(c, "idle")

\* A closed window is followed by the end of the Desktop: there is no running
\* Desktop that nobody can see.
ClosedQuits == window = "closed" ~> ~alive
=============================================================================
