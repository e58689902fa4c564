-------------------------- MODULE DesktopWorkProofs --------------------------
(* Safety of DesktopWork for any commands, processes, kinds of command and   *)
(* lost channels.                                                            *)
EXTENDS DesktopWork, FiniteSetTheorems, TLAPS

-----------------------------------------------------------------------------
(* Types.                                                                    *)

LifeTyped == life \in [active : Nat, maintenance : BOOLEAN, exclusive : BOOLEAN,
                        exiting : BOOLEAN, keepRunning : BOOLEAN, tray : BOOLEAN]
OwnTyped == own \in [Owners -> [guard : Guard, lease : BOOLEAN,
                                 busy : Families \union {None}]]
CmdTyped == cmd \in [Commands -> [kind : Kinds \union {None}, pc : Location,
                                   pid : Pids \union {None},
                                   answer : {None, "stopped", "unconfirmed"}]]
ProcTyped == proc \in [Pids -> [kind : Kinds \union {None}, open : BOOLEAN,
                                 state : {"free", "running", "exited"}]]
SlotsTyped == /\ child \in Pids \union {None}
              /\ stopping \in Pids \union {None}
              /\ private \in Pids \union {None}

\* What changes the lifecycle.
LEMMA LifeChange ==
  ASSUME [Next]_vars
  PROVE  \/ UNCHANGED <<life>>
         \/ \E c \in Commands :
               \/ Admit(c) \/ AdmitExclusive(c) \/ BeginMaintenance(c)
         \/ \E o \in Owners :
               \/ DropGuard(o)
         \/ CloseWindow \/ RequestExit \/ Relaunch
         \/ \E enabled \in BOOLEAN :
               \/ SetKeepRunning(enabled)
  BY ZenonT(60) DEF Next, Step, Drop, Happens, desktop, guards, slots, Invoke, TakeLease,
         RefuseAdmission, TakeBusy, RefuseBusy, FinishWork, ListenerRefused,
         PrivateRefused, RaiseFence, RequestStop, ConfirmStop, StopTimesOut,
         LowerFence, SpawnFails, HelperEnds, GiveUp, OutputEnds,
         StartListener, StartPrivate, SpawnHelper, DropBusy, DropLease,
         HandleTerminated, Exit, LoseChannel, Reap, TakeExclusive,
         OtherCleanup, ShowWindow, vars

LEMMA LifeStep ==
  ASSUME LifeTyped, [Next]_vars
  PROVE  LifeTyped'
<1>. USE DEF LifeTyped
<1>1. ASSUME NEW c \in Commands,
             Admit(c)
      PROVE  LifeTyped'
  BY <1>1 DEF Admit, At, Goto, Guarded, Admissible
<1>2. ASSUME NEW c \in Commands,
             AdmitExclusive(c)
      PROVE  LifeTyped'
  BY <1>2 DEF AdmitExclusive, At, Goto, Guarded, Admissible
<1>3. ASSUME NEW c \in Commands,
             BeginMaintenance(c)
      PROVE  LifeTyped'
  BY <1>3 DEF BeginMaintenance, At, Goto, Guarded
<1>4. ASSUME NEW o \in Owners,
             DropGuard(o)
      PROVE  LifeTyped'
  <2>1. \A n \in Nat, x, m \in BOOLEAN :
            [life EXCEPT !.active = n, !.exclusive = x, !.maintenance = m] \in
                [active : Nat, maintenance : BOOLEAN, exclusive : BOOLEAN,
                 exiting : BOOLEAN, keepRunning : BOOLEAN, tray : BOOLEAN]
    OBVIOUS
  <2>2. /\ (IF life.active = 0 THEN 0 ELSE life.active - 1) \in Nat
        /\ (life.exclusive /\ own[o].guard # "exclusive") \in BOOLEAN
        /\ (life.maintenance /\ own[o].guard # "maintenance") \in BOOLEAN
    OBVIOUS
  <2>3. \E n \in Nat, x, m \in BOOLEAN :
            life' = [life EXCEPT !.active = n, !.exclusive = x, !.maintenance = m]
    BY <1>4, <2>2, Zenon DEF DropGuard
  <2>. QED
    BY <2>1, <2>3, ZenonT(60) DEF LifeTyped
<1>5. CASE CloseWindow
  BY <1>5 DEF CloseWindow, CanHide
<1>6. ASSUME NEW enabled \in BOOLEAN,
             SetKeepRunning(enabled)
      PROVE  LifeTyped'
  BY <1>6 DEF SetKeepRunning
<1>7. CASE RequestExit
  BY <1>7 DEF RequestExit, guards, slots
<1>8. CASE Relaunch
  BY <1>8 DEF Relaunch, Fresh
<1>9. CASE UNCHANGED <<life>>
  BY <1>9
<1>. QED
  BY LifeChange, <1>1, <1>2, <1>3, <1>4, <1>5, <1>6, <1>7, <1>8, <1>9

\* What changes the guards.
LEMMA OwnChange ==
  ASSUME [Next]_vars
  PROVE  \/ UNCHANGED <<own>>
         \/ \E c \in Commands :
               \/ TakeLease(c) \/ Admit(c) \/ AdmitExclusive(c)
               \/ BeginMaintenance(c) \/ TakeBusy(c) \/ GiveUp(c)
         \/ \E c \in Commands : \E p \in Pids :
               \/ StartListener(c, p) \/ StartPrivate(c, p)
         \/ \E o \in Owners :
               \/ DropBusy(o) \/ DropGuard(o) \/ DropLease(o)
         \/ RequestExit
  BY DEF Next, Step, Drop, Happens, desktop, guards, slots, Invoke,
         RefuseAdmission, RefuseBusy, FinishWork, ListenerRefused,
         PrivateRefused, RaiseFence, RequestStop, ConfirmStop, StopTimesOut,
         LowerFence, SpawnFails, HelperEnds, OutputEnds, SpawnHelper,
         HandleTerminated, Exit, LoseChannel, Reap, TakeExclusive,
         OtherCleanup, CloseWindow, ShowWindow, SetKeepRunning, Relaunch, vars

LEMMA OwnStep ==
  ASSUME OwnTyped, CmdTyped, [Next]_vars
  PROVE  OwnTyped'
<1>0. \A c \in Commands : c \in Owners
      /\ Pids \subseteq Owners
  BY DEF Owners
<1>. USE <1>0 DEF OwnTyped, Guard, Nothing
<1>1. ASSUME NEW c \in Commands,
             TakeLease(c)
      PROVE  OwnTyped'
  BY <1>1, ZenonT(60) DEF TakeLease, At, Goto, Return
<1>2. ASSUME NEW c \in Commands,
             Admit(c)
      PROVE  OwnTyped'
  BY <1>2 DEF Admit, At, Goto, Guarded, Admissible
<1>3. ASSUME NEW c \in Commands,
             AdmitExclusive(c)
      PROVE  OwnTyped'
  BY <1>3 DEF AdmitExclusive, At, Goto, Guarded, Admissible
<1>4. ASSUME NEW c \in Commands,
             BeginMaintenance(c)
      PROVE  OwnTyped'
  BY <1>4 DEF BeginMaintenance, At, Goto, Guarded
<1>5. ASSUME NEW c \in Commands,
             TakeBusy(c)
      PROVE  OwnTyped'
  <2>1. Family(cmd[c].kind) \in Families \union {None}
    BY DEF Family, Families
  <2>. QED
    BY <1>5, <2>1 DEF TakeBusy
<1>6. ASSUME NEW c \in Commands,
             GiveUp(c)
      PROVE  OwnTyped'
  BY <1>6 DEF GiveUp, At, HandOver
<1>7. ASSUME NEW c \in Commands, NEW p \in Pids,
             StartListener(c, p)
      PROVE  OwnTyped'
  BY <1>7 DEF StartListener, At, Unused, Free, HandOver
<1>8. ASSUME NEW c \in Commands, NEW p \in Pids,
             StartPrivate(c, p)
      PROVE  OwnTyped'
  BY <1>8 DEF StartPrivate, At, Unused, Free, HandOver
<1>9. ASSUME NEW o \in Owners,
             DropBusy(o)
      PROVE  OwnTyped'
  BY <1>9 DEF DropBusy, Settle
<1>10. ASSUME NEW o \in Owners,
             DropGuard(o)
      PROVE  OwnTyped'
  BY <1>10 DEF DropGuard, Settle
<1>11. ASSUME NEW o \in Owners,
             DropLease(o)
      PROVE  OwnTyped'
  BY <1>11 DEF DropLease, Settle
<1>12. CASE RequestExit
  <2>1. Nothing \in [guard : Guard, lease : BOOLEAN, busy : Families \union {None}]
    OBVIOUS
  <2>2. own' = own \/ own' = [o \in Owners |-> Nothing]
    BY <1>12 DEF RequestExit, guards
  <2>. QED
    BY <2>1, <2>2 DEF OwnTyped
<1>13. CASE UNCHANGED <<own>>
  BY <1>13
<1>. QED
  BY OwnChange, <1>1, <1>2, <1>3, <1>4, <1>5, <1>6, <1>7, <1>8, <1>9, <1>10,
     <1>11, <1>12, <1>13

\* What changes the commands.
LEMMA CmdChange ==
  ASSUME [Next]_vars
  PROVE  \/ UNCHANGED <<cmd>>
         \/ \E c \in Commands : \E kind \in Kinds :
               \/ Invoke(c, kind)
         \/ \E c \in Commands :
               \/ TakeLease(c) \/ Admit(c) \/ AdmitExclusive(c)
               \/ BeginMaintenance(c) \/ RefuseAdmission(c) \/ TakeBusy(c)
               \/ RefuseBusy(c) \/ FinishWork(c) \/ ListenerRefused(c)
               \/ PrivateRefused(c) \/ RaiseFence(c) \/ RequestStop(c)
               \/ ConfirmStop(c) \/ StopTimesOut(c) \/ LowerFence(c)
               \/ SpawnFails(c) \/ HelperEnds(c) \/ GiveUp(c) \/ OutputEnds(c)
         \/ \E c \in Commands : \E p \in Pids :
               \/ StartListener(c, p) \/ StartPrivate(c, p)
               \/ SpawnHelper(c, p)
         \/ \E o \in Owners :
               \/ DropBusy(o) \/ DropGuard(o) \/ DropLease(o)
         \/ RequestExit
  BY DEF Next, Step, Drop, Happens, desktop, guards, slots, HandleTerminated,
         Exit, LoseChannel, Reap, TakeExclusive, OtherCleanup, CloseWindow,
         ShowWindow, SetKeepRunning, Relaunch, vars

LEMMA CmdStep ==
  ASSUME CmdTyped, SlotsTyped, [Next]_vars
  PROVE  CmdTyped'
<1>. USE DEF CmdTyped, Location, Idle, SlotsTyped
<1>1. ASSUME NEW c \in Commands, NEW kind \in Kinds,
             Invoke(c, kind)
      PROVE  CmdTyped'
  BY <1>1 DEF Invoke, At
<1>2. ASSUME NEW c \in Commands,
             TakeLease(c)
      PROVE  CmdTyped'
  BY <1>2 DEF TakeLease, At, Goto, Return
<1>3. ASSUME NEW c \in Commands,
             Admit(c)
      PROVE  CmdTyped'
  BY <1>3 DEF Admit, At, Goto, Guarded, Admissible
<1>4. ASSUME NEW c \in Commands,
             AdmitExclusive(c)
      PROVE  CmdTyped'
  BY <1>4 DEF AdmitExclusive, At, Goto, Guarded, Admissible
<1>5. ASSUME NEW c \in Commands,
             BeginMaintenance(c)
      PROVE  CmdTyped'
  BY <1>5 DEF BeginMaintenance, At, Goto, Guarded
<1>6. ASSUME NEW c \in Commands,
             RefuseAdmission(c)
      PROVE  CmdTyped'
  BY <1>6 DEF RefuseAdmission, At, Return, Goto
<1>7. ASSUME NEW c \in Commands,
             TakeBusy(c)
      PROVE  CmdTyped'
  BY <1>7 DEF TakeBusy, At, Goto
<1>8. ASSUME NEW c \in Commands,
             RefuseBusy(c)
      PROVE  CmdTyped'
  BY <1>8 DEF RefuseBusy, At, Return, Goto
<1>9. ASSUME NEW c \in Commands,
             FinishWork(c)
      PROVE  CmdTyped'
  BY <1>9 DEF FinishWork, At, Return, Goto
<1>10. ASSUME NEW c \in Commands,
             ListenerRefused(c)
      PROVE  CmdTyped'
  BY <1>10 DEF ListenerRefused, At, Return, Goto
<1>11. ASSUME NEW c \in Commands,
             PrivateRefused(c)
      PROVE  CmdTyped'
  BY <1>11 DEF PrivateRefused, At, Return, Goto
<1>12. ASSUME NEW c \in Commands,
             RaiseFence(c)
      PROVE  CmdTyped'
  BY <1>12 DEF RaiseFence, At, Return, Goto, SlotOpen
<1>13. ASSUME NEW c \in Commands,
             RequestStop(c)
      PROVE  CmdTyped'
  BY <1>13 DEF RequestStop, At, Goto, SlotOpen
<1>14. ASSUME NEW c \in Commands,
             ConfirmStop(c)
      PROVE  CmdTyped'
  BY <1>14, ZenonT(60) DEF ConfirmStop, At, SlotOpen
<1>15. ASSUME NEW c \in Commands,
             StopTimesOut(c)
      PROVE  CmdTyped'
  BY <1>15, ZenonT(60) DEF StopTimesOut, At
<1>16. ASSUME NEW c \in Commands,
             LowerFence(c)
      PROVE  CmdTyped'
  BY <1>16 DEF LowerFence, At, Return, Goto
<1>17. ASSUME NEW c \in Commands,
             SpawnFails(c)
      PROVE  CmdTyped'
  BY <1>17 DEF SpawnFails, At, Return, Goto
<1>18. ASSUME NEW c \in Commands,
             HelperEnds(c)
      PROVE  CmdTyped'
  BY <1>18 DEF HelperEnds, At, Return, Goto, Free
<1>19. ASSUME NEW c \in Commands,
             GiveUp(c)
      PROVE  CmdTyped'
  BY <1>19 DEF GiveUp, At, HandOver
<1>20. ASSUME NEW c \in Commands,
             OutputEnds(c)
      PROVE  CmdTyped'
  BY <1>20 DEF OutputEnds, At, Return, Goto
<1>21. ASSUME NEW c \in Commands, NEW p \in Pids,
             StartListener(c, p)
      PROVE  CmdTyped'
  BY <1>21 DEF StartListener, At, Unused, Free, HandOver
<1>22. ASSUME NEW c \in Commands, NEW p \in Pids,
             StartPrivate(c, p)
      PROVE  CmdTyped'
  BY <1>22 DEF StartPrivate, At, Unused, Free, HandOver
<1>23. ASSUME NEW c \in Commands, NEW p \in Pids,
             SpawnHelper(c, p)
      PROVE  CmdTyped'
  BY <1>23, ZenonT(60) DEF SpawnHelper, At, Spawn, Unused, Free
<1>24. ASSUME NEW o \in Owners,
             DropBusy(o)
      PROVE  CmdTyped'
  BY <1>24 DEF DropBusy, Settle
<1>25. ASSUME NEW o \in Owners,
             DropGuard(o)
      PROVE  CmdTyped'
  BY <1>25 DEF DropGuard, Settle
<1>26. ASSUME NEW o \in Owners,
             DropLease(o)
      PROVE  CmdTyped'
  BY <1>26 DEF DropLease, Settle
<1>27. CASE RequestExit
  <2>1. Idle \in [kind : Kinds \union {None}, pc : Location, pid : Pids \union {None},
                   answer : {None, "stopped", "unconfirmed"}]
    OBVIOUS
  <2>2. cmd' = cmd \/ cmd' = [c \in Commands |-> Idle]
    BY <1>27 DEF RequestExit
  <2>. QED
    BY <2>1, <2>2 DEF CmdTyped
<1>28. CASE UNCHANGED <<cmd>>
  BY <1>28
<1>. QED
  BY CmdChange, <1>1, <1>2, <1>3, <1>4, <1>5, <1>6, <1>7, <1>8, <1>9, <1>10,
     <1>11, <1>12, <1>13, <1>14, <1>15, <1>16, <1>17, <1>18, <1>19, <1>20,
     <1>21, <1>22, <1>23, <1>24, <1>25, <1>26, <1>27, <1>28

\* What changes the processes.
LEMMA ProcChange ==
  ASSUME [Next]_vars
  PROVE  \/ UNCHANGED <<proc>>
         \/ \E c \in Commands :
               \/ HelperEnds(c)
         \/ \E c \in Commands : \E p \in Pids :
               \/ StartListener(c, p) \/ StartPrivate(c, p)
               \/ SpawnHelper(c, p)
         \/ \E p \in Pids :
               \/ HandleTerminated(p) \/ Exit(p) \/ LoseChannel(p) \/ Reap(p)
  BY DEF Next, Step, Drop, Happens, desktop, guards, slots, Invoke, TakeLease,
         Admit, AdmitExclusive, BeginMaintenance, RefuseAdmission, TakeBusy,
         RefuseBusy, FinishWork, ListenerRefused, PrivateRefused, RaiseFence,
         RequestStop, ConfirmStop, StopTimesOut, LowerFence, SpawnFails,
         GiveUp, OutputEnds, DropBusy, DropGuard, DropLease, TakeExclusive,
         OtherCleanup, CloseWindow, ShowWindow, SetKeepRunning, RequestExit,
         Relaunch, vars

LEMMA ProcStep ==
  ASSUME ProcTyped, CmdTyped, [Next]_vars
  PROVE  ProcTyped'
<1>. USE DEF ProcTyped, CmdTyped, Free
<1>1. ASSUME NEW c \in Commands,
             HelperEnds(c)
      PROVE  ProcTyped'
  BY <1>1 DEF HelperEnds, At, Return, Goto, Free
<1>2. ASSUME NEW c \in Commands, NEW p \in Pids,
             StartListener(c, p)
      PROVE  ProcTyped'
  BY <1>2 DEF StartListener, At, Unused, Free, HandOver
<1>3. ASSUME NEW c \in Commands, NEW p \in Pids,
             StartPrivate(c, p)
      PROVE  ProcTyped'
  BY <1>3 DEF StartPrivate, At, Unused, Free, HandOver
<1>4. ASSUME NEW c \in Commands, NEW p \in Pids,
             SpawnHelper(c, p)
      PROVE  ProcTyped'
  BY <1>4 DEF SpawnHelper, At, Spawn, Unused, Free
<1>5. ASSUME NEW p \in Pids,
             HandleTerminated(p)
      PROVE  ProcTyped'
  BY <1>5 DEF HandleTerminated, Free
<1>6. ASSUME NEW p \in Pids,
             Exit(p)
      PROVE  ProcTyped'
  BY <1>6 DEF Exit, Running
<1>7. ASSUME NEW p \in Pids,
             LoseChannel(p)
      PROVE  ProcTyped'
  BY <1>7, ZenonT(60) DEF LoseChannel, Running
<1>8. ASSUME NEW p \in Pids,
             Reap(p)
      PROVE  ProcTyped'
  BY <1>8 DEF Reap, Free
<1>9. CASE UNCHANGED <<proc>>
  BY <1>9
<1>. QED
  BY ProcChange, <1>1, <1>2, <1>3, <1>4, <1>5, <1>6, <1>7, <1>8, <1>9

\* What changes the slots.
LEMMA SlotChange ==
  ASSUME [Next]_vars
  PROVE  \/ UNCHANGED <<child, stopping, private>>
         \/ \E c \in Commands :
               \/ RaiseFence(c) \/ LowerFence(c)
         \/ \E c \in Commands : \E p \in Pids :
               \/ StartListener(c, p) \/ StartPrivate(c, p)
         \/ \E o \in Owners :
               \/ DropBusy(o) \/ DropGuard(o) \/ DropLease(o)
         \/ RequestExit
  BY ZenonT(60) DEF Next, Step, Drop, Happens, desktop, guards, slots, Invoke, TakeLease,
         Admit, AdmitExclusive, BeginMaintenance, RefuseAdmission, TakeBusy,
         RefuseBusy, FinishWork, ListenerRefused, PrivateRefused, RequestStop,
         ConfirmStop, StopTimesOut, SpawnFails, HelperEnds, GiveUp,
         OutputEnds, SpawnHelper, HandleTerminated, Exit, LoseChannel, Reap,
         TakeExclusive, OtherCleanup, CloseWindow, ShowWindow, SetKeepRunning,
         Relaunch, vars

LEMMA SlotsStep ==
  ASSUME SlotsTyped, [Next]_vars
  PROVE  SlotsTyped'
<1>. USE DEF SlotsTyped
<1>1. ASSUME NEW c \in Commands,
             RaiseFence(c)
      PROVE  SlotsTyped'
  BY <1>1 DEF RaiseFence, At, Return, Goto, SlotOpen
<1>2. ASSUME NEW c \in Commands,
             LowerFence(c)
      PROVE  SlotsTyped'
  BY <1>2 DEF LowerFence, At, Return, Goto
<1>3. ASSUME NEW c \in Commands, NEW p \in Pids,
             StartListener(c, p)
      PROVE  SlotsTyped'
  BY <1>3 DEF StartListener, At, Unused, Free, HandOver
<1>4. ASSUME NEW c \in Commands, NEW p \in Pids,
             StartPrivate(c, p)
      PROVE  SlotsTyped'
  BY <1>4 DEF StartPrivate, At, Unused, Free, HandOver
<1>5. ASSUME NEW o \in Owners,
             DropBusy(o)
      PROVE  SlotsTyped'
  BY <1>5 DEF DropBusy, Settle
<1>6. ASSUME NEW o \in Owners,
             DropGuard(o)
      PROVE  SlotsTyped'
  BY <1>6 DEF DropGuard, Settle
<1>7. ASSUME NEW o \in Owners,
             DropLease(o)
      PROVE  SlotsTyped'
  BY <1>7 DEF DropLease, Settle
<1>8. CASE RequestExit
  BY <1>8 DEF RequestExit, guards, slots
<1>9. CASE UNCHANGED <<child, stopping, private>>
  BY <1>9
<1>. QED
  BY SlotChange, <1>1, <1>2, <1>3, <1>4, <1>5, <1>6, <1>7, <1>8, <1>9

-----------------------------------------------------------------------------
(* What a command owns where it stands.                                      *)

PlaceOf(c) ==
    /\ At(c, "drop") <=> c \in dropping
    /\ cmd[c].pc \in {"idle", "lease", "maintain"} => own[c] = Nothing
    /\ At(c, "admit") => own[c] = [Nothing EXCEPT !.lease = TRUE]
    /\ At(c, "maintain") => Maintains(cmd[c].kind)
    /\ At(c, "busy") => Family(cmd[c].kind) # None /\ own[c].busy = None
    /\ cmd[c].pc \in {"busy", "act", "request", "poll", "unfence"} =>
               own[c].guard # "none"
    /\ cmd[c].pc \in {"spawn", "wait"} /\ cmd[c].kind # "keep" =>
               own[c].guard # "none"
    /\ At(c, "act") /\ cmd[c].kind = "listen" => own[c].guard = "work"
    /\ cmd[c].pc \in {"request", "poll", "unfence"} => cmd[c].pid \in Pids

PlaceInv == \A c \in Commands : PlaceOf(c)

\* What changes dropping, own.
LEMMA DroppingChange ==
  ASSUME [Next]_vars
  PROVE  \/ UNCHANGED <<dropping, own>>
         \/ \E c \in Commands :
               \/ TakeLease(c) \/ Admit(c) \/ AdmitExclusive(c)
               \/ BeginMaintenance(c) \/ RefuseAdmission(c) \/ TakeBusy(c)
               \/ RefuseBusy(c) \/ FinishWork(c) \/ ListenerRefused(c)
               \/ PrivateRefused(c) \/ RaiseFence(c) \/ LowerFence(c)
               \/ SpawnFails(c) \/ HelperEnds(c) \/ GiveUp(c) \/ OutputEnds(c)
         \/ \E c \in Commands : \E p \in Pids :
               \/ StartListener(c, p) \/ StartPrivate(c, p)
         \/ \E o \in Owners :
               \/ DropBusy(o) \/ DropGuard(o) \/ DropLease(o)
         \/ \E p \in Pids :
               \/ HandleTerminated(p)
         \/ RequestExit
  BY DEF Next, Step, Drop, Happens, desktop, guards, slots, Invoke,
         RequestStop, ConfirmStop, StopTimesOut, SpawnHelper, Exit,
         LoseChannel, Reap, TakeExclusive, OtherCleanup, CloseWindow,
         ShowWindow, SetKeepRunning, Relaunch, vars

LEMMA DroppingStep ==
  ASSUME dropping \subseteq Owners, [Next]_vars
  PROVE  dropping' \subseteq Owners
<1>0. Commands \subseteq Owners /\ Pids \subseteq Owners
  BY DEF Owners
<1>. USE <1>0
<1>1. ASSUME NEW c \in Commands,
             TakeLease(c)
      PROVE  dropping' \subseteq Owners
  BY <1>1 DEF TakeLease, At, Goto, Return
<1>2. ASSUME NEW c \in Commands,
             Admit(c)
      PROVE  dropping' \subseteq Owners
  BY <1>2 DEF Admit, At, Goto, Guarded, Admissible
<1>3. ASSUME NEW c \in Commands,
             AdmitExclusive(c)
      PROVE  dropping' \subseteq Owners
  BY <1>3 DEF AdmitExclusive, At, Goto, Guarded, Admissible
<1>4. ASSUME NEW c \in Commands,
             BeginMaintenance(c)
      PROVE  dropping' \subseteq Owners
  BY <1>4 DEF BeginMaintenance, At, Goto, Guarded
<1>5. ASSUME NEW c \in Commands,
             RefuseAdmission(c)
      PROVE  dropping' \subseteq Owners
  BY <1>5 DEF RefuseAdmission, At, Return, Goto
<1>6. ASSUME NEW c \in Commands,
             TakeBusy(c)
      PROVE  dropping' \subseteq Owners
  BY <1>6 DEF TakeBusy, At, Goto
<1>7. ASSUME NEW c \in Commands,
             RefuseBusy(c)
      PROVE  dropping' \subseteq Owners
  BY <1>7 DEF RefuseBusy, At, Return, Goto
<1>8. ASSUME NEW c \in Commands,
             FinishWork(c)
      PROVE  dropping' \subseteq Owners
  BY <1>8 DEF FinishWork, At, Return, Goto
<1>9. ASSUME NEW c \in Commands,
             ListenerRefused(c)
      PROVE  dropping' \subseteq Owners
  BY <1>9 DEF ListenerRefused, At, Return, Goto
<1>10. ASSUME NEW c \in Commands,
             PrivateRefused(c)
      PROVE  dropping' \subseteq Owners
  BY <1>10 DEF PrivateRefused, At, Return, Goto
<1>11. ASSUME NEW c \in Commands,
             RaiseFence(c)
      PROVE  dropping' \subseteq Owners
  BY <1>11 DEF RaiseFence, At, Return, Goto, SlotOpen
<1>12. ASSUME NEW c \in Commands,
             LowerFence(c)
      PROVE  dropping' \subseteq Owners
  BY <1>12 DEF LowerFence, At, Return, Goto
<1>13. ASSUME NEW c \in Commands,
             SpawnFails(c)
      PROVE  dropping' \subseteq Owners
  BY <1>13 DEF SpawnFails, At, Return, Goto
<1>14. ASSUME NEW c \in Commands,
             HelperEnds(c)
      PROVE  dropping' \subseteq Owners
  BY <1>14 DEF HelperEnds, At, Return, Goto, Free
<1>15. ASSUME NEW c \in Commands,
             GiveUp(c)
      PROVE  dropping' \subseteq Owners
  BY <1>15 DEF GiveUp, At, HandOver
<1>16. ASSUME NEW c \in Commands,
             OutputEnds(c)
      PROVE  dropping' \subseteq Owners
  BY <1>16 DEF OutputEnds, At, Return, Goto
<1>17. ASSUME NEW c \in Commands, NEW p \in Pids,
             StartListener(c, p)
      PROVE  dropping' \subseteq Owners
  BY <1>17 DEF StartListener, At, Unused, Free, HandOver
<1>18. ASSUME NEW c \in Commands, NEW p \in Pids,
             StartPrivate(c, p)
      PROVE  dropping' \subseteq Owners
  BY <1>18 DEF StartPrivate, At, Unused, Free, HandOver
<1>19. ASSUME NEW o \in Owners,
             DropBusy(o)
      PROVE  dropping' \subseteq Owners
  BY <1>19 DEF DropBusy, Settle
<1>20. ASSUME NEW o \in Owners,
             DropGuard(o)
      PROVE  dropping' \subseteq Owners
  BY <1>20 DEF DropGuard, Settle
<1>21. ASSUME NEW o \in Owners,
             DropLease(o)
      PROVE  dropping' \subseteq Owners
  BY <1>21 DEF DropLease, Settle
<1>22. ASSUME NEW p \in Pids,
             HandleTerminated(p)
      PROVE  dropping' \subseteq Owners
  BY <1>22 DEF HandleTerminated, Free
<1>23. CASE RequestExit
  BY <1>23 DEF RequestExit, guards, slots
<1>24. CASE UNCHANGED <<dropping, own>>
  BY <1>24
<1>. QED
  BY DroppingChange, <1>1, <1>2, <1>3, <1>4, <1>5, <1>6, <1>7, <1>8, <1>9,
     <1>10, <1>11, <1>12, <1>13, <1>14, <1>15, <1>16, <1>17, <1>18, <1>19,
     <1>20, <1>21, <1>22, <1>23, <1>24

\* What changes the flags.
LEMMA BusyChange ==
  ASSUME [Next]_vars
  PROVE  \/ UNCHANGED <<busy>>
         \/ \E c \in Commands :
               \/ TakeBusy(c)
         \/ \E o \in Owners :
               \/ DropBusy(o)
         \/ RequestExit
  BY ZenonT(60) DEF Next, Step, Drop, Happens, desktop, guards, slots, Invoke, TakeLease,
         Admit, AdmitExclusive, BeginMaintenance, RefuseAdmission, RefuseBusy,
         FinishWork, ListenerRefused, PrivateRefused, RaiseFence, RequestStop,
         ConfirmStop, StopTimesOut, LowerFence, SpawnFails, HelperEnds,
         GiveUp, OutputEnds, StartListener, StartPrivate, SpawnHelper,
         DropGuard, DropLease, HandleTerminated, Exit, LoseChannel, Reap,
         TakeExclusive, OtherCleanup, CloseWindow, ShowWindow, SetKeepRunning,
         Relaunch, vars

LEMMA BusyStep ==
  ASSUME busy \subseteq Families, PlaceInv, [Next]_vars
  PROVE  busy' \subseteq Families
<1>. USE DEF Families
<1>1. ASSUME NEW c \in Commands,
             TakeBusy(c)
      PROVE  busy' \subseteq Families
  <2>1. Family(cmd[c].kind) \in Families \/ Family(cmd[c].kind) = None
    BY DEF Family, Families
  <2>2. At(c, "busy") => Family(cmd[c].kind) # None
    BY DEF PlaceInv, PlaceOf, At
  <2>. QED
    BY <1>1, <2>1, <2>2 DEF TakeBusy
<1>2. ASSUME NEW o \in Owners,
             DropBusy(o)
      PROVE  busy' \subseteq Families
  BY <1>2 DEF DropBusy, Settle
<1>3. CASE RequestExit
  BY <1>3 DEF RequestExit, guards, slots
<1>4. CASE UNCHANGED <<busy>>
  BY <1>4
<1>. QED
  BY BusyChange, <1>1, <1>2, <1>3, <1>4

\* What changes the exclusive lease.
LEMMA ExclusiveChange ==
  ASSUME [Next]_vars
  PROVE  \/ UNCHANGED <<excl>>
         \/ \E p \in Pids :
               \/ Exit(p) \/ TakeExclusive(p)
         \/ OtherCleanup
  BY ZenonT(60) DEF Next, Step, Drop, Happens, desktop, guards, slots, Invoke, TakeLease,
         Admit, AdmitExclusive, BeginMaintenance, RefuseAdmission, TakeBusy,
         RefuseBusy, FinishWork, ListenerRefused, PrivateRefused, RaiseFence,
         RequestStop, ConfirmStop, StopTimesOut, LowerFence, SpawnFails,
         HelperEnds, GiveUp, OutputEnds, StartListener, StartPrivate,
         SpawnHelper, DropBusy, DropGuard, DropLease, HandleTerminated,
         LoseChannel, Reap, CloseWindow, ShowWindow, SetKeepRunning,
         RequestExit, Relaunch, vars

LEMMA ExclusiveStep ==
  ASSUME excl \in Pids \union {None, "cli"}, [Next]_vars
  PROVE  excl' \in Pids \union {None, "cli"}
<1>. USE DEF Unread
<1>1. ASSUME NEW p \in Pids,
             Exit(p)
      PROVE  excl' \in Pids \union {None, "cli"}
  BY <1>1 DEF Exit, Running
<1>2. ASSUME NEW p \in Pids,
             TakeExclusive(p)
      PROVE  excl' \in Pids \union {None, "cli"}
  BY <1>2 DEF TakeExclusive, Running
<1>3. CASE OtherCleanup
  BY <1>3 DEF OtherCleanup
<1>4. CASE UNCHANGED <<excl>>
  BY <1>4
<1>. QED
  BY ExclusiveChange, <1>1, <1>2, <1>3, <1>4

\* What changes saved, alive.
LEMMA SavedChange ==
  ASSUME [Next]_vars
  PROVE  \/ UNCHANGED <<saved, alive>>
         \/ \E enabled \in BOOLEAN :
               \/ SetKeepRunning(enabled)
         \/ RequestExit \/ Relaunch
  BY ZenonT(60) DEF Next, Step, Drop, Happens, desktop, guards, slots, Invoke, TakeLease,
         Admit, AdmitExclusive, BeginMaintenance, RefuseAdmission, TakeBusy,
         RefuseBusy, FinishWork, ListenerRefused, PrivateRefused, RaiseFence,
         RequestStop, ConfirmStop, StopTimesOut, LowerFence, SpawnFails,
         HelperEnds, GiveUp, OutputEnds, StartListener, StartPrivate,
         SpawnHelper, DropBusy, DropGuard, DropLease, HandleTerminated, Exit,
         LoseChannel, Reap, TakeExclusive, OtherCleanup, CloseWindow,
         ShowWindow, vars

LEMMA SavedStep ==
  ASSUME saved \in BOOLEAN, alive \in BOOLEAN, [Next]_vars
  PROVE  saved' \in BOOLEAN /\ alive' \in BOOLEAN
<1>. USE DEF desktop
<1>1. ASSUME NEW enabled \in BOOLEAN,
             SetKeepRunning(enabled)
      PROVE  saved' \in BOOLEAN /\ alive' \in BOOLEAN
  BY <1>1 DEF SetKeepRunning
<1>2. CASE RequestExit
  BY <1>2 DEF RequestExit, guards, slots
<1>3. CASE Relaunch
  BY <1>3 DEF Relaunch, Fresh
<1>4. CASE UNCHANGED <<saved, alive>>
  BY <1>4
<1>. QED
  BY SavedChange, <1>1, <1>2, <1>3, <1>4

\* What changes the window.
LEMMA WindowChange ==
  ASSUME [Next]_vars
  PROVE  \/ UNCHANGED <<window>>
         \/ CloseWindow \/ ShowWindow \/ RequestExit \/ Relaunch
  BY ZenonT(60) DEF Next, Step, Drop, Happens, desktop, guards, slots, Invoke, TakeLease,
         Admit, AdmitExclusive, BeginMaintenance, RefuseAdmission, TakeBusy,
         RefuseBusy, FinishWork, ListenerRefused, PrivateRefused, RaiseFence,
         RequestStop, ConfirmStop, StopTimesOut, LowerFence, SpawnFails,
         HelperEnds, GiveUp, OutputEnds, StartListener, StartPrivate,
         SpawnHelper, DropBusy, DropGuard, DropLease, HandleTerminated, Exit,
         LoseChannel, Reap, TakeExclusive, OtherCleanup, SetKeepRunning, vars

LEMMA WindowStep ==
  ASSUME window \in {"shown", "hidden", "closed"}, [Next]_vars
  PROVE  window' \in {"shown", "hidden", "closed"}
<1>. USE DEF desktop
<1>1. CASE CloseWindow
  BY <1>1 DEF CloseWindow, CanHide
<1>2. CASE ShowWindow
  BY <1>2 DEF ShowWindow
<1>3. CASE RequestExit
  BY <1>3 DEF RequestExit, guards, slots
<1>4. CASE Relaunch
  BY <1>4 DEF Relaunch, Fresh
<1>5. CASE UNCHANGED <<window>>
  BY <1>5
<1>. QED
  BY WindowChange, <1>1, <1>2, <1>3, <1>4, <1>5

\* What changes the channels.
LEMMA LostChange ==
  ASSUME [Next]_vars
  PROVE  \/ UNCHANGED <<lost>>
         \/ \E p \in Pids :
               \/ LoseChannel(p)
  BY ZenonT(60) DEF Next, Step, Drop, Happens, desktop, guards, slots, Invoke, TakeLease,
         Admit, AdmitExclusive, BeginMaintenance, RefuseAdmission, TakeBusy,
         RefuseBusy, FinishWork, ListenerRefused, PrivateRefused, RaiseFence,
         RequestStop, ConfirmStop, StopTimesOut, LowerFence, SpawnFails,
         HelperEnds, GiveUp, OutputEnds, StartListener, StartPrivate,
         SpawnHelper, DropBusy, DropGuard, DropLease, HandleTerminated, Exit,
         Reap, TakeExclusive, OtherCleanup, CloseWindow, ShowWindow,
         SetKeepRunning, RequestExit, Relaunch, vars

LEMMA LostStep ==
  ASSUME lost \in 0 .. MaxLost, [Next]_vars
  PROVE  lost' \in 0 .. MaxLost
<1>0. MaxLost \in Nat
  BY DesktopAssumption
<1>. USE <1>0
<1>1. ASSUME NEW p \in Pids,
             LoseChannel(p)
      PROVE  lost' \in 0 .. MaxLost
  BY <1>1 DEF LoseChannel, Running
<1>2. CASE UNCHANGED <<lost>>
  BY <1>2
<1>. QED
  BY LostChange, <1>1, <1>2

LEMMA TypeStep ==
  ASSUME TypeOK, PlaceInv, [Next]_vars
  PROVE  TypeOK'
<1>. USE DEF TypeOK, LifeTyped, OwnTyped, CmdTyped, ProcTyped, SlotsTyped
<1>1. LifeTyped' /\ OwnTyped' /\ CmdTyped' /\ ProcTyped' /\ SlotsTyped'
  BY LifeStep, OwnStep, CmdStep, ProcStep, SlotsStep
<1>2. dropping' \subseteq Owners /\ busy' \subseteq Families
  BY DroppingStep, BusyStep
<1>3. excl' \in Pids \union {None, "cli"} /\ lost' \in 0 .. MaxLost
  BY ExclusiveStep, LostStep
<1>4. saved' \in BOOLEAN /\ alive' \in BOOLEAN /\ window' \in {"shown", "hidden", "closed"}
  BY SavedStep, WindowStep
<1>. QED
  BY <1>1, <1>2, <1>3, <1>4

\* A command returns, or has only to drop its guard.
LEMMA Returned ==
  ASSUME TypeOK, NEW c \in Commands, NEW d \in Commands, PlaceOf(d),
         ~At(c, "drop"), Return(c), own' = own
  PROVE  PlaceOf(d)'
<1>1. DOMAIN cmd = Commands /\ \A e \in Commands : DOMAIN cmd[e] = {"kind", "pc", "pid", "answer"}
  BY DEF TypeOK
<1>2. CASE d # c
  BY <1>1, <1>2 DEF Return, Goto, PlaceOf, At
<1>3. CASE d = c /\ own[c] = Nothing
  BY <1>1, <1>3 DEF Return, PlaceOf, At, Idle
<1>4. CASE d = c /\ own[c] # Nothing
  BY <1>1, <1>4 DEF Return, Goto, PlaceOf, At
<1>. QED
  BY <1>2, <1>3, <1>4

\* What changes own, cmd, dropping.
LEMMA PlaceChange ==
  ASSUME [Next]_vars
  PROVE  \/ UNCHANGED <<own, cmd, dropping>>
         \/ \E c \in Commands : \E kind \in Kinds :
               \/ Invoke(c, kind)
         \/ \E c \in Commands :
               \/ TakeLease(c) \/ Admit(c) \/ AdmitExclusive(c)
               \/ BeginMaintenance(c) \/ RefuseAdmission(c) \/ TakeBusy(c)
               \/ RefuseBusy(c) \/ FinishWork(c) \/ ListenerRefused(c)
               \/ PrivateRefused(c) \/ RaiseFence(c) \/ RequestStop(c)
               \/ ConfirmStop(c) \/ StopTimesOut(c) \/ LowerFence(c)
               \/ SpawnFails(c) \/ HelperEnds(c) \/ GiveUp(c) \/ OutputEnds(c)
         \/ \E c \in Commands : \E p \in Pids :
               \/ StartListener(c, p) \/ StartPrivate(c, p)
               \/ SpawnHelper(c, p)
         \/ \E o \in Owners :
               \/ DropBusy(o) \/ DropGuard(o) \/ DropLease(o)
         \/ \E p \in Pids :
               \/ HandleTerminated(p)
         \/ RequestExit
  BY DEF Next, Step, Drop, Happens, desktop, guards, slots, Exit, LoseChannel,
         Reap, TakeExclusive, OtherCleanup, CloseWindow, ShowWindow,
         SetKeepRunning, Relaunch, vars

LEMMA PlaceStep ==
  ASSUME TypeOK, PlaceInv, [Next]_vars
  PROVE  PlaceInv'
<1>. SUFFICES ASSUME NEW d \in Commands PROVE PlaceOf(d)'
  BY DEF PlaceInv
<1>a. /\ PlaceOf(d)
      /\ Commands \subseteq Owners /\ Pids \subseteq Owners
      /\ Commands \intersect Pids = {}
  BY DesktopAssumption DEF PlaceInv, Owners
<1>0. /\ \A x \in Owners : own[x] \in
            [guard : Guard, lease : BOOLEAN, busy : Families \union {None}]
      /\ DOMAIN own = Owners /\ DOMAIN cmd = Commands
  BY DEF TypeOK
<1>. USE <1>0, <1>a DEF At, PlaceOf, Nothing, Idle, guards
<1>1. ASSUME NEW c \in Commands, NEW kind \in Kinds,
             Invoke(c, kind)
      PROVE  PlaceOf(d)'
  <2>1. CASE d # c
    BY <1>1, <2>1 DEF Invoke, At
  <2>2. CASE d = c
    BY <1>1, <2>2 DEF Invoke, At
  <2>. QED
    BY <2>1, <2>2
<1>2. ASSUME NEW c \in Commands,
             TakeLease(c)
      PROVE  PlaceOf(d)'
  <2>1. CASE excl # None
    BY <1>2, <2>1, Returned DEF TakeLease, At
  <2>2. CASE ~(excl # None) /\ d # c
    BY <1>2, <2>2 DEF TakeLease, Goto
  <2>3. CASE ~(excl # None) /\ d = c
    <3>1. own[c] = Nothing /\ own' = [own EXCEPT ![c].lease = TRUE]
      BY <1>2, <2>3 DEF TakeLease
    <3>2. own'[c] = [Nothing EXCEPT !.lease = TRUE]
      BY <3>1
    <3>3. cmd' = [cmd EXCEPT ![c].pc = "admit"] /\ dropping' = dropping
      BY <1>2, <2>3 DEF TakeLease, Goto
    <3>4. c \notin dropping
      BY <1>2, <2>3 DEF TakeLease
    <3>. QED
      BY <2>3, <3>2, <3>3, <3>4
  <2>. QED
    BY <2>1, <2>2, <2>3
<1>3. ASSUME NEW c \in Commands,
             Admit(c)
      PROVE  PlaceOf(d)'
  BY <1>3 DEF Admit, At, Goto, Guarded, Admissible
<1>4. ASSUME NEW c \in Commands,
             AdmitExclusive(c)
      PROVE  PlaceOf(d)'
  BY <1>4 DEF AdmitExclusive, At, Goto, Guarded, Admissible
<1>5. ASSUME NEW c \in Commands,
             BeginMaintenance(c)
      PROVE  PlaceOf(d)'
  <2>1. CASE d # c
    BY <1>5, <2>1 DEF BeginMaintenance, Maintains, At, Goto, Guarded
  <2>2. CASE d = c
    BY <1>5, <2>2 DEF BeginMaintenance, Maintains, At, Goto, Guarded
  <2>. QED
    BY <2>1, <2>2
<1>6. ASSUME NEW c \in Commands,
             RefuseAdmission(c)
      PROVE  PlaceOf(d)'
  BY <1>6, Returned DEF RefuseAdmission, At
<1>7. ASSUME NEW c \in Commands,
             TakeBusy(c)
      PROVE  PlaceOf(d)'
  BY <1>7 DEF TakeBusy, At, Goto
<1>8. ASSUME NEW c \in Commands,
             RefuseBusy(c)
      PROVE  PlaceOf(d)'
  BY <1>8, Returned DEF RefuseBusy, At
<1>9. ASSUME NEW c \in Commands,
             FinishWork(c)
      PROVE  PlaceOf(d)'
  BY <1>9, Returned DEF FinishWork, At
<1>10. ASSUME NEW c \in Commands,
             ListenerRefused(c)
      PROVE  PlaceOf(d)'
  BY <1>10, Returned DEF ListenerRefused, At
<1>11. ASSUME NEW c \in Commands,
             PrivateRefused(c)
      PROVE  PlaceOf(d)'
  BY <1>11, Returned DEF PrivateRefused, At
<1>12. ASSUME NEW c \in Commands,
             RaiseFence(c)
      PROVE  PlaceOf(d)'
  <2>1. CASE child = None \/ stopping # None
    BY <1>12, <2>1, Returned DEF RaiseFence, At
  <2>2. CASE ~(child = None \/ stopping # None) /\ d # c
    BY <1>12, <2>2 DEF RaiseFence, Goto
  <2>3. CASE ~(child = None \/ stopping # None) /\ d = c
    BY <1>12, <2>3 DEF TypeOK, RaiseFence, Goto
  <2>. QED
    BY <2>1, <2>2, <2>3
<1>13. ASSUME NEW c \in Commands,
             RequestStop(c)
      PROVE  PlaceOf(d)'
  <2>1. CASE d # c
    BY <1>13, <2>1 DEF RequestStop, At, Goto
  <2>2. CASE d = c
    <3>1. \E loc \in {"poll", "unfence"} : cmd' = [cmd EXCEPT ![c].pc = loc]
      BY <1>13 DEF RequestStop, Goto
    <3>2. own' = own /\ dropping' = dropping /\ cmd[c].pc = "request"
      BY <1>13 DEF RequestStop
    <3>. QED
      BY <2>2, <3>1, <3>2
  <2>. QED
    BY <2>1, <2>2
<1>14. ASSUME NEW c \in Commands,
             ConfirmStop(c)
      PROVE  PlaceOf(d)'
  <2>1. CASE d # c
    BY <1>14, <2>1 DEF ConfirmStop, At
  <2>2. CASE d = c
    BY <1>14, <2>2 DEF ConfirmStop, At
  <2>. QED
    BY <2>1, <2>2
<1>15. ASSUME NEW c \in Commands,
             StopTimesOut(c)
      PROVE  PlaceOf(d)'
  <2>1. CASE d # c
    BY <1>15, <2>1 DEF StopTimesOut, At
  <2>2. CASE d = c
    BY <1>15, <2>2 DEF StopTimesOut, At
  <2>. QED
    BY <2>1, <2>2
<1>16. ASSUME NEW c \in Commands,
             LowerFence(c)
      PROVE  PlaceOf(d)'
  BY <1>16, Returned DEF LowerFence, At
<1>17. ASSUME NEW c \in Commands,
             SpawnFails(c)
      PROVE  PlaceOf(d)'
  BY <1>17, Returned DEF SpawnFails, At
<1>18. ASSUME NEW c \in Commands,
             HelperEnds(c)
      PROVE  PlaceOf(d)'
  BY <1>18, Returned DEF HelperEnds, At
<1>19. ASSUME NEW c \in Commands,
             GiveUp(c)
      PROVE  PlaceOf(d)'
  <2>0. cmd[c].pid \in Pids \union {None} /\ None \notin Owners
    BY DesktopAssumption DEF TypeOK, Owners
  <2>1. CASE d # c
    BY <1>19, <2>0, <2>1 DEF GiveUp, At, HandOver
  <2>2. CASE d = c
    BY <1>19, <2>0, <2>2 DEF GiveUp, At, HandOver
  <2>. QED
    BY <2>1, <2>2
<1>20. ASSUME NEW c \in Commands,
             OutputEnds(c)
      PROVE  PlaceOf(d)'
  BY <1>20, Returned DEF OutputEnds, At
<1>21. ASSUME NEW c \in Commands, NEW p \in Pids,
             StartListener(c, p)
      PROVE  PlaceOf(d)'
  BY <1>21 DEF StartListener, At, Unused, Free, HandOver
<1>22. ASSUME NEW c \in Commands, NEW p \in Pids,
             StartPrivate(c, p)
      PROVE  PlaceOf(d)'
  BY <1>22 DEF StartPrivate, At, Unused, Free, HandOver
<1>23. ASSUME NEW c \in Commands, NEW p \in Pids,
             SpawnHelper(c, p)
      PROVE  PlaceOf(d)'
  <2>1. CASE d # c
    BY <1>23, <2>1 DEF SpawnHelper, At, Spawn, Free
  <2>2. CASE d = c
    BY <1>23, <2>2 DEF SpawnHelper, At, Spawn, Free
  <2>. QED
    BY <2>1, <2>2
<1>24. ASSUME NEW o \in Owners,
             DropBusy(o)
      PROVE  PlaceOf(d)'
  BY <1>24 DEF DropBusy, Settle
<1>25. ASSUME NEW o \in Owners,
             DropGuard(o)
      PROVE  PlaceOf(d)'
  BY <1>25 DEF DropGuard, Settle
<1>26. ASSUME NEW o \in Owners,
             DropLease(o)
      PROVE  PlaceOf(d)'
  BY <1>26 DEF DropLease, Settle
<1>27. ASSUME NEW p \in Pids,
             HandleTerminated(p)
      PROVE  PlaceOf(d)'
  BY <1>27 DEF HandleTerminated, Free
<1>28. CASE RequestExit
  <2>1. CASE life.active > 0
    BY <1>28, <2>1 DEF RequestExit, guards
  <2>2. CASE ~(life.active > 0)
    <3>1. own' = [o \in Owners |-> Nothing] /\ cmd' = [c \in Commands |-> Idle] /\ dropping' = {}
      BY <1>28, <2>2 DEF RequestExit
    <3>2. own'[d] = Nothing /\ cmd'[d] = Idle
      BY <1>a, <3>1
    <3>. QED
      BY <3>1, <3>2
  <2>. QED
    BY <2>1, <2>2
<1>29. CASE UNCHANGED <<own, cmd, dropping>>
  BY <1>29
<1>. QED
  BY PlaceChange, <1>1, <1>2, <1>3, <1>4, <1>5, <1>6, <1>7, <1>8, <1>9, <1>10,
     <1>11, <1>12, <1>13, <1>14, <1>15, <1>16, <1>17, <1>18, <1>19, <1>20,
     <1>21, <1>22, <1>23, <1>24, <1>25, <1>26, <1>27, <1>28, <1>29

-----------------------------------------------------------------------------
(* Guards, leases, waiting commands and slots.                               *)

DropOf(o) == o \in dropping => own[o] # Nothing
DropInv == \A o \in Owners : DropOf(o)

LeaseOf(o) == own[o].guard \in {"work", "exclusive"} => own[o].lease
LeaseInv == \A o \in Owners : LeaseOf(o)

WaitOf(c) ==
    At(c, "wait") =>
        /\ cmd[c].pid \in Pids
        /\ own[cmd[c].pid] = Nothing
        /\ cmd[c].pid # child /\ cmd[c].pid # private
WaitInv == \A c \in Commands : WaitOf(c)
OnlyOf(c) == \A e \in Commands :
    At(c, "wait") /\ At(e, "wait") /\ cmd[c].pid = cmd[e].pid => c = e
OnlyWait == \A c \in Commands : OnlyOf(c)

SlotInv ==
    /\ child # None => own[child] # Nothing
    /\ child # None /\ child \notin dropping => own[child].guard = "work"
    /\ private # None => own[private] # Nothing

ExclInv == excl # None => Unread

LEMMA NotDropping ==
  ASSUME PlaceInv, NEW c \in Commands, cmd[c].pc # "drop"
  PROVE  c \notin dropping
  BY DEF PlaceInv, PlaceOf, At

LEMMA ReturnWaits ==
  ASSUME TypeOK, NEW c \in Commands, NEW d \in Commands, Return(c),
         cmd'[d].pc = "wait"
  PROVE  c # d /\ cmd'[d] = cmd[d]
<1>1. DOMAIN cmd = Commands /\ \A e \in Commands : DOMAIN cmd[e] = {"kind", "pc", "pid", "answer"}
  BY DEF TypeOK
<1>2. CASE own[c] = Nothing
  BY <1>1, <1>2 DEF Return, Idle
<1>3. CASE own[c] # Nothing
  BY <1>1, <1>3 DEF Return, Goto
<1>. QED
  BY <1>2, <1>3

LEMMA Waiting ==
  ASSUME WaitInv, NEW c \in Commands, cmd[c].pc = "wait"
  PROVE  cmd[c].pid \in Pids /\ own[cmd[c].pid] = Nothing
  BY DEF WaitInv, WaitOf, At

LEMMA LeaseStep ==
  ASSUME TypeOK, PlaceInv, LeaseInv, [Next]_vars
  PROVE  LeaseInv'
<1>. SUFFICES ASSUME NEW d \in Owners PROVE LeaseOf(d)'
  BY DEF LeaseInv
<1>a. LeaseOf(d) /\ d \in Owners
  BY DEF LeaseInv, Owners
<1>0. /\ DOMAIN own = Owners /\ DOMAIN cmd = Commands
      /\ \A x \in Owners : own[x] \in
            [guard : Guard, lease : BOOLEAN, busy : Families \union {None}]
      /\ Commands \subseteq Owners /\ Pids \subseteq Owners
      /\ Commands \intersect Pids = {} /\ None \notin Owners
      /\ child \in Pids \union {None} /\ private \in Pids \union {None}
  BY DesktopAssumption DEF TypeOK, Owners
<1>. USE <1>0, <1>a DEF LeaseOf, PlaceInv, PlaceOf, At, Nothing, LeaseInv
<1>1. ASSUME NEW c \in Commands,
             TakeLease(c)
      PROVE  LeaseOf(d)'
  BY <1>1 DEF TakeLease, At, Goto, Return
<1>2. ASSUME NEW c \in Commands,
             Admit(c)
      PROVE  LeaseOf(d)'
  BY <1>2 DEF Admit, At, Goto, Guarded, Admissible
<1>3. ASSUME NEW c \in Commands,
             AdmitExclusive(c)
      PROVE  LeaseOf(d)'
  BY <1>3 DEF AdmitExclusive, At, Goto, Guarded, Admissible
<1>4. ASSUME NEW c \in Commands,
             BeginMaintenance(c)
      PROVE  LeaseOf(d)'
  BY <1>4 DEF BeginMaintenance, At, Goto, Guarded
<1>5. ASSUME NEW c \in Commands,
             TakeBusy(c)
      PROVE  LeaseOf(d)'
  BY <1>5 DEF TakeBusy, At, Goto
<1>6. ASSUME NEW c \in Commands,
             GiveUp(c)
      PROVE  LeaseOf(d)'
  BY <1>6 DEF GiveUp, At, HandOver
<1>7. ASSUME NEW c \in Commands, NEW p \in Pids,
             StartListener(c, p)
      PROVE  LeaseOf(d)'
  BY <1>7 DEF StartListener, At, Unused, Free, HandOver
<1>8. ASSUME NEW c \in Commands, NEW p \in Pids,
             StartPrivate(c, p)
      PROVE  LeaseOf(d)'
  BY <1>8 DEF StartPrivate, At, Unused, Free, HandOver
<1>9. ASSUME NEW o \in Owners,
             DropBusy(o)
      PROVE  LeaseOf(d)'
  BY <1>9 DEF DropBusy, Settle
<1>10. ASSUME NEW o \in Owners,
             DropGuard(o)
      PROVE  LeaseOf(d)'
  BY <1>10 DEF DropGuard, Settle
<1>11. ASSUME NEW o \in Owners,
             DropLease(o)
      PROVE  LeaseOf(d)'
  BY <1>11 DEF DropLease, Settle
<1>12. CASE RequestExit
  <2>1. CASE life.active > 0
    BY <1>12, <2>1 DEF RequestExit, guards, slots
  <2>2. CASE ~(life.active > 0)
    <3>1. own' = [o \in Owners |-> Nothing] /\ cmd' = [c \in Commands |-> Idle] /\ dropping' = {}
      BY <1>12, <2>2 DEF RequestExit
    <3>2. own'[d] = Nothing
      BY <1>a, <3>1
    <3>. QED
      BY <3>1, <3>2
  <2>. QED
    BY <2>1, <2>2
<1>13. CASE UNCHANGED <<own>>
  BY <1>13
<1>. QED
  BY OwnChange, <1>1, <1>2, <1>3, <1>4, <1>5, <1>6, <1>7, <1>8, <1>9, <1>10,
     <1>11, <1>12, <1>13

\* What changes own, dropping.
LEMMA DropChange ==
  ASSUME [Next]_vars
  PROVE  \/ UNCHANGED <<own, dropping>>
         \/ \E c \in Commands :
               \/ TakeLease(c) \/ Admit(c) \/ AdmitExclusive(c)
               \/ BeginMaintenance(c) \/ RefuseAdmission(c) \/ TakeBusy(c)
               \/ RefuseBusy(c) \/ FinishWork(c) \/ ListenerRefused(c)
               \/ PrivateRefused(c) \/ RaiseFence(c) \/ LowerFence(c)
               \/ SpawnFails(c) \/ HelperEnds(c) \/ GiveUp(c) \/ OutputEnds(c)
         \/ \E c \in Commands : \E p \in Pids :
               \/ StartListener(c, p) \/ StartPrivate(c, p)
         \/ \E o \in Owners :
               \/ DropBusy(o) \/ DropGuard(o) \/ DropLease(o)
         \/ \E p \in Pids :
               \/ HandleTerminated(p)
         \/ RequestExit
  BY DEF Next, Step, Drop, Happens, desktop, guards, slots, Invoke,
         RequestStop, ConfirmStop, StopTimesOut, SpawnHelper, Exit,
         LoseChannel, Reap, TakeExclusive, OtherCleanup, CloseWindow,
         ShowWindow, SetKeepRunning, Relaunch, vars

LEMMA DropStep ==
  ASSUME TypeOK, PlaceInv, WaitInv, DropInv, [Next]_vars
  PROVE  DropInv'
<1>. SUFFICES ASSUME NEW d \in Owners PROVE DropOf(d)'
  BY DEF DropInv
<1>a. DropOf(d) /\ d \in Owners
  BY DEF DropInv, Owners
<1>0. /\ DOMAIN own = Owners /\ DOMAIN cmd = Commands
      /\ \A x \in Owners : own[x] \in
            [guard : Guard, lease : BOOLEAN, busy : Families \union {None}]
      /\ Commands \subseteq Owners /\ Pids \subseteq Owners
      /\ Commands \intersect Pids = {} /\ None \notin Owners
      /\ child \in Pids \union {None} /\ private \in Pids \union {None}
  BY DesktopAssumption DEF TypeOK, Owners
<1>. USE <1>0, <1>a, NotDropping DEF DropOf, At, Nothing
<1>1. ASSUME NEW c \in Commands,
             TakeLease(c)
      PROVE  DropOf(d)'
  BY <1>1 DEF TakeLease, At, Goto, Return
<1>2. ASSUME NEW c \in Commands,
             Admit(c)
      PROVE  DropOf(d)'
  BY <1>2 DEF Admit, At, Goto, Guarded, Admissible
<1>3. ASSUME NEW c \in Commands,
             AdmitExclusive(c)
      PROVE  DropOf(d)'
  BY <1>3 DEF AdmitExclusive, At, Goto, Guarded, Admissible
<1>4. ASSUME NEW c \in Commands,
             BeginMaintenance(c)
      PROVE  DropOf(d)'
  BY <1>4 DEF BeginMaintenance, At, Goto, Guarded
<1>5. ASSUME NEW c \in Commands,
             RefuseAdmission(c)
      PROVE  DropOf(d)'
  BY <1>5 DEF RefuseAdmission, At, Return, Goto
<1>6. ASSUME NEW c \in Commands,
             TakeBusy(c)
      PROVE  DropOf(d)'
  BY <1>6 DEF TakeBusy, At, Goto
<1>7. ASSUME NEW c \in Commands,
             RefuseBusy(c)
      PROVE  DropOf(d)'
  BY <1>7 DEF RefuseBusy, At, Return, Goto
<1>8. ASSUME NEW c \in Commands,
             FinishWork(c)
      PROVE  DropOf(d)'
  BY <1>8, ZenonT(60) DEF FinishWork, At, Return, Goto
<1>9. ASSUME NEW c \in Commands,
             ListenerRefused(c)
      PROVE  DropOf(d)'
  BY <1>9, ZenonT(60) DEF ListenerRefused, At, Return, Goto
<1>10. ASSUME NEW c \in Commands,
             PrivateRefused(c)
      PROVE  DropOf(d)'
  BY <1>10, ZenonT(60) DEF PrivateRefused, At, Return, Goto
<1>11. ASSUME NEW c \in Commands,
             RaiseFence(c)
      PROVE  DropOf(d)'
  BY <1>11, ZenonT(60) DEF RaiseFence, At, Return, Goto, SlotOpen
<1>12. ASSUME NEW c \in Commands,
             LowerFence(c)
      PROVE  DropOf(d)'
  BY <1>12 DEF LowerFence, At, Return, Goto
<1>13. ASSUME NEW c \in Commands,
             SpawnFails(c)
      PROVE  DropOf(d)'
  BY <1>13 DEF SpawnFails, At, Return, Goto
<1>14. ASSUME NEW c \in Commands,
             HelperEnds(c)
      PROVE  DropOf(d)'
  BY <1>14 DEF HelperEnds, At, Return, Goto, Free
<1>15. ASSUME NEW c \in Commands,
             GiveUp(c)
      PROVE  DropOf(d)'
  BY <1>15, Waiting DEF GiveUp, At, HandOver, DropInv
<1>16. ASSUME NEW c \in Commands,
             OutputEnds(c)
      PROVE  DropOf(d)'
  BY <1>16 DEF OutputEnds, At, Return, Goto
<1>17. ASSUME NEW c \in Commands, NEW p \in Pids,
             StartListener(c, p)
      PROVE  DropOf(d)'
  BY <1>17 DEF StartListener, At, Unused, Free, HandOver, DropInv, Awaited
<1>18. ASSUME NEW c \in Commands, NEW p \in Pids,
             StartPrivate(c, p)
      PROVE  DropOf(d)'
  BY <1>18 DEF StartPrivate, At, Unused, Free, HandOver, DropInv, Awaited
<1>19. ASSUME NEW o \in Owners,
             DropBusy(o)
      PROVE  DropOf(d)'
  BY <1>19 DEF DropBusy, Settle
<1>20. ASSUME NEW o \in Owners,
             DropGuard(o)
      PROVE  DropOf(d)'
  BY <1>20 DEF DropGuard, Settle
<1>21. ASSUME NEW o \in Owners,
             DropLease(o)
      PROVE  DropOf(d)'
  BY <1>21 DEF DropLease, Settle
<1>22. ASSUME NEW p \in Pids,
             HandleTerminated(p)
      PROVE  DropOf(d)'
  BY <1>22 DEF HandleTerminated, Free
<1>23. CASE RequestExit
  <2>1. CASE life.active > 0
    BY <1>23, <2>1 DEF RequestExit, guards, slots
  <2>2. CASE ~(life.active > 0)
    <3>1. own' = [o \in Owners |-> Nothing] /\ cmd' = [c \in Commands |-> Idle] /\ dropping' = {}
      BY <1>23, <2>2 DEF RequestExit
    <3>2. own'[d] = Nothing
      BY <1>a, <3>1
    <3>. QED
      BY <3>1, <3>2
  <2>. QED
    BY <2>1, <2>2
<1>24. CASE UNCHANGED <<own, dropping>>
  BY <1>24
<1>. QED
  BY DropChange, <1>1, <1>2, <1>3, <1>4, <1>5, <1>6, <1>7, <1>8, <1>9, <1>10,
     <1>11, <1>12, <1>13, <1>14, <1>15, <1>16, <1>17, <1>18, <1>19, <1>20,
     <1>21, <1>22, <1>23, <1>24

\* What changes own, cmd, child, private, dropping.
LEMMA WaitChange ==
  ASSUME [Next]_vars
  PROVE  \/ UNCHANGED <<own, cmd, child, private, dropping>>
         \/ \E c \in Commands : \E kind \in Kinds :
               \/ Invoke(c, kind)
         \/ \E c \in Commands :
               \/ TakeLease(c) \/ Admit(c) \/ AdmitExclusive(c)
               \/ BeginMaintenance(c) \/ RefuseAdmission(c) \/ TakeBusy(c)
               \/ RefuseBusy(c) \/ FinishWork(c) \/ ListenerRefused(c)
               \/ PrivateRefused(c) \/ RaiseFence(c) \/ RequestStop(c)
               \/ ConfirmStop(c) \/ StopTimesOut(c) \/ LowerFence(c)
               \/ SpawnFails(c) \/ HelperEnds(c) \/ GiveUp(c) \/ OutputEnds(c)
         \/ \E c \in Commands : \E p \in Pids :
               \/ StartListener(c, p) \/ StartPrivate(c, p)
               \/ SpawnHelper(c, p)
         \/ \E o \in Owners :
               \/ DropBusy(o) \/ DropGuard(o) \/ DropLease(o)
         \/ \E p \in Pids :
               \/ HandleTerminated(p)
         \/ RequestExit
  BY DEF Next, Step, Drop, Happens, desktop, guards, slots, Exit, LoseChannel,
         Reap, TakeExclusive, OtherCleanup, CloseWindow, ShowWindow,
         SetKeepRunning, Relaunch, vars

LEMMA WaitStep ==
  ASSUME TypeOK, PlaceInv, WaitInv, OnlyWait, [Next]_vars
  PROVE  WaitInv'
<1>. SUFFICES ASSUME NEW d \in Commands PROVE WaitOf(d)'
  BY DEF WaitInv
<1>a. WaitOf(d) /\ d \in Owners
  BY DEF WaitInv, Owners
<1>0. /\ DOMAIN own = Owners /\ DOMAIN cmd = Commands
      /\ \A x \in Owners : own[x] \in
            [guard : Guard, lease : BOOLEAN, busy : Families \union {None}]
      /\ Commands \subseteq Owners /\ Pids \subseteq Owners
      /\ Commands \intersect Pids = {} /\ None \notin Owners
      /\ child \in Pids \union {None} /\ private \in Pids \union {None}
  BY DesktopAssumption DEF TypeOK, Owners
<1>. USE <1>0, <1>a DEF WaitOf, At, Nothing, Idle, guards, slots
<1>1. ASSUME NEW c \in Commands, NEW kind \in Kinds,
             Invoke(c, kind)
      PROVE  WaitOf(d)'
  BY <1>1 DEF Invoke, At
<1>2. ASSUME NEW c \in Commands,
             TakeLease(c)
      PROVE  WaitOf(d)'
  <2>1. CASE excl # None
    BY <1>2, <2>1, ReturnWaits DEF TakeLease
  <2>2. CASE ~(excl # None)
    <3>1. cmd' = [cmd EXCEPT ![c].pc = "admit"] /\ own' = [own EXCEPT ![c].lease = TRUE]
      BY <1>2, <2>2 DEF TakeLease, Goto
    <3>. QED
      BY <1>2, <3>1 DEF TakeLease
  <2>. QED
    BY <2>1, <2>2
<1>3. ASSUME NEW c \in Commands,
             Admit(c)
      PROVE  WaitOf(d)'
  BY <1>3 DEF Admit, At, Goto, Guarded, Admissible
<1>4. ASSUME NEW c \in Commands,
             AdmitExclusive(c)
      PROVE  WaitOf(d)'
  BY <1>4 DEF AdmitExclusive, At, Goto, Guarded, Admissible
<1>5. ASSUME NEW c \in Commands,
             BeginMaintenance(c)
      PROVE  WaitOf(d)'
  BY <1>5 DEF BeginMaintenance, At, Goto, Guarded
<1>6. ASSUME NEW c \in Commands,
             RefuseAdmission(c)
      PROVE  WaitOf(d)'
  BY <1>6, ReturnWaits DEF RefuseAdmission
<1>7. ASSUME NEW c \in Commands,
             TakeBusy(c)
      PROVE  WaitOf(d)'
  BY <1>7 DEF TakeBusy, At, Goto
<1>8. ASSUME NEW c \in Commands,
             RefuseBusy(c)
      PROVE  WaitOf(d)'
  BY <1>8, ReturnWaits DEF RefuseBusy
<1>9. ASSUME NEW c \in Commands,
             FinishWork(c)
      PROVE  WaitOf(d)'
  BY <1>9, ReturnWaits DEF FinishWork
<1>10. ASSUME NEW c \in Commands,
             ListenerRefused(c)
      PROVE  WaitOf(d)'
  BY <1>10, ReturnWaits DEF ListenerRefused
<1>11. ASSUME NEW c \in Commands,
             PrivateRefused(c)
      PROVE  WaitOf(d)'
  BY <1>11, ReturnWaits DEF PrivateRefused
<1>12. ASSUME NEW c \in Commands,
             RaiseFence(c)
      PROVE  WaitOf(d)'
  <2>1. CASE child = None \/ stopping # None
    BY <1>12, <2>1, ReturnWaits DEF RaiseFence
  <2>2. CASE ~(child = None \/ stopping # None)
    <3>1. cmd' = [cmd EXCEPT ![c].pc = "request", ![c].pid = child]
      BY <1>12, <2>2 DEF RaiseFence
    <3>. QED
      BY <1>12, <3>1 DEF RaiseFence
  <2>. QED
    BY <2>1, <2>2
<1>13. ASSUME NEW c \in Commands,
             RequestStop(c)
      PROVE  WaitOf(d)'
  <2>1. \E loc \in {"poll", "unfence"} : cmd' = [cmd EXCEPT ![c].pc = loc]
    BY <1>13 DEF RequestStop, Goto
  <2>. QED
    BY <1>13, <2>1 DEF RequestStop
<1>14. ASSUME NEW c \in Commands,
             ConfirmStop(c)
      PROVE  WaitOf(d)'
  BY <1>14 DEF ConfirmStop, At, SlotOpen
<1>15. ASSUME NEW c \in Commands,
             StopTimesOut(c)
      PROVE  WaitOf(d)'
  BY <1>15 DEF StopTimesOut, At
<1>16. ASSUME NEW c \in Commands,
             LowerFence(c)
      PROVE  WaitOf(d)'
  BY <1>16, ReturnWaits DEF LowerFence
<1>17. ASSUME NEW c \in Commands,
             SpawnFails(c)
      PROVE  WaitOf(d)'
  BY <1>17, ReturnWaits DEF SpawnFails
<1>18. ASSUME NEW c \in Commands,
             HelperEnds(c)
      PROVE  WaitOf(d)'
  BY <1>18, ReturnWaits DEF HelperEnds
<1>19. ASSUME NEW c \in Commands,
             GiveUp(c)
      PROVE  WaitOf(d)'
  <2>1. CASE d # c
    <3>1. At(d, "wait") => cmd[d].pid # cmd[c].pid
      BY <1>19, <2>1 DEF GiveUp, OnlyWait, OnlyOf
    <3>. QED
      BY <1>19, <2>1, <3>1 DEF GiveUp, HandOver
  <2>2. CASE d = c
    BY <1>19, <2>2 DEF GiveUp, HandOver
  <2>. QED
    BY <2>1, <2>2
<1>20. ASSUME NEW c \in Commands,
             OutputEnds(c)
      PROVE  WaitOf(d)'
  BY <1>20, ReturnWaits DEF OutputEnds
<1>21. ASSUME NEW c \in Commands, NEW p \in Pids,
             StartListener(c, p)
      PROVE  WaitOf(d)'
  BY <1>21 DEF StartListener, At, Unused, Free, HandOver, Awaited
<1>22. ASSUME NEW c \in Commands, NEW p \in Pids,
             StartPrivate(c, p)
      PROVE  WaitOf(d)'
  BY <1>22 DEF StartPrivate, At, Unused, Free, HandOver, Awaited
<1>23. ASSUME NEW c \in Commands, NEW p \in Pids,
             SpawnHelper(c, p)
      PROVE  WaitOf(d)'
  BY <1>23 DEF SpawnHelper, At, Spawn, Unused, Free, Awaited
<1>24. ASSUME NEW o \in Owners,
             DropBusy(o)
      PROVE  WaitOf(d)'
  BY <1>24 DEF DropBusy, Settle
<1>25. ASSUME NEW o \in Owners,
             DropGuard(o)
      PROVE  WaitOf(d)'
  BY <1>25 DEF DropGuard, Settle
<1>26. ASSUME NEW o \in Owners,
             DropLease(o)
      PROVE  WaitOf(d)'
  BY <1>26 DEF DropLease, Settle
<1>27. ASSUME NEW p \in Pids,
             HandleTerminated(p)
      PROVE  WaitOf(d)'
  BY <1>27 DEF HandleTerminated, Free
<1>28. CASE RequestExit
  <2>1. CASE life.active > 0
    BY <1>28, <2>1 DEF RequestExit, guards, slots
  <2>2. CASE ~(life.active > 0)
    <3>1. own' = [o \in Owners |-> Nothing] /\ cmd' = [c \in Commands |-> Idle] /\ dropping' = {}
      BY <1>28, <2>2 DEF RequestExit
    <3>2. cmd'[d] = Idle
      BY <1>a, <3>1
    <3>. QED
      BY <3>1, <3>2
  <2>. QED
    BY <2>1, <2>2
<1>29. CASE UNCHANGED <<own, cmd, child, private, dropping>>
  BY <1>29
<1>. QED
  BY WaitChange, <1>1, <1>2, <1>3, <1>4, <1>5, <1>6, <1>7, <1>8, <1>9, <1>10,
     <1>11, <1>12, <1>13, <1>14, <1>15, <1>16, <1>17, <1>18, <1>19, <1>20,
     <1>21, <1>22, <1>23, <1>24, <1>25, <1>26, <1>27, <1>28, <1>29

LEMMA OnlyStep ==
  ASSUME TypeOK, WaitInv, OnlyWait, [Next]_vars
  PROVE  OnlyWait'
<1>. SUFFICES ASSUME NEW d \in Commands PROVE OnlyOf(d)'
  BY DEF OnlyWait
<1>a. OnlyOf(d) /\ d \in Owners
  BY DEF OnlyWait, Owners
<1>0. /\ DOMAIN own = Owners /\ DOMAIN cmd = Commands
      /\ \A x \in Owners : own[x] \in
            [guard : Guard, lease : BOOLEAN, busy : Families \union {None}]
      /\ Commands \subseteq Owners /\ Pids \subseteq Owners
      /\ Commands \intersect Pids = {} /\ None \notin Owners
      /\ child \in Pids \union {None} /\ private \in Pids \union {None}
  BY DesktopAssumption DEF TypeOK, Owners
<1>. USE <1>0, <1>a DEF OnlyOf, At, Idle, guards, slots
<1>1. ASSUME NEW c \in Commands, NEW kind \in Kinds,
             Invoke(c, kind)
      PROVE  OnlyOf(d)'
  BY <1>1 DEF Invoke, At
<1>2. ASSUME NEW c \in Commands,
             TakeLease(c)
      PROVE  OnlyOf(d)'
  <2>1. CASE excl # None
    BY <1>2, <2>1, ReturnWaits DEF TakeLease
  <2>2. CASE ~(excl # None)
    <3>1. cmd' = [cmd EXCEPT ![c].pc = "admit"] /\ own' = [own EXCEPT ![c].lease = TRUE]
      BY <1>2, <2>2 DEF TakeLease, Goto
    <3>. QED
      BY <1>2, <3>1 DEF TakeLease
  <2>. QED
    BY <2>1, <2>2
<1>3. ASSUME NEW c \in Commands,
             Admit(c)
      PROVE  OnlyOf(d)'
  BY <1>3 DEF Admit, At, Goto, Guarded, Admissible
<1>4. ASSUME NEW c \in Commands,
             AdmitExclusive(c)
      PROVE  OnlyOf(d)'
  BY <1>4 DEF AdmitExclusive, At, Goto, Guarded, Admissible
<1>5. ASSUME NEW c \in Commands,
             BeginMaintenance(c)
      PROVE  OnlyOf(d)'
  BY <1>5 DEF BeginMaintenance, At, Goto, Guarded
<1>6. ASSUME NEW c \in Commands,
             RefuseAdmission(c)
      PROVE  OnlyOf(d)'
  BY <1>6, ReturnWaits DEF RefuseAdmission
<1>7. ASSUME NEW c \in Commands,
             TakeBusy(c)
      PROVE  OnlyOf(d)'
  BY <1>7 DEF TakeBusy, At, Goto
<1>8. ASSUME NEW c \in Commands,
             RefuseBusy(c)
      PROVE  OnlyOf(d)'
  BY <1>8, ReturnWaits DEF RefuseBusy
<1>9. ASSUME NEW c \in Commands,
             FinishWork(c)
      PROVE  OnlyOf(d)'
  BY <1>9, ReturnWaits DEF FinishWork
<1>10. ASSUME NEW c \in Commands,
             ListenerRefused(c)
      PROVE  OnlyOf(d)'
  BY <1>10, ReturnWaits DEF ListenerRefused
<1>11. ASSUME NEW c \in Commands,
             PrivateRefused(c)
      PROVE  OnlyOf(d)'
  BY <1>11, ReturnWaits DEF PrivateRefused
<1>12. ASSUME NEW c \in Commands,
             RaiseFence(c)
      PROVE  OnlyOf(d)'
  <2>1. CASE child = None \/ stopping # None
    BY <1>12, <2>1, ReturnWaits DEF RaiseFence
  <2>2. CASE ~(child = None \/ stopping # None)
    <3>1. cmd' = [cmd EXCEPT ![c].pc = "request", ![c].pid = child]
      BY <1>12, <2>2 DEF RaiseFence
    <3>. QED
      BY <1>12, <3>1 DEF RaiseFence
  <2>. QED
    BY <2>1, <2>2
<1>13. ASSUME NEW c \in Commands,
             RequestStop(c)
      PROVE  OnlyOf(d)'
  <2>1. \E loc \in {"poll", "unfence"} : cmd' = [cmd EXCEPT ![c].pc = loc]
    BY <1>13 DEF RequestStop, Goto
  <2>. QED
    BY <1>13, <2>1 DEF RequestStop
<1>14. ASSUME NEW c \in Commands,
             ConfirmStop(c)
      PROVE  OnlyOf(d)'
  BY <1>14 DEF ConfirmStop, At, SlotOpen
<1>15. ASSUME NEW c \in Commands,
             StopTimesOut(c)
      PROVE  OnlyOf(d)'
  BY <1>15 DEF StopTimesOut, At
<1>16. ASSUME NEW c \in Commands,
             LowerFence(c)
      PROVE  OnlyOf(d)'
  BY <1>16, ReturnWaits DEF LowerFence
<1>17. ASSUME NEW c \in Commands,
             SpawnFails(c)
      PROVE  OnlyOf(d)'
  BY <1>17, ReturnWaits DEF SpawnFails
<1>18. ASSUME NEW c \in Commands,
             HelperEnds(c)
      PROVE  OnlyOf(d)'
  BY <1>18, ReturnWaits DEF HelperEnds
<1>19. ASSUME NEW c \in Commands,
             GiveUp(c)
      PROVE  OnlyOf(d)'
  BY <1>19 DEF GiveUp, At, HandOver
<1>20. ASSUME NEW c \in Commands,
             OutputEnds(c)
      PROVE  OnlyOf(d)'
  BY <1>20, ReturnWaits DEF OutputEnds
<1>21. ASSUME NEW c \in Commands, NEW p \in Pids,
             StartListener(c, p)
      PROVE  OnlyOf(d)'
  BY <1>21 DEF StartListener, At, Unused, Free, HandOver, Awaited
<1>22. ASSUME NEW c \in Commands, NEW p \in Pids,
             StartPrivate(c, p)
      PROVE  OnlyOf(d)'
  BY <1>22 DEF StartPrivate, At, Unused, Free, HandOver, Awaited
<1>23. ASSUME NEW c \in Commands, NEW p \in Pids,
             SpawnHelper(c, p)
      PROVE  OnlyOf(d)'
  BY <1>23 DEF SpawnHelper, At, Spawn, Unused, Free, Awaited
<1>24. ASSUME NEW o \in Owners,
             DropBusy(o)
      PROVE  OnlyOf(d)'
  BY <1>24 DEF DropBusy, Settle
<1>25. ASSUME NEW o \in Owners,
             DropGuard(o)
      PROVE  OnlyOf(d)'
  BY <1>25 DEF DropGuard, Settle
<1>26. ASSUME NEW o \in Owners,
             DropLease(o)
      PROVE  OnlyOf(d)'
  BY <1>26 DEF DropLease, Settle
<1>27. CASE RequestExit
  <2>1. cmd' = cmd \/ \A e \in Commands : cmd'[e] = Idle
    BY <1>27 DEF RequestExit
  <2>. QED
    BY <2>1
<1>28. CASE UNCHANGED <<cmd>>
  BY <1>28
<1>. QED
  BY CmdChange, <1>1, <1>2, <1>3, <1>4, <1>5, <1>6, <1>7, <1>8, <1>9, <1>10,
     <1>11, <1>12, <1>13, <1>14, <1>15, <1>16, <1>17, <1>18, <1>19, <1>20,
     <1>21, <1>22, <1>23, <1>24, <1>25, <1>26, <1>27, <1>28

\* What changes own, dropping, child, private.
LEMMA HolderChange ==
  ASSUME [Next]_vars
  PROVE  \/ UNCHANGED <<own, dropping, child, private>>
         \/ \E c \in Commands :
               \/ TakeLease(c) \/ Admit(c) \/ AdmitExclusive(c)
               \/ BeginMaintenance(c) \/ RefuseAdmission(c) \/ TakeBusy(c)
               \/ RefuseBusy(c) \/ FinishWork(c) \/ ListenerRefused(c)
               \/ PrivateRefused(c) \/ RaiseFence(c) \/ LowerFence(c)
               \/ SpawnFails(c) \/ HelperEnds(c) \/ GiveUp(c) \/ OutputEnds(c)
         \/ \E c \in Commands : \E p \in Pids :
               \/ StartListener(c, p) \/ StartPrivate(c, p)
         \/ \E o \in Owners :
               \/ DropBusy(o) \/ DropGuard(o) \/ DropLease(o)
         \/ \E p \in Pids :
               \/ HandleTerminated(p)
         \/ RequestExit
  BY ZenonT(60) DEF Next, Step, Drop, Happens, desktop, guards, slots, Invoke,
         RequestStop, ConfirmStop, StopTimesOut, SpawnHelper, Exit,
         LoseChannel, Reap, TakeExclusive, OtherCleanup, CloseWindow,
         ShowWindow, SetKeepRunning, Relaunch, vars

LEMMA GuardedSlotStep ==
  ASSUME TypeOK, PlaceInv, WaitInv, DropInv, SlotInv, [Next]_vars
  PROVE  SlotInv'
<1>0. /\ DOMAIN own = Owners /\ DOMAIN cmd = Commands
      /\ \A x \in Owners : own[x] \in
            [guard : Guard, lease : BOOLEAN, busy : Families \union {None}]
      /\ Commands \subseteq Owners /\ Pids \subseteq Owners
      /\ Commands \intersect Pids = {} /\ None \notin Owners
      /\ child \in Pids \union {None} /\ private \in Pids \union {None}
  BY DesktopAssumption DEF TypeOK, Owners
<1>. USE <1>0, NotDropping DEF SlotInv, At, Nothing, guards, slots
<1>1. ASSUME NEW c \in Commands,
             TakeLease(c)
      PROVE  SlotInv'
  BY <1>1 DEF TakeLease, At, Goto, Return
<1>2. ASSUME NEW c \in Commands,
             Admit(c)
      PROVE  SlotInv'
  BY <1>2 DEF Admit, At, Goto, Guarded, Admissible
<1>3. ASSUME NEW c \in Commands,
             AdmitExclusive(c)
      PROVE  SlotInv'
  BY <1>3 DEF AdmitExclusive, At, Goto, Guarded, Admissible
<1>4. ASSUME NEW c \in Commands,
             BeginMaintenance(c)
      PROVE  SlotInv'
  BY <1>4 DEF BeginMaintenance, At, Goto, Guarded
<1>5. ASSUME NEW c \in Commands,
             RefuseAdmission(c)
      PROVE  SlotInv'
  BY <1>5 DEF RefuseAdmission, At, Return, Goto
<1>6. ASSUME NEW c \in Commands,
             TakeBusy(c)
      PROVE  SlotInv'
  BY <1>6 DEF TakeBusy, At, Goto
<1>7. ASSUME NEW c \in Commands,
             RefuseBusy(c)
      PROVE  SlotInv'
  BY <1>7 DEF RefuseBusy, At, Return, Goto
<1>8. ASSUME NEW c \in Commands,
             FinishWork(c)
      PROVE  SlotInv'
  BY <1>8 DEF FinishWork, At, Return, Goto
<1>9. ASSUME NEW c \in Commands,
             ListenerRefused(c)
      PROVE  SlotInv'
  BY <1>9 DEF ListenerRefused, At, Return, Goto
<1>10. ASSUME NEW c \in Commands,
             PrivateRefused(c)
      PROVE  SlotInv'
  BY <1>10 DEF PrivateRefused, At, Return, Goto
<1>11. ASSUME NEW c \in Commands,
             RaiseFence(c)
      PROVE  SlotInv'
  BY <1>11 DEF RaiseFence, At, Return, Goto, SlotOpen
<1>12. ASSUME NEW c \in Commands,
             LowerFence(c)
      PROVE  SlotInv'
  BY <1>12 DEF LowerFence, At, Return, Goto
<1>13. ASSUME NEW c \in Commands,
             SpawnFails(c)
      PROVE  SlotInv'
  BY <1>13 DEF SpawnFails, At, Return, Goto
<1>14. ASSUME NEW c \in Commands,
             HelperEnds(c)
      PROVE  SlotInv'
  BY <1>14 DEF HelperEnds, At, Return, Goto, Free
<1>15. ASSUME NEW c \in Commands,
             GiveUp(c)
      PROVE  SlotInv'
  BY <1>15, Waiting DEF GiveUp, At, HandOver
<1>16. ASSUME NEW c \in Commands,
             OutputEnds(c)
      PROVE  SlotInv'
  BY <1>16 DEF OutputEnds, At, Return, Goto
<1>17. ASSUME NEW c \in Commands, NEW p \in Pids,
             StartListener(c, p)
      PROVE  SlotInv'
  BY <1>17 DEF StartListener, At, Unused, Free, HandOver, Awaited, PlaceInv,
     PlaceOf
<1>18. ASSUME NEW c \in Commands, NEW p \in Pids,
             StartPrivate(c, p)
      PROVE  SlotInv'
  BY <1>18 DEF StartPrivate, At, Unused, Free, HandOver, Awaited, PlaceInv,
     PlaceOf
<1>19. ASSUME NEW o \in Owners,
             DropBusy(o)
      PROVE  SlotInv'
  BY <1>19 DEF DropBusy, Settle
<1>20. ASSUME NEW o \in Owners,
             DropGuard(o)
      PROVE  SlotInv'
  BY <1>20 DEF DropGuard, Settle
<1>21. ASSUME NEW o \in Owners,
             DropLease(o)
      PROVE  SlotInv'
  BY <1>21 DEF DropLease, Settle
<1>22. ASSUME NEW p \in Pids,
             HandleTerminated(p)
      PROVE  SlotInv'
  BY <1>22 DEF HandleTerminated, Free
<1>23. CASE RequestExit
  <2>1. child' = None \/ UNCHANGED <<own, dropping, child, private>>
    BY <1>23 DEF RequestExit, guards, slots
  <2>2. child' = None => private' = None \/ UNCHANGED <<own, dropping, child, private>>
    BY <1>23 DEF RequestExit, guards, slots
  <2>. QED
    BY <2>1, <2>2
<1>24. CASE UNCHANGED <<own, dropping, child, private>>
  BY <1>24
<1>. QED
  BY HolderChange, <1>1, <1>2, <1>3, <1>4, <1>5, <1>6, <1>7, <1>8, <1>9,
     <1>10, <1>11, <1>12, <1>13, <1>14, <1>15, <1>16, <1>17, <1>18, <1>19,
     <1>20, <1>21, <1>22, <1>23, <1>24

\* What changes excl, own.
LEMMA ExclChange ==
  ASSUME [Next]_vars
  PROVE  \/ UNCHANGED <<excl, own>>
         \/ \E c \in Commands :
               \/ TakeLease(c) \/ Admit(c) \/ AdmitExclusive(c)
               \/ BeginMaintenance(c) \/ TakeBusy(c) \/ GiveUp(c)
         \/ \E c \in Commands : \E p \in Pids :
               \/ StartListener(c, p) \/ StartPrivate(c, p)
         \/ \E o \in Owners :
               \/ DropBusy(o) \/ DropGuard(o) \/ DropLease(o)
         \/ \E p \in Pids :
               \/ Exit(p) \/ TakeExclusive(p)
         \/ OtherCleanup \/ RequestExit
  BY ZenonT(60) DEF Next, Step, Drop, Happens, desktop, guards, slots, Invoke,
         RefuseAdmission, RefuseBusy, FinishWork, ListenerRefused,
         PrivateRefused, RaiseFence, RequestStop, ConfirmStop, StopTimesOut,
         LowerFence, SpawnFails, HelperEnds, OutputEnds, SpawnHelper,
         HandleTerminated, LoseChannel, Reap, CloseWindow, ShowWindow,
         SetKeepRunning, Relaunch, vars

LEMMA ExclStep ==
  ASSUME TypeOK, ExclInv, [Next]_vars
  PROVE  ExclInv'
<1>0. /\ DOMAIN own = Owners /\ DOMAIN cmd = Commands
      /\ \A x \in Owners : own[x] \in
            [guard : Guard, lease : BOOLEAN, busy : Families \union {None}]
      /\ Commands \subseteq Owners /\ Pids \subseteq Owners
      /\ Commands \intersect Pids = {} /\ None \notin Owners
      /\ child \in Pids \union {None} /\ private \in Pids \union {None}
  BY DesktopAssumption DEF TypeOK, Owners
<1>. USE <1>0 DEF ExclInv, Unread, At, Nothing, guards, slots
<1>1. ASSUME NEW c \in Commands,
             TakeLease(c)
      PROVE  ExclInv'
  BY <1>1 DEF TakeLease, At, Goto, Return
<1>2. ASSUME NEW c \in Commands,
             Admit(c)
      PROVE  ExclInv'
  BY <1>2 DEF Admit, At, Goto, Guarded, Admissible
<1>3. ASSUME NEW c \in Commands,
             AdmitExclusive(c)
      PROVE  ExclInv'
  BY <1>3 DEF AdmitExclusive, At, Goto, Guarded, Admissible
<1>4. ASSUME NEW c \in Commands,
             BeginMaintenance(c)
      PROVE  ExclInv'
  BY <1>4 DEF BeginMaintenance, At, Goto, Guarded
<1>5. ASSUME NEW c \in Commands,
             TakeBusy(c)
      PROVE  ExclInv'
  BY <1>5 DEF TakeBusy, At, Goto
<1>6. ASSUME NEW c \in Commands,
             GiveUp(c)
      PROVE  ExclInv'
  BY <1>6 DEF GiveUp, At, HandOver
<1>7. ASSUME NEW c \in Commands, NEW p \in Pids,
             StartListener(c, p)
      PROVE  ExclInv'
  BY <1>7 DEF StartListener, At, Unused, Free, HandOver
<1>8. ASSUME NEW c \in Commands, NEW p \in Pids,
             StartPrivate(c, p)
      PROVE  ExclInv'
  BY <1>8 DEF StartPrivate, At, Unused, Free, HandOver
<1>9. ASSUME NEW o \in Owners,
             DropBusy(o)
      PROVE  ExclInv'
  BY <1>9 DEF DropBusy, Settle
<1>10. ASSUME NEW o \in Owners,
             DropGuard(o)
      PROVE  ExclInv'
  BY <1>10 DEF DropGuard, Settle
<1>11. ASSUME NEW o \in Owners,
             DropLease(o)
      PROVE  ExclInv'
  BY <1>11 DEF DropLease, Settle
<1>12. ASSUME NEW p \in Pids,
             Exit(p)
      PROVE  ExclInv'
  BY <1>12 DEF Exit, Running
<1>13. ASSUME NEW p \in Pids,
             TakeExclusive(p)
      PROVE  ExclInv'
  BY <1>13 DEF TakeExclusive, Running
<1>14. CASE OtherCleanup
  BY <1>14 DEF OtherCleanup
<1>15. CASE RequestExit
  <2>1. own' = own \/ \A o \in Owners : own'[o] = Nothing
    BY <1>15 DEF RequestExit, guards
  <2>2. excl' = excl
    BY <1>15 DEF RequestExit
  <2>. QED
    BY <2>1, <2>2
<1>16. CASE UNCHANGED <<excl, own>>
  BY <1>16
<1>. QED
  BY ExclChange, <1>1, <1>2, <1>3, <1>4, <1>5, <1>6, <1>7, <1>8, <1>9, <1>10,
     <1>11, <1>12, <1>13, <1>14, <1>15, <1>16

-----------------------------------------------------------------------------
(* Supervised processes, and the counter of the lifecycle.                   *)

WaitedFor(p) == \E c \in Commands :
    At(c, "wait") /\ cmd[c].pid = p /\ cmd[c].kind = proc[p].kind
OrphanOf(p) ==
    Running(p) /\ Supervised(proc[p].kind) =>
        (own[p].guard # "none" /\ p \notin dropping) \/ WaitedFor(p)
OrphanInv == \A p \in Pids : OrphanOf(p)

CountInv == IsFiniteSet(Holders) /\ life.active = Cardinality(Holders)

FlagInv ==
    /\ life.exclusive <=> \E o \in Owners : own[o].guard = "exclusive"
    /\ life.maintenance <=> \E o \in Owners : own[o].guard = "maintenance"

ExitInv == (~alive => life.exiting) /\ ExitIsFinal

\* A supervised process stays in somebody's hands.
LEMMA Watched ==
  ASSUME NEW p \in Pids, OrphanOf(p),
         Running(p)' => Running(p) /\ proc'[p].kind = proc[p].kind,
         own[p].guard # "none" /\ p \notin dropping =>
             own'[p].guard # "none" /\ p \notin dropping',
         \A e \in Commands : At(e, "wait") /\ cmd[e].pid = p /\ cmd[e].kind = proc[p].kind
             => cmd'[e] = cmd[e]
  PROVE  OrphanOf(p)'
<1>1. SUFFICES ASSUME Running(p)', Supervised(proc'[p].kind)
               PROVE  (own'[p].guard # "none" /\ p \notin dropping') \/ WaitedFor(p)'
  BY DEF OrphanOf
<1>2. CASE own[p].guard # "none" /\ p \notin dropping
  BY <1>2
<1>3. CASE WaitedFor(p)
  <2>1. PICK e \in Commands : At(e, "wait") /\ cmd[e].pid = p /\ cmd[e].kind = proc[p].kind
    BY <1>3 DEF WaitedFor
  <2>2. cmd'[e] = cmd[e] /\ proc'[p].kind = proc[p].kind
    BY <1>1, <2>1
  <2>. QED
    BY <2>1, <2>2 DEF WaitedFor, At
<1>. QED
  BY <1>1, <1>2, <1>3 DEF OrphanOf

LEMMA Returning ==
  ASSUME TypeOK, NEW c \in Commands, NEW p \in Pids, OrphanOf(p), Return(c),
         own' = own, proc' = proc \/ proc'[p] = proc[p],
         cmd[c].pc # "wait" \/ cmd[c].pid # p \/ cmd[c].kind # proc[p].kind
  PROVE  OrphanOf(p)'
<1>1. DOMAIN cmd = Commands /\ c # p
  BY DesktopAssumption DEF TypeOK
<1>2. \A e \in Commands : e # c => cmd'[e] = cmd[e]
  BY <1>1 DEF Return, Goto
<1>3. p \notin dropping => p \notin dropping'
  BY <1>1 DEF Return
<1>4. proc'[p] = proc[p]
  OBVIOUS
<1>. QED
  BY <1>2, <1>3, <1>4, Watched DEF At, Running

LEMMA Settling ==
  ASSUME TypeOK, PlaceInv, NEW o \in dropping, NEW r, NEW p \in Pids, OrphanOf(p),
         Settle(o, r), proc' = proc
  PROVE  OrphanOf(p)'
<1>1. DOMAIN cmd = Commands /\ DOMAIN own = Owners /\ p \in Owners
  BY DEF TypeOK, Owners
<1>2. \A e \in Commands : At(e, "wait") => cmd'[e] = cmd[e]
  <2>1. o \in Commands => cmd[o].pc = "drop"
    BY DEF PlaceInv, PlaceOf, At
  <2>2. cmd' = cmd \/ (o \in Commands /\ cmd' = [cmd EXCEPT ![o] = Idle])
    BY DEF Settle
  <2>. QED
    BY <1>1, <2>1, <2>2 DEF At
<1>3. p \notin dropping => own'[p] = own[p] /\ p \notin dropping'
  <2>1. own' = [own EXCEPT ![o] = r] /\ dropping' \subseteq dropping
    BY DEF Settle
  <2>. QED
    BY <1>1, <2>1
<1>. QED
  BY <1>2, <1>3, Watched DEF Running

\* A command hands its guard over to the process it has started.
LEMMA Handing ==
  ASSUME TypeOK, PlaceInv, DropInv, NEW c \in Commands, NEW q \in Pids, NEW p \in Pids,
         OrphanOf(p), At(c, "act"), Unused(q), HandOver(c, q),
         \A x \in Pids : x # q => proc'[x] = proc[x]
  PROVE  OrphanOf(p)'
<1>1. /\ DOMAIN cmd = Commands /\ DOMAIN own = Owners /\ Pids \subseteq Owners
      /\ Commands \subseteq Owners /\ Commands \intersect Pids = {}
  BY DesktopAssumption DEF TypeOK, Owners
<1>2. CASE p # q
  <2>1. own'[p] = own[p] /\ dropping' = dropping
    BY <1>1, <1>2 DEF HandOver
  <2>2. \A e \in Commands : At(e, "wait") => cmd'[e] = cmd[e]
    BY <1>1 DEF HandOver, At
  <2>. QED
    BY <1>2, <2>1, <2>2, Watched DEF Running
<1>3. CASE p = q
  <2>1. own[c].guard # "none"
    BY DEF PlaceInv, PlaceOf, At
  <2>2. q \notin dropping
    BY <1>1 DEF DropInv, DropOf, Unused, Awaited
  <2>3. own'[q] = own[c] /\ dropping' = dropping
    BY <1>1 DEF HandOver
  <2>. QED
    BY <1>3, <2>1, <2>2, <2>3 DEF OrphanOf
<1>. QED
  BY <1>2, <1>3

\* Without a guard nothing supervised runs.
LEMMA Quiet ==
  ASSUME TypeOK, PlaceInv, CountInv, life.active = 0, NEW p \in Pids, OrphanOf(p),
         Running(p)
  PROVE  ~Supervised(proc[p].kind)
<1>1. \A o \in Owners : own[o].guard = "none"
  BY FS_EmptySet DEF CountInv, Holders
<1>2. \A c \in Commands : At(c, "wait") => cmd[c].kind = "keep"
  BY <1>1 DEF PlaceInv, PlaceOf, Owners, At
<1>. QED
  BY <1>1, <1>2 DEF OrphanOf, WaitedFor, Owners, Supervised, Helpers

\* What changes own, cmd, dropping, proc.
LEMMA OrphanChange ==
  ASSUME [Next]_vars
  PROVE  \/ UNCHANGED <<own, cmd, dropping, proc>>
         \/ \E c \in Commands : \E kind \in Kinds :
               \/ Invoke(c, kind)
         \/ \E c \in Commands :
               \/ TakeLease(c) \/ Admit(c) \/ AdmitExclusive(c)
               \/ BeginMaintenance(c) \/ RefuseAdmission(c) \/ TakeBusy(c)
               \/ RefuseBusy(c) \/ FinishWork(c) \/ ListenerRefused(c)
               \/ PrivateRefused(c) \/ RaiseFence(c) \/ RequestStop(c)
               \/ ConfirmStop(c) \/ StopTimesOut(c) \/ LowerFence(c)
               \/ SpawnFails(c) \/ HelperEnds(c) \/ GiveUp(c) \/ OutputEnds(c)
         \/ \E c \in Commands : \E p \in Pids :
               \/ StartListener(c, p) \/ StartPrivate(c, p)
               \/ SpawnHelper(c, p)
         \/ \E o \in Owners :
               \/ DropBusy(o) \/ DropGuard(o) \/ DropLease(o)
         \/ \E p \in Pids :
               \/ HandleTerminated(p) \/ Exit(p) \/ LoseChannel(p) \/ Reap(p)
         \/ RequestExit
  BY DEF Next, Step, Drop, Happens, desktop, guards, slots, TakeExclusive,
         OtherCleanup, CloseWindow, ShowWindow, SetKeepRunning, Relaunch, vars

LEMMA OrphanStep ==
  ASSUME TypeOK, PlaceInv, WaitInv, DropInv, OrphanInv, CountInv, [Next]_vars
  PROVE  OrphanInv'
<1>. SUFFICES ASSUME NEW d \in Pids PROVE OrphanOf(d)'
  BY DEF OrphanInv
<1>a. OrphanOf(d) /\ d \in Owners
  BY DEF OrphanInv, Owners
<1>0. /\ DOMAIN own = Owners /\ DOMAIN cmd = Commands
      /\ \A x \in Owners : own[x] \in
            [guard : Guard, lease : BOOLEAN, busy : Families \union {None}]
      /\ Commands \subseteq Owners /\ Pids \subseteq Owners
      /\ Commands \intersect Pids = {} /\ None \notin Owners
      /\ child \in Pids \union {None} /\ private \in Pids \union {None}
  BY DesktopAssumption DEF TypeOK, Owners
<1>. USE <1>0, <1>a, Watched DEF At, Nothing, Running, guards, slots
<1>1. ASSUME NEW c \in Commands, NEW kind \in Kinds,
             Invoke(c, kind)
      PROVE  OrphanOf(d)'
  BY <1>1 DEF Invoke, At
<1>2. ASSUME NEW c \in Commands,
             TakeLease(c)
      PROVE  OrphanOf(d)'
  BY <1>2 DEF TakeLease, At, Goto, Return
<1>3. ASSUME NEW c \in Commands,
             Admit(c)
      PROVE  OrphanOf(d)'
  BY <1>3 DEF Admit, At, Goto, Guarded, Admissible
<1>4. ASSUME NEW c \in Commands,
             AdmitExclusive(c)
      PROVE  OrphanOf(d)'
  BY <1>4 DEF AdmitExclusive, At, Goto, Guarded, Admissible
<1>5. ASSUME NEW c \in Commands,
             BeginMaintenance(c)
      PROVE  OrphanOf(d)'
  BY <1>5 DEF BeginMaintenance, At, Goto, Guarded
<1>6. ASSUME NEW c \in Commands,
             RefuseAdmission(c)
      PROVE  OrphanOf(d)'
  BY <1>6, Returning DEF RefuseAdmission, At
<1>7. ASSUME NEW c \in Commands,
             TakeBusy(c)
      PROVE  OrphanOf(d)'
  BY <1>7 DEF TakeBusy, At, Goto
<1>8. ASSUME NEW c \in Commands,
             RefuseBusy(c)
      PROVE  OrphanOf(d)'
  BY <1>8, Returning DEF RefuseBusy, At
<1>9. ASSUME NEW c \in Commands,
             FinishWork(c)
      PROVE  OrphanOf(d)'
  BY <1>9, Returning DEF FinishWork, At
<1>10. ASSUME NEW c \in Commands,
             ListenerRefused(c)
      PROVE  OrphanOf(d)'
  BY <1>10, Returning DEF ListenerRefused, At
<1>11. ASSUME NEW c \in Commands,
             PrivateRefused(c)
      PROVE  OrphanOf(d)'
  BY <1>11, Returning DEF PrivateRefused, At
<1>12. ASSUME NEW c \in Commands,
             RaiseFence(c)
      PROVE  OrphanOf(d)'
  BY <1>12 DEF RaiseFence, At, Return, Goto, SlotOpen
<1>13. ASSUME NEW c \in Commands,
             RequestStop(c)
      PROVE  OrphanOf(d)'
  BY <1>13 DEF RequestStop, At, Goto, SlotOpen
<1>14. ASSUME NEW c \in Commands,
             ConfirmStop(c)
      PROVE  OrphanOf(d)'
  BY <1>14 DEF ConfirmStop, At, SlotOpen
<1>15. ASSUME NEW c \in Commands,
             StopTimesOut(c)
      PROVE  OrphanOf(d)'
  BY <1>15 DEF StopTimesOut, At
<1>16. ASSUME NEW c \in Commands,
             LowerFence(c)
      PROVE  OrphanOf(d)'
  BY <1>16, Returning DEF LowerFence, At
<1>17. ASSUME NEW c \in Commands,
             SpawnFails(c)
      PROVE  OrphanOf(d)'
  BY <1>17, Returning DEF SpawnFails, At
<1>18. ASSUME NEW c \in Commands,
             HelperEnds(c)
      PROVE  OrphanOf(d)'
  <2>1. CASE cmd[c].pid = d
    BY <1>18, <2>1 DEF HelperEnds, Free, OrphanOf, Running
  <2>2. CASE cmd[c].pid # d
    BY <1>18, <2>2, Returning DEF HelperEnds
  <2>. QED
    BY <2>1, <2>2
<1>19. ASSUME NEW c \in Commands,
             GiveUp(c)
      PROVE  OrphanOf(d)'
  <2>1. cmd[c].pid \in Pids /\ own[cmd[c].pid] = Nothing /\ cmd[c].pid \notin dropping
    BY <1>19, Waiting DEF GiveUp, DropInv, DropOf
  <2>2. CASE cmd[c].pid = d
    <3>1. own[c].guard # "none"
      BY <1>19 DEF GiveUp, PlaceInv, PlaceOf, Helpers
    <3>2. own'[d] = own[c] /\ dropping' = dropping
      BY <1>19, <2>1, <2>2 DEF GiveUp, HandOver
    <3>. QED
      BY <2>1, <2>2, <3>1, <3>2 DEF OrphanOf
  <2>3. CASE cmd[c].pid # d
    <3>1. own'[d] = own[d] /\ dropping' = dropping /\ proc' = proc
      BY <1>19, <2>3 DEF GiveUp, HandOver
    <3>2. \A e \in Commands : e # c => cmd'[e] = cmd[e]
      BY <1>19 DEF GiveUp, HandOver
    <3>. QED
      BY <2>3, <3>1, <3>2, Watched
  <2>. QED
    BY <2>2, <2>3
<1>20. ASSUME NEW c \in Commands,
             OutputEnds(c)
      PROVE  OrphanOf(d)'
  <2>1. CASE cmd[c].pid = d /\ cmd[c].kind = proc[d].kind
    <3>1. ~Supervised(proc[d].kind)
      BY <1>20, <2>1 DEF OutputEnds, Waited, Supervised, Helpers
    <3>. QED
      BY <1>20, <3>1 DEF OutputEnds, OrphanOf
  <2>2. CASE ~(cmd[c].pid = d /\ cmd[c].kind = proc[d].kind)
    BY <1>20, <2>2, Returning DEF OutputEnds
  <2>. QED
    BY <2>1, <2>2
<1>21. ASSUME NEW c \in Commands, NEW p \in Pids,
             StartListener(c, p)
      PROVE  OrphanOf(d)'
  <2>1. \A x \in Pids : x # p => proc'[x] = proc[x]
    BY <1>21 DEF StartListener
  <2>. QED
    BY <1>21, <2>1, Handing DEF StartListener
<1>22. ASSUME NEW c \in Commands, NEW p \in Pids,
             StartPrivate(c, p)
      PROVE  OrphanOf(d)'
  <2>1. \A x \in Pids : x # p => proc'[x] = proc[x]
    BY <1>22 DEF StartPrivate
  <2>. QED
    BY <1>22, <2>1, Handing DEF StartPrivate
<1>23. ASSUME NEW c \in Commands, NEW p \in Pids,
             SpawnHelper(c, p)
      PROVE  OrphanOf(d)'
  <2>0. cmd[c] \in [kind : Kinds \union {None}, pc : Location, pid : Pids \union {None},
                    answer : {None, "stopped", "unconfirmed"}] /\ d \in DOMAIN proc
    BY <1>23 DEF TypeOK
  <2>1. CASE p = d
    <3>1. cmd'[c].pc = "wait" /\ cmd'[c].pid = d /\ cmd'[c].kind = proc'[d].kind
      BY <1>23, <2>0, <2>1 DEF SpawnHelper, Spawn, Free
    <3>. QED
      BY <1>23, <3>1 DEF OrphanOf, WaitedFor, At
  <2>2. CASE p # d
    <3>1. proc'[d] = proc[d] /\ own' = own /\ dropping' = dropping
      BY <1>23, <2>2 DEF SpawnHelper, Spawn
    <3>2. \A e \in Commands : At(e, "wait") => cmd'[e] = cmd[e]
      BY <1>23 DEF SpawnHelper, Spawn
    <3>. QED
      BY <3>1, <3>2, Watched
  <2>. QED
    BY <2>1, <2>2
<1>24. ASSUME NEW o \in Owners,
             DropBusy(o)
      PROVE  OrphanOf(d)'
  BY <1>24, Settling DEF DropBusy
<1>25. ASSUME NEW o \in Owners,
             DropGuard(o)
      PROVE  OrphanOf(d)'
  BY <1>25, Settling DEF DropGuard
<1>26. ASSUME NEW o \in Owners,
             DropLease(o)
      PROVE  OrphanOf(d)'
  BY <1>26, Settling DEF DropLease
<1>27. ASSUME NEW p \in Pids,
             HandleTerminated(p)
      PROVE  OrphanOf(d)'
  <2>0. d \in DOMAIN proc
    BY <1>27 DEF TypeOK
  <2>1. CASE p = d
    <3>1. proc'[d] = Free
      BY <1>27, <2>0, <2>1 DEF HandleTerminated
    <3>. QED
      BY <3>1 DEF OrphanOf, Free
  <2>2. CASE p # d
    <3>1. proc'[d] = proc[d] /\ own' = own /\ cmd' = cmd /\ dropping' = dropping \union {p}
      BY <1>27, <2>0, <2>2 DEF HandleTerminated
    <3>2. d \notin dropping => d \notin dropping'
      BY <2>2, <3>1
    <3>3. \A e \in Commands : cmd'[e] = cmd[e]
      BY <3>1
    <3>. QED
      BY <3>1, <3>2, <3>3, Watched
  <2>. QED
    BY <2>1, <2>2
<1>28. ASSUME NEW p \in Pids,
             Exit(p)
      PROVE  OrphanOf(d)'
  BY <1>28 DEF Exit, Running
<1>29. ASSUME NEW p \in Pids,
             LoseChannel(p)
      PROVE  OrphanOf(d)'
  BY <1>29 DEF LoseChannel, Running
<1>30. ASSUME NEW p \in Pids,
             Reap(p)
      PROVE  OrphanOf(d)'
  BY <1>30 DEF Reap, Free
<1>31. CASE RequestExit
  <2>1. CASE life.active > 0
    <3>1. own' = own /\ cmd' = cmd /\ dropping' = dropping /\ proc' = proc
      BY <1>31, <2>1 DEF RequestExit
    <3>. QED
      BY <3>1, Watched
  <2>2. CASE ~(life.active > 0)
    <3>1. life.active = 0 /\ proc' = proc
      BY <1>31, <2>2 DEF RequestExit, TypeOK
    <3>. QED
      BY <3>1, Quiet DEF OrphanOf
  <2>. QED
    BY <2>1, <2>2
<1>32. CASE UNCHANGED <<own, cmd, dropping, proc>>
  BY <1>32
<1>. QED
  BY OrphanChange, <1>1, <1>2, <1>3, <1>4, <1>5, <1>6, <1>7, <1>8, <1>9,
     <1>10, <1>11, <1>12, <1>13, <1>14, <1>15, <1>16, <1>17, <1>18, <1>19,
     <1>20, <1>21, <1>22, <1>23, <1>24, <1>25, <1>26, <1>27, <1>28, <1>29,
     <1>30, <1>31, <1>32

-----------------------------------------------------------------------------
(* What a step does to the guards: it keeps them, or one is gained, handed   *)
(* over or dropped.                                                          *)

Kept ==
    /\ \A o \in Owners : own'[o].guard = own[o].guard
    /\ life'.active = life.active
    /\ life'.exclusive = life.exclusive
    /\ life'.maintenance = life.maintenance
    /\ life'.exiting => life.exiting \/ life.active = 0

Gained(c, guard) ==
    /\ guard # "none"
    /\ own[c].guard = "none"
    /\ own'[c].guard = guard
    /\ \A o \in Owners : o # c => own'[o].guard = own[o].guard
    /\ ~life.exclusive /\ ~life.maintenance /\ ~life'.exiting
    /\ guard # "work" => life.active = 0
    /\ life'.active = life.active + 1
    /\ life'.exclusive <=> guard = "exclusive"
    /\ life'.maintenance <=> guard = "maintenance"

Handed(c, p) ==
    /\ own[c].guard # "none"
    /\ own[p].guard = "none"
    /\ own'[p].guard = own[c].guard
    /\ own'[c].guard = "none"
    /\ \A o \in Owners : o \notin {c, p} => own'[o].guard = own[o].guard
    /\ life' = life

Dropped(o) ==
    /\ own[o].guard # "none"
    /\ own'[o].guard = "none"
    /\ \A q \in Owners : q # o => own'[q].guard = own[q].guard
    /\ life'.active = IF life.active = 0 THEN 0 ELSE life.active - 1
    /\ life'.exclusive <=> life.exclusive /\ own[o].guard # "exclusive"
    /\ life'.maintenance <=> life.maintenance /\ own[o].guard # "maintenance"
    /\ life'.exiting = life.exiting

Moved ==
    \/ Kept
    \/ \E c \in Owners : \E guard \in Guard : Gained(c, guard)
    \/ \E c, p \in Owners : Handed(c, p)
    \/ \E o \in Owners : Dropped(o)

LEMMA NoHolder ==
  ASSUME CountInv, life.active = 0
  PROVE  \A o \in Owners : own[o].guard = "none"
  BY FS_EmptySet DEF CountInv, Holders

\* What changes the lifecycle or the guards.
LEMMA MoveChange ==
  ASSUME [Next]_vars
  PROVE  \/ UNCHANGED <<life, own>>
         \/ \E c \in Commands :
               \/ TakeLease(c) \/ Admit(c) \/ AdmitExclusive(c)
               \/ BeginMaintenance(c) \/ TakeBusy(c) \/ GiveUp(c)
         \/ \E c \in Commands : \E p \in Pids :
               \/ StartListener(c, p) \/ StartPrivate(c, p)
         \/ \E o \in Owners :
               \/ DropBusy(o) \/ DropGuard(o) \/ DropLease(o)
         \/ CloseWindow \/ RequestExit \/ Relaunch
         \/ \E enabled \in BOOLEAN :
               \/ SetKeepRunning(enabled)
  BY ZenonT(60) DEF Next, Step, Drop, Happens, desktop, guards, slots, Invoke,
         RefuseAdmission, RefuseBusy, FinishWork, ListenerRefused,
         PrivateRefused, RaiseFence, RequestStop, ConfirmStop, StopTimesOut,
         LowerFence, SpawnFails, HelperEnds, OutputEnds, SpawnHelper,
         HandleTerminated, Exit, LoseChannel, Reap, TakeExclusive,
         OtherCleanup, ShowWindow, vars

LEMMA Moves ==
  ASSUME TypeOK, PlaceInv, WaitInv, CountInv, FlagInv, ExitInv, [Next]_vars
  PROVE  Moved
<1>0. /\ DOMAIN own = Owners /\ DOMAIN cmd = Commands
      /\ \A x \in Owners : own[x] \in
            [guard : Guard, lease : BOOLEAN, busy : Families \union {None}]
      /\ Commands \subseteq Owners /\ Pids \subseteq Owners
      /\ Commands \intersect Pids = {} /\ None \notin Owners
      /\ child \in Pids \union {None} /\ private \in Pids \union {None}
      /\ life \in [active : Nat, maintenance : BOOLEAN, exclusive : BOOLEAN,
                exiting : BOOLEAN, keepRunning : BOOLEAN, tray : BOOLEAN]
  BY DesktopAssumption DEF TypeOK, Owners
<1>. USE <1>0 DEF At, Nothing, guards, slots, desktop
<1>1. ASSUME NEW c \in Commands,
             TakeLease(c)
      PROVE  Moved
  <2>1. life' = life
    BY <1>1 DEF TakeLease
  <2>2. \A x \in Owners : own'[x].guard = own[x].guard
    BY <1>1 DEF TakeLease
  <2>. QED
    BY <2>1, <2>2 DEF Moved, Kept
<1>2. ASSUME NEW c \in Commands,
             Admit(c)
      PROVE  Moved
  <2>1. own[c].guard = "none" /\ own' = [own EXCEPT ![c].guard = "work"]
    BY <1>2 DEF Admit, Guarded, PlaceInv, PlaceOf
  <2>2. ~life.exclusive /\ ~life.maintenance /\ ~life.exiting
    BY <1>2 DEF Admit, Guarded, Admissible, FlagInv
  <2>3. life' = [life EXCEPT !.active = @ + 1]
    BY <1>2 DEF Admit, Guarded
  <2>. HIDE DEF Nothing
  <2>4. Gained(c, "work")
    BY <1>2, <2>1, <2>2, <2>3 DEF Gained
  <2>. QED
    BY <2>4 DEF Moved, Guard
<1>3. ASSUME NEW c \in Commands,
             AdmitExclusive(c)
      PROVE  Moved
  <2>1. own[c].guard = "none" /\ own' = [own EXCEPT ![c].guard = "exclusive"]
    BY <1>3 DEF AdmitExclusive, Guarded, PlaceInv, PlaceOf
  <2>2. life.active = 0 /\ ~life.exclusive /\ ~life.maintenance /\ ~life.exiting
    BY <1>3, NoHolder DEF AdmitExclusive, Guarded, Admissible, FlagInv
  <2>3. life' = [life EXCEPT !.active = 1, !.exclusive = TRUE]
    BY <1>3 DEF AdmitExclusive, Guarded
  <2>. HIDE DEF Nothing
  <2>4. Gained(c, "exclusive")
    BY <1>3, <2>1, <2>2, <2>3 DEF Gained
  <2>. QED
    BY <2>4 DEF Moved, Guard
<1>4. ASSUME NEW c \in Commands,
             BeginMaintenance(c)
      PROVE  Moved
  <2>1. own[c].guard = "none" /\ own' = [own EXCEPT ![c].guard = "maintenance"]
    BY <1>4 DEF BeginMaintenance, Guarded, PlaceInv, PlaceOf
  <2>2. life.active = 0 /\ ~life.exclusive /\ ~life.maintenance /\ ~life.exiting
    BY <1>4, NoHolder DEF BeginMaintenance, Guarded, Admissible, FlagInv
  <2>3. life' = [life EXCEPT !.active = 1, !.maintenance = TRUE]
    BY <1>4 DEF BeginMaintenance, Guarded
  <2>. HIDE DEF Nothing
  <2>4. Gained(c, "maintenance")
    BY <1>4, <2>1, <2>2, <2>3 DEF Gained
  <2>. QED
    BY <2>4 DEF Moved, Guard
<1>5. ASSUME NEW c \in Commands,
             TakeBusy(c)
      PROVE  Moved
  <2>1. life' = life
    BY <1>5 DEF TakeBusy
  <2>2. \A x \in Owners : own'[x].guard = own[x].guard
    BY <1>5 DEF TakeBusy
  <2>. QED
    BY <2>1, <2>2 DEF Moved, Kept
<1>6. ASSUME NEW c \in Commands,
             GiveUp(c)
      PROVE  Moved
  <2>1. /\ own[c].guard # "none" /\ own[cmd[c].pid] = Nothing
        /\ cmd[c].pid \in Owners /\ cmd[c].pid # c
    BY <1>6, Waiting, ZenonT(60) DEF GiveUp, PlaceInv, PlaceOf, Helpers
  <2>2. own' = [own EXCEPT ![cmd[c].pid] = own[c], ![c] = Nothing] /\ life' = life
    BY <1>6 DEF GiveUp, HandOver
  <2>3. Handed(c, cmd[c].pid)
    BY <1>6, <2>1, <2>2 DEF Handed
  <2>. QED
    BY <1>6, <2>1, <2>3 DEF Moved
<1>7. ASSUME NEW c \in Commands, NEW p \in Pids,
             StartListener(c, p)
      PROVE  Moved
  <2>1. own[c].guard # "none" /\ own[p] = Nothing /\ p \in Owners /\ p # c
    BY <1>7 DEF StartListener, Unused, Awaited, PlaceInv, PlaceOf
  <2>2. own' = [own EXCEPT ![p] = own[c], ![c] = Nothing] /\ life' = life
    BY <1>7 DEF StartListener, HandOver
  <2>3. Handed(c, p)
    BY <1>7, <2>1, <2>2 DEF Handed
  <2>. QED
    BY <1>7, <2>1, <2>3 DEF Moved
<1>8. ASSUME NEW c \in Commands, NEW p \in Pids,
             StartPrivate(c, p)
      PROVE  Moved
  <2>1. own[c].guard # "none" /\ own[p] = Nothing /\ p \in Owners /\ p # c
    BY <1>8 DEF StartPrivate, Unused, Awaited, PlaceInv, PlaceOf
  <2>2. own' = [own EXCEPT ![p] = own[c], ![c] = Nothing] /\ life' = life
    BY <1>8 DEF StartPrivate, HandOver
  <2>3. Handed(c, p)
    BY <1>8, <2>1, <2>2 DEF Handed
  <2>. QED
    BY <1>8, <2>1, <2>3 DEF Moved
<1>9. ASSUME NEW o \in Owners,
             DropBusy(o)
      PROVE  Moved
  <2>1. life' = life
    BY <1>9 DEF DropBusy
  <2>2. \A x \in Owners : own'[x].guard = own[x].guard
    BY <1>9 DEF DropBusy, Settle
  <2>. QED
    BY <2>1, <2>2 DEF Moved, Kept
<1>10. ASSUME NEW o \in Owners,
             DropGuard(o)
      PROVE  Moved
  <2>1. /\ own' = [own EXCEPT ![o] = [own[o] EXCEPT !.guard = "none"]]
        /\ own[o].guard # "none"
        /\ life' = [life EXCEPT
              !.active = IF life.active = 0 THEN 0 ELSE life.active - 1,
              !.exclusive = life.exclusive /\ own[o].guard # "exclusive",
              !.maintenance = life.maintenance /\ own[o].guard # "maintenance"]
    BY <1>10 DEF DropGuard, Settle
  <2>2. Dropped(o)
    BY <1>10, <2>1 DEF Dropped
  <2>. QED
    BY <1>10, <2>2 DEF Moved
<1>11. ASSUME NEW o \in Owners,
             DropLease(o)
      PROVE  Moved
  <2>1. life' = life
    BY <1>11 DEF DropLease
  <2>2. \A x \in Owners : own'[x].guard = own[x].guard
    BY <1>11 DEF DropLease, Settle
  <2>. QED
    BY <2>1, <2>2 DEF Moved, Kept
<1>12. CASE CloseWindow
  <2>1. own' = own /\ (life' = life \/ (life.active = 0 /\ life' = [life EXCEPT !.exiting = TRUE]))
    BY <1>12 DEF CloseWindow
  <2>. QED
    BY <2>1 DEF Moved, Kept
<1>13. ASSUME NEW enabled \in BOOLEAN,
             SetKeepRunning(enabled)
      PROVE  Moved
  <2>1. own' = own /\ life' = [life EXCEPT !.keepRunning = enabled]
    BY <1>13 DEF SetKeepRunning
  <2>. QED
    BY <2>1 DEF Moved, Kept
<1>14. CASE RequestExit
  <2>1. CASE life.active > 0
    BY <1>14, <2>1 DEF RequestExit, Moved, Kept
  <2>2. CASE ~(life.active > 0)
    <3>1. \A x \in Owners : own[x].guard = "none"
      BY <2>2, NoHolder
    <3>2. own' = [x \in Owners |-> Nothing] /\ life' = [life EXCEPT !.exiting = TRUE]
      BY <1>14, <2>2 DEF RequestExit
    <3>. QED
      BY <2>2, <3>1, <3>2 DEF Moved, Kept
  <2>. QED
    BY <2>1, <2>2
<1>15. CASE Relaunch
  <2>1. life.active = 0 /\ own' = own
    BY <1>15 DEF Relaunch, ExitInv, ExitIsFinal
  <2>2. life.exclusive = FALSE /\ life.maintenance = FALSE
    BY <2>1, NoHolder DEF FlagInv
  <2>3. PICK tray \in BOOLEAN : life' = Fresh(tray, saved)
    BY <1>15 DEF Relaunch
  <2>4. /\ life'.active = 0 /\ life'.exclusive = FALSE /\ life'.maintenance = FALSE
        /\ life'.exiting = FALSE
    BY <2>3 DEF Fresh
  <2>5. Kept
    BY <2>1, <2>2, <2>4 DEF Kept
  <2>. QED
    BY <2>5 DEF Moved
<1>16. CASE UNCHANGED <<life, own>>
  BY <1>16 DEF Moved, Kept
<1>. QED
  BY MoveChange, <1>1, <1>2, <1>3, <1>4, <1>5, <1>6, <1>7, <1>8, <1>9, <1>10,
     <1>11, <1>12, <1>13, <1>14, <1>15, <1>16

\* The four moves keep the count, the flags and the solitude of a guard.
LEMMA CountStep ==
  ASSUME TypeOK, CountInv, Moved
  PROVE  CountInv'
<1>0. life.active \in Nat
  BY DEF TypeOK
<1>1. CASE Kept
  <2>1. Holders' = Holders
    BY <1>1 DEF Holders, Kept
  <2>. QED
    BY <1>1, <2>1 DEF CountInv, Kept
<1>2. ASSUME NEW c \in Owners, NEW guard \in Guard, Gained(c, guard)
      PROVE  CountInv'
  <2>1. Holders' = Holders \union {c} /\ c \notin Holders
    BY <1>2 DEF Holders, Gained
  <2>2. IsFiniteSet(Holders') /\ Cardinality(Holders') = Cardinality(Holders) + 1
    BY <2>1, FS_AddElement DEF CountInv
  <2>. QED
    BY <1>2, <2>2 DEF CountInv, Gained
<1>3. ASSUME NEW c \in Owners, NEW p \in Owners, Handed(c, p)
      PROVE  CountInv'
  <2> DEFINE Rest == Holders \ {c}
  <2>1. Holders' = Rest \union {p} /\ c \in Holders /\ p \notin Rest
    BY <1>3 DEF Holders, Handed
  <2>2. IsFiniteSet(Rest) /\ Cardinality(Rest) = Cardinality(Holders) - 1
    BY <2>1, FS_RemoveElement DEF CountInv
  <2>3. IsFiniteSet(Holders') /\ Cardinality(Holders') = Cardinality(Rest) + 1
    BY <2>1, <2>2, FS_AddElement
  <2>4. life'.active = life.active
    BY <1>3 DEF Handed
  <2>. QED
    BY <1>0, <2>2, <2>3, <2>4 DEF CountInv
<1>4. ASSUME NEW o \in Owners, Dropped(o)
      PROVE  CountInv'
  <2>1. Holders' = Holders \ {o} /\ o \in Holders
    BY <1>4 DEF Holders, Dropped
  <2>2. IsFiniteSet(Holders') /\ Cardinality(Holders') = Cardinality(Holders) - 1
    BY <2>1, FS_RemoveElement DEF CountInv
  <2>3. life.active # 0
    BY <2>1, FS_EmptySet DEF CountInv
  <2>. QED
    BY <1>0, <1>4, <2>2, <2>3 DEF CountInv, Dropped
<1>. QED
  BY <1>1, <1>2, <1>3, <1>4 DEF Moved

LEMMA FlagStep ==
  ASSUME TypeOK, CountInv, FlagInv, Alone, Moved
  PROVE  FlagInv'
<1>0. \A o \in Owners : own[o].guard \in Guard
  BY DEF TypeOK
<1>1. CASE Kept
  BY <1>1 DEF FlagInv, Kept
<1>2. ASSUME NEW c \in Owners, NEW guard \in Guard, Gained(c, guard)
      PROVE  FlagInv'
  <2>1. \A o \in Owners : own[o].guard \notin {"exclusive", "maintenance"}
    BY <1>2 DEF FlagInv, Gained
  <2>. QED
    BY <1>2, <2>1 DEF FlagInv, Gained
<1>3. ASSUME NEW c \in Owners, NEW p \in Owners, Handed(c, p)
      PROVE  FlagInv'
  <2>1. \A g \in {"exclusive", "maintenance"} :
            (\E o \in Owners : own[o].guard = g) <=> \E o \in Owners : own'[o].guard = g
    BY <1>3 DEF Handed
  <2>2. life' = life
    BY <1>3 DEF Handed
  <2>. QED
    BY <2>1, <2>2 DEF FlagInv
<1>4. ASSUME NEW o \in Owners, Dropped(o)
      PROVE  FlagInv'
  <2>1. ASSUME NEW g \in {"exclusive", "maintenance"}
        PROVE  (\E q \in Owners : own'[q].guard = g) <=>
               (\E q \in Owners : own[q].guard = g) /\ own[o].guard # g
    <3>1. own[o].guard = g => \A q \in Owners : q # o => own[q].guard = "none"
      BY DEF Alone
    <3>. QED
      BY <1>4, <2>1, <3>1 DEF Dropped
  <2>. QED
    BY <1>4, <2>1 DEF FlagInv, Dropped
<1>. QED
  BY <1>1, <1>2, <1>3, <1>4 DEF Moved

LEMMA AloneStep ==
  ASSUME TypeOK, CountInv, FlagInv, Alone, Moved
  PROVE  Alone'
<1>. SUFFICES ASSUME NEW o \in Owners, NEW q \in Owners, q # o,
                     own'[o].guard \in {"exclusive", "maintenance"}
              PROVE  own'[q].guard = "none"
  BY DEF Alone
<1>1. CASE Kept
  BY <1>1 DEF Alone, Kept
<1>2. ASSUME NEW c \in Owners, NEW guard \in Guard, Gained(c, guard)
      PROVE  own'[q].guard = "none"
  <2>1. \A r \in Owners : own[r].guard \notin {"exclusive", "maintenance"}
    BY <1>2 DEF FlagInv, Gained
  <2>2. o = c
    BY <1>2, <2>1 DEF Gained
  <2>3. own[q].guard = "none"
    BY <1>2, <2>2, NoHolder DEF Gained
  <2>. QED
    BY <1>2, <2>2, <2>3 DEF Gained
<1>3. ASSUME NEW c \in Owners, NEW p \in Owners, Handed(c, p)
      PROVE  own'[q].guard = "none"
  BY <1>3 DEF Alone, Handed
<1>4. ASSUME NEW r \in Owners, Dropped(r)
      PROVE  own'[q].guard = "none"
  BY <1>4 DEF Alone, Dropped
<1>. QED
  BY <1>1, <1>2, <1>3, <1>4 DEF Moved

\* Quitting, once begun, meets no work.
LEMMA FinalStep ==
  ASSUME TypeOK, ExitInv, CountInv, Moved
  PROVE  ExitIsFinal'
<1>0. life.active \in Nat
  BY DEF TypeOK
<1>1. CASE Kept
  BY <1>1 DEF ExitInv, ExitIsFinal, Kept
<1>2. ASSUME NEW c \in Owners, NEW guard \in Guard, Gained(c, guard)
      PROVE  ExitIsFinal'
  BY <1>2 DEF ExitIsFinal, Gained
<1>3. ASSUME NEW c \in Owners, NEW p \in Owners, Handed(c, p)
      PROVE  ExitIsFinal'
  BY <1>3 DEF ExitInv, ExitIsFinal, Handed
<1>4. ASSUME NEW o \in Owners, Dropped(o)
      PROVE  ExitIsFinal'
  BY <1>0, <1>4 DEF ExitInv, ExitIsFinal, Dropped
<1>. QED
  BY <1>1, <1>2, <1>3, <1>4 DEF Moved

\* What changes the lifecycle or ends the process.
LEMMA AliveChange ==
  ASSUME [Next]_vars
  PROVE  \/ UNCHANGED <<alive, life>>
         \/ \E c \in Commands :
               \/ Admit(c) \/ AdmitExclusive(c) \/ BeginMaintenance(c)
         \/ \E o \in Owners :
               \/ DropGuard(o)
         \/ CloseWindow \/ RequestExit \/ Relaunch
         \/ \E enabled \in BOOLEAN :
               \/ SetKeepRunning(enabled)
  BY ZenonT(60) DEF Next, Step, Drop, Happens, desktop, guards, slots, Invoke, TakeLease,
         RefuseAdmission, TakeBusy, RefuseBusy, FinishWork, ListenerRefused,
         PrivateRefused, RaiseFence, RequestStop, ConfirmStop, StopTimesOut,
         LowerFence, SpawnFails, HelperEnds, GiveUp, OutputEnds,
         StartListener, StartPrivate, SpawnHelper, DropBusy, DropLease,
         HandleTerminated, Exit, LoseChannel, Reap, TakeExclusive,
         OtherCleanup, ShowWindow, vars

LEMMA EndedStep ==
  ASSUME TypeOK, ExitInv, [Next]_vars
  PROVE  (~alive => life.exiting)'
<1>0. life \in [active : Nat, maintenance : BOOLEAN, exclusive : BOOLEAN,
                exiting : BOOLEAN, keepRunning : BOOLEAN, tray : BOOLEAN]
  BY DEF TypeOK
<1>. USE <1>0 DEF ExitInv, guards, slots, desktop, At, Guarded, Admissible
<1>1. ASSUME NEW c \in Commands,
             Admit(c)
      PROVE  (~alive => life.exiting)'
  BY <1>1 DEF Admit, At, Goto, Guarded, Admissible
<1>2. ASSUME NEW c \in Commands,
             AdmitExclusive(c)
      PROVE  (~alive => life.exiting)'
  BY <1>2 DEF AdmitExclusive, At, Goto, Guarded, Admissible
<1>3. ASSUME NEW c \in Commands,
             BeginMaintenance(c)
      PROVE  (~alive => life.exiting)'
  BY <1>3 DEF BeginMaintenance, At, Goto, Guarded
<1>4. ASSUME NEW o \in Owners,
             DropGuard(o)
      PROVE  (~alive => life.exiting)'
  BY <1>4 DEF DropGuard, Settle
<1>5. CASE CloseWindow
  BY <1>5 DEF CloseWindow, CanHide
<1>6. ASSUME NEW enabled \in BOOLEAN,
             SetKeepRunning(enabled)
      PROVE  (~alive => life.exiting)'
  BY <1>6 DEF SetKeepRunning
<1>7. CASE RequestExit
  <2>1. (alive' = alive /\ life' = life) \/ life' = [life EXCEPT !.exiting = TRUE]
    BY <1>7 DEF RequestExit
  <2>. QED
    BY <2>1
<1>8. CASE Relaunch
  BY <1>8 DEF Relaunch, Fresh
<1>9. CASE UNCHANGED <<alive, life>>
  BY <1>9
<1>. QED
  BY AliveChange, <1>1, <1>2, <1>3, <1>4, <1>5, <1>6, <1>7, <1>8, <1>9

-----------------------------------------------------------------------------
(* The fence of a stop.                                                      *)

Fencing(c) == cmd[c].pc \in {"request", "poll", "unfence"}
FenceOf(c) == Fencing(c) =>
    /\ stopping = cmd[c].pid
    /\ child \in {None, cmd[c].pid}
    /\ \A e \in Commands : Fencing(e) => e = c
FenceInv == \A c \in Commands : FenceOf(c)

LEMMA Unfenced ==
  ASSUME NEW d \in Commands, FenceOf(d), stopping' = stopping, child' = child \/ child' = None,
         \A e \in Commands : Fencing(e)' => Fencing(e) /\ cmd'[e].pid = cmd[e].pid
  PROVE  FenceOf(d)'
  BY DEF FenceOf

LEMMA ReturnUnfences ==
  ASSUME TypeOK, NEW c \in Commands, Return(c)
  PROVE  \A e \in Commands :
             Fencing(e)' => e # c /\ Fencing(e) /\ cmd'[e].pid = cmd[e].pid
<1>1. DOMAIN cmd = Commands /\ \A e \in Commands : DOMAIN cmd[e] = {"kind", "pc", "pid", "answer"}
  BY DEF TypeOK
<1>2. CASE own[c] = Nothing
  BY <1>1, <1>2 DEF Return, Idle, Fencing
<1>3. CASE own[c] # Nothing
  BY <1>1, <1>3 DEF Return, Goto, Fencing
<1>. QED
  BY <1>2, <1>3

LEMMA Fenced ==
  ASSUME PlaceInv, FenceInv, NEW d \in Commands, Fencing(d)
  PROVE  stopping \in Pids
  BY DEF PlaceInv, PlaceOf, FenceInv, FenceOf, Fencing

\* What changes cmd, stopping, child.
LEMMA FenceChange ==
  ASSUME [Next]_vars
  PROVE  \/ UNCHANGED <<cmd, stopping, child>>
         \/ \E c \in Commands : \E kind \in Kinds :
               \/ Invoke(c, kind)
         \/ \E c \in Commands :
               \/ TakeLease(c) \/ Admit(c) \/ AdmitExclusive(c)
               \/ BeginMaintenance(c) \/ RefuseAdmission(c) \/ TakeBusy(c)
               \/ RefuseBusy(c) \/ FinishWork(c) \/ ListenerRefused(c)
               \/ PrivateRefused(c) \/ RaiseFence(c) \/ RequestStop(c)
               \/ ConfirmStop(c) \/ StopTimesOut(c) \/ LowerFence(c)
               \/ SpawnFails(c) \/ HelperEnds(c) \/ GiveUp(c) \/ OutputEnds(c)
         \/ \E c \in Commands : \E p \in Pids :
               \/ StartListener(c, p) \/ StartPrivate(c, p)
               \/ SpawnHelper(c, p)
         \/ \E o \in Owners :
               \/ DropBusy(o) \/ DropGuard(o) \/ DropLease(o)
         \/ RequestExit
  BY DEF Next, Step, Drop, Happens, desktop, guards, slots, HandleTerminated,
         Exit, LoseChannel, Reap, TakeExclusive, OtherCleanup, CloseWindow,
         ShowWindow, SetKeepRunning, Relaunch, vars

LEMMA FenceStep ==
  ASSUME TypeOK, PlaceInv, FenceInv, [Next]_vars
  PROVE  FenceInv'
<1>. SUFFICES ASSUME NEW d \in Commands PROVE FenceOf(d)'
  BY DEF FenceInv
<1>a. FenceOf(d) 
  BY DEF FenceInv
<1>0. /\ DOMAIN cmd = Commands /\ None \notin Pids
      /\ \A e \in Commands : DOMAIN cmd[e] = {"kind", "pc", "pid", "answer"}
      /\ d \in Commands /\ FenceOf(d)
  BY DesktopAssumption DEF TypeOK, FenceInv
<1>. USE <1>0, <1>a DEF At, guards, slots
<1>1. ASSUME NEW c \in Commands, NEW kind \in Kinds,
             Invoke(c, kind)
      PROVE  FenceOf(d)'
  <2>1. \A e \in Commands : Fencing(e)' => Fencing(e) /\ cmd'[e].pid = cmd[e].pid
    BY <1>1 DEF Invoke, At, Fencing
  <2>2. stopping' = stopping /\ (child' = child \/ child' = None)
    BY <1>1 DEF Invoke, slots
  <2>. QED
    BY <2>1, <2>2, Unfenced
<1>2. ASSUME NEW c \in Commands,
             TakeLease(c)
      PROVE  FenceOf(d)'
  <2>1. CASE excl = None
    <3>1. \A e \in Commands : Fencing(e)' => Fencing(e) /\ cmd'[e].pid = cmd[e].pid
      BY <1>2, <2>1 DEF TakeLease, Goto, Fencing, At
    <3>. QED
      BY <1>2, <3>1, Unfenced DEF TakeLease, slots
  <2>2. CASE excl # None
    BY <1>2, <2>2, ReturnUnfences, Unfenced DEF TakeLease, slots
  <2>. QED
    BY <2>1, <2>2
<1>3. ASSUME NEW c \in Commands,
             Admit(c)
      PROVE  FenceOf(d)'
  <2>1. \A e \in Commands : Fencing(e)' => Fencing(e) /\ cmd'[e].pid = cmd[e].pid
    BY <1>3 DEF Admit, At, Goto, Guarded, Admissible, Fencing
  <2>2. stopping' = stopping /\ (child' = child \/ child' = None)
    BY <1>3 DEF Admit, slots
  <2>. QED
    BY <2>1, <2>2, Unfenced
<1>4. ASSUME NEW c \in Commands,
             AdmitExclusive(c)
      PROVE  FenceOf(d)'
  <2>1. \A e \in Commands : Fencing(e)' => Fencing(e) /\ cmd'[e].pid = cmd[e].pid
    BY <1>4 DEF AdmitExclusive, At, Goto, Guarded, Admissible, Fencing
  <2>2. stopping' = stopping /\ (child' = child \/ child' = None)
    BY <1>4 DEF AdmitExclusive, slots
  <2>. QED
    BY <2>1, <2>2, Unfenced
<1>5. ASSUME NEW c \in Commands,
             BeginMaintenance(c)
      PROVE  FenceOf(d)'
  <2>1. \A e \in Commands : Fencing(e)' => Fencing(e) /\ cmd'[e].pid = cmd[e].pid
    BY <1>5 DEF BeginMaintenance, At, Goto, Guarded, Fencing
  <2>2. stopping' = stopping /\ (child' = child \/ child' = None)
    BY <1>5 DEF BeginMaintenance, slots
  <2>. QED
    BY <2>1, <2>2, Unfenced
<1>6. ASSUME NEW c \in Commands,
             RefuseAdmission(c)
      PROVE  FenceOf(d)'
  BY <1>6, ReturnUnfences, Unfenced DEF RefuseAdmission, slots
<1>7. ASSUME NEW c \in Commands,
             TakeBusy(c)
      PROVE  FenceOf(d)'
  <2>1. \A e \in Commands : Fencing(e)' => Fencing(e) /\ cmd'[e].pid = cmd[e].pid
    BY <1>7 DEF TakeBusy, At, Goto, Fencing
  <2>2. stopping' = stopping /\ (child' = child \/ child' = None)
    BY <1>7 DEF TakeBusy, slots
  <2>. QED
    BY <2>1, <2>2, Unfenced
<1>8. ASSUME NEW c \in Commands,
             RefuseBusy(c)
      PROVE  FenceOf(d)'
  BY <1>8, ReturnUnfences, Unfenced DEF RefuseBusy, slots
<1>9. ASSUME NEW c \in Commands,
             FinishWork(c)
      PROVE  FenceOf(d)'
  BY <1>9, ReturnUnfences, Unfenced DEF FinishWork, slots
<1>10. ASSUME NEW c \in Commands,
             ListenerRefused(c)
      PROVE  FenceOf(d)'
  BY <1>10, ReturnUnfences, Unfenced DEF ListenerRefused, slots
<1>11. ASSUME NEW c \in Commands,
             PrivateRefused(c)
      PROVE  FenceOf(d)'
  BY <1>11, ReturnUnfences, Unfenced DEF PrivateRefused, slots
<1>12. ASSUME NEW c \in Commands,
             RaiseFence(c)
      PROVE  FenceOf(d)'
  <2>1. CASE child = None \/ stopping # None
    BY <1>12, <2>1, ReturnUnfences, Unfenced DEF RaiseFence
  <2>2. CASE ~(child = None \/ stopping # None)
    <3>1. \A e \in Commands : ~Fencing(e)
      BY <2>2, Fenced
    <3>2. /\ stopping' = child /\ child' = child
          /\ cmd' = [cmd EXCEPT ![c].pc = "request", ![c].pid = child]
      BY <1>12, <2>2 DEF RaiseFence
    <3>3. \A e \in Commands : Fencing(e)' => e = c
      BY <3>1, <3>2 DEF Fencing
    <3>4. cmd'[c].pid = child
      BY <1>12, <3>2
    <3>. QED
      BY <3>2, <3>3, <3>4 DEF FenceOf
  <2>. QED
    BY <2>1, <2>2
<1>13. ASSUME NEW c \in Commands,
             RequestStop(c)
      PROVE  FenceOf(d)'
  <2>1. \A e \in Commands : Fencing(e)' => Fencing(e) /\ cmd'[e].pid = cmd[e].pid
    BY <1>13 DEF RequestStop, At, Goto, SlotOpen, Fencing
  <2>2. stopping' = stopping /\ (child' = child \/ child' = None)
    BY <1>13 DEF RequestStop, slots
  <2>. QED
    BY <2>1, <2>2, Unfenced
<1>14. ASSUME NEW c \in Commands,
             ConfirmStop(c)
      PROVE  FenceOf(d)'
  <2>1. \A e \in Commands : Fencing(e)' => Fencing(e) /\ cmd'[e].pid = cmd[e].pid
    BY <1>14 DEF ConfirmStop, At, Fencing
  <2>2. stopping' = stopping /\ (child' = child \/ child' = None)
    BY <1>14 DEF ConfirmStop, slots
  <2>. QED
    BY <2>1, <2>2, Unfenced
<1>15. ASSUME NEW c \in Commands,
             StopTimesOut(c)
      PROVE  FenceOf(d)'
  <2>1. \A e \in Commands : Fencing(e)' => Fencing(e) /\ cmd'[e].pid = cmd[e].pid
    BY <1>15 DEF StopTimesOut, At, Fencing
  <2>2. stopping' = stopping /\ (child' = child \/ child' = None)
    BY <1>15 DEF StopTimesOut, slots
  <2>. QED
    BY <2>1, <2>2, Unfenced
<1>16. ASSUME NEW c \in Commands,
             LowerFence(c)
      PROVE  FenceOf(d)'
  <2>1. CASE d = c
    BY <1>16, <2>1, ReturnUnfences DEF LowerFence, FenceOf
  <2>2. CASE d # c
    <3>1. ~Fencing(d)
      BY <1>16, <2>2 DEF LowerFence, FenceOf, Fencing, At
    <3>. QED
      BY <1>16, <3>1, ReturnUnfences DEF LowerFence, FenceOf
  <2>. QED
    BY <2>1, <2>2
<1>17. ASSUME NEW c \in Commands,
             SpawnFails(c)
      PROVE  FenceOf(d)'
  BY <1>17, ReturnUnfences, Unfenced DEF SpawnFails, slots
<1>18. ASSUME NEW c \in Commands,
             HelperEnds(c)
      PROVE  FenceOf(d)'
  BY <1>18, ReturnUnfences, Unfenced DEF HelperEnds, slots
<1>19. ASSUME NEW c \in Commands,
             GiveUp(c)
      PROVE  FenceOf(d)'
  <2>1. \A e \in Commands : Fencing(e)' => Fencing(e) /\ cmd'[e].pid = cmd[e].pid
    BY <1>19 DEF GiveUp, At, HandOver, Idle, Fencing
  <2>2. stopping' = stopping /\ (child' = child \/ child' = None)
    BY <1>19 DEF GiveUp, slots
  <2>. QED
    BY <2>1, <2>2, Unfenced
<1>20. ASSUME NEW c \in Commands,
             OutputEnds(c)
      PROVE  FenceOf(d)'
  BY <1>20, ReturnUnfences, Unfenced DEF OutputEnds, slots
<1>21. ASSUME NEW c \in Commands, NEW p \in Pids,
             StartListener(c, p)
      PROVE  FenceOf(d)'
  <2>1. \A e \in Commands : ~Fencing(e)
    BY <1>21, Fenced DEF StartListener
  <2>2. \A e \in Commands : cmd'[e] = cmd[e] \/ cmd'[e] = Idle
    BY <1>21 DEF StartListener, HandOver
  <2>. QED
    BY <2>1, <2>2 DEF FenceOf, Fencing, Idle
<1>22. ASSUME NEW c \in Commands, NEW p \in Pids,
             StartPrivate(c, p)
      PROVE  FenceOf(d)'
  <2>1. \A e \in Commands : Fencing(e)' => Fencing(e) /\ cmd'[e].pid = cmd[e].pid
    BY <1>22 DEF StartPrivate, At, Unused, Free, HandOver, Idle, Fencing
  <2>2. stopping' = stopping /\ (child' = child \/ child' = None)
    BY <1>22 DEF StartPrivate, slots
  <2>. QED
    BY <2>1, <2>2, Unfenced
<1>23. ASSUME NEW c \in Commands, NEW p \in Pids,
             SpawnHelper(c, p)
      PROVE  FenceOf(d)'
  <2>1. \A e \in Commands : Fencing(e)' => Fencing(e) /\ cmd'[e].pid = cmd[e].pid
    BY <1>23 DEF SpawnHelper, At, Spawn, Unused, Free, Fencing
  <2>2. stopping' = stopping /\ (child' = child \/ child' = None)
    BY <1>23 DEF SpawnHelper, slots
  <2>. QED
    BY <2>1, <2>2, Unfenced
<1>24. ASSUME NEW o \in Owners,
             DropBusy(o)
      PROVE  FenceOf(d)'
  <2>1. \A e \in Commands : Fencing(e)' => Fencing(e) /\ cmd'[e].pid = cmd[e].pid
    BY <1>24 DEF DropBusy, Settle, Idle, Fencing
  <2>2. stopping' = stopping /\ (child' = child \/ child' = None)
    BY <1>24 DEF DropBusy, Settle, slots
  <2>. QED
    BY <2>1, <2>2, Unfenced
<1>25. ASSUME NEW o \in Owners,
             DropGuard(o)
      PROVE  FenceOf(d)'
  <2>1. \A e \in Commands : Fencing(e)' => Fencing(e) /\ cmd'[e].pid = cmd[e].pid
    BY <1>25 DEF DropGuard, Settle, Idle, Fencing
  <2>2. stopping' = stopping /\ (child' = child \/ child' = None)
    BY <1>25 DEF DropGuard, Settle, slots
  <2>. QED
    BY <2>1, <2>2, Unfenced
<1>26. ASSUME NEW o \in Owners,
             DropLease(o)
      PROVE  FenceOf(d)'
  <2>1. \A e \in Commands : Fencing(e)' => Fencing(e) /\ cmd'[e].pid = cmd[e].pid
    BY <1>26 DEF DropLease, Settle, Idle, Fencing
  <2>2. stopping' = stopping /\ (child' = child \/ child' = None)
    BY <1>26 DEF DropLease, Settle, slots
  <2>. QED
    BY <2>1, <2>2, Unfenced
<1>27. CASE RequestExit
  <2>1. UNCHANGED <<cmd, child, stopping>> \/ \A e \in Commands : cmd'[e] = Idle
    BY <1>27 DEF RequestExit, slots
  <2>. QED
    BY <2>1 DEF FenceOf, Fencing, Idle
<1>28. CASE UNCHANGED <<cmd, stopping, child>>
  BY <1>28 DEF FenceOf, Fencing
<1>. QED
  BY FenceChange, <1>1, <1>2, <1>3, <1>4, <1>5, <1>6, <1>7, <1>8, <1>9, <1>10,
     <1>11, <1>12, <1>13, <1>14, <1>15, <1>16, <1>17, <1>18, <1>19, <1>20,
     <1>21, <1>22, <1>23, <1>24, <1>25, <1>26, <1>27, <1>28

-----------------------------------------------------------------------------
(* The inductive invariant.                                                  *)

IInv ==
    /\ TypeOK
    /\ PlaceInv /\ DropInv /\ LeaseInv /\ WaitInv /\ OnlyWait
    /\ SlotInv /\ ExclInv /\ OrphanInv /\ FenceInv
    /\ CountInv /\ FlagInv /\ Alone /\ ExitInv

LEMMA InitIInv ==
  ASSUME Init
  PROVE  IInv
<1>1. /\ \A o \in Owners : own[o] = Nothing
      /\ \A c \in Commands : cmd[c] = Idle
      /\ \A p \in Pids : proc[p] = Free
      /\ excl = None /\ dropping = {} /\ child = None /\ private = None
      /\ alive /\ Commands \subseteq Owners /\ Pids \subseteq Owners
  BY DEF Init, Owners
<1>2. TypeOK
  <2>1. Nothing \in [guard : Guard, lease : BOOLEAN, busy : Families \union {None}]
    BY DEF Nothing, Guard
  <2>2. Idle \in [kind : Kinds \union {None}, pc : Location, pid : Pids \union {None},
                  answer : {None, "stopped", "unconfirmed"}]
    BY DEF Idle, Location
  <2>3. Free \in [kind : Kinds \union {None}, open : BOOLEAN,
                  state : {"free", "running", "exited"}]
    BY DEF Free
  <2>4. \A tray \in BOOLEAN : Fresh(tray, saved) \in
            [active : Nat, maintenance : BOOLEAN, exclusive : BOOLEAN,
             exiting : BOOLEAN, keepRunning : BOOLEAN, tray : BOOLEAN]
    BY DEF Fresh, Init
  <2>. QED
    BY <2>1, <2>2, <2>3, <2>4, DesktopAssumption DEF TypeOK, Init
<1>3. PlaceInv /\ DropInv /\ LeaseInv
  <2>1. ASSUME NEW c \in Commands
        PROVE  PlaceOf(c)
    <3>1. cmd[c].pc = "idle" /\ own[c] = Nothing
      BY <1>1 DEF Idle
    <3>. QED
      BY <1>1, <3>1 DEF PlaceOf, At
  <2>2. DropInv
    BY <1>1 DEF DropInv, DropOf
  <2>3. LeaseInv
    BY <1>1 DEF LeaseInv, LeaseOf, Nothing
  <2>. QED
    BY <2>1, <2>2, <2>3 DEF PlaceInv
<1>4. WaitInv /\ OnlyWait /\ FenceInv
  BY <1>1 DEF WaitInv, WaitOf, OnlyWait, OnlyOf, FenceInv, FenceOf, Fencing, At, Idle
<1>5. SlotInv /\ ExclInv /\ OrphanInv
  BY <1>1 DEF SlotInv, ExclInv, OrphanInv, OrphanOf, Running, Free
<1>6. Holders = {}
  BY <1>1 DEF Holders, Nothing
<1>7. PICK tray \in BOOLEAN : life = Fresh(tray, saved)
  BY DEF Init
<1>8. life.active = 0 /\ life.exclusive = FALSE /\ life.maintenance = FALSE
  BY <1>7 DEF Fresh
<1>9. CountInv
  BY <1>6, <1>8, FS_EmptySet DEF CountInv
<1>10. FlagInv /\ Alone
  BY <1>1, <1>8 DEF FlagInv, Alone, Nothing
<1>11. ExitInv
  BY <1>1, <1>8 DEF ExitInv, ExitIsFinal
<1>. QED
  BY <1>2, <1>3, <1>4, <1>5, <1>9, <1>10, <1>11 DEF IInv

LEMMA NextIInv ==
  ASSUME IInv, [Next]_vars
  PROVE  IInv'
<1>. USE DEF IInv
<1>1. TypeOK' /\ PlaceInv'
  BY TypeStep, PlaceStep
<1>2. DropInv' /\ LeaseInv' /\ WaitInv' /\ OnlyWait'
  BY DropStep, LeaseStep, WaitStep, OnlyStep
<1>3. SlotInv' /\ ExclInv' /\ OrphanInv' /\ FenceInv'
  BY GuardedSlotStep, ExclStep, OrphanStep, FenceStep
<1>4. Moved
  BY Moves
<1>5. CountInv' /\ FlagInv' /\ Alone'
  BY <1>4, CountStep, FlagStep, AloneStep
<1>6. ExitInv'
  BY <1>4, FinalStep, EndedStep DEF ExitInv
<1>. QED
  BY <1>1, <1>2, <1>3, <1>5, <1>6

LEMMA Invariance == Spec => []IInv
<1>1. Init => IInv
  BY InitIInv
<1>2. IInv /\ [Next]_vars => IInv'
  BY NextIInv
<1>. QED
  BY <1>1, <1>2, PTL DEF Spec

-----------------------------------------------------------------------------
(* The theorems.                                                             *)

\* The variables keep their types.
THEOREM TypeSafe == Spec => []TypeOK
<1>1. IInv => TypeOK
  BY DEF IInv
<1>. QED
  BY <1>1, Invariance, PTL

\* The counter and the flags of Lifecycle say exactly which guards live, over
\* every admission, refusal, hand-over, drop, exit and relaunch
\* (background.rs:25-135).
THEOREM GuardsSafe == Spec => []GuardsExact
<1>1. IInv => GuardsExact
  BY DEF IInv, CountInv, FlagInv, GuardsExact
<1>. QED
  BY <1>1, Invariance, PTL

\* A private benchmark and a maintenance run next to no other work, whichever
\* command or process keeps its guard (background.rs:27-48, 116-126).
THEOREM AloneSafe == Spec => []Alone
<1>1. IInv => Alone
  BY DEF IInv
<1>. QED
  BY <1>1, Invariance, PTL

\* "A hidden window must never be an orphaned job" (background.rs:1): what
\* runs under the Desktop runs under a guard.
THEOREM OrphanSafe == Spec => []NoOrphan
<1>1. IInv => NoOrphan
  <2>. SUFFICES ASSUME IInv, NEW p \in Pids, Running(p), Supervised(proc[p].kind)
                PROVE  \E o \in Owners :
                          /\ o = p \/ (o \in Commands /\ At(o, "wait") /\ cmd[o].pid = p)
                          /\ own[o].guard # "none"
                          /\ o \notin dropping
    BY DEF NoOrphan
  <2>1. OrphanOf(p) /\ PlaceInv
    BY DEF IInv, OrphanInv
  <2>2. CASE own[p].guard # "none" /\ p \notin dropping
    BY <2>2 DEF Owners
  <2>3. CASE WaitedFor(p)
    <3>1. PICK c \in Commands :
              At(c, "wait") /\ cmd[c].pid = p /\ cmd[c].kind = proc[p].kind
      BY <2>3 DEF WaitedFor
    <3>2. cmd[c].kind # "keep"
      BY <3>1 DEF Supervised, Helpers
    <3>3. own[c].guard # "none" /\ c \notin dropping
      BY <2>1, <3>1, <3>2, NotDropping DEF PlaceInv, PlaceOf, At
    <3>. QED
      BY <3>1, <3>3 DEF Owners
  <2>. QED
    BY <2>1, <2>2, <2>3 DEF OrphanOf
<1>. QED
  BY <1>1, Invariance, PTL

\* stop_runner_listener takes a WorkGuard first (lib.rs:664): while there is a
\* listener to stop nothing refuses one.
THEOREM StopSafe == Spec => []StopIsAdmitted
<1>1. IInv => StopIsAdmitted
  <2>. SUFFICES ASSUME IInv, child # None, child \notin dropping
                PROVE  Admissible /\ excl = None
    BY DEF StopIsAdmitted, SlotOpen
  <2>1. child \in Owners /\ own[child].guard = "work"
    BY DEF IInv, TypeOK, SlotInv, Owners
  <2>2. ~life.exclusive /\ ~life.maintenance
    BY <2>1 DEF IInv, Alone, FlagInv
  <2>3. life.active # 0
    BY <2>1, NoHolder DEF IInv
  <2>4. ~life.exiting
    BY <2>3 DEF IInv, ExitInv, ExitIsFinal
  <2>5. own[child].lease
    BY <2>1 DEF IInv, LeaseInv, LeaseOf
  <2>6. excl = None
    BY <2>1, <2>5 DEF IInv, ExclInv, Unread
  <2>. QED
    BY <2>2, <2>4, <2>6 DEF Admissible
<1>. QED
  BY <1>1, Invariance, PTL

\* Deletion and native execution share one lock (cache_lease.rs:1): no cleanup
\* holds it while work or a private benchmark is admitted.
THEOREM CleanupSafe == Spec => []CleanupSeesNoWork
<1>1. IInv => CleanupSeesNoWork
  BY DEF IInv, LeaseInv, LeaseOf, ExclInv, Unread, CleanupSeesNoWork
<1>. QED
  BY <1>1, Invariance, PTL

\* The fence of an idle close (background.rs:57-65): a Desktop that is quitting
\* has no work.
THEOREM ExitSafe == Spec => []ExitIsFinal
<1>1. IInv => ExitIsFinal
  BY DEF IInv, ExitInv
<1>. QED
  BY <1>1, Invariance, PTL

\* What answers a stop.
LEMMA AnswerOfReturn ==
  ASSUME TypeOK, NEW c \in Commands, Return(c), NEW d \in Commands
  PROVE  cmd'[d].answer \in {cmd[d].answer, None}
<1>1. DOMAIN cmd = Commands /\ \A e \in Commands : DOMAIN cmd[e] = {"kind", "pc", "pid", "answer"}
  BY DEF TypeOK
<1>2. CASE own[c] = Nothing
  BY <1>1, <1>2 DEF Return, Idle
<1>3. CASE own[c] # Nothing
  BY <1>1, <1>3 DEF Return, Goto
<1>. QED
  BY <1>2, <1>3

LEMMA Stopped ==
  ASSUME TypeOK, FenceInv, NEW d \in Commands, [Next]_vars
  PROVE  child = None \/ cmd'[d].answer \in {cmd[d].answer, None, "unconfirmed"}
<1>0. /\ DOMAIN cmd = Commands
      /\ \A e \in Commands : DOMAIN cmd[e] = {"kind", "pc", "pid", "answer"}
      /\ cmd[d].answer \in {None, "stopped", "unconfirmed"}
  BY DEF TypeOK
<1>. USE <1>0
<1>1. ASSUME NEW c \in Commands, NEW kind \in Kinds,
             Invoke(c, kind)
      PROVE  child = None \/ cmd'[d].answer \in {cmd[d].answer, None, "unconfirmed"}
  BY <1>1 DEF Invoke
<1>2. ASSUME NEW c \in Commands,
             TakeLease(c)
      PROVE  child = None \/ cmd'[d].answer \in {cmd[d].answer, None, "unconfirmed"}
  <2>1. CASE excl # None
    BY <1>2, <2>1, AnswerOfReturn DEF TakeLease
  <2>2. CASE ~(excl # None)
    BY <1>2, <2>2 DEF TakeLease, Goto
  <2>. QED
    BY <2>1, <2>2
<1>3. ASSUME NEW c \in Commands,
             Admit(c)
      PROVE  child = None \/ cmd'[d].answer \in {cmd[d].answer, None, "unconfirmed"}
  BY <1>3 DEF Admit, Goto, Guarded
<1>4. ASSUME NEW c \in Commands,
             AdmitExclusive(c)
      PROVE  child = None \/ cmd'[d].answer \in {cmd[d].answer, None, "unconfirmed"}
  BY <1>4 DEF AdmitExclusive, Goto, Guarded
<1>5. ASSUME NEW c \in Commands,
             BeginMaintenance(c)
      PROVE  child = None \/ cmd'[d].answer \in {cmd[d].answer, None, "unconfirmed"}
  BY <1>5 DEF BeginMaintenance, Goto, Guarded
<1>6. ASSUME NEW c \in Commands,
             RefuseAdmission(c)
      PROVE  child = None \/ cmd'[d].answer \in {cmd[d].answer, None, "unconfirmed"}
  BY <1>6, AnswerOfReturn DEF RefuseAdmission
<1>7. ASSUME NEW c \in Commands,
             TakeBusy(c)
      PROVE  child = None \/ cmd'[d].answer \in {cmd[d].answer, None, "unconfirmed"}
  BY <1>7 DEF TakeBusy, Goto
<1>8. ASSUME NEW c \in Commands,
             RefuseBusy(c)
      PROVE  child = None \/ cmd'[d].answer \in {cmd[d].answer, None, "unconfirmed"}
  BY <1>8, AnswerOfReturn DEF RefuseBusy
<1>9. ASSUME NEW c \in Commands,
             FinishWork(c)
      PROVE  child = None \/ cmd'[d].answer \in {cmd[d].answer, None, "unconfirmed"}
  BY <1>9, AnswerOfReturn DEF FinishWork
<1>10. ASSUME NEW c \in Commands,
             ListenerRefused(c)
      PROVE  child = None \/ cmd'[d].answer \in {cmd[d].answer, None, "unconfirmed"}
  BY <1>10, AnswerOfReturn DEF ListenerRefused
<1>11. ASSUME NEW c \in Commands,
             PrivateRefused(c)
      PROVE  child = None \/ cmd'[d].answer \in {cmd[d].answer, None, "unconfirmed"}
  BY <1>11, AnswerOfReturn DEF PrivateRefused
<1>12. ASSUME NEW c \in Commands,
             RaiseFence(c)
      PROVE  child = None \/ cmd'[d].answer \in {cmd[d].answer, None, "unconfirmed"}
  <2>1. CASE child = None \/ stopping # None
    BY <1>12, <2>1, AnswerOfReturn DEF RaiseFence
  <2>2. CASE ~(child = None \/ stopping # None)
    BY <1>12, <2>2 DEF RaiseFence, Goto
  <2>. QED
    BY <2>1, <2>2
<1>13. ASSUME NEW c \in Commands,
             RequestStop(c)
      PROVE  child = None \/ cmd'[d].answer \in {cmd[d].answer, None, "unconfirmed"}
  <2>1. \E loc \in {"poll", "unfence"} : cmd' = [cmd EXCEPT ![c].pc = loc]
    BY <1>13 DEF RequestStop, Goto
  <2>. QED
    BY <2>1
<1>14. ASSUME NEW c \in Commands,
             ConfirmStop(c)
      PROVE  child = None \/ cmd'[d].answer \in {cmd[d].answer, None, "unconfirmed"}
  <2>1. child = None
    BY <1>14 DEF ConfirmStop, At, FenceInv, FenceOf, Fencing
  <2>. QED
    BY <2>1
<1>15. ASSUME NEW c \in Commands,
             StopTimesOut(c)
      PROVE  child = None \/ cmd'[d].answer \in {cmd[d].answer, None, "unconfirmed"}
  BY <1>15 DEF StopTimesOut
<1>16. ASSUME NEW c \in Commands,
             LowerFence(c)
      PROVE  child = None \/ cmd'[d].answer \in {cmd[d].answer, None, "unconfirmed"}
  BY <1>16, AnswerOfReturn DEF LowerFence
<1>17. ASSUME NEW c \in Commands,
             SpawnFails(c)
      PROVE  child = None \/ cmd'[d].answer \in {cmd[d].answer, None, "unconfirmed"}
  BY <1>17, AnswerOfReturn DEF SpawnFails
<1>18. ASSUME NEW c \in Commands,
             HelperEnds(c)
      PROVE  child = None \/ cmd'[d].answer \in {cmd[d].answer, None, "unconfirmed"}
  BY <1>18, AnswerOfReturn DEF HelperEnds
<1>19. ASSUME NEW c \in Commands,
             GiveUp(c)
      PROVE  child = None \/ cmd'[d].answer \in {cmd[d].answer, None, "unconfirmed"}
  BY <1>19 DEF GiveUp, HandOver, Idle
<1>20. ASSUME NEW c \in Commands,
             OutputEnds(c)
      PROVE  child = None \/ cmd'[d].answer \in {cmd[d].answer, None, "unconfirmed"}
  BY <1>20, AnswerOfReturn DEF OutputEnds
<1>21. ASSUME NEW c \in Commands, NEW p \in Pids,
             StartListener(c, p)
      PROVE  child = None \/ cmd'[d].answer \in {cmd[d].answer, None, "unconfirmed"}
  BY <1>21 DEF StartListener, Free, HandOver, Idle
<1>22. ASSUME NEW c \in Commands, NEW p \in Pids,
             StartPrivate(c, p)
      PROVE  child = None \/ cmd'[d].answer \in {cmd[d].answer, None, "unconfirmed"}
  BY <1>22 DEF StartPrivate, Free, HandOver, Idle
<1>23. ASSUME NEW c \in Commands, NEW p \in Pids,
             SpawnHelper(c, p)
      PROVE  child = None \/ cmd'[d].answer \in {cmd[d].answer, None, "unconfirmed"}
  BY <1>23 DEF SpawnHelper, Spawn, Free
<1>24. ASSUME NEW o \in Owners,
             DropBusy(o)
      PROVE  child = None \/ cmd'[d].answer \in {cmd[d].answer, None, "unconfirmed"}
  BY <1>24 DEF DropBusy, Settle, Idle
<1>25. ASSUME NEW o \in Owners,
             DropGuard(o)
      PROVE  child = None \/ cmd'[d].answer \in {cmd[d].answer, None, "unconfirmed"}
  BY <1>25 DEF DropGuard, Settle, Idle
<1>26. ASSUME NEW o \in Owners,
             DropLease(o)
      PROVE  child = None \/ cmd'[d].answer \in {cmd[d].answer, None, "unconfirmed"}
  BY <1>26 DEF DropLease, Settle, Idle
<1>27. CASE RequestExit
  <2>1. cmd' = cmd \/ \A e \in Commands : cmd'[e] = Idle
    BY <1>27 DEF RequestExit
  <2>. QED
    BY <2>1 DEF Idle
<1>28. CASE UNCHANGED <<cmd>>
  BY <1>28
<1>. QED
  BY CmdChange, <1>1, <1>2, <1>3, <1>4, <1>5, <1>6, <1>7, <1>8, <1>9, <1>10,
     <1>11, <1>12, <1>13, <1>14, <1>15, <1>16, <1>17, <1>18, <1>19, <1>20,
     <1>21, <1>22, <1>23, <1>24, <1>25, <1>26, <1>27, <1>28

\* The confirmation of a stop is true of the slot (lib.rs:700-709).
THEOREM StoppedSafe == Spec => StoppedMeansIdle
<1>. DEFINE Fact == \A c \in Commands :
               cmd'[c].answer = "stopped" /\ cmd[c].answer # "stopped" => child = None
<1>1. IInv /\ [Next]_vars => Fact
  BY Stopped, DesktopAssumption DEF IInv
<1>2. Spec => [][Fact]_vars
  BY <1>1, Invariance, PTL DEF Spec
<1>. QED
  BY <1>2 DEF StoppedMeansIdle
-----------------------------------------------------------------------------
(* The gate of WorkGate: every step moves guards as one of its actions does, *)
(* or the phase of the Desktop, or neither.                                  *)

Phase == IF ~alive THEN "gone" ELSE IF life.exiting THEN "quitting" ELSE "open"
GateStep == [Gate!Next]_(Gate!gateVars)

\* Only closing, exiting and starting again change the phase.
LEMMA PhaseStep ==
  ASSUME TypeOK, [Next]_vars
  PROVE  Phase' = Phase \/ CloseWindow \/ RequestExit \/ Relaunch
<1>0. life \in [active : Nat, maintenance : BOOLEAN, exclusive : BOOLEAN,
                exiting : BOOLEAN, keepRunning : BOOLEAN, tray : BOOLEAN]
  BY DEF TypeOK
<1>. SUFFICES ASSUME ~CloseWindow, ~RequestExit, ~Relaunch
              PROVE  alive' = alive /\ life'.exiting = life.exiting
  BY DEF Phase
<1>. USE <1>0 DEF desktop
<1>1. ASSUME NEW c \in Commands, Admit(c) \/ AdmitExclusive(c) \/ BeginMaintenance(c)
      PROVE  alive' = alive /\ life'.exiting = life.exiting
  BY <1>1 DEF Admit, AdmitExclusive, BeginMaintenance, Guarded
<1>2. ASSUME NEW o \in Owners, DropGuard(o)
      PROVE  alive' = alive /\ life'.exiting = life.exiting
  BY <1>2 DEF DropGuard
<1>3. ASSUME NEW enabled \in BOOLEAN, SetKeepRunning(enabled)
      PROVE  alive' = alive /\ life'.exiting = life.exiting
  BY <1>3 DEF SetKeepRunning
<1>4. CASE UNCHANGED <<alive, life>>
  BY <1>4
<1>. QED
  BY AliveChange, <1>1, <1>2, <1>3, <1>4

\* What moves the guards of a Desktop that stays in its phase is an action of
\* the gate.
LEMMA GateMoved ==
  ASSUME IInv, Moved, Phase' = Phase, (~alive => life.exiting)'
  PROVE  GateStep
<1>1. CASE Kept
  <2>1. [o \in Owners |-> own[o].guard]' = [o \in Owners |-> own[o].guard]
    BY <1>1 DEF Kept
  <2>2. UNCHANGED Gate!gateVars
    BY <2>1, Zenon DEF Gate!gateVars, Phase
  <2>. QED
    BY <2>2 DEF GateStep
<1>2. ASSUME NEW c \in Owners, NEW guard \in Guard, Gained(c, guard)
      PROVE  GateStep
  <2>1. Phase = "open"
    BY <1>2 DEF Gained, Phase
  <2>2. \A o \in Owners : own[o].guard \in {"none", "work"}
    BY <1>2 DEF IInv, TypeOK, FlagInv, Gained, Guard
  <2>3. guard # "work" => \A o \in Owners : own[o].guard = "none"
    BY <1>2, NoHolder DEF IInv, Gained
  <2>4. Gate!Changes({c})
    BY <1>2 DEF Gate!Changes, Gained
  <2>5. guard \in {"work", "exclusive", "maintenance"}
    BY <1>2 DEF Gained, Guard
  <2>6. own[c].guard = "none" /\ own'[c].guard = guard
    BY <1>2 DEF Gained
  <2>7. Gate!Take(c)
    BY <2>1, <2>2, <2>3, <2>4, <2>5, <2>6
       DEF Gate!Take, Gate!OnlyWork, Gate!Nobody, Phase
  <2>. QED
    BY <2>7 DEF GateStep, Gate!Next
<1>3. ASSUME NEW c \in Owners, NEW p \in Owners, Handed(c, p)
      PROVE  GateStep
  <2>1. Gate!Changes({c, p})
    BY <1>3 DEF Gate!Changes, Handed
  <2>2. Gate!Pass(c, p)
    BY <1>3, <2>1 DEF Gate!Pass, Handed, Phase
  <2>. QED
    BY <2>2 DEF GateStep, Gate!Next
<1>4. ASSUME NEW o \in Owners, Dropped(o)
      PROVE  GateStep
  <2>1. Gate!Changes({o})
    BY <1>4 DEF Gate!Changes, Dropped
  <2>2. Gate!Release(o)
    BY <1>4, <2>1 DEF Gate!Release, Dropped, Phase
  <2>. QED
    BY <2>2 DEF GateStep, Gate!Next
<1>. QED
  BY <1>1, <1>2, <1>3, <1>4 DEF Moved

\* Closing, exiting and starting again move the phase as the gate does: an
\* exit that is granted finds nobody to lose.
LEMMA GateTurned ==
  ASSUME IInv, CloseWindow \/ RequestExit \/ Relaunch
  PROVE  GateStep \/ (Phase' = Phase /\ UNCHANGED own)
<1>0. life \in [active : Nat, maintenance : BOOLEAN, exclusive : BOOLEAN,
                exiting : BOOLEAN, keepRunning : BOOLEAN, tray : BOOLEAN]
  BY DEF IInv, TypeOK
<1>. USE <1>0 DEF guards
<1>1. CASE CloseWindow
  <2>1. CASE life' = life
    BY <1>1, <2>1 DEF CloseWindow, Phase
  <2>2. CASE life.active = 0 /\ life' = [life EXCEPT !.exiting = TRUE]
    <3>1. alive /\ alive' /\ UNCHANGED own
      BY <1>1 DEF CloseWindow
    <3>2. CASE life.exiting
      BY <2>2, <3>1, <3>2 DEF Phase
    <3>3. CASE ~life.exiting
      <4>1. Gate!Nobody
        BY <2>2, NoHolder DEF IInv, Gate!Nobody
      <4>2. Gate!Quit
        BY <2>2, <3>1, <3>3, <4>1 DEF Gate!Quit
      <4>. QED
        BY <4>2 DEF GateStep, Gate!Next
    <3>. QED
      BY <3>2, <3>3
  <2>. QED
    BY <1>1, <2>1, <2>2 DEF CloseWindow
<1>2. CASE RequestExit
  <2>1. CASE life.active > 0
    BY <1>2, <2>1 DEF RequestExit, Phase
  <2>2. CASE ~(life.active > 0)
    <3>1. \A o \in Owners : own[o].guard = "none"
      BY <2>2, NoHolder DEF IInv
    <3>2. alive /\ ~alive' /\ own' = [o \in Owners |-> Nothing]
      BY <1>2, <2>2 DEF RequestExit
    <3>3. [o \in Owners |-> own[o].guard]' = [o \in Owners |-> own[o].guard]
      BY <3>1, <3>2 DEF Nothing
    <3>4. Gate!Quit
      BY <3>1, <3>2, <3>3 DEF Gate!Quit, Gate!Nobody
    <3>. QED
      BY <3>4 DEF GateStep, Gate!Next
  <2>. QED
    BY <2>1, <2>2
<1>3. CASE Relaunch
  <2>1. ~alive /\ alive' /\ UNCHANGED own /\ ~life'.exiting
    BY <1>3 DEF Relaunch, Fresh
  <2>2. \A o \in Owners : own[o].guard = "none"
    BY <2>1, NoHolder DEF IInv, ExitInv, ExitIsFinal
  <2>3. Gate!Reopen
    BY <2>1, <2>2 DEF Gate!Reopen, Gate!Nobody
  <2>. QED
    BY <2>3 DEF GateStep, Gate!Next
<1>. QED
  BY <1>1, <1>2, <1>3

\* background.rs:25-135: the counter and the flags of Lifecycle implement the
\* gate of WorkGate, which has neither.
THEOREM GateImplemented == Spec => ImplementsGate
<1>1. Init => Gate!Init
  <2>. SUFFICES ASSUME Init
                PROVE  Gate!Init
    OBVIOUS
  <2>1. PICK tray \in BOOLEAN : life = Fresh(tray, saved)
    BY DEF Init
  <2>2. alive /\ ~life.exiting /\ own = [o \in Owners |-> Nothing]
    BY <2>1 DEF Init, Fresh
  <2>. QED
    BY <2>2 DEF Gate!Init, Nothing
<1>2. IInv /\ [Next]_vars => GateStep
  <2>. SUFFICES ASSUME IInv, [Next]_vars
                PROVE  GateStep
    OBVIOUS
  <2>1. Moved
    BY Moves DEF IInv
  <2>2. Phase' = Phase \/ CloseWindow \/ RequestExit \/ Relaunch
    BY PhaseStep DEF IInv
  <2>3. (~alive => life.exiting)'
    BY EndedStep DEF IInv
  <2>4. CASE Phase' = Phase
    BY <2>1, <2>3, <2>4, GateMoved
  <2>5. CASE CloseWindow \/ RequestExit \/ Relaunch
    BY <2>1, <2>3, <2>5, GateMoved, GateTurned
  <2>. QED
    BY <2>2, <2>4, <2>5
<1>. QED
  BY <1>1, <1>2, Invariance, PTL DEF Spec, GateStep, ImplementsGate, Gate!Spec

-----------------------------------------------------------------------------
(* Which guard and which BUSY flag a process is kept with.                   *)

Role(kind) == CASE kind = "private" -> "exclusive"
                [] Maintains(kind) -> "maintenance"
                [] kind = "keep" -> "none"
                [] OTHER -> "work"

\* What a command owns on its way to its process.
HoldOf(c) ==
    /\ cmd[c].pc \in {"busy", "act", "spawn", "wait", "request", "poll", "unfence"} =>
           own[c].guard = Role(cmd[c].kind)
    /\ cmd[c].pc \in {"busy", "act"} => own[c].busy = None
    /\ cmd[c].pc \in {"lease", "admit"} => cmd[c].kind # "keep" /\ ~Maintains(cmd[c].kind)
    /\ cmd[c].pc \in {"spawn", "wait"} =>
           own[c].busy = Family(cmd[c].kind) /\ cmd[c].kind \in Helpers \union Waited
HoldInv == \A c \in Commands : HoldOf(c)

\* What is kept for a process, and the slot that knows it.
KeepOf(p) ==
    own[p] # Nothing /\ p \notin dropping =>
        /\ own[p].guard = Role(proc[p].kind)
        /\ own[p].busy = Family(proc[p].kind)
        /\ proc[p].kind = "listen" => child = p
        /\ proc[p].kind = "private" => private = p
KeepInv == \A p \in Pids : KeepOf(p)

\* A flag that is set is somebody's, and nobody else's.
BusyOf(o) ==
    own[o].busy # None =>
        own[o].busy \in busy /\ \A q \in Owners : own[q].busy = own[o].busy => q = o
BusyInv == \A o \in Owners : BusyOf(o)

KindOf(c) == At(c, "wait") => proc[cmd[c].pid].kind = cmd[c].kind
KindInv == \A c \in Commands : KindOf(c)

LEMMA RoleIs ==
  ASSUME NEW kind
  PROVE  /\ kind = "private" => Role(kind) = "exclusive"
         /\ Maintains(kind) => Role(kind) = "maintenance"
         /\ kind = "keep" => Role(kind) = "none"
         /\ kind # "private" /\ ~Maintains(kind) /\ kind # "keep" => Role(kind) = "work"
         /\ Supervised(kind) => Role(kind) # "none"
<1>1. Maintains(kind) => kind # "private" /\ kind # "keep"
  BY DEF Maintains
<1>2. Supervised(kind) => kind # "keep"
  BY DEF Supervised, Helpers
<1>3. CASE kind = "private"
  BY <1>1, <1>3 DEF Role
<1>4. CASE Maintains(kind)
  BY <1>1, <1>4 DEF Role
<1>5. CASE kind = "keep"
  BY <1>1, <1>2, <1>5 DEF Role
<1>6. CASE kind # "private" /\ ~Maintains(kind) /\ kind # "keep"
  BY <1>6 DEF Role
<1>. QED
  BY <1>1, <1>3, <1>4, <1>5, <1>6

LEMMA FamilyIs ==
  ASSUME NEW kind
  PROVE  /\ kind \notin Families /\ kind # "trim" => Family(kind) = None
         /\ Family(kind) # None => kind \in Helpers /\ Family(kind) \in Families
<1>2. CASE kind = "trim"
  BY <1>2 DEF Family, Families, Helpers
<1>3. CASE kind # "trim" /\ kind \in Families
  BY <1>3 DEF Family, Families, Helpers
<1>4. CASE kind # "trim" /\ kind \notin Families
  BY <1>4 DEF Family
<1>. QED
  BY <1>2, <1>3, <1>4

-----------------------------------------------------------------------------
(* What a step does to the commands and to what they and their processes own. *)

Same == UNCHANGED <<own, busy, child, private>>

Still ==
    /\ Same /\ UNCHANGED <<cmd, dropping>>
    /\ \A p \in Pids : Awaited(p) =>
           /\ proc'[p].kind = proc[p].kind
           /\ proc[p].state # "free" => proc'[p].state # "free"

Back(c) ==
    /\ Same /\ Return(c)
    /\ cmd[c].pc \notin {"idle", "drop"}
    /\ \/ proc' = proc
       \/ At(c, "wait") /\ proc' = [proc EXCEPT ![cmd[c].pid] = Free]

Called(c, kind) ==
    /\ Same /\ UNCHANGED <<dropping, proc>>
    /\ At(c, "idle")
    /\ cmd' = [cmd EXCEPT ![c].kind = kind,
          ![c].pc = IF kind = "keep" THEN "spawn"
                    ELSE IF Maintains(kind) THEN "maintain" ELSE "lease"]

Leased(c) ==
    /\ UNCHANGED <<dropping, proc, busy, child, private>>
    /\ At(c, "lease")
    /\ Goto(c, "admit")
    /\ own' = [own EXCEPT ![c].lease = TRUE]

Granted(c, guard) ==
    /\ UNCHANGED <<proc, busy, child, private>>
    /\ \/ At(c, "admit") /\ guard = IF cmd[c].kind = "private" THEN "exclusive" ELSE "work"
       \/ At(c, "maintain") /\ guard = "maintenance"
    /\ \E changed : Guarded(c, guard, changed)

Flagged(c) ==
    /\ UNCHANGED <<dropping, proc, child, private>>
    /\ At(c, "busy")
    /\ Goto(c, "spawn")
    /\ Family(cmd[c].kind) \notin busy
    /\ busy' = busy \union {Family(cmd[c].kind)}
    /\ own' = [own EXCEPT ![c].busy = Family(cmd[c].kind)]

Stopping(c) ==
    /\ Same /\ UNCHANGED <<dropping, proc>>
    /\ \/ At(c, "act") /\ cmd[c].kind = "stop" /\ At(c, "request")'
       \/ At(c, "request") /\ cmd'[c].pc \in {"poll", "unfence"}
       \/ At(c, "poll") /\ At(c, "unfence")'
    /\ cmd'[c].kind = cmd[c].kind
    /\ \A d \in Commands : d # c => cmd'[d] = cmd[d]

Spawned(c, p) ==
    /\ Same /\ UNCHANGED dropping
    /\ At(c, "spawn")
    /\ Spawn(c, p, "wait")

GivenUp(c) ==
    /\ UNCHANGED <<proc, busy, child, private>>
    /\ At(c, "wait")
    /\ cmd[c].kind \in Helpers
    /\ HandOver(c, cmd[c].pid)

Started(c, p) ==
    /\ UNCHANGED busy
    /\ At(c, "act")
    /\ Unused(p)
    /\ proc'[p].kind = cmd[c].kind
    /\ \A q \in Pids : q # p => proc'[q] = proc[q]
    /\ HandOver(c, p)
    /\ \/ cmd[c].kind = "listen" /\ child = None /\ child' = p /\ private' = private
       \/ cmd[c].kind = "private" /\ private = None /\ private' = p /\ child' = child

Settled(o) ==
    /\ proc' = proc
    /\ o \in dropping
    /\ \/ own[o].busy # None /\ busy' = busy \ {own[o].busy}
          /\ Settle(o, [own[o] EXCEPT !.busy = None])
       \/ own[o].busy = None /\ busy' = busy
          /\ \E r \in {Nothing, [own[o] EXCEPT !.guard = "none"]} :
                Settle(o, r) /\ (own[o].guard = "none" => r = Nothing)

Terminated(p) ==
    /\ Same /\ UNCHANGED cmd
    /\ own[p] # Nothing
    /\ \A q \in Pids : q # p => proc'[q] = proc[q]
    /\ dropping' = dropping \union {p}

Emptied ==
    /\ own' = [o \in Owners |-> Nothing]
    /\ cmd' = [c \in Commands |-> Idle]
    /\ dropping' = {} /\ busy' = {} /\ proc' = proc

Turn ==
    \/ Still \/ Emptied
    \/ \E c \in Commands : Back(c) \/ Leased(c) \/ Flagged(c) \/ Stopping(c) \/ GivenUp(c)
    \/ \E c \in Commands : \E kind \in Kinds : Called(c, kind)
    \/ \E c \in Commands : \E guard \in {"work", "exclusive", "maintenance"} : Granted(c, guard)
    \/ \E c \in Commands : \E p \in Pids : Spawned(c, p) \/ Started(c, p)
    \/ \E o \in Owners : Settled(o)
    \/ \E p \in Pids : Terminated(p)

LEMMA TurnStep ==
  ASSUME TypeOK, [Next]_vars
  PROVE  Turn
<1>0. /\ DOMAIN own = Owners /\ DOMAIN cmd = Commands /\ DOMAIN proc = Pids
      /\ \A e \in Commands : cmd[e] \in
             [kind : Kinds \union {None}, pc : Location, pid : Pids \union {None},
              answer : {None, "stopped", "unconfirmed"}]
      /\ \A q \in Pids : DOMAIN proc[q] = {"kind", "open", "state"}
  BY DEF TypeOK
<1>1. ASSUME NEW c \in Commands, RefuseAdmission(c)
      PROVE  Turn
  <2>1. Back(c)
    BY <1>1 DEF RefuseAdmission, Back, Same, At, slots
  <2>. QED
    BY <2>1 DEF Turn
<1>2. ASSUME NEW c \in Commands, RefuseBusy(c)
      PROVE  Turn
  <2>1. Back(c)
    BY <1>2 DEF RefuseBusy, Back, Same, At, slots
  <2>. QED
    BY <2>1 DEF Turn
<1>3. ASSUME NEW c \in Commands, FinishWork(c)
      PROVE  Turn
  <2>1. Back(c)
    BY <1>3 DEF FinishWork, Back, Same, At, slots
  <2>. QED
    BY <2>1 DEF Turn
<1>4. ASSUME NEW c \in Commands, ListenerRefused(c)
      PROVE  Turn
  <2>1. Back(c)
    BY <1>4 DEF ListenerRefused, Back, Same, At, slots
  <2>. QED
    BY <2>1 DEF Turn
<1>5. ASSUME NEW c \in Commands, PrivateRefused(c)
      PROVE  Turn
  <2>1. Back(c)
    BY <1>5 DEF PrivateRefused, Back, Same, At, slots
  <2>. QED
    BY <2>1 DEF Turn
<1>6. ASSUME NEW c \in Commands, LowerFence(c)
      PROVE  Turn
  <2>1. Back(c)
    BY <1>6 DEF LowerFence, Back, Same, At
  <2>. QED
    BY <2>1 DEF Turn
<1>7. ASSUME NEW c \in Commands, SpawnFails(c)
      PROVE  Turn
  <2>1. Back(c)
    BY <1>7 DEF SpawnFails, Back, Same, At, slots
  <2>. QED
    BY <2>1 DEF Turn
<1>8. ASSUME NEW c \in Commands, HelperEnds(c)
      PROVE  Turn
  <2>1. Back(c)
    BY <1>8 DEF HelperEnds, Back, Same, At, slots
  <2>. QED
    BY <2>1 DEF Turn
<1>9. ASSUME NEW c \in Commands, OutputEnds(c)
      PROVE  Turn
  <2>1. Back(c)
    BY <1>9 DEF OutputEnds, Back, Same, At, slots
  <2>. QED
    BY <2>1 DEF Turn
<1>10. ASSUME NEW c \in Commands, TakeLease(c)
      PROVE  Turn
  <2>1. Back(c) \/ Leased(c)
    BY <1>0, <1>10 DEF TakeLease, Back, Leased, Same, At, slots
  <2>. QED
    BY <2>1 DEF Turn
<1>11. ASSUME NEW c \in Commands, NEW kind \in Kinds, Invoke(c, kind)
      PROVE  Turn
  <2>1. Called(c, kind)
    BY <1>0, <1>11 DEF Invoke, Called, Same, guards, slots
  <2>. QED
    BY <2>1 DEF Turn
<1>12. ASSUME NEW c \in Commands, Admit(c)
      PROVE  Turn
  <2>1. Granted(c, "work")
    BY <1>0, <1>12 DEF Admit, Granted, At, slots
  <2>. QED
    BY <2>1 DEF Turn
<1>13. ASSUME NEW c \in Commands, AdmitExclusive(c)
      PROVE  Turn
  <2>1. Granted(c, "exclusive")
    BY <1>0, <1>13 DEF AdmitExclusive, Granted, At, slots
  <2>. QED
    BY <2>1 DEF Turn
<1>14. ASSUME NEW c \in Commands, BeginMaintenance(c)
      PROVE  Turn
  <2>1. Granted(c, "maintenance")
    BY <1>0, <1>14 DEF BeginMaintenance, Granted, At, slots
  <2>. QED
    BY <2>1 DEF Turn
<1>15. ASSUME NEW c \in Commands, TakeBusy(c)
      PROVE  Turn
  <2>1. Flagged(c)
    BY <1>0, <1>15 DEF TakeBusy, Flagged, slots
  <2>. QED
    BY <2>1 DEF Turn
<1>16. ASSUME NEW c \in Commands, RaiseFence(c)
      PROVE  Turn
  <2>1. Back(c) \/ Stopping(c)
    BY <1>0, <1>16 DEF RaiseFence, Back, Stopping, Same, At
  <2>. QED
    BY <2>1 DEF Turn
<1>17. ASSUME NEW c \in Commands, RequestStop(c)
      PROVE  Turn
  <2>1. Stopping(c)
    BY <1>0, <1>17 DEF RequestStop, Stopping, Same, At, Goto, guards, slots
  <2>. QED
    BY <2>1 DEF Turn
<1>18. ASSUME NEW c \in Commands, ConfirmStop(c)
      PROVE  Turn
  <2>1. Stopping(c)
    BY <1>0, <1>18 DEF ConfirmStop, Stopping, Same, At, guards, slots
  <2>. QED
    BY <2>1 DEF Turn
<1>19. ASSUME NEW c \in Commands, StopTimesOut(c)
      PROVE  Turn
  <2>1. Stopping(c)
    BY <1>0, <1>19 DEF StopTimesOut, Stopping, Same, At, guards, slots
  <2>. QED
    BY <2>1 DEF Turn
<1>20. ASSUME NEW c \in Commands, NEW p \in Pids, SpawnHelper(c, p)
      PROVE  Turn
  <2>1. Spawned(c, p)
    BY <1>0, <1>20 DEF SpawnHelper, Spawned, Same, guards, slots
  <2>. QED
    BY <2>1 DEF Turn
<1>21. ASSUME NEW c \in Commands, GiveUp(c)
      PROVE  Turn
  <2>1. GivenUp(c)
    BY <1>0, <1>21 DEF GiveUp, GivenUp, slots
  <2>. QED
    BY <2>1 DEF Turn
<1>22. ASSUME NEW c \in Commands, NEW p \in Pids, StartListener(c, p)
      PROVE  Turn
  <2>1. Started(c, p)
    BY <1>0, <1>22 DEF StartListener, Started, At, Free
  <2>. QED
    BY <2>1 DEF Turn
<1>23. ASSUME NEW c \in Commands, NEW p \in Pids, StartPrivate(c, p)
      PROVE  Turn
  <2>1. Started(c, p)
    BY <1>0, <1>23 DEF StartPrivate, Started, At, Free
  <2>. QED
    BY <2>1 DEF Turn
<1>24. ASSUME NEW o \in Owners, DropBusy(o)
      PROVE  Turn
  <2>1. Settled(o)
    BY <1>0, <1>24 DEF DropBusy, Settled
  <2>. QED
    BY <2>1 DEF Turn
<1>25. ASSUME NEW o \in Owners, DropGuard(o)
      PROVE  Turn
  <2>1. Settled(o)
    BY <1>0, <1>25 DEF DropGuard, Settled
  <2>. QED
    BY <2>1 DEF Turn
<1>26. ASSUME NEW o \in Owners, DropLease(o)
      PROVE  Turn
  <2>1. Settled(o)
    BY <1>0, <1>26 DEF DropLease, Settled
  <2>. QED
    BY <2>1 DEF Turn
<1>27. ASSUME NEW p \in Pids, HandleTerminated(p)
      PROVE  Turn
  <2>1. Terminated(p)
    BY <1>0, <1>27 DEF HandleTerminated, Terminated, Same, slots
  <2>. QED
    BY <2>1 DEF Turn
<1>28. ASSUME NEW p \in Pids, Exit(p)
      PROVE  Turn
  <2>1. Still
    BY <1>0, <1>28 DEF Exit, Still, Same, guards, slots
  <2>. QED
    BY <2>1 DEF Turn
<1>29. ASSUME NEW p \in Pids, LoseChannel(p)
      PROVE  Turn
  <2>1. Still
    BY <1>0, <1>29 DEF LoseChannel, Still, Same, guards, slots
  <2>. QED
    BY <2>1 DEF Turn
<1>30. ASSUME NEW p \in Pids, Reap(p)
      PROVE  Turn
  <2>1. Still
    BY <1>0, <1>30 DEF Reap, Still, Same, guards, slots
  <2>. QED
    BY <2>1 DEF Turn
<1>31. CASE RequestExit
  <2>1. Still \/ Emptied
    BY <1>31 DEF RequestExit, Still, Emptied, Same, guards, slots
  <2>. QED
    BY <2>1 DEF Turn
<1>32. CASE UNCHANGED <<guards, cmd, proc, slots>>
  <2>1. Still
    BY <1>32 DEF Still, Same, guards, slots
  <2>. QED
    BY <2>1 DEF Turn
<1>33. CASE UNCHANGED vars \/ OtherCleanup \/ CloseWindow \/ ShowWindow \/ Relaunch
           \/ (\E enabled \in BOOLEAN : SetKeepRunning(enabled)) \/ (\E p \in Pids : TakeExclusive(p))
  <2>1. UNCHANGED <<guards, cmd, proc, slots>>
    BY <1>33 DEF vars, OtherCleanup, CloseWindow, ShowWindow, Relaunch, SetKeepRunning, TakeExclusive
  <2>. QED
    BY <1>32, <2>1
<1>. QED
  BY <1>1, <1>2, <1>3, <1>4, <1>5, <1>6, <1>7, <1>8, <1>9,
     <1>10, <1>11, <1>12, <1>13, <1>14, <1>15, <1>16, <1>17, <1>18,
     <1>19, <1>20, <1>21, <1>22, <1>23, <1>24, <1>25, <1>26, <1>27,
     <1>28, <1>29, <1>30, <1>31, <1>32, <1>33
     DEF Next, Step, Drop, Happens

LEMMA HoldStep ==
  ASSUME TypeOK, PlaceInv, WaitInv, HoldInv, [Next]_vars
  PROVE  HoldInv'
<1>. SUFFICES ASSUME NEW d \in Commands PROVE HoldOf(d)'
  BY DEF HoldInv
<1>0. /\ DOMAIN own = Owners /\ DOMAIN cmd = Commands /\ DOMAIN proc = Pids
      /\ \A e \in Commands : cmd[e] \in
             [kind : Kinds \union {None}, pc : Location, pid : Pids \union {None},
              answer : {None, "stopped", "unconfirmed"}]
      /\ \A x \in Owners : own[x] \in
             [guard : Guard, lease : BOOLEAN, busy : Families \union {None}]
      /\ \A q \in Pids : DOMAIN proc[q] = {"kind", "open", "state"}
      /\ Commands \subseteq Owners /\ Pids \subseteq Owners
      /\ Commands \intersect Pids = {} /\ None \notin Owners
  BY DesktopAssumption DEF TypeOK, Owners
<1>a. HoldOf(d) /\ PlaceOf(d)
  BY DEF HoldInv, PlaceInv
<1>1. CASE Still
  <2>1. cmd'[d] = cmd[d] /\ own'[d] = own[d]
    BY <1>1 DEF Still, Same
  <2>. QED
    BY <1>a, <2>1 DEF HoldOf
<1>2. CASE Emptied
  <2>1. cmd'[d].pc = "idle"
    BY <1>2 DEF Emptied, Idle
  <2>. QED
    BY <2>1 DEF HoldOf
<1>3. ASSUME NEW c \in Commands, Back(c)
      PROVE  HoldOf(d)'
  <2>1. own'[d] = own[d] /\ (cmd'[d] = cmd[d] \/ cmd'[d].pc \in {"idle", "drop"})
    BY <1>0, <1>3 DEF Back, Same, Return, Goto, Idle
  <2>. QED
    BY <1>a, <2>1 DEF HoldOf
<1>4. ASSUME NEW c \in Commands, Leased(c)
      PROVE  HoldOf(d)'
  <2>1. CASE d # c
    <3>1. cmd'[d] = cmd[d] /\ own'[d] = own[d]
      BY <1>0, <1>4, <2>1 DEF Leased, Goto
    <3>. QED
      BY <1>a, <3>1 DEF HoldOf
  <2>2. CASE d = c
    <3>1. cmd[d].pc = "lease" /\ cmd'[d].pc = "admit" /\ cmd'[d].kind = cmd[d].kind
      BY <1>0, <1>4, <2>2 DEF Leased, Goto, At
    <3>. QED
      BY <1>a, <3>1 DEF HoldOf
  <2>. QED
    BY <2>1, <2>2
<1>5. ASSUME NEW c \in Commands, Flagged(c)
      PROVE  HoldOf(d)'
  <2>1. CASE d # c
    <3>1. cmd'[d] = cmd[d] /\ own'[d] = own[d]
      BY <1>0, <1>5, <2>1 DEF Flagged, Goto
    <3>. QED
      BY <1>a, <3>1 DEF HoldOf
  <2>2. CASE d = c
    <3>1. /\ cmd[d].pc = "busy" /\ cmd'[d].pc = "spawn" /\ cmd'[d].kind = cmd[d].kind
          /\ own'[d].guard = own[d].guard /\ own'[d].busy = Family(cmd[d].kind)
      BY <1>0, <1>5, <2>2 DEF Flagged, Goto, At
    <3>2. cmd[d].kind \in Helpers
      BY <1>a, <3>1, FamilyIs DEF PlaceOf, At
    <3>. QED
      BY <1>a, <3>1, <3>2 DEF HoldOf
  <2>. QED
    BY <2>1, <2>2
<1>6. ASSUME NEW c \in Commands, Stopping(c)
      PROVE  HoldOf(d)'
  <2>1. CASE d # c
    <3>1. cmd'[d] = cmd[d] /\ own'[d] = own[d]
      BY <1>0, <1>6, <2>1 DEF Stopping, Same
    <3>. QED
      BY <1>a, <3>1 DEF HoldOf
  <2>2. CASE d = c
    <3>1. /\ cmd[d].pc \in {"act", "request", "poll"}
          /\ cmd'[d].pc \in {"request", "poll", "unfence"}
          /\ cmd'[d].kind = cmd[d].kind /\ own'[d] = own[d]
      BY <1>0, <1>6, <2>2 DEF Stopping, Same, At
    <3>. QED
      BY <1>a, <3>1 DEF HoldOf
  <2>. QED
    BY <2>1, <2>2
<1>7. ASSUME NEW c \in Commands, GivenUp(c)
      PROVE  HoldOf(d)'
  <2>0. cmd[c].pid \in Pids
    BY <1>7, Waiting DEF GivenUp, At
  <2>1. CASE d # c
    <3>1. cmd'[d] = cmd[d] /\ own'[d] = own[d]
      BY <1>0, <1>7, <2>1, <2>0 DEF GivenUp, HandOver
    <3>. QED
      BY <1>a, <3>1 DEF HoldOf
  <2>2. CASE d = c
    <3>1. cmd'[d].pc = "idle"
      BY <1>0, <1>7, <2>2 DEF GivenUp, HandOver, Idle
    <3>. QED
      BY <3>1 DEF HoldOf
  <2>. QED
    BY <2>1, <2>2
<1>8. ASSUME NEW c \in Commands, NEW kind \in Kinds, Called(c, kind)
      PROVE  HoldOf(d)'
  <2>1. CASE d # c
    <3>1. cmd'[d] = cmd[d] /\ own'[d] = own[d]
      BY <1>0, <1>8, <2>1 DEF Called, Same
    <3>. QED
      BY <1>a, <3>1 DEF HoldOf
  <2>2. CASE d = c
    <3>1. own'[d] = Nothing /\ cmd'[d].kind = kind
      BY <1>0, <1>a, <1>8, <2>2 DEF Called, Same, PlaceOf, At
    <3>2. cmd'[d].pc = IF kind = "keep" THEN "spawn"
                       ELSE IF Maintains(kind) THEN "maintain" ELSE "lease"
      BY <1>0, <1>8, <2>2 DEF Called
    <3>3. CASE kind = "keep"
      <4>1. Role(kind) = "none" /\ Family(kind) = None
        BY <3>3, RoleIs, FamilyIs DEF Families
      <4>. QED
        BY <3>1, <3>2, <3>3, <4>1 DEF HoldOf, Nothing, Waited
    <3>4. CASE kind # "keep" /\ Maintains(kind)
      BY <3>2, <3>4 DEF HoldOf
    <3>5. CASE kind # "keep" /\ ~Maintains(kind)
      BY <3>1, <3>2, <3>5 DEF HoldOf
    <3>. QED
      BY <3>3, <3>4, <3>5
  <2>. QED
    BY <2>1, <2>2
<1>9. ASSUME NEW c \in Commands, NEW guard \in {"work", "exclusive", "maintenance"}, Granted(c, guard)
      PROVE  HoldOf(d)'
  <2>1. CASE d # c
    <3>1. cmd'[d] = cmd[d] /\ own'[d] = own[d]
      BY <1>0, <1>9, <2>1 DEF Granted, Guarded, Goto
    <3>. QED
      BY <1>a, <3>1 DEF HoldOf
  <2>2. CASE d = c
    <3>1. /\ cmd'[d].kind = cmd[d].kind
          /\ own'[d].guard = guard /\ own'[d].busy = own[d].busy
          /\ cmd'[d].pc = IF Family(cmd[d].kind) # None THEN "busy"
                          ELSE IF cmd[d].kind \in Helpers \union Waited THEN "spawn" ELSE "act"
      BY <1>0, <1>9, <2>2 DEF Granted, Guarded, Goto
    <3>2. own[d].busy = None
      BY <1>a, <1>9, <2>2 DEF Granted, PlaceOf, At, Nothing
    <3>3. guard = Role(cmd[d].kind)
      BY <1>a, <1>9, <2>2, RoleIs DEF Granted, At, HoldOf, PlaceOf
    <3>4. CASE Family(cmd[d].kind) # None
      BY <3>1, <3>2, <3>3, <3>4 DEF HoldOf
    <3>5. CASE Family(cmd[d].kind) = None /\ cmd[d].kind \in Helpers \union Waited
      BY <3>1, <3>2, <3>3, <3>5 DEF HoldOf
    <3>6. CASE Family(cmd[d].kind) = None /\ cmd[d].kind \notin Helpers \union Waited
      BY <3>1, <3>2, <3>3, <3>6 DEF HoldOf
    <3>. QED
      BY <3>4, <3>5, <3>6
  <2>. QED
    BY <2>1, <2>2
<1>10. ASSUME NEW c \in Commands, NEW p \in Pids, Spawned(c, p)
      PROVE  HoldOf(d)'
  <2>1. CASE d # c
    <3>1. cmd'[d] = cmd[d] /\ own'[d] = own[d]
      BY <1>0, <1>10, <2>1 DEF Spawned, Spawn, Same
    <3>. QED
      BY <1>a, <3>1 DEF HoldOf
  <2>2. CASE d = c
    <3>1. cmd[d].pc = "spawn" /\ cmd'[d].pc = "wait" /\ cmd'[d].kind = cmd[d].kind /\ own'[d] = own[d]
      BY <1>0, <1>10, <2>2 DEF Spawned, Spawn, Same, At
    <3>. QED
      BY <1>a, <3>1 DEF HoldOf
  <2>. QED
    BY <2>1, <2>2
<1>11. ASSUME NEW c \in Commands, NEW p \in Pids, Started(c, p)
      PROVE  HoldOf(d)'
  <2>1. CASE d # c
    <3>1. cmd'[d] = cmd[d] /\ own'[d] = own[d]
      BY <1>0, <1>11, <2>1 DEF Started, HandOver
    <3>. QED
      BY <1>a, <3>1 DEF HoldOf
  <2>2. CASE d = c
    <3>1. cmd'[d].pc = "idle"
      BY <1>0, <1>11, <2>2 DEF Started, HandOver, Idle
    <3>. QED
      BY <3>1 DEF HoldOf
  <2>. QED
    BY <2>1, <2>2
<1>12. ASSUME NEW o \in Owners, Settled(o)
      PROVE  HoldOf(d)'
  <2>1. cmd'[d].pc = "idle" \/ (cmd'[d] = cmd[d] /\ (own'[d] = own[d] \/ d \in dropping))
    BY <1>0, <1>12 DEF Settled, Settle, Idle
  <2>2. d \in dropping => cmd[d].pc = "drop"
    BY <1>a DEF PlaceOf, At
  <2>. QED
    BY <1>a, <2>1, <2>2 DEF HoldOf
<1>13. ASSUME NEW p \in Pids, Terminated(p)
      PROVE  HoldOf(d)'
  <2>1. cmd'[d] = cmd[d] /\ own'[d] = own[d]
    BY <1>13 DEF Terminated, Same
  <2>. QED
    BY <1>a, <2>1 DEF HoldOf
<1>. QED
  BY TurnStep, <1>1, <1>2, <1>3, <1>4, <1>5, <1>6, <1>7, <1>8, <1>9,
     <1>10, <1>11, <1>12, <1>13 DEF Turn

LEMMA KindStep ==
  ASSUME TypeOK, PlaceInv, WaitInv, OnlyWait, KindInv, [Next]_vars
  PROVE  KindInv'
<1>. SUFFICES ASSUME NEW d \in Commands PROVE KindOf(d)'
  BY DEF KindInv
<1>0. /\ DOMAIN own = Owners /\ DOMAIN cmd = Commands /\ DOMAIN proc = Pids
      /\ \A e \in Commands : cmd[e] \in
             [kind : Kinds \union {None}, pc : Location, pid : Pids \union {None},
              answer : {None, "stopped", "unconfirmed"}]
      /\ \A x \in Owners : own[x] \in
             [guard : Guard, lease : BOOLEAN, busy : Families \union {None}]
      /\ \A q \in Pids : DOMAIN proc[q] = {"kind", "open", "state"}
      /\ Commands \subseteq Owners /\ Pids \subseteq Owners
      /\ Commands \intersect Pids = {} /\ None \notin Owners
  BY DesktopAssumption DEF TypeOK, Owners
<1>a. KindOf(d) /\ OnlyOf(d)
  BY DEF KindInv, OnlyWait
<1>1. CASE Still
  <2>1. CASE cmd[d].pc = "wait"
    <3>1. Awaited(cmd[d].pid) /\ cmd[d].pid \in Pids
      BY <2>1, Waiting DEF Awaited, At
    <3>. QED
      BY <1>a, <1>1, <2>1, <3>1 DEF Still, KindOf, At
  <2>2. CASE cmd[d].pc # "wait"
    BY <1>1, <2>2 DEF Still, KindOf, At
  <2>. QED
    BY <2>1, <2>2
<1>2. CASE Emptied
  BY <1>2 DEF Emptied, KindOf, At, Idle
<1>3. ASSUME NEW c \in Commands, Back(c)
      PROVE  KindOf(d)'
  <2>1. CASE d = c
    <3>1. cmd'[d].pc \in {"idle", "drop"}
      BY <1>0, <1>3, <2>1 DEF Back, Return, Goto, Idle
    <3>. QED
      BY <3>1 DEF KindOf, At
  <2>2. CASE d # c
    <3>1. cmd'[d] = cmd[d]
      BY <1>0, <1>3, <2>2 DEF Back, Return, Goto
    <3>2. cmd[d].pc = "wait" => cmd[d].pid \in Pids /\ (At(c, "wait") => cmd[d].pid # cmd[c].pid)
      BY <1>a, <2>2, Waiting DEF OnlyOf, At
    <3>3. cmd[d].pc = "wait" => proc'[cmd[d].pid] = proc[cmd[d].pid]
      BY <1>0, <1>3, <3>2 DEF Back
    <3>. QED
      BY <1>a, <3>1, <3>3 DEF KindOf, At
  <2>. QED
    BY <2>1, <2>2
<1>4. ASSUME NEW c \in Commands, Leased(c)
      PROVE  KindOf(d)'
  <2>1. cmd'[d].pc # "wait" \/ cmd'[d] = cmd[d]
    BY <1>0, <1>4 DEF Leased, Goto, At
  <2>2. proc' = proc
    BY <1>4 DEF Leased
  <2>. QED
    BY <1>a, <2>1, <2>2 DEF KindOf, At
<1>5. ASSUME NEW c \in Commands, Flagged(c)
      PROVE  KindOf(d)'
  <2>1. cmd'[d].pc # "wait" \/ cmd'[d] = cmd[d]
    BY <1>0, <1>5 DEF Flagged, Goto, At
  <2>2. proc' = proc
    BY <1>5 DEF Flagged
  <2>. QED
    BY <1>a, <2>1, <2>2 DEF KindOf, At
<1>6. ASSUME NEW c \in Commands, Stopping(c)
      PROVE  KindOf(d)'
  <2>1. cmd'[d].pc # "wait" \/ cmd'[d] = cmd[d]
    BY <1>0, <1>6 DEF Stopping, At
  <2>2. proc' = proc
    BY <1>6 DEF Stopping
  <2>. QED
    BY <1>a, <2>1, <2>2 DEF KindOf, At
<1>7. ASSUME NEW c \in Commands, GivenUp(c)
      PROVE  KindOf(d)'
  <2>1. cmd'[d].pc # "wait" \/ cmd'[d] = cmd[d]
    BY <1>0, <1>7 DEF GivenUp, HandOver, Idle
  <2>2. proc' = proc
    BY <1>7 DEF GivenUp
  <2>. QED
    BY <1>a, <2>1, <2>2 DEF KindOf, At
<1>8. ASSUME NEW c \in Commands, NEW kind \in Kinds, Called(c, kind)
      PROVE  KindOf(d)'
  <2>1. cmd'[d].pc # "wait" \/ cmd'[d] = cmd[d]
    BY <1>0, <1>8 DEF Called
  <2>2. proc' = proc
    BY <1>8 DEF Called
  <2>. QED
    BY <1>a, <2>1, <2>2 DEF KindOf, At
<1>9. ASSUME NEW c \in Commands, NEW guard \in {"work", "exclusive", "maintenance"}, Granted(c, guard)
      PROVE  KindOf(d)'
  <2>1. cmd'[d].pc # "wait" \/ cmd'[d] = cmd[d]
    BY <1>0, <1>9 DEF Granted, Guarded, Goto
  <2>2. proc' = proc
    BY <1>9 DEF Granted
  <2>. QED
    BY <1>a, <2>1, <2>2 DEF KindOf, At
<1>10. ASSUME NEW c \in Commands, NEW p \in Pids, Spawned(c, p)
      PROVE  KindOf(d)'
  <2>1. CASE d = c
    <3>1. cmd'[d].pid = p /\ cmd'[d].kind = cmd[d].kind /\ proc'[p].kind = cmd[d].kind
      BY <1>0, <1>10, <2>1 DEF Spawned, Spawn, Free
    <3>. QED
      BY <3>1 DEF KindOf
  <2>2. CASE d # c
    <3>1. cmd'[d] = cmd[d]
      BY <1>0, <1>10, <2>2 DEF Spawned, Spawn
    <3>2. cmd[d].pc = "wait" => cmd[d].pid # p
      BY <1>10 DEF Spawned, Spawn, Unused, Awaited, At
    <3>3. cmd[d].pc = "wait" => proc'[cmd[d].pid] = proc[cmd[d].pid]
      BY <1>0, <1>10, <3>2, Waiting DEF Spawned, Spawn
    <3>. QED
      BY <1>a, <3>1, <3>3 DEF KindOf, At
  <2>. QED
    BY <2>1, <2>2
<1>11. ASSUME NEW c \in Commands, NEW p \in Pids, Started(c, p)
      PROVE  KindOf(d)'
  <2>1. cmd'[d].pc # "wait" \/ cmd'[d] = cmd[d]
    BY <1>0, <1>11 DEF Started, HandOver, Idle
  <2>2. cmd[d].pc = "wait" => cmd[d].pid # p /\ cmd[d].pid \in Pids
    BY <1>11, Waiting DEF Started, Unused, Awaited, At
  <2>3. cmd[d].pc = "wait" => proc'[cmd[d].pid] = proc[cmd[d].pid]
    BY <1>11, <2>2 DEF Started
  <2>. QED
    BY <1>a, <2>1, <2>3 DEF KindOf, At
<1>12. ASSUME NEW o \in Owners, Settled(o)
      PROVE  KindOf(d)'
  <2>1. cmd'[d].pc # "wait" \/ cmd'[d] = cmd[d]
    BY <1>0, <1>12 DEF Settled, Settle, Idle
  <2>2. proc' = proc
    BY <1>12 DEF Settled
  <2>. QED
    BY <1>a, <2>1, <2>2 DEF KindOf, At
<1>13. ASSUME NEW p \in Pids, Terminated(p)
      PROVE  KindOf(d)'
  <2>1. cmd'[d] = cmd[d]
    BY <1>13 DEF Terminated
  <2>2. cmd[d].pc = "wait" => cmd[d].pid # p /\ cmd[d].pid \in Pids
    BY <1>13, Waiting DEF Terminated
  <2>3. cmd[d].pc = "wait" => proc'[cmd[d].pid] = proc[cmd[d].pid]
    BY <1>13, <2>2 DEF Terminated
  <2>. QED
    BY <1>a, <2>1, <2>3 DEF KindOf, At
<1>. QED
  BY TurnStep, <1>1, <1>2, <1>3, <1>4, <1>5, <1>6, <1>7, <1>8, <1>9,
     <1>10, <1>11, <1>12, <1>13 DEF Turn

LEMMA KeepStep ==
  ASSUME TypeOK, PlaceInv, WaitInv, HoldInv, KindInv, KeepInv, [Next]_vars
  PROVE  KeepInv'
<1>. SUFFICES ASSUME NEW d \in Pids PROVE KeepOf(d)'
  BY DEF KeepInv
<1>0. /\ DOMAIN own = Owners /\ DOMAIN cmd = Commands /\ DOMAIN proc = Pids
      /\ \A e \in Commands : cmd[e] \in
             [kind : Kinds \union {None}, pc : Location, pid : Pids \union {None},
              answer : {None, "stopped", "unconfirmed"}]
      /\ \A x \in Owners : own[x] \in
             [guard : Guard, lease : BOOLEAN, busy : Families \union {None}]
      /\ \A q \in Pids : DOMAIN proc[q] = {"kind", "open", "state"}
      /\ Commands \subseteq Owners /\ Pids \subseteq Owners
      /\ Commands \intersect Pids = {} /\ None \notin Owners
  BY DesktopAssumption DEF TypeOK, Owners
<1>a. KeepOf(d)
  BY DEF KeepInv
<1>1. CASE Still
  <2>1. own'[d] # Nothing => proc'[d].kind = proc[d].kind
    BY <1>1 DEF Still, Same, Awaited
  <2>. QED
    BY <1>a, <1>1, <2>1 DEF Still, Same, KeepOf
<1>2. CASE Emptied
  BY <1>0, <1>2 DEF Emptied, KeepOf
<1>3. ASSUME NEW c \in Commands, Back(c)
      PROVE  KeepOf(d)'
  <2>1. /\ own'[d] = own[d] /\ (d \in dropping => d \in dropping')
        /\ child' = child /\ private' = private
    BY <1>0, <1>3 DEF Back, Same, Return
  <2>2. own[d] # Nothing => proc'[d] = proc[d]
    BY <1>0, <1>3, Waiting DEF Back, At
  <2>. QED
    BY <1>a, <2>1, <2>2 DEF KeepOf
<1>4. ASSUME NEW c \in Commands, Leased(c)
      PROVE  KeepOf(d)'
  <2>1. /\ own'[d] = own[d] /\ (d \in dropping => d \in dropping')
        /\ child' = child /\ private' = private /\ proc'[d] = proc[d]
    BY <1>0, <1>4 DEF Leased
  <2>. QED
    BY <1>a, <2>1 DEF KeepOf
<1>5. ASSUME NEW c \in Commands, Flagged(c)
      PROVE  KeepOf(d)'
  <2>1. /\ own'[d] = own[d] /\ (d \in dropping => d \in dropping')
        /\ child' = child /\ private' = private /\ proc'[d] = proc[d]
    BY <1>0, <1>5 DEF Flagged
  <2>. QED
    BY <1>a, <2>1 DEF KeepOf
<1>6. ASSUME NEW c \in Commands, Stopping(c)
      PROVE  KeepOf(d)'
  <2>1. /\ own'[d] = own[d] /\ (d \in dropping => d \in dropping')
        /\ child' = child /\ private' = private /\ proc'[d] = proc[d]
    BY <1>0, <1>6 DEF Stopping, Same
  <2>. QED
    BY <1>a, <2>1 DEF KeepOf
<1>7. ASSUME NEW c \in Commands, GivenUp(c)
      PROVE  KeepOf(d)'
  <2>1. cmd[c].pid \in Pids /\ own[cmd[c].pid] = Nothing /\ cmd[c].pc = "wait"
    BY <1>7, Waiting DEF GivenUp, At
  <2>2. CASE d = cmd[c].pid
    <3>1. own'[d] = own[c] /\ proc'[d] = proc[d] /\ proc[d].kind = cmd[c].kind
      BY <1>0, <1>7, <2>1, <2>2 DEF GivenUp, HandOver, KindInv, KindOf, At
    <3>2. own[c].guard = Role(cmd[c].kind) /\ own[c].busy = Family(cmd[c].kind)
      BY <2>1 DEF HoldInv, HoldOf
    <3>3. cmd[c].kind # "listen" /\ cmd[c].kind # "private"
      BY <1>7 DEF GivenUp, Helpers
    <3>. QED
      BY <3>1, <3>2, <3>3 DEF KeepOf
  <2>3. CASE d # cmd[c].pid
    <3>1. own'[d] = own[d] /\ UNCHANGED <<dropping, proc, child, private>>
      BY <1>0, <1>7, <2>1, <2>3 DEF GivenUp, HandOver
    <3>. QED
      BY <1>a, <3>1 DEF KeepOf
  <2>. QED
    BY <2>2, <2>3
<1>8. ASSUME NEW c \in Commands, NEW kind \in Kinds, Called(c, kind)
      PROVE  KeepOf(d)'
  <2>1. /\ own'[d] = own[d] /\ (d \in dropping => d \in dropping')
        /\ child' = child /\ private' = private /\ proc'[d] = proc[d]
    BY <1>0, <1>8 DEF Called, Same
  <2>. QED
    BY <1>a, <2>1 DEF KeepOf
<1>9. ASSUME NEW c \in Commands, NEW guard \in {"work", "exclusive", "maintenance"}, Granted(c, guard)
      PROVE  KeepOf(d)'
  <2>1. /\ own'[d] = own[d] /\ (d \in dropping => d \in dropping')
        /\ child' = child /\ private' = private /\ proc'[d] = proc[d]
    BY <1>0, <1>9 DEF Granted, Guarded
  <2>. QED
    BY <1>a, <2>1 DEF KeepOf
<1>10. ASSUME NEW c \in Commands, NEW p \in Pids, Spawned(c, p)
      PROVE  KeepOf(d)'
  <2>1. own'[d] = own[d] /\ UNCHANGED <<dropping, child, private>>
    BY <1>10 DEF Spawned, Same
  <2>2. own[d] # Nothing => proc'[d] = proc[d]
    BY <1>0, <1>10 DEF Spawned, Spawn, Unused, Awaited
  <2>. QED
    BY <1>a, <2>1, <2>2 DEF KeepOf
<1>11. ASSUME NEW c \in Commands, NEW p \in Pids, Started(c, p)
      PROVE  KeepOf(d)'
  <2>1. cmd[c].pc = "act" /\ dropping' = dropping
    BY <1>11 DEF Started, HandOver, At
  <2>2. CASE d = p
    <3>1. own'[d] = own[c] /\ proc'[d].kind = cmd[c].kind
      BY <1>0, <1>11, <2>2 DEF Started, HandOver
    <3>2. own[c].guard = Role(cmd[c].kind) /\ own[c].busy = None
      BY <2>1 DEF HoldInv, HoldOf
    <3>3. \/ cmd[c].kind = "listen" /\ child' = d
          \/ cmd[c].kind = "private" /\ private' = d
      BY <1>11, <2>2 DEF Started
    <3>4. Family(cmd[c].kind) = None
      BY <3>3, FamilyIs DEF Families
    <3>. QED
      BY <3>1, <3>2, <3>3, <3>4 DEF KeepOf
  <2>3. CASE d # p
    <3>1. own'[d] = own[d] /\ proc'[d] = proc[d]
      BY <1>0, <1>11, <2>3 DEF Started, HandOver
    <3>2. /\ d \notin dropping /\ own[d] # Nothing => child # None \/ proc[d].kind # "listen"
          /\ d \notin dropping /\ own[d] # Nothing => private # None \/ proc[d].kind # "private"
      BY <1>0, <1>a DEF KeepOf
    <3>3. (child' = child \/ child = None) /\ (private' = private \/ private = None)
      BY <1>11 DEF Started
    <3>. QED
      BY <1>a, <2>1, <3>1, <3>2, <3>3 DEF KeepOf
  <2>. QED
    BY <2>2, <2>3
<1>12. ASSUME NEW o \in Owners, Settled(o)
      PROVE  KeepOf(d)'
  <2>1. /\ d # o => own'[d] = own[d]
        /\ (d = o /\ d \notin dropping' => own'[d] = Nothing)
        /\ d # o => (d \in dropping' <=> d \in dropping)
    BY <1>0, <1>12 DEF Settled, Settle
  <2>2. (child' = child \/ child = o) /\ (private' = private \/ private = o) /\ proc' = proc
    BY <1>12 DEF Settled, Settle
  <2>. QED
    BY <1>a, <2>1, <2>2 DEF KeepOf
<1>13. ASSUME NEW p \in Pids, Terminated(p)
      PROVE  KeepOf(d)'
  <2>1. own'[d] = own[d] /\ UNCHANGED <<child, private>>
    BY <1>13 DEF Terminated, Same
  <2>2. d \in dropping' \/ (d \notin dropping /\ proc'[d] = proc[d]) \/ d \in dropping
    BY <1>13 DEF Terminated
  <2>3. d \in dropping => d \in dropping'
    BY <1>13 DEF Terminated
  <2>. QED
    BY <1>a, <2>1, <2>2, <2>3 DEF KeepOf
<1>. QED
  BY TurnStep, <1>1, <1>2, <1>3, <1>4, <1>5, <1>6, <1>7, <1>8, <1>9,
     <1>10, <1>11, <1>12, <1>13 DEF Turn

LEMMA FlagsStep ==
  ASSUME TypeOK, PlaceInv, WaitInv, BusyInv, [Next]_vars
  PROVE  BusyInv'
<1>. SUFFICES ASSUME NEW d \in Owners PROVE BusyOf(d)'
  BY DEF BusyInv
<1>0. /\ DOMAIN own = Owners /\ DOMAIN cmd = Commands /\ DOMAIN proc = Pids
      /\ \A e \in Commands : cmd[e] \in
             [kind : Kinds \union {None}, pc : Location, pid : Pids \union {None},
              answer : {None, "stopped", "unconfirmed"}]
      /\ \A x \in Owners : own[x] \in
             [guard : Guard, lease : BOOLEAN, busy : Families \union {None}]
      /\ \A q \in Pids : DOMAIN proc[q] = {"kind", "open", "state"}
      /\ Commands \subseteq Owners /\ Pids \subseteq Owners
      /\ Commands \intersect Pids = {} /\ None \notin Owners
  BY DesktopAssumption DEF TypeOK, Owners
<1>a. BusyOf(d) /\ \A o \in Owners : BusyOf(o)
  BY DEF BusyInv
<1>1. CASE Still
  <2>1. busy' = busy /\ \A q \in Owners : own'[q].busy = own[q].busy
    BY <1>0, <1>1 DEF Still, Same
  <2>. QED
    BY <1>a, <2>1 DEF BusyOf
<1>2. CASE Emptied
  BY <1>0, <1>2 DEF Emptied, BusyOf, Nothing
<1>3. ASSUME NEW c \in Commands, Back(c)
      PROVE  BusyOf(d)'
  <2>1. busy' = busy /\ \A q \in Owners : own'[q].busy = own[q].busy
    BY <1>0, <1>3 DEF Back, Same
  <2>. QED
    BY <1>a, <2>1 DEF BusyOf
<1>4. ASSUME NEW c \in Commands, Leased(c)
      PROVE  BusyOf(d)'
  <2>1. busy' = busy /\ \A q \in Owners : own'[q].busy = own[q].busy
    BY <1>0, <1>4 DEF Leased
  <2>. QED
    BY <1>a, <2>1 DEF BusyOf
<1>5. ASSUME NEW c \in Commands, Flagged(c)
      PROVE  BusyOf(d)'
  <2>1. own[c].busy = None /\ Family(cmd[c].kind) # None /\ Family(cmd[c].kind) \notin busy
    BY <1>a, <1>5 DEF Flagged, PlaceInv, PlaceOf, At
  <2>2. /\ own'[c].busy = Family(cmd[c].kind)
        /\ \A q \in Owners : q # c => own'[q] = own[q]
        /\ busy' = busy \union {Family(cmd[c].kind)}
    BY <1>0, <1>5 DEF Flagged
  <2>3. \A q \in Owners : own[q].busy # Family(cmd[c].kind)
    BY <2>1 DEF BusyInv, BusyOf
  <2>. QED
    BY <1>0, <1>a, <2>1, <2>2, <2>3 DEF BusyOf
<1>6. ASSUME NEW c \in Commands, Stopping(c)
      PROVE  BusyOf(d)'
  <2>1. busy' = busy /\ \A q \in Owners : own'[q].busy = own[q].busy
    BY <1>0, <1>6 DEF Stopping, Same
  <2>. QED
    BY <1>a, <2>1 DEF BusyOf
<1>7. ASSUME NEW c \in Commands, GivenUp(c)
      PROVE  BusyOf(d)'
  <2>1. cmd[c].pid \in Pids /\ own[cmd[c].pid] = Nothing
    BY <1>0, <1>7, Waiting DEF GivenUp, At
  <2>2. /\ own'[cmd[c].pid].busy = own[c].busy /\ own'[c].busy = None /\ busy' = busy
        /\ \A q \in Owners : q # c /\ q # cmd[c].pid => own'[q] = own[q]
    BY <1>0, <1>7, <2>1 DEF GivenUp, HandOver, Nothing
  <2>. QED
    BY <1>0, <1>a, <2>1, <2>2 DEF BusyInv, BusyOf, Nothing
<1>8. ASSUME NEW c \in Commands, NEW kind \in Kinds, Called(c, kind)
      PROVE  BusyOf(d)'
  <2>1. busy' = busy /\ \A q \in Owners : own'[q].busy = own[q].busy
    BY <1>0, <1>8 DEF Called, Same
  <2>. QED
    BY <1>a, <2>1 DEF BusyOf
<1>9. ASSUME NEW c \in Commands, NEW guard \in {"work", "exclusive", "maintenance"}, Granted(c, guard)
      PROVE  BusyOf(d)'
  <2>1. busy' = busy /\ \A q \in Owners : own'[q].busy = own[q].busy
    BY <1>0, <1>9 DEF Granted, Guarded
  <2>. QED
    BY <1>a, <2>1 DEF BusyOf
<1>10. ASSUME NEW c \in Commands, NEW p \in Pids, Spawned(c, p)
      PROVE  BusyOf(d)'
  <2>1. busy' = busy /\ \A q \in Owners : own'[q].busy = own[q].busy
    BY <1>0, <1>10 DEF Spawned, Same
  <2>. QED
    BY <1>a, <2>1 DEF BusyOf
<1>11. ASSUME NEW c \in Commands, NEW p \in Pids, Started(c, p)
      PROVE  BusyOf(d)'
  <2>1. p \in Pids /\ own[p] = Nothing
    BY <1>0, <1>11 DEF Started, Unused, Awaited
  <2>2. /\ own'[p].busy = own[c].busy /\ own'[c].busy = None /\ busy' = busy
        /\ \A q \in Owners : q # c /\ q # p => own'[q] = own[q]
    BY <1>0, <1>11, <2>1 DEF Started, HandOver, Nothing
  <2>. QED
    BY <1>0, <1>a, <2>1, <2>2 DEF BusyInv, BusyOf, Nothing
<1>12. ASSUME NEW o \in Owners, Settled(o)
      PROVE  BusyOf(d)'
  <2>1. \A q \in Owners : q # o => own'[q] = own[q]
    BY <1>0, <1>12 DEF Settled, Settle
  <2>2. \/ own[o].busy # None /\ busy' = busy \ {own[o].busy} /\ own'[o].busy = None
        \/ own[o].busy = None /\ busy' = busy /\ own'[o].busy = None
    BY <1>0, <1>12 DEF Settled, Settle, Nothing
  <2>. QED
    BY <1>a, <2>1, <2>2 DEF BusyInv, BusyOf
<1>13. ASSUME NEW p \in Pids, Terminated(p)
      PROVE  BusyOf(d)'
  <2>1. busy' = busy /\ \A q \in Owners : own'[q].busy = own[q].busy
    BY <1>0, <1>13 DEF Terminated, Same
  <2>. QED
    BY <1>a, <2>1 DEF BusyOf
<1>. QED
  BY TurnStep, <1>1, <1>2, <1>3, <1>4, <1>5, <1>6, <1>7, <1>8, <1>9,
     <1>10, <1>11, <1>12, <1>13 DEF Turn

-----------------------------------------------------------------------------
(* What follows for the processes.                                           *)

FittingInv == HoldInv /\ KindInv /\ KeepInv /\ BusyInv

LEMMA FittingInit ==
  ASSUME Init
  PROVE  FittingInv
<1>1. /\ \A o \in Owners : own[o] = Nothing
      /\ \A c \in Commands : cmd[c] = Idle
      /\ Pids \subseteq Owners
  BY DEF Init, Owners
<1>2. \A c \in Commands : cmd[c].pc = "idle"
  BY <1>1 DEF Idle
<1>3. HoldInv /\ KindInv
  BY <1>2 DEF HoldInv, HoldOf, KindInv, KindOf, At
<1>4. KeepInv
  BY <1>1 DEF KeepInv, KeepOf
<1>5. BusyInv
  <2>1. \A o \in Owners : own[o].busy = None
    BY <1>1 DEF Nothing
  <2>. QED
    BY <2>1 DEF BusyInv, BusyOf
<1>. QED
  BY <1>3, <1>4, <1>5 DEF FittingInv

LEMMA Fitting == Spec => []FittingInv
<1>1. Init => FittingInv
  BY FittingInit
<1>2. IInv /\ FittingInv /\ [Next]_vars => FittingInv'
  BY HoldStep, KindStep, KeepStep, FlagsStep DEF FittingInv, IInv
<1>. QED
  BY <1>1, <1>2, Invariance, PTL DEF Spec

\* Whoever keeps a supervised process has the guard and the flag it needs.
KeptBy(o, p) ==
    /\ o = p \/ (o \in Commands /\ At(o, "wait") /\ cmd[o].pid = p)
    /\ own[o].guard = Role(proc[p].kind)
    /\ own[o].busy = Family(proc[p].kind)

LEMMA KeeperFits ==
  ASSUME IInv, FittingInv, NEW p \in Pids, Running(p), Supervised(proc[p].kind)
  PROVE  \E o \in Owners : KeptBy(o, p)
<1>1. Commands \subseteq Owners /\ p \in Owners
  BY DEF Owners
<1>2. CASE own[p].guard # "none" /\ p \notin dropping
  <2>1. own[p] # Nothing
    BY <1>2 DEF Nothing
  <2>2. KeptBy(p, p)
    BY <1>2, <2>1 DEF FittingInv, KeepInv, KeepOf, KeptBy
  <2>. QED
    BY <1>1, <2>2
<1>3. CASE WaitedFor(p)
  <2>1. PICK c \in Commands : At(c, "wait") /\ cmd[c].pid = p /\ cmd[c].kind = proc[p].kind
    BY <1>3 DEF WaitedFor
  <2>2. KeptBy(c, p)
    BY <2>1 DEF FittingInv, HoldInv, HoldOf, KeptBy, At
  <2>. QED
    BY <1>1, <2>1, <2>2
<1>. QED
  BY <1>2, <1>3 DEF IInv, OrphanInv, OrphanOf

\* Two processes are never kept by one owner.
LEMMA KeepersDiffer ==
  ASSUME NEW p \in Pids, NEW q \in Pids, p # q, NEW o \in Owners, KeptBy(o, p), KeptBy(o, q)
  PROVE  FALSE
  BY DesktopAssumption DEF KeptBy

\* A listener or a private benchmark that runs is in its slot.
LEMMA InItsSlot ==
  ASSUME IInv, FittingInv, NEW p \in Pids, Running(p),
         proc[p].kind \in {"listen", "private"}
  PROVE  IF proc[p].kind = "listen" THEN child = p ELSE private = p
<1>1. Supervised(proc[p].kind)
  BY DEF Supervised
<1>2. ~WaitedFor(p)
  <2>1. \A c \in Commands : At(c, "wait") => cmd[c].kind \in Helpers \union Waited
    BY DEF FittingInv, HoldInv, HoldOf, At
  <2>2. proc[p].kind \notin Helpers \union Waited
    BY DEF Helpers, Waited
  <2>. QED
    BY <2>1, <2>2 DEF WaitedFor
<1>3. own[p] # Nothing /\ p \notin dropping
  BY <1>1, <1>2 DEF IInv, OrphanInv, OrphanOf, Nothing
<1>. QED
  BY <1>3 DEF FittingInv, KeepInv, KeepOf

\* A running listener and a running private benchmark are the ones of their
\* slots (lib.rs:524-605, private_benchmark.rs:145-184), over hand-overs,
\* stops, exits of processes in any order and exits of the Desktop: what the
\* user stops is what runs.
THEOREM SlotsSafe == Spec => []SlotsTell
<1>1. IInv /\ FittingInv => SlotsTell
  BY InItsSlot DEF SlotsTell
<1>. QED
  BY <1>1, Invariance, Fitting, PTL

\* Between supervised processes the guards keep apart what must not meet: no
\* other runs beside a private benchmark or a trim, no second listener, and one
\* of each helper family (background.rs:27-48, lib.rs:1932-1955), also while
\* one that timed out is being killed.
THEOREM ApartSafe == Spec => []KeptApart
<1>1. ASSUME IInv, FittingInv, NEW p \in Pids, NEW q \in Pids, p # q,
             Running(p), Supervised(proc[p].kind), Running(q), Supervised(proc[q].kind)
      PROVE  /\ proc[p].kind \notin {"private", "trim"}
             /\ proc[p].kind = "listen" => proc[q].kind # "listen"
             /\ Family(proc[p].kind) # None => Family(proc[q].kind) # Family(proc[p].kind)
  <2>1. PICK o \in Owners : KeptBy(o, p)
    BY <1>1, KeeperFits
  <2>2. PICK r \in Owners : KeptBy(r, q)
    BY <1>1, KeeperFits
  <2>3. o # r
    BY <1>1, <2>1, <2>2, KeepersDiffer
  <2>4. own[r].guard # "none"
    BY <1>1, <2>2, RoleIs DEF KeptBy
  <2>5. proc[p].kind \notin {"private", "trim"}
    <3>1. own[o].guard \notin {"exclusive", "maintenance"}
      BY <1>1, <2>3, <2>4 DEF IInv, Alone
    <3>2. Role("private") = "exclusive" /\ Role("trim") = "maintenance"
      BY RoleIs DEF Maintains
    <3>. QED
      BY <2>1, <3>1, <3>2 DEF KeptBy
  <2>6. proc[p].kind = "listen" => proc[q].kind # "listen"
    BY <1>1, InItsSlot
  <2>7. Family(proc[p].kind) # None => Family(proc[q].kind) # Family(proc[p].kind)
    BY <1>1, <2>1, <2>2, <2>3 DEF KeptBy, FittingInv, BusyInv, BusyOf
  <2>. QED
    BY <2>5, <2>6, <2>7
<1>2. IInv /\ FittingInv => KeptApart
  BY <1>1 DEF KeptApart
<1>. QED
  BY <1>2, Invariance, Fitting, PTL

-----------------------------------------------------------------------------
(* The way of a command, and how much of it is left.                         *)

WayOf(c) ==
    /\ ~At(c, "idle") => cmd[c].kind \in Kinds
    /\ At(c, "act") => cmd[c].kind \notin Helpers \union Waited
    /\ cmd[c].pc \in {"request", "poll", "unfence"} => cmd[c].kind = "stop"
    /\ At(c, "wait") => proc[cmd[c].pid].state # "free"
WayInv == \A c \in Commands : WayOf(c)

LEMMA WayKept ==
  ASSUME NEW d \in Commands, WayOf(d), cmd'[d] = cmd[d],
         At(d, "wait") => proc'[cmd[d].pid].state # "free"
  PROVE  WayOf(d)'
  BY DEF WayOf, At

LEMMA WayStep ==
  ASSUME TypeOK, PlaceInv, WaitInv, OnlyWait, WayInv, [Next]_vars
  PROVE  WayInv'
<1>. SUFFICES ASSUME NEW d \in Commands PROVE WayOf(d)'
  BY DEF WayInv
<1>0. /\ DOMAIN own = Owners /\ DOMAIN cmd = Commands /\ DOMAIN proc = Pids
      /\ \A e \in Commands : cmd[e] \in
             [kind : Kinds \union {None}, pc : Location, pid : Pids \union {None},
              answer : {None, "stopped", "unconfirmed"}]
      /\ \A x \in Owners : own[x] \in
             [guard : Guard, lease : BOOLEAN, busy : Families \union {None}]
      /\ \A q \in Pids : DOMAIN proc[q] = {"kind", "open", "state"}
      /\ Commands \subseteq Owners /\ Pids \subseteq Owners
      /\ Commands \intersect Pids = {} /\ None \notin Owners
  BY DesktopAssumption DEF TypeOK, Owners
<1>a. WayOf(d) /\ OnlyOf(d)
  BY DEF WayInv, OnlyWait
<1>1. CASE Still
  <2>1. At(d, "wait") => Awaited(cmd[d].pid) /\ cmd[d].pid \in Pids
    BY Waiting DEF Awaited, At
  <2>. QED
    BY <1>a, <1>1, <2>1, WayKept DEF Still, WayOf
<1>2. CASE Emptied
  <2>1. cmd'[d].pc = "idle"
    BY <1>2 DEF Emptied, Idle
  <2>. QED
    BY <2>1 DEF WayOf, At
<1>3. ASSUME NEW c \in Commands, Back(c)
      PROVE  WayOf(d)'
  <2>1. CASE d = c
    <3>1. cmd'[d].pc \in {"idle", "drop"} /\ (cmd'[d].pc = "drop" => cmd'[d].kind = cmd[d].kind)
      BY <1>0, <1>3, <2>1 DEF Back, Return, Goto, Idle
    <3>2. cmd[d].pc # "idle"
      BY <1>3, <2>1 DEF Back
    <3>. QED
      BY <1>a, <3>1, <3>2 DEF WayOf, At
  <2>2. CASE d # c
    <3>1. cmd'[d] = cmd[d]
      BY <1>0, <1>3, <2>2 DEF Back, Return, Goto
    <3>2. cmd[d].pc = "wait" => cmd[d].pid \in Pids /\ (At(c, "wait") => cmd[d].pid # cmd[c].pid)
      BY <1>a, <2>2, Waiting DEF OnlyOf, At
    <3>3. cmd[d].pc = "wait" => proc'[cmd[d].pid] = proc[cmd[d].pid]
      BY <1>0, <1>3, <3>2 DEF Back
    <3>. QED
      BY <1>a, <3>1, <3>3, WayKept DEF WayOf, At
  <2>. QED
    BY <2>1, <2>2
<1>4. ASSUME NEW c \in Commands, Leased(c)
      PROVE  WayOf(d)'
  <2>1. CASE d = c
    <3>1. cmd[d].pc = "lease" /\ cmd'[d].pc = "admit" /\ cmd'[d].kind = cmd[d].kind
      BY <1>0, <1>4, <2>1 DEF Leased, Goto, At
    <3>. QED
      BY <1>a, <3>1 DEF WayOf, At
  <2>2. CASE d # c
    <3>1. cmd'[d] = cmd[d] /\ proc' = proc
      BY <1>0, <1>4, <2>2 DEF Leased, Goto, At
    <3>. QED
      BY <1>a, <3>1, WayKept DEF WayOf, At
  <2>. QED
    BY <2>1, <2>2
<1>5. ASSUME NEW c \in Commands, Flagged(c)
      PROVE  WayOf(d)'
  <2>1. CASE d = c
    <3>1. cmd[d].pc = "busy" /\ cmd'[d].pc = "spawn" /\ cmd'[d].kind = cmd[d].kind
      BY <1>0, <1>5, <2>1 DEF Flagged, Goto, At
    <3>. QED
      BY <1>a, <3>1 DEF WayOf, At
  <2>2. CASE d # c
    <3>1. cmd'[d] = cmd[d] /\ proc' = proc
      BY <1>0, <1>5, <2>2 DEF Flagged, Goto, At
    <3>. QED
      BY <1>a, <3>1, WayKept DEF WayOf, At
  <2>. QED
    BY <2>1, <2>2
<1>6. ASSUME NEW c \in Commands, Stopping(c)
      PROVE  WayOf(d)'
  <2>1. CASE d = c
    <3>1. /\ cmd[d].pc \in {"act", "request", "poll"}
          /\ cmd[d].pc = "act" => cmd[d].kind = "stop"
          /\ cmd'[d].pc \in {"request", "poll", "unfence"}
          /\ cmd'[d].kind = cmd[d].kind
      BY <1>0, <1>6, <2>1 DEF Stopping, Same, At
    <3>. QED
      BY <1>a, <3>1 DEF WayOf, At
  <2>2. CASE d # c
    <3>1. cmd'[d] = cmd[d] /\ proc' = proc
      BY <1>0, <1>6, <2>2 DEF Stopping, Same, At
    <3>. QED
      BY <1>a, <3>1, WayKept DEF WayOf, At
  <2>. QED
    BY <2>1, <2>2
<1>7. ASSUME NEW c \in Commands, GivenUp(c)
      PROVE  WayOf(d)'
  <2>1. CASE d = c
    <3>1. cmd'[d].pc = "idle"
      BY <1>0, <1>7, <2>1 DEF GivenUp, HandOver, Idle
    <3>. QED
      BY <1>a, <3>1 DEF WayOf, At
  <2>2. CASE d # c
    <3>1. cmd'[d] = cmd[d] /\ proc' = proc
      BY <1>0, <1>7, <2>2 DEF GivenUp, HandOver, Idle
    <3>. QED
      BY <1>a, <3>1, WayKept DEF WayOf, At
  <2>. QED
    BY <2>1, <2>2
<1>8. ASSUME NEW c \in Commands, NEW kind \in Kinds, Called(c, kind)
      PROVE  WayOf(d)'
  <2>1. CASE d = c
    <3>1. cmd'[d].pc \in {"spawn", "maintain", "lease"} /\ cmd'[d].kind \in Kinds
      BY <1>0, <1>8, <2>1 DEF Called
    <3>. QED
      BY <1>a, <3>1 DEF WayOf, At
  <2>2. CASE d # c
    <3>1. cmd'[d] = cmd[d] /\ proc' = proc
      BY <1>0, <1>8, <2>2 DEF Called
    <3>. QED
      BY <1>a, <3>1, WayKept DEF WayOf, At
  <2>. QED
    BY <2>1, <2>2
<1>9. ASSUME NEW c \in Commands, NEW guard \in {"work", "exclusive", "maintenance"}, Granted(c, guard)
      PROVE  WayOf(d)'
  <2>1. CASE d = c
    <3>1. /\ cmd[d].pc \in {"admit", "maintain"}
          /\ cmd'[d].pc \in {"busy", "spawn", "act"}
          /\ cmd'[d].kind = cmd[d].kind
          /\ cmd'[d].pc = "act" => cmd[d].kind \notin Helpers \union Waited
      BY <1>0, <1>9, <2>1 DEF Granted, Guarded, Goto, At
    <3>. QED
      BY <1>a, <3>1 DEF WayOf, At
  <2>2. CASE d # c
    <3>1. cmd'[d] = cmd[d] /\ proc' = proc
      BY <1>0, <1>9, <2>2 DEF Granted, Guarded, Goto, At
    <3>. QED
      BY <1>a, <3>1, WayKept DEF WayOf, At
  <2>. QED
    BY <2>1, <2>2
<1>10. ASSUME NEW c \in Commands, NEW p \in Pids, Spawned(c, p)
      PROVE  WayOf(d)'
  <2>1. CASE d = c
    <3>1. /\ cmd'[d].pc = "wait" /\ cmd'[d].pid = p /\ cmd'[d].kind = cmd[d].kind
          /\ cmd[d].pc = "spawn" /\ proc'[p].state = "running"
      BY <1>0, <1>10, <2>1 DEF Spawned, Spawn, Free, At
    <3>. QED
      BY <1>a, <3>1 DEF WayOf, At
  <2>2. CASE d # c
    <3>1. cmd'[d] = cmd[d]
      BY <1>0, <1>10, <2>2 DEF Spawned, Spawn
    <3>2. cmd[d].pc = "wait" => cmd[d].pid # p
      BY <1>10 DEF Spawned, Spawn, Unused, Awaited, At
    <3>3. cmd[d].pc = "wait" => proc'[cmd[d].pid] = proc[cmd[d].pid]
      BY <1>0, <1>10, <3>2, Waiting DEF Spawned, Spawn
    <3>. QED
      BY <1>a, <3>1, <3>3, WayKept DEF WayOf, At
  <2>. QED
    BY <2>1, <2>2
<1>11. ASSUME NEW c \in Commands, NEW p \in Pids, Started(c, p)
      PROVE  WayOf(d)'
  <2>1. CASE d = c
    <3>1. cmd'[d].pc = "idle"
      BY <1>0, <1>11, <2>1 DEF Started, HandOver, Idle
    <3>. QED
      BY <3>1 DEF WayOf, At
  <2>2. CASE d # c
    <3>1. cmd'[d] = cmd[d]
      BY <1>0, <1>11, <2>2 DEF Started, HandOver
    <3>2. cmd[d].pc = "wait" => cmd[d].pid # p /\ cmd[d].pid \in Pids
      BY <1>11, Waiting DEF Started, Unused, Awaited, At
    <3>3. cmd[d].pc = "wait" => proc'[cmd[d].pid] = proc[cmd[d].pid]
      BY <1>11, <3>2 DEF Started
    <3>. QED
      BY <1>a, <3>1, <3>3, WayKept DEF WayOf, At
  <2>. QED
    BY <2>1, <2>2
<1>12. ASSUME NEW o \in Owners, Settled(o)
      PROVE  WayOf(d)'
  <2>1. cmd'[d].pc = "idle" \/ cmd'[d] = cmd[d]
    BY <1>0, <1>12 DEF Settled, Settle, Idle
  <2>2. proc' = proc
    BY <1>12 DEF Settled
  <2>3. cmd'[d].pc = "idle" => WayOf(d)'
    BY DEF WayOf, At
  <2>. QED
    BY <1>a, <2>1, <2>2, <2>3, WayKept DEF WayOf, At
<1>13. ASSUME NEW p \in Pids, Terminated(p)
      PROVE  WayOf(d)'
  <2>1. cmd'[d] = cmd[d]
    BY <1>13 DEF Terminated
  <2>2. cmd[d].pc = "wait" => cmd[d].pid # p /\ cmd[d].pid \in Pids
    BY <1>13, Waiting DEF Terminated
  <2>3. cmd[d].pc = "wait" => proc'[cmd[d].pid] = proc[cmd[d].pid]
    BY <1>13, <2>2 DEF Terminated
  <2>. QED
    BY <1>a, <2>1, <2>3, WayKept DEF WayOf, At
<1>. QED
  BY TurnStep, <1>1, <1>2, <1>3, <1>4, <1>5, <1>6, <1>7, <1>8, <1>9,
     <1>10, <1>11, <1>12, <1>13 DEF Turn

LEMMA OnWay == Spec => []WayInv
<1>1. Init => WayInv
  <2>1. Init => \A c \in Commands : cmd[c].pc = "idle"
    BY DEF Init, Idle
  <2>. QED
    BY <2>1 DEF WayInv, WayOf, At
<1>2. IInv /\ WayInv /\ [Next]_vars => WayInv'
  BY WayStep DEF IInv
<1>. QED
  BY <1>1, <1>2, Invariance, PTL DEF Spec

\* Mutexes, BUSY flags, leases and processes never make a circle of commands: a
\* command that cannot go on by itself waits for a drop that is under way or for
\* an output that goes on (background.rs:25-135, lib.rs:524-713, 1932-1960).
THEOREM StallSafe == Spec => []NobodyStalls
<1>1. ASSUME IInv, FittingInv, WayInv, NEW c \in Commands, ~At(c, "idle")
      PROVE  \/ Ready(c)
             \/ /\ cmd[c].pc \in {"act", "request"}
                /\ SlotOf(c) \in Pids \intersect dropping
                /\ own[SlotOf(c)] # Nothing
             \/ At(c, "wait") /\ cmd[c].kind \in Waited /\ Running(cmd[c].pid)
  <2>0. /\ cmd[c].pc \in Location /\ dropping \subseteq Owners /\ None \notin Owners
        /\ child \in Pids \union {None} /\ private \in Pids \union {None} /\ c \in Owners
    BY <1>1, DesktopAssumption DEF IInv, TypeOK, Owners
  <2>1. WayOf(c) /\ PlaceOf(c) /\ HoldOf(c) /\ \A o \in Owners : DropOf(o)
    BY <1>1 DEF WayInv, IInv, PlaceInv, FittingInv, HoldInv, DropInv
  <2>2. CASE cmd[c].pc \in {"lease", "admit", "maintain", "busy", "spawn", "poll", "unfence"}
    BY <2>2 DEF Ready
  <2>3. CASE cmd[c].pc \in {"act", "request"}
    <3>1. SlotOf(c) \in dropping => SlotOf(c) \in Pids /\ own[SlotOf(c)] # Nothing
      BY <2>0, <2>1 DEF SlotOf, DropOf
    <3>2. cmd[c].pc = "request" => SlotOf(c) = child
      BY <2>1 DEF WayOf, SlotOf
    <3>3. SlotOf(c) \notin dropping => Ready(c)
      BY <2>3, <3>2 DEF Ready, SlotOpen, At
    <3>. QED
      BY <2>3, <3>1, <3>3
  <2>4. CASE cmd[c].pc = "wait"
    <3>1. cmd[c].kind \in Helpers \union Waited /\ proc[cmd[c].pid].state # "free"
      BY <2>1, <2>4 DEF WayOf, HoldOf, At
    <3>2. proc[cmd[c].pid].state \in {"free", "running", "exited"}
      <4>1. cmd[c].pid \in Pids
        BY <1>1, <2>4, Waiting DEF IInv
      <4>. QED
        BY <1>1, <4>1 DEF IInv, TypeOK
    <3>. QED
      BY <2>4, <3>1, <3>2 DEF Ready, Running, At
  <2>5. CASE cmd[c].pc = "drop"
    BY <2>0, <2>1, <2>5 DEF Ready, PlaceOf, DropOf, At
  <2>. QED
    BY <1>1, <2>0, <2>2, <2>3, <2>4, <2>5 DEF Location, At
<1>2. IInv /\ FittingInv /\ WayInv => NobodyStalls
  BY <1>1 DEF NobodyStalls
<1>. QED
  BY <1>2, Invariance, Fitting, OnWay, PTL

-----------------------------------------------------------------------------
(* Every step of a command brings it nearer its return.                      *)

Shrinks(c) == StepsLeft(c) > 0 =>
                  StepsLeft(c)' < StepsLeft(c) \/ UNCHANGED <<cmd[c], own[c]>>

LEMMA FewDrops ==
  ASSUME NEW o
  PROVE  DropsLeft(o) \in 0..3 /\ DropsLeft(o)' \in 0..3
  BY DEF DropsLeft

LEMMA MovedOn ==
  ASSUME NEW d \in Commands, cmd[d].pc # "drop", cmd'[d].pc # "drop",
         StepsAt[cmd'[d].pc] < StepsAt[cmd[d].pc]
  PROVE  Shrinks(d)
  BY DEF Shrinks, StepsLeft, At

\* It has returned.
LEMMA CameBack ==
  ASSUME NEW d \in Commands, cmd[d].pc \in Location, cmd'[d].pc = "idle"
  PROVE  Shrinks(d)
<1>1. StepsLeft(d) \in Nat
  BY FewDrops DEF StepsLeft, StepsAt, Location, At
<1>2. StepsLeft(d)' = 0
  BY DEF StepsLeft, StepsAt, At
<1>. QED
  BY <1>1, <1>2 DEF Shrinks

LEMMA Stayed ==
  ASSUME NEW d \in Commands, cmd'[d] = cmd[d], own'[d] = own[d]
  PROVE  Shrinks(d)
  BY DEF Shrinks

LEMMA ShrinkStep ==
  ASSUME TypeOK, PlaceInv, WaitInv, NEW d \in Commands, [Next]_vars
  PROVE  Shrinks(d)
<1>0. /\ DOMAIN own = Owners /\ DOMAIN cmd = Commands /\ DOMAIN proc = Pids
      /\ \A e \in Commands : cmd[e] \in
             [kind : Kinds \union {None}, pc : Location, pid : Pids \union {None},
              answer : {None, "stopped", "unconfirmed"}]
      /\ \A x \in Owners : own[x] \in
             [guard : Guard, lease : BOOLEAN, busy : Families \union {None}]
      /\ \A q \in Pids : DOMAIN proc[q] = {"kind", "open", "state"}
      /\ Commands \subseteq Owners /\ Pids \subseteq Owners
      /\ Commands \intersect Pids = {} /\ None \notin Owners
  BY DesktopAssumption DEF TypeOK, Owners
<1>a. PlaceOf(d) /\ cmd[d].pc \in Location
  BY DEF PlaceInv, TypeOK
<1>1. CASE Still
  BY <1>1, Stayed DEF Still, Same
<1>2. CASE Emptied
  <2>1. cmd'[d].pc = "idle"
    BY <1>2 DEF Emptied, Idle
  <2>. QED
    BY <1>a, <2>1, CameBack
<1>3. ASSUME NEW c \in Commands, Back(c)
      PROVE  Shrinks(d)
  <2>1. CASE d # c
    <3>1. cmd'[d] = cmd[d] /\ own'[d] = own[d]
      BY <1>0, <1>3, <2>1 DEF Back, Same, Return, Goto
    <3>. QED
      BY <3>1, Stayed
  <2>2. CASE d = c
    <3>1. cmd[d].pc \in Location \ {"idle", "drop"} /\ cmd'[d].pc \in {"idle", "drop"}
      BY <1>0, <1>a, <1>3, <2>2 DEF Back, Return, Goto, Idle
    <3>2. StepsLeft(d) >= 4
      BY <3>1 DEF StepsLeft, StepsAt, Location, At
    <3>3. StepsLeft(d)' <= 3
      BY <3>1, FewDrops DEF StepsLeft, StepsAt, At
    <3>4. StepsLeft(d) \in Nat /\ StepsLeft(d)' \in Nat
      BY <3>1, FewDrops DEF StepsLeft, StepsAt, Location, At
    <3>. QED
      BY <3>2, <3>3, <3>4 DEF Shrinks
  <2>. QED
    BY <2>1, <2>2
<1>4. ASSUME NEW c \in Commands, Leased(c)
      PROVE  Shrinks(d)
  <2>1. CASE d # c
    <3>1. cmd'[d] = cmd[d] /\ own'[d] = own[d]
      BY <1>0, <1>4, <2>1 DEF Leased, Goto, At
    <3>. QED
      BY <3>1, Stayed
  <2>2. CASE d = c
    <3>1. cmd[d].pc = "lease" /\ cmd'[d].pc = "admit"
      BY <1>0, <1>4, <2>2 DEF Leased, Goto, At
    <3>. QED
      BY <3>1, MovedOn DEF StepsAt
  <2>. QED
    BY <2>1, <2>2
<1>5. ASSUME NEW c \in Commands, Flagged(c)
      PROVE  Shrinks(d)
  <2>1. CASE d # c
    <3>1. cmd'[d] = cmd[d] /\ own'[d] = own[d]
      BY <1>0, <1>5, <2>1 DEF Flagged, Goto, At
    <3>. QED
      BY <3>1, Stayed
  <2>2. CASE d = c
    <3>1. cmd[d].pc = "busy" /\ cmd'[d].pc = "spawn"
      BY <1>0, <1>5, <2>2 DEF Flagged, Goto, At
    <3>. QED
      BY <3>1, MovedOn DEF StepsAt
  <2>. QED
    BY <2>1, <2>2
<1>6. ASSUME NEW c \in Commands, Stopping(c)
      PROVE  Shrinks(d)
  <2>1. CASE d # c
    <3>1. cmd'[d] = cmd[d] /\ own'[d] = own[d]
      BY <1>0, <1>6, <2>1 DEF Stopping, Same
    <3>. QED
      BY <3>1, Stayed
  <2>2. CASE d = c
    <3>1. \/ cmd[d].pc = "act" /\ cmd'[d].pc = "request"
          \/ cmd[d].pc = "request" /\ cmd'[d].pc \in {"poll", "unfence"}
          \/ cmd[d].pc = "poll" /\ cmd'[d].pc = "unfence"
      BY <1>0, <1>6, <2>2 DEF Stopping, At
    <3>. QED
      BY <3>1, MovedOn DEF StepsAt
  <2>. QED
    BY <2>1, <2>2
<1>7. ASSUME NEW c \in Commands, GivenUp(c)
      PROVE  Shrinks(d)
  <2>0. cmd[c].pid \in Pids
    BY <1>7, Waiting DEF GivenUp, At
  <2>1. CASE d # c
    <3>1. cmd'[d] = cmd[d] /\ own'[d] = own[d]
      BY <1>0, <2>0, <1>7, <2>1 DEF GivenUp, HandOver
    <3>. QED
      BY <3>1, Stayed
  <2>2. CASE d = c
    <3>1. cmd'[d].pc = "idle"
      BY <1>0, <2>0, <1>7, <2>2 DEF GivenUp, HandOver, Idle
    <3>. QED
      BY <1>a, <3>1, CameBack
  <2>. QED
    BY <2>1, <2>2
<1>8. ASSUME NEW c \in Commands, NEW kind \in Kinds, Called(c, kind)
      PROVE  Shrinks(d)
  <2>1. CASE d # c
    <3>1. cmd'[d] = cmd[d] /\ own'[d] = own[d]
      BY <1>0, <1>8, <2>1 DEF Called, Same
    <3>. QED
      BY <3>1, Stayed
  <2>2. CASE d = c
    <3>1. StepsLeft(d) = 0
      BY <1>8, <2>2 DEF Called, StepsLeft, StepsAt, At
    <3>. QED
      BY <3>1 DEF Shrinks
  <2>. QED
    BY <2>1, <2>2
<1>9. ASSUME NEW c \in Commands, NEW guard \in {"work", "exclusive", "maintenance"}, Granted(c, guard)
      PROVE  Shrinks(d)
  <2>1. CASE d # c
    <3>1. cmd'[d] = cmd[d] /\ own'[d] = own[d]
      BY <1>0, <1>9, <2>1 DEF Granted, Guarded, Goto, At
    <3>. QED
      BY <3>1, Stayed
  <2>2. CASE d = c
    <3>1. cmd[d].pc \in {"admit", "maintain"} /\ cmd'[d].pc \in {"busy", "spawn", "act"}
      BY <1>0, <1>9, <2>2 DEF Granted, Guarded, Goto, At
    <3>. QED
      BY <3>1, MovedOn DEF StepsAt
  <2>. QED
    BY <2>1, <2>2
<1>10. ASSUME NEW c \in Commands, NEW p \in Pids, Spawned(c, p)
      PROVE  Shrinks(d)
  <2>1. CASE d # c
    <3>1. cmd'[d] = cmd[d] /\ own'[d] = own[d]
      BY <1>0, <1>10, <2>1 DEF Spawned, Spawn, Same
    <3>. QED
      BY <3>1, Stayed
  <2>2. CASE d = c
    <3>1. cmd[d].pc = "spawn" /\ cmd'[d].pc = "wait"
      BY <1>0, <1>10, <2>2 DEF Spawned, Spawn, At
    <3>. QED
      BY <3>1, MovedOn DEF StepsAt
  <2>. QED
    BY <2>1, <2>2
<1>11. ASSUME NEW c \in Commands, NEW p \in Pids, Started(c, p)
      PROVE  Shrinks(d)
  <2>1. CASE d # c
    <3>1. cmd'[d] = cmd[d] /\ own'[d] = own[d]
      BY <1>0, <1>11, <2>1 DEF Started, HandOver
    <3>. QED
      BY <3>1, Stayed
  <2>2. CASE d = c
    <3>1. cmd'[d].pc = "idle"
      BY <1>0, <1>11, <2>2 DEF Started, HandOver, Idle
    <3>. QED
      BY <1>a, <3>1, CameBack
  <2>. QED
    BY <2>1, <2>2
<1>12. ASSUME NEW o \in Owners, Settled(o)
      PROVE  Shrinks(d)
  <2>1. CASE d # o
    <3>1. cmd'[d] = cmd[d] /\ own'[d] = own[d]
      BY <1>0, <1>12, <2>1 DEF Settled, Settle
    <3>. QED
      BY <3>1, Stayed
  <2>2. CASE d = o
    <3>1. cmd'[d].pc = "idle" \/ cmd'[d] = cmd[d]
      BY <1>0, <1>12, <2>2 DEF Settled, Settle, Idle
    <3>2. CASE cmd'[d].pc = "idle"
      BY <1>a, <3>2, CameBack
    <3>3. CASE cmd'[d] = cmd[d] /\ cmd'[d].pc # "idle"
      <4>1. cmd[d].pc = "drop" /\ cmd'[d].pc = "drop"
        BY <1>a, <1>12, <2>2, <3>3 DEF Settled, PlaceOf, At
      <4>2. \/ own[d].busy # None /\ own'[d] = [own[d] EXCEPT !.busy = None]
            \/ own[d].busy = None /\ own[d].guard # "none"
               /\ own'[d] = [own[d] EXCEPT !.guard = "none"]
        BY <1>0, <1>12, <2>2, <3>3 DEF Settled, Settle, Idle
      <4>3. /\ \/ own[d].busy # None /\ own'[d].busy = None /\ own'[d].guard = own[d].guard
               \/ own'[d].busy = own[d].busy /\ own[d].guard # "none" /\ own'[d].guard = "none"
            /\ own'[d].lease = own[d].lease
        BY <1>0, <4>2
      <4>4. DropsLeft(d)' < DropsLeft(d)
        BY <4>3 DEF DropsLeft
      <4>. QED
        BY <4>1, <4>4 DEF Shrinks, StepsLeft, At
    <3>. QED
      BY <3>1, <3>2, <3>3
  <2>. QED
    BY <2>1, <2>2
<1>13. ASSUME NEW p \in Pids, Terminated(p)
      PROVE  Shrinks(d)
  BY <1>13, Stayed DEF Terminated, Same
<1>. QED
  BY TurnStep, <1>1, <1>2, <1>3, <1>4, <1>5, <1>6, <1>7, <1>8, <1>9,
     <1>10, <1>11, <1>12, <1>13 DEF Turn

\* Every step of a command, and every step the end of its process or of the
\* Desktop makes for it, brings it nearer its return: it goes on from the lease to
\* the admission, the flag, the process and the drop of each of its guards, and
\* nobody sends it back (background.rs:25-135, lib.rs:524-713, 1932-1960).
THEOREM ForwardSafe == Spec => CommandsShrink
<1>1. IInv /\ [Next]_vars =>
        [\A c \in Commands : StepsLeft(c) > 0 =>
            StepsLeft(c)' < StepsLeft(c) \/ UNCHANGED <<cmd[c], own[c]>>]_vars
  BY ShrinkStep DEF IInv, Shrinks
<1>. QED
  BY <1>1, Invariance, PTL DEF Spec, CommandsShrink

-----------------------------------------------------------------------------
(* A closed window.                                                          *)

ClosedInv == window = "closed" /\ alive => life.exiting

LEMMA ClosedStep ==
  ASSUME TypeOK, ClosedInv, [Next]_vars
  PROVE  ClosedInv'
<1>0. life \in [active : Nat, maintenance : BOOLEAN, exclusive : BOOLEAN,
                exiting : BOOLEAN, keepRunning : BOOLEAN, tray : BOOLEAN]
  BY DEF TypeOK
<1>. USE <1>0 DEF ClosedInv
<1>1. ASSUME NEW c \in Commands, Admit(c)
      PROVE  ClosedInv'
  BY <1>1 DEF Admit, Guarded
<1>2. ASSUME NEW c \in Commands, AdmitExclusive(c)
      PROVE  ClosedInv'
  BY <1>2 DEF AdmitExclusive, Guarded
<1>3. ASSUME NEW c \in Commands, BeginMaintenance(c)
      PROVE  ClosedInv'
  BY <1>3 DEF BeginMaintenance, Guarded
<1>4. ASSUME NEW o \in Owners, DropGuard(o)
      PROVE  ClosedInv'
  BY <1>4 DEF DropGuard, Settle
<1>5. CASE CloseWindow
  BY <1>5 DEF CloseWindow
<1>6. ASSUME NEW enabled \in BOOLEAN, SetKeepRunning(enabled)
      PROVE  ClosedInv'
  BY <1>6 DEF SetKeepRunning
<1>7. CASE RequestExit
  <2>1. \/ life' = life /\ alive' = alive /\ (window' = "closed" => window = "closed")
        \/ ~alive'
    BY <1>7 DEF RequestExit
  <2>. QED
    BY <2>1
<1>8. CASE Relaunch
  BY <1>8 DEF Relaunch
<1>9. CASE ShowWindow
  BY <1>9 DEF ShowWindow
<1>10. CASE UNCHANGED <<alive, life>> /\ UNCHANGED <<window>>
  BY <1>10
<1>. QED
  BY AliveChange, WindowChange, <1>1, <1>2, <1>3, <1>4, <1>5, <1>6, <1>7, <1>8, <1>9, <1>10

\* A Desktop that nobody can see exits as soon as it is asked to: its window was
\* closed only after a fence that lets nothing in (background.rs:57-65,
\* 260-275), so that no guard keeps it for good.
THEOREM ClosedSafe == Spec => []ClosedIsFree
<1>1. Init => ClosedInv
  BY DEF Init, ClosedInv
<1>2. IInv /\ ClosedInv /\ [Next]_vars => ClosedInv'
  BY ClosedStep DEF IInv
<1>3. IInv /\ ClosedInv => ClosedIsFree
  BY DEF IInv, ExitInv, ExitIsFinal, ClosedInv, ClosedIsFree
<1>. QED
  BY <1>1, <1>2, <1>3, Invariance, PTL DEF Spec
=============================================================================
