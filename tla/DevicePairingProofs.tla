------------------------- MODULE DevicePairingProofs -------------------------
(* Safety of DevicePairing for any tasks and any number of invocations,      *)
(* failing stores and kills.                                                 *)
EXTENDS DevicePairing, TLAPS

-----------------------------------------------------------------------------
(* Types.                                                                    *)

Ops == {None, "connect", "redeem", "cancel", "reset", "observe"}
Locations ==
    Storing \union Watching \union
    {"idle", "begin", "issue", "store", "issued", "wait", "polling", "answered",
     "saved", "launch", "finish", "failed", "lock", "redeeming", "redeemed",
     "cancel", "canceled", "reset", "observe"}
Tokens == Serials \union {None}
Profiles == Serials \union {None, Torn}
Sessions == [gen : Nat \ {0}, inFlight : BOOLEAN, expired : BOOLEAN]

UiTyped == ui \in [generation : Nat, active : BOOLEAN, completing : BOOLEAN,
                   shown : BOOLEAN, redeem : BOOLEAN]
DeviceTyped ==
    /\ device \in [generation : Nat, pending : Sessions \union {None}]
    /\ device.pending # None =>
           device.pending \in Sessions /\ device.pending.gen = device.generation
TaskTyped ==
    task \in [Tasks -> [op : Ops, pc : Locations, serial : Nat, ui : Nat, gen : Nat,
                        answer : Answers \union {None},
                        seen : (Tokens \X Profiles) \union {None}]]
BoundTyped == /\ ops \in 0 .. MaxOps /\ faults \in 0 .. MaxFaults
              /\ kills \in 0 .. MaxKills /\ cut \in BOOLEAN
StoreTyped == token \in Tokens /\ profile \in Profiles /\ live \in Tokens

SerialOf(d) == /\ task[d].serial \in 0 .. ops
               /\ task[d].pc # "idle" => task[d].serial # 0
SerialInv == \A d \in Tasks : SerialOf(d)

TypeInv == UiTyped /\ DeviceTyped /\ TaskTyped /\ BoundTyped /\ StoreTyped /\ SerialInv

\* What changes ui.
LEMMA UiChange ==
  ASSUME [Next]_vars
  PROVE  \/ UNCHANGED <<ui>>
         \/ \E t \in Tasks :
               \/ StartConnect(t) \/ StartRedeem(t) \/ StartCancel(t)
               \/ StartReset(t) \/ Issued(t) \/ Paired(t) \/ RedeemEnd(t)
               \/ Canceled(t)
         \/ Kill
  BY ZenonT(60) DEF Next, Invoked, Connect, Locked, Stored, Others, stores, bounds,
         StartObserve, Begin, Issue, StoreSession, Poll, PollAnswer,
         PollStore, Launched, Finish, RedeemLock, RedeemAnswer, RedeemStore,
         SaveToken, SaveAgain, SaveProfile, WriteProfile, UndoToken,
         PollFailed, Cancel, Reset, ClearProfile, ObserveLock, ObserveCheck,
         ObserveUpload, Expire, Start, vars

LEMMA UiStep ==
  ASSUME UiTyped, [Next]_vars
  PROVE  UiTyped'
<1>. USE DEF UiTyped, NoUi
<1>1. ASSUME NEW t \in Tasks,
             StartConnect(t)
      PROVE  UiTyped'
  <2>. DEFINE u == [ui EXCEPT !.generation = @ + 1]
  <2>1. u \in [generation : Nat, active : BOOLEAN, completing : BOOLEAN,
               shown : BOOLEAN, redeem : BOOLEAN]
    OBVIOUS
  <2>2. ui' = [u EXCEPT !.active = TRUE, !.redeem = FALSE]
    BY <1>1 DEF StartConnect
  <2>. QED
    BY <2>1, <2>2
<1>2. ASSUME NEW t \in Tasks,
             StartRedeem(t)
      PROVE  UiTyped'
  BY <1>2 DEF StartRedeem
<1>3. ASSUME NEW t \in Tasks,
             StartCancel(t)
      PROVE  UiTyped'
  BY <1>3 DEF StartCancel
<1>4. ASSUME NEW t \in Tasks,
             StartReset(t)
      PROVE  UiTyped'
  BY <1>4 DEF StartReset
<1>5. ASSUME NEW t \in Tasks,
             Issued(t)
      PROVE  UiTyped'
  BY <1>5 DEF Issued, At, Goto, End
<1>6. ASSUME NEW t \in Tasks,
             Paired(t)
      PROVE  UiTyped'
  BY <1>6 DEF Paired, At, Goto, End
<1>7. ASSUME NEW t \in Tasks,
             RedeemEnd(t)
      PROVE  UiTyped'
  BY <1>7 DEF RedeemEnd, At, End
<1>8. ASSUME NEW t \in Tasks,
             Canceled(t)
      PROVE  UiTyped'
  BY <1>8 DEF Canceled, Goto, End
<1>9. CASE Kill
  BY <1>9 DEF Kill
<1>10. CASE UNCHANGED <<ui>>
  BY <1>10
<1>. QED
  BY UiChange, <1>1, <1>2, <1>3, <1>4, <1>5, <1>6, <1>7, <1>8, <1>9, <1>10

\* What changes task.
LEMMA TaskChange ==
  ASSUME [Next]_vars
  PROVE  \/ UNCHANGED <<task>>
         \/ \E t \in Tasks :
               \/ StartConnect(t) \/ StartRedeem(t) \/ StartCancel(t)
               \/ StartReset(t) \/ StartObserve(t) \/ Begin(t) \/ Issue(t)
               \/ StoreSession(t) \/ Issued(t) \/ Poll(t) \/ PollAnswer(t)
               \/ PollStore(t) \/ Paired(t) \/ Launched(t) \/ Finish(t)
               \/ RedeemLock(t) \/ RedeemAnswer(t) \/ RedeemStore(t)
               \/ RedeemEnd(t) \/ SaveToken(t) \/ SaveAgain(t)
               \/ SaveProfile(t) \/ WriteProfile(t) \/ UndoToken(t)
               \/ PollFailed(t) \/ Cancel(t) \/ Canceled(t) \/ Reset(t)
               \/ ClearProfile(t) \/ ObserveLock(t) \/ ObserveCheck(t)
               \/ ObserveUpload(t)
         \/ Kill
  BY DEF Next, Invoked, Connect, Locked, Stored, Others, stores, bounds,
         Expire, Start, vars

LEMMA TaskStep ==
  ASSUME TaskTyped, UiTyped, UiTyped', BoundTyped, BoundTyped', DeviceTyped', StoreTyped, [Next]_vars
  PROVE  TaskTyped'
<1>0. MaxOps \in Nat /\ ops \in Nat /\ ops' \in Nat
  BY PairingAssumption DEF BoundTyped
<1>. USE <1>0 DEF TaskTyped, Ops, Locations, Storing, Watching, Idle, Answers,
        UiTyped, DeviceTyped, StoreTyped, Invalidated
<1>1. ASSUME NEW t \in Tasks,
             StartConnect(t)
      PROVE  TaskTyped'
  BY <1>1 DEF StartConnect, Start
<1>2. ASSUME NEW t \in Tasks,
             StartRedeem(t)
      PROVE  TaskTyped'
  BY <1>2 DEF StartRedeem, Start
<1>3. ASSUME NEW t \in Tasks,
             StartCancel(t)
      PROVE  TaskTyped'
  BY <1>3 DEF StartCancel, Start
<1>4. ASSUME NEW t \in Tasks,
             StartReset(t)
      PROVE  TaskTyped'
  BY <1>4 DEF StartReset, Start
<1>5. ASSUME NEW t \in Tasks,
             StartObserve(t)
      PROVE  TaskTyped'
  BY <1>5 DEF StartObserve, Start
<1>6. ASSUME NEW t \in Tasks,
             Begin(t)
      PROVE  TaskTyped'
  BY <1>6 DEF Begin, At, Goto
<1>7. ASSUME NEW t \in Tasks,
             Issue(t)
      PROVE  TaskTyped'
  BY <1>7 DEF Issue, At, Goto
<1>8. ASSUME NEW t \in Tasks,
             StoreSession(t)
      PROVE  TaskTyped'
  BY <1>8 DEF StoreSession, At, Goto
<1>9. ASSUME NEW t \in Tasks,
             Issued(t)
      PROVE  TaskTyped'
  BY <1>9 DEF Issued, At, Goto, End
<1>10. ASSUME NEW t \in Tasks,
             Poll(t)
      PROVE  TaskTyped'
  BY <1>10 DEF Poll, At, Goto, End
<1>11. ASSUME NEW t \in Tasks,
             PollAnswer(t)
      PROVE  TaskTyped'
  <2>1. PICK answer \in Answers :
            task' = [task EXCEPT ![t].pc = "answered", ![t].answer = answer]
    BY <1>11 DEF PollAnswer
  <2>. DEFINE mid == [task EXCEPT ![t].pc = "answered"]
  <2>2. mid \in [Tasks -> [op : Ops, pc : Locations, serial : Nat, ui : Nat, gen : Nat,
                           answer : Answers \union {None},
                           seen : (Tokens \X Profiles) \union {None}]]
    OBVIOUS
  <2>3. task' = [mid EXCEPT ![t].answer = answer]
    BY <2>1
  <2>. HIDE DEF mid, Answers, Locations, Ops, Idle
  <2>. QED
    BY <2>2, <2>3
<1>12. ASSUME NEW t \in Tasks,
             PollStore(t)
      PROVE  TaskTyped'
  BY <1>12 DEF PollStore, At
<1>13. ASSUME NEW t \in Tasks,
             Paired(t)
      PROVE  TaskTyped'
  BY <1>13 DEF Paired, At, Goto, End
<1>14. ASSUME NEW t \in Tasks,
             Launched(t)
      PROVE  TaskTyped'
  BY <1>14 DEF Launched, At, Goto
<1>15. ASSUME NEW t \in Tasks,
             Finish(t)
      PROVE  TaskTyped'
  BY <1>15 DEF Finish, At, Goto, End
<1>16. ASSUME NEW t \in Tasks,
             RedeemLock(t)
      PROVE  TaskTyped'
  <2>1. device'.generation \in Nat
    OBVIOUS
  <2>. DEFINE mid == [task EXCEPT ![t].pc = "redeeming"]
  <2>2. mid \in [Tasks -> [op : Ops, pc : Locations, serial : Nat, ui : Nat, gen : Nat,
                           answer : Answers \union {None},
                           seen : (Tokens \X Profiles) \union {None}]]
    OBVIOUS
  <2>3. task' = [mid EXCEPT ![t].gen = device'.generation]
    BY <1>16 DEF RedeemLock
  <2>. HIDE DEF mid, Answers, Locations, Ops, Idle
  <2>. QED
    BY <2>1, <2>2, <2>3
<1>17. ASSUME NEW t \in Tasks,
             RedeemAnswer(t)
      PROVE  TaskTyped'
  BY <1>17 DEF RedeemAnswer, At, Goto
<1>18. ASSUME NEW t \in Tasks,
             RedeemStore(t)
      PROVE  TaskTyped'
  BY <1>18 DEF RedeemStore, At, Goto
<1>19. ASSUME NEW t \in Tasks,
             RedeemEnd(t)
      PROVE  TaskTyped'
  BY <1>19 DEF RedeemEnd, At, End
<1>20. ASSUME NEW t \in Tasks,
             SaveToken(t)
      PROVE  TaskTyped'
  BY <1>20 DEF SaveToken, Goto
<1>21. ASSUME NEW t \in Tasks,
             SaveAgain(t)
      PROVE  TaskTyped'
  BY <1>21 DEF SaveAgain, Goto
<1>22. ASSUME NEW t \in Tasks,
             SaveProfile(t)
      PROVE  TaskTyped'
  BY <1>22 DEF SaveProfile, Goto
<1>23. ASSUME NEW t \in Tasks,
             WriteProfile(t)
      PROVE  TaskTyped'
  BY <1>23 DEF WriteProfile, Goto
<1>24. ASSUME NEW t \in Tasks,
             UndoToken(t)
      PROVE  TaskTyped'
  BY <1>24 DEF UndoToken, Goto
<1>25. ASSUME NEW t \in Tasks,
             PollFailed(t)
      PROVE  TaskTyped'
  BY <1>25 DEF PollFailed, At, Goto
<1>26. ASSUME NEW t \in Tasks,
             Cancel(t)
      PROVE  TaskTyped'
  BY <1>26 DEF Cancel, Goto
<1>27. ASSUME NEW t \in Tasks,
             Canceled(t)
      PROVE  TaskTyped'
  BY <1>27 DEF Canceled, Goto, End
<1>28. ASSUME NEW t \in Tasks,
             Reset(t)
      PROVE  TaskTyped'
  BY <1>28 DEF Reset, At, Goto, End
<1>29. ASSUME NEW t \in Tasks,
             ClearProfile(t)
      PROVE  TaskTyped'
  BY <1>29 DEF ClearProfile, End
<1>30. ASSUME NEW t \in Tasks,
             ObserveLock(t)
      PROVE  TaskTyped'
  BY <1>30 DEF ObserveLock, At, End
<1>31. ASSUME NEW t \in Tasks,
             ObserveCheck(t)
      PROVE  TaskTyped'
  BY <1>31 DEF ObserveCheck, At, Goto, End
<1>32. ASSUME NEW t \in Tasks,
             ObserveUpload(t)
      PROVE  TaskTyped'
  BY <1>32 DEF ObserveUpload, At, End
<1>33. CASE Kill
  BY <1>33 DEF Kill
<1>34. CASE UNCHANGED <<task>>
  BY <1>34
<1>. QED
  BY TaskChange, <1>1, <1>2, <1>3, <1>4, <1>5, <1>6, <1>7, <1>8, <1>9, <1>10,
     <1>11, <1>12, <1>13, <1>14, <1>15, <1>16, <1>17, <1>18, <1>19, <1>20,
     <1>21, <1>22, <1>23, <1>24, <1>25, <1>26, <1>27, <1>28, <1>29, <1>30,
     <1>31, <1>32, <1>33, <1>34

\* What changes ops, faults, kills, cut.
LEMMA BoundChange ==
  ASSUME [Next]_vars
  PROVE  \/ UNCHANGED <<ops, faults, kills, cut>>
         \/ \E t \in Tasks :
               \/ StartConnect(t) \/ StartRedeem(t) \/ StartCancel(t)
               \/ StartReset(t) \/ StartObserve(t) \/ SaveToken(t)
               \/ SaveAgain(t) \/ SaveProfile(t) \/ WriteProfile(t)
               \/ UndoToken(t) \/ Reset(t) \/ ClearProfile(t)
         \/ Kill
  BY ZenonT(90) DEF Next, Invoked, Connect, Locked, Stored, Others, stores, bounds,
         Begin, Issue, StoreSession, Issued, Poll, PollAnswer, PollStore,
         Paired, Launched, Finish, RedeemLock, RedeemAnswer, RedeemStore,
         RedeemEnd, PollFailed, Cancel, Canceled, ObserveLock, ObserveCheck,
         ObserveUpload, Expire, Start, vars

LEMMA BoundStep ==
  ASSUME BoundTyped, [Next]_vars
  PROVE  BoundTyped'
<1>0. MaxOps \in Nat /\ MaxFaults \in Nat /\ MaxKills \in Nat
  BY PairingAssumption
<1>. USE <1>0 DEF BoundTyped, Start, Fault, Writing
<1>1. ASSUME NEW t \in Tasks,
             StartConnect(t)
      PROVE  BoundTyped'
  BY <1>1 DEF StartConnect, Start
<1>2. ASSUME NEW t \in Tasks,
             StartRedeem(t)
      PROVE  BoundTyped'
  BY <1>2 DEF StartRedeem, Start
<1>3. ASSUME NEW t \in Tasks,
             StartCancel(t)
      PROVE  BoundTyped'
  BY <1>3 DEF StartCancel, Start
<1>4. ASSUME NEW t \in Tasks,
             StartReset(t)
      PROVE  BoundTyped'
  BY <1>4 DEF StartReset, Start
<1>5. ASSUME NEW t \in Tasks,
             StartObserve(t)
      PROVE  BoundTyped'
  BY <1>5 DEF StartObserve, Start
<1>6. ASSUME NEW t \in Tasks,
             SaveToken(t)
      PROVE  BoundTyped'
  BY <1>6 DEF SaveToken, Goto
<1>7. ASSUME NEW t \in Tasks,
             SaveAgain(t)
      PROVE  BoundTyped'
  BY <1>7 DEF SaveAgain, Goto
<1>8. ASSUME NEW t \in Tasks,
             SaveProfile(t)
      PROVE  BoundTyped'
  BY <1>8 DEF SaveProfile, Goto
<1>9. ASSUME NEW t \in Tasks,
             WriteProfile(t)
      PROVE  BoundTyped'
  BY <1>9 DEF WriteProfile, Goto
<1>10. ASSUME NEW t \in Tasks,
             UndoToken(t)
      PROVE  BoundTyped'
  BY <1>10 DEF UndoToken, Goto
<1>11. ASSUME NEW t \in Tasks,
             Reset(t)
      PROVE  BoundTyped'
  BY <1>11 DEF Reset, At, Goto, End
<1>12. ASSUME NEW t \in Tasks,
             ClearProfile(t)
      PROVE  BoundTyped'
  BY <1>12 DEF ClearProfile, End
<1>13. CASE Kill
  BY <1>13 DEF Kill
<1>14. CASE UNCHANGED <<ops, faults, kills, cut>>
  BY <1>14
<1>. QED
  BY BoundChange, <1>1, <1>2, <1>3, <1>4, <1>5, <1>6, <1>7, <1>8, <1>9, <1>10,
     <1>11, <1>12, <1>13, <1>14

\* What changes task, ops.
LEMMA SerialChange ==
  ASSUME [Next]_vars
  PROVE  \/ UNCHANGED <<task, ops>>
         \/ \E t \in Tasks :
               \/ StartConnect(t) \/ StartRedeem(t) \/ StartCancel(t)
               \/ StartReset(t) \/ StartObserve(t) \/ Begin(t) \/ Issue(t)
               \/ StoreSession(t) \/ Issued(t) \/ Poll(t) \/ PollAnswer(t)
               \/ PollStore(t) \/ Paired(t) \/ Launched(t) \/ Finish(t)
               \/ RedeemLock(t) \/ RedeemAnswer(t) \/ RedeemStore(t)
               \/ RedeemEnd(t) \/ SaveToken(t) \/ SaveAgain(t)
               \/ SaveProfile(t) \/ WriteProfile(t) \/ UndoToken(t)
               \/ PollFailed(t) \/ Cancel(t) \/ Canceled(t) \/ Reset(t)
               \/ ClearProfile(t) \/ ObserveLock(t) \/ ObserveCheck(t)
               \/ ObserveUpload(t)
         \/ Kill
  BY DEF Next, Invoked, Connect, Locked, Stored, Others, stores, bounds,
         Expire, Start, vars

LEMMA SerialStep ==
  ASSUME TaskTyped, BoundTyped, SerialInv, [Next]_vars
  PROVE  SerialInv'
<1>. SUFFICES ASSUME NEW d \in Tasks PROVE SerialOf(d)'
  BY DEF SerialInv
<1>a. SerialOf(d)
  BY DEF SerialInv
<1>0. /\ DOMAIN task = Tasks /\ \A x \in Tasks : DOMAIN task[x] =
          {"op", "pc", "serial", "ui", "gen", "answer", "seen"}
      /\ ops \in Nat
  BY DEF TaskTyped, BoundTyped
<1>. USE <1>0, <1>a DEF SerialOf, Idle, bounds
<1>1. ASSUME NEW t \in Tasks,
             StartConnect(t)
      PROVE  SerialOf(d)'
  BY <1>1 DEF StartConnect, Start
<1>2. ASSUME NEW t \in Tasks,
             StartRedeem(t)
      PROVE  SerialOf(d)'
  BY <1>2 DEF StartRedeem, Start
<1>3. ASSUME NEW t \in Tasks,
             StartCancel(t)
      PROVE  SerialOf(d)'
  BY <1>3 DEF StartCancel, Start
<1>4. ASSUME NEW t \in Tasks,
             StartReset(t)
      PROVE  SerialOf(d)'
  BY <1>4 DEF StartReset, Start
<1>5. ASSUME NEW t \in Tasks,
             StartObserve(t)
      PROVE  SerialOf(d)'
  BY <1>5 DEF StartObserve, Start
<1>6. ASSUME NEW t \in Tasks,
             Begin(t)
      PROVE  SerialOf(d)'
  BY <1>6 DEF Begin, At, Goto
<1>7. ASSUME NEW t \in Tasks,
             Issue(t)
      PROVE  SerialOf(d)'
  BY <1>7 DEF Issue, At, Goto
<1>8. ASSUME NEW t \in Tasks,
             StoreSession(t)
      PROVE  SerialOf(d)'
  BY <1>8 DEF StoreSession, At, Goto
<1>9. ASSUME NEW t \in Tasks,
             Issued(t)
      PROVE  SerialOf(d)'
  BY <1>9 DEF Issued, At, Goto, End
<1>10. ASSUME NEW t \in Tasks,
             Poll(t)
      PROVE  SerialOf(d)'
  BY <1>10 DEF Poll, At, Goto, End
<1>11. ASSUME NEW t \in Tasks,
             PollAnswer(t)
      PROVE  SerialOf(d)'
  BY <1>11 DEF PollAnswer, At
<1>12. ASSUME NEW t \in Tasks,
             PollStore(t)
      PROVE  SerialOf(d)'
  BY <1>12 DEF PollStore, At
<1>13. ASSUME NEW t \in Tasks,
             Paired(t)
      PROVE  SerialOf(d)'
  BY <1>13 DEF Paired, At, Goto, End
<1>14. ASSUME NEW t \in Tasks,
             Launched(t)
      PROVE  SerialOf(d)'
  BY <1>14 DEF Launched, At, Goto
<1>15. ASSUME NEW t \in Tasks,
             Finish(t)
      PROVE  SerialOf(d)'
  BY <1>15 DEF Finish, At, Goto, End
<1>16. ASSUME NEW t \in Tasks,
             RedeemLock(t)
      PROVE  SerialOf(d)'
  BY <1>16 DEF RedeemLock, At
<1>17. ASSUME NEW t \in Tasks,
             RedeemAnswer(t)
      PROVE  SerialOf(d)'
  BY <1>17 DEF RedeemAnswer, At, Goto
<1>18. ASSUME NEW t \in Tasks,
             RedeemStore(t)
      PROVE  SerialOf(d)'
  BY <1>18 DEF RedeemStore, At, Goto
<1>19. ASSUME NEW t \in Tasks,
             RedeemEnd(t)
      PROVE  SerialOf(d)'
  BY <1>19 DEF RedeemEnd, At, End
<1>20. ASSUME NEW t \in Tasks,
             SaveToken(t)
      PROVE  SerialOf(d)'
  BY <1>20 DEF SaveToken, Goto
<1>21. ASSUME NEW t \in Tasks,
             SaveAgain(t)
      PROVE  SerialOf(d)'
  BY <1>21 DEF SaveAgain, Goto
<1>22. ASSUME NEW t \in Tasks,
             SaveProfile(t)
      PROVE  SerialOf(d)'
  BY <1>22 DEF SaveProfile, Goto
<1>23. ASSUME NEW t \in Tasks,
             WriteProfile(t)
      PROVE  SerialOf(d)'
  BY <1>23 DEF WriteProfile, Goto
<1>24. ASSUME NEW t \in Tasks,
             UndoToken(t)
      PROVE  SerialOf(d)'
  BY <1>24 DEF UndoToken, Goto
<1>25. ASSUME NEW t \in Tasks,
             PollFailed(t)
      PROVE  SerialOf(d)'
  BY <1>25 DEF PollFailed, At, Goto
<1>26. ASSUME NEW t \in Tasks,
             Cancel(t)
      PROVE  SerialOf(d)'
  BY <1>26 DEF Cancel, Goto
<1>27. ASSUME NEW t \in Tasks,
             Canceled(t)
      PROVE  SerialOf(d)'
  BY <1>27 DEF Canceled, Goto, End
<1>28. ASSUME NEW t \in Tasks,
             Reset(t)
      PROVE  SerialOf(d)'
  BY <1>28 DEF Reset, At, Goto, End
<1>29. ASSUME NEW t \in Tasks,
             ClearProfile(t)
      PROVE  SerialOf(d)'
  BY <1>29 DEF ClearProfile, End
<1>30. ASSUME NEW t \in Tasks,
             ObserveLock(t)
      PROVE  SerialOf(d)'
  BY <1>30 DEF ObserveLock, At, End
<1>31. ASSUME NEW t \in Tasks,
             ObserveCheck(t)
      PROVE  SerialOf(d)'
  BY <1>31 DEF ObserveCheck, At, Goto, End
<1>32. ASSUME NEW t \in Tasks,
             ObserveUpload(t)
      PROVE  SerialOf(d)'
  BY <1>32 DEF ObserveUpload, At, End
<1>33. CASE Kill
  BY <1>33 DEF Kill
<1>34. CASE UNCHANGED <<task, ops>>
  BY <1>34
<1>. QED
  BY SerialChange, <1>1, <1>2, <1>3, <1>4, <1>5, <1>6, <1>7, <1>8, <1>9,
     <1>10, <1>11, <1>12, <1>13, <1>14, <1>15, <1>16, <1>17, <1>18, <1>19,
     <1>20, <1>21, <1>22, <1>23, <1>24, <1>25, <1>26, <1>27, <1>28, <1>29,
     <1>30, <1>31, <1>32, <1>33, <1>34

\* What changes token, profile, live.
LEMMA StoreChange ==
  ASSUME [Next]_vars
  PROVE  \/ UNCHANGED <<token, profile, live>>
         \/ \E t \in Tasks :
               \/ Begin(t) \/ RedeemLock(t) \/ SaveToken(t) \/ SaveAgain(t)
               \/ SaveProfile(t) \/ WriteProfile(t) \/ UndoToken(t)
               \/ Cancel(t) \/ Reset(t) \/ ClearProfile(t)
         \/ Kill
  BY ZenonT(90) DEF Next, Invoked, Connect, Locked, Stored, Others, stores, bounds,
         StartConnect, StartRedeem, StartCancel, StartReset, StartObserve,
         Issue, StoreSession, Issued, Poll, PollAnswer, PollStore, Paired,
         Launched, Finish, RedeemAnswer, RedeemStore, RedeemEnd, PollFailed,
         Canceled, ObserveLock, ObserveCheck, ObserveUpload, Expire, Start,
         vars

LEMMA StoreStep ==
  ASSUME StoreTyped, TaskTyped, SerialInv, BoundTyped, [Next]_vars
  PROVE  StoreTyped'
<1>0. \A x \in Tasks : task[x].pc # "idle" => task[x].serial \in Serials
  BY PairingAssumption DEF SerialInv, SerialOf, TaskTyped, BoundTyped, Serials
<1>. USE <1>0 DEF StoreTyped, Tokens, Profiles, stores, At
<1>1. ASSUME NEW t \in Tasks,
             Begin(t)
      PROVE  StoreTyped'
  BY <1>1 DEF Begin, At, Goto
<1>2. ASSUME NEW t \in Tasks,
             RedeemLock(t)
      PROVE  StoreTyped'
  BY <1>2 DEF RedeemLock, At
<1>3. ASSUME NEW t \in Tasks,
             SaveToken(t)
      PROVE  StoreTyped'
  BY <1>3 DEF SaveToken, Goto
<1>4. ASSUME NEW t \in Tasks,
             SaveAgain(t)
      PROVE  StoreTyped'
  BY <1>4 DEF SaveAgain, Goto
<1>5. ASSUME NEW t \in Tasks,
             SaveProfile(t)
      PROVE  StoreTyped'
  BY <1>5 DEF SaveProfile, Goto
<1>6. ASSUME NEW t \in Tasks,
             WriteProfile(t)
      PROVE  StoreTyped'
  BY <1>6 DEF WriteProfile, Goto
<1>7. ASSUME NEW t \in Tasks,
             UndoToken(t)
      PROVE  StoreTyped'
  BY <1>7 DEF UndoToken, Goto
<1>8. ASSUME NEW t \in Tasks,
             Cancel(t)
      PROVE  StoreTyped'
  BY <1>8 DEF Cancel, Goto
<1>9. ASSUME NEW t \in Tasks,
             Reset(t)
      PROVE  StoreTyped'
  BY <1>9 DEF Reset, At, Goto, End
<1>10. ASSUME NEW t \in Tasks,
             ClearProfile(t)
      PROVE  StoreTyped'
  BY <1>10 DEF ClearProfile, End
<1>11. CASE Kill
  BY <1>11 DEF Kill
<1>12. CASE UNCHANGED <<token, profile, live>>
  BY <1>12
<1>. QED
  BY StoreChange, <1>1, <1>2, <1>3, <1>4, <1>5, <1>6, <1>7, <1>8, <1>9, <1>10,
     <1>11, <1>12

-----------------------------------------------------------------------------
(* The pairing lock: one writer, or readers.                                 *)

LockOf(d) == \A e \in Tasks :
    task[d].pc \in Storing /\ task[e].pc \in Storing \union Watching => d = e
LockInv == \A d \in Tasks : LockOf(d)

LEMMA LockStep ==
  ASSUME TaskTyped, LockInv, [Next]_vars
  PROVE  LockInv'
<1>. SUFFICES ASSUME NEW d \in Tasks PROVE LockOf(d)'
  BY DEF LockInv
<1>a. LockOf(d)
  BY DEF LockInv
<1>0. /\ DOMAIN task = Tasks /\ \A x \in Tasks : DOMAIN task[x] =
          {"op", "pc", "serial", "ui", "gen", "answer", "seen"}
  BY DEF TaskTyped
<1>. USE <1>0, <1>a DEF LockOf, Storing, Watching, Idle
<1>1. ASSUME NEW t \in Tasks,
             StartConnect(t)
      PROVE  LockOf(d)'
  BY <1>1 DEF StartConnect, Start
<1>2. ASSUME NEW t \in Tasks,
             StartRedeem(t)
      PROVE  LockOf(d)'
  BY <1>2 DEF StartRedeem, Start
<1>3. ASSUME NEW t \in Tasks,
             StartCancel(t)
      PROVE  LockOf(d)'
  BY <1>3 DEF StartCancel, Start
<1>4. ASSUME NEW t \in Tasks,
             StartReset(t)
      PROVE  LockOf(d)'
  BY <1>4 DEF StartReset, Start
<1>5. ASSUME NEW t \in Tasks,
             StartObserve(t)
      PROVE  LockOf(d)'
  BY <1>5 DEF StartObserve, Start
<1>6. ASSUME NEW t \in Tasks,
             Begin(t)
      PROVE  LockOf(d)'
  BY <1>6 DEF Begin, At, Goto
<1>7. ASSUME NEW t \in Tasks,
             Issue(t)
      PROVE  LockOf(d)'
  BY <1>7 DEF Issue, At, Goto
<1>8. ASSUME NEW t \in Tasks,
             StoreSession(t)
      PROVE  LockOf(d)'
  BY <1>8 DEF StoreSession, At, Goto
<1>9. ASSUME NEW t \in Tasks,
             Issued(t)
      PROVE  LockOf(d)'
  BY <1>9 DEF Issued, At, Goto, End
<1>10. ASSUME NEW t \in Tasks,
             Poll(t)
      PROVE  LockOf(d)'
  BY <1>10 DEF Poll, At, Goto, End
<1>11. ASSUME NEW t \in Tasks,
             PollAnswer(t)
      PROVE  LockOf(d)'
  BY <1>11 DEF PollAnswer, At
<1>12. ASSUME NEW t \in Tasks,
             PollStore(t)
      PROVE  LockOf(d)'
  BY <1>12 DEF PollStore, At, CanWrite, Writing, Reading, LockInv
<1>13. ASSUME NEW t \in Tasks,
             Paired(t)
      PROVE  LockOf(d)'
  BY <1>13 DEF Paired, At, Goto, End
<1>14. ASSUME NEW t \in Tasks,
             Launched(t)
      PROVE  LockOf(d)'
  BY <1>14 DEF Launched, At, Goto
<1>15. ASSUME NEW t \in Tasks,
             Finish(t)
      PROVE  LockOf(d)'
  BY <1>15 DEF Finish, At, Goto, End
<1>16. ASSUME NEW t \in Tasks,
             RedeemLock(t)
      PROVE  LockOf(d)'
  BY <1>16 DEF RedeemLock, At
<1>17. ASSUME NEW t \in Tasks,
             RedeemAnswer(t)
      PROVE  LockOf(d)'
  BY <1>17 DEF RedeemAnswer, At, Goto
<1>18. ASSUME NEW t \in Tasks,
             RedeemStore(t)
      PROVE  LockOf(d)'
  BY <1>18 DEF RedeemStore, At, Goto, CanWrite, Writing, Reading, LockInv
<1>19. ASSUME NEW t \in Tasks,
             RedeemEnd(t)
      PROVE  LockOf(d)'
  BY <1>19 DEF RedeemEnd, At, End
<1>20. ASSUME NEW t \in Tasks,
             SaveToken(t)
      PROVE  LockOf(d)'
  BY <1>20 DEF SaveToken, Goto
<1>21. ASSUME NEW t \in Tasks,
             SaveAgain(t)
      PROVE  LockOf(d)'
  BY <1>21 DEF SaveAgain, Goto
<1>22. ASSUME NEW t \in Tasks,
             SaveProfile(t)
      PROVE  LockOf(d)'
  BY <1>22 DEF SaveProfile, Goto
<1>23. ASSUME NEW t \in Tasks,
             WriteProfile(t)
      PROVE  LockOf(d)'
  BY <1>23 DEF WriteProfile, Goto
<1>24. ASSUME NEW t \in Tasks,
             UndoToken(t)
      PROVE  LockOf(d)'
  BY <1>24 DEF UndoToken, Goto
<1>25. ASSUME NEW t \in Tasks,
             PollFailed(t)
      PROVE  LockOf(d)'
  BY <1>25 DEF PollFailed, At, Goto
<1>26. ASSUME NEW t \in Tasks,
             Cancel(t)
      PROVE  LockOf(d)'
  BY <1>26 DEF Cancel, Goto
<1>27. ASSUME NEW t \in Tasks,
             Canceled(t)
      PROVE  LockOf(d)'
  BY <1>27 DEF Canceled, Goto, End
<1>28. ASSUME NEW t \in Tasks,
             Reset(t)
      PROVE  LockOf(d)'
  BY <1>28 DEF Reset, At, Goto, End, CanWrite, Writing, Reading, LockInv
<1>29. ASSUME NEW t \in Tasks,
             ClearProfile(t)
      PROVE  LockOf(d)'
  BY <1>29 DEF ClearProfile, End
<1>30. ASSUME NEW t \in Tasks,
             ObserveLock(t)
      PROVE  LockOf(d)'
  BY <1>30 DEF ObserveLock, At, End, CanRead, Writing, LockInv
<1>31. ASSUME NEW t \in Tasks,
             ObserveCheck(t)
      PROVE  LockOf(d)'
  BY <1>31 DEF ObserveCheck, At, Goto, End
<1>32. ASSUME NEW t \in Tasks,
             ObserveUpload(t)
      PROVE  LockOf(d)'
  BY <1>32 DEF ObserveUpload, At, End
<1>33. CASE Kill
  BY <1>33 DEF Kill
<1>34. CASE UNCHANGED <<task>>
  BY <1>34
<1>. QED
  BY TaskChange, <1>1, <1>2, <1>3, <1>4, <1>5, <1>6, <1>7, <1>8, <1>9, <1>10,
     <1>11, <1>12, <1>13, <1>14, <1>15, <1>16, <1>17, <1>18, <1>19, <1>20,
     <1>21, <1>22, <1>23, <1>24, <1>25, <1>26, <1>27, <1>28, <1>29, <1>30,
     <1>31, <1>32, <1>33, <1>34

-----------------------------------------------------------------------------
(* Generations: the task of the current one is the live attempt.             *)

GenOf(d) ==
    /\ task[d].gen \in 0 .. device.generation
    /\ task[d].gen # 0 /\ task[d].gen = device.generation => live = task[d].serial
    /\ task[d].op = "redeem" /\ task[d].pc \in {"redeeming", "redeemed"} => task[d].gen # 0
    /\ task[d].op = "connect" /\ task[d].pc \in {"issue", "store"} => task[d].gen # 0
GenInv == \A d \in Tasks : GenOf(d)

\* What changes device.
LEMMA DeviceChange ==
  ASSUME [Next]_vars
  PROVE  \/ UNCHANGED <<device>>
         \/ \E t \in Tasks :
               \/ Begin(t) \/ StoreSession(t) \/ Poll(t) \/ PollStore(t)
               \/ RedeemLock(t) \/ Cancel(t) \/ Reset(t)
         \/ Expire \/ Kill
  BY DEF Next, Invoked, Connect, Locked, Stored, Others, stores, bounds,
         StartConnect, StartRedeem, StartCancel, StartReset, StartObserve,
         Issue, Issued, PollAnswer, Paired, Launched, Finish, RedeemAnswer,
         RedeemStore, RedeemEnd, SaveToken, SaveAgain, SaveProfile,
         WriteProfile, UndoToken, PollFailed, Canceled, ClearProfile,
         ObserveLock, ObserveCheck, ObserveUpload, Start, vars

LEMMA DeviceStep ==
  ASSUME DeviceTyped, TaskTyped, GenInv, [Next]_vars
  PROVE  DeviceTyped'
<1>0. /\ device \in [generation : Nat, pending : Sessions \union {None}]
      /\ \A x \in Tasks : task[x].gen \in Nat
  BY DEF DeviceTyped, TaskTyped
<1>. USE <1>0 DEF DeviceTyped, NoDevice, Invalidated
<1>1. ASSUME NEW t \in Tasks,
             Begin(t)
      PROVE  DeviceTyped'
  BY <1>1 DEF Begin, At, Goto
<1>2. ASSUME NEW t \in Tasks,
             StoreSession(t)
      PROVE  DeviceTyped'
  <2>1. CASE Current(t)
    <3>1. device' = [device EXCEPT !.pending = NewSession(t)]
      BY <1>2, <2>1 DEF StoreSession
    <3>2. NewSession(t) \in Sessions /\ NewSession(t).gen = device.generation
      BY <1>2, <2>1 DEF StoreSession, At, Current, NewSession, Sessions, GenInv, GenOf
    <3>. QED
      BY <3>1, <3>2 DEF DeviceTyped
  <2>2. CASE ~Current(t)
    BY <1>2, <2>2 DEF StoreSession
  <2>. QED
    BY <2>1, <2>2
<1>3. ASSUME NEW t \in Tasks,
             Poll(t)
      PROVE  DeviceTyped'
  <2>1. \/ device' = device \/ device' = [device EXCEPT !.pending = None]
        \/ device.pending # None /\ device' = [device EXCEPT !.pending.inFlight = TRUE]
    BY <1>3 DEF Poll, Session
  <2>. QED
    BY <2>1, ZenonT(60) DEF DeviceTyped, Sessions
<1>4. ASSUME NEW t \in Tasks,
             PollStore(t)
      PROVE  DeviceTyped'
  <2>1. \/ device' = device \/ device' = [device EXCEPT !.pending = None]
        \/ device.pending # None /\ device' = [device EXCEPT !.pending.inFlight = FALSE]
    BY <1>4 DEF PollStore, Session, Polled
  <2>. QED
    BY <2>1 DEF DeviceTyped, Sessions
<1>5. ASSUME NEW t \in Tasks,
             RedeemLock(t)
      PROVE  DeviceTyped'
  BY <1>5 DEF RedeemLock, At
<1>6. ASSUME NEW t \in Tasks,
             Cancel(t)
      PROVE  DeviceTyped'
  BY <1>6 DEF Cancel, Goto
<1>7. ASSUME NEW t \in Tasks,
             Reset(t)
      PROVE  DeviceTyped'
  BY <1>7 DEF Reset, At, Goto, End
<1>8. CASE Expire
  <2>1. device.pending # None /\ device' = [device EXCEPT !.pending.expired = TRUE]
    BY <1>8 DEF Expire
  <2>. QED
    BY <2>1 DEF DeviceTyped, Sessions
<1>9. CASE Kill
  BY <1>9 DEF Kill
<1>10. CASE UNCHANGED <<device>>
  BY <1>10
<1>. QED
  BY DeviceChange, <1>1, <1>2, <1>3, <1>4, <1>5, <1>6, <1>7, <1>8, <1>9, <1>10

\* What changes task, device, live.
LEMMA GenChange ==
  ASSUME [Next]_vars
  PROVE  \/ UNCHANGED <<task, device, live>>
         \/ \E t \in Tasks :
               \/ StartConnect(t) \/ StartRedeem(t) \/ StartCancel(t)
               \/ StartReset(t) \/ StartObserve(t) \/ Begin(t) \/ Issue(t)
               \/ StoreSession(t) \/ Issued(t) \/ Poll(t) \/ PollAnswer(t)
               \/ PollStore(t) \/ Paired(t) \/ Launched(t) \/ Finish(t)
               \/ RedeemLock(t) \/ RedeemAnswer(t) \/ RedeemStore(t)
               \/ RedeemEnd(t) \/ SaveToken(t) \/ SaveAgain(t)
               \/ SaveProfile(t) \/ WriteProfile(t) \/ UndoToken(t)
               \/ PollFailed(t) \/ Cancel(t) \/ Canceled(t) \/ Reset(t)
               \/ ClearProfile(t) \/ ObserveLock(t) \/ ObserveCheck(t)
               \/ ObserveUpload(t)
         \/ Expire \/ Kill
  BY DEF Next, Invoked, Connect, Locked, Stored, Others, stores, bounds,
         Start, vars

LEMMA GenStep ==
  ASSUME TaskTyped, DeviceTyped, GenInv, [Next]_vars
  PROVE  GenInv'
<1>. SUFFICES ASSUME NEW d \in Tasks PROVE GenOf(d)'
  BY DEF GenInv
<1>a. GenOf(d)
  BY DEF GenInv
<1>0. /\ DOMAIN task = Tasks /\ \A x \in Tasks : DOMAIN task[x] =
          {"op", "pc", "serial", "ui", "gen", "answer", "seen"}
      /\ device.generation \in Nat /\ DOMAIN device = {"generation", "pending"}
      /\ \A x \in Tasks : task[x].gen \in Nat
  BY DEF TaskTyped, DeviceTyped
<1>. USE <1>0, <1>a DEF GenOf, Idle, Invalidated, NoDevice, Polled, bounds,
        stores, Current, Session
<1>1. ASSUME NEW t \in Tasks,
             StartConnect(t)
      PROVE  GenOf(d)'
  BY <1>1 DEF StartConnect, Start
<1>2. ASSUME NEW t \in Tasks,
             StartRedeem(t)
      PROVE  GenOf(d)'
  BY <1>2 DEF StartRedeem, Start
<1>3. ASSUME NEW t \in Tasks,
             StartCancel(t)
      PROVE  GenOf(d)'
  BY <1>3 DEF StartCancel, Start
<1>4. ASSUME NEW t \in Tasks,
             StartReset(t)
      PROVE  GenOf(d)'
  BY <1>4 DEF StartReset, Start
<1>5. ASSUME NEW t \in Tasks,
             StartObserve(t)
      PROVE  GenOf(d)'
  BY <1>5 DEF StartObserve, Start
<1>6. ASSUME NEW t \in Tasks,
             Begin(t)
      PROVE  GenOf(d)'
  BY <1>6 DEF Begin, At, Goto
<1>7. ASSUME NEW t \in Tasks,
             Issue(t)
      PROVE  GenOf(d)'
  BY <1>7 DEF Issue, At, Goto
<1>8. ASSUME NEW t \in Tasks,
             StoreSession(t)
      PROVE  GenOf(d)'
  BY <1>8 DEF StoreSession, At, Goto
<1>9. ASSUME NEW t \in Tasks,
             Issued(t)
      PROVE  GenOf(d)'
  BY <1>9 DEF Issued, At, Goto, End
<1>10. ASSUME NEW t \in Tasks,
             Poll(t)
      PROVE  GenOf(d)'
  BY <1>10 DEF Poll, At, Goto, End
<1>11. ASSUME NEW t \in Tasks,
             PollAnswer(t)
      PROVE  GenOf(d)'
  BY <1>11 DEF PollAnswer, At
<1>12. ASSUME NEW t \in Tasks,
             PollStore(t)
      PROVE  GenOf(d)'
  BY <1>12 DEF PollStore, At
<1>13. ASSUME NEW t \in Tasks,
             Paired(t)
      PROVE  GenOf(d)'
  BY <1>13 DEF Paired, At, Goto, End
<1>14. ASSUME NEW t \in Tasks,
             Launched(t)
      PROVE  GenOf(d)'
  BY <1>14 DEF Launched, At, Goto
<1>15. ASSUME NEW t \in Tasks,
             Finish(t)
      PROVE  GenOf(d)'
  BY <1>15 DEF Finish, At, Goto, End
<1>16. ASSUME NEW t \in Tasks,
             RedeemLock(t)
      PROVE  GenOf(d)'
  BY <1>16 DEF RedeemLock, At
<1>17. ASSUME NEW t \in Tasks,
             RedeemAnswer(t)
      PROVE  GenOf(d)'
  BY <1>17 DEF RedeemAnswer, At, Goto
<1>18. ASSUME NEW t \in Tasks,
             RedeemStore(t)
      PROVE  GenOf(d)'
  BY <1>18 DEF RedeemStore, At, Goto
<1>19. ASSUME NEW t \in Tasks,
             RedeemEnd(t)
      PROVE  GenOf(d)'
  BY <1>19 DEF RedeemEnd, At, End
<1>20. ASSUME NEW t \in Tasks,
             SaveToken(t)
      PROVE  GenOf(d)'
  BY <1>20 DEF SaveToken, Goto
<1>21. ASSUME NEW t \in Tasks,
             SaveAgain(t)
      PROVE  GenOf(d)'
  BY <1>21 DEF SaveAgain, Goto
<1>22. ASSUME NEW t \in Tasks,
             SaveProfile(t)
      PROVE  GenOf(d)'
  BY <1>22 DEF SaveProfile, Goto
<1>23. ASSUME NEW t \in Tasks,
             WriteProfile(t)
      PROVE  GenOf(d)'
  BY <1>23 DEF WriteProfile, Goto
<1>24. ASSUME NEW t \in Tasks,
             UndoToken(t)
      PROVE  GenOf(d)'
  BY <1>24 DEF UndoToken, Goto
<1>25. ASSUME NEW t \in Tasks,
             PollFailed(t)
      PROVE  GenOf(d)'
  BY <1>25 DEF PollFailed, At, Goto
<1>26. ASSUME NEW t \in Tasks,
             Cancel(t)
      PROVE  GenOf(d)'
  BY <1>26 DEF Cancel, Goto
<1>27. ASSUME NEW t \in Tasks,
             Canceled(t)
      PROVE  GenOf(d)'
  BY <1>27 DEF Canceled, Goto, End
<1>28. ASSUME NEW t \in Tasks,
             Reset(t)
      PROVE  GenOf(d)'
  BY <1>28 DEF Reset, At, Goto, End
<1>29. ASSUME NEW t \in Tasks,
             ClearProfile(t)
      PROVE  GenOf(d)'
  BY <1>29 DEF ClearProfile, End
<1>30. ASSUME NEW t \in Tasks,
             ObserveLock(t)
      PROVE  GenOf(d)'
  BY <1>30 DEF ObserveLock, At, End
<1>31. ASSUME NEW t \in Tasks,
             ObserveCheck(t)
      PROVE  GenOf(d)'
  BY <1>31 DEF ObserveCheck, At, Goto, End
<1>32. ASSUME NEW t \in Tasks,
             ObserveUpload(t)
      PROVE  GenOf(d)'
  BY <1>32 DEF ObserveUpload, At, End
<1>33. CASE Expire
  BY <1>33 DEF Expire
<1>34. CASE Kill
  BY <1>34 DEF Kill
<1>35. CASE UNCHANGED <<task, device, live>>
  BY <1>35
<1>. QED
  BY GenChange, <1>1, <1>2, <1>3, <1>4, <1>5, <1>6, <1>7, <1>8, <1>9, <1>10,
     <1>11, <1>12, <1>13, <1>14, <1>15, <1>16, <1>17, <1>18, <1>19, <1>20,
     <1>21, <1>22, <1>23, <1>24, <1>25, <1>26, <1>27, <1>28, <1>29, <1>30,
     <1>31, <1>32, <1>33, <1>34, <1>35

-----------------------------------------------------------------------------
(* What is stored where a completion or a check stands.                      *)

PlaceOf(d) ==
    /\ task[d].pc \in {"saveToken", "saveAgain", "saveProfile", "writeProfile"} =>
           live = task[d].serial
    /\ task[d].pc \in {"saveProfile", "writeProfile"} => token = task[d].serial
    /\ task[d].pc = "undo" => faults # 0
    /\ task[d].pc \in Watching => stores = task[d].seen
PlaceInv == \A d \in Tasks : PlaceOf(d)

\* What changes task, token, profile, live, faults.
LEMMA PlaceChange ==
  ASSUME [Next]_vars
  PROVE  \/ UNCHANGED <<task, token, profile, live, faults>>
         \/ \E t \in Tasks :
               \/ StartConnect(t) \/ StartRedeem(t) \/ StartCancel(t)
               \/ StartReset(t) \/ StartObserve(t) \/ Begin(t) \/ Issue(t)
               \/ StoreSession(t) \/ Issued(t) \/ Poll(t) \/ PollAnswer(t)
               \/ PollStore(t) \/ Paired(t) \/ Launched(t) \/ Finish(t)
               \/ RedeemLock(t) \/ RedeemAnswer(t) \/ RedeemStore(t)
               \/ RedeemEnd(t) \/ SaveToken(t) \/ SaveAgain(t)
               \/ SaveProfile(t) \/ WriteProfile(t) \/ UndoToken(t)
               \/ PollFailed(t) \/ Cancel(t) \/ Canceled(t) \/ Reset(t)
               \/ ClearProfile(t) \/ ObserveLock(t) \/ ObserveCheck(t)
               \/ ObserveUpload(t)
         \/ Kill
  BY DEF Next, Invoked, Connect, Locked, Stored, Others, stores, bounds,
         Expire, Start, vars

LEMMA PlaceStep ==
  ASSUME TaskTyped, DeviceTyped, BoundTyped, LockInv, GenInv, PlaceInv, [Next]_vars
  PROVE  PlaceInv'
<1>. SUFFICES ASSUME NEW d \in Tasks PROVE PlaceOf(d)'
  BY DEF PlaceInv
<1>a. PlaceOf(d)
  BY DEF PlaceInv
<1>0. /\ DOMAIN task = Tasks /\ \A x \in Tasks : DOMAIN task[x] =
          {"op", "pc", "serial", "ui", "gen", "answer", "seen"}
      /\ faults \in Nat
  BY DEF TaskTyped, BoundTyped
<1>. USE <1>0, <1>a DEF PlaceOf, Idle, Storing, Watching, bounds, stores
<1>1. ASSUME NEW t \in Tasks,
             StartConnect(t)
      PROVE  PlaceOf(d)'
  BY <1>1 DEF StartConnect, Start
<1>2. ASSUME NEW t \in Tasks,
             StartRedeem(t)
      PROVE  PlaceOf(d)'
  BY <1>2 DEF StartRedeem, Start
<1>3. ASSUME NEW t \in Tasks,
             StartCancel(t)
      PROVE  PlaceOf(d)'
  BY <1>3 DEF StartCancel, Start
<1>4. ASSUME NEW t \in Tasks,
             StartReset(t)
      PROVE  PlaceOf(d)'
  BY <1>4 DEF StartReset, Start
<1>5. ASSUME NEW t \in Tasks,
             StartObserve(t)
      PROVE  PlaceOf(d)'
  BY <1>5 DEF StartObserve, Start
<1>6. ASSUME NEW t \in Tasks,
             Begin(t)
      PROVE  PlaceOf(d)'
  BY <1>6 DEF Begin, At, Goto, CanWrite, Writing, Reading
<1>7. ASSUME NEW t \in Tasks,
             Issue(t)
      PROVE  PlaceOf(d)'
  BY <1>7 DEF Issue, At, Goto
<1>8. ASSUME NEW t \in Tasks,
             StoreSession(t)
      PROVE  PlaceOf(d)'
  BY <1>8 DEF StoreSession, At, Goto
<1>9. ASSUME NEW t \in Tasks,
             Issued(t)
      PROVE  PlaceOf(d)'
  BY <1>9 DEF Issued, At, Goto, End
<1>10. ASSUME NEW t \in Tasks,
             Poll(t)
      PROVE  PlaceOf(d)'
  BY <1>10 DEF Poll, At, Goto, End
<1>11. ASSUME NEW t \in Tasks,
             PollAnswer(t)
      PROVE  PlaceOf(d)'
  BY <1>11 DEF PollAnswer, At
<1>12. ASSUME NEW t \in Tasks,
             PollStore(t)
      PROVE  PlaceOf(d)'
  BY <1>12 DEF PollStore, At, CanWrite, Writing, Reading, GenInv, GenOf,
     DeviceTyped, Sessions, Session
<1>13. ASSUME NEW t \in Tasks,
             Paired(t)
      PROVE  PlaceOf(d)'
  BY <1>13 DEF Paired, At, Goto, End
<1>14. ASSUME NEW t \in Tasks,
             Launched(t)
      PROVE  PlaceOf(d)'
  BY <1>14 DEF Launched, At, Goto
<1>15. ASSUME NEW t \in Tasks,
             Finish(t)
      PROVE  PlaceOf(d)'
  BY <1>15 DEF Finish, At, Goto, End
<1>16. ASSUME NEW t \in Tasks,
             RedeemLock(t)
      PROVE  PlaceOf(d)'
  BY <1>16 DEF RedeemLock, At, CanWrite, Writing, Reading
<1>17. ASSUME NEW t \in Tasks,
             RedeemAnswer(t)
      PROVE  PlaceOf(d)'
  BY <1>17 DEF RedeemAnswer, At, Goto
<1>18. ASSUME NEW t \in Tasks,
             RedeemStore(t)
      PROVE  PlaceOf(d)'
  BY <1>18 DEF RedeemStore, At, Goto, CanWrite, Writing, Reading, GenInv,
     GenOf, Current
<1>19. ASSUME NEW t \in Tasks,
             RedeemEnd(t)
      PROVE  PlaceOf(d)'
  BY <1>19 DEF RedeemEnd, At, End
<1>20. ASSUME NEW t \in Tasks,
             SaveToken(t)
      PROVE  PlaceOf(d)'
  BY <1>20 DEF SaveToken, Goto, LockInv, LockOf, Fault
<1>21. ASSUME NEW t \in Tasks,
             SaveAgain(t)
      PROVE  PlaceOf(d)'
  BY <1>21 DEF SaveAgain, Goto, LockInv, LockOf, Fault
<1>22. ASSUME NEW t \in Tasks,
             SaveProfile(t)
      PROVE  PlaceOf(d)'
  BY <1>22 DEF SaveProfile, Goto, LockInv, LockOf, Fault
<1>23. ASSUME NEW t \in Tasks,
             WriteProfile(t)
      PROVE  PlaceOf(d)'
  BY <1>23 DEF WriteProfile, Goto, LockInv, LockOf, Fault
<1>24. ASSUME NEW t \in Tasks,
             UndoToken(t)
      PROVE  PlaceOf(d)'
  BY <1>24 DEF UndoToken, Goto, LockInv, LockOf, Fault
<1>25. ASSUME NEW t \in Tasks,
             PollFailed(t)
      PROVE  PlaceOf(d)'
  BY <1>25 DEF PollFailed, At, Goto
<1>26. ASSUME NEW t \in Tasks,
             Cancel(t)
      PROVE  PlaceOf(d)'
  BY <1>26 DEF Cancel, Goto, CanWrite, Writing, Reading
<1>27. ASSUME NEW t \in Tasks,
             Canceled(t)
      PROVE  PlaceOf(d)'
  BY <1>27 DEF Canceled, Goto, End
<1>28. ASSUME NEW t \in Tasks,
             Reset(t)
      PROVE  PlaceOf(d)'
  BY <1>28 DEF Reset, At, Goto, End, CanWrite, Writing, Reading
<1>29. ASSUME NEW t \in Tasks,
             ClearProfile(t)
      PROVE  PlaceOf(d)'
  BY <1>29 DEF ClearProfile, End, LockInv, LockOf, Fault
<1>30. ASSUME NEW t \in Tasks,
             ObserveLock(t)
      PROVE  PlaceOf(d)'
  BY <1>30 DEF ObserveLock, At, End
<1>31. ASSUME NEW t \in Tasks,
             ObserveCheck(t)
      PROVE  PlaceOf(d)'
  BY <1>31 DEF ObserveCheck, At, Goto, End
<1>32. ASSUME NEW t \in Tasks,
             ObserveUpload(t)
      PROVE  PlaceOf(d)'
  BY <1>32 DEF ObserveUpload, At, End
<1>33. CASE Kill
  BY <1>33 DEF Kill
<1>34. CASE UNCHANGED <<task, token, profile, live, faults>>
  BY <1>34
<1>. QED
  BY PlaceChange, <1>1, <1>2, <1>3, <1>4, <1>5, <1>6, <1>7, <1>8, <1>9, <1>10,
     <1>11, <1>12, <1>13, <1>14, <1>15, <1>16, <1>17, <1>18, <1>19, <1>20,
     <1>21, <1>22, <1>23, <1>24, <1>25, <1>26, <1>27, <1>28, <1>29, <1>30,
     <1>31, <1>32, <1>33, <1>34

-----------------------------------------------------------------------------
(* Token and profile.                                                        *)

Agreed == token = None \/ profile \in {None, Torn} \/ token = profile
Halfway(d) == task[d].pc \in {"saveProfile", "writeProfile", "undo"}
AgreeInv == cut \/ faults > 1 \/ (\E d \in Tasks : Halfway(d)) \/ Agreed

-----------------------------------------------------------------------------
(* The page.  Whatever made it look busy has a task that will reset it: the  *)
(* loop that is still the latest one, or a cancellation under way.           *)

KindOf(d) == task[d].pc = "clearProfile" => task[d].op = "reset"
KindInv == \A d \in Tasks : KindOf(d)

Closer(d) ==
    \/ task[d].pc \in {"cancel", "canceled"}
    \/ task[d].op = "connect" /\ task[d].pc # "idle" /\ Ours(d)
Redeems(d) == task[d].op = "redeem" /\ task[d].pc # "idle"
PageInv ==
    /\ ui.active \/ ui.shown => \E d \in Tasks : Closer(d)
    /\ ui.completing => \E d \in Tasks : Closer(d) /\ task[d].op = "connect"
    /\ ~ui.redeem => \E d \in Tasks : Closer(d) \/ Redeems(d)

LEMMA KindStep ==
  ASSUME TaskTyped, KindInv, [Next]_vars
  PROVE  KindInv'
<1>. SUFFICES ASSUME NEW d \in Tasks PROVE KindOf(d)'
  BY DEF KindInv
<1>a. KindOf(d)
  BY DEF KindInv
<1>0. /\ DOMAIN task = Tasks /\ \A x \in Tasks : DOMAIN task[x] =
          {"op", "pc", "serial", "ui", "gen", "answer", "seen"}
  BY DEF TaskTyped
<1>. USE <1>0, <1>a DEF KindOf, Idle
<1>1. ASSUME NEW t \in Tasks,
             StartConnect(t)
      PROVE  KindOf(d)'
  BY <1>1 DEF StartConnect, Start
<1>2. ASSUME NEW t \in Tasks,
             StartRedeem(t)
      PROVE  KindOf(d)'
  BY <1>2 DEF StartRedeem, Start
<1>3. ASSUME NEW t \in Tasks,
             StartCancel(t)
      PROVE  KindOf(d)'
  BY <1>3 DEF StartCancel, Start
<1>4. ASSUME NEW t \in Tasks,
             StartReset(t)
      PROVE  KindOf(d)'
  BY <1>4 DEF StartReset, Start
<1>5. ASSUME NEW t \in Tasks,
             StartObserve(t)
      PROVE  KindOf(d)'
  BY <1>5 DEF StartObserve, Start
<1>6. ASSUME NEW t \in Tasks,
             Begin(t)
      PROVE  KindOf(d)'
  BY <1>6 DEF Begin, At, Goto
<1>7. ASSUME NEW t \in Tasks,
             Issue(t)
      PROVE  KindOf(d)'
  BY <1>7 DEF Issue, At, Goto
<1>8. ASSUME NEW t \in Tasks,
             StoreSession(t)
      PROVE  KindOf(d)'
  BY <1>8 DEF StoreSession, At, Goto
<1>9. ASSUME NEW t \in Tasks,
             Issued(t)
      PROVE  KindOf(d)'
  BY <1>9 DEF Issued, At, Goto, End
<1>10. ASSUME NEW t \in Tasks,
             Poll(t)
      PROVE  KindOf(d)'
  BY <1>10 DEF Poll, At, Goto, End
<1>11. ASSUME NEW t \in Tasks,
             PollAnswer(t)
      PROVE  KindOf(d)'
  BY <1>11 DEF PollAnswer, At
<1>12. ASSUME NEW t \in Tasks,
             PollStore(t)
      PROVE  KindOf(d)'
  BY <1>12 DEF PollStore, At
<1>13. ASSUME NEW t \in Tasks,
             Paired(t)
      PROVE  KindOf(d)'
  BY <1>13 DEF Paired, At, Goto, End
<1>14. ASSUME NEW t \in Tasks,
             Launched(t)
      PROVE  KindOf(d)'
  BY <1>14 DEF Launched, At, Goto
<1>15. ASSUME NEW t \in Tasks,
             Finish(t)
      PROVE  KindOf(d)'
  BY <1>15 DEF Finish, At, Goto, End
<1>16. ASSUME NEW t \in Tasks,
             RedeemLock(t)
      PROVE  KindOf(d)'
  BY <1>16 DEF RedeemLock, At
<1>17. ASSUME NEW t \in Tasks,
             RedeemAnswer(t)
      PROVE  KindOf(d)'
  BY <1>17 DEF RedeemAnswer, At, Goto
<1>18. ASSUME NEW t \in Tasks,
             RedeemStore(t)
      PROVE  KindOf(d)'
  BY <1>18 DEF RedeemStore, At, Goto
<1>19. ASSUME NEW t \in Tasks,
             RedeemEnd(t)
      PROVE  KindOf(d)'
  BY <1>19 DEF RedeemEnd, At, End
<1>20. ASSUME NEW t \in Tasks,
             SaveToken(t)
      PROVE  KindOf(d)'
  BY <1>20 DEF SaveToken, Goto
<1>21. ASSUME NEW t \in Tasks,
             SaveAgain(t)
      PROVE  KindOf(d)'
  BY <1>21 DEF SaveAgain, Goto
<1>22. ASSUME NEW t \in Tasks,
             SaveProfile(t)
      PROVE  KindOf(d)'
  BY <1>22 DEF SaveProfile, Goto
<1>23. ASSUME NEW t \in Tasks,
             WriteProfile(t)
      PROVE  KindOf(d)'
  BY <1>23 DEF WriteProfile, Goto
<1>24. ASSUME NEW t \in Tasks,
             UndoToken(t)
      PROVE  KindOf(d)'
  BY <1>24 DEF UndoToken, Goto
<1>25. ASSUME NEW t \in Tasks,
             PollFailed(t)
      PROVE  KindOf(d)'
  BY <1>25 DEF PollFailed, At, Goto
<1>26. ASSUME NEW t \in Tasks,
             Cancel(t)
      PROVE  KindOf(d)'
  BY <1>26 DEF Cancel, Goto
<1>27. ASSUME NEW t \in Tasks,
             Canceled(t)
      PROVE  KindOf(d)'
  BY <1>27 DEF Canceled, Goto, End
<1>28. ASSUME NEW t \in Tasks,
             Reset(t)
      PROVE  KindOf(d)'
  BY <1>28 DEF Reset, At, Goto, End
<1>29. ASSUME NEW t \in Tasks,
             ClearProfile(t)
      PROVE  KindOf(d)'
  BY <1>29 DEF ClearProfile, End
<1>30. ASSUME NEW t \in Tasks,
             ObserveLock(t)
      PROVE  KindOf(d)'
  BY <1>30 DEF ObserveLock, At, End
<1>31. ASSUME NEW t \in Tasks,
             ObserveCheck(t)
      PROVE  KindOf(d)'
  BY <1>31 DEF ObserveCheck, At, Goto, End
<1>32. ASSUME NEW t \in Tasks,
             ObserveUpload(t)
      PROVE  KindOf(d)'
  BY <1>32 DEF ObserveUpload, At, End
<1>33. CASE Kill
  BY <1>33 DEF Kill
<1>34. CASE UNCHANGED <<task>>
  BY <1>34
<1>. QED
  BY TaskChange, <1>1, <1>2, <1>3, <1>4, <1>5, <1>6, <1>7, <1>8, <1>9, <1>10,
     <1>11, <1>12, <1>13, <1>14, <1>15, <1>16, <1>17, <1>18, <1>19, <1>20,
     <1>21, <1>22, <1>23, <1>24, <1>25, <1>26, <1>27, <1>28, <1>29, <1>30,
     <1>31, <1>32, <1>33, <1>34

\* A closer stays one until it has reset the page.
LEMMA CloserStays ==
  ASSUME NEW d \in Tasks, TaskTyped, KindInv, Closer(d), UNCHANGED ui.generation, [Next]_vars
  PROVE  \/ Closer(d)' /\ task'[d].op = task[d].op
         \/ Canceled(d)
         \/ Kill
<1>0. /\ DOMAIN task = Tasks /\ \A x \in Tasks : DOMAIN task[x] =
          {"op", "pc", "serial", "ui", "gen", "answer", "seen"}
  BY DEF TaskTyped
<1>. USE <1>0 DEF Closer, Ours, Idle, KindInv, KindOf
<1>1. ASSUME NEW t \in Tasks,
             StartConnect(t)
      PROVE  \/ Closer(d)' /\ task'[d].op = task[d].op
         \/ Canceled(d)
         \/ Kill
  BY <1>1 DEF StartConnect, Start
<1>2. ASSUME NEW t \in Tasks,
             StartRedeem(t)
      PROVE  \/ Closer(d)' /\ task'[d].op = task[d].op
         \/ Canceled(d)
         \/ Kill
  BY <1>2 DEF StartRedeem, Start
<1>3. ASSUME NEW t \in Tasks,
             StartCancel(t)
      PROVE  \/ Closer(d)' /\ task'[d].op = task[d].op
         \/ Canceled(d)
         \/ Kill
  BY <1>3 DEF StartCancel, Start
<1>4. ASSUME NEW t \in Tasks,
             StartReset(t)
      PROVE  \/ Closer(d)' /\ task'[d].op = task[d].op
         \/ Canceled(d)
         \/ Kill
  BY <1>4 DEF StartReset, Start
<1>5. ASSUME NEW t \in Tasks,
             StartObserve(t)
      PROVE  \/ Closer(d)' /\ task'[d].op = task[d].op
         \/ Canceled(d)
         \/ Kill
  BY <1>5 DEF StartObserve, Start
<1>6. ASSUME NEW t \in Tasks,
             Begin(t)
      PROVE  \/ Closer(d)' /\ task'[d].op = task[d].op
         \/ Canceled(d)
         \/ Kill
  BY <1>6 DEF Begin, At, Goto
<1>7. ASSUME NEW t \in Tasks,
             Issue(t)
      PROVE  \/ Closer(d)' /\ task'[d].op = task[d].op
         \/ Canceled(d)
         \/ Kill
  BY <1>7 DEF Issue, At, Goto
<1>8. ASSUME NEW t \in Tasks,
             StoreSession(t)
      PROVE  \/ Closer(d)' /\ task'[d].op = task[d].op
         \/ Canceled(d)
         \/ Kill
  BY <1>8 DEF StoreSession, At, Goto
<1>9. ASSUME NEW t \in Tasks,
             Issued(t)
      PROVE  \/ Closer(d)' /\ task'[d].op = task[d].op
         \/ Canceled(d)
         \/ Kill
  BY <1>9 DEF Issued, At, Goto, End
<1>10. ASSUME NEW t \in Tasks,
             Poll(t)
      PROVE  \/ Closer(d)' /\ task'[d].op = task[d].op
         \/ Canceled(d)
         \/ Kill
  BY <1>10 DEF Poll, At, Goto, End
<1>11. ASSUME NEW t \in Tasks,
             PollAnswer(t)
      PROVE  \/ Closer(d)' /\ task'[d].op = task[d].op
         \/ Canceled(d)
         \/ Kill
  BY <1>11 DEF PollAnswer, At
<1>12. ASSUME NEW t \in Tasks,
             PollStore(t)
      PROVE  \/ Closer(d)' /\ task'[d].op = task[d].op
         \/ Canceled(d)
         \/ Kill
  BY <1>12 DEF PollStore, At
<1>13. ASSUME NEW t \in Tasks,
             Paired(t)
      PROVE  \/ Closer(d)' /\ task'[d].op = task[d].op
         \/ Canceled(d)
         \/ Kill
  BY <1>13 DEF Paired, At, Goto, End
<1>14. ASSUME NEW t \in Tasks,
             Launched(t)
      PROVE  \/ Closer(d)' /\ task'[d].op = task[d].op
         \/ Canceled(d)
         \/ Kill
  BY <1>14 DEF Launched, At, Goto
<1>15. ASSUME NEW t \in Tasks,
             Finish(t)
      PROVE  \/ Closer(d)' /\ task'[d].op = task[d].op
         \/ Canceled(d)
         \/ Kill
  BY <1>15 DEF Finish, At, Goto, End
<1>16. ASSUME NEW t \in Tasks,
             RedeemLock(t)
      PROVE  \/ Closer(d)' /\ task'[d].op = task[d].op
         \/ Canceled(d)
         \/ Kill
  BY <1>16 DEF RedeemLock, At
<1>17. ASSUME NEW t \in Tasks,
             RedeemAnswer(t)
      PROVE  \/ Closer(d)' /\ task'[d].op = task[d].op
         \/ Canceled(d)
         \/ Kill
  BY <1>17 DEF RedeemAnswer, At, Goto
<1>18. ASSUME NEW t \in Tasks,
             RedeemStore(t)
      PROVE  \/ Closer(d)' /\ task'[d].op = task[d].op
         \/ Canceled(d)
         \/ Kill
  BY <1>18 DEF RedeemStore, At, Goto
<1>19. ASSUME NEW t \in Tasks,
             RedeemEnd(t)
      PROVE  \/ Closer(d)' /\ task'[d].op = task[d].op
         \/ Canceled(d)
         \/ Kill
  BY <1>19 DEF RedeemEnd, At, End
<1>20. ASSUME NEW t \in Tasks,
             SaveToken(t)
      PROVE  \/ Closer(d)' /\ task'[d].op = task[d].op
         \/ Canceled(d)
         \/ Kill
  BY <1>20 DEF SaveToken, Goto
<1>21. ASSUME NEW t \in Tasks,
             SaveAgain(t)
      PROVE  \/ Closer(d)' /\ task'[d].op = task[d].op
         \/ Canceled(d)
         \/ Kill
  BY <1>21 DEF SaveAgain, Goto
<1>22. ASSUME NEW t \in Tasks,
             SaveProfile(t)
      PROVE  \/ Closer(d)' /\ task'[d].op = task[d].op
         \/ Canceled(d)
         \/ Kill
  BY <1>22 DEF SaveProfile, Goto
<1>23. ASSUME NEW t \in Tasks,
             WriteProfile(t)
      PROVE  \/ Closer(d)' /\ task'[d].op = task[d].op
         \/ Canceled(d)
         \/ Kill
  BY <1>23 DEF WriteProfile, Goto
<1>24. ASSUME NEW t \in Tasks,
             UndoToken(t)
      PROVE  \/ Closer(d)' /\ task'[d].op = task[d].op
         \/ Canceled(d)
         \/ Kill
  BY <1>24 DEF UndoToken, Goto
<1>25. ASSUME NEW t \in Tasks,
             PollFailed(t)
      PROVE  \/ Closer(d)' /\ task'[d].op = task[d].op
         \/ Canceled(d)
         \/ Kill
  BY <1>25 DEF PollFailed, At, Goto
<1>26. ASSUME NEW t \in Tasks,
             Cancel(t)
      PROVE  \/ Closer(d)' /\ task'[d].op = task[d].op
         \/ Canceled(d)
         \/ Kill
  BY <1>26 DEF Cancel, Goto
<1>27. ASSUME NEW t \in Tasks,
             Canceled(t)
      PROVE  \/ Closer(d)' /\ task'[d].op = task[d].op
         \/ Canceled(d)
         \/ Kill
  BY <1>27 DEF Canceled, Goto, End
<1>28. ASSUME NEW t \in Tasks,
             Reset(t)
      PROVE  \/ Closer(d)' /\ task'[d].op = task[d].op
         \/ Canceled(d)
         \/ Kill
  BY <1>28 DEF Reset, At, Goto, End
<1>29. ASSUME NEW t \in Tasks,
             ClearProfile(t)
      PROVE  \/ Closer(d)' /\ task'[d].op = task[d].op
         \/ Canceled(d)
         \/ Kill
  BY <1>29 DEF ClearProfile, End
<1>30. ASSUME NEW t \in Tasks,
             ObserveLock(t)
      PROVE  \/ Closer(d)' /\ task'[d].op = task[d].op
         \/ Canceled(d)
         \/ Kill
  BY <1>30 DEF ObserveLock, At, End
<1>31. ASSUME NEW t \in Tasks,
             ObserveCheck(t)
      PROVE  \/ Closer(d)' /\ task'[d].op = task[d].op
         \/ Canceled(d)
         \/ Kill
  BY <1>31 DEF ObserveCheck, At, Goto, End
<1>32. ASSUME NEW t \in Tasks,
             ObserveUpload(t)
      PROVE  \/ Closer(d)' /\ task'[d].op = task[d].op
         \/ Canceled(d)
         \/ Kill
  BY <1>32 DEF ObserveUpload, At, End
<1>33. CASE Kill
  BY <1>33 DEF Kill
<1>34. CASE UNCHANGED <<task>>
  BY <1>34
<1>. QED
  BY TaskChange, <1>1, <1>2, <1>3, <1>4, <1>5, <1>6, <1>7, <1>8, <1>9, <1>10,
     <1>11, <1>12, <1>13, <1>14, <1>15, <1>16, <1>17, <1>18, <1>19, <1>20,
     <1>21, <1>22, <1>23, <1>24, <1>25, <1>26, <1>27, <1>28, <1>29, <1>30,
     <1>31, <1>32, <1>33, <1>34

\* A redeemed code comes back to the page.
LEMMA RedeemStays ==
  ASSUME NEW d \in Tasks, TaskTyped, KindInv, Redeems(d), [Next]_vars
  PROVE  \/ Redeems(d)'
         \/ RedeemEnd(d)
         \/ Canceled(d)
         \/ Kill
<1>0. /\ DOMAIN task = Tasks /\ \A x \in Tasks : DOMAIN task[x] =
          {"op", "pc", "serial", "ui", "gen", "answer", "seen"}
  BY DEF TaskTyped
<1>. USE <1>0 DEF Redeems, Idle, KindInv, KindOf
<1>1. ASSUME NEW t \in Tasks,
             StartConnect(t)
      PROVE  \/ Redeems(d)'
         \/ RedeemEnd(d)
         \/ Canceled(d)
         \/ Kill
  BY <1>1 DEF StartConnect, Start
<1>2. ASSUME NEW t \in Tasks,
             StartRedeem(t)
      PROVE  \/ Redeems(d)'
         \/ RedeemEnd(d)
         \/ Canceled(d)
         \/ Kill
  BY <1>2 DEF StartRedeem, Start
<1>3. ASSUME NEW t \in Tasks,
             StartCancel(t)
      PROVE  \/ Redeems(d)'
         \/ RedeemEnd(d)
         \/ Canceled(d)
         \/ Kill
  BY <1>3 DEF StartCancel, Start
<1>4. ASSUME NEW t \in Tasks,
             StartReset(t)
      PROVE  \/ Redeems(d)'
         \/ RedeemEnd(d)
         \/ Canceled(d)
         \/ Kill
  BY <1>4 DEF StartReset, Start
<1>5. ASSUME NEW t \in Tasks,
             StartObserve(t)
      PROVE  \/ Redeems(d)'
         \/ RedeemEnd(d)
         \/ Canceled(d)
         \/ Kill
  BY <1>5 DEF StartObserve, Start
<1>6. ASSUME NEW t \in Tasks,
             Begin(t)
      PROVE  \/ Redeems(d)'
         \/ RedeemEnd(d)
         \/ Canceled(d)
         \/ Kill
  BY <1>6 DEF Begin, At, Goto
<1>7. ASSUME NEW t \in Tasks,
             Issue(t)
      PROVE  \/ Redeems(d)'
         \/ RedeemEnd(d)
         \/ Canceled(d)
         \/ Kill
  BY <1>7 DEF Issue, At, Goto
<1>8. ASSUME NEW t \in Tasks,
             StoreSession(t)
      PROVE  \/ Redeems(d)'
         \/ RedeemEnd(d)
         \/ Canceled(d)
         \/ Kill
  BY <1>8 DEF StoreSession, At, Goto
<1>9. ASSUME NEW t \in Tasks,
             Issued(t)
      PROVE  \/ Redeems(d)'
         \/ RedeemEnd(d)
         \/ Canceled(d)
         \/ Kill
  BY <1>9 DEF Issued, At, Goto, End
<1>10. ASSUME NEW t \in Tasks,
             Poll(t)
      PROVE  \/ Redeems(d)'
         \/ RedeemEnd(d)
         \/ Canceled(d)
         \/ Kill
  BY <1>10 DEF Poll, At, Goto, End
<1>11. ASSUME NEW t \in Tasks,
             PollAnswer(t)
      PROVE  \/ Redeems(d)'
         \/ RedeemEnd(d)
         \/ Canceled(d)
         \/ Kill
  BY <1>11 DEF PollAnswer, At
<1>12. ASSUME NEW t \in Tasks,
             PollStore(t)
      PROVE  \/ Redeems(d)'
         \/ RedeemEnd(d)
         \/ Canceled(d)
         \/ Kill
  BY <1>12 DEF PollStore, At
<1>13. ASSUME NEW t \in Tasks,
             Paired(t)
      PROVE  \/ Redeems(d)'
         \/ RedeemEnd(d)
         \/ Canceled(d)
         \/ Kill
  BY <1>13 DEF Paired, At, Goto, End
<1>14. ASSUME NEW t \in Tasks,
             Launched(t)
      PROVE  \/ Redeems(d)'
         \/ RedeemEnd(d)
         \/ Canceled(d)
         \/ Kill
  BY <1>14 DEF Launched, At, Goto
<1>15. ASSUME NEW t \in Tasks,
             Finish(t)
      PROVE  \/ Redeems(d)'
         \/ RedeemEnd(d)
         \/ Canceled(d)
         \/ Kill
  BY <1>15 DEF Finish, At, Goto, End
<1>16. ASSUME NEW t \in Tasks,
             RedeemLock(t)
      PROVE  \/ Redeems(d)'
         \/ RedeemEnd(d)
         \/ Canceled(d)
         \/ Kill
  BY <1>16 DEF RedeemLock, At
<1>17. ASSUME NEW t \in Tasks,
             RedeemAnswer(t)
      PROVE  \/ Redeems(d)'
         \/ RedeemEnd(d)
         \/ Canceled(d)
         \/ Kill
  BY <1>17 DEF RedeemAnswer, At, Goto
<1>18. ASSUME NEW t \in Tasks,
             RedeemStore(t)
      PROVE  \/ Redeems(d)'
         \/ RedeemEnd(d)
         \/ Canceled(d)
         \/ Kill
  BY <1>18 DEF RedeemStore, At, Goto
<1>19. ASSUME NEW t \in Tasks,
             RedeemEnd(t)
      PROVE  \/ Redeems(d)'
         \/ RedeemEnd(d)
         \/ Canceled(d)
         \/ Kill
  BY <1>19 DEF RedeemEnd, At, End
<1>20. ASSUME NEW t \in Tasks,
             SaveToken(t)
      PROVE  \/ Redeems(d)'
         \/ RedeemEnd(d)
         \/ Canceled(d)
         \/ Kill
  BY <1>20 DEF SaveToken, Goto
<1>21. ASSUME NEW t \in Tasks,
             SaveAgain(t)
      PROVE  \/ Redeems(d)'
         \/ RedeemEnd(d)
         \/ Canceled(d)
         \/ Kill
  BY <1>21 DEF SaveAgain, Goto
<1>22. ASSUME NEW t \in Tasks,
             SaveProfile(t)
      PROVE  \/ Redeems(d)'
         \/ RedeemEnd(d)
         \/ Canceled(d)
         \/ Kill
  BY <1>22 DEF SaveProfile, Goto
<1>23. ASSUME NEW t \in Tasks,
             WriteProfile(t)
      PROVE  \/ Redeems(d)'
         \/ RedeemEnd(d)
         \/ Canceled(d)
         \/ Kill
  BY <1>23 DEF WriteProfile, Goto
<1>24. ASSUME NEW t \in Tasks,
             UndoToken(t)
      PROVE  \/ Redeems(d)'
         \/ RedeemEnd(d)
         \/ Canceled(d)
         \/ Kill
  BY <1>24 DEF UndoToken, Goto
<1>25. ASSUME NEW t \in Tasks,
             PollFailed(t)
      PROVE  \/ Redeems(d)'
         \/ RedeemEnd(d)
         \/ Canceled(d)
         \/ Kill
  BY <1>25 DEF PollFailed, At, Goto
<1>26. ASSUME NEW t \in Tasks,
             Cancel(t)
      PROVE  \/ Redeems(d)'
         \/ RedeemEnd(d)
         \/ Canceled(d)
         \/ Kill
  BY <1>26 DEF Cancel, Goto
<1>27. ASSUME NEW t \in Tasks,
             Canceled(t)
      PROVE  \/ Redeems(d)'
         \/ RedeemEnd(d)
         \/ Canceled(d)
         \/ Kill
  BY <1>27 DEF Canceled, Goto, End
<1>28. ASSUME NEW t \in Tasks,
             Reset(t)
      PROVE  \/ Redeems(d)'
         \/ RedeemEnd(d)
         \/ Canceled(d)
         \/ Kill
  BY <1>28 DEF Reset, At, Goto, End
<1>29. ASSUME NEW t \in Tasks,
             ClearProfile(t)
      PROVE  \/ Redeems(d)'
         \/ RedeemEnd(d)
         \/ Canceled(d)
         \/ Kill
  BY <1>29 DEF ClearProfile, End
<1>30. ASSUME NEW t \in Tasks,
             ObserveLock(t)
      PROVE  \/ Redeems(d)'
         \/ RedeemEnd(d)
         \/ Canceled(d)
         \/ Kill
  BY <1>30 DEF ObserveLock, At, End
<1>31. ASSUME NEW t \in Tasks,
             ObserveCheck(t)
      PROVE  \/ Redeems(d)'
         \/ RedeemEnd(d)
         \/ Canceled(d)
         \/ Kill
  BY <1>31 DEF ObserveCheck, At, Goto, End
<1>32. ASSUME NEW t \in Tasks,
             ObserveUpload(t)
      PROVE  \/ Redeems(d)'
         \/ RedeemEnd(d)
         \/ Canceled(d)
         \/ Kill
  BY <1>32 DEF ObserveUpload, At, End
<1>33. CASE Kill
  BY <1>33 DEF Kill
<1>34. CASE UNCHANGED <<task>>
  BY <1>34
<1>. QED
  BY TaskChange, <1>1, <1>2, <1>3, <1>4, <1>5, <1>6, <1>7, <1>8, <1>9, <1>10,
     <1>11, <1>12, <1>13, <1>14, <1>15, <1>16, <1>17, <1>18, <1>19, <1>20,
     <1>21, <1>22, <1>23, <1>24, <1>25, <1>26, <1>27, <1>28, <1>29, <1>30,
     <1>31, <1>32, <1>33, <1>34

LEMMA PageStep ==
  ASSUME TaskTyped, UiTyped, KindInv, PageInv, [Next]_vars
  PROVE  PageInv'
<1>. DEFINE Same == ui'.generation = ui.generation
<1>a. ASSUME Same, ui.completing, ui'.completing, ~Kill
      PROVE  \E d \in Tasks : Closer(d)' /\ task'[d].op = "connect"
  <2>1. PICK d \in Tasks : Closer(d) /\ task[d].op = "connect"
    BY <1>a DEF PageInv
  <2>2. ~Canceled(d)
    BY <1>a, <2>1 DEF Canceled, UiTyped
  <2>. QED
    BY <1>a, <2>1, <2>2, CloserStays
<1>b. ASSUME Same, ~Kill, (ui.active /\ ui'.active) \/ (ui.shown /\ ui'.shown)
      PROVE  \E d \in Tasks : Closer(d)'
  <2>1. PICK d \in Tasks : Closer(d)
    BY <1>b DEF PageInv
  <2>2. ~Canceled(d)
    BY <1>b DEF Canceled, UiTyped
  <2>. QED
    BY <1>b, <2>1, <2>2, CloserStays
<1>c. ASSUME Same, ~Kill, ~ui.redeem, ~ui'.redeem
      PROVE  \E d \in Tasks : Closer(d)' \/ Redeems(d)'
  <2>1. PICK d \in Tasks : Closer(d) \/ Redeems(d)
    BY <1>c DEF PageInv
  <2>2. ~Canceled(d) /\ ~RedeemEnd(d)
    BY <1>c DEF Canceled, RedeemEnd, UiTyped
  <2>. QED
    BY <1>c, <2>1, <2>2, CloserStays, RedeemStays
<1>0. DOMAIN task = Tasks /\ \A x \in Tasks : DOMAIN task[x] =
          {"op", "pc", "serial", "ui", "gen", "answer", "seen"}
  BY DEF TaskTyped
<1>. USE DEF Idle, UiTyped
<1>1. ASSUME NEW t \in Tasks, StartConnect(t) PROVE PageInv'
  <2>1. Closer(t)' /\ task'[t].op = "connect"
    BY <1>0, <1>1 DEF StartConnect, Start, Closer, Ours
  <2>. QED
    BY <2>1 DEF PageInv
<1>2. ASSUME NEW t \in Tasks, StartRedeem(t) PROVE PageInv'
  <2>1. Redeems(t)'
    BY <1>0, <1>2 DEF StartRedeem, Start, Redeems
  <2>2. Same /\ ~Kill /\ ui'.active = ui.active /\ ui'.shown = ui.shown
             /\ ui'.completing = ui.completing
    BY <1>2, <2>1 DEF StartRedeem, Kill, Redeems
  <2>. QED
    BY <1>a, <1>b, <2>1, <2>2 DEF PageInv
<1>3. ASSUME NEW t \in Tasks, StartCancel(t) PROVE PageInv'
  <2>1. Closer(t)' /\ ~ui'.completing
    BY <1>0, <1>3 DEF StartCancel, Start, Closer
  <2>. QED
    BY <2>1 DEF PageInv
<1>4. ASSUME NEW t \in Tasks, StartReset(t) PROVE PageInv'
  <2>1. ~ui'.completing
    BY <1>4 DEF StartReset
  <2>2. CASE ui.active
    <3>1. Closer(t)'
      BY <1>0, <1>4, <2>2 DEF StartReset, Start, Closer
    <3>. QED
      BY <2>1, <3>1 DEF PageInv
  <2>3. CASE ~ui.active
    <3>1. ui' = ui /\ task'[t].pc = "reset"
      BY <1>0, <1>4, <2>3 DEF StartReset, Start
    <3>2. ~Kill
      BY <3>1 DEF Kill
    <3>. QED
      BY <1>b, <1>c, <2>1, <3>1, <3>2 DEF PageInv
  <2>. QED
    BY <2>2, <2>3
<1>5. ASSUME NEW t \in Tasks, Issued(t) \/ Paired(t) PROVE PageInv'
  <2>1. CASE UNCHANGED ui /\ ~Kill
    BY <1>a, <1>b, <1>c, <2>1 DEF PageInv
  <2>2. CASE Kill
    BY <2>2 DEF Kill, NoUi, PageInv
  <2>3. CASE Ours(t) /\ Closer(t)' /\ task'[t].op = "connect"
    BY <2>3 DEF PageInv
  <2>4. Ours(t) => Closer(t)' /\ task'[t].op = "connect"
    <3>1. Ours(t) => /\ UNCHANGED ui.generation
                     /\ task' = [task EXCEPT ![t].pc = "wait"]
                        \/ task' = [task EXCEPT ![t].pc = "launch"]
      BY <1>5 DEF Issued, Paired, Goto
    <3>2. task[t].op = "connect"
      BY <1>5 DEF Issued, Paired, At
    <3>. QED
      BY <1>0, <3>1, <3>2 DEF Closer, Ours
  <2>5. ~Ours(t) => UNCHANGED ui
    BY <1>5 DEF Issued, Paired
  <2>. QED
    BY <2>1, <2>2, <2>3, <2>4, <2>5
<1>6. ASSUME NEW t \in Tasks, RedeemEnd(t) PROVE PageInv'
  <2>1. Same /\ ui'.redeem /\ ui'.active = ui.active /\ ui'.shown = ui.shown
             /\ ui'.completing = ui.completing
    BY <1>6 DEF RedeemEnd
  <2>2. CASE ~Kill
    BY <1>a, <1>b, <2>1, <2>2 DEF PageInv
  <2>3. CASE Kill
    BY <2>3 DEF Kill, NoUi, PageInv
  <2>. QED
    BY <2>2, <2>3
<1>7. ASSUME NEW t \in Tasks, Canceled(t) PROVE PageInv'
  <2>1. Same /\ ~ui'.active /\ ~ui'.shown /\ ui'.redeem
             /\ (ui'.completing => ui.completing)
    BY <1>7 DEF Canceled
  <2>2. CASE ~Kill
    BY <1>a, <2>1, <2>2 DEF PageInv
  <2>3. CASE Kill
    BY <2>3 DEF Kill, NoUi, PageInv
  <2>. QED
    BY <2>2, <2>3
<1>8. CASE Kill
  BY <1>8 DEF Kill, NoUi, PageInv
<1>9. CASE UNCHANGED ui /\ ~Kill
  BY <1>a, <1>b, <1>c, <1>9 DEF PageInv
<1>. QED
  BY UiChange, <1>1, <1>2, <1>3, <1>4, <1>5, <1>6, <1>7, <1>8, <1>9

-----------------------------------------------------------------------------
(* A session is polled by the one loop that made it.                         *)

UniqueOf(d) == \A e \in Tasks : task[d].gen # 0 /\ task[e].gen = task[d].gen => d = e
UniqueInv == \A d \in Tasks : UniqueOf(d)
FlightOf(d) ==
    /\ task[d].op = "connect"
    /\ task[d].pc \notin {"idle", "polling", "answered"}
    /\ Session(d)
    => ~device.pending.inFlight
FlightInv == \A d \in Tasks : FlightOf(d)

LEMMA UniqueStep ==
  ASSUME TaskTyped, DeviceTyped, GenInv, UniqueInv, [Next]_vars
  PROVE  UniqueInv'
<1>. SUFFICES ASSUME NEW d \in Tasks PROVE UniqueOf(d)'
  BY DEF UniqueInv
<1>a. UniqueOf(d)
  BY DEF UniqueInv
<1>0. /\ DOMAIN task = Tasks /\ \A x \in Tasks : DOMAIN task[x] =
          {"op", "pc", "serial", "ui", "gen", "answer", "seen"}
      /\ device.generation \in Nat /\ DOMAIN device = {"generation", "pending"}
      /\ \A x \in Tasks : task[x].gen \in 0 .. device.generation
  BY DEF TaskTyped, DeviceTyped, GenInv, GenOf
<1>. USE <1>0, <1>a DEF UniqueOf, Idle, Invalidated, NoDevice
<1>1. ASSUME NEW t \in Tasks,
             StartConnect(t)
      PROVE  UniqueOf(d)'
  BY <1>1 DEF StartConnect, Start
<1>2. ASSUME NEW t \in Tasks,
             StartRedeem(t)
      PROVE  UniqueOf(d)'
  BY <1>2 DEF StartRedeem, Start
<1>3. ASSUME NEW t \in Tasks,
             StartCancel(t)
      PROVE  UniqueOf(d)'
  BY <1>3 DEF StartCancel, Start
<1>4. ASSUME NEW t \in Tasks,
             StartReset(t)
      PROVE  UniqueOf(d)'
  BY <1>4 DEF StartReset, Start
<1>5. ASSUME NEW t \in Tasks,
             StartObserve(t)
      PROVE  UniqueOf(d)'
  BY <1>5 DEF StartObserve, Start
<1>6. ASSUME NEW t \in Tasks,
             Begin(t)
      PROVE  UniqueOf(d)'
  BY <1>6 DEF Begin, At, Goto
<1>7. ASSUME NEW t \in Tasks,
             Issue(t)
      PROVE  UniqueOf(d)'
  BY <1>7 DEF Issue, At, Goto
<1>8. ASSUME NEW t \in Tasks,
             StoreSession(t)
      PROVE  UniqueOf(d)'
  BY <1>8 DEF StoreSession, At, Goto
<1>9. ASSUME NEW t \in Tasks,
             Issued(t)
      PROVE  UniqueOf(d)'
  BY <1>9 DEF Issued, At, Goto, End
<1>10. ASSUME NEW t \in Tasks,
             Poll(t)
      PROVE  UniqueOf(d)'
  BY <1>10 DEF Poll, At, Goto, End
<1>11. ASSUME NEW t \in Tasks,
             PollAnswer(t)
      PROVE  UniqueOf(d)'
  BY <1>11 DEF PollAnswer, At
<1>12. ASSUME NEW t \in Tasks,
             PollStore(t)
      PROVE  UniqueOf(d)'
  BY <1>12 DEF PollStore, At
<1>13. ASSUME NEW t \in Tasks,
             Paired(t)
      PROVE  UniqueOf(d)'
  BY <1>13 DEF Paired, At, Goto, End
<1>14. ASSUME NEW t \in Tasks,
             Launched(t)
      PROVE  UniqueOf(d)'
  BY <1>14 DEF Launched, At, Goto
<1>15. ASSUME NEW t \in Tasks,
             Finish(t)
      PROVE  UniqueOf(d)'
  BY <1>15 DEF Finish, At, Goto, End
<1>16. ASSUME NEW t \in Tasks,
             RedeemLock(t)
      PROVE  UniqueOf(d)'
  BY <1>16 DEF RedeemLock, At
<1>17. ASSUME NEW t \in Tasks,
             RedeemAnswer(t)
      PROVE  UniqueOf(d)'
  BY <1>17 DEF RedeemAnswer, At, Goto
<1>18. ASSUME NEW t \in Tasks,
             RedeemStore(t)
      PROVE  UniqueOf(d)'
  BY <1>18 DEF RedeemStore, At, Goto
<1>19. ASSUME NEW t \in Tasks,
             RedeemEnd(t)
      PROVE  UniqueOf(d)'
  BY <1>19 DEF RedeemEnd, At, End
<1>20. ASSUME NEW t \in Tasks,
             SaveToken(t)
      PROVE  UniqueOf(d)'
  BY <1>20 DEF SaveToken, Goto
<1>21. ASSUME NEW t \in Tasks,
             SaveAgain(t)
      PROVE  UniqueOf(d)'
  BY <1>21 DEF SaveAgain, Goto
<1>22. ASSUME NEW t \in Tasks,
             SaveProfile(t)
      PROVE  UniqueOf(d)'
  BY <1>22 DEF SaveProfile, Goto
<1>23. ASSUME NEW t \in Tasks,
             WriteProfile(t)
      PROVE  UniqueOf(d)'
  BY <1>23 DEF WriteProfile, Goto
<1>24. ASSUME NEW t \in Tasks,
             UndoToken(t)
      PROVE  UniqueOf(d)'
  BY <1>24 DEF UndoToken, Goto
<1>25. ASSUME NEW t \in Tasks,
             PollFailed(t)
      PROVE  UniqueOf(d)'
  BY <1>25 DEF PollFailed, At, Goto
<1>26. ASSUME NEW t \in Tasks,
             Cancel(t)
      PROVE  UniqueOf(d)'
  BY <1>26 DEF Cancel, Goto
<1>27. ASSUME NEW t \in Tasks,
             Canceled(t)
      PROVE  UniqueOf(d)'
  BY <1>27 DEF Canceled, Goto, End
<1>28. ASSUME NEW t \in Tasks,
             Reset(t)
      PROVE  UniqueOf(d)'
  BY <1>28 DEF Reset, At, Goto, End
<1>29. ASSUME NEW t \in Tasks,
             ClearProfile(t)
      PROVE  UniqueOf(d)'
  BY <1>29 DEF ClearProfile, End
<1>30. ASSUME NEW t \in Tasks,
             ObserveLock(t)
      PROVE  UniqueOf(d)'
  BY <1>30 DEF ObserveLock, At, End
<1>31. ASSUME NEW t \in Tasks,
             ObserveCheck(t)
      PROVE  UniqueOf(d)'
  BY <1>31 DEF ObserveCheck, At, Goto, End
<1>32. ASSUME NEW t \in Tasks,
             ObserveUpload(t)
      PROVE  UniqueOf(d)'
  BY <1>32 DEF ObserveUpload, At, End
<1>33. CASE Expire
  BY <1>33 DEF Expire
<1>34. CASE Kill
  BY <1>34 DEF Kill
<1>35. CASE UNCHANGED <<task, device, live>>
  BY <1>35
<1>. QED
  BY GenChange, <1>1, <1>2, <1>3, <1>4, <1>5, <1>6, <1>7, <1>8, <1>9, <1>10,
     <1>11, <1>12, <1>13, <1>14, <1>15, <1>16, <1>17, <1>18, <1>19, <1>20,
     <1>21, <1>22, <1>23, <1>24, <1>25, <1>26, <1>27, <1>28, <1>29, <1>30,
     <1>31, <1>32, <1>33, <1>34, <1>35

LEMMA FlightStep ==
  ASSUME TaskTyped, DeviceTyped, GenInv, UniqueInv, FlightInv, [Next]_vars
  PROVE  FlightInv'
<1>. SUFFICES ASSUME NEW d \in Tasks PROVE FlightOf(d)'
  BY DEF FlightInv
<1>a. FlightOf(d)
  BY DEF FlightInv
<1>0. /\ DOMAIN task = Tasks /\ \A x \in Tasks : DOMAIN task[x] =
          {"op", "pc", "serial", "ui", "gen", "answer", "seen"}
      /\ device.generation \in Nat /\ DOMAIN device = {"generation", "pending"}
      /\ \A x \in Tasks : task[x].gen \in 0 .. device.generation
      /\ device.pending \in Sessions \union {None}
      /\ device.pending # None => device.pending \in Sessions
      /\ \A e \in Tasks : task[d].gen # 0 /\ task[e].gen = task[d].gen => d = e
  BY DEF TaskTyped, DeviceTyped, GenInv, GenOf, UniqueInv, UniqueOf
<1>. USE <1>0, <1>a DEF FlightOf, Session, Idle, Invalidated, NoDevice,
        Polled, NewSession
<1>1. ASSUME NEW t \in Tasks,
             StartConnect(t)
      PROVE  FlightOf(d)'
  <2>1. device.pending # None => device.pending.gen # 0
    BY DEF Sessions
  <2>2. d = t => task'[d].gen = 0
    BY <1>1 DEF StartConnect, Start
  <2>. QED
    BY <1>1, <2>1, <2>2 DEF StartConnect, Start
<1>2. ASSUME NEW t \in Tasks,
             StartRedeem(t)
      PROVE  FlightOf(d)'
  BY <1>2 DEF StartRedeem, Start
<1>3. ASSUME NEW t \in Tasks,
             StartCancel(t)
      PROVE  FlightOf(d)'
  BY <1>3 DEF StartCancel, Start
<1>4. ASSUME NEW t \in Tasks,
             StartReset(t)
      PROVE  FlightOf(d)'
  BY <1>4 DEF StartReset, Start
<1>5. ASSUME NEW t \in Tasks,
             StartObserve(t)
      PROVE  FlightOf(d)'
  BY <1>5 DEF StartObserve, Start
<1>6. ASSUME NEW t \in Tasks,
             Begin(t)
      PROVE  FlightOf(d)'
  BY <1>6 DEF Begin, At, Goto
<1>7. ASSUME NEW t \in Tasks,
             Issue(t)
      PROVE  FlightOf(d)'
  BY <1>7 DEF Issue, At, Goto
<1>8. ASSUME NEW t \in Tasks,
             StoreSession(t)
      PROVE  FlightOf(d)'
  BY <1>8 DEF StoreSession, At, Goto
<1>9. ASSUME NEW t \in Tasks,
             Issued(t)
      PROVE  FlightOf(d)'
  BY <1>9 DEF Issued, At, Goto, End
<1>10. ASSUME NEW t \in Tasks,
             Poll(t)
      PROVE  FlightOf(d)'
  <2>1. d = t \/ task'[d] = task[d]
    BY <1>10 DEF Poll, Goto, End
  <2>2. device.pending # None => device.pending.gen # 0
    BY DEF Sessions
  <2>3. \/ device' = device \/ device' = [device EXCEPT !.pending = None]
        \/ /\ Session(t)
           /\ device' = [device EXCEPT !.pending.inFlight = TRUE]
           /\ task' = [task EXCEPT ![t].pc = "polling"]
    BY <1>10 DEF Poll, Goto, End, Session
  <2>4. device' = [device EXCEPT !.pending.inFlight = TRUE] /\ device.pending # None
          => device'.pending.gen = device.pending.gen
    BY DEF Sessions
  <2>5. CASE d = t
    BY <1>10, <2>2, <2>5 DEF Poll, Goto, End
  <2>6. CASE d # t
    BY <2>1, <2>2, <2>3, <2>4, <2>6
  <2>. QED
    BY <2>5, <2>6
<1>11. ASSUME NEW t \in Tasks,
             PollAnswer(t)
      PROVE  FlightOf(d)'
  BY <1>11 DEF PollAnswer, At
<1>12. ASSUME NEW t \in Tasks,
             PollStore(t)
      PROVE  FlightOf(d)'
  <2>1. d = t \/ task'[d] = task[d]
    BY <1>12 DEF PollStore
  <2>2. device.pending \in Sessions /\ device' = [device EXCEPT !.pending.inFlight = FALSE]
          => ~device'.pending.inFlight
    BY DEF Sessions
  <2>3. \/ device' = device /\ ~Session(t) /\ task'[t].gen = task[t].gen
        \/ device' = [device EXCEPT !.pending = None]
        \/ device.pending # None /\ device' = [device EXCEPT !.pending.inFlight = FALSE]
    BY <1>12 DEF PollStore, Session, Polled
  <2>. QED
    BY <2>1, <2>2, <2>3
<1>13. ASSUME NEW t \in Tasks,
             Paired(t)
      PROVE  FlightOf(d)'
  BY <1>13 DEF Paired, At, Goto, End
<1>14. ASSUME NEW t \in Tasks,
             Launched(t)
      PROVE  FlightOf(d)'
  BY <1>14 DEF Launched, At, Goto
<1>15. ASSUME NEW t \in Tasks,
             Finish(t)
      PROVE  FlightOf(d)'
  BY <1>15 DEF Finish, At, Goto, End
<1>16. ASSUME NEW t \in Tasks,
             RedeemLock(t)
      PROVE  FlightOf(d)'
  BY <1>16 DEF RedeemLock, At
<1>17. ASSUME NEW t \in Tasks,
             RedeemAnswer(t)
      PROVE  FlightOf(d)'
  BY <1>17 DEF RedeemAnswer, At, Goto
<1>18. ASSUME NEW t \in Tasks,
             RedeemStore(t)
      PROVE  FlightOf(d)'
  BY <1>18 DEF RedeemStore, At, Goto
<1>19. ASSUME NEW t \in Tasks,
             RedeemEnd(t)
      PROVE  FlightOf(d)'
  BY <1>19 DEF RedeemEnd, At, End
<1>20. ASSUME NEW t \in Tasks,
             SaveToken(t)
      PROVE  FlightOf(d)'
  BY <1>20 DEF SaveToken, Goto
<1>21. ASSUME NEW t \in Tasks,
             SaveAgain(t)
      PROVE  FlightOf(d)'
  BY <1>21 DEF SaveAgain, Goto
<1>22. ASSUME NEW t \in Tasks,
             SaveProfile(t)
      PROVE  FlightOf(d)'
  BY <1>22 DEF SaveProfile, Goto
<1>23. ASSUME NEW t \in Tasks,
             WriteProfile(t)
      PROVE  FlightOf(d)'
  BY <1>23 DEF WriteProfile, Goto
<1>24. ASSUME NEW t \in Tasks,
             UndoToken(t)
      PROVE  FlightOf(d)'
  BY <1>24 DEF UndoToken, Goto
<1>25. ASSUME NEW t \in Tasks,
             PollFailed(t)
      PROVE  FlightOf(d)'
  BY <1>25 DEF PollFailed, At, Goto
<1>26. ASSUME NEW t \in Tasks,
             Cancel(t)
      PROVE  FlightOf(d)'
  BY <1>26 DEF Cancel, Goto
<1>27. ASSUME NEW t \in Tasks,
             Canceled(t)
      PROVE  FlightOf(d)'
  BY <1>27 DEF Canceled, Goto, End
<1>28. ASSUME NEW t \in Tasks,
             Reset(t)
      PROVE  FlightOf(d)'
  BY <1>28 DEF Reset, At, Goto, End
<1>29. ASSUME NEW t \in Tasks,
             ClearProfile(t)
      PROVE  FlightOf(d)'
  BY <1>29 DEF ClearProfile, End
<1>30. ASSUME NEW t \in Tasks,
             ObserveLock(t)
      PROVE  FlightOf(d)'
  BY <1>30 DEF ObserveLock, At, End
<1>31. ASSUME NEW t \in Tasks,
             ObserveCheck(t)
      PROVE  FlightOf(d)'
  BY <1>31 DEF ObserveCheck, At, Goto, End
<1>32. ASSUME NEW t \in Tasks,
             ObserveUpload(t)
      PROVE  FlightOf(d)'
  BY <1>32 DEF ObserveUpload, At, End
<1>33. CASE Expire
  <2>1. device.pending # None /\ device' = [device EXCEPT !.pending.expired = TRUE]
    BY <1>33 DEF Expire
  <2>2. /\ device'.pending.inFlight = device.pending.inFlight
        /\ device'.pending.gen = device.pending.gen
    BY <2>1 DEF Sessions
  <2>3. task' = task
    BY <1>33 DEF Expire
  <2>. QED
    BY <2>1, <2>2, <2>3
<1>34. CASE Kill
  BY <1>34 DEF Kill
<1>35. CASE UNCHANGED <<task, device, live>>
  BY <1>35
<1>. QED
  BY GenChange, <1>1, <1>2, <1>3, <1>4, <1>5, <1>6, <1>7, <1>8, <1>9, <1>10,
     <1>11, <1>12, <1>13, <1>14, <1>15, <1>16, <1>17, <1>18, <1>19, <1>20,
     <1>21, <1>22, <1>23, <1>24, <1>25, <1>26, <1>27, <1>28, <1>29, <1>30,
     <1>31, <1>32, <1>33, <1>34, <1>35

\* What changes task, token, profile, faults, cut.
LEMMA AgreeChange ==
  ASSUME [Next]_vars
  PROVE  \/ UNCHANGED <<task, token, profile, faults, cut>>
         \/ \E t \in Tasks :
               \/ StartConnect(t) \/ StartRedeem(t) \/ StartCancel(t)
               \/ StartReset(t) \/ StartObserve(t) \/ Begin(t) \/ Issue(t)
               \/ StoreSession(t) \/ Issued(t) \/ Poll(t) \/ PollAnswer(t)
               \/ PollStore(t) \/ Paired(t) \/ Launched(t) \/ Finish(t)
               \/ RedeemLock(t) \/ RedeemAnswer(t) \/ RedeemStore(t)
               \/ RedeemEnd(t) \/ SaveToken(t) \/ SaveAgain(t)
               \/ SaveProfile(t) \/ WriteProfile(t) \/ UndoToken(t)
               \/ PollFailed(t) \/ Cancel(t) \/ Canceled(t) \/ Reset(t)
               \/ ClearProfile(t) \/ ObserveLock(t) \/ ObserveCheck(t)
               \/ ObserveUpload(t)
         \/ Kill
  BY DEF Next, Invoked, Connect, Locked, Stored, Others, stores, bounds,
         Expire, Start, vars

LEMMA AgreeStep ==
  ASSUME TaskTyped, BoundTyped, LockInv, PlaceInv, AgreeInv, [Next]_vars
  PROVE  AgreeInv'
<1>0. /\ DOMAIN task = Tasks /\ \A x \in Tasks : DOMAIN task[x] =
          {"op", "pc", "serial", "ui", "gen", "answer", "seen"}
      /\ faults \in Nat
  BY DEF TaskTyped, BoundTyped
<1>. USE <1>0 DEF AgreeInv, Agreed, Halfway, Storing, Watching, Idle, stores,
        bounds
<1>1. ASSUME NEW t \in Tasks,
             StartConnect(t)
      PROVE  AgreeInv'
  BY <1>1 DEF StartConnect, Start
<1>2. ASSUME NEW t \in Tasks,
             StartRedeem(t)
      PROVE  AgreeInv'
  BY <1>2 DEF StartRedeem, Start
<1>3. ASSUME NEW t \in Tasks,
             StartCancel(t)
      PROVE  AgreeInv'
  BY <1>3 DEF StartCancel, Start
<1>4. ASSUME NEW t \in Tasks,
             StartReset(t)
      PROVE  AgreeInv'
  BY <1>4 DEF StartReset, Start
<1>5. ASSUME NEW t \in Tasks,
             StartObserve(t)
      PROVE  AgreeInv'
  BY <1>5 DEF StartObserve, Start
<1>6. ASSUME NEW t \in Tasks,
             Begin(t)
      PROVE  AgreeInv'
  BY <1>6 DEF Begin, At, Goto
<1>7. ASSUME NEW t \in Tasks,
             Issue(t)
      PROVE  AgreeInv'
  BY <1>7 DEF Issue, At, Goto
<1>8. ASSUME NEW t \in Tasks,
             StoreSession(t)
      PROVE  AgreeInv'
  BY <1>8 DEF StoreSession, At, Goto
<1>9. ASSUME NEW t \in Tasks,
             Issued(t)
      PROVE  AgreeInv'
  BY <1>9 DEF Issued, At, Goto, End
<1>10. ASSUME NEW t \in Tasks,
             Poll(t)
      PROVE  AgreeInv'
  BY <1>10 DEF Poll, At, Goto, End
<1>11. ASSUME NEW t \in Tasks,
             PollAnswer(t)
      PROVE  AgreeInv'
  BY <1>11 DEF PollAnswer, At
<1>12. ASSUME NEW t \in Tasks,
             PollStore(t)
      PROVE  AgreeInv'
  BY <1>12 DEF PollStore, At
<1>13. ASSUME NEW t \in Tasks,
             Paired(t)
      PROVE  AgreeInv'
  BY <1>13 DEF Paired, At, Goto, End
<1>14. ASSUME NEW t \in Tasks,
             Launched(t)
      PROVE  AgreeInv'
  BY <1>14 DEF Launched, At, Goto
<1>15. ASSUME NEW t \in Tasks,
             Finish(t)
      PROVE  AgreeInv'
  BY <1>15 DEF Finish, At, Goto, End
<1>16. ASSUME NEW t \in Tasks,
             RedeemLock(t)
      PROVE  AgreeInv'
  BY <1>16 DEF RedeemLock, At
<1>17. ASSUME NEW t \in Tasks,
             RedeemAnswer(t)
      PROVE  AgreeInv'
  BY <1>17 DEF RedeemAnswer, At, Goto
<1>18. ASSUME NEW t \in Tasks,
             RedeemStore(t)
      PROVE  AgreeInv'
  BY <1>18 DEF RedeemStore, At, Goto
<1>19. ASSUME NEW t \in Tasks,
             RedeemEnd(t)
      PROVE  AgreeInv'
  BY <1>19 DEF RedeemEnd, At, End
<1>20. ASSUME NEW t \in Tasks,
             SaveToken(t)
      PROVE  AgreeInv'
  BY <1>20 DEF SaveToken, Goto, LockInv, LockOf, PlaceInv, PlaceOf, Fault
<1>21. ASSUME NEW t \in Tasks,
             SaveAgain(t)
      PROVE  AgreeInv'
  BY <1>21 DEF SaveAgain, Goto, LockInv, LockOf, PlaceInv, PlaceOf, Fault
<1>22. ASSUME NEW t \in Tasks,
             SaveProfile(t)
      PROVE  AgreeInv'
  BY <1>22 DEF SaveProfile, Goto, LockInv, LockOf, PlaceInv, PlaceOf, Fault
<1>23. ASSUME NEW t \in Tasks,
             WriteProfile(t)
      PROVE  AgreeInv'
  BY <1>23 DEF WriteProfile, Goto, LockInv, LockOf, PlaceInv, PlaceOf, Fault
<1>24. ASSUME NEW t \in Tasks,
             UndoToken(t)
      PROVE  AgreeInv'
  BY <1>24 DEF UndoToken, Goto, LockInv, LockOf, PlaceInv, PlaceOf, Fault
<1>25. ASSUME NEW t \in Tasks,
             PollFailed(t)
      PROVE  AgreeInv'
  BY <1>25 DEF PollFailed, At, Goto
<1>26. ASSUME NEW t \in Tasks,
             Cancel(t)
      PROVE  AgreeInv'
  BY <1>26 DEF Cancel, Goto
<1>27. ASSUME NEW t \in Tasks,
             Canceled(t)
      PROVE  AgreeInv'
  BY <1>27 DEF Canceled, Goto, End
<1>28. ASSUME NEW t \in Tasks,
             Reset(t)
      PROVE  AgreeInv'
  BY <1>28 DEF Reset, At, Goto, End, Fault, CanWrite, Writing
<1>29. ASSUME NEW t \in Tasks,
             ClearProfile(t)
      PROVE  AgreeInv'
  BY <1>29 DEF ClearProfile, End, LockInv, LockOf, PlaceInv, PlaceOf, Fault
<1>30. ASSUME NEW t \in Tasks,
             ObserveLock(t)
      PROVE  AgreeInv'
  BY <1>30 DEF ObserveLock, At, End
<1>31. ASSUME NEW t \in Tasks,
             ObserveCheck(t)
      PROVE  AgreeInv'
  BY <1>31 DEF ObserveCheck, At, Goto, End
<1>32. ASSUME NEW t \in Tasks,
             ObserveUpload(t)
      PROVE  AgreeInv'
  BY <1>32 DEF ObserveUpload, At, End
<1>33. CASE Kill
  BY <1>33 DEF Kill, Writing
<1>34. CASE UNCHANGED <<task, token, profile, faults, cut>>
  BY <1>34
<1>. QED
  BY AgreeChange, <1>1, <1>2, <1>3, <1>4, <1>5, <1>6, <1>7, <1>8, <1>9, <1>10,
     <1>11, <1>12, <1>13, <1>14, <1>15, <1>16, <1>17, <1>18, <1>19, <1>20,
     <1>21, <1>22, <1>23, <1>24, <1>25, <1>26, <1>27, <1>28, <1>29, <1>30,
     <1>31, <1>32, <1>33, <1>34

\* What writes a store.
LEMMA PairChange ==
  ASSUME [Next]_vars
  PROVE  \/ UNCHANGED <<token, profile>>
         \/ \E t \in Tasks :
               \/ SaveToken(t) \/ SaveAgain(t) \/ SaveProfile(t)
               \/ WriteProfile(t) \/ UndoToken(t) \/ Reset(t)
               \/ ClearProfile(t)
  BY ZenonT(60) DEF Next, Invoked, Connect, Locked, Stored, Others, stores, bounds,
         StartConnect, StartRedeem, StartCancel, StartReset, StartObserve,
         Begin, Issue, StoreSession, Issued, Poll, PollAnswer, PollStore,
         Paired, Launched, Finish, RedeemLock, RedeemAnswer, RedeemStore,
         RedeemEnd, PollFailed, Cancel, Canceled, ObserveLock, ObserveCheck,
         ObserveUpload, Expire, Kill, Start, vars

-----------------------------------------------------------------------------
(* The inductive invariant.                                                  *)

IInv ==
    /\ TypeInv /\ LockInv /\ GenInv /\ PlaceInv /\ AgreeInv
    /\ KindInv /\ PageInv /\ UniqueInv /\ FlightInv

LEMMA InitIInv == Init => IInv
<1>. SUFFICES ASSUME Init PROVE IInv
  OBVIOUS
<1>1. TypeInv
  <2>1. UiTyped /\ DeviceTyped
    BY DEF Init, UiTyped, NoUi, DeviceTyped, NoDevice
  <2>2. TaskTyped /\ SerialInv
    BY PairingAssumption
    DEF Init, TaskTyped, SerialInv, SerialOf, Idle, Ops, Locations
  <2>3. BoundTyped
    <3>1. ops = 0 /\ faults = 0 /\ kills = 0
      BY DEF Init
    <3>2. cut = FALSE
      BY DEF Init
    <3>3. ops \in 0 .. MaxOps /\ faults \in 0 .. MaxFaults /\ kills \in 0 .. MaxKills
      BY <3>1, PairingAssumption
    <3>. QED
      BY <3>2, <3>3 DEF BoundTyped
  <2>4. StoreTyped
    BY DEF Init, StoreTyped, Tokens, Profiles
  <2>. QED
    BY <2>1, <2>2, <2>3, <2>4 DEF TypeInv
<1>2. LockInv /\ GenInv /\ PlaceInv
  BY DEF Init, NoDevice, Idle, LockInv, LockOf, GenInv, GenOf, PlaceInv, PlaceOf,
     Storing, Watching
<1>3. AgreeInv
  BY DEF Init, AgreeInv, Agreed
<1>4. KindInv /\ PageInv
  BY DEF Init, NoUi, Idle, KindInv, KindOf, PageInv
<1>5. UniqueInv /\ FlightInv
  BY DEF Init, NoDevice, Idle, UniqueInv, UniqueOf, FlightInv, FlightOf
<1>. QED
  BY <1>1, <1>2, <1>3, <1>4, <1>5 DEF IInv

LEMMA NextIInv == IInv /\ [Next]_vars => IInv'
<1>. SUFFICES ASSUME IInv, [Next]_vars PROVE IInv'
  OBVIOUS
<1>. USE DEF IInv, TypeInv
<1>1. UiTyped'
  BY UiStep
<1>2. DeviceTyped'
  BY DeviceStep
<1>3. BoundTyped'
  BY BoundStep
<1>4. TaskTyped'
  BY TaskStep, <1>1, <1>2, <1>3
<1>5. SerialInv'
  BY SerialStep
<1>6. StoreTyped'
  BY StoreStep
<1>7. LockInv'
  BY LockStep
<1>8. GenInv'
  BY GenStep
<1>9. PlaceInv'
  BY PlaceStep
<1>10. AgreeInv'
  BY AgreeStep
<1>11. KindInv'
  BY KindStep
<1>12. PageInv'
  BY PageStep
<1>13. UniqueInv'
  BY UniqueStep
<1>14. FlightInv'
  BY FlightStep
<1>. QED
  BY <1>1, <1>2, <1>3, <1>4, <1>5, <1>6, <1>7, <1>8, <1>9, <1>10, <1>11, <1>12,
     <1>13, <1>14

LEMMA Invariance == Spec => []IInv
  BY InitIInv, NextIInv, PTL DEF Spec

-----------------------------------------------------------------------------
(* The theorems.                                                             *)

\* Every reachable state of a pairing machine has its type, for any
\* invocations, store failures and kills.
THEOREM TypeSafe == Spec => []TypeOK
<1>1. IInv => TypeOK
  BY DEF IInv, TypeInv, TypeOK, UiTyped, DeviceTyped, Sessions, TaskTyped, BoundTyped,
     StoreTyped, Tokens, Profiles, SerialInv, SerialOf
<1>. QED
  BY <1>1, Invariance, PTL

\* A token and a profile at rest come from the same pairing, unless a kill
\* came between the two stores or a second store failed.
THEOREM AgreeSafe == Spec => []RestAgrees
<1>1. ASSUME IInv, ~Writing, ~cut, faults < 2 PROVE Agreed
  <2>1. \A d \in Tasks : ~Halfway(d)
    BY <1>1 DEF Writing, Storing, Halfway
  <2>. QED
    BY <1>1, <2>1 DEF IInv, TypeInv, BoundTyped, AgreeInv
<1>2. IInv => RestAgrees
  BY <1>1 DEF RestAgrees, Agreed
<1>. QED
  BY <1>2, Invariance, PTL

\* An observed check sees one pairing from its first read to its upload: it
\* keeps the read side of the lock, and every writer waits for it.
THEOREM ObservedSafe == Spec => []ObservedSeesOnePairing
<1>1. IInv => ObservedSeesOnePairing
  BY DEF IInv, PlaceInv, PlaceOf, ObservedSeesOnePairing
<1>. QED
  BY <1>1, Invariance, PTL

\* What a completion stores is what the latest attempt obtained: whoever holds
\* the write lock to store is the live attempt, so an approval or a redeemed
\* code that comes back late stores nothing.
THEOREM LateSafe == Spec => LateAnswerChangesNothing
<1>1. ASSUME IInv, [Next]_vars
      PROVE  /\ token' \notin {token, None} => token' = live
             /\ profile' \notin {profile, None, Torn} => profile' = live
  <2>. USE DEF IInv, PlaceInv, PlaceOf
  <2>1. CASE \E t \in Tasks : SaveToken(t) \/ SaveAgain(t)
    BY <1>1, <2>1 DEF SaveToken, SaveAgain
  <2>2. CASE \E t \in Tasks : SaveProfile(t) \/ WriteProfile(t)
    BY <1>1, <2>2 DEF SaveProfile, WriteProfile
  <2>3. CASE \E t \in Tasks : UndoToken(t) \/ Reset(t) \/ ClearProfile(t)
    BY <1>1, <2>3 DEF UndoToken, Reset, ClearProfile
  <2>4. CASE UNCHANGED <<token, profile>>
    BY <2>4
  <2>. QED
    BY <1>1, <2>1, <2>2, <2>3, <2>4, PairChange
<1>2. IInv /\ [Next]_vars =>
        [/\ token' \notin {token, None} => token' = live
         /\ profile' \notin {profile, None, Torn} => profile' = live]_vars
  BY <1>1
<1>. QED
  BY <1>2, Invariance, PTL DEF Spec, LateAnswerChangesNothing

\* The page is never left busy by nobody, for any invocations in any order:
\* what disables a button belongs to a task that will enable it again, and a
\* loop is only overtaken by one that takes this over.
THEOREM PageSafe == Spec => []QuietPage
<1>1. ASSUME TaskTyped, UiTyped, PageInv, \A t \in Tasks : task[t] = Idle
      PROVE  ~ui.active /\ ~ui.completing /\ ~ui.shown /\ ui.redeem
  <2>1. \A t \in Tasks : task[t].pc = "idle"
    BY <1>1 DEF Idle
  <2>2. \A t \in Tasks : ~Closer(t) /\ ~Redeems(t)
    BY <2>1 DEF Closer, Redeems
  <2>. QED
    BY <1>1, <2>2 DEF PageInv
<1>2. IInv => QuietPage
  BY <1>1 DEF IInv, TypeInv, QuietPage
<1>. QED
  BY <1>2, Invariance, PTL

\* The invocations never all wait for each other: whoever holds the lock goes
\* on without it, and a session is only polled by the loop that made it.
THEOREM StallSafe == Spec => []NobodyStalls
<1>1. ASSUME IInv, NEW t \in Tasks, task[t] # Idle, Waits(t)
      PROVE  \E d \in Tasks : task[d] # Idle /\ ~Waits(d)
  <2>1. \A d \in Tasks : task[d].pc \in Storing \union Watching =>
                             task[d] # Idle /\ ~Waits(d)
    BY DEF Storing, Watching, Idle, Waits, At
  <2>2. CASE ~CanWrite \/ ~CanRead
    BY <2>1, <2>2 DEF CanWrite, CanRead, Writing, Reading
  <2>3. CASE ~MutexFree
    BY <2>1, <2>3 DEF MutexFree
  <2>4. CASE /\ At(t, "connect", "wait")
             /\ Session(t) /\ device.pending.inFlight
    BY <1>1, <2>4 DEF IInv, FlightInv, FlightOf, At
  <2>. QED
    BY <1>1, <2>2, <2>3, <2>4 DEF Waits
<1>2. IInv => NobodyStalls
  BY <1>1 DEF NobodyStalls
<1>. QED
  BY <1>2, Invariance, PTL

-----------------------------------------------------------------------------
(* Every step of an invocation brings it nearer its end.                     *)

\* The approval of this connection has been taken.
Spends(d) ==
    /\ task[d].op = "connect"
    /\ task[d].pc \in {"saveToken", "saveAgain", "saveProfile", "writeProfile",
                       "undo", "failed"}
SpentInv == \A d \in Tasks : Spends(d) => ~Session(d)

\* How an invocation moves on.
Ahead(d) ==
    /\ task'[d].op = task[d].op
    /\ task[d].pc # "wait" /\ task'[d].pc # "wait"
    /\ StepsAt[task'[d].pc] < StepsAt[task[d].pc]
    /\ Spends(d)' => \/ device'.pending = None
                     \/ Spends(d) /\ task'[d].gen = task[d].gen
Looped(d) ==
    /\ task[d].op = "connect" /\ task'[d].op = "connect"
    /\ task'[d].gen = task[d].gen
    /\ \/ task[d].pc = "issued" /\ task'[d].pc = "wait"
       \/ task[d].pc = "wait" /\ task'[d].pc = "finish"
       \/ task[d].pc = "wait" /\ task'[d].pc = "polling" /\ Asking(d)
       \/ task[d].pc = "answered" /\ task'[d].pc = "wait" /\ (Asking(d) \/ ~Session(d)')
       \/ task[d].pc = "failed" /\ task'[d].pc = "wait" /\ device' = device
Moved(d) ==
    \/ task'[d] = task[d]
    \/ task[d].pc = "idle" /\ task'[d].pc \in {"begin", "lock", "cancel", "reset", "observe"}
    \/ task'[d] = Idle
    \/ Ahead(d) \/ Looped(d)

LEMMA MovedStep ==
  ASSUME TaskTyped, DeviceTyped, [Next]_vars, NEW d \in Tasks
  PROVE  Moved(d)
<1>0. /\ DOMAIN task = Tasks /\ \A x \in Tasks : DOMAIN task[x] =
          {"op", "pc", "serial", "ui", "gen", "answer", "seen"}
      /\ DOMAIN device = {"generation", "pending"}
  BY DEF TaskTyped, DeviceTyped
<1>. USE <1>0 DEF Moved
<1>1. ASSUME NEW t \in Tasks, StartConnect(t)
      PROVE  Moved(d)
  BY <1>1 DEF StartConnect, Start, Idle
<1>2. ASSUME NEW t \in Tasks, StartRedeem(t)
      PROVE  Moved(d)
  BY <1>2 DEF StartRedeem, Start, Idle
<1>3. ASSUME NEW t \in Tasks, StartCancel(t)
      PROVE  Moved(d)
  BY <1>3 DEF StartCancel, Start, Idle
<1>4. ASSUME NEW t \in Tasks, StartReset(t)
      PROVE  Moved(d)
  BY <1>4 DEF StartReset, Start, Idle
<1>5. ASSUME NEW t \in Tasks, StartObserve(t)
      PROVE  Moved(d)
  BY <1>5 DEF StartObserve, Start, Idle
<1>6. ASSUME NEW t \in Tasks, Begin(t)
      PROVE  Moved(d)
  <2>1. CASE d # t
    <3>1. task'[d] = task[d]
      BY <1>6, <2>1 DEF Begin, Goto
    <3>. QED
      BY <3>1
  <2>2. CASE d = t
    <3>1. Ahead(d)
      BY <1>6, <2>2 DEF Begin, At, Goto, Ahead, Spends, StepsAt, Watching
    <3>. QED
      BY <3>1
  <2>. QED
    BY <2>1, <2>2
<1>7. ASSUME NEW t \in Tasks, Issue(t)
      PROVE  Moved(d)
  <2>1. CASE d # t
    <3>1. task'[d] = task[d]
      BY <1>7, <2>1 DEF Issue, Goto
    <3>. QED
      BY <3>1
  <2>2. CASE d = t
    <3>1. Ahead(d)
      BY <1>7, <2>2 DEF Issue, At, Goto, Ahead, Spends, StepsAt, Watching
    <3>. QED
      BY <3>1
  <2>. QED
    BY <2>1, <2>2
<1>8. ASSUME NEW t \in Tasks, StoreSession(t)
      PROVE  Moved(d)
  <2>1. CASE d # t
    <3>1. task'[d] = task[d]
      BY <1>8, <2>1 DEF StoreSession, Goto
    <3>. QED
      BY <3>1
  <2>2. CASE d = t
    <3>1. Ahead(d)
      BY <1>8, <2>2 DEF StoreSession, At, Goto, Ahead, Spends, StepsAt, Watching
    <3>. QED
      BY <3>1
  <2>. QED
    BY <2>1, <2>2
<1>9. ASSUME NEW t \in Tasks, Issued(t)
      PROVE  Moved(d)
  <2>1. CASE d # t
    <3>1. task'[d] = task[d]
      BY <1>9, <2>1 DEF Issued, Goto, End
    <3>. QED
      BY <3>1
  <2>2. CASE d = t
    <3>1. task'[d] = Idle \/ Looped(d)
      BY <1>9, <2>2 DEF Issued, At, Goto, End, Looped
    <3>. QED
      BY <3>1
  <2>. QED
    BY <2>1, <2>2
<1>10. ASSUME NEW t \in Tasks, Poll(t)
      PROVE  Moved(d)
  <2>1. CASE d # t
    <3>1. task'[d] = task[d]
      BY <1>10, <2>1 DEF Poll, Goto, End
    <3>. QED
      BY <3>1
  <2>2. CASE d = t
    <3>1. task'[d] = Idle \/ Looped(d)
      BY <1>10, <2>2 DEF Poll, At, Goto, End, Looped, Asking, Session
    <3>. QED
      BY <3>1
  <2>. QED
    BY <2>1, <2>2
<1>11. ASSUME NEW t \in Tasks, PollAnswer(t)
      PROVE  Moved(d)
  <2>1. CASE d # t
    <3>1. task'[d] = task[d]
      BY <1>11, <2>1 DEF PollAnswer
    <3>. QED
      BY <3>1
  <2>2. CASE d = t
    <3>1. Ahead(d)
      BY <1>11, <2>2 DEF PollAnswer, At, Ahead, Spends, StepsAt, Watching
    <3>. QED
      BY <3>1
  <2>. QED
    BY <2>1, <2>2
<1>12. ASSUME NEW t \in Tasks, PollStore(t)
      PROVE  Moved(d)
  <2>1. CASE d # t
    <3>1. task'[d] = task[d]
      BY <1>12, <2>1 DEF PollStore
    <3>. QED
      BY <3>1
  <2>2. CASE d = t
    <3>1. /\ task[d].pc = "answered" /\ task[d].op = "connect" /\ task'[d].op = "connect"
          /\ task'[d].gen = task[d].gen
          /\ \/ task'[d].pc = "wait" /\ ~Session(d) /\ device' = device
             \/ task'[d].pc = "wait" /\ Asking(d)
             \/ task'[d].pc \in {"finish", "saveToken"} /\ device'.pending = None
      BY <1>12, <2>2 DEF PollStore, At, Asking
    <3>2. CASE task'[d].pc = "wait"
      BY <3>1, <3>2 DEF Looped, Session
    <3>3. CASE task'[d].pc # "wait"
      BY <3>1, <3>3 DEF Ahead, StepsAt
    <3>. QED
      BY <3>2, <3>3
  <2>. QED
    BY <2>1, <2>2
<1>13. ASSUME NEW t \in Tasks, Paired(t)
      PROVE  Moved(d)
  <2>1. CASE d # t
    <3>1. task'[d] = task[d]
      BY <1>13, <2>1 DEF Paired, Goto, End
    <3>. QED
      BY <3>1
  <2>2. CASE d = t
    <3>1. task'[d] = Idle \/ Ahead(d)
      BY <1>13, <2>2 DEF Paired, At, Goto, End, Ahead, Spends, StepsAt, Watching
    <3>. QED
      BY <3>1
  <2>. QED
    BY <2>1, <2>2
<1>14. ASSUME NEW t \in Tasks, Launched(t)
      PROVE  Moved(d)
  <2>1. CASE d # t
    <3>1. task'[d] = task[d]
      BY <1>14, <2>1 DEF Launched, Goto
    <3>. QED
      BY <3>1
  <2>2. CASE d = t
    <3>1. Ahead(d)
      BY <1>14, <2>2 DEF Launched, At, Goto, Ahead, Spends, StepsAt, Watching
    <3>. QED
      BY <3>1
  <2>. QED
    BY <2>1, <2>2
<1>15. ASSUME NEW t \in Tasks, Finish(t)
      PROVE  Moved(d)
  <2>1. CASE d # t
    <3>1. task'[d] = task[d]
      BY <1>15, <2>1 DEF Finish, Goto, End
    <3>. QED
      BY <3>1
  <2>2. CASE d = t
    <3>1. task'[d] = Idle \/ Ahead(d)
      BY <1>15, <2>2 DEF Finish, At, Goto, End, Ahead, Spends, StepsAt, Watching
    <3>. QED
      BY <3>1
  <2>. QED
    BY <2>1, <2>2
<1>16. ASSUME NEW t \in Tasks, RedeemLock(t)
      PROVE  Moved(d)
  <2>1. CASE d # t
    <3>1. task'[d] = task[d]
      BY <1>16, <2>1 DEF RedeemLock
    <3>. QED
      BY <3>1
  <2>2. CASE d = t
    <3>1. Ahead(d)
      BY <1>16, <2>2 DEF RedeemLock, At, Ahead, Spends, StepsAt, Watching
    <3>. QED
      BY <3>1
  <2>. QED
    BY <2>1, <2>2
<1>17. ASSUME NEW t \in Tasks, RedeemAnswer(t)
      PROVE  Moved(d)
  <2>1. CASE d # t
    <3>1. task'[d] = task[d]
      BY <1>17, <2>1 DEF RedeemAnswer, Goto
    <3>. QED
      BY <3>1
  <2>2. CASE d = t
    <3>1. Ahead(d)
      BY <1>17, <2>2 DEF RedeemAnswer, At, Goto, Ahead, Spends, StepsAt, Watching
    <3>. QED
      BY <3>1
  <2>. QED
    BY <2>1, <2>2
<1>18. ASSUME NEW t \in Tasks, RedeemStore(t)
      PROVE  Moved(d)
  <2>1. CASE d # t
    <3>1. task'[d] = task[d]
      BY <1>18, <2>1 DEF RedeemStore, Goto
    <3>. QED
      BY <3>1
  <2>2. CASE d = t
    <3>1. Ahead(d)
      BY <1>18, <2>2 DEF RedeemStore, At, Goto, Ahead, Spends, StepsAt, Watching
    <3>. QED
      BY <3>1
  <2>. QED
    BY <2>1, <2>2
<1>19. ASSUME NEW t \in Tasks, RedeemEnd(t)
      PROVE  Moved(d)
  <2>1. CASE d # t
    <3>1. task'[d] = task[d]
      BY <1>19, <2>1 DEF RedeemEnd, End
    <3>. QED
      BY <3>1
  <2>2. CASE d = t
    <3>1. task'[d] = Idle \/ Ahead(d)
      BY <1>19, <2>2 DEF RedeemEnd, At, End, Ahead, Spends, StepsAt, Watching
    <3>. QED
      BY <3>1
  <2>. QED
    BY <2>1, <2>2
<1>20. ASSUME NEW t \in Tasks, SaveToken(t)
      PROVE  Moved(d)
  <2>1. CASE d # t
    <3>1. task'[d] = task[d]
      BY <1>20, <2>1 DEF SaveToken, Goto
    <3>. QED
      BY <3>1
  <2>2. CASE d = t
    <3>1. Ahead(d)
      BY <1>20, <2>2 DEF SaveToken, Goto, Ahead, Spends, StepsAt, Watching
    <3>. QED
      BY <3>1
  <2>. QED
    BY <2>1, <2>2
<1>21. ASSUME NEW t \in Tasks, SaveAgain(t)
      PROVE  Moved(d)
  <2>1. CASE d # t
    <3>1. task'[d] = task[d]
      BY <1>21, <2>1 DEF SaveAgain, Goto
    <3>. QED
      BY <3>1
  <2>2. CASE d = t
    <3>1. Ahead(d)
      BY <1>21, <2>2 DEF SaveAgain, Goto, Ahead, Spends, StepsAt, Watching
    <3>. QED
      BY <3>1
  <2>. QED
    BY <2>1, <2>2
<1>22. ASSUME NEW t \in Tasks, SaveProfile(t)
      PROVE  Moved(d)
  <2>1. CASE d # t
    <3>1. task'[d] = task[d]
      BY <1>22, <2>1 DEF SaveProfile, Goto
    <3>. QED
      BY <3>1
  <2>2. CASE d = t
    <3>1. Ahead(d)
      BY <1>22, <2>2 DEF SaveProfile, Goto, Ahead, Spends, StepsAt, Watching
    <3>. QED
      BY <3>1
  <2>. QED
    BY <2>1, <2>2
<1>23. ASSUME NEW t \in Tasks, WriteProfile(t)
      PROVE  Moved(d)
  <2>1. CASE d # t
    <3>1. task'[d] = task[d]
      BY <1>23, <2>1 DEF WriteProfile, Goto
    <3>. QED
      BY <3>1
  <2>2. CASE d = t
    <3>1. Ahead(d)
      BY <1>23, <2>2 DEF WriteProfile, Goto, Ahead, Spends, StepsAt, Watching
    <3>. QED
      BY <3>1
  <2>. QED
    BY <2>1, <2>2
<1>24. ASSUME NEW t \in Tasks, UndoToken(t)
      PROVE  Moved(d)
  <2>1. CASE d # t
    <3>1. task'[d] = task[d]
      BY <1>24, <2>1 DEF UndoToken, Goto
    <3>. QED
      BY <3>1
  <2>2. CASE d = t
    <3>1. Ahead(d)
      BY <1>24, <2>2 DEF UndoToken, Goto, Ahead, Spends, StepsAt, Watching
    <3>. QED
      BY <3>1
  <2>. QED
    BY <2>1, <2>2
<1>25. ASSUME NEW t \in Tasks, PollFailed(t)
      PROVE  Moved(d)
  <2>1. CASE d # t
    <3>1. task'[d] = task[d]
      BY <1>25, <2>1 DEF PollFailed, Goto
    <3>. QED
      BY <3>1
  <2>2. CASE d = t
    <3>1. task'[d] = Idle \/ Looped(d)
      BY <1>25, <2>2 DEF PollFailed, At, Goto, Looped
    <3>. QED
      BY <3>1
  <2>. QED
    BY <2>1, <2>2
<1>26. ASSUME NEW t \in Tasks, Cancel(t)
      PROVE  Moved(d)
  <2>1. CASE d # t
    <3>1. task'[d] = task[d]
      BY <1>26, <2>1 DEF Cancel, Goto
    <3>. QED
      BY <3>1
  <2>2. CASE d = t
    <3>1. Ahead(d)
      BY <1>26, <2>2 DEF Cancel, Goto, Ahead, Spends, StepsAt, Watching
    <3>. QED
      BY <3>1
  <2>. QED
    BY <2>1, <2>2
<1>27. ASSUME NEW t \in Tasks, Canceled(t)
      PROVE  Moved(d)
  <2>1. CASE d # t
    <3>1. task'[d] = task[d]
      BY <1>27, <2>1 DEF Canceled, Goto, End
    <3>. QED
      BY <3>1
  <2>2. CASE d = t
    <3>1. task'[d] = Idle \/ Ahead(d)
      BY <1>27, <2>2 DEF Canceled, Goto, End, Ahead, Spends, StepsAt, Watching
    <3>. QED
      BY <3>1
  <2>. QED
    BY <2>1, <2>2
<1>28. ASSUME NEW t \in Tasks, Reset(t)
      PROVE  Moved(d)
  <2>1. CASE d # t
    <3>1. task'[d] = task[d]
      BY <1>28, <2>1 DEF Reset, Goto, End
    <3>. QED
      BY <3>1
  <2>2. CASE d = t
    <3>1. task'[d] = Idle \/ Ahead(d)
      BY <1>28, <2>2 DEF Reset, At, Goto, End, Ahead, Spends, StepsAt, Watching
    <3>. QED
      BY <3>1
  <2>. QED
    BY <2>1, <2>2
<1>29. ASSUME NEW t \in Tasks, ClearProfile(t)
      PROVE  Moved(d)
  <2>1. CASE d # t
    <3>1. task'[d] = task[d]
      BY <1>29, <2>1 DEF ClearProfile, End
    <3>. QED
      BY <3>1
  <2>2. CASE d = t
    <3>1. task'[d] = Idle \/ Ahead(d)
      BY <1>29, <2>2 DEF ClearProfile, End, Ahead, Spends, StepsAt, Watching
    <3>. QED
      BY <3>1
  <2>. QED
    BY <2>1, <2>2
<1>30. ASSUME NEW t \in Tasks, ObserveLock(t)
      PROVE  Moved(d)
  <2>1. CASE d # t
    <3>1. task'[d] = task[d]
      BY <1>30, <2>1 DEF ObserveLock, End
    <3>. QED
      BY <3>1
  <2>2. CASE d = t
    <3>1. task'[d] = Idle \/ Ahead(d)
      BY <1>30, <2>2 DEF ObserveLock, At, End, Ahead, Spends, StepsAt, Watching
    <3>. QED
      BY <3>1
  <2>. QED
    BY <2>1, <2>2
<1>31. ASSUME NEW t \in Tasks, ObserveCheck(t)
      PROVE  Moved(d)
  <2>1. CASE d # t
    <3>1. task'[d] = task[d]
      BY <1>31, <2>1 DEF ObserveCheck, Goto, End
    <3>. QED
      BY <3>1
  <2>2. CASE d = t
    <3>1. task'[d] = Idle \/ Ahead(d)
      BY <1>31, <2>2 DEF ObserveCheck, At, Goto, End, Ahead, Spends, StepsAt, Watching
    <3>. QED
      BY <3>1
  <2>. QED
    BY <2>1, <2>2
<1>32. ASSUME NEW t \in Tasks, ObserveUpload(t)
      PROVE  Moved(d)
  <2>1. CASE d # t
    <3>1. task'[d] = task[d]
      BY <1>32, <2>1 DEF ObserveUpload, End
    <3>. QED
      BY <3>1
  <2>2. CASE d = t
    <3>1. task'[d] = Idle \/ Ahead(d)
      BY <1>32, <2>2 DEF ObserveUpload, At, End, Ahead, Spends, StepsAt, Watching
    <3>. QED
      BY <3>1
  <2>. QED
    BY <2>1, <2>2
<1>33. CASE Kill
  BY <1>33 DEF Kill
<1>34. CASE Expire \/ UNCHANGED <<task, device, live>>
  BY <1>34 DEF Expire
<1>. QED
  BY GenChange, <1>1, <1>2, <1>3, <1>4, <1>5, <1>6, <1>7, <1>8, <1>9, <1>10,
     <1>11, <1>12, <1>13, <1>14, <1>15, <1>16, <1>17, <1>18, <1>19, <1>20,
     <1>21, <1>22, <1>23, <1>24, <1>25, <1>26, <1>27, <1>28, <1>29, <1>30,
     <1>31, <1>32, <1>33, <1>34

\* A session comes only from the step that stores it, and a code expires once.
LEMMA SessionStep ==
  ASSUME TaskTyped, DeviceTyped, GenInv, UniqueInv, [Next]_vars, NEW d \in Tasks,
         task[d].pc # "store", task'[d].gen = task[d].gen
  PROVE  Session(d)' => Session(d) /\ (Asking(d)' => Asking(d))
<1>0. /\ DOMAIN device = {"generation", "pending"}
      /\ device.pending # None =>
             device.pending \in Sessions /\ device.pending.gen = device.generation
  BY DEF TaskTyped, DeviceTyped
<1>. USE <1>0 DEF Session, Asking
<1>1. ASSUME NEW t \in Tasks, Begin(t) \/ RedeemLock(t) \/ Cancel(t) \/ Reset(t)
      PROVE  Session(d)' => Session(d) /\ (Asking(d)' => Asking(d))
  <2>1. device'.pending = None \/ device' = device
    BY <1>1 DEF Begin, RedeemLock, Cancel, Reset, Invalidated
  <2>. QED
    BY <2>1
<1>2. ASSUME NEW t \in Tasks, StoreSession(t)
      PROVE  Session(d)' => Session(d) /\ (Asking(d)' => Asking(d))
  <2>1. CASE Current(t)
    <3>1. d # t /\ task[t].gen # 0
      BY <1>2 DEF StoreSession, At, GenInv, GenOf
    <3>2. device'.pending.gen = task[t].gen
      BY <1>2, <2>1 DEF StoreSession, NewSession
    <3>3. task[d].gen # task[t].gen
      BY <3>1 DEF UniqueInv, UniqueOf
    <3>. QED
      BY <3>2, <3>3
  <2>2. CASE ~Current(t)
    BY <1>2, <2>2 DEF StoreSession
  <2>. QED
    BY <2>1, <2>2
<1>3. ASSUME NEW t \in Tasks, Poll(t) \/ PollStore(t)
      PROVE  Session(d)' => Session(d) /\ (Asking(d)' => Asking(d))
  <2>1. \/ device' = device \/ device'.pending = None
        \/ device.pending # None /\ \E b \in BOOLEAN :
               device' = [device EXCEPT !.pending.inFlight = b]
    BY <1>3 DEF Poll, PollStore, Polled
  <2>2. CASE device.pending # None /\ \E b \in BOOLEAN :
               device' = [device EXCEPT !.pending.inFlight = b]
    <3>1. device'.pending.gen = device.pending.gen
          /\ device'.pending.expired = device.pending.expired
      BY <2>2 DEF Sessions
    <3>. QED
      BY <2>2, <3>1
  <2>. QED
    BY <2>1, <2>2
<1>4. CASE Expire
  <2>1. device.pending # None /\ device' = [device EXCEPT !.pending.expired = TRUE]
    BY <1>4 DEF Expire
  <2>2. device'.pending.gen = device.pending.gen /\ device'.pending.expired
    BY <2>1 DEF Sessions
  <2>. QED
    BY <2>1, <2>2
<1>5. CASE Kill
  BY <1>5 DEF Kill, NoDevice
<1>6. CASE UNCHANGED device
  BY <1>6
<1>. QED
  BY DeviceChange, <1>1, <1>2, <1>3, <1>4, <1>5, <1>6

LEMMA SpentStep ==
  ASSUME TaskTyped, DeviceTyped, GenInv, UniqueInv, SpentInv, [Next]_vars
  PROVE  SpentInv'
<1>. SUFFICES ASSUME NEW d \in Tasks, Spends(d)' PROVE ~Session(d)'
  BY DEF SpentInv
<1>1. CASE Spends(d) /\ task'[d].gen = task[d].gen
  BY <1>1, SessionStep DEF SpentInv, Spends
<1>2. CASE device'.pending = None
  BY <1>2 DEF Session
<1>3. ~Looped(d) /\ task'[d] # Idle
      /\ task'[d].pc \notin {"begin", "lock", "cancel", "reset", "observe"}
  BY DEF Looped, Spends, Idle
<1>4. task'[d] = task[d] => Spends(d) /\ task'[d].gen = task[d].gen
  BY DEF Spends
<1>. QED
  BY <1>1, <1>2, <1>3, <1>4, MovedStep DEF Moved, Ahead

LEMMA ShrinkStep ==
  ASSUME IInv, SpentInv, [Next]_vars, NEW d \in Tasks, StepsLeft(d) > 0
  PROVE  \/ StepsLeft(d)' < StepsLeft(d)
         \/ task'[d] = task[d] /\ StepsLeft(d)' = StepsLeft(d)
         \/ At(d, "connect", "answered") /\ Asking(d) /\ At(d, "connect", "wait")'
<1>0. TaskTyped /\ DeviceTyped /\ GenInv /\ UniqueInv /\ task[d].pc \in Locations
  BY DEF IInv, TypeInv, TaskTyped
<1>. USE DEF StepsLeft, StepsAt, At
<1>1. CASE task'[d] = task[d]
  <2>1. CASE At(d, "connect", "wait")
    <3>1. Asking(d)' => Asking(d)
      BY <1>0, <1>1, <2>1, SessionStep DEF Asking
    <3>. QED
      BY <1>1, <2>1, <3>1
  <2>2. CASE ~At(d, "connect", "wait")
    BY <1>1, <2>2
  <2>. QED
    BY <2>1, <2>2
<1>2. CASE task[d].pc = "idle"
  BY <1>2
<1>3. CASE task'[d] = Idle
  BY <1>0, <1>3 DEF Idle, Locations, Storing, Watching
<1>4. CASE Ahead(d)
  BY <1>4 DEF Ahead
<1>5. CASE Looped(d)
  <2>1. CASE task[d].pc = "answered" /\ task'[d].pc = "wait" /\ ~Session(d)'
    BY <1>5, <2>1 DEF Looped, Asking
  <2>2. CASE task[d].pc = "failed" /\ task'[d].pc = "wait"
    <3>1. ~Session(d)'
      BY <1>0, <1>5, <2>2, SessionStep DEF Looped, SpentInv, Spends
    <3>. QED
      BY <1>5, <2>2, <3>1 DEF Looped, Asking
  <2>. QED
    BY <1>5, <2>1, <2>2 DEF Looped
<1>. QED
  BY <1>0, <1>1, <1>2, <1>3, <1>4, <1>5, MovedStep DEF Moved

\* Every step of a connection, a code, a cancellation, a reset and an observed
\* check brings it nearer its end, whatever the others do; only an answer without a
\* decision makes a connection ask again, and only while its code has not expired
\* (devicePairing.js:11-40, device_pairing.rs:118-265).
THEOREM ForwardSafe == Spec => InvocationsShrink
<1>1. Init => SpentInv
  BY DEF Init, SpentInv, Spends, Idle
<1>2. IInv /\ SpentInv /\ [Next]_vars => SpentInv'
  BY SpentStep DEF IInv, TypeInv
<1>3. IInv /\ SpentInv /\ [Next]_vars =>
        [\A t \in Tasks : StepsLeft(t) > 0 =>
          \/ StepsLeft(t)' < StepsLeft(t)
          \/ task'[t] = task[t] /\ StepsLeft(t)' = StepsLeft(t)
          \/ At(t, "connect", "answered") /\ Asking(t) /\ At(t, "connect", "wait")']_vars
  BY ShrinkStep
<1>. QED
  BY <1>1, <1>2, <1>3, Invariance, PTL DEF Spec, InvocationsShrink
=============================================================================
