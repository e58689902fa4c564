--------------------------- MODULE DevicePairing ---------------------------
(***************************************************************************)
(* Pairing a machine with a Hub from the Desktop Runner: the browser       *)
(* connection of device_pairing.rs, the one-time code, reset and observed  *)
(* check of lib.rs, the token and profile stores they write                *)
(* (runner-engine/pairing.rs), and the controller of devicePairing.js that *)
(* drives them.  Everything a machine is paired with is one value here,    *)
(* the serial of the attempt that obtained it: the token in the system's   *)
(* credential store and the profile file each hold one.                    *)
(*                                                                         *)
(* Commands are asynchronous and independent: the native side orders them  *)
(* by a write lock (PAIRING_STATE_LOCK) and a generation, the renderer by  *)
(* a generation of its own.  An observed check keeps the lock's read side. *)
(***************************************************************************)
EXTENDS Naturals, FiniteSets

CONSTANTS
    Tasks,      \* invocations of the renderer that may be under way at once
    None,
    Torn,       \* a profile file whose text was cut off
    MaxOps,     \* invocations in all
    MaxFaults,  \* failures of a store
    MaxKills

ASSUME PairingAssumption ==
    /\ MaxOps \in Nat /\ MaxFaults \in Nat /\ MaxKills \in Nat
    /\ None # Torn /\ {None, Torn} \intersect Nat = {}

VARIABLES
    ui,        \* the controller: generation, active, completing, shown;
               \* redeem: the one-time code button is enabled
    device,    \* DEVICE_PAIRING: generation and pending session
    token,     \* the credential store
    profile,   \* the profile file
    task,      \* the invocations
    ops,       \* invocations so far
    live,      \* the latest attempt no cancel, reset or attempt has followed
    faults,    \* store failures so far
    kills,
    cut        \* a kill came between the two stores of a completion

stores == <<token, profile>>
bounds == <<ops, faults, kills, cut>>
vars == <<ui, device, stores, task, live, bounds>>

Idle == [op |-> None, pc |-> "idle", serial |-> 0, ui |-> 0, gen |-> 0,
         answer |-> None, seen |-> None]

NoUi == [generation |-> 0, active |-> FALSE, completing |-> FALSE,
         shown |-> FALSE, redeem |-> TRUE]
NoDevice == [generation |-> 0, pending |-> None]

Init ==
    /\ ui = NoUi
    /\ device = NoDevice
    /\ token = None
    /\ profile = None
    /\ task = [t \in Tasks |-> Idle]
    /\ ops = 0
    /\ live = None
    /\ faults = 0
    /\ kills = 0
    /\ cut = FALSE

-----------------------------------------------------------------------------
(* Building blocks *)

At(t, op, loc) == task[t].op = op /\ task[t].pc = loc
Goto(t, loc) == task' = [task EXCEPT ![t].pc = loc]
End(t) == task' = [task EXCEPT ![t] = Idle]

\* The write guard outlives a step only while stores are being written, the
\* read guard for the whole observed check.
Storing == {"saveToken", "saveAgain", "saveProfile", "writeProfile", "undo",
            "clearProfile"}
Watching == {"observing", "uploading"}
Writing == \E t \in Tasks : task[t].pc \in Storing
Reading == \E t \in Tasks : task[t].pc \in Watching
\* Mutant: readers do not keep writers out.
CanWriteBesideReaders == ~Writing

CanWrite == ~Writing /\ ~Reading
CanRead == ~Writing

\* A completing poll also holds the mutex of the pairing state.
MutexFree == \A t \in Tasks :
    task[t].pc \in Storing => task[t].op # "connect"

Invalidated == [generation |-> device.generation + 1, pending |-> None]

Current(t) == device.generation = task[t].gen
Session(t) == device.pending # None /\ device.pending.gen = task[t].gen

\* A store operation fails: one of the bounded faults.
Fault == faults < MaxFaults /\ faults' = faults + 1

\* Invocations are alike: a new one is always the same of the free ones.
Start(t, op, loc) ==
    /\ task[t] = Idle
    /\ t = CHOOSE u \in Tasks : task[u] = Idle
    /\ ops < MaxOps
    /\ ops' = ops + 1
    /\ task' = [task EXCEPT ![t] = [Idle EXCEPT !.op = op, !.pc = loc,
                                                !.serial = ops', !.ui = ui'.generation]]
    /\ UNCHANGED <<device, stores, live, faults, kills, cut>>

\* The renderer's loop of this connection is still the latest one.
Ours(t) == ui.generation = task[t].ui

-----------------------------------------------------------------------------
(* The browser connection: begin, poll and the controller's loop *)

StartConnect(t) ==
    /\ ~ui.active
    /\ ui' = [ui EXCEPT !.generation = @ + 1, !.active = TRUE, !.redeem = FALSE]
    /\ Start(t, "connect", "begin")

\* A machine that is already connected is refused.
Begin(t) ==
    /\ At(t, "connect", "begin")
    /\ CanWrite
    /\ IF token # None
       THEN Goto(t, "finish") /\ UNCHANGED <<device, live>>
       ELSE /\ device' = Invalidated
            /\ live' = task[t].serial
            /\ task' = [task EXCEPT ![t].pc = "issue", ![t].gen = device'.generation]
    /\ UNCHANGED <<ui, stores, bounds>>

\* The Hub issues a code, or the request fails or answers nonsense.
Issue(t) ==
    /\ At(t, "connect", "issue")
    /\ \E loc \in {"store", "finish"} : Goto(t, loc)
    /\ UNCHANGED <<ui, device, stores, live, bounds>>

NewSession(t) == [gen |-> task[t].gen, inFlight |-> FALSE, expired |-> FALSE]

StoreSession(t) ==
    /\ At(t, "connect", "store")
    /\ CanWrite
    /\ IF Current(t)
       THEN /\ device' = [device EXCEPT !.pending = NewSession(t)]
            /\ Goto(t, "issued")
       ELSE Goto(t, "finish") /\ UNCHANGED device
    /\ UNCHANGED <<ui, stores, live, bounds>>

Issued(t) ==
    /\ At(t, "connect", "issued")
    /\ IF Ours(t)
       THEN ui' = [ui EXCEPT !.shown = TRUE] /\ Goto(t, "wait")
       ELSE End(t) /\ UNCHANGED ui
    /\ UNCHANGED <<device, stores, live, bounds>>

\* The code's deadline passes.
Expire ==
    /\ device.pending # None
    /\ ~device.pending.expired
    /\ device' = [device EXCEPT !.pending.expired = TRUE]
    /\ UNCHANGED <<ui, stores, task, live, bounds>>

\* One turn of the loop: the native side says canceled, expired or pending,
\* or asks the Hub.
Poll(t) ==
    /\ At(t, "connect", "wait")
    /\ \/ ~Ours(t) /\ End(t) /\ UNCHANGED device
       \/ /\ Ours(t) /\ MutexFree
          /\ \/ ~Session(t) /\ Goto(t, "finish") /\ UNCHANGED device
             \/ /\ Session(t) /\ device.pending.expired
                /\ device' = [device EXCEPT !.pending = None]
                /\ Goto(t, "finish")
             \/ /\ Session(t) /\ ~device.pending.expired /\ ~device.pending.inFlight
                /\ device' = [device EXCEPT !.pending.inFlight = TRUE]
                /\ Goto(t, "polling")
    /\ UNCHANGED <<ui, stores, live, bounds>>

\* "garbled": an approval without a usable profile; "error": no answer.
Answers == {"approved", "garbled", "pending", "refused", "error"}

PollAnswer(t) ==
    /\ At(t, "connect", "polling")
    /\ \E answer \in Answers :
           task' = [task EXCEPT ![t].pc = "answered", ![t].answer = answer]
    /\ UNCHANGED <<ui, device, stores, live, bounds>>

Polled(answer) == [device EXCEPT !.pending.inFlight = FALSE]

\* The answer is taken under the lock, if the session is still the one that
\* asked: an expired session drops even an approval.
PollStore(t) ==
    LET answer == task[t].answer
        goto(loc) == task' = [task EXCEPT ![t].pc = loc, ![t].answer = None]
        drop == device' = [device EXCEPT !.pending = None]
    IN /\ At(t, "connect", "answered")
       /\ CanWrite
       /\ \/ ~Session(t) /\ goto("wait") /\ UNCHANGED device
          \/ /\ Session(t)
             /\ \/ device.pending.expired /\ drop /\ goto("finish")
                \/ /\ ~device.pending.expired
                   /\ \/ /\ answer \in {"pending", "error"}
                         /\ device' = Polled(answer)
                         /\ goto("wait")
                      \/ answer = "refused" /\ drop /\ goto("finish")
                      \/ answer = "garbled" /\ drop /\ goto("wait")
                      \/ answer = "approved" /\ drop /\ goto("saveToken")
       /\ UNCHANGED <<ui, stores, live, bounds>>

\* onPaired: the connection is being finished, the listener started.
Paired(t) ==
    /\ At(t, "connect", "saved")
    /\ IF Ours(t)
       THEN /\ ui' = [ui EXCEPT !.completing = TRUE, !.shown = FALSE]
            /\ Goto(t, "launch")
       ELSE End(t) /\ UNCHANGED ui
    /\ UNCHANGED <<device, stores, live, bounds>>

Launched(t) ==
    /\ At(t, "connect", "launch")
    /\ Goto(t, "finish")
    /\ UNCHANGED <<ui, device, stores, live, bounds>>

\* finally: the loop that is still the latest cancels its session.
Finish(t) ==
    /\ At(t, "connect", "finish")
    /\ IF Ours(t) THEN Goto(t, "cancel") ELSE End(t)
    /\ UNCHANGED <<ui, device, stores, live, bounds>>

-----------------------------------------------------------------------------
(* The one-time code *)

StartRedeem(t) ==
    /\ ui.redeem
    /\ ui' = [ui EXCEPT !.redeem = FALSE]
    /\ Start(t, "redeem", "lock")

RedeemLock(t) ==
    /\ At(t, "redeem", "lock")
    /\ CanWrite
    /\ device' = Invalidated
    /\ live' = task[t].serial
    /\ task' = [task EXCEPT ![t].pc = "redeeming", ![t].gen = device'.generation]
    /\ UNCHANGED <<ui, stores, bounds>>

RedeemAnswer(t) ==
    /\ At(t, "redeem", "redeeming")
    /\ \E loc \in {"redeemed", "failed"} : Goto(t, loc)
    /\ UNCHANGED <<ui, device, stores, live, bounds>>

\* Mutant: a late code is redeemed whatever happened since.
RedeemStoreBlindly(t) ==
    /\ At(t, "redeem", "redeemed")
    /\ CanWrite
    /\ Goto(t, "saveToken")
    /\ UNCHANGED <<ui, device, stores, live, bounds>>

RedeemStore(t) ==
    /\ At(t, "redeem", "redeemed")
    /\ CanWrite
    /\ Goto(t, IF Current(t) THEN "saveToken" ELSE "failed")
    /\ UNCHANGED <<ui, device, stores, live, bounds>>

\* The listener has been started, or nothing was paired.
RedeemEnd(t) ==
    /\ At(t, "redeem", "saved") \/ At(t, "redeem", "failed")
    /\ End(t)
    /\ ui' = [ui EXCEPT !.redeem = TRUE]
    /\ UNCHANGED <<device, stores, live, bounds>>

-----------------------------------------------------------------------------
(* complete_pairing_response, under the write lock: token, then profile *)

\* A refused credential is deleted and set once more, unless the user said no.
SaveToken(t) ==
    /\ task[t].pc = "saveToken"
    /\ \/ token' = task[t].serial /\ Goto(t, "saveProfile") /\ UNCHANGED faults
       \/ Fault /\ Goto(t, "failed") /\ UNCHANGED token
       \/ Fault /\ Goto(t, "saveAgain") /\ token' \in {None, token}
    /\ UNCHANGED <<ui, device, profile, live, ops, kills, cut>>

SaveAgain(t) ==
    /\ task[t].pc = "saveAgain"
    /\ \/ token' = task[t].serial /\ Goto(t, "saveProfile") /\ UNCHANGED faults
       \/ Fault /\ Goto(t, "failed") /\ UNCHANGED token
    /\ UNCHANGED <<ui, device, profile, live, ops, kills, cut>>

\* The file is written in place: cut off first, then filled.
SaveProfile(t) ==
    /\ task[t].pc = "saveProfile"
    /\ \/ profile' = Torn /\ Goto(t, "writeProfile") /\ UNCHANGED faults
       \/ Fault /\ Goto(t, "undo") /\ UNCHANGED profile
    /\ UNCHANGED <<ui, device, token, live, ops, kills, cut>>

WriteProfile(t) ==
    /\ task[t].pc = "writeProfile"
    /\ \/ profile' = task[t].serial /\ Goto(t, "saved") /\ UNCHANGED faults
       \/ Fault /\ Goto(t, "undo") /\ UNCHANGED profile
    /\ UNCHANGED <<ui, device, token, live, ops, kills, cut>>

\* Mutant: the token of the pairing that failed is kept.
UndoNothing(t) ==
    /\ task[t].pc = "undo"
    /\ Goto(t, "failed")
    /\ UNCHANGED <<ui, device, stores, live, bounds>>

\* The token of a pairing without a profile is cleared; a failure is ignored.
UndoToken(t) ==
    /\ task[t].pc = "undo"
    /\ Goto(t, "failed")
    /\ \/ token' = None /\ UNCHANGED faults
       \/ Fault /\ UNCHANGED token
    /\ UNCHANGED <<ui, device, profile, live, ops, kills, cut>>

\* The poll that could not store its approval returns an error: the loop
\* goes on and learns that its session is gone.
PollFailed(t) ==
    /\ At(t, "connect", "failed")
    /\ Goto(t, "wait")
    /\ UNCHANGED <<ui, device, stores, live, bounds>>

-----------------------------------------------------------------------------
(* Cancel and reset *)

\* The button is shown beside the code, and dead while completing.
StartCancel(t) ==
    /\ ui.shown
    /\ ~ui.completing
    /\ ui' = [ui EXCEPT !.generation = @ + 1]
    /\ Start(t, "cancel", "cancel")

\* cancel_runner_device_pairing, called by Cancel, Disconnect and the loop.
Cancel(t) ==
    /\ task[t].pc = "cancel"
    /\ CanWrite
    /\ device' = Invalidated
    /\ live' = None
    /\ Goto(t, "canceled")
    /\ UNCHANGED <<ui, stores, bounds>>

\* Mutant: the loop that ends gives nothing back to the page.
CanceledInSilence(t) ==
    /\ task[t].pc = "canceled"
    /\ IF task[t].op = "reset" THEN Goto(t, "reset") ELSE End(t)
    /\ ui' = IF task[t].op = "connect" THEN ui
             ELSE [ui EXCEPT !.active = FALSE, !.shown = FALSE, !.redeem = TRUE]
    /\ UNCHANGED <<device, stores, live, bounds>>

\* The controller does not look at its generation again.
Canceled(t) ==
    /\ task[t].pc = "canceled"
    /\ ui' = [ui EXCEPT !.active = FALSE, !.shown = FALSE, !.redeem = TRUE,
                        !.completing = @ /\ task[t].op # "connect"]
    /\ IF task[t].op = "reset" THEN Goto(t, "reset") ELSE End(t)
    /\ UNCHANGED <<device, stores, live, bounds>>

\* Disconnect; a connection in progress is canceled first.
StartReset(t) ==
    /\ ~ui.completing
    /\ ui' = [ui EXCEPT !.generation = IF ui.active THEN @ + 1 ELSE @]
    /\ Start(t, "reset", IF ui.active THEN "cancel" ELSE "reset")

\* A user who refuses the credential store's prompt keeps the token, and the
\* profile is cleared all the same.
Reset(t) ==
    /\ At(t, "reset", "reset")
    /\ CanWrite
    /\ device' = Invalidated
    /\ live' = None
    /\ \/ token' = None /\ Goto(t, "clearProfile") /\ UNCHANGED faults
       \/ Fault /\ UNCHANGED token /\ Goto(t, "clearProfile")
       \/ Fault /\ UNCHANGED token /\ End(t)
    /\ UNCHANGED <<ui, profile, ops, kills, cut>>

ClearProfile(t) ==
    /\ task[t].pc = "clearProfile"
    /\ End(t)
    /\ \/ profile' = None /\ UNCHANGED faults
       \/ Fault /\ UNCHANGED profile
    /\ UNCHANGED <<ui, device, token, live, ops, kills, cut>>

-----------------------------------------------------------------------------
(* The observed check: one pairing from its start to its upload *)

StartObserve(t) ==
    /\ UNCHANGED ui
    /\ Start(t, "observe", "observe")

ObserveLock(t) ==
    /\ At(t, "observe", "observe")
    /\ CanRead
    /\ IF profile \in {None, Torn} \/ token = None
       THEN End(t)
       ELSE task' = [task EXCEPT ![t].pc = "observing", ![t].seen = stores]
    /\ UNCHANGED <<ui, device, stores, live, bounds>>

\* The helper has finished or failed; the pairing is compared once more.
ObserveCheck(t) ==
    /\ At(t, "observe", "observing")
    /\ \/ stores = task[t].seen /\ Goto(t, "uploading")
       \/ End(t)
    /\ UNCHANGED <<ui, device, stores, live, bounds>>

ObserveUpload(t) ==
    /\ At(t, "observe", "uploading")
    /\ End(t)
    /\ UNCHANGED <<ui, device, stores, live, bounds>>

-----------------------------------------------------------------------------
\* The Desktop is killed: only the stores survive.
Kill ==
    /\ kills < MaxKills
    /\ kills' = kills + 1
    /\ cut' = (cut \/ Writing)
    /\ ui' = NoUi
    /\ device' = NoDevice
    /\ task' = [t \in Tasks |-> Idle]
    /\ live' = None
    /\ UNCHANGED <<stores, ops, faults>>

Connect(t) ==
    \/ Issue(t) \/ Issued(t) \/ Poll(t) \/ PollAnswer(t) \/ Paired(t)
    \/ Launched(t) \/ Finish(t) \/ PollFailed(t) \/ Canceled(t)
Locked(t) ==
    \/ Begin(t) \/ StoreSession(t) \/ PollStore(t) \/ RedeemLock(t)
    \/ RedeemStore(t) \/ Cancel(t) \/ Reset(t) \/ ObserveLock(t)
Stored(t) ==
    \/ SaveToken(t) \/ SaveAgain(t) \/ SaveProfile(t) \/ WriteProfile(t)
    \/ UndoToken(t) \/ ClearProfile(t)
Others(t) ==
    \/ RedeemAnswer(t) \/ RedeemEnd(t) \/ ObserveCheck(t) \/ ObserveUpload(t)

Invoked(t) ==
    \/ StartConnect(t) \/ StartRedeem(t) \/ StartCancel(t) \/ StartReset(t)
    \/ StartObserve(t)

Next ==
    \/ \E t \in Tasks :
           Invoked(t) \/ Connect(t) \/ Locked(t) \/ Stored(t) \/ Others(t)
    \/ Expire
    \/ Kill

Spec == Init /\ [][Next]_vars

\* Requests have timeouts, stores answer, deadlines pass, and tokio's lock
\* serves its waiters in turn.
Fairness ==
    /\ WF_vars(Expire)
    /\ \A t \in Tasks : /\ WF_vars(Connect(t) \/ Stored(t) \/ Others(t))
                        /\ SF_vars(Locked(t))

FairSpec == Spec /\ Fairness

-----------------------------------------------------------------------------
(* Properties *)

Serials == 1 .. MaxOps

\* TypeOK: the shape of the state; a session's poll is the one of a loop, a
\* pairing the serial of an attempt.
TypeOK ==
    /\ ui \in [generation : Nat, active : BOOLEAN, completing : BOOLEAN,
               shown : BOOLEAN, redeem : BOOLEAN]
    /\ device.generation \in Nat
    /\ device.pending = None \/ device.pending.gen \in 1 .. device.generation
    /\ token \in Serials \union {None}
    /\ profile \in Serials \union {None, Torn}
    /\ live \in Serials \union {None}
    /\ \A t \in Tasks : task[t].serial \in 0 .. ops
    /\ ops \in 0 .. MaxOps /\ faults \in 0 .. MaxFaults /\ kills \in 0 .. MaxKills
    /\ cut \in BOOLEAN

\* RestAgrees: when no command is writing them, a token and a profile that
\* are both there come from the same pairing; it takes a kill between the
\* two stores, or a second store that fails, to leave them apart.
RestAgrees ==
    ~Writing /\ ~cut /\ faults < 2 =>
        token = None \/ profile \in {None, Torn} \/ token = profile

\* LateAnswerChangesNothing: an approval or a redeemed code that comes back
\* after the user canceled, disconnected or started another attempt stores
\* nothing: what is stored is what the latest attempt obtained.
LateAnswerChangesNothing ==
    [][/\ token' \notin {token, None} => token' = live
       /\ profile' \notin {profile, None, Torn} => profile' = live]_vars

\* ObservedSeesOnePairing: from its first read to its upload an observed
\* check sees the pairing it started with, whatever is invoked meanwhile.
ObservedSeesOnePairing ==
    \A t \in Tasks : task[t].pc \in Watching => stores = task[t].seen

\* QuietPage: the page is never left busy by nobody.  When no invocation is
\* under way it offers to connect: whoever disabled a button is there to enable
\* it again, although a loop that was overtaken ends without a word.
QuietPage ==
    (\A t \in Tasks : task[t] = Idle) =>
        ~ui.active /\ ~ui.completing /\ ~ui.shown /\ ui.redeem

\* t stands at a lock that is held, or before a poll of its session that is
\* still in flight.
Waits(t) ==
    \/ /\ task[t].pc \in {"begin", "store", "answered", "lock", "redeemed",
                          "cancel", "reset"}
       /\ ~CanWrite
    \/ task[t].pc = "observe" /\ ~CanRead
    \/ /\ At(t, "connect", "wait") /\ Ours(t)
       /\ \/ ~MutexFree
          \/ Session(t) /\ ~device.pending.expired /\ device.pending.inFlight

\* NobodyStalls: the invocations never all wait for each other.
NobodyStalls ==
    (\E t \in Tasks : task[t] # Idle) => \E t \in Tasks : task[t] # Idle /\ ~Waits(t)

\* The Hub may still approve t's code.
Asking(t) == Session(t) /\ ~device.pending.expired

\* The steps an invocation has at most before it, until the Hub is asked again.
StepsAt ==
    [begin |-> 19, issue |-> 18, store |-> 17, issued |-> 16, wait |-> 15, lock |-> 15,
     polling |-> 14, redeeming |-> 14, answered |-> 13, redeemed |-> 13,
     saveToken |-> 12, saveAgain |-> 11, saveProfile |-> 10, writeProfile |-> 9,
     undo |-> 8, saved |-> 7, failed |-> 7, launch |-> 6, finish |-> 5, cancel |-> 4,
     canceled |-> 3, observe |-> 3, reset |-> 2, observing |-> 2, clearProfile |-> 1,
     uploading |-> 1, idle |-> 0]
StepsLeft(t) ==
    IF At(t, "connect", "wait") /\ ~Asking(t) THEN 6 ELSE StepsAt[task[t].pc]

\* InvocationsShrink: every step of an invocation brings it nearer its end, and
\* nothing the others do sends it back; only an answer without a decision, while
\* the code has not expired, makes a connection ask again.  A connection whose
\* session was lost, taken or used up asks no more.
InvocationsShrink ==
    [][\A t \in Tasks : StepsLeft(t) > 0 =>
          \/ StepsLeft(t)' < StepsLeft(t)
          \/ task'[t] = task[t] /\ StepsLeft(t)' = StepsLeft(t)
          \/ At(t, "connect", "answered") /\ Asking(t) /\ At(t, "connect", "wait")']_vars

\* ButtonsComeBack: once the user stops, every connection, cancellation and
\* reset ends and the page offers to connect again, whatever the Hub, the
\* stores and the order of the replies did.
ButtonsComeBack ==
    <>[](~ui.active /\ ~ui.completing /\ ui.redeem)
=============================================================================
