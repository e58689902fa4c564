------------------------------ MODULE WorkGate ------------------------------
(***************************************************************************)
(* What the guards of background.rs promise whoever takes one: ordinary    *)
(* work may share the Desktop, a private benchmark and a maintenance have  *)
(* it to themselves, a guard goes from owner to owner without a gap, and   *)
(* the Desktop quits only when nobody holds one and grants none until it   *)
(* was started again.                                                      *)
(*                                                                         *)
(* There is no counter and no flag here: DesktopWork, whose Lifecycle has  *)
(* both, implements this gate.                                             *)
(***************************************************************************)
CONSTANT Owners    \* commands, and the processes a guard is kept for

VARIABLES
    held,     \* the guard of every owner, or "none"
    phase     \* of the Desktop: "open", "quitting" or "gone"

gateVars == <<held, phase>>

Nobody == \A o \in Owners : held[o] = "none"
OnlyWork == \A o \in Owners : held[o] \in {"none", "work"}

Init ==
    /\ held = [o \in Owners |-> "none"]
    /\ phase = "open"

\* These owners' guards change, nobody else's does.
Changes(owners) ==
    held' = [o \in Owners |-> IF o \in owners THEN held'[o] ELSE held[o]]

\* Ordinary work shares the Desktop with other work, the rest with nothing.
Take(o) ==
    /\ phase = "open"
    /\ held[o] = "none"
    /\ \/ held'[o] = "work" /\ OnlyWork
       \/ held'[o] \in {"exclusive", "maintenance"} /\ Nobody
    /\ Changes({o})
    /\ UNCHANGED phase

\* A command hands its guard to the process it has started.
Pass(o, q) ==
    /\ held[o] # "none" /\ held'[o] = "none"
    /\ held[q] = "none" /\ held'[q] = held[o]
    /\ Changes({o, q})
    /\ UNCHANGED phase

Release(o) ==
    /\ held[o] # "none" /\ held'[o] = "none"
    /\ Changes({o})
    /\ UNCHANGED phase

\* The idle close raises the fence, the exit that follows ends the process.
Quit ==
    /\ \/ phase = "open" /\ phase' \in {"quitting", "gone"}
       \/ phase = "quitting" /\ phase' = "gone"
    /\ Nobody
    /\ UNCHANGED held

Reopen ==
    /\ phase = "gone"
    /\ phase' = "open"
    /\ Nobody
    /\ UNCHANGED held

Next ==
    \/ \E o \in Owners : Take(o) \/ Release(o) \/ \E q \in Owners : Pass(o, q)
    \/ Quit \/ Reopen

Spec == Init /\ [][Next]_gateVars
=============================================================================
