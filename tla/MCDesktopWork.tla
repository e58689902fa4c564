--------------------------- MODULE MCDesktopWork ---------------------------
(* Instances of DesktopWork for TLC.  Commands and process ids are alike;   *)
(* the symmetry is for the safety run only.                                 *)
EXTENDS DesktopWork, TLC

Symmetry == Permutations(Commands) \union Permutations(Pids)

\* Every way to hold a guard: in a slot, in a helper of a family that is
\* shared by ordinary work and maintenance, in a command, or not at all.
MCGuardKinds == {"listen", "stop", "private", "storage", "trim", "clear", "keep"}

\* Every way to wait: for nothing, for a slot, for an output.
MCEndKinds == {"work", "listen", "stop", "clear"}
=============================================================================
