-------------------------- MODULE MCManagedRuntime --------------------------
(* An instance of ManagedRuntime for TLC.                                   *)
EXTENDS ManagedRuntime, TLC

CONSTANTS p1, p2, a, b, c, d, good, bad

Symmetry == Permutations({p1, p2})

\* Three generations: the second offers two targets and moves the targets,
\* the third has the same snapshot and targets under a new timestamp, and
\* "g2x" is the second with its timestamp signed anew, not renumbered.
MCFile ==
    [g1  |-> [root |-> <<1, 0>>, timestamp |-> <<1, 0>>,
              snapshot |-> <<1, 0>>, targets |-> <<1, 0>>],
     g2  |-> [root |-> <<1, 0>>, timestamp |-> <<2, 0>>,
              snapshot |-> <<2, 0>>, targets |-> <<2, 0>>],
     g2x |-> [root |-> <<2, 0>>, timestamp |-> <<2, 1>>,
              snapshot |-> <<2, 0>>, targets |-> <<2, 0>>]]
MCGenerations == DOMAIN MCFile

\* The first targets file offers both targets, the second revokes one.
MCOffered == (<<1, 0>> :> {good, bad}) @@ (<<2, 0>> :> {good})

\* a comes with the Runner; the archive of "bad" holds c instead of b.
MCClaim == good :> b @@ bad :> b
MCArchive == good :> b @@ bad :> c
MCFallback == good :> a @@ bad :> a

Budget(refresh, serve, expire, store, fault, kill) ==
    [refresh |-> refresh, serve |-> serve, expire |-> expire,
     store |-> store, fault |-> fault, kill |-> kill]

\* Two catalog operations beside each other; two store operations, one of
\* them perhaps of a target, beside each other; and a kill or failing write.
MCBudgets ==
    {Budget(2, 2, 1, 0, 0, 1), Budget(1, 0, 1, 2, 0, 1), Budget(1, 0, 0, 3, 1, 0)}
=============================================================================
