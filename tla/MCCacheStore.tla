---------------------------- MODULE MCCacheStore ----------------------------
(* Instances of CacheStore for TLC.                                          *)
EXTENDS CacheStore, FiniteSetsExt, TLC

CONSTANTS small, large

MCArtifacts == {small, large}
MCSize == small :> 1 @@ large :> 2
MCWeight == [S \in SUBSET MCArtifacts |-> MapThenSumSet(LAMBDA a : MCSize[a], S)]

\* With a limit of 2 either artifact fits and both do not.
MCLimits == {2}

MCRequests ==
    {[kind |-> "run", artifact |-> a] : a \in MCArtifacts}
    \union {[kind |-> "keep", artifact |-> large, keep |-> k] : k \in BOOLEAN}
    \union {[kind |-> "clear", artifacts |-> MCArtifacts]}
    \union [kind : {"limit"}, limit : {2, None}, trim : BOOLEAN]

MCBound == "start" :> 3 @@ "kill" :> 1 @@ "trouble" :> 1 @@ "change" :> 1
=============================================================================
