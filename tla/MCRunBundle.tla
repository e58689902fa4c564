---------------------------- MODULE MCRunBundle ----------------------------
(* Instances of RunBundle for TLC: two deployment profiles, three builds.   *)
EXTENDS RunBundle, TLC

MCProfiles == <<"interactive_chat_v1", "long_context_v1">>
MCOneProfile == <<"interactive_chat_v1">>

MCBound == "kill" :> 1 @@ "trouble" :> 1 @@ "change" :> 2 @@ "attempt" :> 3
MCKillBound == "kill" :> 1 @@ "trouble" :> 0 @@ "change" :> 0 @@ "attempt" :> 1
=============================================================================
