------------------------------ MODULE MCSources ------------------------------
(***************************************************************************)
(* A repository that names one remote component, then another one, then    *)
(* none.                                                                   *)
(***************************************************************************)
EXTENDS Sources, TLC

TwoRemotes == {"caddy", "mail"}
ThreeCommits == "main" :> 3 @@ "caddy" :> 2 @@ "mail" :> 1
Named == <<{"caddy"}, {"caddy", "mail"}, {}>>
=============================================================================
