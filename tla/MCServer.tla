------------------------------ MODULE MCServer ------------------------------
(***************************************************************************)
(* Two components; the second revision changes the first and assigns the   *)
(* second.  A server with the update timer and at most one more goroutine. *)
(***************************************************************************)
EXTENDS Server

TwoAssigned == <<{1}, {1, 2}>>
TwoContents == <<<<1, 1>>, <<2, 1>>>>
Beside == {{"sync", "command"}, {"plan", "command"}, {"sync", "hook"}, {"sync", "socket"}}
=============================================================================
