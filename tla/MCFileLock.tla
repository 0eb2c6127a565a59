----------------------------- MODULE MCFileLock -----------------------------
(***************************************************************************)
(* Commands, each a process with one thread, beside a server with two      *)
(* threads whose waits may be cancelled.                                   *)
(***************************************************************************)
EXTENDS FileLock

MixedThreads == {"update1", "update2", "sync", "hook"}
MixedProcesses == {"update1", "update2", "server"}
MixedProcess == [t \in MixedThreads |-> IF t \in {"sync", "hook"} THEN "server" ELSE t]
ServerThreads == {"sync", "hook"}
=============================================================================
