------------------------------- MODULE Actions -------------------------------
(***************************************************************************)
(* The vocabulary of a plan: what an action does (ActionType), to what     *)
(* (ResourceType), with which default priority, and whether the executor   *)
(* has a handler for it.                                                   *)
(***************************************************************************)
EXTENDS Naturals

QuadletKinds == {"Container", "Pod", "Kube", "Network", "Build", "Image", "Volume"}

Kinds == QuadletKinds \cup
    {"Unknown", "Component", "Host", "AppFile", "Combined", "DropinDir", "Dropin",
     "File", "Manifest", "Script", "Directory", "Service", "PodmanSecret"}

Todos == {"Unknown", "Install", "Remove", "Update", "Start", "Stop", "Restart",
          "Reload", "Enable", "Disable", "Ensure", "Setup", "Cleanup", "Mount",
          "Import", "Dump", "Execute"}

IsServiceAction(todo) ==
    todo \in {"Start", "Restart", "Stop", "Reload", "Enable", "Disable"}

IsQuadlet(kind) == kind \in QuadletKinds \cup {"AppFile", "Dropin"}

IsFile(kind) == kind \in QuadletKinds \cup {"File", "Manifest", "Script", "Service"}

-----------------------------------------------------------------------------
(* getDefaultPriority: the pairs a plan accepts, and when each runs.        *)

FileTodos == {"Install", "Update", "Remove"}
UnitTodos == {"Start", "Stop", "Restart", "Reload"}

PlannedTodos(kind) ==
    CASE kind = "Component" -> FileTodos \cup {"Cleanup", "Setup"}
      [] kind \in {"Directory", "DropinDir"} -> {"Install", "Remove"}
      [] kind \in {"Manifest", "AppFile", "Dropin"} -> FileTodos
      [] kind \in {"File", "PodmanSecret"} -> FileTodos \cup {"Cleanup", "Dump"}
      [] kind = "Script" -> FileTodos \cup {"Cleanup", "Dump", "Execute"}
      [] kind = "Volume" -> FileTodos \cup UnitTodos \cup {"Cleanup", "Dump", "Ensure", "Import"}
      [] kind = "Network" -> FileTodos \cup UnitTodos \cup {"Cleanup", "Dump", "Ensure"}
      [] kind \in QuadletKinds \ {"Volume", "Network"} ->
             FileTodos \cup UnitTodos \cup {"Cleanup", "Dump"}
      [] kind = "Service" -> FileTodos \cup UnitTodos \cup {"Enable", "Disable"}
      [] kind = "Host" -> {"Reload"}
      [] OTHER -> {}

(* A component or a directory is made before, and removed after, the files  *)
(* in it.                                                                   *)
IsDirectory(kind) == kind \in {"Component", "Directory", "DropinDir"}

DefaultPriority(kind, todo) ==
    CASE todo = "Stop" -> 1
      [] todo = "Install" /\ IsDirectory(kind) -> 2
      [] todo = "Dump" -> 2
      [] todo = "Cleanup" -> IF kind = "Component" THEN 2 ELSE 7
      [] todo = "Remove" /\ IsDirectory(kind) -> 4
      [] todo = "Import" -> 4
      [] todo = "Reload" -> IF kind = "Host" THEN 4 ELSE 6
      [] todo \in {"Setup", "Ensure"} -> 5
      [] todo \in {"Start", "Restart", "Enable", "Disable"} -> 6
      [] OTHER -> 3

-----------------------------------------------------------------------------
(* handlerList: the pairs the executor can run.                             *)

ServiceTodos == UnitTodos \cup {"Enable", "Disable"}

HandledTodos(kind) ==
    CASE kind = "Component" -> FileTodos
      [] kind = "Volume" -> FileTodos \cup {"Ensure", "Cleanup", "Import", "Dump"}
      [] kind = "Container" -> FileTodos \cup ServiceTodos \cup {"Ensure", "Execute"}
      [] kind = "Pod" -> FileTodos \cup ServiceTodos \cup {"Ensure"}
      [] kind = "Kube" -> FileTodos \cup (ServiceTodos \ {"Reload"}) \cup {"Ensure"}
      [] kind \in {"Network", "Build", "Image"} ->
             FileTodos \cup (ServiceTodos \ {"Reload"}) \cup {"Ensure", "Cleanup"}
      [] kind \in {"Combined", "AppFile", "File", "Dropin", "Manifest", "PodmanSecret"} -> FileTodos
      [] kind = "Script" -> FileTodos \cup {"Setup", "Cleanup", "Execute"}
      [] kind \in {"Directory", "DropinDir"} -> {"Install", "Remove"}
      [] kind = "Host" -> {"Reload"}
      [] kind = "Service" -> FileTodos \cup ServiceTodos
      [] OTHER -> {}

(* Mutant: the reload handler is missing (CHANGELOG.md, 0.6.3).            *)
HasHandlerButReload(kind, todo) == todo \in HandledTodos(kind) \ {"Reload"}

HasHandler(kind, todo) == todo \in HandledTodos(kind)

(* Action.Validate, up to the parent and the diff every planner call gives. *)
ValidAction(kind, todo) == todo # "Unknown" /\ kind # "Unknown"
=============================================================================
