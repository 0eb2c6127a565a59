---------------------------- MODULE HostRepository ----------------------------
(***************************************************************************)
(* One installed component on the disk: its directory under the data       *)
(* prefix, its directory under the quadlet prefix, and the file-system     *)
(* calls the executor's handlers make through HostComponentRepository.     *)
(* Each call either applies or is refused by the file system; a handler    *)
(* stops at the first call that fails.                                     *)
(***************************************************************************)
EXTENDS Actions, Sequences, FiniteSets

CONSTANTS
    Paths,     \* the paths a component may hold, numbered in WalkDir's order
    KindOf,    \* [Paths -> FileKinds]
    Within,    \* [Paths -> Paths \cup {0}]: the directory that holds a path
    Manifest   \* the path of MANIFEST.toml

(* The kinds that are modelled; a script's handler also keeps a copy in    *)
(* the scripts directory (module Lifecycle).                               *)
FileKinds ==
    {"Manifest", "File", "Container", "Volume", "Script", "Directory", "Dropin", "DropinDir"}

(* A quadlet is at the top of its component (a drop-in of it in the        *)
(* directory of that drop-in), as Quadlet expects it.                      *)
ASSUME RepositoryAssumption ==
    /\ Paths \subseteq Nat \ {0} /\ IsFiniteSet(Paths)
    /\ KindOf \in [Paths -> FileKinds]
    /\ Within \in [Paths -> Paths \cup {0}]
    /\ \A p \in Paths : Within[p] # 0 =>
          /\ Within[p] < p
          /\ KindOf[Within[p]] = IF KindOf[p] = "Dropin" THEN "DropinDir" ELSE "Directory"
          /\ KindOf[p] \in {"Dropin", "File", "Script", "Directory"}
    /\ Manifest \in Paths /\ KindOf[Manifest] = "Manifest" /\ Within[Manifest] = 0

(* What a path holds: nothing, an empty file (also what stands for a       *)
(* directory), or one of the contents a revision gives it.                 *)
Absent == 0
Blank  == 1

(* .component_version is missing, holds DefaultComponentVersion, or is     *)
(* anything else (a truncated file reads as version 0).                    *)
Directories ==
    [data : BOOLEAN, quadlets : BOOLEAN, managed : BOOLEAN,
     version : {"none", "current", "other"}, at : [Paths -> Nat]]

NoComponent ==
    [data |-> FALSE, quadlets |-> FALSE, managed |-> FALSE,
     version |-> "none", at |-> [p \in Paths |-> Absent]]

InQuadlets(p) == IsQuadlet(KindOf[p]) \/ KindOf[p] = "DropinDir"

Held(d) == {p \in Paths : d.at[p] # Absent}

HomeExists(d, p) ==
    IF Within[p] # 0 THEN d.at[Within[p]] # Absent
    ELSE IF InQuadlets(p) THEN d.quadlets ELSE d.data

-----------------------------------------------------------------------------
(* GetComponent: a component whose manifest or whose quadlet directory is  *)
(* missing cannot be loaded.                                               *)
LoadsWithoutManifest(d) == d.data /\ d.quadlets  \* a mutant

Loads(d) == d.data /\ d.quadlets /\ d.at[Manifest] # Absent

Corrupt(d) == d.data /\ ~Loads(d)

(* The order of its resources: the manifest, the data directory, the       *)
(* quadlet directory.                                                      *)
HostOrder(p, q) ==
    LET rank(r) == IF r = Manifest THEN 0 ELSE IF InQuadlets(r) THEN 2 ELSE 1
    IN  rank(p) < rank(q) \/ (rank(p) = rank(q) /\ p < q)

-----------------------------------------------------------------------------
(* The calls *)

Call(op, c, p, content) == [op |-> op, comp |-> c, path |-> p, content |-> content]

(* InstallComponent, UpdateComponent, RemoveComponent, InstallResource and *)
(* RemoveResource as the calls they make.                                  *)
FileOps(kind, todo) ==
    CASE kind = "Component" /\ todo = "Install" ->
             <<"mkdirData", "mkdirQuadlets", "writeManaged", "writeVersion">>
      [] kind = "Component" /\ todo = "Update" -> <<"writeVersion">>
      [] kind = "Component" /\ todo = "Remove" ->
             <<"removeVersion", "rmdirData", "removeManaged", "rmdirQuadlets">>
      [] kind = "Directory" /\ todo = "Install" -> <<"mkdir">>
      [] kind # "Component" /\ todo = "Remove" -> <<"remove">>
      [] OTHER -> <<"write">>

FileCalls(s) ==
    LET ops == FileOps(s.kind, s.todo)
    IN  [i \in DOMAIN ops |-> Call(ops[i], s.comp, s.path, s.content)]

(* RemoveComponent refuses a data directory that still holds a file, and   *)
(* removes what directories are left parent first, so one that holds a     *)
(* directory is refused too.  RemoveResource looks for a drop-in directory *)
(* under the data prefix, where there is none.                             *)
Applies(d, k) ==
    CASE k.op = "mkdirData"     -> ~d.data
      [] k.op = "mkdirQuadlets" -> ~d.quadlets
      [] k.op = "writeManaged"  -> d.quadlets
      [] k.op = "writeVersion"  -> d.data
      [] k.op = "removeVersion" -> d.version # "none"
      [] k.op = "rmdirData"     -> d.data /\ \A p \in Held(d) : InQuadlets(p)
      [] k.op = "removeManaged" -> d.managed
      [] k.op = "rmdirQuadlets" -> d.quadlets /\ ~d.managed /\ \A p \in Held(d) : ~InQuadlets(p)
      [] k.op = "mkdir"         -> d.data /\ d.at[k.path] = Absent /\ HomeExists(d, k.path)
      [] k.op = "write"         -> HomeExists(d, k.path)
      [] k.op = "remove"        -> /\ KindOf[k.path] # "DropinDir"
                                   /\ d.at[k.path] # Absent
                                   /\ \A p \in Held(d) : Within[p] # k.path
      [] OTHER -> FALSE

After(d, k) ==
    CASE k.op = "mkdirData"     -> [d EXCEPT !.data = TRUE]
      [] k.op = "mkdirQuadlets" -> [d EXCEPT !.quadlets = TRUE]
      [] k.op = "writeManaged"  -> [d EXCEPT !.managed = TRUE]
      [] k.op = "writeVersion"  -> [d EXCEPT !.version = "current"]
      [] k.op = "removeVersion" -> [d EXCEPT !.version = "none"]
      [] k.op = "rmdirData"     -> [d EXCEPT !.data = FALSE]
      [] k.op = "removeManaged" -> [d EXCEPT !.managed = FALSE]
      [] k.op = "rmdirQuadlets" -> [d EXCEPT !.quadlets = FALSE]
      [] k.op = "mkdir"         -> [d EXCEPT !.at[k.path] = Blank]
      [] k.op = "write"         -> [d EXCEPT !.at[k.path] = k.content]
      [] OTHER                  -> [d EXCEPT !.at[k.path] = Absent]

(* What an interrupted os.WriteFile leaves: an empty file.                 *)
Torn(d, k) ==
    CASE k.op = "write" /\ Applies(d, k)        -> [d EXCEPT !.at[k.path] = Blank]
      [] k.op = "writeVersion" /\ Applies(d, k) -> [d EXCEPT !.version = "other"]
      [] OTHER -> d
=============================================================================
