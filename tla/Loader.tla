-------------------------------- MODULE Loader --------------------------------
(***************************************************************************)
(* What a plan compares: the attributes of a host, the two pipelines that  *)
(* load a component (from the source: manifest, overrides, extensions,     *)
(* templates, instances, secrets, combined quadlets; from the host: what   *)
(* is on the disk and in podman's one name space of secrets), and the      *)
(* planning and execution of the differences, secrets included.  Steps are *)
(* atomic here (module Materia cuts them up); systemd, podman, the decoder *)
(* of a vault file and the user are external.                              *)
(***************************************************************************)
EXTENDS PlanSteps, SequencesExt

CONSTANTS
    Comps,        \* assigned names, numbered in their order
    NameOf,       \* [Comps -> what comes before the @]
    InstanceOf,   \* [Comps -> Nat]: what comes after it, 0 for nothing
    Hostname,
    Manifest,     \* the path of MANIFEST.toml
    AppFile,      \* the path of the .app file
    Attrs,        \* names of attributes, and of the secrets made from them
    Stories,      \* what the source and the configuration may be
    MaxMeddling   \* bound: how often the user removes a secret

ASSUME LoaderAssumption ==
    /\ Comps \subseteq Nat \ {0} /\ Attrs \subseteq Nat
    /\ \A c \in Comps : InstanceOf[c] \in Nat
    /\ {Manifest, AppFile} \cap Attrs = {}
    /\ MaxMeddling \in Nat
    /\ \A s \in Stories : s.crashes \in Nat /\ s.appMode \in BOOLEAN

VARIABLES
    story,    \* the revisions of the source, the configuration
    remote,   \* the newest revision
    disk,     \* [Comps -> what the component's directories hold]
    secrets,  \* podman's secrets: what each holds
    units,    \* [path of a container -> content of the unit systemd loaded]
    running,  \* [path of a container -> content it was started from]
    steps, pc, crashes, meddling

host == <<disk, secrets, units, running>>
vars == <<story, remote, host, steps, pc, crashes, meddling>>

Nowhere == [dir |-> FALSE, files |-> <<>>]

Source == story.revisions[remote]

Init ==
    /\ story \in Stories /\ remote = 1
    /\ disk = [c \in Comps |-> Nowhere]
    /\ secrets = <<>> /\ units = <<>> /\ running = <<>>
    /\ steps = <<>> /\ pc = "idle" /\ crashes = 0 /\ meddling = 0

-----------------------------------------------------------------------------
(* Attributes.  A set of attributes is a function from some of Attrs; f @@ *)
(* g is f, then g where f says nothing.                                    *)

At(table, key) == IF key \in DOMAIN table THEN table[key] ELSE <<>>

(* getRolesFromManifest *)
Roles == IF Hostname \in DOMAIN Source.hosts THEN Source.hosts[Hostname].roles ELSE <<>>

(* Mutant: a component's attributes come after the host's.                 *)
ExtractComponentsLast(results, vault, c) ==
    LET rolesOver == FoldLeft(LAMBDA r, role : At(vault.roles, role) @@ r,
                              vault.globals @@ results, Roles)
    IN  At(vault.components, <<NameOf[c], 0>>) @@ (At(vault.hosts, Hostname) @@ rolesOver)

ExtractVaultAttributes(results, vault, c) ==
    LET rolesOver == FoldLeft(LAMBDA r, role : At(vault.roles, role) @@ r,
                              vault.globals @@ results, Roles)
        compOver == At(vault.components, <<NameOf[c], 0>>) @@ rolesOver
        instOver == IF InstanceOf[c] = 0 THEN compOver
                    ELSE At(vault.components, <<NameOf[c], InstanceOf[c]>>) @@ compOver
    IN  At(vault.hosts, Hostname) @@ instOver

(* General files, those of the host's roles, those of the host.            *)
SortedVaultFiles(files) ==
    SelectSeq(files, LAMBDA f : f.scope = "general")
    \o SelectSeq(files, LAMBDA f : f.scope \in Range(Roles))
    \o SelectSeq(files, LAMBDA f : f.scope = Hostname)

(* The decoder adds a file to what it decoded of the files before it: a    *)
(* table replaces the one of that name, the globals are merged.            *)
Decoded(vault, file) == [t \in DOMAIN vault |-> file[t] @@ vault[t]]

EmptyVault == [globals |-> <<>>, roles |-> <<>>, components |-> <<>>, hosts |-> <<>>]

(* Lookup, the same in the three engines *)
Lookup(c) ==
    LET read(acc, file) ==
            LET vault == Decoded(acc.vault, file)
            IN  [vault |-> vault, results |-> ExtractVaultAttributes(acc.results, vault, c)]
    IN  FoldLeft(read, [vault |-> EmptyVault, results |-> <<>>],
                 SortedVaultFiles(Source.vaults)).results

-----------------------------------------------------------------------------
(* Manifests *)

GetAssignedComponents ==
    {c \in Comps : \/ "all" \in DOMAIN Source.hosts /\ c \in Source.hosts["all"].components
                   \/ Hostname \in DOMAIN Source.hosts
                      /\ \/ c \in Source.hosts[Hostname].components
                         \/ \E i \in DOMAIN Roles : c \in At(Source.roles, Roles[i])}

(* Settings.Merge *)
Merged == {"noRestart", "setup", "cleanup"}
MergeSettings(s, o) == (s \ Merged) \cup (o \cap Merged)

(* Go's copy fills no slice of length zero: what the override does not     *)
(* name is lost, its services too.                                         *)
MergeComponentManifests(original, override) ==
    [defaults |-> IF override.defaults # <<>> THEN override.defaults ELSE original.defaults,
     settings |-> MergeSettings({}, override.settings),
     services |-> {},
     secrets  |-> override.secrets]

ExtendComponentManifests(original, extension) ==
    [defaults |-> extension.defaults @@ original.defaults,
     settings |-> MergeSettings(original.settings, extension.settings),
     services |-> original.services \cup extension.services,
     secrets  |-> original.secrets \cup extension.secrets]

(* A map that is not there cannot be extended: the process panics.         *)
Panics(manifest, extension) == manifest.defaults = <<>> /\ extension.defaults # <<>>

-----------------------------------------------------------------------------
(* Resource sets: sequences of resources with different paths *)

PathsOf(rs) == {rs[i].path : i \in DOMAIN rs}
Get(rs, p) == rs[CHOOSE i \in DOMAIN rs : rs[i].path = p]

Set(rs, r) ==
    IF r.path \in PathsOf(rs)
    THEN [i \in DOMAIN rs |-> IF rs[i].path = r.path THEN r ELSE rs[i]]
    ELSE Append(rs, r)

Difference(rs, other) == SelectSeq(rs, LAMBDA r : r.path \notin PathsOf(other))
Intersection(rs, other) == SelectSeq(rs, LAMBDA r : r.path \in PathsOf(other))

SecretResources(manifest) ==
    MapSeq(InOrder(manifest.secrets, <),
           LAMBDA s : [path |-> s, kind |-> "PodmanSecret", content |-> "<UNFILLED_SECRET>"])

-----------------------------------------------------------------------------
(* The pipeline of a source component *)

(* ManifestLoadStage *)
AssignedManifest(c) ==
    LET base == Source.components[NameOf[c]].manifest
        mine == Source.hosts[Hostname]
        overridden == IF c \in DOMAIN mine.overrides
                      THEN MergeComponentManifests(base, mine.overrides[c]) ELSE base
    IN  IF c \in DOMAIN mine.extensions
        THEN ExtendComponentManifests(overridden, mine.extensions[c]) ELSE overridden

(* An assigned host has to be in the manifest itself to have overrides.    *)
ManifestLoads(c) ==
    /\ Hostname \in DOMAIN Source.hosts
    /\ LET mine == Source.hosts[Hostname]
           base == Source.components[NameOf[c]].manifest
       IN  c \in DOMAIN mine.extensions =>
               ~Panics(IF c \in DOMAIN mine.overrides
                       THEN MergeComponentManifests(base, mine.overrides[c]) ELSE base,
                       mine.extensions[c])

(* TemplateProcessorStage fills the defaults into the map of attributes    *)
(* that SecretInjectorStage reads.                                         *)
Variables(c) == Lookup(c) @@ AssignedManifest(c).defaults

Renders(c) ==
    \A i \in DOMAIN Source.components[NameOf[c]].files :
        Source.components[NameOf[c]].files[i].uses \subseteq DOMAIN Variables(c)

Render(body, uses, mounts, c) ==
    [body |-> body, values |-> [a \in uses |-> Variables(c)[a]], mounts |-> mounts]

(* ComponentInstanceStage: "@." in the name of a file.                     *)
Instantiate(c, file) ==
    IF file.instanced /\ InstanceOf[c] # 0 THEN 100 * InstanceOf[c] + file.path ELSE file.path

(* SecretInjectorStage *)
InjectSecrets(c, rs) ==
    MapSeq(SelectSeq(rs, LAMBDA r : r.path \in DOMAIN Variables(c)),
           LAMBDA r : [r EXCEPT !.content = Variables(c)[r.path]])

(* QuadletExpanderStage: what is expanded is not instantiated, and comes   *)
(* last.                                                                   *)
Expand(c, file) ==
    MapSeq(file.chunks, LAMBDA q :
        [path |-> q.path, kind |-> q.kind, content |-> Render(q.body, file.uses, q.mounts, c)])

LoadSource(c) ==
    LET files == Source.components[NameOf[c]].files
        manifest == AssignedManifest(c)
        expands(f) == f.kind = "Combined" /\ "noExpansion" \notin manifest.settings
        plain == MapSeq(SelectSeq(files, LAMBDA f : ~expands(f)), LAMBDA f :
                     [path |-> Instantiate(c, f), kind |-> f.kind,
                      content |-> Render(f.body, f.uses, f.mounts, c)])
        loaded == plain
                  \o << [path |-> Manifest, kind |-> "Manifest",
                         content |-> Source.components[NameOf[c]].manifest] >>
                  \o InjectSecrets(c, SecretResources(manifest))
        expanded == FlattenSeq(MapSeq(SelectSeq(files, expands), LAMBDA f : Expand(c, f)))
        all == FoldLeft(Set, loaded, expanded)
        quadlets == SelectSeq(all, LAMBDA r : IsQuadlet(r.kind))
    IN  [resources |-> all \o (IF story.appMode
                               THEN << [path |-> AppFile, kind |-> "AppFile",
                                        content |-> MapSeq(quadlets, LAMBDA r : r.path)] >>
                               ELSE <<>>),
         settings |-> manifest.settings,
         services |-> {Instantiate(c, s) : s \in manifest.services}]

(* Component.Validate *)
Valid(settings) == ("setup" \in settings) = ("cleanup" \in settings)

SourceLoads(c) == ManifestLoads(c) /\ Renders(c) /\ Valid(AssignedManifest(c).settings)

-----------------------------------------------------------------------------
(* The pipeline of a host component: the manifest is the one on the disk.  *)

Installed == {c \in Comps : disk[c].dir}
Corrupt(c) == disk[c].dir /\ Manifest \notin DOMAIN disk[c].files

(* SecretDiscoveryStage: a secret that podman does not have is not there.  *)
DiscoverSecrets(rs) ==
    MapSeq(SelectSeq(rs, LAMBDA r : r.path \in DOMAIN secrets),
           LAMBDA r : [r EXCEPT !.content = secrets[r.path]])

LoadHost(c) ==
    LET files == disk[c].files
        manifest == files[Manifest].content
        listed == InOrder(DOMAIN files, LAMBDA p, q :
                      \/ p = Manifest /\ q # Manifest
                      \/ q # Manifest /\ IsQuadlet(files[q].kind) /\ ~IsQuadlet(files[p].kind)
                      \/ q # Manifest /\ p < q /\ IsQuadlet(files[p].kind) = IsQuadlet(files[q].kind))
    IN  [resources |-> MapSeq(listed, LAMBDA p :
                           [path |-> p, kind |-> files[p].kind, content |-> files[p].content])
                       \o DiscoverSecrets(SecretResources(manifest)),
         services |-> {Instantiate(c, s) : s \in manifest.services}]

-----------------------------------------------------------------------------
(* Planning *)

Entry(todo, kind, c, p, content) ==
    [todo |-> todo, kind |-> kind, comp |-> c, path |-> p, content |-> content,
     prio |-> DefaultPriority(kind, todo),
     list |-> IF IsServiceAction(todo) THEN "service" ELSE "resource"]

On(todo, c, r) == Entry(todo, r.kind, c, r.path, r.content)
OnService(todo, c, p) == Entry(todo, "Container", c, p, 0)

(* Mutant: secrets are left to podman.                                     *)
RemovedFiles(c, h) ==
    LET listed == SelectSeq(Reverse(h.resources), LAMBDA r : r.path # Manifest) IN
    MapSeq(SelectSeq(listed, LAMBDA r : IsFile(r.kind)), LAMBDA r : On("Remove", c, r))
    \o <<On("Remove", c, Get(h.resources, Manifest)), Entry("Remove", "Component", c, 0, 0)>>

(* generateRemovedComponentResources: a secret and the .app file are no    *)
(* files, and go with the directories.                                     *)
RemovedResources(c, h) ==
    LET listed == SelectSeq(Reverse(h.resources), LAMBDA r : r.path # Manifest) IN
    MapSeq(SelectSeq(listed, LAMBDA r : IsFile(r.kind)), LAMBDA r : On("Remove", c, r))
    \o MapSeq(SelectSeq(listed, LAMBDA r : ~IsFile(r.kind)), LAMBDA r : On("Remove", c, r))
    \o <<On("Remove", c, Get(h.resources, Manifest)), Entry("Remove", "Component", c, 0, 0)>>

FreshResources(c, s) ==
    <<Entry("Install", "Component", c, 0, 0)>>
    \o MapSeq(s.resources, LAMBDA r : On("Install", c, r))

(* Mutant: secrets come with a fresh component only.                       *)
UpdatedFiles(c, h, s) ==
    LET changed == SelectSeq(Intersection(h.resources, s.resources), LAMBDA r :
                       r.content # Get(s.resources, r.path).content)
    IN  MapSeq(Difference(h.resources, s.resources), LAMBDA r : On("Remove", c, r))
        \o MapSeq(SelectSeq(Difference(s.resources, h.resources), LAMBDA r : IsFile(r.kind)),
                  LAMBDA r : On("Install", c, r))
        \o MapSeq(changed, LAMBDA r : On("Update", c, Get(s.resources, r.path)))

(* generateUpdatedComponentResources: an update is of the resource as the  *)
(* host has it; a file is written from the difference, a secret from that  *)
(* resource, so it keeps its value.                                        *)
UpdatedResources(c, h, s) ==
    LET changed == SelectSeq(Intersection(h.resources, s.resources), LAMBDA r :
                       r.content # Get(s.resources, r.path).content)
        written(r) == IF r.kind = "PodmanSecret" THEN r ELSE Get(s.resources, r.path)
    IN  MapSeq(Difference(h.resources, s.resources), LAMBDA r : On("Remove", c, r))
        \o MapSeq(Difference(s.resources, h.resources), LAMBDA r : On("Install", c, r))
        \o MapSeq(changed, LAMBDA r : On("Update", c, written(r)))

Found(p) == p \in DOMAIN units

ServiceActions(c, assigned, installed) ==
    MapSeq(InOrder({p \in installed \ assigned : Found(p)}, <), LAMBDA p : OnService("Stop", c, p))
    \o MapSeq(InOrder({p \in assigned : p \notin DOMAIN running}, <),
              LAMBDA p : OnService("Start", c, p))

(* The triggers of changed containers, unless the manifest has NoRestart.  *)
Triggering(s, resources) ==
    IF "noRestart" \in s.settings THEN <<>>
    ELSE SelectSeq(resources, LAMBDA e : e.kind = "Container" /\ e.path \in PathsOf(s.resources))

(* Planner.Plan for one component, as PlanComponent of module Planner.     *)
PlanFresh(c, s) ==
    [ok |-> TRUE, reload |-> TRUE,
     actions |-> FreshResources(c, s) \o ServiceActions(c, s.services, {})]

PlanRemoved(c, h) ==
    [ok |-> TRUE, reload |-> TRUE,
     actions |-> RemovedResources(c, h) \o ServiceActions(c, {}, h.services)]

PlanUpdated(c, h, s) ==
    LET resources == UpdatedResources(c, h, s)
        triggering == Triggering(s, resources)
    IN  [ok |-> \A i \in DOMAIN triggering : Found(triggering[i].path),
         reload |-> resources # <<>>,
         actions |-> resources
                     \o MapSeq(triggering, LAMBDA e : OnService("Restart", c, e.path))
                     \o ServiceActions(c, s.services, h.services)]

PlanComponent(c, assigned) ==
    CASE disk[c].dir /\ c \in assigned -> PlanUpdated(c, LoadHost(c), LoadSource(c))
      [] disk[c].dir -> PlanRemoved(c, LoadHost(c))
      [] c \in assigned -> PlanFresh(c, LoadSource(c))
      [] OTHER -> [ok |-> TRUE, reload |-> FALSE, actions |-> <<>>]

(* Materia.Plan *)
Failed == [ok |-> FALSE, steps |-> <<>>]

Planned ==
    LET assigned == GetAssignedComponents IN
    IF \/ \E c \in Installed : Corrupt(c)
       \/ \E c \in assigned : ~SourceLoads(c)
    THEN Failed
    ELSE LET part == [c \in Comps |-> PlanComponent(c, assigned)]
             new == Steps([c \in Comps |-> part[c].actions], \E c \in Comps : part[c].reload)
         IN  IF (\A c \in Comps : part[c].ok) /\ ValidSteps(new, Installed)
             THEN [ok |-> TRUE, steps |-> new] ELSE Failed

Plan ==
    /\ pc = "idle"
    /\ steps' = Planned.steps
    /\ pc' = IF Planned.ok THEN "executing" ELSE "failed"
    /\ UNCHANGED <<story, remote, host, crashes, meddling>>

-----------------------------------------------------------------------------
(* Executing *)

IsNext(todos, kinds) ==
    /\ pc = "executing" /\ steps # <<>>
    /\ Head(steps).todo \in todos /\ Head(steps).kind \in kinds

Proceed == steps' = Tail(steps) /\ pc' = pc
Refuse == steps' = <<>> /\ pc' = "idle"

Without(f, x) == [y \in DOMAIN f \ {x} |-> f[y]]

(* The kinds whose handlers write and remove a file.                       *)
WrittenKinds == {"Manifest", "File", "Container", "AppFile"}

ComponentStep ==
    LET c == Head(steps).comp IN
    /\ IsNext({"Install", "Remove"}, {"Component"})
    /\ IF Head(steps).todo = "Install"
       THEN disk' = [disk EXCEPT ![c].dir = TRUE] /\ Proceed
       ELSE IF DOMAIN disk[c].files = {}
       THEN disk' = [disk EXCEPT ![c] = Nowhere] /\ Proceed
       ELSE disk' = disk /\ Refuse
    /\ UNCHANGED <<story, remote, secrets, units, running, crashes, meddling>>

FileStep ==
    LET s == Head(steps) IN
    /\ IsNext({"Install", "Update", "Remove"}, WrittenKinds)
    /\ disk' = [disk EXCEPT ![s.comp].files =
                    IF s.todo = "Remove" THEN Without(@, s.path)
                    ELSE (s.path :> [kind |-> s.kind, content |-> s.content]) @@ @]
    /\ Proceed
    /\ UNCHANGED <<story, remote, secrets, units, running, crashes, meddling>>

(* installOrUpdateSecret replaces; removeSecret needs something to remove. *)
WriteSecret ==
    LET s == Head(steps) IN
    /\ IsNext({"Install", "Update"}, {"PodmanSecret"})
    /\ secrets' = (s.path :> s.content) @@ secrets
    /\ Proceed
    /\ UNCHANGED <<story, remote, disk, units, running, crashes, meddling>>

RemoveSecret ==
    LET s == Head(steps) IN
    /\ IsNext({"Remove"}, {"PodmanSecret"})
    /\ secrets' = Without(secrets, s.path)
    /\ IF s.path \in DOMAIN secrets THEN Proceed ELSE Refuse
    /\ UNCHANGED <<story, remote, disk, units, running, crashes, meddling>>

(* daemon-reload and Quadlet's generator *)
ReloadUnits ==
    LET containers(c) == {p \in DOMAIN disk[c].files : disk[c].files[p].kind = "Container"} IN
    /\ IsNext({"Reload"}, {"Host"})
    /\ units' = [p \in UNION {containers(c) : c \in Comps} |->
                     disk[CHOOSE c \in Comps : p \in containers(c)].files[p].content]
    /\ Proceed
    /\ UNCHANGED <<story, remote, disk, secrets, running, crashes, meddling>>

(* A container whose secret podman does not have does not start.           *)
StartService ==
    LET s == Head(steps) IN
    /\ IsNext({"Start", "Restart"}, {"Container"})
    /\ IF Found(s.path) /\ units[s.path].mounts \subseteq DOMAIN secrets
       THEN /\ running' = IF s.todo = "Start" /\ s.path \in DOMAIN running THEN running
                          ELSE (s.path :> units[s.path]) @@ running
            /\ Proceed
       ELSE /\ running' = running
            /\ Refuse
    /\ UNCHANGED <<story, remote, disk, secrets, units, crashes, meddling>>

StopService ==
    LET s == Head(steps) IN
    /\ IsNext({"Stop"}, {"Container"})
    /\ IF Found(s.path) \/ s.path \in DOMAIN running
       THEN running' = Without(running, s.path) /\ Proceed
       ELSE running' = running /\ Refuse
    /\ UNCHANGED <<story, remote, disk, secrets, units, crashes, meddling>>

Finish ==
    /\ pc = "executing" /\ steps = <<>>
    /\ pc' = "idle" /\ steps' = steps
    /\ UNCHANGED <<story, remote, host, crashes, meddling>>

-----------------------------------------------------------------------------
(* The environment *)

(* Who sees a plan fail runs `materia doctor --remove`.                    *)
RunDoctor ==
    /\ pc = "failed"
    /\ pc' = "idle"
    /\ disk' = [c \in Comps |-> IF Corrupt(c) THEN Nowhere ELSE disk[c]]
    /\ UNCHANGED <<story, remote, secrets, units, running, steps, crashes, meddling>>

Crash ==
    /\ pc = "executing" /\ crashes < story.crashes
    /\ crashes' = crashes + 1
    /\ Refuse
    /\ UNCHANGED <<story, remote, host, meddling>>

Commit ==
    /\ remote < Len(story.revisions)
    /\ remote' = remote + 1
    /\ UNCHANGED <<story, host, steps, pc, crashes, meddling>>

UserRemovesSecret ==
    /\ pc = "idle" /\ meddling < MaxMeddling
    /\ \E s \in DOMAIN secrets : secrets' = Without(secrets, s)
    /\ meddling' = meddling + 1
    /\ UNCHANGED <<story, remote, disk, units, running, steps, pc, crashes>>

Execute ==
    \/ ComponentStep \/ FileStep \/ WriteSecret \/ RemoveSecret
    \/ ReloadUnits \/ StartService \/ StopService \/ Finish

Next == Plan \/ Execute \/ RunDoctor \/ Crash \/ Commit \/ UserRemovesSecret

(* The timer starts update again and again (weak fairness of Plan, said of *)
(* its guard), an update goes on, a failed one is looked at.               *)
Spec ==
    /\ Init /\ [][Next]_vars
    /\ []<>(pc # "idle") /\ WF_vars(Execute) /\ WF_vars(RunDoctor)

-----------------------------------------------------------------------------
(* Properties *)

(* What the comment in SortedVaultFiles promises: a host's file before a   *)
(* role's before a general one; in a file the closest scope; then the      *)
(* host's extension, its override and the component's own defaults.        *)
Ranked(c) ==
    LET scoped(f) == << At(f.hosts, Hostname), At(f.components, <<NameOf[c], InstanceOf[c]>>),
                        At(f.components, <<NameOf[c], 0>>) >>
                     \o MapSeq(Reverse(Roles), LAMBDA r : At(f.roles, r)) \o <<f.globals>>
    IN  FlattenSeq(MapSeq(Reverse(SortedVaultFiles(Source.vaults)), scoped))
        \o <<AssignedManifest(c).defaults>>

Closest(c, a) ==
    LET ranked == Ranked(c)
        says == {i \in DOMAIN ranked : a \in DOMAIN ranked[i]}
    IN  IF says = {} THEN 0 ELSE ranked[CHOOSE i \in says : \A j \in says : i <= j][a]

(* The secrets a component has: those with an attribute.                   *)
Named(c) == {s \in AssignedManifest(c).secrets : Closest(c, s) # 0}

(* Every secret of podman's that has Materia's prefix is named by the      *)
(* manifest of an installed component, so that it leaves with it: whenever *)
(* no update is under way and none was interrupted.                        *)
NoOrphanSecret ==
    pc # "executing" /\ crashes = 0 =>
        \A s \in DOMAIN secrets : \E c \in Installed :
            Manifest \in DOMAIN disk[c].files
            /\ s \in disk[c].files[Manifest].content.secrets

(* A container is started or restarted only with its secrets there, also   *)
(* after the user removed one: it is installed again first.                *)
StartsWithItsSecrets ==
    [][StartService /\ Found(Head(steps).path) =>
           units[Head(steps).path].mounts \subseteq DOMAIN secrets]_vars

AsAssigned(c) ==
    LET s == LoadSource(c) IN
    /\ \A i \in DOMAIN s.resources :
          LET r == s.resources[i] IN
          r.kind # "PodmanSecret" => /\ r.path \in DOMAIN disk[c].files
                                     /\ disk[c].files[r.path].content = r.content
    /\ \A p \in DOMAIN disk[c].files :
          disk[c].files[p].kind \in {"File", "Container"} =>
              \A a \in DOMAIN disk[c].files[p].content.values :
                  disk[c].files[p].content.values[a] = Closest(c, a)
    /\ crashes = 0 => \A p \in s.services :
          p \in DOMAIN running
          /\ ("noRestart" \in s.settings \/ running[p] = disk[c].files[p].content)

Settled ==
    /\ Installed = GetAssignedComponents
    /\ \A c \in Installed : AsAssigned(c)
    /\ DOMAIN secrets = UNION {Named(c) : c \in Installed}
    /\ \A c \in Installed : \A s \in Named(c) : secrets[s] = Closest(c, s)
    /\ crashes = 0 /\ pc = "idle" => Planned.steps = <<>>

(* When the source has its last revision, one that can be planned, the     *)
(* host ends with the files and the secrets of its components, every value *)
(* the closest one, whatever was interrupted; without a crash (which may   *)
(* lose the daemon-reload) with their containers too, and no plan has a    *)
(* step left.                                                              *)
Settles == <>[](remote = Len(story.revisions) => Settled)
===============================================================================
