------------------------------ MODULE MCLifecycle ------------------------------
(***************************************************************************)
(* Small stories for module Lifecycle.  Paths: MANIFEST.toml, app.container,*)
(* data.volume, init.sh.                                                   *)
(***************************************************************************)
EXTENDS Lifecycle

LifePaths == 1..4
LifeKinds == <<"Manifest", "Container", "Volume", "Script">>
LifeWithin == <<0, 0, 0, 0>>
ManifestPath == 1
AppPath == 2
VolPath == 3
ScriptPath == 4
One == {1}

(* Manifest 2 and 3 name app.container; 3 names the script for every hook. *)
LifeServices == (0 :> {}) @@ <<{}, {2}, {2}>>
LifeHooks == (0 :> {}) @@ <<{}, {}, Hooks>>
Plain == {4}

Gone == <<0, 0, 0, 0>>

Story(revisions, cleanup, backup, migrate, compressed, othersMount, mayCrash) ==
    [revisions |-> revisions, cleanup |-> cleanup, backup |-> backup, migrate |-> migrate,
     compressed |-> compressed, othersMount |-> othersMount, crashes |-> mayCrash]

(* A volume's quadlet changes, alone or with the container's; the component *)
(* leaves with a backup; it comes back, with scripts; the volume is dropped.*)
LifeStories ==
    { Story(<< <<2, 2, 2, 0>>, <<2, 2, 3, 0>>, <<2, 3, 4, 0>> >>, FALSE, TRUE, TRUE, FALSE, FALSE, 0),
      Story(<< <<2, 2, 2, 0>>, <<2, 3, 3, 0>> >>, FALSE, TRUE, TRUE, FALSE, FALSE, 2),
      Story(<< <<2, 2, 2, 0>>, <<2, 2, 3, 0>> >>, FALSE, TRUE, TRUE, TRUE, FALSE, 0),
      Story(<< <<2, 2, 2, 0>>, <<2, 2, 3, 0>> >>, FALSE, TRUE, TRUE, FALSE, TRUE, 0),
      Story(<< <<2, 2, 2, 0>>, Gone >>, TRUE, TRUE, FALSE, FALSE, FALSE, 1),
      Story(<< <<2, 2, 2, 0>>, Gone >>, TRUE, FALSE, FALSE, FALSE, FALSE, 0),
      Story(<< <<3, 2, 2, 2>>, Gone, <<3, 2, 2, 2>>, <<3, 3, 2, 3>> >>, FALSE, TRUE, FALSE, FALSE, FALSE, 0),
      Story(<< <<3, 2, 2, 2>>, <<3, 4, 0, 2>> >>, FALSE, TRUE, FALSE, FALSE, FALSE, 0) }
=============================================================================
