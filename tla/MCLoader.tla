-------------------------------- MODULE MCLoader --------------------------------
(***************************************************************************)
(* Small stories for module Loader: web and srv@1 on a host with a role.   *)
(* Paths: 1 app@.container, 2 app.conf, 3 all.quadlets with 4 and 5,       *)
(* 98 the .app file, 99 MANIFEST.toml.  Attributes 201 to 205.             *)
(***************************************************************************)
EXTENDS Loader

Two == {1, 2}
Names == <<"web", "srv">>
Instances == <<0, 1>>
ManifestPath == 99
AppPath == 98
Five == 201..205

File(p, kind, instanced, body, uses, mounts, chunks) ==
    [path |-> p, kind |-> kind, instanced |-> instanced, body |-> body,
     uses |-> uses, mounts |-> mounts, chunks |-> chunks]

Container(body, uses, mounts) == File(1, "Container", TRUE, body, uses, mounts, <<>>)
Conf(body, uses) == File(2, "File", FALSE, body, uses, {}, <<>>)
Combined(body) ==
    File(3, "Combined", FALSE, body, {201}, {},
         << [path |-> 4, kind |-> "Container", body |-> body, mounts |-> {}],
            [path |-> 5, kind |-> "Container", body |-> 1, mounts |-> {}] >>)

Man(defaults, settings, services, mine) ==
    [defaults |-> defaults, settings |-> settings, services |-> services, secrets |-> mine]

App == [path |-> 1, instanced |-> TRUE]
Four4 == [path |-> 4, instanced |-> FALSE]

Comp(manifest, files) == [manifest |-> manifest, files |-> files]

Vault(scope, globals, roles, comps, hosts) ==
    [scope |-> scope, globals |-> globals, roles |-> roles, components |-> comps, hosts |-> hosts]

HostEntry(comps, overrides, extensions) ==
    [components |-> comps, roles |-> <<"base">>, overrides |-> overrides, extensions |-> extensions]

Everyone(comps) == [components |-> comps, roles |-> <<>>, overrides |-> <<>>, extensions |-> <<>>]

Rev(all, mine, roleComps, overrides, extensions, web, srv, vaults) ==
    [hosts |-> ("all" :> Everyone(all)) @@ ("here" :> HostEntry(mine, overrides, extensions)),
     roles |-> "base" :> roleComps,
     components |-> ("web" :> web) @@ ("srv" :> srv),
     vaults |-> vaults]

Story(revisions, appMode, crash) ==
    [revisions |-> revisions, appMode |-> appMode, crashes |-> crash]

(* A host's file, a role's and a general one, in the order of their names.  *)
Vaults ==
    << Vault("other", 201 :> 9, <<>>, <<>>, "here" :> (201 :> 9)),
       Vault("here", <<>>, <<>>, <<"srv", 1>> :> (203 :> 5), "here" :> (201 :> 4)),
       Vault("base", 201 :> 2, "base" :> (202 :> 3), <<>>, <<>>),
       Vault("general", (201 :> 1) @@ (202 :> 1), <<>>,
             <<"srv", 0>> :> (203 :> 6), <<>>) >>

NoComp == Comp(Man(<<>>, {}, {}, {}), <<>>)
Web1 == Comp(Man(204 :> 8, {}, {App}, {202}), <<Container(1, {201, 204}, {202}), Conf(1, {204})>>)
Web2 == Comp(Man(204 :> 7, {}, {App}, {202, 204}), <<Container(2, {201}, {202, 204}), Conf(1, {204})>>)
Web3 == Comp(Man(204 :> 7, {}, {App}, {202, 204}), <<Container(1, {201}, {202}), Conf(1, {204})>>)
Web4 == Comp(Man(204 :> 7, {}, {App}, {201, 202}), <<Container(1, {201}, {202}), Conf(2, {204})>>)
Srv1 == Comp(Man(203 :> 1, {"setup", "cleanup"}, {App}, {203, 205}), <<Container(1, {203}, {203})>>)
Srv2 == Comp(Man(203 :> 1, {}, {App}, {}), <<Container(2, {203}, {})>>)

Quadlets(body, settings) ==
    Comp(Man(204 :> 8, settings, {Four4}, {}), <<Conf(body, {204}), Combined(body)>>)

Data(body, defaults) ==
    Comp(Man(defaults, {}, {}, {}), <<Container(body, {203, 204}, {}), Conf(1, {204})>>)

Shared == Comp(Man(204 :> 8, {}, {App}, {202}), <<Container(1, {201}, {202})>>)
Unknown == Comp(Man(<<>>, {}, {}, {}), <<Conf(1, {205})>>)
Unpaired == Comp(Man(<<>>, {"setup"}, {}, {}), <<Conf(1, {})>>)
Bare == Comp(Man(<<>>, {"noRestart"}, {}, {}), <<Conf(1, {201})>>)

None == <<>>
On1(manifest) == 1 :> manifest

Grow1 == Rev({1}, {}, {}, None, None, Web1, Srv1, Vaults)
Grow2 == Rev({1}, {}, {2}, None, None, Web2, Srv1, Vaults)
Grow3 == Rev({}, {}, {2}, None, None, Web2, Srv2, Vaults)

Both(web, all) == Rev(all, {}, {}, None, None, web, web, Vaults)

Tuned(web, overrides, extensions) == Rev({}, {1}, {}, overrides, extensions, web, NoComp, Vaults)
Default6 == Man(204 :> 6, {}, {}, {})
Extended == Man(203 :> 2, {}, {App}, {})

(* A component comes, another follows and the first one leaves; the same,  *)
(* interrupted; combined quadlets; defaults overridden and extended; two   *)
(* components with one secret; sources that cannot be planned.             *)
LoaderStories ==
    { Story(<<Grow1, Grow2, Grow3>>, FALSE, 0),
      Story(<<Rev({1}, {}, {}, None, None, Web3, Srv1, Vaults),
              Rev({1}, {}, {2}, None, None, Web4, Srv1, Vaults)>>, TRUE, 2),
      Story(<<Both(Quadlets(1, {"noRestart"}), {1}), Both(Quadlets(2, {"noRestart"}), {1}),
              Both(NoComp, {})>>, TRUE, 1),
      Story(<<Both(Quadlets(1, {}), {1}), Both(Quadlets(2, {}), {1})>>, FALSE, 0),
      Story(<<Tuned(Data(1, 204 :> 8), On1(Default6), On1(Extended)),
              Tuned(Data(2, 204 :> 9), None, On1(Extended))>>, FALSE, 0),
      Story(<<Both(Shared, {1, 2}), Both(Shared, {1})>>, FALSE, 0),
      Story(<<Both(Shared, {1, 2}), Both(Shared, {})>>, FALSE, 0),
      Story(<<Both(Unknown, {1}), Both(Unpaired, {1}), Both(Quadlets(1, {"noExpansion"}), {1}),
              Tuned(Bare, None, On1(Extended)),
              [Both(Bare, {1}) EXCEPT !.hosts = "all" :> Everyone({1})],
              Both(Bare, {1})>>, FALSE, 0) }
================================================================================
