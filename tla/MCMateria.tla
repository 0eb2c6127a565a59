------------------------------- MODULE MCMateria -------------------------------
(***************************************************************************)
(* Small hosts and sources for module Materia.                             *)
(***************************************************************************)
EXTENDS Materia, TLC

(* MANIFEST.toml, conf/, conf/app.env, web.container, and the user's        *)
(* web.container.d/, web.container.d/local.conf                            *)
WebPaths == 1..6
WebKinds == <<"Manifest", "Directory", "File", "Container", "DropinDir", "Dropin">>
WebWithin == <<0, 0, 2, 0, 0, 5>>

(* MANIFEST.toml, conf.env *)
PlainPaths == 1..2
PlainKinds == <<"Manifest", "File">>
PlainWithin == <<0, 0>>

ManifestPath == 1

(* Contents 2 and 3 of a manifest name the container, content 4 no service. *)
WebServices == <<{}, {4}, {4}, {}>> @@ (0 :> {})
NoServices == [content \in 0..4 |-> {}]

One == {1}
Two == {1, 2}
OnlyTwo == {2}
Nobody == {}
-----------------------------------------------------------------------------
(* Sources *)

Web(manifest, env, unit) == <<manifest, IF env = 0 THEN 0 ELSE 1, env, unit, 0, 0>>
Nothing == [p \in WebPaths |-> 0]

BadThree == {3}
NoneBad == {}

(* A component arrives, gets a unit that does not start, then one that     *)
(* does while a second component arrives; the first leaves and the second  *)
(* no longer names its service.                                            *)
UpdateFiles ==
    << <<Web(2, 2, 2), Nothing>>,
       <<Web(2, 3, 3), Nothing>>,
       <<Web(3, 3, 4), Web(2, 0, 2)>>,
       <<Nothing, Web(4, 2, 2)>> >>
UpdateAssigned == <<{1}, {1}, {1, 2}, {2}>>

(* A component arrives, changes its files while a second one arrives, and  *)
(* leaves.                                                                 *)
ChangeFiles ==
    << <<Web(2, 2, 2), Nothing>>,
       <<Web(3, 3, 2), Web(2, 0, 2)>>,
       <<Nothing, Web(2, 2, 2)>> >>
ChangeAssigned == <<{1}, {1, 2}, {2}>>

(* The same of components of one file.                                     *)
PairFiles == << << <<2, 2>>, <<0, 0>> >>, << <<2, 3>>, <<2, 2>> >>, << <<0, 0>>, <<2, 3>> >> >>

(* A component changes its unit.                                           *)
UnitFiles == << <<Web(2, 2, 2)>>, <<Web(2, 2, 3)>> >>
AlwaysOne == <<{1}, {1}>>
=============================================================================
