------------------------------- MODULE MCServices -------------------------------
(***************************************************************************)
(* A container, a service the manifest calls a oneshot, and a container    *)
(* the source has dropped.                                                 *)
(***************************************************************************)
EXTENDS Services

ThreeUnits == {"web", "job", "old"}
Job == {"job"}
WebAndOld == {"web", "old"}
WebAndJob == {"web", "job"}
=============================================================================
