--------------------------- MODULE MCRegionSearch ---------------------------
(***************************************************************************)
(* RegionSearch with nine regions, and two regions to the gigabyte.  Ntdll *)
(* is at the bottom of the system's region, near it, and outside.  Two     *)
(* targets jump nowhere, one back, one forward.                            *)
(***************************************************************************)
EXTENDS RegionSearch

MCBases == {4, 10, 12}
MCTargets == {<<3, Null>>, <<9, Null>>, <<15, 8>>, <<6, 13>>}
=============================================================================
