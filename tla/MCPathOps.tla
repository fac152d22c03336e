------------------------------ MODULE MCPathOps ------------------------------
(***************************************************************************)
(* Instances of PathOps for TLC: all paths of one or two components, and   *)
(* those of three that "..", "a" and separators make.                      *)
(***************************************************************************)
EXTENDS PathOps, TLC

ShortPaths == UNION {[1 .. n -> Components] : n \in 1 .. 2}
                \cup [1 .. 3 -> {"", "..", "a"}]
MountVol   == <<"", "vol">>
=============================================================================
