----------------------------- MODULE MCFileOpen -----------------------------
(***************************************************************************)
(* Instances of FileOpen for TLC: two callers with every combination of    *)
(* flags, and one FSA handle more than they need.                          *)
(***************************************************************************)
EXTENDS FileOpen, TLC

AnyFailure == FsaCalls
Symmetric  == Permutations(FdSet) \cup Permutations(Callers)
=============================================================================
