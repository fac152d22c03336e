-------------------------- MODULE MCFileAttributes --------------------------
(***************************************************************************)
(* Instances of FileAttributes for TLC: two modes that differ in every     *)
(* permission bit, one of them with a bit FSA does not know.               *)
(***************************************************************************)
EXTENDS FileAttributes, TLC

OddMode  == {0, 5, 7, 8, 11}
EvenMode == {1, 2, 3, 4, 6}
TwoModes == {OddMode, EvenMode}
NamesKept == [n \in Names \cup {NoEntry} |-> n]
Symmetric == Permutations(Threads)
=============================================================================
