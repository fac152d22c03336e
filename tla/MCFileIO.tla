------------------------------ MODULE MCFileIO ------------------------------
(***************************************************************************)
(* Instances of FileIO for TLC.  Lines of two bytes: a request for whole   *)
(* lines, one up to the first line and one for the rest all occur in one   *)
(* transfer.  h1 transfers and seeks, h2 changes the file under it.        *)
(***************************************************************************)
EXTENDS FileIO, TLC

CONSTANTS h1, h2

AllFlags ==
  {[acc |-> a, append |-> FALSE] : a \in {"rdonly", "wronly", "rdwr"}}
    \cup {[acc |-> a, append |-> TRUE] : a \in {"wronly", "rdwr"}}

FlagsOfBoth == (h1 :> AllFlags) @@ (h2 :> {[acc |-> a, append |-> FALSE] : a \in {"rdonly", "rdwr"}})
TransfersOfBoth == (h1 :> {<<0, 0>>, <<0, 1>>, <<0, 4>>, <<1, 4>>}) @@ (h2 :> {<<0, 1>>})
SeeksOfBoth ==
  (h1 :> {<<"set", 0>>, <<"set", 5>>, <<"cur", -1>>, <<"cur", 0>>, <<"cur", 2>>, <<"end", -1>>})
    @@ (h2 :> {})
LengthsOfBoth == (h1 :> {}) @@ (h2 :> {1, 5})
=============================================================================
