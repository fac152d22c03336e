----------------------------- MODULE MCMochaLib -----------------------------
(***************************************************************************)
(* Instances of MochaLib for TLC: a Mocha of each API version the commands *)
(* tell apart, an old one and none.                                        *)
(***************************************************************************)
EXTENDS MochaLib, TLC

AllPayloads == {0, 1, 2, OldMocha, NoCfw}
AnyFailure  == ExternalCalls
Symmetric   == Permutations(Fds)
=============================================================================
