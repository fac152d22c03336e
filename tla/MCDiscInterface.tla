--------------------------- MODULE MCDiscInterface ---------------------------
(***************************************************************************)
(* Instances of DiscInterface for TLC: the two discs of the console, each  *)
(* used by a thread of its own, and one handle more than they need.        *)
(***************************************************************************)
EXTENDS DiscInterface, TLC

CONSTANTS sd, usb, t1, t2

DevicesOfBoth == (sd :> <<"sdcard01">>) @@ (usb :> <<"usb01", "usb02">>)
OneEach       == (t1 :> {sd}) @@ (t2 :> {usb})
=============================================================================
