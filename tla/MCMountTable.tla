---------------------------- MODULE MCMountTable ----------------------------
(***************************************************************************)
(* Instances of MountTable for TLC.  SdDev and SdPath are the SD card,     *)
(* UsbDev and UsbPath another device.  LongName does not fit in a slot,    *)
(* ShortName is what is left of it.                                        *)
(***************************************************************************)
EXTENDS MountTable

CONSTANTS SdDev, UsbDev, ShortName, LongName, UsbPath, SdPath

Untruncated == [n \in Names |-> n]
NamesCut    == [n \in Names |-> IF n = LongName THEN ShortName ELSE n]
PathsKept   == [p \in Paths |-> p]

\* The size reported is also the one that stands in for an unknown one.
OneSectorSize == {512}

\* Failures of the external calls: all of them; all that the code recovers
\* from without losing track of anything.
AnyFailure  == ExternalCalls
Recoverable == ExternalCalls \ {"UnlockFSClient", "Unmount"}
=============================================================================
