--------------------------- MODULE DiscInterface ---------------------------
(***************************************************************************)
(* The SD card and the USB drive as libfat sees them,                      *)
(* source/disc_interface.c, over the raw FSA calls of source/fsa.cpp.      *)
(*                                                                         *)
(* Per disc there is an IOS handle of /dev/fsa, unlocked by Mocha, and a   *)
(* raw handle obtained through it.  They are global variables without a    *)
(* lock, 0 at load time and made -1 by the first startup: 0 is a handle    *)
(* that looks open, and only `initialized' tells.                          *)
(***************************************************************************)
EXTENDS FiniteSets, Naturals, Sequences

CONSTANTS
  Discs,          \* {sd, usb}
  Devices,        \* [Discs -> the device paths its startup tries, in order]
  Threads,
  Uses,           \* [Threads -> the discs it calls for]
  Fds,            \* IOS handles
  RawFds,         \* raw handles
  Loaded,         \* the 0 of the variables at load time
  NoFd,           \* -1
  NoDisc,
  FirstUseAlone   \* whether the callers keep the first startup to itself

ASSUME ConstantsOK ==
  /\ IsFiniteSet(Discs)
  /\ Devices \in [Discs -> Seq(STRING) \ {<<>>}]
  /\ Uses \in [Threads -> SUBSET Discs]
  /\ Loaded \notin Fds \cup RawFds
  /\ NoFd \notin Fds \cup RawFds \cup {Loaded}
  /\ NoDisc \notin Discs
  /\ FirstUseAlone \in BOOLEAN

VARIABLES
  initialized,
  fsaFd,    \* [Discs -> fsaFdSd, fsaFdUsb]
  rawFd,    \* [Discs -> sdioFd, usbFd]
  client,   \* [Fds -> "closed", "locked" or "unlocked"]
  raw,      \* [RawFds -> <<fd, device>>, or Closed]
  pc, disc, \* where each thread is, and the disc it was called for
  todo,     \* the variables it has yet to initialize
  tried     \* the number of devices it has tried to open

discVars == <<initialized, fsaFd, rawFd>>
iosVars  == <<client, raw>>
vars     == <<discVars, iosVars, pc, disc, todo, tried>>

Closed == <<NoFd, "none">>

Init ==
  /\ initialized = FALSE
  /\ fsaFd = [d \in Discs |-> Loaded]
  /\ rawFd = [d \in Discs |-> Loaded]
  /\ client = [f \in Fds |-> "closed"]
  /\ raw = [r \in RawFds |-> Closed]
  /\ pc = [t \in Threads |-> "idle"]
  /\ disc = [t \in Threads |-> NoDisc]
  /\ todo = [t \in Threads |-> {}]
  /\ tried = [t \in Threads |-> 0]

Goto(t, next) == pc' = [pc EXCEPT ![t] = next]

Step(t, at, next) == pc[t] = at /\ Goto(t, next) /\ UNCHANGED <<disc, todo, tried>>

Return(t) ==
  /\ Goto(t, "idle")
  /\ disc' = [disc EXCEPT ![t] = NoDisc]
  /\ tried' = [tried EXCEPT ![t] = 0]
  /\ UNCHANGED todo

IsSet(fd) == fd # NoFd

\* Mutant of IsInserted: the handles are believed before they are initialized.
IsInsertedAtLoad(d) == IsSet(fsaFd[d]) /\ IsSet(rawFd[d])

\* Mocha_sdio_isInserted and Mocha_usb_isInserted.
IsInserted(d) == initialized /\ IsSet(fsaFd[d]) /\ IsSet(rawFd[d])

\* IOS_Close also takes the raw handles obtained through f.
CloseClient(f) ==
  /\ client' = [g \in Fds |-> IF g = f THEN "closed" ELSE client[g]]
  /\ raw' = [r \in RawFds |-> IF raw[r][1] = f THEN Closed ELSE raw[r]]
-----------------------------------------------------------------------------
(* Startup.                                                                *)

\* What FirstUseAlone keeps the callers from.
MayCall(t) ==
  /\ pc[t] = "idle"
  /\ FirstUseAlone => \A u \in Threads : pc[u] # "clear" /\ (initialized \/ pc[u] = "idle")

Call(t, d, at) ==
  /\ disc' = [disc EXCEPT ![t] = d]
  /\ Goto(t, at)
  /\ UNCHANGED <<discVars, iosVars, todo, tried>>

CallStartup(t) == MayCall(t) /\ \E d \in Uses[t] : Call(t, d, "initialize")

\* Mocha_disc_io_initialize, with every assignment a step.
Initialize(t) ==
  /\ pc[t] = "initialize"
  /\ IF initialized
     THEN Goto(t, "open") /\ UNCHANGED <<initialized, todo>>
     ELSE /\ initialized' = TRUE
          /\ todo' = [todo EXCEPT ![t] = {"fsa", "raw"} \X Discs]
          /\ Goto(t, "clear")
  /\ UNCHANGED <<fsaFd, rawFd, iosVars, disc, tried>>

ClearFd(t) ==
  /\ pc[t] = "clear"
  /\ \E v \in todo[t] :
       /\ todo' = [todo EXCEPT ![t] = @ \ {v}]
       /\ fsaFd' = IF v[1] = "fsa" THEN [fsaFd EXCEPT ![v[2]] = NoFd] ELSE fsaFd
       /\ rawFd' = IF v[1] = "raw" THEN [rawFd EXCEPT ![v[2]] = NoFd] ELSE rawFd
  /\ Goto(t, IF Cardinality(todo[t]) = 1 THEN "open" ELSE "clear")
  /\ UNCHANGED <<initialized, iosVars, disc, tried>>

\* Mocha_disc_io_fsa_open: the IOS handle of the disc, unless it has one.
OpenClient(t) ==
  LET d == disc[t] IN
  /\ pc[t] = "open"
  /\ UNCHANGED <<initialized, rawFd, raw>>
  /\ \/ /\ IsSet(fsaFd[d]) /\ Step(t, "open", "rawopen?")
        /\ UNCHANGED <<fsaFd, client>>
     \/ /\ ~IsSet(fsaFd[d])
        /\ \E f \in Fds :
             /\ client[f] = "closed"
             /\ client' = [client EXCEPT ![f] = "locked"]
             /\ fsaFd' = [fsaFd EXCEPT ![d] = f]
        /\ Step(t, "open", "unlock")
     \/ /\ ~IsSet(fsaFd[d])
        /\ Return(t)
        /\ UNCHANGED <<fsaFd, client>>

\* Mocha_UnlockFSClientEx, which also fails without Mocha_InitLibrary.
Unlock(t) ==
  /\ UNCHANGED <<discVars, raw>>
  /\ \/ /\ Step(t, "unlock", "rawopen?")
        /\ client' = [f \in Fds |-> IF f = fsaFd[disc[t]] THEN "unlocked" ELSE client[f]]
     \/ Step(t, "unlock", "closelocked") /\ UNCHANGED client

\* Mutant of CloseLocked: the handle that could not be unlocked is kept.
CloseLockedKeeps(t) ==
  /\ pc[t] = "closelocked"
  /\ Return(t)
  /\ UNCHANGED <<discVars, iosVars>>

CloseLocked(t) ==
  /\ pc[t] = "closelocked"
  /\ CloseClient(fsaFd[disc[t]])
  /\ fsaFd' = [fsaFd EXCEPT ![disc[t]] = NoFd]
  /\ Return(t)
  /\ UNCHANGED <<initialized, rawFd>>

ReadRawFd(t) ==
  /\ pc[t] = "rawopen?"
  /\ IF IsSet(rawFd[disc[t]]) THEN Return(t)
     ELSE Goto(t, "rawopen") /\ UNCHANGED <<disc, todo, tried>>
  /\ UNCHANGED <<discVars, iosVars>>

\* Mutant of RawOpen: the devices never run out.
RawOpenNoEnd(t) ==
  LET d == disc[t]
      f == fsaFd[d]
  IN /\ pc[t] = "rawopen"
     /\ \/ /\ f \in Fds /\ client[f] = "unlocked"
           /\ \E r \in RawFds :
                /\ raw[r] = Closed
                /\ raw' = [raw EXCEPT ![r] = <<f, Devices[d][tried[t] + 1]>>]
                /\ rawFd' = [rawFd EXCEPT ![d] = r]
           /\ Return(t)
        \/ /\ tried' = [tried EXCEPT ![t] = @ + 1]
           /\ Goto(t, "rawopen")
           /\ UNCHANGED <<raw, rawFd, disc, todo>>
     /\ UNCHANGED <<initialized, fsaFd, client>>

\* FSAEx_RawOpenEx of one device after the other.  A call that fails, for want
\* of memory, of the device or of the right, leaves the variable alone.
RawOpen(t) ==
  LET d == disc[t]
      f == fsaFd[d]
  IN /\ pc[t] = "rawopen"
     /\ \/ /\ f \in Fds /\ client[f] = "unlocked"
           /\ \E r \in RawFds :
                /\ raw[r] = Closed
                /\ raw' = [raw EXCEPT ![r] = <<f, Devices[d][tried[t] + 1]>>]
                /\ rawFd' = [rawFd EXCEPT ![d] = r]
           /\ Return(t)
        \/ /\ tried' = [tried EXCEPT ![t] = @ + 1]
           /\ Goto(t, IF tried'[t] = Len(Devices[d]) THEN "giveup" ELSE "rawopen")
           /\ UNCHANGED <<raw, rawFd, disc, todo>>
     /\ UNCHANGED <<initialized, fsaFd, client>>

\* No device: Mocha_disc_io_fsa_close.
GiveUp(t) ==
  /\ pc[t] = "giveup"
  /\ CloseClient(fsaFd[disc[t]])
  /\ fsaFd' = [fsaFd EXCEPT ![disc[t]] = NoFd]
  /\ rawFd' = [rawFd EXCEPT ![disc[t]] = NoFd]
  /\ Return(t)
  /\ UNCHANGED initialized
-----------------------------------------------------------------------------
(* Shutdown, and the transfers.                                            *)

\* Without a disc, shutdown and the transfers return at once.
CallShutdown(t) ==
  MayCall(t) /\ \E d \in Uses[t] : IsInserted(d) /\ Call(t, d, "rawclose")

\* FSAEx_RawCloseEx; that it failed makes no difference.
RawClose(t) ==
  /\ Step(t, "rawclose", "close")
  /\ \/ raw' = [r \in RawFds |-> IF r = rawFd[disc[t]] THEN Closed ELSE raw[r]]
     \/ UNCHANGED raw
  /\ UNCHANGED <<discVars, client>>

Shutdown(t) ==
  /\ pc[t] = "close"
  /\ CloseClient(fsaFd[disc[t]])
  /\ fsaFd' = [fsaFd EXCEPT ![disc[t]] = NoFd]
  /\ rawFd' = [rawFd EXCEPT ![disc[t]] = NoFd]
  /\ Return(t)
  /\ UNCHANGED initialized

\* readSectors and writeSectors.
CallTransfer(t) ==
  MayCall(t) /\ \E d \in Uses[t] : IsInserted(d) /\ Call(t, d, "transfer")

\* FSAEx_RawReadEx and FSAEx_RawWriteEx: whatever they return, nothing changes.
Transfer(t) ==
  /\ pc[t] = "transfer"
  /\ Return(t)
  /\ UNCHANGED <<discVars, iosVars>>

Next ==
  \E t \in Threads :
    \/ CallStartup(t) \/ Initialize(t) \/ ClearFd(t) \/ OpenClient(t) \/ Unlock(t)
    \/ CloseLocked(t) \/ ReadRawFd(t) \/ RawOpen(t) \/ GiveUp(t)
    \/ CallShutdown(t) \/ RawClose(t) \/ Shutdown(t)
    \/ CallTransfer(t) \/ Transfer(t)

Spec == Init /\ [][Next]_vars
-----------------------------------------------------------------------------
(* Properties.                                                             *)

\* The device paths of a disc.
Paths(d) == {Devices[d][i] : i \in 1 .. Len(Devices[d])}

\* Every variable stays in its range, the handles of the load time included.
TypeOK ==
  /\ initialized \in BOOLEAN
  /\ fsaFd \in [Discs -> Fds \cup {Loaded, NoFd}]
  /\ rawFd \in [Discs -> RawFds \cup {Loaded, NoFd}]
  /\ client \in [Fds -> {"closed", "locked", "unlocked"}]
  /\ raw \in [RawFds -> {Closed} \cup (Fds \X UNION {Paths(d) : d \in Discs})]
  /\ pc \in [Threads -> {"idle", "initialize", "clear", "open", "unlock",
                         "closelocked", "rawopen?", "rawopen", "giveup",
                         "rawclose", "close", "transfer"}]
  /\ disc \in [Threads -> Discs \cup {NoDisc}]
  /\ \A t \in Threads : pc[t] = "idle" <=> disc[t] = NoDisc
  /\ \A t \in Threads :
       /\ todo[t] \subseteq IF pc[t] = "clear" THEN {"fsa", "raw"} \X Discs ELSE {}
       /\ tried[t] < (IF pc[t] = "rawopen" THEN Len(Devices[disc[t]]) ELSE 1)
            \/ pc[t] = "giveup"

\* What a transfer or a shutdown sends to FSA names an open raw handle of the
\* disc it was called for, through the unlocked handle it was opened with: not
\* the 0 from before the first startup, nor what another disc has got since.
IoReachesOwnDevice ==
  \A t \in Threads :
    pc[t] \in {"rawclose", "transfer"} =>
      LET d == disc[t] IN
      /\ fsaFd[d] \in Fds /\ client[fsaFd[d]] = "unlocked"
      /\ rawFd[d] \in RawFds
      /\ raw[rawFd[d]][1] = fsaFd[d] /\ raw[rawFd[d]][2] \in Paths(d)

\* Whichever step of a startup or a shutdown failed, nothing half open is left:
\* between calls, a disc has both of its handles or neither, and IOSU has no
\* other one open.
HandlesBalanced ==
  initialized /\ (\A t \in Threads : pc[t] = "idle") =>
    /\ \A d \in Discs : IsSet(fsaFd[d]) <=> IsSet(rawFd[d])
    /\ {f \in Fds : client[f] # "closed"} = {fsaFd[d] : d \in Discs} \ {NoFd}
    /\ {r \in RawFds : raw[r] # Closed} = {rawFd[d] : d \in Discs} \ {NoFd}
=============================================================================
