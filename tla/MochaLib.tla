------------------------------ MODULE MochaLib ------------------------------
(***************************************************************************)
(* The library's lifecycle and its commands, source/utils.cpp.             *)
(*                                                                         *)
(* Three globals, mochaInitDone, iosuhaxHandle and mochaApiVersion, are    *)
(* read and written by every function and guarded by nothing.  Each access *)
(* to one of them and each call into IOSU is a step of its own, so that    *)
(* calls of several threads interleave the way they do in the program.     *)
(*                                                                         *)
(* The other side is IOSU: a table of open handles, whose numbers are      *)
(* used again once closed, and a Mocha payload of some version, or an old  *)
(* one without versions, or none.                                          *)
(***************************************************************************)
EXTENDS Naturals, FiniteSets

CONSTANTS
  Threads,     \* callers of the library
  Lifecycle,   \* those that call InitLibrary and DeInitLibrary
  Launchers,   \* those that call LaunchRPX
  Fds,         \* IOS handles
  Payloads,    \* what may be running: versions, OldMocha or NoCfw
  MayFail      \* the external calls that may fail in this instance

\* Sentinels: a negative handle, no call, and the two payloads without version.
CONSTANTS NoFd, NoCall, OldMocha, NoCfw

ExternalCalls == {"open", "ioctl", "title", "memalign", "argument"}

ASSUME ConstantsOK ==
  /\ Lifecycle \subseteq Threads
  /\ Launchers \subseteq Threads
  /\ NoFd \notin Fds
  /\ Payloads \subseteq Nat \cup {OldMocha, NoCfw}
  /\ OldMocha \notin Nat /\ NoCfw \notin Nat
  /\ MayFail \subseteq ExternalCalls

\* The commands that need a running Mocha, and the API version they ask for.
\* RevertRPXLaunch is PrepareRPXLaunch with LOAD_RPX_TARGET_EXTRA_REVERT_PREPARE.
Version1 == {"GetEnvironmentPath", "StartUSBLogging", "UnlockFSClientEx",
             "PrepareRPXLaunch", "RevertRPXLaunch", "LaunchHomebrewWrapper",
             "ODMGetDiscKey", "SEEPROMRead"}
Version2 == {"StartTCPSyslogLogging", "StopTCPSyslogLogging", "StartIOPShellServer"}
Gated    == Version1 \cup Version2
Need(op) == IF op \in Version2 THEN 2 ELSE 1

\* Those that check an argument once the version is known to do.
ChecksArgument == {"GetEnvironmentPath", "PrepareRPXLaunch", "ODMGetDiscKey",
                   "SEEPROMRead"}

\* Those that use a device of their own instead of opening one.
Direct == {"UnlockFSClientEx", "LaunchHomebrewWrapper", "SEEPROMRead"}

Device(op) == IF op = "ODMGetDiscKey" THEN "odm" ELSE "mcp"

\* The commands that go through iosuhaxHandle, and those of them that return
\* SUCCESS for no bytes, check an argument, or need a buffer from the heap.
Hax         == {"KernelMemcpy", "MemoryWrite", "MemoryRead", "KernelWrite32",
                "KernelRead32", "ReadOTP", "CallSVC"}
HaxSized    == {"KernelMemcpy", "MemoryWrite", "MemoryRead"}
HaxBuffered == {"MemoryWrite", "MemoryRead", "KernelRead32"}

Calls == {"InitLibrary", "DeInitLibrary", "CheckAPIVersion", "LaunchRPX"}
           \cup Gated \cup Hax

ASSUME NoCallOK == NoCall \notin Calls

VARIABLES
  \* the library
  mochaInitDone, iosuhaxHandle, mochaApiVersion,
  \* IOSU
  device,    \* [Fds -> the device behind an open handle, or "closed"]
  payload,   \* the Mocha that is running
  rpx,       \* the RPX the payload will load: "none", "app", or "launch"
  \* per thread
  pc,
  call,      \* the function that was called
  op,        \* the gated command it is in
  fd,        \* haxHandle, mcpFd or odm_handle
  res        \* the status to return, or last returned

libVars == <<mochaInitDone, iosuhaxHandle, mochaApiVersion>>
iosVars == <<device, payload, rpx>>
vars    == <<libVars, iosVars, pc, call, op, fd, res>>

Pcs == {"idle",
        "initdone?", "handle?", "openhax", "storehandle", "setdone", "setversion0",
        "openmcp", "askversion", "closemcp", "storeversion", "closehax", "forgethax",
        "cleardone", "clearversion", "opened?", "closehandle", "forgethandle",
        "libdone?", "libhandle?", "haxioctl",
        "gatedone?", "gateversion?", "argument?", "opendev", "ipc", "closedev", "direct"}

\* "COUNT" is SEEPROMRead's positive number of bytes, cast to a status.
Statuses == {"NONE", "SUCCESS", "COUNT", "INVALID_ARGUMENT", "OUT_OF_MEMORY", "MAX_CLIENT",
             "NOT_FOUND", "UNSUPPORTED_API_VERSION", "UNSUPPORTED_COMMAND",
             "UNSUPPORTED_CFW", "LIB_UNINITIALIZED", "UNKNOWN_ERROR"}

Init ==
  /\ mochaInitDone = FALSE
  /\ iosuhaxHandle = NoFd
  /\ mochaApiVersion = 0
  /\ device = [f \in Fds |-> "closed"]
  /\ payload \in Payloads
  /\ rpx = "none"
  /\ pc = [t \in Threads |-> "idle"]
  /\ call = [t \in Threads |-> NoCall]
  /\ op = [t \in Threads |-> NoCall]
  /\ fd = [t \in Threads |-> NoFd]
  /\ res = [t \in Threads |-> "NONE"]

\* What the payload answers when asked for its version.
PayloadVersion == IF payload \in Nat THEN payload ELSE 0

Goto(t, next) == pc' = [pc EXCEPT ![t] = next]

Step(t, at, next) ==
  /\ pc[t] = at
  /\ Goto(t, next)
  /\ UNCHANGED <<call, op>>

Return(t, status) ==
  /\ Goto(t, "idle")
  /\ res' = [res EXCEPT ![t] = status]
  /\ call' = [call EXCEPT ![t] = NoCall]
  /\ op' = [op EXCEPT ![t] = NoCall]
  /\ fd' = [fd EXCEPT ![t] = NoFd]

\* IOS_Open: an unused handle, or a failure.
Opened(t, dev) ==
  \E f \in Fds :
    /\ device[f] = "closed"
    /\ device' = [device EXCEPT ![f] = dev]
    /\ fd' = [fd EXCEPT ![t] = f]

OpenFails == "open" \in MayFail \/ \A f \in Fds : device[f] # "closed"

\* IOS_Close: of a negative or unused handle it does nothing.
Closed(f) == device' = [u \in Fds |-> IF u = f THEN "closed" ELSE device[u]]
-----------------------------------------------------------------------------
(* The calls.                                                              *)

Enter(t, c, first, at) ==
  /\ pc[t] = "idle"
  /\ call' = [call EXCEPT ![t] = c]
  /\ op' = [op EXCEPT ![t] = first]
  /\ Goto(t, at)
  /\ UNCHANGED <<libVars, iosVars, fd, res>>

CallInitLibrary(t) ==
  t \in Lifecycle /\ Enter(t, "InitLibrary", NoCall, "initdone?")

CallDeInitLibrary(t) ==
  t \in Lifecycle /\ Enter(t, "DeInitLibrary", NoCall, "cleardone")

CallCheckAPIVersion(t) == Enter(t, "CheckAPIVersion", NoCall, "openmcp")

CallLaunchRPX(t) ==
  t \in Launchers /\ Enter(t, "LaunchRPX", "PrepareRPXLaunch", "gatedone?")

CallGated(t) == \E c \in Gated : Enter(t, c, c, "gatedone?")

CallHax(t) == \E c \in Hax : Enter(t, c, NoCall, "libdone?")

\* The returns that look at the arguments only.
CallAnswered(t) ==
  /\ pc[t] = "idle"
  /\ \E c \in Calls :
       \/ c \in HaxSized /\ res' = [res EXCEPT ![t] = "SUCCESS"]
       \/ /\ c \in (Hax \ {"CallSVC"}) \cup {"CheckAPIVersion"}
          /\ res' = [res EXCEPT ![t] = "INVALID_ARGUMENT"]
  /\ UNCHANGED <<libVars, iosVars, pc, call, op, fd>>
-----------------------------------------------------------------------------
(* Mocha_InitLibrary and Mocha_CheckAPIVersion.                            *)

ReadInitDone(t) ==
  /\ UNCHANGED <<libVars, iosVars>>
  /\ \/ mochaInitDone /\ pc[t] = "initdone?" /\ Return(t, "SUCCESS")
     \/ ~mochaInitDone /\ Step(t, "initdone?", "handle?") /\ UNCHANGED <<fd, res>>

ReadHandle(t) ==
  /\ Step(t, "handle?", IF iosuhaxHandle = NoFd THEN "openhax" ELSE "setdone")
  /\ UNCHANGED <<libVars, iosVars, fd, res>>

OpenHax(t) ==
  /\ UNCHANGED <<libVars, payload, rpx>>
  /\ \/ Step(t, "openhax", "storehandle") /\ Opened(t, "iosuhax") /\ UNCHANGED res
     \/ /\ pc[t] = "openhax" /\ OpenFails
        /\ Return(t, "UNSUPPORTED_COMMAND")
        /\ UNCHANGED device

StoreHandle(t) ==
  /\ Step(t, "storehandle", "setdone")
  /\ iosuhaxHandle' = fd[t]
  /\ fd' = [fd EXCEPT ![t] = NoFd]
  /\ UNCHANGED <<mochaInitDone, mochaApiVersion, iosVars, res>>

SetDone(t) ==
  /\ Step(t, "setdone", "setversion0")
  /\ mochaInitDone' = TRUE
  /\ UNCHANGED <<iosuhaxHandle, mochaApiVersion, iosVars, fd, res>>

SetVersion0(t) ==
  /\ Step(t, "setversion0", "openmcp")
  /\ mochaApiVersion' = 0
  /\ UNCHANGED <<mochaInitDone, iosuhaxHandle, iosVars, fd, res>>

\* CheckAPIVersion returns `status', to its caller or to InitLibrary.
VersionChecked(t, status) ==
  \/ call[t] = "CheckAPIVersion" /\ Return(t, status)
  \/ /\ call[t] = "InitLibrary"
     /\ Goto(t, IF status = "SUCCESS" THEN "storeversion" ELSE "closehax")
     /\ fd' = [fd EXCEPT ![t] = NoFd]
     /\ UNCHANGED <<call, op, res>>

OpenMcp(t) ==
  /\ UNCHANGED <<libVars, payload, rpx>>
  /\ \/ Step(t, "openmcp", "askversion") /\ Opened(t, "mcp") /\ UNCHANGED res
     \/ /\ pc[t] = "openmcp" /\ OpenFails
        /\ VersionChecked(t, "UNKNOWN_ERROR")
        /\ UNCHANGED device

AskVersion(t) ==
  /\ Step(t, "askversion", "closemcp")
  /\ \E status \in Statuses :
       /\ res' = [res EXCEPT ![t] = status]
       /\ \/ payload \in Nat /\ status = "SUCCESS"
          \/ payload = OldMocha /\ status = "UNSUPPORTED_API_VERSION"
          \/ payload = NoCfw /\ status = "UNSUPPORTED_CFW"
          \/ "ioctl" \in MayFail /\ status = "UNSUPPORTED_CFW"
  /\ UNCHANGED <<libVars, iosVars, fd>>

\* Mutant of CloseMcp: the device is left open.
CloseMcpForgets(t) ==
  /\ pc[t] = "closemcp"
  /\ VersionChecked(t, res[t])
  /\ UNCHANGED <<libVars, iosVars>>

CloseMcp(t) ==
  /\ pc[t] = "closemcp"
  /\ Closed(fd[t])
  /\ VersionChecked(t, res[t])
  /\ UNCHANGED <<libVars, payload, rpx>>

StoreVersion(t) ==
  /\ pc[t] = "storeversion"
  /\ mochaApiVersion' = PayloadVersion
  /\ Return(t, "SUCCESS")
  /\ UNCHANGED <<mochaInitDone, iosuhaxHandle, iosVars>>

\* Without a version the handle is given up; mochaInitDone stays set.
CloseHax(t) ==
  /\ Step(t, "closehax", "forgethax")
  /\ Closed(iosuhaxHandle)
  /\ UNCHANGED <<libVars, payload, rpx, fd, res>>

ForgetHax(t) ==
  /\ pc[t] = "forgethax"
  /\ iosuhaxHandle' = NoFd
  /\ Return(t, "UNSUPPORTED_COMMAND")
  /\ UNCHANGED <<mochaInitDone, mochaApiVersion, iosVars>>
-----------------------------------------------------------------------------
(* Mocha_DeInitLibrary.                                                    *)

ClearDone(t) ==
  /\ Step(t, "cleardone", "clearversion")
  /\ mochaInitDone' = FALSE
  /\ UNCHANGED <<iosuhaxHandle, mochaApiVersion, iosVars, fd, res>>

ClearVersion(t) ==
  /\ Step(t, "clearversion", "opened?")
  /\ mochaApiVersion' = 0
  /\ UNCHANGED <<mochaInitDone, iosuhaxHandle, iosVars, fd, res>>

ReadOpened(t) ==
  /\ UNCHANGED <<libVars, iosVars>>
  /\ \/ iosuhaxHandle = NoFd /\ pc[t] = "opened?" /\ Return(t, "SUCCESS")
     \/ iosuhaxHandle # NoFd /\ Step(t, "opened?", "closehandle") /\ UNCHANGED <<fd, res>>

CloseHandle(t) ==
  /\ Step(t, "closehandle", "forgethandle")
  /\ Closed(iosuhaxHandle)
  /\ UNCHANGED <<libVars, payload, rpx, fd, res>>

\* Mutant of ForgetHandle: the number of the closed handle stays.
ForgetHandleKeeps(t) ==
  /\ pc[t] = "forgethandle"
  /\ Return(t, "SUCCESS")
  /\ UNCHANGED <<libVars, iosVars>>

ForgetHandle(t) ==
  /\ pc[t] = "forgethandle"
  /\ iosuhaxHandle' = NoFd
  /\ Return(t, "SUCCESS")
  /\ UNCHANGED <<mochaInitDone, mochaApiVersion, iosVars>>
-----------------------------------------------------------------------------
(* The commands that go through iosuhaxHandle.                             *)

ReadLibDone(t) ==
  /\ UNCHANGED <<libVars, iosVars>>
  /\ \/ ~mochaInitDone /\ pc[t] = "libdone?" /\ Return(t, "LIB_UNINITIALIZED")
     \/ mochaInitDone /\ Step(t, "libdone?", "libhandle?") /\ UNCHANGED <<fd, res>>

ReadLibHandle(t) ==
  /\ UNCHANGED <<libVars, iosVars>>
  /\ \/ iosuhaxHandle = NoFd /\ pc[t] = "libhandle?" /\ Return(t, "LIB_UNINITIALIZED")
     \/ /\ iosuhaxHandle # NoFd /\ pc[t] = "libhandle?"
        /\ call[t] \in HaxBuffered /\ "memalign" \in MayFail
        /\ Return(t, "OUT_OF_MEMORY")
     \/ iosuhaxHandle # NoFd /\ Step(t, "libhandle?", "haxioctl") /\ UNCHANGED <<fd, res>>

\* The handle is read again; by now it may be closed, or somebody else's.
HaxIoctl(t) ==
  /\ pc[t] = "haxioctl"
  /\ \/ \E f \in Fds :
          iosuhaxHandle = f /\ device[f] # "closed" /\ Return(t, "SUCCESS")
     \/ /\ \/ "ioctl" \in MayFail
           \/ \A f \in Fds : iosuhaxHandle = f => device[f] # "iosuhax"
        /\ Return(t, "UNKNOWN_ERROR")
  /\ UNCHANGED <<libVars, iosVars>>
-----------------------------------------------------------------------------
(* The commands that need a running Mocha.                                 *)

\* Mutant of GatedReturn: LaunchRPX does not revert.
GatedReturnNoRevert(t, status) ==
  \/ /\ call[t] # "LaunchRPX" \/ op[t] # "PrepareRPXLaunch" \/ status # "SUCCESS"
     /\ Return(t, status)
  \/ /\ call[t] = "LaunchRPX"
     /\ op[t] = "PrepareRPXLaunch" /\ status = "SUCCESS"
     /\ op' = [op EXCEPT ![t] = "LaunchHomebrewWrapper"]
     /\ Goto(t, "gatedone?")
     /\ res' = [res EXCEPT ![t] = status]
     /\ fd' = [fd EXCEPT ![t] = NoFd]
     /\ UNCHANGED call

\* A gated function returns `status', to its caller or to LaunchRPX, which
\* goes on to launch what it has prepared, and to revert what it cannot launch.
GatedReturn(t, status) ==
  \/ call[t] # "LaunchRPX" /\ Return(t, status)
  \/ /\ call[t] = "LaunchRPX" /\ op[t] = "RevertRPXLaunch"
     /\ Return(t, res[t])
  \/ /\ call[t] = "LaunchRPX"
     /\ op[t] = IF status = "SUCCESS" THEN "LaunchHomebrewWrapper" ELSE "PrepareRPXLaunch"
     /\ Return(t, status)
  \/ /\ call[t] = "LaunchRPX"
     /\ op[t] = IF status = "SUCCESS" THEN "PrepareRPXLaunch" ELSE "LaunchHomebrewWrapper"
     /\ op' = [op EXCEPT ![t] = IF status = "SUCCESS" THEN "LaunchHomebrewWrapper"
                                                     ELSE "RevertRPXLaunch"]
     /\ Goto(t, "gatedone?")
     /\ res' = [res EXCEPT ![t] = status]
     /\ fd' = [fd EXCEPT ![t] = NoFd]
     /\ UNCHANGED call

ReadGateDone(t) ==
  /\ UNCHANGED <<libVars, iosVars>>
  /\ \/ ~mochaInitDone /\ pc[t] = "gatedone?" /\ GatedReturn(t, "LIB_UNINITIALIZED")
     \/ mochaInitDone /\ Step(t, "gatedone?", "gateversion?") /\ UNCHANGED <<fd, res>>

\* Mutant of ReadGateVersion: every command is taken for one of version 1.
ReadGateVersion1(t) ==
  /\ UNCHANGED <<libVars, iosVars>>
  /\ \/ /\ mochaApiVersion < 1 /\ pc[t] = "gateversion?"
        /\ GatedReturn(t, "UNSUPPORTED_COMMAND")
     \/ /\ mochaApiVersion >= 1
        /\ Step(t, "gateversion?",
                CASE op[t] \in ChecksArgument -> "argument?"
                  [] op[t] \in Direct \ ChecksArgument -> "direct"
                  [] OTHER -> "opendev")
        /\ UNCHANGED <<fd, res>>

ReadGateVersion(t) ==
  /\ UNCHANGED <<libVars, iosVars>>
  /\ \/ /\ mochaApiVersion < Need(op[t]) /\ pc[t] = "gateversion?"
        /\ GatedReturn(t, "UNSUPPORTED_COMMAND")
     \/ /\ mochaApiVersion >= Need(op[t])
        /\ Step(t, "gateversion?",
                CASE op[t] \in ChecksArgument -> "argument?"
                  [] op[t] \in Direct \ ChecksArgument -> "direct"
                  [] OTHER -> "opendev")
        /\ UNCHANGED <<fd, res>>

CheckArgument(t) ==
  /\ UNCHANGED <<libVars, iosVars>>
  /\ \/ /\ "argument" \in MayFail /\ pc[t] = "argument?"
        /\ GatedReturn(t, "INVALID_ARGUMENT")
     \/ /\ Step(t, "argument?", IF op[t] \in Direct THEN "direct" ELSE "opendev")
        /\ UNCHANGED <<fd, res>>

\* Mutant of OpenDevice: the result of IOS_Open is not looked at.
OpenDeviceUnchecked(t) ==
  /\ UNCHANGED <<libVars, payload, rpx, res>>
  /\ Step(t, "opendev", "ipc")
  /\ Opened(t, Device(op[t])) \/ (OpenFails /\ UNCHANGED <<device, fd>>)

OpenDevice(t) ==
  /\ UNCHANGED <<libVars, payload, rpx>>
  /\ \/ Step(t, "opendev", "ipc") /\ Opened(t, Device(op[t])) /\ UNCHANGED res
     \/ /\ pc[t] = "opendev" /\ OpenFails
        /\ GatedReturn(t, "UNKNOWN_ERROR")
        /\ UNCHANGED device

\* What LaunchRPX returns in the end is the status from before the revert.
Ipc(t) ==
  /\ Step(t, "ipc", "closedev")
  /\ \E status \in {"SUCCESS", "UNKNOWN_ERROR", "NOT_FOUND"} :
       /\ status # "SUCCESS" => "ioctl" \in MayFail
       /\ status = "NOT_FOUND" => op[t] = "ODMGetDiscKey"
       /\ res' = IF call[t] = "LaunchRPX" /\ op[t] = "RevertRPXLaunch"
                 THEN res ELSE [res EXCEPT ![t] = status]
       /\ rpx' = CASE status = "SUCCESS" /\ op[t] = "PrepareRPXLaunch" ->
                        IF call[t] = "LaunchRPX" THEN "launch" ELSE "app"
                   [] status = "SUCCESS" /\ op[t] = "RevertRPXLaunch" -> "none"
                   [] OTHER -> rpx
  /\ UNCHANGED <<libVars, device, payload, fd>>

CloseDevice(t) ==
  /\ pc[t] = "closedev"
  /\ Closed(fd[t])
  /\ GatedReturn(t, res[t])
  /\ UNCHANGED <<libVars, payload, rpx>>

\* An ioctl on the FS client, bspRead, or the launch of a system title.
DirectStatuses(o) ==
  CASE o = "UnlockFSClientEx" -> {"SUCCESS", "MAX_CLIENT", "UNKNOWN_ERROR"}
    [] o = "SEEPROMRead"      -> {"SUCCESS", "COUNT", "UNKNOWN_ERROR"}
    [] OTHER -> {"SUCCESS"} \cup (IF "title" \in MayFail THEN {"NOT_FOUND"} ELSE {})

DirectCommand(t) ==
  /\ pc[t] = "direct"
  /\ \E status \in DirectStatuses(op[t]) : GatedReturn(t, status)
  /\ UNCHANGED <<libVars, iosVars>>
-----------------------------------------------------------------------------
Starts(t) ==
  \/ CallInitLibrary(t) \/ CallDeInitLibrary(t) \/ CallCheckAPIVersion(t)
  \/ CallLaunchRPX(t) \/ CallGated(t) \/ CallHax(t) \/ CallAnswered(t)

Works(t) ==
  \/ ReadInitDone(t) \/ ReadHandle(t) \/ OpenHax(t) \/ StoreHandle(t)
  \/ SetDone(t) \/ SetVersion0(t) \/ OpenMcp(t) \/ AskVersion(t) \/ CloseMcp(t)
  \/ StoreVersion(t) \/ CloseHax(t) \/ ForgetHax(t)
  \/ ClearDone(t) \/ ClearVersion(t) \/ ReadOpened(t) \/ CloseHandle(t)
  \/ ForgetHandle(t)
  \/ ReadLibDone(t) \/ ReadLibHandle(t) \/ HaxIoctl(t)
  \/ ReadGateDone(t) \/ ReadGateVersion(t) \/ CheckArgument(t)
  \/ OpenDevice(t) \/ Ipc(t) \/ CloseDevice(t) \/ DirectCommand(t)

Next == \E t \in Threads : Starts(t) \/ Works(t)

Spec == Init /\ [][Next]_vars
-----------------------------------------------------------------------------
(* Properties.                                                             *)

\* The calls that hold a handle of their own: from IOS_Open's success on.
HasFd == {"storehandle", "askversion", "closemcp", "ipc", "closedev"}

\* Every variable stays in its range, and a call that got past its IOS_Open has
\* the handle it was given until it closes it, on every path.
TypeOK ==
  /\ mochaInitDone \in BOOLEAN
  /\ iosuhaxHandle \in Fds \cup {NoFd}
  /\ mochaApiVersion \in Nat
  /\ device \in [Fds -> {"closed", "iosuhax", "mcp", "odm"}]
  /\ payload \in Payloads
  /\ rpx \in {"none", "app", "launch"}
  /\ pc \in [Threads -> Pcs]
  /\ call \in [Threads -> Calls \cup {NoCall}]
  /\ op \in [Threads -> Gated \cup {NoCall}]
  /\ fd \in [Threads -> Fds \cup {NoFd}]
  /\ res \in [Threads -> Statuses]
  /\ \A t \in Threads : pc[t] \in HasFd <=> fd[t] # NoFd

\* A command is sent only to a Mocha that knows it, however the threads that
\* initialize, deinitialize and send interleave: a version that was read is
\* never newer than the one that runs.
VersionGate ==
  \A t \in Threads :
    pc[t] \in {"ipc", "direct"} => payload \in Nat /\ payload >= Need(op[t])

\* With one thread in charge of the lifecycle, the handle of the library is
\* open whenever it is set, but for the moment between closing and forgetting.
HaxHandleValid ==
  iosuhaxHandle # NoFd =>
    \/ device[iosuhaxHandle] = "iosuhax"
    \/ \E t \in Threads : pc[t] \in {"forgethax", "forgethandle"}

\* Every path out of every function closes what it opened: between calls the
\* process holds iosuhaxHandle and nothing else.
HandlesBalanced ==
  (\A t \in Threads : pc[t] = "idle") =>
    {f \in Fds : device[f] # "closed"} = {iosuhaxHandle} \ {NoFd}

\* A LaunchRPX that fails after its own preparation succeeded has asked for the
\* preparation to be reverted: the payload may keep it only if that failed too,
\* or if it is left from an earlier call.
LaunchReverted ==
  [][\A t \in Launchers :
       call[t] = "LaunchRPX" /\ call'[t] = NoCall /\ res'[t] # "SUCCESS"
         => \/ rpx' # "launch"
            \/ op[t] \in {"PrepareRPXLaunch", "RevertRPXLaunch"}]_vars

\* mocha.h:32, "MOCHA_RESULT_SUCCESS: Library has been successfully initialized":
\* when InitLibrary returns SUCCESS, no other call being under way, the library
\* has its handle.
InitSuccessIsInitialized ==
  [][\A t \in Threads :
       (/\ call[t] = "InitLibrary" /\ call'[t] = NoCall
        /\ res'[t] = "SUCCESS"
        /\ \A u \in Threads \ {t} : call[u] = NoCall)
         => iosuhaxHandle' # NoFd]_vars
=============================================================================
