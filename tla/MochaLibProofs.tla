--------------------------- MODULE MochaLibProofs ---------------------------
(***************************************************************************)
(* For any threads, handles and payloads:                                  *)
(*                                                                         *)
(*   - MochaLib's type invariant;                                          *)
(*   - no command reaches a Mocha that does not know it;                   *)
(*   - with at most one thread in charge of InitLibrary and DeInitLibrary, *)
(*     the handle of the library is valid and every other one is closed;   *)
(*   - a launch that fails is reverted, whoever else is in the library.    *)
(***************************************************************************)
EXTENDS MochaLib, TLAPS

\* The pcs after the gate, at which the version has been found sufficient.
PastGate == {"argument?", "opendev", "ipc", "direct"}

\* The library never believes in a newer Mocha than the one that runs.
VersionKnown == mochaApiVersion \in {0, PayloadVersion}

\* What the gate has established lasts as long as the command.
Passed(t)  == pc[t] \in PastGate => payload \in Nat /\ payload >= Need(op[t])
GatePassed == \A t \in Threads : Passed(t)

\* VersionGate looks at two pcs only; a thread must be followed from the gate on.
IInv == TypeOK /\ VersionKnown /\ GatePassed

\* TypeOK in three parts.
LibTypes ==
  /\ mochaInitDone \in BOOLEAN
  /\ iosuhaxHandle \in Fds \cup {NoFd}
  /\ mochaApiVersion \in Nat

IosTypes ==
  /\ device \in [Fds -> {"closed", "iosuhax", "mcp", "odm"}]
  /\ payload \in Payloads
  /\ rpx \in {"none", "app", "launch"}

ThreadTypes ==
  /\ pc \in [Threads -> Pcs]
  /\ call \in [Threads -> Calls \cup {NoCall}]
  /\ op \in [Threads -> Gated \cup {NoCall}]
  /\ fd \in [Threads -> Fds \cup {NoFd}]
  /\ res \in [Threads -> Statuses]
  /\ \A t \in Threads : pc[t] \in HasFd <=> fd[t] # NoFd

\* The type invariant, by the side a conjunct belongs to: most steps touch one.
LEMMA TypeParts == TypeOK <=> LibTypes /\ IosTypes /\ ThreadTypes
  BY DEF TypeOK, LibTypes, IosTypes, ThreadTypes

\* The same in the state after a step.
LEMMA TypePartsNext == TypeOK' <=> LibTypes' /\ IosTypes' /\ ThreadTypes'
  BY DEF TypeOK, LibTypes, IosTypes, ThreadTypes

\* A step of t leaves the place of every other thread alone.
Others(t) == \A u \in Threads \ {t} : pc'[u] = pc[u] /\ op'[u] = op[u]

\* A command needs version 1 or 2.
LEMMA NeedPositive == \A o : Need(o) \in Nat /\ Need(o) >= 1
  BY DEF Need

\* The answer of the payload is a number, and 0 without a versioned Mocha.
LEMMA PayloadVersionNat ==
  /\ PayloadVersion \in Nat
  /\ PayloadVersion >= 1 => payload \in Nat /\ payload = PayloadVersion
  BY DEF PayloadVersion

\* The library starts in the invariant.
LEMMA InitInvariant == Init => IInv
<1> SUFFICES ASSUME Init PROVE IInv
  OBVIOUS
<1>1. LibTypes
  BY DEF Init, LibTypes
<1>2. device \in [Fds -> {"closed", "iosuhax", "mcp", "odm"}]
  BY DEF Init
<1>3. IosTypes
  BY <1>2 DEF Init, IosTypes
<1>4. /\ pc \in [Threads -> Pcs]
      /\ \A t \in Threads : pc[t] = "idle"
  BY DEF Init, Pcs
<1>5. /\ call \in [Threads -> Calls \cup {NoCall}]
      /\ op \in [Threads -> Gated \cup {NoCall}]
      /\ fd \in [Threads -> Fds \cup {NoFd}]
      /\ \A t \in Threads : fd[t] = NoFd
  BY DEF Init
<1>6. res \in [Threads -> Statuses]
  BY DEF Init, Statuses
<1>7. ThreadTypes
  BY <1>4, <1>5, <1>6 DEF ThreadTypes, HasFd
<1>8. VersionKnown
  BY DEF Init, VersionKnown
<1>9. GatePassed
  BY <1>4 DEF GatePassed, Passed, PastGate
<1> QED
  BY <1>1, <1>3, <1>7, <1>8, <1>9, TypeParts DEF IInv

-----------------------------------------------------------------------------
(* What the moves of a thread do, whatever the action they are part of.    *)

\* A return leaves the thread idle and without a handle.
LEMMA ReturnEffect ==
  ASSUME NEW t \in Threads, NEW status \in Statuses, ThreadTypes, Return(t, status)
  PROVE  ThreadTypes' /\ Others(t) /\ pc'[t] = "idle"
  BY DEF ThreadTypes, Return, Goto, Others, Pcs, HasFd

\* A step between two places that hold a handle, or two that do not.
LEMMA StepEffect ==
  ASSUME NEW t \in Threads, NEW at \in Pcs, NEW next \in Pcs, ThreadTypes,
         Step(t, at, next), fd' = fd,
         res' = res \/ (\E status \in Statuses : res' = [res EXCEPT ![t] = status]),
         at \in HasFd <=> next \in HasFd
  PROVE  ThreadTypes' /\ Others(t) /\ pc'[t] = next /\ pc[t] = at /\ op'[t] = op[t]
  BY DEF ThreadTypes, Step, Goto, Others

\* A step through a successful IOS_Open.
LEMMA OpenEffect ==
  ASSUME NEW t \in Threads, NEW at \in Pcs, NEW next \in Pcs, ThreadTypes,
         IosTypes, NEW dev \in {"iosuhax", "mcp", "odm"},
         Step(t, at, next), Opened(t, dev), UNCHANGED <<payload, rpx, res>>,
         next \in HasFd
  PROVE  ThreadTypes' /\ IosTypes' /\ Others(t) /\ pc'[t] = next /\ pc[t] = at /\ op'[t] = op[t]
<1> PICK f \in Fds : /\ device' = [device EXCEPT ![f] = dev]
                     /\ fd' = [fd EXCEPT ![t] = f]
  BY DEF Opened
<1>1. IosTypes'
  BY DEF IosTypes
<1>2. f # NoFd
  BY ConstantsOK
<1> QED
  BY <1>1, <1>2 DEF ThreadTypes, Step, Goto, Others

\* A call begins.
LEMMA EnterEffect ==
  ASSUME NEW t \in Threads, NEW c \in Calls, NEW first \in Gated \cup {NoCall},
         NEW at \in Pcs \ (HasFd \cup PastGate), TypeOK, Enter(t, c, first, at)
  PROVE  TypeOK' /\ Others(t) /\ pc'[t] \notin PastGate /\ UNCHANGED <<payload, mochaApiVersion>>
<1>1. LibTypes /\ IosTypes /\ ThreadTypes
  BY TypeParts
<1>2. LibTypes' /\ IosTypes'
  BY <1>1 DEF LibTypes, IosTypes, Enter, libVars, iosVars
<1>3. ThreadTypes' /\ Others(t) /\ pc'[t] = at
  BY <1>1 DEF ThreadTypes, Enter, Goto, Others, HasFd
<1> QED
  BY <1>2, <1>3, TypePartsNext DEF Enter, libVars, iosVars

\* A gated function returns: to its caller, or to LaunchRPX.
LEMMA GatedReturnEffect ==
  ASSUME NEW t \in Threads, NEW status \in Statuses, ThreadTypes, GatedReturn(t, status)
  PROVE  ThreadTypes' /\ Others(t) /\ pc'[t] \notin PastGate
<1>1. CASE \E s \in Statuses : Return(t, s)
  BY <1>1, ReturnEffect DEF PastGate
<1>2. CASE ~ \E s \in Statuses : Return(t, s)
  <2>1. res[t] \in Statuses
    BY DEF ThreadTypes
  <2>2. PICK o \in {"LaunchHomebrewWrapper", "RevertRPXLaunch"} :
          /\ op' = [op EXCEPT ![t] = o]
          /\ Goto(t, "gatedone?")
          /\ res' = [res EXCEPT ![t] = status]
          /\ fd' = [fd EXCEPT ![t] = NoFd]
          /\ UNCHANGED call
    BY <1>2, <2>1 DEF GatedReturn
  <2>3. o \in Gated
    BY DEF Gated, Version1
  <2> QED
    BY <2>2, <2>3 DEF ThreadTypes, Goto, Others, PastGate, Pcs, HasFd
<1> QED
  BY <1>1, <1>2

\* CheckAPIVersion returns: to its caller, or to InitLibrary.
LEMMA VersionCheckedEffect ==
  ASSUME NEW t \in Threads, NEW status \in Statuses, ThreadTypes, VersionChecked(t, status)
  PROVE  ThreadTypes' /\ Others(t) /\ pc'[t] \notin PastGate
<1>1. CASE Return(t, status)
  BY <1>1, ReturnEffect DEF PastGate
<1>2. CASE ~ Return(t, status)
  <2>1. PICK next \in {"storeversion", "closehax"} :
          /\ Goto(t, next)
          /\ fd' = [fd EXCEPT ![t] = NoFd]
          /\ UNCHANGED <<call, op, res>>
    BY <1>2 DEF VersionChecked
  <2> QED
    BY <2>1 DEF ThreadTypes, Goto, Others, PastGate, Pcs, HasFd
<1> QED
  BY <1>1, <1>2

\* Closing a handle keeps the table a table.
LEMMA ClosedEffect ==
  ASSUME IosTypes, NEW f, Closed(f), UNCHANGED <<payload, rpx>>
  PROVE  IosTypes'
  BY DEF IosTypes, Closed

-----------------------------------------------------------------------------
(* What a step of t owes the invariant; the other threads follow.          *)

Good(t) == TypeOK' /\ VersionKnown' /\ payload' = payload /\ Others(t) /\ Passed(t)'

\* What each action is shown to do for its thread is enough for the invariant.
LEMMA GoodSuffices ==
  ASSUME NEW t \in Threads, IInv, Good(t)
  PROVE  IInv'
<1>1. \A u \in Threads \ {t} : Passed(u)'
  BY DEF IInv, GatePassed, Passed, Good, Others, Need
<1>2. GatePassed'
  BY <1>1 DEF GatePassed, Good
<1> QED
  BY <1>2 DEF IInv, Good

\* An unchanged version of an unchanged payload is still known.
LEMMA VersionKept ==
  ASSUME VersionKnown, UNCHANGED <<mochaApiVersion, payload>>
  PROVE  VersionKnown'
  BY DEF VersionKnown, PayloadVersion

\* A thread that is not past the gate owes nothing.
LEMMA NotPast ==
  ASSUME NEW t \in Threads, pc'[t] \notin PastGate
  PROVE  Passed(t)'
  BY DEF Passed

\* Beginning a call.
LEMMA StartsGood ==
  ASSUME NEW t \in Threads, IInv, Starts(t)
  PROVE  Good(t)
<1> USE DEF IInv
<1>1. CASE CallAnswered(t)
  <2>1. LibTypes /\ IosTypes /\ ThreadTypes
    BY TypeParts
  <2>2. UNCHANGED <<libVars, iosVars, pc, call, op, fd>>
    BY <1>1 DEF CallAnswered
  <2>3. \E status \in {"SUCCESS", "INVALID_ARGUMENT"} : res' = [res EXCEPT ![t] = status]
    BY <1>1 DEF CallAnswered
  <2>4. ThreadTypes'
    BY <2>1, <2>2, <2>3 DEF ThreadTypes, Statuses
  <2>5. LibTypes' /\ IosTypes'
    BY <2>1, <2>2 DEF LibTypes, IosTypes, libVars, iosVars
  <2>6. Passed(t)
    BY DEF GatePassed
  <2>7. Passed(t)'
    BY <2>2, <2>6 DEF Passed, iosVars, Need
  <2> QED
    BY <2>2, <2>4, <2>5, <2>7, TypePartsNext, VersionKept DEF Good, Others, libVars, iosVars
<1>2. CASE \E c \in Calls, first \in Gated \cup {NoCall}, at \in Pcs \ (HasFd \cup PastGate) :
             Enter(t, c, first, at)
  <2> PICK c \in Calls, first \in Gated \cup {NoCall}, at \in Pcs \ (HasFd \cup PastGate) :
         Enter(t, c, first, at)
    BY <1>2
  <2>1. TypeOK' /\ Others(t) /\ pc'[t] \notin PastGate /\ UNCHANGED <<payload, mochaApiVersion>>
    BY EnterEffect
  <2> QED
    BY <2>1, VersionKept, NotPast DEF Good
<1>3. ASSUME NEW c \in Calls, NEW first \in Gated \cup {NoCall},
             NEW at \in {"initdone?", "cleardone", "openmcp", "gatedone?", "libdone?"},
             Enter(t, c, first, at)
      PROVE  Good(t)
  <2>1. at \in Pcs \ (HasFd \cup PastGate)
    BY DEF Pcs, HasFd, PastGate
  <2> QED
    BY <1>2, <1>3, <2>1
<1>4. /\ {"InitLibrary", "DeInitLibrary", "CheckAPIVersion", "LaunchRPX"} \subseteq Calls
      /\ Gated \subseteq Calls /\ Hax \subseteq Calls
      /\ "PrepareRPXLaunch" \in Gated
  BY DEF Calls, Gated, Version1
<1>5. CASE CallInitLibrary(t)
  BY <1>3, <1>4, <1>5 DEF CallInitLibrary
<1>6. CASE CallDeInitLibrary(t)
  BY <1>3, <1>4, <1>6 DEF CallDeInitLibrary
<1>7. CASE CallCheckAPIVersion(t)
  BY <1>3, <1>4, <1>7 DEF CallCheckAPIVersion
<1>8. CASE CallLaunchRPX(t)
  BY <1>3, <1>4, <1>8 DEF CallLaunchRPX
<1>9. CASE CallGated(t)
  BY <1>3, <1>4, <1>9 DEF CallGated
<1>10. CASE CallHax(t)
  BY <1>3, <1>4, <1>10 DEF CallHax
<1> QED
  BY <1>1, <1>5, <1>6, <1>7, <1>8, <1>9, <1>10 DEF Starts

\* The steps outside a command's gate: the parts that make a step good.
LEMMA OutsideGate ==
  ASSUME NEW t \in Threads, LibTypes', IosTypes', ThreadTypes', Others(t),
         pc'[t] \notin PastGate, VersionKnown', payload' = payload
  PROVE  Good(t)
  BY TypePartsNext, NotPast DEF Good

\* A step that leaves IOSU alone keeps its types.
LEMMA IosKept == ASSUME IosTypes, UNCHANGED iosVars PROVE IosTypes'
  BY DEF IosTypes, iosVars

\* A step that leaves the globals alone keeps their types.
LEMMA LibKept == ASSUME LibTypes, UNCHANGED libVars PROVE LibTypes'
  BY DEF LibTypes, libVars

\* Mocha_InitLibrary, Mocha_CheckAPIVersion and Mocha_DeInitLibrary.
LEMMA LifecycleGood ==
  ASSUME NEW t \in Threads, IInv,
         \/ ReadInitDone(t) \/ ReadHandle(t) \/ OpenHax(t) \/ StoreHandle(t)
         \/ SetDone(t) \/ SetVersion0(t) \/ OpenMcp(t) \/ AskVersion(t) \/ CloseMcp(t)
         \/ StoreVersion(t) \/ CloseHax(t) \/ ForgetHax(t)
         \/ ClearDone(t) \/ ClearVersion(t) \/ ReadOpened(t) \/ CloseHandle(t)
         \/ ForgetHandle(t)
  PROVE  Good(t)
<1>0. LibTypes /\ IosTypes /\ ThreadTypes /\ VersionKnown
  BY TypeParts DEF IInv
<1> USE <1>0
<1>a. /\ {"SUCCESS", "UNKNOWN_ERROR", "UNSUPPORTED_COMMAND"} \subseteq Statuses
      /\ res[t] \in Statuses
      /\ fd[t] \in Fds \cup {NoFd}
  BY DEF Statuses, ThreadTypes
<1>1. CASE ReadInitDone(t)
  <2>1. ThreadTypes' /\ Others(t) /\ pc'[t] \in {"idle", "handle?"}
    <3>1. CASE Return(t, "SUCCESS")
      BY <1>a, <3>1, ReturnEffect
    <3>2. CASE Step(t, "initdone?", "handle?") /\ UNCHANGED <<fd, res>>
      BY <3>2, StepEffect DEF Pcs, HasFd
    <3> QED
      BY <1>1, <3>1, <3>2 DEF ReadInitDone
  <2> QED
    BY <1>1, <2>1, OutsideGate, IosKept, LibKept, VersionKept DEF ReadInitDone, PastGate, libVars, iosVars
<1>2. CASE ReadHandle(t)
  <2>1. ThreadTypes' /\ Others(t) /\ pc'[t] \in {"openhax", "setdone"}
    BY <1>2, StepEffect DEF ReadHandle, Pcs, HasFd
  <2> QED
    BY <1>2, <2>1, OutsideGate, IosKept, LibKept, VersionKept DEF ReadHandle, PastGate, libVars, iosVars
<1>3. CASE OpenHax(t)
  <2>1. ThreadTypes' /\ IosTypes' /\ Others(t) /\ pc'[t] \in {"idle", "storehandle"}
    <3>1. CASE Return(t, "UNSUPPORTED_COMMAND") /\ UNCHANGED iosVars
      BY <1>a, <3>1, ReturnEffect, IosKept
    <3>2. CASE Step(t, "openhax", "storehandle") /\ Opened(t, "iosuhax") /\ UNCHANGED <<payload, rpx, res>>
      BY <3>2, OpenEffect DEF Pcs, HasFd
    <3> QED
      BY <1>3, <3>1, <3>2 DEF OpenHax, iosVars
  <2> QED
    BY <1>3, <2>1, OutsideGate, LibKept, VersionKept DEF OpenHax, PastGate, libVars
<1>4. CASE StoreHandle(t)
  <2>1. ThreadTypes' /\ Others(t) /\ pc'[t] = "setdone"
    BY <1>4 DEF StoreHandle, ThreadTypes, Step, Goto, Others, Pcs, HasFd
  <2>2. LibTypes'
    BY <1>a, <1>4 DEF StoreHandle, LibTypes
  <2> QED
    BY <1>4, <2>1, <2>2, OutsideGate, IosKept, VersionKept DEF StoreHandle, PastGate, iosVars
<1>5. CASE SetDone(t)
  <2>1. ThreadTypes' /\ Others(t) /\ pc'[t] = "setversion0"
    BY <1>5, StepEffect DEF SetDone, Pcs, HasFd
  <2>2. LibTypes' /\ VersionKnown'
    BY <1>5 DEF SetDone, LibTypes, VersionKnown, PayloadVersion, iosVars
  <2> QED
    BY <1>5, <2>1, <2>2, OutsideGate, IosKept DEF SetDone, PastGate, iosVars
<1>6. CASE SetVersion0(t)
  <2>1. ThreadTypes' /\ Others(t) /\ pc'[t] = "openmcp"
    BY <1>6, StepEffect DEF SetVersion0, Pcs, HasFd
  <2>2. LibTypes' /\ VersionKnown'
    BY <1>6 DEF SetVersion0, LibTypes, VersionKnown, PayloadVersion, iosVars
  <2> QED
    BY <1>6, <2>1, <2>2, OutsideGate, IosKept DEF SetVersion0, PastGate, iosVars
<1>7. CASE OpenMcp(t)
  <2>1. ThreadTypes' /\ IosTypes' /\ Others(t) /\ pc'[t] \notin PastGate
    <3>1. CASE VersionChecked(t, "UNKNOWN_ERROR") /\ UNCHANGED iosVars
      BY <1>a, <3>1, VersionCheckedEffect, IosKept
    <3>2. CASE Step(t, "openmcp", "askversion") /\ Opened(t, "mcp") /\ UNCHANGED <<payload, rpx, res>>
      BY <3>2, OpenEffect DEF Pcs, HasFd, PastGate
    <3> QED
      BY <1>7, <3>1, <3>2 DEF OpenMcp, iosVars
  <2> QED
    BY <1>7, <2>1, OutsideGate, LibKept, VersionKept DEF OpenMcp, libVars
<1>8. CASE AskVersion(t)
  <2>1. PICK status \in Statuses : res' = [res EXCEPT ![t] = status]
    BY <1>8 DEF AskVersion
  <2>2. ThreadTypes' /\ Others(t) /\ pc'[t] = "closemcp"
    BY <1>8, <2>1, StepEffect DEF AskVersion, Pcs, HasFd
  <2> QED
    BY <1>8, <2>2, OutsideGate, IosKept, LibKept, VersionKept DEF AskVersion, PastGate, libVars, iosVars
<1>9. CASE CloseMcp(t)
  <2>1. ThreadTypes' /\ Others(t) /\ pc'[t] \notin PastGate
    BY <1>a, <1>9, VersionCheckedEffect DEF CloseMcp
  <2>2. IosTypes'
    BY <1>9, ClosedEffect DEF CloseMcp
  <2> QED
    BY <1>9, <2>1, <2>2, OutsideGate, LibKept, VersionKept DEF CloseMcp, libVars
<1>10. CASE StoreVersion(t)
  <2>1. ThreadTypes' /\ Others(t) /\ pc'[t] = "idle"
    BY <1>a, <1>10, ReturnEffect DEF StoreVersion
  <2>2. PayloadVersion' = PayloadVersion
    BY <1>10 DEF StoreVersion, iosVars, PayloadVersion
  <2>3. LibTypes' /\ VersionKnown'
    BY <1>10, <2>2, PayloadVersionNat DEF StoreVersion, LibTypes, VersionKnown
  <2> QED
    BY <1>10, <2>1, <2>3, OutsideGate, IosKept DEF StoreVersion, PastGate, iosVars
<1>11. CASE CloseHax(t)
  <2>1. ThreadTypes' /\ Others(t) /\ pc'[t] = "forgethax"
    BY <1>11, StepEffect DEF CloseHax, Pcs, HasFd
  <2>2. IosTypes'
    BY <1>11, ClosedEffect DEF CloseHax
  <2> QED
    BY <1>11, <2>1, <2>2, OutsideGate, LibKept, VersionKept DEF CloseHax, PastGate, libVars
<1>12. CASE ForgetHax(t)
  <2>1. ThreadTypes' /\ Others(t) /\ pc'[t] = "idle"
    BY <1>a, <1>12, ReturnEffect DEF ForgetHax
  <2>2. LibTypes'
    BY <1>12 DEF ForgetHax, LibTypes
  <2> QED
    BY <1>12, <2>1, <2>2, OutsideGate, IosKept, VersionKept DEF ForgetHax, PastGate, iosVars
<1>13. CASE ClearDone(t)
  <2>1. ThreadTypes' /\ Others(t) /\ pc'[t] = "clearversion"
    BY <1>13, StepEffect DEF ClearDone, Pcs, HasFd
  <2>2. LibTypes' /\ VersionKnown'
    BY <1>13 DEF ClearDone, LibTypes, VersionKnown, PayloadVersion, iosVars
  <2> QED
    BY <1>13, <2>1, <2>2, OutsideGate, IosKept DEF ClearDone, PastGate, iosVars
<1>14. CASE ClearVersion(t)
  <2>1. ThreadTypes' /\ Others(t) /\ pc'[t] = "opened?"
    BY <1>14, StepEffect DEF ClearVersion, Pcs, HasFd
  <2>2. LibTypes' /\ VersionKnown'
    BY <1>14 DEF ClearVersion, LibTypes, VersionKnown, PayloadVersion, iosVars
  <2> QED
    BY <1>14, <2>1, <2>2, OutsideGate, IosKept DEF ClearVersion, PastGate, iosVars
<1>15. CASE ReadOpened(t)
  <2>1. ThreadTypes' /\ Others(t) /\ pc'[t] \in {"idle", "closehandle"}
    <3>1. CASE Return(t, "SUCCESS")
      BY <1>a, <3>1, ReturnEffect
    <3>2. CASE Step(t, "opened?", "closehandle") /\ UNCHANGED <<fd, res>>
      BY <3>2, StepEffect DEF Pcs, HasFd
    <3> QED
      BY <1>15, <3>1, <3>2 DEF ReadOpened
  <2> QED
    BY <1>15, <2>1, OutsideGate, IosKept, LibKept, VersionKept DEF ReadOpened, PastGate, libVars, iosVars
<1>16. CASE CloseHandle(t)
  <2>1. ThreadTypes' /\ Others(t) /\ pc'[t] = "forgethandle"
    BY <1>16, StepEffect DEF CloseHandle, Pcs, HasFd
  <2>2. IosTypes'
    BY <1>16, ClosedEffect DEF CloseHandle
  <2> QED
    BY <1>16, <2>1, <2>2, OutsideGate, LibKept, VersionKept DEF CloseHandle, PastGate, libVars
<1>17. CASE ForgetHandle(t)
  <2>1. ThreadTypes' /\ Others(t) /\ pc'[t] = "idle"
    BY <1>a, <1>17, ReturnEffect DEF ForgetHandle
  <2>2. LibTypes'
    BY <1>17 DEF ForgetHandle, LibTypes
  <2> QED
    BY <1>17, <2>1, <2>2, OutsideGate, IosKept, VersionKept DEF ForgetHandle, PastGate, iosVars
<1> QED
  BY <1>1, <1>2, <1>3, <1>4, <1>5, <1>6, <1>7, <1>8, <1>9, <1>10, <1>11, <1>12, <1>13, <1>14, <1>15, <1>16, <1>17

\* The commands that go through iosuhaxHandle.
LEMMA HaxGood ==
  ASSUME NEW t \in Threads, IInv, ReadLibDone(t) \/ ReadLibHandle(t) \/ HaxIoctl(t)
  PROVE  Good(t)
<1>0. LibTypes /\ IosTypes /\ ThreadTypes /\ VersionKnown
  BY TypeParts DEF IInv
<1>1. UNCHANGED <<libVars, iosVars>>
  BY DEF ReadLibDone, ReadLibHandle, HaxIoctl
<1>2. {"SUCCESS", "UNKNOWN_ERROR", "OUT_OF_MEMORY", "LIB_UNINITIALIZED"} \subseteq Statuses
  BY DEF Statuses
<1>3. ThreadTypes' /\ Others(t) /\ pc'[t] \in {"idle", "libhandle?", "haxioctl"}
  <2>1. CASE \E status \in Statuses : Return(t, status)
    BY <1>0, <2>1, ReturnEffect
  <2>2. CASE Step(t, "libdone?", "libhandle?") /\ UNCHANGED <<fd, res>>
    BY <1>0, <2>2, StepEffect DEF Pcs, HasFd
  <2>3. CASE Step(t, "libhandle?", "haxioctl") /\ UNCHANGED <<fd, res>>
    BY <1>0, <2>3, StepEffect DEF Pcs, HasFd
  <2> QED
    BY <1>2, <2>1, <2>2, <2>3 DEF ReadLibDone, ReadLibHandle, HaxIoctl
<1> QED
  BY <1>0, <1>1, <1>3, OutsideGate, IosKept, LibKept, VersionKept DEF PastGate, libVars, iosVars

\* A step from one place past the gate to another.
LEMMA InsideGate ==
  ASSUME NEW t \in Threads, IInv, LibTypes', IosTypes', ThreadTypes', Others(t),
         pc[t] \in PastGate, op'[t] = op[t], UNCHANGED <<mochaApiVersion, payload>>
  PROVE  Good(t)
<1>1. Passed(t)
  BY DEF IInv, GatePassed
<1>2. Passed(t)'
  BY <1>1 DEF Passed, Need
<1> QED
  BY <1>2, TypePartsNext, VersionKept DEF IInv, Good

\* The commands that need a running Mocha.  The gate is passed in
\* ReadGateVersion: the version read there is 0 or the payload's.
LEMMA GatedGood ==
  ASSUME NEW t \in Threads, IInv,
         \/ ReadGateDone(t) \/ ReadGateVersion(t) \/ CheckArgument(t)
         \/ OpenDevice(t) \/ Ipc(t) \/ CloseDevice(t) \/ DirectCommand(t)
  PROVE  Good(t)
<1>0. LibTypes /\ IosTypes /\ ThreadTypes /\ VersionKnown
  BY TypeParts DEF IInv
<1> USE <1>0
<1>a. /\ Statuses = Statuses \cup {"LIB_UNINITIALIZED", "UNSUPPORTED_COMMAND", "INVALID_ARGUMENT",
                        "UNKNOWN_ERROR", "SUCCESS", "NOT_FOUND", "MAX_CLIENT", "COUNT"}
      /\ res[t] \in Statuses
  BY DEF Statuses, ThreadTypes
<1>b. ASSUME NEW status \in Statuses, GatedReturn(t, status), LibTypes', IosTypes',
             UNCHANGED <<mochaApiVersion, payload>>
      PROVE  Good(t)
  BY <1>b, GatedReturnEffect, OutsideGate, VersionKept
<1>1. CASE ReadGateDone(t)
  <2>1. LibTypes' /\ IosTypes' /\ UNCHANGED <<mochaApiVersion, payload>>
    BY <1>1, LibKept, IosKept DEF ReadGateDone, libVars, iosVars
  <2>2. CASE GatedReturn(t, "LIB_UNINITIALIZED")
    BY <1>a, <1>b, <2>1, <2>2
  <2>3. CASE Step(t, "gatedone?", "gateversion?") /\ UNCHANGED <<fd, res>>
    <3>1. ThreadTypes' /\ Others(t) /\ pc'[t] = "gateversion?"
      BY <2>3, StepEffect DEF Pcs, HasFd
    <3> QED
      BY <2>1, <3>1, OutsideGate, VersionKept DEF PastGate
  <2> QED
    BY <1>1, <2>2, <2>3 DEF ReadGateDone
<1>2. CASE ReadGateVersion(t)
  <2>1. LibTypes' /\ IosTypes' /\ UNCHANGED <<mochaApiVersion, payload>>
    BY <1>2, LibKept, IosKept DEF ReadGateVersion, libVars, iosVars
  <2>2. CASE GatedReturn(t, "UNSUPPORTED_COMMAND")
    BY <1>a, <1>b, <2>1, <2>2
  <2>3. CASE ~ GatedReturn(t, "UNSUPPORTED_COMMAND")
    <3>1. PICK next \in {"argument?", "direct", "opendev"} :
            /\ mochaApiVersion >= Need(op[t])
            /\ Step(t, "gateversion?", next) /\ UNCHANGED <<fd, res>>
      BY <1>2, <2>3 DEF ReadGateVersion
    <3>2. ThreadTypes' /\ Others(t) /\ op'[t] = op[t]
      BY <3>1, StepEffect DEF Pcs, HasFd
    <3>3. mochaApiVersion = PayloadVersion
      BY <3>1, NeedPositive DEF VersionKnown
    <3>4. payload \in Nat /\ payload >= Need(op[t])
      BY <3>1, <3>3, NeedPositive, PayloadVersionNat
    <3>5. Passed(t)'
      BY <2>1, <3>2, <3>4 DEF Passed, Need
    <3> QED
      BY <2>1, <3>2, <3>5, TypePartsNext, VersionKept DEF Good
  <2> QED
    BY <2>2, <2>3
<1>3. CASE CheckArgument(t)
  <2>1. LibTypes' /\ IosTypes' /\ UNCHANGED <<mochaApiVersion, payload>>
    BY <1>3, LibKept, IosKept DEF CheckArgument, libVars, iosVars
  <2>2. CASE GatedReturn(t, "INVALID_ARGUMENT")
    BY <1>a, <1>b, <2>1, <2>2
  <2>3. CASE ~ GatedReturn(t, "INVALID_ARGUMENT")
    <3>1. PICK next \in {"direct", "opendev"} :
            Step(t, "argument?", next) /\ UNCHANGED <<fd, res>>
      BY <1>3, <2>3 DEF CheckArgument
    <3>2. ThreadTypes' /\ Others(t) /\ op'[t] = op[t] /\ pc[t] = "argument?"
      BY <3>1, StepEffect DEF Pcs, HasFd
    <3> QED
      BY <2>1, <3>2, InsideGate DEF PastGate
  <2> QED
    BY <2>2, <2>3
<1>4. CASE OpenDevice(t)
  <2>1. LibTypes' /\ UNCHANGED <<mochaApiVersion, payload, rpx>>
    BY <1>4, LibKept DEF OpenDevice, libVars
  <2>2. CASE GatedReturn(t, "UNKNOWN_ERROR") /\ UNCHANGED device
    <3>1. IosTypes'
      BY <2>1, <2>2, IosKept DEF iosVars
    <3> QED
      BY <1>a, <1>b, <2>1, <2>2, <3>1
  <2>3. CASE Step(t, "opendev", "ipc") /\ Opened(t, Device(op[t])) /\ UNCHANGED res
    <3>1. Device(op[t]) \in {"iosuhax", "mcp", "odm"}
      BY DEF Device
    <3>2. /\ ThreadTypes' /\ IosTypes' /\ Others(t)
          /\ op'[t] = op[t] /\ pc[t] = "opendev"
      BY <2>1, <2>3, <3>1, OpenEffect DEF Pcs, HasFd
    <3> QED
      BY <2>1, <3>2, InsideGate DEF PastGate
  <2> QED
    BY <1>4, <2>2, <2>3 DEF OpenDevice
<1>5. CASE Ipc(t)
  <2>1. LibTypes' /\ UNCHANGED <<mochaApiVersion, payload, device, fd>>
    BY <1>5, LibKept DEF Ipc, libVars
  <2>2. PICK status \in {"SUCCESS", "UNKNOWN_ERROR", "NOT_FOUND"} :
          /\ res' = IF call[t] = "LaunchRPX" /\ op[t] = "RevertRPXLaunch"
                    THEN res ELSE [res EXCEPT ![t] = status]
          /\ rpx' = CASE status = "SUCCESS" /\ op[t] = "PrepareRPXLaunch" ->
                           IF call[t] = "LaunchRPX" THEN "launch" ELSE "app"
                      [] status = "SUCCESS" /\ op[t] = "RevertRPXLaunch" -> "none"
                      [] OTHER -> rpx
    BY <1>5 DEF Ipc
  <2>3. rpx' \in {"none", "app", "launch"}
    BY <2>2 DEF IosTypes
  <2>4. IosTypes'
    BY <2>1, <2>3 DEF IosTypes
  <2>5. ThreadTypes' /\ Others(t) /\ op'[t] = op[t] /\ pc[t] = "ipc" /\ pc'[t] = "closedev"
    <3>1. res' = res \/ (\E s \in Statuses : res' = [res EXCEPT ![t] = s])
      BY <1>a, <2>2
    <3> QED
      BY <1>5, <2>1, <3>1, StepEffect DEF Ipc, Pcs, HasFd
  <2> QED
    BY <2>1, <2>4, <2>5, OutsideGate, VersionKept DEF PastGate
<1>6. CASE CloseDevice(t)
  <2>1. IosTypes' /\ LibTypes'
    BY <1>6, ClosedEffect, LibKept DEF CloseDevice
  <2> QED
    BY <1>6, <1>a, <1>b, <2>1 DEF CloseDevice, libVars
<1>7. CASE DirectCommand(t)
  <2>1. LibTypes' /\ IosTypes' /\ UNCHANGED <<mochaApiVersion, payload>>
    BY <1>7, LibKept, IosKept DEF DirectCommand, libVars, iosVars
  <2>2. PICK status \in DirectStatuses(op[t]) : GatedReturn(t, status)
    BY <1>7 DEF DirectCommand
  <2>3. status \in Statuses
    BY <1>a, <2>2 DEF DirectStatuses
  <2> QED
    BY <1>b, <2>1, <2>2, <2>3
<1> QED
  BY <1>1, <1>2, <1>3, <1>4, <1>5, <1>6, <1>7

-----------------------------------------------------------------------------
(* The theorems.                                                           *)

\* Every step of every thread keeps the invariant.
LEMMA NextInvariant == IInv /\ [Next]_vars => IInv'
<1> SUFFICES ASSUME IInv, [Next]_vars PROVE IInv'
  OBVIOUS
<1>1. CASE UNCHANGED vars
  BY <1>1 DEF IInv, TypeOK, VersionKnown, PayloadVersion, GatePassed, Passed, Need,
              vars, libVars, iosVars
<1>2. CASE Next
  <2> PICK t \in Threads : Starts(t) \/ Works(t)
    BY <1>2 DEF Next
  <2>1. Good(t)
    BY StartsGood, LifecycleGood, HaxGood, GatedGood DEF Works
  <2> QED
    BY <2>1, GoodSuffices
<1> QED
  BY <1>1, <1>2

\* The inductive invariant: a thread past its gate keeps what it found out,
\* because the version of the library is only ever 0 or the payload's.
THEOREM Invariance == Spec => []IInv
  BY InitInvariant, NextInvariant, PTL DEF Spec

\* Every variable stays in its range, and calls hold handles from open to close.
THEOREM TypeCorrect == Spec => []TypeOK
<1>1. IInv => TypeOK
  BY DEF IInv
<1> QED
  BY <1>1, Invariance, PTL

\* No command reaches a Mocha that does not know it, with any number of threads
\* that initialize and deinitialize the library at any time.
THEOREM CommandsAreGated == Spec => []VersionGate
<1>1. IInv => VersionGate
  BY DEF IInv, GatePassed, Passed, PastGate, VersionGate
<1> QED
  BY <1>1, Invariance, PTL

-----------------------------------------------------------------------------
(* The handles of /dev/iosuhax and /dev/mcp.                               *)

\* mocha.h leaves the lifecycle to the application; without this the check of
\* mochaInitDone and the assignments race (the run MochaLib_init).
OneInCharge == \A t, u \in Lifecycle : t = u

\* Where only InitLibrary and DeInitLibrary are.
LifecyclePcs ==
  {"initdone?", "handle?", "openhax", "storehandle", "setdone", "setversion0",
   "storeversion", "closehax", "forgethax", "cleardone", "clearversion",
   "opened?", "closehandle", "forgethandle"}

\* Where iosuhaxHandle is about to be set, and where it is closed but still set.
Setting   == {"openhax", "storehandle"}
Forgetting == {"forgethax", "forgethandle"}

\* The number in iosuhaxHandle is no longer the library's; IOSU may have given
\* it to somebody else.
Stale == \E t \in Threads : pc[t] \in Forgetting

\* Only the threads in charge are in the two functions.
InCharge(t) == call[t] = "InitLibrary" \/ pc[t] \in LifecyclePcs => t \in Lifecycle

\* A handle that is open is the library's or one a call is going to close.
Owned ==
  \A f \in Fds : device[f] # "closed" =>
    \/ f = iosuhaxHandle /\ ~Stale
    \/ \E t \in Threads : fd[t] = f

\* What a call holds is open, and held by it alone.
HeldOpen(t) == fd[t] # NoFd => device[fd[t]] # "closed"
HeldApart   == \A t, u \in Threads : fd[t] = fd[u] /\ fd[t] # NoFd => t = u
NotShared   == Stale \/ \A t \in Threads : fd[t] # NoFd => fd[t] # iosuhaxHandle

\* The library's handle is a handle of /dev/iosuhax.
SetIsOpen == iosuhaxHandle # NoFd => device[iosuhaxHandle] = "iosuhax" \/ Stale

\* A handle is opened and stored while there is none.
SetOnce(t) ==
  /\ pc[t] \in Setting => iosuhaxHandle = NoFd
  /\ pc[t] = "storehandle" => device[fd[t]] = "iosuhax"

HInv ==
  /\ \A t \in Threads : InCharge(t) /\ HeldOpen(t) /\ SetOnce(t)
  /\ Owned /\ HeldApart /\ NotShared /\ SetIsOpen

-----------------------------------------------------------------------------
(* What a step does to the thread that makes it.                           *)

\* The other threads stay where they are and keep what they hold.
Alone(t) ==
  \A u \in Threads \ {t} : pc'[u] = pc[u] /\ call'[u] = call[u] /\ fd'[u] = fd[u]

\* The library starts in the invariant: nothing is open.
LEMMA InitHandles == Init => HInv
<1> SUFFICES ASSUME Init PROVE HInv
  OBVIOUS
<1>1. \A t \in Threads : pc[t] = "idle" /\ call[t] = NoCall /\ fd[t] = NoFd
  BY DEF Init
<1>2. NoCall # "InitLibrary"
  BY NoCallOK DEF Calls
<1>3. /\ \A f \in Fds : device[f] = "closed"
      /\ iosuhaxHandle = NoFd
  BY DEF Init
<1>4. \A t \in Threads : InCharge(t) /\ HeldOpen(t) /\ SetOnce(t)
  BY <1>1, <1>2 DEF InCharge, HeldOpen, SetOnce, LifecyclePcs, Setting
<1>5. Owned /\ HeldApart /\ NotShared /\ SetIsOpen
  BY <1>1, <1>3 DEF Owned, HeldApart, NotShared, SetIsOpen
<1> QED
  BY <1>4, <1>5 DEF HInv

\* A return: the thread is idle and holds nothing.
LEMMA ReturnMoves ==
  ASSUME NEW t \in Threads, NEW status, ThreadTypes, Return(t, status)
  PROVE  /\ Alone(t) /\ InCharge(t)'
         /\ pc'[t] = "idle" /\ fd'[t] = NoFd /\ call'[t] = NoCall
<1>1. NoCall # "InitLibrary"
  BY NoCallOK DEF Calls
<1> QED
  BY <1>1 DEF Return, Goto, ThreadTypes, Alone, InCharge, LifecyclePcs

\* A step within a call.
LEMMA StepMoves ==
  ASSUME NEW t \in Threads, NEW at, NEW next, ThreadTypes, Step(t, at, next)
  PROVE  /\ pc[t] = at /\ pc'[t] = next /\ call'[t] = call[t]
         /\ \A u \in Threads \ {t} : pc'[u] = pc[u] /\ call'[u] = call[u]
  BY DEF Step, Goto, ThreadTypes

\* A gated function returns: the thread holds nothing, and is not in charge of
\* anything it was not in charge of before.
LEMMA GatedReturnMoves ==
  ASSUME NEW t \in Threads, NEW status, ThreadTypes, GatedReturn(t, status), InCharge(t)
  PROVE  /\ Alone(t) /\ InCharge(t)'
         /\ pc'[t] \in {"idle", "gatedone?"} /\ fd'[t] = NoFd
<1>1. CASE \E s : Return(t, s)
  BY <1>1, ReturnMoves
<1>2. CASE ~ \E s : Return(t, s)
  <2>1. /\ Goto(t, "gatedone?")
        /\ fd' = [fd EXCEPT ![t] = NoFd]
        /\ UNCHANGED call
    BY <1>2 DEF GatedReturn
  <2> QED
    BY <2>1 DEF Goto, ThreadTypes, Alone, InCharge, LifecyclePcs
<1> QED
  BY <1>1, <1>2

\* CheckAPIVersion returns: InitLibrary goes on only in its own thread.
LEMMA VersionCheckedMoves ==
  ASSUME NEW t \in Threads, NEW status, ThreadTypes, VersionChecked(t, status), InCharge(t)
  PROVE  /\ Alone(t) /\ InCharge(t)'
         /\ pc'[t] \in {"idle", "storeversion", "closehax"} /\ fd'[t] = NoFd
<1>1. CASE Return(t, status)
  BY <1>1, ReturnMoves
<1>2. CASE ~ Return(t, status)
  <2>1. PICK next \in {"storeversion", "closehax"} :
          /\ call[t] = "InitLibrary"
          /\ Goto(t, next)
          /\ fd' = [fd EXCEPT ![t] = NoFd]
          /\ UNCHANGED call
    BY <1>2 DEF VersionChecked
  <2> QED
    BY <2>1 DEF Goto, ThreadTypes, Alone, InCharge
<1> QED
  BY <1>1, <1>2

-----------------------------------------------------------------------------
(* Three kinds of step, by what they do to the handles.                    *)

\* A step that touches no handle.
LEMMA QuietStep ==
  ASSUME NEW t \in Threads, HInv, Alone(t), InCharge(t)',
         UNCHANGED <<device, iosuhaxHandle>>, fd'[t] = fd[t],
         pc[t] \notin Forgetting, pc'[t] \notin Forgetting,
         pc'[t] # "storehandle", pc'[t] = "openhax" => iosuhaxHandle = NoFd
  PROVE  HInv'
<1>1. Stale' <=> Stale
  BY DEF Stale, Alone
<1>2. \A u \in Threads : fd'[u] = fd[u]
  BY DEF Alone
<1>3. \A u \in Threads : InCharge(u)' /\ HeldOpen(u)' /\ SetOnce(u)'
  BY <1>2 DEF HInv, InCharge, HeldOpen, SetOnce, Alone, Setting
<1>4. Owned' /\ HeldApart' /\ NotShared' /\ SetIsOpen'
  BY <1>1, <1>2 DEF HInv, Owned, HeldApart, NotShared, SetIsOpen
<1> QED
  BY <1>3, <1>4 DEF HInv

\* A successful IOS_Open.  The number was free: nobody holds it.
LEMMA OpeningStep ==
  ASSUME NEW t \in Threads, TypeOK, HInv, Alone(t), InCharge(t)',
         NEW dev \in {"iosuhax", "mcp", "odm"}, NEW f \in Fds,
         device[f] = "closed", device' = [device EXCEPT ![f] = dev],
         UNCHANGED iosuhaxHandle, fd[t] = NoFd, fd'[t] = f,
         pc[t] \notin Forgetting, pc'[t] \notin Forgetting,
         pc'[t] \in Setting => iosuhaxHandle = NoFd /\ dev = "iosuhax"
  PROVE  HInv'
<1>1. Stale' <=> Stale
  BY DEF Stale, Alone
<1>2. f # NoFd
  BY ConstantsOK
<1>3. \A g \in Fds : device'[g] = IF g = f THEN dev ELSE device[g]
  BY DEF TypeOK
<1>4. \A u \in Threads : /\ fd[u] \in Fds \cup {NoFd}
                         /\ fd[u] # f
                         /\ fd'[u] = IF u = t THEN f ELSE fd[u]
  BY <1>2 DEF TypeOK, HInv, HeldOpen, Alone
<1>5. \A u \in Threads : InCharge(u)'
  BY DEF HInv, InCharge, Alone
<1>6. \A u \in Threads : HeldOpen(u)'
  BY <1>3, <1>4 DEF HInv, HeldOpen
<1>7. \A u \in Threads : SetOnce(u)'
  <2> TAKE u \in Threads
  <2>1. CASE u = t
    BY <1>3, <1>4, <2>1 DEF SetOnce, Setting
  <2>2. CASE u # t
    <3>1. pc'[u] = "storehandle" => fd[u] \in Fds
      BY <1>4, <2>2 DEF Alone, TypeOK, HasFd
    <3> QED
      BY <1>3, <1>4, <2>2, <3>1 DEF HInv, SetOnce, Alone
  <2> QED
    BY <2>1, <2>2
<1>8. Owned'
  <2>1. ASSUME NEW g \in Fds, device'[g] # "closed"
        PROVE  (g = iosuhaxHandle /\ ~Stale) \/ \E u \in Threads : fd'[u] = g
    <3>1. CASE g = f
      BY <1>4, <3>1
    <3>2. CASE g # f
      <4>1. (g = iosuhaxHandle /\ ~Stale) \/ \E u \in Threads : fd[u] = g
        BY <1>3, <2>1, <3>2 DEF HInv, Owned
      <4>2. ASSUME NEW u \in Threads, fd[u] = g PROVE fd'[u] = g
        <5>1. fd[t] # g
          BY ConstantsOK
        <5> QED
          BY <1>4, <4>2, <5>1
      <4> QED
        BY <4>1, <4>2
    <3> QED
      BY <3>1, <3>2
  <2> QED
    BY <1>1, <2>1 DEF Owned
<1>9. HeldApart'
  BY <1>4 DEF HInv, HeldApart
<1>10. iosuhaxHandle # f \/ Stale
  BY <1>2 DEF HInv, SetIsOpen
<1>11. NotShared'
  BY <1>1, <1>4, <1>10 DEF HInv, NotShared
<1>12. SetIsOpen'
  BY <1>1, <1>3, <1>10 DEF HInv, SetIsOpen, TypeOK
<1> QED
  BY <1>5, <1>6, <1>7, <1>8, <1>9, <1>11, <1>12 DEF HInv

\* The IOS_Close of what the thread opened.
LEMMA ClosingStep ==
  ASSUME NEW t \in Threads, TypeOK, HInv, Alone(t), InCharge(t)',
         fd[t] # NoFd, Closed(fd[t]), UNCHANGED iosuhaxHandle, fd'[t] = NoFd,
         pc[t] \notin Forgetting, pc'[t] \notin Forgetting \cup Setting
  PROVE  HInv'
<1>1. Stale' <=> Stale
  BY DEF Stale, Alone
<1>2. \A u \in Threads : /\ fd[u] \in Fds \cup {NoFd}
                         /\ u # t /\ fd[u] # NoFd => fd[u] # fd[t]
                         /\ fd'[u] = IF u = t THEN NoFd ELSE fd[u]
  BY DEF TypeOK, HInv, HeldApart, Alone
<1>3. \A g \in Fds : device'[g] = IF g = fd[t] THEN "closed" ELSE device[g]
  BY DEF Closed
<1>4. \A u \in Threads : InCharge(u)'
  BY DEF HInv, InCharge, Alone
<1>5. \A u \in Threads : HeldOpen(u)'
  BY <1>2, <1>3 DEF HInv, HeldOpen
<1>6. \A u \in Threads : SetOnce(u)'
  <2> TAKE u \in Threads
  <2>1. CASE u = t
    BY <2>1 DEF SetOnce, Setting
  <2>2. CASE u # t
    <3>1. pc'[u] = "storehandle" => fd[u] \in Fds /\ fd[u] # NoFd
      BY <1>2, <2>2 DEF Alone, TypeOK, HasFd
    <3> QED
      BY <1>2, <1>3, <2>2, <3>1 DEF HInv, SetOnce, Alone
  <2> QED
    BY <2>1, <2>2
<1>7. Owned' /\ HeldApart'
  BY <1>1, <1>2, <1>3 DEF HInv, Owned, HeldApart
<1>8. NotShared' /\ SetIsOpen'
  BY <1>1, <1>2, <1>3 DEF HInv, NotShared, SetIsOpen, TypeOK
<1> QED
  BY <1>4, <1>5, <1>6, <1>7, <1>8 DEF HInv
-----------------------------------------------------------------------------
(* The steps that set, close and forget iosuhaxHandle.                     *)

\* With one thread in charge, nobody else is in InitLibrary or DeInitLibrary.
LEMMA OnlyOne ==
  ASSUME OneInCharge, HInv, NEW t \in Threads, pc[t] \in LifecyclePcs
  PROVE  /\ t \in Lifecycle
         /\ \A u \in Threads \ {t} : pc[u] \notin LifecyclePcs
  BY DEF OneInCharge, HInv, InCharge

\* The handle that was opened becomes the library's: there was none.
LEMMA StoreHandleStep ==
  ASSUME OneInCharge, TypeOK, HInv, NEW t \in Threads, StoreHandle(t)
  PROVE  HInv'
<1>1. /\ pc[t] = "storehandle" /\ pc'[t] = "setdone" /\ call'[t] = call[t]
      /\ fd'[t] = NoFd /\ iosuhaxHandle' = fd[t] /\ device' = device
      /\ Alone(t)
  BY DEF StoreHandle, Step, Goto, iosVars, TypeOK, Alone
<1>2. /\ fd[t] # NoFd /\ device[fd[t]] = "iosuhax" /\ iosuhaxHandle = NoFd
      /\ t \in Lifecycle /\ \A u \in Threads \ {t} : pc[u] \notin LifecyclePcs
  BY <1>1, OnlyOne DEF TypeOK, HasFd, HInv, SetOnce, Setting, LifecyclePcs
<1>3. ~Stale /\ ~Stale'
  BY <1>1, <1>2 DEF Stale, Forgetting, LifecyclePcs, Alone
<1>4. \A u \in Threads \ {t} : fd'[u] = fd[u] /\ (fd[u] # NoFd => fd[u] # fd[t])
  BY <1>1, <1>2 DEF Alone, HInv, HeldApart
<1>5. \A u \in Threads : InCharge(u)' /\ HeldOpen(u)'
  BY <1>1, <1>2, <1>4 DEF HInv, InCharge, HeldOpen, Alone
<1>6. \A u \in Threads : SetOnce(u)'
  BY <1>1, <1>2 DEF SetOnce, Setting, LifecyclePcs, Alone
<1>7. Owned'
  <2>1. ASSUME NEW g \in Fds, device[g] # "closed"
        PROVE  g = fd[t] \/ \E u \in Threads : fd'[u] = g
    BY <1>2, <1>4, <2>1, ConstantsOK DEF HInv, Owned
  <2> QED
    BY <1>1, <1>3, <2>1 DEF Owned
<1>8. HeldApart'
  BY <1>1, <1>4 DEF HInv, HeldApart
<1>9. NotShared' /\ SetIsOpen'
  BY <1>1, <1>2, <1>4 DEF NotShared, SetIsOpen
<1> QED
  BY <1>5, <1>6, <1>7, <1>8, <1>9 DEF HInv

\* Closing the library's handle: nobody else holds its number yet.
LEMMA CloseHandleStep ==
  ASSUME OneInCharge, TypeOK, HInv, NEW t \in Threads, CloseHandle(t) \/ CloseHax(t)
  PROVE  HInv'
<1>1. /\ pc[t] \in LifecyclePcs \ (Forgetting \cup Setting)
      /\ pc'[t] \in Forgetting /\ call'[t] = call[t]
      /\ fd' = fd /\ iosuhaxHandle' = iosuhaxHandle /\ Closed(iosuhaxHandle)
      /\ Alone(t)
  BY DEF CloseHandle, CloseHax, Step, Goto, libVars, TypeOK, Alone, LifecyclePcs, Forgetting, Setting
<1>2. t \in Lifecycle /\ \A u \in Threads \ {t} : pc[u] \notin LifecyclePcs
  BY <1>1, OnlyOne
<1>3. ~Stale /\ Stale'
  BY <1>1, <1>2 DEF Stale, Forgetting, LifecyclePcs
<1>4. \A u \in Threads : fd[u] # NoFd => fd[u] \in Fds /\ fd[u] # iosuhaxHandle
  BY <1>3 DEF HInv, NotShared, TypeOK
<1>5. \A g \in Fds : device'[g] = IF g = iosuhaxHandle THEN "closed" ELSE device[g]
  BY <1>1 DEF Closed
<1>6. \A u \in Threads : InCharge(u)' /\ HeldOpen(u)'
  <2>1. \A u \in Threads : InCharge(u)'
    BY <1>1, <1>2 DEF HInv, InCharge, Alone
  <2>2. \A u \in Threads : HeldOpen(u)'
    BY <1>1, <1>4, <1>5 DEF HInv, HeldOpen
  <2> QED
    BY <2>1, <2>2
<1>7. \A u \in Threads : SetOnce(u)'
  BY <1>1, <1>2 DEF SetOnce, Setting, Forgetting, LifecyclePcs, Alone
<1>8. Owned'
  BY <1>1, <1>5 DEF HInv, Owned
<1>9. HeldApart' /\ NotShared' /\ SetIsOpen'
  BY <1>1, <1>3 DEF HInv, HeldApart, NotShared, SetIsOpen
<1> QED
  BY <1>6, <1>7, <1>8, <1>9 DEF HInv

\* Forgetting it: whoever was given its number since then keeps it.
LEMMA ForgetHandleStep ==
  ASSUME OneInCharge, TypeOK, HInv, NEW t \in Threads, ForgetHandle(t) \/ ForgetHax(t)
  PROVE  HInv'
<1>1. ThreadTypes
  BY TypeParts
<1>2. /\ pc[t] \in Forgetting /\ pc'[t] = "idle" /\ InCharge(t)' /\ Alone(t)
      /\ iosuhaxHandle' = NoFd /\ device' = device /\ fd'[t] = NoFd
  BY <1>1, ReturnMoves DEF ForgetHandle, ForgetHax, Forgetting, iosVars
<1>3. \A u \in Threads \ {t} : pc[u] \notin LifecyclePcs
  BY <1>2, OnlyOne DEF Forgetting, LifecyclePcs
<1>4. Stale /\ ~Stale'
  BY <1>2, <1>3 DEF Stale, Forgetting, LifecyclePcs, Alone
<1>5. \A u \in Threads : fd'[u] = fd[u]
  BY <1>2 DEF TypeOK, HasFd, Forgetting, Alone
<1>6. \A u \in Threads : InCharge(u)' /\ HeldOpen(u)'
  BY <1>2, <1>5 DEF HInv, InCharge, HeldOpen, Alone
<1>7. \A u \in Threads : SetOnce(u)'
  BY <1>2, <1>3 DEF SetOnce, Setting, LifecyclePcs, Alone
<1>8. Owned'
  BY <1>2, <1>4, <1>5 DEF HInv, Owned
<1>9. HeldApart' /\ NotShared' /\ SetIsOpen'
  BY <1>2, <1>5 DEF HInv, HeldApart, NotShared, SetIsOpen
<1> QED
  BY <1>6, <1>7, <1>8, <1>9 DEF HInv
-----------------------------------------------------------------------------
(* Every action is one of these steps.                                     *)

\* The calls begin without a handle.
LEMMA StartsHandles ==
  ASSUME TypeOK, HInv, NEW t \in Threads, Starts(t)
  PROVE  HInv'
<1>1. UNCHANGED <<device, iosuhaxHandle, fd>>
  BY DEF Starts, CallInitLibrary, CallDeInitLibrary, CallCheckAPIVersion, CallLaunchRPX,
         CallGated, CallHax, CallAnswered, Enter, libVars, iosVars
<1>2. pc[t] = "idle" /\ InCharge(t)
  BY DEF HInv, Starts, CallInitLibrary, CallDeInitLibrary, CallCheckAPIVersion, CallLaunchRPX,
         CallGated, CallHax, CallAnswered, Enter
<1>3. CASE CallAnswered(t)
  <2>1. UNCHANGED <<pc, call>>
    BY <1>3 DEF CallAnswered
  <2> QED
    BY <1>1, <1>2, <2>1, QuietStep DEF Alone, InCharge, Forgetting
<1>4. ASSUME NEW c, NEW first, NEW at \in Pcs \ (Forgetting \cup Setting),
             Enter(t, c, first, at),
             c = "InitLibrary" \/ at \in LifecyclePcs => t \in Lifecycle
      PROVE  HInv'
  <2>1. /\ pc'[t] = at /\ call'[t] = c
        /\ \A u \in Threads \ {t} : pc'[u] = pc[u] /\ call'[u] = call[u]
    BY <1>4 DEF Enter, Goto, TypeOK
  <2> QED
    BY <1>1, <1>2, <1>4, <2>1, QuietStep DEF Alone, InCharge, Forgetting, Setting
<1>5. {"initdone?", "cleardone", "openmcp", "gatedone?", "libdone?"}
        \subseteq Pcs \ (Forgetting \cup Setting)
  BY DEF Pcs, Forgetting, Setting
<1>6. /\ {"openmcp", "gatedone?", "libdone?"} \cap LifecyclePcs = {}
      /\ "InitLibrary" \notin Gated \cup Hax
  BY DEF LifecyclePcs, Gated, Version1, Version2, Hax
<1>7. CASE CallInitLibrary(t) \/ CallDeInitLibrary(t)
  BY <1>4, <1>5, <1>7 DEF CallInitLibrary, CallDeInitLibrary
<1>8. CASE CallCheckAPIVersion(t) \/ CallLaunchRPX(t)
  BY <1>4, <1>5, <1>6, <1>8 DEF CallCheckAPIVersion, CallLaunchRPX
<1>9. CASE CallGated(t) \/ CallHax(t)
  BY <1>4, <1>5, <1>6, <1>9 DEF CallGated, CallHax
<1> QED
  BY <1>3, <1>7, <1>8, <1>9 DEF Starts

\* A return from a place without a handle, or a step between two such places.
LEMMA PlainReturn ==
  ASSUME TypeOK, HInv, NEW t \in Threads, NEW status, Return(t, status),
         pc[t] \notin HasFd \cup Forgetting, UNCHANGED <<device, iosuhaxHandle>>
  PROVE  HInv'
<1>1. ThreadTypes
  BY TypeParts
<1>2. fd[t] = NoFd
  BY DEF TypeOK
<1> QED
  BY <1>1, <1>2, ReturnMoves, QuietStep DEF Forgetting

\* A step between two places without a handle, or two with the same one.
LEMMA PlainStep ==
  ASSUME TypeOK, HInv, NEW t \in Threads, NEW at, NEW next, Step(t, at, next),
         UNCHANGED <<device, iosuhaxHandle, fd>>,
         at \notin Forgetting, next \notin Forgetting \cup {"storehandle"},
         next = "openhax" => iosuhaxHandle = NoFd,
         next \in LifecyclePcs => at \in LifecyclePcs
  PROVE  HInv'
<1>1. ThreadTypes
  BY TypeParts
<1>2. /\ pc[t] = at /\ pc'[t] = next /\ call'[t] = call[t] /\ Alone(t)
  BY <1>1, StepMoves DEF Alone
<1>3. InCharge(t)'
  BY <1>2 DEF HInv, InCharge
<1> QED
  BY <1>2, <1>3, QuietStep

\* A failed or finished gated function, and a failed CheckAPIVersion.
LEMMA PlainGatedReturn ==
  ASSUME TypeOK, HInv, NEW t \in Threads, NEW status,
         GatedReturn(t, status) \/ VersionChecked(t, status),
         pc[t] \notin HasFd \cup Forgetting, UNCHANGED <<device, iosuhaxHandle>>
  PROVE  HInv'
<1>1. ThreadTypes /\ InCharge(t)
  BY TypeParts DEF HInv
<1>2. fd[t] = NoFd
  BY DEF TypeOK
<1> QED
  BY <1>1, <1>2, GatedReturnMoves, VersionCheckedMoves, QuietStep DEF Forgetting

\* A successful IOS_Open on the way from one place of a call to the next.
LEMMA OpenStep ==
  ASSUME TypeOK, HInv, NEW t \in Threads, NEW at, NEW next,
         at \notin HasFd \cup Forgetting, next \notin Forgetting, NEW dev \in {"iosuhax", "mcp", "odm"},
         Step(t, at, next), Opened(t, dev), UNCHANGED iosuhaxHandle,
         next \in Setting => iosuhaxHandle = NoFd /\ dev = "iosuhax",
         next \in LifecyclePcs => at \in LifecyclePcs
  PROVE  HInv'
<1>1. ThreadTypes
  BY TypeParts
<1>2. PICK f \in Fds : /\ device[f] = "closed"
                       /\ device' = [device EXCEPT ![f] = dev]
                       /\ fd' = [fd EXCEPT ![t] = f]
  BY DEF Opened
<1>3. /\ pc[t] = at /\ pc'[t] = next /\ call'[t] = call[t] /\ Alone(t)
      /\ fd[t] = NoFd /\ fd'[t] = f
  BY <1>1, <1>2, StepMoves DEF Alone, ThreadTypes
<1>4. InCharge(t)'
  BY <1>3 DEF HInv, InCharge
<1> QED
  BY <1>2, <1>3, <1>4, OpeningStep

\* A call closes its device and returns.
LEMMA CloseStep ==
  ASSUME TypeOK, HInv, NEW t \in Threads, CloseMcp(t) \/ CloseDevice(t)
  PROVE  HInv'
<1>1. ThreadTypes /\ InCharge(t)
  BY TypeParts DEF HInv
<1>2. /\ pc[t] \in {"closemcp", "closedev"} /\ Closed(fd[t]) /\ UNCHANGED iosuhaxHandle
      /\ \E status : GatedReturn(t, status) \/ VersionChecked(t, status)
  BY DEF CloseMcp, CloseDevice, libVars
<1>3. /\ Alone(t) /\ InCharge(t)' /\ fd'[t] = NoFd
      /\ pc'[t] \in {"idle", "gatedone?", "storeversion", "closehax"}
  BY <1>1, <1>2, GatedReturnMoves, VersionCheckedMoves
<1>4. fd[t] # NoFd
  BY <1>2 DEF TypeOK, HasFd
<1> QED
  BY <1>2, <1>3, <1>4, ClosingStep DEF Forgetting, Setting

\* Mocha_InitLibrary, Mocha_CheckAPIVersion and Mocha_DeInitLibrary.
LEMMA LifecycleHandles ==
  ASSUME OneInCharge, TypeOK, HInv, NEW t \in Threads,
         \/ ReadInitDone(t) \/ ReadHandle(t) \/ OpenHax(t) \/ StoreHandle(t)
         \/ SetDone(t) \/ SetVersion0(t) \/ OpenMcp(t) \/ AskVersion(t) \/ CloseMcp(t)
         \/ StoreVersion(t) \/ CloseHax(t) \/ ForgetHax(t)
         \/ ClearDone(t) \/ ClearVersion(t) \/ ReadOpened(t) \/ CloseHandle(t)
         \/ ForgetHandle(t)
  PROVE  HInv'
<1> USE DEF libVars, iosVars
<1>1. CASE ReadInitDone(t)
  <2>1. CASE Return(t, "SUCCESS") /\ pc[t] = "initdone?"
    BY <1>1, <2>1, PlainReturn DEF ReadInitDone, HasFd, Forgetting
  <2>2. CASE Step(t, "initdone?", "handle?") /\ UNCHANGED <<fd, res>>
    BY <1>1, <2>2, PlainStep DEF ReadInitDone, Forgetting, LifecyclePcs
  <2> QED
    BY <1>1, <2>1, <2>2 DEF ReadInitDone
<1>2. CASE ReadHandle(t)
  <2>1. CASE iosuhaxHandle = NoFd
    BY <1>2, <2>1, PlainStep DEF ReadHandle, Forgetting, LifecyclePcs
  <2>2. CASE iosuhaxHandle # NoFd
    BY <1>2, <2>2, PlainStep DEF ReadHandle, Forgetting, LifecyclePcs
  <2> QED
    BY <2>1, <2>2
<1>3. CASE OpenHax(t)
  <2>1. CASE Return(t, "UNSUPPORTED_COMMAND") /\ pc[t] = "openhax" /\ UNCHANGED device
    BY <1>3, <2>1, PlainReturn DEF OpenHax, HasFd, Forgetting
  <2>2. CASE Step(t, "openhax", "storehandle") /\ Opened(t, "iosuhax")
    <3>1. iosuhaxHandle = NoFd
      BY <2>2 DEF HInv, SetOnce, Setting, Step
    <3> QED
      BY <1>3, <2>2, <3>1, OpenStep DEF OpenHax, HasFd, Forgetting, LifecyclePcs
  <2> QED
    BY <1>3, <2>1, <2>2 DEF OpenHax
<1>4. CASE StoreHandle(t)
  BY <1>4, StoreHandleStep
<1>5. CASE SetDone(t)
  BY <1>5, PlainStep DEF SetDone, Forgetting, LifecyclePcs
<1>6. CASE SetVersion0(t)
  BY <1>6, PlainStep DEF SetVersion0, Forgetting, LifecyclePcs
<1>7. CASE OpenMcp(t)
  <2>1. CASE VersionChecked(t, "UNKNOWN_ERROR") /\ pc[t] = "openmcp" /\ UNCHANGED device
    BY <1>7, <2>1, PlainGatedReturn DEF OpenMcp, HasFd, Forgetting
  <2>2. CASE Step(t, "openmcp", "askversion") /\ Opened(t, "mcp")
    BY <1>7, <2>2, OpenStep DEF OpenMcp, HasFd, Forgetting, Setting, LifecyclePcs
  <2> QED
    BY <1>7, <2>1, <2>2 DEF OpenMcp
<1>8. CASE AskVersion(t)
  BY <1>8, PlainStep DEF AskVersion, Forgetting, LifecyclePcs
<1>9. CASE CloseMcp(t)
  BY <1>9, CloseStep
<1>10. CASE StoreVersion(t)
  BY <1>10, PlainReturn DEF StoreVersion, HasFd, Forgetting
<1>11. CASE CloseHax(t) \/ CloseHandle(t)
  BY <1>11, CloseHandleStep
<1>12. CASE ForgetHax(t) \/ ForgetHandle(t)
  BY <1>12, ForgetHandleStep
<1>13. CASE ClearDone(t)
  BY <1>13, PlainStep DEF ClearDone, Forgetting, LifecyclePcs
<1>14. CASE ClearVersion(t)
  BY <1>14, PlainStep DEF ClearVersion, Forgetting, LifecyclePcs
<1>15. CASE ReadOpened(t)
  <2>1. CASE Return(t, "SUCCESS") /\ pc[t] = "opened?"
    BY <1>15, <2>1, PlainReturn DEF ReadOpened, HasFd, Forgetting
  <2>2. CASE Step(t, "opened?", "closehandle") /\ UNCHANGED <<fd, res>>
    BY <1>15, <2>2, PlainStep DEF ReadOpened, Forgetting, LifecyclePcs
  <2> QED
    BY <1>15, <2>1, <2>2 DEF ReadOpened
<1> QED
  BY <1>1, <1>2, <1>3, <1>4, <1>5, <1>6, <1>7, <1>8, <1>9, <1>10, <1>11, <1>12, <1>13, <1>14, <1>15

\* The commands, those of iosuhaxHandle and those that need a Mocha.
LEMMA CommandsHandles ==
  ASSUME TypeOK, HInv, NEW t \in Threads,
         \/ ReadLibDone(t) \/ ReadLibHandle(t) \/ HaxIoctl(t)
         \/ ReadGateDone(t) \/ ReadGateVersion(t) \/ CheckArgument(t)
         \/ OpenDevice(t) \/ Ipc(t) \/ CloseDevice(t) \/ DirectCommand(t)
  PROVE  HInv'
<1> USE DEF libVars, iosVars
<1>1. CASE /\ UNCHANGED <<device, iosuhaxHandle>>
           /\ pc[t] \notin HasFd \cup Forgetting
           /\ \E status : Return(t, status) \/ GatedReturn(t, status)
  BY <1>1, PlainReturn, PlainGatedReturn
<1>2. CASE /\ UNCHANGED <<device, iosuhaxHandle, fd>>
           /\ \E at \in Pcs \ Forgetting,
                 next \in Pcs \ (Forgetting \cup Setting \cup LifecyclePcs) : Step(t, at, next)
  BY <1>2, PlainStep DEF Setting
<1>3. /\ {"libdone?", "libhandle?", "gatedone?", "gateversion?", "argument?", "ipc"}
            \subseteq Pcs \ Forgetting
      /\ {"libhandle?", "haxioctl", "gateversion?", "argument?", "opendev", "direct", "closedev"}
            \subseteq Pcs \ (Forgetting \cup Setting \cup LifecyclePcs)
  BY DEF Pcs, Forgetting, Setting, LifecyclePcs
<1>4. {"libdone?", "libhandle?", "haxioctl", "gatedone?", "gateversion?", "argument?",
       "opendev", "direct"} \cap (HasFd \cup Forgetting) = {}
  BY DEF HasFd, Forgetting
<1>5. CASE ReadLibDone(t)
  BY <1>1, <1>2, <1>3, <1>4, <1>5 DEF ReadLibDone
<1>6. CASE ReadLibHandle(t)
  BY <1>1, <1>2, <1>3, <1>4, <1>6 DEF ReadLibHandle
<1>7. CASE HaxIoctl(t)
  BY <1>1, <1>4, <1>7 DEF HaxIoctl
<1>8. CASE ReadGateDone(t)
  BY <1>1, <1>2, <1>3, <1>4, <1>8 DEF ReadGateDone
<1>9. CASE ReadGateVersion(t)
  <2>1. CASE GatedReturn(t, "UNSUPPORTED_COMMAND") /\ pc[t] = "gateversion?"
    BY <1>1, <1>4, <1>9, <2>1 DEF ReadGateVersion
  <2>2. CASE ~ (GatedReturn(t, "UNSUPPORTED_COMMAND") /\ pc[t] = "gateversion?")
    <3>1. PICK next \in {"argument?", "direct", "opendev"} :
            Step(t, "gateversion?", next) /\ UNCHANGED fd
      BY <1>9, <2>2 DEF ReadGateVersion
    <3> QED
      BY <1>2, <1>3, <1>9, <3>1 DEF ReadGateVersion
  <2> QED
    BY <2>1, <2>2
<1>10. CASE CheckArgument(t)
  <2>1. CASE GatedReturn(t, "INVALID_ARGUMENT") /\ pc[t] = "argument?"
    BY <1>1, <1>4, <1>10, <2>1 DEF CheckArgument
  <2>2. CASE ~ (GatedReturn(t, "INVALID_ARGUMENT") /\ pc[t] = "argument?")
    <3>1. PICK next \in {"direct", "opendev"} : Step(t, "argument?", next) /\ UNCHANGED fd
      BY <1>10, <2>2 DEF CheckArgument
    <3> QED
      BY <1>2, <1>3, <1>10, <3>1 DEF CheckArgument
  <2> QED
    BY <2>1, <2>2
<1>11. CASE OpenDevice(t)
  <2>1. CASE GatedReturn(t, "UNKNOWN_ERROR") /\ pc[t] = "opendev" /\ UNCHANGED device
    BY <1>1, <1>4, <1>11, <2>1 DEF OpenDevice
  <2>2. CASE Step(t, "opendev", "ipc") /\ Opened(t, Device(op[t]))
    <3>1. Device(op[t]) \in {"iosuhax", "mcp", "odm"}
      BY DEF Device
    <3> QED
      BY <1>11, <2>2, <3>1, OpenStep DEF OpenDevice, HasFd, Forgetting, Setting, LifecyclePcs
  <2> QED
    BY <1>11, <2>1, <2>2 DEF OpenDevice
<1>12. CASE Ipc(t)
  BY <1>2, <1>3, <1>12 DEF Ipc
<1>13. CASE CloseDevice(t)
  BY <1>13, CloseStep
<1>14. CASE DirectCommand(t)
  BY <1>1, <1>4, <1>14 DEF DirectCommand
<1> QED
  BY <1>5, <1>6, <1>7, <1>8, <1>9, <1>10, <1>11, <1>12, <1>13, <1>14

-----------------------------------------------------------------------------
(* The theorems on the handles.                                            *)

\* With one thread in charge, every step keeps the invariant.
LEMMA NextHandles == OneInCharge /\ TypeOK /\ HInv /\ [Next]_vars => HInv'
<1> SUFFICES ASSUME OneInCharge, TypeOK, HInv, [Next]_vars PROVE HInv'
  OBVIOUS
<1>1. CASE UNCHANGED vars
  BY <1>1 DEF HInv, InCharge, HeldOpen, SetOnce, Owned, HeldApart, NotShared, SetIsOpen, Stale,
              vars, libVars, iosVars
<1>2. CASE Next
  BY <1>2, StartsHandles, LifecycleHandles, CommandsHandles DEF Next, Works
<1> QED
  BY <1>1, <1>2

\* The inductive invariant of the handles: every open one is accounted for.
THEOREM HandleInvariance == ASSUME OneInCharge PROVE Spec => []HInv
  BY InitHandles, NextHandles, TypeCorrect, PTL DEF Spec

\* With one thread in charge of the lifecycle, the handle of the library is a
\* handle of /dev/iosuhax whenever it is set, but between closing and forgetting,
\* whatever the other threads open and close.
THEOREM HandleIsValid == ASSUME OneInCharge PROVE Spec => []HaxHandleValid
<1>1. HInv => HaxHandleValid
  BY DEF HInv, SetIsOpen, Stale, Forgetting, HaxHandleValid
<1> QED
  BY <1>1, HandleInvariance, PTL

\* Every path out of every function closes what it opened: between calls the
\* process holds the library's handle, if it has one, and nothing else.
THEOREM HandlesAreBalanced == ASSUME OneInCharge PROVE Spec => []HandlesBalanced
<1>1. TypeOK /\ HInv => HandlesBalanced
  <2> SUFFICES ASSUME TypeOK, HInv, \A t \in Threads : pc[t] = "idle"
               PROVE  {f \in Fds : device[f] # "closed"} = {iosuhaxHandle} \ {NoFd}
    BY DEF HandlesBalanced
  <2>1. ~Stale /\ \A t \in Threads : fd[t] = NoFd
    BY DEF Stale, Forgetting, TypeOK, HasFd
  <2>2. \A f \in Fds : device[f] # "closed" => f = iosuhaxHandle /\ f # NoFd
    BY <2>1, ConstantsOK DEF HInv, Owned
  <2>3. iosuhaxHandle # NoFd => iosuhaxHandle \in Fds /\ device[iosuhaxHandle] # "closed"
    BY <2>1 DEF HInv, SetIsOpen, TypeOK
  <2> QED
    BY <2>2, <2>3
<1> QED
  BY <1>1, HandleInvariance, TypeCorrect, PTL
-----------------------------------------------------------------------------
(* LaunchRPX, with any number of threads in charge of the lifecycle.       *)

\* The places of a gated function.
GatePcs == {"gatedone?", "gateversion?", "argument?", "opendev", "ipc", "closedev", "direct"}

\* LaunchRPX is always inside one of its three gated functions.
Launching(t) ==
  call[t] = "LaunchRPX" =>
    /\ pc[t] \in GatePcs
    /\ op[t] \in {"PrepareRPXLaunch", "LaunchHomebrewWrapper", "RevertRPXLaunch"}

LInv == \A t \in Threads : Launching(t)

\* A launch that ends in this step ends well, or was not prepared, or has asked
\* for the preparation to be reverted.
EndsReverted(t) ==
  call[t] = "LaunchRPX" /\ call'[t] = NoCall =>
    res'[t] = "SUCCESS" \/ op[t] \in {"PrepareRPXLaunch", "RevertRPXLaunch"}

\* What a step of t does to launches.
LaunchStep(t) ==
  /\ Launching(t)' /\ EndsReverted(t)
  /\ \A u \in Threads \ {t} : pc'[u] = pc[u] /\ call'[u] = call[u] /\ op'[u] = op[u]

\* A step elsewhere: the thread is not in a launch and begins none.
LEMMA NotLaunching ==
  ASSUME NEW t \in Threads, call[t] # "LaunchRPX", call'[t] # "LaunchRPX",
         \A u \in Threads \ {t} : pc'[u] = pc[u] /\ call'[u] = call[u] /\ op'[u] = op[u]
  PROVE  LaunchStep(t)
  BY DEF LaunchStep, Launching, EndsReverted

\* A step within a call leaves its launch where it is, or moves it on.
LEMMA StepLaunch ==
  ASSUME NEW t \in Threads, ThreadTypes, LInv, NEW at, NEW next, Step(t, at, next),
         at \in GatePcs => next \in GatePcs
  PROVE  LaunchStep(t)
<1>1. /\ pc[t] = at /\ pc'[t] = next /\ call' = call /\ op' = op
      /\ \A u \in Threads \ {t} : pc'[u] = pc[u]
  BY DEF Step, Goto, ThreadTypes
<1>2. NoCall # "LaunchRPX"
  BY NoCallOK DEF Calls
<1> QED
  BY <1>1, <1>2 DEF LaunchStep, Launching, EndsReverted, LInv

\* A return from somewhere else.
LEMMA ReturnLaunch ==
  ASSUME NEW t \in Threads, ThreadTypes, LInv, NEW status, Return(t, status),
         pc[t] \notin GatePcs
  PROVE  LaunchStep(t)
<1>1. call'[t] = NoCall /\ NoCall # "LaunchRPX"
  BY NoCallOK DEF Return, ThreadTypes, Calls
<1>2. \A u \in Threads \ {t} : pc'[u] = pc[u] /\ call'[u] = call[u] /\ op'[u] = op[u]
  BY DEF Return, Goto, ThreadTypes
<1>3. call[t] # "LaunchRPX"
  BY DEF LInv, Launching
<1> QED
  BY <1>1, <1>2, <1>3, NotLaunching

\* A gated function returns: LaunchRPX ends only where it may.
LEMMA GatedReturnLaunch ==
  ASSUME NEW t \in Threads, ThreadTypes, LInv, NEW status, GatedReturn(t, status)
  PROVE  LaunchStep(t)
<1>1. NoCall # "LaunchRPX"
  BY NoCallOK DEF Calls
<1>2. CASE \E s : Return(t, s)
  <2>1. /\ call'[t] = NoCall
        /\ \A u \in Threads \ {t} : pc'[u] = pc[u] /\ call'[u] = call[u] /\ op'[u] = op[u]
    BY <1>2 DEF Return, Goto, ThreadTypes
  <2>2. EndsReverted(t)
    <3>1. CASE call[t] # "LaunchRPX" \/ op[t] = "RevertRPXLaunch"
      BY <3>1 DEF EndsReverted
    <3>2. CASE /\ op[t] = IF status = "SUCCESS" THEN "LaunchHomebrewWrapper" ELSE "PrepareRPXLaunch"
               /\ Return(t, status)
      BY <3>2 DEF EndsReverted, Return, ThreadTypes
    <3>3. CASE UNCHANGED call
      BY <1>1, <2>1, <3>3 DEF EndsReverted
    <3> QED
      BY <3>1, <3>2, <3>3 DEF GatedReturn
  <2> QED
    BY <1>1, <2>1, <2>2 DEF LaunchStep, Launching
<1>3. CASE ~ \E s : Return(t, s)
  <2>1. PICK o \in {"LaunchHomebrewWrapper", "RevertRPXLaunch"} :
          op' = [op EXCEPT ![t] = o] /\ Goto(t, "gatedone?") /\ UNCHANGED call
    BY <1>3 DEF GatedReturn
  <2> QED
    BY <1>1, <2>1 DEF LaunchStep, Launching, EndsReverted, Goto, ThreadTypes, GatePcs
<1> QED
  BY <1>2, <1>3

\* CheckAPIVersion and what InitLibrary does after it.
LEMMA VersionCheckedLaunch ==
  ASSUME NEW t \in Threads, ThreadTypes, LInv, NEW status, VersionChecked(t, status),
         pc[t] \notin GatePcs
  PROVE  LaunchStep(t)
<1>1. CASE Return(t, status)
  BY <1>1, ReturnLaunch
<1>2. CASE ~ Return(t, status)
  <2>1. PICK next : Goto(t, next) /\ UNCHANGED <<call, op>>
    BY <1>2 DEF VersionChecked
  <2>2. call[t] # "LaunchRPX"
    BY DEF LInv, Launching
  <2> QED
    BY <2>1, <2>2, NotLaunching DEF Goto, ThreadTypes
<1> QED
  BY <1>1, <1>2

\* The calls: a launch begins at the gate of its preparation.
LEMMA StartsLaunch ==
  ASSUME NEW t \in Threads, ThreadTypes, LInv, Starts(t)
  PROVE  LaunchStep(t)
<1>1. call[t] # "LaunchRPX"
  <2>1. pc[t] = "idle"
    BY DEF Starts, CallInitLibrary, CallDeInitLibrary, CallCheckAPIVersion, CallLaunchRPX,
           CallGated, CallHax, CallAnswered, Enter
  <2> QED
    BY <2>1 DEF LInv, Launching, GatePcs
<1>2. CASE CallAnswered(t)
  BY <1>1, <1>2, NotLaunching DEF CallAnswered
<1>3. ASSUME NEW c, NEW first, NEW at, Enter(t, c, first, at),
             c = "LaunchRPX" => first = "PrepareRPXLaunch" /\ at = "gatedone?"
      PROVE  LaunchStep(t)
  BY <1>1, <1>3 DEF Enter, Goto, ThreadTypes, LaunchStep, Launching, EndsReverted, GatePcs
<1>4. "LaunchRPX" \notin Gated \cup Hax
  BY DEF Gated, Version1, Version2, Hax
<1>5. CASE CallInitLibrary(t) \/ CallDeInitLibrary(t) \/ CallCheckAPIVersion(t) \/ CallLaunchRPX(t)
  BY <1>3, <1>5 DEF CallInitLibrary, CallDeInitLibrary, CallCheckAPIVersion, CallLaunchRPX
<1>6. CASE CallGated(t) \/ CallHax(t)
  BY <1>3, <1>4, <1>6 DEF CallGated, CallHax
<1> QED
  BY <1>2, <1>5, <1>6 DEF Starts

\* Everything else: a step, or one of the three returns.
LEMMA WorksLaunch ==
  ASSUME NEW t \in Threads, ThreadTypes, LInv, Works(t)
  PROVE  LaunchStep(t)
<1>1. CASE /\ pc[t] \notin GatePcs
           /\ \E status : Return(t, status) \/ VersionChecked(t, status)
  BY <1>1, ReturnLaunch, VersionCheckedLaunch
<1>2. CASE \E status : GatedReturn(t, status)
  BY <1>2, GatedReturnLaunch
<1>3. CASE \E at, next : Step(t, at, next) /\ (at \in GatePcs => next \in GatePcs)
  BY <1>3, StepLaunch
<1>4. CASE \/ ReadInitDone(t) \/ ReadHandle(t) \/ OpenHax(t) \/ StoreHandle(t)
           \/ SetDone(t) \/ SetVersion0(t)
  BY <1>1, <1>3, <1>4
     DEF ReadInitDone, ReadHandle, OpenHax, StoreHandle, SetDone, SetVersion0, GatePcs
<1>5. CASE OpenMcp(t) \/ AskVersion(t) \/ CloseMcp(t)
  BY <1>1, <1>3, <1>5 DEF OpenMcp, AskVersion, CloseMcp, GatePcs
<1>6. CASE StoreVersion(t) \/ CloseHax(t) \/ ForgetHax(t)
  BY <1>1, <1>3, <1>6 DEF StoreVersion, CloseHax, ForgetHax, GatePcs
<1>7. CASE ClearDone(t) \/ ClearVersion(t) \/ ReadOpened(t) \/ CloseHandle(t) \/ ForgetHandle(t)
  BY <1>1, <1>3, <1>7 DEF ClearDone, ClearVersion, ReadOpened, CloseHandle, ForgetHandle, GatePcs
<1>8. CASE ReadLibDone(t) \/ ReadLibHandle(t) \/ HaxIoctl(t)
  BY <1>1, <1>3, <1>8 DEF ReadLibDone, ReadLibHandle, HaxIoctl, GatePcs
<1>9. CASE ReadGateDone(t) \/ CheckArgument(t) \/ OpenDevice(t)
  BY <1>2, <1>3, <1>9 DEF ReadGateDone, CheckArgument, OpenDevice, GatePcs
<1>10. CASE ReadGateVersion(t)
  <2>1. CASE ~ GatedReturn(t, "UNSUPPORTED_COMMAND")
    <3>1. PICK next \in {"argument?", "direct", "opendev"} : Step(t, "gateversion?", next)
      BY <1>10, <2>1 DEF ReadGateVersion
    <3> QED
      BY <1>3, <3>1 DEF GatePcs
  <2> QED
    BY <1>2, <2>1
<1>11. CASE Ipc(t) \/ CloseDevice(t) \/ DirectCommand(t)
  BY <1>2, <1>3, <1>11 DEF Ipc, CloseDevice, DirectCommand, GatePcs
<1> QED
  BY <1>4, <1>5, <1>6, <1>7, <1>8, <1>9, <1>10, <1>11 DEF Works

\* A LaunchRPX is in one of its three gated functions, whatever happens around it.
LEMMA LaunchInvariance == Spec => []LInv
<1>1. Init => LInv
  BY NoCallOK DEF Init, LInv, Launching, Calls
<1>2. TypeOK /\ LInv /\ [Next]_vars => LInv'
  <2> SUFFICES ASSUME TypeOK, LInv, [Next]_vars PROVE LInv'
    OBVIOUS
  <2>1. CASE UNCHANGED vars
    BY <2>1 DEF vars, LInv, Launching
  <2>2. CASE Next
    <3> PICK t \in Threads : Starts(t) \/ Works(t)
      BY <2>2 DEF Next
    <3>1. LaunchStep(t)
      BY TypeParts, StartsLaunch, WorksLaunch
    <3> QED
      BY <3>1 DEF LInv, Launching, LaunchStep
  <2> QED
    BY <2>1, <2>2
<1> QED
  BY <1>1, <1>2, TypeCorrect, PTL DEF Spec

\* A LaunchRPX that fails after its own preparation succeeded has asked for the
\* preparation to be reverted before it returns, on every path out of it.
THEOREM LaunchIsReverted == Spec => LaunchReverted
<1>1. TypeOK /\ LInv /\ [Next]_vars =>
        [\A t \in Launchers :
           call[t] = "LaunchRPX" /\ call'[t] = NoCall /\ res'[t] # "SUCCESS"
             => \/ rpx' # "launch"
                \/ op[t] \in {"PrepareRPXLaunch", "RevertRPXLaunch"}]_vars
  <2> SUFFICES ASSUME TypeOK, LInv, Next, NEW t \in Launchers,
                      call[t] = "LaunchRPX", call'[t] = NoCall, res'[t] # "SUCCESS"
               PROVE  op[t] \in {"PrepareRPXLaunch", "RevertRPXLaunch"}
    OBVIOUS
  <2>1. PICK u \in Threads : Starts(u) \/ Works(u)
    BY DEF Next
  <2>2. LaunchStep(u)
    BY <2>1, TypeParts, StartsLaunch, WorksLaunch
  <2>3. u = t
    BY <2>2, NoCallOK, ConstantsOK DEF LaunchStep, Calls
  <2> QED
    BY <2>2, <2>3 DEF LaunchStep, EndsReverted
<1> QED
  BY <1>1, TypeCorrect, LaunchInvariance, PTL DEF Spec, LaunchReverted
===============================================================================
