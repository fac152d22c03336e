-------------------------- MODULE MountTableProofs --------------------------
(***************************************************************************)
(* Proofs about MountTable, for every number of threads, slots, names,     *)
(* paths and clients and every set of calls that may fail:                 *)
(*                                                                         *)
(*   - the type invariant;                                                 *)
(*   - what a file operation reads through newlib's list without the       *)
(*     mutex is ready, and no two slots share a client;                    *)
(*   - mounts made by others are kept, if mount paths fit in the slot;     *)
(*   - between calls the service holds what the set-up slots use, and      *)
(*     nothing else, if the two calls nobody can undo do not fail;         *)
(*   - a mount is marked as one on the SD card exactly if it is;           *)
(*   - a set-up slot is changed only by the unmount call for its name;     *)
(*   - MountTable implements MountRegistry.                                *)
(***************************************************************************)
EXTENDS MountTable, TLAPS

(* The inductive invariant.                                                *)

\* The arguments and the slot of a call agree with the step it is at.
CallOK ==
  \A t \in Threads :
    /\ pc[t] = "idle" <=> req[t] = NoReq
    /\ pc[t] \in MountPCs \cup {"initlib"} => req[t] \in MountReq
    /\ pc[t] \in {"find", "removedevice"} => req[t] \in UnmountReq
    /\ IF pc[t] \in Critical \ {"alloc", "find"}
       THEN cur[t] \in Slots ELSE cur[t] = NoSlot

\* Exactly the holder of the mutex is between lock and return.
LockOK == \A t \in Threads : owner = t <=> pc[t] \in Critical

\* What a call has done to the slot it works on so far.
WorkOK ==
  \A t \in Threads :
    LET m == slots[cur[t]] IN
    /\ pc[t] \in MountPCs \ {"alloc"} => ~m.setup
    /\ pc[t] \in {"fsamount", "chdir", "deviceinfo", "adddevice", "setup"} =>
         /\ m.name = NameBuf[req[t].name]
         /\ m.mountPath = PathBuf[req[t].path]
    /\ pc[t] \in {"unlockclient", "fsamount", "chdir", "deviceinfo", "adddevice", "setup"} =>
         m.clientHandle # NoClient
    /\ pc[t] \in {"addclient", "unlockclient"} => m.cwd = RootDir
    /\ pc[t] \in {"adddevice", "setup"} => m.deviceSectorSize # 0
    /\ pc[t] \in {"addclient", "unlockclient", "fsamount"} => ~m.mounted

\* A call inside fsa_free: a failed mount, or an unmount that found its slot.
FreeOK ==
  \A t \in Threads :
    LET m == slots[cur[t]] IN
    /\ pc[t] = "removedevice" => m.setup /\ m.name = req[t].name
    /\ pc[t] \in FreePCs =>
         \/ req[t] \in MountReq /\ ~m.setup /\ res[t] \in MountErrors
         \/ /\ req[t] \in UnmountReq
            /\ m.setup /\ m.name = req[t].name /\ res[t] = "SUCCESS"

\* A slot that is neither set up nor worked on was never entered into newlib's
\* list, and its cwd is the one fsaResetMount gave it.
IdleSlotsOK ==
  \A s \in Slots :
    /\ slots[s].setup => slots[s].name \in Names
    /\ ~slots[s].setup /\ (\A t \in Threads : pc[t] \notin Critical \/ cur[t] # s) =>
         slots[s].cwd = RootDir /\ ~slots[s].mounted
    /\ slots[s].cwd \in {slots[s].mountPath, RootDir}

\* newlib's list leads to slots that are set up, or about to be.
ListedOK ==
  \A n \in Names : devoptab[n] # NoSlot =>
    \/ /\ slots[devoptab[n]].setup
       /\ \A t \in Threads : pc[t] \in FreePCs => cur[t] # devoptab[n]
    \/ \E t \in Threads : pc[t] = "setup" /\ cur[t] = devoptab[n]

IInv ==
  /\ TypeOK /\ CallOK /\ LockOK /\ WorkOK /\ FreeOK /\ IdleSlotsOK /\ ListedOK
  /\ PublishedDeviceReady /\ ClientsOwned
-----------------------------------------------------------------------------
USE DEF Goto, Return, ReturnUnlock, Step, Put, Succeeds, FailWith,
        slotVars, callVars, fsaVars, vars

\* What requests are made of, and two sentinels that stand outside.
LEMMA ConstantFacts ==
  /\ \A r \in MountReq : r.op = "mount" /\ r.name \in Names /\ r.path \in Paths
  /\ \A r \in UnmountReq : r.op = "unmount" /\ r.name \in Names
  /\ Requests = MountReq \cup UnmountReq
  /\ NoReq \notin Requests
  /\ NoSlot \notin Slots
BY NoReqOK, ConstantsOK DEF Requests, MountReq, UnmountReq, Slots

\* Assigning to a flag of a slot, or to its strings, leaves a slot.
LEMMA SlotFlags ==
  ASSUME NEW m \in SlotType, NEW b \in BOOLEAN
  PROVE  /\ [m EXCEPT !.setup = b] \in SlotType
         /\ [m EXCEPT !.mounted = b] \in SlotType
         /\ [m EXCEPT !.isSDCard = b] \in SlotType
BY DEF SlotType

\* Assigning what Mocha_MountFSEx stores before FSAMount leaves a slot.
LEMMA SlotStrings ==
  ASSUME NEW m \in SlotType, NEW n \in Names, NEW q \in Paths, NEW w,
         w = [m EXCEPT !.mounted = FALSE, !.name = n, !.mountPath = q]
  PROVE  w \in SlotType
<1> DEFINE v == [setup |-> m.setup, mounted |-> FALSE, isSDCard |-> m.isSDCard,
                 name |-> n, mountPath |-> q, cwd |-> m.cwd,
                 clientHandle |-> m.clientHandle,
                 deviceSectorSize |-> m.deviceSectorSize]
<1>1. w = v
  BY DEF SlotType
<1>2. v \in SlotType
  BY DEF SlotType
<1> QED
  BY <1>1, <1>2

\* Each step keeps every variable in its range and each call's arguments.
LEMMA TypeStep ==
  ASSUME TypeOK, CallOK, [Next]_vars
  PROVE  TypeOK' /\ CallOK'
<1> USE ConstantsOK, ConstantFacts DEF TypeOK, CallOK, Critical, MountPCs, FreePCs
<1>1. ASSUME NEW t \in Threads, CallInvalid(t) PROVE TypeOK' /\ CallOK'
  <2>1. TypeOK'
    BY <1>1 DEF CallInvalid, Results, MountErrors
  <2>2. CallOK'
    BY <1>1 DEF CallInvalid
  <2> QED
    BY <2>1, <2>2
<1>2. ASSUME NEW t \in Threads, CallMount(t) PROVE TypeOK' /\ CallOK'
  <2>1. TypeOK'
    BY <1>2 DEF CallMount, Results, MountErrors
  <2>2. CallOK'
    BY <1>2 DEF CallMount
  <2> QED
    BY <2>1, <2>2
<1>3. ASSUME NEW t \in Threads, CallUnmount(t) PROVE TypeOK' /\ CallOK'
  <2>1. TypeOK'
    BY <1>3 DEF CallUnmount, Results, MountErrors
  <2>2. CallOK'
    BY <1>3 DEF CallUnmount
  <2> QED
    BY <2>1, <2>2
<1>4. ASSUME NEW t \in Threads, InitLibrary(t) PROVE TypeOK' /\ CallOK'
  <2>1. TypeOK'
    BY <1>4 DEF InitLibrary, Results, MountErrors
  <2>2. CallOK'
    BY <1>4 DEF InitLibrary
  <2> QED
    BY <2>1, <2>2
<1>5. ASSUME NEW t \in Threads, Lock(t) PROVE TypeOK' /\ CallOK'
  <2>1. TypeOK'
    BY <1>5 DEF Lock, Results, MountErrors
  <2>2. CallOK'
    BY <1>5 DEF Lock
  <2> QED
    BY <2>1, <2>2
<1>6. ASSUME NEW t \in Threads, Alloc(t) PROVE TypeOK' /\ CallOK'
  <2>1. slots' \in [Slots -> SlotType]
    <3>1. CASE UNCHANGED slots
      BY <3>1
    <3>2. CASE ~UNCHANGED slots
      <4>1. PICK s \in Slots :
              slots' = [slots EXCEPT ![s].isSDCard = @ \/ OnSdCard(req[t])]
        BY <1>6, <3>2 DEF Alloc, FirstFree
      <4>2. PICK b \in BOOLEAN : slots' = [slots EXCEPT ![s].isSDCard = b]
        BY <4>1 DEF OnSdCard
      <4>3. [slots[s] EXCEPT !.isSDCard = b] \in SlotType
        BY SlotFlags
      <4> QED
        BY <4>2, <4>3
    <3> QED
      BY <1>6, <3>1, <3>2 DEF Alloc
  <2>2. TypeOK'
    BY <1>6, <2>1 DEF Alloc, Results, MountErrors
  <2>3. CallOK'
    BY <1>6 DEF Alloc
  <2> QED
    BY <2>2, <2>3
<1>7. ASSUME NEW t \in Threads, AddClient(t) PROVE TypeOK' /\ CallOK'
  <2>1. slots' \in [Slots -> SlotType]
    BY <1>7 DEF AddClient, SlotType
  <2>2. TypeOK'
    BY <1>7, <2>1 DEF AddClient, Results, MountErrors
  <2>3. CallOK'
    BY <1>7 DEF AddClient
  <2> QED
    BY <2>2, <2>3
<1>8. ASSUME NEW t \in Threads, UnlockClient(t) PROVE TypeOK' /\ CallOK'
  <2>1. slots' \in [Slots -> SlotType]
    <3>1. CASE UNCHANGED slots
      BY <3>1
    <3>2. CASE pc[t] = "unlockclient" /\ UNCHANGED res
      <4>1. NameBuf[req[t].name] \in Names /\ PathBuf[req[t].path] \in Paths
        BY <3>2
      <4> DEFINE n == NameBuf[req[t].name]
                 q == PathBuf[req[t].path]
      <4>2. CASE slots' = [slots EXCEPT ![cur[t]].mounted = FALSE,
                             ![cur[t]].name = n, ![cur[t]].mountPath = q]
        <5>1. cur[t] \in Slots /\ slots[cur[t]] \in SlotType
          BY <3>2
        <5>2. [slots[cur[t]] EXCEPT !.mounted = FALSE, !.name = n, !.mountPath = q]
                \in SlotType
          BY <4>1, <5>1, SlotStrings
        <5> HIDE DEF n, q
        <5> QED
          BY <4>2, <5>1, <5>2
      <4> QED
        BY <1>8, <3>1, <4>2 DEF UnlockClient
    <3> QED
      BY <1>8, <3>1, <3>2 DEF UnlockClient
  <2>2. TypeOK'
    BY <1>8, <2>1 DEF UnlockClient, Results, MountErrors
  <2>3. CallOK'
    BY <1>8 DEF UnlockClient
  <2> QED
    BY <2>2, <2>3
<1>9. ASSUME NEW t \in Threads, FsaMount(t) PROVE TypeOK' /\ CallOK'
  <2>1. slots' \in [Slots -> SlotType]
    <3>1. UNCHANGED slots \/ \E b \in BOOLEAN : slots' = [slots EXCEPT ![cur[t]].mounted = b]
      BY <1>9 DEF FsaMount
    <3> QED
      BY <3>1 DEF SlotType
  <2>2. TypeOK'
    BY <1>9, <2>1 DEF FsaMount, Results, MountErrors
  <2>3. CallOK'
    BY <1>9 DEF FsaMount
  <2> QED
    BY <2>2, <2>3
<1>10. ASSUME NEW t \in Threads, ChangeDir(t) PROVE TypeOK' /\ CallOK'
  <2>1. slots' \in [Slots -> SlotType]
    BY <1>10 DEF ChangeDir, SlotType
  <2>2. TypeOK'
    BY <1>10, <2>1 DEF ChangeDir, Results, MountErrors
  <2>3. CallOK'
    BY <1>10 DEF ChangeDir
  <2> QED
    BY <2>2, <2>3
<1>11. ASSUME NEW t \in Threads, GetDeviceInfo(t) PROVE TypeOK' /\ CallOK'
  <2>1. slots' \in [Slots -> SlotType]
    BY <1>11 DEF GetDeviceInfo, SlotType
  <2>2. TypeOK'
    BY <1>11, <2>1 DEF GetDeviceInfo, Results, MountErrors
  <2>3. CallOK'
    BY <1>11 DEF GetDeviceInfo
  <2> QED
    BY <2>2, <2>3
<1>12. ASSUME NEW t \in Threads, AddDevice(t) PROVE TypeOK' /\ CallOK'
  <2>1. TypeOK'
    BY <1>12 DEF AddDevice, Results, MountErrors
  <2>2. CallOK'
    BY <1>12 DEF AddDevice
  <2> QED
    BY <2>1, <2>2
<1>13. ASSUME NEW t \in Threads, SetUp(t) PROVE TypeOK' /\ CallOK'
  <2>1. slots' \in [Slots -> SlotType]
    <3>1. slots' = [slots EXCEPT ![cur[t]].setup = TRUE] /\ cur[t] \in Slots
      BY <1>13 DEF SetUp
    <3>2. [slots[cur[t]] EXCEPT !.setup = TRUE] \in SlotType
      BY <3>1, SlotFlags
    <3> QED
      BY <3>1, <3>2
  <2>2. TypeOK'
    BY <1>13, <2>1 DEF SetUp, Results, MountErrors
  <2>3. CallOK'
    BY <1>13 DEF SetUp
  <2> QED
    BY <2>2, <2>3
<1>14. ASSUME NEW t \in Threads, FreeUnmount(t) PROVE TypeOK' /\ CallOK'
  <2>1. TypeOK'
    BY <1>14 DEF FreeUnmount, Results, MountErrors
  <2>2. CallOK'
    BY <1>14 DEF FreeUnmount
  <2> QED
    BY <2>1, <2>2
<1>15. ASSUME NEW t \in Threads, FreeDelClient(t) PROVE TypeOK' /\ CallOK'
  <2>1. TypeOK'
    BY <1>15 DEF FreeDelClient, Results, MountErrors
  <2>2. CallOK'
    BY <1>15 DEF FreeDelClient
  <2> QED
    BY <2>1, <2>2
<1>16. ASSUME NEW t \in Threads, FreeReset(t) PROVE TypeOK' /\ CallOK'
  <2>1. slots' \in [Slots -> SlotType]
    BY <1>16 DEF FreeReset, FreshSlot, SlotType
  <2>2. TypeOK'
    BY <1>16, <2>1 DEF FreeReset, Results, MountErrors
  <2>3. CallOK'
    BY <1>16 DEF FreeReset
  <2> QED
    BY <2>2, <2>3
<1>17. ASSUME NEW t \in Threads, FindMount(t) PROVE TypeOK' /\ CallOK'
  <2>1. CASE Matching(t) = {} /\ Return(t, "NOT_FOUND")
    BY <1>17, <2>1 DEF FindMount, Results
  <2>2. CASE \E s \in Slots : /\ cur' = [cur EXCEPT ![t] = s]
                              /\ Goto(t, "removedevice")
                              /\ UNCHANGED <<req, res>>
    BY <1>17, <2>2 DEF FindMount
  <2> QED
    BY <1>17, <2>1, <2>2 DEF FindMount, Matching
<1>18. ASSUME NEW t \in Threads, RemoveDevice(t) PROVE TypeOK' /\ CallOK'
  <2>1. TypeOK'
    BY <1>18 DEF RemoveDevice, Results, MountErrors
  <2>2. CallOK'
    BY <1>18 DEF RemoveDevice
  <2> QED
    BY <2>1, <2>2
<1>19. CASE UNCHANGED vars
  BY <1>19
<1> QED
  BY <1>1, <1>2, <1>3, <1>4, <1>5, <1>6, <1>7, <1>8, <1>9, <1>10, <1>11, <1>12,
     <1>13, <1>14, <1>15, <1>16, <1>17, <1>18, <1>19 DEF Next, Work
-----------------------------------------------------------------------------
(* What the steps of the mutex's holder do to the slots.                   *)

\* A step of t inside its call on slot cur[t] leaves the other threads, which
\* are all outside, and the other slots as they are.
Frame(t) ==
  /\ cur[t] \in Slots /\ slots[cur[t]] \in SlotType
  /\ \A u \in Threads \ {t} :
       /\ pc[u] \notin Critical /\ pc'[u] = pc[u]
       /\ cur'[u] = cur[u] /\ req'[u] = req[u] /\ res'[u] = res[u]
  /\ \A s \in Slots \ {cur[t]} : slots'[s] = slots[s]

\* The call goes on, or returns.
Within == cur' = cur /\ req' = req /\ owner' = owner

Leaves(t) ==
  pc'[t] = "idle" /\ req'[t] = NoReq /\ cur'[t] = NoSlot /\ owner' = NoThread

\* The fields of a slot, but for isSDCard.
SlotIs(m, setup, mounted, name, mountPath, cwd, client, size) ==
  /\ (m.setup <=> setup) /\ (m.mounted <=> mounted)
  /\ m.name = name /\ m.mountPath = mountPath /\ m.cwd = cwd
  /\ m.clientHandle = client /\ m.deviceSectorSize = size

Unchanged(m1, m) ==
  SlotIs(m1, m.setup, m.mounted, m.name, m.mountPath, m.cwd, m.clientHandle,
         m.deviceSectorSize)

\* fsa_alloc: it leaves a call with a slot that was free, or ends it.
LEMMA AllocEffect ==
  ASSUME TypeOK, CallOK, LockOK, NEW t \in Threads, Alloc(t), UNCHANGED owner
  PROVE  \E s \in Slots :
           /\ ~slots[s].setup
           /\ \A u \in Slots \ {s} : slots'[u] = slots[u]
           /\ Unchanged(slots'[s], slots[s])
           /\ pc[t] = "alloc" /\ pc' = [pc EXCEPT ![t] = "addclient"]
           /\ cur' = [cur EXCEPT ![t] = s]
           /\ UNCHANGED <<devoptab, fsaVars, owner, req, res>>
<1> USE ConstantsOK DEF TypeOK, CallOK, LockOK, Critical, MountPCs
<1>1. owner # NoThread
  BY DEF Alloc
<1>2. PICK s \in Slots :
        /\ FirstFree(s)
        /\ cur' = [cur EXCEPT ![t] = s]
        /\ slots' = [slots EXCEPT ![s].isSDCard = @ \/ OnSdCard(req[t])]
  BY <1>1 DEF Alloc
<1>3. PICK b \in BOOLEAN : slots' = [slots EXCEPT ![s].isSDCard = b]
  BY <1>2 DEF OnSdCard
<1>4. \A u \in Slots \ {s} : slots'[u] = slots[u]
  BY <1>3
<1>5. Unchanged(slots'[s], slots[s])
  BY <1>3 DEF Unchanged, SlotIs, SlotType
<1> QED
  BY <1>1, <1>2, <1>4, <1>5 DEF Alloc, FirstFree, FreeSlots

\* The returns that leave the slots as they are.
LEMMA EarlyReturn ==
  ASSUME TypeOK, CallOK, LockOK, NEW t \in Threads,
         Alloc(t) \/ UnlockClient(t), ~UNCHANGED owner
  PROVE  /\ Leaves(t) /\ UNCHANGED <<slotVars, fsaVars>>
         /\ pc[t] \in {"alloc", "unlockclient"} /\ res'[t] \in MountErrors
         /\ \A u \in Threads \ {t} :
              /\ pc[u] \notin Critical /\ pc'[u] = pc[u]
              /\ cur'[u] = cur[u] /\ req'[u] = req[u] /\ res'[u] = res[u]
BY DEF Alloc, UnlockClient, Leaves, TypeOK, CallOK, LockOK, Critical, MountPCs,
       MountErrors

\* FSAAddClient: the handle a slot gets was nobody's.
LEMMA AddClientEffect ==
  ASSUME TypeOK, CallOK, LockOK, NEW t \in Threads, AddClient(t)
  PROVE  LET m == slots[cur[t]] IN
         /\ Frame(t) /\ Within /\ pc[t] = "addclient"
         /\ UNCHANGED <<devoptab, fsMounts>>
         /\ \/ \E c \in Clients \ clients :
                 /\ SlotIs(slots'[cur[t]], m.setup, m.mounted, m.name, m.mountPath,
                        m.cwd, c, m.deviceSectorSize)
                 /\ clients' = clients \cup {c}
                 /\ pc'[t] = "unlockclient" /\ res' = res
            \/ /\ SlotIs(slots'[cur[t]], m.setup, m.mounted, m.name, m.mountPath,
                        m.cwd, NoClient, m.deviceSectorSize)
               /\ clients' = clients
               /\ pc'[t] = "free" /\ res'[t] \in MountErrors
<1> USE DEF TypeOK, CallOK, LockOK, Critical, MountPCs,
       SlotIs, SlotType
<1>1. Frame(t) /\ Within /\ pc[t] = "addclient"
  BY DEF AddClient, Frame, Within
<1> QED
  BY <1>1 DEF AddClient, Frame, MountErrors

\* Mocha_UnlockFSClientEx: the slot gets its strings, or the call ends.
LEMMA UnlockClientEffect ==
  ASSUME TypeOK, CallOK, LockOK, NEW t \in Threads, UnlockClient(t), UNCHANGED owner
  PROVE  LET m == slots[cur[t]] IN
         /\ Frame(t) /\ Within /\ pc[t] = "unlockclient" /\ pc'[t] = "fsamount"
         /\ SlotIs(slots'[cur[t]], m.setup, FALSE, NameBuf[req[t].name],
                        PathBuf[req[t].path], m.cwd, m.clientHandle, m.deviceSectorSize)
         /\ UNCHANGED <<devoptab, fsaVars, res>>
<1> USE ConstantsOK DEF TypeOK, CallOK, LockOK, Critical, MountPCs,
       SlotIs, SlotType
<1> QED
  BY DEF UnlockClient, Frame, Within

\* FSAMount changes the mark of the mount only.
LEMMA FsaMountEffect ==
  ASSUME TypeOK, CallOK, LockOK, NEW t \in Threads, FsaMount(t)
  PROVE  LET m == slots[cur[t]] IN
         /\ Frame(t) /\ Within /\ pc[t] = "fsamount"
         /\ UNCHANGED <<devoptab, clients>>
         /\ \/ /\ slots' = slots /\ fsMounts' = fsMounts
               /\ pc'[t] = "free" /\ res'[t] \in MountErrors
            \/ /\ SlotIs(slots'[cur[t]], m.setup, TRUE, m.name, m.mountPath,
                        m.cwd, m.clientHandle, m.deviceSectorSize)
               /\ req[t].path \notin fsMounts
               /\ fsMounts' = fsMounts \cup {req[t].path}
               /\ pc'[t] = "chdir" /\ res' = res
            \/ /\ SlotIs(slots'[cur[t]], m.setup, FALSE, m.name, m.mountPath,
                        m.cwd, m.clientHandle, m.deviceSectorSize)
               /\ fsMounts' = fsMounts
               /\ pc'[t] = "chdir" /\ res' = res
<1> USE DEF TypeOK, CallOK, LockOK, Critical, MountPCs,
       SlotIs, SlotType
<1>1. Frame(t) /\ Within /\ pc[t] = "fsamount"
  BY DEF FsaMount, Frame, Within
<1> QED
  BY <1>1 DEF FsaMount, Frame, MountErrors

\* FSAChangeDir changes cwd only.
LEMMA ChangeDirEffect ==
  ASSUME TypeOK, CallOK, LockOK, NEW t \in Threads, ChangeDir(t)
  PROVE  LET m == slots[cur[t]] IN
         /\ Frame(t) /\ Within /\ pc[t] = "chdir" /\ pc'[t] = "deviceinfo"
         /\ UNCHANGED <<devoptab, fsaVars, res>>
         /\ \/ SlotIs(slots'[cur[t]], m.setup, m.mounted, m.name, m.mountPath,
                        PathBuf[req[t].path], m.clientHandle, m.deviceSectorSize)
            \/ slots' = slots
BY DEF ChangeDir, Frame, Within, TypeOK, CallOK, LockOK, Critical, MountPCs,
       SlotIs, SlotType

\* FSAGetDeviceInfo leaves a sector size that is not 0.
LEMMA GetDeviceInfoEffect ==
  ASSUME TypeOK, CallOK, LockOK, NEW t \in Threads, GetDeviceInfo(t)
  PROVE  LET m == slots[cur[t]] IN
         /\ Frame(t) /\ Within /\ pc[t] = "deviceinfo" /\ pc'[t] = "adddevice"
         /\ UNCHANGED <<devoptab, fsaVars, res>>
         /\ \E size \in SectorSizes \cup {512} :
              SlotIs(slots'[cur[t]], m.setup, m.mounted, m.name, m.mountPath,
                        m.cwd, m.clientHandle, size)
<1> USE DEF TypeOK, CallOK, LockOK, Critical, MountPCs,
       SlotIs, SlotType
<1>1. Frame(t) /\ Within /\ pc[t] = "deviceinfo" /\ pc'[t] = "adddevice"
  BY DEF GetDeviceInfo, Frame, Within
<1>2. PICK size \in SectorSizes \cup {512} :
        slots' = [slots EXCEPT ![cur[t]].deviceSectorSize = size]
  BY DEF GetDeviceInfo
<1>3. LET m == slots[cur[t]] IN SlotIs(slots'[cur[t]], m.setup, m.mounted, m.name, m.mountPath,
                        m.cwd, m.clientHandle, size)
  BY <1>1, <1>2 DEF Frame
<1>4. UNCHANGED <<devoptab, fsaVars, res>>
  BY DEF GetDeviceInfo
<1> QED
  BY <1>1, <1>3, <1>4

\* AddDevice enters a slot under its own name, or frees it.
LEMMA AddDeviceEffect ==
  ASSUME TypeOK, CallOK, LockOK, NEW t \in Threads, AddDevice(t)
  PROVE  /\ Frame(t) /\ Within /\ pc[t] = "adddevice" /\ slots' = slots
         /\ UNCHANGED fsaVars
         /\ \/ /\ devoptab' = [devoptab EXCEPT ![slots[cur[t]].name] = cur[t]]
               /\ pc'[t] = "setup" /\ res' = res
            \/ /\ devoptab' = devoptab
               /\ pc'[t] = "free" /\ res'[t] \in MountErrors
BY DEF AddDevice, Frame, Within, TypeOK, CallOK, LockOK, Critical, MountPCs, MountErrors

\* Setting up is the end of a mount call that succeeds.
LEMMA SetUpEffect ==
  ASSUME TypeOK, CallOK, LockOK, NEW t \in Threads, SetUp(t)
  PROVE  LET m == slots[cur[t]] IN
         /\ Frame(t) /\ Leaves(t) /\ pc[t] = "setup" /\ res'[t] = "SUCCESS"
         /\ UNCHANGED <<devoptab, fsaVars>>
         /\ SlotIs(slots'[cur[t]], TRUE, m.mounted, m.name, m.mountPath,
                        m.cwd, m.clientHandle, m.deviceSectorSize)
BY DEF SetUp, Frame, Leaves, TypeOK, CallOK, LockOK, Critical, MountPCs,
       SlotIs, SlotType

\* FSAUnmount leaves the slots alone.
LEMMA FreeUnmountEffect ==
  ASSUME TypeOK, CallOK, LockOK, NEW t \in Threads, FreeUnmount(t)
  PROVE  /\ Frame(t) /\ Within /\ pc[t] = "free" /\ pc'[t] = "delclient"
         /\ UNCHANGED <<slots, devoptab, clients, res>>
         /\ \/ fsMounts' = fsMounts
            \/ /\ slots[cur[t]].mounted
               /\ fsMounts' = fsMounts \ {slots[cur[t]].mountPath}
BY DEF FreeUnmount, Frame, Within, TypeOK, CallOK, LockOK, Critical, FreePCs

\* FSADelClient leaves the slots alone.
LEMMA FreeDelClientEffect ==
  ASSUME TypeOK, CallOK, LockOK, NEW t \in Threads, FreeDelClient(t)
  PROVE  /\ Frame(t) /\ Within /\ pc[t] = "delclient" /\ pc'[t] = "reset"
         /\ UNCHANGED <<slots, devoptab, fsMounts, res>>
         /\ clients' = clients \ {slots[cur[t]].clientHandle}
BY DEF FreeDelClient, Frame, Within, TypeOK, CallOK, LockOK, Critical, FreePCs

\* fsaResetMount ends the call.
LEMMA FreeResetEffect ==
  ASSUME TypeOK, CallOK, LockOK, NEW t \in Threads, FreeReset(t)
  PROVE  /\ Frame(t) /\ Leaves(t) /\ pc[t] = "reset" /\ res'[t] = res[t]
         /\ UNCHANGED <<devoptab, fsaVars>>
         /\ slots'[cur[t]] = FreshSlot
BY DEF FreeReset, Frame, Leaves, TypeOK, CallOK, LockOK, Critical, FreePCs

\* The search of Mocha_UnmountFS finds a set-up slot of the name, or ends the call.
LEMMA FindMountEffect ==
  ASSUME TypeOK, CallOK, LockOK, NEW t \in Threads, FindMount(t)
  PROVE  /\ pc[t] = "find" /\ UNCHANGED <<slotVars, fsaVars>>
         /\ \A u \in Threads \ {t} :
              /\ pc[u] \notin Critical /\ pc'[u] = pc[u]
              /\ cur'[u] = cur[u] /\ req'[u] = req[u] /\ res'[u] = res[u]
         /\ \/ /\ Leaves(t) /\ res'[t] = "NOT_FOUND"
               /\ \A s \in Slots : ~(slots[s].setup /\ slots[s].name = req[t].name)
            \/ /\ cur'[t] \in Slots
               /\ slots[cur'[t]].setup /\ slots[cur'[t]].name = req[t].name
               /\ pc'[t] = "removedevice"
               /\ owner' = owner /\ req' = req /\ res' = res
<1> USE DEF TypeOK, CallOK, LockOK, Critical
<1>1. CASE Matching(t) = {} /\ ReturnUnlock(t, "NOT_FOUND")
  BY <1>1 DEF FindMount, Matching, Leaves
<1>2. CASE ~(Matching(t) = {} /\ ReturnUnlock(t, "NOT_FOUND"))
  <2>1. PICK s \in Slots : /\ slots[s].setup /\ slots[s].name = req[t].name
                           /\ cur' = [cur EXCEPT ![t] = s]
    BY <1>2 DEF FindMount, Matching
  <2> QED
    BY <1>2, <2>1 DEF FindMount
<1> QED
  BY <1>1, <1>2

\* RemoveDevice takes a name off newlib's list and leaves the slots alone.
LEMMA RemoveDeviceEffect ==
  ASSUME TypeOK, CallOK, LockOK, NEW t \in Threads, RemoveDevice(t)
  PROVE  /\ Frame(t) /\ Within /\ pc[t] = "removedevice" /\ pc'[t] = "free"
         /\ slots' = slots /\ UNCHANGED fsaVars /\ res'[t] = "SUCCESS"
         /\ devoptab' = [devoptab EXCEPT ![slots[cur[t]].name] = NoSlot]
BY DEF RemoveDevice, Frame, Within, TypeOK, CallOK, LockOK, Critical
-----------------------------------------------------------------------------
(* Each part of the invariant is preserved.                                *)

\* The mutex has one holder.
LEMMA LockStep ==
  ASSUME TypeOK, CallOK, LockOK, [Next]_vars
  PROVE  LockOK'
<1> USE ConstantsOK, ConstantFacts DEF TypeOK, CallOK, LockOK, Critical, MountPCs,
         FreePCs
<1>0. TypeOK' /\ CallOK'
  BY TypeStep
<1>1. ASSUME NEW t \in Threads, CallInvalid(t) PROVE LockOK'
  BY <1>0, <1>1 DEF CallInvalid
<1>2. ASSUME NEW t \in Threads, CallMount(t) PROVE LockOK'
  BY <1>0, <1>2 DEF CallMount
<1>3. ASSUME NEW t \in Threads, CallUnmount(t) PROVE LockOK'
  BY <1>0, <1>3 DEF CallUnmount
<1>4. ASSUME NEW t \in Threads, InitLibrary(t) PROVE LockOK'
  BY <1>0, <1>4 DEF InitLibrary
<1>5. ASSUME NEW t \in Threads, Lock(t) PROVE LockOK'
  BY <1>0, <1>5 DEF Lock
<1>6. ASSUME NEW t \in Threads, Alloc(t) PROVE LockOK'
  <2>1. CASE UNCHANGED owner
    BY <1>0, <1>6, <2>1, AllocEffect DEF Frame, Within, SlotIs, Unchanged
  <2>2. CASE ~UNCHANGED owner
    BY <1>0, <1>6, <2>2, EarlyReturn DEF Leaves
  <2> QED
    BY <2>1, <2>2
<1>7. ASSUME NEW t \in Threads, AddClient(t) PROVE LockOK'
  BY <1>0, <1>7, AddClientEffect DEF Frame, Within, Leaves, SlotIs
<1>8. ASSUME NEW t \in Threads, UnlockClient(t) PROVE LockOK'
  <2>1. CASE UNCHANGED owner
    BY <1>0, <1>8, <2>1, UnlockClientEffect DEF Frame, Within, SlotIs, Unchanged
  <2>2. CASE ~UNCHANGED owner
    BY <1>0, <1>8, <2>2, EarlyReturn DEF Leaves
  <2> QED
    BY <2>1, <2>2
<1>9. ASSUME NEW t \in Threads, FsaMount(t) PROVE LockOK'
  BY <1>0, <1>9, FsaMountEffect DEF Frame, Within, Leaves, SlotIs
<1>10. ASSUME NEW t \in Threads, ChangeDir(t) PROVE LockOK'
  BY <1>0, <1>10, ChangeDirEffect DEF Frame, Within, Leaves, SlotIs
<1>11. ASSUME NEW t \in Threads, GetDeviceInfo(t) PROVE LockOK'
  BY <1>0, <1>11, GetDeviceInfoEffect DEF Frame, Within, Leaves, SlotIs
<1>12. ASSUME NEW t \in Threads, AddDevice(t) PROVE LockOK'
  BY <1>0, <1>12, AddDeviceEffect DEF Frame, Within, Leaves, SlotIs
<1>13. ASSUME NEW t \in Threads, SetUp(t) PROVE LockOK'
  BY <1>0, <1>13, SetUpEffect DEF Frame, Within, Leaves, SlotIs
<1>14. ASSUME NEW t \in Threads, FreeUnmount(t) PROVE LockOK'
  BY <1>0, <1>14, FreeUnmountEffect DEF Frame, Within, Leaves, SlotIs
<1>15. ASSUME NEW t \in Threads, FreeDelClient(t) PROVE LockOK'
  BY <1>0, <1>15, FreeDelClientEffect DEF Frame, Within, Leaves, SlotIs
<1>16. ASSUME NEW t \in Threads, FreeReset(t) PROVE LockOK'
  BY <1>0, <1>16, FreeResetEffect DEF Frame, Within, Leaves, SlotIs
<1>17. ASSUME NEW t \in Threads, FindMount(t) PROVE LockOK'
  BY <1>0, <1>17, FindMountEffect DEF Frame, Within, Leaves, SlotIs
<1>18. ASSUME NEW t \in Threads, RemoveDevice(t) PROVE LockOK'
  BY <1>0, <1>18, RemoveDeviceEffect DEF Frame, Within, Leaves, SlotIs
<1>19. CASE UNCHANGED vars
  BY <1>19
<1> QED
  BY <1>1, <1>2, <1>3, <1>4, <1>5, <1>6, <1>7, <1>8, <1>9, <1>10, <1>11, <1>12,
     <1>13, <1>14, <1>15, <1>16, <1>17, <1>18, <1>19 DEF Next, Work

\* A slot that is neither set up nor the holder's is as fsaResetMount left it.
LEMMA UnheldSlots ==
  ASSUME TypeOK, CallOK, LockOK, IdleSlotsOK, NEW t \in Threads, pc[t] \in Critical
  PROVE  \A s \in Slots : ~slots[s].setup /\ cur[t] # s =>
           slots[s].cwd = RootDir /\ ~slots[s].mounted
<1> SUFFICES ASSUME NEW s \in Slots, ~slots[s].setup, cur[t] # s
             PROVE  slots[s].cwd = RootDir /\ ~slots[s].mounted
  OBVIOUS
<1>1. \A u \in Threads : pc[u] \in Critical => u = t
  BY DEF LockOK
<1>2. \A u \in Threads : pc[u] \notin Critical \/ cur[u] # s
  BY <1>1
<1> QED
  BY <1>2 DEF IdleSlotsOK

\* A mount call prepares the slot it has taken.
LEMMA WorkStep ==
  ASSUME TypeOK, CallOK, LockOK, WorkOK, IdleSlotsOK, [Next]_vars
  PROVE  WorkOK'
<1> USE ConstantsOK, ConstantFacts DEF TypeOK, CallOK, LockOK, WorkOK,
         IdleSlotsOK, Critical, MountPCs, FreePCs
<1>0. TypeOK' /\ CallOK'
  BY TypeStep
<1>1. ASSUME NEW t \in Threads, CallInvalid(t) PROVE WorkOK'
  BY <1>0, <1>1 DEF CallInvalid
<1>2. ASSUME NEW t \in Threads, CallMount(t) PROVE WorkOK'
  BY <1>0, <1>2 DEF CallMount
<1>3. ASSUME NEW t \in Threads, CallUnmount(t) PROVE WorkOK'
  BY <1>0, <1>3 DEF CallUnmount
<1>4. ASSUME NEW t \in Threads, InitLibrary(t) PROVE WorkOK'
  BY <1>0, <1>4 DEF InitLibrary
<1>5. ASSUME NEW t \in Threads, Lock(t) PROVE WorkOK'
  BY <1>0, <1>5 DEF Lock
<1>6. ASSUME NEW t \in Threads, Alloc(t) PROVE WorkOK'
  <2>1. CASE UNCHANGED owner
    <3>1. cur[t] = NoSlot /\ pc[t] \in Critical
      BY <1>6 DEF Alloc
    <3> HIDE DEF IdleSlotsOK
    <3> QED
      BY <1>0, <1>6, <2>1, <3>1, AllocEffect, UnheldSlots DEF SlotIs, Unchanged
  <2>2. CASE ~UNCHANGED owner
    BY <1>0, <1>6, <2>2, EarlyReturn DEF Leaves
  <2> QED
    BY <2>1, <2>2
<1>7. ASSUME NEW t \in Threads, AddClient(t) PROVE WorkOK'
  BY <1>0, <1>7, AddClientEffect DEF Frame, Within, Leaves, SlotIs
<1>8. ASSUME NEW t \in Threads, UnlockClient(t) PROVE WorkOK'
  <2>1. CASE UNCHANGED owner
    BY <1>0, <1>8, <2>1, UnlockClientEffect DEF Frame, Within, SlotIs, Unchanged
  <2>2. CASE ~UNCHANGED owner
    BY <1>0, <1>8, <2>2, EarlyReturn DEF Leaves
  <2> QED
    BY <2>1, <2>2
<1>9. ASSUME NEW t \in Threads, FsaMount(t) PROVE WorkOK'
  BY <1>0, <1>9, FsaMountEffect DEF Frame, Within, Leaves, SlotIs
<1>10. ASSUME NEW t \in Threads, ChangeDir(t) PROVE WorkOK'
  BY <1>0, <1>10, ChangeDirEffect DEF Frame, Within, Leaves, SlotIs
<1>11. ASSUME NEW t \in Threads, GetDeviceInfo(t) PROVE WorkOK'
  BY <1>0, <1>11, GetDeviceInfoEffect DEF Frame, Within, Leaves, SlotIs
<1>12. ASSUME NEW t \in Threads, AddDevice(t) PROVE WorkOK'
  BY <1>0, <1>12, AddDeviceEffect DEF Frame, Within, Leaves, SlotIs
<1>13. ASSUME NEW t \in Threads, SetUp(t) PROVE WorkOK'
  BY <1>0, <1>13, SetUpEffect DEF Frame, Within, Leaves, SlotIs
<1>14. ASSUME NEW t \in Threads, FreeUnmount(t) PROVE WorkOK'
  BY <1>0, <1>14, FreeUnmountEffect DEF Frame, Within, Leaves, SlotIs
<1>15. ASSUME NEW t \in Threads, FreeDelClient(t) PROVE WorkOK'
  BY <1>0, <1>15, FreeDelClientEffect DEF Frame, Within, Leaves, SlotIs
<1>16. ASSUME NEW t \in Threads, FreeReset(t) PROVE WorkOK'
  BY <1>0, <1>16, FreeResetEffect DEF Frame, Within, Leaves, SlotIs
<1>17. ASSUME NEW t \in Threads, FindMount(t) PROVE WorkOK'
  BY <1>0, <1>17, FindMountEffect DEF Frame, Within, Leaves, SlotIs
<1>18. ASSUME NEW t \in Threads, RemoveDevice(t) PROVE WorkOK'
  BY <1>0, <1>18, RemoveDeviceEffect DEF Frame, Within, Leaves, SlotIs
<1>19. CASE UNCHANGED vars
  BY <1>19
<1> QED
  BY <1>1, <1>2, <1>3, <1>4, <1>5, <1>6, <1>7, <1>8, <1>9, <1>10, <1>11, <1>12,
     <1>13, <1>14, <1>15, <1>16, <1>17, <1>18, <1>19 DEF Next, Work

\* fsa_free runs for a failed mount or for the unmount of its slot.
LEMMA FreeStep ==
  ASSUME TypeOK, CallOK, LockOK, WorkOK, FreeOK, [Next]_vars
  PROVE  FreeOK'
<1> USE ConstantsOK, ConstantFacts DEF TypeOK, CallOK, LockOK, WorkOK, FreeOK,
         Critical, MountPCs, FreePCs
<1>0. TypeOK' /\ CallOK'
  BY TypeStep
<1>1. ASSUME NEW t \in Threads, CallInvalid(t) PROVE FreeOK'
  BY <1>0, <1>1 DEF CallInvalid
<1>2. ASSUME NEW t \in Threads, CallMount(t) PROVE FreeOK'
  BY <1>0, <1>2 DEF CallMount
<1>3. ASSUME NEW t \in Threads, CallUnmount(t) PROVE FreeOK'
  BY <1>0, <1>3 DEF CallUnmount
<1>4. ASSUME NEW t \in Threads, InitLibrary(t) PROVE FreeOK'
  BY <1>0, <1>4 DEF InitLibrary
<1>5. ASSUME NEW t \in Threads, Lock(t) PROVE FreeOK'
  BY <1>0, <1>5 DEF Lock
<1>6. ASSUME NEW t \in Threads, Alloc(t) PROVE FreeOK'
  <2>1. CASE UNCHANGED owner
    BY <1>0, <1>6, <2>1, AllocEffect DEF Frame, Within, SlotIs, Unchanged
  <2>2. CASE ~UNCHANGED owner
    BY <1>0, <1>6, <2>2, EarlyReturn DEF Leaves
  <2> QED
    BY <2>1, <2>2
<1>7. ASSUME NEW t \in Threads, AddClient(t) PROVE FreeOK'
  BY <1>0, <1>7, AddClientEffect DEF Frame, Within, Leaves, SlotIs
<1>8. ASSUME NEW t \in Threads, UnlockClient(t) PROVE FreeOK'
  <2>1. CASE UNCHANGED owner
    BY <1>0, <1>8, <2>1, UnlockClientEffect DEF Frame, Within, SlotIs, Unchanged
  <2>2. CASE ~UNCHANGED owner
    BY <1>0, <1>8, <2>2, EarlyReturn DEF Leaves
  <2> QED
    BY <2>1, <2>2
<1>9. ASSUME NEW t \in Threads, FsaMount(t) PROVE FreeOK'
  BY <1>0, <1>9, FsaMountEffect DEF Frame, Within, Leaves, SlotIs
<1>10. ASSUME NEW t \in Threads, ChangeDir(t) PROVE FreeOK'
  BY <1>0, <1>10, ChangeDirEffect DEF Frame, Within, Leaves, SlotIs
<1>11. ASSUME NEW t \in Threads, GetDeviceInfo(t) PROVE FreeOK'
  BY <1>0, <1>11, GetDeviceInfoEffect DEF Frame, Within, Leaves, SlotIs
<1>12. ASSUME NEW t \in Threads, AddDevice(t) PROVE FreeOK'
  BY <1>0, <1>12, AddDeviceEffect DEF Frame, Within, Leaves, SlotIs
<1>13. ASSUME NEW t \in Threads, SetUp(t) PROVE FreeOK'
  BY <1>0, <1>13, SetUpEffect DEF Frame, Within, Leaves, SlotIs
<1>14. ASSUME NEW t \in Threads, FreeUnmount(t) PROVE FreeOK'
  BY <1>0, <1>14, FreeUnmountEffect DEF Frame, Within, Leaves, SlotIs
<1>15. ASSUME NEW t \in Threads, FreeDelClient(t) PROVE FreeOK'
  BY <1>0, <1>15, FreeDelClientEffect DEF Frame, Within, Leaves, SlotIs
<1>16. ASSUME NEW t \in Threads, FreeReset(t) PROVE FreeOK'
  BY <1>0, <1>16, FreeResetEffect DEF Frame, Within, Leaves, SlotIs
<1>17. ASSUME NEW t \in Threads, FindMount(t) PROVE FreeOK'
  BY <1>0, <1>17, FindMountEffect DEF Frame, Within, Leaves, SlotIs
<1>18. ASSUME NEW t \in Threads, RemoveDevice(t) PROVE FreeOK'
  BY <1>0, <1>18, RemoveDeviceEffect DEF Frame, Within, Leaves, SlotIs
<1>19. CASE UNCHANGED vars
  BY <1>19
<1> QED
  BY <1>1, <1>2, <1>3, <1>4, <1>5, <1>6, <1>7, <1>8, <1>9, <1>10, <1>11, <1>12,
     <1>13, <1>14, <1>15, <1>16, <1>17, <1>18, <1>19 DEF Next, Work

\* A slot at rest has no trace of the mount that failed in it.
LEMMA IdleSlotsStep ==
  ASSUME TypeOK, CallOK, LockOK, WorkOK, FreeOK, IdleSlotsOK, [Next]_vars
  PROVE  IdleSlotsOK'
<1> USE ConstantsOK, ConstantFacts DEF TypeOK, CallOK, LockOK, WorkOK, FreeOK,
         IdleSlotsOK, Critical, MountPCs, FreePCs
<1>0. TypeOK' /\ CallOK'
  BY TypeStep
<1>1. ASSUME NEW t \in Threads, CallInvalid(t) PROVE IdleSlotsOK'
  BY <1>0, <1>1 DEF CallInvalid
<1>2. ASSUME NEW t \in Threads, CallMount(t) PROVE IdleSlotsOK'
  BY <1>0, <1>2 DEF CallMount
<1>3. ASSUME NEW t \in Threads, CallUnmount(t) PROVE IdleSlotsOK'
  BY <1>0, <1>3 DEF CallUnmount
<1>4. ASSUME NEW t \in Threads, InitLibrary(t) PROVE IdleSlotsOK'
  BY <1>0, <1>4 DEF InitLibrary
<1>5. ASSUME NEW t \in Threads, Lock(t) PROVE IdleSlotsOK'
  BY <1>0, <1>5 DEF Lock
<1>6. ASSUME NEW t \in Threads, Alloc(t) PROVE IdleSlotsOK'
  <2>1. CASE UNCHANGED owner
    <3>1. cur[t] = NoSlot /\ pc[t] \in Critical
      BY <1>6 DEF Alloc
    <3>2. PICK s \in Slots : /\ \A u \in Slots \ {s} : slots'[u] = slots[u]
                             /\ Unchanged(slots'[s], slots[s])
                             /\ cur'[t] = s /\ pc'[t] \in Critical
      BY <1>6, <2>1, AllocEffect
    <3> QED
      BY <1>0, <3>1, <3>2, UnheldSlots DEF SlotIs, Unchanged
  <2>2. CASE ~UNCHANGED owner
    <3>1. slots' = slots /\ pc[t] \in Critical
      BY <1>6, <2>2, EarlyReturn
    <3>2. \A s \in Slots : ~slots[s].setup => slots[s].cwd = RootDir /\ ~slots[s].mounted
      BY <1>6, <3>1, UnheldSlots DEF Alloc
    <3> QED
      BY <3>1, <3>2
  <2> QED
    BY <2>1, <2>2
<1>7. ASSUME NEW t \in Threads, AddClient(t) PROVE IdleSlotsOK'
  BY <1>0, <1>7, AddClientEffect DEF Frame, Within, Leaves, SlotIs
<1>8. ASSUME NEW t \in Threads, UnlockClient(t) PROVE IdleSlotsOK'
  <2>1. CASE UNCHANGED owner
    BY <1>0, <1>8, <2>1, UnlockClientEffect DEF Frame, Within, SlotIs, Unchanged
  <2>2. CASE ~UNCHANGED owner
    <3>1. slots' = slots /\ pc[t] \in Critical
      BY <1>8, <2>2, EarlyReturn
    <3>2. \A s \in Slots : ~slots[s].setup => slots[s].cwd = RootDir /\ ~slots[s].mounted
      BY <1>8, <3>1, UnheldSlots DEF UnlockClient
    <3> QED
      BY <3>1, <3>2
  <2> QED
    BY <2>1, <2>2
<1>9. ASSUME NEW t \in Threads, FsaMount(t) PROVE IdleSlotsOK'
  BY <1>0, <1>9, FsaMountEffect DEF Frame, Within, Leaves, SlotIs
<1>10. ASSUME NEW t \in Threads, ChangeDir(t) PROVE IdleSlotsOK'
  BY <1>0, <1>10, ChangeDirEffect DEF Frame, Within, Leaves, SlotIs
<1>11. ASSUME NEW t \in Threads, GetDeviceInfo(t) PROVE IdleSlotsOK'
  BY <1>0, <1>11, GetDeviceInfoEffect DEF Frame, Within, Leaves, SlotIs
<1>12. ASSUME NEW t \in Threads, AddDevice(t) PROVE IdleSlotsOK'
  BY <1>0, <1>12, AddDeviceEffect DEF Frame, Within, Leaves, SlotIs
<1>13. ASSUME NEW t \in Threads, SetUp(t) PROVE IdleSlotsOK'
  BY <1>0, <1>13, SetUpEffect DEF Frame, Within, Leaves, SlotIs
<1>14. ASSUME NEW t \in Threads, FreeUnmount(t) PROVE IdleSlotsOK'
  BY <1>0, <1>14, FreeUnmountEffect DEF Frame, Within, Leaves, SlotIs
<1>15. ASSUME NEW t \in Threads, FreeDelClient(t) PROVE IdleSlotsOK'
  BY <1>0, <1>15, FreeDelClientEffect DEF Frame, Within, Leaves, SlotIs
<1>16. ASSUME NEW t \in Threads, FreeReset(t) PROVE IdleSlotsOK'
  BY <1>0, <1>16, FreeResetEffect DEF Frame, Within, Leaves, SlotIs, FreshSlot
<1>17. ASSUME NEW t \in Threads, FindMount(t) PROVE IdleSlotsOK'
  <2>1. slots' = slots /\ pc[t] \in Critical /\ cur[t] = NoSlot
    BY <1>17, FindMountEffect
  <2>2. \A s \in Slots : ~slots[s].setup => slots[s].cwd = RootDir /\ ~slots[s].mounted
    BY <2>1, UnheldSlots
  <2> QED
    BY <2>1, <2>2
<1>18. ASSUME NEW t \in Threads, RemoveDevice(t) PROVE IdleSlotsOK'
  BY <1>0, <1>18, RemoveDeviceEffect DEF Frame, Within, Leaves, SlotIs
<1>19. CASE UNCHANGED vars
  BY <1>19
<1> QED
  BY <1>1, <1>2, <1>3, <1>4, <1>5, <1>6, <1>7, <1>8, <1>9, <1>10, <1>11, <1>12,
     <1>13, <1>14, <1>15, <1>16, <1>17, <1>18, <1>19 DEF Next, Work

\* newlib's list leads to slots in use.
LEMMA ListedStep ==
  ASSUME TypeOK, CallOK, LockOK, WorkOK, FreeOK, ListedOK, PublishedDeviceReady,
         [Next]_vars
  PROVE  ListedOK'
<1> USE ConstantsOK, ConstantFacts DEF TypeOK, CallOK, LockOK, WorkOK, FreeOK,
         ListedOK, PublishedDeviceReady, Critical, MountPCs, FreePCs
<1>0. TypeOK' /\ CallOK'
  BY TypeStep
<1>1. ASSUME NEW t \in Threads, CallInvalid(t) PROVE ListedOK'
  BY <1>0, <1>1 DEF CallInvalid
<1>2. ASSUME NEW t \in Threads, CallMount(t) PROVE ListedOK'
  BY <1>0, <1>2 DEF CallMount
<1>3. ASSUME NEW t \in Threads, CallUnmount(t) PROVE ListedOK'
  BY <1>0, <1>3 DEF CallUnmount
<1>4. ASSUME NEW t \in Threads, InitLibrary(t) PROVE ListedOK'
  BY <1>0, <1>4 DEF InitLibrary
<1>5. ASSUME NEW t \in Threads, Lock(t) PROVE ListedOK'
  BY <1>0, <1>5 DEF Lock
<1>6. ASSUME NEW t \in Threads, Alloc(t) PROVE ListedOK'
  <2>1. CASE UNCHANGED owner
    BY <1>0, <1>6, <2>1, AllocEffect DEF Frame, Within, SlotIs, Unchanged
  <2>2. CASE ~UNCHANGED owner
    BY <1>0, <1>6, <2>2, EarlyReturn DEF Leaves
  <2> QED
    BY <2>1, <2>2
<1>7. ASSUME NEW t \in Threads, AddClient(t) PROVE ListedOK'
  BY <1>0, <1>7, AddClientEffect DEF Frame, Within, Leaves, SlotIs
<1>8. ASSUME NEW t \in Threads, UnlockClient(t) PROVE ListedOK'
  <2>1. CASE UNCHANGED owner
    BY <1>0, <1>8, <2>1, UnlockClientEffect DEF Frame, Within, SlotIs, Unchanged
  <2>2. CASE ~UNCHANGED owner
    BY <1>0, <1>8, <2>2, EarlyReturn DEF Leaves
  <2> QED
    BY <2>1, <2>2
<1>9. ASSUME NEW t \in Threads, FsaMount(t) PROVE ListedOK'
  BY <1>0, <1>9, FsaMountEffect DEF Frame, Within, Leaves, SlotIs
<1>10. ASSUME NEW t \in Threads, ChangeDir(t) PROVE ListedOK'
  BY <1>0, <1>10, ChangeDirEffect DEF Frame, Within, Leaves, SlotIs
<1>11. ASSUME NEW t \in Threads, GetDeviceInfo(t) PROVE ListedOK'
  BY <1>0, <1>11, GetDeviceInfoEffect DEF Frame, Within, Leaves, SlotIs
<1>12. ASSUME NEW t \in Threads, AddDevice(t) PROVE ListedOK'
  BY <1>0, <1>12, AddDeviceEffect DEF Frame, Within, Leaves, SlotIs
<1>13. ASSUME NEW t \in Threads, SetUp(t) PROVE ListedOK'
  BY <1>0, <1>13, SetUpEffect DEF Frame, Within, Leaves, SlotIs
<1>14. ASSUME NEW t \in Threads, FreeUnmount(t) PROVE ListedOK'
  BY <1>0, <1>14, FreeUnmountEffect DEF Frame, Within, Leaves, SlotIs
<1>15. ASSUME NEW t \in Threads, FreeDelClient(t) PROVE ListedOK'
  BY <1>0, <1>15, FreeDelClientEffect DEF Frame, Within, Leaves, SlotIs
<1>16. ASSUME NEW t \in Threads, FreeReset(t) PROVE ListedOK'
  BY <1>0, <1>16, FreeResetEffect DEF Frame, Within, Leaves, SlotIs, FreshSlot
<1>17. ASSUME NEW t \in Threads, FindMount(t) PROVE ListedOK'
  BY <1>0, <1>17, FindMountEffect DEF Frame, Within, Leaves, SlotIs
<1>18. ASSUME NEW t \in Threads, RemoveDevice(t) PROVE ListedOK'
  BY <1>0, <1>18, RemoveDeviceEffect DEF Frame, Within, Leaves, SlotIs
<1>19. CASE UNCHANGED vars
  BY <1>19
<1> QED
  BY <1>1, <1>2, <1>3, <1>4, <1>5, <1>6, <1>7, <1>8, <1>9, <1>10, <1>11, <1>12,
     <1>13, <1>14, <1>15, <1>16, <1>17, <1>18, <1>19 DEF Next, Work

\* Handles are taken from the service and given back one slot at a time.
LEMMA ClientsStep ==
  ASSUME TypeOK, CallOK, LockOK, WorkOK, ClientsOwned, [Next]_vars
  PROVE  ClientsOwned'
<1> USE ConstantsOK, ConstantFacts DEF TypeOK, CallOK, LockOK, WorkOK,
         ClientsOwned, Critical, MountPCs, FreePCs
<1>0. TypeOK' /\ CallOK'
  BY TypeStep
<1>1. ASSUME NEW t \in Threads, CallInvalid(t) PROVE ClientsOwned'
  BY <1>0, <1>1 DEF CallInvalid
<1>2. ASSUME NEW t \in Threads, CallMount(t) PROVE ClientsOwned'
  BY <1>0, <1>2 DEF CallMount
<1>3. ASSUME NEW t \in Threads, CallUnmount(t) PROVE ClientsOwned'
  BY <1>0, <1>3 DEF CallUnmount
<1>4. ASSUME NEW t \in Threads, InitLibrary(t) PROVE ClientsOwned'
  BY <1>0, <1>4 DEF InitLibrary
<1>5. ASSUME NEW t \in Threads, Lock(t) PROVE ClientsOwned'
  BY <1>0, <1>5 DEF Lock
<1>6. ASSUME NEW t \in Threads, Alloc(t) PROVE ClientsOwned'
  <2>1. CASE UNCHANGED owner
    BY <1>0, <1>6, <2>1, AllocEffect DEF Frame, Within, SlotIs, Unchanged
  <2>2. CASE ~UNCHANGED owner
    BY <1>0, <1>6, <2>2, EarlyReturn DEF Leaves
  <2> QED
    BY <2>1, <2>2
<1>7. ASSUME NEW t \in Threads, AddClient(t) PROVE ClientsOwned'
  BY <1>0, <1>7, AddClientEffect DEF Frame, Within, Leaves, SlotIs
<1>8. ASSUME NEW t \in Threads, UnlockClient(t) PROVE ClientsOwned'
  <2>1. CASE UNCHANGED owner
    BY <1>0, <1>8, <2>1, UnlockClientEffect DEF Frame, Within, SlotIs, Unchanged
  <2>2. CASE ~UNCHANGED owner
    BY <1>0, <1>8, <2>2, EarlyReturn DEF Leaves
  <2> QED
    BY <2>1, <2>2
<1>9. ASSUME NEW t \in Threads, FsaMount(t) PROVE ClientsOwned'
  BY <1>0, <1>9, FsaMountEffect DEF Frame, Within, Leaves, SlotIs
<1>10. ASSUME NEW t \in Threads, ChangeDir(t) PROVE ClientsOwned'
  BY <1>0, <1>10, ChangeDirEffect DEF Frame, Within, Leaves, SlotIs
<1>11. ASSUME NEW t \in Threads, GetDeviceInfo(t) PROVE ClientsOwned'
  BY <1>0, <1>11, GetDeviceInfoEffect DEF Frame, Within, Leaves, SlotIs
<1>12. ASSUME NEW t \in Threads, AddDevice(t) PROVE ClientsOwned'
  BY <1>0, <1>12, AddDeviceEffect DEF Frame, Within, Leaves, SlotIs
<1>13. ASSUME NEW t \in Threads, SetUp(t) PROVE ClientsOwned'
  BY <1>0, <1>13, SetUpEffect DEF Frame, Within, Leaves, SlotIs
<1>14. ASSUME NEW t \in Threads, FreeUnmount(t) PROVE ClientsOwned'
  BY <1>0, <1>14, FreeUnmountEffect DEF Frame, Within, Leaves, SlotIs
<1>15. ASSUME NEW t \in Threads, FreeDelClient(t) PROVE ClientsOwned'
  BY <1>0, <1>15, FreeDelClientEffect DEF Frame, Within, Leaves, SlotIs
<1>16. ASSUME NEW t \in Threads, FreeReset(t) PROVE ClientsOwned'
  BY <1>0, <1>16, FreeResetEffect DEF Frame, Within, Leaves, SlotIs, FreshSlot
<1>17. ASSUME NEW t \in Threads, FindMount(t) PROVE ClientsOwned'
  BY <1>0, <1>17, FindMountEffect DEF Frame, Within, Leaves, SlotIs
<1>18. ASSUME NEW t \in Threads, RemoveDevice(t) PROVE ClientsOwned'
  BY <1>0, <1>18, RemoveDeviceEffect DEF Frame, Within, Leaves, SlotIs
<1>19. CASE UNCHANGED vars
  BY <1>19
<1> QED
  BY <1>1, <1>2, <1>3, <1>4, <1>5, <1>6, <1>7, <1>8, <1>9, <1>10, <1>11, <1>12,
     <1>13, <1>14, <1>15, <1>16, <1>17, <1>18, <1>19 DEF Next, Work

\* A listed slot is not written to before it is taken off the list.
LEMMA PublishedStep ==
  ASSUME TypeOK, CallOK, LockOK, WorkOK, FreeOK, IdleSlotsOK, ListedOK,
         ClientsOwned, PublishedDeviceReady, [Next]_vars
  PROVE  PublishedDeviceReady'
<1> USE ConstantsOK, ConstantFacts DEF TypeOK, CallOK, LockOK, WorkOK, FreeOK,
         IdleSlotsOK, ListedOK, ClientsOwned, PublishedDeviceReady, Critical,
         MountPCs, FreePCs
<1>0. TypeOK' /\ CallOK'
  BY TypeStep
<1>1. ASSUME NEW t \in Threads, CallInvalid(t) PROVE PublishedDeviceReady'
  BY <1>0, <1>1 DEF CallInvalid
<1>2. ASSUME NEW t \in Threads, CallMount(t) PROVE PublishedDeviceReady'
  BY <1>0, <1>2 DEF CallMount
<1>3. ASSUME NEW t \in Threads, CallUnmount(t) PROVE PublishedDeviceReady'
  BY <1>0, <1>3 DEF CallUnmount
<1>4. ASSUME NEW t \in Threads, InitLibrary(t) PROVE PublishedDeviceReady'
  BY <1>0, <1>4 DEF InitLibrary
<1>5. ASSUME NEW t \in Threads, Lock(t) PROVE PublishedDeviceReady'
  BY <1>0, <1>5 DEF Lock
<1>6. ASSUME NEW t \in Threads, Alloc(t) PROVE PublishedDeviceReady'
  <2>1. CASE UNCHANGED owner
    BY <1>0, <1>6, <2>1, AllocEffect DEF Frame, Within, SlotIs, Unchanged
  <2>2. CASE ~UNCHANGED owner
    BY <1>0, <1>6, <2>2, EarlyReturn DEF Leaves
  <2> QED
    BY <2>1, <2>2
<1>7. ASSUME NEW t \in Threads, AddClient(t) PROVE PublishedDeviceReady'
  BY <1>0, <1>7, AddClientEffect DEF Frame, Within, Leaves, SlotIs
<1>8. ASSUME NEW t \in Threads, UnlockClient(t) PROVE PublishedDeviceReady'
  <2>1. CASE UNCHANGED owner
    BY <1>0, <1>8, <2>1, UnlockClientEffect DEF Frame, Within, SlotIs, Unchanged
  <2>2. CASE ~UNCHANGED owner
    BY <1>0, <1>8, <2>2, EarlyReturn DEF Leaves
  <2> QED
    BY <2>1, <2>2
<1>9. ASSUME NEW t \in Threads, FsaMount(t) PROVE PublishedDeviceReady'
  BY <1>0, <1>9, FsaMountEffect DEF Frame, Within, Leaves, SlotIs
<1>10. ASSUME NEW t \in Threads, ChangeDir(t) PROVE PublishedDeviceReady'
  BY <1>0, <1>10, ChangeDirEffect DEF Frame, Within, Leaves, SlotIs
<1>11. ASSUME NEW t \in Threads, GetDeviceInfo(t) PROVE PublishedDeviceReady'
  BY <1>0, <1>11, GetDeviceInfoEffect DEF Frame, Within, Leaves, SlotIs
<1>12. ASSUME NEW t \in Threads, AddDevice(t) PROVE PublishedDeviceReady'
  BY <1>0, <1>12, AddDeviceEffect DEF Frame, Within, Leaves, SlotIs
<1>13. ASSUME NEW t \in Threads, SetUp(t) PROVE PublishedDeviceReady'
  BY <1>0, <1>13, SetUpEffect DEF Frame, Within, Leaves, SlotIs
<1>14. ASSUME NEW t \in Threads, FreeUnmount(t) PROVE PublishedDeviceReady'
  BY <1>0, <1>14, FreeUnmountEffect DEF Frame, Within, Leaves, SlotIs
<1>15. ASSUME NEW t \in Threads, FreeDelClient(t) PROVE PublishedDeviceReady'
  BY <1>0, <1>15, FreeDelClientEffect DEF Frame, Within, Leaves, SlotIs
<1>16. ASSUME NEW t \in Threads, FreeReset(t) PROVE PublishedDeviceReady'
  BY <1>0, <1>16, FreeResetEffect DEF Frame, Within, Leaves, SlotIs, FreshSlot
<1>17. ASSUME NEW t \in Threads, FindMount(t) PROVE PublishedDeviceReady'
  BY <1>0, <1>17, FindMountEffect DEF Frame, Within, Leaves, SlotIs
<1>18. ASSUME NEW t \in Threads, RemoveDevice(t) PROVE PublishedDeviceReady'
  BY <1>0, <1>18, RemoveDeviceEffect DEF Frame, Within, Leaves, SlotIs
<1>19. CASE UNCHANGED vars
  BY <1>19
<1> QED
  BY <1>1, <1>2, <1>3, <1>4, <1>5, <1>6, <1>7, <1>8, <1>9, <1>10, <1>11, <1>12,
     <1>13, <1>14, <1>15, <1>16, <1>17, <1>18, <1>19 DEF Next, Work
-----------------------------------------------------------------------------
(* The invariants.                                                         *)

\* The inductive invariant holds at first.
LEMMA InitInv == Init => IInv
<1> SUFFICES ASSUME Init PROVE IInv
  OBVIOUS
<1> USE ConstantsOK, ConstantFacts DEF Init
<1>1. TypeOK
  <2>1. FreshSlot \in SlotType
    BY DEF FreshSlot, SlotType
  <2> QED
    BY <2>1 DEF TypeOK, Results
<1>2. CallOK /\ LockOK /\ WorkOK /\ FreeOK
  BY DEF CallOK, LockOK, WorkOK, FreeOK, Critical, MountPCs, FreePCs
<1>3. IdleSlotsOK /\ ListedOK /\ PublishedDeviceReady /\ ClientsOwned
  BY DEF IdleSlotsOK, ListedOK, PublishedDeviceReady, ClientsOwned, FreshSlot
<1> QED
  BY <1>1, <1>2, <1>3 DEF IInv

\* Every step keeps it.
LEMMA InvStep == IInv /\ [Next]_vars => IInv'
BY TypeStep, LockStep, WorkStep, FreeStep, IdleSlotsStep, ListedStep, ClientsStep,
   PublishedStep DEF IInv

\* The inductive invariant holds in every state.
THEOREM Invariance == Spec => []IInv
BY InitInv, InvStep, PTL DEF Spec

\* Every variable stays in its range, whatever fails and whoever calls.
THEOREM TypeCorrect == Spec => []TypeOK
BY Invariance, PTL DEF IInv

\* A slot that newlib's list leads to has its own live client, a sector size
\* that can be divided by and a cwd inside its mount, while mounts and unmounts
\* are going on in other threads.
THEOREM PublishedDevicesReady == Spec => []PublishedDeviceReady
BY Invariance, PTL DEF IInv

\* No two slots use one client, and none uses one that was given back.
THEOREM ClientsAreOwned == Spec => []ClientsOwned
BY Invariance, PTL DEF IInv
-----------------------------------------------------------------------------
(* Mounts made by others.                                                  *)

\* What the library believes it mounted was not mounted before.
MountedOK ==
  \A s \in Slots : slots[s].mounted => slots[s].mountPath \notin PreMounted

\* Every step keeps that only own mounts are marked, and with it foreign mounts.
LEMMA MountedStep ==
  ASSUME IInv, MountedOK, ForeignMountsKept, [Next]_vars,
         \A p \in Paths : PathBuf[p] = p
  PROVE  MountedOK' /\ ForeignMountsKept'
<1> USE ConstantsOK, ConstantFacts DEF MountedOK, ForeignMountsKept
<1>0. TypeOK /\ CallOK /\ LockOK /\ WorkOK
  BY DEF IInv
<1>1. ASSUME NEW t \in Threads,
             CallInvalid(t) \/ CallMount(t) \/ CallUnmount(t) \/ InitLibrary(t) \/ Lock(t)
      PROVE  MountedOK' /\ ForeignMountsKept'
  BY <1>1 DEF CallInvalid, CallMount, CallUnmount, InitLibrary, Lock
<1>2. ASSUME NEW t \in Threads, Alloc(t) PROVE MountedOK' /\ ForeignMountsKept'
  <2>1. CASE UNCHANGED owner
    BY <1>0, <1>2, <2>1, AllocEffect DEF SlotIs, Unchanged
  <2>2. CASE ~UNCHANGED owner
    BY <1>0, <1>2, <2>2, EarlyReturn
  <2> QED
    BY <2>1, <2>2
<1>3. ASSUME NEW t \in Threads, AddClient(t) PROVE MountedOK' /\ ForeignMountsKept'
  BY <1>0, <1>3, AddClientEffect DEF Frame, SlotIs
<1>4. ASSUME NEW t \in Threads, UnlockClient(t) PROVE MountedOK' /\ ForeignMountsKept'
  <2>1. CASE UNCHANGED owner
    BY <1>0, <1>4, <2>1, UnlockClientEffect DEF Frame, SlotIs
  <2>2. CASE ~UNCHANGED owner
    BY <1>0, <1>4, <2>2, EarlyReturn
  <2> QED
    BY <2>1, <2>2
<1>5. ASSUME NEW t \in Threads, FsaMount(t) PROVE MountedOK' /\ ForeignMountsKept'
  <2>1. pc[t] = "fsamount" /\ cur[t] \in Slots
    BY <1>0, <1>5, FsaMountEffect DEF Frame
  <2>2. slots[cur[t]].mountPath = req[t].path
    BY <1>0, <2>1 DEF WorkOK, CallOK, MountPCs
  <2> QED
    BY <1>0, <1>5, <2>1, <2>2, FsaMountEffect DEF Frame, SlotIs
<1>6. ASSUME NEW t \in Threads, ChangeDir(t) PROVE MountedOK' /\ ForeignMountsKept'
  BY <1>0, <1>6, ChangeDirEffect DEF Frame, SlotIs
<1>7. ASSUME NEW t \in Threads, GetDeviceInfo(t) PROVE MountedOK' /\ ForeignMountsKept'
  BY <1>0, <1>7, GetDeviceInfoEffect DEF Frame, SlotIs
<1>8. ASSUME NEW t \in Threads, AddDevice(t) PROVE MountedOK' /\ ForeignMountsKept'
  BY <1>0, <1>8, AddDeviceEffect
<1>9. ASSUME NEW t \in Threads, SetUp(t) PROVE MountedOK' /\ ForeignMountsKept'
  BY <1>0, <1>9, SetUpEffect DEF Frame, SlotIs
<1>10. ASSUME NEW t \in Threads, FreeUnmount(t) PROVE MountedOK' /\ ForeignMountsKept'
  BY <1>0, <1>10, FreeUnmountEffect DEF Frame
<1>11. ASSUME NEW t \in Threads, FreeDelClient(t) PROVE MountedOK' /\ ForeignMountsKept'
  BY <1>0, <1>11, FreeDelClientEffect
<1>12. ASSUME NEW t \in Threads, FreeReset(t) PROVE MountedOK' /\ ForeignMountsKept'
  BY <1>0, <1>12, FreeResetEffect DEF Frame, FreshSlot
<1>13. ASSUME NEW t \in Threads, FindMount(t) PROVE MountedOK' /\ ForeignMountsKept'
  BY <1>0, <1>13, FindMountEffect
<1>14. ASSUME NEW t \in Threads, RemoveDevice(t) PROVE MountedOK' /\ ForeignMountsKept'
  BY <1>0, <1>14, RemoveDeviceEffect
<1>15. CASE UNCHANGED vars
  BY <1>15
<1> QED
  BY <1>1, <1>2, <1>3, <1>4, <1>5, <1>6, <1>7, <1>8, <1>9, <1>10, <1>11, <1>12,
     <1>13, <1>14, <1>15 DEF Next, Work

\* If every mount_path fits in a slot, no mount made by others is undone.
THEOREM ForeignMountsAreKept ==
  ASSUME \A p \in Paths : PathBuf[p] = p
  PROVE  Spec => []ForeignMountsKept
<1>1. Init => MountedOK /\ ForeignMountsKept
  BY DEF Init, FreshSlot, MountedOK, ForeignMountsKept
<1>2. IInv /\ MountedOK /\ ForeignMountsKept /\ [Next]_vars
        => MountedOK' /\ ForeignMountsKept'
  BY MountedStep
<1> QED
  BY <1>1, <1>2, Invariance, PTL DEF Spec
-----------------------------------------------------------------------------
(* Nothing is left behind.                                                 *)

\* No call is between lock and return with the slot s.
Unworked(s) == \A t \in Threads : pc[t] \notin Critical \/ cur[t] # s

\* Every client is some slot's, and a slot has one from FSAAddClient until
\* FSADelClient.
ClientsUsed ==
  /\ \A c \in clients : \E s \in Slots : slots[s].clientHandle = c
  /\ \A s \in Slots : slots[s].setup => slots[s].clientHandle # NoClient
  /\ \A s \in Slots :
       ~slots[s].setup /\ Unworked(s) => slots[s].clientHandle = NoClient
  /\ \A t \in Threads :
       /\ pc[t] = "addclient" => slots[cur[t]].clientHandle = NoClient
       /\ pc[t] = "reset" => slots[cur[t]].clientHandle \notin clients

\* Every mount is another's or one slot's, from FSAMount until FSAUnmount.
MountsUsed ==
  /\ \A p \in fsMounts :
       p \in PreMounted \/ \E s \in Slots : slots[s].mounted /\ slots[s].mountPath = p
  /\ \A s \in Slots : slots[s].mounted =>
       /\ (\A t \in Threads : pc[t] \in {"delclient", "reset"} => cur[t] # s)
            => slots[s].mountPath \in fsMounts
       /\ \A u \in Slots \ {s} :
            slots[u].mounted => slots[u].mountPath # slots[s].mountPath
  /\ \A t \in Threads :
       pc[t] \in {"delclient", "reset"} /\ slots[cur[t]].mounted =>
         slots[cur[t]].mountPath \notin fsMounts

\* FSAUnmount removes exactly the mount of the slot, if it cannot fail.
LEMMA UnmountExact ==
  ASSUME TypeOK, CallOK, LockOK, NEW t \in Threads, FreeUnmount(t),
         "Unmount" \notin MayFail
  PROVE  fsMounts' = IF slots[cur[t]].mounted
                     THEN fsMounts \ {slots[cur[t]].mountPath} ELSE fsMounts
BY DEF FreeUnmount

\* A client is registered for one slot, and given back before the slot is reset.
LEMMA ClientsUsedStep ==
  ASSUME IInv, ClientsUsed, [Next]_vars, "UnlockFSClient" \notin MayFail
  PROVE  ClientsUsed'
<1> USE ConstantsOK, ConstantFacts DEF ClientsUsed, Unworked, TypeOK, CallOK, LockOK,
        Critical, MountPCs, FreePCs
<1>0. TypeOK /\ CallOK /\ LockOK /\ WorkOK /\ ClientsOwned /\ TypeOK' /\ CallOK' /\ LockOK'
  BY InvStep DEF IInv
<1>1. ASSUME NEW t \in Threads,
             CallInvalid(t) \/ CallMount(t) \/ CallUnmount(t) \/ InitLibrary(t) \/ Lock(t)
      PROVE  ClientsUsed'
  BY <1>0, <1>1 DEF CallInvalid, CallMount, CallUnmount, InitLibrary, Lock
<1>2. ASSUME NEW t \in Threads, Alloc(t) PROVE ClientsUsed'
  <2>1. CASE UNCHANGED owner
    BY <1>0, <1>2, <2>1, AllocEffect DEF SlotIs, Unchanged
  <2>2. CASE ~UNCHANGED owner
    BY <1>0, <1>2, <2>2, EarlyReturn DEF Alloc
  <2> QED
    BY <2>1, <2>2
<1>3. ASSUME NEW t \in Threads, AddClient(t) PROVE ClientsUsed'
  BY <1>0, <1>3, AddClientEffect DEF Frame, Within, SlotIs
<1>4. ASSUME NEW t \in Threads, UnlockClient(t) PROVE ClientsUsed'
  <2>1. UNCHANGED owner
    BY <1>4 DEF UnlockClient
  <2> QED
    BY <1>0, <1>4, <2>1, UnlockClientEffect DEF Frame, Within, SlotIs
<1>5. ASSUME NEW t \in Threads, FsaMount(t) PROVE ClientsUsed'
  BY <1>0, <1>5, FsaMountEffect DEF Frame, Within, SlotIs
<1>6. ASSUME NEW t \in Threads, ChangeDir(t) PROVE ClientsUsed'
  BY <1>0, <1>6, ChangeDirEffect DEF Frame, Within, SlotIs
<1>7. ASSUME NEW t \in Threads, GetDeviceInfo(t) PROVE ClientsUsed'
  BY <1>0, <1>7, GetDeviceInfoEffect DEF Frame, Within, SlotIs
<1>8. ASSUME NEW t \in Threads, AddDevice(t) PROVE ClientsUsed'
  BY <1>0, <1>8, AddDeviceEffect DEF Frame, Within, SlotIs
<1>9. ASSUME NEW t \in Threads, SetUp(t) PROVE ClientsUsed'
  BY <1>0, <1>9, SetUpEffect DEF Frame, Leaves, SlotIs, WorkOK
<1>10. ASSUME NEW t \in Threads, FreeUnmount(t) PROVE ClientsUsed'
  BY <1>0, <1>10, FreeUnmountEffect DEF Frame, Within, SlotIs
<1>11. ASSUME NEW t \in Threads, FreeDelClient(t) PROVE ClientsUsed'
  BY <1>0, <1>11, FreeDelClientEffect DEF Frame, Within, SlotIs
<1>12. ASSUME NEW t \in Threads, FreeReset(t) PROVE ClientsUsed'
  BY <1>0, <1>12, FreeResetEffect DEF Frame, Leaves, FreshSlot
<1>13. ASSUME NEW t \in Threads, FindMount(t) PROVE ClientsUsed'
  BY <1>0, <1>13, FindMountEffect DEF Leaves
<1>14. ASSUME NEW t \in Threads, RemoveDevice(t) PROVE ClientsUsed'
  BY <1>0, <1>14, RemoveDeviceEffect DEF Frame, Within
<1>15. CASE UNCHANGED vars
  BY <1>15
<1> QED
  BY <1>1, <1>2, <1>3, <1>4, <1>5, <1>6, <1>7, <1>8, <1>9, <1>10, <1>11, <1>12,
     <1>13, <1>14, <1>15 DEF Next, Work

\* A path is mounted for one slot, and unmounted before the slot is reset.
LEMMA MountsUsedStep ==
  ASSUME IInv, MountsUsed, [Next]_vars, "Unmount" \notin MayFail,
         \A p \in Paths : PathBuf[p] = p
  PROVE  MountsUsed'
<1> USE ConstantsOK, ConstantFacts DEF MountsUsed, TypeOK, CallOK, LockOK,
        Critical, MountPCs, FreePCs
<1>0. TypeOK /\ CallOK /\ LockOK /\ WorkOK /\ TypeOK' /\ CallOK' /\ LockOK'
  BY InvStep DEF IInv
<1>1. ASSUME NEW t \in Threads,
             CallInvalid(t) \/ CallMount(t) \/ CallUnmount(t) \/ InitLibrary(t) \/ Lock(t)
      PROVE  MountsUsed'
  BY <1>0, <1>1 DEF CallInvalid, CallMount, CallUnmount, InitLibrary, Lock
<1>2. ASSUME NEW t \in Threads, Alloc(t) PROVE MountsUsed'
  <2>1. CASE UNCHANGED owner
    BY <1>0, <1>2, <2>1, AllocEffect DEF SlotIs, Unchanged
  <2>2. CASE ~UNCHANGED owner
    BY <1>0, <1>2, <2>2, EarlyReturn DEF Leaves
  <2> QED
    BY <2>1, <2>2
<1>3. ASSUME NEW t \in Threads, AddClient(t) PROVE MountsUsed'
  BY <1>0, <1>3, AddClientEffect DEF Frame, Within, SlotIs
<1>4. ASSUME NEW t \in Threads, UnlockClient(t) PROVE MountsUsed'
  <2>1. CASE UNCHANGED owner
    BY <1>0, <1>4, <2>1, UnlockClientEffect DEF Frame, Within, SlotIs, WorkOK
  <2>2. CASE ~UNCHANGED owner
    BY <1>0, <1>4, <2>2, EarlyReturn DEF Leaves
  <2> QED
    BY <2>1, <2>2
<1>5. ASSUME NEW t \in Threads, FsaMount(t) PROVE MountsUsed'
  <2>1. pc[t] = "fsamount" /\ cur[t] \in Slots
    BY <1>0, <1>5, FsaMountEffect DEF Frame
  <2>2. slots[cur[t]].mountPath = req[t].path /\ ~slots[cur[t]].mounted
    BY <1>0, <2>1 DEF WorkOK, CallOK, MountPCs
  <2>3. \A s \in Slots : slots[s].mounted => slots[s].mountPath \in fsMounts
    BY <1>0, <2>1
  <2> QED
    BY <1>0, <1>5, <2>1, <2>2, <2>3, FsaMountEffect DEF Frame, Within, SlotIs
<1>6. ASSUME NEW t \in Threads, ChangeDir(t) PROVE MountsUsed'
  BY <1>0, <1>6, ChangeDirEffect DEF Frame, Within, SlotIs
<1>7. ASSUME NEW t \in Threads, GetDeviceInfo(t) PROVE MountsUsed'
  BY <1>0, <1>7, GetDeviceInfoEffect DEF Frame, Within, SlotIs
<1>8. ASSUME NEW t \in Threads, AddDevice(t) PROVE MountsUsed'
  BY <1>0, <1>8, AddDeviceEffect DEF Frame, Within, SlotIs
<1>9. ASSUME NEW t \in Threads, SetUp(t) PROVE MountsUsed'
  BY <1>0, <1>9, SetUpEffect DEF Frame, Leaves, SlotIs
<1>10. ASSUME NEW t \in Threads, FreeUnmount(t) PROVE MountsUsed'
  BY <1>0, <1>10, FreeUnmountEffect, UnmountExact DEF Frame, Within, SlotIs
<1>11. ASSUME NEW t \in Threads, FreeDelClient(t) PROVE MountsUsed'
  BY <1>0, <1>11, FreeDelClientEffect DEF Frame, Within, SlotIs
<1>12. ASSUME NEW t \in Threads, FreeReset(t) PROVE MountsUsed'
  BY <1>0, <1>12, FreeResetEffect DEF Frame, Leaves, FreshSlot
<1>13. ASSUME NEW t \in Threads, FindMount(t) PROVE MountsUsed'
  BY <1>0, <1>13, FindMountEffect DEF Leaves
<1>14. ASSUME NEW t \in Threads, RemoveDevice(t) PROVE MountsUsed'
  BY <1>0, <1>14, RemoveDeviceEffect DEF Frame, Within
<1>15. CASE UNCHANGED vars
  BY <1>15
<1> QED
  BY <1>1, <1>2, <1>3, <1>4, <1>5, <1>6, <1>7, <1>8, <1>9, <1>10, <1>11, <1>12,
     <1>13, <1>14, <1>15 DEF Next, Work

\* The inductive invariant of NoLeak, on top of IInv.
LeakInv == ClientsUsed /\ MountsUsed /\ MountedOK /\ ForeignMountsKept

LEMMA LeakInit == Init => LeakInv
<1> SUFFICES ASSUME Init PROVE LeakInv
  OBVIOUS
<1>1. MountedOK /\ ForeignMountsKept
  BY DEF Init, FreshSlot, MountedOK, ForeignMountsKept
<1>2. ClientsUsed /\ MountsUsed
  BY DEF Init, FreshSlot, ClientsUsed, MountsUsed
<1> QED
  BY <1>1, <1>2 DEF LeakInv

LEMMA LeakStep ==
  ASSUME "UnlockFSClient" \notin MayFail, "Unmount" \notin MayFail,
         \A p \in Paths : PathBuf[p] = p
  PROVE  IInv /\ LeakInv /\ [Next]_vars => LeakInv'
BY ClientsUsedStep, MountsUsedStep, MountedStep DEF LeakInv

\* With no call under way, what the service holds is what the slots hold.
LEMMA NothingLeaks ==
  ASSUME IInv, LeakInv
  PROVE  NoLeak
<1> SUFFICES ASSUME owner = NoThread
             PROVE  LET inUse == {s \in Slots : slots[s].setup} IN
                    /\ clients = {slots[s].clientHandle : s \in inUse}
                    /\ fsMounts = PreMounted
                         \cup {slots[s].mountPath : s \in {u \in inUse : slots[u].mounted}}
  BY DEF NoLeak
<1> DEFINE inUse == {s \in Slots : slots[s].setup}
<1> USE DEF LeakInv
<1>0. TypeOK /\ LockOK /\ IdleSlotsOK /\ ClientsOwned
  BY DEF IInv
<1>1. \A t \in Threads : pc[t] \notin Critical
  BY <1>0, ConstantsOK DEF LockOK
<1>2. \A s \in Slots \ inUse : slots[s].clientHandle = NoClient /\ ~slots[s].mounted
  BY <1>0, <1>1 DEF IdleSlotsOK, ClientsUsed, Unworked
<1>3. \A s \in inUse : slots[s].clientHandle \in clients
  BY <1>0, <1>1 DEF ClientsUsed, ClientsOwned, Critical, FreePCs
<1>4. \A c \in clients : \E s \in inUse : slots[s].clientHandle = c
  BY <1>0, <1>2, ConstantsOK DEF ClientsUsed, TypeOK
<1>5. \A s \in inUse : slots[s].mounted => slots[s].mountPath \in fsMounts
  BY <1>1 DEF MountsUsed, Critical, FreePCs
<1>6. \A p \in fsMounts \ PreMounted :
        \E s \in inUse : slots[s].mounted /\ slots[s].mountPath = p
  BY <1>2 DEF MountsUsed
<1>7. clients = {slots[s].clientHandle : s \in inUse}
  BY <1>3, <1>4
<1>8. fsMounts = PreMounted
        \cup {slots[s].mountPath : s \in {u \in inUse : slots[u].mounted}}
  BY <1>5, <1>6 DEF ForeignMountsKept
<1> QED
  BY <1>7, <1>8

\* If neither Mocha_UnlockFSClientEx nor FSAUnmount fails and every mount_path
\* fits in a slot, the clients and mounts the service holds between calls are
\* those of the slots in use: whatever else fails in a mount, fsa_free undoes
\* all of it.
THEOREM NothingIsLeaked ==
  ASSUME "UnlockFSClient" \notin MayFail, "Unmount" \notin MayFail,
         \A p \in Paths : PathBuf[p] = p
  PROVE  Spec => []NoLeak
<1>1. IInv /\ LeakInv => NoLeak
  BY NothingLeaks
<1> QED
  BY <1>1, LeakInit, LeakStep, Invariance, PTL DEF Spec
-----------------------------------------------------------------------------
(* The mark of the SD card.                                                *)

\* A slot is unmarked until fsa_alloc marks it for the mount that takes it.
SdOK ==
  /\ \A s \in Slots : ~slots[s].setup /\ Unworked(s) => ~slots[s].isSDCard
  /\ \A t \in Threads : pc[t] \in MountPCs \ {"alloc"} =>
       (slots[cur[t]].isSDCard <=> OnSdCard(req[t]))

\* No step of a call but fsa_alloc and fsaResetMount writes the mark.
LEMMA MarkKept ==
  ASSUME TypeOK, CallOK, NEW t \in Threads,
         \/ AddClient(t) \/ UnlockClient(t) \/ FsaMount(t) \/ ChangeDir(t)
         \/ GetDeviceInfo(t) \/ SetUp(t)
  PROVE  \A s \in Slots : slots'[s].isSDCard = slots[s].isSDCard
<1> USE DEF TypeOK, CallOK, Critical, MountPCs, SlotType
<1>1. CASE AddClient(t)
  BY <1>1 DEF AddClient
<1>2. CASE UnlockClient(t)
  BY <1>2 DEF UnlockClient
<1>3. CASE FsaMount(t)
  BY <1>3 DEF FsaMount
<1>4. CASE ChangeDir(t)
  BY <1>4 DEF ChangeDir
<1>5. CASE GetDeviceInfo(t)
  BY <1>5 DEF GetDeviceInfo
<1>6. CASE SetUp(t)
  BY <1>6 DEF SetUp
<1> QED
  BY <1>1, <1>2, <1>3, <1>4, <1>5, <1>6

\* fsa_alloc adds the mark to a slot that nobody works on and that is not set up.
LEMMA AllocMarks ==
  ASSUME TypeOK, CallOK, LockOK, NEW t \in Threads, Alloc(t), UNCHANGED owner
  PROVE  \E s \in Slots :
           /\ ~slots[s].setup /\ Unworked(s)
           /\ (slots'[s].isSDCard <=> slots[s].isSDCard \/ OnSdCard(req[t]))
           /\ \A u \in Slots \ {s} : slots'[u] = slots[u]
           /\ pc' = [pc EXCEPT ![t] = "addclient"] /\ cur' = [cur EXCEPT ![t] = s]
           /\ UNCHANGED req
<1> USE ConstantsOK DEF TypeOK, CallOK, LockOK, Critical, MountPCs
<1>1. owner # NoThread /\ pc[t] = "alloc"
  BY DEF Alloc
<1>2. PICK s \in Slots :
        /\ FirstFree(s)
        /\ cur' = [cur EXCEPT ![t] = s]
        /\ slots' = [slots EXCEPT ![s].isSDCard = @ \/ OnSdCard(req[t])]
  BY <1>1 DEF Alloc
<1>3. slots[s] \in SlotType /\ slots[s].isSDCard \in BOOLEAN
  BY DEF SlotType
<1>4. slots'[s].isSDCard <=> slots[s].isSDCard \/ OnSdCard(req[t])
  <2>1. PICK b \in BOOLEAN : b = (slots[s].isSDCard \/ OnSdCard(req[t]))
    BY DEF OnSdCard
  <2>2. slots' = [slots EXCEPT ![s].isSDCard = b]
    BY <1>2, <2>1, Zenon
  <2>3. slots'[s].isSDCard = b
    BY <1>3, <2>2 DEF SlotType
  <2> QED
    BY <2>1, <2>3, Zenon
<1>5. Unworked(s)
  BY <1>1, ConstantFacts DEF Unworked
<1> QED
  <2>1. ~slots[s].setup
    BY <1>2 DEF FirstFree, FreeSlots
  <2>2. \A u \in Slots \ {s} : slots'[u] = slots[u]
    BY <1>2, <1>3
  <2>3. pc' = [pc EXCEPT ![t] = "addclient"] /\ UNCHANGED req
    BY <1>1 DEF Alloc
  <2> QED
    BY <1>2, <1>4, <1>5, <2>1, <2>2, <2>3

\* Every call marks the slot it takes for itself only.
LEMMA SdStep ==
  ASSUME IInv, SdOK, [Next]_vars, "UnlockFSClient" \notin MayFail
  PROVE  SdOK'
<1> USE ConstantsOK, ConstantFacts DEF SdOK, Unworked, TypeOK, CallOK, LockOK,
        Critical, MountPCs, FreePCs, OnSdCard
<1>0. TypeOK /\ CallOK /\ LockOK /\ WorkOK /\ TypeOK' /\ CallOK' /\ LockOK'
  BY InvStep DEF IInv
<1>1. ASSUME NEW t \in Threads,
             CallInvalid(t) \/ CallMount(t) \/ CallUnmount(t) \/ InitLibrary(t) \/ Lock(t)
      PROVE  SdOK'
  BY <1>0, <1>1 DEF CallInvalid, CallMount, CallUnmount, InitLibrary, Lock
<1>2. ASSUME NEW t \in Threads, Alloc(t) PROVE SdOK'
  <2>1. CASE UNCHANGED owner
    <3>1. PICK s \in Slots :
            /\ ~slots[s].setup /\ Unworked(s)
            /\ (slots'[s].isSDCard <=> slots[s].isSDCard \/ OnSdCard(req[t]))
            /\ \A u \in Slots \ {s} : slots'[u] = slots[u]
            /\ pc' = [pc EXCEPT ![t] = "addclient"] /\ cur' = [cur EXCEPT ![t] = s]
            /\ UNCHANGED req
      BY <1>0, <1>2, <2>1, AllocMarks
    <3>2. \A u \in Threads \ {t} : pc'[u] \notin Critical
      BY <1>0, <1>2, <3>1 DEF Alloc
    <3>3. slots'[s].isSDCard <=> OnSdCard(req'[t])
      BY <3>1
    <3>4. \A u \in Slots \ {s} : Unworked(u)
      BY <1>0, <1>2 DEF Alloc
    <3>5. \A u \in Slots : (~slots[u].setup /\ Unworked(u) => ~slots[u].isSDCard)'
      BY <1>0, <3>1, <3>4
    <3> HIDE DEF OnSdCard
    <3> QED
      BY <1>0, <3>1, <3>2, <3>3, <3>5
  <2>2. CASE ~UNCHANGED owner
    <3>1. FreeSlots = {}
      BY <1>2, <2>2 DEF Alloc
    <3>2. \A s \in Slots : slots[s].setup
      BY <3>1 DEF FreeSlots
    <3> QED
      BY <1>0, <1>2, <2>2, <3>2, EarlyReturn DEF Leaves
  <2> QED
    BY <2>1, <2>2
<1>3. ASSUME NEW t \in Threads, AddClient(t) PROVE SdOK'
  BY <1>0, <1>3, AddClientEffect, MarkKept DEF Frame, Within, SlotIs
<1>4. ASSUME NEW t \in Threads, UnlockClient(t) PROVE SdOK'
  <2>1. UNCHANGED owner
    BY <1>4 DEF UnlockClient
  <2> QED
    BY <1>0, <1>4, <2>1, UnlockClientEffect, MarkKept DEF Frame, Within, SlotIs
<1>5. ASSUME NEW t \in Threads, FsaMount(t) PROVE SdOK'
  BY <1>0, <1>5, FsaMountEffect, MarkKept DEF Frame, Within, SlotIs
<1>6. ASSUME NEW t \in Threads, ChangeDir(t) PROVE SdOK'
  BY <1>0, <1>6, ChangeDirEffect, MarkKept DEF Frame, Within, SlotIs
<1>7. ASSUME NEW t \in Threads, GetDeviceInfo(t) PROVE SdOK'
  BY <1>0, <1>7, GetDeviceInfoEffect, MarkKept DEF Frame, Within, SlotIs
<1>8. ASSUME NEW t \in Threads, AddDevice(t) PROVE SdOK'
  BY <1>0, <1>8, AddDeviceEffect DEF Frame, Within, SlotIs
<1>9. ASSUME NEW t \in Threads, SetUp(t) PROVE SdOK'
  BY <1>0, <1>9, SetUpEffect, MarkKept DEF Frame, Leaves, SlotIs, WorkOK
<1>10. ASSUME NEW t \in Threads, FreeUnmount(t) PROVE SdOK'
  BY <1>0, <1>10, FreeUnmountEffect DEF Frame, Within, SlotIs
<1>11. ASSUME NEW t \in Threads, FreeDelClient(t) PROVE SdOK'
  BY <1>0, <1>11, FreeDelClientEffect DEF Frame, Within, SlotIs
<1>12. ASSUME NEW t \in Threads, FreeReset(t) PROVE SdOK'
  BY <1>0, <1>12, FreeResetEffect DEF Frame, Leaves, FreshSlot
<1>13. ASSUME NEW t \in Threads, FindMount(t) PROVE SdOK'
  BY <1>0, <1>13, FindMountEffect DEF Leaves
<1>14. ASSUME NEW t \in Threads, RemoveDevice(t) PROVE SdOK'
  BY <1>0, <1>14, RemoveDeviceEffect DEF Frame, Within
<1>15. CASE UNCHANGED vars
  BY <1>15
<1> QED
  BY <1>1, <1>2, <1>3, <1>4, <1>5, <1>6, <1>7, <1>8, <1>9, <1>10, <1>11, <1>12,
     <1>13, <1>14, <1>15 DEF Next, Work

LEMMA SdInit == Init => SdOK
BY DEF Init, FreshSlot, SdOK, MountPCs

\* If Mocha_UnlockFSClientEx does not fail, a mount is marked as one on the SD
\* card exactly if its own device or path is there.  (If it fails, the slot
\* keeps the mark for the mount that takes it next.)
THEOREM SdFlagIsExact ==
  ASSUME "UnlockFSClient" \notin MayFail
  PROVE  Spec => []SdFlagExact
<1>1. IInv /\ SdOK /\ [Next]_vars => SdOK'
  BY SdStep
<1>2. SdOK => SdFlagExact
  BY DEF SdOK, SdFlagExact, MountPCs
<1> QED
  BY <1>1, <1>2, SdInit, Invariance, PTL DEF Spec
-----------------------------------------------------------------------------
(* Slots in use.                                                           *)

\* A step changes a set-up slot only where fsa_free resets it for an unmount.
LEMMA StableStep == IInv /\ [Next]_vars =>
  \A s \in Slots :
    slots[s].setup /\ slots'[s] # slots[s] =>
      \E t \in Threads :
        /\ owner = t /\ pc[t] = "reset" /\ cur[t] = s
        /\ req[t] = [op |-> "unmount", name |-> slots[s].name]
<1> SUFFICES ASSUME IInv, [Next]_vars, NEW s \in Slots,
                    slots[s].setup, slots'[s] # slots[s]
             PROVE  \E t \in Threads :
                      /\ owner = t /\ pc[t] = "reset" /\ cur[t] = s
                      /\ req[t] = [op |-> "unmount", name |-> slots[s].name]
  OBVIOUS
<1>0. TypeOK /\ CallOK /\ LockOK /\ WorkOK /\ FreeOK
  BY DEF IInv
<1>1. PICK t \in Threads :
        \/ Alloc(t) \/ AddClient(t) \/ UnlockClient(t) \/ FsaMount(t) \/ ChangeDir(t)
        \/ GetDeviceInfo(t) \/ SetUp(t) \/ FreeReset(t)
  BY DEF Next, Work, CallInvalid, CallMount, CallUnmount, InitLibrary, Lock,
         AddDevice, FreeUnmount, FreeDelClient, FindMount, RemoveDevice
<1>2. CASE FreeReset(t)
  <2>1. pc[t] = "reset" /\ cur[t] = s
    BY <1>0, <1>2, FreeResetEffect DEF Frame
  <2>2. owner = t /\ req[t] \in UnmountReq /\ slots[s].name = req[t].name
    BY <1>0, <2>1 DEF FreeOK, LockOK, Critical, FreePCs
  <2>3. req[t] = [op |-> "unmount", name |-> slots[s].name]
    BY <2>2 DEF UnmountReq
  <2> QED
    BY <2>1, <2>2, <2>3
<1>3. CASE Alloc(t) \/ UnlockClient(t)
  <2>1. CASE ~UNCHANGED owner
    BY <1>0, <1>3, <2>1, EarlyReturn
  <2>2. CASE UNCHANGED owner /\ Alloc(t)
    BY <1>0, <2>2, AllocEffect
  <2>3. CASE UNCHANGED owner /\ UnlockClient(t)
    BY <1>0, <2>3, UnlockClientEffect DEF Frame, WorkOK, MountPCs
  <2> QED
    BY <1>3, <2>1, <2>2, <2>3
<1>4. CASE AddClient(t)
  BY <1>0, <1>4, AddClientEffect DEF Frame, WorkOK, MountPCs
<1>5. CASE FsaMount(t)
  BY <1>0, <1>5, FsaMountEffect DEF Frame, WorkOK, MountPCs
<1>6. CASE ChangeDir(t)
  BY <1>0, <1>6, ChangeDirEffect DEF Frame, WorkOK, MountPCs
<1>7. CASE GetDeviceInfo(t)
  BY <1>0, <1>7, GetDeviceInfoEffect DEF Frame, WorkOK, MountPCs
<1>8. CASE SetUp(t)
  <2>1. pc[t] = "setup" /\ \A u \in Slots \ {cur[t]} : slots'[u] = slots[u]
    BY <1>0, <1>8, SetUpEffect DEF Frame
  <2>2. ~slots[cur[t]].setup
    BY <1>0, <2>1 DEF WorkOK, MountPCs
  <2> QED
    BY <2>1, <2>2
<1> QED
  BY <1>1, <1>2, <1>3, <1>4, <1>5, <1>6, <1>7, <1>8

\* Only the unmount call for its own name changes a set-up slot.
THEOREM SetupSlotsAreStable == Spec => SetupSlotsStable
<1>1. IInv /\ [Next]_vars =>
        [\A s \in Slots :
           slots[s].setup /\ slots'[s] # slots[s] =>
             \E t \in Threads :
               /\ owner = t /\ pc[t] = "reset" /\ cur[t] = s
               /\ req[t] = [op |-> "unmount", name |-> slots[s].name]]_slots
  BY StableStep
<1> QED
  BY <1>1, Invariance, PTL DEF Spec, SetupSlotsStable
-----------------------------------------------------------------------------
(* MountTable implements MountRegistry.                                    *)

\* The registry's table shows which slots are set up and their names, no more.
LEMMA TableSame ==
  ASSUME \A s \in Slots : /\ slots'[s].setup <=> slots[s].setup
                          /\ slots[s].setup => slots'[s].name = slots[s].name
  PROVE  table' = table
BY DEF table

\* While a call goes on its caller sees nothing.
LEMMA Hidden ==
  ASSUME NEW t \in Threads, pc[t] # "idle", pc'[t] # "idle", req' = req,
         \A u \in Threads \ {t} : pc'[u] = pc[u] /\ res'[u] = res[u],
         table' = table
  PROVE  UNCHANGED Registry!vars
<1>1. answers' = answers
  BY DEF answers
<1> QED
  BY <1>1 DEF Registry!vars

\* When it returns, its caller sees the answer.
LEMMA Answered ==
  ASSUME TypeOK, TypeOK', NEW t \in Threads, Leaves(t),
         \A u \in Threads \ {t} :
           pc'[u] = pc[u] /\ res'[u] = res[u] /\ req'[u] = req[u]
  PROVE  Registry!Answer(t, res'[t])
<1>1. answers' = [answers EXCEPT ![t] = res'[t]]
  BY DEF answers, Leaves
<1>2. req' = [req EXCEPT ![t] = NoReq]
  BY DEF TypeOK, Leaves
<1> QED
  BY <1>1, <1>2 DEF Registry!Answer

\* Every step is one of the registry, or none.
LEMMA Simulation ==
  ASSUME IInv, [Next]_vars
  PROVE  [Registry!Next]_(Registry!vars)
<1> USE ConstantFacts
<1>0. /\ TypeOK /\ CallOK /\ LockOK /\ WorkOK /\ FreeOK /\ IdleSlotsOK
      /\ TypeOK'
  BY InvStep DEF IInv
<1>1. ASSUME NEW t \in Threads, CallInvalid(t) PROVE Registry!Refuse(t)
  BY <1>0, <1>1 DEF CallInvalid, Registry!Refuse, table, answers, CallOK, TypeOK,
     slotVars
<1>2. ASSUME NEW t \in Threads, CallMount(t) \/ CallUnmount(t) PROVE Registry!Call(t)
  <2>1. answers' = [answers EXCEPT ![t] = "PENDING"]
    BY <1>0, <1>2 DEF CallMount, CallUnmount, answers, TypeOK
  <2> QED
    BY <1>0, <1>2, <2>1 DEF CallMount, CallUnmount, Registry!Call, table, CallOK
<1>3. ASSUME NEW t \in Threads, InitLibrary(t)
      PROVE  Registry!MountFailed(t) \/ UNCHANGED Registry!vars
  <2>1. table' = table /\ pc[t] = "initlib" /\ req[t] \in MountReq /\ req[t] # NoReq
    BY <1>0, <1>3 DEF InitLibrary, table, CallOK
  <2>2. \A u \in Threads \ {t} : pc'[u] = pc[u] /\ res'[u] = res[u] /\ req'[u] = req[u]
    BY <1>0, <1>3 DEF InitLibrary, TypeOK
  <2>3. CASE Step(t, "initlib", "lock")
    BY <1>0, <2>1, <2>2, <2>3, Hidden DEF TypeOK
  <2>4. CASE Return(t, "UNSUPPORTED_COMMAND")
    <3>1. answers' = [answers EXCEPT ![t] = "UNSUPPORTED_COMMAND"]
      BY <1>0, <2>2, <2>4 DEF answers, TypeOK
    <3> QED
      BY <1>0, <2>1, <2>4, <3>1
         DEF Registry!MountFailed, Registry!Answer, MountErrors
  <2> QED
    BY <1>3, <2>3, <2>4 DEF InitLibrary
<1>4. ASSUME NEW t \in Threads, Lock(t) PROVE UNCHANGED Registry!vars
  BY <1>0, <1>4, Hidden DEF Lock, table, TypeOK, Critical
<1>5. ASSUME NEW t \in Threads,
             (Alloc(t) \/ UnlockClient(t)) /\ ~UNCHANGED owner
      PROVE  Registry!MountFailed(t)
  <2>1. table' = table
    BY <1>0, <1>5, EarlyReturn DEF table
  <2>2. req[t] \in MountReq /\ req[t] # NoReq
    BY <1>0, <1>5, EarlyReturn DEF CallOK, MountPCs
  <2>3. Registry!Answer(t, res'[t]) /\ res'[t] \in MountErrors
    BY <1>0, <1>5, EarlyReturn, Answered
  <2> QED
    BY <2>1, <2>2, <2>3 DEF Registry!MountFailed
<1>6. ASSUME NEW t \in Threads, Alloc(t), UNCHANGED owner PROVE UNCHANGED Registry!vars
  <2>1. table' = table
    BY <1>0, <1>6, AllocEffect, TableSame DEF Unchanged, SlotIs
  <2> QED
    BY <1>0, <1>6, <2>1, AllocEffect, Hidden DEF TypeOK
<1>7. ASSUME NEW t \in Threads, UnlockClient(t), UNCHANGED owner
      PROVE  UNCHANGED Registry!vars
  <2>1. table' = table
    BY <1>0, <1>7, UnlockClientEffect, TableSame DEF Frame, SlotIs, WorkOK, MountPCs
  <2> QED
    BY <1>0, <1>7, <2>1, UnlockClientEffect, Hidden DEF Frame, Within
<1>8. ASSUME NEW t \in Threads, AddClient(t) PROVE UNCHANGED Registry!vars
  <2>1. table' = table
    BY <1>0, <1>8, AddClientEffect, TableSame DEF Frame, SlotIs
  <2> QED
    BY <1>0, <1>8, <2>1, AddClientEffect, Hidden DEF Frame, Within
<1>9. ASSUME NEW t \in Threads, FsaMount(t) PROVE UNCHANGED Registry!vars
  <2>1. table' = table
    BY <1>0, <1>9, FsaMountEffect, TableSame DEF Frame, SlotIs
  <2> QED
    BY <1>0, <1>9, <2>1, FsaMountEffect, Hidden DEF Frame, Within
<1>10. ASSUME NEW t \in Threads, ChangeDir(t) PROVE UNCHANGED Registry!vars
  <2>1. table' = table
    BY <1>0, <1>10, ChangeDirEffect, TableSame DEF Frame, SlotIs
  <2> QED
    BY <1>0, <1>10, <2>1, ChangeDirEffect, Hidden DEF Frame, Within
<1>11. ASSUME NEW t \in Threads, GetDeviceInfo(t) PROVE UNCHANGED Registry!vars
  <2>1. table' = table
    BY <1>0, <1>11, GetDeviceInfoEffect, TableSame DEF Frame, SlotIs
  <2> QED
    BY <1>0, <1>11, <2>1, GetDeviceInfoEffect, Hidden DEF Frame, Within
<1>12. ASSUME NEW t \in Threads, AddDevice(t) PROVE UNCHANGED Registry!vars
  BY <1>0, <1>12, AddDeviceEffect, Hidden DEF Frame, Within, table
<1>13. ASSUME NEW t \in Threads, FreeUnmount(t) PROVE UNCHANGED Registry!vars
  BY <1>0, <1>13, FreeUnmountEffect, Hidden DEF Frame, Within, table
<1>14. ASSUME NEW t \in Threads, FreeDelClient(t) PROVE UNCHANGED Registry!vars
  BY <1>0, <1>14, FreeDelClientEffect, Hidden DEF Frame, Within, table
<1>15. ASSUME NEW t \in Threads, RemoveDevice(t) PROVE UNCHANGED Registry!vars
  BY <1>0, <1>15, RemoveDeviceEffect, Hidden DEF Frame, Within, table
<1>16. ASSUME NEW t \in Threads, SetUp(t) PROVE Registry!MountDone(t)
  <2>1. pc[t] = "setup" /\ cur[t] \in Slots /\ ~slots[cur[t]].setup
        /\ slots[cur[t]].name = NameBuf[req[t].name]
    BY <1>0, <1>16, SetUpEffect DEF Frame, WorkOK, MountPCs
  <2>2. req[t] \in MountReq /\ req[t] # NoReq
    BY <1>0, <2>1 DEF CallOK, MountPCs
  <2>3. table' = [table EXCEPT ![cur[t]] = NameBuf[req[t].name]]
    <3>1. slots'[cur[t]].setup /\ slots'[cur[t]].name = slots[cur[t]].name
      BY <1>0, <1>16, SetUpEffect DEF SlotIs
    <3>2. \A s \in Slots \ {cur[t]} : slots'[s] = slots[s]
      BY <1>0, <1>16, SetUpEffect DEF Frame
    <3> QED
      BY <2>1, <3>1, <3>2 DEF table
  <2>4. table[cur[t]] = NoName
    BY <2>1 DEF table
  <2>5. Registry!Answer(t, "SUCCESS")
    BY <1>0, <1>16, SetUpEffect, Answered DEF Frame
  <2> QED
    BY <2>1, <2>2, <2>3, <2>4, <2>5 DEF Registry!MountDone
<1>17. ASSUME NEW t \in Threads, FreeReset(t)
       PROVE  Registry!MountFailed(t) \/ Registry!UnmountDone(t)
  <2>1. pc[t] = "reset" /\ cur[t] \in Slots /\ req[t] # NoReq
    BY <1>0, <1>17, FreeResetEffect DEF Frame, CallOK
  <2>2. Registry!Answer(t, res[t])
    BY <1>0, <1>17, FreeResetEffect, Answered DEF Frame
  <2>3. ~slots'[cur[t]].setup
    BY <1>0, <1>17, FreeResetEffect DEF FreshSlot
  <2>4. \A s \in Slots \ {cur[t]} : slots'[s] = slots[s]
    BY <1>0, <1>17, FreeResetEffect DEF Frame
  <2>5. CASE req[t] \in MountReq /\ ~slots[cur[t]].setup /\ res[t] \in MountErrors
    <3>1. table' = table
      BY <2>3, <2>4, <2>5 DEF table
    <3> QED
      BY <2>1, <2>2, <2>5, <3>1 DEF Registry!MountFailed
  <2>6. CASE /\ req[t] \in UnmountReq /\ slots[cur[t]].setup
             /\ slots[cur[t]].name = req[t].name /\ res[t] = "SUCCESS"
    <3>1. table' = [table EXCEPT ![cur[t]] = NoName]
      BY <2>1, <2>3, <2>4 DEF table
    <3>2. table[cur[t]] = req[t].name
      BY <2>1, <2>6 DEF table
    <3> QED
      BY <2>1, <2>2, <2>6, <3>1, <3>2 DEF Registry!UnmountDone
  <2> QED
    BY <1>0, <2>1, <2>5, <2>6 DEF FreeOK, FreePCs
<1>18. ASSUME NEW t \in Threads, FindMount(t)
       PROVE  Registry!UnmountMissing(t) \/ UNCHANGED Registry!vars
  <2>1. table' = table
    BY <1>0, <1>18, FindMountEffect DEF table, slotVars
  <2>2. pc[t] = "find" /\ req[t] \in UnmountReq /\ req[t] # NoReq
    BY <1>0, <1>18, FindMountEffect DEF CallOK
  <2>3. CASE pc'[t] = "removedevice"
    BY <1>0, <1>18, <2>1, <2>2, <2>3, FindMountEffect, Hidden DEF Leaves
  <2>4. CASE pc'[t] # "removedevice"
    <3>1. Leaves(t) /\ res'[t] = "NOT_FOUND"
          /\ \A s \in Slots : ~(slots[s].setup /\ slots[s].name = req[t].name)
      BY <1>0, <1>18, <2>4, FindMountEffect
    <3>2. Registry!Answer(t, "NOT_FOUND")
      BY <1>0, <1>18, <3>1, FindMountEffect, Answered
    <3>3. \A s \in Slots : table[s] # req[t].name
      BY <2>2, <3>1, ConstantsOK DEF table
    <3> QED
      BY <2>1, <2>2, <3>2, <3>3 DEF Registry!UnmountMissing
  <2> QED
    BY <2>3, <2>4
<1>19. CASE UNCHANGED vars
  BY <1>19 DEF Registry!vars, table, answers
<1> QED
  BY <1>1, <1>2, <1>3, <1>4, <1>5, <1>6, <1>7, <1>8, <1>9, <1>10, <1>11, <1>12,
     <1>13, <1>14, <1>15, <1>16, <1>17, <1>18, <1>19
     DEF Next, Work, Registry!Next

\* The steps of Mocha_MountFSEx and Mocha_UnmountFS add up to calls that act on
\* the table at once and return the status of what they did.
THEOREM MountTableImplementsRegistry == Spec => RefinesRegistry
<1>1. Init => Registry!Init
  BY DEF Init, Registry!Init, table, answers, FreshSlot
<1>2. IInv /\ [Next]_vars => [Registry!Next]_(Registry!vars)
  BY Simulation
<1> QED
  BY <1>1, <1>2, Invariance, PTL DEF Spec, RefinesRegistry, Registry!Spec
=============================================================================
