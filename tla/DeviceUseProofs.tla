--------------------------- MODULE DeviceUseProofs ---------------------------
(***************************************************************************)
(* Proofs about DeviceUse, for every number of threads, users, slots and   *)
(* names and every set of calls that may fail.                             *)
(*                                                                         *)
(* What users do leaves the mount table alone: with cwd hidden, which no   *)
(* mount function reads, every step is one of MountTable or a stutter      *)
(* (UsersLeaveTheTable), so what MountTableProofs shows is shown here too  *)
(* (UseLeaksNothing, UseSdFlagIsExact).                                    *)
(*                                                                         *)
(* When no mount or unmount runs while a user has an operation under way   *)
(* (Apart), a call reaches the mount it was meant for, the sector size is  *)
(* not zero when it is divided by, and cwd lies in the mount.              *)
(***************************************************************************)
EXTENDS DeviceUse, MountTableProofs

USE DEF Goto, Return, ReturnUnlock, Step, Put, Succeeds, FailWith,
        slotVars, callVars, fsaVars, vars

-----------------------------------------------------------------------------
(* The mount table under the users.                                        *)

\* A slot as the functions of the mount table see it: they write cwd, and
\* never read it.
SansCwd(m) ==
  [setup |-> m.setup, mounted |-> m.mounted, isSDCard |-> m.isSDCard,
   name |-> m.name, mountPath |-> m.mountPath, cwd |-> RootDir,
   clientHandle |-> m.clientHandle, deviceSectorSize |-> m.deviceSectorSize]

tableSlots == [s \in Slots |-> SansCwd(slots[s])]

Table == INSTANCE MountTableProofs
           WITH slots <- tableSlots, MayFail <- MayFail \cup {"ChangeDir"}

\* A slot whose cwd others have written to.
UseSlot ==
  [setup : BOOLEAN, mounted : BOOLEAN, isSDCard : BOOLEAN,
   name : Names \cup {NoName}, mountPath : Paths \cup {NoPath},
   cwd : Paths \cup {RootDir, NoPath, Torn}, clientHandle : Clients \cup {NoClient},
   deviceSectorSize : SectorSizes \cup {0, 512}]

\* What needs no care of the callers.
SharedOK ==
  /\ slots \in [Slots -> UseSlot]
  /\ use \in [Users -> Uses \cup {NoUse}]
  /\ held \in [Users -> [name : Names, client : Clients \cup {NoClient}] \cup {NoFile}]

USE DEF Table!Goto, Table!Return, Table!ReturnUnlock, Table!Step, Table!Put,
        Table!Succeeds, Table!FailWith, Table!slotVars, Table!callVars,
        Table!fsaVars, Table!vars, Table!Slots, Table!MountReq, Table!UnmountReq,
        Table!Requests, Table!FreshSlot, Table!ExternalCalls

\* The assumptions of the mount table hold of the instance.
LEMMA TableConstants ==
  /\ NSlots \in Nat \ {0}
  /\ NameBuf \in [Names -> Names]
  /\ PathBuf \in [Paths -> Paths]
  /\ SdDevs \subseteq Devs
  /\ SdPaths \subseteq Paths
  /\ PreMounted \subseteq Paths
  /\ SectorSizes \subseteq Nat \ {0}
  /\ MayFail \cup {"ChangeDir"} \subseteq Table!ExternalCalls
  /\ NoClient \notin Clients
  /\ NoDev \notin Devs
  /\ NoSlot \notin 0 .. NSlots - 1
  /\ NoThread \notin Threads
  /\ NoName \notin Names
  /\ NoPath \notin Paths
  /\ RootDir \notin Paths
  /\ NoReq \notin Table!Requests
BY ConstantsOK, NoReqOK DEF ExternalCalls, Requests, MountReq, UnmountReq

\* Assigning to a field of a slot, other than cwd, is not hidden.
LEMMA HiddenFields ==
  ASSUME NEW m \in UseSlot, NEW v
  PROVE  /\ SansCwd([m EXCEPT !.setup = v]) = [SansCwd(m) EXCEPT !.setup = v]
         /\ SansCwd([m EXCEPT !.mounted = v]) = [SansCwd(m) EXCEPT !.mounted = v]
         /\ SansCwd([m EXCEPT !.isSDCard = v]) = [SansCwd(m) EXCEPT !.isSDCard = v]
         /\ SansCwd([m EXCEPT !.clientHandle = v])
              = [SansCwd(m) EXCEPT !.clientHandle = v]
         /\ SansCwd([m EXCEPT !.deviceSectorSize = v])
              = [SansCwd(m) EXCEPT !.deviceSectorSize = v]
         /\ SansCwd([m EXCEPT !.cwd = v]) = SansCwd(m)
<1> USE DEF UseSlot, SansCwd
<1>1. SansCwd([m EXCEPT !.setup = v]) = [SansCwd(m) EXCEPT !.setup = v]
  OBVIOUS
<1>2. SansCwd([m EXCEPT !.mounted = v]) = [SansCwd(m) EXCEPT !.mounted = v]
  OBVIOUS
<1>3. SansCwd([m EXCEPT !.isSDCard = v]) = [SansCwd(m) EXCEPT !.isSDCard = v]
  OBVIOUS
<1>4. SansCwd([m EXCEPT !.clientHandle = v]) = [SansCwd(m) EXCEPT !.clientHandle = v]
  OBVIOUS
<1>5. SansCwd([m EXCEPT !.deviceSectorSize = v])
        = [SansCwd(m) EXCEPT !.deviceSectorSize = v]
  OBVIOUS
<1>6. SansCwd([m EXCEPT !.cwd = v]) = SansCwd(m)
  OBVIOUS
<1> QED
  BY <1>1, <1>2, <1>3, <1>4, <1>5, <1>6

\* So are the strings, which are assigned together.
WithStrings(m, n, p) == [m EXCEPT !.mounted = FALSE, !.name = n, !.mountPath = p]

LEMMA StringsSet ==
  ASSUME NEW m \in UseSlot, NEW n, NEW p
  PROVE  WithStrings(m, n, p) =
           [setup |-> m.setup, mounted |-> FALSE, isSDCard |-> m.isSDCard,
            name |-> n, mountPath |-> p, cwd |-> m.cwd,
            clientHandle |-> m.clientHandle, deviceSectorSize |-> m.deviceSectorSize]
<1>1. PICK w : w = WithStrings(m, n, p)
  OBVIOUS
<1>2. w = [setup |-> m.setup, mounted |-> FALSE, isSDCard |-> m.isSDCard,
           name |-> n, mountPath |-> p, cwd |-> m.cwd,
           clientHandle |-> m.clientHandle, deviceSectorSize |-> m.deviceSectorSize]
  BY <1>1 DEF UseSlot, WithStrings
<1> QED
  BY <1>1, <1>2

LEMMA HiddenStrings ==
  ASSUME NEW m \in UseSlot, NEW n, NEW p
  PROVE  SansCwd(WithStrings(m, n, p)) = WithStrings(SansCwd(m), n, p)
<1> DEFINE k == [setup |-> m.setup, mounted |-> FALSE, isSDCard |-> m.isSDCard,
                 name |-> n, mountPath |-> p, cwd |-> RootDir,
                 clientHandle |-> m.clientHandle, deviceSectorSize |-> m.deviceSectorSize]
<1>1. SansCwd(m) \in UseSlot
  BY DEF UseSlot, SansCwd
<1>2. WithStrings(SansCwd(m), n, p) = k
  BY <1>1, StringsSet DEF SansCwd
<1>3. SansCwd(WithStrings(m, n, p)) = k
  <2> DEFINE j == [setup |-> m.setup, mounted |-> FALSE, isSDCard |-> m.isSDCard,
                   name |-> n, mountPath |-> p, cwd |-> m.cwd,
                   clientHandle |-> m.clientHandle,
                   deviceSectorSize |-> m.deviceSectorSize]
  <2>1. WithStrings(m, n, p) = j
    BY StringsSet
  <2>2. SansCwd(j) = k
    BY DEF SansCwd
  <2> QED
    BY <2>1, <2>2
<1> QED
  BY <1>2, <1>3

\* Writing one slot writes one slot of the table.
LEMMA HiddenSlot ==
  ASSUME slots \in [Slots -> UseSlot], NEW s \in Slots, NEW m,
         slots' = [slots EXCEPT ![s] = m]
  PROVE  tableSlots' = [tableSlots EXCEPT ![s] = SansCwd(m)]
BY DEF tableSlots

LEMMA HiddenPut ==
  ASSUME slots \in [Slots -> UseSlot], NEW s \in Slots, NEW v
  PROVE  /\ slots' = [slots EXCEPT ![s].setup = v]
              => tableSlots' = [tableSlots EXCEPT ![s].setup = v]
         /\ slots' = [slots EXCEPT ![s].mounted = v]
              => tableSlots' = [tableSlots EXCEPT ![s].mounted = v]
         /\ slots' = [slots EXCEPT ![s].isSDCard = v]
              => tableSlots' = [tableSlots EXCEPT ![s].isSDCard = v]
         /\ slots' = [slots EXCEPT ![s].clientHandle = v]
              => tableSlots' = [tableSlots EXCEPT ![s].clientHandle = v]
         /\ slots' = [slots EXCEPT ![s].deviceSectorSize = v]
              => tableSlots' = [tableSlots EXCEPT ![s].deviceSectorSize = v]
         /\ slots' = [slots EXCEPT ![s].cwd = v] => tableSlots' = tableSlots
<1> DEFINE m == slots[s]
<1>1. m \in UseSlot /\ tableSlots[s] = SansCwd(m)
  BY DEF tableSlots
<1>2. ASSUME slots' = [slots EXCEPT ![s].setup = v]
      PROVE  tableSlots' = [tableSlots EXCEPT ![s].setup = v]
  BY <1>1, <1>2, HiddenFields DEF tableSlots
<1>3. ASSUME slots' = [slots EXCEPT ![s].mounted = v]
      PROVE  tableSlots' = [tableSlots EXCEPT ![s].mounted = v]
  BY <1>1, <1>3, HiddenFields DEF tableSlots
<1>4. ASSUME slots' = [slots EXCEPT ![s].isSDCard = v]
      PROVE  tableSlots' = [tableSlots EXCEPT ![s].isSDCard = v]
  BY <1>1, <1>4, HiddenFields DEF tableSlots
<1>5. ASSUME slots' = [slots EXCEPT ![s].clientHandle = v]
      PROVE  tableSlots' = [tableSlots EXCEPT ![s].clientHandle = v]
  BY <1>1, <1>5, HiddenFields DEF tableSlots
<1>6. ASSUME slots' = [slots EXCEPT ![s].deviceSectorSize = v]
      PROVE  tableSlots' = [tableSlots EXCEPT ![s].deviceSectorSize = v]
  BY <1>1, <1>6, HiddenFields DEF tableSlots
<1>7. ASSUME slots' = [slots EXCEPT ![s].cwd = v]
      PROVE  tableSlots' = tableSlots
  BY <1>1, <1>7, HiddenFields DEF tableSlots
<1> QED
  BY <1>2, <1>3, <1>4, <1>5, <1>6, <1>7

\* Every step of the mount table is one of the table without cwd: what
\* FSAChangeDir stores is not seen, as if the call had failed.
LEMMA TableSteps ==
  ASSUME SharedOK, Table!IInv, NEW t \in Threads,
         CallInvalid(t) \/ CallMount(t) \/ CallUnmount(t) \/ Work(t)
  PROVE  Table!Next
<1> USE TableConstants DEF SharedOK, MountReq, UnmountReq, Requests, Slots
<1>0. cur \in [Threads -> Slots \cup {NoSlot}] /\ req \in [Threads -> Requests \cup {NoReq}]
  BY DEF Table!IInv, Table!TypeOK
<1>1. pc[t] \in {"addclient", "unlockclient", "fsamount", "chdir", "deviceinfo",
                 "adddevice", "setup", "free", "delclient", "reset", "removedevice"}
        => cur[t] \in Slots
  BY DEF Table!IInv, Table!CallOK, Table!Critical, Table!MountPCs, Table!FreePCs
<1>2. UNCHANGED slots => UNCHANGED tableSlots
  BY DEF tableSlots
<1>3. \A s \in Slots :
        /\ slots[s] \in UseSlot /\ tableSlots[s] = SansCwd(slots[s])
        /\ tableSlots[s].setup = slots[s].setup
        /\ tableSlots[s].mounted = slots[s].mounted
        /\ tableSlots[s].isSDCard = slots[s].isSDCard
        /\ tableSlots[s].name = slots[s].name
        /\ tableSlots[s].mountPath = slots[s].mountPath
        /\ tableSlots[s].clientHandle = slots[s].clientHandle
  BY DEF tableSlots, SansCwd
<1>4. ASSUME CallInvalid(t) PROVE Table!CallInvalid(t)
  BY <1>2, <1>4 DEF CallInvalid, Table!CallInvalid
<1>5. ASSUME CallMount(t) PROVE Table!CallMount(t)
  BY <1>2, <1>5 DEF CallMount, Table!CallMount
<1>6. ASSUME CallUnmount(t) PROVE Table!CallUnmount(t)
  BY <1>2, <1>6 DEF CallUnmount, Table!CallUnmount
<1>7. ASSUME InitLibrary(t) PROVE Table!InitLibrary(t)
  BY <1>2, <1>7 DEF InitLibrary, Table!InitLibrary
<1>8. ASSUME Lock(t) PROVE Table!Lock(t)
  BY <1>2, <1>8 DEF Lock, Table!Lock
<1>9. FreeSlots = Table!FreeSlots
  BY <1>3 DEF FreeSlots, Table!FreeSlots
<1>10. ASSUME Alloc(t) PROVE Table!Alloc(t)
  <2>1. CASE FreeSlots = {} /\ UNCHANGED slots
    BY <1>2, <1>9, <1>10, <2>1 DEF Alloc, Table!Alloc, FirstFree
  <2>2. ASSUME NEW s \in Slots, FirstFree(s), cur' = [cur EXCEPT ![t] = s],
               slots' = [slots EXCEPT ![s].isSDCard = @ \/ OnSdCard(req[t])]
        PROVE  Table!Alloc(t)
    <3>1. PICK b \in BOOLEAN : b = (slots[s].isSDCard \/ OnSdCard(req[t]))
      BY DEF OnSdCard
    <3>2. slots' = [slots EXCEPT ![s].isSDCard = b]
      BY <2>2, <3>1, Zenon
    <3>3. tableSlots' = [tableSlots EXCEPT ![s].isSDCard = b]
      BY <3>2, HiddenPut
    <3>4. tableSlots[s].isSDCard = slots[s].isSDCard
      BY <1>3
    <3>5. OnSdCard(req[t]) = Table!OnSdCard(req[t])
      BY DEF OnSdCard, Table!OnSdCard
    <3>6. tableSlots' = [tableSlots EXCEPT ![s].isSDCard = @ \/ Table!OnSdCard(req[t])]
      BY <3>1, <3>3, <3>4, <3>5, Zenon
    <3>7. Table!FirstFree(s)
      BY <1>9, <2>2 DEF FirstFree, Table!FirstFree
    <3>8. pc[t] = "alloc" /\ Goto(t, "addclient") /\ UNCHANGED <<devoptab, fsaVars, owner, req, res>>
      BY <1>10, <2>2 DEF Alloc, FirstFree
    <3> HIDE DEF Slots
    <3> QED
      BY <2>2, <3>6, <3>7, <3>8, Zenon DEF Table!Alloc, Slots
  <2> QED
    BY <1>10, <2>1, <2>2 DEF Alloc
<1>11. ASSUME AddClient(t) PROVE Table!AddClient(t)
  <2>1. pc[t] = "addclient" /\ cur[t] \in Slots
    BY <1>1, <1>11 DEF AddClient
  <2>2. ASSUME NEW v, slots' = [slots EXCEPT ![cur[t]].clientHandle = v]
        PROVE  tableSlots' = [tableSlots EXCEPT ![cur[t]].clientHandle = v]
    BY <2>1, <2>2, HiddenPut
  <2> QED
    BY <1>11, <2>2 DEF AddClient, Table!AddClient
<1>12. ASSUME UnlockClient(t) PROVE Table!UnlockClient(t)
  <2>1. pc[t] = "unlockclient" /\ cur[t] \in Slots
    BY <1>1, <1>12 DEF UnlockClient
  <2>2. ASSUME NEW n, NEW p,
               slots' = [slots EXCEPT ![cur[t]].mounted = FALSE, ![cur[t]].name = n,
                                      ![cur[t]].mountPath = p]
        PROVE  tableSlots' = [tableSlots EXCEPT ![cur[t]].mounted = FALSE,
                                ![cur[t]].name = n, ![cur[t]].mountPath = p]
    <3>1. slots \in [Slots -> UseSlot] /\ slots[cur[t]] \in UseSlot
            /\ tableSlots[cur[t]] = SansCwd(slots[cur[t]])
      BY <1>3, <2>1
    <3>2. slots' = [slots EXCEPT ![cur[t]] = WithStrings(slots[cur[t]], n, p)]
      BY <2>1, <2>2, <3>1 DEF WithStrings
    <3>3. tableSlots' = [tableSlots EXCEPT ![cur[t]] =
                           SansCwd(WithStrings(slots[cur[t]], n, p))]
      BY <2>1, <3>1, <3>2, HiddenSlot
    <3>4. SansCwd(WithStrings(slots[cur[t]], n, p)) = WithStrings(tableSlots[cur[t]], n, p)
      BY <3>1, HiddenStrings
    <3>5. tableSlots \in [Slots -> {SansCwd(m) : m \in UseSlot}]
      BY DEF tableSlots
    <3> QED
      BY <2>1, <3>3, <3>4, <3>5 DEF WithStrings
  <2> QED
    BY <1>2, <1>12, <2>2 DEF UnlockClient, Table!UnlockClient
<1>13. ASSUME FsaMount(t) PROVE Table!FsaMount(t)
  <2>1. pc[t] = "fsamount" /\ cur[t] \in Slots
    BY <1>1, <1>13 DEF FsaMount
  <2>2. ASSUME NEW v, slots' = [slots EXCEPT ![cur[t]].mounted = v]
        PROVE  tableSlots' = [tableSlots EXCEPT ![cur[t]].mounted = v]
    BY <2>1, <2>2, HiddenPut
  <2> QED
    BY <1>2, <1>13, <2>2 DEF FsaMount, Table!FsaMount
<1>14. ASSUME ChangeDir(t) PROVE Table!ChangeDir(t)
  <2>1. pc[t] = "chdir" /\ cur[t] \in Slots
    BY <1>1, <1>14 DEF ChangeDir
  <2>2. ASSUME NEW v, slots' = [slots EXCEPT ![cur[t]].cwd = v]
        PROVE  tableSlots' = tableSlots
    BY <2>1, <2>2, HiddenPut
  <2>3. UNCHANGED tableSlots
    BY <1>2, <1>14, <2>2 DEF ChangeDir
  <2> QED
    BY <1>14, <2>3 DEF ChangeDir, Table!ChangeDir
<1>15. ASSUME GetDeviceInfo(t) PROVE Table!GetDeviceInfo(t)
  <2>1. pc[t] = "deviceinfo" /\ cur[t] \in Slots
    BY <1>1, <1>15 DEF GetDeviceInfo
  <2>2. ASSUME NEW v, slots' = [slots EXCEPT ![cur[t]].deviceSectorSize = v]
        PROVE  tableSlots' = [tableSlots EXCEPT ![cur[t]].deviceSectorSize = v]
    BY <2>1, <2>2, HiddenPut
  <2> QED
    BY <1>15, <2>2 DEF GetDeviceInfo, Table!GetDeviceInfo
<1>16. ASSUME AddDevice(t) PROVE Table!AddDevice(t)
  BY <1>1, <1>2, <1>3, <1>16 DEF AddDevice, Table!AddDevice
<1>17. ASSUME SetUp(t) PROVE Table!SetUp(t)
  <2>1. pc[t] = "setup" /\ cur[t] \in Slots
    BY <1>1, <1>17 DEF SetUp
  <2> QED
    BY <1>17, <2>1, HiddenPut DEF SetUp, Table!SetUp
<1>18. ASSUME FreeUnmount(t) PROVE Table!FreeUnmount(t)
  BY <1>1, <1>2, <1>3, <1>18 DEF FreeUnmount, Table!FreeUnmount
<1>19. ASSUME FreeDelClient(t) PROVE Table!FreeDelClient(t)
  BY <1>1, <1>2, <1>3, <1>19 DEF FreeDelClient, Table!FreeDelClient
<1>20. ASSUME FreeReset(t) PROVE Table!FreeReset(t)
  <2>1. pc[t] = "reset" /\ cur[t] \in Slots
    BY <1>1, <1>20 DEF FreeReset
  <2>2. SansCwd(FreshSlot) = FreshSlot
    BY DEF SansCwd, FreshSlot
  <2>3. tableSlots' = [tableSlots EXCEPT ![cur[t]] = FreshSlot]
    BY <1>20, <2>1, <2>2, HiddenSlot DEF FreeReset
  <2> QED
    BY <1>20, <2>3 DEF FreeReset, Table!FreeReset, FreshSlot
<1>21. Matching(t) = Table!Matching(t)
  BY <1>3 DEF Matching, Table!Matching
<1>22. ASSUME FindMount(t) PROVE Table!FindMount(t)
  BY <1>2, <1>21, <1>22 DEF FindMount, Table!FindMount
<1>23. ASSUME RemoveDevice(t) PROVE Table!RemoveDevice(t)
  BY <1>1, <1>2, <1>3, <1>23 DEF RemoveDevice, Table!RemoveDevice
<1> QED
  BY <1>4, <1>5, <1>6, <1>7, <1>8, <1>10, <1>11, <1>12, <1>13, <1>14, <1>15, <1>16,
     <1>17, <1>18, <1>19, <1>20, <1>22, <1>23 DEF Work, Table!Next, Table!Work

\* Assigning to a field of a slot leaves a slot.
LEMMA UseSlotFields ==
  ASSUME NEW m \in UseSlot
  PROVE  /\ \A b \in BOOLEAN :
              /\ [m EXCEPT !.setup = b] \in UseSlot
              /\ [m EXCEPT !.mounted = b] \in UseSlot
              /\ [m EXCEPT !.isSDCard = b] \in UseSlot
         /\ \A c \in Clients \cup {NoClient} : [m EXCEPT !.clientHandle = c] \in UseSlot
         /\ \A size \in SectorSizes \cup {0, 512} :
              [m EXCEPT !.deviceSectorSize = size] \in UseSlot
         /\ \A d \in Paths \cup {RootDir, NoPath, Torn} : [m EXCEPT !.cwd = d] \in UseSlot
         /\ \A n \in Names, p \in Paths : WithStrings(m, n, p) \in UseSlot
<1> USE DEF UseSlot
<1>1. ASSUME NEW n \in Names, NEW p \in Paths PROVE WithStrings(m, n, p) \in UseSlot
  <2> DEFINE k == [setup |-> m.setup, mounted |-> FALSE, isSDCard |-> m.isSDCard,
                   name |-> n, mountPath |-> p, cwd |-> m.cwd,
                   clientHandle |-> m.clientHandle,
                   deviceSectorSize |-> m.deviceSectorSize]
  <2>1. WithStrings(m, n, p) = k
    BY StringsSet
  <2>2. k \in UseSlot
    OBVIOUS
  <2> QED
    BY <2>1, <2>2
<1>2. \A b \in BOOLEAN :
        /\ [m EXCEPT !.setup = b] \in UseSlot
        /\ [m EXCEPT !.mounted = b] \in UseSlot
        /\ [m EXCEPT !.isSDCard = b] \in UseSlot
  OBVIOUS
<1>3. /\ \A c \in Clients \cup {NoClient} : [m EXCEPT !.clientHandle = c] \in UseSlot
      /\ \A size \in SectorSizes \cup {0, 512} :
           [m EXCEPT !.deviceSectorSize = size] \in UseSlot
      /\ \A d \in Paths \cup {RootDir, NoPath, Torn} : [m EXCEPT !.cwd = d] \in UseSlot
  OBVIOUS
<1> QED
  BY <1>1, <1>2, <1>3

\* The steps of the mount table leave slots.
LEMMA SharedTable ==
  ASSUME SharedOK, Table!IInv, NEW t \in Threads,
         CallInvalid(t) \/ CallMount(t) \/ CallUnmount(t) \/ Work(t)
  PROVE  slots' \in [Slots -> UseSlot]
<1> USE ConstantsOK DEF SharedOK
<1>0. cur \in [Threads -> Slots \cup {NoSlot}] /\ req \in [Threads -> Requests \cup {NoReq}]
  BY DEF Table!IInv, Table!TypeOK, Slots, Requests, MountReq, UnmountReq
<1>1. CASE UNCHANGED slots
  BY <1>1
<1>2. ASSUME NEW s \in Slots, NEW b \in BOOLEAN,
             \/ slots' = [slots EXCEPT ![s].setup = b]
             \/ slots' = [slots EXCEPT ![s].mounted = b]
             \/ slots' = [slots EXCEPT ![s].isSDCard = b]
      PROVE  slots' \in [Slots -> UseSlot]
  <2>1. slots[s] \in UseSlot
    OBVIOUS
  <2>2. /\ [slots[s] EXCEPT !.setup = b] \in UseSlot
        /\ [slots[s] EXCEPT !.mounted = b] \in UseSlot
        /\ [slots[s] EXCEPT !.isSDCard = b] \in UseSlot
    BY <2>1, UseSlotFields
  <2> QED
    BY <1>2, <2>2
<1>3. CASE Alloc(t) /\ ~UNCHANGED slots
  <2>1. PICK s \in Slots :
          slots' = [slots EXCEPT ![s].isSDCard = @ \/ OnSdCard(req[t])]
    BY <1>3 DEF Alloc
  <2>2. PICK b \in BOOLEAN : b = (slots[s].isSDCard \/ OnSdCard(req[t]))
    BY DEF OnSdCard
  <2>3. slots' = [slots EXCEPT ![s].isSDCard = b]
    BY <2>1, <2>2, Zenon
  <2> QED
    BY <1>2, <2>3
<1>4. CASE ~UNCHANGED slots /\ ~Alloc(t)
  <2>1. \/ AddClient(t) \/ UnlockClient(t) \/ FsaMount(t) \/ ChangeDir(t)
        \/ GetDeviceInfo(t) \/ SetUp(t) \/ FreeReset(t)
    BY <1>4 DEF Work, CallInvalid, CallMount, CallUnmount, InitLibrary, Lock, AddDevice,
                FreeUnmount, FreeDelClient, FindMount, RemoveDevice
  <2>2. cur[t] \in Slots /\ (pc[t] \in MountPCs => req[t] \in MountReq)
    BY <2>1 DEF Table!IInv, Table!CallOK, Table!Critical, Table!MountPCs, Table!FreePCs,
       MountPCs, MountReq, Slots,
       AddClient, UnlockClient, FsaMount, ChangeDir, GetDeviceInfo, SetUp, FreeReset
  <2>3. slots[cur[t]] \in UseSlot
    BY <2>2
  <2>4. CASE AddClient(t)
    <3>1. PICK c \in Clients \cup {NoClient} : slots' = [slots EXCEPT ![cur[t]].clientHandle = c]
      BY <2>4 DEF AddClient
    <3> QED
      BY <2>2, <2>3, <3>1, UseSlotFields
  <2>5. CASE UnlockClient(t)
    <3>1. /\ pc[t] = "unlockclient"
          /\ slots' = [slots EXCEPT ![cur[t]].mounted = FALSE,
                               ![cur[t]].name = NameBuf[req[t].name],
                               ![cur[t]].mountPath = PathBuf[req[t].path]]
      BY <1>4, <2>5 DEF UnlockClient
    <3>2. PICK n \in Names, p \in Paths : n = NameBuf[req[t].name] /\ p = PathBuf[req[t].path]
      BY <2>2, <3>1 DEF MountPCs, MountReq
    <3>3. slots' = [slots EXCEPT ![cur[t]] = WithStrings(slots[cur[t]], n, p)]
      BY <2>2, <3>1, <3>2 DEF WithStrings
    <3> QED
      BY <2>2, <2>3, <3>3, UseSlotFields
  <2>6. CASE FsaMount(t)
    BY <1>2, <1>4, <2>2, <2>6 DEF FsaMount
  <2>7. CASE ChangeDir(t)
    <3>1. slots' = [slots EXCEPT ![cur[t]].cwd = PathBuf[req[t].path]] /\ pc[t] = "chdir"
      BY <1>4, <2>7 DEF ChangeDir
    <3>2. PathBuf[req[t].path] \in Paths
      BY <2>2, <3>1 DEF MountPCs, MountReq
    <3> QED
      BY <2>2, <2>3, <3>1, <3>2, UseSlotFields
  <2>8. CASE GetDeviceInfo(t)
    <3>1. PICK size \in SectorSizes \cup {512} :
            slots' = [slots EXCEPT ![cur[t]].deviceSectorSize = size]
      BY <2>8 DEF GetDeviceInfo
    <3>2. size \in SectorSizes \cup {0, 512}
      OBVIOUS
    <3>3. [slots[cur[t]] EXCEPT !.deviceSectorSize = size] \in UseSlot
      BY <2>3, <3>2 DEF UseSlot
    <3> QED
      BY <2>2, <3>1, <3>3
  <2>9. CASE SetUp(t)
    BY <1>2, <2>2, <2>9 DEF SetUp
  <2>10. CASE FreeReset(t)
    <3>1. FreshSlot \in UseSlot
      BY DEF FreshSlot, UseSlot
    <3> QED
      BY <2>2, <2>10, <3>1 DEF FreeReset
  <2> QED
    BY <2>1, <2>4, <2>5, <2>6, <2>7, <2>8, <2>9, <2>10
<1> QED
  BY <1>1, <1>3, <1>4

\* The file operations write to nothing of the mount table but cwd.
LEMMA SharedUser ==
  ASSUME SharedOK, Table!IInv, NEW u \in Users, UseStep(u)
  PROVE  /\ SharedOK' /\ tableSlots' = tableSlots
         /\ UNCHANGED <<devoptab, owner, pc, req, cur, res, clients, fsMounts>>
         /\ \A s \in Slots : SansCwd(slots'[s]) = SansCwd(slots[s])
<1> USE UseConstantsOK DEF SharedOK, Start, Go, Finish, PutCwd, Sends, Slot
<1>0. devoptab \in [Names -> Slots \cup {NoSlot}]
  BY DEF Table!IInv, Table!TypeOK, Slots
<1>1. use[u] # NoUse => use[u] \in Uses /\ use[u].dev \in Slots
        /\ slots[use[u].dev] \in UseSlot
  BY DEF Uses
<1>2. ASSUME NEW op \in PathOps \cup FileOps, NEW rel \in BOOLEAN, NEW n \in Names,
             Start(u, op, rel, n)
      PROVE  SharedOK'
  <2>1. devoptab[n] \in Slots
    BY <1>0, <1>2
  <2>2. [op |-> op, at |-> "found", name |-> n, rel |-> rel, dev |-> devoptab[n],
         base |-> NoPath] \in Uses
    BY <2>1 DEF Uses
  <2> QED
    BY <1>2, <2>2
<1>4. ASSUME NEW p \in Paths \cup {RootDir, NoPath, Torn}, use[u] # NoUse,
             slots' = [slots EXCEPT ![use[u].dev].cwd = p]
      PROVE  slots' \in [Slots -> UseSlot] /\ tableSlots' = tableSlots
  <2>1. [slots[use[u].dev] EXCEPT !.cwd = p] \in UseSlot
    BY <1>1, <1>4, UseSlotFields
  <2>2. slots' \in [Slots -> UseSlot]
    BY <1>1, <1>4, <2>1
  <2> QED
    BY <1>1, <1>4, <2>2, HiddenPut
<1>5. use[u] # NoUse => \A at \in {"found", "built", "sized", "torn"} :
        [use EXCEPT ![u].at = at] \in [Users -> Uses \cup {NoUse}]
  BY <1>1 DEF Uses
<1>6. SharedOK' /\ tableSlots' = tableSlots
        /\ UNCHANGED <<devoptab, owner, pc, req, cur, res, clients, fsMounts>>
  <2>1. CASE FindByName(u)
    <3>1. PICK op \in PathOps, rel \in BOOLEAN, n \in Names : Start(u, op, rel, n)
      BY <2>1 DEF FindByName
    <3>2. SharedOK'
      BY <1>2, <3>1
    <3> QED
      BY <3>1, <3>2 DEF tableSlots
  <2>2. CASE FindByFile(u)
    <3>1. held[u].name \in Names
      BY <2>2 DEF FindByFile
    <3> QED
      BY <1>2, <2>2, <3>1 DEF FindByFile, tableSlots
  <2>3. CASE LoseFile(u)
    BY <2>3 DEF LoseFile, tableSlots
  <2>4. CASE BuildPath(u)
    <3>1. use' \in [Users -> Uses \cup {NoUse}]
      BY <1>1, <2>4 DEF BuildPath, Uses, UseSlot
    <3> QED
      BY <2>4, <3>1 DEF BuildPath, tableSlots
  <2>5. CASE Send(u)
    <3>1. use' \in [Users -> Uses \cup {NoUse}]
      BY <1>5, <2>5 DEF Send
    <3>2. [name |-> use[u].name, client |-> Slot(u).clientHandle]
            \in [name : Names, client : Clients \cup {NoClient}]
      BY <1>1, <2>5 DEF Send, Uses, UseSlot
    <3>3. held' \in [Users -> [name : Names, client : Clients \cup {NoClient}] \cup {NoFile}]
      BY <2>5, <3>2 DEF Send
    <3> QED
      BY <2>5, <3>1, <3>3 DEF Send, tableSlots
  <2>6. CASE Divide(u)
    BY <2>6 DEF Divide, tableSlots
  <2>7. CASE TearCwd(u)
    BY <1>4, <1>5, <2>7 DEF TearCwd
  <2>8. CASE WriteCwd(u)
    <3>1. use[u].base \in Paths \cup {RootDir, NoPath, Torn}
      BY <1>1, <2>8 DEF WriteCwd, Uses
    <3> QED
      BY <1>4, <2>8, <3>1 DEF WriteCwd
  <2> QED
    BY <2>1, <2>2, <2>3, <2>4, <2>5, <2>6, <2>7, <2>8 DEF UseStep
<1>7. \A s \in Slots : SansCwd(slots'[s]) = SansCwd(slots[s])
  BY <1>6 DEF tableSlots
<1> QED
  BY <1>6, <1>7

\* Without cwd, the mount table goes on under its users as it would alone.
LEMMA SharedStart == UseInit => SharedOK /\ Table!Init
<1> SUFFICES ASSUME UseInit PROVE SharedOK /\ Table!Init
  OBVIOUS
<1> USE DEF UseInit, Init
<1>1. FreshSlot \in UseSlot /\ SansCwd(FreshSlot) = FreshSlot
  BY DEF FreshSlot, UseSlot, SansCwd
<1>2. slots = [s \in Slots |-> FreshSlot]
  OBVIOUS
<1>3. slots \in [Slots -> UseSlot] /\ tableSlots = [s \in Slots |-> FreshSlot]
  BY <1>1, <1>2 DEF tableSlots
<1>4. tableSlots = [s \in Table!Slots |-> Table!FreshSlot]
  BY <1>3 DEF FreshSlot, Slots
<1> QED
  BY <1>3, <1>4 DEF SharedOK, Table!Init

LEMMA SharedStep ==
  SharedOK /\ Table!IInv /\ [UseNext]_<<vars, useVars>>
    => SharedOK' /\ [Table!Next]_(Table!vars)
<1> SUFFICES ASSUME SharedOK, Table!IInv, [UseNext]_<<vars, useVars>>
             PROVE  SharedOK' /\ [Table!Next]_(Table!vars)
  OBVIOUS
<1>1. ASSUME NEW u \in Users, UseStep(u) PROVE SharedOK' /\ [Table!Next]_(Table!vars)
  BY <1>1, SharedUser
<1>2. ASSUME NEW t \in Threads, TableStep(t) PROVE SharedOK' /\ [Table!Next]_(Table!vars)
  <2>1. CallInvalid(t) \/ CallMount(t) \/ CallUnmount(t) \/ Work(t)
    BY <1>2 DEF TableStep, MountCalled, UnmountCalled
  <2>2. UNCHANGED useVars
    BY <1>2 DEF TableStep
  <2>3. Table!Next
    BY <2>1, TableSteps
  <2>4. slots' \in [Slots -> UseSlot]
    BY <2>1, SharedTable
  <2> QED
    BY <2>2, <2>3, <2>4 DEF SharedOK, useVars
<1>3. CASE UNCHANGED <<vars, useVars>>
  BY <1>3 DEF SharedOK, useVars, tableSlots
<1> QED
  BY <1>1, <1>2, <1>3 DEF UseNext

LEMMA SharedInvariance == UseSpec => [](SharedOK /\ Table!IInv)
<1>1. UseInit => SharedOK /\ Table!IInv
  BY SharedStart, TableConstants, Table!InitInv
<1>2. SharedOK /\ Table!IInv /\ [UseNext]_<<vars, useVars>> => SharedOK' /\ Table!IInv'
  BY SharedStep, TableConstants, Table!InvStep
<1> QED
  BY <1>1, <1>2, PTL DEF UseSpec

\* Whether or not callers keep anything apart, a file operation never disturbs
\* the mount table: hiding cwd, what happens to it is what MountTable allows.
THEOREM UsersLeaveTheTable ==
  UseSpec => Table!Init /\ [][Table!Next]_(Table!vars)
<1>1. UseInit => Table!Init
  BY SharedStart
<1>2. SharedOK /\ Table!IInv /\ [UseNext]_<<vars, useVars>> => [Table!Next]_(Table!vars)
  BY SharedStep
<1> QED
  BY <1>1, <1>2, SharedInvariance, PTL DEF UseSpec

\* What is hidden is cwd only.
LEMMA SlotFacts ==
  \A s \in Slots :
    /\ tableSlots[s].setup = slots[s].setup
    /\ tableSlots[s].mounted = slots[s].mounted
    /\ tableSlots[s].isSDCard = slots[s].isSDCard
    /\ tableSlots[s].name = slots[s].name
    /\ tableSlots[s].mountPath = slots[s].mountPath
    /\ tableSlots[s].clientHandle = slots[s].clientHandle
    /\ tableSlots[s].deviceSectorSize = slots[s].deviceSectorSize
BY DEF tableSlots, SansCwd

\* Files in use or not, with the conditions of NothingIsLeaked the service holds
\* between calls what the set-up slots use, and nothing else.
THEOREM UseLeaksNothing ==
  ASSUME "UnlockFSClient" \notin MayFail, "Unmount" \notin MayFail,
         \A p \in Paths : PathBuf[p] = p
  PROVE  UseSpec => []NoLeak
<1>1. UseInit => Table!LeakInv
  BY SharedStart, TableConstants, Table!LeakInit
<1>2. Table!IInv /\ Table!LeakInv /\ [Table!Next]_(Table!vars) => Table!LeakInv'
  BY TableConstants, Table!LeakStep
<1>3. Table!IInv /\ Table!LeakInv => NoLeak
  <2>1. Table!IInv /\ Table!LeakInv => Table!NoLeak
    BY TableConstants, Table!NothingLeaks
  <2>2. Table!NoLeak => NoLeak
    <3>1. {s \in Slots : tableSlots[s].setup} = {s \in Slots : slots[s].setup}
      BY SlotFacts
    <3> DEFINE inUse == {s \in Slots : slots[s].setup}
    <3>2. {tableSlots[s].clientHandle : s \in inUse} = {slots[s].clientHandle : s \in inUse}
      BY SlotFacts
    <3>3. {tableSlots[s].mountPath : s \in {u \in inUse : tableSlots[u].mounted}}
            = {slots[s].mountPath : s \in {u \in inUse : slots[u].mounted}}
      BY SlotFacts
    <3> QED
      BY <3>1, <3>2, <3>3 DEF Table!NoLeak, NoLeak, Slots
  <2> QED
    BY <2>1, <2>2
<1> QED
  BY <1>1, <1>2, <1>3, SharedInvariance, UsersLeaveTheTable, PTL DEF UseSpec

\* Files in use or not, with the condition of SdFlagIsExact a mount is marked as
\* one on the SD card exactly if it is.
THEOREM UseSdFlagIsExact ==
  ASSUME "UnlockFSClient" \notin MayFail
  PROVE  UseSpec => []SdFlagExact
<1>1. UseInit => Table!SdOK
  BY SharedStart, TableConstants, Table!SdInit
<1>2. Table!IInv /\ Table!SdOK /\ [Table!Next]_(Table!vars) => Table!SdOK'
  BY TableConstants, Table!SdStep
<1>3. Table!IInv /\ Table!SdOK => SdFlagExact
  <2> SUFFICES ASSUME Table!IInv, Table!SdOK, NEW t \in Threads, pc[t] = "setup"
               PROVE  slots[cur[t]].isSDCard <=> OnSdCard(req[t])
    BY DEF SdFlagExact
  <2>1. cur[t] \in Slots
    BY DEF Table!IInv, Table!CallOK, Table!Critical, Table!MountPCs, Slots
  <2>2. tableSlots[cur[t]].isSDCard <=> Table!OnSdCard(req[t])
    BY DEF Table!SdOK, Table!MountPCs
  <2> QED
    BY <2>1, <2>2, SlotFacts DEF OnSdCard, Table!OnSdCard
<1> QED
  BY <1>1, <1>2, <1>3, SharedInvariance, UsersLeaveTheTable, PTL DEF UseSpec

-----------------------------------------------------------------------------
(* A slot in use stays what it is.                                         *)

\* What the operations rely on in the mount table.
TableOK ==
  /\ devoptab \in [Names -> Slots \cup {NoSlot}]
  /\ pc \in [Threads -> Critical \cup {"idle", "initlib", "lock"}]
  /\ req \in [Threads -> Requests \cup {NoReq}]
  /\ cur \in [Threads -> Slots \cup {NoSlot}]
  /\ clients \subseteq Clients
  /\ CallOK /\ LockOK /\ FreeOK /\ ListedOK /\ ClientsOwned
  /\ \A n \in Names : devoptab[n] # NoSlot => slots[devoptab[n]].name = n
  /\ \A t \in Threads :
       /\ pc[t] \in MountPCs \ {"alloc"} => ~slots[cur[t]].setup
       /\ pc[t] \in {"fsamount", "chdir", "deviceinfo", "adddevice", "setup"} =>
            /\ slots[cur[t]].name = NameBuf[req[t].name]
            /\ slots[cur[t]].mountPath = PathBuf[req[t].path]
            /\ slots[cur[t]].clientHandle # NoClient
       /\ pc[t] \in {"adddevice", "setup"} => slots[cur[t]].deviceSectorSize # 0

LEMMA TableFacts == Table!IInv => TableOK
<1> SUFFICES ASSUME Table!IInv PROVE TableOK
  OBVIOUS
<1> USE DEF Table!IInv, Critical, Table!Critical, MountPCs, Table!MountPCs, FreePCs,
        Table!FreePCs, MountReq, UnmountReq, Requests, Slots, Results, Table!Results,
        MountErrors, Table!MountErrors
<1>1. /\ devoptab \in [Names -> Slots \cup {NoSlot}]
      /\ pc \in [Threads -> Critical \cup {"idle", "initlib", "lock"}]
      /\ req \in [Threads -> Requests \cup {NoReq}]
      /\ cur \in [Threads -> Slots \cup {NoSlot}]
      /\ clients \subseteq Clients
  BY DEF Table!TypeOK
<1>2. CallOK
  BY DEF CallOK, Table!CallOK
<1>3. LockOK
  BY DEF LockOK, Table!LockOK
<1>4. FreeOK
  BY <1>2, SlotFacts DEF FreeOK, Table!FreeOK, CallOK
<1>5. ListedOK
  BY <1>1, SlotFacts DEF ListedOK, Table!ListedOK
<1>6. ClientsOwned
  BY SlotFacts DEF ClientsOwned, Table!ClientsOwned
<1>7. \A n \in Names : devoptab[n] # NoSlot => slots[devoptab[n]].name = n
  BY <1>1, SlotFacts DEF Table!PublishedDeviceReady
<1>8. ASSUME NEW t \in Threads
      PROVE  /\ pc[t] \in MountPCs \ {"alloc"} => ~slots[cur[t]].setup
             /\ pc[t] \in {"fsamount", "chdir", "deviceinfo", "adddevice", "setup"} =>
                  /\ slots[cur[t]].name = NameBuf[req[t].name]
                  /\ slots[cur[t]].mountPath = PathBuf[req[t].path]
                  /\ slots[cur[t]].clientHandle # NoClient
             /\ pc[t] \in {"adddevice", "setup"} => slots[cur[t]].deviceSectorSize # 0
  BY <1>2, SlotFacts DEF CallOK, Table!WorkOK
<1> QED
  BY <1>1, <1>2, <1>3, <1>4, <1>5, <1>6, <1>7, <1>8 DEF TableOK

\* A slot that newlib's list may lead to: it is set up, or just about to be.
Live(s) == slots[s].setup \/ \E t \in Threads : pc[t] = "setup" /\ cur[t] = s

Unfreed(s) == \A t \in Threads : pc[t] \in FreePCs => cur[t] # s

Same(m1, m) ==
  /\ m1.name = m.name /\ m1.mountPath = m.mountPath /\ m1.cwd = m.cwd
  /\ m1.clientHandle = m.clientHandle /\ m1.deviceSectorSize = m.deviceSectorSize

\* Until fsa_free reaches a live slot, no mount or unmount changes it.
LEMMA LiveStep ==
  ASSUME SharedOK, TableOK, NEW t \in Threads,
         CallInvalid(t) \/ CallMount(t) \/ CallUnmount(t) \/ Work(t),
         NEW s \in Slots, Live(s), Unfreed(s)
  PROVE  Live(s)' /\ Same(slots'[s], slots[s])
<1> USE DEF SharedOK, TableOK, Live, Unfreed, Same, Critical, MountPCs, FreePCs
<1>0. ASSUME NEW u \in Threads, pc[u] \in Critical
      PROVE  \A v \in Threads \ {u} : pc[v] \notin Critical
  BY <1>0 DEF LockOK
<1>1. CASE SetUp(t)
  <2>1. pc[t] = "setup" /\ cur[t] \in Slots /\ slots' = [slots EXCEPT ![cur[t]].setup = TRUE]
    BY <1>1 DEF SetUp, CallOK
  <2>2. slots'[cur[t]].setup /\ Same(slots'[cur[t]], slots[cur[t]])
    BY <2>1 DEF UseSlot
  <2>3. \A u \in Slots \ {cur[t]} : slots'[u] = slots[u]
    BY <2>1
  <2>4. CASE cur[t] = s
    BY <2>2, <2>4
  <2>5. CASE cur[t] # s
    <3>1. slots[s].setup
      BY <1>0, <2>1, <2>5
    <3> QED
      BY <2>3, <2>5, <3>1
  <2> QED
    BY <2>4, <2>5
<1>2. CASE ~SetUp(t)
  <2>1. slots'[s] = slots[s]
    <3>1. CASE UNCHANGED slots
      BY <3>1
    <3>2. CASE ~UNCHANGED slots
      <4>1. \/ Alloc(t) \/ AddClient(t) \/ UnlockClient(t) \/ FsaMount(t) \/ ChangeDir(t)
            \/ GetDeviceInfo(t) \/ FreeReset(t)
        BY <1>2, <3>2 DEF Work, CallInvalid, CallMount, CallUnmount, InitLibrary, Lock,
           AddDevice, FreeUnmount, FreeDelClient, FindMount, RemoveDevice
      <4>2. CASE Alloc(t)
        <5>1. PICK c \in Slots :
                ~slots[c].setup /\ slots' = [slots EXCEPT ![c].isSDCard = @ \/ OnSdCard(req[t])]
          BY <3>2, <4>2 DEF Alloc, FirstFree, FreeSlots
        <5>2. pc[t] = "alloc"
          BY <4>2 DEF Alloc
        <5>3. slots[s].setup
          BY <1>0, <5>2
        <5> QED
          BY <5>1, <5>3
      <4>3. CASE FreeReset(t)
        BY <4>3 DEF FreeReset
      <4>4. CASE ~Alloc(t) /\ ~FreeReset(t)
        <5>1. pc[t] \in MountPCs \ {"alloc", "setup"}
          BY <4>1, <4>4 DEF AddClient, UnlockClient, FsaMount, ChangeDir, GetDeviceInfo
        <5>2. slots[s].setup
          BY <1>0, <5>1
        <5>3. cur[t] # s
          BY <5>1, <5>2
        <5> QED
          BY <4>1, <4>4, <5>3 DEF AddClient, UnlockClient, FsaMount, ChangeDir, GetDeviceInfo
      <4> QED
        BY <4>2, <4>3, <4>4
    <3> QED
      BY <3>1, <3>2
  <2>2. ASSUME NEW v \in Threads, pc[v] = "setup" PROVE pc'[v] = "setup" /\ cur'[v] = cur[v]
    <3>1. v # t
      BY <1>2, <2>2 DEF Work, CallInvalid, CallMount, CallUnmount, InitLibrary, Lock, Alloc,
         AddClient, UnlockClient, FsaMount, ChangeDir, GetDeviceInfo,
         AddDevice, FreeUnmount, FreeDelClient, FreeReset, FindMount, RemoveDevice
    <3>2. pc'[v] = pc[v] /\ cur'[v] = cur[v]
      <4>1. pc' = pc \/ \E x : pc' = [pc EXCEPT ![t] = x]
        BY <1>2 DEF Work, CallInvalid, CallMount, CallUnmount, InitLibrary, Lock, Alloc,
           AddClient, UnlockClient, FsaMount, ChangeDir, GetDeviceInfo,
           AddDevice, FreeUnmount, FreeDelClient, FreeReset, FindMount, RemoveDevice
      <4>2. cur' = cur \/ \E x : cur' = [cur EXCEPT ![t] = x]
        BY <1>2 DEF Work, CallInvalid, CallMount, CallUnmount, InitLibrary, Lock, Alloc,
           AddClient, UnlockClient, FsaMount, ChangeDir, GetDeviceInfo,
           AddDevice, FreeUnmount, FreeDelClient, FreeReset, FindMount, RemoveDevice
      <4> QED
        BY <3>1, <4>1, <4>2
    <3> QED
      BY <2>2, <3>2
  <2> QED
    BY <2>1, <2>2
<1> QED
  BY <1>1, <1>2

\* A call is pending from its start on.
LEMMA PendingStep ==
  ASSUME NEW t \in Threads, TableOK,
         CallInvalid(t) \/ MountCalled(t) \/ UnmountCalled(t) \/ Work(t),
         NEW op, NEW n, Pending(op, n)'
  PROVE  \/ Pending(op, n)
         \/ MountCalled(t) /\ op = "mount" /\ n = NameBuf[req'[t].name]
         \/ UnmountCalled(t) /\ op = "unmount" /\ n = NameBuf[req'[t].name]
<1> USE DEF TableOK, Pending
<1>1. PICK v \in Threads :
        req'[v] # NoReq /\ req'[v].op = op /\ NameBuf[req'[v].name] = n
  OBVIOUS
<1>2. CASE MountCalled(t)
  BY <1>1, <1>2, ConstantFacts DEF MountCalled, CallMount
<1>3. CASE UnmountCalled(t)
  BY <1>1, <1>3, ConstantFacts DEF UnmountCalled, CallUnmount
<1>4. CASE CallInvalid(t) \/ Work(t)
  <2>1. req' = req \/ req' = [req EXCEPT ![t] = NoReq]
    BY <1>4 DEF Work, CallInvalid, InitLibrary, Lock, Alloc,
       AddClient, UnlockClient, FsaMount, ChangeDir, GetDeviceInfo, AddDevice, SetUp,
       FreeUnmount, FreeDelClient, FreeReset, FindMount, RemoveDevice
  <2>2. req'[v] = req[v]
    BY <1>1, <2>1
  <2> QED
    BY <1>1, <2>2
<1> QED
  BY <1>2, <1>3, <1>4

\* newlib's list changes for a name only while a mount or an unmount of it runs.
LEMMA ListStep ==
  ASSUME NEW t \in Threads, TableOK,
         CallInvalid(t) \/ CallMount(t) \/ CallUnmount(t) \/ Work(t),
         NEW n \in Names, devoptab'[n] # devoptab[n]
  PROVE  \/ Pending("mount", n)
         \/ devoptab'[n] = NoSlot /\ (NameBuf[n] = n => Pending("unmount", n))
<1> USE ConstantFacts DEF TableOK, Pending, CallOK, Critical, MountPCs, FreePCs
<1>1. AddDevice(t) \/ RemoveDevice(t)
  BY DEF Work, CallInvalid, CallMount, CallUnmount, InitLibrary, Lock, Alloc,
     AddClient, UnlockClient, FsaMount, ChangeDir, GetDeviceInfo, SetUp,
     FreeUnmount, FreeDelClient, FreeReset, FindMount
<1>2. CASE AddDevice(t)
  <2>1. pc[t] = "adddevice" /\ slots[cur[t]].name = n
    BY <1>2 DEF AddDevice
  <2>2. req[t] \in MountReq /\ NameBuf[req[t].name] = n
    BY <2>1
  <2>3. req[t] # NoReq /\ req[t].op = "mount"
    BY <2>1, <2>2
  <2> QED
    BY <2>2, <2>3
<1>3. CASE RemoveDevice(t)
  <2>1. pc[t] = "removedevice" /\ slots[cur[t]].name = n /\ devoptab'[n] = NoSlot
    BY <1>3 DEF RemoveDevice
  <2>2. req[t] \in UnmountReq /\ req[t].name = n
    BY <2>1 DEF FreeOK
  <2>3. req[t] # NoReq /\ req[t].op = "unmount"
    BY <2>1, <2>2
  <2> QED
    BY <2>1, <2>2, <2>3
<1> QED
  BY <1>1, <1>2, <1>3

\* A set-up slot has a client, a sector size and a name that was cut to fit.
SetupOK ==
  \A s \in Slots : slots[s].setup =>
    /\ slots[s].name \in Names /\ NameBuf[slots[s].name] = slots[s].name
    /\ slots[s].clientHandle # NoClient /\ slots[s].deviceSectorSize # 0

LEMMA LiveFacts ==
  ASSUME SharedOK, TableOK, SetupOK, NEW s \in Slots, Live(s)
  PROVE  /\ slots[s].name \in Names /\ NameBuf[slots[s].name] = slots[s].name
         /\ slots[s].clientHandle # NoClient /\ slots[s].deviceSectorSize # 0
<1>1. CASE slots[s].setup
  BY <1>1 DEF SetupOK
<1>2. ASSUME NEW t \in Threads, pc[t] = "setup", cur[t] = s
      PROVE  /\ slots[s].name \in Names /\ NameBuf[slots[s].name] = slots[s].name
             /\ slots[s].clientHandle # NoClient /\ slots[s].deviceSectorSize # 0
  <2>1. req[t] \in MountReq /\ req[t].name \in Names
    BY <1>2, ConstantFacts DEF TableOK, CallOK, MountPCs
  <2>2. /\ slots[s].name = NameBuf[req[t].name]
        /\ slots[s].clientHandle # NoClient /\ slots[s].deviceSectorSize # 0
    BY <1>2 DEF TableOK
  <2> QED
    BY <2>1, <2>2, ConstantsOK, UseConstantsOK
<1> QED
  BY <1>1, <1>2 DEF Live

LEMMA SetupStep ==
  ASSUME SharedOK, TableOK, SetupOK, NEW t \in Threads,
         CallInvalid(t) \/ CallMount(t) \/ CallUnmount(t) \/ Work(t)
  PROVE  SetupOK'
<1> USE DEF SharedOK, TableOK, Critical, MountPCs, FreePCs
<1> SUFFICES ASSUME NEW s \in Slots, slots'[s].setup
             PROVE  /\ slots'[s].name \in Names /\ NameBuf[slots'[s].name] = slots'[s].name
                    /\ slots'[s].clientHandle # NoClient /\ slots'[s].deviceSectorSize # 0
  BY DEF SetupOK
<1>1. CASE Live(s) /\ Unfreed(s)
  BY <1>1, LiveFacts, LiveStep DEF Same
<1>2. CASE ~Live(s)
  <2>1. ~slots[s].setup
    BY <1>2 DEF Live
  <2>2. ~SetUp(t) \/ cur[t] # s
    BY <1>2 DEF Live, SetUp
  <2>3. ~slots'[s].setup
    <3>1. CASE UNCHANGED slots
      BY <2>1, <3>1
    <3>2. CASE ~UNCHANGED slots
      <4>1. \/ Alloc(t) \/ AddClient(t) \/ UnlockClient(t) \/ FsaMount(t) \/ ChangeDir(t)
            \/ GetDeviceInfo(t) \/ SetUp(t) \/ FreeReset(t)
        BY <3>2 DEF Work, CallInvalid, CallMount, CallUnmount, InitLibrary, Lock,
           AddDevice, FreeUnmount, FreeDelClient, FindMount, RemoveDevice
      <4>2. CASE Alloc(t)
        BY <2>1, <4>2 DEF Alloc, UseSlot
      <4>3. CASE AddClient(t)
        <5>1. PICK v : slots' = [slots EXCEPT ![cur[t]].clientHandle = v]
          BY <3>2, <4>3 DEF AddClient
        <5> QED
          BY <2>1, <5>1 DEF UseSlot
      <4>4. CASE UnlockClient(t)
        BY <2>1, <4>4 DEF UnlockClient, UseSlot
      <4>5. CASE FsaMount(t)
        <5>1. PICK v : slots' = [slots EXCEPT ![cur[t]].mounted = v]
          BY <3>2, <4>5 DEF FsaMount
        <5> QED
          BY <2>1, <5>1 DEF UseSlot
      <4>6. CASE ChangeDir(t)
        BY <2>1, <4>6 DEF ChangeDir, UseSlot
      <4>7. CASE GetDeviceInfo(t)
        <5>1. PICK v : slots' = [slots EXCEPT ![cur[t]].deviceSectorSize = v]
          BY <3>2, <4>7 DEF GetDeviceInfo
        <5> QED
          BY <2>1, <5>1 DEF UseSlot
      <4>8. CASE SetUp(t)
        BY <2>1, <2>2, <4>8 DEF SetUp, UseSlot
      <4>9. CASE FreeReset(t)
        BY <2>1, <4>9 DEF FreeReset, FreshSlot
      <4> QED
        BY <4>1, <4>2, <4>3, <4>4, <4>5, <4>6, <4>7, <4>8, <4>9
    <3> QED
      BY <3>1, <3>2
  <2> QED
    BY <2>3
<1>3. CASE Live(s) /\ ~Unfreed(s)
  <2>1. PICK v \in Threads : pc[v] \in FreePCs /\ cur[v] = s
    BY <1>3 DEF Unfreed
  <2>2. \A u \in Threads \ {v} : pc[u] \notin Critical
    BY <2>1 DEF LockOK
  <2>3. slots[s].setup
    BY <1>3, <2>1, <2>2 DEF Live
  <2>4. slots'[s] = slots[s] \/ slots'[s] = FreshSlot
    <3>1. CASE UNCHANGED slots
      BY <3>1
    <3>2. CASE ~UNCHANGED slots
      <4>1. FreeReset(t)
        BY <2>1, <2>2, <3>2 DEF Work, CallInvalid, CallMount, CallUnmount, InitLibrary,
           Lock, Alloc, AddClient, UnlockClient, FsaMount, ChangeDir, GetDeviceInfo,
           AddDevice, SetUp, FreeUnmount, FreeDelClient, FindMount, RemoveDevice
      <4>2. t = v
        BY <2>2, <4>1 DEF FreeReset
      <4> QED
        BY <2>1, <4>1, <4>2 DEF FreeReset
    <3> QED
      BY <3>1, <3>2
  <2> QED
    BY <2>3, <2>4 DEF SetupOK, FreshSlot
<1> QED
  BY <1>1, <1>2, <1>3

-----------------------------------------------------------------------------
(* What callers keep apart, and what it keeps right.                       *)

\* An operation under way is on a live slot of its name, which no unmount is
\* after; a path is of the slot's mount; an open goes by newlib's list, and an
\* operation on a file by the client that opened it.
UseOK ==
  \A u \in Using :
    /\ ~Pending("unmount", use[u].name)
    /\ Live(use[u].dev) /\ slots[use[u].dev].name = use[u].name
    /\ use[u].at \in {"built", "torn"} =>
         use[u].base \in {slots[use[u].dev].mountPath, RootDir}
    /\ use[u].at = "torn" => use[u].op = "chdir"
    /\ use[u].op \in FileOps => use[u].at = "found"
    /\ use[u].op = "open" =>
         /\ devoptab[use[u].name] = use[u].dev /\ ~Pending("mount", use[u].name)
         /\ held[u] = NoFile
    /\ use[u].op \in FileOps =>
         /\ held[u] # NoFile
         /\ held[u].client = slots[use[u].dev].clientHandle

\* Nobody mounts another device under the name of an open file.
HeldOK ==
  \A u \in Users : held[u] # NoFile =>
    /\ ~Pending("mount", held[u].name) /\ held[u].client # NoClient
    /\ devoptab[held[u].name] # NoSlot =>
         slots[devoptab[held[u].name]].clientHandle = held[u].client

\* Whoever uses the current directory uses it alone, or with others that read it.
Cwd(u) == use[u].rel \/ use[u].op = "chdir"

ChdirAlone ==
  \A u, v \in Using :
    u # v /\ use[u].name = use[v].name /\ Cwd(u) => ~Cwd(v)

\* A current directory is of the mount, but while it is written; a slot that is
\* not in use, or is about to get another mount, has no current directory.
CwdOK ==
  /\ \A s \in Slots : slots[s].cwd \notin {slots[s].mountPath, RootDir} =>
       \E u \in Using : use[u].at = "torn" /\ use[u].dev = s
  /\ \A s \in Slots : ~slots[s].setup /\ Unworked(s) => slots[s].cwd = RootDir
  /\ \A t \in Threads :
       pc[t] \in {"addclient", "unlockclient"} => slots[cur[t]].cwd = RootDir

ApartInv == SetupOK /\ UseOK /\ HeldOK /\ ChdirAlone /\ CwdOK

\* An unmount in fsa_free, or about to get there, is of a slot nobody uses.
LEMMA UsedUnfreed ==
  ASSUME SharedOK, TableOK, SetupOK, UseOK, NEW u \in Using
  PROVE  use[u].dev \in Slots /\ Unfreed(use[u].dev)
<1> USE DEF SharedOK, TableOK
<1>1. use[u] \in Uses /\ use[u].dev \in Slots
  BY DEF Using, Uses
<1> DEFINE s == use[u].dev
<1>2. ~Pending("unmount", use[u].name) /\ Live(s) /\ slots[s].name = use[u].name
  BY DEF UseOK
<1>3. NameBuf[use[u].name] = use[u].name
  BY <1>1, <1>2, LiveFacts
<1>4. ASSUME NEW t \in Threads, pc[t] \in FreePCs, cur[t] = s PROVE FALSE
  <2>1. \A v \in Threads : pc[v] # "setup"
    BY <1>4 DEF LockOK, Critical, FreePCs, MountPCs
  <2>2. slots[s].setup
    BY <1>2, <2>1 DEF Live
  <2>3. req[t] \in UnmountReq /\ req[t].name = slots[s].name
    BY <1>4, <2>2 DEF FreeOK
  <2>4. req[t] # NoReq /\ req[t].op = "unmount"
    BY <2>3, ConstantFacts
  <2> QED
    BY <1>2, <1>3, <2>3, <2>4 DEF Pending
<1> QED
  BY <1>1, <1>4 DEF Unfreed

\* A mount or unmount that callers keep apart from a file operation leaves it be.
LEMMA UseOKTable ==
  ASSUME SharedOK, TableOK, ApartInv, NEW t \in Threads, TableStep(t), Apart
  PROVE  UseOK'
<1> USE DEF SharedOK, ApartInv
<1>0. CallInvalid(t) \/ MountCalled(t) \/ UnmountCalled(t) \/ Work(t)
  BY DEF TableStep
<1>1. CallInvalid(t) \/ CallMount(t) \/ CallUnmount(t) \/ Work(t)
  BY <1>0 DEF MountCalled, UnmountCalled
<1>2. use' = use /\ held' = held /\ Using' = Using
  BY DEF TableStep, useVars, Using
<1>3. ASSUME NEW u \in Using, NEW s \in Slots, NEW n \in Names,
             s = use[u].dev, n = use[u].name
      PROVE  /\ ~Pending("unmount", n)' /\ Live(s)'
             /\ slots'[s].name = n /\ slots'[s].mountPath = slots[s].mountPath
             /\ slots'[s].clientHandle = slots[s].clientHandle
             /\ use[u].op = "open" => devoptab'[n] = s /\ ~Pending("mount", n)'
  <2>1. Live(s) /\ slots[s].name = n /\ NameBuf[n] = n /\ ~Pending("unmount", n)
    BY <1>3, LiveFacts DEF UseOK
  <2>2. Unfreed(s)
    BY <1>3, UsedUnfreed
  <2>3. Live(s)' /\ Same(slots'[s], slots[s])
    BY <1>1, <2>1, <2>2, LiveStep
  <2>4. ~Pending("unmount", n)'
    <3>1. UnmountCalled(t) => NameBuf[req'[t].name] # n
      BY <1>3 DEF UnmountCalled, NamesInUse
    <3> QED
      BY <1>0, <2>1, <3>1, PendingStep
  <2>5. ASSUME use[u].op = "open"
        PROVE  devoptab'[n] = s /\ ~Pending("mount", n)'
    <3>1. devoptab[n] = s /\ ~Pending("mount", n)
      BY <1>3, <2>5 DEF UseOK
    <3>2. devoptab'[n] = devoptab[n]
      BY <1>1, <2>1, <3>1, ListStep
    <3>3. n \in NamesOpen
      BY <1>3, <2>5 DEF NamesOpen
    <3>4. MountCalled(t) => NameBuf[req'[t].name] # n
      BY <3>3 DEF MountCalled
    <3> QED
      BY <1>0, <3>1, <3>2, <3>4, PendingStep
  <2> QED
    BY <2>1, <2>3, <2>4, <2>5 DEF Same
<1>4. \A u \in Using : use[u].dev \in Slots /\ use[u].name \in Names
  BY DEF Using, Uses
<1> QED
  BY <1>2, <1>3, <1>4 DEF UseOK, Live, Pending

\* It leaves open files with their client, and takes their device off the list
\* at most.
LEMMA HeldOKTable ==
  ASSUME SharedOK, TableOK, ApartInv, NEW t \in Threads, TableStep(t), Apart
  PROVE  HeldOK'
<1> USE DEF SharedOK, ApartInv
<1>0. CallInvalid(t) \/ MountCalled(t) \/ UnmountCalled(t) \/ Work(t)
  BY DEF TableStep
<1>1. CallInvalid(t) \/ CallMount(t) \/ CallUnmount(t) \/ Work(t)
  BY <1>0 DEF MountCalled, UnmountCalled
<1>2. held' = held
  BY DEF TableStep, useVars
<1>3. ASSUME NEW u \in Users, NEW n \in Names, held[u] # NoFile, n = held[u].name
      PROVE  /\ ~Pending("mount", n)'
             /\ devoptab'[n] # NoSlot => slots'[devoptab'[n]].clientHandle = held[u].client
  <2>1. /\ ~Pending("mount", n)
        /\ devoptab[n] # NoSlot => slots[devoptab[n]].clientHandle = held[u].client
    BY <1>3 DEF HeldOK
  <2>2. n \in NamesOpen
    BY <1>3 DEF NamesOpen
  <2>3. MountCalled(t) => NameBuf[req'[t].name] # n
    BY <2>2 DEF MountCalled
  <2>4. ~Pending("mount", n)'
    BY <1>0, <2>1, <2>3, PendingStep
  <2>5. ASSUME NEW s \in Slots, devoptab'[n] = s
        PROVE  slots'[s].clientHandle = held[u].client
    <3>1. devoptab[n] = s
      BY <1>1, <2>1, <2>5, ListStep, ConstantFacts
    <3>2. s # NoSlot
      BY ConstantFacts
    <3>3. Live(s) /\ Unfreed(s)
      <4>1. CASE slots[s].setup /\ \A v \in Threads : pc[v] \in FreePCs => cur[v] # s
        BY <4>1 DEF Live, Unfreed
      <4>2. ASSUME NEW v \in Threads, pc[v] = "setup", cur[v] = s
            PROVE  Live(s) /\ Unfreed(s)
        <5>1. \A w \in Threads : pc[w] \notin FreePCs
          BY <4>2 DEF TableOK, LockOK, Critical, MountPCs, FreePCs
        <5> QED
          BY <4>2, <5>1 DEF Live, Unfreed
      <4> QED
        BY <3>1, <3>2, <4>1, <4>2 DEF TableOK, ListedOK
    <3>4. Same(slots'[s], slots[s])
      BY <1>1, <3>3, LiveStep
    <3> QED
      BY <2>1, <3>1, <3>2, <3>4 DEF Same
  <2>6. devoptab'[n] \in Slots \cup {NoSlot}
    <3>1. PICK v : v = devoptab'[n]
      OBVIOUS
    <3>2. CASE devoptab'[n] = devoptab[n]
      BY <3>2 DEF TableOK
    <3>3. CASE devoptab'[n] # devoptab[n]
      BY <1>1, <2>1, <3>3, ListStep
    <3> QED
      BY <3>2, <3>3
  <2> QED
    BY <2>4, <2>5, <2>6
<1>4. \A u \in Users : held[u] # NoFile => held[u].name \in Names /\ held[u].client # NoClient
  BY DEF HeldOK
<1> QED
  BY <1>2, <1>3, <1>4 DEF HeldOK, Pending

\* A step of one thread leaves the others' calls alone.
LEMMA OthersKept ==
  ASSUME TableOK, NEW t \in Threads,
         CallInvalid(t) \/ CallMount(t) \/ CallUnmount(t) \/ Work(t), NEW v \in Threads, v # t
  PROVE  pc'[v] = pc[v] /\ cur'[v] = cur[v]
<1>1. pc' = pc \/ \E x : pc' = [pc EXCEPT ![t] = x]
  BY DEF Work, CallInvalid, CallMount, CallUnmount, InitLibrary, Lock, Alloc,
     AddClient, UnlockClient, FsaMount, ChangeDir, GetDeviceInfo, SetUp,
     AddDevice, FreeUnmount, FreeDelClient, FreeReset, FindMount, RemoveDevice
<1>2. cur' = cur \/ \E x : cur' = [cur EXCEPT ![t] = x]
  BY DEF Work, CallInvalid, CallMount, CallUnmount, InitLibrary, Lock, Alloc,
     AddClient, UnlockClient, FsaMount, ChangeDir, GetDeviceInfo, SetUp,
     AddDevice, FreeUnmount, FreeDelClient, FreeReset, FindMount, RemoveDevice
<1> QED
  BY <1>1, <1>2 DEF TableOK

\* A slot goes out of use in FreeReset only.
LEMMA SetupKept ==
  ASSUME SharedOK, TableOK, NEW t \in Threads,
         CallInvalid(t) \/ CallMount(t) \/ CallUnmount(t) \/ Work(t),
         NEW s \in Slots, slots[s].setup, ~slots'[s].setup
  PROVE  FreeReset(t) /\ cur[t] = s
<1>1. Live(s)
  BY DEF Live
<1>2. CASE Unfreed(s)
  <2>1. Live(s)'
    BY <1>1, <1>2, LiveStep
  <2>2. PICK v \in Threads : pc'[v] = "setup" /\ cur'[v] = s
    BY <2>1 DEF Live
  <2>3. v # t => pc[v] = "setup" /\ cur[v] = s
    BY <2>2, OthersKept
  <2>4. v # t
    <3>1. ASSUME v = t PROVE AddDevice(t)
      BY <2>2, <3>1 DEF Work, CallInvalid, CallMount, CallUnmount, InitLibrary, Lock, Alloc,
         AddClient, UnlockClient, FsaMount, ChangeDir, GetDeviceInfo, SetUp,
         FreeUnmount, FreeDelClient, FreeReset, FindMount, RemoveDevice, TableOK
    <3> QED
      BY <3>1 DEF AddDevice
  <2> QED
    BY <2>3, <2>4 DEF TableOK, MountPCs
<1>3. CASE ~Unfreed(s)
  <2>1. PICK v \in Threads : pc[v] \in FreePCs /\ cur[v] = s
    BY <1>3 DEF Unfreed
  <2>2. \A u \in Threads \ {v} : pc[u] \notin Critical
    BY <2>1 DEF TableOK, LockOK, Critical
  <2>3. FreeReset(t)
    BY <2>1, <2>2 DEF Work, CallInvalid, CallMount, CallUnmount, InitLibrary,
       Lock, Alloc, AddClient, UnlockClient, FsaMount, ChangeDir, GetDeviceInfo,
       AddDevice, SetUp, FreeUnmount, FreeDelClient, FindMount, RemoveDevice,
       Critical, MountPCs, FreePCs
  <2> QED
    BY <2>1, <2>2, <2>3 DEF FreeReset, Critical, FreePCs
<1> QED
  BY <1>2, <1>3

\* What a mount or unmount makes of the current directory of a slot.
LEMMA CwdSteps ==
  ASSUME SharedOK, TableOK, NEW t \in Threads,
         CallInvalid(t) \/ CallMount(t) \/ CallUnmount(t) \/ Work(t), NEW s \in Slots
  PROVE  \/ slots'[s].cwd = slots[s].cwd /\ slots'[s].mountPath = slots[s].mountPath
         \/ slots'[s].cwd = RootDir /\ pc[t] = "reset" /\ cur[t] = s
         \/ slots'[s].cwd = slots[s].cwd /\ pc[t] = "unlockclient" /\ cur[t] = s
         \/ /\ slots'[s].cwd = slots'[s].mountPath
            /\ cur[t] = s /\ pc[t] = "chdir" /\ pc' = [pc EXCEPT ![t] = "deviceinfo"]
            /\ cur' = cur
<1> USE DEF SharedOK, TableOK
<1>1. CASE slots'[s] = slots[s]
  BY <1>1
<1>2. CASE slots'[s] # slots[s]
  <2>1. \/ Alloc(t) \/ AddClient(t) \/ UnlockClient(t) \/ FsaMount(t) \/ ChangeDir(t)
        \/ GetDeviceInfo(t) \/ SetUp(t) \/ FreeReset(t)
    BY <1>2 DEF Work, CallInvalid, CallMount, CallUnmount, InitLibrary, Lock,
       AddDevice, FreeUnmount, FreeDelClient, FindMount, RemoveDevice
  <2>2. CASE Alloc(t)
    <3>1. PICK c \in Slots : \E v : slots' = [slots EXCEPT ![c].isSDCard = v]
      BY <1>2, <2>2 DEF Alloc
    <3> QED
      BY <3>1 DEF UseSlot
  <2>3. CASE AddClient(t)
    <3>1. PICK v : slots' = [slots EXCEPT ![cur[t]].clientHandle = v]
      BY <2>3 DEF AddClient
    <3> QED
      BY <3>1 DEF UseSlot
  <2>4. CASE UnlockClient(t)
    <3>1. pc[t] = "unlockclient" /\ cur[t] = s
      BY <1>2, <2>4 DEF UnlockClient
    <3>2. slots' = [slots EXCEPT ![cur[t]].mounted = FALSE,
                                 ![cur[t]].name = NameBuf[req[t].name],
                                 ![cur[t]].mountPath = PathBuf[req[t].path]]
      BY <1>2, <2>4 DEF UnlockClient
    <3>3. slots'[s].cwd = slots[s].cwd
      BY <3>2 DEF UseSlot
    <3> QED
      BY <3>1, <3>3
  <2>5. CASE FsaMount(t)
    <3>1. PICK v : slots' = [slots EXCEPT ![cur[t]].mounted = v]
      BY <1>2, <2>5 DEF FsaMount
    <3> QED
      BY <3>1 DEF UseSlot
  <2>6. CASE ChangeDir(t)
    <3>1. /\ slots' = [slots EXCEPT ![cur[t]].cwd = PathBuf[req[t].path]]
          /\ pc[t] = "chdir" /\ pc' = [pc EXCEPT ![t] = "deviceinfo"] /\ cur' = cur
      BY <1>2, <2>6 DEF ChangeDir
    <3>2. cur[t] = s
      BY <1>2, <3>1
    <3>3. slots'[s].cwd = PathBuf[req[t].path] /\ slots'[s].mountPath = slots[s].mountPath
      BY <3>1, <3>2 DEF UseSlot
    <3>4. slots[s].mountPath = PathBuf[req[t].path]
      BY <3>1, <3>2
    <3> QED
      BY <3>1, <3>2, <3>3, <3>4
  <2>7. CASE GetDeviceInfo(t)
    <3>1. PICK v : slots' = [slots EXCEPT ![cur[t]].deviceSectorSize = v]
      BY <2>7 DEF GetDeviceInfo
    <3> QED
      BY <3>1 DEF UseSlot
  <2>8. CASE SetUp(t)
    BY <2>8 DEF SetUp, UseSlot
  <2>9. CASE FreeReset(t)
    BY <1>2, <2>9 DEF FreeReset, FreshSlot
  <2> QED
    BY <2>1, <2>2, <2>3, <2>4, <2>5, <2>6, <2>7, <2>8, <2>9
<1> QED
  BY <1>1, <1>2

\* Mounting and unmounting leave a current directory only to slots in use.
LEMMA CwdOKTable ==
  ASSUME SharedOK, TableOK, ApartInv, NEW t \in Threads, TableStep(t)
  PROVE  CwdOK'
<1> USE DEF SharedOK, TableOK, CallOK, LockOK, ApartInv, CwdOK, Unworked, Critical, MountPCs,
        FreePCs
<1>1. CallInvalid(t) \/ CallMount(t) \/ CallUnmount(t) \/ Work(t)
  BY DEF TableStep, MountCalled, UnmountCalled
<1>2. use' = use /\ Using' = Using
  BY DEF TableStep, useVars, Using
<1>3. ASSUME NEW s \in Slots, slots'[s].cwd \notin {slots'[s].mountPath, RootDir}
      PROVE  slots'[s].cwd = slots[s].cwd /\ slots'[s].mountPath = slots[s].mountPath
  BY <1>1, <1>3, CwdSteps
<1>4. ASSUME NEW s \in Slots, ~slots'[s].setup, Unworked(s)' PROVE slots'[s].cwd = RootDir
  <2>1. CASE slots'[s].cwd # slots[s].cwd
    BY <1>1, <1>4, <2>1, CwdSteps
  <2>2. CASE slots'[s].cwd = slots[s].cwd
    <3>1. CASE ~slots[s].setup /\ Unworked(s)
      BY <2>2, <3>1
    <3>2. CASE slots[s].setup
      <4>1. FreeReset(t) /\ cur[t] = s
        BY <1>1, <1>4, <3>2, SetupKept
      <4> QED
        BY <4>1 DEF FreeReset, FreshSlot
    <3>3. ASSUME NEW v \in Threads, pc[v] \in Critical, cur[v] = s, ~slots[s].setup
          PROVE  slots'[s].cwd = RootDir
      <4>1. pc'[v] \notin Critical \/ cur'[v] # s
        BY <1>4
      <4>2. v = t
        <5>1. v = t \/ (pc'[v] = pc[v] /\ cur'[v] = cur[v])
          BY <1>1, OthersKept
        <5> QED
          BY <3>3, <4>1, <5>1
      <4>3. cur[t] \in Slots
        BY <3>3, <4>2
      <4>4. (UnlockClient(t) /\ pc[t] = "unlockclient") \/ SetUp(t) \/ FreeReset(t)
        BY <1>1, <3>3, <4>1, <4>2, <4>3, ConstantFacts
           DEF Work, CallInvalid, CallMount, CallUnmount, InitLibrary, Lock, Alloc, AddClient,
           UnlockClient, FsaMount, ChangeDir, GetDeviceInfo, AddDevice,
           FreeUnmount, FreeDelClient, FindMount, RemoveDevice
      <4>5. CASE UnlockClient(t) /\ pc[t] = "unlockclient"
        BY <2>2, <3>3, <4>2, <4>5
      <4>6. CASE SetUp(t)
        BY <1>4, <3>3, <4>2, <4>6 DEF SetUp, UseSlot
      <4>7. CASE FreeReset(t)
        BY <3>3, <4>2, <4>7 DEF FreeReset, FreshSlot
      <4> QED
        BY <4>4, <4>5, <4>6, <4>7
    <3> QED
      BY <3>1, <3>2, <3>3
  <2> QED
    BY <2>1, <2>2
<1>5. ASSUME NEW v \in Threads, pc'[v] \in {"addclient", "unlockclient"}
      PROVE  slots'[cur'[v]].cwd = RootDir
  <2>1. CASE v # t
    <3>1. pc'[v] = pc[v] /\ cur'[v] = cur[v]
      BY <1>1, <2>1, OthersKept
    <3>2. pc[t] \notin Critical /\ cur[v] \in Slots
      BY <1>5, <2>1, <3>1
    <3>3. slots'[cur[v]].cwd = slots[cur[v]].cwd
      BY <1>1, <3>2, CwdSteps
    <3> QED
      BY <1>5, <3>1, <3>3
  <2>2. CASE v = t
    <3>1. Alloc(t) \/ AddClient(t)
      BY <1>1, <1>5, <2>2
         DEF Work, CallInvalid, CallMount, CallUnmount, InitLibrary, Lock,
         UnlockClient, FsaMount, ChangeDir, GetDeviceInfo, AddDevice, SetUp,
         FreeUnmount, FreeDelClient, FreeReset, FindMount, RemoveDevice
    <3>2. CASE Alloc(t)
      <4>1. PICK c \in Slots : ~slots[c].setup /\ cur' = [cur EXCEPT ![t] = c] /\ pc[t] = "alloc"
        BY <1>5, <2>2, <3>2 DEF Alloc, FirstFree, FreeSlots
      <4>2. Unworked(c)
        BY <4>1, ConstantFacts
      <4>3. slots[c].cwd = RootDir
        BY <4>1, <4>2
      <4>4. slots'[c].cwd = slots[c].cwd
        BY <1>1, <4>1, CwdSteps
      <4> QED
        BY <2>2, <4>1, <4>3, <4>4
    <3>3. CASE AddClient(t)
      <4>1. pc[t] = "addclient" /\ cur' = cur /\ cur[t] \in Slots
        BY <3>3 DEF AddClient
      <4>2. slots'[cur[t]].cwd = slots[cur[t]].cwd
        BY <1>1, <4>1, CwdSteps
      <4> QED
        BY <2>2, <4>1, <4>2
    <3> QED
      BY <3>1, <3>2, <3>3
  <2> QED
    BY <2>1, <2>2
<1> QED
  BY <1>2, <1>3, <1>4, <1>5

\* A file operation changes no slot but in its cwd, no call, and no other user.
LEMMA UserFrame ==
  ASSUME SharedOK, Table!IInv, NEW u \in Users, UseStep(u)
  PROVE  /\ \A s \in Slots :
              /\ slots'[s].name = slots[s].name /\ slots'[s].mountPath = slots[s].mountPath
              /\ slots'[s].clientHandle = slots[s].clientHandle
              /\ slots'[s].deviceSectorSize = slots[s].deviceSectorSize
              /\ slots'[s].setup = slots[s].setup /\ Live(s)' = Live(s)
              /\ Unworked(s)' = Unworked(s)
         /\ \A op, n : Pending(op, n)' = Pending(op, n)
         /\ UNCHANGED <<devoptab, pc, cur>>
         /\ \A v \in Users \ {u} :
              use'[v] = use[v] /\ held'[v] = held[v] /\ (v \in Using' <=> v \in Using)
<1>1. UNCHANGED <<devoptab, owner, pc, req, cur, res, clients, fsMounts>>
  BY SharedUser
<1>2. ASSUME NEW s \in Slots
      PROVE  /\ slots'[s].name = slots[s].name /\ slots'[s].mountPath = slots[s].mountPath
             /\ slots'[s].clientHandle = slots[s].clientHandle
             /\ slots'[s].deviceSectorSize = slots[s].deviceSectorSize
             /\ slots'[s].setup = slots[s].setup
  BY SharedUser DEF SansCwd
<1>3. ASSUME NEW v \in Users \ {u} PROVE use'[v] = use[v] /\ held'[v] = held[v]
  <2>1. use' = use \/ \E x : use' = [use EXCEPT ![u] = x]
    BY DEF UseStep, FindByName, FindByFile, Start, LoseFile, BuildPath, Send, Divide, TearCwd,
       WriteCwd, Go, Finish, PutCwd
  <2>2. held' = held \/ \E x : held' = [held EXCEPT ![u] = x]
    BY DEF UseStep, FindByName, FindByFile, Start, LoseFile, BuildPath, Send, Divide, TearCwd,
       WriteCwd, PutCwd
  <2> QED
    BY <2>1, <2>2 DEF SharedOK
<1>4. ASSUME NEW s \in Slots PROVE Live(s)' = Live(s) /\ Unworked(s)' = Unworked(s)
  BY <1>1, <1>2 DEF Live, Unworked
<1>5. ASSUME NEW op, NEW n PROVE Pending(op, n)' = Pending(op, n)
  BY <1>1 DEF Pending
<1>6. ASSUME NEW v \in Users \ {u} PROVE v \in Using' <=> v \in Using
  BY <1>3 DEF Using
<1> QED
  BY <1>1, <1>2, <1>3, <1>4, <1>5, <1>6

\* The path an operation is built on is not one that is being written.
LEMMA BaseOfMount ==
  ASSUME SharedOK, ApartInv, NEW u \in Using, use[u].rel, use[u].at = "found"
  PROVE  slots[use[u].dev].cwd \in {slots[use[u].dev].mountPath, RootDir}
<1> USE DEF ApartInv
<1>1. use[u].dev \in Slots
  BY DEF SharedOK, Using, Uses
<1>2. ASSUME NEW v \in Using, use[v].at = "torn", use[v].dev = use[u].dev PROVE FALSE
  <2>1. v # u
    BY <1>2
  <2>2. use[v].name = use[u].name /\ use[v].op = "chdir"
    BY <1>2 DEF UseOK
  <2> QED
    BY <2>1, <2>2 DEF ChdirAlone, Cwd
<1> QED
  BY <1>1, <1>2 DEF CwdOK

\* An operation starts on what newlib's list leads to, or as HeldOK says of its
\* file.
LEMMA UseOKStart ==
  ASSUME SharedOK, TableOK, ApartInv, Apart, NEW u \in Users,
         FindByName(u) \/ FindByFile(u)
  PROVE  \E op \in PathOps \cup FileOps, rel \in BOOLEAN, n \in Names, s \in Slots :
           /\ use[u] = NoUse /\ devoptab[n] = s /\ MayUse(op, rel, n) /\ held' = held
           /\ use' = [use EXCEPT ![u] = [op |-> op, at |-> "found", name |-> n, rel |-> rel,
                                         dev |-> s, base |-> NoPath]]
           /\ Live(s) /\ slots[s].name = n
           /\ op = "open" => held[u] = NoFile
           /\ op \in FileOps => held[u] # NoFile /\ held[u].client = slots[s].clientHandle
<1> USE DEF SharedOK, TableOK, ApartInv
<1>1. PICK op \in PathOps \cup FileOps, rel \in BOOLEAN, n \in Names :
        /\ Start(u, op, rel, n)
        /\ op = "open" => held[u] = NoFile
        /\ op \in FileOps => held[u] # NoFile /\ n = held[u].name
  <2>1. CASE FindByName(u)
    BY <2>1 DEF FindByName, PathOps, FileOps
  <2>2. CASE FindByFile(u)
    <3>1. held[u].name \in Names
      BY <2>2 DEF FindByFile
    <3> QED
      BY <2>2, <3>1 DEF FindByFile, FileOps
  <2> QED
    BY <2>1, <2>2
<1>2. PICK s \in Slots : devoptab[n] = s
  BY <1>1 DEF Start
<1>3. s # NoSlot
  BY ConstantFacts
<1>4. Live(s) /\ slots[s].name = n
  BY <1>2, <1>3 DEF ListedOK, Live
<1>5. op \in FileOps => held[u].client = slots[s].clientHandle
  BY <1>1, <1>2, <1>3 DEF HeldOK
<1> QED
  BY <1>1, <1>2, <1>4, <1>5 DEF Start

LEMMA UseOKUser ==
  ASSUME SharedOK, Table!IInv, TableOK, ApartInv, Apart, NEW u \in Users, UseStep(u)
  PROVE  UseOK'
<1> DEFINE Good(v) ==
             /\ ~Pending("unmount", use[v].name)
             /\ Live(use[v].dev) /\ slots[use[v].dev].name = use[v].name
             /\ use[v].at \in {"built", "torn"} =>
                  use[v].base \in {slots[use[v].dev].mountPath, RootDir}
             /\ use[v].at = "torn" => use[v].op = "chdir"
             /\ use[v].op \in FileOps => use[v].at = "found"
             /\ use[v].op = "open" =>
                  /\ devoptab[use[v].name] = use[v].dev /\ ~Pending("mount", use[v].name)
                  /\ held[v] = NoFile
             /\ use[v].op \in FileOps =>
                  /\ held[v] # NoFile
                  /\ held[v].client = slots[use[v].dev].clientHandle
<1>1. \A v \in Using : Good(v) /\ use[v].dev \in Slots /\ use[v].name \in Names
  BY DEF ApartInv, UseOK, SharedOK, Using, Uses
<1>2. ASSUME NEW v \in Users, v \in Using', v # u PROVE Good(v)'
  <2>1. use'[v] = use[v] /\ held'[v] = held[v] /\ v \in Using
    BY <1>2, UserFrame
  <2>2. PICK s \in Slots, n \in Names : s = use[v].dev /\ n = use[v].name
    BY <1>1, <2>1
  <2>3. /\ Live(s)' = Live(s) /\ \A op : Pending(op, n)' = Pending(op, n)
        /\ slots'[s].name = slots[s].name /\ slots'[s].mountPath = slots[s].mountPath
        /\ slots'[s].clientHandle = slots[s].clientHandle /\ devoptab' = devoptab
    BY UserFrame
  <2>4. Live(use[v].dev)' /\ ~Pending("unmount", use[v].name)'
    BY <1>1, <2>1, <2>2, <2>3 DEF Live, Pending
  <2>5. use[v].op = "open" => ~Pending("mount", use[v].name)'
    BY <1>1, <2>1, <2>2, <2>3 DEF Pending
  <2> QED
    BY <1>1, <2>1, <2>2, <2>3, <2>4, <2>5
<1>3. ASSUME u \in Using' PROVE Good(u)'
  <2>1. CASE FindByName(u) \/ FindByFile(u)
    <3>1. PICK op \in PathOps \cup FileOps, rel \in BOOLEAN, n \in Names, s \in Slots :
            /\ use[u] = NoUse /\ devoptab[n] = s /\ MayUse(op, rel, n) /\ held' = held
            /\ use' = [use EXCEPT ![u] = [op |-> op, at |-> "found", name |-> n,
                                          rel |-> rel, dev |-> s, base |-> NoPath]]
            /\ Live(s) /\ slots[s].name = n
            /\ op = "open" => held[u] = NoFile
            /\ op \in FileOps => held[u] # NoFile /\ held[u].client = slots[s].clientHandle
      BY <2>1, UseOKStart
    <3>2. use'[u] = [op |-> op, at |-> "found", name |-> n, rel |-> rel, dev |-> s,
                     base |-> NoPath]
      BY <3>1 DEF SharedOK
    <3>3. ~Pending("unmount", n) /\ (op = "open" => ~Pending("mount", n))
      BY <3>1 DEF MayUse
    <3>4. /\ Live(s)' = Live(s) /\ \A o : Pending(o, n)' = Pending(o, n)
          /\ slots'[s].name = slots[s].name
          /\ slots'[s].clientHandle = slots[s].clientHandle /\ devoptab' = devoptab
      BY UserFrame
    <3>5. Live(use[u].dev)' /\ ~Pending("unmount", use[u].name)'
      BY <3>1, <3>2, <3>3, <3>4 DEF Live, Pending
    <3>6. op = "open" => ~Pending("mount", use[u].name)'
      BY <3>2, <3>3, <3>4 DEF Pending
    <3> QED
      BY <3>1, <3>2, <3>4, <3>5, <3>6
  <2>2. CASE ~(FindByName(u) \/ FindByFile(u))
    <3>1. u \in Using /\ use[u] \in Uses /\ held' = held
      <4>1. use'[u] # NoUse
        BY <1>3 DEF Using
      <4>2. use[u] # NoUse
        BY <2>2, <4>1 DEF UseStep, LoseFile, BuildPath, Send, Divide, TearCwd, WriteCwd, Sends
      <4>3. held' = held
        BY <2>2, <4>1, <4>2
           DEF UseStep, LoseFile, BuildPath, Send, Divide, TearCwd, WriteCwd, PutCwd, Finish,
               SharedOK
      <4> QED
        BY <4>2, <4>3 DEF Using, SharedOK
    <3>2. PICK s \in Slots, n \in Names : s = use[u].dev /\ n = use[u].name
      BY <1>1, <3>1
    <3>3. /\ Live(s)' = Live(s) /\ \A op : Pending(op, n)' = Pending(op, n)
          /\ slots'[s].name = slots[s].name /\ slots'[s].mountPath = slots[s].mountPath
          /\ slots'[s].clientHandle = slots[s].clientHandle /\ devoptab' = devoptab
      BY UserFrame
    <3>4. /\ use'[u].dev = s /\ use'[u].name = n /\ use'[u].op = use[u].op
          /\ use'[u].at \in {"built", "torn"} => use'[u].base \in {slots[s].mountPath, RootDir}
          /\ use'[u].at = "torn" => use[u].op = "chdir"
          /\ use[u].op \notin FileOps
      <4> USE DEF Uses, SharedOK, Using, PathOps, FileOps
      <4>1. use'[u] # NoUse
        BY <1>3
      <4>2. CASE BuildPath(u)
        <5>1. /\ use[u].at = "found" /\ use[u].op \in PathOps
              /\ use' = [use EXCEPT ![u].at = "built",
                                    ![u].base = IF use[u].rel THEN Slot(u).cwd
                                                              ELSE Slot(u).mountPath]
          BY <4>1, <4>2 DEF BuildPath, Finish
        <5>2. use[u].rel => Slot(u).cwd \in {slots[s].mountPath, RootDir}
          BY <3>1, <3>2, <5>1, BaseOfMount DEF Slot
        <5>3. PICK b : b = IF use[u].rel THEN Slot(u).cwd ELSE Slot(u).mountPath
          OBVIOUS
        <5>4. b \in {slots[s].mountPath, RootDir}
          BY <3>2, <5>2, <5>3 DEF Slot
        <5>5. use'[u] = [use[u] EXCEPT !.at = "built", !.base = b]
          BY <5>1, <5>3
        <5> QED
          BY <3>1, <3>2, <5>1, <5>4, <5>5
      <4>3. CASE Send(u)
        <5>1. use' = [use EXCEPT ![u].at = "sized"] /\ use[u].op = "statvfs"
          BY <4>1, <4>3 DEF Send, Go, Finish
        <5> QED
          BY <3>1, <3>2, <5>1
      <4>4. CASE TearCwd(u)
        <5>1. /\ use' = [use EXCEPT ![u].at = "torn"] /\ use[u].op = "chdir"
              /\ use[u].at = "built"
          BY <4>4 DEF TearCwd, Go, Sends
        <5>2. use[u].base \in {slots[s].mountPath, RootDir}
          BY <1>1, <3>1, <3>2, <5>1
        <5>3. /\ use'[u].dev = use[u].dev /\ use'[u].name = use[u].name
              /\ use'[u].op = use[u].op /\ use'[u].at = "torn" /\ use'[u].base = use[u].base
          BY <3>1, <5>1
        <5> QED
          BY <3>2, <5>1, <5>2, <5>3
      <4> QED
        BY <2>2, <3>1, <4>1, <4>2, <4>3, <4>4
           DEF UseStep, LoseFile, Divide, WriteCwd, Finish
    <3>5. Live(use[u].dev)' /\ ~Pending("unmount", use[u].name)'
      BY <1>1, <3>1, <3>2, <3>3, <3>4 DEF Live, Pending
    <3>6. use[u].op = "open" => ~Pending("mount", use[u].name)'
      BY <1>1, <3>1, <3>2, <3>3, <3>4 DEF Pending
    <3> QED
      BY <1>1, <3>1, <3>2, <3>3, <3>4, <3>5, <3>6
  <2> QED
    BY <2>1, <2>2
<1> QED
  BY <1>2, <1>3 DEF UseOK, Using

\* A file that was opened has the client of the device newlib's list leads to.
LEMMA HeldOKUser ==
  ASSUME SharedOK, Table!IInv, TableOK, ApartInv, Apart, NEW u \in Users, UseStep(u)
  PROVE  HeldOK'
<1> USE DEF ApartInv
<1>1. /\ devoptab' = devoptab /\ \A s \in Slots : slots'[s].clientHandle = slots[s].clientHandle
      /\ \A op, n : Pending(op, n)' = Pending(op, n)
  BY UserFrame
<1>2. ASSUME NEW v \in Users, NEW n \in Names, held'[v] # NoFile, n = held'[v].name
      PROVE  /\ ~Pending("mount", n) /\ held'[v].client # NoClient
             /\ devoptab[n] # NoSlot => slots[devoptab[n]].clientHandle = held'[v].client
  <2>1. CASE held'[v] = held[v]
    BY <1>2, <2>1 DEF HeldOK
  <2>2. CASE held'[v] # held[v]
    <3>1. v = u
      BY <2>2, UserFrame
    <3>2. /\ u \in Using /\ use[u].op = "open"
          /\ held'[u] = [name |-> use[u].name, client |-> Slot(u).clientHandle]
      BY <1>2, <2>2, <3>1
         DEF UseStep, FindByName, FindByFile, Start, LoseFile, BuildPath, Send, Divide, TearCwd,
             WriteCwd, PutCwd, SharedOK, Using, Sends
    <3>3. use[u].dev \in Slots
      BY <3>2 DEF SharedOK, Using, Uses
    <3>4. /\ devoptab[n] = use[u].dev /\ ~Pending("mount", n) /\ Live(use[u].dev)
      BY <1>2, <3>1, <3>2 DEF UseOK
    <3>5. slots[use[u].dev].clientHandle # NoClient
      BY <3>3, <3>4, LiveFacts
    <3> QED
      BY <3>1, <3>2, <3>4, <3>5 DEF Slot
  <2> QED
    BY <2>1, <2>2
<1>3. SharedOK'
  BY SharedUser
<1>4. ASSUME NEW v \in Users, held'[v] # NoFile
      PROVE  /\ ~Pending("mount", held[v].name)' /\ held'[v].client # NoClient
             /\ devoptab'[held'[v].name] # NoSlot =>
                  slots'[devoptab'[held'[v].name]].clientHandle = held'[v].client
  <2>1. PICK n \in Names : n = held'[v].name
    BY <1>3, <1>4 DEF SharedOK
  <2>2. ~Pending("mount", n) /\ held'[v].client # NoClient
    BY <1>2, <1>4, <2>1
  <2>3. Pending("mount", held[v].name)' => Pending("mount", n)
    <3>1. Pending("mount", held[v].name)' => Pending("mount", n)'
      BY <2>1 DEF Pending
    <3> QED
      BY <1>1, <3>1
  <2>4. devoptab[n] \in Slots \cup {NoSlot}
    BY DEF TableOK
  <2> QED
    BY <1>1, <1>2, <1>4, <2>1, <2>2, <2>3, <2>4
<1> QED
  BY <1>4 DEF HeldOK

LEMMA ChdirAloneUser ==
  ASSUME SharedOK, Table!IInv, TableOK, ApartInv, Apart, NEW u \in Users, UseStep(u)
  PROVE  ChdirAlone'
<1> USE DEF ApartInv
<1>1. \A v \in Users \ {u} : use'[v] = use[v] /\ (v \in Using' <=> v \in Using)
  BY UserFrame
<1>2. CASE FindByName(u) \/ FindByFile(u)
  <2>1. PICK op \in PathOps \cup FileOps, rel \in BOOLEAN, n \in Names, s \in Slots :
          /\ use[u] = NoUse /\ MayUse(op, rel, n)
          /\ use' = [use EXCEPT ![u] = [op |-> op, at |-> "found", name |-> n,
                                        rel |-> rel, dev |-> s, base |-> NoPath]]
    BY <1>2, UseOKStart
  <2>2. use'[u].op = op /\ use'[u].rel = rel /\ use'[u].name = n
    BY <2>1 DEF SharedOK
  <2>3. ASSUME NEW v \in Using, use[v].name = n, rel \/ op = "chdir" PROVE ~Cwd(v)
    BY <2>1, <2>3 DEF MayUse, Cwd
  <2> QED
    BY <1>1, <2>2, <2>3 DEF ChdirAlone, Cwd, Using
<1>3. CASE ~(FindByName(u) \/ FindByFile(u))
  <2>1. u \in Using' =>
          /\ u \in Using /\ use'[u].name = use[u].name /\ use'[u].op = use[u].op
          /\ use'[u].rel = use[u].rel
    BY <1>3 DEF UseStep, LoseFile, BuildPath, Send, Divide, TearCwd, WriteCwd, Go, Finish,
       SharedOK, Using, Uses, Sends
  <2> QED
    BY <1>1, <2>1 DEF ChdirAlone, Cwd, Using
<1> QED
  BY <1>2, <1>3

\* Only chdir writes to a current directory, and what it leaves there is of the
\* mount.
LEMMA CwdOKUser ==
  ASSUME SharedOK, Table!IInv, TableOK, ApartInv, Apart, NEW u \in Users, UseStep(u)
  PROVE  CwdOK'
<1> USE DEF ApartInv
<1>1. /\ \A s \in Slots :
           /\ slots'[s].mountPath = slots[s].mountPath /\ slots'[s].setup = slots[s].setup
           /\ Unworked(s)' = Unworked(s)
      /\ pc' = pc /\ cur' = cur
      /\ \A v \in Users \ {u} : use'[v] = use[v] /\ (v \in Using' <=> v \in Using)
  BY UserFrame
<1>2. ASSUME NEW s \in Slots, slots'[s].cwd # slots[s].cwd
      PROVE  /\ u \in Using /\ use[u].dev = s
             /\ \/ use'[u].at = "torn" /\ use'[u].dev = s /\ u \in Using'
                \/ slots'[s].cwd \in {slots[s].mountPath, RootDir}
  <2>1. TearCwd(u) \/ WriteCwd(u)
    BY <1>2 DEF UseStep, FindByName, FindByFile, Start, LoseFile, BuildPath, Send, Divide
  <2>2. u \in Using /\ use[u] \in Uses
    BY <2>1 DEF TearCwd, WriteCwd, Sends, Using, SharedOK
  <2>3. use[u].dev = s
    BY <1>2, <2>1 DEF TearCwd, WriteCwd, PutCwd, SharedOK
  <2>4. CASE TearCwd(u)
    <3>1. use' = [use EXCEPT ![u].at = "torn"]
      BY <2>4 DEF TearCwd, Go
    <3>2. use'[u] = [use[u] EXCEPT !.at = "torn"]
      BY <3>1 DEF SharedOK
    <3>3. use'[u].at = "torn" /\ use'[u].dev = use[u].dev /\ use'[u] \in Uses
      BY <2>2, <3>2 DEF Uses
    <3> QED
      BY <2>2, <2>3, <3>3, UseConstantsOK DEF Using
  <2>5. CASE WriteCwd(u)
    <3>1. use[u].at = "torn" /\ slots' = [slots EXCEPT ![use[u].dev].cwd = use[u].base]
      BY <2>5 DEF WriteCwd, PutCwd
    <3>2. use[u].base \in {slots[s].mountPath, RootDir}
      BY <2>2, <2>3, <3>1 DEF UseOK
    <3>3. slots'[s].cwd = use[u].base
      BY <2>3, <3>1 DEF SharedOK, UseSlot
    <3> QED
      BY <2>2, <2>3, <3>2, <3>3
  <2> QED
    BY <2>1, <2>4, <2>5
<1>3. ASSUME NEW v \in Using, use[v].at = "torn", NEW s \in Slots, use[v].dev = s
      PROVE  \/ v \in Using' /\ use'[v].at = "torn" /\ use'[v].dev = s
             \/ slots'[s].cwd \in {slots[s].mountPath, RootDir}
  <2>1. CASE v # u
    BY <1>1, <1>3, <2>1 DEF Using
  <2>2. CASE v = u
    <3>1. use[u].op = "chdir" /\ use[u] # NoUse
      BY <1>3, <2>2 DEF UseOK, Using
    <3>2. WriteCwd(u) \/ use' = use
      BY <1>3, <2>2, <3>1
         DEF UseStep, FindByName, FindByFile, Start, LoseFile, BuildPath, Send, Divide, TearCwd,
             Sends, PathOps
    <3>3. CASE use' = use
      BY <1>3, <3>3, <2>2 DEF Using
    <3>4. CASE WriteCwd(u)
      <4>1. slots' = [slots EXCEPT ![s].cwd = use[u].base]
        BY <1>3, <2>2, <3>4 DEF WriteCwd, PutCwd
      <4>2. slots'[s].cwd = use[u].base
        BY <4>1 DEF SharedOK, UseSlot
      <4>3. use[u].base \in {slots[s].mountPath, RootDir}
        BY <1>3, <2>2 DEF UseOK
      <4> QED
        BY <4>2, <4>3
    <3> QED
      BY <3>2, <3>3, <3>4
  <2> QED
    BY <2>1, <2>2
<1>4. ASSUME NEW s \in Slots, Live(s) PROVE slots[s].setup \/ ~Unworked(s)
  BY <1>4 DEF Live, Unworked, Critical, MountPCs
<1>5. ASSUME NEW s \in Slots, Live(s), NEW t \in Threads,
             pc[t] \in {"addclient", "unlockclient"}
      PROVE  cur[t] # s
  <2>1. ~slots[cur[t]].setup
    BY <1>5 DEF TableOK, MountPCs
  <2>2. \A v \in Threads : pc[v] # "setup"
    BY <1>5 DEF TableOK, LockOK, Critical, MountPCs
  <2> QED
    BY <1>5, <2>1, <2>2 DEF Live
<1>6. \A v \in Using : Live(use[v].dev)
  BY DEF UseOK
<1> QED
  <2>1. ASSUME NEW s \in Slots, slots'[s].cwd \notin {slots'[s].mountPath, RootDir}
        PROVE  \E v \in Using' : use'[v].at = "torn" /\ use'[v].dev = s
    <3>1. CASE slots'[s].cwd # slots[s].cwd
      BY <1>1, <1>2, <2>1, <3>1
    <3>2. CASE slots'[s].cwd = slots[s].cwd
      <4>1. PICK v \in Using : use[v].at = "torn" /\ use[v].dev = s
        BY <1>1, <2>1, <3>2 DEF CwdOK
      <4> QED
        BY <1>1, <1>3, <2>1, <4>1
    <3> QED
      BY <3>1, <3>2
  <2>2. ASSUME NEW s \in Slots, ~slots'[s].setup, Unworked(s)' PROVE slots'[s].cwd = RootDir
    <3>1. ~slots[s].setup /\ Unworked(s)
      BY <1>1, <2>2
    <3>2. slots'[s].cwd = slots[s].cwd
      BY <1>2, <1>4, <1>6, <3>1
    <3> QED
      BY <3>1, <3>2 DEF CwdOK
  <2>3. ASSUME NEW t \in Threads, pc'[t] \in {"addclient", "unlockclient"}
        PROVE  slots'[cur'[t]].cwd = RootDir
    <3>1. cur[t] \in Slots /\ pc[t] \in {"addclient", "unlockclient"}
      BY <1>1, <2>3 DEF TableOK, CallOK, Critical, MountPCs
    <3>2. slots'[cur[t]].cwd = slots[cur[t]].cwd
      BY <1>2, <1>5, <1>6, <3>1
    <3> QED
      BY <1>1, <3>1, <3>2 DEF CwdOK
  <2> QED
    BY <2>1, <2>2, <2>3 DEF CwdOK

-----------------------------------------------------------------------------
(* What callers that keep apart what the library does not can rely on.     *)

LEMMA ApartStart == UseInit => ApartInv
<1> SUFFICES ASSUME UseInit PROVE ApartInv
  OBVIOUS
<1> USE DEF UseInit, Init
<1>1. Using = {} /\ \A u \in Users : held[u] = NoFile
  BY DEF Using
<1>2. \A s \in Slots : slots[s].cwd = RootDir /\ ~slots[s].setup
  BY DEF FreshSlot
<1> QED
  BY <1>1, <1>2 DEF ApartInv, SetupOK, UseOK, HeldOK, ChdirAlone, CwdOK

LEMMA ApartStep ==
  ASSUME Apart
  PROVE  SharedOK /\ Table!IInv /\ ApartInv /\ [UseNext]_<<vars, useVars>> => ApartInv'
<1> SUFFICES ASSUME SharedOK, Table!IInv, ApartInv, [UseNext]_<<vars, useVars>>
             PROVE  ApartInv'
  OBVIOUS
<1>0. TableOK
  BY TableFacts
<1>1. ASSUME NEW u \in Users, UseStep(u) PROVE ApartInv'
  <2>1. UseOK'
    BY <1>0, <1>1, UseOKUser
  <2>2. HeldOK'
    BY <1>0, <1>1, HeldOKUser
  <2>3. ChdirAlone'
    BY <1>0, <1>1, ChdirAloneUser
  <2>4. CwdOK'
    BY <1>0, <1>1, CwdOKUser
  <2>5. SetupOK'
    BY <1>1, UserFrame DEF ApartInv, SetupOK
  <2> QED
    BY <2>1, <2>2, <2>3, <2>4, <2>5 DEF ApartInv
<1>2. ASSUME NEW t \in Threads, TableStep(t) PROVE ApartInv'
  <2>1. UseOK'
    BY <1>0, <1>2, UseOKTable
  <2>2. HeldOK'
    BY <1>0, <1>2, HeldOKTable
  <2>3. ChdirAlone'
    BY <1>2 DEF TableStep, useVars, ApartInv, ChdirAlone, Cwd, Using
  <2>4. CwdOK'
    BY <1>0, <1>2, CwdOKTable
  <2>5. SetupOK'
    BY <1>0, <1>2, SetupStep DEF ApartInv, TableStep, MountCalled, UnmountCalled
  <2> QED
    BY <2>1, <2>2, <2>3, <2>4, <2>5 DEF ApartInv
<1>3. CASE UNCHANGED <<vars, useVars>>
  BY <1>3 DEF ApartInv, SetupOK, UseOK, HeldOK, ChdirAlone, CwdOK, Using, Cwd, useVars,
     Live, Pending, Unworked
<1> QED
  BY <1>1, <1>2, <1>3 DEF UseNext

LEMMA ApartInvariance ==
  ASSUME Apart PROVE UseSpec => [](SharedOK /\ TableOK /\ ApartInv)
<1>1. SharedOK /\ Table!IInv /\ ApartInv /\ [UseNext]_<<vars, useVars>> => ApartInv'
  BY ApartStep
<1>2. UseInit => ApartInv
  BY ApartStart
<1>3. Table!IInv => TableOK
  BY TableFacts
<1> QED
  BY <1>1, <1>2, <1>3, SharedInvariance, PTL DEF UseSpec

\* Every variable stays in its range, and no file is open on a client of -1.
THEOREM UseTypeCorrect ==
  ASSUME Apart PROVE UseSpec => []UseTypeOK
<1>1. SharedOK /\ ApartInv => UseTypeOK
  BY DEF SharedOK, ApartInv, HeldOK, UseTypeOK, Files
<1> QED
  BY <1>1, ApartInvariance, PTL

\* However many devices are mounted and unmounted meanwhile, a file operation
\* reaches the FSA client, the mount and the file it was started for.
THEOREM CallsAreRight ==
  ASSUME Apart PROVE UseSpec => []CallsReachTheirMount
<1>1. SharedOK /\ TableOK /\ ApartInv => CallsReachTheirMount
  <2> SUFFICES ASSUME SharedOK, TableOK, ApartInv, NEW u \in Using
               PROVE  LET m == Slot(u) IN
                      /\ Sends(u) =>
                           /\ m.name = use[u].name
                           /\ m.clientHandle \in clients
                           /\ \A s \in Slots \ {use[u].dev} :
                                slots[s].clientHandle # m.clientHandle
                      /\ use[u].at = "built" => use[u].base \in {m.mountPath, RootDir}
                      /\ use[u].op \in FileOps => held[u].client = m.clientHandle
    BY DEF CallsReachTheirMount
  <2> DEFINE d == use[u].dev
  <2>1. /\ Live(d) /\ slots[d].name = use[u].name
        /\ use[u].at = "built" => use[u].base \in {slots[d].mountPath, RootDir}
        /\ use[u].op \in FileOps => held[u].client = slots[d].clientHandle
    BY DEF ApartInv, UseOK
  <2>2. d \in Slots /\ Unfreed(d)
    BY UsedUnfreed DEF ApartInv
  <2>3. slots[d].clientHandle # NoClient
    BY <2>1, <2>2, LiveFacts DEF ApartInv
  <2>4. /\ slots[d].clientHandle \in clients
        /\ \A s \in Slots \ {d} : slots[s].clientHandle # slots[d].clientHandle
    BY <2>2, <2>3 DEF TableOK, ClientsOwned, Unfreed, FreePCs
  <2> QED
    BY <2>1, <2>4 DEF Slot
<1> QED
  BY <1>1, ApartInvariance, PTL

\* statvfs never divides by the sector size of a slot that was reset.
THEOREM DivisorIsNotZero ==
  ASSUME Apart PROVE UseSpec => []DivisorNotZero
<1>1. SharedOK /\ TableOK /\ ApartInv => DivisorNotZero
  BY LiveFacts, UsedUnfreed DEF ApartInv, UseOK, DivisorNotZero, Slot
<1> QED
  BY <1>1, ApartInvariance, PTL

\* A current directory is of the mount in its slot, unless it is being written.
THEOREM CwdIsInMount ==
  ASSUME Apart PROVE UseSpec => []CwdInMount
<1>1. ApartInv => CwdInMount
  BY DEF ApartInv, CwdOK, CwdInMount
<1> QED
  BY <1>1, ApartInvariance, PTL
=============================================================================
