----------------------------- MODULE MountTable -----------------------------
(***************************************************************************)
(* The table of mounted devices, source/devoptab/devoptab_fsa.cpp: up to   *)
(* 16 slots, each with an FSA client of its own, filled by Mocha_MountFSEx *)
(* and emptied by Mocha_UnmountFS.                                         *)
(*                                                                         *)
(* Both functions hold fsaMutex from the search for a slot to the return.  *)
(* Each call into the FSA service or into newlib is one step, with every   *)
(* outcome it can have, because a thread inside a file operation reads     *)
(* the slots and newlib's device list without taking fsaMutex.             *)
(*                                                                         *)
(* Paths and names are abstract values.  A path stands for what is left    *)
(* after '\' has become '/' and trailing '/' have been dropped.            *)
(***************************************************************************)
EXTENDS Naturals, FiniteSets

CONSTANTS
  Threads,      \* callers of the library
  NSlots,       \* length of fsa_mounts, 0x10 in the source
  Names,        \* virt_name strings
  NameBuf,      \* [Names -> Names]: what fits in name[32]
  Devs,         \* normalized dev_path strings
  Paths,        \* normalized mount_path strings
  PathBuf,      \* [Paths -> Paths]: what fits in mountPath[0x80]
  SdDevs,       \* dev_paths that start with /dev/sdcard01
  SdPaths,      \* mount_paths that start with /vol/external01
  Clients,      \* FSA client handles the service has to give
  PreMounted,   \* paths mounted by others before the library runs
  SectorSizes,  \* deviceSectorSize values FSAGetDeviceInfo may report
  MayFail       \* the external calls that may fail in this instance

\* Sentinels: a negative handle, dev_path == nullptr, no slot, an unlocked
\* mutex, no call in progress, an empty name or path, and cwd "/".
CONSTANTS NoClient, NoDev, NoSlot, NoThread, NoReq, NoName, NoPath, RootDir

ExternalCalls ==
  {"InitLibrary", "AddClient", "UnlockFSClient", "Mount", "ChangeDir",
   "GetDeviceInfo", "AddDevice", "Unmount"}

ASSUME ConstantsOK ==
  /\ NSlots \in Nat \ {0}
  /\ NameBuf \in [Names -> Names]
  /\ PathBuf \in [Paths -> Paths]
  /\ SdDevs \subseteq Devs
  /\ SdPaths \subseteq Paths
  /\ PreMounted \subseteq Paths
  /\ SectorSizes \subseteq Nat \ {0}
  /\ MayFail \subseteq ExternalCalls
  /\ NoClient \notin Clients
  /\ NoDev \notin Devs
  /\ NoSlot \notin 0 .. NSlots - 1
  /\ NoThread \notin Threads
  /\ NoName \notin Names
  /\ NoPath \notin Paths
  /\ RootDir \notin Paths

Slots == 0 .. NSlots - 1

MountReq ==
  [op : {"mount"}, name : Names, dev : Devs \cup {NoDev}, path : Paths]
UnmountReq == [op : {"unmount"}, name : Names]
Requests == MountReq \cup UnmountReq

ASSUME NoReqOK == NoReq \notin Requests

VARIABLES
  \* the process
  slots,      \* fsa_mounts
  devoptab,   \* newlib's device list: name -> slot
  owner,      \* holder of fsaMutex
  pc, req, cur, res,  \* per thread: step, arguments, `mount', return value
  \* the FSA service
  clients,    \* registered client handles
  fsMounts    \* mounted paths

slotVars == <<slots, devoptab>>
callVars == <<req, cur, res>>
fsaVars  == <<clients, fsMounts>>
vars     == <<slots, devoptab, owner, pc, req, cur, res, clients, fsMounts>>

\* What fsaResetMount leaves in a slot.
FreshSlot ==
  [setup |-> FALSE, mounted |-> FALSE, isSDCard |-> FALSE, name |-> NoName,
   mountPath |-> NoPath, cwd |-> RootDir, clientHandle |-> NoClient,
   deviceSectorSize |-> 0]

MountPCs == {"alloc", "addclient", "unlockclient", "fsamount", "chdir",
             "deviceinfo", "adddevice", "setup"}
FreePCs  == {"free", "delclient", "reset"}
Critical == MountPCs \cup FreePCs \cup {"find", "removedevice"}

MountErrors ==
  {"INVALID_ARGUMENT", "UNSUPPORTED_COMMAND", "MAX_CLIENT", "ALREADY_EXISTS",
   "UNKNOWN_ERROR", "ADD_DEVOPTAB_FAILED"}
Results == MountErrors \cup {"NONE", "PENDING", "SUCCESS", "NOT_FOUND"}

\* fsaInit has run: it is the first thing every call does under the mutex.
Init ==
  /\ slots = [s \in Slots |-> FreshSlot]
  /\ devoptab = [n \in Names |-> NoSlot]
  /\ owner = NoThread
  /\ pc = [t \in Threads |-> "idle"]
  /\ req = [t \in Threads |-> NoReq]
  /\ cur = [t \in Threads |-> NoSlot]
  /\ res = [t \in Threads |-> "NONE"]
  /\ clients = {}
  /\ fsMounts = PreMounted

Goto(t, next) == pc' = [pc EXCEPT ![t] = next]

\* The end of a call: the status is returned, and what only the call used is
\* cleared.
Return(t, status) ==
  /\ Goto(t, "idle")
  /\ req' = [req EXCEPT ![t] = NoReq]
  /\ cur' = [cur EXCEPT ![t] = NoSlot]
  /\ res' = [res EXCEPT ![t] = status]

\* The same, with the std::lock_guard going out of scope.
ReturnUnlock(t, status) == Return(t, status) /\ owner' = NoThread

\* A step at `at' that goes on to `next' within the same call.
Step(t, at, next) ==
  /\ pc[t] = at
  /\ Goto(t, next)
  /\ UNCHANGED <<req, cur, owner>>

Put(t, field, value) ==
  slots' = [slots EXCEPT ![cur[t]][field] = value]

Succeeds(t) == UNCHANGED res

\* A failed step: the slot is freed, then `status' is returned.
FailWith(t, status) == res' = [res EXCEPT ![t] = status]
-----------------------------------------------------------------------------
(* The calls.                                                              *)

\* virt_name or mount_path is nullptr.
CallInvalid(t) ==
  /\ pc[t] = "idle"
  /\ res' = [res EXCEPT ![t] = "INVALID_ARGUMENT"]
  /\ UNCHANGED <<slotVars, fsaVars, owner, pc, req, cur>>

CallMount(t) ==
  /\ pc[t] = "idle"
  /\ \E r \in MountReq : req' = [req EXCEPT ![t] = r]
  /\ Goto(t, "initlib")
  /\ res' = [res EXCEPT ![t] = "PENDING"]
  /\ UNCHANGED <<slotVars, fsaVars, owner, cur>>

CallUnmount(t) ==
  /\ pc[t] = "idle"
  /\ \E r \in UnmountReq : req' = [req EXCEPT ![t] = r]
  /\ Goto(t, "lock")
  /\ res' = [res EXCEPT ![t] = "PENDING"]
  /\ UNCHANGED <<slotVars, fsaVars, owner, cur>>

\* Mocha_InitLibrary, if it has not run yet, before the mutex is taken.
InitLibrary(t) ==
  \/ /\ Step(t, "initlib", "lock")
     /\ UNCHANGED <<slotVars, fsaVars, res>>
  \/ /\ pc[t] = "initlib"
     /\ "InitLibrary" \in MayFail
     /\ Return(t, "UNSUPPORTED_COMMAND")
     /\ UNCHANGED <<slotVars, fsaVars, owner>>

\* Mutant of Lock: one of the two functions has no lock_guard.
LockMountOnly(t) ==
  /\ pc[t] = "lock"
  /\ owner = NoThread \/ req[t].op = "unmount"
  /\ owner' = t
  /\ Goto(t, IF req[t].op = "mount" THEN "alloc" ELSE "find")
  /\ UNCHANGED <<slotVars, fsaVars, callVars>>

Lock(t) ==
  /\ pc[t] = "lock"
  /\ owner = NoThread
  /\ owner' = t
  /\ Goto(t, IF req[t].op = "mount" THEN "alloc" ELSE "find")
  /\ UNCHANGED <<slotVars, fsaVars, callVars>>
-----------------------------------------------------------------------------
(* Mocha_MountFSEx under fsaMutex.                                         *)

\* Mutant of FreeSlots: fsa_alloc takes the first slot, whatever its state.
AnySlots == Slots

FreeSlots == {s \in Slots : ~slots[s].setup}

\* fsa_alloc: the first slot that is not set up.
FirstFree(s) == s \in FreeSlots /\ \A u \in FreeSlots : s <= u

OnSdCard(r) == r.dev \in SdDevs \/ r.path \in SdPaths

\* Mutant of Alloc: the result of a search that found nothing is used.
AllocUnchecked(t) ==
  /\ pc[t] = "alloc"
  /\ \E s \in Slots \cup {NSlots} :
       /\ FirstFree(s) \/ (FreeSlots = {} /\ s = NSlots)
       /\ cur' = [cur EXCEPT ![t] = s]
  /\ Goto(t, "addclient")
  /\ UNCHANGED <<slotVars, fsaVars, owner, req, res>>

Alloc(t) ==
  \/ /\ pc[t] = "alloc"
     /\ FreeSlots = {}
     /\ ReturnUnlock(t, "MAX_CLIENT")
     /\ UNCHANGED <<slotVars, fsaVars>>
  \/ /\ pc[t] = "alloc"
     /\ \E s \in Slots :
          /\ FirstFree(s)
          /\ cur' = [cur EXCEPT ![t] = s]
          /\ slots' = [slots EXCEPT ![s].isSDCard = @ \/ OnSdCard(req[t])]
     /\ Goto(t, "addclient")
     /\ UNCHANGED <<devoptab, fsaVars, owner, req, res>>

\* FSAAddClient gives a handle nobody holds, or a negative number.
AddClient(t) ==
  /\ UNCHANGED <<devoptab, fsMounts>>
  /\ \/ \E c \in Clients \ clients :
          /\ Step(t, "addclient", "unlockclient")
          /\ clients' = clients \cup {c}
          /\ Put(t, "clientHandle", c)
          /\ Succeeds(t)
     \/ /\ Step(t, "addclient", "free")
        /\ "AddClient" \in MayFail \/ Clients \subseteq clients
        /\ Put(t, "clientHandle", NoClient)
        /\ FailWith(t, "MAX_CLIENT")
        /\ UNCHANGED clients

\* Mocha_UnlockFSClientEx.  Its failure returns at once: the slot keeps its
\* client and its isSDCard.
UnlockClient(t) ==
  \/ /\ Step(t, "unlockclient", "fsamount")
     /\ slots' = [slots EXCEPT ![cur[t]].mounted = FALSE,
                               ![cur[t]].name = NameBuf[req[t].name],
                               ![cur[t]].mountPath = PathBuf[req[t].path]]
     /\ UNCHANGED <<devoptab, fsaVars, res>>
  \/ /\ pc[t] = "unlockclient"
     /\ "UnlockFSClient" \in MayFail
     /\ ReturnUnlock(t, "UNSUPPORTED_COMMAND")
     /\ UNCHANGED <<slotVars, fsaVars>>

\* Mutant of FsaMount: an existing mount is taken for one of the library's.
FsaMountAlwaysMounted(t) ==
  /\ Step(t, "fsamount", "chdir")
  /\ fsMounts' = fsMounts \cup {req[t].path}
  /\ Put(t, "mounted", TRUE)
  /\ UNCHANGED <<devoptab, clients, res>>

\* Mutant of FsaMount: a failure returns without fsa_free.
FsaMountNoFree(t) ==
  /\ UNCHANGED <<devoptab, clients>>
  /\ \/ /\ Step(t, "fsamount", "chdir")
        /\ req[t].path \notin fsMounts
        /\ fsMounts' = fsMounts \cup {req[t].path}
        /\ Put(t, "mounted", TRUE)
        /\ Succeeds(t)
     \/ /\ pc[t] = "fsamount"
        /\ req[t].path \in fsMounts
        /\ ReturnUnlock(t, "ALREADY_EXISTS")
        /\ UNCHANGED <<slots, fsMounts>>

\* FSAMount, unless an existing mount is to be used.  The service refuses a
\* path that is mounted already.
FsaMount(t) ==
  /\ UNCHANGED <<devoptab, clients>>
  /\ \/ /\ Step(t, "fsamount", "chdir")
        /\ req[t].dev = NoDev
        /\ Put(t, "mounted", FALSE)
        /\ Succeeds(t)
        /\ UNCHANGED fsMounts
     \/ /\ Step(t, "fsamount", "chdir")
        /\ req[t].dev # NoDev
        /\ req[t].path \notin fsMounts
        /\ fsMounts' = fsMounts \cup {req[t].path}
        /\ Put(t, "mounted", TRUE)
        /\ Succeeds(t)
     \/ /\ Step(t, "fsamount", "free")
        /\ req[t].dev # NoDev
        /\ \/ req[t].path \in fsMounts /\ FailWith(t, "ALREADY_EXISTS")
           \/ "Mount" \in MayFail /\ FailWith(t, "UNKNOWN_ERROR")
        /\ UNCHANGED <<slots, fsMounts>>

\* FSAChangeDir: a failure is only logged, cwd keeps its value.
ChangeDir(t) ==
  /\ Step(t, "chdir", "deviceinfo")
  /\ \/ Put(t, "cwd", PathBuf[req[t].path])
     \/ "ChangeDir" \in MayFail /\ UNCHANGED slots
  /\ UNCHANGED <<devoptab, fsaVars, res>>

\* FSAGetDeviceInfo, or 512 when it fails.
GetDeviceInfo(t) ==
  /\ Step(t, "deviceinfo", "adddevice")
  /\ \/ \E size \in SectorSizes : Put(t, "deviceSectorSize", size)
     \/ "GetDeviceInfo" \in MayFail /\ Put(t, "deviceSectorSize", 512)
  /\ UNCHANGED <<devoptab, fsaVars, res>>

\* AddDevice: newlib keeps one device for a name, the latest.
AddDevice(t) ==
  /\ UNCHANGED <<slots, fsaVars>>
  /\ \/ /\ Step(t, "adddevice", "setup")
        /\ devoptab' = [devoptab EXCEPT ![slots[cur[t]].name] = cur[t]]
        /\ Succeeds(t)
     \/ /\ Step(t, "adddevice", "free")
        /\ "AddDevice" \in MayFail
        /\ FailWith(t, "ADD_DEVOPTAB_FAILED")
        /\ UNCHANGED devoptab

SetUp(t) ==
  /\ pc[t] = "setup"
  /\ Put(t, "setup", TRUE)
  /\ ReturnUnlock(t, "SUCCESS")
  /\ UNCHANGED <<devoptab, fsaVars>>
-----------------------------------------------------------------------------
(* fsa_free, called by both.                                               *)

\* FSAUnmount with FSA_UNMOUNT_FLAG_FORCE, of the path the slot has stored.
\* A failure is only logged.
FreeUnmount(t) ==
  /\ Step(t, "free", "delclient")
  /\ LET m == slots[cur[t]] IN
       \/ ~m.mounted /\ UNCHANGED fsMounts
       \/ m.mounted /\ fsMounts' = fsMounts \ {m.mountPath}
       \/ m.mounted /\ "Unmount" \in MayFail /\ UNCHANGED fsMounts
  /\ UNCHANGED <<slotVars, clients, res>>

\* FSADelClient; of a negative handle it does nothing.
FreeDelClient(t) ==
  /\ Step(t, "delclient", "reset")
  /\ clients' = clients \ {slots[cur[t]].clientHandle}
  /\ UNCHANGED <<slotVars, fsMounts, res>>

\* Mutants of FreeReset: fsaResetMount forgets one field of the slot.
FreeResetKeepsClient(t) ==
  /\ pc[t] = "reset"
  /\ slots' = [slots EXCEPT ![cur[t]] =
                 [FreshSlot EXCEPT !.clientHandle = slots[cur[t]].clientHandle]]
  /\ ReturnUnlock(t, res[t])
  /\ UNCHANGED <<devoptab, fsaVars>>

FreeResetKeepsSd(t) ==
  /\ pc[t] = "reset"
  /\ slots' = [slots EXCEPT ![cur[t]] =
                 [FreshSlot EXCEPT !.isSDCard = slots[cur[t]].isSDCard]]
  /\ ReturnUnlock(t, res[t])
  /\ UNCHANGED <<devoptab, fsaVars>>

FreeResetKeepsCwd(t) ==
  /\ pc[t] = "reset"
  /\ slots' = [slots EXCEPT ![cur[t]] = [FreshSlot EXCEPT !.cwd = slots[cur[t]].cwd]]
  /\ ReturnUnlock(t, res[t])
  /\ UNCHANGED <<devoptab, fsaVars>>

\* fsaResetMount, then the caller of fsa_free returns.
FreeReset(t) ==
  /\ pc[t] = "reset"
  /\ slots' = [slots EXCEPT ![cur[t]] = FreshSlot]
  /\ ReturnUnlock(t, res[t])
  /\ UNCHANGED <<devoptab, fsaVars>>
-----------------------------------------------------------------------------
(* Mocha_UnmountFS under fsaMutex.                                         *)

Matching(t) == {s \in Slots : slots[s].setup /\ slots[s].name = req[t].name}

\* Mutant of FindMount: the mutex is locked by hand and kept on an early return.
FindMountNoUnlock(t) ==
  /\ pc[t] = "find"
  /\ \/ /\ Matching(t) = {}
        /\ Return(t, "NOT_FOUND")
        /\ UNCHANGED owner
     \/ /\ \E s \in Matching(t) : cur' = [cur EXCEPT ![t] = s]
        /\ Goto(t, "removedevice")
        /\ UNCHANGED <<owner, req, res>>
  /\ UNCHANGED <<slotVars, fsaVars>>

FindMount(t) ==
  \/ /\ pc[t] = "find"
     /\ Matching(t) = {}
     /\ ReturnUnlock(t, "NOT_FOUND")
     /\ UNCHANGED <<slotVars, fsaVars>>
  \/ /\ pc[t] = "find"
     /\ \E s \in Matching(t) :
          /\ \A u \in Matching(t) : s <= u
          /\ cur' = [cur EXCEPT ![t] = s]
     /\ Goto(t, "removedevice")
     /\ UNCHANGED <<slotVars, fsaVars, owner, req, res>>

\* Mutant of RemoveDevice: the name is passed without the ":" it needs.
RemoveDeviceNoColon(t) ==
  /\ Step(t, "removedevice", "free")
  /\ res' = [res EXCEPT ![t] = "SUCCESS"]
  /\ UNCHANGED <<slotVars, fsaVars>>

\* RemoveDevice: its result is ignored.
RemoveDevice(t) ==
  /\ Step(t, "removedevice", "free")
  /\ devoptab' = [devoptab EXCEPT ![slots[cur[t]].name] = NoSlot]
  /\ res' = [res EXCEPT ![t] = "SUCCESS"]
  /\ UNCHANGED <<slots, fsaVars>>
-----------------------------------------------------------------------------
\* What a thread does inside a call, as opposed to starting one.
Work(t) ==
  \/ InitLibrary(t) \/ Lock(t)
  \/ Alloc(t) \/ AddClient(t) \/ UnlockClient(t) \/ FsaMount(t)
  \/ ChangeDir(t) \/ GetDeviceInfo(t) \/ AddDevice(t) \/ SetUp(t)
  \/ FreeUnmount(t) \/ FreeDelClient(t) \/ FreeReset(t)
  \/ FindMount(t) \/ RemoveDevice(t)

Next ==
  \E t \in Threads :
    \/ CallInvalid(t) \/ CallMount(t) \/ CallUnmount(t)
    \/ Work(t)

\* A thread inside a call is scheduled; nobody has to make another call.
Fairness == \A t \in Threads : WF_vars(Work(t))

Spec == Init /\ [][Next]_vars /\ Fairness
-----------------------------------------------------------------------------
(* Properties.                                                             *)

SlotType ==
  [setup : BOOLEAN, mounted : BOOLEAN, isSDCard : BOOLEAN,
   name : Names \cup {NoName}, mountPath : Paths \cup {NoPath},
   cwd : Paths \cup {RootDir}, clientHandle : Clients \cup {NoClient},
   deviceSectorSize : SectorSizes \cup {0, 512}]

\* Every variable stays in its range; in particular a call never works on a
\* slot beyond the end of fsa_mounts.
TypeOK ==
  /\ slots \in [Slots -> SlotType]
  /\ devoptab \in [Names -> Slots \cup {NoSlot}]
  /\ owner \in Threads \cup {NoThread}
  /\ pc \in [Threads -> Critical \cup {"idle", "initlib", "lock"}]
  /\ req \in [Threads -> Requests \cup {NoReq}]
  /\ cur \in [Threads -> Slots \cup {NoSlot}]
  /\ res \in [Threads -> Results]
  /\ clients \subseteq Clients
  /\ fsMounts \subseteq Paths

\* A file operation finds its slot through newlib's list and reads it without
\* the mutex.  Whatever the mutex's holder is doing, each listed slot bears
\* the name it is listed under, has a registered client that no other slot
\* uses, a sector size to divide by, and a cwd inside its own mount or "/".
PublishedDeviceReady ==
  \A n \in Names : devoptab[n] # NoSlot =>
    LET m == slots[devoptab[n]] IN
      /\ m.name = n
      /\ m.clientHandle \in clients
      /\ \A s \in Slots \ {devoptab[n]} : slots[s].clientHandle # m.clientHandle
      /\ m.deviceSectorSize # 0
      /\ m.cwd \in {m.mountPath, RootDir}

\* A slot never keeps a handle the service has taken back, and two slots never
\* hold the same one, except while fsa_free is about to reset the slot: the
\* handle may by then belong to somebody else.
ClientsOwned ==
  \A s \in Slots : slots[s].clientHandle # NoClient =>
    /\ slots[s].clientHandle \in clients
         \/ \E t \in Threads : pc[t] = "reset" /\ cur[t] = s
    /\ \A u \in Slots \ {s} : slots[u].clientHandle # slots[s].clientHandle

\* The library never unmounts what it did not mount: fsa_free skips a slot
\* that shares an existing mount, and a refused FSAMount is not undone.
ForeignMountsKept == PreMounted \subseteq fsMounts

\* Between calls the service holds one client for each set-up slot and the
\* mounts of the set-up slots that mounted something, and nothing else: no
\* path through fsa_free forgets or repeats a part of the clean-up.
NoLeak ==
  owner = NoThread =>
    LET inUse == {s \in Slots : slots[s].setup} IN
      /\ clients = {slots[s].clientHandle : s \in inUse}
      /\ fsMounts = PreMounted
           \cup {slots[s].mountPath : s \in {u \in inUse : slots[u].mounted}}

\* devoptab_fsa.cpp:164, "Things like statvfs behave different on sd cards!":
\* a slot that is about to be set up is marked as an SD card exactly if this
\* mount, not an earlier one that used the slot, is on the SD card.
SdFlagExact ==
  \A t \in Threads :
    pc[t] = "setup" => (slots[cur[t]].isSDCard <=> OnSdCard(req[t]))

\* A set-up slot changes in one way only: an unmount call for its own name
\* resets it.  No mount call, whatever fails in it, touches a slot in use.
SetupSlotsStable ==
  [][\A s \in Slots :
       slots[s].setup /\ slots'[s] # slots[s] =>
         \E t \in Threads :
           /\ owner = t /\ pc[t] = "reset" /\ cur[t] = s
           /\ req[t] = [op |-> "unmount", name |-> slots[s].name]]_slots

\* The mutex is released by every path out of both functions.
LockReleased == \A t \in Threads : owner = t ~> owner # t

\* What callers see: the set-up slots, and what their last call returned.
table   == [s \in Slots |-> IF slots[s].setup THEN slots[s].name ELSE NoName]
answers == [t \in Threads |-> IF pc[t] = "idle" THEN res[t] ELSE "PENDING"]

\* Every call acts at once on the table, between its start and its return.
Registry ==
  INSTANCE MountRegistry WITH table <- table, result <- answers, Empty <- NoName

RefinesRegistry == Registry!Spec
=============================================================================
