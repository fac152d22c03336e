----------------------------- MODULE DeviceUse -----------------------------
(***************************************************************************)
(* The file operations as users of the mount table, source/devoptab.       *)
(*                                                                         *)
(* newlib looks a device up by its name and hands the operation a pointer  *)
(* to the slot, r->deviceData.  The operation reads the slot again for     *)
(* every field and for every FSA call, without fsaMutex, while MountTable  *)
(* goes on underneath.  What FSA does with a call is not modelled here,    *)
(* only what the call is made with.                                        *)
(***************************************************************************)
EXTENDS MountTable

CONSTANTS
  Users,    \* threads inside file operations
  Torn,     \* a cwd that is half written
  NoUse,    \* no operation under way
  NoFile,   \* no file open
  Apart     \* callers keep the calls apart that the library does not

PathOps == {"path", "open", "statvfs", "chdir"}
FileOps == {"io", "close"}

\* `at' is the step, `name' the device's, `rel' whether the path is relative,
\* `base' what __fsa_fixpath has built it on.
Uses ==
  [op : PathOps \cup FileOps, at : {"found", "built", "sized", "torn"},
   name : Names, dev : Slots, rel : BOOLEAN,
   base : Paths \cup {RootDir, NoPath, Torn}]

\* An open file or directory: newlib finds its device by the name again.
Files == [name : Names, client : Clients]

\* A name that was cut to fit is not cut again.
ASSUME UseConstantsOK ==
  /\ \A n \in Names : NameBuf[NameBuf[n]] = NameBuf[n]
  /\ Torn \notin Paths \cup {RootDir, NoPath}
  /\ NoUse \notin Uses
  /\ NoFile \notin Files
  /\ Apart \in BOOLEAN

VARIABLES use, held   \* per user: the operation, and the open file

useVars == <<use, held>>

UseInit ==
  /\ Init
  /\ use = [u \in Users |-> NoUse]
  /\ held = [u \in Users |-> NoFile]

Using == {u \in Users : use[u] # NoUse}
Slot(u) == slots[use[u].dev]
-----------------------------------------------------------------------------
(* What callers keep apart: an unmount, and operations under its name; a   *)
(* mount, and files open under its name; a chdir, and all relative paths   *)
(* on the same device.                                                     *)

NamesInUse == {use[u].name : u \in Using}
NamesOpen  == {held[u].name : u \in {v \in Users : held[v] # NoFile}}
                \cup {use[u].name : u \in {v \in Using : use[v].op = "open"}}

Pending(op, n) ==
  \E t \in Threads : req[t] # NoReq /\ req[t].op = op /\ NameBuf[req[t].name] = n

MayUse(op, rel, n) ==
  /\ ~Pending("unmount", n)
  /\ (op = "open" => ~Pending("mount", n))
  /\ (rel \/ op = "chdir" =>
        \A u \in Using : use[u].name = n => ~use[u].rel /\ use[u].op # "chdir")

MountCalled(t) ==
  CallMount(t) /\ (Apart => NameBuf[req'[t].name] \notin NamesOpen)

UnmountCalled(t) ==
  CallUnmount(t) /\ (Apart => NameBuf[req'[t].name] \notin NamesInUse)
-----------------------------------------------------------------------------
(* An operation.                                                           *)

Start(u, op, rel, n) ==
  /\ use[u] = NoUse
  /\ devoptab[n] # NoSlot
  /\ Apart => MayUse(op, rel, n)
  /\ use' = [use EXCEPT ![u] = [op |-> op, at |-> "found", name |-> n, rel |-> rel,
                                dev |-> devoptab[n], base |-> NoPath]]
  /\ UNCHANGED <<vars, held>>

\* A user has at most one file open.
FindByName(u) ==
  \E op \in PathOps, rel \in BOOLEAN, n \in Names :
    (op = "open" => held[u] = NoFile) /\ Start(u, op, rel, n)

FindByFile(u) ==
  /\ held[u] # NoFile
  /\ \E op \in FileOps : Start(u, op, FALSE, held[u].name)

\* newlib leads a file whose device is gone nowhere, and frees it on close.
LoseFile(u) ==
  /\ held[u] # NoFile /\ use[u] = NoUse
  /\ devoptab[held[u].name] = NoSlot
  /\ held' = [held EXCEPT ![u] = NoFile]
  /\ UNCHANGED <<vars, use>>

Go(u, at)  == use' = [use EXCEPT ![u].at = at]
Finish(u)  == use' = [use EXCEPT ![u] = NoUse]

\* __fsa_fixpath; statvfs first refuses an SD card.
BuildPath(u) ==
  /\ use[u] # NoUse /\ use[u].at = "found" /\ use[u].op \in PathOps
  /\ \/ use[u].op = "statvfs" /\ Slot(u).isSDCard /\ Finish(u)
     \/ /\ ~(use[u].op = "statvfs" /\ Slot(u).isSDCard)
        /\ use' = [use EXCEPT ![u].at = "built",
                              ![u].base = IF use[u].rel THEN Slot(u).cwd
                                                        ELSE Slot(u).mountPath]
  /\ UNCHANGED <<vars, held>>

Sends(u) ==
  /\ use[u] # NoUse
  /\ use[u].at = IF use[u].op \in PathOps THEN "built" ELSE "found"

\* The last FSA call of an operation, well or failed: an earlier one changes
\* nothing here, and the next is made with the slot as it is by then.  newlib
\* frees a file whether or not it could be closed.
Send(u) ==
  /\ Sends(u)
  /\ UNCHANGED vars
  /\ \/ use[u].op # "close" /\ Finish(u) /\ UNCHANGED held
     \/ use[u].op = "close" /\ Finish(u) /\ held' = [held EXCEPT ![u] = NoFile]
     \/ use[u].op = "statvfs" /\ Go(u, "sized") /\ UNCHANGED held
     \/ /\ use[u].op = "open"
        /\ Finish(u)
        /\ held' = [held EXCEPT ![u] = [name |-> use[u].name,
                                        client |-> Slot(u).clientHandle]]

\* The free space is divided by the sector size.
Divide(u) ==
  /\ use[u] # NoUse /\ use[u].at = "sized"
  /\ Finish(u)
  /\ UNCHANGED <<vars, held>>

PutCwd(u, path) ==
  /\ slots' = [slots EXCEPT ![use[u].dev].cwd = path]
  /\ UNCHANGED <<devoptab, owner, pc, callVars, fsaVars, held>>

\* cwd becomes a directory that was reached from `base', by a snprintf that
\* others can see half done.
TearCwd(u) ==
  /\ Sends(u) /\ use[u].op = "chdir"
  /\ PutCwd(u, Torn)
  /\ Go(u, "torn")

WriteCwd(u) ==
  /\ use[u] # NoUse /\ use[u].at = "torn"
  /\ PutCwd(u, use[u].base)
  /\ Finish(u)

UseStep(u) ==
  \/ FindByName(u) \/ FindByFile(u) \/ LoseFile(u)
  \/ BuildPath(u) \/ Send(u) \/ Divide(u) \/ TearCwd(u) \/ WriteCwd(u)

TableStep(t) ==
  /\ CallInvalid(t) \/ MountCalled(t) \/ UnmountCalled(t) \/ Work(t)
  /\ UNCHANGED useVars

UseNext == (\E u \in Users : UseStep(u)) \/ (\E t \in Threads : TableStep(t))

UseFairness == \A t \in Threads : WF_<<vars, useVars>>(Work(t) /\ UNCHANGED useVars)

UseSpec == UseInit /\ [][UseNext]_<<vars, useVars>> /\ UseFairness
-----------------------------------------------------------------------------
(* Properties.                                                             *)

\* Every variable stays in its range; no file is open on a client of -1.
UseTypeOK ==
  /\ use \in [Users -> Uses \cup {NoUse}]
  /\ held \in [Users -> Files \cup {NoFile}]

\* Every FSA call is made with a client that is registered and belongs to the
\* device it was looked up for, and with a path of that device's mount, or a
\* file that this client has opened: mounts that come and go meanwhile, under
\* the same name too, do not get under a call.
CallsReachTheirMount ==
  \A u \in Using :
    LET m == Slot(u) IN
    /\ Sends(u) =>
         /\ m.name = use[u].name
         /\ m.clientHandle \in clients
         /\ \A s \in Slots \ {use[u].dev} : slots[s].clientHandle # m.clientHandle
    /\ use[u].at = "built" => use[u].base \in {m.mountPath, RootDir}
    /\ use[u].op \in FileOps => held[u].client = m.clientHandle

\* statvfs divides by the sector size it reads after its FSA call.
DivisorNotZero ==
  \A u \in Using : use[u].at = "sized" => Slot(u).deviceSectorSize # 0

\* A relative path is built on the current directory of the mount, never on a
\* half-written one, nor on one a call of chdir has left behind in the slot for
\* the next mount.
CwdInMount ==
  \A s \in Slots :
    slots[s].setup /\ slots[s].cwd \notin {slots[s].mountPath, RootDir} =>
      \E u \in Using : use[u].at = "torn" /\ use[u].dev = s
=============================================================================
