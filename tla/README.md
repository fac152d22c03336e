# libmocha in TLA+

TLA+ modules, TLC configurations and TLAPS proofs about libmocha, the library
through which Wii U homebrew talks to the MochaPayload running in IOSU, mounts
volumes into newlib and reads raw discs. File names below are relative to the
root of the repository.

## 1. Inventory

### Components, their state and what must hold

| component | source | state | operations |
|---|---|---|---|
| library lifecycle and commands | `source/utils.cpp` | `mochaInitDone`, `iosuhaxHandle`, `mochaApiVersion` (globals without a lock) | `Mocha_InitLibrary`, `Mocha_DeInitLibrary`, `Mocha_CheckAPIVersion`; seven commands over `/dev/iosuhax`; eleven commands to the payload, gated by version; `Mocha_LaunchRPX` |
| mount table | `source/devoptab/devoptab_fsa.cpp`, `.h` | `fsa_mounts[16]` under `fsaMutex`; newlib's device list; FSA clients and mounts | `Mocha_MountFS`, `Mocha_MountFSEx`, `Mocha_UnmountFS`, `fsa_alloc`, `fsa_free`, `fsaResetMount` |
| opening and closing files | `devoptab_fsa_open.cpp`, `_close.cpp` | FSA file handles, the file structure newlib allocates | `__fsa_open`, `__fsa_close` |
| open files | `_read`, `_write`, `_seek`, `_truncate`, `_fsync`, `_fstat` | `offset`, `appendOffset`, `flags` per file, guarded by its mutex; FSA's own position | as the names say |
| paths and path operations | `devoptab_fsa_utils.cpp`, `_chdir`, `_diropen`, `_dirclose`, `_stat`, `_rename`, `_mkdir`, `_rmdir`, `_unlink`, `_chmod`, `_statvfs` | `cwd` per mount, `fullPath` per open directory, `errno` | `__fsa_fixpath`, `__fsa_normpath` and their callers |
| raw disc interface | `source/disc_interface.c`, `source/fsa.cpp` | `initialized`, `fsaFdSd`, `fsaFdUsb`, `sdioFd`, `usbFd` (globals without a lock) | startup, isInserted, readSectors, writeSectors, shutdown of two discs; `FSAEx_Raw*Ex` |
| directory iteration | `_dirnext`, `_dirreset` | `entry_data` of an open directory, guarded by its mutex; FSA keeps the position | as the names say |
| conversions | `devoptab_fsa_utils.cpp:156-287`, `devoptab_fsa.h:116-120` | none | `__fsa_translate_*` of modes, types, times and errors |
| the rest | `_link`, `_utimes`, `_fchmod`, `logger.h`, `otp.h`, build files | none | |

How they interact:

- `Mocha_MountFSEx` calls `Mocha_InitLibrary` when `mochaInitDone` is not set,
  and `Mocha_UnlockFSClientEx` for every client; the disc interface calls the
  latter too. Both fail when the library is not initialized, or the payload is
  too old.
- File operations get their slot from newlib's device list, which
  `Mocha_MountFSEx` and `Mocha_UnmountFS` change. They do not take `fsaMutex`.
- Files, directories and paths meet in `deviceData`: `clientHandle`, `cwd`,
  `mountPath`, `isSDCard`. Every operation reads these fields one by one, while
  mounts, unmounts and `chdir` write them.
- Outside: IOSU (handles, ioctls), the FSA service (clients, mounts, files),
  newlib (device list, file structures), the MochaPayload (version, prepared RPX).

What is hard, and what makes each component correct:

- *Lifecycle.* Flag, handle and version are read one after the other with other
  threads in between. A command must reach only a payload that knows it, the
  handle must be open when it is used, and the many early returns must close what
  they opened. A launch that fails must not leave its preparation behind.
- *Mount table.* A mount has eight steps that may fail. What was done must be
  undone, and nothing else; readers without the lock must never find a half-built
  slot; a call as a whole must look like one step.
- *Files.* A transfer is cut at cache lines and at limits, may fail after some of
  it is done, and there are two positions that must stay equal.
- *Opening.* One `open()` is up to four FSA calls. A handle must not get lost
  between them; the result should be that of POSIX, and `O_EXCL` should exclude.
- *Operations over the mount table.* The slot an operation has found may be reset,
  and taken by another mount, before the operation is done with it. A call must go
  to the device it was meant for.
- *Directories and attributes.* Threads that share a `DIR` share its `entry_data`.
  Modes are converted on the way in and on the way out by two pieces of code that
  must be inverse to each other, and a type may have to be guessed.
- *Paths.* `cwd` is built from paths that were built from `cwd`. After any sequence
  of calls the string must name where the caller is.
- *Discs.* The handles are 0 at load time, which looks open. Startup has four steps
  that may fail.

`PROJECT.json` lists every hazard at its line with the properties that cover it,
or why none does.

### Order of work

Core first: the mount table with its abstract specification and proofs, then the
lifecycle with its proofs, files, opening, discs, paths. Then the composition of
the file operations with the mount table, attributes and directories, and the
abstract specification of a file; then the proofs about each of them. Section 7 says what is left.

## 2. Modules

| module | models | granularity |
|---|---|---|
| `MountRegistry` | the abstract specification of mounting | a table of names; each call is one step |
| `MountTable` | `devoptab_fsa.cpp` | one action per call into FSA or newlib |
| `MochaLib` | `utils.cpp` | one action per access to a global and per IOSU call |
| `DeviceUse` | the file operations as users of the mount table; extends `MountTable` | one action per access to the slot's fields that belong together |
| `FileCursor` | the abstract specification of an open file | a position; each request is one step |
| `FileIO` | read, write, seek, ftruncate, fsync, fstat | one action per FSA call |
| `FileOpen` | open, close | one action per FSA call |
| `DiscInterface` | `disc_interface.c` over `fsa.cpp` | one action per access to IOSU, and per assignment while initializing |
| `PathOps` | `__fsa_fixpath` and its callers | one action per function |
| `Conversions` | `__fsa_translate_*` | operators; used by `FileOpen` and `FileAttributes` |
| `FileAttributes` | mkdir, chmod, unlink, dirnext, dirreset | one action per FSA call, and per use of `entry_data` |
| `MC*` | instances for TLC | constants only |
| `MountTableProofs`, `MochaLibProofs`, `FileIOProofs`, `FileOpenProofs`, `DiscInterfaceProofs`, `DeviceUseProofs`, `FileAttributesProofs`, `PathOpsProofs` | theorems about the module of the name | |

Constants are the sizes and the environment; each module names its assumptions
`ConstantsOK`, or by what they say: that a constant which stands for "none" is none of
the values (`NoCallOK`, `NoNodeOK`), that a name which was cut to fit a slot is not cut
again (`UseConstantsOK`). The assumption of `PathOps` on `MountPath` is what
`__fsa_normpath` leaves of an absolute path. `MayFail` is the set of external calls that may fail in an
instance. Definitions called "Mutant of ..." are not part of the model: each is a
definition with a plausible mistake, which one property is known to notice.

### MountTable

`slots` is `fsa_mounts`, `devoptab` newlib's list, `owner` the holder of
`fsaMutex`, `clients` and `fsMounts` the FSA service. A call goes
`initlib, lock, alloc, addclient, unlockclient, fsamount, chdir, deviceinfo,
adddevice, setup`; a failure after `addclient` goes through `fsa_free` (`free,
delclient, reset`), except that of unlocking, which returns at once as the code
does. An unmount goes `lock, find, removedevice` and through `fsa_free`. Names
that do not fit into `name[32]` are cut by `NameBuf`, paths by `PathBuf`. The
normalization of the two paths is left out: a path stands for its normalized form.
`fsaInit` is folded into `Init`. FSA gives a client handle nobody holds and
refuses to mount a mounted path.

### DeviceUse

`use` is what each user is doing: the operation, the slot newlib has led it to
(`r->deviceData`) and what `__fsa_fixpath` has built its path on. `held` is its open
file; newlib finds the device of a file by its name again, for every call. The
operations come down to six, by what they read of the slot and in which order:
`path` (stat, mkdir, rename, ...), `open` (also of directories), `statvfs`, `chdir`,
`io` on an open file, and `close`. All steps of `MountTable` go on underneath.
`cwd` is written in two steps with a torn value between them.

`Apart` says what the callers keep apart, as nothing in the library does: an unmount
and operations under way under its name; a mount and files that are open under its
name; a `chdir` and relative paths on one device. It restricts nothing else: slots
are reset and taken again while operations on other slots go on, devices are
unmounted while their files are open, absolute paths go on during a `chdir`, and a
failed mount takes a slot back that it has just filled. The run has
`Apart = TRUE`. With `FALSE` each of `CallsReachTheirMount`, `DivisorNotZero` and
`CwdInMount` is violated: an operation finds its device, is overtaken by
`Mocha_UnmountFS`, and calls FSA with a client of -1, or of the slot's next mount,
or divides by 0. No line of the repository says that this is allowed, or that it
works.

### MochaLib

Every access to a global is a step. `device` is IOSU's handle table with numbers
that are used again; `payload` is the version that runs, `OldMocha` for one
without versions, `NoCfw` for none. The gated commands share their actions, with
`op` the command: `gatedone?, gateversion?`, where the code has it `argument?`,
then either `opendev, ipc, closedev` or one direct call. `LaunchRPX` runs two or
three of them. `RevertRPXLaunch` is `PrepareRPXLaunch` called with the revert
target. Contents and lengths of buffers are left out. The header declares
`Mocha_IOSUMemoryMemcpy`, the source defines `Mocha_IOSUKernelMemcpy`: the model
has the latter.

### FileIO

Each handle has `offset` (`file->offset`) and `pos` (FSA's). `Request` is the size
the loop asks for next, from the alignment of the buffer and what is left. A
transfer may stop in the middle: at the end of the file, at the end of the volume
(`MaxSize`) or on a failure (`TransferFails`). `W` is 2^32, `Line` 0x40. Writing with `O_APPEND`
takes place at the end of the file (FSA mode "a"). Data is not modelled.

`FileCursor` is what the user of one handle may rely on: a position, which reads,
writes and seeks move and nothing else does; pieces of a transfer that follow each
other; an end for every call only when all is done, nothing more can be had, or a
request has failed; and no failure reported of a call that has moved something.
`RefinesCursor` maps the position to `file->offset`. The promise is for handles that
neither append nor truncate.

`ftruncate` moves FSA's position and leaves `file->offset` alone, which the model
keeps: afterwards `lseek` reports the old offset, the next transfer takes place at the
new length, and a seek to the old offset is not sent. The properties exempt handles
that truncate.

### FileOpen

`Mode` is the mapping of the flags to an fopen mode. The call then does, as the
flags need, `stat`, `create`, `closenew`, `open`, `statfile`, `closefailed`. What
is at the path is one value that other callers, and `Elsewhere`, change. `before`
and `alone` are history: what was there when the call began, and whether nothing
interfered with it. The failures of `__fsa_fixpath` are in `PathOps`.

### DiscInterface

The two discs are the same code with different variables and are the elements of
`Discs`. Startup: `initialize` (and `clear`, one step per variable), `open`,
`unlock` (or `closelocked`), `rawopen?`, `rawopen` for one device after the other,
`giveup`. Closing an IOS handle takes its raw handles with it. `FirstUseAlone`
says that the callers make the first startup before other threads use the
interface.

### PathOps

A string is the sequence of the components its separators separate: `"/a//b/"` is
`<<"", "a", "", "b", "">>`, so that the normalization, with its trailing separators
and empty parts, is modelled by what it does to the string. `CompMax` and `MaxPath`
count components instead of positions and characters. Every caller of
`__fsa_fixpath` but `__fsa_diropen` replaces its errno by `ENOMEM` (`keepsErrno`). The cut at `PATH_MAX` bytes
is left out (the result is then longer than `FS_MAX_PATH` in practice). `here`
and `dirAt` are history: where the calls have led, as a walk from the root.
Calls do not overlap.

### Conversions and FileAttributes

A mode is the set of its bits, and `<<`, `>>` and `&` are what they do to the set. An
entry is its `FSStat`; `asked` is history: what it was made as and the mode it was
last given. Names in `Typeless` are of entries FSA keeps no type of, which the code
provides for; such a file is never empty, since the code takes an empty one for a
directory and says so. `dirnext` is four steps under the mutex of the directory: clearing
`entry_data`, `FSAReadDir`, and the two uses of `entry_data`. `gave` is history: what FSA
gave the call. `FileOpen` ends its calls with `TranslateError`.

Left out: `st_blocks`, which divides by `st_size` where it should by the block size and
is undefined for size 0; owner and group, which are copied. `NameCut` stands for the
`snprintf` with `NAME_MAX`, which drops the last character of a name of 255; the run
keeps names whole.

## 3. Runs

All with `CHECK_DEADLOCK` on: in every module some call is possible in every state.

| run | shows |
|---|---|
| `mounts_safe` | `TypeOK`; `PublishedDeviceReady`: what a reader without the lock finds; `ClientsOwned`: no client kept too long or twice; `ForeignMountsKept`; `SetupSlotsStable`; `RefinesRegistry`: the abstract specification |
| `device_use` | `UseTypeOK`; `CallsReachTheirMount`, `DivisorNotZero`, `CwdInMount`: what operations find in a slot they have not locked; `NoLeak`: clients and mounts between calls are those of the slots; `SdFlagExact`; `LockReleased` (liveness) |
| `mounts_sdflag` | *violated*: `SdFlagExact` when unlocking fails |
| `lib_safe` | `TypeOK` with the handle each call holds; `VersionGate`; `HaxHandleValid`; `HandlesBalanced`; `LaunchReverted` |
| `lib_init` | *violated*: `InitSuccessIsInitialized` |
| `fileio_safe` | `TypeOK`; `RequestsFit`; `OffsetInSync`; `AppendOffsetCurrent`; `RefinesCursor`: the abstract specification; `CallsReturn` (liveness) |
| `open_safe` | `TypeOK`; `HandlesOwned`; `OpenMatchesPosix` |
| `open_exclusive` | *violated*: `ExclusiveOpenCreates` |
| `disc_safe` | `TypeOK`; `IoReachesOwnDevice`; `HandlesBalanced` |
| `paths_safe` | `TypeOK`; `FixPathResolves`: gluing and normalizing strings is walking; `InoAgrees` |
| `paths_empty` | *violated*: `NoEmptyPathSent` |
| `attrs_safe` | `TypeOK`; `StatReportsWhatWasMade`; `EntryWhole`: an answer of dirnext is of one entry |

### What the violated ones found

- `mounts_sdflag`: `Mocha_MountFSEx` returns without `fsa_free` when
  `Mocha_UnlockFSClientEx` fails. The client stays registered, and `isSDCard` stays
  set: the next mount in the slot is treated as an SD card.
- `lib_init`: after a failed `Mocha_InitLibrary` the next one returns SUCCESS and
  the library has no handle.
- `open_exclusive`: between stat and open of an exclusive open there is room for
  another caller to create the file, which is then truncated.
- `paths_empty`: `__fsa_fixpath` refuses an empty path, because FSA softlocks on it, and
  `__fsa_diropen` makes one of `"/"`, for instance for `opendir("..")` at the top.

What the passing runs leave out for the same reasons: `device_use` has no failure
of unlocking or of `FSAUnmount` (which the code only logs), `OffsetInSync` exempts
handles that append or truncate, `HaxHandleValid` and `HandlesBalanced` of the
library are for one thread in charge of the lifecycle (with two, both are
violated), `device_use` has `Apart` (section 2), `disc_safe` has `FirstUseAlone` (without it, a second thread finds the
handles at 0) and each disc used by one thread.

### Bounds

- `mounts_*`: two threads are enough for every pair of calls to overlap; two slots
  and two clients make the table and the clients run out; two names, one of which
  is cut to the other; two paths, one of them mounted by others. `mounts_sdflag`
  needs one thread.
- `device_use`: two slots and two clients, so that a slot is taken again while another
  is in use; two users, for two operations on one device, and one that goes on while
  the other ends; one name. One thread mounts: what overlapping mounts do to each other
  is the subject of `mounts_safe`, and they are serialized by the mutex.
- `lib_*`: five payloads, one for every answer the commands tell apart. Two threads
  hold at most one handle each besides the library's, so three handles are enough.
  The handles are symmetric.
- `fileio_safe`: lines of two bytes, limits of one line for reads and two for writes,
  and transfers of four bytes from both alignments make all three kinds of requests,
  and several of the last, occur in one transfer. `W` is 5 and the volume has room for
  4, so that seeks reach the bound, and writes the end of the volume. The second
  handle is what changes the file under the first.
- `attrs_safe`: two modes that between them have every permission bit, set and not
  set, and bits FSA does not know; a name with a type and one without; two times on
  both sides of a second. Threads are symmetric.
- `open_*`: one handle more than the callers need can be lost before opening
  fails. Callers and handles are symmetric.
- `disc_safe`: the two discs of the console with the devices they have.
- `paths_*`: all paths of one or two components, and those of three made of
  separators, `..` and a name; `cwd` grows up to the limits, so that both limits
  are reached.

### Fairness

`MountTable` and `DeviceUse` state weak fairness of the steps inside a mount or an unmount
(`LockReleased`), `FileIO` of the steps inside a call (`CallsReturn`): a thread that
runs is scheduled, and IOSU and FSA answer. Starting a call is never assumed, nor is
a failure: `TransferFails` is not fair, so that a transfer may not count on it to end.
No fairness is asked of the mutex: a thread that waits may wait for ever, and no
property says otherwise.

## 4. Proofs

TLAPS checks them for every value of the constants that satisfies the assumptions.

`MountTableProofs`. The inductive invariant `IInv` joins `TypeOK` with

- `CallOK`: arguments and slot of a call agree with the step it is at;
- `LockOK`: exactly the owner of the mutex is between lock and return;
- `WorkOK`: what a mount has stored in its slot so far, step by step;
- `FreeOK` and the conjuncts on idle slots, listed devices and clients: what
  `fsa_free` may rely on, what a slot looks like that nobody works on, that a
  listed slot is set up or being set up or removed, and that no two slots share a
  client.

`PublishedDeviceReady` needs all of them: a listed slot is complete because the call
that listed it had stored everything (`WorkOK`), nobody else could touch the slot
meanwhile (`LockOK`), and afterwards only an unmount of its name does (`FreeOK`). One
lemma per action says what the action does to the slot; the steps of the invariant
follow from these. `ForeignMountsAreKept` assumes that paths are not cut and adds
`MountedOK`: only own mounts are marked. `NothingIsLeaked` adds `LeakInv`: each
registered client and each own mount is that of a slot in use or of the call at work
in it. Its hypotheses are the failures nothing can undo (`Mocha_UnlockFSClientEx`, after
which the code returns, and `FSAUnmount`) and that paths are not cut; all other failures
are allowed. `SdFlagIsExact` needs only that unlocking does not fail.
`MountTableImplementsRegistry` maps each step: a mount takes effect at `SetUp`, an unmount at `FreeReset`, a failed search at
`FindMount`; all other steps stutter.

`MochaLibProofs`. `TypeOK` and `VersionGate` for any number of threads, all of which
may initialize and deinitialize. The invariant adds that a stored version is never
newer than the payload's (`VersionKnown`) and that a call past the version check has
passed it (`GatePassed`); nothing about the handle is needed. The two theorems about
handles have `OneInCharge` for a hypothesis: at most one thread initializes and
deinitializes, any number send commands (with two, TLC finds counterexamples). Their
invariant `HInv` accounts for every open handle: it is the library's, or that of the one
call that is going to close it (`Owned`, `HeldApart`). The library's may share its number
with another's only between closing and forgetting it (`Stale`, `NotShared`). `LaunchIsReverted`
needs no hypothesis.

`FileIOProofs`. The invariant is `TypeOK`, `CallOK` (what is left of a transfer that is
at work), `OffsetInSync` and `AppendOffsetCurrent`. It is kept handle by handle: a step
of one handle changes nothing of another but the size of the file they share, so one
lemma per action and one for "the other handles" are enough. `RequestsFit` needs that
something is left (a transfer of nothing asks for nothing) and a few facts about
remainders, stated once for any line size: what is cut to a multiple of the line is
positive, a multiple, and not more than was left. Both positions agree because every
action that moves one has had FSA move the other by the same number, which also holds
where a request moves less than it asked for or nothing. The refinement
`FileIOImplementsCursor` maps a plain handle's position to `file->offset` and what it
has left to what the call has left: its steps are moves of the cursor, and everything
the other handles do is the cursor's `Other`, which may change the size and nothing of
the position. It rests on `OffsetInSync`: FSA moves `pos`, and the promise is about
`offset`.

`FileOpenProofs`. `HandlesOwned` is inductive together with `TypeOK`, which says which
steps hold a handle. `OpenMatchesPosix` is about the end of a call; the invariant says
in the middle of it, for a call nothing interfered with, what has become of the path so
far, step by step (`CallOK`, `Undisturbed`). `OpeningIsPosix` closes the argument: what FSA
does for the fopen mode that `Mode` makes of the flags is what POSIX asks for the flags,
in each of the cases the earlier steps leave.

`DiscInterfaceProofs`. The type invariant needs nothing of the callers. The other two
theorems are for callers with `FirstUseAlone` and `OneThreadPerDisc`, their hypotheses;
without the first, TLC finds a counterexample, and two threads on one disc may close
what the other uses. The invariant has three phases: before the first startup the variables
are 0 and IOSU has nothing open (`LoadOK`); while they are made -1, the ones in `todo`
are still 0 and nobody else is in the interface (`ClearOK`); and then (`ReadyOK`) every disc has
the handles that the step of its thread calls for (`Place`), and IOSU has no other open
and none of them twice (`Accounted`). That the handles of two discs differ is what
makes closing one leave the other alone.

`DeviceUseProofs`. File operations write `cwd`, which the mount functions write but never
read. `Table` is `MountTableProofs` instantiated with slots whose `cwd` is hidden (and
with `FSAChangeDir` among what may fail, since the outcome of it is only in `cwd`).
`UsersLeaveTheTable` shows that every step is one of that table or a stutter, from which
the invariants of the table, `NoLeak` and `SdFlagExact` follow for the composition without
being proved again; none of this needs `Apart`. The others have `Apart` for a hypothesis,
the discipline of callers of section 2 (with `FALSE`, TLC finds counterexamples). Their
invariant says: a set-up slot has a name, a client and a sector size (`SetupOK`); while a
user's operation is under way no unmount of its name has begun, its slot is live under
that name, and what it has built is of that slot's mount (`UseOK`); under the name of an
open file there is no other device, and none is being mounted (`HeldOK`); a `chdir` has the
device's `cwd` to itself (`ChdirAlone`); and `cwd` is in the mount, or torn while it is
written (`CwdOK`). `LiveFacts` takes from the table's invariant what a slot
that newlib still lists looks like.

`FileAttributesProofs`. `PermissionsRoundTrip` and `CalendarExact` are about the
operators: for every set of mode bits, and for every year from 1970 to 2100. The invariant
keeps, entry by entry, that FSA's flags and permissions are those of the kind and mode in
`asked` (`EntryMade`), and, call by call, that what is in `entry_data` between two steps
under the mutex is what FSA gave that call. `AnswersAreWhole` has the hypothesis that
names are not cut, without which it is false (section 2).

`PathOpsProofs`. The folds that define `NormPath` and `Walk` are opened once: for every
sequence there is a function from the number of components done to the result so far
(`Trace`), unique by induction over the naturals (`Induction`, from `WFMin` of the library,
over a set instead of a predicate). `Written` relates the two traces: what normalization
has written so far are the names that lead to where walking has come, and it counts them;
a string that ends in a name is given no separator. From it, `NormPathWalks`: the
normalized form of an absolute string is the root followed by the names it leads to. The
invariant of the state is then short: `cwd` is the root followed by the names of `here`, and
the path of an open directory by those of `dirAt` (`Leads`, `DirOK`); it is kept because
`WalkConcat` lets a walk along two glued strings be taken one after the other.

Only model-checked: liveness (`LockReleased`, `CallsReturn`), which is out of reach of the
prover, and what the module `Conversions` says beyond permissions and days.

## 5. Not modelled

`_link`, `_utimes`, `_fchmod` (return ENOSYS), `logger.h`, `otp.h`, `Mocha_GetStatusStr`,
buffer contents, heap memory other than that an allocation may fail, build files. Of
`__fsa_translate_stat`, `st_blocks`, owner and group. A mutex that is used while newlib
frees the structure it is in (`close` while a reader waits) is left to newlib.

## 6. Running

    tlc -workers 2 -config MCMountTable_safe.cfg MCMountTable
    tlapm MountTableProofs.tla

The other runs and proofs likewise: `PROJECT.json` pairs the configurations with their
modules.

## 7. Plan

1. Make the proofs say more: that `MountTable` with an unlocking that fails leaks at most
   the client it could not unlock; that a disc's startup and shutdown implement an abstract
   disc that is in or out.
2. Compose the mount table and the disc interface with the library's lifecycle, in
   place of a call that may fail.
3. Compose `FileOpen` with `FileIO`, for a close that overlaps a call on the file.
