------------------------------ MODULE FileOpen ------------------------------
(***************************************************************************)
(* Opening and closing files: __fsa_open and __fsa_close of                *)
(* source/devoptab.                                                        *)
(*                                                                         *)
(* FSA opens files by an fopen mode, and for some of the flags of open()   *)
(* there is no such mode.  __fsa_open makes up for it with FSAGetStat      *)
(* before and another FSAOpenFileEx in between.  Several callers open the  *)
(* same path and others change it; every FSA call is a step, and the mutex *)
(* that __fsa_open takes is that of its own, new file.                     *)
(***************************************************************************)
EXTENDS FiniteSets, Conversions

CONSTANTS
  Callers,   \* each has at most one file open
  FdSet,     \* FSA file handles
  NoFd,
  MayFail    \* the FSA calls that may fail for reasons of their own

FsaCalls == {"stat", "open", "statfile", "close"}

ASSUME ConstantsOK ==
  /\ NoFd \notin FdSet
  /\ IsFiniteSet(FdSet)
  /\ MayFail \subseteq FsaCalls

\* The flags of open() that decide anything, O_ACCMODE first.
Flags == [acc : {"rdonly", "wronly", "rdwr"},
          creat : BOOLEAN, trunc : BOOLEAN, append : BOOLEAN, excl : BOOLEAN]

NoFlags == [acc |-> "rdonly", creat |-> FALSE, trunc |-> FALSE,
            append |-> FALSE, excl |-> FALSE]

VARIABLES
  file,       \* what is at the path: "none", "empty", "full" or "dir"
  fsaOpen,    \* the FSA file handles that are open
  abandoned,  \* those whose FSACloseFile failed: nobody knows them any more
  pc, flags, fd,
  errno,      \* how the last open or close ended, "OK" for success
  before,     \* what was at the path when the call under way began
  alone       \* nothing has interfered with the call: no failure, no other's change

vars == <<file, fsaOpen, abandoned, pc, flags, fd, errno, before, alone>>

Init ==
  /\ file \in {"none", "empty", "full", "dir"}
  /\ fsaOpen = {}
  /\ abandoned = {}
  /\ pc = [c \in Callers |-> "closed"]
  /\ flags = [c \in Callers |-> NoFlags]
  /\ fd = [c \in Callers |-> NoFd]
  /\ errno = [c \in Callers |-> "OK"]
  /\ before = [c \in Callers |-> "none"]
  /\ alone = [c \in Callers |-> FALSE]
-----------------------------------------------------------------------------
(* The flags and the fopen modes.                                          *)

Exclusive(f) == f.creat /\ f.excl

\* O_CREAT alone: the file is made first, and then opened without truncation.
CreatesFirst(f) == f.acc # "rdonly" /\ f.creat /\ ~f.trunc /\ ~f.append /\ ~f.excl

\* O_APPEND or O_TRUNC without O_CREAT: only the stat keeps FSA from creating.
MustExist(f) == f.acc = "wronly" /\ ~f.creat /\ f.append # f.trunc

\* Mutant of Mode: with O_EXCL, O_CREAT opens like O_CREAT alone.
ModeExclKeeps(f) ==
  CASE ~f.creat /\ ~f.trunc /\ ~f.append /\ f.acc = "rdonly" -> "r"
    [] ~f.creat /\ ~f.trunc /\ ~f.append /\ f.acc = "rdwr"   -> "r+"
    [] f.creat /\ f.trunc /\ ~f.append /\ f.acc # "rdonly"   -> "w"
    [] f.creat /\ ~f.trunc /\ ~f.append /\ f.acc # "rdonly"  -> "r+"
    [] f.creat /\ ~f.trunc /\ f.append /\ f.acc # "rdonly"   -> "a"
    [] MustExist(f) -> IF f.append THEN "a" ELSE "w"
    [] OTHER -> "EINVAL"

\* The mode of the FSAOpenFileEx that stays open, "w" for "w+" and "a" for "a+";
\* "EINVAL" of the flags that are not supported.
Mode(f) ==
  CASE ~f.creat /\ ~f.trunc /\ ~f.append /\ f.acc = "rdonly" -> "r"
    [] ~f.creat /\ ~f.trunc /\ ~f.append /\ f.acc = "rdwr"   -> "r+"
    [] f.creat /\ f.trunc /\ ~f.append /\ f.acc # "rdonly"   -> "w"
    [] Exclusive(f) /\ ~f.trunc /\ ~f.append /\ f.acc # "rdonly" -> "w"
    [] f.creat /\ ~f.trunc /\ f.append /\ f.acc # "rdonly"   -> "a"
    [] CreatesFirst(f) -> "r+"
    [] MustExist(f) -> IF f.append THEN "a" ELSE "w"
    [] OTHER -> "EINVAL"
-----------------------------------------------------------------------------
(* FSA.                                                                    *)

OpenErrors == {"NOT_FILE", "NOT_FOUND"}

\* What FSAOpenFileEx makes of the path, or an error.
Opening(mode, what) ==
  IF what = "dir" THEN "NOT_FILE"
  ELSE IF what = "none" /\ mode \in {"r", "r+"} THEN "NOT_FOUND"
  ELSE IF what = "none" \/ mode = "w" THEN "empty"
  ELSE what

\* A change of the path by c interferes with the calls of the others.
Change(c, what) ==
  /\ file' = what
  /\ alone' = [d \in Callers |-> alone[d] /\ (d = c \/ what = file)]

Fails(c) ==
  /\ UNCHANGED file
  /\ alone' = [alone EXCEPT ![c] = FALSE]

\* FSAOpenFileEx gives c a new handle f.
Opened(c, mode, f) ==
  /\ Opening(mode, file) \notin OpenErrors
  /\ f \notin fsaOpen
  /\ fsaOpen' = fsaOpen \cup {f}
  /\ fd' = [fd EXCEPT ![c] = f]
  /\ Change(c, Opening(mode, file))

\* FSACloseFile of the handle c has; failing, it leaves the handle open.
CloseFile(c) ==
  \/ /\ fsaOpen' = fsaOpen \ {fd[c]}
     /\ UNCHANGED <<abandoned, file, alone>>
  \/ /\ "close" \in MayFail
     /\ abandoned' = abandoned \cup {fd[c]}
     /\ Fails(c)
     /\ UNCHANGED fsaOpen
-----------------------------------------------------------------------------
Goto(c, next) == pc' = [pc EXCEPT ![c] = next]

\* The call goes on.
Continue(c, next) == Goto(c, next) /\ UNCHANGED <<flags, errno, before>>

\* The call returns; an open file keeps its access mode and O_APPEND.
Answer(c, status) ==
  /\ Goto(c, IF status = "OK" THEN "opened" ELSE "closed")
  /\ errno' = [errno EXCEPT ![c] = status]
  /\ flags' = [flags EXCEPT ![c] =
                 IF status = "OK" THEN [NoFlags EXCEPT !.acc = flags[c].acc, !.append = flags[c].append]
                                  ELSE NoFlags]
  /\ before' = [before EXCEPT ![c] = "none"]

BeginOpen(c) ==
  /\ pc[c] = "closed"
  /\ \E f \in Flags :
       \/ Mode(f) = "EINVAL" /\ Answer(c, "EINVAL") /\ UNCHANGED alone
       \/ /\ Mode(f) # "EINVAL"
          /\ Goto(c, IF CreatesFirst(f) \/ MustExist(f) \/ Exclusive(f)
                     THEN "stat" ELSE "open")
          /\ flags' = [flags EXCEPT ![c] = f]
          /\ before' = [before EXCEPT ![c] = file]
          /\ alone' = [alone EXCEPT ![c] = TRUE]
          /\ errno' = [errno EXCEPT ![c] = "OK"]
  /\ UNCHANGED <<file, fsaOpen, abandoned, fd>>

\* FSAGetStat.  Any error but NOT_FOUND is taken for neither answer.
StatPath(c) ==
  /\ pc[c] = "stat"
  /\ UNCHANGED <<fsaOpen, abandoned, fd>>
  /\ \/ /\ file = "none" /\ MustExist(flags[c])
        /\ Answer(c, TranslateError("NOT_FOUND"))
        /\ UNCHANGED <<file, alone>>
     \/ /\ file # "none" /\ Exclusive(flags[c])
        /\ Answer(c, "EEXIST")
        /\ UNCHANGED <<file, alone>>
     \/ /\ ~(IF file = "none" THEN MustExist(flags[c]) ELSE Exclusive(flags[c]))
        /\ Continue(c, IF file = "none" /\ CreatesFirst(flags[c]) THEN "create" ELSE "open")
        /\ UNCHANGED <<file, alone>>
     \/ "stat" \in MayFail /\ Fails(c) /\ Continue(c, "open")

\* An FSAOpenFileEx that leads to `next', or fails.
OpenStep(c, mode, next) ==
  \/ /\ \E f \in FdSet : Opened(c, mode, f)
     /\ IF next = "opened" THEN Answer(c, "OK") ELSE Continue(c, next)
  \/ /\ Opening(mode, file) \in OpenErrors
     /\ Answer(c, TranslateError(Opening(mode, file)))
     /\ UNCHANGED <<file, alone, fsaOpen, fd>>
  \/ /\ \/ "open" \in MayFail /\ Answer(c, TranslateError("MEDIA_ERROR"))
        \/ fsaOpen = FdSet /\ Answer(c, TranslateError("MAX_FILES"))
     /\ Fails(c)
     /\ UNCHANGED <<fsaOpen, fd>>

\* Mutant of CreateFile: the handle is closed whether there is one or not.
CreateFileUnchecked(c) ==
  /\ pc[c] = "create"
  /\ \/ \E f \in FdSet : Opened(c, "w", f)
     \/ Fails(c) /\ UNCHANGED <<fsaOpen, fd>>
  /\ Continue(c, "closenew")
  /\ UNCHANGED abandoned

CreateFile(c) ==
  /\ pc[c] = "create"
  /\ OpenStep(c, "w", "closenew")
  /\ UNCHANGED abandoned

\* A failure to close the new file is logged only.
CloseNew(c) ==
  /\ pc[c] = "closenew"
  /\ CloseFile(c)
  /\ fd' = [fd EXCEPT ![c] = NoFd]
  /\ Continue(c, "open")

OpenFile(c) ==
  /\ pc[c] = "open"
  /\ OpenStep(c, Mode(flags[c]), IF flags[c].append THEN "statfile" ELSE "opened")
  /\ UNCHANGED abandoned

\* FSAGetStatFile, for the offset at which an appending file begins.
StatFile(c) ==
  /\ pc[c] = "statfile"
  /\ \/ Answer(c, "OK") /\ UNCHANGED <<file, alone>>
     \/ "statfile" \in MayFail /\ Fails(c) /\ Continue(c, "closefailed")
  /\ UNCHANGED <<fsaOpen, abandoned, fd>>

\* Mutant of CloseFailed: what was opened stays open.
CloseFailedForgets(c) ==
  /\ pc[c] = "closefailed"
  /\ fd' = [fd EXCEPT ![c] = NoFd]
  /\ Answer(c, TranslateError("MEDIA_ERROR"))
  /\ UNCHANGED <<file, alone, fsaOpen, abandoned>>

CloseFailed(c) ==
  /\ pc[c] = "closefailed"
  /\ CloseFile(c)
  /\ fd' = [fd EXCEPT ![c] = NoFd]
  /\ Answer(c, TranslateError("MEDIA_ERROR"))

\* __fsa_close.  newlib frees the file whatever it returns.
Close(c) ==
  /\ pc[c] = "opened"
  /\ CloseFile(c)
  /\ fd' = [fd EXCEPT ![c] = NoFd]
  /\ Goto(c, "closed")
  /\ flags' = [flags EXCEPT ![c] = NoFlags]
  /\ errno' = [errno EXCEPT ![c] = IF fd[c] \in abandoned' THEN TranslateError("MEDIA_ERROR")
                                                                 ELSE "OK"]
  /\ UNCHANGED before

\* A write through an open file.
Fill(c) ==
  /\ pc[c] = "opened" /\ flags[c].acc # "rdonly"
  /\ file = "empty"
  /\ Change(c, "full")
  /\ UNCHANGED <<fsaOpen, abandoned, pc, flags, fd, errno, before>>

\* Somebody else removes or replaces what is at the path.
Elsewhere ==
  /\ \E what \in {"none", "empty", "full", "dir"} :
       /\ what # file
       /\ file' = what
       /\ alone' = [c \in Callers |-> FALSE]
  /\ UNCHANGED <<fsaOpen, abandoned, pc, flags, fd, errno, before>>

Next ==
  \/ \E c \in Callers :
       \/ BeginOpen(c) \/ StatPath(c) \/ CreateFile(c) \/ CloseNew(c)
       \/ OpenFile(c) \/ StatFile(c) \/ CloseFailed(c) \/ Close(c) \/ Fill(c)
  \/ Elsewhere

Spec == Init /\ [][Next]_vars
-----------------------------------------------------------------------------
(* Properties.                                                             *)

\* Every variable stays in its range.
TypeOK ==
  /\ file \in {"none", "empty", "full", "dir"}
  /\ fsaOpen \subseteq FdSet
  /\ abandoned \subseteq FdSet
  /\ pc \in [Callers -> {"closed", "stat", "create", "closenew", "open",
                         "statfile", "closefailed", "opened"}]
  /\ flags \in [Callers -> Flags]
  /\ fd \in [Callers -> FdSet \cup {NoFd}]
  /\ errno \in [Callers -> {"OK", "EINVAL", "ENOENT", "EEXIST", "EISDIR", "EIO", "EMFILE"}]
  /\ before \in [Callers -> {"none", "empty", "full", "dir"}]
  /\ alone \in [Callers -> BOOLEAN]

\* Every open FSA handle belongs to one file or one call under way, but for those
\* FSA refused to close: no path through open or close loses one, or closes the
\* handle of another.
HandlesOwned ==
  /\ fsaOpen = (abandoned \cup {fd[c] : c \in Callers}) \ {NoFd}
  /\ \A c, d \in Callers : fd[c] # NoFd => fd[c] \notin abandoned /\ (c # d => fd[c] # fd[d])
  /\ \A c \in Callers : fd[c] # NoFd <=> pc[c] \in {"closenew", "statfile", "closefailed", "opened"}

\* What POSIX has open() do: the status, and what is at the path afterwards.
\* One exception: FSA opens files only, so that a directory is refused for
\* reading as well.
Posix(f, what) ==
  CASE what = "none" -> IF f.creat THEN [errno |-> "OK", file |-> "empty"]
                                   ELSE [errno |-> "ENOENT", file |-> "none"]
    [] what # "none" /\ Exclusive(f) -> [errno |-> "EEXIST", file |-> what]
    [] what = "dir" /\ ~Exclusive(f) -> [errno |-> "EISDIR", file |-> "dir"]
    [] OTHER -> [errno |-> "OK", file |-> IF f.trunc THEN "empty" ELSE what]

\* The stat, the creation and the open add up to what POSIX promises for the
\* flags, when no FSA call fails and nobody interferes: a file is made, kept,
\* emptied or reported missing or present as the flags say, also where FSA
\* has no mode for them.
OpenMatchesPosix ==
  [][\A c \in Callers :
       (/\ pc[c] \notin {"closed", "opened"} /\ pc'[c] \in {"closed", "opened"}
        /\ alone'[c])
         => [errno |-> errno'[c], file |-> file'] = Posix(flags[c], before[c])]_vars

\* devoptab_fsa_open.cpp:119, "If O_CREAT and O_EXCL are set, open() shall fail if
\* the file exists.": the call that opens it does so only where nothing is.
ExclusiveOpenCreates ==
  [][\A c \in Callers :
       (/\ pc[c] = "open" /\ pc'[c] \in {"statfile", "opened"}
        /\ Exclusive(flags[c]))
         => file = "none"]_vars
=============================================================================
