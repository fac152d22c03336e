--------------------------- MODULE FileOpenProofs ---------------------------
(***************************************************************************)
(* Proofs about FileOpen, for any callers and FSA handles, and any set of  *)
(* FSA calls that may fail: its type invariant, and that every open FSA    *)
(* handle belongs to one file or one call.                                 *)
(***************************************************************************)
EXTENDS FileOpen, TLAPS

USE DEF vars

\* Where a call has a handle, or a file is open.
HasFd == {"closenew", "statfile", "closefailed", "opened"}
Pcs   == {"closed", "stat", "create", "open"} \cup HasFd

Contents == {"none", "empty", "full", "dir"}
Errnos   == {"OK", "EINVAL", "ENOENT", "EEXIST", "EISDIR", "EIO", "EMFILE"}

\* TypeOK in two parts, what FSA has and what a call keeps.
FsaTypes ==
  /\ file \in Contents
  /\ fsaOpen \subseteq FdSet
  /\ abandoned \subseteq FdSet
  /\ fd \in [Callers -> FdSet \cup {NoFd}]
  /\ alone \in [Callers -> BOOLEAN]

CallTypes ==
  /\ pc \in [Callers -> Pcs]
  /\ flags \in [Callers -> Flags]
  /\ errno \in [Callers -> Errnos]
  /\ before \in [Callers -> Contents]

LEMMA TypeParts == TypeOK <=> FsaTypes /\ CallTypes
BY DEF TypeOK, FsaTypes, CallTypes, Pcs, HasFd, Contents, Errnos

LEMMA TypePartsNext == TypeOK' <=> FsaTypes' /\ CallTypes'
BY DEF TypeOK, FsaTypes, CallTypes, Pcs, HasFd, Contents, Errnos

\* HandlesOwned says where every handle is, and so is inductive with TypeOK.
IInv == TypeOK /\ HandlesOwned

\* A step of c leaves the calls of the others where they are.
OthersStay(c) == \A d \in Callers \ {c} : pc'[d] = pc[d]
-----------------------------------------------------------------------------
(* What a step may do to the handles: nothing, open one, or close one.     *)

LEMMA HandlesKept ==
  ASSUME IInv, FsaTypes', CallTypes', NEW c \in Callers, OthersStay(c),
         UNCHANGED <<fsaOpen, abandoned, fd>>, pc'[c] \in HasFd <=> pc[c] \in HasFd
  PROVE  IInv'
<1>1. TypeOK'
  BY TypePartsNext
<1>2. HandlesOwned'
  BY DEF IInv, HandlesOwned, OthersStay, HasFd
<1> QED
  BY <1>1, <1>2 DEF IInv

LEMMA HandleOpened ==
  ASSUME IInv, FsaTypes', CallTypes', NEW c \in Callers, OthersStay(c),
         pc[c] \notin HasFd, pc'[c] \in HasFd, NEW f \in FdSet, f \notin fsaOpen,
         fsaOpen' = fsaOpen \cup {f}, fd' = [fd EXCEPT ![c] = f], UNCHANGED abandoned
  PROVE  IInv'
<1>1. TypeOK'
  BY TypePartsNext
<1>2. /\ fd \in [Callers -> FdSet \cup {NoFd}] /\ abandoned \subseteq FdSet
      /\ NoFd \notin FdSet /\ fd[c] = NoFd
  BY ConstantsOK DEF IInv, TypeOK, HandlesOwned, HasFd
<1>3. fd'[c] = f /\ \A d \in Callers \ {c} : fd'[d] = fd[d]
  BY <1>2
<1>4. f \notin abandoned /\ \A d \in Callers : fd[d] # f
  BY <1>2 DEF IInv, HandlesOwned
<1>5. {fd'[d] : d \in Callers} \ {NoFd} = ({fd[d] : d \in Callers} \cup {f}) \ {NoFd}
  BY <1>2, <1>3
<1>6. fsaOpen' = (abandoned' \cup {fd'[d] : d \in Callers}) \ {NoFd}
  BY <1>2, <1>5 DEF IInv, HandlesOwned
<1>7. \A d, e \in Callers : fd'[d] # NoFd => fd'[d] \notin abandoned'
                                             /\ (d # e => fd'[d] # fd'[e])
  BY <1>2, <1>3, <1>4 DEF IInv, HandlesOwned
<1>8. \A d \in Callers : fd'[d] # NoFd
        <=> pc'[d] \in {"closenew", "statfile", "closefailed", "opened"}
  BY <1>2, <1>3 DEF IInv, HandlesOwned, OthersStay, HasFd
<1> QED
  BY <1>1, <1>6, <1>7, <1>8 DEF IInv, HandlesOwned

\* FSA may have refused to close it: then nobody has it.
LEMMA HandleClosed ==
  ASSUME IInv, FsaTypes', CallTypes', NEW c \in Callers, OthersStay(c),
         pc[c] \in HasFd, pc'[c] \notin HasFd, CloseFile(c),
         fd' = [fd EXCEPT ![c] = NoFd]
  PROVE  IInv'
<1>1. TypeOK'
  BY TypePartsNext
<1>2. /\ fd \in [Callers -> FdSet \cup {NoFd}] /\ abandoned \subseteq FdSet
      /\ NoFd \notin FdSet /\ fd[c] # NoFd /\ fd[c] \in FdSet
  BY ConstantsOK DEF IInv, TypeOK, HandlesOwned, HasFd
<1>3. fd'[c] = NoFd /\ \A d \in Callers \ {c} : fd'[d] = fd[d] /\ fd[d] # fd[c]
  BY <1>2 DEF IInv, HandlesOwned
<1>4. {fd'[d] : d \in Callers} \ {NoFd} = {fd[d] : d \in Callers} \ {NoFd, fd[c]}
  BY <1>2, <1>3
<1>5. fd[c] \notin abandoned
  BY <1>2 DEF IInv, HandlesOwned
<1>6. fsaOpen' = (abandoned' \cup {fd'[d] : d \in Callers}) \ {NoFd}
  <2>1. CASE fsaOpen' = fsaOpen \ {fd[c]} /\ abandoned' = abandoned
    BY <1>2, <1>4, <1>5, <2>1 DEF IInv, HandlesOwned
  <2>2. CASE fsaOpen' = fsaOpen /\ abandoned' = abandoned \cup {fd[c]}
    BY <1>2, <1>4, <1>5, <2>2 DEF IInv, HandlesOwned
  <2> QED
    BY <2>1, <2>2 DEF CloseFile
<1>7. \A d, e \in Callers : fd'[d] # NoFd => fd'[d] \notin abandoned'
                                             /\ (d # e => fd'[d] # fd'[e])
  BY <1>2, <1>3 DEF IInv, HandlesOwned, CloseFile
<1>8. \A d \in Callers : fd'[d] # NoFd
        <=> pc'[d] \in {"closenew", "statfile", "closefailed", "opened"}
  BY <1>2, <1>3 DEF IInv, HandlesOwned, OthersStay, HasFd
<1> QED
  BY <1>1, <1>6, <1>7, <1>8 DEF IInv, HandlesOwned
-----------------------------------------------------------------------------
(* What the parts of actions do.                                           *)

LEMMA AnswerEffect ==
  ASSUME TypeOK, NEW c \in Callers, NEW status \in Errnos, Answer(c, status)
  PROVE  /\ CallTypes' /\ OthersStay(c)
         /\ pc'[c] = IF status = "OK" THEN "opened" ELSE "closed"
<1>1. \A a \in {"rdonly", "wronly", "rdwr"}, b \in BOOLEAN :
        [NoFlags EXCEPT !.acc = a, !.append = b] \in Flags
  BY DEF NoFlags, Flags
<1>2. NoFlags \in Flags
  BY DEF NoFlags, Flags
<1>3. flags[c].acc \in {"rdonly", "wronly", "rdwr"} /\ flags[c].append \in BOOLEAN
  BY DEF TypeOK, Flags
<1>4. flags' \in [Callers -> Flags]
  BY <1>1, <1>2, <1>3 DEF Answer, TypeOK
<1>5. /\ pc' = [pc EXCEPT ![c] = IF status = "OK" THEN "opened" ELSE "closed"]
      /\ errno' = [errno EXCEPT ![c] = status]
      /\ before' = [before EXCEPT ![c] = "none"]
  BY DEF Answer, Goto
<1> QED
  BY <1>4, <1>5 DEF TypeOK, CallTypes, OthersStay, Pcs, HasFd, Contents, Errnos

LEMMA ContinueEffect ==
  ASSUME TypeOK, NEW c \in Callers, NEW next \in Pcs, Continue(c, next)
  PROVE  CallTypes' /\ OthersStay(c) /\ pc'[c] = next
BY DEF TypeOK, CallTypes, Continue, Goto, OthersStay, Pcs, HasFd, Contents, Errnos

LEMMA FailsEffect ==
  ASSUME TypeOK, NEW c \in Callers, Fails(c), fsaOpen' \subseteq FdSet,
         abandoned' \subseteq FdSet, fd' \in [Callers -> FdSet \cup {NoFd}]
  PROVE  FsaTypes'
BY DEF TypeOK, FsaTypes, Fails, Contents

LEMMA CloseFileEffect ==
  ASSUME TypeOK, NEW c \in Callers, fd[c] \in FdSet, CloseFile(c),
         fd' = [fd EXCEPT ![c] = NoFd]
  PROVE  FsaTypes'
BY DEF TypeOK, FsaTypes, CloseFile, Fails, Contents

\* The errors FSA gives here and what open() makes of them.
LEMMA Errors ==
  /\ TranslateError("NOT_FOUND") = "ENOENT"
  /\ TranslateError("NOT_FILE") = "EISDIR"
  /\ TranslateError("MEDIA_ERROR") = "EIO"
  /\ TranslateError("MAX_FILES") = "EMFILE"
BY DEF TranslateError

\* An FSAOpenFileEx gains a handle and goes on, or answers without one.
LEMMA OpenStepInvariant ==
  ASSUME IInv, NEW c \in Callers, pc[c] \notin HasFd, NEW mode, NEW next \in HasFd,
         OpenStep(c, mode, next), UNCHANGED abandoned
  PROVE  IInv'
<1>0. TypeOK
  BY DEF IInv
<1>1. CASE /\ \E f \in FdSet : Opened(c, mode, f)
           /\ IF next = "opened" THEN Answer(c, "OK") ELSE Continue(c, next)
  <2>1. PICK f \in FdSet : Opened(c, mode, f)
    BY <1>1
  <2>2. /\ f \notin fsaOpen /\ fsaOpen' = fsaOpen \cup {f}
        /\ fd' = [fd EXCEPT ![c] = f]
        /\ Opening(mode, file) \notin OpenErrors /\ file' = Opening(mode, file)
        /\ alone' \in [Callers -> BOOLEAN]
    BY <1>0, <2>1 DEF Opened, Change, TypeOK
  <2>3. file' \in Contents
    BY <1>0, <2>2 DEF Opening, OpenErrors, Contents, TypeOK
  <2>4. FsaTypes'
    BY <1>0, <2>2, <2>3 DEF FsaTypes, TypeOK
  <2>5. CallTypes' /\ OthersStay(c) /\ pc'[c] = next
    <3>1. "OK" \in Errnos /\ next \in Pcs
      BY DEF Errnos, Pcs
    <3> QED
      BY <1>0, <1>1, <3>1, AnswerEffect, ContinueEffect
  <2> QED
    BY <2>2, <2>4, <2>5, HandleOpened
<1>2. CASE /\ Opening(mode, file) \in OpenErrors
           /\ Answer(c, TranslateError(Opening(mode, file)))
           /\ UNCHANGED <<file, alone, fsaOpen, fd>>
  <2>1. PICK status \in {"ENOENT", "EISDIR"} : Answer(c, status)
    BY <1>2, Errors DEF OpenErrors
  <2>2. CallTypes' /\ OthersStay(c) /\ pc'[c] = "closed"
    BY <1>0, <2>1, AnswerEffect DEF Errnos
  <2>3. FsaTypes'
    BY <1>0, <1>2 DEF FsaTypes, TypeOK, Contents
  <2> QED
    BY <1>2, <2>2, <2>3, HandlesKept DEF HasFd
<1>3. CASE /\ \/ "open" \in MayFail /\ Answer(c, TranslateError("MEDIA_ERROR"))
              \/ fsaOpen = FdSet /\ Answer(c, TranslateError("MAX_FILES"))
           /\ Fails(c)
           /\ UNCHANGED <<fsaOpen, fd>>
  <2>1. PICK status \in {"EIO", "EMFILE"} : Answer(c, status)
    BY <1>3, Errors
  <2>2. CallTypes' /\ OthersStay(c) /\ pc'[c] = "closed"
    BY <1>0, <2>1, AnswerEffect DEF Errnos
  <2>3. FsaTypes'
    BY <1>0, <1>3, FailsEffect DEF TypeOK
  <2> QED
    BY <1>3, <2>2, <2>3, HandlesKept DEF HasFd
<1> QED
  BY <1>1, <1>2, <1>3 DEF OpenStep
-----------------------------------------------------------------------------
(* Every action keeps the invariant.                                       *)

LEMMA BeginOpenInvariant ==
  ASSUME IInv, NEW c \in Callers, BeginOpen(c)
  PROVE  IInv'
<1>0. TypeOK /\ UNCHANGED <<file, fsaOpen, abandoned, fd>> /\ pc[c] = "closed"
  BY DEF IInv, BeginOpen
<1>1. PICK f \in Flags :
        \/ Answer(c, "EINVAL") /\ UNCHANGED alone
        \/ /\ \E next \in {"stat", "open"} : Goto(c, next)
           /\ flags' = [flags EXCEPT ![c] = f]
           /\ before' = [before EXCEPT ![c] = file]
           /\ alone' = [alone EXCEPT ![c] = TRUE]
           /\ errno' = [errno EXCEPT ![c] = "OK"]
  BY DEF BeginOpen
<1>2. FsaTypes'
  BY <1>0, <1>1 DEF FsaTypes, TypeOK, Contents
<1>3. CallTypes' /\ OthersStay(c) /\ pc'[c] \in {"closed", "stat", "open"}
  <2>1. CASE Answer(c, "EINVAL")
    BY <1>0, <2>1, AnswerEffect DEF Errnos
  <2>2. CASE /\ \E next \in {"stat", "open"} : Goto(c, next)
             /\ flags' = [flags EXCEPT ![c] = f]
             /\ before' = [before EXCEPT ![c] = file]
             /\ alone' = [alone EXCEPT ![c] = TRUE]
             /\ errno' = [errno EXCEPT ![c] = "OK"]
    BY <1>0, <2>2 DEF CallTypes, TypeOK, Goto, OthersStay, Pcs, HasFd, Contents, Errnos
  <2> QED
    BY <1>1, <2>1, <2>2
<1> QED
  BY <1>0, <1>2, <1>3, HandlesKept DEF HasFd

LEMMA StatPathInvariant ==
  ASSUME IInv, NEW c \in Callers, StatPath(c)
  PROVE  IInv'
<1>0. TypeOK /\ UNCHANGED <<fsaOpen, abandoned, fd>> /\ pc[c] = "stat"
  BY DEF IInv, StatPath
<1>1. \/ \E status \in {"ENOENT", "EEXIST"} : Answer(c, status)
      \/ \E next \in {"create", "open"} : Continue(c, next)
  BY Errors DEF StatPath
<1>2. FsaTypes'
  BY <1>0, FailsEffect DEF StatPath, FsaTypes, TypeOK, Contents
<1>3. CallTypes' /\ OthersStay(c) /\ pc'[c] \in {"closed", "create", "open"}
  BY <1>0, <1>1, AnswerEffect, ContinueEffect DEF Errnos, Pcs
<1> QED
  BY <1>0, <1>2, <1>3, HandlesKept DEF HasFd

LEMMA CloseNewInvariant ==
  ASSUME IInv, NEW c \in Callers, CloseNew(c)
  PROVE  IInv'
<1>0. /\ TypeOK /\ pc[c] = "closenew" /\ CloseFile(c)
      /\ fd' = [fd EXCEPT ![c] = NoFd] /\ Continue(c, "open")
  BY DEF IInv, CloseNew
<1>1. fd[c] \in FdSet
  BY <1>0 DEF IInv, HandlesOwned, TypeOK
<1>2. CallTypes' /\ OthersStay(c) /\ pc'[c] = "open"
  BY <1>0, ContinueEffect DEF Pcs
<1> QED
  BY <1>0, <1>1, <1>2, CloseFileEffect, HandleClosed DEF HasFd

LEMMA StatFileInvariant ==
  ASSUME IInv, NEW c \in Callers, StatFile(c)
  PROVE  IInv'
<1>0. TypeOK /\ UNCHANGED <<fsaOpen, abandoned, fd>> /\ pc[c] = "statfile"
  BY DEF IInv, StatFile
<1>1. FsaTypes'
  BY <1>0, FailsEffect DEF StatFile, FsaTypes, TypeOK, Contents
<1>2. CallTypes' /\ OthersStay(c) /\ pc'[c] \in {"opened", "closefailed"}
  BY <1>0, AnswerEffect, ContinueEffect DEF StatFile, Errnos, Pcs, HasFd
<1> QED
  BY <1>0, <1>1, <1>2, HandlesKept DEF HasFd

LEMMA CloseFailedInvariant ==
  ASSUME IInv, NEW c \in Callers, CloseFailed(c)
  PROVE  IInv'
<1>0. /\ TypeOK /\ pc[c] = "closefailed" /\ CloseFile(c)
      /\ fd' = [fd EXCEPT ![c] = NoFd] /\ Answer(c, "EIO")
  BY Errors DEF IInv, CloseFailed
<1>1. fd[c] \in FdSet
  BY <1>0 DEF IInv, HandlesOwned, TypeOK
<1>2. CallTypes' /\ OthersStay(c) /\ pc'[c] = "closed"
  BY <1>0, AnswerEffect DEF Errnos
<1> QED
  BY <1>0, <1>1, <1>2, CloseFileEffect, HandleClosed DEF HasFd

LEMMA CloseInvariant ==
  ASSUME IInv, NEW c \in Callers, Close(c)
  PROVE  IInv'
<1>0. /\ TypeOK /\ pc[c] = "opened" /\ CloseFile(c)
      /\ fd' = [fd EXCEPT ![c] = NoFd]
  BY DEF IInv, Close
<1>1. fd[c] \in FdSet
  BY <1>0 DEF IInv, HandlesOwned, TypeOK
<1>2. CallTypes' /\ OthersStay(c) /\ pc'[c] = "closed"
  <2>1. NoFlags \in Flags
    BY DEF NoFlags, Flags
  <2>2. \E status \in {"EIO", "OK"} : errno' = [errno EXCEPT ![c] = status]
    BY Errors DEF Close
  <2> QED
    BY <1>0, <2>1, <2>2
       DEF Close, Goto, CallTypes, TypeOK, OthersStay, Pcs, HasFd, Contents, Errnos
<1> QED
  BY <1>0, <1>1, <1>2, CloseFileEffect, HandleClosed DEF HasFd

LEMMA InvariantStep == IInv /\ [Next]_vars => IInv'
<1> SUFFICES ASSUME IInv, [Next]_vars PROVE IInv'
  OBVIOUS
<1>1. ASSUME NEW c \in Callers, BeginOpen(c) PROVE IInv'
  BY <1>1, BeginOpenInvariant
<1>2. ASSUME NEW c \in Callers, StatPath(c) PROVE IInv'
  BY <1>2, StatPathInvariant
<1>3. ASSUME NEW c \in Callers, CreateFile(c) PROVE IInv'
  BY <1>3, OpenStepInvariant DEF CreateFile, HasFd
<1>4. ASSUME NEW c \in Callers, CloseNew(c) PROVE IInv'
  BY <1>4, CloseNewInvariant
<1>5. ASSUME NEW c \in Callers, OpenFile(c) PROVE IInv'
  <2>1. PICK next \in {"statfile", "opened"} : OpenStep(c, Mode(flags[c]), next)
    BY <1>5 DEF OpenFile
  <2> QED
    BY <1>5, <2>1, OpenStepInvariant DEF OpenFile, HasFd
<1>6. ASSUME NEW c \in Callers, StatFile(c) PROVE IInv'
  BY <1>6, StatFileInvariant
<1>7. ASSUME NEW c \in Callers, CloseFailed(c) PROVE IInv'
  BY <1>7, CloseFailedInvariant
<1>8. ASSUME NEW c \in Callers, Close(c) PROVE IInv'
  BY <1>8, CloseInvariant
<1>9. ASSUME NEW c \in Callers, Fill(c) PROVE IInv'
  BY <1>9 DEF Fill, Change, IInv, TypeOK, HandlesOwned
<1>10. CASE Elsewhere
  BY <1>10 DEF Elsewhere, IInv, TypeOK, HandlesOwned
<1>11. CASE UNCHANGED vars
  BY <1>11 DEF IInv, TypeOK, HandlesOwned
<1> QED
  BY <1>1, <1>2, <1>3, <1>4, <1>5, <1>6, <1>7, <1>8, <1>9, <1>10, <1>11 DEF Next

LEMMA InitInvariant == Init => IInv
<1>1. NoFlags \in Flags
  BY DEF NoFlags, Flags
<1> QED
  BY <1>1, ConstantsOK DEF Init, IInv, TypeOK, HandlesOwned

LEMMA Invariance == Spec => []IInv
BY InitInvariant, InvariantStep, PTL DEF Spec
-----------------------------------------------------------------------------
(* Opening and POSIX.                                                      *)

\* How far a call that nothing has interfered with has come.
Undisturbed(c) ==
  LET f == flags[c]
      b == before[c]
  IN CASE pc[c] = "stat" -> file = b
       [] pc[c] = "create" -> CreatesFirst(f) /\ b = "none" /\ file = "none"
       [] pc[c] = "closenew" -> CreatesFirst(f) /\ b = "none" /\ file = "empty"
       [] pc[c] = "open" -> \/ CreatesFirst(f) /\ b = "none" /\ file = "empty"
                            \/ /\ file = b
                               /\ IF b = "none" THEN ~MustExist(f) /\ ~CreatesFirst(f)
                                                ELSE ~Exclusive(f)
       [] pc[c] = "statfile" -> Posix(f, b) = [errno |-> "OK", file |-> file]
       [] OTHER -> FALSE

UnderWay(c) == pc[c] \notin {"closed", "opened"}

CallOK(c) == UnderWay(c) => Mode(flags[c]) # "EINVAL" /\ (alone[c] => Undisturbed(c))

\* What OpenMatchesPosix says of one caller.
AsPosix(c) ==
  UnderWay(c) /\ ~UnderWay(c)' /\ alone'[c]
    => [errno |-> errno'[c], file |-> file'] = Posix(flags[c], before[c])

\* Where the stat and the creation have left no doubt, FSA's mode does the rest.
LEMMA OpeningIsPosix ==
  ASSUME NEW f \in Flags, Mode(f) # "EINVAL", NEW what \in Contents,
         IF what = "none" THEN ~MustExist(f) /\ ~CreatesFirst(f) ELSE ~Exclusive(f)
  PROVE  LET to == Opening(Mode(f), what) IN
         Posix(f, what) = IF to \in OpenErrors
                          THEN [errno |-> TranslateError(to), file |-> what]
                          ELSE [errno |-> "OK", file |-> to]
<1>0. /\ f.acc \in {"rdonly", "wronly", "rdwr"}
      /\ f.creat \in BOOLEAN /\ f.trunc \in BOOLEAN /\ f.append \in BOOLEAN
      /\ f.excl \in BOOLEAN
  BY DEF Flags
<1>1. CASE what = "none" /\ f.creat
  <2>1. Mode(f) \in {"w", "a"}
    BY <1>0, <1>1 DEF Mode, MustExist, CreatesFirst, Exclusive
  <2>2. Opening(Mode(f), what) = "empty"
    BY <1>1, <2>1 DEF Opening
  <2> QED
    BY <1>1, <2>2 DEF Posix, OpenErrors
<1>2. CASE what = "none" /\ ~f.creat
  <2>1. Mode(f) \in {"r", "r+"}
    BY <1>0, <1>2 DEF Mode, MustExist, CreatesFirst, Exclusive
  <2>2. Opening(Mode(f), what) = "NOT_FOUND"
    BY <1>2, <2>1 DEF Opening
  <2>3. Posix(f, what) = [errno |-> "ENOENT", file |-> what]
    BY <1>2 DEF Posix
  <2>4. Opening(Mode(f), what) \in OpenErrors
        /\ TranslateError(Opening(Mode(f), what)) = "ENOENT"
    BY <2>2, Errors, Zenon DEF OpenErrors
  <2> QED
    BY <2>2, <2>3, <2>4
<1>3. CASE what = "dir"
  <2>1. Opening(Mode(f), what) = "NOT_FILE"
    BY <1>3 DEF Opening
  <2>2. Posix(f, what) = [errno |-> "EISDIR", file |-> what]
    BY <1>3 DEF Posix, Exclusive
  <2>3. Opening(Mode(f), what) \in OpenErrors
        /\ TranslateError(Opening(Mode(f), what)) = "EISDIR"
    BY <2>1, Errors, Zenon DEF OpenErrors
  <2> QED
    BY <2>1, <2>2, <2>3
<1>4. CASE what \in {"empty", "full"} /\ f.trunc
  <2>1. Mode(f) = "w"
    BY <1>0, <1>4 DEF Mode, MustExist, CreatesFirst, Exclusive
  <2>2. Opening(Mode(f), what) = "empty"
    BY <1>4, <2>1 DEF Opening
  <2> QED
    BY <1>4, <2>2 DEF Posix, OpenErrors
<1>5. CASE what \in {"empty", "full"} /\ ~f.trunc
  <2>1. Mode(f) \in {"r", "r+", "a"}
    BY <1>0, <1>5 DEF Mode, MustExist, CreatesFirst, Exclusive
  <2>2. Opening(Mode(f), what) = what
    BY <1>5, <2>1 DEF Opening
  <2> QED
    BY <1>5, <2>2 DEF Posix, OpenErrors
<1> QED
  BY <1>0, <1>1, <1>2, <1>3, <1>4, <1>5 DEF Contents

\* The file that was created first is opened as it is.
LEMMA CreatedIsPosix ==
  ASSUME NEW f \in Flags, CreatesFirst(f)
  PROVE  /\ Mode(f) = "r+"
         /\ Opening("w", "none") = "empty" /\ Opening("r+", "empty") = "empty"
         /\ Posix(f, "none") = [errno |-> "OK", file |-> "empty"]
<1>1. Mode(f) = "r+"
  BY DEF Mode, CreatesFirst, Exclusive, MustExist, Flags
<1>2. Opening("w", "none") = "empty" /\ Opening("r+", "empty") = "empty"
  BY DEF Opening
<1>3. Posix(f, "none") = [errno |-> "OK", file |-> "empty"]
  BY DEF Posix, CreatesFirst
<1> QED
  BY <1>1, <1>2, <1>3

\* A step of another call, or of nobody's, leaves a call as it is, or interferes.
LEMMA LeftAlone ==
  ASSUME NEW c \in Callers, CallOK(c), pc'[c] = pc[c], flags'[c] = flags[c],
         before'[c] = before[c], alone'[c] => alone[c] /\ file' = file
  PROVE  CallOK(c)' /\ AsPosix(c)
BY DEF CallOK, AsPosix, UnderWay, Undisturbed

\* What a step of c does to the calls of the others.
LeavesOthers(c) ==
  \A d \in Callers \ {c} :
    /\ pc'[d] = pc[d] /\ flags'[d] = flags[d] /\ before'[d] = before[d]
    /\ alone'[d] => alone[d] /\ file' = file

LEMMA StepLeavesOthers ==
  ASSUME TypeOK, NEW c \in Callers,
         \/ BeginOpen(c) \/ StatPath(c) \/ CreateFile(c) \/ CloseNew(c)
         \/ OpenFile(c) \/ StatFile(c) \/ CloseFailed(c) \/ Close(c) \/ Fill(c)
  PROVE  LeavesOthers(c)
<1> USE DEF LeavesOthers, TypeOK
<1>1. ASSUME NEW status, Answer(c, status)
      PROVE  \A d \in Callers \ {c} :
               pc'[d] = pc[d] /\ flags'[d] = flags[d] /\ before'[d] = before[d]
  BY <1>1 DEF Answer, Goto
<1>2. ASSUME NEW next, Continue(c, next)
      PROVE  \A d \in Callers \ {c} :
               pc'[d] = pc[d] /\ flags'[d] = flags[d] /\ before'[d] = before[d]
  BY <1>2 DEF Continue, Goto
<1>3. ASSUME Fails(c) \/ UNCHANGED <<file, alone>> \/ \E what : Change(c, what)
      PROVE  \A d \in Callers \ {c} : alone'[d] => alone[d] /\ file' = file
  BY <1>3 DEF Fails, Change
<1>4. ASSUME NEW mode, NEW next, OpenStep(c, mode, next) PROVE LeavesOthers(c)
  BY <1>1, <1>2, <1>3, <1>4 DEF OpenStep, Opened
<1>5. ASSUME CloseFile(c)
      PROVE  \A d \in Callers \ {c} : alone'[d] => alone[d] /\ file' = file
  BY <1>3, <1>5 DEF CloseFile
<1>6. CASE BeginOpen(c)
  BY <1>1, <1>6 DEF BeginOpen, Goto
<1>7. CASE StatPath(c)
  BY <1>1, <1>2, <1>3, <1>7 DEF StatPath
<1>8. CASE CreateFile(c) \/ OpenFile(c)
  BY <1>4, <1>8 DEF CreateFile, OpenFile
<1>9. CASE CloseNew(c) \/ CloseFailed(c)
  BY <1>1, <1>2, <1>5, <1>9 DEF CloseNew, CloseFailed
<1>10. CASE StatFile(c)
  BY <1>1, <1>2, <1>3, <1>10 DEF StatFile
<1>11. CASE Close(c)
  BY <1>5, <1>11 DEF Close, Goto
<1>12. CASE Fill(c)
  BY <1>3, <1>12 DEF Fill
<1> QED
  BY <1>6, <1>7, <1>8, <1>9, <1>10, <1>11, <1>12

\* The answer and what is at the path afterwards.
LEMMA Answers ==
  ASSUME TypeOK, NEW c \in Callers, NEW status, Answer(c, status)
  PROVE  /\ errno'[c] = status
         /\ pc'[c] = IF status = "OK" THEN "opened" ELSE "closed"
         /\ CallOK(c)'
<1>1. /\ errno'[c] = status
      /\ pc'[c] = IF status = "OK" THEN "opened" ELSE "closed"
  BY DEF TypeOK, Answer, Goto
<1> QED
  BY <1>1 DEF CallOK, UnderWay

LEMMA Continues ==
  ASSUME TypeOK, NEW c \in Callers, NEW next, next \notin {"closed", "opened"},
         Continue(c, next)
  PROVE  /\ pc'[c] = next /\ flags'[c] = flags[c] /\ before'[c] = before[c]
         /\ AsPosix(c)
BY DEF TypeOK, Continue, Goto, AsPosix, UnderWay

LEMMA FailedNotAlone ==
  ASSUME TypeOK, NEW c \in Callers, Fails(c)
  PROVE  ~alone'[c]
BY DEF TypeOK, Fails

LEMMA BeginOpenPosix ==
  ASSUME TypeOK, NEW c \in Callers, BeginOpen(c)
  PROVE  CallOK(c)' /\ AsPosix(c)
<1>1. AsPosix(c)
  BY DEF BeginOpen, AsPosix, UnderWay
<1>2. PICK f \in Flags :
       \/ Mode(f) = "EINVAL" /\ Answer(c, "EINVAL")
       \/ /\ Mode(f) # "EINVAL"
          /\ Goto(c, IF CreatesFirst(f) \/ MustExist(f) \/ Exclusive(f)
                     THEN "stat" ELSE "open")
          /\ flags' = [flags EXCEPT ![c] = f]
          /\ before' = [before EXCEPT ![c] = file]
  BY DEF BeginOpen
<1>3. CASE Answer(c, "EINVAL")
  BY <1>1, <1>3, Answers
<1>4. CASE /\ Mode(f) # "EINVAL"
           /\ Goto(c, IF CreatesFirst(f) \/ MustExist(f) \/ Exclusive(f)
                      THEN "stat" ELSE "open")
           /\ flags' = [flags EXCEPT ![c] = f]
           /\ before' = [before EXCEPT ![c] = file]
  <2>1. /\ flags'[c] = f /\ before'[c] = file /\ file' = file
        /\ pc'[c] = IF CreatesFirst(f) \/ MustExist(f) \/ Exclusive(f) THEN "stat" ELSE "open"
    BY <1>4 DEF TypeOK, Goto, BeginOpen
  <2> QED
    BY <1>1, <1>4, <2>1 DEF CallOK, Undisturbed
<1> QED
  BY <1>2, <1>3, <1>4

LEMMA StatPathPosix ==
  ASSUME TypeOK, NEW c \in Callers, CallOK(c), StatPath(c)
  PROVE  CallOK(c)' /\ AsPosix(c)
<1>0. /\ flags[c] \in Flags /\ file \in Contents /\ Mode(flags[c]) # "EINVAL"
      /\ alone[c] => file = before[c]
  BY DEF TypeOK, StatPath, CallOK, UnderWay, Undisturbed, Contents
<1>1. CASE /\ file = "none" /\ MustExist(flags[c])
           /\ Answer(c, TranslateError("NOT_FOUND")) /\ UNCHANGED <<file, alone>>
  <2>1. errno'[c] = "ENOENT" /\ CallOK(c)'
    BY <1>1, Errors, Answers
  <2>2. Posix(flags[c], "none") = [errno |-> "ENOENT", file |-> "none"]
    BY <1>1 DEF Posix, MustExist
  <2> QED
    BY <1>0, <1>1, <2>1, <2>2 DEF AsPosix
<1>2. CASE /\ file # "none" /\ Exclusive(flags[c])
           /\ Answer(c, "EEXIST") /\ UNCHANGED <<file, alone>>
  <2>1. errno'[c] = "EEXIST" /\ CallOK(c)'
    BY <1>2, Answers
  <2>2. Posix(flags[c], file) = [errno |-> "EEXIST", file |-> file]
    BY <1>2 DEF Posix
  <2> QED
    BY <1>0, <1>2, <2>1, <2>2 DEF AsPosix
<1>3. CASE /\ ~(IF file = "none" THEN MustExist(flags[c]) ELSE Exclusive(flags[c]))
           /\ Continue(c, IF file = "none" /\ CreatesFirst(flags[c]) THEN "create" ELSE "open")
           /\ UNCHANGED <<file, alone>>
  <2> DEFINE next == IF file = "none" /\ CreatesFirst(flags[c]) THEN "create" ELSE "open"
  <2>1. /\ pc'[c] = next /\ flags'[c] = flags[c] /\ before'[c] = before[c]
        /\ AsPosix(c)
    BY <1>3, Continues
  <2> QED
    BY <1>0, <1>3, <2>1 DEF CallOK, Undisturbed
<1>4. CASE Fails(c) /\ Continue(c, "open")
  <2>1. pc'[c] = "open" /\ flags'[c] = flags[c] /\ AsPosix(c) /\ ~alone'[c]
    BY <1>4, Continues, FailedNotAlone
  <2> QED
    BY <1>0, <2>1 DEF CallOK
<1> QED
  BY <1>1, <1>2, <1>3, <1>4 DEF StatPath

LEMMA CreateFilePosix ==
  ASSUME TypeOK, NEW c \in Callers, CallOK(c), CreateFile(c)
  PROVE  CallOK(c)' /\ AsPosix(c)
<1>0. /\ Mode(flags[c]) # "EINVAL" /\ flags[c] \in Flags
      /\ alone[c] => CreatesFirst(flags[c]) /\ before[c] = "none" /\ file = "none"
  BY DEF TypeOK, CreateFile, CallOK, UnderWay, Undisturbed
<1>1. CASE \E f \in FdSet : Opened(c, "w", f) /\ Continue(c, "closenew")
  <2>1. /\ pc'[c] = "closenew" /\ flags'[c] = flags[c] /\ before'[c] = before[c]
        /\ AsPosix(c)
    BY <1>1, Continues
  <2>2. file' = Opening("w", file) /\ alone'[c] = alone[c]
    BY <1>1 DEF Opened, Change, TypeOK
  <2>3. Opening("w", "none") = "empty"
    BY DEF Opening
  <2> QED
    BY <1>0, <2>1, <2>2, <2>3 DEF CallOK, Undisturbed
<1>2. CASE /\ Opening("w", file) \in OpenErrors
           /\ \E status : Answer(c, status) /\ UNCHANGED <<file, alone>>
  <2>1. CallOK(c)' /\ alone' = alone
    BY <1>2, Answers
  <2>2. Opening("w", "none") \notin OpenErrors
    BY DEF Opening, OpenErrors
  <2>3. ~alone[c]
    BY <1>0, <1>2, <2>2
  <2> QED
    BY <2>1, <2>3 DEF AsPosix
<1>3. CASE (\E status : Answer(c, status)) /\ Fails(c)
  <2>1. CallOK(c)' /\ ~alone'[c]
    BY <1>3, Answers, FailedNotAlone
  <2> QED
    BY <2>1 DEF AsPosix
<1> QED
  BY <1>1, <1>2, <1>3 DEF CreateFile, OpenStep

LEMMA OpenFilePosix ==
  ASSUME TypeOK, NEW c \in Callers, CallOK(c), OpenFile(c)
  PROVE  CallOK(c)' /\ AsPosix(c)
<1> DEFINE mode == Mode(flags[c])
           to   == Opening(mode, file)
<1>0. /\ mode # "EINVAL" /\ flags[c] \in Flags /\ file \in Contents
      /\ pc[c] = "open"
      /\ alone[c] => Undisturbed(c)
  BY DEF TypeOK, OpenFile, CallOK, UnderWay, Contents
<1>1. alone[c] => Posix(flags[c], before[c]) = IF to \in OpenErrors
                                               THEN [errno |-> TranslateError(to), file |-> file]
                                               ELSE [errno |-> "OK", file |-> to]
  <2>1. CASE CreatesFirst(flags[c]) /\ before[c] = "none" /\ file = "empty"
    <3>1. /\ mode = "r+" /\ Opening("r+", "empty") = "empty"
          /\ Posix(flags[c], "none") = [errno |-> "OK", file |-> "empty"]
      BY <1>0, <2>1, CreatedIsPosix
    <3>2. "empty" \notin OpenErrors
      BY DEF OpenErrors
    <3>3. to = "empty"
      BY <2>1, <3>1
    <3> HIDE DEF to
    <3> QED
      BY <2>1, <3>1, <3>2, <3>3
  <2>2. CASE /\ file = before[c]
             /\ IF before[c] = "none"
                THEN ~MustExist(flags[c]) /\ ~CreatesFirst(flags[c])
                ELSE ~Exclusive(flags[c])
    BY <1>0, <2>2, OpeningIsPosix
  <2> QED
    BY <1>0, <2>1, <2>2 DEF Undisturbed
<1> HIDE DEF mode
<1>2. CASE /\ \E f \in FdSet : Opened(c, mode, f)
           /\ Answer(c, "OK") \/ Continue(c, "statfile")
  <2>1. file' = to /\ to \notin OpenErrors /\ alone'[c] = alone[c]
    BY <1>2 DEF Opened, Change, TypeOK
  <2> HIDE DEF to
  <2>2. CASE Answer(c, "OK")
    <3>1. errno'[c] = "OK" /\ CallOK(c)'
      BY <2>2, Answers
    <3> QED
      BY <1>1, <2>1, <3>1 DEF AsPosix
  <2>3. CASE Continue(c, "statfile")
    <3>1. /\ pc'[c] = "statfile" /\ flags'[c] = flags[c] /\ before'[c] = before[c]
          /\ AsPosix(c)
      BY <2>3, Continues
    <3> QED
      BY <1>0, <1>1, <2>1, <3>1 DEF CallOK, Undisturbed, mode
  <2> QED
    BY <1>2, <2>2, <2>3
<1>3. CASE /\ to \in OpenErrors /\ Answer(c, TranslateError(to))
           /\ UNCHANGED <<file, alone>>
  <2> HIDE DEF to
  <2>1. errno'[c] = TranslateError(to) /\ CallOK(c)'
    BY <1>3, Answers
  <2> QED
    BY <1>1, <1>3, <2>1 DEF AsPosix
<1>4. CASE (\E status : Answer(c, status)) /\ Fails(c)
  <2>1. CallOK(c)' /\ ~alone'[c]
    BY <1>4, Answers, FailedNotAlone
  <2> QED
    BY <2>1 DEF AsPosix
<1>5. PICK next \in {"statfile", "opened"} : OpenStep(c, mode, next)
  BY DEF OpenFile, mode
<1> QED
  BY <1>2, <1>3, <1>4, <1>5 DEF OpenStep

\* The two calls of FSACloseFile and FSAGetStatFile, and those of an open file.
LEMMA RestPosix ==
  ASSUME TypeOK, NEW c \in Callers, CallOK(c),
         CloseNew(c) \/ StatFile(c) \/ CloseFailed(c) \/ Close(c) \/ Fill(c)
  PROVE  CallOK(c)' /\ AsPosix(c)
<1>1. CASE CloseNew(c)
  <2>1. /\ pc[c] = "closenew" /\ pc'[c] = "open" /\ flags'[c] = flags[c]
        /\ before'[c] = before[c] /\ AsPosix(c)
    BY <1>1, Continues DEF CloseNew
  <2>2. alone'[c] => alone[c] /\ file' = file
    BY <1>1, FailedNotAlone DEF CloseNew, CloseFile
  <2> QED
    BY <2>1, <2>2 DEF CallOK, UnderWay, Undisturbed
<1>2. CASE StatFile(c)
  <2>1. CASE Answer(c, "OK") /\ UNCHANGED <<file, alone>>
    <3>1. errno'[c] = "OK" /\ CallOK(c)'
      BY <2>1, Answers
    <3>2. alone[c] => Posix(flags[c], before[c]) = [errno |-> "OK", file |-> file]
      BY <1>2 DEF StatFile, CallOK, UnderWay, Undisturbed
    <3> QED
      BY <2>1, <3>1, <3>2 DEF AsPosix
  <2>2. CASE Fails(c) /\ Continue(c, "closefailed")
    <3>1. /\ pc'[c] = "closefailed" /\ flags'[c] = flags[c] /\ AsPosix(c) /\ ~alone'[c]
      BY <2>2, Continues, FailedNotAlone
    <3> QED
      BY <1>2, <3>1 DEF StatFile, CallOK, UnderWay
  <2> QED
    BY <1>2, <2>1, <2>2 DEF StatFile
<1>3. CASE CloseFailed(c)
  <2>1. CallOK(c)'
    BY <1>3, Answers DEF CloseFailed
  <2>2. ~alone[c]
    BY <1>3 DEF CloseFailed, CallOK, UnderWay, Undisturbed
  <2>3. alone'[c] => alone[c]
    BY <1>3, FailedNotAlone DEF CloseFailed, CloseFile
  <2> QED
    BY <2>1, <2>2, <2>3 DEF AsPosix
<1>4. CASE Close(c)
  BY <1>4 DEF Close, Goto, TypeOK, CallOK, AsPosix, UnderWay
<1>5. CASE Fill(c)
  BY <1>5 DEF Fill, CallOK, AsPosix, UnderWay
<1> QED
  BY <1>1, <1>2, <1>3, <1>4, <1>5

LEMMA PosixStep ==
  ASSUME TypeOK, \A c \in Callers : CallOK(c), [Next]_vars
  PROVE  \A c \in Callers : CallOK(c)' /\ AsPosix(c)
<1>1. ASSUME NEW c \in Callers, LeavesOthers(c), CallOK(c)', AsPosix(c)
      PROVE  \A d \in Callers : CallOK(d)' /\ AsPosix(d)
  BY <1>1, LeftAlone DEF LeavesOthers
<1>2. ASSUME NEW c \in Callers,
             \/ BeginOpen(c) \/ StatPath(c) \/ CreateFile(c) \/ CloseNew(c)
             \/ OpenFile(c) \/ StatFile(c) \/ CloseFailed(c) \/ Close(c) \/ Fill(c)
      PROVE  \A d \in Callers : CallOK(d)' /\ AsPosix(d)
  BY <1>1, <1>2, StepLeavesOthers, BeginOpenPosix, StatPathPosix, CreateFilePosix,
     OpenFilePosix, RestPosix
<1>3. CASE Elsewhere
  BY <1>3, LeftAlone DEF Elsewhere
<1>4. CASE UNCHANGED vars
  BY <1>4, LeftAlone
<1> QED
  BY <1>2, <1>3, <1>4 DEF Next

LEMMA CallsOK == Spec => [](\A c \in Callers : CallOK(c))
<1>1. Init => \A c \in Callers : CallOK(c)
  BY DEF Init, CallOK, UnderWay
<1>2. TypeOK /\ (\A c \in Callers : CallOK(c)) /\ [Next]_vars
        => (\A c \in Callers : CallOK(c))'
  BY PosixStep
<1>3. Spec => []TypeOK
  BY Invariance, PTL DEF IInv
<1> QED
  BY <1>1, <1>2, <1>3, PTL DEF Spec
-----------------------------------------------------------------------------
(* Theorems.                                                               *)

\* Every variable stays in its range, and open and close report no errno but these.
THEOREM TypeCorrect == Spec => []TypeOK
BY Invariance, PTL DEF IInv

\* However many callers open and close files at once, and whichever FSA calls fail:
\* no path through __fsa_open and __fsa_close loses a handle, closes one twice, or
\* one that is another's.
THEOREM HandlesAreOwned == Spec => []HandlesOwned
BY Invariance, PTL DEF IInv

\* Whatever the flags, a call no failure and nobody else has interfered with does what
\* POSIX says of open(): the stat, the creation and the open add up.
THEOREM OpensMatchPosix == Spec => OpenMatchesPosix
<1>1. TypeOK /\ (\A c \in Callers : CallOK(c)) /\ [Next]_vars
        => [\A c \in Callers :
              (/\ pc[c] \notin {"closed", "opened"} /\ pc'[c] \in {"closed", "opened"}
               /\ alone'[c])
                => [errno |-> errno'[c], file |-> file'] = Posix(flags[c], before[c])]_vars
  BY PosixStep DEF AsPosix, UnderWay
<1>2. Spec => []TypeOK
  BY Invariance, PTL DEF IInv
<1> QED
  BY <1>1, <1>2, CallsOK, PTL DEF Spec, OpenMatchesPosix
=============================================================================
