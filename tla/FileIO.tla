------------------------------- MODULE FileIO -------------------------------
(***************************************************************************)
(* Reading, writing, seeking and truncating through open files:            *)
(* __fsa_read, __fsa_write, __fsa_seek, __fsa_ftruncate, __fsa_fsync and   *)
(* __fsa_fstat of source/devoptab.                                         *)
(*                                                                         *)
(* Several handles are open on one file.  Every function holds the mutex   *)
(* of its handle from beginning to end, so a handle does one call at a     *)
(* time; between two FSA calls the other handles move.  Each handle has a  *)
(* position twice: file->offset here and the position FSA keeps, which     *)
(* every transfer uses.  Data is not modelled, only where it goes.         *)
(***************************************************************************)
EXTENDS Integers

CONSTANTS
  Handles,
  FlagSets,    \* [Handles -> the flags it may have been opened with]
  Line,        \* bytes in a cache line, and in alignedBuffer (0x40)
  MaxRead,     \* limit of one FSAReadFile (0x100000)
  MaxWrite,    \* limit of one FSAWriteFile (0x40000)
  W,           \* file->offset counts modulo W (2^32)
  MaxSize,     \* bytes the volume has room for
  Transfers,   \* [Handles -> the <<alignment, length>> of its reads and writes]
  Seeks,       \* [Handles -> the <<whence, pos>> of its seeks]
  Lengths      \* [Handles -> the lengths it truncates to]

Flags == [acc : {"rdonly", "wronly", "rdwr"}, append : BOOLEAN]

ASSUME ConstantsOK ==
  /\ FlagSets \in [Handles -> SUBSET Flags]
  /\ Line \in Nat \ {0}
  /\ MaxRead \in Nat \ {0} /\ MaxRead % Line = 0
  /\ MaxWrite \in Nat \ {0} /\ MaxWrite % Line = 0
  /\ W \in Nat \ {0} /\ MaxSize \in 0 .. W - 1
  /\ Transfers \in [Handles -> SUBSET ((0 .. Line - 1) \X Nat)]
  /\ Seeks \in [Handles -> SUBSET ({"set", "cur", "end"} \X Int)]
  /\ Lengths \in [Handles -> SUBSET Nat]

VARIABLES
  size,          \* of the file
  pos,           \* FSA's position of each handle
  flags,         \* file->flags
  offset,        \* file->offset
  appendOffset,  \* file->appendOffset, of no meaning and 0 without O_APPEND
  pc,            \* "ok" and "failed": no call, and how the last one ended
  ptr,           \* where the rest of the caller's buffer begins, modulo Line
  left,          \* what is left to transfer, or to seek by
  moved          \* whether this call has transferred a byte

fileVars   == <<size, pos>>
handleVars == <<flags, offset, appendOffset>>
callVars   == <<pc, ptr, left, moved>>
vars       == <<fileVars, handleVars, callVars>>

\* What __fsa_open leaves behind.  The offset is 0 even of an appending handle.
Init ==
  /\ size \in 0 .. MaxSize
  /\ pos = [h \in Handles |-> 0]
  /\ flags \in [Handles -> Flags] /\ \A h \in Handles : flags[h] \in FlagSets[h]
  /\ offset = [h \in Handles |-> 0]
  /\ appendOffset = [h \in Handles |-> IF flags[h].append THEN size ELSE 0]
  /\ pc = [h \in Handles |-> "ok"]
  /\ ptr = [h \in Handles |-> 0]
  /\ left = [h \in Handles |-> 0]
  /\ moved = [h \in Handles |-> FALSE]

Smaller(a, b) == IF a < b THEN a ELSE b
Larger(a, b)  == IF a < b THEN b ELSE a

Idle(h) == pc[h] \in {"ok", "failed"}

Return(h, outcome) ==
  /\ pc' = [pc EXCEPT ![h] = outcome]
  /\ ptr' = [ptr EXCEPT ![h] = 0]
  /\ left' = [left EXCEPT ![h] = 0]
  /\ moved' = [moved EXCEPT ![h] = FALSE]

Begin(h, at, alignment, amount) ==
  /\ pc' = [pc EXCEPT ![h] = at]
  /\ ptr' = [ptr EXCEPT ![h] = alignment]
  /\ left' = [left EXCEPT ![h] = amount]
  /\ UNCHANGED moved
-----------------------------------------------------------------------------
(* Transfers.                                                              *)

\* Whether the next request uses alignedBuffer, and its size: less than a line
\* and what precedes the first line go through it, whole lines do not.
Bounces(h) == left[h] < Line \/ ptr[h] # 0

\* Mutant of Request: a part before the first line is not cut off.
RequestUncut(h, limit) ==
  Smaller(limit, IF left[h] < Line \/ ptr[h] # 0
                 THEN left[h]
                 ELSE left[h] - (left[h] % Line))

Request(h, limit) ==
  Smaller(limit, IF left[h] < Line THEN left[h]
                 ELSE IF ptr[h] # 0 THEN Smaller(left[h], Line - ptr[h])
                 ELSE left[h] - (left[h] % Line))

\* Mutant of Transferred: there is no loop around the request.
TransferredOnce(h, n, asked) ==
  /\ offset' = [offset EXCEPT ![h] = (@ + n) % W]
  /\ Return(h, "ok")

\* Mutant of Transferred: nothing but the last byte ends the loop.
TransferredToTheLast(h, n, asked) ==
  /\ offset' = [offset EXCEPT ![h] = (@ + n) % W]
  /\ IF n = left[h] THEN Return(h, "ok")
     ELSE /\ ptr' = [ptr EXCEPT ![h] = (@ + n) % Line]
          /\ left' = [left EXCEPT ![h] = @ - n]
          /\ moved' = [moved EXCEPT ![h] = @ \/ n > 0]
          /\ UNCHANGED pc

\* After n of the requested bytes: the offset follows, and the loop ends when
\* fewer came than asked for, or all have.
Transferred(h, n, asked) ==
  /\ offset' = [offset EXCEPT ![h] = (@ + n) % W]
  /\ IF n # asked \/ n = left[h] THEN Return(h, "ok")
     ELSE /\ ptr' = [ptr EXCEPT ![h] = (@ + n) % Line]
          /\ left' = [left EXCEPT ![h] = @ - n]
          /\ moved' = [moved EXCEPT ![h] = TRUE]
          /\ UNCHANGED pc

\* A failure is one of the call only before the first byte.
TransferFails(h) ==
  /\ pc[h] \in {"read", "write"}
  /\ Return(h, IF moved[h] THEN "ok" ELSE "failed")
  /\ UNCHANGED <<fileVars, handleVars>>

\* Mutant of Appended: of a short write, appendOffset is not told.
AppendedInFull(h, n, asked) ==
  appendOffset' = IF flags[h].append /\ n = asked
                  THEN [appendOffset EXCEPT ![h] = (@ + n) % W]
                  ELSE appendOffset

\* After n bytes have been written of the requested ones.
Appended(h, n, asked) ==
  appendOffset' = IF flags[h].append
                  THEN [appendOffset EXCEPT ![h] = (@ + n) % W]
                  ELSE appendOffset

BeginRead(h) ==
  /\ Idle(h)
  /\ UNCHANGED <<fileVars, handleVars>>
  /\ \E t \in Transfers[h] :
       \/ flags[h].acc = "wronly" /\ Return(h, "failed")
       \/ flags[h].acc # "wronly" /\ t[2] = 0 /\ Return(h, "ok")
       \/ flags[h].acc # "wronly" /\ t[2] > 0 /\ Begin(h, "read", t[1], t[2])

\* FSAReadFile reads up to the end of the file.
ReadChunk(h) ==
  LET asked == Request(h, MaxRead)
      n     == Smaller(asked, Larger(0, size - pos[h]))
  IN /\ pc[h] = "read"
     /\ pos' = [pos EXCEPT ![h] = @ + n]
     /\ Transferred(h, n, asked)
     /\ UNCHANGED <<size, flags, appendOffset>>

BeginWrite(h) ==
  /\ Idle(h)
  /\ UNCHANGED <<fileVars, flags, appendOffset>>
  /\ \E t \in Transfers[h] :
       \/ flags[h].acc = "rdonly" /\ Return(h, "failed") /\ UNCHANGED offset
       \/ /\ flags[h].acc # "rdonly"
          /\ offset' = IF flags[h].append THEN [offset EXCEPT ![h] = appendOffset[h]]
                                          ELSE offset
          /\ \/ t[2] = 0 /\ Return(h, "ok")
             \/ t[2] > 0 /\ Begin(h, "write", t[1], t[2])

\* FSAWriteFile writes while there is room, an appending handle at the end.
WriteChunk(h) ==
  LET asked == Request(h, MaxWrite)
      at    == IF flags[h].append THEN size ELSE pos[h]
      n     == Smaller(asked, Larger(0, MaxSize - at))
  IN /\ pc[h] = "write"
     /\ size' = IF n = 0 THEN size ELSE Larger(size, at + n)
     /\ pos' = IF n = 0 THEN pos ELSE [pos EXCEPT ![h] = at + n]
     /\ Appended(h, n, asked)
     /\ Transferred(h, n, asked)
     /\ UNCHANGED flags
-----------------------------------------------------------------------------
(* Seeking.                                                                *)

\* Mutant of SeekFrom: the offset is not put back when FSASetPosFile fails.
SeekFromNoUndo(h, base, by) ==
  LET to == base + by IN
  \/ to \notin 0 .. W - 1 /\ Return(h, "failed") /\ UNCHANGED <<pos, offset>>
  \/ to = offset[h] /\ Return(h, "ok") /\ UNCHANGED <<pos, offset>>
  \/ /\ to \in 0 .. W - 1 /\ to # offset[h]
     /\ offset' = [offset EXCEPT ![h] = to]
     /\ \/ pos' = [pos EXCEPT ![h] = to] /\ Return(h, "ok")
        \/ UNCHANGED pos /\ Return(h, "failed")

\* Mutant of SeekFrom: only the beginning of the file is a bound.
SeekFromUnbounded(h, base, by) ==
  LET to == base + by IN
  \/ to < 0 /\ Return(h, "failed") /\ UNCHANGED <<pos, offset>>
  \/ to = offset[h] /\ Return(h, "ok") /\ UNCHANGED <<pos, offset>>
  \/ /\ to >= 0 /\ to # offset[h]
     /\ \/ /\ pos' = [pos EXCEPT ![h] = to]
           /\ offset' = [offset EXCEPT ![h] = to]
           /\ Return(h, "ok")
        \/ UNCHANGED <<pos, offset>> /\ Return(h, "failed")

\* FSA is not asked to move where file->offset is already.
SeekFrom(h, base, by) ==
  LET to == base + by IN
  \/ to \notin 0 .. W - 1 /\ Return(h, "failed") /\ UNCHANGED <<pos, offset>>
  \/ to = offset[h] /\ Return(h, "ok") /\ UNCHANGED <<pos, offset>>
  \/ /\ to \in 0 .. W - 1 /\ to # offset[h]
     /\ \/ /\ pos' = [pos EXCEPT ![h] = to]
           /\ offset' = [offset EXCEPT ![h] = to]
           /\ Return(h, "ok")
        \/ UNCHANGED <<pos, offset>> /\ Return(h, "failed")

Seek(h) ==
  /\ Idle(h)
  /\ UNCHANGED <<size, flags, appendOffset>>
  /\ \E s \in Seeks[h] :
       \/ s[1] = "set" /\ SeekFrom(h, 0, s[2])
       \/ s[1] = "cur" /\ SeekFrom(h, offset[h], s[2])

\* SEEK_END asks for the size first, which may fail, and the file may change
\* its size before the position is set; `left' holds the target meanwhile.
SeekEnd(h) ==
  /\ Idle(h)
  /\ UNCHANGED <<fileVars, handleVars>>
  /\ \E s \in Seeks[h] :
       /\ s[1] = "end"
       /\ Begin(h, "seekend", 0, size + s[2]) \/ Return(h, "failed")

SeekEndMove(h) ==
  /\ pc[h] = "seekend"
  /\ SeekFrom(h, left[h], 0)
  /\ UNCHANGED <<size, flags, appendOffset>>
-----------------------------------------------------------------------------
(* Truncating, and the calls that change nothing here.                     *)

\* FSASetPosFile takes 32 bits of the length; no access mode is checked.
Ftruncate(h) ==
  /\ Idle(h)
  /\ \E len \in Lengths[h] :
       \/ pos' = [pos EXCEPT ![h] = len % W] /\ Begin(h, "truncate", 0, len)
       \/ UNCHANGED pos /\ Return(h, "failed")
  /\ UNCHANGED <<size, handleVars>>

\* FSATruncateFile makes the position the size, if the handle may write.
TruncateFile(h) ==
  /\ pc[h] = "truncate"
  /\ \/ /\ flags[h].acc # "rdonly" /\ pos[h] <= MaxSize
        /\ size' = pos[h]
        /\ Return(h, "ok")
     \/ UNCHANGED size /\ Return(h, "failed")
  /\ UNCHANGED <<pos, handleVars>>

\* __fsa_fsync and __fsa_fstat.
Query(h) ==
  /\ Idle(h)
  /\ \E outcome \in {"ok", "failed"} : Return(h, outcome)
  /\ UNCHANGED <<fileVars, handleVars>>
-----------------------------------------------------------------------------
Next ==
  \E h \in Handles :
    \/ BeginRead(h) \/ ReadChunk(h) \/ BeginWrite(h) \/ WriteChunk(h) \/ TransferFails(h)
    \/ Seek(h) \/ SeekEnd(h) \/ SeekEndMove(h)
    \/ Ftruncate(h) \/ TruncateFile(h) \/ Query(h)

\* A thread inside a call is scheduled, and FSA answers; nobody has to call, and
\* nothing has to fail.
Fairness ==
  \A h \in Handles :
    WF_vars(ReadChunk(h) \/ WriteChunk(h) \/ SeekEndMove(h) \/ TruncateFile(h))

Spec == Init /\ [][Next]_vars /\ Fairness
-----------------------------------------------------------------------------
(* Properties.                                                             *)

\* Every variable stays in its range; the offsets wrap, the size does not.
TypeOK ==
  /\ size \in 0 .. MaxSize
  /\ pos \in [Handles -> 0 .. W - 1]
  /\ flags \in [Handles -> Flags] /\ \A h \in Handles : flags[h] \in FlagSets[h]
  /\ offset \in [Handles -> 0 .. W - 1]
  /\ appendOffset \in [Handles -> 0 .. W - 1]
  /\ pc \in [Handles -> {"ok", "failed", "read", "write", "seekend", "truncate"}]
  /\ ptr \in [Handles -> 0 .. Line - 1]
  /\ left \in [Handles -> Int]
  /\ moved \in [Handles -> BOOLEAN]

Limit(h) == IF pc[h] = "read" THEN MaxRead ELSE MaxWrite

\* However a buffer lies and however the requests before went: what goes through
\* alignedBuffer fits into it, what does not is whole aligned lines, and a
\* request is for no more than its limit and the rest of the buffer, but never
\* for nothing: every one that is answered in full brings the end nearer.
RequestsFit ==
  \A h \in Handles :
    pc[h] \in {"read", "write"} =>
      LET n == Request(h, Limit(h)) IN
      /\ n \in 1 .. Smaller(Limit(h), left[h])
      /\ IF Bounces(h) THEN n <= Line ELSE n % Line = 0

\* Appending and truncating handles have their positions moved by FSA itself.
Plain == {h \in Handles : ~flags[h].append /\ Lengths[h] = {}}

\* The two positions of a plain handle agree through every failure and every seek,
\* whatever other handles do to the file.
OffsetInSync == \A h \in Plain : offset[h] = pos[h]

\* devoptab_fsa.h:48, "Current file size (only valid if O_APPEND is set)": it is,
\* through short and failing writes, as long as nobody but this handle's writes
\* changes the size.
AppendOffsetCurrent ==
  \A h \in Handles :
    (/\ flags[h].append /\ Lengths[h] = {}
     /\ \A g \in Handles \ {h} : flags[g].acc = "rdonly")
      => appendOffset[h] = size

\* What the user of a handle sees of a call.
CallOf == [h \in Handles |-> IF pc[h] = "seekend" THEN "seek" ELSE pc[h]]
LeftOf == [h \in Handles |-> IF pc[h] \in {"read", "write"} THEN left[h] ELSE 0]

Cursor ==
  INSTANCE FileCursor WITH
    End <- W, Room <- MaxSize, plain <- Plain, cursor <- offset,
    call <- CallOf, left <- LeftOf

\* The user of a handle that neither appends nor truncates sees one position,
\* with everything the library does to keep two of them, and a buffer, hidden.
RefinesCursor == Cursor!Spec

\* Every call returns: no transfer goes on asking at the end of the file.
CallsReturn == \A h \in Handles : ~Idle(h) ~> Idle(h)
=============================================================================
