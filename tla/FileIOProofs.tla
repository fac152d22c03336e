---------------------------- MODULE FileIOProofs ----------------------------
(***************************************************************************)
(* Proofs about FileIO, for every number of handles, every size of lines,  *)
(* limits and volume, and every set of transfers, seeks and lengths:       *)
(*                                                                         *)
(*   - the type invariant;                                                 *)
(*   - every request fits;                                                 *)
(*   - the two positions of a handle agree;                                *)
(*   - appendOffset is the size while there is one writer;                 *)
(*   - FileIO implements FileCursor.                                       *)
(***************************************************************************)
EXTENDS FileIO, TLAPS

(* The inductive invariant.                                                *)

\* What a call has established before the step it is at.
CallOK(h) ==
  /\ pc[h] \in {"read", "write"} => left[h] \in Nat \ {0}
  /\ pc[h] = "write" => flags[h].acc # "rdonly"
  /\ pc[h] = "truncate" => Lengths[h] # {}
  /\ pc[h] \notin {"read", "write"} => ~moved[h]

IInv ==
  /\ TypeOK
  /\ \A h \in Handles : CallOK(h)
  /\ OffsetInSync
  /\ AppendOffsetCurrent

\* What TypeOK says of the variables of a call.
CallTypeOK ==
  /\ pc \in [Handles -> {"ok", "failed", "read", "write", "seekend", "truncate"}]
  /\ ptr \in [Handles -> 0 .. Line - 1]
  /\ left \in [Handles -> Int]
  /\ moved \in [Handles -> BOOLEAN]

\* What a step of h does to the others: it may change the size.
OthersKept(h) ==
  \A g \in Handles \ {h} :
    /\ pos'[g] = pos[g] /\ offset'[g] = offset[g] /\ appendOffset'[g] = appendOffset[g]
    /\ pc'[g] = pc[g] /\ ptr'[g] = ptr[g] /\ left'[g] = left[g] /\ moved'[g] = moved[g]

\* What a step of h has to establish for the invariant.
Keeps(h) ==
  /\ TypeOK' /\ CallOK(h)'
  /\ flags' = flags
  /\ OthersKept(h)
  /\ Lengths[h] = {} /\ ~flags[h].append => offset'[h] = pos'[h]
  /\ Lengths[h] = {} /\ flags[h].append /\ appendOffset[h] = size => appendOffset'[h] = size'
  /\ flags[h].acc = "rdonly" => size' = size
-----------------------------------------------------------------------------
(* Arithmetic.                                                             *)

LEMMA ModRange == \A d \in Nat \ {0}, a \in Int : a % d \in 0 .. d - 1
BY SMT

LEMMA ModSmall == \A d \in Nat \ {0} : \A a \in 0 .. d - 1 : a % d = a
BY SMT

LEMMA WholeLines == \A d \in Nat \ {0}, a \in Int : (a - (a % d)) % d = 0
BY SMT

\* What comes of a request where there is room for so much.
LEMMA Comes ==
  ASSUME NEW asked \in Nat, NEW room \in Int,
         NEW n, n = Smaller(asked, Larger(0, room))
  PROVE  /\ n \in 0 .. asked
         /\ n > 0 => n <= room
         /\ n # asked => n >= room
BY DEF Smaller, Larger

\* Whatever part of the buffer is next, the request fits.
LEMMA RequestFits ==
  ASSUME TypeOK, NEW h \in Handles, left[h] \in Nat \ {0},
         NEW limit \in Nat \ {0}, limit % Line = 0
  PROVE  /\ Request(h, limit) \in 1 .. left[h]
         /\ Request(h, limit) <= limit
         /\ IF Bounces(h) THEN Request(h, limit) <= Line
                          ELSE Request(h, limit) % Line = 0
<1>1. ptr[h] \in 0 .. Line - 1 /\ Line \in Nat \ {0}
  BY ConstantsOK DEF TypeOK
<1>2. CASE left[h] < Line
  BY <1>1, <1>2 DEF Request, Bounces, Smaller
<1>3. CASE left[h] >= Line /\ ptr[h] # 0
  BY <1>1, <1>3 DEF Request, Bounces, Smaller
<1>4. CASE left[h] >= Line /\ ptr[h] = 0
  <2> DEFINE whole == left[h] - (left[h] % Line)
  <2>0. left[h] \in Int
    OBVIOUS
  <2>1. left[h] % Line \in 0 .. Line - 1
    BY <1>1, <2>0, ModRange, Zenon
  <2>2. whole % Line = 0
    BY <1>1, <2>0, WholeLines, Zenon
  <2>3. Request(h, limit) = Smaller(limit, whole) /\ ~Bounces(h)
    BY <1>1, <1>4 DEF Request, Bounces
  <2> HIDE DEF whole
  <2>4. Smaller(limit, whole) \in {limit, whole}
    BY DEF Smaller
  <2>5. whole \in 1 .. left[h] /\ Smaller(limit, whole) <= limit
    /\ Smaller(limit, whole) <= whole
    BY <1>1, <1>4, <2>1 DEF whole, Smaller
  <2>6. Smaller(limit, whole) % Line = 0
    BY <2>2, <2>4
  <2> QED
    BY <1>1, <1>4, <2>3, <2>4, <2>5, <2>6
<1> QED
  BY <1>1, <1>2, <1>3, <1>4
-----------------------------------------------------------------------------
(* What the parts of actions do.                                           *)

USE DEF fileVars, handleVars, callVars, vars

\* The calls of the others go on as they are.
CallsKept(h) ==
  \A g \in Handles \ {h} :
    pc'[g] = pc[g] /\ ptr'[g] = ptr[g] /\ left'[g] = left[g] /\ moved'[g] = moved[g]

LEMMA ReturnEffect ==
  ASSUME TypeOK, NEW h \in Handles, NEW outcome \in {"ok", "failed"}, Return(h, outcome)
  PROVE  /\ CallTypeOK' /\ CallsKept(h)
         /\ pc'[h] = outcome /\ left'[h] = 0 /\ ~moved'[h]
BY ConstantsOK DEF TypeOK, CallTypeOK, CallsKept, Return

LEMMA BeginEffect ==
  ASSUME TypeOK, NEW h \in Handles, NEW at \in {"read", "write", "seekend", "truncate"},
         NEW alignment \in 0 .. Line - 1, NEW amount \in Int, Begin(h, at, alignment, amount)
  PROVE  /\ CallTypeOK' /\ CallsKept(h)
         /\ pc'[h] = at /\ left'[h] = amount /\ moved' = moved
BY DEF TypeOK, CallTypeOK, CallsKept, Begin

\* After n bytes the call has ended, or goes on with the rest.
LEMMA TransferredEffect ==
  ASSUME TypeOK, NEW h \in Handles, pc[h] \in {"read", "write"}, left[h] \in Nat \ {0},
         NEW asked \in 1 .. left[h], NEW n \in 0 .. asked, Transferred(h, n, asked)
  PROVE  /\ CallTypeOK' /\ CallsKept(h)
         /\ offset' = [offset EXCEPT ![h] = (offset[h] + n) % W]
         /\ offset' \in [Handles -> 0 .. W - 1]
         /\ \/ /\ pc'[h] = "ok" /\ left'[h] = 0 /\ ~moved'[h]
               /\ n # asked \/ n = left[h]
            \/ /\ pc'[h] = pc[h] /\ left'[h] = left[h] - n /\ moved'[h]
               /\ n = asked /\ n < left[h]
<1>1. W \in Nat \ {0} /\ Line \in Nat \ {0}
  BY ConstantsOK
<1>2. offset' = [offset EXCEPT ![h] = (offset[h] + n) % W]
  BY DEF Transferred, TypeOK
<1>3. (offset[h] + n) % W \in 0 .. W - 1
  <2>1. offset[h] + n \in Int
    BY <1>1 DEF TypeOK
  <2> QED
    BY <1>1, <2>1, ModRange, Zenon
<1>4. offset' \in [Handles -> 0 .. W - 1]
  BY <1>2, <1>3 DEF TypeOK
<1>5. CASE Return(h, "ok") /\ (n # asked \/ n = left[h])
  BY <1>2, <1>4, <1>5, ReturnEffect
<1>6. CASE n = asked /\ n # left[h]
  <2>1. /\ ptr' = [ptr EXCEPT ![h] = (ptr[h] + n) % Line]
        /\ left' = [left EXCEPT ![h] = left[h] - n]
        /\ moved' = [moved EXCEPT ![h] = TRUE]
        /\ pc' = pc
    BY <1>6 DEF Transferred, TypeOK
  <2>2. (ptr[h] + n) % Line \in 0 .. Line - 1
    <3>1. ptr[h] + n \in Int
      BY <1>1 DEF TypeOK
    <3> QED
      BY <1>1, <3>1, ModRange, Zenon
  <2>3. CallTypeOK' /\ CallsKept(h)
    BY <2>1, <2>2 DEF CallTypeOK, CallsKept, TypeOK
  <2> QED
    BY <1>2, <1>4, <1>6, <2>1, <2>3 DEF TypeOK
<1> QED
  BY <1>5, <1>6 DEF Transferred

\* The offset follows the position while that stays below W.
LEMMA OffsetFollows ==
  ASSUME TypeOK, NEW h \in Handles, NEW n \in Nat, pos[h] + n < W, offset[h] = pos[h]
  PROVE  (offset[h] + n) % W = pos[h] + n
<1>1. W \in Nat \ {0} /\ pos[h] + n \in 0 .. W - 1
  BY ConstantsOK DEF TypeOK
<1> QED
  BY <1>1, ModSmall, Zenon
-----------------------------------------------------------------------------
(* Every action of h keeps what the invariant needs.                       *)

\* A step that changes nothing but the call.
LEMMA CallOnlyKeeps ==
  ASSUME IInv, NEW h \in Handles, CallTypeOK', CallsKept(h), CallOK(h)',
         UNCHANGED <<fileVars, handleVars>>
  PROVE  Keeps(h)
BY DEF IInv, TypeOK, CallTypeOK, CallsKept, OthersKept, Keeps, OffsetInSync, Plain

LEMMA BeginReadKeeps ==
  ASSUME IInv, NEW h \in Handles, BeginRead(h)
  PROVE  Keeps(h)
<1> TypeOK /\ CallOK(h)
  BY DEF IInv
<1>1. UNCHANGED <<fileVars, handleVars>>
  BY DEF BeginRead
<1>2. PICK t \in Transfers[h] :
         \/ Return(h, "failed")
         \/ Return(h, "ok")
         \/ t[2] > 0 /\ Begin(h, "read", t[1], t[2])
  BY DEF BeginRead
<1>3. t[1] \in 0 .. Line - 1 /\ t[2] \in Nat
  BY ConstantsOK
<1>4. CASE Return(h, "failed") \/ Return(h, "ok")
  BY <1>1, <1>4, ReturnEffect, CallOnlyKeeps DEF CallOK
<1>5. CASE t[2] > 0 /\ Begin(h, "read", t[1], t[2])
  <2>1. /\ CallTypeOK' /\ CallsKept(h)
        /\ pc'[h] = "read" /\ left'[h] = t[2] /\ moved' = moved
    BY <1>3, <1>5, BeginEffect
  <2>2. CallOK(h)'
    BY <1>1, <1>3, <1>5, <2>1 DEF CallOK
  <2> QED
    BY <1>1, <2>1, <2>2, CallOnlyKeeps
<1> QED
  BY <1>2, <1>4, <1>5

LEMMA TransferFailsKeeps ==
  ASSUME IInv, NEW h \in Handles, TransferFails(h)
  PROVE  Keeps(h)
<1>1. UNCHANGED <<fileVars, handleVars>>
  BY DEF TransferFails
<1>2. /\ CallTypeOK' /\ CallsKept(h)
      /\ pc'[h] \in {"ok", "failed"} /\ ~moved'[h]
  BY ReturnEffect DEF TransferFails, IInv
<1>3. CallOK(h)'
  BY <1>2 DEF CallOK
<1> QED
  BY <1>1, <1>2, <1>3, CallOnlyKeeps

LEMMA QueryKeeps ==
  ASSUME IInv, NEW h \in Handles, Query(h)
  PROVE  Keeps(h)
<1>1. UNCHANGED <<fileVars, handleVars>>
  BY DEF Query
<1>2. /\ CallTypeOK' /\ CallsKept(h)
      /\ pc'[h] \in {"ok", "failed"} /\ ~moved'[h]
  BY ReturnEffect DEF Query, IInv
<1>3. CallOK(h)'
  BY <1>2 DEF CallOK
<1> QED
  BY <1>1, <1>2, <1>3, CallOnlyKeeps

LEMMA ReadChunkKeeps ==
  ASSUME IInv, NEW h \in Handles, ReadChunk(h)
  PROVE  Keeps(h)
<1> DEFINE asked == Request(h, MaxRead)
           n     == Smaller(asked, Larger(0, size - pos[h]))
<1>0. TypeOK /\ CallOK(h) /\ pc[h] = "read" /\ left[h] \in Nat \ {0}
  BY DEF IInv, CallOK, ReadChunk
<1>1. asked \in 1 .. left[h]
  BY <1>0, RequestFits, ConstantsOK
<1>2. /\ UNCHANGED <<size, flags, appendOffset>>
      /\ pos' = [pos EXCEPT ![h] = pos[h] + n]
      /\ Transferred(h, n, asked)
  BY <1>0 DEF ReadChunk, TypeOK
<1> HIDE DEF asked
<1>3. n \in 0 .. asked /\ (n > 0 => n <= size - pos[h])
  <2>1. asked \in Nat /\ size - pos[h] \in Int
    BY <1>0, <1>1, ConstantsOK DEF TypeOK
  <2> QED
    BY <2>1 DEF Smaller, Larger
<1> HIDE DEF n
<1>4. pos[h] + n \in 0 .. W - 1
  BY <1>0, <1>1, <1>3, ConstantsOK DEF TypeOK
<1>5. /\ CallTypeOK' /\ CallsKept(h)
      /\ offset' = [offset EXCEPT ![h] = (offset[h] + n) % W]
      /\ offset' \in [Handles -> 0 .. W - 1]
      /\ \/ /\ pc'[h] = "ok" /\ left'[h] = 0 /\ ~moved'[h]
            /\ n # asked \/ n = left[h]
         \/ /\ pc'[h] = pc[h] /\ left'[h] = left[h] - n /\ moved'[h]
            /\ n = asked /\ n < left[h]
  BY <1>0, <1>1, <1>2, <1>3, TransferredEffect
<1>6. TypeOK'
  BY <1>0, <1>2, <1>4, <1>5 DEF TypeOK, CallTypeOK
<1>7. CallOK(h)'
  BY <1>0, <1>1, <1>2, <1>3, <1>5 DEF CallOK
<1>8. OthersKept(h)
  BY <1>0, <1>2, <1>5 DEF OthersKept, CallsKept, TypeOK
<1>9. ASSUME Lengths[h] = {}, ~flags[h].append PROVE offset'[h] = pos'[h]
  <2>1. offset[h] = pos[h]
    BY <1>9 DEF IInv, OffsetInSync, Plain
  <2>2. (offset[h] + n) % W = pos[h] + n
    BY <1>0, <1>1, <1>3, <1>4, <2>1, OffsetFollows, ConstantsOK
  <2> QED
    BY <1>0, <1>2, <1>5, <2>2 DEF TypeOK
<1> QED
  BY <1>2, <1>6, <1>7, <1>8, <1>9 DEF Keeps

LEMMA BeginWriteKeeps ==
  ASSUME IInv, NEW h \in Handles, BeginWrite(h)
  PROVE  Keeps(h)
<1>0. TypeOK /\ CallOK(h)
  BY DEF IInv
<1>1. UNCHANGED <<fileVars, flags, appendOffset>>
  BY DEF BeginWrite
<1>2. /\ offset' \in [Handles -> 0 .. W - 1]
      /\ \A g \in Handles \ {h} : offset'[g] = offset[g]
      /\ ~flags[h].append => offset' = offset
  BY <1>0 DEF BeginWrite, TypeOK
<1>3. CallTypeOK' /\ CallsKept(h) /\ CallOK(h)'
  <2>1. PICK t \in Transfers[h] :
           \/ Return(h, "failed")
           \/ Return(h, "ok")
           \/ flags[h].acc # "rdonly" /\ t[2] > 0 /\ Begin(h, "write", t[1], t[2])
    BY DEF BeginWrite
  <2>2. t[1] \in 0 .. Line - 1 /\ t[2] \in Nat
    BY ConstantsOK
  <2>3. CASE Return(h, "failed") \/ Return(h, "ok")
    BY <1>0, <2>3, ReturnEffect DEF CallOK
  <2>4. CASE flags[h].acc # "rdonly" /\ t[2] > 0 /\ Begin(h, "write", t[1], t[2])
    <3>1. /\ CallTypeOK' /\ CallsKept(h)
          /\ pc'[h] = "write" /\ left'[h] = t[2]
      BY <1>0, <2>2, <2>4, BeginEffect
    <3> QED
      BY <1>1, <2>2, <2>4, <3>1 DEF CallOK
  <2> QED
    BY <2>1, <2>3, <2>4
<1>4. TypeOK'
  BY <1>0, <1>1, <1>2, <1>3 DEF TypeOK, CallTypeOK
<1> QED
  BY <1>0, <1>1, <1>2, <1>3, <1>4
     DEF Keeps, OthersKept, CallsKept, IInv, OffsetInSync, Plain

LEMMA WriteChunkKeeps ==
  ASSUME IInv, NEW h \in Handles, WriteChunk(h)
  PROVE  Keeps(h)
<1> DEFINE asked == Request(h, MaxWrite)
           at    == IF flags[h].append THEN size ELSE pos[h]
           n     == Smaller(asked, Larger(0, MaxSize - at))
<1>0. TypeOK /\ CallOK(h) /\ pc[h] = "write" /\ left[h] \in Nat \ {0}
  BY DEF IInv, CallOK, WriteChunk
<1>1. asked \in 1 .. left[h]
  BY <1>0, RequestFits, ConstantsOK
<1>2. /\ flags' = flags
      /\ size' = IF n = 0 THEN size ELSE Larger(size, at + n)
      /\ pos' = IF n = 0 THEN pos ELSE [pos EXCEPT ![h] = at + n]
      /\ Appended(h, n, asked)
      /\ Transferred(h, n, asked)
  BY <1>0 DEF WriteChunk
<1> HIDE DEF asked
<1>3. W \in Nat \ {0} /\ MaxSize \in 0 .. W - 1
      /\ size \in 0 .. MaxSize /\ at \in 0 .. W - 1
  BY <1>0, ConstantsOK DEF TypeOK
<1>4. n \in 0 .. asked /\ (n > 0 => n <= MaxSize - at)
  <2>1. asked \in Nat /\ MaxSize - at \in Int
    BY <1>1, <1>3
  <2> QED
    BY <2>1 DEF Smaller, Larger
<1> HIDE DEF n
<1>5. at + n \in 0 .. W - 1 /\ (n > 0 => at + n <= MaxSize)
  BY <1>1, <1>3, <1>4
<1>6. /\ CallTypeOK' /\ CallsKept(h)
      /\ offset' = [offset EXCEPT ![h] = (offset[h] + n) % W]
      /\ offset' \in [Handles -> 0 .. W - 1]
      /\ \/ /\ pc'[h] = "ok" /\ left'[h] = 0 /\ ~moved'[h]
            /\ n # asked \/ n = left[h]
         \/ /\ pc'[h] = pc[h] /\ left'[h] = left[h] - n /\ moved'[h]
            /\ n = asked /\ n < left[h]
  BY <1>0, <1>1, <1>2, <1>4, TransferredEffect
<1>7. /\ appendOffset' = IF flags[h].append
                         THEN [appendOffset EXCEPT ![h] = (appendOffset[h] + n) % W]
                         ELSE appendOffset
      /\ appendOffset' \in [Handles -> 0 .. W - 1]
  <2>1. appendOffset[h] + n \in Int
    BY <1>0, <1>1, <1>4, ConstantsOK DEF TypeOK
  <2>2. (appendOffset[h] + n) % W \in 0 .. W - 1
    BY <1>3, <2>1, ModRange, Zenon
  <2> QED
    BY <1>0, <1>2, <2>2 DEF Appended, TypeOK
<1> HIDE DEF at
<1>8. size' \in 0 .. MaxSize /\ pos' \in [Handles -> 0 .. W - 1]
  BY <1>0, <1>1, <1>2, <1>3, <1>4, <1>5 DEF TypeOK, Larger
<1>9. TypeOK'
  BY <1>0, <1>2, <1>6, <1>7, <1>8 DEF TypeOK, CallTypeOK
<1>10. CallOK(h)'
  BY <1>0, <1>1, <1>2, <1>4, <1>6 DEF CallOK
<1>11. OthersKept(h)
  BY <1>0, <1>2, <1>6, <1>7 DEF OthersKept, CallsKept, TypeOK
<1>12. ASSUME Lengths[h] = {}, ~flags[h].append PROVE offset'[h] = pos'[h]
  <2>1. offset[h] = pos[h] /\ at = pos[h]
    BY <1>12 DEF IInv, OffsetInSync, Plain, at
  <2>2. (offset[h] + n) % W = pos[h] + n
    BY <1>0, <1>1, <1>3, <1>4, <1>5, <2>1, OffsetFollows
  <2> QED
    BY <1>0, <1>1, <1>2, <1>4, <1>6, <2>1, <2>2 DEF TypeOK
<1>13. ASSUME flags[h].append, appendOffset[h] = size PROVE appendOffset'[h] = size'
  <2>1. at = size
    BY <1>13 DEF at
  <2>2. (appendOffset[h] + n) % W = size + n
    BY <1>3, <1>5, <1>13, <2>1, ModSmall, Zenon
  <2>3. appendOffset'[h] = size + n
    BY <1>0, <1>7, <1>13, <2>2 DEF TypeOK
  <2> QED
    BY <1>1, <1>2, <1>3, <1>4, <2>1, <2>3 DEF Larger
<1> QED
  BY <1>0, <1>2, <1>9, <1>10, <1>11, <1>12, <1>13 DEF Keeps, CallOK

\* A seek moves both positions or neither.
LEMMA SeekFromEffect ==
  ASSUME TypeOK, NEW h \in Handles, NEW base \in Int, NEW by \in Int, SeekFrom(h, base, by)
  PROVE  /\ CallTypeOK' /\ CallsKept(h) /\ CallOK(h)'
         /\ pos' \in [Handles -> 0 .. W - 1] /\ offset' \in [Handles -> 0 .. W - 1]
         /\ \A g \in Handles \ {h} : pos'[g] = pos[g] /\ offset'[g] = offset[g]
         /\ offset[h] = pos[h] => offset'[h] = pos'[h]
<1>1. PICK outcome \in {"ok", "failed"} : Return(h, outcome)
  BY DEF SeekFrom
<1>2. CallTypeOK' /\ CallsKept(h) /\ CallOK(h)'
  BY <1>1, ReturnEffect DEF CallOK
<1>3. CASE UNCHANGED <<pos, offset>>
  BY <1>2, <1>3 DEF TypeOK
<1>4. CASE ~UNCHANGED <<pos, offset>>
  <2> DEFINE to == base + by
  <2>1. /\ to \in 0 .. W - 1
        /\ pos' = [pos EXCEPT ![h] = to]
        /\ offset' = [offset EXCEPT ![h] = to]
    BY <1>4 DEF SeekFrom
  <2> HIDE DEF to
  <2> QED
    BY <1>2, <2>1 DEF TypeOK
<1> QED
  BY <1>3, <1>4

LEMMA SeekKeeps ==
  ASSUME IInv, NEW h \in Handles, Seek(h) \/ SeekEndMove(h)
  PROVE  Keeps(h)
<1>0. TypeOK /\ UNCHANGED <<size, flags, appendOffset>>
  BY DEF IInv, Seek, SeekEndMove
<1>1. \E base, by \in Int : SeekFrom(h, base, by)
  <2>1. CASE Seek(h)
    <3>1. PICK s \in Seeks[h] : SeekFrom(h, 0, s[2]) \/ SeekFrom(h, offset[h], s[2])
      BY <2>1 DEF Seek
    <3>2. s[2] \in Int /\ offset[h] \in Int
      BY <1>0, ConstantsOK DEF TypeOK
    <3> QED
      BY <3>1, <3>2
  <2>2. CASE SeekEndMove(h)
    BY <1>0, <2>2 DEF SeekEndMove, TypeOK
  <2> QED
    BY <2>1, <2>2
<1>2. /\ CallTypeOK' /\ CallsKept(h) /\ CallOK(h)'
      /\ pos' \in [Handles -> 0 .. W - 1] /\ offset' \in [Handles -> 0 .. W - 1]
      /\ \A g \in Handles \ {h} : pos'[g] = pos[g] /\ offset'[g] = offset[g]
      /\ offset[h] = pos[h] => offset'[h] = pos'[h]
  BY <1>0, <1>1, SeekFromEffect
<1>3. TypeOK'
  BY <1>0, <1>2 DEF TypeOK, CallTypeOK
<1> QED
  BY <1>0, <1>2, <1>3 DEF Keeps, OthersKept, CallsKept, IInv, OffsetInSync, Plain

LEMMA SeekEndKeeps ==
  ASSUME IInv, NEW h \in Handles, SeekEnd(h)
  PROVE  Keeps(h)
<1>0. TypeOK /\ CallOK(h) /\ Idle(h) /\ UNCHANGED <<fileVars, handleVars>>
  BY DEF IInv, SeekEnd
<1>1. PICK s \in Seeks[h] : Begin(h, "seekend", 0, size + s[2]) \/ Return(h, "failed")
  BY DEF SeekEnd
<1>2. size + s[2] \in Int /\ 0 \in 0 .. Line - 1
  BY <1>0, ConstantsOK DEF TypeOK
<1>3. CASE Begin(h, "seekend", 0, size + s[2])
  <2>1. CallTypeOK' /\ CallsKept(h) /\ pc'[h] = "seekend" /\ moved' = moved
    BY <1>0, <1>2, <1>3, BeginEffect
  <2> QED
    BY <1>0, <2>1, CallOnlyKeeps DEF CallOK, Idle
<1>4. CASE Return(h, "failed")
  BY <1>0, <1>4, ReturnEffect, CallOnlyKeeps DEF CallOK
<1> QED
  BY <1>1, <1>3, <1>4

LEMMA FtruncateKeeps ==
  ASSUME IInv, NEW h \in Handles, Ftruncate(h)
  PROVE  Keeps(h)
<1>0. TypeOK /\ CallOK(h) /\ Idle(h) /\ UNCHANGED <<size, handleVars>>
  BY DEF IInv, Ftruncate
<1>1. PICK len \in Lengths[h] :
        \/ pos' = [pos EXCEPT ![h] = len % W] /\ Begin(h, "truncate", 0, len)
        \/ UNCHANGED pos /\ Return(h, "failed")
  BY DEF Ftruncate
<1>2. len \in Int /\ 0 \in 0 .. Line - 1 /\ W \in Nat \ {0} /\ Lengths[h] # {}
  BY ConstantsOK
<1>3. CASE UNCHANGED pos /\ Return(h, "failed")
  BY <1>0, <1>3, ReturnEffect, CallOnlyKeeps DEF CallOK
<1>4. CASE pos' = [pos EXCEPT ![h] = len % W] /\ Begin(h, "truncate", 0, len)
  <2>1. CallTypeOK' /\ CallsKept(h) /\ pc'[h] = "truncate" /\ moved' = moved
    BY <1>0, <1>2, <1>4, BeginEffect
  <2>2. CallOK(h)'
    BY <1>0, <1>2, <2>1 DEF CallOK, Idle
  <2>3. len % W \in 0 .. W - 1
    BY <1>2, ModRange, Zenon
  <2>4. pos' \in [Handles -> 0 .. W - 1]
    BY <1>0, <1>4, <2>3 DEF TypeOK
  <2>5. TypeOK'
    BY <1>0, <2>1, <2>4 DEF TypeOK, CallTypeOK
  <2> QED
    BY <1>0, <1>2, <1>4, <2>1, <2>2, <2>5 DEF Keeps, OthersKept, CallsKept, TypeOK
<1> QED
  BY <1>1, <1>3, <1>4

LEMMA TruncateFileKeeps ==
  ASSUME IInv, NEW h \in Handles, TruncateFile(h)
  PROVE  Keeps(h)
<1>0. TypeOK /\ CallOK(h) /\ UNCHANGED <<pos, handleVars>> /\ Lengths[h] # {}
  BY DEF IInv, TruncateFile, CallOK
<1>1. CallTypeOK' /\ CallsKept(h) /\ CallOK(h)'
  BY <1>0, ReturnEffect DEF TruncateFile, CallOK
<1>2. size' \in 0 .. MaxSize /\ (flags[h].acc = "rdonly" => size' = size)
  BY <1>0, ConstantsOK DEF TruncateFile, TypeOK
<1>3. TypeOK'
  BY <1>0, <1>1, <1>2 DEF TypeOK, CallTypeOK
<1> QED
  BY <1>0, <1>1, <1>2, <1>3 DEF Keeps, OthersKept, CallsKept
-----------------------------------------------------------------------------
(* The invariant.                                                          *)

LEMMA InitInvariant == Init => IInv
<1> SUFFICES ASSUME Init PROVE IInv
  OBVIOUS
<1>1. MaxSize \in 0 .. W - 1 /\ W \in Nat \ {0} /\ Line \in Nat \ {0}
  BY ConstantsOK
<1>2. TypeOK
  BY <1>1 DEF Init, TypeOK
<1> QED
  BY <1>2 DEF Init, IInv, CallOK, OffsetInSync, Plain, AppendOffsetCurrent

\* A step of one handle that keeps its part keeps everything.
LEMMA KeepsInvariant ==
  ASSUME IInv, NEW h \in Handles, Keeps(h)
  PROVE  IInv'
<1>1. \A g \in Handles : CallOK(g)'
  BY DEF IInv, Keeps, OthersKept, CallOK
<1>2. OffsetInSync'
  BY DEF IInv, Keeps, OthersKept, OffsetInSync, Plain
<1>3. AppendOffsetCurrent'
  BY DEF IInv, Keeps, OthersKept, AppendOffsetCurrent
<1> QED
  BY <1>1, <1>2, <1>3 DEF IInv, Keeps

\* A step of Next, of one handle.
Step(h) ==
  \/ BeginRead(h) \/ ReadChunk(h) \/ BeginWrite(h) \/ WriteChunk(h) \/ TransferFails(h)
  \/ Seek(h) \/ SeekEnd(h) \/ SeekEndMove(h)
  \/ Ftruncate(h) \/ TruncateFile(h) \/ Query(h)

LEMMA StepKeeps ==
  ASSUME IInv, NEW h \in Handles, Step(h)
  PROVE  Keeps(h)
BY BeginReadKeeps, ReadChunkKeeps, BeginWriteKeeps, WriteChunkKeeps, TransferFailsKeeps,
   SeekKeeps, SeekEndKeeps, FtruncateKeeps, TruncateFileKeeps, QueryKeeps DEF Step

LEMMA InvariantStep == IInv /\ [Next]_vars => IInv'
<1>1. IInv /\ Next => IInv'
  BY StepKeeps, KeepsInvariant DEF Next, Step
<1>2. IInv /\ UNCHANGED vars => IInv'
  BY DEF IInv, TypeOK, CallOK, OffsetInSync, Plain, AppendOffsetCurrent
<1> QED
  BY <1>1, <1>2

LEMMA Invariance == Spec => []IInv
BY InitInvariant, InvariantStep, PTL DEF Spec
-----------------------------------------------------------------------------
(* FileIO implements FileCursor.                                           *)

\* What a step of h does to what the user sees: it changes what is h's.
LEMMA Maps ==
  ASSUME IInv, NEW h \in Handles, Keeps(h)
  PROVE  /\ Plain' = Plain
         /\ size' \in 0 .. MaxSize
         /\ offset' = [offset EXCEPT ![h] = offset'[h]]
         /\ moved' = [moved EXCEPT ![h] = moved'[h]]
         /\ CallOf' = [CallOf EXCEPT ![h] = IF pc'[h] = "seekend" THEN "seek" ELSE pc'[h]]
         /\ LeftOf' = [LeftOf EXCEPT ![h] =
                         IF pc'[h] \in {"read", "write"} THEN left'[h] ELSE 0]
<1>1. TypeOK /\ TypeOK' /\ flags' = flags /\ OthersKept(h)
  BY DEF IInv, Keeps
<1>2. Plain' = Plain
  BY <1>1 DEF Plain
<1>3. offset' = [offset EXCEPT ![h] = offset'[h]]
  BY <1>1 DEF TypeOK, OthersKept
<1>4. moved' = [moved EXCEPT ![h] = moved'[h]]
  BY <1>1 DEF TypeOK, OthersKept
<1>5. CallOf' = [CallOf EXCEPT ![h] = IF pc'[h] = "seekend" THEN "seek" ELSE pc'[h]]
  BY <1>1 DEF OthersKept, CallOf
<1>6. LeftOf' = [LeftOf EXCEPT ![h] =
                   IF pc'[h] \in {"read", "write"} THEN left'[h] ELSE 0]
  BY <1>1 DEF OthersKept, LeftOf
<1> QED
  BY <1>1, <1>2, <1>3, <1>4, <1>5, <1>6 DEF TypeOK

\* A handle that is not plain may do anything.
LEMMA OtherStep ==
  ASSUME IInv, NEW h \in Handles \ Plain, Keeps(h)
  PROVE  Cursor!Other
<1>1. /\ Plain' = Plain /\ size' \in 0 .. MaxSize
      /\ \A g \in Plain : g \in Handles \ {h}
  BY Maps DEF Plain
<1>2. \A g \in Handles \ {h} : /\ offset'[g] = offset[g] /\ moved'[g] = moved[g]
                               /\ pc'[g] = pc[g] /\ left'[g] = left[g]
  BY DEF Keeps, OthersKept
<1> QED
  BY <1>1, <1>2 DEF Cursor!Other, CallOf, LeftOf

\* A call of a plain handle ends without a further effect.
LEMMA GiveUpStep ==
  ASSUME IInv, NEW h \in Plain, Keeps(h), size' = size, offset'[h] = offset[h],
         pc'[h] \in {"ok", "failed"}, ~moved'[h], pc'[h] = "failed" => ~moved[h]
  PROVE  Cursor!GiveUp(h)
<1>1. h \in Handles /\ offset \in [Handles -> 0 .. W - 1] /\ moved' \in [Handles -> BOOLEAN]
  BY DEF Plain, IInv, TypeOK, Keeps
<1>2. /\ Plain' = Plain
      /\ offset' = [offset EXCEPT ![h] = offset'[h]]
      /\ moved' = [moved EXCEPT ![h] = FALSE]
      /\ CallOf' = [CallOf EXCEPT ![h] = pc'[h]]
      /\ LeftOf' = [LeftOf EXCEPT ![h] = 0]
  BY <1>1, Maps
<1>3. offset' = offset
  BY <1>1, <1>2
<1> QED
  BY <1>2, <1>3 DEF Cursor!GiveUp, Cursor!Stop, Cursor!Ended

\* A seek of a plain handle has been done.
LEMMA SeekStep ==
  ASSUME IInv, NEW h \in Plain, Keeps(h), size' = size,
         pc[h] \in {"ok", "failed", "seekend"}, pc'[h] = "ok", ~moved'[h]
  PROVE  Cursor!Seek(h)
<1>1. h \in Handles /\ offset' \in [Handles -> 0 .. W - 1] /\ moved' \in [Handles -> BOOLEAN]
  BY DEF Plain, IInv, TypeOK, Keeps
<1>2. /\ Plain' = Plain
      /\ offset' = [offset EXCEPT ![h] = offset'[h]]
      /\ moved' = [moved EXCEPT ![h] = FALSE]
      /\ CallOf' = [CallOf EXCEPT ![h] = "ok"]
      /\ LeftOf' = [LeftOf EXCEPT ![h] = 0]
  BY <1>1, Maps
<1>3. CallOf[h] \in {"ok", "failed", "seek"} /\ offset'[h] \in 0 .. W - 1
  BY <1>1 DEF CallOf
<1> QED
  BY <1>2, <1>3 DEF Cursor!Seek, Cursor!Stop, Cursor!Ended

\* A call of a plain handle begins.
LEMMA BeginStep ==
  ASSUME IInv, NEW h \in Plain, Keeps(h), size' = size, offset'[h] = offset[h], Idle(h),
         pc'[h] \in {"read", "write", "seekend"}, moved'[h] = moved[h]
  PROVE  Cursor!Begin(h)
<1>1. /\ h \in Handles /\ offset \in [Handles -> 0 .. W - 1]
      /\ moved \in [Handles -> BOOLEAN]
  BY DEF Plain, IInv, TypeOK
<1>2. /\ Plain' = Plain
      /\ offset' = [offset EXCEPT ![h] = offset'[h]]
      /\ moved' = [moved EXCEPT ![h] = moved'[h]]
      /\ CallOf' = [CallOf EXCEPT ![h] = IF pc'[h] = "seekend" THEN "seek" ELSE pc'[h]]
      /\ \A g \in Handles \ {h} : LeftOf'[g] = LeftOf[g]
  <2>1. /\ Plain' = Plain
        /\ offset' = [offset EXCEPT ![h] = offset'[h]]
        /\ moved' = [moved EXCEPT ![h] = moved'[h]]
        /\ CallOf' = [CallOf EXCEPT ![h] = IF pc'[h] = "seekend" THEN "seek" ELSE pc'[h]]
    BY <1>1, Maps
  <2>2. \A g \in Handles \ {h} : LeftOf'[g] = LeftOf[g]
    BY DEF LeftOf, Keeps, OthersKept
  <2> QED
    BY <2>1, <2>2
<1>3. offset' = offset /\ moved' = moved
  BY <1>1, <1>2
<1>4. LeftOf' \in [Handles -> Nat]
  <2>1. \A g \in Handles : CallOK(g)'
    BY <1>1, KeepsInvariant DEF IInv
  <2> QED
    BY <2>1 DEF LeftOf, CallOK
<1>5. CallOf[h] \in {"ok", "failed"}
  BY <1>1 DEF Idle, CallOf
<1> QED
  BY <1>2, <1>3, <1>4, <1>5 DEF Cursor!Begin, Cursor!Ended

\* A transfer of a plain handle has moved n bytes.
LEMMA MovedStep ==
  ASSUME IInv, NEW h \in Plain, Keeps(h), pc[h] \in {"read", "write"},
         NEW n \in 0 .. left[h], offset'[h] = offset[h] + n, NEW exhausted \in BOOLEAN,
         \/ pc'[h] = "ok" /\ ~moved'[h] /\ (exhausted \/ n = left[h])
         \/ /\ pc'[h] = pc[h] /\ left'[h] = left[h] - n /\ moved'[h]
            /\ n > 0 /\ n < left[h]
  PROVE  Cursor!Moved(h, n, exhausted)
<1>1. /\ h \in Handles /\ moved' \in [Handles -> BOOLEAN] /\ TypeOK
      /\ LeftOf[h] = left[h] /\ CallOf[h] = pc[h]
      /\ LeftOf \in [Handles -> Int] /\ CallOf = [g \in Handles |-> CallOf[g]]
  BY DEF Plain, IInv, TypeOK, Keeps, LeftOf, CallOf
<1>2. /\ Plain' = Plain
      /\ offset' = [offset EXCEPT ![h] = offset[h] + n]
      /\ moved' = [moved EXCEPT ![h] = moved'[h]]
      /\ CallOf' = [CallOf EXCEPT ![h] = IF pc'[h] = "seekend" THEN "seek" ELSE pc'[h]]
      /\ LeftOf' = [LeftOf EXCEPT ![h] =
                      IF pc'[h] \in {"read", "write"} THEN left'[h] ELSE 0]
  BY <1>1, Maps
<1>3. CASE pc'[h] = "ok" /\ ~moved'[h] /\ (exhausted \/ n = left[h])
  <2>1. Cursor!Stop(h, "ok")
    BY <1>1, <1>2, <1>3 DEF Cursor!Stop
  <2> QED
    BY <1>1, <1>2, <1>3, <2>1 DEF Cursor!Moved
<1>4. CASE /\ pc'[h] = pc[h] /\ left'[h] = left[h] - n /\ moved'[h]
           /\ n > 0 /\ n < left[h]
  <2>1. CallOf' = CallOf
    BY <1>1, <1>2, <1>4
  <2>2. LeftOf' = [LeftOf EXCEPT ![h] = LeftOf[h] - n]
    BY <1>1, <1>2, <1>4
  <2>3. moved' = [moved EXCEPT ![h] = moved[h] \/ n > 0]
    BY <1>1, <1>2, <1>4 DEF TypeOK
  <2> QED
    BY <1>1, <1>2, <1>4, <2>1, <2>2, <2>3 DEF Cursor!Moved
<1> QED
  BY <1>3, <1>4

LEMMA BeginReadStep ==
  ASSUME IInv, NEW h \in Plain, BeginRead(h)
  PROVE  Cursor!Begin(h) \/ Cursor!GiveUp(h)
<1>1. /\ h \in Handles /\ TypeOK /\ CallOK(h) /\ Idle(h) /\ Keeps(h)
      /\ UNCHANGED <<size, offset>>
  BY BeginReadKeeps DEF Plain, IInv, BeginRead
<1>2. PICK t \in Transfers[h] :
         \/ Return(h, "failed")
         \/ Return(h, "ok")
         \/ Begin(h, "read", t[1], t[2])
  BY DEF BeginRead
<1>3. t[1] \in 0 .. Line - 1 /\ t[2] \in Int
  BY <1>1, ConstantsOK
<1>4. CASE Return(h, "failed") \/ Return(h, "ok")
  BY <1>1, <1>4, ReturnEffect, GiveUpStep DEF CallOK, Idle
<1>5. CASE Begin(h, "read", t[1], t[2])
  BY <1>1, <1>3, <1>5, BeginEffect, BeginStep
<1> QED
  BY <1>2, <1>4, <1>5

LEMMA BeginWriteStep ==
  ASSUME IInv, NEW h \in Plain, BeginWrite(h)
  PROVE  Cursor!Begin(h) \/ Cursor!GiveUp(h)
<1>1. /\ h \in Handles /\ TypeOK /\ CallOK(h) /\ Idle(h) /\ Keeps(h)
      /\ UNCHANGED <<size, offset>>
  BY BeginWriteKeeps DEF Plain, IInv, BeginWrite
<1>2. PICK t \in Transfers[h] :
         \/ Return(h, "failed")
         \/ Return(h, "ok")
         \/ Begin(h, "write", t[1], t[2])
  BY DEF BeginWrite
<1>3. t[1] \in 0 .. Line - 1 /\ t[2] \in Int
  BY <1>1, ConstantsOK
<1>4. CASE Return(h, "failed") \/ Return(h, "ok")
  BY <1>1, <1>4, ReturnEffect, GiveUpStep DEF CallOK, Idle
<1>5. CASE Begin(h, "write", t[1], t[2])
  BY <1>1, <1>3, <1>5, BeginEffect, BeginStep
<1> QED
  BY <1>2, <1>4, <1>5

LEMMA ReadChunkStep ==
  ASSUME IInv, NEW h \in Plain, ReadChunk(h)
  PROVE  Cursor!Read(h)
<1> DEFINE asked == Request(h, MaxRead)
           n     == Smaller(asked, Larger(0, size - pos[h]))
<1>0. /\ h \in Handles /\ TypeOK /\ Keeps(h)
      /\ pc[h] = "read" /\ left[h] \in Nat \ {0}
      /\ offset[h] = pos[h] /\ offset'[h] = pos'[h]
  BY ReadChunkKeeps DEF Plain, IInv, CallOK, ReadChunk, OffsetInSync, Keeps
<1>1. asked \in 1 .. left[h]
  BY <1>0, RequestFits, ConstantsOK
<1>2. /\ size' = size
      /\ pos' = [pos EXCEPT ![h] = pos[h] + n]
      /\ Transferred(h, n, asked)
  BY <1>0 DEF ReadChunk, TypeOK
<1> HIDE DEF asked
<1>3. size \in Nat /\ pos[h] \in Nat
  BY <1>0, ConstantsOK DEF TypeOK
<1>4. /\ n \in 0 .. asked
      /\ n > 0 => n <= size - pos[h]
      /\ n # asked => n >= size - pos[h]
  <2>1. asked \in Nat /\ size - pos[h] \in Int
    BY <1>1, <1>3
  <2> QED
    BY <2>1, Comes
<1> HIDE DEF n
<1>5. \/ pc'[h] = "ok" /\ ~moved'[h] /\ (n # asked \/ n = left[h])
      \/ /\ pc'[h] = pc[h] /\ left'[h] = left[h] - n /\ moved'[h]
         /\ n = asked /\ n < left[h]
  BY <1>0, <1>1, <1>2, <1>4, TransferredEffect
<1>6. offset'[h] = offset[h] + n /\ n \in 0 .. left[h]
  BY <1>0, <1>1, <1>2, <1>4 DEF TypeOK
<1>7. Cursor!Moved(h, n, offset[h] + n >= size)
  <2> DEFINE exhausted == offset[h] + n >= size
  <2>1. n # asked => exhausted
    BY <1>0, <1>1, <1>3, <1>4
  <2>2. n = asked => n > 0
    BY <1>1
  <2>3. exhausted \in BOOLEAN
    OBVIOUS
  <2> HIDE DEF exhausted
  <2>4. Cursor!Moved(h, n, exhausted)
    BY <1>0, <1>5, <1>6, <2>1, <2>2, <2>3, MovedStep
  <2> QED
    BY <2>4 DEF exhausted
<1>8. LeftOf[h] = left[h] /\ CallOf[h] = "read"
  BY <1>0 DEF LeftOf, CallOf
<1> QED
  BY <1>0, <1>2, <1>3, <1>4, <1>6, <1>7, <1>8 DEF Cursor!Read

LEMMA WriteChunkStep ==
  ASSUME IInv, NEW h \in Plain, WriteChunk(h)
  PROVE  Cursor!Write(h)
<1> DEFINE asked == Request(h, MaxWrite)
           n     == Smaller(asked, Larger(0, MaxSize - pos[h]))
<1>0. /\ h \in Handles /\ TypeOK /\ Keeps(h) /\ ~flags[h].append
      /\ pc[h] = "write" /\ left[h] \in Nat \ {0}
      /\ offset[h] = pos[h] /\ offset'[h] = pos'[h]
  BY WriteChunkKeeps DEF Plain, IInv, CallOK, WriteChunk, OffsetInSync, Keeps
<1>1. asked \in 1 .. left[h]
  BY <1>0, RequestFits, ConstantsOK
<1>2. /\ size' = IF n = 0 THEN size ELSE Larger(size, pos[h] + n)
      /\ pos' = IF n = 0 THEN pos ELSE [pos EXCEPT ![h] = pos[h] + n]
      /\ Transferred(h, n, asked)
  BY <1>0 DEF WriteChunk
<1> HIDE DEF asked
<1>3. MaxSize \in Nat /\ size \in Nat /\ pos[h] \in Nat
  BY <1>0, ConstantsOK DEF TypeOK
<1>4. /\ n \in 0 .. asked
      /\ n > 0 => n <= MaxSize - pos[h]
      /\ n # asked => n >= MaxSize - pos[h]
  <2>1. asked \in Nat /\ MaxSize - pos[h] \in Int
    BY <1>1, <1>3
  <2> QED
    BY <2>1, Comes
<1> HIDE DEF n
<1>5. \/ pc'[h] = "ok" /\ ~moved'[h] /\ (n # asked \/ n = left[h])
      \/ /\ pc'[h] = pc[h] /\ left'[h] = left[h] - n /\ moved'[h]
         /\ n = asked /\ n < left[h]
  BY <1>0, <1>1, <1>2, <1>4, TransferredEffect
<1>6. offset'[h] = offset[h] + n /\ n \in 0 .. left[h]
  BY <1>0, <1>1, <1>2, <1>3, <1>4 DEF TypeOK
<1>7. Cursor!Moved(h, n, offset[h] + n >= MaxSize)
  <2> DEFINE exhausted == offset[h] + n >= MaxSize
  <2>1. n # asked => exhausted
    BY <1>0, <1>1, <1>3, <1>4
  <2>2. n = asked => n > 0
    BY <1>1
  <2>3. exhausted \in BOOLEAN
    OBVIOUS
  <2> HIDE DEF exhausted
  <2>4. Cursor!Moved(h, n, exhausted)
    BY <1>0, <1>5, <1>6, <2>1, <2>2, <2>3, MovedStep
  <2> QED
    BY <2>4 DEF exhausted
<1>8. LeftOf[h] = left[h] /\ CallOf[h] = "write"
  BY <1>0 DEF LeftOf, CallOf
<1>9. size' = IF n > 0 /\ offset[h] + n > size THEN offset[h] + n ELSE size
  BY <1>0, <1>1, <1>2, <1>3, <1>4 DEF Larger
<1> QED
  BY <1>0, <1>3, <1>4, <1>6, <1>7, <1>8, <1>9 DEF Cursor!Write

LEMMA SeekFromStep ==
  ASSUME IInv, NEW h \in Plain, Seek(h) \/ SeekEndMove(h)
  PROVE  Cursor!Seek(h) \/ Cursor!GiveUp(h)
<1>1. /\ h \in Handles /\ TypeOK /\ Keeps(h) /\ size' = size
      /\ pc[h] \in {"ok", "failed", "seekend"} /\ ~moved[h]
  BY SeekKeeps DEF Plain, IInv, CallOK, Idle, Seek, SeekEndMove
<1>2. \/ Return(h, "ok")
      \/ Return(h, "failed") /\ UNCHANGED offset
  BY DEF Seek, SeekEndMove, SeekFrom
<1>3. CASE Return(h, "ok")
  BY <1>1, <1>3, ReturnEffect, SeekStep
<1>4. CASE Return(h, "failed") /\ UNCHANGED offset
  BY <1>1, <1>4, ReturnEffect, GiveUpStep
<1> QED
  BY <1>2, <1>3, <1>4

LEMMA SeekEndStep ==
  ASSUME IInv, NEW h \in Plain, SeekEnd(h)
  PROVE  Cursor!Begin(h) \/ Cursor!GiveUp(h)
<1>1. /\ h \in Handles /\ TypeOK /\ CallOK(h) /\ Idle(h) /\ Keeps(h)
      /\ UNCHANGED <<size, offset>>
  BY SeekEndKeeps DEF Plain, IInv, SeekEnd
<1>2. PICK s \in Seeks[h] : Begin(h, "seekend", 0, size + s[2]) \/ Return(h, "failed")
  BY DEF SeekEnd
<1>3. size + s[2] \in Int /\ 0 \in 0 .. Line - 1
  BY <1>1, ConstantsOK DEF TypeOK
<1>4. CASE Begin(h, "seekend", 0, size + s[2])
  BY <1>1, <1>3, <1>4, BeginEffect, BeginStep
<1>5. CASE Return(h, "failed")
  BY <1>1, <1>5, ReturnEffect, GiveUpStep DEF CallOK, Idle
<1> QED
  BY <1>2, <1>4, <1>5

\* No transfer, or one that fails.
LEMMA EndStep ==
  ASSUME IInv, NEW h \in Plain, Query(h) \/ TransferFails(h)
  PROVE  Cursor!GiveUp(h)
<1>1. h \in Handles /\ TypeOK /\ CallOK(h) /\ Keeps(h) /\ UNCHANGED <<size, offset>>
  BY QueryKeeps, TransferFailsKeeps DEF Plain, IInv, Query, TransferFails
<1>2. \E outcome \in {"ok", "failed"} :
        Return(h, outcome) /\ (outcome = "failed" => ~moved[h])
  BY <1>1 DEF Query, TransferFails, CallOK, Idle
<1> QED
  BY <1>1, <1>2, ReturnEffect, GiveUpStep

LEMMA Simulation == IInv /\ [Next]_vars => [Cursor!Next]_(Cursor!vars)
<1>1. ASSUME IInv, NEW h \in Handles \ Plain, Step(h) PROVE Cursor!Next
  BY <1>1, StepKeeps, OtherStep DEF Cursor!Next
<1>2. ASSUME IInv, NEW h \in Plain, Step(h) PROVE Cursor!Next
  <2>1. ~Ftruncate(h) /\ ~TruncateFile(h)
    BY <1>2 DEF Plain, IInv, CallOK, Ftruncate, TruncateFile
  <2>2. \/ Cursor!Begin(h) \/ Cursor!GiveUp(h) \/ Cursor!Read(h)
        \/ Cursor!Write(h) \/ Cursor!Seek(h)
    BY <1>2, <2>1, BeginReadStep, BeginWriteStep, ReadChunkStep, WriteChunkStep,
       SeekFromStep, SeekEndStep, EndStep DEF Step
  <2> QED
    BY <2>2 DEF Cursor!Next
<1>3. UNCHANGED vars => UNCHANGED Cursor!vars
  BY DEF Cursor!vars, Plain, CallOf, LeftOf
<1>4. IInv /\ Next => Cursor!Next
  BY <1>1, <1>2 DEF Next, Step
<1> QED
  BY <1>3, <1>4
-----------------------------------------------------------------------------
(* Theorems.                                                               *)

\* Every variable stays in its range, for every instance.
THEOREM TypeCorrect == Spec => []TypeOK
BY Invariance, PTL DEF IInv

\* However a buffer lies, and whatever the limits are, every request of __fsa_read
\* and __fsa_write fits alignedBuffer or is of whole aligned lines, and is for
\* something.
THEOREM RequestsAlwaysFit == Spec => []RequestsFit
<1>1. IInv => RequestsFit
  <2> SUFFICES ASSUME IInv, NEW h \in Handles, pc[h] \in {"read", "write"}
               PROVE  LET n == Request(h, Limit(h)) IN
                      /\ n \in 1 .. Smaller(Limit(h), left[h])
                      /\ IF Bounces(h) THEN n <= Line ELSE n % Line = 0
    BY DEF RequestsFit
  <2>1. Limit(h) \in Nat \ {0} /\ Limit(h) % Line = 0
    BY ConstantsOK DEF Limit
  <2>2. left[h] \in Nat \ {0} /\ TypeOK
    BY DEF IInv, CallOK
  <2> QED
    BY <2>1, <2>2, RequestFits DEF Smaller
<1> QED
  BY <1>1, Invariance, PTL

\* Of a handle that neither appends nor truncates, file->offset is FSA's position,
\* whatever fails and whatever the others do.
THEOREM OffsetsInSync == Spec => []OffsetInSync
BY Invariance, PTL DEF IInv

\* The appendOffset of the only writer is the size of the file.
THEOREM AppendOffsetsAreCurrent == Spec => []AppendOffsetCurrent
BY Invariance, PTL DEF IInv

\* Whoever uses a handle that neither appends nor truncates sees one position, which
\* every piece of every transfer advances by what FSA moved: the cutting, the buffer
\* and the second position do not show.
THEOREM FileIOImplementsCursor == Spec => RefinesCursor
<1>1. Init => Cursor!Init
  BY DEF Init, Cursor!Init, Plain, CallOf, LeftOf
<1>2. IInv /\ [Next]_vars => [Cursor!Next]_(Cursor!vars)
  BY Simulation
<1> QED
  BY <1>1, <1>2, Invariance, PTL DEF Spec, RefinesCursor, Cursor!Spec
=============================================================================
