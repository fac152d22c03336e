------------------------ MODULE FileAttributesProofs ------------------------
(***************************************************************************)
(* For any readers, names, modes, times and sizes: what stat reports of an *)
(* entry, and that an answer of dirnext is of one piece.                   *)
(***************************************************************************)
EXTENDS FileAttributes, WellFoundedInduction, TLAPS

-----------------------------------------------------------------------------
(* The permissions.                                                        *)

\* What a shifted set of bits holds.
LEMMA ShiftBits ==
  ASSUME NEW bits, NEW by
  PROVE  \A b : b \in Shift(bits, by) <=> \E a \in bits : b = a + by
  BY DEF Shift

\* The bits FSA keeps of a mode: the owner's in 8..10, the group's in 4..6.
LEMMA PermissionBits ==
  ASSUME NEW m \in SUBSET Int
  PROVE  /\ TranslatePermissionMode(m) \subseteq 0 .. 10
         /\ \A b \in 0 .. 2 : b \in TranslatePermissionMode(m) <=> b \in m
         /\ \A b \in 3 .. 5 : b + 1 \in TranslatePermissionMode(m) <=> b \in m
         /\ \A b \in 6 .. 8 : b + 2 \in TranslatePermissionMode(m) <=> b \in m
<1>1. \A b : b \in TranslatePermissionMode(m) <=>
               \/ \E a \in m : a \in 6 .. 8 /\ b = a + 2
               \/ \E a \in m : a \in 3 .. 5 /\ b = a + 1
               \/ b \in m /\ b \in 0 .. 2
  BY DEF TranslatePermissionMode, Shift, S_IRWXU, S_IRWXG, S_IRWXO
<1> QED
  BY <1>1

\* Octal digits become hexadecimal ones and octal ones again: exactly the nine
\* permission bits of a mode survive chmod and stat.
THEOREM PermissionsRoundTrip ==
  ASSUME NEW m \in SUBSET Int, NEW s, s.mode = TranslatePermissionMode(m)
  PROVE  TranslateStatMode(s) = StatKind(s) \cup (m \cap 0 .. 8)
<1> DEFINE p == TranslatePermissionMode(m)
<1>1. /\ p \subseteq 0 .. 10
      /\ \A b \in 0 .. 2 : b \in p <=> b \in m
      /\ \A b \in 3 .. 5 : b + 1 \in p <=> b \in m
      /\ \A b \in 6 .. 8 : b + 2 \in p <=> b \in m
  BY PermissionBits
<1> HIDE DEF p
<1>2. Shift(p, -2) \cap S_IRWXU = m \cap 6 .. 8
  BY <1>1 DEF Shift, S_IRWXU
<1>3. Shift(p, -1) \cap S_IRWXG = m \cap 3 .. 5
  BY <1>1 DEF Shift, S_IRWXG
<1>4. p \cap S_IRWXO = m \cap 0 .. 2
  BY <1>1 DEF S_IRWXO
<1>5. (m \cap 6 .. 8) \cup (m \cap 3 .. 5) \cup (m \cap 0 .. 2) = m \cap 0 .. 8
  OBVIOUS
<1>6. TranslateStatMode(s) = StatKind(s) \cup (m \cap 6 .. 8) \cup (m \cap 3 .. 5) \cup (m \cap 0 .. 2)
  BY <1>2, <1>3, <1>4 DEF TranslateStatMode, p
<1> QED
  BY <1>5, <1>6

-----------------------------------------------------------------------------
(* The calendar.                                                           *)

\* A year adds its days, by the quotients of the code as by the calendar.
LEMMA YearAdds ==
  \A y \in 1971 .. 2100 :
    EpochDiffDays(y) = EpochDiffDays(y - 1) + IF Leap(y - 1) THEN 366 ELSE 365
  BY DEF EpochDiffDays, Leap

LEMMA EpochBegins == EpochDiffDays(1970) = 0
  BY DEF EpochDiffDays

\* The sum over the years is well defined: the code's formula is such a sum.
LEMMA DaysUntilSums ==
  /\ DaysUntil[1970] = 0
  /\ \A y \in 1971 .. 2100 : DaysUntil[y] = DaysUntil[y - 1] + IF Leap(y - 1) THEN 366 ELSE 365
<1> DEFINE Sum(d) == [y \in 1970 .. 2100 |->
                        IF y = 1970 THEN 0 ELSE d[y - 1] + IF Leap(y - 1) THEN 366 ELSE 365]
           w == [y \in 1970 .. 2100 |-> EpochDiffDays(y)]
<1>1. w = Sum(w)
  <2>1. \A y \in 1970 .. 2100 :
          w[y] = IF y = 1970 THEN 0 ELSE w[y - 1] + IF Leap(y - 1) THEN 366 ELSE 365
    BY YearAdds, EpochBegins
  <2> QED
    BY <2>1
<1>2. DaysUntil = CHOOSE d : d = Sum(d)
  BY DEF DaysUntil
<1>3. DaysUntil = Sum(DaysUntil)
  <2> HIDE DEF Sum, w
  <2>1. \E d : d = Sum(d)
    BY <1>1
  <2> QED
    BY <1>2, <2>1, Zenon
<1> QED
  BY <1>3

\* A set of numbers that is not empty has a least one.
LEMMA Least == \A S \in SUBSET Nat : S # {} => \E m \in S : \A k \in S : m <= k
<1> TAKE S \in SUBSET Nat
<1> HAVE S # {}
<1> DEFINE less == OpToRel(<, Nat)
<1>1. \A x, y \in Nat : <<y, x>> \in less <=> y < x
  BY DEF OpToRel
<1>2. IsWellFoundedOn(less, Nat)
  BY NatLessThanWellFounded
<1> HIDE DEF less
<1>3. PICK m \in S : \A k \in S : ~(<<k, m>> \in less)
  BY <1>2, WFMin
<1>4. ASSUME NEW k \in S PROVE m <= k
  <2>1. ~(k < m)
    <3>1. k \in Nat /\ m \in Nat
      OBVIOUS
    <3>2. ~(<<k, m>> \in less)
      BY <1>3
    <3> QED
      BY <1>1, <3>1, <3>2
  <2> QED
    BY <2>1
<1> QED
  BY <1>4

\* EPOCH_DIFF_DAYS counts the days up to the beginning of a year exactly, for
\* every year before 2101.
THEOREM CalendarExact == \A y \in 1970 .. 2100 : EpochDiffDays(y) = DaysUntil[y]
<1> DEFINE wrong == {y \in 1970 .. 2100 : EpochDiffDays(y) # DaysUntil[y]}
<1> SUFFICES ASSUME wrong # {} PROVE FALSE
  OBVIOUS
<1>1. PICK y \in wrong : \A z \in wrong : y <= z
  <2>1. wrong \in SUBSET Nat
    OBVIOUS
  <2> HIDE DEF wrong
  <2> QED
    BY <2>1, Least
<1>2. y # 1970
  BY EpochBegins, DaysUntilSums
<1>3. y - 1 \in 1970 .. 2100 /\ y - 1 \notin wrong
  BY <1>1, <1>2
<1> QED
  BY <1>2, <1>3, YearAdds, DaysUntilSums
-----------------------------------------------------------------------------
(* The inductive invariant.                                                *)

Answer == [name : Names, info : FSStat]

\* A call that has the mutex is between dirnext's lock and its unlock.
Locked == \A t \in Threads : pc[t] \in {"read", "stat", "name"} <=> owner = t

\* An entry is what it was made as: the kind is its flag, or can be told by the
\* size, and the mode is what was asked for.
EntryMade(n) ==
  entries[n] # NoNode =>
    /\ entries[n].flags = FlagsOf(n, asked[n].kind)
    /\ entries[n].mode = TranslatePermissionMode(asked[n].mode)
    /\ asked[n].kind = "DIRECTORY" => entries[n].size = 0
    /\ asked[n].kind = "FILE" /\ n \in Typeless => entries[n].size # 0

\* What a call fills in comes from what FSA gave it: the shared entry is still
\* that one as long as the call has the mutex.
Filling(t) ==
  /\ pc[t] \in {"stat", "name"} => entryData = gave[t]
  /\ pc[t] \in {"stat", "name", "filled"} => gave[t] \in Answer
  /\ pc[t] \in {"name", "filled"} =>
       /\ out[t].st = TranslateStat(gave[t].info)
       /\ out[t].ino \in {gave[t].name, NoEntry}
  /\ pc[t] = "filled" => out[t].name = NameCut[gave[t].name]

IInv ==
  /\ TypeOK /\ Locked
  /\ \A n \in Names : EntryMade(n)
  /\ \A t \in Threads : Filling(t)

\* The directory's part of the type invariant, and the readers'.
EntryTypes ==
  /\ entries \in [Names -> FSStat \cup {NoNode}]
  /\ asked \in [Names -> Asked \cup {NoNode}]
  /\ \A n \in Names : entries[n] = NoNode <=> asked[n] = NoNode

Outs == [name : Names \cup {NoEntry}, ino : Names \cup {NoEntry}, st : Stats \cup {NoNode}]

ReaderTypes ==
  /\ rest \subseteq Names
  /\ owner \in Threads \cup {NoThread}
  /\ entryData \in Answer \cup {Cleared}
  /\ pc \in [Threads -> {"idle", "read", "stat", "name", "filled"}]
  /\ gave \in [Threads -> Answer \cup {Cleared}]
  /\ out \in [Threads -> Outs]
  /\ \A t \in Threads : pc[t] \in {"stat", "name"} => entryData # Cleared

LEMMA TypeParts == TypeOK <=> EntryTypes /\ ReaderTypes
  BY DEF TypeOK, EntryTypes, ReaderTypes, Answer, Outs

LEMMA TypePartsNext == TypeOK' <=> EntryTypes' /\ ReaderTypes'
  BY DEF TypeOK, EntryTypes, ReaderTypes, Answer, Outs

\* The directory starts in the invariant.
LEMMA InitInvariant == Init => IInv
<1> SUFFICES ASSUME Init PROVE IInv
  OBVIOUS
<1>1. EntryTypes
  BY DEF Init, EntryTypes
<1>2. /\ pc \in [Threads -> {"idle", "read", "stat", "name", "filled"}]
      /\ \A t \in Threads : pc[t] = "idle"
  BY DEF Init
<1>3. NoOut \in Outs
  BY DEF NoOut, Outs
<1>4. ReaderTypes
  BY <1>2, <1>3 DEF Init, ReaderTypes
<1>5. Locked
  BY <1>2, ConstantsOK DEF Init, Locked
<1>6. \A n \in Names : EntryMade(n)
  BY DEF Init, EntryMade
<1>7. \A t \in Threads : Filling(t)
  BY <1>2 DEF Filling
<1> QED
  BY <1>1, <1>4, <1>5, <1>6, <1>7, TypeParts DEF IInv

-----------------------------------------------------------------------------
(* The directory.                                                          *)

\* A translated mode is one FSA can keep.
LEMMA ModeKept == \A mode \in Modes : TranslatePermissionMode(mode) \in SUBSET (0 .. 10)
  BY PermissionBits, ConstantsOK

\* A change of the entry n that leaves it as it was made keeps the invariant.
LEMMA EntryStep ==
  ASSUME NEW n \in Names, IInv, UNCHANGED dirVars,
         NEW node \in FSStat \cup {NoNode}, NEW as \in Asked \cup {NoNode},
         entries' = [entries EXCEPT ![n] = node],
         asked' = [asked EXCEPT ![n] = as],
         node = NoNode <=> as = NoNode,
         EntryMade(n)'
  PROVE  IInv'
<1>1. EntryTypes /\ ReaderTypes
  BY TypeParts DEF IInv
<1>2. EntryTypes' /\ \A m \in Names \ {n} : entries'[m] = entries[m] /\ asked'[m] = asked[m]
  BY <1>1 DEF EntryTypes
<1>3. \A m \in Names : EntryMade(m)'
  BY <1>2 DEF IInv, EntryMade
<1>4. ReaderTypes' /\ Locked'
  BY <1>1 DEF IInv, ReaderTypes, Locked, dirVars
<1>5. \A t \in Threads : Filling(t)'
  BY DEF IInv, Filling, dirVars
<1> QED
  BY <1>2, <1>3, <1>4, <1>5, TypePartsNext DEF IInv

LEMMA MakeStep ==
  ASSUME NEW n \in Names, IInv, Make(n)
  PROVE  IInv'
<1>1. PICK kind \in {"DIRECTORY", "FILE"}, mode \in Modes, size \in Sizes, time \in Times :
       /\ size = 0 \/ (kind = "FILE" /\ n \in Typeless)
       /\ ~(kind = "FILE" /\ n \in Typeless /\ size = 0)
       /\ entries' = [entries EXCEPT ![n] = Node(n, kind, mode, size, time)]
       /\ asked' = [asked EXCEPT ![n] = [kind |-> kind, mode |-> mode]]
  BY DEF Make
<1>2. Node(n, kind, mode, size, time) \in FSStat
  BY ModeKept DEF Node, FSStat, FlagsOf
<1>3. [kind |-> kind, mode |-> mode] \in Asked
  BY DEF Asked
<1>4. entries'[n] = Node(n, kind, mode, size, time) /\ asked'[n] = [kind |-> kind, mode |-> mode]
  BY <1>1 DEF IInv, TypeOK
<1>5. EntryMade(n)'
  BY <1>1, <1>4 DEF EntryMade, Node
<1> QED
  BY <1>1, <1>2, <1>3, <1>5, NoNodeOK, EntryStep DEF Make

LEMMA ChmodStep ==
  ASSUME NEW n \in Names, IInv, Chmod(n)
  PROVE  IInv'
<1>1. PICK mode \in Modes :
       /\ entries' = [entries EXCEPT ![n].mode = TranslatePermissionMode(mode)]
       /\ asked' = [asked EXCEPT ![n].mode = mode]
  BY DEF Chmod
<1>2. entries[n] \in FSStat /\ asked[n] \in Asked
  BY DEF Chmod, Present, IInv, TypeOK
<1> DEFINE node == [entries[n] EXCEPT !.mode = TranslatePermissionMode(mode)]
           as   == [asked[n] EXCEPT !.mode = mode]
<1>3. node \in FSStat /\ as \in Asked
  BY <1>2, ModeKept DEF FSStat, Asked
<1>4. entries' = [entries EXCEPT ![n] = node] /\ asked' = [asked EXCEPT ![n] = as]
  BY <1>1
<1>5. entries'[n] = node /\ asked'[n] = as
  BY <1>4 DEF IInv, TypeOK
<1>6. EntryMade(n)'
  BY <1>2, <1>5, NoNodeOK DEF EntryMade, IInv, FSStat, Asked
<1> QED
  BY <1>3, <1>4, <1>6, NoNodeOK, EntryStep DEF Chmod

LEMMA ResizeStep ==
  ASSUME NEW n \in Names, IInv, Resize(n)
  PROVE  IInv'
<1>1. PICK size \in Sizes, time \in Times :
       /\ n \in Typeless => size # 0
       /\ entries' = [entries EXCEPT ![n].size = size, ![n].modified = time]
  BY DEF Resize
<1>2. entries[n] \in FSStat /\ asked[n] \in Asked /\ asked[n].kind = "FILE"
  BY DEF Resize, Present, IInv, TypeOK
<1> DEFINE node == [entries[n] EXCEPT !.size = size, !.modified = time]
<1>3. node \in FSStat
  BY <1>2 DEF FSStat
<1>4. entries' = [entries EXCEPT ![n] = node] /\ asked' = [asked EXCEPT ![n] = asked[n]]
  BY <1>1 DEF Resize, IInv, TypeOK
<1>5. entries'[n] = node /\ asked'[n] = asked[n]
  BY <1>4 DEF IInv, TypeOK
<1>6. EntryMade(n)'
  <2>1. node.flags = entries[n].flags /\ node.mode = entries[n].mode /\ node.size = size
    BY <1>2 DEF FSStat
  <2>2. EntryMade(n) /\ entries[n] # NoNode
    BY <1>2, NoNodeOK DEF IInv
  <2> HIDE DEF node
  <2> QED
    BY <1>1, <1>2, <1>5, <2>1, <2>2 DEF EntryMade
<1> QED
  BY <1>2, <1>3, <1>4, <1>6, NoNodeOK, EntryStep DEF Resize

LEMMA RemoveStep ==
  ASSUME NEW n \in Names, IInv, Remove(n)
  PROVE  IInv'
<1>1. EntryMade(n)'
  BY DEF Remove, EntryMade, IInv, TypeOK
<1> QED
  BY <1>1, EntryStep DEF Remove

-----------------------------------------------------------------------------
(* The readers.                                                            *)

\* A step of a reader leaves the other readers alone; those that have not the
\* mutex, the shared entry too.
Others(t) ==
  \A u \in Threads \ {t} : pc'[u] = pc[u] /\ out'[u] = out[u] /\ gave'[u] = gave[u]

\* What a step of t owes the invariant.
LEMMA ReaderSuffices ==
  ASSUME NEW t \in Threads, IInv, UNCHANGED <<entries, asked>>, ReaderTypes', Others(t),
         pc'[t] \in {"read", "stat", "name"} <=> owner' = t,
         \/ {owner, owner'} \subseteq {t, NoThread}
         \/ UNCHANGED <<owner, entryData>>,
         Filling(t)'
  PROVE  IInv'
<1>1. EntryTypes'
  BY TypeParts DEF IInv, EntryTypes
<1>2. Locked'
  <2> SUFFICES ASSUME NEW u \in Threads
               PROVE  pc'[u] \in {"read", "stat", "name"} <=> owner' = u
    BY DEF Locked
  <2>1. u # NoThread /\ t # NoThread
    BY ConstantsOK
  <2>2. CASE u = t
    BY <2>2
  <2>3. CASE u # t
    <3>1. pc'[u] = pc[u] /\ (pc[u] \in {"read", "stat", "name"} <=> owner = u)
      BY <2>3 DEF Others, IInv, Locked
    <3>2. owner = u <=> owner' = u
      BY <2>1, <2>3
    <3> QED
      BY <3>1, <3>2
  <2> QED
    BY <2>2, <2>3
<1>3. \A n \in Names : EntryMade(n)'
  BY DEF IInv, EntryMade
<1>4. ASSUME NEW u \in Threads \ {t} PROVE Filling(u)'
  <2>1. pc'[u] = pc[u] /\ out'[u] = out[u] /\ gave'[u] = gave[u] /\ Filling(u)
    BY DEF Others, IInv
  <2>2. pc[u] \in {"stat", "name"} => entryData' = entryData
    <3>1. pc[u] \in {"stat", "name"} => owner = u
      BY DEF IInv, Locked
    <3> QED
      BY <3>1, ConstantsOK
  <2> QED
    BY <2>1, <2>2 DEF Filling
<1> QED
  BY <1>1, <1>2, <1>3, <1>4, TypePartsNext DEF IInv

\* The mode and the time reported of what FSA keeps.
LEMMA TranslatedType == \A s \in FSStat : TranslateStat(s) \in Stats
<1> TAKE s \in FSStat
<1>1. StatKind(s) \subseteq 0 .. 15
  BY DEF StatKind, FSStat, S_IFLNK, S_IFDIR, S_IFREG
<1>2. TranslateStatMode(s) \subseteq 0 .. 15
  BY <1>1 DEF TranslateStatMode, S_IRWXU, S_IRWXG, S_IRWXO
<1>3. s.size \in Sizes /\ s.modified \in Nat
  BY ConstantsOK DEF FSStat
<1>4. EpochDiffDays(1980) = 3652
  BY DEF EpochDiffDays
<1>5. TranslateTime(s.modified) \in Nat
  BY <1>3, <1>4 DEF TranslateTime
<1> QED
  BY <1>2, <1>3, <1>5 DEF TranslateStat, Stats

LEMMA DirnextStep ==
  ASSUME NEW t \in Threads, IInv, Dirnext(t)
  PROVE  IInv'
<1>1. ReaderTypes
  BY TypeParts DEF IInv
<1>2. ReaderTypes' /\ Others(t) /\ pc'[t] = "read" /\ owner' = t /\ owner = NoThread
  <2>1. \A u \in Threads \ {t} : pc[u] \notin {"stat", "name"}
    BY ConstantsOK DEF IInv, Locked, Dirnext
  <2> QED
    BY <1>1, <2>1 DEF ReaderTypes, Dirnext, Goto, Others
<1>3. Filling(t)'
  BY <1>2 DEF Filling
<1> QED
  BY <1>2, <1>3, ReaderSuffices DEF Dirnext

LEMMA ReadDirStep ==
  ASSUME NEW t \in Threads, IInv, ReadDir(t)
  PROVE  IInv'
<1>1. ReaderTypes /\ owner = t
  BY TypeParts DEF IInv, Locked, ReadDir
<1>2. CASE /\ Goto(t, "idle") /\ owner' = NoThread
           /\ UNCHANGED <<rest, entryData, gave>>
  <2>1. ReaderTypes' /\ Others(t) /\ pc'[t] = "idle"
    BY <1>1, <1>2 DEF ReaderTypes, ReadDir, Goto, Others
  <2>2. Filling(t)' /\ t # NoThread
    BY <2>1, ConstantsOK DEF Filling
  <2> QED
    BY <1>1, <1>2, <2>1, <2>2, ReaderSuffices DEF ReadDir
<1>3. ASSUME NEW n \in rest \cap Present,
             entryData' = [name |-> n, info |-> entries[n]],
             gave' = [gave EXCEPT ![t] = entryData'],
             rest' = rest \ {n}, Goto(t, "stat"), UNCHANGED owner
      PROVE  IInv'
  <2>1. n \in Names /\ entries[n] \in FSStat
    BY <1>1 DEF Present, ReaderTypes, IInv, TypeOK
  <2>2. [name |-> n, info |-> entries[n]] \in Answer
    BY <2>1 DEF Answer
  <2>3. entryData' \in Answer /\ entryData' # Cleared
    BY <1>3, <2>1, <2>2, ConstantsOK DEF Cleared
  <2>4. ReaderTypes' /\ Others(t) /\ pc'[t] = "stat" /\ gave'[t] = entryData'
    BY <1>1, <1>3, <2>3 DEF ReaderTypes, ReadDir, Goto, Others
  <2>5. Filling(t)'
    BY <2>3, <2>4 DEF Filling
  <2> QED
    BY <1>1, <1>3, <2>4, <2>5, ReaderSuffices DEF ReadDir
<1> QED
  BY <1>2, <1>3 DEF ReadDir

LEMMA FillStatStep ==
  ASSUME NEW t \in Threads, IInv, FillStat(t)
  PROVE  IInv'
<1>1. ReaderTypes /\ owner = t /\ Filling(t)
  BY TypeParts DEF IInv, Locked, FillStat
<1>2. entryData = gave[t] /\ gave[t] \in Answer
  BY <1>1 DEF Filling, FillStat
<1>3. PICK ino \in {entryData.name, NoEntry} :
        out' = [out EXCEPT ![t].ino = ino, ![t].st = TranslateStat(entryData.info)]
  BY DEF FillStat
<1>4. TranslateStat(entryData.info) \in Stats /\ ino \in Names \cup {NoEntry}
  BY <1>2, TranslatedType DEF Answer
<1>5. /\ out[t] \in Outs
      /\ out'[t] = [out[t] EXCEPT !.ino = ino, !.st = TranslateStat(entryData.info)]
      /\ \A u \in Threads \ {t} : out'[u] = out[u]
      /\ out' = [u \in Threads |-> out'[u]]
  BY <1>1, <1>3 DEF ReaderTypes
<1>6. out'[t] \in Outs /\ out'[t].ino = ino /\ out'[t].st = TranslateStat(entryData.info)
  BY <1>4, <1>5 DEF Outs
<1>7. out' \in [Threads -> Outs]
  BY <1>1, <1>5, <1>6 DEF ReaderTypes
<1>8. ReaderTypes' /\ Others(t) /\ pc'[t] = "name" /\ gave'[t] = gave[t]
  BY <1>1, <1>5, <1>7 DEF ReaderTypes, FillStat, Goto, Others
<1>9. Filling(t)'
  BY <1>2, <1>6, <1>8 DEF Filling, FillStat
<1> QED
  BY <1>1, <1>8, <1>9, ReaderSuffices DEF FillStat

LEMMA FillNameStep ==
  ASSUME NEW t \in Threads, IInv, FillName(t)
  PROVE  IInv'
<1>1. ReaderTypes /\ owner = t /\ Filling(t) /\ t # NoThread
  BY TypeParts, ConstantsOK DEF IInv, Locked, FillName
<1>2. entryData = gave[t] /\ gave[t] \in Answer
  BY <1>1 DEF Filling, FillName
<1>3. NameCut[entryData.name] \in Names \cup {NoEntry}
  BY <1>2, ConstantsOK DEF Answer
<1>4. /\ out[t] \in Outs
      /\ out'[t] = [out[t] EXCEPT !.name = NameCut[entryData.name]]
      /\ \A u \in Threads \ {t} : out'[u] = out[u]
      /\ out' = [u \in Threads |-> out'[u]]
  BY <1>1 DEF ReaderTypes, FillName
<1>5. /\ out'[t] \in Outs /\ out'[t].name = NameCut[entryData.name]
      /\ out'[t].ino = out[t].ino /\ out'[t].st = out[t].st
  BY <1>3, <1>4 DEF Outs
<1>6. out' \in [Threads -> Outs]
  BY <1>1, <1>4, <1>5 DEF ReaderTypes
<1>7. ReaderTypes' /\ Others(t) /\ pc'[t] = "filled" /\ gave'[t] = gave[t]
  BY <1>1, <1>4, <1>6 DEF ReaderTypes, FillName, Goto, Others
<1>8. Filling(t)'
  BY <1>1, <1>2, <1>5, <1>7 DEF Filling, FillName
<1> QED
  BY <1>1, <1>7, <1>8, ReaderSuffices DEF FillName

LEMMA TakenStep ==
  ASSUME NEW t \in Threads, IInv, Taken(t)
  PROVE  IInv'
<1>1. ReaderTypes /\ owner # t
  BY TypeParts DEF IInv, Locked, Taken
<1>2. NoOut \in Outs
  BY DEF NoOut, Outs
<1>3. ReaderTypes' /\ Others(t) /\ pc'[t] = "idle"
  BY <1>1, <1>2 DEF ReaderTypes, Taken, Goto, Others
<1>4. Filling(t)'
  BY <1>3 DEF Filling
<1> QED
  BY <1>1, <1>3, <1>4, ReaderSuffices DEF Taken

LEMMA DirresetStep ==
  ASSUME NEW t \in Threads, IInv, Dirreset(t)
  PROVE  IInv'
<1>1. ReaderTypes /\ Filling(t) /\ t # NoThread
  BY TypeParts, ConstantsOK DEF IInv
<1>2. ReaderTypes' /\ Others(t) /\ pc'[t] = "idle"
  BY <1>1 DEF ReaderTypes, Dirreset, Others, Present
<1>3. Filling(t)'
  BY <1>2 DEF Filling
<1> QED
  BY <1>1, <1>2, <1>3, ReaderSuffices DEF Dirreset

-----------------------------------------------------------------------------
(* The theorems.                                                           *)

\* Every step keeps the invariant.
LEMMA NextInvariant == IInv /\ [Next]_vars => IInv'
<1> SUFFICES ASSUME IInv, [Next]_vars PROVE IInv'
  OBVIOUS
<1>1. CASE UNCHANGED vars
  <2>1. EntryTypes' /\ ReaderTypes'
    BY <1>1, TypeParts DEF IInv, EntryTypes, ReaderTypes, vars, dirVars
  <2>2. Locked' /\ \A n \in Names : EntryMade(n)'
    BY <1>1 DEF IInv, Locked, EntryMade, vars, dirVars
  <2>3. \A t \in Threads : Filling(t)'
    BY <1>1 DEF IInv, Filling, vars, dirVars
  <2> QED
    BY <2>1, <2>2, <2>3, TypePartsNext DEF IInv
<1>2. CASE \E n \in Names : Make(n) \/ Chmod(n) \/ Resize(n) \/ Remove(n)
  BY <1>2, MakeStep, ChmodStep, ResizeStep, RemoveStep
<1>3. CASE \E t \in Threads :
             \/ Dirnext(t) \/ ReadDir(t) \/ FillStat(t) \/ FillName(t) \/ Taken(t)
             \/ Dirreset(t)
  BY <1>3, DirnextStep, ReadDirStep, FillStatStep, FillNameStep, TakenStep, DirresetStep
<1> QED
  BY <1>1, <1>2, <1>3 DEF Next

\* The inductive invariant: an entry is what it was made as, and the shared
\* entry of the open directory is what FSA gave the call that has the mutex.
THEOREM Invariance == Spec => []IInv
  BY InitInvariant, NextInvariant, PTL DEF Spec

\* Every variable stays in its range, and a call that fills in an answer has one.
THEOREM TypeCorrect == Spec => []TypeOK
<1>1. IInv => TypeOK
  BY DEF IInv
<1> QED
  BY <1>1, Invariance, PTL

\* Whatever has been done to an entry, stat reports the kind it was made as and
\* exactly the permissions last asked for.
THEOREM StatIsRight == Spec => []StatReportsWhatWasMade
<1>1. IInv => StatReportsWhatWasMade
  <2> SUFFICES ASSUME IInv, NEW n \in Present
               PROVE  TranslateStatMode(entries[n]) =
                        KindBits(asked[n].kind) \cup (asked[n].mode \cap 0 .. 8)
    BY DEF StatReportsWhatWasMade
  <2>1. n \in Names /\ entries[n] \in FSStat /\ asked[n] \in Asked /\ EntryMade(n)
    BY DEF Present, IInv, TypeOK
  <2>2. /\ entries[n].flags = FlagsOf(n, asked[n].kind)
        /\ entries[n].mode = TranslatePermissionMode(asked[n].mode)
    BY <2>1 DEF EntryMade, Present
  <2>3. asked[n].kind \in {"DIRECTORY", "FILE"} /\ asked[n].mode \in SUBSET Int
    <3>1. asked[n].kind \in {"DIRECTORY", "FILE"} /\ asked[n].mode \in Modes
      BY <2>1 DEF Asked
    <3>2. \A mode \in Modes : mode \subseteq Int
      BY ConstantsOK
    <3> QED
      BY <3>1, <3>2
  <2>4. StatKind(entries[n]) = KindBits(asked[n].kind)
    BY <2>1, <2>2, <2>3 DEF StatKind, KindBits, FlagsOf, EntryMade, Present
  <2> QED
    BY <2>2, <2>3, <2>4, PermissionsRoundTrip
<1> QED
  BY <1>1, Invariance, PTL

\* Where names fit in NAME_MAX, an answer of dirnext is of one piece: no other
\* reader of the directory gets between its parts, and its time is exact.
THEOREM AnswersAreWhole ==
  ASSUME \A n \in Names : NameCut[n] = n
  PROVE  Spec => []EntryWhole
<1>1. IInv => EntryWhole
  <2> SUFFICES ASSUME IInv, NEW t \in Threads, pc[t] = "filled", NEW e, e = gave[t]
               PROVE  /\ out[t].name = e.name
                      /\ out[t].ino \in {e.name, NoEntry}
                      /\ out[t].st.st_mode = TranslateStatMode(e.info)
                      /\ out[t].st.st_size = e.info.size
                      /\ out[t].st.st_mtime - (e.info.modified \div 1000000) = 86400 * DaysUntil[1980]
    BY DEF EntryWhole
  <2>1. e.name \in Names /\ e.info.modified \in Nat
    BY ConstantsOK DEF IInv, Filling, Answer, FSStat
  <2>2. /\ out[t].st = TranslateStat(e.info)
        /\ out[t].ino \in {e.name, NoEntry}
        /\ out[t].name = NameCut[e.name]
    BY DEF IInv, Filling
  <2>3. EpochDiffDays(1980) = DaysUntil[1980] /\ EpochDiffDays(1980) = 3652
    BY CalendarExact DEF EpochDiffDays
  <2>4. out[t].st.st_mtime = e.info.modified \div 1000000 + 86400 * 3652
    BY <2>2, <2>3 DEF TranslateStat, TranslateTime
  <2> QED
    BY <2>1, <2>2, <2>3, <2>4 DEF TranslateStat
<1> QED
  BY <1>1, Invariance, PTL
=============================================================================
