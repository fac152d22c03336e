--------------------------- MODULE FileAttributes ---------------------------
(***************************************************************************)
(* What files are and what is reported of them: making and changing them,  *)
(* and the iteration of a directory, __fsa_dirnext and __fsa_dirreset of   *)
(* source/devoptab.                                                        *)
(*                                                                         *)
(* One directory is open once, and its threads share the open directory;   *)
(* meanwhile its entries come, go and change.                              *)
(***************************************************************************)
EXTENDS Conversions

CONSTANTS
  Threads,   \* readers of the open directory
  Names,     \* of entries
  NameCut,   \* of a name, what fits in NAME_MAX characters
  Modes,     \* the mode_t callers pass
  Times,     \* FSTime values, in microseconds since 1980
  Sizes,     \* of files
  Typeless   \* entries FSA keeps no type of

CONSTANTS
  NoNode, NoThread,
  NoEntry    \* the empty name, and an inode number of 0

ASSUME ConstantsOK ==
  /\ NoThread \notin Threads
  /\ NoEntry \notin Names
  /\ NameCut \in [Names \cup {NoEntry} -> Names \cup {NoEntry}]
  /\ Modes \subseteq SUBSET (0 .. 15)
  /\ Times \subseteq Nat
  /\ Sizes \subseteq Nat /\ 0 \in Sizes
  /\ Typeless \subseteq Names

\* FSStat, without owner and group.
FSStat == [flags : SUBSET {"LINK", "DIRECTORY", "FILE"}, mode : SUBSET (0 .. 10),
           size : Sizes, modified : Times]

\* What an entry was made as, and the permissions last asked for.
Asked == [kind : {"DIRECTORY", "FILE"}, mode : Modes]

ASSUME NoNodeOK == NoNode \notin FSStat \cup Asked
-----------------------------------------------------------------------------
VARIABLES
  entries,    \* the directory: [Names -> FSStat, or NoNode]
  asked,      \* the kind and mode that each entry was made with, or given later
  rest,       \* what FSA has still to give in this pass
  owner,      \* holder of dir->mutex
  entryData,  \* dir->entry_data: a name and its FSStat
  pc,
  out,        \* per thread: what dirnext has filled in so far
  gave        \* what FSA has given the call

dirVars == <<rest, owner, entryData, pc, out, gave>>
vars    == <<entries, asked, dirVars>>

Cleared ==
  [name |-> NoEntry, info |-> [flags |-> {}, mode |-> {}, size |-> 0, modified |-> 0]]
NoOut   == [name |-> NoEntry, ino |-> NoEntry, st |-> NoNode]

\* How FSA marks what is made under the name n.
FlagsOf(n, kind) == IF n \in Typeless THEN {} ELSE {kind}

Node(n, kind, mode, size, time) ==
  [flags |-> FlagsOf(n, kind), mode |-> TranslatePermissionMode(mode),
   size |-> size, modified |-> time]

Present == {n \in Names : entries[n] # NoNode}

Init ==
  /\ entries = [n \in Names |-> NoNode]
  /\ asked = [n \in Names |-> NoNode]
  /\ rest = {}
  /\ owner = NoThread
  /\ entryData = Cleared
  /\ pc = [t \in Threads |-> "idle"]
  /\ out = [t \in Threads |-> NoOut]
  /\ gave = [t \in Threads |-> Cleared]
-----------------------------------------------------------------------------
(* Changes of the directory.                                               *)

\* __fsa_mkdir, and __fsa_open that makes a file.  A file without a type is
\* made with a size by somebody else.
Make(n) ==
  /\ entries[n] = NoNode
  /\ \E kind \in {"DIRECTORY", "FILE"}, mode \in Modes, size \in Sizes, time \in Times :
       /\ size = 0 \/ (kind = "FILE" /\ n \in Typeless)
       /\ ~(kind = "FILE" /\ n \in Typeless /\ size = 0)
       /\ entries' = [entries EXCEPT ![n] = Node(n, kind, mode, size, time)]
       /\ asked' = [asked EXCEPT ![n] = [kind |-> kind, mode |-> mode]]
  /\ UNCHANGED dirVars

Chmod(n) ==
  /\ n \in Present
  /\ \E mode \in Modes :
       /\ entries' = [entries EXCEPT ![n].mode = TranslatePermissionMode(mode)]
       /\ asked' = [asked EXCEPT ![n].mode = mode]
  /\ UNCHANGED dirVars

\* A file is written or truncated; one without a type is not emptied.
Resize(n) ==
  /\ n \in Present /\ asked[n].kind = "FILE"
  /\ \E size \in Sizes, time \in Times :
       /\ n \in Typeless => size # 0
       /\ entries' = [entries EXCEPT ![n].size = size, ![n].modified = time]
  /\ UNCHANGED <<asked, dirVars>>

Remove(n) ==
  /\ n \in Present
  /\ entries' = [entries EXCEPT ![n] = NoNode]
  /\ asked' = [asked EXCEPT ![n] = NoNode]
  /\ UNCHANGED dirVars
-----------------------------------------------------------------------------
(* Reading the directory.                                                  *)

Goto(t, next) == pc' = [pc EXCEPT ![t] = next]

\* Mutant of Dirnext: the directory's mutex is not taken.
DirnextUnlocked(t) ==
  /\ pc[t] = "idle"
  /\ owner' = t
  /\ entryData' = Cleared
  /\ Goto(t, "read")
  /\ UNCHANGED <<entries, asked, rest, out, gave>>

Dirnext(t) ==
  /\ pc[t] = "idle"
  /\ owner = NoThread
  /\ owner' = t
  /\ entryData' = Cleared
  /\ Goto(t, "read")
  /\ UNCHANGED <<entries, asked, rest, out, gave>>

\* Mutant of ReadDir: an answer is made of nothing at the end.
ReadDirUnchecked(t) ==
  /\ pc[t] = "read"
  /\ \/ \E n \in rest \cap Present : entryData' = [name |-> n, info |-> entries[n]]
     \/ UNCHANGED entryData
  /\ gave' = [gave EXCEPT ![t] = entryData']
  /\ Goto(t, "stat")
  /\ UNCHANGED <<entries, asked, rest, out, owner>>

\* FSAReadDir: an entry that is still there, the end, or an error.
ReadDir(t) ==
  /\ pc[t] = "read"
  /\ UNCHANGED <<entries, asked, out>>
  /\ \/ \E n \in rest \cap Present :
          /\ entryData' = [name |-> n, info |-> entries[n]]
          /\ gave' = [gave EXCEPT ![t] = entryData']
          /\ rest' = rest \ {n}
          /\ Goto(t, "stat")
          /\ UNCHANGED owner
     \/ Goto(t, "idle") /\ owner' = NoThread /\ UNCHANGED <<rest, entryData, gave>>

\* The inode number is made of the name, if there is memory for it.
FillStat(t) ==
  /\ pc[t] = "stat"
  /\ \E ino \in {entryData.name, NoEntry} :
       out' = [out EXCEPT ![t].ino = ino, ![t].st = TranslateStat(entryData.info)]
  /\ Goto(t, "name")
  /\ UNCHANGED <<entries, asked, rest, owner, entryData, gave>>

FillName(t) ==
  /\ pc[t] = "name"
  /\ out' = [out EXCEPT ![t].name = NameCut[entryData.name]]
  /\ Goto(t, "filled")
  /\ owner' = NoThread
  /\ UNCHANGED <<entries, asked, rest, entryData, gave>>

\* The caller has looked at the entry.
Taken(t) ==
  /\ pc[t] = "filled"
  /\ Goto(t, "idle")
  /\ out' = [out EXCEPT ![t] = NoOut]
  /\ gave' = [gave EXCEPT ![t] = Cleared]
  /\ UNCHANGED <<entries, asked, rest, owner, entryData>>

\* __fsa_dirreset, and __fsa_diropen at first.
Dirreset(t) ==
  /\ pc[t] = "idle" /\ owner = NoThread
  /\ rest' = Present
  /\ UNCHANGED <<entries, asked, owner, entryData, pc, out, gave>>

Next ==
  \/ \E n \in Names : Make(n) \/ Chmod(n) \/ Resize(n) \/ Remove(n)
  \/ \E t \in Threads :
       \/ Dirnext(t) \/ ReadDir(t) \/ FillStat(t) \/ FillName(t) \/ Taken(t)
       \/ Dirreset(t)

Spec == Init /\ [][Next]_vars
-----------------------------------------------------------------------------
(* Properties.                                                             *)

Stats == [st_mode : SUBSET (0 .. 15), st_size : Sizes, st_mtime : Nat]

\* Every variable stays in its range; a call that is filling in its answer has
\* an entry to do it from.
TypeOK ==
  /\ entries \in [Names -> FSStat \cup {NoNode}]
  /\ asked \in [Names -> Asked \cup {NoNode}]
  /\ \A n \in Names : entries[n] = NoNode <=> asked[n] = NoNode
  /\ rest \subseteq Names
  /\ owner \in Threads \cup {NoThread}
  /\ entryData \in [name : Names, info : FSStat] \cup {Cleared}
  /\ pc \in [Threads -> {"idle", "read", "stat", "name", "filled"}]
  /\ gave \in [Threads -> [name : Names, info : FSStat] \cup {Cleared}]
  /\ out \in [Threads -> [name : Names \cup {NoEntry}, ino : Names \cup {NoEntry},
                          st : Stats \cup {NoNode}]]
  /\ \A t \in Threads : pc[t] \in {"stat", "name"} => entryData # Cleared

KindBits(kind) == IF kind = "DIRECTORY" THEN S_IFDIR ELSE S_IFREG

\* Whatever has been done to an entry, stat reports the kind it was made as and
\* exactly the permissions last asked for, though mode goes through two
\* conversions and the kind may have to be guessed from the size.
StatReportsWhatWasMade ==
  \A n \in Present :
    TranslateStatMode(entries[n]) =
      KindBits(asked[n].kind) \cup (asked[n].mode \cap 0 .. 8)

\* The days of the years before, by the calendar.
Leap(y) == y % 4 = 0 /\ (y % 100 # 0 \/ y % 400 = 0)
DaysUntil[y \in 1970 .. 2100] ==
  IF y = 1970 THEN 0 ELSE DaysUntil[y - 1] + IF Leap(y - 1) THEN 366 ELSE 365

\* An answer of dirnext is of one piece: name, attributes, time and inode number
\* (0 without memory) are those of one entry, the one FSA gave for this call, as
\* it was then; no other reader of the directory gets in between.
EntryWhole ==
  \A t \in Threads :
    pc[t] = "filled" =>
      LET e == gave[t] IN
      /\ out[t].name = e.name
      /\ out[t].ino \in {e.name, NoEntry}
      /\ out[t].st.st_mode = TranslateStatMode(e.info)
      /\ out[t].st.st_size = e.info.size
      /\ out[t].st.st_mtime - (e.info.modified \div 1000000) = 86400 * DaysUntil[1980]
=============================================================================
