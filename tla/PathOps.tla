------------------------------ MODULE PathOps ------------------------------
(***************************************************************************)
(* Paths: __fsa_fixpath and __fsa_normpath of devoptab_fsa_utils.cpp, and  *)
(* the functions of source/devoptab that send FSA nothing but a path.      *)
(*                                                                         *)
(* A string is the sequence of what its separators separate: "/a//b/" is   *)
(* <<"", "a", "", "b", "">>, and the empty string is <<"">>.  Lengths are  *)
(* counted in components instead of characters.                            *)
(***************************************************************************)
EXTENDS Naturals, Sequences, SequencesExt

CONSTANTS
  Names,      \* of files and directories
  Paths,      \* what a caller may pass, after the device's name and colon
  MountPath,  \* the string, normalized by Mocha_MountFSEx
  CompMax,    \* COMP_MAX
  MaxPath,    \* FS_MAX_PATH
  IsSDCard    \* deviceData->isSDCard

Components == Names \cup {"", ".", ".."}

ASSUME ConstantsOK ==
  /\ Names \cap {"", ".", ".."} = {}
  /\ Paths \subseteq Seq(Components) \ {<<>>}
  /\ MountPath \in Seq(Names \cup {""}) \ {<<>>} /\ Head(MountPath) = ""
  /\ \A i \in 2 .. Len(MountPath) : MountPath[i] # ""
  /\ CompMax \in Nat \ {0} /\ MaxPath \in Nat /\ IsSDCard \in BOOLEAN

VARIABLES
  cwd,      \* deviceData->cwd
  dirPath,  \* dir->fullPath of the directory that is open, or <<>>
  errno,    \* r->_errno as the caller finds it, "OK" after success
  here,     \* where the calls of chdir have led, as names from the root
  dirAt     \* where the open directory is

vars == <<cwd, dirPath, errno, here, dirAt>>

Root == <<"", "">>
IsAbsolute(s) == Len(s) > 1 /\ s[1] = ""
-----------------------------------------------------------------------------
(* __fsa_normpath.                                                         *)

\* Mutant of NormStep: at the root of an absolute path, ".." is kept.
NormStepKeepsUp(s, acc, i) ==
  CASE s[i] \in {"", "."} -> acc
    [] s[i] = ".." ->
         IF acc.stack > 0
         THEN [acc EXCEPT !.out = Front(@), !.stack = @ - 1, !.slash = TRUE]
         ELSE [acc EXCEPT !.out = Append(@, ".."), !.slash = TRUE]
    [] OTHER ->
         IF acc.stack + 1 >= CompMax THEN [acc EXCEPT !.tooMany = TRUE]
         ELSE [acc EXCEPT !.out = Append(@, s[i]), !.stack = @ + 1,
                          !.slash = i < Len(s)]

\* One component: `out' is what has been written, `stack' how much of it ".."
\* can take back, `slash' whether it ends in a separator.
NormStep(s, acc, i) ==
  CASE s[i] \in {"", "."} -> acc
    [] s[i] = ".." ->
         IF acc.stack > 0
         THEN [acc EXCEPT !.out = Front(@), !.stack = @ - 1, !.slash = TRUE]
         ELSE IF IsAbsolute(s) THEN acc
         ELSE [acc EXCEPT !.out = Append(@, ".."), !.slash = TRUE]
    [] OTHER ->
         IF acc.stack + 1 >= CompMax THEN [acc EXCEPT !.tooMany = TRUE]
         ELSE [acc EXCEPT !.out = Append(@, s[i]), !.stack = @ + 1,
                          !.slash = i < Len(s)]

\* The normalized string, or <<>> of a path with too many components.
NormPath(s) ==
  LET end == FoldLeftDomain(LAMBDA acc, i : IF acc.tooMany THEN acc ELSE NormStep(s, acc, i),
                            [out |-> <<>>, stack |-> 0, slash |-> TRUE, tooMany |-> FALSE], s)
      tail == IF end.slash THEN <<"">> ELSE <<>>
  IN CASE end.tooMany -> <<>>
       [] ~end.tooMany /\ IsAbsolute(s) -> <<"">> \o end.out \o tail
       [] ~end.tooMany /\ ~IsAbsolute(s) /\ end.out = <<>> -> <<".", "">>
       [] OTHER -> end.out \o tail
-----------------------------------------------------------------------------
(* __fsa_fixpath.                                                          *)

\* Mutant of Absolute: a path is taken from the directory of the last chdir
\* though it begins with a separator.
AbsoluteFromCwd(p) == cwd \o p

\* The mount path before an absolute path, the current directory before another.
Absolute(p) == IF IsAbsolute(p) THEN MountPath \o Tail(p) ELSE cwd \o p

\* The path sent to FSA, or the errno.
FixPath(p) ==
  LET norm == NormPath(Absolute(p)) IN
  CASE p = <<"">> -> [errno |-> "ENOENT", path |-> <<>>]
    [] p # <<"">> /\ norm = <<>> -> [errno |-> "EIO", path |-> <<>>]
    [] p # <<"">> /\ Len(norm) > MaxPath -> [errno |-> "ENAMETOOLONG", path |-> <<>>]
    [] OTHER -> [errno |-> "OK", path |-> norm]

\* Mutant of Trimmed: a trailing separator stays.
Untrimmed(s) == s

\* Without a trailing separator, as chdir and diropen keep a path.
Trimmed(s) == IF Len(s) > 1 /\ Last(s) = "" THEN Front(s) ELSE s
-----------------------------------------------------------------------------
(* What the paths stand for.                                               *)

\* From the directory `at', given by names, along the components of s.
Walk(at, s) ==
  FoldLeft(LAMBDA node, c : CASE c \in {"", "."} -> node
                              [] c = ".." -> IF node = <<>> THEN node ELSE Front(node)
                              [] OTHER -> Append(node, c),
           at, s)

Resolve(p) == Walk(IF IsAbsolute(p) THEN Tail(MountPath) ELSE here, p)
-----------------------------------------------------------------------------
\* Mocha_MountFSEx: cwd is the mount path, or the root if FSAChangeDir failed.
Init ==
  /\ \/ cwd = MountPath /\ here = Tail(MountPath)
     \/ cwd = Root /\ here = <<>>
  /\ dirPath = <<>> /\ dirAt = <<>>
  /\ errno = "OK"

Unmoved == UNCHANGED <<cwd, dirPath, here, dirAt>>

\* __fsa_fixpath fails on p, also for want of memory; the errno is the one it
\* has set, or ENOMEM if its caller replaces it.
NotFixed(p, keepsErrno) ==
  /\ \E e \in {FixPath(p).errno, "ENOMEM"} \ {"OK"} :
       errno' = IF keepsErrno THEN e ELSE "ENOMEM"
  /\ Unmoved

\* __fsa_fixpath makes a path of p, and FSA answers; if well, `success' follows.
Sent(p, success) ==
  /\ FixPath(p).errno = "OK"
  /\ \/ errno' = "OK" /\ success
     \/ errno' = "FSA" /\ Unmoved

Fixed(p, keepsErrno, success) == NotFixed(p, keepsErrno) \/ Sent(p, success)

Chdir ==
  \E p \in Paths :
    Fixed(p, FALSE,
          /\ cwd' = Trimmed(FixPath(p).path)
          /\ here' = Resolve(p)
          /\ UNCHANGED <<dirPath, dirAt>>)

\* The only one that leaves errno to __fsa_fixpath.
Diropen ==
  \E p \in Paths :
    /\ dirPath = <<>>
    /\ Fixed(p, TRUE,
             /\ dirPath' = Trimmed(FixPath(p).path)
             /\ dirAt' = Resolve(p)
             /\ UNCHANGED <<cwd, here>>)

\* newlib frees the directory whatever __fsa_dirclose returns.
Dirclose ==
  /\ dirPath # <<>>
  /\ dirPath' = <<>> /\ dirAt' = <<>>
  /\ errno' \in {"OK", "FSA"}
  /\ UNCHANGED <<cwd, here>>

\* __fsa_stat, and likewise __fsa_mkdir, __fsa_rmdir, __fsa_unlink, __fsa_chmod,
\* and __fsa_statvfs on what is no SD card.
Stat == \E p \in Paths : Fixed(p, FALSE, Unmoved)

\* __fsa_statvfs on an SD card looks at no path.
Statvfs == IsSDCard /\ errno' = "ENOSYS" /\ Unmoved

\* __fsa_rename: the second path is looked at once the first has been fixed.
Rename ==
  \/ \E old \in Paths : NotFixed(old, FALSE)
  \/ /\ {old \in Paths : FixPath(old).errno = "OK"} # {}
     /\ \E new \in Paths : Fixed(new, FALSE, Unmoved)

Next == Chdir \/ Diropen \/ Dirclose \/ Stat \/ Statvfs \/ Rename

Spec == Init /\ [][Next]_vars
-----------------------------------------------------------------------------
(* Properties.                                                             *)

\* A string an absolute path is built on: absolute, normalized, and without a
\* trailing separator; the root is the string the mount begins with, or empty.
IsBase(s) ==
  /\ s \in Seq(Names \cup {""}) /\ s # <<>> /\ Head(s) = ""
  /\ s = Root \/ \A i \in 2 .. Len(s) : s[i] # ""

\* Every variable stays in its range; cwd and the path of a directory are bases.
TypeOK ==
  /\ IsBase(cwd)
  /\ dirPath = <<>> \/ IsBase(dirPath)
  /\ errno \in {"OK", "FSA", "ENOENT", "EIO", "ENAMETOOLONG", "ENOMEM", "ENOSYS"}
  /\ here \in Seq(Names)
  /\ dirAt \in Seq(Names)

\* However chdir has been called, whatever string leads somewhere from here is
\* turned into one that leads there from the root: gluing the strings together
\* and normalizing the result is the same as walking.
FixPathResolves ==
  \A p \in Paths :
    FixPath(p).errno = "OK" => Walk(<<>>, FixPath(p).path) = Resolve(p)

\* A file has one st_ino: the string dirnext makes of an entry, for the hash, is
\* the one stat gets from any path that ends in the name of the same file.
InoAgrees ==
  dirPath # <<>> =>
    \A p \in Paths :
      (/\ Last(p) \in Names /\ FixPath(p).errno = "OK"
       /\ Resolve(p) = Append(dirAt, Last(p)))
        => FixPath(p).path = Append(dirPath, Last(p))

\* devoptab_fsa_utils.cpp:95, "wii u softlocks on empty strings so give expected
\* error back": no path that is sent to FSA is empty, that of FSAOpenDir included,
\* which is sent without its trailing separator.
NoEmptyPathSent ==
  /\ dirPath # <<"">>
  /\ \A p \in Paths : FixPath(p).errno = "OK" => FixPath(p).path # <<"">>
=============================================================================
