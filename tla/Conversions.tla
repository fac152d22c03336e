----------------------------- MODULE Conversions -----------------------------
(***************************************************************************)
(* Between FSA and POSIX: the modes, types, times and errors that          *)
(* devoptab_fsa_utils.cpp and devoptab_fsa.h convert.                      *)
(*                                                                         *)
(* A mode is the set of its bits, counted from 0.                          *)
(***************************************************************************)
EXTENDS Integers

S_IRWXU == 6 .. 8
S_IRWXG == 3 .. 5
S_IRWXO == 0 .. 2
S_IFLNK == {13, 15}
S_IFDIR == {14}
S_IFREG == {15}

Shift(bits, by) == {b + by : b \in bits}

\* Mutant of TranslatePermissionMode: the group is shifted as far as the owner.
TranslatePermissionModeBy2(m) ==
  Shift(m \cap S_IRWXU, 2) \cup Shift(m \cap S_IRWXG, 2) \cup (m \cap S_IRWXO)

\* Octal digits become hexadecimal ones.
TranslatePermissionMode(m) ==
  Shift(m \cap S_IRWXU, 2) \cup Shift(m \cap S_IRWXG, 1) \cup (m \cap S_IRWXO)

\* The type is a flag, or guessed from the size.
StatKind(s) ==
  CASE "LINK" \in s.flags -> S_IFLNK
    [] "LINK" \notin s.flags /\ "DIRECTORY" \in s.flags -> S_IFDIR
    [] s.flags = {"FILE"} -> S_IFREG
    [] s.flags = {} -> IF s.size = 0 THEN S_IFDIR ELSE S_IFREG

TranslateStatMode(s) ==
  StatKind(s) \cup (Shift(s.mode, -2) \cap S_IRWXU)
              \cup (Shift(s.mode, -1) \cap S_IRWXG)
              \cup (s.mode \cap S_IRWXO)

\* EPOCH_DIFF_DAYS: from the beginning of 1970 to that of the year.
EpochDiffDays(year) ==
  LET d == year - 1970 IN
  d * 365 + (d - 1 + 2) \div 4 - (d - 1 + 70) \div 100 + (d - 1 + 370) \div 400

TranslateTime(t) == t \div 1000000 + 60 * 60 * 24 * EpochDiffDays(1980)

TranslateStat(s) ==
  [st_mode |-> TranslateStatMode(s), st_size |-> s.size,
   st_mtime |-> TranslateTime(s.modified)]
-----------------------------------------------------------------------------
\* The errno for an FS_ERROR_ code.
TranslateError(e) ==
  CASE e \in {"END_OF_DIR", "END_OF_FILE", "NOT_FOUND"} -> "ENOENT"
    [] e = "ALREADY_EXISTS" -> "EEXIST"
    [] e = "PERMISSION_ERROR" -> "EPERM"
    [] e = "STORAGE_FULL" -> "ENOSPC"
    [] e \in {"BUSY", "ALREADY_OPEN", "JOURNAL_FULL", "UNAVAILABLE_COMMAND", "INVALID_PARAM"} -> "EBUSY"
    [] e = "CANCELLED" -> "ECANCELED"
    [] e = "FILE_TOO_BIG" -> "EFBIG"
    [] e = "INVALID_PATH" -> "ENAMETOOLONG"
    [] e = "NOT_DIR" -> "ENOTDIR"
    [] e = "NOT_FILE" -> "EISDIR"
    [] e \in {"OUT_OF_RANGE", "INVALID_BUFFER", "INVALID_ALIGNMENT", "INVALID_CLIENTHANDLE",
              "INVALID_FILEHANDLE", "INVALID_DIRHANDLE"} -> "EINVAL"
    [] e = "UNSUPPORTED_COMMAND" -> "ENOTSUP"
    [] e = "WRITE_PROTECTED" -> "EROFS"
    [] e = "NOT_INIT" -> "ENODEV"
    [] e \in {"MAX_MOUNT_POINTS", "MAX_VOLUMES", "MAX_CLIENTS", "MAX_FILES", "MAX_DIRS"} -> "EMFILE"
    [] e = "NOT_EMPTY" -> "ENOTEMPTY"
    [] e = "ACCESS_ERROR" -> "EACCES"
    [] e = "DATA_CORRUPTED" -> "EILSEQ"
    [] e = "OUT_OF_RESOURCES" -> "ENOMEM"
    [] OTHER -> "EIO"
=============================================================================
