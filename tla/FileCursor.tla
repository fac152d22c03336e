----------------------------- MODULE FileCursor -----------------------------
(***************************************************************************)
(* What an open file promises its user: one position.  Every transfer      *)
(* takes place there, in pieces that follow one another, and a seek moves  *)
(* it.  That the library keeps the position twice, cuts requests at cache  *)
(* lines and limits, and copies through a buffer is not to be seen.        *)
(*                                                                         *)
(* This is a requirement, not a translation: FileIO is translated from the *)
(* source and is shown to implement it.                                    *)
(***************************************************************************)
EXTENDS Integers

CONSTANTS
  Handles,
  End,       \* the end of the address range: positions are below it
  Room       \* bytes the volume has room for

VARIABLES
  size,      \* of the file
  plain,     \* the handles the promise is for: they neither append nor truncate
  cursor,    \* [Handles -> position]
  call,      \* "seek", "read", "write", or how the last call ended
  left,      \* [Handles -> what a transfer has still to do]
  moved      \* [Handles -> whether it has moved a byte]

vars == <<size, plain, cursor, call, left, moved>>

Ended == {"ok", "failed"}

Init ==
  /\ size \in 0 .. Room
  /\ plain \subseteq Handles
  /\ cursor = [h \in Handles |-> 0]
  /\ call = [h \in Handles |-> "ok"]
  /\ left = [h \in Handles |-> 0]
  /\ moved = [h \in Handles |-> FALSE]

Begin(h) ==
  /\ call[h] \in Ended
  /\ \E op \in {"read", "write", "seek"} : call' = [call EXCEPT ![h] = op]
  /\ left' \in [Handles -> Nat] /\ \A g \in Handles \ {h} : left'[g] = left[g]
  /\ UNCHANGED <<size, plain, cursor, moved>>

Stop(h, outcome) ==
  /\ call' = [call EXCEPT ![h] = outcome]
  /\ left' = [left EXCEPT ![h] = 0]
  /\ moved' = [moved EXCEPT ![h] = FALSE]

\* A call ends, or is refused, without a further effect.  It is not said to have
\* failed when it has moved something.
GiveUp(h) ==
  /\ \E outcome \in Ended : (outcome = "failed" => ~moved[h]) /\ Stop(h, outcome)
  /\ UNCHANGED <<size, plain, cursor>>

\* A transfer that has moved n bytes has done all of its work, or goes on, or finds
\* that there is no more to be had.
Moved(h, n, exhausted) ==
  /\ cursor' = [cursor EXCEPT ![h] = @ + n]
  /\ \/ (n = left[h] \/ exhausted) /\ Stop(h, "ok")
     \/ /\ n < left[h]
        /\ left' = [left EXCEPT ![h] = @ - n]
        /\ moved' = [moved EXCEPT ![h] = @ \/ n > 0]
        /\ UNCHANGED call
  /\ UNCHANGED plain

Read(h) ==
  /\ call[h] = "read"
  /\ \E n \in 0 .. left[h] :
       /\ n > 0 => cursor[h] + n <= size
       /\ Moved(h, n, cursor[h] + n >= size)
  /\ UNCHANGED size

Write(h) ==
  /\ call[h] = "write"
  /\ \E n \in 0 .. left[h] :
       /\ n > 0 => cursor[h] + n <= Room
       /\ Moved(h, n, cursor[h] + n >= Room)
       /\ size' = IF n > 0 /\ cursor[h] + n > size THEN cursor[h] + n ELSE size

Seek(h) ==
  /\ call[h] \in Ended \cup {"seek"}
  /\ \E to \in 0 .. End - 1 : cursor' = [cursor EXCEPT ![h] = to]
  /\ Stop(h, "ok")
  /\ UNCHANGED <<size, plain>>

\* The other handles do with the file, and with their own calls, as they like.
Other ==
  /\ size' \in 0 .. Room
  /\ \A h \in plain : /\ cursor'[h] = cursor[h] /\ call'[h] = call[h]
                      /\ left'[h] = left[h] /\ moved'[h] = moved[h]
  /\ UNCHANGED plain

Next ==
  \/ \E h \in plain : Begin(h) \/ GiveUp(h) \/ Read(h) \/ Write(h) \/ Seek(h)
  \/ Other

Spec == Init /\ [][Next]_vars
=============================================================================
