--------------------------- MODULE MountRegistry ---------------------------
(***************************************************************************)
(* What Mocha_MountFS and Mocha_UnmountFS promise to their callers: a      *)
(* table of mounts on which every call acts in one indivisible step and    *)
(* returns a status that agrees with what the step did.                    *)
(*                                                                         *)
(* This is a requirement, not a translation: MountTable is translated from *)
(* the source and is shown to implement it.                                *)
(***************************************************************************)
EXTENDS Naturals

CONSTANTS
  Threads,       \* callers
  Slots,         \* entries of the table
  Requests,      \* the calls: records with an op and a name
  NameBuf,       \* [names -> names], the name under which a mount is entered
  MountErrors,   \* the failures a mount call may report
  NoReq,         \* no call in progress
  Empty          \* no mount in this entry

VARIABLES
  table,         \* [Slots -> names, or Empty]
  req,           \* [Threads -> Requests, or NoReq]
  result         \* [Threads -> what the last call returned; "PENDING" during a call]

vars == <<table, req, result>>

Init ==
  /\ table = [s \in Slots |-> Empty]
  /\ req = [t \in Threads |-> NoReq]
  /\ result = [t \in Threads |-> "NONE"]

\* A call starts.
Call(t) ==
  /\ req[t] = NoReq
  /\ \E r \in Requests : req' = [req EXCEPT ![t] = r]
  /\ result' = [result EXCEPT ![t] = "PENDING"]
  /\ UNCHANGED table

\* A call with a null argument is refused at once.
Refuse(t) ==
  /\ req[t] = NoReq
  /\ result' = [result EXCEPT ![t] = "INVALID_ARGUMENT"]
  /\ UNCHANGED <<table, req>>

Answer(t, r) ==
  /\ req' = [req EXCEPT ![t] = NoReq]
  /\ result' = [result EXCEPT ![t] = r]

\* A mount that succeeds fills one empty entry and no other.
MountDone(t) ==
  /\ req[t] # NoReq /\ req[t].op = "mount"
  /\ \E s \in Slots :
        /\ table[s] = Empty
        /\ table' = [table EXCEPT ![s] = NameBuf[req[t].name]]
  /\ Answer(t, "SUCCESS")

\* A mount that fails changes nothing.
MountFailed(t) ==
  /\ req[t] # NoReq /\ req[t].op = "mount"
  /\ \E e \in MountErrors : Answer(t, e)
  /\ UNCHANGED table

\* An unmount that succeeds empties one entry that bears the name.
UnmountDone(t) ==
  /\ req[t] # NoReq /\ req[t].op = "unmount"
  /\ \E s \in Slots :
        /\ table[s] = req[t].name
        /\ table' = [table EXCEPT ![s] = Empty]
  /\ Answer(t, "SUCCESS")

\* NOT_FOUND is returned only while no entry bears the name.
UnmountMissing(t) ==
  /\ req[t] # NoReq /\ req[t].op = "unmount"
  /\ \A s \in Slots : table[s] # req[t].name
  /\ Answer(t, "NOT_FOUND")
  /\ UNCHANGED table

Next ==
  \E t \in Threads :
    \/ Call(t)
    \/ Refuse(t)
    \/ MountDone(t)
    \/ MountFailed(t)
    \/ UnmountDone(t)
    \/ UnmountMissing(t)

Spec == Init /\ [][Next]_vars
=============================================================================
