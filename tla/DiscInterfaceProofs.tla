------------------------ MODULE DiscInterfaceProofs ------------------------
(***************************************************************************)
(* Proofs about DiscInterface, for any discs, devices, threads and         *)
(* handles: its type invariant; and, for callers that keep to one thread   *)
(* per disc and the first startup to itself, that transfers reach the      *)
(* device of their disc and that handles are opened and closed in pairs.   *)
(***************************************************************************)
EXTENDS DiscInterface, FiniteSetTheorems, TLAPS

USE DEF discVars, iosVars, vars

(* The type invariant.                                                     *)

Pcs == {"idle", "initialize", "clear", "open", "unlock", "closelocked", "rawopen?",
        "rawopen", "giveup", "rawclose", "close", "transfer"}

Variables == {"fsa", "raw"} \X Discs

\* What the parts of TypeOK say of the handles.
HandleTypes ==
  /\ initialized \in BOOLEAN
  /\ fsaFd \in [Discs -> Fds \cup {Loaded, NoFd}]
  /\ rawFd \in [Discs -> RawFds \cup {Loaded, NoFd}]
  /\ client \in [Fds -> {"closed", "locked", "unlocked"}]
  /\ raw \in [RawFds -> {Closed} \cup (Fds \X UNION {Paths(d) : d \in Discs})]

\* And of the threads: the bound on `tried' needs its type, the disc is the caller's.
ThreadTypes ==
  /\ pc \in [Threads -> Pcs]
  /\ disc \in [Threads -> Discs \cup {NoDisc}]
  /\ todo \in [Threads -> SUBSET Variables]
  /\ tried \in [Threads -> Nat]

ThreadOK(t) ==
  /\ pc[t] = "idle" <=> disc[t] = NoDisc
  /\ disc[t] # NoDisc => disc[t] \in Uses[t]
  /\ pc[t] # "clear" => todo[t] = {}
  /\ pc[t] = "rawopen" => tried[t] < Len(Devices[disc[t]])
  /\ pc[t] \notin {"rawopen", "giveup"} => tried[t] = 0

TInv == HandleTypes /\ ThreadTypes /\ \A t \in Threads : ThreadOK(t)

\* A step of t leaves the other threads alone.
OthersStay(t) ==
  \A u \in Threads \ {t} :
    pc'[u] = pc[u] /\ disc'[u] = disc[u] /\ todo'[u] = todo[u] /\ tried'[u] = tried[u]

LEMMA TypeFollows == TInv => TypeOK
BY DEF TInv, HandleTypes, ThreadTypes, ThreadOK, TypeOK, Pcs, Variables

LEMMA PathsOf ==
  ASSUME NEW d \in Discs
  PROVE  /\ Len(Devices[d]) \in Nat \ {0}
         /\ \A i \in 1 .. Len(Devices[d]) : Devices[d][i] \in Paths(d)
BY ConstantsOK DEF Paths

LEMMA LastOne ==
  ASSUME NEW S \in SUBSET Variables, NEW v \in S
  PROVE  Cardinality(S) = 1 <=> S \ {v} = {}
<1>1. IsFiniteSet({"fsa", "raw"})
  <2>1. IsFiniteSet({"fsa"} \cup {"raw"})
    BY FS_Singleton, FS_AddElement
  <2>2. {"fsa", "raw"} = {"fsa"} \cup {"raw"}
    OBVIOUS
  <2> QED
    BY <2>1, <2>2
<1>2. IsFiniteSet(Variables)
  BY <1>1, ConstantsOK, FS_Product DEF Variables
<1>3. IsFiniteSet(S)
  BY <1>2, FS_Subset
<1>4. Cardinality(S) = 1 <=> \E x : S = {x}
  BY <1>3, FS_Singleton
<1> QED
  BY <1>4

\* The ways in which a step of t changes what the threads have.
ThreadStep(t) == ThreadTypes' /\ OthersStay(t) /\ ThreadOK(t)'

LEMMA Returns ==
  ASSUME TInv, NEW t \in Threads, pc[t] # "clear", Return(t)
  PROVE  ThreadStep(t) /\ pc'[t] = "idle" /\ disc'[t] = NoDisc
BY DEF TInv, ThreadTypes, ThreadOK, Return, Goto, ThreadStep, OthersStay, Pcs

LEMMA GoesOn ==
  ASSUME TInv, NEW t \in Threads, pc[t] \notin {"idle", "clear"},
         NEW next \in Pcs \ {"idle", "clear"}, Goto(t, next), UNCHANGED <<disc, todo, tried>>,
         next = "rawopen" => tried[t] = 0,
         next \notin {"rawopen", "giveup"} => tried[t] = 0
  PROVE  ThreadStep(t) /\ pc'[t] = next /\ disc'[t] = disc[t]
<1>1. /\ pc' = [pc EXCEPT ![t] = next]
      /\ disc' = disc /\ todo' = todo /\ tried' = tried
  BY DEF Goto
<1>2. ThreadTypes' /\ OthersStay(t) /\ pc'[t] = next
  BY <1>1 DEF TInv, ThreadTypes, OthersStay
<1>3. next = "rawopen" => tried[t] < Len(Devices[disc[t]])
  <2>1. disc[t] \in Discs
    BY DEF TInv, ThreadTypes, ThreadOK
  <2> QED
    BY <2>1, PathsOf
<1>4. ThreadOK(t)'
  BY <1>1, <1>2, <1>3 DEF TInv, ThreadOK
<1> QED
  BY <1>1, <1>2, <1>4 DEF ThreadStep

LEMMA Calls ==
  ASSUME TInv, NEW t \in Threads, pc[t] = "idle", NEW d \in Uses[t],
         NEW at \in {"initialize", "rawclose", "transfer"}, Call(t, d, at)
  PROVE  /\ ThreadStep(t) /\ pc'[t] = at /\ disc'[t] = d
         /\ UNCHANGED <<initialized, fsaFd, rawFd, client, raw>>
<1>1. d \in Discs
  BY ConstantsOK
<1>2. d # NoDisc
  BY <1>1, ConstantsOK
<1>3. /\ pc' = [pc EXCEPT ![t] = at] /\ disc' = [disc EXCEPT ![t] = d]
      /\ todo' = todo /\ tried' = tried
      /\ UNCHANGED <<initialized, fsaFd, rawFd, client, raw>>
  BY DEF Call, Goto
<1>4. ThreadTypes' /\ OthersStay(t) /\ pc'[t] = at /\ disc'[t] = d
  BY <1>1, <1>3 DEF TInv, ThreadTypes, OthersStay, Pcs
<1>5. ThreadOK(t)'
  BY <1>2, <1>3, <1>4 DEF TInv, ThreadOK
<1> QED
  BY <1>3, <1>4, <1>5 DEF ThreadStep

\* The first two steps of a startup.
LEMMA InitializeEffect ==
  ASSUME TInv, NEW t \in Threads, Initialize(t)
  PROVE  /\ ThreadStep(t) /\ pc[t] = "initialize" /\ disc'[t] = disc[t]
         /\ UNCHANGED <<fsaFd, rawFd, client, raw>> /\ initialized'
         /\ IF initialized THEN pc'[t] = "open"
                           ELSE pc'[t] = "clear" /\ todo'[t] = Variables
<1>1. CASE initialized
  BY <1>1, GoesOn DEF Initialize, TInv, ThreadOK, Pcs
<1>2. CASE ~initialized
  <2>1. /\ pc' = [pc EXCEPT ![t] = "clear"] /\ todo' = [todo EXCEPT ![t] = Variables]
        /\ disc' = disc /\ tried' = tried
    BY <1>2 DEF Initialize, Goto, Variables
  <2> QED
    BY <1>2, <2>1
       DEF Initialize, TInv, ThreadTypes, ThreadOK, ThreadStep, OthersStay, Pcs
<1> QED
  BY <1>1, <1>2

LEMMA ClearFdEffect ==
  ASSUME TInv, NEW t \in Threads, ClearFd(t)
  PROVE  /\ ThreadStep(t) /\ pc[t] = "clear" /\ disc'[t] = disc[t]
         /\ UNCHANGED <<initialized, client, raw>>
         /\ \E v \in todo[t] :
              /\ todo'[t] = todo[t] \ {v}
              /\ pc'[t] = IF todo'[t] = {} THEN "open" ELSE "clear"
              /\ fsaFd' = IF v[1] = "fsa" THEN [fsaFd EXCEPT ![v[2]] = NoFd] ELSE fsaFd
              /\ rawFd' = IF v[1] = "raw" THEN [rawFd EXCEPT ![v[2]] = NoFd] ELSE rawFd
<1>1. PICK v \in todo[t] :
        /\ todo' = [todo EXCEPT ![t] = todo[t] \ {v}]
        /\ fsaFd' = IF v[1] = "fsa" THEN [fsaFd EXCEPT ![v[2]] = NoFd] ELSE fsaFd
        /\ rawFd' = IF v[1] = "raw" THEN [rawFd EXCEPT ![v[2]] = NoFd] ELSE rawFd
  BY DEF ClearFd
<1>2. /\ pc[t] = "clear" /\ pc' = [pc EXCEPT ![t] = IF Cardinality(todo[t]) = 1
                                                    THEN "open" ELSE "clear"]
      /\ UNCHANGED <<initialized, client, raw, disc, tried>>
  BY DEF ClearFd, Goto
<1>3. todo[t] \in SUBSET Variables /\ todo'[t] = todo[t] \ {v}
  BY <1>1 DEF TInv, ThreadTypes
<1>4. Cardinality(todo[t]) = 1 <=> todo'[t] = {}
  BY <1>3, LastOne
<1>5. pc'[t] = IF todo'[t] = {} THEN "open" ELSE "clear"
  BY <1>2, <1>4 DEF TInv, ThreadTypes
<1>6. ThreadTypes' /\ OthersStay(t)
  BY <1>1, <1>2 DEF TInv, ThreadTypes, OthersStay, Pcs
<1>7. ThreadOK(t)'
  BY <1>2, <1>5 DEF TInv, ThreadOK
<1> QED
  BY <1>1, <1>2, <1>3, <1>5, <1>6, <1>7 DEF ThreadStep

LEMMA OpenClientEffect ==
  ASSUME TInv, NEW t \in Threads, NEW d, d = disc[t], OpenClient(t)
  PROVE  /\ ThreadStep(t) /\ HandleTypes' /\ d \in Uses[t] /\ d \in Discs
         /\ pc[t] = "open" /\ UNCHANGED <<initialized, rawFd, raw>>
         /\ \/ /\ fsaFd[d] # NoFd /\ pc'[t] = "rawopen?" /\ disc'[t] = d
               /\ UNCHANGED <<fsaFd, client>>
            \/ /\ fsaFd[d] = NoFd /\ pc'[t] = "unlock" /\ disc'[t] = d
               /\ \E f \in Fds : /\ client[f] = "closed"
                                 /\ client' = [client EXCEPT ![f] = "locked"]
                                 /\ fsaFd' = [fsaFd EXCEPT ![d] = f]
            \/ /\ fsaFd[d] = NoFd /\ pc'[t] = "idle" /\ disc'[t] = NoDisc
               /\ UNCHANGED <<fsaFd, client>>
<1>1. pc[t] = "open" /\ UNCHANGED <<initialized, rawFd, raw>>
  BY DEF OpenClient, Step
<1>2. d \in Discs /\ d \in Uses[t] /\ tried[t] = 0
  BY <1>1 DEF TInv, ThreadTypes, ThreadOK
<1>3. HandleTypes'
  BY <1>1, <1>2 DEF OpenClient, TInv, HandleTypes
<1>4. CASE fsaFd[d] # NoFd /\ Step(t, "open", "rawopen?") /\ UNCHANGED <<fsaFd, client>>
  BY <1>1, <1>2, <1>3, <1>4, GoesOn DEF Step, Pcs
<1>5. CASE /\ fsaFd[d] = NoFd /\ Step(t, "open", "unlock")
           /\ \E f \in Fds : /\ client[f] = "closed"
                             /\ client' = [client EXCEPT ![f] = "locked"]
                             /\ fsaFd' = [fsaFd EXCEPT ![d] = f]
  BY <1>1, <1>2, <1>3, <1>5, GoesOn DEF Step, Pcs
<1>6. CASE fsaFd[d] = NoFd /\ Return(t) /\ UNCHANGED <<fsaFd, client>>
  BY <1>1, <1>2, <1>3, <1>6, Returns
<1> QED
  BY <1>4, <1>5, <1>6 DEF OpenClient, IsSet

LEMMA UnlockEffect ==
  ASSUME TInv, NEW t \in Threads, NEW d, d = disc[t], Unlock(t)
  PROVE  /\ ThreadStep(t) /\ HandleTypes' /\ d \in Uses[t] /\ d \in Discs
         /\ pc[t] = "unlock" /\ disc'[t] = d /\ UNCHANGED <<initialized, fsaFd, rawFd, raw>>
         /\ \/ /\ pc'[t] = "rawopen?"
               /\ client' = [f \in Fds |-> IF f = fsaFd[d] THEN "unlocked" ELSE client[f]]
            \/ pc'[t] = "closelocked" /\ UNCHANGED client
<1>1. pc[t] = "unlock" /\ UNCHANGED <<initialized, fsaFd, rawFd, raw>>
  BY DEF Unlock, Step
<1>2. d \in Discs /\ d \in Uses[t] /\ tried[t] = 0
  BY <1>1 DEF TInv, ThreadTypes, ThreadOK
<1>3. HandleTypes'
  BY <1>1 DEF Unlock, TInv, HandleTypes
<1> QED
  BY <1>1, <1>2, <1>3, GoesOn DEF Unlock, Step, Pcs

LEMMA ReadRawFdEffect ==
  ASSUME TInv, NEW t \in Threads, NEW d, d = disc[t], ReadRawFd(t)
  PROVE  /\ ThreadStep(t) /\ HandleTypes' /\ d \in Uses[t] /\ d \in Discs
         /\ pc[t] = "rawopen?" /\ UNCHANGED <<initialized, fsaFd, rawFd, client, raw>>
         /\ IF rawFd[d] # NoFd THEN pc'[t] = "idle" /\ disc'[t] = NoDisc
                               ELSE pc'[t] = "rawopen" /\ disc'[t] = d
<1>1. pc[t] = "rawopen?" /\ UNCHANGED <<initialized, fsaFd, rawFd, client, raw>>
  BY DEF ReadRawFd
<1>2. d \in Discs /\ d \in Uses[t] /\ tried[t] = 0
  BY <1>1 DEF TInv, ThreadTypes, ThreadOK
<1>3. HandleTypes'
  BY <1>1 DEF TInv, HandleTypes
<1>4. CASE rawFd[d] # NoFd
  BY <1>1, <1>2, <1>3, <1>4, Returns DEF ReadRawFd, IsSet
<1>5. CASE rawFd[d] = NoFd
  BY <1>1, <1>2, <1>3, <1>5, GoesOn DEF ReadRawFd, IsSet, Pcs
<1> QED
  BY <1>4, <1>5

LEMMA RawOpenEffect ==
  ASSUME TInv, NEW t \in Threads, NEW d, d = disc[t], RawOpen(t)
  PROVE  /\ ThreadStep(t) /\ HandleTypes' /\ d \in Uses[t] /\ d \in Discs
         /\ pc[t] = "rawopen" /\ UNCHANGED <<initialized, fsaFd, client>>
         /\ \/ /\ pc'[t] = "idle" /\ disc'[t] = NoDisc
               /\ \E r \in RawFds, p \in Paths(d) :
                    /\ raw[r] = Closed
                    /\ raw' = [raw EXCEPT ![r] = <<fsaFd[d], p>>]
                    /\ rawFd' = [rawFd EXCEPT ![d] = r]
            \/ /\ pc'[t] \in {"rawopen", "giveup"} /\ disc'[t] = d
               /\ UNCHANGED <<raw, rawFd>>
<1>1. pc[t] = "rawopen" /\ UNCHANGED <<initialized, fsaFd, client>>
  BY DEF RawOpen
<1>2. /\ d \in Discs /\ d \in Uses[t]
      /\ tried[t] \in Nat /\ tried[t] < Len(Devices[d]) /\ Len(Devices[d]) \in Nat
  <2>1. d \in Discs /\ d \in Uses[t] /\ tried[t] \in Nat /\ tried[t] < Len(Devices[d])
    BY <1>1 DEF TInv, ThreadTypes, ThreadOK
  <2> QED
    BY <2>1, PathsOf
<1>3. CASE /\ fsaFd[d] \in Fds
           /\ \E r \in RawFds :
                /\ raw[r] = Closed
                /\ raw' = [raw EXCEPT ![r] = <<fsaFd[d], Devices[d][tried[t] + 1]>>]
                /\ rawFd' = [rawFd EXCEPT ![d] = r]
           /\ Return(t)
  <2> DEFINE p == Devices[d][tried[t] + 1]
  <2>1. p \in Paths(d)
    BY <1>2, PathsOf
  <2> HIDE DEF p
  <2>2. \E r \in RawFds : /\ raw[r] = Closed
                          /\ raw' = [raw EXCEPT ![r] = <<fsaFd[d], p>>]
                          /\ rawFd' = [rawFd EXCEPT ![d] = r]
    BY <1>3 DEF p
  <2>3. HandleTypes'
    <3>1. p \in UNION {Paths(e) : e \in Discs}
      BY <1>2, <2>1
    <3> QED
      BY <1>1, <1>2, <1>3, <2>2, <3>1 DEF TInv, HandleTypes
  <2>4. ThreadStep(t) /\ pc'[t] = "idle" /\ disc'[t] = NoDisc
    BY <1>1, <1>3, Returns
  <2> QED
    BY <1>1, <1>2, <2>1, <2>2, <2>3, <2>4
<1>4. CASE /\ tried' = [tried EXCEPT ![t] = tried[t] + 1]
           /\ Goto(t, IF tried'[t] = Len(Devices[d]) THEN "giveup" ELSE "rawopen")
           /\ UNCHANGED <<raw, rawFd, disc, todo>>
  <2>1. HandleTypes'
    BY <1>1, <1>4 DEF TInv, HandleTypes
  <2>2. tried' \in [Threads -> Nat] /\ tried'[t] = tried[t] + 1
    BY <1>2, <1>4 DEF TInv, ThreadTypes
  <2>3. /\ pc' \in [Threads -> Pcs]
        /\ pc'[t] = IF tried'[t] = Len(Devices[d]) THEN "giveup" ELSE "rawopen"
        /\ \A u \in Threads \ {t} : pc'[u] = pc[u] /\ tried'[u] = tried[u]
    BY <1>4 DEF Goto, TInv, ThreadTypes, Pcs
  <2>4. pc'[t] = "rawopen" => tried'[t] < Len(Devices[d])
    BY <1>2, <2>2, <2>3
  <2>5. ThreadStep(t)
    BY <1>1, <1>4, <2>2, <2>3, <2>4
       DEF TInv, ThreadTypes, ThreadOK, ThreadStep, OthersStay
  <2> QED
    BY <1>1, <1>2, <1>4, <2>1, <2>3, <2>5
<1> QED
  BY <1>3, <1>4 DEF RawOpen

\* The three places where a client is closed.
Closes(t) == CloseLocked(t) \/ GiveUp(t) \/ Shutdown(t)

LEMMA ClosesEffect ==
  ASSUME TInv, NEW t \in Threads, NEW d, d = disc[t], Closes(t)
  PROVE  /\ ThreadStep(t) /\ HandleTypes' /\ d \in Uses[t] /\ d \in Discs
         /\ pc[t] \in {"closelocked", "giveup", "close"}
         /\ pc'[t] = "idle" /\ disc'[t] = NoDisc
         /\ CloseClient(fsaFd[d]) /\ UNCHANGED initialized
         /\ fsaFd' = [fsaFd EXCEPT ![d] = NoFd]
         /\ rawFd' = IF pc[t] = "closelocked" THEN rawFd ELSE [rawFd EXCEPT ![d] = NoFd]
<1>1. /\ pc[t] \in {"closelocked", "giveup", "close"} /\ Return(t)
      /\ CloseClient(fsaFd[d]) /\ UNCHANGED initialized
      /\ fsaFd' = [fsaFd EXCEPT ![d] = NoFd]
      /\ rawFd' = IF pc[t] = "closelocked" THEN rawFd ELSE [rawFd EXCEPT ![d] = NoFd]
  BY DEF Closes, CloseLocked, GiveUp, Shutdown
<1>2. d \in Discs /\ d \in Uses[t]
  BY <1>1 DEF TInv, ThreadTypes, ThreadOK
<1>3. HandleTypes'
  BY <1>1, <1>2 DEF TInv, HandleTypes, CloseClient
<1> QED
  BY <1>1, <1>2, <1>3, Returns

LEMMA RawCloseEffect ==
  ASSUME TInv, NEW t \in Threads, NEW d, d = disc[t], RawClose(t)
  PROVE  /\ ThreadStep(t) /\ HandleTypes' /\ d \in Uses[t] /\ d \in Discs
         /\ pc[t] = "rawclose" /\ pc'[t] = "close" /\ disc'[t] = d
         /\ UNCHANGED <<initialized, fsaFd, rawFd, client>>
         /\ \/ raw' = [r \in RawFds |-> IF r = rawFd[d] THEN Closed ELSE raw[r]]
            \/ UNCHANGED raw
<1>1. /\ pc[t] = "rawclose" /\ UNCHANGED <<initialized, fsaFd, rawFd, client>>
      /\ \/ raw' = [r \in RawFds |-> IF r = rawFd[d] THEN Closed ELSE raw[r]]
         \/ UNCHANGED raw
  BY DEF RawClose, Step
<1>2. d \in Discs /\ d \in Uses[t] /\ tried[t] = 0
  BY <1>1 DEF TInv, ThreadTypes, ThreadOK
<1>3. HandleTypes'
  BY <1>1 DEF TInv, HandleTypes
<1> QED
  BY <1>1, <1>2, <1>3, GoesOn DEF RawClose, Step, Pcs

LEMMA TransferEffect ==
  ASSUME TInv, NEW t \in Threads, NEW d, d = disc[t], Transfer(t)
  PROVE  /\ ThreadStep(t) /\ HandleTypes' /\ d \in Uses[t] /\ d \in Discs
         /\ pc[t] = "transfer" /\ pc'[t] = "idle" /\ disc'[t] = NoDisc
         /\ UNCHANGED <<initialized, fsaFd, rawFd, client, raw>>
<1>1. /\ pc[t] = "transfer" /\ UNCHANGED <<initialized, fsaFd, rawFd, client, raw>>
  BY DEF Transfer
<1>2. d \in Discs /\ d \in Uses[t]
  BY <1>1 DEF TInv, ThreadTypes, ThreadOK
<1>3. HandleTypes'
  BY <1>1 DEF TInv, HandleTypes
<1> QED
  BY <1>1, <1>2, <1>3, Returns DEF Transfer
-----------------------------------------------------------------------------
(* The type invariant holds, whatever the callers do.                      *)

LEMMA TypeStep == TInv /\ [Next]_vars => TInv'
<1> SUFFICES ASSUME TInv, [Next]_vars PROVE TInv'
  OBVIOUS
<1>1. ASSUME NEW t \in Threads, HandleTypes', ThreadStep(t) PROVE TInv'
  BY <1>1 DEF TInv, ThreadStep, OthersStay, ThreadOK
<1>2. ASSUME NEW t \in Threads, CallStartup(t) \/ CallShutdown(t) \/ CallTransfer(t)
      PROVE  TInv'
  <2>1. PICK d \in Uses[t], at \in {"initialize", "rawclose", "transfer"} : Call(t, d, at)
    BY <1>2 DEF CallStartup, CallShutdown, CallTransfer
  <2>2. pc[t] = "idle"
    BY <1>2 DEF CallStartup, CallShutdown, CallTransfer, MayCall
  <2>3. ThreadStep(t) /\ UNCHANGED <<initialized, fsaFd, rawFd, client, raw>>
    BY <2>1, <2>2, Calls
  <2>4. HandleTypes'
    BY <2>3 DEF TInv, HandleTypes
  <2> QED
    BY <1>1, <2>3, <2>4
<1>3. ASSUME NEW t \in Threads, Initialize(t) PROVE TInv'
  <2>1. HandleTypes'
    BY <1>3, InitializeEffect DEF TInv, HandleTypes, Initialize
  <2> QED
    BY <1>1, <1>3, <2>1, InitializeEffect
<1>4. ASSUME NEW t \in Threads, ClearFd(t) PROVE TInv'
  <2>1. HandleTypes'
    <3>1. todo[t] \subseteq Variables
      BY DEF TInv, ThreadTypes
    <3> QED
      BY <1>4, <3>1, ClearFdEffect DEF TInv, HandleTypes, Variables
  <2> QED
    BY <1>1, <1>4, <2>1, ClearFdEffect
<1>5. ASSUME NEW t \in Threads,
             \/ OpenClient(t) \/ Unlock(t) \/ ReadRawFd(t) \/ RawOpen(t)
             \/ CloseLocked(t) \/ GiveUp(t) \/ Shutdown(t) \/ RawClose(t) \/ Transfer(t)
      PROVE  TInv'
  BY <1>1, <1>5, OpenClientEffect, UnlockEffect, ReadRawFdEffect, RawOpenEffect,
     ClosesEffect, RawCloseEffect, TransferEffect DEF Closes
<1>6. CASE UNCHANGED vars
  BY <1>6 DEF TInv, HandleTypes, ThreadTypes, ThreadOK
<1> QED
  BY <1>2, <1>3, <1>4, <1>5, <1>6 DEF Next

LEMMA InitTyped == Init => TInv
<1> SUFFICES ASSUME Init PROVE TInv
  OBVIOUS
<1>1. HandleTypes
  BY DEF Init, HandleTypes
<1>2. ThreadTypes
  <2>1. {} \in SUBSET Variables
    OBVIOUS
  <2> QED
    BY <2>1 DEF Init, ThreadTypes, Pcs
<1>3. \A t \in Threads : ThreadOK(t)
  BY DEF Init, ThreadOK
<1> QED
  BY <1>1, <1>2, <1>3 DEF TInv

LEMMA TypeInvariance == Spec => []TInv
BY InitTyped, TypeStep, PTL DEF Spec
-----------------------------------------------------------------------------
(* The handles.                                                            *)

\* The disc's IOS handle is open and unlocked.
Open(d) == fsaFd[d] \in Fds /\ client[fsaFd[d]] = "unlocked"

Both(d) == /\ Open(d)
           /\ rawFd[d] \in RawFds /\ \E p \in Paths(d) : raw[rawFd[d]] = <<fsaFd[d], p>>

Neither(d) == fsaFd[d] = NoFd /\ rawFd[d] = NoFd

\* The handles of a disc whose thread is at a step.
Place(d, at) ==
  /\ at \in {"idle", "initialize", "open"} => Both(d) \/ Neither(d)
  /\ at \in {"unlock", "closelocked"} => fsaFd[d] \in Fds /\ rawFd[d] = NoFd
  /\ at = "rawopen?" => Both(d) \/ (Open(d) /\ rawFd[d] = NoFd)
  /\ at \in {"rawopen", "giveup"} => Open(d) /\ rawFd[d] = NoFd
  /\ at \in {"rawclose", "transfer"} => Both(d)
  /\ at = "close" => fsaFd[d] \in Fds

DiscOK(d) ==
  /\ \A t \in Threads : disc[t] = d => Place(d, pc[t])
  /\ (\A t \in Threads : disc[t] # d) => Place(d, "idle")

\* What IOSU has open is what the variables say, and no two discs share a handle.
Accounted ==
  /\ \A d \in Discs : fsaFd[d] \in Fds => client[fsaFd[d]] # "closed"
  /\ \A d, e \in Discs : d # e /\ fsaFd[d] # NoFd => fsaFd[d] # fsaFd[e]
  /\ \A f \in Fds : client[f] # "closed" => \E d \in Discs : fsaFd[d] = f
  /\ \A r \in RawFds : raw[r] # Closed =>
                         \E d \in Discs : fsaFd[d] = raw[r][1] /\ rawFd[d] = r
  /\ \A d \in Discs : fsaFd[d] \in Fds \cup {NoFd} /\ rawFd[d] \in RawFds \cup {NoFd}

NothingOpen == (\A f \in Fds : client[f] = "closed") /\ \A r \in RawFds : raw[r] = Closed

\* Before the first startup, and in the middle of it.
LoadOK ==
  ~initialized =>
    /\ NothingOpen
    /\ \A d \in Discs : fsaFd[d] = Loaded /\ rawFd[d] = Loaded
    /\ \A t \in Threads : pc[t] \in {"idle", "initialize"}
    /\ \A t, u \in Threads : t # u => pc[t] = "idle" \/ pc[u] = "idle"

ClearOK ==
  \A t \in Threads : pc[t] = "clear" =>
    /\ initialized /\ NothingOpen
    /\ \A d \in Discs : /\ fsaFd[d] = IF <<"fsa", d>> \in todo[t] THEN Loaded ELSE NoFd
                        /\ rawFd[d] = IF <<"raw", d>> \in todo[t] THEN Loaded ELSE NoFd
    /\ \A u \in Threads \ {t} : pc[u] = "idle"

Ready == initialized /\ \A t \in Threads : pc[t] # "clear"

ReadyOK == Ready => Accounted /\ \A d \in Discs : DiscOK(d)

IInv == TInv /\ LoadOK /\ ClearOK /\ ReadyOK

\* What the callers keep to.
OneThreadPerDisc == \A t, u \in Threads : t # u => Uses[t] \cap Uses[u] = {}

\* A step for d leaves the handles of the other discs alone.
OthersHandles(d) ==
  \A e \in Discs \ {d} :
    /\ fsaFd'[e] = fsaFd[e] /\ rawFd'[e] = rawFd[e]
    /\ fsaFd[e] \in Fds => client'[fsaFd[e]] = client[fsaFd[e]]
    /\ \A r \in RawFds : raw[r] # Closed /\ raw[r][1] = fsaFd[e] => raw'[r] = raw[r]

LEMMA PlaceKept ==
  ASSUME NEW d \in Discs, NEW e \in Discs \ {d}, OthersHandles(d),
         NEW at, Place(e, at)
  PROVE  Place(e, at)'
<1>2. Open(e) => Open(e)'
  BY DEF Open, OthersHandles
<1>3. Both(e) => Both(e)'
  <2> SUFFICES ASSUME Both(e) PROVE Both(e)'
    OBVIOUS
  <2>1. PICK p \in Paths(e) : raw[rawFd[e]] = <<fsaFd[e], p>>
    BY DEF Both
  <2>2. fsaFd[e] # NoFd
    BY ConstantsOK DEF Both, Open
  <2>3. raw[rawFd[e]][1] = fsaFd[e] /\ Closed[1] = NoFd
    BY <2>1 DEF Closed
  <2>4. rawFd[e] \in RawFds /\ raw[rawFd[e]] # Closed
    BY <2>2, <2>3 DEF Both
  <2>5. raw'[rawFd[e]] = raw[rawFd[e]]
    BY <2>3, <2>4 DEF OthersHandles
  <2> QED
    BY <1>2, <2>1, <2>5 DEF Both, OthersHandles
<1>4. Neither(e) => Neither(e)'
  BY DEF Neither, OthersHandles
<1> QED
  BY <1>2, <1>3, <1>4 DEF Place, OthersHandles

\* A step of t, for d, once the variables are initialized.
LEMMA ReadyKept ==
  ASSUME IInv, OneThreadPerDisc, Ready, NEW t \in Threads, NEW d \in Discs, d \in Uses[t],
         disc[t] \in {NoDisc, d}, disc'[t] \in {NoDisc, d},
         HandleTypes', ThreadStep(t), initialized', pc'[t] # "clear",
         OthersHandles(d), Accounted', NEW at, pc'[t] = at, Place(d, at)'
  PROVE  IInv'
<1>1. TInv'
  BY DEF IInv, TInv, ThreadStep, OthersStay, ThreadOK
<1>2. Ready'
  BY DEF Ready, ThreadStep, OthersStay
<1>3. ASSUME NEW e \in Discs PROVE DiscOK(e)'
  <2>1. \A u \in Threads \ {t} : pc'[u] = pc[u] /\ disc'[u] = disc[u] /\ disc[u] # d
    BY ConstantsOK DEF OneThreadPerDisc, ThreadStep, OthersStay, IInv, TInv, ThreadOK
  <2>2. DiscOK(e)
    BY DEF IInv, ReadyOK
  <2>3. CASE e # d
    <3>1. e # NoDisc /\ disc[t] # e /\ disc'[t] # e
      BY <2>3, ConstantsOK
    <3>2. \A s : Place(e, s) => Place(e, s)'
      BY <2>3, PlaceKept
    <3>3. \A u \in Threads : disc'[u] = e => disc[u] = e /\ pc'[u] = pc[u]
      BY <2>1, <3>1
    <3>4. ASSUME NEW u \in Threads, disc'[u] = e PROVE Place(e, pc[u])'
      <4>1. Place(e, pc[u]) /\ pc'[u] = pc[u]
        BY <2>2, <3>3, <3>4 DEF DiscOK
      <4> QED
        BY <4>1, <2>3, PlaceKept DEF Place, Both, Neither, Open
    <3>5. ASSUME \A u \in Threads : disc'[u] # e PROVE Place(e, "idle")'
      BY <2>1, <2>2, <2>3, <3>1, <3>2, <3>5, PlaceKept DEF DiscOK
    <3> QED
      BY <3>4, <3>5 DEF DiscOK
  <2>4. CASE e = d
    <3>1. d # NoDisc
      BY ConstantsOK
    <3>2. \A u \in Threads : disc'[u] = d => u = t
      BY <2>1
    <3>3. disc'[t] # d => pc'[t] = "idle"
      BY <1>1 DEF TInv, ThreadOK
    <3>4. ASSUME NEW u \in Threads, disc'[u] = d PROVE Place(d, pc[u])'
      <4>1. pc'[u] = at
        BY <3>2, <3>4
      <4> QED
        BY <4>1 DEF Place, Both, Neither, Open
    <3>5. ASSUME \A u \in Threads : disc'[u] # d PROVE Place(d, "idle")'
      <4>1. at = "idle"
        BY <3>3, <3>5
      <4> QED
        BY <4>1
    <3> QED
      BY <2>4, <3>4, <3>5 DEF DiscOK
  <2> QED
    BY <2>3, <2>4
<1> QED
  BY <1>1, <1>2, <1>3 DEF IInv, LoadOK, ClearOK, ReadyOK, Ready

\* The thread of a step is where its disc's handles say.
LEMMA PlaceNow ==
  ASSUME IInv, Ready, NEW t \in Threads, disc[t] \in Discs
  PROVE  Place(disc[t], pc[t])
BY DEF IInv, ReadyOK, DiscOK

\* A step that leaves all handles alone.
LEMMA Quiet ==
  ASSUME Accounted, UNCHANGED <<fsaFd, rawFd, client, raw>>, NEW d \in Discs
  PROVE  /\ OthersHandles(d) /\ Accounted'
         /\ Both(d)' <=> Both(d)
         /\ Neither(d)' <=> Neither(d)
         /\ Open(d)' <=> Open(d)
<1>1. OthersHandles(d)
  BY DEF OthersHandles
<1>2. Accounted'
  BY DEF Accounted
<1>3. Open(d)' <=> Open(d)
  BY DEF Open
<1>4. Both(d)' <=> Both(d)
  BY DEF Both, Open
<1> QED
  BY <1>1, <1>2, <1>3, <1>4 DEF Neither

\* Closing a client takes the raw handles opened through it, and no others.
LEMMA CloseKeeps ==
  ASSUME TInv, Accounted, NEW d \in Discs, fsaFd[d] \in Fds, CloseClient(fsaFd[d]),
         fsaFd' = [fsaFd EXCEPT ![d] = NoFd],
         \/ rawFd' = [rawFd EXCEPT ![d] = NoFd]
         \/ rawFd' = rawFd /\ rawFd[d] = NoFd
  PROVE  OthersHandles(d) /\ Accounted' /\ Neither(d)'
<1>1. fsaFd \in [Discs -> Fds \cup {Loaded, NoFd}] /\ rawFd \in [Discs -> RawFds \cup {Loaded, NoFd}]
  BY DEF TInv, HandleTypes
<1>2. /\ fsaFd'[d] = NoFd /\ rawFd'[d] = NoFd
      /\ \A e \in Discs \ {d} : fsaFd'[e] = fsaFd[e] /\ rawFd'[e] = rawFd[e]
  BY <1>1
<1>3. \A e \in Discs \ {d} : fsaFd[e] # fsaFd[d]
  BY ConstantsOK DEF Accounted
<1>4. /\ \A f \in Fds : client'[f] = IF f = fsaFd[d] THEN "closed" ELSE client[f]
      /\ \A r \in RawFds : raw'[r] = IF raw[r][1] = fsaFd[d] THEN Closed ELSE raw[r]
  BY DEF CloseClient
<1>5. OthersHandles(d)
  BY <1>2, <1>3, <1>4 DEF OthersHandles
<1>6. Accounted'
  <2>1. (\A e \in Discs : fsaFd[e] \in Fds => client[fsaFd[e]] # "closed")'
    BY <1>2, <1>3, <1>4, ConstantsOK DEF Accounted
  <2>2. (\A e1, e2 \in Discs : e1 # e2 /\ fsaFd[e1] # NoFd => fsaFd[e1] # fsaFd[e2])'
    BY <1>2 DEF Accounted
  <2>3. (\A f \in Fds : client[f] # "closed" => \E e \in Discs : fsaFd[e] = f)'
    BY <1>2, <1>4 DEF Accounted
  <2>4. (\A r \in RawFds : raw[r] # Closed =>
                             \E e \in Discs : fsaFd[e] = raw[r][1] /\ rawFd[e] = r)'
    <3> SUFFICES ASSUME NEW r \in RawFds, raw'[r] # Closed
                 PROVE  \E e \in Discs : fsaFd'[e] = raw'[r][1] /\ rawFd'[e] = r
      BY DEF Closed
    <3>1. raw[r][1] # fsaFd[d] /\ raw'[r] = raw[r]
      BY <1>4
    <3>2. PICK e \in Discs : fsaFd[e] = raw[r][1] /\ rawFd[e] = r
      BY <3>1 DEF Accounted
    <3> QED
      BY <1>2, <3>1, <3>2
  <2>5. (\A e \in Discs : fsaFd[e] \in Fds \cup {NoFd} /\ rawFd[e] \in RawFds \cup {NoFd})'
    BY <1>2 DEF Accounted
  <2> QED
    BY <2>1, <2>2, <2>3, <2>4, <2>5 DEF Accounted
<1> QED
  BY <1>2, <1>5, <1>6 DEF Neither
-----------------------------------------------------------------------------
(* The steps, once the variables are initialized.                          *)

LEMMA ClosesStep ==
  ASSUME IInv, OneThreadPerDisc, Ready, NEW t \in Threads, Closes(t)
  PROVE  IInv'
<1>0. PICK d : d = disc[t]
  OBVIOUS
<1>1. TInv /\ Accounted
  BY DEF IInv, ReadyOK
<1>2. /\ ThreadStep(t) /\ HandleTypes' /\ d \in Uses[t] /\ d \in Discs
      /\ pc[t] \in {"closelocked", "giveup", "close"} /\ pc'[t] = "idle" /\ disc'[t] = NoDisc
      /\ CloseClient(fsaFd[d]) /\ UNCHANGED initialized
      /\ fsaFd' = [fsaFd EXCEPT ![d] = NoFd]
      /\ rawFd' = IF pc[t] = "closelocked" THEN rawFd ELSE [rawFd EXCEPT ![d] = NoFd]
  BY <1>0, <1>1, ClosesEffect
<1>3. Place(d, pc[t])
  BY <1>0, <1>2, PlaceNow
<1>4. fsaFd[d] \in Fds /\ (pc[t] = "closelocked" => rawFd[d] = NoFd)
  BY <1>2, <1>3 DEF Place, Open
<1>5. OthersHandles(d) /\ Accounted' /\ Neither(d)'
  BY <1>1, <1>2, <1>4, CloseKeeps
<1>6. Place(d, "idle")'
  BY <1>5 DEF Place
<1> QED
  BY <1>0, <1>2, <1>5, <1>6, ReadyKept DEF Ready

\* The steps that change no handle.
LEMMA QuietStep ==
  ASSUME IInv, OneThreadPerDisc, Ready, NEW t \in Threads, NEW d \in Discs, d \in Uses[t],
         disc[t] \in {NoDisc, d}, disc'[t] \in {NoDisc, d}, ThreadStep(t),
         UNCHANGED <<fsaFd, rawFd, client, raw>>, initialized',
         NEW at, pc'[t] = at, at # "clear", Place(d, at)
  PROVE  IInv'
<1>1. Accounted
  BY DEF IInv, ReadyOK
<1>2. HandleTypes'
  BY DEF IInv, TInv, HandleTypes, Ready
<1>3. OthersHandles(d) /\ Accounted'
  BY <1>1, Quiet
<1>4. Place(d, at)'
  BY <1>1, Quiet DEF Place
<1> QED
  BY <1>2, <1>3, <1>4, ReadyKept

LEMMA CallStep ==
  ASSUME IInv, OneThreadPerDisc, Ready, NEW t \in Threads,
         CallStartup(t) \/ CallShutdown(t) \/ CallTransfer(t)
  PROVE  IInv'
<1>1. PICK d \in Uses[t], at \in {"initialize", "rawclose", "transfer"} :
        Call(t, d, at) /\ (at # "initialize" => IsInserted(d))
  BY DEF CallStartup, CallShutdown, CallTransfer
<1>2. pc[t] = "idle" /\ TInv /\ d \in Discs
  BY ConstantsOK DEF CallStartup, CallShutdown, CallTransfer, MayCall, IInv
<1>3. disc[t] = NoDisc
  BY <1>2 DEF TInv, ThreadOK
<1>4. /\ ThreadStep(t) /\ pc'[t] = at /\ disc'[t] = d
      /\ UNCHANGED <<initialized, fsaFd, rawFd, client, raw>>
  BY <1>1, <1>2, Calls
<1>5. Both(d) \/ Neither(d)
  <2>1. \A u \in Threads : disc[u] # d
    <3> SUFFICES ASSUME NEW u \in Threads, disc[u] = d PROVE FALSE
      OBVIOUS
    <3>1. d # NoDisc
      BY <1>2, ConstantsOK
    <3>2. d \in Uses[u] /\ u # t
      BY <1>2, <1>3, <3>1 DEF TInv, ThreadOK
    <3> QED
      BY <3>2 DEF OneThreadPerDisc
  <2> QED
    BY <1>2, <2>1 DEF IInv, ReadyOK, DiscOK, Place
<1>6. Place(d, at)
  BY <1>1, <1>5 DEF Place, IsInserted, IsSet, Neither
<1> QED
  BY <1>2, <1>3, <1>4, <1>6, QuietStep DEF Ready

LEMMA WaitStep ==
  ASSUME IInv, OneThreadPerDisc, Ready, NEW t \in Threads,
         Initialize(t) \/ ReadRawFd(t) \/ Transfer(t)
  PROVE  IInv'
<1> DEFINE d == disc[t]
<1>1. TInv /\ initialized
  BY DEF IInv, Ready
<1>2. d \in Discs /\ d \in Uses[t]
  BY <1>1 DEF TInv, ThreadTypes, ThreadOK, Initialize, ReadRawFd, Transfer
<1>3. Place(d, pc[t])
  BY <1>2, PlaceNow
<1>4. /\ ThreadStep(t) /\ disc'[t] \in {NoDisc, d}
      /\ UNCHANGED <<fsaFd, rawFd, client, raw>> /\ initialized'
  BY <1>1, InitializeEffect, ReadRawFdEffect, TransferEffect
<1>5. \/ pc[t] = "initialize" /\ pc'[t] = "open"
      \/ pc[t] = "rawopen?" /\ rawFd[d] # NoFd /\ pc'[t] = "idle"
      \/ pc[t] = "rawopen?" /\ rawFd[d] = NoFd /\ pc'[t] = "rawopen"
      \/ pc[t] = "transfer" /\ pc'[t] = "idle"
  BY <1>1, InitializeEffect, ReadRawFdEffect, TransferEffect
<1>6. PICK at \in {"open", "idle", "rawopen"} : pc'[t] = at
  BY <1>5
<1>7. Place(d, at)
  <2>1. rawFd[d] = NoFd => ~Both(d)
    BY ConstantsOK DEF Both
  <2> QED
    BY <1>3, <1>5, <1>6, <2>1 DEF Place
<1> HIDE DEF d
<1> QED
  BY <1>2, <1>4, <1>6, <1>7, QuietStep DEF d

LEMMA OpenClientStep ==
  ASSUME IInv, OneThreadPerDisc, Ready, NEW t \in Threads, OpenClient(t)
  PROVE  IInv'
<1>0. PICK d : d = disc[t]
  OBVIOUS
<1>1. TInv /\ Accounted
  BY DEF IInv, ReadyOK
<1>2. /\ ThreadStep(t) /\ HandleTypes' /\ d \in Uses[t] /\ d \in Discs
      /\ pc[t] = "open" /\ UNCHANGED <<initialized, rawFd, raw>>
      /\ disc'[t] \in {NoDisc, d}
  BY <1>0, <1>1, OpenClientEffect
<1>3. Both(d) \/ Neither(d)
  BY <1>0, <1>2, PlaceNow DEF Place
<1>4. CASE fsaFd[d] # NoFd /\ pc'[t] = "rawopen?" /\ UNCHANGED <<fsaFd, client>>
  <2>1. Place(d, "rawopen?")
    BY <1>3, <1>4 DEF Place, Neither
  <2> QED
    BY <1>0, <1>2, <1>4, <2>1, QuietStep DEF Ready
<1>5. CASE fsaFd[d] = NoFd /\ pc'[t] = "idle" /\ UNCHANGED <<fsaFd, client>>
  <2>1. Place(d, "idle")
    BY <1>3 DEF Place
  <2> QED
    BY <1>0, <1>2, <1>5, <2>1, QuietStep DEF Ready
<1>6. CASE /\ fsaFd[d] = NoFd /\ pc'[t] = "unlock"
           /\ \E f \in Fds : /\ client[f] = "closed"
                             /\ client' = [client EXCEPT ![f] = "locked"]
                             /\ fsaFd' = [fsaFd EXCEPT ![d] = f]
  <2>1. PICK f \in Fds : /\ client[f] = "closed"
                         /\ client' = [client EXCEPT ![f] = "locked"]
                         /\ fsaFd' = [fsaFd EXCEPT ![d] = f]
    BY <1>6
  <2>2. /\ fsaFd'[d] = f /\ client'[f] = "locked" /\ f # NoFd
        /\ \A e \in Discs \ {d} : fsaFd'[e] = fsaFd[e]
        /\ \A g \in Fds \ {f} : client'[g] = client[g]
        /\ UNCHANGED <<rawFd, raw>>
    BY <1>1, <1>2, <2>1, ConstantsOK DEF TInv, HandleTypes
  <2>3. \A e \in Discs : fsaFd[e] # f
    BY <1>1, <2>1 DEF Accounted
  <2>4. OthersHandles(d)
    BY <2>2, <2>3 DEF OthersHandles
  <2>5. Accounted'
    <3>1. (\A e \in Discs : fsaFd[e] \in Fds => client[fsaFd[e]] # "closed")'
      BY <1>1, <2>2, <2>3 DEF Accounted
    <3>2. (\A e1, e2 \in Discs : e1 # e2 /\ fsaFd[e1] # NoFd => fsaFd[e1] # fsaFd[e2])'
      BY <1>1, <2>2, <2>3 DEF Accounted
    <3>3. (\A g \in Fds : client[g] # "closed" => \E e \in Discs : fsaFd[e] = g)'
      <4> SUFFICES ASSUME NEW g \in Fds, client'[g] # "closed"
                   PROVE  \E e \in Discs : fsaFd'[e] = g
        OBVIOUS
      <4>1. CASE g = f
        BY <1>2, <2>2, <4>1
      <4>2. CASE g # f
        <5>1. PICK e \in Discs : fsaFd[e] = g
          BY <1>1, <2>2, <4>2 DEF Accounted
        <5>2. e # d
          BY <1>6, <5>1, ConstantsOK
        <5> QED
          BY <2>2, <5>1, <5>2
      <4> QED
        BY <4>1, <4>2
    <3>4. (\A r \in RawFds : raw[r] # Closed =>
                               \E e \in Discs : fsaFd[e] = raw[r][1] /\ rawFd[e] = r)'
      <4> SUFFICES ASSUME NEW r \in RawFds, raw[r] # Closed
                   PROVE  \E e \in Discs : fsaFd'[e] = raw[r][1] /\ rawFd[e] = r
        BY <2>2 DEF Closed
      <4>1. PICK e \in Discs : fsaFd[e] = raw[r][1] /\ rawFd[e] = r
        BY <1>1 DEF Accounted
      <4>2. e # d
        BY <1>3, <1>6, <4>1, ConstantsOK DEF Both, Open, Neither
      <4> QED
        BY <2>2, <4>1, <4>2
    <3>5. (\A e \in Discs : fsaFd[e] \in Fds \cup {NoFd} /\ rawFd[e] \in RawFds \cup {NoFd})'
      BY <1>1, <2>2 DEF Accounted
    <3> QED
      BY <3>1, <3>2, <3>3, <3>4, <3>5 DEF Accounted
  <2>6. Place(d, "unlock")'
    <3>1. rawFd[d] = NoFd
      BY <1>3, <1>6, ConstantsOK DEF Both, Open, Neither
    <3> QED
      BY <2>2, <3>1 DEF Place
  <2> QED
    BY <1>0, <1>2, <1>6, <2>4, <2>5, <2>6, ReadyKept DEF Ready
<1> QED
  BY <1>0, <1>1, <1>4, <1>5, <1>6, OpenClientEffect

LEMMA UnlockStep ==
  ASSUME IInv, OneThreadPerDisc, Ready, NEW t \in Threads, Unlock(t)
  PROVE  IInv'
<1>0. PICK d : d = disc[t]
  OBVIOUS
<1>1. TInv /\ Accounted
  BY DEF IInv, ReadyOK
<1>2. /\ ThreadStep(t) /\ HandleTypes' /\ d \in Uses[t] /\ d \in Discs
      /\ pc[t] = "unlock" /\ disc'[t] = d /\ UNCHANGED <<initialized, fsaFd, rawFd, raw>>
  BY <1>0, <1>1, UnlockEffect
<1>3. fsaFd[d] \in Fds /\ rawFd[d] = NoFd
  BY <1>0, <1>2, PlaceNow DEF Place
<1>4. CASE pc'[t] = "closelocked" /\ UNCHANGED client
  <2>1. Place(d, "closelocked")
    BY <1>3 DEF Place
  <2> QED
    BY <1>0, <1>2, <1>4, <2>1, QuietStep DEF Ready
<1>5. CASE /\ pc'[t] = "rawopen?"
           /\ client' = [f \in Fds |-> IF f = fsaFd[d] THEN "unlocked" ELSE client[f]]
  <2>1. \A e \in Discs \ {d} : fsaFd[e] # fsaFd[d]
    BY <1>1, <1>2, <1>3, ConstantsOK DEF Accounted
  <2>2. OthersHandles(d)
    BY <1>2, <1>5, <2>1 DEF OthersHandles
  <2>3. Accounted'
    BY <1>1, <1>2, <1>3, <1>5 DEF Accounted
  <2>4. Place(d, "rawopen?")'
    BY <1>2, <1>3, <1>5 DEF Place, Open
  <2> QED
    BY <1>0, <1>2, <1>5, <2>2, <2>3, <2>4, ReadyKept DEF Ready
<1> QED
  BY <1>0, <1>1, <1>4, <1>5, UnlockEffect

LEMMA RawOpenStep ==
  ASSUME IInv, OneThreadPerDisc, Ready, NEW t \in Threads, RawOpen(t)
  PROVE  IInv'
<1>0. PICK d : d = disc[t]
  OBVIOUS
<1>1. TInv /\ Accounted
  BY DEF IInv, ReadyOK
<1>2. /\ ThreadStep(t) /\ HandleTypes' /\ d \in Uses[t] /\ d \in Discs
      /\ pc[t] = "rawopen" /\ disc'[t] \in {NoDisc, d}
      /\ UNCHANGED <<initialized, fsaFd, client>>
  BY <1>0, <1>1, RawOpenEffect
<1>3. Open(d) /\ rawFd[d] = NoFd
  BY <1>0, <1>2, PlaceNow DEF Place
<1>4. ASSUME NEW at \in {"rawopen", "giveup"}, pc'[t] = at, UNCHANGED <<raw, rawFd>>
      PROVE  IInv'
  <2>1. Place(d, at)
    BY <1>3 DEF Place
  <2> QED
    BY <1>0, <1>2, <1>4, <2>1, QuietStep DEF Ready
<1>5. ASSUME pc'[t] = "idle", NEW r \in RawFds, NEW p \in Paths(d),
             raw[r] = Closed,
             raw' = [raw EXCEPT ![r] = <<fsaFd[d], p>>],
             rawFd' = [rawFd EXCEPT ![d] = r]
      PROVE  IInv'
  <2>1. /\ raw'[r] = <<fsaFd[d], p>> /\ \A s \in RawFds \ {r} : raw'[s] = raw[s]
        /\ rawFd'[d] = r /\ \A e \in Discs \ {d} : rawFd'[e] = rawFd[e]
    BY <1>1, <1>2, <1>5 DEF TInv, HandleTypes
  <2>2. OthersHandles(d)
    BY <1>2, <1>5, <2>1 DEF OthersHandles
  <2>3. Accounted'
    <3>1. (\A s \in RawFds : raw[s] # Closed =>
                               \E e \in Discs : fsaFd[e] = raw[s][1] /\ rawFd[e] = s)'
      <4> SUFFICES ASSUME NEW s \in RawFds, raw'[s] # Closed
                   PROVE  \E e \in Discs : fsaFd[e] = raw'[s][1] /\ rawFd'[e] = s
        BY <1>2 DEF Closed
      <4>1. CASE s = r
        BY <1>2, <2>1, <4>1
      <4>2. CASE s # r
        <5>1. PICK e \in Discs : fsaFd[e] = raw[s][1] /\ rawFd[e] = s
          BY <1>1, <2>1, <4>2 DEF Accounted
        <5>2. e # d
          BY <1>3, <5>1, ConstantsOK
        <5> QED
          BY <2>1, <4>2, <5>1, <5>2
      <4> QED
        BY <4>1, <4>2
    <3>2. (\A e \in Discs : fsaFd[e] \in Fds \cup {NoFd} /\ rawFd[e] \in RawFds \cup {NoFd})'
      BY <1>1, <1>2, <2>1 DEF Accounted
    <3> QED
      BY <1>1, <1>2, <3>1, <3>2 DEF Accounted
  <2>4. Both(d)'
    BY <1>2, <1>3, <2>1 DEF Both, Open
  <2>5. Place(d, "idle")'
    BY <2>4 DEF Place
  <2> QED
    BY <1>0, <1>2, <1>5, <2>2, <2>3, <2>5, ReadyKept DEF Ready
<1> QED
  BY <1>0, <1>1, <1>4, <1>5, RawOpenEffect

LEMMA RawCloseStep ==
  ASSUME IInv, OneThreadPerDisc, Ready, NEW t \in Threads, RawClose(t)
  PROVE  IInv'
<1>0. PICK d : d = disc[t]
  OBVIOUS
<1>1. TInv /\ Accounted
  BY DEF IInv, ReadyOK
<1>2. /\ ThreadStep(t) /\ HandleTypes' /\ d \in Uses[t] /\ d \in Discs
      /\ pc[t] = "rawclose" /\ pc'[t] = "close" /\ disc'[t] = d
      /\ UNCHANGED <<initialized, fsaFd, rawFd, client>>
  BY <1>0, <1>1, RawCloseEffect
<1>3. Both(d)
  BY <1>0, <1>2, PlaceNow DEF Place
<1>4. Place(d, "close") /\ fsaFd[d] # NoFd
  BY <1>3, ConstantsOK DEF Place, Both, Open
<1>5. CASE UNCHANGED raw
  BY <1>0, <1>2, <1>4, <1>5, QuietStep DEF Ready
<1>6. CASE raw' = [r \in RawFds |-> IF r = rawFd[d] THEN Closed ELSE raw[r]]
  <2>1. raw[rawFd[d]][1] = fsaFd[d] /\ \A e \in Discs \ {d} : fsaFd[e] # fsaFd[d]
    BY <1>1, <1>2, <1>3, <1>4 DEF Accounted, Both
  <2>2. OthersHandles(d)
    BY <1>2, <1>6, <2>1 DEF OthersHandles
  <2>3. Accounted'
    BY <1>1, <1>2, <1>6 DEF Accounted, Closed
  <2>4. Place(d, "close")'
    BY <1>2, <1>4 DEF Place
  <2> QED
    BY <1>0, <1>2, <2>2, <2>3, <2>4, ReadyKept DEF Ready
<1> QED
  BY <1>0, <1>1, <1>5, <1>6, RawCloseEffect
-----------------------------------------------------------------------------
(* The first startup, which the callers keep to itself.                    *)

Action(t) ==
  \/ CallStartup(t) \/ Initialize(t) \/ ClearFd(t) \/ OpenClient(t) \/ Unlock(t)
  \/ CloseLocked(t) \/ ReadRawFd(t) \/ RawOpen(t) \/ GiveUp(t)
  \/ CallShutdown(t) \/ RawClose(t) \/ Shutdown(t)
  \/ CallTransfer(t) \/ Transfer(t)

LEMMA LoadStep ==
  ASSUME IInv, TInv', FirstUseAlone, ~initialized, NEW t \in Threads, Action(t)
  PROVE  IInv'
<1>1. TInv /\ LoadOK
  BY DEF IInv
<1>2. pc[t] \in {"idle", "initialize"}
  BY <1>1 DEF LoadOK
<1>3. CASE CallStartup(t)
  <2>1. PICK d \in Uses[t] : Call(t, d, "initialize")
    BY <1>3 DEF CallStartup
  <2>2. \A u \in Threads : pc[u] = "idle"
    BY <1>3 DEF CallStartup, MayCall
  <2>3. /\ ThreadStep(t) /\ pc'[t] = "initialize"
        /\ UNCHANGED <<initialized, fsaFd, rawFd, client, raw>>
    BY <1>1, <2>1, <2>2, Calls
  <2>4. \A u \in Threads \ {t} : pc'[u] = "idle"
    BY <2>2, <2>3 DEF ThreadStep, OthersStay
  <2>5. LoadOK'
    BY <1>1, <2>3, <2>4 DEF LoadOK, NothingOpen
  <2>6. ClearOK' /\ ReadyOK'
    BY <2>3, <2>4 DEF ClearOK, ReadyOK, Ready
  <2> QED
    BY <2>5, <2>6 DEF IInv
<1>4. CASE Initialize(t)
  <2>1. /\ ThreadStep(t) /\ pc[t] = "initialize" /\ initialized'
        /\ UNCHANGED <<fsaFd, rawFd, client, raw>>
        /\ pc'[t] = "clear" /\ todo'[t] = Variables
    BY <1>1, <1>4, InitializeEffect
  <2>2. \A u \in Threads \ {t} : pc'[u] = "idle"
    BY <1>1, <2>1 DEF LoadOK, ThreadStep, OthersStay
  <2>3. \A d \in Discs : <<"fsa", d>> \in todo'[t] /\ <<"raw", d>> \in todo'[t]
    BY <2>1 DEF Variables
  <2>4. ClearOK'
    BY <1>1, <2>1, <2>2, <2>3 DEF ClearOK, LoadOK, NothingOpen
  <2>5. LoadOK' /\ ReadyOK'
    BY <2>1 DEF LoadOK, ReadyOK, Ready
  <2> QED
    BY <2>4, <2>5 DEF IInv
<1> QED
  BY <1>2, <1>3, <1>4
     DEF Action, ClearFd, OpenClient, Unlock, CloseLocked, ReadRawFd, RawOpen, GiveUp,
         CallShutdown, RawClose, Shutdown, CallTransfer, Transfer, Step, IsInserted

LEMMA ClearStep ==
  ASSUME IInv, TInv', FirstUseAlone, NEW c \in Threads, pc[c] = "clear",
         NEW t \in Threads, Action(t)
  PROVE  IInv'
<1>1. /\ TInv /\ initialized /\ NothingOpen
      /\ \A d \in Discs : /\ fsaFd[d] = IF <<"fsa", d>> \in todo[c] THEN Loaded ELSE NoFd
                          /\ rawFd[d] = IF <<"raw", d>> \in todo[c] THEN Loaded ELSE NoFd
      /\ \A u \in Threads \ {c} : pc[u] = "idle"
  BY DEF IInv, ClearOK
<1>2. ~MayCall(t)
  BY DEF MayCall
<1>3. t = c
  BY <1>1, <1>2
     DEF Action, CallStartup, Initialize, ClearFd, OpenClient, Unlock, CloseLocked,
         ReadRawFd, RawOpen, GiveUp, CallShutdown, RawClose, Shutdown, CallTransfer,
         Transfer, Step
<1>4. ClearFd(c)
  BY <1>2, <1>3
     DEF Action, CallStartup, Initialize, OpenClient, Unlock, CloseLocked,
         ReadRawFd, RawOpen, GiveUp, CallShutdown, RawClose, Shutdown, CallTransfer,
         Transfer, Step
<1>5. ThreadStep(c) /\ UNCHANGED <<initialized, client, raw>>
  BY <1>1, <1>4, ClearFdEffect
<1>6. PICK v \in todo[c] :
        /\ todo'[c] = todo[c] \ {v}
        /\ pc'[c] = IF todo'[c] = {} THEN "open" ELSE "clear"
        /\ fsaFd' = IF v[1] = "fsa" THEN [fsaFd EXCEPT ![v[2]] = NoFd] ELSE fsaFd
        /\ rawFd' = IF v[1] = "raw" THEN [rawFd EXCEPT ![v[2]] = NoFd] ELSE rawFd
  BY <1>1, <1>4, ClearFdEffect
<1>7. PICK k \in {"fsa", "raw"}, e \in Discs : v = <<k, e>>
  <2>1. v \in Variables
    BY <1>1 DEF TInv, ThreadTypes
  <2> QED
    BY <2>1 DEF Variables
<1>8. \A u \in Threads \ {c} : pc'[u] = "idle" /\ disc'[u] = NoDisc
  BY <1>1, <1>5 DEF ThreadStep, OthersStay, TInv, ThreadOK
<1>9. \A d \in Discs :
        /\ fsaFd'[d] = IF <<"fsa", d>> \in todo'[c] THEN Loaded ELSE NoFd
        /\ rawFd'[d] = IF <<"raw", d>> \in todo'[c] THEN Loaded ELSE NoFd
  <2> SUFFICES ASSUME NEW d \in Discs
               PROVE  /\ fsaFd'[d] = IF <<"fsa", d>> \in todo'[c] THEN Loaded ELSE NoFd
                      /\ rawFd'[d] = IF <<"raw", d>> \in todo'[c] THEN Loaded ELSE NoFd
    OBVIOUS
  <2>1. fsaFd'[d] = IF k = "fsa" /\ e = d THEN NoFd ELSE fsaFd[d]
    BY <1>1, <1>6, <1>7 DEF TInv, HandleTypes
  <2>2. rawFd'[d] = IF k = "raw" /\ e = d THEN NoFd ELSE rawFd[d]
    BY <1>1, <1>6, <1>7 DEF TInv, HandleTypes
  <2>3. \A j \in {"fsa", "raw"} :
          <<j, d>> \in todo'[c] <=> <<j, d>> \in todo[c] /\ ~(k = j /\ e = d)
    BY <1>6, <1>7
  <2> QED
    BY <1>1, <2>1, <2>2, <2>3
<1>10. LoadOK'
  BY <1>1, <1>5 DEF LoadOK
<1>11. ClearOK'
  BY <1>1, <1>5, <1>8, <1>9 DEF ClearOK, NothingOpen
<1>12. ReadyOK'
  <2> SUFFICES ASSUME Ready' PROVE Accounted' /\ \A d \in Discs : DiscOK(d)'
    BY DEF ReadyOK
  <2>1. todo'[c] = {} /\ pc'[c] = "open"
    BY <1>6 DEF Ready
  <2>2. \A d \in Discs : fsaFd'[d] = NoFd /\ rawFd'[d] = NoFd
    BY <1>9, <2>1
  <2>3. Accounted'
    BY <1>1, <1>5, <2>2, ConstantsOK DEF Accounted, NothingOpen
  <2>4. ASSUME NEW d \in Discs PROVE DiscOK(d)'
    <3>1. \A u \in Threads : disc'[u] = d => pc'[u] \in {"idle", "open"}
      BY <1>8, <2>1
    <3> QED
      BY <2>2, <3>1 DEF DiscOK, Place, Neither
  <2> QED
    BY <2>3, <2>4
<1> QED
  BY <1>10, <1>11, <1>12 DEF IInv
-----------------------------------------------------------------------------
(* Theorems.                                                               *)

LEMMA Invariance ==
  ASSUME FirstUseAlone, OneThreadPerDisc
  PROVE  Spec => []IInv
<1>1. Init => IInv
  <2> SUFFICES ASSUME Init PROVE IInv
    OBVIOUS
  <2>1. TInv
    BY InitTyped
  <2>2. LoadOK
    BY DEF Init, LoadOK, NothingOpen
  <2>3. ClearOK /\ ReadyOK
    BY DEF Init, ClearOK, ReadyOK, Ready
  <2> QED
    BY <2>1, <2>2, <2>3 DEF IInv
<1>2. IInv /\ [Next]_vars => IInv'
  <2> SUFFICES ASSUME IInv, [Next]_vars PROVE IInv'
    OBVIOUS
  <2>1. TInv'
    BY TypeStep DEF IInv
  <2>2. ASSUME NEW t \in Threads, Action(t) PROVE IInv'
    <3>1. CASE ~initialized
      BY <2>1, <2>2, <3>1, LoadStep
    <3>2. CASE \E c \in Threads : pc[c] = "clear"
      BY <2>1, <2>2, <3>2, ClearStep
    <3>3. CASE Ready
      <4>1. ~ClearFd(t)
        BY <3>3 DEF Ready, ClearFd
      <4> QED
        BY <2>2, <3>3, <4>1, CallStep, WaitStep, OpenClientStep, UnlockStep, ClosesStep,
           RawOpenStep, RawCloseStep DEF Action, Closes
    <3> QED
      BY <3>1, <3>2, <3>3 DEF Ready
  <2>3. CASE UNCHANGED vars
    BY <2>1, <2>3
       DEF IInv, LoadOK, ClearOK, ReadyOK, Ready, NothingOpen, Accounted, DiscOK, Place,
           Both, Neither, Open
  <2> QED
    BY <2>2, <2>3 DEF Next, Action
<1> QED
  BY <1>1, <1>2, PTL DEF Spec

\* The variables of disc_interface.c, and what IOSU has open for them, stay in
\* their ranges, whatever threads call for whatever discs.
THEOREM TypeCorrect == Spec => []TypeOK
BY TypeInvariance, TypeFollows, PTL

\* readSectors, writeSectors and FSAEx_RawCloseEx are given an open raw handle of
\* their disc, for callers with one thread per disc that keep the first startup
\* to itself.
THEOREM TransfersReachTheirDevice ==
  ASSUME FirstUseAlone, OneThreadPerDisc
  PROVE  Spec => []IoReachesOwnDevice
<1>1. IInv => IoReachesOwnDevice
  <2> SUFFICES ASSUME IInv, NEW t \in Threads, pc[t] \in {"rawclose", "transfer"}
               PROVE  LET d == disc[t] IN
                      /\ fsaFd[d] \in Fds /\ client[fsaFd[d]] = "unlocked"
                      /\ rawFd[d] \in RawFds
                      /\ raw[rawFd[d]][1] = fsaFd[d] /\ raw[rawFd[d]][2] \in Paths(d)
    BY DEF IoReachesOwnDevice
  <2>1. disc[t] \in Discs
    BY DEF IInv, TInv, ThreadTypes, ThreadOK
  <2>2. Ready
    BY DEF IInv, LoadOK, ClearOK, Ready
  <2>3. Both(disc[t])
    BY <2>1, <2>2, PlaceNow DEF Place
  <2> QED
    BY <2>3 DEF Both, Open
<1> QED
  BY <1>1, Invariance, PTL

\* Between calls a disc has both handles or neither, and IOSU has no other one
\* open, whichever steps of the startups and shutdowns failed, for the same callers.
THEOREM HandlesStayBalanced ==
  ASSUME FirstUseAlone, OneThreadPerDisc
  PROVE  Spec => []HandlesBalanced
<1>1. IInv => HandlesBalanced
  <2> SUFFICES ASSUME IInv, initialized, \A t \in Threads : pc[t] = "idle"
               PROVE  /\ \A d \in Discs : IsSet(fsaFd[d]) <=> IsSet(rawFd[d])
                      /\ {f \in Fds : client[f] # "closed"} = {fsaFd[d] : d \in Discs} \ {NoFd}
                      /\ {r \in RawFds : raw[r] # Closed} = {rawFd[d] : d \in Discs} \ {NoFd}
    BY DEF HandlesBalanced
  <2>1. Accounted /\ \A d \in Discs : DiscOK(d)
    BY DEF IInv, ReadyOK, Ready
  <2>2. \A d \in Discs : Both(d) \/ Neither(d)
    BY <2>1 DEF DiscOK, Place
  <2>3. \A d \in Discs : IsSet(fsaFd[d]) <=> IsSet(rawFd[d])
    BY <2>2, ConstantsOK DEF IsSet, Both, Open, Neither
  <2>4. {f \in Fds : client[f] # "closed"} = {fsaFd[d] : d \in Discs} \ {NoFd}
    BY <2>1, ConstantsOK DEF Accounted
  <2>5. \A d \in Discs : rawFd[d] # NoFd => rawFd[d] \in RawFds /\ raw[rawFd[d]] # Closed
    <3> SUFFICES ASSUME NEW d \in Discs, rawFd[d] # NoFd
                 PROVE  rawFd[d] \in RawFds /\ raw[rawFd[d]] # Closed
      OBVIOUS
    <3>1. Both(d)
      BY <2>2 DEF Neither
    <3>2. raw[rawFd[d]][1] = fsaFd[d] /\ fsaFd[d] # NoFd /\ Closed[1] = NoFd
      BY <3>1, ConstantsOK DEF Both, Open, Closed
    <3> QED
      BY <3>1, <3>2 DEF Both
  <2>6. {r \in RawFds : raw[r] # Closed} = {rawFd[d] : d \in Discs} \ {NoFd}
    BY <2>1, <2>5, ConstantsOK DEF Accounted
  <2> QED
    BY <2>3, <2>4, <2>6
<1> QED
  BY <1>1, Invariance, PTL
=============================================================================
