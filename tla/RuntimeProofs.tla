--------------------------- MODULE RuntimeProofs ----------------------------
(***************************************************************************)
(* BaseInv holds whatever the host does: no worker outlives its store and  *)
(* no lock outlives the store that took it.  If the host ends the plugin   *)
(* only when no call is in flight there is RuntimeInv on top: one store is *)
(* open at a time, with its lock or without, and it is what its directory  *)
(* says.  So updates survive every later registration, shutdown and crash, *)
(* and each directory implements the store of AtomicStore.                 *)
(***************************************************************************)
EXTENDS Runtime, TLAPS

CallType  == [pc : {"idle", "register", "use", "fetched"},
              runtime : Runtimes \cup {None}, store : Stores \cup {None}]
StoreType == [dir : Dirs \cup {Memory}, snapshot : SUBSET Updates, open : BOOLEAN]

TypeOK ==
  /\ disk \in [Dirs -> SUBSET Updates]
  /\ access \in [Dirs -> {"none", "read", "write"}]
  /\ file \in [Dirs -> {"none", "fresh", "settled"}]
  /\ lock \in [Dirs -> Stores \cup {None}]
  /\ current \in Runtimes
  /\ ready \in [Runtimes -> Stores \cup {None}]
  /\ life \in {"idle", "init", "shutdown"}
  /\ store \in [Stores -> StoreType]
  /\ job \in [Stores -> {"stopped", "idle", "busy"}]
  /\ call \in [Calls -> CallType]
  /\ used \subseteq Updates
  /\ acked \in [Dirs -> SUBSET Updates]

\* A call in flight has a runtime, and one that fetched its services a store.
Fetched ==
  \A c \in Calls : /\ call[c].pc # "idle" => call[c].runtime # None
                   /\ call[c].pc = "fetched" => call[c].store # None

\* A lock that is taken is taken by an open store of that directory: neither a
\* shutdown nor a crash leaks it.
LocksAreHeld == \A d \in Dirs : lock[d] # None => store[lock[d]].open /\ store[lock[d]].dir = d

BaseInv == TypeOK /\ Fetched /\ LocksAreHeld /\ WorkersStop

-----------------------------------------------------------------------------
(* What holds whatever the host does.                                      *)

\* The store that is opened: a free one, in a directory with what is in it.
LEMMA Opened ==
  ASSUME BaseInv, NEW r, OpenFor(r)
  PROVE  \E s \in FreeStores, d \in Dirs \cup {Memory}, f \in SUBSET Updates :
           /\ ready' = [ready EXCEPT ![r] = s]
           /\ job' = [job EXCEPT ![s] = "idle"]
           /\ store' = [store EXCEPT ![s] = [dir |-> d, snapshot |-> f, open |-> TRUE]]
           /\ file' \in [Dirs -> {"none", "fresh", "settled"}]
           /\ lock' = lock \/ (d \in Dirs /\ lock[d] = None /\ lock' = [lock EXCEPT ![d] = s])
           /\ d # Memory => f = disk[d]
<1> USE RuntimeAssumption
<1> DEFINE Opens(s, d, f) ==
             store' = [store EXCEPT ![s] = [dir |-> d, snapshot |-> f, open |-> TRUE]]
           s == CHOOSE s \in FreeStores : TRUE
<1>1. s \in FreeStores
  BY DEF OpenFor
<1>2. /\ ready' = [ready EXCEPT ![r] = s]
      /\ job' = [job EXCEPT ![s] = "idle"]
      /\ \/ Opens(s, Memory, {}) /\ UNCHANGED <<lock, file>>
         \/ \E d \in Dirs : /\ Opens(s, d, disk[d])
                            /\ file' = [file EXCEPT ![d] = "settled"]
                            /\ \/ lock[d] = None /\ lock' = [lock EXCEPT ![d] = s]
                               \/ UNCHANGED lock
  BY Zenon DEF OpenFor, OpenMemory, OpenDir
<1> HIDE DEF s, Opens
<1>3. \A d \in Dirs : disk[d] \in SUBSET Updates /\ d # Memory
  BY DEF BaseInv, TypeOK
<1>4. \E d \in Dirs \cup {Memory}, f \in SUBSET Updates :
        /\ Opens(s, d, f)
        /\ file' \in [Dirs -> {"none", "fresh", "settled"}]
        /\ lock' = lock \/ (d \in Dirs /\ lock[d] = None /\ lock' = [lock EXCEPT ![d] = s])
        /\ d # Memory => f = disk[d]
  <2>1. CASE Opens(s, Memory, {}) /\ UNCHANGED <<lock, file>>
    BY <2>1 DEF BaseInv, TypeOK
  <2>2. ASSUME NEW d \in Dirs, Opens(s, d, disk[d]), file' = [file EXCEPT ![d] = "settled"],
               (lock[d] = None /\ lock' = [lock EXCEPT ![d] = s]) \/ UNCHANGED lock
        PROVE  /\ Opens(s, d, disk[d])
               /\ file' \in [Dirs -> {"none", "fresh", "settled"}]
               /\ lock' = lock \/ (d \in Dirs /\ lock[d] = None /\ lock' = [lock EXCEPT ![d] = s])
    BY <2>2 DEF BaseInv, TypeOK
  <2> QED BY <1>2, <1>3, <2>1, <2>2
<1> QED BY <1>1, <1>2, <1>4 DEF Opens

\* Registering leaves a state file of some kind in each directory, or none.
LEMMA Registered ==
  ASSUME BaseInv, NEW c, Register(c)
  PROVE  file' \in [Dirs -> {"none", "fresh", "settled"}]
<1>1. CASE OpenFor(call[c].runtime)
  BY <1>1, Opened
<1>2. CASE OpenFails
  BY <1>2 DEF OpenFails, BaseInv, TypeOK
<1>3. CASE UNCHANGED file
  BY <1>3 DEF BaseInv, TypeOK
<1> QED BY <1>1, <1>2, <1>3 DEF Register

\* Opening a store: it was closed and had no lock, and it has a worker now.
LEMMA OpenKeepsBase ==
  ASSUME BaseInv, NEW r, OpenFor(r), NEW c \in Calls, call' = [call EXCEPT ![c] = IdleCall],
         UNCHANGED <<disk, access, current, life, used, acked>>
  PROVE  BaseInv'
<1> USE RuntimeAssumption DEF dirVars
<1>1. PICK s \in FreeStores, d \in Dirs \cup {Memory}, f \in SUBSET Updates :
        /\ ready' = [ready EXCEPT ![r] = s]
        /\ job' = [job EXCEPT ![s] = "idle"]
        /\ store' = [store EXCEPT ![s] = [dir |-> d, snapshot |-> f, open |-> TRUE]]
        /\ file' \in [Dirs -> {"none", "fresh", "settled"}]
        /\ lock' = lock \/ (d \in Dirs /\ lock[d] = None /\ lock' = [lock EXCEPT ![d] = s])
        /\ d # Memory => f = disk[d]
  BY Opened
<1>2. s \in Stores /\ s # None /\ ~store[s].open /\ \A e \in Dirs : lock[e] # s
  BY DEF FreeStores
<1>3. store' \in [Stores -> StoreType] /\ store'[s] = [dir |-> d, snapshot |-> f, open |-> TRUE]
      /\ \A t \in Stores \ {s} : store'[t] = store[t]
  BY <1>1, <1>2 DEF BaseInv, TypeOK, StoreType
<1>4. lock' \in [Dirs -> Stores \cup {None}] /\ \A e \in Dirs : lock'[e] = lock[e] \/ (lock'[e] = s /\ e = d)
  BY <1>1, <1>2 DEF BaseInv, TypeOK
<1>5. ready' \in [Runtimes -> Stores \cup {None}] /\ job' \in [Stores -> {"stopped", "idle", "busy"}]
      /\ \A t \in Stores \ {s} : job'[t] = job[t]
  BY <1>1, <1>2 DEF BaseInv, TypeOK
<1>6. call' \in [Calls -> CallType] /\ Fetched'
  BY DEF BaseInv, TypeOK, CallType, Fetched, IdleCall
<1>7. LocksAreHeld'
  BY <1>2, <1>3, <1>4 DEF BaseInv, TypeOK, LocksAreHeld
<1>8. WorkersStop'
  BY <1>3, <1>5 DEF BaseInv, WorkersStop
<1> QED BY <1>1, <1>3, <1>4, <1>5, <1>6, <1>7, <1>8 DEF BaseInv, TypeOK

\* An update of a store, open or closed, opens and closes nothing.
LEMMA SaveKeepsBase ==
  ASSUME BaseInv, NEW s \in Stores, NEW u \in Updates, SaveUpdate(s, u)
  PROVE  /\ disk' \in [Dirs -> SUBSET Updates]
         /\ UNCHANGED <<dirVars, lock>>
         /\ store' \in [Stores -> StoreType]
         /\ used' \subseteq Updates
         /\ acked' \in [Dirs -> SUBSET Updates]
         /\ \A t \in Stores : store'[t].open = store[t].open /\ store'[t].dir = store[t].dir
<1> DEFINE d == store[s].dir
<1> USE DEF dirVars
<1>1. d \in Dirs \cup {Memory} /\ store[s].snapshot \in SUBSET Updates
  BY DEF BaseInv, TypeOK, StoreType
<1>2. UNCHANGED <<dirVars, lock>> /\ used' \subseteq Updates
  BY DEF SaveUpdate, BaseInv, TypeOK
<1>3. CASE UNCHANGED <<store, disk, acked>>
  BY <1>2, <1>3 DEF BaseInv, TypeOK
<1>4. ASSUME store' = [store EXCEPT ![s].snapshot = @ \cup {u}]
      PROVE  /\ store' \in [Stores -> StoreType]
             /\ \A t \in Stores : store'[t].open = store[t].open /\ store'[t].dir = store[t].dir
  BY <1>1, <1>4 DEF BaseInv, TypeOK, StoreType
<1>5. CASE store' = [store EXCEPT ![s].snapshot = @ \cup {u}] /\ UNCHANGED <<disk, acked>>
  BY <1>2, <1>4, <1>5 DEF BaseInv, TypeOK
<1>6. CASE /\ d \in Dirs /\ access[d] = "write"
           /\ store' = [store EXCEPT ![s].snapshot = @ \cup {u}]
           /\ disk' = [disk EXCEPT ![d] = store[s].snapshot \cup {u}]
           /\ acked' = [acked EXCEPT ![d] = @ \cup {u}]
  <2>1. disk' \in [Dirs -> SUBSET Updates] /\ acked' \in [Dirs -> SUBSET Updates]
    BY <1>1, <1>6 DEF BaseInv, TypeOK
  <2> QED BY <1>2, <1>4, <1>6, <2>1
<1> QED BY <1>3, <1>5, <1>6 DEF SaveUpdate, Refused

\* The end of a shutdown closes the store of the current runtime with its lock.
LEMMA EndStopKeepsBase ==
  ASSUME BaseInv, EndStop
  PROVE  BaseInv'
<1> USE RuntimeAssumption DEF BaseInv, dirVars
<1> DEFINE s == ready[current]
<1>1. current' \in Runtimes /\ life' = "idle" /\ UNCHANGED <<disk, dirVars, call, used, acked>>
  BY DEF EndStop, NextRuntime, FreeRuntimes, TypeOK
<1>2. CASE s = None
  <2>1. UNCHANGED <<store, lock, job, ready>>
    BY <1>2 DEF EndStop
  <2> QED BY <1>1, <2>1 DEF TypeOK, Fetched, LocksAreHeld, WorkersStop
<1>3. CASE s # None
  <2>1. s \in Stores /\ job' = [job EXCEPT ![s] = "stopped"] /\ CloseStore(s)
        /\ ready' = [ready EXCEPT ![current] = None]
    BY <1>3 DEF EndStop, TypeOK
  <2>2. /\ store' \in [Stores -> StoreType]
        /\ \A t \in Stores : store'[t].dir = store[t].dir /\ (t # s => store'[t].open = store[t].open)
    <3>1. store' = [store EXCEPT ![s] = [store[s] EXCEPT !.open = FALSE]]
      BY <2>1 DEF CloseStore
    <3>2. store[s] \in StoreType
      BY <2>1 DEF TypeOK
    <3>3. [store[s] EXCEPT !.open = FALSE] \in StoreType /\ [store[s] EXCEPT !.open = FALSE].dir = store[s].dir
      BY <3>2 DEF StoreType
    <3> QED BY <2>1, <3>1, <3>3 DEF TypeOK
  <2>3. lock' \in [Dirs -> Stores \cup {None}]
        /\ \A d \in Dirs : lock'[d] # None => lock'[d] = lock[d] /\ lock[d] # s
    BY <2>1 DEF CloseStore, TypeOK
  <2>4. job' \in [Stores -> {"stopped", "idle", "busy"}] /\ job'[s] = "stopped"
        /\ \A t \in Stores \ {s} : job'[t] = job[t]
    BY <2>1 DEF TypeOK
  <2>5. ready' \in [Runtimes -> Stores \cup {None}]
    BY <2>1 DEF TypeOK
  <2>6. LocksAreHeld'
    BY <2>2, <2>3 DEF TypeOK, LocksAreHeld
  <2>7. WorkersStop'
    BY <2>2, <2>4 DEF WorkersStop
  <2> QED BY <1>1, <2>2, <2>3, <2>4, <2>5, <2>6, <2>7 DEF TypeOK, Fetched
<1> QED BY <1>2, <1>3

\* Every step, with calls in flight or not.
LEMMA BaseStep == ASSUME BaseInv, [Next]_vars PROVE BaseInv'
<1> USE RuntimeAssumption DEF dirVars
<1>1. ASSUME NEW c \in Calls, NEW pc \in {"register", "use"}, Enter(c, pc) PROVE BaseInv'
  BY <1>1 DEF Enter, BaseInv, TypeOK, CallType, Fetched, LocksAreHeld, WorkersStop
<1>2. ASSUME NEW c \in Calls, Register(c) PROVE BaseInv'
  <2>1. call' = [call EXCEPT ![c] = IdleCall] /\ UNCHANGED <<disk, access, current, life, used, acked>>
    BY <1>2 DEF Register
  <2>2. CASE OpenFor(call[c].runtime)
    BY <2>1, <2>2, OpenKeepsBase
  <2>3. CASE UNCHANGED <<store, lock, ready, job>>
    <3>1. file' \in [Dirs -> {"none", "fresh", "settled"}]
      BY <1>2, Registered DEF BaseInv, TypeOK
    <3> QED BY <2>1, <2>3, <3>1 DEF BaseInv, TypeOK, CallType, IdleCall, Fetched, LocksAreHeld, WorkersStop
  <2> QED BY <1>2, <2>2, <2>3 DEF Register, OpenFails
<1>3. ASSUME NEW c \in Calls, Fetch(c) PROVE BaseInv'
  <2> DEFINE s == ready[call[c].runtime]
             new == [pc |-> "fetched", runtime |-> call[c].runtime, store |-> s]
  <2>1. call[c] \in CallType /\ call[c].runtime \in Runtimes
    BY <1>3 DEF Fetch, BaseInv, TypeOK, CallType, Fetched
  <2>2. call' \in [Calls -> CallType] /\ Fetched'
    <3>1. CASE s = None
      <4>1. call' = [call EXCEPT ![c] = IdleCall]
        BY <1>3, <3>1 DEF Fetch
      <4> QED BY <4>1 DEF BaseInv, TypeOK, CallType, Fetched, IdleCall
    <3>2. CASE s # None
      <4>1. call' = [call EXCEPT ![c] = new]
        BY <1>3, <3>2 DEF Fetch, BaseInv, TypeOK
      <4>3. s \in Stores
        BY <2>1, <3>2 DEF BaseInv, TypeOK
      <4>2. new \in CallType /\ new.pc = "fetched" /\ new.runtime # None /\ new.store # None
        BY <1>3, <2>1, <3>2, <4>3 DEF CallType
      <4> HIDE DEF new
      <4> QED BY <4>1, <4>2 DEF BaseInv, TypeOK, Fetched
    <3> QED BY <3>1, <3>2
  <2> QED BY <1>3, <2>2 DEF Fetch, BaseInv, TypeOK, LocksAreHeld, WorkersStop
<1>4. ASSUME NEW c \in Calls, Read(c) PROVE BaseInv'
  BY <1>4 DEF Read, BaseInv, TypeOK, CallType, IdleCall, Fetched, LocksAreHeld, WorkersStop
<1>5. ASSUME NEW c \in Calls, NEW u \in Updates, Handle(c, u) PROVE BaseInv'
  <2>1. call[c].store \in Stores
    BY <1>5 DEF Handle, BaseInv, TypeOK, CallType, Fetched
  <2>2. SaveUpdate(call[c].store, u) /\ call' = [call EXCEPT ![c] = IdleCall]
        /\ UNCHANGED <<current, ready, life, job>>
    BY <1>5 DEF Handle
  <2>3. call' \in [Calls -> CallType] /\ Fetched'
    BY <2>2 DEF BaseInv, TypeOK, CallType, Fetched, IdleCall
  <2> QED BY <2>1, <2>2, <2>3, SaveKeepsBase DEF BaseInv, TypeOK, LocksAreHeld, WorkersStop
<1>6. ASSUME NEW s \in Stores, StartJob(s) PROVE BaseInv'
  BY <1>6 DEF StartJob, BaseInv, TypeOK, Fetched, LocksAreHeld, WorkersStop
<1>7. ASSUME NEW s \in Stores, EndJob(s) PROVE BaseInv'
  <2>1. job[s] = "busy" /\ job' = [job EXCEPT ![s] = "idle"] /\ UNCHANGED <<current, ready, life, call>>
    BY <1>7 DEF EndJob
  <2>2. CASE UNCHANGED <<disk, dirVars, lock, store, used, acked>>
    BY <2>1, <2>2 DEF BaseInv, TypeOK, Fetched, LocksAreHeld, WorkersStop
  <2>3. ASSUME NEW u \in Updates, SaveUpdate(s, u) PROVE BaseInv'
    <3>1. /\ TypeOK'
          /\ lock' = lock
          /\ \A t \in Stores : store'[t].open = store[t].open /\ store'[t].dir = store[t].dir
      BY <2>1, <2>3, SaveKeepsBase DEF BaseInv, TypeOK
    <3>2. Fetched' /\ LocksAreHeld'
      BY <2>1, <3>1 DEF BaseInv, TypeOK, Fetched, LocksAreHeld
    <3>3. WorkersStop'
      BY <2>1, <3>1 DEF BaseInv, TypeOK, WorkersStop
    <3> QED BY <3>1, <3>2, <3>3 DEF BaseInv
  <2> QED BY <1>7, <2>2, <2>3 DEF EndJob
<1>8. ASSUME NEW kind \in {"init", "shutdown"}, BeginStop(kind) PROVE BaseInv'
  BY <1>8 DEF BeginStop, BaseInv, TypeOK, Fetched, LocksAreHeld, WorkersStop
<1>9. CASE EndStop
  BY <1>9, EndStopKeepsBase
<1>10. CASE Crash
  BY <1>10 DEF Crash, BaseInv, TypeOK, StoreType, CallType, NoStore, IdleCall, Fetched,
               LocksAreHeld, WorkersStop
<1>11. ASSUME NEW d \in Dirs, ChangeAccess(d) PROVE BaseInv'
  BY <1>11 DEF ChangeAccess, BaseInv, TypeOK, Fetched, LocksAreHeld, WorkersStop
<1>12. CASE UNCHANGED vars
  BY <1>12 DEF vars, BaseInv, TypeOK, Fetched, LocksAreHeld, WorkersStop
<1> QED
  BY <1>1, <1>2, <1>3, <1>4, <1>5, <1>6, <1>7, <1>8, <1>9, <1>10, <1>11, <1>12 DEF Next, CallStep

\* BaseInv is an invariant of every behaviour.
LEMMA BaseInvariant == Spec => []BaseInv
<1>1. Init => BaseInv
  BY RuntimeAssumption DEF Init, BaseInv, TypeOK, StoreType, CallType, Fetched, LocksAreHeld,
     WorkersStop, NoStore, IdleCall
<1>2. BaseInv /\ [Next]_vars => BaseInv'
  BY BaseStep
<1> QED BY <1>1, <1>2, PTL DEF Spec

-----------------------------------------------------------------------------
(* What holds if the host drains its calls first.                          *)

\* Only the current runtime is ready, and its store is the only open one.
OneStore ==
  /\ \A r \in Runtimes : ready[r] # None => r = current /\ store[ready[r]].open
  /\ \A s \in Stores : store[s].open => ready[current] = s

\* An open store is what its directory says, whether it can write it or not.
StoreIsDisk ==
  \A s \in Stores : store[s].open /\ store[s].dir # Memory => store[s].snapshot = disk[store[s].dir]

\* Calls in flight work for the current runtime and its store.
CallsInv ==
  \A c \in Calls : call[c].pc # "idle" =>
    /\ life = "idle"
    /\ call[c].runtime = current
    /\ call[c].pc = "fetched" => call[c].store = ready[current]

\* What is acknowledged is in a directory, and what is in one was tried.
DiskInv == AckedSurvives /\ \A d \in Dirs : disk[d] \subseteq used

RuntimeInv == BaseInv /\ OneStore /\ StoreIsDisk /\ CallsInv /\ DiskInv

\* What an update of an open store does to each directory: it is added to that
\* of the store or to none.
LEMMA SaveInDirectory ==
  ASSUME RuntimeInv, NEW s \in Stores, store[s].open, NEW u \in Updates, SaveUpdate(s, u)
  PROVE  /\ u \notin used /\ used' = used \cup {u}
         /\ \A d \in Dirs : \/ /\ disk'[d] = disk[d] \cup {u} /\ acked'[d] = acked[d] \cup {u}
                               /\ store[s].dir = d /\ store'[s].snapshot = disk'[d]
                            \/ /\ disk'[d] = disk[d] /\ acked'[d] = acked[d]
                               /\ store[s].dir = d => store'[s].snapshot = store[s].snapshot
<1> USE RuntimeAssumption DEF RuntimeInv
<1> DEFINE e == store[s].dir
<1>1. u \notin used /\ used' = used \cup {u}
  BY DEF SaveUpdate
<1>2. CASE UNCHANGED <<store, disk, acked>>
  BY <1>1, <1>2
<1>3. CASE e = Memory /\ UNCHANGED <<disk, acked>>
  BY <1>1, <1>3
<1>4. CASE /\ e \in Dirs /\ access[e] = "write"
           /\ store' = [store EXCEPT ![s].snapshot = @ \cup {u}]
           /\ disk' = [disk EXCEPT ![e] = store[s].snapshot \cup {u}]
           /\ acked' = [acked EXCEPT ![e] = @ \cup {u}]
  <2>1. e \in Dirs /\ e # Memory
    BY <1>4 DEF BaseInv, TypeOK
  <2>2. store[s].snapshot = disk[e]
    BY <2>1 DEF StoreIsDisk
  <2>3. store'[s].snapshot = disk[e] \cup {u}
    BY <1>4, <2>2 DEF BaseInv, TypeOK, StoreType
  <2> QED BY <1>1, <1>4, <2>1, <2>2, <2>3 DEF BaseInv, TypeOK
<1> QED BY <1>2, <1>3, <1>4 DEF SaveUpdate, Refused

\* An update of an open store keeps everything that is said about stores.
LEMMA SaveKeeps ==
  ASSUME RuntimeInv, NEW s \in Stores, store[s].open, NEW u \in Updates, SaveUpdate(s, u),
         UNCHANGED <<current, ready>>
  PROVE  OneStore' /\ StoreIsDisk' /\ DiskInv'
<1> USE DEF RuntimeInv
<1>1. \A t \in Stores : store'[t].open = store[t].open /\ store'[t].dir = store[t].dir
  BY SaveKeepsBase
<1>2. OneStore'
  BY <1>1 DEF OneStore, BaseInv, TypeOK
<1>3. DiskInv'
  BY SaveInDirectory DEF DiskInv, AckedSurvives
<1>4. StoreIsDisk'
  <2> SUFFICES ASSUME NEW t \in Stores, store'[t].open, store'[t].dir # Memory
               PROVE  store'[t].snapshot = disk'[store'[t].dir]
    BY DEF StoreIsDisk
  <2>1. t = s
    BY <1>1 DEF OneStore
  <2>2. store[s].dir \in Dirs /\ store[s].dir # Memory
    BY <1>1, <2>1 DEF BaseInv, TypeOK, StoreType
  <2>3. store[s].snapshot = disk[store[s].dir]
    BY <2>2 DEF StoreIsDisk
  <2>4. store'[s].snapshot = disk'[store[s].dir]
    BY <2>2, <2>3, SaveInDirectory
  <2> QED BY <1>1, <2>1, <2>4
<1> QED BY <1>2, <1>3, <1>4

\* Opening a store: it becomes the only open one.
LEMMA OpenKeeps ==
  ASSUME RuntimeInv, ready[current] = None, OpenFor(current), life = "idle",
         NEW c \in Calls, call' = [call EXCEPT ![c] = IdleCall],
         UNCHANGED <<disk, access, current, life, used, acked>>
  PROVE  RuntimeInv'
<1> USE RuntimeAssumption DEF RuntimeInv
<1>1. PICK s \in FreeStores, d \in Dirs \cup {Memory}, f \in SUBSET Updates :
        /\ ready' = [ready EXCEPT ![current] = s]
        /\ job' = [job EXCEPT ![s] = "idle"]
        /\ store' = [store EXCEPT ![s] = [dir |-> d, snapshot |-> f, open |-> TRUE]]
        /\ file' \in [Dirs -> {"none", "fresh", "settled"}]
        /\ lock' = lock \/ (d \in Dirs /\ lock[d] = None /\ lock' = [lock EXCEPT ![d] = s])
        /\ d # Memory => f = disk[d]
  BY Opened
<1>2. s \in Stores /\ s # None /\ current \in Runtimes
  BY DEF FreeStores, BaseInv, TypeOK
<1>3. \A t \in Stores : ~store[t].open
  BY <1>2 DEF OneStore
<1>4. store'[s] = [dir |-> d, snapshot |-> f, open |-> TRUE]
      /\ \A t \in Stores \ {s} : store'[t] = store[t]
  BY <1>1, <1>2 DEF BaseInv, TypeOK
<1>5. ready'[current] = s /\ \A r \in Runtimes \ {current} : ready'[r] = None
  BY <1>1, <1>2 DEF BaseInv, TypeOK, OneStore
<1>6. OneStore'
  BY <1>2, <1>3, <1>4, <1>5 DEF OneStore
<1>7. StoreIsDisk'
  <2>1. d # Memory => f = disk'[d]
    BY <1>1
  <2> QED BY <1>3, <1>4, <2>1 DEF StoreIsDisk
<1>8. CallsInv'
  BY <1>5 DEF BaseInv, TypeOK, Fetched, CallsInv, IdleCall
<1>9. DiskInv'
  BY DEF DiskInv, AckedSurvives
<1>10. BaseInv'
  BY OpenKeepsBase
<1> QED BY <1>6, <1>7, <1>8, <1>9, <1>10

\* The end of a shutdown: no call is in flight, the only open store is closed.
LEMMA EndStopKeeps ==
  ASSUME RuntimeInv, EndStop
  PROVE  RuntimeInv'
<1> USE RuntimeAssumption DEF RuntimeInv
<1> DEFINE s == ready[current]
<1>1. CallsInv' /\ DiskInv'
  BY DEF EndStop, CallsInv, DiskInv, AckedSurvives
<1>2. (\A t \in Stores : ~store'[t].open) /\ (\A r \in Runtimes : ready'[r] = None)
  <2>1. CASE s = None
    BY <2>1 DEF EndStop, OneStore, BaseInv, TypeOK
  <2>2. CASE s # None
    <3>1. s \in Stores /\ CloseStore(s) /\ ready' = [ready EXCEPT ![current] = None]
      BY <2>2 DEF EndStop, BaseInv, TypeOK
    <3>2. \A t \in Stores : t # s => ~store[t].open
      BY DEF OneStore
    <3>3. ~store'[s].open /\ \A t \in Stores \ {s} : store'[t] = store[t]
      BY <3>1 DEF CloseStore, BaseInv, TypeOK, StoreType
    <3> QED BY <3>1, <3>2, <3>3 DEF OneStore, BaseInv, TypeOK
  <2> QED BY <2>1, <2>2
<1>3. OneStore' /\ StoreIsDisk'
  BY <1>2 DEF OneStore, StoreIsDisk
<1> QED BY <1>1, <1>3, EndStopKeepsBase

\* Every step.
LEMMA RuntimeStep == ASSUME HostDrains, RuntimeInv, [Next]_vars PROVE RuntimeInv'
<1> USE RuntimeAssumption DEF RuntimeInv, dirVars
<1>1. BaseInv'
  BY BaseStep
<1>2. ASSUME NEW c \in Calls, NEW pc \in {"register", "use"}, Enter(c, pc) PROVE RuntimeInv'
  BY <1>1, <1>2 DEF Enter, BaseInv, TypeOK, OneStore, StoreIsDisk, CallsInv, DiskInv, AckedSurvives
<1>3. ASSUME NEW c \in Calls, Register(c) PROVE RuntimeInv'
  <2>1. call[c].runtime = current /\ life = "idle" /\ call' = [call EXCEPT ![c] = IdleCall]
        /\ UNCHANGED <<disk, access, current, life, used, acked>>
    BY <1>3 DEF Register, CallsInv
  <2>2. CASE ready[current] = None /\ OpenFor(current)
    BY <2>1, <2>2, OpenKeeps
  <2>3. CASE UNCHANGED <<store, lock, ready, job>>
    <3>1. CallsInv'
      BY <2>1, <2>3 DEF BaseInv, TypeOK, CallsInv, IdleCall
    <3> QED BY <1>1, <2>1, <2>3, <3>1 DEF OneStore, StoreIsDisk, DiskInv, AckedSurvives
  <2> QED BY <1>3, <2>1, <2>2, <2>3 DEF Register, OpenFails
<1>4. ASSUME NEW c \in Calls, Fetch(c) PROVE RuntimeInv'
  <2>1. call[c].runtime = current /\ life = "idle"
    BY <1>4 DEF Fetch, CallsInv
  <2>2. CallsInv'
    <3>1. UNCHANGED <<current, ready, life>>
      BY <1>4 DEF Fetch
    <3>2. \A b \in Calls \ {c} : call'[b] = call[b]
      BY <1>4 DEF Fetch, BaseInv, TypeOK
    <3>3. call'[c].pc = "idle" \/ (call'[c].runtime = current /\ call'[c].store = ready[current])
      BY <1>4, <2>1 DEF Fetch, BaseInv, TypeOK, IdleCall
    <3> QED BY <2>1, <3>1, <3>2, <3>3 DEF CallsInv
  <2> QED BY <1>1, <1>4, <2>2 DEF Fetch, OneStore, StoreIsDisk, DiskInv, AckedSurvives
<1>5. ASSUME NEW c \in Calls, Read(c) PROVE RuntimeInv'
  BY <1>1, <1>5 DEF Read, BaseInv, TypeOK, IdleCall, OneStore, StoreIsDisk, CallsInv, DiskInv, AckedSurvives
<1>6. ASSUME NEW c \in Calls, NEW u \in Updates, Handle(c, u) PROVE RuntimeInv'
  <2>1. call[c].store \in Stores /\ store[call[c].store].open
    BY <1>6 DEF Handle, BaseInv, TypeOK, CallType, Fetched, CallsInv, OneStore
  <2>2. SaveUpdate(call[c].store, u) /\ call' = [call EXCEPT ![c] = IdleCall]
        /\ UNCHANGED <<current, ready, life>>
    BY <1>6 DEF Handle
  <2>3. CallsInv'
    BY <2>2 DEF BaseInv, TypeOK, CallsInv, IdleCall
  <2> QED BY <1>1, <2>1, <2>2, <2>3, SaveKeeps
<1>7. ASSUME NEW s \in Stores, StartJob(s) PROVE RuntimeInv'
  BY <1>1, <1>7 DEF StartJob, OneStore, StoreIsDisk, CallsInv, DiskInv, AckedSurvives
<1>8. ASSUME NEW s \in Stores, EndJob(s) PROVE RuntimeInv'
  <2>1. store[s].open /\ UNCHANGED <<current, ready, life, call>>
    BY <1>8 DEF EndJob, BaseInv, WorkersStop
  <2>2. CallsInv'
    BY <2>1 DEF CallsInv
  <2>3. CASE UNCHANGED <<disk, dirVars, lock, store, used, acked>>
    BY <1>1, <2>1, <2>2, <2>3 DEF OneStore, StoreIsDisk, DiskInv, AckedSurvives
  <2>4. ASSUME NEW u \in Updates, SaveUpdate(s, u) PROVE RuntimeInv'
    BY <1>1, <2>1, <2>2, <2>4, SaveKeeps
  <2> QED BY <1>8, <2>3, <2>4 DEF EndJob
<1>9. ASSUME NEW kind \in {"init", "shutdown"}, BeginStop(kind) PROVE RuntimeInv'
  BY <1>1, <1>9 DEF BeginStop, OneStore, StoreIsDisk, CallsInv, DiskInv, AckedSurvives
<1>10. CASE EndStop
  BY <1>10, EndStopKeeps
<1>11. CASE Crash
  BY <1>1, <1>11 DEF Crash, NoStore, IdleCall, OneStore, StoreIsDisk, CallsInv, DiskInv, AckedSurvives
<1>12. ASSUME NEW d \in Dirs, ChangeAccess(d) PROVE RuntimeInv'
  BY <1>1, <1>12 DEF ChangeAccess, OneStore, StoreIsDisk, CallsInv, DiskInv, AckedSurvives
<1>13. CASE UNCHANGED vars
  BY <1>1, <1>13 DEF vars, OneStore, StoreIsDisk, CallsInv, DiskInv, AckedSurvives
<1> QED
  BY <1>2, <1>3, <1>4, <1>5, <1>6, <1>7, <1>8, <1>9, <1>10, <1>11, <1>12, <1>13 DEF Next, CallStep

\* The invariant that rests on the host.
LEMMA RuntimeInvariant == ASSUME HostDrains PROVE Spec => []RuntimeInv
<1>1. Init => OneStore /\ StoreIsDisk /\ CallsInv /\ DiskInv
  BY RuntimeAssumption DEF Init, OneStore, StoreIsDisk, CallsInv, DiskInv, AckedSurvives, NoStore, IdleCall
<1>2. RuntimeInv /\ [Next]_vars => RuntimeInv'
  BY RuntimeStep
<1>3. BaseInv /\ OneStore /\ StoreIsDisk /\ CallsInv /\ DiskInv => RuntimeInv
  BY DEF RuntimeInv
<1> QED BY <1>1, <1>2, <1>3, BaseInvariant, PTL DEF Spec

-----------------------------------------------------------------------------
(* The theorems.                                                           *)

\* No worker outlives its store, whatever calls are in flight when the host ends
\* the plugin (the Stop methods of the workers).
THEOREM WorkersStopFirst == Spec => []WorkersStop
  BY BaseInvariant, PTL DEF BaseInv

\* The lock of a directory never outlives the store that took it, whatever calls
\* are in flight when the host ends the plugin (stateinfra.Open, Close).
THEOREM NoLockIsLeaked == Spec => []LocksAreHeld
  BY BaseInvariant, PTL DEF BaseInv

\* An update acknowledged by a store stays in its directory over any number of
\* registrations, shutdowns, reloads and crashes (Runtime.ensureReady, Shutdown).
THEOREM UpdatesSurvive == ASSUME HostDrains PROVE Spec => []AckedSurvives
  BY RuntimeInvariant, PTL DEF RuntimeInv, DiskInv

\* A directory has one open store at a time, with its lock or without it, and
\* nobody else keeps the lock (Runtime.ensureReady, stateinfra.Open, Close).
THEOREM OneStoreIsOpen == ASSUME HostDrains PROVE Spec => []OneOpenStore
<1>1. RuntimeInv => OneOpenStore
  BY DEF RuntimeInv, BaseInv, LocksAreHeld, OneStore, OneOpenStore
<1> QED BY <1>1, RuntimeInvariant, PTL

\* Only an update of an open store changes what is on disk.
LEMMA OnlySavesWrite ==
  ASSUME RuntimeInv, [Next]_vars, ~UNCHANGED <<disk, acked, used>>
  PROVE  \E s \in Stores, u \in Updates : store[s].open /\ SaveUpdate(s, u)
<1> USE DEF RuntimeInv, dirVars
<1>1. ASSUME NEW c \in Calls, NEW u \in Updates, Handle(c, u)
      PROVE  \E s \in Stores : store[s].open /\ SaveUpdate(s, u)
  <2>1. call[c].store \in Stores /\ store[call[c].store].open
    BY <1>1, RuntimeAssumption DEF Handle, BaseInv, TypeOK, CallType, Fetched, CallsInv, OneStore
  <2> QED BY <1>1, <2>1 DEF Handle
<1>2. ASSUME NEW s \in Stores, EndJob(s), ~UNCHANGED <<disk, acked, used>>
      PROVE  \E u \in Updates : store[s].open /\ SaveUpdate(s, u)
  BY <1>2 DEF EndJob, BaseInv, WorkersStop
<1> QED BY <1>1, <1>2 DEF Next, CallStep, vars, Enter, Register, Fetch, Read, StartJob, BeginStop,
               EndStop, Crash, ChangeAccess

\* RefinesStores: over all stores that open a directory one after the other it
\* behaves like the one store of AtomicStore, step by step (Store.Update, Open).
THEOREM DirectoriesAreStores == ASSUME HostDrains PROVE Spec => RefinesStores
<1> DEFINE Step(d) == [Directory(d)!Next]_<<disk[d], acked[d], used \ disk[d]>>
<1>1. Init => \A d \in Dirs : Directory(d)!Init
  BY DEF Init, Directory!Init
<1>2. RuntimeInv /\ [Next]_vars => [\A d \in Dirs : Step(d)]_vars
  <2> SUFFICES ASSUME RuntimeInv, [Next]_vars, NEW d \in Dirs PROVE Step(d)
    OBVIOUS
  <2>1. CASE UNCHANGED <<disk, acked, used>>
    BY <2>1
  <2>2. CASE ~UNCHANGED <<disk, acked, used>>
    <3>1. PICK s \in Stores, u \in Updates : store[s].open /\ SaveUpdate(s, u)
      BY <2>2, OnlySavesWrite
    <3>2. u \notin used /\ used' = used \cup {u} /\ disk[d] \subseteq used
      BY <3>1, SaveInDirectory DEF RuntimeInv, DiskInv
    <3>3. CASE disk'[d] = disk[d] \cup {u} /\ acked'[d] = acked[d] \cup {u}
      <4>1. used' \ disk'[d] = used \ disk[d]
        BY <3>2, <3>3
      <4>2. Directory(d)!Update(u)
        BY <3>2, <3>3, <4>1 DEF Directory!Update
      <4> QED BY <4>2 DEF Directory!Next
    <3>4. CASE disk'[d] = disk[d] /\ acked'[d] = acked[d]
      <4>1. used' \ disk'[d] = (used \ disk[d]) \cup {u}
        BY <3>2, <3>4
      <4>2. Directory(d)!Refuse(u)
        BY <3>2, <3>4, <4>1 DEF Directory!Refuse
      <4> QED BY <4>2 DEF Directory!Next
    <3> QED BY <3>1, <3>3, <3>4, SaveInDirectory
  <2> QED BY <2>1, <2>2
<1> QED BY <1>1, <1>2, RuntimeInvariant, PTL DEF Spec, RefinesStores
=============================================================================
