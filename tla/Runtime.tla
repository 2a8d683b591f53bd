------------------------------- MODULE Runtime -------------------------------
(***************************************************************************)
(* The life of the plugin inside the host process (main.go and             *)
(* plugin/runtime.go): cliproxy_plugin_init replaces the runtime object,   *)
(* plugin.register opens a state store in the first data directory that    *)
(* works, calls of the host fetch the services and use them after the      *)
(* locks are gone, and shutdown stops the workers and closes the store.    *)
(*                                                                         *)
(* A store is what module AtomicStore promises: an update writes the whole *)
(* snapshot of the store to its directory.  Two locks matter: runtimeMu of *)
(* main.go and mu of the runtime; both are held while `life' is stopping,  *)
(* and elsewhere only for one step.  The three workers count as one.       *)
(***************************************************************************)
EXTENDS Integers, Sequences

CONSTANTS
  Updates,     \* calls of Store.Update, each with a change of its own
  Calls,       \* concurrent calls of the host
  Runtimes,    \* bound: runtime objects that are referred to at one time
  Stores,      \* bound: store objects that are referred to at one time
  None,        \* no object, no update
  Candidates,  \* the data directories ensureReady tries, in this order
  Memory,      \* the last resort: a store without a directory
  HostDrains,  \* the host ends the plugin only when no call is in flight
  DirsFail     \* directories lose and regain their permissions, and refuse locks

Dirs == {Candidates[i] : i \in 1..Len(Candidates)}

ASSUME RuntimeAssumption ==
  /\ None \notin Runtimes \cup Stores \cup Updates
  /\ Candidates \in Seq(Dirs)
  /\ Memory \notin Dirs
  /\ HostDrains \in BOOLEAN
  /\ DirsFail \in BOOLEAN

VARIABLES
  disk,        \* directory -> the updates in its state file
  access,      \* directory -> what the process may do in it: nothing, read, write
  file,        \* directory -> its state file: none, without settings, with settings
  lock,        \* directory -> the store that holds its instance.lock
  current,     \* the runtime object of main.go
  ready,       \* runtime object -> its store while it is ready, None otherwise
  life,        \* what the host does to the plugin: nothing, init or shutdown
  store,       \* store object -> directory, snapshot, whether it is open
  job,         \* store object -> its worker
  call,        \* call of the host -> where it is
  used,        \* history: updates that were tried
  acked        \* history: directory -> updates whose caller got nil

vars == <<disk, access, file, lock, current, ready, life, store, job, call, used, acked>>

dirVars == <<access, file>>

NoStore  == [dir |-> Memory, snapshot |-> {}, open |-> FALSE]
IdleCall == [pc |-> "idle", runtime |-> None, store |-> None]

Init ==
  /\ disk = [d \in Dirs |-> {}]
  /\ access = [d \in Dirs |-> "write"]
  /\ file = [d \in Dirs |-> "none"]
  /\ lock = [d \in Dirs |-> None]
  /\ current \in Runtimes
  /\ ready = [r \in Runtimes |-> None]
  /\ life = "idle"
  /\ store = [s \in Stores |-> NoStore]
  /\ job = [s \in Stores |-> "stopped"]
  /\ call = [c \in Calls |-> IdleCall]
  /\ used = {}
  /\ acked = [d \in Dirs |-> {}]

\* Shutdown holds the runtime's mu until the workers have stopped.
Stopping(r) == life # "idle" /\ r = current

-----------------------------------------------------------------------------
(* Store.Update of store s: the whole snapshot goes to the directory.       *)

\* Mutant of Refused: the snapshot in memory keeps what could not be saved.
RefusedButKept(s, u) ==
  /\ store' = [store EXCEPT ![s].snapshot = @ \cup {u}]
  /\ UNCHANGED <<disk, acked>>

\* The mutation was made on a copy, which is thrown away.
Refused(s, u) == UNCHANGED <<store, disk, acked>>

SaveUpdate(s, u) ==
  LET d == store[s].dir IN
    /\ u \notin used
    /\ used' = used \cup {u}
    /\ \/ /\ d \in Dirs /\ access[d] = "write"
          /\ store' = [store EXCEPT ![s].snapshot = @ \cup {u}]
          /\ disk' = [disk EXCEPT ![d] = store[s].snapshot \cup {u}]
          /\ acked' = [acked EXCEPT ![d] = @ \cup {u}]
       \/ /\ d = Memory
          /\ store' = [store EXCEPT ![s].snapshot = @ \cup {u}]
          /\ UNCHANGED <<disk, acked>>
       \/ /\ d \in Dirs /\ access[d] # "write"
          /\ Refused(s, u)
    /\ UNCHANGED <<dirVars, lock>>

-----------------------------------------------------------------------------
(* Calls of the host.                                                      *)

\* cliproxyPluginCall reads the runtime object under runtimeMu.
Enter(c, pc) ==
  /\ call[c].pc = "idle"
  /\ life = "idle"
  /\ call' = [call EXCEPT ![c] = [pc |-> pc, runtime |-> current, store |-> None]]
  /\ UNCHANGED <<disk, dirVars, lock, current, ready, life, store, job, used, acked>>

\* Open reads the state file; where there is none it has to save one.
Openable(d) == access[d] = "write" \/ (access[d] = "read" /\ file[d] # "none")

\* ensureReady tries the candidates in order; memory is the last resort.
Chosen(d) ==
  IF d = Memory THEN \A e \in Dirs : ~Openable(e)
  ELSE \E i \in 1..Len(Candidates) :
         /\ Candidates[i] = d
         /\ Openable(d)
         /\ \A j \in 1..(i - 1) : ~Openable(Candidates[j])

FreeStores ==
  {s \in Stores : /\ ~store[s].open
                  /\ \A c \in Calls : call[c].store # s
                  /\ \A d \in Dirs : lock[d] # s}

OpenMemory(s) ==
  /\ Chosen(Memory)
  /\ store' = [store EXCEPT ![s] = [dir |-> Memory, snapshot |-> {}, open |-> TRUE]]
  /\ UNCHANGED <<lock, file>>

\* Open goes on without the lock when it is taken or the file system refuses it.
\* Settings that are not in the state file are saved, which needs access.
OpenDir(s, d) ==
  /\ Chosen(d)
  /\ access[d] = "write" \/ file[d] = "settled"
  /\ store' = [store EXCEPT ![s] = [dir |-> d, snapshot |-> disk[d], open |-> TRUE]]
  /\ file' = [file EXCEPT ![d] = "settled"]
  /\ \/ lock[d] = None /\ lock' = [lock EXCEPT ![d] = s]
     \/ (lock[d] # None \/ DirsFail) /\ UNCHANGED lock

OpenFor(r) ==
  /\ FreeStores # {}
  /\ LET s == CHOOSE s \in FreeStores : TRUE IN
       /\ ready' = [ready EXCEPT ![r] = s]
       /\ job' = [job EXCEPT ![s] = "idle"]
       /\ OpenMemory(s) \/ \E d \in Dirs : OpenDir(s, d)

\* The store is closed again when the first settings cannot be saved or the writer
\* cannot be configured; what was saved until then stays.
OpenFails ==
  /\ UNCHANGED <<store, lock, ready, job>>
  /\ \E d \in Dirs \cup {Memory} :
       /\ Chosen(d)
       /\ IF d # Memory /\ access[d] = "write" /\ file[d] # "settled"
          THEN \E f \in {"fresh", "settled"} : file' = [file EXCEPT ![d] = f]
          ELSE UNCHANGED file

\* Mutant of Register: a second registration opens the store again.
RegisterAgain(c) ==
  /\ call[c].pc = "register"
  /\ ~Stopping(call[c].runtime)
  /\ OpenFor(call[c].runtime)
  /\ call' = [call EXCEPT ![c] = IdleCall]
  /\ UNCHANGED <<disk, access, current, life, used, acked>>

\* plugin.register and plugin.reconfigure.
Register(c) ==
  /\ call[c].pc = "register"
  /\ ~Stopping(call[c].runtime)
  /\ IF ready[call[c].runtime] = None
     THEN OpenFor(call[c].runtime) \/ OpenFails
     ELSE UNCHANGED <<store, lock, ready, job, file>>
  /\ call' = [call EXCEPT ![c] = IdleCall]
  /\ UNCHANGED <<disk, access, current, life, used, acked>>

\* handleUsage and handleManagement take the services and let go of mu.
Fetch(c) ==
  /\ call[c].pc = "use"
  /\ ~Stopping(call[c].runtime)
  /\ LET s == ready[call[c].runtime] IN
       call' = [call EXCEPT ![c] = IF s = None THEN IdleCall
                                   ELSE [pc |-> "fetched", runtime |-> @.runtime, store |-> s]]
  /\ UNCHANGED <<disk, dirVars, lock, current, ready, life, store, job, used, acked>>

\* The service updates its store, whatever became of the runtime.
Handle(c, u) ==
  /\ call[c].pc = "fetched"
  /\ SaveUpdate(call[c].store, u)
  /\ call' = [call EXCEPT ![c] = IdleCall]
  /\ UNCHANGED <<current, ready, life, job>>

\* A call that only reads.
Read(c) ==
  /\ call[c].pc = "fetched"
  /\ call' = [call EXCEPT ![c] = IdleCall]
  /\ UNCHANGED <<disk, dirVars, lock, current, ready, life, store, job, used, acked>>

-----------------------------------------------------------------------------
(* The workers of a store.  select may take a job although stop is closed.  *)

StartJob(s) ==
  /\ job[s] = "idle"
  /\ job' = [job EXCEPT ![s] = "busy"]
  /\ UNCHANGED <<disk, dirVars, lock, current, ready, life, store, call, used, acked>>

\* Mutant of EndJob: the job needs the runtime's mu to end.
EndJobUnderLock(s) ==
  /\ job[s] = "busy"
  /\ ~Stopping(current)
  /\ job' = [job EXCEPT ![s] = "idle"]
  /\ \/ \E u \in Updates : SaveUpdate(s, u)
     \/ UNCHANGED <<disk, dirVars, lock, store, used, acked>>
  /\ UNCHANGED <<current, ready, life, call>>

EndJob(s) ==
  /\ job[s] = "busy"
  /\ job' = [job EXCEPT ![s] = "idle"]
  /\ \/ \E u \in Updates : SaveUpdate(s, u)
     \/ UNCHANGED <<disk, dirVars, lock, store, used, acked>>
  /\ UNCHANGED <<current, ready, life, call>>

-----------------------------------------------------------------------------
(* Init and shutdown by the host, under runtimeMu.                         *)

\* Both begin with Shutdown of the current runtime.
BeginStop(kind) ==
  /\ life = "idle"
  /\ HostDrains => \A c \in Calls : call[c].pc = "idle"
  /\ life' = kind
  /\ UNCHANGED <<disk, dirVars, lock, current, ready, store, job, call, used, acked>>

FreeRuntimes ==
  {r \in Runtimes \ {current} : ready[r] = None /\ \A c \in Calls : call[c].runtime # r}

\* cliproxy_plugin_init goes on with a new runtime object.
NextRuntime ==
  IF life = "init" THEN current' \in FreeRuntimes ELSE UNCHANGED current

CloseStore(s) ==
  /\ store' = [store EXCEPT ![s] = [@ EXCEPT !.open = FALSE]]
  /\ lock' = [d \in Dirs |-> IF lock[d] = s THEN None ELSE lock[d]]

\* Mutant of EndStop: the lock file stays locked.
EndStopLocked ==
  /\ life # "idle"
  /\ LET s == ready[current] IN
       IF s = None THEN UNCHANGED <<store, lock, job, ready>>
       ELSE /\ job[s] = "idle"
            /\ job' = [job EXCEPT ![s] = "stopped"]
            /\ store' = [store EXCEPT ![s].open = FALSE]
            /\ ready' = [ready EXCEPT ![current] = None]
            /\ UNCHANGED lock
  /\ NextRuntime
  /\ life' = "idle"
  /\ UNCHANGED <<disk, dirVars, call, used, acked>>

\* Mutant of EndStop: the workers are told to stop but not waited for.
EndStopAtOnce ==
  /\ life # "idle"
  /\ LET s == ready[current] IN
       IF s = None THEN UNCHANGED <<store, lock, job, ready>>
       ELSE /\ job' = [job EXCEPT ![s] = IF @ = "idle" THEN "stopped" ELSE @]
            /\ CloseStore(s)
            /\ ready' = [ready EXCEPT ![current] = None]
  /\ NextRuntime
  /\ life' = "idle"
  /\ UNCHANGED <<disk, dirVars, call, used, acked>>

\* Stop waits for each worker's goroutine; then the store is closed.
EndStop ==
  /\ life # "idle"
  /\ LET s == ready[current] IN
       IF s = None THEN UNCHANGED <<store, lock, job, ready>>
       ELSE /\ job[s] = "idle"
            /\ job' = [job EXCEPT ![s] = "stopped"]
            /\ CloseStore(s)
            /\ ready' = [ready EXCEPT ![current] = None]
  /\ NextRuntime
  /\ life' = "idle"
  /\ UNCHANGED <<disk, dirVars, call, used, acked>>

-----------------------------------------------------------------------------
(* The environment.                                                        *)

\* The process dies, whatever it was doing; only the files stay.
Crash ==
  /\ lock' = [d \in Dirs |-> None]
  /\ ready' = [r \in Runtimes |-> None]
  /\ life' = "idle"
  /\ store' = [s \in Stores |-> NoStore]
  /\ job' = [s \in Stores |-> "stopped"]
  /\ call' = [c \in Calls |-> IdleCall]
  /\ UNCHANGED <<disk, dirVars, current, used, acked>>

ChangeAccess(d) ==
  /\ DirsFail
  /\ \E m \in {"none", "read", "write"} \ {access[d]} : access' = [access EXCEPT ![d] = m]
  /\ UNCHANGED <<disk, file, lock, current, ready, life, store, job, call, used, acked>>

-----------------------------------------------------------------------------
CallStep(c) ==
  \/ \E pc \in {"register", "use"} : Enter(c, pc)
  \/ Register(c) \/ Fetch(c) \/ Read(c)
  \/ \E u \in Updates : Handle(c, u)

Next ==
  \/ \E c \in Calls : CallStep(c)
  \/ \E s \in Stores : StartJob(s) \/ EndJob(s)
  \/ \E kind \in {"init", "shutdown"} : BeginStop(kind)
  \/ EndStop
  \/ Crash
  \/ \E d \in Dirs : ChangeAccess(d)

Spec == Init /\ [][Next]_vars

\* An assumption about the host and the network: a job ends.  Probes have timeouts,
\* the host.auth calls of a job have none.  A worker that may take a job or see
\* the closed stop channel chooses at random, so it stops at last.
FairSpec == Spec /\ (\A s \in Stores : WF_vars(EndJob(s))) /\ SF_vars(EndStop)

-----------------------------------------------------------------------------
(* Properties.                                                             *)

\* If the host ends the plugin only when no call is in flight, an acknowledged
\* update is never overwritten in its directory: not by the next store, by a
\* second registration, by a worker that outlives its store, nor by a crash.
AckedSurvives == \A d \in Dirs : acked[d] \subseteq disk[d]

\* Under the same assumption each directory is, over all stores that open it one
\* after the other, what one store promises: what is saved stays saved, and an
\* update that failed, or went to another directory, never shows up in it.
Directory(d) ==
  INSTANCE AtomicStore WITH saved <- disk[d], acked <- acked[d], refused <- used \ disk[d]

RefinesStores ==
  /\ \A d \in Dirs : Directory(d)!Init
  /\ [][\A d \in Dirs : [Directory(d)!Next]_<<disk[d], acked[d], used \ disk[d]>>]_vars

\* Under the same assumption a directory has one open store at a time, although
\* Open goes on without the lock, and a lock that is taken belongs to that store:
\* no shutdown, reload or late registration leaks it.
OneOpenStore ==
  /\ \A s, t \in Stores :
       store[s].open /\ store[t].open /\ store[s].dir = store[t].dir /\ store[s].dir # Memory => s = t
  /\ \A d \in Dirs : lock[d] # None => store[lock[d]].open /\ store[lock[d]].dir = d

\* No worker outlives its store (TestShutdownStopsAllWorkers).
WorkersStop == \A s \in Stores : job[s] # "stopped" => store[s].open

\* Shutdown and init always come back to the host, although they wait for
\* workers while they hold both locks.
StopReturns == life # "idle" ~> life = "idle"

\* 01-architecture.md: shutdown refuses new writes, drains state writes and
\* releases the lock; so only an open store writes to a directory.
ClosedStoresAreQuiet ==
  [][\A d \in Dirs : disk'[d] # disk[d] =>
       \E s \in Stores : /\ store[s].open /\ store[s].dir = d
                         /\ disk'[d] = store'[s].snapshot]_vars
=============================================================================
