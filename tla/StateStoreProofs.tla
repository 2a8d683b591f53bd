-------------------------- MODULE StateStoreProofs --------------------------
(***************************************************************************)
(* The file protocol of StateStore implements AtomicStore, for any set of  *)
(* updates, with failing file operations and crashes at any step.          *)
(***************************************************************************)
EXTENDS StateStore, FiniteSetTheorems, TLAPS

PcType == {"down", "ready", "create", "write", "backup", "rename", "swap"}

FileTypes ==
  /\ main = NoFile \/ \E s \in SUBSET Updates : main = Good(s)
  /\ bak = NoFile \/ \E s \in SUBSET Updates : bak = Good(s)
  /\ tmp.kind \in {"none", "torn", "good"}

ProcTypes ==
  /\ proc \in [pc : PcType, snapshot : SUBSET Updates, next : SUBSET Updates,
               update : Updates \cup {NoUpdate}]
  /\ acked \subseteq Updates
  /\ refused \subseteq Updates

Saving == proc.pc \in {"create", "write", "backup", "rename"}

\* What is acknowledged is in state.json, what was refused is not.
HistoryInv == acked \subseteq main.data /\ refused \cap main.data = {}

\* What the process knows about the files at each step.
StepInv ==
  /\ proc.pc = "ready" => main = Good(proc.snapshot)
  /\ Saving /\ proc.update = NoUpdate => main = NoFile /\ proc.next = {} /\ proc.snapshot = {}
  /\ Saving /\ proc.update # NoUpdate =>
       /\ main = Good(proc.snapshot)
       /\ proc.next = proc.snapshot \cup {proc.update}
       /\ proc.update \notin acked \cup refused \cup main.data
  /\ proc.pc \in {"backup", "rename"} => tmp = Good(proc.next)
  /\ proc.pc = "swap" => main = Good(proc.next) /\ proc.snapshot \subseteq proc.next
  /\ proc.pc = "swap" /\ proc.update # NoUpdate =>
       proc.update \in proc.next /\ proc.update \notin refused
  /\ proc.pc = "down" => proc.snapshot = {}

\* The backup is state.json as it was before the last rename.
BakInv ==
  /\ main.kind = "good" /\ bak.kind = "good" =>
       bak.data \subseteq main.data /\ \E u : main.data \ bak.data \subseteq {u}
  /\ proc.pc = "rename" /\ main.kind = "good" => bak = main
  /\ main.kind = "none" => bak.kind = "none"

StoreInv == FileTypes /\ ProcTypes /\ HistoryInv /\ StepInv /\ BakInv

\* The initial states.
LEMMA InitStore == Init => StoreInv
  BY StoreAssumption DEF Init, StoreInv, FileTypes, ProcTypes, HistoryInv, StepInv, BakInv,
     Saving, PcType, Down, NoFile, Good

\* Each step keeps the invariant; the proof goes action by action.
LEMMA StoreStep == StoreInv /\ [Next]_vars => StoreInv'
<1> SUFFICES ASSUME StoreInv, [Next]_vars PROVE StoreInv'
  OBVIOUS
<1> USE StoreAssumption
<1> USE DEF StoreInv, FileTypes, ProcTypes, HistoryInv, StepInv, BakInv, Saving, PcType,
            Down, Ready, NoFile, Torn, Good, files
<1>1. CASE OpenStore
  BY <1>1 DEF OpenStore, Loads
<1>2. CASE CloseStore
  BY <1>2 DEF CloseStore
<1>3. CASE CreateTemporary
  BY <1>3 DEF CreateTemporary, Step
<1>4. CASE WriteTemporary
  BY <1>4 DEF WriteTemporary, Step
<1>5. CASE Backup
  BY <1>5 DEF Backup, Step
<1>6. CASE Rename
  BY <1>6 DEF Rename, Step
<1>7. CASE Swap
  BY <1>7 DEF Swap
<1>8. CASE SaveFails
  BY <1>8 DEF SaveFails
<1>9. CASE Crash
  BY <1>9 DEF Crash
<1>10. ASSUME NEW u \in Updates, Update(u) PROVE StoreInv'
  BY <1>10 DEF Update, Loads
<1>11. CASE UNCHANGED vars
  BY <1>11 DEF vars
<1> QED
  BY <1>1, <1>2, <1>3, <1>4, <1>5, <1>6, <1>7, <1>8, <1>9, <1>10, <1>11 DEF Next, SaveStep

-----------------------------------------------------------------------------
\* The invariant the theorems below rest on.
LEMMA StoreInvariant == Spec => []StoreInv
  BY InitStore, StoreStep, PTL DEF Spec

\* Each step is a step of the atomic store, or a stutter: the rename saves, the
\* swap acknowledges, a failing step refuses.
LEMMA AtomicStep == StoreInv /\ [Next]_vars => Promise!Next \/ UNCHANGED <<Loads.data, acked, refused>>
<1> SUFFICES ASSUME StoreInv, [Next]_vars
             PROVE  Promise!Next \/ UNCHANGED <<Loads.data, acked, refused>>
  OBVIOUS
<1> USE StoreAssumption
<1> USE DEF StoreInv, FileTypes, ProcTypes, HistoryInv, StepInv, Saving, PcType,
            Down, Ready, NoFile, Torn, Good, files, Loads
<1>1. CASE Rename
  <2>1. CASE proc.update = NoUpdate
    BY <1>1, <2>1 DEF Rename
  <2>2. CASE proc.update # NoUpdate
    <3>1. Promise!Save(proc.update)
      BY <1>1, <2>2 DEF Rename, Promise!Save
    <3> QED BY <3>1, <2>2 DEF Promise!Next
  <2> QED BY <2>1, <2>2
<1>2. CASE Swap
  <2>1. CASE proc.update = NoUpdate
    BY <1>2, <2>1 DEF Swap
  <2>2. CASE proc.update # NoUpdate
    <3>1. Promise!Ack(proc.update)
      BY <1>2, <2>2 DEF Swap, Promise!Ack
    <3> QED BY <3>1, <2>2 DEF Promise!Next
  <2> QED BY <2>1, <2>2
<1>3. CASE SaveFails
  <2>1. CASE proc.update = NoUpdate
    BY <1>3, <2>1 DEF SaveFails
  <2>2. CASE proc.update # NoUpdate
    <3>1. Promise!Refuse(proc.update)
      BY <1>3, <2>2 DEF SaveFails, Promise!Refuse
    <3> QED BY <3>1, <2>2 DEF Promise!Next
  <2> QED BY <2>1, <2>2
<1>4. CASE OpenStore \/ CloseStore \/ CreateTemporary \/ WriteTemporary \/ Backup \/ Crash
  BY <1>4 DEF OpenStore, CloseStore, CreateTemporary, WriteTemporary, Backup, Crash, Step
<1>5. ASSUME NEW u \in Updates, Update(u) PROVE UNCHANGED <<Loads.data, acked, refused>>
  BY <1>5 DEF Update
<1>6. CASE UNCHANGED vars
  BY <1>6 DEF vars
<1> QED
  BY <1>1, <1>2, <1>3, <1>4, <1>5, <1>6 DEF Next, SaveStep

\* Store.Update of one process is atomic and durable: with crashes and failures
\* at any file step, nothing acknowledged is lost, nothing refused turns up and
\* nothing is half saved.
THEOREM StoreImplements == Spec => RefinesAtomicStore
<1>1. Init => Promise!Init
  BY DEF Init, Promise!Init, Loads, NoFile
<1>2. StoreInv /\ [Next]_vars => [Promise!Next]_<<Loads.data, acked, refused>>
  BY AtomicStep
<1> QED
  BY <1>1, <1>2, StoreInvariant, PTL DEF Spec, RefinesAtomicStore, Promise!Spec

\* Readers never see an update that a crash could still take back.
THEOREM ViewSaved == Spec => []ViewIsSaved
<1>1. StoreInv => ViewIsSaved
  BY DEF StoreInv, StepInv, FileTypes, ProcTypes, Saving, PcType, ViewIsSaved, Loads, Good, NoFile
<1> QED
  BY <1>1, StoreInvariant, PTL

\* The backup is state.json without the last update at most.
THEOREM BackupIsPrevious == Spec => []BakIsPrevious
<1>1. ASSUME NEW S, NEW u, S \subseteq {u} PROVE Cardinality(S) <= 1
  <2>1. S = {} \/ S = {u}
    BY <1>1
  <2> QED BY <2>1, FS_EmptySet, FS_Singleton
<1>2. StoreInv => BakIsPrevious
  BY <1>1 DEF StoreInv, BakInv, BakIsPrevious
<1> QED
  BY <1>2, StoreInvariant, PTL
=============================================================================
