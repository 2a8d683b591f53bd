----------------------------- MODULE StateStore -----------------------------
(***************************************************************************)
(* The JSON state file of cpa-grok-panel (infrastructure/state/store.go),  *)
(* as one process uses it.                                                 *)
(*                                                                         *)
(* Store.Update clones the snapshot, changes the clone and saves it: write *)
(* state.json.tmp, copy state.json over state.json.bak, rename the         *)
(* temporary file, and only then swap the snapshot in memory.  The process *)
(* may die between any two of these steps, and each of them may fail.      *)
(* Several stores on one directory, and its lock, are in module Runtime.   *)
(*                                                                         *)
(* A snapshot is the set of updates it holds.                              *)
(***************************************************************************)
EXTENDS FiniteSets, Integers

CONSTANTS
  Updates,     \* calls of Store.Update, each with a change of its own
  NoUpdate,    \* load saves the empty snapshot of a new directory
  Faults       \* which of AllFaults the instance lets happen

\* io: a file operation of save fails.  crash: the process dies.
AllFaults == {"io", "crash"}

ASSUME StoreAssumption ==
  /\ NoUpdate \notin Updates
  /\ Faults \subseteq AllFaults

VARIABLES
  main,      \* state.json
  bak,       \* state.json.bak
  tmp,       \* state.json.tmp
  proc,      \* the process: where it is, its snapshot and the one being saved
  acked,     \* history: updates that returned nil
  refused    \* history: updates that returned an error

vars == <<main, bak, tmp, proc, acked, refused>>

files == <<main, bak, tmp>>

NoFile  == [kind |-> "none", data |-> {}]
Torn    == [kind |-> "torn", data |-> {}]
Good(s) == [kind |-> "good", data |-> s]

Down     == [pc |-> "down", snapshot |-> {}, next |-> {}, update |-> NoUpdate]
Ready(s) == [pc |-> "ready", snapshot |-> s, next |-> {}, update |-> NoUpdate]

Init ==
  /\ main = NoFile /\ bak = NoFile /\ tmp = NoFile
  /\ proc = Down
  /\ acked = {} /\ refused = {}

\* What load would return now; nothing when it would fail.
Loads == IF main.kind = "torn" THEN bak ELSE main

-----------------------------------------------------------------------------
(* Open and Close.                                                         *)

\* A new directory gets an empty file; otherwise load reads the file or its
\* backup, and writes nothing.
OpenStore ==
  /\ proc.pc = "down"
  /\ \/ /\ main.kind = "none"
        /\ proc' = [Down EXCEPT !.pc = "create"]
     \/ /\ Loads.kind = "good"
        /\ proc' = Ready(Loads.data)
  /\ UNCHANGED <<files, acked, refused>>

CloseStore ==
  /\ proc.pc = "ready"
  /\ proc' = Down
  /\ UNCHANGED <<files, acked, refused>>

-----------------------------------------------------------------------------
(* Update and save, under the mutex of the store.                          *)

\* Mutant of Update: the snapshot is swapped before it is saved.
UpdateInPlace(u) ==
  /\ proc.pc = "ready"
  /\ u \notin acked \cup refused \cup Loads.data
  /\ LET next == proc.snapshot \cup {u} IN
       proc' = [pc |-> "create", snapshot |-> next, next |-> next, update |-> u]
  /\ UNCHANGED <<files, acked, refused>>

Update(u) ==
  /\ proc.pc = "ready"
  /\ u \notin acked \cup refused \cup Loads.data
  /\ proc' = [pc |-> "create", snapshot |-> proc.snapshot,
              next |-> proc.snapshot \cup {u}, update |-> u]
  /\ UNCHANGED <<files, acked, refused>>

Step(pc) == proc' = [proc EXCEPT !.pc = pc]

\* Mutant of CreateTemporary: state.json itself is opened for writing.
TruncateState ==
  /\ proc.pc = "create"
  /\ main' = Torn
  /\ Step("write")
  /\ UNCHANGED <<bak, tmp, acked, refused>>

\* O_CREATE|O_TRUNC: the temporary file is empty until it is written.
CreateTemporary ==
  /\ proc.pc = "create"
  /\ tmp' = Torn
  /\ Step("write")
  /\ UNCHANGED <<main, bak, acked, refused>>

WriteTemporary ==
  /\ proc.pc = "write"
  /\ tmp' = Good(proc.next)
  /\ Step("backup")
  /\ UNCHANGED <<main, bak, acked, refused>>

\* Mutant of Backup: the new snapshot is copied.
BackupTemporary ==
  /\ proc.pc = "backup"
  /\ bak' = IF main.kind = "none" THEN bak ELSE tmp
  /\ Step("rename")
  /\ UNCHANGED <<main, tmp, acked, refused>>

\* copyFile copies whatever state.json holds, by way of a file of its own.
Backup ==
  /\ proc.pc = "backup"
  /\ bak' = IF main.kind = "none" THEN bak ELSE main
  /\ Step("rename")
  /\ UNCHANGED <<main, tmp, acked, refused>>

Rename ==
  /\ proc.pc = "rename"
  /\ tmp.kind # "none"
  /\ main' = tmp
  /\ tmp' = NoFile
  /\ Step("swap")
  /\ UNCHANGED <<bak, acked, refused>>

\* The snapshot in memory is replaced, and Update (or load) returns nil.
Swap ==
  /\ proc.pc = "swap"
  /\ acked' = acked \cup ({proc.update} \ {NoUpdate})
  /\ proc' = Ready(proc.next)
  /\ UNCHANGED <<files, refused>>

\* A failing step: Update returns the error and keeps the old snapshot; load
\* closes the store again.  A temporary file that was not written is removed.
SaveFails ==
  /\ "io" \in Faults
  /\ proc.pc \in {"create", "write", "backup", "rename"}
  /\ tmp' = IF proc.pc = "write" THEN NoFile ELSE tmp
  /\ \/ /\ proc.update # NoUpdate
        /\ refused' = refused \cup {proc.update}
        /\ proc' = Ready(proc.snapshot)
     \/ /\ proc.update = NoUpdate
        /\ proc' = Down
        /\ UNCHANGED refused
  /\ UNCHANGED <<main, bak, acked>>

-----------------------------------------------------------------------------
(* The environment.                                                        *)

\* The files stay as they are.
Crash ==
  /\ "crash" \in Faults
  /\ proc.pc # "down"
  /\ proc' = Down
  /\ UNCHANGED <<files, acked, refused>>

\* Something outside the plugin damages state.json.
Corrupt ==
  /\ main.kind = "good"
  /\ main' = Torn
  /\ UNCHANGED <<bak, tmp, proc, acked, refused>>

-----------------------------------------------------------------------------
SaveStep ==
  CreateTemporary \/ WriteTemporary \/ Backup \/ Rename \/ Swap \/ SaveFails

Next ==
  \/ OpenStore \/ CloseStore \/ SaveStep \/ Crash
  \/ \E u \in Updates : Update(u)

Spec == Init /\ [][Next]_vars

\* The store on a file system that also loses state.json.
DamagedSpec == Init /\ [][Next \/ Corrupt]_vars

-----------------------------------------------------------------------------
(* Properties.                                                             *)

Promise == INSTANCE AtomicStore WITH saved <- Loads.data

\* The file protocol of one process implements the atomic store, whatever step
\* it dies at or fails in: no acknowledged update is lost, none that returned an
\* error turns up, and nothing is ever half there.
RefinesAtomicStore == Promise!Spec

\* Readers (View) never see an update that a crash could still take back.
ViewIsSaved == proc.snapshot \subseteq Loads.data

\* state.json.bak is the snapshot before the last save (07-persistence.md), so
\* falling back to it costs one update at most.
BakIsPrevious ==
  main.kind = "good" /\ bak.kind = "good"
    => bak.data \subseteq main.data /\ Cardinality(main.data \ bak.data) <= 1

\* 07-persistence.md: state.json.bak is the last successful snapshot, to be
\* tried when state.json is damaged; so save never replaces a readable backup by
\* a damaged file.
BakStaysReadable == [][bak.kind = "good" => bak'.kind = "good"]_bak
=============================================================================
