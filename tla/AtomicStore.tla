---------------------------- MODULE AtomicStore ----------------------------
(***************************************************************************)
(* What the state store promises to the services above it: an update is    *)
(* saved as a whole or not at all, what is saved stays saved, Update       *)
(* returns nil only for a saved update, and an error only for one that     *)
(* will never show up.  An update cut short by a crash may end either way. *)
(***************************************************************************)
CONSTANT Updates

VARIABLES
  saved,     \* updates a process that opens the store now would see
  acked,     \* updates whose caller got nil
  refused    \* updates whose caller got an error

Init == saved = {} /\ acked = {} /\ refused = {}

Save(u) ==
  /\ u \notin saved \cup refused
  /\ saved' = saved \cup {u}
  /\ UNCHANGED <<acked, refused>>

Ack(u) ==
  /\ u \in saved
  /\ acked' = acked \cup {u}
  /\ UNCHANGED <<saved, refused>>

Refuse(u) ==
  /\ u \notin saved
  /\ refused' = refused \cup {u}
  /\ UNCHANGED <<saved, acked>>

\* An update that nothing comes in between.
Update(u) ==
  /\ u \notin saved \cup refused
  /\ saved' = saved \cup {u}
  /\ acked' = acked \cup {u}
  /\ UNCHANGED refused

Next == \E u \in Updates : Save(u) \/ Ack(u) \/ Refuse(u) \/ Update(u)

Spec == Init /\ [][Next]_<<saved, acked, refused>>
=============================================================================
