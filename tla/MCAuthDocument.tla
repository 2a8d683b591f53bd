--------------------------- MODULE MCAuthDocument ---------------------------
(* Instances of AuthDocument for TLC.                                      *)
EXTENDS AuthDocument, TLC

\* Two surroundings where saves fail and files change, and one where everybody
\* writes the status.
MCModes ==
  { [rotates |-> TRUE,  managed |-> FALSE,
     allows  |-> {"host", "deaf", "network", "edit", "refresh", "restart"}],
    [rotates |-> FALSE, managed |-> TRUE,
     allows  |-> {"host", "deaf", "edit", "refresh", "restart"}],
    [rotates |-> TRUE,  managed |-> TRUE, allows  |-> {"report", "panel"}] }

\* The probe itself may answer "error" too: one dead status is enough here.
MCProbeResults == {}
MCPrio == [s \in Statuses |-> IF s = "unknown" THEN -10 ELSE -50]

Both    == [access |-> 0, refresh |-> 0]
Access  == [access |-> 0, refresh |-> Absent]
Renewal == [access |-> Empty, refresh |-> 0]

Starting(at, text) == [at |-> at, text |-> text, disabled |-> FALSE, priority |-> -10]

\* Four places: top level, container, `json', container below `json'.
MCLayouts ==
  { Starting(<<Both, Nothing, Nothing, Nothing>>, FALSE),
    Starting(<<Access, Renewal, Both, Nothing>>, FALSE),
    Starting(<<Nothing, Nothing, Nothing, Both>>, TRUE) }

ProcSymmetry == Permutations(Procs)
=============================================================================
