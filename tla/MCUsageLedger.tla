--------------------------- MODULE MCUsageLedger ---------------------------
(* Instances of UsageLedger for TLC.                                       *)
EXTENDS UsageLedger, TLC

\* Concurrent list requests are interchangeable.
PanelSymmetry == Permutations(Panels)
=============================================================================
