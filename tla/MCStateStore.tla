---------------------------- MODULE MCStateStore ----------------------------
(* Instances of StateStore for TLC.                                        *)
EXTENDS StateStore, TLC

\* Updates are interchangeable.
UpdateSymmetry == Permutations(Updates)
=============================================================================
