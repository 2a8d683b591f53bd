----------------------------- MODULE MCRuntime ------------------------------
(* Instances of Runtime for TLC.                                           *)
EXTENDS Runtime

CONSTANTS d1, d2

\* Two data directories, tried in this order.
TwoDirs == <<d1, d2>>
OneDir  == <<d1>>
=============================================================================
