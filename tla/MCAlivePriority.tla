-------------------------- MODULE MCAlivePriority --------------------------
(* Instances of AlivePriority for TLC.                                     *)
EXTENDS AlivePriority, TLC

\* DefaultSettings scaled: live 0, unknown -10, invalid = throttled = error
\* -50, dead -100.  Two statuses share a priority, as in the code.
MCPrio == [s \in Statuses |->
             CASE s = "live" -> 0 [] s = "unknown" -> -1 [] s = "dead" -> -10 [] OTHER -> -5]

\* Concurrent calls of usage.handle are interchangeable.
CallerSymmetry == Permutations(Callers)
=============================================================================
