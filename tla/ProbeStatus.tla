----------------------------- MODULE ProbeStatus -----------------------------
(***************************************************************************)
(* The six probe statuses, the labels they go by, and how each part of the *)
(* plugin reads the pair (label, HTTP status) that is stored per account.  *)
(*                                                                         *)
(* Labels come from the plugin itself, from state files of older versions, *)
(* and from the panel; letter case and blanks around them are left out.    *)
(***************************************************************************)
EXTENDS Integers

Statuses == {"live", "invalid", "dead", "throttled", "error", "unknown"}

\* Labels of older versions with one meaning.
Alias == [exceed |-> "invalid", failure |-> "invalid", cooling |-> "throttled"]

\* The empty label stands for never probed; one that nobody knows for the rest.
Labels == Statuses \cup DOMAIN Alias \cup {"unusual", "", "unheard-of"}

ClassifyProbeHTTP(http) ==
  CASE http \in 200..299 -> "live"
    [] http = 401        -> "invalid"
    [] http = 403        -> "dead"
    [] http = 429        -> "throttled"
    [] OTHER             -> "error"

NormalizeProbeStatus(label, http) ==
  CASE label \in Statuses     -> label
    [] label \in DOMAIN Alias -> Alias[label]
    [] label = "unusual"      -> IF http = 429 THEN "throttled" ELSE "error"
    [] OTHER                  -> IF http > 0 THEN ClassifyProbeHTTP(http) ELSE label

CanonicalProbeStatus(label, http) ==
  LET status == NormalizeProbeStatus(label, http) IN
  IF status = "" THEN "unknown" ELSE status

IsLiveProbe(label) == label = "live"

IsUnhealthyProbe(label) == CanonicalProbeStatus(label, 0) \notin {"live", "unknown"}

\* ApplyProbeResult: a result always names a status; unknown is not a result.
ResultStatus(label, http) ==
  LET status == NormalizeProbeStatus(label, http) IN
  CASE status = ""        -> ClassifyProbeHTTP(http)
    [] status = "unknown" -> "error"
    [] OTHER              -> status

\* ProjectAccount: the label of a row of the list.
ShownLabel(label, http) == IF label = "" THEN "" ELSE NormalizeProbeStatus(label, http)

\* The panel passes only these two fields on, and leaves out what is empty.
PanelCopy(label, http) ==
  [label |-> ShownLabel(label, http), http |-> IF http > 0 THEN http ELSE 0]
=============================================================================
