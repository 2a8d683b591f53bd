--------------------------- MODULE MCAccountPolicy ---------------------------
(* Instances of AccountPolicy for TLC: five small alphabets instead of one  *)
(* large one, for settings, for probe pairs and for numbers.                *)
EXTENDS AccountPolicy

Report(id, outcome, failed, status) ==
  [id |-> id, outcome |-> outcome, failed |-> failed, status |-> status,
   failureStatus |-> 0, bodyStatus |-> 0, body |-> FALSE, xai |-> TRUE,
   input |-> {}, output |-> {}, total |-> {}]

Success == Report("ok", "", {FALSE}, 200)
Refused == Report("refused", "", {TRUE}, 401)
Limited == Report("limited", "success", {FALSE}, 429)

\* The code of the failure stands in the failure object, or in its body only.
Nested  == [Report("nested", "", {}, 0) EXCEPT !.failureStatus = 403]
InBody  == [Report("body", "success", {FALSE}, 0) EXCEPT !.body = TRUE, !.bodyStatus = 403]
Foreign == [Refused EXCEPT !.id = "foreign", !.xai = FALSE]

Spent(id, outcome, input, output, total) ==
  [Report(id, outcome, {}, 0) EXCEPT !.input = input, !.output = output, !.total = total]

\* With MaxToken = 3 the sum of the second one is -2 in the code.  The last one
\* has the dedupe key of the first.
Numbers ==
  { Spent("exact", "success", {1}, {2}, {3}), Spent("wrapping", "cancelled", {3}, {3}, {2}),
    Spent("off", "success", {3}, {0}, {2}), Spent("partial", "", {2}, {}, {1}),
    Spent("negative", "success", {1}, {-1}, {0}), Spent("exact", "failure", {0}, {}, {1}) }

Pair(label, http) == [label |-> label, http |-> http]

\* Settings files: before priority_*, with one priority_* set by hand, of now.
MCFiles ==
  { [soft_debt_threshold |-> 6, dead_priority |-> -80, default_restore_priority |-> 7],
    [debt_probe_threshold |-> 0, demotion_priority |-> -90, anomaly_priority |-> 0],
    [priority_live |-> 5, priority_error |-> -20, anomaly_priority |-> -30] }

MCUpdates ==
  { [priority_live |-> 0], [default_restore_priority |-> 9, priority_invalid |-> 0],
    [anomaly_priority |-> -40, priority_error |-> -41],
    [dead_priority |-> -70, demotion_priority |-> -71],
    [priority_dead |-> 0, priority_unknown |-> 0, watch_priority |-> 0],
    [soft_debt_threshold |-> 2, debt_fail_429 |-> 0], [debt_probe_threshold |-> 0],
    [priority_live |-> 1000] }

MCEnvironments ==
  { [PRIORITY_DEAD |-> -60, DEAD_PRIORITY |-> -61, PRIORITY_LIVE |-> 0,
     DEFAULT_RESTORE_PRIORITY |-> 3],
    [DEMOTION_PRIORITY |-> -62, ANOMALY_PRIORITY |-> -33, PRIORITY_INVALID |-> -34],
    [PRIORITY_ERROR |-> -35, ANOMALY_PRIORITY |-> -33, PRIORITY_THROTTLED |-> 1000],
    [PRIORITY_LIVE |-> 0, PRIORITY_INVALID |-> 0, PRIORITY_DEAD |-> 0, PRIORITY_THROTTLED |-> 0,
     PRIORITY_UNKNOWN |-> 0, PRIORITY_ERROR |-> 0, DEFAULT_RESTORE_PRIORITY |-> 7] }

NoEnvironment == [x \in {} |-> 0]

Alphabet == [environments |-> {NoEnvironment}, files |-> {}, pairs |-> {Pair("", 0)},
             updates |-> {}, reports |-> {}, results |-> {}, plans |-> {},
             weak |-> {}, room |-> 10]

\* By what they are about: how settings come about, settings that change while
\* a report is handled, the pair of a probe and who writes it, reports of
\* failures, numbers.
MCInputs ==
  [ settings |-> [Alphabet EXCEPT !.environments = MCEnvironments, !.files = MCFiles,
                                  !.updates = MCUpdates],
    judging  |-> [Alphabet EXCEPT !.reports = {Success, Refused, Limited},
                                  !.updates = {[debt_fail_401 |-> 0, count_status_429 |-> TRUE],
                                               [soft_debt_threshold |-> 2, debt_success_decay |-> 0]}],
    pairs    |-> [Alphabet EXCEPT
       !.pairs = {Pair("", 0), Pair("exceed", 403), Pair("cooling", 429),
                  Pair("unusual", 429), Pair("unusual", 500)},
       !.reports = {Success, Refused},
       !.results = {Pair("live", 200), Pair("dead", 403), Pair("error", 0), Pair("failure", 403),
                    Pair("unusual", 429), Pair("unknown", 0), Pair("", 401),
                    Pair("unheard-of", 403)},
       !.plans = {[plan |-> "SuperGrok", source |-> "", used |-> 1, limit |-> 9]}],
    failures |-> [Alphabet EXCEPT
       !.reports = {Refused, Limited, Nested, InBody, Foreign},
       !.results = {Pair("dead", 403)}],
    numbers  |-> [Alphabet EXCEPT
       !.reports = Numbers, !.weak = {"partial", "off"}, !.room = 1] ]
=============================================================================
