------------------------------ MODULE Settings ------------------------------
(***************************************************************************)
(* Settings: their defaults, the environment, the state files of older     *)
(* versions, the update by the panel, and NormalizeSettings, which every   *)
(* reader applies to what is stored.                                       *)
(*                                                                         *)
(* Only fields that decide something are kept: the priority per status     *)
(* with the older fields it may come from, what debt is made of, and the   *)
(* token limit.  Debts are counted in halves.                              *)
(***************************************************************************)
EXTENDS ProbeStatus, Sequences

CONSTANT MaxPriority   \* priorities are accepted in -MaxPriority..MaxPriority

ASSUME MaxPriorityAssumption == MaxPriority \in Nat

Settings ==
  [priority : [Statuses -> Int],
   dead : Int, demotion : Int, anomaly : Int, restore : Int, watch : Int, soft : Int,
   threshold : Int, softThreshold : Int, fail401 : Int, fail429 : Int, decay : Int,
   count429 : BOOLEAN, count5xx : BOOLEAN, tokenLimit : Nat]

DefaultPriority ==
  [s \in Statuses |-> CASE s = "live"    -> 0
                        [] s = "dead"    -> -100
                        [] s = "unknown" -> -10
                        [] OTHER         -> -50]

DefaultSettings ==
  [priority |-> DefaultPriority,
   dead |-> -100, demotion |-> -100, anomaly |-> -50, restore |-> 0, watch |-> -10, soft |-> -10,
   threshold |-> 4, softThreshold |-> 4, fail401 |-> 3, fail429 |-> 1, decay |-> 2,
   count429 |-> FALSE, count5xx |-> FALSE, tokenLimit |-> 2000000]

\* The fields of a request that set the priority of a status: the first one
\* present wins.  The first one is also the name of the stored field.
Names ==
  [live      |-> <<"priority_live", "default_restore_priority">>,
   invalid   |-> <<"priority_invalid", "anomaly_priority">>,
   dead      |-> <<"priority_dead", "dead_priority", "demotion_priority">>,
   throttled |-> <<"priority_throttled", "anomaly_priority">>,
   unknown   |-> <<"priority_unknown">>,
   error     |-> <<"priority_error", "anomaly_priority">>]

-----------------------------------------------------------------------------
(* NormalizeSettings.                                                      *)

\* In these fields zero means that nothing was set.
Or(n, otherwise) == IF n # 0 THEN n ELSE otherwise

\* Where the priority of a status comes from when it was never set.
Older(settings, s) ==
  CASE s = "live"    -> IF \A t \in Statuses : settings.priority[t] = 0
                        THEN settings.restore ELSE 0
    [] s = "dead"    -> Or(settings.dead, Or(settings.demotion, DefaultPriority[s]))
    [] s = "unknown" -> DefaultPriority[s]
    [] OTHER         -> Or(settings.anomaly, DefaultPriority[s])

\* For a threshold only a positive value counts.
Positive(n, otherwise) == IF n > 0 THEN n ELSE otherwise

Threshold(settings) ==
  Positive(settings.threshold, Positive(settings.softThreshold, DefaultSettings.threshold))

\* Older versions read their own fields: each keeps a copy of what replaced it.
WithMirrors(settings) ==
  [settings EXCEPT !.dead          = settings.priority["dead"],
                   !.demotion      = settings.priority["dead"],
                   !.anomaly       = settings.priority["error"],
                   !.restore       = settings.priority["live"],
                   !.soft          = settings.watch,
                   !.softThreshold = settings.threshold]

\* Mutant of NormalizeSettings: the copies are taken before the gaps are filled.
NormalizeCopiesFirst(settings) ==
  [WithMirrors(settings) EXCEPT
    !.priority  = [s \in Statuses |-> Or(settings.priority[s], Older(settings, s))],
    !.threshold = Threshold(settings)]

NormalizeSettings(settings) ==
  WithMirrors([settings EXCEPT
    !.priority  = [s \in Statuses |-> Or(settings.priority[s], Older(settings, s))],
    !.threshold = Threshold(settings)])

\* A label nobody knows has the priority of unknown.
PriorityForProbeStatus(settings, label) ==
  LET status == CanonicalProbeStatus(label, 0) IN
  NormalizeSettings(settings).priority[IF status \in Statuses THEN status ELSE "unknown"]

-----------------------------------------------------------------------------
(* LoadSettings.  An environment is a function from the variables that are  *)
(* set to their values.                                                    *)

\* The value under a name in a function that need not have it.
In(file, name, otherwise) == IF name \in DOMAIN file THEN file[name] ELSE otherwise

\* envInt: what is out of range counts for nothing.
EnvInt(env, name, fallback) ==
  IF name \in DOMAIN env /\ env[name] \in -MaxPriority..MaxPriority THEN env[name] ELSE fallback

EnvName == [live |-> "PRIORITY_LIVE", invalid |-> "PRIORITY_INVALID", dead |-> "PRIORITY_DEAD",
            throttled |-> "PRIORITY_THROTTLED", unknown |-> "PRIORITY_UNKNOWN",
            error |-> "PRIORITY_ERROR"]

\* The alias of a status and the variables that take it away.  The anomaly
\* alias looks at PRIORITY_ERROR only and sets two more priorities with it.
EnvAlias(env, s) ==
  CASE s = "live" -> IF "PRIORITY_LIVE" \in DOMAIN env THEN {} ELSE {"DEFAULT_RESTORE_PRIORITY"}
    [] s = "dead" -> IF "PRIORITY_DEAD" \in DOMAIN env THEN {}
                     ELSE IF "DEAD_PRIORITY" \in DOMAIN env THEN {"DEAD_PRIORITY"}
                     ELSE {"DEMOTION_PRIORITY"}
    [] s = "unknown" -> {}
    [] OTHER -> IF "PRIORITY_ERROR" \in DOMAIN env THEN {} ELSE {"ANOMALY_PRIORITY"}

\* Mutant of EnvPriority: an alias goes before the variable that replaced it.
EnvPriorityAliasFirst(env, s) ==
  LET named == {alias \in {"DEAD_PRIORITY", "DEMOTION_PRIORITY"} : s = "dead" /\ alias \in DOMAIN env} IN
  IF named # {} THEN env[CHOOSE alias \in named : TRUE]
  ELSE EnvInt(env, EnvName[s], DefaultPriority[s])

EnvPriority(env, s) ==
  LET alias == EnvAlias(env, s) \cap DOMAIN env IN
  IF alias # {} THEN env[CHOOSE name \in alias : TRUE]
  ELSE EnvInt(env, EnvName[s], DefaultPriority[s])

\* The copies in the older fields matter only where the new field is zero.
LoadSettings(env) ==
  LET Debt(name, fallback) == IF In(env, name, -1) >= 0 THEN env[name] ELSE fallback IN
  NormalizeSettings([DefaultSettings EXCEPT
    !.priority  = [s \in Statuses |-> EnvPriority(env, s)],
    !.dead      = In(env, "DEMOTION_PRIORITY", In(env, "DEAD_PRIORITY", @)),
    !.demotion  = In(env, "DEMOTION_PRIORITY", @),
    !.restore   = In(env, "DEFAULT_RESTORE_PRIORITY", @),
    !.anomaly   = In(env, "ANOMALY_PRIORITY", @),
    !.threshold = Debt("DEBT_PROBE_THRESHOLD", @),
    !.fail401   = Debt("DEBT_FAIL_401", @),
    !.fail429   = Debt("DEBT_FAIL_429", @),
    !.decay     = Debt("DEBT_SUCCESS_DECAY", @),
    !.count429  = In(env, "COUNT_429", @),
    !.count5xx  = In(env, "COUNT_5XX", @)])

-----------------------------------------------------------------------------
(* decodeSnapshot: the settings in a state file.  A file is a function from *)
(* the fields it has to their values.                                      *)

DecodeSettings(file) ==
  LET watch     == In(file, "watch_priority", Or(In(file, "soft_demotion_priority", 0), -10))
      dead      == In(file, "dead_priority", Or(In(file, "demotion_priority", 0), -100))
      threshold == In(file, "debt_probe_threshold",
                      Positive(In(file, "soft_debt_threshold", 0), DefaultSettings.threshold))
  IN [priority      |-> [s \in Statuses |-> In(file, Names[s][1], 0)],
      dead          |-> dead,
      demotion      |-> Or(In(file, "demotion_priority", 0), dead),
      anomaly       |-> In(file, "anomaly_priority", -50),
      restore       |-> In(file, "default_restore_priority", 0),
      watch         |-> watch,
      soft          |-> Or(In(file, "soft_demotion_priority", 0), watch),
      threshold     |-> threshold,
      softThreshold |-> Or(In(file, "soft_debt_threshold", 0), threshold),
      fail401       |-> In(file, "debt_fail_401", DefaultSettings.fail401),
      fail429       |-> In(file, "debt_fail_429", DefaultSettings.fail429),
      decay         |-> In(file, "debt_success_decay", DefaultSettings.decay),
      count429      |-> In(file, "count_status_429", FALSE),
      count5xx      |-> In(file, "count_status_5xx", FALSE),
      tokenLimit    |-> In(file, "free_user_daily_token_limit", DefaultSettings.tokenLimit)]

\* Mutant of OmitEmpty: what debt is made of is left out where it is zero.
OmitEmptyDebts == {"debt_fail_401", "debt_fail_429", "debt_success_decay"}

\* The fields that save leaves out where they are zero.
OmitEmpty == {"watch_priority", "anomaly_priority", "dead_priority", "default_restore_priority",
              "soft_demotion_priority", "soft_debt_threshold", "demotion_priority"}

EncodeSettings(settings) ==
  LET other  == [watch_priority |-> settings.watch, anomaly_priority |-> settings.anomaly,
                 dead_priority |-> settings.dead, demotion_priority |-> settings.demotion,
                 default_restore_priority |-> settings.restore,
                 soft_demotion_priority |-> settings.soft,
                 debt_probe_threshold |-> settings.threshold,
                 soft_debt_threshold |-> settings.softThreshold,
                 debt_fail_401 |-> settings.fail401, debt_fail_429 |-> settings.fail429,
                 debt_success_decay |-> settings.decay,
                 count_status_429 |-> settings.count429, count_status_5xx |-> settings.count5xx,
                 free_user_daily_token_limit |-> settings.tokenLimit]
      own    == {Names[s][1] : s \in Statuses}
      fields == [name \in own \cup DOMAIN other |->
                   IF name \in own
                   THEN settings.priority[CHOOSE s \in Statuses : Names[s][1] = name]
                   ELSE other[name]]
  IN [name \in {n \in DOMAIN fields : n \in OmitEmpty => fields[n] # 0} |-> fields[name]]

-----------------------------------------------------------------------------
(* updateSettings.  An update is a function from the fields the request has *)
(* to their values.                                                        *)

Priorities == (UNION {{Names[s][i] : i \in DOMAIN Names[s]} : s \in Statuses})
              \cup {"watch_priority", "soft_demotion_priority"}

Thresholds == {"debt_probe_threshold", "soft_debt_threshold"}
Debts      == Thresholds \cup {"debt_fail_401", "debt_fail_429", "debt_success_decay"}

\* The first of the names that the update has, or what was there.
Given(update, names, old) ==
  LET given == {i \in DOMAIN names : names[i] \in DOMAIN update} IN
  IF given = {} THEN old
  ELSE update[names[CHOOSE i \in given : \A j \in given : i <= j]]

\* The checks of the request; debts have an upper bound too.
Acceptable(update) ==
  /\ DOMAIN update # {}
  /\ \A name \in DOMAIN update :
       /\ name \in Priorities => update[name] \in -MaxPriority..MaxPriority
       /\ name \in Debts => update[name] >= 0
       /\ name \in Thresholds \cup {"free_user_daily_token_limit"} => update[name] >= 1

Overwritten(settings, update) ==
  WithMirrors([settings EXCEPT
    !.priority   = [s \in Statuses |-> Given(update, Names[s], @[s])],
    !.watch      = Given(update, <<"watch_priority", "soft_demotion_priority">>, @),
    !.threshold  = Given(update, <<"debt_probe_threshold", "soft_debt_threshold">>, @),
    !.fail401    = Given(update, <<"debt_fail_401">>, @),
    !.fail429    = Given(update, <<"debt_fail_429">>, @),
    !.decay      = Given(update, <<"debt_success_decay">>, @),
    !.count429   = Given(update, <<"count_status_429">>, @),
    !.count5xx   = Given(update, <<"count_status_5xx">>, @),
    !.tokenLimit = Given(update, <<"free_user_daily_token_limit">>, @)])

\* Mutant of UpdatedSettings: the stored settings are overwritten as they are.
UpdatedWithoutNormalizing(settings, update) == NormalizeSettings(Overwritten(settings, update))

UpdatedSettings(settings, update) ==
  NormalizeSettings(Overwritten(NormalizeSettings(settings), update))
=============================================================================
