---------------------------- MODULE AccountPolicy ----------------------------
(***************************************************************************)
(* What is recorded about one account, and under which settings: the       *)
(* settings in the store or from the environment, the pair (label, HTTP    *)
(* status) of the last probe, debt, token and request counters, the plan.  *)
(*                                                                         *)
(* Writers: usage.handle (which reads the settings before its store        *)
(* update), probe results, the alive status operations behind the write    *)
(* mutex, the quota post of the panel, and the settings request.  Every    *)
(* store update is one step.  What the host's priority owes to all this is *)
(* in AlivePriority; which dedupe keys are forgotten, and when, and the     *)
(* daily reset are in UsageLedger.                                         *)
(***************************************************************************)
EXTENDS Settings, FiniteSetsExt

CONSTANTS
  Inputs,       \* alphabets by name: records of environments, files, pairs,
                \* updates, reports, results and plans that occur in a behaviour,
                \* the ids that are weak keys, and how many keys of each mode are kept
  None,         \* no call in a slot, no copy on the panel
  MaxCounter,   \* counters are 0..MaxCounter (2^64 - 1 in the code)
  MaxToken      \* token numbers of a request are -(MaxToken+1)..MaxToken (int64)

ASSUME WidthAssumption == MaxToken \in Nat /\ MaxCounter = 2 * MaxToken + 1

\* What is parsed has the types the code parses it to.
Flags    == {"COUNT_429", "COUNT_5XX", "count_status_429", "count_status_5xx"}
Unsigned == {"debt_fail_401", "debt_fail_429", "free_user_daily_token_limit"}

WellFormed(values) ==
  \A name \in DOMAIN values : values[name] \in (IF name \in Flags THEN BOOLEAN ELSE Int)

\* The pairs in a state file: a label that is known, or nothing.
KnownPair(pair) ==
  /\ pair.http \in Nat
  /\ pair.label \in Labels \ {"", "unheard-of"} \/ (pair.label = "" /\ pair.http = 0)

WellFormedReport(report) ==
  /\ report.status \in Nat /\ report.failureStatus \in Nat
  /\ report.bodyStatus \in (IF report.body THEN {0, 401, 403} ELSE {0})
  /\ report.body \in BOOLEAN /\ report.xai \in BOOLEAN
  /\ \A n \in report.input \cup report.output \cup report.total : n \in -(MaxToken + 1)..MaxToken

\* A result with a label that nobody knows comes with the answer it is about.
WellFormedResult(result) ==
  /\ result.label \in Labels /\ result.http \in Nat
  /\ result.label = "unheard-of" => result.http > 0

ASSUME InputsAssumption ==
  \A name \in DOMAIN Inputs :
    /\ \A values \in Inputs[name].environments \cup Inputs[name].files \cup Inputs[name].updates :
         WellFormed(values)
    /\ \A file \in Inputs[name].files :
         \A field \in Unsigned \cap DOMAIN file : file[field] >= 0
    /\ \A pair \in Inputs[name].pairs : KnownPair(pair)
    /\ \A report \in Inputs[name].reports : WellFormedReport(report)
    /\ \A result \in Inputs[name].results : WellFormedResult(result)
    /\ \A quota \in Inputs[name].plans : quota.used \in Int /\ quota.limit \in Int
    /\ Inputs[name].room \in Nat

VARIABLES
  alphabet,   \* what is sent in this behaviour: a name in Inputs
  env,        \* environment of the process
  settings,   \* store: the settings
  account,    \* store: label, http, debt, usage, quota
  keys,       \* store: dedupe keys of counted reports, as far as they are kept
  healing,    \* a heal is queued
  handler,    \* usage.handle: a report with the settings it read
  prober,     \* holder of the write mutex: the status it is about to record
  draft,      \* panel: its copy of the probe pair
  counted     \* history: <<report, n>> for each n-th time a report was counted

vars == <<alphabet, env, settings, account, keys, healing, handler, prober, draft, counted>>

inputs == Inputs[alphabet]

\* The settings as everybody reads them.
Effective == NormalizeSettings(settings)

-----------------------------------------------------------------------------
(* ParseUsageEvent: a report says in several places how a request went.     *)

\* In `failed' and the token numbers, {} stands for a field that is not there.
\* failureStatus and bodyStatus are codes in the failure object and in its body.
StatusCode(report) ==
  Or(report.status, Or(report.failureStatus, report.bodyStatus))

\* Mutant of Outcome: a `failed' that is there decides.
OutcomeByFailed(report) ==
  IF report.failed # {} THEN (IF report.failed = {TRUE} THEN "failure" ELSE "success")
  ELSE IF StatusCode(report) >= 400 \/ report.body THEN "failure" ELSE report.outcome

Outcome(report) ==
  CASE report.failed = {TRUE} \/ StatusCode(report) >= 400 \/ report.body -> "failure"
    [] OTHER -> IF report.failed = {FALSE} THEN "success" ELSE report.outcome

\* normalizeOutcome: what is neither success nor cancelled is a failure.
Kind(report) == IF Outcome(report) \in {"success", "cancelled"} THEN Outcome(report) ELSE "failed"

-----------------------------------------------------------------------------
(* ApplyUsage.                                                             *)

Tokens(report) == <<report.input, report.output, report.total>>

Value(number) == IF number = {} THEN 0 ELSE CHOOSE n \in number : TRUE

Count(condition) == IF condition THEN 1 ELSE 0

\* int64 addition.
Wrapped(n) == ((n + MaxToken + 1) % (MaxCounter + 1)) - (MaxToken + 1)

Counters == {"input", "output", "total", "missing", "inconsistent",
             "success", "cancelled", "failed"}

ZeroUsage == [c \in Counters |-> 0]

Missing(report) == \E i \in 1..3 : Tokens(report)[i] = {}

Increments(report) ==
  [c \in Counters |->
     CASE c = "input"   -> Value(report.input)
       [] c = "output"  -> Value(report.output)
       [] c = "total"   -> Value(report.total)
       [] c = "missing" -> Count(Missing(report))
       [] c = "inconsistent" ->
            Count(/\ ~Missing(report)
                  /\ Value(report.total) # Wrapped(Value(report.input) + Value(report.output)))
       [] OTHER -> Count(c = Kind(report))]

Negative(report) == \E i \in 1..3 : Value(Tokens(report)[i]) < 0

\* Mutant of Overflows: the counters wrap around instead.
NeverOverflows(usage, report) == FALSE

\* addCounter fails; the counters that were added to before it go with the
\* copy of the snapshot that Update throws away.
Overflows(usage, report) ==
  \E c \in Counters : usage[c] + Increments(report)[c] > MaxCounter

Added(usage, report) ==
  [c \in Counters |-> (usage[c] + Increments(report)[c]) % (MaxCounter + 1)]

-----------------------------------------------------------------------------
(* applyFailurePolicy.                                                     *)

Attributed(s, report) ==
  LET code == StatusCode(report) IN
  \/ code \in {401, 403}
  \/ code = 429 /\ s.count429
  \/ code \in 500..599 /\ s.count5xx

Weight(s, code) ==
  CASE code \in {401, 403} -> s.fail401
    [] code = 429          -> s.fail429
    [] OTHER               -> 0

\* Mutant of Decayed: debt is not kept from falling below zero.
DecayedBelowZero(debt, s) == debt - s.decay

Decayed(debt, s) == IF debt > s.decay THEN debt - s.decay ELSE 0

AfterSuccess(acct, s) ==
  IF IsLiveProbe(acct.label) THEN [acct EXCEPT !.debt = Decayed(@, s)]
  ELSE [acct EXCEPT !.label = "live", !.http = 200, !.debt = 0]

AfterFailure(acct, s, report) ==
  LET debt == acct.debt + Weight(s, StatusCode(report)) IN
  IF /\ report.xai /\ Attributed(s, report)
     /\ NormalizeProbeStatus(acct.label, acct.http) # "dead"
  THEN [acct EXCEPT !.debt = IF debt >= s.threshold THEN 0 ELSE debt]
  ELSE acct

Judged(acct, s, report) ==
  IF Kind(report) = "success" THEN AfterSuccess(acct, s) ELSE AfterFailure(acct, s, report)

-----------------------------------------------------------------------------
(* What an account is.                                                     *)

Plans   == {"SuperGrok", "SuperGrok Heavy", "Free", "unknown", ""}
Sources == {"billing", "local_estimate", "refresh_failed", ""}

NoQuota == [plan |-> "", source |-> "", used |-> 0, limit |-> 0]

Account == [label : Labels, http : Nat, debt : Nat, usage : [Counters -> 0..MaxCounter],
            quota : [plan : Plans, source : Sources, used : Int, limit : Int]]

-----------------------------------------------------------------------------
\* ensureReady: the settings of the state file, and without any those of the
\* environment, which are stored before the plugin answers to anything.
Init ==
  /\ alphabet \in DOMAIN Inputs
  /\ env \in inputs.environments
  /\ settings \in {LoadSettings(env)} \cup {DecodeSettings(file) : file \in inputs.files}
  /\ \E pair \in inputs.pairs :
       account = [label |-> pair.label, http |-> pair.http, debt |-> 0,
                  usage |-> ZeroUsage, quota |-> NoQuota]
  /\ keys = {}
  /\ healing = FALSE
  /\ handler = None
  /\ prober = None
  /\ draft = None
  /\ counted = {}

\* updateSettings starts from what is stored.  The settings that were in force
\* while a report is handled are remembered.
PutSettings(update) ==
  /\ Acceptable(update)
  /\ settings' = UpdatedSettings(settings, update)
  /\ handler' = IF handler = None THEN None
                ELSE [handler EXCEPT !.seen = @ \cup {Effective'}]
  /\ UNCHANGED <<alphabet, env, account, keys, healing, prober, draft, counted>>

\* Mutant of ReadSettings: the service keeps the settings it was built with.
ReadFallback == NormalizeSettings(LoadSettings(env))

ReadSettings == Effective

\* usage.handle, first half: the settings are read outside the store update.
Arrive(report) ==
  /\ handler = None
  /\ handler' = [report |-> report, settings |-> ReadSettings, seen |-> {Effective}]
  /\ UNCHANGED <<alphabet, env, settings, account, keys, healing, prober, draft, counted>>

\* dedupe, pruneDedupe, trimDedupe.  An id that the sender gave is an exact key,
\* what is made of a report's contents a weak one.  A weak key may be forgotten
\* after two minutes; when a mode holds more than inputs.room keys, one of them
\* goes.  Which, and when, is in UsageLedger.
SameMode(key, other) == (key \in inputs.weak) = (other \in inputs.weak)

Pruned == {keys \ gone : gone \in SUBSET (keys \cap inputs.weak)}

Remembered(kept, id) ==
  LET all   == kept \cup {id}
      alike == {key \in all : SameMode(key, id)}
  IN  IF Cardinality(alike) <= inputs.room THEN {all} ELSE {all \ {oldest} : oldest \in alike}

Times(report) == Cardinality({c \in counted : c[1] = report})

\* Second half, one store update: nothing but pruning for a report whose key is
\* there, and nothing at all is left of one with a bad number.
Duplicate(report, kept) ==
  /\ report.id \in kept
  /\ keys' = kept
  /\ UNCHANGED <<account, healing, counted>>

Reject(report, kept) ==
  /\ report.id \notin kept
  /\ Negative(report) \/ Overflows(account.usage, report)
  /\ UNCHANGED <<account, keys, healing, counted>>

Accept(report, kept) ==
  /\ report.id \notin kept
  /\ ~Negative(report) /\ ~Overflows(account.usage, report)
  /\ account' = Judged([account EXCEPT !.usage = Added(@, report)], handler.settings, report)
  /\ keys' \in Remembered(kept, report.id)
  /\ healing' = (healing \/ (Kind(report) = "success" /\ ~IsLiveProbe(account.label)))
  /\ counted' = counted \cup {<<report, Times(report) + 1>>}

Commit ==
  /\ handler # None
  /\ \E kept \in Pruned :
       \/ Duplicate(handler.report, kept)
       \/ Reject(handler.report, kept)
       \/ Accept(handler.report, kept)
  /\ handler' = None
  /\ UNCHANGED <<alphabet, env, settings, prober, draft>>

-----------------------------------------------------------------------------
(* The operations behind the write mutex; host calls are in AlivePriority.  *)

\* ApplyProbeResult, its own update.
Mark(result) ==
  /\ prober = None
  /\ LET status == ResultStatus(result.label, result.http) IN
       /\ account' = [account EXCEPT !.label = status, !.http = result.http,
                        !.quota.plan = IF @ = "" THEN "unknown" ELSE @]
       /\ prober' = [status |-> status, clear |-> FALSE]
  /\ UNCHANGED <<alphabet, env, settings, keys, healing, handler, draft, counted>>

\* ApplyAliveStatus of the queued heal, and of a resign.
TakeHeal ==
  /\ prober = None /\ healing
  /\ healing' = FALSE
  /\ prober' = [status |-> "live", clear |-> TRUE]
  /\ UNCHANGED <<alphabet, env, settings, account, keys, handler, draft, counted>>

Resign ==
  /\ prober = None
  /\ prober' = [status |-> "unknown", clear |-> FALSE]
  /\ UNCHANGED <<alphabet, env, settings, account, keys, healing, handler, draft, counted>>

\* Mutant of Recorded: the HTTP status of the last probe stays.
RecordedKeepingHTTP(acct, status) ==
  IF CanonicalProbeStatus(status, 0) = "unknown" THEN [acct EXCEPT !.label = ""]
  ELSE [acct EXCEPT !.label = CanonicalProbeStatus(status, 0)]

\* applyAliveStatusLocked: unknown clears the pair, every other status leaves
\* the HTTP status to what is there.
Recorded(acct, status) ==
  IF CanonicalProbeStatus(status, 0) = "unknown" THEN [acct EXCEPT !.label = "", !.http = 0]
  ELSE [acct EXCEPT !.label = CanonicalProbeStatus(status, 0)]

Bind ==
  /\ prober # None
  /\ account' = [Recorded(account, prober.status) EXCEPT !.debt = IF prober.clear THEN 0 ELSE @]
  /\ prober' = None
  /\ UNCHANGED <<alphabet, env, settings, keys, healing, handler, draft, counted>>

-----------------------------------------------------------------------------
(* The panel and the process.                                              *)

CopyRow ==
  /\ draft' = PanelCopy(account.label, account.http)
  /\ UNCHANGED <<alphabet, env, settings, account, keys, healing, handler, prober, counted>>

\* The quota route: plans and sources it knows; an empty source is derived.
SourceOf(quota) ==
  IF quota.source # "" THEN quota.source
  ELSE CASE quota.plan \in {"", "unknown"}          -> "refresh_failed"
         [] quota.plan = "Free" /\ quota.limit <= 0 -> "local_estimate"
         [] OTHER                                   -> "billing"

Postable(quota) ==
  /\ quota.plan \in Plans
  /\ quota.source \in Sources

\* The panel's own probes go by the HTTP status alone.
PanelResults == {result \in inputs.results : result.label = ClassifyProbeHTTP(result.http)}

\* The whole snapshot is replaced, with the pair of the copy or with that of a
\* probe whose own request failed.
PostQuota(quota, pair) ==
  /\ Postable(quota)
  /\ pair # None
  /\ account' = [account EXCEPT
       !.quota = [plan |-> IF quota.plan = "" THEN "unknown" ELSE quota.plan,
                  source |-> SourceOf(quota), used |-> quota.used, limit |-> quota.limit],
       !.label = ShownLabel(pair.label, pair.http),
       !.http  = pair.http]
  /\ UNCHANGED <<alphabet, env, settings, keys, healing, handler, prober, draft, counted>>

\* The process ends; the next one loads the state file.  Its own environment
\* has no say, since the file holds settings from the first start on.
Restart(e) ==
  /\ env' = e
  /\ settings' = DecodeSettings(EncodeSettings(settings))
  /\ healing' = FALSE
  /\ handler' = None
  /\ prober' = None
  /\ UNCHANGED <<alphabet, account, keys, draft, counted>>

-----------------------------------------------------------------------------
UsageStep == (\E report \in inputs.reports : Arrive(report)) \/ Commit

ProbeStep == (\E result \in inputs.results : Mark(result)) \/ TakeHeal \/ Resign \/ Bind

PanelStep ==
  \/ \E update \in inputs.updates : PutSettings(update)
  \/ CopyRow
  \/ \E quota \in inputs.plans, pair \in {draft} \cup PanelResults : PostQuota(quota, pair)

Next == UsageStep \/ ProbeStep \/ PanelStep \/ \E e \in inputs.environments : Restart(e)

Spec == Init /\ [][Next]_vars

-----------------------------------------------------------------------------
(* Properties.                                                             *)

\* Debt is never negative, however successes, lowered weights and clears mix.
TypeOK ==
  /\ alphabet \in DOMAIN Inputs
  /\ env \in inputs.environments
  /\ settings \in Settings
  /\ account \in Account
  /\ keys \subseteq {report.id : report \in inputs.reports}
  /\ counted \subseteq inputs.reports \X Nat
  /\ healing \in BOOLEAN
  /\ handler # None => handler.report \in inputs.reports /\ handler.settings \in Settings
  /\ prober # None => prober.status \in Labels
  /\ draft # None => draft.label \in Labels /\ draft.http \in Nat

\* Everybody who reads the stored pair reads the same status: the row on the
\* panel, sync-priority, the debt freeze of usage.handle, the skip of automatic
\* probes and the test for a heal, whoever wrote which half of the pair.
ReadersAgree ==
  LET synced == CanonicalProbeStatus(account.label, account.http) IN
  /\ CanonicalProbeStatus(ShownLabel(account.label, account.http), 0) = synced
  /\ (NormalizeProbeStatus(account.label, account.http) = "dead") <=> (synced = "dead")
  /\ (NormalizeProbeStatus(account.label, 0) = "dead") <=> (synced = "dead")
  /\ IsLiveProbe(account.label) <=> (synced = "live")
  /\ IsUnhealthyProbe(ShownLabel(account.label, account.http)) <=> (synced \notin {"live", "unknown"})

\* The counters are what the counted reports add up to, as often as each was
\* counted; token numbers that do not add up are found although the sum of two
\* numbers may leave the range of int64.  Nothing is taken for a duplicate that
\* was not counted, and as long as the ids that senders gave fit the room for
\* keys, every report with such an id is remembered and was counted once.
Total(field) ==
  SumFunctionOnSet([c \in inputs.reports \X Nat |-> Value(c[1][field])], counted)

Inconsistent(report) ==
  ~Missing(report) /\ Value(report.total) # Value(report.input) + Value(report.output)

CountedIds == {c[1].id : c \in counted}

ExactCountedOnce ==
  Cardinality(CountedIds \ inputs.weak) <= inputs.room =>
    /\ CountedIds \ inputs.weak \subseteq keys
    /\ \A first, second \in counted :
         first[1].id = second[1].id /\ first[1].id \notin inputs.weak => first = second

CountersExact ==
  /\ keys \subseteq CountedIds
  /\ ExactCountedOnce
  /\ \A field \in {"input", "output", "total"} : account.usage[field] = Total(field)
  /\ account.usage["missing"] = Cardinality({c \in counted : Missing(c[1])})
  /\ account.usage["inconsistent"] = Cardinality({c \in counted : Inconsistent(c[1])})
  /\ \A kind \in {"success", "cancelled", "failed"} :
       account.usage[kind] = Cardinality({c \in counted : Kind(c[1]) = kind})

\* A request that failed by the flag, by a body of the failure or by the status
\* code that ParseUsageEvent goes by, that of the report or without one that of
\* its failure, never heals an account, never lowers its debt but to zero, and is
\* counted as failed.  The code takes two other reports for a success: one whose
\* outcome is a failure with failed = false, and one with the status 200 around
\* a failure with a status of 400 or more.
ReportsFailure(report) ==
  \/ report.failed = {TRUE} \/ report.body \/ report.status >= 400
  \/ report.status = 0 /\ report.failureStatus >= 400

FailureNeverHeals ==
  [][handler # None /\ handler' = None /\ counted' # counted /\ ReportsFailure(handler.report) =>
       /\ account'.label = account.label /\ account'.http = account.http
       /\ healing' = healing
       /\ account'.debt >= account.debt \/ account'.debt = 0
       /\ account'.usage["failed"] = account.usage["failed"] + 1]_vars

\* A report is judged by settings that were in force at some moment since it
\* arrived, never by older ones and never half by one and half by another.
JudgedInForce ==
  [][handler # None /\ counted' # counted =>
       \E s \in handler.seen : account'.debt = Judged(account, s, handler.report).debt]_vars

\* A settings request changes exactly the priorities, weights and thresholds it
\* names, under their own or their older names, whatever the stored settings
\* came from.  Zero, for another status than live, asks for a default.
UpdateIsExact ==
  [][\A update \in inputs.updates : PutSettings(update) =>
       LET before == Effective  after == Effective' IN
       /\ \A s \in Statuses :
            LET asked == Given(update, Names[s], before.priority[s]) IN
            after.priority[s] = asked \/ (s # "live" /\ asked = 0)
       /\ after.threshold = Given(update, <<"debt_probe_threshold", "soft_debt_threshold">>,
                                  before.threshold)
       /\ after.fail401 = In(update, "debt_fail_401", before.fail401)
       /\ after.fail429 = In(update, "debt_fail_429", before.fail429)
       /\ after.decay = In(update, "debt_success_decay", before.decay)]_vars

\* Settings that were normalised once read the same when they are normalised
\* again, as every reader does, and only live can be bound to the priority zero:
\* whatever the label, an account that is not live never competes with a live
\* one at its default.
OneReading ==
  /\ NormalizeSettings(Effective) = Effective
  /\ \A label \in Labels \ {"live"} : PriorityForProbeStatus(settings, label) # 0
  /\ Effective.threshold > 0

\* What decides is the same after the settings went to the state file and back.
Deciding(s) == [priority |-> s.priority, threshold |-> s.threshold, fail401 |-> s.fail401,
                fail429 |-> s.fail429, decay |-> s.decay, tokenLimit |-> s.tokenLimit]

SettingsSurviveRestart ==
  Deciding(NormalizeSettings(DecodeSettings(EncodeSettings(settings)))) = Deciding(Effective)

\* A priority variable of the environment is obeyed before any older one, with
\* the exception the code makes for CPA_GROK_ANOMALY_PRIORITY.  Zero asks for a
\* default, for live only where no other status has a priority either.
EnvIsObeyed ==
  \A s \in Statuses :
    LET name == EnvName[s]
        overruled == /\ s \in {"invalid", "throttled"}
                     /\ "ANOMALY_PRIORITY" \in DOMAIN env /\ "PRIORITY_ERROR" \notin DOMAIN env
    IN name \in DOMAIN env /\ ~overruled =>
         \/ LoadSettings(env).priority[s] = env[name]
         \/ env[name] \notin -MaxPriority..MaxPriority
         \/ env[name] = 0 /\ (s # "live" \/ \A t \in Statuses : EnvPriority(env, t) = 0)
=============================================================================
