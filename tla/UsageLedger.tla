---------------------------- MODULE UsageLedger ----------------------------
(***************************************************************************)
(* The usage ledger of cpa-grok-panel: what usage.handle counts, what the  *)
(* panel shows, and the daily reset.                                       *)
(*                                                                         *)
(* The host serves requests, keeps lifetime request counters per account   *)
(* and reports each request in a usage event that may never arrive or      *)
(* arrive several times.  The plugin counts the events it has not seen     *)
(* before and shows, per account and outcome, the larger of its own count  *)
(* and what the host counted since a baseline taken in the same period.    *)
(* List takes the host list once, binds the missing baselines to it and    *)
(* projects it on a later view of the store: four steps (host list, view,  *)
(* update, view) that usage events, other lists and the daily reset may    *)
(* interleave.                                                             *)
(*                                                                         *)
(* Token counters follow the same path as the request counters and are     *)
(* left out; so is the failure policy, which is in AlivePriority.          *)
(***************************************************************************)
EXTENDS Integers, FiniteSets, Functions

CONSTANTS
  Accounts,       \* auth_index values
  Outcomes,       \* outcomes that are counted and shown ("success", "failure")
  Events,         \* usage events, one per request the host serves
  ExactEvents,    \* those that carry an event_id; the others are deduped weakly
  Panels,         \* concurrent list requests
  HostLifetime,   \* what the host had counted before the plugin saw the account
  MaxDedupe,      \* keys kept per dedupe map (4096 in the code)
  WeakTTL,        \* lifetime of a weak key (2 minutes)
  WeakBucket,     \* width of the time bucket in a weak key (10 seconds)
  DayLength,      \* clock ticks per day
  ResetTimes,     \* values of settings.daily_usage_reset_time that are tried
  NoReset,        \* daily_usage_reset_enabled = false
  MaxTime,        \* bound: the clock stops here
  MaxDeliveries   \* bound: deliveries of one event

ASSUME LedgerAssumption ==
  /\ ExactEvents \subseteq Events
  /\ HostLifetime \in Nat
  /\ MaxDedupe \in Nat \ {0} /\ WeakTTL \in Nat /\ WeakBucket \in Nat \ {0}
  /\ DayLength \in Nat \ {0}
  /\ ResetTimes \subseteq 0..(DayLength - 1)
  /\ NoReset \notin Nat
  /\ MaxTime \in Nat /\ MaxDeliveries \in Nat

\* An event_id is no fingerprint: the plugin keeps the two kinds in two maps.
ASSUME KeysAssumption ==
  \A e \in Events : e \notin [acct : Accounts, outcome : Outcomes, bucket : Nat]

VARIABLES
  now,         \* the clock
  request,     \* host: event -> the request it reports, NoRequest before it
  host,        \* host: account -> outcome -> lifetime requests
  delivered,   \* event -> how often usage.handle got it
  usage,       \* store: account -> request counts and period_started_at
  baseline,    \* store: account -> host_request_baseline, or NoBaseline
  exactIds,    \* store: event_id -> when it was recorded
  weakKeys,    \* store: weak key -> when it was recorded
  resetDate,   \* store: last_usage_reset_date
  dailyReset,  \* store: the reset time in the settings, or NoReset
  list,        \* panel -> the List call it is inside
  job,         \* UsageResetWorker.RunOnce
  recorded,    \* history: key -> when it was last counted
  restarted,   \* history: accounts whose period was started by the daily reset
  shown,       \* history: account -> the largest counts returned in its period
  floor        \* history: panel -> what `shown' was when its call began

vars == <<now, request, host, delivered, usage, baseline, exactIds, weakKeys,
          resetDate, dailyReset, list, job, recorded, restarted, shown, floor>>

hostVars   == <<request, host>>
dedupeVars == <<exactIds, weakKeys, recorded>>
resetVars  == <<resetDate, dailyReset, job, restarted>>
listVars   == <<list, shown, floor>>

Zero       == [o \in Outcomes |-> 0]
NoRequest  == [at |-> 0]
NoBaseline == [period |-> 0]
NoUsage    == [count |-> Zero, period |-> 0]
NoneShown  == [a \in Accounts |-> Zero]
IdleList   == [pc |-> "idle"]
IdleJob    == [pc |-> "idle"]

Max0(n)    == IF n > 0 THEN n ELSE 0
Larger(m, n) == IF m > n THEN m ELSE n
Date(t)    == t \div DayLength

\* Time zero is Go's zero time, so clock and periods start at one and the first
\* date that can be recorded is told apart from none (-1).
Init ==
  /\ now = 1
  /\ request = [e \in Events |-> NoRequest]
  /\ host = [a \in Accounts |-> [o \in Outcomes |-> HostLifetime]]
  /\ delivered = [e \in Events |-> 0]
  /\ usage = [a \in Accounts |-> NoUsage]
  /\ baseline = [a \in Accounts |-> NoBaseline]
  /\ exactIds = <<>>
  /\ weakKeys = <<>>
  /\ resetDate = -1
  /\ dailyReset = NoReset
  /\ list = [k \in Panels |-> IdleList]
  /\ job = IdleJob
  /\ recorded = <<>>
  /\ restarted = {}
  /\ shown = NoneShown
  /\ floor = [k \in Panels |-> NoneShown]

-----------------------------------------------------------------------------
(* The environment.                                                        *)

Tick ==
  /\ now < MaxTime
  /\ now' = now + 1
  /\ UNCHANGED <<hostVars, delivered, usage, baseline, dedupeVars, resetVars, listVars>>

\* The host serves a request and counts it; its event is under way.
Serve(e, a, o) ==
  /\ request[e] = NoRequest
  /\ request' = [request EXCEPT ![e] = [acct |-> a, outcome |-> o, at |-> now]]
  /\ host' = [host EXCEPT ![a][o] = @ + 1]
  /\ UNCHANGED <<now, delivered, usage, baseline, dedupeVars, resetVars, listVars>>

-----------------------------------------------------------------------------
(* usage.handle: dedupe, ApplyUsage and the dedupe record in one commit.    *)

\* The fingerprint of an event without event_id: the time is truncated.
WeakKey(e) == [acct |-> request[e].acct, outcome |-> request[e].outcome,
               bucket |-> request[e].at \div WeakBucket]

Record(seen, key) == [k \in DOMAIN seen \cup {key} |-> IF k = key THEN now ELSE seen[k]]

Pruned(seen) == Restrict(seen, {k \in DOMAIN seen : now - seen[k] <= WeakTTL})

Oldest(seen) == {k \in DOMAIN seen : \A l \in DOMAIN seen : seen[k] <= seen[l]}

\* Mutant of Trimmed: the newest key goes.
TrimmedNewest(seen) ==
  IF Cardinality(DOMAIN seen) <= MaxDedupe THEN {seen}
  ELSE {Restrict(seen, DOMAIN seen \ {k}) :
          k \in {l \in DOMAIN seen : \A m \in DOMAIN seen : seen[m] <= seen[l]}}

\* deleteOldest iterates over a Go map: of several oldest keys any one goes.
Trimmed(seen) ==
  IF Cardinality(DOMAIN seen) <= MaxDedupe THEN {seen}
  ELSE {Restrict(seen, DOMAIN seen \ {k}) : k \in Oldest(seen)}

\* Mutant of Duplicate: an event without event_id is never a duplicate.
DuplicateIdOnly(e) == e \in ExactEvents /\ e \in DOMAIN exactIds

Duplicate(e) ==
  IF e \in ExactEvents THEN e \in DOMAIN exactIds
  ELSE WeakKey(e) \in DOMAIN Pruned(weakKeys)

\* ApplyUsage starts the first period of an account with its first event.
Counted(u, e) ==
  [count  |-> [u.count EXCEPT ![request[e].outcome] = @ + 1],
   period |-> IF u.period = 0 THEN request[e].at ELSE u.period]

Deliver(e) ==
  /\ request[e] # NoRequest
  /\ delivered[e] < MaxDeliveries
  /\ delivered' = [delivered EXCEPT ![e] = @ + 1]
  /\ UNCHANGED <<now, hostVars, baseline, resetVars, listVars>>
  /\ \/ /\ Duplicate(e)
        /\ weakKeys' = Pruned(weakKeys)
        /\ UNCHANGED <<usage, exactIds, recorded>>
     \/ /\ ~Duplicate(e)
        /\ usage' = [usage EXCEPT ![request[e].acct] = Counted(@, e)]
        /\ \/ /\ e \in ExactEvents
              /\ exactIds' \in Trimmed(Record(exactIds, e))
              /\ weakKeys' = Pruned(weakKeys)
              /\ recorded' = Record(recorded, e)
           \/ /\ e \notin ExactEvents
              /\ weakKeys' \in Trimmed(Record(Pruned(weakKeys), WeakKey(e)))
              /\ recorded' = Record(recorded, WeakKey(e))
              /\ UNCHANGED exactIds

-----------------------------------------------------------------------------
(* AccountsService.List: bind the baselines, then project the accounts.     *)

\* The period of an account at time t; an account without one starts it now.
PeriodAt(a, t) == IF usage[a].period = 0 THEN t ELSE usage[a].period

NeedsBind(a, t) == baseline[a] = NoBaseline \/ baseline[a].period # PeriodAt(a, t)

ListFiles(k) ==
  /\ list[k].pc = "idle"
  /\ list' = [list EXCEPT ![k] = [pc |-> "listed", host |-> host]]
  /\ floor' = [floor EXCEPT ![k] = shown]
  /\ UNCHANGED <<now, hostVars, delivered, usage, baseline, dedupeVars, resetVars, shown>>

\* What remains of a call when the baselines are bound: the host list it projects.
Bound(l) == [pc |-> "bound", host |-> l.host]

\* The accounts that need a baseline in the view; nothing is written without any.
PlanBind(k) ==
  /\ list[k].pc = "listed"
  /\ LET pending == {a \in Accounts : NeedsBind(a, now)} IN
       list' = [list EXCEPT ![k] =
                  IF pending = {} THEN Bound(@)
                  ELSE [pc |-> "planned", host |-> @.host, pending |-> pending, at |-> now]]
  /\ UNCHANGED <<now, hostVars, delivered, usage, baseline, dedupeVars, resetVars, shown, floor>>

\* BindHostRequestBaseline: no baseline but counted requests means the state of
\* an older version, whose host counters are shown in full.
NewBaseline(a, hostCount, t) ==
  [count  |-> IF baseline[a] = NoBaseline /\ usage[a].count # Zero THEN Zero ELSE hostCount,
   period |-> PeriodAt(a, t)]

\* The accounts of `bound' get their baselines from the host list of panel k.
Bind(k, bound) ==
  /\ baseline' = [a \in Accounts |->
                    IF a \in bound THEN NewBaseline(a, list[k].host[a], list[k].at) ELSE baseline[a]]
  /\ usage' = [a \in Accounts |->
                 IF a \in bound THEN [usage[a] EXCEPT !.period = PeriodAt(a, list[k].at)]
                 ELSE usage[a]]
  /\ list' = [list EXCEPT ![k] = Bound(@)]
  /\ UNCHANGED <<now, hostVars, delivered, dedupeVars, resetVars, shown, floor>>

\* Mutant of BindBaselines: what the view needed is bound without looking again.
BindWithoutRecheck(k) == list[k].pc = "planned" /\ Bind(k, list[k].pending)

\* The store update decides again, account by account.
BindBaselines(k) ==
  /\ list[k].pc = "planned"
  /\ Bind(k, {a \in list[k].pending : NeedsBind(a, list[k].at)})

\* ApplyHostRequestDisplay: the number of requests panel k shows.  Its host count
\* is the one the call listed first, the rest is read now.
Shown(k, a, o) ==
  IF baseline[a] = NoBaseline THEN usage[a].count[o]
  ELSE Larger(usage[a].count[o], Max0(list[k].host[a][o] - baseline[a].count[o]))

\* The second view: the accounts are projected and the call returns.
View(k) ==
  /\ list[k].pc = "bound"
  /\ list' = [list EXCEPT ![k] = IdleList]
  /\ shown' = [a \in Accounts |-> [o \in Outcomes |-> Larger(shown[a][o], Shown(k, a, o))]]
  /\ floor' = [floor EXCEPT ![k] = NoneShown]
  /\ UNCHANGED <<now, hostVars, delivered, usage, baseline, dedupeVars, resetVars>>

\* The histories of what was shown begin again with the period.
ShowAfresh(S) ==
  /\ shown' = [a \in Accounts |-> IF a \in S THEN Zero ELSE shown[a]]
  /\ floor' = [k \in Panels |-> [a \in Accounts |-> IF a \in S THEN Zero ELSE floor[k][a]]]

ClearState(a) ==
  /\ usage[a] # NoUsage
  /\ usage' = [usage EXCEPT ![a] = NoUsage]
  /\ baseline' = [baseline EXCEPT ![a] = NoBaseline]
  /\ restarted' = restarted \ {a}
  /\ ShowAfresh({a})
  /\ UNCHANGED <<now, hostVars, delivered, dedupeVars, resetDate, dailyReset, job, list>>

-----------------------------------------------------------------------------
(* UsageResetWorker.RunOnce: what it read before the update may be old.     *)

SetDailyReset(r) ==
  /\ dailyReset' = r
  /\ UNCHANGED <<now, hostVars, delivered, usage, baseline, dedupeVars, resetDate, job, restarted,
                 listVars>>

\* Mutant of Due: the reset must hit its tick.
DueAtTick(t, r) == t % DayLength = r

Due(t, r) == t % DayLength >= r

ResetCheck ==
  /\ job.pc = "idle"
  /\ dailyReset # NoReset
  /\ Due(now, dailyReset)
  /\ resetDate # Date(now)
  /\ job' = [pc |-> "due", time |-> dailyReset, at |-> now]
  /\ UNCHANGED <<now, hostVars, delivered, usage, baseline, dedupeVars, resetDate, dailyReset,
                 restarted, listVars>>

\* An account without a period is not in the state map, or has nothing to reset.
HasState(a) == usage[a].period # 0

\* Mutant of ResetUsage: the baseline of the last period is kept.
ResetCountsOnly(t) ==
  /\ usage' = [a \in Accounts |->
                 IF HasState(a) THEN [count |-> Zero, period |-> t] ELSE usage[a]]
  /\ restarted' = restarted \cup {a \in Accounts : HasState(a)}
  /\ ShowAfresh(Accounts)
  /\ UNCHANGED baseline

ResetUsage(t) ==
  /\ usage' = [a \in Accounts |->
                 IF HasState(a) THEN [count |-> Zero, period |-> t] ELSE usage[a]]
  /\ baseline' = [a \in Accounts |-> NoBaseline]
  /\ restarted' = restarted \cup {a \in Accounts : HasState(a)}
  /\ ShowAfresh(Accounts)

\* Mutant of ResetAccounts: the settings are not read again in the update.
ResetWithOldSettings ==
  /\ job.pc = "due"
  /\ ResetUsage(job.at)
  /\ resetDate' = Date(job.at)
  /\ job' = IdleJob
  /\ UNCHANGED <<now, hostVars, delivered, dedupeVars, dailyReset, list>>

ResetAccounts ==
  /\ job.pc = "due"
  /\ IF dailyReset = job.time /\ resetDate # Date(job.at)
     THEN ResetUsage(job.at) /\ resetDate' = Date(job.at)
     ELSE UNCHANGED <<usage, baseline, restarted, resetDate, shown, floor>>
  /\ job' = IdleJob
  /\ UNCHANGED <<now, hostVars, delivered, dedupeVars, dailyReset, list>>

\* Every update is on disk when it returns: a restart loses the calls only.
Restart ==
  /\ list' = [k \in Panels |-> IdleList]
  /\ job' = IdleJob
  /\ floor' = [k \in Panels |-> NoneShown]
  /\ UNCHANGED <<now, hostVars, delivered, usage, baseline, dedupeVars, resetDate, dailyReset,
                 restarted, shown>>

-----------------------------------------------------------------------------
HostStep == \E e \in Events, a \in Accounts, o \in Outcomes : Serve(e, a, o)

PanelStep ==
  \/ \E k \in Panels : ListFiles(k) \/ PlanBind(k) \/ BindBaselines(k) \/ View(k)
  \/ \E a \in Accounts : ClearState(a)
  \/ \E r \in ResetTimes \cup {NoReset} : SetDailyReset(r)

Next ==
  \/ Tick
  \/ HostStep
  \/ \E e \in Events : Deliver(e)
  \/ PanelStep
  \/ ResetCheck
  \/ ResetAccounts
  \/ Restart

Spec == Init /\ [][Next]_vars

\* RunOnce runs every thirty seconds and once at start; its store update ends.
\* The process is not killed each time between the check and the update.
FairSpec == Spec /\ WF_vars(ResetCheck) /\ SF_vars(ResetAccounts)

\* The key an event is known by, and the other keys of its kind that were counted
\* when this one was, or later.
KeyOf(e) == IF e \in ExactEvents THEN e ELSE WeakKey(e)

Newer(e) ==
  {k \in DOMAIN recorded \ {KeyOf(e)} :
     (k \in ExactEvents <=> e \in ExactEvents) /\ recorded[k] >= recorded[KeyOf(e)]}

\* What was counted under this key comes again before MaxDedupe newer keys were
\* counted and, without event_id, before the key's lifetime is over.
Prompt(e) ==
  KeyOf(e) \in DOMAIN recorded =>
    /\ Cardinality(Newer(e)) < MaxDedupe
    /\ e \in ExactEvents \/ now - recorded[KeyOf(e)] <= WeakTTL

\* The host that a count can be exact for: dedupe keeps no key for ever.
PromptNext == Next /\ \A e \in Events : Deliver(e) => Prompt(e)

PromptSpec == Init /\ [][PromptNext]_vars

-----------------------------------------------------------------------------
(* Properties.                                                             *)

\* As long as what is delivered again is prompt (PromptSpec), the plugin counts
\* no more requests than the host served since it knows the account, and a list
\* shows no more than the host ever served: replays, resets, stale lists and
\* restarts count nothing twice (08-testing-release.md).
ShownIsReal ==
  \A a \in Accounts, o \in Outcomes :
    /\ usage[a].count[o] <= host[a][o] - HostLifetime
    /\ \A k \in Panels : list[k].pc = "bound" => Shown(k, a, o) <= host[a][o]

\* A baseline always belongs to the current period of its account, whatever
\* reset or list overtook the list that bound it.
BoundToPeriod == \A a \in Accounts : baseline[a] # NoBaseline => baseline[a].period = usage[a].period

\* Within a period the panel never counts backwards: a list shows no less than
\* any list that had returned when it was called, although other lists may bind
\* the baseline between its steps (a period ends with the daily reset or when the
\* operator clears the account's state).  Lists that overlap may show less.
ShownNeverDrops ==
  \A k \in Panels, a \in Accounts, o \in Outcomes :
    list[k].pc = "bound" => Shown(k, a, o) >= floor[k][a][o]

\* Counts are reset once per date, no earlier than the time set for it, and only
\* under the setting that is in force when the counts go.
ResetIsDue ==
  [][resetDate' # resetDate =>
       /\ resetDate' > resetDate
       /\ dailyReset # NoReset
       /\ now >= resetDate' * DayLength + dailyReset]_vars

\* A key that was counted is forgotten only when its lifetime is over or when
\* MaxDedupe keys at least as recent are remembered instead.
Forgettable(seen, key) ==
  /\ Cardinality(DOMAIN seen) = MaxDedupe
  /\ \A k \in DOMAIN seen : seen[k] >= recorded[key]

\* Replays are refused for the MaxDedupe most recent ids (07-persistence.md),
\* and for weak keys besides only while their lifetime lasts.
RecentKeysKept ==
  \A key \in DOMAIN recorded :
    IF key \in ExactEvents
    THEN key \in DOMAIN exactIds \/ Forgettable(exactIds, key)
    ELSE \/ key \in DOMAIN weakKeys
         \/ now - recorded[key] > WeakTTL
         \/ Forgettable(weakKeys, key)

\* Once the reset of a day is due it happens, unless the operator changes the
\* setting; a tick that was missed is made up for.
ResetHappens ==
  \A r \in ResetTimes :
    dailyReset = r /\ now % DayLength >= r
      ~> resetDate = Date(now) \/ dailyReset # r \/ now % DayLength < r

\* The reset worker drops the baseline so that the "display restarts near zero
\* even when host lifetime counters remain large": in a period that a reset
\* started, the panel never shows requests from before the plugin's time.
ShownRestartsAtReset ==
  \A k \in Panels, a \in restarted, o \in Outcomes :
    list[k].pc = "bound" => Shown(k, a, o) <= host[a][o] - HostLifetime
=============================================================================
