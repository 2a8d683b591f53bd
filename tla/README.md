# A TLA+ verification of cpa-grok-panel

cpa-grok-panel is a CPA (CLIProxyAPI) plugin in Go. It watches the xAI OAuth
accounts of the host, classifies each account (live, invalid, dead, throttled,
error, unknown), mirrors that class as the `priority` of the account's auth
file, counts usage, and keeps all of this in one JSON file.

This directory holds TLA+ modules of the parts of the plugin whose correctness
depends on order: callbacks that interleave with workers, two stores without a
transaction, whole documents that several writers save, restarts, stale reads; and
of the decisions that many readers must take alike: settings, statuses, tokens.
TLC checks them on small instances and TLAPS proves all the safety properties of
the passing runs for all values of the constants.

Contents: [Inventory](#inventory) · [Modules](#modules-and-how-they-correspond-to-the-code)
· [Runs](#runs) · [Fairness](#fairness) · [Proofs](#proofs)
· [Findings](#findings) · [Not modelled](#not-modelled) · [Plan](#plan)

Paths below are relative to `src/`; `application/` stands for
`internal/application/`, and so on.

## Inventory

| Component | State it keeps | Operations | What makes it hard |
| --- | --- | --- | --- |
| Usage handling (`application/usage.go`) | counters, debt, dedupe keys, probe status (in the store) | `Handle` | called concurrently by the host; changes status without the write mutex; enqueues after the commit |
| Account operations (`application/accounts.go`, `probe.go`, `token_resign.go`) | the mutex `write` | `ApplyProbeResult`, `ApplyAliveStatus`, `SyncPriority`, `Resign`, `ClearState`, `List`, `SetEnabled`, `SaveAuthFile` | host calls between two store updates; each of them can fail |
| Workers (`demotion_worker.go`, `probe_worker.go`) | two bounded channels | `Enqueue`, `EnqueueProbe`, `run` | drop when full; requests are lost at a restart |
| Priority writer (`priority_writer.go`, `accounts.go: writePriority`) | none | `SetPriority` | the host may apply and report an error, or accept and not apply |
| Daily reset (`usage_reset_worker.go`) | `last_usage_reset_date` (store) | `RunOnce` | decides outside the store update, by settings that may change |
| Usage ledger and baseline (`domain/usage.go`, `domain/account.go`) | counts, period, host baseline | `ApplyUsage`, `BindHostRequestBaseline`, `ApplyHostRequestDisplay` | host counters, own counters and periods move independently |
| State store (`infrastructure/state/store.go`) | snapshot, `state.json`, `.bak`, `.tmp`, lock file | `Open`, `View`, `Update`, `Close` | crash or failure at any file step |
| Runtime (`main.go`, `plugin/runtime.go`, `cpaabi/`) | the runtime object, its store, services and workers | `cliproxy_plugin_init`, `ensureReady`, `handleUsage`, `handleManagement`, `Shutdown` | reload against calls in flight; stopping workers under two locks; several data directories |
| Auth document (`application/token_resign.go`, `accounts.go`, `probe.go`, `bot_flag.go`) | the document, in the host; the tokens, at the token endpoint | `Resign`, `ProbeAccount`, `SetEnabled`, `SyncPriority`, `SaveAuthFile` | `get` and `save` of whole documents without a condition; the token endpoint is asked outside the mutex; three readers and one writer each know the places of a token |
| Settings (`config/settings.go`, `application/meta.go`, `state/store.go`) | settings (store), the environment | `LoadSettings`, `decodeSnapshot`, `NormalizeSettings`, `updateSettings` | names of several versions, zeros left out of the state file, normalised again by every reader |
| Stored probe pair (`domain/account.go`, `application/probe.go`) | label and HTTP status of the last probe (store) | `NormalizeProbeStatus`, `ClassifyProbeHTTP`, `CanonicalProbeStatus` | the two halves are written and read apart; labels of older versions |
| Failure policy and counters (`application/usage.go`, `domain/usage.go`) | debt, token and data quality counters (store) | `ParseUsageEvent`, `applyFailurePolicy`, `ApplyUsage` | reports that contradict themselves; overflow half way; settings that change in between |
| Plan and bot flag (`application/quota.go`, `bot_flag.go`) | the quota snapshot (store) | the quota route, `DisplayQuota`, `extractAccessToken` | the route replaces the whole snapshot, the probe's fields included |
| Panel and router (`management/router.go`, `web/panel.html`) | the browser's copy of the list | HTTP routes | posts back what it read earlier |

How they interact: the host calls `usage.handle` from its request goroutines.
`Handle` makes one `Store.Update` (atomic, in memory and on disk) and then sends
to a worker's channel. The workers and the panel's requests run the account
operations, which take `AccountsService.write`, update the store, and call the
host (`host.auth.list`, `host.auth.save` or the Management API). The store's own
mutex covers a single update only. `RunOnce` and `List` read with `View` and
update later; `Handle` reads the settings before its update. The auth document is
shared by the account operations, the host, which refreshes tokens itself, and the
operator, who patches fields through the Management API.

What makes each component correct:

- *Alive status and priority*: the two stores agree, or someone is on the way to
  make them agree, or the program knowingly gave up; a write never carries an
  overtaken status; a dead account is frozen; no operation hangs on the mutex.
- *Ledger*: nothing is counted twice; baselines belong to their period; a list shows
  no less than the lists before it in the same period; dedupe forgets the oldest first.
- *Reset*: once per day, when due, under the setting in force, and it is made up
  for after a missed tick.
- *Auth document*: an operation changes its own fields only; the refresh token the
  endpoint accepts is not lost between two writers; after a resign every reader finds
  the new tokens; a recorded status belongs to the token that is in use, whoever records it.
- *Settings*: all readers read the same; an update changes what it names; what decides
  is the same after a restart; the newer name of a variable wins.
- *Stored pair*: the row on the panel, the priority, the debt freeze and the heal go by
  one status, whoever wrote which half.
- *Failure policy and counters*: a report that fails by its flag, its body or the status the
  parser goes by never heals; a report is judged by settings that were in force; it counts
  wholly or not at all, and once as long as its key is kept.
- *Store*: an acknowledged update survives every crash, a refused one never
  turns up, nothing is half saved, and the backup can be read when it is needed.
- *Runtime*: a directory has one open store at a time, even where the lock could not be
  had, and a lock that is taken belongs to it; no store overwrites what
  another one acknowledged; no worker outlives its store; shutdown returns.

## Modules and how they correspond to the code

| Module | What it is |
| --- | --- |
| `AlivePriority` | usage policy, both workers, the account operations, the host's auth files |
| `MCAlivePriority` | its instance for TLC (`MCPrio`, symmetry) |
| `AlivePriorityProofs` | the theorems about it |
| `UsageLedger`, `MCUsageLedger` | counting, dedupe, baselines, display and the daily reset |
| `UsageLedgerProofs` | the theorems about it |
| `AuthLayout` | where a document keeps its tokens: the three readers and the writer, as operators |
| `AuthDocument`, `MCAuthDocument` | everybody who rewrites the document of an account, and the token endpoint |
| `AuthDocumentProofs` | the theorems about both |
| `ProbeStatus` | labels, HTTP statuses and how each part of the plugin reads the pair |
| `Settings` | defaults, environment, state file, `NormalizeSettings`, the update request |
| `AccountPolicy`, `MCAccountPolicy` | what is recorded about one account, by whom and under which settings |
| `AccountPolicyProofs` | the theorems about these three |
| `FiniteSums` | lemmas about sums over finite sets, for the counters of `AccountPolicy` |
| `AtomicStore` | what the state store promises (abstract); what each data directory promises over all stores that open it |
| `StateStore`, `MCStateStore` | the file protocol of `store.go`, shown to implement `AtomicStore` |
| `StateStoreProofs` | the refinement and the invariants of `StateStore`, proved |
| `Runtime`, `MCRuntime` | init, registration, calls and shutdown around such stores |
| `RuntimeProofs` | the theorems about it |

### AlivePriority

`status` and `debt` are `accounts[*].quota.probe_status` and
`failure.debt_score`; `filePrio` is the priority in the host. `write` is the
mutex. `op[p]` is the account operation a worker or panel request is inside,
with the step it has reached; one action is one store update or one host call,
because usage callbacks can run between any two of these.

| Action | Code |
| --- | --- |
| `HandleSuccess`, `HandleFailure` | the update of `Handle` with `applyFailurePolicy` |
| `EnqueueHeal`, `EnqueueProbe` | the sends after it (non-blocking; drop when full) |
| `TakeHeal`, `TakeProbe`, `ProbeCheck`, `ProbeAnswer` | the worker loops and `ProbeAccount` |
| `PanelProbe`, `PanelSync`, `PanelResign` | requests that start an operation |
| `Lock` | `service.write.Lock()` |
| `Mark` | first update of `ApplyProbeResult` |
| `Resolve`, `Bind`, `Write`, `Verify` | `applyAliveStatusLocked`: list, update with the skip, write, list again |
| `Commit`, `View` | the specific first steps of `commitResign` and `SyncPriority` |
| `StepError`, `WriteReportedLost` | a step that fails before, or after, it took effect |
| `DraftQuota`, `SaveQuota` | the panel's plan refresh and `POST /accounts/quota` |
| `ClearState`, `ClearDiagnostic`, `SetOtherPriority`, `Restart` | what happens outside the mutex |

Abstractions. Debt is an integer number of units (the code adds 1.5, 0.5 and 1.0
by default, that is 3, 1 and 2 units of 0.5). The dead check and the send of `EnqueueProbe` are one step, since the
worker checks again. The short lock of `prepareResign` changes nothing and is
not a step; the token request of a resign has happened when `PanelResign` fires.
A priority of an operator is any value of `OtherPriorities`. Manual probes
(`PanelProbe`) take any result: the browser supplies it.

`excused` is a history variable. It collects the accounts for which the program
gave the binding up — a heal dropped on a full channel, an operation that ended in an
error, a restart — or for which somebody else broke it: an external edit, a stale
quota snapshot, a cleared state. An operation that completes takes the account
out again. Without it no invariant over both stores could hold; with it the
invariants say that *nothing else* separates them, in particular no interleaving
of callbacks, workers and panel requests.

### UsageLedger

The host serves requests (`Serve`) and counts them in `host`; events arrive late,
never or twice (`Deliver`). `usage[a]` is the count and its period, `baseline[a]`
is `host_request_baseline`, `exactIds` and `weakKeys` are the dedupe maps.
`List` is four steps: the host call (`ListFiles`), the view that plans the binding
(`PlanBind`), the update (`BindBaselines`, left out when nothing is planned) and the second view
(`View`), which projects the host list of the first step. Anything can come between them,
another list included. `RunOnce` is `ResetCheck`
and `ResetAccounts`. Time is a counter bounded by `MaxTime`; a date is a quotient
by `DayLength`.

Abstractions. Token counters follow the same path as requests and are in `AccountPolicy`. A weak
key holds account, outcome and time bucket: other fields of an event only tell
more events apart. An account without a period is treated as absent from the state map, so
the reset leaves it alone. `Shown(k, a, o)` is the number list `k` projects from the host
list it took. A restart leaves `host` alone: that the host's own counters outlive the plugin is an
assumption, and where they start again from zero the shown number falls back to the plugin's
count. `recorded`, `restarted`, `shown` (the largest number returned in this period) and `floor`
(`shown` when a list was called) are history variables. Two lists that overlap may return a
larger number first and a smaller one later, since each shows its own host list; `ShownNeverDrops`
therefore compares a list with those that had returned when it was called.

Dedupe forgets by design, so no count is right for every host. `Prompt(e)` says which deliveries it can
be right for: an event whose key was counted comes again before `MaxDedupe` other keys of its
kind were counted and, without an `event_id`, before the lifetime of the key is over (4096 keys, two
minutes: application/usage.go:19). `PromptSpec` is `Spec` with no other deliveries.

### AuthLayout and AuthDocument

A document is a function from places to what an object at that place holds: the top level, its
containers (`credentials`, `auth`, `oauth`, `tokens`), the `json` field and the containers in
it, in the order in which they are looked up. `text` says that `json` is a string, whose
parsed copy the writer cannot save. `TokenField`, `BotFlagToken`, `ProbeToken` and
`WithTokens` are `extractTokenField`, `extractAccessToken`, `extractProbeAccessToken` and
`applyTokenRefresh`.

| Action | Code |
| --- | --- |
| `PrepareResign` | `prepareResign`: under the mutex, one read of the document |
| `Refresh`, `RefreshFails`, `AnswerLost` | `HTTPTokenRefresher.Refresh`, without the mutex: the endpoint accepts, refuses, or accepts and the answer does not arrive |
| `StartProbe`, `ProbeAnswer` | `ProbeAccount`, the panel's probe: the token is read and sent without the mutex |
| `StartWrite` | `SetEnabled`, `SyncPriority` up to the mutex |
| `HandleSuccess` | a success in `Handle`, sent with any token issued so far: the account is live at once, and the heal it asks for waits for the mutex as an operation of kind `heal` (or is dropped on a full channel) |
| `Lock`, `ListAgain` | `service.write.Lock()`, the list every operation starts with |
| `GetDocument`, `SaveDocument`, `SaveIgnored` | `host.auth.get`, `host.auth.save`; the host may acknowledge and not save |
| `VerifyResign` | the check of `commitResign` that the document came back changed |
| `SetStatus` | the store updates of `ApplyProbeResult` and `applyAliveStatusLocked`, for probes, resigns and heals |
| `DraftQuota`, `SaveQuota` | the row the panel copied; `POST /accounts/quota`, which writes its status back |
| `ClearState` | `ClearState`: the recorded status goes with the account's state |
| `PatchPriority` | the fields `PATCH` of a `PriorityWriter` |
| `OpFails`, `Restart` | an error at any step under the mutex; the process dies |
| `EditDisabled`, `EditPriority`, `HostRefresh` | the panel's own `PATCH`, an operator, the host's token refresh |

Abstractions. Accounts share nothing but the mutex, so there is one. Tokens are numbered in the order
of issue; the access token and the refresh token of one answer have the same number. `disabled` and
`priority` stand for the fields of the document that are not tokens. What a status
owes the priority is `AlivePriority`; here the priority is only a field somebody else's
save could overwrite. A `mode` fixes for a behaviour whether the endpoint rotates refresh tokens, how
priorities are written and what may go wrong around the plugin (`Disturbances`); a probe or a
resign can be combined with every one of them. `draft` is the panel's copy of the status with the token it
was measured with. `raced`, `lost`, `stale` and `probed` are history variables:
the first three name the events after which nothing can be promised (a save is
unconditional, and the repository accepts that the last writer wins:
docs/design/09-risks-and-open-questions.md:12), the last one the token a status was measured with.

### ProbeStatus, Settings and AccountPolicy

`ProbeStatus` and `Settings` are the pure functions, one operator each. A settings file, an
environment and a request are functions from the names that are present to their values, so that
absence, zero and older names are told apart. `AccountPolicy` puts them to use on one account.

| Action | Code |
| --- | --- |
| `Arrive`, `Commit` | the halves of `Handle`: the settings are read, then one store update with `ApplyUsage` and `applyFailurePolicy` |
| `Mark`, `Bind` | the update of `ApplyProbeResult`, and that of `applyAliveStatusLocked` |
| `TakeHeal`, `Resign` | what else leads to `Bind` |
| `PutSettings` | `updateSettings`: the checks and the update |
| `CopyRow`, `PostQuota` | the row the panel keeps; `POST /accounts/quota` with its checks |
| `Restart` | `save`, then `decodeSnapshot`; the environment may be another one, but has no say any more, since `ensureReady` stored the first settings (`Init`) |

Abstractions. Debts are in halves. `attributed_failure_statuses` is its default, 401 and 403.
Settings that decide nothing here (interval, concurrency, proxy, times) are left out. Letter case
and blanks of a label are left out, and every unknown label is one label. `MaxCounter` stands for
2^64 - 1 and `MaxToken` for the largest int64, in the same proportion, and sums wrap as int64 does.
`InputsAssumption` restricts the inputs to what the parsers can deliver, and a probe result
with an unknown label to one that has an HTTP status (see [Findings](#findings)).

`Commit` is `Duplicate`, `Reject` or `Accept`, after weak keys were pruned (`Pruned`); `Accept` trims the
keys to `inputs.room` of each kind (`Remembered`). Any weak key may have expired and any key of a full map may be
the oldest: which one it is, and when, is the subject of `UsageLedger`. `inputs.weak` are the
ids that stand for the contents of a report without `event_id`. A report that comes after its key was
forgotten is counted again, as in the code. `counted` therefore holds `<<report, n>>` for
the n-th time a report was accepted; it and `handler.seen` are history variables.

### StateStore

A snapshot is the set of updates it contains, so losing, duplicating or
resurrecting an update is visible. A file is absent, torn or holds a
snapshot. One action is one file operation of `save`; `copyFile` writes a file
of its own and renames it, which makes `Backup` atomic. The store mutex makes
the updates of a process sequential, hence one `proc`. The refinement maps
`saved` to what `load` would return now (`Loads`), so a crash is a stutter of
`AtomicStore`.

### Runtime

| Variable, action | Code |
| --- | --- |
| `current`, `ready[r]` | `runtime` of `main.go`; `runtime.ready` with `runtime.store` |
| `life`, `BeginStop`, `EndStop` | `Shutdown`, called by `cliproxy_plugin_init` (`"init"`) and `cliproxyPluginShutdown` (`"shutdown"`), which holds `runtimeMu` and the runtime's `mu` until the workers have stopped |
| `Enter` | `cliproxyPluginCall` reads the runtime object under `runtimeMu` |
| `Register`, `OpenFor`, `OpenDir`, `OpenMemory`, `Chosen` | `ensureReady` under `mu`: the first candidate directory that opens, memory if none does, nothing if it is ready |
| `OpenFails` | its error returns: the first settings cannot be saved, or the writer cannot be configured; the store is closed again, and what was written by then stays |
| `access[d]`, `file[d]`, `Openable` | whether the process can do nothing, only read, or write in a directory; whether its state file is missing, fresh or has settings. A directory that can only be read is opened if it has a state file |
| `Fetch`, then `Handle` or `Read` | `handleUsage`, `handleManagement`: fetch the services under `mu`, use them without it |
| `StartJob`, `EndJob` | the worker loops |
| `lock[d]`, `CloseStore` | the flock on `instance.lock`, released by `Close`. `Open` takes it if it is free and goes on without it if it is taken, or (with `DirsFail`) if the file system refuses the lock file |
| `Crash`, `ChangeAccess` | the process dies; a directory becomes unreadable, read-only or writable |

Abstractions. A store is as atomic as `AtomicStore`: an update is one step that writes the
whole snapshot, or fails and changes nothing (`Refused`: `Update` throws its copy away). The three workers of a store count as one; a worker may take a job
although its stop channel is closed, because `select` chooses at random. The lock is per open
file, so a second store of the same process is refused like one of another process.
`Runtimes` and `Stores` are names of objects that someone still refers to; a name is used
again when nobody does. The first save of the settings and of a fresh state file adds no
update and is part of `OpenDir` and `OpenFails`.

`HostDrains` says that the host calls init and shutdown only when no call is in
flight. The code does not enforce it and the repository does not promise it; it is
the assumption under which the stores are kept apart, and `runtime_stray` shows what happens
without it.

## Runs

Passing runs end with no error and no state left; they visit the whole state
space within the bounds.

| Run | Checks | Instance, and why it is enough |
| --- | --- | --- |
| `alive_faults` | `TypeOK`, `BindingInv`, `NoStaleWrite`, `SkipIsSafe`, `DeadIsFrozen` | one account, two callers, one panel, both workers, queue of one, all five disturbances. Three processes contend for the mutex while two callers heal the same account, and queues are full after one request. Failures of weight 1 and 2 with threshold 2 meet the threshold exactly and jump over it; a weight of zero changes nothing. Accounts share only mutex and queues; several accounts are covered by the proof |
| `alive_live` | `EventuallySettled`, `EveryOperationReturns` | one caller, one panel, external edits |
| `ledger_counts` | `ShownIsReal`, `BoundToPeriod`, `ShownNeverDrops` | `PromptSpec`: two events of one account with two deliveries each, room for one key, keys that expire at the next tick, two overlapping lists, two days of one tick: one key can push the other out, every key is forgotten in the end, and a reset can fall between any two steps of both lists. With `<=` for `<` or one tick more in `Prompt` TLC finds a request counted twice, so the hypothesis is no stronger than it must be. The events have no `event_id`, since weak keys are pushed out and expire as well; exact keys are in `ledger_days` |
| `ledger_days` | `RecentKeysKept`, `ResetIsDue`, `ResetHappens` | two dates (ticks 1 to 4, three ticks a day), the reset at the second tick of a day or off, restarts at any point; two exact events and a weak one with room for one key per map and a lifetime of one tick, so that every delivery evicts or prunes |
| `auth_safe` | `TypeOK`, `RefreshTokenKept`, `StatusIsCurrent`, `OnlyOwnFields`, `ResignIsReadable` | two operations of any kind, two tokens to issue, three documents with four places (flat; the access token at the top and the refresh token in a container beside an older `json`; all in a `json` string), three modes: an endpoint that rotates with priorities saved in the document, one that does not with priorities patched, both with failing and ignored saves, edits, refreshes by the host and restarts; and one where everybody writes the status: successes with their heals, probes, resigns, the panel's copy and cleared state. Two operations are enough for each pair of writers, two tokens for an old and a new answer; any number of each is covered by the proofs |
| `policy_safe` | `TypeOK`, `ReadersAgree`, `CountersExact`, `OneReading`, `SettingsSurviveRestart`, `EnvIsObeyed`, `FailureNeverHeals`, `JudgedInForce`, `UpdateIsExact` | five alphabets of inputs, one per behaviour: where settings come from, settings that change while a report is handled, who writes which half of the pair, reports of failures, numbers. Token numbers up to 3 and counters up to 7 make two reports overflow a counter and one pair of numbers wrap; two different reports have one id, so the second must not be counted while the key of the first is kept. With room for one key of each kind, exact keys push each other out and weak ones expire as well; in the other behaviours there is room for all |
| `store_safe` | `ViewIsSaved`, `BakIsPrevious`, `RefinesAtomicStore` | one process, three updates (one to back up, one to lose, one to find them), a crash or failure at each file step |
| `alive_quota_loss` | `QuotaKeepsProbe` — violated | one account and one draft |
| `ledger_lifetime` | `ShownRestartsAtReset` — violated | one event, host lifetime of five |
| `store_backup` | `BakStaysReadable` — violated | one process, damaged file (`DamagedSpec`) |
| `runtime_drained` | `AckedSurvives`, `OneOpenStore`, `WorkersStop`, `StopReturns`, `RefinesStores` | two calls, two updates, two directories that become unreadable, read-only and writable and may refuse the lock, memory, four names each for runtimes and stores: with two calls in flight and one current object no more than three are referred to at a time. Two updates make an overwrite visible: one acknowledged by each of two stores |
| `runtime_stray` | `ClosedStoresAreQuiet` — violated | the same with one directory that never fails, and a host that does not drain |

The violated properties state what a document of the repository says; see
[Findings](#findings). `store_backup` does not check deadlock: with the file and its backup both
damaged `load` fails for good and nothing else can happen.

Every bound is a constant: `QueueSize`, `MaxDedupe`, `MaxTime`, `MaxDeliveries`,
`DayLength`, `MaxTokens`, `Containers`, `MaxToken`, `MaxCounter` and the sets of processes,
accounts, events, updates and inputs. The code's capacities (256 requests, 4096 keys, four
containers, 64 bits) are constants too, set to the smallest value at which the case
happens, and so is the range of priorities (`MaxPriority`, a million in the code).

Symmetry is used for callers, panels and processes, in runs that check safety only.

Every property of a passing run comes with a mutant: an operator next to the
definition it changes, with a plausible slip (a dropped guard, a changed order, a
missing reset). TLC finds the property violated when the mutant takes the
place of the definition.

## Fairness

`AlivePriority.FairSpec`: worker goroutines run whenever they can (`WF` on
`TakeHeal`, `TakeProbe`, the probe steps, and each step under the mutex); a caller that has
committed goes on to its send (`WF`). Probes and the requests of the Management API priority writer end because
they have timeouts. The `host.auth.*` calls have none in the plugin: that the host answers them is an
assumption about the host, and an operation that waits for one keeps the mutex as long as the host takes. `Lock` has *strong* fairness: the mutex is
free again and again rather than for ever, and Go's `sync.Mutex` hands it to a waiter that has
starved for a millisecond. No fairness is assumed of usage events, panel requests
or disturbances. Liveness is checked without failing host calls: with a host that fails
for ever nothing can be promised (each failure puts the account in `excused`, which
`alive_faults` checks).

`UsageLedger.FairSpec`, in `ledger_days`: `ResetCheck` is weakly fair (`RunOnce` runs at start and
every thirty seconds). `ResetAccounts` is strongly fair: a restart between check
and update starts over, so the assumption is that the process is not killed
in that window every time.

`Runtime.FairSpec`: `EndJob` is weakly fair. A job ends because its probe has a timeout and because the host
answers its `host.auth.*` calls; the second is an assumption about the host, as above: a
call that never returns would keep `Shutdown`, and the host, waiting. `EndStop` is strongly fair: as long as jobs are queued the worker may
prefer them to the closed stop channel, but `select` chooses at random, so it is not unlucky for ever.
Calls, registrations and crashes are not fair.

`AuthDocument` and `AccountPolicy` promise nothing that needs fairness: that operations on the
document end is `EveryOperationReturns` of `AlivePriority`.

## Proofs

`AlivePriorityProofs` proves for all constants that satisfy `ConstantsAssumption`
(any number of accounts, callers, panels, queue size, threshold, priorities, all disturbances):

| Theorem | Statement |
| --- | --- |
| `TypeCorrect` | `Spec => []TypeOK` |
| `InductiveInvariant` | `Spec => []Inductive` |
| `BindingHolds` | `Spec => []BindingInv` |
| `WritesAreFresh` | `Spec => []NoStaleWrite` |
| `SkipHolds` | `Spec => []SkipIsSafe` |
| `DeadFrozen` | `Spec => DeadIsFrozen` |

`Inductive` is `TypeOK /\ OpInv /\ LockInv /\ NoStaleWrite /\ SkipIsSafe /\ BindingInv`.
None of the parts is inductive without the others:

- `BindingInv` alone fails when an operation ends: that the operation leaves the
  stores equal needs `NoStaleWrite` (at `Verify`, what it wanted is the current
  status or a heal is coming) and, for the early return of `Bind`, `SkipIsSafe`.
- `NoStaleWrite` and `SkipIsSafe` need `LockInv`: a process is at a step under
  the mutex exactly if it holds it, so no second operation changes the status or
  the priority in between. Only usage callbacks remain, and these bring a heal.
- `OpInv` says what a program counter implies (which process runs which kind of
  operation, that a heal wants live, that a busy operation has an account).

The argument. `InitInductive` is immediate. A step either leaves the late steps
(`resolve`, `bind`, `write`, `verify`) of every operation alone, and then lemma
`Quiet` shows that the three binding invariants survive, provided each account
that is disturbed is excused or has a heal coming (`UsageBinding`,
`StartBinding`, `DisturbanceBinding` establish this action by action); or it is a
step of the mutex holder, treated in `HeldBinding` after `HeldFrame` and
`HeldReduce` reduced it to the account it works on. Types, program counters and
the mutex are separate step lemmas (`TypeStep`, `OpStep`, `LockStep`).
`AppendInQueue` and `TailInQueue` are the facts about queues.

`StateStoreProofs` proves, for any set of updates and with or without faults:

| Theorem | Statement |
| --- | --- |
| `StoreImplements` | `Spec => RefinesAtomicStore` |
| `ViewSaved` | `Spec => []ViewIsSaved` |
| `BackupIsPrevious` | `Spec => []BakIsPrevious` |

The invariant `StoreInv` ties each program counter of `save` to the three files (`StepInv`):
what the temporary file holds, that `state.json` is readable throughout, and that the
snapshot in memory is what would be loaded. `HistoryInv` and `BakInv` bound the files by what was
acknowledged. Only `Rename` changes what `load` returns; every other step is a stutter of
`AtomicStore` on the saved state.

`RuntimeProofs` proves, for any number of calls, runtimes, stores and directories:

| Theorem | Statement |
| --- | --- |
| `WorkersStopFirst` | `Spec => []WorkersStop` |
| `NoLockIsLeaked` | `Spec => []LocksAreHeld` |
| `UpdatesSurvive` | `HostDrains` implies `Spec => []AckedSurvives` |
| `OneStoreIsOpen` | `HostDrains` implies `Spec => []OneOpenStore` |
| `DirectoriesAreStores` | `HostDrains` implies `Spec => RefinesStores` |

`BaseInv` needs no assumption about the host: no worker outlives its store, because `EndStop` waits for
it, and a lock that is taken belongs to an open store of that directory (`LocksAreHeld`), because every
action that closes a store gives its lock back, `Crash` included. `LocksAreHeld` is the half of
`OneOpenStore` that also holds where the host does not drain. The other half, that no two open stores
share a directory, does not follow from the lock, which `Open` can do without: it holds because a runtime opens a
store only while it has none, and because the host's calls are drained before it is replaced (`OneStore`).

`RuntimeInv` is what `HostDrains` adds. `AckedSurvives` is not inductive: that a save overwrites nothing needs
the snapshot of the saving store to equal its directory (`StoreIsDisk`), which stays true only while
it is the one open store (`OneStore`) and every call and worker that can save uses that store
(`CallsInv`, `WorkersStop`). `DiskInv` says that directories hold used updates only, so a new
update is new to all of them.

`RefinesStores` maps each directory to an `AtomicStore` of its own: `saved` to what is on its disk, `acked`
to what was acknowledged there, and `refused` to every other update that was tried, because it failed or
went to another directory or to memory. The step that matters is `SaveUpdate`: it is `Update` of its own
directory (nothing else changes on the disk because of `StoreIsDisk`), `Refuse` for every other one, and
`Refuse` for all of them if the save fails. All other steps stutter, reloads and crashes included.

`UsageLedgerProofs` proves, for any number of accounts, outcomes, events and concurrent lists,
any clock and any reset times:

| Theorem | Statement |
| --- | --- |
| `BaselinesAreCurrent` | `Spec => []BoundToPeriod` |
| `NeverDrops` | `Spec => []ShownNeverDrops` |
| `ResetDue` | `Spec => ResetIsDue` |
| `KeysKept` | `Spec => []RecentKeysKept` |
| `NothingCountedTwice` | `PromptSpec => []ShownIsReal` |

The invariants are layers on the types. `LedgerInv` adds that an account with a baseline has a
period, without which a late list could bind to a period that has not begun. `ResetInv` adds that what
the worker found due was due at the moment it looked, and that no reset has come since: its update
checks again, the invariant says why that is enough. `ShownInv` carries `NeverDrops`: the host list of a
list in progress is no newer than the host's counters (`HostsInv`); a list that asks the host now would show no
less than what has been returned (`ReturnedInv`), because that number never decreases within a period; and a
list in progress shows no less than what had been returned when it was called (`FloorInv`), although the baseline it finds
may have been bound by another list since (lemma `ListSteps`). `DedupeInv` relates each map
to `recorded`: a key that is gone is older than everything a full map keeps.

`ShownIsReal` needs all of them. `SeenInv` says that finitely many requests were served and that every key is the key
of one; so the sets that are counted are finite although `Events` need not be. `CountInv` bounds a
count by the number of distinct keys of the requests that were served. Lemma `NewKey` is the step that
matters: a prompt event that is not a duplicate has a key that was never counted. Were its key forgotten,
`DedupeInv` says that it expired, which `Prompt` excludes, or that the map is full of keys as recent, and these would
be `MaxDedupe` members of `Newer(e)`, which `Prompt` excludes as well.

`AuthDocumentProofs` proves, for any number of operations, containers, layouts and tokens:

| Theorem | Statement |
| --- | --- |
| `Typed` | `Spec => []TypeOK` |
| `OwnFieldsOnly` | `Spec => OnlyOwnFields` |
| `ResignReadable` | `Spec => ResignIsReadable` |
| `StatusCurrent` | `Spec => []StatusIsCurrent` |
| `RefreshKept` | `Spec => []RefreshTokenKept` |

- `SafeInv`: the process at a step under the mutex holds it, and the document in its hand
  agrees with the file in every field that was not changed behind it.
- `TokensInv`: no document holds a token that was not issued, and while an answer is not saved its
  refresh token is nowhere else. That makes the new tokens of a resign different from all others, and an
  endpoint refuses a second resign that read the same token.
- `Current`: a resign whose check after the save is about to fail returns without a new status; it has
  changed no token either, so the old status still holds. The other writers of the status (`Succeeds`, the
  panel's post, heals and probes) record the token they were measured with, and `stale` is true afterwards exactly if it
  is not the one in the file. `Rooted`: an endpoint that does not rotate has issued one refresh token, and it stays where
  the readers look first. `RefreshKept` needs this because such answers leave the
  refresh token to the document.

Lemma `GrantIsRead` is the fact about the layout: after `WithTokens` each of the three readers finds the answer
first, whatever the document was. It holds because the top level is always written and always
looked up first.

`AccountPolicyProofs` proves, for any inputs that satisfy `InputsAssumption` and any widths:

| Theorem | Statement |
| --- | --- |
| `TypeCorrect` | `Spec => []TypeOK` |
| `ReadersAlwaysAgree` | `Spec => []ReadersAgree` |
| `SettingsReadOnce` | `Spec => []OneReading` |
| `SettingsComeBack` | `Spec => []SettingsSurviveRestart` |
| `VariablesObeyed` | `Spec => []EnvIsObeyed` |
| `UpdatesAreExact` | `Spec => UpdateIsExact` |
| `JudgedBySettingsInForce` | `Spec => JudgedInForce` |
| `FailuresNeverHeal` | `Spec => FailureNeverHeals` |
| `CountsExactly` | `Spec => []CountersExact` |

`PolicyInv` strengthens the types by three facts. The keys are ids of counted reports (`KeysInv`).
Settings are `Sound`, stored and in the hand of a report: their numbers may be anything, but weights are
not negative, which keeps debt in range. Stored pairs are `KnownPair`s: a label nobody knows never gets into the store, and an empty one comes without an HTTP status, because the readers that
ignore the HTTP status would then disagree with the others. Each writer of the pair is a step of that argument;
so is the panel's copy, which posts back what it read. That
`NormalizeSettings` is idempotent is the lemma most of the settings theorems rest on.

`CountersExact` speaks of sums over all counted reports, which `SumFunctionOnSet` of the community modules
computes by recursion over the subsets of a finite set. `FiniteSums` proves what is needed of it,
`SumGrows`: the sum over a set with one more element is the sum before plus the value of the element. An
induction rule cannot be cited here (its parameter is an operator), so each induction is written
out: if the claim failed, it would fail for a smallest subset (`Smallest`, from the well-foundedness of the strict subset
order), and that one has a smaller one without the picked element. In this way there is a function that adds up
(`SomeAdding`), any two agree (`AddingsAgree`), and the element that is taken out first does not
matter (`SumOfAny`). `CountInv` then follows an accepted report through `Commit`: `<<report, n>>` is new,
because the n of all earlier times are at most `Times(report)`; no counter leaves its range, and each counter grows by what the
report adds (`AddedExactly`, `CountsAfter`); that a report is inconsistent is found although the int64 sum may have
wrapped (`WrappedSum`). `OnceAfter` is the part about ids: as long as the ids of senders fit the room, trimming has
not touched any of them, so each counted one is among the keys and is not counted again.

Only model-checked: liveness (`EventuallySettled`, `EveryOperationReturns`, `ResetHappens`, `StopReturns`), since
TLAPS has no reasoning about `ENABLED`; and the runs that end in a violation. Every safety invariant, action
property and refinement of a passing run is a theorem.

## Findings

Where the code does not do what the repository says of it (each is a run that ends in
a trace):

1. **A plan refresh can undo a probe** (`alive_quota_loss`). `POST /accounts/quota`
   replaces the snapshot, probe fields included, by what the browser read
   before its billing calls; domain/account.go:56 and README.md:196 say it keeps them.
2. **The panel shows lifetime counters after a reset** (`ledger_lifetime`). A usage
   event between the daily reset and the next list makes
   `BindHostRequestBaseline` take the missing baseline for an old state file and
   bind zero; usage_reset_worker.go:81 says the display restarts near zero.
3. **The backup is overwritten by the damaged file** (`store_backup`). `save` copies
   `state.json` to `.bak` unread. Until the following rename no readable state exists.
4. **A call in flight writes after shutdown** (`runtime_stray`). `Shutdown` waits for the
   workers but not for calls that fetched their services before, and a closed store
   still saves; docs/design/01-architecture.md:94 says shutdown refuses new writes, drains and
   then releases the lock.

More differences need no run: the code says them itself, or the properties name them as exceptions.

- `DemotionWorker.Enqueue` drops on a full channel (demotion_worker.go:39) after the status was
  recorded live; later successes see a live account and do not ask again. README.md:215 says the
  priority must be written. `excused` in `BindingInv` stands for this too.
- `Open` goes on without the lock when it is taken (store.go:72) or its file cannot be created (store.go:69), where docs/design/01-architecture.md:86 has the
  second instance fail to register; `ensureReady` falls back to another directory and to memory
  (runtime.go:112) where docs/design/07-persistence.md:76 has a read-only mode or a refused registration.
- `CPA_GROK_ANOMALY_PRIORITY` overrides an explicit `CPA_GROK_PRIORITY_INVALID` and
  `CPA_GROK_PRIORITY_THROTTLED`, because it looks at `CPA_GROK_PRIORITY_ERROR` only
  (meta.go:134). The other older names give way to the new one (`EnvIsObeyed`).
- A request that sets `priority_invalid` or `priority_throttled` to zero is accepted and the value
  replaced by the copy of `priority_error`, where meta.go:149 speaks of product defaults
  (`UpdateIsExact` leaves zero out for all but live).
- `watch_priority` zero is left out of the state file and comes back as -10
  after a restart. Nothing reads it but the panel (`SettingsSurviveRestart` is about what decides).
- A report with `outcome` cancelled and `failed` false is counted as a success (usage.go:348). So are one
  with `outcome` failure and `failed` false, and one with a status of 200 around a `failure.status_code` of 400 or
  more: the parser looks at the inner status only where there is no outer one (usage.go:334). Both heal a
  dead account; `FailureNeverHeals` names them as what it does not speak of.
- With an endpoint that does not rotate refresh tokens, two resigns of one account both succeed, and the
  slower one can put the older access token back. `RefreshTokenKept` is about the refresh token;
  `ResignIsReadable` says that the access token of the last save is the one that is read, not that it is the newest.
- A list that overlaps another one can return smaller numbers later (accounts.go:74): it projects the host list it began with.
- A host call has no timeout: an operation that waits for the host keeps the mutex, and shutdown waits for the worker it is in.
- The panel can report a probe with an unknown label and no HTTP status; the label is stored as it is, and the readers
  differ on it. No code path of the panel sends this, and `InputsAssumption` leaves it out.
- `applyTokenRefresh` says that it updates every object that holds tokens (token_resign.go:356). The
  objects in a `json` string keep the old ones; no reader looks there first (`ResignIsReadable`).

## Not modelled

- Changes of priorities while an operation writes one: `Prio` and the failure policy are constants
  in `AlivePriority`; `AccountPolicy` changes all settings, but records only.
- A second process on the same data directory: the code lets it in, the design
  refuses it, and there is no promise to check until one of them is changed.
- The defaults of `normalizeSnapshot` and the schema check of `load`.
- `DisplayQuota`, which chooses what the quota bar shows from the stored snapshot and the settings: it
  changes nothing, and its cases are its definition.
- `ParseBillingQuota`, `SnapshotFromBilling`, `SnapshotUnknown`, `ClassifyPlan`, `walkBilling`: only tests call
  them, the panel parses billing documents in the browser. The JWT claims behind the bot flag: a pure function
  of a token whose choice is `BotFlagToken`.
- Request decoding, the C envelopes and buffers, HTTP clients and the proxy, which only carry
  values; drawing the panel.
- Settings that decide nothing in these modules: refresh interval, concurrency, proxy.
- The cooldown restore worker: its loop does nothing and nothing starts it.
- Orders nobody documents: a queued heal against a later manual "dead", debt that is zeroed before a probe
  that is then dropped. The models exhibit both; no property says which should win.

## Plan

Done, the account loop first because it is what the plugin is for and the rest of the state
feeds it: `AlivePriority`, `UsageLedger`, `AtomicStore`/`StateStore`, `Runtime`, then the auth document
(`AuthLayout`, `AuthDocument`) and the policies (`ProbeStatus`, `Settings`, `AccountPolicy`), each
with its proofs. Left, by what they would add:

1. `AlivePriority` with priorities that change while operations write them. The binding would have to excuse
   the accounts bound before a change, as the code rebinds none of them.
2. `AlivePriority` and `AuthDocument` as one: the binding against a save of a whole document that
   was read before somebody's priority. Each now takes the other's half as a disturbance
   (`SetOtherPriority`, `EditPriority`).
3. An abstract specification of the auth document, one register per kind of field with the writers
   that may change it, and `AuthDocument` as its implementation outside the named races. `OnlyOwnFields` is
   the step property behind it.
4. A second process and a store without its lock, when the design or the code says what should happen.
