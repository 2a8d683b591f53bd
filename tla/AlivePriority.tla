--------------------------- MODULE AlivePriority ---------------------------
(***************************************************************************)
(* The alive-status / priority loop of cpa-grok-panel.                     *)
(*                                                                         *)
(* The plugin records a probe status for every account in its own store    *)
(* and must mirror it as the `priority' of the account's auth file, which  *)
(* lives in the CPA host.  Two stores, no transaction: every operation     *)
(* that changes a status is a sequence of store updates and host calls,    *)
(* serialised by one mutex (AccountsService.write), while the usage        *)
(* callback changes statuses WITHOUT that mutex and hands the host write   *)
(* to a worker through a bounded channel that drops when it is full.       *)
(*                                                                         *)
(*   Callers      goroutines of the host inside UsageService.Handle        *)
(*   Panels       management requests of the panel                         *)
(*   HealWorker   DemotionWorker.run        ProbeWorker   ProbeWorker.run  *)
(***************************************************************************)
EXTENDS Integers, Sequences

CONSTANTS
  Accounts,            \* auth_index values of the xAI OAuth accounts
  NoAccount,           \* no account
  Callers,             \* concurrent usage.handle calls
  Panels,              \* concurrent management requests
  HealWorker,          \* the goroutine of DemotionWorker
  ProbeWorker,         \* the goroutine of ProbeWorker
  NoProc,              \* the value of `write' when the mutex is free
  Prio,                \* settings.priority_*: the priority bound to a status
  OtherPriorities,     \* priorities somebody else may write to an auth file
  ProbeResults,        \* outcomes of a probe that are enumerated
  FailWeights,         \* debt a counted failure adds (debt_fail_401, _429, 0)
  DebtSuccessDecay,    \* debt a success removes
  DebtProbeThreshold,  \* debt at which an automatic probe is requested
  QueueSize,           \* capacity of both worker channels (256 in the code)
  Disturbances         \* which of AllDisturbances the instance lets happen

Statuses == {"live", "invalid", "dead", "throttled", "error", "unknown"}

\* host: a host call or a state save fails.  restart: the process dies and is
\* started again.  external: someone else edits a priority in the host.
\* quota: the panel posts a plan snapshot.  clear: the panel clears state.
AllDisturbances == {"host", "restart", "external", "quota", "clear"}

Procs == Panels \cup {HealWorker, ProbeWorker}

ASSUME ConstantsAssumption ==
  /\ NoAccount \notin Accounts
  /\ HealWorker # ProbeWorker
  /\ HealWorker \notin Panels
  /\ ProbeWorker \notin Panels
  /\ NoProc \notin Procs
  /\ Prio \in [Statuses -> Int]
  /\ OtherPriorities \subseteq Int
  /\ ProbeResults \subseteq Statuses \ {"unknown"}
  /\ FailWeights \subseteq Nat
  /\ DebtSuccessDecay \in Nat
  /\ DebtProbeThreshold \in Nat \ {0}
  /\ QueueSize \in Nat \ {0}
  /\ Disturbances \subseteq AllDisturbances

VARIABLES
  status,      \* store: account -> quota.probe_status, "" read as "unknown"
  debt,        \* store: account -> failure.debt_score
  filePrio,    \* host: account -> priority of its auth file
  healQueue,   \* channel of DemotionWorker
  probeQueue,  \* channel of ProbeWorker
  write,       \* holder of AccountsService.write, or NoProc
  op,          \* process -> the AccountsService operation it is inside
  call,        \* caller -> what Handle still has to enqueue
  draft,       \* panel -> the quota snapshot it is about to post
  excused      \* history: accounts whose binding was given up, see Excuse

vars == <<status, debt, filePrio, healQueue, probeQueue, write, op, call, draft, excused>>

stores == <<status, debt, filePrio>>
queues == <<healQueue, probeQueue>>

IdleOp    == [pc |-> "idle", kind |-> "none", acct |-> NoAccount, want |-> "unknown", read |-> 0]
IdleCall  == [pc |-> "idle", acct |-> NoAccount]
EmptyDraft == [acct |-> NoAccount, status |-> "unknown"]

\* The first step an operation takes under the mutex.
FirstStep(kind) == CASE kind = "heal"   -> "resolve"
                     [] kind = "probe"  -> "mark"
                     [] kind = "resign" -> "commit"
                     [] OTHER           -> "view"

HeldSteps == {"mark", "commit", "view", "resolve", "bind", "write", "verify"}

InQueue(a, queue) == \E i \in 1..Len(queue) : queue[i] = a

Init ==
  /\ status = [a \in Accounts |-> "unknown"]
  /\ debt = [a \in Accounts |-> 0]
  /\ filePrio = [a \in Accounts |-> Prio["unknown"]]
  /\ healQueue = <<>>
  /\ probeQueue = <<>>
  /\ write = NoProc
  /\ op = [p \in Procs |-> IdleOp]
  /\ call = [u \in Callers |-> IdleCall]
  /\ draft = [k \in Panels |-> EmptyDraft]
  /\ excused = {}

-----------------------------------------------------------------------------
(* What a status owes the host.                                            *)

Match(a) == filePrio[a] = Prio[status[a]]

\* A success has recorded "live" and the worker that writes the priority has
\* not reached its own store update yet.
HealComing(a) ==
  \/ \E u \in Callers : call[u].pc = "heal" /\ call[u].acct = a
  \/ InQueue(a, healQueue)
  \/ op[HealWorker].pc \in {"lock", "resolve", "bind"} /\ op[HealWorker].acct = a

\* An operation that has recorded, or will record, a status is on its way to
\* the host with it.
Binding(a) == \E p \in Procs :
  op[p].acct = a /\ op[p].pc \in {"resolve", "bind", "write", "verify"}

Owed(a) == HealComing(a) \/ Binding(a)

\* `excused' keeps the accounts for which the program itself gave the binding
\* up (dropped request, failed operation, restart) or somebody else broke it
\* (external edit, stale quota snapshot, cleared state).
Excuse(as) == excused' = excused \cup as

-----------------------------------------------------------------------------
(* usage.handle: UsageService.Handle.  The store update is atomic and does  *)
(* not take the write mutex; the enqueue comes after it.                    *)

\* Mutant of HandleSuccess: the heal of the priority is not requested.
SuccessWithoutHeal(u, a) ==
  /\ call[u].pc = "idle"
  /\ status' = [status EXCEPT ![a] = "live"]
  /\ debt' = [debt EXCEPT ![a] = 0]
  /\ UNCHANGED <<filePrio, queues, write, op, call, draft, excused>>

HandleSuccess(u, a) ==
  /\ call[u].pc = "idle"
  /\ IF status[a] # "live"
     THEN /\ status' = [status EXCEPT ![a] = "live"]
          /\ debt' = [debt EXCEPT ![a] = 0]
          /\ call' = [call EXCEPT ![u] = [pc |-> "heal", acct |-> a]]
     ELSE /\ debt' = [debt EXCEPT ![a] = IF @ > DebtSuccessDecay THEN @ - DebtSuccessDecay ELSE 0]
          /\ UNCHANGED <<status, call>>
  /\ UNCHANGED <<filePrio, queues, write, op, draft, excused>>

\* Mutant of HandleFailure: the threshold itself does not ask for a probe.
FailureOverThreshold(u, a, weight) ==
  /\ call[u].pc = "idle"
  /\ status[a] # "dead"
  /\ IF debt[a] + weight > DebtProbeThreshold
     THEN /\ debt' = [debt EXCEPT ![a] = 0]
          /\ call' = [call EXCEPT ![u] = [pc |-> "probe", acct |-> a]]
     ELSE /\ debt' = [debt EXCEPT ![a] = @ + weight]
          /\ UNCHANGED call
  /\ UNCHANGED <<status, filePrio, queues, write, op, draft, excused>>

\* Mutant of HandleFailure: a dead account collects debt like any other.
FailureOfDead(u, a, weight) ==
  /\ call[u].pc = "idle"
  /\ IF debt[a] + weight >= DebtProbeThreshold
     THEN /\ debt' = [debt EXCEPT ![a] = 0]
          /\ call' = [call EXCEPT ![u] = [pc |-> "probe", acct |-> a]]
     ELSE /\ debt' = [debt EXCEPT ![a] = @ + weight]
          /\ UNCHANGED call
  /\ UNCHANGED <<status, filePrio, queues, write, op, draft, excused>>

HandleFailure(u, a, weight) ==
  /\ call[u].pc = "idle"
  /\ status[a] # "dead"
  /\ IF debt[a] + weight >= DebtProbeThreshold
     THEN /\ debt' = [debt EXCEPT ![a] = 0]
          /\ call' = [call EXCEPT ![u] = [pc |-> "probe", acct |-> a]]
     ELSE /\ debt' = [debt EXCEPT ![a] = @ + weight]
          /\ UNCHANGED call
  /\ UNCHANGED <<status, filePrio, queues, write, op, draft, excused>>

EnqueueHeal(u) ==
  /\ call[u].pc = "heal"
  /\ IF Len(healQueue) < QueueSize
     THEN healQueue' = Append(healQueue, call[u].acct) /\ UNCHANGED excused
     ELSE Excuse({call[u].acct}) /\ UNCHANGED healQueue
  /\ call' = [call EXCEPT ![u] = IdleCall]
  /\ UNCHANGED <<stores, probeQueue, write, op, draft>>

\* The dead check and the send are one step: the worker checks again.
EnqueueProbe(u) ==
  /\ call[u].pc = "probe"
  /\ probeQueue' = IF status[call[u].acct] # "dead" /\ Len(probeQueue) < QueueSize
                   THEN Append(probeQueue, call[u].acct)
                   ELSE probeQueue
  /\ call' = [call EXCEPT ![u] = IdleCall]
  /\ UNCHANGED <<stores, healQueue, write, op, draft, excused>>

-----------------------------------------------------------------------------
(* Where the operations of AccountsService start.                          *)

Begin(p, kind, a, want, pc) ==
  op' = [op EXCEPT ![p] = [pc |-> pc, kind |-> kind, acct |-> a, want |-> want, read |-> 0]]

\* DemotionWorker.run receives a request and calls ApplyAliveStatus(live).
TakeHeal ==
  /\ op[HealWorker].pc = "idle"
  /\ healQueue # <<>>
  /\ healQueue' = Tail(healQueue)
  /\ Begin(HealWorker, "heal", Head(healQueue), "live", "lock")
  /\ UNCHANGED <<stores, probeQueue, write, call, draft, excused>>

\* ProbeWorker.run receives a request and skips an account that is dead now.
TakeProbe ==
  /\ op[ProbeWorker].pc = "idle"
  /\ probeQueue # <<>>
  /\ probeQueue' = Tail(probeQueue)
  /\ IF status[Head(probeQueue)] = "dead"
     THEN UNCHANGED op
     ELSE Begin(ProbeWorker, "probe", Head(probeQueue), "unknown", "check")
  /\ UNCHANGED <<stores, healQueue, write, call, draft, excused>>

\* ProbeAccount resolves the file (which may fail), checks dead once more and
\* sends the probe, all without the mutex.
ProbeCheck ==
  /\ op[ProbeWorker].pc = "check"
  /\ \/ /\ status[op[ProbeWorker].acct] # "dead"
        /\ op' = [op EXCEPT ![ProbeWorker].pc = "http"]
     \/ /\ status[op[ProbeWorker].acct] = "dead" \/ "host" \in Disturbances
        /\ op' = [op EXCEPT ![ProbeWorker] = IdleOp]
  /\ UNCHANGED <<stores, queues, write, call, draft, excused>>

\* The answer, the timeout or the missing token becomes a probe result.
ProbeAnswer(s) ==
  /\ op[ProbeWorker].pc = "http"
  /\ op' = [op EXCEPT ![ProbeWorker].pc = "lock", ![ProbeWorker].want = s]
  /\ UNCHANGED <<stores, queues, write, call, draft, excused>>

PanelProbe(k, a, s) ==
  /\ op[k].pc = "idle"
  /\ Begin(k, "probe", a, s, "lock")
  /\ UNCHANGED <<stores, queues, write, call, draft, excused>>

PanelSync(k, a) ==
  /\ op[k].pc = "idle"
  /\ Begin(k, "sync", a, "unknown", "lock")
  /\ UNCHANGED <<stores, queues, write, call, draft, excused>>

\* Resign after its token request: commitResign, which ends in the unknown status.
PanelResign(k, a) ==
  /\ op[k].pc = "idle"
  /\ Begin(k, "resign", a, "unknown", "lock")
  /\ UNCHANGED <<stores, queues, write, call, draft, excused>>

-----------------------------------------------------------------------------
(* The steps under the mutex.  HandleX above may interleave between any two. *)

Acct(p)   == op[p].acct
Want(p)   == op[p].want
Target(p) == Prio[op[p].want]

At(p, pc) == op[p].pc = pc /\ write = p

Goto(p, pc) == op' = [op EXCEPT ![p].pc = pc]

\* The operation returns without an error: what it wanted is in both stores,
\* unless the status moved on meanwhile.
Return(p) ==
  /\ op' = [op EXCEPT ![p] = IdleOp]
  /\ write' = NoProc
  /\ excused' = IF Want(p) = status'[Acct(p)] /\ filePrio'[Acct(p)] = Target(p)
                THEN excused \ {Acct(p)} ELSE excused

\* Mutant of Fail: the error path forgets to release the mutex.
FailHoldingMutex(p) ==
  /\ op' = [op EXCEPT ![p] = IdleOp]
  /\ UNCHANGED write
  /\ Excuse({a \in {Acct(p)} : ~(Match(a) \/ HealComing(a))'})

\* The operation returns an error to its caller (the workers discard it).
Fail(p) ==
  /\ op' = [op EXCEPT ![p] = IdleOp]
  /\ write' = NoProc
  /\ Excuse({a \in {Acct(p)} : ~(Match(a) \/ HealComing(a))'})

\* Mutant of Lock: the operation does not wait for the mutex.
LockWithoutWaiting(p) ==
  /\ op[p].pc = "lock"
  /\ write' = p
  /\ Goto(p, FirstStep(op[p].kind))
  /\ UNCHANGED <<stores, queues, call, draft, excused>>

\* Mutant of Lock: a worker that finds the mutex taken drops its request.
TryLock(p) ==
  /\ op[p].pc = "lock"
  /\ IF write = NoProc
     THEN write' = p /\ Goto(p, FirstStep(op[p].kind))
     ELSE UNCHANGED write /\ op' = [op EXCEPT ![p] = IdleOp]
  /\ UNCHANGED <<stores, queues, call, draft, excused>>

Lock(p) ==
  /\ op[p].pc = "lock"
  /\ write = NoProc
  /\ write' = p
  /\ Goto(p, FirstStep(op[p].kind))
  /\ UNCHANGED <<stores, queues, call, draft, excused>>

\* ApplyProbeResult: the first store update.
Mark(p) ==
  /\ At(p, "mark")
  /\ status' = [status EXCEPT ![Acct(p)] = Want(p)]
  /\ Goto(p, "resolve")
  /\ UNCHANGED <<debt, filePrio, queues, write, call, draft, excused>>

\* commitResign: the auth document with the new tokens is saved.
Commit(p) ==
  /\ At(p, "commit")
  /\ Goto(p, "resolve")
  /\ UNCHANGED <<stores, queues, write, call, draft, excused>>

\* SyncPriority reads the recorded status; it always writes.
View(p) ==
  /\ At(p, "view")
  /\ op' = [op EXCEPT ![p].pc = "write", ![p].want = status[Acct(p)]]
  /\ UNCHANGED <<stores, queues, write, call, draft, excused>>

\* applyAliveStatusLocked lists the auth files and keeps the priority it saw.
Resolve(p) ==
  /\ At(p, "resolve")
  /\ op' = [op EXCEPT ![p].pc = "bind", ![p].read = filePrio[Acct(p)]]
  /\ UNCHANGED <<stores, queues, write, call, draft, excused>>

\* Its store update, and the early return when that priority was the target.
Bind(p) ==
  /\ At(p, "bind")
  /\ status' = [status EXCEPT ![Acct(p)] = Want(p)]
  /\ debt' = IF op[p].kind = "heal" THEN [debt EXCEPT ![Acct(p)] = 0] ELSE debt
  /\ UNCHANGED <<filePrio, queues, call, draft>>
  /\ \/ op[p].read = Target(p) /\ Return(p)
     \/ op[p].read # Target(p) /\ Goto(p, "write") /\ UNCHANGED <<write, excused>>

\* writePriority succeeds; the host may accept a value it does not apply.
Write(p) ==
  /\ At(p, "write")
  /\ \/ filePrio' = [filePrio EXCEPT ![Acct(p)] = Target(p)]
     \/ "host" \in Disturbances /\ UNCHANGED filePrio
  /\ Goto(p, "verify")
  /\ UNCHANGED <<status, debt, queues, write, call, draft, excused>>

\* writePriority reports an error although the host applied the value.
WriteReportedLost(p) ==
  /\ "host" \in Disturbances
  /\ At(p, "write")
  /\ filePrio' = [filePrio EXCEPT ![Acct(p)] = Target(p)]
  /\ UNCHANGED <<status, debt, queues, call, draft>>
  /\ Fail(p)

\* Mutant of Verify: the answer of the write is trusted.
VerifyNothing(p) ==
  /\ At(p, "verify")
  /\ UNCHANGED <<stores, queues, call, draft>>
  /\ Return(p)

\* The file is listed again and its priority compared.
Verify(p) ==
  /\ At(p, "verify")
  /\ UNCHANGED <<stores, queues, call, draft>>
  /\ \/ filePrio[Acct(p)] = Target(p) /\ Return(p)
     \/ filePrio[Acct(p)] # Target(p) /\ Fail(p)

\* Any host call or state save under the mutex may fail before it does anything.
StepError(p) ==
  /\ "host" \in Disturbances
  /\ op[p].pc \in HeldSteps
  /\ write = p
  /\ UNCHANGED <<stores, queues, call, draft>>
  /\ Fail(p)

HeldStep(p) ==
  \/ Mark(p) \/ Commit(p) \/ View(p) \/ Resolve(p) \/ Bind(p)
  \/ Write(p) \/ WriteReportedLost(p) \/ Verify(p) \/ StepError(p)

-----------------------------------------------------------------------------
(* Updates that bypass the mutex, other writers of the host, and restarts.  *)

\* The panel takes the account from its list view ...
DraftQuota(k, a) ==
  /\ "quota" \in Disturbances
  /\ draft' = [draft EXCEPT ![k] = [acct |-> a, status |-> status[a]]]
  /\ UNCHANGED <<stores, queues, write, op, call, excused>>

\* ... and after its billing request posts it to /accounts/quota, which
\* replaces the whole snapshot, probe_status included.
SaveQuota(k) ==
  /\ draft[k].acct # NoAccount
  /\ LET a == draft[k].acct IN
       /\ status' = [status EXCEPT ![a] = draft[k].status]
       /\ IF status[a] = draft[k].status THEN UNCHANGED excused ELSE Excuse({a})
  /\ draft' = [draft EXCEPT ![k] = EmptyDraft]
  /\ UNCHANGED <<debt, filePrio, queues, write, op, call>>

ClearState(a) ==
  /\ "clear" \in Disturbances
  /\ status' = [status EXCEPT ![a] = "unknown"]
  /\ debt' = [debt EXCEPT ![a] = 0]
  /\ IF status[a] = "unknown" THEN UNCHANGED excused ELSE Excuse({a})
  /\ UNCHANGED <<filePrio, queues, write, op, call, draft>>

ClearDiagnostic(a) ==
  /\ "clear" \in Disturbances
  /\ debt' = [debt EXCEPT ![a] = 0]
  /\ UNCHANGED <<status, filePrio, queues, write, op, call, draft, excused>>

\* The operator sets a priority in CPA, or in the panel (which patches CPA and
\* then calls ConfirmPriorityWrite: no status and no priority changes there).
SetOtherPriority(a, n) ==
  /\ "external" \in Disturbances
  /\ filePrio' = [filePrio EXCEPT ![a] = n]
  /\ Excuse({a})
  /\ UNCHANGED <<status, debt, queues, write, op, call, draft>>

\* The process dies; the state file and the auth files survive, the channels,
\* the goroutines and the mutex do not, and nothing is reconciled at start.
Restart ==
  /\ "restart" \in Disturbances
  /\ healQueue' = <<>>
  /\ probeQueue' = <<>>
  /\ write' = NoProc
  /\ op' = [p \in Procs |-> IdleOp]
  /\ call' = [u \in Callers |-> IdleCall]
  /\ Excuse({a \in Accounts : ~Match(a)})
  /\ UNCHANGED <<stores, draft>>

-----------------------------------------------------------------------------
UsageStep(u) ==
  \/ \E a \in Accounts : HandleSuccess(u, a)
  \/ \E a \in Accounts, w \in FailWeights : HandleFailure(u, a, w)
  \/ EnqueueHeal(u)
  \/ EnqueueProbe(u)

WorkerStep == TakeHeal \/ TakeProbe \/ ProbeCheck \/ \E s \in ProbeResults : ProbeAnswer(s)

PanelStep(k) ==
  \E a \in Accounts :
    \/ \E s \in ProbeResults : PanelProbe(k, a, s)
    \/ PanelSync(k, a)
    \/ PanelResign(k, a)
    \/ DraftQuota(k, a)

AccountStep(a) ==
  \/ ClearState(a)
  \/ ClearDiagnostic(a)
  \/ \E n \in OtherPriorities : SetOtherPriority(a, n)

Next ==
  \/ \E u \in Callers : UsageStep(u)
  \/ WorkerStep
  \/ \E k \in Panels : PanelStep(k) \/ SaveQuota(k)
  \/ \E p \in Procs : Lock(p) \/ HeldStep(p)
  \/ \E a \in Accounts : AccountStep(a)
  \/ Restart

Spec == Init /\ [][Next]_vars

\* Goroutines run, and a Go mutex is starvation free: a waiter that finds it free
\* again and again gets it.  Probes and the PriorityWriter have timeouts; that the
\* host answers host.auth calls, which have none, is an assumption about the host.
Fairness ==
  /\ \A u \in Callers : WF_vars(EnqueueHeal(u)) /\ WF_vars(EnqueueProbe(u))
  /\ WF_vars(TakeHeal)
  /\ WF_vars(TakeProbe)
  /\ WF_vars(ProbeCheck)
  /\ WF_vars(\E s \in ProbeResults : ProbeAnswer(s))
  /\ \A p \in Procs : SF_vars(Lock(p)) /\ WF_vars(HeldStep(p))

FairSpec == Spec /\ Fairness

-----------------------------------------------------------------------------
(* Properties.                                                             *)

DebtType  == 0..(DebtProbeThreshold - 1)
CallType  == [pc : {"idle", "heal", "probe"}, acct : Accounts \cup {NoAccount}]
DraftType == [acct : Accounts \cup {NoAccount}, status : Statuses]
OpType == [pc : HeldSteps \cup {"idle", "lock", "check", "http"},
           kind : {"none", "heal", "probe", "sync", "resign"},
           acct : Accounts \cup {NoAccount},
           want : Statuses,
           read : Int]

\* Every variable keeps its type: statuses are canonical, queues respect their
\* capacity, and debt stays below the threshold that zeroes it (so a failure
\* that reaches the threshold always asks for its probe).
TypeOK ==
  /\ status \in [Accounts -> Statuses]
  /\ debt \in [Accounts -> DebtType]
  /\ filePrio \in [Accounts -> Int]
  /\ healQueue \in Seq(Accounts) /\ Len(healQueue) <= QueueSize
  /\ probeQueue \in Seq(Accounts) /\ Len(probeQueue) <= QueueSize
  /\ write \in Procs \cup {NoProc}
  /\ op \in [Procs -> OpType]
  /\ call \in [Callers -> CallType]
  /\ draft \in [Panels -> DraftType]
  /\ excused \subseteq Accounts

\* The two stores agree, or somebody still owes the host write, or the binding
\* was knowingly given up: no interleaving of usage callbacks, workers and
\* panel requests silently leaves a priority that belongs to another status.
BindingInv == \A a \in Accounts \ excused : Match(a) \/ Owed(a)

\* A priority write in progress carries the status recorded now; if a success
\* has overtaken it, the heal that will overwrite it is already on its way.
NoStaleWrite ==
  \A p \in Procs : op[p].pc \in {"write", "verify"} /\ Acct(p) \notin excused
    => Want(p) = status[Acct(p)] \/ HealComing(Acct(p))

\* applyAliveStatusLocked skips its write on the priority it listed before its
\* store update: for an account nobody disturbed, that value is still current.
SkipIsSafe ==
  \A p \in Procs : op[p].pc = "bind" /\ Acct(p) \notin excused
    => op[p].read = filePrio[Acct(p)]

\* A dead account is frozen: while it stays dead its debt only goes down, and
\* nobody inside usage.handle asks for its probe (README: dead freezes debt).
DeadIsFrozen ==
  [][\A a \in Accounts : status[a] = "dead" /\ status'[a] = "dead"
       => /\ debt'[a] <= debt[a]
          /\ \A u \in Callers : call'[u].pc = "probe" /\ call'[u].acct = a
               => call[u] = call'[u]]_vars

\* Whatever left the two stores apart is settled by the workers and the
\* operations in progress, or given up: no account stays owed for ever.
EventuallySettled == \A a \in Accounts : ~Match(a) ~> Match(a) \/ a \in excused

\* Every job of a worker and every panel request comes to its end, whatever
\* usage events, other requests and refused writes happen meanwhile: nobody
\* waits for ever on the mutex that all of them share.
EveryOperationReturns == \A p \in Procs : op[p].pc # "idle" ~> op[p].pc = "idle"

\* domain.QuotaSnapshot: refreshing the plan must not clear the probe result.
QuotaKeepsProbe == [][\A k \in Panels : SaveQuota(k) => UNCHANGED status]_vars
=============================================================================
