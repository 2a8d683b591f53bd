------------------------ MODULE AlivePriorityProofs ------------------------
(***************************************************************************)
(* The safety of the alive-status / priority loop, for every number of     *)
(* accounts, callers and panels, every priority table, every debt setting  *)
(* and every queue capacity, with all disturbances allowed.                *)
(*                                                                         *)
(* BindingInv is not inductive: it needs to know that the mutex separates  *)
(* the operations (LockInv), that the heal worker only carries "live"      *)
(* (OpInv), that a write in progress is not stale (NoStaleWrite) and that  *)
(* the early return of Bind looks at a current priority (SkipIsSafe).      *)
(***************************************************************************)
EXTENDS AlivePriority, SequenceTheorems, TLAPS

\* An operation under way has an account, and the heal worker's is a heal.
OpInv ==
  /\ \A p \in Procs : op[p].pc # "idle" => op[p].acct \in Accounts
  /\ op[HealWorker].pc \in {"idle", "lock", "resolve", "bind", "write", "verify"}
  /\ op[HealWorker].pc # "idle" => op[HealWorker].kind = "heal" /\ op[HealWorker].want = "live"
  /\ \A u \in Callers : call[u].pc # "idle" => call[u].acct \in Accounts

\* A process is at a step of the critical section iff it holds the mutex.
LockInv == \A p \in Procs : op[p].pc \in HeldSteps <=> write = p

Inductive ==
  /\ TypeOK
  /\ OpInv
  /\ LockInv
  /\ NoStaleWrite
  /\ SkipIsSafe
  /\ BindingInv

-----------------------------------------------------------------------------
(* Membership in a channel, under its two operations.                      *)

\* A queue that grows by a heal or a probe is still a queue of such.
LEMMA AppendInQueue ==
  ASSUME NEW q \in Seq(Accounts), NEW b \in Accounts, NEW a
  PROVE  InQueue(a, Append(q, b)) <=> InQueue(a, q) \/ a = b
<1> DEFINE r == Append(q, b)
<1>1. /\ r \in Seq(Accounts)
      /\ Len(r) = Len(q) + 1
      /\ \A i \in 1..Len(q) : r[i] = q[i]
      /\ r[Len(q) + 1] = b
  BY AppendProperties
<1>2. Len(q) \in Nat
  BY LenProperties
<1> HIDE DEF r
<1>3. InQueue(a, q) => InQueue(a, r)
  BY <1>1, <1>2 DEF InQueue
<1>4. a = b => InQueue(a, r)
  BY <1>1, <1>2 DEF InQueue
<1>5. InQueue(a, r) => InQueue(a, q) \/ a = b
  BY <1>1, <1>2 DEF InQueue
<1> QED BY <1>3, <1>4, <1>5 DEF r

\* And so is what is left when the first one is taken.
LEMMA TailInQueue ==
  ASSUME NEW q \in Seq(Accounts), q # <<>>, NEW a, InQueue(a, q)
  PROVE  a = Head(q) \/ InQueue(a, Tail(q))
<1>1. /\ Head(q) = q[1]
      /\ Tail(q) \in Seq(Accounts)
      /\ Len(Tail(q)) = Len(q) - 1
      /\ \A i \in 1..(Len(q) - 1) : Tail(q)[i] = q[i + 1]
  BY HeadTailProperties
<1>2. Len(q) \in Nat
  BY LenProperties
<1>3. PICK i \in 1..Len(q) : q[i] = a
  BY DEF InQueue
<1>4. CASE i = 1
  BY <1>1, <1>3, <1>4
<1>5. CASE i # 1
  <2>1. i - 1 \in 1..(Len(q) - 1) /\ (i - 1) + 1 = i
    BY <1>2, <1>5
  <2>2. Tail(q)[i - 1] = a
    BY <1>1, <1>3, <2>1
  <2> QED BY <1>1, <2>1, <2>2 DEF InQueue
<1> QED BY <1>4, <1>5

-----------------------------------------------------------------------------
\* The initial states.
LEMMA InitInductive == Init => Inductive
<1> USE ConstantsAssumption
<1> SUFFICES ASSUME Init PROVE Inductive
  OBVIOUS
<1>1. TypeOK
  BY DEF Init, TypeOK, DebtType, CallType, DraftType, OpType, IdleOp, IdleCall, EmptyDraft,
         Statuses, HeldSteps, Procs
<1>2. OpInv /\ LockInv
  BY DEF Init, OpInv, LockInv, IdleOp, IdleCall, HeldSteps, Procs
<1>3. NoStaleWrite /\ SkipIsSafe
  BY DEF Init, NoStaleWrite, SkipIsSafe, IdleOp
<1>4. BindingInv
  BY DEF Init, BindingInv, Match
<1> QED BY <1>1, <1>2, <1>3, <1>4 DEF Inductive

-----------------------------------------------------------------------------
(* Types, the shape of the operations, and mutual exclusion.               *)

\* The processes by name.
LEMMA ProcFacts == HealWorker \in Procs /\ ProbeWorker \in Procs /\ \A k \in Panels : k \in Procs
BY DEF Procs

\* What an operation record may become.
LEMMA OpMoves ==
  ASSUME op \in [Procs -> OpType], NEW p \in Procs
  PROVE  /\ \A pc \in HeldSteps \cup {"lock", "check", "http"} :
              [op EXCEPT ![p].pc = pc] \in [Procs -> OpType]
         /\ \A s \in Statuses : [op EXCEPT ![p].pc = "lock", ![p].want = s] \in [Procs -> OpType]
         /\ \A s \in Statuses : [op EXCEPT ![p].pc = "write", ![p].want = s] \in [Procs -> OpType]
         /\ \A n \in Int : [op EXCEPT ![p].pc = "bind", ![p].read = n] \in [Procs -> OpType]
         /\ [op EXCEPT ![p] = IdleOp] \in [Procs -> OpType]
         /\ \A pc \in {"lock", "check"}, kind \in {"heal", "probe", "sync", "resign"},
               a \in Accounts, s \in Statuses :
              Begin(p, kind, a, s, pc) => op' \in [Procs -> OpType]
<1>1. op[p] \in OpType
  OBVIOUS
<1>2. \A pc \in HeldSteps \cup {"lock", "check", "http"} :
        [op EXCEPT ![p].pc = pc] \in [Procs -> OpType]
  BY <1>1 DEF OpType
<1>3. \A s \in Statuses : [op EXCEPT ![p].pc = "lock", ![p].want = s] \in [Procs -> OpType]
  BY <1>1 DEF OpType
<1>4. \A s \in Statuses : [op EXCEPT ![p].pc = "write", ![p].want = s] \in [Procs -> OpType]
  BY <1>1 DEF OpType, HeldSteps
<1>5. \A n \in Int : [op EXCEPT ![p].pc = "bind", ![p].read = n] \in [Procs -> OpType]
  BY <1>1 DEF OpType, HeldSteps
<1>6. IdleOp \in OpType
  BY DEF IdleOp, OpType, Statuses
<1>7. ASSUME NEW pc \in {"lock", "check"}, NEW kind \in {"heal", "probe", "sync", "resign"},
             NEW a \in Accounts, NEW s \in Statuses, Begin(p, kind, a, s, pc)
      PROVE  op' \in [Procs -> OpType]
  <2>1. [pc |-> pc, kind |-> kind, acct |-> a, want |-> s, read |-> 0] \in OpType
    BY DEF OpType
  <2> QED BY <1>7, <2>1 DEF Begin
<1> QED BY <1>2, <1>3, <1>4, <1>5, <1>6, <1>7

\* What the end of an operation does to its process.
LEMMA EndOp ==
  ASSUME TypeOK, NEW p \in Procs, op[p].acct \in Accounts, Return(p) \/ Fail(p)
  PROVE  /\ op' = [op EXCEPT ![p] = IdleOp]
         /\ op' \in [Procs -> OpType]
         /\ write' = NoProc
         /\ excused' \subseteq Accounts
<1>1. op' = [op EXCEPT ![p] = IdleOp] /\ write' = NoProc
  BY DEF Return, Fail
<1>2. op' \in [Procs -> OpType]
  BY <1>1, OpMoves DEF TypeOK
<1>3. excused' \subseteq Accounts
  BY DEF TypeOK, Return, Fail, Excuse, Acct
<1> QED BY <1>1, <1>2, <1>3

\* usage.handle keeps the types; its debt stays below the threshold.
LEMMA UsageTypes ==
  ASSUME TypeOK, OpInv, NEW u \in Callers, UsageStep(u)
  PROVE  TypeOK'
<1>0. /\ status \in [Accounts -> Statuses]
      /\ debt \in [Accounts -> DebtType]
      /\ call \in [Callers -> CallType]
  BY DEF TypeOK
<1>1. ASSUME NEW a \in Accounts, HandleSuccess(u, a) PROVE TypeOK'
  <2>1. status' \in [Accounts -> Statuses]
    BY <1>0, <1>1 DEF HandleSuccess, Statuses
  <2>2. debt' \in [Accounts -> DebtType]
    <3>1. debt[a] \in DebtType /\ 0 \in DebtType
      BY <1>0, ConstantsAssumption DEF DebtType
    <3>2. (IF debt[a] > DebtSuccessDecay THEN debt[a] - DebtSuccessDecay ELSE 0) \in DebtType
      BY <3>1, ConstantsAssumption DEF DebtType
    <3>3. CASE status[a] # "live"
      BY <1>0, <1>1, <3>1, <3>3 DEF HandleSuccess
    <3>4. CASE status[a] = "live"
      BY <1>0, <1>1, <3>2, <3>4 DEF HandleSuccess
    <3> QED BY <3>3, <3>4
  <2>3. call' \in [Callers -> CallType]
    <3>1. [pc |-> "heal", acct |-> a] \in CallType
      BY DEF CallType
    <3> QED BY <1>0, <1>1, <3>1 DEF HandleSuccess
  <2>4. UNCHANGED <<filePrio, healQueue, probeQueue, write, op, draft, excused>>
    BY <1>1 DEF HandleSuccess, queues
  <2> QED BY <2>1, <2>2, <2>3, <2>4 DEF TypeOK
<1>2. ASSUME NEW a \in Accounts, NEW w \in FailWeights, HandleFailure(u, a, w) PROVE TypeOK'
  <2>1. debt' \in [Accounts -> DebtType]
    <3>1. w \in Nat /\ debt[a] \in DebtType /\ 0 \in DebtType
      BY <1>0, ConstantsAssumption DEF DebtType
    <3>2. CASE debt[a] + w >= DebtProbeThreshold
      BY <1>0, <1>2, <3>1, <3>2 DEF HandleFailure
    <3>3. CASE ~(debt[a] + w >= DebtProbeThreshold)
      <4>1. debt[a] + w \in DebtType
        BY <3>1, <3>3, ConstantsAssumption DEF DebtType
      <4> QED BY <1>0, <1>2, <3>3, <4>1 DEF HandleFailure
    <3> QED BY <3>2, <3>3
  <2>2. call' \in [Callers -> CallType]
    <3>1. [pc |-> "probe", acct |-> a] \in CallType
      BY DEF CallType
    <3> QED BY <1>0, <1>2, <3>1 DEF HandleFailure
  <2>3. UNCHANGED <<status, filePrio, healQueue, probeQueue, write, op, draft, excused>>
    BY <1>2 DEF HandleFailure, queues
  <2> QED BY <2>1, <2>2, <2>3 DEF TypeOK
<1>3. IdleCall \in CallType
  BY DEF IdleCall, CallType
<1>4. CASE EnqueueHeal(u)
  <2>1. call[u].acct \in Accounts
    BY <1>4 DEF EnqueueHeal, OpInv
  <2>2. healQueue' \in Seq(Accounts) /\ Len(healQueue') <= QueueSize
    <3>1. healQueue \in Seq(Accounts) /\ Len(healQueue) <= QueueSize /\ Len(healQueue) \in Nat
      BY LenProperties DEF TypeOK
    <3>2. /\ Append(healQueue, call[u].acct) \in Seq(Accounts)
          /\ Len(Append(healQueue, call[u].acct)) = Len(healQueue) + 1
      BY <2>1, <3>1, AppendProperties
    <3>3. CASE Len(healQueue) < QueueSize
      <4>1. healQueue' = Append(healQueue, call[u].acct)
        BY <1>4, <3>3 DEF EnqueueHeal
      <4> QED BY <3>1, <3>2, <3>3, <4>1, ConstantsAssumption
    <3>4. CASE ~(Len(healQueue) < QueueSize)
      BY <1>4, <3>1, <3>4 DEF EnqueueHeal
    <3> QED BY <3>3, <3>4
  <2>3. excused' \subseteq Accounts
    BY <1>4, <2>1 DEF EnqueueHeal, Excuse, TypeOK
  <2>4. call' \in [Callers -> CallType]
    BY <1>0, <1>3, <1>4 DEF EnqueueHeal
  <2>5. UNCHANGED <<status, debt, filePrio, probeQueue, write, op, draft>>
    BY <1>4 DEF EnqueueHeal, stores
  <2> QED BY <2>2, <2>3, <2>4, <2>5 DEF TypeOK
<1>5. CASE EnqueueProbe(u)
  <2>1. call[u].acct \in Accounts
    BY <1>5 DEF EnqueueProbe, OpInv
  <2>2. probeQueue' \in Seq(Accounts) /\ Len(probeQueue') <= QueueSize
    <3>1. probeQueue \in Seq(Accounts) /\ Len(probeQueue) <= QueueSize /\ Len(probeQueue) \in Nat
      BY LenProperties DEF TypeOK
    <3>2. /\ Append(probeQueue, call[u].acct) \in Seq(Accounts)
          /\ Len(Append(probeQueue, call[u].acct)) = Len(probeQueue) + 1
      BY <2>1, <3>1, AppendProperties
    <3> QED BY <1>5, <3>1, <3>2, ConstantsAssumption DEF EnqueueProbe
  <2>3. call' \in [Callers -> CallType]
    BY <1>0, <1>3, <1>5 DEF EnqueueProbe
  <2>4. UNCHANGED <<status, debt, filePrio, healQueue, write, op, draft, excused>>
    BY <1>5 DEF EnqueueProbe, stores
  <2> QED BY <2>2, <2>3, <2>4 DEF TypeOK
<1> QED BY <1>1, <1>2, <1>4, <1>5 DEF UsageStep

\* Types: the steps of the worker.
LEMMA WorkerTypes ==
  ASSUME TypeOK, OpInv, WorkerStep
  PROVE  TypeOK'
<1>0. op \in [Procs -> OpType] /\ ProbeResults \subseteq Statuses /\ {"live", "unknown"} \subseteq Statuses
  BY ConstantsAssumption DEF TypeOK, Statuses
<1>1. CASE TakeHeal
  <2>1. /\ Head(healQueue) \in Accounts
        /\ healQueue' \in Seq(Accounts)
        /\ Len(healQueue') <= QueueSize
    <3>1. healQueue \in Seq(Accounts) /\ Len(healQueue) <= QueueSize /\ Len(healQueue) \in Nat
      BY LenProperties DEF TypeOK
    <3> QED BY <1>1, <3>1, HeadTailProperties, ConstantsAssumption DEF TakeHeal
  <2>2. op' \in [Procs -> OpType]
    BY <1>0, <1>1, <2>1, OpMoves, ProcFacts DEF TakeHeal
  <2>3. UNCHANGED <<status, debt, filePrio, probeQueue, write, call, draft, excused>>
    BY <1>1 DEF TakeHeal, stores
  <2> QED BY <2>1, <2>2, <2>3 DEF TypeOK
<1>2. CASE TakeProbe
  <2>1. /\ Head(probeQueue) \in Accounts
        /\ probeQueue' \in Seq(Accounts)
        /\ Len(probeQueue') <= QueueSize
    <3>1. probeQueue \in Seq(Accounts) /\ Len(probeQueue) <= QueueSize /\ Len(probeQueue) \in Nat
      BY LenProperties DEF TypeOK
    <3> QED BY <1>2, <3>1, HeadTailProperties, ConstantsAssumption DEF TakeProbe
  <2>2. op' \in [Procs -> OpType]
    BY <1>0, <1>2, <2>1, OpMoves, ProcFacts DEF TakeProbe
  <2>3. UNCHANGED <<status, debt, filePrio, healQueue, write, call, draft, excused>>
    BY <1>2 DEF TakeProbe, stores
  <2> QED BY <2>1, <2>2, <2>3 DEF TypeOK
<1>3. ASSUME NEW s \in ProbeResults, ProbeAnswer(s) PROVE TypeOK'
  <2>1. op' \in [Procs -> OpType]
    BY <1>0, <1>3, OpMoves, ProcFacts DEF ProbeAnswer
  <2>2. UNCHANGED <<status, debt, filePrio, healQueue, probeQueue, write, call, draft, excused>>
    BY <1>3 DEF ProbeAnswer, stores, queues
  <2> QED BY <2>1, <2>2 DEF TypeOK
<1>4. CASE ProbeCheck
  <2>1. op' \in [Procs -> OpType]
    <3>1. \/ op' = [op EXCEPT ![ProbeWorker].pc = "http"]
          \/ op' = [op EXCEPT ![ProbeWorker] = IdleOp]
      BY <1>4 DEF ProbeCheck
    <3>2. CASE op' = [op EXCEPT ![ProbeWorker].pc = "http"]
      BY <1>0, <3>2, OpMoves, ProcFacts
    <3>3. CASE op' = [op EXCEPT ![ProbeWorker] = IdleOp]
      BY <1>0, <3>3, OpMoves, ProcFacts
    <3> QED BY <3>1, <3>2, <3>3
  <2>2. UNCHANGED <<status, debt, filePrio, healQueue, probeQueue, write, call, draft, excused>>
    BY <1>4 DEF ProbeCheck, stores, queues
  <2> QED BY <2>1, <2>2 DEF TypeOK
<1> QED BY <1>1, <1>2, <1>3, <1>4 DEF WorkerStep

\* Types: the steps of a panel request.
LEMMA PanelTypes ==
  ASSUME TypeOK, NEW k \in Panels, PanelStep(k) \/ SaveQuota(k)
  PROVE  TypeOK'
<1>0. /\ status \in [Accounts -> Statuses]
      /\ op \in [Procs -> OpType]
      /\ draft \in [Panels -> DraftType]
      /\ k \in Procs
      /\ ProbeResults \subseteq Statuses
      /\ "unknown" \in Statuses
  BY ProcFacts, ConstantsAssumption DEF TypeOK, Statuses
<1>1. ASSUME NEW a \in Accounts, NEW s \in ProbeResults,
             PanelProbe(k, a, s)
      PROVE  TypeOK'
  <2>1. op' \in [Procs -> OpType]
    BY <1>0, <1>1, OpMoves DEF PanelProbe
  <2>2. UNCHANGED <<status, debt, filePrio, healQueue, probeQueue, write, call, draft, excused>>
    BY <1>1 DEF PanelProbe, stores, queues
  <2> QED BY <2>1, <2>2 DEF TypeOK
<1>2. ASSUME NEW a \in Accounts, PanelSync(k, a) \/ PanelResign(k, a)
      PROVE  TypeOK'
  <2>1. op' \in [Procs -> OpType]
    BY <1>0, <1>2, OpMoves DEF PanelSync, PanelResign
  <2>2. UNCHANGED <<status, debt, filePrio, healQueue, probeQueue, write, call, draft, excused>>
    BY <1>2 DEF PanelSync, PanelResign, stores, queues
  <2> QED BY <2>1, <2>2 DEF TypeOK
<1>3. ASSUME NEW a \in Accounts, DraftQuota(k, a) PROVE TypeOK'
  <2>1. draft' \in [Panels -> DraftType]
    <3>1. [acct |-> a, status |-> status[a]] \in DraftType
      BY <1>0 DEF DraftType
    <3> QED BY <1>0, <1>3, <3>1 DEF DraftQuota
  <2>2. UNCHANGED <<status, debt, filePrio, healQueue, probeQueue, write, op, call, excused>>
    BY <1>3 DEF DraftQuota, stores, queues
  <2> QED BY <2>1, <2>2 DEF TypeOK
<1>4. CASE SaveQuota(k)
  <2>1. draft[k] \in DraftType /\ EmptyDraft \in DraftType
    BY <1>0 DEF DraftType, EmptyDraft
  <2>2. draft[k].acct \in Accounts /\ draft[k].status \in Statuses
    BY <1>4, <2>1 DEF SaveQuota, DraftType
  <2>3. status' \in [Accounts -> Statuses]
    BY <1>0, <1>4, <2>2 DEF SaveQuota
  <2>4. draft' \in [Panels -> DraftType]
    BY <1>0, <1>4, <2>1 DEF SaveQuota
  <2>5. excused' \subseteq Accounts
    BY <1>4, <2>2 DEF SaveQuota, Excuse, TypeOK
  <2>6. UNCHANGED <<debt, filePrio, healQueue, probeQueue, write, op, call>>
    BY <1>4 DEF SaveQuota, queues
  <2> QED BY <2>3, <2>4, <2>5, <2>6 DEF TypeOK
<1> QED BY <1>1, <1>2, <1>3, <1>4 DEF PanelStep

\* The steps under the mutex.
LEMMA HeldTypes ==
  ASSUME TypeOK, OpInv, NEW p \in Procs, Lock(p) \/ HeldStep(p)
  PROVE  TypeOK'
<1>0. /\ status \in [Accounts -> Statuses]
      /\ debt \in [Accounts -> DebtType]
      /\ filePrio \in [Accounts -> Int]
      /\ op \in [Procs -> OpType]
      /\ 0 \in DebtType
  BY ConstantsAssumption DEF TypeOK, DebtType
<1>1. op[p].acct \in Accounts
  <2>1. op[p].pc # "idle"
    BY DEF Lock, HeldStep, Mark, Commit, View, Resolve, Bind, Write, WriteReportedLost,
           Verify, StepError, At, HeldSteps
  <2> QED BY <2>1 DEF OpInv
<1>2. op[p].want \in Statuses /\ Target(p) \in Int
  <2>1. op[p] \in OpType
    BY <1>0
  <2>2. op[p].want \in Statuses
    BY <2>1 DEF OpType
  <2> QED BY <2>2, ConstantsAssumption DEF Target
<1>3. CASE Lock(p)
  <2>1. FirstStep(op[p].kind) \in HeldSteps
    BY DEF FirstStep, HeldSteps
  <2>2. op' \in [Procs -> OpType]
    BY <1>0, <1>3, <2>1, OpMoves DEF Lock, Goto
  <2>3. write' \in Procs
    BY <1>3 DEF Lock
  <2>4. UNCHANGED <<status, debt, filePrio, healQueue, probeQueue, call, draft, excused>>
    BY <1>3 DEF Lock, stores, queues
  <2> QED BY <2>2, <2>3, <2>4 DEF TypeOK
<1>4. CASE Mark(p) \/ Commit(p)
  <2>1. op' \in [Procs -> OpType]
    <3>1. op' = [op EXCEPT ![p].pc = "resolve"]
      BY <1>4 DEF Mark, Commit, Goto
    <3> QED BY <1>0, <3>1, OpMoves DEF HeldSteps
  <2>2. status' \in [Accounts -> Statuses]
    BY <1>0, <1>1, <1>2, <1>4 DEF Mark, Commit, Acct, Want, stores
  <2>3. UNCHANGED <<debt, filePrio, healQueue, probeQueue, write, call, draft, excused>>
    BY <1>4 DEF Mark, Commit, stores, queues
  <2> QED BY <2>1, <2>2, <2>3 DEF TypeOK
<1>5. CASE View(p) \/ Resolve(p)
  <2>1. op' \in [Procs -> OpType]
    <3>1. status[op[p].acct] \in Statuses /\ filePrio[op[p].acct] \in Int
      BY <1>0, <1>1
    <3>2. CASE View(p)
      <4>1. op' = [op EXCEPT ![p].pc = "write", ![p].want = status[op[p].acct]]
        BY <3>2 DEF View, Acct
      <4> QED BY <1>0, <3>1, <4>1, OpMoves
    <3>3. CASE Resolve(p)
      <4>1. op' = [op EXCEPT ![p].pc = "bind", ![p].read = filePrio[op[p].acct]]
        BY <3>3 DEF Resolve, Acct
      <4> QED BY <1>0, <3>1, <4>1, OpMoves
    <3> QED BY <1>5, <3>2, <3>3
  <2>2. UNCHANGED <<status, debt, filePrio, healQueue, probeQueue, write, call, draft, excused>>
    BY <1>5 DEF View, Resolve, stores, queues
  <2> QED BY <2>1, <2>2 DEF TypeOK
<1>6. CASE Bind(p)
  <2>1. status' \in [Accounts -> Statuses] /\ debt' \in [Accounts -> DebtType]
    BY <1>0, <1>1, <1>2, <1>6 DEF Bind, Acct, Want
  <2>2. op' \in [Procs -> OpType] /\ write' \in Procs \cup {NoProc} /\ excused' \subseteq Accounts
    <3>1. CASE Return(p)
      BY <1>1, <3>1, EndOp
    <3>2. CASE Goto(p, "write") /\ UNCHANGED <<write, excused>>
      BY <1>0, <3>2, OpMoves DEF Goto, HeldSteps, TypeOK
    <3> QED BY <1>6, <3>1, <3>2 DEF Bind
  <2>3. UNCHANGED <<filePrio, healQueue, probeQueue, call, draft>>
    BY <1>6 DEF Bind, queues
  <2> QED BY <2>1, <2>2, <2>3 DEF TypeOK
<1>7. CASE Write(p)
  <2>1. op' \in [Procs -> OpType]
    BY <1>0, <1>7, OpMoves DEF Write, Goto, HeldSteps
  <2>2. filePrio' \in [Accounts -> Int]
    BY <1>0, <1>1, <1>2, <1>7 DEF Write
  <2>3. UNCHANGED <<status, debt, healQueue, probeQueue, write, call, draft, excused>>
    BY <1>7 DEF Write, queues
  <2> QED BY <2>1, <2>2, <2>3 DEF TypeOK
<1>8. CASE WriteReportedLost(p) \/ Verify(p) \/ StepError(p)
  <2>1. Return(p) \/ Fail(p)
    BY <1>8 DEF WriteReportedLost, Verify, StepError
  <2>2. op' \in [Procs -> OpType] /\ write' = NoProc /\ excused' \subseteq Accounts
    BY <1>1, <2>1, EndOp
  <2>3. filePrio' \in [Accounts -> Int]
    BY <1>0, <1>1, <1>2, <1>8 DEF WriteReportedLost, Verify, StepError, stores
  <2>4. UNCHANGED <<status, debt, healQueue, probeQueue, call, draft>>
    BY <1>8 DEF WriteReportedLost, Verify, StepError, stores, queues
  <2> QED BY <2>2, <2>3, <2>4 DEF TypeOK
<1> QED BY <1>3, <1>4, <1>5, <1>6, <1>7, <1>8 DEF HeldStep

\* Types: every step.
LEMMA TypeStep == TypeOK /\ OpInv /\ [Next]_vars => TypeOK'
<1> SUFFICES ASSUME TypeOK, OpInv, [Next]_vars PROVE TypeOK'
  OBVIOUS
<1>1. ASSUME NEW a \in Accounts, AccountStep(a) PROVE TypeOK'
  <2>0. /\ status \in [Accounts -> Statuses] /\ "unknown" \in Statuses
        /\ debt \in [Accounts -> DebtType] /\ 0 \in DebtType
        /\ filePrio \in [Accounts -> Int]
    BY ConstantsAssumption DEF TypeOK, DebtType, Statuses
  <2>1. CASE ClearState(a)
    <3>1. status' \in [Accounts -> Statuses] /\ debt' \in [Accounts -> DebtType]
      BY <2>0, <2>1 DEF ClearState
    <3>2. excused' \subseteq Accounts
      BY <2>1 DEF ClearState, Excuse, TypeOK
    <3>3. UNCHANGED <<filePrio, healQueue, probeQueue, write, op, call, draft>>
      BY <2>1 DEF ClearState, queues
    <3> QED BY <3>1, <3>2, <3>3 DEF TypeOK
  <2>2. CASE ClearDiagnostic(a)
    <3>1. debt' \in [Accounts -> DebtType]
      BY <2>0, <2>2 DEF ClearDiagnostic
    <3>2. UNCHANGED <<status, filePrio, healQueue, probeQueue, write, op, call, draft, excused>>
      BY <2>2 DEF ClearDiagnostic, queues
    <3> QED BY <3>1, <3>2 DEF TypeOK
  <2>3. ASSUME NEW n \in OtherPriorities, SetOtherPriority(a, n) PROVE TypeOK'
    <3>1. filePrio' \in [Accounts -> Int]
      BY <2>0, <2>3, ConstantsAssumption DEF SetOtherPriority
    <3>2. excused' \subseteq Accounts
      BY <2>3 DEF SetOtherPriority, Excuse, TypeOK
    <3>3. UNCHANGED <<status, debt, healQueue, probeQueue, write, op, call, draft>>
      BY <2>3 DEF SetOtherPriority, queues
    <3> QED BY <3>1, <3>2, <3>3 DEF TypeOK
  <2> QED BY <1>1, <2>1, <2>2, <2>3 DEF AccountStep
<1>2. CASE Restart
  <2>1. <<>> \in Seq(Accounts) /\ Len(<<>>) = 0
    OBVIOUS
  <2>2. IdleOp \in OpType /\ IdleCall \in CallType
    BY DEF IdleOp, OpType, IdleCall, CallType, Statuses
  <2>3. healQueue' = <<>> /\ probeQueue' = <<>> /\ write' = NoProc
    BY <1>2 DEF Restart
  <2>4. op' \in [Procs -> OpType] /\ call' \in [Callers -> CallType]
    BY <1>2, <2>2 DEF Restart
  <2>5. excused' \subseteq Accounts
    BY <1>2 DEF Restart, Excuse, TypeOK
  <2>6. UNCHANGED <<status, debt, filePrio, draft>>
    BY <1>2 DEF Restart, stores
  <2> QED BY <2>1, <2>3, <2>4, <2>5, <2>6, ConstantsAssumption DEF TypeOK
<1>3. CASE UNCHANGED vars
  BY <1>3 DEF vars, TypeOK
<1> QED BY <1>1, <1>2, <1>3, UsageTypes, WorkerTypes, PanelTypes, HeldTypes DEF Next

-----------------------------------------------------------------------------
(* The shape of the operations, and mutual exclusion.                      *)

\* A step of an operation either ends it and frees the mutex, or keeps its
\* account and leaves it holding the mutex.
LEMMA HeldForms ==
  ASSUME TypeOK, NEW p \in Procs, Lock(p) \/ HeldStep(p)
  PROVE  /\ \A q \in Procs : q # p => op'[q] = op[q]
         /\ \/ op'[p] = IdleOp /\ write' = NoProc
            \/ /\ op'[p].pc \in HeldSteps /\ write' = p
               /\ op'[p].acct = op[p].acct /\ op'[p].kind = op[p].kind
<1>0. op \in [Procs -> OpType] /\ op[p] \in OpType
  BY DEF TypeOK
<1>1. ASSUME NEW pc \in HeldSteps, op' = [op EXCEPT ![p].pc = pc]
      PROVE  /\ \A q \in Procs : q # p => op'[q] = op[q]
             /\ op'[p].pc = pc /\ op'[p].acct = op[p].acct /\ op'[p].kind = op[p].kind
  BY <1>0, <1>1 DEF OpType
<1>2. CASE Lock(p)
  <2>1. FirstStep(op[p].kind) \in HeldSteps
    BY DEF FirstStep, HeldSteps
  <2> QED BY <1>1, <1>2, <2>1 DEF Lock, Goto
<1>3. CASE Mark(p) \/ Commit(p) \/ Write(p)
  <2>1. write' = p
    BY <1>3 DEF Mark, Commit, Write, At
  <2>2. \E pc \in {"resolve", "verify"} : op' = [op EXCEPT ![p].pc = pc]
    BY <1>3 DEF Mark, Commit, Write, Goto
  <2> QED BY <1>1, <2>1, <2>2 DEF HeldSteps
<1>4. CASE View(p)
  <2>1. write' = p /\ op' = [op EXCEPT ![p].pc = "write", ![p].want = status[op[p].acct]]
    BY <1>4 DEF View, At, Acct
  <2> QED BY <1>0, <2>1 DEF OpType, HeldSteps
<1>5. CASE Resolve(p)
  <2>1. write' = p /\ op' = [op EXCEPT ![p].pc = "bind", ![p].read = filePrio[op[p].acct]]
    BY <1>5 DEF Resolve, At, Acct
  <2> QED BY <1>0, <2>1 DEF OpType, HeldSteps
<1>6. CASE Return(p) \/ Fail(p)
  BY <1>0, <1>6 DEF Return, Fail
<1>7. CASE Bind(p)
  <2>1. CASE Goto(p, "write") /\ UNCHANGED <<write, excused>>
    BY <1>1, <1>7, <2>1 DEF Bind, Goto, At, HeldSteps
  <2> QED BY <1>6, <1>7, <2>1 DEF Bind
<1>8. CASE WriteReportedLost(p) \/ Verify(p) \/ StepError(p)
  BY <1>6, <1>8 DEF WriteReportedLost, Verify, StepError
<1> QED BY <1>2, <1>3, <1>4, <1>5, <1>7, <1>8 DEF HeldStep

\* What an operation has read and wants fits its step.
LEMMA OpStep == TypeOK /\ OpInv /\ [Next]_vars => OpInv'
<1> SUFFICES ASSUME TypeOK, OpInv, [Next]_vars PROVE OpInv'
  OBVIOUS
<1>0. /\ op \in [Procs -> OpType]
      /\ call \in [Callers -> CallType]
      /\ HealWorker \in Procs /\ ProbeWorker \in Procs
      /\ HealWorker # ProbeWorker
      /\ \A k \in Panels : k \in Procs /\ k # HealWorker
  BY ProcFacts, ConstantsAssumption DEF TypeOK
<1>1. ASSUME NEW u \in Callers, UsageStep(u) PROVE OpInv'
  <2>1. op' = op
    BY <1>1 DEF UsageStep, HandleSuccess, HandleFailure, EnqueueHeal, EnqueueProbe
  <2>2. \/ call' = call
        \/ call' = [call EXCEPT ![u] = IdleCall]
        \/ \E a \in Accounts, pc \in {"heal", "probe"} :
             call' = [call EXCEPT ![u] = [pc |-> pc, acct |-> a]]
    BY <1>1 DEF UsageStep, HandleSuccess, HandleFailure, EnqueueHeal, EnqueueProbe
  <2>3. \A v \in Callers : call'[v].pc # "idle" => call'[v].acct \in Accounts
    BY <1>0, <2>2 DEF OpInv, IdleCall
  <2> QED BY <2>1, <2>3 DEF OpInv
<1>2. CASE TakeHeal
  <2>1. Head(healQueue) \in Accounts
    BY <1>2, HeadTailProperties DEF TakeHeal, TypeOK
  <2>2. op' = [op EXCEPT ![HealWorker] = [pc |-> "lock", kind |-> "heal",
                 acct |-> Head(healQueue), want |-> "live", read |-> 0]]
    BY <1>2 DEF TakeHeal, Begin
  <2>3. call' = call
    BY <1>2 DEF TakeHeal
  <2> QED BY <1>0, <2>1, <2>2, <2>3 DEF OpInv
<1>3. CASE TakeProbe \/ ProbeCheck \/ (\E s \in ProbeResults : ProbeAnswer(s))
  <2>1. Head(probeQueue) \in Accounts \/ ~TakeProbe
    BY HeadTailProperties DEF TakeProbe, TypeOK
  <2>2. \A p \in Procs : p # ProbeWorker => op'[p] = op[p]
    BY <1>0, <1>3 DEF TakeProbe, ProbeCheck, ProbeAnswer, Begin
  <2>3. op'[ProbeWorker].pc # "idle" => op'[ProbeWorker].acct \in Accounts
    <3>1. CASE TakeProbe
      BY <1>0, <2>1, <3>1 DEF TakeProbe, Begin, OpInv
    <3>2. CASE ProbeCheck
      BY <1>0, <3>2 DEF ProbeCheck, OpInv, IdleOp, OpType
    <3>3. ASSUME NEW s \in ProbeResults, ProbeAnswer(s)
          PROVE  op'[ProbeWorker].acct \in Accounts
      BY <1>0, <3>3 DEF ProbeAnswer, OpInv, OpType
    <3> QED BY <1>3, <3>1, <3>2, <3>3
  <2>4. call' = call
    BY <1>3 DEF TakeProbe, ProbeCheck, ProbeAnswer
  <2> QED BY <1>0, <2>2, <2>3, <2>4 DEF OpInv
<1>4. ASSUME NEW k \in Panels, PanelStep(k) \/ SaveQuota(k) PROVE OpInv'
  <2>1. \/ op' = op
        \/ \E a \in Accounts, s \in Statuses, kind \in {"probe", "sync", "resign"} :
             op' = [op EXCEPT ![k] = [pc |-> "lock", kind |-> kind, acct |-> a,
                                      want |-> s, read |-> 0]]
    <3>1. ProbeResults \subseteq Statuses /\ "unknown" \in Statuses
      BY ConstantsAssumption DEF Statuses
    <3> QED BY <1>4, <3>1 DEF PanelStep, PanelProbe, PanelSync, PanelResign, DraftQuota, SaveQuota, Begin
  <2>2. call' = call
    BY <1>4 DEF PanelStep, PanelProbe, PanelSync, PanelResign, DraftQuota, SaveQuota
  <2>3. \A p \in Procs : p # k => op'[p] = op[p]
    BY <1>0, <2>1
  <2>4. op'[k].pc # "idle" => op'[k].acct \in Accounts
    BY <1>0, <2>1 DEF OpInv
  <2> QED BY <1>0, <2>2, <2>3, <2>4 DEF OpInv
<1>5. ASSUME NEW p \in Procs, Lock(p) \/ HeldStep(p) PROVE OpInv'
  <2>1. call' = call
    BY <1>5 DEF Lock, HeldStep, Mark, Commit, View, Resolve, Bind, Write, WriteReportedLost,
                Verify, StepError
  <2>2. \A q \in Procs : q # p => op'[q] = op[q]
    BY <1>5, HeldForms
  <2>3. op[p].pc # "idle"
    BY <1>5 DEF Lock, HeldStep, Mark, Commit, View, Resolve, Bind, Write, WriteReportedLost,
                Verify, StepError, At, HeldSteps
  <2>4. op'[p] = IdleOp \/ (op'[p].acct = op[p].acct /\ op'[p].kind = op[p].kind)
    BY <1>5, HeldForms
  <2>5. op'[p].pc # "idle" => op'[p].acct \in Accounts
    BY <2>3, <2>4 DEF OpInv, IdleOp
  <2>6. CASE p # HealWorker
    BY <1>0, <2>1, <2>2, <2>5, <2>6 DEF OpInv
  <2>7. CASE p = HealWorker
    <3>1. op[p].kind = "heal" /\ op[p].want = "live"
      BY <2>3, <2>7 DEF OpInv
    <3>2. op[p].pc \in {"lock", "resolve", "bind", "write", "verify"}
      BY <2>3, <2>7 DEF OpInv
    <3>3. \/ op' = [op EXCEPT ![p] = IdleOp]
          \/ \E pc \in {"resolve", "write", "verify"} : op' = [op EXCEPT ![p].pc = pc]
          \/ op' = [op EXCEPT ![p].pc = "bind", ![p].read = filePrio[op[p].acct]]
      BY <1>5, <3>1, <3>2 DEF Lock, HeldStep, Mark, Commit, View, Resolve, Bind, Write,
                WriteReportedLost, Verify, StepError, Return, Fail, Goto, At, FirstStep, Acct
    <3>4. /\ op'[p].pc \in {"idle", "resolve", "bind", "write", "verify"}
          /\ op'[p].pc # "idle" => op'[p].kind = "heal" /\ op'[p].want = "live"
      <4>1. op[p] \in OpType
        BY <1>0
      <4>2. op' = [op EXCEPT ![p] = IdleOp] => op'[p].pc = "idle"
        BY <1>0 DEF IdleOp
      <4>3. ASSUME NEW pc \in {"resolve", "write", "verify"}, op' = [op EXCEPT ![p].pc = pc]
            PROVE  op'[p].pc = pc /\ op'[p].kind = "heal" /\ op'[p].want = "live"
        BY <1>0, <3>1, <4>1, <4>3 DEF OpType
      <4>4. ASSUME op' = [op EXCEPT ![p].pc = "bind", ![p].read = filePrio[op[p].acct]]
            PROVE  op'[p].pc = "bind" /\ op'[p].kind = "heal" /\ op'[p].want = "live"
        BY <1>0, <3>1, <4>1, <4>4 DEF OpType
      <4> QED BY <3>3, <4>2, <4>3, <4>4
    <3> QED BY <1>0, <2>1, <2>2, <2>5, <2>7, <3>4 DEF OpInv
  <2> QED BY <2>6, <2>7
<1>6. ASSUME NEW a \in Accounts, AccountStep(a) PROVE OpInv'
  BY <1>6 DEF AccountStep, ClearState, ClearDiagnostic, SetOtherPriority, OpInv
<1>7. CASE Restart
  BY <1>0, <1>7 DEF Restart, IdleOp, IdleCall, OpInv
<1>8. CASE UNCHANGED vars
  BY <1>8 DEF vars, OpInv
<1> QED BY <1>1, <1>2, <1>3, <1>4, <1>5, <1>6, <1>7, <1>8 DEF Next, WorkerStep

\* The mutex is held by whoever is at a step under it.
LEMMA LockStep == TypeOK /\ LockInv /\ [Next]_vars => LockInv'
<1> SUFFICES ASSUME TypeOK, LockInv, [Next]_vars PROVE LockInv'
  OBVIOUS
<1>0. /\ op \in [Procs -> OpType]
      /\ HealWorker \in Procs /\ ProbeWorker \in Procs
      /\ \A k \in Panels : k \in Procs
      /\ NoProc \notin Procs
      /\ "idle" \notin HeldSteps /\ "lock" \notin HeldSteps
      /\ "check" \notin HeldSteps /\ "http" \notin HeldSteps
  BY ProcFacts, ConstantsAssumption DEF TypeOK, HeldSteps
<1>1. ASSUME NEW p \in Procs, op[p].pc \notin HeldSteps, op'[p].pc \notin HeldSteps,
             \A q \in Procs : q # p => op'[q] = op[q],
             write' = write
      PROVE  LockInv'
  BY <1>1 DEF LockInv
<1>2. ASSUME op' = op, write' = write PROVE LockInv'
  BY <1>2 DEF LockInv
<1>3. ASSUME NEW u \in Callers, UsageStep(u) PROVE LockInv'
  BY <1>2, <1>3 DEF UsageStep, HandleSuccess, HandleFailure, EnqueueHeal, EnqueueProbe
<1>4. CASE WorkerStep
  <2>1. CASE TakeHeal
    BY <1>0, <1>1, <2>1 DEF TakeHeal, Begin
  <2>2. CASE TakeProbe
    BY <1>0, <1>1, <1>2, <2>2 DEF TakeProbe, Begin
  <2>3. CASE ProbeCheck
    <3>1. op'[ProbeWorker].pc \in {"http", "idle"}
      BY <1>0, <2>3 DEF ProbeCheck, IdleOp, OpType
    <3> QED BY <1>0, <1>1, <2>3, <3>1 DEF ProbeCheck
  <2>4. ASSUME NEW s \in ProbeResults, ProbeAnswer(s) PROVE LockInv'
    BY <1>0, <1>1, <2>4 DEF ProbeAnswer
  <2> QED BY <1>4, <2>1, <2>2, <2>3, <2>4 DEF WorkerStep
<1>5. ASSUME NEW k \in Panels, PanelStep(k) \/ SaveQuota(k) PROVE LockInv'
  <2>1. ASSUME NEW a \in Accounts, NEW s \in ProbeResults, PanelProbe(k, a, s) PROVE LockInv'
    BY <1>0, <1>1, <2>1 DEF PanelProbe, Begin
  <2>2. ASSUME NEW a \in Accounts, PanelSync(k, a) PROVE LockInv'
    BY <1>0, <1>1, <2>2 DEF PanelSync, Begin
  <2>3. ASSUME NEW a \in Accounts, PanelResign(k, a) PROVE LockInv'
    BY <1>0, <1>1, <2>3 DEF PanelResign, Begin
  <2>4. ASSUME NEW a \in Accounts, DraftQuota(k, a) PROVE LockInv'
    BY <1>2, <2>4 DEF DraftQuota
  <2>5. CASE SaveQuota(k)
    BY <1>2, <2>5 DEF SaveQuota
  <2> QED BY <1>5, <2>1, <2>2, <2>3, <2>4, <2>5 DEF PanelStep
<1>6. ASSUME NEW p \in Procs, Lock(p) \/ HeldStep(p) PROVE LockInv'
  <2>1. \A q \in Procs : q # p => op'[q] = op[q]
    BY <1>6, HeldForms
  <2>2. write = p \/ write = NoProc
    BY <1>6 DEF Lock, HeldStep, Mark, Commit, View, Resolve, Bind, Write,
                WriteReportedLost, Verify, StepError, At
  <2>3. \A q \in Procs : q # p => op[q].pc \notin HeldSteps
    BY <1>0, <2>2 DEF LockInv
  <2>4. (op'[p].pc \in HeldSteps /\ write' = p) \/ (op'[p] = IdleOp /\ write' = NoProc)
    BY <1>6, HeldForms
  <2>5. IdleOp.pc \notin HeldSteps
    BY <1>0 DEF IdleOp
  <2> QED BY <1>0, <2>1, <2>3, <2>4, <2>5 DEF LockInv
<1>7. ASSUME NEW a \in Accounts, AccountStep(a) PROVE LockInv'
  BY <1>2, <1>7 DEF AccountStep, ClearState, ClearDiagnostic, SetOtherPriority
<1>8. CASE Restart
  BY <1>0, <1>8 DEF Restart, IdleOp, LockInv
<1>9. CASE UNCHANGED vars
  BY <1>2, <1>9 DEF vars
<1> QED BY <1>3, <1>4, <1>5, <1>6, <1>7, <1>8, <1>9 DEF Next

\* Every state of every behaviour is well typed: in particular a queue never
\* exceeds its capacity and debt never reaches the threshold
\* (AccountsService, UsageService and the two workers).
THEOREM TypeCorrect == Spec => []TypeOK
<1>1. Init => TypeOK /\ OpInv
  BY InitInductive DEF Inductive
<1>2. (TypeOK /\ OpInv) /\ [Next]_vars => (TypeOK /\ OpInv)'
  BY TypeStep, OpStep
<1> QED BY <1>1, <1>2, PTL DEF Spec

-----------------------------------------------------------------------------
(* The binding of status and priority.                                     *)

Late == {"resolve", "bind", "write", "verify"}

\* A step in which no operation enters or leaves its late part keeps the three
\* binding invariants, if it excuses whatever it disturbs.
LEMMA Quiet ==
  ASSUME Inductive,
         \A b \in Accounts \ excused' :
           /\ b \notin excused
           /\ filePrio'[b] = filePrio[b]
           /\ HealComing(b) => HealComing(b)'
           /\ status'[b] = status[b] \/ HealComing(b)',
         \A q \in Procs : op'[q] = op[q] \/ (op[q].pc \notin Late /\ op'[q].pc \notin Late)
  PROVE  NoStaleWrite' /\ SkipIsSafe' /\ BindingInv'
<1>1. \A q \in Procs : op[q].pc \in Late => op[q].acct \in Accounts
  BY DEF Inductive, OpInv, Late
<1>2. NoStaleWrite'
  <2> SUFFICES ASSUME NEW q \in Procs, op'[q].pc \in {"write", "verify"},
                      NEW b, b = op'[q].acct, b \notin excused'
               PROVE  op'[q].want = status'[b] \/ HealComing(b)'
    BY DEF NoStaleWrite, Want, Acct, HealComing, InQueue
  <2>1. op'[q] = op[q] /\ b \in Accounts
    BY <1>1 DEF Late
  <2>2. op[q].want = status[b] \/ HealComing(b)
    BY <2>1 DEF Inductive, NoStaleWrite, Acct, Want
  <2> QED BY <2>1, <2>2
<1>3. SkipIsSafe'
  <2> SUFFICES ASSUME NEW q \in Procs, op'[q].pc = "bind", op'[q].acct \notin excused'
               PROVE  op'[q].read = filePrio'[op'[q].acct]
    BY DEF SkipIsSafe, Acct
  <2>1. op'[q] = op[q] /\ op[q].acct \in Accounts
    BY <1>1 DEF Late
  <2> QED BY <2>1 DEF Inductive, SkipIsSafe, Acct
<1>4. BindingInv'
  <2> SUFFICES ASSUME NEW b \in Accounts, b \notin excused' PROVE Match(b)' \/ Owed(b)'
    BY DEF BindingInv
  <2>1. Match(b) \/ HealComing(b) \/ Binding(b)
    BY DEF Inductive, BindingInv, Owed
  <2>2. CASE HealComing(b)
    BY <2>2 DEF Owed
  <2>3. CASE Binding(b)
    <3>1. PICK q \in Procs : op[q].acct = b /\ op[q].pc \in Late
      BY <2>3 DEF Binding, Late
    <3>2. op'[q] = op[q]
      BY <3>1
    <3>3. Binding(b)'
      BY <3>1, <3>2 DEF Binding, Late
    <3> QED BY <3>3 DEF Owed
  <2>4. CASE Match(b)
    BY <2>4 DEF Match, Owed
  <2> QED BY <2>1, <2>2, <2>3, <2>4
<1> QED BY <1>2, <1>3, <1>4

\* usage.handle: a success leaves a heal behind, and a heal is passed on or
\* its account excused.
LEMMA UsageBinding ==
  ASSUME Inductive, NEW u \in Callers, UsageStep(u)
  PROVE  NoStaleWrite' /\ SkipIsSafe' /\ BindingInv'
<1>0. /\ op' = op /\ filePrio' = filePrio
      /\ call \in [Callers -> CallType] /\ status \in [Accounts -> Statuses]
  BY DEF UsageStep, HandleSuccess, HandleFailure, EnqueueHeal, EnqueueProbe, stores, Inductive, TypeOK
<1>1. ASSUME NEW a \in Accounts, HandleSuccess(u, a)
      PROVE  NoStaleWrite' /\ SkipIsSafe' /\ BindingInv'
  <2>1. excused' = excused /\ healQueue' = healQueue
    BY <1>1 DEF HandleSuccess, queues
  <2>2. \A v \in Callers : call[v].pc = "heal" => call'[v] = call[v]
    BY <1>0, <1>1 DEF HandleSuccess
  <2>3. \A b \in Accounts : HealComing(b) => HealComing(b)'
    BY <1>0, <2>1, <2>2 DEF HealComing, InQueue
  <2>4. \A b \in Accounts : status'[b] = status[b] \/ HealComing(b)'
    <3>1. CASE status[a] = "live"
      BY <1>1, <3>1 DEF HandleSuccess
    <3>2. CASE status[a] # "live"
      <4>1. call'[u].pc = "heal" /\ call'[u].acct = a
        BY <1>0, <1>1, <3>2 DEF HandleSuccess
      <4>2. HealComing(a)'
        BY <4>1 DEF HealComing
      <4>3. \A b \in Accounts : b # a => status'[b] = status[b]
        BY <1>0, <1>1, <3>2 DEF HandleSuccess
      <4> QED BY <4>2, <4>3
    <3> QED BY <3>1, <3>2
  <2> QED BY <1>0, <2>1, <2>3, <2>4, Quiet
<1>2. ASSUME NEW a \in Accounts, NEW w \in FailWeights, HandleFailure(u, a, w)
      PROVE  NoStaleWrite' /\ SkipIsSafe' /\ BindingInv'
  <2>1. excused' = excused /\ healQueue' = healQueue /\ status' = status
    BY <1>2 DEF HandleFailure, queues
  <2>2. \A v \in Callers : call[v].pc = "heal" => call'[v] = call[v]
    BY <1>0, <1>2 DEF HandleFailure
  <2>3. \A b \in Accounts : HealComing(b) => HealComing(b)'
    BY <1>0, <2>1, <2>2 DEF HealComing, InQueue
  <2> QED BY <1>0, <2>1, <2>3, Quiet
<1>3. CASE EnqueueHeal(u)
  <2>1. status' = status /\ excused \subseteq excused' /\ call[u].acct \in Accounts
    BY <1>3 DEF EnqueueHeal, stores, Excuse, Inductive, OpInv
  <2>2. \A v \in Callers : v # u => call'[v] = call[v]
    BY <1>0, <1>3 DEF EnqueueHeal
  <2>3. ASSUME NEW b \in Accounts, b \notin excused', HealComing(b) PROVE HealComing(b)'
    <3>1. CASE Len(healQueue) < QueueSize
      <4>1. healQueue' = Append(healQueue, call[u].acct) /\ healQueue \in Seq(Accounts)
        BY <1>3, <3>1 DEF EnqueueHeal, Inductive, TypeOK
      <4>2. InQueue(b, healQueue') <=> InQueue(b, healQueue) \/ b = call[u].acct
        BY <2>1, <4>1, AppendInQueue
      <4>3. InQueue(b, healQueue)' <=> InQueue(b, healQueue')
        BY DEF InQueue
      <4> QED BY <1>0, <2>2, <2>3, <4>2, <4>3 DEF HealComing
    <3>2. CASE ~(Len(healQueue) < QueueSize)
      <4>1. healQueue' = healQueue /\ b # call[u].acct
        BY <1>3, <2>3, <3>2 DEF EnqueueHeal, Excuse
      <4> QED BY <1>0, <2>2, <2>3, <4>1 DEF HealComing, InQueue
    <3> QED BY <3>1, <3>2
  <2> QED BY <1>0, <2>1, <2>3, Quiet
<1>4. CASE EnqueueProbe(u)
  <2>1. status' = status /\ excused' = excused /\ healQueue' = healQueue
    BY <1>4 DEF EnqueueProbe, stores
  <2>2. \A v \in Callers : call[v].pc = "heal" => call'[v] = call[v]
    BY <1>0, <1>4 DEF EnqueueProbe
  <2>3. \A b \in Accounts : HealComing(b) => HealComing(b)'
    BY <1>0, <2>1, <2>2 DEF HealComing, InQueue
  <2> QED BY <1>0, <2>1, <2>3, Quiet
<1> QED BY <1>1, <1>2, <1>3, <1>4 DEF UsageStep

\* The workers take a request and the panel starts an operation.
LEMMA StartBinding ==
  ASSUME Inductive, WorkerStep \/ \E k \in Panels : PanelStep(k)
  PROVE  NoStaleWrite' /\ SkipIsSafe' /\ BindingInv'
<1>0. /\ op \in [Procs -> OpType]
      /\ HealWorker \in Procs /\ ProbeWorker \in Procs /\ HealWorker # ProbeWorker
      /\ \A k \in Panels : k \in Procs /\ k # HealWorker
  BY ProcFacts, ConstantsAssumption DEF Inductive, TypeOK
<1>1. /\ call' = call /\ status' = status /\ filePrio' = filePrio /\ excused' = excused
  BY DEF WorkerStep, TakeHeal, TakeProbe, ProbeCheck, ProbeAnswer, PanelStep, PanelProbe,
         PanelSync, PanelResign, DraftQuota, stores
<1>2. CASE TakeHeal
  <2>1. healQueue # <<>> /\ healQueue \in Seq(Accounts) /\ healQueue' = Tail(healQueue)
    BY <1>2 DEF TakeHeal, Inductive, TypeOK
  <2>2. /\ op[HealWorker].pc = "idle"
        /\ op'[HealWorker].pc = "lock" /\ op'[HealWorker].acct = Head(healQueue)
        /\ \A q \in Procs : q # HealWorker => op'[q] = op[q]
    BY <1>0, <1>2 DEF TakeHeal, Begin
  <2>3. ASSUME NEW b \in Accounts, HealComing(b) PROVE HealComing(b)'
    <3>1. InQueue(b, healQueue) => b = Head(healQueue) \/ InQueue(b, healQueue')
      BY <2>1, TailInQueue
    <3>2. InQueue(b, healQueue)' <=> InQueue(b, healQueue')
      BY DEF InQueue
    <3> QED BY <1>1, <2>2, <2>3, <3>1, <3>2 DEF HealComing
  <2> QED BY <1>1, <2>2, <2>3, Quiet DEF Late
<1>3. ASSUME NEW p \in Procs, p # HealWorker, op[p].pc \notin Late, op'[p].pc \notin Late,
             \A q \in Procs : q # p => op'[q] = op[q],
             healQueue' = healQueue
      PROVE  NoStaleWrite' /\ SkipIsSafe' /\ BindingInv'
  <2>1. op'[HealWorker] = op[HealWorker]
    BY <1>0, <1>3
  <2>2. \A b \in Accounts : HealComing(b) => HealComing(b)'
    BY <1>1, <1>3, <2>1 DEF HealComing, InQueue
  <2> QED BY <1>1, <1>3, <2>2, Quiet
<1>4. CASE TakeProbe \/ ProbeCheck \/ (\E s \in ProbeResults : ProbeAnswer(s))
  <2>1. op[ProbeWorker].pc \notin Late
    BY <1>4 DEF TakeProbe, ProbeCheck, ProbeAnswer, Late
  <2>2. op'[ProbeWorker].pc \notin Late
    <3>1. CASE TakeProbe
      BY <1>0, <2>1, <3>1 DEF TakeProbe, Begin, Late
    <3>2. CASE ProbeCheck
      BY <1>0, <3>2 DEF ProbeCheck, IdleOp, Late, OpType
    <3>3. ASSUME NEW s \in ProbeResults, ProbeAnswer(s) PROVE op'[ProbeWorker].pc \notin Late
      BY <1>0, <3>3 DEF ProbeAnswer, Late, OpType
    <3> QED BY <1>4, <3>1, <3>2, <3>3
  <2>3. \A q \in Procs : q # ProbeWorker => op'[q] = op[q]
    BY <1>0, <1>4 DEF TakeProbe, ProbeCheck, ProbeAnswer, Begin
  <2>4. healQueue' = healQueue
    BY <1>4 DEF TakeProbe, ProbeCheck, ProbeAnswer, queues
  <2> QED BY <1>0, <1>3, <2>1, <2>2, <2>3, <2>4
<1>5. ASSUME NEW k \in Panels, PanelStep(k)
      PROVE  NoStaleWrite' /\ SkipIsSafe' /\ BindingInv'
  <2>1. healQueue' = healQueue
    BY <1>5 DEF PanelStep, PanelProbe, PanelSync, PanelResign, DraftQuota, queues
  <2>2. CASE op' = op
    <3>1. \A b \in Accounts : HealComing(b) => HealComing(b)'
      BY <1>1, <2>1, <2>2 DEF HealComing, InQueue
    <3> QED BY <1>1, <2>2, <3>1, Quiet
  <2>3. ASSUME NEW a \in Accounts, NEW s, NEW kind, op[k].pc = "idle",
               Begin(k, kind, a, s, "lock")
        PROVE  NoStaleWrite' /\ SkipIsSafe' /\ BindingInv'
    <3>1. /\ op[k].pc \notin Late /\ op'[k].pc \notin Late
          /\ \A q \in Procs : q # k => op'[q] = op[q]
      BY <1>0, <2>3 DEF Begin, Late
    <3> QED BY <1>0, <1>3, <2>1, <3>1
  <2> QED BY <1>5, <2>2, <2>3 DEF PanelStep, PanelProbe, PanelSync, PanelResign, DraftQuota
<1> QED BY <1>2, <1>4, <1>5 DEF WorkerStep

\* Updates that bypass the mutex, and the restart, excuse what they disturb.
LEMMA DisturbanceBinding ==
  ASSUME Inductive,
         \/ \E k \in Panels : SaveQuota(k)
         \/ \E a \in Accounts : AccountStep(a)
         \/ Restart
         \/ UNCHANGED vars
  PROVE  NoStaleWrite' /\ SkipIsSafe' /\ BindingInv'
<1>0. /\ status \in [Accounts -> Statuses]
      /\ filePrio \in [Accounts -> Int]
  BY DEF Inductive, TypeOK
<1>1. ASSUME op' = op, call' = call, healQueue' = healQueue,
             \A b \in Accounts \ excused' :
               b \notin excused /\ filePrio'[b] = filePrio[b] /\ status'[b] = status[b]
      PROVE  NoStaleWrite' /\ SkipIsSafe' /\ BindingInv'
  <2>1. \A b \in Accounts : HealComing(b) => HealComing(b)'
    BY <1>1 DEF HealComing, InQueue
  <2> QED BY <1>1, <2>1, Quiet
<1>2. ASSUME NEW k \in Panels, SaveQuota(k)
      PROVE  NoStaleWrite' /\ SkipIsSafe' /\ BindingInv'
  <2>1. op' = op /\ call' = call /\ healQueue' = healQueue /\ filePrio' = filePrio
    BY <1>2 DEF SaveQuota, queues
  <2>2. \A b \in Accounts \ excused' : b \notin excused /\ status'[b] = status[b]
    BY <1>0, <1>2 DEF SaveQuota, Excuse
  <2> QED BY <1>1, <2>1, <2>2
<1>3. ASSUME NEW a \in Accounts, AccountStep(a)
      PROVE  NoStaleWrite' /\ SkipIsSafe' /\ BindingInv'
  <2>1. op' = op /\ call' = call /\ healQueue' = healQueue
    BY <1>3 DEF AccountStep, ClearState, ClearDiagnostic, SetOtherPriority, queues
  <2>2. \A b \in Accounts \ excused' :
           b \notin excused /\ filePrio'[b] = filePrio[b] /\ status'[b] = status[b]
    <3>1. CASE ClearState(a)
      BY <1>0, <3>1 DEF ClearState, Excuse
    <3>2. CASE ClearDiagnostic(a)
      BY <3>2 DEF ClearDiagnostic
    <3>3. ASSUME NEW n \in OtherPriorities, SetOtherPriority(a, n)
          PROVE  \A b \in Accounts \ excused' :
                   b \notin excused /\ filePrio'[b] = filePrio[b] /\ status'[b] = status[b]
      BY <1>0, <3>3 DEF SetOtherPriority, Excuse
    <3> QED BY <1>3, <3>1, <3>2, <3>3 DEF AccountStep
  <2> QED BY <1>1, <2>1, <2>2
<1>4. CASE Restart
  <2>1. \A q \in Procs : op'[q].pc = "idle"
    BY <1>4 DEF Restart, IdleOp
  <2>2. status' = status /\ filePrio' = filePrio
    BY <1>4 DEF Restart, stores
  <2>3. \A b \in Accounts \ excused' : Match(b)
    BY <1>4 DEF Restart, Excuse
  <2>4. BindingInv'
    BY <2>2, <2>3 DEF BindingInv, Match
  <2>5. NoStaleWrite' /\ SkipIsSafe'
    BY <2>1 DEF NoStaleWrite, SkipIsSafe
  <2> QED BY <2>4, <2>5
<1>5. CASE UNCHANGED vars
  BY <1>1, <1>5 DEF vars
<1> QED BY <1>2, <1>3, <1>4, <1>5

\* What the steps of one operation leave alone: the other operations are not
\* in the critical section, and the other accounts keep everything.
LEMMA HeldFrame ==
  ASSUME Inductive, NEW p \in Procs, Lock(p) \/ HeldStep(p)
  PROVE  /\ op[p].acct \in Accounts
         /\ \A q \in Procs : q # p => op'[q] = op[q] /\ op[q].pc \notin HeldSteps
         /\ call' = call /\ healQueue' = healQueue
         /\ \A b \in Accounts : b # op[p].acct =>
              /\ status'[b] = status[b]
              /\ filePrio'[b] = filePrio[b]
              /\ b \in excused <=> b \in excused'
              /\ HealComing(b) => HealComing(b)'
         /\ p # HealWorker => \A b \in Accounts : HealComing(b) => HealComing(b)'
<1>0. /\ status \in [Accounts -> Statuses]
      /\ filePrio \in [Accounts -> Int]
      /\ HealWorker \in Procs
  BY ProcFacts DEF Inductive, TypeOK
<1>1. op[p].acct \in Accounts
  <2>1. op[p].pc # "idle"
    BY DEF Lock, HeldStep, Mark, Commit, View, Resolve, Bind, Write, WriteReportedLost,
           Verify, StepError, At, HeldSteps
  <2> QED BY <2>1 DEF Inductive, OpInv
<1>2. \A q \in Procs : q # p => op'[q] = op[q] /\ op[q].pc \notin HeldSteps
  <2>1. \A q \in Procs : q # p => op'[q] = op[q]
    BY HeldForms DEF Inductive
  <2>2. write = p \/ write = NoProc
    BY DEF Lock, HeldStep, Mark, Commit, View, Resolve, Bind, Write, WriteReportedLost,
           Verify, StepError, At
  <2>3. NoProc \notin Procs
    BY ConstantsAssumption
  <2> QED BY <2>1, <2>2, <2>3 DEF Inductive, LockInv
<1>3. call' = call /\ healQueue' = healQueue
  BY DEF Lock, HeldStep, Mark, Commit, View, Resolve, Bind, Write, WriteReportedLost,
         Verify, StepError, queues
<1>4. p # HealWorker => \A b \in Accounts : HealComing(b) => HealComing(b)'
  BY <1>0, <1>2, <1>3 DEF HealComing, InQueue
<1>5. ASSUME NEW b \in Accounts, b # op[p].acct
      PROVE  /\ status'[b] = status[b]
             /\ filePrio'[b] = filePrio[b]
             /\ b \in excused <=> b \in excused'
  <2>1. status'[b] = status[b]
    BY <1>0, <1>5 DEF Lock, HeldStep, Mark, Commit, View, Resolve, Bind, Write,
         WriteReportedLost, Verify, StepError, stores, Acct
  <2>2. filePrio'[b] = filePrio[b]
    BY <1>0, <1>5 DEF Lock, HeldStep, Mark, Commit, View, Resolve, Bind, Write,
         WriteReportedLost, Verify, StepError, stores, Acct
  <2>3. excused' = excused \/ Return(p) \/ Fail(p)
    BY DEF Lock, HeldStep, Mark, Commit, View, Resolve, Bind, Write, WriteReportedLost,
         Verify, StepError
  <2>4. b \in excused <=> b \in excused'
    BY <1>5, <2>3 DEF Return, Fail, Excuse, Acct
  <2> QED BY <2>1, <2>2, <2>4
<1>6. ASSUME NEW b \in Accounts, b # op[p].acct, HealComing(b) PROVE HealComing(b)'
  <2>1. CASE p # HealWorker
    BY <1>4, <1>6, <2>1
  <2>2. CASE p = HealWorker
    BY <1>3, <1>6, <2>2 DEF HealComing, InQueue
  <2> QED BY <2>1, <2>2
<1> QED BY <1>1, <1>2, <1>3, <1>4, <1>5, <1>6

\* Only the operation that moved can be late, and the other accounts stay bound:
\* what remains to show of a step under the mutex concerns its own account.
LEMMA HeldReduce ==
  ASSUME Inductive, NEW p \in Procs, Lock(p) \/ HeldStep(p), NEW a, a = op[p].acct,
         op'[p].pc \in {"write", "verify"} /\ a \notin excused' =>
           op'[p].acct = a /\ (op'[p].want = status'[a] \/ HealComing(a)'),
         op'[p].pc = "bind" /\ a \notin excused' =>
           op'[p].acct = a /\ op'[p].read = filePrio'[a],
         a \notin excused' => Match(a)' \/ Owed(a)'
  PROVE  NoStaleWrite' /\ SkipIsSafe' /\ BindingInv'
<1>0. op'[p] = IdleOp \/ op'[p].acct = a
  BY HeldForms DEF Inductive
<1>1. /\ \A q \in Procs : q # p => op'[q].pc \notin HeldSteps
      /\ \A q \in Procs : q # p => op[q].pc \notin HeldSteps
  BY HeldFrame
<1>2. NoStaleWrite'
  <2> SUFFICES ASSUME NEW q \in Procs, op'[q].pc \in {"write", "verify"},
                      NEW b, b = op'[q].acct, b \notin excused'
               PROVE  op'[q].want = status'[b] \/ HealComing(b)'
    BY DEF NoStaleWrite, Want, Acct, HealComing, InQueue
  <2>1. q = p
    BY <1>1 DEF HeldSteps
  <2>2. b = a
    BY <1>0, <2>1 DEF IdleOp
  <2> QED BY <2>1, <2>2
<1>3. SkipIsSafe'
  <2> SUFFICES ASSUME NEW q \in Procs, op'[q].pc = "bind", op'[q].acct \notin excused'
               PROVE  op'[q].read = filePrio'[op'[q].acct]
    BY DEF SkipIsSafe, Acct
  <2>1. q = p
    BY <1>1 DEF HeldSteps
  <2> QED BY <1>0, <2>1 DEF IdleOp
<1>4. BindingInv'
  <2> SUFFICES ASSUME NEW b \in Accounts, b \notin excused' PROVE Match(b)' \/ Owed(b)'
    BY DEF BindingInv
  <2>1. CASE b = a
    BY <2>1
  <2>2. CASE b # a
    <3>1. /\ status'[b] = status[b] /\ filePrio'[b] = filePrio[b] /\ b \notin excused
          /\ HealComing(b) => HealComing(b)'
      BY <2>2, HeldFrame
    <3>2. ~Binding(b)
      BY <1>1, <2>2 DEF Binding, HeldSteps
    <3>3. Match(b) \/ HealComing(b)
      BY <3>1, <3>2 DEF Inductive, BindingInv, Owed
    <3> QED BY <3>1, <3>3 DEF Match, Owed
  <2> QED BY <2>1, <2>2
<1> QED BY <1>2, <1>3, <1>4

\* The steps of an operation: it binds what it wants, or it was overtaken by a
\* success whose heal comes after it, or its account is excused.
LEMMA HeldBinding ==
  ASSUME Inductive, NEW p \in Procs, Lock(p) \/ HeldStep(p),
         NEW a \in Accounts, a = op[p].acct
  PROVE  NoStaleWrite' /\ SkipIsSafe' /\ BindingInv'
<1>0. /\ op \in [Procs -> OpType] /\ op[p] \in OpType
      /\ status \in [Accounts -> Statuses] /\ filePrio \in [Accounts -> Int]
      /\ HealWorker \in Procs
  BY HeldFrame, ProcFacts DEF Inductive, TypeOK
<1>1. ASSUME op'[p].pc \in Late, op'[p].acct = a PROVE Owed(a)'
  BY <1>1 DEF Owed, Binding, Late
<1>2. CASE Lock(p)
  <2>1. op'[p].pc = FirstStep(op[p].kind) /\ op'[p].acct = a
    BY <1>0, <1>2 DEF Lock, Goto, OpType
  <2>2. op'[p].pc \in {"resolve", "mark", "commit", "view"}
    BY <2>1 DEF FirstStep
  <2>3. a \notin excused' => Match(a)' \/ Owed(a)'
    <3>1. CASE op'[p].pc = "resolve"
      BY <1>1, <2>1, <3>1 DEF Late
    <3>2. CASE op'[p].pc # "resolve"
      <4>1. p # HealWorker
        <5>1. p = HealWorker => op[p].kind = "heal"
          BY <1>2 DEF Lock, Inductive, OpInv
        <5> QED BY <2>1, <3>2, <5>1 DEF FirstStep
      <4>2. excused' = excused /\ status' = status /\ filePrio' = filePrio
        BY <1>2 DEF Lock, stores
      <4>3. ~Binding(a)
        <5>1. op[p].pc = "lock"
          BY <1>2 DEF Lock
        <5> QED BY <5>1, HeldFrame DEF Binding, HeldSteps
      <4>4. HealComing(a) => HealComing(a)'
        BY <1>0, <4>1, HeldFrame
      <4> QED BY <1>0, <4>2, <4>3, <4>4 DEF Inductive, BindingInv, Owed, Match
    <3> QED BY <3>1, <3>2
  <2> QED BY <1>2, <2>2, <2>3, HeldReduce
<1>3. CASE Mark(p) \/ Commit(p)
  <2>1. op'[p].pc = "resolve" /\ op'[p].acct = a
    BY <1>0, <1>3 DEF Mark, Commit, Goto, OpType
  <2> QED BY <1>1, <1>3, <2>1, HeldReduce DEF Late, HeldStep
<1>4. CASE View(p)
  <2>1. op'[p].pc = "write" /\ op'[p].acct = a /\ op'[p].want = status[a]
    BY <1>0, <1>4 DEF View, Acct, OpType
  <2>2. status' = status
    BY <1>4 DEF View, stores
  <2> QED BY <1>1, <1>4, <2>1, <2>2, HeldReduce DEF Late, HeldStep
<1>5. CASE Resolve(p)
  <2>1. op'[p].pc = "bind" /\ op'[p].acct = a /\ op'[p].read = filePrio[a]
    BY <1>0, <1>5 DEF Resolve, Acct, OpType
  <2>2. filePrio' = filePrio
    BY <1>5 DEF Resolve, stores
  <2> QED BY <1>1, <1>5, <2>1, <2>2, HeldReduce DEF Late, HeldStep
<1>6. CASE Bind(p)
  <2>1. status'[a] = op[p].want /\ filePrio' = filePrio
    BY <1>0, <1>6 DEF Bind, Acct, Want
  <2>2. CASE op[p].read = Target(p) /\ Return(p)
    <3>1. op'[p].pc = "idle"
      BY <1>0, <2>2 DEF Return, IdleOp
    <3>2. a \notin excused' => Match(a)'
      <4>1. a \notin excused => op[p].read = filePrio[a]
        BY <1>6 DEF Bind, At, Inductive, SkipIsSafe, Acct
      <4>2. a \in excused /\ a \notin excused' => Want(p) = status'[a] /\ filePrio'[a] = Target(p)
        BY <2>2 DEF Return, Acct
      <4> QED BY <2>1, <2>2, <4>1, <4>2 DEF Match, Target, Want
    <3> QED BY <1>6, <3>1, <3>2, HeldReduce DEF HeldStep
  <2>3. CASE Goto(p, "write") /\ UNCHANGED <<write, excused>>
    <3>1. op'[p].pc = "write" /\ op'[p].acct = a /\ op'[p].want = op[p].want
      BY <1>0, <2>3 DEF Goto, OpType
    <3> QED BY <1>1, <1>6, <2>1, <3>1, HeldReduce DEF Late, HeldStep
  <2> QED BY <1>6, <2>2, <2>3 DEF Bind
\* At "write" and "verify" the heal worker itself no longer counts as a coming heal.
<1>7. ASSUME op[p].pc \in {"write", "verify"}, a \notin excused
      PROVE  op[p].want = status[a] \/ (HealComing(a) /\ HealComing(a)')
  <2>1. op[p].want = status[a] \/ HealComing(a)
    BY <1>7 DEF Inductive, NoStaleWrite, Want, Acct
  <2>2. HealComing(a) => HealComing(a)'
    <3>1. CASE p # HealWorker
      BY <1>0, <3>1, HeldFrame
    <3>2. CASE p = HealWorker
      <4>1. call' = call /\ healQueue' = healQueue
        BY HeldFrame
      <4> QED BY <1>7, <3>2, <4>1 DEF HealComing, InQueue
    <3> QED BY <3>1, <3>2
  <2> QED BY <2>1, <2>2
<1>8. CASE Write(p)
  <2>1. op'[p].pc = "verify" /\ op'[p].acct = a /\ op'[p].want = op[p].want
    BY <1>0, <1>8 DEF Write, Goto, OpType
  <2>2. status' = status /\ excused' = excused /\ op[p].pc = "write"
    BY <1>8 DEF Write, At
  <2> QED BY <1>1, <1>7, <1>8, <2>1, <2>2, HeldReduce DEF Late, HeldStep
<1>9. CASE Fail(p)
  <2>1. op'[p].pc = "idle"
    BY <1>0, <1>9 DEF Fail, IdleOp
  <2>2. a \notin excused' => Match(a)' \/ HealComing(a)'
    BY <1>9 DEF Fail, Excuse, Acct
  <2> QED BY <2>1, <2>2, HeldReduce DEF Owed
<1>10. CASE WriteReportedLost(p) \/ StepError(p)
  BY <1>9, <1>10 DEF WriteReportedLost, StepError
<1>11. CASE Verify(p)
  <2>1. status' = status /\ filePrio' = filePrio /\ op[p].pc = "verify"
    BY <1>11 DEF Verify, At, stores
  <2>2. CASE filePrio[Acct(p)] = Target(p) /\ Return(p)
    <3>1. op'[p].pc = "idle"
      BY <1>0, <2>2 DEF Return, IdleOp
    <3>2. ASSUME a \notin excused' PROVE Match(a)' \/ HealComing(a)'
      <4>1. CASE op[p].want = status[a]
        BY <2>1, <2>2, <4>1 DEF Match, Target, Acct
      <4>2. CASE op[p].want # status[a]
        <5>1. a \notin excused
          BY <2>1, <2>2, <3>2, <4>2 DEF Return, Want, Acct
        <5> QED BY <1>7, <2>1, <4>2, <5>1
      <4> QED BY <4>1, <4>2
    <3> QED BY <3>1, <3>2, HeldReduce DEF Owed
  <2> QED BY <1>9, <1>11, <2>2 DEF Verify
<1> QED BY <1>2, <1>3, <1>4, <1>5, <1>6, <1>8, <1>10, <1>11 DEF HeldStep

\* Every step.
LEMMA InductiveStep == Inductive /\ [Next]_vars => Inductive'
<1> SUFFICES ASSUME Inductive, [Next]_vars PROVE Inductive'
  OBVIOUS
<1>1. TypeOK' /\ OpInv' /\ LockInv'
  BY TypeStep, OpStep, LockStep DEF Inductive
<1>2. NoStaleWrite' /\ SkipIsSafe' /\ BindingInv'
  <2>1. CASE \E u \in Callers : UsageStep(u)
    BY <2>1, UsageBinding
  <2>2. CASE WorkerStep \/ \E k \in Panels : PanelStep(k)
    BY <2>2, StartBinding
  <2>3. CASE \E p \in Procs : Lock(p) \/ HeldStep(p)
    BY <2>3, HeldBinding, HeldFrame
  <2>4. CASE \/ \E k \in Panels : SaveQuota(k)
             \/ \E a \in Accounts : AccountStep(a)
             \/ Restart
             \/ UNCHANGED vars
    BY <2>4, DisturbanceBinding
  <2> QED BY <2>1, <2>2, <2>3, <2>4 DEF Next
<1> QED BY <1>1, <1>2 DEF Inductive

\* The invariant the theorems below rest on: types, operations and the mutex.
THEOREM InductiveInvariant == Spec => []Inductive
BY InitInductive, InductiveStep, PTL DEF Spec

\* In every reachable state the priority in the host belongs to the recorded
\* status, or a host write is owed, or the binding was knowingly given up
\* (applyAliveStatusLocked, UsageService.Handle, DemotionWorker).
THEOREM BindingHolds == Spec => []BindingInv
<1>1. Inductive => BindingInv
  BY DEF Inductive
<1> QED BY <1>1, InductiveInvariant, PTL

\* A priority write in progress is never stale without a heal coming after it
\* (applyAliveStatusLocked between its store update and its verification).
THEOREM WritesAreFresh == Spec => []NoStaleWrite
<1>1. Inductive => NoStaleWrite
  BY DEF Inductive
<1> QED BY <1>1, InductiveInvariant, PTL

\* The early return of applyAliveStatusLocked looks at the current priority of
\* every account nobody disturbed.
THEOREM SkipHolds == Spec => []SkipIsSafe
<1>1. Inductive => SkipIsSafe
  BY DEF Inductive
<1> QED BY <1>1, InductiveInvariant, PTL

\* While a is dead: its debt does not grow and no caller turns to its probe.
Frozen(a) ==
  /\ debt'[a] <= debt[a]
  /\ \A u \in Callers : call'[u].pc = "probe" /\ call'[u].acct = a => call[u] = call'[u]

\* UsageService.applyFailurePolicy: a dead account's debt never grows and no
\* usage event of a dead account asks for a probe.
THEOREM DeadFrozen == Spec => DeadIsFrozen
<1>1. ASSUME TypeOK, Next, NEW a \in Accounts, status[a] = "dead", status'[a] = "dead"
      PROVE  Frozen(a)
  <2>0. /\ status \in [Accounts -> Statuses]
        /\ debt \in [Accounts -> DebtType]
        /\ call \in [Callers -> CallType]
        /\ debt[a] \in Nat
    BY <1>1, ConstantsAssumption DEF TypeOK, DebtType
  <2>1. ASSUME debt'[a] = debt[a] \/ debt'[a] = 0,
               \A u \in Callers : call'[u] = call[u] \/ call'[u].pc # "probe" \/ call'[u].acct # a
        PROVE  Frozen(a)
    BY <2>0, <2>1 DEF Frozen
  <2>2. ASSUME NEW u \in Callers, NEW b \in Accounts, HandleSuccess(u, b) PROVE Frozen(a)
    <3>1. CASE a = b
      BY <1>1, <2>0, <2>2, <3>1 DEF HandleSuccess
    <3>2. CASE a # b
      <4>1. debt'[a] = debt[a]
        BY <2>0, <2>2, <3>2 DEF HandleSuccess
      <4>2. \A v \in Callers : call'[v] = call[v] \/ call'[v].pc = "heal"
        BY <2>0, <2>2 DEF HandleSuccess
      <4> QED BY <2>1, <4>1, <4>2
    <3> QED BY <3>1, <3>2
  <2>3. ASSUME NEW u \in Callers, NEW b \in Accounts, NEW w \in FailWeights, HandleFailure(u, b, w)
        PROVE  Frozen(a)
    <3>1. a # b
      BY <1>1, <2>3 DEF HandleFailure
    <3>2. debt'[a] = debt[a]
      BY <2>0, <2>3, <3>1 DEF HandleFailure
    <3>3. \A v \in Callers : call'[v] = call[v] \/ call'[v].acct = b
      BY <2>0, <2>3 DEF HandleFailure
    <3> QED BY <2>1, <3>1, <3>2, <3>3
  <2>4. ASSUME NEW u \in Callers, EnqueueHeal(u) \/ EnqueueProbe(u) PROVE Frozen(a)
    <3>1. debt' = debt
      BY <2>4 DEF EnqueueHeal, EnqueueProbe, stores
    <3>2. \A v \in Callers : call'[v] = call[v] \/ call'[v].pc = "idle"
      BY <2>0, <2>4 DEF EnqueueHeal, EnqueueProbe, IdleCall
    <3> QED BY <2>1, <3>1, <3>2
  <2>5. ASSUME call' = call, debt' = debt PROVE Frozen(a)
    BY <2>1, <2>5
  <2>6. CASE WorkerStep
    BY <2>5, <2>6 DEF WorkerStep, TakeHeal, TakeProbe, ProbeCheck, ProbeAnswer, stores
  <2>7. ASSUME NEW k \in Panels, PanelStep(k) \/ SaveQuota(k) PROVE Frozen(a)
    BY <2>5, <2>7 DEF PanelStep, PanelProbe, PanelSync, PanelResign, DraftQuota, SaveQuota, stores
  <2>8. ASSUME NEW p \in Procs, Lock(p) \/ HeldStep(p) PROVE Frozen(a)
    <3>1. call' = call
      BY <2>8 DEF Lock, HeldStep, Mark, Commit, View, Resolve, Bind, Write,
                  WriteReportedLost, Verify, StepError
    <3>2. debt'[a] = debt[a] \/ debt'[a] = 0
      BY <2>0, <2>8 DEF Lock, HeldStep, Mark, Commit, View, Resolve, Bind, Write,
                  WriteReportedLost, Verify, StepError, stores
    <3> QED BY <2>1, <3>1, <3>2
  <2>9. ASSUME NEW b \in Accounts, AccountStep(b) PROVE Frozen(a)
    <3>1. call' = call
      BY <2>9 DEF AccountStep, ClearState, ClearDiagnostic, SetOtherPriority
    <3>2. debt'[a] = debt[a] \/ debt'[a] = 0
      BY <2>0, <2>9 DEF AccountStep, ClearState, ClearDiagnostic, SetOtherPriority
    <3> QED BY <2>1, <3>1, <3>2
  <2>10. CASE Restart
    <3>1. debt' = debt
      BY <2>10 DEF Restart, stores
    <3>2. \A v \in Callers : call'[v].pc = "idle"
      BY <2>10 DEF Restart, IdleCall
    <3> QED BY <2>1, <3>1, <3>2
  <2> QED BY <1>1, <2>2, <2>3, <2>4, <2>6, <2>7, <2>8, <2>9, <2>10 DEF Next, UsageStep
<1>2. TypeOK /\ [Next]_vars =>
        [\A a \in Accounts : status[a] = "dead" /\ status'[a] = "dead"
           => /\ debt'[a] <= debt[a]
              /\ \A u \in Callers : call'[u].pc = "probe" /\ call'[u].acct = a
                   => call[u] = call'[u]]_vars
  BY <1>1 DEF Frozen
<1> QED BY <1>2, TypeCorrect, PTL DEF Spec, DeadIsFrozen
=============================================================================
