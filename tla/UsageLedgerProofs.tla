-------------------------- MODULE UsageLedgerProofs --------------------------
(***************************************************************************)
(* Proofs about the usage ledger, for any number of accounts, outcomes,    *)
(* events and list requests, any settings and any clock.                   *)
(*                                                                         *)
(*   LedgerInv  types, and an account with a baseline has the period the   *)
(*              baseline belongs to.  BoundToPeriod is a part of it: a     *)
(*              list that comes late finds the baseline bound and leaves   *)
(*              it alone.                                                  *)
(*   ShownInv   no list is ahead of the host, no number that was returned  *)
(*              is ahead of what a list begun now would show, and none     *)
(*              that a call must keep up with is ahead of what it shows.   *)
(*              ShownNeverDrops follows.                                   *)
(*   ResetInv   what the reset worker found due stays due until its update.*)
(*              ResetIsDue follows.                                        *)
(*   DedupeInv  the two maps agree with the history of keys, and a map     *)
(*              that lost a key for want of room is full of newer ones.    *)
(*              RecentKeysKept follows.                                    *)
(*   CountInv   when what is delivered again comes while its key is kept,  *)
(*              the count of an account and outcome is no more than its    *)
(*              keys, and these are no more than the requests the host     *)
(*              served.  ShownIsReal follows.                              *)
(***************************************************************************)
EXTENDS UsageLedger, FiniteSetTheorems, TLAPS

-----------------------------------------------------------------------------
(* Types.                                                                  *)

Counts   == [Outcomes -> Nat]
Times    == Nat \ {0}
Requests == [acct : Accounts, outcome : Outcomes, at : Times]
Periods  == [count : Counts, period : Nat]
Baselines == [count : Counts, period : Times]
Listed   == [pc : {"listed"}, host : [Accounts -> Counts]]
Planned  == [pc : {"planned"}, host : [Accounts -> Counts], pending : SUBSET Accounts, at : Times]
Bounds   == [pc : {"bound"}, host : [Accounts -> Counts]]
Job      == [pc : {"due"}, time : Nat, at : Times]

Types ==
  /\ now \in Times
  /\ request \in [Events -> Requests \cup {NoRequest}]
  /\ host \in [Accounts -> Counts]
  /\ usage \in [Accounts -> Periods]
  /\ baseline \in [Accounts -> Baselines \cup {NoBaseline}]
  /\ list \in [Panels -> Listed \cup Planned \cup Bounds \cup {IdleList}]
  /\ job \in Job \cup {IdleJob}
  /\ dailyReset \in ResetTimes \cup {NoReset}
  /\ resetDate \in Int
  /\ shown \in [Accounts -> Counts]
  /\ floor \in [Panels -> [Accounts -> Counts]]

\* The initial states have their types.
LEMMA InitTypes == Init => Types
<1> SUFFICES ASSUME Init PROVE Types
  OBVIOUS
<1>1. Zero \in Counts /\ [o \in Outcomes |-> HostLifetime] \in Counts
  BY LedgerAssumption DEF Zero, Counts
<1>2. NoUsage \in Periods
  BY <1>1 DEF NoUsage, Periods
<1>3. NoneShown \in [Accounts -> Counts]
  BY <1>1 DEF NoneShown
<1> QED BY <1>1, <1>2, <1>3 DEF Init, Types, Times

\* What is planned and what is bound keep their types.
LEMMA BindTypes ==
  ASSUME Types, NEW k \in Panels, list[k].pc = "planned"
  PROVE  /\ list[k] \in Planned
         /\ \A a \in Accounts : PeriodAt(a, list[k].at) \in Times
         /\ \A a \in Accounts : NewBaseline(a, list[k].host[a], list[k].at) \in Baselines
<1>1. list[k] \in Planned
  BY DEF Types, Listed, Bounds, IdleList
<1>2. list[k].at \in Times /\ list[k].host \in [Accounts -> Counts]
  BY <1>1 DEF Planned
<1>3. \A a \in Accounts : PeriodAt(a, list[k].at) \in Times
  BY <1>2 DEF PeriodAt, Types, Periods, Times
<1>4. Zero \in Counts
  BY DEF Zero, Counts
<1>5. \A a \in Accounts : NewBaseline(a, list[k].host[a], list[k].at) \in Baselines
  BY <1>2, <1>3, <1>4 DEF NewBaseline, Baselines
<1> QED BY <1>1, <1>3, <1>5

\* Every step keeps the types.
LEMMA TypesStep ==
  ASSUME Types, [Next]_vars
  PROVE  Types'
<1>1. CASE Tick
  BY <1>1 DEF Tick, Types, Times, hostVars, dedupeVars, resetVars, listVars
<1>2. ASSUME NEW e \in Events, NEW a \in Accounts, NEW o \in Outcomes, Serve(e, a, o)
      PROVE  Types'
  <2>1. [acct |-> a, outcome |-> o, at |-> now] \in Requests
    BY DEF Types, Requests
  <2>2. request' \in [Events -> Requests \cup {NoRequest}]
    BY <1>2, <2>1 DEF Serve, Types
  <2>3. host[a] \in Counts /\ [host[a] EXCEPT ![o] = @ + 1] \in Counts
    BY DEF Types, Counts
  <2>4. host' \in [Accounts -> Counts]
    BY <1>2, <2>3 DEF Serve, Types
  <2> QED BY <1>2, <2>2, <2>4 DEF Serve, Types, dedupeVars, resetVars, listVars
<1>3. ASSUME NEW e \in Events, Deliver(e)  PROVE Types'
  <2>1. request[e] \in Requests
    BY <1>3 DEF Deliver, Types
  <2>2. request[e].acct \in Accounts /\ request[e].outcome \in Outcomes /\ request[e].at \in Times
    BY <2>1 DEF Requests
  <2>3. Counted(usage[request[e].acct], e) \in Periods
    <3> DEFINE u == usage[request[e].acct]
    <3>1. u.count \in Counts /\ u.period \in Nat
      BY <2>2 DEF Types, Periods
    <3>2. [u.count EXCEPT ![request[e].outcome] = @ + 1] \in Counts
      BY <2>2, <3>1 DEF Counts
    <3> QED BY <2>2, <3>1, <3>2 DEF Counted, Periods, Times
  <2>4. usage' \in [Accounts -> Periods]
    BY <1>3, <2>2, <2>3 DEF Deliver, Types
  <2> QED BY <1>3, <2>4 DEF Deliver, Types, hostVars, resetVars, listVars
<1>4. ASSUME NEW k \in Panels, ListFiles(k)  PROVE Types'
  <2>1. [pc |-> "listed", host |-> host] \in Listed
    BY DEF Listed, Types
  <2> QED BY <1>4, <2>1 DEF ListFiles, Types, hostVars, dedupeVars, resetVars, listVars
<1>5. ASSUME NEW k \in Panels, PlanBind(k)  PROVE Types'
  <2>1. list[k] \in Listed
    BY <1>5 DEF PlanBind, Types, Planned, Bounds, IdleList
  <2>2. [pc |-> "planned", host |-> list[k].host,
         pending |-> {a \in Accounts : NeedsBind(a, now)}, at |-> now] \in Planned
    BY <2>1 DEF Listed, Planned, Types
  <2>3. Bound(list[k]) \in Bounds
    BY <2>1 DEF Listed, Bounds, Bound
  <2>4. list' \in [Panels -> Listed \cup Planned \cup Bounds \cup {IdleList}]
    BY <1>5, <2>2, <2>3 DEF PlanBind, Types
  <2> QED BY <1>5, <2>4 DEF PlanBind, Types, hostVars, dedupeVars, resetVars, listVars
<1>6. ASSUME NEW k \in Panels, BindBaselines(k)  PROVE Types'
  <2>1. list[k].pc = "planned"
    BY <1>6 DEF BindBaselines
  <2>2. /\ \A a \in Accounts : PeriodAt(a, list[k].at) \in Times
        /\ \A a \in Accounts : NewBaseline(a, list[k].host[a], list[k].at) \in Baselines
    BY <2>1, BindTypes
  <2>3. baseline' \in [Accounts -> Baselines \cup {NoBaseline}]
    BY <1>6, <2>2 DEF BindBaselines, Bind, Types
  <2>4. \A a \in Accounts : /\ usage[a] \in Periods
                            /\ [usage[a] EXCEPT !.period = PeriodAt(a, list[k].at)] \in Periods
    BY <2>2 DEF Types, Periods, Times
  <2>5. usage' \in [Accounts -> Periods]
    BY <1>6, <2>4 DEF BindBaselines, Bind
  <2>6. list' \in [Panels -> Listed \cup Planned \cup Bounds \cup {IdleList}]
    <3>1. list[k] \in Planned
      BY <2>1, BindTypes
    <3>2. Bound(list[k]) \in Bounds
      BY <3>1 DEF Planned, Bounds, Bound
    <3> QED BY <1>6, <3>2 DEF BindBaselines, Bind, Types
  <2> QED BY <1>6, <2>3, <2>5, <2>6 DEF BindBaselines, Bind, Types, hostVars, dedupeVars, resetVars, listVars
<1>7. Zero \in Counts /\ NoUsage \in Periods
  BY DEF Zero, Counts, NoUsage, Periods
<1>8. ASSUME NEW S, ShowAfresh(S)
      PROVE  shown' \in [Accounts -> Counts] /\ floor' \in [Panels -> [Accounts -> Counts]]
  BY <1>7, <1>8 DEF ShowAfresh, Types
<1>9. ASSUME NEW a \in Accounts, ClearState(a)  PROVE Types'
  <2>1. shown' \in [Accounts -> Counts] /\ floor' \in [Panels -> [Accounts -> Counts]]
    BY <1>9, <1>8 DEF ClearState
  <2> QED BY <1>7, <1>9, <2>1 DEF ClearState, Types, hostVars, dedupeVars
<1>10. ASSUME NEW r \in ResetTimes \cup {NoReset}, SetDailyReset(r)  PROVE Types'
  BY <1>10 DEF SetDailyReset, Types, hostVars, dedupeVars, listVars
<1>11. CASE ResetCheck
  <2>1. dailyReset \in Nat
    BY <1>11, LedgerAssumption DEF ResetCheck, Types
  <2>2. job' \in Job
    BY <1>11, <2>1 DEF ResetCheck, Types, Job
  <2> QED BY <1>11, <2>2 DEF ResetCheck, Types, hostVars, dedupeVars, listVars
<1>12. CASE ResetAccounts
  <2>1. job \in Job
    BY <1>12 DEF ResetAccounts, Types, IdleJob
  <2>2. job.at \in Times /\ Date(job.at) \in Int
    BY <2>1, LedgerAssumption DEF Job, Date, Times
  <2>3. [count |-> Zero, period |-> job.at] \in Periods
    BY <1>7, <2>2 DEF Periods, Times
  <2>4. ResetUsage(job.at) => /\ usage' \in [Accounts -> Periods]
                              /\ baseline' \in [Accounts -> Baselines \cup {NoBaseline}]
                              /\ shown' \in [Accounts -> Counts]
                              /\ floor' \in [Panels -> [Accounts -> Counts]]
    BY <1>8, <2>3 DEF ResetUsage, Types
  <2> QED BY <1>12, <2>2, <2>4 DEF ResetAccounts, Types, hostVars, dedupeVars
<1>13. CASE Restart
  BY <1>7, <1>13 DEF Restart, Types, NoneShown, hostVars, dedupeVars
<1>14. ASSUME NEW k \in Panels, View(k)  PROVE Types'
  <2>1. list[k] \in Bounds
    BY <1>14 DEF View, Types, Listed, Planned, IdleList
  <2>2. \A a \in Accounts, o \in Outcomes : Shown(k, a, o) \in Nat
    BY <2>1 DEF Types, Bounds, Baselines, Periods, Counts, Shown, Larger, Max0
  <2>3. shown' \in [Accounts -> Counts]
    BY <1>14, <2>2 DEF View, Types, Counts, Larger
  <2>4. floor' \in [Panels -> [Accounts -> Counts]]
    BY <1>7, <1>14 DEF View, Types, NoneShown
  <2> QED BY <1>14, <2>3, <2>4 DEF View, Types, hostVars, dedupeVars, resetVars
<1>15. CASE UNCHANGED vars
  BY <1>15 DEF vars, Types, hostVars, resetVars, listVars
<1> QED BY <1>1, <1>2, <1>3, <1>4, <1>5, <1>6, <1>9, <1>10, <1>11, <1>12, <1>13, <1>14, <1>15
        DEF Next, HostStep, PanelStep

-----------------------------------------------------------------------------
(* Baselines and periods.                                                  *)

\* The strengthening: an account with a baseline has a period.
BoundInv == BoundToPeriod /\ \A a \in Accounts : baseline[a] # NoBaseline => usage[a].period # 0

LedgerInv == Types /\ BoundInv

\* A list that comes late binds nothing to an account that is bound already.
LEMMA LateListBindsNothing ==
  ASSUME LedgerInv, NEW k \in Panels, list[k].pc = "planned", NEW a \in Accounts,
         baseline[a] # NoBaseline
  PROVE  ~NeedsBind(a, list[k].at)
BY DEF LedgerInv, BoundInv, BoundToPeriod, NeedsBind, PeriodAt

\* Baselines: every step.
LEMMA BoundStep ==
  ASSUME LedgerInv, Types', [Next]_vars
  PROVE  BoundInv'
<1> USE DEF LedgerInv
<1>1. CASE UNCHANGED <<usage, baseline>>
  BY <1>1 DEF BoundInv, BoundToPeriod
<1>2. ASSUME NEW e \in Events, Deliver(e)  PROVE BoundInv'
  <2>1. \A a \in Accounts : usage[a].period # 0 => usage'[a].period = usage[a].period
    <3>1. usage' = usage \/ usage' = [usage EXCEPT ![request[e].acct] = Counted(@, e)]
      BY <1>2 DEF Deliver
    <3> QED BY <3>1 DEF Counted, Types
  <2> QED BY <1>2, <2>1 DEF Deliver, BoundInv, BoundToPeriod
<1>3. ASSUME NEW k \in Panels, BindBaselines(k)  PROVE BoundInv'
  <2>1. list[k].pc = "planned"
    BY <1>3 DEF BindBaselines
  <2> SUFFICES ASSUME NEW a \in Accounts, baseline'[a] # NoBaseline
               PROVE  baseline'[a].period = usage'[a].period /\ usage'[a].period # 0
    BY DEF BoundInv, BoundToPeriod
  <2>2. CASE a \in list[k].pending /\ NeedsBind(a, list[k].at)
    <3>1. usage[a] \in Periods  BY DEF Types
    <3>2. /\ baseline'[a] = NewBaseline(a, list[k].host[a], list[k].at)
          /\ usage'[a].period = PeriodAt(a, list[k].at)
      BY <1>3, <2>2, <3>1 DEF BindBaselines, Bind, Periods
    <3>3. PeriodAt(a, list[k].at) # 0
      BY <2>1, BindTypes DEF Times
    <3> QED BY <3>2, <3>3 DEF NewBaseline
  <2>3. CASE ~(a \in list[k].pending /\ NeedsBind(a, list[k].at))
    <3>1. baseline'[a] = baseline[a] /\ usage'[a] = usage[a]
      BY <1>3, <2>3 DEF BindBaselines, Bind
    <3> QED BY <3>1 DEF BoundInv, BoundToPeriod
  <2> QED BY <2>2, <2>3
<1>4. ASSUME NEW a \in Accounts, ClearState(a)  PROVE BoundInv'
  BY <1>4 DEF ClearState, BoundInv, BoundToPeriod, Types
<1>5. CASE ResetAccounts
  <2>1. ResetUsage(job.at) => BoundInv'
    BY DEF ResetUsage, BoundInv, BoundToPeriod
  <2> QED BY <1>1, <1>5, <2>1 DEF ResetAccounts
<1> QED BY <1>1, <1>2, <1>3, <1>4, <1>5
        DEF Next, HostStep, PanelStep, Tick, Serve, ListFiles, PlanBind, View, SetDailyReset,
            ResetCheck, Restart, vars

\* The invariant of this section.
THEOREM LedgerAlways == Spec => []LedgerInv
<1>1. Init => LedgerInv
  BY InitTypes DEF LedgerInv, Init, BoundInv, BoundToPeriod
<1>2. LedgerInv /\ [Next]_vars => LedgerInv'
  BY TypesStep, BoundStep DEF LedgerInv
<1> QED BY <1>1, <1>2, PTL DEF Spec

\* A baseline belongs to the current period, whoever overtook whom.
THEOREM BaselinesAreCurrent == Spec => []BoundToPeriod
<1>1. LedgerInv => BoundToPeriod
  BY DEF LedgerInv, BoundInv
<1> QED BY <1>1, LedgerAlways, PTL

-----------------------------------------------------------------------------
(* What the panel shows.                                                   *)

\* What is shown for usage u and baseline b when the host has counted n.
Display(u, b, n, o) ==
  IF b = NoBaseline THEN u.count[o] ELSE Larger(u.count[o], Max0(n - b.count[o]))

\* No list is ahead of the host.
HostsInv ==
  \A k \in Panels, a \in Accounts, o \in Outcomes :
    list[k].pc # "idle" => list[k].host[a][o] <= host[a][o]

\* What was returned is no more than a list begun now would show ...
ReturnedInv ==
  \A a \in Accounts, o \in Outcomes :
    shown[a][o] <= Display(usage[a], baseline[a], host[a][o], o)

\* ... and a list in progress keeps up with what had been returned at its start.
FloorInv ==
  \A k \in Panels, a \in Accounts, o \in Outcomes :
    list[k].pc # "idle" => floor[k][a][o] <= Shown(k, a, o)

ShownInv == HostsInv /\ ReturnedInv /\ FloorInv

\* The types of what is shown.
LEMMA DisplayTypes ==
  ASSUME Types, NEW a \in Accounts, NEW o \in Outcomes
  PROVE  /\ usage[a].count[o] \in Nat /\ host[a][o] \in Nat /\ shown[a][o] \in Nat
         /\ baseline[a] # NoBaseline => baseline[a].count[o] \in Nat
         /\ \A n \in Nat : Display(usage[a], baseline[a], n, o) \in Nat
         /\ \A m, n \in Nat :
              m <= n => Display(usage[a], baseline[a], m, o) <= Display(usage[a], baseline[a], n, o)
         /\ \A k \in Panels : list[k].pc # "idle" => list[k].host[a][o] \in Nat
         /\ \A k \in Panels : floor[k][a][o] \in Nat
<1>1. /\ usage[a].count[o] \in Nat /\ host[a][o] \in Nat /\ shown[a][o] \in Nat
      /\ baseline[a] # NoBaseline => baseline[a].count[o] \in Nat
  BY DEF Types, Periods, Baselines, Counts
<1>2. \A k \in Panels : list[k].pc # "idle" => list[k].host[a][o] \in Nat
  BY DEF Types, Listed, Planned, Bounds, IdleList, Counts
<1>3. \A k \in Panels : floor[k][a][o] \in Nat
  BY DEF Types, Counts
<1> QED BY <1>1, <1>2, <1>3 DEF Display, Larger, Max0

\* Shown is what is displayed of the host list the call took.
LEMMA ShownIsDisplay ==
  ASSUME NEW k, NEW a, NEW o
  PROVE  Shown(k, a, o) = Display(usage[a], baseline[a], list[k].host[a][o], o)
BY DEF Shown, Display

\* After this step as much is displayed of as large a host count.
Grows(a, o) ==
  \A n \in Nat : Display(usage'[a], baseline'[a], n, o) >= Display(usage[a], baseline[a], n, o)

\* The histories of the account begin again.
Afresh(a) == shown'[a] = Zero /\ \A k \in Panels : floor'[k][a] = Zero

\* Whatever happens, as much is displayed afterwards of as large a host count,
\* unless the period ended and the histories of the account began again.
LEMMA DisplayGrows ==
  ASSUME LedgerInv, Types', [Next]_vars, NEW a \in Accounts, NEW o \in Outcomes
  PROVE  \/ Grows(a, o)
         \/ Afresh(a)
<1> USE DEF LedgerInv
<1>1. /\ usage[a].count[o] \in Nat /\ usage'[a].count[o] \in Nat
      /\ baseline[a] # NoBaseline => baseline[a].count[o] \in Nat
      /\ baseline'[a] # NoBaseline => baseline'[a].count[o] \in Nat
  BY DEF Types, Periods, Baselines, Counts
<1>2. ASSUME baseline'[a] \in {baseline[a]} \/ baseline[a] = NoBaseline,
             usage'[a].count[o] >= usage[a].count[o]
      PROVE  Grows(a, o)
  BY <1>1, <1>2 DEF Grows, Display, Larger, Max0
<1>3. CASE UNCHANGED <<usage, baseline>>
  BY <1>1, <1>2, <1>3
<1>4. ASSUME NEW e \in Events, Deliver(e)
      PROVE  Grows(a, o)
  <2>1. usage' = usage \/ usage' = [usage EXCEPT ![request[e].acct] = Counted(@, e)]
    BY <1>4 DEF Deliver
  <2>2. Counted(usage[a], e).count[o] >= usage[a].count[o]
    BY <1>1 DEF Counted, Types, Periods, Counts
  <2>3. usage'[a] = usage[a] \/ usage'[a] = Counted(usage[a], e)
    BY <2>1 DEF Types
  <2>4. usage'[a].count[o] >= usage[a].count[o]
    BY <1>1, <2>2, <2>3
  <2> QED BY <1>2, <1>4, <2>4 DEF Deliver
<1>5. ASSUME NEW k \in Panels, BindBaselines(k)
      PROVE  Grows(a, o)
  <2>1. usage'[a].count = usage[a].count
    BY <1>5 DEF BindBaselines, Bind, Types, Periods
  <2>2. baseline'[a] = baseline[a] \/ NeedsBind(a, list[k].at)
    BY <1>5 DEF BindBaselines, Bind
  <2>3. baseline'[a] = baseline[a] \/ baseline[a] = NoBaseline
    BY <1>5, <2>2, LateListBindsNothing DEF BindBaselines
  <2> QED BY <1>1, <1>2, <2>1, <2>3
<1>6. ASSUME NEW S, ShowAfresh(S), a \in S
      PROVE  Afresh(a)
  BY <1>6 DEF ShowAfresh, Afresh
<1>7. ASSUME NEW b \in Accounts, ClearState(b)
      PROVE  \/ Grows(a, o)
             \/ Afresh(a)
  <2>1. CASE a = b
    BY <1>6, <1>7, <2>1 DEF ClearState
  <2>2. CASE a # b
    BY <1>1, <1>2, <1>7, <2>2 DEF ClearState, Types
  <2> QED BY <2>1, <2>2
<1>8. CASE ResetAccounts
  <2>1. ResetUsage(job.at) => ShowAfresh(Accounts)
    BY DEF ResetUsage
  <2> QED BY <1>3, <1>6, <1>8, <2>1 DEF ResetAccounts
<1> QED BY <1>3, <1>4, <1>5, <1>7, <1>8
        DEF Next, HostStep, PanelStep, Tick, Serve, ListFiles, PlanBind, View, SetDailyReset,
            ResetCheck, Restart, vars

\* What a step does to one list: it begins, ends, or goes on with its host list.
ListBegins(k)  == list'[k] = [pc |-> "listed", host |-> host] /\ floor'[k] = shown
ListEnds(k)    == list'[k] = IdleList
ListGoesOn(k)  ==
  /\ list[k].pc # "idle" /\ list'[k].host = list[k].host
  /\ \A a \in Accounts : floor'[k][a] \in {floor[k][a], Zero}

\* Lists: every step.
LEMMA ListSteps ==
  ASSUME Types, [Next]_vars, NEW k \in Panels
  PROVE  \/ ListBegins(k) /\ UNCHANGED <<usage, baseline, host>>
         \/ ListEnds(k)
         \/ ListGoesOn(k)
<1>1. CASE UNCHANGED <<list, floor>>
  BY <1>1 DEF Types, Listed, Planned, Bounds, IdleList, ListEnds, ListGoesOn
<1>2. ASSUME NEW j \in Panels, ListFiles(j)
      PROVE  \/ ListBegins(k) /\ UNCHANGED <<usage, baseline, host>>
             \/ ListEnds(k)
             \/ ListGoesOn(k)
  <2>1. CASE j = k
    BY <1>2, <2>1 DEF ListFiles, Types, ListBegins, hostVars
  <2>2. CASE j # k
    BY <1>2, <2>2 DEF ListFiles, Types, Listed, Planned, Bounds, IdleList, ListEnds, ListGoesOn
  <2> QED BY <2>1, <2>2
<1>3. ASSUME NEW j \in Panels, PlanBind(j) \/ BindBaselines(j)
      PROVE  ListEnds(k) \/ ListGoesOn(k)
  <2>1. list[j].pc # "idle" /\ list'[j].host = list[j].host /\ floor' = floor
    BY <1>3 DEF PlanBind, BindBaselines, Bind, Bound, Types
  <2>2. k # j => list'[k] = list[k]
    BY <1>3 DEF PlanBind, BindBaselines, Bind, Types
  <2> QED BY <2>1, <2>2 DEF Types, Listed, Planned, Bounds, IdleList, ListEnds, ListGoesOn
<1>4. ASSUME NEW j \in Panels, View(j)
      PROVE  ListEnds(k) \/ ListGoesOn(k)
  <2>1. k = j => list'[k] = IdleList
    BY <1>4 DEF View, Types
  <2>2. k # j => list'[k] = list[k] /\ floor'[k] = floor[k]
    BY <1>4 DEF View, Types
  <2> QED BY <2>1, <2>2 DEF Types, Listed, Planned, Bounds, IdleList, ListEnds, ListGoesOn
<1>5. ASSUME NEW S, ShowAfresh(S), list' = list
      PROVE  ListEnds(k) \/ ListGoesOn(k)
  BY <1>5 DEF ShowAfresh, Types, Listed, Planned, Bounds, IdleList, ListEnds, ListGoesOn
<1>6. ASSUME NEW a \in Accounts, ClearState(a)
      PROVE  ListEnds(k) \/ ListGoesOn(k)
  BY <1>5, <1>6 DEF ClearState
<1>7. CASE ResetAccounts
  <2>1. ResetUsage(job.at) => ShowAfresh(Accounts)
    BY DEF ResetUsage
  <2> QED BY <1>1, <1>5, <1>7, <2>1 DEF ResetAccounts
<1>8. CASE Restart
  BY <1>8 DEF Restart, ListEnds
<1> QED BY <1>1, <1>2, <1>3, <1>4, <1>6, <1>7, <1>8
        DEF Next, HostStep, PanelStep, Tick, Serve, Deliver, SetDailyReset, ResetCheck, listVars, vars

\* The host never counts backwards.
LEMMA HostGrows ==
  ASSUME Types, [Next]_vars, NEW a \in Accounts, NEW o \in Outcomes
  PROVE  host'[a][o] >= host[a][o]
<1>1. host[a][o] \in Nat
  BY DEF Types, Counts
<1>2. ASSUME NEW e \in Events, NEW b \in Accounts, NEW q \in Outcomes, Serve(e, b, q)
      PROVE  host'[a][o] >= host[a][o]
  BY <1>1, <1>2 DEF Serve, Types, Counts
<1>3. CASE host' = host
  BY <1>1, <1>3
<1> QED BY <1>2, <1>3
        DEF Next, HostStep, PanelStep, Tick, Deliver, ListFiles, PlanBind, BindBaselines, Bind, View,
            ClearState, SetDailyReset, ResetCheck, ResetAccounts, Restart, hostVars, vars

\* The clock never goes back.
LEMMA ClockGrows ==
  ASSUME Types, [Next]_vars
  PROVE  now \in Nat /\ now' \in Nat /\ now <= now'
<1>1. now \in Nat
  BY DEF Types, Times
<1>2. CASE Tick
  BY <1>1, <1>2 DEF Tick
<1>3. CASE now' = now
  BY <1>1, <1>3
<1> QED BY <1>2, <1>3
        DEF Next, HostStep, PanelStep, Serve, Deliver, ListFiles, PlanBind, BindBaselines, Bind, View,
            ClearState, SetDailyReset, ResetCheck, ResetAccounts, Restart, vars

\* What was returned: every step.
LEMMA ReturnedStep ==
  ASSUME LedgerInv, Types', ShownInv, [Next]_vars
  PROVE  ReturnedInv'
<1> USE DEF LedgerInv
<1> SUFFICES ASSUME NEW a \in Accounts, NEW o \in Outcomes
             PROVE  shown'[a][o] <= Display(usage'[a], baseline'[a], host'[a][o], o)
  BY DEF ReturnedInv
<1>1. /\ host[a][o] \in Nat /\ host'[a][o] \in Nat /\ shown[a][o] \in Nat
      /\ Display(usage[a], baseline[a], host[a][o], o) \in Nat
      /\ Display(usage[a], baseline[a], host'[a][o], o) \in Nat
      /\ Display(usage[a], baseline[a], host[a][o], o) <= Display(usage[a], baseline[a], host'[a][o], o)
      /\ Display(usage'[a], baseline'[a], host'[a][o], o) \in Nat
  <2>1. host[a][o] \in Nat /\ host'[a][o] \in Nat /\ host'[a][o] >= host[a][o]
    BY HostGrows, DisplayTypes DEF Types, Counts
  <2>2. Display(usage'[a], baseline'[a], host'[a][o], o) \in Nat
    BY <2>1 DEF Types, Periods, Baselines, Counts, Display, Larger, Max0
  <2> QED BY <2>1, <2>2, DisplayTypes
<1>2. CASE shown'[a] = Zero
  BY <1>1, <1>2 DEF Zero
<1>3. CASE shown'[a][o] <= Display(usage[a], baseline[a], host[a][o], o) /\ shown'[a] # Zero
  <2>1. Display(usage'[a], baseline'[a], host'[a][o], o) >= Display(usage[a], baseline[a], host'[a][o], o)
    BY <1>1, <1>3, DisplayGrows DEF Grows, Afresh
  <2>2. shown'[a][o] \in Nat
    BY DEF Types, Counts
  <2> QED BY <1>1, <1>3, <2>1, <2>2
<1>4. CASE shown'[a] = shown[a]
  BY <1>2, <1>3, <1>4 DEF ShownInv, ReturnedInv
<1>5. ASSUME NEW k \in Panels, View(k)
      PROVE  shown'[a][o] <= Display(usage[a], baseline[a], host[a][o], o)
  <2>1. list[k].pc # "idle" /\ shown'[a][o] = Larger(shown[a][o], Shown(k, a, o))
    BY <1>5 DEF View
  <2>2. list[k].host[a][o] \in Nat /\ list[k].host[a][o] <= host[a][o]
    BY <2>1, DisplayTypes DEF ShownInv, HostsInv
  <2>3. Shown(k, a, o) <= Display(usage[a], baseline[a], host[a][o], o) /\ Shown(k, a, o) \in Nat
    BY <1>1, <2>2, DisplayTypes, ShownIsDisplay
  <2>4. shown[a][o] <= Display(usage[a], baseline[a], host[a][o], o)
    BY DEF ShownInv, ReturnedInv
  <2> QED BY <1>1, <2>1, <2>3, <2>4 DEF Larger
<1>6. ASSUME NEW S, ShowAfresh(S)
      PROVE  shown'[a] \in {shown[a], Zero}
  BY <1>6 DEF ShowAfresh
<1>7. ASSUME NEW b \in Accounts, ClearState(b)
      PROVE  shown'[a] \in {shown[a], Zero}
  BY <1>6, <1>7 DEF ClearState
<1>8. CASE ResetAccounts
  <2>1. ResetUsage(job.at) => ShowAfresh(Accounts)
    BY DEF ResetUsage
  <2> QED BY <1>2, <1>4, <1>6, <1>8, <2>1 DEF ResetAccounts
<1> QED BY <1>2, <1>3, <1>4, <1>5, <1>7, <1>8
        DEF Next, HostStep, PanelStep, Tick, Serve, Deliver, ListFiles, PlanBind, BindBaselines, Bind,
            SetDailyReset, ResetCheck, Restart, listVars, vars

\* What lists in progress keep up with: every step.
LEMMA FloorStep ==
  ASSUME LedgerInv, Types', ShownInv, [Next]_vars
  PROVE  HostsInv' /\ FloorInv'
<1> USE DEF LedgerInv
<1> SUFFICES ASSUME NEW k \in Panels, NEW a \in Accounts, NEW o \in Outcomes, list'[k].pc # "idle"
             PROVE  /\ list'[k].host[a][o] <= host'[a][o]
                    /\ floor'[k][a][o] <= Shown(k, a, o)'
  BY DEF HostsInv, FloorInv
<1>1. /\ host[a][o] \in Nat /\ host'[a][o] \in Nat /\ host'[a][o] >= host[a][o]
      /\ floor[k][a][o] \in Nat /\ floor'[k][a][o] \in Nat
  BY HostGrows, DisplayTypes DEF Types, Counts
<1>2. list'[k].host[a][o] \in Nat
  <2>1. list'[k] \in Listed \cup Planned \cup Bounds
    BY DEF Types, IdleList
  <2>2. list'[k].host \in [Accounts -> Counts]
    BY <2>1 DEF Listed, Planned, Bounds
  <2> QED BY <2>2 DEF Counts
<1>3. /\ Shown(k, a, o)' \in Nat
      /\ Shown(k, a, o)' = Display(usage'[a], baseline'[a], list'[k].host[a][o], o)
  BY <1>2 DEF Types, Periods, Baselines, Counts, Shown, Display, Larger, Max0
<1>4. ~ListEnds(k)
  BY DEF ListEnds, IdleList
<1>5. CASE ListBegins(k) /\ UNCHANGED <<usage, baseline, host>>
  <2>1. list'[k].host = host /\ floor'[k] = shown
    BY <1>5 DEF ListBegins
  <2>2. Display(usage'[a], baseline'[a], list'[k].host[a][o], o)
        = Display(usage[a], baseline[a], host[a][o], o)
    BY <1>5, <2>1 DEF Display
  <2> QED BY <1>1, <1>3, <2>1, <2>2, <1>5 DEF ShownInv, ReturnedInv
<1>6. CASE ListGoesOn(k)
  <2>1. list[k].pc # "idle" /\ list'[k].host = list[k].host
    BY <1>6 DEF ListGoesOn
  <2>2. list[k].host[a][o] <= host[a][o] /\ floor[k][a][o] <= Shown(k, a, o)
    BY <2>1 DEF ShownInv, HostsInv, FloorInv
  <2>3. floor'[k][a][o] = 0 \/ floor'[k][a] = floor[k][a]
    BY <1>6 DEF ListGoesOn, Zero
  <2>4. CASE floor'[k][a] = Zero
    BY <1>1, <1>2, <1>3, <2>1, <2>2, <2>4 DEF Zero
  <2>5. CASE floor'[k][a] = floor[k][a] /\ floor'[k][a] # Zero
    <3>1. Display(usage'[a], baseline'[a], list'[k].host[a][o], o)
            >= Display(usage[a], baseline[a], list[k].host[a][o], o)
      BY <1>2, <2>1, <2>5, DisplayGrows DEF Grows, Afresh
    <3>2. Shown(k, a, o)' >= Shown(k, a, o) /\ Shown(k, a, o) \in Nat
      BY <1>2, <1>3, <2>1, <3>1, ShownIsDisplay, DisplayTypes
    <3> QED BY <1>1, <1>2, <1>3, <2>1, <2>2, <2>5, <3>2
  <2> QED BY <1>6, <2>4, <2>5 DEF ListGoesOn
<1> QED BY <1>4, <1>5, <1>6, ListSteps

\* At the start nothing was shown.
LEMMA InitShown == Init => ShownInv
<1> SUFFICES ASSUME Init PROVE ShownInv
  OBVIOUS
<1>1. \A k \in Panels : list[k].pc = "idle"
  BY DEF Init, IdleList
<1>2. \A a \in Accounts, o \in Outcomes :
        shown[a][o] = 0 /\ Display(usage[a], baseline[a], host[a][o], o) = 0
  BY DEF Init, NoneShown, NoUsage, Zero, Display
<1> QED BY <1>1, <1>2 DEF ShownInv, HostsInv, ReturnedInv, FloorInv

\* What lists show: the invariant of this section.
THEOREM ShownAlways == Spec => []ShownInv
<1>1. Init => ShownInv
  BY InitShown
<1>2. LedgerInv /\ LedgerInv' /\ ShownInv /\ [Next]_vars => ShownInv'
  BY ReturnedStep, FloorStep DEF ShownInv, LedgerInv
<1> QED BY <1>1, <1>2, LedgerAlways, PTL DEF Spec

\* Within a period no list shows less than one that had returned when it began.
THEOREM NeverDrops == Spec => []ShownNeverDrops
<1>1. LedgerInv /\ ShownInv => ShownNeverDrops
  <2> SUFFICES ASSUME LedgerInv, ShownInv, NEW k \in Panels, NEW a \in Accounts, NEW o \in Outcomes,
                      list[k].pc = "bound"
               PROVE  Shown(k, a, o) >= floor[k][a][o]
    BY DEF ShownNeverDrops
  <2>1. list[k].host[a][o] \in Nat /\ floor[k][a][o] \in Nat
    BY DisplayTypes DEF LedgerInv
  <2>2. Shown(k, a, o) \in Nat
    BY <2>1, ShownIsDisplay, DisplayTypes DEF LedgerInv
  <2> QED BY <2>1, <2>2 DEF ShownInv, FloorInv
<1> QED BY <1>1, LedgerAlways, ShownAlways, PTL

-----------------------------------------------------------------------------
(* The daily reset.                                                        *)

\* Division with remainder.
LEMMA DivMod ==
  ASSUME NEW t \in Nat, NEW d \in Nat \ {0}
  PROVE  /\ t \div d \in Int /\ t % d \in 0..(d - 1)
         /\ t = d * (t \div d) + (t % d)
OBVIOUS

\* Multiples of a day keep their order.
LEMMA DaysOrdered ==
  ASSUME NEW m \in Int, NEW n \in Int, NEW d \in Nat \ {0}, m < n
  PROVE  d * m + d <= d * n
<1>1. \E i \in Nat : n = m + 1 + i
  <2>1. n - m - 1 \in Nat /\ n = m + 1 + (n - m - 1)  OBVIOUS
  <2> QED BY <2>1
<1>2. PICK i \in Nat : n = m + 1 + i  BY <1>1
<1>3. d * n = d * m + d + d * i  BY <1>2
<1>4. d * i >= 0  OBVIOUS
<1>5. d * m \in Int /\ d * n \in Int /\ d * i \in Int  OBVIOUS
<1> QED BY <1>3, <1>4, <1>5

\* A later time has no earlier date.
LEMMA DatesOrdered ==
  ASSUME NEW s \in Nat, NEW t \in Nat, s <= t
  PROVE  Date(s) <= Date(t)
<1>1. /\ Date(s) \in Int /\ s % DayLength \in 0..(DayLength - 1)
      /\ s = DayLength * Date(s) + (s % DayLength)
      /\ Date(t) \in Int /\ t % DayLength \in 0..(DayLength - 1)
      /\ t = DayLength * Date(t) + (t % DayLength)
  BY LedgerAssumption, DivMod DEF Date
<1>2. CASE Date(t) < Date(s)
  <2>1. DayLength * Date(t) + DayLength <= DayLength * Date(s)
    BY <1>1, <1>2, LedgerAssumption, DaysOrdered
  <2>2. DayLength * Date(t) \in Int /\ DayLength * Date(s) \in Int
    BY <1>1, LedgerAssumption
  <2> QED BY <1>1, <2>1, <2>2, LedgerAssumption
<1> QED BY <1>1, <1>2

\* What the worker found due was due then, and no reset has come since.
ResetInv ==
  /\ resetDate <= Date(now)
  /\ job.pc = "due" =>
       job.at <= now /\ Due(job.at, job.time) /\ resetDate < Date(job.at)

\* The reset worker: every step.
LEMMA ResetStep ==
  ASSUME Types, Types', ResetInv, [Next]_vars
  PROVE  ResetInv'
<1>1. now \in Nat /\ now' \in Nat /\ now <= now'
  BY ClockGrows
<1>2. Date(now) <= Date(now') /\ Date(now) \in Int /\ Date(now') \in Int
  BY <1>1, DatesOrdered, DivMod, LedgerAssumption DEF Date
<1>3. job.pc = "due" => job \in Job
  BY DEF Types, IdleJob
<1>4. CASE ResetCheck
  <2>1. job' = [pc |-> "due", time |-> dailyReset, at |-> now]
    BY <1>4 DEF ResetCheck
  <2>2. resetDate' = resetDate /\ resetDate # Date(now) /\ Due(now, dailyReset) /\ now' = now
    BY <1>4 DEF ResetCheck
  <2>3. resetDate \in Int /\ resetDate <= Date(now)
    BY DEF Types, ResetInv
  <2>4. resetDate < Date(now) /\ Date(now) = Date(now')
    BY <1>2, <2>2, <2>3 DEF Date
  <2> QED BY <1>1, <1>2, <2>1, <2>2, <2>3, <2>4 DEF ResetInv, Due, Date
<1>5. CASE ResetAccounts
  <2>1. job \in Job /\ job' = IdleJob /\ now' = now
    BY <1>3, <1>5 DEF ResetAccounts
  <2>2. job.at \in Nat /\ job.at <= now
    BY <1>5, <2>1 DEF ResetAccounts, ResetInv, Job, Times
  <2>3. Date(job.at) <= Date(now)
    BY <1>1, <2>2, DatesOrdered
  <2> QED BY <1>5, <2>1, <2>3 DEF ResetAccounts, ResetInv, IdleJob, Date
<1>6. CASE Restart
  BY <1>6 DEF Restart, ResetInv, IdleJob, Date
<1>7. CASE UNCHANGED <<resetDate, job>>
  <2>1. job.pc = "due" => job.at \in Nat /\ job.at <= now'
    BY <1>1, <1>3 DEF ResetInv, Job, Times
  <2> QED BY <1>2, <1>7, <2>1 DEF ResetInv, Due, Date, Types
<1> QED BY <1>4, <1>5, <1>6, <1>7
        DEF Next, HostStep, PanelStep, Tick, Serve, Deliver, ListFiles, PlanBind, BindBaselines, Bind, View,
            ClearState, SetDailyReset, resetVars, vars

\* Counts go once per date, not before the time set for it, and under the
\* setting that is in force then.
THEOREM ResetDue == Spec => ResetIsDue
<1>1. Init => ResetInv
  <2>1. ASSUME Init PROVE Date(1) >= 0
    BY LedgerAssumption, DatesOrdered, DivMod DEF Date
  <2>2. ASSUME Init PROVE -1 <= Date(1)
    BY <2>1, LedgerAssumption, DivMod DEF Date
  <2> QED BY <2>2 DEF Init, ResetInv, IdleJob
<1>2. Types /\ Types' /\ ResetInv /\ [Next]_vars => ResetInv'
  BY ResetStep
<1>3. ASSUME Types, ResetInv, [Next]_vars, resetDate' # resetDate
      PROVE  /\ resetDate' > resetDate
             /\ dailyReset # NoReset
             /\ now >= resetDate' * DayLength + dailyReset
  <2>1. ResetAccounts
    BY <1>3 DEF Next, HostStep, PanelStep, Tick, Serve, Deliver, ListFiles, PlanBind, BindBaselines, Bind, View,
                ClearState, SetDailyReset, ResetCheck, Restart, resetVars, vars
  <2>2. /\ job.pc = "due" /\ dailyReset = job.time /\ resetDate' = Date(job.at)
        /\ job.at <= now /\ Due(job.at, job.time) /\ resetDate < Date(job.at)
    BY <1>3, <2>1 DEF ResetAccounts, ResetInv
  <2>3. job.time \in Nat /\ job.at \in Nat /\ now \in Nat
    BY <1>3, <2>2 DEF Types, IdleJob, Job, Times
  <2>4. /\ job.at = DayLength * Date(job.at) + (job.at % DayLength) /\ Date(job.at) \in Int
        /\ job.at % DayLength \in Int /\ job.at % DayLength >= job.time
    <3>1. \A t \in Nat : /\ t = DayLength * Date(t) + (t % DayLength)
                         /\ Date(t) \in Int /\ t % DayLength \in Int
      BY DivMod, LedgerAssumption DEF Date
    <3>2. job.at % DayLength >= job.time
      BY <2>2 DEF Due
    <3> QED BY <2>3, <3>1, <3>2
  <2>5. DayLength * Date(job.at) = Date(job.at) * DayLength /\ Date(job.at) * DayLength \in Int
    BY <2>4, LedgerAssumption
  <2> QED BY <1>3, <2>2, <2>3, <2>4, <2>5, LedgerAssumption DEF Types
<1>4. Types /\ ResetInv /\ [Next]_vars =>
        [resetDate' # resetDate =>
           /\ resetDate' > resetDate
           /\ dailyReset # NoReset
           /\ now >= resetDate' * DayLength + dailyReset]_vars
  BY <1>3
<1>5. LedgerInv => Types
  BY DEF LedgerInv
<1> QED BY <1>1, <1>2, <1>4, <1>5, LedgerAlways, PTL DEF Spec, ResetIsDue

-----------------------------------------------------------------------------
(* Dedupe keys.                                                            *)

\* A map of keys that agrees with the history of keys.
Stamped(rec) == \A k \in DOMAIN rec : rec[k] \in Nat /\ rec[k] <= now

Map(seen, rec) ==
  /\ IsFiniteSet(DOMAIN seen) /\ Cardinality(DOMAIN seen) <= MaxDedupe
  /\ DOMAIN seen \subseteq DOMAIN rec
  /\ \A k \in DOMAIN seen : seen[k] = rec[k]

Full(seen, stamp) ==
  /\ Cardinality(DOMAIN seen) = MaxDedupe
  /\ \A k \in DOMAIN seen : seen[k] >= stamp

Remembered(seen, rec, key) == key \in DOMAIN seen \/ Full(seen, rec[key])

\* A map that is over its limit loses one of its oldest keys and no other.
LEMMA TrimDrops ==
  ASSUME NEW seen, IsFiniteSet(DOMAIN seen), Cardinality(DOMAIN seen) <= MaxDedupe + 1,
         NEW next \in Trimmed(seen)
  PROVE  /\ IsFiniteSet(DOMAIN next) /\ Cardinality(DOMAIN next) <= MaxDedupe
         /\ DOMAIN next \subseteq DOMAIN seen
         /\ \A k \in DOMAIN next : next[k] = seen[k]
         /\ Cardinality(DOMAIN seen) >= MaxDedupe => Cardinality(DOMAIN next) = MaxDedupe
         /\ \A k \in DOMAIN seen \ DOMAIN next : Full(next, seen[k])
<1>1. Cardinality(DOMAIN seen) \in Nat /\ MaxDedupe \in Nat
  BY FS_CardinalityType, LedgerAssumption
<1>2. CASE Cardinality(DOMAIN seen) <= MaxDedupe
  <2>1. next = seen  BY <1>2 DEF Trimmed
  <2> QED BY <1>1, <1>2, <2>1
<1>3. CASE ~(Cardinality(DOMAIN seen) <= MaxDedupe)
  <2>1. PICK old \in Oldest(seen) : next = Restrict(seen, DOMAIN seen \ {old})
    BY <1>3 DEF Trimmed
  <2>2. old \in DOMAIN seen /\ \A l \in DOMAIN seen : seen[old] <= seen[l]
    BY <2>1 DEF Oldest
  <2>3. DOMAIN next = DOMAIN seen \ {old} /\ \A k \in DOMAIN next : next[k] = seen[k]
    BY <2>1 DEF Restrict
  <2>4. IsFiniteSet(DOMAIN next) /\ Cardinality(DOMAIN next) = Cardinality(DOMAIN seen) - 1
    BY <2>2, <2>3, FS_RemoveElement
  <2>5. Cardinality(DOMAIN next) = MaxDedupe
    BY <1>1, <1>3, <2>4
  <2>6. Full(next, seen[old])
    BY <2>2, <2>3, <2>5 DEF Full
  <2> QED BY <1>1, <2>2, <2>3, <2>4, <2>5, <2>6
<1> QED BY <1>2, <1>3

\* A key that is recorded is remembered, and so is every other one that was.
LEMMA RecordRemembers ==
  ASSUME now \in Nat, NEW seen, NEW rec, Map(seen, rec), Stamped(rec), NEW key,
         NEW next \in Trimmed(Record(seen, key))
  PROVE  /\ Map(next, Record(rec, key)) /\ Stamped(Record(rec, key))
         /\ Remembered(next, Record(rec, key), key)
         /\ \A k \in DOMAIN rec \ {key} :
              Remembered(seen, rec, k) => Remembered(next, Record(rec, key), k)
<1> DEFINE more == Record(seen, key)
           rec2 == Record(rec, key)
<1>1. /\ DOMAIN more = DOMAIN seen \cup {key}
      /\ \A k \in DOMAIN more : more[k] = IF k = key THEN now ELSE seen[k]
  BY DEF Record
<1>2. /\ DOMAIN rec2 = DOMAIN rec \cup {key}
      /\ \A k \in DOMAIN rec2 : rec2[k] = IF k = key THEN now ELSE rec[k]
  BY DEF Record
<1>3. /\ IsFiniteSet(DOMAIN seen) /\ Cardinality(DOMAIN seen) \in Nat
      /\ Cardinality(DOMAIN seen) <= MaxDedupe /\ MaxDedupe \in Nat
  BY FS_CardinalityType, LedgerAssumption DEF Map
<1>4. /\ IsFiniteSet(DOMAIN more) /\ Cardinality(DOMAIN more) \in Nat
      /\ Cardinality(DOMAIN more) \in {Cardinality(DOMAIN seen), Cardinality(DOMAIN seen) + 1}
  BY <1>1, <1>3, FS_AddElement, FS_CardinalityType
<1>5. next \in Trimmed(more) /\ Cardinality(DOMAIN more) <= MaxDedupe + 1
  BY <1>3, <1>4
<1> HIDE DEF more, rec2
<1>6. /\ IsFiniteSet(DOMAIN next) /\ Cardinality(DOMAIN next) <= MaxDedupe
      /\ DOMAIN next \subseteq DOMAIN more
      /\ \A k \in DOMAIN next : next[k] = more[k]
      /\ Cardinality(DOMAIN more) >= MaxDedupe => Cardinality(DOMAIN next) = MaxDedupe
      /\ \A k \in DOMAIN more \ DOMAIN next : Full(next, more[k])
  BY <1>4, <1>5, TrimDrops
<1>7. \A k \in DOMAIN more : k \in DOMAIN rec2 /\ more[k] = rec2[k]
  BY <1>1, <1>2 DEF Map
<1>8. Map(next, rec2)
  BY <1>6, <1>7 DEF Map
<1>9. Stamped(rec2)
  BY <1>2 DEF Stamped
<1>10. \A k \in DOMAIN more : Remembered(next, rec2, k)
  BY <1>6, <1>7 DEF Remembered
<1>11. ASSUME NEW k \in DOMAIN rec \ {key}, Full(seen, rec[k])
       PROVE  Remembered(next, rec2, k)
  <2>1. rec2[k] = rec[k] /\ rec[k] \in Nat /\ rec[k] <= now
    BY <1>2 DEF Stamped
  <2>2. Cardinality(DOMAIN next) = MaxDedupe
    BY <1>3, <1>4, <1>6, <1>11 DEF Full
  <2>3. \A l \in DOMAIN next : next[l] >= rec2[k]
    BY <1>1, <1>6, <1>11, <2>1 DEF Full
  <2> QED BY <2>2, <2>3 DEF Remembered, Full
<1>12. \A k \in DOMAIN rec \ {key} : Remembered(seen, rec, k) => Remembered(next, rec2, k)
  BY <1>1, <1>10, <1>11 DEF Remembered
<1>13. Remembered(next, rec2, key)
  BY <1>1, <1>10
<1> QED BY <1>8, <1>9, <1>12, <1>13 DEF rec2

\* Pruning forgets what is expired; a map that is no longer full had only keys
\* that are older than what it lost.
LEMMA PruneRemembers ==
  ASSUME now \in Nat, NEW seen, NEW rec, Map(seen, rec), Stamped(rec)
  PROVE  /\ Map(Pruned(seen), rec)
         /\ \A k \in DOMAIN rec : Remembered(seen, rec, k) =>
              Remembered(Pruned(seen), rec, k) \/ now - rec[k] > WeakTTL
<1> DEFINE less == Pruned(seen)
<1>1. /\ DOMAIN less = {k \in DOMAIN seen : now - seen[k] <= WeakTTL}
      /\ \A k \in DOMAIN less : less[k] = seen[k]
  BY DEF Pruned, Restrict
<1> HIDE DEF less
<1>2. /\ IsFiniteSet(DOMAIN less) /\ Cardinality(DOMAIN less) <= Cardinality(DOMAIN seen)
      /\ Cardinality(DOMAIN less) \in Nat /\ Cardinality(DOMAIN seen) \in Nat
  BY <1>1, FS_Subset, FS_CardinalityType DEF Map
<1>3. Map(less, rec)
  BY <1>1, <1>2, LedgerAssumption DEF Map
<1>4. ASSUME NEW k \in DOMAIN rec, k \in DOMAIN seen
      PROVE  Remembered(less, rec, k) \/ now - rec[k] > WeakTTL
  <2>1. seen[k] = rec[k] /\ rec[k] \in Nat  BY <1>4 DEF Map, Stamped
  <2> QED BY <1>1, <1>4, <2>1, LedgerAssumption DEF Remembered
<1>5. ASSUME NEW k \in DOMAIN rec, Full(seen, rec[k])
      PROVE  Remembered(less, rec, k) \/ now - rec[k] > WeakTTL
  <2>1. CASE DOMAIN less = DOMAIN seen
    BY <1>1, <1>5, <2>1 DEF Remembered, Full
  <2>2. CASE DOMAIN less # DOMAIN seen
    <3>1. PICK l \in DOMAIN seen : ~(now - seen[l] <= WeakTTL)
      BY <1>1, <2>2
    <3>2. seen[l] \in Nat /\ rec[k] \in Nat
      BY DEF Map, Stamped
    <3>3. seen[l] >= rec[k]
      BY <1>5 DEF Full
    <3> QED BY <3>1, <3>2, <3>3, LedgerAssumption
  <2> QED BY <2>1, <2>2
<1> QED BY <1>3, <1>4, <1>5 DEF Remembered, less

WeakKeys == [acct : Accounts, outcome : Outcomes, bucket : Nat]

DedupeInv ==
  /\ Stamped(recorded)
  /\ DOMAIN recorded \subseteq ExactEvents \cup WeakKeys
  /\ Map(exactIds, recorded) /\ DOMAIN exactIds \subseteq ExactEvents
  /\ Map(weakKeys, recorded) /\ DOMAIN weakKeys \subseteq WeakKeys
  /\ \A k \in DOMAIN recorded \cap ExactEvents : Remembered(exactIds, recorded, k)
  /\ \A k \in DOMAIN recorded \cap WeakKeys :
       Remembered(weakKeys, recorded, k) \/ now - recorded[k] > WeakTTL

\* Recording a key of one map leaves the other map as it was.
LEMMA OtherMap ==
  ASSUME NEW seen, NEW rec, NEW key, Map(seen, rec), key \notin DOMAIN seen
  PROVE  /\ Map(seen, Record(rec, key))
         /\ \A k \in DOMAIN rec \ {key} : /\ Record(rec, key)[k] = rec[k]
                                          /\ Remembered(seen, rec, k) => Remembered(seen, Record(rec, key), k)
<1>1. /\ DOMAIN Record(rec, key) = DOMAIN rec \cup {key}
      /\ \A k \in DOMAIN rec \ {key} : Record(rec, key)[k] = rec[k]
  BY DEF Record
<1> QED BY <1>1 DEF Map, Remembered

\* A weak key is a weak key.
LEMMA WeakKeyType ==
  ASSUME Types, NEW e \in Events, request[e] # NoRequest
  PROVE  WeakKey(e) \in WeakKeys
<1>1. request[e] \in Requests
  BY DEF Types
<1>2. request[e].acct \in Accounts /\ request[e].outcome \in Outcomes /\ request[e].at \in Nat
  BY <1>1 DEF Requests, Times
<1>3. request[e].at \div WeakBucket \in Nat
  BY <1>2, LedgerAssumption
<1> QED BY <1>2, <1>3 DEF WeakKey, WeakKeys

\* Dedupe keys: an event is delivered.
LEMMA DeliverDedupe ==
  ASSUME Types, DedupeInv, NEW e \in Events, Deliver(e)
  PROVE  DedupeInv'
<1> USE DEF DedupeInv
<1>1. now \in Nat /\ now' = now /\ request[e] # NoRequest
  BY DEF Deliver, Types, Times
<1>2. /\ Map(Pruned(weakKeys), recorded) /\ DOMAIN Pruned(weakKeys) \subseteq WeakKeys
      /\ \A k \in DOMAIN recorded \cap WeakKeys :
           Remembered(Pruned(weakKeys), recorded, k) \/ now - recorded[k] > WeakTTL
  BY <1>1, PruneRemembers DEF Pruned, Restrict
<1>3. ASSUME weakKeys' = Pruned(weakKeys), UNCHANGED <<exactIds, recorded>>
      PROVE  DedupeInv'
  BY <1>1, <1>2, <1>3 DEF Stamped, Map, Remembered, Full
<1>4. ASSUME e \in ExactEvents, exactIds' \in Trimmed(Record(exactIds, e)),
             weakKeys' = Pruned(weakKeys), recorded' = Record(recorded, e)
      PROVE  DedupeInv'
  <2>1. e \notin WeakKeys
    BY KeysAssumption DEF WeakKeys
  <2>2. /\ Map(exactIds', recorded') /\ Stamped(recorded')
        /\ Remembered(exactIds', recorded', e)
        /\ \A k \in DOMAIN recorded \ {e} :
             Remembered(exactIds, recorded, k) => Remembered(exactIds', recorded', k)
    BY <1>1, <1>4, RecordRemembers
  <2>3. DOMAIN exactIds' \subseteq ExactEvents
    <3>1. \A next \in Trimmed(Record(exactIds, e)) : DOMAIN next \subseteq DOMAIN Record(exactIds, e)
      BY DEF Trimmed, Restrict, Oldest
    <3>2. DOMAIN Record(exactIds, e) = DOMAIN exactIds \cup {e}
      BY DEF Record
    <3> QED BY <1>4, <3>1, <3>2
  <2>4. e \notin DOMAIN Pruned(weakKeys)
    BY <1>2, <2>1
  <2>5. /\ Map(weakKeys', recorded')
        /\ \A k \in DOMAIN recorded \ {e} :
             /\ recorded'[k] = recorded[k]
             /\ Remembered(weakKeys', recorded, k) => Remembered(weakKeys', recorded', k)
    BY <1>2, <1>4, <2>4, OtherMap
  <2>6. DOMAIN recorded' = DOMAIN recorded \cup {e}
    BY <1>4 DEF Record
  <2>7. \A k \in DOMAIN recorded' \cap ExactEvents : Remembered(exactIds', recorded', k)
    BY <2>2, <2>6
  <2>8. \A k \in DOMAIN recorded' \cap WeakKeys :
          Remembered(weakKeys', recorded', k) \/ now' - recorded'[k] > WeakTTL
    BY <1>1, <1>2, <1>4, <2>1, <2>5, <2>6
  <2>9. Stamped(recorded)'
    BY <1>1, <2>2 DEF Stamped
  <2>10. Map(exactIds, recorded)' /\ Map(weakKeys, recorded)'
    BY <2>2, <2>5 DEF Map
  <2> QED BY <1>2, <1>4, <2>3, <2>6, <2>7, <2>8, <2>9, <2>10 DEF Remembered, Full
<1>5. ASSUME e \notin ExactEvents, weakKeys' \in Trimmed(Record(Pruned(weakKeys), WeakKey(e))),
             recorded' = Record(recorded, WeakKey(e)), exactIds' = exactIds
      PROVE  DedupeInv'
  <2> DEFINE key == WeakKey(e)
  <2>1. key \in WeakKeys /\ key \notin ExactEvents
    BY <1>1, WeakKeyType, KeysAssumption, LedgerAssumption DEF WeakKeys
  <2> HIDE DEF key
  <2>2. /\ Map(weakKeys', recorded') /\ Stamped(recorded')
        /\ Remembered(weakKeys', recorded', key)
        /\ \A k \in DOMAIN recorded \ {key} :
             Remembered(Pruned(weakKeys), recorded, k) => Remembered(weakKeys', recorded', k)
    BY <1>1, <1>2, <1>5, RecordRemembers DEF key
  <2>3. DOMAIN weakKeys' \subseteq WeakKeys
    <3>1. \A next \in Trimmed(Record(Pruned(weakKeys), key)) :
             DOMAIN next \subseteq DOMAIN Record(Pruned(weakKeys), key)
      BY DEF Trimmed, Restrict, Oldest
    <3>2. DOMAIN Record(Pruned(weakKeys), key) = DOMAIN Pruned(weakKeys) \cup {key}
      BY DEF Record
    <3> QED BY <1>2, <1>5, <2>1, <3>1, <3>2 DEF key
  <2>4. key \notin DOMAIN exactIds
    BY <2>1
  <2>5. /\ Map(exactIds', recorded')
        /\ \A k \in DOMAIN recorded \ {key} :
             /\ recorded'[k] = recorded[k]
             /\ Remembered(exactIds', recorded, k) => Remembered(exactIds', recorded', k)
    BY <1>5, <2>4, OtherMap DEF key
  <2>6. DOMAIN recorded' = DOMAIN recorded \cup {key}
    BY <1>5 DEF Record, key
  <2>7. \A k \in DOMAIN recorded' \cap ExactEvents : Remembered(exactIds', recorded', k)
    BY <1>5, <2>1, <2>5, <2>6
  <2>8. \A k \in DOMAIN recorded' \cap WeakKeys :
          Remembered(weakKeys', recorded', k) \/ now' - recorded'[k] > WeakTTL
    BY <1>1, <1>2, <2>2, <2>5, <2>6
  <2>9. Stamped(recorded)'
    BY <1>1, <2>2 DEF Stamped
  <2>10. Map(exactIds, recorded)' /\ Map(weakKeys, recorded)'
    BY <2>2, <2>5 DEF Map
  <2> QED BY <1>5, <2>1, <2>3, <2>6, <2>7, <2>8, <2>9, <2>10 DEF Remembered, Full
<1> QED BY <1>3, <1>4, <1>5 DEF Deliver

\* Dedupe keys: every step.
LEMMA DedupeStep ==
  ASSUME Types, Types', DedupeInv, [Next]_vars
  PROVE  DedupeInv'
<1>1. ASSUME NEW e \in Events, Deliver(e)  PROVE DedupeInv'
  BY <1>1, DeliverDedupe
<1>2. CASE UNCHANGED dedupeVars
  <2>1. now \in Nat /\ now' \in Nat /\ now <= now'
    BY ClockGrows
  <2>2. \A k \in DOMAIN recorded : now - recorded[k] > WeakTTL => now' - recorded[k] > WeakTTL
    BY <2>1, LedgerAssumption DEF DedupeInv, Stamped
  <2>3. Stamped(recorded)'
    BY <1>2, <2>1 DEF DedupeInv, Stamped, dedupeVars
  <2> QED BY <1>2, <2>2, <2>3 DEF DedupeInv, Map, Remembered, Full, dedupeVars
<1> QED BY <1>1, <1>2
        DEF Next, HostStep, PanelStep, Tick, Serve, ListFiles, PlanBind, BindBaselines, Bind, View,
            ClearState, SetDailyReset, ResetCheck, ResetAccounts, Restart, dedupeVars, vars

\* Dedupe keys: the initial states.
LEMMA InitDedupe == Init => DedupeInv
<1>1. DOMAIN <<>> = {}
  OBVIOUS
<1>2. IsFiniteSet({}) /\ Cardinality({}) = 0
  BY FS_EmptySet
<1> QED BY <1>1, <1>2, LedgerAssumption DEF Init, DedupeInv, Stamped, Map

\* A key is forgotten when it is expired or as many newer ones are remembered.
THEOREM KeysKept == Spec => []RecentKeysKept
<1>1. Init => DedupeInv
  BY InitDedupe
<1>2. Types /\ Types' /\ DedupeInv /\ [Next]_vars => DedupeInv'
  BY DedupeStep
<1>3. DedupeInv => RecentKeysKept
  BY DEF DedupeInv, RecentKeysKept, Remembered, Full, Forgettable
<1>4. LedgerInv => Types
  BY DEF LedgerInv
<1> QED BY <1>1, <1>2, <1>3, <1>4, LedgerAlways, PTL DEF Spec

-----------------------------------------------------------------------------
(* Nothing is counted twice as long as what is delivered again is prompt:  *)
(* its key is then still kept.                                             *)

Requested == {e \in Events : request[e] # NoRequest}

Served(a, o) == {e \in Requested : request[e].acct = a /\ request[e].outcome = o}

KeysOf(a, o) == {k \in DOMAIN recorded : \E e \in Served(a, o) : k = KeyOf(e)}

SeenInv ==
  /\ IsFiniteSet(Requested)
  /\ \A k \in DOMAIN recorded : \E e \in Requested : k = KeyOf(e)

CountInv ==
  \A a \in Accounts, o \in Outcomes :
    /\ host[a][o] = HostLifetime + Cardinality(Served(a, o))
    /\ usage[a].count[o] <= Cardinality(KeysOf(a, o))

\* There are no more keys than events that have them.
LEMMA FewKeys ==
  ASSUME NEW S, IsFiniteSet(S), NEW T, \A k \in T : \E e \in S : k = KeyOf(e)
  PROVE  IsFiniteSet(T) /\ Cardinality(T) <= Cardinality(S)
<1> DEFINE used == {e \in S : KeyOf(e) \in T}
           f    == [e \in used |-> KeyOf(e)]
<1>1. IsFiniteSet(used) /\ Cardinality(used) <= Cardinality(S)
  BY FS_Subset
<1>2. f \in [used -> T] /\ \A k \in T : \E e \in used : f[e] = k
  OBVIOUS
<1>3. f \in Surjection(used, T)
  BY <1>2 DEF Surjection
<1>4. IsFiniteSet(T) /\ Cardinality(T) <= Cardinality(used)
  BY <1>1, <1>3, FS_Surjection
<1> QED BY <1>1, <1>4, FS_CardinalityType

\* The sets that are counted are finite.
LEMMA CountedFinite ==
  ASSUME SeenInv, NEW a, NEW o
  PROVE  /\ IsFiniteSet(DOMAIN recorded)
         /\ IsFiniteSet(Served(a, o)) /\ Cardinality(Served(a, o)) \in Nat
         /\ IsFiniteSet(KeysOf(a, o)) /\ Cardinality(KeysOf(a, o)) \in Nat
         /\ Cardinality(KeysOf(a, o)) <= Cardinality(Served(a, o))
<1>1. IsFiniteSet(DOMAIN recorded)
  BY FewKeys DEF SeenInv
<1>2. IsFiniteSet(Served(a, o))
  BY FS_Subset DEF SeenInv, Served
<1>3. IsFiniteSet(KeysOf(a, o)) /\ Cardinality(KeysOf(a, o)) <= Cardinality(Served(a, o))
  BY <1>2, FewKeys DEF KeysOf
<1> QED BY <1>1, <1>2, <1>3, FS_CardinalityType

\* A request that is served is never told apart again.
LEMMA ServedStays ==
  ASSUME Types, [Next]_vars, NEW e \in Requested
  PROVE  e \in Requested' /\ request'[e] = request[e] /\ KeyOf(e)' = KeyOf(e)
<1>1. request'[e] = request[e]
  BY DEF Next, HostStep, PanelStep, Tick, Serve, Deliver, ListFiles, PlanBind, BindBaselines, Bind, View,
         ClearState, SetDailyReset, ResetCheck, ResetAccounts, Restart, hostVars, vars, Types, Requested
<1> QED BY <1>1 DEF KeyOf, WeakKey, Requested

\* Keys are recorded when their events are delivered, and kept in the history.
LEMMA RecordedGrows ==
  ASSUME [Next]_vars
  PROVE  \/ recorded' = recorded
         \/ \E e \in Requested : recorded' = Record(recorded, KeyOf(e))
BY DEF Next, HostStep, PanelStep, Tick, Serve, Deliver, ListFiles, PlanBind, BindBaselines, Bind, View, ClearState,
       SetDailyReset, ResetCheck, ResetAccounts, Restart, dedupeVars, vars, KeyOf, Requested

\* What was requested and counted: every step.
LEMMA SeenStep ==
  ASSUME Types, SeenInv, [Next]_vars
  PROVE  SeenInv'
<1>1. IsFiniteSet(Requested')
  <2>1. CASE UNCHANGED request
    BY <2>1 DEF SeenInv, Requested
  <2>2. CASE HostStep
    <3>1. PICK e \in Events : \A d \in Events \ {e} : request'[d] = request[d]
      BY <2>2 DEF HostStep, Serve, Types
    <3>2. Requested' \subseteq Requested \cup {e}
      BY <3>1 DEF Requested
    <3> QED BY <3>2, FS_AddElement, FS_Subset DEF SeenInv
  <2> QED BY <2>1, <2>2
          DEF Next, PanelStep, Tick, Deliver, ListFiles, PlanBind, BindBaselines, Bind, View, ClearState,
              SetDailyReset, ResetCheck, ResetAccounts, Restart, hostVars, vars
<1>2. DOMAIN recorded' = DOMAIN recorded \/ \E e \in Requested : DOMAIN recorded' = DOMAIN recorded \cup {KeyOf(e)}
  BY RecordedGrows DEF Record
<1>3. \A k \in DOMAIN recorded' : \E e \in Requested' : k = KeyOf(e)'
  BY <1>2, ServedStays DEF SeenInv
<1> QED BY <1>1, <1>3 DEF SeenInv

\* Keys stay with their accounts.
LEMMA KeysGrow ==
  ASSUME SeenInv, SeenInv', Types, [Next]_vars, NEW a, NEW o
  PROVE  /\ KeysOf(a, o) \subseteq KeysOf(a, o)'
         /\ Cardinality(KeysOf(a, o)) <= Cardinality(KeysOf(a, o)')
         /\ IsFiniteSet(KeysOf(a, o)') /\ Cardinality(KeysOf(a, o)') \in Nat
<1>1. \A e \in Served(a, o) : e \in Served(a, o)' /\ KeyOf(e)' = KeyOf(e)
  BY ServedStays DEF Served
<1>2. DOMAIN recorded \subseteq DOMAIN recorded'
  BY RecordedGrows DEF Record
<1>3. KeysOf(a, o) \subseteq KeysOf(a, o)'
  BY <1>1, <1>2 DEF KeysOf
<1>4. IsFiniteSet(KeysOf(a, o)')
  <2>1. IsFiniteSet(Requested')
    BY DEF SeenInv
  <2> DEFINE T == {KeyOf(e)' : e \in Requested'}
             f == [e \in Requested' |-> KeyOf(e)']
  <2>2. f \in Surjection(Requested', T)
    BY DEF Surjection
  <2>3. IsFiniteSet(T)
    BY <2>1, <2>2, FS_Surjection
  <2>4. KeysOf(a, o)' \subseteq T
    BY DEF KeysOf, Served
  <2> QED BY <2>3, <2>4, FS_Subset
<1> QED BY <1>3, <1>4, FS_Subset, FS_CardinalityType

\* A prompt event that is not a duplicate has a key of its own: were its key
\* forgotten for want of room, the map would be full of newer ones.
LEMMA NewKey ==
  ASSUME Types, DedupeInv, SeenInv, NEW e \in Requested, Prompt(e), ~Duplicate(e)
  PROVE  KeyOf(e) \notin DOMAIN recorded
<1> SUFFICES ASSUME KeyOf(e) \in DOMAIN recorded PROVE FALSE
  OBVIOUS
<1>1. now \in Nat /\ MaxDedupe \in Nat /\ e \in Events
  BY LedgerAssumption DEF Types, Times, Requested
<1>2. WeakKey(e) \in WeakKeys
  BY WeakKeyType DEF Requested
<1>3. ExactEvents \cap WeakKeys = {}
  BY KeysAssumption, LedgerAssumption DEF WeakKeys
<1>4. IsFiniteSet(Newer(e)) /\ Cardinality(Newer(e)) \in Nat /\ Cardinality(Newer(e)) < MaxDedupe
  <2>1. IsFiniteSet(DOMAIN recorded)
    BY CountedFinite
  <2> QED BY <2>1, FS_Subset, FS_CardinalityType DEF Newer, Prompt
<1>5. ASSUME NEW seen, Map(seen, recorded), Full(seen, recorded[KeyOf(e)]), KeyOf(e) \notin DOMAIN seen,
             \A k \in DOMAIN seen : k \in ExactEvents <=> e \in ExactEvents
      PROVE  FALSE
  <2>1. DOMAIN seen \subseteq Newer(e)
    BY <1>5 DEF Map, Full, Newer
  <2>2. Cardinality(DOMAIN seen) <= Cardinality(Newer(e)) /\ Cardinality(DOMAIN seen) = MaxDedupe
    BY <1>4, <1>5, <2>1, FS_Subset DEF Full
  <2> QED BY <1>1, <1>4, <2>2
<1>6. CASE e \in ExactEvents
  <2>1. KeyOf(e) = e /\ e \notin DOMAIN exactIds
    BY <1>6 DEF Duplicate, KeyOf
  <2>2. Full(exactIds, recorded[e])
    BY <1>6, <2>1 DEF DedupeInv, Remembered
  <2> QED BY <1>5, <1>6, <2>1, <2>2 DEF DedupeInv
<1>7. CASE e \notin ExactEvents
  <2>1. KeyOf(e) = WeakKey(e) /\ KeyOf(e) \notin DOMAIN Pruned(weakKeys)
    BY <1>7 DEF Duplicate, KeyOf
  <2>2. ~(now - recorded[KeyOf(e)] > WeakTTL)
    <3>1. recorded[KeyOf(e)] \in Nat
      BY DEF DedupeInv, Stamped
    <3> QED BY <1>1, <1>7, <3>1, LedgerAssumption DEF Prompt
  <2>3. Map(Pruned(weakKeys), recorded) /\ Remembered(Pruned(weakKeys), recorded, KeyOf(e))
    BY <1>1, <1>2, <2>1, <2>2, PruneRemembers DEF DedupeInv
  <2>4. \A k \in DOMAIN Pruned(weakKeys) : k \in WeakKeys
    BY DEF Pruned, Restrict, DedupeInv
  <2> QED BY <1>3, <1>5, <1>7, <2>1, <2>3, <2>4 DEF Remembered
<1> QED BY <1>6, <1>7

\* Counts: an event is delivered.
LEMMA DeliverCounts ==
  ASSUME Types, Types', DedupeInv, SeenInv, SeenInv', CountInv, NEW e \in Events, Deliver(e), Prompt(e)
  PROVE  CountInv'
<1> USE DEF CountInv
<1>1. e \in Requested /\ UNCHANGED <<now, request, host>>
  BY DEF Deliver, hostVars, Requested
<1>2. [Next]_vars
  BY DEF Next
<1>3. \A d \in Events : KeyOf(d)' = KeyOf(d)
  BY <1>1 DEF KeyOf, WeakKey
<1>4. \A a \in Accounts, o \in Outcomes : Served(a, o)' = Served(a, o)
  BY <1>1 DEF Served, Requested
<1>5. CASE Duplicate(e)
  <2>1. UNCHANGED <<usage, recorded>>
    BY <1>5 DEF Deliver
  <2>2. \A a \in Accounts, o \in Outcomes : KeysOf(a, o)' = KeysOf(a, o)
    BY <1>3, <1>4, <2>1 DEF KeysOf, Served, Requested
  <2> QED BY <1>1, <1>4, <2>1, <2>2
<1>6. CASE ~Duplicate(e)
  <2> DEFINE key  == KeyOf(e)
             acct == request[e].acct
             out  == request[e].outcome
  <2>1. key \notin DOMAIN recorded
    BY <1>1, <1>6, NewKey
  <2>2. recorded' = Record(recorded, key) /\ usage' = [usage EXCEPT ![acct] = Counted(@, e)]
    BY <1>6 DEF Deliver, KeyOf
  <2>3. DOMAIN recorded' = DOMAIN recorded \cup {key}
    BY <2>2 DEF Record
  <2>4. request[e] \in Requests /\ acct \in Accounts /\ out \in Outcomes /\ e \in Served(acct, out)
    BY <1>1 DEF Types, Requests, Served, Requested
  <2>5. ASSUME NEW a \in Accounts, NEW o \in Outcomes
        PROVE  usage'[a].count[o] <= Cardinality(KeysOf(a, o)')
    <3>1. /\ Cardinality(KeysOf(a, o)) \in Nat /\ Cardinality(KeysOf(a, o)') \in Nat
          /\ IsFiniteSet(KeysOf(a, o))
          /\ Cardinality(KeysOf(a, o)) <= Cardinality(KeysOf(a, o)')
      BY <1>2, CountedFinite, KeysGrow
    <3>2. usage[a].count \in Counts /\ usage[a].count[o] \in Nat
      BY DEF Types, Periods, Counts
    <3>3. CASE a = acct /\ o = out
      <4>1. usage'[a].count[o] = usage[a].count[o] + 1
        BY <2>2, <2>4, <3>2, <3>3 DEF Counted, Types, Counts
      <4>2. KeysOf(a, o)' = KeysOf(a, o) \cup {key} /\ key \notin KeysOf(a, o)
        BY <1>3, <1>4, <2>1, <2>3, <2>4, <3>3 DEF KeysOf, Served, Requested
      <4>3. Cardinality(KeysOf(a, o)') = Cardinality(KeysOf(a, o)) + 1
        BY <3>1, <4>2, FS_AddElement
      <4> QED BY <3>1, <3>2, <4>1, <4>3
    <3>4. CASE ~(a = acct /\ o = out)
      <4>1. usage'[a].count[o] = usage[a].count[o]
        BY <2>2, <2>4, <3>2, <3>4 DEF Counted, Types, Counts
      <4> QED BY <3>1, <3>2, <4>1
    <3> QED BY <3>3, <3>4
  <2> QED BY <1>1, <1>4, <2>5
<1> QED BY <1>5, <1>6

\* The host counts what it serves.
LEMMA ServeCounts ==
  ASSUME Types, SeenInv, SeenInv', CountInv,
         NEW e \in Events, NEW a \in Accounts, NEW o \in Outcomes, Serve(e, a, o)
  PROVE  CountInv'
<1> USE DEF CountInv
<1>1. /\ request[e] = NoRequest /\ UNCHANGED <<usage, recorded>>
      /\ request' = [request EXCEPT ![e] = [acct |-> a, outcome |-> o, at |-> now]]
      /\ host' = [host EXCEPT ![a][o] = @ + 1]
  BY DEF Serve, dedupeVars
<1>2. [Next]_vars
  BY DEF Next, HostStep
<1>3. [acct |-> a, outcome |-> o, at |-> now] # NoRequest
  BY DEF Types, Times, NoRequest
<1>4. \A b \in Accounts, q \in Outcomes :
        Served(b, q)' = IF b = a /\ q = o THEN Served(b, q) \cup {e} ELSE Served(b, q)
  BY <1>1, <1>3 DEF Served, Requested, Types
<1>5. \A b \in Accounts, q \in Outcomes : e \notin Served(b, q)
  BY <1>1 DEF Served, Requested
<1>6. ASSUME NEW b \in Accounts, NEW q \in Outcomes
      PROVE  host'[b][q] = HostLifetime + Cardinality(Served(b, q)')
  <2>1. IsFiniteSet(Served(b, q)) /\ Cardinality(Served(b, q)) \in Nat
    BY CountedFinite
  <2>2. host[b] \in Counts /\ host[b][q] = HostLifetime + Cardinality(Served(b, q))
    BY DEF Types
  <2>3. CASE b = a /\ q = o
    <3>1. Cardinality(Served(b, q)') = Cardinality(Served(b, q)) + 1
      BY <1>4, <1>5, <2>1, <2>3, FS_AddElement
    <3>2. host'[b][q] = host[b][q] + 1
      BY <1>1, <2>2, <2>3 DEF Types, Counts
    <3> QED BY <2>1, <2>2, <3>1, <3>2, LedgerAssumption
  <2>4. CASE ~(b = a /\ q = o)
    <3>1. host'[b][q] = host[b][q]
      BY <1>1, <2>2, <2>4 DEF Types, Counts
    <3> QED BY <1>4, <2>2, <2>4, <3>1
  <2> QED BY <2>3, <2>4
<1>7. ASSUME NEW b \in Accounts, NEW q \in Outcomes
      PROVE  usage'[b].count[q] <= Cardinality(KeysOf(b, q)')
  <2>1. /\ Cardinality(KeysOf(b, q)) \in Nat /\ usage[b].count[q] \in Nat
        /\ usage[b].count[q] <= Cardinality(KeysOf(b, q))
    BY CountedFinite DEF Types, Periods, Counts
  <2>2. /\ Cardinality(KeysOf(b, q)) <= Cardinality(KeysOf(b, q)')
        /\ Cardinality(KeysOf(b, q)') \in Nat
    BY <1>2, KeysGrow
  <2> QED BY <1>1, <2>1, <2>2
<1> QED BY <1>6, <1>7

\* Counts: every step.
LEMMA CountStep ==
  ASSUME Types, Types', DedupeInv, SeenInv, SeenInv', CountInv, [PromptNext]_vars
  PROVE  CountInv'
<1>1. ASSUME NEW e \in Events, Deliver(e), vars' # vars  PROVE CountInv'
  BY <1>1, DeliverCounts DEF PromptNext
<1>2. ASSUME NEW e \in Events, NEW a \in Accounts, NEW o \in Outcomes, Serve(e, a, o)  PROVE CountInv'
  BY <1>2, ServeCounts
<1>3. CASE /\ UNCHANGED <<request, host, recorded>>
           /\ \A a \in Accounts : usage'[a].count \in {usage[a].count, Zero}
  <2>1. \A a \in Accounts, o \in Outcomes : Served(a, o)' = Served(a, o) /\ KeysOf(a, o)' = KeysOf(a, o)
    BY <1>3 DEF Served, Requested, KeysOf, KeyOf, WeakKey
  <2>2. ASSUME NEW a \in Accounts, NEW o \in Outcomes
        PROVE  usage'[a].count[o] <= Cardinality(KeysOf(a, o)')
    <3>1. Cardinality(KeysOf(a, o)) \in Nat  BY CountedFinite
    <3>2. usage[a].count[o] <= Cardinality(KeysOf(a, o))  BY DEF CountInv
    <3>3. usage'[a].count[o] \in {usage[a].count[o], 0}  BY <1>3 DEF Zero
    <3> QED BY <2>1, <3>1, <3>2, <3>3
  <2> QED BY <1>3, <2>1, <2>2 DEF CountInv
<1>4. ASSUME NEW k \in Panels, ListFiles(k) \/ PlanBind(k) \/ BindBaselines(k) \/ View(k)
      PROVE  CountInv'
  <2>1. \A a \in Accounts : usage'[a].count = usage[a].count
    BY <1>4 DEF ListFiles, PlanBind, BindBaselines, Bind, View, Types, Periods
  <2> QED BY <1>3, <1>4, <2>1 DEF ListFiles, PlanBind, BindBaselines, Bind, View, hostVars, dedupeVars
<1>5. ASSUME NEW b \in Accounts, ClearState(b)  PROVE CountInv'
  <2>1. \A a \in Accounts : usage'[a].count \in {usage[a].count, Zero}
    BY <1>5 DEF ClearState, Types, NoUsage
  <2> QED BY <1>3, <1>5, <2>1 DEF ClearState, hostVars, dedupeVars
<1>6. CASE ResetAccounts
  <2>1. \A a \in Accounts : usage'[a].count \in {usage[a].count, Zero}
    BY <1>6 DEF ResetAccounts, ResetUsage, Types
  <2> QED BY <1>3, <1>6, <2>1 DEF ResetAccounts, hostVars, dedupeVars
<1>7. CASE \/ Tick \/ \E r \in ResetTimes \cup {NoReset} : SetDailyReset(r)
           \/ ResetCheck \/ Restart \/ UNCHANGED vars
  BY <1>3, <1>7 DEF Tick, SetDailyReset, ResetCheck, Restart, vars, hostVars, dedupeVars
<1> QED BY <1>1, <1>2, <1>4, <1>5, <1>6, <1>7 DEF PromptNext, Next, HostStep, PanelStep

\* Before anything is served nothing is counted.
LEMMA InitCounts == Init => SeenInv /\ CountInv
<1> SUFFICES ASSUME Init PROVE SeenInv /\ CountInv
  OBVIOUS
<1>1. DOMAIN recorded = {} /\ Requested = {}
  BY DEF Init, Requested
<1>2. \A a \in Accounts, o \in Outcomes : Served(a, o) = {} /\ KeysOf(a, o) = {}
  BY <1>1 DEF Served, KeysOf
<1>3. IsFiniteSet({}) /\ Cardinality({}) = 0
  BY FS_EmptySet
<1>4. ASSUME NEW a \in Accounts, NEW o \in Outcomes
      PROVE  /\ host[a][o] = HostLifetime + Cardinality(Served(a, o))
             /\ usage[a].count[o] <= Cardinality(KeysOf(a, o))
  <2>1. host[a][o] = HostLifetime /\ usage[a].count[o] = 0
    BY DEF Init, NoUsage, Zero
  <2>2. Cardinality(Served(a, o)) = 0 /\ Cardinality(KeysOf(a, o)) = 0
    BY <1>2, <1>3
  <2> QED BY <2>1, <2>2, LedgerAssumption
<1> QED BY <1>1, <1>3, <1>4 DEF SeenInv, CountInv

\* Counts that are no larger than what was served are real.
LEMMA CountsAreReal ==
  ASSUME Types, SeenInv, CountInv, HostsInv
  PROVE  ShownIsReal
<1> SUFFICES ASSUME NEW a \in Accounts, NEW o \in Outcomes
             PROVE  /\ usage[a].count[o] <= host[a][o] - HostLifetime
                    /\ \A k \in Panels : list[k].pc = "bound" => Shown(k, a, o) <= host[a][o]
  BY DEF ShownIsReal
<1>1. /\ usage[a].count[o] \in Nat /\ host[a][o] \in Nat /\ HostLifetime \in Nat
      /\ baseline[a] # NoBaseline => baseline[a].count[o] \in Nat
  BY LedgerAssumption DEF Types, Periods, Baselines, Counts
<1>2. usage[a].count[o] <= host[a][o] - HostLifetime
  BY <1>1, CountedFinite DEF CountInv
<1>3. \A k \in Panels : list[k].pc = "bound" =>
        list[k].host[a][o] \in Nat /\ list[k].host[a][o] <= host[a][o]
  BY DisplayTypes DEF HostsInv
<1> QED BY <1>1, <1>2, <1>3 DEF Shown, Larger, Max0

\* However many events there are and however long it runs: as long as what is
\* delivered again is prompt, the plugin counts no request twice and shows none
\* that the host did not serve.
THEOREM NothingCountedTwice == PromptSpec => []ShownIsReal
<1>1. Init => DedupeInv /\ SeenInv /\ CountInv
  BY InitDedupe, InitCounts
<1>2. Types /\ Types' /\ DedupeInv /\ [Next]_vars => DedupeInv'
  BY DedupeStep
<1>3. Types /\ SeenInv /\ [Next]_vars => SeenInv'
  BY SeenStep
<1>4. Types /\ Types' /\ DedupeInv /\ SeenInv /\ SeenInv' /\ CountInv /\ [PromptNext]_vars => CountInv'
  BY CountStep
<1>5. Types /\ SeenInv /\ CountInv /\ ShownInv => ShownIsReal
  BY CountsAreReal DEF ShownInv
<1>6. LedgerInv => Types
  BY DEF LedgerInv
<1>7. [PromptNext]_vars => [Next]_vars
  BY DEF PromptNext
<1> QED BY <1>1, <1>2, <1>3, <1>4, <1>5, <1>6, <1>7, LedgerAlways, ShownAlways, PTL DEF Spec, PromptSpec
=============================================================================
