---------------------------- MODULE AuthDocument ----------------------------
(***************************************************************************)
(* The auth document of one account and everybody who rewrites it.         *)
(*                                                                         *)
(* The host offers get and save of whole documents and no condition on a   *)
(* save, so every write of the plugin is read-modify-write under the mutex *)
(* AccountsService.write.  Resign is three steps: it reads the refresh     *)
(* token, asks the token endpoint WITHOUT the mutex, and takes the mutex   *)
(* again to read the document afresh and save the answer.  The host itself *)
(* and the panel (through the Management API) edit the file at any time.   *)
(*                                                                         *)
(* Accounts share nothing but the mutex: one is enough here.  What a       *)
(* status owes the priority is in AlivePriority; this module is about the  *)
(* document: whose fields survive, whose tokens are kept, and which token  *)
(* the recorded status was measured with, whoever recorded it: probes,     *)
(* resigns, reports of requests, queued heals and the panel.               *)
(***************************************************************************)
EXTENDS AuthLayout

CONSTANTS
  Procs,         \* goroutines inside AccountsService
  NoProc,        \* the value of `write' when the mutex is free
  Layouts,       \* documents the account may start with
  Modes,         \* how the services around the plugin may behave, see mode
  ProbeResults,  \* outcomes of a probe
  Prio,          \* settings.priority_* per status
  MaxTokens      \* bound: tokens the endpoint issues

\* host: a host call fails.  deaf: the host acknowledges a save and ignores it.
\* network: the answer of the endpoint is lost.  edit: the file is patched
\* through the Management API.  refresh: the host refreshes the tokens itself.
\* restart: the process dies and is started again.  report: a request of the host
\* succeeds and is reported.  panel: the panel posts quota rows and clears state.
Disturbances == {"host", "deaf", "network", "edit", "refresh", "restart", "report", "panel"}

Statuses == ProbeResults \cup {"unknown", "error", "live"}

ASSUME DocumentAssumption ==
  /\ NoProc \notin Procs
  /\ Modes \subseteq [rotates : BOOLEAN, managed : BOOLEAN, allows : SUBSET Disturbances]
  /\ Prio \in [Statuses -> Int]
  /\ "unknown" \notin ProbeResults
  /\ MaxTokens \in Nat

\* The documents an account may start with hold tokens numbered zero, and its
\* refresh token is the one the endpoint accepts.
ASSUME LayoutsAssumption ==
  /\ Layouts \subseteq Document
  /\ \A doc \in Layouts :
       /\ \A p \in Places : doc.at[p].access <= 0 /\ doc.at[p].refresh <= 0
       /\ TokenField(doc, "refresh") = 0

VARIABLES
  mode,      \* rotates: each answer of the endpoint brings a new refresh token
             \* and ends the old one; if not, the first one is good for ever.
             \* managed: a PriorityWriter is set, the host patches priorities.
             \* allows: the disturbances that may happen
  file,      \* host: the auth document
  issued,    \* endpoint: number of the last token it issued
  newest,    \* endpoint: the refresh token it accepts
  status,    \* store: quota.probe_status
  draft,     \* panel: its copy of a quota row, to be posted with a new plan
  write,     \* holder of AccountsService.write, or NoProc
  pc,        \* process -> the step it is at
  op,        \* process -> what its operation has read and wants
  probed,    \* history: the access token the status was measured with
  raced,     \* history: process -> what was changed behind the document it holds
  lost,      \* history: the newest refresh token was dropped, see Dropped
  stale      \* history: the status is known to be about another token

vars == <<mode, file, issued, newest, status, draft, write, pc, op, probed, raced, lost, stale>>

endpoint == <<mode, issued, newest>>
history  == <<probed, raced, lost, stale>>

NoGrant == [access |-> Absent, refresh |-> Absent]

Fields == {"tokens", "disabled", "priority"}

\* Steps under the mutex; those with a document in the hand; those that have an
\* answer of the endpoint that is not saved yet.
Held    == {"list", "get", "save", "verify", "status", "getPriority", "savePriority", "patch"}
Steps   == {"idle", "refresh", "http", "lock"} \cup Held
Holding == {"save", "savePriority"}
Unsaved == {"lock", "list", "get", "save"}

NoDocument == [at |-> [p \in Places |-> Nothing], text |-> FALSE,
               disabled |-> FALSE, priority |-> 0]

Kinds == {"none", "resign", "probe", "heal", "enable", "disable", "sync"}

Operation == [kind : Kinds, token : Int, before : Int, grant : Holder, doc : Document,
              want : Statuses]

\* An operation when it starts: token and `before' are what it has read by then.
Fresh(kind, token, before, want) ==
  [kind |-> kind, token |-> token, before |-> before, grant |-> NoGrant,
   doc |-> NoDocument, want |-> want]

NoOp == Fresh("none", Absent, Absent, "unknown")

\* A copy of the status, with the token it was measured with.
NoDraft == [status |-> "none", token |-> Absent]

HasGrant(p) == pc[p] \in Unsaved /\ op[p].kind = "resign" /\ op[p].grant.refresh # Absent

Init ==
  /\ mode \in Modes
  /\ file \in Layouts
  /\ issued = 0
  /\ newest = 0
  /\ status = "unknown"
  /\ draft = NoDraft
  /\ write = NoProc
  /\ pc = [p \in Procs |-> "idle"]
  /\ op = [p \in Procs |-> NoOp]
  /\ probed = Absent
  /\ raced = [p \in Procs |-> {}]
  /\ lost = FALSE
  /\ stale = FALSE

Goto(p, step) == pc' = [pc EXCEPT ![p] = step]

\* A status is recorded that was measured with that token.
Record(s, token) ==
  /\ status' = s
  /\ probed' = token
  /\ stale' = (token # ProbeToken(file))

-----------------------------------------------------------------------------
(* Resign: prepareResign and the request to the endpoint.                  *)

\* One step: the document is read once, under the mutex.  Without a refresh
\* token, or when the host fails, the operation ends here.
PrepareResign(p) ==
  /\ pc[p] = "idle"
  /\ write = NoProc
  /\ TokenField(file, "refresh") # Absent
  /\ op' = [op EXCEPT ![p] = Fresh("resign", TokenField(file, "refresh"),
                                   TokenField(file, "access"), "unknown")]
  /\ Goto(p, "refresh")
  /\ UNCHANGED <<file, endpoint, status, draft, write, history>>

\* The endpoint accepts the token and issues the next ones.
Issue ==
  /\ issued < MaxTokens
  /\ mode' = mode
  /\ issued' = issued + 1
  /\ newest' = IF mode.rotates THEN issued + 1 ELSE newest

Refresh(p) ==
  /\ pc[p] = "refresh"
  /\ op[p].token = newest
  /\ Issue
  /\ op' = [op EXCEPT ![p].grant = [access |-> issued + 1,
                                    refresh |-> IF mode.rotates THEN issued + 1 ELSE Absent]]
  /\ Goto(p, "lock")
  /\ UNCHANGED <<file, status, draft, write, history>>

\* The endpoint refuses, or the request never reaches it.
RefreshFails(p) ==
  /\ pc[p] = "refresh"
  /\ Goto(p, "idle")
  /\ op' = [op EXCEPT ![p] = NoOp]
  /\ UNCHANGED <<file, endpoint, status, draft, write, history>>

\* It accepts, and the answer does not arrive in time.
AnswerLost(p) ==
  /\ "network" \in mode.allows
  /\ pc[p] = "refresh"
  /\ op[p].token = newest
  /\ Issue
  /\ Goto(p, "idle")
  /\ op' = [op EXCEPT ![p] = NoOp]
  /\ lost' = (lost \/ mode.rotates)
  /\ UNCHANGED <<file, status, draft, write, probed, raced, stale>>

-----------------------------------------------------------------------------
(* The other operations up to the mutex.                                   *)

\* Mutant of StartProbe: the request is sent without looking for a token.
StartProbeAtOnce(p) ==
  /\ pc[p] = "idle"
  /\ op' = [op EXCEPT ![p] = Fresh("probe", ProbeToken(file), Absent, "error")]
  /\ Goto(p, "http")
  /\ UNCHANGED <<file, endpoint, status, draft, write, history>>

\* ProbeAccount reads the token without the mutex; so does the panel's probe.
\* A document without a token, or one the host does not deliver, is answered
\* with "error" at once.
StartProbe(p) ==
  /\ pc[p] = "idle"
  /\ \E token \in {ProbeToken(file)} \cup (IF "host" \in mode.allows THEN {Absent} ELSE {}) :
       /\ op' = [op EXCEPT ![p] = Fresh("probe", token, Absent, "error")]
       /\ Goto(p, IF token = Absent THEN "lock" ELSE "http")
  /\ UNCHANGED <<file, endpoint, status, draft, write, history>>

ProbeAnswer(p, result) ==
  /\ pc[p] = "http"
  /\ op' = [op EXCEPT ![p].want = result]
  /\ Goto(p, "lock")
  /\ UNCHANGED <<file, endpoint, status, draft, write, history>>

\* SetEnabled (kind enable or disable) and SyncPriority.
StartWrite(p, kind) ==
  /\ pc[p] = "idle"
  /\ op' = [op EXCEPT ![p] = Fresh(kind, Absent, Absent, "unknown")]
  /\ Goto(p, "lock")
  /\ UNCHANGED <<file, endpoint, status, draft, write, history>>

\* A report of a request that succeeded with that token, however late: an account
\* that is not live is live now, whoever holds the mutex, and the priority worker
\* is asked to heal it.  The worker's request waits in its queue as it waits for
\* the mutex, so it is process p; a request that finds the queue full is dropped.
HandleSuccess(p, token) ==
  /\ "report" \in mode.allows
  /\ pc[p] = "idle"
  /\ status # "live"
  /\ Record("live", token)
  /\ \/ /\ op' = [op EXCEPT ![p] = Fresh("heal", token, Absent, "live")]
        /\ Goto(p, "lock")
     \/ UNCHANGED <<op, pc>>
  /\ UNCHANGED <<file, endpoint, draft, write, raced, lost>>

\* Mutant of Lock: the operation does not wait for the mutex.
LockWithoutWaiting(p) ==
  /\ pc[p] = "lock"
  /\ write' = p
  /\ Goto(p, "list")
  /\ UNCHANGED <<file, endpoint, status, draft, op, history>>

Lock(p) ==
  /\ pc[p] = "lock"
  /\ write = NoProc
  /\ write' = p
  /\ Goto(p, "list")
  /\ UNCHANGED <<file, endpoint, status, draft, op, history>>

-----------------------------------------------------------------------------
(* Under the mutex.                                                        *)

Return(p) ==
  /\ Goto(p, "idle")
  /\ write' = NoProc
  /\ op' = [op EXCEPT ![p] = NoOp]

Continue(p, step) ==
  /\ Goto(p, step)
  /\ UNCHANGED <<write, op>>

ToPriority == IF mode.managed THEN "patch" ELSE "getPriority"

\* Each operation lists the files again; SetEnabled returns when there is
\* nothing to do, SyncPriority goes by the status recorded now.
ListAgain(p) ==
  /\ pc[p] = "list"
  /\ \/ /\ op[p].kind \in {"enable", "disable"}
        /\ IF file.disabled = (op[p].kind = "disable") THEN Return(p) ELSE Continue(p, "get")
     \/ op[p].kind = "resign" /\ Continue(p, "get")
     \/ op[p].kind \in {"probe", "heal"} /\ Continue(p, "status")
     \/ /\ op[p].kind = "sync"
        /\ op' = [op EXCEPT ![p].want = status]
        /\ Goto(p, ToPriority)
        /\ UNCHANGED write
  /\ UNCHANGED <<file, endpoint, status, draft, history>>

\* host.auth.get: from here on the operation works on its copy.
GetDocument(p) ==
  /\ pc[p] \in {"get", "getPriority"}
  /\ op' = [op EXCEPT ![p].doc = file]
  /\ raced' = [raced EXCEPT ![p] = {}]
  /\ Goto(p, IF pc[p] = "get" THEN "save" ELSE "savePriority")
  /\ UNCHANGED <<file, endpoint, status, draft, write, probed, lost, stale>>

\* What the save of a process writes, and the fields it is meant to change.
Written(p) ==
  IF pc[p] = "savePriority" THEN WithPriority(op[p].doc, Prio[op[p].want])
  ELSE IF op[p].kind = "resign" THEN WithTokens(op[p].doc, op[p].grant)
  ELSE WithDisabled(op[p].doc, op[p].kind = "disable")

Own(p) ==
  IF pc[p] = "savePriority" THEN "priority"
  ELSE IF op[p].kind = "resign" THEN "tokens" ELSE "disabled"

\* Tokens that were refreshed behind the document go with a save of others.
Dropped(p) == "tokens" \in raced[p] /\ Own(p) # "tokens"

\* host.auth.save.  The list that follows a save of `disabled' or the priority
\* decides no more than what is reported.
SaveDocument(p) ==
  /\ pc[p] \in Holding
  /\ file' = Written(p)
  /\ lost' = (lost \/ Dropped(p))
  /\ stale' = (stale \/ Dropped(p))
  /\ raced' = [raced EXCEPT ![p] = {}]
  /\ IF Own(p) = "tokens" THEN Continue(p, "verify") ELSE Return(p)
  /\ UNCHANGED <<endpoint, status, draft, probed>>

SaveIgnored(p) ==
  /\ "deaf" \in mode.allows
  /\ pc[p] \in Holding
  /\ lost' = (lost \/ HasGrant(p))
  /\ raced' = [raced EXCEPT ![p] = {}]
  /\ IF Own(p) = "tokens" THEN Continue(p, "verify") ELSE Return(p)
  /\ UNCHANGED <<file, endpoint, status, draft, probed, stale>>

\* Mutant of VerifyResign: a committed resign returns without ApplyAliveStatus.
VerifyOnly(p) ==
  /\ pc[p] = "verify"
  /\ Return(p)
  /\ UNCHANGED <<file, endpoint, status, draft, history>>

\* The write-back check; when the host does not answer it is skipped.
VerifyResign(p) ==
  /\ pc[p] = "verify"
  /\ \/ /\ \/ TokenField(file, "access") # op[p].before
           \/ op[p].before = Absent
           \/ "host" \in mode.allows
        /\ Continue(p, "status")
     \/ /\ TokenField(file, "access") = op[p].before
        /\ op[p].before # Absent
        /\ Return(p)
  /\ UNCHANGED <<file, endpoint, status, draft, history>>

\* The store updates of ApplyProbeResult and applyAliveStatusLocked; a heal leaves
\* an account alone that is live.  Nothing is written to the host when the
\* priority is right already.
SetStatus(p) ==
  /\ pc[p] = "status"
  /\ IF op[p].kind = "heal" /\ status = "live" THEN UNCHANGED <<status, probed, stale>>
     ELSE Record(op[p].want, IF op[p].kind = "resign" THEN ProbeToken(file) ELSE op[p].token)
  /\ IF file.priority = Prio[op[p].want] THEN Return(p) ELSE Continue(p, ToPriority)
  /\ UNCHANGED <<file, endpoint, draft, raced, lost>>

\* The fields PATCH of the PriorityWriter: the host changes one field itself.
PatchPriority(p) ==
  /\ pc[p] = "patch"
  /\ file' = WithPriority(file, Prio[op[p].want])
  /\ Return(p)
  /\ UNCHANGED <<endpoint, status, draft, history>>

\* The operation ends with an error.  An answer that is not saved is gone, and a
\* saved one whose status was not reset leaves the status of the old token.
OpFails(p) ==
  /\ "host" \in mode.allows
  /\ pc[p] \in Held \ {"verify"}
  /\ lost' = (lost \/ HasGrant(p))
  /\ stale' = (stale \/ (pc[p] = "status" /\ op[p].kind = "resign"))
  /\ raced' = [raced EXCEPT ![p] = {}]
  /\ Return(p)
  /\ UNCHANGED <<file, endpoint, status, draft, probed>>

-----------------------------------------------------------------------------
(* The environment.                                                        *)

\* A change of the file by somebody else, while documents are in hands.
Behind(field) ==
  raced' = [p \in Procs |-> IF pc[p] \in Holding THEN raced[p] \cup {field} ELSE raced[p]]

EditDisabled ==
  /\ "edit" \in mode.allows
  /\ file' = WithDisabled(file, ~file.disabled)
  /\ Behind("disabled")
  /\ UNCHANGED <<endpoint, status, draft, write, pc, op, probed, lost, stale>>

EditPriority(s) ==
  /\ "edit" \in mode.allows
  /\ file' = WithPriority(file, Prio[s])
  /\ Behind("priority")
  /\ UNCHANGED <<endpoint, status, draft, write, pc, op, probed, lost, stale>>

\* The host refreshes the tokens wherever its document has some.
HostRefresh ==
  /\ "refresh" \in mode.allows
  /\ TokenField(file, "refresh") = newest
  /\ Issue
  /\ file' = [at |-> [p \in Places |->
                [access  |-> IF file.at[p].access >= 0 THEN issued + 1 ELSE file.at[p].access,
                 refresh |-> IF file.at[p].refresh >= 0 THEN newest' ELSE file.at[p].refresh]],
              text |-> file.text, disabled |-> file.disabled, priority |-> file.priority]
  /\ Behind("tokens")
  /\ stale' = TRUE
  /\ UNCHANGED <<status, draft, write, pc, op, probed, lost>>

\* The panel copies a row, and posts the copy with the plan it has asked for; the
\* post replaces the whole row, without the mutex.
DraftQuota ==
  /\ "panel" \in mode.allows
  /\ draft' = [status |-> status, token |-> probed]
  /\ UNCHANGED <<file, endpoint, status, write, pc, op, history>>

SaveQuota ==
  /\ draft # NoDraft
  /\ Record(draft.status, draft.token)
  /\ draft' = NoDraft
  /\ UNCHANGED <<file, endpoint, write, pc, op, raced, lost>>

\* The panel deletes what is stored of the account.
ClearState ==
  /\ "panel" \in mode.allows
  /\ status' = "unknown"
  /\ UNCHANGED <<file, endpoint, draft, write, pc, op, history>>

Restart ==
  /\ "restart" \in mode.allows
  /\ pc' = [p \in Procs |-> "idle"]
  /\ op' = [p \in Procs |-> NoOp]
  /\ raced' = [p \in Procs |-> {}]
  /\ write' = NoProc
  /\ lost' = (lost \/ \E p \in Procs : HasGrant(p))
  /\ stale' = (stale \/ \E p \in Procs : pc[p] \in {"verify", "status"} /\ op[p].kind = "resign")
  /\ UNCHANGED <<file, endpoint, status, draft, probed>>

-----------------------------------------------------------------------------
OpStep(p) ==
  \/ PrepareResign(p) \/ Refresh(p) \/ RefreshFails(p) \/ AnswerLost(p)
  \/ StartProbe(p) \/ (\E result \in ProbeResults \cup {"error"} : ProbeAnswer(p, result))
  \/ (\E kind \in {"enable", "disable", "sync"} : StartWrite(p, kind))
  \/ (\E token \in 0..issued : HandleSuccess(p, token))
  \/ Lock(p) \/ ListAgain(p) \/ GetDocument(p) \/ SaveDocument(p) \/ SaveIgnored(p)
  \/ VerifyResign(p) \/ SetStatus(p) \/ PatchPriority(p) \/ OpFails(p)

HostStep == EditDisabled \/ (\E s \in Statuses : EditPriority(s)) \/ HostRefresh

PanelStep == DraftQuota \/ SaveQuota \/ ClearState

Next == (\E p \in Procs : OpStep(p)) \/ HostStep \/ PanelStep \/ Restart

Spec == Init /\ [][Next]_vars

-----------------------------------------------------------------------------
(* Properties.                                                             *)

\* Nothing is sent to the endpoint or to the probed service without a token.
TypeOK ==
  /\ mode \in Modes
  /\ file \in Document
  /\ issued \in Nat /\ newest \in 0..issued
  /\ status \in Statuses
  /\ draft \in [status : Statuses, token : Int] \cup {NoDraft}
  /\ write \in Procs \cup {NoProc}
  /\ pc \in [Procs -> Steps]
  /\ op \in [Procs -> Operation]
  /\ probed \in Int
  /\ raced \in [Procs -> SUBSET Fields]
  /\ lost \in BOOLEAN /\ stale \in BOOLEAN
  /\ \A p \in Procs : pc[p] \in {"refresh", "http"} => op[p].token >= 0

\* The refresh token the endpoint accepts is never lost between two writers: it
\* is in the file where the next resign reads it, or a resign that has not
\* saved its answer yet holds it.  It can go only with an answer that did not
\* arrive, a failed or ignored save, a restart before the save, or a refresh by
\* the host that falls between somebody's get and save ("接受 LWW",
\* 09-risks-and-open-questions.md).
RefreshTokenKept ==
  lost \/ TokenField(file, "refresh") = newest \/ \E p \in Procs : HasGrant(p)

\* Only the fields of an operation change when it saves the whole document it
\* holds; anything else it can overwrite was changed by the host or through the
\* Management API after its get, never by another operation of the plugin.
Field(doc, field) == IF field = "tokens" THEN doc.at
                     ELSE IF field = "disabled" THEN doc.disabled ELSE doc.priority

OnlyOwnFields ==
  [][\A p \in Procs : pc[p] \in Holding /\ pc'[p] # pc[p] =>
       \A field \in Fields \ ({Own(p)} \cup raced[p]) :
         Field(file', field) = Field(file, field)]_vars

\* After a resign has saved, whatever the layout of the document: resign, bot
\* flag and probe read the new access token, the next resign reads the new
\* refresh token or, when the answer had none, the one it read before, and no
\* object of the document keeps an old access token (the comment on
\* applyTokenRefresh; a `json' string is not an object and is left alone).
ResignIsReadable ==
  [][\A p \in Procs : pc[p] = "save" /\ pc'[p] = "verify" /\ file' # file =>
       LET grant == op[p].grant IN
       /\ TokenField(file', "access") = grant.access
       /\ BotFlagToken(file') = grant.access
       /\ ProbeToken(file') = grant.access
       /\ TokenField(file', "refresh") =
            IF grant.refresh = Absent THEN TokenField(op[p].doc, "refresh") ELSE grant.refresh
       /\ \A q \in Places : file'.at[q].access \in {Absent, grant.access}
                            \/ (file.text /\ q \in Inner)]_vars

\* A recorded status was measured with the access token that is in the file: a
\* resign takes the status of the old token away before it lets go of the
\* mutex, whoever recorded it and when.  `stale' names the exceptions: a probe or
\* a request that was sent with the old token and is answered late, the heal that
\* it asked for, a row the panel copied before, a refresh by the host, and a
\* resign that is cut off between its save and its status.
StatusIsCurrent ==
  \/ stale \/ status = "unknown" \/ probed = ProbeToken(file)
  \/ \E p \in Procs : op[p].kind = "resign" /\ pc[p] \in {"verify", "status"}
=============================================================================
