---------------------------- MODULE AuthDocumentProofs ----------------------
(***************************************************************************)
(* Proofs about the auth document, for every layout, every set of          *)
(* processes and any number of tokens.                                     *)
(*                                                                         *)
(* The argument goes in layers, each an inductive invariant on top of the  *)
(* one before:                                                             *)
(*   SafeInv    types; the mutex is held by the process that is at a step  *)
(*              under it (Shape); the copy an operation holds differs from *)
(*              the file only in the fields that were changed behind it    *)
(*              (Hand).  OnlyOwnFields follows.                            *)
(*   TokensInv  tokens are numbered in the order they were issued, and an  *)
(*              answer that is not saved yet is newer than every token in  *)
(*              a document (Tokens).  ResignIsReadable follows, with the   *)
(*              lemma GrantIsRead about readers and writer.                *)
(*   Current    the status was measured with the token in the file.        *)
(*   Rooted     where tokens do not rotate, the only refresh token stays   *)
(*              readable.  RefreshTokenKept follows.                       *)
(***************************************************************************)
EXTENDS AuthDocument, WellFoundedInduction, TLAPS

-----------------------------------------------------------------------------
(* The readers and the writer of AuthLayout.                               *)

TokenFields == {"access", "refresh"}

NatLess == {ss \in Nat \X Nat : ss[1] < ss[2]}

\* The order of the places is well-founded: a library fact, without the library's
\* operator on operators.
LEMMA NatLessWellFounded == IsWellFoundedOn(NatLess, Nat)
<1>1. NatLess = OpToRel(<, Nat)
  BY DEF OpToRel, NatLess
<1> QED BY <1>1, NatLessThanWellFounded

\* A set of numbers has a smallest one.
LEMMA Smallest ==
  ASSUME NEW S \in SUBSET Nat, S # {}
  PROVE  \E p \in S : \A q \in S : p <= q
<1>1. PICK p \in S : \A q \in S : <<q, p>> \notin NatLess
  BY NatLessWellFounded, WFMin
<1>2. \A q \in S : p <= q
  <2>1. TAKE q \in S
  <2>2. <<q, p>> \in Nat \X Nat  OBVIOUS
  <2>3. ~(q < p)  BY <1>1, <2>2 DEF NatLess
  <2> QED BY <2>3
<1> QED BY <1>2

\* The top level is the first place, and a place outside `json'.
LEMMA PlacesAreNumbers ==
  /\ Places \in SUBSET Nat /\ Outer \subseteq Places /\ Inner \subseteq Places
  /\ 1 \in Outer /\ 1 \notin Inner
  /\ \A p \in Places : 1 <= p
BY ContainersAssumption DEF Places, Outer, Inner

HasToken(S, doc, field) == \E p \in S : doc.at[p][field] >= 0

\* A reader that finds a token finds the first one.
IsFirst(p, S, doc, field) ==
  /\ p \in S
  /\ FirstIn(S, doc, field) = doc.at[p][field]
  /\ doc.at[p][field] >= 0
  /\ \A q \in S : doc.at[q][field] >= 0 => p <= q

\* A reader finds nothing where no token is.
LEMMA FirstInNone ==
  ASSUME NEW S, NEW doc, NEW field, ~HasToken(S, doc, field)
  PROVE  FirstIn(S, doc, field) = Absent
<1>1. {p \in S : doc.at[p][field] >= 0} = {}  BY DEF HasToken
<1> QED BY <1>1 DEF FirstIn

\* A reader finds the first token there is.
LEMMA FirstInSome ==
  ASSUME NEW S \in SUBSET Places, NEW doc, NEW field, HasToken(S, doc, field)
  PROVE  \E p : IsFirst(p, S, doc, field)
<1> DEFINE found == {p \in S : doc.at[p][field] >= 0}
<1>1. found \in SUBSET Nat /\ found # {}  BY PlacesAreNumbers DEF HasToken
<1>2. \E p \in found : \A q \in found : p <= q  BY <1>1, Smallest
<1> DEFINE first == CHOOSE p \in found : \A q \in found : p <= q
<1>3. first \in found /\ \A q \in found : first <= q  BY <1>2
<1>4. FirstIn(S, doc, field) = doc.at[first][field]  BY <1>1 DEF FirstIn
<1> HIDE DEF first
<1>5. IsFirst(first, S, doc, field)  BY <1>3, <1>4 DEF IsFirst
<1> QED BY <1>5

\* What a reader finds is a token or Absent.
LEMMA FirstInType ==
  ASSUME NEW S \in SUBSET Places, NEW doc \in Document, NEW field \in TokenFields
  PROVE  /\ FirstIn(S, doc, field) \in Int
         /\ FirstIn(S, doc, field) # Absent => FirstIn(S, doc, field) >= 0
<1>1. \A p \in S : doc.at[p][field] \in Int
  BY DEF Document, Holder, TokenFields
<1>2. CASE ~HasToken(S, doc, field)
  BY <1>2, FirstInNone DEF Absent
<1>3. CASE HasToken(S, doc, field)
  <2>1. PICK p : IsFirst(p, S, doc, field)  BY <1>3, FirstInSome
  <2> QED BY <1>1, <2>1 DEF IsFirst
<1> QED BY <1>2, <1>3

\* A token at the top level is found before every other one.
LEMMA TopIsFirst ==
  ASSUME NEW S \in SUBSET Places, 1 \in S, NEW doc, NEW field, doc.at[1][field] >= 0
  PROVE  FirstIn(S, doc, field) = doc.at[1][field]
<1>1. HasToken(S, doc, field)  BY DEF HasToken
<1>2. PICK p : IsFirst(p, S, doc, field)  BY <1>1, FirstInSome
<1>3. p \in Nat /\ p <= 1 /\ 1 <= p  BY <1>2, PlacesAreNumbers DEF IsFirst
<1>4. p = 1  BY <1>3
<1> QED BY <1>2, <1>4 DEF IsFirst

\* What a reader finds depends on the holders only.
LEMMA FirstInSame ==
  ASSUME NEW S, NEW doc, NEW other, NEW field, other.at = doc.at
  PROVE  FirstIn(S, other, field) = FirstIn(S, doc, field)
BY DEF FirstIn

\* What a reader finds depends on the field it looks for only.
LEMMA FirstInSameField ==
  ASSUME NEW S \in SUBSET Places, NEW doc, NEW other, NEW field,
         \A p \in S : other.at[p][field] = doc.at[p][field]
  PROVE  FirstIn(S, other, field) = FirstIn(S, doc, field)
<1>2. CASE ~HasToken(S, doc, field)
  <2>1. ~HasToken(S, other, field)  BY <1>2 DEF HasToken
  <2> QED BY <1>2, <2>1, FirstInNone
<1>3. CASE HasToken(S, doc, field)
  <2>1. HasToken(S, other, field)  BY <1>3 DEF HasToken
  <2>2. PICK p : IsFirst(p, S, doc, field)  BY <1>3, FirstInSome
  <2>3. PICK q : IsFirst(q, S, other, field)  BY <2>1, FirstInSome
  <2>4. p \in Nat /\ q \in Nat  BY <2>2, <2>3, PlacesAreNumbers DEF IsFirst
  <2>5. p <= q /\ q <= p  BY <2>2, <2>3 DEF IsFirst
  <2>6. p = q  BY <2>4, <2>5
  <2> QED BY <2>2, <2>3, <2>6 DEF IsFirst
<1> QED BY <1>2, <1>3

\* applyTokenRefresh writes documents.
LEMMA WithTokensType ==
  ASSUME NEW doc \in Document, NEW grant \in Holder
  PROVE  WithTokens(doc, grant) \in Document
<1>1. \A p \in Places : doc.at[p] \in Holder /\ SetTokens(doc.at[p], grant) \in Holder
  BY DEF Document, Holder, SetTokens
<1>2. [p \in Places |-> IF p \in Targets(doc) THEN SetTokens(doc.at[p], grant) ELSE doc.at[p]]
         \in [Places -> Holder]
  BY <1>1
<1> QED BY <1>2 DEF WithTokens, Document

\* So do the writers of the two other fields.
LEMMA WithFieldType ==
  /\ \A doc \in Document, disabled \in BOOLEAN : WithDisabled(doc, disabled) \in Document
  /\ \A doc \in Document, n \in Int : WithPriority(doc, n) \in Document
BY DEF WithDisabled, WithPriority, Document

\* What applyTokenRefresh has written, every reader reads.
LEMMA GrantIsRead ==
  ASSUME NEW doc \in Document, NEW grant \in Holder, grant.access >= 0,
         grant.refresh = Absent \/ grant.refresh >= 0
  PROVE  LET new == WithTokens(doc, grant) IN
         /\ TokenField(new, "access") = grant.access
         /\ BotFlagToken(new) = grant.access
         /\ ProbeToken(new) = grant.access
         /\ TokenField(new, "refresh") =
              IF grant.refresh = Absent THEN TokenField(doc, "refresh") ELSE grant.refresh
         /\ \A q \in Places : \/ new.at[q].access \in {Absent, grant.access}
                              \/ doc.text /\ q \in Inner
<1> DEFINE new == WithTokens(doc, grant)
<1>1. new \in Document
  BY WithTokensType
<1>2. \A q \in Places : new.at[q] = IF q \in Targets(doc) THEN SetTokens(doc.at[q], grant)
                                   ELSE doc.at[q]
  BY DEF WithTokens
<1> HIDE DEF new
<1>3. 1 \in Places /\ 1 \in Outer /\ 1 \in Targets(doc)
  BY PlacesAreNumbers DEF Targets
<1>4. ASSUME NEW q \in Targets(doc), q \in Places
      PROVE  /\ new.at[q].access = grant.access
             /\ new.at[q].refresh = IF grant.refresh = Absent THEN doc.at[q].refresh ELSE grant.refresh
  <2>1. new.at[q] = SetTokens(doc.at[q], grant)  BY <1>2, <1>4
  <2> QED BY <2>1 DEF SetTokens
<1>5. ASSUME NEW q \in Places, q \notin Targets(doc)
      PROVE  /\ new.at[q] = doc.at[q]
             /\ doc.at[q].access = Absent \/ (doc.text /\ q \in Inner)
  <2>1. ~HasTokens(doc.at[q]) \/ (doc.text /\ q \in Inner)  BY <1>5 DEF Targets
  <2> QED BY <1>2, <1>5, <2>1 DEF HasTokens
<1>6. /\ \A q \in Places : grant.refresh = Absent => new.at[q].refresh = doc.at[q].refresh
      /\ \A q \in Places : \/ new.at[q].access \in {Absent, grant.access}
                           \/ doc.text /\ q \in Inner
  <2>1. ASSUME NEW q \in Places
        PROVE  /\ grant.refresh = Absent => new.at[q].refresh = doc.at[q].refresh
               /\ new.at[q].access \in {Absent, grant.access} \/ (doc.text /\ q \in Inner)
    <3>1. CASE q \in Targets(doc)  BY <1>4, <3>1
    <3>2. CASE q \notin Targets(doc)  BY <1>5, <3>2
    <3> QED BY <3>1, <3>2
  <2> QED BY <2>1
<1>7. /\ FirstIn(Places, new, "access") = grant.access
      /\ FirstIn(Outer, new, "access") = grant.access
  BY <1>1, <1>3, <1>4, TopIsFirst, PlacesAreNumbers DEF TokenFields
<1>8. CASE grant.refresh = Absent
  <2>1. FirstIn(Places, new, "refresh") = FirstIn(Places, doc, "refresh")
    BY <1>1, <1>6, <1>8, FirstInSameField DEF TokenFields
  <2> QED BY <1>6, <1>7, <1>8, <2>1 DEF TokenField, BotFlagToken, ProbeToken, Absent, new, Holder
<1>9. CASE grant.refresh # Absent
  <2>1. FirstIn(Places, new, "refresh") = grant.refresh
    BY <1>1, <1>3, <1>4, <1>9, TopIsFirst DEF TokenFields
  <2> QED BY <1>6, <1>7, <1>9, <2>1 DEF TokenField, BotFlagToken, ProbeToken, Absent, new, Holder
<1> QED BY <1>8, <1>9

-----------------------------------------------------------------------------
(* Type correctness.                                                       *)

\* The types of the constant definitions.
LEMMA Constants ==
  /\ NoGrant \in Holder
  /\ NoDocument \in Document
  /\ NoOp \in Operation
  /\ \A kind \in Kinds, token \in Int, before \in Int, want \in Statuses :
       Fresh(kind, token, before, want) \in Operation
  /\ "unknown" \in Statuses /\ "error" \in Statuses
  /\ Absent \in Int
<1>1. NoGrant \in Holder /\ Absent \in Int /\ Nothing \in Holder
  BY DEF NoGrant, Holder, Absent, Nothing
<1>2. NoDocument \in Document
  <2>1. [p \in Places |-> Nothing] \in [Places -> Holder]  BY <1>1
  <2> QED BY <2>1 DEF NoDocument, Document
<1>3. "unknown" \in Statuses /\ "error" \in Statuses
  BY DEF Statuses
<1>4. \A kind \in Kinds, token \in Int, before \in Int, want \in Statuses :
       Fresh(kind, token, before, want) \in Operation
  BY <1>1, <1>2 DEF Fresh, Operation
<1>5. NoOp \in Operation
  BY <1>1, <1>3, <1>4 DEF NoOp, Kinds
<1> QED BY <1>1, <1>2, <1>3, <1>4, <1>5

\* The readers find tokens.
LEMMA ReadersType ==
  ASSUME NEW doc \in Document
  PROVE  /\ TokenField(doc, "access") \in Int /\ TokenField(doc, "refresh") \in Int
         /\ ProbeToken(doc) \in Int
         /\ TokenField(doc, "refresh") # Absent => TokenField(doc, "refresh") >= 0
         /\ TokenField(doc, "access") # Absent => TokenField(doc, "access") >= 0
         /\ ProbeToken(doc) # Absent => ProbeToken(doc) >= 0
BY FirstInType, PlacesAreNumbers DEF TokenField, ProbeToken, TokenFields

\* Types: the initial states.
LEMMA InitType == Init => TypeOK
<1> SUFFICES ASSUME Init PROVE TypeOK
  OBVIOUS
<1>1. op \in [Procs -> Operation]  BY Constants DEF Init
<1>2. file \in Document  BY LayoutsAssumption DEF Init
<1>3. newest \in 0..issued  BY DEF Init
<1> QED BY <1>1, <1>2, <1>3, Constants DEF Init, TypeOK, Steps

\* Types: what the endpoint issues.
LEMMA IssueType ==
  ASSUME TypeOK, Issue
  PROVE  /\ mode' \in Modes /\ issued' \in Nat /\ newest' \in 0..issued' /\ newest' \in Int
         /\ issued' = issued + 1
BY DocumentAssumption DEF TypeOK, Issue

\* A report that an account is live leaves the file alone, and starts a heal at most.
Succeeds(p) == \E token \in 0..issued : HandleSuccess(p, token)

LEMMA SuccessIsQuiet ==
  ASSUME TypeOK, NEW p \in Procs, Succeeds(p)
  PROVE  /\ UNCHANGED <<file, endpoint, draft, write, raced, lost>>
         /\ pc[p] = "idle" /\ pc'[p] \in {"idle", "lock"}
         /\ \A q \in Procs \ {p} : pc'[q] = pc[q] /\ op'[q] = op[q]
         /\ op'[p] = op[p] \/ op'[p].kind = "heal"
         /\ pc' \in [Procs -> Steps] /\ op' \in [Procs -> Operation]
         /\ status' \in Statuses /\ probed' \in Int /\ stale' \in BOOLEAN
<1>1. PICK token \in 0..issued : HandleSuccess(p, token)
  BY DEF Succeeds
<1>2. token \in Int /\ "live" \in Statuses
  BY DEF TypeOK, Statuses
<1>3. Fresh("heal", token, Absent, "live") \in Operation /\ Fresh("heal", token, Absent, "live").kind = "heal"
  BY <1>2, Constants DEF Kinds, Fresh
<1> QED BY <1>1, <1>2, <1>3 DEF HandleSuccess, Record, Goto, TypeOK, Steps

\* The panel writes to the store only.
LEMMA PanelIsQuiet ==
  ASSUME PanelStep
  PROVE  UNCHANGED <<file, endpoint, write, pc, op, raced, lost>>
BY DEF PanelStep, DraftQuota, SaveQuota, ClearState, history

\* Types: an operation that returns.
LEMMA EndType ==
  ASSUME TypeOK, NEW p \in Procs, Return(p)
  PROVE  /\ write' \in Procs \cup {NoProc} /\ pc' \in [Procs -> Steps] /\ op' \in [Procs -> Operation]
         /\ pc'[p] = "idle" /\ \A q \in Procs \ {p} : pc'[q] = pc[q] /\ op'[q] = op[q]
BY Constants DEF TypeOK, Return, Goto, Steps

\* Types: every step.
LEMMA TypeStep ==
  ASSUME TypeOK, [Next]_vars
  PROVE  TypeOK'
<1> USE Constants
<1>1. ASSUME NEW p \in Procs, PrepareResign(p)  PROVE TypeOK'
  <2>1. TokenField(file, "refresh") \in Int /\ TokenField(file, "access") \in Int
        /\ TokenField(file, "refresh") >= 0
    BY <1>1, ReadersType DEF PrepareResign, TypeOK
  <2>2. op' \in [Procs -> Operation] /\ op'[p].token = TokenField(file, "refresh")
    BY <1>1, <2>1 DEF PrepareResign, TypeOK, Fresh, Kinds
  <2> QED BY <1>1, <2>1, <2>2 DEF PrepareResign, TypeOK, Goto, Steps, endpoint, history
<1>2. ASSUME NEW p \in Procs, Refresh(p)  PROVE TypeOK'
  <2>1. [access |-> issued + 1, refresh |-> IF mode.rotates THEN issued + 1 ELSE Absent] \in Holder
    BY DEF TypeOK, Holder
  <2>2. op' \in [Procs -> Operation] /\ \A q \in Procs : op'[q].token = op[q].token
    BY <1>2, <2>1 DEF Refresh, TypeOK, Operation
  <2> QED BY <1>2, <2>2, IssueType DEF Refresh, TypeOK, Goto, Steps, history
<1>3. ASSUME NEW p \in Procs, RefreshFails(p)  PROVE TypeOK'
  BY <1>3 DEF RefreshFails, TypeOK, Goto, Steps, endpoint, history
<1>4. ASSUME NEW p \in Procs, AnswerLost(p)  PROVE TypeOK'
  BY <1>4, IssueType DEF AnswerLost, TypeOK, Goto, Steps
<1>5. ASSUME NEW p \in Procs, StartProbe(p)  PROVE TypeOK'
  <2>1. PICK token \in {ProbeToken(file)} \cup {Absent} :
          /\ op' = [op EXCEPT ![p] = Fresh("probe", token, Absent, "error")]
          /\ Goto(p, IF token = Absent THEN "lock" ELSE "http")
    BY <1>5 DEF StartProbe
  <2>2. token \in Int /\ (token # Absent => token >= 0)
    BY <2>1, ReadersType DEF TypeOK
  <2>3. op' \in [Procs -> Operation] /\ op'[p].token = token
    BY <1>5, <2>1, <2>2 DEF TypeOK, Fresh, Kinds
  <2> QED BY <1>5, <2>1, <2>2, <2>3 DEF StartProbe, TypeOK, Goto, Steps, endpoint, history
<1>6. ASSUME NEW p \in Procs, NEW result \in ProbeResults \cup {"error"}, ProbeAnswer(p, result)
      PROVE TypeOK'
  <2>1. op' \in [Procs -> Operation]
    BY <1>6 DEF ProbeAnswer, TypeOK, Operation, Statuses
  <2> QED BY <1>6, <2>1 DEF ProbeAnswer, TypeOK, Goto, Steps, endpoint, history
<1>7. ASSUME NEW p \in Procs, NEW kind \in {"enable", "disable", "sync"}, StartWrite(p, kind)
      PROVE TypeOK'
  <2>1. op' \in [Procs -> Operation]
    BY <1>7 DEF StartWrite, TypeOK, Kinds
  <2> QED BY <1>7, <2>1 DEF StartWrite, TypeOK, Goto, Steps, endpoint, history
<1>8. ASSUME NEW p \in Procs, Lock(p)  PROVE TypeOK'
  BY <1>8 DEF Lock, TypeOK, Goto, Steps, Held, endpoint, history
<1>9. ASSUME NEW p \in Procs, ListAgain(p)  PROVE TypeOK'
  <2>1. CASE Return(p)
    BY <1>9, <2>1, EndType DEF ListAgain, TypeOK, endpoint, history
  <2>2. CASE Continue(p, "get") \/ Continue(p, "status")
    BY <1>9, <2>2 DEF ListAgain, Continue, TypeOK, Goto, Steps, Held, endpoint, history
  <2>3. CASE /\ op' = [op EXCEPT ![p].want = status]
             /\ Goto(p, ToPriority)
             /\ UNCHANGED write
    <3>1. op' \in [Procs -> Operation]
      BY <2>3 DEF TypeOK, Operation
    <3> QED BY <1>9, <2>3, <3>1 DEF ListAgain, TypeOK, Goto, ToPriority, Steps, Held, endpoint, history
  <2> QED BY <1>9, <2>1, <2>2, <2>3 DEF ListAgain
<1>10. ASSUME NEW p \in Procs, GetDocument(p)  PROVE TypeOK'
  <2>1. op' \in [Procs -> Operation]
    BY <1>10 DEF GetDocument, TypeOK, Operation
  <2> QED BY <1>10, <2>1 DEF GetDocument, TypeOK, Goto, Steps, Held, endpoint
<1>11. ASSUME NEW p \in Procs  PROVE pc[p] \in Holding => Written(p) \in Document
  <2>1. op[p] \in Operation  BY DEF TypeOK
  <2>2. /\ op[p].doc \in Document /\ op[p].grant \in Holder /\ Prio[op[p].want] \in Int
        /\ (op[p].kind = "disable") \in BOOLEAN
    BY <2>1, DocumentAssumption DEF Operation
  <2>3. /\ WithTokens(op[p].doc, op[p].grant) \in Document
        /\ WithDisabled(op[p].doc, op[p].kind = "disable") \in Document
        /\ WithPriority(op[p].doc, Prio[op[p].want]) \in Document
    BY <2>2, WithTokensType, WithFieldType
  <2> QED BY <2>3 DEF Written
<1>12. ASSUME NEW p \in Procs, SaveDocument(p)  PROVE TypeOK'
  <2>1. file' \in Document  BY <1>11, <1>12 DEF SaveDocument
  <2>2. lost' \in BOOLEAN /\ stale' \in BOOLEAN
    BY <1>12 DEF SaveDocument, TypeOK, Dropped
  <2>3. CASE Continue(p, "verify")
    BY <1>12, <2>1, <2>2, <2>3 DEF SaveDocument, Continue, TypeOK, Goto, Steps, Held, endpoint
  <2>4. CASE Return(p)
    BY <1>12, <2>1, <2>2, <2>4, EndType DEF SaveDocument, TypeOK, endpoint
  <2> QED BY <1>12, <2>3, <2>4 DEF SaveDocument
<1>13. ASSUME NEW p \in Procs, SaveIgnored(p)  PROVE TypeOK'
  <2>1. lost' \in BOOLEAN
    BY <1>13 DEF SaveIgnored, TypeOK, HasGrant
  <2>2. CASE Continue(p, "verify")
    BY <1>13, <2>1, <2>2 DEF SaveIgnored, Continue, TypeOK, Goto, Steps, Held, endpoint
  <2>3. CASE Return(p)
    BY <1>13, <2>1, <2>3, EndType DEF SaveIgnored, TypeOK, endpoint
  <2> QED BY <1>13, <2>2, <2>3 DEF SaveIgnored
<1>14. ASSUME NEW p \in Procs, VerifyResign(p)  PROVE TypeOK'
  <2>1. CASE Continue(p, "status")
    BY <1>14, <2>1 DEF VerifyResign, Continue, TypeOK, Goto, Steps, Held, endpoint, history
  <2>2. CASE Return(p)
    BY <1>14, <2>2, EndType DEF VerifyResign, TypeOK, endpoint, history
  <2> QED BY <1>14, <2>1, <2>2 DEF VerifyResign
<1>15. ASSUME NEW p \in Procs, SetStatus(p)  PROVE TypeOK'
  <2>1. op[p] \in Operation  BY DEF TypeOK
  <2>2. status' \in Statuses /\ probed' \in Int /\ stale' \in BOOLEAN
    BY <1>15, <2>1, ReadersType DEF SetStatus, Record, Operation, TypeOK
  <2>3. CASE Continue(p, ToPriority)
    BY <1>15, <2>2, <2>3 DEF SetStatus, Continue, TypeOK, Goto, ToPriority, Steps, Held, endpoint
  <2>4. CASE Return(p)
    BY <1>15, <2>2, <2>4, EndType DEF SetStatus, TypeOK, endpoint
  <2> QED BY <1>15, <2>3, <2>4 DEF SetStatus
<1>16. ASSUME NEW p \in Procs, PatchPriority(p)  PROVE TypeOK'
  <2>1. op[p] \in Operation  BY DEF TypeOK
  <2>2. Prio[op[p].want] \in Int  BY <2>1, DocumentAssumption DEF Operation
  <2>3. file' \in Document  BY <1>16, <2>2, WithFieldType DEF PatchPriority, TypeOK
  <2> QED BY <1>16, <2>3, EndType DEF PatchPriority, TypeOK, endpoint, history
<1>17. ASSUME NEW p \in Procs, OpFails(p)  PROVE TypeOK'
  <2>1. lost' \in BOOLEAN /\ stale' \in BOOLEAN
    BY <1>17 DEF OpFails, TypeOK, HasGrant
  <2> QED BY <1>17, <2>1, EndType DEF OpFails, TypeOK, endpoint
<1>18. ASSUME EditDisabled  PROVE TypeOK'
  <2>1. file' \in Document
    BY <1>18, WithFieldType DEF EditDisabled, TypeOK, Document
  <2>2. raced' \in [Procs -> SUBSET Fields]
    BY <1>18 DEF EditDisabled, Behind, TypeOK, Fields
  <2> QED BY <1>18, <2>1, <2>2 DEF EditDisabled, TypeOK, endpoint
<1>19. ASSUME NEW s \in Statuses, EditPriority(s)  PROVE TypeOK'
  <2>1. file' \in Document
    BY <1>19, WithFieldType, DocumentAssumption DEF EditPriority, TypeOK
  <2>2. raced' \in [Procs -> SUBSET Fields]
    BY <1>19 DEF EditPriority, Behind, TypeOK, Fields
  <2> QED BY <1>19, <2>1, <2>2 DEF EditPriority, TypeOK, endpoint
<1>20. ASSUME HostRefresh  PROVE TypeOK'
  <2>1. \A p \in Places : file.at[p].access \in Int /\ file.at[p].refresh \in Int
    BY DEF TypeOK, Document, Holder
  <2>2. issued + 1 \in Int /\ newest' \in Int
    BY <1>20, IssueType DEF HostRefresh, TypeOK
  <2>3. [p \in Places |->
           [access  |-> IF file.at[p].access >= 0 THEN issued + 1 ELSE file.at[p].access,
            refresh |-> IF file.at[p].refresh >= 0 THEN newest' ELSE file.at[p].refresh]]
          \in [Places -> Holder]
    BY <2>1, <2>2 DEF Holder
  <2>4. file' \in Document
    BY <1>20, <2>3 DEF HostRefresh, TypeOK, Document
  <2>5. raced' \in [Procs -> SUBSET Fields]
    BY <1>20 DEF HostRefresh, Behind, TypeOK, Fields
  <2> QED BY <1>20, <2>4, <2>5, IssueType DEF HostRefresh, TypeOK
<1>21. ASSUME Restart  PROVE TypeOK'
  <2>1. lost' \in BOOLEAN /\ stale' \in BOOLEAN
    BY <1>21 DEF Restart, TypeOK
  <2> QED BY <1>21, <2>1 DEF Restart, TypeOK, Steps, endpoint
<1>22. ASSUME NEW p \in Procs, Succeeds(p)  PROVE TypeOK'
  BY <1>22, SuccessIsQuiet DEF TypeOK, endpoint
<1>23. ASSUME PanelStep  PROVE TypeOK'
  <2>1. /\ status' \in Statuses /\ probed' \in Int /\ stale' \in BOOLEAN
        /\ draft' \in [status : Statuses, token : Int] \cup {NoDraft}
    <3>1. CASE DraftQuota
      BY <3>1 DEF DraftQuota, TypeOK, history
    <3>2. CASE SaveQuota
      BY <3>2 DEF SaveQuota, Record, TypeOK
    <3>3. CASE ClearState
      BY <3>3 DEF ClearState, TypeOK, history
    <3> QED BY <1>23, <3>1, <3>2, <3>3 DEF PanelStep
  <2> QED BY <1>23, <2>1, PanelIsQuiet DEF TypeOK, endpoint
<1>24. ASSUME UNCHANGED vars  PROVE TypeOK'
  BY <1>24 DEF vars, TypeOK
<1> QED
  BY <1>1, <1>2, <1>3, <1>4, <1>5, <1>6, <1>7, <1>8, <1>9, <1>10, <1>12, <1>13, <1>14, <1>15,
     <1>16, <1>17, <1>18, <1>19, <1>20, <1>21, <1>22, <1>23, <1>24
  DEF Next, OpStep, HostStep, Succeeds

\* The mutex is held by the process that is at a step under it, and the step of
\* an operation tells its kind.
Shape ==
  \A p \in Procs :
    /\ pc[p] \in Held <=> write = p
    /\ pc[p] \in {"refresh", "verify"} => op[p].kind = "resign"
    /\ pc[p] = "http" => op[p].kind = "probe"
    /\ pc[p] \in {"get", "save"} => op[p].kind \in {"resign", "enable", "disable"}
    /\ pc[p] = "status" => op[p].kind \in {"resign", "probe", "heal"}
    /\ op[p].kind = "resign" => op[p].want = "unknown"

\* A step of one process leaves the others where they are.
LEMMA OthersStay ==
  ASSUME TypeOK, NEW p \in Procs, OpStep(p), NEW q \in Procs, q # p
  PROVE  pc'[q] = pc[q] /\ op'[q] = op[q] /\ raced'[q] = raced[q]
<1>1. CASE PrepareResign(p) \/ Refresh(p) \/ RefreshFails(p) \/ AnswerLost(p)
  BY <1>1 DEF PrepareResign, Refresh, RefreshFails, AnswerLost, Goto, TypeOK, history
<1>2. CASE StartProbe(p) \/ (\E result \in ProbeResults \cup {"error"} : ProbeAnswer(p, result))
           \/ (\E kind \in {"enable", "disable", "sync"} : StartWrite(p, kind)) \/ Lock(p)
  BY <1>2 DEF StartProbe, ProbeAnswer, StartWrite, Lock, Goto, TypeOK, history
<1>3. CASE ListAgain(p) \/ VerifyResign(p) \/ SetStatus(p) \/ PatchPriority(p)
  BY <1>3 DEF ListAgain, VerifyResign, SetStatus, PatchPriority, Record, Return, Continue, Goto, TypeOK, history
<1>4. CASE GetDocument(p) \/ SaveDocument(p) \/ SaveIgnored(p) \/ OpFails(p)
  BY <1>4 DEF GetDocument, SaveDocument, SaveIgnored, OpFails, Return, Continue, Goto, TypeOK
<1>5. CASE Succeeds(p)
  BY <1>5, SuccessIsQuiet
<1> QED BY <1>1, <1>2, <1>3, <1>4, <1>5 DEF OpStep, Succeeds

\* The shape of operations: the initial states.
LEMMA InitShape == Init => Shape
BY DocumentAssumption DEF Init, Shape, Held, NoOp, Fresh

\* What a step of p does to the mutex and to the operation of p.
LEMMA OwnShape ==
  ASSUME TypeOK, Shape, NEW p \in Procs, OpStep(p)
  PROVE  /\ pc'[p] \in Held <=> write' = p
         /\ \A q \in Procs \ {p} : write' = q <=> write = q
         /\ pc'[p] \in {"refresh", "verify"} => op'[p].kind = "resign"
         /\ pc'[p] = "http" => op'[p].kind = "probe"
         /\ pc'[p] \in {"get", "save"} => op'[p].kind \in {"resign", "enable", "disable"}
         /\ pc'[p] = "status" => op'[p].kind \in {"resign", "probe", "heal"}
         /\ op'[p].kind = "resign" => op'[p].want = "unknown"
<1> USE DocumentAssumption
<1>1. CASE Return(p) /\ pc[p] \in Held
  BY <1>1 DEF Return, Goto, Shape, TypeOK, Held, NoOp, Fresh
<1>2. CASE PrepareResign(p) \/ StartProbe(p)
           \/ (\E kind \in {"enable", "disable", "sync"} : StartWrite(p, kind))
  BY <1>2 DEF PrepareResign, StartProbe, StartWrite, Goto, Shape, TypeOK, Held, Fresh
<1>3. CASE Refresh(p)
  <2>1. op'[p].kind = op[p].kind /\ op'[p].want = op[p].want
    BY <1>3 DEF Refresh, TypeOK, Operation
  <2> QED BY <1>3, <2>1 DEF Refresh, Goto, Shape, TypeOK, Held
<1>4. CASE RefreshFails(p) \/ AnswerLost(p)
  BY <1>4 DEF RefreshFails, AnswerLost, Goto, Shape, TypeOK, Held, NoOp, Fresh
<1>5. CASE \E result \in ProbeResults \cup {"error"} : ProbeAnswer(p, result)
  <2>1. op'[p].kind = "probe"
    BY <1>5 DEF ProbeAnswer, Shape, TypeOK, Operation
  <2> QED BY <1>5, <2>1 DEF ProbeAnswer, Goto, Shape, TypeOK, Held
<1>6. CASE Lock(p)
  BY <1>6 DEF Lock, Goto, Shape, TypeOK, Held
<1>7. CASE ListAgain(p)
  <2>1. CASE /\ op[p].kind = "sync"
             /\ op' = [op EXCEPT ![p].want = status]
             /\ Goto(p, ToPriority) /\ UNCHANGED write
    <3>1. op'[p].kind = "sync"  BY <2>1 DEF TypeOK, Operation
    <3> QED BY <1>7, <2>1, <3>1 DEF ListAgain, ToPriority, Goto, Shape, TypeOK, Held
  <2>2. CASE Continue(p, "get") /\ op[p].kind \in {"resign", "enable", "disable"}
    BY <1>7, <2>2 DEF ListAgain, Continue, Goto, Shape, TypeOK, Held
  <2>3. CASE Continue(p, "status") /\ op[p].kind \in {"probe", "heal"}
    BY <1>7, <2>3 DEF ListAgain, Continue, Goto, Shape, TypeOK, Held
  <2> QED BY <1>1, <1>7, <2>1, <2>2, <2>3 DEF ListAgain, Held
<1>8. CASE GetDocument(p)
  <2>1. op'[p].kind = op[p].kind /\ op'[p].want = op[p].want
    BY <1>8 DEF GetDocument, TypeOK, Operation
  <2> QED BY <1>8, <2>1 DEF GetDocument, Goto, Shape, TypeOK, Held
<1>9. CASE SaveDocument(p) \/ SaveIgnored(p)
  <2>1. pc[p] \in Held /\ (Return(p) \/ (Own(p) = "tokens" /\ Continue(p, "verify")))
    BY <1>9 DEF SaveDocument, SaveIgnored, Holding, Held
  <2>2. CASE Own(p) = "tokens" /\ Continue(p, "verify")
    <3>1. op[p].kind = "resign"  BY <2>2 DEF Own
    <3> QED BY <2>1, <2>2, <3>1 DEF Continue, Goto, Shape, TypeOK, Held
  <2> QED BY <1>1, <2>1, <2>2
<1>10. CASE VerifyResign(p)
  <2>1. CASE Continue(p, "status")
    BY <1>10, <2>1 DEF VerifyResign, Continue, Goto, Shape, TypeOK, Held
  <2> QED BY <1>1, <1>10, <2>1 DEF VerifyResign, Held
<1>11. CASE SetStatus(p)
  <2>1. CASE Continue(p, ToPriority)
    BY <1>11, <2>1 DEF SetStatus, Continue, ToPriority, Goto, Shape, TypeOK, Held
  <2> QED BY <1>1, <1>11, <2>1 DEF SetStatus, Held
<1>12. CASE PatchPriority(p) \/ OpFails(p)
  BY <1>1, <1>12 DEF PatchPriority, OpFails, Held
<1>13. CASE Succeeds(p)
  BY <1>13, SuccessIsQuiet DEF Shape, Held, TypeOK
<1> QED BY <1>2, <1>3, <1>4, <1>5, <1>6, <1>7, <1>8, <1>9, <1>10, <1>11, <1>12, <1>13 DEF OpStep, Succeeds

\* The shape of operations: every step.
LEMMA ShapeStep ==
  ASSUME TypeOK, Shape, [Next]_vars
  PROVE  Shape'
<1>1. ASSUME NEW p \in Procs, OpStep(p)  PROVE Shape'
  BY <1>1, OwnShape, OthersStay DEF Shape
<1>2. CASE HostStep \/ UNCHANGED vars
  BY <1>2 DEF HostStep, EditDisabled, EditPriority, HostRefresh, vars, Shape
<1>3. CASE Restart
  BY <1>3, DocumentAssumption DEF Restart, Shape, Held, NoOp, Fresh
<1>4. CASE PanelStep
  BY <1>4, PanelIsQuiet DEF Shape
<1> QED BY <1>1, <1>2, <1>3, <1>4 DEF Next

-----------------------------------------------------------------------------
(* The copy in the hand of an operation and the file.                      *)

Agrees(doc, other, fields) ==
  /\ doc.text = other.text
  /\ \A field \in Fields \ fields : Field(doc, field) = Field(other, field)

Hand == \A p \in Procs : pc[p] \in Holding => Agrees(op[p].doc, file, raced[p])

SafeInv == TypeOK /\ Shape /\ Hand

\* Nobody has a document in the hand while another process is under the mutex.
LEMMA OneHand ==
  ASSUME Shape, NEW p \in Procs, NEW q \in Procs, pc[p] \in Held, pc[q] \in Held
  PROVE  p = q
BY DEF Shape

\* Steps that change no file, that take up no document and drop no mark.
LEMMA HandQuiet ==
  ASSUME Hand, UNCHANGED file,
         \A q \in Procs : pc'[q] \in Holding =>
            pc[q] \in Holding /\ op'[q].doc = op[q].doc /\ raced'[q] = raced[q]
  PROVE  Hand'
BY DEF Hand

\* A step that changes the file where nobody is looking, or leaves a mark.
LEMMA HandMarked ==
  ASSUME Hand, pc' = pc, op' = op, NEW changed \in Fields,
         \A fields \in SUBSET Fields : changed \in fields => Agrees(file, file', fields),
         Behind(changed), TypeOK
  PROVE  Hand'
<1> SUFFICES ASSUME NEW p \in Procs, pc[p] \in Holding
             PROVE  Agrees(op[p].doc, file', raced'[p])
  BY DEF Hand
<1>1. raced'[p] = raced[p] \cup {changed} /\ raced'[p] \in SUBSET Fields
  BY DEF Behind, TypeOK
<1>2. Agrees(op[p].doc, file, raced[p])  BY DEF Hand
<1>3. Agrees(file, file', raced'[p])  BY <1>1
<1> QED BY <1>1, <1>2, <1>3 DEF Agrees

\* The copy in the hand differs from the file in what was changed behind it only.
LEMMA HandStep ==
  ASSUME SafeInv, [Next]_vars, TypeOK', Shape'
  PROVE  Hand'
<1> USE DEF SafeInv
<1>1. ASSUME NEW p \in Procs, OpStep(p)  PROVE Hand'
  <2>1. \A q \in Procs \ {p} : pc'[q] = pc[q] /\ op'[q] = op[q] /\ raced'[q] = raced[q]
    BY <1>1, OthersStay
  <2>2. CASE GetDocument(p)
    <3>1. op'[p].doc = file /\ file' = file
      BY <2>2 DEF GetDocument, TypeOK, Operation
    <3>2. Agrees(op'[p].doc, file', raced'[p])
      BY <3>1 DEF Agrees
    <3> QED BY <2>1, <3>1, <3>2 DEF Hand
  <2>3. CASE SaveDocument(p) \/ PatchPriority(p)
    <3>1. pc[p] \in Held /\ pc'[p] \notin Holding
      BY <2>3 DEF SaveDocument, PatchPriority, Return, Continue, Goto, Holding, Held, TypeOK
    <3>2. \A q \in Procs : pc'[q] \notin Holding
      BY <2>1, <3>1, OneHand DEF Holding, Held
    <3> QED BY <3>2 DEF Hand
  <2>4. CASE PrepareResign(p) \/ Refresh(p) \/ RefreshFails(p) \/ AnswerLost(p)
    <3>1. pc'[p] \notin Holding /\ file' = file
      BY <2>4 DEF PrepareResign, Refresh, RefreshFails, AnswerLost, Goto, TypeOK, Holding
    <3> QED BY <2>1, <3>1, HandQuiet
  <2>5. CASE StartProbe(p) \/ (\E result \in ProbeResults \cup {"error"} : ProbeAnswer(p, result))
             \/ (\E kind \in {"enable", "disable", "sync"} : StartWrite(p, kind)) \/ Lock(p)
    <3>1. pc'[p] \notin Holding /\ file' = file
      BY <2>5 DEF StartProbe, ProbeAnswer, StartWrite, Lock, Goto, TypeOK, Holding
    <3> QED BY <2>1, <3>1, HandQuiet
  <2>6. CASE ListAgain(p) \/ VerifyResign(p) \/ SetStatus(p) \/ SaveIgnored(p) \/ OpFails(p)
    <3>1. pc'[p] \notin Holding /\ file' = file
      BY <2>6 DEF ListAgain, VerifyResign, SetStatus, SaveIgnored, OpFails, Record, Return, Continue,
                  ToPriority, Goto, TypeOK, Holding
    <3> QED BY <2>1, <3>1, HandQuiet
  <2>7. CASE Succeeds(p)
    <3>1. pc'[p] \notin Holding /\ file' = file
      BY <2>7, SuccessIsQuiet DEF Holding
    <3> QED BY <2>1, <3>1, HandQuiet
  <2> QED BY <1>1, <2>2, <2>3, <2>4, <2>5, <2>6, <2>7 DEF OpStep, Succeeds
<1>2. CASE EditDisabled
  <2>1. \A fields \in SUBSET Fields : "disabled" \in fields => Agrees(file, file', fields)
    BY <1>2 DEF EditDisabled, WithDisabled, Agrees, Field, Fields
  <2> QED BY <1>2, <2>1, HandMarked DEF EditDisabled, Fields
<1>3. ASSUME NEW s \in Statuses, EditPriority(s)  PROVE Hand'
  <2>1. \A fields \in SUBSET Fields : "priority" \in fields => Agrees(file, file', fields)
    BY <1>3 DEF EditPriority, WithPriority, Agrees, Field, Fields
  <2> QED BY <1>3, <2>1, HandMarked DEF EditPriority, Fields
<1>4. CASE HostRefresh
  <2>1. \A fields \in SUBSET Fields : "tokens" \in fields => Agrees(file, file', fields)
    BY <1>4 DEF HostRefresh, Agrees, Field, Fields
  <2> QED BY <1>4, <2>1, HandMarked DEF HostRefresh, Fields
<1>5. CASE Restart
  BY <1>5 DEF Restart, Hand, Holding
<1>6. CASE UNCHANGED vars
  BY <1>6, HandQuiet DEF vars
<1>7. CASE PanelStep
  BY <1>7, PanelIsQuiet, HandQuiet
<1> QED BY <1>1, <1>2, <1>3, <1>4, <1>5, <1>6, <1>7 DEF Next, HostStep

\* The type invariant, the mutex and the copies.
THEOREM SafeAlways == Spec => []SafeInv
<1>1. Init => SafeInv
  BY InitType, InitShape DEF SafeInv, Hand, Init, Holding
<1>2. SafeInv /\ [Next]_vars => SafeInv'
  BY TypeStep, ShapeStep, HandStep DEF SafeInv
<1> QED BY <1>1, <1>2, PTL DEF Spec

\* Types hold, and no request is sent without a token.
THEOREM Typed == Spec => []TypeOK
<1>1. SafeInv => TypeOK  BY DEF SafeInv
<1> QED BY <1>1, SafeAlways, PTL

\* Own fields only: whole documents are saved, and yet no operation of the
\* plugin takes back what another one of them wrote.
THEOREM OwnFieldsOnly == Spec => OnlyOwnFields
<1>1. ASSUME SafeInv, [Next]_vars, NEW p \in Procs, pc[p] \in Holding, pc'[p] # pc[p],
             NEW field \in Fields \ ({Own(p)} \cup raced[p])
      PROVE  Field(file', field) = Field(file, field)
  <2>1. CASE file' = file
    BY <2>1
  <2>2. CASE SaveDocument(p)
    <3>1. Field(op[p].doc, field) = Field(file, field)
      BY <1>1 DEF SafeInv, Hand, Agrees
    <3>2. Field(Written(p), field) = Field(op[p].doc, field)
      BY <1>1 DEF Written, Own, Field, Fields, WithPriority, WithTokens, WithDisabled
    <3> QED BY <2>2, <3>1, <3>2 DEF SaveDocument
  <2>3. \A q \in Procs \ {p} : ~OpStep(q)
    BY <1>1, OthersStay DEF SafeInv
  <2>4. ~HostStep /\ ~PanelStep
    BY <1>1, PanelIsQuiet DEF HostStep, EditDisabled, EditPriority, HostRefresh
  <2>5. OpStep(p) => SaveDocument(p) \/ file' = file
    BY <1>1 DEF OpStep, PrepareResign, Refresh, RefreshFails, AnswerLost, StartProbe, ProbeAnswer,
                StartWrite, Lock, ListAgain, GetDocument, SaveIgnored, VerifyResign, SetStatus,
                PatchPriority, OpFails, HandleSuccess, Holding
  <2> QED BY <1>1, <2>1, <2>2, <2>3, <2>4, <2>5 DEF Next, Restart, vars
<1>2. SafeInv /\ [Next]_vars =>
        [\A p \in Procs : pc[p] \in Holding /\ pc'[p] # pc[p] =>
           \A field \in Fields \ ({Own(p)} \cup raced[p]) :
             Field(file', field) = Field(file, field)]_vars
  BY <1>1
<1> QED BY <1>2, SafeAlways, PTL DEF Spec, OnlyOwnFields

-----------------------------------------------------------------------------
(* The numbers of the tokens.                                              *)

UpTo(doc, access, refresh) ==
  \A q \in Places : doc.at[q].access <= access /\ doc.at[q].refresh <= refresh

\* While an answer is not saved, its refresh token is nowhere else.
Limit == IF \E p \in Procs : HasGrant(p) THEN newest - 1 ELSE newest

Answered(p) == pc[p] \in Unsaved /\ op[p].kind = "resign"

Tokens ==
  /\ ~mode.rotates => newest = 0
  /\ UpTo(file, issued, Limit)
  /\ \A p \in Procs : pc[p] \in Holding => UpTo(op[p].doc, issued, Limit)
  /\ \A p \in Procs : pc[p] = "refresh" => op[p].token <= Limit /\ op[p].before <= issued
  /\ \A p \in Procs : Answered(p) =>
       /\ op[p].grant.access \in 0..issued /\ op[p].before < op[p].grant.access
       /\ op[p].grant.refresh = IF mode.rotates THEN newest ELSE Absent
  /\ \A p, q \in Procs : HasGrant(p) /\ HasGrant(q) => p = q

TokensInv == SafeInv /\ Tokens

\* The limit is the newest refresh token, or the one before it.
LEMMA LimitType ==
  ASSUME TypeOK
  PROVE  Limit \in {newest - 1, newest} /\ Limit \in Int /\ Limit <= issued /\ Absent <= Limit
BY DEF TypeOK, Limit, Absent

\* Only an endpoint that rotates gives refresh tokens.
LEMMA GrantRotates ==
  ASSUME TypeOK, Tokens, NEW p \in Procs
  PROVE  HasGrant(p) <=> Answered(p) /\ mode.rotates
BY DEF TypeOK, Tokens, HasGrant, Answered, Absent

\* A bound on the tokens of a document may be raised.
LEMMA UpToGrows ==
  ASSUME NEW doc \in Document, NEW a \in Int, NEW r \in Int, NEW b \in Int, NEW s \in Int,
         UpTo(doc, a, r), a <= b, r <= s
  PROVE  UpTo(doc, b, s)
<1>1. \A q \in Places : doc.at[q].access \in Int /\ doc.at[q].refresh \in Int
  BY DEF Document, Holder
<1> QED BY <1>1 DEF UpTo

\* Nothing above the bound is read from a document.
LEMMA ReadUpTo ==
  ASSUME NEW doc \in Document, NEW a \in Int, NEW r \in Int, UpTo(doc, a, r),
         Absent <= a, Absent <= r
  PROVE  TokenField(doc, "access") <= a /\ TokenField(doc, "refresh") <= r
<1>1. ASSUME NEW field \in TokenFields, NEW n \in Int, Absent <= n,
             \A q \in Places : doc.at[q][field] <= n
      PROVE  FirstIn(Places, doc, field) <= n
  <2>1. CASE ~HasToken(Places, doc, field)
    BY <1>1, <2>1, FirstInNone
  <2>2. CASE HasToken(Places, doc, field)
    <3>1. PICK q : IsFirst(q, Places, doc, field)  BY <2>2, FirstInSome
    <3> QED BY <1>1, <3>1 DEF IsFirst
  <2> QED BY <2>1, <2>2
<1>2. \A q \in Places : doc.at[q]["access"] <= a /\ doc.at[q]["refresh"] <= r
  BY DEF UpTo
<1> QED BY <1>1, <1>2 DEF TokenField, TokenFields

\* Nothing above the bound is written to a document.
LEMMA WrittenUpTo ==
  ASSUME NEW doc \in Document, NEW grant \in Holder, NEW a \in Int, NEW r \in Int,
         UpTo(doc, a, r), grant.access <= a, grant.refresh <= r
  PROVE  UpTo(WithTokens(doc, grant), a, r)
<1> SUFFICES ASSUME NEW q \in Places
             PROVE  /\ WithTokens(doc, grant).at[q].access <= a
                    /\ WithTokens(doc, grant).at[q].refresh <= r
  BY DEF UpTo
<1>1. WithTokens(doc, grant).at[q] = IF q \in Targets(doc) THEN SetTokens(doc.at[q], grant)
                                     ELSE doc.at[q]
  BY DEF WithTokens
<1>2. doc.at[q].access <= a /\ doc.at[q].refresh <= r  BY DEF UpTo
<1>3. CASE q \in Targets(doc)
  <2>1. /\ SetTokens(doc.at[q], grant).access = grant.access
        /\ SetTokens(doc.at[q], grant).refresh \in {doc.at[q].refresh, grant.refresh}
    BY DEF SetTokens
  <2> QED BY <1>1, <1>2, <1>3, <2>1
<1>4. CASE q \notin Targets(doc)
  BY <1>1, <1>2, <1>4
<1> QED BY <1>3, <1>4

\* The limit does not go down when an answer is saved or given up.
LEMMA LimitGrows ==
  ASSUME TypeOK, TypeOK', UNCHANGED endpoint, \A q \in Procs : HasGrant(q)' => HasGrant(q)
  PROVE  Limit <= Limit'
BY DEF Limit, endpoint, TypeOK

\* Steps that issue no token, ask for none, and take up only documents with
\* tokens that are known already.
LEMMA TokensQuiet ==
  ASSUME TokensInv, TypeOK', UNCHANGED endpoint,
         UpTo(file', issued, Limit'),
         \A q \in Procs : pc'[q] \in Holding =>
            UpTo(op'[q].doc, issued, Limit) \/ UpTo(op'[q].doc, issued, Limit'),
         \A q \in Procs : pc'[q] = "refresh" =>
            pc[q] = "refresh" /\ op'[q].token = op[q].token /\ op'[q].before = op[q].before,
         \A q \in Procs : Answered(q)' =>
            Answered(q) /\ op'[q].grant = op[q].grant /\ op'[q].before = op[q].before
  PROVE  Tokens'
<1> USE DEF TokensInv, SafeInv
<1>1. \A q \in Procs : HasGrant(q)' => HasGrant(q)
  BY DEF HasGrant, Answered
<1>2. Limit <= Limit' /\ Limit \in Int /\ Limit' \in Int
  BY <1>1, LimitType, LimitGrows DEF Limit, endpoint, TypeOK
<1>3. \A q \in Procs : pc'[q] \in Holding => UpTo(op'[q].doc, issued, Limit')
  <2> SUFFICES ASSUME NEW q \in Procs, pc'[q] \in Holding
               PROVE  UpTo(op'[q].doc, issued, Limit')
    OBVIOUS
  <2>1. op'[q].doc \in Document /\ issued \in Int  BY DEF TypeOK, Operation
  <2> QED BY <1>2, <2>1, UpToGrows
<1>4. \A q \in Procs : pc'[q] = "refresh" => op'[q].token <= Limit' /\ op'[q].before <= issued'
  <2> SUFFICES ASSUME NEW q \in Procs, pc'[q] = "refresh"
               PROVE  op'[q].token <= Limit' /\ op'[q].before <= issued'
    OBVIOUS
  <2>1. op[q].token \in Int  BY DEF TypeOK, Operation
  <2> QED BY <1>2, <2>1 DEF Tokens, endpoint
<1>5. \A q \in Procs : Answered(q)' =>
       /\ op'[q].grant.access \in 0..issued' /\ op'[q].before < op'[q].grant.access
       /\ op'[q].grant.refresh = IF mode'.rotates THEN newest' ELSE Absent
  BY DEF Tokens, endpoint
<1> QED BY <1>1, <1>3, <1>4, <1>5 DEF Tokens, endpoint

\* A token that is accepted is where it was read from and nowhere else.
LEMMA AcceptedIsSaved ==
  ASSUME TokensInv, newest <= Limit
  PROVE  Limit = newest /\ \A q \in Procs : ~HasGrant(q)
BY DEF TokensInv, SafeInv, TypeOK, Limit

\* What was bounded before the endpoint issued a token is bounded after it.
LEMMA IssueKeeps ==
  ASSUME TokensInv, TypeOK', Issue, newest <= Limit, Limit' \in {newest' - 1, newest'},
         mode.rotates \/ Limit' = newest'
  PROVE  /\ newest <= Limit'
         /\ \A doc \in Document : UpTo(doc, issued, Limit) => UpTo(doc, issued', Limit')
<1> USE DEF TokensInv, SafeInv
<1>1. /\ Limit \in Int /\ Limit' \in Int /\ issued \in Int /\ issued' \in Int
      /\ issued <= issued' /\ newest <= Limit' /\ Limit = newest
  BY IssueType, AcceptedIsSaved DEF TypeOK, Issue
<1> QED BY <1>1, UpToGrows

\* The numbers of the tokens: the endpoint answers a resign.
LEMMA TokensRefresh ==
  ASSUME TokensInv, TypeOK', NEW p \in Procs, Refresh(p)
  PROVE  Tokens'
<1> USE DEF TokensInv, SafeInv
<1> DEFINE grant == [access |-> issued + 1, refresh |-> IF mode.rotates THEN issued + 1 ELSE Absent]
<1>1. newest <= Limit  BY DEF Refresh, Tokens
<1>2. Limit = newest /\ \A q \in Procs : ~HasGrant(q)  BY <1>1, AcceptedIsSaved
<1>3. \A q \in Procs \ {p} : pc'[q] = pc[q] /\ op'[q] = op[q]
  BY OthersStay DEF OpStep
<1>4. /\ pc'[p] = "lock" /\ op'[p].grant = grant /\ op'[p].before = op[p].before
      /\ op'[p].kind = "resign" /\ op[p].before <= issued /\ op[p].before \in Int
  BY DEF Refresh, Goto, TypeOK, Operation, Shape, Tokens
<1>5. /\ mode' = mode /\ issued' = issued + 1 /\ newest' = IF mode.rotates THEN issued + 1 ELSE newest
      /\ file' = file /\ issued \in Nat
  BY DEF Refresh, Issue, TypeOK
<1>6. /\ \A q \in Procs \ {p} : ~HasGrant(q)'
      /\ HasGrant(p)' <=> mode.rotates
  BY <1>2, <1>3, <1>4, <1>5 DEF HasGrant, Unsaved, Absent
<1>7. Limit' = IF mode.rotates THEN newest' - 1 ELSE newest'
  BY <1>6 DEF Limit
<1>8. /\ newest <= Limit'
      /\ \A doc \in Document : UpTo(doc, issued, Limit) => UpTo(doc, issued', Limit')
  BY <1>1, <1>7, IssueKeeps DEF Refresh
<1>9. UpTo(file', issued', Limit')
  BY <1>5, <1>8 DEF Tokens, TypeOK
<1>10. \A q \in Procs : pc'[q] \in Holding => UpTo(op'[q].doc, issued', Limit')
  <2> SUFFICES ASSUME NEW q \in Procs, pc'[q] \in Holding
               PROVE  UpTo(op'[q].doc, issued', Limit')
    OBVIOUS
  <2>1. q # p  BY <1>4 DEF Holding
  <2>2. op[q].doc \in Document  BY DEF TypeOK, Operation
  <2> QED BY <1>3, <1>8, <2>1, <2>2 DEF Tokens
<1>11. \A q \in Procs : pc'[q] = "refresh" => op'[q].token <= Limit' /\ op'[q].before <= issued'
  <2> SUFFICES ASSUME NEW q \in Procs, pc'[q] = "refresh"
               PROVE  op'[q].token <= Limit' /\ op'[q].before <= issued'
    OBVIOUS
  <2>1. q # p  BY <1>4
  <2>2. op[q].token \in Int /\ op[q].before \in Int  BY DEF TypeOK, Operation
  <2>3. op[q].token <= newest /\ op[q].before <= issued  BY <1>2, <1>3, <2>1 DEF Tokens
  <2>4. newest \in Int /\ Limit' \in Int  BY <1>7 DEF TypeOK
  <2> QED BY <1>3, <1>5, <1>8, <2>1, <2>2, <2>3, <2>4
<1>12. \A q \in Procs : Answered(q)' =>
         /\ op'[q].grant.access \in 0..issued' /\ op'[q].before < op'[q].grant.access
         /\ op'[q].grant.refresh = IF mode'.rotates THEN newest' ELSE Absent
  <2> SUFFICES ASSUME NEW q \in Procs, Answered(q)'
               PROVE  /\ op'[q].grant.access \in 0..issued' /\ op'[q].before < op'[q].grant.access
                      /\ op'[q].grant.refresh = IF mode'.rotates THEN newest' ELSE Absent
    OBVIOUS
  <2>1. CASE q = p
    BY <1>4, <1>5, <2>1
  <2>2. CASE q # p
    <3>1. Answered(q)  BY <1>3, <2>2 DEF Answered
    <3>2. ~mode.rotates  BY <1>2, <3>1, GrantRotates
    <3> QED BY <1>3, <1>5, <2>2, <3>1, <3>2 DEF Tokens
  <2> QED BY <2>1, <2>2
<1>13. ~mode'.rotates => newest' = 0
  BY <1>5 DEF Tokens
<1> QED BY <1>6, <1>9, <1>10, <1>11, <1>12, <1>13 DEF Tokens

\* The endpoint has issued a token that the file has or nobody will ever have.
LEMMA TokensIssued ==
  ASSUME TokensInv, TypeOK', Issue, newest <= Limit,
         UpTo(file', issued', newest'),
         \A q \in Procs : (pc'[q] = pc[q] /\ op'[q] = op[q]) \/ pc'[q] = "idle"
  PROVE  Tokens'
<1> USE DEF TokensInv, SafeInv
<1>1. Limit = newest /\ \A q \in Procs : ~HasGrant(q)  BY AcceptedIsSaved
<1>2. \A q \in Procs : ~HasGrant(q)'
  BY <1>1 DEF HasGrant, Unsaved
<1>3. Limit' = newest'  BY <1>2 DEF Limit
<1>4. /\ mode' = mode /\ issued' = issued + 1 /\ newest' = IF mode.rotates THEN issued + 1 ELSE newest
      /\ issued \in Nat
  BY DEF Issue, TypeOK
<1>5. /\ newest <= Limit'
      /\ \A doc \in Document : UpTo(doc, issued, Limit) => UpTo(doc, issued', Limit')
  BY <1>3, IssueKeeps
<1>6. \A q \in Procs : pc'[q] \in Holding => UpTo(op'[q].doc, issued', Limit')
  <2> SUFFICES ASSUME NEW q \in Procs, pc'[q] \in Holding
               PROVE  UpTo(op'[q].doc, issued', Limit')
    OBVIOUS
  <2>1. pc'[q] = pc[q] /\ op'[q] = op[q]  BY DEF Holding
  <2>2. op[q].doc \in Document  BY DEF TypeOK, Operation
  <2> QED BY <1>5, <2>1, <2>2 DEF Tokens
<1>7. \A q \in Procs : pc'[q] = "refresh" => op'[q].token <= Limit' /\ op'[q].before <= issued'
  <2> SUFFICES ASSUME NEW q \in Procs, pc'[q] = "refresh"
               PROVE  op'[q].token <= Limit' /\ op'[q].before <= issued'
    OBVIOUS
  <2>1. pc'[q] = pc[q] /\ op'[q] = op[q]  OBVIOUS
  <2>2. op[q].token \in Int /\ op[q].before \in Int  BY DEF TypeOK, Operation
  <2>3. op[q].token <= newest /\ op[q].before <= issued  BY <1>1, <2>1 DEF Tokens
  <2>4. newest \in Int /\ Limit' \in Int  BY <1>3 DEF TypeOK
  <2> QED BY <1>4, <1>5, <2>1, <2>2, <2>3, <2>4
<1>8. \A q \in Procs : Answered(q)' =>
         /\ op'[q].grant.access \in 0..issued' /\ op'[q].before < op'[q].grant.access
         /\ op'[q].grant.refresh = IF mode'.rotates THEN newest' ELSE Absent
  <2> SUFFICES ASSUME NEW q \in Procs, Answered(q)'
               PROVE  /\ op'[q].grant.access \in 0..issued' /\ op'[q].before < op'[q].grant.access
                      /\ op'[q].grant.refresh = IF mode'.rotates THEN newest' ELSE Absent
    OBVIOUS
  <2>1. pc'[q] = pc[q] /\ op'[q] = op[q]  BY DEF Answered, Unsaved
  <2>2. Answered(q)  BY <2>1 DEF Answered
  <2>3. ~mode.rotates  BY <1>1, <2>2, GrantRotates
  <2> QED BY <1>4, <2>1, <2>2, <2>3 DEF Tokens
<1>9. ~mode'.rotates => newest' = 0
  BY <1>4 DEF Tokens
<1>10. UpTo(file', issued', Limit')  BY <1>3
<1> QED BY <1>2, <1>6, <1>7, <1>8, <1>9, <1>10 DEF Tokens

\* The numbers of the tokens: a document is saved.
LEMMA TokensSave ==
  ASSUME TokensInv, TypeOK', NEW p \in Procs, SaveDocument(p)
  PROVE  Tokens'
<1> USE DEF TokensInv, SafeInv
<1>1. \A q \in Procs \ {p} : pc'[q] = pc[q] /\ op'[q] = op[q]
  BY OthersStay DEF OpStep
<1>2. pc'[p] \in {"verify", "idle"}
  BY DEF SaveDocument, Return, Continue, Goto, TypeOK
<1>3. UNCHANGED endpoint /\ file' = Written(p) /\ pc[p] \in Holding
  BY DEF SaveDocument
<1>4. \A q \in Procs : /\ pc'[q] \in Holding => pc[q] \in Holding /\ op'[q] = op[q]
                       /\ pc'[q] = "refresh" => pc[q] = "refresh" /\ op'[q] = op[q]
                       /\ Answered(q)' => Answered(q) /\ op'[q] = op[q]
  BY <1>1, <1>2 DEF Holding, Answered, Unsaved
<1>5. \A q \in Procs : HasGrant(q)' => HasGrant(q) /\ q # p
  BY <1>2, <1>4 DEF HasGrant, Answered, Unsaved
<1>6. Limit <= Limit' /\ Limit \in Int /\ Limit' \in Int
  BY <1>3, <1>5, LimitType, LimitGrows DEF Limit, endpoint, TypeOK
<1>7. /\ op[p].doc \in Document /\ op[p].grant \in Holder /\ issued \in Int
      /\ UpTo(op[p].doc, issued, Limit)
  BY <1>3 DEF TypeOK, Operation, Tokens
<1>8. UpTo(op[p].doc, issued, Limit')
  BY <1>6, <1>7, UpToGrows
<1>9. UpTo(file', issued, Limit')
  <2>1. CASE pc[p] = "save" /\ op[p].kind = "resign"
    <3>1. Answered(p)  BY <2>1 DEF Answered, Unsaved
    <3>2. op[p].grant.access <= issued  BY <3>1 DEF Tokens, TypeOK
    <3>3. op[p].grant.refresh <= Limit'
      <4>1. CASE mode.rotates
        <5>1. HasGrant(p)  BY <3>1, <4>1, GrantRotates
        <5>2. \A q \in Procs : ~HasGrant(q)'  BY <1>5, <5>1 DEF Tokens
        <5>3. Limit' = newest'  BY <5>2 DEF Limit
        <5> QED BY <1>3, <3>1, <4>1, <5>3 DEF Tokens, endpoint, TypeOK
      <4>2. CASE ~mode.rotates
        <5>1. op[p].grant.refresh = Absent  BY <3>1, <4>2 DEF Tokens
        <5> QED BY <1>6, <5>1, LimitType DEF Absent
      <4> QED BY <4>1, <4>2
    <3>4. UpTo(WithTokens(op[p].doc, op[p].grant), issued, Limit')
      BY <1>6, <1>7, <1>8, <3>2, <3>3, WrittenUpTo
    <3> QED BY <1>3, <2>1, <3>4 DEF Written
  <2>2. CASE ~(pc[p] = "save" /\ op[p].kind = "resign")
    BY <1>3, <1>8, <2>2 DEF Written, Holding, WithDisabled, WithPriority, UpTo
  <2> QED BY <2>1, <2>2
<1> QED BY <1>3, <1>4, <1>9, TokensQuiet DEF Tokens

\* The numbers of the tokens: every step of an operation.
LEMMA TokensOp ==
  ASSUME TokensInv, TypeOK', NEW p \in Procs, OpStep(p)
  PROVE  Tokens'
<1> USE DEF TokensInv, SafeInv
<1>1. \A q \in Procs \ {p} : pc'[q] = pc[q] /\ op'[q] = op[q]
  BY OthersStay
<1>2. issued \in Int /\ newest \in Int /\ Limit \in Int /\ Absent <= Limit /\ Absent <= issued
  BY LimitType DEF TypeOK, Absent
<1>3. CASE PrepareResign(p)
  <2>1. /\ pc'[p] = "refresh" /\ pc[p] = "idle" /\ UNCHANGED <<file, endpoint>>
        /\ op'[p].token = TokenField(file, "refresh") /\ op'[p].before = TokenField(file, "access")
    BY <1>3 DEF PrepareResign, Goto, TypeOK, Fresh
  <2>2. op'[p].token <= Limit /\ op'[p].before <= issued
    BY <1>2, <2>1, ReadUpTo DEF Tokens, TypeOK
  <2>3. \A q \in Procs : Answered(q)' <=> Answered(q)
    BY <1>1, <2>1 DEF Answered, Unsaved
  <2>4. \A q \in Procs : HasGrant(q)' <=> HasGrant(q)
    BY <1>1, <2>1 DEF HasGrant, Unsaved
  <2>5. Limit' = Limit
    BY <2>1, <2>4 DEF Limit, endpoint
  <2>6. \A q \in Procs : pc'[q] \in Holding => pc[q] \in Holding /\ op'[q] = op[q]
    BY <1>1, <2>1 DEF Holding
  <2>7. \A q \in Procs : Answered(q)' => op'[q] = op[q]
    BY <1>1, <2>1 DEF Answered, Unsaved
  <2>8. \A q \in Procs : pc'[q] = "refresh" => op'[q].token <= Limit' /\ op'[q].before <= issued'
    BY <1>1, <2>1, <2>2, <2>5 DEF Tokens, endpoint
  <2> QED BY <2>1, <2>3, <2>4, <2>5, <2>6, <2>7, <2>8 DEF Tokens, endpoint
<1>4. CASE Refresh(p)
  BY <1>4, TokensRefresh
<1>5. CASE AnswerLost(p)
  <2>1. newest <= Limit  BY <1>5 DEF AnswerLost, Tokens
  <2>2. UpTo(file', issued', newest')
    <3>1. issued' \in Int /\ newest' \in Int /\ issued <= issued' /\ newest <= newest'
      BY <1>5, IssueType DEF AnswerLost, Issue, TypeOK
    <3>2. UpTo(file, issued, newest)  BY <2>1, AcceptedIsSaved DEF Tokens
    <3> QED BY <1>2, <1>5, <3>1, <3>2, UpToGrows DEF AnswerLost, TypeOK
  <2>3. pc'[p] = "idle"  BY <1>5 DEF AnswerLost, Goto, TypeOK
  <2> QED BY <1>1, <1>5, <2>1, <2>2, <2>3, TokensIssued DEF AnswerLost
<1>6. CASE SaveDocument(p)
  BY <1>6, TokensSave
<1> DEFINE Quiet(q) ==
       /\ pc'[q] \in Holding => UpTo(op'[q].doc, issued, Limit)
       /\ pc'[q] = "refresh" => /\ pc[q] = "refresh"
                                /\ op'[q].token = op[q].token /\ op'[q].before = op[q].before
       /\ Answered(q)' => /\ Answered(q)
                          /\ op'[q].grant = op[q].grant /\ op'[q].before = op[q].before
<1>7. \A q \in Procs \ {p} : Quiet(q)
  BY <1>1 DEF Tokens, Answered
<1>8. ASSUME Quiet(p), UNCHANGED endpoint, file'.at = file.at
      PROVE  Tokens'
  <2>1. \A q \in Procs : Quiet(q)  BY <1>7, <1>8
  <2>2. \A q \in Procs : HasGrant(q)' => HasGrant(q)  BY <2>1 DEF HasGrant, Answered
  <2>3. Limit <= Limit' /\ Limit' \in Int
    BY <1>8, <2>2, LimitType, LimitGrows DEF Limit, endpoint, TypeOK
  <2>4. UpTo(file, issued, Limit')
    BY <1>2, <2>3, UpToGrows DEF Tokens, TypeOK
  <2>5. UpTo(file', issued, Limit')  BY <1>8, <2>4 DEF UpTo
  <2> QED BY <1>8, <2>1, <2>5, TokensQuiet
<1>9. CASE RefreshFails(p)
  BY <1>8, <1>9 DEF RefreshFails, Goto, TypeOK, Holding, Answered, Unsaved
<1>10. CASE StartProbe(p) \/ (\E kind \in {"enable", "disable", "sync"} : StartWrite(p, kind))
  <2>1. op'[p].kind # "resign" /\ pc'[p] \in {"lock", "http"} /\ UNCHANGED <<file, endpoint>>
    BY <1>10 DEF StartProbe, StartWrite, Goto, TypeOK, Fresh
  <2> QED BY <1>8, <2>1 DEF Holding, Answered
<1>11. CASE \E result \in ProbeResults \cup {"error"} : ProbeAnswer(p, result)
  <2>1. op'[p].kind # "resign" /\ pc'[p] = "lock" /\ UNCHANGED <<file, endpoint>>
    BY <1>11 DEF ProbeAnswer, Goto, TypeOK, Operation, Shape
  <2> QED BY <1>8, <2>1 DEF Holding, Answered
<1>12. CASE Lock(p)
  BY <1>8, <1>12 DEF Lock, Goto, TypeOK, Holding, Answered, Unsaved
<1>13. ASSUME Return(p), UNCHANGED endpoint, file'.at = file.at  PROVE Tokens'
  BY <1>8, <1>13 DEF Return, Goto, TypeOK, Holding, Answered, Unsaved
<1>14. CASE ListAgain(p)
  <2>1. CASE Continue(p, "get") \/ Continue(p, "status")
    BY <1>8, <1>14, <2>1 DEF ListAgain, Continue, Goto, TypeOK, Holding, Answered, Unsaved
  <2>2. CASE Goto(p, ToPriority)
    BY <1>8, <1>14, <2>2 DEF ListAgain, ToPriority, Goto, TypeOK, Holding, Answered, Unsaved
  <2> QED BY <1>13, <1>14, <2>1, <2>2 DEF ListAgain
<1>15. CASE GetDocument(p)
  <2>1. /\ op'[p].doc = file /\ op'[p].grant = op[p].grant /\ op'[p].before = op[p].before
        /\ op'[p].kind = op[p].kind /\ UNCHANGED <<file, endpoint>>
        /\ pc'[p] = IF pc[p] = "get" THEN "save" ELSE "savePriority"
    BY <1>15 DEF GetDocument, Goto, TypeOK, Operation
  <2>2. Quiet(p)
    BY <1>15, <2>1 DEF GetDocument, Tokens, Answered, Unsaved
  <2> QED BY <1>8, <2>1, <2>2
<1>16. CASE SaveIgnored(p) \/ VerifyResign(p) \/ SetStatus(p) \/ OpFails(p)
  <2>1. CASE Return(p)
    BY <1>13, <1>16, <2>1 DEF SaveIgnored, VerifyResign, SetStatus, OpFails
  <2>2. CASE ~Return(p)
    BY <1>8, <1>16, <2>2 DEF SaveIgnored, VerifyResign, SetStatus, OpFails, Continue, ToPriority,
                             Goto, TypeOK, Holding, Answered, Unsaved
  <2> QED BY <2>1, <2>2
<1>17. CASE PatchPriority(p)
  BY <1>13, <1>17 DEF PatchPriority, WithPriority
<1>18. CASE Succeeds(p)
  <2>1. /\ pc[p] = "idle" /\ pc'[p] \in {"idle", "lock"} /\ (pc'[p] = "lock" => op'[p].kind # "resign")
        /\ UNCHANGED <<file, endpoint>>
    BY <1>18 DEF Succeeds, HandleSuccess, Goto, TypeOK, Fresh
  <2>2. Quiet(p)
    BY <2>1 DEF Holding, Answered, Unsaved
  <2> QED BY <1>8, <2>1, <2>2
<1> QED BY <1>3, <1>4, <1>5, <1>6, <1>9, <1>10, <1>11, <1>12, <1>14, <1>15, <1>16, <1>17, <1>18
        DEF OpStep, Succeeds

\* A refresh by the host leaves its new refresh token where the old one was read.
LEMMA HostRefreshes ==
  ASSUME TokensInv, TypeOK', HostRefresh
  PROVE  /\ newest <= Limit
         /\ UpTo(file', issued', newest')
         /\ TokenField(file', "refresh") = newest'
<1> USE DEF TokensInv, SafeInv
<1>1. newest <= Limit
  <2>1. TokenField(file, "refresh") <= Limit
    BY ReadUpTo, LimitType DEF Tokens, TypeOK, Absent
  <2> QED BY <2>1 DEF HostRefresh
<1>2. /\ issued' = issued + 1 /\ newest' \in Nat /\ newest' <= issued'
      /\ issued \in Nat /\ newest \in Nat /\ newest <= newest'
  BY DEF HostRefresh, Issue, TypeOK
<1>3. \A q \in Places :
        /\ file'.at[q].access = IF file.at[q].access >= 0 THEN issued + 1 ELSE file.at[q].access
        /\ file'.at[q].refresh = IF file.at[q].refresh >= 0 THEN newest' ELSE file.at[q].refresh
  BY DEF HostRefresh
<1>4. \A q \in Places : file.at[q].access \in Int /\ file.at[q].refresh \in Int
  BY DEF TypeOK, Document, Holder
<1>5. UpTo(file', issued', newest')
  BY <1>2, <1>3, <1>4 DEF UpTo
<1>6. HasToken(Places, file, "refresh")
  BY <1>2, FirstInNone DEF HostRefresh, TokenField, Absent
<1>7. HasToken(Places, file', "refresh")
  BY <1>2, <1>3, <1>6 DEF HasToken
<1>8. PICK q : IsFirst(q, Places, file', "refresh")
  BY <1>7, FirstInSome
<1>9. file'.at[q].refresh = newest'
  BY <1>3, <1>4, <1>8 DEF IsFirst
<1> QED BY <1>1, <1>5, <1>8, <1>9 DEF IsFirst, TokenField

\* The numbers of the tokens: every step.
LEMMA TokensStep ==
  ASSUME TokensInv, [Next]_vars, TypeOK'
  PROVE  Tokens'
<1> USE DEF TokensInv, SafeInv
<1>1. ASSUME NEW p \in Procs, OpStep(p)  PROVE Tokens'
  BY <1>1, TokensOp
<1>2. ASSUME file'.at = file.at, UNCHANGED <<endpoint, pc, op>>  PROVE Tokens'
  <2>1. Limit' = Limit  BY <1>2 DEF Limit, HasGrant, endpoint
  <2>2. UpTo(file', issued, Limit)  BY <1>2 DEF UpTo, Tokens
  <2> QED BY <1>2, <2>1, <2>2 DEF Tokens, endpoint, Answered, HasGrant
<1>3. CASE EditDisabled \/ (\E s \in Statuses : EditPriority(s))
  <2>1. file'.at = file.at /\ UNCHANGED <<endpoint, pc, op>>
    BY <1>3 DEF EditDisabled, EditPriority, WithDisabled, WithPriority
  <2> QED BY <1>2, <2>1
<1>4. CASE HostRefresh
  <2>1. \A q \in Procs : pc'[q] = pc[q] /\ op'[q] = op[q]
    BY <1>4 DEF HostRefresh
  <2> QED BY <1>4, <2>1, HostRefreshes, TokensIssued DEF HostRefresh
<1>5. CASE Restart
  <2>1. /\ UNCHANGED <<file, endpoint>> /\ \A q \in Procs : pc'[q] = "idle"
    BY <1>5 DEF Restart
  <2>2. \A q \in Procs : ~HasGrant(q)' /\ ~Answered(q)'
    BY <2>1 DEF HasGrant, Answered, Unsaved
  <2>3. Limit <= Limit' /\ Limit \in Int /\ Limit' \in Int /\ issued \in Int
    BY <2>1, <2>2, LimitType, LimitGrows DEF Limit, endpoint, TypeOK
  <2>4. UpTo(file', issued, Limit')
    BY <2>1, <2>3, UpToGrows DEF Tokens, TypeOK
  <2> QED BY <2>1, <2>2, <2>4, TokensQuiet DEF Holding
<1>6. CASE UNCHANGED vars
  BY <1>2, <1>6 DEF vars, endpoint
<1>7. CASE PanelStep
  BY <1>2, <1>7, PanelIsQuiet
<1> QED BY <1>1, <1>3, <1>4, <1>5, <1>6, <1>7 DEF Next, HostStep

\* The numbers of the tokens: the initial states.
LEMMA InitTokens == Init => Tokens
<1> SUFFICES ASSUME Init PROVE Tokens
  OBVIOUS
<1>1. \A q \in Places : file.at[q].access <= 0 /\ file.at[q].refresh <= 0
  BY LayoutsAssumption DEF Init
<1>2. \A p \in Procs : pc[p] = "idle" /\ ~HasGrant(p) /\ ~Answered(p)
  BY DEF Init, HasGrant, Answered, Unsaved
<1>3. Limit = 0 /\ issued = 0 /\ newest = 0
  BY <1>2 DEF Init, Limit
<1> QED BY <1>1, <1>2, <1>3 DEF Tokens, UpTo, Holding

\* A token that is not saved yet is newer than every other one.
THEOREM TokensAlways == Spec => []TokensInv
<1>1. Init => TokensInv
  BY InitType, InitShape, InitTokens DEF TokensInv, SafeInv, Hand, Init, Holding
<1>2. TokensInv /\ [Next]_vars => TokensInv'
  BY TypeStep, ShapeStep, HandStep, TokensStep DEF TokensInv, SafeInv
<1> QED BY <1>1, <1>2, PTL DEF Spec

\* A saved answer is what every reader of the document reads, whatever the
\* layout of the document.
THEOREM ResignReadable == Spec => ResignIsReadable
<1>1. ASSUME TokensInv, [Next]_vars, NEW p \in Procs,
             pc[p] = "save", pc'[p] = "verify", file' # file
      PROVE  LET grant == op[p].grant IN
             /\ TokenField(file', "access") = grant.access
             /\ BotFlagToken(file') = grant.access
             /\ ProbeToken(file') = grant.access
             /\ TokenField(file', "refresh") =
                  IF grant.refresh = Absent THEN TokenField(op[p].doc, "refresh") ELSE grant.refresh
             /\ \A q \in Places : file'.at[q].access \in {Absent, grant.access}
                                  \/ (file.text /\ q \in Inner)
  <2>1. \A q \in Procs \ {p} : ~OpStep(q)
    BY <1>1, OthersStay DEF TokensInv, SafeInv
  <2>2. ~HostStep /\ ~PanelStep /\ ~Restart /\ ~UNCHANGED vars
    BY <1>1, PanelIsQuiet DEF HostStep, EditDisabled, EditPriority, HostRefresh, Restart, vars
  <2>3. OpStep(p) => SaveDocument(p)
    BY <1>1 DEF OpStep, PrepareResign, Refresh, RefreshFails, AnswerLost, StartProbe, ProbeAnswer,
                StartWrite, Lock, ListAgain, GetDocument, SaveIgnored, VerifyResign, SetStatus,
                PatchPriority, OpFails, HandleSuccess
  <2>4. SaveDocument(p)
    BY <1>1, <2>1, <2>2, <2>3 DEF Next
  <2>5. op[p].kind = "resign"
    <3>1. Own(p) = "tokens"
      BY <1>1, <2>4 DEF SaveDocument, Return, Goto, TokensInv, SafeInv, TypeOK
    <3> QED BY <1>1, <3>1 DEF Own
  <2>6. file' = WithTokens(op[p].doc, op[p].grant)
    BY <1>1, <2>4, <2>5 DEF SaveDocument, Written
  <2>7. /\ op[p].doc \in Document /\ op[p].grant \in Holder /\ op[p].doc.text = file.text
    BY <1>1 DEF TokensInv, SafeInv, TypeOK, Operation, Hand, Agrees, Holding
  <2>8. /\ op[p].grant.access >= 0
        /\ op[p].grant.refresh = Absent \/ op[p].grant.refresh >= 0
    BY <1>1, <2>5 DEF TokensInv, SafeInv, TypeOK, Tokens, Answered, Unsaved
  <2> QED BY <2>6, <2>7, <2>8, GrantIsRead
<1>2. TokensInv /\ [Next]_vars =>
        [\A p \in Procs : pc[p] = "save" /\ pc'[p] = "verify" /\ file' # file =>
           LET grant == op[p].grant IN
           /\ TokenField(file', "access") = grant.access
           /\ BotFlagToken(file') = grant.access
           /\ ProbeToken(file') = grant.access
           /\ TokenField(file', "refresh") =
                IF grant.refresh = Absent THEN TokenField(op[p].doc, "refresh") ELSE grant.refresh
           /\ \A q \in Places : file'.at[q].access \in {Absent, grant.access}
                                \/ (file.text /\ q \in Inner)]_vars
  BY <1>1
<1> QED BY <1>2, TokensAlways, PTL DEF Spec, ResignIsReadable

-----------------------------------------------------------------------------
(* The token a status was measured with.                                   *)

Measured == stale \/ status = "unknown" \/ probed = ProbeToken(file)

Committing(p) == op[p].kind = "resign" /\ pc[p] \in {"verify", "status"}

\* A resign whose write-back check will fail has not changed the tokens.
Unwritten(p) ==
  pc[p] = "verify" /\ TokenField(file, "access") = op[p].before /\ op[p].before # Absent

Current == StatusIsCurrent /\ \A p \in Procs : Unwritten(p) => Measured

\* The property in the words of this section.
LEMMA CurrentCases == StatusIsCurrent <=> Measured \/ \E p \in Procs : Committing(p)
BY DEF StatusIsCurrent, Measured, Committing

\* Readers do not see a change of the other fields.
LEMMA TokensSame ==
  ASSUME file'.at = file.at
  PROVE  /\ ProbeToken(file)' = ProbeToken(file)
         /\ TokenField(file, "access")' = TokenField(file, "access")
         /\ TokenField(file, "refresh")' = TokenField(file, "refresh")
BY DEF ProbeToken, TokenField, FirstIn

\* Steps that leave tokens, status and resigns under way alone.
LEMMA CurrentQuiet ==
  ASSUME Current, file'.at = file.at, UNCHANGED <<status, probed>>, stale => stale',
         \A q \in Procs : Committing(q) => Committing(q)',
         \A q \in Procs : pc'[q] = "verify" => pc[q] = "verify" /\ op'[q].before = op[q].before
  PROVE  Current'
<1>1. Measured => Measured'  BY TokensSame DEF Measured
<1>2. \A q \in Procs : Unwritten(q)' => Unwritten(q)  BY TokensSame DEF Unwritten
<1>3. Measured' \/ \E q \in Procs : Committing(q)'  BY <1>1, CurrentCases DEF Current
<1>4. StatusIsCurrent'  BY <1>3 DEF StatusIsCurrent, Measured, Committing
<1> QED BY <1>1, <1>2, <1>4 DEF Current

\* Measured tokens are enough when no check is under way.
LEMMA CurrentMeasured ==
  ASSUME Measured'
  PROVE  Current'
BY DEF Current, StatusIsCurrent, Measured

\* The measured token: every step of an operation.
LEMMA CurrentOp ==
  ASSUME TokensInv, Current, TypeOK', NEW p \in Procs, OpStep(p)
  PROVE  Current'
<1> USE DEF TokensInv, SafeInv
<1>1. \A q \in Procs \ {p} : pc'[q] = pc[q] /\ op'[q] = op[q]
  BY OthersStay
<1>2. \A q \in Procs \ {p} : /\ Committing(q)' <=> Committing(q)
                             /\ pc'[q] = "verify" => pc[q] = "verify" /\ op'[q].before = op[q].before
  BY <1>1 DEF Committing
<1>3. pc[p] \in Held => \A q \in Procs \ {p} : pc[q] \notin Held /\ ~Committing(q) /\ pc'[q] # "verify"
  BY <1>1, OneHand DEF Committing, Held
<1>4. ASSUME ~Committing(p), pc'[p] # "verify", file'.at = file.at, UNCHANGED <<status, probed>>,
             stale => stale'
      PROVE  Current'
  BY <1>2, <1>4, CurrentQuiet
<1>5. CASE \/ PrepareResign(p) \/ Refresh(p) \/ RefreshFails(p) \/ AnswerLost(p) \/ StartProbe(p)
           \/ (\E result \in ProbeResults \cup {"error"} : ProbeAnswer(p, result))
           \/ (\E kind \in {"enable", "disable", "sync"} : StartWrite(p, kind)) \/ Lock(p)
  <2>1. /\ pc[p] \in {"idle", "refresh", "http", "lock"}
        /\ pc'[p] \in {"idle", "refresh", "http", "lock", "list"}
        /\ UNCHANGED <<file, status, probed, stale>>
    BY <1>5 DEF PrepareResign, Refresh, RefreshFails, AnswerLost, StartProbe, ProbeAnswer, StartWrite,
                Lock, Goto, TypeOK, history
  <2> QED BY <1>4, <2>1 DEF Committing
<1>6. CASE ListAgain(p) \/ GetDocument(p) \/ PatchPriority(p)
  <2>1. /\ pc[p] \in {"list", "get", "getPriority", "patch"} /\ pc'[p] # "verify"
        /\ file'.at = file.at /\ UNCHANGED <<status, probed, stale>>
    BY <1>6 DEF ListAgain, GetDocument, PatchPriority, WithPriority, Return, Continue, ToPriority, Goto,
                TypeOK, history
  <2> QED BY <1>4, <2>1 DEF Committing
<1>7. CASE SaveDocument(p)
  <2>1. pc[p] \in Holding /\ pc[p] \in Held /\ ~Committing(p) /\ file' = Written(p)
        /\ UNCHANGED <<status, probed>> /\ (stale => stale')
    BY <1>7 DEF SaveDocument, Holding, Held, Committing
  <2>2. CASE Own(p) = "tokens"
    <3>1. /\ pc[p] = "save" /\ op[p].kind = "resign" /\ Answered(p)
          /\ pc'[p] = "verify" /\ op' = op /\ file' = WithTokens(op[p].doc, op[p].grant)
      BY <1>7, <2>1, <2>2 DEF SaveDocument, Own, Holding, Answered, Unsaved, Continue, Goto, TypeOK, Written
    <3>2. /\ op[p].doc \in Document /\ op[p].grant \in Holder /\ op[p].before \in Int
          /\ op[p].grant.access >= 0 /\ op[p].before < op[p].grant.access
          /\ op[p].grant.refresh = Absent \/ op[p].grant.refresh >= 0
      BY <3>1 DEF TypeOK, Operation, Tokens
    <3>3. TokenField(file', "access") = op[p].grant.access
      BY <3>1, <3>2, GrantIsRead
    <3>4. ~Unwritten(p)'
      BY <3>1, <3>2, <3>3 DEF Unwritten, Holder
    <3>5. Committing(p)'  BY <3>1 DEF Committing
    <3>6. StatusIsCurrent'  BY <3>5 DEF StatusIsCurrent, Committing
    <3> QED BY <1>3, <2>1, <3>4, <3>6 DEF Current, Unwritten
  <2>3. CASE Own(p) # "tokens" /\ "tokens" \in raced[p]
    BY <1>7, <2>3, CurrentMeasured DEF SaveDocument, Dropped, Measured
  <2>4. CASE Own(p) # "tokens" /\ "tokens" \notin raced[p]
    <3>1. op[p].doc.at = file.at
      BY <2>1, <2>4 DEF Hand, Agrees, Field, Fields
    <3>2. file'.at = file.at
      BY <2>1, <2>4, <3>1 DEF Written, Own, WithDisabled, WithPriority
    <3>3. pc'[p] # "verify"
      BY <1>7, <2>4 DEF SaveDocument, Return, Goto, TypeOK
    <3> QED BY <1>4, <2>1, <3>2, <3>3
  <2> QED BY <2>2, <2>3, <2>4
<1>8. CASE SaveIgnored(p)
  <2>1. /\ pc[p] \in Held /\ ~Committing(p) /\ UNCHANGED <<file, status, probed, stale>>
    BY <1>8 DEF SaveIgnored, Holding, Held, Committing
  <2>2. Measured  BY <1>3, <2>1, CurrentCases DEF Current
  <2> QED BY <2>1, <2>2, CurrentMeasured DEF Measured
<1>9. CASE VerifyResign(p)
  <2>1. UNCHANGED <<file, status, probed, stale>> /\ pc[p] = "verify" /\ pc[p] \in Held
    BY <1>9 DEF VerifyResign, history, Held
  <2>2. CASE Continue(p, "status")
    <3>1. Committing(p)'
      BY <2>1, <2>2 DEF Continue, Goto, Committing, Shape, TypeOK
    <3>2. pc'[p] # "verify"  BY <2>2 DEF Continue, Goto, TypeOK
    <3> QED BY <1>2, <2>1, <3>1, <3>2, CurrentQuiet
  <2>3. CASE Unwritten(p)
    BY <2>1, <2>3, CurrentMeasured DEF Current, Measured
  <2> QED BY <1>9, <2>1, <2>2, <2>3 DEF VerifyResign, Unwritten
<1>10. CASE SetStatus(p)
  <2>1. file' = file /\ pc[p] = "status" /\ pc[p] \in Held /\ op[p].kind \in {"resign", "probe", "heal"}
    BY <1>10 DEF SetStatus, Shape, Held
  <2>2. CASE op[p].kind = "resign"
    BY <1>10, <2>2, CurrentMeasured DEF SetStatus, Record, Shape, Measured
  <2>3. CASE Record(op[p].want, op[p].token)
    BY <2>1, <2>3, CurrentMeasured DEF Record, Measured
  <2>4. CASE op[p].kind = "heal" /\ UNCHANGED <<status, probed, stale>>
    <3>1. ~Committing(p)  BY <2>4 DEF Committing
    <3>2. Measured  BY <1>3, <2>1, <3>1, CurrentCases DEF Current
    <3> QED BY <2>1, <2>4, <3>2, CurrentMeasured DEF Measured
  <2> QED BY <1>10, <2>1, <2>2, <2>3, <2>4 DEF SetStatus
<1>11. CASE OpFails(p)
  <2>1. /\ pc[p] # "verify" /\ pc'[p] = "idle" /\ UNCHANGED <<file, status, probed>> /\ (stale => stale')
    BY <1>11 DEF OpFails, Return, Goto, TypeOK
  <2>2. CASE Committing(p)
    BY <1>11, <2>1, <2>2, CurrentMeasured DEF OpFails, Committing, Measured
  <2>3. CASE ~Committing(p)
    BY <1>4, <2>1, <2>3
  <2> QED BY <2>2, <2>3
<1>12. CASE Succeeds(p)
  BY <1>12, SuccessIsQuiet, CurrentMeasured DEF Succeeds, HandleSuccess, Record, Measured
<1> QED BY <1>5, <1>6, <1>7, <1>8, <1>9, <1>10, <1>11, <1>12 DEF OpStep, Succeeds

\* The measured token: every step.
LEMMA CurrentStep ==
  ASSUME TokensInv, Current, [Next]_vars, TypeOK'
  PROVE  Current'
<1>1. ASSUME NEW p \in Procs, OpStep(p)  PROVE Current'
  BY <1>1, CurrentOp
<1>2. CASE EditDisabled \/ (\E s \in Statuses : EditPriority(s)) \/ UNCHANGED vars
  <2>1. file'.at = file.at /\ UNCHANGED <<status, probed, stale, pc, op>>
    BY <1>2 DEF EditDisabled, EditPriority, WithDisabled, WithPriority, vars
  <2> QED BY <2>1, CurrentQuiet DEF Committing
<1>3. CASE HostRefresh
  BY <1>3, CurrentMeasured DEF HostRefresh, Measured
<1>4. CASE Restart
  <2>1. CASE \E p \in Procs : Committing(p)
    BY <1>4, <2>1, CurrentMeasured DEF Restart, Committing, Measured
  <2>2. CASE ~ \E p \in Procs : Committing(p)
    BY <1>4, <2>2, CurrentCases, CurrentMeasured DEF Restart, Current, Measured
  <2> QED BY <2>1, <2>2
<1>5. CASE SaveQuota
  BY <1>5, CurrentMeasured DEF SaveQuota, Record, Measured
<1>6. CASE ClearState
  BY <1>6, CurrentMeasured DEF ClearState, Measured
<1>7. CASE DraftQuota
  BY <1>7, CurrentQuiet DEF DraftQuota, history, Committing
<1> QED BY <1>1, <1>2, <1>3, <1>4, <1>5, <1>6, <1>7 DEF Next, HostStep, PanelStep

\* A recorded status was measured with the token in the file, or it is known
\* why not.
THEOREM StatusCurrent == Spec => []StatusIsCurrent
<1>1. Init => Current
  BY DEF Init, Current, StatusIsCurrent, Measured, Unwritten
<1>2. TokensInv /\ TokensInv' /\ Current /\ [Next]_vars => Current'
  BY CurrentStep DEF TokensInv, SafeInv
<1>3. Current => StatusIsCurrent
  BY DEF Current
<1> QED BY <1>1, <1>2, <1>3, TokensAlways, PTL DEF Spec

-----------------------------------------------------------------------------
(* The refresh token the endpoint accepts.                                 *)

\* An endpoint that does not rotate its refresh tokens has issued one, and it
\* stays where every reader finds it.
Rooted ==
  ~mode.rotates =>
    /\ TokenField(file, "refresh") = 0
    /\ \A p \in Procs : pc[p] \in Holding => TokenField(op[p].doc, "refresh") = 0

\* No step changes the kind of the endpoint.
LEMMA ModeStays ==
  ASSUME [Next]_vars
  PROVE  mode' = mode
BY DEF Next, OpStep, HostStep, PrepareResign, Refresh, RefreshFails, AnswerLost, StartProbe,
       ProbeAnswer, StartWrite, Lock, ListAgain, GetDocument, SaveDocument, SaveIgnored, VerifyResign,
       SetStatus, PatchPriority, OpFails, EditDisabled, EditPriority, HostRefresh, Restart, Issue, HandleSuccess,
       PanelStep, DraftQuota, SaveQuota, ClearState,
       endpoint, vars

\* Which steps touch the tokens of the file or take up a document.
LEMMA TouchesTokens ==
  ASSUME TokensInv, [Next]_vars
  PROVE  \/ \E p \in Procs : GetDocument(p) \/ SaveDocument(p)
         \/ HostRefresh
         \/ /\ file'.at = file.at
            /\ \A q \in Procs : pc'[q] \in Holding => pc[q] \in Holding /\ op'[q] = op[q]
<1> USE DEF TokensInv, SafeInv
<1>1. ASSUME NEW p \in Procs, OpStep(p), ~GetDocument(p), ~SaveDocument(p)
      PROVE  /\ file'.at = file.at
             /\ \A q \in Procs : pc'[q] \in Holding => pc[q] \in Holding /\ op'[q] = op[q]
  <2>1. \A q \in Procs \ {p} : pc'[q] = pc[q] /\ op'[q] = op[q]
    BY <1>1, OthersStay
  <2>2. file'.at = file.at /\ pc'[p] \notin Holding
    <3>1. CASE PrepareResign(p) \/ Refresh(p) \/ RefreshFails(p) \/ AnswerLost(p)
      BY <3>1 DEF PrepareResign, Refresh, RefreshFails, AnswerLost, Goto, TypeOK, Holding
    <3>2. CASE StartProbe(p) \/ (\E result \in ProbeResults \cup {"error"} : ProbeAnswer(p, result))
               \/ (\E kind \in {"enable", "disable", "sync"} : StartWrite(p, kind)) \/ Lock(p)
      BY <3>2 DEF StartProbe, ProbeAnswer, StartWrite, Lock, Goto, TypeOK, Holding
    <3>3. CASE ListAgain(p) \/ SaveIgnored(p) \/ VerifyResign(p) \/ SetStatus(p) \/ OpFails(p)
      BY <3>3 DEF ListAgain, SaveIgnored, VerifyResign, SetStatus, OpFails, Return, Continue,
                  ToPriority, Goto, TypeOK, Holding
    <3>4. CASE PatchPriority(p)
      BY <3>4 DEF PatchPriority, WithPriority, Return, Goto, TypeOK, Holding
    <3>5. CASE Succeeds(p)
      BY <3>5, SuccessIsQuiet DEF Holding
    <3> QED BY <1>1, <3>1, <3>2, <3>3, <3>4, <3>5 DEF OpStep, Succeeds
  <2> QED BY <2>1, <2>2
<1>2. CASE EditDisabled \/ (\E s \in Statuses : EditPriority(s)) \/ UNCHANGED vars
  BY <1>2 DEF EditDisabled, EditPriority, WithDisabled, WithPriority, vars
<1>3. CASE Restart
  BY <1>3 DEF Restart, Holding
<1>4. CASE PanelStep
  BY <1>4, PanelIsQuiet
<1> QED BY <1>1, <1>2, <1>3, <1>4 DEF Next, HostStep

\* The only refresh token of an endpoint that does not rotate stays readable.
LEMMA RootedStep ==
  ASSUME TokensInv, TokensInv', Rooted, [Next]_vars, ~mode.rotates
  PROVE  Rooted'
<1> USE DEF TokensInv, SafeInv
<1>1. mode' = mode /\ newest' = 0
  BY ModeStays DEF Tokens
<1>2. /\ TokenField(file, "refresh") = 0
      /\ \A p \in Procs : pc[p] \in Holding => TokenField(op[p].doc, "refresh") = 0
  BY DEF Rooted
<1>3. ASSUME NEW p \in Procs, GetDocument(p)  PROVE Rooted'
  <2>1. \A q \in Procs \ {p} : pc'[q] = pc[q] /\ op'[q] = op[q]
    BY <1>3, OthersStay DEF OpStep
  <2>2. op'[p].doc = file /\ file' = file
    BY <1>3 DEF GetDocument, TypeOK, Operation
  <2> QED BY <1>2, <2>1, <2>2 DEF Rooted
<1>4. ASSUME NEW p \in Procs, SaveDocument(p)  PROVE Rooted'
  <2>1. \A q \in Procs : pc'[q] \in Holding => pc[q] \in Holding /\ op'[q] = op[q]
    <3>1. \A q \in Procs \ {p} : pc'[q] = pc[q] /\ op'[q] = op[q]
      BY <1>4, OthersStay DEF OpStep
    <3>2. pc'[p] \notin Holding
      BY <1>4 DEF SaveDocument, Return, Continue, Goto, TypeOK, Holding
    <3> QED BY <3>1, <3>2
  <2>2. pc[p] \in Holding /\ file' = Written(p) /\ TokenField(op[p].doc, "refresh") = 0
    BY <1>2, <1>4 DEF SaveDocument
  <2>3. CASE pc[p] = "save" /\ op[p].kind = "resign"
    <3>1. Answered(p)  BY <2>3 DEF Answered, Unsaved
    <3>2. /\ op[p].doc \in Document /\ op[p].grant \in Holder
          /\ op[p].grant.access >= 0 /\ op[p].grant.refresh = Absent
      BY <3>1 DEF TypeOK, Operation, Tokens
    <3>3. TokenField(WithTokens(op[p].doc, op[p].grant), "refresh") = TokenField(op[p].doc, "refresh")
      BY <3>2, GrantIsRead
    <3>4. TokenField(file', "refresh") = 0
      BY <2>2, <2>3, <3>3 DEF Written
    <3> QED BY <1>2, <2>1, <3>4 DEF Rooted
  <2>4. CASE ~(pc[p] = "save" /\ op[p].kind = "resign")
    <3>1. file'.at = op[p].doc.at
      BY <2>2, <2>4 DEF Written, Holding, WithDisabled, WithPriority
    <3>2. TokenField(file', "refresh") = 0
      BY <2>2, <3>1, FirstInSame DEF TokenField
    <3> QED BY <1>2, <2>1, <3>2 DEF Rooted
  <2> QED BY <2>3, <2>4
<1>5. CASE HostRefresh
  <2>1. TokenField(file', "refresh") = 0
    BY <1>1, <1>5, HostRefreshes
  <2>2. pc' = pc /\ op' = op
    BY <1>5 DEF HostRefresh
  <2> QED BY <1>2, <2>1, <2>2 DEF Rooted
<1>6. CASE /\ file'.at = file.at
           /\ \A q \in Procs : pc'[q] \in Holding => pc[q] \in Holding /\ op'[q] = op[q]
  BY <1>2, <1>6, TokensSame DEF Rooted
<1> QED BY <1>3, <1>4, <1>5, <1>6, TouchesTokens

\* Steps that leave the tokens of the file and the endpoint alone.
LEMMA KeptQuiet ==
  ASSUME RefreshTokenKept, file'.at = file.at, newest' = newest, lost => lost',
         \A q \in Procs : HasGrant(q) => HasGrant(q)' \/ lost'
  PROVE  RefreshTokenKept'
<1>1. TokenField(file, "refresh")' = TokenField(file, "refresh")
  BY TokensSame
<1> QED BY <1>1 DEF RefreshTokenKept

\* The accepted refresh token: every step of an operation, when tokens rotate.
LEMMA KeptOp ==
  ASSUME TokensInv, RefreshTokenKept, mode.rotates, NEW p \in Procs, OpStep(p)
  PROVE  RefreshTokenKept'
<1> USE DEF TokensInv, SafeInv
<1>1. \A q \in Procs \ {p} : HasGrant(q) => HasGrant(q)'
  BY OthersStay DEF HasGrant
<1>2. ASSUME file'.at = file.at, newest' = newest, lost => lost', HasGrant(p) => HasGrant(p)' \/ lost'
      PROVE  RefreshTokenKept'
  BY <1>1, <1>2, KeptQuiet
<1>3. CASE \/ PrepareResign(p) \/ RefreshFails(p) \/ StartProbe(p)
           \/ (\E result \in ProbeResults \cup {"error"} : ProbeAnswer(p, result))
           \/ (\E kind \in {"enable", "disable", "sync"} : StartWrite(p, kind))
  <2>1. ~HasGrant(p) /\ file' = file /\ newest' = newest /\ lost' = lost
    BY <1>3 DEF PrepareResign, RefreshFails, StartProbe, ProbeAnswer, StartWrite, HasGrant, Unsaved,
                endpoint, history
  <2> QED BY <1>2, <2>1
<1>4. CASE Refresh(p)
  <2>1. op'[p].kind = "resign" /\ op'[p].grant.refresh = issued + 1 /\ pc'[p] = "lock"
    BY <1>4 DEF Refresh, Goto, TypeOK, Operation, Shape
  <2>2. HasGrant(p)'
    BY <2>1 DEF HasGrant, Unsaved, Absent, TypeOK
  <2> QED BY <2>2 DEF RefreshTokenKept
<1>5. CASE AnswerLost(p)
  BY <1>5 DEF AnswerLost, RefreshTokenKept
<1>6. CASE Lock(p)
  <2>1. HasGrant(p) => HasGrant(p)'
    BY <1>6 DEF Lock, Goto, TypeOK, HasGrant, Unsaved
  <2> QED BY <1>2, <1>6, <2>1 DEF Lock, endpoint, history
<1>7. CASE ListAgain(p)
  <2>1. HasGrant(p) => HasGrant(p)'
    BY <1>7 DEF ListAgain, Continue, Goto, TypeOK, HasGrant, Unsaved
  <2> QED BY <1>2, <1>7, <2>1 DEF ListAgain, endpoint, history
<1>8. CASE GetDocument(p)
  <2>1. op'[p].kind = op[p].kind /\ op'[p].grant = op[p].grant
    BY <1>8 DEF GetDocument, TypeOK, Operation
  <2>2. HasGrant(p) => HasGrant(p)'
    BY <1>8, <2>1 DEF GetDocument, Goto, TypeOK, HasGrant, Unsaved
  <2> QED BY <1>2, <1>8, <2>2 DEF GetDocument, endpoint
<1>9. CASE SaveDocument(p)
  <2>1. pc[p] \in Holding /\ file' = Written(p) /\ newest' = newest /\ (lost => lost')
    BY <1>9 DEF SaveDocument, endpoint
  <2>2. CASE Own(p) = "tokens"
    <3>1. Answered(p) /\ file' = WithTokens(op[p].doc, op[p].grant)
      BY <2>1, <2>2 DEF Own, Holding, Answered, Unsaved, Written
    <3>2. /\ op[p].doc \in Document /\ op[p].grant \in Holder
          /\ op[p].grant.access >= 0 /\ op[p].grant.refresh = newest /\ newest >= 0
      BY <3>1 DEF TypeOK, Operation, Tokens
    <3>3. TokenField(file', "refresh") = newest'
      <4>1. op[p].grant.refresh # Absent /\ op[p].grant.refresh >= 0
        BY <3>2 DEF Absent
      <4>2. TokenField(WithTokens(op[p].doc, op[p].grant), "refresh") = op[p].grant.refresh
        BY <3>2, <4>1, GrantIsRead
      <4> QED BY <2>1, <3>1, <3>2, <4>2
    <3> QED BY <3>3 DEF RefreshTokenKept
  <2>3. CASE Own(p) # "tokens" /\ "tokens" \in raced[p]
    BY <1>9, <2>3 DEF SaveDocument, Dropped, RefreshTokenKept
  <2>4. CASE Own(p) # "tokens" /\ "tokens" \notin raced[p]
    <3>1. op[p].doc.at = file.at
      BY <2>1, <2>4 DEF Hand, Agrees, Field, Fields
    <3>2. file'.at = file.at
      BY <2>1, <2>4, <3>1 DEF Written, Own, WithDisabled, WithPriority
    <3>3. ~HasGrant(p)
      BY <2>1, <2>4 DEF HasGrant, Own, Holding, Unsaved
    <3> QED BY <1>2, <2>1, <3>2, <3>3
  <2> QED BY <2>2, <2>3, <2>4
<1>10. CASE SaveIgnored(p) \/ OpFails(p)
  BY <1>2, <1>10 DEF SaveIgnored, OpFails, endpoint
<1>11. CASE VerifyResign(p) \/ SetStatus(p) \/ PatchPriority(p)
  <2>1. ~HasGrant(p) /\ file'.at = file.at /\ newest' = newest /\ lost' = lost
    BY <1>11 DEF VerifyResign, SetStatus, PatchPriority, WithPriority, HasGrant, Unsaved, endpoint, history
  <2> QED BY <1>2, <2>1
<1>12. CASE Succeeds(p)
  <2>1. ~HasGrant(p)  BY <1>12, SuccessIsQuiet DEF HasGrant, Unsaved
  <2> QED BY <1>2, <1>12, <2>1, SuccessIsQuiet DEF endpoint
<1> QED BY <1>3, <1>4, <1>5, <1>6, <1>7, <1>8, <1>9, <1>10, <1>11, <1>12 DEF OpStep, Succeeds

\* The accepted refresh token: every step.
LEMMA KeptStep ==
  ASSUME TokensInv, TokensInv', Rooted, RefreshTokenKept, [Next]_vars
  PROVE  Rooted' /\ RefreshTokenKept'
<1> USE DEF TokensInv, SafeInv
<1>1. mode' = mode  BY ModeStays
<1>2. CASE ~mode.rotates
  <2>1. Rooted'  BY <1>2, RootedStep
  <2>2. TokenField(file, "refresh")' = 0 /\ newest' = 0
    BY <1>1, <1>2, <2>1 DEF Rooted, Tokens
  <2>3. RefreshTokenKept'  BY <2>2 DEF RefreshTokenKept
  <2> QED BY <2>1, <2>3
<1>3. CASE mode.rotates
  <2>1. Rooted'  BY <1>1, <1>3 DEF Rooted
  <2>2. ASSUME NEW p \in Procs, OpStep(p)  PROVE RefreshTokenKept'
    BY <1>3, <2>2, KeptOp
  <2>3. ASSUME EditDisabled \/ (\E s \in Statuses : EditPriority(s)) \/ UNCHANGED vars
        PROVE  RefreshTokenKept'
    <3>1. file'.at = file.at /\ UNCHANGED <<newest, lost, pc, op>>
      BY <2>3 DEF EditDisabled, EditPriority, WithDisabled, WithPriority, vars, endpoint
    <3>2. \A q \in Procs : HasGrant(q) => HasGrant(q)'
      BY <3>1 DEF HasGrant
    <3> QED BY <3>1, <3>2, KeptQuiet
  <2>4. ASSUME HostRefresh  PROVE RefreshTokenKept'
    BY <2>4, HostRefreshes DEF RefreshTokenKept
  <2>5. ASSUME Restart  PROVE RefreshTokenKept'
    <3>1. file' = file /\ newest' = newest /\ (lost => lost') /\ \A q \in Procs : HasGrant(q) => lost'
      BY <2>5 DEF Restart, endpoint
    <3> QED BY <3>1, KeptQuiet
  <2>6. ASSUME PanelStep  PROVE RefreshTokenKept'
    <3>1. file' = file /\ UNCHANGED <<newest, lost, pc, op>>
      BY <2>6, PanelIsQuiet DEF endpoint
    <3>2. \A q \in Procs : HasGrant(q) => HasGrant(q)'
      BY <3>1 DEF HasGrant
    <3> QED BY <3>1, <3>2, KeptQuiet
  <2>7. RefreshTokenKept'
    BY <2>2, <2>3, <2>4, <2>5, <2>6 DEF Next, HostStep
  <2> QED BY <2>1, <2>7
<1> QED BY <1>2, <1>3

\* The refresh token the endpoint accepts is in the file or in the hand of a
\* resign that will save it, except after one of the losses `lost' names.
THEOREM RefreshKept == Spec => []RefreshTokenKept
<1>1. Init => Rooted /\ RefreshTokenKept
  BY LayoutsAssumption DEF Init, Rooted, RefreshTokenKept, Holding
<1>2. TokensInv /\ TokensInv' /\ Rooted /\ RefreshTokenKept /\ [Next]_vars
        => Rooted' /\ RefreshTokenKept'
  BY KeptStep
<1> QED BY <1>1, <1>2, TokensAlways, PTL DEF Spec
=============================================================================
