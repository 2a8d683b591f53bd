----------------------------- MODULE AuthLayout -----------------------------
(***************************************************************************)
(* Where an auth document keeps its OAuth tokens.                          *)
(*                                                                         *)
(* The host stores one JSON document per account.  Its tokens stand at the *)
(* top level or in a container (credentials, auth, oauth, tokens), and     *)
(* possibly once more in the same places below a `json' field, which is an *)
(* object or a string with JSON text.  Three readers and one writer of the *)
(* plugin know these places: extractTokenField (resign), extractAccessToken*)
(* (bot flag), extractProbeAccessToken (probe) and applyTokenRefresh.      *)
(***************************************************************************)
EXTENDS Integers

CONSTANT
  Containers   \* number of nested containers that are looked up (4 in the code)

ASSUME ContainersAssumption == Containers \in Nat

\* Places are numbered in the order in which they are looked up: the top level,
\* its containers, then the `json' value and its containers.
Outer  == 1..(1 + Containers)
Inner  == (2 + Containers)..(2 + 2 * Containers)
Places == Outer \cup Inner

\* A token is a natural number.  A field may be there without a token in it; an
\* object that is not there is one without both fields.
Absent  == -2
Empty   == -1
Holder  == [access : Int, refresh : Int]
Nothing == [access |-> Absent, refresh |-> Absent]

\* `text': the `json' value is a string.  The other two stand for the fields of
\* the document that the plugin writes besides the tokens.
Document == [at : [Places -> Holder], text : BOOLEAN, disabled : BOOLEAN, priority : Int]

-----------------------------------------------------------------------------
(* The readers.                                                            *)

\* The first place of S with a token in the field.
FirstIn(S, doc, field) ==
  LET found == {p \in S : doc.at[p][field] >= 0} IN
  IF found = {} THEN Absent
  ELSE doc.at[CHOOSE p \in found : \A q \in found : p <= q][field]

\* extractTokenField
TokenField(doc, field) == FirstIn(Places, doc, field)

\* extractAccessToken: the document first, then its `json' value.
BotFlagToken(doc) ==
  LET outer == FirstIn(Outer, doc, "access") IN
  IF outer # Absent THEN outer ELSE FirstIn(Inner, doc, "access")

\* extractProbeAccessToken does not look below `json'.
ProbeToken(doc) == FirstIn(Outer, doc, "access")

-----------------------------------------------------------------------------
(* The writer.  What was parsed from a string is a copy: it is not saved.   *)

HasTokens(holder) == holder.access # Absent \/ holder.refresh # Absent

\* setTokenFields: an answer without a refresh token leaves the old one.
SetTokens(holder, grant) ==
  [access  |-> grant.access,
   refresh |-> IF grant.refresh = Absent THEN holder.refresh ELSE grant.refresh]

\* Mutant of Targets: only objects that hold tokens already are written.
TargetsWithTokens(doc) ==
  {p \in Places : HasTokens(doc.at[p]) /\ ~(doc.text /\ p \in Inner)}

Targets(doc) ==
  {1} \cup {p \in Places : HasTokens(doc.at[p]) /\ ~(doc.text /\ p \in Inner)}

\* applyTokenRefresh
WithTokens(doc, grant) ==
  [at       |-> [p \in Places |->
                   IF p \in Targets(doc) THEN SetTokens(doc.at[p], grant) ELSE doc.at[p]],
   text     |-> doc.text,
   disabled |-> doc.disabled,
   priority |-> doc.priority]

WithDisabled(doc, disabled) ==
  [at |-> doc.at, text |-> doc.text, disabled |-> disabled, priority |-> doc.priority]

WithPriority(doc, priority) ==
  [at |-> doc.at, text |-> doc.text, disabled |-> doc.disabled, priority |-> priority]
=============================================================================
