------------------------- MODULE AccountPolicyProofs ------------------------
(***************************************************************************)
(* Theorems about AccountPolicy, for every alphabet of inputs.             *)
(*                                                                         *)
(* The first parts are about the pure operators: how a pair is read,       *)
(* what NormalizeSettings does to any settings, and that a request, an     *)
(* environment and a state file leave settings that are Sound, no matter   *)
(* which fields they have.  PolicyInv then says that nothing but Sound     *)
(* settings and pairs with a known label travel through the program: that  *)
(* is what TypeOK and ReadersAgree need and do not say of themselves.      *)
(* CountInv, in the last part, is about the reports that were counted: the *)
(* sums over them grow by one report at a time (FiniteSums).               *)
(***************************************************************************)
EXTENDS AccountPolicy, FiniteSums, TLAPS

-----------------------------------------------------------------------------
(* Statuses and labels.                                                    *)

\* What the table of older labels has in it.
LEMMA Aliases ==
  /\ DOMAIN Alias = {"exceed", "failure", "cooling"}
  /\ Alias["exceed"] = "invalid" /\ Alias["failure"] = "invalid" /\ Alias["cooling"] = "throttled"
BY DEF Alias

\* An HTTP status always gives one of the statuses.
LEMMA ClassifiedStatus ==
  ASSUME NEW http \in Nat
  PROVE  ClassifyProbeHTTP(http) \in Statuses \ {"unknown"}
BY DEF ClassifyProbeHTTP, Statuses

\* Labels that need no HTTP status to be read, but for unusual.
Known == Labels \ {"", "unheard-of"}

\* A label that is known gives a status, and only `unusual' asks for the HTTP
\* status, for one of two that are neither live nor dead nor unknown.
LEMMA KnownStatus ==
  ASSUME NEW label \in Known, NEW http \in Nat
  PROVE  /\ NormalizeProbeStatus(label, http) \in Statuses
         /\ label # "unusual" => NormalizeProbeStatus(label, http) = NormalizeProbeStatus(label, 0)
         /\ label = "unusual" => NormalizeProbeStatus(label, http) \in {"throttled", "error"}
         /\ label # "live" => NormalizeProbeStatus(label, http) # "live"
         /\ label \in Statuses => NormalizeProbeStatus(label, http) = label
<1>1. CASE label \in Statuses
  BY <1>1, Aliases DEF Statuses, NormalizeProbeStatus
<1>2. CASE label \in DOMAIN Alias
  BY <1>2, Aliases DEF Statuses, NormalizeProbeStatus
<1>3. CASE label = "unusual"
  BY <1>3, Aliases DEF Statuses, NormalizeProbeStatus
<1> QED BY <1>1, <1>2, <1>3 DEF Known, Labels

\* A label that is empty or unknown is read by its HTTP status, if there is one.
LEMMA NoLabel ==
  /\ NormalizeProbeStatus("", 0) = ""
  /\ NormalizeProbeStatus("unheard-of", 0) = "unheard-of"
  /\ \A http \in Nat \ {0} : NormalizeProbeStatus("", http) = ClassifyProbeHTTP(http)
  /\ \A http \in Nat \ {0} : NormalizeProbeStatus("unheard-of", http) = ClassifyProbeHTTP(http)
<1>1. ASSUME NEW http \in Nat, NEW label \in {"", "unheard-of"}
      PROVE  /\ http > 0 => NormalizeProbeStatus(label, http) = ClassifyProbeHTTP(http)
             /\ ~(http > 0) => NormalizeProbeStatus(label, http) = label
  BY Aliases DEF Statuses, NormalizeProbeStatus
<1>2. \A http \in Nat \ {0} : http \in Nat /\ http > 0
  OBVIOUS
<1>3. 0 \in Nat /\ ~(0 > 0)
  OBVIOUS
<1> QED BY <1>1, <1>2, <1>3

\* Whatever the label, only live is read as live where the HTTP status is not given.
LEMMA OnlyLiveIsLive ==
  ASSUME NEW label \in Labels \ {"live"}
  PROVE  /\ CanonicalProbeStatus(label, 0) # "live"
         /\ CanonicalProbeStatus(label, 0) \in Statuses \/ label = "unheard-of"
<1>1. CASE label \in Known
  BY <1>1, KnownStatus DEF CanonicalProbeStatus, Statuses
<1>2. CASE label \in {"", "unheard-of"}
  BY <1>2, NoLabel DEF CanonicalProbeStatus, Statuses
<1> QED BY <1>1, <1>2 DEF Known

\* All readers of a pair that is known agree.
LEMMA PairIsRead ==
  ASSUME NEW label, NEW http, KnownPair([label |-> label, http |-> http])
  PROVE  LET synced == CanonicalProbeStatus(label, http) IN
         /\ CanonicalProbeStatus(ShownLabel(label, http), 0) = synced
         /\ (NormalizeProbeStatus(label, http) = "dead") <=> (synced = "dead")
         /\ (NormalizeProbeStatus(label, 0) = "dead") <=> (synced = "dead")
         /\ IsLiveProbe(label) <=> (synced = "live")
         /\ IsUnhealthyProbe(ShownLabel(label, http)) <=> (synced \notin {"live", "unknown"})
<1> http \in Nat /\ 0 \in Nat
  BY DEF KnownPair
<1>1. CASE label \in Known
  <2> DEFINE status == NormalizeProbeStatus(label, http)
  <2>1. status \in Statuses /\ status \in Known /\ status # ""
    BY <1>1, KnownStatus DEF Statuses, Known, Labels
  <2>2. NormalizeProbeStatus(status, 0) = status
    BY <2>1, KnownStatus
  <2>3. CanonicalProbeStatus(label, http) = status /\ CanonicalProbeStatus(status, 0) = status
    BY <2>1, <2>2 DEF CanonicalProbeStatus
  <2>4. ShownLabel(label, http) = status
    BY <1>1 DEF ShownLabel, Known
  <2>5. NormalizeProbeStatus(label, 0) = "dead" <=> status = "dead"
    BY <1>1, KnownStatus
  <2>6. label = "live" <=> status = "live"
    BY <1>1, KnownStatus DEF Statuses
  <2> HIDE DEF status
  <2> QED BY <2>3, <2>4, <2>5, <2>6 DEF IsLiveProbe, IsUnhealthyProbe, CanonicalProbeStatus
<1>2. CASE label = "" /\ http = 0
  BY <1>2, NoLabel DEF CanonicalProbeStatus, ShownLabel, IsLiveProbe, IsUnhealthyProbe
<1> QED BY <1>1, <1>2 DEF KnownPair, Known

-----------------------------------------------------------------------------
(* NormalizeSettings.                                                      *)

\* The default of a status other than live is never zero.
LEMMA DefaultsTyped ==
  /\ DefaultPriority \in [Statuses -> Int]
  /\ \A t \in Statuses \ {"live"} : DefaultPriority[t] # 0
  /\ DefaultSettings \in Settings
BY DEF DefaultPriority, DefaultSettings, Settings, Statuses

\* What fills a gap is a number, and never zero where the status is not live.
LEMMA OlderTyped ==
  ASSUME NEW s \in Settings, NEW t \in Statuses
  PROVE  /\ Older(s, t) \in Int
         /\ t # "live" => Older(s, t) # 0
         /\ t = "live" => Older(s, t) = 0 \/ (Older(s, t) = s.restore /\ \A r \in Statuses : s.priority[r] = 0)
<1> USE DefaultsTyped
<1>1. /\ s.restore \in Int /\ s.dead \in Int /\ s.demotion \in Int /\ s.anomaly \in Int
  BY DEF Settings
<1>2. CASE t = "live"
  BY <1>1, <1>2 DEF Older
<1>3. CASE t = "dead"
  BY <1>1, <1>3 DEF Older, Or
<1>4. CASE t = "unknown"
  BY <1>1, <1>4 DEF Older
<1>5. CASE t \notin {"live", "dead", "unknown"}
  BY <1>1, <1>5 DEF Older, Or
<1> QED BY <1>2, <1>3, <1>4, <1>5

\* The threshold in force is positive, and the stored one if that is.
LEMMA ThresholdTyped ==
  ASSUME NEW s \in Settings
  PROVE  /\ Threshold(s) \in Int /\ Threshold(s) > 0
         /\ s.threshold > 0 => Threshold(s) = s.threshold
<1>1. s.threshold \in Int /\ s.softThreshold \in Int
  BY DEF Settings
<1>2. DefaultSettings.threshold = 4
  BY DEF DefaultSettings
<1> QED BY <1>1, <1>2 DEF Threshold, Positive

\* The priorities after the gaps are filled.
Filled(s) == [t \in Statuses |-> Or(s.priority[t], Older(s, t))]

\* After the gaps are filled only live can have the priority zero.
LEMMA FilledTyped ==
  ASSUME NEW s \in Settings
  PROVE  /\ Filled(s) \in [Statuses -> Int]
         /\ \A t \in Statuses \ {"live"} : Filled(s)[t] # 0
<1>1. \A t \in Statuses : s.priority[t] \in Int
  BY DEF Settings
<1> QED BY <1>1, OlderTyped DEF Filled, Or

\* The fields that are copies of others, and those that are left alone.
LEMMA MirrorFields ==
  ASSUME NEW s \in Settings
  PROVE  /\ WithMirrors(s) \in Settings
         /\ WithMirrors(s).priority = s.priority /\ WithMirrors(s).threshold = s.threshold
         /\ WithMirrors(s).restore = s.priority["live"]
         /\ WithMirrors(s).fail401 = s.fail401 /\ WithMirrors(s).fail429 = s.fail429
         /\ WithMirrors(s).decay = s.decay /\ WithMirrors(s).tokenLimit = s.tokenLimit
         /\ WithMirrors(s).count429 = s.count429 /\ WithMirrors(s).count5xx = s.count5xx
<1>1. \A t \in Statuses : s.priority[t] \in Int
  BY DEF Settings
<1>2. {"dead", "error", "live"} \subseteq Statuses
  BY DEF Statuses
<1> QED BY <1>1, <1>2 DEF WithMirrors, Settings

\* Every field of normalised settings.
LEMMA NormalizedFields ==
  ASSUME NEW s \in Settings
  PROVE  LET n == NormalizeSettings(s) IN
         /\ n \in Settings
         /\ n.priority = Filled(s) /\ n.threshold = Threshold(s)
         /\ n.dead = Filled(s)["dead"] /\ n.demotion = Filled(s)["dead"]
         /\ n.anomaly = Filled(s)["error"] /\ n.restore = Filled(s)["live"]
         /\ n.watch = s.watch /\ n.soft = s.watch /\ n.softThreshold = Threshold(s)
         /\ n.fail401 = s.fail401 /\ n.fail429 = s.fail429 /\ n.decay = s.decay
         /\ n.count429 = s.count429 /\ n.count5xx = s.count5xx /\ n.tokenLimit = s.tokenLimit
<1> DEFINE filled == [s EXCEPT !.priority = Filled(s), !.threshold = Threshold(s)]
<1>1. NormalizeSettings(s) = WithMirrors(filled)
  BY DEF NormalizeSettings, Filled
<1>2. Filled(s) \in [Statuses -> Int] /\ Threshold(s) \in Int
  BY FilledTyped, ThresholdTyped
<1>3. /\ filled \in Settings
      /\ filled.priority = Filled(s) /\ filled.threshold = Threshold(s)
      /\ filled.watch = s.watch
      /\ filled.fail401 = s.fail401 /\ filled.fail429 = s.fail429 /\ filled.decay = s.decay
      /\ filled.count429 = s.count429 /\ filled.count5xx = s.count5xx
      /\ filled.tokenLimit = s.tokenLimit
  BY <1>2 DEF Settings
<1> HIDE DEF filled
<1>4. WithMirrors(filled) \in Settings
  BY <1>3, MirrorFields
<1>5. /\ WithMirrors(filled).priority = Filled(s) /\ WithMirrors(filled).threshold = Threshold(s)
      /\ WithMirrors(filled).fail401 = s.fail401 /\ WithMirrors(filled).fail429 = s.fail429
      /\ WithMirrors(filled).decay = s.decay /\ WithMirrors(filled).tokenLimit = s.tokenLimit
      /\ WithMirrors(filled).count429 = s.count429 /\ WithMirrors(filled).count5xx = s.count5xx
  BY <1>3, MirrorFields
<1>6. /\ WithMirrors(filled).dead = Filled(s)["dead"] /\ WithMirrors(filled).demotion = Filled(s)["dead"]
      /\ WithMirrors(filled).anomaly = Filled(s)["error"] /\ WithMirrors(filled).restore = Filled(s)["live"]
      /\ WithMirrors(filled).watch = s.watch /\ WithMirrors(filled).soft = s.watch
      /\ WithMirrors(filled).softThreshold = Threshold(s)
  BY <1>3 DEF WithMirrors, Settings
<1> QED BY <1>1, <1>4, <1>5, <1>6

\* Settings are equal where all their fields are.
LEMMA SameFields ==
  ASSUME NEW a \in Settings, NEW b \in Settings,
         a.priority = b.priority, a.dead = b.dead, a.demotion = b.demotion,
         a.anomaly = b.anomaly, a.restore = b.restore, a.watch = b.watch, a.soft = b.soft,
         a.threshold = b.threshold, a.softThreshold = b.softThreshold,
         a.fail401 = b.fail401, a.fail429 = b.fail429, a.decay = b.decay,
         a.count429 = b.count429, a.count5xx = b.count5xx, a.tokenLimit = b.tokenLimit
  PROVE  a = b
BY DEF Settings

\* Normalising again changes nothing: no gap is left, and every copy is current.
LEMMA NormalizedOnce ==
  ASSUME NEW s \in Settings
  PROVE  NormalizeSettings(NormalizeSettings(s)) = NormalizeSettings(s)
<1> DEFINE n == NormalizeSettings(s)
           m == NormalizeSettings(n)
<1>1. /\ n \in Settings
      /\ n.priority = Filled(s) /\ n.threshold = Threshold(s)
      /\ n.dead = Filled(s)["dead"] /\ n.demotion = Filled(s)["dead"]
      /\ n.anomaly = Filled(s)["error"] /\ n.restore = Filled(s)["live"]
      /\ n.soft = n.watch /\ n.softThreshold = Threshold(s)
  BY NormalizedFields
<1> HIDE DEF n
<1>2. \A t \in Statuses \ {"live"} : n.priority[t] \in Int /\ n.priority[t] # 0
  BY <1>1, FilledTyped
<1>3. \A t \in Statuses : Or(n.priority[t], Older(n, t)) = n.priority[t]
  <2> SUFFICES ASSUME NEW t \in Statuses
               PROVE  Or(n.priority[t], Older(n, t)) = n.priority[t]
    OBVIOUS
  <2>1. CASE n.priority[t] # 0
    BY <2>1 DEF Or
  <2>2. CASE n.priority[t] = 0
    <3>1. t = "live"
      BY <1>2, <2>2
    <3>2. n.priority["dead"] # 0 /\ "dead" \in Statuses
      BY <1>2 DEF Statuses
    <3>3. Older(n, t) = 0
      BY <1>1, <3>1, <3>2 DEF Older
    <3> QED BY <2>2, <3>3 DEF Or
  <2> QED BY <2>1, <2>2
<1>4. Filled(n) = n.priority
  BY <1>1, <1>3, FilledTyped DEF Filled
<1>5. Threshold(n) = n.threshold
  BY <1>1, ThresholdTyped
<1>6. m \in Settings
  BY <1>1, NormalizedFields
<1>7. /\ m.priority = Filled(n) /\ m.threshold = Threshold(n)
      /\ m.dead = Filled(n)["dead"] /\ m.demotion = Filled(n)["dead"]
      /\ m.anomaly = Filled(n)["error"] /\ m.restore = Filled(n)["live"]
      /\ m.watch = n.watch /\ m.soft = n.watch /\ m.softThreshold = Threshold(n)
      /\ m.fail401 = n.fail401 /\ m.fail429 = n.fail429 /\ m.decay = n.decay
      /\ m.count429 = n.count429 /\ m.count5xx = n.count5xx /\ m.tokenLimit = n.tokenLimit
  BY <1>1, NormalizedFields
<1> HIDE DEF m
<1>8. m = n
  BY <1>1, <1>4, <1>5, <1>6, <1>7, SameFields
<1> QED BY <1>8 DEF m, n

-----------------------------------------------------------------------------
(* Fields that a request, an environment or a file may have.               *)

\* A field has the type it was parsed to, and so has its default in its place.
LEMMA FieldTyped ==
  ASSUME NEW file, WellFormed(file), NEW name
  PROVE  /\ name \in DOMAIN file => In(file, name, 0) = file[name]
         /\ name \notin Flags /\ name \in DOMAIN file => file[name] \in Int
         /\ name \notin Flags => \A n \in Int : In(file, name, n) \in Int
         /\ name \in Flags => \A n \in BOOLEAN : In(file, name, n) \in BOOLEAN
<1>1. name \in DOMAIN file => file[name] \in (IF name \in Flags THEN BOOLEAN ELSE Int)
  BY DEF WellFormed
<1>2. CASE name \in DOMAIN file
  BY <1>1, <1>2 DEF In
<1>3. CASE name \notin DOMAIN file
  BY <1>3 DEF In
<1> QED BY <1>2, <1>3

\* At most three names for a status, none of them that of a flag.
LEMMA NamesShape ==
  \A t \in Statuses :
    /\ DOMAIN Names[t] \subseteq 1..3 /\ 1 \in DOMAIN Names[t]
    /\ \A i \in DOMAIN Names[t] : Names[t][i] \notin Flags
<1> SUFFICES ASSUME NEW t \in Statuses
             PROVE  /\ DOMAIN Names[t] \subseteq 1..3 /\ 1 \in DOMAIN Names[t]
                    /\ \A i \in DOMAIN Names[t] : Names[t][i] \notin Flags
  OBVIOUS
<1>1. CASE t = "live"
  BY <1>1 DEF Names, Flags
<1>2. CASE t = "invalid"
  BY <1>2 DEF Names, Flags
<1>3. CASE t = "dead"
  BY <1>3 DEF Names, Flags
<1>4. CASE t = "throttled"
  BY <1>4 DEF Names, Flags
<1>5. CASE t = "unknown"
  BY <1>5 DEF Names, Flags
<1>6. CASE t = "error"
  BY <1>6 DEF Names, Flags
<1> QED BY <1>1, <1>2, <1>3, <1>4, <1>5, <1>6 DEF Statuses

\* A value is the old one or one that the update has under one of the names.
LEMMA GivenValue ==
  ASSUME NEW update, NEW names, NEW old, DOMAIN names \subseteq 1..3
  PROVE  \/ Given(update, names, old) = old
         \/ \E i \in DOMAIN names : /\ names[i] \in DOMAIN update
                                   /\ Given(update, names, old) = update[names[i]]
<1> DEFINE given == {i \in DOMAIN names : names[i] \in DOMAIN update}
<1>1. given = {} \/ \E i \in given : \A j \in given : i <= j
  <2>1. given \subseteq 1..3
    OBVIOUS
  <2> HIDE DEF given
  <2>2. CASE 1 \in given
    BY <2>1, <2>2
  <2>3. CASE 1 \notin given /\ 2 \in given
    BY <2>1, <2>3
  <2>4. CASE 1 \notin given /\ 2 \notin given
    BY <2>1, <2>4
  <2> QED BY <2>2, <2>3, <2>4
<1>2. CASE given = {}
  BY <1>2 DEF Given
<1>3. CASE given # {}
  <2> DEFINE first == CHOOSE i \in given : \A j \in given : i <= j
  <2>1. first \in given
    BY <1>1, <1>3
  <2>2. Given(update, names, old) = update[names[first]]
    BY <1>3 DEF Given
  <2> HIDE DEF first
  <2> QED BY <2>1, <2>2
<1> QED BY <1>2, <1>3

\* With one name only, Given is In.
LEMMA GivenOne ==
  ASSUME NEW update, NEW name, NEW old
  PROVE  Given(update, <<name>>, old) = In(update, name, old)
<1>1. DOMAIN <<name>> = {1} /\ <<name>>[1] = name
  OBVIOUS
<1>2. CASE name \in DOMAIN update
  <2>1. {i \in DOMAIN <<name>> : <<name>>[i] \in DOMAIN update} = {1}
    BY <1>1, <1>2
  <2>2. (CHOOSE i \in {1} : \A j \in {1} : i <= j) = 1
    OBVIOUS
  <2> QED BY <1>1, <1>2, <2>1, <2>2 DEF Given, In
<1>3. CASE name \notin DOMAIN update
  <2>1. {i \in DOMAIN <<name>> : <<name>>[i] \in DOMAIN update} = {}
    BY <1>1, <1>3
  <2> QED BY <1>3, <2>1 DEF Given, In
<1> QED BY <1>2, <1>3

\* Settings whose weights never lower debt.
Sound == {s \in Settings : s.fail401 >= 0 /\ s.fail429 >= 0}

\* An update that is accepted keeps settings sound and sets what it names.
LEMMA OverwrittenSound ==
  ASSUME NEW update, WellFormed(update), Acceptable(update), NEW s \in Sound
  PROVE  LET o == Overwritten(s, update) IN
         /\ o \in Sound
         /\ \A t \in Statuses : o.priority[t] = Given(update, Names[t], s.priority[t])
         /\ o.restore = o.priority["live"]
         /\ o.threshold = Given(update, <<"debt_probe_threshold", "soft_debt_threshold">>, s.threshold)
         /\ s.threshold > 0 => o.threshold > 0
         /\ o.fail401 = In(update, "debt_fail_401", s.fail401)
         /\ o.fail429 = In(update, "debt_fail_429", s.fail429)
         /\ o.decay = In(update, "debt_success_decay", s.decay)
<1> s \in Settings
  BY DEF Sound
<1>1. \A name \in DOMAIN update : name \notin Flags => update[name] \in Int
  BY DEF WellFormed
<1>2. \A t \in Statuses : Given(update, Names[t], s.priority[t]) \in Int
  <2> TAKE t \in Statuses
  <2>1. s.priority[t] \in Int
    BY DEF Settings
  <2>2. /\ DOMAIN Names[t] \subseteq 1..3
        /\ \A i \in DOMAIN Names[t] : Names[t][i] \notin Flags
    BY NamesShape
  <2>3. \/ Given(update, Names[t], s.priority[t]) = s.priority[t]
        \/ \E i \in DOMAIN Names[t] : /\ Names[t][i] \in DOMAIN update
                                     /\ Given(update, Names[t], s.priority[t]) = update[Names[t][i]]
    BY <2>2, GivenValue
  <2> QED BY <1>1, <2>1, <2>2, <2>3
<1> DEFINE watches == <<"watch_priority", "soft_demotion_priority">>
           limits == <<"debt_probe_threshold", "soft_debt_threshold">>
<1>3. /\ DOMAIN watches \subseteq 1..3 /\ DOMAIN limits \subseteq 1..3
      /\ \A i \in DOMAIN watches : watches[i] \notin Flags
      /\ \A i \in DOMAIN limits : limits[i] \notin Flags /\ limits[i] \in Thresholds
  BY DEF Flags, Thresholds
<1> HIDE DEF watches, limits
<1>4. Given(update, watches, s.watch) \in Int
  <2>1. \/ Given(update, watches, s.watch) = s.watch
        \/ \E i \in DOMAIN watches : /\ watches[i] \in DOMAIN update
                                    /\ Given(update, watches, s.watch) = update[watches[i]]
    BY <1>3, GivenValue
  <2> QED BY <1>1, <1>3, <2>1 DEF Settings
<1>5. /\ Given(update, limits, s.threshold) \in Int
      /\ s.threshold > 0 => Given(update, limits, s.threshold) > 0
  <2>1. \/ Given(update, limits, s.threshold) = s.threshold
        \/ \E i \in DOMAIN limits : /\ limits[i] \in DOMAIN update
                                   /\ Given(update, limits, s.threshold) = update[limits[i]]
    BY <1>3, GivenValue
  <2>2. \A name \in DOMAIN update : name \in Thresholds => update[name] >= 1
    BY DEF Acceptable
  <2>3. s.threshold \in Int
    BY DEF Settings
  <2> QED BY <1>1, <1>3, <2>1, <2>2, <2>3
<1>6. /\ In(update, "debt_fail_401", s.fail401) \in Nat
      /\ In(update, "debt_fail_429", s.fail429) \in Nat
      /\ In(update, "debt_success_decay", s.decay) \in Int
  <2>1. \A name \in DOMAIN update : name \in Debts => update[name] >= 0
    BY DEF Acceptable
  <2>2. /\ s.fail401 \in Nat /\ s.fail429 \in Nat /\ s.decay \in Int
    BY DEF Sound, Settings
  <2> QED BY <1>1, <2>1, <2>2 DEF In, Debts, Flags
<1>7. /\ In(update, "count_status_429", s.count429) \in BOOLEAN
      /\ In(update, "count_status_5xx", s.count5xx) \in BOOLEAN
  <2>1. \A name \in DOMAIN update : name \in Flags => update[name] \in BOOLEAN
    BY DEF WellFormed
  <2>2. s.count429 \in BOOLEAN /\ s.count5xx \in BOOLEAN
    BY DEF Settings
  <2>3. "count_status_429" \in Flags /\ "count_status_5xx" \in Flags
    BY DEF Flags
  <2> QED BY <2>1, <2>2, <2>3 DEF In
<1>8. In(update, "free_user_daily_token_limit", s.tokenLimit) \in Nat
  <2>1. "free_user_daily_token_limit" \in DOMAIN update => update["free_user_daily_token_limit"] >= 1
    BY DEF Acceptable
  <2>2. s.tokenLimit \in Nat
    BY DEF Settings
  <2> QED BY <1>1, <2>1, <2>2 DEF In, Flags
<1> DEFINE p == [t \in Statuses |-> Given(update, Names[t], s.priority[t])]
           w == Given(update, watches, s.watch)
           h == Given(update, limits, s.threshold)
           a == In(update, "debt_fail_401", s.fail401)
           b == In(update, "debt_fail_429", s.fail429)
           d == In(update, "debt_success_decay", s.decay)
           x == In(update, "count_status_429", s.count429)
           y == In(update, "count_status_5xx", s.count5xx)
           l == In(update, "free_user_daily_token_limit", s.tokenLimit)
           new == [s EXCEPT !.priority = p, !.watch = w, !.threshold = h, !.fail401 = a,
                     !.fail429 = b, !.decay = d, !.count429 = x, !.count5xx = y,
                     !.tokenLimit = l]
<1>9. Overwritten(s, update) = WithMirrors(new)
  BY GivenOne DEF Overwritten, watches, limits
<1>15. /\ p \in [Statuses -> Int] /\ w \in Int /\ h \in Int /\ a \in Int /\ b \in Int /\ d \in Int
       /\ x \in BOOLEAN /\ y \in BOOLEAN /\ l \in Nat /\ a >= 0 /\ b >= 0
       /\ s.threshold > 0 => h > 0
  BY <1>2, <1>4, <1>5, <1>6, <1>7, <1>8
<1>16. \A t \in Statuses : p[t] = Given(update, Names[t], s.priority[t])
  OBVIOUS
<1> HIDE DEF p, w, h, a, b, d, x, y, l
<1>10. /\ new \in Settings
       /\ new.priority = p /\ new.threshold = h
       /\ new.fail401 = a /\ new.fail429 = b /\ new.decay = d
  <2>1. /\ p \in [Statuses -> Int] /\ w \in Int /\ h \in Int /\ a \in Int /\ b \in Int /\ d \in Int
        /\ x \in BOOLEAN /\ y \in BOOLEAN /\ l \in Nat
    BY <1>15
  <2>2. new \in Settings
    BY <2>1 DEF Settings
  <2>3. new.priority = p /\ new.threshold = h
    BY DEF Settings
  <2>4. new.fail401 = a /\ new.fail429 = b /\ new.decay = d
    BY DEF Settings
  <2> QED BY <2>2, <2>3, <2>4
<1> HIDE DEF new
<1> DEFINE o == WithMirrors(new)
<1>11. /\ o \in Settings
       /\ o.priority = new.priority /\ o.threshold = new.threshold
       /\ o.restore = new.priority["live"]
       /\ o.fail401 = new.fail401 /\ o.fail429 = new.fail429 /\ o.decay = new.decay
  BY <1>10, MirrorFields
<1> HIDE DEF o
<1>12. o \in Sound
  BY <1>10, <1>11, <1>15 DEF Sound
<1>13. \A t \in Statuses : o.priority[t] = Given(update, Names[t], s.priority[t])
  BY <1>10, <1>11, <1>16
<1>14. Overwritten(s, update) = o
  BY <1>9 DEF o
<1>17. o.restore = o.priority["live"] /\ o.threshold = h /\ o.fail401 = a /\ o.fail429 = b /\ o.decay = d
  BY <1>10, <1>11
<1> QED BY <1>12, <1>13, <1>14, <1>15, <1>17 DEF limits, h, a, b, d

\* Normalising keeps settings sound.
LEMMA NormalizedSound ==
  ASSUME NEW s \in Sound
  PROVE  NormalizeSettings(s) \in Sound
BY NormalizedFields DEF Sound

\* A request that is accepted leaves settings that are sound, and of what it
\* names it changes what it says.
LEMMA UpdatedExactly ==
  ASSUME NEW update, WellFormed(update), Acceptable(update), NEW s \in Sound
  PROVE  LET before == NormalizeSettings(s)
             stored == UpdatedSettings(s, update)
             after  == NormalizeSettings(stored) IN
         /\ stored \in Sound
         /\ \A t \in Statuses :
              LET asked == Given(update, Names[t], before.priority[t]) IN
              after.priority[t] = asked \/ (t # "live" /\ asked = 0)
         /\ after.threshold = Given(update, <<"debt_probe_threshold", "soft_debt_threshold">>,
                                    before.threshold)
         /\ after.fail401 = In(update, "debt_fail_401", before.fail401)
         /\ after.fail429 = In(update, "debt_fail_429", before.fail429)
         /\ after.decay = In(update, "debt_success_decay", before.decay)
<1> DEFINE before == NormalizeSettings(s)
           o == Overwritten(before, update)
           stored == UpdatedSettings(s, update)
           after == NormalizeSettings(stored)
<1>1. before \in Sound /\ before.threshold > 0
  <2>1. s \in Settings
    BY DEF Sound
  <2>2. before.threshold = Threshold(s) /\ Threshold(s) > 0
    BY <2>1, NormalizedFields, ThresholdTyped
  <2> QED BY <2>2, NormalizedSound
<1> HIDE DEF before
<1>2. /\ o \in Sound
      /\ \A t \in Statuses : o.priority[t] = Given(update, Names[t], before.priority[t])
      /\ o.restore = o.priority["live"]
      /\ o.threshold = Given(update, <<"debt_probe_threshold", "soft_debt_threshold">>, before.threshold)
      /\ o.threshold > 0
      /\ o.fail401 = In(update, "debt_fail_401", before.fail401)
      /\ o.fail429 = In(update, "debt_fail_429", before.fail429)
      /\ o.decay = In(update, "debt_success_decay", before.decay)
  BY <1>1, OverwrittenSound
<1> HIDE DEF o
<1>3. stored = NormalizeSettings(o)
  BY DEF UpdatedSettings, o, before
<1>4. o \in Settings
  BY <1>2 DEF Sound
<1>5. stored \in Sound /\ after = stored
  BY <1>2, <1>3, <1>4, NormalizedSound, NormalizedOnce
<1>6. /\ stored.priority = Filled(o) /\ stored.threshold = Threshold(o)
      /\ stored.fail401 = o.fail401 /\ stored.fail429 = o.fail429 /\ stored.decay = o.decay
  BY <1>3, <1>4, NormalizedFields
<1> HIDE DEF stored, after
<1>7. Threshold(o) = o.threshold
  BY <1>2, <1>4, ThresholdTyped
<1>8. ASSUME NEW t \in Statuses
      PROVE  Filled(o)[t] = o.priority[t] \/ (t # "live" /\ o.priority[t] = 0)
  <2>1. CASE o.priority[t] # 0
    BY <2>1 DEF Filled, Or
  <2>2. CASE o.priority[t] = 0 /\ t = "live"
    <3>1. Older(o, t) = 0 \/ Older(o, t) = o.restore
      BY <1>4, <2>2, OlderTyped
    <3> QED BY <1>2, <2>2, <3>1 DEF Filled, Or
  <2> QED BY <2>1, <2>2
<1>9. \A t \in Statuses :
         LET asked == Given(update, Names[t], before.priority[t]) IN
         after.priority[t] = asked \/ (t # "live" /\ asked = 0)
  BY <1>2, <1>5, <1>6, <1>8
<1> QED BY <1>2, <1>5, <1>6, <1>7, <1>9 DEF before, stored, after

\* What LoadSettings normalises, with the priority that each status is given.
LEMMA LoadedFrom ==
  ASSUME NEW e, WellFormed(e)
  PROVE  /\ LoadSettings(e) \in Sound
         /\ \E raw \in Settings : /\ raw.priority = [t \in Statuses |-> EnvPriority(e, t)]
                                  /\ LoadSettings(e) = NormalizeSettings(raw)
<1> DEFINE Debt(name, fallback) == IF In(e, name, -1) >= 0 THEN e[name] ELSE fallback
           p == [t \in Statuses |-> EnvPriority(e, t)]
           dead == In(e, "DEMOTION_PRIORITY", In(e, "DEAD_PRIORITY", DefaultSettings.dead))
           demotion == In(e, "DEMOTION_PRIORITY", DefaultSettings.demotion)
           restore == In(e, "DEFAULT_RESTORE_PRIORITY", DefaultSettings.restore)
           anomaly == In(e, "ANOMALY_PRIORITY", DefaultSettings.anomaly)
           h == Debt("DEBT_PROBE_THRESHOLD", DefaultSettings.threshold)
           a == Debt("DEBT_FAIL_401", DefaultSettings.fail401)
           b == Debt("DEBT_FAIL_429", DefaultSettings.fail429)
           d == Debt("DEBT_SUCCESS_DECAY", DefaultSettings.decay)
           x == In(e, "COUNT_429", DefaultSettings.count429)
           y == In(e, "COUNT_5XX", DefaultSettings.count5xx)
           raw == [DefaultSettings EXCEPT
             !.priority = p, !.dead = dead, !.demotion = demotion, !.restore = restore,
             !.anomaly = anomaly, !.threshold = h, !.fail401 = a, !.fail429 = b, !.decay = d,
             !.count429 = x, !.count5xx = y]
<1>1. \A name \in DOMAIN e : /\ name \notin Flags => e[name] \in Int
                             /\ name \in Flags => e[name] \in BOOLEAN
  BY DEF WellFormed
<1>2. /\ DefaultSettings.dead \in Int /\ DefaultSettings.demotion \in Int
      /\ DefaultSettings.restore \in Int /\ DefaultSettings.anomaly \in Int
      /\ DefaultSettings.threshold \in Nat /\ DefaultSettings.fail401 \in Nat
      /\ DefaultSettings.fail429 \in Nat /\ DefaultSettings.decay \in Nat
      /\ DefaultSettings.count429 \in BOOLEAN /\ DefaultSettings.count5xx \in BOOLEAN
      /\ DefaultSettings.tokenLimit \in Nat
  BY DEF DefaultSettings
<1>3. dead \in Int /\ demotion \in Int /\ restore \in Int /\ anomaly \in Int
  <2>1. In(e, "DEAD_PRIORITY", DefaultSettings.dead) \in Int
    BY <1>2, FieldTyped DEF Flags
  <2> QED BY <1>2, <2>1, FieldTyped DEF Flags
<1>4. ASSUME NEW name, name \notin Flags, NEW fallback \in Nat
      PROVE  Debt(name, fallback) \in Nat
  <2>1. CASE In(e, name, -1) >= 0
    <3>1. name \in DOMAIN e
      BY <2>1 DEF In
    <3>2. In(e, name, -1) = e[name] /\ e[name] \in Int
      BY <1>4, <3>1, FieldTyped DEF In
    <3> QED BY <2>1, <3>2
  <2>2. CASE ~(In(e, name, -1) >= 0)
    BY <1>4, <2>2
  <2> QED BY <2>1, <2>2
<1>5. h \in Nat /\ a \in Nat /\ b \in Nat /\ d \in Nat
  <2> HIDE DEF Debt
  <2> QED BY <1>2, <1>4 DEF Flags
<1>6. x \in BOOLEAN /\ y \in BOOLEAN
  BY <1>2, FieldTyped DEF Flags
<1>7. \A t \in Statuses : EnvPriority(e, t) \in Int
  <2> SUFFICES ASSUME NEW t \in Statuses PROVE EnvPriority(e, t) \in Int
    OBVIOUS
  <2> DEFINE alias == EnvAlias(e, t) \cap DOMAIN e
  <2>1. CASE alias # {}
    <3> DEFINE name == CHOOSE n \in alias : TRUE
    <3>1. name \in alias
      BY <2>1
    <3>2. EnvPriority(e, t) = e[name]
      BY <2>1 DEF EnvPriority
    <3> HIDE DEF name
    <3>3. EnvAlias(e, t) \cap Flags = {}
      BY DEF EnvAlias, Flags, Statuses
    <3>4. name \in DOMAIN e /\ name \notin Flags
      BY <3>1, <3>3
    <3>5. e[name] \in Int
      BY <3>4, FieldTyped
    <3> QED BY <3>2, <3>5
  <2>2. CASE alias = {}
    <3>1. EnvPriority(e, t) = EnvInt(e, EnvName[t], DefaultPriority[t])
      BY <2>2 DEF EnvPriority
    <3>2. DefaultPriority[t] \in Int
      BY DefaultsTyped
    <3> QED BY <3>1, <3>2, MaxPriorityAssumption DEF EnvInt
  <2> QED BY <2>1, <2>2
<1>8. p \in [Statuses -> Int]
  BY <1>7
<1>9. LoadSettings(e) = NormalizeSettings(raw)
  BY DEF LoadSettings
<1> HIDE DEF Debt, dead, demotion, restore, anomaly, h, a, b, d, x, y
<1>10. h \in Int /\ a \in Int /\ b \in Int /\ d \in Int
  BY <1>5
<1>11. raw.priority = p /\ raw.fail401 = a /\ raw.fail429 = b
  <2> HIDE DEF p
  <2> QED BY DEF DefaultSettings
<1>12. raw \in Settings
  <2> HIDE DEF p
  <2> QED BY <1>3, <1>6, <1>8, <1>10, DefaultsTyped DEF Settings
<1> HIDE DEF raw, p
<1>13. raw \in Sound
  BY <1>5, <1>11, <1>12 DEF Sound
<1> QED BY <1>9, <1>11, <1>12, <1>13, NormalizedSound DEF p

\* What is decoded from a state file is sound.
LEMMA DecodedSound ==
  ASSUME NEW file, WellFormed(file),
         \A field \in Unsigned \cap DOMAIN file : file[field] >= 0
  PROVE  DecodeSettings(file) \in Sound
<1> DEFINE watch == In(file, "watch_priority", Or(In(file, "soft_demotion_priority", 0), -10))
           dead == In(file, "dead_priority", Or(In(file, "demotion_priority", 0), -100))
           threshold == In(file, "debt_probe_threshold",
                           Positive(In(file, "soft_debt_threshold", 0), DefaultSettings.threshold))
           p == [t \in Statuses |-> In(file, Names[t][1], 0)]
           decoded == DecodeSettings(file)
<1>1. /\ DefaultSettings.threshold \in Int /\ DefaultSettings.fail401 \in Nat
      /\ DefaultSettings.fail429 \in Nat /\ DefaultSettings.decay \in Int
      /\ DefaultSettings.tokenLimit \in Nat
  BY DEF DefaultSettings
<1>2. /\ In(file, "soft_demotion_priority", 0) \in Int /\ In(file, "demotion_priority", 0) \in Int
      /\ In(file, "soft_debt_threshold", 0) \in Int
  BY FieldTyped DEF Flags
<1>3. watch \in Int
  <2>1. Or(In(file, "soft_demotion_priority", 0), -10) \in Int
    BY <1>2 DEF Or
  <2> QED BY <2>1, FieldTyped DEF Flags
<1>4. dead \in Int
  <2>1. Or(In(file, "demotion_priority", 0), -100) \in Int
    BY <1>2 DEF Or
  <2> QED BY <2>1, FieldTyped DEF Flags
<1>5. threshold \in Int
  <2>1. Positive(In(file, "soft_debt_threshold", 0), DefaultSettings.threshold) \in Int
    BY <1>1, <1>2 DEF Positive
  <2> QED BY <2>1, FieldTyped DEF Flags
<1>6. p \in [Statuses -> Int]
  <2>1. \A t \in Statuses : In(file, Names[t][1], 0) \in Int
    <3>1. \A t \in Statuses : Names[t][1] \notin Flags
      BY NamesShape
    <3>2. ASSUME NEW name, name \notin Flags PROVE In(file, name, 0) \in Int
      BY <3>2, FieldTyped
    <3> QED BY <3>1, <3>2
  <2> QED BY <2>1
<1>7. ASSUME NEW name \in Unsigned, NEW n \in Nat
      PROVE  In(file, name, n) \in Nat
  <2>1. name \notin Flags
    BY DEF Unsigned, Flags
  <2>2. CASE name \in DOMAIN file
    <3>1. file[name] \in Int /\ file[name] >= 0
      BY <2>1, <2>2, FieldTyped
    <3> QED BY <2>2, <3>1 DEF In
  <2>3. CASE name \notin DOMAIN file
    BY <2>3 DEF In
  <2> QED BY <2>2, <2>3
<1> DEFINE anomaly == In(file, "anomaly_priority", -50)
           restore == In(file, "default_restore_priority", 0)
           demotion == Or(In(file, "demotion_priority", 0), dead)
           soft == Or(In(file, "soft_demotion_priority", 0), watch)
           softThreshold == Or(In(file, "soft_debt_threshold", 0), threshold)
           a == In(file, "debt_fail_401", DefaultSettings.fail401)
           b == In(file, "debt_fail_429", DefaultSettings.fail429)
           d == In(file, "debt_success_decay", DefaultSettings.decay)
           x == In(file, "count_status_429", FALSE)
           y == In(file, "count_status_5xx", FALSE)
           l == In(file, "free_user_daily_token_limit", DefaultSettings.tokenLimit)
<1>8. anomaly \in Int /\ restore \in Int /\ d \in Int
  <2>1. -50 \in Int /\ 0 \in Int
    OBVIOUS
  <2>2. anomaly \in Int
    BY <2>1, FieldTyped DEF Flags
  <2>3. restore \in Int /\ d \in Int
    BY <1>1, <2>1, FieldTyped DEF Flags
  <2> QED BY <2>2, <2>3
<1>9. demotion \in Int /\ soft \in Int /\ softThreshold \in Int
  BY <1>2, <1>3, <1>4, <1>5 DEF Or
<1>10. a \in Nat /\ b \in Nat /\ l \in Nat
  BY <1>1, <1>7 DEF Unsigned
<1>11. x \in BOOLEAN /\ y \in BOOLEAN
  BY FieldTyped DEF Flags
<1>12. DecodeSettings(file) =
         [priority |-> p, dead |-> dead, demotion |-> demotion, anomaly |-> anomaly,
          restore |-> restore, watch |-> watch, soft |-> soft, threshold |-> threshold,
          softThreshold |-> softThreshold, fail401 |-> a, fail429 |-> b, decay |-> d,
          count429 |-> x, count5xx |-> y, tokenLimit |-> l]
  BY DEF DecodeSettings
<1> HIDE DEF p, watch, dead, threshold, anomaly, restore, demotion, soft, softThreshold, a, b, d, x, y, l
<1>13. DecodeSettings(file) \in Settings
  BY <1>3, <1>4, <1>5, <1>6, <1>8, <1>9, <1>10, <1>11, <1>12 DEF Settings
<1>14. DecodeSettings(file).fail401 = a /\ DecodeSettings(file).fail429 = b
  BY <1>12
<1> QED BY <1>10, <1>13, <1>14 DEF Sound

-----------------------------------------------------------------------------
(* What is written to the state file.                                      *)

\* The name of the stored field of each status.
LEMMA FirstNames ==
  /\ Names["live"][1] = "priority_live" /\ Names["invalid"][1] = "priority_invalid"
  /\ Names["dead"][1] = "priority_dead" /\ Names["throttled"][1] = "priority_throttled"
  /\ Names["unknown"][1] = "priority_unknown" /\ Names["error"][1] = "priority_error"
BY DEF Names

\* No two statuses are stored under one name.
LEMMA OneNameEach ==
  ASSUME NEW t \in Statuses
  PROVE  (CHOOSE r \in Statuses : Names[r][1] = Names[t][1]) = t
<1>1. \A r \in Statuses : Names[r][1] = Names[t][1] => r = t
  BY FirstNames DEF Statuses
<1> QED BY <1>1

\* The fields of EncodeSettings that are not priorities.
Other(s) ==
  [watch_priority |-> s.watch, anomaly_priority |-> s.anomaly,
   dead_priority |-> s.dead, demotion_priority |-> s.demotion,
   default_restore_priority |-> s.restore,
   soft_demotion_priority |-> s.soft,
   debt_probe_threshold |-> s.threshold,
   soft_debt_threshold |-> s.softThreshold,
   debt_fail_401 |-> s.fail401, debt_fail_429 |-> s.fail429,
   debt_success_decay |-> s.decay,
   count_status_429 |-> s.count429, count_status_5xx |-> s.count5xx,
   free_user_daily_token_limit |-> s.tokenLimit]

\* The stored fields that are not priorities.
LEMMA OtherDomain ==
  ASSUME NEW s
  PROVE  DOMAIN Other(s) =
           {"watch_priority", "anomaly_priority", "dead_priority", "demotion_priority",
            "default_restore_priority", "soft_demotion_priority", "debt_probe_threshold",
            "soft_debt_threshold", "debt_fail_401", "debt_fail_429", "debt_success_decay",
            "count_status_429", "count_status_5xx", "free_user_daily_token_limit"}
BY DEF Other

\* The priorities under their own names.
LEMMA EncodedPriorities ==
  ASSUME NEW s \in Settings, NEW t \in Statuses, NEW n
  PROVE  In(EncodeSettings(s), Names[t][1], n) = s.priority[t]
<1> DEFINE own == {Names[r][1] : r \in Statuses}
           fields == [m \in own \cup DOMAIN Other(s) |->
                        IF m \in own THEN s.priority[CHOOSE r \in Statuses : Names[r][1] = m]
                        ELSE Other(s)[m]]
           name == Names[t][1]
<1>1. EncodeSettings(s) = [m \in {k \in DOMAIN fields : k \in OmitEmpty => fields[k] # 0} |-> fields[m]]
  BY DEF EncodeSettings, Other
<1>2. name \in own
  OBVIOUS
<1>3. fields[name] = s.priority[t] /\ name \in DOMAIN fields
  <2>1. fields[name] = s.priority[CHOOSE r \in Statuses : Names[r][1] = name]
    BY <1>2
  <2> QED BY <1>2, <2>1, OneNameEach
<1>4. name \notin OmitEmpty
  BY FirstNames DEF OmitEmpty, Statuses
<1> HIDE DEF fields, own, name
<1>5. name \in DOMAIN EncodeSettings(s) /\ EncodeSettings(s)[name] = fields[name]
  BY <1>1, <1>3, <1>4
<1>6. In(EncodeSettings(s), name, n) = s.priority[t]
  BY <1>3, <1>5 DEF In
<1> QED BY <1>6 DEF name

\* Every other field, but for those that are left out where they are zero.
LEMMA EncodedOther ==
  ASSUME NEW s \in Settings, NEW name \in DOMAIN Other(s), NEW n
  PROVE  /\ (name \in OmitEmpty => Other(s)[name] # 0) => In(EncodeSettings(s), name, n) = Other(s)[name]
         /\ ~(name \in OmitEmpty => Other(s)[name] # 0) => In(EncodeSettings(s), name, n) = n
<1> DEFINE own == {Names[r][1] : r \in Statuses}
           fields == [m \in own \cup DOMAIN Other(s) |->
                        IF m \in own THEN s.priority[CHOOSE r \in Statuses : Names[r][1] = m]
                        ELSE Other(s)[m]]
<1>1. EncodeSettings(s) = [m \in {k \in DOMAIN fields : k \in OmitEmpty => fields[k] # 0} |-> fields[m]]
  BY DEF EncodeSettings, Other
<1>2. name \notin own
  BY OtherDomain, FirstNames DEF Statuses
<1>3. fields[name] = Other(s)[name] /\ name \in DOMAIN fields
  BY <1>2
<1> HIDE DEF fields, own
<1>4. CASE name \in OmitEmpty => Other(s)[name] # 0
  <2>1. name \in DOMAIN EncodeSettings(s) /\ EncodeSettings(s)[name] = fields[name]
    BY <1>1, <1>3, <1>4
  <2> QED BY <1>3, <1>4, <2>1 DEF In
<1>5. CASE ~(name \in OmitEmpty => Other(s)[name] # 0)
  <2>1. name \notin DOMAIN EncodeSettings(s)
    BY <1>1, <1>3, <1>5
  <2> QED BY <1>5, <2>1 DEF In
<1> QED BY <1>4, <1>5

\* The state file is well-formed, so that decoding it is sound.
LEMMA EncodedWellFormed ==
  ASSUME NEW s \in Sound
  PROVE  /\ WellFormed(EncodeSettings(s))
         /\ \A field \in Unsigned \cap DOMAIN EncodeSettings(s) : EncodeSettings(s)[field] >= 0
<1> DEFINE file == EncodeSettings(s)
<1>1. s \in Settings /\ s.fail401 >= 0 /\ s.fail429 >= 0
  BY DEF Sound
<1>2. DOMAIN file \subseteq {Names[r][1] : r \in Statuses} \cup DOMAIN Other(s)
  BY DEF EncodeSettings, Other
<1>3. ASSUME NEW t \in Statuses, Names[t][1] \in DOMAIN file
      PROVE  /\ file[Names[t][1]] \in Int /\ Names[t][1] \notin Flags
             /\ Names[t][1] \notin Unsigned
  <2>1. file[Names[t][1]] = s.priority[t]
    BY <1>1, <1>3, EncodedPriorities DEF In
  <2>2. s.priority[t] \in Int
    BY <1>1 DEF Settings
  <2>3. Names[t][1] \notin Flags
    BY NamesShape
  <2>4. Names[t][1] \notin Unsigned
    BY FirstNames DEF Unsigned, Statuses
  <2> QED BY <2>1, <2>2, <2>3, <2>4
<1>4. ASSUME NEW name \in DOMAIN Other(s)
      PROVE  /\ name \notin Flags => Other(s)[name] \in Int
             /\ name \in Flags => Other(s)[name] \in BOOLEAN
             /\ name \in Unsigned => Other(s)[name] >= 0
  <2>1. /\ s.watch \in Int /\ s.anomaly \in Int /\ s.dead \in Int /\ s.demotion \in Int
        /\ s.restore \in Int /\ s.soft \in Int /\ s.threshold \in Int /\ s.softThreshold \in Int
        /\ s.fail401 \in Int /\ s.fail429 \in Int /\ s.decay \in Int /\ s.tokenLimit \in Nat
        /\ s.count429 \in BOOLEAN /\ s.count5xx \in BOOLEAN
    BY <1>1 DEF Settings
  <2>2. CASE name \in {"count_status_429", "count_status_5xx"}
    BY <2>1, <2>2 DEF Other, Flags, Unsigned
  <2>3. CASE name \notin {"count_status_429", "count_status_5xx"}
    <3>1. name \notin Flags
      BY <1>4, <2>3, OtherDomain DEF Flags
    <3>2. Other(s)[name] \in Int
      BY <1>4, <2>1, <2>3, OtherDomain DEF Other
    <3>3. name \in Unsigned => Other(s)[name] >= 0
      BY <1>1, <2>1 DEF Other, Unsigned
    <3> QED BY <3>1, <3>2, <3>3
  <2> QED BY <2>2, <2>3
<1>5. ASSUME NEW name \in DOMAIN file, name \in DOMAIN Other(s)
      PROVE  file[name] = Other(s)[name]
  <2>1. name \in OmitEmpty => Other(s)[name] # 0
    <3>1. CASE In(file, name, 0) = 0 /\ In(file, name, 1) = 1
      BY <1>5, <3>1 DEF In
    <3>2. CASE ~(In(file, name, 0) = 0 /\ In(file, name, 1) = 1)
      BY <1>1, <1>5, <3>2, EncodedOther
    <3> QED BY <3>1, <3>2
  <2>2. In(file, name, 0) = Other(s)[name]
    BY <1>1, <1>5, <2>1, EncodedOther
  <2> QED BY <1>5, <2>2 DEF In
<1>6. ASSUME NEW name \in DOMAIN file
      PROVE  /\ name \notin Flags => file[name] \in Int
             /\ name \in Flags => file[name] \in BOOLEAN
             /\ name \in Unsigned => file[name] >= 0
  <2>1. CASE name \in DOMAIN Other(s)
    BY <1>4, <1>5, <1>6, <2>1
  <2>2. CASE name \notin DOMAIN Other(s)
    <3>1. PICK t \in Statuses : name = Names[t][1]
      BY <1>2, <1>6, <2>2
    <3> QED BY <1>3, <1>6, <3>1
  <2> QED BY <2>1, <2>2
<1> QED BY <1>6 DEF WellFormed

\* What decides comes back from the state file, whatever was left out there.
LEMMA WhatDecidesComesBack ==
  ASSUME NEW s \in Sound
  PROVE  Deciding(NormalizeSettings(DecodeSettings(EncodeSettings(s)))) = Deciding(NormalizeSettings(s))
<1> DEFINE file == EncodeSettings(s)
           r == DecodeSettings(file)
<1>1. s \in Settings
  BY DEF Sound
<1>2. r \in Settings
  BY EncodedWellFormed, DecodedSound DEF Sound
<1>3. \A name \in DOMAIN Other(s) :
         /\ name \notin OmitEmpty => \A n : In(file, name, n) = Other(s)[name]
         /\ Other(s)[name] # 0 => \A n : In(file, name, n) = Other(s)[name]
         /\ name \in OmitEmpty /\ Other(s)[name] = 0 => \A n : In(file, name, n) = n
  BY <1>1, EncodedOther
<1>4. \A t \in Statuses : In(file, Names[t][1], 0) = s.priority[t]
  BY <1>1, EncodedPriorities
<1> HIDE DEF file
<1>5. r.priority = s.priority
  <2>1. r.priority = [t \in Statuses |-> In(file, Names[t][1], 0)]
    BY DEF DecodeSettings
  <2>2. s.priority \in [Statuses -> Int]
    BY <1>1 DEF Settings
  <2> QED BY <1>4, <2>1, <2>2
<1>6. /\ r.fail401 = s.fail401 /\ r.fail429 = s.fail429 /\ r.decay = s.decay
      /\ r.tokenLimit = s.tokenLimit /\ r.threshold = s.threshold
  <2>1. /\ {"debt_fail_401", "debt_fail_429", "debt_success_decay", "debt_probe_threshold",
            "free_user_daily_token_limit"} \subseteq DOMAIN Other(s) \ OmitEmpty
        /\ Other(s)["debt_fail_401"] = s.fail401 /\ Other(s)["debt_fail_429"] = s.fail429
        /\ Other(s)["debt_success_decay"] = s.decay
        /\ Other(s)["free_user_daily_token_limit"] = s.tokenLimit
        /\ Other(s)["debt_probe_threshold"] = s.threshold
    BY OtherDomain DEF Other, OmitEmpty
  <2> QED BY <1>3, <2>1 DEF DecodeSettings
<1>7. /\ r.restore = s.restore
      /\ r.anomaly = Or(s.anomaly, -50)
      /\ r.dead = Or(s.dead, Or(s.demotion, -100))
      /\ r.softThreshold = Or(s.softThreshold, s.threshold)
  <2>1. /\ {"default_restore_priority", "anomaly_priority", "dead_priority", "demotion_priority",
            "soft_debt_threshold"} \subseteq DOMAIN Other(s) \cap OmitEmpty
        /\ Other(s)["default_restore_priority"] = s.restore
        /\ Other(s)["anomaly_priority"] = s.anomaly
        /\ Other(s)["dead_priority"] = s.dead
        /\ Other(s)["demotion_priority"] = s.demotion
        /\ Other(s)["soft_debt_threshold"] = s.softThreshold
    BY OtherDomain DEF Other, OmitEmpty
  <2>2. /\ In(file, "default_restore_priority", 0) = s.restore
        /\ In(file, "demotion_priority", 0) = s.demotion
        /\ In(file, "soft_debt_threshold", 0) = s.softThreshold
    BY <1>3, <2>1
  <2>3. In(file, "anomaly_priority", -50) = Or(s.anomaly, -50)
    BY <1>3, <2>1 DEF Or
  <2>4. \A n : In(file, "dead_priority", n) = Or(s.dead, n)
    BY <1>3, <2>1 DEF Or
  <2>5. r.restore = In(file, "default_restore_priority", 0)
    BY DEF DecodeSettings
  <2>6. r.anomaly = In(file, "anomaly_priority", -50)
    BY DEF DecodeSettings
  <2>7. r.dead = In(file, "dead_priority", Or(In(file, "demotion_priority", 0), -100))
    BY DEF DecodeSettings
  <2>8. r.softThreshold = Or(In(file, "soft_debt_threshold", 0), r.threshold)
    BY DEF DecodeSettings
  <2> HIDE DEF r
  <2> QED BY <1>6, <2>2, <2>3, <2>4, <2>5, <2>6, <2>7, <2>8
<1>8. r.demotion = Or(s.demotion, r.dead)
  <2>1. "demotion_priority" \in DOMAIN Other(s) \cap OmitEmpty /\ Other(s)["demotion_priority"] = s.demotion
    BY OtherDomain DEF Other, OmitEmpty
  <2>2. In(file, "demotion_priority", 0) = s.demotion
    BY <1>3, <2>1
  <2>3. r.demotion = Or(In(file, "demotion_priority", 0), r.dead)
    BY DEF DecodeSettings
  <2> HIDE DEF r
  <2> QED BY <2>2, <2>3
<1> HIDE DEF r
<1>9. /\ s.threshold \in Int /\ s.softThreshold \in Int /\ s.restore \in Int
      /\ s.anomaly \in Int /\ s.dead \in Int /\ s.demotion \in Int
  BY <1>1 DEF Settings
<1>10. Threshold(r) = Threshold(s)
  BY <1>6, <1>7, <1>9 DEF Threshold, Positive, Or
<1>11. ASSUME NEW t \in Statuses
       PROVE  Older(r, t) = Older(s, t)
  <2>1. CASE t = "live"
    BY <1>5, <1>7, <2>1 DEF Older
  <2>2. CASE t = "dead"
    BY <1>7, <1>8, <1>9, <2>2 DEF Older, Or, DefaultPriority, Statuses
  <2>3. CASE t = "unknown"
    BY <2>3 DEF Older
  <2>4. CASE t \notin {"live", "dead", "unknown"}
    <3>1. DefaultPriority[t] = -50
      BY <2>4 DEF DefaultPriority
    <3> QED BY <1>7, <1>9, <2>4, <3>1 DEF Older, Or
  <2> QED BY <2>1, <2>2, <2>3, <2>4
<1>12. Filled(r) = Filled(s)
  BY <1>5, <1>11 DEF Filled
<1>13. Deciding(NormalizeSettings(r)) = Deciding(NormalizeSettings(s))
  BY <1>1, <1>2, <1>6, <1>10, <1>12, NormalizedFields DEF Deciding
<1> QED BY <1>13 DEF r, file

\* A priority variable that is set and not overruled decides.
LEMMA ObeyedVariable ==
  ASSUME NEW e, WellFormed(e), NEW t \in Statuses, EnvName[t] \in DOMAIN e,
         ~(t \in {"invalid", "throttled"} /\ "ANOMALY_PRIORITY" \in DOMAIN e
           /\ "PRIORITY_ERROR" \notin DOMAIN e)
  PROVE  \/ LoadSettings(e).priority[t] = e[EnvName[t]]
         \/ e[EnvName[t]] \notin -MaxPriority..MaxPriority
         \/ e[EnvName[t]] = 0 /\ (t # "live" \/ \A r \in Statuses : EnvPriority(e, r) = 0)
<1>1. PICK raw \in Settings : /\ raw.priority = [r \in Statuses |-> EnvPriority(e, r)]
                             /\ LoadSettings(e) = NormalizeSettings(raw)
  BY LoadedFrom
<1>2. LoadSettings(e).priority[t] = Or(EnvPriority(e, t), Older(raw, t))
  <2>1. LoadSettings(e).priority = Filled(raw)
    BY <1>1, NormalizedFields
  <2>2. Filled(raw)[t] = Or(raw.priority[t], Older(raw, t))
    BY DEF Filled
  <2>3. raw.priority[t] = EnvPriority(e, t)
    BY <1>1
  <2> QED BY <2>1, <2>2, <2>3
<1>3. EnvAlias(e, t) \cap DOMAIN e = {}
  BY DEF EnvAlias, EnvName, Statuses
<1>4. EnvPriority(e, t) = EnvInt(e, EnvName[t], DefaultPriority[t])
  BY <1>3 DEF EnvPriority
<1> SUFFICES ASSUME e[EnvName[t]] \in -MaxPriority..MaxPriority
             PROVE  \/ LoadSettings(e).priority[t] = e[EnvName[t]]
                    \/ e[EnvName[t]] = 0 /\ (t # "live" \/ \A r \in Statuses : EnvPriority(e, r) = 0)
  OBVIOUS
<1>5. EnvPriority(e, t) = e[EnvName[t]]
  BY <1>4 DEF EnvInt
<1>6. CASE e[EnvName[t]] # 0
  BY <1>2, <1>5, <1>6 DEF Or
<1>7. CASE e[EnvName[t]] = 0 /\ t = "live"
  <2>1. CASE \A r \in Statuses : EnvPriority(e, r) = 0
    BY <1>7, <2>1
  <2>2. CASE \E r \in Statuses : EnvPriority(e, r) # 0
    <3>1. Older(raw, t) = 0
      BY <1>1, <1>7, <2>2 DEF Older
    <3> QED BY <1>2, <1>5, <1>7, <3>1 DEF Or
  <2> QED BY <2>1, <2>2
<1>8. CASE e[EnvName[t]] = 0 /\ t # "live"
  BY <1>8
<1> QED BY <1>6, <1>7, <1>8

-----------------------------------------------------------------------------
(* The inductive invariant, one part per variable or pair of variables.     *)

World ==
  /\ alphabet \in DOMAIN Inputs
  /\ env \in inputs.environments
  /\ settings \in Sound

AccountInv == account \in Account /\ KnownPair(account)

HandlerInv ==
  handler # None => /\ handler \in [report : inputs.reports, settings : Sound, seen : SUBSET Sound]
                    /\ handler.settings \in handler.seen

ProberInv == prober # None => prober.status \in Statuses

DraftInv == draft # None => KnownPair(draft)

KeysInv ==
  /\ IsFiniteSet(counted)
  /\ keys \subseteq {report.id : report \in inputs.reports}
  /\ counted \subseteq inputs.reports \X Nat
  /\ healing \in BOOLEAN

PolicyInv == World /\ AccountInv /\ HandlerInv /\ ProberInv /\ DraftInv /\ KeysInv

\* What the readers see is sound.
LEMMA EffectiveSound ==
  ASSUME World
  PROVE  settings \in Sound /\ Effective \in Sound
BY NormalizedSound DEF World, Effective

\* A state file that was just read satisfies the invariant.
LEMMA InitHolds == Init => PolicyInv
<1> SUFFICES ASSUME Init PROVE PolicyInv
  OBVIOUS
<1>1. World
  <2>1. ASSUME NEW file \in inputs.files PROVE DecodeSettings(file) \in Sound
    <3>1. WellFormed(file) /\ \A field \in Unsigned \cap DOMAIN file : file[field] >= 0
      BY InputsAssumption DEF Init, inputs
    <3> QED BY <3>1, DecodedSound
  <2>2. LoadSettings(env) \in Sound
    BY InputsAssumption, LoadedFrom DEF Init, inputs
  <2> QED BY <2>1, <2>2 DEF Init, World
<1>2. AccountInv
  <2>1. PICK pair \in inputs.pairs :
          account = [label |-> pair.label, http |-> pair.http, debt |-> 0,
                     usage |-> ZeroUsage, quota |-> NoQuota]
    BY DEF Init
  <2>2. KnownPair(pair)
    BY InputsAssumption DEF Init, inputs
  <2>3. pair.label \in Labels /\ pair.http \in Nat
    BY <2>2 DEF KnownPair, Labels
  <2>4. ZeroUsage \in [Counters -> 0..MaxCounter]
    BY WidthAssumption DEF ZeroUsage
  <2>5. NoQuota \in [plan : Plans, source : Sources, used : Int, limit : Int]
    BY DEF NoQuota, Plans, Sources
  <2>6. account \in Account
    BY <2>1, <2>3, <2>4, <2>5 DEF Account
  <2>7. account.label = pair.label /\ account.http = pair.http
    BY <2>1
  <2> QED BY <2>2, <2>6, <2>7 DEF AccountInv, KnownPair
<1>3. HandlerInv /\ ProberInv /\ DraftInv /\ KeysInv
  BY FS_EmptySet DEF Init, HandlerInv, ProberInv, DraftInv, KeysInv
<1> QED BY <1>1, <1>2, <1>3 DEF PolicyInv

\* The invariant implies the types.
LEMMA PolicyInvIsTyped == PolicyInv => TypeOK
<1> SUFFICES ASSUME PolicyInv PROVE TypeOK
  OBVIOUS
<1>1. settings \in Settings
  BY DEF PolicyInv, World, Sound
<1>2. handler # None => handler.report \in inputs.reports /\ handler.settings \in Settings
  BY DEF PolicyInv, HandlerInv, Sound
<1>3. prober # None => prober.status \in Labels
  BY DEF PolicyInv, ProberInv, Labels
<1>4. draft # None => draft.label \in Labels /\ draft.http \in Nat
  BY DEF PolicyInv, DraftInv, KnownPair, Labels
<1>5. account \in Account /\ KeysInv
  BY DEF PolicyInv, AccountInv
<1> QED BY <1>1, <1>2, <1>3, <1>4, <1>5 DEF TypeOK, PolicyInv, World, KeysInv

-----------------------------------------------------------------------------
(* One lemma for each step that changes more than a slot.                  *)

\* A settings request stores sound settings.
LEMMA PutSettingsHolds ==
  ASSUME PolicyInv, NEW update \in inputs.updates, PutSettings(update)
  PROVE  PolicyInv' /\ settings' \in Sound
<1>1. WellFormed(update) /\ Acceptable(update)
  BY InputsAssumption DEF PolicyInv, World, inputs, PutSettings
<1>2. settings \in Sound
  BY EffectiveSound DEF PolicyInv
<1>3. settings' \in Sound
  BY <1>1, <1>2, UpdatedExactly DEF PutSettings
<1>4. World'
  BY <1>3 DEF PolicyInv, World, PutSettings, inputs
<1>5. HandlerInv'
  <2>1. CASE handler = None
    BY <2>1 DEF PutSettings, HandlerInv
  <2>2. CASE handler # None /\ handler' # None
    <3>1. handler' = [handler EXCEPT !.seen = @ \cup {Effective'}]
      BY <2>2 DEF PutSettings
    <3>2. /\ handler \in [report : inputs.reports, settings : Sound, seen : SUBSET Sound]
          /\ handler.settings \in handler.seen
      BY <2>2 DEF PolicyInv, HandlerInv
    <3>3. inputs' = inputs
      BY DEF PutSettings, inputs
    <3>4. Effective' \in Sound
      BY <1>3, NormalizedSound DEF Effective
    <3>5. handler' \in [report : inputs.reports, settings : Sound, seen : SUBSET Sound]
      BY <3>1, <3>2, <3>4
    <3>6. handler'.settings \in handler'.seen
      BY <3>1, <3>2
    <3> QED BY <3>3, <3>5, <3>6 DEF HandlerInv
  <2>3. CASE handler' = None
    BY <2>3 DEF HandlerInv
  <2> QED BY <2>1, <2>2, <2>3
<1>6. AccountInv' /\ ProberInv' /\ DraftInv' /\ KeysInv'
  BY DEF PolicyInv, AccountInv, ProberInv, DraftInv, KeysInv, PutSettings, KnownPair, inputs
<1> QED BY <1>3, <1>4, <1>5, <1>6 DEF PolicyInv

\* A report starts with the settings in force.
LEMMA ArriveHolds ==
  ASSUME PolicyInv, NEW report \in inputs.reports, Arrive(report)
  PROVE  PolicyInv'
<1>1. handler' = [report |-> report, settings |-> Effective, seen |-> {Effective}]
  BY DEF Arrive, ReadSettings
<1>2. Effective \in Sound
  BY EffectiveSound DEF PolicyInv
<1>3. HandlerInv'
  <2>1. handler' \in [report : inputs.reports, settings : Sound, seen : SUBSET Sound]
    BY <1>1, <1>2
  <2>2. handler'.settings \in handler'.seen
    BY <1>1
  <2> QED BY <2>1, <2>2 DEF HandlerInv, Arrive, inputs
<1>4. World' /\ AccountInv' /\ ProberInv' /\ DraftInv' /\ KeysInv'
  BY DEF PolicyInv, World, AccountInv, ProberInv, DraftInv, KeysInv, Arrive, KnownPair, inputs
<1> QED BY <1>3, <1>4 DEF PolicyInv

\* The numbers of a report.
LEMMA ValueTyped ==
  ASSUME NEW number \in SUBSET Int
  PROVE  Value(number) \in Int
<1>1. CASE number = {}
  BY <1>1 DEF Value
<1>2. CASE number # {}
  <2>1. (CHOOSE n \in number : TRUE) \in number
    BY <1>2
  <2> QED BY <1>2, <2>1 DEF Value
<1> QED BY <1>1, <1>2

\* What a report adds to the counters are numbers.
LEMMA IncrementsTyped ==
  ASSUME NEW report, WellFormedReport(report)
  PROVE  Increments(report) \in [Counters -> Int]
<1>1. /\ report.input \in SUBSET Int /\ report.output \in SUBSET Int /\ report.total \in SUBSET Int
  BY WidthAssumption DEF WellFormedReport
<1>2. /\ Value(report.input) \in Int /\ Value(report.output) \in Int /\ Value(report.total) \in Int
  BY <1>1, ValueTyped
<1>3. \A condition : Count(condition) \in Int
  BY DEF Count
<1>4. ASSUME NEW c \in Counters
      PROVE  Increments(report)[c] \in Int
  BY <1>2, <1>3 DEF Increments
<1> QED BY <1>4 DEF Increments

\* Counters stay in their range, overflow or not.
LEMMA AddedTyped ==
  ASSUME NEW report, WellFormedReport(report), NEW usage \in [Counters -> 0..MaxCounter]
  PROVE  Added(usage, report) \in [Counters -> 0..MaxCounter]
<1>1. MaxCounter + 1 \in Nat \ {0} /\ MaxCounter \in Nat
  BY WidthAssumption
<1>2. \A a \in Int, b \in Nat \ {0} : a % b \in 0..(b - 1)
  OBVIOUS
<1>3. ASSUME NEW c \in Counters
      PROVE  (usage[c] + Increments(report)[c]) % (MaxCounter + 1) \in 0..MaxCounter
  <2>1. usage[c] + Increments(report)[c] \in Int
    BY <1>1, IncrementsTyped
  <2>2. (usage[c] + Increments(report)[c]) % (MaxCounter + 1) \in 0..((MaxCounter + 1) - 1)
    BY <1>1, <1>2, <2>1
  <2> QED BY <1>1, <2>2
<1> QED BY <1>3 DEF Added

\* What a report does to an account with a known pair leaves one.
LEMMA JudgedTyped ==
  ASSUME NEW acct \in Account, KnownPair(acct), NEW s \in Sound,
         NEW report, WellFormedReport(report)
  PROVE  Judged(acct, s, report) \in Account /\ KnownPair(Judged(acct, s, report))
<1>1. /\ s.fail401 \in Nat /\ s.fail429 \in Nat /\ s.decay \in Int
  BY DEF Sound, Settings
<1>2. acct.debt \in Nat
  BY DEF Account
<1>3. AfterSuccess(acct, s) \in Account /\ KnownPair(AfterSuccess(acct, s))
  <2>1. CASE IsLiveProbe(acct.label)
    <3> DEFINE debt == Decayed(acct.debt, s)
    <3>1. debt \in Nat
      BY <1>1, <1>2 DEF Decayed
    <3>2. AfterSuccess(acct, s) = [acct EXCEPT !.debt = debt]
      BY <2>1 DEF AfterSuccess
    <3> HIDE DEF debt
    <3> QED BY <3>1, <3>2 DEF Account, KnownPair
  <2>2. CASE ~IsLiveProbe(acct.label)
    <3>1. AfterSuccess(acct, s) = [acct EXCEPT !.label = "live", !.http = 200, !.debt = 0]
      BY <2>2 DEF AfterSuccess
    <3>2. "live" \in Labels \ {"", "unheard-of"} /\ 200 \in Nat
      BY DEF Labels, Statuses
    <3>3. AfterSuccess(acct, s) \in Account
      <4> DEFINE U == [Counters -> 0..MaxCounter]
                 Q == [plan : Plans, source : Sources, used : Int, limit : Int]
                 label == "live"
                 http == 200
                 debt == 0
                 new == [acct EXCEPT !.label = label, !.http = http, !.debt = debt]
      <4>1. Account = [label : Labels, http : Nat, debt : Nat, usage : U, quota : Q]
        BY DEF Account
      <4>2. label \in Labels /\ http \in Nat /\ debt \in Nat
        BY <3>2
      <4>3. AfterSuccess(acct, s) = new
        BY <3>1
      <4> HIDE DEF U, Q, label, http, debt
      <4>4. new \in Account
        BY <4>1, <4>2
      <4> QED BY <4>3, <4>4
    <3>4. AfterSuccess(acct, s).label = "live" /\ AfterSuccess(acct, s).http = 200
      BY <3>1 DEF Account
    <3> QED BY <3>2, <3>3, <3>4 DEF KnownPair
  <2> QED BY <2>1, <2>2
<1>4. AfterFailure(acct, s, report) \in Account /\ KnownPair(AfterFailure(acct, s, report))
  <2> DEFINE sum == acct.debt + Weight(s, StatusCode(report))
             debt == IF sum >= s.threshold THEN 0 ELSE sum
  <2>1. Weight(s, StatusCode(report)) \in Nat
    BY <1>1 DEF Weight
  <2>2. debt \in Nat
    BY <1>2, <2>1
  <2>3. AfterFailure(acct, s, report) = [acct EXCEPT !.debt = debt] \/ AfterFailure(acct, s, report) = acct
    BY DEF AfterFailure
  <2> HIDE DEF debt
  <2> QED BY <2>2, <2>3 DEF Account, KnownPair
<1> QED BY <1>3, <1>4 DEF Judged

\* A key that is remembered was there or is the new one; where there is room
\* none goes.
LEMMA RememberedOnly ==
  ASSUME NEW kept, NEW id, NEW after \in Remembered(kept, id)
  PROVE  /\ after \subseteq kept \cup {id}
         /\ Cardinality({key \in kept \cup {id} : SameMode(key, id)}) <= inputs.room
              => after = kept \cup {id}
BY DEF Remembered

\* How often a report was counted is a number.
LEMMA TimesTyped ==
  ASSUME IsFiniteSet(counted), NEW report
  PROVE  Times(report) \in Nat
<1>1. {c \in counted : c[1] = report} \in SUBSET counted
  OBVIOUS
<1> QED BY <1>1, FS_Subset, FS_CardinalityType DEF Times

\* A report that is counted, refused or seen before keeps the invariant.
LEMMA CommitHolds ==
  ASSUME PolicyInv, Commit
  PROVE  PolicyInv'
<1>1. /\ handler.report \in inputs.reports /\ handler.settings \in Sound
  BY DEF PolicyInv, HandlerInv, Commit
<1>2. WellFormedReport(handler.report)
  BY <1>1, InputsAssumption DEF PolicyInv, World, inputs
<1>3. AccountInv' /\ KeysInv'
  <2>1. /\ inputs' = inputs
        /\ keys \subseteq {report.id : report \in inputs.reports}
        /\ counted \subseteq inputs.reports \X Nat /\ healing \in BOOLEAN
    BY DEF PolicyInv, KeysInv, Commit, inputs
  <2>2. PICK kept \in Pruned : \/ Duplicate(handler.report, kept)
                               \/ Reject(handler.report, kept)
                               \/ Accept(handler.report, kept)
    BY DEF Commit
  <2>3. kept \subseteq keys
    BY DEF Pruned
  <2>4. CASE Duplicate(handler.report, kept)
    BY <2>1, <2>3, <2>4 DEF PolicyInv, AccountInv, KeysInv, KnownPair, Duplicate
  <2>5. CASE Reject(handler.report, kept)
    BY <2>1, <2>5 DEF PolicyInv, AccountInv, KeysInv, KnownPair, Reject
  <2>6. CASE Accept(handler.report, kept)
    <3> DEFINE usage == Added(account.usage, handler.report)
               acct == [account EXCEPT !.usage = usage]
    <3>1. /\ account' = Judged(acct, handler.settings, handler.report)
          /\ keys' \in Remembered(kept, handler.report.id)
          /\ counted' = counted \cup {<<handler.report, Times(handler.report) + 1>>}
          /\ healing' = (healing \/ (Kind(handler.report) = "success" /\ ~IsLiveProbe(account.label)))
      BY <2>6 DEF Accept
    <3>2. usage \in [Counters -> 0..MaxCounter]
      BY <1>2, AddedTyped DEF PolicyInv, AccountInv, Account
    <3> HIDE DEF usage
    <3>3. acct \in Account
      BY <3>2 DEF PolicyInv, AccountInv, Account
    <3>4. acct.label = account.label /\ acct.http = account.http
      BY DEF PolicyInv, AccountInv, Account
    <3>5. KnownPair(acct)
      BY <3>4 DEF PolicyInv, AccountInv, KnownPair
    <3> HIDE DEF acct
    <3>6. account' \in Account /\ KnownPair(account')
      BY <1>1, <1>2, <3>1, <3>3, <3>5, JudgedTyped
    <3>7. AccountInv'
      BY <3>6 DEF AccountInv
    <3>8. keys' \subseteq {report.id : report \in inputs.reports}
      <4>1. keys' \in Remembered(kept, handler.report.id)
        BY <3>1
      <4>2. keys' \subseteq kept \cup {handler.report.id}
        BY <4>1 DEF Remembered
      <4> QED BY <1>1, <2>1, <2>3, <4>2
    <3>9. counted' \subseteq inputs.reports \X Nat /\ IsFiniteSet(counted')
      <4>1. IsFiniteSet(counted) /\ Times(handler.report) + 1 \in Nat
        BY TimesTyped DEF PolicyInv, KeysInv
      <4>2. <<handler.report, Times(handler.report) + 1>> \in inputs.reports \X Nat
        BY <1>1, <4>1
      <4> QED BY <2>1, <3>1, <4>1, <4>2, FS_AddElement
    <3>10. healing' \in BOOLEAN
      BY <2>1, <3>1
    <3> QED BY <2>1, <3>7, <3>8, <3>9, <3>10 DEF KeysInv
  <2> QED BY <2>2, <2>4, <2>5, <2>6
<1>4. World' /\ HandlerInv' /\ ProberInv' /\ DraftInv'
  BY DEF PolicyInv, World, HandlerInv, ProberInv, DraftInv, Commit, inputs
<1> QED BY <1>3, <1>4 DEF PolicyInv

\* A result always leaves one of the statuses, and none of them is unknown.
LEMMA ResultIsStatus ==
  ASSUME NEW result, WellFormedResult(result)
  PROVE  ResultStatus(result.label, result.http) \in Statuses \ {"unknown"}
<1> DEFINE status == NormalizeProbeStatus(result.label, result.http)
<1>1. result.http \in Nat /\ result.label \in Labels /\ (result.label = "unheard-of" => result.http > 0)
  BY DEF WellFormedResult
<1>2. status \in Statuses \/ status = ""
  <2>1. CASE result.label \in Known
    BY <1>1, <2>1, KnownStatus
  <2>2. CASE result.label = "unheard-of"
    <3>2. result.http \in Nat \ {0}
      BY <1>1, <2>2
    <3>1. status = ClassifyProbeHTTP(result.http)
      BY <2>2, <3>2, NoLabel
    <3> QED BY <1>1, <3>1, ClassifiedStatus
  <2>3. CASE result.label = "" /\ result.http = 0
    BY <2>3, NoLabel
  <2>4. CASE result.label = "" /\ result.http # 0
    <3>1. status = ClassifyProbeHTTP(result.http)
      BY <1>1, <2>4, NoLabel
    <3> QED BY <1>1, <3>1, ClassifiedStatus
  <2> QED BY <1>1, <2>1, <2>2, <2>3, <2>4 DEF Known
<1> HIDE DEF status
<1>3. CASE status = ""
  <2>1. ResultStatus(result.label, result.http) = ClassifyProbeHTTP(result.http)
    BY <1>3 DEF ResultStatus, status
  <2> QED BY <1>1, <2>1, ClassifiedStatus
<1>4. CASE status = "unknown"
  <2>1. ResultStatus(result.label, result.http) = "error"
    BY <1>4 DEF ResultStatus, status
  <2> QED BY <2>1 DEF Statuses
<1>5. CASE status \in Statuses \ {"unknown"}
  <2>1. ResultStatus(result.label, result.http) = status
    BY <1>5 DEF ResultStatus, status, Statuses
  <2> QED BY <1>5, <2>1
<1> QED BY <1>2, <1>3, <1>4, <1>5

\* Every status is a label that is known.
LEMMA StatusIsKnown == Statuses \subseteq Known
BY DEF Statuses, Known, Labels

\* The result of a probe leaves a known pair.
LEMMA MarkHolds ==
  ASSUME PolicyInv, NEW result \in inputs.results, Mark(result)
  PROVE  PolicyInv'
<1> DEFINE status == ResultStatus(result.label, result.http)
           http == result.http
           plan == IF account.quota.plan = "" THEN "unknown" ELSE account.quota.plan
<1>1. WellFormedResult(result)
  BY InputsAssumption DEF PolicyInv, World, inputs
<1>2. status \in Statuses /\ http \in Nat
  BY <1>1, ResultIsStatus DEF WellFormedResult
<1>3. /\ account' = [account EXCEPT !.label = status, !.http = http, !.quota.plan = plan]
      /\ prober' = [status |-> status, clear |-> FALSE]
  BY DEF Mark
<1>4. account \in Account /\ plan \in Plans
  <2>1. account \in Account
    BY DEF PolicyInv, AccountInv
  <2>2. account.quota.plan \in Plans
    BY <2>1 DEF Account
  <2> QED BY <2>1, <2>2 DEF Plans
<1>5. status \in Known /\ status \in Labels
  BY <1>2, StatusIsKnown DEF Labels
<1> HIDE DEF status, http, plan
<1>6. account' \in Account /\ account'.label = status /\ account'.http = http
  BY <1>2, <1>3, <1>4, <1>5 DEF Account
<1>7. AccountInv'
  BY <1>2, <1>5, <1>6 DEF AccountInv, KnownPair, Known
<1>8. ProberInv'
  BY <1>2, <1>3 DEF ProberInv
<1>9. World' /\ HandlerInv' /\ DraftInv' /\ KeysInv'
  BY DEF PolicyInv, World, HandlerInv, DraftInv, KeysInv, Mark, inputs
<1> QED BY <1>7, <1>8, <1>9 DEF PolicyInv

\* A heal is about to record a status.
LEMMA TakeHealHolds ==
  ASSUME PolicyInv, TakeHeal
  PROVE  PolicyInv'
<1>1. ProberInv'
  BY DEF TakeHeal, ProberInv, Statuses
<1>2. World' /\ AccountInv' /\ HandlerInv' /\ DraftInv' /\ KeysInv'
  BY DEF PolicyInv, World, AccountInv, HandlerInv, DraftInv, KeysInv, KnownPair, TakeHeal, inputs
<1> QED BY <1>1, <1>2 DEF PolicyInv

\* So is a resign.
LEMMA ResignHolds ==
  ASSUME PolicyInv, Resign
  PROVE  PolicyInv'
<1>1. ProberInv'
  BY DEF Resign, ProberInv, Statuses
<1>2. World' /\ AccountInv' /\ HandlerInv' /\ DraftInv' /\ KeysInv'
  BY DEF PolicyInv, World, AccountInv, HandlerInv, DraftInv, KeysInv, KnownPair, Resign, inputs
<1> QED BY <1>1, <1>2 DEF PolicyInv

\* Recording a status leaves a known pair: unknown clears both halves of it.
LEMMA BindHolds ==
  ASSUME PolicyInv, Bind
  PROVE  PolicyInv'
<1> DEFINE status == prober.status
           acct == Recorded(account, status)
           debt == IF prober.clear THEN 0 ELSE acct.debt
<1>1. status \in Statuses
  BY DEF PolicyInv, ProberInv, Bind
<1>2. CanonicalProbeStatus(status, 0) = status
  BY <1>1, StatusIsKnown, KnownStatus DEF CanonicalProbeStatus, Statuses
<1>3. account' = [acct EXCEPT !.debt = debt]
  BY DEF Bind
<1>4. account \in Account /\ KnownPair(account)
  BY DEF PolicyInv, AccountInv
<1> HIDE DEF status
<1>5. acct \in Account /\ KnownPair(acct)
  <2>1. CASE status = "unknown"
    <3> DEFINE label == ""
               http == 0
    <3>1. acct = [account EXCEPT !.label = label, !.http = http]
      BY <1>2, <2>1 DEF Recorded
    <3>2. label \in Labels /\ http \in Nat /\ label = "" /\ http = 0
      BY DEF Labels
    <3> HIDE DEF acct, label, http
    <3>3. acct \in Account /\ acct.label = label /\ acct.http = http
      BY <1>4, <3>1, <3>2 DEF Account
    <3> QED BY <3>2, <3>3 DEF KnownPair
  <2>2. CASE status # "unknown"
    <3>1. acct = [account EXCEPT !.label = status]
      BY <1>2, <2>2 DEF Recorded
    <3>2. status \in Known /\ status \in Labels
      BY <1>1, StatusIsKnown DEF Labels
    <3> HIDE DEF acct
    <3>3. acct \in Account /\ acct.label = status /\ acct.http = account.http
      BY <1>4, <3>1, <3>2 DEF Account
    <3> QED BY <1>4, <3>2, <3>3 DEF KnownPair, Known
  <2> QED BY <2>1, <2>2
<1> HIDE DEF acct
<1>6. debt \in Nat
  BY <1>5 DEF Account
<1> HIDE DEF debt
<1>7. account' \in Account /\ account'.label = acct.label /\ account'.http = acct.http
  BY <1>3, <1>5, <1>6 DEF Account
<1>8. AccountInv'
  BY <1>5, <1>7 DEF AccountInv, KnownPair
<1>9. World' /\ HandlerInv' /\ ProberInv' /\ DraftInv' /\ KeysInv'
  BY DEF PolicyInv, World, HandlerInv, ProberInv, DraftInv, KeysInv, Bind, inputs
<1> QED BY <1>8, <1>9 DEF PolicyInv

\* The label on the panel of a pair that is known.
LEMMA ShownPair ==
  ASSUME NEW label, NEW http, KnownPair([label |-> label, http |-> http])
  PROVE  KnownPair([label |-> ShownLabel(label, http), http |-> http])
<1>1. http \in Nat
  BY DEF KnownPair
<1>2. CASE label \in Known
  <2>1. ShownLabel(label, http) = NormalizeProbeStatus(label, http)
    BY <1>2 DEF ShownLabel, Known
  <2>2. NormalizeProbeStatus(label, http) \in Known
    BY <1>1, <1>2, KnownStatus, StatusIsKnown
  <2> QED BY <1>1, <2>1, <2>2 DEF KnownPair, Known
<1>3. CASE label = "" /\ http = 0
  BY <1>3 DEF ShownLabel, KnownPair
<1> QED BY <1>2, <1>3 DEF KnownPair, Known

\* The copy on the panel is a known pair.
LEMMA CopyRowHolds ==
  ASSUME PolicyInv, CopyRow
  PROVE  PolicyInv'
<1>1. KnownPair([label |-> account.label, http |-> account.http])
  BY DEF PolicyInv, AccountInv, KnownPair
<1>2. account.http \in Nat
  BY <1>1 DEF KnownPair
<1>3. draft' = [label |-> ShownLabel(account.label, account.http), http |-> account.http]
  BY <1>2 DEF CopyRow, PanelCopy
<1>4. DraftInv'
  BY <1>1, <1>3, ShownPair DEF DraftInv
<1>5. World' /\ AccountInv' /\ HandlerInv' /\ ProberInv' /\ KeysInv'
  BY DEF PolicyInv, World, AccountInv, HandlerInv, ProberInv, KeysInv, KnownPair, CopyRow, inputs
<1> QED BY <1>4, <1>5 DEF PolicyInv

\* Whichever pair the panel posts with the quota, it is a known one.
LEMMA PostQuotaHolds ==
  ASSUME PolicyInv, NEW quota \in inputs.plans, NEW pair \in {draft} \cup PanelResults,
         PostQuota(quota, pair)
  PROVE  PolicyInv'
<1>1. KnownPair([label |-> pair.label, http |-> pair.http])
  <2>1. CASE pair = draft
    BY <2>1 DEF PostQuota, PolicyInv, DraftInv, KnownPair
  <2>2. CASE pair \in PanelResults
    <3>1. pair.label = ClassifyProbeHTTP(pair.http) /\ pair.http \in Nat
      BY <2>2, InputsAssumption DEF PanelResults, PolicyInv, World, inputs, WellFormedResult
    <3>2. pair.label \in Known
      BY <3>1, ClassifiedStatus, StatusIsKnown
    <3> QED BY <3>1, <3>2 DEF KnownPair, Known
  <2> QED BY <2>1, <2>2
<1> DEFINE label == ShownLabel(pair.label, pair.http)
           http == pair.http
           plan == IF quota.plan = "" THEN "unknown" ELSE quota.plan
           new == [plan |-> plan, source |-> SourceOf(quota), used |-> quota.used, limit |-> quota.limit]
<1>2. account' = [account EXCEPT !.quota = new, !.label = label, !.http = http]
  BY DEF PostQuota
<1>3. KnownPair([label |-> label, http |-> http])
  BY <1>1, ShownPair
<1>4. new \in [plan : Plans, source : Sources, used : Int, limit : Int]
  <2>1. quota.plan \in Plans /\ quota.source \in Sources
    BY DEF PostQuota, Postable
  <2>2. quota.used \in Int /\ quota.limit \in Int
    BY InputsAssumption DEF PolicyInv, World, inputs
  <2>3. plan \in Plans
    BY <2>1 DEF Plans
  <2>4. SourceOf(quota) \in Sources
    BY <2>1 DEF SourceOf, Sources
  <2> QED BY <2>2, <2>3, <2>4
<1> HIDE DEF label, http, new
<1>5. label \in Labels /\ http \in Nat
  BY <1>3 DEF KnownPair, Labels
<1>6. account \in Account
  BY DEF PolicyInv, AccountInv
<1>7. account' \in Account /\ account'.label = label /\ account'.http = http
  BY <1>2, <1>4, <1>5, <1>6 DEF Account
<1>8. AccountInv'
  BY <1>3, <1>7 DEF AccountInv, KnownPair
<1>9. World' /\ HandlerInv' /\ ProberInv' /\ DraftInv' /\ KeysInv'
  BY DEF PolicyInv, World, HandlerInv, ProberInv, DraftInv, KeysInv, PostQuota, inputs
<1> QED BY <1>8, <1>9 DEF PolicyInv

\* The next process finds what this one saved.
LEMMA RestartHolds ==
  ASSUME PolicyInv, NEW e \in inputs.environments, Restart(e)
  PROVE  PolicyInv'
<1>1. settings' \in Sound
  <2>1. settings \in Sound
    BY DEF PolicyInv, World
  <2>2. DecodeSettings(EncodeSettings(settings)) \in Sound
    BY <2>1, EncodedWellFormed, DecodedSound
  <2> QED BY <2>2 DEF Restart
<1>2. World'
  BY <1>1 DEF PolicyInv, World, Restart, inputs
<1>3. AccountInv' /\ HandlerInv' /\ ProberInv' /\ DraftInv' /\ KeysInv'
  BY DEF PolicyInv, AccountInv, HandlerInv, ProberInv, DraftInv, KeysInv, KnownPair, Restart, inputs
<1> QED BY <1>2, <1>3 DEF PolicyInv

-----------------------------------------------------------------------------
(* The theorems.                                                           *)

\* Every step keeps the invariant.
LEMMA NextHolds == PolicyInv /\ [Next]_vars => PolicyInv'
<1> SUFFICES ASSUME PolicyInv, [Next]_vars PROVE PolicyInv'
  OBVIOUS
<1>1. CASE UsageStep
  BY <1>1, ArriveHolds, CommitHolds DEF UsageStep
<1>2. CASE ProbeStep
  BY <1>2, MarkHolds, TakeHealHolds, ResignHolds, BindHolds DEF ProbeStep
<1>3. CASE PanelStep
  BY <1>3, PutSettingsHolds, CopyRowHolds, PostQuotaHolds DEF PanelStep
<1>4. CASE \E e \in inputs.environments : Restart(e)
  BY <1>4, RestartHolds
<1>5. CASE UNCHANGED vars
  BY <1>5 DEF vars, PolicyInv, World, AccountInv, HandlerInv, ProberInv, DraftInv, KeysInv,
              KnownPair, inputs
<1> QED BY <1>1, <1>2, <1>3, <1>4, <1>5 DEF Next

\* PolicyInv is an invariant.
LEMMA Invariance == Spec => []PolicyInv
<1> QED BY InitHolds, NextHolds, PTL DEF Spec

\* TypeOK: the stored settings, the account and every call in between have the
\* types the code gives them; debt is never negative and counters stay in range.
THEOREM TypeCorrect == Spec => []TypeOK
<1> QED BY Invariance, PolicyInvIsTyped, PTL

\* ReadersAgree: the panel, sync-priority, usage.handle and the automatic probes
\* read the same status from the stored pair, whoever wrote it.
THEOREM ReadersAlwaysAgree == Spec => []ReadersAgree
<1>1. PolicyInv => ReadersAgree
  <2> SUFFICES ASSUME PolicyInv PROVE ReadersAgree
    OBVIOUS
  <2>1. KnownPair([label |-> account.label, http |-> account.http])
    BY DEF PolicyInv, AccountInv, KnownPair
  <2> QED BY <2>1, PairIsRead DEF ReadersAgree
<1> QED BY <1>1, Invariance, PTL

\* OneReading: normalising again changes nothing, and only live may have the
\* priority zero, whatever a state file, a request or the environment says.
THEOREM SettingsReadOnce == Spec => []OneReading
<1>1. PolicyInv => OneReading
  <2> SUFFICES ASSUME PolicyInv PROVE OneReading
    OBVIOUS
  <2>1. settings \in Settings
    BY EffectiveSound DEF PolicyInv, Sound
  <2>2. NormalizeSettings(Effective) = Effective
    BY <2>1, NormalizedOnce DEF Effective
  <2>3. Effective.threshold > 0
    BY <2>1, NormalizedFields, ThresholdTyped DEF Effective
  <2>4. ASSUME NEW label \in Labels \ {"live"}
        PROVE  PriorityForProbeStatus(settings, label) # 0
    <3> DEFINE status == CanonicalProbeStatus(label, 0)
               shown == IF status \in Statuses THEN status ELSE "unknown"
    <3>1. shown \in Statuses \ {"live"}
      BY OnlyLiveIsLive DEF Statuses
    <3>2. PriorityForProbeStatus(settings, label) = NormalizeSettings(settings).priority[shown]
      BY DEF PriorityForProbeStatus
    <3> HIDE DEF shown
    <3>3. NormalizeSettings(settings).priority = Filled(settings)
      BY <2>1, NormalizedFields
    <3> QED BY <2>1, <3>1, <3>2, <3>3, FilledTyped
  <2> QED BY <2>2, <2>3, <2>4 DEF OneReading
<1> QED BY <1>1, Invariance, PTL

\* SettingsSurviveRestart: what decides is read back from the state file as it
\* was, although save leaves out fields that are zero.
THEOREM SettingsComeBack == Spec => []SettingsSurviveRestart
<1>1. PolicyInv => SettingsSurviveRestart
  <2> SUFFICES ASSUME PolicyInv
               PROVE  Deciding(NormalizeSettings(DecodeSettings(EncodeSettings(settings))))
                        = Deciding(Effective)
    BY DEF SettingsSurviveRestart
  <2>1. settings \in Sound /\ Effective = NormalizeSettings(settings)
    BY DEF PolicyInv, World, Effective
  <2> QED BY <2>1, WhatDecidesComesBack
<1> QED BY <1>1, Invariance, PTL

\* EnvIsObeyed: a priority variable decides before every older one, with the
\* exceptions that the property names.
THEOREM VariablesObeyed == Spec => []EnvIsObeyed
<1>1. PolicyInv => EnvIsObeyed
  <2> SUFFICES ASSUME PolicyInv PROVE EnvIsObeyed
    OBVIOUS
  <2>1. WellFormed(env)
    BY InputsAssumption DEF PolicyInv, World, inputs
  <2>2. ASSUME NEW t \in Statuses, EnvName[t] \in DOMAIN env,
               ~(t \in {"invalid", "throttled"} /\ "ANOMALY_PRIORITY" \in DOMAIN env
                 /\ "PRIORITY_ERROR" \notin DOMAIN env)
        PROVE  \/ LoadSettings(env).priority[t] = env[EnvName[t]]
               \/ env[EnvName[t]] \notin -MaxPriority..MaxPriority
               \/ env[EnvName[t]] = 0 /\ (t # "live" \/ \A r \in Statuses : EnvPriority(env, r) = 0)
    BY <2>1, <2>2, ObeyedVariable
  <2> QED BY <2>2 DEF EnvIsObeyed
<1> QED BY <1>1, Invariance, PTL

\* UpdateIsExact: a settings request changes what it names and nothing else.
THEOREM UpdatesAreExact == Spec => UpdateIsExact
<1> DEFINE Exact(update) ==
       LET before == Effective  after == Effective' IN
       /\ \A s \in Statuses :
            LET asked == Given(update, Names[s], before.priority[s]) IN
            after.priority[s] = asked \/ (s # "live" /\ asked = 0)
       /\ after.threshold = Given(update, <<"debt_probe_threshold", "soft_debt_threshold">>,
                                  before.threshold)
       /\ after.fail401 = In(update, "debt_fail_401", before.fail401)
       /\ after.fail429 = In(update, "debt_fail_429", before.fail429)
       /\ after.decay = In(update, "debt_success_decay", before.decay)
<1>1. PolicyInv /\ [Next]_vars => [\A update \in inputs.updates : PutSettings(update) => Exact(update)]_vars
  <2> SUFFICES ASSUME PolicyInv, NEW update \in inputs.updates, PutSettings(update)
               PROVE  Exact(update)
    OBVIOUS
  <2>1. WellFormed(update) /\ Acceptable(update)
    BY InputsAssumption DEF PolicyInv, World, inputs, PutSettings
  <2>2. settings \in Sound /\ Effective = NormalizeSettings(settings)
    BY EffectiveSound DEF PolicyInv, Effective
  <2>3. settings' = UpdatedSettings(settings, update) /\ settings' \in Sound
    BY PutSettingsHolds DEF PutSettings
  <2>4. Effective' = NormalizeSettings(UpdatedSettings(settings, update))
    BY <2>3 DEF Effective
  <2> QED BY <2>1, <2>2, <2>4, UpdatedExactly
<1> QED BY <1>1, Invariance, PTL DEF Spec, UpdateIsExact

\* Only the store update of usage.handle counts a report, one it accepts.
LEMMA OnlyCommitCounts ==
  ASSUME [Next]_vars, counted' # counted
  PROVE  \E kept \in Pruned : Accept(handler.report, kept)
<1>1. Commit
  BY DEF Next, UsageStep, ProbeStep, PanelStep, vars, Arrive, Mark, TakeHeal, Resign, Bind,
         PutSettings, CopyRow, PostQuota, Restart
<1> QED BY <1>1 DEF Commit, Duplicate, Reject

\* What a report does to debt does not depend on the counters.
LEMMA CountersDoNotJudge ==
  ASSUME NEW a \in Account, NEW b \in Account, a.label = b.label, a.http = b.http,
         a.debt = b.debt, NEW s, NEW report
  PROVE  Judged(a, s, report).debt = Judged(b, s, report).debt
<1>1. AfterSuccess(a, s).debt = AfterSuccess(b, s).debt
  BY DEF AfterSuccess, Account
<1>2. AfterFailure(a, s, report).debt = AfterFailure(b, s, report).debt
  BY DEF AfterFailure, Account
<1> QED BY <1>1, <1>2 DEF Judged

\* JudgedInForce: a report is judged by settings that were in force since it
\* arrived, all of them from the same moment.
THEOREM JudgedBySettingsInForce == Spec => JudgedInForce
<1>1. PolicyInv /\ [Next]_vars =>
        [handler # None /\ counted' # counted =>
           \E s \in handler.seen : account'.debt = Judged(account, s, handler.report).debt]_vars
  <2> SUFFICES ASSUME PolicyInv, [Next]_vars, handler # None, counted' # counted
               PROVE  \E s \in handler.seen : account'.debt = Judged(account, s, handler.report).debt
    OBVIOUS
  <2>1. PICK kept \in Pruned : Accept(handler.report, kept)
    BY OnlyCommitCounts
  <2> DEFINE usage == Added(account.usage, handler.report)
             acct == [account EXCEPT !.usage = usage]
  <2>2. account' = Judged(acct, handler.settings, handler.report)
    BY <2>1 DEF Accept
  <2>3. handler.settings \in handler.seen /\ handler.report \in inputs.reports
    BY DEF PolicyInv, HandlerInv
  <2>4. usage \in [Counters -> 0..MaxCounter]
    <3>1. WellFormedReport(handler.report)
      BY <2>3, InputsAssumption DEF PolicyInv, World, inputs
    <3> QED BY <3>1, AddedTyped DEF PolicyInv, AccountInv, Account
  <2> HIDE DEF usage
  <2>5. account \in Account /\ acct \in Account
    BY <2>4 DEF PolicyInv, AccountInv, Account
  <2>6. acct.label = account.label /\ acct.http = account.http /\ acct.debt = account.debt
    BY <2>5 DEF Account
  <2> HIDE DEF acct
  <2>7. account'.debt = Judged(account, handler.settings, handler.report).debt
    BY <2>2, <2>5, <2>6, CountersDoNotJudge
  <2> QED BY <2>3, <2>7
<1> QED BY <1>1, Invariance, PTL DEF Spec, JudgedInForce

\* A report that failed by its flag, by a body of its failure or by the status
\* that ParseUsageEvent goes by is a failure.
LEMMA FailureIsFailed ==
  ASSUME NEW report, WellFormedReport(report), ReportsFailure(report)
  PROVE  Kind(report) = "failed"
<1>1. report.status \in Nat /\ report.failureStatus \in Nat
  BY DEF WellFormedReport
<1>2. report.failed = {TRUE} \/ StatusCode(report) >= 400 \/ report.body
  <2> DEFINE Codes == \/ report.status >= 400
                      \/ report.status = 0 /\ report.failureStatus >= 400
  <2>1. Codes => StatusCode(report) >= 400
    BY <1>1 DEF StatusCode, Or
  <2>2. report.failed = {TRUE} \/ report.body \/ Codes
    BY Zenon DEF ReportsFailure
  <2> HIDE DEF Codes
  <2> QED BY <2>1, <2>2, Zenon
<1>3. Outcome(report) = "failure"
  BY <1>2 DEF Outcome
<1> QED BY <1>3 DEF Kind

\* What a failure does to an account.
LEMMA FailureKeepsThePair ==
  ASSUME NEW acct \in Account, NEW s \in Sound, NEW report
  PROVE  LET after == AfterFailure(acct, s, report) IN
         /\ after.label = acct.label /\ after.http = acct.http /\ after.usage = acct.usage
         /\ after.debt >= acct.debt \/ after.debt = 0
<1> DEFINE sum == acct.debt + Weight(s, StatusCode(report))
           debt == IF sum >= s.threshold THEN 0 ELSE sum
           after == AfterFailure(acct, s, report)
<1>1. s.fail401 \in Nat /\ s.fail429 \in Nat /\ acct.debt \in Nat
  BY DEF Sound, Settings, Account
<1>2. Weight(s, StatusCode(report)) \in Nat
  BY <1>1 DEF Weight
<1>3. debt >= acct.debt \/ debt = 0
  BY <1>1, <1>2
<1>4. after = [acct EXCEPT !.debt = debt] \/ after = acct
  BY DEF AfterFailure
<1> HIDE DEF debt, after
<1>5. /\ after.label = acct.label /\ after.http = acct.http /\ after.usage = acct.usage
      /\ after.debt = debt \/ after.debt = acct.debt
  BY <1>4 DEF Account
<1>6. after.debt >= acct.debt \/ after.debt = 0
  BY <1>1, <1>3, <1>5
<1> QED BY <1>5, <1>6 DEF after

\* FailureNeverHeals: a report that failed by its flag, by a body of its failure
\* or by the status that ParseUsageEvent goes by leaves the pair alone, queues no
\* heal and is counted as failed.  A failure that a report tells only by its
\* outcome, with failed = false, or in a failure object beside the status 200, is
\* not meant: the code takes it for a success.
THEOREM FailuresNeverHeal == Spec => FailureNeverHeals
<1> DEFINE Harmless ==
       /\ account'.label = account.label /\ account'.http = account.http
       /\ healing' = healing
       /\ account'.debt >= account.debt \/ account'.debt = 0
       /\ account'.usage["failed"] = account.usage["failed"] + 1
<1>1. PolicyInv /\ [Next]_vars =>
        [handler # None /\ handler' = None /\ counted' # counted /\ ReportsFailure(handler.report)
           => Harmless]_vars
  <2> SUFFICES ASSUME PolicyInv, [Next]_vars, handler # None, counted' # counted,
                      ReportsFailure(handler.report)
               PROVE  Harmless
    OBVIOUS
  <2>1. PICK kept \in Pruned : Accept(handler.report, kept)
    BY OnlyCommitCounts
  <2> DEFINE report == handler.report
             usage == Added(account.usage, report)
             acct == [account EXCEPT !.usage = usage]
             after == AfterFailure(acct, handler.settings, report)
  <2>2. report \in inputs.reports /\ handler.settings \in Sound
    BY DEF PolicyInv, HandlerInv
  <2>3. WellFormedReport(report)
    BY <2>2, InputsAssumption DEF PolicyInv, World, inputs
  <2>4. Kind(report) = "failed"
    BY <2>3, FailureIsFailed
  <2>5. /\ account' = Judged(acct, handler.settings, report)
        /\ healing' = (healing \/ (Kind(report) = "success" /\ ~IsLiveProbe(account.label)))
        /\ ~Overflows(account.usage, report)
    BY <2>1 DEF Accept
  <2>6. account' = after
    BY <2>4, <2>5 DEF Judged
  <2>7. healing' = healing
    BY <2>4, <2>5 DEF PolicyInv, KeysInv
  <2>8. usage \in [Counters -> 0..MaxCounter] /\ account.usage \in [Counters -> 0..MaxCounter]
    BY <2>3, AddedTyped DEF PolicyInv, AccountInv, Account
  <2>9. usage["failed"] = account.usage["failed"] + 1
    <3>1. "failed" \in Counters
      BY DEF Counters
    <3>2. Increments(report)["failed"] = 1
      BY <2>4, <3>1 DEF Increments, Count
    <3>3. account.usage["failed"] + 1 <= MaxCounter /\ account.usage["failed"] \in Nat
      BY <2>5, <2>8, <3>1, <3>2, WidthAssumption DEF Overflows
    <3>4. \A n \in Nat, m \in Nat : n <= m => n % (m + 1) = n
      OBVIOUS
    <3>5. (account.usage["failed"] + 1) % (MaxCounter + 1) = account.usage["failed"] + 1
      <4> DEFINE n == account.usage["failed"] + 1
      <4>1. n \in Nat /\ MaxCounter \in Nat /\ n <= MaxCounter
        BY <3>3, WidthAssumption
      <4> HIDE DEF n
      <4>2. n % (MaxCounter + 1) = n
        BY <4>1, <3>4
      <4> QED BY <4>2 DEF n
    <3> QED BY <3>1, <3>2, <3>5 DEF Added
  <2> HIDE DEF usage
  <2>10. account \in Account /\ acct \in Account
    BY <2>8 DEF PolicyInv, AccountInv, Account
  <2>11. /\ acct.label = account.label /\ acct.http = account.http /\ acct.debt = account.debt
         /\ acct.usage = usage
    BY <2>10 DEF Account
  <2> HIDE DEF acct
  <2>12. /\ after.label = acct.label /\ after.http = acct.http /\ after.usage = acct.usage
         /\ after.debt >= acct.debt \/ after.debt = 0
    BY <2>2, <2>10, FailureKeepsThePair
  <2> QED BY <2>6, <2>7, <2>9, <2>11, <2>12
<1> QED BY <1>1, Invariance, PTL DEF Spec, FailureNeverHeals

-----------------------------------------------------------------------------
(* The counters.                                                           *)

\* The sum of two token numbers that leave the range of int64 is negative.
LEMMA WrappedSum ==
  ASSUME NEW a \in 0..MaxToken, NEW b \in 0..MaxToken, NEW c \in 0..MaxToken
  PROVE  c = Wrapped(a + b) <=> c = a + b
<1> DEFINE n == a + b + MaxToken + 1
<1>1. MaxToken \in Nat /\ MaxCounter + 1 = 2 * MaxToken + 2
  BY WidthAssumption
<1>2. \A k \in Nat \ {0} : \A i \in 0..(k - 1) : i % k = i /\ (i + k) % k = i
  OBVIOUS
<1>3. Wrapped(a + b) = (n % (MaxCounter + 1)) - (MaxToken + 1)
  BY DEF Wrapped
<1>4. CASE a + b <= MaxToken
  <2>1. n \in 0..((MaxCounter + 1) - 1)
    BY <1>1, <1>4
  <2>2. n % (MaxCounter + 1) = n
    BY <1>1, <1>2, <2>1
  <2> QED BY <1>1, <1>3, <2>2
<1>5. CASE a + b > MaxToken
  <2> DEFINE i == a + b - MaxToken - 1
  <2>1. i \in 0..((MaxCounter + 1) - 1) /\ n = i + (MaxCounter + 1)
    BY <1>1, <1>5
  <2> HIDE DEF i, n
  <2>2. n % (MaxCounter + 1) = i
    BY <1>1, <1>2, <2>1
  <2>3. Wrapped(a + b) = i - (MaxToken + 1)
    BY <1>3, <2>2
  <2> QED BY <1>1, <1>5, <2>3 DEF i
<1> QED BY <1>1, <1>4, <1>5

\* A report none of whose numbers is negative has them in the range of int64.
LEMMA NumbersOf ==
  ASSUME NEW report, WellFormedReport(report), ~Negative(report)
  PROVE  /\ Value(report.input) \in 0..MaxToken
         /\ Value(report.output) \in 0..MaxToken
         /\ Value(report.total) \in 0..MaxToken
<1>1. ASSUME NEW number \in {report.input, report.output, report.total}
      PROVE  Value(number) \in -(MaxToken + 1)..MaxToken
  <2>1. CASE number = {}
    BY <2>1, WidthAssumption DEF Value
  <2>2. CASE number # {}
    <3>1. (CHOOSE n \in number : TRUE) \in number
      BY <2>2
    <3>2. \A n \in number : n \in -(MaxToken + 1)..MaxToken
      BY DEF WellFormedReport
    <3> QED BY <2>2, <3>1, <3>2 DEF Value
  <2> QED BY <2>1, <2>2
<1>2. /\ Tokens(report)[1] = report.input /\ Tokens(report)[2] = report.output
      /\ Tokens(report)[3] = report.total
  BY DEF Tokens
<1>3. /\ ~(Value(report.input) < 0) /\ ~(Value(report.output) < 0) /\ ~(Value(report.total) < 0)
  BY <1>2 DEF Negative
<1> QED BY <1>1, <1>3, WidthAssumption

\* What a report that is counted adds, one counter at a time.
LEMMA IncrementsOf ==
  ASSUME NEW report, WellFormedReport(report), ~Negative(report)
  PROVE  /\ \A field \in {"input", "output", "total"} :
              Increments(report)[field] = Value(report[field]) /\ Value(report[field]) \in Nat
         /\ Increments(report)["missing"] = Count(Missing(report))
         /\ Increments(report)["inconsistent"] = Count(Inconsistent(report))
         /\ \A kind \in {"success", "cancelled", "failed"} :
              Increments(report)[kind] = Count(Kind(report) = kind)
         /\ Increments(report) \in [Counters -> Nat]
<1>1. /\ Value(report.input) \in Nat /\ Value(report.output) \in Nat /\ Value(report.total) \in Nat
  BY NumbersOf, WidthAssumption
<1>2. \A condition : Count(condition) \in Nat
  BY DEF Count
<1>3. /\ Increments(report)["input"] = Value(report.input)
      /\ Increments(report)["output"] = Value(report.output)
      /\ Increments(report)["total"] = Value(report.total)
      /\ Increments(report)["missing"] = Count(Missing(report))
  BY DEF Increments, Counters
<1>4. Value(report.total) # Wrapped(Value(report.input) + Value(report.output))
        <=> Value(report.total) # Value(report.input) + Value(report.output)
  BY NumbersOf, WrappedSum
<1>5. Increments(report)["inconsistent"] = Count(Inconsistent(report))
  <2>1. Increments(report)["inconsistent"] =
          Count(/\ ~Missing(report)
                /\ Value(report.total) # Wrapped(Value(report.input) + Value(report.output)))
    BY DEF Increments, Counters
  <2> QED BY <1>4, <2>1 DEF Inconsistent, Count
<1>6. ASSUME NEW kind \in {"success", "cancelled", "failed"}
      PROVE  Increments(report)[kind] = Count(Kind(report) = kind)
  <2>1. Increments(report)[kind] = Count(kind = Kind(report))
    BY DEF Increments, Counters
  <2> QED BY <2>1 DEF Count
<1>7. ASSUME NEW c \in Counters
      PROVE  Increments(report)[c] \in Nat
  BY <1>1, <1>2, <1>3, <1>5, <1>6 DEF Counters
<1>8. Increments(report) \in [Counters -> Nat]
  BY <1>7 DEF Increments
<1> QED BY <1>1, <1>3, <1>5, <1>6, <1>8

\* Where no counter overflows nothing is lost in the addition.
LEMMA AddedExactly ==
  ASSUME NEW report, WellFormedReport(report), ~Negative(report),
         NEW usage \in [Counters -> 0..MaxCounter], ~Overflows(usage, report)
  PROVE  \A c \in Counters : Added(usage, report)[c] = usage[c] + Increments(report)[c]
<1> SUFFICES ASSUME NEW c \in Counters
             PROVE  Added(usage, report)[c] = usage[c] + Increments(report)[c]
  OBVIOUS
<1> DEFINE n == usage[c] + Increments(report)[c]
<1>1. usage[c] \in 0..MaxCounter /\ Increments(report)[c] \in Nat /\ MaxCounter \in Nat
  BY IncrementsOf, WidthAssumption
<1>2. ~(n > MaxCounter)
  BY DEF Overflows
<1>3. n \in 0..MaxCounter
  BY <1>1, <1>2
<1>4. Added(usage, report)[c] = n % (MaxCounter + 1)
  BY DEF Added
<1> HIDE DEF n
<1>5. \A k \in Nat : \A i \in 0..k : i % (k + 1) = i
  OBVIOUS
<1>6. n % (MaxCounter + 1) = n
  BY <1>1, <1>3, <1>5
<1> QED BY <1>4, <1>6 DEF n

\* One more report is one more of those that P is about, or none.
LEMMA OneMore ==
  ASSUME NEW S, IsFiniteSet(S), NEW x, x \notin S, NEW P
  PROVE  Cardinality((S \cup {x}) \cap P) = Cardinality(S \cap P) + Count(x \in P)
<1>1. IsFiniteSet(S \cap P) /\ Cardinality(S \cap P) \in Nat
  <2>1. S \cap P \in SUBSET S
    OBVIOUS
  <2> QED BY <2>1, FS_Subset, FS_CardinalityType
<1>2. CASE x \in P
  <2>1. (S \cup {x}) \cap P = (S \cap P) \cup {x} /\ x \notin S \cap P
    BY <1>2
  <2> QED BY <1>1, <1>2, <2>1, FS_AddElement DEF Count
<1>3. CASE x \notin P
  <2>1. (S \cup {x}) \cap P = S \cap P
    BY <1>3
  <2>2. \A n \in Nat : n = n + 0
    OBVIOUS
  <2>3. Count(x \in P) = 0
    BY <1>3 DEF Count
  <2> QED BY <1>1, <2>1, <2>2, <2>3
<1> QED BY <1>2, <1>3

\* A report that is judged is not counted again.
LEMMA JudgedKeepsUsage ==
  ASSUME NEW acct \in Account, NEW s, NEW report
  PROVE  Judged(acct, s, report).usage = acct.usage
<1>1. AfterSuccess(acct, s).usage = acct.usage
  BY DEF AfterSuccess, Account
<1>2. AfterFailure(acct, s, report).usage = acct.usage
  BY DEF AfterFailure, Account
<1> QED BY <1>1, <1>2 DEF Judged

\* The n-th time of a report is not later than the number of its times.
CountInv ==
  /\ \A c \in counted : c[2] <= Times(c[1])
  /\ CountersExact

\* Only the store update of usage.handle touches the counters.
LEMMA OnlyCommitAdds ==
  ASSUME PolicyInv, [Next]_vars, ~Commit
  PROVE  UNCHANGED <<alphabet, keys, counted>> /\ account'.usage = account.usage
<1>1. account \in Account
  BY DEF PolicyInv, AccountInv
<1>2. UNCHANGED <<alphabet, keys, counted>>
  BY DEF Next, UsageStep, ProbeStep, PanelStep, vars, Arrive, Mark, TakeHeal, Resign, Bind,
         PutSettings, CopyRow, PostQuota, Restart
<1>3. ASSUME NEW result \in inputs.results, Mark(result)
      PROVE  account'.usage = account.usage
  BY <1>1, <1>3 DEF Mark, Account
<1>4. ASSUME Bind
      PROVE  account'.usage = account.usage
  <2> DEFINE acct == Recorded(account, prober.status)
             debt == IF prober.clear THEN 0 ELSE acct.debt
  <2>1. acct.usage = account.usage
    BY <1>1 DEF Recorded, Account
  <2>2. account' = [acct EXCEPT !.debt = debt]
    BY <1>4 DEF Bind
  <2>3. [acct EXCEPT !.debt = debt].usage = acct.usage
    BY <1>1 DEF Recorded, Account
  <2> QED BY <2>1, <2>2, <2>3
<1>5. ASSUME NEW quota \in inputs.plans, NEW pair \in {draft} \cup PanelResults, PostQuota(quota, pair)
      PROVE  account'.usage = account.usage
  BY <1>1, <1>5 DEF PostQuota, Account
<1>6. CASE UsageStep
  BY <1>2, <1>6 DEF UsageStep, Arrive
<1>7. CASE ProbeStep
  BY <1>2, <1>3, <1>4, <1>7 DEF ProbeStep, TakeHeal, Resign
<1>8. CASE PanelStep
  BY <1>2, <1>5, <1>8 DEF PanelStep, PutSettings, CopyRow
<1>9. CASE \E e \in inputs.environments : Restart(e)
  BY <1>2, <1>9 DEF Restart
<1>10. CASE UNCHANGED vars
  BY <1>2, <1>10 DEF vars
<1> QED BY <1>6, <1>7, <1>8, <1>9, <1>10 DEF Next

\* The sums and the numbers of reports after one more is counted.
LEMMA CountsAfter ==
  ASSUME PolicyInv, NEW report \in inputs.reports, ~Negative(report),
         NEW new, new = <<report, Times(report) + 1>>, new \notin counted,
         UNCHANGED alphabet, counted' = counted \cup {new}
  PROVE  /\ \A field \in {"input", "output", "total"} :
              Total(field)' = Total(field) + Increments(report)[field]
         /\ Cardinality({c \in counted' : Missing(c[1])}) = Cardinality({c \in counted : Missing(c[1])}) + Increments(report)["missing"]
         /\ Cardinality({c \in counted' : Inconsistent(c[1])}) = Cardinality({c \in counted : Inconsistent(c[1])}) + Increments(report)["inconsistent"]
         /\ \A kind \in {"success", "cancelled", "failed"} :
              Cardinality({c \in counted' : Kind(c[1]) = kind})
                = Cardinality({c \in counted : Kind(c[1]) = kind}) + Increments(report)[kind]
         /\ \A r : Cardinality({c \in counted' : c[1] = r}) = Times(r) + Count(r = report)
<1> DEFINE Counts == inputs.reports \X Nat
<1>1. /\ IsFiniteSet(counted) /\ counted \subseteq Counts /\ inputs' = inputs
      /\ Times(report) \in Nat
  BY TimesTyped DEF PolicyInv, KeysInv, inputs
<1>2. new \in Counts /\ new[1] = report
  BY <1>1
<1>3. WellFormedReport(report)
  BY InputsAssumption DEF PolicyInv, World, inputs
<1>4. ASSUME NEW field \in {"input", "output", "total"}
      PROVE  Total(field)' = Total(field) + Increments(report)[field]
  <2> DEFINE v == [c \in inputs.reports \X Nat |-> Value(c[1][field])]
  <2>1. ASSUME NEW c \in Counts
        PROVE  v[c] \in Int
    <3>1. WellFormedReport(c[1])
      BY InputsAssumption DEF PolicyInv, World, inputs
    <3>2. c[1][field] \in SUBSET Int
      BY <3>1, WidthAssumption DEF WellFormedReport
    <3> QED BY <3>2, ValueTyped
  <2>2. Total(field) = SumFunctionOnSet(v, counted)
    BY DEF Total
  <2>3. Total(field)' = SumFunctionOnSet(v, counted \cup {new})
    BY <1>1 DEF Total
  <2>4. v[new] = Increments(report)[field]
    BY <1>2, <1>3, IncrementsOf
  <2> HIDE DEF v
  <2>5. \A c \in counted \cup {new} : v[c] \in Int
    BY <1>1, <1>2, <2>1
  <2>6. SumFunctionOnSet(v, counted \cup {new}) = SumFunctionOnSet(v, counted) + v[new]
    BY <1>1, <2>5, SumGrows
  <2> QED BY <2>2, <2>3, <2>4, <2>6
<1>5. Cardinality({c \in counted' : Missing(c[1])}) = Cardinality({c \in counted : Missing(c[1])}) + Increments(report)["missing"]
  <2> DEFINE P == {c \in Counts : Missing(c[1])}
  <2>1. {c \in counted : Missing(c[1])} = counted \cap P
    BY <1>1
  <2>2. {c \in counted' : Missing(c[1])} = (counted \cup {new}) \cap P
    BY <1>1, <1>2
  <2>3. /\ Cardinality({c \in counted : Missing(c[1])}) = Cardinality(counted \cap P)
        /\ Cardinality({c \in counted' : Missing(c[1])}) = Cardinality((counted \cup {new}) \cap P)
    BY <2>1, <2>2
  <2>4. Count(new \in P) = Increments(report)["missing"]
    BY <1>2, <1>3, IncrementsOf DEF Count
  <2> HIDE DEF P
  <2> QED BY <1>1, <2>3, <2>4, OneMore
<1>6. Cardinality({c \in counted' : Inconsistent(c[1])}) = Cardinality({c \in counted : Inconsistent(c[1])}) + Increments(report)["inconsistent"]
  <2> DEFINE P == {c \in Counts : Inconsistent(c[1])}
  <2>1. {c \in counted : Inconsistent(c[1])} = counted \cap P
    BY <1>1
  <2>2. {c \in counted' : Inconsistent(c[1])} = (counted \cup {new}) \cap P
    BY <1>1, <1>2
  <2>3. /\ Cardinality({c \in counted : Inconsistent(c[1])}) = Cardinality(counted \cap P)
        /\ Cardinality({c \in counted' : Inconsistent(c[1])}) = Cardinality((counted \cup {new}) \cap P)
    BY <2>1, <2>2
  <2>4. Count(new \in P) = Increments(report)["inconsistent"]
    BY <1>2, <1>3, IncrementsOf DEF Count
  <2> HIDE DEF P
  <2> QED BY <1>1, <2>3, <2>4, OneMore
<1>7. ASSUME NEW kind \in {"success", "cancelled", "failed"}
      PROVE  Cardinality({c \in counted' : Kind(c[1]) = kind}) = Cardinality({c \in counted : Kind(c[1]) = kind}) + Increments(report)[kind]
  <2> DEFINE P == {c \in Counts : Kind(c[1]) = kind}
  <2>1. {c \in counted : Kind(c[1]) = kind} = counted \cap P
    BY <1>1
  <2>2. {c \in counted' : Kind(c[1]) = kind} = (counted \cup {new}) \cap P
    BY <1>1, <1>2
  <2>3. /\ Cardinality({c \in counted : Kind(c[1]) = kind}) = Cardinality(counted \cap P)
        /\ Cardinality({c \in counted' : Kind(c[1]) = kind}) = Cardinality((counted \cup {new}) \cap P)
    BY <2>1, <2>2
  <2>4. Count(new \in P) = Increments(report)[kind]
    BY <1>2, <1>3, IncrementsOf DEF Count
  <2> HIDE DEF P
  <2> QED BY <1>1, <2>3, <2>4, OneMore
<1>8. ASSUME NEW r
      PROVE  Cardinality({c \in counted' : c[1] = r}) = Times(r) + Count(r = report)
  <2> DEFINE P == {c \in Counts : c[1] = r}
  <2>1. {c \in counted : c[1] = r} = counted \cap P
    BY <1>1
  <2>2. {c \in counted' : c[1] = r} = (counted \cup {new}) \cap P
    BY <1>1, <1>2
  <2>3. /\ Cardinality({c \in counted : c[1] = r}) = Cardinality(counted \cap P)
        /\ Cardinality({c \in counted' : c[1] = r}) = Cardinality((counted \cup {new}) \cap P)
    BY <2>1, <2>2
  <2>4. Count(new \in P) = Count(r = report)
    BY <1>2, <1>3, IncrementsOf DEF Count
  <2> HIDE DEF P
  <2> QED BY <1>1, <2>3, <2>4, OneMore DEF Times
<1> QED BY <1>4, <1>5, <1>6, <1>7, <1>8

\* Finitely many counts have finitely many ids.
LEMMA IdsFinite ==
  ASSUME NEW S, IsFiniteSet(S)
  PROVE  IsFiniteSet({c[1].id : c \in S})
<1> DEFINE f == [c \in S |-> c[1].id]
           T == {c[1].id : c \in S}
<1>1. f \in Surjection(S, T)
  BY DEF Surjection
<1> QED BY <1>1, FS_Surjection

\* An accepted report whose key has room, of an id that the sender gave, is the
\* only one with its id.
LEMMA OnceAfter ==
  ASSUME PolicyInv, CountInv, NEW kept \in Pruned, NEW report \in inputs.reports,
         report.id \notin kept, NEW new, new[1] = report, inputs' = inputs,
         counted' = counted \cup {new}, keys' \in Remembered(kept, report.id)
  PROVE  keys' \subseteq CountedIds' /\ ExactCountedOnce'
<1>1. /\ keys \subseteq CountedIds /\ ExactCountedOnce
      /\ IsFiniteSet(counted) /\ counted' = counted \cup {new}
  BY DEF CountInv, CountersExact, PolicyInv, KeysInv
<1>2. CountedIds' = CountedIds \cup {report.id}
  BY DEF CountedIds
<1>3. IsFiniteSet(CountedIds')
  <2>1. IsFiniteSet(CountedIds)
    BY <1>1, IdsFinite DEF CountedIds
  <2> QED BY <1>2, <2>1, FS_AddElement
<1>4. kept \subseteq keys /\ \A key \in keys : key \notin inputs.weak => key \in kept
  BY DEF Pruned
<1>5. keys' \subseteq kept \cup {report.id}
  BY RememberedOnly
<1>6. keys' \subseteq CountedIds'
  BY <1>1, <1>2, <1>4, <1>5
<1>7. ASSUME Cardinality(CountedIds' \ inputs.weak) <= inputs.room
      PROVE  /\ CountedIds' \ inputs.weak \subseteq keys'
             /\ \A first, second \in counted' :
                  first[1].id = second[1].id /\ first[1].id \notin inputs.weak => first = second
  <2> DEFINE own == CountedIds' \ inputs.weak
             room == inputs.room
  <2>1. IsFiniteSet(own) /\ room \in Nat /\ Cardinality(own) <= room
    <3>1. own \in SUBSET CountedIds'
      OBVIOUS
    <3>2. IsFiniteSet(own)
      BY <1>3, <3>1, FS_Subset
    <3> QED BY <1>7, <3>2, InputsAssumption DEF PolicyInv, World, inputs
  <2>2. ASSUME NEW S \in SUBSET own
        PROVE  Cardinality(S) <= room
    <3> HIDE DEF own, room
    <3>1. /\ IsFiniteSet(S) /\ Cardinality(S) <= Cardinality(own)
          /\ Cardinality(S) \in Nat /\ Cardinality(own) \in Nat
      BY <2>1, FS_Subset, FS_CardinalityType
    <3> QED BY <2>1, <3>1
  <2>3. Cardinality(CountedIds \ inputs.weak) <= inputs.room
    <3>1. CountedIds \ inputs.weak \in SUBSET own
      BY <1>2
    <3> QED BY <2>2, <3>1
  <2>4. /\ CountedIds \ inputs.weak \subseteq kept
        /\ \A first, second \in counted :
             first[1].id = second[1].id /\ first[1].id \notin inputs.weak => first = second
    BY <1>1, <1>4, <2>3 DEF ExactCountedOnce
  <2>5. CASE report.id \in inputs.weak
    <3>1. CountedIds' \ inputs.weak = CountedIds \ inputs.weak
      BY <1>2, <2>5
    <3>2. \A key \in kept : key \notin inputs.weak => key \in keys'
      BY <2>5 DEF Remembered, SameMode
    <3>3. \A c \in counted' : c[1].id \notin inputs.weak => c \in counted
      BY <2>5
    <3> QED BY <2>4, <3>1, <3>2, <3>3
  <2>6. CASE report.id \notin inputs.weak
    <3> DEFINE alike == {key \in kept \cup {report.id} : SameMode(key, report.id)}
    <3>1. alike \subseteq CountedIds' \ inputs.weak
      BY <1>1, <1>2, <1>4, <2>6 DEF SameMode
    <3>2. Cardinality(alike) <= inputs.room
      BY <2>2, <3>1
    <3>3. keys' = kept \cup {report.id}
      BY <3>2, RememberedOnly
    <3>4. report.id \notin CountedIds
      BY <2>4, <2>6
    <3>5. \A c \in counted : c[1].id # report.id
      BY <3>4 DEF CountedIds
    <3> QED BY <1>2, <2>4, <3>3, <3>5
  <2> QED BY <2>5, <2>6
<1>8. ExactCountedOnce'
  BY <1>7 DEF ExactCountedOnce
<1> QED BY <1>6, <1>8

\* What usage.handle does with a report keeps the counters exact.
LEMMA CommitCounts ==
  ASSUME PolicyInv, CountInv, Commit
  PROVE  CountInv'
<1> DEFINE report == handler.report
<1>1. report \in inputs.reports /\ WellFormedReport(report) /\ inputs' = inputs /\ UNCHANGED alphabet
  BY InputsAssumption DEF PolicyInv, HandlerInv, World, Commit, inputs
<1>2. PICK kept \in Pruned : \/ Duplicate(report, kept) \/ Reject(report, kept)
                             \/ Accept(report, kept)
  BY DEF Commit
<1>3. CASE Duplicate(report, kept)
  <2>1. /\ UNCHANGED <<account, counted, inputs>> /\ keys' = kept
    BY <1>1, <1>3 DEF Duplicate
  <2>2. kept \subseteq keys /\ \A key \in keys : key \notin inputs.weak => key \in kept
    BY DEF Pruned
  <2>3. keys' \subseteq CountedIds'
    BY <2>1, <2>2 DEF CountInv, CountersExact, CountedIds
  <2>4. ExactCountedOnce'
    BY <2>1, <2>2 DEF CountInv, CountersExact, ExactCountedOnce, CountedIds
  <2>5. CountersExact'
    BY <2>1, <2>3, <2>4 DEF CountInv, CountersExact, Total
  <2> QED BY <2>1, <2>5 DEF CountInv, Times
<1>4. CASE Reject(report, kept)
  <2>1. UNCHANGED <<account, keys, counted, inputs>>
    BY <1>1, <1>4 DEF Reject
  <2> QED BY <2>1 DEF CountInv, CountersExact, Total, Times, ExactCountedOnce, CountedIds
<1>5. CASE Accept(report, kept)
  <2> DEFINE usage == Added(account.usage, report)
             acct == [account EXCEPT !.usage = usage]
             new == <<report, Times(report) + 1>>
  <2>1. /\ account' = Judged(acct, handler.settings, report)
        /\ keys' \in Remembered(kept, report.id)
        /\ counted' = counted \cup {new}
        /\ report.id \notin kept /\ ~Negative(report) /\ ~Overflows(account.usage, report)
    BY <1>5 DEF Accept
  <2>2. account.usage \in [Counters -> 0..MaxCounter] /\ account \in Account
    BY DEF PolicyInv, AccountInv, Account
  <2>3. \A c \in Counters : usage[c] = account.usage[c] + Increments(report)[c]
    BY <1>1, <2>1, <2>2, AddedExactly
  <2>4. acct \in Account /\ acct.usage = usage
    BY <1>1, <2>2, AddedTyped DEF Account
  <2>5. account'.usage = usage
    BY <2>1, <2>4, JudgedKeepsUsage
  <2> HIDE DEF report, usage, acct
  <2>6. Times(report) \in Nat /\ new[1] = report /\ new[2] = Times(report) + 1
    BY TimesTyped DEF PolicyInv, KeysInv
  <2>7. new \notin counted
    BY <2>6 DEF CountInv
  <2> HIDE DEF new
  <2>8. /\ \A field \in {"input", "output", "total"} :
             Total(field)' = Total(field) + Increments(report)[field]
        /\ Cardinality({c \in counted' : Missing(c[1])}) = Cardinality({c \in counted : Missing(c[1])}) + Increments(report)["missing"]
        /\ Cardinality({c \in counted' : Inconsistent(c[1])}) = Cardinality({c \in counted : Inconsistent(c[1])}) + Increments(report)["inconsistent"]
        /\ \A kind \in {"success", "cancelled", "failed"} :
             Cardinality({c \in counted' : Kind(c[1]) = kind})
               = Cardinality({c \in counted : Kind(c[1]) = kind}) + Increments(report)[kind]
        /\ \A r : Cardinality({c \in counted' : c[1] = r}) = Times(r) + Count(r = report)
    BY <1>1, <2>1, <2>7, CountsAfter DEF new
  <2>9. keys' \subseteq CountedIds' /\ ExactCountedOnce'
    BY <1>1, <2>1, <2>6, OnceAfter
  <2>10. \A field \in {"input", "output", "total"} : account'.usage[field] = Total(field)'
    BY <2>3, <2>5, <2>8 DEF CountInv, CountersExact, Counters
  <2>11. /\ account'.usage["missing"] = Cardinality({c \in counted' : Missing(c[1])})
         /\ account'.usage["inconsistent"] = Cardinality({c \in counted' : Inconsistent(c[1])})
    BY <2>3, <2>5, <2>8 DEF CountInv, CountersExact, Counters
  <2>12. ASSUME NEW kind \in {"success", "cancelled", "failed"}
         PROVE  account'.usage[kind] = Cardinality({c \in counted' : Kind(c[1]) = kind})
    <3>1. account'.usage[kind] = account.usage[kind] + Increments(report)[kind]
      BY <2>3, <2>5 DEF Counters
    <3>2. account.usage[kind] = Cardinality({c \in counted : Kind(c[1]) = kind})
      BY DEF CountInv, CountersExact
    <3>3. Cardinality({c \in counted' : Kind(c[1]) = kind})
            = Cardinality({c \in counted : Kind(c[1]) = kind}) + Increments(report)[kind]
      BY <2>8
    <3> QED BY <3>1, <3>2, <3>3
  <2>13. CountersExact'
    BY <2>9, <2>10, <2>11, <2>12, Zenon DEF CountersExact
  <2>14. ASSUME NEW c \in counted'
         PROVE  c[2] <= Cardinality({d \in counted' : d[1] = c[1]})
    <3>1. Cardinality({d \in counted' : d[1] = c[1]}) = Times(c[1]) + Count(c[1] = report)
      BY <2>8
    <3>2. Count(c[1] = report) \in {0, 1} /\ (c[1] = report => Count(c[1] = report) = 1)
      BY DEF Count
    <3>3. Times(c[1]) \in Nat
      BY TimesTyped DEF PolicyInv, KeysInv
    <3>4. CASE c = new
      BY <2>6, <3>1, <3>2, <3>4
    <3>5. CASE c \in counted
      <4>1. c[2] <= Times(c[1]) /\ c[2] \in Nat
        BY <3>5 DEF CountInv, PolicyInv, KeysInv
      <4> QED BY <3>1, <3>2, <3>3, <4>1
    <3> QED BY <2>1, <3>4, <3>5
  <2>15. \A c \in counted' : c[2] <= Times(c[1])'
    BY <2>14 DEF Times
  <2> QED BY <2>13, <2>15 DEF CountInv
<1> QED BY <1>2, <1>3, <1>4, <1>5

\* CountersExact: whatever reports arrive, come twice, have bad numbers or
\* overflow a counter, and however keys are forgotten, the counters are the sums
\* over the reports in the store, as often as each was counted; and reports with
\* ids of their senders are counted once as long as there is room for their keys.
THEOREM CountsExactly == Spec => []CountersExact
<1>1. Init => CountInv
  <2> SUFFICES ASSUME Init PROVE CountInv
    OBVIOUS
  <2>1. /\ counted = {} /\ keys = {} /\ account.usage = ZeroUsage
    BY DEF Init
  <2>2. \A S : S = {} => Cardinality(S) = 0
    BY FS_EmptySet
  <2>3. \A field \in {"input", "output", "total"} : Total(field) = 0
    BY <2>1, SumOfNothing DEF Total
  <2>4. Cardinality({c \in counted : Missing(c[1])}) = 0 /\ Cardinality({c \in counted : Inconsistent(c[1])}) = 0
    BY <2>1, <2>2
  <2>5. \A kind : Cardinality({c \in counted : Kind(c[1]) = kind}) = 0
    BY <2>1, <2>2
  <2>6. \A c \in Counters : account.usage[c] = 0
    BY <2>1 DEF ZeroUsage
  <2>7. keys \subseteq CountedIds /\ ExactCountedOnce
    BY <2>1 DEF ExactCountedOnce, CountedIds
  <2>8. /\ \A field \in {"input", "output", "total"} : account.usage[field] = Total(field)
        /\ account.usage["missing"] = Cardinality({c \in counted : Missing(c[1])})
        /\ account.usage["inconsistent"] = Cardinality({c \in counted : Inconsistent(c[1])})
    BY <2>3, <2>4, <2>6 DEF Counters
  <2>9. \A kind \in {"success", "cancelled", "failed"} :
          account.usage[kind] = Cardinality({c \in counted : Kind(c[1]) = kind})
    BY <2>5, <2>6 DEF Counters
  <2>10. CountersExact
    BY <2>7, <2>8, <2>9, Zenon DEF CountersExact
  <2>11. \A c \in counted : c[2] <= Times(c[1])
    BY <2>1
  <2> QED BY <2>10, <2>11 DEF CountInv
<1>2. PolicyInv /\ CountInv /\ [Next]_vars => CountInv'
  <2> SUFFICES ASSUME PolicyInv, CountInv, [Next]_vars, ~Commit PROVE CountInv'
    BY CommitCounts
  <2>1. UNCHANGED <<keys, counted, inputs>> /\ account'.usage = account.usage
    BY OnlyCommitAdds DEF inputs
  <2> QED BY <2>1 DEF CountInv, CountersExact, Total, Times, ExactCountedOnce, CountedIds
<1>3. CountInv => CountersExact
  BY DEF CountInv
<1> QED BY <1>1, <1>2, <1>3, Invariance, PTL DEF Spec
=============================================================================
