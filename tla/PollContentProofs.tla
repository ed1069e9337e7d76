------------------------- MODULE PollContentProofs -------------------------
(***************************************************************************)
(* Proofs about one poll, for every set of well-formed environments and of *)
(* answers (EnvAssumption, ResponseAssumption): what config.Load accepts,  *)
(* and what the decoder and the filter make of an answer under it.         *)
(***************************************************************************)
EXTENDS PollContent, TLAPS, FiniteSetTheorems, WellFoundedInduction

(***************************************************************************)
(* The configuration.                                                      *)
(***************************************************************************)

\* What the process knows of its environment, at any time.
Loaded ==
    /\ WellFormed(env)
    /\ cfg = Settings(env)
    /\ errs = LoadErrors(env)

LEMMA VariablesAre ==
    Variables = {"FLEX_CITY_ID", "FLEX_CENTER_LAT", "FLEX_CENTER_LON", "FLEX_RADIUS_KM",
                 "FLEX_POLL_INTERVAL", "FLEX_HTTP_TIMEOUT", "FLEX_REALERT_AFTER",
                 "FLEX_LOG_LEVEL", "FLEX_STORE_ENABLED", "FLEX_USER_AGENT",
                 "FLEX_API_BASE_URL", "TELEGRAM_API_BASE_URL", "TELEGRAM_TOKEN",
                 "TELEGRAM_CHAT_ID", "DATABASE_URL"}
BY DEF Variables, Defaults

\* The defaults one by one.
LEMMA DefaultNumbers ==
    /\ Defaults["FLEX_CITY_ID"] = 59 /\ Defaults["FLEX_LOG_LEVEL"] = 0
    /\ Defaults["FLEX_CENTER_LAT"] = 45 /\ Defaults["FLEX_CENTER_LON"] = -73
    /\ Defaults["FLEX_RADIUS_KM"] = 15 /\ Defaults["FLEX_POLL_INTERVAL"] = 20
    /\ Defaults["FLEX_HTTP_TIMEOUT"] = 10 /\ Defaults["FLEX_REALERT_AFTER"] = 600
BY DEF Defaults

LEMMA TextDefaults ==
    /\ Defaults["FLEX_USER_AGENT"] = "flexwatch"
    /\ Defaults["TELEGRAM_TOKEN"] = "" /\ Defaults["TELEGRAM_CHAT_ID"] = ""
BY DEF Defaults

LEMMA AddressDefaults ==
    /\ Defaults["FLEX_API_BASE_URL"] = URL("https", "api")
    /\ Defaults["TELEGRAM_API_BASE_URL"] = URL("https", "telegram")
BY DEF Defaults

LEMMA StoreDefault == ~Defaults["FLEX_STORE_ENABLED"]
BY DEF Defaults

\* The three kinds of a raw value are apart.
LEMMA RawApart ==
    ASSUME NEW x
    PROVE  /\ Unset # Junk /\ Val(x) # Unset /\ Val(x) # Junk
           /\ Val(x).kind = "value" /\ Val(x).value = x
BY DEF Unset, Junk, Val

\* Taking a setting back leaves a well-formed environment, whose other settings
\* are the same.
LEMMA CorrectedWellFormed ==
    ASSUME WellFormed(env)
    PROVE  WellFormed(Corrected)
BY DEF WellFormed, Corrected

LEMMA LoadedInvariant == Spec => []Loaded
<1>1. Init => Loaded
  BY EnvAssumption DEF Init, Load, Loaded
<1>2. Loaded /\ [Next]_vars => Loaded'
  <2> SUFFICES ASSUME Loaded, [Next]_vars PROVE Loaded'
    OBVIOUS
  <2>1. CASE Correct
    BY <2>1, CorrectedWellFormed DEF Correct, Loaded
  <2>2. CASE UNCHANGED <<env, cfg, errs>>
    BY <2>2 DEF Loaded
  <2> QED
    BY <2>1, <2>2 DEF Next, Forget, Poll, vars
<1> QED
  BY <1>1, <1>2, PTL DEF Spec

\* The value of a setting, by what the environment gives it.
LEMMA SettingValue ==
    ASSUME NEW e, WellFormed(e), NEW v \in Variables, v \notin ParseErrors(e)
    PROVE  \/ e[v] = Unset /\ Settings(e)[v] = Defaults[v]
           \/ /\ e[v].kind = "value" /\ WellTyped(v, e[v].value)
              /\ Settings(e)[v] = Trimmed(v, e[v].value)
<1>1. e[v] # Junk
  BY DEF ParseErrors
<1>2. Settings(e)[v] = Parsed(e, v)
  BY DEF Settings
<1>3. CASE e[v] = Unset
  BY <1>2, <1>3 DEF Parsed
<1>4. CASE e[v] = Val(e[v].value) /\ WellTyped(v, e[v].value)
  <2>1. e[v] # Unset /\ e[v].kind = "value"
    BY <1>4, RawApart
  <2> QED
    BY <1>1, <1>2, <1>4, <2>1 DEF Parsed
<1> QED
  BY <1>1, <1>3, <1>4 DEF WellFormed

\* The rules one by one.
LEMMA RuleNames ==
    ASSUME NEW c
    PROVE  DOMAIN Broken(c) =
                 {"FLEX_CENTER_LAT", "FLEX_CENTER_LON", "FLEX_RADIUS_KM", "FLEX_POLL_INTERVAL",
                  "FLEX_HTTP_TIMEOUT", "FLEX_REALERT_AFTER", "FLEX_USER_AGENT",
                  "FLEX_API_BASE_URL", "TELEGRAM_API_BASE_URL", "TELEGRAM_TOKEN",
                  "TELEGRAM_CHAT_ID", "FLEX_STORE_ENABLED", "DATABASE_URL"}
BY DEF Broken

LEMMA NumericRules ==
    ASSUME NEW c
    PROVE  /\ Broken(c)["FLEX_CENTER_LAT"] <=>
                 (Below(c.FLEX_CENTER_LAT, -90) \/ Below(90, c.FLEX_CENTER_LAT))
           /\ Broken(c)["FLEX_CENTER_LON"] <=>
                 (Below(c.FLEX_CENTER_LON, -180) \/ Below(180, c.FLEX_CENTER_LON))
           /\ Broken(c)["FLEX_RADIUS_KM"] <=>
                 (AtMost(c.FLEX_RADIUS_KM, 0) \/ Below(500, c.FLEX_RADIUS_KM))
           /\ Broken(c)["FLEX_POLL_INTERVAL"] <=> (c.FLEX_POLL_INTERVAL < MinPollInterval)
           /\ Broken(c)["FLEX_HTTP_TIMEOUT"] <=>
                 (c.FLEX_HTTP_TIMEOUT <= 0 \/ c.FLEX_HTTP_TIMEOUT > c.FLEX_POLL_INTERVAL)
           /\ Broken(c)["FLEX_REALERT_AFTER"] <=> (c.FLEX_REALERT_AFTER < 0)
BY DEF Broken

LEMMA AgentRule ==
    ASSUME NEW c
    PROVE  Broken(c)["FLEX_USER_AGENT"] <=> (c.FLEX_USER_AGENT = "")
BY DEF Broken

LEMMA AddressRules ==
    ASSUME NEW c
    PROVE  /\ Broken(c)["FLEX_API_BASE_URL"] <=> ~validateBaseURL(c.FLEX_API_BASE_URL)
           /\ Broken(c)["TELEGRAM_API_BASE_URL"] <=> ~validateBaseURL(c.TELEGRAM_API_BASE_URL)
BY DEF Broken

LEMMA PairRules ==
    ASSUME NEW c
    PROVE  /\ Broken(c)["TELEGRAM_TOKEN"] <=> HalfASecret(c)
           /\ Broken(c)["TELEGRAM_CHAT_ID"] <=> HalfASecret(c)
           /\ Broken(c)["FLEX_STORE_ENABLED"] <=> NoDatabase(c)
           /\ Broken(c)["DATABASE_URL"] <=> NoDatabase(c)
BY DEF Broken

\* What the rules about one setting say of it when they are not broken.
LEMMA AcceptedSettings ==
    ASSUME NEW c, validate(c) = {}
    PROVE  /\ ~(Below(c.FLEX_CENTER_LAT, -90) \/ Below(90, c.FLEX_CENTER_LAT))
           /\ ~(Below(c.FLEX_CENTER_LON, -180) \/ Below(180, c.FLEX_CENTER_LON))
           /\ ~(AtMost(c.FLEX_RADIUS_KM, 0) \/ Below(500, c.FLEX_RADIUS_KM))
           /\ ~(c.FLEX_POLL_INTERVAL < MinPollInterval)
           /\ ~(c.FLEX_HTTP_TIMEOUT <= 0 \/ c.FLEX_HTTP_TIMEOUT > c.FLEX_POLL_INTERVAL)
           /\ ~(c.FLEX_REALERT_AFTER < 0)
<1>1. \A v \in DOMAIN Broken(c) : ~Broken(c)[v]
  BY DEF validate
<1> QED
  BY <1>1, RuleNames, NumericRules

\* The settings that have a parser for numbers are numbers.
LEMMA NumericSettings ==
    ASSUME NEW e, WellFormed(e), NEW v \in Variables,
           v \notin Texts \cup Addresses \cup {"FLEX_STORE_ENABLED"}
    PROVE  Settings(e)[v] \in Int
<1>1. v \in {"FLEX_CITY_ID", "FLEX_CENTER_LAT", "FLEX_CENTER_LON", "FLEX_RADIUS_KM",
              "FLEX_POLL_INTERVAL", "FLEX_HTTP_TIMEOUT", "FLEX_REALERT_AFTER", "FLEX_LOG_LEVEL"}
  BY VariablesAre DEF Texts, Addresses
<1>5. Defaults[v] \in Int
  BY <1>1, DefaultNumbers
<1>6. Zero[v] = 0
  BY <1>1 DEF Zero
<1>2. Settings(e)[v] = Parsed(e, v)
  BY DEF Settings
<1>3. e[v] = Unset \/ e[v] = Junk \/ e[v].value \in Int
  BY DEF WellFormed, WellTyped
<1>4. v \notin {"TELEGRAM_TOKEN", "TELEGRAM_CHAT_ID"}
  BY DEF Texts
<1> QED
  BY <1>2, <1>3, <1>4, <1>5, <1>6 DEF Parsed, Trimmed

\* A configuration that is accepted is the one the environment gives.
THEOREM AcceptedIsMeantHolds == Spec => []AcceptedIsMeant
<1>1. Loaded => AcceptedIsMeant
  <2> SUFFICES ASSUME Loaded, errs = {} PROVE AcceptedIsMeant!2
    BY DEF AcceptedIsMeant
  <2>1. ParseErrors(env) = {} /\ validate(cfg) = {}
    BY DEF Loaded, LoadErrors
  <2>2. ASSUME NEW v \in Variables
        PROVE  \/ env[v] = Unset /\ cfg[v] = Defaults[v]
               \/ env[v].kind = "value" /\ cfg[v] = Trimmed(v, env[v].value)
    BY <2>1, SettingValue DEF Loaded
  <2>3. /\ cfg["FLEX_POLL_INTERVAL"] \in Int /\ cfg["FLEX_HTTP_TIMEOUT"] \in Int
        /\ cfg["FLEX_REALERT_AFTER"] \in Int
    BY NumericSettings, VariablesAre DEF Loaded, Texts, Addresses
  <2>4. cfg.FLEX_HTTP_TIMEOUT \in 1..cfg.FLEX_POLL_INTERVAL /\ cfg.FLEX_REALERT_AFTER \in Nat
    BY <2>1, <2>3, AcceptedSettings
  <2> QED
    BY <2>2, <2>4
<1> QED
  BY <1>1, LoadedInvariant, PTL

\* Whoever takes back the settings an error names gets no other error: a rule
\* about one setting holds of its default, and a rule about two either names
\* both, or holds of the default of the one and of whatever the other is when
\* no rule names it.
LEMMA CorrectedLoads ==
    ASSUME Loaded
    PROVE  LoadErrors(Corrected) = {}
<1> DEFINE d == Settings(Corrected)
<1>0. ASSUME NEW v \in Texts \cap DOMAIN Broken(cfg), v \in errs
      PROVE  Broken(cfg)[v]
  <2>1. v \in Variables /\ v \notin ParseErrors(env)
    BY VariablesAre, RawApart DEF ParseErrors, Loaded, WellFormed, Texts
  <2> QED
    BY <1>0, <2>1 DEF Loaded, LoadErrors, validate
<1>1. ParseErrors(env) \subseteq errs /\ validate(cfg) \subseteq errs
  BY DEF Loaded, LoadErrors
<1>2. ASSUME NEW v \in Variables, v \in errs
      PROVE  d[v] = Defaults[v]
  BY <1>2 DEF Settings, Parsed, Corrected
<1>3. ASSUME NEW v \in Variables, v \notin errs
      PROVE  d[v] = cfg[v]
  BY <1>3 DEF Loaded, Settings, Parsed, Corrected
<1>4. ASSUME NEW v \in DOMAIN Broken(cfg), v \notin errs
      PROVE  ~Broken(cfg)[v]
  BY <1>1, <1>4 DEF validate
<1>5. ParseErrors(Corrected) = {}
  <2>1. ASSUME NEW v \in Variables PROVE Corrected[v] # Junk
    BY <1>1, RawApart DEF Corrected, ParseErrors
  <2> QED
    BY <2>1 DEF ParseErrors
<1> HIDE DEF d
<1>6. ~Broken(d)["FLEX_CENTER_LAT"] /\ ~Broken(d)["FLEX_CENTER_LON"]
  <2>1. ~Broken(d)["FLEX_CENTER_LAT"]
    BY <1>2, <1>3, <1>4, RuleNames, NumericRules, VariablesAre, DefaultNumbers DEF Below
  <2>2. ~Broken(d)["FLEX_CENTER_LON"]
    BY <1>2, <1>3, <1>4, RuleNames, NumericRules, VariablesAre, DefaultNumbers DEF Below
  <2> QED
    BY <2>1, <2>2
<1>7. ~Broken(d)["FLEX_RADIUS_KM"]
  BY <1>2, <1>3, <1>4, RuleNames, NumericRules, VariablesAre, DefaultNumbers DEF Below, AtMost
<1>8. ~Broken(d)["FLEX_POLL_INTERVAL"] /\ ~Broken(d)["FLEX_REALERT_AFTER"]
  <2>1. ~Broken(d)["FLEX_POLL_INTERVAL"]
    BY <1>2, <1>3, <1>4, RuleNames, NumericRules, VariablesAre, DefaultNumbers DEF MinPollInterval
  <2>2. ~Broken(d)["FLEX_REALERT_AFTER"]
    BY <1>2, <1>3, <1>4, RuleNames, NumericRules, VariablesAre, DefaultNumbers
  <2> QED
    BY <2>1, <2>2
<1>9. ~Broken(d)["FLEX_HTTP_TIMEOUT"]
  <2> DEFINE P == "FLEX_POLL_INTERVAL"
             T == "FLEX_HTTP_TIMEOUT"
  <2>1. P \in Variables /\ T \in Variables /\ P \in DOMAIN Broken(cfg) /\ T \in DOMAIN Broken(cfg)
    BY VariablesAre, RuleNames
  <2>2. cfg[P] \in Int /\ cfg[T] \in Int
    BY <2>1, NumericSettings DEF Loaded, Texts, Addresses
  <2>3. P \notin errs => cfg[P] >= 10
    BY <1>4, <2>1, <2>2, NumericRules DEF MinPollInterval
  <2>4. P \in errs => cfg[P] < 10
    <3>1. CASE P \in ParseErrors(env)
      BY <2>1, <3>1, RawApart DEF Loaded, Settings, Parsed, ParseErrors, Zero
    <3>2. CASE P \in validate(cfg)
      BY <3>2, NumericRules DEF validate, MinPollInterval
    <3> QED
      BY <3>1, <3>2 DEF Loaded, LoadErrors
  <2>5. T \notin errs => cfg[T] > 0 /\ cfg[T] <= cfg[P]
    BY <1>4, <2>1, <2>2, NumericRules
  <2>6. d[P] = IF P \in errs THEN 20 ELSE cfg[P]
    BY <1>2, <1>3, <2>1, DefaultNumbers
  <2>7. d[T] = IF T \in errs THEN 10 ELSE cfg[T]
    BY <1>2, <1>3, <2>1, DefaultNumbers
  <2>8. ~(d[T] <= 0) /\ ~(d[T] > d[P])
    BY <2>2, <2>3, <2>4, <2>5, <2>6, <2>7
  <2> QED
    BY <2>8, NumericRules
<1>10. ~Broken(d)["FLEX_USER_AGENT"]
  <2>1. "flexwatch" # ""
    OBVIOUS
  <2>2. Broken(cfg)["FLEX_USER_AGENT"] <=> (cfg["FLEX_USER_AGENT"] = "")
    BY AgentRule
  <2>3. Broken(d)["FLEX_USER_AGENT"] <=> (d["FLEX_USER_AGENT"] = "")
    BY AgentRule
  <2> QED
    BY <1>2, <1>3, <1>4, <2>1, <2>2, <2>3, RuleNames, VariablesAre, TextDefaults
<1>11. ~Broken(d)["FLEX_API_BASE_URL"] /\ ~Broken(d)["TELEGRAM_API_BASE_URL"]
  <2>1. validateBaseURL(URL("https", "api")) /\ validateBaseURL(URL("https", "telegram"))
    BY DEF validateBaseURL, URL
  <2>2. ~Broken(d)["FLEX_API_BASE_URL"]
    BY <1>2, <1>3, <1>4, <2>1, RuleNames, AddressRules, VariablesAre, AddressDefaults
  <2>3. ~Broken(d)["TELEGRAM_API_BASE_URL"]
    BY <1>2, <1>3, <1>4, <2>1, RuleNames, AddressRules, VariablesAre, AddressDefaults
  <2> QED
    BY <2>2, <2>3
<1>12. ~Broken(d)["TELEGRAM_TOKEN"] /\ ~Broken(d)["TELEGRAM_CHAT_ID"]
  <2>1. CASE HalfASecret(cfg)
    <3>1. "TELEGRAM_TOKEN" \in errs /\ "TELEGRAM_CHAT_ID" \in errs
      BY <1>4, <2>1, RuleNames, PairRules
    <3>2. d["TELEGRAM_TOKEN"] = "" /\ d["TELEGRAM_CHAT_ID"] = ""
      BY <1>2, <3>1, VariablesAre, TextDefaults
    <3> QED
      BY <3>2, PairRules DEF HalfASecret
  <2>2. CASE ~HalfASecret(cfg)
    <3>1. "TELEGRAM_TOKEN" \notin errs /\ "TELEGRAM_CHAT_ID" \notin errs
      BY <1>0, <2>2, RuleNames, PairRules DEF Texts
    <3>2. /\ d["TELEGRAM_TOKEN"] = cfg["TELEGRAM_TOKEN"]
          /\ d["TELEGRAM_CHAT_ID"] = cfg["TELEGRAM_CHAT_ID"]
      BY <1>3, <3>1, VariablesAre
    <3> QED
      BY <2>2, <3>2, PairRules DEF HalfASecret
  <2> QED
    BY <2>1, <2>2
<1>13. ~Broken(d)["FLEX_STORE_ENABLED"] /\ ~Broken(d)["DATABASE_URL"]
  <2>1. CASE "FLEX_STORE_ENABLED" \in errs
    <3>1. ~d["FLEX_STORE_ENABLED"]
      BY <1>2, <2>1, VariablesAre, StoreDefault
    <3> QED
      BY <3>1, PairRules DEF NoDatabase
  <2>2. CASE "FLEX_STORE_ENABLED" \notin errs
    <3>1. ~NoDatabase(cfg)
      BY <1>4, <2>2, RuleNames, PairRules
    <3>2. "DATABASE_URL" \notin errs
      BY <1>0, <3>1, RuleNames, PairRules DEF Texts
    <3>3. /\ d["FLEX_STORE_ENABLED"] = cfg["FLEX_STORE_ENABLED"]
          /\ d["DATABASE_URL"] = cfg["DATABASE_URL"]
      BY <1>3, <2>2, <3>2, VariablesAre
    <3> QED
      BY <3>1, <3>3, PairRules DEF NoDatabase
  <2> QED
    BY <2>1, <2>2
<1>14. validate(d) = {}
  <2>1. \A v \in DOMAIN Broken(d) : ~Broken(d)[v]
    BY <1>6, <1>7, <1>8, <1>9, <1>10, <1>11, <1>12, <1>13, RuleNames
  <2> QED
    BY <2>1 DEF validate
<1> QED
  BY <1>5, <1>14 DEF LoadErrors, d

\* The faults of a configuration are shown at once.
THEOREM OneCorrectionHolds == Spec => OneCorrection
<1>1. Loaded /\ [Next]_vars => [Correct => errs' = {}]_vars
  BY CorrectedLoads DEF Correct
<1> QED
  BY <1>1, LoadedInvariant, PTL DEF Spec, OneCorrection

-----------------------------------------------------------------------------
(***************************************************************************)
(* The decoder.                                                            *)
(***************************************************************************)

\* A set of numbers has a least one.
LEMMA MinIn ==
    ASSUME NEW S, S \subseteq Nat, S # {}
    PROVE  Min(S) \in S
<1> DEFINE R == OpToRel(<, Nat)
<1>1. IsWellFoundedOn(R, Nat)
  BY NatLessThanWellFounded
<1>2. \A x, y \in Nat : x < y => <<x, y>> \in R
  BY Zenon DEF OpToRel
<1> HIDE DEF R
<1>3. PICK x \in S : \A y \in S : ~(<<y, x>> \in R)
  BY <1>1, WFMin
<1>4. ASSUME NEW y \in S PROVE x <= y
  <2>1. y \in Nat /\ x \in Nat /\ ~(y < x)
    BY <1>2, <1>3, Zenon
  <2> QED
    BY <2>1
<1> QED
  BY <1>4 DEF Min

\* What lookup returns: nothing, when there is nothing but nulls under the
\* keys; otherwise a value that one of them has, and that is not a null.
LEMMA LookupValue ==
    ASSUME NEW o, NEW n \in Nat, NEW keys, DOMAIN keys = 1..n
    PROVE  \/ /\ lookup(o, keys) = Missing
              /\ \A k \in ToSet(keys) \cap DOMAIN o : o[k].kind = "null"
           \/ \E k \in ToSet(keys) \cap DOMAIN o :
                 o[k].kind # "null" /\ lookup(o, keys) = o[k]
<1> DEFINE hits == {i \in DOMAIN keys : keys[i] \in DOMAIN o /\ o[keys[i]].kind # "null"}
<1>1. CASE hits = {}
  <2>1. lookup(o, keys) = Missing
    BY <1>1 DEF lookup
  <2> QED
    BY <1>1, <2>1 DEF ToSet
<1>2. CASE hits # {}
  <2>1. hits \subseteq Nat
    OBVIOUS
  <2>2. Min(hits) \in hits
    BY <1>2, <2>1, MinIn
  <2>3. lookup(o, keys) = o[keys[Min(hits)]]
    BY <1>2 DEF lookup
  <2> QED
    BY <2>2, <2>3 DEF ToSet
<1> QED
  BY <1>1, <1>2

\* The keys of the decoder are sequences of names.
LEMMA KeysAreSequences ==
    ASSUME NEW keys \in {vehiclesKeys, idKeys, latKeys, lonKeys, nestedPosKey}
    PROVE  \E n \in Nat : DOMAIN keys = 1..n
<1>1. DOMAIN vehiclesKeys = 1..7
  BY DEF vehiclesKeys
<1>2. DOMAIN idKeys = 1..4 /\ DOMAIN lonKeys = 1..4
  BY DEF idKeys, lonKeys
<1>3. DOMAIN latKeys = 1..2
  BY DEF latKeys
<1>4. DOMAIN nestedPosKey = 1..6
  BY DEF nestedPosKey
<1> QED
  BY <1>1, <1>2, <1>3, <1>4

\* The fields of a normalized object are fields of the object.
LEMMA NormalizedField ==
    ASSUME NEW v, NEW o \in normalizeObject(v), NEW n \in DOMAIN o
    PROVE  v.kind = "object" /\ \E f \in v.fields : f.name = n /\ f.value = o[n]
BY DEF normalizeObject

\* Whatever the order of the map, a lookup finds nothing but what the reading
\* that knows nothing of the decoder finds too.
LEMMA LookupIsValue ==
    ASSUME NEW v, NEW o \in normalizeObject(v),
           NEW keys \in {vehiclesKeys, idKeys, latKeys, lonKeys, nestedPosKey},
           lookup(o, keys) # Missing
    PROVE  lookup(o, keys) \in Values(v, keys)
<1>1. PICK n \in Nat : DOMAIN keys = 1..n
  BY KeysAreSequences
<1>2. PICK k \in ToSet(keys) \cap DOMAIN o : o[k].kind # "null" /\ lookup(o, keys) = o[k]
  BY <1>1, LookupValue
<1> QED
  BY <1>2, NormalizedField DEF Values

\* Where no field has a twin and the reading finds one value, so does lookup.
LEMMA LookupSole ==
    ASSUME NEW v, NoTwins(v), NEW o \in normalizeObject(v),
           NEW keys \in {vehiclesKeys, idKeys, latKeys, lonKeys, nestedPosKey},
           NEW x \in Values(v, keys), Sole(Values(v, keys))
    PROVE  lookup(o, keys) = x
<1>1. PICK n \in Nat : DOMAIN keys = 1..n
  BY KeysAreSequences
<1>2. v.kind = "object"
  BY DEF Values
<1>3. PICK f \in v.fields : f.name \in ToSet(keys) /\ f.value.kind # "null" /\ x = f.value
  BY <1>2 DEF Values
<1>4. f.name \in DOMAIN o /\ o[f.name] = x
  BY <1>2, <1>3 DEF normalizeObject, NoTwins
<1>5. PICK k \in ToSet(keys) \cap DOMAIN o : o[k].kind # "null" /\ lookup(o, keys) = o[k]
  BY <1>1, <1>3, <1>4, LookupValue
<1>6. lookup(o, keys) \in Values(v, keys)
  BY <1>5, NormalizedField DEF Values
<1> QED
  BY <1>6 DEF Sole

\* An object has a normal form.
LEMMA NormalFormExists ==
    ASSUME NEW v, v.kind = "object"
    PROVE  normalizeObject(v) # {}
<1> DEFINE names == {f.name : f \in v.fields}
           of(n) == CHOOSE f \in v.fields : f.name = n
           o == [n \in names |-> of(n).value]
<1>1. \A n \in names : of(n) \in v.fields /\ of(n).name = n
  OBVIOUS
<1>2. o \in normalizeObject(v)
  BY <1>1 DEF normalizeObject
<1> QED
  BY <1>2

\* A point of an object is a place of the object.
LEMMA PlacesOf ==
    ASSUME NEW item, NEW o \in {item} \cup Values(item, nestedPosKey),
           NEW lat \in Values(o, latKeys), NEW lon \in Values(o, lonKeys)
    PROVE  Point(lat, lon) \in Places(item)
BY DEF Places

\* A point that is read is at a latitude and a longitude of the object, and
\* acceptable.
LEMMA PointIsRead ==
    ASSUME NEW v, NEW o \in normalizeObject(v), PointOf(o) # Nowhere
    PROVE  /\ \E lat \in Values(v, latKeys), lon \in Values(v, lonKeys) :
                 PointOf(o) = Point(lat, lon)
           /\ Acceptable(PointOf(o))
<1> DEFINE lat == lookup(o, latKeys)
           lon == lookup(o, lonKeys)
<1>1. /\ PointOf(o) = Point(lat, lon) /\ Acceptable(PointOf(o))
      /\ decodeFloat(lat) # NoFloat /\ decodeFloat(lon) # NoFloat
  BY DEF PointOf, buildPoint, Point, Acceptable
<1>2. lat # Missing /\ lon # Missing
  BY <1>1 DEF decodeFloat, Missing
<1>3. lat \in Values(v, latKeys) /\ lon \in Values(v, lonKeys)
  BY <1>2, LookupIsValue
<1> QED
  BY <1>1, <1>3

\* The same of the position of a vehicle, flat or nested.
LEMMA PositionIsRead ==
    ASSUME NEW item, NEW o \in normalizeObject(item), NEW p \in decodePosition(o), p # Nowhere
    PROVE  p \in Places(item) /\ Acceptable(p)
<1> DEFINE raw == lookup(o, nestedPosKey)
<1>1. CASE HasPoint(o)
  <2>1. p = PointOf(o)
    BY <1>1 DEF decodePosition
  <2>2. /\ \E lat \in Values(item, latKeys), lon \in Values(item, lonKeys) : p = Point(lat, lon)
        /\ Acceptable(p)
    BY <1>1, <2>1, PointIsRead
  <2>3. item \in {item} \cup Values(item, nestedPosKey)
    OBVIOUS
  <2> QED
    BY <2>2, <2>3, PlacesOf
<1>2. CASE ~HasPoint(o)
  <2>1. PICK n \in normalizeObject(raw) : p = PointOf(n)
    BY <1>2 DEF decodePosition
  <2>2. raw \in Values(item, nestedPosKey)
    <3>1. raw # Missing
      BY <2>1 DEF normalizeObject, Missing
    <3> QED
      BY <3>1, LookupIsValue
  <2>3. /\ \E lat \in Values(raw, latKeys), lon \in Values(raw, lonKeys) : p = Point(lat, lon)
        /\ Acceptable(p)
    BY <2>1, PointIsRead
  <2> QED
    BY <2>2, <2>3, PlacesOf
<1> QED
  BY <1>1, <1>2

\* What is made of an item that is an object, or a null: it depends on one
\* normal form of it and one position.
LEMMA VehicleCases ==
    ASSUME NEW item, NEW w \in decodeVehicle(item), normalizeObject(item) # {}
    PROVE  \E o \in normalizeObject(item) : \E p \in decodePosition(o) :
              w = IF decodeString(lookup(o, idKeys)) = "" \/ p = Nowhere THEN Refused
                  ELSE [ID |-> decodeString(lookup(o, idKeys)), Position |-> p]
BY DEF decodeVehicle

LEMMA RefusedUnlessObject ==
    ASSUME NEW item, NEW w \in decodeVehicle(item), normalizeObject(item) = {}
    PROVE  w = Refused
BY DEF decodeVehicle

\* A vehicle that is kept has an identifier and a position, and both are fields
\* of its item.
LEMMA VehicleIsRead ==
    ASSUME NEW item, NEW w \in decodeVehicle(item), w # Refused
    PROVE  /\ w.ID # "" /\ Named(item, w.ID)
           /\ w.Position \in Places(item) /\ Acceptable(w.Position)
<1>1. PICK o \in normalizeObject(item) : \E p \in decodePosition(o) :
          /\ p # Nowhere /\ decodeString(lookup(o, idKeys)) # ""
          /\ w = [ID |-> decodeString(lookup(o, idKeys)), Position |-> p]
  BY VehicleCases, RefusedUnlessObject
<1>2. PICK p \in decodePosition(o) :
          /\ p # Nowhere /\ decodeString(lookup(o, idKeys)) # ""
          /\ w = [ID |-> decodeString(lookup(o, idKeys)), Position |-> p]
  BY <1>1
<1>3. lookup(o, idKeys) \in Values(item, idKeys)
  <2>1. decodeString(Missing) = ""
    BY DEF decodeString, Missing
  <2> QED
    BY <1>2, <2>1, LookupIsValue
<1>4. p \in Places(item) /\ Acceptable(p)
  BY <1>2, PositionIsRead
<1>5. w.ID = decodeString(lookup(o, idKeys)) /\ w.Position = p
  BY <1>2
<1> QED
  BY <1>2, <1>3, <1>4, <1>5 DEF Named

\* An item that is unusable in every reading is refused in every order of its
\* fields.
LEMMA UnusableIsRefused ==
    ASSUME NEW item, Unusable(item), NEW w \in decodeVehicle(item)
    PROVE  w = Refused
<1> SUFFICES ASSUME w # Refused PROVE FALSE
  OBVIOUS
<1>1. w.ID # "" /\ Named(item, w.ID) /\ w.Position \in Places(item) /\ Acceptable(w.Position)
  BY VehicleIsRead
<1>2. HasID(item)
  BY <1>1 DEF Named, HasID
<1> QED
  BY <1>1, <1>2 DEF Unusable

\* Where a plain object has a pair of coordinates that are acceptable, they are
\* the point that is read from it.
LEMMA PlaceIsFound ==
    ASSUME NEW v, NoTwins(v), Sole(Values(v, latKeys)), Sole(Values(v, lonKeys)),
           NEW lat \in Values(v, latKeys), NEW lon \in Values(v, lonKeys),
           Acceptable(Point(lat, lon)),
           NEW o \in normalizeObject(v)
    PROVE  HasPoint(o) /\ PointOf(o) = Point(lat, lon)
<1>1. lookup(o, latKeys) = lat /\ lookup(o, lonKeys) = lon
  BY LookupSole
<1>2. decodeFloat(lat) # NoFloat /\ decodeFloat(lon) # NoFloat
  BY DEF Acceptable, Point
<1>3. lat.kind # "missing" /\ lon.kind # "missing"
  BY <1>2 DEF decodeFloat
<1>4. HasPoint(o)
  BY <1>1, <1>3 DEF HasPoint
<1>5. PointOf(o) = Point(lat, lon)
  BY <1>1 DEF PointOf, buildPoint, Point, Acceptable
<1> QED
  BY <1>4, <1>5

\* A plain vehicle with an identifier, at such a place, is kept, with both.
LEMMA VehicleIsFound ==
    ASSUME NEW item, Plain(item), HasID(item), NEW p \in Places(item), Acceptable(p),
           NEW w \in decodeVehicle(item)
    PROVE  w # Refused /\ w.Position = p /\ Named(item, w.ID)
<1>1. item.kind = "object" /\ NoTwins(item)
  BY DEF HasID, Values, Plain
<1>2. PICK id \in Values(item, idKeys) : decodeString(id) # ""
  BY DEF HasID
<1>3. ASSUME NEW o \in normalizeObject(item)
      PROVE  lookup(o, idKeys) = id
  BY LookupSole DEF Plain
<1>4. ASSUME NEW o \in normalizeObject(item)
      PROVE  decodePosition(o) = {p}
  <2>1. CASE \E lat \in Values(item, latKeys), lon \in Values(item, lonKeys) : p = Point(lat, lon)
    <3>1. HasPoint(o) /\ PointOf(o) = p
      BY <1>1, <2>1, PlaceIsFound DEF Plain
    <3> QED
      BY <3>1 DEF decodePosition
  <2>2. CASE \E n \in Values(item, nestedPosKey) :
                \E lat \in Values(n, latKeys), lon \in Values(n, lonKeys) : p = Point(lat, lon)
    <3>1. PICK n \in Values(item, nestedPosKey) :
                \E lat \in Values(n, latKeys), lon \in Values(n, lonKeys) : p = Point(lat, lon)
      BY <2>2
    <3>2. NoTwins(n) /\ Sole(Values(n, latKeys)) /\ Sole(Values(n, lonKeys))
      BY DEF Plain
    <3>3. Values(item, latKeys) = {}
      BY <3>1 DEF Plain
    <3>4. ~HasPoint(o)
      <4>1. lookup(o, latKeys) = Missing
        BY <3>3, LookupIsValue
      <4> QED
        BY <4>1 DEF HasPoint, Missing
    <3>5. lookup(o, nestedPosKey) = n
      BY <1>1, LookupSole DEF Plain
    <3>6. normalizeObject(n) # {}
      <4>1. n.kind = "object"
        BY <3>1 DEF Values
      <4> QED
        BY <4>1, NormalFormExists
    <3>7. \A m \in normalizeObject(n) : HasPoint(m) /\ PointOf(m) = p
      BY <3>1, <3>2, PlaceIsFound
    <3> QED
      BY <3>4, <3>5, <3>6, <3>7 DEF decodePosition
  <2> QED
    BY <2>1, <2>2 DEF Places
<1>5. p # Nowhere
  BY DEF Acceptable, Nowhere
<1>6. normalizeObject(item) # {}
  BY <1>1, NormalFormExists
<1>7. w = [ID |-> decodeString(id), Position |-> p]
  <2>1. PICK o \in normalizeObject(item) : \E q \in decodePosition(o) :
              w = IF decodeString(lookup(o, idKeys)) = "" \/ q = Nowhere THEN Refused
                  ELSE [ID |-> decodeString(lookup(o, idKeys)), Position |-> q]
    BY <1>6, VehicleCases
  <2>2. lookup(o, idKeys) = id /\ decodePosition(o) = {p}
    BY <1>3, <1>4
  <2> QED
    BY <1>2, <1>5, <2>1, <2>2
<1> QED
  BY <1>2, <1>5, <1>7 DEF Refused, Named

\* What is made of a list: every usable vehicle is kept, at its place, unless
\* there are items and none is usable.
LEMMA ListCases ==
    ASSUME NEW raw, raw.kind = "list", NEW av \in FromList(raw)
    PROVE  \E r \in Decoded(raw.items) :
              IF raw.items # << >> /\ DOMAIN Usable(r) = {}
              THEN av = Drift
              ELSE av = Good(Usable(r), Len(raw.items) - Cardinality(DOMAIN Usable(r)))
BY DEF FromList

LEMMA GoodIsList ==
    ASSUME NEW raw, NEW av \in FromList(raw), av.kind = "good"
    PROVE  raw.kind = "list"
BY DEF FromList, Drift, Unreadable

LEMMA DecodedItem ==
    ASSUME NEW items, NEW r \in Decoded(items)
    PROVE  /\ DOMAIN r = DOMAIN items
           /\ \A i \in DOMAIN items : r[i] \in decodeVehicle(items[i])
BY DEF Decoded

LEMMA UsableItem ==
    ASSUME NEW r
    PROVE  /\ DOMAIN Usable(r) = {i \in DOMAIN r : r[i] # Refused}
           /\ \A i \in DOMAIN Usable(r) : Usable(r)[i] = r[i]
BY DEF Usable

\* A good list is a list of the root of the answer.
LEMMA ListIsRoot ==
    ASSUME NEW json, NEW o \in normalizeObject(json), NEW raw \in ListOf(o), raw.kind = "list"
    PROVE  raw \in ListsIn(Body(json))
<1>1. Body(json).kind = "body" /\ Body(json).json = json
  BY DEF Body
<1>2. CASE lookup(o, vehiclesKeys).kind # "missing"
  <2>1. raw = lookup(o, vehiclesKeys) /\ raw # Missing
    BY <1>2 DEF ListOf, Missing
  <2>2. raw \in Values(json, vehiclesKeys)
    BY <2>1, LookupIsValue
  <2> QED
    BY <1>1, <2>2 DEF Values, ListsIn
<1>3. CASE lookup(o, vehiclesKeys).kind = "missing"
  <2>1. raw \in firstArray(o)
    BY <1>3 DEF ListOf
  <2>2. PICK n \in DOMAIN o : raw = o[n]
    BY <2>1 DEF firstArray, Missing
  <2> QED
    BY <1>1, <2>2, NormalizedField DEF ListsIn
<1> QED
  BY <1>2, <1>3

-----------------------------------------------------------------------------
(***************************************************************************)
(* The poll.                                                               *)
(***************************************************************************)

\* What is inside the circle, of the vehicles of a good answer.
Inside(av) ==
    [i \in {j \in DOMAIN av.Vehicles : Within(av.Vehicles[j])} |-> av.Vehicles[i]]

\* The result that is kept comes from the answer that is kept, and only from
\* it: nothing of an earlier poll is in it.
Result(av) ==
    IF av.kind = "good"
    THEN outcome = "good" /\ inFence = Inside(av) /\ inBBox = Cardinality(DOMAIN av.Vehicles)
    ELSE outcome = errorKind(av) /\ inFence = << >> /\ inBBox = 0

Polled ==
    /\ response \in Response \cup {Failed}
    /\ outcome = "none" => inFence = << >> /\ inBBox = 0
    /\ outcome # "none" =>
          errs = {} /\ \E av \in FreeFloatingAvailability(response) : Result(av)

LEMMA PolledInvariant == Spec => []Polled
<1>1. Init => Polled
  BY DEF Init, Polled
<1>2. Polled /\ [Next]_vars => Polled'
  <2> SUFFICES ASSUME Polled, [Next]_vars PROVE Polled'
    OBVIOUS
  <2>1. CASE Correct
    BY <2>1 DEF Correct, Polled, poll
  <2>2. CASE Forget
    BY <2>2 DEF Forget, Polled
  <2>3. ASSUME NEW r \in Response, Poll(r) PROVE Polled'
    <3>1. PICK av \in FreeFloatingAvailability(r) :
             IF av.kind = "good"
             THEN /\ outcome' = "good"
                  /\ inFence' = Inside(av)
                  /\ inBBox' = Cardinality(DOMAIN av.Vehicles)
             ELSE /\ outcome' = errorKind(av)
                  /\ UNCHANGED <<inFence, inBBox>>
      BY <2>3 DEF Poll, Inside
    <3>2. Inside(av)' = Inside(av)
      BY <2>3 DEF Poll, Inside, Within, InCircle, Center
    <3>3. Result(av)'
      BY <2>3, <3>1, <3>2 DEF Poll, Polled, Result
    <3>4. outcome' # "none"
      BY <3>1 DEF errorKind
    <3> QED
      BY <2>3, <3>3, <3>4 DEF Poll, Polled
  <2>4. CASE UNCHANGED vars
    <3>1. ASSUME NEW av PROVE Result(av)' = Result(av)
      BY <2>4 DEF vars, poll, Result, Inside, Within, InCircle, Center
    <3> QED
      BY <2>4, <3>1 DEF Polled, vars, poll
  <2> QED
    BY <2>1, <2>2, <2>3, <2>4 DEF Next
<1> QED
  BY <1>1, <1>2, PTL DEF Spec

\* The answer behind a result: a failure, or a body that is decoded.
LEMMA ResultCases ==
    ASSUME Polled, outcome # "none"
    PROVE  \/ /\ response.kind # "body" /\ outcome \in {"http", "network"}
              /\ inFence = << >> /\ inBBox = 0
           \/ /\ response.kind = "body"
              /\ \E av \in parseAvailability(response.json) : Result(av)
<1>1. response.kind \in {"failed", "status", "body"}
  BY ResponseAssumption DEF Polled, Failed
<1> QED
  BY <1>1 DEF Polled, FreeFloatingAvailability, Result, errorKind

LEMMA DecodedCases ==
    ASSUME NEW json, NEW av \in parseAvailability(json)
    PROVE  \/ normalizeObject(json) = {} /\ av = Unreadable
           \/ \E o \in normalizeObject(json) : \E raw \in ListOf(o) : av \in FromList(raw)
BY DEF parseAvailability

\* A good result comes from one list of the root of the answer, item by item.
LEMMA GoodCases ==
    ASSUME Polled, outcome = "good"
    PROVE  errs = {} /\ \E l \in RootLists : l.kind = "list" /\ \E r \in Decoded(l.items) :
              /\ l.items # << >> => DOMAIN Usable(r) # {}
              /\ inFence = [i \in {j \in DOMAIN Usable(r) : Within(Usable(r)[j])} |-> Usable(r)[i]]
              /\ inBBox = Cardinality(DOMAIN Usable(r))
<1> DEFINE json == response.json
<1>1. PICK av \in parseAvailability(json) : response.kind = "body" /\ Result(av)
  BY ResultCases
<1>2. av.kind = "good"
  BY <1>1 DEF Result, errorKind
<1>3. PICK o \in normalizeObject(json) : \E raw \in ListOf(o) : av \in FromList(raw)
  BY <1>2, DecodedCases DEF Unreadable
<1>4. PICK raw \in ListOf(o) : av \in FromList(raw)
  BY <1>3
<1>5. raw.kind = "list"
  BY <1>2, <1>4, GoodIsList
<1>6. raw \in RootLists
  <2>1. raw \in ListsIn(Body(json))
    BY <1>5, ListIsRoot
  <2>2. ListsIn(Body(json)) = ListsIn(response)
    BY <1>1 DEF ListsIn, Body
  <2> QED
    BY <2>1, <2>2 DEF RootLists
<1>7. PICK r \in Decoded(raw.items) :
         IF raw.items # << >> /\ DOMAIN Usable(r) = {}
         THEN av = Drift
         ELSE av = Good(Usable(r), Len(raw.items) - Cardinality(DOMAIN Usable(r)))
  BY <1>4, <1>5, ListCases
<1>8. /\ raw.items # << >> => DOMAIN Usable(r) # {}
      /\ av.Vehicles = Usable(r)
  <2>1. av # Drift
    BY <1>2 DEF Drift
  <2>2. av = Good(Usable(r), Len(raw.items) - Cardinality(DOMAIN Usable(r)))
    BY <1>7, <2>1
  <2>3. av.Vehicles = Usable(r)
    BY <2>2 DEF Good
  <2> QED
    BY <1>7, <2>1, <2>3
<1>9. inFence = Inside(av) /\ inBBox = Cardinality(DOMAIN av.Vehicles)
  BY <1>1, <1>2 DEF Result
<1> QED
  BY <1>5, <1>6, <1>8, <1>9 DEF Inside, Polled

\* Whoever is inside the circle has coordinates, because no NaN is.
LEMMA InsideIsNumber ==
    ASSUME NEW p, InCircle(p)
    PROVE  NaN \notin {p.Lat, p.Lon}
BY DEF InCircle, AtMost, DistanceKM

\* Nothing is in the fence that the answer does not say.
THEOREM NothingInventedHolds == Spec => []NothingInvented
<1>1. Polled => NothingInvented
  <2> SUFFICES ASSUME Polled, NEW i \in DOMAIN inFence
               PROVE  NothingInvented!(i)
    BY DEF NothingInvented
  <2>1. outcome = "good"
    <3>1. inFence # << >>
      OBVIOUS
    <3> QED
      BY <3>1, ResultCases DEF Polled, Result
  <2>2. PICK l \in RootLists : l.kind = "list" /\ \E r \in Decoded(l.items) :
           inFence = [k \in {j \in DOMAIN Usable(r) : Within(Usable(r)[j])} |-> Usable(r)[k]]
    BY <2>1, GoodCases
  <2>3. PICK r \in Decoded(l.items) :
           inFence = [k \in {j \in DOMAIN Usable(r) : Within(Usable(r)[j])} |-> Usable(r)[k]]
    BY <2>2
  <2>4. i \in DOMAIN Usable(r) /\ Within(Usable(r)[i]) /\ inFence[i] = Usable(r)[i]
    BY <2>3
  <2>5. /\ i \in DOMAIN l.items /\ r[i] # Refused /\ r[i] \in decodeVehicle(l.items[i])
        /\ inFence[i] = r[i]
    BY <2>4, DecodedItem, UsableItem
  <2>6. /\ InCircle(inFence[i].Position)
        /\ NaN \notin {inFence[i].Position.Lat, inFence[i].Position.Lon}
    BY <2>4, InsideIsNumber DEF Within
  <2>7. l.items[i] \in ToSet(l.items)
    BY <2>5 DEF ToSet
  <2> QED
    BY <2>5, <2>6, <2>7, VehicleIsRead DEF OnEarth
<1> QED
  BY <1>1, PolledInvariant, PTL

\* A good answer without a vehicle has an empty list.
THEOREM EmptyIsSaidHolds == Spec => []EmptyIsSaid
<1>1. Polled => EmptyIsSaid
  <2> SUFFICES ASSUME Polled, outcome = "good", inBBox = 0
               PROVE  \E l \in RootLists : l.items = << >>
    BY DEF EmptyIsSaid
  <2>1. PICK l \in RootLists : \E r \in Decoded(l.items) :
           /\ l.items # << >> => DOMAIN Usable(r) # {}
           /\ inBBox = Cardinality(DOMAIN Usable(r))
    BY GoodCases
  <2>2. PICK r \in Decoded(l.items) :
           /\ l.items # << >> => DOMAIN Usable(r) # {}
           /\ inBBox = Cardinality(DOMAIN Usable(r))
    BY <2>1
  <2>3. l.items \in Seq(ToSet(l.items))
    BY ResponseAssumption DEF RootLists, ListsIn, Polled, Failed
  <2>4. IsFiniteSet(DOMAIN Usable(r))
    <3>1. DOMAIN l.items = 1..Len(l.items) /\ Len(l.items) \in Int /\ 1 \in Int
      BY <2>3
    <3>2. DOMAIN Usable(r) \subseteq DOMAIN l.items
      <4>1. DOMAIN r = DOMAIN l.items
        BY DecodedItem
      <4> QED
        BY <4>1, UsableItem
    <3>3. IsFiniteSet(DOMAIN l.items)
      BY <3>1, FS_Interval, Zenon
    <3> QED
      BY <3>2, <3>3, FS_Subset
  <2>5. DOMAIN Usable(r) = {}
    BY <2>2, <2>4, FS_EmptySet
  <2> QED
    BY <2>2, <2>5
<1> QED
  BY <1>1, PolledInvariant, PTL

\* What is under a known name of the list is one of the lists of the root.
LEMMA FleetIsRoot ==
    ASSUME NEW l \in Fleet, l.kind = "list"
    PROVE  /\ response.kind = "body" /\ response.json.kind = "object"
           /\ l \in Values(response.json, vehiclesKeys) /\ l \in RootLists
BY DEF Fleet, Values, RootLists, ListsIn

\* A list with items of which none is usable counts as a drift of the schema.
THEOREM DriftIsSchemaHolds == Spec => []DriftIsSchema
<1>1. Polled => DriftIsSchema
  <2> DEFINE json == response.json
  <2> SUFFICES ASSUME Polled, Items # {}, Sole(RootLists), \A v \in Fleet : v.kind = "list",
                      \A item \in Items : Unusable(item),
                      outcome # "none"
               PROVE  outcome = "schema"
    BY DEF DriftIsSchema
  <2>1. PICK l \in Fleet : l.kind = "list" /\ ToSet(l.items) # {}
    BY DEF Items
  <2>2. response.kind = "body" /\ json.kind = "object" /\ l \in RootLists
    BY <2>1, FleetIsRoot
  <2>3. PICK av \in parseAvailability(json) : Result(av)
    BY <2>2, ResultCases
  <2>4. PICK o \in normalizeObject(json) : \E raw \in ListOf(o) : av \in FromList(raw)
    BY <2>2, NormalFormExists, DecodedCases
  <2>5. PICK raw \in ListOf(o) : av \in FromList(raw)
    BY <2>4
  <2>6. raw = Missing \/ raw.kind = "list"
    <3>1. CASE lookup(o, vehiclesKeys).kind # "missing"
      <4>1. raw = lookup(o, vehiclesKeys) /\ raw # Missing
        BY <3>1 DEF ListOf, Missing
      <4>2. raw \in Values(json, vehiclesKeys)
        BY <4>1, LookupIsValue
      <4> QED
        BY <2>2, <4>2 DEF Fleet
    <3>2. CASE lookup(o, vehiclesKeys).kind = "missing"
      BY <3>2 DEF ListOf, firstArray
    <3> QED
      BY <3>1, <3>2
  <2>7. av = Drift
    <3>1. CASE raw = Missing
      BY <2>5, <3>1 DEF FromList, Missing
    <3>2. CASE raw.kind = "list"
      <4>1. raw \in RootLists
        <5>1. raw \in ListsIn(Body(json))
          BY <3>2, ListIsRoot
        <5>2. ListsIn(Body(json)) = ListsIn(response)
          BY <2>2 DEF ListsIn, Body
        <5> QED
          BY <5>1, <5>2 DEF RootLists
      <4>2. raw = l
        BY <2>2, <4>1 DEF Sole
      <4>3. PICK r \in Decoded(l.items) :
               IF l.items # << >> /\ DOMAIN Usable(r) = {}
               THEN av = Drift
               ELSE av = Good(Usable(r), Len(l.items) - Cardinality(DOMAIN Usable(r)))
        BY <2>5, <3>2, <4>2, ListCases
      <4>4. DOMAIN r = DOMAIN l.items
        BY DecodedItem
      <4>5. ASSUME NEW i \in DOMAIN r PROVE r[i] = Refused
        <5>1. l.items[i] \in Items
          BY <2>1, <4>4 DEF Items, ToSet
        <5>2. r[i] \in decodeVehicle(l.items[i])
          BY <4>4, DecodedItem
        <5> QED
          BY <5>1, <5>2, UnusableIsRefused
      <4>6. DOMAIN Usable(r) = {}
        BY <4>5, UsableItem
      <4>7. l.items # << >>
        BY <2>1 DEF ToSet
      <4> QED
        BY <4>3, <4>6, <4>7
    <3> QED
      BY <2>6, <3>1, <3>2
  <2> QED
    BY <2>3, <2>7 DEF Result, Drift, errorKind
<1> QED
  BY <1>1, PolledInvariant, PTL

\* Whatever the answer looks like otherwise, a vehicle that can be read in one
\* way only and is within the circle is found.
THEOREM EveryVehicleFoundHolds == Spec => []EveryVehicleFound
<1>1. Polled => EveryVehicleFound
  <2> DEFINE json == response.json
  <2> SUFFICES ASSUME Polled, outcome # "none", Sole(Fleet),
                      response.kind = "body" => NoTwins(json),
                      NEW item \in Items, Plain(item), HasID(item),
                      NEW p \in Places(item), OnEarth(p), InCircle(p)
               PROVE  \E i \in DOMAIN inFence :
                         inFence[i].Position = p /\ Named(item, inFence[i].ID)
    BY DEF EveryVehicleFound
  <2>1. PICK l \in Fleet : l.kind = "list" /\ item \in ToSet(l.items)
    BY DEF Items
  <2>2. PICK i \in DOMAIN l.items : item = l.items[i]
    BY <2>1 DEF ToSet
  <2>3. response.kind = "body" /\ json.kind = "object" /\ l \in Values(json, vehiclesKeys)
    BY <2>1, FleetIsRoot
  <2>4. PICK av \in parseAvailability(json) : Result(av)
    BY <2>3, ResultCases
  <2>5. PICK o \in normalizeObject(json) : \E raw \in ListOf(o) : av \in FromList(raw)
    BY <2>3, NormalFormExists, DecodedCases
  <2>6. lookup(o, vehiclesKeys) = l
    BY <2>3, LookupSole DEF Fleet
  <2>7. av \in FromList(l)
    BY <2>1, <2>5, <2>6 DEF ListOf
  <2>8. PICK r \in Decoded(l.items) :
           IF l.items # << >> /\ DOMAIN Usable(r) = {}
           THEN av = Drift
           ELSE av = Good(Usable(r), Len(l.items) - Cardinality(DOMAIN Usable(r)))
    BY <2>1, <2>7, ListCases
  <2>9. DOMAIN r = DOMAIN l.items /\ r[i] \in decodeVehicle(item)
    BY <2>2, DecodedItem
  <2>10. r[i] # Refused /\ r[i].Position = p /\ Named(item, r[i].ID)
    BY <2>9, VehicleIsFound DEF OnEarth
  <2>11. i \in DOMAIN Usable(r) /\ Usable(r)[i] = r[i]
    BY <2>2, <2>9, <2>10, UsableItem
  <2>12. av.kind = "good" /\ av.Vehicles = Usable(r)
    BY <2>8, <2>11 DEF Good
  <2>13. Within(r[i])
    BY <2>10 DEF Within
  <2>14. inFence = Inside(av)
    BY <2>4, <2>12 DEF Result
  <2>15. i \in DOMAIN inFence /\ inFence[i] = r[i]
    BY <2>11, <2>12, <2>13, <2>14 DEF Inside
  <2> QED
    BY <2>10, <2>15
<1> QED
  BY <1>1, PolledInvariant, PTL
=============================================================================
