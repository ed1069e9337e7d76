---------------------------- MODULE PollContent ----------------------------
(***************************************************************************)
(* What the configured program makes of one answer of the API: the         *)
(* configuration (Load) with the circle it asks for, the client            *)
(* (FreeFloatingAvailability), the decoder, the filter that tightens the   *)
(* rectangle to the circle, and the kind under which a failure is counted  *)
(* (errorKind).  What happens over several polls is the matter of Runner.  *)
(***************************************************************************)
EXTENDS Decode, Config

CONSTANTS
    Env,              \* the environments the program may be started in
    Response,         \* the answers of the API
    Haversine(_, _)   \* the length of the arc between two places, in 100 m

VARIABLES
    env,       \* the environment of the process
    cfg,       \* what Load made of it
    errs,      \* the variables named by the error of Load
    response,  \* the answer of this poll
    outcome,   \* "none" before it, then "good" or the kind of the error
    inFence,   \* result.InFence, by place in the answer: identifier and position
    inBBox,    \* result.InBBox, the number of decoded vehicles
    skipped    \* result.Skipped

poll == <<response, outcome, inFence, inBBox, skipped>>
vars == <<env, cfg, errs, poll>>

\* An answer: no complete one, one with another status than 200, or a body.
Failed == [kind |-> "failed"]
Status == [kind |-> "status"]
Body(json) == [kind |-> "body", json |-> json]

\* A text the process hands over as it is; any other variable but the addresses
\* has a parser, which may refuse what it reads.
Texts == {"FLEX_USER_AGENT", "TELEGRAM_TOKEN", "TELEGRAM_CHAT_ID", "DATABASE_URL"}

Addresses == {"FLEX_API_BASE_URL", "TELEGRAM_API_BASE_URL"}

WellTyped(v, x) ==
    IF v \in Texts THEN x \in STRING
    ELSE IF v \in Addresses THEN x = URL(x.scheme, x.host)
    ELSE IF v = "FLEX_STORE_ENABLED" THEN x \in BOOLEAN
    ELSE x \in Int

WellFormed(e) ==
    /\ e = [v \in Variables |-> e[v]]
    /\ \A v \in Variables :
          \/ e[v] = Unset
          \/ e[v] = Junk /\ v \notin Texts \cup Addresses
          \/ e[v] = Val(e[v].value) /\ WellTyped(v, e[v].value)

ASSUME EnvAssumption == \A e \in Env : WellFormed(e)

\* The lists in the root of an answer, under whatever name.
ListsIn(r) ==
    IF r.kind # "body" \/ r.json.kind # "object" THEN {}
    ELSE {f.value : f \in {g \in r.json.fields : g.value.kind = "list"}}

ASSUME ResponseAssumption ==
    \A r \in Response :
        /\ r.kind \in {"failed", "status", "body"}
        /\ \A l \in ListsIn(r) : l.items \in Seq(ToSet(l.items))

-----------------------------------------------------------------------------

\* The results and errors the client may return.
FreeFloatingAvailability(r) ==
    IF r.kind = "body" THEN parseAvailability(r.json) ELSE {r}

\* Mutant: a schema drift is counted like any other failure.
errorKindFlat(err) == IF err.kind = "status" THEN "http" ELSE "network"

errorKind(err) ==
    IF err.kind = "drift" THEN "schema" ELSE IF err.kind = "status" THEN "http" ELSE "network"

Center(c) == [Lat |-> c.FLEX_CENTER_LAT, Lon |-> c.FLEX_CENTER_LON]

\* The formula makes NaN of every NaN, and exactly 0 of equal places.
DistanceKM(a, b) ==
    IF NaN \in {a.Lat, a.Lon, b.Lat, b.Lon} THEN NaN
    ELSE IF a = b THEN 0 ELSE Haversine(a, b)

InCircle(p) == AtMost(DistanceKM(Center(cfg), p), cfg.FLEX_RADIUS_KM)

Within(v) == InCircle(v.Position)

\* config.Load, at the start of the process.
Load(e) ==
    /\ env = e
    /\ cfg = Settings(e)
    /\ errs = LoadErrors(e)

Init ==
    /\ \E e \in Env : Load(e)
    /\ response = Failed
    /\ outcome = "none"
    /\ inFence = << >>
    /\ inBBox = 0
    /\ skipped = 0

\* A refused configuration ends the process.  The operator takes back what the
\* error names, and the program is started again.
Corrected == [v \in Variables |-> IF v \in errs THEN Unset ELSE env[v]]

Correct ==
    /\ errs # {}
    /\ env' = Corrected
    /\ cfg' = Settings(Corrected)
    /\ errs' = LoadErrors(Corrected)
    /\ UNCHANGED poll

Poll(r) ==
    /\ errs = {}
    /\ outcome = "none"
    /\ response' = r
    /\ \E av \in FreeFloatingAvailability(r) :
          IF av.kind = "good"
          THEN /\ outcome' = "good"
               /\ inFence' = [i \in {j \in DOMAIN av.Vehicles : Within(av.Vehicles[j])} |->
                                av.Vehicles[i]]
               /\ inBBox' = Cardinality(DOMAIN av.Vehicles)
               /\ skipped' = av.Skipped
          ELSE /\ outcome' = errorKind(av)
               /\ UNCHANGED <<inFence, inBBox, skipped>>
    /\ UNCHANGED <<env, cfg, errs>>

\* The next poll starts from nothing.
Forget ==
    /\ outcome # "none"
    /\ response' = Failed
    /\ outcome' = "none"
    /\ inFence' = << >>
    /\ inBBox' = 0
    /\ skipped' = 0
    /\ UNCHANGED <<env, cfg, errs>>

Next == Correct \/ Forget \/ \E r \in Response : Poll(r)

Spec == Init /\ [][Next]_vars

-----------------------------------------------------------------------------
(* A reading of the answer that knows nothing of the decoder: which values *)
(* a field of an object has under any of its names.                        *)

Values(v, keys) ==
    IF v.kind # "object" THEN {}
    ELSE {f.value : f \in {g \in v.fields : g.name \in ToSet(keys) /\ g.value.kind # "null"}}

\* There is one value at most.
Sole(S) == \A v, w \in S : v = w

\* No two fields differ by the casing of their names only.
NoTwins(v) == v.kind = "object" => \A f, g \in v.fields : f.name = g.name => f = g

\* A vehicle that can be read in one way only.
Plain(item) ==
    /\ NoTwins(item)
    /\ \A keys \in {idKeys, latKeys, lonKeys, nestedPosKey} : Sole(Values(item, keys))
    /\ \A n \in Values(item, nestedPosKey) :
          /\ NoTwins(n)
          /\ \A keys \in {latKeys, lonKeys} :
                Sole(Values(n, keys)) /\ (Values(n, keys) # {} => Values(item, keys) = {})

\* A vehicle may be read as having this identifier, and as being at these places.
Named(item, id) == \E v \in Values(item, idKeys) : decodeString(v) = id

HasID(item) == \E v \in Values(item, idKeys) : decodeString(v) # ""

Point(lat, lon) == [Lat |-> decodeFloat(lat), Lon |-> decodeFloat(lon)]

Places(item) ==
    UNION {{Point(lat, lon) : lat \in Values(o, latKeys), lon \in Values(o, lonKeys)} :
             o \in {item} \cup Values(item, nestedPosKey)}

\* Two coordinates that a vehicle may have, and those that are a place indeed.
Acceptable(p) ==
    /\ NoFloat \notin {p.Lat, p.Lon}
    /\ ~Below(p.Lat, -90) /\ ~Below(90, p.Lat) /\ ~Below(p.Lon, -180) /\ ~Below(180, p.Lon)
    /\ p # [Lat |-> 0, Lon |-> 0]

OnEarth(p) == Acceptable(p) /\ NaN \notin {p.Lat, p.Lon}

\* What the answer has under the known names of the list of vehicles.
Fleet == IF response.kind = "body" THEN Values(response.json, vehiclesKeys) ELSE {}

\* The items of those lists.
Items == UNION {ToSet(l.items) : l \in {v \in Fleet : v.kind = "list"}}

\* Every list in the root of the answer.
RootLists == ListsIn(response)

-----------------------------------------------------------------------------

\* Tolerance, from the environment to the fence: under a configuration that
\* Load accepts, a vehicle within the circle is found, and the poll is a good
\* one, whatever the names, the casing and the nesting of its fields, whatever
\* the other vehicles look like and whatever else is in the answer, as long as
\* the list has one of the known names and no field, of the answer or of the
\* vehicle, has a twin (validate, lookup, decodeVehicle, Poll).
EveryVehicleFound ==
    outcome # "none" /\ Sole(Fleet) /\ (response.kind = "body" => NoTwins(response.json)) =>
        \A item \in Items :
            Plain(item) /\ HasID(item) =>
                \A p \in Places(item) :
                    OnEarth(p) /\ InCircle(p) =>
                        \E i \in DOMAIN inFence :
                            inFence[i].Position = p /\ Named(item, inFence[i].ID)

\* Strictness: what is in the fence has an identifier and is at a place within
\* the circle, never a placeholder, even around a centre at (0, 0), and never a
\* NaN, which the decoder lets pass; and some item of the answer says so
\* (buildPoint, decodeVehicle, Poll).
NothingInvented ==
    \A i \in DOMAIN inFence :
        /\ inFence[i].ID # ""
        /\ OnEarth(inFence[i].Position) /\ InCircle(inFence[i].Position)
        /\ \E l \in RootLists : \E item \in ToSet(l.items) :
              Named(item, inFence[i].ID) /\ inFence[i].Position \in Places(item)

\* A list of vehicles that nobody can read is no empty circle: an answer counts
\* as good with no vehicle at all only if some list of it is empty (the check at
\* the end of parseAvailability).
EmptyIsSaid ==
    outcome = "good" /\ inBBox = 0 => \E l \in RootLists : l.items = << >>

\* An item that has no identifier, or no acceptable position, in any reading.
Unusable(item) == ~HasID(item) \/ \A p \in Places(item) : ~Acceptable(p)

\* A drift of the vehicles is told from a failure of the network: when there is
\* one list only, under a known name and next to nothing else under such a name,
\* and it has items but not one of them is usable, the kind is "schema", even if
\* a null with another casing hides the list (errorKind).
DriftIsSchema ==
    Items # {} /\ Sole(RootLists) /\ (\A v \in Fleet : v.kind = "list")
      /\ (\A item \in Items : Unusable(item))
        => outcome \in {"none", "schema"}

\* No setting is silently replaced: the configuration of a program that runs
\* holds what the environment says, or the default where it says nothing, and
\* it is one the loop can live with (the assumptions of Runner and Detector).
AcceptedIsMeant ==
    errs = {} =>
        /\ \A v \in Variables :
              \/ env[v] = Unset /\ cfg[v] = Defaults[v]
              \/ env[v].kind = "value" /\ cfg[v] = Trimmed(v, env[v].value)
        /\ cfg.FLEX_HTTP_TIMEOUT \in 1..cfg.FLEX_POLL_INTERVAL
        /\ cfg.FLEX_REALERT_AFTER \in Nat

\* Load shows all faults of a configuration at once: whoever takes back what
\* its error names needs no second attempt, although a value that cannot be
\* read counts as 0 in the rules about the others (Load, validate).
OneCorrection == [][Correct => errs' = {}]_vars

-----------------------------------------------------------------------------
(* What a comment says.                                                    *)

\* The message of validate: the radius of a program that runs is in ]0, 50].
RadiusInRange ==
    errs = {} => Below(0, cfg.FLEX_RADIUS_KM) /\ AtMost(cfg.FLEX_RADIUS_KM, 500)
=============================================================================
