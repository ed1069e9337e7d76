------------------------------- MODULE Decode -------------------------------
(***************************************************************************)
(* internal/communauto/decode.go: the tolerant decoder of the API's        *)
(* answer.                                                                 *)
(*                                                                         *)
(* A JSON value is a record with a kind.  A scalar carries the text        *)
(* decodeString makes of it and the number decodeFloat makes of it.  An    *)
(* object is a set of fields: a lowercased name, the spelling it has in    *)
(* the answer, a value.  Go ranges over a map in any order, so the         *)
(* operators return the sets of the results the code may come to.          *)
(*                                                                         *)
(* Of a vehicle only what decides about it is kept, its identifier and its *)
(* position; number, model, energy, propulsion and the announced total are *)
(* never a reason to accept or to refuse anything.                         *)
(***************************************************************************)
EXTENDS Floats, Sequences, FiniteSets, SequencesExt, FiniteSetsExt

vehiclesKeys == <<"vehicles", "vehicleslist", "vehiclelist", "freefloatingvehicles",
                  "availablevehicles", "cars", "carlist">>
idKeys       == <<"vehicleid", "carid", "id", "carno">>
latKeys      == <<"latitude", "lat">>
lonKeys      == <<"longitude", "lon", "lng", "long">>
nestedPosKey == <<"vehiclelocation", "position", "location", "coordinates",
                  "geoposition", "geo">>

\* Numbers are in whole degrees; NoFloat is what is not a number at all.
NoFloat == 1001

Null == [kind |-> "null"]
Scalar(kind, text, float) == [kind |-> kind, text |-> text, float |-> float]
List(items) == [kind |-> "list", items |-> items]
Object(fields) == [kind |-> "object", fields |-> fields]
Field(name, value) == [name |-> name, spelling |-> name, value |-> value]

Missing == [kind |-> "missing"]

-----------------------------------------------------------------------------

\* The maps normalizeObject may return: of two spellings of a name, either
\* survives.  There is none when the value is not an object.
normalizeObject(v) ==
    IF v.kind = "null" THEN {[n \in {} |-> Missing]}
    ELSE IF v.kind # "object" THEN {}
    ELSE LET names == {f.name : f \in v.fields}
             values == {f.value : f \in v.fields}
         IN  {o \in [names -> values] :
                \A n \in names : \E f \in v.fields : f.name = n /\ f.value = o[n]}

\* Mutant: a null hides the candidates that come after it.
lookupFirst(o, keys) ==
    LET hits == {i \in DOMAIN keys : keys[i] \in DOMAIN o}
    IN  IF hits = {} \/ o[keys[Min(hits)]].kind = "null" THEN Missing
        ELSE o[keys[Min(hits)]]

\* The value of the first candidate key that is there and is not null.
lookup(o, keys) ==
    LET hits == {i \in DOMAIN keys : keys[i] \in DOMAIN o /\ o[keys[i]].kind # "null"}
    IN  IF hits = {} THEN Missing ELSE o[keys[Min(hits)]]

decodeString(v) == IF v.kind \in {"string", "number"} THEN v.text ELSE ""

decodeFloat(v) == IF v.kind \in {"string", "number"} THEN v.float ELSE NoFloat

Nowhere == [Lat |-> NoFloat, Lon |-> NoFloat]

\* Mutant: the placeholder (0, 0) is taken for a position.
buildPointZero(lat, lon) ==
    IF \/ lat = NoFloat \/ lon = NoFloat
       \/ Below(lat, -90) \/ Below(90, lat) \/ Below(lon, -180) \/ Below(180, lon)
    THEN Nowhere
    ELSE [Lat |-> lat, Lon |-> lon]

\* Nowhere stands for an error.
buildPoint(lat, lon) ==
    IF \/ lat = NoFloat \/ lon = NoFloat
       \/ Below(lat, -90) \/ Below(90, lat) \/ Below(lon, -180) \/ Below(180, lon)
       \/ lat = 0 /\ lon = 0
    THEN Nowhere
    ELSE [Lat |-> lat, Lon |-> lon]

PointOf(o) ==
    buildPoint(decodeFloat(lookup(o, latKeys)), decodeFloat(lookup(o, lonKeys)))

HasPoint(o) ==
    lookup(o, latKeys).kind # "missing" /\ lookup(o, lonKeys).kind # "missing"

\* Flat coordinates win, even when they are unreadable.  The point of a nested
\* object that lacks one is Nowhere, and of two spellings of a coordinate the one
\* that survives may be a null.
decodePosition(o) ==
    LET nested == normalizeObject(lookup(o, nestedPosKey))
    IN  IF HasPoint(o) THEN {PointOf(o)}
        ELSE IF nested = {} THEN {Nowhere}
        ELSE {PointOf(n) : n \in nested}

Refused == [ID |-> "", Position |-> Nowhere]

\* Refused stands for an error.
decodeVehicle(item) ==
    LET Of(o) == {IF decodeString(lookup(o, idKeys)) = "" \/ p = Nowhere THEN Refused
                  ELSE [ID |-> decodeString(lookup(o, idKeys)), Position |-> p] :
                  p \in decodePosition(o)}
    IN  IF normalizeObject(item) = {} THEN {Refused}
        ELSE UNION {Of(o) : o \in normalizeObject(item)}

\* Any list of the root object, when no candidate key leads to one.
firstArray(o) ==
    IF \E n \in DOMAIN o : o[n].kind = "list"
    THEN {o[n] : n \in {m \in DOMAIN o : o[m].kind = "list"}}
    ELSE {Missing}

Good(vehicles, skipped) == [kind |-> "good", Vehicles |-> vehicles, Skipped |-> skipped]

\* An error that wraps ErrSchemaDrift, and one that wraps nothing.
Drift == [kind |-> "drift"]
Unreadable == [kind |-> "unreadable"]

\* The ways to decode a sequence of items, one by one.
Decoded(items) ==
    {r \in [DOMAIN items -> UNION {decodeVehicle(items[i]) : i \in DOMAIN items}] :
        \A i \in DOMAIN items : r[i] \in decodeVehicle(items[i])}

\* The usable vehicles among the decoded ones, by their place in the list.
Usable(r) == [i \in {j \in DOMAIN r : r[j] # Refused} |-> r[i]]

\* Mutant: a list without a single usable vehicle is an empty list.
FromListLenient(raw) ==
    IF raw.kind = "missing" THEN {Drift}
    ELSE IF raw.kind # "list" THEN {Unreadable}
    ELSE {Good(Usable(r), Len(raw.items) - Cardinality(DOMAIN Usable(r))) : r \in Decoded(raw.items)}

FromList(raw) ==
    IF raw.kind = "missing" THEN {Drift}
    ELSE IF raw.kind # "list" THEN {Unreadable}
    ELSE {IF raw.items # << >> /\ DOMAIN Usable(r) = {} THEN Drift
          ELSE Good(Usable(r), Len(raw.items) - Cardinality(DOMAIN Usable(r))) :
          r \in Decoded(raw.items)}

\* The list of vehicles in the root object: under a candidate key, or any.
ListOf(o) ==
    IF lookup(o, vehiclesKeys).kind # "missing" THEN {lookup(o, vehiclesKeys)}
    ELSE firstArray(o)

parseAvailability(body) ==
    IF normalizeObject(body) = {} THEN {Unreadable}
    ELSE UNION {UNION {FromList(raw) : raw \in ListOf(o)} : o \in normalizeObject(body)}
=============================================================================
