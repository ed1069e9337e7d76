--------------------------- MODULE MCPollContent ---------------------------
(***************************************************************************)
(* For TLC: the environments with one or two settings; and the answers,    *)
(* one vehicle in every form the API has used or may come to use, two      *)
(* vehicles of which one may be unnamed, and the forms of the root object.  *)
(***************************************************************************)
EXTENDS PollContent

Num(n) == Scalar("number", ToString(n), n)
Quoted(n) == Scalar("string", ToString(n), n)
Text(t) == Scalar("string", t, IF t = "NaN" THEN NaN ELSE NoFloat)

\* Of the places below: those that are one in spite of their coordinates, at a
\* pole or on the antimeridian, and all others, farther apart than any radius.
MCHaversine(a, b) ==
    IF a.Lat = b.Lat /\ (a.Lat \in {-90, 90} \/ (a.Lon - b.Lon) % 360 = 0) THEN 0 ELSE 1110

\* Raw values on both sides of every rule, by variable.
Raw ==
    [FLEX_CITY_ID |-> {Junk, Val(0)},
     FLEX_CENTER_LAT |-> {Junk, Val(-91), Val(0), Val(90), Val(91)},
     FLEX_CENTER_LON |-> {Junk, Val(-181), Val(0), Val(180), Val(181)},
     FLEX_RADIUS_KM |-> {Junk, Val(0), Val(1), Val(500), Val(501)},
     FLEX_POLL_INTERVAL |-> {Junk, Val(-20), Val(9), Val(10), Val(12)},
     FLEX_HTTP_TIMEOUT |-> {Junk, Val(0), Val(1), Val(12), Val(15), Val(21)},
     FLEX_REALERT_AFTER |-> {Junk, Val(-1), Val(0)},
     FLEX_LOG_LEVEL |-> {Junk, Val(8)},
     FLEX_STORE_ENABLED |-> {Junk, Val(TRUE)},
     FLEX_USER_AGENT |-> {Val("somebody")},
     FLEX_API_BASE_URL |-> {Val(URL("http", "api")), Val(URL("http", "localhost"))},
     TELEGRAM_API_BASE_URL |-> {Val(URL("ftp", "localhost")), Val(URL("https", ""))},
     TELEGRAM_TOKEN |-> {Val("token"), Val("blank")},
     TELEGRAM_CHAT_ID |-> {Val("chat"), Val("blank")},
     DATABASE_URL |-> {Val("postgres"), Val("blank")}]

With(e, v, x) == [e EXCEPT ![v] = x]

Default == [v \in Variables |-> Unset]

\* The variables whose rules are about each other, or which make one circle.
Related == {{"FLEX_POLL_INTERVAL", "FLEX_HTTP_TIMEOUT"}, {"FLEX_CENTER_LAT", "FLEX_CENTER_LON"},
            {"FLEX_STORE_ENABLED", "DATABASE_URL"}, {"TELEGRAM_TOKEN", "TELEGRAM_CHAT_ID"},
            {"FLEX_POLL_INTERVAL", "FLEX_REALERT_AFTER"}, {"FLEX_RADIUS_KM", "TELEGRAM_TOKEN"}}

MCEnv ==
    {Default} \cup UNION {{With(Default, v, x) : x \in Raw[v]} : v \in Variables}
        \cup UNION {UNION {{With(With(Default, v, x), w, y) : x \in Raw[v], y \in Raw[w]} :
                             v \in r, w \in r} : r \in Related}

\* A radius that reads as a number and is none.
NaNEnv == {With(Default, "FLEX_RADIUS_KM", Val(NaN)), Default}

Upper(f) == [f EXCEPT !.spelling = "upper"]

IDs == {{}} \cup {{Field("vehicleid", v)} : v \in {Null, Text(""), Text("A"), Num(7), List(<< >>)}}
            \cup {{Upper(Field("carno", Num(7)))},
                  {Field("vehicleid", Null), Field("id", Text("A"))},
                  {Field("id", Text("A")), Upper(Field("id", Text("B")))},
                  {Field("id", Text("A")), Upper(Field("id", Null))}}

Lats == {Num(45), Quoted(45), Num(46), Num(90), Num(91), Num(0), Text("NaN"), Text("north"), Null}

Flat == {{Field("lat", v), Field("lng", w)} : v \in Lats, w \in {Num(-73), Num(0), Num(-180), Null}}

Nested == {{Field(k, Object({Field("latitude", v), Field("longitude", Num(-73))}))} :
              k \in {"vehiclelocation", "geo"}, v \in Lats}

Positions == {{}} \cup Flat \cup Nested
                \cup {{Field("lat", v), Field("lon", Num(-73)),
                       Field("position", Object({Field("lat", Num(45)), Field("lon", Num(-73))}))} :
                         v \in {Null, Num(91)}}
                \cup {{Field("geo", Object({Field("lat", Num(45)), Upper(Field("lat", v)),
                                           Field("lon", Num(-73))}))} : v \in {Null, Num(46)}}

MCItems == {Object(i \cup p) : i \in IDs, p \in Positions} \cup {Null, Num(3), List(<< >>)}

Car(id) == Object({Field("id", Text(id)), Field("lat", Num(45)), Field("lon", Num(-73))})
Unnamed == Object({Field("lat", Num(45)), Field("lon", Num(-73))})
Spare(id) == Object({Field("vehicleid", Null), Field("id", Text(id)),
                     Field("lat", Null), Field("latitude", Num(45)), Field("long", Num(-73))})

Fleets == {<< >>, <<Car("A")>>, <<Unnamed>>, <<Car("A"), Car("B")>>, <<Car("A"), Unnamed>>, <<Car("A"), Spare("B")>>,
           <<Unnamed, Unnamed>>, <<Car("A"), Car("A")>>}

Roots(l) ==
    {Object({Field("vehicles", List(l))}),
     Object({Upper(Field("carlist", List(l)))}),
     Object({Field("vehicles", Null), Field("cars", List(l))}),
     Object({Field("fleet", List(l)), Field("total", Num(2))}),
     Object({Field("vehicles", List(l)), Upper(Field("vehicles", Num(3)))}),
     Object({Field("vehicles", List(l)), Upper(Field("vehicles", Null)), Field("total", Num(2))}),
     Object({Field("vehicles", Num(3)), Field("cars", List(l))}),
     Object({Field("vehicles", List(l)), Field("warnings", List(<< >>))})}

Bodies ==
    {Object({Field("vehicles", List(<<i>>))}) : i \in MCItems}
        \cup UNION {Roots(l) : l \in Fleets}
        \cup {Object({}), Null, List(<<Car("A")>>), Object({Field("total", Num(2))})}

MCResponse == {Body(b) : b \in Bodies} \cup {Failed, Status}

\* The list has got a new name, next to another one.
Renamed ==
    {Body(Object({Field("fleet", List(<<Car("A")>>)), Field("warnings", List(l))})) :
        l \in Fleets \ {<<Unnamed>>, <<Unnamed, Unnamed>>}}
=============================================================================
