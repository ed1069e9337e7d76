------------------------------- MODULE Config -------------------------------
(***************************************************************************)
(* internal/config/config.go: Load, as a function of the environment.      *)
(*                                                                         *)
(* The environment gives every variable a raw value: unset (or empty, the  *)
(* same to the program), a text its parser refuses, or a value.            *)
(* Angles are in whole degrees, the radius in units of 100 m, durations in *)
(* seconds.  The fields of Config go by the names of their variables; a    *)
(* base URL is a scheme and a host.  FLEX_METRICS_ADDR is left out: any    *)
(* text is good.                                                           *)
(***************************************************************************)
EXTENDS Floats

Unset == [kind |-> "unset"]
Junk == [kind |-> "junk"]
Val(x) == [kind |-> "value", value |-> x]

URL(scheme, host) == [scheme |-> scheme, host |-> host]

Defaults ==
    [FLEX_CITY_ID |-> 59, FLEX_CENTER_LAT |-> 45, FLEX_CENTER_LON |-> -73,
     FLEX_RADIUS_KM |-> 15, FLEX_POLL_INTERVAL |-> 20, FLEX_HTTP_TIMEOUT |-> 10,
     FLEX_REALERT_AFTER |-> 600, FLEX_LOG_LEVEL |-> 0, FLEX_STORE_ENABLED |-> FALSE,
     FLEX_USER_AGENT |-> "flexwatch", FLEX_API_BASE_URL |-> URL("https", "api"),
     TELEGRAM_API_BASE_URL |-> URL("https", "telegram"),
     TELEGRAM_TOKEN |-> "", TELEGRAM_CHAT_ID |-> "", DATABASE_URL |-> ""]

Variables == DOMAIN Defaults

\* What a parser returns besides its error.
Zero == [v \in Variables |-> IF v = "FLEX_STORE_ENABLED" THEN FALSE ELSE 0]

\* strings.TrimSpace of the two secrets; "blank" is white space.
Trimmed(v, x) ==
    IF v \in {"TELEGRAM_TOKEN", "TELEGRAM_CHAT_ID"} /\ x = "blank" THEN "" ELSE x

\* envString, envInt, envFloat, envDuration, envBool, envLogLevel.
Parsed(env, v) ==
    IF env[v] = Unset THEN Defaults[v]
    ELSE IF env[v] = Junk THEN Zero[v]
    ELSE Trimmed(v, env[v].value)

Settings(env) == [v \in Variables |-> Parsed(env, v)]

-----------------------------------------------------------------------------

MinPollInterval == 10

\* Plain http is for the local machine only.
validateBaseURL(u) ==
    /\ u.host # ""
    /\ u.scheme = "https" \/ (u.scheme = "http" /\ u.host = "localhost")

HalfASecret(c) == (c.TELEGRAM_TOKEN = "") # (c.TELEGRAM_CHAT_ID = "")

NoDatabase(c) == c.FLEX_STORE_ENABLED /\ c.DATABASE_URL = ""

\* The rule that is broken, by the variable its message names.
Broken(c) ==
    [FLEX_CENTER_LAT |-> Below(c.FLEX_CENTER_LAT, -90) \/ Below(90, c.FLEX_CENTER_LAT),
     FLEX_CENTER_LON |-> Below(c.FLEX_CENTER_LON, -180) \/ Below(180, c.FLEX_CENTER_LON),
     FLEX_RADIUS_KM |-> AtMost(c.FLEX_RADIUS_KM, 0) \/ Below(500, c.FLEX_RADIUS_KM),
     FLEX_POLL_INTERVAL |-> c.FLEX_POLL_INTERVAL < MinPollInterval,
     FLEX_HTTP_TIMEOUT |->
        c.FLEX_HTTP_TIMEOUT <= 0 \/ c.FLEX_HTTP_TIMEOUT > c.FLEX_POLL_INTERVAL,
     FLEX_REALERT_AFTER |-> c.FLEX_REALERT_AFTER < 0,
     FLEX_USER_AGENT |-> c.FLEX_USER_AGENT = "",
     FLEX_API_BASE_URL |-> ~validateBaseURL(c.FLEX_API_BASE_URL),
     TELEGRAM_API_BASE_URL |-> ~validateBaseURL(c.TELEGRAM_API_BASE_URL),
     TELEGRAM_TOKEN |-> HalfASecret(c), TELEGRAM_CHAT_ID |-> HalfASecret(c),
     FLEX_STORE_ENABLED |-> NoDatabase(c), DATABASE_URL |-> NoDatabase(c)]

\* Mutant: validate returns at the first broken rule.
validateFirst(c) ==
    LET all == {v \in DOMAIN Broken(c) : Broken(c)[v]}
    IN  IF all = {} THEN {} ELSE {CHOOSE v \in all : TRUE}

validate(c) == {v \in DOMAIN Broken(c) : Broken(c)[v]}

\* Mutant: the error of one parser is dropped.
ParseErrorsSome(env) == {v \in Variables \ {"FLEX_REALERT_AFTER"} : env[v] = Junk}

ParseErrors(env) == {v \in Variables : env[v] = Junk}

\* The variables named in the error of Load; none when it accepts.
LoadErrors(env) == ParseErrors(env) \cup validate(Settings(env))
=============================================================================
