------------------------------- MODULE Config ------------------------------
(***************************************************************************)
(* The configuration of config.c: defaults, then the LINKSTAY_* variables  *)
(* in the order of ENV_SPECS, then the cross-checks of validate.           *)
(*                                                                         *)
(* The text of a numeric variable is a record: digit says whether it       *)
(* starts with a digit, n is the number that its digits spell (of any      *)
(* size) and suffix is what follows them.  Words are taken up to case, as  *)
(* strcasecmp does.  An applier yields the set of values it accepts for a  *)
(* text: one, or none when it rejects the text.                            *)
(***************************************************************************)
EXTENDS Base, Sequences

CONSTANTS
  INT_MAX, MS_PER_SEC,
  Numbers,    \* texts of the numeric variables
  Targets,    \* texts of LINKSTAY_TARGET
  DEFAULT_INTERVAL_MS, DEFAULT_FAIL_THRESHOLD, DEFAULT_TIMEOUT_MS,
  DEFAULT_START_DELAY_MS,
  MaxUptime   \* largest reading of the clock, in milliseconds

Number == [digit : BOOLEAN, n : Nat, suffix : {"", "s", "ms", "other"}]
Target == {"empty", "ipv4", "ipv6", "hostname", "too long"}
Level  == {"silent", "error", "warn", "info", "debug"}

ASSUME WidthAssumption ==
  /\ INT_MAX \in Nat \ {0} /\ MS_PER_SEC \in Nat \ {0}
  /\ INT_MAX * MS_PER_SEC <= UINT64_MAX
  /\ MaxUptime \in Nat /\ MaxUptime + INT_MAX * MS_PER_SEC + INT_MAX < UINT64_MAX
  /\ Numbers \subseteq Number /\ Targets \subseteq Target

ASSUME DefaultsAssumption ==
  /\ DEFAULT_INTERVAL_MS \in 1 .. INT_MAX * MS_PER_SEC
  /\ DEFAULT_FAIL_THRESHOLD \in 1 .. INT_MAX
  /\ DEFAULT_TIMEOUT_MS \in 1 .. INT_MAX
  /\ DEFAULT_START_DELAY_MS \in 0 .. INT_MAX

VARIABLES
  config,    \* the ls_config_t being resolved
  i,         \* the entry of ENV_SPECS that is next
  env,       \* the variables read so far and their texts
  runtime,   \* systemctl and /run/systemd/system are there
  outcome    \* "loading", "resolved" or "rejected"

vars == <<config, i, env, runtime, outcome>>

ls_config_t == [target : Target \ {"too long"}, interval_ms : Uint64,
                fail_threshold : 1 .. INT_MAX, timeout_ms : Uint64,
                start_delay_ms : Uint64, poweroff : BOOLEAN, log_level : Level]

apply_string(text) == {text} \ {"too long"}

\* strtoull on a text of unsigned shape: the value, unless it is out of range.
strtoull(text) == {n \in {text.n} : text.digit /\ n <= UINT64_MAX}

\* Mutant: the largest value is rejected.
apply_positive_int_below(text) ==
  {n \in strtoull(text) : text.suffix = "" /\ n >= 1 /\ n < INT_MAX}

apply_positive_int(text) ==
  {n \in strtoull(text) : text.suffix = "" /\ n >= 1 /\ n <= INT_MAX}

apply_bool(text) == {b \in BOOLEAN : text = IF b THEN "true" ELSE "false"}

\* The product in uint64_t, and whether it overflowed.
ckd_mul(a, b) == [result |-> (a * b) % (UINT64_MAX + 1),
                  overflow |-> a * b > UINT64_MAX]

unit_ms == [s |-> MS_PER_SEC, ms |-> 1]

\* Mutant: the overflow of the conversion is not checked.
apply_duration_wraps(text, allow_zero, max_ms) ==
  {ms \in {ckd_mul(n, unit_ms[text.suffix]).result :
             n \in {k \in strtoull(text) : text.suffix \in {"s", "ms"}}} :
     (ms = 0 => allow_zero) /\ ms <= max_ms}

apply_duration(text, allow_zero, max_ms) ==
  LET parsed == {n \in strtoull(text) : (n = 0 => allow_zero)
                                        /\ text.suffix \in {"s", "ms"}}
      product(n) == ckd_mul(n, unit_ms[text.suffix])
  IN  {ms \in {product(n).result : n \in {k \in parsed : ~product(k).overflow}} :
         (ms = 0 => allow_zero) /\ ms <= max_ms}

apply_log_level(text) == {text} \cap Level

load_defaults ==
  [target |-> "ipv4", interval_ms |-> DEFAULT_INTERVAL_MS,
   fail_threshold |-> DEFAULT_FAIL_THRESHOLD, timeout_ms |-> DEFAULT_TIMEOUT_MS,
   start_delay_ms |-> DEFAULT_START_DELAY_MS, poweroff |-> FALSE,
   log_level |-> "info"]

\* The field of ls_config_t that each entry of the table sets.
ENV_SPECS == <<"target", "interval_ms", "fail_threshold", "timeout_ms",
               "start_delay_ms", "poweroff", "log_level">>

\* The typed adapters.
apply(field, text) ==
  CASE field = "target" -> apply_string(text)
    [] field = "interval_ms" -> apply_duration(text, FALSE, INT_MAX * MS_PER_SEC)
    [] field = "fail_threshold" -> apply_positive_int(text)
    [] field = "timeout_ms" -> apply_duration(text, FALSE, INT_MAX)
    [] field = "start_delay_ms" -> apply_duration(text, TRUE, INT_MAX)
    [] field = "poweroff" -> apply_bool(text)
    [] field = "log_level" -> apply_log_level(text)

Texts(field) == CASE field = "target" -> Targets
                  [] field = "poweroff" -> {"true", "false", "other"}
                  [] field = "log_level" -> Level \cup {"other"}
                  [] OTHER -> Numbers

\* inet_pton takes the text, for IPv4 or for IPv6.
ls_addr_is_literal(text) == text \in {"ipv4", "ipv6"}

\* Mutant: a timeout equal to the interval is accepted.
validate_equal ==
  /\ ls_addr_is_literal(config.target)
  /\ ~(config.timeout_ms > config.interval_ms)
  /\ config.poweroff => runtime

validate ==
  /\ config.target # "empty"
  /\ ls_addr_is_literal(config.target)
  /\ ~(config.timeout_ms >= config.interval_ms)
  /\ config.poweroff => runtime

\* Mutant: fractions of a second are cut off.
ls_format_duration_cut(ms) ==
  IF ms >= MS_PER_SEC
  THEN [digit |-> TRUE, n |-> ms \div MS_PER_SEC, suffix |-> "s"]
  ELSE [digit |-> TRUE, n |-> ms, suffix |-> "ms"]

\* The text of a duration: whole seconds when it is some, else milliseconds.
ls_format_duration(ms) ==
  IF ms >= MS_PER_SEC /\ ms % MS_PER_SEC = 0
  THEN [digit |-> TRUE, n |-> ms \div MS_PER_SEC, suffix |-> "s"]
  ELSE [digit |-> TRUE, n |-> ms, suffix |-> "ms"]

\* The time to detect an outage that the startup banner shows.
detection_ms(c) == ls_mul_sat(c.fail_threshold, c.interval_ms)

\* The durations in the startup banner.  The first probe is shown as "immediate"
\* when there is no delay, else with the text of the delay.
log_startup(c) ==
  [interval |-> ls_format_duration(c.interval_ms),
   timeout |-> ls_format_duration(c.timeout_ms),
   detection |-> ls_format_duration(detection_ms(c)),
   first_probe |-> IF c.start_delay_ms = 0 THEN {}
                   ELSE {ls_format_duration(c.start_delay_ms)}]
-----------------------------------------------------------------------------
Init == /\ config = load_defaults
        /\ i = 1
        /\ env = [field \in {} |-> ""]
        /\ runtime \in BOOLEAN
        /\ outcome = "loading"

\* load_env, one entry of the table: unset, accepted or rejected.
load_env ==
  /\ outcome = "loading"
  /\ i <= Len(ENV_SPECS)
  /\ i' = i + 1
  /\ \/ UNCHANGED <<config, env, outcome>>
     \/ \E text \in Texts(ENV_SPECS[i]) :
          LET field == ENV_SPECS[i]
              values == apply(field, text)
          IN  /\ env' = [f \in DOMAIN env \cup {field} |->
                           IF f = field THEN text ELSE env[f]]
              /\ \/ /\ values = {}
                    /\ outcome' = "rejected"
                    /\ UNCHANGED config
                 \/ \E v \in values : /\ config' = [config EXCEPT ![field] = v]
                                      /\ UNCHANGED outcome
  /\ UNCHANGED runtime

ls_config_resolve ==
  /\ outcome = "loading"
  /\ i > Len(ENV_SPECS)
  /\ outcome' = IF validate THEN "resolved" ELSE "rejected"
  /\ UNCHANGED <<config, i, env, runtime>>

Next == load_env \/ ls_config_resolve

Spec == Init /\ [][Next]_vars
-----------------------------------------------------------------------------
Fields == {ENV_SPECS[k] : k \in 1 .. Len(ENV_SPECS)}
Durations == {"interval_ms", "timeout_ms", "start_delay_ms"}

\* Every variable has its type; what config.c has accepted so far always fits
\* its field.
TypeOK ==
  /\ config \in ls_config_t
  /\ i \in 1 .. Len(ENV_SPECS) + 1
  /\ DOMAIN env \subseteq Fields
  /\ \A field \in DOMAIN env : env[field] \in Texts(field)
  /\ runtime \in BOOLEAN
  /\ outcome \in {"loading", "resolved", "rejected"}

\* The documented meaning of a text: the field's value v, in exact arithmetic.
Denotes(field, text, v) ==
  CASE field \in Durations -> /\ text.digit
                             /\ \/ text.suffix = "s" /\ v = text.n * MS_PER_SEC
                                \/ text.suffix = "ms" /\ v = text.n
    [] field = "fail_threshold" -> text.digit /\ text.suffix = "" /\ v = text.n
    [] field = "poweroff" -> text = (IF v THEN "true" ELSE "false")
    [] OTHER -> v = text

\* The documented values of a field.
Allowed(field) ==
  CASE field = "target" -> Target \ {"too long"}
    [] field = "interval_ms" -> 1 .. INT_MAX * MS_PER_SEC
    [] field = "fail_threshold" -> 1 .. INT_MAX
    [] field = "timeout_ms" -> 1 .. INT_MAX
    [] field = "start_delay_ms" -> 0 .. INT_MAX
    [] field = "poweroff" -> BOOLEAN
    [] field = "log_level" -> Level

\* A resolved configuration says what the environment spells, to the
\* millisecond, and the defaults for the rest (load_env, apply_duration): no
\* conversion wraps around into the accepted range.
AcceptedAsMeant ==
  outcome = "resolved" =>
    \A field \in Fields :
      IF field \in DOMAIN env
      THEN config[field] \in Allowed(field)
           /\ Denotes(field, env[field], config[field])
      ELSE config[field] = load_defaults[field]

\* Only a bad configuration is rejected (load_env, validate): some variable
\* denotes no allowed value, or all do and together they break a cross-check.
OnlyBadRejected ==
  outcome = "rejected" =>
    \/ \E field \in DOMAIN env :
         \A v \in Allowed(field) : ~Denotes(field, env[field], v)
    \/ /\ i > Len(ENV_SPECS)
       /\ \/ config.target \notin {"ipv4", "ipv6"}
          \/ config.timeout_ms >= config.interval_ms
          \/ config.poweroff /\ ~runtime

\* A resolved configuration is one the monitor is correct for: probes end
\* before the next one is due, the threshold is positive, and no deadline of a
\* probe saturates into a disarmed timer (UINT64_MAX, loop.h), not even one that
\* is a period after the start delay.
SafeForMonitor ==
  outcome = "resolved" =>
    /\ config.timeout_ms \in 1 .. config.interval_ms - 1
    /\ config.fail_threshold \in 1 .. INT_MAX
    /\ \A now \in 0 .. MaxUptime :
         LET due == ls_add_sat(now, config.start_delay_ms)
             next == ls_add_sat(due, config.interval_ms)
         IN  /\ next = now + config.start_delay_ms + config.interval_ms
             /\ next < UINT64_MAX

\* The startup banner (log_startup) is true.  config.c would read each of its
\* texts back as the value in force, and "immediate" is shown for the delay 0
\* alone.  The detection time is no shorter than what an outage takes at least,
\* threshold - 1 periods and a timeout, unless uint64_t cannot hold it.
BannerReadsBack ==
  outcome = "resolved" =>
    LET banner == log_startup(config)
        detection == detection_ms(config)
    IN  /\ apply("interval_ms", banner.interval) = {config.interval_ms}
        /\ apply("timeout_ms", banner.timeout) = {config.timeout_ms}
        /\ UNION {apply("start_delay_ms", text) : text \in banner.first_probe}
             = {config.start_delay_ms} \ {0}
        /\ apply_duration(banner.detection, FALSE, UINT64_MAX) = {detection}
        /\ \/ detection = UINT64_MAX
           \/ detection >= (config.fail_threshold - 1) * config.interval_ms
                            + config.timeout_ms
=============================================================================
