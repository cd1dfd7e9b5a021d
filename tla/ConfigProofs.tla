---------------------------- MODULE ConfigProofs ---------------------------
(***************************************************************************)
(* Proofs about the configuration, for every width of the types, every set *)
(* of texts and all defaults in range.                                     *)
(***************************************************************************)
EXTENDS Config, TLAPS

\* Every field has the value that its text denotes, or its default.
Meant ==
  \A field \in Fields :
    IF field \in DOMAIN env
    THEN config[field] \in Allowed(field)
         /\ Denotes(field, env[field], config[field])
    ELSE config[field] = load_defaults[field]

Inductive ==
  /\ TypeOK
  /\ outcome # "rejected" => Meant
  /\ outcome = "resolved" => validate
  /\ OnlyBadRejected

-----------------------------------------------------------------------------
(* Arithmetic.                                                             *)

\* Products of naturals are naturals.
LEMMA Product == \A a, b \in Nat : a * b \in Nat
OBVIOUS

\* A positive factor does not decrease a number, and only zero gives zero.
LEMMA Factor == \A a \in Nat, k \in Nat \ {0} : a <= a * k /\ (a * k = 0 => a = 0)
OBVIOUS

\* A number that fits the type is its own remainder.
LEMMA SmallRemainder == \A a, b \in Nat : a <= b => a % (b + 1) = a
OBVIOUS

\* Exact division.
LEMMA Exact == \A a \in Nat, b \in Nat \ {0} :
                 a \div b \in Nat /\ (a % b = 0 => (a \div b) * b = a)
OBVIOUS

\* Comparing with the quotient compares the product.
LEMMA Compared == \A a, b \in Nat, k \in Nat \ {0} : a > b \div k <=> a * k > b
OBVIOUS

\* The constants in one place.
LEMMA Constants ==
  /\ UINT64_MAX \in Nat \ {0} /\ INT_MAX \in Nat \ {0} /\ MS_PER_SEC \in Nat \ {0}
  /\ INT_MAX * MS_PER_SEC \in Nat /\ INT_MAX <= INT_MAX * MS_PER_SEC
  /\ INT_MAX * MS_PER_SEC <= UINT64_MAX /\ INT_MAX <= UINT64_MAX
<1>1. /\ UINT64_MAX \in Nat \ {0} /\ INT_MAX \in Nat \ {0} /\ MS_PER_SEC \in Nat \ {0}
      /\ INT_MAX * MS_PER_SEC <= UINT64_MAX
  BY WidthAssumption, Uint64Assumption
<1>2. INT_MAX * MS_PER_SEC \in Nat /\ INT_MAX <= INT_MAX * MS_PER_SEC
  BY <1>1, Product, Factor
<1>. QED  BY <1>1, <1>2

\* The two ranges of durations.
LEMMA Ranges ==
  ASSUME NEW m \in Nat, NEW v
  PROVE  /\ v \in 1 .. m <=> v \in Nat /\ v <= m /\ v # 0
         /\ v \in 0 .. m <=> v \in Nat /\ v <= m
OBVIOUS

-----------------------------------------------------------------------------
(* The appliers.                                                           *)

\* A duration is accepted exactly when its exact value is in range: nothing
\* wraps around (apply_duration).
LEMMA DurationExact ==
  ASSUME NEW text \in Number, NEW zero \in BOOLEAN, NEW max \in Nat, max <= UINT64_MAX,
         NEW v
  PROVE  v \in apply_duration(text, zero, max)
           <=> /\ text.digit
               /\ \/ text.suffix = "s" /\ v = text.n * MS_PER_SEC
                  \/ text.suffix = "ms" /\ v = text.n
               /\ v \in Nat /\ v <= max /\ (v = 0 => zero)
<1>. USE Constants
<1>. DEFINE n == text.n
            unit == unit_ms[text.suffix]
            Good(k) == /\ text.digit /\ k <= UINT64_MAX /\ (k = 0 => zero)
                       /\ text.suffix \in {"s", "ms"}
                       /\ ~(k * unit > UINT64_MAX)
<1>0. n \in Nat
  BY DEF Number
<1>1. v \in apply_duration(text, zero, max)
        <=> /\ Good(n) /\ v = (n * unit) % (UINT64_MAX + 1)
            /\ (v = 0 => zero) /\ v <= max
  BY DEF apply_duration, strtoull, ckd_mul
<1>2. CASE text.suffix \notin {"s", "ms"}
  BY <1>1, <1>2
<1>3. CASE text.suffix \in {"s", "ms"}
  <2>1. /\ unit \in Nat \ {0}
        /\ text.suffix = "s" => unit = MS_PER_SEC
        /\ text.suffix = "ms" => unit = 1
    BY <1>3 DEF unit_ms
  <2>. HIDE DEF unit
  <2>2. n * unit \in Nat /\ n <= n * unit /\ (n * unit = 0 => n = 0)
    BY <1>0, <2>1, Product, Factor
  <2>3. n * unit <= UINT64_MAX => (n * unit) % (UINT64_MAX + 1) = n * unit
    BY <2>2, SmallRemainder
  <2>4. v \in apply_duration(text, zero, max)
          <=> /\ text.digit /\ v = n * unit
              /\ v <= max /\ (v = 0 => zero)
    <3>1. ASSUME v \in apply_duration(text, zero, max)
          PROVE  text.digit /\ v = n * unit /\ v <= max /\ (v = 0 => zero)
      BY <1>1, <2>2, <2>3, <3>1
    <3>2. ASSUME text.digit, v = n * unit, v <= max, v = 0 => zero
          PROVE  v \in apply_duration(text, zero, max)
      <4>1. n * unit <= UINT64_MAX /\ n <= UINT64_MAX
        BY <1>0, <2>2, <3>2
      <4>2. n = 0 => v = 0
        BY <2>1, <3>2
      <4>. QED  BY <1>0, <1>1, <1>3, <2>2, <2>3, <3>2, <4>1, <4>2
    <3>. QED  BY <3>1, <3>2
  <2>5. n * 1 = n
    BY <1>0
  <2>. QED  BY <1>0, <1>3, <2>1, <2>2, <2>4, <2>5
<1>. QED  BY <1>2, <1>3

\* The fields, and those with numeric texts.
LEMMA FieldNames ==
  /\ Fields = {"target", "interval_ms", "fail_threshold", "timeout_ms",
               "start_delay_ms", "poweroff", "log_level"}
  /\ Len(ENV_SPECS) = 7
  /\ \A k \in 1 .. Len(ENV_SPECS) : ENV_SPECS[k] \in Fields
<1>1. Len(ENV_SPECS) = 7
  BY DEF ENV_SPECS
<1>2. \A k \in 1 .. 7 : k \in {1, 2, 3, 4, 5, 6, 7}
  OBVIOUS
<1>3. /\ ENV_SPECS[1] = "target" /\ ENV_SPECS[2] = "interval_ms"
      /\ ENV_SPECS[3] = "fail_threshold" /\ ENV_SPECS[4] = "timeout_ms"
      /\ ENV_SPECS[5] = "start_delay_ms" /\ ENV_SPECS[6] = "poweroff"
      /\ ENV_SPECS[7] = "log_level"
  BY DEF ENV_SPECS
<1>4. Fields = {ENV_SPECS[k] : k \in 1 .. 7}
  BY <1>1 DEF Fields
<1>5. 1 .. 7 = {1, 2, 3, 4, 5, 6, 7}
  OBVIOUS
<1>6. Fields = {ENV_SPECS[k] : k \in {1, 2, 3, 4, 5, 6, 7}}
  BY <1>4, <1>5
<1>. HIDE DEF ENV_SPECS, Fields
<1>7. Fields = {"target", "interval_ms", "fail_threshold", "timeout_ms",
                "start_delay_ms", "poweroff", "log_level"}
  BY <1>3, <1>6
<1>. QED  BY <1>1, <1>4, <1>7

\* What a text of a field is.
Readable(field, text) ==
  /\ field \in Durations \cup {"fail_threshold"} => text \in Number
  /\ field = "target" => text \in Target

\* The texts of the instance are readable.
LEMMA TextsReadable ==
  ASSUME NEW field \in Fields, NEW text \in Texts(field)
  PROVE  Readable(field, text)
<1>1. CASE field = "target"
  BY <1>1, WidthAssumption DEF Readable, Texts, Durations
<1>2. CASE field \in {"poweroff", "log_level"}
  BY <1>2 DEF Readable, Durations
<1>3. CASE field \in {"interval_ms", "fail_threshold", "timeout_ms", "start_delay_ms"}
  <2>1. Texts(field) = Numbers
    BY <1>3 DEF Texts
  <2>. QED  BY <1>3, <2>1, WidthAssumption DEF Readable
<1>. QED  BY <1>1, <1>2, <1>3, FieldNames

\* Each adapter accepts a value exactly when the text denotes it and the
\* documentation allows it.
LEMMA ApplyExact ==
  ASSUME NEW field \in Fields, NEW text, Readable(field, text), NEW v
  PROVE  v \in apply(field, text) <=> v \in Allowed(field) /\ Denotes(field, text, v)
<1>. USE Constants
<1>1. CASE field = "target"
  BY <1>1 DEF apply, apply_string, Allowed, Denotes, Durations, Readable
<1>2. CASE field = "interval_ms"
  <2>1. text \in Number
    BY <1>2 DEF Readable, Durations
  <2>2. apply(field, text) = apply_duration(text, FALSE, INT_MAX * MS_PER_SEC)
    BY <1>2 DEF apply
  <2>3. Allowed(field) = 1 .. INT_MAX * MS_PER_SEC
    BY <1>2 DEF Allowed
  <2>4. Denotes(field, text, v) <=>
          /\ text.digit
          /\ \/ text.suffix = "s" /\ v = text.n * MS_PER_SEC
             \/ text.suffix = "ms" /\ v = text.n
    BY <1>2 DEF Denotes, Durations
  <2>5. v \in apply_duration(text, FALSE, INT_MAX * MS_PER_SEC)
          <=> Denotes(field, text, v) /\ v \in Nat /\ v <= INT_MAX * MS_PER_SEC
              /\ v # 0
    BY <2>1, <2>4, DurationExact
  <2>. QED  BY <2>2, <2>3, <2>5, Ranges
<1>3. CASE field = "fail_threshold"
  <2>1. text \in Number /\ text.n \in Nat
    BY <1>3 DEF Readable, Number
  <2>2. v \in apply(field, text) <=>
          /\ v = text.n /\ text.digit /\ v <= UINT64_MAX
          /\ text.suffix = "" /\ v >= 1 /\ v <= INT_MAX
    BY <1>3 DEF apply, apply_positive_int, strtoull
  <2>3. Allowed(field) = 1 .. INT_MAX
    BY <1>3 DEF Allowed
  <2>4. Denotes(field, text, v) <=> text.digit /\ text.suffix = "" /\ v = text.n
    BY <1>3 DEF Denotes, Durations
  <2>5. text.n \in Allowed(field) <=>
          text.n >= 1 /\ text.n <= INT_MAX /\ text.n <= UINT64_MAX
    BY <2>1, <2>3
  <2>. QED  BY <2>2, <2>4, <2>5
<1>4. CASE field = "timeout_ms"
  <2>1. text \in Number
    BY <1>4 DEF Readable, Durations
  <2>2. apply(field, text) = apply_duration(text, FALSE, INT_MAX)
    BY <1>4 DEF apply
  <2>3. Allowed(field) = 1 .. INT_MAX
    BY <1>4 DEF Allowed
  <2>4. Denotes(field, text, v) <=>
          /\ text.digit
          /\ \/ text.suffix = "s" /\ v = text.n * MS_PER_SEC
             \/ text.suffix = "ms" /\ v = text.n
    BY <1>4 DEF Denotes, Durations
  <2>5. v \in apply_duration(text, FALSE, INT_MAX)
          <=> Denotes(field, text, v) /\ v \in Nat /\ v <= INT_MAX /\ v # 0
    BY <2>1, <2>4, DurationExact
  <2>. QED  BY <2>2, <2>3, <2>5, Ranges
<1>5. CASE field = "start_delay_ms"
  <2>1. text \in Number
    BY <1>5 DEF Readable, Durations
  <2>2. apply(field, text) = apply_duration(text, TRUE, INT_MAX)
    BY <1>5 DEF apply
  <2>3. Allowed(field) = 0 .. INT_MAX
    BY <1>5 DEF Allowed
  <2>4. Denotes(field, text, v) <=>
          /\ text.digit
          /\ \/ text.suffix = "s" /\ v = text.n * MS_PER_SEC
             \/ text.suffix = "ms" /\ v = text.n
    BY <1>5 DEF Denotes, Durations
  <2>5. v \in apply_duration(text, TRUE, INT_MAX)
          <=> Denotes(field, text, v) /\ v \in Nat /\ v <= INT_MAX
    BY <2>1, <2>4, DurationExact
  <2>. QED  BY <2>2, <2>3, <2>5, Ranges
<1>6. CASE field = "poweroff"
  BY <1>6 DEF apply, apply_bool, Allowed, Denotes, Durations
<1>7. CASE field = "log_level"
  BY <1>7 DEF apply, apply_log_level, Allowed, Denotes, Durations
<1>. QED  BY <1>1, <1>2, <1>3, <1>4, <1>5, <1>6, <1>7, FieldNames

-----------------------------------------------------------------------------
(* The fields of the configuration.                                        *)

\* Allowed values and the type of the record are the same.
LEMMA Typed ==
  ASSUME NEW c, DOMAIN c = Fields, \A field \in Fields : c[field] \in Allowed(field)
  PROVE  /\ c.target \in Target \ {"too long"}
         /\ c.interval_ms \in 1 .. INT_MAX * MS_PER_SEC
         /\ c.fail_threshold \in 1 .. INT_MAX
         /\ c.timeout_ms \in 1 .. INT_MAX
         /\ c.start_delay_ms \in 0 .. INT_MAX
         /\ c.poweroff \in BOOLEAN
         /\ c.log_level \in Level
BY FieldNames DEF Allowed

\* The defaults are allowed.
LEMMA Defaults ==
  /\ load_defaults \in ls_config_t
  /\ \A field \in Fields : load_defaults[field] \in Allowed(field)
<1>1. /\ load_defaults["target"] \in Allowed("target")
      /\ load_defaults["interval_ms"] \in Allowed("interval_ms")
      /\ load_defaults["fail_threshold"] \in Allowed("fail_threshold")
      /\ load_defaults["timeout_ms"] \in Allowed("timeout_ms")
      /\ load_defaults["start_delay_ms"] \in Allowed("start_delay_ms")
      /\ load_defaults["poweroff"] \in Allowed("poweroff")
      /\ load_defaults["log_level"] \in Allowed("log_level")
  BY DefaultsAssumption DEF load_defaults, Allowed, Target, Level
<1>2. load_defaults \in ls_config_t
  BY DefaultsAssumption, Constants DEF load_defaults, ls_config_t, Target, Level, Uint64
<1>. QED  BY <1>1, <1>2, FieldNames

\* What is meant is allowed.
LEMMA MeantAllowed ==
  ASSUME Meant
  PROVE  \A field \in Fields : config[field] \in Allowed(field)
BY Defaults DEF Meant

\* Setting a field to an allowed value keeps the type.
LEMMA SetField ==
  ASSUME config \in ls_config_t, NEW field \in Fields, NEW v \in Allowed(field)
  PROVE  /\ [config EXCEPT ![field] = v] \in ls_config_t
         /\ [config EXCEPT ![field] = v][field] = v
         /\ \A f \in Fields : f # field => [config EXCEPT ![field] = v][f] = config[f]
<1>1. CASE field = "target"
  BY <1>1, FieldNames DEF ls_config_t, Allowed
<1>2. CASE field = "interval_ms"
  <2>1. v \in Uint64
    BY <1>2, Constants DEF Allowed, Uint64
  <2>. QED  BY <1>2, <2>1, FieldNames DEF ls_config_t
<1>3. CASE field = "fail_threshold"
  BY <1>3, FieldNames DEF ls_config_t, Allowed
<1>4. CASE field = "timeout_ms"
  <2>1. v \in Uint64
    BY <1>4, Constants DEF Allowed, Uint64
  <2>. QED  BY <1>4, <2>1, FieldNames DEF ls_config_t
<1>5. CASE field = "start_delay_ms"
  <2>1. v \in Uint64
    BY <1>5, Constants DEF Allowed, Uint64
  <2>. QED  BY <1>5, <2>1, FieldNames DEF ls_config_t
<1>6. CASE field = "poweroff"
  BY <1>6, FieldNames DEF ls_config_t, Allowed
<1>7. CASE field = "log_level"
  BY <1>7, FieldNames DEF ls_config_t, Allowed
<1>. QED  BY <1>1, <1>2, <1>3, <1>4, <1>5, <1>6, <1>7, FieldNames

-----------------------------------------------------------------------------
(* The invariant.                                                          *)

\* The defaults satisfy the invariant.
LEMMA InitInductive == Init => Inductive
<1>. SUFFICES ASSUME Init PROVE Inductive
  OBVIOUS
<1>1. DOMAIN env = {}
  BY DEF Init
<1>2. TypeOK
  BY <1>1, Defaults, FieldNames DEF Init, TypeOK
<1>3. Meant
  BY <1>1 DEF Init, Meant
<1>. QED  BY <1>2, <1>3 DEF Init, Inductive, OnlyBadRejected

\* One variable, unset, accepted or rejected.
LEMMA LoadKept ==
  ASSUME Inductive, load_env
  PROVE  Inductive'
<1>. DEFINE field == ENV_SPECS[i]
<1>1. /\ config \in ls_config_t /\ i \in Nat /\ i >= 1 /\ i <= 7 /\ Meant
      /\ DOMAIN env \subseteq Fields /\ runtime \in BOOLEAN
      /\ \A f \in DOMAIN env : env[f] \in Texts(f)
  BY FieldNames DEF Inductive, TypeOK, load_env
<1>2. i' = i + 1 /\ i' \in 1 .. Len(ENV_SPECS) + 1 /\ UNCHANGED runtime
  BY <1>1, FieldNames DEF load_env
<1>3. field \in Fields
  BY <1>1, FieldNames
<1>4. outcome = "loading"
  BY DEF load_env
<1>5. CASE UNCHANGED <<config, env, outcome>>
  <2>1. TypeOK'
    BY <1>1, <1>2, <1>5 DEF Inductive, TypeOK
  <2>2. Meant'
    BY <1>1, <1>5 DEF Meant
  <2>. QED  BY <1>4, <1>5, <2>1, <2>2 DEF Inductive, OnlyBadRejected
<1>6. ASSUME NEW text \in Texts(field),
             env' = [f \in DOMAIN env \cup {field} |->
                       IF f = field THEN text ELSE env[f]],
             \/ apply(field, text) = {} /\ outcome' = "rejected" /\ UNCHANGED config
             \/ \E v \in apply(field, text) :
                  config' = [config EXCEPT ![field] = v] /\ UNCHANGED outcome
      PROVE  Inductive'
  <2>. HIDE DEF field
  <2>1. /\ DOMAIN env' = DOMAIN env \cup {field} /\ env'[field] = text
        /\ \A f \in DOMAIN env : f # field => env'[f] = env[f]
    BY <1>6
  <2>2. /\ DOMAIN env' \subseteq Fields
        /\ \A f \in DOMAIN env' : env'[f] \in Texts(f)
    BY <1>1, <1>3, <1>6, <2>1
  <2>3. \A v : v \in apply(field, text) <=>
                 v \in Allowed(field) /\ Denotes(field, text, v)
    BY <1>3, <1>6, TextsReadable, ApplyExact
  <2>4. CASE apply(field, text) = {} /\ outcome' = "rejected" /\ UNCHANGED config
    <3>1. TypeOK'
      BY <1>1, <1>2, <2>2, <2>4 DEF TypeOK
    <3>2. \A v \in Allowed(field) : ~Denotes(field, env'[field], v)
      BY <2>1, <2>3, <2>4
    <3>3. OnlyBadRejected'
      BY <2>1, <3>2 DEF OnlyBadRejected
    <3>. QED  BY <2>4, <3>1, <3>3 DEF Inductive
  <2>5. CASE \E v \in apply(field, text) :
               config' = [config EXCEPT ![field] = v] /\ UNCHANGED outcome
    <3>1. PICK v \in apply(field, text) :
            config' = [config EXCEPT ![field] = v] /\ UNCHANGED outcome
      BY <2>5
    <3>2. v \in Allowed(field) /\ Denotes(field, text, v)
      BY <2>3
    <3>3. /\ config' \in ls_config_t /\ config'[field] = v
          /\ \A f \in Fields : f # field => config'[f] = config[f]
      <4>. DEFINE c == [config EXCEPT ![field] = v]
      <4>1. /\ c \in ls_config_t /\ c[field] = v
            /\ \A f \in Fields : f # field => c[f] = config[f]
        <5>1. config \in ls_config_t /\ field \in Fields /\ v \in Allowed(field)
          BY <1>1, <1>3, <3>2
        <5>. QED  BY <5>1, SetField
      <4>2. config' = c
        BY <3>1
      <4>. HIDE DEF c
      <4>. QED  BY <4>1, <4>2
    <3>4. TypeOK'
      <4>1. outcome' \in {"loading", "resolved", "rejected"} /\ runtime' \in BOOLEAN
        BY <1>1, <1>2, <1>4, <3>1
      <4>. QED  BY <1>2, <2>2, <3>3, <4>1, Zenon DEF TypeOK
    <3>5. Meant'
      <4>. SUFFICES ASSUME NEW f \in Fields
           PROVE  IF f \in DOMAIN env'
                  THEN config'[f] \in Allowed(f) /\ Denotes(f, env'[f], config'[f])
                  ELSE config'[f] = load_defaults[f]
        BY Zenon DEF Meant
      <4>1. CASE f = field
        BY <2>1, <3>2, <3>3, <4>1
      <4>2. CASE f # field
        <5>1. f \in DOMAIN env' <=> f \in DOMAIN env
          BY <2>1, <4>2
        <5>2. config'[f] = config[f] /\ (f \in DOMAIN env => env'[f] = env[f])
          BY <2>1, <3>3, <4>2
        <5>. QED  BY <1>1, <5>1, <5>2, Zenon DEF Meant
      <4>. QED  BY <4>1, <4>2
    <3>. QED  BY <1>4, <3>1, <3>4, <3>5 DEF Inductive, OnlyBadRejected
  <2>. QED  BY <1>6, <2>4, <2>5
<1>. QED  BY <1>5, <1>6 DEF load_env

\* The cross-checks.
LEMMA ResolveKept ==
  ASSUME Inductive, ls_config_resolve
  PROVE  Inductive'
<1>1. /\ UNCHANGED <<config, i, env, runtime>> /\ outcome = "loading"
      /\ outcome' = IF validate THEN "resolved" ELSE "rejected"
      /\ i > Len(ENV_SPECS)
  BY DEF ls_config_resolve
<1>2. TypeOK'
  BY <1>1 DEF Inductive, TypeOK
<1>3. Meant'
  BY <1>1 DEF Inductive, Meant
<1>4. outcome' = "resolved" => validate'
  BY <1>1 DEF validate, ls_addr_is_literal
<1>5. ASSUME ~validate PROVE
        \/ config.target \notin {"ipv4", "ipv6"}
        \/ config.timeout_ms >= config.interval_ms
        \/ config.poweroff /\ ~runtime
  BY <1>5 DEF validate, ls_addr_is_literal
<1>6. OnlyBadRejected'
  BY <1>1, <1>5 DEF OnlyBadRejected
<1>. QED  BY <1>2, <1>3, <1>4, <1>6 DEF Inductive

\* Nothing happens once the configuration is resolved or rejected.
LEMMA StutterKept == Inductive /\ UNCHANGED vars => Inductive'
BY DEF vars, Inductive, TypeOK, Meant, validate, ls_addr_is_literal, OnlyBadRejected

-----------------------------------------------------------------------------
(* The theorems.                                                           *)

\* Every reachable state satisfies the invariant.
THEOREM ConfigInvariance == Spec => []Inductive
<1>1. Inductive /\ [Next]_vars => Inductive'
  BY LoadKept, ResolveKept, StutterKept DEF Next
<1>. QED  BY InitInductive, <1>1, PTL DEF Spec

\* What has been accepted fits its field.
THEOREM ConfigTypes == Spec => []TypeOK
<1>1. Inductive => TypeOK
  BY DEF Inductive
<1>. QED  BY <1>1, ConfigInvariance, PTL

\* A resolved configuration is what the environment spells.
THEOREM TextsAreUnderstood == Spec => []AcceptedAsMeant
<1>1. Inductive => AcceptedAsMeant
  BY Zenon DEF Inductive, AcceptedAsMeant, Meant
<1>. QED  BY <1>1, ConfigInvariance, PTL

\* Only bad configurations are rejected.
THEOREM NoneIsRejectedWrongly == Spec => []OnlyBadRejected
<1>1. Inductive => OnlyBadRejected
  BY DEF Inductive
<1>. QED  BY <1>1, ConfigInvariance, PTL

\* The values of a resolved configuration.
LEMMA Resolved ==
  ASSUME Inductive, outcome = "resolved"
  PROVE  /\ config.interval_ms \in 1 .. INT_MAX * MS_PER_SEC
         /\ config.fail_threshold \in 1 .. INT_MAX
         /\ config.timeout_ms \in 1 .. INT_MAX
         /\ config.start_delay_ms \in 0 .. INT_MAX
         /\ config.timeout_ms < config.interval_ms
         /\ \A field \in Durations : /\ config[field] \in Allowed(field)
                                     /\ config[field] \in 0 .. INT_MAX * MS_PER_SEC
<1>1. config \in ls_config_t /\ Meant /\ validate
  BY DEF Inductive, TypeOK
<1>2. \A field \in Fields : config[field] \in Allowed(field)
  BY <1>1, MeantAllowed
<1>3. DOMAIN config = Fields
  BY <1>1, FieldNames DEF ls_config_t
<1>4. /\ config.interval_ms \in 1 .. INT_MAX * MS_PER_SEC
      /\ config.fail_threshold \in 1 .. INT_MAX
      /\ config.timeout_ms \in 1 .. INT_MAX
      /\ config.start_delay_ms \in 0 .. INT_MAX
  BY <1>2, <1>3, Typed
<1>5. config.timeout_ms < config.interval_ms
  BY <1>1, <1>4, Constants DEF validate
<1>6. \A field \in Durations : config[field] \in Allowed(field)
  BY <1>2, FieldNames DEF Durations
<1>7. /\ config["interval_ms"] \in 0 .. INT_MAX * MS_PER_SEC
      /\ config["timeout_ms"] \in 0 .. INT_MAX * MS_PER_SEC
      /\ config["start_delay_ms"] \in 0 .. INT_MAX * MS_PER_SEC
  BY <1>4, Constants
<1>. QED  BY <1>4, <1>5, <1>6, <1>7 DEF Durations

\* The monitor is correct for every resolved configuration: it satisfies what
\* ConfigAssumption and RangeAssumption of Monitor ask of config.c.
THEOREM ResolvedIsSafe == Spec => []SafeForMonitor
<1>1. Inductive => SafeForMonitor
  <2>. SUFFICES ASSUME Inductive, outcome = "resolved" PROVE SafeForMonitor
    BY DEF SafeForMonitor
  <2>1. config.timeout_ms \in 1 .. config.interval_ms - 1
    BY Resolved, Constants
  <2>2. ASSUME NEW now \in 0 .. MaxUptime
        PROVE  LET due == ls_add_sat(now, config.start_delay_ms)
                   next == ls_add_sat(due, config.interval_ms)
               IN  /\ next = now + config.start_delay_ms + config.interval_ms
                   /\ next < UINT64_MAX
    <3>. DEFINE x == config.start_delay_ms
                y == config.interval_ms
                m == INT_MAX * MS_PER_SEC
    <3>1. /\ x \in Nat /\ y \in Nat /\ now \in Nat /\ m \in Nat /\ INT_MAX \in Nat
          /\ UINT64_MAX \in Nat /\ x <= INT_MAX /\ y <= m
          /\ now + m + INT_MAX < UINT64_MAX
      BY Resolved, WidthAssumption, Constants
    <3>. HIDE DEF x, y, m
    <3>2. now + x + y < UINT64_MAX /\ ~(x > UINT64_MAX - now) /\ ~(y > UINT64_MAX - (now + x))
      BY <3>1
    <3>3. ls_add_sat(now, x) = now + x /\ ls_add_sat(now + x, y) = now + x + y
      BY <3>1, <3>2 DEF ls_add_sat
    <3>. QED  BY <3>2, <3>3 DEF x, y
  <2>. QED  BY <2>1, <2>2, Resolved DEF SafeForMonitor
<1>. QED  BY <1>1, ConfigInvariance, PTL

\* A printed duration spells itself.
LEMMA Printed ==
  ASSUME NEW ms \in Nat
  PROVE  LET text == ls_format_duration(ms)
         IN  /\ text \in Number /\ text.digit
             /\ \/ text.suffix = "s" /\ text.n * MS_PER_SEC = ms
                \/ text.suffix = "ms" /\ text.n = ms
BY Constants, Exact DEF ls_format_duration, Number

\* It is read back as it was, within the limits of the reader.
LEMMA PrintedReadsBack ==
  ASSUME NEW ms \in Nat, NEW zero \in BOOLEAN, NEW max \in Nat,
         max <= UINT64_MAX, ms <= max, ms = 0 => zero
  PROVE  apply_duration(ls_format_duration(ms), zero, max) = {ms}
<1>. DEFINE text == ls_format_duration(ms)
<1>1. /\ text \in Number /\ text.digit
      /\ \/ text.suffix = "s" /\ text.n * MS_PER_SEC = ms
         \/ text.suffix = "ms" /\ text.n = ms
  BY Printed
<1>. HIDE DEF text
<1>2. ASSUME NEW v
      PROVE  v \in apply_duration(text, zero, max) <=> v = ms
  <2>1. v \in apply_duration(text, zero, max) <=>
          /\ text.digit
          /\ \/ text.suffix = "s" /\ v = text.n * MS_PER_SEC
             \/ text.suffix = "ms" /\ v = text.n
          /\ v \in Nat /\ v <= max /\ (v = 0 => zero)
    BY <1>1, DurationExact
  <2>2. CASE text.suffix = "s" /\ text.n * MS_PER_SEC = ms
    BY <1>1, <2>1, <2>2
  <2>3. CASE text.suffix = "ms" /\ text.n = ms
    BY <1>1, <2>1, <2>3
  <2>. QED  BY <1>1, <2>2, <2>3
<1>. QED  BY <1>2 DEF text

\* The detection time is a positive uint64_t, and saturated or long enough for
\* all but one of a periods b and a timeout t.
LEMMA DetectionTime ==
  ASSUME NEW a \in Nat \ {0}, NEW b \in Nat \ {0}, NEW t \in Nat, t < b
  PROVE  LET d == ls_mul_sat(a, b)
         IN  /\ d \in Nat \ {0} /\ d <= UINT64_MAX
             /\ d = UINT64_MAX \/ d >= (a - 1) * b + t
<1>1. ls_mul_sat(a, b) = IF a > UINT64_MAX \div b THEN UINT64_MAX ELSE a * b
  BY DEF ls_mul_sat
<1>2. a > UINT64_MAX \div b <=> a * b > UINT64_MAX
  BY Compared, Constants
<1>3. a * b \in Nat \ {0}
  BY Product, Factor
<1>4. a - 1 \in Nat /\ (a - 1) * b \in Nat /\ (a - 1) * b + b = a * b
  <2>1. a - 1 \in Nat /\ (a - 1) + 1 = a
    OBVIOUS
  <2>2. \A k \in Nat : k * b \in Nat /\ (k + 1) * b = k * b + b
    OBVIOUS
  <2>. QED  BY <2>1, <2>2
<1>. DEFINE p == a * b
            q == (a - 1) * b
<1>5. /\ p \in Nat \ {0} /\ q \in Nat /\ q + b = p
      /\ ls_mul_sat(a, b) = IF p > UINT64_MAX THEN UINT64_MAX ELSE p
  BY <1>1, <1>2, <1>3, <1>4
<1>. HIDE DEF p, q
<1>6. p >= q + t
  BY <1>5
<1>. QED  BY <1>5, <1>6, Constants DEF q

\* The banner shows the configuration as it is, and a detection time that is not
\* too short.
THEOREM BannerIsTrue == Spec => []BannerReadsBack
<1>1. Inductive => BannerReadsBack
  <2>. SUFFICES ASSUME Inductive, outcome = "resolved" PROVE BannerReadsBack
    BY Zenon DEF BannerReadsBack
  <2>. DEFINE a == config.fail_threshold
              b == config.interval_ms
              t == config.timeout_ms
              s == config.start_delay_ms
              m == INT_MAX * MS_PER_SEC
              banner == log_startup(config)
  <2>1. /\ a \in Nat \ {0} /\ b \in Nat \ {0} /\ b <= m
        /\ t \in Nat \ {0} /\ t <= INT_MAX /\ t < b /\ s \in Nat /\ s <= INT_MAX
    BY Resolved, Constants
  <2>2. /\ apply("interval_ms", banner.interval)
             = apply_duration(ls_format_duration(b), FALSE, m)
        /\ apply("timeout_ms", banner.timeout)
             = apply_duration(ls_format_duration(t), FALSE, INT_MAX)
        /\ banner.first_probe = IF s = 0 THEN {} ELSE {ls_format_duration(s)}
        /\ \A text : apply("start_delay_ms", text) = apply_duration(text, TRUE, INT_MAX)
        /\ banner.detection = ls_format_duration(detection_ms(config))
        /\ detection_ms(config) = ls_mul_sat(a, b)
    BY DEF apply, log_startup, detection_ms
  <2>. DEFINE d == detection_ms(config)
  <2>. HIDE DEF a, b, t, s, m, banner, d
  <2>3. /\ INT_MAX \in Nat /\ INT_MAX <= UINT64_MAX /\ m \in Nat /\ m <= UINT64_MAX
        /\ UINT64_MAX \in Nat
    BY Constants DEF m
  <2>4. apply_duration(ls_format_duration(b), FALSE, m) = {b}
    BY <2>1, <2>3, PrintedReadsBack, Zenon
  <2>5. apply_duration(ls_format_duration(t), FALSE, INT_MAX) = {t}
    BY <2>1, <2>3, PrintedReadsBack, Zenon
  <2>6. UNION {apply("start_delay_ms", text) : text \in banner.first_probe} = {s} \ {0}
    <3>1. CASE s = 0
      BY <2>2, <3>1
    <3>2. CASE s # 0
      <4>1. apply_duration(ls_format_duration(s), TRUE, INT_MAX) = {s}
        BY <2>1, <2>3, PrintedReadsBack, Zenon
      <4>. QED  BY <2>2, <3>2, <4>1, Zenon
    <3>. QED  BY <3>1, <3>2
  <2>7. /\ d \in Nat \ {0} /\ d <= UINT64_MAX
        /\ d = UINT64_MAX \/ d >= (a - 1) * b + t
    BY <2>1, <2>2, DetectionTime, Zenon DEF d
  <2>8. apply_duration(ls_format_duration(d), FALSE, UINT64_MAX) = {d}
    <3>1. d \in Nat /\ (d = 0 => FALSE) /\ UINT64_MAX <= UINT64_MAX
      BY <2>3, <2>7
    <3>. QED  BY <2>3, <2>7, <3>1, PrintedReadsBack, Zenon
  <2>. QED  BY <2>2, <2>4, <2>5, <2>6, <2>7, <2>8, Zenon
    DEF BannerReadsBack, a, b, t, s, banner, d
<1>. QED  BY <1>1, ConfigInvariance, PTL
=============================================================================
