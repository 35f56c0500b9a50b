------------------------------ MODULE Settings ------------------------------
(***************************************************************************)
(* The settings of the two programs: cli.Load of zot-warm, which merges    *)
(* flags, two names of an environment variable, the first configuration    *)
(* file it finds and defaults, and config.FromEnv of zot-cache-warmer,     *)
(* which reads the environment alone.  The settings do not depend on each  *)
(* other, so a behaviour is about one of them, `key'.                      *)
(*                                                                         *)
(* A value is a string.  That of the registry map is a record: its text,   *)
(* in the environment, is a sequence of comma-separated entries; a flag    *)
(* gives a map, and a file a map, a text or something else.                *)
(***************************************************************************)
EXTENDS Integers, Sequences, SequencesExt

CONSTANTS
    Absent,             \* no such flag or file; a variable unset or empty
    Broken,             \* a file that does not parse
    Refused,            \* the loader returns an error
    Integer,            \* strings strconv.Atoi reads -> their value
    Duration,           \* strings time.ParseDuration reads -> 0 or less, or more
    Unitless,           \* strings of digits -> nanoseconds, 0 or more
    Truth,              \* strings strconv.ParseBool reads -> their value
    Levels,             \* the log levels
    HttpPrefixed,       \* strings that start with http:// or https://
    HttpHosted,         \* URLs with scheme http or https, any case, and a host
    Slashed,            \* strings that start with a slash
    DefaultRegistryMap, \* of internal/cli/defaults.go
    DefaultOf,          \* the other defaults of internal/cli/defaults.go
    Samples             \* key -> [flag, own, shared, file |-> the values to try]

Keys == {"zot-url", "registry-map", "rate-limit-ms", "scan-timeout",
         "log-level", "zot-insecure"}

\* The keys for which Load also looks at the variable of the CronJob.
Aliased == {"zot-url", "registry-map"}

\* An entry of the registry map's text is a pair only with something on both
\* sides.
Entry == [form : {"blank", "bad"}, key : STRING, val : STRING]
             \cup [form : {"pair"}, key : STRING \ {""}, val : STRING \ {""}]

\* The defaults are good values, and the CronJob's variable gives a text.
ASSUME SettingsAssumption ==
    /\ DefaultOf["rate-limit-ms"] \in DOMAIN Integer
    /\ Integer[DefaultOf["rate-limit-ms"]] >= 0
    /\ DefaultOf["scan-timeout"] \in DOMAIN Duration
    /\ Duration[DefaultOf["scan-timeout"]] > 0
    /\ \A v \in Samples["registry-map"].shared : v.type = "text" /\ v.text \in Seq(Entry)

VARIABLES
    key,
    flag,       \* the value of --<key>, or Absent
    own,        \* of ZOT_WARM_<KEY>
    shared,     \* of the CronJob's variable
    files,      \* place -> Absent, Broken, or the value the file has for key
    cli,        \* what Load has made of key; Absent before
    cluster     \* what FromEnv has made of it

vars == <<key, flag, own, shared, files, cli, cluster>>

\* ./zot-warm.yaml, ./config.yaml, the user's and the system's file.
Places == 1..4

Init ==
    /\ key \in Keys
    /\ flag \in Samples[key].flag \cup {Absent}
    /\ own \in Samples[key].own \cup {Absent}
    /\ shared \in Samples[key].shared \cup {Absent}
    /\ files \in [Places -> Samples[key].file \cup {Absent, Broken}]
    /\ cli = Absent
    /\ cluster = Absent

-----------------------------------------------------------------------------
(* The registry map.  An entry is blank, a pair, or neither.                *)

Pairs(text) == {e \in ToSet(text) : e.form = "pair"}

\* No key twice, even with one value.
Unique(text) ==
    \A j, k \in 1..Len(text) :
        (/\ text[j].form = "pair"
         /\ text[k].form = "pair"
         /\ text[j].key = text[k].key) => j = k

WellFormed(text) ==
    (\A e \in ToSet(text) : e.form \in {"blank", "pair"}) /\ Unique(text)

MapOf(text) ==
    [k \in {e.key : e \in Pairs(text)} |->
        (CHOOSE e \in Pairs(text) : e.key = k).val]

\* Mutant of parseRegistryMapString: of two entries for a key one is taken.
LastEntryWins(text) ==
    IF \A e \in ToSet(text) : e.form \in {"blank", "pair"} THEN MapOf(text) ELSE Refused

parseRegistryMapString(text) == IF WellFormed(text) THEN MapOf(text) ELSE Refused

parseRegistryMap(text) ==
    IF WellFormed(text) /\ \A e \in Pairs(text) : e.val \notin Slashed
    THEN MapOf(text) ELSE Refused

\* Another type, or a map with a value that is no string, is refused.
resolveRegistryMap(v) ==
    CASE v.type = "map"  -> v.map
      [] v.type = "text" -> parseRegistryMapString(v.text)
      [] OTHER           -> Refused

-----------------------------------------------------------------------------
(* cli.Load                                                                 *)

IsRegular(p) == files[p] # Absent

\* The first file there is, readable or not; 0 if there is none.
findConfigFile ==
    IF \E p \in Places : IsRegular(p)
    THEN CHOOSE p \in Places : IsRegular(p) /\ \A q \in 1..(p - 1) : ~IsRegular(q)
    ELSE 0

\* A file that cannot be read is a warning, and gives nothing.
FromFile ==
    IF findConfigFile = 0 \/ files[findConfigFile] = Broken
    THEN Absent ELSE files[findConfigFile]

Default == IF key = "registry-map" THEN [type |-> "map", map |-> DefaultRegistryMap]
                                   ELSE DefaultOf[key]

Chosen ==
    IF flag # Absent THEN flag
    ELSE IF own # Absent THEN own
    ELSE IF key \in Aliased /\ shared # Absent THEN shared
    ELSE IF FromFile # Absent THEN FromFile
    ELSE Default

\* Viper's getters: what does not parse is the zero value, and a duration
\* without a unit is in nanoseconds.
Convert(v) ==
    CASE key = "registry-map"  -> resolveRegistryMap(v)
      [] key = "rate-limit-ms" -> IF v \in DOMAIN Integer THEN Integer[v] ELSE 0
      [] key = "scan-timeout"  -> IF v \in DOMAIN Duration THEN Duration[v]
                                  ELSE IF v \in DOMAIN Unitless THEN Unitless[v]
                                  ELSE 0
      [] key = "zot-insecure"  -> IF v \in DOMAIN Truth THEN Truth[v] ELSE FALSE
      [] OTHER                 -> v

Validate(c) ==
    CASE key = "zot-url"       -> c \in HttpPrefixed
      [] key = "rate-limit-ms" -> c >= 0
      [] key = "log-level"     -> c \in Levels
      [] key = "scan-timeout"  -> c > 0
      [] key = "registry-map"  -> \A k \in DOMAIN c : /\ k # "" /\ c[k] # ""
                                                      /\ c[k] \notin Slashed
      [] OTHER                 -> TRUE

Load ==
    /\ cli = Absent
    /\ cli' = LET c == Convert(Chosen)
              IN  IF c = Refused THEN Refused
                  ELSE IF Validate(c) THEN c ELSE Refused
    /\ UNCHANGED <<key, flag, own, shared, files, cluster>>

-----------------------------------------------------------------------------
(* config.FromEnv, which has defaults of its own.                           *)

ClusterDefault ==
    CASE key = "zot-url"      -> Refused
      [] key = "registry-map" -> MapOf(<<>>)
      [] OTHER                -> Convert(DefaultOf[key])

Strict(v) ==
    CASE key = "zot-url"       -> IF v \in HttpHosted THEN v ELSE Refused
      [] key = "registry-map"  -> parseRegistryMap(v.text)
      [] key = "rate-limit-ms" -> IF v \in DOMAIN Integer /\ Integer[v] >= 0
                                  THEN Integer[v] ELSE Refused
      [] key = "log-level"     -> IF v \in Levels THEN v ELSE Refused
      [] key = "scan-timeout"  -> IF v \in DOMAIN Duration /\ Duration[v] > 0
                                  THEN Duration[v] ELSE Refused
      [] key = "zot-insecure"  -> IF v \in DOMAIN Truth THEN Truth[v] ELSE Refused

FromEnv ==
    /\ cluster = Absent
    /\ cluster' = IF shared # Absent THEN Strict(shared) ELSE ClusterDefault
    /\ UNCHANGED <<key, flag, own, shared, files, cli>>

Next == Load \/ FromEnv

Spec == Init /\ [][Next]_vars

-----------------------------------------------------------------------------

Both == cli # Absent /\ cluster # Absent

\* Load has only the variables of the CronJob to go by.
OnlyShared == flag = Absent /\ own = Absent /\ shared # Absent

\* One text of ZOT_REGISTRY_MAP means one thing: the two parsers, of which one
\* checks slashes itself and the other leaves them to Validate, give both
\* programs the same map or refuse it both, so that what the one warms the
\* other finds (parseRegistryMap, parseRegistryMapString, Validate).
MapsAgree ==
    (Both /\ key = "registry-map" /\ OnlyShared) => cli = cluster

=============================================================================
