----------------------------- MODULE MCSettings -----------------------------
(***************************************************************************)
(* For each setting a good value, those the loaders treat differently, and *)
(* those they refuse.                                                      *)
(***************************************************************************)
EXTENDS Settings

MCInteger  == "250" :> 250 @@ "-1" :> -1
MCDuration == "15m" :> 900 @@ "-5m" :> -300
MCUnitless == "900" :> 1
MCTruth    == "true" :> TRUE @@ "false" :> FALSE
MCLevels   == {"debug", "info", "warn", "error"}

MCHttpPrefixed == {"https://zot", "https://"}
MCHttpHosted   == {"https://zot", "HTTPS://zot"}
MCSlashed      == {"/hub", "/gh"}

MCDefaultRegistryMap == "docker.io" :> "docker-images" @@ "ghcr.io" :> "ghcr-images"

MCDefaultOf ==
    [k \in Keys \ {"registry-map"} |->
        CASE k = "zot-url"       -> "https://zot"
          [] k = "rate-limit-ms" -> "250"
          [] k = "scan-timeout"  -> "15m"
          [] k = "log-level"     -> "info"
          [] k = "zot-insecure"  -> "false"]

Pair(k, v) == [form |-> "pair", key |-> k, val |-> v]
NoPair(f)  == [form |-> f, key |-> "", val |-> ""]

Entries == {Pair("docker.io", "hub"), Pair("docker.io", "/hub"),
            Pair("ghcr.io", "gh"), NoPair("blank"), NoPair("bad")}

Text(t) == [type |-> "text", text |-> t]

\* One entry, two, and a key that comes again after others.
Texts == {Text(t) : t \in UNION {[1..n -> Entries] : n \in 1..2}}
             \cup {Text(<<Pair("docker.io", "hub"), Pair("ghcr.io", "gh"), e>>) :
                     e \in Entries}

Maps == {[type |-> "map", map |-> m] :
            m \in {"docker.io" :> "hub", "docker.io" :> "/hub", "ghcr.io" :> ""}}

\* What a file may have under the key: a map, a text, a list.
Filed == {[type |-> "map", map |-> "ghcr.io" :> "/gh"],
          Text(<<Pair("ghcr.io", "gh"), NoPair("blank")>>), [type |-> "odd"]}

Try(f, o, s, y) == [flag |-> f, own |-> o, shared |-> s, file |-> y]
Env(f, e, y)    == Try(f, e, e, y)

URLs == {"https://zot", "https://", "HTTPS://zot", "zot:5000"}

MCSamples ==
    [k \in Keys |->
        CASE k = "zot-url"       -> Env(URLs \cup {""}, URLs, {"https://zot"})
          [] k = "registry-map"  -> Try(Maps, {Text(<<Pair("ghcr.io", "gh")>>)},
                                        Texts, Filed)
          [] k = "rate-limit-ms" -> Env({"250", "-1"}, {"250", "-1", "abc"}, {"abc"})
          [] k = "scan-timeout"  -> Env({"15m", "-5m"}, {"15m", "-5m", "900", "abc"}, {"900"})
          [] k = "log-level"     -> Env({"warn", "loud"}, {"warn", "loud"}, {"debug"})
          [] k = "zot-insecure"  -> Env({"true", "false"}, {"true", "maybe"}, {"true"})]

=============================================================================
