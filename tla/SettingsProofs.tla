---------------------------- MODULE SettingsProofs ----------------------------
(***************************************************************************)
(* What the two loaders make of a setting, for every text of the registry  *)
(* map and every value of the others.                                      *)
(***************************************************************************)
EXTENDS Settings, TLAPS

\* What Load makes of the settings it finds, and FromEnv of its variable.
Loaded ==
    IF Convert(Chosen) = Refused THEN Refused
    ELSE IF Validate(Convert(Chosen)) THEN Convert(Chosen) ELSE Refused

FromShared == IF shared # Absent THEN Strict(shared) ELSE ClusterDefault

\* The sources do not change, and each loader looks at them once.
SettingsInv ==
    /\ key \in Keys
    /\ shared \in Samples[key].shared \cup {Absent}
    /\ cli \in {Absent, Loaded}
    /\ cluster \in {Absent, FromShared}

\* The result of a loader depends on the sources alone.
LEMMA SameSources ==
    ASSUME UNCHANGED <<key, flag, own, shared, files>>
    PROVE  Loaded' = Loaded /\ FromShared' = FromShared
BY DEF Loaded, FromShared, Convert, Chosen, FromFile, findConfigFile, IsRegular,
       Default, Validate, Strict, ClusterDefault

\* The invariant holds in every reachable state.
LEMMA AlwaysLoaded == Spec => []SettingsInv
<1>1. Init => SettingsInv
  BY DEF Init, SettingsInv
<1>2. SettingsInv /\ [Next]_vars => SettingsInv'
  <2> SUFFICES ASSUME SettingsInv, [Next]_vars PROVE SettingsInv'
    OBVIOUS
  <2>1. UNCHANGED <<key, flag, own, shared, files>>
    BY DEF Next, Load, FromEnv, vars
  <2>2. cli' \in {cli, Loaded} /\ cluster' \in {cluster, FromShared}
    BY DEF Next, Load, FromEnv, vars, Loaded, FromShared
  <2> QED
    BY <2>1, <2>2, SameSources DEF SettingsInv
<1> QED
  BY <1>1, <1>2, PTL DEF Spec

-----------------------------------------------------------------------------
(* The registry map.                                                        *)

\* The pairs of a text are those of its entries that have two sides.
LEMMA PairsOf ==
    ASSUME NEW t \in Seq(Entry)
    PROVE  \A e \in Pairs(t) : /\ e.key # "" /\ e.val # ""
                              /\ \E k \in 1..Len(t) : t[k] = e /\ e.form = "pair"
<1> SUFFICES ASSUME NEW e \in Pairs(t)
             PROVE  /\ e.key # "" /\ e.val # ""
                    /\ \E k \in 1..Len(t) : t[k] = e /\ e.form = "pair"
  OBVIOUS
<1>1. PICK k \in 1..Len(t) : t[k] = e
  BY DEF Pairs, ToSet
<1>2. e \in Entry /\ e.form = "pair"
  BY <1>1 DEF Pairs
<1>3. e \in [form : {"pair"}, key : STRING \ {""}, val : STRING \ {""}]
  BY <1>2 DEF Entry
<1> QED
  BY <1>1, <1>2, <1>3

\* A text without a key twice is a map: it has the value of each pair, and no
\* other.
LEMMA MapOfPairs ==
    ASSUME NEW t \in Seq(Entry), Unique(t)
    PROVE  /\ DOMAIN MapOf(t) = {e.key : e \in Pairs(t)}
           /\ \A e \in Pairs(t) : MapOf(t)[e.key] = e.val
<1>1. DOMAIN MapOf(t) = {e.key : e \in Pairs(t)}
  BY DEF MapOf
<1>2. ASSUME NEW d \in Pairs(t), NEW e \in Pairs(t), d.key = e.key
      PROVE  d = e
  <2>1. PICK j \in 1..Len(t) : t[j] = d /\ d.form = "pair"
    BY PairsOf
  <2>2. PICK k \in 1..Len(t) : t[k] = e /\ e.form = "pair"
    BY PairsOf
  <2> QED
    BY <1>2, <2>1, <2>2 DEF Unique
<1>3. ASSUME NEW e \in Pairs(t)
      PROVE  MapOf(t)[e.key] = e.val
  <2>1. (CHOOSE d \in Pairs(t) : d.key = e.key) = e
    BY <1>2
  <2>2. MapOf(t)[e.key] = (CHOOSE d \in Pairs(t) : d.key = e.key).val
    BY DEF MapOf
  <2> QED
    BY <2>1, <2>2
<1> QED
  BY <1>1, <1>3

\* What Validate asks of a map that comes from a text is what the parser of
\* FromEnv asks of the text.
LEMMA ValidText ==
    ASSUME NEW t \in Seq(Entry), Unique(t)
    PROVE  (\A k \in DOMAIN MapOf(t) : /\ k # "" /\ MapOf(t)[k] # ""
                                       /\ MapOf(t)[k] \notin Slashed)
               <=> \A e \in Pairs(t) : e.val \notin Slashed
<1>1. \A e \in Pairs(t) : MapOf(t)[e.key] = e.val /\ e.key # "" /\ e.val # ""
  BY MapOfPairs, PairsOf
<1>2. DOMAIN MapOf(t) = {e.key : e \in Pairs(t)}
  BY MapOfPairs
<1> QED
  BY <1>1, <1>2

\* One text of ZOT_REGISTRY_MAP means one map, or none, to both programs,
\* whatever entries it has in whatever order.
THEOREM OneMeaning == Spec => []MapsAgree
<1>1. SettingsInv => MapsAgree
  <2> SUFFICES ASSUME SettingsInv, Both, key = "registry-map", OnlyShared
               PROVE  Loaded = FromShared
    BY DEF MapsAgree, Both, SettingsInv
  <2>1. shared.type = "text" /\ shared.text \in Seq(Entry)
    BY SettingsAssumption DEF SettingsInv, OnlyShared
  <2>2. Convert(Chosen) = parseRegistryMapString(shared.text)
    BY <2>1 DEF Chosen, OnlyShared, Aliased, Convert, resolveRegistryMap
  <2>3. FromShared = parseRegistryMap(shared.text)
    BY DEF FromShared, OnlyShared, Strict
  <2>4. CASE ~WellFormed(shared.text)
    BY <2>2, <2>3, <2>4 DEF Loaded, parseRegistryMapString, parseRegistryMap
  <2>5. CASE WellFormed(shared.text)
    <3>1. Validate(MapOf(shared.text))
              <=> \A e \in Pairs(shared.text) : e.val \notin Slashed
      BY <2>1, <2>5, ValidText DEF Validate, WellFormed
    <3> QED
      BY <2>2, <2>3, <2>5, <3>1
         DEF Loaded, parseRegistryMapString, parseRegistryMap
  <2> QED
    BY <2>4, <2>5
<1> QED
  BY <1>1, AlwaysLoaded, PTL

=============================================================================
